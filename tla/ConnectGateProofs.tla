------------------------- MODULE ConnectGateProofs --------------------------
(***************************************************************************)
(* Proofs about ConnectGate, for any calls, devices, radios and readings of *)
(* the air: its types, the accounting of its tickets, its tick and its      *)
(* carriers (invariants), and what a pass grants (action properties).  The  *)
(* inductive invariant is the first three together: a ticket's count stays  *)
(* a natural number only because it counts the calls that hold it.  What a  *)
(* pass grants is proved by induction on the calls it judges, from what it  *)
(* has kept so far (SoFar).                                                 *)
(***************************************************************************)
EXTENDS ConnectGate, FiniteSetTheorems, WellFoundedInduction, TLAPS

-----------------------------------------------------------------------------
(* Induction over the natural numbers, on a set: a set that holds zero and  *)
(* the successor of each of its numbers holds them all.                     *)
LEMMA SetInduction ==
  ASSUME NEW S, 0 \in S, \A n \in Nat : n \in S => n + 1 \in S
  PROVE  \A n \in Nat : n \in S
<1> DEFINE T == {n \in Nat : n \notin S}
           R == OpToRel(<, Nat)
<1>1. IsWellFoundedOn(R, Nat)
  BY NatLessThanWellFounded
<1>2. SUFFICES ASSUME T # {} PROVE FALSE
  OBVIOUS
<1>3. \E x \in T : \A y \in T : ~ (<<y, x>> \in R)
  <2> HIDE DEF R
  <2> QED BY <1>1, <1>2, WFMin
<1>4. PICK x \in T : \A y \in T : ~ (y < x)
  BY <1>3 DEF OpToRel
<1>5. x # 0 /\ x - 1 \in Nat
  OBVIOUS
<1>6. x - 1 \in S
  BY <1>4, <1>5
<1> QED
  BY <1>5, <1>6

(* A finite set with a total preorder on it has a greatest element.         *)
LEMMA FiniteMaximum ==
  ASSUME NEW T, IsFiniteSet(T), NEW R,
         \A x, y \in T : <<x, y>> \in R \/ <<y, x>> \in R,
         \A x, y, z \in T : <<x, y>> \in R /\ <<y, z>> \in R => <<x, z>> \in R,
         NEW S \in SUBSET T, S # {}
  PROVE  \E m \in S : \A q \in S : <<m, q>> \in R
<1> DEFINE Has(U) == \E m \in U : \A q \in U : <<m, q>> \in R
           N == {n \in Nat : \A U \in SUBSET T : Cardinality(U) = n /\ U # {} => Has(U)}
<1>1. \A U \in SUBSET T : IsFiniteSet(U) /\ Cardinality(U) \in Nat
  BY FS_Subset, FS_CardinalityType
<1>2. 0 \in N
  BY <1>1, FS_EmptySet
<1>3. ASSUME NEW n \in Nat, n \in N PROVE n + 1 \in N
  <2>1. SUFFICES ASSUME NEW U \in SUBSET T, Cardinality(U) = n + 1, U # {}
                 PROVE  Has(U)
    OBVIOUS
  <2>2. PICK x \in U : TRUE
    BY <2>1
  <2>3. Cardinality(U \ {x}) = n
    <3>1. IsFiniteSet(U)
      BY <1>1
    <3>2. Cardinality(U \ {x}) = Cardinality(U) - 1
      BY <3>1, FS_RemoveElement
    <3> QED BY <2>1, <3>2
  <2>4. CASE U \ {x} = {}
    <3>1. \A q \in U : q = x
      BY <2>4
    <3>2. <<x, x>> \in R
      OBVIOUS
    <3> QED BY <3>1, <3>2
  <2>5. CASE U \ {x} # {}
    <3>1. Has(U \ {x})
      BY <1>3, <2>3, <2>5
    <3>2. PICK m \in U \ {x} : \A q \in U \ {x} : <<m, q>> \in R
      BY <3>1
    <3>3. CASE <<m, x>> \in R
      BY <3>2, <3>3
    <3>4. CASE <<x, m>> \in R
      <4>1. <<x, x>> \in R
        OBVIOUS
      <4>2. \A q \in U \ {x} : <<x, q>> \in R
        BY <3>2, <3>4
      <4> QED BY <4>1, <4>2
    <3> QED BY <3>3, <3>4
  <2> QED BY <2>4, <2>5
<1>4. \A n \in Nat : n \in N
  <2> HIDE DEF N
  <2> QED BY <1>2, <1>3, SetInduction
<1> QED
  BY <1>1, <1>4

-----------------------------------------------------------------------------
(* What a reading of the air gives of a device's paths.                     *)
LEMMA AirPaths ==
  ASSUME air \in Airs, NEW a \in Addresses
  PROVE  /\ air.hears[a] \in SUBSET Radios
         /\ \A r \in Radios : air.rssi[a][r] \in Int /\ air.score[a][r] \in Int
BY ConstantsAssumption DEF Air

LEMMA ScoreType ==
  ASSUME air \in Airs, NEW a \in Addresses, NEW r \in Radios
  PROVE  Score(a, r) \in Int
BY AirPaths DEF Score

(* habluetooth's pick is one of the paths.                                  *)
LEMMA PredictedType ==
  ASSUME air \in Airs, NEW a \in Addresses, Pickable(a) # {}
  PROVE  Predicted(a) \in Radios
<1> DEFINE R == {x \in Radios \X Radios : Outranks(a, x[1], x[2])}
<1>1. \A r \in Radios : Score(a, r) \in Int /\ air.rssi[a][r] \in Int
  BY AirPaths, ScoreType
<1>2. Pickable(a) \in SUBSET Radios
  BY AirPaths DEF Pickable
<1>3. \A r, q \in Radios : <<r, q>> \in R <=> Outranks(a, r, q)
  OBVIOUS
<1>4. \A r, q \in Radios : Outranks(a, r, q) \/ Outranks(a, q, r)
  BY <1>1 DEF Outranks
<1>5. \A r, q, z \in Radios :
         Outranks(a, r, q) /\ Outranks(a, q, z) => Outranks(a, r, z)
  BY <1>1 DEF Outranks
<1>6. \E m \in Pickable(a) : \A q \in Pickable(a) : <<m, q>> \in R
  <2>1. IsFiniteSet(Radios)
    BY ConstantsAssumption
  <2> HIDE DEF R
  <2> QED BY <1>2, <1>3, <1>4, <1>5, <2>1, FiniteMaximum
<1>7. \E m \in Pickable(a) : \A q \in Pickable(a) : Outranks(a, m, q)
  BY <1>2, <1>3, <1>6
<1> QED
  BY <1>2, <1>7 DEF Predicted

(* The radio a capped call is sent to is one of the device's.               *)
LEMMA CapTargetType ==
  ASSUME air \in Airs, NEW a \in Addresses, air.hears[a] # {}, NEW avoiding
  PROVE  CapTarget(a, avoiding) \in Radios
<1> DEFINE U == Usable(a, avoiding)
           Louder(r, q) == air.rssi[a][r] >= air.rssi[a][q]
           R == {x \in Radios \X Radios : Louder(x[1], x[2])}
<1>1. CASE Pickable(a) # {}
  BY <1>1, PredictedType DEF CapTarget
<1>2. CASE Pickable(a) = {}
  <2>1. U \in SUBSET Radios /\ U # {}
    BY AirPaths DEF Usable
  <2>2. \A r, q \in Radios : <<r, q>> \in R <=> Louder(r, q)
    OBVIOUS
  <2>3. \A r, q \in Radios : Louder(r, q) \/ Louder(q, r)
    BY AirPaths
  <2>4. \A r, q, z \in Radios : Louder(r, q) /\ Louder(q, z) => Louder(r, z)
    BY AirPaths
  <2>5. \E m \in U : \A q \in U : <<m, q>> \in R
    <3>1. IsFiniteSet(Radios)
      BY ConstantsAssumption
    <3> HIDE DEF R, U, Louder
    <3> QED BY <2>1, <2>2, <2>3, <2>4, <3>1, FiniteMaximum
  <2>6. \E m \in U : \A q \in U : Louder(m, q)
    BY <2>1, <2>2, <2>5
  <2> QED BY <1>2, <2>1, <2>6 DEF CapTarget
<1> QED BY <1>1, <1>2

(* Among the calls not judged yet, one is next, none served before it.      *)
LEMMA NextServedType ==
  ASSUME NEW left \in SUBSET Calls, left # {}, NEW avoiding,
         NEW pl \in [Calls -> Nat]
  PROVE  /\ NextServed(left, avoiding, pl) \in left
         /\ \A d \in left : ServingKey(NextServed(left, avoiding, pl), avoiding, pl)
                              <= ServingKey(d, avoiding, pl)
<1> DEFINE Key(c) == ServingKey(c, avoiding, pl)
           R == {x \in Calls \X Calls : Key(x[1]) <= Key(x[2])}
<1>1. Cardinality(Calls) \in Nat
  BY ConstantsAssumption, FS_CardinalityType
<1>2. \A c \in Calls : ServingClass(c, avoiding) \in 0..7
  BY DEF ServingClass
<1>3. \A m, n \in Nat : m * n \in Nat
  OBVIOUS
<1>4. \A c \in Calls : Key(c) \in Nat
  BY <1>1, <1>2, <1>3 DEF ServingKey
<1> HIDE DEF Key
<1>5. \A c, d \in Calls : <<c, d>> \in R <=> Key(c) <= Key(d)
  OBVIOUS
<1> HIDE DEF R
<1>6. \E m \in left : \A q \in left : <<m, q>> \in R
  <2>1. ASSUME NEW c \in Calls, NEW d \in Calls
        PROVE  <<c, d>> \in R \/ <<d, c>> \in R
    <3>1. Key(c) \in Nat /\ Key(d) \in Nat
      BY <1>4
    <3>2. Key(c) <= Key(d) \/ Key(d) <= Key(c)
      BY <3>1
    <3> QED BY <1>5, <3>2
  <2>2. ASSUME NEW c \in Calls, NEW d \in Calls, NEW e \in Calls,
               <<c, d>> \in R, <<d, e>> \in R
        PROVE  <<c, e>> \in R
    <3>1. Key(c) \in Nat /\ Key(d) \in Nat /\ Key(e) \in Nat
      BY <1>4
    <3>2. Key(c) <= Key(d) /\ Key(d) <= Key(e)
      BY <1>5, <2>2
    <3>3. Key(c) <= Key(e)
      BY <3>1, <3>2
    <3> QED BY <1>5, <3>3
  <2>3. IsFiniteSet(Calls)
    BY ConstantsAssumption
  <2> QED BY <2>1, <2>2, <2>3, FiniteMaximum
<1>7. \E m \in left : \A q \in left : Key(m) <= Key(q)
  BY <1>5, <1>6
<1>8. NextServed(left, avoiding, pl) = CHOOSE c \in left : \A d \in left : Key(c) <= Key(d)
  BY DEF NextServed, Key
<1>9. \A d \in left : Key(NextServed(left, avoiding, pl)) <= Key(d)
  BY <1>7, <1>8
<1> QED
  BY <1>7, <1>8, <1>9 DEF Key

-----------------------------------------------------------------------------
(* The data a pass works on, and what it has judged so far.                 *)
GateData ==
    [call : [Calls -> CallState],
     tickets : [Addresses -> Ticket \cup {NoTicket}],
     avoided : [Radios -> 0..AvoidFor],
     released : [Radios -> 0..Grace],
     checks : SUBSET Check,
     releasing : [Addresses -> Nat]]
Sound(g) == g \in GateData /\ Accounted(g.call, g.tickets)

Progress ==
    [call : [Calls -> CallState],
     tickets : [Addresses -> Ticket \cup {NoTicket}],
     left : SUBSET Calls,
     commandWaiting : BOOLEAN,
     capped : SUBSET Radios]
SoundProgress(p) ==
    /\ p \in Progress
    /\ p.left \subseteq Waiting(p.call)
    /\ Accounted(p.call, p.tickets)

LEMMA HoldersFinite ==
  ASSUME NEW calls, NEW a
  PROVE  IsFiniteSet(Holders(calls, a)) /\ Cardinality(Holders(calls, a)) \in Nat
<1>1. Holders(calls, a) \in SUBSET Calls
  BY DEF Holders
<1> QED
  BY <1>1, ConstantsAssumption, FS_Subset, FS_CardinalityType

(* Letting a waiting call go makes it a holder of its device's ticket if    *)
(* its outcome carries one, and changes no other device's holders.          *)
LEMMA ResolvedHolders ==
  ASSUME NEW calls \in [Calls -> CallState], NEW c \in Waiting(calls),
         NEW outcome \in Outcomes
  PROVE  /\ Resolved(calls, c, outcome) \in [Calls -> CallState]
         /\ c \notin Holders(calls, AddressOf[c])
         /\ \A a \in Addresses :
               Holders(Resolved(calls, c, outcome), a) =
                  IF outcome \in Holding /\ a = AddressOf[c]
                  THEN Holders(calls, a) \cup {c} ELSE Holders(calls, a)
         /\ Waiting(Resolved(calls, c, outcome)) = Waiting(calls) \ {c}
<1> DEFINE new == Resolved(calls, c, outcome)
<1>1. c \in Calls /\ calls[c].phase = "waiting"
  BY DEF Waiting
<1>2. new \in [Calls -> CallState] /\ new[c].phase = "resolved" /\ new[c].outcome = outcome
  BY <1>1, ConstantsAssumption DEF Resolved, CallState, Phases
<1>3. \A d \in Calls : d # c => new[d] = calls[d]
  BY DEF Resolved
<1> HIDE DEF new
<1>4. c \notin Holders(calls, AddressOf[c])
  BY <1>1 DEF Holders
<1>5. ASSUME NEW a \in Addresses
      PROVE  Holders(new, a) = IF outcome \in Holding /\ a = AddressOf[c]
                               THEN Holders(calls, a) \cup {c} ELSE Holders(calls, a)
  BY <1>1, <1>2, <1>3 DEF Holders
<1>6. Waiting(new) = Waiting(calls) \ {c}
  BY <1>2, <1>3 DEF Waiting
<1> QED
  BY <1>2, <1>4, <1>5, <1>6 DEF new

(* What a judgement decides, and the radio it sends a new connect to.       *)
LEMMA DecisionType ==
  ASSUME air \in Airs, NEW g, NEW p, NEW c \in Calls
  PROVE  LET a == AddressOf[c]
             outcome == Decision(g, p, c)
         IN  /\ outcome \in Outcomes \cup {"waits"}
             /\ outcome = "joined" => p.tickets[a] # NoTicket
             /\ outcome \in {"admitted", "capped"} => p.tickets[a] = NoTicket
             /\ outcome = "admitted" => Predicted(a) \in Radios
             /\ outcome = "capped" => CapTarget(a, g.avoided) \in Radios
<1>1. AddressOf[c] \in Addresses
  BY ConstantsAssumption
<1>2. Decision(g, p, c) = "admitted" => Predicted(AddressOf[c]) \in Radios
  BY <1>1, PredictedType DEF Decision, GoesNow
<1>3. Decision(g, p, c) = "capped" => CapTarget(AddressOf[c], g.avoided) \in Radios
  BY <1>1, CapTargetType DEF Decision
<1> QED
  BY <1>2, <1>3 DEF Decision, Outcomes

(* Judging one call keeps the tickets accounted for: it joins its device's  *)
(* ticket, gets a new one for a device without any, or touches none.        *)
LEMMA JudgedSound ==
  ASSUME air \in Airs, NEW g \in GateData, NEW p, SoundProgress(p), NEW c \in p.left
  PROVE  SoundProgress(Judged(g, p, c)) /\ Judged(g, p, c).left = p.left \ {c}
<1> DEFINE a == AddressOf[c]
           outcome == Decision(g, p, c)
           after == Ticketed(g, p, c, outcome)
           q == Judged(g, p, c)
<1>1. /\ p.call \in [Calls -> CallState]
      /\ p.tickets \in [Addresses -> Ticket \cup {NoTicket}]
      /\ p.left \in SUBSET Calls /\ p.left \subseteq Waiting(p.call)
      /\ p.commandWaiting \in BOOLEAN /\ p.capped \in SUBSET Radios
      /\ Accounted(p.call, p.tickets)
  BY DEF SoundProgress, Progress
<1>2. c \in Calls /\ c \in Waiting(p.call) /\ a \in Addresses
  BY <1>1, ConstantsAssumption
<1>3. /\ outcome \in Outcomes \cup {"waits"}
      /\ outcome = "joined" => p.tickets[a] # NoTicket
      /\ outcome \in {"admitted", "capped"} => p.tickets[a] = NoTicket
      /\ outcome = "admitted" => Predicted(a) \in Radios
      /\ outcome = "capped" => CapTarget(a, g.avoided) \in Radios
  BY <1>2, DecisionType
<1> HIDE DEF outcome
<1>4. /\ q.call = IF outcome = "waits" THEN p.call ELSE Resolved(p.call, c, outcome)
      /\ q.tickets = after
      /\ q.left = p.left \ {c}
      /\ q.commandWaiting \in BOOLEAN
      /\ q = [call |-> q.call, tickets |-> q.tickets, left |-> q.left,
              commandWaiting |-> q.commandWaiting, capped |-> q.capped]
  BY <1>1 DEF Judged, outcome
<1>5. q.capped = IF outcome \in {"admitted", "capped"}
                 THEN p.capped \cup {after[a].scanner} ELSE p.capped
  BY DEF Judged, outcome
<1>6. \A r \in Radios : NewTicket(r) \in Ticket /\ NewTicket(r).holders = 1
  BY ConstantsAssumption DEF NewTicket, Ticket
<1>7. CASE outcome = "waits"
  <2>1. after = p.tickets
    BY <1>7 DEF Ticketed
  <2>2. q.call = p.call /\ q.tickets = p.tickets /\ q.capped = p.capped
    BY <1>4, <1>5, <1>7, <2>1
  <2>3. q \in Progress
    BY <1>1, <1>4, <2>2 DEF Progress
  <2>4. q.left \subseteq Waiting(q.call)
    BY <1>1, <1>4, <2>2
  <2> QED BY <1>1, <1>4, <2>2, <2>3, <2>4 DEF SoundProgress
<1>8. CASE outcome # "waits"
  <2>1. outcome \in Outcomes /\ q.call = Resolved(p.call, c, outcome)
    BY <1>3, <1>4, <1>8
  <2>2. /\ q.call \in [Calls -> CallState]
        /\ c \notin Holders(p.call, a)
        /\ \A b \in Addresses : Holders(q.call, b) =
              IF outcome \in Holding /\ b = a
              THEN Holders(p.call, b) \cup {c} ELSE Holders(p.call, b)
        /\ Waiting(q.call) = Waiting(p.call) \ {c}
    <3>1. /\ Resolved(p.call, c, outcome) \in [Calls -> CallState]
          /\ c \notin Holders(p.call, AddressOf[c])
          /\ \A b \in Addresses : Holders(Resolved(p.call, c, outcome), b) =
                IF outcome \in Holding /\ b = AddressOf[c]
                THEN Holders(p.call, b) \cup {c} ELSE Holders(p.call, b)
          /\ Waiting(Resolved(p.call, c, outcome)) = Waiting(p.call) \ {c}
      BY <1>1, <1>2, <2>1, ResolvedHolders
    <3> QED BY <2>1, <3>1
  <2>3. /\ after \in [Addresses -> Ticket \cup {NoTicket}]
        /\ \A b \in Addresses : b # a => after[b] = p.tickets[b]
        /\ outcome \notin Holding => after = p.tickets
        /\ outcome = "joined" => /\ after[a] # NoTicket
                                 /\ after[a].holders = p.tickets[a].holders + 1
        /\ outcome \in {"admitted", "capped"} => /\ after[a] \in Ticket
                                                  /\ after[a].holders = 1
    <3>1. CASE outcome = "joined"
      <4>1. p.tickets[a] \in Ticket
        BY <1>1, <1>2, <1>3, <3>1
      <4>2. after = [p.tickets EXCEPT ![a].holders = @ + 1]
        BY <3>1 DEF Ticketed
      <4>3. /\ [p.tickets[a] EXCEPT !.holders = @ + 1] \in Ticket
            /\ [p.tickets[a] EXCEPT !.holders = @ + 1].holders = p.tickets[a].holders + 1
        BY <4>1 DEF Ticket
      <4>4. after[a] # NoTicket
        BY <1>1, <1>2, <4>2, <4>3, ConstantsAssumption
      <4> QED BY <1>1, <1>2, <3>1, <4>2, <4>3, <4>4 DEF Holding
    <3>2. CASE outcome = "admitted"
      <4>1. after = [p.tickets EXCEPT ![a] = NewTicket(Predicted(a))]
        BY <3>2 DEF Ticketed
      <4> QED BY <1>1, <1>2, <1>3, <1>6, <3>2, <4>1 DEF Holding
    <3>3. CASE outcome = "capped"
      <4>1. after = [p.tickets EXCEPT ![a] = NewTicket(CapTarget(a, g.avoided))]
        BY <3>3 DEF Ticketed
      <4> QED BY <1>1, <1>2, <1>3, <1>6, <3>3, <4>1 DEF Holding
    <3>4. CASE outcome \notin Holding
      <4>1. after = p.tickets
        BY <3>4 DEF Ticketed, Holding
      <4> QED BY <1>1, <3>4, <4>1 DEF Holding
    <3> QED BY <3>1, <3>2, <3>3, <3>4 DEF Holding
  <2>4. q.capped \in SUBSET Radios
    BY <1>1, <1>2, <1>5, <2>3 DEF Ticket
  <2>5. q \in Progress
    BY <1>1, <1>4, <2>2, <2>3, <2>4 DEF Progress
  <2>6. q.left \subseteq Waiting(q.call)
    BY <1>1, <1>4, <2>2
  <2>7. Accounted(q.call, q.tickets)
    <3> SUFFICES ASSUME NEW b \in Addresses
                 PROVE  /\ after[b] = NoTicket => Holders(q.call, b) = {}
                        /\ after[b] # NoTicket =>
                              /\ Holders(q.call, b) # {}
                              /\ after[b].holders = Cardinality(Holders(q.call, b))
      BY <1>4 DEF Accounted
    <3>1. /\ p.tickets[b] = NoTicket => Holders(p.call, b) = {}
          /\ p.tickets[b] # NoTicket =>
                /\ Holders(p.call, b) # {}
                /\ p.tickets[b].holders = Cardinality(Holders(p.call, b))
      BY <1>1 DEF Accounted
    <3>2. CASE b # a \/ outcome \notin Holding
      BY <2>2, <2>3, <3>1, <3>2
    <3>3. CASE b = a /\ outcome \in Holding
      <4>1. Holders(q.call, a) = Holders(p.call, a) \cup {c}
        BY <1>2, <2>2, <3>3
      <4>2. IsFiniteSet(Holders(p.call, a))
        BY HoldersFinite
      <4>3. Cardinality(Holders(q.call, a)) = Cardinality(Holders(p.call, a)) + 1
        BY <2>2, <4>1, <4>2, FS_AddElement
      <4>4. CASE outcome = "joined"
        BY <1>3, <2>3, <3>1, <3>3, <4>1, <4>3, <4>4
      <4>5. CASE outcome \in {"admitted", "capped"}
        <5>1. Cardinality(Holders(q.call, a)) = 1
          BY <1>3, <3>1, <3>3, <4>3, <4>5, FS_EmptySet
        <5>2. after[a] # NoTicket /\ after[a].holders = 1
          BY <2>3, <4>5, ConstantsAssumption
        <5> QED BY <3>3, <4>1, <5>1, <5>2
      <4> QED BY <3>3, <4>4, <4>5 DEF Holding
    <3> QED BY <3>2, <3>3
  <2> QED BY <1>4, <2>5, <2>6, <2>7 DEF SoundProgress
<1> QED
  BY <1>7, <1>8

(* What one judgement changes: the call judged, its device's ticket, and    *)
(* what the judgements after it go by.                                      *)
LEMMA JudgedShape ==
  ASSUME air \in Airs, NEW g \in GateData, NEW p, SoundProgress(p), NEW c \in p.left
  PROVE  LET a == AddressOf[c]
             outcome == Decision(g, p, c)
             q == Judged(g, p, c)
         IN  /\ c \in Calls /\ a \in Addresses /\ q.left = p.left \ {c}
             /\ q.commandWaiting = (p.commandWaiting \/ (outcome = "waits" /\ c \notin Polls))
             /\ \A d \in Calls : d # c => q.call[d] = p.call[d]
             /\ \A b \in Addresses : b # a => q.tickets[b] = p.tickets[b]
             /\ outcome = "waits" => /\ q.call = p.call /\ p.tickets[a] = NoTicket
                                     /\ \/ c \in Polls
                                        \/ ~GoesNow(p.tickets, a, g.avoided)
             /\ outcome # "waits" => /\ q.call[c].phase = "resolved"
                                     /\ q.call[c].outcome = outcome
             /\ outcome \notin {"admitted", "capped"} =>
                   /\ q.capped = p.capped
                   /\ p.tickets[a] = NoTicket => q.tickets[a] = NoTicket
                   /\ p.tickets[a] # NoTicket =>
                         /\ q.tickets[a] # NoTicket
                         /\ q.tickets[a].scanner = p.tickets[a].scanner
                         /\ q.tickets[a].age = p.tickets[a].age
                         /\ q.tickets[a].connected = p.tickets[a].connected
             /\ outcome \in {"admitted", "capped"} =>
                   LET r == q.tickets[a].scanner
                   IN  /\ p.tickets[a] = NoTicket
                       /\ r \in Radios /\ q.tickets[a] = NewTicket(r)
                       /\ q.tickets[a] # NoTicket
                       /\ q.capped = p.capped \cup {r}
                       /\ outcome = "capped" => r \notin p.capped
                       /\ outcome = "admitted" =>
                             /\ r = Predicted(a) /\ GoesNow(p.tickets, a, g.avoided)
                             /\ ~(c \in Polls /\ p.commandWaiting)
<1> DEFINE a == AddressOf[c]
           outcome == Decision(g, p, c)
           after == Ticketed(g, p, c, outcome)
           q == Judged(g, p, c)
<1>1. /\ p.call \in [Calls -> CallState]
      /\ p.tickets \in [Addresses -> Ticket \cup {NoTicket}]
      /\ p.left \in SUBSET Calls /\ p.left \subseteq Waiting(p.call)
  BY DEF SoundProgress, Progress
<1>2. c \in Calls /\ c \in Waiting(p.call) /\ a \in Addresses
  BY <1>1, ConstantsAssumption
<1>3. /\ outcome \in Outcomes \cup {"waits"}
      /\ outcome = "joined" => p.tickets[a] # NoTicket
      /\ outcome \in {"admitted", "capped"} => p.tickets[a] = NoTicket
      /\ outcome = "admitted" => Predicted(a) \in Radios
      /\ outcome = "capped" => CapTarget(a, g.avoided) \in Radios
  BY <1>2, DecisionType
<1>4. /\ outcome = "waits" => \/ c \in Polls
                              \/ ~GoesNow(p.tickets, a, g.avoided)
      /\ outcome = "capped" => CapTarget(a, g.avoided) \notin p.capped
      /\ outcome = "admitted" => /\ GoesNow(p.tickets, a, g.avoided)
                                 /\ ~(c \in Polls /\ p.commandWaiting)
      /\ p.tickets[a] # NoTicket => outcome = "joined"
  BY DEF Decision
<1>5. /\ q.call = IF outcome = "waits" THEN p.call ELSE Resolved(p.call, c, outcome)
      /\ q.tickets = after
      /\ q.left = p.left \ {c}
      /\ q.commandWaiting = (p.commandWaiting \/ (outcome = "waits" /\ c \notin Polls))
      /\ q.capped = IF outcome \in {"admitted", "capped"}
                    THEN p.capped \cup {after[a].scanner} ELSE p.capped
  BY DEF Judged
<1>6. \A r \in Radios : NewTicket(r) \in Ticket /\ NewTicket(r).scanner = r
                        /\ NewTicket(r) # NoTicket
  <2>1. \A r \in Radios : NewTicket(r) \in Ticket /\ NewTicket(r).scanner = r
    BY ConstantsAssumption DEF NewTicket, Ticket
  <2> QED BY <2>1, ConstantsAssumption
<1> HIDE DEF outcome, q
<1>7. outcome # "waits" => /\ q.call[c].phase = "resolved" /\ q.call[c].outcome = outcome
                           /\ \A d \in Calls : d # c => q.call[d] = p.call[d]
  BY <1>1, <1>2, <1>5 DEF Resolved
<1>8. /\ outcome = "admitted" => after = [p.tickets EXCEPT ![a] = NewTicket(Predicted(a))]
      /\ outcome = "capped" =>
            after = [p.tickets EXCEPT ![a] = NewTicket(CapTarget(a, g.avoided))]
      /\ outcome = "joined" => after = [p.tickets EXCEPT ![a].holders = @ + 1]
      /\ outcome \notin {"admitted", "capped", "joined"} => after = p.tickets
  BY DEF Ticketed
<1> HIDE DEF after
<1>9. CASE outcome = "admitted"
  BY <1>1, <1>2, <1>3, <1>4, <1>5, <1>6, <1>7, <1>8, <1>9 DEF outcome, q
<1>10. CASE outcome = "capped"
  BY <1>1, <1>2, <1>3, <1>4, <1>5, <1>6, <1>7, <1>8, <1>10 DEF outcome, q
<1>11. CASE outcome = "joined"
  <2> DEFINE new == [p.tickets[a] EXCEPT !.holders = @ + 1]
  <2>1. p.tickets[a] \in Ticket
    BY <1>1, <1>2, <1>3, <1>11
  <2>2. /\ new \in Ticket /\ new.scanner = p.tickets[a].scanner
        /\ new.age = p.tickets[a].age /\ new.connected = p.tickets[a].connected
    BY <2>1 DEF Ticket
  <2>3. after = [p.tickets EXCEPT ![a] = new]
    BY <1>8, <1>11
  <2> HIDE DEF new
  <2>4. after[a] = new /\ after[a] # NoTicket
        /\ \A b \in Addresses : b # a => after[b] = p.tickets[b]
    BY <1>1, <1>2, <2>2, <2>3, ConstantsAssumption
  <2> QED BY <1>2, <1>3, <1>5, <1>7, <1>11, <2>2, <2>4 DEF outcome, q
<1>12. CASE outcome \notin {"admitted", "capped", "joined"}
  BY <1>1, <1>2, <1>3, <1>4, <1>5, <1>7, <1>8, <1>12 DEF outcome, q
<1> QED
  BY <1>9, <1>10, <1>11, <1>12

-----------------------------------------------------------------------------
(* The judgements of a pass are those of its calls one after the other.     *)
LEMMA JudgementsDefined ==
  ASSUME NEW g, NEW pl, NEW n \in Nat, n = Cardinality(Waiting(g.call))
  PROVE  Judgements(g, pl) =
            [i \in 0..n |->
                IF i = 0 THEN FirstJudgement(g)
                ELSE Judged(g, Judgements(g, pl)[i-1],
                            NextServed(Judgements(g, pl)[i-1].left, g.avoided, pl))]
<1> DEFINE F == FirstJudgement(g)
           J(p) == Judged(g, p, NextServed(p.left, g.avoided, pl))
           K == {k \in Nat : \E f : f = [i \in 0..k |-> IF i = 0 THEN F ELSE J(f[i-1])]}
<1> HIDE DEF F, J
<1>1. 0 \in K
  <2> DEFINE f == [i \in 0..0 |-> F]
  <2>1. f = [i \in 0..0 |-> IF i = 0 THEN F ELSE J(f[i-1])]
    OBVIOUS
  <2> QED BY <2>1
<1>2. ASSUME NEW k \in Nat, k \in K PROVE k + 1 \in K
  <2>1. PICK f : f = [i \in 0..k |-> IF i = 0 THEN F ELSE J(f[i-1])]
    BY <1>2
  <2> DEFINE h == [i \in 0..(k+1) |-> IF i = k + 1 THEN J(f[k]) ELSE f[i]]
  <2>2. ASSUME NEW i \in 0..(k+1)
        PROVE  h[i] = IF i = 0 THEN F ELSE J(h[i-1])
    <3>1. CASE i = k + 1
      BY <3>1
    <3>2. CASE i = 0
      BY <2>1, <3>2
    <3>3. CASE i # 0 /\ i # k + 1
      <4>1. i \in 0..k /\ i - 1 \in 0..(k+1) /\ i - 1 # k + 1
        BY <3>3
      <4>2. h[i] = f[i] /\ h[i-1] = f[i-1]
        BY <3>3, <4>1
      <4>3. f[i] = J(f[i-1])
        BY <2>1, <3>3, <4>1
      <4> QED BY <3>3, <4>2, <4>3
    <3> QED BY <3>1, <3>2, <3>3
  <2>3. h = [i \in 0..(k+1) |-> IF i = 0 THEN F ELSE J(h[i-1])]
    BY <2>2
  <2> HIDE DEF h
  <2> QED BY <2>3
<1>3. n \in K
  <2> HIDE DEF K
  <2> QED BY <1>1, <1>2, SetInduction
<1>4. PICK f : f = [i \in 0..n |-> IF i = 0 THEN F ELSE J(f[i-1])]
  BY <1>3
<1>5. Judgements(g, pl) = CHOOSE x : x = [i \in 0..n |-> IF i = 0 THEN F ELSE J(x[i-1])]
  BY DEF Judgements, F, J
<1>6. Judgements(g, pl) =
         [i \in 0..n |-> IF i = 0 THEN F ELSE J(Judgements(g, pl)[i-1])]
  BY <1>4, <1>5
<1> QED
  BY <1>6 DEF F, J

(* The first judgement's data: nothing judged, every waiting call left.     *)
LEMMA FirstJudgementSound ==
  ASSUME NEW g, Sound(g)
  PROVE  /\ SoundProgress(FirstJudgement(g))
         /\ FirstJudgement(g).left = Waiting(g.call)
         /\ Waiting(g.call) \in SUBSET Calls /\ IsFiniteSet(Waiting(g.call))
<1>1. g \in GateData /\ Accounted(g.call, g.tickets)
  BY DEF Sound
<1>2. Waiting(g.call) \in SUBSET Calls /\ IsFiniteSet(Waiting(g.call))
  BY ConstantsAssumption, FS_Subset DEF Waiting
<1> QED
  BY <1>1, <1>2 DEF FirstJudgement, SoundProgress, Progress, GateData

(* What holds of the first judgement and stays so judging the next call     *)
(* holds at the end of the pass, where no call is left: by induction on the *)
(* calls judged.                                                            *)
LEMMA JudgementsStay ==
  ASSUME air \in Airs, NEW g, Sound(g), NEW pl \in [Calls -> Nat],
         NEW n \in Nat, n = Cardinality(Waiting(g.call)),
         NEW S, FirstJudgement(g) \in S,
         \A p \in S : SoundProgress(p) /\ p.left # {} =>
            Judged(g, p, NextServed(p.left, g.avoided, pl)) \in S
  PROVE  LET last == Judgements(g, pl)[n]
         IN  last \in S /\ SoundProgress(last) /\ last.left = {}
<1> DEFINE judged == Judgements(g, pl)
           Next1(p) == NextServed(p.left, g.avoided, pl)
           K == {i \in Nat : i <= n => /\ SoundProgress(judged[i]) /\ judged[i] \in S
                                       /\ IsFiniteSet(judged[i].left)
                                       /\ Cardinality(judged[i].left) = n - i}
<1>1. g \in GateData /\ Accounted(g.call, g.tickets)
  BY DEF Sound
<1>2. judged = [i \in 0..n |-> IF i = 0 THEN FirstJudgement(g)
                               ELSE Judged(g, judged[i-1], Next1(judged[i-1]))]
  BY JudgementsDefined
<1> HIDE DEF judged
<1>3. 0 \in K
  <2>1. judged[0] = FirstJudgement(g)
    BY <1>2
  <2> QED BY <2>1, FirstJudgementSound
<1>4. ASSUME NEW i \in Nat, i \in K PROVE i + 1 \in K
  <2>1. SUFFICES ASSUME i + 1 <= n
                 PROVE  /\ SoundProgress(judged[i+1]) /\ judged[i+1] \in S
                        /\ IsFiniteSet(judged[i+1].left)
                        /\ Cardinality(judged[i+1].left) = n - (i + 1)
    OBVIOUS
  <2>2. /\ SoundProgress(judged[i]) /\ judged[i] \in S /\ IsFiniteSet(judged[i].left)
        /\ Cardinality(judged[i].left) = n - i
    BY <1>4, <2>1
  <2>3. judged[i+1] = Judged(g, judged[i], Next1(judged[i]))
    BY <1>2, <2>1
  <2>4. judged[i].left # {} /\ judged[i].left \in SUBSET Calls
    BY <2>1, <2>2, FS_EmptySet DEF SoundProgress, Progress
  <2>5. Next1(judged[i]) \in judged[i].left
    BY <2>4, NextServedType
  <2>6. /\ SoundProgress(judged[i+1])
        /\ judged[i+1].left = judged[i].left \ {Next1(judged[i])}
    BY <1>1, <2>2, <2>3, <2>5, JudgedSound
  <2>7. judged[i+1] \in S
    BY <2>2, <2>3, <2>4
  <2>8. Cardinality(judged[i+1].left) = Cardinality(judged[i].left) - 1
        /\ IsFiniteSet(judged[i+1].left)
    <3> DEFINE L == judged[i].left
               x == Next1(judged[i])
    <3> HIDE DEF L, x
    <3>1. IsFiniteSet(L \ {x}) /\ (x \in L => Cardinality(L \ {x}) = Cardinality(L) - 1)
      BY <2>2, FS_RemoveElement DEF L
    <3> QED BY <2>5, <2>6, <3>1 DEF L, x
  <2> QED BY <2>1, <2>2, <2>6, <2>7, <2>8
<1>5. n \in K
  <2> HIDE DEF K
  <2> QED BY <1>3, <1>4, SetInduction
<1>6. judged[n].left = {}
  BY <1>5, FS_EmptySet
<1> QED
  BY <1>5, <1>6 DEF judged

(* So the last judgement of a pass is sound.                                *)
LEMMA JudgementsSound ==
  ASSUME air \in Airs, NEW g, Sound(g), NEW pl \in [Calls -> Nat],
         NEW n \in Nat, n = Cardinality(Waiting(g.call))
  PROVE  SoundProgress(Judgements(g, pl)[n])
<1>1. FirstJudgement(g) \in Progress
  BY FirstJudgementSound DEF SoundProgress
<1>2. ASSUME NEW p \in Progress, SoundProgress(p), p.left # {}
      PROVE  Judged(g, p, NextServed(p.left, g.avoided, pl)) \in Progress
  <2>1. NextServed(p.left, g.avoided, pl) \in p.left /\ g \in GateData
    BY <1>2, NextServedType DEF Progress, Sound
  <2> QED BY <1>2, <2>1, JudgedSound DEF SoundProgress
<1> QED
  BY <1>1, <1>2, JudgementsStay

-----------------------------------------------------------------------------
(* Finding the tickets' devices keeps every ticket and its count.           *)
LEMMA RefreshedSound ==
  ASSUME air \in Airs, NEW g, Sound(g)
  PROVE  Sound(Refreshed(g)) /\ Refreshed(g).call = g.call
<1>1. g \in GateData /\ Accounted(g.call, g.tickets)
  BY DEF Sound
<1> DEFINE q == Refreshed(g)
<1> DEFINE up(r) == \E a \in Addresses : /\ g.tickets[a] # NoTicket
                                        /\ Listing(a) # {} /\ SeenOn(a) = r /\ SeenUp(g, a)
           tks == [a \in Addresses |->
                      IF g.tickets[a] = NoTicket THEN NoTicket ELSE Seen(g, a)]
           avs == [r \in Radios |-> IF up(r) THEN 0 ELSE g.avoided[r]]
<1>a. q = [g EXCEPT !.tickets = tks, !.avoided = avs]
  BY DEF Refreshed
<1>b. avs \in [Radios -> 0..AvoidFor]
  <2> HIDE DEF up
  <2> QED BY <1>1, ConstantsAssumption DEF GateData
<1> HIDE DEF q, avs, tks
<1>c. /\ q.call = g.call /\ q.released = g.released /\ q.checks = g.checks
      /\ q.releasing = g.releasing /\ q.tickets = tks /\ q.avoided = avs
      /\ q = [call |-> q.call, tickets |-> q.tickets, avoided |-> q.avoided,
              released |-> q.released, checks |-> q.checks, releasing |-> q.releasing]
  BY <1>1, <1>a DEF GateData
<1>2. /\ q.call = g.call /\ q.released = g.released /\ q.checks = g.checks
      /\ q.releasing = g.releasing
      /\ q.tickets = [a \in Addresses |->
                         IF g.tickets[a] = NoTicket THEN NoTicket ELSE Seen(g, a)]
      /\ q.avoided \in [Radios -> 0..AvoidFor]
      /\ q = [call |-> q.call, tickets |-> q.tickets, avoided |-> q.avoided,
              released |-> q.released, checks |-> q.checks, releasing |-> q.releasing]
  BY <1>b, <1>c DEF tks
<1>3. ASSUME NEW a \in Addresses, g.tickets[a] # NoTicket
      PROVE  Seen(g, a) \in Ticket /\ Seen(g, a).holders = g.tickets[a].holders
  <2>1. g.tickets[a] \in Ticket
    BY <1>1, <1>3 DEF GateData
  <2>2. Listing(a) # {} => SeenOn(a) \in Radios
    BY AirPaths DEF Listing, SeenOn
  <2>3. SeenUp(g, a) \in BOOLEAN
    BY DEF SeenUp
  <2> QED BY <2>1, <2>2, <2>3 DEF Seen, Ticket
<1>4. q.tickets \in [Addresses -> Ticket \cup {NoTicket}]
  BY <1>2, <1>3
<1>5. q \in GateData
  BY <1>1, <1>2, <1>4 DEF GateData
<1>6. \A a \in Addresses : /\ q.tickets[a] = NoTicket <=> g.tickets[a] = NoTicket
                           /\ q.tickets[a] # NoTicket =>
                                 q.tickets[a].holders = g.tickets[a].holders
  BY <1>2, <1>3, ConstantsAssumption
<1>7. Accounted(q.call, q.tickets)
  BY <1>1, <1>2, <1>6 DEF Accounted
<1> QED
  BY <1>2, <1>5, <1>7 DEF Sound, q

(* Avoiding radios touches neither the calls nor the tickets.               *)
LEMMA AvoidingSound ==
  ASSUME NEW g, Sound(g)
  PROVE  /\ Sound(Avoiding(g)) /\ Avoiding(g).call = g.call
         /\ Sound(ReleaseChecked(g)) /\ ReleaseChecked(g).call = g.call
<1>1. g \in GateData /\ Accounted(g.call, g.tickets)
  BY DEF Sound
<1>2. AvoidFor \in 0..AvoidFor
  BY ConstantsAssumption
<1>3. \A r \in Radios : g.avoided[r] \in 0..AvoidFor
  BY <1>1 DEF GateData
<1>4. /\ Avoiding(g) \in GateData /\ Avoiding(g).call = g.call
      /\ Avoiding(g).tickets = g.tickets
  BY <1>1, <1>2, <1>3 DEF Avoiding, GateData
<1>5. /\ ReleaseChecked(g) \in GateData /\ ReleaseChecked(g).call = g.call
      /\ ReleaseChecked(g).tickets = g.tickets
  BY <1>1, <1>2, <1>3 DEF ReleaseChecked, GateData
<1> QED
  BY <1>1, <1>4, <1>5 DEF Sound

LEMMA PassedSound ==
  ASSUME air \in Airs, NEW g, Sound(g), NEW pl \in [Calls -> Nat]
  PROVE  Sound(Passed(g, pl))
<1> DEFINE read == Refreshed(Avoiding(g))
           n == Cardinality(Waiting(g.call))
           last == Judgements(read, pl)[n]
<1>1. Sound(read) /\ read.call = g.call
  BY AvoidingSound, RefreshedSound
<1>2. n \in Nat
  <2>1. Waiting(g.call) \in SUBSET Calls
    BY DEF Waiting
  <2> QED BY <2>1, ConstantsAssumption, FS_Subset, FS_CardinalityType
<1>3. Passed(g, pl) = [read EXCEPT !.call = last.call, !.tickets = last.tickets]
  BY DEF Passed
<1> HIDE DEF read
<1>4. SoundProgress(last)
  BY <1>1, <1>2, JudgementsSound
<1> HIDE DEF last
<1>5. /\ last.call \in [Calls -> CallState]
      /\ last.tickets \in [Addresses -> Ticket \cup {NoTicket}]
      /\ Accounted(last.call, last.tickets)
  BY <1>4 DEF SoundProgress, Progress
<1>6. read \in GateData
  BY <1>1 DEF Sound
<1>7. Passed(g, pl) \in GateData /\ Passed(g, pl).call = last.call
      /\ Passed(g, pl).tickets = last.tickets
  BY <1>3, <1>5, <1>6 DEF GateData
<1> QED
  BY <1>5, <1>7 DEF Sound

(* Letting some of the waiting calls go without a ticket.                   *)
LEMMA LetGoSound ==
  ASSUME NEW g, Sound(g), NEW W \in SUBSET Waiting(g.call),
         NEW outcome \in Outcomes \ Holding, NEW calls,
         calls = [c \in Calls |-> IF c \in W THEN Resolved(g.call, c, outcome)[c]
                                  ELSE g.call[c]]
  PROVE  calls \in [Calls -> CallState] /\ Accounted(calls, g.tickets)
<1>1. g \in GateData /\ Accounted(g.call, g.tickets)
  BY DEF Sound
<1>2. \A c \in W : c \in Calls /\ g.call[c].phase = "waiting"
  BY DEF Waiting
<1>3. g.call \in [Calls -> CallState]
  BY <1>1 DEF GateData
<1>4. \A c \in W : /\ calls[c].phase = "resolved" /\ calls[c].outcome = outcome
                    /\ calls[c] \in CallState
  BY <1>2, <1>3, ConstantsAssumption DEF Resolved, CallState, Phases
<1>5. calls \in [Calls -> CallState]
  BY <1>3, <1>4
<1>6. \A a \in Addresses : Holders(calls, a) = Holders(g.call, a)
  BY <1>2, <1>4 DEF Holders
<1> QED
  BY <1>1, <1>5, <1>6 DEF Accounted

(* A step broken off half way leaves data as sound as before and after it.  *)
LEMMA HalfSound ==
  ASSUME NEW g, Sound(g), NEW h, Sound(h)
  PROVE  Sound(Half(g, h)) /\ Half(g, h).call = h.call
<1>1. g \in GateData /\ h \in GateData /\ Accounted(h.call, h.tickets)
  BY DEF Sound
<1>2. /\ Half(g, h) \in GateData /\ Half(g, h).call = h.call
      /\ Half(g, h).tickets = h.tickets
  BY <1>1 DEF Half, GateData
<1> QED
  BY <1>1, <1>2 DEF Sound

LEMMA BrokenOffSound ==
  ASSUME air \in Airs, NEW g, Sound(g)
  PROVE  Sound(BrokenOff(g)) /\ BrokenOff(g).call = g.call
<1> DEFINE checked == ReleaseChecked(g)
           stuckAvoided == Avoiding(checked)
<1>1. Sound(checked) /\ checked.call = g.call
  BY AvoidingSound
<1> HIDE DEF checked
<1>2. Sound(stuckAvoided) /\ stuckAvoided.call = g.call
  BY <1>1, AvoidingSound
<1> HIDE DEF stuckAvoided
<1>3. /\ Sound(Half(g, checked)) /\ Half(g, checked).call = g.call
      /\ Sound(Half(checked, stuckAvoided)) /\ Half(checked, stuckAvoided).call = g.call
  BY <1>1, <1>2, HalfSound
<1>4. Sound(Refreshed(stuckAvoided)) /\ Refreshed(stuckAvoided).call = g.call
  BY <1>2, RefreshedSound
<1>5. \/ BrokenOff(g) = Half(g, checked) \/ BrokenOff(g) = checked
      \/ BrokenOff(g) = Half(checked, stuckAvoided)
      \/ BrokenOff(g) = Refreshed(stuckAvoided)
  BY DEF BrokenOff, checked, stuckAvoided
<1> QED
  BY <1>1, <1>3, <1>4, <1>5

(* A pass that breaks off lets every waiting call go.                       *)
LEMMA BrokenOffLetsGo ==
  ASSUME air \in Airs, NEW g, Sound(g), NEW pl,
         Waiting(g.call) # {}, air.broken # "no"
  PROVE  /\ Sound(Pumped(g, pl))
         /\ Pumped(g, pl).tickets = BrokenOff(g).tickets
         /\ Pumped(g, pl).avoided = BrokenOff(g).avoided
         /\ \A c \in Calls :
               /\ g.call[c].phase # "waiting" => Pumped(g, pl).call[c] = g.call[c]
               /\ g.call[c].phase = "waiting" =>
                     /\ Pumped(g, pl).call[c].phase = "resolved"
                     /\ Pumped(g, pl).call[c].outcome = "unjudged"
<1> DEFINE q == Pumped(g, pl)
           h == BrokenOff(g)
<1>1. Sound(h) /\ h.call = g.call
  BY BrokenOffSound
<1>2. q = [h EXCEPT !.call = LetGo(g.call)]
  BY DEF Pumped
<1> HIDE DEF q, h
<1>3. h \in GateData
  BY <1>1 DEF Sound
<1>4. q.call = LetGo(g.call) /\ q.tickets = h.tickets /\ q.avoided = h.avoided
  BY <1>2, <1>3 DEF GateData
<1>5. LetGo(g.call) = [c \in Calls |-> IF c \in Waiting(h.call)
                                        THEN Resolved(h.call, c, "unjudged")[c] ELSE h.call[c]]
  BY <1>1 DEF LetGo, Waiting
<1>6. LetGo(g.call) \in [Calls -> CallState] /\ Accounted(LetGo(g.call), h.tickets)
  <2>1. "unjudged" \in Outcomes \ Holding
    BY DEF Outcomes, Holding
  <2> HIDE DEF h
  <2> QED BY <1>1, <1>5, <2>1, LetGoSound
<1>7. q \in GateData
  BY <1>2, <1>3, <1>6 DEF GateData
<1>8. Sound(q)
  BY <1>4, <1>6, <1>7 DEF Sound
<1>9. ASSUME NEW c \in Calls
      PROVE  /\ g.call[c].phase # "waiting" => LetGo(g.call)[c] = g.call[c]
             /\ g.call[c].phase = "waiting" =>
                   /\ LetGo(g.call)[c].phase = "resolved"
                   /\ LetGo(g.call)[c].outcome = "unjudged"
  BY <1>1, <1>3 DEF LetGo, Resolved, GateData
<1> QED
  BY <1>4, <1>8, <1>9 DEF q, h

(* Pumping the queue keeps the gate's data sound, wherever the reading of   *)
(* the scanners fails.                                                      *)
LEMMA PumpedSound ==
  ASSUME air \in Airs, NEW g, Sound(g), NEW pl \in [Calls -> Nat]
  PROVE  Sound(Pumped(g, pl))
<1>1. CASE Waiting(g.call) = {}
  BY <1>1 DEF Pumped
<1>2. CASE Waiting(g.call) # {} /\ air.broken # "no"
  BY <1>2, BrokenOffLetsGo
<1>3. CASE Waiting(g.call) # {} /\ air.broken = "no"
  BY <1>3, AvoidingSound, PassedSound DEF Pumped
<1> QED
  BY <1>1, <1>2, <1>3

-----------------------------------------------------------------------------
(* The inductive invariant.                                                 *)
IInv == TypeOK /\ TicketAccounting /\ TickWhileWaiting

LEMMA GateSound ==
  ASSUME TypeOK, TicketAccounting
  PROVE  Sound(Gate) /\ air \in Airs /\ place \in [Calls -> Nat]
BY DEF TypeOK, TicketAccounting, Sound, Gate, GateData

(* A handler that leaves sound data behind keeps the types and the account. *)
LEMMA BecomesSound ==
  ASSUME TypeOK, NEW g, Sound(g), NEW pl, Becomes(g, pl), tick' \in BOOLEAN
  PROVE  TypeOK' /\ TicketAccounting' /\ Waiting(call') = Waiting(g.call)
<1>1. g \in GateData /\ Accounted(g.call, g.tickets)
  BY DEF Sound
<1>2. /\ call' = g.call /\ tickets' = g.tickets /\ avoided' = g.avoided
      /\ released' = g.released /\ checks' = g.checks /\ releasing' = g.releasing
      /\ deferredOffs' = deferredOffs /\ air' = air
      /\ place' = Places(pl, g.call)
  BY DEF Becomes
<1>3. Places(pl, g.call) \in [Calls -> Nat]
  <2>1. ASSUME NEW c \in Calls
        PROVE  Cardinality({d \in Waiting(g.call) : pl[d] <= pl[c]}) \in Nat
    <3>1. {d \in Waiting(g.call) : pl[d] <= pl[c]} \in SUBSET Calls
      BY DEF Waiting
    <3> QED BY <3>1, ConstantsAssumption, FS_Subset, FS_CardinalityType
  <2> QED BY <2>1 DEF Places
<1>4. TypeOK'
  BY <1>1, <1>2, <1>3 DEF TypeOK, GateData
<1>5. TicketAccounting'
  BY <1>1, <1>2 DEF TicketAccounting, Accounted, Holders
<1> QED
  BY <1>2, <1>4, <1>5

LEMMA SettlesSound ==
  ASSUME IInv, NEW g, Sound(g), NEW pl, Settles(g, pl)
  PROVE  IInv'
<1>1. tick' \in BOOLEAN /\ tick' = (Waiting(g.call) # {})
  BY DEF Settles, Scheduled
<1>2. TypeOK' /\ TicketAccounting' /\ Waiting(call') = Waiting(g.call)
  BY <1>1, BecomesSound DEF IInv, Settles
<1> QED
  BY <1>1, <1>2 DEF IInv, TickWhileWaiting, Waiting

LEMMA IdleType == Idle \in CallState /\ Idle.phase = "idle" /\ Idle.outcome = "none"
BY ConstantsAssumption DEF Idle, CallState, Phases

(* Calls whose phase or outcome changes without changing who holds what.    *)
LEMMA SameHolders ==
  ASSUME NEW g, Sound(g), NEW calls \in [Calls -> CallState],
         \A a \in Addresses : Holders(calls, a) = Holders(g.call, a)
  PROVE  Sound([g EXCEPT !.call = calls])
BY DEF Sound, GateData, Accounted

LEMMA WentInType ==
  ASSUME NEW calls \in [Calls -> CallState], NEW c \in Calls
  PROVE  /\ WentIn(calls, c) \in [Calls -> CallState]
         /\ WentIn(calls, c)[c].outcome = calls[c].outcome
         /\ WentIn(calls, c)[c].phase \in {"resolved", "inside"} <=>
               calls[c].phase \in {"resolved", "inside"}
         /\ \A d \in Calls : d # c => WentIn(calls, c)[d] = calls[d]
<1> DEFINE phase == IF calls[c].phase = "resolved" THEN "inside" ELSE calls[c].phase
           new == [calls[c] EXCEPT !.phase = phase]
<1>1. WentIn(calls, c) = [calls EXCEPT ![c] = new]
  BY DEF WentIn
<1>2. phase \in Phases
        /\ (phase \in {"resolved", "inside"} <=> calls[c].phase \in {"resolved", "inside"})
  BY DEF CallState, Phases
<1> HIDE DEF phase
<1>3. new \in CallState /\ new.phase = phase /\ new.outcome = calls[c].outcome
  BY <1>2 DEF CallState
<1> HIDE DEF new
<1> QED
  BY <1>1, <1>2, <1>3

(* A queued call holds nothing yet.                                         *)
LEMMA ArriveQueues ==
  ASSUME IInv, NEW c \in Calls, Arrive(c)
  PROVE  LET queued == [call EXCEPT ![c] = [Idle EXCEPT !.phase = "waiting"]]
             pl == [place EXCEPT ![c] = Cardinality(Waiting(call)) + 1]
             g == [Gate EXCEPT !.call = queued]
         IN  /\ Sound(g) /\ air \in Airs /\ pl \in [Calls -> Nat]
             /\ g.call = queued /\ g.tickets = tickets /\ g.avoided = avoided
             /\ queued[c].phase = "waiting" /\ call[c].phase = "idle"
             /\ \A d \in Calls : d # c => queued[d] = call[d]
<1> DEFINE queued == [call EXCEPT ![c] = [Idle EXCEPT !.phase = "waiting"]]
           pl == [place EXCEPT ![c] = Cardinality(Waiting(call)) + 1]
<1>1. Sound(Gate) /\ air \in Airs /\ place \in [Calls -> Nat]
  BY GateSound DEF IInv
<1>2. call \in [Calls -> CallState] /\ call[c].phase = "idle"
  BY DEF Arrive, IInv, TypeOK
<1>3. queued \in [Calls -> CallState]
  BY <1>2, IdleType DEF CallState, Phases
<1>4. queued[c].phase = "waiting" /\ \A d \in Calls : d # c => queued[d] = call[d]
  BY <1>2, IdleType DEF CallState
<1>5. pl \in [Calls -> Nat]
  <2>1. Waiting(call) \in SUBSET Calls
    BY DEF Waiting
  <2>2. Cardinality(Waiting(call)) \in Nat
    BY <2>1, ConstantsAssumption, FS_Subset, FS_CardinalityType
  <2> QED BY <1>1, <2>2
<1> HIDE DEF queued
<1>6. \A a \in Addresses : Holders(queued, a) = Holders(call, a)
  BY <1>2, <1>4 DEF Holders
<1>7. Gate.call = call /\ Gate.tickets = tickets /\ Gate.avoided = avoided
  BY DEF Gate
<1>8. Sound([Gate EXCEPT !.call = queued])
  BY <1>1, <1>3, <1>6, <1>7, SameHolders
<1>9. /\ [Gate EXCEPT !.call = queued].call = queued
      /\ [Gate EXCEPT !.call = queued].tickets = tickets
      /\ [Gate EXCEPT !.call = queued].avoided = avoided
  BY DEF Gate
<1> QED
  BY <1>1, <1>2, <1>4, <1>5, <1>8, <1>9 DEF queued

(* A resolved call holds what it held once it is inside.                    *)
LEMMA ArriveSound ==
  ASSUME IInv, NEW c \in Calls, Arrive(c)
  PROVE  IInv'
<1> DEFINE queued == [Gate EXCEPT !.call =
                        [call EXCEPT ![c] = [Idle EXCEPT !.phase = "waiting"]]]
           pl == [place EXCEPT ![c] = Cardinality(Waiting(call)) + 1]
           g == Pumped(queued, pl)
           calls == WentIn(g.call, c)
<1>1. Sound(queued) /\ air \in Airs /\ pl \in [Calls -> Nat]
  BY ArriveQueues
<1>2. Settles([g EXCEPT !.call = calls], pl)
  BY DEF Arrive
<1> HIDE DEF queued, pl
<1>3. Sound(g)
  BY <1>1, PumpedSound
<1> HIDE DEF g
<1>4. g.call \in [Calls -> CallState]
  BY <1>3 DEF Sound, GateData
<1>5. calls \in [Calls -> CallState]
  BY <1>4, WentInType
<1>6. \A a \in Addresses : Holders(calls, a) = Holders(g.call, a)
  <2>1. /\ calls[c].outcome = g.call[c].outcome
        /\ calls[c].phase \in {"resolved", "inside"} <=>
              g.call[c].phase \in {"resolved", "inside"}
        /\ \A d \in Calls : d # c => calls[d] = g.call[d]
    BY <1>4, WentInType
  <2> HIDE DEF calls
  <2> QED BY <2>1 DEF Holders
<1> HIDE DEF calls
<1>7. Sound([g EXCEPT !.call = calls])
  BY <1>3, <1>5, <1>6, SameHolders
<1> QED
  BY <1>2, <1>7, SettlesSound

LEMMA CancelWaitingSound ==
  ASSUME IInv, NEW c \in Calls, CancelWaiting(c)
  PROVE  IInv'
<1> DEFINE calls == [call EXCEPT ![c] = Idle]
<1>1. Sound(Gate) /\ Gate.call = call
  BY GateSound DEF IInv, Gate
<1>2. call \in [Calls -> CallState] /\ call[c].phase = "waiting"
  BY DEF CancelWaiting, IInv, TypeOK
<1>3. calls \in [Calls -> CallState]
  BY <1>2, IdleType
<1>4. \A a \in Addresses : Holders(calls, a) = Holders(call, a)
  <2>1. calls[c].phase = "idle" /\ \A d \in Calls : d # c => calls[d] = call[d]
    BY <1>2, IdleType
  <2> HIDE DEF calls
  <2> QED BY <1>2, <2>1 DEF Holders
<1>5. Settles([Gate EXCEPT !.call = calls], place)
  BY <1>1 DEF CancelWaiting, Gate
<1> HIDE DEF calls
<1> QED
  BY <1>1, <1>3, <1>4, <1>5, SameHolders, SettlesSound

(* Giving back: the holders lose exactly the call that ends; the last one   *)
(* leaves no ticket behind.                                                 *)
LEMMA GivenBack ==
  ASSUME IInv, NEW c \in Calls, NEW check \in BOOLEAN,
         call[c].phase \in {"resolved", "inside"}, call[c].outcome \in Holding
  PROVE  LET a == AddressOf[c]
             calls == [call EXCEPT ![c] = Idle]
             g == Released([Gate EXCEPT !.call = calls], a, check)
         IN  /\ c \in Holders(call, a)
             /\ Holders(calls, a) = Holders(call, a) \ {c}
             /\ \A b \in Addresses : b # a => Holders(calls, b) = Holders(call, b)
             /\ tickets[a] \in Ticket /\ tickets[a] # NoTicket
             /\ tickets[a].holders = Cardinality(Holders(call, a))
             /\ IsFiniteSet(Holders(call, a))
             /\ Cardinality(Holders(calls, a)) = tickets[a].holders - 1
             /\ Waiting(calls) = Waiting(call)
             /\ tickets[a].holders = 1 =>
                   /\ Sound(g) /\ g.call = calls /\ g.avoided = avoided
                   /\ g.tickets = [tickets EXCEPT ![a] = NoTicket]
<1> DEFINE a == AddressOf[c]
           calls == [call EXCEPT ![c] = Idle]
           gone == [Gate EXCEPT !.call = calls]
<1>1. /\ Sound(Gate) /\ Gate \in GateData
      /\ Gate.call = call /\ Gate.tickets = tickets /\ Gate.avoided = avoided
  BY GateSound DEF IInv, Gate, Sound
<1>2. a \in Addresses /\ call \in [Calls -> CallState]
  BY ConstantsAssumption DEF IInv, TypeOK
<1>3. calls \in [Calls -> CallState]
  BY <1>2, IdleType
<1>4. calls[c].phase = "idle" /\ \A d \in Calls : d # c => calls[d] = call[d]
  BY <1>2, IdleType
<1>6. /\ gone.call = calls /\ gone.tickets = tickets /\ gone.avoided = avoided
      /\ gone \in GateData
  BY <1>1, <1>3 DEF GateData
<1>9. /\ c \in Holders(call, a)
      /\ Holders(calls, a) = Holders(call, a) \ {c}
      /\ \A b \in Addresses : b # a => Holders(calls, b) = Holders(call, b)
      /\ tickets[a] \in Ticket /\ tickets[a] # NoTicket
      /\ tickets[a].holders = Cardinality(Holders(call, a))
      /\ IsFiniteSet(Holders(call, a))
      /\ Cardinality(Holders(calls, a)) = tickets[a].holders - 1
      /\ Waiting(calls) = Waiting(call)
  <2> HIDE DEF calls
  <2>1. c \in Holders(call, a)
    BY DEF Holders
  <2>2. Holders(calls, a) = Holders(call, a) \ {c}
    BY <1>4 DEF Holders
  <2>3. \A b \in Addresses : b # a => Holders(calls, b) = Holders(call, b)
    BY <1>4 DEF Holders
  <2>4. tickets[a] # NoTicket /\ tickets[a].holders = Cardinality(Holders(call, a))
    BY <1>2, <2>1 DEF IInv, TicketAccounting, Accounted
  <2>5. tickets[a] \in Ticket
    BY <1>2, <2>4 DEF IInv, TypeOK
  <2>6. IsFiniteSet(Holders(call, a))
    BY HoldersFinite
  <2>7. Cardinality(Holders(calls, a)) = tickets[a].holders - 1
    <3> DEFINE H == Holders(call, a)
    <3> HIDE DEF H
    <3>1. Cardinality(H \ {c}) = Cardinality(H) - 1
      BY <2>1, <2>6, FS_RemoveElement DEF H
    <3> QED BY <2>2, <2>4, <3>1 DEF H
  <2>8. Waiting(calls) = Waiting(call)
    BY <1>4 DEF Waiting
  <2> QED BY <2>1, <2>2, <2>3, <2>4, <2>5, <2>6, <2>7, <2>8
<1>11. ASSUME tickets[a].holders = 1
       PROVE  LET g == Released(gone, a, check)
              IN  /\ Sound(g) /\ g.call = calls /\ g.avoided = avoided
                  /\ g.tickets = [tickets EXCEPT ![a] = NoTicket]
  <2> DEFINE g == Released(gone, a, check)
             k == [address |-> a, scanner |-> tickets[a].scanner,
                   connected |-> tickets[a].connected, due |-> Grace]
  <2>2. Holders(calls, a) = {}
    <3>1. IsFiniteSet(Holders(calls, a))
      BY HoldersFinite
    <3> QED BY <1>9, <1>11, <3>1, FS_EmptySet
  <2>3. k \in Check /\ tickets[a].scanner \in Radios
    BY <1>2, <1>9, <1>11, ConstantsAssumption DEF Ticket, Check
  <2>4. g = [gone EXCEPT !.tickets = [tickets EXCEPT ![a] = NoTicket],
                         !.released = [@ EXCEPT ![tickets[a].scanner] = Grace],
                         !.checks = IF check THEN @ \cup {k} ELSE @]
    BY <1>6 DEF Released
  <2>5. Grace \in 0..Grace
    BY ConstantsAssumption
  <2>6. /\ g \in GateData /\ g.call = calls /\ g.avoided = avoided
        /\ g.tickets = [tickets EXCEPT ![a] = NoTicket]
    <3> DEFINE tks == [tickets EXCEPT ![a] = NoTicket]
               rel == [gone.released EXCEPT ![tickets[a].scanner] = Grace]
               cks == IF check THEN gone.checks \cup {k} ELSE gone.checks
    <3> HIDE DEF gone, calls, k
    <3>1. tks \in [Addresses -> Ticket \cup {NoTicket}]
      BY <1>2 DEF IInv, TypeOK
    <3>2. rel \in [Radios -> 0..Grace]
      BY <1>6, <2>3, <2>5 DEF GateData
    <3>3. cks \in SUBSET Check
      BY <1>6, <2>3 DEF GateData
    <3>4. g = [gone EXCEPT !.tickets = tks, !.released = rel, !.checks = cks]
      BY <2>4
    <3> HIDE DEF g, tks, rel, cks
    <3>5. g \in GateData /\ g.call = gone.call /\ g.tickets = tks
          /\ g.avoided = gone.avoided
      BY <1>6, <3>1, <3>2, <3>3, <3>4 DEF GateData
    <3> QED BY <1>6, <3>5 DEF tks
  <2> HIDE DEF g
  <2>7. Accounted(g.call, g.tickets)
    <3>1. tickets \in [Addresses -> Ticket \cup {NoTicket}]
      BY DEF IInv, TypeOK
    <3> HIDE DEF calls
    <3> QED BY <1>2, <1>9, <1>11, <2>2, <2>6, <3>1 DEF Accounted, IInv, TicketAccounting
  <2> QED BY <2>6, <2>7 DEF Sound, g
<1> QED
  BY <1>9, <1>11

LEMMA GiveBackSound ==
  ASSUME IInv, NEW c \in Calls, NEW check \in BOOLEAN, GiveBack(c, check),
         call[c].phase \in {"resolved", "inside"}
  PROVE  IInv'
<1> DEFINE a == AddressOf[c]
           calls == [call EXCEPT ![c] = Idle]
           gone == [Gate EXCEPT !.call = calls]
<1>1. /\ Sound(Gate) /\ Gate \in GateData /\ air \in Airs /\ place \in [Calls -> Nat]
      /\ Gate.call = call /\ Gate.tickets = tickets
  BY GateSound DEF IInv, Gate, Sound
<1>2. a \in Addresses /\ call \in [Calls -> CallState]
  BY ConstantsAssumption DEF IInv, TypeOK
<1>3. calls \in [Calls -> CallState]
  BY <1>2, IdleType
<1>4. calls[c].phase = "idle" /\ \A d \in Calls : d # c => calls[d] = call[d]
  BY <1>2, IdleType
<1>5. gone = [Gate EXCEPT !.call = calls]
  OBVIOUS
<1>6. /\ gone.call = calls /\ gone.tickets = tickets
      /\ gone \in GateData
  BY <1>1, <1>3 DEF GateData
<1>8. CASE call[c].outcome \notin Holding
  <2>1. Becomes(gone, place) /\ UNCHANGED tick
    BY <1>8 DEF GiveBack
  <2>2. \A b \in Addresses : Holders(calls, b) = Holders(call, b)
    <3> HIDE DEF calls
    <3> QED BY <1>4, <1>8 DEF Holders
  <2>3. Sound(gone)
    <3> HIDE DEF calls
    <3> QED BY <1>1, <1>3, <2>2, SameHolders
  <2>4. Waiting(calls) = Waiting(call)
    <3> HIDE DEF calls
    <3> QED BY <1>4 DEF Waiting
  <2>5. TypeOK' /\ TicketAccounting' /\ Waiting(call') = Waiting(calls)
    <3>1. tick' \in BOOLEAN
      BY <2>1 DEF IInv, TypeOK
    <3> HIDE DEF gone, calls
    <3> QED BY <1>6, <2>1, <2>3, <3>1, BecomesSound DEF IInv
  <2> QED
    <3> HIDE DEF calls
    <3> QED BY <2>1, <2>4, <2>5 DEF IInv, TickWhileWaiting, Waiting
<1>9. ASSUME call[c].outcome \in Holding
      PROVE  /\ c \in Holders(call, a)
             /\ Holders(calls, a) = Holders(call, a) \ {c}
             /\ \A b \in Addresses : b # a => Holders(calls, b) = Holders(call, b)
             /\ tickets[a] \in Ticket /\ tickets[a] # NoTicket
             /\ tickets[a].holders = Cardinality(Holders(call, a))
             /\ IsFiniteSet(Holders(call, a))
             /\ Cardinality(Holders(calls, a)) = tickets[a].holders - 1
             /\ Waiting(calls) = Waiting(call)
  BY <1>9, GivenBack
<1>10. CASE call[c].outcome \in Holding /\ tickets[a].holders # 1
  <2> DEFINE tks == [tickets EXCEPT ![a].holders = @ - 1]
             g == [gone EXCEPT !.tickets = tks]
  <2>1. Becomes(g, place) /\ UNCHANGED tick
    BY <1>10 DEF GiveBack
  <2>2. tickets \in [Addresses -> Ticket \cup {NoTicket}]
    BY DEF IInv, TypeOK
  <2>3. tickets[a].holders \in Nat /\ Holders(call, a) # {}
    BY <1>9, <1>10 DEF Ticket
  <2>4. tickets[a].holders # 0
    BY <1>9, <1>10, <2>3, FS_EmptySet
  <2>5. [tickets[a] EXCEPT !.holders = @ - 1] \in Ticket
    BY <1>9, <1>10, <2>3, <2>4 DEF Ticket
  <2>6. /\ tks \in [Addresses -> Ticket \cup {NoTicket}]
        /\ tks[a] = [tickets[a] EXCEPT !.holders = @ - 1]
        /\ \A b \in Addresses : b # a => tks[b] = tickets[b]
    BY <1>2, <2>2, <2>5
  <2>7. tks[a] # NoTicket /\ tks[a].holders = tickets[a].holders - 1
    <3>1. tks[a] # NoTicket
      BY <2>5, <2>6, ConstantsAssumption
    <3>2. tks[a].holders = tickets[a].holders - 1
      BY <1>9, <1>10, <2>6 DEF Ticket
    <3> QED BY <3>1, <3>2
  <2>8. Holders(calls, a) # {}
    <3> SUFFICES ASSUME Holders(calls, a) = {} PROVE FALSE
      OBVIOUS
    <3>1. Cardinality(Holders(calls, a)) = 0
      BY FS_EmptySet
    <3> HIDE DEF calls
    <3> QED BY <1>9, <1>10, <2>3, <3>1
  <2> HIDE DEF tks
  <2>9. Accounted(calls, tks)
    <3> HIDE DEF calls
    <3> QED BY <1>9, <1>10, <2>6, <2>7, <2>8 DEF Accounted, IInv, TicketAccounting
  <2>10. g \in GateData /\ g.call = calls /\ g.tickets = tks
    BY <1>6, <2>6 DEF GateData
  <2> HIDE DEF g
  <2>11. TypeOK' /\ TicketAccounting' /\ Waiting(call') = Waiting(calls)
    <3>1. tick' \in BOOLEAN
      BY <2>1 DEF IInv, TypeOK
    <3> HIDE DEF calls
    <3> QED BY <2>1, <2>9, <2>10, <3>1, BecomesSound DEF IInv, Sound
  <2> QED
    <3> HIDE DEF calls
    <3> QED BY <1>9, <1>10, <2>1, <2>11 DEF IInv, TickWhileWaiting, Waiting
<1>11. CASE call[c].outcome \in Holding /\ tickets[a].holders = 1
  <2> DEFINE g == Released(gone, a, check)
  <2>1. Settles(Pumped(g, place), place)
    BY <1>11 DEF GiveBack
  <2>2. Sound(g)
    BY <1>11, GivenBack
  <2> HIDE DEF g
  <2> QED BY <1>1, <2>1, <2>2, PumpedSound, SettlesSound
<1> QED
  BY <1>8, <1>10, <1>11

LEMMA ReleaseWaitersSound ==
  ASSUME IInv, NEW a \in Addresses, ReleaseWaiters(a)
  PROVE  IInv'
<1> DEFINE W == {c \in Waiting(call) : AddressOf[c] = a}
           calls == [c \in Calls |->
                       IF c \in W THEN Resolved(call, c, "released")[c] ELSE call[c]]
<1>1. Sound(Gate) /\ Gate.call = call /\ Gate.tickets = tickets /\ Gate \in GateData
  BY GateSound DEF IInv, Gate, Sound
<1>2. "released" \in Outcomes \ Holding
  BY DEF Outcomes, Holding
<1>3. calls \in [Calls -> CallState] /\ Accounted(calls, tickets)
  <2>1. W \in SUBSET Waiting(Gate.call)
    BY <1>1
  <2>2. calls = [c \in Calls |->
                   IF c \in W THEN Resolved(Gate.call, c, "released")[c] ELSE Gate.call[c]]
    BY <1>1
  <2> HIDE DEF calls, W
  <2> QED BY <1>1, <1>2, <2>1, <2>2, LetGoSound
<1>4. Settles([Gate EXCEPT !.call = calls], place)
  <2>1. calls = [c \in Calls |->
                   IF call[c].phase = "waiting" /\ AddressOf[c] = a
                   THEN Resolved(call, c, "released")[c] ELSE call[c]]
    BY DEF Waiting
  <2> HIDE DEF calls
  <2> QED BY <2>1 DEF ReleaseWaiters, Gate
<1> HIDE DEF calls
<1>5. /\ [Gate EXCEPT !.call = calls] \in GateData
      /\ [Gate EXCEPT !.call = calls].call = calls
      /\ [Gate EXCEPT !.call = calls].tickets = tickets
  BY <1>1, <1>3 DEF GateData
<1>6. Sound([Gate EXCEPT !.call = calls])
  BY <1>3, <1>5 DEF Sound
<1> QED
  BY <1>4, <1>6, SettlesSound

(* The steps that leave calls' holdings alone.                              *)
LEMMA ResumeSound ==
  ASSUME IInv, NEW c \in Calls, Resume(c)
  PROVE  IInv'
<1>1. call \in [Calls -> CallState] /\ call[c].phase = "resolved"
  BY DEF Resume, IInv, TypeOK
<1>2. /\ call' \in [Calls -> CallState]
      /\ call'[c].phase = "inside" /\ call'[c].outcome = call[c].outcome
      /\ \A d \in Calls : d # c => call'[d] = call[d]
  <2>1. call' = [call EXCEPT ![c] = [call[c] EXCEPT !.phase = "inside"]]
    BY <1>1 DEF Resume
  <2>2. /\ [call[c] EXCEPT !.phase = "inside"] \in CallState
        /\ [call[c] EXCEPT !.phase = "inside"].phase = "inside"
        /\ [call[c] EXCEPT !.phase = "inside"].outcome = call[c].outcome
    BY <1>1 DEF CallState, Phases
  <2> QED BY <1>1, <2>1, <2>2
<1>3. \A a \in Addresses : Holders(call', a) = Holders(call, a)
  BY <1>1, <1>2 DEF Holders
<1>4. Waiting(call') = Waiting(call)
  BY <1>1, <1>2 DEF Waiting
<1>5. UNCHANGED <<place, tickets, avoided, released, checks, releasing, deferredOffs, tick, air>>
  BY DEF Resume
<1>6. TypeOK'
  BY <1>2, <1>5 DEF IInv, TypeOK
<1>7. TicketAccounting'
  BY <1>3, <1>5 DEF IInv, TicketAccounting, Accounted
<1> QED
  BY <1>4, <1>5, <1>6, <1>7 DEF IInv, TickWhileWaiting

LEMMA AdvanceSound ==
  ASSUME IInv, Advance
  PROVE  IInv'
<1>1. /\ call \in [Calls -> CallState]
      /\ tickets \in [Addresses -> Ticket \cup {NoTicket}]
      /\ avoided \in [Radios -> 0..AvoidFor] /\ released \in [Radios -> 0..Grace]
      /\ checks \in SUBSET Check
  BY DEF IInv, TypeOK
<1>2. /\ \A n \in 0..MaxWait : Older(n) \in 0..MaxWait
      /\ \A m \in Nat : \A n \in 0..m : Less(n) \in 0..m
  BY ConstantsAssumption DEF Older, Less
<1>3. ASSUME NEW c \in Calls
      PROVE  /\ call'[c] \in CallState /\ call'[c].phase = call[c].phase
             /\ call'[c].outcome = call[c].outcome
  BY <1>1, <1>2 DEF Advance, CallState
<1>4. call' \in [Calls -> CallState]
  BY <1>3 DEF Advance
<1>5. ASSUME NEW a \in Addresses
      PROVE  /\ tickets[a] = NoTicket => tickets'[a] = NoTicket
             /\ tickets[a] # NoTicket => /\ tickets'[a] \in Ticket
                                         /\ tickets'[a].holders = tickets[a].holders
  BY <1>1, <1>2 DEF Advance, Ticket
<1>6. tickets' \in [Addresses -> Ticket \cup {NoTicket}]
  BY <1>5 DEF Advance
<1>7. avoided' \in [Radios -> 0..AvoidFor] /\ released' \in [Radios -> 0..Grace]
  BY <1>1, <1>2, ConstantsAssumption DEF Advance
<1>8. checks' \in SUBSET Check
  <2>1. \A k \in checks : [k EXCEPT !.due = Less(@)] \in Check
    BY <1>1, <1>2, ConstantsAssumption DEF Check
  <2> QED BY <2>1 DEF Advance
<1>9. UNCHANGED <<place, releasing, deferredOffs, tick, air>>
  BY DEF Advance
<1>10. TypeOK'
  BY <1>4, <1>6, <1>7, <1>8, <1>9 DEF IInv, TypeOK
<1>11. \A a \in Addresses : Holders(call', a) = Holders(call, a)
  BY <1>3 DEF Holders
<1>12. \A a \in Addresses : tickets'[a] = NoTicket <=> tickets[a] = NoTicket
  BY <1>5, ConstantsAssumption
<1>13. TicketAccounting'
  BY <1>5, <1>11, <1>12 DEF IInv, TicketAccounting, Accounted
<1>14. Waiting(call') = Waiting(call)
  BY <1>3 DEF Waiting
<1> QED
  BY <1>9, <1>10, <1>13, <1>14 DEF IInv, TickWhileWaiting

LEMMA EndReleasingSound ==
  ASSUME IInv, NEW a \in Addresses, EndReleasing(a)
  PROVE  LET g == [Gate EXCEPT !.releasing = [releasing EXCEPT ![a] = @ - 1]]
         IN  /\ Sound(g) /\ g.call = call /\ g.tickets = tickets /\ g.avoided = avoided
<1> DEFINE rel == [releasing EXCEPT ![a] = @ - 1]
           g == [Gate EXCEPT !.releasing = rel]
<1>1. /\ Sound(Gate) /\ Gate \in GateData
      /\ Gate.call = call /\ Gate.tickets = tickets /\ Gate.avoided = avoided
  BY GateSound DEF IInv, Gate, Sound
<1>2. rel \in [Addresses -> Nat]
  BY DEF EndReleasing, IInv, TypeOK
<1> HIDE DEF rel
<1>3. g \in GateData /\ g.call = call /\ g.tickets = tickets /\ g.avoided = avoided
  BY <1>1, <1>2 DEF GateData
<1> QED
  BY <1>1, <1>3 DEF Sound, rel

(* The steps outside the calls: counts noted and ended, a pass, the air.    *)
LEMMA OutsideSound ==
  ASSUME IInv,
         \/ \E a \in Addresses : NoteReleasing(a) \/ EndReleasing(a)
         \/ NoteDeferredOff \/ EndDeferredOff \/ OnTick \/ AirChange
  PROVE  IInv'
<1>1. Sound(Gate) /\ air \in Airs /\ place \in [Calls -> Nat]
  BY GateSound DEF IInv
<1>2. /\ releasing \in [Addresses -> Nat] /\ deferredOffs \in Nat
  BY DEF IInv, TypeOK
<1>3. ASSUME UNCHANGED <<call, place, tickets, avoided, released, checks, tick>>,
             releasing' \in [Addresses -> Nat], deferredOffs' \in Nat, air' \in Airs
      PROVE  IInv'
  BY <1>3 DEF IInv, TypeOK, TicketAccounting, TickWhileWaiting, Accounted, Holders, Waiting
<1>4. ASSUME NEW a \in Addresses, NoteReleasing(a) PROVE IInv'
  BY <1>1, <1>2, <1>3, <1>4 DEF NoteReleasing
<1>5. ASSUME NEW a \in Addresses, EndReleasing(a) PROVE IInv'
  <2> DEFINE g == [Gate EXCEPT !.releasing = [releasing EXCEPT ![a] = @ - 1]]
  <2>1. Settles(Pumped(g, place), place)
    BY <1>5 DEF EndReleasing
  <2>2. Sound(g)
    BY <1>5, EndReleasingSound
  <2> HIDE DEF g
  <2> QED BY <1>1, <2>1, <2>2, PumpedSound, SettlesSound
<1>6. ASSUME OnTick PROVE IInv'
  BY <1>1, <1>6, PumpedSound, SettlesSound DEF OnTick
<1>7. ASSUME NoteDeferredOff PROVE IInv'
  BY <1>1, <1>2, <1>3, <1>7 DEF NoteDeferredOff
<1>8. ASSUME EndDeferredOff PROVE IInv'
  BY <1>1, <1>2, <1>3, <1>8 DEF EndDeferredOff
<1>9. ASSUME AirChange PROVE IInv'
  BY <1>1, <1>2, <1>3, <1>9 DEF AirChange
<1> QED
  BY <1>4, <1>5, <1>6, <1>7, <1>8, <1>9

LEMMA InitSound == Init => IInv
<1> SUFFICES ASSUME Init PROVE IInv
  OBVIOUS
<1>1. TypeOK
  <2>1. /\ call \in [Calls -> CallState] /\ place \in [Calls -> Nat]
        /\ tickets \in [Addresses -> Ticket \cup {NoTicket}]
    BY IdleType DEF Init
  <2>2. avoided \in [Radios -> 0..AvoidFor] /\ released \in [Radios -> 0..Grace]
    BY ConstantsAssumption DEF Init
  <2>3. /\ checks \subseteq Check /\ releasing \in [Addresses -> Nat]
        /\ deferredOffs \in Nat /\ tick \in BOOLEAN /\ air \in Airs
    BY DEF Init
  <2> QED BY <2>1, <2>2, <2>3 DEF TypeOK
<1>2. \A a \in Addresses : Holders(call, a) = {} /\ tickets[a] = NoTicket
  BY IdleType DEF Init, Holders
<1>3. Waiting(call) = {} /\ tick = FALSE
  BY IdleType DEF Init, Waiting
<1> QED
  BY <1>1, <1>2, <1>3 DEF IInv, TicketAccounting, Accounted, TickWhileWaiting

LEMMA NextSound == IInv /\ [Next]_vars => IInv'
<1> SUFFICES ASSUME IInv, [Next]_vars PROVE IInv'
  OBVIOUS
<1>1. ASSUME NEW c \in Calls, Arrive(c) PROVE IInv'
  BY <1>1, ArriveSound
<1>2. ASSUME NEW c \in Calls, Resume(c) PROVE IInv'
  BY <1>2, ResumeSound
<1>3. ASSUME NEW c \in Calls, CancelWaiting(c) PROVE IInv'
  BY <1>3, CancelWaitingSound
<1>4. ASSUME NEW c \in Calls, CancelResolved(c) \/ Succeed(c) \/ Fail(c) PROVE IInv'
  BY <1>4, GiveBackSound DEF CancelResolved, Succeed, Fail
<1>5. ASSUME NEW a \in Addresses, ReleaseWaiters(a) PROVE IInv'
  BY <1>5, ReleaseWaitersSound
<1>6. CASE \/ \E a \in Addresses : NoteReleasing(a) \/ EndReleasing(a)
           \/ NoteDeferredOff \/ EndDeferredOff \/ OnTick \/ AirChange
  BY <1>6, OutsideSound
<1>7. CASE Advance
  BY <1>7, AdvanceSound
<1>8. CASE UNCHANGED vars
  BY <1>8 DEF vars, IInv, TypeOK, TicketAccounting, TickWhileWaiting, Accounted,
              Holders, Waiting
<1> QED
  BY <1>1, <1>2, <1>3, <1>4, <1>5, <1>6, <1>7, <1>8 DEF Next

-----------------------------------------------------------------------------
(* A radio that carries one of our connects is not avoided.                 *)
Carried(tks, avs) ==
    \A a \in Addresses : tks[a] # NoTicket /\ tks[a].connected => avs[tks[a].scanner] = 0

(* Finding the tickets' devices makes it so: a ticket counts as connected   *)
(* from then on exactly where the radio's avoidance just ended.             *)
LEMMA RefreshedCarried ==
  ASSUME air \in Airs, NEW g, Sound(g)
  PROVE  Carried(Refreshed(g).tickets, Refreshed(g).avoided)
<1> DEFINE up(r) == \E a \in Addresses : /\ g.tickets[a] # NoTicket
                                        /\ Listing(a) # {} /\ SeenOn(a) = r /\ SeenUp(g, a)
           tks == [a \in Addresses |->
                      IF g.tickets[a] = NoTicket THEN NoTicket ELSE Seen(g, a)]
           avs == [r \in Radios |-> IF up(r) THEN 0 ELSE g.avoided[r]]
<1>1. g \in GateData
  BY DEF Sound
<1>2. Refreshed(g).tickets = tks /\ Refreshed(g).avoided = avs
  <2>1. Refreshed(g) = [g EXCEPT !.tickets = tks, !.avoided = avs]
    BY DEF Refreshed
  <2> HIDE DEF tks, avs
  <2> QED BY <1>1, <2>1 DEF GateData
<1>3. ASSUME NEW a \in Addresses, g.tickets[a] # NoTicket, Seen(g, a).connected
      PROVE  avs[Seen(g, a).scanner] = 0
  <2>1. g.tickets[a] \in Ticket
    BY <1>1, <1>3 DEF GateData
  <2>2. CASE Listing(a) = {}
    <3>1. Seen(g, a).connected = FALSE
      BY <2>1, <2>2 DEF Seen, Ticket
    <3> QED BY <1>3, <3>1
  <2>3. CASE Listing(a) # {}
    <3>1. Seen(g, a).scanner = SeenOn(a) /\ Seen(g, a).connected = SeenUp(g, a)
      BY <2>1, <2>3 DEF Seen, Ticket
    <3>2. SeenOn(a) \in Radios
      BY <2>3, AirPaths DEF Listing, SeenOn
    <3>3. up(SeenOn(a))
      BY <1>3, <2>3, <3>1
    <3> HIDE DEF up
    <3> QED BY <3>1, <3>2, <3>3
  <2> QED BY <2>2, <2>3
<1> HIDE DEF avs
<1> QED
  BY <1>2, <1>3 DEF Carried

(* What a pass leaves of the tickets and the avoided radios.                *)
LEMMA PassedShape ==
  ASSUME air \in Airs, NEW g, Sound(g), NEW pl \in [Calls -> Nat]
  PROVE  LET read == Refreshed(Avoiding(g))
             last == Judgements(read, pl)[Cardinality(Waiting(read.call))]
         IN  /\ Sound(read) /\ read.call = g.call
             /\ Cardinality(Waiting(read.call)) \in Nat
             /\ Passed(g, pl).call = last.call /\ Passed(g, pl).tickets = last.tickets
             /\ Passed(g, pl).avoided = read.avoided
<1> DEFINE read == Refreshed(Avoiding(g))
           last == Judgements(read, pl)[Cardinality(Waiting(read.call))]
<1>1. Sound(read) /\ read.call = g.call
  BY AvoidingSound, RefreshedSound
<1>2. Passed(g, pl) = [read EXCEPT !.call = last.call, !.tickets = last.tickets]
  BY <1>1 DEF Passed
<1>3. Cardinality(Waiting(read.call)) \in Nat
  <2>1. Waiting(read.call) \in SUBSET Calls
    BY DEF Waiting
  <2> QED BY <2>1, ConstantsAssumption, FS_Subset, FS_CardinalityType
<1> HIDE DEF read, last
<1>4. read \in GateData
  BY <1>1 DEF Sound
<1>5. /\ Passed(g, pl).call = last.call /\ Passed(g, pl).tickets = last.tickets
      /\ Passed(g, pl).avoided = read.avoided
  BY <1>2, <1>4 DEF GateData
<1> QED
  BY <1>1, <1>3, <1>5 DEF read, last

(* The judgements keep it: a new ticket isn't connected yet.                *)
LEMMA PassedCarried ==
  ASSUME air \in Airs, NEW g, Sound(g), NEW pl \in [Calls -> Nat]
  PROVE  Carried(Passed(g, pl).tickets, Passed(g, pl).avoided)
<1> DEFINE read == Refreshed(Avoiding(g))
           n == Cardinality(Waiting(read.call))
           last == Judgements(read, pl)[n]
           S == {p \in Progress : Carried(p.tickets, read.avoided)}
<1>1. /\ Sound(read) /\ n \in Nat
      /\ Passed(g, pl).tickets = last.tickets /\ Passed(g, pl).avoided = read.avoided
  BY PassedShape
<1>2. Carried(read.tickets, read.avoided)
  BY AvoidingSound, RefreshedCarried
<1> HIDE DEF read
<1>3. FirstJudgement(read) \in S
  <2>1. FirstJudgement(read) \in Progress
    BY <1>1, FirstJudgementSound DEF SoundProgress
  <2> QED BY <1>2, <2>1 DEF FirstJudgement
<1>4. ASSUME NEW p \in S, SoundProgress(p), p.left # {}
      PROVE  Judged(read, p, NextServed(p.left, read.avoided, pl)) \in S
  <2> DEFINE c == NextServed(p.left, read.avoided, pl)
             a == AddressOf[c]
             q == Judged(read, p, c)
             outcome == Decision(read, p, c)
  <2>1. c \in p.left
    BY <1>4, NextServedType DEF SoundProgress, Progress
  <2>2. read \in GateData
    BY <1>1 DEF Sound
  <2> HIDE DEF c
  <2>3. q \in Progress
    BY <2>1, <2>2, <1>4, JudgedSound DEF SoundProgress
  <2>4. /\ a \in Addresses
        /\ \A b \in Addresses : b # a => q.tickets[b] = p.tickets[b]
        /\ outcome \notin {"admitted", "capped"} =>
              /\ p.tickets[a] = NoTicket => q.tickets[a] = NoTicket
              /\ p.tickets[a] # NoTicket =>
                    /\ q.tickets[a].scanner = p.tickets[a].scanner
                    /\ q.tickets[a].connected = p.tickets[a].connected
        /\ outcome \in {"admitted", "capped"} =>
              q.tickets[a] = NewTicket(q.tickets[a].scanner)
    BY <2>1, <2>2, <1>4, JudgedShape
  <2>5. \A r : ~NewTicket(r).connected
    BY DEF NewTicket
  <2> HIDE DEF q, outcome, a
  <2>6. Carried(q.tickets, read.avoided)
    BY <2>4, <2>5, <1>4 DEF Carried
  <2> QED BY <2>3, <2>6 DEF q, c
<1>5. last \in S
  <2> HIDE DEF S, n
  <2> QED BY <1>1, <1>3, <1>4, JudgementsStay DEF n
<1> QED
  BY <1>1, <1>5

(* What a step may do to the carriers: avoid none that wasn't, leave none   *)
(* avoided, or break off early and let some waiting call go unjudged.       *)
NoneWorse == \A a \in Addresses : CarrierAvoided(a)' => CarrierAvoided(a)
NoneLeft == Carried(tickets', avoided')
BrokeOffEarly ==
    /\ air.broken \in {"checking", "reading", "avoiding"}
    /\ \E c \in Calls : Goes(c, "unjudged")

(* A handler that ends with a pump: nothing is read if no call waits, the   *)
(* tickets are found in a pass or in one that broke off later.              *)
LEMMA PumpCarries ==
  ASSUME air \in Airs, NEW g, Sound(g), NEW pl \in [Calls -> Nat],
         \A c \in Waiting(g.call) : call[c].phase \in {"idle", "waiting"},
         tickets' = Pumped(g, pl).tickets, avoided' = Pumped(g, pl).avoided,
         \A c \in Calls : /\ call'[c].outcome = Pumped(g, pl).call[c].outcome
                          /\ Pumped(g, pl).call[c].phase = "resolved" =>
                                call'[c].phase \in {"resolved", "inside"}
  PROVE  \/ Waiting(g.call) = {} /\ tickets' = g.tickets /\ avoided' = g.avoided
         \/ NoneLeft
         \/ BrokeOffEarly
<1>1. CASE Waiting(g.call) = {}
  BY <1>1 DEF Pumped
<1>2. CASE Waiting(g.call) # {} /\ air.broken = "no"
  BY <1>2, AvoidingSound, PassedCarried DEF Pumped, NoneLeft
<1>3. CASE Waiting(g.call) # {} /\ air.broken = "judging"
  <2>1. Sound(Avoiding(ReleaseChecked(g)))
    BY AvoidingSound
  <2>2. BrokenOff(g) = Refreshed(Avoiding(ReleaseChecked(g)))
    BY <1>3 DEF BrokenOff
  <2>3. Carried(BrokenOff(g).tickets, BrokenOff(g).avoided)
    BY <2>1, <2>2, RefreshedCarried
  <2>4. tickets' = BrokenOff(g).tickets /\ avoided' = BrokenOff(g).avoided
    BY <1>3, BrokenOffLetsGo
  <2> QED BY <2>3, <2>4 DEF NoneLeft
<1>4. CASE Waiting(g.call) # {} /\ air.broken \in {"checking", "reading", "avoiding"}
  <2>1. PICK c \in Waiting(g.call) : TRUE
    BY <1>4
  <2>2. c \in Calls /\ g.call[c].phase = "waiting"
    BY <2>1 DEF Waiting
  <2>3. /\ Pumped(g, pl).call[c].phase = "resolved"
        /\ Pumped(g, pl).call[c].outcome = "unjudged"
    BY <1>4, <2>2, BrokenOffLetsGo
  <2>4. Goes(c, "unjudged")
    BY <2>1, <2>2, <2>3 DEF Goes
  <2> QED BY <1>4, <2>2, <2>4 DEF BrokeOffEarly
<1>5. air.broken \in BrokenAt
  BY ConstantsAssumption DEF Air
<1> QED
  BY <1>1, <1>2, <1>3, <1>4, <1>5 DEF BrokenAt

LEMMA ArriveCarries ==
  ASSUME IInv, NEW c \in Calls, Arrive(c)
  PROVE  NoneLeft \/ BrokeOffEarly
<1> DEFINE pl == [place EXCEPT ![c] = Cardinality(Waiting(call)) + 1]
           queued == [call EXCEPT ![c] = [Idle EXCEPT !.phase = "waiting"]]
           g == [Gate EXCEPT !.call = queued]
           q == Pumped(g, pl)
           gone == [q EXCEPT !.call = WentIn(q.call, c)]
<1>1. /\ Sound(g) /\ air \in Airs /\ pl \in [Calls -> Nat] /\ g.call = queued
      /\ queued[c].phase = "waiting" /\ call[c].phase = "idle"
      /\ \A d \in Calls : d # c => queued[d] = call[d]
  BY ArriveQueues
<1>2. Becomes(gone, pl)
  BY DEF Arrive, Settles
<1> HIDE DEF g, pl, queued
<1>3. Sound(q)
  BY <1>1, PumpedSound
<1> HIDE DEF q
<1>4. /\ gone.call = WentIn(q.call, c) /\ gone.tickets = q.tickets
      /\ gone.avoided = q.avoided /\ q.call \in [Calls -> CallState]
  BY <1>3 DEF Sound, GateData
<1> HIDE DEF gone
<1>5. call' = WentIn(q.call, c) /\ tickets' = q.tickets /\ avoided' = q.avoided
  BY <1>2, <1>4 DEF Becomes
<1>6. ASSUME NEW d \in Calls
      PROVE  /\ call'[d].outcome = q.call[d].outcome
             /\ q.call[d].phase = "resolved" => call'[d].phase \in {"resolved", "inside"}
  BY <1>4, <1>5, WentInType
<1>7. \A d \in Waiting(g.call) : call[d].phase \in {"idle", "waiting"}
  BY <1>1 DEF Waiting
<1>8. Waiting(g.call) # {}
  BY <1>1 DEF Waiting
<1> QED
  BY <1>1, <1>5, <1>6, <1>7, <1>8, PumpCarries DEF q

(* The last holder's call ends: the ticket is gone before the pass.         *)
LEMMA GiveBackCarries ==
  ASSUME IInv, NEW c \in Calls, NEW check \in BOOLEAN,
         GiveBack(c, check), call[c].phase \in {"resolved", "inside"}
  PROVE  NoneWorse \/ NoneLeft \/ BrokeOffEarly
<1> DEFINE a == AddressOf[c]
           calls == [call EXCEPT ![c] = Idle]
           gone == [Gate EXCEPT !.call = calls]
<1>1. /\ gone.tickets = tickets /\ gone.avoided = avoided
      /\ tickets \in [Addresses -> Ticket \cup {NoTicket}] /\ a \in Addresses
      /\ place \in [Calls -> Nat] /\ air \in Airs /\ call \in [Calls -> CallState]
  BY ConstantsAssumption DEF Gate, IInv, TypeOK
<1>2. CASE call[c].outcome \notin Holding
  BY <1>1, <1>2 DEF GiveBack, Becomes, NoneWorse, CarrierAvoided
<1>3. CASE call[c].outcome \in Holding /\ tickets[a].holders # 1
  <2> DEFINE new == [tickets[a] EXCEPT !.holders = @ - 1]
             g == [gone EXCEPT !.tickets = [tickets EXCEPT ![a].holders = @ - 1]]
  <2>1. Becomes(g, place)
    BY <1>3 DEF GiveBack
  <2>2. g.tickets = [tickets EXCEPT ![a] = new] /\ g.avoided = avoided
    BY DEF Gate
  <2>3. tickets[a] # NoTicket
    BY <1>3, GivenBack
  <2>4. new.scanner = tickets[a].scanner /\ new.connected = tickets[a].connected
    BY <1>1, <2>3 DEF Ticket
  <2> HIDE DEF g, new
  <2>5. tickets' = [tickets EXCEPT ![a] = new] /\ avoided' = avoided
    BY <2>1, <2>2 DEF Becomes
  <2> QED BY <1>1, <2>3, <2>4, <2>5 DEF NoneWorse, CarrierAvoided
<1>4. CASE call[c].outcome \in Holding /\ tickets[a].holders = 1
  <2> DEFINE g == Released(gone, a, check)
             q == Pumped(g, place)
  <2>1. call' = q.call /\ tickets' = q.tickets /\ avoided' = q.avoided
    BY <1>4 DEF GiveBack, Settles, Becomes
  <2>2. /\ Sound(g) /\ g.call = calls
        /\ g.tickets = [tickets EXCEPT ![a] = NoTicket] /\ g.avoided = avoided
    BY <1>4, GivenBack
  <2>3. calls[c].phase = "idle" /\ \A d \in Calls : d # c => calls[d] = call[d]
    BY <1>1, IdleType
  <2> HIDE DEF g, calls
  <2>4. \A d \in Waiting(g.call) : call[d].phase \in {"idle", "waiting"}
    BY <2>2, <2>3 DEF Waiting
  <2> HIDE DEF q
  <2>5. \/ tickets' = g.tickets /\ avoided' = g.avoided
        \/ NoneLeft \/ BrokeOffEarly
    BY <1>1, <2>1, <2>2, <2>4, PumpCarries DEF q
  <2>6. ASSUME tickets' = g.tickets, avoided' = g.avoided PROVE NoneWorse
    BY <1>1, <2>2, <2>6 DEF NoneWorse, CarrierAvoided
  <2> QED BY <2>5, <2>6
<1> QED
  BY <1>2, <1>3, <1>4

LEMMA TickCarries == IInv /\ OnTick => NoneLeft \/ BrokeOffEarly
<1> SUFFICES ASSUME IInv, OnTick PROVE NoneLeft \/ BrokeOffEarly
  OBVIOUS
<1>1. Sound(Gate) /\ air \in Airs /\ place \in [Calls -> Nat] /\ Gate.call = call
  BY GateSound DEF IInv, Gate
<1>2. /\ call' = Pumped(Gate, place).call /\ tickets' = Pumped(Gate, place).tickets
      /\ avoided' = Pumped(Gate, place).avoided
  BY DEF OnTick, Settles, Becomes
<1>3. Waiting(Gate.call) # {}
  BY <1>1 DEF OnTick, IInv, TickWhileWaiting
<1>4. \A c \in Waiting(Gate.call) : call[c].phase \in {"idle", "waiting"}
  BY <1>1 DEF Waiting
<1> QED
  BY <1>1, <1>2, <1>3, <1>4, PumpCarries

(* Every step avoids no further carrier, leaves none, or breaks off.        *)
LEMMA NextCarries ==
  ASSUME IInv, [Next]_vars
  PROVE  NoneWorse \/ NoneLeft \/ BrokeOffEarly
<1>0. ASSUME tickets' = tickets, avoided' = avoided PROVE NoneWorse
  BY <1>0 DEF NoneWorse, CarrierAvoided
<1>1. ASSUME NEW c \in Calls, Arrive(c) PROVE NoneLeft \/ BrokeOffEarly
  BY <1>1, ArriveCarries
<1>2. ASSUME NEW c \in Calls, CancelWaiting(c) PROVE NoneWorse
  BY <1>0, <1>2 DEF CancelWaiting, Settles, Becomes, Gate
<1>3. ASSUME NEW c \in Calls, CancelResolved(c) \/ Succeed(c) \/ Fail(c)
      PROVE  NoneWorse \/ NoneLeft \/ BrokeOffEarly
  BY <1>3, GiveBackCarries DEF CancelResolved, Succeed, Fail
<1>4. ASSUME NEW a \in Addresses, ReleaseWaiters(a) PROVE NoneWorse
  BY <1>0, <1>4 DEF ReleaseWaiters, Settles, Becomes, Gate
<1>5. ASSUME NEW a \in Addresses, EndReleasing(a)
      PROVE  NoneWorse \/ NoneLeft \/ BrokeOffEarly
  <2> DEFINE g == [Gate EXCEPT !.releasing = [releasing EXCEPT ![a] = @ - 1]]
  <2>1. /\ call' = Pumped(g, place).call /\ tickets' = Pumped(g, place).tickets
        /\ avoided' = Pumped(g, place).avoided
    BY <1>5 DEF EndReleasing, Settles, Becomes
  <2>2. Sound(g) /\ g.call = call /\ g.tickets = tickets /\ g.avoided = avoided
    BY <1>5, EndReleasingSound
  <2>3. air \in Airs /\ place \in [Calls -> Nat]
    BY GateSound DEF IInv
  <2> HIDE DEF g
  <2>4. \A c \in Waiting(g.call) : call[c].phase \in {"idle", "waiting"}
    BY <2>2 DEF Waiting
  <2> QED BY <1>0, <2>1, <2>2, <2>3, <2>4, PumpCarries
<1>6. ASSUME OnTick PROVE NoneLeft \/ BrokeOffEarly
  BY <1>6, TickCarries
<1>7. ASSUME Advance PROVE NoneWorse
  <2>1. /\ tickets \in [Addresses -> Ticket \cup {NoTicket}]
        /\ avoided \in [Radios -> 0..AvoidFor]
    BY DEF IInv, TypeOK
  <2>2. ASSUME NEW a \in Addresses, tickets'[a] # NoTicket, tickets'[a].connected,
               avoided'[tickets'[a].scanner] # 0
        PROVE  CarrierAvoided(a)
    <3>1. /\ tickets[a] \in Ticket /\ tickets[a] # NoTicket
          /\ tickets'[a].scanner = tickets[a].scanner
          /\ tickets'[a].connected = tickets[a].connected
      BY <1>7, <2>1, <2>2 DEF Advance, Ticket
    <3>2. tickets[a].scanner \in Radios
      BY <3>1 DEF Ticket
    <3>3. avoided[tickets[a].scanner] # 0
      BY <1>7, <2>1, <2>2, <3>1, <3>2 DEF Advance, Less
    <3> QED BY <2>2, <3>1, <3>3 DEF CarrierAvoided
  <2> QED BY <2>2 DEF NoneWorse, CarrierAvoided
<1>8. ASSUME NEW c \in Calls, Resume(c) PROVE NoneWorse
  BY <1>0, <1>8 DEF Resume
<1>9. ASSUME NEW a \in Addresses, NoteReleasing(a) PROVE NoneWorse
  BY <1>0, <1>9 DEF NoteReleasing
<1>10. CASE NoteDeferredOff \/ EndDeferredOff \/ AirChange \/ UNCHANGED vars
  BY <1>0, <1>10 DEF NoteDeferredOff, EndDeferredOff, AirChange, vars
<1> QED
  BY <1>1, <1>2, <1>3, <1>4, <1>5, <1>6, <1>7, <1>8, <1>9, <1>10 DEF Next

LEMMA StepCarries ==
  ASSUME IInv, [Next]_vars, NEW a \in Addresses, CarrierAvoided(a)'
  PROVE  \/ CarrierAvoided(a) /\ ~OnTick /\ \A c \in Calls : ~Arrive(c)
         \/ /\ air.broken \in {"checking", "reading", "avoiding"}
            /\ \E c \in Calls : Goes(c, "unjudged")
<1>1. ~NoneLeft
  BY DEF NoneLeft, Carried, CarrierAvoided
<1>2. ASSUME ~BrokeOffEarly
      PROVE  CarrierAvoided(a) /\ ~OnTick /\ \A c \in Calls : ~Arrive(c)
  BY <1>1, <1>2, NextCarries, TickCarries, ArriveCarries DEF NoneWorse
<1> QED
  BY <1>2 DEF BrokeOffEarly

-----------------------------------------------------------------------------
(* The serving order: by class, then by place.                              *)
LEMMA KeyOrder ==
  ASSUME NEW avoiding, NEW pl \in [Calls -> Nat],
         \A x \in Calls : pl[x] <= Cardinality(Calls),
         NEW c \in Calls, NEW d \in Calls
  PROVE  LET class(x) == ServingClass(x, avoiding)
             key(x) == ServingKey(x, avoiding, pl)
         IN  /\ key(c) \in Nat /\ key(d) \in Nat
             /\ class(d) < class(c) => key(d) < key(c)
             /\ class(d) = class(c) /\ pl[d] < pl[c] => key(d) < key(c)
             /\ c \in Polls /\ d \notin Polls => key(d) < key(c)
<1> DEFINE class(x) == ServingClass(x, avoiding)
           M == Cardinality(Calls) + 1
<1>1. M \in Nat \ {0}
  BY ConstantsAssumption, FS_CardinalityType
<1>2. \A x \in Calls : /\ class(x) \in 0..7
                       /\ x \in Polls => class(x) \in 4..7
                       /\ x \notin Polls => class(x) \in 0..3
  BY ConstantsAssumption DEF ServingClass
<1>3. \A x \in Calls : ServingKey(x, avoiding, pl) = class(x) * M + pl[x]
  BY DEF ServingKey
<1>4. pl[c] \in Nat /\ pl[d] \in Nat /\ pl[c] < M /\ pl[d] < M
  BY <1>1, FS_CardinalityType, ConstantsAssumption
<1> DEFINE i == class(d)
           j == class(c)
<1>5. i \in 0..7 /\ j \in 0..7
  BY <1>2
<1> HIDE DEF i, j, M
<1>6. i * M \in Nat /\ j * M \in Nat
  BY <1>1, <1>5
<1>7. i < j => i * M + M <= j * M
  <2>1. SUFFICES ASSUME i < j PROVE i * M + M <= j * M
    OBVIOUS
  <2>2. PICK k \in Nat : j = i + 1 + k
    <3>1. j - i - 1 \in Nat /\ j = i + 1 + (j - i - 1)
      BY <1>5, <2>1
    <3> QED BY <3>1
  <2>3. j * M = i * M + M + k * M /\ k * M \in Nat
    BY <1>1, <1>5, <2>2
  <2> QED BY <1>1, <1>6, <2>3
<1>8. ServingKey(c, avoiding, pl) = j * M + pl[c] /\ ServingKey(d, avoiding, pl) = i * M + pl[d]
  BY <1>3 DEF i, j
<1>9. c \in Polls /\ d \notin Polls => i < j
  BY <1>2 DEF i, j
<1>10. i < j => i * M + pl[d] < j * M + pl[c]
  BY <1>1, <1>4, <1>6, <1>7
<1>11. i = j /\ pl[d] < pl[c] => i * M + pl[d] < j * M + pl[c]
  BY <1>4, <1>6
<1> QED
  BY <1>4, <1>6, <1>8, <1>9, <1>10, <1>11 DEF i, j

-----------------------------------------------------------------------------
(* The room on a radio: tickets that differ in no radio, age or link leave  *)
(* it as it was, and a new ticket takes at most one place, on its radio.    *)
Tickets == [Addresses -> Ticket \cup {NoTicket}]

LEMMA CountTypes ==
  ASSUME NEW tks, NEW r
  PROVE  /\ IsFiniteSet(Ours(tks, r))
         /\ Connecting(tks, r) \in Nat /\ Unlisted(tks, r) \in Nat
<1>1. /\ Ours(tks, r) \in SUBSET Addresses
      /\ {a \in Ours(tks, r) : ~tks[a].connected} \in SUBSET Addresses
      /\ {a \in Ours(tks, r) : ~Lists(r, a)} \in SUBSET Addresses
  BY DEF Ours
<1> QED
  BY <1>1, ConstantsAssumption, FS_Subset, FS_CardinalityType DEF Connecting, Unlisted

LEMMA SameCounts ==
  ASSUME NEW tks, NEW tks2,
         \A a \in Addresses :
            /\ tks2[a] = NoTicket <=> tks[a] = NoTicket
            /\ tks[a] # NoTicket => /\ tks2[a].scanner = tks[a].scanner
                                    /\ tks2[a].age = tks[a].age
                                    /\ tks2[a].connected = tks[a].connected,
         NEW r
  PROVE  Connecting(tks2, r) = Connecting(tks, r) /\ Unlisted(tks2, r) = Unlisted(tks, r)
<1>1. Ours(tks2, r) = Ours(tks, r)
  BY DEF Ours
<1>2. {a \in Ours(tks2, r) : ~tks2[a].connected} = {a \in Ours(tks, r) : ~tks[a].connected}
  BY <1>1 DEF Ours
<1> QED
  BY <1>1, <1>2 DEF Connecting, Unlisted

LEMMA CountsAfterTicket ==
  ASSUME NEW tks, NEW tks2, NEW a \in Addresses, tks[a] = NoTicket,
         NEW r \in Radios, tks2[a] = NewTicket(r), tks2[a] # NoTicket,
         \A b \in Addresses : b # a => tks2[b] = tks[b],
         NEW s
  PROVE  /\ Connecting(tks2, s) \in {Connecting(tks, s), Connecting(tks, s) + 1}
         /\ Unlisted(tks2, s) \in {Unlisted(tks, s), Unlisted(tks, s) + 1}
         /\ s # r => /\ Connecting(tks2, s) = Connecting(tks, s)
                     /\ Unlisted(tks2, s) = Unlisted(tks, s)
<1> DEFINE C == {b \in Ours(tks, s) : ~tks[b].connected}
           C2 == {b \in Ours(tks2, s) : ~tks2[b].connected}
           U == {b \in Ours(tks, s) : ~Lists(s, b)}
           U2 == {b \in Ours(tks2, s) : ~Lists(s, b)}
<1>1. /\ a \notin Ours(tks, s)
      /\ Ours(tks2, s) = IF s = r THEN Ours(tks, s) \cup {a} ELSE Ours(tks, s)
  BY ConstantsAssumption DEF Ours, NewTicket
<1>2. IsFiniteSet(C) /\ IsFiniteSet(U) /\ a \notin C /\ a \notin U
  BY <1>1, CountTypes, FS_Subset
<1>3. C2 = C \/ C2 = C \cup {a}
  BY <1>1 DEF Ours
<1>4. U2 = U \/ U2 = U \cup {a}
  BY <1>1
<1>5. s # r => C2 = C /\ U2 = U
  BY <1>1 DEF Ours
<1>6. Cardinality(C \cup {a}) = Cardinality(C) + 1 /\ Cardinality(U \cup {a}) = Cardinality(U) + 1
  <2> HIDE DEF C, U
  <2> QED BY <1>2, FS_AddElement
<1>7. /\ Connecting(tks, s) = Cardinality(C) /\ Connecting(tks2, s) = Cardinality(C2)
      /\ Unlisted(tks, s) = Cardinality(U) /\ Unlisted(tks2, s) = Cardinality(U2)
  BY DEF Connecting, Unlisted
<1> HIDE DEF C, C2, U, U2
<1> QED
  BY <1>3, <1>4, <1>5, <1>6, <1>7

(* Fewer tickets, more room.                                                *)
LEMMA GoesNowLess ==
  ASSUME air \in Airs, NEW tks, NEW tks2,
         \A r : Connecting(tks, r) <= Connecting(tks2, r) /\ Unlisted(tks, r) <= Unlisted(tks2, r),
         NEW a \in Addresses, NEW avoiding, GoesNow(tks2, a, avoiding)
  PROVE  GoesNow(tks, a, avoiding)
<1>1. ASSUME NEW r \in Radios, HasRoom(tks2, r) PROVE HasRoom(tks, r)
  <2>1. /\ Connecting(tks, r) \in Nat /\ Connecting(tks2, r) \in Nat
        /\ Unlisted(tks, r) \in Nat /\ Unlisted(tks2, r) \in Nat
    BY CountTypes
  <2>2. Connecting(tks, r) <= Connecting(tks2, r) /\ Unlisted(tks, r) <= Unlisted(tks2, r)
    OBVIOUS
  <2>3. air.free[r] \in Nat \cup {NoCount} /\ InFlightPerProxy \in Nat
    BY ConstantsAssumption DEF Air
  <2> QED BY <1>1, <2>1, <2>2, <2>3 DEF HasRoom
<1>2. \A r \in Radios : Busy(tks, r) => Busy(tks2, r)
  BY <1>1 DEF Busy
<1>3. Predicted(a) \in Radios
  BY PredictedType DEF GoesNow
<1>4. Usable(a, avoiding) \in SUBSET Radios
  BY AirPaths DEF Usable
<1> QED
  BY <1>1, <1>2, <1>3, <1>4 DEF GoesNow

-----------------------------------------------------------------------------
(* What a pass on the data g, in the order pl, has kept so far.             *)

(* The calls it let through, and the radio each was sent to.                *)
Sent(g, p, c, outcome) ==
    /\ c \in Waiting(g.call)
    /\ p.call[c].phase = "resolved" /\ p.call[c].outcome = outcome
SentTo(p, c) == p.tickets[AddressOf[c]].scanner
Connects(g, p, c) == Sent(g, p, c, "admitted") \/ Sent(g, p, c, "capped")

(* It touches the waiting calls alone, in serving order.                    *)
KeptSoFar(g, p) ==
    \A c \in Calls :
        /\ c \notin Waiting(g.call) => p.call[c] = g.call[c]
        /\ c \in Waiting(g.call) => p.call[c].phase \in {"waiting", "resolved"}
ServedSoFar(g, pl, p) ==
    \A c \in Waiting(g.call) \ p.left : \A d \in p.left :
        ServingKey(c, g.avoided, pl) <= ServingKey(d, g.avoided, pl)
(* A call sent off has its ticket, on a radio marked as just given one.     *)
MarkedSoFar(g, p) ==
    \A c \in Calls : Connects(g, p, c) =>
        p.tickets[AddressOf[c]] # NoTicket /\ SentTo(p, c) \in p.capped
YieldedSoFar(g, p) ==
    /\ deferredOffs > 0 => p.commandWaiting
    /\ ~p.commandWaiting => Waiting(p.call) \ p.left \subseteq Polls
    /\ \A c \in Polls : Sent(g, p, c, "admitted") =>
          ~p.commandWaiting /\ p.left \subseteq Polls
SpreadSoFar(g, pl, p) ==
    \A c, d \in Calls :
        Sent(g, p, c, "capped") /\
           (\/ Sent(g, p, d, "capped") /\ c # d
            \/ /\ Sent(g, p, d, "admitted")
               /\ ServingKey(d, g.avoided, pl) < ServingKey(c, g.avoided, pl))
            => SentTo(p, c) # SentTo(p, d)
RoomSoFar(g, p) ==
    \A c \in Calls : Sent(g, p, c, "admitted") =>
        LET r == SentTo(p, c)
        IN  /\ r \in Proxies => /\ air.inProgress[r] < InFlightPerProxy
                                /\ Connecting(p.tickets, r) <= InFlightPerProxy
            /\ air.free[r] # NoCount => Unlisted(p.tickets, r) <= air.free[r]
UsedSoFar(g, p) ==
    \A c \in Waiting(p.call) \ (p.left \cup Polls) :
        \/ p.tickets[AddressOf[c]] # NoTicket
        \/ ~GoesNow(p.tickets, AddressOf[c], g.avoided)
SoFar(g, pl, p) ==
    /\ KeptSoFar(g, p) /\ ServedSoFar(g, pl, p) /\ MarkedSoFar(g, p)
    /\ YieldedSoFar(g, p) /\ SpreadSoFar(g, pl, p) /\ RoomSoFar(g, p) /\ UsedSoFar(g, p)

(* A judgement lets through the call it judges and no other.                *)
LEMMA JudgedSends ==
  ASSUME air \in Airs, NEW g \in GateData, NEW p, SoundProgress(p), NEW c \in p.left,
         KeptSoFar(g, p)
  PROVE  LET q == Judged(g, p, c)
             outcome == Decision(g, p, c)
         IN  /\ c \in Waiting(g.call) /\ c \in Calls /\ AddressOf[c] \in Addresses
             /\ \A d \in Calls, o \in Outcomes :
                   Sent(g, q, d, o) <=> Sent(g, p, d, o) \/ (d = c /\ o = outcome)
             /\ \A o \in Outcomes : ~Sent(g, p, c, o)
             /\ \A d \in Calls : d \in Waiting(q.call) <=>
                   d \in Waiting(p.call) /\ (d = c => outcome = "waits")
             /\ KeptSoFar(g, q)
<1> DEFINE q == Judged(g, p, c)
           outcome == Decision(g, p, c)
<1>1. /\ c \in Calls /\ AddressOf[c] \in Addresses
      /\ \A d \in Calls : d # c => q.call[d] = p.call[d]
      /\ outcome = "waits" => q.call = p.call
      /\ outcome # "waits" => q.call[c].phase = "resolved" /\ q.call[c].outcome = outcome
  BY JudgedShape
<1>2. p.call[c].phase = "waiting"
  BY DEF SoundProgress, Waiting
<1>3. c \in Waiting(g.call)
  BY <1>1, <1>2 DEF KeptSoFar, Waiting
<1> HIDE DEF q, outcome
<1>4. ASSUME NEW d \in Calls, NEW o \in Outcomes
      PROVE  Sent(g, q, d, o) <=> Sent(g, p, d, o) \/ (d = c /\ o = outcome)
  <2>1. CASE d # c
    BY <1>1, <2>1 DEF Sent
  <2>2. CASE d = c /\ outcome = "waits"
    BY <1>1, <1>2, <2>2 DEF Sent, Outcomes
  <2>3. CASE d = c /\ outcome # "waits"
    BY <1>1, <1>2, <1>3, <2>3 DEF Sent
  <2> QED BY <2>1, <2>2, <2>3
<1>5. \A o \in Outcomes : ~Sent(g, p, c, o)
  BY <1>2 DEF Sent
<1>6. ASSUME NEW d \in Calls
      PROVE  d \in Waiting(q.call) <=> d \in Waiting(p.call) /\ (d = c => outcome = "waits")
  BY <1>1, <1>2 DEF Waiting
<1>7. KeptSoFar(g, q)
  BY <1>1, <1>3 DEF KeptSoFar
<1> QED
  BY <1>1, <1>3, <1>4, <1>5, <1>6, <1>7 DEF q, outcome

(* One lemma per part: judging the next call keeps it.                      *)
LEMMA ServedKept ==
  ASSUME air \in Airs, NEW g \in GateData, NEW pl \in [Calls -> Nat],
         NEW p, SoundProgress(p), p.left # {}, KeptSoFar(g, p), ServedSoFar(g, pl, p)
  PROVE  ServedSoFar(g, pl, Judged(g, p, NextServed(p.left, g.avoided, pl)))
<1> DEFINE c == NextServed(p.left, g.avoided, pl)
           q == Judged(g, p, c)
           key(x) == ServingKey(x, g.avoided, pl)
<1>1. p.left \in SUBSET Calls
  BY DEF SoundProgress, Progress
<1>2. c \in p.left /\ \A d \in p.left : key(c) <= key(d)
  BY <1>1, NextServedType
<1> HIDE DEF c
<1>3. q.left = p.left \ {c}
  BY <1>2, JudgedShape
<1> HIDE DEF q, key
<1>4. \A x \in Waiting(g.call) \ p.left : \A d \in p.left : key(x) <= key(d)
  BY DEF ServedSoFar, key
<1>5. \A x \in Waiting(g.call) \ q.left : \A d \in q.left : key(x) <= key(d)
  BY <1>2, <1>3, <1>4
<1> QED
  BY <1>5 DEF ServedSoFar, key, q, c

LEMMA MarkedKept ==
  ASSUME air \in Airs, NEW g \in GateData, NEW p, SoundProgress(p), NEW c \in p.left,
         KeptSoFar(g, p), MarkedSoFar(g, p)
  PROVE  MarkedSoFar(g, Judged(g, p, c))
<1> DEFINE q == Judged(g, p, c)
           outcome == Decision(g, p, c)
           a == AddressOf[c]
<1>1. /\ \A b \in Addresses : b # a => q.tickets[b] = p.tickets[b]
      /\ outcome \notin {"admitted", "capped"} =>
            /\ q.capped = p.capped
            /\ p.tickets[a] # NoTicket => /\ q.tickets[a] # NoTicket
                                          /\ q.tickets[a].scanner = p.tickets[a].scanner
      /\ outcome \in {"admitted", "capped"} =>
            /\ p.tickets[a] = NoTicket /\ q.tickets[a] # NoTicket
            /\ q.capped = p.capped \cup {q.tickets[a].scanner}
  BY JudgedShape
<1>2. \A d \in Calls, o \in Outcomes :
         Sent(g, q, d, o) <=> Sent(g, p, d, o) \/ (d = c /\ o = outcome)
  BY JudgedSends
<1> HIDE DEF q, outcome
<1> SUFFICES ASSUME NEW d \in Calls, Connects(g, q, d)
             PROVE  q.tickets[AddressOf[d]] # NoTicket /\ SentTo(q, d) \in q.capped
  BY DEF MarkedSoFar, q
<1>3. AddressOf[d] \in Addresses
  BY ConstantsAssumption
<1>4. CASE Connects(g, p, d)
  <2>1. p.tickets[AddressOf[d]] # NoTicket /\ SentTo(p, d) \in p.capped
    BY <1>4 DEF MarkedSoFar
  <2> QED BY <1>1, <1>3, <2>1 DEF SentTo
<1>5. CASE d = c /\ outcome \in {"admitted", "capped"}
  BY <1>1, <1>5 DEF SentTo
<1> QED
  BY <1>2, <1>4, <1>5 DEF Connects, Outcomes

LEMMA YieldedKept ==
  ASSUME air \in Airs, NEW g \in GateData, NEW pl \in [Calls -> Nat],
         \A x \in Calls : pl[x] <= Cardinality(Calls),
         NEW p, SoundProgress(p), p.left # {}, KeptSoFar(g, p), YieldedSoFar(g, p)
  PROVE  YieldedSoFar(g, Judged(g, p, NextServed(p.left, g.avoided, pl)))
<1> DEFINE c == NextServed(p.left, g.avoided, pl)
           q == Judged(g, p, c)
           outcome == Decision(g, p, c)
<1>1. p.left \in SUBSET Calls /\ p.commandWaiting \in BOOLEAN
  BY DEF SoundProgress, Progress
<1>2. c \in p.left /\ \A d \in p.left : ServingKey(c, g.avoided, pl) <= ServingKey(d, g.avoided, pl)
  BY <1>1, NextServedType
<1> HIDE DEF c
<1>3. c \in Polls => p.left \subseteq Polls
  <2> SUFFICES ASSUME c \in Polls, NEW d \in p.left, d \notin Polls PROVE FALSE
    OBVIOUS
  <2>1. /\ ServingKey(c, g.avoided, pl) \in Nat /\ ServingKey(d, g.avoided, pl) \in Nat
        /\ ServingKey(d, g.avoided, pl) < ServingKey(c, g.avoided, pl)
    BY <1>1, <1>2, KeyOrder
  <2> QED BY <1>2, <2>1
<1>4. /\ q.left = p.left \ {c} /\ c \in Calls
      /\ q.commandWaiting = (p.commandWaiting \/ (outcome = "waits" /\ c \notin Polls))
      /\ outcome = "admitted" => ~(c \in Polls /\ p.commandWaiting)
  BY <1>2, JudgedShape
<1>5. /\ \A d \in Calls, o \in Outcomes :
            Sent(g, q, d, o) <=> Sent(g, p, d, o) \/ (d = c /\ o = outcome)
      /\ \A d \in Calls : d \in Waiting(q.call) <=>
            d \in Waiting(p.call) /\ (d = c => outcome = "waits")
  BY <1>2, JudgedSends
<1> HIDE DEF q, outcome
<1>6. deferredOffs > 0 => q.commandWaiting
  BY <1>4 DEF YieldedSoFar
<1>7. ~q.commandWaiting => Waiting(q.call) \ q.left \subseteq Polls
  BY <1>4, <1>5 DEF YieldedSoFar, Waiting
<1>8. ASSUME NEW d \in Polls, Sent(g, q, d, "admitted")
      PROVE  ~q.commandWaiting /\ q.left \subseteq Polls
  <2>1. d \in Calls /\ "admitted" \in Outcomes
    BY ConstantsAssumption DEF Outcomes
  <2>2. CASE Sent(g, p, d, "admitted")
    BY <1>2, <1>4, <2>2 DEF YieldedSoFar
  <2>3. CASE d = c /\ outcome = "admitted"
    BY <1>3, <1>4, <2>3
  <2> QED BY <1>5, <1>8, <2>1, <2>2, <2>3
<1> QED
  BY <1>6, <1>7, <1>8 DEF YieldedSoFar, q, c

(* The radio of a call sent off before stays, and a new connect's radio is  *)
(* that of the call's own device.                                           *)
LEMMA SentToStays ==
  ASSUME air \in Airs, NEW g \in GateData, NEW p, SoundProgress(p), NEW c \in p.left,
         MarkedSoFar(g, p), NEW d \in Calls, Connects(g, p, d)
  PROVE  LET q == Judged(g, p, c)
         IN  /\ SentTo(q, d) = SentTo(p, d) /\ SentTo(p, d) \in p.capped
             /\ Decision(g, p, c) \in {"admitted", "capped"} => AddressOf[d] # AddressOf[c]
<1> DEFINE q == Judged(g, p, c)
           outcome == Decision(g, p, c)
           a == AddressOf[c]
<1>1. /\ \A b \in Addresses : b # a => q.tickets[b] = p.tickets[b]
      /\ outcome \notin {"admitted", "capped"} =>
            (p.tickets[a] # NoTicket => q.tickets[a].scanner = p.tickets[a].scanner)
      /\ outcome \in {"admitted", "capped"} => p.tickets[a] = NoTicket
  BY JudgedShape
<1>2. p.tickets[AddressOf[d]] # NoTicket /\ SentTo(p, d) \in p.capped
  BY DEF MarkedSoFar
<1>3. AddressOf[d] \in Addresses
  BY ConstantsAssumption
<1> HIDE DEF q, outcome
<1> QED
  BY <1>1, <1>2, <1>3 DEF SentTo, q, outcome

(* How many tickets a judgement adds to what counts on each radio.          *)
CountsJudged(tks, tks2, connects, r) ==
    \A s : /\ Connecting(tks2, s) \in {Connecting(tks, s), Connecting(tks, s) + 1}
           /\ Unlisted(tks2, s) \in {Unlisted(tks, s), Unlisted(tks, s) + 1}
           /\ (~connects \/ s # r) => /\ Connecting(tks2, s) = Connecting(tks, s)
                                      /\ Unlisted(tks2, s) = Unlisted(tks, s)
LEMMA JudgedCounts ==
  ASSUME air \in Airs, NEW g \in GateData, NEW p, SoundProgress(p), NEW c \in p.left
  PROVE  LET q == Judged(g, p, c)
         IN  CountsJudged(p.tickets, q.tickets, Decision(g, p, c) \in {"admitted", "capped"},
                          q.tickets[AddressOf[c]].scanner)
<1> DEFINE q == Judged(g, p, c)
           outcome == Decision(g, p, c)
           a == AddressOf[c]
           r == q.tickets[a].scanner
<1>1. /\ a \in Addresses
      /\ \A b \in Addresses : b # a => q.tickets[b] = p.tickets[b]
      /\ outcome \notin {"admitted", "capped"} =>
            /\ p.tickets[a] = NoTicket => q.tickets[a] = NoTicket
            /\ p.tickets[a] # NoTicket =>
                  /\ q.tickets[a] # NoTicket
                  /\ q.tickets[a].scanner = p.tickets[a].scanner
                  /\ q.tickets[a].age = p.tickets[a].age
                  /\ q.tickets[a].connected = p.tickets[a].connected
      /\ outcome \in {"admitted", "capped"} =>
            /\ p.tickets[a] = NoTicket
            /\ r \in Radios /\ q.tickets[a] = NewTicket(r) /\ q.tickets[a] # NoTicket
  BY JudgedShape
<1> HIDE DEF q, outcome, a
<1>2. CASE outcome \in {"admitted", "capped"}
  <2> HIDE DEF r
  <2> QED BY <1>1, <1>2, CountsAfterTicket DEF CountsJudged, q, outcome, a, r
<1>3. CASE outcome \notin {"admitted", "capped"}
  <2>1. \A b \in Addresses :
            /\ q.tickets[b] = NoTicket <=> p.tickets[b] = NoTicket
            /\ p.tickets[b] # NoTicket => /\ q.tickets[b].scanner = p.tickets[b].scanner
                                          /\ q.tickets[b].age = p.tickets[b].age
                                          /\ q.tickets[b].connected = p.tickets[b].connected
    BY <1>1, <1>3
  <2>2. \A s : /\ Connecting(q.tickets, s) = Connecting(p.tickets, s)
               /\ Unlisted(q.tickets, s) = Unlisted(p.tickets, s)
    BY <2>1, SameCounts
  <2> QED BY <1>3, <2>2 DEF CountsJudged, q, outcome, a
<1> QED
  BY <1>2, <1>3

LEMMA SpreadKept ==
  ASSUME air \in Airs, NEW g \in GateData, NEW pl \in [Calls -> Nat],
         \A x \in Calls : pl[x] <= Cardinality(Calls),
         NEW p, SoundProgress(p), p.left # {}, KeptSoFar(g, p),
         ServedSoFar(g, pl, p), MarkedSoFar(g, p), SpreadSoFar(g, pl, p)
  PROVE  SpreadSoFar(g, pl, Judged(g, p, NextServed(p.left, g.avoided, pl)))
<1> DEFINE c == NextServed(p.left, g.avoided, pl)
           q == Judged(g, p, c)
           outcome == Decision(g, p, c)
           key(x) == ServingKey(x, g.avoided, pl)
<1>1. p.left \in SUBSET Calls /\ p.left \subseteq Waiting(p.call)
  BY DEF SoundProgress, Progress
<1>2. c \in p.left
  BY <1>1, NextServedType
<1> HIDE DEF c
<1>3. /\ c \in Calls
      /\ outcome \in {"admitted", "capped"} =>
            /\ outcome = "capped" => SentTo(q, c) \notin p.capped
  BY <1>2, JudgedShape DEF SentTo
<1>4. \A d \in Calls, o \in Outcomes :
         Sent(g, q, d, o) <=> Sent(g, p, d, o) \/ (d = c /\ o = outcome)
  BY <1>2, JudgedSends
<1>13. \A o \in Outcomes : ~Sent(g, p, c, o)
  BY <1>2, JudgedSends
<1>5. \A d \in Calls : Connects(g, p, d) =>
         SentTo(q, d) = SentTo(p, d) /\ SentTo(p, d) \in p.capped
  BY <1>2, SentToStays
<1>6. \A x \in Calls : key(x) \in Nat
  BY KeyOrder
<1>7. ASSUME NEW x \in Calls, Connects(g, p, x) PROVE key(x) <= key(c)
  <2>1. x \in Waiting(g.call) \ p.left
    BY <1>1, <1>7 DEF Connects, Sent, Waiting
  <2> QED BY <1>2, <2>1 DEF ServedSoFar
<1> HIDE DEF q, outcome, key
<1>8. "capped" \in Outcomes /\ "admitted" \in Outcomes
  BY DEF Outcomes
<1> SUFFICES ASSUME NEW x \in Calls, NEW y \in Calls, Sent(g, q, x, "capped"),
                    \/ Sent(g, q, y, "capped") /\ x # y
                    \/ Sent(g, q, y, "admitted") /\ key(y) < key(x)
             PROVE  SentTo(q, x) # SentTo(q, y)
  BY DEF SpreadSoFar, key, q, c
<1>9. /\ Sent(g, p, x, "capped") \/ (x = c /\ outcome = "capped")
      /\ \/ x # y /\ (Sent(g, p, y, "capped") \/ (y = c /\ outcome = "capped"))
         \/ key(y) < key(x) /\ (Sent(g, p, y, "admitted") \/ (y = c /\ outcome = "admitted"))
  BY <1>4, <1>8
<1>10. CASE /\ Sent(g, p, x, "capped") /\ Connects(g, p, y)
            /\ \/ Sent(g, p, y, "capped") /\ x # y
               \/ Sent(g, p, y, "admitted") /\ key(y) < key(x)
  <2>1. SentTo(p, x) # SentTo(p, y)
    BY <1>10 DEF SpreadSoFar, key
  <2> QED BY <1>5, <1>10, <2>1 DEF Connects
<1>11. CASE x = c /\ outcome = "capped" /\ Connects(g, p, y)
  BY <1>3, <1>5, <1>11
<1>12. CASE Sent(g, p, x, "capped") /\ y = c
  <2>1. Connects(g, p, x)
    BY <1>12 DEF Connects
  <2>2. ~(key(y) < key(x))
    BY <1>3, <1>6, <1>7, <1>12, <2>1
  <2>3. outcome = "capped"
    <3>1. ~Sent(g, p, y, "admitted") /\ ~Sent(g, p, y, "capped")
      BY <1>12, <1>13, <1>8
    <3> QED BY <1>9, <2>2, <3>1
  <2> QED BY <1>3, <1>5, <1>12, <2>1, <2>3
<1>14. ~(x = c /\ y = c)
  BY <1>3, <1>6, <1>9
<1>15. Sent(g, p, y, "capped") \/ Sent(g, p, y, "admitted") => Connects(g, p, y)
  BY DEF Connects
<1>16. CASE Sent(g, p, x, "capped")
  BY <1>9, <1>10, <1>12, <1>15, <1>16
<1>17. CASE x = c /\ outcome = "capped"
  BY <1>9, <1>11, <1>14, <1>15, <1>17
<1> QED
  BY <1>9, <1>16, <1>17

LEMMA RoomKept ==
  ASSUME air \in Airs, NEW g \in GateData, NEW p, SoundProgress(p), NEW c \in p.left,
         KeptSoFar(g, p), MarkedSoFar(g, p), RoomSoFar(g, p)
  PROVE  RoomSoFar(g, Judged(g, p, c))
<1> DEFINE q == Judged(g, p, c)
           outcome == Decision(g, p, c)
           a == AddressOf[c]
           Fits(tks, r) ==
             /\ r \in Proxies => /\ air.inProgress[r] < InFlightPerProxy
                                 /\ Connecting(tks, r) <= InFlightPerProxy
             /\ air.free[r] # NoCount => Unlisted(tks, r) <= air.free[r]
<1>1. CountsJudged(p.tickets, q.tickets, outcome \in {"admitted", "capped"}, q.tickets[a].scanner)
  BY JudgedCounts
<1>2. \A d \in Calls, o \in Outcomes :
         Sent(g, q, d, o) <=> Sent(g, p, d, o) \/ (d = c /\ o = outcome)
  BY JudgedSends
<1>3. \A d \in Calls : Connects(g, p, d) =>
         SentTo(q, d) = SentTo(p, d) /\ SentTo(p, d) \in p.capped
  BY SentToStays
<1>4. /\ c \in Calls
      /\ outcome = "capped" => SentTo(q, c) \notin p.capped
      /\ outcome = "admitted" => /\ SentTo(q, c) = Predicted(a)
                                 /\ GoesNow(p.tickets, a, g.avoided)
                                 /\ SentTo(q, c) \in Radios
  BY JudgedShape DEF SentTo
<1>5. outcome = "admitted" => HasRoom(p.tickets, SentTo(q, c))
  BY <1>4 DEF GoesNow
<1>6. ASSUME outcome = "admitted" PROVE Fits(q.tickets, SentTo(q, c))
  <2> DEFINE r == SentTo(q, c)
  <2>1. HasRoom(p.tickets, r) /\ r \in Radios
    BY <1>4, <1>5, <1>6
  <2>2. /\ Connecting(q.tickets, r) <= Connecting(p.tickets, r) + 1
        /\ Unlisted(q.tickets, r) <= Unlisted(p.tickets, r) + 1
        /\ Connecting(p.tickets, r) \in Nat /\ Unlisted(p.tickets, r) \in Nat
        /\ Connecting(q.tickets, r) \in Nat /\ Unlisted(q.tickets, r) \in Nat
    BY <1>1, CountTypes DEF CountsJudged
  <2>3. air.free[r] \in Nat \cup {NoCount} /\ InFlightPerProxy \in Nat
    BY <2>1, ConstantsAssumption DEF Air
  <2> HIDE DEF r, q
  <2> QED BY <2>1, <2>2, <2>3 DEF HasRoom, r, q
<1>7. ASSUME NEW d \in Calls, Sent(g, p, d, "admitted") PROVE Fits(q.tickets, SentTo(q, d))
  <2>1. Connects(g, p, d)
    BY <1>7 DEF Connects
  <2>2. SentTo(q, d) = SentTo(p, d) /\ SentTo(p, d) \in p.capped
    BY <1>3, <2>1
  <2>3. Fits(p.tickets, SentTo(p, d))
    BY <1>7 DEF RoomSoFar
  <2>4. CASE outcome = "admitted" /\ SentTo(q, d) = SentTo(q, c)
    BY <1>6, <2>4
  <2>5. CASE outcome \in {"admitted", "capped"} /\ SentTo(q, d) # SentTo(q, c)
    BY <1>1, <2>2, <2>3, <2>5 DEF CountsJudged, SentTo
  <2>6. CASE outcome = "capped" /\ SentTo(q, d) = SentTo(q, c)
    BY <1>4, <2>2, <2>6
  <2>7. CASE outcome \notin {"admitted", "capped"}
    BY <1>1, <2>2, <2>3, <2>7 DEF CountsJudged
  <2> QED BY <2>4, <2>5, <2>6, <2>7
<1>8. "admitted" \in Outcomes
  BY DEF Outcomes
<1> HIDE DEF q, outcome
<1>9. \A d \in Calls : Sent(g, q, d, "admitted") => Fits(q.tickets, SentTo(q, d))
  BY <1>2, <1>6, <1>7, <1>8
<1> QED
  BY <1>9 DEF RoomSoFar, q

LEMMA UsedKept ==
  ASSUME air \in Airs, NEW g \in GateData, NEW p, SoundProgress(p), NEW c \in p.left,
         KeptSoFar(g, p), UsedSoFar(g, p)
  PROVE  UsedSoFar(g, Judged(g, p, c))
<1> DEFINE q == Judged(g, p, c)
           outcome == Decision(g, p, c)
           a == AddressOf[c]
<1>1. \A r : Connecting(p.tickets, r) <= Connecting(q.tickets, r)
            /\ Unlisted(p.tickets, r) <= Unlisted(q.tickets, r)
  BY JudgedCounts, CountTypes DEF CountsJudged
<1>2. \A d \in Calls : d \in Waiting(q.call) <=>
         d \in Waiting(p.call) /\ (d = c => outcome = "waits")
  BY JudgedSends
<1>3. /\ q.left = p.left \ {c} /\ c \in Calls
      /\ \A b \in Addresses : b # a => q.tickets[b] = p.tickets[b]
      /\ outcome = "waits" => c \in Polls \/ ~GoesNow(p.tickets, a, g.avoided)
      /\ p.tickets[a] # NoTicket => q.tickets[a] # NoTicket
  BY JudgedShape
<1> HIDE DEF q, outcome
<1> SUFFICES ASSUME NEW d \in Waiting(q.call) \ (q.left \cup Polls),
                    q.tickets[AddressOf[d]] = NoTicket
             PROVE  ~GoesNow(q.tickets, AddressOf[d], g.avoided)
  BY DEF UsedSoFar, q
<1>4. d \in Calls /\ d \in Waiting(p.call) /\ AddressOf[d] \in Addresses
  BY <1>2, ConstantsAssumption DEF Waiting
<1>5. ~GoesNow(p.tickets, AddressOf[d], g.avoided)
  <2>1. CASE d = c
    BY <1>2, <1>3, <1>4, <2>1
  <2>2. CASE d # c
    <3>1. p.tickets[AddressOf[d]] = NoTicket
      BY <1>3, <1>4
    <3> QED BY <1>3, <1>4, <2>2, <3>1 DEF UsedSoFar
  <2> QED BY <2>1, <2>2
<1> QED
  BY <1>1, <1>4, <1>5, GoesNowLess

(* A pass ends with every part kept, and no call left to judge.             *)
LEMMA PassKeeps ==
  ASSUME air \in Airs, NEW g, Sound(g), NEW pl \in [Calls -> Nat],
         \A x \in Calls : pl[x] <= Cardinality(Calls)
  PROVE  \E read, p :
            /\ read \in GateData /\ read.call = g.call
            /\ SoundProgress(p) /\ SoFar(read, pl, p) /\ p.left = {}
            /\ Passed(g, pl).call = p.call /\ Passed(g, pl).tickets = p.tickets
            /\ Passed(g, pl).avoided = read.avoided
<1> DEFINE read == Refreshed(Avoiding(g))
           n == Cardinality(Waiting(read.call))
           last == Judgements(read, pl)[n]
           S == {p \in Progress : SoFar(read, pl, p)}
<1>1. /\ Sound(read) /\ read.call = g.call /\ n \in Nat
      /\ Passed(g, pl).call = last.call /\ Passed(g, pl).tickets = last.tickets
      /\ Passed(g, pl).avoided = read.avoided
  BY PassedShape
<1> HIDE DEF read
<1>2. read \in GateData
  BY <1>1 DEF Sound
<1>3. FirstJudgement(read) \in S
  <2> DEFINE f == FirstJudgement(read)
  <2>1. f \in Progress
    BY <1>1, FirstJudgementSound DEF SoundProgress
  <2>2. /\ f.call = read.call /\ f.left = Waiting(read.call)
        /\ f.commandWaiting = (deferredOffs > 0)
    BY DEF FirstJudgement
  <2> HIDE DEF f
  <2>3. \A c \in Calls, o \in Outcomes : ~Sent(read, f, c, o)
    BY <2>2 DEF Sent, Waiting
  <2>4. KeptSoFar(read, f) /\ ServedSoFar(read, pl, f) /\ UsedSoFar(read, f)
    BY <2>2 DEF KeptSoFar, ServedSoFar, UsedSoFar, Waiting
  <2>5. YieldedSoFar(read, f)
    <3>1. Polls \subseteq Calls /\ "admitted" \in Outcomes
      BY ConstantsAssumption DEF Outcomes
    <3> QED BY <2>2, <2>3, <3>1 DEF YieldedSoFar
  <2>6. MarkedSoFar(read, f) /\ SpreadSoFar(read, pl, f) /\ RoomSoFar(read, f)
    <3>1. "admitted" \in Outcomes /\ "capped" \in Outcomes
      BY DEF Outcomes
    <3> QED BY <2>3, <3>1 DEF MarkedSoFar, SpreadSoFar, RoomSoFar, Connects
  <2> QED BY <2>1, <2>4, <2>5, <2>6 DEF SoFar, f
<1>4. ASSUME NEW p \in S, SoundProgress(p), p.left # {}
      PROVE  Judged(read, p, NextServed(p.left, read.avoided, pl)) \in S
  <2> DEFINE c == NextServed(p.left, read.avoided, pl)
             q == Judged(read, p, c)
  <2>1. c \in p.left
    BY <1>4, NextServedType DEF SoundProgress, Progress
  <2>2. /\ KeptSoFar(read, p) /\ ServedSoFar(read, pl, p) /\ MarkedSoFar(read, p)
        /\ YieldedSoFar(read, p) /\ SpreadSoFar(read, pl, p) /\ RoomSoFar(read, p)
        /\ UsedSoFar(read, p)
    BY <1>4 DEF SoFar
  <2>3. ServedSoFar(read, pl, q) /\ YieldedSoFar(read, q) /\ SpreadSoFar(read, pl, q)
    BY <1>2, <1>4, <2>2, ServedKept, YieldedKept, SpreadKept
  <2> HIDE DEF c
  <2>4. q \in Progress
    BY <1>2, <1>4, <2>1, JudgedSound DEF SoundProgress
  <2>5. KeptSoFar(read, q)
    BY <1>2, <1>4, <2>1, <2>2, JudgedSends
  <2>6. MarkedSoFar(read, q) /\ RoomSoFar(read, q) /\ UsedSoFar(read, q)
    BY <1>2, <1>4, <2>1, <2>2, MarkedKept, RoomKept, UsedKept
  <2> HIDE DEF q
  <2> QED BY <2>3, <2>4, <2>5, <2>6 DEF SoFar, q, c
<1>5. last \in S /\ SoundProgress(last) /\ last.left = {}
  <2> HIDE DEF S, n
  <2> QED BY <1>1, <1>3, <1>4, JudgementsStay DEF n
<1> HIDE DEF last
<1> QED
  BY <1>1, <1>2, <1>5

-----------------------------------------------------------------------------
(* The queue's places: in 0..Cardinality(Calls), and 0 for a call that      *)
(* doesn't wait.                                                            *)
Placed ==
    \A c \in Calls : /\ place[c] <= Cardinality(Calls)
                     /\ call[c].phase # "waiting" => place[c] = 0

LEMMA PlacesBounded ==
  ASSUME NEW pl, NEW calls, NEW c \in Calls
  PROVE  /\ Places(pl, calls)[c] <= Cardinality(Calls)
         /\ calls[c].phase # "waiting" => Places(pl, calls)[c] = 0
<1> DEFINE W == {d \in Waiting(calls) : pl[d] <= pl[c]}
<1>1. W \in SUBSET Calls
  BY DEF Waiting
<1>2. Cardinality(W) <= Cardinality(Calls) /\ Cardinality(Calls) \in Nat
  BY <1>1, ConstantsAssumption, FS_Subset, FS_CardinalityType
<1>3. Places(pl, calls)[c] = IF calls[c].phase # "waiting" THEN 0 ELSE Cardinality(W)
  BY DEF Places
<1> QED
  BY <1>2, <1>3

LEMMA PlacedKept == IInv /\ Placed /\ [Next]_vars => Placed'
<1> SUFFICES ASSUME IInv, Placed, [Next]_vars PROVE Placed'
  OBVIOUS
<1>1. ASSUME NEW g, NEW pl, Becomes(g, pl) PROVE Placed'
  BY <1>1, PlacesBounded DEF Becomes, Placed
<1>2. ASSUME place' = place,
             \A c \in Calls : call'[c].phase = "waiting" <=> call[c].phase = "waiting"
      PROVE  Placed'
  BY <1>2 DEF Placed
<1>3. call \in [Calls -> CallState]
  BY DEF IInv, TypeOK
<1>4. ASSUME NEW c \in Calls, Arrive(c) \/ CancelWaiting(c) PROVE Placed'
  BY <1>1, <1>4 DEF Arrive, CancelWaiting, Settles
<1>5. ASSUME NEW c \in Calls, Resume(c) PROVE Placed'
  <2>1. /\ place' = place /\ call[c].phase = "resolved"
        /\ call' = [call EXCEPT ![c].phase = "inside"]
    BY <1>5 DEF Resume
  <2>2. call'[c].phase = "inside" /\ \A d \in Calls : d # c => call'[d] = call[d]
    BY <1>3, <2>1 DEF CallState
  <2> QED BY <1>2, <2>1, <2>2
<1>6. ASSUME NEW c \in Calls, CancelResolved(c) \/ Succeed(c) \/ Fail(c) PROVE Placed'
  BY <1>1, <1>6 DEF CancelResolved, Succeed, Fail, GiveBack, Settles
<1>7. ASSUME NEW a \in Addresses, ReleaseWaiters(a) PROVE Placed'
  BY <1>1, <1>7 DEF ReleaseWaiters, Settles
<1>8. ASSUME NEW a \in Addresses, EndReleasing(a) PROVE Placed'
  BY <1>1, <1>8 DEF EndReleasing, Settles
<1>9. ASSUME NEW a \in Addresses, NoteReleasing(a) PROVE Placed'
  BY <1>2, <1>9 DEF NoteReleasing
<1>10. CASE OnTick
  BY <1>1, <1>10 DEF OnTick, Settles
<1>11. CASE Advance
  <2>1. place' = place /\ \A c \in Calls : call'[c].phase = call[c].phase
    BY <1>3, <1>11 DEF Advance, CallState
  <2> QED BY <1>2, <2>1
<1>12. CASE NoteDeferredOff \/ EndDeferredOff \/ AirChange \/ UNCHANGED vars
  BY <1>2, <1>12 DEF NoteDeferredOff, EndDeferredOff, AirChange, vars
<1> QED
  BY <1>4, <1>5, <1>6, <1>7, <1>8, <1>9, <1>10, <1>11, <1>12 DEF Next

(* A step that ran a pass on the data g, in the order pl: what it let       *)
(* through, and what it left.                                               *)
PassRan(g, pl) ==
    /\ Sound(g) /\ pl \in [Calls -> Nat] /\ air \in Airs
    /\ \A c \in Calls : /\ pl[c] <= Cardinality(Calls) /\ place[c] <= pl[c]
                        /\ call[c].phase = "waiting" => pl[c] = place[c]
    /\ tickets' = Passed(g, pl).tickets /\ avoided' = Passed(g, pl).avoided
    /\ Waiting(call') = Waiting(Passed(g, pl).call)
    /\ \A c \in Calls, o \in {"admitted", "capped"} : Goes(c, o) =>
          /\ c \in Waiting(g.call)
          /\ Passed(g, pl).call[c].phase = "resolved" /\ Passed(g, pl).call[c].outcome = o

(* A handler that ends with a pump, and lets a call through with a new      *)
(* connect, ran a pass.                                                     *)
LEMMA PumpRuns ==
  ASSUME air \in Airs, NEW g, Sound(g), NEW pl \in [Calls -> Nat],
         \A c \in Calls : /\ pl[c] <= Cardinality(Calls) /\ place[c] <= pl[c]
                          /\ call[c].phase = "waiting" => pl[c] = place[c],
         \A c \in Calls : call[c].phase \in {"idle", "waiting"} =>
            g.call[c].phase \in {"idle", "waiting"},
         tickets' = Pumped(g, pl).tickets, avoided' = Pumped(g, pl).avoided,
         \A c \in Calls : /\ call'[c].outcome = Pumped(g, pl).call[c].outcome
                          /\ call'[c].phase \in {"resolved", "inside"} <=>
                                Pumped(g, pl).call[c].phase \in {"resolved", "inside"}
                          /\ call'[c].phase = "waiting" <=>
                                Pumped(g, pl).call[c].phase = "waiting",
         \/ Waiting(g.call) # {} /\ air.broken = "no"
         \/ \E c \in Calls, o \in {"admitted", "capped"} : Goes(c, o)
  PROVE  PassRan(ReleaseChecked(g), pl)
<1> DEFINE h == ReleaseChecked(g)
           q == Pumped(g, pl)
<1>1. Sound(h) /\ h.call = g.call
  BY AvoidingSound
<1>2. Waiting(g.call) # {} /\ air.broken = "no"
  <2>1. SUFFICES ASSUME NEW c \in Calls, NEW o \in {"admitted", "capped"}, Goes(c, o)
                 PROVE  Waiting(g.call) # {} /\ air.broken = "no"
    OBVIOUS
  <2>2. /\ g.call[c].phase \in {"idle", "waiting"} /\ q.call[c].outcome = o
        /\ q.call[c].phase \in {"resolved", "inside"}
    BY <2>1 DEF Goes
  <2>3. CASE Waiting(g.call) = {}
    <3>1. q = g
      BY <2>3 DEF Pumped
    <3> QED BY <2>2, <3>1
  <2>4. CASE Waiting(g.call) # {} /\ air.broken # "no"
    <3>1. /\ g.call[c].phase # "waiting" => q.call[c] = g.call[c]
          /\ g.call[c].phase = "waiting" => q.call[c].outcome = "unjudged"
      BY <2>4, BrokenOffLetsGo
    <3> HIDE DEF q
    <3> QED BY <2>2, <3>1
  <2> QED BY <2>3, <2>4
<1>3. q = Passed(h, pl)
  BY <1>2 DEF Pumped
<1> HIDE DEF q, h
<1>4. PICK p : \E read : /\ read.call = g.call /\ KeptSoFar(read, p) /\ q.call = p.call
  BY <1>1, <1>3, PassKeeps DEF SoFar
<1>5. \A c \in Calls : /\ c \notin Waiting(g.call) => q.call[c] = g.call[c]
                       /\ c \in Waiting(g.call) => q.call[c].phase \in {"waiting", "resolved"}
  BY <1>4 DEF KeptSoFar
<1>6. Waiting(call') = Waiting(q.call)
  BY DEF Waiting, q
<1>7. ASSUME NEW c \in Calls, NEW o \in {"admitted", "capped"}, Goes(c, o)
      PROVE  /\ c \in Waiting(g.call)
             /\ q.call[c].phase = "resolved" /\ q.call[c].outcome = o
  <2>1. /\ g.call[c].phase \in {"idle", "waiting"} /\ q.call[c].outcome = o
        /\ q.call[c].phase \in {"resolved", "inside"}
    BY <1>7 DEF Goes, q
  <2> QED BY <1>5, <2>1
<1> QED
  BY <1>1, <1>3, <1>6, <1>7 DEF PassRan, q, h

(* A step that lets a call through with a new connect ran a pass.           *)
LEMMA GoesInPass ==
  ASSUME IInv, Placed, [Next]_vars,
         NEW x \in Calls, NEW o \in {"admitted", "capped"}, Goes(x, o)
  PROVE  \E g, pl : PassRan(g, pl)
<1>1. /\ Sound(Gate) /\ air \in Airs /\ place \in [Calls -> Nat]
      /\ Gate.call = call /\ call \in [Calls -> CallState]
  BY GateSound DEF IInv, Gate, TypeOK
<1>2. \A c \in Calls : place[c] <= Cardinality(Calls) /\ place[c] \in Nat
  BY <1>1 DEF Placed
<1>3. ASSUME NEW g, Sound(g), Becomes(Pumped(g, place), place),
             \A c \in Calls : call[c].phase \in {"idle", "waiting"} =>
                g.call[c].phase \in {"idle", "waiting"}
      PROVE  \E h, pl : PassRan(h, pl)
  <2>1. /\ call' = Pumped(g, place).call /\ tickets' = Pumped(g, place).tickets
        /\ avoided' = Pumped(g, place).avoided
    BY <1>3 DEF Becomes
  <2>2. PassRan(ReleaseChecked(g), place)
    BY <1>1, <1>2, <1>3, <2>1, PumpRuns
  <2> QED BY <2>2
<1>4. ASSUME NEW c \in Calls, Arrive(c) PROVE \E g, pl : PassRan(g, pl)
  <2> DEFINE pl == [place EXCEPT ![c] = Cardinality(Waiting(call)) + 1]
             queued == [call EXCEPT ![c] = [Idle EXCEPT !.phase = "waiting"]]
             g == [Gate EXCEPT !.call = queued]
             q == Pumped(g, pl)
             gone == [q EXCEPT !.call = WentIn(q.call, c)]
  <2>1. /\ Sound(g) /\ pl \in [Calls -> Nat] /\ g.call = queued
        /\ queued[c].phase = "waiting" /\ call[c].phase = "idle"
        /\ \A d \in Calls : d # c => queued[d] = call[d]
    BY <1>4, ArriveQueues
  <2>2. Becomes(gone, pl)
    BY <1>4 DEF Arrive, Settles
  <2>3. \A d \in Calls : /\ pl[d] <= Cardinality(Calls) /\ place[d] <= pl[d]
                         /\ call[d].phase = "waiting" => pl[d] = place[d]
    <3>1. Waiting(call) \in SUBSET Calls /\ c \notin Waiting(call)
      BY <2>1 DEF Waiting
    <3>2. /\ IsFiniteSet(Waiting(call)) /\ Cardinality(Waiting(call)) \in Nat
          /\ Cardinality(Waiting(call) \cup {c}) = Cardinality(Waiting(call)) + 1
          /\ Cardinality(Waiting(call) \cup {c}) <= Cardinality(Calls)
      BY <3>1, ConstantsAssumption, FS_Subset, FS_CardinalityType, FS_AddElement
    <3>3. place[c] = 0
      BY <2>1 DEF Placed
    <3>4. /\ pl[c] = Cardinality(Waiting(call)) + 1
          /\ \A d \in Calls : d # c => pl[d] = place[d]
      BY <1>1
    <3> HIDE DEF pl
    <3> QED BY <1>2, <2>1, <3>2, <3>3, <3>4
  <2>4. \A d \in Calls : call[d].phase \in {"idle", "waiting"} =>
                            g.call[d].phase \in {"idle", "waiting"}
    <3> HIDE DEF g, queued
    <3> QED BY <2>1
  <2> HIDE DEF g, pl, queued
  <2>5. Sound(q)
    BY <1>1, <2>1, PumpedSound
  <2> HIDE DEF q
  <2>6. gone.call = WentIn(q.call, c) /\ gone.tickets = q.tickets /\ gone.avoided = q.avoided
        /\ q.call \in [Calls -> CallState]
    BY <2>5 DEF Sound, GateData
  <2> HIDE DEF gone
  <2>7. call' = WentIn(q.call, c) /\ tickets' = q.tickets /\ avoided' = q.avoided
    BY <2>2, <2>6 DEF Becomes
  <2>8. ASSUME NEW d \in Calls
        PROVE  /\ call'[d].outcome = q.call[d].outcome
               /\ call'[d].phase \in {"resolved", "inside"} <=>
                     q.call[d].phase \in {"resolved", "inside"}
               /\ call'[d].phase = "waiting" <=> q.call[d].phase = "waiting"
    <3>1. WentIn(q.call, c)[c].phase = "waiting" <=> q.call[c].phase = "waiting"
      BY <2>6 DEF WentIn, CallState
    <3> QED BY <2>6, <2>7, <3>1, WentInType
  <2>9. PassRan(ReleaseChecked(g), pl)
    BY <1>1, <2>1, <2>3, <2>4, <2>7, <2>8, PumpRuns DEF q
  <2> QED BY <2>9
<1>5. ASSUME NEW c \in Calls, NEW check \in BOOLEAN, GiveBack(c, check),
             call[c].phase \in {"resolved", "inside"}
      PROVE  \E g, pl : PassRan(g, pl)
  <2> DEFINE calls == [call EXCEPT ![c] = Idle]
             gone == [Gate EXCEPT !.call = calls]
             a == AddressOf[c]
  <2>1. calls[c].phase = "idle" /\ \A d \in Calls : d # c => calls[d] = call[d]
    BY <1>1, IdleType
  <2>2. CASE call' = calls
    <3> HIDE DEF calls
    <3> QED BY <1>5, <2>1, <2>2 DEF Goes
  <2>3. CASE call[c].outcome \notin Holding
    <3>1. call' = gone.call /\ gone.call = calls
      BY <1>5, <2>3 DEF GiveBack, Becomes, Gate
    <3> QED BY <2>2, <3>1
  <2>4. CASE call[c].outcome \in Holding /\ tickets[a].holders # 1
    <3>1. Becomes([gone EXCEPT !.tickets = [tickets EXCEPT ![a].holders = @ - 1]], place)
      BY <1>5, <2>4 DEF GiveBack
    <3>2. [gone EXCEPT !.tickets = [tickets EXCEPT ![a].holders = @ - 1]].call = calls
      BY DEF Gate
    <3>3. call' = calls
      BY <3>1, <3>2 DEF Becomes
    <3> QED BY <2>2, <3>3
  <2>5. CASE call[c].outcome \in Holding /\ tickets[a].holders = 1
    <3> DEFINE g == Released(gone, a, check)
    <3>1. Settles(Pumped(g, place), place)
      BY <1>5, <2>5 DEF GiveBack
    <3>2. Sound(g) /\ g.call = calls
      BY <1>5, <2>5, GivenBack
    <3>3. \A d \in Calls : call[d].phase \in {"idle", "waiting"} =>
                              calls[d].phase \in {"idle", "waiting"}
      <4> HIDE DEF calls
      <4> QED BY <2>1
    <3> HIDE DEF g, calls
    <3> QED BY <1>3, <3>1, <3>2, <3>3 DEF Settles
  <2> QED BY <2>3, <2>4, <2>5
<1>6. ASSUME NEW a \in Addresses, EndReleasing(a) PROVE \E g, pl : PassRan(g, pl)
  <2> DEFINE g == [Gate EXCEPT !.releasing = [releasing EXCEPT ![a] = @ - 1]]
  <2>1. Becomes(Pumped(g, place), place)
    BY <1>6 DEF EndReleasing, Settles
  <2>2. Sound(g) /\ g.call = call
    BY <1>6, EndReleasingSound
  <2> HIDE DEF g
  <2> QED BY <1>3, <2>1, <2>2
<1>7. ASSUME OnTick PROVE \E g, pl : PassRan(g, pl)
  BY <1>1, <1>3, <1>7 DEF OnTick, Settles
<1>8. ASSUME NEW c \in Calls, Resume(c) PROVE FALSE
  <2>1. call' = [call EXCEPT ![c].phase = "inside"] /\ call[c].phase = "resolved"
    BY <1>8 DEF Resume
  <2>2. \A d \in Calls : d # c => call'[d] = call[d]
    BY <1>1, <2>1
  <2> QED BY <2>1, <2>2 DEF Goes
<1>9. ASSUME NEW c \in Calls, CancelWaiting(c) PROVE FALSE
  <2>1. call' = [call EXCEPT ![c] = Idle]
    BY <1>9 DEF CancelWaiting, Settles, Becomes, Gate
  <2>2. call'[c].phase = "idle" /\ \A d \in Calls : d # c => call'[d] = call[d]
    BY <1>1, <2>1, IdleType
  <2> QED BY <2>2 DEF Goes
<1>10. ASSUME NEW a \in Addresses, ReleaseWaiters(a) PROVE FALSE
  <2>1. call' = [c \in Calls |-> IF call[c].phase = "waiting" /\ AddressOf[c] = a
                                 THEN Resolved(call, c, "released")[c] ELSE call[c]]
    BY <1>10 DEF ReleaseWaiters, Settles, Becomes, Gate
  <2>2. call'[x] = call[x] \/ call'[x].outcome = "released"
    BY <1>1, <2>1 DEF Resolved
  <2> QED BY <2>2 DEF Goes
<1>11. ASSUME Advance PROVE FALSE
  <2>1. call'[x].phase = call[x].phase
    BY <1>1, <1>11 DEF Advance, CallState
  <2> QED BY <2>1 DEF Goes
<1>12. ASSUME call' = call PROVE FALSE
  BY <1>12 DEF Goes
<1>13. ASSUME NEW a \in Addresses, NoteReleasing(a) PROVE FALSE
  BY <1>12, <1>13 DEF NoteReleasing
<1>14. CASE NoteDeferredOff \/ EndDeferredOff \/ AirChange \/ UNCHANGED vars
  BY <1>12, <1>14 DEF NoteDeferredOff, EndDeferredOff, AirChange, vars
<1>15. ASSUME NEW c \in Calls, CancelResolved(c) \/ Succeed(c) \/ Fail(c)
       PROVE  \E g, pl : PassRan(g, pl)
  BY <1>5, <1>15 DEF CancelResolved, Succeed, Fail
<1> QED
  BY <1>4, <1>6, <1>7, <1>8, <1>9, <1>10, <1>11, <1>13, <1>14, <1>15 DEF Next

LEMMA PassedOnce ==
  ASSUME NEW g, NEW pl, PassRan(g, pl)
  PROVE  \E read, p :
            /\ read \in GateData /\ SoFar(read, pl, p)
            /\ tickets' = p.tickets /\ avoided' = read.avoided
            /\ Waiting(call') = Waiting(p.call) /\ p.left = {}
            /\ \A c \in Calls, o \in {"admitted", "capped"} :
                  Goes(c, o) => Sent(read, p, c, o)
<1>1. /\ Sound(g) /\ pl \in [Calls -> Nat] /\ air \in Airs
      /\ \A c \in Calls : pl[c] <= Cardinality(Calls)
  BY DEF PassRan
<1>2. PICK read, p :
         /\ read \in GateData /\ read.call = g.call
         /\ SoFar(read, pl, p) /\ p.left = {}
         /\ Passed(g, pl).call = p.call /\ Passed(g, pl).tickets = p.tickets
         /\ Passed(g, pl).avoided = read.avoided
  BY <1>1, PassKeeps
<1>3. \A c \in Calls, o \in {"admitted", "capped"} : Goes(c, o) => Sent(read, p, c, o)
  BY <1>2 DEF PassRan, Sent
<1> QED
  BY <1>2, <1>3 DEF PassRan

LEMMA StepYields ==
  ASSUME IInv, Placed, [Next]_vars, NEW c \in Polls, Goes(c, "admitted")
  PROVE  deferredOffs = 0 /\ Waiting(call') \subseteq Polls
<1>1. c \in Calls /\ deferredOffs \in Nat
  BY ConstantsAssumption DEF IInv, TypeOK
<1>2. PICK g, pl : PassRan(g, pl)
  BY <1>1, GoesInPass
<1>3. PICK read, p : /\ SoFar(read, pl, p) /\ Sent(read, p, c, "admitted")
                     /\ Waiting(call') = Waiting(p.call) /\ p.left = {}
  BY <1>1, <1>2, PassedOnce
<1> QED
  BY <1>1, <1>3 DEF SoFar, YieldedSoFar

LEMMA StepSpreads ==
  ASSUME IInv, Placed, [Next]_vars, NEW c \in Calls, NEW d \in Calls, Goes(c, "capped"),
         \/ Goes(d, "capped") /\ c # d
         \/ Goes(d, "admitted") /\ ServedBefore(d, c)
  PROVE  RadioOf(c) # RadioOf(d)
<1>1. PICK g, pl : PassRan(g, pl)
  BY GoesInPass
<1>2. PICK read, p : /\ SoFar(read, pl, p) /\ tickets' = p.tickets /\ avoided' = read.avoided
                     /\ \A x \in Calls, o \in {"admitted", "capped"} :
                           Goes(x, o) => Sent(read, p, x, o)
  BY <1>1, PassedOnce
<1>3. /\ pl \in [Calls -> Nat]
      /\ \A x \in Calls : /\ pl[x] <= Cardinality(Calls) /\ place[x] <= pl[x]
                          /\ call[x].phase = "waiting" => pl[x] = place[x]
  BY <1>1 DEF PassRan
<1>4. ServedBefore(d, c) =>
         ServingKey(d, read.avoided, pl) < ServingKey(c, read.avoided, pl)
  <2> DEFINE class(x) == ServingClass(x, read.avoided)
             key(x) == ServingKey(x, read.avoided, pl)
  <2>1. SUFFICES ASSUME ServedBefore(d, c) PROVE key(d) < key(c)
    OBVIOUS
  <2>2. \/ class(d) < class(c)
        \/ class(d) = class(c) /\ call[d].phase = "waiting" /\ place[d] < place[c]
    BY <1>2, <2>1 DEF ServedBefore
  <2>3. place[c] \in Nat /\ place[d] \in Nat /\ pl[c] \in Nat /\ pl[d] \in Nat
    BY <1>3 DEF IInv, TypeOK
  <2>4. class(d) < class(c) \/ (class(d) = class(c) /\ pl[d] < pl[c])
    <3> HIDE DEF class
    <3> QED BY <1>3, <2>2, <2>3
  <2> QED BY <1>3, <2>4, KeyOrder
<1>5. Sent(read, p, c, "capped") /\ (\/ Sent(read, p, d, "capped") /\ c # d
                                     \/ Sent(read, p, d, "admitted") /\ ServedBefore(d, c))
  BY <1>2
<1>6. SentTo(p, c) # SentTo(p, d)
  BY <1>2, <1>4, <1>5 DEF SoFar, SpreadSoFar
<1> QED
  BY <1>2, <1>6 DEF SentTo, RadioOf

LEMMA StepFits ==
  ASSUME IInv, Placed, [Next]_vars, NEW c \in Calls, Goes(c, "admitted")
  PROVE  LET r == RadioOf(c)
         IN  /\ r \in Proxies =>
                   /\ air.inProgress[r] < InFlightPerProxy
                   /\ Connecting(tickets', r) <= InFlightPerProxy
             /\ air.free[r] # NoCount => Unlisted(tickets', r) <= air.free[r]
<1>1. PICK g, pl : PassRan(g, pl)
  BY GoesInPass
<1>2. PICK read, p : /\ SoFar(read, pl, p) /\ tickets' = p.tickets
                     /\ Sent(read, p, c, "admitted")
  BY <1>1, PassedOnce
<1> QED
  BY <1>2 DEF SoFar, RoomSoFar, SentTo, RadioOf

LEMMA TickUses ==
  ASSUME IInv, Placed, OnTick, air.broken = "no", NEW c \in Waiting(call') \ Polls
  PROVE  \/ tickets'[AddressOf[c]] # NoTicket
         \/ ~GoesNow(tickets', AddressOf[c], avoided')
<1>1. /\ Sound(Gate) /\ air \in Airs /\ place \in [Calls -> Nat] /\ Gate.call = call
  BY GateSound DEF IInv, Gate
<1>2. /\ call' = Pumped(Gate, place).call /\ tickets' = Pumped(Gate, place).tickets
      /\ avoided' = Pumped(Gate, place).avoided
  BY DEF OnTick, Settles, Becomes
<1>3. Waiting(Gate.call) # {}
  BY <1>1 DEF OnTick, IInv, TickWhileWaiting
<1>4. \A x \in Calls : place[x] <= Cardinality(Calls) /\ place[x] <= place[x]
  BY <1>1 DEF Placed
<1>5. PassRan(ReleaseChecked(Gate), place)
  BY <1>1, <1>2, <1>3, <1>4, PumpRuns
<1>6. PICK read, p : /\ SoFar(read, place, p) /\ p.left = {}
                     /\ tickets' = p.tickets /\ avoided' = read.avoided
                     /\ Waiting(call') = Waiting(p.call)
  BY <1>5, PassedOnce
<1> QED
  BY <1>6 DEF SoFar, UsedSoFar

LEMMA PlacedInv == Spec => [](IInv /\ Placed)
<1>1. Init => Placed
  <2> SUFFICES ASSUME Init PROVE Placed
    OBVIOUS
  <2>1. Cardinality(Calls) \in Nat
    BY ConstantsAssumption, FS_CardinalityType
  <2> QED BY <2>1 DEF Init, Placed
<1> QED
  BY <1>1, InitSound, NextSound, PlacedKept, PTL DEF Spec

-----------------------------------------------------------------------------
(* The gate's data keep their types.                                        *)
THEOREM TypeCorrect == Spec => []TypeOK
<1>1. IInv => TypeOK
  BY DEF IInv
<1> QED
  BY <1>1, InitSound, NextSound, PTL DEF Spec

(* For any calls, devices, radios and readings: a device has a ticket       *)
(* exactly while some call holds it, and the ticket counts those calls.     *)
THEOREM TicketsAccounted == Spec => []TicketAccounting
<1>1. IInv => TicketAccounting
  BY DEF IInv
<1> QED
  BY <1>1, InitSound, NextSound, PTL DEF Spec

(* The tick is armed exactly while a call waits: no wake-up is lost.        *)
THEOREM TickArmed == Spec => []TickWhileWaiting
<1>1. IInv => TickWhileWaiting
  BY DEF IInv
<1> QED
  BY <1>1, InitSound, NextSound, PTL DEF Spec

(* A tick's or an arriving call's pass leaves no radio avoided that one of  *)
(* our connects is up on, and no step avoids one, but for a pass that broke *)
(* off before it found the tickets.                                         *)
THEOREM CarriersServe == Spec => CarriersNotAvoided
<1>1. IInv /\ [Next]_vars =>
         [\A a \in Addresses : CarrierAvoided(a)' =>
             \/ CarrierAvoided(a) /\ ~OnTick /\ \A c \in Calls : ~Arrive(c)
             \/ /\ air.broken \in {"checking", "reading", "avoiding"}
                /\ \E c \in Calls : Goes(c, "unjudged")]_vars
  BY StepCarries
<1> QED
  BY <1>1, InitSound, NextSound, PTL DEF Spec, CarriersNotAvoided

(* A poll is admitted to a new connect only when no command waits, the      *)
(* turn-offs waiting in the deferral included.                              *)
THEOREM PollsGiveWay == Spec => PollsYield
<1>1. IInv /\ Placed /\ [Next]_vars =>
         [\A c \in Polls : Goes(c, "admitted") =>
             deferredOffs = 0 /\ Waiting(call') \subseteq Polls]_vars
  BY StepYields
<1> QED
  BY <1>1, PlacedInv, PTL DEF Spec, PollsYield

(* The calls that waited out the cap spread over the radios.                *)
THEOREM CapsGoApart == Spec => CapsSpread
<1>1. IInv /\ Placed /\ [Next]_vars =>
         [\A c, d \in Calls :
             Goes(c, "capped") /\ (\/ Goes(d, "capped") /\ c # d
                                   \/ Goes(d, "admitted") /\ ServedBefore(d, c))
                 => RadioOf(c) # RadioOf(d)]_vars
  BY StepSpreads
<1> QED
  BY <1>1, PlacedInv, PTL DEF Spec, CapsSpread

(* However many calls one pass admits, no radio is overbooked by one.       *)
THEOREM NoneOverbooked == Spec => AdmitsWithinRoom
<1>1. IInv /\ Placed /\ [Next]_vars =>
         [\A c \in Calls : Goes(c, "admitted") =>
             LET r == RadioOf(c)
             IN  /\ r \in Proxies =>
                       /\ air.inProgress[r] < InFlightPerProxy
                       /\ Connecting(tickets', r) <= InFlightPerProxy
                 /\ air.free[r] # NoCount => Unlisted(tickets', r) <= air.free[r]]_vars
  BY StepFits
<1> QED
  BY <1>1, PlacedInv, PTL DEF Spec, AdmitsWithinRoom

(* A tick leaves no command waiting that could go.                          *)
THEOREM RoomIsUsed == Spec => NoRoomLeftUnused
<1>1. IInv /\ Placed /\ [Next]_vars =>
         [OnTick /\ air.broken = "no" =>
             \A c \in Waiting(call') \ Polls :
                \/ tickets'[AddressOf[c]] # NoTicket
                \/ ~GoesNow(tickets', AddressOf[c], avoided')]_vars
  BY TickUses
<1> QED
  BY <1>1, PlacedInv, PTL DEF Spec, NoRoomLeftUnused

=============================================================================
