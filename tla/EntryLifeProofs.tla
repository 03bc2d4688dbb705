--------------------------- MODULE EntryLifeProofs ---------------------------
(***************************************************************************)
(* The config entry (EntryLife), proved for any flows, pacts, profiles and  *)
(* counts: no entry is created that its setup would refuse, an entry that   *)
(* is set up is built as it is stored unless a reload is due, and no        *)
(* segment light the device has is removed unless a right read went by      *)
(* unseen.                                                                  *)
(*                                                                          *)
(* The first rests on what each step of a flow has checked of its pact      *)
(* (FlowsSound), the others on what a setup built (BuiltSound) and on one   *)
(* of any two reads a push saw, with no right one unseen between, being the *)
(* strip's own count (ReadsSound).                                          *)
(***************************************************************************)
EXTENDS EntryLife, TLAPS

Steps == {"idle", "form", "confirm", "modelled", "reading", "key", "reauth"}
Flow == [step : Steps, pact : Headers, modelled : BOOLEAN]
Entry ==
    [state : {"new", "retry", "error", "loaded"}, secret : BOOLEAN, modelled : BOOLEAN,
     header : Headers, count : 0..Unknown]
SetupBuilt ==
    [built : Headers, bare : BOOLEAN, lights : Counts, count : 0..Unknown,
     fresh : BOOLEAN, last : 0..Unknown]
Strip ==
    [has : Counts, bad : BOOLEAN, read : Counts, before : Counts, hid : BOOLEAN,
     stored : 0..Unknown]

Types ==
    /\ record \in Headers \cup {"absent"}
    /\ flows \in [Flows -> Flow]
    /\ entry # None => entry \in Entry
    /\ loaded # None => loaded \in SetupBuilt
    /\ reload \in BOOLEAN
    /\ lights \subseteq Nat
    /\ strip \in Strip

(* A flow that adds the device does so for an entry there isn't yet, and    *)
(* one that got past the advert offered a pact it could be created at.      *)
FlowsSound ==
    \A f \in Flows :
       /\ Adding(f) => entry = None
       /\ flows[f].step = "reauth" => entry # None
       /\ flows[f].step \notin {"idle", "reauth"} =>
             Supported(flows[f].pact, flows[f].modelled)

(* What is set up belongs to an entry, at the header the record shows; its  *)
(* lights are in the registry, and are the ones stored unless a reload is   *)
(* due.                                                                     *)
BuiltSound ==
    loaded # None =>
       /\ entry # None
       /\ record \in Pacts => entry.header = record
       /\ 0..(loaded.lights - 1) \subseteq lights
       /\ ~reload /\ entry.count # Unknown /\ loaded.built \in Segmented =>
             loaded.lights = entry.count /\ lights = 0..(entry.count - 1)

(* A read is the strip's count, or it is bad and the one before was the     *)
(* strip's, seen or not; a count stored is at least what the strip had at   *)
(* one of the two reads behind it, if no right one between went by unseen.  *)
ReadsSound ==
    /\ loaded # None =>
          IF loaded.fresh
          THEN /\ loaded.count # Unknown
               /\ loaded.count = strip.read \/ strip.bad
               /\ loaded.last # Unknown =>
                     loaded.last = strip.before \/ loaded.count = strip.read \/ strip.hid
          ELSE loaded.last # Unknown =>
                  loaded.last = strip.before \/ strip.bad \/ strip.hid
    /\ entry # None /\ entry.count # Unknown /\ strip.stored # Unknown =>
          strip.stored <= entry.count

LifeInv == Types /\ FlowsSound /\ BuiltSound /\ ReadsSound

-----------------------------------------------------------------------------
(* Data.                                                                    *)

LEMMA NotNone ==
    /\ \A e \in Entry : e # None
    /\ \A b \in SetupBuilt : b # None
  BY DEF Entry, SetupBuilt, None

LEMMA HeadersAre ==
    /\ NoPact \in Headers /\ Pacts \subseteq Headers /\ "absent" \notin Headers
    /\ \A p \in Headers : p \in Pacts <=> p # NoPact
    /\ MaxCount \in Nat /\ Unknown \in Nat /\ Unknown \notin Counts
    /\ 0 \in Counts /\ MaxCount \in Counts
    /\ Counts \subseteq 0..Unknown /\ Unknown \in 0..Unknown
    /\ \A n \in 0..Unknown : n # Unknown => n \in Counts
  BY EntryAssumption DEF Headers, Counts, Unknown

-----------------------------------------------------------------------------
(* The flows' steps.                                                        *)

(* The pact of a flow's step, as far as FlowsSound wants it.                *)
FlowSound(x) ==
    /\ x.step \in {"confirm", "modelled", "reading", "key"} => entry = None
    /\ x.step = "reauth" => entry # None
    /\ x.step \notin {"idle", "reauth"} => Supported(x.pact, x.modelled)

LEMMA FlowMoves ==
    ASSUME LifeInv, NEW f \in Flows, NEW x \in Flow, FlowSound(x),
           flows' = [flows EXCEPT ![f] = x],
           UNCHANGED <<record, entry, loaded, reload, lights, strip>>
    PROVE  LifeInv'
<1>1. Types'
  BY DEF LifeInv, Types
<1>2. FlowsSound'
  BY DEF LifeInv, Types, FlowsSound, FlowSound, Adding
<1>3. BuiltSound' /\ ReadsSound'
  BY DEF LifeInv, BuiltSound, ReadsSound
<1>. QED
  BY <1>1, <1>2, <1>3 DEF LifeInv

LEMMA IdleIs == Idle \in Flow /\ FlowSound(Idle)
  BY HeadersAre DEF Idle, Flow, Steps, FlowSound

LEMMA OfferedIs ==
    ASSUME NEW p \in Headers, Supported(p, TRUE)
    PROVE  Offered(p) \in Flow /\ Supported(p, Offered(p).modelled)
  BY DEF Offered, Flow, Steps

LEMMA Creating ==
    ASSUME LifeInv, NEW f \in Flows, NEW pact \in Headers, NEW secret \in BOOLEAN,
           entry = None, Create(f, pact, secret)
    PROVE  LifeInv'
<1>1. entry' \in Entry /\ entry' # None /\ entry'.count = Unknown
  BY HeadersAre, NotNone DEF Create, LifeInv, Types, Flow, Entry
<1>2. flows' \in [Flows -> Flow]
  BY IdleIs DEF Create, LifeInv, Types
<1>3. Types'
  BY <1>1, <1>2 DEF Create, LifeInv, Types
<1>4. \A g \in Flows : ~Adding(g)' /\ (flows'[g] = flows[g] \/ flows'[g] = Idle)
  BY DEF Create, Adding, Idle
<1>5. FlowsSound'
  BY <1>1, <1>4 DEF LifeInv, FlowsSound, Idle
<1>6. loaded = None /\ UNCHANGED loaded
  BY DEF LifeInv, BuiltSound, Create
<1>7. BuiltSound' /\ ReadsSound'
  BY <1>1, <1>6 DEF BuiltSound, ReadsSound
<1>. QED
  BY <1>3, <1>5, <1>7 DEF LifeInv

(* _finish creates at a pact the flow's model is served at, or goes on to   *)
(* the key with it.                                                         *)
LEMMA Finishing ==
    ASSUME LifeInv, NEW f \in Flows, flows[f].step \notin {"idle", "reauth"}, entry = None,
           Finish(f)
    PROVE  LifeInv'
<1>. DEFINE pact == IF record \in Pacts THEN record ELSE flows[f].pact
            refused == pact # flows[f].pact /\ ~Supported(pact, flows[f].modelled)
            asked == [flows[f] EXCEPT !.step = "reading", !.pact = pact]
<1>1. flows[f] \in Flow /\ pact \in Headers
  BY HeadersAre DEF LifeInv, Types, Flow
<1>2. CASE ~refused /\ pact \notin Gated
  BY <1>1, <1>2, Creating DEF Finish
<1>3. CASE refused
  <2>1. /\ flows' = [flows EXCEPT ![f] = Idle]
        /\ UNCHANGED <<record, entry, loaded, reload, lights, strip>>
    BY <1>3 DEF Finish
  <2>. QED
    BY <2>1, IdleIs, FlowMoves
<1>4. CASE ~refused /\ pact \in Gated
  <2>1. /\ flows' = [flows EXCEPT ![f] = asked]
        /\ UNCHANGED <<record, entry, loaded, reload, lights, strip>>
    BY <1>4 DEF Finish
  <2>2. Supported(pact, flows[f].modelled)
    BY <1>4 DEF LifeInv, FlowsSound
  <2>3. asked \in Flow /\ FlowSound(asked)
    BY <1>1, <2>2 DEF Flow, Steps, FlowSound
  <2>. QED
    BY <2>1, <2>3, FlowMoves
<1>. QED
  BY <1>2, <1>3, <1>4

LEMMA FlowStepsKept ==
    ASSUME LifeInv, NEW f \in Flows,
           \/ Discover(f) \/ ListDevices(f) \/ Pick(f) \/ Confirm(f) \/ Abort(f)
           \/ ReadSecret(f) \/ EnterSecret(f) \/ RejectSecret(f)
    PROVE  LifeInv'
<1>1. flows[f] \in Flow /\ record \in Headers \cup {"absent"}
  BY DEF LifeInv, Types
<1>2. Adding(f) => entry = None
  BY DEF LifeInv, FlowsSound
<1>3. flows[f].step \notin {"idle", "reauth"} => Supported(flows[f].pact, flows[f].modelled)
  BY DEF LifeInv, FlowsSound
(* A step of the flow that leaves its pact.                                 *)
<1>4. ASSUME NEW step \in Steps, FlowSound([flows[f] EXCEPT !.step = step]),
             flows' = [flows EXCEPT ![f] = [flows[f] EXCEPT !.step = step]],
             UNCHANGED <<record, entry, loaded, reload, lights, strip>>
      PROVE  LifeInv'
  <2>1. [flows[f] EXCEPT !.step = step] \in Flow
    BY <1>1 DEF Flow
  <2>. QED
    BY <1>4, <2>1, FlowMoves
<1>5. CASE Discover(f)
  <2>. DEFINE x == [Offered(record) EXCEPT !.step = IF Offered(record).modelled
                                                    THEN "modelled" ELSE "confirm"]
  <2>1. /\ entry = None /\ record \in Headers /\ Supported(record, TRUE)
        /\ flows' = [flows EXCEPT ![f] = x]
        /\ UNCHANGED <<record, entry, loaded, reload, lights, strip>>
    BY <1>1, <1>5 DEF Discover
  <2>2. x \in Flow /\ FlowSound(x)
    BY <2>1, OfferedIs DEF Flow, Steps, FlowSound, Offered
  <2>. QED
    BY <2>1, <2>2, FlowMoves
<1>6. CASE ListDevices(f)
  <2>1. /\ entry = None /\ record \in Headers /\ Supported(record, TRUE)
        /\ flows' = [flows EXCEPT ![f] = Offered(record)]
        /\ UNCHANGED <<record, entry, loaded, reload, lights, strip>>
    BY <1>1, <1>6 DEF ListDevices
  <2>2. Offered(record) \in Flow /\ FlowSound(Offered(record))
    BY <2>1, OfferedIs DEF FlowSound, Offered
  <2>. QED
    BY <2>1, <2>2, FlowMoves
<1>7. CASE Pick(f)
  <2>1. CASE entry = None /\ ~flows[f].modelled
    BY <1>7, <2>1, Finishing DEF Pick
  <2>2. CASE entry # None
    <3>1. /\ flows' = [flows EXCEPT ![f] = Idle]
          /\ UNCHANGED <<record, entry, loaded, reload, lights, strip>>
      BY <1>7, <2>2 DEF Pick
    <3>. QED
      BY <3>1, IdleIs, FlowMoves
  <2>3. CASE entry = None /\ flows[f].modelled
    <3>1. /\ flows' = [flows EXCEPT ![f] = [flows[f] EXCEPT !.step = "modelled"]]
          /\ UNCHANGED <<record, entry, loaded, reload, lights, strip>>
          /\ flows[f].step = "form"
      BY <1>7, <2>3 DEF Pick
    <3>2. FlowSound([flows[f] EXCEPT !.step = "modelled"])
      BY <1>1, <1>3, <2>3, <3>1 DEF FlowSound, Flow
    <3>. QED
      BY <1>4, <3>1, <3>2 DEF Steps
  <2>. QED
    BY <2>1, <2>2, <2>3
<1>8. CASE Confirm(f)
  BY <1>2, <1>8, Finishing DEF Confirm, Adding
<1>9. CASE Abort(f)
  BY <1>9, IdleIs, FlowMoves DEF Abort
<1>10. CASE ReadSecret(f)
  <2>1. flows[f].step = "reading" /\ entry = None
    BY <1>2, <1>10 DEF ReadSecret, Adding
  <2>2. CASE Create(f, flows[f].pact, TRUE)
    BY <1>1, <2>1, <2>2, Creating DEF Flow
  <2>3. CASE /\ Becomes(f, "key")
             /\ UNCHANGED <<record, entry, loaded, reload, lights, strip>>
    <3>1. flows' = [flows EXCEPT ![f] = [flows[f] EXCEPT !.step = "key"]]
      BY <2>3 DEF Becomes
    <3>2. FlowSound([flows[f] EXCEPT !.step = "key"])
      BY <1>1, <1>3, <2>1 DEF FlowSound, Flow
    <3>. QED
      BY <1>4, <2>3, <3>1, <3>2 DEF Steps
  <2>. QED
    BY <1>10, <2>2, <2>3 DEF ReadSecret
<1>11. CASE EnterSecret(f)
  <2>1. CASE flows[f].step = "key" /\ \E secret \in BOOLEAN : Create(f, flows[f].pact, secret)
    BY <1>1, <1>2, <2>1, Creating DEF Flow, Adding
  <2>2. CASE flows[f].step = "reauth"
    <3>1. PICK secret \in BOOLEAN : entry' = [entry EXCEPT !.secret = secret]
      BY <1>11, <2>2 DEF EnterSecret
    <3>2. /\ reload' = TRUE /\ UNCHANGED <<record, loaded, lights, strip>>
          /\ flows' = [flows EXCEPT ![f].step = "idle"]
      BY <1>11, <2>2 DEF EnterSecret, Becomes
    <3>3. entry \in Entry /\ entry # None
      BY <2>2 DEF LifeInv, Types, FlowsSound
    <3>4. /\ entry' \in Entry /\ entry' # None
          /\ entry'.header = entry.header /\ entry'.count = entry.count
      BY <3>1, <3>3, NotNone DEF Entry
    <3>5. Types'
      BY <1>1, <3>2, <3>4 DEF LifeInv, Types, Flow, Steps
    <3>6. \A g \in Flows : flows'[g] = flows[g] \/ flows'[g].step = "idle"
      BY <1>1, <3>2 DEF LifeInv, Types, Flow
    <3>7. FlowsSound'
      BY <3>3, <3>4, <3>6 DEF LifeInv, FlowsSound, Adding
    <3>8. BuiltSound' /\ ReadsSound'
      BY <3>2, <3>3, <3>4 DEF LifeInv, BuiltSound, ReadsSound
    <3>. QED
      BY <3>5, <3>7, <3>8 DEF LifeInv
  <2>. QED
    BY <1>11, <2>1, <2>2 DEF EnterSecret
<1>12. CASE RejectSecret(f)
  <2>1. /\ flows' = [flows EXCEPT ![f] = [flows[f] EXCEPT !.step = "reauth"]]
        /\ UNCHANGED <<record, entry, loaded, reload, lights, strip>>
        /\ loaded # None
    BY <1>12 DEF RejectSecret, Becomes
  <2>2. FlowSound([flows[f] EXCEPT !.step = "reauth"])
    BY <1>1, <2>1 DEF FlowSound, Flow, LifeInv, BuiltSound
  <2>. QED
    BY <1>4, <2>1, <2>2 DEF Steps
<1>. QED
  BY <1>5, <1>6, <1>7, <1>8, <1>9, <1>10, <1>11, <1>12

-----------------------------------------------------------------------------
(* Setup, reload and removal.                                               *)

LEMMA KeptIs == ASSUME NEW n \in Nat PROVE Kept(n) = {i \in lights : i \in Nat /\ i < n}
  BY DEF Kept

(* The lights a setup builds are in the registry, and are the count stored. *)
LEMMA SizedIs ==
    ASSUME Types, NEW p, NEW stored \in 0..Unknown, NEW built, NEW after,
           built = Sized(p, stored).built, after = Sized(p, stored).kept \cup 0..(built - 1)
    PROVE  /\ built \in Counts /\ after \subseteq Nat /\ 0..(built - 1) \subseteq after
           /\ stored # Unknown /\ p \in Segmented =>
                 /\ built = stored /\ after = 0..(stored - 1)
                 /\ \A i \in lights \ after : i >= stored
           /\ stored = Unknown /\ p \in Segmented => lights \subseteq after
<1>1. lights \subseteq Nat
  BY DEF Types
<1>2. CASE p \notin Segmented
  <2>1. Sized(p, stored) = [built |-> 0, kept |-> Kept(0)]
    BY <1>2 DEF Sized
  <2>2. built = 0 /\ after = Kept(0) \cup 0..(built - 1)
    BY <2>1
  <2>3. Kept(0) \subseteq Nat
    BY <1>1 DEF Kept
  <2>. QED
    BY <1>2, <2>2, <2>3, HeadersAre
<1>3. CASE p \in Segmented /\ stored = Unknown
  <2>1. Sized(p, stored) = [built |-> MaxCount, kept |-> lights]
    BY <1>3 DEF Sized
  <2>2. built = MaxCount /\ after = lights \cup 0..(built - 1)
    BY <2>1
  <2>. QED
    BY <1>1, <1>3, <2>2, HeadersAre
<1>4. CASE p \in Segmented /\ stored # Unknown
  <2>1. Sized(p, stored) = [built |-> stored, kept |-> Kept(stored)]
    BY <1>4 DEF Sized
  <2>2. stored \in Counts /\ stored \in Nat
    BY <1>4, HeadersAre DEF Counts
  <2>3. built = stored /\ after = {i \in lights : i \in Nat /\ i < stored} \cup 0..(stored - 1)
    BY <2>1, <2>2, KeptIs
  <2>4. after = 0..(stored - 1)
    BY <2>2, <2>3
  <2>5. \A i \in lights \ after : i >= stored
    BY <1>1, <2>2, <2>4
  <2>6. after \subseteq Nat
    BY <2>2, <2>4
  <2>. QED
    BY <1>4, <2>2, <2>3, <2>4, <2>5, <2>6
<1>. QED
  BY <1>2, <1>3, <1>4

LEMMA SetUpKept ==
    ASSUME LifeInv, SetUp
    PROVE  /\ LifeInv'
           /\ \A i \in lights \ lights' :
                 /\ loaded' # None
                 /\ \/ loaded'.built \notin Segmented
                    \/ strip'.stored = Unknown \/ i >= strip'.stored
<1>. DEFINE header == IF record \in Pacts THEN record ELSE entry.header
            heard == record # "absent"
            built == heard /\ Creates(header, entry.modelled)
            sized == Sized(header, entry.count)
            state == IF built THEN "loaded"
                     ELSE IF heard /\ ServedAt(entry.modelled) = {} THEN "error" ELSE "retry"
<1>1. entry # None /\ entry \in Entry /\ record \in Headers \cup {"absent"}
  BY DEF SetUp, LifeInv, Types
<1>2. header \in Headers
  BY <1>1, HeadersAre DEF Entry
<1>3. /\ entry' \in Entry /\ entry' # None /\ entry'.count = entry.count
      /\ built => entry'.header = header
  <2>1. entry' = [entry EXCEPT !.state = state, !.header = IF heard THEN header ELSE @]
    BY DEF SetUp
  <2>. QED
    BY <1>1, <1>2, <2>1, NotNone DEF Entry
<1>4. UNCHANGED <<record, flows, reload, strip>>
  BY DEF SetUp
<1>5. FlowsSound'
  BY <1>1, <1>3, <1>4 DEF LifeInv, FlowsSound, Adding
<1>6. CASE ~built
  <2>1. loaded' = None /\ lights' = lights
    BY <1>6 DEF SetUp
  <2>. QED
    <3>1. Types'
      BY <1>3, <1>4, <2>1 DEF LifeInv, Types
    <3>2. BuiltSound' /\ ReadsSound'
      BY <1>1, <1>3, <1>4, <2>1 DEF LifeInv, BuiltSound, ReadsSound
    <3>. QED
      BY <1>5, <2>1, <3>1, <3>2 DEF LifeInv
<1>7. CASE built
  <2>. DEFINE size == sized.built
              after == sized.kept \cup 0..(size - 1)
              b == [built |-> header, bare |-> header = NoPact, lights |-> size,
                    count |-> Unknown, fresh |-> FALSE, last |-> Unknown]
  <2>1. loaded' = b /\ lights' = after
    BY <1>7 DEF SetUp
  <2>2. entry.count \in 0..Unknown
    BY <1>1 DEF Entry
  <2>3. /\ size \in Counts /\ after \subseteq Nat /\ 0..(size - 1) \subseteq after
        /\ entry.count # Unknown /\ header \in Segmented =>
              /\ size = entry.count /\ after = 0..(entry.count - 1)
              /\ \A i \in lights \ after : i >= entry.count
        /\ entry.count = Unknown /\ header \in Segmented => lights \subseteq after
    <3>1. Types
      BY DEF LifeInv
    <3>2. /\ size = Sized(header, entry.count).built
          /\ after = Sized(header, entry.count).kept \cup 0..(size - 1)
      OBVIOUS
    <3>. HIDE DEF header, size, after
    <3>. QED
      BY <2>2, <3>1, <3>2, SizedIs
  <2>. HIDE DEF size, after
  <2>4. b \in SetupBuilt /\ b # None
    BY <1>2, <2>3, HeadersAre, NotNone DEF SetupBuilt
  <2>5. b.built = header /\ b.lights = size /\ ~b.fresh /\ b.last = Unknown
    OBVIOUS
  <2>. HIDE DEF b
  <2>6. Types'
    BY <1>3, <1>4, <2>1, <2>3, <2>4 DEF LifeInv, Types
  <2>7. BuiltSound'
    BY <1>3, <1>4, <1>7, <2>1, <2>3, <2>5 DEF BuiltSound
  <2>8. ReadsSound'
    BY <1>1, <1>3, <1>4, <2>1, <2>5 DEF LifeInv, ReadsSound
  <2>9. \A i \in lights \ lights' :
           /\ loaded' # None
           /\ \/ loaded'.built \notin Segmented
              \/ strip'.stored = Unknown \/ i >= strip'.stored
    <3>. SUFFICES ASSUME NEW i \in lights \ after, header \in Segmented, strip.stored # Unknown
                  PROVE  i >= strip.stored
      BY <1>4, <2>1, <2>4, <2>5
    <3>1. entry.count # Unknown /\ i >= entry.count
      BY <2>3
    <3>2. strip.stored <= entry.count /\ strip.stored \in Nat /\ entry.count \in Nat /\ i \in Nat
      BY <1>1, <2>2, <3>1, HeadersAre DEF LifeInv, ReadsSound, Types, Strip
    <3>. QED
      BY <3>1, <3>2
  <2>. QED
    BY <1>5, <2>6, <2>7, <2>8, <2>9 DEF LifeInv
<1>. QED
  BY <1>6, <1>7

LEMMA ReloadKept == ASSUME LifeInv, Reload PROVE LifeInv'
<1>1. entry \in Entry /\ entry # None
  BY DEF Reload, LifeInv, Types
<1>2. /\ entry' \in Entry /\ entry' # None /\ entry'.count = entry.count
  BY <1>1, NotNone DEF Reload, Entry
<1>3. loaded' = None /\ reload' = FALSE /\ UNCHANGED <<record, flows, lights, strip>>
  BY DEF Reload
<1>4. Types'
  BY <1>2, <1>3 DEF LifeInv, Types
<1>5. FlowsSound' /\ BuiltSound' /\ ReadsSound'
  BY <1>1, <1>2, <1>3 DEF LifeInv, FlowsSound, Adding, BuiltSound, ReadsSound
<1>. QED
  BY <1>4, <1>5 DEF LifeInv

LEMMA RemoveKept == ASSUME LifeInv, Remove PROVE LifeInv'
<1>1. /\ entry' = None /\ loaded' = None /\ reload' = FALSE /\ lights' = {}
      /\ UNCHANGED record
      /\ flows' = [f \in Flows |-> IF flows[f].step = "reauth" THEN Idle ELSE flows[f]]
      /\ strip' = [strip EXCEPT !.stored = MaxCount, !.before = 0, !.read = 0, !.hid = FALSE]
  BY DEF Remove
<1>2. strip' \in Strip
  BY <1>1, HeadersAre DEF LifeInv, Types, Strip
<1>3. Types'
  BY <1>1, <1>2, IdleIs DEF LifeInv, Types
<1>4. FlowsSound'
  BY <1>1 DEF LifeInv, FlowsSound, Adding, Idle
<1>. QED
  BY <1>1, <1>3, <1>4 DEF LifeInv, BuiltSound, ReadsSound

-----------------------------------------------------------------------------
(* Advertisements.                                                          *)

LEMMA KeptHeaderIs ==
    ASSUME NEW stored \in Headers, NEW routedBy \in Headers \cup {"absent"}, NEW p \in Headers
    PROVE  /\ KeptHeader(stored, routedBy, p) \in Headers
           /\ routedBy \in Pacts => KeptHeader(stored, routedBy, p) = routedBy
<1>1. CASE routedBy \in Pacts
  BY <1>1 DEF KeptHeader, Headers
<1>2. CASE stored = NoPact /\ routedBy \notin Pacts
  BY <1>2 DEF KeptHeader
<1>3. CASE stored # NoPact /\ routedBy \notin Pacts
  BY <1>3 DEF KeptHeader
<1>. QED
  BY <1>1, <1>2, <1>3

LEMMA AdvertiseKept ==
    ASSUME LifeInv, NEW p \in Headers, NEW connectable \in BOOLEAN, Advertise(p, connectable)
    PROVE  LifeInv'
<1>1. record' \in Headers \cup {"absent"}
  BY DEF Advertise, LifeInv, Types
<1>2. UNCHANGED <<flows, lights, strip>>
  BY DEF Advertise
<1>3. CASE loaded = None
  BY <1>1, <1>2, <1>3 DEF Advertise, LifeInv, Types, FlowsSound, Adding, BuiltSound, ReadsSound
<1>4. CASE loaded # None
  <2>1. entry \in Entry /\ entry # None /\ loaded \in SetupBuilt
    BY <1>4 DEF LifeInv, Types, BuiltSound
  <2>. DEFINE r == record'
              header == KeptHeader(entry.header, r, p)
  <2>2. header \in Headers /\ (r \in Pacts => header = r)
    BY <1>1, <2>1, KeptHeaderIs DEF Entry
  <2>3. /\ entry' = [entry EXCEPT !.header = header]
        /\ loaded' = [loaded EXCEPT !.bare = loaded.bare /\ p = NoPact]
        /\ \E due \in BOOLEAN : reload' = (reload \/ due)
    BY <1>4 DEF Advertise
  <2>. HIDE DEF header, r
  <2>4. /\ entry' \in Entry /\ entry' # None
        /\ entry'.header = header /\ entry'.count = entry.count
    BY <2>1, <2>2, <2>3, NotNone DEF Entry
  <2>5. /\ loaded' \in SetupBuilt /\ loaded' # None
        /\ loaded'.built = loaded.built /\ loaded'.lights = loaded.lights
        /\ loaded'.count = loaded.count /\ loaded'.fresh = loaded.fresh
        /\ loaded'.last = loaded.last
    BY <2>1, <2>3, NotNone DEF SetupBuilt
  <2>6. reload' \in BOOLEAN /\ (~reload' => ~reload)
    BY <2>3 DEF LifeInv, Types
  <2>7. Types'
    BY <1>1, <1>2, <2>4, <2>5, <2>6 DEF LifeInv, Types
  <2>8. FlowsSound'
    BY <1>2, <2>1, <2>4 DEF LifeInv, FlowsSound, Adding
  <2>9. BuiltSound'
    BY <1>2, <1>4, <2>2, <2>4, <2>5, <2>6 DEF LifeInv, BuiltSound, r
  <2>10. ReadsSound'
    BY <1>2, <1>4, <2>1, <2>4, <2>5 DEF LifeInv, ReadsSound
  <2>. QED
    BY <2>7, <2>8, <2>9, <2>10 DEF LifeInv
<1>. QED
  BY <1>3, <1>4

-----------------------------------------------------------------------------
(* Segment counts.                                                          *)

LEMMA ReadCountKept == ASSUME LifeInv, ReadCount PROVE LifeInv'
<1>1. PICK n \in Counts :
         /\ n # strip.has => ~strip.bad
         /\ loaded' = [loaded EXCEPT !.count = n, !.fresh = TRUE]
         /\ strip' = [strip EXCEPT !.bad = n # strip.has, !.read = strip.has, !.hid = Hidden]
  BY DEF ReadCount
<1>2. /\ loaded \in SetupBuilt /\ loaded # None /\ strip \in Strip
      /\ UNCHANGED <<record, flows, entry, reload, lights>>
  BY DEF ReadCount, LifeInv, Types
<1>3. /\ loaded' \in SetupBuilt /\ loaded' # None
      /\ loaded'.built = loaded.built /\ loaded'.lights = loaded.lights
      /\ loaded'.count = n /\ loaded'.fresh /\ loaded'.last = loaded.last
  BY <1>1, <1>2, HeadersAre, NotNone DEF SetupBuilt
<1>. DEFINE hid == Hidden
<1>9. hid \in BOOLEAN /\ (hid <=> strip.hid \/ (loaded.fresh /\ ~strip.bad))
  BY <1>2 DEF Hidden, Strip, SetupBuilt
<1>. HIDE DEF hid
<1>4. /\ strip' \in Strip
      /\ strip'.bad = (n # strip.has) /\ strip'.read = strip.has /\ strip'.hid = hid
      /\ strip'.before = strip.before /\ strip'.stored = strip.stored
  BY <1>1, <1>2, <1>9 DEF Strip, hid
<1>5. Types'
  BY <1>2, <1>3, <1>4 DEF LifeInv, Types
<1>6. FlowsSound' /\ BuiltSound'
  BY <1>2, <1>3 DEF LifeInv, FlowsSound, Adding, BuiltSound
<1>7. n # Unknown
  BY HeadersAre
<1>8. ReadsSound'
  BY <1>1, <1>2, <1>3, <1>4, <1>7, <1>9 DEF LifeInv, ReadsSound
<1>. QED
  BY <1>5, <1>6, <1>8 DEF LifeInv

LEMMA DropCountKept == ASSUME LifeInv, DropCount PROVE LifeInv'
<1>. DEFINE hid == Hidden
<1>1. /\ loaded \in SetupBuilt /\ loaded # None /\ strip \in Strip
      /\ loaded' = [loaded EXCEPT !.count = Unknown, !.fresh = FALSE]
      /\ strip' = [strip EXCEPT !.read = 0, !.hid = hid]
      /\ UNCHANGED <<record, flows, entry, reload, lights>>
  BY DEF DropCount, LifeInv, Types
<1>2. /\ loaded' \in SetupBuilt /\ loaded' # None
      /\ loaded'.built = loaded.built /\ loaded'.lights = loaded.lights
      /\ ~loaded'.fresh /\ loaded'.last = loaded.last
  BY <1>1, HeadersAre, NotNone DEF SetupBuilt
<1>3. hid \in BOOLEAN /\ (hid <=> strip.hid \/ (loaded.fresh /\ ~strip.bad))
  BY <1>1 DEF Hidden, Strip, SetupBuilt
<1>. HIDE DEF hid
<1>4. /\ strip' \in Strip /\ strip'.bad = strip.bad /\ strip'.hid = hid
      /\ strip'.before = strip.before /\ strip'.stored = strip.stored
  BY <1>1, <1>3, HeadersAre DEF Strip
<1>5. Types'
  BY <1>1, <1>2, <1>4 DEF LifeInv, Types
<1>6. FlowsSound' /\ BuiltSound'
  BY <1>1, <1>2 DEF LifeInv, FlowsSound, Adding, BuiltSound
<1>7. ReadsSound'
  BY <1>1, <1>2, <1>3, <1>4 DEF LifeInv, ReadsSound
<1>. QED
  BY <1>5, <1>6, <1>7 DEF LifeInv

(* Two reads seen in a row with one count: the strip had it at one of them, *)
(* unless a right one between went by unseen.                               *)
LEMMA PushKept ==
    ASSUME LifeInv, Push
    PROVE  LifeInv' /\ \A i \in lights \ lights' : strip'.stored = Unknown \/ i >= strip'.stored
<1>. DEFINE n == loaded.count
            new == loaded.fresh
            last == IF new \/ n = Unknown THEN n ELSE loaded.last
            took == new /\ n # entry.count /\ loaded.last = n
            least == Fewer
<1>1. /\ loaded \in SetupBuilt /\ loaded # None /\ strip \in Strip
      /\ entry \in Entry /\ entry # None /\ lights \subseteq Nat
      /\ UNCHANGED <<record, flows>>
  BY DEF Push, LifeInv, Types, BuiltSound
<1>2. n \in 0..Unknown /\ last \in 0..Unknown /\ new \in BOOLEAN
  BY <1>1, HeadersAre DEF SetupBuilt
<1>3. loaded' = [loaded EXCEPT !.fresh = FALSE, !.last = last]
  BY DEF Push
<1>4. /\ loaded' \in SetupBuilt /\ loaded' # None
      /\ loaded'.built = loaded.built /\ loaded'.lights = loaded.lights
      /\ ~loaded'.fresh /\ loaded'.last = last
  BY <1>1, <1>2, <1>3, NotNone DEF SetupBuilt
<1>5. CASE ~took
  <2>1. /\ UNCHANGED <<entry, reload, lights>>
        /\ strip' = IF new THEN [strip EXCEPT !.before = strip.read, !.read = 0, !.hid = FALSE]
                    ELSE strip
    BY <1>5 DEF Push
  <2>2. /\ strip' \in Strip /\ strip'.stored = strip.stored /\ strip'.bad = strip.bad
        /\ strip'.before = IF new THEN strip.read ELSE strip.before
        /\ strip'.hid = IF new THEN FALSE ELSE strip.hid
    BY <1>1, <2>1, HeadersAre DEF Strip
  <2>3. Types'
    BY <1>1, <1>4, <2>1, <2>2 DEF LifeInv, Types
  <2>4. FlowsSound' /\ BuiltSound'
    BY <1>1, <1>4, <2>1 DEF LifeInv, FlowsSound, Adding, BuiltSound
  <2>5. ReadsSound'
    BY <1>1, <1>4, <2>1, <2>2 DEF LifeInv, ReadsSound
  <2>. QED
    BY <2>1, <2>3, <2>4, <2>5 DEF LifeInv
<1>6. CASE took
  <2>1. Take(n)
    BY <1>6 DEF Push
  <2>2. /\ n # Unknown /\ n \in Nat /\ (n = strip.read \/ n = strip.before \/ strip.hid)
    BY <1>1, <1>2, <1>6, HeadersAre DEF LifeInv, ReadsSound
  <2>3. /\ entry' \in Entry /\ entry' # None
        /\ entry'.count = n /\ entry'.header = entry.header
    BY <1>1, <1>2, <2>1, NotNone DEF Take, Entry
  <2>4. strip' = [strip EXCEPT !.before = strip.read, !.read = 0, !.hid = FALSE,
                               !.stored = least]
    BY <2>1 DEF Take
  <2>6. least \in 0..Unknown /\ (least # Unknown => least <= n)
    BY <1>1, <2>2, HeadersAre DEF Fewer, Strip, Counts
  <2>. HIDE DEF least
  <2>5. /\ strip' \in Strip /\ strip'.stored = least /\ strip'.bad = strip.bad
        /\ strip'.before = strip.read /\ strip'.hid = FALSE
    BY <1>1, <2>4, <2>6, HeadersAre DEF Strip
  <2>7. \/ n # loaded.lights /\ reload' = TRUE /\ lights' = lights
        \/ n = loaded.lights /\ lights' = {i \in lights : i < n} /\ reload' = reload
    BY <1>1, <2>1, <2>2, KeptIs DEF Take
  <2>8. Types'
    BY <1>1, <1>4, <2>3, <2>5, <2>7 DEF LifeInv, Types
  <2>9. FlowsSound'
    BY <1>1, <2>3 DEF LifeInv, FlowsSound, Adding
  <2>10. BuiltSound'
    <3>1. 0..(loaded.lights - 1) \subseteq lights
      BY <1>1 DEF LifeInv, BuiltSound
    <3>2. record' \in Pacts => entry'.header = record'
      BY <1>1, <2>3 DEF LifeInv, BuiltSound
    <3>3. CASE n # loaded.lights
      BY <1>4, <2>3, <2>7, <3>1, <3>2, <3>3 DEF BuiltSound
    <3>4. CASE n = loaded.lights
      <4>1. lights' = {i \in lights : i < n} /\ 0..(n - 1) \subseteq lights
        BY <2>7, <3>1, <3>4
      <4>2. lights' = 0..(n - 1)
        <5>1. \A i \in Nat : i < n <=> i \in 0..(n - 1)
          BY <2>2
        <5>. HIDE DEF n
        <5>. QED
          BY <1>1, <4>1, <5>1
      <4>. QED
        BY <1>4, <2>3, <3>2, <3>4, <4>2 DEF BuiltSound
    <3>. QED
      BY <3>3, <3>4
  <2>11. ReadsSound'
    <3>1. loaded'.last = n
      BY <1>4, <1>6
    <3>2. n = strip.read \/ strip.bad
      BY <1>1, <1>6 DEF LifeInv, ReadsSound
    <3>. QED
      BY <1>4, <2>3, <2>5, <2>6, <3>1, <3>2 DEF ReadsSound
  <2>12. \A i \in lights \ lights' : strip'.stored = Unknown \/ i >= strip'.stored
    <3>1. least \in Nat
      BY <2>6, HeadersAre
    <3>. QED
      BY <1>1, <2>2, <2>5, <2>6, <2>7, <3>1
  <2>. QED
    BY <2>8, <2>9, <2>10, <2>11, <2>12 DEF LifeInv
<1>. QED
  BY <1>5, <1>6

-----------------------------------------------------------------------------
(* Every step.                                                              *)

LEMMA LifeStepKept ==
    ASSUME LifeInv, [EntryNext]_vars
    PROVE  LifeInv'
<1>1. ASSUME NEW f \in Flows,
             \/ Discover(f) \/ ListDevices(f) \/ Pick(f) \/ Confirm(f) \/ Abort(f)
             \/ ReadSecret(f) \/ EnterSecret(f) \/ RejectSecret(f)
      PROVE  LifeInv'
  BY <1>1, FlowStepsKept
<1>2. CASE Reconfigure
  <2>1. entry \in Entry /\ entry # None
    BY <1>2 DEF Reconfigure, LifeInv, Types
  <2>2. PICK secret \in BOOLEAN : entry' = [entry EXCEPT !.secret = secret]
    BY <1>2, <2>1 DEF Reconfigure, Entry
  <2>3. reload' = TRUE /\ UNCHANGED <<record, flows, loaded, lights, strip>>
    BY <1>2 DEF Reconfigure
  <2>4. /\ entry' \in Entry /\ entry' # None
        /\ entry'.header = entry.header /\ entry'.count = entry.count
    BY <2>1, <2>2, NotNone DEF Entry
  <2>5. Types'
    BY <2>3, <2>4 DEF LifeInv, Types
  <2>6. FlowsSound' /\ BuiltSound' /\ ReadsSound'
    BY <2>1, <2>3, <2>4 DEF LifeInv, FlowsSound, Adding, BuiltSound, ReadsSound
  <2>. QED
    BY <2>5, <2>6 DEF LifeInv
<1>3. ASSUME NEW p \in Headers, NEW connectable \in BOOLEAN, Advertise(p, connectable)
      PROVE  LifeInv'
  BY <1>3, AdvertiseKept
<1>4. CASE Vanish
  <2>1. record' \in Headers \cup {"absent"} /\ record' \notin Pacts
    BY <1>4, HeadersAre DEF Vanish
  <2>2. UNCHANGED <<flows, entry, loaded, reload, lights, strip>>
    BY <1>4 DEF Vanish
  <2>. QED
    BY <2>1, <2>2 DEF LifeInv, Types, FlowsSound, Adding, BuiltSound, ReadsSound
<1>5. CASE Cut
  <2>1. PICK n \in 1..MaxCount : strip' = [strip EXCEPT !.has = n]
    BY <1>5 DEF Cut
  <2>2. n \in Counts
    BY HeadersAre DEF Counts
  <2>3. UNCHANGED <<record, flows, entry, loaded, reload, lights>> /\ strip \in Strip
    BY <1>5 DEF Cut, LifeInv, Types
  <2>4. /\ strip' \in Strip /\ strip'.bad = strip.bad /\ strip'.read = strip.read
        /\ strip'.before = strip.before /\ strip'.stored = strip.stored
        /\ strip'.hid = strip.hid
    BY <2>1, <2>2, <2>3 DEF Strip
  <2>. QED
    BY <2>3, <2>4 DEF LifeInv, Types, FlowsSound, Adding, BuiltSound, ReadsSound
<1>6. CASE UNCHANGED vars
  BY <1>6 DEF vars, LifeInv, Types, FlowsSound, Adding, BuiltSound, ReadsSound
<1>. QED
  BY <1>1, <1>2, <1>3, <1>4, <1>5, <1>6, SetUpKept, ReloadKept, RemoveKept, ReadCountKept,
     DropCountKept, PushKept
  DEF EntryNext

LEMMA LifeInvHolds == EntrySpec => []LifeInv
<1>1. EntryInit => LifeInv
  <2>. SUFFICES ASSUME EntryInit PROVE LifeInv
    OBVIOUS
  <2>1. entry # None => entry \in Entry /\ entry.count = Unknown
    BY HeadersAre DEF EntryInit, Entry
  <2>2. strip \in Strip
    <3>1. PICK n \in 1..MaxCount :
             strip = [has |-> n, bad |-> FALSE, read |-> 0, before |-> 0, hid |-> FALSE,
                      stored |-> MaxCount]
      BY DEF EntryInit
    <3>2. n \in Counts
      BY HeadersAre DEF Counts
    <3>. QED
      BY <3>1, <3>2, HeadersAre DEF Strip
  <2>3. lights \subseteq Nat
    BY HeadersAre DEF EntryInit
  <2>4. flows \in [Flows -> Flow] /\ \A f \in Flows : flows[f].step = "idle"
    BY IdleIs DEF EntryInit, Idle
  <2>5. loaded = None /\ reload = FALSE /\ record \in Headers \cup {"absent"}
    BY DEF EntryInit
  <2>. QED
    BY <2>1, <2>2, <2>3, <2>4, <2>5
    DEF LifeInv, Types, FlowsSound, Adding, BuiltSound, ReadsSound
<1>2. LifeInv /\ [EntryNext]_vars => LifeInv'
  BY LifeStepKept
<1>. QED
  BY <1>1, <1>2, PTL DEF EntrySpec

-----------------------------------------------------------------------------
(* As long as an entry is set up, its header is the one the connectable     *)
(* record shows, and unless a reload is due its segment lights are as many  *)
(* as the count it stores, whatever was advertised, cut, misread, dropped,  *)
(* rejected or reconfigured since (_async_keep_broadcast,                   *)
(* _async_track_segment_count).                                             *)
THEOREM EntrySetUpCurrent == EntrySpec => []SetUpCurrent
<1>1. LifeInv => SetUpCurrent
  BY DEF LifeInv, BuiltSound, SetUpCurrent
<1>. QED
  BY <1>1, LifeInvHolds, PTL

(* No read, push, advert, setup or reload removes a segment light the strip *)
(* had at either of the two reads behind the count stored, unless a right   *)
(* read between them went by before any push: of two reads seen in a row    *)
(* one was right (_async_track_segment_count, _async_size_segment_lights).  *)
THEOREM LightsStay == EntrySpec => NoLightLost
<1>. DEFINE Rightly ==
               \A i \in lights \ lights' :
                  \/ entry' = None
                  \/ loaded' # None /\ loaded'.built \notin Segmented
                  \/ strip'.stored = Unknown
                  \/ i >= strip'.stored
<1>1. LifeInv /\ [EntryNext]_vars => [Rightly]_vars
  <2>. SUFFICES ASSUME LifeInv, EntryNext PROVE Rightly
    OBVIOUS
  <2>1. ASSUME UNCHANGED lights PROVE Rightly
    BY <2>1
  <2>2. ASSUME NEW f \in Flows,
               \/ Discover(f) \/ ListDevices(f) \/ Pick(f) \/ Confirm(f) \/ Abort(f)
               \/ ReadSecret(f) \/ EnterSecret(f) \/ RejectSecret(f)
        PROVE  UNCHANGED lights
    BY <2>2
    DEF Discover, ListDevices, Pick, Confirm, Finish, Create, Abort, ReadSecret, EnterSecret,
        RejectSecret
  <2>3. CASE SetUp
    BY <2>3, SetUpKept
  <2>4. CASE Remove
    BY <2>4 DEF Remove
  <2>5. CASE Push
    BY <2>5, PushKept
  <2>6. CASE Reconfigure \/ Reload \/ Vanish \/ Cut \/ ReadCount \/ DropCount
    BY <2>1, <2>6 DEF Reconfigure, Reload, Vanish, Cut, ReadCount, DropCount
  <2>7. ASSUME NEW p \in Headers, NEW connectable \in BOOLEAN, Advertise(p, connectable)
        PROVE  Rightly
    BY <2>1, <2>7 DEF Advertise
  <2>. QED
    BY <2>1, <2>2, <2>3, <2>4, <2>5, <2>6, <2>7 DEF EntryNext
<1>. QED
  BY <1>1, LifeInvHolds, PTL DEF EntrySpec, NoLightLost

-----------------------------------------------------------------------------

(* What the flow that ends by creating the entry has checked of its pact.   *)
LEMMA CreatedAt ==
    ASSUME LifeInv, NEW f \in Flows, entry = None, entry' # None,
           \/ Discover(f) \/ ListDevices(f) \/ Pick(f) \/ Confirm(f) \/ Abort(f)
           \/ ReadSecret(f) \/ EnterSecret(f) \/ RejectSecret(f)
    PROVE  /\ Supported(entry'.header, entry'.modelled)
           /\ record \in Pacts =>
                 \/ entry'.header = record
                 \/ flows[f].step \in {"reading", "key"} /\ flows'[f] = Idle
<1>1. flows[f].step \notin {"idle", "reauth"} => Supported(flows[f].pact, flows[f].modelled)
  BY DEF LifeInv, FlowsSound
<1>2. ASSUME NEW pact, NEW secret, Create(f, pact, secret)
      PROVE  /\ entry'.header = pact /\ entry'.modelled = flows[f].modelled
             /\ flows'[f] = Idle
  BY <1>2 DEF Create
<1>3. ASSUME flows[f].step \notin {"idle", "reauth"}, Finish(f)
      PROVE  /\ Supported(entry'.header, entry'.modelled)
             /\ record \in Pacts => entry'.header = record
  <2>. DEFINE pact == IF record \in Pacts THEN record ELSE flows[f].pact
  <2>1. /\ Create(f, pact, FALSE)
        /\ pact = flows[f].pact \/ Supported(pact, flows[f].modelled)
    BY <1>3 DEF Finish
  <2>. QED
    BY <1>1, <1>2, <1>3, <2>1
<1>4. CASE Pick(f) \/ Confirm(f)
  <2>1. Finish(f) /\ flows[f].step \notin {"idle", "reauth"}
    BY <1>4 DEF Pick, Confirm
  <2>. QED
    BY <1>3, <2>1
<1>5. CASE ReadSecret(f)
  BY <1>1, <1>2, <1>5 DEF ReadSecret
<1>6. CASE EnterSecret(f)
  BY <1>1, <1>2, <1>6 DEF EnterSecret, LifeInv, FlowsSound
<1>. QED
  BY <1>4, <1>5, <1>6 DEF Discover, ListDevices, Abort, RejectSecret

(* An entry is created only at a pact its setup serves, and at the one its  *)
(* setup routes by unless the user was asked for a key meanwhile (_finish). *)
THEOREM EntryCreatedServable == EntrySpec => CreatedServable
<1>. DEFINE Servable ==
               entry = None /\ entry' # None =>
                  /\ entry'.header \in Pacts => Supported(entry'.header, entry'.modelled)
                  /\ record \in Pacts =>
                        \/ entry'.header = record
                        \/ \E f \in Flows :
                              flows[f].step \in {"reading", "key"} /\ flows'[f] = Idle
<1>1. LifeInv /\ [EntryNext]_vars => [Servable]_vars
  <2>. SUFFICES ASSUME LifeInv, EntryNext, entry = None, entry' # None PROVE Servable
    OBVIOUS
  <2>1. \E f \in Flows :
           \/ Discover(f) \/ ListDevices(f) \/ Pick(f) \/ Confirm(f) \/ Abort(f)
           \/ ReadSecret(f) \/ EnterSecret(f) \/ RejectSecret(f)
    BY DEF EntryNext, Reconfigure, SetUp, Reload, Remove, Advertise, Vanish, Cut, ReadCount,
           DropCount, Push, LifeInv, BuiltSound
  <2>. QED
    BY <2>1, CreatedAt
<1>. QED
  BY <1>1, LifeInvHolds, PTL DEF EntrySpec, CreatedServable

=============================================================================
