-------------------------- MODULE PollPolicyProofs --------------------------
(***************************************************************************)
(* The poll policy, proved for any intervals, caps and counts: a scheduled  *)
(* device is always polled again in time, a streak's backoff is cut short   *)
(* once, and an absent device stays unavailable through polls that resume.  *)
(***************************************************************************)
EXTENDS PollPolicy, NaturalsInduction, WellFoundedInduction, TLAPS

-----------------------------------------------------------------------------
(* Intervals.                                                               *)

LEMMA Least ==
    ASSUME NEW T \in SUBSET Nat, T # {}
    PROVE  \E x \in T : \A y \in T : x <= y
<1> DEFINE R == OpToRel(<, Nat)
<1>1. IsWellFoundedOn(R, Nat)
  BY NatLessThanWellFounded
<1>2. \E x \in T : \A y \in T : ~ (<<y, x>> \in R)
  <2> HIDE DEF R
  <2> QED BY <1>1, WFMin
<1>3. PICK x \in T : \A y \in T : ~ (y < x)
  BY <1>2 DEF OpToRel
<1> QED
  BY <1>3

LEMMA BoundedInduction ==
    ASSUME NEW K, 0 \in K, \A k \in Steps : k \in K /\ k + 1 \in Steps => k + 1 \in K
    PROVE  Steps \subseteq K
<1> DEFINE T == Steps \ K
<1>1. SUFFICES ASSUME T # {} PROVE FALSE
  OBVIOUS
<1>2. PICK x \in T : \A y \in T : x <= y
  BY <1>1, Least DEF Steps
<1>3. x - 1 \in Steps \ T
  BY <1>2 DEF Steps
<1> QED
  BY <1>2, <1>3 DEF Steps

(* The function Doublings exists.                                           *)
LEMMA DoublingsAre ==
    Doublings = [k \in Steps |-> IF k = 0 THEN Base ELSE 2 * Doublings[k - 1]]
<1> DEFINE Upto(n, f) == f = [k \in 0..n |-> IF k = 0 THEN Base ELSE 2 * f[k - 1]]
           K == {n \in Steps : \E f : Upto(n, f)}
<1>1. 0 \in K
  <2> DEFINE f == [k \in 0..0 |-> Base]
  <2>1. f = [k \in 0..0 |-> IF k = 0 THEN Base ELSE 2 * f[k - 1]]
    OBVIOUS
  <2> HIDE DEF f
  <2> QED BY <2>1 DEF Steps
<1>2. ASSUME NEW n \in Steps, n \in K, n + 1 \in Steps PROVE n + 1 \in K
  <2>1. PICK f : Upto(n, f)
    BY <1>2
  <2> DEFINE h == [k \in 0..(n + 1) |-> IF k = n + 1 THEN 2 * f[n] ELSE f[k]]
  <2>2. ASSUME NEW k \in 0..(n + 1) PROVE h[k] = IF k = 0 THEN Base ELSE 2 * h[k - 1]
    <3>1. n \in Nat
      BY DEF Steps
    <3>2. CASE k = 0
      BY <2>1, <3>1, <3>2
    <3>3. CASE k = n + 1
      BY <3>1, <3>3
    <3>4. CASE k \in 1..n
      <4>1. f[k] = 2 * f[k - 1] /\ h[k] = f[k] /\ h[k - 1] = f[k - 1]
        BY <2>1, <3>1, <3>4
      <4> QED BY <3>4, <4>1
    <3> QED BY <3>1, <3>2, <3>3, <3>4
  <2>3. Upto(n + 1, h)
    BY <2>2
  <2> HIDE DEF h
  <2> QED BY <1>2, <2>3
<1>3. 10 \in K
  <2> HIDE DEF K
  <2> QED BY <1>1, <1>2, BoundedInduction DEF Steps
<1>4. PICK f : f = [k \in Steps |-> IF k = 0 THEN Base ELSE 2 * f[k - 1]]
  BY <1>3 DEF Steps
<1>5. Doublings = CHOOSE g : g = [k \in Steps |-> IF k = 0 THEN Base ELSE 2 * g[k - 1]]
  BY DEF Doublings
<1> QED
  BY <1>4, <1>5

LEMMA DoublingsGrow ==
    \A k \in Steps : Doublings[k] \in Nat /\ Doublings[k] >= Base
<1> DEFINE K == {k \in Steps : Doublings[k] \in Nat /\ Doublings[k] >= Base}
<1>1. 0 \in K
  BY DoublingsAre, PolicyAssumption DEF Steps
<1>2. ASSUME NEW k \in Steps, k \in K, k + 1 \in Steps PROVE k + 1 \in K
  <2>1. Doublings[k + 1] = 2 * Doublings[k]
    BY <1>2, DoublingsAre DEF Steps
  <2> QED
    BY <1>2, <2>1, PolicyAssumption
<1> HIDE DEF K
<1>3. Steps \subseteq K
  BY <1>1, <1>2, BoundedInduction
<1> QED
  BY <1>3 DEF K

LEMMA ReachingIsStep ==
    ASSUME NEW cap \in 1..MaxInterval
    PROVE  Reaching(cap) \in Steps
<1> DEFINE T == {k \in Steps : Doublings[k] >= cap}
<1>1. T # {}
  BY PolicyAssumption, DoublingsGrow
<1>2. \E x \in T : \A y \in T : x <= y
  BY <1>1, Least DEF Steps
<1> QED
  BY <1>2 DEF Reaching, Min

-----------------------------------------------------------------------------
(* The coordinator.                                                         *)

Coordinator ==
    [policy : {"off", "on", "fixed", "relay"}, nominal : Nat, armed : BOOLEAN,
     held : {"none", "due", "apart"}, flip : BOOLEAN,
     on : Steps, slow : Steps, failures : Nat, backoff : Nat,
     used : BOOLEAN, lost : BOOLEAN, skipped : BOOLEAN, auth : BOOLEAN,
     recent : BOOLEAN, landed : BOOLEAN, cuts : 0..1, disabled : BOOLEAN]
Heard == [present : BOOLEAN, fresh : BOOLEAN, power : {"unknown", "on", "off"}]

(* Its interval fits its policy step and its slow steps; one reset a streak *)
(* is used up.                                                              *)
Paces(k) ==
    /\ k.nominal = None <=> k.policy \in Unpolled
    /\ k.nominal = None => ~k.armed
    /\ k.nominal # None => k.nominal \in Greater(Base, Floor(k))..MaxInterval
CutUsed(k) == k.cuts = 1 => k.used
Good(k) == k \in Coordinator /\ Paces(k) /\ CutUsed(k)

(* A scheduled one has a timer, or a poll held.                             *)
Covered(k) == Scheduled(k) => k.armed \/ k.held # "none"

(* What a step of the coordinator that reads nothing may do: an absent      *)
(* device's grace never comes back, and it stays covered.                   *)
Keeps(k, l, e) ==
    /\ ~e.present => /\ k.lost => l.lost
                     /\ k.nominal = None /\ l.nominal # None => l.lost
    /\ l.failures < AwayAfter => k.failures < AwayAfter
    /\ l.auth = k.auth /\ l.disabled = k.disabled /\ l.recent = k.recent
Follows(k, l, e) == Keeps(k, l, e) /\ (Covered(k) => Covered(l))

LEMMA FloorBounds ==
    ASSUME NEW k \in Coordinator
    PROVE  Floor(k) \in 0..MaxInterval
  BY DoublingsGrow, PolicyAssumption DEF Floor, Coordinator, Lesser

LEMMA IntervalBounds ==
    ASSUME NEW k \in Coordinator
    PROVE  /\ Base \in Base..MaxInterval /\ Base > 0
           /\ Healthy(k) \in Base..MaxInterval
           /\ FailureInterval(k) \in Base..MaxInterval
<1>1. Base \in Nat \ {0} /\ MaxInterval \in Nat /\ OnMax \in Nat
      /\ Base <= OnMax /\ OnMax <= MaxInterval
  BY PolicyAssumption
<1>2. Healthy(k) \in Base..MaxInterval
  BY <1>1, DoublingsGrow DEF Healthy, Lesser, Coordinator
<1> DEFINE n == Lesser(Greater(0, k.backoff - 1), Reaching(MaxInterval))
<1>3. n \in Steps
  <2>1. Reaching(MaxInterval) \in Steps /\ k.backoff \in Nat
    BY <1>1, ReachingIsStep DEF Coordinator
  <2> QED
    BY <2>1 DEF Lesser, Greater, Steps
<1>4. FailureInterval(k) = Lesser(Doublings[n], MaxInterval)
  BY DEF FailureInterval
<1> HIDE DEF n
<1>5. FailureInterval(k) \in Base..MaxInterval
  BY <1>1, <1>3, <1>4, DoublingsGrow DEF Lesser
<1> QED
  BY <1>1, <1>2, <1>5

LEMMA FlooredBounds ==
    ASSUME NEW k \in Coordinator, NEW n \in Base..MaxInterval
    PROVE  /\ Floored(k, n) \in Greater(Base, Floor(k))..MaxInterval
           /\ Floored(k, n) \in Base..MaxInterval /\ Floored(k, n) # None
  BY FloorBounds, PolicyAssumption DEF Floored, Greater, None

LEMMA PacedIs ==
    ASSUME NEW k \in Coordinator, NEW n \in Base..MaxInterval
    PROVE  LET l == Paced(k, n)
           IN  /\ l \in Coordinator /\ l = [k EXCEPT !.nominal = l.nominal]
               /\ l.nominal \in Greater(Base, Floor(l))..MaxInterval /\ l.nominal # None
<1>1. Floored(k, n) \in Nat
  BY FlooredBounds, PolicyAssumption
<1>2. Paced(k, n) \in Coordinator /\ Paced(k, n).nominal = Floored(k, n)
      /\ Paced(k, n).slow = k.slow
  BY <1>1 DEF Paced, Coordinator
<1> QED
  BY <1>2, FlooredBounds DEF Paced, Floor

-----------------------------------------------------------------------------
(* The steps of the coordinator: what each does to its data.                *)

(* Everything but the policy step, its on-backoff and its turn-on poll.     *)
OnlyMoves(k, l) ==
    /\ l.nominal = k.nominal /\ l.armed = k.armed /\ l.held = k.held /\ l.slow = k.slow
    /\ l.failures = k.failures /\ l.used = k.used /\ l.lost = k.lost
    /\ l.auth = k.auth /\ l.disabled = k.disabled /\ l.recent = k.recent /\ l.cuts = k.cuts

LEMMA MovedToIs ==
    ASSUME NEW k \in Coordinator, NEW e \in Heard
    PROVE  LET l == MovedTo(k, Step(k, e))
           IN  l \in Coordinator /\ l.policy = Step(k, e) /\ OnlyMoves(k, l)
<1>1. Step(k, e) \in {"off", "on", "fixed", "relay"}
  BY PolicyAssumption DEF Step, Heard
<1> DEFINE step == Step(k, e)
           flip == k.flip /\ step \notin Unpolled
<1> HIDE DEF step
<1>2. CASE step = k.policy
  BY <1>2 DEF MovedTo, OnlyMoves, step
<1>3. CASE step # k.policy
  <2>1. MovedTo(k, step) = [k EXCEPT !.policy = step, !.on = 0, !.flip = flip]
    BY <1>3 DEF MovedTo
  <2>2. flip \in BOOLEAN /\ step \in {"off", "on", "fixed", "relay"} /\ 0 \in Steps
    BY <1>1 DEF step, Steps
  <2> HIDE DEF flip
  <2>3. LET l == [k EXCEPT !.policy = step, !.on = 0, !.flip = flip]
        IN  l \in Coordinator /\ l.policy = step /\ OnlyMoves(k, l)
    BY <2>2 DEF Coordinator, OnlyMoves
  <2> QED
    BY <2>1, <2>3 DEF step
<1> QED
  BY <1>2, <1>3

LEMMA ClearedIs ==
    ASSUME NEW k \in Coordinator, k.policy \in Unpolled, CutUsed(k)
    PROVE  LET l == Cleared(k)
           IN  /\ Good(l) /\ Covered(l) /\ l.nominal = None
               /\ l.failures = k.failures /\ l.lost = k.lost
               /\ l.auth = k.auth /\ l.disabled = k.disabled /\ l.recent = k.recent
<1>1. Unheld(k) \in {"none", "due", "apart"}
  BY DEF Unheld, Coordinator
<1> QED
  BY <1>1 DEF Cleared, Good, Coordinator, Paces, CutUsed, Covered, Scheduled, None

LEMMA RearmedIs ==
    ASSUME NEW k \in Coordinator
    PROVE  LET l == Rearmed(k)
           IN  /\ l \in Coordinator /\ l.armed
               /\ l.policy = k.policy /\ l.nominal = k.nominal /\ l.slow = k.slow
               /\ l.failures = k.failures /\ l.used = k.used /\ l.lost = k.lost
               /\ l.auth = k.auth
               /\ l.disabled = k.disabled /\ l.recent = k.recent /\ l.cuts = k.cuts
<1>1. Unheld(k) \in {"none", "due", "apart"}
  BY DEF Unheld, Coordinator
<1> QED
  BY <1>1 DEF Rearmed, Coordinator

LEMMA PacedGood ==
    ASSUME NEW k \in Coordinator, NEW n \in Base..MaxInterval,
           k.policy \notin Unpolled, CutUsed(k)
    PROVE  LET l == Paced(k, n)
           IN  /\ Good(l) /\ l.nominal # None /\ l = [k EXCEPT !.nominal = l.nominal]
               /\ Good(Rearmed(l)) /\ Covered(Rearmed(l))
<1> DEFINE l == Paced(k, n)
<1>1. /\ l \in Coordinator /\ l = [k EXCEPT !.nominal = l.nominal]
      /\ l.nominal \in Greater(Base, Floor(l))..MaxInterval /\ l.nominal # None
  BY PacedIs
<1> HIDE DEF l
<1>2. l.policy = k.policy /\ l.cuts = k.cuts /\ l.used = k.used
  BY <1>1 DEF Coordinator
<1>3. Good(l)
  BY <1>1, <1>2 DEF Good, Paces, CutUsed
<1>4. Floor(Rearmed(l)) = Floor(l)
  BY <1>1, RearmedIs DEF Floor
<1>5. Good(Rearmed(l)) /\ Covered(Rearmed(l))
  BY <1>1, <1>2, <1>4, RearmedIs DEF Good, Paces, CutUsed, Covered
<1> QED
  BY <1>1, <1>3, <1>5 DEF l

LEMMA ResumedIs ==
    ASSUME NEW k \in Coordinator, NEW e \in Heard
    PROVE  LET l == Resumed(k, e)
           IN  /\ l \in Coordinator /\ l = [k EXCEPT !.lost = l.lost]
               /\ k.lost => l.lost
               /\ ~e.present /\ k.nominal = None => l.lost
<1> DEFINE lost == k.lost \/ (k.nominal = None /\ ~e.present)
<1>1. Resumed(k, e) = [k EXCEPT !.lost = lost] /\ lost \in BOOLEAN
  BY DEF Resumed, Coordinator, Heard
<1>2. Resumed(k, e).lost = lost /\ Resumed(k, e) \in Coordinator
  BY <1>1 DEF Coordinator
<1> QED
  BY <1>1, <1>2

(* A poll held, and the timer, as they are.                                 *)
LEMMA GoodMeans ==
    ASSUME NEW k, Good(k)
    PROVE  k \in Coordinator /\ Paces(k) /\ CutUsed(k)
  BY DEF Good

LEMMA AppliedGood ==
    ASSUME NEW k, Good(k), NEW e \in Heard
    PROVE  Good(Applied(k, e)) /\ Follows(k, Applied(k, e), e)
<1> DEFINE lost == k.lost /\ ~e.present
           heard == [k EXCEPT !.lost = lost]
           moved == MovedTo(heard, Step(heard, e))
           nominal == Floored(k, IF k.nominal = None /\ k.failures > 0 THEN FailureInterval(k)
                              ELSE Base)
           base == IF k.nominal = None THEN Resumed(moved, e) ELSE moved
           paced == Paced(base, nominal)
<1>1. k \in Coordinator /\ Paces(k) /\ CutUsed(k)
  BY DEF Good
<1>2. /\ heard \in Coordinator /\ OnlyMoves([k EXCEPT !.lost = lost], heard)
      /\ heard.policy = k.policy /\ heard.lost = lost /\ Step(heard, e) = Step(k, e)
  BY <1>1 DEF Coordinator, Heard, Step, Enabled, OnlyMoves
<1>3. /\ heard.nominal = k.nominal /\ heard.armed = k.armed /\ heard.held = k.held
      /\ heard.slow = k.slow /\ heard.failures = k.failures /\ heard.used = k.used
      /\ heard.auth = k.auth
      /\ heard.disabled = k.disabled /\ heard.recent = k.recent /\ heard.cuts = k.cuts
  BY <1>1 DEF Coordinator
<1>4. Applied(k, e) =
        IF moved.policy = k.policy THEN heard
        ELSE IF moved.policy \in Unpolled THEN Cleared(moved)
        ELSE IF (k.nominal # None /\ k.failures > 0) \/ nominal = k.nominal THEN moved
        ELSE Rearming(paced)
  BY <1>2 DEF Applied
<1>5. lost \in BOOLEAN /\ (~e.present => lost = k.lost)
  BY <1>1 DEF Coordinator, Heard
<1> HIDE DEF heard, lost
<1>6. moved \in Coordinator /\ OnlyMoves(heard, moved)
  BY <1>2, MovedToIs
<1>7. nominal \in Base..MaxInterval /\ nominal # None
  <2>1. IF k.nominal = None /\ k.failures > 0 THEN FailureInterval(k) \in Base..MaxInterval
        ELSE Base \in Base..MaxInterval
    BY <1>1, IntervalBounds
  <2> QED
    BY <1>1, <2>1, FlooredBounds
<1> HIDE DEF moved, nominal
<1>8. CASE moved.policy = k.policy
  <2>1. Applied(k, e) = heard
    BY <1>4, <1>8
  <2>2. Floor(heard) = Floor(k)
    BY <1>3 DEF Floor
  <2>3. Good(heard)
    BY <1>1, <1>2, <1>3, <2>2 DEF Good, Paces, CutUsed
  <2>4. Follows(k, heard, e)
    BY <1>2, <1>3, <1>5 DEF Follows, Keeps, Covered, Scheduled, Enabled
  <2> QED
    BY <2>1, <2>3, <2>4
<1>9. CASE moved.policy # k.policy /\ moved.policy \in Unpolled
  <2>1. Applied(k, e) = Cleared(moved)
    BY <1>4, <1>9
  <2>2. CutUsed(moved)
    BY <1>1, <1>3, <1>6 DEF CutUsed, OnlyMoves
  <2>3. /\ Good(Cleared(moved)) /\ Covered(Cleared(moved)) /\ Cleared(moved).nominal = None
        /\ Cleared(moved).failures = moved.failures /\ Cleared(moved).lost = moved.lost
        /\ Cleared(moved).auth = moved.auth
        /\ Cleared(moved).disabled = moved.disabled /\ Cleared(moved).recent = moved.recent
    BY <1>6, <1>9, <2>2, ClearedIs
  <2>4. Follows(k, Cleared(moved), e)
    BY <1>2, <1>3, <1>5, <1>6, <2>3 DEF Follows, Keeps, OnlyMoves
  <2> QED
    BY <2>1, <2>3, <2>4
<1>10. ASSUME moved.policy \notin Unpolled, k.nominal # None
       PROVE  Good(moved) /\ Follows(k, moved, e)
  <2>1. Floor(moved) = Floor(k)
    BY <1>3, <1>6 DEF Floor, OnlyMoves
  <2>2. Good(moved)
    BY <1>1, <1>3, <1>6, <1>10, <2>1 DEF Good, Paces, CutUsed, OnlyMoves
  <2>3. Follows(k, moved, e)
    BY <1>2, <1>3, <1>5, <1>6, <1>10 DEF Follows, Keeps, Covered, Scheduled, Enabled, OnlyMoves
  <2> QED
    BY <2>2, <2>3
<1>11. CASE moved.policy # k.policy /\ moved.policy \notin Unpolled
            /\ k.nominal # None /\ k.failures > 0
  <2>1. Applied(k, e) = moved
    BY <1>4, <1>11
  <2> QED
    BY <1>10, <1>11, <2>1
<1>12. CASE moved.policy # k.policy /\ moved.policy \notin Unpolled
            /\ ~(k.nominal # None /\ k.failures > 0)
  <2>1. Applied(k, e) = IF nominal = k.nominal THEN moved ELSE Rearming(paced)
    BY <1>4, <1>12
  <2>2. CASE nominal = k.nominal
    BY <1>7, <1>10, <1>12, <2>1, <2>2
  <2>3. CASE nominal # k.nominal
    <3>1. /\ base \in Coordinator /\ base.policy = moved.policy /\ base.failures = moved.failures
          /\ base.auth = moved.auth
          /\ base.disabled = moved.disabled /\ base.recent = moved.recent
          /\ base.cuts = moved.cuts /\ base.used = moved.used
          /\ moved.lost => base.lost
          /\ ~e.present /\ k.nominal = None => base.lost
      <4>1. Resumed(moved, e) \in Coordinator
            /\ Resumed(moved, e) = [moved EXCEPT !.lost = Resumed(moved, e).lost]
            /\ (moved.lost => Resumed(moved, e).lost)
            /\ (~e.present /\ moved.nominal = None => Resumed(moved, e).lost)
        BY <1>6, ResumedIs
      <4>2. moved.nominal = k.nominal
        BY <1>3, <1>6 DEF OnlyMoves
      <4> QED
        BY <1>6, <4>1, <4>2 DEF Coordinator
    <3> HIDE DEF base
    <3>2. CutUsed(base)
      BY <1>1, <1>3, <1>6, <3>1 DEF CutUsed, OnlyMoves
    <3>3. /\ Good(paced) /\ paced.nominal # None /\ paced = [base EXCEPT !.nominal = paced.nominal]
          /\ Good(Rearmed(paced)) /\ Covered(Rearmed(paced))
      BY <1>7, <1>12, <3>1, <3>2, PacedGood
    <3>4. /\ paced \in Coordinator /\ paced.failures = k.failures /\ paced.lost = base.lost
          /\ paced.auth = k.auth /\ paced.disabled = k.disabled /\ paced.recent = k.recent
      <4> HIDE DEF paced
      <4> QED BY <1>3, <1>6, <3>1, <3>3 DEF Good, Coordinator, OnlyMoves
    <3> HIDE DEF paced
    <3>5. /\ Rearmed(paced).failures = k.failures /\ Rearmed(paced).lost = base.lost
          /\ Rearmed(paced).auth = k.auth
          /\ Rearmed(paced).disabled = k.disabled /\ Rearmed(paced).recent = k.recent
      BY <3>4, RearmedIs
    <3>6. k.lost /\ ~e.present => base.lost
      BY <1>2, <1>5, <1>6, <3>1 DEF OnlyMoves
    <3>7. CASE ~Enabled(k)
      <4>1. Applied(k, e) = paced
        BY <2>1, <2>3, <3>4, <3>7 DEF Rearming, Enabled
      <4>2. Follows(k, paced, e)
        BY <3>1, <3>4, <3>6, <3>7 DEF Follows, Keeps, Covered, Scheduled, Enabled
      <4> QED BY <3>3, <4>1, <4>2
    <3>8. CASE Enabled(k)
      <4>1. Applied(k, e) = Rearmed(paced)
        BY <2>1, <2>3, <3>4, <3>8 DEF Rearming, Enabled
      <4>2. Follows(k, Rearmed(paced), e)
        BY <3>1, <3>3, <3>5, <3>6 DEF Follows, Keeps
      <4> QED BY <3>3, <4>1, <4>2
    <3> QED BY <3>7, <3>8
  <2> QED BY <2>2, <2>3
<1> QED
  BY <1>8, <1>9, <1>11, <1>12

LEMMA FollowsOn ==
    ASSUME NEW e, NEW j, NEW k, NEW l, j.nominal # None \/ j.nominal = None,
           Follows(j, k, e), Follows(k, l, e)
    PROVE  Follows(j, l, e)
  BY DEF Follows, Keeps

(* Data that neither the policy nor the timer depends on.                   *)
Noted(k, l) ==
    /\ l \in Coordinator
    /\ l.policy = k.policy /\ l.nominal = k.nominal /\ l.armed = k.armed /\ l.slow = k.slow
    /\ l.cuts = k.cuts /\ l.used = k.used /\ l.failures = k.failures /\ l.lost = k.lost
    /\ l.auth = k.auth /\ l.disabled = k.disabled /\ (l.held = k.held \/ l.held # "none")

LEMMA NotedGood ==
    ASSUME NEW k, Good(k), NEW e, NEW l, Noted(k, l)
    PROVE  Good(l) /\ (l.recent = k.recent => Follows(k, l, e))
<1>1. Good(l)
  BY DEF Good, Paces, CutUsed, Floor, Noted
<1>2. l.recent = k.recent => Follows(k, l, e)
  BY DEF Follows, Keeps, Covered, Scheduled, Enabled, Noted
<1> QED
  BY <1>1, <1>2

(* Its interval set anew, and its timer with it.                            *)
LEMMA PacedFollows ==
    ASSUME NEW k, Good(k), NEW e, k.nominal # None, NEW n \in Base..MaxInterval
    PROVE  /\ Good(Paced(k, n)) /\ Follows(k, Paced(k, n), e)
           /\ Good(Rearmed(Paced(k, n))) /\ Follows(k, Rearmed(Paced(k, n)), e)
<1> DEFINE l == Paced(k, n)
<1>1. k \in Coordinator /\ k.policy \notin Unpolled /\ CutUsed(k)
  BY DEF Good, Paces
<1>2. Good(l) /\ l.nominal # None /\ l = [k EXCEPT !.nominal = l.nominal]
      /\ Good(Rearmed(l)) /\ Covered(Rearmed(l))
  BY <1>1, PacedGood
<1> HIDE DEF l
<1>3. /\ l \in Coordinator /\ l.armed = k.armed /\ l.held = k.held /\ l.lost = k.lost
      /\ l.failures = k.failures /\ l.auth = k.auth
      /\ l.disabled = k.disabled /\ l.recent = k.recent
  BY <1>1, <1>2 DEF Good, Coordinator
<1>4. Follows(k, l, e)
  BY <1>2, <1>3 DEF Follows, Keeps, Covered, Scheduled, Enabled
<1>5. Follows(k, Rearmed(l), e)
  BY <1>2, <1>3, RearmedIs DEF Follows, Keeps
<1> QED
  BY <1>2, <1>4, <1>5 DEF l

LEMMA RestartedGood ==
    ASSUME NEW k, Good(k), NEW e
    PROVE  Good(Restarted(k)) /\ Follows(k, Restarted(k), e)
<1> DEFINE o == [k EXCEPT !.on = 0]
<1>1. Good(o) /\ Follows(k, o, e)
  <2>1. 0 \in Steps
    BY DEF Steps
  <2>2. Noted(k, o) /\ o.recent = k.recent
    BY <2>1 DEF Noted, Coordinator, Good
  <2> QED BY <2>2, NotedGood
<1>2. CASE Scheduled(k)
  <2>1. k \in Coordinator /\ o.nominal = k.nominal /\ k.nominal # None
    BY <1>2 DEF Good, Scheduled, Coordinator
  <2>2. Base \in Base..MaxInterval
    BY <2>1, IntervalBounds
  <2> HIDE DEF o
  <2>3. Good(Rearmed(Paced(o, Base))) /\ Follows(o, Rearmed(Paced(o, Base)), e)
    BY <1>1, <2>1, <2>2, PacedFollows
  <2>4. Follows(k, Rearmed(Paced(o, Base)), e)
    BY <1>1, <2>3, FollowsOn
  <2> QED
    BY <1>1, <2>3, <2>4 DEF Restarted, o
<1>3. CASE ~Scheduled(k)
  BY <1>1, <1>3 DEF Restarted
<1> QED
  BY <1>2, <1>3

LEMMA FlippedGood ==
    ASSUME NEW k, Good(k), NEW e \in Heard, NEW was, NEW schedule \in BOOLEAN
    PROVE  Good(Flipped(k, e, was, schedule)) /\ Follows(k, Flipped(k, e, was, schedule), e)
<1> DEFINE j == [k EXCEPT !.flip = FALSE]
           l == Restarted(Applied(j, e))
           b == schedule /\ was = "off" /\ l.policy = "on"
<1>1. Good(j) /\ Follows(k, j, e)
  <2>1. Noted(k, j) /\ j.recent = k.recent
    BY DEF Noted, Coordinator, Good
  <2> QED BY <2>1, NotedGood
<1> HIDE DEF j
<1>2. Good(Applied(j, e)) /\ Follows(j, Applied(j, e), e)
  BY <1>1, AppliedGood
<1>3. Good(l) /\ Follows(Applied(j, e), l, e)
  BY <1>2, RestartedGood
<1>4. Flipped(k, e, was, schedule) = [l EXCEPT !.flip = b] /\ b \in BOOLEAN
  BY DEF Flipped, j
<1> HIDE DEF l, b
<1>5. Good([l EXCEPT !.flip = b]) /\ Follows(l, [l EXCEPT !.flip = b], e)
  <2>1. Noted(l, [l EXCEPT !.flip = b]) /\ [l EXCEPT !.flip = b].recent = l.recent
    BY <1>3, <1>4 DEF Noted, Coordinator, Good
  <2> QED BY <1>3, <2>1, NotedGood
<1> QED
  BY <1>1, <1>2, <1>3, <1>4, <1>5, FollowsOn

LEMMA LandedGood ==
    ASSUME NEW k, Good(k), NEW e \in Heard
    PROVE  /\ Good(Landed(k, e))
           /\ Follows([k EXCEPT !.recent = TRUE], Landed(k, e), e)
<1> DEFINE i == [k EXCEPT !.recent = TRUE]
           j == [i EXCEPT !.landed = TRUE]
           l == Restarted(Applied(j, e))
           u == [l EXCEPT !.used = TRUE, !.cuts = @ + 1]
           reset == l.failures > 0 /\ ~l.used /\ Scheduled(l) /\ l.nominal > Floored(l, Base)
<1>1. Good(i)
  <2>1. Noted(k, i)
    BY DEF Noted, Coordinator, Good
  <2> QED BY <2>1, NotedGood
<1>2. Good(j) /\ Follows(i, j, e)
  <2> HIDE DEF i
  <2>1. Noted(i, j) /\ j.recent = i.recent
    BY <1>1 DEF Noted, Coordinator, Good
  <2> QED BY <1>1, <2>1, NotedGood
<1>3. Landed(k, e) = IF reset THEN Rearmed(Paced(u, Base)) ELSE l
  BY DEF Landed
<1> HIDE DEF i, j
<1>4. Good(Applied(j, e)) /\ Follows(j, Applied(j, e), e)
  BY <1>2, AppliedGood
<1>5. Good(l) /\ Follows(Applied(j, e), l, e)
  BY <1>4, RestartedGood
<1>6. Follows(i, l, e)
  BY <1>2, <1>4, <1>5, FollowsOn
<1> HIDE DEF l
<1>7. CASE ~reset
  BY <1>3, <1>5, <1>6, <1>7 DEF i
<1>8. CASE reset
  <2>1. l \in Coordinator /\ ~l.used /\ l.cuts = 0 /\ l.nominal # None /\ Paces(l)
    BY <1>5, <1>8 DEF Good, CutUsed, Scheduled, Coordinator
  <2> DEFINE v == [l EXCEPT !.used = TRUE]
  <2>2. v \in Coordinator /\ v.used
    BY <2>1 DEF Coordinator
  <2>3. u = [v EXCEPT !.cuts = 1]
    BY <2>1 DEF Coordinator
  <2>4. /\ u \in Coordinator /\ u.policy = l.policy /\ u.nominal = l.nominal
        /\ u.armed = l.armed /\ u.held = l.held /\ u.slow = l.slow /\ u.used
        /\ u.failures = l.failures /\ u.lost = l.lost /\ u.auth = l.auth
        /\ u.disabled = l.disabled /\ u.recent = l.recent
    <3>1. 1 \in 0..1
      OBVIOUS
    <3>2. /\ v.policy = l.policy /\ v.nominal = l.nominal
          /\ v.armed = l.armed /\ v.held = l.held /\ v.slow = l.slow
          /\ v.failures = l.failures /\ v.lost = l.lost /\ v.auth = l.auth
          /\ v.disabled = l.disabled /\ v.recent = l.recent
      BY <2>1 DEF Coordinator
    <3> HIDE DEF u, v
    <3> QED BY <2>2, <2>3, <3>1, <3>2 DEF Coordinator
  <2> HIDE DEF u
  <2>5. Good(u) /\ Follows(l, u, e)
    BY <2>1, <2>4 DEF Good, Paces, CutUsed, Floor, Follows, Keeps, Covered, Scheduled, Enabled
  <2>6. Base \in Base..MaxInterval
    BY <2>1, IntervalBounds
  <2>7. Good(Rearmed(Paced(u, Base))) /\ Follows(u, Rearmed(Paced(u, Base)), e)
    BY <2>1, <2>4, <2>5, <2>6, PacedFollows
  <2> QED
    BY <1>3, <1>6, <1>8, <2>5, <2>7, FollowsOn DEF i
<1> QED
  BY <1>7, <1>8

-----------------------------------------------------------------------------
(* A poll's outcome.                                                        *)

LEMMA KeepsOn ==
    ASSUME NEW e, NEW j, NEW k, NEW l, Keeps(j, k, e), Keeps(k, l, e)
    PROVE  Keeps(j, l, e)
  BY DEF Keeps

(* The interval after a poll: none for a step that is not polled.           *)
LEMMA OutcomeGood ==
    ASSUME NEW k \in Coordinator, CutUsed(k), NEW e \in Heard, NEW n \in Base..MaxInterval
    PROVE  LET l == IF k.policy \in Unpolled THEN Cleared(k) ELSE Paced(Resumed(k, e), n)
           IN  /\ Good(l) /\ Keeps(k, l, e)
               /\ l.failures = k.failures
<1>1. CASE k.policy \in Unpolled
  BY <1>1, ClearedIs DEF Keeps
<1>2. CASE k.policy \notin Unpolled
  <2> DEFINE r == Resumed(k, e)
             l == Paced(r, n)
  <2>1. /\ r \in Coordinator /\ r = [k EXCEPT !.lost = r.lost]
        /\ k.lost => r.lost
        /\ ~e.present /\ k.nominal = None => r.lost
    BY ResumedIs
  <2> HIDE DEF r
  <2>2. /\ r.policy = k.policy /\ r.cuts = k.cuts /\ r.used = k.used
        /\ r.failures = k.failures /\ r.auth = k.auth
        /\ r.disabled = k.disabled /\ r.recent = k.recent
    BY <2>1 DEF Coordinator
  <2>3. Good(l) /\ l = [r EXCEPT !.nominal = l.nominal]
    BY <1>2, <2>1, <2>2, PacedGood DEF CutUsed
  <2> HIDE DEF l
  <2>4. /\ l.failures = r.failures /\ l.auth = r.auth /\ l.disabled = r.disabled
        /\ l.recent = r.recent /\ l.lost = r.lost
    BY <2>1, <2>3 DEF Coordinator
  <2>5. Keeps(k, l, e)
    BY <2>1, <2>2, <2>4 DEF Keeps
  <2> QED
    BY <1>2, <2>2, <2>3, <2>4, <2>5 DEF l, r
<1> QED
  BY <1>1, <1>2

LEMMA FailedGood ==
    ASSUME NEW k, Good(k), NEW e \in Heard, NEW slow \in BOOLEAN
    PROVE  Good(Failed(k, e, slow)) /\ Keeps(k, Failed(k, e, slow), e)
<1> DEFINE failures == Lesser(AwayAfter, k.failures + 1)
           backoff == IF slow THEN k.backoff ELSE Lesser(Reaching(MaxInterval) + 1, k.backoff + 1)
           slows == IF slow THEN Lesser(SlowMax, k.slow + 1) ELSE k.slow
           counted == [k EXCEPT !.failures = failures, !.backoff = backoff, !.slow = slows]
           moved == MovedTo(counted, Step(counted, e))
           n == FailureInterval(moved)
<1>1. k \in Coordinator /\ CutUsed(k)
  BY DEF Good
<1>2. failures \in Nat /\ (failures < AwayAfter => k.failures < AwayAfter)
  BY <1>1, PolicyAssumption DEF Lesser, Coordinator
<1>3. backoff \in Nat
  <2>1. MaxInterval \in 1..MaxInterval
    BY PolicyAssumption
  <2>2. Reaching(MaxInterval) \in Nat
    BY <2>1, ReachingIsStep DEF Steps
  <2> QED
    BY <1>1, <2>2 DEF Lesser, Coordinator
<1>4. slows \in Steps
  BY <1>1, PolicyAssumption DEF Lesser, Coordinator, Steps
<1>5. Failed(k, e, slow) = IF moved.policy \in Unpolled THEN Cleared(moved)
                           ELSE Paced(Resumed(moved, e), n)
  <2>1. Step(k, e) = Step(counted, e)
    BY <1>1 DEF Step, Enabled, Coordinator
  <2> QED
    BY <2>1 DEF Failed
<1> HIDE DEF failures, backoff, slows
<1>6. /\ counted \in Coordinator /\ counted.failures = failures
      /\ counted.nominal = k.nominal /\ counted.lost = k.lost /\ counted.auth = k.auth
      /\ counted.disabled = k.disabled
      /\ counted.recent = k.recent /\ counted.cuts = k.cuts /\ counted.used = k.used
  BY <1>1, <1>2, <1>3, <1>4 DEF Coordinator
<1> HIDE DEF counted
<1>7. moved \in Coordinator /\ OnlyMoves(counted, moved)
  BY <1>6, MovedToIs
<1> HIDE DEF moved
<1>8. CutUsed(moved)
  BY <1>1, <1>6, <1>7 DEF CutUsed, OnlyMoves
<1>9. n \in Base..MaxInterval
  BY <1>7, IntervalBounds
<1> HIDE DEF n
<1>10. Good(Failed(k, e, slow)) /\ Keeps(moved, Failed(k, e, slow), e)
  BY <1>5, <1>7, <1>8, <1>9, OutcomeGood
<1>11. Keeps(k, moved, e)
  BY <1>2, <1>6, <1>7 DEF Keeps, OnlyMoves
<1> QED
  BY <1>10, <1>11, KeepsOn

LEMMA AbsentGood ==
    ASSUME NEW k, Good(k), NEW e \in Heard
    PROVE  Good(Absent(k, e)) /\ Keeps(k, Absent(k, e), e)
<1> DEFINE j == [k EXCEPT !.skipped = TRUE]
<1>1. Noted(k, j) /\ j.recent = k.recent
  BY DEF Noted, Coordinator, Good
<1>2. Absent(k, e) = Failed(j, e, FALSE)
  BY DEF Absent
<1> HIDE DEF j
<1>3. Good(j) /\ Keeps(k, j, e)
  BY <1>1, NotedGood DEF Follows
<1>4. Good(Failed(j, e, FALSE)) /\ Keeps(j, Failed(j, e, FALSE), e)
  BY <1>3, FailedGood
<1> QED
  BY <1>2, <1>3, <1>4, KeepsOn

LEMMA SucceededGood ==
    ASSUME NEW k, Good(k), NEW e \in Heard, NEW optimistic \in BOOLEAN,
           NEW slow \in BOOLEAN, NEW changed \in BOOLEAN
    PROVE  LET l == Succeeded(k, e, optimistic, slow, changed)
           IN  Good(l) /\ l.failures = 0
<1> DEFINE slows == IF slow THEN Lesser(SlowMax, k.slow + 1) ELSE 0
           recent == k.recent \/ ~optimistic
           read == [k EXCEPT !.recent = recent, !.failures = 0, !.backoff = 0,
                             !.skipped = FALSE, !.used = FALSE, !.lost = FALSE, !.cuts = 0,
                             !.slow = slows]
           moved == MovedTo(read, Step(read, e))
           on == IF changed \/ moved.policy # k.policy THEN 0
                 ELSE IF moved.policy = "on" THEN Lesser(Reaching(OnMax), moved.on + 1)
                 ELSE moved.on
           stepped == [moved EXCEPT !.on = on]
           n == Healthy(stepped)
<1>1. k \in Coordinator
  BY DEF Good
<1>2. slows \in Steps /\ recent \in BOOLEAN
  BY <1>1, PolicyAssumption DEF Lesser, Coordinator, Steps
<1>3. Succeeded(k, e, optimistic, slow, changed) =
        IF moved.policy \in Unpolled THEN Cleared(stepped) ELSE Paced(Resumed(stepped, e), n)
  <2>1. Step(k, e) = Step(read, e)
    BY <1>1 DEF Step, Enabled, Coordinator
  <2> QED
    BY <2>1 DEF Succeeded
<1> HIDE DEF slows, recent
<1>4. read \in Coordinator /\ read.failures = 0 /\ read.cuts = 0
  <2>1. 0 \in 0..1
    OBVIOUS
  <2> QED
    BY <1>1, <1>2, <2>1 DEF Coordinator
<1> HIDE DEF read
<1>5. moved \in Coordinator /\ moved.failures = 0 /\ moved.cuts = 0
  BY <1>4, MovedToIs DEF OnlyMoves
<1> HIDE DEF moved
<1>6. on \in Steps
  <2>1. OnMax \in 1..MaxInterval
    BY PolicyAssumption
  <2>2. Reaching(OnMax) \in Steps
    BY <2>1, ReachingIsStep
  <2> QED
    BY <1>5, <2>2 DEF Lesser, Coordinator, Steps
<1> HIDE DEF on
<1>7. stepped \in Coordinator /\ stepped.failures = 0 /\ stepped.cuts = 0
      /\ stepped.policy = moved.policy
  BY <1>5, <1>6 DEF Coordinator
<1> HIDE DEF stepped
<1>8. n \in Base..MaxInterval
  BY <1>7, IntervalBounds
<1> HIDE DEF n
<1>9. CutUsed(stepped)
  BY <1>7 DEF CutUsed
<1> QED
  BY <1>3, <1>7, <1>8, <1>9, OutcomeGood

LEMMA EndedGood ==
    ASSUME NEW k, Good(k), NEW e
    PROVE  /\ Good(Ended(k)) /\ Covered(Ended(k)) /\ Keeps(k, Ended(k), e)
           /\ Ended(k).failures = k.failures
<1> DEFINE u == [k EXCEPT !.held = "none"]
<1>1. k \in Coordinator /\ Paces(k) /\ CutUsed(k)
  BY DEF Good
<1>2. /\ u \in Coordinator /\ u.policy = k.policy /\ u.nominal = k.nominal
      /\ u.armed = k.armed /\ u.slow = k.slow /\ u.cuts = k.cuts /\ u.used = k.used
      /\ u.failures = k.failures /\ u.lost = k.lost /\ u.auth = k.auth
      /\ u.disabled = k.disabled /\ u.recent = k.recent
  BY <1>1 DEF Coordinator
<1>3. Ended(k) = IF Scheduled(k) THEN Rearmed(u) ELSE u
  BY DEF Ended
<1> HIDE DEF u
<1>4. Floor(u) = Floor(k)
  BY <1>2 DEF Floor
<1>5. CASE ~Scheduled(k)
  BY <1>1, <1>2, <1>3, <1>4, <1>5
  DEF Good, Paces, CutUsed, Covered, Scheduled, Enabled, Keeps
<1>6. CASE Scheduled(k)
  <2>1. Floor(Rearmed(u)) = Floor(u)
    BY <1>2, RearmedIs DEF Floor
  <2> QED
    BY <1>1, <1>2, <1>3, <1>4, <1>6, <2>1, RearmedIs
    DEF Good, Paces, CutUsed, Covered, Scheduled, Keeps
<1> QED
  BY <1>5, <1>6

-----------------------------------------------------------------------------
(* The actions.                                                             *)

Polls == [phase : {"none", "queued", "reading"}, how : {"now", "due", "apart"},
          present : BOOLEAN]
PolicyInv ==
    /\ Good(c) /\ env \in Heard /\ busy \in BOOLEAN /\ poll \in Polls
    /\ poll = Idle => Covered(c)

(* The step StaysAway allows.                                               *)
AwayStep ==
    ~env'.present /\ Available(c', env') =>
       \/ Available(c, env) /\ Scheduled(c)
       \/ c'.recent /\ ~c.recent
       \/ poll.phase = "reading" /\ c'.failures = 0
       \/ c.auth /\ ~c'.auth

LEMMA KeepsAway ==
    ASSUME NEW k, NEW l, NEW e, NEW f, Keeps(k, l, f), ~f.present, Available(l, f)
    PROVE  Available(k, e) /\ Scheduled(k)
  BY DEF Keeps, Available, Scheduled, Enabled

LEMMA KeepsStep ==
    ASSUME Keeps(c, c', env')
    PROVE  AwayStep
  BY KeepsAway DEF AwayStep

LEMMA StartSteps ==
    ASSUME PolicyInv, NEW k, Good(k), NEW how \in {"now", "due", "apart"}, Start(k, how),
           k.nominal = c.nominal, k.lost = c.lost, k.failures = c.failures,
           k.auth = c.auth, k.disabled = c.disabled, k.recent = c.recent, env' = env
    PROVE  Good(c') /\ poll' \in Polls /\ (poll' = Idle => Covered(c')) /\ AwayStep
<1> DEFINE begun == [k EXCEPT !.auth = FALSE, !.armed = FALSE, !.held = "none"]
<1>1. k \in Coordinator /\ Paces(k) /\ CutUsed(k) /\ env \in Heard
  BY DEF Good, PolicyInv
<1>2. /\ begun \in Coordinator /\ begun.policy = k.policy /\ begun.nominal = k.nominal
      /\ ~begun.armed /\ begun.slow = k.slow /\ begun.cuts = k.cuts /\ begun.used = k.used
      /\ begun.failures = k.failures /\ begun.lost = k.lost /\ ~begun.auth
      /\ begun.disabled = k.disabled /\ begun.recent = k.recent
  BY <1>1 DEF Coordinator
<1>3. \/ c' = begun /\ poll' = [Idle EXCEPT !.phase = "queued", !.how = how]
      \/ c' = Ended(Absent(begun, env)) /\ poll' = Idle
  BY DEF Start
<1> HIDE DEF begun
<1>4. Good(begun)
  BY <1>1, <1>2 DEF Good, Paces, CutUsed, Floor
<1>5. Good(c') /\ Keeps(begun, c', env)
  <2>1. CASE c' = begun
    BY <1>4, <2>1 DEF Keeps
  <2>2. CASE c' = Ended(Absent(begun, env))
    <3>1. Good(Absent(begun, env)) /\ Keeps(begun, Absent(begun, env), env)
      BY <1>1, <1>4, AbsentGood
    <3>2. Good(Ended(Absent(begun, env)))
          /\ Keeps(Absent(begun, env), Ended(Absent(begun, env)), env)
      BY <3>1, EndedGood
    <3> QED BY <2>2, <3>1, <3>2, KeepsOn
  <2> QED BY <1>3, <2>1, <2>2
<1>6. poll' \in Polls /\ (poll' = Idle => Covered(c'))
  <2>1. CASE poll' = [Idle EXCEPT !.phase = "queued", !.how = how]
    BY <2>1 DEF Idle, Polls
  <2>2. CASE poll' = Idle /\ c' = Ended(Absent(begun, env))
    BY <1>1, <1>4, <2>2, AbsentGood, EndedGood DEF Idle, Polls
  <2> QED BY <1>3, <2>1, <2>2
<1>7. AwayStep
  <2>1. CASE c.auth
    BY <1>2, <1>5, <2>1 DEF AwayStep, Keeps
  <2>2. CASE ~c.auth
    <3>1. c.auth \in BOOLEAN /\ begun.auth \in BOOLEAN
      BY <1>2 DEF PolicyInv, Good, Coordinator
    <3>2. Keeps(c, begun, env)
      BY <1>2, <2>2, <3>1 DEF Keeps
    <3>3. Keeps(c, c', env')
      BY <1>5, <3>2, KeepsOn
    <3> QED BY <3>3, KeepsStep
  <2> QED BY <2>1, <2>2
<1> QED
  BY <1>5, <1>6, <1>7

LEMMA DueSteps ==
    ASSUME PolicyInv, Due
    PROVE  PolicyInv' /\ AwayStep
<1> DEFINE fired == [c EXCEPT !.armed = FALSE]
           held == IF c.held = "apart" THEN "apart" ELSE "due"
<1>1. c \in Coordinator /\ Paces(c) /\ CutUsed(c)
  BY DEF PolicyInv, Good
<1>2. UNCHANGED <<env, busy>>
  BY DEF Due
<1>3. /\ fired \in Coordinator /\ fired.policy = c.policy /\ fired.nominal = c.nominal
      /\ ~fired.armed /\ fired.slow = c.slow /\ fired.cuts = c.cuts /\ fired.used = c.used
      /\ fired.failures = c.failures /\ fired.lost = c.lost /\ fired.auth = c.auth
      /\ fired.disabled = c.disabled
      /\ fired.recent = c.recent /\ fired.held = c.held
  BY <1>1 DEF Coordinator
<1>4. \/ c' = fired /\ UNCHANGED poll /\ poll # Idle
      \/ c' = [fired EXCEPT !.held = held] /\ UNCHANGED poll
      \/ Start(fired, "due")
  BY <1>3 DEF Due
<1> HIDE DEF fired
<1>5. Good(fired) /\ Keeps(c, fired, env)
  BY <1>1, <1>3 DEF Good, Paces, CutUsed, Floor, Keeps
<1>6. CASE c' = fired /\ UNCHANGED poll /\ poll # Idle
  BY <1>2, <1>5, <1>6, KeepsStep DEF PolicyInv
<1>7. CASE c' = [fired EXCEPT !.held = held] /\ UNCHANGED poll
  <2>1. Noted(fired, c') /\ c'.recent = fired.recent /\ c'.held # "none"
    BY <1>3, <1>7 DEF Noted, Coordinator
  <2>2. Good(c') /\ Keeps(fired, c', env) /\ Covered(c')
    BY <1>5, <2>1, NotedGood DEF Follows, Covered
  <2>3. Keeps(c, c', env')
    BY <1>2, <1>5, <2>2, KeepsOn
  <2> QED
    BY <1>2, <1>7, <2>2, <2>3, KeepsStep DEF PolicyInv
<1>8. CASE Start(fired, "due")
  <2>1. Good(c') /\ poll' \in Polls /\ (poll' = Idle => Covered(c')) /\ AwayStep
    BY <1>2, <1>3, <1>5, <1>8, StartSteps
  <2> QED
    BY <1>2, <2>1 DEF PolicyInv
<1> QED
  BY <1>4, <1>6, <1>7, <1>8

LEMMA ReleaseSteps ==
    ASSUME PolicyInv, Release \/ Manual
    PROVE  PolicyInv' /\ AwayStep
<1>1. UNCHANGED <<env, busy>> /\ Good(c)
  BY DEF Release, Manual, PolicyInv
<1>2. PICK how \in {"now", "due", "apart"} : Start(c, how)
  BY DEF Release, Manual, PolicyInv, Good, Coordinator
<1>3. Good(c') /\ poll' \in Polls /\ (poll' = Idle => Covered(c')) /\ AwayStep
  BY <1>1, <1>2, StartSteps
<1> QED
  BY <1>1, <1>3 DEF PolicyInv

LEMMA AdmitSteps ==
    ASSUME PolicyInv, Admit
    PROVE  PolicyInv' /\ AwayStep
<1> DEFINE held == IF c.held = "apart" THEN "apart" ELSE poll.how
<1>1. UNCHANGED <<env, busy>> /\ Good(c) /\ env \in Heard /\ poll \in Polls
  BY DEF Admit, PolicyInv
<1>2. CASE /\ poll.how # "now" /\ poll' = Idle
           /\ c' = [Ended(c) EXCEPT !.held = held]
  <2>1. Good(Ended(c)) /\ Keeps(c, Ended(c), env)
    BY <1>1, EndedGood
  <2>2. held \in {"due", "apart"}
    BY <1>1, <1>2 DEF Polls
  <2> HIDE DEF held
  <2>3. Noted(Ended(c), c') /\ c'.recent = Ended(c).recent /\ c'.held # "none"
    BY <1>2, <2>1, <2>2 DEF Noted, Coordinator, Good
  <2>4. Good(c') /\ Keeps(Ended(c), c', env) /\ Covered(c')
    BY <2>1, <2>3, NotedGood DEF Follows, Covered
  <2>5. Keeps(c, c', env')
    BY <1>1, <2>1, <2>4, KeepsOn
  <2>6. poll' \in Polls
    BY <1>2 DEF Idle, Polls
  <2> QED
    BY <1>1, <2>4, <2>5, <2>6, KeepsStep DEF PolicyInv
<1>3. CASE poll' = [poll EXCEPT !.phase = "reading", !.present = env.present] /\ UNCHANGED c
  <2>1. poll' \in Polls /\ poll' # Idle
    BY <1>1, <1>3 DEF Polls, Idle, Heard
  <2>2. Keeps(c, c', env')
    BY <1>3 DEF Keeps
  <2> QED
    BY <1>1, <1>3, <2>1, <2>2, KeepsStep DEF PolicyInv
<1>4. CASE poll' = Idle /\ c' = Ended(Absent(c, env))
  <2>1. Good(Absent(c, env)) /\ Keeps(c, Absent(c, env), env)
    BY <1>1, AbsentGood
  <2>2. Good(c') /\ Covered(c') /\ Keeps(Absent(c, env), c', env)
    BY <1>4, <2>1, EndedGood
  <2>3. Keeps(c, c', env')
    BY <1>1, <2>1, <2>2, KeepsOn
  <2>4. poll' \in Polls
    BY <1>4 DEF Idle, Polls
  <2> QED
    BY <1>1, <2>2, <2>3, <2>4, KeepsStep DEF PolicyInv
<1> QED
  BY <1>2, <1>3, <1>4 DEF Admit

LEMMA ReadSteps ==
    ASSUME PolicyInv, Read
    PROVE  PolicyInv' /\ AwayStep
<1>1. /\ poll.phase = "reading" /\ poll' = Idle /\ UNCHANGED busy
      /\ Good(c) /\ env \in Heard /\ poll' \in Polls
  BY DEF Read, PolicyInv, Idle, Polls
<1>2. ASSUME NEW power \in {env.power, "on", "off"}, NEW optimistic \in BOOLEAN,
             NEW slow \in BOOLEAN, NEW changed \in BOOLEAN, env' = [env EXCEPT !.power = power],
             c' = Ended(Succeeded(c, env', optimistic, slow, changed))
      PROVE  PolicyInv' /\ AwayStep
  <2>1. env' \in Heard
    BY <1>1, <1>2 DEF Heard
  <2>2. /\ Good(Succeeded(c, env', optimistic, slow, changed))
        /\ Succeeded(c, env', optimistic, slow, changed).failures = 0
    BY <1>1, <2>1, SucceededGood
  <2>3. Good(c') /\ Covered(c') /\ c'.failures = 0
    BY <1>2, <2>2, EndedGood
  <2> QED
    BY <1>1, <2>1, <2>3 DEF PolicyInv, AwayStep
<1>3. ASSUME NEW l, c' = Ended(l), Good(l), Keeps(c, l, env), UNCHANGED env
      PROVE  PolicyInv' /\ AwayStep
  <2>1. Good(c') /\ Covered(c') /\ Keeps(l, c', env)
    BY <1>3, EndedGood
  <2>2. Keeps(c, c', env')
    BY <1>3, <2>1, KeepsOn
  <2> QED
    BY <1>1, <1>3, <2>1, <2>2, KeepsStep DEF PolicyInv
<1>4. ASSUME NEW slow \in BOOLEAN, c' = Ended(Failed(c, env, slow)), UNCHANGED env
      PROVE  PolicyInv' /\ AwayStep
  BY <1>1, <1>3, <1>4, FailedGood
<1>5. CASE c' = Ended(Absent(c, env)) /\ UNCHANGED env
  BY <1>1, <1>3, <1>5, AbsentGood
<1>6. CASE c' = Ended([c EXCEPT !.auth = TRUE]) /\ UNCHANGED env
  <2> DEFINE l == [c EXCEPT !.auth = TRUE]
  <2>1. l \in Coordinator /\ l.auth
    BY <1>1 DEF Good, Coordinator
  <2>2. Good(l)
    BY <1>1, <2>1 DEF Good, Paces, CutUsed, Floor, Coordinator
  <2> HIDE DEF l
  <2>3. Good(Ended(l)) /\ Covered(Ended(l)) /\ Keeps(l, Ended(l), env)
    BY <2>2, EndedGood
  <2>4. c' = Ended(l)
    BY <1>6 DEF l
  <2>5. c'.auth
    BY <2>1, <2>3, <2>4 DEF Keeps
  <2>6. AwayStep
    BY <2>5 DEF AwayStep, Available, Scheduled, Enabled
  <2> QED
    BY <1>1, <1>6, <2>3, <2>4, <2>6 DEF PolicyInv
<1> QED
  BY <1>2, <1>4, <1>5, <1>6 DEF Read

(* A step that the coordinator follows beside the polls.                    *)
LEMMA BesideSteps ==
    ASSUME PolicyInv, Good(c'), Follows(c, c', env'), env' \in Heard, busy' \in BOOLEAN,
           UNCHANGED poll
    PROVE  PolicyInv' /\ AwayStep
<1>1. AwayStep
  BY KeepsStep DEF Follows
<1> QED
  BY <1>1 DEF PolicyInv, Follows

LEMMA EndCommandSteps ==
    ASSUME PolicyInv, EndCommand
    PROVE  PolicyInv' /\ AwayStep
<1>1. UNCHANGED poll /\ busy' = FALSE /\ Good(c) /\ c \in Coordinator /\ env \in Heard
  BY DEF EndCommand, PolicyInv, Good
<1>2. ASSUME NEW power \in {env.power, "on", "off"}, env' = [env EXCEPT !.power = power],
             c' = Applied(Landed(c, env'), env')
      PROVE  PolicyInv' /\ AwayStep
  <2> DEFINE i == [c EXCEPT !.recent = TRUE]
             l == Landed(c, env')
  <2>1. env' \in Heard
    BY <1>1, <1>2 DEF Heard
  <2>2. Good(l) /\ Follows(i, l, env')
    BY <1>1, <2>1, LandedGood
  <2> HIDE DEF l
  <2>3. Good(c') /\ Follows(l, c', env')
    BY <1>2, <2>1, <2>2, AppliedGood DEF l
  <2>4. /\ i.nominal = c.nominal /\ i.lost = c.lost /\ i.failures = c.failures
        /\ i.auth = c.auth
        /\ i.disabled = c.disabled /\ i.armed = c.armed /\ i.held = c.held /\ i.recent
    BY <1>1 DEF Coordinator
  <2> HIDE DEF i
  <2>5. Keeps(i, c', env') /\ (Covered(i) => Covered(c'))
    BY <2>2, <2>3, KeepsOn DEF Follows
  <2>6. CASE c.recent
    <3>1. c.recent = i.recent
      BY <1>1, <2>4, <2>6 DEF i, Coordinator
    <3>2. Follows(c, c', env')
      BY <2>4, <2>5, <3>1 DEF Follows, Keeps, Covered, Scheduled, Enabled
    <3> QED
      BY <1>1, <2>1, <2>3, <3>2, BesideSteps
  <2>7. CASE ~c.recent
    <3>1. c'.recent
      BY <2>4, <2>5 DEF Keeps
    <3>2. AwayStep
      BY <2>7, <3>1 DEF AwayStep
    <3>3. Covered(c) => Covered(c')
      BY <2>4, <2>5 DEF Covered, Scheduled, Enabled
    <3> QED
      BY <1>1, <2>1, <2>3, <3>2, <3>3 DEF PolicyInv
  <2> QED
    BY <2>6, <2>7
<1>3. CASE c' = Applied(c, env) /\ UNCHANGED env
  <2>1. Good(c') /\ Follows(c, c', env')
    BY <1>1, <1>3, AppliedGood
  <2> QED
    BY <1>1, <1>3, <2>1, BesideSteps
<1> QED
  BY <1>2, <1>3 DEF EndCommand

LEMMA HearSteps ==
    ASSUME PolicyInv, Hear
    PROVE  PolicyInv' /\ AwayStep
<1>1. PICK connectable \in BOOLEAN, power \in {env.power, "on", "off"}, fresh \in BOOLEAN :
        LET e == [present |-> env.present \/ connectable, fresh |-> fresh, power |-> power]
            back == c.skipped /\ e.present
            asked == [c EXCEPT !.skipped = FALSE, !.held = "apart"]
            k == IF ~back THEN c ELSE IF c.policy \in Unpolled THEN asked ELSE Paced(asked, Base)
            flipped == power # env.power
        IN  /\ env' = e
            /\ c' = IF flipped THEN Applied(Flipped(k, e, env.power, ~back), e)
                    ELSE Applied(k, e)
            /\ UNCHANGED <<poll, busy>>
  BY DEF Hear
<1> DEFINE e == [present |-> env.present \/ connectable, fresh |-> fresh, power |-> power]
           back == c.skipped /\ e.present
           asked == [c EXCEPT !.skipped = FALSE, !.held = "apart"]
           k == IF ~back THEN c ELSE IF c.policy \in Unpolled THEN asked ELSE Paced(asked, Base)
<1>2. Good(c) /\ c \in Coordinator /\ e \in Heard /\ back \in BOOLEAN /\ env \in Heard
  BY DEF PolicyInv, Good, Heard, Coordinator
<1>3. env' = e /\ UNCHANGED <<poll, busy>>
  BY <1>1
<1>4. c' = IF power # env.power THEN Applied(Flipped(k, e, env.power, ~back), e)
           ELSE Applied(k, e)
  BY <1>1
<1> HIDE DEF e, back
<1>5. Noted(c, asked) /\ asked.recent = c.recent /\ asked.policy = c.policy
  BY <1>2 DEF Noted, Coordinator
<1> HIDE DEF asked
<1>6. Good(asked) /\ Follows(c, asked, e)
  BY <1>2, <1>5, NotedGood
<1>7. ASSUME c.policy \notin Unpolled
      PROVE  Good(Paced(asked, Base)) /\ Follows(c, Paced(asked, Base), e)
  <2>1. Base \in Base..MaxInterval /\ asked.nominal # None
    BY <1>2, <1>5, <1>7, IntervalBounds DEF Good, Paces, Noted
  <2>2. Good(Paced(asked, Base)) /\ Follows(asked, Paced(asked, Base), e)
    BY <1>6, <2>1, PacedFollows
  <2> QED
    BY <1>6, <2>2, FollowsOn, <1>2 DEF Good
<1>8. Good(k) /\ Follows(c, k, e)
  <2>1. Follows(c, c, e)
    BY DEF Follows, Keeps
  <2> QED
    BY <1>2, <1>6, <1>7, <2>1
<1> HIDE DEF k
<1>9. Good(c') /\ Follows(k, c', e)
  <2>1. CASE power # env.power
    <3> DEFINE l == Flipped(k, e, env.power, ~back)
    <3>1. Good(l) /\ Follows(k, l, e)
      BY <1>2, <1>8, FlippedGood
    <3>2. c' = Applied(l, e)
      BY <1>4, <2>1
    <3> HIDE DEF l
    <3>3. Good(c') /\ Follows(l, c', e)
      BY <1>2, <3>1, <3>2, AppliedGood
    <3> QED
      BY <3>1, <3>3, FollowsOn
  <2>2. CASE power = env.power
    BY <1>2, <1>4, <1>8, <2>2, AppliedGood
  <2> QED BY <2>1, <2>2
<1>10. Follows(c, c', env')
  BY <1>3, <1>8, <1>9, FollowsOn
<1> QED
  BY <1>2, <1>3, <1>9, <1>10, BesideSteps DEF PolicyInv

LEMMA TickSteps ==
    ASSUME PolicyInv, Tick
    PROVE  PolicyInv' /\ AwayStep
<1>1. PICK power \in {env.power, "on", "off"} :
        LET e == [env EXCEPT !.power = power]
        IN  /\ env' = e
            /\ c' = IF power = env.power THEN Applied(c, e)
                    ELSE Applied(Flipped(c, e, env.power, TRUE), e)
  BY DEF Tick
<1> DEFINE e == [env EXCEPT !.power = power]
<1>2. Good(c) /\ e \in Heard /\ UNCHANGED <<poll, busy>> /\ env' = e
  BY <1>1 DEF PolicyInv, Heard, Tick
<1>3. c' = IF power = env.power THEN Applied(c, e)
           ELSE Applied(Flipped(c, e, env.power, TRUE), e)
  BY <1>1
<1> HIDE DEF e
<1>4. Good(c') /\ Follows(c, c', e)
  <2>1. CASE power = env.power
    BY <1>2, <1>3, <2>1, AppliedGood
  <2>2. CASE power # env.power
    <3> DEFINE l == Flipped(c, e, env.power, TRUE)
    <3>1. Good(l) /\ Follows(c, l, e)
      BY <1>2, FlippedGood
    <3>2. c' = Applied(l, e)
      BY <1>3, <2>2
    <3> HIDE DEF l
    <3>3. Good(c') /\ Follows(l, c', e)
      BY <1>2, <3>1, <3>2, AppliedGood
    <3> QED
      BY <3>1, <3>3, FollowsOn
  <2> QED BY <2>1, <2>2
<1> QED
  BY <1>2, <1>4, BesideSteps DEF PolicyInv

LEMMA FlipDueSteps ==
    ASSUME PolicyInv, FlipDue
    PROVE  PolicyInv' /\ AwayStep
<1> DEFINE held == IF Enabled(c) /\ c.held = "none" THEN "due" ELSE c.held
<1>1. /\ c' = [c EXCEPT !.flip = FALSE, !.held = held] /\ UNCHANGED <<env, poll, busy>>
      /\ Good(c) /\ c \in Coordinator
  BY DEF FlipDue, PolicyInv, Good
<1>2. held \in {"none", "due", "apart"} /\ (held = c.held \/ held # "none")
  BY <1>1 DEF Coordinator
<1> HIDE DEF held
<1>3. Noted(c, c') /\ c'.recent = c.recent
  BY <1>1, <1>2 DEF Noted, Coordinator
<1>4. Good(c') /\ Follows(c, c', env')
  BY <1>1, <1>3, NotedGood
<1> QED
  BY <1>1, <1>4, BesideSteps DEF PolicyInv

LEMMA LoseSteps ==
    ASSUME PolicyInv, Lose
    PROVE  PolicyInv' /\ AwayStep
<1>1. PICK recent \in {c.recent, TRUE} : c' = Applied([c EXCEPT !.recent = recent], env')
  BY DEF Lose
<1> DEFINE i == [c EXCEPT !.recent = recent]
<1>2. /\ Good(c) /\ c \in Coordinator /\ env' \in Heard /\ UNCHANGED <<poll, busy>>
      /\ c' = Applied(i, env')
  BY <1>1 DEF Lose, PolicyInv, Good, Heard
<1>3. Noted(c, i) /\ i.held = c.held /\ i.recent = recent
  BY <1>2 DEF Noted, Coordinator
<1> HIDE DEF i
<1>4. Good(i)
  BY <1>2, <1>3, NotedGood
<1>5. Good(c') /\ Follows(i, c', env')
  BY <1>2, <1>4, AppliedGood
<1>6. CASE recent = c.recent
  <2>1. Follows(c, i, env')
    BY <1>2, <1>3, <1>6, NotedGood
  <2>2. Follows(c, c', env')
    BY <1>5, <2>1, FollowsOn
  <2> QED
    BY <1>2, <1>5, <2>2, BesideSteps DEF PolicyInv
<1>7. CASE recent # c.recent
  <2>1. c'.recent /\ ~c.recent
    BY <1>2, <1>3, <1>5, <1>7 DEF Follows, Keeps, Coordinator
  <2>2. Covered(c) => Covered(c')
    BY <1>3, <1>5 DEF Follows, Covered, Scheduled, Enabled, Noted
  <2> QED
    BY <1>2, <1>5, <2>1, <2>2 DEF PolicyInv, AwayStep
<1> QED
  BY <1>6, <1>7

LEMMA LapseSteps ==
    ASSUME PolicyInv, Lapse
    PROVE  PolicyInv' /\ AwayStep
<1>1. /\ Good(c) /\ c \in Coordinator /\ UNCHANGED <<poll, busy>> /\ env \in Heard
  BY DEF Lapse, PolicyInv, Good
<1>2. CASE env' = [env EXCEPT !.fresh = FALSE] /\ UNCHANGED c
  <2>1. env' \in Heard /\ Follows(c, c', env')
    BY <1>1, <1>2 DEF Heard, Follows, Keeps
  <2> QED
    BY <1>1, <1>2, <2>1, BesideSteps DEF PolicyInv
<1>3. CASE c' = [c EXCEPT !.recent = FALSE] /\ UNCHANGED env
  <2>1. Noted(c, c') /\ c'.held = c.held /\ ~c'.recent
    BY <1>1, <1>3 DEF Noted, Coordinator
  <2>2. Good(c')
    BY <1>1, <2>1, NotedGood
  <2>3. Covered(c) => Covered(c')
    BY <2>1 DEF Covered, Scheduled, Enabled, Noted
  <2>4. AwayStep
    BY <2>1 DEF AwayStep, Available
  <2> QED
    BY <1>1, <1>3, <2>2, <2>3, <2>4 DEF PolicyInv
<1>4. CASE c' = [c EXCEPT !.landed = FALSE] /\ UNCHANGED env
  <2>1. Noted(c, c') /\ c'.recent = c.recent
    BY <1>1, <1>4 DEF Noted, Coordinator
  <2>2. Good(c') /\ Follows(c, c', env')
    BY <1>1, <2>1, NotedGood
  <2> QED
    BY <1>1, <1>4, <2>2, BesideSteps DEF PolicyInv
<1> QED
  BY <1>2, <1>3, <1>4 DEF Lapse

-----------------------------------------------------------------------------
(* The properties.                                                          *)

LEMMA InitPolicy == PolicyInit => PolicyInv
<1> SUFFICES ASSUME PolicyInit PROVE PolicyInv
  OBVIOUS
<1>1. 0 \in Steps /\ 0 \in 0..1 /\ Base \in Nat \ {0} /\ MaxInterval \in Nat /\ Base <= MaxInterval
  BY PolicyAssumption DEF Steps
<1>2. c \in Coordinator
  BY <1>1 DEF PolicyInit, Coordinator
<1>3. /\ c.policy = "fixed" /\ c.nominal = Base /\ c.slow = 0 /\ c.cuts = 0
      /\ c.armed = ~c.disabled
  BY DEF PolicyInit
<1>4. Paces(c) /\ CutUsed(c) /\ Covered(c)
  BY <1>1, <1>2, <1>3
  DEF Paces, CutUsed, Covered, Scheduled, Enabled, Floor, Greater, None, Unpolled, Coordinator
<1> QED
  BY <1>2, <1>4 DEF PolicyInit, PolicyInv, Good, Heard, Polls, Idle

LEMMA PolicySteps == PolicyInv /\ [PolicyNext]_vars => PolicyInv' /\ [AwayStep]_vars
<1> SUFFICES ASSUME PolicyInv, [PolicyNext]_vars PROVE PolicyInv' /\ [AwayStep]_vars
  OBVIOUS
<1>1. CASE StartCommand
  <2>1. UNCHANGED <<c, env, poll>> /\ busy' = TRUE
    BY <1>1 DEF StartCommand
  <2>2. AwayStep
    BY <2>1, KeepsStep DEF Keeps
  <2> QED
    BY <2>1, <2>2 DEF PolicyInv
<1>2. CASE UNCHANGED vars
  BY <1>2 DEF PolicyInv, vars
<1> QED
  BY <1>1, <1>2, DueSteps, ReleaseSteps, AdmitSteps, ReadSteps, EndCommandSteps, HearSteps,
     FlipDueSteps, TickSteps, LoseSteps, LapseSteps DEF PolicyNext

(* A scheduled device is polled again in time, at an interval between its   *)
(* floor and the cap, and no timer polls one whose policy does not.         *)
THEOREM ScheduledPolled == PolicySpec => []PolledInTime
<1>1. PolicyInv => PolledInTime
  BY DEF PolicyInv, Good, Paces, Covered, PolledInTime
<1> QED
  BY <1>1, InitPolicy, PolicySteps, PTL DEF PolicySpec

(* A streak's backoff is cut short once.                                    *)
THEOREM OneCut == PolicySpec => []CutOnce
<1>1. PolicyInv => CutOnce
  BY DEF PolicyInv, Good, Coordinator, CutOnce
<1> QED
  BY <1>1, InitPolicy, PolicySteps, PTL DEF PolicySpec

(* An absent, unavailable device stays so through polls that resume.        *)
THEOREM AbsentUnavailable == PolicySpec => StaysAway
<1>1. PolicySpec => [][AwayStep]_vars
  BY InitPolicy, PolicySteps, PTL DEF PolicySpec
<1> QED
  BY <1>1 DEF AwayStep, StaysAway

=============================================================================
