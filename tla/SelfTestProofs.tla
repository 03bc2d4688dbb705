--------------------------- MODULE SelfTestProofs ---------------------------
(***************************************************************************)
(* A capture gives the library's logger back as the user wants it; the link *)
(* closes under no test but one it waited for, or that began late; and a    *)
(* test leaves its device as it was, save for what could not be put back:   *)
(* for any devices, zones and levels.                                       *)
(***************************************************************************)
EXTENDS SelfTest, SequenceTheorems, WellFoundedInduction, TLAPS

-----------------------------------------------------------------------------
(* The inductive invariant.                                                 *)

(* The tests and the logger keep the fields they have; what a test's steps  *)
(* are matters to neither property.                                         *)
TestShape(t) ==
    t = [phase |-> t.phase, todo |-> t.todo, failed |-> t.failed, late |-> t.late,
         cut |-> t.cut, snap |-> t.snap]
KeptShape(k) == k = [level |-> k.level, pinned |-> k.pinned, propagate |-> k.propagate]
LoggerShape(l) ==
    /\ l = [level |-> l.level, pinned |-> l.pinned, propagate |-> l.propagate,
            capturing |-> l.capturing, kept |-> l.kept, wanted |-> l.wanted]
    /\ KeptShape(l.kept)
    /\ {l.pinned, l.propagate, l.capturing, l.kept.pinned, l.kept.propagate} \subseteq BOOLEAN
Shape ==
    /\ test = [d \in Devices |-> test[d]] /\ \A d \in Devices : TestShape(test[d])
    /\ LoggerShape(logger)
    /\ tracked = [d \in Devices |-> tracked[d]]
    /\ entry = [d \in Devices |-> entry[d]]

(* One test at most is active, and the capture is its.                      *)
OneTest ==
    /\ \A d \in Devices : Active(d) => lock = {d}
    /\ logger.capturing <=> lock # {}

(* The level a capture that ends now leaves.                                *)
Left(l) == IF l.level = "debug" /\ (l.kept.pinned \/ ~l.pinned) THEN l.kept.level ELSE l.level
LoggerReturns ==
    IF lock = {} THEN logger.propagate /\ logger.level = logger.wanted
    ELSE logger.kept.propagate /\ Left(logger) = logger.wanted

(* A test whose link is open is the one tracked, unless it began late; none *)
(* outlives the link with its link open.                                    *)
Tracked ==
    \A d \in Devices : Active(d) /\ ~test[d].cut =>
        /\ tracked[d] = "running" \/ test[d].late
        /\ entry[d] \notin {"closed", "stopped"}

SelfInv == Shape /\ OneTest /\ LoggerReturns /\ Tracked

-----------------------------------------------------------------------------
(* Records of tests.                                                        *)
LEMMA NoTestIs == TestShape(NoTest) /\ NoTest.phase = "none" /\ ~NoTest.cut
<1> DEFINE snap == [known |-> {}, was |-> [lit |-> All(FALSE), paint |-> All("own")],
                    read |-> FALSE]
<1>1. NoTest = [phase |-> "none", todo |-> <<>>, failed |-> {}, late |-> FALSE,
                cut |-> FALSE, snap |-> snap]
  BY Zenon DEF NoTest
<1> HIDE DEF snap
<1> QED
  BY <1>1 DEF TestShape

LEMMA PhaseSet ==
    ASSUME NEW t, TestShape(t), NEW phase
    PROVE  LET u == [t EXCEPT !.phase = phase]
           IN  TestShape(u) /\ u.phase = phase /\ u.cut = t.cut /\ u.late = t.late
  BY DEF TestShape
LEMMA OthersSet ==
    ASSUME NEW t, TestShape(t), NEW x
    PROVE  /\ \A u \in {[t EXCEPT !.todo = x], [t EXCEPT !.failed = x], [t EXCEPT !.snap = x]} :
                 TestShape(u) /\ u.phase = t.phase /\ u.cut = t.cut /\ u.late = t.late
           /\ LET u == [t EXCEPT !.late = x]
              IN  TestShape(u) /\ u.phase = t.phase /\ u.cut = t.cut
  BY DEF TestShape

LEMMA SelfInitially == TestInit => SelfInv
<1> SUFFICES ASSUME TestInit PROVE SelfInv
  OBVIOUS
<1>1. \A d \in Devices : test[d] = NoTest /\ ~Active(d)
  BY NoTestIs DEF TestInit, Active
<1>2. LoggerShape(logger) /\ ~logger.capturing /\ logger.propagate
      /\ logger.level = logger.wanted
  BY DEF TestInit, LoggerShape, KeptShape, Unkept
<1>3. Shape
  BY <1>1, <1>2, NoTestIs DEF TestInit, Shape
<1> QED
  BY <1>1, <1>2, <1>3 DEF TestInit, SelfInv, OneTest, LoggerReturns, Tracked

(* A step of a test that neither begins nor ends it.                        *)
LEMMA TestGoesOn ==
    ASSUME SelfInv, NEW d \in Devices, NEW t,
           TestShape(t), test' = [test EXCEPT ![d] = t],
           t.cut = test[d].cut, t.late = test[d].late,
           Active(d), UNCHANGED <<lock, tracked, entry, logger>>
    PROVE  SelfInv'
<1>1. \A e \in Devices : test'[e] = IF e = d THEN t ELSE test[e]
  BY DEF SelfInv, Shape
<1>2. Shape'
  BY <1>1 DEF SelfInv, Shape
<1>3. OneTest' /\ LoggerReturns'
  BY <1>1 DEF SelfInv, OneTest, Active, LoggerReturns, Left
<1>4. Tracked'
  BY <1>1 DEF SelfInv, Tracked, Active
<1> QED
  BY <1>2, <1>3, <1>4 DEF SelfInv

(* The capture begins with a test and ends with it.                         *)
LEMMA CaptureBegins ==
    ASSUME SelfInv, lock = {}, logger' = Captured(logger), lock' # {}
    PROVE  LoggerShape(logger') /\ logger'.capturing /\ LoggerReturns'
  BY DEF SelfInv, Shape, LoggerShape, KeptShape, Captured, LoggerReturns, Left

LEMMA CaptureEnds ==
    ASSUME SelfInv, lock # {}, logger' = Released(logger), lock' = {}
    PROVE  LoggerShape(logger') /\ ~logger'.capturing /\ LoggerReturns'
  BY DEF SelfInv, Shape, LoggerShape, KeptShape, Released, Unkept, LoggerReturns, Left

LEMMA LevelSet ==
    ASSUME SelfInv, NEW level \in Levels, SetLevel(level)
    PROVE  SelfInv'
<1>1. LoggerShape(logger') /\ logger'.capturing = logger.capturing
  BY DEF SelfInv, Shape, LoggerShape, KeptShape, SetLevel
<1>2. Shape' /\ OneTest' /\ Tracked'
  BY <1>1 DEF SelfInv, Shape, OneTest, Tracked, Active, SetLevel
<1>3. LoggerReturns'
  BY DEF SelfInv, Shape, LoggerShape, KeptShape, OneTest, LoggerReturns, Left, SetLevel
<1> QED
  BY <1>2, <1>3 DEF SelfInv

LEMMA TestEnds ==
    ASSUME SelfInv, NEW d \in Devices, NEW t, TestShape(t),
           t.phase \notin {"read", "exercise", "restore"}, Active(d), Ends(d, t)
    PROVE  SelfInv'
<1>1. \A e \in Devices : test'[e] = IF e = d THEN t ELSE test[e]
  BY DEF SelfInv, Shape, Ends
<1>2. lock = {d} /\ lock' = {} /\ LoggerShape(logger') /\ ~logger'.capturing /\ LoggerReturns'
  BY CaptureEnds DEF Ends, SelfInv, OneTest
<1>3. Shape'
  BY <1>1, <1>2 DEF SelfInv, Shape, Ends
<1>4. \A e \in Devices : ~Active(e)'
  BY <1>1, <1>2 DEF SelfInv, OneTest, Active
<1> QED
  BY <1>2, <1>3, <1>4 DEF SelfInv, OneTest, Tracked

LEMMA TestPressed ==
    ASSUME SelfInv, NEW d \in Devices, Press(d)
    PROVE  SelfInv'
<1>1. CASE Busy
  <2>1. UNCHANGED <<test, lock, logger, entry>>
    BY <1>1 DEF Press
  <2>2. \A e \in Devices : tracked[e] = "running" => tracked'[e] = "running"
    BY <1>1 DEF Press, SelfInv, Shape
  <2>3. Shape'
    BY <1>1, <2>1 DEF Press, SelfInv, Shape
  <2> QED
    BY <2>1, <2>2, <2>3 DEF SelfInv, OneTest, LoggerReturns, Left, Tracked, Active
<1>2. CASE ~Busy
  <2> DEFINE t == [NoTest EXCEPT !.phase = "read", !.late = entry[d] = "stopping"]
  <2> DEFINE u == [NoTest EXCEPT !.phase = "read"]
             late == entry[d] = "stopping"
  <2>1. TestShape(t) /\ t.phase = "read"
    <3>1. t = [u EXCEPT !.late = late]
      OBVIOUS
    <3>2. TestShape(u) /\ u.phase = "read"
      BY NoTestIs, PhaseSet
    <3> HIDE DEF u, late, t
    <3> QED
      BY <3>1, <3>2, OthersSet
  <2>2. lock = {} /\ lock' = {d} /\ logger' = Captured(logger) /\ entry' = entry
        /\ test' = [test EXCEPT ![d] = t]
        /\ tracked' = [tracked EXCEPT ![d] = "running"]
    BY <1>2 DEF Press, Busy
  <2>3. LoggerShape(logger') /\ logger'.capturing /\ LoggerReturns'
    BY <2>2, CaptureBegins
  <2> HIDE DEF t
  <2>4. \A e \in Devices : test'[e] = IF e = d THEN t ELSE test[e]
    BY <2>2 DEF SelfInv, Shape
  <2>5. Shape'
    BY <2>1, <2>2, <2>3, <2>4 DEF SelfInv, Shape
  <2>6. \A e \in Devices : Active(e)' => e = d
    BY <2>2, <2>4 DEF SelfInv, OneTest, Active
  <2>7. OneTest'
    BY <2>2, <2>3, <2>6 DEF OneTest
  <2>8. Tracked'
    BY <2>2, <2>6 DEF Press, Tracked, SelfInv, Shape
  <2> QED
    BY <2>3, <2>5, <2>7, <2>8 DEF SelfInv
<1> QED
  BY <1>1, <1>2

LEMMA LinkCloses ==
    ASSUME SelfInv, NEW d \in Devices, CloseLink(d)
    PROVE  SelfInv'
<1> DEFINE t == [test[d] EXCEPT !.cut = Active(d)]
<1>1. test' = [test EXCEPT ![d] = t]
  BY DEF CloseLink
<1>2. TestShape(t) /\ t.phase = test[d].phase /\ t.cut = Active(d)
  BY DEF SelfInv, Shape, TestShape
<1> HIDE DEF t
<1>3. \A e \in Devices : test'[e] = IF e = d THEN t ELSE test[e]
  BY <1>1 DEF SelfInv, Shape
<1>4. \A e \in Devices : entry'[e] = entry[e] \/ e = d
  BY DEF CloseLink, SelfInv, Shape
<1>5. Shape'
  BY <1>1, <1>2, <1>3 DEF SelfInv, Shape, CloseLink
<1>6. OneTest' /\ LoggerReturns'
  BY <1>2, <1>3 DEF SelfInv, OneTest, Active, LoggerReturns, Left, CloseLink
<1>7. Tracked'
  BY <1>2, <1>3, <1>4 DEF SelfInv, Tracked, Active, CloseLink
<1> QED
  BY <1>5, <1>6, <1>7 DEF SelfInv

(* The entry moves without its link closing.                                *)
LEMMA EntryMoves ==
    ASSUME SelfInv, NEW d \in Devices,
           UNCHANGED <<test, lock, logger>>,
           entry' = [entry EXCEPT ![d] = entry'[d]],
           \/ entry'[d] \notin {"closed", "stopped"} /\ tracked' = tracked
           \/ entry[d] = "closed" /\ entry'[d] = "loaded"
              /\ tracked' = [tracked EXCEPT ![d] = "none"]
    PROVE  SelfInv'
<1>1. \A e \in Devices : e # d => entry'[e] = entry[e] /\ tracked'[e] = tracked[e]
  BY DEF SelfInv, Shape
<1>2. Shape'
  BY DEF SelfInv, Shape
<1>3. OneTest' /\ LoggerReturns'
  BY DEF SelfInv, OneTest, Active, LoggerReturns, Left
<1>4. Tracked'
  BY <1>1 DEF SelfInv, Tracked, Active
<1> QED
  BY <1>2, <1>3, <1>4 DEF SelfInv

-----------------------------------------------------------------------------
LEMMA SelfInductive == SelfInv /\ [TestNext]_vars => SelfInv'
<1> SUFFICES ASSUME SelfInv, [TestNext]_vars PROVE SelfInv'
  OBVIOUS
<1>1. CASE UNCHANGED vars
  BY <1>1 DEF vars, SelfInv, Shape, OneTest, Active, LoggerReturns, Left, Tracked
<1>2. CASE \E level \in Levels : SetLevel(level)
  BY <1>2, LevelSet
<1>3. ASSUME NEW d \in Devices, Press(d) PROVE SelfInv'
  BY <1>3, TestPressed
<1>4. ASSUME NEW d \in Devices, ReadFirst(d) PROVE SelfInv'
  <2>1. PICK snap : test' = [test EXCEPT ![d] = [@ EXCEPT !.phase = "exercise", !.snap = snap,
                                                        !.todo = Exercise(d, snap)]]
    BY <1>4 DEF ReadFirst
  <2> DEFINE todo == Exercise(d, snap)
             t == [test[d] EXCEPT !.phase = "exercise", !.snap = snap, !.todo = todo]
  <2>2. test' = [test EXCEPT ![d] = t]
    BY <2>1
  <2> DEFINE u == [test[d] EXCEPT !.phase = "exercise"]
             v == [u EXCEPT !.snap = snap]
  <2>3. TestShape(t) /\ t.cut = test[d].cut /\ t.late = test[d].late
    <3>1. t = [v EXCEPT !.todo = todo]
      OBVIOUS
    <3>2. TestShape(u) /\ u.cut = test[d].cut /\ u.late = test[d].late
      BY PhaseSet DEF SelfInv, Shape
    <3> HIDE DEF u
    <3>3. TestShape(v) /\ v.cut = u.cut /\ v.late = u.late
      BY <3>2, OthersSet
    <3> HIDE DEF v, todo, t
    <3> QED
      BY <3>1, <3>2, <3>3, OthersSet, ZenonT(60)
  <2> QED
    BY <1>4, <2>2, <2>3, TestGoesOn DEF ReadFirst, Active
<1>5. ASSUME NEW d \in Devices, Operate(d) PROVE SelfInv'
  <2>1. PICK failed \in BOOLEAN : Continued(d, failed)
    BY <1>5 DEF Operate
  <2> DEFINE rest == Tail(test[d].todo)
             bad == IF failed /\ test[d].phase = "restore"
                    THEN test[d].failed \cup {Head(test[d].todo).does} ELSE test[d].failed
             t == [test[d] EXCEPT !.todo = rest, !.failed = bad]
  <2>2. test' = [test EXCEPT ![d] = t]
    BY <2>1 DEF Continued
  <2> DEFINE u == [test[d] EXCEPT !.todo = rest]
  <2>3. TestShape(t) /\ t.cut = test[d].cut /\ t.late = test[d].late
    <3>1. t = [u EXCEPT !.failed = bad]
      OBVIOUS
    <3> HIDE DEF rest, bad
    <3>2. TestShape(u) /\ u.cut = test[d].cut /\ u.late = test[d].late
      BY OthersSet DEF SelfInv, Shape
    <3> HIDE DEF u, t
    <3> QED
      BY <3>1, <3>2, OthersSet, ZenonT(60)
  <2> QED
    BY <1>5, <2>2, <2>3, TestGoesOn DEF Operate, Active
<1>6. ASSUME NEW d \in Devices, PutBackNext(d) PROVE SelfInv'
  <2> DEFINE todo == Restore(d, test[d].snap)
             t == [test[d] EXCEPT !.phase = "restore", !.todo = todo]
  <2>1. test' = [test EXCEPT ![d] = t]
    BY <1>6 DEF PutBackNext
  <2> DEFINE u == [test[d] EXCEPT !.phase = "restore"]
  <2>2. TestShape(t) /\ t.cut = test[d].cut /\ t.late = test[d].late
    <3>1. t = [u EXCEPT !.todo = todo]
      OBVIOUS
    <3>2. TestShape(u) /\ u.cut = test[d].cut /\ u.late = test[d].late
      BY PhaseSet DEF SelfInv, Shape
    <3> HIDE DEF u, t, todo
    <3> QED
      BY <3>1, <3>2, OthersSet, ZenonT(60)
  <2> QED
    BY <1>6, <2>1, <2>2, TestGoesOn DEF PutBackNext, Active
<1>7. ASSUME NEW d \in Devices, EndTest(d) \/ Abandon(d) PROVE SelfInv'
  <2> DEFINE t == [NoTest EXCEPT !.phase = "ended"]
  <2>1. TestShape(t) /\ t.phase = "ended" /\ TestShape(NoTest) /\ NoTest.phase = "none"
    BY NoTestIs, PhaseSet
  <2>2. Active(d) /\ (Ends(d, t) \/ Ends(d, NoTest))
    BY <1>7 DEF EndTest, Abandon, Active
  <2> HIDE DEF t
  <2> QED
    BY <2>1, <2>2, TestEnds
<1>8. ASSUME NEW d \in Devices,
             StartUnload(d) \/ FailUnload(d) \/ UnloadPlatforms(d) \/ Stop(d) \/ SetUp(d)
      PROVE SelfInv'
  <2>1. /\ UNCHANGED <<test, lock, logger>>
        /\ entry' = [entry EXCEPT ![d] = entry'[d]]
        /\ \/ entry'[d] \notin {"closed", "stopped"} /\ tracked' = tracked
           \/ /\ entry[d] = "closed" /\ entry'[d] = "loaded"
              /\ tracked' = [tracked EXCEPT ![d] = "none"]
    BY <1>8 DEF StartUnload, FailUnload, UnloadPlatforms, Stop, SetUp, EntryBecomes,
                SelfInv, Shape
  <2> QED
    BY <2>1, EntryMoves
<1>9. ASSUME NEW d \in Devices, Close(d) \/ TimeOut(d) PROVE SelfInv'
  BY <1>9, LinkCloses DEF Close, TimeOut
<1> QED
  BY <1>1, <1>2, <1>3, <1>4, <1>5, <1>6, <1>7, <1>8, <1>9 DEF TestNext

(* The logger is as the user wants it whenever no self-test runs.           *)
THEOREM LoggerGivenBack == TestSpec => []LoggerBack
<1>1. SelfInv => LoggerBack
  BY DEF SelfInv, LoggerReturns, LoggerBack
<1> QED
  BY SelfInitially, SelfInductive, <1>1, PTL DEF TestSpec

(* The link closes under a test only after a wait for it, or a late one.    *)
THEOREM ClosesAfterRestore == TestSpec => CloseAfterRestore
<1> DEFINE Waited == \A d \in Devices :
               test'[d].cut /\ ~test[d].cut /\ Active(d) => tracked[d] = "running" \/ test[d].late
<1>1. SelfInv /\ [TestNext]_vars => Waited
  BY DEF SelfInv, Tracked
<1>2. SelfInv /\ [TestNext]_vars => [Waited]_vars
  BY <1>1
<1> QED
  BY SelfInitially, SelfInductive, <1>2, PTL DEF TestSpec, CloseAfterRestore

-----------------------------------------------------------------------------
(* The sequences a test's operations are made of.                           *)

(* Induction, with a set for its predicate.                                 *)
LEMMA SetInduction ==
  ASSUME NEW S, 0 \in S, \A n \in Nat : n \in S => n + 1 \in S
  PROVE  \A n \in Nat : n \in S
<1> DEFINE T == {n \in Nat : n \notin S}
           R == OpToRel(<, Nat)
<1>1. IsWellFoundedOn(R, Nat)
  BY NatLessThanWellFounded
<1>2. SUFFICES ASSUME T # {} PROVE FALSE
  OBVIOUS
<1>3. \E x \in T : \A y \in T : ~ (<<y, x>> \in R)
  <2> HIDE DEF R
  <2> QED BY <1>1, <1>2, WFMin
<1>4. PICK x \in T : \A y \in T : ~ (y < x)
  BY <1>3 DEF OpToRel
<1>5. x # 0 /\ x - 1 \in Nat
  OBVIOUS
<1>6. x - 1 \in S
  BY <1>4, <1>5
<1> QED
  BY <1>5, <1>6

(* FlattenSeq joins its sequences one by one.                               *)
LEMMA FlattenStep ==
  ASSUME NEW seqs, Len(seqs) \in Nat \ {0}
  PROVE  \E f : /\ FlattenSeq(seqs) = f[Len(seqs)]
                /\ f = [i \in 1..Len(seqs) |-> IF i = 1 THEN seqs[i] ELSE f[i-1] \o seqs[i]]
<1> DEFINE Joins(m) == \E f : f = [i \in 1..m |-> IF i = 1 THEN seqs[i] ELSE f[i-1] \o seqs[i]]
           S == {m \in Nat : Joins(m)}
<1>1. 0 \in S
  <2> DEFINE f == [i \in {} |-> <<>>]
  <2>1. f = [i \in 1..0 |-> IF i = 1 THEN seqs[i] ELSE f[i-1] \o seqs[i]]
    OBVIOUS
  <2> QED BY <2>1, Zenon
<1>2. ASSUME NEW m \in Nat, m \in S PROVE m + 1 \in S
  <2>1. PICK f : f = [i \in 1..m |-> IF i = 1 THEN seqs[i] ELSE f[i-1] \o seqs[i]]
    BY <1>2
  <2> DEFINE g == [i \in 1..(m+1) |-> IF i = 1 THEN seqs[i] ELSE f[i-1] \o seqs[i]]
  <2>2. ASSUME NEW i \in 1..m PROVE g[i] = f[i]
    <3>1. i \in 1..(m+1)
      OBVIOUS
    <3>2. g[i] = IF i = 1 THEN seqs[i] ELSE f[i-1] \o seqs[i]
      BY <3>1, Zenon
    <3> QED BY <2>1, <3>2, Zenon
  <2>3. \A i \in 1..(m+1) : i # 1 => i - 1 \in 1..m
    OBVIOUS
  <2>4. \A i \in 1..(m+1) : g[i] = IF i = 1 THEN seqs[i] ELSE g[i-1] \o seqs[i]
    BY <2>2, <2>3, Zenon
  <2>5. g = [i \in 1..(m+1) |-> IF i = 1 THEN seqs[i] ELSE g[i-1] \o seqs[i]]
    BY <2>4, Zenon
  <2>6. Joins(m + 1)
    BY <2>5
  <2>7. m + 1 \in Nat
    OBVIOUS
  <2> HIDE DEF Joins
  <2> QED BY <2>6, <2>7
<1>3. Len(seqs) \in S
  <2> HIDE DEF S
  <2> QED BY <1>1, <1>2, SetInduction
<1> DEFINE flatten == CHOOSE flatten : flatten =
              [i \in 1..Len(seqs) |-> IF i = 1 THEN seqs[i] ELSE flatten[i-1] \o seqs[i]]
<1>4. flatten = [i \in 1..Len(seqs) |-> IF i = 1 THEN seqs[i] ELSE flatten[i-1] \o seqs[i]]
  BY <1>3, Zenon
<1>5. FlattenSeq(seqs) = flatten[Len(seqs)]
  BY Zenon DEF FlattenSeq
<1> QED
  BY <1>4, <1>5, Zenon

(* What FlattenSeq holds: the elements of its sequences, each of them.      *)
LEMMA FlattenHolds ==
  ASSUME NEW T, NEW seqs \in Seq(Seq(T))
  PROVE  /\ FlattenSeq(seqs) \in Seq(T)
         /\ \A k \in 1..Len(FlattenSeq(seqs)) :
               \E i \in 1..Len(seqs) : \E j \in 1..Len(seqs[i]) : FlattenSeq(seqs)[k] = seqs[i][j]
         /\ \A i \in 1..Len(seqs) : \A j \in 1..Len(seqs[i]) :
               \E k \in 1..Len(FlattenSeq(seqs)) : FlattenSeq(seqs)[k] = seqs[i][j]
<1> DEFINE n == Len(seqs)
<1>0. n \in Nat /\ (\A i \in 1..n : seqs[i] \in Seq(T))
  OBVIOUS
<1>1. CASE n = 0
  <2>1. FlattenSeq(seqs) = seqs /\ seqs = <<>>
    BY <1>1 DEF FlattenSeq
  <2> QED BY <2>1, <1>1
<1>2. CASE n # 0
  <2>1. PICK f : /\ FlattenSeq(seqs) = f[n]
                 /\ f = [i \in 1..n |-> IF i = 1 THEN seqs[i] ELSE f[i-1] \o seqs[i]]
    BY <1>0, <1>2, FlattenStep
  <2> HIDE DEF n
  <2> DEFINE Good(m) ==
                /\ f[m] \in Seq(T)
                /\ \A k \in 1..Len(f[m]) :
                      \E i \in 1..m : \E j \in 1..Len(seqs[i]) : f[m][k] = seqs[i][j]
                /\ \A i \in 1..m : \A j \in 1..Len(seqs[i]) :
                      \E k \in 1..Len(f[m]) : f[m][k] = seqs[i][j]
             S == {m \in Nat : m + 1 \in 1..n => Good(m + 1)}
  <2>2. 0 \in S
    <3>1. ASSUME 1 \in 1..n PROVE f[1] = seqs[1]
      BY <2>1, <3>1
    <3>2. ASSUME 1 \in 1..n PROVE Good(1)
      BY <1>0, <3>1, <3>2
    <3>3. 0 + 1 = 1
      OBVIOUS
    <3> HIDE DEF Good
    <3> QED BY <3>2, <3>3
  <2>3. ASSUME NEW m \in Nat, m \in S PROVE m + 1 \in S
    <3>0. SUFFICES ASSUME m + 2 \in 1..n PROVE Good(m + 2)
      <4>1. (m + 1) + 1 = m + 2
        OBVIOUS
      <4> HIDE DEF Good
      <4> QED BY <4>1
    <3> DEFINE a == f[m + 1]
               b == seqs[m + 2]
    <3>1. Good(m + 1) /\ m + 1 \in 1..n
      <4>1. m + 1 \in 1..n
        BY <1>0, <3>0
      <4> HIDE DEF Good
      <4> QED BY <2>3, <4>1
    <3>2. f[m + 2] = a \o b
      <4>1. m + 2 # 1 /\ (m + 2) - 1 = m + 1
        OBVIOUS
      <4>2. f[m + 2] = IF m + 2 = 1 THEN seqs[m + 2] ELSE f[(m + 2) - 1] \o seqs[m + 2]
        BY <2>1, <3>0, Zenon
      <4> QED BY <4>1, <4>2
    <3>3. a \in Seq(T) /\ b \in Seq(T)
      BY <1>0, <3>0, <3>1
    <3> HIDE DEF a
    <3>4. /\ a \o b \in Seq(T) /\ Len(a \o b) = Len(a) + Len(b)
          /\ Len(a) \in Nat /\ Len(b) \in Nat
          /\ \A k \in 1..Len(a) : (a \o b)[k] = a[k]
          /\ \A k \in 1..Len(b) : (a \o b)[Len(a) + k] = b[k]
      BY <3>3
    <3> DEFINE c == a \o b
    <3> HIDE DEF b, c
    <3>5. ASSUME NEW k \in 1..Len(c)
          PROVE  \E i \in 1..(m + 2) : \E j \in 1..Len(seqs[i]) : c[k] = seqs[i][j]
      <4>1. CASE k \in 1..Len(a)
        <5>1. PICK i \in 1..(m + 1) : \E j \in 1..Len(seqs[i]) : a[k] = seqs[i][j]
          BY <3>1, <4>1 DEF a
        <5>2. c[k] = a[k] /\ i \in 1..(m + 2)
          BY <3>4, <4>1 DEF c
        <5> QED BY <5>1, <5>2
      <4>2. CASE k \notin 1..Len(a)
        <5>1. k - Len(a) \in 1..Len(b) /\ k = Len(a) + (k - Len(a))
          BY <3>4, <4>2 DEF c
        <5>2. c[k] = b[k - Len(a)]
          BY <3>4, <5>1 DEF c
        <5>3. c[k] = seqs[m + 2][k - Len(a)] /\ k - Len(a) \in 1..Len(seqs[m + 2])
          BY <5>1, <5>2, Zenon DEF b
        <5>4. m + 2 \in 1..(m + 2)
          OBVIOUS
        <5> QED BY <5>3, <5>4, ZenonT(60)
      <4> QED BY <4>1, <4>2
    <3>6. ASSUME NEW i \in 1..(m + 2), NEW j \in 1..Len(seqs[i])
          PROVE  \E k \in 1..Len(c) : c[k] = seqs[i][j]
      <4>1. CASE i \in 1..(m + 1)
        <5>1. PICK k \in 1..Len(a) : a[k] = seqs[i][j]
          BY <3>1, <4>1 DEF a
        <5> QED BY <3>4, <5>1 DEF c
      <4>2. CASE i = m + 2
        <5>1. j \in 1..Len(b)
          BY <4>2 DEF b
        <5>2. c[Len(a) + j] = b[j] /\ Len(a) + j \in 1..Len(c)
          BY <3>4, <5>1 DEF c
        <5> QED BY <4>2, <5>2 DEF b
      <4> QED BY <4>1, <4>2
    <3>7. c \in Seq(T) /\ f[m + 2] = c
      BY <3>2, <3>4 DEF b, c
    <3> QED BY <3>5, <3>6, <3>7
  <2>4. \A m \in Nat : m \in S
    <3> HIDE DEF S
    <3> QED BY <2>2, <2>3, SetInduction
  <2>5. Good(n)
    <3>1. n - 1 \in Nat /\ (n - 1) + 1 = n /\ n \in 1..n
      BY <1>0, <1>2
    <3>2. n - 1 \in S
      BY <2>4, <3>1
    <3> HIDE DEF Good
    <3> QED BY <3>1, <3>2
  <2>6. /\ f[n] \in Seq(T)
        /\ \A k \in 1..Len(f[n]) : \E i \in 1..n : \E j \in 1..Len(seqs[i]) : f[n][k] = seqs[i][j]
        /\ \A i \in 1..n : \A j \in 1..Len(seqs[i]) : \E k \in 1..Len(f[n]) : f[n][k] = seqs[i][j]
    BY <2>5
  <2>7. FlattenSeq(seqs) = f[n]
    BY <2>1
  <2> HIDE DEF Good, S
  <2>8. n = Len(seqs)
    BY DEF n
  <2> DEFINE w == f[n]
  <2> HIDE DEF w
  <2>9. /\ w \in Seq(T)
        /\ \A k \in 1..Len(w) : \E i \in 1..n : \E j \in 1..Len(seqs[i]) : w[k] = seqs[i][j]
        /\ \A i \in 1..n : \A j \in 1..Len(seqs[i]) : \E k \in 1..Len(w) : w[k] = seqs[i][j]
    BY <2>6, Zenon DEF w
  <2>10. FlattenSeq(seqs) = w
    BY <2>7 DEF w
  <2> QED BY <2>8, <2>9, <2>10
<1> QED BY <1>1, <1>2

-----------------------------------------------------------------------------
(* The operations, and what the fixture does on one.                        *)

Ops == [does : {"power", "zones"}, of : SUBSET Zones, to : BOOLEAN]
       \cup [does : {"paint"}, of : SUBSET Zones, to : Values]

LEMMA OpsAre ==
    /\ \A b \in BOOLEAN : Power(b) \in Ops /\ Power(b).does = "power"
                          /\ Power(b).of = Zones /\ Power(b).to = b
    /\ \A z \in Zones, b \in BOOLEAN :
          ZonePower(z, b) \in Ops /\ ZonePower(z, b).does = "zones"
          /\ ZonePower(z, b).of = {z} /\ ZonePower(z, b).to = b
    /\ \A zs \in SUBSET Zones, v \in Values :
          Paint(zs, v) \in Ops /\ Paint(zs, v).does = "paint"
          /\ Paint(zs, v).of = zs /\ Paint(zs, v).to = v
  BY DEF Power, ZonePower, Paint, Ops

LEMMA DrivenIs ==
    ASSUME NEW f \in Fixture, NEW op \in Ops
    PROVE  LET g == Driven(f, op)
           IN  /\ g \in Fixture
               /\ op.does # "paint" =>
                     /\ g.paint = f.paint
                     /\ \A z \in Zones : g.lit[z] = IF z \in op.of THEN op.to ELSE f.lit[z]
               /\ op.does = "paint" =>
                     /\ \A z \in Zones : g.paint[z] = IF z \in op.of THEN op.to ELSE f.paint[z]
                     /\ \A z \in Zones : f.lit[z] => g.lit[z]
<1> DEFINE g == Driven(f, op)
<1>1. CASE op.does # "paint"
  <2>1. op.does \in {"power", "zones"} /\ op.to \in BOOLEAN
    BY <1>1 DEF Ops
  <2> DEFINE lit == [z \in Zones |-> IF z \in op.of THEN op.to ELSE f.lit[z]]
  <2>2. g = [f EXCEPT !.lit = lit]
    BY <1>1, <2>1 DEF Driven
  <2>3. lit \in [Zones -> BOOLEAN]
    BY <2>1 DEF Fixture
  <2>4. \A z \in Zones : lit[z] = IF z \in op.of THEN op.to ELSE f.lit[z]
    OBVIOUS
  <2> HIDE DEF lit, g
  <2>5. g \in Fixture /\ g.paint = f.paint /\ g.lit = lit
    BY <2>2, <2>3 DEF Fixture
  <2> QED BY <1>1, <2>4, <2>5 DEF g
<1>2. CASE op.does = "paint"
  <2>1. op.to \in Values
    BY <1>2 DEF Ops
  <2> DEFINE paint == [z \in Zones |-> IF z \in op.of THEN op.to ELSE f.paint[z]]
             lit == IF On(f) THEN f.lit ELSE All(TRUE)
  <2>2. g = [f EXCEPT !.paint = paint, !.lit = lit]
    BY <1>2 DEF Driven
  <2>3. paint \in [Zones -> Values] /\ lit \in [Zones -> BOOLEAN]
    BY <2>1 DEF Fixture, All
  <2>4. /\ \A z \in Zones : paint[z] = IF z \in op.of THEN op.to ELSE f.paint[z]
        /\ \A z \in Zones : f.lit[z] => lit[z]
    BY DEF All
  <2> HIDE DEF paint, lit, g
  <2>5. g \in Fixture /\ g.paint = paint /\ g.lit = lit
    BY <2>2, <2>3 DEF Fixture
  <2> QED BY <1>2, <2>4, <2>5 DEF g
<1> QED BY <1>1, <1>2

-----------------------------------------------------------------------------
(* What a restore still has to do, for each zone z of a device f.           *)

Paints(op, z) == op.does = "paint" /\ z \in op.of
Switches(op, z, b) == op.does # "paint" /\ z \in op.of /\ op.to = b

(* Its colour is v, or becomes v: any other is painted over.                *)
Repainted(f, todo, failed, z, v) ==
    \/ "paint" \in failed
    \/ /\ \A i \in 1..Len(todo) : Paints(todo[i], z) /\ todo[i].to # v =>
             \E j \in (i + 1)..Len(todo) : Paints(todo[j], z) /\ todo[j].to = v
       /\ f.paint[z] = v \/ \E j \in 1..Len(todo) : Paints(todo[j], z) /\ todo[j].to = v
(* It is lit, or is yet switched on by an operation of a kind, and never    *)
(* off.                                                                     *)
Relit(f, todo, failed, z, kind) ==
    /\ \A i \in 1..Len(todo) : ~Switches(todo[i], z, FALSE)
    /\ \/ f.lit[z] \/ kind \in failed
       \/ \E i \in 1..Len(todo) : Switches(todo[i], z, TRUE) /\ todo[i].does = kind
(* Nothing after the first i operations lights it.                          *)
Dark(todo, i, z) ==
    \A j \in (i + 1)..Len(todo) : todo[j].does # "paint" /\ ~Switches(todo[j], z, TRUE)
(* It is dark for good, or is yet switched off for good.                    *)
Darkened(f, todo, failed, z, kind) ==
    \/ kind \in failed
    \/ ~f.lit[z] /\ Dark(todo, 0, z)
    \/ \E i \in 1..Len(todo) : Switches(todo[i], z, FALSE) /\ todo[i].does = kind /\ Dark(todo, i, z)

(* A device is put back to its snapshot, save for what failed.              *)
ByPower(d, snap) == d \in Powered /\ "power" \in snap.known
Coming(d, f, todo, failed, snap) ==
    LET was == snap.was
        on == IF ByPower(d, snap) THEN "power" ELSE "zones"
        off == IF ByPower(d, snap) /\ ~On(was) THEN "power" ELSE "zones"
    IN  /\ "paint" \in snap.known =>
              \A z \in Zones : Repainted(f, todo, failed, z, was.paint[z])
        /\ on = "power" \/ "zones" \in snap.known =>
              \A z \in Zones : was.lit[z] => Relit(f, todo, failed, z, on)
        /\ off = "power" \/ "zones" \in snap.known =>
              \A z \in Zones : ~was.lit[z] => Darkened(f, todo, failed, z, off)

-----------------------------------------------------------------------------
(* A step of the restore: its operation is done, or noted as failed.        *)

Stepped(f, op, failed, g, noted) ==
    \/ g = Driven(f, op) /\ noted = failed
    \/ g \in {f, Driven(f, op)} /\ noted = failed \cup {op.does}

LEMMA TailIs ==
    ASSUME NEW todo \in Seq(Ops), todo # <<>>
    PROVE  /\ Head(todo) = todo[1] /\ Head(todo) \in Ops /\ Tail(todo) \in Seq(Ops)
           /\ 1 \in 1..Len(todo) /\ Len(todo) \in Nat /\ Len(Tail(todo)) = Len(todo) - 1
           /\ \A i \in 1..Len(Tail(todo)) : Tail(todo)[i] = todo[i + 1] /\ i + 1 \in 1..Len(todo)
           /\ \A i \in 1..Len(todo) : i # 1 => i - 1 \in 1..Len(Tail(todo)) /\ Tail(todo)[i - 1] = todo[i]
  OBVIOUS

LEMMA RepaintedStep ==
    ASSUME NEW f \in Fixture, NEW todo \in Seq(Ops), todo # <<>>, NEW failed, NEW g, NEW noted,
           Stepped(f, Head(todo), failed, g, noted),
           NEW z \in Zones, NEW v, Repainted(f, todo, failed, z, v)
    PROVE  Repainted(g, Tail(todo), noted, z, v)
<1> DEFINE op == Head(todo)
           rest == Tail(todo)
<1>1. /\ op = todo[1] /\ op \in Ops /\ 1 \in 1..Len(todo) /\ Len(todo) \in Nat
      /\ Len(rest) = Len(todo) - 1
      /\ \A i \in 1..Len(rest) : rest[i] = todo[i + 1] /\ i + 1 \in 1..Len(todo)
      /\ \A i \in 1..Len(todo) : i # 1 => i - 1 \in 1..Len(rest) /\ rest[i - 1] = todo[i]
  BY TailIs
<1>2. /\ (g = f \/ g = Driven(f, op))
      /\ (noted = failed /\ g = Driven(f, op)) \/ noted = failed \cup {op.does}
  BY DEF Stepped
<1>3. /\ op.does # "paint" => Driven(f, op).paint = f.paint
      /\ op.does = "paint" => Driven(f, op).paint[z] = IF z \in op.of THEN op.to ELSE f.paint[z]
  BY <1>1, DrivenIs
<1> HIDE DEF op, rest
<1>4. CASE "paint" \in noted
  BY <1>4 DEF Repainted, rest
<1>5. CASE "paint" \notin noted
  <2>1. /\ \A i \in 1..Len(todo) : Paints(todo[i], z) /\ todo[i].to # v =>
             \E j \in (i + 1)..Len(todo) : Paints(todo[j], z) /\ todo[j].to = v
        /\ f.paint[z] = v \/ \E j \in 1..Len(todo) : Paints(todo[j], z) /\ todo[j].to = v
    BY <1>2, <1>5 DEF Repainted
  <2>2. ASSUME NEW i \in 1..Len(rest), Paints(rest[i], z), rest[i].to # v
        PROVE  \E j \in (i + 1)..Len(rest) : Paints(rest[j], z) /\ rest[j].to = v
    <3>1. PICK j \in (i + 2)..Len(todo) : Paints(todo[j], z) /\ todo[j].to = v
      BY <1>1, <2>1, <2>2
    <3>2. j - 1 \in (i + 1)..Len(rest) /\ rest[j - 1] = todo[j]
      BY <1>1
    <3> QED BY <3>1, <3>2
  <2>3. g.paint[z] = v \/ \E j \in 1..Len(rest) : Paints(rest[j], z) /\ rest[j].to = v
    <3>1. CASE Paints(op, z)
      <4>1. g.paint[z] = op.to
        BY <1>2, <1>3, <1>5, <3>1 DEF Paints
      <4>2. CASE op.to # v
        <5>1. PICK j \in 2..Len(todo) : Paints(todo[j], z) /\ todo[j].to = v
          BY <1>1, <2>1, <3>1, <4>2
        <5>2. j - 1 \in 1..Len(rest) /\ rest[j - 1] = todo[j]
          BY <1>1
        <5> QED BY <5>1, <5>2
      <4> QED BY <4>1, <4>2
    <3>2. CASE ~Paints(op, z)
      <4>1. g.paint[z] = f.paint[z]
        BY <1>2, <1>3, <3>2 DEF Paints
      <4>2. CASE \E j \in 1..Len(todo) : Paints(todo[j], z) /\ todo[j].to = v
        <5>1. PICK j \in 1..Len(todo) : Paints(todo[j], z) /\ todo[j].to = v
          BY <4>2
        <5>2. j - 1 \in 1..Len(rest) /\ rest[j - 1] = todo[j]
          BY <1>1, <3>2, <5>1
        <5> QED BY <5>1, <5>2
      <4> QED BY <2>1, <4>1, <4>2
    <3> QED BY <3>1, <3>2
  <2>4. Repainted(g, rest, noted, z, v)
    BY <2>2, <2>3 DEF Repainted
  <2> QED BY <2>4 DEF rest
<1> QED BY <1>4, <1>5

LEMMA RelitStep ==
    ASSUME NEW f \in Fixture, NEW todo \in Seq(Ops), todo # <<>>, NEW failed, NEW g, NEW noted,
           Stepped(f, Head(todo), failed, g, noted),
           NEW z \in Zones, NEW kind, Relit(f, todo, failed, z, kind)
    PROVE  Relit(g, Tail(todo), noted, z, kind)
<1> DEFINE op == Head(todo)
           rest == Tail(todo)
<1>1. /\ op = todo[1] /\ op \in Ops /\ 1 \in 1..Len(todo) /\ Len(todo) \in Nat
      /\ \A i \in 1..Len(rest) : rest[i] = todo[i + 1] /\ i + 1 \in 1..Len(todo)
      /\ \A i \in 1..Len(todo) : i # 1 => i - 1 \in 1..Len(rest) /\ rest[i - 1] = todo[i]
  BY TailIs
<1>2. /\ (g = f \/ g = Driven(f, op))
      /\ (noted = failed /\ g = Driven(f, op)) \/ noted = failed \cup {op.does}
  BY DEF Stepped
<1>3. /\ op.does # "paint" => Driven(f, op).lit[z] = IF z \in op.of THEN op.to ELSE f.lit[z]
      /\ op.does = "paint" => (f.lit[z] => Driven(f, op).lit[z])
      /\ op.does # "paint" => op.to \in BOOLEAN
  BY <1>1, DrivenIs DEF Ops
<1> HIDE DEF op, rest
<1>4. \A i \in 1..Len(todo) : ~Switches(todo[i], z, FALSE)
  BY DEF Relit
<1>5. \A i \in 1..Len(rest) : ~Switches(rest[i], z, FALSE)
  BY <1>1, <1>4
<1>6. ~Switches(op, z, FALSE)
  BY <1>1, <1>4
<1>7. f.lit[z] => g.lit[z]
  BY <1>2, <1>3, <1>6 DEF Switches
<1>8. CASE \E i \in 1..Len(todo) : Switches(todo[i], z, TRUE) /\ todo[i].does = kind
  <2>1. PICK i \in 1..Len(todo) : Switches(todo[i], z, TRUE) /\ todo[i].does = kind
    BY <1>8
  <2>2. CASE i = 1
    <3>1. g.lit[z] \/ kind \in noted
      BY <1>1, <1>2, <1>3, <2>1, <2>2 DEF Switches
    <3> QED BY <1>5, <3>1 DEF Relit, rest
  <2>3. CASE i # 1
    <3>1. i - 1 \in 1..Len(rest) /\ rest[i - 1] = todo[i]
      BY <1>1, <2>3
    <3>2. Relit(g, rest, noted, z, kind)
      BY <1>5, <2>1, <3>1 DEF Relit
    <3> QED BY <3>2 DEF rest
  <2> QED BY <2>2, <2>3
<1>9. CASE f.lit[z] \/ kind \in failed
  <2>1. g.lit[z] \/ kind \in noted
    BY <1>2, <1>7, <1>9
  <2> QED BY <1>5, <2>1 DEF Relit, rest
<1> QED BY <1>8, <1>9 DEF Relit

LEMMA DarkenedStep ==
    ASSUME NEW f \in Fixture, NEW todo \in Seq(Ops), todo # <<>>, NEW failed, NEW g, NEW noted,
           Stepped(f, Head(todo), failed, g, noted),
           NEW z \in Zones, NEW kind, Darkened(f, todo, failed, z, kind)
    PROVE  Darkened(g, Tail(todo), noted, z, kind)
<1> DEFINE op == Head(todo)
           rest == Tail(todo)
<1>1. /\ op = todo[1] /\ op \in Ops /\ 1 \in 1..Len(todo) /\ Len(todo) \in Nat
      /\ Len(rest) = Len(todo) - 1
      /\ \A i \in 1..Len(rest) : rest[i] = todo[i + 1] /\ i + 1 \in 1..Len(todo)
      /\ \A i \in 1..Len(todo) : i # 1 => i - 1 \in 1..Len(rest) /\ rest[i - 1] = todo[i]
  BY TailIs
<1>2. /\ (g = f \/ g = Driven(f, op))
      /\ (noted = failed /\ g = Driven(f, op)) \/ noted = failed \cup {op.does}
  BY DEF Stepped
<1>3. /\ op.does # "paint" => Driven(f, op).lit[z] = IF z \in op.of THEN op.to ELSE f.lit[z]
      /\ op.does # "paint" => op.to \in BOOLEAN
  BY <1>1, DrivenIs DEF Ops
<1> HIDE DEF op, rest
<1>4. ASSUME NEW i \in Nat, Dark(todo, i + 1, z) PROVE Dark(rest, i, z)
  <2>1. ASSUME NEW j \in (i + 1)..Len(rest)
        PROVE  rest[j].does # "paint" /\ ~Switches(rest[j], z, TRUE)
    <3>1. j \in 1..Len(rest) /\ j + 1 \in ((i + 1) + 1)..Len(todo)
      BY <1>1
    <3>2. todo[j + 1].does # "paint" /\ ~Switches(todo[j + 1], z, TRUE)
      BY <1>4, <3>1, Zenon DEF Dark
    <3> QED BY <1>1, <3>1, <3>2
  <2> QED BY <2>1 DEF Dark
<1>5. CASE kind \in failed
  BY <1>2, <1>5 DEF Darkened
<1>6. CASE ~f.lit[z] /\ Dark(todo, 0, z)
  <2>1. op.does # "paint" /\ ~Switches(op, z, TRUE) /\ Dark(rest, 0, z)
    <3>0. \A j \in (0 + 1)..Len(todo) : todo[j].does # "paint" /\ ~Switches(todo[j], z, TRUE)
      BY <1>6, Zenon DEF Dark
    <3>1. op.does # "paint" /\ ~Switches(op, z, TRUE)
      <4>1. 1 \in (0 + 1)..Len(todo)
        BY <1>1
      <4> QED BY <1>1, <3>0, <4>1, Zenon
    <3>2. Dark(todo, 0 + 1, z)
      <4>1. \A j \in ((0 + 1) + 1)..Len(todo) : j \in (0 + 1)..Len(todo)
        BY <1>1
      <4> QED BY <3>0, <4>1, Zenon DEF Dark
    <3> QED BY <1>4, <3>1, <3>2
  <2>2. ~g.lit[z]
    BY <1>2, <1>3, <1>6, <2>1 DEF Switches
  <2> QED BY <2>1, <2>2 DEF Darkened, rest
<1>7. CASE \E i \in 1..Len(todo) : Switches(todo[i], z, FALSE) /\ todo[i].does = kind /\ Dark(todo, i, z)
  <2>1. PICK i \in 1..Len(todo) : Switches(todo[i], z, FALSE) /\ todo[i].does = kind /\ Dark(todo, i, z)
    BY <1>7
  <2>2. CASE i = 1
    <3>1. Dark(rest, 0, z)
      BY <1>4, <2>1, <2>2
    <3>2. ~g.lit[z] \/ kind \in noted
      BY <1>1, <1>2, <1>3, <2>1, <2>2 DEF Switches
    <3> QED BY <3>1, <3>2 DEF Darkened, rest
  <2>3. CASE i # 1
    <3>1. i - 1 \in 1..Len(rest) /\ rest[i - 1] = todo[i] /\ i - 1 \in Nat /\ (i - 1) + 1 = i
      BY <1>1, <2>3
    <3>2. Dark(rest, i - 1, z)
      BY <1>4, <2>1, <3>1
    <3>3. Darkened(g, rest, noted, z, kind)
      BY <2>1, <3>1, <3>2 DEF Darkened
    <3> QED BY <3>3 DEF rest
  <2> QED BY <2>2, <2>3
<1> QED BY <1>5, <1>6, <1>7 DEF Darkened

LEMMA ComingStep ==
    ASSUME NEW f \in Fixture, NEW todo \in Seq(Ops), todo # <<>>, NEW failed, NEW g, NEW noted,
           Stepped(f, Head(todo), failed, g, noted), NEW d, NEW snap,
           Coming(d, f, todo, failed, snap)
    PROVE  Coming(d, g, Tail(todo), noted, snap)
  BY RepaintedStep, RelitStep, DarkenedStep DEF Coming

-----------------------------------------------------------------------------
(* What a restore is made of.                                               *)

SwitchesThose(s, zs, b) ==
    /\ s \in Seq(Ops)
    /\ \A k \in 1..Len(s) : s[k].does = "zones" /\ s[k].to = b /\ s[k].of \subseteq zs
    /\ \A z \in zs : \E k \in 1..Len(s) : s[k].does = "zones" /\ s[k].to = b /\ z \in s[k].of
LEMMA SwitchedHolds ==
    ASSUME NEW zs \in SUBSET Zones, NEW b \in BOOLEAN
    PROVE  SwitchesThose(Switched(zs, b), zs, b)
<1> DEFINE part(i) == If(ZoneOrder[i] \in zs, <<ZonePower(ZoneOrder[i], b)>>)
           seqs == [i \in DOMAIN ZoneOrder |-> part(i)]
           T == {op \in Ops : op.does = "zones" /\ op.to = b /\ op.of \subseteq zs}
<1>1. ZoneOrder \in Seq(Zones) /\ (\A i \in 1..Len(ZoneOrder) : ZoneOrder[i] \in Zones)
      /\ DOMAIN ZoneOrder = 1..Len(ZoneOrder) /\ Len(ZoneOrder) \in Nat
  BY SelfTestAssumption
<1>2. ASSUME NEW i \in 1..Len(ZoneOrder)
      PROVE  /\ part(i) \in Seq(T)
             /\ ZoneOrder[i] \in zs =>
                   Len(part(i)) = 1 /\ part(i)[1] = ZonePower(ZoneOrder[i], b)
  <2>1. CASE ZoneOrder[i] \in zs
    <3>1. ZonePower(ZoneOrder[i], b) \in T
      BY <1>1, <2>1, OpsAre
    <3> HIDE DEF T
    <3> QED BY <2>1, <3>1 DEF If
  <2>2. CASE ZoneOrder[i] \notin zs
    BY <2>2 DEF If
  <2> QED BY <2>1, <2>2
<1>3. seqs \in Seq(Seq(T)) /\ Len(seqs) = Len(ZoneOrder)
      /\ \A i \in 1..Len(ZoneOrder) : seqs[i] = part(i)
  <2> HIDE DEF part, T
  <2> QED BY <1>1, <1>2
<1> DEFINE s == Switched(zs, b)
<1>4. s = FlattenSeq(seqs)
  BY DEF Switched
<1> HIDE DEF seqs, s, T, part
<1>5. /\ s \in Seq(T)
      /\ \A i \in 1..Len(seqs) : \A j \in 1..Len(seqs[i]) : \E k \in 1..Len(s) : s[k] = seqs[i][j]
  <2>1. seqs \in Seq(Seq(T))
    BY <1>3
  <2>2. /\ FlattenSeq(seqs) \in Seq(T)
        /\ \A i \in 1..Len(seqs) : \A j \in 1..Len(seqs[i]) :
              \E k \in 1..Len(FlattenSeq(seqs)) : FlattenSeq(seqs)[k] = seqs[i][j]
    BY <2>1, FlattenHolds, Zenon
  <2> QED BY <1>4, <2>2, Zenon
<1>6. s \in Seq(Ops) /\ \A k \in 1..Len(s) : s[k].does = "zones" /\ s[k].to = b /\ s[k].of \subseteq zs
  <2>1. \A k \in 1..Len(s) : s[k] \in T
    BY <1>5
  <2>2. \A k \in 1..Len(s) : s[k] \in Ops /\ s[k].does = "zones" /\ s[k].to = b /\ s[k].of \subseteq zs
    BY <2>1 DEF T
  <2> QED BY <1>5, <2>2
<1>7. ASSUME NEW z \in zs
      PROVE  \E k \in 1..Len(s) : s[k].does = "zones" /\ s[k].to = b /\ z \in s[k].of
  <2>1. PICK i \in 1..Len(ZoneOrder) : ZoneOrder[i] = z
    BY <1>1, SelfTestAssumption
  <2>2. 1 \in 1..Len(seqs[i]) /\ seqs[i][1] = ZonePower(z, b)
    BY <1>2, <1>3, <2>1
  <2>3. PICK k \in 1..Len(s) : s[k] = ZonePower(z, b)
    <3>1. i \in 1..Len(seqs)
      BY <1>3
    <3>2. \E k \in 1..Len(s) : s[k] = seqs[i][1]
      BY <1>5, <2>2, <3>1
    <3> QED BY <2>2, <3>2
  <2>4. LET op == ZonePower(z, b) IN op.does = "zones" /\ op.to = b /\ z \in op.of
    BY OpsAre
  <2> QED BY <2>3, <2>4, ZenonT(60)
<1> QED BY <1>6, <1>7 DEF s, SwitchesThose

(* Every zone is painted its own colour after the whole device.             *)
LEMMA RepaintHolds ==
    ASSUME NEW snap, snap.was \in Fixture
    PROVE  LET s == Repaint(snap)
           IN  /\ s \in Seq(Ops) /\ \A k \in 1..Len(s) : s[k].does = "paint"
               /\ "paint" \in snap.known => \A z \in Zones :
                     /\ \A k \in 2..Len(s) : Paints(s[k], z) => s[k].to = snap.was.paint[z]
                     /\ \E k \in 2..Len(s) : Paints(s[k], z) /\ s[k].to = snap.was.paint[z]
<1>1. CASE "paint" \notin snap.known
  <2>1. Repaint(snap) = <<>>
    BY <1>1 DEF Repaint, If
  <2> QED BY <1>1, <2>1
<1>2. CASE "paint" \in snap.known
  <2> DEFINE whole == Paint(Zones, snap.was.paint[ZoneOrder[1]])
             one(i) == Paint({ZoneOrder[i]}, snap.was.paint[ZoneOrder[i]])
             zoned == [i \in DOMAIN ZoneOrder |-> one(i)]
             s == <<whole>> \o zoned
  <2>1. ZoneOrder \in Seq(Zones) /\ (\A i \in 1..Len(ZoneOrder) : ZoneOrder[i] \in Zones)
        /\ DOMAIN ZoneOrder = 1..Len(ZoneOrder) /\ Len(ZoneOrder) \in Nat
    BY SelfTestAssumption
  <2>2. 1 \in 1..Len(ZoneOrder)
    BY <2>1, SelfTestAssumption
  <2>3. whole \in Ops /\ whole.does = "paint"
    <3>1. snap.was.paint[ZoneOrder[1]] \in Values
      BY <2>1, <2>2 DEF Fixture
    <3> QED BY <3>1, OpsAre
  <2>4. ASSUME NEW i \in 1..Len(ZoneOrder)
        PROVE  /\ one(i) \in Ops /\ one(i).does = "paint" /\ one(i).of = {ZoneOrder[i]}
               /\ one(i).to = snap.was.paint[ZoneOrder[i]]
    <3>1. snap.was.paint[ZoneOrder[i]] \in Values /\ {ZoneOrder[i]} \in SUBSET Zones
      BY <2>1 DEF Fixture
    <3> QED BY <3>1, OpsAre
  <2>5. Repaint(snap) = s
    BY <1>2 DEF Repaint, If
  <2> HIDE DEF whole, one
  <2>6. zoned \in Seq(Ops) /\ Len(zoned) = Len(ZoneOrder)
        /\ \A i \in 1..Len(ZoneOrder) : zoned[i] = one(i)
    BY <2>1, <2>4
  <2> HIDE DEF zoned
  <2>7. /\ s \in Seq(Ops) /\ Len(s) = Len(ZoneOrder) + 1 /\ s[1] = whole
        /\ \A k \in 2..Len(s) : k - 1 \in 1..Len(ZoneOrder) /\ s[k] = one(k - 1)
        /\ \A i \in 1..Len(ZoneOrder) : i + 1 \in 2..Len(s) /\ s[i + 1] = one(i)
    BY <2>1, <2>3, <2>6
  <2> HIDE DEF s
  <2>8. \A k \in 1..Len(s) : s[k].does = "paint"
    <3>1. \A k \in 1..Len(s) : k = 1 \/ k \in 2..Len(s)
      BY <2>7
    <3> QED BY <2>3, <2>4, <2>7, <3>1
  <2>9. ASSUME NEW z \in Zones
        PROVE  /\ \A k \in 2..Len(s) : Paints(s[k], z) => s[k].to = snap.was.paint[z]
               /\ \E k \in 2..Len(s) : Paints(s[k], z) /\ s[k].to = snap.was.paint[z]
    <3>1. \A k \in 2..Len(s) : Paints(s[k], z) => s[k].to = snap.was.paint[z]
      BY <2>4, <2>7 DEF Paints
    <3>2. PICK i \in 1..Len(ZoneOrder) : ZoneOrder[i] = z
      BY <2>1, SelfTestAssumption
    <3>3. Paints(one(i), z) /\ one(i).to = snap.was.paint[z]
      BY <2>4, <3>2 DEF Paints
    <3> QED BY <2>7, <3>1, <3>3
  <2> QED BY <2>5, <2>7, <2>8, <2>9
<1> QED BY <1>1, <1>2

(* What is on is switched on first, the colours follow, and what is off is  *)
(* switched off last.                                                       *)
MadeOf(d, snap, a, c) ==
    LET was == snap.was
        on == IF ByPower(d, snap) THEN "power" ELSE "zones"
        off == IF ByPower(d, snap) /\ ~On(was) THEN "power" ELSE "zones"
    IN  /\ Restore(d, snap) = a \o Repaint(snap) \o c
        /\ \A k \in 1..Len(a) : a[k].does # "paint" /\ a[k].to = TRUE
        /\ \A k \in 1..Len(c) :
              c[k].does # "paint" /\ c[k].to = FALSE /\ \A z \in c[k].of : ~was.lit[z]
        /\ on = "power" \/ "zones" \in snap.known =>
              \A z \in Zones : was.lit[z] =>
                 \E k \in 1..Len(a) : Switches(a[k], z, TRUE) /\ a[k].does = on
        /\ off = "power" \/ "zones" \in snap.known =>
              \A z \in Zones : ~was.lit[z] =>
                 \E k \in 1..Len(c) : Switches(c[k], z, FALSE) /\ c[k].does = off

LEMMA RestoreParts ==
    ASSUME NEW d, NEW snap, snap.was \in Fixture
    PROVE  \E a, c \in Seq(Ops) : MadeOf(d, snap, a, c)
<1> DEFINE was == snap.was
           power == d \in Powered /\ "power" \in snap.known
           zones(b) == {z \in Zones : was.lit[z] = b}
           Zoned(b) == If("zones" \in snap.known, Switched(zones(b), b))
           a == IF power THEN If(On(was), <<Power(TRUE)>>) ELSE Zoned(TRUE)
           c == IF power /\ ~On(was) THEN <<Power(FALSE)>> ELSE Zoned(FALSE)
<1>1. Restore(d, snap) = a \o Repaint(snap) \o c
  BY DEF Restore
<1>2. ASSUME NEW b \in BOOLEAN
      PROVE  /\ Zoned(b) \in Seq(Ops)
             /\ \A k \in 1..Len(Zoned(b)) :
                   Zoned(b)[k].does = "zones" /\ Zoned(b)[k].to = b
                   /\ \A z \in Zoned(b)[k].of : was.lit[z] = b
             /\ "zones" \in snap.known => \A z \in Zones : was.lit[z] = b =>
                   \E k \in 1..Len(Zoned(b)) : Switches(Zoned(b)[k], z, b) /\ Zoned(b)[k].does = "zones"
  <2>1. CASE "zones" \in snap.known
    <3> DEFINE s == Switched(zones(b), b)
    <3>1. Zoned(b) = s
      BY <2>1 DEF If
    <3>2. /\ s \in Seq(Ops)
          /\ \A k \in 1..Len(s) : s[k].does = "zones" /\ s[k].to = b /\ s[k].of \subseteq zones(b)
          /\ \A z \in zones(b) : \E k \in 1..Len(s) : s[k].does = "zones" /\ s[k].to = b /\ z \in s[k].of
      <4>1. zones(b) \in SUBSET Zones
        OBVIOUS
      <4> DEFINE zs == zones(b)
      <4> HIDE DEF zs
      <4>2. zs \in SUBSET Zones
        BY <4>1 DEF zs
      <4>3. b \in BOOLEAN
        BY <1>2
      <4>4. SwitchesThose(Switched(zs, b), zs, b)
        BY <4>2, <4>3, SwitchedHolds
      <4>5. SwitchesThose(s, zones(b), b)
        BY <4>4, Zenon DEF zs
      <4> QED BY <4>5, Zenon DEF SwitchesThose
    <3> HIDE DEF s
    <3>3. \A k \in 1..Len(s) : \A z \in s[k].of : was.lit[z] = b
      BY <3>2
    <3>4. \A z \in Zones : was.lit[z] = b => \E k \in 1..Len(s) : Switches(s[k], z, b) /\ s[k].does = "zones"
      BY <3>2 DEF Switches
    <3> HIDE DEF Zoned, zones
    <3> QED BY <3>1, <3>2, <3>3, <3>4
  <2>2. CASE "zones" \notin snap.known
    <3>1. Zoned(b) = <<>>
      BY <2>2 DEF If
    <3> HIDE DEF Zoned
    <3> QED BY <2>2, <3>1
  <2> QED BY <2>1, <2>2
<1> HIDE DEF Zoned
<1>3. \A z \in Zones : was.lit[z] \in BOOLEAN
  BY DEF Fixture
<1>4. /\ a \in Seq(Ops)
      /\ \A k \in 1..Len(a) : a[k].does # "paint" /\ a[k].to = TRUE
      /\ power \/ "zones" \in snap.known =>
            \A z \in Zones : was.lit[z] =>
               \E k \in 1..Len(a) : Switches(a[k], z, TRUE)
                                     /\ a[k].does = IF power THEN "power" ELSE "zones"
  <2>1. CASE power /\ On(was)
    <3>1. a = <<Power(TRUE)>>
      BY <2>1 DEF If
    <3>2. Power(TRUE) \in Ops /\ Power(TRUE).does = "power" /\ Power(TRUE).of = Zones /\ Power(TRUE).to = TRUE
      BY OpsAre
    <3> DEFINE op == Power(TRUE)
    <3>3. Len(<<op>>) = 1 /\ <<op>>[1] = op /\ <<op>> \in Seq(Ops)
      <4> HIDE DEF op
      <4>1. op \in Ops
        BY <3>2 DEF op
      <4> QED BY <4>1
    <3>5. Len(a) = 1 /\ a[1] = op /\ a \in Seq(Ops)
      BY <3>1, <3>3, Zenon
    <3> HIDE DEF a
    <3>6. op \in Ops /\ op.does = "power" /\ op.of = Zones /\ op.to = TRUE
      BY <3>2
    <3> HIDE DEF op, power
    <3>7. 1 \in 1..Len(a) /\ \A k \in 1..Len(a) : a[k] = op
      BY <3>5
    <3> QED BY <2>1, <3>5, <3>6, <3>7 DEF Switches
  <2>2. CASE power /\ ~On(was)
    <3>1. a = <<>>
      BY <2>2 DEF If
    <3>2. \A z \in Zones : ~was.lit[z]
      BY <1>3, <2>2 DEF On
    <3> HIDE DEF a
    <3> QED BY <3>1, <3>2
  <2>3. CASE ~power
    <3>1. a = Zoned(TRUE)
      BY <2>3
    <3> HIDE DEF a
    <3> QED BY <1>2, <1>3, <2>3, <3>1
  <2> QED BY <2>1, <2>2, <2>3
<1>5. /\ c \in Seq(Ops)
      /\ \A k \in 1..Len(c) : c[k].does # "paint" /\ c[k].to = FALSE /\ \A z \in c[k].of : ~was.lit[z]
      /\ (power /\ ~On(was)) \/ "zones" \in snap.known =>
            \A z \in Zones : ~was.lit[z] =>
               \E k \in 1..Len(c) : Switches(c[k], z, FALSE)
                                     /\ c[k].does = IF power /\ ~On(was) THEN "power" ELSE "zones"
  <2>1. CASE power /\ ~On(was)
    <3>1. c = <<Power(FALSE)>>
      BY <2>1
    <3>2. Power(FALSE) \in Ops /\ Power(FALSE).does = "power" /\ Power(FALSE).of = Zones /\ Power(FALSE).to = FALSE
      BY OpsAre
    <3> DEFINE op == Power(FALSE)
    <3>3. Len(<<op>>) = 1 /\ <<op>>[1] = op /\ <<op>> \in Seq(Ops)
      <4> HIDE DEF op
      <4>1. op \in Ops
        BY <3>2 DEF op
      <4> QED BY <4>1
    <3>5. Len(c) = 1 /\ c[1] = op /\ c \in Seq(Ops)
      BY <3>1, <3>3, Zenon
    <3> HIDE DEF c
    <3>6. op \in Ops /\ op.does = "power" /\ op.of = Zones /\ op.to = FALSE
      BY <3>2
    <3> HIDE DEF op, power
    <3>7. 1 \in 1..Len(c) /\ \A k \in 1..Len(c) : c[k] = op
      BY <3>5
    <3>4. \A z \in Zones : ~was.lit[z]
      BY <1>3, <2>1 DEF On
    <3> QED BY <2>1, <3>4, <3>5, <3>6, <3>7 DEF Switches
  <2>2. CASE ~(power /\ ~On(was))
    <3>1. c = Zoned(FALSE)
      BY <2>2
    <3> HIDE DEF c
    <3> QED BY <1>2, <1>3, <2>2, <3>1
  <2> QED BY <2>1, <2>2
<1>6. power <=> ByPower(d, snap)
  BY DEF ByPower
<1> HIDE DEF a, c, power
<1>7. MadeOf(d, snap, a, c)
  BY <1>1, <1>4, <1>5, <1>6 DEF MadeOf
<1> QED BY <1>4, <1>5, <1>7

LEMMA JoinedTwo ==
    ASSUME NEW a \in Seq(Ops), NEW b \in Seq(Ops)
    PROVE  /\ a \o b \in Seq(Ops) /\ Len(a \o b) = Len(a) + Len(b)
           /\ Len(a) \in Nat /\ Len(b) \in Nat
           /\ \A k \in 1..Len(a) : (a \o b)[k] = a[k]
           /\ \A k \in 1..Len(b) : (a \o b)[Len(a) + k] = b[k]
  OBVIOUS

LEMMA Joined ==
    ASSUME NEW a \in Seq(Ops), NEW b \in Seq(Ops), NEW c \in Seq(Ops)
    PROVE  LET s == a \o b \o c
           IN  /\ s \in Seq(Ops) /\ Len(s) = Len(a) + Len(b) + Len(c)
               /\ Len(a) \in Nat /\ Len(b) \in Nat /\ Len(c) \in Nat
               /\ \A k \in 1..Len(a) : s[k] = a[k]
               /\ \A k \in 1..Len(b) : s[Len(a) + k] = b[k]
               /\ \A k \in 1..Len(c) : s[Len(a) + Len(b) + k] = c[k]
<1> DEFINE ab == a \o b
           s == ab \o c
           la == Len(a)
           lb == Len(b)
           lc == Len(c)
           lab == Len(ab)
<1>1. /\ ab \in Seq(Ops) /\ lab = la + lb /\ la \in Nat /\ lb \in Nat
      /\ \A k \in 1..la : ab[k] = a[k]
      /\ \A k \in 1..lb : ab[la + k] = b[k]
  BY JoinedTwo
<1> HIDE DEF ab
<1>2. /\ s \in Seq(Ops) /\ Len(s) = lab + lc /\ lc \in Nat
      /\ \A k \in 1..lab : s[k] = ab[k]
      /\ \A k \in 1..lc : s[lab + k] = c[k]
  BY <1>1, JoinedTwo
<1> HIDE DEF s, la, lb, lc, lab
<1>3. (\A k \in 1..lb : la + k \in 1..lab) /\ (\A k \in 1..la : k \in 1..lab)
  BY <1>1
<1>4. /\ s \in Seq(Ops) /\ Len(s) = la + lb + lc
      /\ la \in Nat /\ lb \in Nat /\ lc \in Nat
      /\ \A k \in 1..la : s[k] = a[k]
      /\ \A k \in 1..lb : s[la + k] = b[k]
      /\ \A k \in 1..lc : s[la + lb + k] = c[k]
  BY <1>1, <1>2, <1>3
<1> QED BY <1>4 DEF s, ab, la, lb, lc

(* A restore puts back all it may know, of any device in any state.         *)
LEMMA RestoreComing ==
    ASSUME NEW d, NEW f, NEW snap, snap.was \in Fixture
    PROVE  Restore(d, snap) \in Seq(Ops) /\ Coming(d, f, Restore(d, snap), {}, snap)
<1> DEFINE was == snap.was
           on == IF ByPower(d, snap) THEN "power" ELSE "zones"
           off == IF ByPower(d, snap) /\ ~On(was) THEN "power" ELSE "zones"
           b == Repaint(snap)
           s == Restore(d, snap)
<1>0. PICK a \in Seq(Ops), c \in Seq(Ops) : MadeOf(d, snap, a, c)
  BY RestoreParts
<1>1.    /\ s = a \o b \o c
         /\ \A k \in 1..Len(a) : a[k].does # "paint" /\ a[k].to = TRUE
         /\ \A k \in 1..Len(c) :
               c[k].does # "paint" /\ c[k].to = FALSE /\ \A z \in c[k].of : ~was.lit[z]
         /\ on = "power" \/ "zones" \in snap.known =>
               \A z \in Zones : was.lit[z] =>
                  \E k \in 1..Len(a) : Switches(a[k], z, TRUE) /\ a[k].does = on
         /\ off = "power" \/ "zones" \in snap.known =>
               \A z \in Zones : ~was.lit[z] =>
                  \E k \in 1..Len(c) : Switches(c[k], z, FALSE) /\ c[k].does = off
  BY <1>0 DEF MadeOf
<1>2. /\ b \in Seq(Ops) /\ \A k \in 1..Len(b) : b[k].does = "paint"
      /\ "paint" \in snap.known => \A z \in Zones :
            /\ \A k \in 2..Len(b) : Paints(b[k], z) => b[k].to = was.paint[z]
            /\ \E k \in 2..Len(b) : Paints(b[k], z) /\ b[k].to = was.paint[z]
  BY RepaintHolds
<1> HIDE DEF was, b, s, on, off
<1> DEFINE la == Len(a)
           lb == Len(b)
           lc == Len(c)
<1>3. /\ s \in Seq(Ops) /\ Len(s) = la + lb + lc /\ la \in Nat /\ lb \in Nat /\ lc \in Nat
      /\ \A k \in 1..la : s[k] = a[k]
      /\ \A k \in 1..lb : s[la + k] = b[k]
      /\ \A k \in 1..lc : s[la + lb + k] = c[k]
  BY <1>1, <1>2, Joined
<1> HIDE DEF la, lb, lc
<1>4. ASSUME NEW k \in 1..Len(s)
      PROVE  \/ k \in 1..la /\ s[k] = a[k]
             \/ k \notin 1..la /\ k - la \in 1..lb /\ s[k] = b[k - la]
             \/ k \notin 1..(la + lb) /\ k - la - lb \in 1..lc /\ s[k] = c[k - la - lb]
  <2>1. \/ k \in 1..la
        \/ k \notin 1..la /\ k - la \in 1..lb /\ la + (k - la) = k
        \/ k \notin 1..(la + lb) /\ k - la - lb \in 1..lc /\ la + lb + (k - la - lb) = k
    BY <1>3
  <2>2. CASE k \in 1..la
    BY <1>3, <2>2
  <2>3. CASE k \notin 1..la /\ k - la \in 1..lb /\ la + (k - la) = k
    BY <1>3, <2>3
  <2>4. CASE k \notin 1..(la + lb) /\ k - la - lb \in 1..lc /\ la + lb + (k - la - lb) = k
    BY <1>3, <2>4
  <2> QED BY <2>1, <2>2, <2>3, <2>4
<1>5. ASSUME "paint" \in snap.known, NEW z \in Zones
      PROVE  Repainted(f, s, {}, z, was.paint[z])
  <2>1. PICK m \in 2..lb : Paints(b[m], z) /\ b[m].to = was.paint[z]
    BY <1>2, <1>5 DEF lb
  <2>2. la + m \in 1..Len(s) /\ s[la + m] = b[m]
    BY <1>3
  <2>3. ASSUME NEW i \in 1..Len(s), Paints(s[i], z), s[i].to # was.paint[z]
        PROVE  i < la + m
    <3>1. s[i].does = "paint"
      BY <2>3 DEF Paints
    <3>2. i - la \in 1..lb /\ s[i] = b[i - la]
      BY <1>1, <1>4, <3>1 DEF la, lc
    <3>3. i - la \notin 2..lb
      BY <1>2, <1>5, <2>3, <3>2 DEF lb
    <3> QED BY <1>3, <3>2, <3>3
  <2>4. ASSUME NEW i \in 1..Len(s), Paints(s[i], z), s[i].to # was.paint[z]
        PROVE  \E j \in (i + 1)..Len(s) : Paints(s[j], z) /\ s[j].to = was.paint[z]
    <3>1. la + m \in (i + 1)..Len(s)
      BY <1>3, <2>2, <2>3, <2>4
    <3> QED BY <2>1, <2>2, <3>1
  <2> QED BY <2>1, <2>2, <2>4 DEF Repainted
<1>6. ASSUME on = "power" \/ "zones" \in snap.known, NEW z \in Zones, was.lit[z]
      PROVE  Relit(f, s, {}, z, on)
  <2>1. PICK m \in 1..la : Switches(a[m], z, TRUE) /\ a[m].does = on
    BY <1>1, <1>6 DEF la
  <2>2. m \in 1..Len(s) /\ s[m] = a[m]
    BY <1>3
  <2>3. ASSUME NEW i \in 1..Len(s) PROVE ~Switches(s[i], z, FALSE)
    <3>1. \A k \in 1..la : ~Switches(a[k], z, FALSE)
      BY <1>1 DEF Switches, la
    <3>2. \A k \in 1..lb : ~Switches(b[k], z, FALSE)
      BY <1>2 DEF Switches, lb
    <3>3. \A k \in 1..lc : ~Switches(c[k], z, FALSE)
      BY <1>1, <1>6 DEF Switches, lc
    <3> QED BY <1>4, <3>1, <3>2, <3>3
  <2> QED BY <2>1, <2>2, <2>3 DEF Relit
<1>7. ASSUME off = "power" \/ "zones" \in snap.known, NEW z \in Zones, ~was.lit[z]
      PROVE  Darkened(f, s, {}, z, off)
  <2>1. PICK m \in 1..lc : Switches(c[m], z, FALSE) /\ c[m].does = off
    BY <1>1, <1>7 DEF lc
  <2> DEFINE i == la + lb + m
  <2>2. i \in 1..Len(s) /\ s[i] = c[m]
    BY <1>3
  <2>3. ASSUME NEW j \in (i + 1)..Len(s)
        PROVE  s[j].does # "paint" /\ ~Switches(s[j], z, TRUE)
    <3>1. j \in 1..Len(s) /\ j - la \notin 1..lb /\ j \notin 1..la
      BY <1>3
    <3>2. j - la - lb \in 1..lc /\ s[j] = c[j - la - lb]
      BY <1>4, <3>1
    <3> QED BY <1>1, <3>2 DEF Switches, lc
  <2> HIDE DEF i
  <2> QED BY <2>1, <2>2, <2>3 DEF Darkened, Dark
<1>8. Coming(d, f, s, {}, snap)
  BY <1>5, <1>6, <1>7 DEF Coming, was, on, off
<1> QED BY <1>3, <1>8 DEF s

(* A restore that is done.                                                  *)
IsBack(d, f, failed, snap) ==
    /\ "zones" \in snap.known \ failed /\ "power" \notin failed => f.lit = snap.was.lit
    /\ d \in Powered /\ "power" \in snap.known \ failed => On(f) = On(snap.was)
    /\ "paint" \in snap.known \ failed => f.paint = snap.was.paint
LEMMA ComingDone ==
    ASSUME NEW d, NEW f \in Fixture, NEW failed, NEW snap, snap.was \in Fixture,
           Coming(d, f, <<>>, failed, snap)
    PROVE  IsBack(d, f, failed, snap)
<1> DEFINE was == snap.was
           on == IF ByPower(d, snap) THEN "power" ELSE "zones"
           off == IF ByPower(d, snap) /\ ~On(was) THEN "power" ELSE "zones"
<1>1. /\ f.lit \in [Zones -> BOOLEAN] /\ f.paint \in [Zones -> Values]
      /\ was.lit \in [Zones -> BOOLEAN] /\ was.paint \in [Zones -> Values]
  BY DEF Fixture
<1>2. ASSUME NEW z \in Zones, "paint" \in snap.known \ failed PROVE f.paint[z] = was.paint[z]
  BY <1>2 DEF Coming, Repainted
<1>3. ASSUME on = "power" \/ "zones" \in snap.known, on \notin failed, NEW z \in Zones, was.lit[z]
      PROVE  f.lit[z]
  BY <1>3 DEF Coming, Relit
<1>4. ASSUME off = "power" \/ "zones" \in snap.known, off \notin failed, NEW z \in Zones, ~was.lit[z]
      PROVE  ~f.lit[z]
  BY <1>4 DEF Coming, Darkened
<1> HIDE DEF was
<1>5. ASSUME "zones" \in snap.known \ failed, "power" \notin failed PROVE f.lit = was.lit
  <2>1. \A z \in Zones : f.lit[z] = was.lit[z]
    BY <1>1, <1>3, <1>4, <1>5
  <2> QED BY <1>1, <2>1
<1>6. ASSUME d \in Powered, "power" \in snap.known \ failed PROVE On(f) = On(was)
  <2>1. ByPower(d, snap)
    BY <1>6 DEF ByPower
  <2>2. CASE On(was)
    <3>1. PICK z \in Zones : was.lit[z]
      BY <2>2 DEF On
    <3>2. f.lit[z]
      BY <1>3, <1>6, <2>1, <3>1
    <3> QED BY <2>2, <3>2 DEF On
  <2>3. CASE ~On(was)
    <3>1. \A z \in Zones : ~was.lit[z]
      BY <2>3 DEF On
    <3>2. \A z \in Zones : ~f.lit[z]
      BY <1>4, <1>6, <2>1, <2>3, <3>1
    <3> QED BY <2>3, <3>2 DEF On
  <2> QED BY <2>2, <2>3
<1>7. ASSUME "paint" \in snap.known \ failed PROVE f.paint = was.paint
  BY <1>1, <1>2, <1>7
<1> QED BY <1>5, <1>6, <1>7, Zenon DEF was, IsBack

-----------------------------------------------------------------------------
(* What a test owes its device, f as it is.                                 *)
Owes(d, f, t) ==
    /\ t.snap.was \in Fixture
    /\ t.phase \in {"exercise", "restore"} => t.todo \in Seq(Ops)
    /\ t.phase \in {"read", "exercise"} => t.failed = {}
    /\ t.phase = "restore" => Coming(d, f, t.todo, t.failed, t.snap)
PutInv ==
    /\ fixture \in [Devices -> Fixture]
    /\ \A d \in Devices : Owes(d, fixture[d], test[d])

Untouched == [lit |-> All(FALSE), paint |-> All("own")]
LEMMA UntouchedIs == Untouched \in Fixture
<1> DEFINE lit == All(FALSE)
           paint == All("own")
<1>1. lit \in [Zones -> BOOLEAN] /\ paint \in [Zones -> Values]
  BY DEF All, Values
<1> HIDE DEF lit, paint
<1>2. [lit |-> lit, paint |-> paint] \in Fixture
  BY <1>1 DEF Fixture
<1> QED BY <1>2 DEF Untouched, lit, paint

LEMMA NoTestOwes ==
    /\ NoTest.snap.was \in Fixture /\ NoTest.failed = {}
    /\ \A d, f : Owes(d, f, NoTest) /\ Owes(d, f, [NoTest EXCEPT !.phase = "ended"])
<1> DEFINE snap == [known |-> {}, was |-> Untouched, read |-> FALSE]
<1>1. NoTest = [phase |-> "none", todo |-> <<>>, failed |-> {}, late |-> FALSE,
                cut |-> FALSE, snap |-> snap]
  BY Zenon DEF NoTest, Untouched
<1>2. snap.was \in Fixture
  BY UntouchedIs
<1> HIDE DEF snap
<1> QED BY <1>1, <1>2 DEF Owes

LEMMA PutInitially == TestInit => PutInv
<1> SUFFICES ASSUME TestInit PROVE PutInv
  OBVIOUS
<1>1. ASSUME NEW l \in [Zones -> BOOLEAN] PROVE [lit |-> l, paint |-> All("own")] \in Fixture
  <2> DEFINE paint == All("own")
  <2>1. paint \in [Zones -> Values]
    BY DEF All, Values
  <2> HIDE DEF paint
  <2>2. [lit |-> l, paint |-> paint] \in Fixture
    BY <2>1 DEF Fixture
  <2> QED BY <2>2 DEF paint
<1>2. fixture \in [Devices -> Fixture]
  <2> DEFINE Left0 == {[lit |-> l, paint |-> All("own")] : l \in [Zones -> BOOLEAN]}
  <2>1. Left0 \subseteq Fixture
    BY <1>1
  <2>2. fixture \in [Devices -> Left0]
    BY DEF TestInit
  <2> HIDE DEF Left0
  <2> QED BY <2>1, <2>2
<1>3. \A d \in Devices : test[d] = NoTest
  BY DEF TestInit
<1> QED BY <1>2, <1>3, NoTestOwes DEF PutInv

(* An exercise is of operations the fixture knows.                          *)
LEMMA ExerciseIs == \A d, snap : Exercise(d, snap) \in Seq(Ops)
<1> SUFFICES ASSUME NEW d, NEW snap PROVE Exercise(d, snap) \in Seq(Ops)
  OBVIOUS
<1> DEFINE steps(z) == <<ZonePower(z, TRUE), Paint({z}, "test"), ZonePower(z, FALSE)>>
           seqs == [i \in DOMAIN ZoneOrder |-> steps(ZoneOrder[i])]
           on == If(d \in Powered, <<Power(TRUE)>>)
           whole == <<Paint(Zones, "test")>>
           off == If(d \in Powered /\ "power" \in snap.known, <<Power(FALSE)>>)
<1>1. ZoneOrder \in Seq(Zones) /\ (\A i \in 1..Len(ZoneOrder) : ZoneOrder[i] \in Zones)
      /\ DOMAIN ZoneOrder = 1..Len(ZoneOrder) /\ Len(ZoneOrder) \in Nat
  BY SelfTestAssumption
<1>2. ASSUME NEW z \in Zones PROVE steps(z) \in Seq(Ops)
  <2> DEFINE a == ZonePower(z, TRUE)
             b == Paint({z}, "test")
             c == ZonePower(z, FALSE)
  <2>1. a \in Ops /\ b \in Ops /\ c \in Ops
    BY OpsAre DEF Values
  <2> HIDE DEF a, b, c
  <2>2. <<a, b, c>> \in Seq(Ops)
    BY <2>1
  <2> QED BY <2>2 DEF a, b, c
<1>3. FlattenSeq(seqs) \in Seq(Ops)
  <2>1. seqs \in Seq(Seq(Ops))
    <3> HIDE DEF steps
    <3> QED BY <1>1, <1>2
  <2> HIDE DEF seqs
  <2> QED BY <2>1, FlattenHolds
<1>4. ASSUME NEW op \in Ops, NEW b
      PROVE  <<op>> \in Seq(Ops) /\ If(b, <<op>>) \in Seq(Ops)
  BY DEF If
<1>5. on \in Seq(Ops) /\ whole \in Seq(Ops) /\ off \in Seq(Ops)
  <2> DEFINE a == Power(TRUE)
             b == Paint(Zones, "test")
             c == Power(FALSE)
  <2>1. a \in Ops /\ b \in Ops /\ c \in Ops
    BY OpsAre DEF Values
  <2> HIDE DEF a, b, c
  <2>2. /\ If(d \in Powered, <<a>>) \in Seq(Ops) /\ <<b>> \in Seq(Ops)
        /\ If(d \in Powered /\ "power" \in snap.known, <<c>>) \in Seq(Ops)
    BY <1>4, <2>1
  <2> QED BY <2>2 DEF a, b, c
<1> DEFINE zoned == FlattenSeq(seqs)
<1>6. Exercise(d, snap) = on \o whole \o zoned \o off
  BY DEF Exercise
<1> HIDE DEF on, whole, zoned, off
<1>7. zoned \in Seq(Ops)
  BY <1>3 DEF zoned
<1> QED BY <1>5, <1>6, <1>7

(* A step of d's own, its fixture left as f and its test as t.              *)
LEMMA OwnStep ==
    ASSUME SelfInv, PutInv, NEW d \in Devices, NEW f \in Fixture, NEW t,
           fixture' = [fixture EXCEPT ![d] = f], test' = [test EXCEPT ![d] = t], Owes(d, f, t)
    PROVE  PutInv'
<1>1. \A e \in Devices : /\ test'[e] = IF e = d THEN t ELSE test[e]
                         /\ fixture'[e] = IF e = d THEN f ELSE fixture[e]
  BY DEF SelfInv, Shape, PutInv
<1>2. fixture' \in [Devices -> Fixture]
  BY DEF PutInv
<1>3. ASSUME NEW e \in Devices PROVE Owes(e, fixture'[e], test'[e])
  <2>1. CASE e = d
    BY <1>1, <2>1
  <2>2. CASE e # d
    <3>1. test'[e] = test[e] /\ fixture'[e] = fixture[e]
      BY <1>1, <2>2
    <3>2. Owes(e, fixture[e], test[e])
      BY DEF PutInv
    <3> QED BY <3>1, <3>2
  <2> QED BY <2>1, <2>2
<1> QED BY <1>2, <1>3 DEF PutInv
LEMMA OwnTest ==
    ASSUME SelfInv, PutInv, NEW d \in Devices, NEW t,
           fixture' = fixture, test' = [test EXCEPT ![d] = t], Owes(d, fixture[d], t)
    PROVE  PutInv'
<1>1. fixture[d] \in Fixture /\ fixture' = [fixture EXCEPT ![d] = fixture[d]]
  BY DEF PutInv
<1> QED BY <1>1, OwnStep

ReadAs(d, snap) ==
    /\ snap.was \in {fixture[d], Untouched}
    /\ test' = [test EXCEPT ![d] = [@ EXCEPT !.phase = "exercise", !.snap = snap,
                                             !.todo = Exercise(d, snap)]]
LEMMA PutInductive == SelfInv /\ PutInv /\ [TestNext]_vars => PutInv'
<1> SUFFICES ASSUME SelfInv, PutInv, [TestNext]_vars PROVE PutInv'
  OBVIOUS
<1>1. CASE UNCHANGED <<fixture, test>>
  BY <1>1 DEF PutInv
<1>2. ASSUME NEW d \in Devices, Press(d) PROVE PutInv'
  <2>1. CASE Busy
    BY <1>1, <1>2, <2>1 DEF Press
  <2>2. CASE ~Busy
    <3> DEFINE late == entry[d] = "stopping"
               t == [NoTest EXCEPT !.phase = "read", !.late = late]
    <3>1. fixture' = fixture /\ test' = [test EXCEPT ![d] = t]
      BY <1>2, <2>2 DEF Press
    <3>2. t.phase = "read" /\ t.failed = NoTest.failed /\ t.snap = NoTest.snap
      <4> HIDE DEF late
      <4> QED BY NoTestIs DEF TestShape
    <3> HIDE DEF t
    <3>3. Owes(d, fixture[d], t)
      BY <3>2, NoTestOwes DEF Owes
    <3> QED BY <3>1, <3>3, OwnTest
  <2> QED BY <2>1, <2>2
<1>3. ASSUME NEW d \in Devices, ReadFirst(d) PROVE PutInv'
  <2>0. PICK snap : ReadAs(d, snap)
    <3>1. PICK read \in BOOLEAN, known \in SUBSET Fields, was \in {fixture[d], Untouched} :
             LET snap == [known |-> known, was |-> was, read |-> read]
             IN  test' = [test EXCEPT ![d] = [@ EXCEPT !.phase = "exercise", !.snap = snap,
                                                       !.todo = Exercise(d, snap)]]
      BY <1>3 DEF ReadFirst, Untouched
    <3> DEFINE snap == [known |-> known, was |-> was, read |-> read]
    <3>2. ReadAs(d, snap)
      BY <3>1 DEF ReadAs
    <3> QED BY <3>2, Zenon
  <2>1. /\ snap.was \in {fixture[d], Untouched}
        /\ test' = [test EXCEPT ![d] = [@ EXCEPT !.phase = "exercise", !.snap = snap,
                                                 !.todo = Exercise(d, snap)]]
    BY <2>0 DEF ReadAs
  <2> DEFINE todo == Exercise(d, snap)
             t == [test[d] EXCEPT !.phase = "exercise", !.snap = snap, !.todo = todo]
  <2>2. test' = [test EXCEPT ![d] = t] /\ fixture' = fixture /\ test[d].phase = "read"
    BY <1>3, <2>1 DEF ReadFirst
  <2>3. todo \in Seq(Ops)
    BY ExerciseIs
  <2>4. snap.was \in Fixture
    BY <2>1, UntouchedIs DEF PutInv
  <2> HIDE DEF todo
  <2>5. t.phase = "exercise" /\ t.snap = snap /\ t.todo = todo /\ t.failed = test[d].failed
    BY DEF SelfInv, Shape, TestShape
  <2>6. test[d].failed = {}
    BY <2>2 DEF PutInv, Owes
  <2> HIDE DEF t
  <2>7. Owes(d, fixture[d], t)
    BY <2>3, <2>4, <2>5, <2>6 DEF Owes
  <2> QED BY <2>2, <2>7, OwnTest
<1>4. ASSUME NEW d \in Devices, Operate(d) PROVE PutInv'
  <2> DEFINE op == Head(test[d].todo)
             rest == Tail(test[d].todo)
             noted(b) == IF b /\ test[d].phase = "restore"
                         THEN test[d].failed \cup {op.does} ELSE test[d].failed
             t(b) == [test[d] EXCEPT !.todo = rest, !.failed = noted(b)]
             g(b) == IF b THEN Driven(fixture[d], op) ELSE fixture[d]
  <2>1. PICK lands, acked \in BOOLEAN :
           /\ acked => lands
           /\ fixture' = IF lands THEN [fixture EXCEPT ![d] = Driven(@, op)] ELSE fixture
           /\ test' = [test EXCEPT ![d] = t(~acked)]
    BY <1>4 DEF Operate, Continued
  <2>2. test[d].todo \in Seq(Ops) /\ test[d].todo # <<>> /\ test[d].phase \in {"exercise", "restore"}
        /\ Owes(d, fixture[d], test[d]) /\ fixture[d] \in Fixture
    BY <1>4 DEF Operate, PutInv, Owes
  <2>3. op \in Ops /\ rest \in Seq(Ops)
    BY <2>2, TailIs
  <2>4. Driven(fixture[d], op) \in Fixture
    BY <2>2, <2>3, DrivenIs
  <2>5. g(lands) \in Fixture /\ fixture' = [fixture EXCEPT ![d] = g(lands)]
    BY <2>1, <2>2, <2>4 DEF PutInv
  <2>6. test[d].phase = "restore" => Stepped(fixture[d], op, test[d].failed, g(lands), noted(~acked))
    BY <2>1 DEF Stepped
  <2>7. test[d].phase = "exercise" => noted(~acked) = {}
    BY <2>2 DEF Owes
  <2> DEFINE u == t(~acked)
             f == g(lands)
             bad == noted(~acked)
  <2>8. /\ u.phase = test[d].phase /\ u.snap = test[d].snap
        /\ u.todo = rest /\ u.failed = bad
    <3> HIDE DEF rest, noted
    <3> QED BY DEF SelfInv, Shape, TestShape
  <2>9. test' = [test EXCEPT ![d] = u]
    BY <2>1
  <2> HIDE DEF u, t, g, f, noted, bad
  <2>10. test[d].phase = "restore" => Coming(d, f, rest, bad, test[d].snap)
    <3>1. test[d].phase = "restore" => /\ Stepped(fixture[d], Head(test[d].todo), test[d].failed, f, bad)
                                       /\ Coming(d, fixture[d], test[d].todo, test[d].failed, test[d].snap)
      BY <2>2, <2>6 DEF f, bad, Owes
    <3>2. test[d].snap.was \in Fixture
      BY <2>2 DEF Owes
    <3> QED BY <2>2, <3>1, <3>2, ComingStep
  <2>11. Owes(d, f, u)
    <3> HIDE DEF rest
    <3> QED BY <2>2, <2>3, <2>7, <2>8, <2>10 DEF Owes, bad
  <2>12. f \in Fixture /\ fixture' = [fixture EXCEPT ![d] = f]
    BY <2>5 DEF f
  <2> QED BY <2>9, <2>11, <2>12, OwnStep
<1>5. ASSUME NEW d \in Devices, PutBackNext(d) PROVE PutInv'
  <2> DEFINE todo == Restore(d, test[d].snap)
             t == [test[d] EXCEPT !.phase = "restore", !.todo = todo]
  <2>1. test' = [test EXCEPT ![d] = t] /\ fixture' = fixture /\ test[d].phase = "exercise"
    BY <1>5 DEF PutBackNext
  <2>2. test[d].snap.was \in Fixture /\ test[d].failed = {}
    BY <2>1 DEF PutInv, Owes
  <2>3. todo \in Seq(Ops) /\ Coming(d, fixture[d], todo, {}, test[d].snap)
    BY <2>2, RestoreComing
  <2> HIDE DEF todo
  <2>4. t.phase = "restore" /\ t.snap = test[d].snap /\ t.todo = todo /\ t.failed = test[d].failed
    BY DEF SelfInv, Shape, TestShape
  <2> HIDE DEF t
  <2>5. Owes(d, fixture[d], t)
    BY <2>2, <2>3, <2>4 DEF Owes
  <2> QED BY <2>1, <2>5, OwnTest
<1>6. ASSUME NEW d \in Devices, EndTest(d) \/ Abandon(d) PROVE PutInv'
  <2> DEFINE t == [NoTest EXCEPT !.phase = "ended"]
  <2>1. Ends(d, t) \/ Ends(d, NoTest)
    BY <1>6 DEF EndTest, Abandon
  <2>2. Owes(d, fixture[d], t) /\ Owes(d, fixture[d], NoTest)
    BY NoTestOwes
  <2> HIDE DEF t
  <2> QED BY <2>1, <2>2, OwnTest DEF Ends
<1>7. ASSUME NEW d \in Devices, CloseLink(d) PROVE PutInv'
  <2> DEFINE t == [test[d] EXCEPT !.cut = Active(d)]
  <2>1. test' = [test EXCEPT ![d] = t] /\ fixture' = fixture
    BY <1>7 DEF CloseLink
  <2>2. /\ t.phase = test[d].phase /\ t.snap = test[d].snap
        /\ t.todo = test[d].todo /\ t.failed = test[d].failed
    BY DEF SelfInv, Shape, TestShape
  <2> HIDE DEF t
  <2>3. Owes(d, fixture[d], t)
    BY <2>2 DEF PutInv, Owes
  <2> QED BY <2>1, <2>3, OwnTest
<1>8. ASSUME NEW d \in Devices,
             StartUnload(d) \/ FailUnload(d) \/ UnloadPlatforms(d) \/ Stop(d) \/ SetUp(d)
      PROVE PutInv'
  BY <1>1, <1>8 DEF StartUnload, FailUnload, UnloadPlatforms, Stop, SetUp, EntryBecomes
<1>9. ASSUME NEW level \in Levels, SetLevel(level) PROVE PutInv'
  BY <1>1, <1>9 DEF SetLevel
<1>10. CASE UNCHANGED vars
  BY <1>1, <1>10 DEF vars
<1> QED
  BY <1>2, <1>3, <1>4, <1>5, <1>6, <1>7, <1>8, <1>9, <1>10 DEF TestNext, Close, TimeOut

(* A test ends with nothing of its restore left to do.                      *)
LEMMA EndsRestored ==
    ASSUME SelfInv, [TestNext]_vars, NEW d \in Devices,
           test[d].phase = "restore", test'[d].phase = "ended"
    PROVE  test[d].todo = <<>>
<1>1. ASSUME NEW e \in Devices, NEW t, test' = [test EXCEPT ![e] = t], t.phase # "ended" PROVE FALSE
  <2>1. test'[d] = IF d = e THEN t ELSE test[d]
    BY <1>1 DEF SelfInv, Shape
  <2> QED BY <1>1, <2>1
<1>2. CASE test' = test
  BY <1>2
<1>3. ASSUME NEW e \in Devices, Press(e) PROVE FALSE
  <2>1. CASE Busy
    BY <1>2, <1>3, <2>1 DEF Press
  <2>2. CASE ~Busy
    <3> DEFINE late == entry[e] = "stopping"
               t == [NoTest EXCEPT !.phase = "read", !.late = late]
    <3>1. test' = [test EXCEPT ![e] = t]
      BY <1>3, <2>2 DEF Press
    <3>2. t.phase = "read"
      <4> HIDE DEF late
      <4> QED BY NoTestIs DEF TestShape
    <3> HIDE DEF t
    <3> QED BY <1>1, <3>1, <3>2
  <2> QED BY <2>1, <2>2
<1>4. ASSUME NEW e \in Devices, ReadFirst(e) \/ Operate(e) \/ PutBackNext(e) \/ CloseLink(e) PROVE FALSE
  <2>1. PICK t : test' = [test EXCEPT ![e] = t] /\ t.phase \in {"exercise", "restore", test[e].phase}
    <3>1. CASE ReadFirst(e)
      <4>1. PICK snap : test' = [test EXCEPT ![e] = [@ EXCEPT !.phase = "exercise", !.snap = snap,
                                                              !.todo = Exercise(e, snap)]]
        BY <3>1 DEF ReadFirst
      <4> DEFINE todo == Exercise(e, snap)
                 t == [test[e] EXCEPT !.phase = "exercise", !.snap = snap, !.todo = todo]
      <4>2. test' = [test EXCEPT ![e] = t]
        BY <4>1
      <4> HIDE DEF todo
      <4>3. t.phase = "exercise"
        BY DEF SelfInv, Shape, TestShape
      <4> HIDE DEF t
      <4> QED BY <4>2, <4>3
    <3>2. CASE Operate(e)
      <4> DEFINE bad(b) == IF b /\ test[e].phase = "restore"
                           THEN test[e].failed \cup {Head(test[e].todo).does} ELSE test[e].failed
                 t(b) == [test[e] EXCEPT !.todo = Tail(test[e].todo), !.failed = bad(b)]
      <4>1. PICK b \in BOOLEAN : test' = [test EXCEPT ![e] = t(b)]
        BY <3>2 DEF Operate, Continued
      <4> HIDE DEF bad
      <4>2. t(b).phase = test[e].phase
        BY DEF SelfInv, Shape, TestShape
      <4> HIDE DEF t
      <4> QED BY <4>1, <4>2
    <3>3. CASE PutBackNext(e)
      <4> DEFINE todo == Restore(e, test[e].snap)
                 t == [test[e] EXCEPT !.phase = "restore", !.todo = todo]
      <4>1. test' = [test EXCEPT ![e] = t]
        BY <3>3 DEF PutBackNext
      <4> HIDE DEF todo
      <4>2. t.phase = "restore"
        BY DEF SelfInv, Shape, TestShape
      <4> HIDE DEF t
      <4> QED BY <4>1, <4>2
    <3>4. CASE CloseLink(e)
      <4> DEFINE t == [test[e] EXCEPT !.cut = Active(e)]
      <4>1. test' = [test EXCEPT ![e] = t]
        BY <3>4 DEF CloseLink
      <4>2. t.phase = test[e].phase
        BY DEF SelfInv, Shape, TestShape
      <4> HIDE DEF t
      <4> QED BY <4>1, <4>2
    <3> QED BY <1>4, <3>1, <3>2, <3>3, <3>4
  <2>2. test'[d] = IF d = e THEN t ELSE test[d]
    BY <2>1 DEF SelfInv, Shape
  <2> QED BY <2>1, <2>2
<1>5. ASSUME NEW e \in Devices, Abandon(e) PROVE FALSE
  BY <1>1, <1>5, NoTestIs DEF Abandon, Ends
<1>6. ASSUME NEW e \in Devices, EndTest(e) PROVE test[d].todo = <<>>
  <2> DEFINE t == [NoTest EXCEPT !.phase = "ended"]
  <2>1. test' = [test EXCEPT ![e] = t] /\ test[e].todo = <<>>
    BY <1>6 DEF EndTest, Ends
  <2> HIDE DEF t
  <2>2. d # e => test'[d] = test[d]
    BY <2>1 DEF SelfInv, Shape
  <2> QED BY <2>1, <2>2
<1>7. CASE UNCHANGED vars
  BY <1>2, <1>7 DEF vars
<1>8. ASSUME NEW e \in Devices,
             StartUnload(e) \/ FailUnload(e) \/ UnloadPlatforms(e) \/ Stop(e) \/ SetUp(e)
      PROVE test[d].todo = <<>>
  BY <1>2, <1>8 DEF StartUnload, FailUnload, UnloadPlatforms, Stop, SetUp, EntryBecomes
<1>9. ASSUME NEW level \in Levels, SetLevel(level) PROVE test[d].todo = <<>>
  BY <1>2, <1>9 DEF SetLevel
<1> QED
  BY <1>3, <1>4, <1>5, <1>6, <1>7, <1>8, <1>9 DEF TestNext, Close, TimeOut

(* A test that read its device first leaves it as it was, save for what the *)
(* restore could not put back.                                              *)
THEOREM DevicePutBack == TestSpec => PutBack
<1> DEFINE Back == \A d \in Devices :
        LET t == test[d]
            Kept(field) == field \in t.snap.known \ t.failed
        IN  t.phase = "restore" /\ test'[d].phase = "ended" /\ t.snap.read =>
               /\ Kept("zones") /\ "power" \notin t.failed => fixture[d].lit = t.snap.was.lit
               /\ d \in Powered /\ Kept("power") => On(fixture[d]) = On(t.snap.was)
               /\ Kept("paint") => fixture[d].paint = t.snap.was.paint
<1>1. SelfInv /\ PutInv /\ [TestNext]_vars => Back
  <2> SUFFICES ASSUME SelfInv, PutInv, [TestNext]_vars, NEW d \in Devices,
                      test[d].phase = "restore", test'[d].phase = "ended"
               PROVE  LET t == test[d]
                          Kept(field) == field \in t.snap.known \ t.failed
                      IN  /\ Kept("zones") /\ "power" \notin t.failed => fixture[d].lit = t.snap.was.lit
                          /\ d \in Powered /\ Kept("power") => On(fixture[d]) = On(t.snap.was)
                          /\ Kept("paint") => fixture[d].paint = t.snap.was.paint
    BY Zenon
  <2>1. test[d].todo = <<>>
    BY EndsRestored
  <2>2. /\ fixture[d] \in Fixture /\ test[d].snap.was \in Fixture
        /\ Coming(d, fixture[d], <<>>, test[d].failed, test[d].snap)
    BY <2>1 DEF PutInv, Owes
  <2> DEFINE f == fixture[d]
             failed == test[d].failed
             snap == test[d].snap
  <2>3. f \in Fixture /\ snap.was \in Fixture /\ Coming(d, f, <<>>, failed, snap)
    BY <2>2
  <2> HIDE DEF f, failed, snap
  <2>4. IsBack(d, f, failed, snap)
    BY <2>3, ComingDone
  <2> QED BY <2>4, Zenon DEF f, failed, snap, IsBack
<1>2. SelfInv /\ PutInv /\ [TestNext]_vars => [Back]_vars
  BY <1>1
<1> QED
  BY SelfInitially, SelfInductive, PutInitially, PutInductive, <1>2, PTL DEF TestSpec, PutBack

=============================================================================
