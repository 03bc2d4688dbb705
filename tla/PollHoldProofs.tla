--------------------------- MODULE PollHoldProofs ---------------------------
(***************************************************************************)
(* The poll hold-off (PollHold), proved for any devices, commands and caps. *)
(* The coordinator's methods are functions of its poller, so the proof is   *)
(* about them: what each does to the held polls, the timers and the tasks.  *)
(***************************************************************************)
EXTENDS PollHold, CommandBurstProofs

-----------------------------------------------------------------------------
(* The invariant, of one poller.                                            *)

Shaped(p) ==
    /\ p \in Poller
    /\ p.timers = IF p.timerSet THEN 1 ELSE 0
Capped(p) ==
    /\ Held(p) /\ ~p.running => p.since # NotHeld
    /\ p.since # NotHeld => Held(p)
(* A poll that may be held again has counted its wait; a manual refresh is  *)
(* never held.                                                              *)
Counted(p) ==
    /\ p.task["manual"] # NoTask => p.task["manual"].hold = NoHold
    /\ \A k \in Kinds : p.task[k] # NoTask /\ p.task[k].phase = "queued" /\ p.task[k].hold # NoHold
                          => p.task[k].hold.since # NotHeld
(* No first poll is left, or comes, once Home Assistant stops; and nothing  *)
(* of the background once the entry is gone.                                *)
NoFirst(p) == ~p.firstDue /\ p.task["first"] = NoTask
Quiet(p) == NoFirst(p) /\ p.task["background"] = NoTask
Gone(p) ==
    ~p.timerSet /\ p.holdoff = "off" /\ ~Held(p) /\ p.since = NotHeld

Good(p, alive, on) ==
    /\ Shaped(p) /\ Capped(p) /\ Counted(p)
    /\ ~alive => Gone(p) /\ Quiet(p)
    /\ ~on => NoFirst(p)

On == stage = "running"
PollInv ==
    /\ BurstInv
    /\ stage \in {"running", "stopping", "closed"}
    /\ poller \in [Devices -> Poller]
    /\ \A d \in Devices : Good(poller[d], Alive(d), On)

(* What most methods leave alone.                                           *)
Idles(p, q) ==
    /\ q.commands = p.commands /\ q.holdoff = p.holdoff /\ q.running = p.running
    /\ q.task = p.task /\ q.firstDue = p.firstDue /\ q.owed = p.owed

LEMMA Constants ==
    /\ HoldMax \in Nat /\ HoldMax > 0 /\ 0 \in 0..HoldMax /\ HoldMax \in 0..HoldMax
    /\ NoHold \notin Hold /\ NoTask \notin Task /\ NotHeld \notin 0..HoldMax
    /\ \A m, n \in 0..HoldMax \cup {NotHeld} :
          /\ Longer(m, n) \in 0..HoldMax \cup {NotHeld}
          /\ m # NotHeld \/ n # NotHeld => Longer(m, n) # NotHeld
  BY PollAssumption DEF NotHeld, Longer

-----------------------------------------------------------------------------
(* The methods.                                                             *)

TimerOff(p) == [p EXCEPT !.timers = 0, !.timerSet = FALSE]
TimerOn(p) == [p EXCEPT !.timers = 1, !.timerSet = TRUE]

LEMMA TimerIs ==
    ASSUME NEW p \in Poller
    PROVE  /\ LET q == TimerOff(p)
              IN  /\ Shaped(q) /\ ~q.timerSet
                  /\ Idles(p, q) /\ q.waiting = p.waiting /\ q.first = p.first /\ q.since = p.since
           /\ LET q == TimerOn(p)
              IN  /\ Shaped(q) /\ q.timerSet
                  /\ Idles(p, q) /\ q.waiting = p.waiting /\ q.first = p.first /\ q.since = p.since
<1>1. LET q == TimerOff(p)
      IN  /\ Shaped(q) /\ ~q.timerSet
          /\ Idles(p, q) /\ q.waiting = p.waiting /\ q.first = p.first /\ q.since = p.since
  BY DEF TimerOff, Poller, Idles, Shaped
<1>2. LET q == TimerOn(p)
      IN  /\ Shaped(q) /\ q.timerSet
          /\ Idles(p, q) /\ q.waiting = p.waiting /\ q.first = p.first /\ q.since = p.since
  BY DEF TimerOn, Poller, Idles, Shaped
<1> QED BY <1>1, <1>2

LEMMA CancelledIs ==
    ASSUME NEW p, Shaped(p)
    PROVE  LET q == Cancelled(p)
           IN  /\ Shaped(q) /\ Idles(p, q) /\ ~q.timerSet
               /\ q.waiting = p.waiting /\ q.first = p.first /\ q.since = p.since
<1>1. p \in Poller /\ (IF p.timerSet THEN p.timers - 1 ELSE p.timers) = 0
  BY DEF Shaped, Poller
<1>2. Cancelled(p) = TimerOff(p)
  BY <1>1 DEF Cancelled, TimerOff
<1> QED
  BY <1>1, <1>2, TimerIs DEF Shaped

LEMMA UnsubscribedIs ==
    ASSUME NEW p, Shaped(p)
    PROVE  LET q == Unsubscribed(p)
           IN  /\ Shaped(q) /\ Idles(p, q) /\ ~q.timerSet
               /\ ~q.waiting /\ q.first = p.first
               /\ q.since = IF p.first THEN p.since ELSE NotHeld
<1> DEFINE c == Cancelled(p)
           since == IF p.first THEN c.since ELSE NotHeld
<1>1. /\ Shaped(c) /\ Idles(p, c) /\ ~c.timerSet /\ c.first = p.first /\ c.since = p.since
  BY CancelledIs
<1>2. since \in 0..HoldMax \cup {NotHeld}
  BY <1>1 DEF Shaped, Poller
<1> HIDE DEF since, c
<1>3. Unsubscribed(p) = [c EXCEPT !.waiting = FALSE, !.since = since]
  BY DEF Unsubscribed, c, since
<1>4. LET q == Unsubscribed(p)
      IN  /\ Shaped(q) /\ Idles(p, q) /\ ~q.timerSet
          /\ ~q.waiting /\ q.first = p.first /\ q.since = since
  BY <1>1, <1>2, <1>3 DEF Shaped, Idles, Poller
<1> QED
  BY <1>1, <1>4 DEF since

LEMMA RearmedIs ==
    ASSUME NEW p, Shaped(p)
    PROVE  LET q == Rearmed(p)
           IN  /\ Shaped(q) /\ Idles(p, q) /\ q.first = p.first
               /\ \/ q.waiting = p.waiting /\ q.since = p.since
                  \/ ~q.waiting /\ q.since = IF p.first THEN p.since ELSE NotHeld
<1> DEFINE u == Unsubscribed(p)
<1>1. /\ Shaped(u) /\ Idles(p, u) /\ ~u.timerSet
      /\ ~u.waiting /\ u.first = p.first
      /\ u.since = IF p.first THEN p.since ELSE NotHeld
  BY UnsubscribedIs
<1> HIDE DEF u
<1>2. CASE p.polled
  <2>1. Rearmed(p) = [u EXCEPT !.timers = @ + 1, !.timerSet = TRUE]
    BY <1>2 DEF Rearmed, u
  <2>2. u.timers + 1 = 1
    BY <1>1 DEF Shaped
  <2>3. Rearmed(p) = TimerOn(u)
    BY <2>1, <2>2 DEF TimerOn
  <2>4. LET q == Rearmed(p)
        IN  /\ Shaped(q) /\ Idles(u, q) /\ q.first = u.first
            /\ q.waiting = u.waiting /\ q.since = u.since
    BY <1>1, <2>3, TimerIs DEF Shaped
  <2> QED
    BY <1>1, <2>4 DEF Idles
<1>3. CASE ~p.polled
  BY <1>3 DEF Rearmed, Idles
<1> QED BY <1>2, <1>3

LEMMA HoldPollIs ==
    ASSUME NEW p, Shaped(p), NEW apart \in BOOLEAN, NEW since \in 0..HoldMax
    PROVE  LET q == HoldPoll(p, apart, since)
           IN  /\ Shaped(q) /\ Idles(p, q) /\ q.timerSet = p.timerSet
               /\ Held(q) /\ q.since # NotHeld /\ (p.first \/ apart => q.first)
<1> DEFINE first == p.first \/ apart
           waiting == p.waiting \/ ~apart
           n == IF p.since = NotHeld THEN since ELSE p.since
<1>1. /\ first \in BOOLEAN /\ waiting \in BOOLEAN /\ (first \/ waiting)
      /\ n \in 0..HoldMax \cup {NotHeld} /\ n # NotHeld /\ (p.first \/ apart => first)
  BY Constants DEF Shaped, Poller
<1>2. HoldPoll(p, apart, since) = [p EXCEPT !.first = first, !.waiting = waiting, !.since = n]
  BY DEF HoldPoll
<1> HIDE DEF first, waiting, n
<1> QED
  BY <1>1, <1>2 DEF Shaped, Idles, Poller, Held

LEMMA DropHeldIs ==
    ASSUME NEW p, Shaped(p)
    PROVE  LET q == DropHeld(p)
           IN  /\ Shaped(q) /\ Idles(p, q) /\ q.timerSet = p.timerSet
               /\ ~Held(q) /\ ~q.first /\ q.since = NotHeld
  BY DEF DropHeld, Shaped, Idles, Poller, Held

-----------------------------------------------------------------------------
(* The end of a poll, and its start.                                        *)

Sound(p) == Shaped(p) /\ Capped(p) /\ Counted(p)
SameHolds(p, q) ==
    q.commands = p.commands /\ q.holdoff = p.holdoff /\ q.firstDue = p.firstDue
(* No read begins.                                                          *)
NoReads(p, q) ==
    \A k \in Kinds : q.task[k] # NoTask /\ q.task[k].phase = "reading" =>
                        p.task[k] # NoTask /\ p.task[k].phase = "reading"
(* A poll held apart is not lost.                                           *)
Keeps(p, q) ==
    p.first /\ ~q.first => ~Held(q) /\ (UnderWay(q) \/ q.owed = "no")
(* No background poll starts, nor begins.                                   *)
Calm(p, q) ==
    q.task["background"] # NoTask =>
        /\ p.task["background"] # NoTask
        /\ q.task["background"].phase = "queued" => p.task["background"].phase = "queued"
(* What a method does to the poller of d: a refresh, and any other.         *)
Turns(d, p, q) ==
    /\ Sound(q) /\ SameHolds(p, q) /\ NoReads(p, q)
    /\ ~Alive(d) /\ Gone(p) => Gone(q)
    /\ ~Alive(d) /\ Quiet(p) => Quiet(q)
    /\ ~On /\ NoFirst(p) => NoFirst(q)
    /\ On => Keeps(p, q)
Moves(d, p, q) ==
    /\ Turns(d, p, q)
    /\ ~On => Calm(p, q)

(* What the end of a poll that is not held again leaves.                    *)
Ends(d, p, q, kind) ==
    /\ Sound(q) /\ SameHolds(p, q) /\ q.task = [p.task EXCEPT ![kind] = NoTask]
    /\ ~Held(q) /\ q.since = NotHeld /\ q.owed = "no"
    /\ ~Alive(d) /\ ~p.timerSet => ~q.timerSet

LEMMA CountedIs ==
    ASSUME NEW p, Shaped(p), Counted(p), NEW q, NEW kind \in Kinds, NEW t \in Task \cup {NoTask},
           q.task = [p.task EXCEPT ![kind] = t],
           t # NoTask => /\ kind = "manual" => t.hold = NoHold
                         /\ t.phase = "queued" /\ t.hold # NoHold => t.hold.since # NotHeld
    PROVE  /\ Counted(q) /\ q.task \in [Kinds -> Task \cup {NoTask}] /\ q.task[kind] = t
           /\ \A k \in Kinds \ {kind} : q.task[k] = p.task[k]
<1>1. p.task \in [Kinds -> Task \cup {NoTask}]
  BY DEF Shaped, Poller
<1>2. /\ q.task \in [Kinds -> Task \cup {NoTask}] /\ q.task[kind] = t
      /\ \A k \in Kinds \ {kind} : q.task[k] = p.task[k]
  BY <1>1
<1> QED
  BY <1>2 DEF Counted, Kinds

LEMMA IdleIs ==
    ASSUME NEW p, Shaped(p), Counted(p), NEW kind \in Kinds
    PROVE  LET q == [p EXCEPT !.running = FALSE, !.task = [@ EXCEPT ![kind] = NoTask]]
           IN  /\ Shaped(q) /\ Counted(q) /\ ~q.running /\ SameHolds(p, q)
               /\ q.task = [p.task EXCEPT ![kind] = NoTask]
               /\ q.timerSet = p.timerSet
<1> DEFINE task == [p.task EXCEPT ![kind] = NoTask]
           q == [p EXCEPT !.running = FALSE, !.task = task]
<1>1. task \in [Kinds -> Task \cup {NoTask}]
  BY DEF Shaped, Poller
<1> HIDE DEF task
<1>2. /\ Shaped(q) /\ ~q.running /\ SameHolds(p, q) /\ q.task = task
      /\ q.timerSet = p.timerSet
  BY <1>1 DEF Shaped, Poller, SameHolds
<1> HIDE DEF q
<1>3. Counted(q)
  BY <1>2, CountedIs DEF task
<1> QED
  BY <1>2, <1>3 DEF task, q

LEMMA EndedIs ==
    ASSUME NEW d, NEW p, Shaped(p), Counted(p), NEW kind \in Kinds,
           NEW again \in Hold \cup {NoHold}, again # NoHold => again.since # NotHeld,
           NEW arms
    PROVE  LET q == Ended(d, p, kind, again, arms)
           IN  /\ again = NoHold => Ends(d, p, q, kind)
               /\ again # NoHold =>
                     /\ Sound(q) /\ SameHolds(p, q) /\ q.task = [p.task EXCEPT ![kind] = NoTask]
                     /\ p.first => q.first
<1> DEFINE i == [p EXCEPT !.running = FALSE, !.task = [@ EXCEPT ![kind] = NoTask]]
           idle == DropHeld(i)
           armed == IF arms /\ Alive(d) /\ stage # "stopping" THEN Rearmed(idle) ELSE idle
           apart == again.apart \/ p.first
           since == Longer(again.since, p.since)
           q == Ended(d, p, kind, again, arms)
<1>1. /\ Shaped(i) /\ Counted(i) /\ ~i.running /\ SameHolds(p, i)
      /\ i.task = [p.task EXCEPT ![kind] = NoTask] /\ i.timerSet = p.timerSet
  BY IdleIs
<1>2. q = IF again = NoHold THEN [armed EXCEPT !.owed = "no"] ELSE HoldPoll(armed, apart, since)
  BY DEF Ended
<1> HIDE DEF i, q
<1>3. /\ Shaped(idle) /\ Idles(i, idle) /\ idle.timerSet = i.timerSet
      /\ ~Held(idle) /\ ~idle.first /\ idle.since = NotHeld
  BY <1>1, DropHeldIs
<1> HIDE DEF idle
<1>4. /\ Shaped(armed) /\ Idles(i, armed) /\ ~Held(armed) /\ armed.since = NotHeld
      /\ (~Alive(d) => armed.timerSet = i.timerSet)
  <2>1. CASE arms /\ Alive(d) /\ stage # "stopping"
    <3>1. armed = Rearmed(idle)
      BY <2>1
    <3>2. LET a == Rearmed(idle)
          IN  /\ Shaped(a) /\ Idles(idle, a) /\ a.first = idle.first
              /\ \/ a.waiting = idle.waiting /\ a.since = idle.since
                 \/ ~a.waiting /\ a.since = IF idle.first THEN idle.since ELSE NotHeld
      BY <1>3, RearmedIs
    <3> HIDE DEF armed
    <3> QED BY <1>3, <2>1, <3>1, <3>2 DEF Idles, Held
  <2>2. CASE ~(arms /\ Alive(d) /\ stage # "stopping")
    BY <1>3, <2>2
  <2> QED BY <2>1, <2>2
<1> HIDE DEF armed
<1>5. Counted(armed) /\ ~armed.running /\ SameHolds(p, armed)
      /\ armed.task = [p.task EXCEPT ![kind] = NoTask]
  BY <1>1, <1>4 DEF Idles, Counted, SameHolds
<1>6. CASE again = NoHold
  <2>1. q = [armed EXCEPT !.owed = "no"]
    BY <1>2, <1>6
  <2>2. /\ Shaped(q) /\ SameHolds(armed, q) /\ q.task = armed.task /\ q.running = armed.running
        /\ q.waiting = armed.waiting /\ q.first = armed.first /\ q.since = armed.since
        /\ q.timerSet = armed.timerSet /\ q.owed = "no"
    BY <1>4, <2>1 DEF Shaped, Poller, SameHolds
  <2>3. Capped(q) /\ Counted(q) /\ ~Held(q) /\ q.since = NotHeld /\ SameHolds(p, q)
    BY <1>4, <1>5, <2>2 DEF Capped, Counted, Held, SameHolds
  <2>4. ~Alive(d) /\ ~p.timerSet => ~q.timerSet
    BY <1>1, <1>4, <2>2
  <2>5. Ends(d, p, q, kind)
    BY <1>5, <2>2, <2>3, <2>4 DEF Ends, Sound
  <2> QED
    BY <1>6, <2>5 DEF q
<1>7. CASE again # NoHold
  <2>1. again \in Hold /\ again.apart \in BOOLEAN /\ again.since \in 0..HoldMax \cup {NotHeld}
    BY <1>7 DEF Hold
  <2>2. apart \in BOOLEAN /\ (p.first => apart) /\ p.since \in 0..HoldMax \cup {NotHeld}
    BY <2>1 DEF Shaped, Poller
  <2>3. since \in 0..HoldMax
    BY <1>7, <2>1, <2>2, Constants
  <2> HIDE DEF apart, since
  <2>4. q = HoldPoll(armed, apart, since)
    BY <1>2, <1>7
  <2>5. /\ Shaped(q) /\ Idles(armed, q) /\ Held(q) /\ q.since # NotHeld
        /\ (armed.first \/ apart => q.first)
    BY <1>4, <2>2, <2>3, <2>4, HoldPollIs
  <2>6. Capped(q) /\ Counted(q) /\ SameHolds(p, q) /\ q.task = [p.task EXCEPT ![kind] = NoTask]
    BY <1>5, <2>5 DEF Capped, Counted, SameHolds, Idles
  <2> QED
    BY <1>7, <2>2, <2>5, <2>6 DEF q, Sound
<1> QED BY <1>6, <1>7

LEMMA EndsMoves ==
    ASSUME NEW d, NEW p, Shaped(p), NEW q, NEW kind \in Kinds, Ends(d, p, q, kind)
    PROVE  Moves(d, p, q)
<1>1. \A k \in Kinds : q.task[k] = NoTask \/ q.task[k] = p.task[k]
  BY DEF Ends, Shaped, Poller
<1>2. NoReads(p, q)
  BY <1>1 DEF NoReads
<1>3. (Quiet(p) => Quiet(q)) /\ (NoFirst(p) => NoFirst(q)) /\ Calm(p, q)
  BY <1>1 DEF Quiet, NoFirst, Calm, Ends, SameHolds, Kinds
<1> QED
  BY <1>2, <1>3 DEF Ends, Moves, Turns, Gone, Keeps, SameHolds

LEMMA PoliciesAre ==
    ASSUME NEW p, Shaped(p), NEW q \in Policies(p)
    PROVE  /\ Shaped(q) /\ Idles(p, q) /\ (q.timerSet => p.timerSet)
           /\ q.first = p.first
           /\ \/ q.waiting = p.waiting /\ q.since = p.since
              \/ ~q.waiting /\ q.since = IF p.first THEN p.since ELSE NotHeld
<1>1. CASE q = [p EXCEPT !.polled = TRUE]
  BY <1>1 DEF Shaped, Poller, Idles
<1>2. CASE q = [Unsubscribed(p) EXCEPT !.polled = FALSE]
  <2> DEFINE u == Unsubscribed(p)
  <2>1. /\ Shaped(u) /\ Idles(p, u) /\ ~u.timerSet
        /\ ~u.waiting /\ u.first = p.first
        /\ u.since = IF p.first THEN p.since ELSE NotHeld
    BY UnsubscribedIs
  <2> HIDE DEF u
  <2>2. q = [u EXCEPT !.polled = FALSE]
    BY <1>2 DEF u
  <2>3. Shaped(q) /\ Idles(u, q) /\ q.timerSet = u.timerSet /\ q.first = u.first
        /\ q.waiting = u.waiting /\ q.since = u.since
    BY <2>1, <2>2 DEF Shaped, Poller, Idles
  <2> QED
    BY <2>1, <2>3 DEF Idles
<1> QED
  BY <1>1, <1>2 DEF Policies

(* A poll that ends after a policy step.                                    *)
LEMMA PolicyEnds ==
    ASSUME NEW d, NEW p, Shaped(p), Counted(p), NEW q \in Policies(p), NEW kind \in Kinds,
           NEW arms
    PROVE  Ends(d, p, Ended(d, q, kind, NoHold, arms), kind)
<1> DEFINE r == Ended(d, q, kind, NoHold, arms)
<1>1. Shaped(q) /\ Idles(p, q) /\ (q.timerSet => p.timerSet)
  BY PoliciesAre
<1>2. Counted(q)
  BY <1>1 DEF Counted, Idles
<1>3. Ends(d, q, r, kind)
  <2>1. NoHold \in Hold \cup {NoHold}
    OBVIOUS
  <2> QED BY <1>1, <1>2, <2>1, EndedIs
<1> HIDE DEF r
<1>4. Ends(d, p, r, kind)
  BY <1>1, <1>3 DEF Ends, Idles, SameHolds
<1> QED BY <1>4 DEF r

LEMMA SkippedIs ==
    ASSUME NEW d, NEW p, Shaped(p), Counted(p), NEW kind \in Kinds, NEW q \in Skipped(d, p, kind)
    PROVE  Ends(d, p, q, kind)
<1> DEFINE a == [p EXCEPT !.absent = TRUE]
<1>1. /\ Shaped(a) /\ SameHolds(p, a) /\ a.task = p.task /\ a.timerSet = p.timerSet
  BY DEF Shaped, Poller, SameHolds
<1>2. PICK r \in Policies(a) : q = Ended(d, r, kind, NoHold, TRUE)
  BY DEF Skipped
<1> HIDE DEF a
<1>3. Counted(a)
  BY <1>1 DEF Counted
<1>4. Ends(d, a, q, kind)
  BY <1>1, <1>2, <1>3, PolicyEnds
<1> QED
  BY <1>1, <1>4 DEF Ends, SameHolds

(* What a refresh that begins leaves of the held polls.                     *)
Runs(p, q) ==
    /\ q.waiting => p.waiting
    /\ q.first => p.first
    /\ UnderWay(q) \/ q.owed = "no"

LEMMA RefreshedIs ==
    ASSUME NEW d, NEW p, Sound(p), NEW kind \in Kinds, NEW hold \in Hold \cup {NoHold},
           kind = "manual" => hold = NoHold, kind = "first" => On,
           NEW q \in Refreshed(d, p, kind, hold)
    PROVE  /\ Turns(d, p, q)
           /\ kind # "background" /\ ~On => Calm(p, q)
           /\ kind = "background" /\ stage = "stopping" => q.task["background"] = NoTask
           /\ Alive(d) /\ On => Runs(p, q)
<1>1. Shaped(p) /\ Capped(p) /\ Counted(p)
  BY DEF Sound
<1> DEFINE u == Unsubscribed(p)
           counted == IF hold = NoHold THEN NoHold ELSE [hold EXCEPT !.since = Longer(@, 0)]
           t == [phase |-> "queued", hold |-> counted]
           taskGone == [u.task EXCEPT ![kind] = NoTask]
           taskNow == [u.task EXCEPT ![kind] = t]
           begun == [u EXCEPT !.running = TRUE, !.halted = FALSE, !.task = taskNow]
           refused == [u EXCEPT !.task = taskGone]
<1>2. /\ Shaped(u) /\ Idles(p, u) /\ ~u.timerSet
      /\ ~u.waiting /\ u.first = p.first
      /\ u.since = IF p.first THEN p.since ELSE NotHeld
  BY <1>1, UnsubscribedIs
<1>3. Counted(u)
  BY <1>1, <1>2 DEF Counted, Idles
<1>4. counted \in Hold \cup {NoHold} /\ (counted # NoHold => counted.since # NotHeld)
      /\ (kind = "manual" => counted = NoHold)
  <2>1. CASE hold = NoHold
    BY <2>1
  <2>2. CASE hold # NoHold
    <3>1. hold \in Hold /\ hold.since \in 0..HoldMax \cup {NotHeld}
      BY <2>2 DEF Hold
    <3> DEFINE n == Longer(hold.since, 0)
    <3>2. n \in 0..HoldMax
      BY <3>1, Constants DEF Longer, NotHeld
    <3>3. counted = [hold EXCEPT !.since = n]
      BY <2>2
    <3> HIDE DEF n, counted
    <3>4. counted \in Hold /\ counted.since = n
      BY <3>1, <3>2, <3>3 DEF Hold
    <3> QED
      BY <2>2, <3>2, <3>4, Constants
  <2> QED BY <2>1, <2>2
<1> HIDE DEF counted
<1>5. /\ t \in Task /\ t.phase = "queued" /\ t.hold = counted /\ t # NoTask
  BY <1>4, Constants DEF Task
<1> HIDE DEF t, u
<1>6. CASE ~Alive(d) \/ (kind = "background" /\ stage = "stopping")
  <2>1. q = refused
    BY <1>6 DEF Refreshed, u
  <2>2. taskGone \in [Kinds -> Task \cup {NoTask}]
    BY <1>2 DEF Shaped, Poller
  <2> HIDE DEF taskGone
  <2>3. /\ Shaped(q) /\ SameHolds(u, q) /\ q.task = taskGone /\ q.running = u.running
        /\ q.waiting = u.waiting /\ q.first = u.first /\ q.since = u.since
        /\ ~q.timerSet
    BY <1>2, <2>1, <2>2 DEF Shaped, Poller, SameHolds
  <2>4. /\ Counted(q) /\ (\A k \in Kinds : q.task[k] = NoTask \/ q.task[k] = p.task[k])
        /\ q.task[kind] = NoTask
    BY <1>2, <1>3, <2>3, CountedIs DEF taskGone, Idles
  <2>5. Capped(q)
    BY <1>1, <1>2, <2>3 DEF Capped, Held, Idles
  <2>6. NoReads(p, q) /\ SameHolds(p, q)
    BY <1>2, <2>3, <2>4 DEF NoReads, SameHolds, Idles
  <2>7. (Quiet(p) => Quiet(q)) /\ (NoFirst(p) => NoFirst(q)) /\ Calm(p, q)
    BY <2>4, <2>6 DEF Quiet, NoFirst, Calm, Kinds, SameHolds
  <2>8. Gone(p) => Gone(q)
    BY <1>2, <2>3, <2>6 DEF Gone, Held, SameHolds
  <2>9. Keeps(p, q)
    BY <1>2, <2>3 DEF Keeps
  <2>10. ~(Alive(d) /\ On)
    BY <1>6 DEF On
  <2> QED
    BY <2>3, <2>4, <2>5, <2>6, <2>7, <2>8, <2>9, <2>10 DEF Turns, Sound
<1>7. CASE Alive(d) /\ ~(kind = "background" /\ stage = "stopping")
  <2>1. q \in {begun} \cup Skipped(d, begun, kind)
    BY <1>7 DEF Refreshed, u, t, counted
  <2>2. taskNow \in [Kinds -> Task \cup {NoTask}]
    BY <1>2, <1>5 DEF Shaped, Poller
  <2> HIDE DEF taskNow
  <2>3. /\ Shaped(begun) /\ SameHolds(u, begun) /\ begun.task = taskNow /\ begun.running
        /\ begun.waiting = u.waiting /\ begun.first = u.first /\ begun.since = u.since
    BY <1>2, <2>2 DEF Shaped, Poller, SameHolds
  <2> HIDE DEF begun
  <2>4. /\ Counted(begun) /\ begun.task[kind] = t
        /\ (\A k \in Kinds \ {kind} : begun.task[k] = p.task[k])
    BY <1>2, <1>3, <1>4, <1>5, <2>3, CountedIs DEF taskNow, Idles
  <2>5. Capped(begun) /\ SameHolds(p, begun)
    BY <1>2, <2>3 DEF Capped, Held, SameHolds, Idles
  <2>6. NoReads(p, begun)
    BY <1>5, <2>4 DEF NoReads
  <2>7. /\ ~On /\ NoFirst(p) => NoFirst(begun)
        /\ kind # "background" => Calm(p, begun)
    BY <2>4, <2>5 DEF NoFirst, Calm, Kinds, SameHolds
  <2>8. Keeps(p, begun)
    BY <1>2, <2>3 DEF Keeps
  <2>9. Turns(d, p, begun)
    BY <1>7, <2>3, <2>4, <2>5, <2>6, <2>7, <2>8 DEF Turns, Sound
  <2>10. UnderWay(begun)
    BY <1>5, <2>4 DEF UnderWay
  <2>11. CASE q = begun
    BY <1>2, <1>7, <2>3, <2>7, <2>9, <2>10, <2>11 DEF Runs
  <2>12. CASE q \in Skipped(d, begun, kind)
    <3>1. Ends(d, begun, q, kind)
      BY <2>3, <2>4, <2>12, SkippedIs
    <3>2. \A k \in Kinds : q.task[k] = NoTask \/ q.task[k] = begun.task[k]
      BY <2>3, <3>1 DEF Ends, Shaped, Poller
    <3>3. NoReads(p, q)
      BY <2>6, <3>2 DEF NoReads
    <3>4. /\ ~On /\ NoFirst(p) => NoFirst(q)
          /\ kind # "background" => Calm(p, q)
      BY <2>7, <3>1, <3>2 DEF NoFirst, Calm, Ends, SameHolds, Kinds
    <3>5. Turns(d, p, q)
      BY <1>7, <2>5, <3>1, <3>3, <3>4 DEF Ends, Turns, Keeps, SameHolds
    <3> QED
      BY <1>7, <3>1, <3>4, <3>5 DEF Ends, Runs, Held
  <2> QED BY <2>1, <2>11, <2>12
<1> QED BY <1>6, <1>7

LEMMA BackgroundIs ==
    ASSUME NEW d, NEW p, Sound([p EXCEPT !.timerSet = FALSE]),
           p \in Poller, NEW hold \in Hold \cup {NoHold}, Alive(d),
           NEW q \in Background(d, p, hold)
    PROVE  /\ Turns(d, p, q) /\ (On => Runs(p, q))
           /\ stage = "stopping" /\ q.task["background"] # NoTask =>
                 q.task["background"].phase = "locked"
<1> DEFINE f == [p EXCEPT !.timerSet = FALSE]
           t == [phase |-> "locked", hold |-> hold]
           task == [f.task EXCEPT !["background"] = t]
<1>1. /\ SameHolds(p, f) /\ f.task = p.task /\ f.waiting = p.waiting /\ f.first = p.first
      /\ f.running = p.running /\ f.since = p.since
  BY DEF Poller, SameHolds
<1>2. Sound(f)
  OBVIOUS
<1>3. p.task["background"] = NoTask
  BY DEF Background
<1>4. CASE LockHeld(p)
  <2>1. q = [f EXCEPT !.task = task]
    BY <1>3, <1>4 DEF Background
  <2>2. t \in Task /\ t.phase = "locked" /\ t # NoTask
    BY Constants DEF Task
  <2> HIDE DEF t, f
  <2>3. task \in [Kinds -> Task \cup {NoTask}]
    BY <1>2, <2>2 DEF Sound, Shaped, Poller, Kinds
  <2> HIDE DEF task
  <2>4. /\ Shaped(q) /\ SameHolds(f, q) /\ q.task = task /\ q.running = f.running
        /\ q.waiting = f.waiting /\ q.first = f.first /\ q.since = f.since
    BY <1>2, <2>1, <2>3 DEF Sound, Shaped, Poller, SameHolds
  <2>5. "background" \in Kinds /\ Shaped(f) /\ Counted(f)
    BY <1>2 DEF Kinds, Sound
  <2>6. /\ Counted(q) /\ q.task["background"] = t
        /\ (\A k \in Kinds \ {"background"} : q.task[k] = p.task[k])
    BY <1>1, <2>2, <2>4, <2>5, CountedIs DEF task
  <2>7. Capped(q)
    BY <1>2, <2>4 DEF Sound, Capped, Held
  <2>8. NoReads(p, q) /\ UnderWay(q)
    BY <2>2, <2>5, <2>6 DEF NoReads, UnderWay
  <2> QED
    BY <1>1, <2>2, <2>4, <2>5, <2>6, <2>7, <2>8
       DEF Turns, Runs, Sound, SameHolds, Keeps, NoFirst, Kinds
<1>5. CASE ~LockHeld(p)
  <2>1. q \in Refreshed(d, f, "background", hold)
    BY <1>3, <1>5 DEF Background
  <2> HIDE DEF f
  <2>2. /\ Turns(d, f, q) /\ (On => Runs(f, q))
        /\ stage = "stopping" => q.task["background"] = NoTask
    BY <1>2, <2>1, RefreshedIs DEF Kinds
  <2> QED
    BY <1>1, <2>2 DEF Turns, Runs, SameHolds, NoReads, Keeps, NoFirst
<1> QED BY <1>4, <1>5

-----------------------------------------------------------------------------
(* The release of a held poll.                                              *)

LEMMA MovesSelf ==
    ASSUME NEW d, NEW p, Sound(p)
    PROVE  Moves(d, p, p)
  BY DEF Moves, Turns, Calm, SameHolds, NoReads, Keeps

LEMMA ReleasePollIs ==
    ASSUME NEW d, NEW p, Shaped(p), Counted(p), NEW hold \in Hold \cup {NoHold},
           On => Alive(d), NEW q \in ReleasePoll(d, p, hold)
    PROVE  Moves(d, p, q) /\ ~Held(q)
<1> DEFINE r == DropHeld(p)
           c == Cancelled(r)
           f == [c EXCEPT !.timerSet = FALSE]
<1>1. /\ Shaped(r) /\ Idles(p, r) /\ r.timerSet = p.timerSet
      /\ ~Held(r) /\ ~r.first /\ r.since = NotHeld
  BY DropHeldIs
<1> HIDE DEF r
<1>2. /\ Shaped(c) /\ Idles(r, c) /\ ~c.timerSet
      /\ c.waiting = r.waiting /\ c.first = r.first /\ c.since = r.since
  BY <1>1, CancelledIs
<1> HIDE DEF c
<1>3. CASE ~On
  <2>1. q = r
    BY <1>3 DEF ReleasePoll, On, r
  <2>2. Sound(r)
    BY <1>1 DEF Sound, Capped, Counted, Idles
  <2> QED
    BY <1>1, <1>3, <2>1, <2>2
       DEF Moves, Turns, Calm, SameHolds, NoReads, Gone, Quiet, NoFirst, Idles
<1>4. CASE On
  <2>1. q \in Background(d, c, hold)
    BY <1>4 DEF ReleasePoll, On, r, c
  <2>2. /\ Shaped(f) /\ f.task = c.task /\ f.waiting = c.waiting /\ f.first = c.first
        /\ f.since = c.since
    BY <1>2 DEF Shaped, Poller
  <2>3. Sound(f)
    BY <1>1, <1>2, <2>2 DEF Sound, Capped, Counted, Idles, Held
  <2>4. c \in Poller
    BY <1>2 DEF Shaped
  <2>5. Turns(d, c, q) /\ Runs(c, q)
    BY <1>4, <2>1, <2>3, <2>4, BackgroundIs
  <2>6. ~Held(q) /\ (UnderWay(q) \/ q.owed = "no")
    BY <1>1, <1>2, <2>5 DEF Runs, Held
  <2>7. c.task = p.task /\ SameHolds(p, c)
    BY <1>1, <1>2 DEF Idles, SameHolds
  <2> QED
    BY <1>4, <2>5, <2>6, <2>7 DEF Moves, Turns, SameHolds, NoReads, Keeps
<1> QED BY <1>3, <1>4

LEMMA ReleaseHeldIs ==
    ASSUME NEW d, NEW p, Sound(p), Held(p) => Alive(d), NEW burst,
           NEW q \in ReleaseHeld(d, p, burst)
    PROVE  /\ Moves(d, p, q)
           /\ ~p.running /\ ~HoldingOff(p, burst) => ~Held(q)
<1>1. CASE Held(p) /\ ~p.running /\ ~HoldingOff(p, burst)
  <2> DEFINE hold == [apart |-> p.first, since |-> p.since]
  <2>1. hold \in Hold \cup {NoHold}
    BY DEF Hold, Sound, Shaped, Poller
  <2>2. q \in ReleasePoll(d, p, hold)
    BY <1>1 DEF ReleaseHeld
  <2> HIDE DEF hold
  <2> QED
    BY <1>1, <2>1, <2>2, ReleasePollIs DEF Sound
<1>2. CASE ~(Held(p) /\ ~p.running /\ ~HoldingOff(p, burst))
  BY <1>2, MovesSelf DEF ReleaseHeld
<1> QED BY <1>1, <1>2

LEMMA RequestPollIs ==
    ASSUME NEW d, NEW p, Sound(p), Alive(d), NEW keep \in BOOLEAN,
           NEW q \in RequestPoll(d, p, keep)
    PROVE  Moves(d, p, q)
<1>1. CASE HoldingOff(p, active) \/ p.running
  <2>1. q = HoldPoll(p, keep, 0) /\ 0 \in 0..HoldMax
    BY <1>1, Constants DEF RequestPoll
  <2>2. /\ Shaped(q) /\ Idles(p, q) /\ q.timerSet = p.timerSet
        /\ Held(q) /\ q.since # NotHeld /\ (p.first \/ keep => q.first)
    BY <2>1, HoldPollIs DEF Sound
  <2> QED
    BY <2>2 DEF Moves, Turns, Calm, Sound, Capped, Counted, SameHolds, NoReads, NoFirst, Keeps,
                Idles
<1>2. CASE ~(HoldingOff(p, active) \/ p.running)
  <2> DEFINE hold == [apart |-> keep, since |-> p.since]
  <2>1. hold \in Hold \cup {NoHold}
    BY DEF Hold, Sound, Shaped, Poller
  <2>2. q \in ReleasePoll(d, p, hold)
    BY <1>2 DEF RequestPoll
  <2> HIDE DEF hold
  <2> QED
    BY <2>1, <2>2, ReleasePollIs DEF Sound
<1> QED BY <1>1, <1>2

-----------------------------------------------------------------------------
(* What a step owes each poller.                                            *)

Reads(d, q) ==
    \A k \in {"first", "background"} :
        /\ q.task[k] # NoTask /\ q.task[k].phase = "reading"
        /\ poller[d].task[k] # NoTask /\ poller[d].task[k].phase = "queued"
        /\ poller[d].task[k].hold # NoHold
        => ~HoldingOff(poller[d], active)
Freed(d, q) ==
    /\ d \in Loaded /\ Held(poller[d]) /\ ~poller[d].running /\ HoldingOff(poller[d], active)
    /\ ~HoldingOff(q, active')
    => ~Held(q)
(* Off the running stage a background poll comes of the timer only.         *)
Late(d, q) ==
    /\ poller[d].task["background"] = NoTask /\ q.task["background"] # NoTask => TimerFires(d)
    /\ /\ q.task["background"] # NoTask /\ q.task["background"].phase = "queued"
       /\ poller[d].task["background"] = NoTask \/ poller[d].task["background"].phase # "queued"
       => stage = "closed"
Fits(d, q) ==
    /\ Good(q, Alive(d)', On') /\ Reads(d, q) /\ Freed(d, q)
    /\ ~On => Late(d, q)
    /\ Alive(d)' /\ On' => Keeps(poller[d], q)
Result == PollInv' /\ \A d \in Devices : Fits(d, poller'[d])

LEMMA GoodOf ==
    ASSUME PollInv, NEW d \in Devices
    PROVE  /\ Good(poller[d], Alive(d), On) /\ Sound(poller[d]) /\ Shaped(poller[d])
           /\ Counted(poller[d]) /\ Capped(poller[d]) /\ poller[d] \in Poller
           /\ ~Alive(d) => Gone(poller[d]) /\ Quiet(poller[d])
           /\ ~On => NoFirst(poller[d])
  BY DEF PollInv, Good, Sound

LEMMA CalmLate ==
    ASSUME NEW d, NEW q, Calm(poller[d], q)
    PROVE  Late(d, q)
  BY DEF Calm, Late

LEMMA NoReadsReads ==
    ASSUME NEW d, NEW q, NoReads(poller[d], q)
    PROVE  Reads(d, q)
  BY DEF NoReads, Reads, Kinds

LEMMA ResultOf ==
    ASSUME PollInv, BurstInv', stage' \in {"running", "stopping", "closed"},
           poller' \in [Devices -> Poller], \A d \in Devices : Fits(d, poller'[d])
    PROVE  Result
  BY DEF Result, PollInv, Fits

(* One that a step leaves alone.                                            *)
LEMMA Unmoved ==
    ASSUME PollInv, NEW d \in Devices, poller'[d] = poller[d],
           Alive(d)' = Alive(d), On' = On, active /\ ~active' => Loaded = {}
    PROVE  Fits(d, poller'[d])
<1>1. Good(poller[d], Alive(d)', On')
  BY GoodOf
<1>2. Reads(d, poller[d])
  BY DEF Reads
<1>3. Freed(d, poller[d])
  BY DEF Freed, HoldingOff
<1>4. Late(d, poller[d])
  BY DEF Late
<1> QED
  BY <1>1, <1>2, <1>3, <1>4 DEF Fits, Keeps

LEMMA OneFits ==
    ASSUME PollInv, BurstInv', UNCHANGED stage, NEW d \in Devices, NEW q,
           poller' = [poller EXCEPT ![d] = q], Fits(d, q),
           \A e \in Devices \ {d} : Alive(e)' = Alive(e),
           active /\ ~active' => Loaded = {}
    PROVE  Result
<1>1. q \in Poller
  BY DEF Fits, Good, Shaped
<1>2. poller' \in [Devices -> Poller] /\ poller'[d] = q
      /\ \A e \in Devices \ {d} : poller'[e] = poller[e]
  BY <1>1 DEF PollInv
<1>3. \A e \in Devices : Fits(e, poller'[e])
  BY <1>2, Unmoved DEF On
<1>4. stage' \in {"running", "stopping", "closed"}
  BY DEF PollInv
<1> QED
  BY <1>2, <1>3, <1>4, ResultOf

LEMMA BurstKept ==
    ASSUME PollInv, UNCHANGED burstVars
    PROVE  BurstInv' /\ active' = active /\ (\A d : Alive(d)' = Alive(d))
<1>1. BurstSteps
  BY DEF BurstSteps
<1>2. BurstInv'
  BY <1>1, BurstStepKept DEF PollInv
<1> QED
  BY <1>2 DEF burstVars, Alive

(* A method applied to the poller, or to it with little changed.            *)
LEMMA TurnsFit ==
    ASSUME PollInv, UNCHANGED <<burstVars, stage>>, NEW d \in Devices, NEW p, NEW q,
           poller' = [poller EXCEPT ![d] = q], Turns(d, p, q),
           p.task = poller[d].task, p.first = poller[d].first,
           p.commands = poller[d].commands, p.holdoff = poller[d].holdoff,
           ~Alive(d) => Gone(p) /\ Quiet(p), ~On => NoFirst(p), ~On => Late(d, q)
    PROVE  Result
<1>1. BurstInv' /\ active' = active /\ (\A e : Alive(e)' = Alive(e)) /\ On' = On
  BY BurstKept DEF On
<1>2. Good(q, Alive(d), On)
  BY DEF Good, Turns, Sound
<1>3. Reads(d, q)
  BY NoReadsReads DEF Turns, NoReads
<1>4. Freed(d, q)
  BY <1>1 DEF Freed, Turns, SameHolds, HoldingOff
<1>5. On => Keeps(poller[d], q)
  BY DEF Turns, Keeps
<1>6. Fits(d, q)
  BY <1>1, <1>2, <1>3, <1>4, <1>5 DEF Fits
<1> QED
  BY <1>1, <1>6, OneFits

LEMMA MovesFit ==
    ASSUME PollInv, UNCHANGED <<burstVars, stage>>, NEW d \in Devices, NEW p, NEW q,
           poller' = [poller EXCEPT ![d] = q], Moves(d, p, q),
           p.task = poller[d].task, p.first = poller[d].first,
           p.commands = poller[d].commands, p.holdoff = poller[d].holdoff,
           ~Alive(d) => Gone(p) /\ Quiet(p), ~On => NoFirst(p)
    PROVE  Result
<1>1. ~On => Late(d, q)
  BY CalmLate DEF Moves, Calm
<1>2. Turns(d, p, q)
  BY DEF Moves
<1> QED
  BY <1>1, <1>2, TurnsFit

-----------------------------------------------------------------------------
(* The steps.                                                               *)

LEMMA HoldMoves ==
    ASSUME NEW d, Alive(d), NEW p, Sound(p), NEW apart \in BOOLEAN
    PROVE  Moves(d, p, HoldPoll(p, apart, 0))
<1> DEFINE q == HoldPoll(p, apart, 0)
<1>1. 0 \in 0..HoldMax
  BY Constants
<1>2. /\ Shaped(q) /\ Idles(p, q) /\ q.timerSet = p.timerSet
      /\ Held(q) /\ q.since # NotHeld /\ (p.first \/ apart => q.first)
  BY <1>1, HoldPollIs DEF Sound
<1> HIDE DEF q
<1>3. Moves(d, p, q)
  BY <1>2 DEF Moves, Turns, Calm, Sound, Capped, Counted, SameHolds, NoReads, NoFirst, Keeps,
              Idles
<1> QED
  BY <1>3 DEF q

LEMMA PolicyMoves ==
    ASSUME NEW d, NEW p, Sound(p), NEW q \in Policies(p)
    PROVE  Moves(d, p, q)
<1>1. /\ Shaped(q) /\ Idles(p, q) /\ (q.timerSet => p.timerSet)
      /\ q.first = p.first
      /\ \/ q.waiting = p.waiting /\ q.since = p.since
         \/ ~q.waiting /\ q.since = IF p.first THEN p.since ELSE NotHeld
  BY PoliciesAre DEF Sound
<1>2. Capped(q) /\ Counted(q)
  BY <1>1 DEF Sound, Capped, Counted, Held, Idles
<1>3. /\ NoReads(p, q) /\ SameHolds(p, q) /\ (Quiet(p) => Quiet(q))
      /\ (NoFirst(p) => NoFirst(q)) /\ Calm(p, q) /\ Keeps(p, q)
  BY <1>1 DEF NoReads, SameHolds, Quiet, NoFirst, Calm, Keeps, Idles
<1>4. Gone(p) => Gone(q)
  BY <1>1 DEF Gone, Held, Idles
<1> QED
  BY <1>1, <1>2, <1>3, <1>4 DEF Moves, Turns, Sound

LEMMA CapStep ==
    ASSUME PollInv, NEW d \in Devices, CapReached(d)
    PROVE  Result
<1> DEFINE x == poller[d]
           p == [x EXCEPT !.since = NotHeld]
<1>1. PICK q \in (IF Held(p) /\ ~p.running THEN ReleasePoll(d, p, NoHold) ELSE {p}) :
         poller' = [poller EXCEPT ![d] = q]
  BY DEF CapReached, Becomes
<1>2. UNCHANGED <<burstVars, stage>> /\ x.since = HoldMax
  BY DEF CapReached, Becomes, SameBurst
<1>3. Sound(x) /\ Alive(d) /\ (~On => NoFirst(x))
  BY <1>2, GoodOf, Constants DEF Gone
<1>4. /\ Shaped(p) /\ SameHolds(x, p) /\ p.task = x.task /\ p.first = x.first
      /\ p.since = NotHeld
  BY <1>3 DEF Sound, Shaped, Poller, SameHolds
<1> HIDE DEF p
<1>5. Counted(p)
  BY <1>3, <1>4 DEF Sound, Counted
<1>6. Moves(d, p, q)
  <2>1. CASE Held(p) /\ ~p.running
    BY <1>1, <1>3, <1>4, <1>5, <2>1, ReleasePollIs
  <2>2. CASE ~(Held(p) /\ ~p.running)
    BY <1>1, <1>4, <1>5, <2>2, MovesSelf DEF Sound, Capped
  <2> QED BY <2>1, <2>2
<1>7. ~On => NoFirst(p)
  BY <1>3, <1>4 DEF NoFirst, SameHolds
<1> QED
  BY <1>1, <1>2, <1>3, <1>4, <1>6, <1>7, MovesFit DEF SameHolds

LEMMA TimerStep ==
    ASSUME PollInv, NEW d \in Devices, TimerFires(d)
    PROVE  Result
<1> DEFINE x == poller[d]
           p == [x EXCEPT !.timers = @ - 1]
           f == [p EXCEPT !.timerSet = FALSE]
           hold == [apart |-> FALSE, since |-> NotHeld]
<1>1. PICK q \in (IF p.running THEN {f}
                  ELSE IF HoldingOff(p, active) THEN {HoldPoll(f, FALSE, 0)}
                  ELSE Background(d, p, hold)) :
         poller' = [poller EXCEPT ![d] = q]
  BY DEF TimerFires, Becomes
<1>2. UNCHANGED <<burstVars, stage>> /\ x.timers > 0
  BY DEF TimerFires, Becomes, SameBurst
<1>3. Sound(x) /\ x.timers = 1 /\ Alive(d) /\ (~On => NoFirst(x))
  <2>1. Sound(x) /\ (~Alive(d) => ~x.timerSet)
    BY GoodOf DEF Gone
  <2>2. x.timers = IF x.timerSet THEN 1 ELSE 0
    BY <2>1 DEF Sound, Shaped
  <2> QED BY <1>2, <2>1, <2>2, GoodOf
<1>4. p = [x EXCEPT !.timers = 0] /\ x \in Poller
  BY <1>3 DEF Sound, Shaped
<1>5. /\ p \in Poller /\ SameHolds(x, p) /\ p.task = x.task /\ p.first = x.first
      /\ p.running = x.running
  BY <1>4 DEF Poller, SameHolds
<1>6. f = TimerOff(x)
  BY <1>4 DEF TimerOff
<1>7. /\ Shaped(f) /\ Idles(x, f) /\ f.waiting = x.waiting /\ f.first = x.first
      /\ f.since = x.since
  BY <1>4, <1>6, TimerIs
<1>8. Sound(f)
  BY <1>3, <1>7 DEF Sound, Capped, Counted, Held, Idles
<1>9. CASE p.running
  <2>1. q = f
    BY <1>1, <1>9
  <2> HIDE DEF f
  <2> QED
    BY <1>1, <1>2, <1>3, <1>7, <1>8, <2>1, MovesSelf, MovesFit DEF Idles, NoFirst
<1>10. CASE ~p.running /\ HoldingOff(p, active)
  <2>1. q = HoldPoll(f, FALSE, 0)
    BY <1>1, <1>10
  <2> HIDE DEF f
  <2>2. Moves(d, f, q)
    BY <1>3, <1>8, <2>1, HoldMoves
  <2> QED
    BY <1>1, <1>2, <1>3, <1>7, <2>2, MovesFit DEF Idles, NoFirst
<1>11. CASE ~p.running /\ ~HoldingOff(p, active)
  <2>1. q \in Background(d, p, hold)
    BY <1>1, <1>11
  <2>2. hold \in Hold
    BY DEF Hold
  <2> HIDE DEF p, hold
  <2>3. /\ Turns(d, p, q)
        /\ stage = "stopping" /\ q.task["background"] # NoTask =>
              q.task["background"].phase = "locked"
    BY <1>2, <1>3, <1>5, <1>8, <2>1, <2>2, BackgroundIs
  <2>4. stage \in {"running", "stopping", "closed"}
    BY DEF PollInv
  <2>5. ~On => Late(d, q)
    BY <2>3, <2>4 DEF Late, On
  <2>6. ~On => NoFirst(p)
    BY <1>3, <1>5 DEF NoFirst, SameHolds
  <2> QED
    BY <1>1, <1>2, <1>3, <1>5, <2>3, <2>5, <2>6, TurnsFit DEF SameHolds
<1> QED BY <1>9, <1>10, <1>11

LEMMA FirstStep ==
    ASSUME PollInv, NEW d \in Devices, FirstPoll(d)
    PROVE  Result
<1> DEFINE x == poller[d]
           p == [x EXCEPT !.firstDue = FALSE, !.owed = "kept"]
           j == [p EXCEPT !.owed = "joined"]
           hold == [apart |-> TRUE, since |-> NotHeld]
<1>1. PICK q \in (IF p.running THEN {j}
                  ELSE IF HoldingOff(p, active) THEN {HoldPoll(p, TRUE, 0)}
                  ELSE Refreshed(d, p, "first", hold)) :
         poller' = [poller EXCEPT ![d] = q]
  BY DEF FirstPoll, Becomes
<1>2. UNCHANGED <<burstVars, stage>> /\ x.firstDue
  BY DEF FirstPoll, Becomes, SameBurst
<1>3. Sound(x) /\ Alive(d) /\ On
  BY <1>2, GoodOf DEF Quiet, NoFirst
<1>4. /\ Shaped(p) /\ p.task = x.task /\ p.first = x.first /\ p.commands = x.commands
      /\ p.holdoff = x.holdoff /\ p.waiting = x.waiting /\ p.since = x.since
      /\ p.running = x.running
  BY <1>3 DEF Sound, Shaped, Poller
<1>5. Sound(p)
  BY <1>3, <1>4 DEF Sound, Capped, Counted, Held
<1>6. CASE p.running
  <2>1. q = j
    BY <1>1, <1>6
  <2>2. /\ Shaped(j) /\ j.task = x.task /\ j.first = x.first /\ j.commands = x.commands
        /\ j.holdoff = x.holdoff /\ j.waiting = x.waiting /\ j.since = x.since
        /\ j.running = x.running
    BY <1>3 DEF Sound, Shaped, Poller
  <2> HIDE DEF j
  <2>3. Sound(j)
    BY <1>3, <2>2 DEF Sound, Capped, Counted, Held
  <2> QED
    BY <1>1, <1>2, <1>3, <2>1, <2>2, <2>3, MovesSelf, MovesFit
<1> HIDE DEF p
<1>7. CASE ~p.running /\ HoldingOff(p, active)
  <2>1. q = HoldPoll(p, TRUE, 0)
    BY <1>1, <1>7
  <2>2. Moves(d, p, q)
    BY <1>3, <1>5, <2>1, HoldMoves
  <2> QED
    BY <1>1, <1>2, <1>3, <1>4, <2>2, MovesFit
<1>8. CASE ~p.running /\ ~HoldingOff(p, active)
  <2>1. q \in Refreshed(d, p, "first", hold)
    BY <1>1, <1>8
  <2>2. hold \in Hold
    BY DEF Hold
  <2> HIDE DEF hold
  <2>3. Turns(d, p, q)
    BY <1>3, <1>5, <2>1, <2>2, RefreshedIs DEF Kinds
  <2> QED
    BY <1>1, <1>2, <1>3, <1>4, <2>3, TurnsFit
<1> QED BY <1>6, <1>7, <1>8

LEMMA RequestSteps ==
    ASSUME PollInv, NEW d \in Devices, ReturnPoll(d) \/ FlipPoll(d)
    PROVE  Result
<1> DEFINE x == poller[d]
           p == [x EXCEPT !.absent = FALSE, !.owed = "kept"]
<1>1. UNCHANGED <<burstVars, stage>> /\ Alive(d)
  BY DEF ReturnPoll, FlipPoll, Becomes, SameBurst
<1>2. Sound(x) /\ (~On => NoFirst(x))
  BY GoodOf
<1>3. CASE ReturnPoll(d)
  <2>1. PICK q \in RequestPoll(d, p, TRUE) : poller' = [poller EXCEPT ![d] = q]
    BY <1>3 DEF ReturnPoll, Becomes
  <2>2. /\ Shaped(p) /\ p.task = x.task /\ p.first = x.first /\ p.commands = x.commands
        /\ p.holdoff = x.holdoff /\ p.waiting = x.waiting /\ p.since = x.since
        /\ p.running = x.running /\ p.firstDue = x.firstDue
    BY <1>2 DEF Sound, Shaped, Poller
  <2> HIDE DEF p
  <2>3. Sound(p) /\ (~On => NoFirst(p))
    BY <1>2, <2>2 DEF Sound, Capped, Counted, Held, NoFirst
  <2>4. Moves(d, p, q)
    BY <1>1, <2>1, <2>3, RequestPollIs
  <2> QED
    BY <1>1, <2>1, <2>2, <2>3, <2>4, MovesFit
<1>4. CASE FlipPoll(d)
  <2>1. PICK q \in RequestPoll(d, x, FALSE) : poller' = [poller EXCEPT ![d] = q]
    BY <1>4 DEF FlipPoll, Becomes
  <2>2. Moves(d, x, q)
    BY <1>1, <1>2, <2>1, RequestPollIs
  <2> QED
    BY <1>1, <1>2, <2>1, <2>2, MovesFit
<1> QED BY <1>3, <1>4

LEMMA RefreshSteps ==
    ASSUME PollInv, NEW d \in Devices, StartManual(d) \/ TakeLock(d)
    PROVE  Result
<1> DEFINE x == poller[d]
<1>1. UNCHANGED <<burstVars, stage>>
  BY DEF StartManual, TakeLock, Becomes, SameBurst
<1>2. Sound(x) /\ (~Alive(d) => Gone(x) /\ Quiet(x)) /\ (~On => NoFirst(x))
  BY GoodOf
<1>3. CASE StartManual(d)
  <2>1. PICK q \in Refreshed(d, x, "manual", NoHold) : poller' = [poller EXCEPT ![d] = q]
    BY <1>3 DEF StartManual, Becomes
  <2>2. Moves(d, x, q)
    BY <1>2, <2>1, RefreshedIs DEF Kinds, Moves
  <2> QED
    BY <1>1, <1>2, <2>1, <2>2, MovesFit
<1>4. CASE TakeLock(d)
  <2> DEFINE hold == x.task["background"].hold
  <2>1. PICK q \in Refreshed(d, x, "background", hold) : poller' = [poller EXCEPT ![d] = q]
    BY <1>4 DEF TakeLock, Becomes
  <2>2. x.task["background"] # NoTask
    BY <1>4 DEF TakeLock
  <2>3. hold \in Hold \cup {NoHold}
    BY <1>2, <2>2 DEF Sound, Shaped, Poller, Kinds, Task
  <2> HIDE DEF hold
  <2>4. Turns(d, x, q) /\ (stage = "stopping" => q.task["background"] = NoTask)
    BY <1>2, <2>1, <2>3, RefreshedIs DEF Kinds
  <2>5. stage \in {"running", "stopping", "closed"}
    BY DEF PollInv
  <2>6. ~On => Late(d, q)
    BY <2>2, <2>4, <2>5 DEF Late, On
  <2> QED
    BY <1>1, <1>2, <2>1, <2>4, <2>6, TurnsFit
<1> QED BY <1>3, <1>4

LEMMA EndReadStep ==
    ASSUME PollInv, NEW d \in Devices, NEW kind \in Kinds, EndRead(d, kind)
    PROVE  Result
<1> DEFINE x == poller[d]
           a(b) == [x EXCEPT !.absent = b]
           h == [x EXCEPT !.halted = TRUE]
<1>1. UNCHANGED <<burstVars, stage>>
  BY DEF EndRead, Becomes, SameBurst
<1>2. Sound(x) /\ (~Alive(d) => Gone(x) /\ Quiet(x)) /\ (~On => NoFirst(x))
  BY GoodOf
<1>3. PICK q : /\ poller' = [poller EXCEPT ![d] = q]
               /\ \/ \E b \in BOOLEAN : \E r \in Policies(a(b)) : q = Ended(d, r, kind, NoHold, TRUE)
                  \/ q = Ended(d, h, kind, NoHold, FALSE)
  <2>1. x.absent \in BOOLEAN
    BY <1>2 DEF Sound, Shaped, Poller
  <2> QED
    BY <2>1 DEF EndRead, Becomes
<1>4. ASSUME NEW b \in BOOLEAN, NEW r \in Policies(a(b)), q = Ended(d, r, kind, NoHold, TRUE)
      PROVE  Result
  <2> DEFINE p == a(b)
  <2>1. /\ Shaped(p) /\ p.task = x.task /\ p.first = x.first /\ p.commands = x.commands
        /\ p.holdoff = x.holdoff /\ p.waiting = x.waiting /\ p.since = x.since
        /\ p.firstDue = x.firstDue /\ p.timerSet = x.timerSet
    BY <1>2 DEF Sound, Shaped, Poller
  <2>2. r \in Policies(p)
    BY <1>4
  <2> HIDE DEF p
  <2>3. /\ Counted(p) /\ (Gone(x) => Gone(p)) /\ (Quiet(x) => Quiet(p))
        /\ (NoFirst(x) => NoFirst(p))
    BY <1>2, <2>1 DEF Sound, Counted, Quiet, NoFirst, Gone, Held
  <2>4. Moves(d, p, q)
    BY <1>4, <2>1, <2>2, <2>3, PolicyEnds, EndsMoves
  <2> QED
    BY <1>1, <1>2, <1>3, <2>1, <2>3, <2>4, MovesFit
<1>5. CASE q = Ended(d, h, kind, NoHold, FALSE)
  <2>1. /\ Shaped(h) /\ h.task = x.task /\ h.first = x.first /\ h.commands = x.commands
        /\ h.holdoff = x.holdoff /\ h.waiting = x.waiting /\ h.since = x.since
        /\ h.firstDue = x.firstDue /\ h.timerSet = x.timerSet
    BY <1>2 DEF Sound, Shaped, Poller
  <2> HIDE DEF h
  <2>2. /\ Counted(h) /\ (Gone(x) => Gone(h)) /\ (Quiet(x) => Quiet(h))
        /\ (NoFirst(x) => NoFirst(h))
    BY <1>2, <2>1 DEF Sound, Counted, Quiet, NoFirst, Gone, Held
  <2>3. NoHold \in Hold \cup {NoHold}
    OBVIOUS
  <2>4. Ends(d, h, q, kind)
    BY <1>5, <2>1, <2>2, <2>3, EndedIs
  <2>5. Moves(d, h, q)
    BY <2>1, <2>4, EndsMoves
  <2> QED
    BY <1>1, <1>2, <1>3, <2>1, <2>2, <2>5, MovesFit
<1> QED BY <1>3, <1>4, <1>5

LEMMA PolicySteps ==
    ASSUME PollInv, NEW d \in Devices, StopPolls(d) \/ RearmPolls(d)
    PROVE  Result
<1> DEFINE x == poller[d]
<1>1. UNCHANGED <<burstVars, stage>> /\ Alive(d)
  BY DEF StopPolls, RearmPolls, Becomes, SameBurst
<1>2. Sound(x) /\ (~On => NoFirst(x))
  BY GoodOf
<1>3. CASE StopPolls(d)
  <2> DEFINE q == [Unsubscribed(x) EXCEPT !.polled = FALSE]
  <2>1. poller' = [poller EXCEPT ![d] = q]
    BY <1>3 DEF StopPolls, Becomes
  <2>2. q \in Policies(x)
    BY DEF Policies
  <2> HIDE DEF q
  <2> QED
    BY <1>1, <1>2, <2>1, <2>2, PolicyMoves, MovesFit
<1>4. CASE RearmPolls(d)
  <2> DEFINE p == [x EXCEPT !.polled = TRUE]
             r == Rearmed(p)
  <2>1. poller' = [poller EXCEPT ![d] = IF p.halted THEN p ELSE r]
    BY <1>4 DEF RearmPolls, Becomes
  <2>2. p \in Policies(x)
    BY DEF Policies
  <2>3. Moves(d, x, p)
    BY <1>2, <2>2, PolicyMoves
  <2>4. CASE p.halted
    <3>1. poller' = [poller EXCEPT ![d] = p]
      BY <2>1, <2>4
    <3> HIDE DEF p
    <3> QED BY <1>1, <1>2, <2>3, <3>1, MovesFit
  <2>5. CASE ~p.halted
    <3>1. poller' = [poller EXCEPT ![d] = r]
      BY <2>1, <2>5
    <3>2. /\ Sound(p) /\ p.task = x.task /\ p.first = x.first /\ p.commands = x.commands
          /\ p.holdoff = x.holdoff /\ p.firstDue = x.firstDue
      BY <1>2, <2>3 DEF Moves, Turns, Sound, Shaped, Poller
    <3> HIDE DEF p
    <3>3. /\ Shaped(r) /\ Idles(p, r) /\ r.first = p.first
          /\ \/ r.waiting = p.waiting /\ r.since = p.since
             \/ ~r.waiting /\ r.since = IF p.first THEN p.since ELSE NotHeld
      BY <3>2, RearmedIs DEF Sound
    <3> HIDE DEF r
    <3>4. Capped(r) /\ Counted(r)
      BY <3>2, <3>3 DEF Sound, Capped, Counted, Held, Idles
    <3>5. /\ NoReads(p, r) /\ SameHolds(p, r) /\ (NoFirst(p) => NoFirst(r))
          /\ Calm(p, r) /\ Keeps(p, r)
      BY <3>3 DEF NoReads, SameHolds, NoFirst, Calm, Keeps, Idles
    <3>6. Moves(d, p, r)
      BY <1>1, <3>3, <3>4, <3>5 DEF Moves, Turns, Sound
    <3>7. ~On => NoFirst(p)
      BY <1>2, <3>2 DEF NoFirst
    <3> QED
      BY <1>1, <3>1, <3>2, <3>6, <3>7, MovesFit
  <2> QED BY <2>4, <2>5
<1> QED BY <1>3, <1>4

LEMMA HoldoffStep ==
    ASSUME PollInv, NEW d \in Devices, EndHoldoff(d)
    PROVE  Result
<1> DEFINE x == poller[d]
           p == [x EXCEPT !.holdoff = "off"]
<1>1. PICK q \in ReleaseHeld(d, p, active) : poller' = [poller EXCEPT ![d] = q]
  BY DEF EndHoldoff, Becomes
<1>2. UNCHANGED <<burstVars, stage>> /\ x.holdoff = "due"
  BY DEF EndHoldoff, Becomes, SameBurst
<1>3. Sound(x) /\ Alive(d) /\ (~On => NoFirst(x))
  BY <1>2, GoodOf DEF Gone
<1>4. /\ Shaped(p) /\ p.task = x.task /\ p.first = x.first /\ p.waiting = x.waiting
      /\ p.since = x.since /\ p.running = x.running /\ p.firstDue = x.firstDue
  BY <1>3 DEF Sound, Shaped, Poller, Timers
<1> HIDE DEF p
<1>5. Sound(p) /\ (~On => NoFirst(p))
  BY <1>3, <1>4 DEF Sound, Capped, Counted, Held, NoFirst
<1>6. Moves(d, p, q) /\ (~p.running /\ ~HoldingOff(p, active) => ~Held(q))
  BY <1>1, <1>3, <1>5, ReleaseHeldIs
<1>7. BurstInv' /\ active' = active /\ (\A e : Alive(e)' = Alive(e)) /\ On' = On
  BY <1>2, BurstKept DEF On
<1>8. Good(q, Alive(d), On)
  BY <1>3, <1>5, <1>6 DEF Good, Moves, Turns, Sound
<1>9. Reads(d, q)
  BY <1>4, <1>6, NoReadsReads DEF Moves, Turns, NoReads
<1>10. Freed(d, q)
  BY <1>4, <1>6, <1>7 DEF Freed, Moves, Turns, SameHolds, HoldingOff
<1>11. (On => Keeps(x, q)) /\ (~On => Late(d, q))
  BY <1>4, <1>6, CalmLate DEF Moves, Turns, Keeps, Calm
<1>12. Fits(d, q)
  BY <1>7, <1>8, <1>9, <1>10, <1>11 DEF Fits
<1> QED
  BY <1>1, <1>2, <1>7, <1>12, OneFits

LEMMA AskStep ==
    ASSUME PollInv, NEW d \in Devices, AskManual(d)
    PROVE  Result
<1> DEFINE x == poller[d]
           t == [phase |-> "holding", hold |-> NoHold]
           task == [x.task EXCEPT !["manual"] = t]
           q == [x EXCEPT !.task = task]
<1>1. poller' = [poller EXCEPT ![d] = q] /\ UNCHANGED <<burstVars, stage>> /\ Alive(d)
  BY DEF AskManual, Becomes, SameBurst
<1>2. Sound(x) /\ (~On => NoFirst(x))
  BY GoodOf
<1>3. t \in Task /\ t.hold = NoHold /\ t.phase = "holding" /\ "manual" \in Kinds
  BY DEF Task, Kinds
<1> HIDE DEF t
<1>4. task \in [Kinds -> Task \cup {NoTask}]
  BY <1>2, <1>3 DEF Sound, Shaped, Poller
<1> HIDE DEF task
<1>5. /\ Shaped(q) /\ SameHolds(x, q) /\ q.task = task /\ q.running = x.running
      /\ q.waiting = x.waiting /\ q.first = x.first /\ q.since = x.since
  BY <1>2, <1>4 DEF Sound, Shaped, Poller, SameHolds
<1> HIDE DEF q
<1>6. /\ Counted(q) /\ q.task["manual"] = t
      /\ \A k \in Kinds \ {"manual"} : q.task[k] = x.task[k]
  BY <1>2, <1>3, <1>5, CountedIs DEF Sound, task
<1>7. Capped(q) /\ Keeps(x, q)
  BY <1>2, <1>5 DEF Sound, Capped, Held, Keeps
<1>8. NoReads(x, q) /\ (NoFirst(x) => NoFirst(q)) /\ Calm(x, q)
  BY <1>3, <1>5, <1>6 DEF NoReads, NoFirst, Calm, SameHolds, Kinds
<1>9. Moves(d, x, q)
  BY <1>1, <1>5, <1>6, <1>7, <1>8 DEF Moves, Turns, Sound
<1> QED
  BY <1>1, <1>2, <1>9, MovesFit

LEMMA PlaceStep ==
    ASSUME PollInv, NEW d \in Devices, NEW kind \in Kinds, Place(d, kind)
    PROVE  Result
<1> DEFINE x == poller[d]
           hold == x.task[kind].hold
           t == [x.task[kind] EXCEPT !.phase = "reading"]
           task == [x.task EXCEPT ![kind] = t]
           r == [x EXCEPT !.task = task]
<1>0. PICK q \in Placed(d, kind) : poller' = [poller EXCEPT ![d] = q]
  BY DEF Place, Becomes
<1>1. \/ q = Ended(d, x, kind, NoHold, TRUE)
      \/ hold # NoHold /\ HoldingOff(x, active) /\ q = Ended(d, x, kind, hold, TRUE)
      \/ ~(hold # NoHold /\ HoldingOff(x, active)) /\ q \in Skipped(d, x, kind)
      \/ ~(hold # NoHold /\ HoldingOff(x, active)) /\ q = r
  <2>1. r = Reading(x, kind)
    BY DEF Reading
  <2> HIDE DEF r
  <2> QED BY <2>1 DEF Placed
<1>2. /\ UNCHANGED <<burstVars, stage>>
      /\ x.task[kind] # NoTask /\ x.task[kind].phase = "queued"
  BY DEF Place, Becomes, SameBurst
<1>3. Sound(x) /\ (~Alive(d) => Gone(x) /\ Quiet(x)) /\ (~On => NoFirst(x))
  BY GoodOf
<1>4. x.task[kind] \in Task /\ x.task \in [Kinds -> Task \cup {NoTask}]
  BY <1>2, <1>3 DEF Sound, Shaped, Poller
<1>5. hold \in Hold \cup {NoHold} /\ (hold # NoHold => hold.since # NotHeld /\ kind # "manual")
  BY <1>2, <1>3, <1>4 DEF Sound, Counted, Task
<1>6. (kind # "manual" => Alive(d)) /\ (kind = "first" => On)
  BY <1>2, <1>3 DEF Quiet, NoFirst, Kinds
<1>7. CASE q = Ended(d, x, kind, NoHold, TRUE)
  <2>1. NoHold \in Hold \cup {NoHold}
    OBVIOUS
  <2>2. Ends(d, x, q, kind)
    BY <1>3, <1>7, <2>1, EndedIs DEF Sound
  <2> QED
    BY <1>0, <1>2, <1>3, <2>2, EndsMoves, MovesFit DEF Sound
<1>8. CASE hold # NoHold /\ q = Ended(d, x, kind, hold, TRUE)
  <2> DEFINE e == Ended(d, x, kind, hold, TRUE)
  <2> HIDE DEF hold
  <2>0. hold # NoHold => hold.since # NotHeld
    BY <1>5
  <2>1. /\ Sound(e) /\ SameHolds(x, e) /\ e.task = [x.task EXCEPT ![kind] = NoTask]
        /\ x.first => e.first
    <3>1. Shaped(x) /\ Counted(x)
      BY <1>3 DEF Sound
    <3> QED BY <1>5, <1>8, <2>0, <3>1, EndedIs
  <2>9. q = e
    BY <1>8
  <2> HIDE DEF e
  <2>2. NoReads(x, q) /\ (NoFirst(x) => NoFirst(q)) /\ Calm(x, q)
    BY <1>4, <2>1, <2>9 DEF NoReads, NoFirst, Calm, SameHolds, Kinds
  <2>3. Moves(d, x, q)
    BY <1>5, <1>6, <1>8, <2>1, <2>2, <2>9 DEF Moves, Turns, Keeps
  <2> QED
    BY <1>0, <1>2, <1>3, <2>3, MovesFit
<1>9. CASE q \in Skipped(d, x, kind)
  <2>1. Ends(d, x, q, kind)
    BY <1>3, <1>9, SkippedIs DEF Sound
  <2> QED
    BY <1>0, <1>2, <1>3, <2>1, EndsMoves, MovesFit DEF Sound
<1>10. CASE ~(hold # NoHold /\ HoldingOff(x, active)) /\ q = r
  <2>1. t \in Task /\ t.hold = hold /\ t.phase = "reading"
    BY <1>4 DEF Task
  <2> HIDE DEF t
  <2>2. task \in [Kinds -> Task \cup {NoTask}]
    BY <1>4, <2>1
  <2> HIDE DEF task
  <2>3. /\ Shaped(r) /\ SameHolds(x, r) /\ r.task = task /\ r.running = x.running
        /\ r.waiting = x.waiting /\ r.first = x.first /\ r.since = x.since
        /\ r.timerSet = x.timerSet
    BY <1>3, <2>2 DEF Sound, Shaped, Poller, SameHolds
  <2> HIDE DEF r
  <2>4. /\ Counted(r) /\ r.task[kind] = t
        /\ \A k \in Kinds \ {kind} : r.task[k] = x.task[k]
    BY <1>3, <1>5, <2>1, <2>3, CountedIs DEF Sound, task
  <2>5. Capped(r) /\ Keeps(x, r)
    BY <1>3, <2>3 DEF Sound, Capped, Held, Keeps
  <2>6. /\ Gone(x) => Gone(r)
        /\ ~Alive(d) => Quiet(r)
        /\ ~On => NoFirst(r)
        /\ Calm(x, r)
    BY <1>2, <1>3, <1>6, <2>1, <2>3, <2>4 DEF Gone, Held, Quiet, NoFirst, Calm, SameHolds, Kinds
  <2>7. BurstInv' /\ active' = active /\ (\A e : Alive(e)' = Alive(e)) /\ On' = On
    BY <1>2, BurstKept DEF On
  <2>8. Good(r, Alive(d), On)
    BY <1>3, <2>3, <2>4, <2>5, <2>6 DEF Good
  <2>9. Reads(d, r)
    BY <1>10, <2>4 DEF Reads, Kinds
  <2>10. Freed(d, r)
    BY <2>3, <2>7 DEF Freed, SameHolds, HoldingOff
  <2>11. Fits(d, r)
    BY <2>5, <2>6, <2>7, <2>8, <2>9, <2>10, CalmLate DEF Fits
  <2> QED
    BY <1>0, <1>2, <1>10, <2>7, <2>11, OneFits
<1> QED BY <1>1, <1>7, <1>8, <1>9, <1>10

-----------------------------------------------------------------------------
(* The steps of the tracker and of the entries.                             *)

(* The end of a command or of a waiting turn-off ends a burst at once only  *)
(* if no entry is loaded.                                                   *)
LEMMA ShrinkEnds ==
    ASSUME NEW run, NEW offs, BurstShrinks(run, offs)
    PROVE  active /\ ~active' => Loaded = {}
  BY DEF BurstShrinks

LEMMA CommandStep ==
    ASSUME PollInv, NEW d \in Devices, StartCommand(d) \/ FinishCommand(d)
    PROVE  Result
<1> DEFINE x == poller[d]
           n == x.commands + 1
           s == [x EXCEPT !.commands = n, !.holdoff = "off"]
           p == [x EXCEPT !.commands = @ - 1]
           f == IF p.commands > 0 \/ ~Alive(d) THEN p ELSE [p EXCEPT !.holdoff = "armed"]
<1>1. Sound(x) /\ (~Alive(d) => Gone(x) /\ Quiet(x)) /\ (~On => NoFirst(x)) /\ x.commands \in Nat
  BY GoodOf DEF Poller
<1>2. BurstSteps /\ UNCHANGED <<entry, stage>>
  BY DEF StartCommand, FinishCommand, Becomes, CommandStarts, CommandEnds, BurstSteps
<1>3. BurstInv' /\ (\A e : Alive(e)' = Alive(e)) /\ On' = On
  BY <1>2, BurstStepKept DEF PollInv, Alive, On
<1>4. active /\ ~active' => Loaded = {}
  BY ShrinkEnds DEF StartCommand, FinishCommand, CommandStarts, CommandEnds, BurstGrows
<1>5. ASSUME NEW q, Shaped(q), q.task = x.task, q.first = x.first, q.waiting = x.waiting,
             q.since = x.since, q.running = x.running, q.firstDue = x.firstDue,
             q.timerSet = x.timerSet, ~Alive(d) => q.holdoff = "off",
             Alive(d) => HoldingOff(q, active'),
             poller' = [poller EXCEPT ![d] = q]
      PROVE  Result
  <2>1. Good(q, Alive(d), On)
    BY <1>1, <1>5 DEF Good, Sound, Capped, Counted, Gone, Quiet, NoFirst, Held
  <2>2. Reads(d, q) /\ Keeps(x, q) /\ Late(d, q)
    BY <1>5 DEF Reads, Keeps, Late
  <2>3. Freed(d, q)
    BY <1>5 DEF Freed, Loaded, Alive
  <2>4. Fits(d, q)
    BY <1>3, <2>1, <2>2, <2>3 DEF Fits
  <2> QED
    BY <1>2, <1>3, <1>4, <1>5, <2>4, OneFits
<1>6. CASE StartCommand(d)
  <2>1. poller' = [poller EXCEPT ![d] = s]
    BY <1>6 DEF StartCommand, Becomes
  <2>2. /\ Shaped(s) /\ s.task = x.task /\ s.first = x.first /\ s.waiting = x.waiting
        /\ s.since = x.since /\ s.running = x.running /\ s.firstDue = x.firstDue
        /\ s.timerSet = x.timerSet /\ s.holdoff = "off" /\ s.commands > 0
    <3>1. n \in Nat /\ n > 0
      BY <1>1
    <3> HIDE DEF n
    <3> QED BY <1>1, <3>1 DEF Sound, Shaped, Poller, Timers
  <2> HIDE DEF s
  <2> QED
    BY <1>5, <2>1, <2>2 DEF HoldingOff
<1>7. CASE FinishCommand(d)
  <2>1. poller' = [poller EXCEPT ![d] = f] /\ x.commands > 0
    BY <1>7 DEF FinishCommand, Becomes
  <2>2. /\ Shaped(p) /\ p.task = x.task /\ p.first = x.first /\ p.waiting = x.waiting
        /\ p.since = x.since /\ p.running = x.running /\ p.firstDue = x.firstDue
        /\ p.timerSet = x.timerSet /\ p.holdoff = x.holdoff
    BY <1>1, <2>1 DEF Sound, Shaped, Poller
  <2> HIDE DEF p
  <2>3. /\ Shaped(f) /\ f.task = x.task /\ f.first = x.first /\ f.waiting = x.waiting
        /\ f.since = x.since /\ f.running = x.running /\ f.firstDue = x.firstDue
        /\ f.timerSet = x.timerSet
        /\ ~Alive(d) => f.holdoff = x.holdoff
        /\ Alive(d) => f.commands > 0 \/ f.holdoff = "armed"
    BY <2>2 DEF Shaped, Poller, Timers
  <2> HIDE DEF f
  <2> QED
    BY <1>1, <1>5, <2>1, <2>3 DEF HoldingOff, Gone
<1> QED BY <1>6, <1>7

LEMMA AllUnmoved ==
    ASSUME PollInv, BurstInv', poller' = poller, On' = On,
           stage' \in {"running", "stopping", "closed"},
           \A d \in Devices : Alive(d)' = Alive(d),
           active /\ ~active' => Loaded = {}
    PROVE  Result
<1>1. \A d \in Devices : Fits(d, poller'[d])
  BY Unmoved
<1>2. poller' \in [Devices -> Poller]
  BY DEF PollInv
<1> QED
  BY <1>1, <1>2, ResultOf

LEMMA BystandingSteps ==
    ASSUME PollInv, NEW d \in Devices,
           \/ FinishOrphan(d) \/ WaitOff(d) \/ GoOff(d)
           \/ LoadEntry(d) \/ StartUnloadEntry(d) \/ FailUnloadEntry(d)
    PROVE  Result
<1>1. BurstSteps /\ UNCHANGED <<poller, stage>>
  BY DEF FinishOrphan, WaitOff, GoOff, LoadEntry, StartUnloadEntry, FailUnloadEntry, BurstSteps
<1>2. BurstInv'
  BY <1>1, BurstStepKept DEF PollInv
<1>3. entry \in [Devices -> EntryStates]
  BY DEF PollInv, BurstInv, BurstTypeOK
<1>4. \A e \in Devices : Alive(e)' = Alive(e)
  BY <1>3 DEF FinishOrphan, WaitOff, GoOff, LoadEntry, StartUnloadEntry, FailUnloadEntry,
              CommandEnds, OffWaits, OffGoes, Load, StartUnload, FailUnload, EntryBecomes, Alive
<1>5. active /\ ~active' => Loaded = {}
  <2>1. CASE FinishOrphan(d)
    BY <2>1, ShrinkEnds DEF FinishOrphan, CommandEnds
  <2>2. CASE GoOff(d)
    BY <2>2, ShrinkEnds DEF GoOff, OffGoes
  <2>3. CASE WaitOff(d)
    BY <2>3 DEF WaitOff, OffWaits, BurstGrows
  <2>4. CASE LoadEntry(d) \/ StartUnloadEntry(d) \/ FailUnloadEntry(d)
    BY <2>4 DEF LoadEntry, StartUnloadEntry, FailUnloadEntry, Load, StartUnload, FailUnload
  <2> QED BY <2>1, <2>2, <2>3, <2>4
<1>6. stage' \in {"running", "stopping", "closed"} /\ On' = On
  BY <1>1 DEF PollInv, On
<1> QED
  BY <1>1, <1>2, <1>4, <1>5, <1>6, AllUnmoved

LEMMA NewPollerIs == Good(NewPoller, TRUE, TRUE)
<1> DEFINE task == [k \in Kinds |-> NoTask]
<1>1. task \in [Kinds -> Task \cup {NoTask}] /\ \A k \in Kinds : task[k] = NoTask
  OBVIOUS
<1> HIDE DEF task
<1>2. NewPoller = [commands |-> 0, holdoff |-> "off", waiting |-> FALSE, first |-> FALSE,
                   since |-> NotHeld, timers |-> 1, timerSet |-> TRUE, polled |-> TRUE,
                   halted |-> FALSE, absent |-> FALSE, running |-> FALSE,
                   task |-> task, firstDue |-> TRUE, owed |-> "no"]
  BY DEF NewPoller, task
<1>3. Shaped(NewPoller) /\ Capped(NewPoller)
  BY <1>1, <1>2 DEF Shaped, Capped, Poller, Held, Timers
<1>4. NewPoller.task = task
  BY <1>2
<1>5. Counted(NewPoller)
  BY <1>1, <1>4 DEF Counted, Kinds
<1> QED
  BY <1>3, <1>5 DEF Good

LEMMA SetUpStep ==
    ASSUME PollInv, NEW d \in Devices, SetUpEntry(d)
    PROVE  Result
<1>1. poller' = [poller EXCEPT ![d] = NewPoller] /\ UNCHANGED <<active, stage>> /\ On
  BY DEF SetUpEntry, Becomes, SetUp, On
<1>2. BurstInv'
  BY BurstStepKept DEF SetUpEntry, PollInv, BurstSteps
<1>3. entry[d] = "gone" /\ entry' = [entry EXCEPT ![d] = "setup"]
  BY DEF SetUpEntry, SetUp, EntryBecomes
<1>4. Alive(d)' /\ ~Alive(d) /\ \A e \in Devices \ {d} : Alive(e)' = Alive(e)
  BY <1>3 DEF PollInv, BurstInv, BurstTypeOK, Alive
<1>5. Gone(poller[d])
  BY <1>4, GoodOf
<1>6. Reads(d, NewPoller)
  BY DEF Reads, NewPoller, Kinds
<1>7. Freed(d, NewPoller)
  BY <1>5 DEF Freed, Gone
<1>8. Keeps(poller[d], NewPoller)
  BY <1>5 DEF Keeps, Gone, Held
<1>9. On' = On
  BY <1>1 DEF On
<1>10. Good(NewPoller, Alive(d)', On')
  BY <1>1, <1>4, <1>9, NewPollerIs DEF Good
<1>11. Fits(d, NewPoller)
  BY <1>1, <1>6, <1>7, <1>8, <1>10 DEF Fits
<1> QED
  BY <1>1, <1>2, <1>4, <1>11, OneFits

LEMMA TasksCancelledIs ==
    ASSUME NEW p, Shaped(p), Counted(p)
    PROVE  LET q == TasksCancelled(p)
           IN  /\ Shaped(q) /\ Counted(q) /\ Quiet(q) /\ NoReads(p, q) /\ ~q.running
               /\ q.commands = p.commands /\ q.holdoff = p.holdoff /\ q.waiting = p.waiting
               /\ q.first = p.first /\ q.since = p.since /\ q.timerSet = p.timerSet
<1> DEFINE task == [k \in Kinds |-> IF k = "manual" THEN p.task[k] ELSE NoTask]
           q == TasksCancelled(p)
<1>1. /\ task \in [Kinds -> Task \cup {NoTask}] /\ task["manual"] = p.task["manual"]
      /\ task["first"] = NoTask /\ task["background"] = NoTask
  BY DEF Shaped, Poller, Kinds
<1>2. q = [p EXCEPT !.running = FALSE, !.firstDue = FALSE, !.task = task]
  BY DEF TasksCancelled
<1> HIDE DEF task, q
<1>3. /\ Shaped(q) /\ q.task = task /\ ~q.running /\ ~q.firstDue
      /\ q.commands = p.commands /\ q.holdoff = p.holdoff /\ q.waiting = p.waiting
      /\ q.first = p.first /\ q.since = p.since /\ q.timerSet = p.timerSet
  BY <1>1, <1>2 DEF Shaped, Poller
<1>4. Counted(q) /\ Quiet(q) /\ NoReads(p, q)
  BY <1>1, <1>3 DEF Counted, Quiet, NoFirst, NoReads, Kinds
<1> QED
  BY <1>3, <1>4 DEF q

LEMMA ShutDownStep ==
    ASSUME PollInv, NEW d \in Devices, ShutDownEntry(d)
    PROVE  Result
<1> DEFINE x == poller[d]
           h == DropHeld(x)
           c == Cancelled(h)
           k == TasksCancelled(c)
           q == [k EXCEPT !.holdoff = "off", !.owed = "no"]
<1>1. poller' = [poller EXCEPT ![d] = q] /\ UNCHANGED stage
  BY DEF ShutDownEntry, Becomes
<1>2. BurstInv'
  BY BurstStepKept DEF ShutDownEntry, PollInv, BurstSteps
<1>3. entry' = [entry EXCEPT ![d] = "gone"] /\ (active /\ ~active' => Loaded = {})
  BY DEF ShutDownEntry, ShutDown, EntryBecomes, UnloadNoted
<1>4. ~Alive(d)' /\ \A e \in Devices \ {d} : Alive(e)' = Alive(e)
  BY <1>3 DEF PollInv, BurstInv, BurstTypeOK, Alive
<1>5. Shaped(x) /\ Counted(x)
  BY GoodOf
<1>6. Shaped(h) /\ Idles(x, h) /\ ~Held(h) /\ h.since = NotHeld
  BY <1>5, DropHeldIs
<1> HIDE DEF h
<1>7. /\ Shaped(c) /\ Idles(h, c) /\ ~c.timerSet
      /\ c.waiting = h.waiting /\ c.first = h.first /\ c.since = h.since
  BY <1>6, CancelledIs
<1> HIDE DEF c
<1>8. Counted(c) /\ c.task = x.task
  BY <1>5, <1>6, <1>7 DEF Counted, Idles
<1>9. /\ Shaped(k) /\ Counted(k) /\ Quiet(k) /\ NoReads(c, k)
      /\ k.waiting = c.waiting /\ k.first = c.first /\ k.since = c.since
      /\ k.timerSet = c.timerSet
  BY <1>7, <1>8, TasksCancelledIs
<1> HIDE DEF k
<1>10. /\ Shaped(q) /\ q.task = k.task /\ q.waiting = k.waiting /\ q.first = k.first
       /\ q.since = k.since /\ q.timerSet = k.timerSet /\ q.holdoff = "off"
       /\ q.firstDue = k.firstDue
  BY <1>9 DEF Shaped, Poller, Timers
<1> HIDE DEF q
<1>11. ~Held(q) /\ Gone(q) /\ Quiet(q) /\ Capped(q) /\ Counted(q)
  BY <1>6, <1>7, <1>9, <1>10 DEF Held, Gone, Quiet, NoFirst, Capped, Counted
<1>12. Reads(d, q)
  BY <1>8, <1>9, <1>10, NoReadsReads DEF NoReads
<1>13. Freed(d, q)
  BY <1>11 DEF Freed
<1>14. Late(d, q)
  BY <1>11 DEF Late, Quiet
<1>15. Fits(d, q)
  BY <1>4, <1>10, <1>11, <1>12, <1>13, <1>14 DEF Fits, Good, Quiet
<1> QED
  BY <1>1, <1>2, <1>3, <1>4, <1>15, OneFits

LEMMA EndBurstStep ==
    ASSUME PollInv, EndBurst
    PROVE  Result
<1> DEFINE After(d) == IF d \in Loaded THEN ReleaseHeld(d, poller[d], FALSE) ELSE {poller[d]}
<1>1. /\ \A d \in Devices : poller'[d] \in After(d)
      /\ \E S : poller' \in [Devices -> S]
  BY DEF EndBurst
<1>2. BurstInv'
  BY BurstStepKept DEF EndBurst, PollInv, BurstSteps
<1>3. UNCHANGED <<entry, stage>> /\ active' = FALSE
  BY DEF EndBurst, BurstEnds
<1>4. (\A e : Alive(e)' = Alive(e)) /\ On' = On
  BY <1>3 DEF Alive, On
<1>5. ASSUME NEW d \in Devices PROVE Fits(d, poller'[d])
  <2> DEFINE x == poller[d]
             q == poller'[d]
  <2>1. Sound(x) /\ (~Alive(d) => Gone(x) /\ Quiet(x)) /\ (~On => NoFirst(x))
    BY GoodOf
  <2>2. CASE d \in Loaded
    <3>1. q \in ReleaseHeld(d, x, FALSE)
      BY <1>1, <2>2
    <3> HIDE DEF q
    <3>2. Held(x) => Alive(d)
      BY <2>1 DEF Gone
    <3>3. Moves(d, x, q) /\ (~x.running /\ ~HoldingOff(x, FALSE) => ~Held(q))
      BY <2>1, <3>1, <3>2, ReleaseHeldIs
    <3>4. Good(q, Alive(d), On)
      BY <2>1, <3>3 DEF Good, Moves, Turns, Sound
    <3>5. Reads(d, q) /\ (On => Keeps(x, q)) /\ (~On => Late(d, q))
      BY <3>3, NoReadsReads, CalmLate DEF Moves, Turns
    <3>6. Freed(d, q)
      BY <1>3, <3>3 DEF Freed, Moves, Turns, SameHolds, HoldingOff
    <3>7. Fits(d, q)
      BY <1>4, <3>4, <3>5, <3>6 DEF Fits
    <3> QED BY <3>7 DEF q
  <2>3. CASE d \notin Loaded
    <3>1. q = x
      BY <1>1, <2>3
    <3>2. Good(x, Alive(d), On) /\ Reads(d, x) /\ Freed(d, x) /\ Keeps(x, x) /\ Late(d, x)
      BY <2>3, GoodOf DEF Reads, Freed, Keeps, Late
    <3>3. Fits(d, x)
      BY <1>4, <3>2 DEF Fits
    <3> QED BY <3>1, <3>3
  <2> QED BY <2>2, <2>3
<1>6. poller' \in [Devices -> Poller]
  <2>1. \A d \in Devices : poller'[d] \in Poller
    BY <1>5 DEF Fits, Good, Shaped
  <2> QED BY <1>1, <2>1
<1>7. stage' \in {"running", "stopping", "closed"}
  BY <1>3 DEF PollInv
<1> QED
  BY <1>2, <1>5, <1>6, <1>7, ResultOf

LEMMA AgedIs ==
    ASSUME NEW n \in 0..HoldMax \cup {NotHeld}
    PROVE  Aged(n) \in 0..HoldMax \cup {NotHeld} /\ (Aged(n) = NotHeld <=> n = NotHeld)
  BY PollAssumption DEF Aged, NotHeld

LEMMA AgedTaskIs ==
    ASSUME NEW t \in Task \cup {NoTask}
    PROVE  LET u == AgedTask(t)
           IN  /\ u \in Task \cup {NoTask} /\ (u = NoTask <=> t = NoTask)
               /\ t # NoTask => /\ u.phase = t.phase
                                /\ u.hold = NoHold <=> t.hold = NoHold
                                /\ t.hold # NoHold => (u.hold.since = NotHeld <=> t.hold.since = NotHeld)
<1>1. CASE t = NoTask \/ t.hold = NoHold
  BY <1>1 DEF AgedTask
<1>2. CASE ~(t = NoTask \/ t.hold = NoHold)
  <2> DEFINE n == Aged(t.hold.since)
             h == [t.hold EXCEPT !.since = n]
             u == [t EXCEPT !.hold = h]
  <2>1. t \in Task /\ t # NoTask /\ t.hold \in Hold /\ t.hold.since \in 0..HoldMax \cup {NotHeld}
    BY <1>2 DEF Task, Hold
  <2>2. n \in 0..HoldMax \cup {NotHeld} /\ (n = NotHeld <=> t.hold.since = NotHeld)
    BY <2>1, AgedIs
  <2>3. AgedTask(t) = u
    BY <1>2 DEF AgedTask
  <2> HIDE DEF n
  <2>4. h \in Hold /\ h.since = n /\ h # NoHold
    BY <2>1, <2>2, Constants DEF Hold
  <2> HIDE DEF h
  <2>5. u \in Task /\ u.phase = t.phase /\ u.hold = h /\ u # NoTask
    BY <2>1, <2>4, Constants DEF Task
  <2> HIDE DEF u
  <2> QED
    BY <1>2, <2>1, <2>2, <2>3, <2>4, <2>5
<1> QED BY <1>1, <1>2

LEMMA AdvanceStep ==
    ASSUME PollInv, Advance
    PROVE  Result
<1>1. BurstInv'
  BY BurstStepKept DEF Advance, PollInv, BurstSteps
<1>2. UNCHANGED <<entry, stage, active>>
  BY DEF Advance
<1>3. (\A e : Alive(e)' = Alive(e)) /\ On' = On
  BY <1>2 DEF Alive, On
<1>4. ASSUME NEW d \in Devices PROVE Fits(d, poller'[d])
  <2> DEFINE x == poller[d]
             q == poller'[d]
             holdoff == IF x.holdoff = "armed" THEN "due" ELSE x.holdoff
             since == Aged(x.since)
             task == [k \in Kinds |-> AgedTask(x.task[k])]
  <2>1. Sound(x) /\ (~Alive(d) => Gone(x) /\ Quiet(x)) /\ (~On => NoFirst(x))
    BY GoodOf
  <2>2. q = [x EXCEPT !.holdoff = holdoff, !.since = since, !.task = task]
    BY DEF Advance
  <2>3. x.since \in 0..HoldMax \cup {NotHeld} /\ x.holdoff \in Timers
        /\ \A k \in Kinds : x.task[k] \in Task \cup {NoTask}
    BY <2>1 DEF Sound, Shaped, Poller
  <2>4. since \in 0..HoldMax \cup {NotHeld} /\ (since = NotHeld <=> x.since = NotHeld)
    BY <2>3, AgedIs
  <2>5. holdoff \in Timers /\ (holdoff = "off" <=> x.holdoff = "off")
    BY <2>3 DEF Timers
  <2>6. ASSUME NEW k \in Kinds
        PROVE  /\ task[k] \in Task \cup {NoTask} /\ (task[k] = NoTask <=> x.task[k] = NoTask)
               /\ task[k] # NoTask =>
                     /\ task[k].phase = x.task[k].phase
                     /\ task[k].hold = NoHold <=> x.task[k].hold = NoHold
                     /\ x.task[k].hold # NoHold =>
                           (task[k].hold.since = NotHeld <=> x.task[k].hold.since = NotHeld)
    <3>1. task[k] = AgedTask(x.task[k])
      OBVIOUS
    <3> HIDE DEF task
    <3> QED BY <2>3, <3>1, AgedTaskIs
  <2>7. task \in [Kinds -> Task \cup {NoTask}]
    BY <2>6
  <2> HIDE DEF q, holdoff, since, task
  <2>8. /\ Shaped(q) /\ q.task = task /\ q.holdoff = holdoff /\ q.since = since
        /\ q.commands = x.commands /\ q.waiting = x.waiting /\ q.first = x.first
        /\ q.running = x.running /\ q.timerSet = x.timerSet /\ q.firstDue = x.firstDue
    BY <2>1, <2>2, <2>4, <2>5, <2>7 DEF Sound, Shaped, Poller
  <2>9. Capped(q) /\ (Gone(x) => Gone(q))
    BY <2>1, <2>4, <2>5, <2>8 DEF Sound, Capped, Gone, Held
  <2>10. Counted(q)
    BY <2>1, <2>6, <2>8 DEF Sound, Counted, Kinds
  <2>11. (Quiet(x) => Quiet(q)) /\ (NoFirst(x) => NoFirst(q)) /\ Calm(x, q)
    BY <2>6, <2>8 DEF Quiet, NoFirst, Calm, Kinds
  <2>12. NoReads(x, q)
    BY <2>6, <2>8 DEF NoReads
  <2>13. Freed(d, q)
    BY <1>2, <2>5, <2>8 DEF Freed, HoldingOff
  <2>14. Good(q, Alive(d), On)
    BY <2>1, <2>8, <2>9, <2>10, <2>11 DEF Good
  <2>15. Reads(d, q) /\ Keeps(x, q) /\ Late(d, q)
    BY <2>8, <2>11, <2>12, NoReadsReads, CalmLate DEF Keeps
  <2>16. Fits(d, q)
    BY <1>3, <2>13, <2>14, <2>15 DEF Fits
  <2> QED BY <2>16 DEF q
<1>5. poller' \in [Devices -> Poller]
  <2>1. \A d \in Devices : poller'[d] \in Poller
    BY <1>4 DEF Fits, Good, Shaped
  <2>2. poller' = [d \in Devices |-> poller'[d]]
    BY DEF Advance
  <2> QED BY <2>1, <2>2
<1>6. stage' \in {"running", "stopping", "closed"}
  BY <1>2 DEF PollInv
<1> QED
  BY <1>1, <1>4, <1>5, <1>6, ResultOf

LEMMA StopStep ==
    ASSUME PollInv, Stop
    PROVE  Result
<1>1. BurstInv' /\ active' = active /\ (\A e : Alive(e)' = Alive(e))
  BY BurstKept DEF Stop, SameBurst
<1>2. stage' = "stopping" /\ ~On' /\ On
  BY DEF Stop, On
<1>3. ASSUME NEW d \in Devices PROVE Fits(d, poller'[d])
  <2> DEFINE x == poller[d]
             q == poller'[d]
             h == DropHeld(x)
             kh == TasksCancelled(h)
             k == TasksCancelled(x)
  <2>1. Sound(x) /\ (~Alive(d) => Gone(x)) /\ Shaped(x) /\ Counted(x)
    BY GoodOf
  <2>2. q = kh \/ q = [k EXCEPT !.running = x.running]
    BY DEF Stop
  <2>3. /\ Shaped(h) /\ Idles(x, h) /\ h.timerSet = x.timerSet
        /\ ~Held(h) /\ ~h.first /\ h.since = NotHeld
    BY <2>1, DropHeldIs
  <2>4. Counted(h) /\ h.task = x.task
    BY <2>1, <2>3 DEF Counted, Idles
  <2>5. /\ Shaped(k) /\ Counted(k) /\ Quiet(k) /\ NoReads(x, k)
        /\ k.commands = x.commands /\ k.holdoff = x.holdoff /\ k.waiting = x.waiting
        /\ k.first = x.first /\ k.since = x.since /\ k.timerSet = x.timerSet
    BY <2>1, TasksCancelledIs
  <2> HIDE DEF k, h
  <2>6. /\ Shaped(kh) /\ Counted(kh) /\ Quiet(kh) /\ NoReads(h, kh)
        /\ kh.commands = h.commands /\ kh.holdoff = h.holdoff /\ kh.waiting = h.waiting
        /\ kh.first = h.first /\ kh.since = h.since /\ kh.timerSet = h.timerSet
    BY <2>3, <2>4, TasksCancelledIs
  <2> HIDE DEF kh, q
  <2>7. /\ Shaped(q) /\ Counted(q) /\ Quiet(q) /\ NoReads(x, q) /\ Capped(q)
        /\ q.commands = x.commands /\ q.holdoff = x.holdoff
        /\ (Gone(x) => Gone(q))
    <3>1. CASE q = kh
      BY <2>3, <2>4, <2>6, <3>1 DEF Capped, Held, Gone, Idles, NoReads
    <3>2. CASE q = [k EXCEPT !.running = x.running]
      <4>1. /\ Shaped(q) /\ q.task = k.task /\ q.firstDue = k.firstDue /\ q.running = x.running
            /\ q.commands = x.commands /\ q.holdoff = x.holdoff /\ q.waiting = x.waiting
            /\ q.first = x.first /\ q.since = x.since /\ q.timerSet = x.timerSet
        BY <2>1, <2>5, <3>2 DEF Shaped, Poller
      <4> QED
        BY <2>1, <2>5, <4>1 DEF Sound, Capped, Counted, Quiet, NoFirst, NoReads, Held, Gone
    <3> QED BY <2>2, <3>1, <3>2
  <2>8. Good(q, Alive(d)', On')
    BY <1>1, <2>1, <2>7 DEF Good, Quiet
  <2>9. Reads(d, q)
    BY <2>7, NoReadsReads
  <2>10. Freed(d, q)
    BY <1>1, <2>7 DEF Freed, HoldingOff
  <2>11. Fits(d, q)
    BY <1>2, <2>8, <2>9, <2>10 DEF Fits
  <2> QED BY <2>11 DEF q
<1>4. poller' \in [Devices -> Poller]
  <2>1. \A d \in Devices : poller'[d] \in Poller
    BY <1>3 DEF Fits, Good, Shaped
  <2>2. poller' = [d \in Devices |-> poller'[d]]
    BY DEF Stop
  <2> QED BY <2>1, <2>2
<1> QED
  BY <1>1, <1>2, <1>3, <1>4, ResultOf

LEMMA CloseStep ==
    ASSUME PollInv, Close
    PROVE  Result
<1>1. UNCHANGED burstVars /\ poller' = poller /\ stage' = "closed" /\ On' = On
  BY DEF Close, On
<1>2. BurstInv' /\ active' = active /\ (\A e : Alive(e)' = Alive(e))
  BY <1>1, BurstKept
<1> QED
  BY <1>1, <1>2, AllUnmoved

LEMMA StutterStep ==
    ASSUME PollInv, UNCHANGED pollVars
    PROVE  Result
<1>1. UNCHANGED burstVars /\ poller' = poller /\ stage' = stage /\ On' = On
  BY DEF pollVars, On
<1>2. BurstInv' /\ active' = active /\ (\A e : Alive(e)' = Alive(e))
  BY <1>1, BurstKept
<1>3. stage' \in {"running", "stopping", "closed"}
  BY <1>1 DEF PollInv
<1> QED
  BY <1>1, <1>2, <1>3, AllUnmoved

-----------------------------------------------------------------------------
(* Every step of the coordinators.                                          *)

LEMMA StepKept ==
    ASSUME PollInv, [PollNext]_pollVars
    PROVE  Result
<1>1. CASE PollNext
  <2>1. ASSUME NEW d \in Devices, NEW kind \in Kinds, Place(d, kind) \/ EndRead(d, kind)
        PROVE  Result
    BY <2>1, PlaceStep, EndReadStep
  <2>2. ASSUME NEW d \in Devices,
               \/ StartCommand(d) \/ FinishCommand(d) \/ FinishOrphan(d)
               \/ WaitOff(d) \/ GoOff(d)
               \/ SetUpEntry(d) \/ LoadEntry(d) \/ StartUnloadEntry(d)
               \/ FailUnloadEntry(d) \/ ShutDownEntry(d)
        PROVE  Result
    BY <2>2, CommandStep, BystandingSteps, SetUpStep, ShutDownStep
  <2>3. ASSUME NEW d \in Devices,
               \/ EndHoldoff(d) \/ CapReached(d) \/ TimerFires(d)
               \/ FirstPoll(d) \/ ReturnPoll(d) \/ FlipPoll(d)
               \/ AskManual(d) \/ StartManual(d) \/ TakeLock(d)
               \/ StopPolls(d) \/ RearmPolls(d)
        PROVE  Result
    BY <2>3, HoldoffStep, CapStep, TimerStep, FirstStep, RequestSteps, AskStep, RefreshSteps,
       PolicySteps
  <2> QED
    BY <1>1, <2>1, <2>2, <2>3, EndBurstStep, AdvanceStep, StopStep, CloseStep DEF PollNext
<1>2. CASE UNCHANGED pollVars
  BY <1>2, StutterStep
<1> QED BY <1>1, <1>2

LEMMA PollInvHolds == PollSpec => []PollInv
<1>1. PollInit => PollInv
  <2> SUFFICES ASSUME PollInit PROVE PollInv
    OBVIOUS
  <2>1. BurstInv
    <3>1. BurstTypeOK
      BY DEF PollInit, BurstInit, BurstTypeOK, Timers, EntryStates
    <3>2. ~active /\ tail = "off" /\ \A d \in Devices : ~Involves(running, deferred, d)
      BY DEF PollInit, BurstInit, Involves
    <3>3. ~Several(running, deferred)
      BY <3>2, SeveralMeans
    <3> QED
      BY <3>1, <3>2, <3>3 DEF BurstInv, ActiveEnds, SeveralHold, TailNeedsEntry
  <2>2. NewPoller \in Poller
    BY NewPollerIs DEF Good, Shaped
  <2>3. poller \in [Devices -> Poller] /\ stage = "running"
    BY <2>2 DEF PollInit
  <2>4. ASSUME NEW d \in Devices PROVE Good(poller[d], Alive(d), On)
    <3>1. poller[d] = NewPoller /\ Alive(d) /\ On
      BY DEF PollInit, BurstInit, Alive, On
    <3> QED BY <3>1, NewPollerIs DEF Good
  <2> QED BY <2>1, <2>3, <2>4 DEF PollInv
<1>2. PollInv /\ [PollNext]_pollVars => PollInv'
  BY StepKept DEF Result
<1> QED
  BY <1>1, <1>2, PTL DEF PollSpec

-----------------------------------------------------------------------------
(* The coordinators' data keep their types: no command is ended twice and   *)
(* no poll timer cancelled twice, whatever the order of the calls           *)
(* (GoveeBleLocalCoordinator).                                              *)
THEOREM PollTypes == PollSpec => []PollTypeOK
<1>1. PollInv => PollTypeOK
  BY DEF PollInv, BurstInv, PollTypeOK
<1> QED
  BY <1>1, PollInvHolds, PTL

(* With the coordinators for callers, through unloads and reloads under     *)
(* their commands, a burst can always end, holds while two devices are      *)
(* involved and leaves no tail behind (CommandBurst, as the coordinator's   *)
(* async_note_command_started and async_note_command_finished, async_shutdown *)
(* and the states of the entries drive it).                                 *)
THEOREM BurstSoundUnderPolls == PollSpec => [](ActiveEnds /\ SeveralHold /\ TailNeedsEntry)
<1>1. PollInv => ActiveEnds /\ SeveralHold /\ TailNeedsEntry
  BY DEF PollInv, BurstInv
<1> QED
  BY <1>1, PollInvHolds, PTL

(* A held poll always has its cap running, and no cap runs for a poll no    *)
(* longer held (_async_hold_poll, _async_drop_held_poll).                   *)
THEOREM CapRuns == PollSpec => []CapWhileHeld
<1>1. PollInv => CapWhileHeld
  BY DEF PollInv, Good, Capped, CapWhileHeld
<1> QED
  BY <1>1, PollInvHolds, PTL

(* A device has one poll timer at most, always one Home Assistant can       *)
(* cancel, and none outlives the entry (_async_unsub_refresh,               *)
(* async_shutdown).                                                         *)
THEOREM TimersKept == PollSpec => []TimersOwned
<1>1. PollInv => TimersOwned
  <2> SUFFICES ASSUME PollInv, NEW d \in Devices
               PROVE  /\ poller[d].timers = IF poller[d].timerSet THEN 1 ELSE 0
                      /\ ~Alive(d) => /\ poller[d].timers = 0 /\ poller[d].holdoff = "off"
                                      /\ poller[d].since = NotHeld
    BY DEF TimersOwned
  <2>1. Shaped(poller[d]) /\ (~Alive(d) => Gone(poller[d]))
    BY GoodOf
  <2> QED BY <2>1 DEF Shaped, Gone
<1> QED
  BY <1>1, PollInvHolds, PTL

(* A background poll never starts to read while commands hold polls off,    *)
(* unless the cap released it: it looks again once it has its place         *)
(* (_async_update_data).                                                    *)
THEOREM YieldsPlace == PollSpec => NoPollUnderCommands
<1>1. PollInv /\ [PollNext]_pollVars =>
         [\A d \in Devices, k \in {"first", "background"} :
             /\ poller'[d].task[k] # NoTask /\ poller'[d].task[k].phase = "reading"
             /\ poller[d].task[k] # NoTask /\ poller[d].task[k].phase = "queued"
             /\ poller[d].task[k].hold # NoHold
             => ~HoldingOff(poller[d], active)]_pollVars
  BY StepKept DEF Result, Fits, Reads
<1> QED
  BY <1>1, PollInvHolds, PTL DEF PollSpec, NoPollUnderCommands

(* The hold-off and the burst, whichever ends last, release the held poll   *)
(* of a loaded entry (_async_end_holdoff, _async_end).                      *)
THEOREM FreedAtOnce == PollSpec => ReleasedAtOnce
<1>1. PollInv /\ [PollNext]_pollVars =>
         [\A d \in Loaded :
             /\ Held(poller[d]) /\ ~poller[d].running /\ HoldingOff(poller[d], active)
             /\ ~HoldingOff(poller'[d], active')
             => ~Held(poller'[d])]_pollVars
  <2> SUFFICES ASSUME PollInv, [PollNext]_pollVars, NEW d \in Loaded,
                      Held(poller[d]) /\ ~poller[d].running /\ HoldingOff(poller[d], active),
                      ~HoldingOff(poller'[d], active')
               PROVE  ~Held(poller'[d])
    OBVIOUS
  <2>1. d \in Devices
    BY DEF Loaded
  <2> QED BY <2>1, StepKept DEF Result, Fits, Freed
<1> QED
  BY <1>1, PollInvHolds, PTL DEF PollSpec, ReleasedAtOnce

(* A poll held apart is never lost to a policy step, a re-arm or another    *)
(* poll held again: a poll takes its place (_async_hold_poll and the        *)
(* _first_poll_waiting it keeps).                                           *)
THEOREM ApartKept == PollSpec => HeldApartStays
<1>1. PollInv /\ [PollNext]_pollVars =>
         [\A d \in Devices :
             /\ poller[d].first /\ ~poller'[d].first
             /\ Alive(d)' /\ stage' = "running"
             => /\ ~Held(poller'[d])
                /\ UnderWay(poller'[d]) \/ poller'[d].owed = "no"]_pollVars
  BY StepKept DEF Result, Fits, Keeps, On
<1> QED
  BY <1>1, PollInvHolds, PTL DEF PollSpec, HeldApartStays

(* Once Home Assistant stops the code releases no poll, whatever hold-off,  *)
(* burst or cap ends (_async_release_poll): one comes only of Home          *)
(* Assistant's own timer (_handle_refresh_interval), in its close stage.    *)
THEOREM NoneReleasedOnceStopping == PollSpec => NoReleaseOnceStopping
<1>1. PollInv /\ [PollNext]_pollVars =>
         [stage # "running" =>
             \A d \in Devices :
                /\ ~Starts(d, "first")
                /\ Starts(d, "background") => TimerFires(d)
                /\ Begins(d, "background") => stage = "closed"]_pollVars
  <2> SUFFICES ASSUME PollInv, [PollNext]_pollVars, stage # "running", NEW d \in Devices
               PROVE  /\ ~Starts(d, "first")
                      /\ Starts(d, "background") => TimerFires(d)
                      /\ Begins(d, "background") => stage = "closed"
    OBVIOUS
  <2>1. stage' # "running"
    BY DEF PollNext, pollVars, Becomes, StartCommand, FinishCommand, FinishOrphan, WaitOff, GoOff,
           EndHoldoff, CapReached, TimerFires, FirstPoll, ReturnPoll, FlipPoll, AskManual,
           StartManual, TakeLock, StopPolls, RearmPolls, SetUpEntry, LoadEntry, StartUnloadEntry,
           FailUnloadEntry, ShutDownEntry, Place, EndRead, EndBurst, Advance, Stop, Close
  <2>2. Good(poller'[d], Alive(d)', On') /\ Late(d, poller'[d])
    BY StepKept DEF Result, Fits, On
  <2>3. NoFirst(poller'[d])
    BY <2>1, <2>2 DEF Good, On
  <2> QED BY <2>2, <2>3 DEF NoFirst, Starts, Begins, Late
<1> QED
  BY <1>1, PollInvHolds, PTL DEF PollSpec, NoReleaseOnceStopping

=============================================================================
