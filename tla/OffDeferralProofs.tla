-------------------------- MODULE OffDeferralProofs --------------------------
(***************************************************************************)
(* The deferral of turn-offs (OffDeferral), proved for any devices, lanes   *)
(* and calls: a waiting turn-off always has a command to wait for, the code *)
(* keeps the promise OffHold states, the first of several endings of a wait *)
(* stands, and the tracker of commands (CommandBurst) counts exactly the    *)
(* calls under way and holds polls as long as a turn-off waits.             *)
(*                                                                          *)
(* The invariant ties a wait's devices to the commands running: as long as  *)
(* they are all busy, a notification can only take away what the promise's  *)
(* Quiet takes away, and a command that starts adds to no wait.             *)
(***************************************************************************)
EXTENDS OffDeferral, CommandBurstProofs, FiniteSetTheorems, SequenceTheorems

HoldInv ==
    /\ running \in [Devices -> Nat]
    /\ offs \subseteq Devices
    /\ turn \in [Lanes -> Turn]
    /\ \A l \in Lanes : turn[l].phase # "waiting" => turn[l].for = {}
    /\ HeldByRunning

BusyNow == {d \in Devices : running[d] > 0} \ offs

-----------------------------------------------------------------------------
(* The methods' parts.                                                      *)

LEMMA AtIs ==
    ASSUME NEW phase \in Phases
    PROVE  At(phase) \in Turn /\ At(phase).phase = phase /\ At(phase).for = {}
                              /\ At(phase).send = TRUE
  BY DEF At, Turn, Timers

LEMMA LetIs ==
    ASSUME NEW t \in Turn, NEW send \in BOOLEAN, t.phase # "waiting" => t.for = {}
    PROVE  /\ Let(t, send) \in Turn
           /\ Let(t, send).phase # "waiting"
           /\ Let(t, send).for = {}
           /\ t.phase # "waiting" => Let(t, send) = t
           /\ t.phase = "waiting" => Let(t, send).phase = "ended"
  BY DEF Let, At, Turn, Phases, Timers

(* Notified, every wait keeps those of its devices that are still busy.     *)
LEMMA NotifiedIs ==
    ASSUME NEW turns \in [Lanes -> Turn], NEW run, NEW off, NEW told,
           \A l \in Lanes : turns[l].phase # "waiting" => turns[l].for = {},
           told = Notified(turns, run, off)
    PROVE  /\ told \in [Lanes -> Turn]
           /\ \A l \in Lanes :
                 /\ told[l].for = turns[l].for \cap Others(run, off, DeviceOf[l])
                 /\ told[l].phase = "waiting" => told[l].for # {}
                 /\ told[l].phase # "waiting" => told[l].for = {}
<1>. SUFFICES ASSUME NEW l \in Lanes
              PROVE  /\ told[l] \in Turn
                     /\ told[l].for = turns[l].for \cap Others(run, off, DeviceOf[l])
                     /\ told[l].phase = "waiting" => told[l].for # {}
                     /\ told[l].phase # "waiting" => told[l].for = {}
  BY DEF Notified
<1>. DEFINE left == turns[l].for \cap Others(run, off, DeviceOf[l])
<1>1. turns[l] \in Turn /\ left \subseteq Devices
  BY DEF Turn, Others
<1>2. CASE turns[l].phase # "waiting"
  BY <1>1, <1>2 DEF Notified
<1>3. CASE turns[l].phase = "waiting" /\ left = {}
  <2>1. told[l] = Let(turns[l], TRUE)
    BY <1>3 DEF Notified
  <2>. QED
    BY <1>1, <1>3, <2>1, LetIs
<1>4. CASE turns[l].phase = "waiting" /\ left # {}
  <2>1. told[l] = [turns[l] EXCEPT !.for = left]
    BY <1>4 DEF Notified
  <2>. QED
    BY <1>1, <1>4, <2>1 DEF Turn
<1>. QED
  BY <1>2, <1>3, <1>4

-----------------------------------------------------------------------------
(* The kinds of step.                                                       *)

(* What is busy stays so, and some waits end.                               *)
Frees ==
    /\ UNCHANGED <<running, offs>>
    /\ turn' \in [Lanes -> Turn]
    /\ \A l \in Lanes : /\ turn'[l].for \in {turn[l].for, {}}
                        /\ turn'[l].phase = "waiting" =>
                              turn[l].phase = "waiting" /\ turn'[l].for = turn[l].for
                        /\ turn'[l].phase # "waiting" => turn'[l].for = {}

LEMMA FreesKept ==
    ASSUME HoldInv, Frees
    PROVE  HoldInv' /\ \E ls \in SUBSET Lanes : Promise!Go(ls)
<1>1. HoldInv'
  BY DEF HoldInv, Frees, HeldByRunning, Waiting, Others
<1>2. UNCHANGED BusyNow
  BY DEF Frees, BusyNow
<1>. DEFINE freed == {l \in Lanes : turn'[l].for # turn[l].for}
<1>3. \A l \in Lanes : turn'[l].for = IF l \in freed THEN {} ELSE turn[l].for
  BY DEF Frees
<1>4. [l \in Lanes |-> turn'[l].for]
         = [l \in Lanes |-> IF l \in freed THEN {} ELSE [m \in Lanes |-> turn[m].for][l]]
  BY <1>3
<1>5. Promise!Go(freed)
  BY <1>2, <1>4 DEF Promise!Go, BusyNow
<1>. HIDE DEF freed
<1>6. freed \in SUBSET Lanes
  BY DEF freed
<1>7. \E ls \in SUBSET Lanes : Promise!Go(ls)
  BY <1>5, <1>6 DEF Promise!Go
<1>. QED
  BY <1>1, <1>7

(* A device's confirmed turn-off is over: it is busy if a command runs.     *)
LEMMA UnconfirmedKept ==
    ASSUME HoldInv, NEW d \in Devices, NEW l \in Lanes,
           UNCHANGED running, offs' = offs \ {d},
           turn[l].phase # "waiting", turn' = [turn EXCEPT ![l] = At("queued")]
    PROVE  HoldInv' /\ (Promise!Busy(d) \/ UNCHANGED Promise!holdVars)
<1>1. /\ turn' \in [Lanes -> Turn]
      /\ \A m \in Lanes : turn'[m].for = turn[m].for
      /\ \A m \in Lanes : turn'[m].phase = "waiting" => turn[m].phase = "waiting"
  BY AtIs DEF HoldInv, Phases
<1>2. \A m \in Lanes : turn'[m].phase # "waiting" => turn'[m].for = {}
  BY AtIs DEF HoldInv, Phases
<1>3. HoldInv'
  BY <1>1, <1>2 DEF HoldInv, HeldByRunning, Waiting, Others
<1>4. BusyNow' = BusyNow \/ BusyNow' = BusyNow \cup {d}
  BY DEF BusyNow, HoldInv
<1>5. [m \in Lanes |-> turn'[m].for] = [m \in Lanes |-> turn[m].for]
  BY <1>1
<1>. QED
  BY <1>3, <1>4, <1>5 DEF Promise!Busy, Promise!holdVars, BusyNow

(* A command starts: its device is busy, or, as a confirmed turn-off,       *)
(* isn't any more.                                                          *)
LEMMA StartKept ==
    ASSUME HoldInv, NEW l \in Lanes, NEW phase \in {"sent", "sentOff"},
           turn[l].phase # "waiting",
           running' = [running EXCEPT ![DeviceOf[l]] = @ + 1], StartsSending(l, phase)
    PROVE  /\ HoldInv'
           /\ \/ Promise!Busy(DeviceOf[l]) \/ Promise!Quiet(DeviceOf[l])
              \/ UNCHANGED Promise!holdVars
<1>. DEFINE d == DeviceOf[l]
            turns == [turn EXCEPT ![l] = At(phase)]
<1>1. d \in Devices
  BY DeferralAssumption
<1>2. /\ running' \in [Devices -> Nat]
      /\ {e \in Devices : running'[e] > 0} = {e \in Devices : running[e] > 0} \cup {d}
  BY <1>1 DEF HoldInv
<1>3. offs' = (IF phase = "sentOff" THEN offs \cup {d} ELSE offs) /\ offs' \subseteq Devices
  BY <1>1 DEF StartsSending, HoldInv
<1>4. /\ turns \in [Lanes -> Turn]
      /\ \A m \in Lanes : turns[m].phase # "waiting" => turns[m].for = {}
      /\ \A m \in Lanes : turns[m].for = turn[m].for
      /\ \A m \in Lanes : turns[m].phase = "waiting" => turn[m].phase = "waiting"
  BY AtIs DEF HoldInv, Phases
<1>5. /\ turn' \in [Lanes -> Turn]
      /\ \A m \in Lanes :
            /\ turn'[m].for = turn[m].for \cap Others(running', offs', DeviceOf[m])
            /\ turn'[m].phase = "waiting" => turn'[m].for # {}
            /\ turn'[m].phase # "waiting" => turn'[m].for = {}
  <2>. DEFINE off == offs'
              run == running'
  <2>1. turn' = Notified(turns, run, off)
    BY DEF StartsSending
  <2>. HIDE DEF turns, run, off
  <2>2. /\ turn' \in [Lanes -> Turn]
        /\ \A m \in Lanes :
              /\ turn'[m].for = turns[m].for \cap Others(run, off, DeviceOf[m])
              /\ turn'[m].phase = "waiting" => turn'[m].for # {}
              /\ turn'[m].phase # "waiting" => turn'[m].for = {}
    BY <1>4, <2>1, NotifiedIs
  <2>. USE DEF run, off
  <2>. QED
    BY <1>4, <2>2
<1>6. HoldInv'
  BY <1>2, <1>3, <1>5 DEF HoldInv, HeldByRunning, Waiting, Others
<1>7. \A m \in Lanes : turn[m].for \subseteq BusyNow \ {DeviceOf[m]}
  BY DEF HoldInv, HeldByRunning, Waiting, Others, BusyNow
<1>8. \A m \in Lanes : turn'[m].for = turn[m].for \cap (BusyNow' \ {DeviceOf[m]})
  BY <1>5 DEF Others, BusyNow
<1>9. CASE phase = "sent"
  <2>1. BusyNow' = BusyNow \/ BusyNow' = BusyNow \cup {d}
    BY <1>2, <1>3, <1>9 DEF BusyNow
  <2>2. \A m \in Lanes : turn'[m].for = turn[m].for
    BY <1>7, <1>8, <2>1
  <2>3. [m \in Lanes |-> turn'[m].for] = [m \in Lanes |-> turn[m].for]
    BY <2>2
  <2>. QED
    BY <1>6, <2>1, <2>3 DEF Promise!Busy, Promise!holdVars, BusyNow
<1>10. CASE phase = "sentOff"
  <2>1. BusyNow' = BusyNow \ {d}
    BY <1>2, <1>3, <1>10 DEF BusyNow
  <2>2. \A m \in Lanes : turn'[m].for = turn[m].for \ {d}
    BY <1>7, <1>8, <2>1
  <2>3. [m \in Lanes |-> turn'[m].for] = [m \in Lanes |-> [k \in Lanes |-> turn[k].for][m] \ {d}]
    BY <2>2
  <2>. QED
    BY <1>6, <2>1, <2>3 DEF Promise!Quiet, BusyNow
<1>. QED
  BY <1>9, <1>10

(* A command ends: with the device's last one it is quiet; a confirmed      *)
(* turn-off's may leave it busy with another.                               *)
LEMMA EndKept ==
    ASSUME HoldInv, NEW l \in Lanes, EndCommand(l)
    PROVE  /\ HoldInv'
           /\ \/ Promise!Busy(DeviceOf[l]) \/ Promise!Quiet(DeviceOf[l])
              \/ UNCHANGED Promise!holdVars
<1>. DEFINE d == DeviceOf[l]
            turns == [turn EXCEPT ![l] = At("queued")]
            up(run) == {e \in Devices : run[e] > 0}
<1>1. d \in Devices
  BY DeferralAssumption
<1>2. /\ running' \in [Devices -> Nat]
      /\ \/ up(running') = up(running)
         \/ up(running') = up(running) \ {d}
  <2>1. running' = [running EXCEPT ![d] = Fewer(@)]
    BY DEF EndCommand, CommandEnds
  <2>2. \A n \in Nat : Fewer(n) \in Nat /\ (Fewer(n) > 0 => n > 0)
    BY FewerIs
  <2>3. running' \in [Devices -> Nat] /\ \A e \in Devices : running'[e] > 0 => running[e] > 0
    BY <1>1, <2>1, <2>2 DEF HoldInv
  <2>4. \A e \in Devices \ {d} : running'[e] = running[e]
    BY <1>1, <2>1 DEF HoldInv
  <2>. QED
    BY <2>3, <2>4
<1>3. offs' \in {offs, offs \ {d}}
  BY DEF EndCommand
<1>4. /\ turns \in [Lanes -> Turn]
      /\ \A m \in Lanes : turns[m].phase # "waiting" => turns[m].for = {}
      /\ \A m \in Lanes : turns[m].for = turn[m].for
      /\ \A m \in Lanes : turns[m].phase = "waiting" => turn[m].phase = "waiting"
  BY AtIs DEF HoldInv, Phases, EndCommand, Sent
<1>5. /\ turn' \in [Lanes -> Turn]
      /\ \A m \in Lanes :
            /\ turn'[m].for = turn[m].for \cap Others(running', offs, DeviceOf[m])
            /\ turn'[m].phase = "waiting" => turn'[m].for # {}
            /\ turn'[m].phase # "waiting" => turn'[m].for = {}
  <2>1. turn' = Notified(turns, running', offs)
    BY DEF EndCommand
  <2>. HIDE DEF turns
  <2>. QED
    BY <1>4, <2>1, NotifiedIs
<1>6. HoldInv'
  BY <1>2, <1>3, <1>5 DEF HoldInv, HeldByRunning, Waiting, Others
<1>7. \A m \in Lanes : turn[m].for \subseteq BusyNow \ {DeviceOf[m]}
  BY DEF HoldInv, HeldByRunning, Waiting, Others, BusyNow
<1>8. \A m \in Lanes : turn'[m].for = turn[m].for \cap ((up(running') \ offs) \ {DeviceOf[m]})
  BY <1>5 DEF Others
<1>9. CASE up(running') = up(running)
  <2>1. BusyNow' = BusyNow \/ BusyNow' = BusyNow \cup {d}
    BY <1>3, <1>9 DEF BusyNow
  <2>2. \A m \in Lanes : turn'[m].for = turn[m].for
    BY <1>7, <1>8, <1>9 DEF BusyNow
  <2>3. [m \in Lanes |-> turn'[m].for] = [m \in Lanes |-> turn[m].for]
    BY <2>2
  <2>. QED
    BY <1>6, <2>1, <2>3 DEF Promise!Busy, Promise!holdVars, BusyNow
<1>10. CASE up(running') = up(running) \ {d}
  <2>1. BusyNow' = BusyNow \ {d}
    BY <1>3, <1>10 DEF BusyNow
  <2>2. \A m \in Lanes : turn'[m].for = turn[m].for \ {d}
    BY <1>7, <1>8, <1>10 DEF BusyNow
  <2>3. [m \in Lanes |-> turn'[m].for] = [m \in Lanes |-> [k \in Lanes |-> turn[k].for][m] \ {d}]
    BY <2>2
  <2>. QED
    BY <1>6, <2>1, <2>3 DEF Promise!Quiet, BusyNow
<1>. QED
  BY <1>2, <1>9, <1>10

(* A turn-off starts to wait for the others that are busy.                  *)
LEMMA WaitKept ==
    ASSUME HoldInv, NEW l \in Lanes, Wait(l)
    PROVE  HoldInv' /\ Promise!Hold(l)
<1>. DEFINE met == Others(running, offs, DeviceOf[l])
            t == [At("waiting") EXCEPT !.for = met, !.cap = "armed"]
<1>1. met # {} /\ met = BusyNow \ {DeviceOf[l]} /\ met \subseteq Devices
  BY DEF Wait, Others, BusyNow
<1>2. t \in Turn /\ t.for = met /\ t.phase = "waiting"
  BY <1>1 DEF At, Turn, Phases, Timers
<1>3. turn' = [turn EXCEPT ![l] = t] /\ UNCHANGED <<running, offs>>
  BY DEF Wait, OffWaits
<1>4. turn' \in [Lanes -> Turn] /\ turn'[l] = t /\ \A m \in Lanes \ {l} : turn'[m] = turn[m]
  BY <1>2, <1>3 DEF HoldInv
<1>5. HoldInv'
  <2>1. \A m \in Lanes : turn'[m].phase # "waiting" => turn'[m].for = {}
    BY <1>2, <1>4 DEF HoldInv
  <2>2. HeldByRunning'
    BY <1>1, <1>2, <1>3, <1>4 DEF HoldInv, HeldByRunning, Waiting, Others
  <2>. QED
    BY <1>3, <1>4, <2>1, <2>2 DEF HoldInv
<1>6. turn[l].for = {}
  BY DEF HoldInv, Wait
<1>7. [m \in Lanes |-> turn'[m].for] =
         [[m \in Lanes |-> turn[m].for] EXCEPT ![l] = BusyNow \ {DeviceOf[l]}]
  BY <1>1, <1>2, <1>4
<1>8. UNCHANGED BusyNow
  BY <1>3 DEF BusyNow
<1>. QED
  BY <1>5, <1>6, <1>7, <1>8 DEF Promise!Hold, BusyNow

-----------------------------------------------------------------------------
(* Every step keeps the invariant and is one of the promise's, or none.     *)

LEMMA StepsThatFree ==
    ASSUME HoldInv, UNCHANGED <<running, offs>>, turn' \in [Lanes -> Turn],
           \A l \in Lanes : \/ turn'[l] = turn[l]
                            \/ turn'[l].phase # "waiting" /\ turn'[l].for = {}
    PROVE  HoldInv' /\ Promise!HoldNext
<1>1. Frees
  BY DEF Frees, HoldInv
<1>. QED
  BY <1>1, FreesKept DEF Promise!HoldNext

(* One lane's turn ends, or goes on to something that isn't a wait.         *)
LEMMA OneLaneFrees ==
    ASSUME HoldInv, UNCHANGED <<running, offs>>, NEW l, NEW t \in Turn,
           turn' = [turn EXCEPT ![l] = t], t.phase # "waiting", t.for = {}
    PROVE  HoldInv' /\ Promise!HoldNext
<1>1. turn' \in [Lanes -> Turn]
  BY DEF HoldInv
<1>2. \A m \in Lanes : \/ turn'[m] = turn[m]
                       \/ turn'[m].phase # "waiting" /\ turn'[m].for = {}
  BY DEF HoldInv
<1>. QED
  BY <1>1, <1>2, StepsThatFree

LEMMA LaneStepKept ==
    ASSUME HoldInv, NEW l \in Lanes, LaneSteps(l)
    PROVE  HoldInv' /\ [Promise!HoldNext]_(Promise!holdVars)
<1>. DEFINE Kept == HoldInv' /\ [Promise!HoldNext]_(Promise!holdVars)
<1>1. DeviceOf[l] \in Devices
  BY DeferralAssumption
<1>2. At("queued") \in Turn /\ At("queued").phase # "waiting" /\ At("queued").for = {}
  BY AtIs DEF Phases
<1>3. ASSUME NEW phase \in {"sent", "sentOff"}, turn[l].phase # "waiting",
             running' = [running EXCEPT ![DeviceOf[l]] = @ + 1], StartsSending(l, phase)
      PROVE  Kept
  BY <1>1, <1>3, StartKept DEF Promise!HoldNext
<1>4. CASE Begin(l) \/ GoAtOnce(l) \/ Resume(l)
  BY <1>3, <1>4 DEF Begin, GoAtOnce, Resume, CommandStarts, OffIsSent
<1>5. CASE Skip(l)
  <2>1. UNCHANGED <<running, offs, turn>>
    BY <1>5 DEF Skip, burstVars
  <2>. QED
    BY <2>1, StepsThatFree DEF HoldInv
<1>6. CASE LetOthersStart(l)
  <2>1. At("starting") \in Turn /\ At("starting").phase # "waiting" /\ At("starting").for = {}
    BY AtIs DEF Phases
  <2>. QED
    BY <1>6, <2>1, OneLaneFrees DEF LetOthersStart, burstVars
<1>7. CASE NotSent(l)
  BY <1>2, <1>7, OneLaneFrees DEF NotSent, Ends, burstVars
<1>8. CASE SkipAtOnce(l)
  <2>1. /\ UNCHANGED running /\ offs' = offs \ {DeviceOf[l]} /\ turn[l].phase # "waiting"
        /\ turn' = [turn EXCEPT ![l] = At("queued")]
    BY <1>8 DEF SkipAtOnce, Ends, burstVars
  <2>. QED
    BY <1>1, <2>1, UnconfirmedKept DEF Promise!HoldNext
<1>9. CASE Wait(l)
  BY <1>9, WaitKept DEF Promise!HoldNext
<1>10. CASE ResumeUnsent(l)
  <2>1. /\ UNCHANGED running /\ turn[l].phase # "waiting"
        /\ turn' = [turn EXCEPT ![l] = At("queued")]
        /\ offs' = IF turn[l].send THEN offs \ {DeviceOf[l]} ELSE offs
    BY <1>10 DEF ResumeUnsent, Ends, OffGoes
  <2>2. CASE turn[l].send
    BY <1>1, <2>1, <2>2, UnconfirmedKept DEF Promise!HoldNext
  <2>3. CASE ~turn[l].send
    BY <1>2, <2>1, <2>3, OneLaneFrees
  <2>. QED
    BY <2>2, <2>3
<1>11. CASE EndCommand(l)
  BY <1>1, <1>11, EndKept DEF Promise!HoldNext
<1>12. CASE Cancel(l)
  BY <1>2, <1>12, OneLaneFrees DEF Cancel, Ends, OffGoes, burstVars
<1>13. CASE CapReached(l)
  <2>1. turn[l] \in Turn /\ (turn[l].phase # "waiting" => turn[l].for = {})
    BY DEF HoldInv
  <2>2. /\ Let(turn[l], TRUE) \in Turn /\ Let(turn[l], TRUE).phase # "waiting"
        /\ Let(turn[l], TRUE).for = {}
    BY <2>1, LetIs
  <2>3. turn' = [turn EXCEPT ![l] = Let(turn[l], TRUE)] /\ UNCHANGED <<running, offs>>
    BY <1>13 DEF CapReached, burstVars
  <2>. QED
    BY <2>2, <2>3, OneLaneFrees
<1>. QED
  BY <1>4, <1>5, <1>6, <1>7, <1>8, <1>9, <1>10, <1>11, <1>12, <1>13 DEF LaneSteps

LEMMA StepKept ==
    ASSUME HoldInv, [OffNext]_offVars
    PROVE  HoldInv' /\ [Promise!HoldNext]_(Promise!holdVars)
<1>. DEFINE Kept == HoldInv' /\ [Promise!HoldNext]_(Promise!holdVars)
<1>1. \A l \in Lanes, send \in BOOLEAN :
         /\ turn[l] \in Turn /\ Let(turn[l], send) \in Turn
         /\ Let(turn[l], send).phase # "waiting" /\ Let(turn[l], send).for = {}
  BY LetIs DEF HoldInv
<1>2. ASSUME UNCHANGED <<running, offs, turn>> PROVE Kept
  BY <1>2, StepsThatFree DEF HoldInv
<1>3. ASSUME NEW d \in Devices, NEW call \in Calls, Request(d, call) PROVE Kept
  <2>1. turn' = Hurried(d, call.zone) /\ UNCHANGED <<running, offs>>
    BY <1>3 DEF Request, burstVars
  <2>2. turn' \in [Lanes -> Turn]
    BY <1>1, <2>1 DEF Hurried
  <2>3. \A l \in Lanes : \/ turn'[l] = turn[l]
                         \/ turn'[l].phase # "waiting" /\ turn'[l].for = {}
    BY <1>1, <2>1 DEF Hurried
  <2>. QED
    BY <2>1, <2>2, <2>3, StepsThatFree
<1>4. ASSUME NEW l \in Lanes, LaneSteps(l) PROVE Kept
  BY <1>4, LaneStepKept
<1>5. ASSUME NEW l \in Lanes, NEW i \in 1..MaxLine[l], Withdraw(l, i) PROVE Kept
  BY <1>2, <1>5 DEF Withdraw, burstVars
<1>6. CASE Advance
  <2>1. /\ UNCHANGED <<running, offs>>
        /\ turn' = [l \in Lanes |->
                       [turn[l] EXCEPT !.cap = IF @ = "armed" THEN "due" ELSE @]]
    BY <1>6 DEF Advance
  <2>2. /\ turn' \in [Lanes -> Turn]
        /\ \A l \in Lanes : turn'[l].phase = turn[l].phase /\ turn'[l].for = turn[l].for
    BY <1>1, <2>1 DEF Turn, Timers
  <2>3. Frees
    BY <2>1, <2>2 DEF Frees, HoldInv
  <2>. QED
    BY <2>3, FreesKept DEF Promise!HoldNext
<1>7. CASE EndBurst
  BY <1>2, <1>7 DEF EndBurst, BurstEnds
<1>8. CASE Stop
  <2>1. turn' = [l \in Lanes |-> Let(turn[l], FALSE)] /\ UNCHANGED <<running, offs>>
    BY <1>8 DEF Stop, burstVars
  <2>. QED
    <3>1. turn' \in [Lanes -> Turn]
      BY <1>1, <2>1
    <3>2. \A l \in Lanes : turn'[l].phase # "waiting" /\ turn'[l].for = {}
      BY <1>1, <2>1
    <3>. QED
      BY <2>1, <3>1, <3>2, StepsThatFree
<1>9. ASSUME NEW d \in Devices, RemoveEntities(d) PROVE Kept
  <2>1. turn' = [turn EXCEPT ![lane[d]] = Dropped(@)] /\ UNCHANGED <<running, offs>>
    BY <1>9 DEF RemoveEntities, StartUnload
  <2>2. \A l \in Lanes : /\ Dropped(turn[l]) \in Turn
                         /\ Dropped(turn[l]).phase # "waiting" /\ Dropped(turn[l]).for = {}
    BY <1>1 DEF Dropped, HoldInv, Turn
  <2>3. turn' \in [Lanes -> Turn]
    BY <2>1, <2>2 DEF HoldInv
  <2>4. \A l \in Lanes : turn'[l] = turn[l] \/ turn'[l] = Dropped(turn[l])
    BY <2>1 DEF HoldInv
  <2>. QED
    BY <2>1, <2>2, <2>3, <2>4, StepsThatFree
<1>10. ASSUME NEW d \in Devices, Unloaded(d) \/ SetUpAgain(d) PROVE Kept
  BY <1>2, <1>10 DEF Unloaded, SetUpAgain, ShutDown, SetUp
<1>11. ASSUME NEW d \in Devices, NEW l \in Lanes, AddEntities(d, l) PROVE Kept
  BY <1>2, <1>11 DEF AddEntities, Load
<1>12. CASE UNCHANGED offVars
  BY <1>2, <1>12 DEF offVars, burstVars
<1>. QED
  BY <1>3, <1>4, <1>5, <1>6, <1>7, <1>8, <1>9, <1>10, <1>11, <1>12 DEF OffNext

LEMMA InitHolds ==
    ASSUME OffInit
    PROVE  HoldInv /\ Promise!HoldInit
<1>1. /\ turn \in [Lanes -> Turn]
      /\ \A l \in Lanes : turn[l].phase = "queued" /\ turn[l].for = {}
  BY AtIs DEF OffInit, Phases
<1>2. HoldInv
  BY <1>1 DEF OffInit, HoldInv, HeldByRunning, Waiting
<1>3. Promise!HoldInit
  BY <1>1 DEF OffInit, Promise!HoldInit
<1>. QED
  BY <1>2, <1>3

LEMMA HoldInvHolds == OffSpec => []HoldInv
<1>1. OffInit => HoldInv
  BY InitHolds
<1>2. HoldInv /\ [OffNext]_offVars => HoldInv'
  BY StepKept
<1>. QED
  BY <1>1, <1>2, PTL DEF OffSpec

-----------------------------------------------------------------------------
(* A turn-off that waits always waits for a command running to another      *)
(* device: no notification is lost, whatever starts, ends, is cancelled,    *)
(* unloads or stops (_async_commands_changed, _async_end).                  *)
THEOREM WaitsAreForCommands == OffSpec => []HeldByRunning
<1>1. HoldInv => HeldByRunning
  BY DEF HoldInv
<1>. QED
  BY <1>1, HoldInvHolds, PTL

(* The code implements the promise: a turn-off is held only by devices that *)
(* were busy as it looked and have been since (deferral.py, module doc).    *)
THEOREM PromiseKept == OffSpec => HoldsAsPromised
<1>1. OffInit => Promise!HoldInit
  BY InitHolds
<1>2. HoldInv /\ [OffNext]_offVars => [Promise!HoldNext]_(Promise!holdVars)
  BY StepKept
<1>. QED
  BY <1>1, <1>2, HoldInvHolds, PTL DEF OffSpec, HoldsAsPromised, Promise!HoldSpec

-----------------------------------------------------------------------------
(* The tracker of commands under its real callers: the calls and their      *)
(* waits.  Its counts count exactly the calls under way, and polls are held *)
(* as long as a turn-off waits.                                             *)

(* Counting the lanes in a phase, as one lane's phase changes.              *)

LEMMA InPhaseFinite ==
    ASSUME NEW turns, NEW phases, NEW d
    PROVE  /\ IsFiniteSet(InPhase(turns, phases, d))
           /\ Cardinality(InPhase(turns, phases, d)) \in Nat
<1>1. InPhase(turns, phases, d) \subseteq Lanes
  BY DEF InPhase, LanesOf
<1>. QED
  BY <1>1, DeferralAssumption, FS_Subset, FS_CardinalityType

(* No lane enters or leaves the phases: the count stands.                   *)
LEMMA SameCount ==
    ASSUME NEW phases, NEW count, Counts(count, phases),
           \A l \in Lanes : turn'[l].phase \in phases <=> turn[l].phase \in phases
    PROVE  \A d \in Devices : count[d] = Cardinality(InPhase(turn', phases, d))
<1>1. \A d \in Devices : InPhase(turn', phases, d) = InPhase(turn, phases, d)
  BY DEF InPhase, LanesOf
<1>. QED
  BY <1>1 DEF Counts

(* One lane enters them, or leaves them.                                    *)
LEMMA OneMore ==
    ASSUME NEW phases, NEW count \in [Devices -> Nat], Counts(count, phases), NEW l \in Lanes,
           turn[l].phase \notin phases, turn'[l].phase \in phases,
           \A m \in Lanes \ {l} : turn'[m].phase \in phases <=> turn[m].phase \in phases
    PROVE  \A d \in Devices :
              [count EXCEPT ![DeviceOf[l]] = @ + 1][d] = Cardinality(InPhase(turn', phases, d))
<1>. SUFFICES ASSUME NEW d \in Devices
              PROVE  [count EXCEPT ![DeviceOf[l]] = @ + 1][d]
                        = Cardinality(InPhase(turn', phases, d))
  OBVIOUS
<1>1. CASE d # DeviceOf[l]
  <2>1. InPhase(turn', phases, d) = InPhase(turn, phases, d)
    BY <1>1 DEF InPhase, LanesOf
  <2>. QED
    BY <1>1, <2>1 DEF Counts
<1>2. CASE d = DeviceOf[l]
  <2>1. /\ InPhase(turn', phases, d) = InPhase(turn, phases, d) \cup {l}
        /\ l \notin InPhase(turn, phases, d)
    BY <1>2 DEF InPhase, LanesOf
  <2>2. Cardinality(InPhase(turn', phases, d)) = Cardinality(InPhase(turn, phases, d)) + 1
    BY <2>1, InPhaseFinite, FS_AddElement
  <2>. QED
    BY <1>2, <2>2 DEF Counts
<1>. QED
  BY <1>1, <1>2

LEMMA OneFewer ==
    ASSUME NEW phases, NEW count \in [Devices -> Nat], Counts(count, phases), NEW l \in Lanes,
           turn[l].phase \in phases, turn'[l].phase \notin phases,
           \A m \in Lanes \ {l} : turn'[m].phase \in phases <=> turn[m].phase \in phases
    PROVE  \A d \in Devices :
              [count EXCEPT ![DeviceOf[l]] = Fewer(@)][d]
                 = Cardinality(InPhase(turn', phases, d))
<1>. SUFFICES ASSUME NEW d \in Devices
              PROVE  [count EXCEPT ![DeviceOf[l]] = Fewer(@)][d]
                        = Cardinality(InPhase(turn', phases, d))
  OBVIOUS
<1>1. CASE d # DeviceOf[l]
  <2>1. InPhase(turn', phases, d) = InPhase(turn, phases, d)
    BY <1>1 DEF InPhase, LanesOf
  <2>. QED
    BY <1>1, <2>1 DEF Counts
<1>2. CASE d = DeviceOf[l]
  <2>1. /\ InPhase(turn', phases, d) = InPhase(turn, phases, d) \ {l}
        /\ l \in InPhase(turn, phases, d)
    BY <1>2 DEF InPhase, LanesOf
  <2>2. Cardinality(InPhase(turn', phases, d)) = Cardinality(InPhase(turn, phases, d)) - 1
    BY <2>1, InPhaseFinite, FS_RemoveElement
  <2>3. Cardinality(InPhase(turn', phases, d)) \in Nat
    BY InPhaseFinite
  <2>. QED
    BY <1>2, <2>2, <2>3 DEF Counts, Fewer
<1>. QED
  BY <1>1, <1>2

-----------------------------------------------------------------------------
(* The tracker under the calls.                                             *)

(* The start of the command of a turn-off that waited, as one that grows.   *)
LEMMA OffIsSentKept ==
    ASSUME BurstInv, NEW d \in Devices, OffIsSent(d)
    PROVE  BurstInv'
<1>1. /\ running' \in [Devices -> Nat] /\ running'[d] > 0
      /\ deferred' \in [Devices -> Nat]
  BY FewerIs DEF BurstInv, BurstTypeOK, OffIsSent
<1>2. Involves(running', deferred', d)
  BY <1>1 DEF Involves
<1>3. /\ tail' = "off" /\ UNCHANGED entry
      /\ active' \in BOOLEAN /\ (Several(running', deferred') => active')
  BY DEF OffIsSent
<1>. QED
  BY <1>1, <1>2, <1>3, GrowthKept

(* The deferral calls the tracker only in the ways its callers may.         *)
LEMMA OffStepsBurst ==
    ASSUME OffNext
    PROVE  BurstSteps \/ \E d \in Devices : OffIsSent(d)
<1>1. ASSUME NEW l \in Lanes, LaneSteps(l)
      PROVE  BurstSteps \/ \E d \in Devices : OffIsSent(d)
  <2>1. DeviceOf[l] \in Devices
    BY DeferralAssumption
  <2>2. \/ CommandStarts(DeviceOf[l]) \/ CommandEnds(DeviceOf[l])
        \/ OffWaits(DeviceOf[l]) \/ OffGoes(DeviceOf[l]) \/ OffIsSent(DeviceOf[l])
        \/ UNCHANGED burstVars
    BY <1>1
    DEF LaneSteps, Begin, Skip, LetOthersStart, NotSent, GoAtOnce, SkipAtOnce, Wait,
        Resume, ResumeUnsent, EndCommand, Cancel, CapReached
  <2>. QED
    BY <2>1, <2>2 DEF BurstSteps
<1>2. ASSUME NEW l \in Lanes, NEW i \in 1..MaxLine[l], Withdraw(l, i)
      PROVE  BurstSteps
  BY <1>2 DEF Withdraw, BurstSteps
<1>3. ASSUME NEW d \in Devices, NEW call \in Calls, Request(d, call)
      PROVE  BurstSteps
  BY <1>3 DEF Request, BurstSteps
<1>4. ASSUME NEW d \in Devices,
             \/ RemoveEntities(d) \/ Unloaded(d) \/ SetUpAgain(d)
             \/ \E l \in Lanes : AddEntities(d, l)
      PROVE  BurstSteps
  BY <1>4 DEF RemoveEntities, Unloaded, SetUpAgain, AddEntities, BurstSteps
<1>5. CASE Advance \/ EndBurst \/ Stop
  BY <1>5 DEF Advance, EndBurst, Stop, BurstSteps
<1>. QED
  BY <1>1, <1>2, <1>3, <1>4, <1>5 DEF OffNext

LEMMA BurstInvUnderCalls == OffSpec => []BurstInv
<1>1. OffInit => BurstInv
  <2>. SUFFICES ASSUME OffInit PROVE BurstInv
    OBVIOUS
  <2>1. BurstTypeOK
    BY DEF OffInit, BurstTypeOK, Timers, EntryStates
  <2>2. Idle(running, deferred)
    BY IdleMeans DEF OffInit, Involves
  <2>3. ~Several(running, deferred)
    BY <2>2, IdleNotSeveral
  <2>. QED
    BY <2>1, <2>3 DEF OffInit, BurstInv, ActiveEnds, SeveralHold, TailNeedsEntry
<1>2. BurstInv /\ [OffNext]_offVars => BurstInv'
  <2>. SUFFICES ASSUME BurstInv, [OffNext]_offVars PROVE BurstInv'
    OBVIOUS
  <2>1. CASE OffNext
    BY <2>1, OffStepsBurst, OffIsSentKept, BurstStepKept
  <2>2. CASE UNCHANGED offVars
    BY <2>2, BurstStepKept DEF offVars, BurstSteps
  <2>. QED
    BY <2>1, <2>2
<1>. QED
  BY <1>1, <1>2, PTL DEF OffSpec

(* With the deferral's calls for callers, a burst can always end, holds     *)
(* while two devices are involved and leaves no tail behind                 *)
(* (coordinator.py, CommandBurst, as deferral.py and entity.py call it).    *)
THEOREM BurstSoundUnderCalls == OffSpec => [](ActiveEnds /\ SeveralHold /\ TailNeedsEntry)
<1>1. BurstInv => ActiveEnds /\ SeveralHold /\ TailNeedsEntry
  BY DEF BurstInv
<1>. QED
  BY <1>1, BurstInvUnderCalls, PTL

-----------------------------------------------------------------------------
(* The counts, step by step.                                                *)

CountInv == HoldInv /\ BurstInv /\ CountsCalls

(* A lane's call stays among those sent, those held or neither.             *)
Stays(before, after) ==
    /\ after.phase \in Sent <=> before.phase \in Sent
    /\ after.phase \in Held <=> before.phase \in Held

LEMMA LetStays ==
    ASSUME NEW t, NEW send
    PROVE  Stays(t, Let(t, send))
  BY DEF Stays, Let, At, Sent, Held

LEMMA NotifiedStays ==
    ASSUME NEW turns \in [Lanes -> Turn], NEW run, NEW off, NEW l \in Lanes
    PROVE  Stays(turns[l], Notified(turns, run, off)[l])
<1>. DEFINE left == turns[l].for \cap Others(run, off, DeviceOf[l])
<1>1. CASE turns[l].phase # "waiting"
  BY <1>1 DEF Notified, Stays
<1>2. CASE turns[l].phase = "waiting" /\ left = {}
  BY <1>2, LetStays DEF Notified
<1>3. CASE turns[l].phase = "waiting" /\ left # {}
  BY <1>3 DEF Notified, Stays, Turn
<1>. QED
  BY <1>1, <1>2, <1>3

(* Neither the calls sent nor those held change.                            *)
LEMMA AllStay ==
    ASSUME CountsCalls, UNCHANGED <<running, deferred>>,
           \A l \in Lanes : Stays(turn[l], turn'[l])
    PROVE  CountsCalls'
<1>1. /\ \A l \in Lanes : turn'[l].phase \in Sent <=> turn[l].phase \in Sent
      /\ \A l \in Lanes : turn'[l].phase \in Held <=> turn[l].phase \in Held
  BY DEF Stays
<1>2. \A d \in Devices : running[d] = Cardinality(InPhase(turn', Sent, d))
  BY <1>1, SameCount DEF CountsCalls
<1>3. \A d \in Devices : deferred[d] = Cardinality(InPhase(turn', Held, d))
  BY <1>1, SameCount DEF CountsCalls
<1>. QED
  BY <1>2, <1>3 DEF CountsCalls, Counts

(* The call of l, and of no other lane, is sent or held from here on, or no *)
(* longer; the counts follow.                                               *)
Follows(count, next, phases, l) ==
    \/ /\ turn'[l].phase \in phases <=> turn[l].phase \in phases
       /\ next = count
    \/ /\ turn[l].phase \notin phases /\ turn'[l].phase \in phases
       /\ next = [count EXCEPT ![DeviceOf[l]] = @ + 1]
    \/ /\ turn[l].phase \in phases /\ turn'[l].phase \notin phases
       /\ next = [count EXCEPT ![DeviceOf[l]] = Fewer(@)]

LEMMA FollowedCount ==
    ASSUME NEW phases, NEW count \in [Devices -> Nat], Counts(count, phases), NEW l \in Lanes,
           NEW next, Follows(count, next, phases, l),
           \A m \in Lanes \ {l} : turn'[m].phase \in phases <=> turn[m].phase \in phases
    PROVE  \A d \in Devices : next[d] = Cardinality(InPhase(turn', phases, d))
<1>1. CASE /\ turn'[l].phase \in phases <=> turn[l].phase \in phases
           /\ next = count
  <2>1. \A m \in Lanes : turn'[m].phase \in phases <=> turn[m].phase \in phases
    BY <1>1
  <2>. QED
    BY <1>1, <2>1, SameCount
<1>2. CASE /\ turn[l].phase \notin phases /\ turn'[l].phase \in phases
           /\ next = [count EXCEPT ![DeviceOf[l]] = @ + 1]
  BY <1>2, OneMore
<1>3. CASE /\ turn[l].phase \in phases /\ turn'[l].phase \notin phases
           /\ next = [count EXCEPT ![DeviceOf[l]] = Fewer(@)]
  BY <1>3, OneFewer
<1>. QED
  BY <1>1, <1>2, <1>3 DEF Follows

LEMMA OneLaneCounted ==
    ASSUME CountInv, NEW l \in Lanes,
           \A m \in Lanes \ {l} : Stays(turn[m], turn'[m]),
           Follows(running, running', Sent, l), Follows(deferred, deferred', Held, l)
    PROVE  CountsCalls'
<1>1. /\ running \in [Devices -> Nat] /\ deferred \in [Devices -> Nat]
      /\ Counts(running, Sent) /\ Counts(deferred, Held)
  BY DEF CountInv, BurstInv, BurstTypeOK, CountsCalls
<1>2. /\ \A m \in Lanes \ {l} : turn'[m].phase \in Sent <=> turn[m].phase \in Sent
      /\ \A m \in Lanes \ {l} : turn'[m].phase \in Held <=> turn[m].phase \in Held
  BY DEF Stays
<1>. DEFINE run == running'
            def == deferred'
<1>. HIDE DEF run, def
<1>3. Follows(running, run, Sent, l) /\ Follows(deferred, def, Held, l)
  BY DEF run, def
<1>4. \A d \in Devices : run[d] = Cardinality(InPhase(turn', Sent, d))
  BY <1>1, <1>2, <1>3, FollowedCount
<1>5. \A d \in Devices : def[d] = Cardinality(InPhase(turn', Held, d))
  BY <1>1, <1>2, <1>3, FollowedCount
<1>. QED
  BY <1>4, <1>5 DEF CountsCalls, Counts, run, def

(* A step of one lane's call leaves the others' where they are, even if it  *)
(* notifies them.                                                           *)
LEMMA OneTurn ==
    ASSUME HoldInv, NEW l \in Lanes, NEW t, turn' = [turn EXCEPT ![l] = t]
    PROVE  /\ turn'[l] = t
           /\ \A m \in Lanes \ {l} : Stays(turn[m], turn'[m])
  BY DEF HoldInv, Stays

LEMMA OneTurnTold ==
    ASSUME HoldInv, NEW l \in Lanes, NEW phase \in Phases \ {"waiting"}, NEW run, NEW off,
           turn' = Notified([turn EXCEPT ![l] = At(phase)], run, off)
    PROVE  /\ turn'[l].phase = phase
           /\ \A m \in Lanes \ {l} : Stays(turn[m], turn'[m])
<1>. DEFINE turns == [turn EXCEPT ![l] = At(phase)]
<1>1. /\ turns \in [Lanes -> Turn] /\ turns[l].phase = phase
      /\ \A m \in Lanes \ {l} : turns[m] = turn[m]
  BY AtIs DEF HoldInv
<1>2. turn' = Notified(turns, run, off)
  OBVIOUS
<1>. HIDE DEF turns
<1>3. turn'[l].phase = phase
  BY <1>1, <1>2 DEF Notified
<1>4. \A m \in Lanes \ {l} : Stays(turn[m], turn'[m])
  BY <1>1, <1>2, NotifiedStays
<1>. QED
  BY <1>3, <1>4

LEMMA LaneStepCounted ==
    ASSUME CountInv, NEW l \in Lanes, LaneSteps(l)
    PROVE  CountsCalls'
<1>1. HoldInv /\ CountsCalls
  BY DEF CountInv
<1>. DEFINE SentFollows == Follows(running, running', Sent, l)
            HeldFollows == Follows(deferred, deferred', Held, l)
            OthersStay == \A m \in Lanes \ {l} : Stays(turn[m], turn'[m])
<1>2. ASSUME NEW phase \in {"sent", "sentOff"}, StartsSending(l, phase)
      PROVE  turn'[l].phase \in Sent /\ turn'[l].phase \notin Held /\ OthersStay
  <2>1. turn' = Notified([turn EXCEPT ![l] = At(phase)], running', offs')
    BY <1>2 DEF StartsSending
  <2>. DEFINE run == running'
              off == offs'
  <2>. HIDE DEF run, off
  <2>2. turn' = Notified([turn EXCEPT ![l] = At(phase)], run, off)
    BY <2>1 DEF run, off
  <2>3. turn'[l].phase = phase /\ OthersStay
    BY <1>1, <2>2, OneTurnTold DEF Phases
  <2>. QED
    BY <2>3 DEF Sent, Held
<1>3. CASE Begin(l) \/ GoAtOnce(l)
  <2>1. /\ turn'[l].phase \in Sent /\ turn'[l].phase \notin Held /\ OthersStay
        /\ turn[l].phase \notin Sent /\ turn[l].phase \notin Held
    BY <1>2, <1>3 DEF Begin, GoAtOnce, Sent, Held
  <2>2. running' = [running EXCEPT ![DeviceOf[l]] = @ + 1] /\ deferred' = deferred
    BY <1>3 DEF Begin, GoAtOnce, CommandStarts
  <2>3. SentFollows /\ HeldFollows
    BY <2>1, <2>2 DEF Follows
  <2>. QED
    BY <2>1, <2>3, OneLaneCounted
<1>4. CASE Resume(l)
  <2>1. /\ turn'[l].phase \in Sent /\ turn'[l].phase \notin Held /\ OthersStay
        /\ turn[l].phase \notin Sent /\ turn[l].phase \in Held
    BY <1>2, <1>4 DEF Resume, Sent, Held
  <2>2. /\ running' = [running EXCEPT ![DeviceOf[l]] = @ + 1]
        /\ deferred' = [deferred EXCEPT ![DeviceOf[l]] = Fewer(@)]
    BY <1>4 DEF Resume, OffIsSent
  <2>3. SentFollows /\ HeldFollows
    BY <2>1, <2>2 DEF Follows
  <2>. QED
    BY <2>1, <2>3, OneLaneCounted
<1>5. CASE Wait(l)
  <2>. DEFINE t == [At("waiting") EXCEPT !.for = Others(running, offs, DeviceOf[l]),
                                         !.cap = "armed"]
  <2>1. turn' = [turn EXCEPT ![l] = t] /\ t.phase = "waiting" /\ turn[l].phase = "starting"
    BY <1>5 DEF Wait, At
  <2>2. turn'[l].phase = "waiting" /\ OthersStay
    <3>. HIDE DEF t
    <3>. QED
      BY <1>1, <2>1, OneTurn
  <2>3. running' = running /\ deferred' = [deferred EXCEPT ![DeviceOf[l]] = @ + 1]
    BY <1>5 DEF Wait, OffWaits
  <2>4. SentFollows /\ HeldFollows
    BY <2>1, <2>2, <2>3 DEF Follows, Sent, Held
  <2>. QED
    BY <2>2, <2>4, OneLaneCounted
<1>6. CASE ResumeUnsent(l) \/ (Cancel(l) /\ turn[l].phase \in Held)
  <2>1. /\ turn' = [turn EXCEPT ![l] = At("queued")] /\ turn[l].phase \in Held
        /\ running' = running /\ deferred' = [deferred EXCEPT ![DeviceOf[l]] = Fewer(@)]
    BY <1>6 DEF ResumeUnsent, Cancel, Ends, OffGoes, Held
  <2>2. turn'[l].phase = "queued" /\ OthersStay
    <3>1. turn'[l] = At("queued") /\ OthersStay
      BY <1>1, <2>1, OneTurn
    <3>. QED
      BY <3>1, AtIs DEF Phases
  <2>3. SentFollows /\ HeldFollows
    BY <2>1, <2>2 DEF Follows, Sent, Held
  <2>. QED
    BY <2>2, <2>3, OneLaneCounted
<1>7. CASE EndCommand(l)
  <2>1. /\ turn[l].phase \in Sent /\ deferred' = deferred
        /\ running' = [running EXCEPT ![DeviceOf[l]] = Fewer(@)]
        /\ turn' = Notified([turn EXCEPT ![l] = At("queued")], running', offs)
    BY <1>7 DEF EndCommand, CommandEnds
  <2>. DEFINE run == running'
  <2>. HIDE DEF run
  <2>2. turn' = Notified([turn EXCEPT ![l] = At("queued")], run, offs)
    BY <2>1 DEF run
  <2>3. turn'[l].phase = "queued" /\ OthersStay
    BY <1>1, <2>2, OneTurnTold DEF Phases
  <2>4. SentFollows /\ HeldFollows
    BY <2>1, <2>3 DEF Follows, Sent, Held
  <2>. QED
    BY <2>3, <2>4, OneLaneCounted
<1>8. CASE NotSent(l) \/ SkipAtOnce(l) \/ (Cancel(l) /\ turn[l].phase = "starting")
  <2>1. /\ turn' = [turn EXCEPT ![l] = At("queued")] /\ turn[l].phase = "starting"
        /\ UNCHANGED <<running, deferred>>
    BY <1>8 DEF NotSent, SkipAtOnce, Cancel, Ends, burstVars, Held
  <2>2. turn'[l].phase = "queued" /\ OthersStay
    <3>1. turn'[l] = At("queued") /\ OthersStay
      BY <1>1, <2>1, OneTurn
    <3>. QED
      BY <3>1, AtIs DEF Phases
  <2>3. SentFollows /\ HeldFollows
    BY <2>1, <2>2 DEF Follows, Sent, Held
  <2>. QED
    BY <2>2, <2>3, OneLaneCounted
<1>9. CASE LetOthersStart(l)
  <2>1. /\ turn' = [turn EXCEPT ![l] = At("starting")] /\ turn[l].phase = "queued"
        /\ UNCHANGED <<running, deferred>>
    BY <1>9 DEF LetOthersStart, burstVars
  <2>2. turn'[l].phase = "starting" /\ OthersStay
    BY <1>1, <2>1, OneTurn, AtIs DEF Phases
  <2>3. SentFollows /\ HeldFollows
    BY <2>1, <2>2 DEF Follows, Sent, Held
  <2>. QED
    BY <2>2, <2>3, OneLaneCounted
<1>10. CASE Skip(l)
  BY <1>1, <1>10, AllStay DEF Skip, burstVars, Stays
<1>11. CASE CapReached(l)
  <2>1. turn' = [turn EXCEPT ![l] = Let(turn[l], TRUE)] /\ UNCHANGED <<running, deferred>>
    BY <1>11 DEF CapReached, burstVars
  <2>2. turn'[l] = Let(turn[l], TRUE) /\ OthersStay
    BY <1>1, <2>1, OneTurn
  <2>3. \A m \in Lanes : Stays(turn[m], turn'[m])
    BY <2>2, LetStays
  <2>. QED
    BY <1>1, <2>1, <2>3, AllStay
<1>12. Cancel(l) => turn[l].phase = "starting" \/ turn[l].phase \in Held
  BY DEF Cancel
<1>. QED
  BY <1>3, <1>4, <1>5, <1>6, <1>7, <1>8, <1>9, <1>10, <1>11, <1>12 DEF LaneSteps

LEMMA StepCounted ==
    ASSUME CountInv, [OffNext]_offVars
    PROVE  CountsCalls'
<1>1. HoldInv /\ CountsCalls /\ turn \in [Lanes -> Turn]
  BY DEF CountInv, HoldInv
<1>2. ASSUME UNCHANGED <<running, deferred, turn>> PROVE CountsCalls'
  BY <1>1, <1>2, AllStay DEF Stays
<1>3. ASSUME NEW d \in Devices, NEW call \in Calls, Request(d, call) PROVE CountsCalls'
  <2>1. turn' = Hurried(d, call.zone) /\ UNCHANGED <<running, deferred>>
    BY <1>3 DEF Request, burstVars
  <2>2. \A l \in Lanes : turn'[l] = turn[l] \/ turn'[l] = Let(turn[l], TRUE)
    BY <2>1 DEF Hurried
  <2>3. \A l \in Lanes : Stays(turn[l], turn[l])
    BY DEF Stays
  <2>4. \A l \in Lanes : Stays(turn[l], turn'[l])
    BY <2>2, <2>3, LetStays
  <2>. QED
    BY <1>1, <2>1, <2>4, AllStay
<1>4. ASSUME NEW l \in Lanes, LaneSteps(l) PROVE CountsCalls'
  BY <1>4, LaneStepCounted
<1>5. ASSUME NEW l \in Lanes, NEW i \in 1..MaxLine[l], Withdraw(l, i) PROVE CountsCalls'
  BY <1>2, <1>5 DEF Withdraw, burstVars
<1>6. CASE Advance
  <2>1. /\ UNCHANGED <<running, deferred>>
        /\ turn' = [l \in Lanes |->
                       [turn[l] EXCEPT !.cap = IF @ = "armed" THEN "due" ELSE @]]
    BY <1>6 DEF Advance
  <2>2. \A l \in Lanes : turn'[l].phase = turn[l].phase
    BY <1>1, <2>1 DEF Turn
  <2>3. \A l \in Lanes : Stays(turn[l], turn'[l])
    BY <2>2 DEF Stays
  <2>. QED
    BY <1>1, <2>1, <2>3, AllStay
<1>7. CASE EndBurst
  BY <1>2, <1>7 DEF EndBurst, BurstEnds
<1>8. CASE Stop
  <2>1. turn' = [l \in Lanes |-> Let(turn[l], FALSE)] /\ UNCHANGED <<running, deferred>>
    BY <1>8 DEF Stop, burstVars
  <2>2. \A l \in Lanes : Stays(turn[l], turn'[l])
    BY <2>1, LetStays
  <2>. QED
    BY <1>1, <2>1, <2>2, AllStay
<1>9. ASSUME NEW d \in Devices, RemoveEntities(d) PROVE CountsCalls'
  <2>1. turn' = [turn EXCEPT ![lane[d]] = Dropped(@)] /\ UNCHANGED <<running, deferred>>
    BY <1>9 DEF RemoveEntities, StartUnload
  <2>2. \A l \in Lanes : turn'[l] = turn[l] \/ turn'[l] = Dropped(turn[l])
    BY <1>1, <2>1
  <2>3. ASSUME NEW l \in Lanes
        PROVE  Stays(turn[l], turn[l]) /\ Stays(turn[l], Dropped(turn[l]))
    <3>1. CASE turn[l].phase = "starting"
      <4>1. /\ Dropped(turn[l]) = [turn[l] EXCEPT !.send = FALSE]
            /\ turn[l] \in Turn
        BY <1>1, <3>1 DEF Dropped
      <4>2. Dropped(turn[l]).phase = turn[l].phase
        BY <4>1 DEF Turn
      <4>. QED
        BY <4>2 DEF Stays
    <3>2. CASE turn[l].phase # "starting"
      BY <3>2, LetStays DEF Stays, Dropped
    <3>. QED
      BY <3>1, <3>2
  <2>4. \A l \in Lanes : Stays(turn[l], turn'[l])
    BY <2>2, <2>3
  <2>. QED
    BY <1>1, <2>1, <2>4, AllStay
<1>10. ASSUME NEW d \in Devices, Unloaded(d) \/ SetUpAgain(d) PROVE CountsCalls'
  BY <1>2, <1>10 DEF Unloaded, SetUpAgain, ShutDown, SetUp
<1>11. ASSUME NEW d \in Devices, NEW l \in Lanes, AddEntities(d, l) PROVE CountsCalls'
  BY <1>2, <1>11 DEF AddEntities, Load
<1>12. CASE UNCHANGED offVars
  BY <1>2, <1>12 DEF offVars, burstVars
<1>. QED
  BY <1>3, <1>4, <1>5, <1>6, <1>7, <1>8, <1>9, <1>10, <1>11, <1>12 DEF OffNext

LEMMA CountsCallsFirst ==
    ASSUME OffInit
    PROVE  CountsCalls
<1>1. \A d \in Devices : /\ InPhase(turn, Sent, d) = {} /\ InPhase(turn, Held, d) = {}
                         /\ running[d] = 0 /\ deferred[d] = 0
  BY DEF OffInit, InPhase, LanesOf, Sent, Held, At
<1>. QED
  BY <1>1, FS_EmptySet DEF CountsCalls, Counts

(* Each device counts exactly the commands its lanes are sending and the    *)
(* turn-offs they hold: no call, however it ends, leaves a count behind     *)
(* (async_track_command, async_note_waiting, _async_wait).                  *)
THEOREM CountsExact == OffSpec => []CountsCalls
<1>1. OffInit => CountsCalls
  BY CountsCallsFirst
<1>2. HoldInv /\ BurstInv /\ CountsCalls /\ [OffNext]_offVars => CountsCalls'
  BY StepCounted DEF CountInv
<1>. QED
  BY <1>1, <1>2, HoldInvHolds, BurstInvUnderCalls, PTL DEF OffSpec

-----------------------------------------------------------------------------
(* The polls of every device are held while a turn-off waits.               *)

DeferredHold == (\E d \in Devices : deferred[d] > 0) => active

LEMMA DeferredNotIdle ==
    ASSUME NEW run, NEW off, NEW d \in Devices, off[d] > 0
    PROVE  ~Idle(run, off)
  BY IdleMeans DEF Involves

(* Where a step leaves a turn-off waiting, it ends no burst.                *)
LEMMA DeferredHoldKept ==
    ASSUME BurstInv, DeferredHold, BurstSteps \/ \E d \in Devices : OffIsSent(d)
    PROVE  DeferredHold'
<1>. SUFFICES ASSUME NEW w \in Devices, deferred'[w] > 0 PROVE active'
  BY DEF DeferredHold
<1>1. \A run : ~Idle(run, deferred')
  <2>. DEFINE def == deferred'
  <2>. HIDE DEF def
  <2>1. def[w] > 0
    BY DEF def
  <2>2. \A run : ~Idle(run, def)
    BY <2>1, DeferredNotIdle
  <2>. QED
    BY <2>2 DEF def
<1>2. deferred[w] > 0 => active /\ ~Idle(running, deferred) /\ tail = "off"
  BY DeferredNotIdle DEF DeferredHold, BurstInv, SeveralHold
<1>3. \A d \in Devices, n \in Nat : Fewer(n) > 0 => n > 0
  BY FewerIs
<1>4. deferred \in [Devices -> Nat]
  BY DEF BurstInv, BurstTypeOK
<1>5. ASSUME NEW d \in Devices, OffWaits(d) PROVE active'
  <2>1. PICK e \in Devices \ {d} : running[e] > 0
    BY <1>5 DEF OffWaits
  <2>2. running' = running /\ deferred'[d] > 0
    BY <1>4, <1>5 DEF OffWaits
  <2>3. Involves(running, deferred', d) /\ Involves(running, deferred', e)
    BY <2>1, <2>2 DEF Involves
  <2>4. Several(running, deferred')
    <3>. DEFINE def == deferred'
    <3>. HIDE DEF def
    <3>1. Involves(running, def, d) /\ Involves(running, def, e)
      BY <2>3 DEF def
    <3>2. Several(running, def)
      BY <2>1, <3>1, SeveralMeans
    <3>. QED
      BY <3>2 DEF def
  <2>5. active' = (active \/ Several(running, deferred'))
    BY <1>5 DEF OffWaits, BurstGrows
  <2>. QED
    BY <2>4, <2>5, Zenon
<1>6. ASSUME NEW d \in Devices, OffGoes(d) \/ OffIsSent(d) PROVE active'
  <2>1. deferred' = [deferred EXCEPT ![d] = Fewer(@)]
    BY <1>6 DEF OffGoes, OffIsSent
  <2>2. deferred[w] > 0
    BY <1>3, <1>4, <2>1
  <2>. QED
    BY <1>1, <1>2, <1>6, <2>2 DEF OffGoes, OffIsSent, BurstShrinks
<1>7. ASSUME UNCHANGED deferred,
             \/ \E d \in Devices :
                   \/ CommandStarts(d) \/ CommandEnds(d)
                   \/ SetUp(d) \/ Load(d) \/ StartUnload(d) \/ FailUnload(d) \/ ShutDown(d)
             \/ BurstEnds
             \/ UNCHANGED active
      PROVE  active'
  <2>1. active /\ ~Idle(running, deferred) /\ tail = "off"
    BY <1>2, <1>7
  <2>2. ASSUME NEW d \in Devices, CommandStarts(d) \/ CommandEnds(d) PROVE active'
    BY <1>1, <2>1, <2>2 DEF CommandStarts, CommandEnds, BurstGrows, BurstShrinks
  <2>3. ASSUME NEW d \in Devices,
               SetUp(d) \/ Load(d) \/ StartUnload(d) \/ FailUnload(d) \/ ShutDown(d)
        PROVE  active'
    BY <2>1, <2>3 DEF SetUp, Load, StartUnload, FailUnload, ShutDown, UnloadNoted
  <2>4. ~BurstEnds
    BY <2>1 DEF BurstEnds
  <2>. QED
    BY <1>7, <2>1, <2>2, <2>3, <2>4
<1>8. ASSUME NEW d \in Devices, CommandStarts(d) \/ CommandEnds(d) PROVE active'
  BY <1>7, <1>8 DEF CommandStarts, CommandEnds
<1>9. ASSUME NEW d \in Devices,
             SetUp(d) \/ Load(d) \/ StartUnload(d) \/ FailUnload(d) \/ ShutDown(d)
      PROVE  active'
  BY <1>7, <1>9 DEF SetUp, Load, StartUnload, FailUnload, ShutDown
<1>10. ASSUME NEW d \in Devices, OffWaits(d) \/ OffGoes(d) \/ OffIsSent(d) PROVE active'
  BY <1>5, <1>6, <1>10
<1>11. ASSUME \/ BurstEnds
              \/ TailAdvances /\ UNCHANGED <<running, deferred, active, entry>>
              \/ UNCHANGED burstVars
       PROVE  active'
  BY <1>7, <1>11 DEF BurstEnds, burstVars
<1>. QED
  BY <1>8, <1>9, <1>10, <1>11 DEF BurstSteps

(* A turn-off that waits, or was let go and has yet to be sent, holds the   *)
(* polls of every device, and no tail runs meanwhile (_async_wait,          *)
(* async_note_waiting).                                                     *)
THEOREM PollsHeldByWaits == OffSpec => []WaitHoldsPolls
<1>1. OffInit => DeferredHold
  BY DEF OffInit, DeferredHold
<1>2. BurstInv /\ DeferredHold /\ [OffNext]_offVars => DeferredHold'
  BY OffStepsBurst, DeferredHoldKept DEF BurstSteps, offVars
<1>3. BurstInv /\ DeferredHold /\ CountsCalls => WaitHoldsPolls
  <2>. SUFFICES ASSUME BurstInv, DeferredHold, CountsCalls,
                       NEW l \in Lanes, turn[l].phase \in Held
                PROVE  active /\ tail = "off"
    BY DEF WaitHoldsPolls
  <2>. DEFINE d == DeviceOf[l]
  <2>1. d \in Devices
    BY DeferralAssumption
  <2>2. l \in InPhase(turn, Held, d)
    BY DEF InPhase, LanesOf
  <2>3. /\ IsFiniteSet(InPhase(turn, Held, d))
        /\ Cardinality(InPhase(turn, Held, d)) \in Nat
        /\ Cardinality(InPhase(turn, Held, d)) # 0
    BY <2>2, InPhaseFinite, FS_EmptySet
  <2>4. deferred[d] > 0
    BY <2>1, <2>3 DEF CountsCalls, Counts
  <2>5. ~Idle(running, deferred)
    BY <2>1, <2>4, DeferredNotIdle
  <2>. QED
    BY <2>1, <2>4, <2>5 DEF DeferredHold, BurstInv, SeveralHold
<1>. QED
  BY <1>1, <1>2, <1>3, BurstInvUnderCalls, CountsExact, PTL DEF OffSpec

-----------------------------------------------------------------------------
(* The lanes: each has a call under way only while it has calls, and a      *)
(* wait's cap runs only as long as the wait.                                *)

LineInv ==
    /\ lane \in [Devices -> Lanes]
    /\ line \in [Lanes -> Seq(Call)]
    /\ stopping \in BOOLEAN
    /\ \A l \in Lanes : turn[l].phase # "queued" => line[l] # <<>>

CapInv == \A l \in Lanes : turn[l].phase # "waiting" => turn[l].cap = "off"

(* What a step may do to a turn it isn't the step of.                       *)
Told(before, after) ==
    \/ after = before
    \/ /\ before.phase = "waiting"
       /\ after.phase = "waiting" \/ (after.phase = "ended" /\ after.cap = "off")

LEMMA LetTold ==
    ASSUME NEW t, NEW send
    PROVE  Told(t, Let(t, send))
  BY DEF Told, Let, At

LEMMA NotifiedTold ==
    ASSUME NEW turns \in [Lanes -> Turn], NEW run, NEW off, NEW l \in Lanes
    PROVE  Told(turns[l], Notified(turns, run, off)[l])
<1>. DEFINE left == turns[l].for \cap Others(run, off, DeviceOf[l])
<1>1. CASE turns[l].phase # "waiting"
  BY <1>1 DEF Notified, Told
<1>2. CASE turns[l].phase = "waiting" /\ left = {}
  BY <1>2, LetTold DEF Notified
<1>3. CASE turns[l].phase = "waiting" /\ left # {}
  BY <1>3 DEF Notified, Told, Turn
<1>. QED
  BY <1>1, <1>2, <1>3

(* A step of the lane's call itself: it never ends an ended wait again, it  *)
(* comes under way only as one of the lane's calls, and leaves the lane as  *)
(* it ends.                                                                 *)
OwnStep(l) ==
    /\ turn'[l].phase = "waiting" \/ turn'[l].cap = "off" \/ turn'[l] = turn[l]
    /\ turn[l].phase = "ended" => turn'[l].phase # "ended"
    /\ \/ /\ line' = line
          /\ turn[l].phase = "queued" /\ turn'[l].phase # "queued" => line[l] # <<>>
       \/ /\ Leaves(l) /\ turn'[l].phase = "queued"
          /\ turn[l].phase # "queued" \/ line[l] # <<>>

LEMMA TurnIsAt ==
    ASSUME HoldInv, NEW l \in Lanes, NEW phase \in Phases \ {"waiting"}, NEW run, NEW off,
           \/ turn' = [turn EXCEPT ![l] = At(phase)]
           \/ turn' = Notified([turn EXCEPT ![l] = At(phase)], run, off)
    PROVE  /\ turn'[l] = At(phase) /\ turn'[l].phase = phase /\ turn'[l].cap = "off"
           /\ \A m \in Lanes \ {l} : Told(turn[m], turn'[m])
<1>. DEFINE turns == [turn EXCEPT ![l] = At(phase)]
<1>1. /\ turns \in [Lanes -> Turn] /\ turns[l] = At(phase)
      /\ \A m \in Lanes \ {l} : turns[m] = turn[m]
  BY AtIs DEF HoldInv
<1>2. At(phase).phase = phase /\ At(phase).cap = "off"
  BY DEF At
<1>. HIDE DEF turns
<1>3. CASE turn' = turns
  BY <1>1, <1>2, <1>3 DEF Told
<1>4. CASE turn' = Notified(turns, run, off)
  <2>1. turn'[l] = At(phase)
    BY <1>1, <1>2, <1>4 DEF Notified
  <2>. QED
    BY <1>1, <1>2, <1>4, <2>1, NotifiedTold
<1>. QED
  BY <1>3, <1>4 DEF turns

LEMMA LaneStepShape ==
    ASSUME HoldInv, NEW l \in Lanes, LaneSteps(l)
    PROVE  OwnStep(l) /\ \A m \in Lanes \ {l} : Told(turn[m], turn'[m])
<1>. DEFINE Shape == OwnStep(l) /\ \A m \in Lanes \ {l} : Told(turn[m], turn'[m])
<1>1. ASSUME NEW phase \in {"sent", "sentOff"}, StartsSending(l, phase),
             turn[l].phase # "queued" \/ line[l] # <<>>
      PROVE  Shape
  <2>. DEFINE run == running'
              off == offs'
  <2>1. turn' = Notified([turn EXCEPT ![l] = At(phase)], run, off) /\ line' = line
    BY <1>1 DEF StartsSending
  <2>. HIDE DEF run, off
  <2>2. /\ turn'[l].phase = phase /\ turn'[l].cap = "off"
        /\ \A m \in Lanes \ {l} : Told(turn[m], turn'[m])
    BY <2>1, TurnIsAt DEF Phases
  <2>. QED
    BY <1>1, <2>1, <2>2 DEF OwnStep
<1>2. CASE Begin(l) \/ GoAtOnce(l) \/ Resume(l)
  BY <1>1, <1>2 DEF Begin, GoAtOnce, Resume
<1>3. ASSUME Ends(l), turn[l].phase # "queued" PROVE Shape
  <2>1. /\ turn'[l].phase = "queued" /\ turn'[l].cap = "off"
        /\ \A m \in Lanes \ {l} : Told(turn[m], turn'[m])
    BY <1>3, TurnIsAt DEF Ends, Phases
  <2>. QED
    BY <1>3, <2>1 DEF OwnStep, Ends
<1>4. CASE NotSent(l) \/ SkipAtOnce(l) \/ ResumeUnsent(l) \/ Cancel(l)
  BY <1>3, <1>4 DEF NotSent, SkipAtOnce, ResumeUnsent, Cancel, Held
<1>5. CASE Skip(l)
  BY <1>5 DEF Skip, OwnStep, Told, HoldInv
<1>6. CASE LetOthersStart(l)
  <2>1. turn' = [turn EXCEPT ![l] = At("starting")] /\ line' = line /\ line[l] # <<>>
        /\ turn[l].phase = "queued"
    BY <1>6 DEF LetOthersStart
  <2>2. /\ turn'[l].phase = "starting" /\ turn'[l].cap = "off"
        /\ \A m \in Lanes \ {l} : Told(turn[m], turn'[m])
    BY <2>1, TurnIsAt DEF Phases
  <2>. QED
    BY <2>1, <2>2 DEF OwnStep
<1>7. CASE Wait(l)
  <2>. DEFINE met == Others(running, offs, DeviceOf[l])
              t == [At("waiting") EXCEPT !.for = met, !.cap = "armed"]
  <2>1. turn' = [turn EXCEPT ![l] = t] /\ t.phase = "waiting" /\ line' = line
        /\ turn[l].phase = "starting"
    BY <1>7 DEF Wait, At
  <2>. HIDE DEF t
  <2>. QED
    BY <2>1 DEF OwnStep, Told, HoldInv
<1>8. CASE EndCommand(l)
  <2>. DEFINE run == running'
  <2>1. turn' = Notified([turn EXCEPT ![l] = At("queued")], run, offs) /\ Leaves(l)
        /\ turn[l].phase \in Sent
    BY <1>8 DEF EndCommand
  <2>. HIDE DEF run
  <2>2. /\ turn'[l].phase = "queued" /\ turn'[l].cap = "off"
        /\ \A m \in Lanes \ {l} : Told(turn[m], turn'[m])
    BY <2>1, TurnIsAt DEF Phases
  <2>. QED
    BY <2>1, <2>2 DEF OwnStep, Sent
<1>9. CASE CapReached(l)
  <2>. DEFINE t == Let(turn[l], TRUE)
  <2>1. turn' = [turn EXCEPT ![l] = t] /\ line' = line /\ turn[l].phase = "waiting"
    BY <1>9 DEF CapReached
  <2>2. t.phase = "ended" /\ t.cap = "off"
    BY <2>1 DEF Let, At
  <2>. HIDE DEF t
  <2>. QED
    BY <2>1, <2>2 DEF OwnStep, Told, HoldInv
<1>. QED
  BY <1>2, <1>4, <1>5, <1>6, <1>7, <1>8, <1>9 DEF LaneSteps

LEMMA LeavesIs ==
    ASSUME LineInv, NEW l \in Lanes, line[l] # <<>>, Leaves(l)
    PROVE  /\ line' \in [Lanes -> Seq(Call)]
           /\ \A m \in Lanes \ {l} : line'[m] = line[m]
<1>1. Tail(line[l]) \in Seq(Call)
  BY HeadTailProperties DEF LineInv
<1>. QED
  BY <1>1 DEF Leaves, LineInv

LEMMA RequestLine ==
    ASSUME LineInv, NEW d \in Devices, NEW call \in Calls, Request(d, call)
    PROVE  /\ line' \in [Lanes -> Seq(Call)]
           /\ \A l \in Lanes : line[l] # <<>> => line'[l] # <<>>
<1>. DEFINE l == lane[d]
            more == Append(line[l], call)
<1>1. l \in Lanes /\ line[l] \in Seq(Call) /\ call \in Call
  BY DeferralAssumption DEF LineInv
<1>2. more \in Seq(Call) /\ Len(more) = Len(line[l]) + 1 /\ Len(line[l]) \in Nat
  BY <1>1, AppendProperties, LenProperties
<1>3. more # <<>>
  BY <1>2, EmptySeq
<1>4. line' = [line EXCEPT ![l] = more]
  BY DEF Request
<1>. HIDE DEF more, l
<1>. QED
  BY <1>1, <1>2, <1>3, <1>4 DEF LineInv

LEMMA WithdrawLine ==
    ASSUME LineInv, NEW l \in Lanes, NEW i \in 1..MaxLine[l], Withdraw(l, i)
    PROVE  /\ line' \in [Lanes -> Seq(Call)]
           /\ \A m \in Lanes : turn[m].phase # "queued" => line'[m] # <<>>
<1>. DEFINE s == line[l]
            before == SubSeq(s, 1, i - 1)
            after == SubSeq(s, i + 1, Len(s))
            rest == before \o after
<1>1. s \in Seq(Call) /\ Len(s) \in Nat /\ i \in 1..Len(s) /\ i \in Nat
  BY LenProperties DEF LineInv, Withdraw
<1>2. \A k \in 1..Len(s) : s[k] \in Call
  BY <1>1, ElementOfSeq
<1>. HIDE DEF s
<1>3. before \in Seq(Call) /\ Len(before) = IF 1 <= i - 1 THEN i - 1 ELSE 0
  <2>1. \A k \in 1..(i - 1) : s[k] \in Call
    BY <1>1, <1>2
  <2>2. i - 1 \in Int /\ (i - 1) - 1 + 1 = i - 1
    BY <1>1
  <2>. QED
    BY <2>1, <2>2, SubSeqProperties
<1>4. after \in Seq(Call) /\ Len(after) \in Nat
  <2>1. \A k \in (i + 1)..Len(s) : s[k] \in Call
    BY <1>1, <1>2
  <2>2. i + 1 \in Int /\ Len(s) \in Int
    BY <1>1
  <2>3. after \in Seq(Call)
    BY <2>1, <2>2, SubSeqProperties
  <2>. QED
    BY <2>3, LenProperties
<1>. HIDE DEF before, after
<1>5. rest \in Seq(Call) /\ Len(rest) = Len(before) + Len(after)
  BY <1>3, <1>4, ConcatProperties
<1>6. i # 1 => rest # <<>>
  BY <1>1, <1>3, <1>4, <1>5, EmptySeq
<1>7. line' = [line EXCEPT ![l] = rest] /\ (i = 1 => turn[l].phase = "queued")
  BY DEF Withdraw, s, before, after
<1>. HIDE DEF rest
<1>. QED
  BY <1>5, <1>6, <1>7 DEF LineInv

(* Any step, of a lane or not.                                              *)
LEMMA LineStepKept ==
    ASSUME HoldInv, LineInv, CapInv, [OffNext]_offVars
    PROVE  /\ LineInv' /\ CapInv'
           /\ \A l \in Lanes : turn[l].phase = "ended" /\ turn'[l].phase = "ended"
                                  => turn'[l] = turn[l]
<1>. DEFINE Kept == /\ LineInv' /\ CapInv'
                    /\ \A l \in Lanes : turn[l].phase = "ended" /\ turn'[l].phase = "ended"
                                           => turn'[l] = turn[l]
<1>1. ASSUME \A l \in Lanes : Told(turn[l], turn'[l]),
             line' \in [Lanes -> Seq(Call)],
             \A l \in Lanes : turn[l].phase # "queued" => line'[l] # <<>>,
             lane' \in [Devices -> Lanes], stopping' \in BOOLEAN
      PROVE  Kept
  BY <1>1 DEF LineInv, CapInv, Told
<1>2. ASSUME \A l \in Lanes : Told(turn[l], turn'[l]), UNCHANGED <<lane, line, stopping>>
      PROVE  Kept
  BY <1>1, <1>2 DEF LineInv
<1>3. ASSUME NEW d \in Devices, NEW call \in Calls, Request(d, call) PROVE Kept
  <2>1. \A l \in Lanes : Told(turn[l], turn'[l])
    <3>1. \A l \in Lanes : turn'[l] = turn[l] \/ turn'[l] = Let(turn[l], TRUE)
      BY <1>3 DEF Request, Hurried
    <3>2. \A t : Told(t, t)
      BY DEF Told
    <3>. QED
      BY <3>1, <3>2, LetTold
  <2>2. UNCHANGED <<lane, stopping>>
    BY <1>3 DEF Request, SameElse
  <2>. QED
    BY <1>1, <1>3, <2>1, <2>2, RequestLine DEF LineInv
<1>4. ASSUME NEW l \in Lanes, LaneSteps(l) PROVE Kept
  <2>1. OwnStep(l) /\ \A m \in Lanes \ {l} : Told(turn[m], turn'[m])
    BY <1>4, LaneStepShape
  <2>2. UNCHANGED <<lane, stopping>>
    BY <1>4
    DEF LaneSteps, Begin, Skip, LetOthersStart, NotSent, GoAtOnce, SkipAtOnce, Wait,
        Resume, ResumeUnsent, EndCommand, Cancel, CapReached, SameElse
  <2>3. CapInv'
    BY <2>1 DEF CapInv, OwnStep, Told
  <2>4. \A m \in Lanes : turn[m].phase = "ended" /\ turn'[m].phase = "ended"
                            => turn'[m] = turn[m]
    BY <2>1 DEF OwnStep, Told
  <2>5. \A m \in Lanes \ {l} : turn'[m].phase # "queued" => turn[m].phase # "queued"
    BY <2>1 DEF Told
  <2>6. CASE line' = line
    BY <2>1, <2>2, <2>3, <2>4, <2>5, <2>6 DEF LineInv, OwnStep
  <2>7. CASE Leaves(l) /\ turn'[l].phase = "queued"
             /\ (turn[l].phase # "queued" \/ line[l] # <<>>)
    <3>1. line[l] # <<>>
      BY <2>7 DEF LineInv
    <3>2. /\ line' \in [Lanes -> Seq(Call)]
          /\ \A m \in Lanes \ {l} : line'[m] = line[m]
      BY <2>7, <3>1, LeavesIs
    <3>. QED
      BY <2>2, <2>3, <2>4, <2>5, <2>7, <3>2 DEF LineInv
  <2>. QED
    BY <2>1, <2>6, <2>7 DEF OwnStep
<1>5. ASSUME NEW l \in Lanes, NEW i \in 1..MaxLine[l], Withdraw(l, i) PROVE Kept
  BY <1>1, <1>5, WithdrawLine DEF Withdraw, SameElse, LineInv, Told
<1>6. CASE Advance
  <2>1. /\ turn' = [l \in Lanes |->
                       [turn[l] EXCEPT !.cap = IF @ = "armed" THEN "due" ELSE @]]
        /\ UNCHANGED <<lane, line, stopping>>
    BY <1>6 DEF Advance, SameElse
  <2>2. \A l \in Lanes : Told(turn[l], turn'[l])
    <3>. SUFFICES ASSUME NEW l \in Lanes PROVE Told(turn[l], turn'[l])
      OBVIOUS
    <3>1. turn[l] \in Turn
      BY DEF HoldInv
    <3>2. CASE turn[l].phase = "waiting"
      BY <2>1, <3>1, <3>2 DEF Told, Turn
    <3>3. CASE turn[l].phase # "waiting"
      <4>1. turn[l].cap = "off"
        BY <3>3 DEF CapInv
      <4>2. turn'[l] = [turn[l] EXCEPT !.cap = turn[l].cap]
        BY <2>1, <4>1
      <4>. QED
        BY <3>1, <4>2 DEF Told, Turn
    <3>. QED
      BY <3>2, <3>3
  <2>. QED
    BY <1>2, <2>1, <2>2
<1>7. CASE EndBurst
  BY <1>2, <1>7 DEF EndBurst, SameElse, Told
<1>8. CASE Stop
  <2>1. turn' = [l \in Lanes |-> Let(turn[l], FALSE)] /\ stopping' = TRUE
        /\ UNCHANGED <<lane, line>>
    BY <1>8 DEF Stop
  <2>2. \A l \in Lanes : Told(turn[l], turn'[l])
    BY <2>1, LetTold
  <2>. QED
    BY <1>1, <2>1, <2>2 DEF LineInv
<1>9. ASSUME NEW d \in Devices, RemoveEntities(d) PROVE Kept
  <2>1. /\ turn' = [turn EXCEPT ![lane[d]] = Dropped(@)]
        /\ UNCHANGED <<lane, line, stopping>>
    BY <1>9 DEF RemoveEntities, SameElse
  <2>2. \A l \in Lanes : turn'[l] = turn[l] \/ turn'[l] = Dropped(turn[l])
    BY <2>1 DEF HoldInv
  <2>3. \A l \in Lanes : \/ Told(turn[l], turn'[l])
                         \/ /\ turn[l].phase = "starting" /\ turn'[l].phase = "starting"
                            /\ turn'[l].cap = turn[l].cap
    <3>. SUFFICES ASSUME NEW l \in Lanes, turn'[l] = Dropped(turn[l]), turn[l] \in Turn
                  PROVE  \/ Told(turn[l], turn'[l])
                         \/ /\ turn[l].phase = "starting" /\ turn'[l].phase = "starting"
                            /\ turn'[l].cap = turn[l].cap
      BY <2>2 DEF Told, HoldInv
    <3>1. CASE turn[l].phase = "starting"
      BY <3>1 DEF Dropped, Turn
    <3>2. CASE turn[l].phase # "starting"
      BY <3>2, LetTold DEF Dropped
    <3>. QED
      BY <3>1, <3>2
  <2>. QED
    BY <2>1, <2>3 DEF LineInv, CapInv, Told
<1>10. ASSUME NEW d \in Devices, Unloaded(d) \/ SetUpAgain(d) PROVE Kept
  BY <1>2, <1>10 DEF Unloaded, SetUpAgain, SameElse, Told
<1>11. ASSUME NEW d \in Devices, NEW l \in Lanes, AddEntities(d, l) PROVE Kept
  <2>1. /\ lane' = [lane EXCEPT ![d] = l] /\ UNCHANGED <<line, turn, stopping>>
    BY <1>11 DEF AddEntities
  <2>2. lane' \in [Devices -> Lanes] /\ \A m \in Lanes : Told(turn[m], turn'[m])
    BY <2>1 DEF LineInv, Told
  <2>. QED
    BY <1>1, <2>1, <2>2 DEF LineInv
<1>12. CASE UNCHANGED offVars
  BY <1>2, <1>12 DEF offVars, Told
<1>. QED
  BY <1>3, <1>4, <1>5, <1>6, <1>7, <1>8, <1>9, <1>10, <1>11, <1>12 DEF OffNext

LEMMA LineInvHolds == OffSpec => [](LineInv /\ CapInv)
<1>1. OffInit => LineInv /\ CapInv
  <2>. SUFFICES ASSUME OffInit PROVE LineInv /\ CapInv
    OBVIOUS
  <2>1. line \in [Lanes -> Seq(Call)]
    BY EmptySeq DEF OffInit
  <2>2. \A l \in Lanes : turn[l].phase = "queued" /\ turn[l].cap = "off"
    BY DEF OffInit, At
  <2>. QED
    BY <2>1, <2>2 DEF OffInit, LineInv, CapInv
<1>2. HoldInv /\ LineInv /\ CapInv /\ [OffNext]_offVars => (LineInv /\ CapInv)'
  BY LineStepKept
<1>. QED
  BY <1>1, <1>2, HoldInvHolds, PTL DEF OffSpec

(* The deferral's data are what the code gives them: only a lane with calls *)
(* has one under way, only a wait is for devices, and every count is a      *)
(* number, however calls come, are cancelled, end or unload                 *)
(* (PARALLEL_UPDATES, _Turn, CommandBurst).                                 *)
THEOREM DeferralTypeCorrect == OffSpec => []OffTypeOK
<1>1. HoldInv /\ BurstInv /\ LineInv => OffTypeOK
  BY DEF HoldInv, BurstInv, LineInv, OffTypeOK
<1>. QED
  BY <1>1, HoldInvHolds, BurstInvUnderCalls, LineInvHolds, PTL

(* A wait that is let go stays as it was let go until its task goes on: no  *)
(* command, stop, removal or cap that comes in the same round of the loop   *)
(* changes whether the turn-off is sent (_async_end).                       *)
THEOREM FirstEndingDecides == OffSpec => FirstEndingStands
<1>1. HoldInv /\ LineInv /\ CapInv /\ [OffNext]_offVars =>
         [\A l \in Lanes : turn[l].phase = "ended" /\ turn'[l].phase = "ended"
                            => turn'[l] = turn[l]]_offVars
  BY LineStepKept
<1>. QED
  BY <1>1, HoldInvHolds, LineInvHolds, PTL DEF OffSpec, FirstEndingStands

=============================================================================
