------------------------------ MODULE PollHold ------------------------------
(***************************************************************************)
(* How commands hold background polls off (coordinator.py, the polling half *)
(* of GoveeBleLocalCoordinator) with the domain-wide CommandBurst: a poll   *)
(* that comes due while commands run, or shortly after, waits for the       *)
(* hold-off; it is released by whichever of the hold-off and the burst ends *)
(* last, or by a cap; and it is held again if commands start while it waits *)
(* for its place.                                                           *)
(*                                                                          *)
(* A poller is the state of one device's coordinator.  Home Assistant's     *)
(* base class (the poll timer, the refresh lock, the debouncer of manual    *)
(* refreshes) is modelled as this code uses it.  What a poll waits for (the *)
(* two poll places, the connect gate) and what its read gives are choices   *)
(* of the environment; so are the policy's steps between polls.             *)
(*                                                                          *)
(* The hold-off and the tail last one unit of time, the cap HoldMax units.  *)
(***************************************************************************)
EXTENDS CommandBurst

CONSTANTS
    HoldMax,    \* POLL_HOLDOFF_MAX_SECONDS, in units of the hold-off
    Polled,     \* bound: the devices whose polls come due
    Asked,      \* bound: the devices a manual refresh is asked of
    Unloading,  \* bound: the devices whose entries may unload
    MayStop,    \* bound: whether Home Assistant may stop
    NoHold, NoTask

VARIABLES
    poller,  \* each device's coordinator
    stage    \* whether Home Assistant runs, is stopping, or has closed

pollVars == <<burstVars, poller, stage>>

NotHeld == -1   \* no cap is armed; a poll never held

(* A poll's hold: whether it is held apart, and for how long it has waited. *)
Hold == [apart : BOOLEAN, since : 0..HoldMax \cup {NotHeld}]

(* The tasks that may refresh a device: the first poll (async_refresh, no   *)
(* lock), a scheduled or released poll and a manual refresh (under Home     *)
(* Assistant's refresh lock).  A task waits for the lock, or holds it and   *)
(* has yet to read ("holding"), or waits for its place, or reads.           *)
Kinds == {"first", "background", "manual"}
Task == [phase : {"locked", "holding", "queued", "reading"}, hold : Hold \cup {NoHold}]

Poller ==
    [commands : Nat,                     \* _commands_running
     holdoff : Timers,                   \* _unsub_holdoff_end
     waiting : BOOLEAN,                  \* _poll_waiting
     first : BOOLEAN,                    \* _first_poll_waiting
     since : 0..HoldMax \cup {NotHeld},  \* _unsub_holdoff_cap with _holdoff_since
     timers : Nat,                       \* Home Assistant's live poll timers
     timerSet : BOOLEAN,                 \* _unsub_refresh, the one it can cancel
     polled : BOOLEAN,                   \* update_interval is not None
     halted : BOOLEAN,                   \* _auth_failed
     absent : BOOLEAN,                   \* _skipped_absent
     running : BOOLEAN,                  \* _poll_running
     task : [Kinds -> Task \cup {NoTask}],
     firstDue : BOOLEAN,                 \* the staggered first poll is to come
     owed : {"no", "kept", "joined"}]    \* history: a poll to run once whatever
                                         \* happens; joined: to a running one

ASSUME PollAssumption ==
    /\ HoldMax \in Nat \ {0}
    /\ Polled \subseteq Devices /\ Asked \subseteq Devices /\ Unloading \subseteq Devices
    /\ MayStop \in BOOLEAN
    /\ NoHold \notin Hold /\ NoTask \notin Task

Longer(m, n) == IF m > n THEN m ELSE n

Held(p) == p.waiting \/ p.first
HoldingOff(p, burst) == p.commands > 0 \/ p.holdoff # "off" \/ burst
LockHeld(p) == p.task["manual"] # NoTask

-----------------------------------------------------------------------------
(* The methods, as functions of the poller.                                 *)

(* Mutant of Cancelled: it cancels a timer that has fired once more.        *)
CancelledAgain(p) == [p EXCEPT !.timers = @ - 1, !.timerSet = FALSE]

(* Home Assistant cancels its timer; this class also drops a held scheduled *)
(* poll (_async_unsub_refresh).                                             *)
Cancelled(p) ==
    [p EXCEPT !.timers = IF p.timerSet THEN @ - 1 ELSE @, !.timerSet = FALSE]
(* Mutant of Unsubscribed: the cap of a poll held apart goes too.           *)
UnsubscribedWithCap(p) == [Cancelled(p) EXCEPT !.waiting = FALSE, !.since = NotHeld]
Unsubscribed(p) ==
    [Cancelled(p) EXCEPT !.waiting = FALSE, !.since = IF p.first THEN @ ELSE NotHeld]
Rearmed(p) ==
    IF p.polled THEN [Unsubscribed(p) EXCEPT !.timers = @ + 1, !.timerSet = TRUE] ELSE p

HoldPoll(p, apart, since) ==
    [p EXCEPT !.first = @ \/ apart, !.waiting = @ \/ ~apart,
              !.since = IF @ = NotHeld THEN since ELSE @]
DropHeld(p) == [p EXCEPT !.waiting = FALSE, !.first = FALSE, !.since = NotHeld]

(* The policy steps as a poll ends, to a step with background polls or      *)
(* without.                                                                 *)
Policies(p) == {[p EXCEPT !.polled = TRUE], [Unsubscribed(p) EXCEPT !.polled = FALSE]}

(* Mutants of Ended: the poll held again forgets one held apart meanwhile;  *)
(* its cap starts over.                                                     *)
EndedForgettingFirst(d, p, kind, again, arms) ==
    LET idle == DropHeld([p EXCEPT !.running = FALSE, !.task = [@ EXCEPT ![kind] = NoTask]])
        armed == IF arms /\ Alive(d) /\ stage # "stopping" THEN Rearmed(idle) ELSE idle
    IN  IF again = NoHold THEN [armed EXCEPT !.owed = "no"]
        ELSE HoldPoll(armed, again.apart, Longer(again.since, p.since))
EndedWithNewCap(d, p, kind, again, arms) ==
    LET idle == DropHeld([p EXCEPT !.running = FALSE, !.task = [@ EXCEPT ![kind] = NoTask]])
        armed == IF arms /\ Alive(d) /\ stage # "stopping" THEN Rearmed(idle) ELSE idle
    IN  IF again = NoHold THEN [armed EXCEPT !.owed = "no"]
        ELSE HoldPoll(armed, again.apart \/ p.first, 0)

(* A poll ends: it uses up the held polls, the timer is re-armed, and one   *)
(* that read nothing for commands (its hold: again) is held once more.      *)
Ended(d, p, kind, again, arms) ==
    LET idle == DropHeld([p EXCEPT !.running = FALSE, !.task = [@ EXCEPT ![kind] = NoTask]])
        armed == IF arms /\ Alive(d) /\ stage # "stopping" THEN Rearmed(idle) ELSE idle
    IN  IF again = NoHold THEN [armed EXCEPT !.owed = "no"]
        ELSE HoldPoll(armed, again.apart \/ p.first, Longer(again.since, p.since))

(* No scanner sees the device and no link is held: the poll is skipped.     *)
Skipped(d, p, kind) ==
    {Ended(d, q, kind, NoHold, TRUE) : q \in Policies([p EXCEPT !.absent = TRUE])}

(* Home Assistant's refresh starts, and with it _async_update_data, unless  *)
(* it refuses: the coordinator is shut down, or is stopping and this is a   *)
(* scheduled one.                                                           *)
Refreshed(d, p, kind, hold) ==
    IF ~Alive(d) \/ (kind = "background" /\ stage = "stopping")
    THEN {[Unsubscribed(p) EXCEPT !.task = [@ EXCEPT ![kind] = NoTask]]}
    ELSE LET counted == IF hold = NoHold THEN NoHold
                        ELSE [hold EXCEPT !.since = Longer(@, 0)]
             begun == [Unsubscribed(p) EXCEPT
                          !.running = TRUE, !.halted = FALSE,
                          !.task = [@ EXCEPT ![kind] = [phase |-> "queued", hold |-> counted]]]
         IN  {begun} \cup Skipped(d, begun, kind)

(* A background poll starts, in the place of the timer that fired.  Bound:  *)
(* not while another one waits for the lock.                                *)
Background(d, p, hold) ==
    LET fired == [p EXCEPT !.timerSet = FALSE]
    IN  IF p.task["background"] # NoTask THEN {}
        ELSE IF LockHeld(p)
        THEN {[fired EXCEPT !.task = [@ EXCEPT !["background"] =
                                         [phase |-> "locked", hold |-> hold]]]}
        ELSE Refreshed(d, fired, "background", hold)

(* Mutant of ReleasePoll: a poll is released whatever Home Assistant's      *)
(* stage.                                                                   *)
ReleasePollAnyStage(d, p, hold) == Background(d, Cancelled(DropHeld(p)), hold)

(* _async_release_poll, and _async_release_held_poll with its conditions.   *)
ReleasePoll(d, p, hold) ==
    IF stage # "running" THEN {DropHeld(p)} ELSE Background(d, Cancelled(DropHeld(p)), hold)
ReleaseHeld(d, p, burst) ==
    IF Held(p) /\ ~p.running /\ ~HoldingOff(p, burst)
    THEN ReleasePoll(d, p, [apart |-> p.first, since |-> p.since])
    ELSE {p}

(* _async_request_poll: a one-off poll, at once or held.                    *)
RequestPoll(d, p, keep) ==
    IF HoldingOff(p, active) \/ p.running THEN {HoldPoll(p, keep, 0)}
    ELSE ReleasePoll(d, p, [apart |-> keep, since |-> p.since])

-----------------------------------------------------------------------------
(* Commands.                                                                *)

Becomes(d, pollers) ==
    /\ \E p \in pollers : poller' = [poller EXCEPT ![d] = p]
    /\ UNCHANGED stage
SameBurst == UNCHANGED burstVars

StartCommand(d) ==
    /\ running[d] < MaxCommands
    /\ CommandStarts(d)
    /\ Becomes(d, {[poller[d] EXCEPT !.commands = @ + 1, !.holdoff = "off"]})

(* Mutant of FinishCommand: an unloaded entry's hold-off starts too.        *)
FinishCommandUnloaded(d) ==
    /\ poller[d].commands > 0
    /\ CommandEnds(d)
    /\ Becomes(d, {[poller[d] EXCEPT !.commands = @ - 1, !.holdoff = "armed"]})

(* A command of this entry ends.  The hold-off starts with the last one,    *)
(* unless the entry has unloaded.                                           *)
FinishCommand(d) ==
    /\ poller[d].commands > 0
    /\ CommandEnds(d)
    /\ LET p == [poller[d] EXCEPT !.commands = @ - 1]
       IN  Becomes(d, {IF p.commands > 0 \/ ~Alive(d) THEN p
                       ELSE [p EXCEPT !.holdoff = "armed"]})

(* A command sent through an entry set up again since ends.                 *)
FinishOrphan(d) ==
    /\ running[d] > poller[d].commands
    /\ CommandEnds(d)
    /\ UNCHANGED <<poller, stage>>

WaitOff(d) == OffWaits(d) /\ UNCHANGED <<poller, stage>>
GoOff(d) == OffGoes(d) /\ UNCHANGED <<poller, stage>>

-----------------------------------------------------------------------------
(* The timers.                                                              *)

EndHoldoff(d) ==
    /\ poller[d].holdoff = "due"
    /\ SameBurst
    /\ Becomes(d, ReleaseHeld(d, [poller[d] EXCEPT !.holdoff = "off"], active))

(* Mutant of EndBurst: the held polls are left to the hold-off.             *)
EndBurstOnly == BurstEnds /\ UNCHANGED <<poller, stage>>

(* The burst's tail fires: each loaded entry's held poll is released.       *)
EndBurst ==
    LET After(d) == IF d \in Loaded THEN ReleaseHeld(d, poller[d], FALSE) ELSE {poller[d]}
    IN  /\ BurstEnds
        /\ \E next \in [Devices -> UNION {After(d) : d \in Devices}] :
              (\A d \in Devices : next[d] \in After(d)) /\ poller' = next
        /\ UNCHANGED stage

CapReached(d) ==
    /\ poller[d].since = HoldMax
    /\ SameBurst
    /\ LET p == [poller[d] EXCEPT !.since = NotHeld]
       IN  Becomes(d, IF Held(p) /\ ~p.running THEN ReleasePoll(d, p, NoHold) ELSE {p})

(* Home Assistant's poll timer fires, later than the first poll (its        *)
(* stagger is shorter than the interval).  Nothing disarms it at the stop,  *)
(* and no stop is looked for here.                                          *)
TimerFires(d) ==
    /\ d \in Polled /\ poller[d].timers > 0 /\ ~poller[d].firstDue
    /\ SameBurst
    /\ LET p == [poller[d] EXCEPT !.timers = @ - 1]
           forgotten == [p EXCEPT !.timerSet = FALSE]
       IN  Becomes(d, IF p.running THEN {forgotten}
                      ELSE IF HoldingOff(p, active) THEN {HoldPoll(forgotten, FALSE, 0)}
                      ELSE Background(d, p, [apart |-> FALSE, since |-> NotHeld]))

(* A unit of time passes, once every cap that is due has fired.             *)
Aged(n) == IF n \in 0..(HoldMax - 1) THEN n + 1 ELSE n
AgedTask(t) == IF t = NoTask \/ t.hold = NoHold THEN t
               ELSE [t EXCEPT !.hold.since = Aged(@)]
Advance ==
    /\ \A d \in Devices : poller[d].since # HoldMax
    /\ TailAdvances
    /\ poller' = [d \in Devices |->
          [poller[d] EXCEPT
              !.holdoff = IF @ = "armed" THEN "due" ELSE @,
              !.since = Aged(@),
              !.task = [k \in Kinds |-> AgedTask(@[k])]]]
    /\ UNCHANGED <<running, deferred, active, entry, stage>>

-----------------------------------------------------------------------------
(* The polls.                                                               *)

(* The staggered first poll comes due (async_background_poll).              *)
FirstPoll(d) ==
    /\ d \in Polled /\ poller[d].firstDue
    /\ SameBurst
    /\ LET p == [poller[d] EXCEPT !.firstDue = FALSE, !.owed = "kept"]
       IN  Becomes(d, IF p.running THEN {[p EXCEPT !.owed = "joined"]}
                      ELSE IF HoldingOff(p, active) THEN {HoldPoll(p, TRUE, 0)}
                      ELSE Refreshed(d, p, "first", [apart |-> TRUE, since |-> NotHeld]))

(* The device is heard again after a skipped poll.                          *)
ReturnPoll(d) ==
    /\ Alive(d) /\ poller[d].absent
    /\ SameBurst
    /\ Becomes(d, RequestPoll(d, [poller[d] EXCEPT !.absent = FALSE, !.owed = "kept"], TRUE))

(* The poll after an advertised turn-on comes due.                          *)
FlipPoll(d) ==
    /\ d \in Polled /\ Alive(d) /\ stage = "running"
    /\ poller[d].polled /\ ~poller[d].halted
    /\ SameBurst
    /\ Becomes(d, RequestPoll(d, poller[d], FALSE))

(* A manual refresh: the debouncer drops it unless it gets the lock, and    *)
(* reads a moment later.                                                    *)
AskManual(d) ==
    /\ d \in Asked /\ Alive(d)
    /\ poller[d].task["manual"] = NoTask /\ poller[d].task["background"] = NoTask
    /\ SameBurst
    /\ Becomes(d, {[poller[d] EXCEPT !.task =
                       [@ EXCEPT !["manual"] = [phase |-> "holding", hold |-> NoHold]]]})
StartManual(d) ==
    /\ poller[d].task["manual"] # NoTask /\ poller[d].task["manual"].phase = "holding"
    /\ SameBurst
    /\ Becomes(d, Refreshed(d, poller[d], "manual", NoHold))

(* The background poll that waited for the lock gets it.                    *)
TakeLock(d) ==
    /\ poller[d].task["background"] # NoTask
    /\ poller[d].task["background"].phase = "locked" /\ ~LockHeld(poller[d])
    /\ SameBurst
    /\ Becomes(d, Refreshed(d, poller[d], "background", poller[d].task["background"].hold))

(* Its read begins.                                                         *)
Reading(p, kind) ==
    LET t == p.task[kind]
    IN  [p EXCEPT !.task = [@ EXCEPT ![kind] = [t EXCEPT !.phase = "reading"]]]

(* Mutant of Placed: commands that started meanwhile are not looked for.    *)
PlacedUnderCommands(d, kind) == {Reading(poller[d], kind)}

(* A poll has its place.  If the gate let it go as its entry unloads it     *)
(* reads nothing; if commands hold polls off by now it is held again.       *)
Placed(d, kind) ==
    LET p == poller[d]
        hold == p.task[kind].hold
    IN  (IF entry[d] = "unloading" \/ stage # "running"
         THEN {Ended(d, p, kind, NoHold, TRUE)} ELSE {})
        \cup
        (IF hold # NoHold /\ HoldingOff(p, active) THEN {Ended(d, p, kind, hold, TRUE)}
         ELSE Skipped(d, p, kind) \cup {Reading(p, kind)})
Place(d, kind) ==
    /\ poller[d].task[kind] # NoTask /\ poller[d].task[kind].phase = "queued"
    /\ SameBurst
    /\ Becomes(d, Placed(d, kind))

(* The read succeeds, fails (its device absent or not), or the secret is    *)
(* rejected: then Home Assistant re-arms nothing.                           *)
EndRead(d, kind) ==
    /\ poller[d].task[kind] # NoTask /\ poller[d].task[kind].phase = "reading"
    /\ SameBurst
    /\ Becomes(d,
          {Ended(d, q, kind, NoHold, TRUE) :
              q \in UNION {Policies([poller[d] EXCEPT !.absent = absent]) :
                              absent \in {FALSE, TRUE, poller[d].absent}}}
          \cup {Ended(d, [poller[d] EXCEPT !.halted = TRUE], kind, NoHold, FALSE)})

(* Between polls the policy stops background polls, or re-arms them.        *)
StopPolls(d) ==
    /\ d \in Polled /\ Alive(d) /\ poller[d].polled
    /\ SameBurst
    /\ Becomes(d, {[Unsubscribed(poller[d]) EXCEPT !.polled = FALSE]})
RearmPolls(d) ==
    /\ d \in Polled /\ Alive(d)
    /\ SameBurst
    /\ LET p == [poller[d] EXCEPT !.polled = TRUE]
       IN  Becomes(d, {IF p.halted THEN p ELSE Rearmed(p)})

-----------------------------------------------------------------------------
(* The entries, and Home Assistant's stop.                                  *)

NewPoller ==
    [commands |-> 0, holdoff |-> "off", waiting |-> FALSE, first |-> FALSE,
     since |-> NotHeld, timers |-> 1, timerSet |-> TRUE, polled |-> TRUE,
     halted |-> FALSE, absent |-> FALSE, running |-> FALSE,
     task |-> [k \in Kinds |-> NoTask], firstDue |-> TRUE, owed |-> "no"]

(* An entry is set up again once its last manual refresh has ended, and not *)
(* once Home Assistant stops.                                               *)
SetUpEntry(d) ==
    /\ SetUp(d) /\ stage = "running"
    /\ poller[d].task["manual"] = NoTask
    /\ Becomes(d, {NewPoller})
LoadEntry(d) == Load(d) /\ UNCHANGED <<poller, stage>>
StartUnloadEntry(d) == d \in Unloading /\ StartUnload(d) /\ UNCHANGED <<poller, stage>>
FailUnloadEntry(d) == FailUnload(d) /\ UNCHANGED <<poller, stage>>

(* Home Assistant cancels the background tasks; a manual refresh goes on.   *)
TasksCancelled(p) ==
    [p EXCEPT !.running = FALSE, !.firstDue = FALSE,
              !.task = [k \in Kinds |-> IF k = "manual" THEN @[k] ELSE NoTask]]

(* async_shutdown of the coordinator, then the background tasks.            *)
ShutDownEntry(d) ==
    /\ d \in Unloading /\ ShutDown(d)
    /\ Becomes(d, {[TasksCancelled(Cancelled(DropHeld(poller[d]))) EXCEPT
                       !.holdoff = "off", !.owed = "no"]})

(* The stop event, after Home Assistant cancelled the background tasks; and *)
(* its close stage, in which it refuses nothing.                            *)
PollInProgress(p) ==
    \E k \in {"first", "background"} :
        p.task[k] # NoTask /\ p.task[k].phase \in {"queued", "reading"}
Stop ==
    /\ MayStop /\ stage = "running" /\ stage' = "stopping"
    /\ poller' = [d \in Devices |->
          IF PollInProgress(poller[d]) THEN TasksCancelled(DropHeld(poller[d]))
          ELSE [TasksCancelled(poller[d]) EXCEPT !.running = poller[d].running]]
    /\ SameBurst
Close ==
    /\ stage = "stopping" /\ stage' = "closed"
    /\ UNCHANGED <<burstVars, poller>>

-----------------------------------------------------------------------------

PollInit ==
    /\ BurstInit
    /\ poller = [d \in Devices |-> NewPoller]
    /\ stage = "running"

PollNext ==
    \/ \E d \in Devices :
          \/ StartCommand(d) \/ FinishCommand(d) \/ FinishOrphan(d)
          \/ WaitOff(d) \/ GoOff(d)
          \/ EndHoldoff(d) \/ CapReached(d) \/ TimerFires(d)
          \/ FirstPoll(d) \/ ReturnPoll(d) \/ FlipPoll(d)
          \/ AskManual(d) \/ StartManual(d) \/ TakeLock(d)
          \/ StopPolls(d) \/ RearmPolls(d)
          \/ SetUpEntry(d) \/ LoadEntry(d) \/ StartUnloadEntry(d)
          \/ FailUnloadEntry(d) \/ ShutDownEntry(d)
          \/ \E kind \in Kinds : Place(d, kind) \/ EndRead(d, kind)
    \/ EndBurst \/ Advance \/ Stop \/ Close

PollSpec == PollInit /\ [][PollNext]_pollVars

-----------------------------------------------------------------------------
(* The coordinators' data have the types the code gives them.               *)
PollTypeOK ==
    /\ BurstTypeOK
    /\ poller \in [Devices -> Poller]
    /\ stage \in {"running", "stopping", "closed"}

(* A held poll always has its cap running, unless a poll runs that uses it  *)
(* up, so it can't wait for ever whatever commands do; and no cap runs for  *)
(* a poll no longer held.                                                   *)
CapWhileHeld ==
    \A d \in Devices :
        /\ Held(poller[d]) /\ ~poller[d].running => poller[d].since # NotHeld
        /\ poller[d].since # NotHeld => Held(poller[d])

(* A device never has a second poll timer, nor one Home Assistant can no    *)
(* longer cancel (it would poll for good); and no timer outlives the entry. *)
TimersOwned ==
    \A d \in Devices :
        /\ poller[d].timers = IF poller[d].timerSet THEN 1 ELSE 0
        /\ ~Alive(d) => /\ poller[d].timers = 0 /\ poller[d].holdoff = "off"
                        /\ poller[d].since = NotHeld

(* A poll held apart (the first one, a return poll) is not lost to a policy *)
(* step, a re-arm, or another poll that is held again: it stays held apart  *)
(* until nothing is held in its place and a poll runs or has just counted.  *)
UnderWay(p) == \E k \in Kinds : p.task[k] # NoTask
HeldApartStays ==
    [][\A d \in Devices :
          /\ poller[d].first /\ ~poller'[d].first
          /\ Alive(d)' /\ stage' = "running"
          => /\ ~Held(poller'[d])
             /\ UnderWay(poller'[d]) \/ poller'[d].owed = "no"]_pollVars

(* The first poll "always runs once, even if polls stop meanwhile"; one     *)
(* that "is running now" as it comes due counts for it (coordinator.py,     *)
(* async_background_poll).  That poll may be held again, not apart, and     *)
(* then be dropped.                                                         *)
FirstPollRuns ==
    \A d \in Devices :
        poller[d].owed # "no" /\ stage = "running" =>
            Held(poller[d]) \/ UnderWay(poller[d])

(* Between the moment a background poll comes due and its read, commands    *)
(* may start anywhere: it never takes a connection slot from them, unless   *)
(* the cap released it.                                                     *)
NoPollUnderCommands ==
    [][\A d \in Devices, k \in {"first", "background"} :
          /\ poller'[d].task[k] # NoTask /\ poller'[d].task[k].phase = "reading"
          /\ poller[d].task[k] # NoTask /\ poller[d].task[k].phase = "queued"
          /\ poller[d].task[k].hold # NoHold
          => ~HoldingOff(poller[d], active)]_pollVars

(* Whichever ends last, the hold-off or the burst, releases the held poll   *)
(* of a loaded entry: none is left waiting with nothing to wait for.        *)
ReleasedAtOnce ==
    [][\A d \in Loaded :
          /\ Held(poller[d]) /\ ~poller[d].running /\ HoldingOff(poller[d], active)
          /\ ~HoldingOff(poller'[d], active')
          => ~Held(poller'[d])]_pollVars

Begins(d, kind) ==
    /\ poller'[d].task[kind] # NoTask /\ poller'[d].task[kind].phase = "queued"
    /\ poller[d].task[kind] = NoTask \/ poller[d].task[kind].phase # "queued"

Starts(d, kind) == poller[d].task[kind] = NoTask /\ poller'[d].task[kind] # NoTask

(* Once Home Assistant stops, the code releases no poll: neither the end of *)
(* a hold-off or of a burst, nor the cap, nor a device heard again opens    *)
(* the link the stop listener closed (async_note_ha_stopping).  A poll can  *)
(* only come of Home Assistant's own timer, which nothing disarms, and only *)
(* in the close stage, where Home Assistant refuses none.                   *)
NoReleaseOnceStopping ==
    [][stage # "running" =>
          \A d \in Devices :
             /\ ~Starts(d, "first")
             /\ Starts(d, "background") => TimerFires(d)
             /\ Begins(d, "background") => stage = "closed"]_pollVars

=============================================================================
