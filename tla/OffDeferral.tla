----------------------------- MODULE OffDeferral -----------------------------
(***************************************************************************)
(* A turn-off of a device that said it is off lets the commands to other    *)
(* devices go first (deferral.py, class OffDeferral, as entity.py uses it), *)
(* with the tracker of commands that wakes it and that it counts at.        *)
(*                                                                          *)
(* A lane is one device's entity platform, as set up once: Home Assistant   *)
(* runs its calls one at a time, in the order they came (PARALLEL_UPDATES), *)
(* a waiting turn-off included.  A reload leaves the old lane's calls to go *)
(* on beside the new lane.  A device has its whole-device entity and zones. *)
(*                                                                          *)
(* Whether the device is known off, whether a zone's turn-off is redundant  *)
(* and whether a link is up are choices of the environment.                 *)
(***************************************************************************)
EXTENDS CommandBurst, Sequences

CONSTANTS
    Lanes,      \* the entity platforms
    DeviceOf,   \* the device of each
    MaxLine,    \* bound: each lane's calls under way or queued
    Calls,      \* bound: the kinds of call that come
    Unloading,  \* bound: the devices whose entries may unload
    MayStop     \* bound: whether Home Assistant may stop

VARIABLES
    lane,      \* the lane each device's entities take calls on
    line,      \* the calls of each lane, the first one under way
    turn,      \* how far the first one of each lane is
    offs,      \* _CONFIRMED_OFFS
    stopping   \* hass.is_stopping

offVars == <<burstVars, lane, line, turn, offs, stopping>>

(* To the whole-device entity, or to another of the device's: a zone's.     *)
Call == [zone : BOOLEAN, off : BOOLEAN]

(* The first call of a lane has yet to start; lets the calls started with   *)
(* it start; waits; is let go, to be sent or not; is sent as a command, as  *)
(* the turn-off of a device known off or not.                               *)
Phases == {"queued", "starting", "waiting", "ended", "sent", "sentOff"}
Sent == {"sent", "sentOff"}
Held == {"waiting", "ended"}
Turn ==
    [phase : Phases,
     for : SUBSET Devices,   \* waiting_for
     cap : Timers,           \* the timer of DEFER_OFF_MAX_SECONDS
     send : BOOLEAN]         \* whether it is to be sent, as far as decided

ASSUME DeferralAssumption ==
    /\ IsFiniteSet(Lanes) /\ DeviceOf \in [Lanes -> Devices]
    /\ MaxLine \in [Lanes -> Nat] /\ Calls \subseteq Call
    /\ Unloading \subseteq Devices /\ MayStop \in BOOLEAN

At(phase) == [phase |-> phase, for |-> {}, cap |-> "off", send |-> TRUE]
LanesOf(d) == {l \in Lanes : DeviceOf[l] = d}
OfZone(l) == Head(line[l]).zone

-----------------------------------------------------------------------------
(* The methods, as functions of the lanes' turns.                           *)

Others(run, off, d) == {e \in Devices : run[e] > 0} \ ({d} \cup off)

(* Mutant of Let: a later ending overrides an earlier one.                  *)
LetAgain(t, send) ==
    IF t.phase \in {"waiting", "ended"} THEN [At("ended") EXCEPT !.send = send] ELSE t

(* _async_end: a wait ends, unless it has.                                  *)
Let(t, send) == IF t.phase = "waiting" THEN [At("ended") EXCEPT !.send = send] ELSE t

(* Mutants of Notified: a waiting turn-off looks again for all the others;  *)
(* it isn't told.                                                           *)
NotifiedAfresh(turns, run, off) ==
    [l \in Lanes |->
       LET t == turns[l]
           left == Others(run, off, DeviceOf[l])
       IN  IF t.phase # "waiting" THEN t
           ELSE IF left = {} THEN Let(t, TRUE) ELSE [t EXCEPT !.for = left]]
NotNotified(turns, run, off) == turns

(* A command starts or ends: the devices that are done drop out of every    *)
(* wait, and a wait for none ends.                                          *)
Notified(turns, run, off) ==
    [l \in Lanes |->
       LET t == turns[l]
           left == t.for \cap Others(run, off, DeviceOf[l])
       IN  IF t.phase # "waiting" THEN t
           ELSE IF left = {} THEN Let(t, TRUE) ELSE [t EXCEPT !.for = left]]

(* async_hurry, at a call to an entity of d: any zone's waiting turn-off    *)
(* goes, the whole device's only at a call to the whole-device entity.      *)
Hurried(d, zone) ==
    [l \in Lanes |-> IF l = lane[d] /\ turn[l].phase = "waiting"
                        /\ (OfZone(l) \/ ~zone)
                     THEN Let(turn[l], TRUE) ELSE turn[l]]

(* async_drop of a lane's entities, as they are removed.                    *)
Dropped(t) == IF t.phase = "starting" THEN [t EXCEPT !.send = FALSE] ELSE Let(t, FALSE)

(* The lane's call leaves it.                                               *)
Leaves(l) == line' = [line EXCEPT ![l] = Tail(@)]

SameElse == UNCHANGED <<lane, stopping>>

-----------------------------------------------------------------------------
(* The calls.                                                               *)

(* A call to an entity of d: waiting turn-offs are hurried, and it queues.  *)
Request(d, call) ==
    LET l == lane[d]
    IN  /\ entry[d] = "loaded" /\ Len(line[l]) < MaxLine[l]
        /\ turn' = Hurried(d, call.zone)
        /\ line' = [line EXCEPT ![l] = Append(@, call)]
        /\ UNCHANGED <<burstVars, offs>> /\ SameElse

(* The call's command starts, in phase; the waits are notified.             *)
StartsSending(l, phase) ==
    /\ offs' = IF phase = "sentOff" THEN offs \cup {DeviceOf[l]} ELSE offs
    /\ turn' = Notified([turn EXCEPT ![l] = At(phase)], running', offs')
    /\ UNCHANGED line

(* Its turn comes.  Any command, and a turn-off of a device not known off,  *)
(* is sent; a redundant zone's turn-off isn't; others let their fellows     *)
(* start (_START_STEPS).                                                    *)
Begin(l) ==
    /\ turn[l].phase = "queued" /\ line[l] # <<>>
    /\ CommandStarts(DeviceOf[l]) /\ StartsSending(l, "sent")
    /\ SameElse
Skip(l) ==
    /\ turn[l].phase = "queued" /\ line[l] # <<>> /\ Head(line[l]) = [zone |-> TRUE, off |-> TRUE]
    /\ Leaves(l)
    /\ UNCHANGED <<burstVars, turn, offs>> /\ SameElse
LetOthersStart(l) ==
    /\ turn[l].phase = "queued" /\ line[l] # <<>> /\ Head(line[l]).off
    /\ turn' = [turn EXCEPT ![l] = At("starting")]
    /\ UNCHANGED <<burstVars, line, offs>> /\ SameElse

(* The call ends, with nothing sent of it after a wait.                     *)
Ends(l) ==
    /\ Leaves(l)
    /\ turn' = [turn EXCEPT ![l] = At("queued")]

(* A turn-off looks for the commands to wait for: dropped meanwhile, it     *)
(* ends; it goes at once if there are none, if Home Assistant is stopping   *)
(* or if its link is up; or it waits.                                       *)
NotSent(l) ==
    /\ turn[l].phase = "starting" /\ ~turn[l].send
    /\ Ends(l)
    /\ UNCHANGED <<burstVars, offs>> /\ SameElse
GoAtOnce(l) ==
    /\ turn[l].phase = "starting" /\ turn[l].send
    /\ CommandStarts(DeviceOf[l]) /\ StartsSending(l, "sentOff")
    /\ SameElse
SkipAtOnce(l) ==
    /\ turn[l].phase = "starting" /\ turn[l].send /\ OfZone(l)
    /\ Ends(l)
    /\ offs' = offs \ {DeviceOf[l]}
    /\ UNCHANGED burstVars /\ SameElse
Wait(l) ==
    LET met == Others(running, offs, DeviceOf[l])
    IN  /\ turn[l].phase = "starting" /\ turn[l].send
        /\ ~stopping /\ met # {}
        /\ OffWaits(DeviceOf[l])
        /\ turn' = [turn EXCEPT ![l] = [At("waiting") EXCEPT !.for = met, !.cap = "armed"]]
        /\ UNCHANGED <<line, offs>> /\ SameElse

(* The wait's task goes on once it has been let go: it no longer counts as  *)
(* waiting, and its command starts unless it is dropped or redundant.       *)
OffIsSent(d) ==
    /\ deferred' = [deferred EXCEPT ![d] = Fewer(@)]
    /\ running' = [running EXCEPT ![d] = @ + 1]
    /\ tail' = "off"
    /\ active' = \/ active /\ ~(Idle(running, deferred') /\ Loaded = {})
                 \/ Several(running', deferred')
    /\ UNCHANGED entry
Resume(l) ==
    /\ turn[l].phase = "ended" /\ turn[l].send
    /\ OffIsSent(DeviceOf[l]) /\ StartsSending(l, "sentOff")
    /\ SameElse
ResumeUnsent(l) ==
    /\ turn[l].phase = "ended"
    /\ ~turn[l].send \/ OfZone(l)
    /\ OffGoes(DeviceOf[l])
    /\ Ends(l)
    /\ offs' = IF turn[l].send THEN offs \ {DeviceOf[l]} ELSE offs
    /\ SameElse

(* Mutant of EndCommand: the waits aren't notified.                         *)
EndCommandUnheard(l) ==
    /\ turn[l].phase \in Sent
    /\ CommandEnds(DeviceOf[l])
    /\ Ends(l)
    /\ offs' = IF turn[l].phase = "sentOff" THEN offs \ {DeviceOf[l]} ELSE offs
    /\ SameElse

(* The command ends: the waits are notified, and only then the device stops *)
(* being a confirmed one.                                                   *)
EndCommand(l) ==
    /\ turn[l].phase \in Sent
    /\ CommandEnds(DeviceOf[l])
    /\ Leaves(l)
    /\ turn' = Notified([turn EXCEPT ![l] = At("queued")], running', offs)
    /\ offs' = IF turn[l].phase = "sentOff" THEN offs \ {DeviceOf[l]} ELSE offs
    /\ SameElse

(* Mutant of Cancel: what the wait counted stays counted.                   *)
CancelUncounted(l) ==
    /\ turn[l].phase \in {"starting", "waiting", "ended"}
    /\ Ends(l)
    /\ UNCHANGED <<burstVars, offs>> /\ SameElse

(* A call that waits is cancelled.  (A command cancelled ends.)             *)
Cancel(l) ==
    /\ \/ turn[l].phase = "starting" /\ UNCHANGED burstVars
       \/ turn[l].phase \in Held /\ OffGoes(DeviceOf[l])
    /\ Ends(l)
    /\ UNCHANGED offs /\ SameElse
(* Mutant of Withdraw: the first call goes though it is under way.          *)
WithdrawAny(l, i) ==
    /\ i \in 1..Len(line[l])
    /\ line' = [line EXCEPT ![l] = SubSeq(@, 1, i - 1) \o SubSeq(@, i + 1, Len(@))]
    /\ UNCHANGED <<burstVars, turn, offs>> /\ SameElse

(* A call that has yet to start is cancelled.                               *)
Withdraw(l, i) ==
    /\ i \in 1..Len(line[l]) /\ (i = 1 => turn[l].phase = "queued")
    /\ line' = [line EXCEPT ![l] = SubSeq(@, 1, i - 1) \o SubSeq(@, i + 1, Len(@))]
    /\ UNCHANGED <<burstVars, turn, offs>> /\ SameElse

-----------------------------------------------------------------------------
(* Time, Home Assistant's stop and the entries.                             *)

CapReached(l) ==
    /\ turn[l].phase = "waiting" /\ turn[l].cap = "due"
    /\ turn' = [turn EXCEPT ![l] = Let(@, TRUE)]
    /\ UNCHANGED <<burstVars, line, offs>> /\ SameElse

Advance ==
    /\ TailAdvances
    /\ turn' = [l \in Lanes |-> [turn[l] EXCEPT !.cap = IF @ = "armed" THEN "due" ELSE @]]
    /\ UNCHANGED <<running, deferred, active, entry, line, offs>> /\ SameElse

EndBurst == BurstEnds /\ UNCHANGED <<line, turn, offs>> /\ SameElse

Stop ==
    /\ MayStop /\ ~stopping
    /\ stopping' = TRUE
    /\ turn' = [l \in Lanes |-> Let(turn[l], FALSE)]
    /\ UNCHANGED <<burstVars, lane, line, offs>>

(* An entry unloads: its entities are removed first.  Set up again, its     *)
(* entities are new ones.                                                   *)
RemoveEntities(d) ==
    /\ d \in Unloading /\ StartUnload(d)
    /\ turn' = [turn EXCEPT ![lane[d]] = Dropped(@)]
    /\ UNCHANGED <<line, offs>> /\ SameElse
Unloaded(d) ==
    /\ ShutDown(d)
    /\ UNCHANGED <<line, turn, offs>> /\ SameElse
SetUpAgain(d) ==
    /\ ~stopping /\ SetUp(d)
    /\ UNCHANGED <<line, turn, offs>> /\ SameElse
AddEntities(d, l) ==
    /\ DeviceOf[l] = d /\ line[l] = <<>>
    /\ Load(d)
    /\ lane' = [lane EXCEPT ![d] = l]
    /\ UNCHANGED <<line, turn, offs, stopping>>

-----------------------------------------------------------------------------

(* Every entry is loaded, and nothing runs.                                 *)
OffInit ==
    /\ running = [d \in Devices |-> 0] /\ deferred = [d \in Devices |-> 0]
    /\ active = FALSE /\ tail = "off"
    /\ entry = [d \in Devices |-> "loaded"]
    /\ lane \in {f \in [Devices -> Lanes] : \A d \in Devices : DeviceOf[f[d]] = d}
    /\ line = [l \in Lanes |-> <<>>]
    /\ turn = [l \in Lanes |-> At("queued")]
    /\ offs = {}
    /\ stopping = FALSE

LaneSteps(l) ==
    \/ Begin(l) \/ Skip(l) \/ LetOthersStart(l)
    \/ NotSent(l) \/ GoAtOnce(l) \/ SkipAtOnce(l) \/ Wait(l)
    \/ Resume(l) \/ ResumeUnsent(l) \/ EndCommand(l)
    \/ Cancel(l) \/ CapReached(l)

OffNext ==
    \/ \E d \in Devices, call \in Calls : Request(d, call)
    \/ \E l \in Lanes : LaneSteps(l) \/ \E i \in 1..MaxLine[l] : Withdraw(l, i)
    \/ Advance \/ EndBurst \/ Stop
    \/ \E d \in Devices : \/ RemoveEntities(d) \/ Unloaded(d) \/ SetUpAgain(d)
                          \/ \E l \in Lanes : AddEntities(d, l)

OffSpec == OffInit /\ [][OffNext]_offVars

-----------------------------------------------------------------------------
(* The deferral's data have the types the code gives them; only the first   *)
(* call of a lane is under way, and only a wait is for devices.             *)
OffTypeOK ==
    /\ BurstTypeOK
    /\ lane \in [Devices -> Lanes]
    /\ line \in [Lanes -> Seq(Call)]
    /\ turn \in [Lanes -> Turn]
    /\ offs \subseteq Devices
    /\ stopping \in BOOLEAN
    /\ \A l \in Lanes : /\ turn[l].phase # "queued" => line[l] # <<>>
                        /\ turn[l].phase # "waiting" => turn[l].for = {}

Waiting == {l \in Lanes : turn[l].phase = "waiting"}

(* No lost wake-up: a turn-off that waits has a command to wait for, to     *)
(* another device and not a confirmed turn-off, whatever started, ended,    *)
(* was cancelled or unloaded since it looked.                               *)
HeldByRunning ==
    \A l \in Waiting :
        turn[l].for # {} /\ turn[l].for \subseteq Others(running, offs, DeviceOf[l])

InPhase(turns, phases, d) == {l \in LanesOf(d) : turns[l].phase \in phases}
Counts(count, phases) ==
    \A d \in Devices : count[d] = Cardinality(InPhase(turn, phases, d))

(* The tracker's counts come out: each device counts the commands its lanes *)
(* are sending and the turn-offs they hold, through every way a call ends.  *)
CountsCalls == Counts(running, Sent) /\ Counts(deferred, Held)

(* Polls are held as long as a turn-off waits, until its command starts:    *)
(* the commands it waits for may all have ended by then.                    *)
WaitHoldsPolls ==
    \A l \in Lanes : turn[l].phase \in Held => active /\ tail = "off"

(* Endings that meet in one round of the loop: the first one decides        *)
(* whether the turn-off is sent.                                            *)
FirstEndingStands ==
    [][\A l \in Lanes : turn[l].phase = "ended" /\ turn'[l].phase = "ended"
                            => turn'[l] = turn[l]]_offVars

(* The code does what the deferral promises of the turn-offs it holds.      *)
Promise == INSTANCE OffHold WITH
    busy <- {d \in Devices : running[d] > 0} \ offs,
    held <- [l \in Lanes |-> turn[l].for]
HoldsAsPromised == Promise!HoldSpec

=============================================================================
