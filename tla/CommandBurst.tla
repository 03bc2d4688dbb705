---------------------------- MODULE CommandBurst ----------------------------
(***************************************************************************)
(* The domain-wide tracker of entity commands (coordinator.py, class        *)
(* CommandBurst): once commands, or turn-offs waiting in the deferral,      *)
(* involve two devices at once, a burst starts and every device's polls     *)
(* wait until a tail after the last of them.  The tracker is one object for *)
(* every entry; entries load and unload under it, and a command may outlive *)
(* the entry it was sent through.  Its command windows are a concern of     *)
(* their own, left to the module of the link's release.                     *)
(*                                                                          *)
(* A timer is off, armed, or due once time has passed (Advance).            *)
(***************************************************************************)
EXTENDS Integers, FiniteSets

CONSTANTS
    Devices,       \* the devices' addresses
    MaxCommands,   \* bound: commands running to one device at once
    MaxWaitingOffs \* bound: turn-offs of one device waiting in the deferral

VARIABLES
    running,   \* _running: the commands running to each device
    deferred,  \* _deferred: its turn-offs waiting in the deferral
    active,    \* whether a burst goes on
    tail,      \* _unsub_end, the timer that ends it
    entry      \* the state Home Assistant has each device's entry in

burstVars == <<running, deferred, active, tail, entry>>

Timers == {"off", "armed", "due"}

(* An entry is set up, loaded, unloaded; "failed" is one that didn't unload *)
(* and stays so.                                                            *)
EntryStates == {"gone", "setup", "loaded", "unloading", "failed"}

ASSUME DevicesAssumption ==
    IsFiniteSet(Devices) /\ MaxCommands \in Nat /\ MaxWaitingOffs \in Nat

(* The entries async_loaded_entries returns, and whether the coordinator of *)
(* an entry is not shut down.                                               *)
Loaded == {d \in Devices : entry[d] = "loaded"}
Alive(d) == entry[d] # "gone"

-----------------------------------------------------------------------------
(* The tracker's methods, as its callers use them.                          *)

Involved(run, offs) == {d \in Devices : run[d] > 0 \/ offs[d] > 0}
Idle(run, offs) == Involved(run, offs) = {}
Several(run, offs) == \E d, e \in Involved(run, offs) : d # e

(* One less of a count; an end that had no start leaves it at zero.         *)
Fewer(n) == IF n > 1 THEN n - 1 ELSE 0

(* Mutant of BurstGrows: the tail goes on.                                  *)
BurstGrowsInTail(run, offs) ==
    /\ active' = (active \/ Several(run, offs))
    /\ UNCHANGED tail

(* Something starts: the tail is dropped, and a burst starts with a second  *)
(* device.                                                                  *)
BurstGrows(run, offs) ==
    /\ tail' = "off"
    /\ active' = (active \/ Several(run, offs))

(* Something ends: the last of a burst starts the tail, or ends the burst   *)
(* at once if no entry is loaded.                                           *)
BurstShrinks(run, offs) ==
    IF ~active \/ ~Idle(run, offs) THEN UNCHANGED <<active, tail>>
    ELSE IF Loaded = {} THEN tail' = "off" /\ active' = FALSE
    ELSE tail' = "armed" /\ UNCHANGED active

CommandStarts(d) ==
    /\ running' = [running EXCEPT ![d] = @ + 1]
    /\ BurstGrows(running', deferred)
    /\ UNCHANGED <<deferred, entry>>
CommandEnds(d) ==
    /\ running' = [running EXCEPT ![d] = Fewer(@)]
    /\ BurstShrinks(running', deferred)
    /\ UNCHANGED <<deferred, entry>>

(* Mutant of OffWaits: a waiting turn-off doesn't start a burst.            *)
OffWaitsQuietly(d) ==
    /\ deferred[d] < MaxWaitingOffs
    /\ \E e \in Devices \ {d} : running[e] > 0
    /\ deferred' = [deferred EXCEPT ![d] = @ + 1]
    /\ UNCHANGED <<running, active, tail, entry>>

(* A turn-off waits while commands run to other devices.                    *)
OffWaits(d) ==
    /\ deferred[d] < MaxWaitingOffs
    /\ \E e \in Devices \ {d} : running[e] > 0
    /\ deferred' = [deferred EXCEPT ![d] = @ + 1]
    /\ BurstGrows(running, deferred')
    /\ UNCHANGED <<running, entry>>
(* Mutant of OffGoes: only a command's end starts the tail.                 *)
OffGoesSilently(d) ==
    /\ deferred[d] > 0
    /\ deferred' = [deferred EXCEPT ![d] = Fewer(@)]
    /\ UNCHANGED <<running, active, tail, entry>>

OffGoes(d) ==
    /\ deferred[d] > 0
    /\ deferred' = [deferred EXCEPT ![d] = Fewer(@)]
    /\ BurstShrinks(running, deferred')
    /\ UNCHANGED <<running, entry>>

(* The tail fires.                                                          *)
BurstEnds ==
    /\ tail = "due"
    /\ tail' = "off" /\ active' = FALSE
    /\ UNCHANGED <<running, deferred, entry>>

(* Mutant of UnloadNoted: the burst is left to its tail.                    *)
UnloadUnnoted == UNCHANGED <<active, tail>>

(* An entry's coordinator shuts down: with no entry loaded there is nothing *)
(* left to hold, unless commands still run.                                 *)
UnloadNoted ==
    IF Loaded # {} THEN UNCHANGED <<active, tail>>
    ELSE tail' = "off" /\ active' = (active /\ ~Idle(running, deferred))

(* Home Assistant sets the entry up, loads it, unloads it or fails to.      *)
EntryBecomes(d, state) == entry' = [entry EXCEPT ![d] = state]
SetUp(d) ==
    /\ entry[d] = "gone" /\ EntryBecomes(d, "setup")
    /\ UNCHANGED <<running, deferred, active, tail>>
Load(d) ==
    /\ entry[d] = "setup" /\ EntryBecomes(d, "loaded")
    /\ UNCHANGED <<running, deferred, active, tail>>
StartUnload(d) ==
    /\ entry[d] = "loaded" /\ EntryBecomes(d, "unloading")
    /\ UNCHANGED <<running, deferred, active, tail>>
FailUnload(d) ==
    /\ entry[d] = "unloading" /\ EntryBecomes(d, "failed")
    /\ UNCHANGED <<running, deferred, active, tail>>
(* The unload succeeds, or the setup fails.                                 *)
ShutDown(d) ==
    /\ entry[d] \in {"unloading", "setup"} /\ EntryBecomes(d, "gone")
    /\ UnloadNoted
    /\ UNCHANGED <<running, deferred>>

TailAdvances == tail' = IF tail = "armed" THEN "due" ELSE tail

-----------------------------------------------------------------------------
(* The tracker on its own, called in any order its callers can call it in.  *)

BurstInit ==
    /\ running = [d \in Devices |-> 0]
    /\ deferred = [d \in Devices |-> 0]
    /\ active = FALSE
    /\ tail = "off"
    /\ entry = [d \in Devices |-> "setup"]

BurstNext ==
    \/ \E d \in Devices :
          \/ running[d] < MaxCommands /\ CommandStarts(d)
          \/ CommandEnds(d)
          \/ OffWaits(d) \/ OffGoes(d)
          \/ SetUp(d) \/ Load(d) \/ StartUnload(d) \/ FailUnload(d) \/ ShutDown(d)
    \/ BurstEnds
    \/ TailAdvances /\ UNCHANGED <<running, deferred, active, entry>>

BurstSpec == BurstInit /\ [][BurstNext]_burstVars

-----------------------------------------------------------------------------
(* The tracker's data have the types the code gives them.                   *)
BurstTypeOK ==
    /\ running \in [Devices -> Nat]
    /\ deferred \in [Devices -> Nat]
    /\ active \in BOOLEAN
    /\ tail \in Timers
    /\ entry \in [Devices -> EntryStates]

(* No burst goes on for ever: with no command or waiting turn-off left, its *)
(* tail runs, whichever ended last, and whatever loaded or unloaded.        *)
ActiveEnds == active => ~Idle(running, deferred) \/ tail # "off"

(* No burst is ended under its commands: while two devices are involved the *)
(* polls of every device are held, however many tails were started and      *)
(* dropped; and a tail never runs beside a command.                         *)
SeveralHold ==
    /\ Several(running, deferred) => active
    /\ tail # "off" => active /\ Idle(running, deferred)

(* No tail outlives the integration: none is armed once every entry is      *)
(* gone, commands that outlive their entries included.                      *)
TailNeedsEntry == (\A d \in Devices : ~Alive(d)) => tail = "off"

=============================================================================
