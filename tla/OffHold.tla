------------------------------- MODULE OffHold -------------------------------
(***************************************************************************)
(* What the deferral promises of a turn-off it holds (deferral.py, module   *)
(* doc): it is held only while other devices are busy that were busy as it  *)
(* started to wait, each no longer than it stays busy; it may go earlier.   *)
(***************************************************************************)
CONSTANTS
    Devices,   \* the devices
    Lanes,     \* where turn-offs are held, one at a time each
    DeviceOf   \* the device of each lane

VARIABLES
    busy,  \* the devices commands run to
    held   \* the devices each lane's turn-off waits for; none: it isn't held

holdVars == <<busy, held>>

HoldInit == busy = {} /\ held = [l \in Lanes |-> {}]

(* A device gets busy; or quiet, and nothing waits for it any more.         *)
Busy(d) ==
    /\ busy' = busy \cup {d}
    /\ UNCHANGED held
Quiet(d) ==
    /\ busy' = busy \ {d}
    /\ held' = [l \in Lanes |-> held[l] \ {d}]

(* A turn-off starts to wait for the others that are busy; some go.         *)
Hold(l) ==
    /\ held[l] = {}
    /\ held' = [held EXCEPT ![l] = busy \ {DeviceOf[l]}]
    /\ UNCHANGED busy
Go(ls) ==
    /\ held' = [l \in Lanes |-> IF l \in ls THEN {} ELSE held[l]]
    /\ UNCHANGED busy

HoldNext ==
    \/ \E d \in Devices : Busy(d) \/ Quiet(d)
    \/ \E l \in Lanes : Hold(l)
    \/ \E ls \in SUBSET Lanes : Go(ls)

HoldSpec == HoldInit /\ [][HoldNext]_holdVars

=============================================================================
