---------------------------- MODULE MCOffDeferral ----------------------------
(***************************************************************************)
(* A ceiling light that may be reloaded (two lanes), a lamp and a plug,     *)
(* with the fairness of the event loop: a call's task goes on, and a        *)
(* command ends (COMMAND_TIMEOUT_SECONDS).                                  *)
(***************************************************************************)
EXTENDS OffDeferral

CONSTANTS ceiling, lamp, plug,              \* devices
          ceiling1, ceiling2, lamp1, plug1  \* lanes

McDeviceOf == [l \in Lanes |-> CASE l \in {ceiling1, ceiling2} -> ceiling
                                 [] l = lamp1 -> lamp [] OTHER -> plug]
McMaxLine == [l \in Lanes |-> IF l = ceiling1 THEN 2 ELSE 1]
On == [zone |-> FALSE, off |-> FALSE]
Off == [zone |-> FALSE, off |-> TRUE]
ZoneOff == [zone |-> TRUE, off |-> TRUE]
ZoneOn == [zone |-> TRUE, off |-> FALSE]
McCalls == {On, Off, ZoneOn, ZoneOff}

(* Every call that is under way ends, however the commands to other devices *)
(* follow on each other, and without its cap: no turn-off waits for another *)
(* that waits, nor for commands that keep coming.                           *)
FairOffSpec ==
    /\ OffSpec
    /\ \A l \in Lanes :
          /\ WF_offVars(NotSent(l) \/ GoAtOnce(l) \/ Wait(l))
          /\ WF_offVars(Resume(l) \/ ResumeUnsent(l))
          /\ WF_offVars(EndCommand(l))

EndsWithoutCap ==
    \A l \in Lanes : turn[l].phase # "queued" ~> turn[l].phase = "queued"

=============================================================================
