--------------------------- MODULE MCPollHoldFair ---------------------------
(***************************************************************************)
(* PollHold with the fairness of the event loop: time passes, a cap that is *)
(* due fires, the lock passes on, a queued poll gets its place, and a read  *)
(* ends (its library call is bounded).  Of two timers that are due at once  *)
(* the cap goes first: the loop orders them by their times, and a hold-off  *)
(* or a tail that came due at the very moment of each cap, before it, every *)
(* time, is left out.  Nothing is assumed of the commands: they may start   *)
(* for ever, or run for ever.  The entries load before anything else.       *)
(***************************************************************************)
EXTENDS MCPollHold

CapDue == \E d \in Devices : poller[d].since = HoldMax

FairNext ==
    /\ PollNext
    /\ (\A d \in Devices : entry[d] = "loaded") \/ (\E d \in Devices : LoadEntry(d))
    /\ CapDue => ~EndBurst /\ ~(\E d \in Devices : EndHoldoff(d))

FairSpec ==
    /\ PollInit /\ [][FairNext]_pollVars
    /\ WF_pollVars(Advance)
    /\ \A d \in Polled :
          /\ WF_pollVars(CapReached(d))
          /\ WF_pollVars(StartManual(d)) /\ WF_pollVars(TakeLock(d))
          /\ \A kind \in Kinds : WF_pollVars(Place(d, kind) \/ EndRead(d, kind))

(* A poll held apart runs: however commands come and go, and however often  *)
(* it is held again, a poll counts for it in the end, because the cap keeps *)
(* counting from when it first came due.                                    *)
HeldPollRuns ==
    \A d \in Polled : poller[d].owed = "kept" ~> poller[d].owed # "kept"

=============================================================================
