------------------------- MODULE MCConnectGateFair -------------------------
(***************************************************************************)
(* ConnectGate with the fairness of the event loop: an armed tick's timer   *)
(* fires, a call whose future is resolved resumes, and time passes.  A tick *)
(* that changes nothing may be left out.                                    *)
(***************************************************************************)
EXTENDS MCConnectGate

(* WF_vars(OnTick), with the steps it can take computed instead of ENABLED. *)
TickDue == tick /\ Pumped(Gate, place) # Gate
TickRuns == []<>~TickDue \/ []<><<OnTick>>_vars

FairSpec ==
    /\ Spec
    /\ TickRuns
    /\ WF_vars(Advance)
    /\ \A c \in Calls : WF_vars(Resume(c))

(* Every waiting call goes on, admitted, capped or let go, whatever the     *)
(* radios report: neither a full house nor the calls that keep coming hold  *)
(* one up for ever.                                                         *)
EveryCallGoes == \A c \in Calls : call[c].phase = "waiting" ~> call[c].phase # "waiting"

=============================================================================
