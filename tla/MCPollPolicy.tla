---------------------------- MODULE MCPollPolicy ----------------------------
(* Instance of PollPolicy for model checking.                               *)
EXTENDS PollPolicy
=============================================================================
