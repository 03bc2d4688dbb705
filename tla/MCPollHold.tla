----------------------------- MODULE MCPollHold -----------------------------
(* A light whose polls come due, and a plug that only takes commands: a     *)
(* burst needs both.                                                        *)
EXTENDS PollHold
CONSTANTS light, plug
=============================================================================
