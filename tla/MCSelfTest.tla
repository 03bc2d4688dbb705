----------------------------- MODULE MCSelfTest -----------------------------
(* Instance of SelfTest for model checking: two zones in order.             *)
EXTENDS SelfTest

CONSTANTS upper, lower
TwoZones == {upper, lower}
UpperFirst == <<upper, lower>>
=============================================================================
