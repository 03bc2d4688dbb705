---------------------------- MODULE MCFieldTest ----------------------------
(***************************************************************************)
(* A run over a lamp that is read back and that the fragile proxy can       *)
(* reach, and a strip that is not read back.                                *)
(***************************************************************************)
EXTENDS FieldTest

CONSTANTS lamp, strip

=============================================================================
