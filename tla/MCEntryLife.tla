---------------------------- MODULE MCEntryLife ----------------------------
(* Instance of EntryLife for model checking.  A model served without a pact *)
(* and at one, where it is gated and has no segments, and only as modelled  *)
(* at another.                                                              *)
EXTENDS EntryLife, TLC

CONSTANTS traced, guessed
TwoPacts == {traced, guessed}
ServedPacts == {NoPact, traced}
AnyFlow == Permutations(Flows)
=============================================================================
