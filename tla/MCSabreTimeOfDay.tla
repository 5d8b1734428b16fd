-------------------------- MODULE MCSabreTimeOfDay --------------------------
(* SabreTimeOfDay with a correction by a second, by less, and one back;    *)
(* the clocks are alike.                                                   *)
EXTENDS SabreTimeOfDay, TLC
MCDeltas == {3, 2, -1}
AlikeClocks == Permutations(Clocks)
=============================================================================
