-------------------------- MODULE MCIdtcmTimeOfDay --------------------------
(* IdtcmTimeOfDay with one correction forward and one back, and two clocks *)
(* whose outputs are driven by one PLL when Q8 is driven by that of Q9.    *)
EXTENDS IdtcmTimeOfDay, TLC

CONSTANTS c1, c2

MCDeltas == {2, -1}
MCOutputMask == c1 :> {1, 8} @@ c2 :> {9, 11}
MCMuxes == {[out8 |-> TRUE, out11 |-> FALSE], [out8 |-> FALSE, out11 |-> TRUE]}
=============================================================================
