---------------------------- MODULE Fc3Requests ----------------------------
(***************************************************************************)
(* All requests of the character device to a FemtoClock3: measurements and *)
(* references, one at a time under the mutex.                              *)
(***************************************************************************)
EXTENDS Fc3Tdc, Fc3References

Fc3Init == TdcInit /\ RefInit

RefRequest == step = "idle" /\ binds > 0 /\ RefNext /\ UNCHANGED tdcVars

Fc3Next ==
  \/ TdcNext /\ UNCHANGED refVars
  \/ RefRequest

Fc3Spec == Fc3Init /\ [][Fc3Next]_<<tdcVars, refVars>>

FairFc3Spec == Fc3Spec /\ Fairness
=============================================================================
