--------------------------- MODULE MCPtpLifecycle ---------------------------
(* PtpLifecycle with interchangeable callers. *)
EXTENDS PtpLifecycle, TLC
AlikeCallers == Permutations(Callers)
=============================================================================
