---------------------------- MODULE MCHandleCache ----------------------------
(* Model checking of HandleCache: calls as model values. *)
EXTENDS HandleCache, TLC

CONSTANTS c1, c2

CallSymmetry == Permutations(Calls)
=============================================================================
