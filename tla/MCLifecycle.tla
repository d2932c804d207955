---------------------------- MODULE MCLifecycle ----------------------------
(* Small instances of Lifecycle for TLC. *)
EXTENDS Lifecycle, TLC

CONSTANTS c1, c2

\* Tool calls are interchangeable.
CallerSymmetry == Permutations(Callers)
=============================================================================
