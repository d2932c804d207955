---------------------------- MODULE MCTelemetry ----------------------------
(* Small instances of Telemetry for TLC. *)
EXTENDS Telemetry, TLC

CONSTANTS c1, c2, t1, e1, x1

\* Recorders are interchangeable.
CallerSymmetry == Permutations(Callers)
=============================================================================
