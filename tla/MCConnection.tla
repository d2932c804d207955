---------------------------- MODULE MCConnection ----------------------------
(* Small instances of Connection for TLC. *)
EXTENDS Connection, TLC

\* The callers are interchangeable; no safety property names one of them.
CallerSymmetry == Permutations(Callers)

\* An operation initializes each local before it reads it, so the locals of an
\* idle process are dead: states that differ only there are one state.
LiveLocals(p) ==
  IF pc[p] = "idle"
    THEN <<"idle">>
    ELSE <<pc[p], op[p], gen[p], snap[p], fresh[p], attempt[p], failed[p],
           runs[p]>>

LiveView ==
  <<connectMu, shared, conn, chan, [p \in Procs |-> LiveLocals(p)],
    recoveries, bounds>>
=============================================================================
