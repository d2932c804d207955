---------------------------- MODULE MCValueCache ----------------------------
(* Small instances of ValueCache for TLC. *)
EXTENDS ValueCache, TLC

CONSTANTS n1, n2, b1, c1, c2

\* Calls are interchangeable.
CallerSymmetry == Permutations(Callers)

\* A call sets its locals before it uses them, so those of an idle one are
\* dead.
LiveLocals(p) ==
  IF pc[p] = "idle" THEN <<"idle">>
  ELSE IF pc[p] \in {"write", "check", "delete"}
    THEN <<pc[p], key[p], wrote[p]>>
    ELSE <<pc[p], age[p], want[p], miss[p], got[p], now[p], late[p]>>

LiveView ==
  <<clock, born, cache, push, [p \in Callers |-> LiveLocals(p)], acked, calls,
    faults>>
=============================================================================
