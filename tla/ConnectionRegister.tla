------------------------- MODULE ConnectionRegister -------------------------
(***************************************************************************)
(* What Client (internal/opcua/client.go) promises its callers about the   *)
(* connection they are given: an atomic register that holds one connection *)
(* and a generation.  Each change of what is published moves the           *)
(* generation up, so a caller that remembers the generation it used can    *)
(* tell whether "the" connection is still that one; a connection is closed *)
(* only after it has been taken out of the register; and the next change   *)
(* waits until the connection replaced before it is closed.                *)
(*                                                                         *)
(* Nothing is said of dialing, retries, locks or the watcher: Connection   *)
(* implements this module.                                                 *)
(***************************************************************************)
EXTENDS Naturals

VARIABLES
  reg,       \* the published connection, named by its generation; 0 is nil
  up,        \* whether the client reports itself connected
  gen,       \* the generation of the last change
  replaced,  \* the connection taken out of the register and not yet closed
  closed     \* the connections closed so far

vars == <<reg, up, gen, replaced, closed>>

\* Nothing was ever dialed, or a first dial has been made (main, HTTP mode).
Init ==
  /\ replaced = 0 /\ closed = {}
  /\ \/ reg = 0 /\ gen = 0 /\ up = FALSE
     \/ gen = 1 /\ up \in BOOLEAN /\ reg = (IF up THEN 1 ELSE 0)

\* The register is free to change, and the change is a new generation.
NewGeneration ==
  /\ replaced = 0
  /\ gen' \in Nat /\ gen' > gen
  /\ UNCHANGED closed

\* A dial has ended: its connection is published, or nil if it failed.
Publish ==
  /\ NewGeneration
  /\ up' \in BOOLEAN
  /\ reg' = (IF up' THEN gen' ELSE 0)
  /\ replaced' = reg

\* The user disconnects: the connection stays in the register, but down.
Retire ==
  /\ NewGeneration
  /\ up' = FALSE
  /\ reg' = reg
  /\ replaced' = (IF up THEN reg ELSE 0)

Close ==
  /\ replaced # 0
  /\ closed' = closed \cup {replaced}
  /\ replaced' = 0
  /\ UNCHANGED <<reg, up, gen>>

Next == Publish \/ Retire \/ Close

Spec == Init /\ [][Next]_vars
=============================================================================
