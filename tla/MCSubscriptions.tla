-------------------------- MODULE MCSubscriptions --------------------------
(* Small instances of Subscriptions for TLC. *)
EXTENDS Subscriptions, TLC

CONSTANTS a, b, bad

\* One node, two nodes, and a list whose second node ID does not parse.
PlainRequests == {<<a>>, <<a, b>>}
AllRequests   == {<<a>>, <<b, a>>, <<a, bad>>}
OneRequest    == {<<a>>}

\* Subscription ids are interchangeable.
IdSymmetry == Permutations(Ids)

\* Every variable but skipped, which only RestoredAfterReconnect reads.
SafetyView ==
  <<link, heard, server, memory, intents, running, restore, pumped, unused,
    unsaved, changes, faults>>
=============================================================================
