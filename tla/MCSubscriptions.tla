-------------------------- MODULE MCSubscriptions --------------------------
(***************************************************************************)
(* Subscriptions for TLC.  Clients, subscription ids and handles are       *)
(* interchangeable in the specification and in its safety properties.      *)
(***************************************************************************)
EXTENDS Subscriptions, TLC

Interchangeable ==
    Permutations(Clients) \cup Permutations(SubIds) \cup Permutations(Handles)

=============================================================================
