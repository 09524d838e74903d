---------------------------- MODULE MCSseServer ----------------------------
(***************************************************************************)
(* SseServer for TLC: few subscriptions, two or three streams.             *)
(***************************************************************************)
EXTENDS SseServer, TLC

Interchangeable == Permutations(Handles)
=============================================================================
