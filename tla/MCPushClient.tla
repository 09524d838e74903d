---------------------------- MODULE MCPushClient ----------------------------
(***************************************************************************)
(* PushClient for TLC: one remote element, a queue of two batches. *)
(***************************************************************************)
EXTENDS PushClient
=============================================================================
