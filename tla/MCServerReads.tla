--------------------------- MODULE MCServerReads ---------------------------
(***************************************************************************)
(* ServerReads for TLC: a to-do list (e1) on a device (d1) or in an area   *)
(* (a1), asked for directly and as a component of the device.              *)
(***************************************************************************)
EXTENDS ServerReads

CONSTANTS a1, d1, e1

ListAndDevice == {<<e1, d1>>}
=============================================================================
