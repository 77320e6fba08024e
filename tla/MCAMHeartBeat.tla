---------------------------- MODULE MCAMHeartBeat ----------------------------
(***************************************************************************)
(* A heartbeat thread that the main thread and the thread of an HTTP       *)
(* request cancel.                                                         *)
(***************************************************************************)
EXTENDS AMHeartBeat
=============================================================================
