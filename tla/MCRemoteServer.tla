--------------------------- MODULE MCRemoteServer ---------------------------
(***************************************************************************)
(* Small instances of RemoteServer: HTTP goroutines and the heartbeat loop *)
(* share a pipe of one command, so that senders wait for one another.      *)
(***************************************************************************)
EXTENDS RemoteServer
=============================================================================
