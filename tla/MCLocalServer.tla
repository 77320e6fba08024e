---------------------------- MODULE MCLocalServer ----------------------------
(***************************************************************************)
(* Small instances of LocalServer: a pipe of one command, so that every    *)
(* goroutine has to wait for the others.                                   *)
(***************************************************************************)
EXTENDS LocalServer
=============================================================================
