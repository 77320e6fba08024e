-------------------------- MODULE MCAMLocalMesher --------------------------
(***************************************************************************)
(* The local side of a mesher in a network with one other machine whose    *)
(* mesher comes and goes.  Two addresses per host let an address be given  *)
(* up for another one, two queues let one that was given up go on beside   *)
(* its successor.  Three events are enough for a stop during a retry, a    *)
(* change of the preference between two reads of it, and a server that     *)
(* leaves, so that the queue's thread stops the mesher, while the user     *)
(* stops and starts it too.  Deadlock is not checked: a search on the      *)
(* wrong thread, a program that ended, or a started client whose           *)
(* heartbeats are all answered, has nothing left to do once the events are *)
(* used up.                                                                *)
(***************************************************************************)
EXTENDS AMLocalMesher
=============================================================================
