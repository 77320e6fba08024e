-------------------------- MODULE MCAMRemoteMesher --------------------------
(***************************************************************************)
(* One mesher's remote client at a global mesher, with the requests of one *)
(* other member that leaves, merges or is swept: the second user is no     *)
(* client of the model, its requests reach the server at any time.  The    *)
(* group of the first user's own machine is not the one that its local     *)
(* server leads it into, so that the group it asks for changes under it.   *)
(***************************************************************************)
EXTENDS AMRemoteMesher, TLC

CONSTANTS u1, u2, g1, g2
MCOwnGroup == u1 :> g2
=============================================================================
