---------------------------- MODULE VersionedList ----------------------------
(***************************************************************************)
(* What a mesher server promises those who read its list, the global one   *)
(* and the local one alike: what is published is the list as it is, under  *)
(* the version as it is, and the list never changes but together with its  *)
(* version, which only counts up.  A client that was told the version it   *)
(* has already need not fetch the list again.                              *)
(*                                                                         *)
(* The list is of any kind: MemoryDB and UserList say what they take for   *)
(* it, and implement this specification.                                   *)
(***************************************************************************)
EXTENDS Naturals

VARIABLES
  list,      \* what the server holds and shows
  version,
  published  \* what the other goroutines read

vars == <<list, version, published>>

Current == published = [Version |-> version, List |-> list]

Init == version \in Nat /\ Current

Publish == version' = version + 1 /\ Current'

Spec == Init /\ [][Publish]_vars
=============================================================================
