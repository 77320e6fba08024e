----------------------------- MODULE MCUserList -----------------------------
(***************************************************************************)
(* A small instance of UserList: two groups contend for the server, two    *)
(* users come and go.                                                      *)
(***************************************************************************)
EXTENDS UserList, TLC

Symmetry ==
  Permutations(Users) \cup Permutations(Groups) \cup Permutations(Profiles)
=============================================================================
