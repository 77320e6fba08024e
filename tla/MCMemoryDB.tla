----------------------------- MODULE MCMemoryDB -----------------------------
(***************************************************************************)
(* Small instances of MemoryDB: groups, users and the root are model       *)
(* values.  Permuting groups or users maps behaviours to behaviours.       *)
(***************************************************************************)
EXTENDS MemoryDB

Symmetry == Permutations(Groups) \cup Permutations(Users)
=============================================================================
