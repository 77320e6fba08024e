-------------------------- MODULE MCOscGroupClient --------------------------
(***************************************************************************)
(* Small instances of OscGroupClient: short periods in the order of the    *)
(* real ones, and addresses that several endpoints may share.              *)
(***************************************************************************)
EXTENDS OscGroupClient, TLC

Symmetry == Permutations(Addresses)
=============================================================================
