----------------------------- MODULE MCVolumes -----------------------------
(***************************************************************************)
(* The symmetry of Volumes for TLC.                                        *)
(***************************************************************************)
EXTENDS Volumes, TLC

Symmetry == Permutations(Volume) \union Permutations(Instance) \union Permutations(Request)
=============================================================================
