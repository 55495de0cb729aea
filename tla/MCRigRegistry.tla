---------------------------- MODULE MCRigRegistry ----------------------------
(***************************************************************************)
(* Instances of RigRegistry for TLC.  The sets of statuses, cars, laps ... *)
(* are given in the .cfg files; the identifiers of rigs are                *)
(* interchangeable, and so are those of groups.                            *)
(***************************************************************************)
EXTENDS RigRegistry

Symmetry == Permutations(RigIds) \cup Permutations(GroupIds)
==============================================================================
