---------------------------- MODULE MCSectorState ----------------------------
(* Instances of SectorState for TLC.                                         *)
EXTENDS SectorState, TLC

Symmetric == Permutations(Run)
=============================================================================
