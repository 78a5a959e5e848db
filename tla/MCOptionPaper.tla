---------------------------- MODULE MCOptionPaper ----------------------------
(* Instances of OptionPaper for TLC.                                         *)
EXTENDS OptionPaper, TLC

\* Nothing tells two processes apart, nor two contracts.
Symmetric == Permutations(Proc) \cup Permutations(Contract)
=============================================================================
