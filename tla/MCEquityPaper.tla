---------------------------- MODULE MCEquityPaper ----------------------------
(* Instances of EquityPaper for TLC.                                         *)
EXTENDS EquityPaper, TLC

\* Nothing tells two processes apart, nor two symbols.
Symmetric == Permutations(Proc) \cup Permutations(Symbol)
=============================================================================
