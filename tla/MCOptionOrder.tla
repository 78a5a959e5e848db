---------------------------- MODULE MCOptionOrder ----------------------------
(* Instances of OptionOrder for TLC.                                         *)
EXTENDS OptionOrder, TLC

MCExpiry == [c \in Contract |-> 2]

Symmetric == Permutations(Proc) \cup Permutations(Contract)
=============================================================================
