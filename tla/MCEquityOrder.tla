---------------------------- MODULE MCEquityOrder ----------------------------
(* Instances of EquityOrder for TLC: Thursday to the Tuesday after a holiday. *)
EXTENDS EquityOrder

MCHolidays == {7}
=============================================================================
