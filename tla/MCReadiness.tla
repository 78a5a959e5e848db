----------------------------- MODULE MCReadiness -----------------------------
(* Instances of Readiness for TLC.                                           *)
EXTENDS Readiness

\* One setting of each kind: a cap, one that must not be zero, a floor, the multiplier.
OneOfEach == {"max_trades_per_day", "max_symbol_allocation_percent", "min_order_cooldown_seconds",
              "min_days_to_expiry", "max_contracts_per_order", "defined_risk_spread",
              "contract_multiplier"}
=============================================================================
