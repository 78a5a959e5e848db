----------------------------- MODULE OptionGates -----------------------------
(***************************************************************************)
(* The risk caps of the options lane as pure operators                     *)
(* (src/option_risk_gates.py), and the two places that run them over an    *)
(* order right before it is sent: the broker                               *)
(* (src/robinhood_option_broker.py) and, again, the client                 *)
(* (src/robinhood_option_client.py).                                       *)
(*                                                                         *)
(* Amounts are whole dollars.  What may be missing (an expiry, an approval *)
(* level, a maximum loss) is a set with at most one element.               *)
(***************************************************************************)
EXTENDS Integers, Sequences, FiniteSets

CONSTANTS
    MaxDebit,      \* max_debit_premium_per_trade_usd
    TotalCap,      \* max_total_premium_at_risk_usd
    Multiplier,    \* contract_multiplier
    MinDte,        \* min_days_to_expiry
    AllowZeroDte,  \* allow_zero_dte
    MaxContracts   \* max_contracts_per_order

ASSUME CapAssumption ==
    /\ {MaxDebit, TotalCap, MinDte} \subseteq Nat
    /\ {Multiplier, MaxContracts} \subseteq Nat \ {0}
    /\ AllowZeroDte \in BOOLEAN

AtLeast(a, b) == IF a >= b THEN a ELSE b
Least(these)  == CHOOSE n \in these : \A m \in these : n <= m

-----------------------------------------------------------------------------
(***************************************************************************)
(* What the legs say.  A leg is [side, effect, expiry]; effect is "open",  *)
(* "close" or "none", expiry the days to the expiration stamped on it.     *)
(***************************************************************************)

Buys(legs) == {k \in DOMAIN legs : legs[k].side = "buy"}

\* assert_defined_risk: a sale that does not provably close is refused.
DefinedRisk(legs) ==
    /\ legs # <<>>
    /\ \A k \in DOMAIN legs : legs[k].side = "sell" => legs[k].effect = "close"

\* A leg that buys makes the order a debit, whatever its label says.
CapsDirection(legs, label) == IF Buys(legs) # {} THEN "debit" ELSE label

Strategy(legs) ==
    LET opening == {k \in DOMAIN legs : legs[k].effect = "open"}
        longs   == Buys(legs) \cap opening
    IN  CASE ~DefinedRisk(legs) -> "unsupported"
          [] DefinedRisk(legs) /\ Cardinality(longs) = 1 -> "single_leg_long"
          [] DefinedRisk(legs) /\ Cardinality(longs) > 1 -> "long_multi_leg"
          [] DefinedRisk(legs) /\ longs = {} -> "reducing"

MinLevelFor(strategy) ==
    [reducing |-> 0, single_leg_long |-> 2, long_multi_leg |-> 3, unsupported |-> 4][strategy]

\* _dte_from_legs, and the stricter of it and the caller's figure.
StampedDte(legs) == UNION {legs[k].expiry : k \in DOMAIN legs}
KnownDte(order)  == order.dte \cup StampedDte(order.legs)

-----------------------------------------------------------------------------
(***************************************************************************)
(* The gates.  A proposal is [legs, premium, quantity, dte, direction,     *)
(* loss], premium by share and loss by contract.                           *)
(***************************************************************************)

DebitPremium(p) ==
    IF p.direction = "credit" THEN 0
    ELSE AtLeast(p.premium, 0) * Multiplier * AtLeast(p.quantity, 0)

PremiumAtRisk(p) ==
    LET each == IF p.loss = {} THEN AtLeast(p.premium, 0) * Multiplier
                ELSE AtLeast(CHOOSE l \in p.loss : TRUE, 0)
    IN  each * AtLeast(p.quantity, 0)

DebitGate(p) == IF DebitPremium(p) > MaxDebit THEN {"max_debit"} ELSE {}

TotalGate(p, open) ==
    IF AtLeast(open, 0) + PremiumAtRisk(p) > TotalCap THEN {"max_total"} ELSE {}

DteGate(p) ==
    IF p.dte < 0 THEN {"expired"}
    ELSE IF p.dte = 0 /\ ~AllowZeroDte THEN {"zero_dte"}
    ELSE IF p.dte < MinDte THEN {"min_dte"} ELSE {}

ContractsGate(p) ==
    IF p.quantity <= 0 THEN {"invalid"}
    ELSE IF p.quantity > MaxContracts THEN {"max_contracts"} ELSE {}

\* A level that cannot be read is refused.
LevelGate(p, level) ==
    IF \E n \in level : n >= MinLevelFor(Strategy(p.legs)) THEN {} ELSE {"level"}

Evaluate(p, level, open) ==
    DebitGate(p) \cup TotalGate(p, open) \cup DteGate(p) \cup ContractsGate(p) \cup LevelGate(p, level)

-----------------------------------------------------------------------------
(***************************************************************************)
(* Sizing: an explicit count, or what the budget buys, at least one.       *)
(***************************************************************************)

ContractCount(price, amount, contracts) ==
    LET cost == price * Multiplier
    IN  IF contracts # {} THEN AtLeast(CHOOSE n \in contracts : TRUE, 1)
        ELSE IF amount # {} /\ cost > 0 THEN AtLeast((CHOOSE n \in amount : TRUE) \div cost, 1)
        ELSE 1

-----------------------------------------------------------------------------
(***************************************************************************)
(* The broker and the client.  An order is what their caller passes:       *)
(* [legs, direction, quantity, price, dte, loss].                          *)
(***************************************************************************)

Proposal(order, loss) ==
    [legs |-> order.legs, premium |-> order.price, quantity |-> order.quantity,
     dte |-> Least(KnownDte(order)), direction |-> CapsDirection(order.legs, order.direction),
     loss |-> loss]

CapsWith(order, loss, level, open) ==
    IF KnownDte(order) = {} THEN {"min_dte"}
    ELSE Evaluate(Proposal(order, loss), level, AtLeast(open, 0))

\* _option_caps_block_reason: the caller's maximum loss as it comes.
BrokerCaps(order, level, open) == CapsWith(order, order.loss, level, open)

\* Broken variant: the caller's maximum loss wins.
LossAsStated(order) == order.loss

\* _effective_max_loss_per_contract: what is bought costs at least the debit.
EffectiveLoss(order) ==
    LET debit == AtLeast(order.price, 0) * Multiplier
    IN  IF Buys(order.legs) = {} THEN order.loss
        ELSE IF order.loss = {} THEN {debit}
        ELSE {AtLeast(l, debit) : l \in order.loss}

\* _option_caps_block.
ClientCaps(order, level, open) == CapsWith(order, EffectiveLoss(order), level, open)
=============================================================================
