----------------------------- MODULE EquityGates -----------------------------
(***************************************************************************)
(* The exchange calendar (src/market_hours.py) and the compliance guards   *)
(* of the equities lane (src/equity_compliance.py), as pure operators.     *)
(*                                                                         *)
(* Days are numbered so that d % 7 is the weekday, Monday 0.  A row of the *)
(* orders table is [id, symbol, side, qty, day] at one dollar a share; its *)
(* status always counts ("submitted" or "filled").                         *)
(***************************************************************************)
EXTENDS Integers, Sequences, FiniteSets

CONSTANTS
    Holidays,    \* full-day closures of the exchange
    PdtWindow,   \* PDT_WINDOW_BUSINESS_DAYS
    PdtLimit,    \* PDT_MAX_DAY_TRADES_IN_WINDOW
    Threshold,   \* PDT_EQUITY_THRESHOLD_USD
    Lookback     \* HISTORY_LOOKBACK_DAYS

ASSUME GateAssumption ==
    /\ Holidays \subseteq Int
    /\ {PdtWindow, PdtLimit, Threshold, Lookback} \subseteq Nat

-----------------------------------------------------------------------------
(***************************************************************************)
(* The calendar.                                                           *)
(***************************************************************************)

IsWeekday(day) == day % 7 < 5

\* blocked_reason, but for the time of the day.
IsSession(day) == IsWeekday(day) /\ day \notin Holidays

\* _add_business_days by one: the next weekday, a holiday included.
SettlesOn(day) == CHOOSE d \in day + 1 .. day + 3 :
                      IsWeekday(d) /\ \A e \in day + 1 .. d - 1 : ~IsWeekday(e)

\* Broken variant: a holiday fills a place of the window.
WeekdaysBack(day) ==
    {d \in day - Lookback .. day :
        IsWeekday(d) /\ Cardinality({e \in d .. day : IsWeekday(e)}) <= PdtWindow}

\* _business_days_back: the last PdtWindow sessions up to the day.
WindowOf(day) ==
    {d \in day - Lookback .. day :
        IsSession(d) /\ Cardinality({e \in d .. day : IsSession(e)}) <= PdtWindow}

-----------------------------------------------------------------------------
(***************************************************************************)
(* The guards over the rows that are read.                                 *)
(***************************************************************************)

\* get_orders_since: the places of the rows.
Since(rows, day) == {k \in DOMAIN rows : rows[k].day >= day - Lookback}

Sides(rows, history, symbol, day) ==
    {rows[k].side : k \in {j \in history : rows[j].symbol = symbol /\ rows[j].day = day}}

\* day_trade_days, within the window.
DayTrades(rows, history, symbol, day) ==
    {d \in WindowOf(day) : Sides(rows, history, symbol, d) = {"buy", "sell"}}

\* PatternDayTraderGuard.evaluate.
PdtAllows(rows, history, symbol, side, equity, day) ==
    \/ equity >= Threshold
    \/ side # "sell"
    \/ "buy" \notin Sides(rows, history, symbol, day)
    \/ Cardinality(DayTrades(rows, history, symbol, day)) < PdtLimit

\* A sum of natural numbers is the number of units they stand for.
Units(amount, S) == UNION {{x} \X (1 .. amount[x]) : x \in S}

Total(rows, S) == Cardinality(Units([k \in S |-> rows[k].qty], S))

\* SettlementGuard.unsettled_proceeds.
Unsettled(rows, history, day) ==
    Total(rows, {k \in history : rows[k].side = "sell" /\ day < SettlesOn(rows[k].day)})

\* SettlementGuard.evaluate.
SettlementAllows(rows, history, side, qty, cash, day) ==
    side = "buy" => qty <= cash - Unsettled(rows, history, day)

\* assert_long_only.
LongOnly(side, qty, held) == side = "sell" => qty <= held
=============================================================================
