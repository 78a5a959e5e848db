----------------------------- MODULE EquityOrder -----------------------------
(***************************************************************************)
(* The equities lane: a session hands signals to the order manager         *)
(* (src/order_manager.py, src/risk_manager.py) and its broker              *)
(* (src/robinhood_equity_broker.py) sends them after the guards of         *)
(* EquityGates; next to it the paper loop (src/equity_runtime.py) runs.    *)
(* Both write the one table of orders from which the guards take their     *)
(* history, and the one count of the day's trades.                         *)
(*                                                                         *)
(* A row is written after the venue has answered, so an order whose answer *)
(* is lost has none.  The client keeps the account it read when it was     *)
(* built, cash included.  Orders rest until the venue fills or cancels     *)
(* them, on that day or a later one.  A day passes only between            *)
(* submissions: seventeen hours lie between two sessions of the exchange.  *)
(***************************************************************************)
EXTENDS EquityGates

CONSTANTS
    Symbol,     \* equities.universe
    Cash0,      \* the account's cash, all settled
    Amounts,    \* sizes of a buy
    MaxTrades,  \* max_trades_per_day
    FirstDay,   \* a session
    LastDay,    \* bound: last day of a behaviour
    MaxOrders,  \* bound: orders the venue takes
    MaxLost,    \* bound: lost answers and deaths
    MaxCycles   \* bound: cycles of the paper loop (iterations)

ASSUME OrderAssumption ==
    /\ IsFiniteSet(Symbol)
    /\ Cash0 \in Nat /\ Amounts \subseteq Nat \ {0}
    /\ {MaxTrades, FirstDay, LastDay, MaxOrders, MaxLost, MaxCycles} \subseteq Nat

\* The rows that are read reach back over the whole window.
ASSUME LookbackAssumption ==
    \A day \in FirstDay .. LastDay : Cardinality(WindowOf(day)) = PdtWindow

Side == {"buy", "sell"}

\* The venue's book.  done is the day of the fill.
Order == [symbol : Symbol, side : Side, qty : Nat, day : Nat,
          state : {"resting", "filled", "cancelled"}, done : Nat, fresh : BOOLEAN]

Row == [id : Nat, symbol : Symbol, side : Side, qty : Nat, day : Nat]

\* A submission: the signal, the size the order manager gave it, and its place
\* in the book once the venue has taken it.  fresh is history: the guards saw
\* the cash the account had.
Asked == [id : Nat, symbol : Symbol, side : Side, qty : Nat, fresh : BOOLEAN]

Pc == {"idle", "risk", "brake", "guards", "send", "log", "count"}

VARIABLES
    day, stop,    \* the date, STOP_TRADING_EQUITIES
    cash, held,   \* the account at the venue, less what resting buys reserve
    orders,       \* the venue's book, oldest first
    rows,         \* the table of orders
    trades,       \* daily_summary.trade_count
    client,       \* the account's cash as the client read it, and the orders before
    pc, asked,
    lost,         \* lost answers and deaths so far
    loop, own     \* the paper loop, and the positions of its ledger

account == <<cash, held, orders>>
session == <<client, pc, asked, lost>>
paper   == <<loop, own>>
vars    == <<day, stop, account, rows, trades, session, paper>>

TypeOK ==
    /\ day \in Nat /\ stop \in BOOLEAN
    /\ cash \in Nat /\ held \in [Symbol -> Nat] /\ orders \in Seq(Order)
    /\ rows \in Seq(Row) /\ trades \in Nat
    /\ client \in [cash : Nat, orders : Nat]
    /\ pc \in Pc /\ asked \subseteq Asked /\ lost \in Nat
    /\ loop \in [on : BOOLEAN, left : SUBSET Symbol, cycles : Nat]
    /\ own \in [Symbol -> {0, 1}]

Init ==
    /\ day = FirstDay /\ stop = FALSE
    /\ cash = Cash0 /\ held = [s \in Symbol |-> 0] /\ orders = <<>>
    /\ rows = <<>> /\ trades = 0
    /\ client = [cash |-> Cash0, orders |-> 0]
    /\ pc = "idle" /\ asked = {} /\ lost = 0
    /\ loop = [on |-> FALSE, left |-> {}, cycles |-> 0]
    /\ own = [s \in Symbol |-> 0]

-----------------------------------------------------------------------------
(***************************************************************************)
(* A submission.                                                           *)
(***************************************************************************)

\* The cash field of get_account, as it was at the client's construction.
SeenCash == client.cash

\* Portfolio.equity: cash and the cost of what is held.
SeenEquity == SeenCash + Cardinality(Units(held, Symbol))

\* RobinhoodEquityClient.__init__: a new client resolves and keeps the account.
Connect ==
    /\ pc = "idle" /\ client # [cash |-> cash, orders |-> Len(orders)]
    /\ client' = [cash |-> cash, orders |-> Len(orders)]
    /\ UNCHANGED <<day, stop, account, rows, trades, pc, asked, lost, paper>>

Submission(to, what) ==
    /\ pc' = to /\ asked' = what
    /\ UNCHANGED <<day, stop, account, client, paper>>

\* submit_signal with an actionable signal; build_limit_order sizes it.
Begin ==
    /\ pc = "idle" /\ Len(orders) < MaxOrders
    /\ \E s \in Symbol, side \in Side, n \in Amounts :
          LET size == IF side = "sell" /\ 0 < held[s] /\ held[s] < n THEN held[s] ELSE n
          IN  Submission("risk", {[id |-> 0, symbol |-> s, side |-> side, qty |-> size,
                                     fresh |-> FALSE]})
    /\ UNCHANGED <<rows, trades, lost>>

Refused == Submission("idle", {}) /\ UNCHANGED <<rows, trades, lost>>

\* RiskManager.evaluate.
RiskAllows(r) ==
    /\ ~stop /\ trades < MaxTrades
    /\ r.side = "buy" => r.qty <= SeenCash /\ held[r.symbol] = 0
    /\ r.side = "sell" => held[r.symbol] > 0 /\ r.qty <= held[r.symbol]

Risk ==
    /\ pc = "risk"
    /\ IF \A r \in asked : RiskAllows(r)
       THEN Submission("brake", asked) /\ UNCHANGED <<rows, trades, lost>>
       ELSE Refused

\* Broken variant: the weekday alone decides.
Weekday == IsWeekday(day)

\* _assert_regular_hours, on a day at a time when the exchange is open.
Open == IsSession(day)

\* place_limit_order past the human gate: the hours, then the kill switch.
Brake ==
    /\ pc = "brake"
    /\ IF Open /\ ~stop
       THEN Submission("guards", asked) /\ UNCHANGED <<rows, trades, lost>>
       ELSE Refused

\* Outside the hours of the day.
OutOfHours == pc = "brake" /\ Refused

GuardsAllow(r) ==
    LET history == Since(rows, day)
    IN  /\ LongOnly(r.side, r.qty, held[r.symbol])
        /\ PdtAllows(rows, history, r.symbol, r.side, SeenEquity, day)
        /\ SettlementAllows(rows, history, r.side, r.qty, SeenCash, day)

\* The history, the portfolio and the three compliance guards.
Guards ==
    /\ pc = "guards"
    /\ IF \A r \in asked : GuardsAllow(r)
       THEN /\ Submission("send", {[r EXCEPT !.fresh = (client.cash = cash)] : r \in asked})
            /\ UNCHANGED <<rows, trades, lost>>
       ELSE Refused

\* The venue takes an order that the account covers.
Take(r) ==
    /\ IF r.side = "buy" THEN r.qty <= cash ELSE r.qty <= held[r.symbol]
    /\ cash' = IF r.side = "buy" THEN cash - r.qty ELSE cash
    /\ orders' = Append(orders, [symbol |-> r.symbol, side |-> r.side, qty |-> r.qty, day |-> day,
                                 state |-> "resting", done |-> 0, fresh |-> r.fresh])
    /\ UNCHANGED held

\* place_equity_order: the venue takes the order or answers with a rejection,
\* which the broker reports as submitted all the same.
Send ==
    /\ pc = "send"
    /\ \E r \in asked :
          \/ Take(r) /\ asked' = {[r EXCEPT !.id = Len(orders) + 1]}
          \/ UNCHANGED <<account, asked>>
    /\ pc' = "log"
    /\ UNCHANGED <<day, stop, rows, trades, client, lost, paper>>

\* The connector raises, whatever became of the order.
SendFails ==
    /\ pc = "send" /\ lost < MaxLost
    /\ \E r \in asked : Take(r) \/ UNCHANGED account
    /\ lost' = lost + 1 /\ pc' = "idle" /\ asked' = {}
    /\ UNCHANGED <<day, stop, rows, trades, client, paper>>

RowOf(r) == [id |-> r.id, symbol |-> r.symbol, side |-> r.side, qty |-> r.qty, day |-> day]

\* log_order.
LogOrder ==
    /\ pc = "log"
    /\ \E r \in asked : rows' = Append(rows, RowOf(r))
    /\ Submission("count", asked)
    /\ UNCHANGED <<trades, lost>>

\* increment_trade_count.
Count ==
    /\ pc = "count"
    /\ trades' = trades + 1
    /\ Submission("idle", {})
    /\ UNCHANGED <<rows, lost>>

\* The process dies between two writes.
Die ==
    /\ pc \in {"log", "count"} /\ lost < MaxLost
    /\ lost' = lost + 1
    /\ Submission("idle", {})
    /\ UNCHANGED <<rows, trades>>

\* Broken variant: the venue's spelling kept as it comes.
CancelSpelled ==
    /\ pc = "idle" /\ ~stop
    /\ \E k \in DOMAIN orders :
          /\ orders[k].state = "resting"
          /\ orders' = [orders EXCEPT ![k].state = "canceled"]
          /\ cash' = IF orders[k].side = "buy" THEN cash + orders[k].qty ELSE cash
    /\ UNCHANGED <<day, stop, held, rows, trades, session, paper>>

\* cancel_order of a resting order, with the kill switch open.
Cancel ==
    /\ pc = "idle" /\ ~stop
    /\ \E k \in DOMAIN orders :
          /\ orders[k].state = "resting"
          /\ orders' = [orders EXCEPT ![k].state = "cancelled"]
          /\ cash' = IF orders[k].side = "buy" THEN cash + orders[k].qty ELSE cash
    /\ UNCHANGED <<day, stop, held, rows, trades, session, paper>>

-----------------------------------------------------------------------------
(***************************************************************************)
(* The paper loop: cycles over the universe on a ledger of its own.        *)
(***************************************************************************)

Looping == UNCHANGED <<day, stop, account, session>>

\* run_equity_cycle up to the symbols; neither stop file nor kill switch.
CycleStarts ==
    /\ ~loop.on /\ loop.cycles < MaxCycles /\ ~stop
    /\ loop' = [loop EXCEPT !.on = TRUE, !.left = Symbol]
    /\ Looping /\ UNCHANGED <<rows, trades, own>>

\* run_equity_paper_loop finds the stop file, or a cycle that returned halted counts.
LoopHalts ==
    /\ ~loop.on /\ loop.cycles < MaxCycles /\ stop
    /\ loop' = [loop EXCEPT !.cycles = MaxCycles]
    /\ Looping /\ UNCHANGED <<rows, trades, own>>

\* Not tradable, no price, a hold, a brake of the regime, or a risk block.
SymbolSkipped ==
    /\ loop.on
    /\ \E s \in loop.left : loop' = [loop EXCEPT !.left = @ \ {s}]
    /\ Looping /\ UNCHANGED <<rows, trades, own>>

\* A paper fill: the ledger, the row and the count.
PaperFill ==
    /\ loop.on /\ ~stop /\ trades < MaxTrades
    /\ \E s \in loop.left, n \in Amounts :
          LET side == IF own[s] = 0 THEN "buy" ELSE "sell"
          IN  /\ rows' = Append(rows, RowOf([id |-> 0, symbol |-> s, side |-> side, qty |-> n]))
              /\ own' = [own EXCEPT ![s] = 1 - own[s]]
              /\ loop' = [loop EXCEPT !.left = @ \ {s}]
    /\ trades' = trades + 1
    /\ Looping

\* The symbols are done, or the kill switch tripped among them.
CycleOver ==
    /\ loop.on /\ (loop.left = {} \/ stop)
    /\ loop' = [on |-> FALSE, left |-> {}, cycles |-> loop.cycles + 1]
    /\ Looping /\ UNCHANGED <<rows, trades, own>>

-----------------------------------------------------------------------------
(***************************************************************************)
(* The venue, the operator and the clock.                                  *)
(***************************************************************************)

Elsewhere == UNCHANGED <<rows, session, paper>>

Fill ==
    /\ IsSession(day)
    /\ \E k \in DOMAIN orders :
          LET o == orders[k]
          IN  /\ o.state = "resting"
              /\ o.side = "sell" => o.qty <= held[o.symbol]
              /\ orders' = [orders EXCEPT ![k].state = "filled", ![k].done = day]
              /\ held' = [held EXCEPT ![o.symbol] = IF o.side = "buy" THEN @ + o.qty ELSE @ - o.qty]
              /\ cash' = IF o.side = "buy" THEN cash ELSE cash + o.qty
    /\ Elsewhere /\ UNCHANGED <<day, stop, trades>>

ToggleStop ==
    /\ stop' = ~stop
    /\ Elsewhere /\ UNCHANGED <<day, account, trades>>

\* Midnight: the count of trades begins again.
NewDay ==
    /\ pc = "idle" /\ day < LastDay
    /\ day' = day + 1 /\ trades' = 0
    /\ Elsewhere /\ UNCHANGED <<stop, account>>

Next ==
    \/ Connect \/ Begin \/ Risk \/ Brake \/ OutOfHours \/ Guards
    \/ Send \/ SendFails \/ LogOrder \/ Count \/ Die \/ Cancel
    \/ CycleStarts \/ LoopHalts \/ SymbolSkipped \/ PaperFill \/ CycleOver
    \/ Fill \/ ToggleStop \/ NewDay

Spec == Init /\ [][Next]_vars

-----------------------------------------------------------------------------
(***************************************************************************)
(* Properties.                                                             *)
(***************************************************************************)

Written(k) == \E j \in DOMAIN rows : rows[j].id = k

\* A sale of an earlier buy of that day, both in the table, judged with the
\* cash the account had.
SeenDayTrade(s, d) ==
    \E b, k \in DOMAIN orders :
        /\ b < k /\ orders[b].side = "buy" /\ orders[k].side = "sell"
        /\ {orders[b].symbol, orders[k].symbol} = {s}
        /\ {orders[b].day, orders[k].day} = {d}
        /\ Written(b) /\ Written(k) /\ orders[k].fresh

\* The pattern-day-trader guard (equity_compliance.py:68): over every window of
\* sessions an account below the threshold has day trades of a symbol on no
\* more than the permitted days, holidays, rejected orders and the paper loop's
\* rows notwithstanding; but for orders whose row was lost and for sales judged
\* with the stale cash of a client, which makes the account look richer.
DayTradesBounded == Cash0 < Threshold =>
    \A s \in Symbol, d \in FirstDay .. LastDay :
        LET window == {e \in FirstDay .. d :
                          Cardinality({x \in e .. d : IsSession(x)}) \in 1 .. PdtWindow}
        IN  Cardinality({e \in window : SeenDayTrade(s, e)}) <= PdtLimit

\* Sales whose money is unsettled until the next session, and of which the guard
\* can know: filled on the day they were placed, and with a row.
UnsettledSales ==
    {k \in DOMAIN orders :
        /\ orders[k].state = "filled" /\ orders[k].side = "sell"
        /\ ~\E d \in orders[k].done + 1 .. day : IsSession(d)
        /\ orders[k].day = orders[k].done /\ Written(k)}

BoughtSince(n) ==
    {k \in n + 1 .. Len(orders) : orders[k].side = "buy" /\ orders[k].state # "cancelled"}

\* The good-faith guard (equity_compliance.py:127): a buy about to be sent is
\* paid from settled cash, except for what this client spent since it read the
\* account, for sales filled on a later day than they were placed, and for
\* sales without a row.  Holidays the guard's T+1 does not know do no harm.
FundedFromSettled ==
    pc = "send" => \A r \in asked :
        r.side = "buy" =>
            r.qty <= cash - Total(orders, UnsettledSales) + Total(orders, BoughtSince(client.orders))
=============================================================================
