----------------------------- MODULE EquityCycle -----------------------------
(***************************************************************************)
(* The bounded paper loop of the equities lane, run_equity_paper_loop of   *)
(* src/equity_runtime.py, as far as what it reads decides what it trades.  *)
(*                                                                         *)
(* A loop builds its providers and their client once.  Each cycle screens  *)
(* the universe, takes the market's breadth, and walks the symbols: rules  *)
(* signal, indicators, news, brake, order.  A provider answers from its    *)
(* own cache for as long as the loop lives, failures included, while the   *)
(* day goes on and the operator may raise the stop file.  Ledger and audit *)
(* log are in EquityPaper; what the risk manager refuses here is chosen    *)
(* freely, except that it reads the kill switch again.                     *)
(***************************************************************************)
EXTENDS Overlays, MassiveClient

CONSTANTS
    Configs,     \* what the two files may say
    Universe,    \* number of symbols
    Cap,         \* max_trade_amount_usd
    Iterations,  \* bound of the loop
    MaxLoops,    \* bound: loops of a behaviour
    Weekend,     \* days without a session
    FirstDay,    \* day of the first loop
    Markets,     \* rows of the session of each day, as it may turn out
    Histories, Points, Articles, Bars  \* what else may be read

ASSUME CycleAssumption ==
    /\ {Universe, Cap, Iterations, MaxLoops, FirstDay} \subseteq Nat
    /\ Configs \subseteq Rules
    /\ \A r \in Configs : r.breadth.lookback <= FirstDay
    /\ FirstDay <= LastDay
    /\ \A m \in Markets : DOMAIN m = 0..LastDay

\* What the vendor sends is finite and its values are numbers.
ASSUME VendorAssumption ==
    /\ \A m \in Markets : \A d \in 0..LastDay :
          /\ IsFiniteSet(DOMAIN m[d])
          /\ \A r \in DOMAIN m[d] : m[d][r] \in [open : Int, close : Int]
    /\ Points \subseteq [fast : Int, slow : Int, rsi : Int, macd : Int, signal : Int]
    /\ \A a \in Articles : IsFiniteSet(DOMAIN a)

Symbols == 1..Universe

Endpoint == {"bars", "indicators", "news"}

GroupedDaily(session) == <<"grouped", session>>
AllPaths == {GroupedDaily(d) : d \in 0..LastDay}
            \cup (Endpoint \X Symbols)

ASSUME PathAssumption == AllPaths \subseteq Path

VARIABLES
    stop,    \* the STOP_TRADING_EQUITIES file exists
    market,  \* rows of the session of each day
    held,    \* symbols with a paper position
    job,     \* the loop
    brake,   \* the breadth provider's cache: empty or one reading
    seen,    \* the other providers' caches, by endpoint and symbol
    loops,   \* loops so far (bounds them)
    failed   \* history: paths that failed in this loop

loopVars == <<stop, market, held, job, brake, seen, loops, failed>>
vars == <<rules, clientVars, loopVars>>

NoBreadth   == [state |-> "error", counted |-> 0, up |-> 0, down |-> 0]
NoIndicator == [state |-> "error", fast |-> Missing, slow |-> Missing, rsi |-> Missing,
                macd |-> Missing, signal |-> Missing]
NoNews      == [state |-> "error", rated |-> 0, negative |-> 0]
NoLiquidity == [state |-> "error", bars |-> 0, stale |-> Missing, close |-> Missing,
                volume |-> Missing, dollars |-> Missing]

Absent(reading) == [reading EXCEPT !.state = "none"]

Pc == {"idle", "top", "begin", "screen", "liquidity", "breadth", "price",
       "symbol", "indicators", "news", "size", "submit"}

NoJob == [pc |-> "idle", left |-> 0, today |-> FirstDay, at |-> 1, offset |-> 1,
          tradable |-> {}, sig |-> Hold, amount |-> 0]

Nothing == [e \in Endpoint |-> [s \in Symbols |-> {}]]

Side == {"buy", "sell", "hold"}

Job == [pc : Pc, left : 0..Iterations, today : FirstDay..LastDay, at : 1..(Universe + 1),
        offset : Nat, tradable : SUBSET Symbols, amount : 0..Cap,
        sig : [side : Side, rules : Side, confidence : Int]]

TypeOK ==
    /\ rules \in Configs /\ market \in Markets
    /\ stop \in BOOLEAN /\ held \subseteq Symbols
    /\ day \in FirstDay..LastDay /\ {clock, faults, sent, refused, loops} \subseteq Nat
    /\ ask \in Question /\ cache \subseteq Path \X (0..LastDay)
    /\ last \subseteq 0..clock /\ \A s, t \in last : s = t
    /\ brake \subseteq {BreadthOf(market[d]) : d \in 0..LastDay} \cup {NoBreadth}
    /\ \A b, c \in brake : b = c
    /\ job \in Job /\ job.offset \in 1..(rules.breadth.lookback + 1)
    /\ failed \subseteq Path

Init ==
    /\ rules \in Configs
    /\ day = FirstDay /\ ClientInit
    /\ stop = FALSE /\ held \in SUBSET Symbols
    /\ market \in Markets
    /\ job = NoJob /\ brake = {} /\ seen = Nothing
    /\ loops = 0 /\ failed = {}

-----------------------------------------------------------------------------
(***************************************************************************)
(* A reading: from the provider's cache, or asked of the client.           *)
(***************************************************************************)

Goto(pc) == [job EXCEPT !.pc = pc]

\* The question is put.
Put(path) ==
    /\ ask.stage = "idle"
    /\ Ask(path)
    /\ UNCHANGED <<day, clock, last, cache, faults, sent, refused, loopVars>>

\* The answer is taken; a failure is an answer too.
Taken == ask.stage \in {"answered", "failed"}

Take ==
    /\ ask' = Quiet(ask.path)
    /\ failed' = IF ask.stage = "failed" THEN failed \cup {ask.path} ELSE failed
    /\ UNCHANGED <<day, clock, last, cache, faults, sent, refused>>

\* MassiveLiquidityProvider, MassiveIndicatorProvider and
\* MassiveNewsSentimentProvider: snapshot.  The four indicator requests are one
\* here, since the failure of any is the failure of the reading.
Snapshot(endpoint, readings, error) ==
    \/ /\ seen[endpoint][job.at] = {}
       /\ Put(<<endpoint, job.at>>)
    \/ /\ Taken /\ Take
       /\ \E r \in IF ask.stage = "answered" THEN readings ELSE {error} :
             seen' = [seen EXCEPT ![endpoint][job.at] = {r}]
       /\ UNCHANGED <<stop, market, held, job, brake, loops>>

\* What the gate or the strategy works with, once it is there.
Readings(endpoint, enabled, error) ==
    IF enabled THEN seen[endpoint][job.at] ELSE {Absent(error)}

-----------------------------------------------------------------------------
(***************************************************************************)
(* The loop.                                                               *)
(***************************************************************************)

\* Providers and client are new; `today' is the day the loop was built.
Start ==
    /\ job.pc = "idle" /\ loops < MaxLoops
    /\ loops' = loops + 1
    /\ NewClient
    /\ brake' = {} /\ seen' = Nothing /\ failed' = {}
    /\ job' = [NoJob EXCEPT !.pc = "top", !.left = Iterations, !.today = day]
    /\ UNCHANGED <<day, clock, ask, faults, sent, refused, stop, market, held>>

Step(after) ==
    /\ job' = after
    /\ UNCHANGED <<clientVars, stop, market, held, brake, seen, loops, failed>>

\* Complete or halted, the loop is over.
Leave ==
    /\ job.pc = "top" /\ (job.left = 0 \/ stop)
    /\ Step(NoJob)

\* Broken variant: the bound is looked at too late.
NextCycleUnbounded ==
    /\ job.pc = "top" /\ ~stop
    /\ Step([job EXCEPT !.pc = "begin", !.left = @ - 1])

NextCycle ==
    /\ job.pc = "top" /\ job.left > 0 /\ ~stop
    /\ Step([job EXCEPT !.pc = "begin", !.left = @ - 1])

\* run_equity_cycle looks at the kill switch itself.
Begin ==
    /\ job.pc = "begin"
    /\ Step(IF stop THEN Goto("top")
            ELSE [job EXCEPT !.pc = "screen", !.at = 1, !.tradable = {}])

\* equity_tradability: the quote of each symbol, or none of them where the read
\* failed.
Screen ==
    /\ job.pc = "screen" /\ job.at <= Universe
    /\ \E quote \in {"absent", "inactive", "active"} :
          Step(IF Quoted(quote) THEN Goto("liquidity") ELSE [job EXCEPT !.at = @ + 1])

ScreenFails ==
    /\ job.pc = "screen" /\ job.at = 1
    /\ Step([job EXCEPT !.pc = "breadth", !.offset = 1])

Screened ==
    /\ job.pc = "screen" /\ job.at > Universe
    /\ Step([job EXCEPT !.pc = "breadth", !.offset = 1])

ReadLiquidity ==
    /\ job.pc = "liquidity" /\ rules.liq.enabled
    /\ Snapshot("bars", {LiquidityOf(b, job.today) : b \in Bars}, NoLiquidity)

JudgeLiquidity ==
    /\ job.pc = "liquidity"
    /\ \E l \in Readings("bars", rules.liq.enabled, NoLiquidity) :
          Step([job EXCEPT !.pc = "screen", !.at = @ + 1,
                           !.tradable = IF Liquid(l) THEN @ \cup {job.at} ELSE @])

-----------------------------------------------------------------------------
(***************************************************************************)
(* MassiveBreadthProvider.snapshot: back from yesterday to the first       *)
(* session with enough names.                                              *)
(***************************************************************************)

\* Broken variant: the walk starts with today's session, which is still open.
SessionOpen == job.today - job.offset + 1

Session == job.today - job.offset

Walking == job.pc = "breadth" /\ rules.breadth.enabled /\ brake = {}

\* Broken variant: the weekend does not count as a day.
SkipNothing ==
    /\ Walking /\ job.offset <= rules.breadth.lookback /\ Session \in Weekend
    /\ Step(job)

SkipWeekend ==
    /\ Walking /\ job.offset <= rules.breadth.lookback /\ Session \in Weekend
    /\ Step([job EXCEPT !.offset = @ + 1])

AskBreadth ==
    /\ Walking /\ job.offset <= rules.breadth.lookback /\ Session \notin Weekend
    /\ Put(GroupedDaily(Session))

Counted ==
    /\ Walking /\ ask.stage = "answered" /\ Take
    /\ LET reading == BreadthOf(market[Session])
       IN  IF WideEnough(reading)
           THEN brake' = {reading} /\ UNCHANGED job
           ELSE brake' = brake /\ job' = [job EXCEPT !.offset = @ + 1]
    /\ UNCHANGED <<stop, market, held, seen, loops>>

\* A failure is kept like a reading.
BreadthFails ==
    /\ Walking /\ ask.stage = "failed" /\ Take
    /\ brake' = {NoBreadth}
    /\ UNCHANGED <<stop, market, held, job, seen, loops>>

NoSession ==
    /\ Walking /\ job.offset > rules.breadth.lookback
    /\ brake' = {NoBreadth}
    /\ UNCHANGED <<clientVars, stop, market, held, job, seen, loops, failed>>

BreadthKnown ==
    /\ job.pc = "breadth" /\ (brake # {} \/ ~rules.breadth.enabled)
    /\ Step(Goto("price"))

Breadth == IF rules.breadth.enabled THEN CHOOSE b \in brake : TRUE ELSE Absent(NoBreadth)

\* Prices of tradable symbols; a symbol may have none, a failed read gives none.
Price ==
    /\ job.pc = "price"
    /\ \E priced \in SUBSET job.tradable :
          Step([job EXCEPT !.pc = "symbol", !.at = 1, !.tradable = priced])

-----------------------------------------------------------------------------
(***************************************************************************)
(* One symbol after the other.                                             *)
(***************************************************************************)

Passed == [job EXCEPT !.pc = "symbol", !.at = @ + 1, !.sig = Hold, !.amount = 0]

\* The kill switch is read before each symbol.
CycleOver ==
    /\ job.pc = "symbol" /\ (job.at > Universe \/ stop)
    /\ Step(Goto("top"))

Pass ==
    /\ job.pc = "symbol" /\ job.at <= Universe /\ ~stop /\ job.at \notin job.tradable
    /\ Step(Passed)

Evaluate ==
    /\ job.pc = "symbol" /\ job.at <= Universe /\ ~stop /\ job.at \in job.tradable
    /\ \E h \in Histories :
          Step([job EXCEPT !.pc = "indicators", !.sig = RulesSignal(h, job.at \in held)])

\* Both readings are taken whatever the rules say.
ReadIndicators ==
    /\ job.pc = "indicators" /\ rules.ind.enabled
    /\ Snapshot("indicators", {IndicatorOf(p) : p \in Points}, NoIndicator)

Indicate ==
    /\ job.pc = "indicators"
    /\ \E i \in Readings("indicators", rules.ind.enabled, NoIndicator) :
          Step([job EXCEPT !.pc = "news", !.sig = AfterIndicators(@, i)])

ReadNews ==
    /\ job.pc = "news" /\ rules.news.enabled
    /\ Snapshot("news", {NewsOf(a) : a \in Articles}, NoNews)

Filter ==
    /\ job.pc = "news"
    /\ \E n \in Readings("news", rules.news.enabled, NoNews) :
          Step([job EXCEPT !.pc = "size", !.sig = AfterNews(@, n)])

\* Broken variant: the brake looks at every signal.
SizeAll ==
    /\ job.pc = "size"
    /\ Step(IF EntryAllowed(Cap, Breadth)
            THEN [job EXCEPT !.pc = "submit", !.amount = ScaledAmount(Cap, Breadth)]
            ELSE Passed)

\* The brake looks at entries only; an exit keeps the cap.
Size ==
    /\ job.pc = "size"
    /\ Step(IF job.sig.side # "buy" THEN [job EXCEPT !.pc = "submit", !.amount = Cap]
            ELSE IF EntryAllowed(Cap, Breadth)
            THEN [job EXCEPT !.pc = "submit", !.amount = ScaledAmount(Cap, Breadth)]
            ELSE Passed)

Fill ==
    /\ job.pc = "submit" /\ ~stop /\ job.sig.side # "hold"
    /\ held' = IF job.sig.side = "buy" THEN held \cup {job.at} ELSE held \ {job.at}
    /\ job' = Passed
    /\ UNCHANGED <<clientVars, stop, market, brake, seen, loops, failed>>

Refuse ==
    /\ job.pc = "submit"
    /\ Step(Passed)

ToggleStop ==
    /\ stop' = ~stop
    /\ UNCHANGED <<clientVars, market, held, job, brake, seen, loops, failed>>

Loop ==
    \/ Start \/ Leave \/ NextCycle \/ Begin
    \/ Screen \/ ScreenFails \/ Screened \/ ReadLiquidity \/ JudgeLiquidity
    \/ SkipWeekend \/ AskBreadth \/ Counted \/ BreadthFails \/ NoSession \/ BreadthKnown
    \/ Price \/ CycleOver \/ Pass \/ Evaluate
    \/ ReadIndicators \/ Indicate \/ ReadNews \/ Filter \/ Size \/ Fill \/ Refuse

Asking == ClientStep /\ UNCHANGED loopVars

\* The files are not edited while a loop runs.
Next ==
    /\ UNCHANGED rules
    /\ \/ Loop
       \/ Asking
       \/ Midnight /\ UNCHANGED loopVars
       \/ ToggleStop

Spec == Init /\ [][Next]_vars

\* The process is scheduled, and no request hangs: the http client has a
\* timeout.
FairSpec == Spec /\ WF_vars((Loop \/ Asking) /\ UNCHANGED rules)

-----------------------------------------------------------------------------
(***************************************************************************)
(* Properties.                                                             *)
(***************************************************************************)

Entering == job.pc = "submit" /\ job.sig.side = "buy"

\* What is submitted as a buy was a buy of the rules, within the cap, and every
\* reading its section requires was there; what the rules sell is submitted as
\* a sell, with the whole cap.
Reduced ==
    job.pc = "submit" =>
        /\ job.sig.side = "buy" =>
              /\ job.sig.rules = "buy" /\ job.amount <= Cap
              /\ rules.breadth.enabled => job.amount > 0
              /\ rules.ind.required /\ rules.ind.enabled =>
                    \E i \in seen["indicators"][job.at] :
                        i.state = "read" /\ Missing \notin {i.fast, i.slow, i.rsi, i.macd, i.signal}
              /\ rules.news.required /\ rules.news.enabled =>
                    \E n \in seen["news"][job.at] : n.state = "read" /\ n.rated >= rules.news.minimum
        /\ job.sig.rules = "sell" => job.sig.side = "sell" /\ job.amount = Cap

\* A symbol the rules sell is not left before its order, whatever is read for it.
ExitKept ==
    job.pc \in {"indicators", "news", "size"} /\ job.sig.rules = "sell" =>
        /\ job'.pc \in {"indicators", "news", "size", "submit"}
        /\ job'.at = job.at /\ job'.sig.rules = "sell"

\* Behind the rules' signal the overlays may weaken an entry or drop it, and
\* lose no exit (config/trading_rules.yaml:177, :231; equity_runtime.py:413).
\* The liquidity screen comes before the signal and does: a held symbol it drops
\* is not evaluated (equity_runtime.py:352), though liquidity.py:38 promises that
\* it never blocks an exit.
OverlaysOnlyReduce == [][ExitKept /\ Reduced']_vars

\* No reading that says to skip is outweighed by another one.
NoVetoOverruled ==
    Entering =>
        /\ \A i \in seen["indicators"][job.at] : i.state = "read" =>
              /\ ~(Missing \notin {i.fast, i.slow} /\ i.fast < i.slow /\ rules.ind.onDown = "skip")
              /\ ~(i.rsi # Missing /\ i.rsi >= rules.ind.hotAt /\ rules.ind.onHot = "skip")
              /\ job.sig.confidence >= Least(rules.ind.floor, rules.news.floor)
        /\ \A n \in seen["news"][job.at] :
              /\ n.state = "read" /\ n.rated > 0 /\ n.rated >= rules.news.minimum
              /\ n.negative * 100 >= rules.news.strongAt * n.rated
              => rules.news.onStrong # "skip"

\* What session s counts, by the rows themselves.
Priced(s)  == {r \in DOMAIN market[s] : /\ market[s][r].open > 0 /\ market[s][r].close > 0
                                        /\ market[s][r].close >= rules.breadth.close}
Gained(s)  == Cardinality({r \in Priced(s) : market[s][r].close > market[s][r].open})
Stirred(s) == Cardinality({r \in Priced(s) : market[s][r].close # market[s][r].open})
Wide(s)    == Cardinality(Priced(s)) >= rules.breadth.minimum

\* The last session before day d that counted enough names.
LastSession(d) ==
    {s \in (d - rules.breadth.lookback)..(d - 1) :
        /\ s \notin Weekend /\ Wide(s)
        /\ \A t \in (s + 1)..(d - 1) : t \in Weekend \/ ~Wide(t)}

\* An entry follows the breadth of the last closed session before the loop was
\* built, whatever day it is by now, unless a breadth request of this very loop
\* failed (market_regime.py:268, equity_runtime.py:531).
BrakeHolds ==
    /\ Entering /\ rules.breadth.enabled
    /\ \A d \in 0..LastDay : GroupedDaily(d) \notin failed
    => \A s \in LastSession(job.today) : Stirred(s) > 0 =>
          /\ Gained(s) * 100 <= rules.breadth.offAt * Stirred(s) =>
                ~rules.breadth.offBlocks /\ job.amount * 100 <= Cap * rules.breadth.off
          /\ Gained(s) * 100 > rules.breadth.offAt * Stirred(s) =>
                \/ Gained(s) * 100 >= rules.breadth.onAt * Stirred(s)
                \/ job.amount * 100 <= Cap * rules.breadth.neutral

\* The loop asks at most once per interval, and once more for every 429 it got
\* (massive_client.py:33).
RequestBudget ==
    Interval > 0 => sent - refused <= loops + clock \div Interval

\* A bounded loop ends by itself (equity_runtime.py:502).
LoopEnds == job.pc # "idle" ~> job.pc = "idle"
=============================================================================
