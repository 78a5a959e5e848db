------------------------------ MODULE Overlays ------------------------------
(***************************************************************************)
(* What stands between the equities strategy and an order: the rules       *)
(* signal (src/strategy_engine.py), the indicators that modulate it, the   *)
(* news filter, the market-regime brake and the liquidity screen           *)
(* (src/equity_intelligence/).  Operators only; EquityCycle says when each *)
(* reading is taken.                                                       *)
(*                                                                         *)
(* Shares and multipliers are percentages, a confidence counts millionths. *)
(* A reading has a state: "none" where no provider is configured, "error"  *)
(* where the vendor failed, "read" otherwise.                              *)
(***************************************************************************)
EXTENDS Integers, FiniteSetsExt, TLC

VARIABLE rules  \* the sections of strategy.yaml and trading_rules.yaml read here

Missing == -1   \* a value the vendor left out

Firm == 600000  \* the confidence of a rules signal that acts: 0.60

\* What the sections may hold.  Nothing checks their ranges: multipliers and
\* confidences are clamped where they are used, and a lookback below one day is
\* taken as one.
Rules ==
    [profile : [buy : SUBSET STRING, sell : SUBSET STRING],
     ind     : [enabled : BOOLEAN, required : BOOLEAN, up : Int, down : Int, cold : Int, over : Int,
                bull : Int, bear : Int, onDown : STRING, onHot : STRING, onOver : STRING,
                onBear : STRING, hotAt : Int, overAt : Int, coldAt : Int, ceiling : Int,
                floor : Int],
     news    : [enabled : BOOLEAN, required : BOOLEAN, hours : Int, labels : SUBSET STRING,
                minimum : Int, strongAt : Int, negativeAt : Int, onStrong : STRING,
                onNegative : STRING, strong : Int, negative : Int, floor : Int],
     breadth : [enabled : BOOLEAN, required : BOOLEAN, close : Int, minimum : Int, lookback : Nat,
                onAt : Int, offAt : Int, offBlocks : BOOLEAN, on : Int, neutral : Int, off : Int,
                least : Int],
     liq     : [enabled : BOOLEAN, required : BOOLEAN, bars : Int, stale : Int, close : Int,
                volume : Int, dollars : Int]]

Least(a, b) == IF a <= b THEN a ELSE b

Times(amount, pct) == (amount * pct) \div 100

-----------------------------------------------------------------------------
(***************************************************************************)
(* The rules signal, from the last price and the values of its history.    *)
(***************************************************************************)

\* The two exits the price would decide are named in the profile and never met.
Met(name, h) ==
    CASE name = "ema20_above_ema50"      -> h.ema20 > h.ema50
      [] name = "rsi_between_35_and_70"  -> h.rsi \in 35..70
      [] name = "momentum_5_positive"    -> h.momentum > 0
      [] name = "momentum_5_negative"    -> h.momentum < 0
      [] name = "rsi_above_75"           -> h.rsi > 75
      [] name \in {"stop_loss_hit", "take_profit_hit"} -> FALSE

Signal(side, confidence) == [side |-> side, rules |-> side, confidence |-> confidence]

Hold == Signal("hold", 0)

\* generate_signal: any exit condition closes a position, all entry conditions
\* and no exit condition open one.
RulesSignal(h, open) ==
    LET sell == \E name \in rules.profile.sell : Met(name, h)
        buy  == rules.profile.buy # {} /\ \A name \in rules.profile.buy : Met(name, h)
    IN  IF ~h.warm THEN Hold
        ELSE IF open /\ sell THEN Signal("sell", Firm)
        ELSE IF ~open /\ buy /\ ~sell THEN Signal("buy", Firm)
        ELSE Hold

-----------------------------------------------------------------------------
(***************************************************************************)
(* Indicators and news modulate an entry or skip it.                       *)
(***************************************************************************)

\* The indicators are the newest points of four series; a series may be empty.
Compared(a, b) ==
    CASE Missing \in {a, b}     -> "missing"
      [] Missing \notin {a, b}  -> IF a > b THEN "above" ELSE IF a < b THEN "below" ELSE "level"

IndicatorOf(point) ==
    [state |-> "read", fast |-> point.fast, slow |-> point.slow, rsi |-> point.rsi,
     macd |-> point.macd, signal |-> point.signal]

\* summarize_news: articles of the window with a label for this very symbol.
NewsOf(articles) ==
    LET recent == {a \in DOMAIN articles :
                      articles[a].age # Missing /\ articles[a].age <= rules.news.hours}
        rated  == {a \in recent : articles[a].label # "none"}
    IN  [state |-> "read", rated |-> Cardinality(rated),
         negative |-> Cardinality({a \in rated : articles[a].label \in rules.news.labels})]

Skipped(sig) == [sig EXCEPT !.side = "hold", !.confidence = 0]

Unread(reading) == reading.state # "read"

\* What one component says: to skip, or a multiplier.
Factor(pct) == [skip |-> FALSE, pct |-> pct]
On(mode, pct) == IF mode = "skip" THEN [skip |-> TRUE, pct |-> 100] ELSE Factor(pct)
IfRequired == On(IF rules.ind.required THEN "skip" ELSE "pass", 100)

Band(rsi) ==
    IF rsi = Missing THEN "missing"
    ELSE IF rsi >= rules.ind.hotAt THEN "hot"
    ELSE IF rsi >= rules.ind.overAt THEN "over"
    ELSE IF rsi <= rules.ind.coldAt THEN "cold" ELSE "mid"

Trend == [missing |-> IfRequired, level |-> Factor(100), above |-> Factor(rules.ind.up),
          below   |-> On(rules.ind.onDown, rules.ind.down)]
Rsi   == [missing |-> IfRequired, mid |-> Factor(100), cold |-> Factor(rules.ind.cold),
          over    |-> On(rules.ind.onOver, rules.ind.over),
          hot     |-> On(rules.ind.onHot, rules.ind.over)]
Macd  == [missing |-> IfRequired, level |-> Factor(100), above |-> Factor(rules.ind.bull),
          below   |-> On(rules.ind.onBear, rules.ind.bear)]

Parts(i) == <<Trend[Compared(i.fast, i.slow)], Rsi[Band(i.rsi)], Macd[Compared(i.macd, i.signal)]>>

\* modulated_confidence: never below zero, never above the ceiling.
Modulated(confidence, parts) ==
    LET weighed == Times(Times(Times(confidence, parts[1].pct), parts[2].pct), parts[3].pct)
    IN  Least(IF weighed < 0 THEN 0 ELSE weighed, rules.ind.ceiling)

\* Broken variant: the first component that has an opinion decides.
AfterIndicatorsFirst(sig, i) ==
    LET parts == Parts(i)
        skip  == IF Unread(i) THEN rules.ind.enabled /\ rules.ind.required
                 ELSE parts[1].skip
    IN  IF sig.side # "buy" THEN sig
        ELSE IF skip THEN Skipped(sig)
        ELSE IF Unread(i) THEN sig
        ELSE [sig EXCEPT !.confidence = Modulated(@, parts)]

\* evaluate_indicators and apply_indicator_modulation.
AfterIndicators(sig, i) ==
    LET parts == Parts(i)
        skip  == IF Unread(i) THEN rules.ind.enabled /\ rules.ind.required
                 ELSE \/ \E k \in 1..3 : parts[k].skip
                      \/ Modulated(sig.confidence, parts) < rules.ind.floor
    IN  IF sig.side # "buy" THEN sig
        ELSE IF skip THEN Skipped(sig)
        ELSE IF Unread(i) THEN sig
        ELSE [sig EXCEPT !.confidence = Modulated(@, parts)]

\* A multiplier may reduce only.
Reducing(pct) == IF pct < 0 THEN 0 ELSE Least(pct, 100)

Share(part, whole, pct) == part * 100 >= pct * whole

Tone(n) ==
    CASE n.rated < rules.news.minimum -> "thin"
      [] n.rated >= rules.news.minimum /\ n.rated > 0 /\ Share(n.negative, n.rated, rules.news.strongAt) -> "strong"
      [] n.rated >= rules.news.minimum /\ n.rated > 0 /\ Share(n.negative, n.rated, rules.news.negativeAt)
            /\ ~Share(n.negative, n.rated, rules.news.strongAt) -> "negative"
      [] OTHER -> "fine"

Heard == [thin     |-> On(IF rules.news.required THEN "skip" ELSE "pass", 100),
          fine     |-> Factor(100),
          negative |-> On(rules.news.onNegative, Reducing(rules.news.negative)),
          strong   |-> On(rules.news.onStrong, Reducing(rules.news.strong))]

\* evaluate_news_sentiment and apply_sentiment_filter.
AfterNews(sig, n) ==
    LET tone     == Heard[Tone(n)]
        filtered == Times(sig.confidence, tone.pct)
        skip     == IF Unread(n) THEN rules.news.enabled /\ rules.news.required
                    ELSE \/ tone.skip
                         \/ Tone(n) \in {"negative", "strong"} /\ filtered < rules.news.floor
    IN  IF sig.side # "buy" THEN sig
        ELSE IF skip THEN Skipped(sig)
        ELSE IF Unread(n) THEN sig
        ELSE [sig EXCEPT !.confidence = Least(filtered, @)]

-----------------------------------------------------------------------------
(***************************************************************************)
(* The market-regime brake scales an entry or blocks it.                   *)
(***************************************************************************)

\* summarize_breadth: the rows with prices above the floor, and how they closed.
BreadthOf(rows) ==
    LET counted == {r \in DOMAIN rows :
                       /\ rows[r].open > 0 /\ rows[r].close > 0
                       /\ rows[r].close >= rules.breadth.close}
    IN  [state |-> "read", counted |-> Cardinality(counted),
         up   |-> Cardinality({r \in counted : rows[r].close > rows[r].open}),
         down |-> Cardinality({r \in counted : rows[r].close < rows[r].open})]

Moved(b) == b.up + b.down

WideEnough(b) == b.counted >= rules.breadth.minimum

Regime(b) ==
    CASE ~rules.breadth.enabled -> "disabled"
      [] rules.breadth.enabled /\ (Unread(b) \/ ~WideEnough(b) \/ Moved(b) = 0) -> "unknown"
      [] OTHER ->
            IF b.up * 100 <= rules.breadth.offAt * Moved(b) THEN "off"
            ELSE IF Share(b.up, Moved(b), rules.breadth.onAt) THEN "on" ELSE "neutral"

BlocksEntries(b) ==
    \/ Regime(b) = "off" /\ rules.breadth.offBlocks
    \/ Regime(b) = "unknown" /\ rules.breadth.required

Multiplier(b) ==
    [disabled |-> 100, unknown |-> 100, off |-> Reducing(rules.breadth.off),
     on |-> Reducing(rules.breadth.on), neutral |-> Reducing(rules.breadth.neutral)][Regime(b)]

\* scaled_amount, and the least size an entry may have.
ScaledAmount(base, b) == Least(Times(base, Multiplier(b)), base)

EntryAllowed(base, b) ==
    \/ Regime(b) = "disabled"
    \/ ~BlocksEntries(b) /\ ScaledAmount(base, b) > 0 /\ ScaledAmount(base, b) >= rules.breadth.least

-----------------------------------------------------------------------------
(***************************************************************************)
(* The tradability gate: the connector's quote, then the liquidity screen. *)
(***************************************************************************)

\* summarize_liquidity, from bars with a day, a close and a volume; totals, not
\* averages.
LiquidityOf(bars, today) ==
    LET traded == {b \in bars : b.close > 0}
        newest == CHOOSE b \in traded : \A c \in traded : c.day <= b.day
    IN  IF traded = {}
        THEN [state |-> "read", bars |-> 0, stale |-> Missing, close |-> Missing,
              volume |-> Missing, dollars |-> Missing]
        ELSE [state |-> "read", bars |-> Cardinality(traded),
              stale |-> IF today > newest.day THEN today - newest.day ELSE 0,
              close |-> newest.close,
              volume |-> MapThenSumSet(LAMBDA b : b.volume, traded),
              dollars |-> MapThenSumSet(LAMBDA b : b.volume * b.close, traded)]

\* A floor of 0 is none; a value that is missing is below any other.
AtLeast(value, floor) == floor > 0 => value >= floor

Liquid(l) ==
    \/ ~rules.liq.enabled
    \/ Unread(l) /\ ~rules.liq.required
    \/ /\ ~Unread(l)
       /\ l.bars >= rules.liq.bars
       /\ rules.liq.stale > 0 => l.stale # Missing /\ l.stale <= rules.liq.stale
       /\ AtLeast(l.close, rules.liq.close)
       /\ AtLeast(l.volume, rules.liq.volume * l.bars)
       /\ AtLeast(l.dollars, rules.liq.dollars * l.bars)

Quoted(quote) == quote = "active"
=============================================================================
