-------------------------- MODULE EquityCycleProofs --------------------------
(***************************************************************************)
(* Proofs about EquityCycle, for every configuration the sections may      *)
(* hold, every number of symbols, cycles and loops, and whatever the       *)
(* vendor sends: the types, the request budget, what the overlays may do   *)
(* to a signal, that no veto is overruled and that the brake is the last   *)
(* closed session's.                                                       *)
(***************************************************************************)
EXTENDS EquityCycle, FiniteSetTheorems, TLAPS

-----------------------------------------------------------------------------
(***************************************************************************)
(* Arithmetic of shares.                                                   *)
(***************************************************************************)

\* What a configured multiplier is cut down to.
LEMMA ReducingRange ==
    ASSUME NEW pct \in Int
    PROVE  /\ Reducing(pct) \in 0..100
           /\ pct >= 0 => Reducing(pct) <= pct
           /\ pct < 0 => Reducing(pct) = 0
BY DEF Reducing, Least

LEMMA ProductsOfNat ==
    ASSUME NEW a \in Nat, NEW p \in Nat, NEW q \in Nat, p <= q
    PROVE  a * p \in Nat /\ a * p <= a * q
<1>1. PICK d \in Nat : q = p + d  BY q - p \in Nat
<1>2. a * q = a * p + a * d  BY <1>1
<1>3. a * p \in Nat /\ a * d \in Nat  OBVIOUS
<1> QED BY <1>2, <1>3

\* A share of an amount is not above it, and rounds down.
LEMMA TimesShare ==
    ASSUME NEW a \in Nat, NEW p \in 0..100
    PROVE  Times(a, p) \in 0..a /\ Times(a, p) * 100 <= a * p
<1>1. PICK x \in Nat : x = a * p /\ x <= a * 100
  <2>1. a * p \in Nat /\ a * p <= a * 100  BY ProductsOfNat
  <2> QED BY <2>1
<1>2. (x \div 100) \in Nat /\ (x \div 100) * 100 <= x  BY <1>1
<1>3. Times(a, p) = x \div 100  BY <1>1 DEF Times
<1> QED BY <1>1, <1>2, <1>3

LEMMA TimesInt ==
    ASSUME NEW a \in Int, NEW p \in Int
    PROVE  Times(a, p) \in Int
<1>1. a * p \in Int  OBVIOUS
<1> QED BY <1>1 DEF Times

LEMMA TimesAll ==
    ASSUME NEW a \in Int
    PROVE  Times(a, 100) = a
BY DEF Times

-----------------------------------------------------------------------------
(***************************************************************************)
(* The brake.                                                              *)
(***************************************************************************)

LEMMA RulesTyped ==
    ASSUME TypeOK
    PROVE  /\ rules \in Rules /\ rules.breadth.lookback \in 0..FirstDay
           /\ FirstDay \in Nat /\ LastDay \in Nat /\ FirstDay <= LastDay
           /\ Universe \in Nat /\ Cap \in Nat /\ Iterations \in Nat
<1>1. rules \in Configs /\ rules \in Rules  BY CycleAssumption DEF TypeOK
<1>2. rules.breadth.lookback \in Nat  BY <1>1 DEF Rules
<1>3. /\ FirstDay \in Nat /\ LastDay \in Nat /\ FirstDay <= LastDay
      /\ Universe \in Nat /\ Cap \in Nat /\ Iterations \in Nat
  BY CycleAssumption, ClientAssumption
<1>4. rules.breadth.lookback <= FirstDay  BY <1>1, CycleAssumption
<1> QED BY <1>1, <1>2, <1>3, <1>4

\* The market's state is one of five, and its multiplier a reducing one.
LEMMA RegimeRange ==
    ASSUME rules \in Rules, NEW b
    PROVE  /\ Regime(b) \in {"disabled", "unknown", "off", "on", "neutral"}
           /\ Multiplier(b) \in 0..100
<1>1. Regime(b) \in {"disabled", "unknown", "off", "on", "neutral"}
  BY DEF Regime, Rules
<1>2. {rules.breadth.off, rules.breadth.on, rules.breadth.neutral} \subseteq Int  BY DEF Rules
<1>3. /\ Reducing(rules.breadth.off) \in 0..100 /\ Reducing(rules.breadth.on) \in 0..100
      /\ Reducing(rules.breadth.neutral) \in 0..100
  BY <1>2, ReducingRange
<1> QED BY <1>1, <1>3 DEF Multiplier

LEMMA ScaledRange ==
    ASSUME TypeOK, NEW b
    PROVE  ScaledAmount(Cap, b) \in 0..Cap /\ ScaledAmount(Cap, b) * 100 <= Cap * Multiplier(b)
<1>1. Multiplier(b) \in 0..100  BY RulesTyped, RegimeRange
<1>2. Cap \in Nat  BY RulesTyped
<1>3. Times(Cap, Multiplier(b)) \in 0..Cap /\ Times(Cap, Multiplier(b)) * 100 <= Cap * Multiplier(b)
  BY <1>1, <1>2, TimesShare
<1>4. ScaledAmount(Cap, b) = Times(Cap, Multiplier(b))  BY <1>2, <1>3 DEF ScaledAmount, Least
<1> QED BY <1>3, <1>4

-----------------------------------------------------------------------------
(***************************************************************************)
(* What the rules and the overlays make of a signal.                       *)
(***************************************************************************)

SignalType == [side : Side, rules : Side, confidence : Int]

LEMMA Confidences == Firm \in Int
BY SMT DEF Firm

LEMMA HoldType == Hold \in SignalType /\ Hold.side = "hold" /\ Hold.rules = "hold"
BY Confidences DEF Hold, Signal, SignalType, Side

\* generate_signal says what it says.
LEMMA RulesSignalType ==
    ASSUME NEW h, NEW open
    PROVE  RulesSignal(h, open) \in SignalType /\ RulesSignal(h, open).side = RulesSignal(h, open).rules
<1>1. /\ Signal("sell", Firm) \in SignalType /\ Signal("buy", Firm) \in SignalType
      /\ Signal("sell", Firm).side = Signal("sell", Firm).rules
      /\ Signal("buy", Firm).side = Signal("buy", Firm).rules
  BY Confidences DEF Signal, SignalType, Side
<1>2. RulesSignal(h, open) \in {Hold, Signal("sell", Firm), Signal("buy", Firm)}
  BY DEF RulesSignal
<1> QED BY <1>1, <1>2, HoldType

\* A signal that is skipped opens nothing.
LEMMA SkippedType ==
    ASSUME NEW sig \in SignalType
    PROVE  Skipped(sig) \in SignalType /\ Skipped(sig).side = "hold" /\ Skipped(sig).rules = sig.rules
<1>1. 0 \in Int  OBVIOUS
<1> QED BY <1>1 DEF Skipped, SignalType, Side

\* An overlay's verdict skips, or has a number to multiply with.
LEMMA FactorType ==
    ASSUME NEW mode, NEW pct \in Int
    PROVE  /\ On(mode, pct).pct \in {100, pct}
           /\ On(mode, pct).skip \in BOOLEAN
           /\ On(mode, pct).skip <=> mode = "skip"
           /\ mode # "skip" => On(mode, pct).pct = pct
           /\ Factor(pct).pct = pct /\ ~Factor(pct).skip
BY DEF On, Factor

LEMMA PartsType ==
    ASSUME rules \in Rules, NEW i
    PROVE  \A k \in 1..3 : Parts(i)[k].pct \in Int
<1>1. \A pct \in {100, rules.ind.up, rules.ind.down, rules.ind.cold, rules.ind.over,
                  rules.ind.bull, rules.ind.bear} : pct \in Int
  BY DEF Rules
<1>2. \A mode : \A pct \in Int : On(mode, pct).pct \in Int /\ Factor(pct).pct \in Int
  BY FactorType
<1>3. IfRequired.pct \in Int  BY <1>2 DEF IfRequired
<1>4. /\ Trend.missing.pct \in Int /\ Trend.level.pct \in Int /\ Trend.above.pct \in Int
      /\ Trend.below.pct \in Int
  <2>1. /\ Trend.missing = IfRequired /\ Trend.level = Factor(100)
        /\ Trend.above = Factor(rules.ind.up)
        /\ Trend.below = On(rules.ind.onDown, rules.ind.down)
    BY DEF Trend
  <2> QED BY <2>1, <1>1, <1>2, <1>3
<1>5. /\ Rsi.missing.pct \in Int /\ Rsi.mid.pct \in Int /\ Rsi.cold.pct \in Int
      /\ Rsi.over.pct \in Int /\ Rsi.hot.pct \in Int
  <2>1. /\ Rsi.missing = IfRequired /\ Rsi.mid = Factor(100) /\ Rsi.cold = Factor(rules.ind.cold)
        /\ Rsi.over = On(rules.ind.onOver, rules.ind.over)
        /\ Rsi.hot = On(rules.ind.onHot, rules.ind.over)
    BY DEF Rsi
  <2>2. 100 \in Int /\ rules.ind.cold \in Int /\ rules.ind.over \in Int  BY <1>1
  <2>3. Rsi.mid.pct \in Int /\ Rsi.cold.pct \in Int  BY <2>1, <2>2, <1>2
  <2>4. Rsi.over.pct \in Int /\ Rsi.hot.pct \in Int  BY <2>1, <2>2, <1>2
  <2> QED BY <2>1, <2>3, <2>4, <1>3
<1>11. /\ Macd.missing.pct \in Int /\ Macd.level.pct \in Int /\ Macd.above.pct \in Int
       /\ Macd.below.pct \in Int
  <2>1. /\ Macd.missing = IfRequired /\ Macd.level = Factor(100)
        /\ Macd.above = Factor(rules.ind.bull)
        /\ Macd.below = On(rules.ind.onBear, rules.ind.bear)
    BY DEF Macd
  <2> QED BY <2>1, <1>1, <1>2, <1>3
<1>6. \A a, b : Compared(a, b) \in {"missing", "above", "below", "level"}
  BY DEF Compared
<1>7. Band(i.rsi) \in {"missing", "hot", "over", "cold", "mid"}
  BY DEF Band
<1>8. Trend[Compared(i.fast, i.slow)].pct \in Int  BY <1>4, <1>6
<1>9. Rsi[Band(i.rsi)].pct \in Int  BY <1>5, <1>7
<1>10. Macd[Compared(i.macd, i.signal)].pct \in Int  BY <1>11, <1>6
<1> QED BY <1>8, <1>9, <1>10 DEF Parts

LEMMA ModulatedRange ==
    ASSUME rules \in Rules, NEW i, NEW confidence \in Int
    PROVE  Modulated(confidence, Parts(i)) \in Int
<1>1. Times(Times(Times(confidence, Parts(i)[1].pct), Parts(i)[2].pct), Parts(i)[3].pct) \in Int
  <2>1. /\ Parts(i)[1].pct \in Int /\ Parts(i)[2].pct \in Int /\ Parts(i)[3].pct \in Int
    BY PartsType
  <2>2. Times(confidence, Parts(i)[1].pct) \in Int  BY <2>1, TimesInt
  <2>3. Times(Times(confidence, Parts(i)[1].pct), Parts(i)[2].pct) \in Int  BY <2>1, <2>2, TimesInt
  <2> QED BY <2>1, <2>3, TimesInt
<1>2. rules.ind.ceiling \in Int  BY DEF Rules
<1> QED BY <1>1, <1>2 DEF Modulated, Least

\* The indicators keep what is no entry, and drop or weigh an entry.
LEMMA AfterIndicatorsType ==
    ASSUME rules \in Rules, NEW sig \in SignalType, NEW i
    PROVE  /\ AfterIndicators(sig, i) \in SignalType
           /\ AfterIndicators(sig, i).rules = sig.rules
           /\ AfterIndicators(sig, i).side \in {sig.side, "hold"}
           /\ sig.side # "buy" => AfterIndicators(sig, i) = sig
<1>1. Skipped(sig) \in SignalType /\ Skipped(sig).side = "hold" /\ Skipped(sig).rules = sig.rules
  BY SkippedType
<1>2. /\ [sig EXCEPT !.confidence = Modulated(@, Parts(i))] \in SignalType
      /\ [sig EXCEPT !.confidence = Modulated(@, Parts(i))].rules = sig.rules
      /\ [sig EXCEPT !.confidence = Modulated(@, Parts(i))].side = sig.side
  <2>1. Modulated(sig.confidence, Parts(i)) \in Int  BY ModulatedRange DEF SignalType
  <2> QED BY <2>1 DEF SignalType
<1>3. /\ AfterIndicators(sig, i) \in
            {sig, Skipped(sig), [sig EXCEPT !.confidence = Modulated(@, Parts(i))]}
      /\ sig.side # "buy" => AfterIndicators(sig, i) = sig
  BY DEF AfterIndicators
<1> QED BY <1>1, <1>2, <1>3

\* The news filter multiplies with a share.
LEMMA HeardType ==
    ASSUME rules \in Rules, NEW n
    PROVE  /\ Heard[Tone(n)].pct \in 0..100 /\ Heard[Tone(n)].skip \in BOOLEAN
           /\ Tone(n) \in {"thin", "fine", "negative", "strong"}
           /\ Tone(n) = "thin" => /\ Heard[Tone(n)].skip <=> rules.news.required
                                  /\ Heard[Tone(n)].pct = 100
           /\ Tone(n) = "fine" => Heard[Tone(n)].pct = 100
           /\ Tone(n) = "strong" => Heard[Tone(n)].skip <=> rules.news.onStrong = "skip"
<1>1. Tone(n) \in {"thin", "fine", "negative", "strong"}  BY DEF Tone
<1>2. /\ Reducing(rules.news.negative) \in 0..100 /\ Reducing(rules.news.strong) \in 0..100
  <2>1. rules.news.negative \in Int /\ rules.news.strong \in Int  BY DEF Rules
  <2> QED BY <2>1, ReducingRange
<1>3. /\ Heard.thin = On(IF rules.news.required THEN "skip" ELSE "pass", 100)
      /\ Heard.fine = Factor(100)
      /\ Heard.negative = On(rules.news.onNegative, Reducing(rules.news.negative))
      /\ Heard.strong = On(rules.news.onStrong, Reducing(rules.news.strong))
  BY DEF Heard
<1>4. /\ Heard.thin.pct = 100 /\ Heard.thin.skip \in BOOLEAN
      /\ Heard.thin.skip <=> rules.news.required
  <2>1. rules.news.required \in BOOLEAN  BY DEF Rules
  <2> QED BY <1>3, <2>1 DEF On, Factor
<1>5. Heard.fine.pct = 100 /\ Heard.fine.skip \in BOOLEAN  BY <1>3 DEF Factor
<1>6. Heard.negative.pct \in 0..100 /\ Heard.negative.skip \in BOOLEAN
  BY <1>2, <1>3 DEF On, Factor
<1>7. /\ Heard.strong.pct \in 0..100 /\ Heard.strong.skip \in BOOLEAN
      /\ Heard.strong.skip <=> rules.news.onStrong = "skip"
  BY <1>2, <1>3 DEF On, Factor
<1> QED BY <1>1, <1>4, <1>5, <1>6, <1>7

LEMMA AfterNewsType ==
    ASSUME rules \in Rules, NEW sig \in SignalType, NEW n
    PROVE  /\ AfterNews(sig, n) \in SignalType
           /\ AfterNews(sig, n).rules = sig.rules
           /\ AfterNews(sig, n).side \in {sig.side, "hold"}
           /\ sig.side # "buy" => AfterNews(sig, n) = sig
<1>1. Skipped(sig) \in SignalType /\ Skipped(sig).side = "hold" /\ Skipped(sig).rules = sig.rules
  BY SkippedType
<1> DEFINE filtered == Times(sig.confidence, Heard[Tone(n)].pct)
<1>2. Least(filtered, sig.confidence) \in Int
  <2>1. sig.confidence \in Int  BY DEF SignalType
  <2>2. filtered \in Int
    <3>1. Heard[Tone(n)].pct \in Int
      <4>1. Heard[Tone(n)].pct \in 0..100  BY HeardType
      <4> QED BY <4>1
    <3> QED BY <2>1, <3>1, TimesInt
  <2> QED BY <2>1, <2>2 DEF Least
<1>3. /\ [sig EXCEPT !.confidence = Least(filtered, @)] \in SignalType
      /\ [sig EXCEPT !.confidence = Least(filtered, @)].rules = sig.rules
      /\ [sig EXCEPT !.confidence = Least(filtered, @)].side = sig.side
  <2> HIDE DEF filtered
  <2> QED BY <1>2 DEF SignalType
<1>4. /\ AfterNews(sig, n) \in
            {sig, Skipped(sig), [sig EXCEPT !.confidence = Least(filtered, @)]}
      /\ sig.side # "buy" => AfterNews(sig, n) = sig
  BY DEF AfterNews
<1> HIDE DEF filtered
<1> QED BY <1>1, <1>3, <1>4

-----------------------------------------------------------------------------
(***************************************************************************)
(* Types.  A question is open only where its answer is awaited, and a      *)
(* symbol is at hand where one is read or traded.                          *)
(***************************************************************************)

Placed == job.pc \in {"liquidity", "indicators", "news", "size", "submit"} => job.at \in Symbols

AskedFor(pc, endpoint, enabled) ==
    job.pc = pc /\ enabled /\ seen[endpoint][job.at] = {}

AskedBreadth ==
    /\ Walking /\ job.offset <= rules.breadth.lookback /\ Session \notin Weekend
    /\ ask.path = GroupedDaily(Session)

Asked ==
    ask.stage # "idle" =>
        \/ AskedBreadth
        \/ AskedFor("liquidity", "bars", rules.liq.enabled)
        \/ AskedFor("indicators", "indicators", rules.ind.enabled)
        \/ AskedFor("news", "news", rules.news.enabled)

Retrying == ask.stage = "backoff" => ask.attempt < Retries

TInv == TypeOK /\ Placed /\ Asked /\ Retrying

LEMMA IdleElsewhere ==
    ASSUME TInv, job.pc \notin {"liquidity", "breadth", "indicators", "news"}
    PROVE  ask.stage = "idle"
BY DEF TInv, Asked, AskedBreadth, AskedFor, Walking

\* The session of a walk is a day that is past.
LEMMA SessionRange ==
    ASSUME TypeOK, job.offset <= rules.breadth.lookback
    PROVE  /\ Session \in 0..LastDay /\ GroupedDaily(Session) \in Path
           /\ Session \in (job.today - rules.breadth.lookback)..(job.today - 1)
<1>1. job.today \in FirstDay..LastDay /\ job.offset \in Nat /\ job.offset >= 1
  BY RulesTyped DEF TypeOK, Job
<1>2. Session \in 0..LastDay  BY <1>1, RulesTyped DEF Session
<1>3. GroupedDaily(Session) \in AllPaths  BY <1>2 DEF AllPaths
<1>4. Session \in (job.today - rules.breadth.lookback)..(job.today - 1)
  BY <1>1, RulesTyped DEF Session
<1> QED BY <1>2, <1>3, <1>4, PathAssumption

LEMMA QuietType ==
    ASSUME NEW path \in Path
    PROVE  Quiet(path) \in Question /\ Quiet(path).stage = "idle"
<1>1. 0 \in 0..LastDay /\ 0 \in 0..Retries /\ 1 \in 1..MaxWait  BY ClientAssumption
<1>2. "idle" \in Stage  BY DEF Stage
<1> QED BY <1>1, <1>2 DEF Quiet, Question

LEMMA NoJobType == NoJob \in Job /\ NoJob.pc = "idle" /\ NoJob.offset = 1 /\ NoJob.at = 1
<1>1. /\ 0 \in 0..Iterations /\ FirstDay \in FirstDay..LastDay /\ 1 \in 1..(Universe + 1)
      /\ 1 \in Nat /\ 0 \in 0..Cap /\ {} \in SUBSET Symbols
  BY CycleAssumption, ClientAssumption
<1>2. "idle" \in Pc  BY DEF Pc
<1>3. Hold \in [side : Side, rules : Side, confidence : Int]  BY HoldType DEF SignalType
<1> QED BY <1>1, <1>2, <1>3 DEF NoJob, Job

\* A step of the loop alone.
LEMMA StepT ==
    ASSUME TInv, UNCHANGED rules, NEW after \in Job, Step(after), ask.stage = "idle",
           after.offset \in 1..(rules.breadth.lookback + 1),
           after.pc \in {"liquidity", "indicators", "news", "size", "submit"} => after.at \in Symbols
    PROVE  TInv'
<1>1. job' = after /\ UNCHANGED <<day, clock, last, cache, ask, faults, sent, refused>>
      /\ UNCHANGED <<stop, market, held, brake, seen, loops, failed>>
  BY DEF Step, clientVars
<1>2. TypeOK'
  <2>1. {BreadthOf(market[d]) : d \in 0..LastDay}' = {BreadthOf(market[d]) : d \in 0..LastDay}
    BY <1>1 DEF BreadthOf
  <2> QED BY <1>1, <2>1 DEF TInv, TypeOK
<1>3. Placed'  BY <1>1 DEF Placed
<1>4. Asked' /\ Retrying'  BY <1>1 DEF Asked, Retrying
<1> QED BY <1>2, <1>3, <1>4 DEF TInv

\* The client's own steps.
LEMMA ClientT ==
    ASSUME TInv, UNCHANGED rules, ClientStep, UNCHANGED loopVars
    PROVE  TInv'
<1>1. UNCHANGED <<day, stop, market, held, job, brake, seen, loops, failed>>
  BY DEF loopVars, ClientStep, Throttle, Answered, Raised, RateLimited, Backoff
<1>2. ask \in Question /\ ask' = [ask EXCEPT !.stage = ask'.stage, !.attempt = ask'.attempt, !.delay = ask'.delay]
      /\ ask.stage # "idle" /\ ask'.stage \in Stage
      /\ ask'.attempt \in 0..Retries /\ ask'.delay \in 1..MaxWait
      /\ (ask'.stage = "backoff" => ask'.attempt < Retries)
  <2>1. ask \in Question  BY DEF TInv, TypeOK
  <2>2. CASE Throttle \/ Answered \/ Raised
    <3>1. PICK stage \in Stage \ {"backoff"} : ask' = [ask EXCEPT !.stage = stage]
      BY <2>2 DEF Throttle, Answered, Raised, At, Stage
    <3>2. ask.stage # "idle"  BY <2>2 DEF Throttle, Answered, Raised
    <3> QED BY <2>1, <3>1, <3>2 DEF Question
  <2>3. CASE RateLimited
    <3>1. ask.attempt = Retries \/ ask.attempt < Retries  BY <2>1, ClientAssumption DEF Question
    <3>2. PICK stage \in Stage : /\ ask' = [ask EXCEPT !.stage = stage]
                                 /\ stage = "backoff" => ask.attempt < Retries
      BY <2>3, <3>1 DEF RateLimited, At, Stage
    <3>3. ask.stage # "idle"  BY <2>3 DEF RateLimited
    <3> QED BY <2>1, <3>2, <3>3 DEF Question
  <2>4. CASE Backoff
    <3>1. ask.attempt < Retries /\ ask.attempt \in 0..Retries /\ ask.delay \in 1..MaxWait
      BY <2>1, <2>4 DEF Backoff, TInv, Retrying, Question
    <3>2. ask.attempt + 1 \in 0..Retries
      BY <3>1, ClientAssumption
    <3>3. (IF 2 * ask.delay < MaxWait THEN 2 * ask.delay ELSE MaxWait) \in 1..MaxWait
      BY <3>1, ClientAssumption
    <3>4. PICK delay \in 1..MaxWait :
             ask' = [ask EXCEPT !.stage = "send", !.attempt = ask.attempt + 1, !.delay = delay]
      BY <2>4, <3>3 DEF Backoff
    <3>5. ask.stage # "idle"  BY <2>4 DEF Backoff
    <3>6. "send" \in Stage  BY DEF Stage
    <3> QED BY <2>1, <3>2, <3>4, <3>5, <3>6 DEF Question
  <2> QED BY <2>2, <2>3, <2>4 DEF ClientStep
<1>3. ask' \in Question /\ ask'.path = ask.path  BY <1>2 DEF Question
<1>4. /\ {clock', faults', sent', refused'} \subseteq Nat
      /\ last' \subseteq 0..clock' /\ \A s, t \in last' : s = t
      /\ cache' \subseteq Path \X (0..LastDay)
  <2>1. /\ {clock, faults, sent, refused} \subseteq Nat
        /\ last \subseteq 0..clock /\ \A s, t \in last : s = t
        /\ cache \subseteq Path \X (0..LastDay) /\ Interval \in Nat
    BY ClientAssumption DEF TInv, TypeOK
  <2>2. CASE Throttle
    <3>1. clock' \in Nat /\ clock' >= clock
      <4>1. CASE Interval > 0 /\ \E t \in last : clock - t < Interval
        <5>1. PICK t \in last : clock - t < Interval  BY <4>1
        <5>2. (CHOOSE u \in last : TRUE) = t  BY <2>1, <5>1
        <5>3. clock' = t + Interval  BY <2>2, <4>1, <5>2 DEF Throttle
        <5> QED BY <2>1, <5>1, <5>3
      <4> QED BY <2>1, <2>2, <4>1 DEF Throttle
    <3>2. last' = last \/ last' = {clock'}  BY <2>2 DEF Throttle
    <3>3. UNCHANGED <<cache, faults, sent, refused>>  BY <2>2 DEF Throttle
    <3>4. last' \subseteq 0..clock'
      <4>1. \A t \in last : t \in 0..clock'  BY <2>1, <3>1
      <4>2. clock' \in 0..clock'  BY <3>1
      <4> QED BY <3>2, <4>1, <4>2
    <3> QED BY <2>1, <3>1, <3>2, <3>3, <3>4
  <2>3. CASE Answered
    <3>1. ask.key \in Path \X (0..LastDay)  BY <1>2 DEF Question
    <3> QED BY <2>1, <2>3, <3>1 DEF Answered
  <2>4. CASE Raised \/ RateLimited
    <3>1. /\ faults \in Nat /\ sent \in Nat /\ refused \in Nat /\ clock' = clock
          /\ last' = last /\ cache' = cache
      BY <2>1, <2>4 DEF Raised, RateLimited
    <3>2. faults' \in Nat /\ sent' \in Nat /\ refused' \in Nat
      BY <2>4, <3>1 DEF Raised, RateLimited
    <3> QED BY <2>1, <3>1, <3>2
  <2>5. CASE Backoff
    <3>1. PICK wait \in {0, ask.delay, MaxWait} : clock' = clock + wait  BY <2>5 DEF Backoff
    <3>2. wait \in Nat  BY <1>2, ClientAssumption DEF Question
    <3>3. UNCHANGED <<last, cache, faults, sent, refused>>  BY <2>5 DEF Backoff
    <3>4. clock' \in Nat /\ clock' >= clock  BY <2>1, <3>1, <3>2
    <3>5. last' \subseteq 0..clock'  BY <2>1, <3>3, <3>4
    <3> QED BY <2>1, <3>3, <3>4, <3>5
  <2> QED BY <2>2, <2>3, <2>4, <2>5 DEF ClientStep
<1>5. TypeOK'
  <2>1. {BreadthOf(market[d]) : d \in 0..LastDay}' = {BreadthOf(market[d]) : d \in 0..LastDay}
    BY <1>1 DEF BreadthOf
  <2>2. loops' \in Nat  BY <1>1 DEF TInv, TypeOK
  <2> QED BY <1>1, <1>3, <1>4, <2>1, <2>2 DEF TInv, TypeOK
<1>6. Placed'  BY <1>1 DEF TInv, Placed
<1>7. Asked'  BY <1>1, <1>2, <1>3 DEF TInv, Asked, AskedBreadth, AskedFor, Walking, Session
<1>8. Retrying'  BY <1>2 DEF Retrying
<1> QED BY <1>5, <1>6, <1>7, <1>8 DEF TInv

\* A question is put, for what `AskedFor' or `AskedBreadth' say.
LEMMA PutT ==
    ASSUME TInv, UNCHANGED rules, NEW path \in Path, Put(path),
           \/ AskedFor("liquidity", "bars", rules.liq.enabled)
           \/ AskedFor("indicators", "indicators", rules.ind.enabled)
           \/ AskedFor("news", "news", rules.news.enabled)
           \/ /\ Walking /\ job.offset <= rules.breadth.lookback /\ Session \notin Weekend
              /\ path = GroupedDaily(Session)
    PROVE  TInv'
<1>1. UNCHANGED <<day, clock, last, cache, faults, sent, refused>>
      /\ UNCHANGED <<stop, market, held, job, brake, seen, loops, failed>>
  BY DEF Put, loopVars
<1>2. /\ ask' \in Question /\ ask'.path = path /\ ask'.stage # "backoff"
  <2>1. Quiet(path) \in Question  BY QuietType
  <2>2. <<path, day>> \in Path \X (0..LastDay)
    <3>1. day \in 0..LastDay  BY CycleAssumption, ClientAssumption DEF TInv, TypeOK
    <3> QED BY <3>1
  <2>3. PICK stage \in {"failed", "answered", "throttle"} :
            ask' = [Quiet(path) EXCEPT !.key = <<path, day>>, !.stage = stage]
    BY DEF Put, Ask
  <2>4. stage \in Stage  BY DEF Stage
  <2>5. Quiet(path).path = path  BY DEF Quiet
  <2> QED BY <2>1, <2>2, <2>3, <2>4, <2>5 DEF Question
<1>3. TypeOK'
  <2>1. {BreadthOf(market[d]) : d \in 0..LastDay}' = {BreadthOf(market[d]) : d \in 0..LastDay}
    BY <1>1 DEF BreadthOf
  <2> QED BY <1>1, <1>2, <2>1 DEF TInv, TypeOK
<1>4. Placed'  BY <1>1 DEF TInv, Placed
<1>5. Asked'  BY <1>1, <1>2 DEF Asked, AskedBreadth, AskedFor, Walking, Session
<1>6. Retrying'  BY <1>2 DEF Retrying
<1> QED BY <1>3, <1>4, <1>5, <1>6 DEF TInv

\* An answer is taken.
LEMMA TakeT ==
    ASSUME TInv, UNCHANGED rules, Take, UNCHANGED <<stop, market, held, loops>>,
           job' \in Job, job'.offset \in 1..(rules.breadth.lookback + 1),
           job'.pc = job.pc, job'.at = job.at,
           brake' \subseteq {BreadthOf(market[d]) : d \in 0..LastDay} \cup {NoBreadth},
           \A b, c \in brake' : b = c
    PROVE  TInv'
<1>1. UNCHANGED <<day, clock, last, cache, faults, sent, refused>>  BY DEF Take
<1>2. /\ ask' = Quiet(ask.path) /\ ask.path \in Path
      /\ failed' \subseteq Path
  BY DEF Take, TInv, TypeOK, Question
<1>3. ask' \in Question /\ ask'.stage = "idle"  BY <1>2, QuietType
<1>4. TypeOK'
  <2>1. {BreadthOf(market[d]) : d \in 0..LastDay}' = {BreadthOf(market[d]) : d \in 0..LastDay}
    BY DEF BreadthOf
  <2> QED BY <1>1, <1>2, <1>3, <2>1 DEF TInv, TypeOK
<1>5. Placed'  BY DEF TInv, Placed
<1>6. Asked' /\ Retrying'  BY <1>3 DEF Asked, Retrying
<1> QED BY <1>4, <1>5, <1>6 DEF TInv

\* A reading of one of the three endpoints.
LEMMA SnapshotT ==
    ASSUME TInv, UNCHANGED rules, NEW endpoint \in Endpoint, NEW readings, NEW error,
           Snapshot(endpoint, readings, error), job.at \in Symbols,
           seen[endpoint][job.at] = {} =>
               \/ AskedFor("liquidity", "bars", rules.liq.enabled)
               \/ AskedFor("indicators", "indicators", rules.ind.enabled)
               \/ AskedFor("news", "news", rules.news.enabled)
    PROVE  TInv'
<1>1. CASE seen[endpoint][job.at] = {} /\ Put(<<endpoint, job.at>>)
  <2>1. <<endpoint, job.at>> \in Path  BY PathAssumption DEF AllPaths
  <2> QED BY <1>1, <2>1, PutT
<1>2. CASE Taken /\ Take /\ UNCHANGED <<stop, market, held, job, brake, loops>>
  <2>1. /\ job' \in Job /\ job'.offset \in 1..(rules.breadth.lookback + 1)
        /\ job'.pc = job.pc /\ job'.at = job.at
        /\ brake' \subseteq {BreadthOf(market[d]) : d \in 0..LastDay} \cup {NoBreadth}
        /\ \A b, c \in brake' : b = c
    BY <1>2 DEF TInv, TypeOK
  <2> QED BY <1>2, <2>1, TakeT
<1> QED BY <1>1, <1>2 DEF Snapshot

\* What the memory of a loop holds.
LEMMA JobType ==
    ASSUME TypeOK
    PROVE  /\ job \in Job /\ job.pc \in Pc /\ job.left \in 0..Iterations
           /\ job.today \in FirstDay..LastDay
           /\ job.at \in 1..(Universe + 1) /\ job.offset \in Nat /\ job.tradable \in SUBSET Symbols
           /\ job.amount \in 0..Cap /\ job.sig \in SignalType
           /\ job.offset \in 1..(rules.breadth.lookback + 1)
BY DEF TypeOK, Job, SignalType

\* The next place, with everything else as it is.
LEMMA GotoType ==
    ASSUME TypeOK, NEW pc \in Pc
    PROVE  /\ Goto(pc) \in Job /\ Goto(pc).pc = pc /\ Goto(pc).at = job.at
           /\ Goto(pc).offset = job.offset
BY JobType DEF Goto, Job

LEMMA PassedType ==
    ASSUME TypeOK, job.at <= Universe
    PROVE  /\ Passed \in Job /\ Passed.pc = "symbol" /\ Passed.offset = job.offset
           /\ Passed.today = job.today
<1>1. job.at + 1 \in 1..(Universe + 1)  BY JobType, RulesTyped
<1>2. 0 \in 0..Cap  BY RulesTyped
<1>3. "symbol" \in Pc  BY DEF Pc
<1> QED BY <1>1, <1>2, <1>3, JobType, HoldType DEF Passed, Job, SignalType

LEMMA InitT ==
    ASSUME Init
    PROVE  TInv
<1>1. ask \in Question /\ ask.stage = "idle"
  <2>1. (CHOOSE p \in Path : TRUE) \in Path
    <3>1. GroupedDaily(0) \in Path
      <4>1. 0 \in 0..LastDay  BY ClientAssumption
      <4> QED BY <4>1, PathAssumption DEF AllPaths
    <3> QED BY <3>1
  <2> QED BY <2>1, QuietType DEF Init, ClientInit
<1>2. /\ day \in FirstDay..LastDay /\ {clock, faults, sent, refused, loops} \subseteq Nat
      /\ cache \subseteq Path \X (0..LastDay) /\ last \subseteq 0..clock
      /\ \A s, t \in last : s = t
  BY CycleAssumption, ClientAssumption DEF Init, ClientInit
<1>3. job \in Job /\ job.offset \in 1..(rules.breadth.lookback + 1) /\ job.pc = "idle"
  <2>1. rules.breadth.lookback \in Nat  BY CycleAssumption DEF Init, Rules
  <2> QED BY <2>1, NoJobType DEF Init
<1>4. TypeOK  BY <1>1, <1>2, <1>3 DEF Init, TypeOK
<1> QED BY <1>1, <1>3, <1>4 DEF TInv, Placed, Asked, Retrying

LEMMA StartT ==
    ASSUME TInv, UNCHANGED rules, Start
    PROVE  TInv'
<1>1. ask.stage = "idle"  BY IdleElsewhere DEF Start
<1>2. job' \in Job /\ job'.offset = 1 /\ job'.pc = "top"
  <2>1. day \in FirstDay..LastDay  BY DEF TInv, TypeOK
  <2>2. Iterations \in 0..Iterations  BY RulesTyped DEF TInv
  <2>3. "top" \in Pc  BY DEF Pc
  <2> QED BY <2>1, <2>2, <2>3, NoJobType DEF Start, Job
<1>3. loops' \in Nat /\ last' = {} /\ brake' = {} /\ failed' = {} /\ cache' = {}
      /\ UNCHANGED <<day, clock, ask, faults, sent, refused, stop, market, held>>
  BY DEF Start, NewClient, TInv, TypeOK
<1>4. 1 \in 1..(rules.breadth.lookback + 1)  BY RulesTyped DEF TInv
<1>5. TypeOK'  BY <1>2, <1>3, <1>4 DEF TInv, TypeOK
<1>6. Placed'  BY <1>2 DEF Placed
<1>7. Asked' /\ Retrying'  BY <1>1, <1>3 DEF Asked, Retrying
<1> QED BY <1>5, <1>6, <1>7 DEF TInv

\* A cycle begins and ends.
LEMMA CycleT ==
    ASSUME TInv, UNCHANGED rules, Leave \/ NextCycle \/ Begin \/ CycleOver
    PROVE  TInv'
<1>1. ask.stage = "idle"  BY IdleElsewhere DEF Leave, NextCycle, Begin, CycleOver
<1>2. TypeOK  BY DEF TInv
<1>3. 1 \in 1..(rules.breadth.lookback + 1) /\ 1 \in 1..(Universe + 1)  BY <1>2, RulesTyped
<1>4. "begin" \in Pc /\ "screen" \in Pc /\ "top" \in Pc  BY DEF Pc
<1>5. CASE Leave
  BY <1>1, <1>3, <1>5, NoJobType, StepT DEF Leave
<1>6. CASE NextCycle
  <2>1. [job EXCEPT !.pc = "begin", !.left = @ - 1] \in Job
    <3>1. job.left - 1 \in 0..Iterations  BY <1>2, <1>6, JobType, RulesTyped DEF NextCycle
    <3> QED BY <1>2, <1>4, <3>1, JobType DEF Job
  <2>2. /\ [job EXCEPT !.pc = "begin", !.left = @ - 1].pc = "begin"
        /\ [job EXCEPT !.pc = "begin", !.left = @ - 1].offset = job.offset
    BY <1>2, JobType DEF Job
  <2> QED BY <1>1, <1>2, <1>6, <2>1, <2>2, JobType, StepT DEF NextCycle
<1>7. CASE Begin
  <2>1. PICK after \in {Goto("top"), [job EXCEPT !.pc = "screen", !.at = 1, !.tradable = {}]} : Step(after)
    BY <1>7 DEF Begin
  <2>2. after \in Job /\ after.offset = job.offset /\ after.pc \in {"top", "screen"}
    <3>1. CASE after = Goto("top")  BY <1>2, <1>4, <3>1, GotoType
    <3>2. CASE after = [job EXCEPT !.pc = "screen", !.at = 1, !.tradable = {}]
      BY <1>2, <1>3, <1>4, <3>2, JobType DEF Job
    <3> QED BY <2>1, <3>1, <3>2
  <2> QED BY <1>1, <1>2, <2>1, <2>2, JobType, StepT
<1>8. CASE CycleOver
  BY <1>1, <1>2, <1>4, <1>8, GotoType, JobType, StepT DEF CycleOver
<1> QED BY <1>5, <1>6, <1>7, <1>8

\* The universe is screened.
LEMMA ScreenT ==
    ASSUME TInv, UNCHANGED rules, Screen \/ ScreenFails \/ Screened \/ JudgeLiquidity
    PROVE  TInv'
<1>1. TypeOK  BY DEF TInv
<1>2. ask.stage = "idle"
  <2>1. CASE job.pc = "screen"  BY <2>1, IdleElsewhere
  <2>2. CASE JudgeLiquidity
    <3>1. job.pc = "liquidity" /\ (rules.liq.enabled => seen["bars"][job.at] # {})
      BY <2>2 DEF JudgeLiquidity, Readings
    <3> QED BY <3>1 DEF TInv, Asked, AskedBreadth, AskedFor, Walking
  <2> QED BY <2>1, <2>2 DEF Screen, ScreenFails, Screened
<1>3. "screen" \in Pc /\ "liquidity" \in Pc /\ "breadth" \in Pc  BY DEF Pc
<1>4. CASE Screen
  <2>1. job.at \in Symbols /\ job.at + 1 \in 1..(Universe + 1)
    BY <1>1, <1>4, JobType, RulesTyped DEF Screen, Symbols
  <2>2. PICK after \in {Goto("liquidity"), [job EXCEPT !.at = @ + 1]} : Step(after)
    BY <1>4 DEF Screen
  <2>3. /\ after \in Job /\ after.offset = job.offset
        /\ after.pc = "liquidity" => after.at \in Symbols
        /\ after.pc \in {"liquidity", "screen"}
    <3>1. CASE after = Goto("liquidity")  BY <1>1, <1>3, <2>1, <3>1, GotoType
    <3>2. CASE after = [job EXCEPT !.at = @ + 1]
      BY <1>1, <1>4, <2>1, <3>2, JobType DEF Job, Screen
    <3> QED BY <2>2, <3>1, <3>2
  <2> QED BY <1>1, <1>2, <2>2, <2>3, JobType, StepT
<1>5. CASE ScreenFails \/ Screened
  <2>1. Step([job EXCEPT !.pc = "breadth", !.offset = 1])  BY <1>5 DEF ScreenFails, Screened
  <2>2. /\ [job EXCEPT !.pc = "breadth", !.offset = 1] \in Job
        /\ [job EXCEPT !.pc = "breadth", !.offset = 1].pc = "breadth"
        /\ [job EXCEPT !.pc = "breadth", !.offset = 1].offset = 1
    BY <1>1, <1>3, JobType DEF Job
  <2>3. 1 \in 1..(rules.breadth.lookback + 1)  BY <1>1, RulesTyped
  <2> QED BY <1>2, <2>1, <2>2, <2>3, StepT
<1>6. CASE JudgeLiquidity
  <2>1. job.at \in Symbols /\ job.at + 1 \in 1..(Universe + 1)
    <3>1. job.at \in Symbols  BY <1>6 DEF TInv, Placed, JudgeLiquidity
    <3> QED BY <1>1, <3>1, RulesTyped DEF Symbols
  <2>2. PICK tradable \in SUBSET Symbols :
            Step([job EXCEPT !.pc = "screen", !.at = @ + 1, !.tradable = tradable])
    <3>1. job.tradable \in SUBSET Symbols  BY <1>1, JobType
    <3>2. PICK l : Step([job EXCEPT !.pc = "screen", !.at = @ + 1,
                           !.tradable = IF Liquid(l) THEN @ \cup {job.at} ELSE @])
      BY <1>6 DEF JudgeLiquidity
    <3> QED BY <2>1, <3>1, <3>2
  <2> DEFINE after == [job EXCEPT !.pc = "screen", !.at = @ + 1, !.tradable = tradable]
  <2>3. after \in Job /\ after.pc = "screen" /\ after.offset = job.offset
    BY <1>1, <1>3, <2>1, JobType DEF Job
  <2> HIDE DEF after
  <2> QED BY <1>1, <1>2, <2>2, <2>3, JobType, StepT DEF after
<1> QED BY <1>4, <1>5, <1>6

\* A question of a walk is open, or none.
LEMMA WalkAsked ==
    ASSUME TInv, job.pc = "breadth", ask.stage # "idle"
    PROVE  AskedBreadth
BY DEF TInv, Asked, AskedFor

\* The breadth is taken.
LEMMA BreadthT ==
    ASSUME TInv, UNCHANGED rules,
           SkipWeekend \/ AskBreadth \/ Counted \/ BreadthFails \/ NoSession \/ BreadthKnown
    PROVE  TInv'
<1>1. TypeOK  BY DEF TInv
<1>2. job.pc = "breadth"
  BY DEF SkipWeekend, AskBreadth, Counted, BreadthFails, NoSession, BreadthKnown, Walking
<1>3. CASE SkipWeekend
  <2>1. ask.stage = "idle"  BY <1>2, <1>3, WalkAsked DEF AskedBreadth, SkipWeekend
  <2>2. job.offset + 1 \in 1..(rules.breadth.lookback + 1)
    BY <1>1, <1>3, JobType, RulesTyped DEF SkipWeekend
  <2>3. /\ [job EXCEPT !.offset = @ + 1] \in Job
        /\ [job EXCEPT !.offset = @ + 1].pc = job.pc
        /\ [job EXCEPT !.offset = @ + 1].offset = job.offset + 1
    BY <1>1, <2>2, JobType DEF Job
  <2> QED BY <1>2, <1>3, <2>1, <2>2, <2>3, StepT DEF SkipWeekend
<1>4. CASE AskBreadth
  BY <1>1, <1>4, SessionRange, PutT DEF AskBreadth
<1>5. CASE Counted
  <2>1. AskedBreadth  BY <1>2, <1>5, WalkAsked DEF Counted
  <2>2. Session \in 0..LastDay  BY <1>1, <2>1, SessionRange DEF AskedBreadth
  <2>3. brake = {}  BY <2>1 DEF AskedBreadth, Walking
  <2>4. brake' \in {{}, {BreadthOf(market[Session])}}  BY <1>5, <2>3 DEF Counted
  <2>5. /\ brake' \subseteq {BreadthOf(market[d]) : d \in 0..LastDay} \cup {NoBreadth}
        /\ \A b, c \in brake' : b = c
    BY <2>2, <2>4
  <2>6. job.offset + 1 \in 1..(rules.breadth.lookback + 1)
    BY <1>1, <2>1, JobType, RulesTyped DEF AskedBreadth
  <2>7. job' \in {job, [job EXCEPT !.offset = @ + 1]}  BY <1>5 DEF Counted
  <2>8. job' \in Job /\ job'.offset \in 1..(rules.breadth.lookback + 1) /\ job'.pc = job.pc /\ job'.at = job.at
    BY <1>1, <2>6, <2>7, JobType DEF Job
  <2> QED BY <1>5, <2>5, <2>8, TakeT DEF Counted
<1>6. CASE BreadthFails
  <2>1. /\ brake' \subseteq {BreadthOf(market[d]) : d \in 0..LastDay} \cup {NoBreadth}
        /\ \A b, c \in brake' : b = c
    BY <1>6 DEF BreadthFails
  <2> QED BY <1>1, <1>6, <2>1, JobType, TakeT DEF BreadthFails
<1>7. CASE NoSession
  <2>1. ask.stage = "idle"
    <3>1. ~(job.offset <= rules.breadth.lookback)
      BY <1>1, <1>7, JobType, RulesTyped DEF NoSession
    <3> QED BY <1>2, <3>1, WalkAsked DEF AskedBreadth
  <2>2. UNCHANGED <<day, clock, last, cache, ask, faults, sent, refused>>
        /\ UNCHANGED <<stop, market, held, job, seen, loops, failed>> /\ brake' = {NoBreadth}
    BY <1>7 DEF NoSession, clientVars
  <2>3. TypeOK'  BY <1>1, <2>2 DEF TypeOK
  <2>4. Placed' /\ Asked' /\ Retrying'  BY <2>1, <2>2 DEF TInv, Placed, Asked, Retrying
  <2> QED BY <2>3, <2>4 DEF TInv
<1>8. CASE BreadthKnown
  <2>1. ask.stage = "idle"  BY <1>2, <1>8, WalkAsked DEF AskedBreadth, Walking, BreadthKnown
  <2>2. "price" \in Pc  BY DEF Pc
  <2> QED BY <1>1, <1>8, <2>1, <2>2, GotoType, JobType, StepT DEF BreadthKnown
<1> QED BY <1>3, <1>4, <1>5, <1>6, <1>7, <1>8

\* Prices, and what is passed over.
LEMMA PassT ==
    ASSUME TInv, UNCHANGED rules, Price \/ Pass \/ Refuse
    PROVE  TInv'
<1>1. TypeOK  BY DEF TInv
<1>2. ask.stage = "idle"  BY IdleElsewhere DEF Price, Pass, Refuse
<1>3. CASE Price
  <2>1. PICK priced \in SUBSET job.tradable :
            Step([job EXCEPT !.pc = "symbol", !.at = 1, !.tradable = priced])
    BY <1>3 DEF Price
  <2> DEFINE after == [job EXCEPT !.pc = "symbol", !.at = 1, !.tradable = priced]
  <2>2. after \in Job /\ after.pc = "symbol" /\ after.offset = job.offset
    <3>1. "symbol" \in Pc /\ 1 \in 1..(Universe + 1)  BY <1>1, RulesTyped DEF Pc
    <3>2. priced \in SUBSET Symbols  BY <1>1, <2>1, JobType
    <3> QED BY <1>1, <3>1, <3>2, JobType DEF Job
  <2> HIDE DEF after
  <2> QED BY <1>1, <1>2, <2>1, <2>2, JobType, StepT DEF after
<1>4. CASE Pass
  BY <1>1, <1>2, <1>4, PassedType, JobType, StepT DEF Pass
<1>5. CASE Refuse
  <2>1. job.at <= Universe  BY <1>1, <1>5, RulesTyped DEF Refuse, TInv, Placed, Symbols
  <2> QED BY <1>1, <1>2, <1>5, <2>1, PassedType, JobType, StepT DEF Refuse
<1> QED BY <1>3, <1>4, <1>5

\* A signal and the readings that modulate it.
LEMMA SignalT ==
    ASSUME TInv, UNCHANGED rules, Evaluate \/ Indicate \/ Filter \/ Size
    PROVE  TInv'
<1>1. TypeOK /\ rules \in Rules  BY RulesTyped DEF TInv
<1>2. ask.stage = "idle"
  <2>1. CASE Evaluate \/ Size  BY <2>1, IdleElsewhere DEF Evaluate, Size
  <2>2. CASE Indicate
    <3>1. job.pc = "indicators" /\ (rules.ind.enabled => seen["indicators"][job.at] # {})
      BY <2>2 DEF Indicate, Readings
    <3> QED BY <3>1 DEF TInv, Asked, AskedBreadth, AskedFor, Walking
  <2>3. CASE Filter
    <3>1. job.pc = "news" /\ (rules.news.enabled => seen["news"][job.at] # {})
      BY <2>3 DEF Filter, Readings
    <3> QED BY <3>1 DEF TInv, Asked, AskedBreadth, AskedFor, Walking
  <2> QED BY <2>1, <2>2, <2>3
<1>3. "indicators" \in Pc /\ "news" \in Pc /\ "size" \in Pc /\ "submit" \in Pc  BY DEF Pc
<1>4. job.at \in Symbols
  BY <1>1, JobType, RulesTyped DEF Evaluate, Indicate, Filter, Size, TInv, Placed, Symbols
<1>5. CASE Evaluate \/ Indicate \/ Filter
  <2>1. PICK pc \in {"indicators", "news", "size"}, sig \in SignalType :
            Step([job EXCEPT !.pc = pc, !.sig = sig])
    <3>1. CASE Evaluate
      BY <3>1, RulesSignalType DEF Evaluate
    <3>2. CASE Indicate
      BY <1>1, <3>2, JobType, AfterIndicatorsType DEF Indicate
    <3>3. CASE Filter
      BY <1>1, <3>3, JobType, AfterNewsType DEF Filter
    <3> QED BY <1>5, <3>1, <3>2, <3>3
  <2> DEFINE after == [job EXCEPT !.pc = pc, !.sig = sig]
  <2>2. after \in Job /\ after.at = job.at /\ after.offset = job.offset
    <3>1. pc \in Pc  BY <1>3, <2>1
    <3> QED BY <1>1, <3>1, JobType DEF Job, SignalType
  <2> HIDE DEF after
  <2> QED BY <1>1, <1>2, <1>4, <2>1, <2>2, JobType, StepT DEF after
<1>6. CASE Size
  <2>1. Cap \in 0..Cap /\ ScaledAmount(Cap, Breadth) \in 0..Cap
    BY <1>1, RulesTyped, ScaledRange
  <2>2. CASE Step(Passed)
    <3>1. job.at <= Universe  BY <1>1, <1>4, RulesTyped DEF Symbols
    <3> QED BY <1>1, <1>2, <2>2, <3>1, PassedType, JobType, StepT
  <2>3. CASE \E amount \in 0..Cap : Step([job EXCEPT !.pc = "submit", !.amount = amount])
    <3>1. PICK amount \in 0..Cap : Step([job EXCEPT !.pc = "submit", !.amount = amount])
      BY <2>3
    <3> DEFINE after == [job EXCEPT !.pc = "submit", !.amount = amount]
    <3>2. after \in Job /\ after.at = job.at /\ after.offset = job.offset
      BY <1>1, <1>3, JobType DEF Job
    <3> HIDE DEF after
    <3> QED BY <1>1, <1>2, <1>4, <3>1, <3>2, JobType, StepT DEF after
  <2>4. \/ Step(Passed)
        \/ \E amount \in 0..Cap : Step([job EXCEPT !.pc = "submit", !.amount = amount])
    BY <1>6, <2>1 DEF Size
  <2> QED BY <2>2, <2>3, <2>4
<1> QED BY <1>5, <1>6

\* The other readings, an order that is filled, and the operator.
LEMMA ReadT ==
    ASSUME TInv, UNCHANGED rules, ReadLiquidity \/ ReadIndicators \/ ReadNews
    PROVE  TInv'
<1>1. job.at \in Symbols  BY DEF ReadLiquidity, ReadIndicators, ReadNews, TInv, Placed
<1>2. "bars" \in Endpoint /\ "indicators" \in Endpoint /\ "news" \in Endpoint  BY DEF Endpoint
<1>3. CASE ReadLiquidity
  BY <1>1, <1>2, <1>3, SnapshotT DEF ReadLiquidity, AskedFor
<1>4. CASE ReadIndicators
  BY <1>1, <1>2, <1>4, SnapshotT DEF ReadIndicators, AskedFor
<1>5. CASE ReadNews
  BY <1>1, <1>2, <1>5, SnapshotT DEF ReadNews, AskedFor
<1> QED BY <1>3, <1>4, <1>5

LEMMA FillT ==
    ASSUME TInv, UNCHANGED rules, Fill
    PROVE  TInv'
<1>1. TypeOK /\ job.at \in Symbols  BY DEF TInv, Placed, Fill
<1>2. ask.stage = "idle"  BY IdleElsewhere DEF Fill
<1>3. Passed \in Job /\ Passed.pc = "symbol" /\ Passed.offset = job.offset
  BY <1>1, RulesTyped, PassedType DEF Symbols
<1>4. /\ UNCHANGED <<day, clock, last, cache, ask, faults, sent, refused>>
      /\ UNCHANGED <<stop, market, brake, seen, loops, failed>> /\ job' = Passed
      /\ held' \subseteq Symbols
  BY <1>1 DEF Fill, clientVars, TypeOK
<1>5. {BreadthOf(market[d]) : d \in 0..LastDay}' = {BreadthOf(market[d]) : d \in 0..LastDay}
  BY <1>4 DEF BreadthOf
<1>6. TypeOK'  BY <1>1, <1>3, <1>4, <1>5 DEF TypeOK
<1>7. Placed' /\ Asked' /\ Retrying'  BY <1>2, <1>3, <1>4 DEF Placed, Asked, Retrying
<1> QED BY <1>6, <1>7 DEF TInv

LEMMA AroundT ==
    ASSUME TInv, UNCHANGED rules, (Midnight /\ UNCHANGED loopVars) \/ ToggleStop
    PROVE  TInv'
<1>1. /\ UNCHANGED <<clock, last, cache, ask, faults, sent, refused>>
      /\ UNCHANGED <<market, held, job, brake, seen, loops, failed>>
      /\ stop' \in BOOLEAN /\ day' \in FirstDay..LastDay
  <2>1. TypeOK  BY DEF TInv
  <2>2. CASE Midnight /\ UNCHANGED loopVars
    <3>1. day + 1 \in FirstDay..LastDay
      BY <2>1, <2>2, RulesTyped DEF Midnight, TypeOK
    <3> QED BY <2>1, <2>2, <3>1 DEF Midnight, loopVars, TypeOK
  <2>3. CASE ToggleStop
    <3>1. stop' \in BOOLEAN  BY <2>3 DEF ToggleStop
    <3> QED BY <2>1, <2>3, <3>1 DEF ToggleStop, clientVars, TypeOK
  <2> QED BY <2>2, <2>3
<1>2. {BreadthOf(market[d]) : d \in 0..LastDay}' = {BreadthOf(market[d]) : d \in 0..LastDay}
  BY <1>1 DEF BreadthOf
<1>3. TypeOK'  BY <1>1, <1>2 DEF TInv, TypeOK
<1>4. Placed' /\ Retrying'  BY <1>1 DEF TInv, Placed, Retrying
<1>5. Asked'  BY <1>1 DEF TInv, Asked, AskedBreadth, AskedFor, Walking, Session
<1> QED BY <1>3, <1>4, <1>5 DEF TInv

LEMMA StutterT ==
    ASSUME TInv, UNCHANGED vars
    PROVE  TInv'
<1>1. /\ UNCHANGED <<rules, day, clock, last, cache, ask, faults, sent, refused>>
      /\ UNCHANGED <<stop, market, held, job, brake, seen, loops, failed>>
  BY DEF vars, clientVars, loopVars
<1>2. {BreadthOf(market[d]) : d \in 0..LastDay}' = {BreadthOf(market[d]) : d \in 0..LastDay}
  BY <1>1 DEF BreadthOf
<1>3. TypeOK'  BY <1>1, <1>2 DEF TInv, TypeOK
<1>4. Placed' /\ Retrying'  BY <1>1 DEF TInv, Placed, Retrying
<1>5. Asked'  BY <1>1 DEF TInv, Asked, AskedBreadth, AskedFor, Walking, Session
<1> QED BY <1>3, <1>4, <1>5 DEF TInv

LEMMA NextT ==
    ASSUME TInv, [Next]_vars
    PROVE  TInv'
<1>1. CASE Next
  <2>1. CASE Loop
    BY <1>1, <2>1, StartT, CycleT, ScreenT, BreadthT, PassT, SignalT, ReadT, FillT DEF Next, Loop
  <2>2. CASE Asking  BY <1>1, <2>2, ClientT DEF Next, Asking
  <2> QED BY <1>1, <2>1, <2>2, AroundT DEF Next
<1> QED BY <1>1, StutterT

\* The types hold for every configuration, universe and number of loops.
THEOREM TypeCorrect == Spec => []TypeOK
<1>1. Init => TInv  BY InitT
<1>2. TInv /\ [Next]_vars => TInv'  BY NextT
<1>3. TInv => TypeOK  BY DEF TInv
<1> QED BY <1>1, <1>2, <1>3, PTL DEF Spec

LEMMA AlwaysT == Spec => []TInv
<1>1. Init => TInv  BY InitT
<1>2. TInv /\ [Next]_vars => TInv'  BY NextT
<1> QED BY <1>1, <1>2, PTL DEF Spec

-----------------------------------------------------------------------------
(***************************************************************************)
(* The request budget.  A question that was let through and is not yet     *)
(* answered counts; the time of the last request pays for all before it,   *)
(* and a new loop, which knows of none, has one of its own.                *)
(***************************************************************************)

Pending == IF ask.stage \in {"send", "backoff"} THEN 1 ELSE 0

Spent == sent - refused + Pending

Budget ==
    /\ loops = 0 => job.pc = "idle"
    /\ Interval > 0 =>
          /\ last = {} => Spent <= IF loops = 0 THEN 0 ELSE loops - 1 + clock \div Interval
          /\ \A t \in last : Spent <= loops + t \div Interval

\* Quotients by the interval.
LEMMA Quotients ==
    ASSUME NEW i \in Nat \ {0}, NEW a \in Nat, NEW b \in Nat
    PROVE  /\ a \div i \in Nat
           /\ a <= b => a \div i <= b \div i
           /\ a + i <= b => a \div i + 1 <= b \div i
<1>1. PICK q \in Nat, r \in 0..(i - 1) : a = i * q + r /\ a \div i = q
  <2>1. a \div i \in Int /\ a % i \in 0..(i - 1) /\ a = (i * (a \div i)) + (a % i)  OBVIOUS
  <2>2. a \div i \in Nat  OBVIOUS
  <2> QED BY <2>1, <2>2
<1>2. PICK v \in Nat, w \in 0..(i - 1) : b = i * v + w /\ b \div i = v
  <2>1. b \div i \in Int /\ b % i \in 0..(i - 1) /\ b = (i * (b \div i)) + (b % i)  OBVIOUS
  <2>2. b \div i \in Nat  OBVIOUS
  <2> QED BY <2>1, <2>2
<1>3. ASSUME v < q PROVE b + i <= a + (i - 1)
  <2>1. i * (v + 1) <= i * q  BY <1>3, ProductsOfNat
  <2>2. i * (v + 1) = i * v + i  OBVIOUS
  <2>3. PICK x \in Nat, y \in Nat : x = i * v /\ y = i * q  OBVIOUS
  <2> QED BY <1>1, <1>2, <2>1, <2>2, <2>3
<1>4. ASSUME v = q PROVE b <= a + (i - 1)
  <2>1. PICK x \in Nat : x = i * v  OBVIOUS
  <2> QED BY <1>1, <1>2, <1>4, <2>1
<1>5. a <= b => q <= v
  <2>1. SUFFICES ASSUME a <= b, v < q PROVE FALSE  OBVIOUS
  <2> QED BY <1>3, <2>1
<1>6. a + i <= b => q + 1 <= v
  <2>1. SUFFICES ASSUME a + i <= b, ~(q + 1 <= v) PROVE FALSE  OBVIOUS
  <2>2. v < q \/ v = q  BY <2>1
  <2> QED BY <1>3, <1>4, <2>1, <2>2
<1> QED BY <1>1, <1>2, <1>5, <1>6

\* The numbers the budget is made of.
LEMMA BudgetTyped ==
    ASSUME TypeOK
    PROVE  /\ clock \in Nat /\ loops \in Nat /\ sent \in Nat /\ refused \in Nat /\ Interval \in Nat
           /\ last \subseteq 0..clock /\ \A s, t \in last : s = t
BY ClientAssumption DEF TypeOK

\* What the budget says of the request that is on its way.
LEMMA ThrottleB ==
    ASSUME TInv, Budget, Throttle, loops # 0, UNCHANGED <<loops, job>>
    PROVE  Budget'
<1>1. /\ clock \in Nat /\ loops \in Nat /\ sent \in Nat /\ refused \in Nat /\ Interval \in Nat
      /\ last \subseteq 0..clock /\ \A s, t \in last : s = t
  BY BudgetTyped DEF TInv
<1>2. /\ ask.stage = "throttle" /\ ask'.stage = "send" /\ sent' = sent /\ refused' = refused
  <2>1. ask \in Question  BY DEF TInv, TypeOK
  <2> QED BY <2>1 DEF Throttle, At, Question
<1>3. Spent = sent - refused /\ Spent' = sent - refused + 1
  BY <1>1, <1>2 DEF Spent, Pending
<1>4. SUFFICES ASSUME Interval > 0 PROVE
          /\ last' # {}
          /\ \A t \in last' : Spent' <= loops + t \div Interval
  BY DEF Budget
<1>5. last' = {clock'}  BY <1>4 DEF Throttle
<1>6. SUFFICES sent - refused + 1 <= loops + clock' \div Interval  BY <1>3, <1>5
<1>7. CASE last = {}
  <2>1. clock' = clock  BY <1>7 DEF Throttle
  <2>2. Spent <= loops - 1 + clock \div Interval  BY <1>4, <1>7 DEF Budget
  <2>3. clock \div Interval \in Nat  BY <1>1, <1>4, Quotients
  <2> QED BY <1>1, <1>3, <2>1, <2>2, <2>3
<1>8. CASE last # {}
  <2>1. PICK t \in last : TRUE  BY <1>8
  <2>2. t \in Nat /\ t <= clock  BY <1>1, <2>1
  <2>3. clock' \in Nat /\ t + Interval <= clock'
    <3>1. CASE \E u \in last : clock - u < Interval
      <4>1. (CHOOSE u \in last : TRUE) = t  BY <1>1, <2>1
      <4>2. clock' = t + Interval  BY <1>4, <3>1, <4>1 DEF Throttle
      <4> QED BY <1>1, <2>2, <4>2
    <3>2. CASE ~\E u \in last : clock - u < Interval
      <4>1. clock' = clock  BY <3>2 DEF Throttle
      <4>2. ~(clock - t < Interval)  BY <2>1, <3>2
      <4> QED BY <1>1, <2>2, <4>1, <4>2
    <3> QED BY <3>1, <3>2
  <2>4. Spent <= loops + t \div Interval  BY <1>4, <2>1 DEF Budget
  <2>5. PICK now \in Nat : now = clock' /\ t + Interval <= now  BY <2>3
  <2>6. /\ t \div Interval + 1 <= now \div Interval
        /\ t \div Interval \in Nat /\ now \div Interval \in Nat
    <3>1. Interval \in Nat \ {0} /\ t \in Nat /\ now \in Nat  BY <1>1, <1>4, <2>2
    <3> QED BY <2>5, <3>1, Quotients, Zenon
  <2>7. PICK x \in Nat, y \in Nat : x = t \div Interval /\ y = now \div Interval /\ x + 1 <= y
    BY <2>6
  <2>8. Spent <= loops + x  BY <2>4, <2>7
  <2>9. sent - refused + 1 <= loops + y  BY <1>1, <1>3, <2>7, <2>8
  <2> QED BY <2>5, <2>7, <2>9
<1> QED BY <1>7, <1>8

\* Where the request on its way is answered, refused or waits.
LEMMA AnswerB ==
    ASSUME TInv, Budget, Answered \/ Raised \/ RateLimited \/ Backoff, UNCHANGED <<loops, job>>
    PROVE  Budget'
<1>1. /\ clock \in Nat /\ loops \in Nat /\ sent \in Nat /\ refused \in Nat /\ Interval \in Nat
      /\ last \subseteq 0..clock
  BY BudgetTyped DEF TInv
<1>2. ask \in Question /\ UNCHANGED last
  BY DEF TInv, TypeOK, Answered, Raised, RateLimited, Backoff
<1>3. Spent \in Int /\ Spent' \in Int /\ Spent' <= Spent
  <2>1. CASE Answered \/ Raised
    <3>1. ask.stage = "send" /\ ask'.stage \in {"answered", "failed"} /\ sent' = sent + 1
          /\ refused' = refused
      BY <1>2, <2>1 DEF Answered, Raised, At, Question
    <3> QED BY <1>1, <3>1 DEF Spent, Pending
  <2>2. CASE RateLimited
    <3>1. ask.stage = "send" /\ sent' = sent + 1 /\ refused' = refused + 1
      BY <2>2 DEF RateLimited
    <3> QED BY <1>1, <3>1 DEF Spent, Pending
  <2>3. CASE Backoff
    <3>1. ask.stage = "backoff" /\ ask'.stage = "send" /\ sent' = sent /\ refused' = refused
      BY <1>2, <2>3 DEF Backoff, Question
    <3> QED BY <1>1, <3>1 DEF Spent, Pending
  <2> QED BY <2>1, <2>2, <2>3
<1>4. clock' \in Nat /\ clock <= clock'
  <2>1. CASE Backoff
    <3>1. PICK wait \in {0, ask.delay, MaxWait} : clock' = clock + wait  BY <2>1 DEF Backoff
    <3>2. wait \in Nat  BY <1>2, ClientAssumption DEF Question
    <3> QED BY <1>1, <3>1, <3>2
  <2> QED BY <1>1, <2>1 DEF Answered, Raised, RateLimited
<1>5. SUFFICES ASSUME Interval > 0 PROVE
          /\ last = {} => Spent' <= IF loops = 0 THEN 0 ELSE loops - 1 + clock' \div Interval
          /\ \A t \in last : Spent' <= loops + t \div Interval
  BY <1>2 DEF Budget
<1>6. clock \div Interval <= clock' \div Interval /\ clock \div Interval \in Nat
      /\ clock' \div Interval \in Nat
  <2>1. PICK now \in Nat : now = clock' /\ clock <= now  BY <1>4
  <2>2. /\ clock \div Interval <= now \div Interval
        /\ clock \div Interval \in Nat /\ now \div Interval \in Nat
    <3>1. Interval \in Nat \ {0} /\ clock \in Nat /\ now \in Nat  BY <1>1, <1>5
    <3> QED BY <2>1, <3>1, Quotients, Zenon
  <2> QED BY <2>1, <2>2
<1>7. ASSUME last = {}
      PROVE  Spent' <= IF loops = 0 THEN 0 ELSE loops - 1 + clock' \div Interval
  BY <1>1, <1>3, <1>5, <1>6, <1>7 DEF Budget
<1>8. ASSUME NEW t \in last PROVE Spent' <= loops + t \div Interval
  <2>1. t \in Nat  BY <1>1
  <2>2. t \div Interval \in Nat  BY <1>1, <1>5, <2>1, Quotients
  <2>3. Spent <= loops + t \div Interval  BY <1>5 DEF Budget
  <2> QED BY <1>1, <1>3, <2>2, <2>3
<1> QED BY <1>7, <1>8

\* A new loop may ask once more.
LEMMA StartB ==
    ASSUME TInv, Budget, Start
    PROVE  Budget'
<1>1. /\ clock \in Nat /\ loops \in Nat /\ sent \in Nat /\ refused \in Nat /\ Interval \in Nat
      /\ last \subseteq 0..clock
  BY BudgetTyped DEF TInv
<1>2. /\ loops' = loops + 1 /\ last' = {} /\ UNCHANGED <<clock, ask, sent, refused>>
  BY DEF Start, NewClient
<1>3. Spent' = Spent /\ Spent \in Int  BY <1>1, <1>2 DEF Spent, Pending
<1>4. SUFFICES ASSUME Interval > 0 PROVE Spent <= loops + clock \div Interval
  <2>1. loops' # 0 /\ loops' - 1 = loops  BY <1>1, <1>2
  <2> QED BY <1>2, <1>3, <2>1 DEF Budget
<1>5. clock \div Interval \in Nat  BY <1>1, <1>4, Quotients
<1>6. CASE last = {}
  BY <1>1, <1>3, <1>4, <1>5, <1>6 DEF Budget
<1>7. CASE last # {}
  <2>1. PICK t \in last : TRUE  BY <1>7
  <2>2. t \in Nat /\ t <= clock  BY <1>1, <2>1
  <2>3. t \div Interval <= clock \div Interval /\ t \div Interval \in Nat
    BY <1>1, <1>4, <2>2, Quotients
  <2>4. Spent <= loops + t \div Interval  BY <1>4, <2>1 DEF Budget
  <2> QED BY <1>1, <1>3, <1>5, <2>3, <2>4
<1> QED BY <1>6, <1>7

\* Nothing else sends, and nothing but the start of a loop leaves `idle'.
LEMMA QuietB ==
    ASSUME TInv, Budget, UNCHANGED <<clock, last, sent, refused, loops>>,
           ask'.stage \in {"send", "backoff"} => ask.stage \in {"send", "backoff"},
           job.pc = "idle" => job'.pc = "idle"
    PROVE  Budget'
<1>1. /\ clock \in Nat /\ loops \in Nat /\ sent \in Nat /\ refused \in Nat /\ Interval \in Nat
      /\ last \subseteq 0..clock
  BY BudgetTyped DEF TInv
<1>2. Spent' <= Spent /\ Spent \in Int /\ Spent' \in Int  BY <1>1 DEF Spent, Pending
<1>3. SUFFICES ASSUME Interval > 0 PROVE
          /\ last = {} => Spent' <= IF loops = 0 THEN 0 ELSE loops - 1 + clock \div Interval
          /\ \A t \in last : Spent' <= loops + t \div Interval
  BY DEF Budget
<1>4. clock \div Interval \in Nat  BY <1>1, <1>3, Quotients
<1>5. ASSUME last = {}
      PROVE  Spent' <= IF loops = 0 THEN 0 ELSE loops - 1 + clock \div Interval
  BY <1>1, <1>2, <1>3, <1>4, <1>5 DEF Budget
<1>6. ASSUME NEW t \in last PROVE Spent' <= loops + t \div Interval
  <2>1. t \div Interval \in Nat  BY <1>1, <1>3, Quotients
  <2>2. Spent <= loops + t \div Interval  BY <1>3 DEF Budget
  <2> QED BY <1>1, <1>2, <2>1, <2>2
<1> QED BY <1>5, <1>6

\* A step of the loop after its start leaves the client's numbers alone.
LEMMA LoopQuiet ==
    ASSUME TInv, Loop, ~Start
    PROVE  /\ UNCHANGED <<clock, last, sent, refused, loops>> /\ job.pc # "idle"
           /\ ask'.stage \in {"send", "backoff"} => ask.stage \in {"send", "backoff"}
<1>1. ASSUME NEW path, Put(path)
      PROVE  UNCHANGED <<clock, last, sent, refused, loops>> /\ ask'.stage \notin {"send", "backoff"}
  <2>1. PICK stage \in {"failed", "answered", "throttle"} :
            ask' = [Quiet(path) EXCEPT !.key = <<path, day>>, !.stage = stage]
    BY <1>1 DEF Put, Ask
  <2>2. ask'.stage = stage  BY <2>1 DEF Quiet
  <2> QED BY <1>1, <2>2 DEF Put, loopVars
<1>2. ASSUME Take PROVE UNCHANGED <<clock, last, sent, refused>> /\ ask'.stage = "idle"
  BY <1>2 DEF Take, Quiet
<1>3. ASSUME NEW after, Step(after) PROVE UNCHANGED <<clock, last, sent, refused, loops, ask>>
  BY <1>3 DEF Step, clientVars
<1>4. ASSUME NEW e, NEW readings, NEW error, Snapshot(e, readings, error)
      PROVE  /\ UNCHANGED <<clock, last, sent, refused, loops>>
             /\ ask'.stage \notin {"send", "backoff"}
  BY <1>1, <1>2, <1>4 DEF Snapshot
<1>5. CASE Leave \/ NextCycle \/ Begin \/ Screen \/ ScreenFails \/ Screened \/ JudgeLiquidity
  BY <1>3, <1>5 DEF Leave, NextCycle, Begin, Screen, ScreenFails, Screened, JudgeLiquidity
<1>6. CASE ReadLiquidity \/ ReadIndicators \/ ReadNews
  BY <1>4, <1>6 DEF ReadLiquidity, ReadIndicators, ReadNews
<1>7. CASE SkipWeekend \/ BreadthKnown \/ Price \/ CycleOver \/ Pass \/ Evaluate
  BY <1>3, <1>7 DEF SkipWeekend, BreadthKnown, Price, CycleOver, Pass, Evaluate, Walking
<1>8. CASE Indicate \/ Filter \/ Size \/ Refuse
  BY <1>3, <1>8 DEF Indicate, Filter, Size, Refuse
<1>9. CASE AskBreadth
  BY <1>1, <1>9 DEF AskBreadth, Walking
<1>10. CASE Counted \/ BreadthFails
  BY <1>2, <1>10 DEF Counted, BreadthFails, Walking
<1>11. CASE NoSession \/ Fill
  BY <1>11 DEF NoSession, Fill, Walking, clientVars
<1> QED BY <1>5, <1>6, <1>7, <1>8, <1>9, <1>10, <1>11 DEF Loop

LEMMA NextB ==
    ASSUME TInv, Budget, [Next]_vars
    PROVE  Budget'
<1>1. CASE Loop
  <2>1. CASE Start  BY <2>1, StartB
  <2>2. CASE ~Start  BY <1>1, <2>2, LoopQuiet, QuietB
  <2> QED BY <2>1, <2>2
<1>2. CASE Asking
  <2>1. UNCHANGED <<loops, job>>  BY <1>2 DEF Asking, loopVars
  <2>2. ask.stage # "idle"
    BY <1>2 DEF Asking, ClientStep, Throttle, Answered, Raised, RateLimited, Backoff
  <2>3. job.pc # "idle"  BY <2>2, IdleElsewhere
  <2>4. loops # 0  BY <2>3 DEF Budget
  <2> QED BY <1>2, <2>1, <2>4, ThrottleB, AnswerB DEF Asking, ClientStep
<1>3. CASE (Midnight /\ UNCHANGED loopVars) \/ ToggleStop \/ UNCHANGED vars
  <2>1. UNCHANGED <<clock, last, sent, refused, loops, ask, job>>
    BY <1>3 DEF Midnight, ToggleStop, loopVars, clientVars, vars
  <2> QED BY <2>1, QuietB
<1> QED BY <1>1, <1>2, <1>3 DEF Next

LEMMA BudgetFollows ==
    ASSUME TInv, Budget
    PROVE  RequestBudget
<1>1. /\ clock \in Nat /\ loops \in Nat /\ sent \in Nat /\ refused \in Nat /\ Interval \in Nat
      /\ last \subseteq 0..clock
  BY BudgetTyped DEF TInv
<1>2. SUFFICES ASSUME Interval > 0 PROVE sent - refused <= loops + clock \div Interval
  BY DEF RequestBudget
<1>3. clock \div Interval \in Nat  BY <1>1, <1>2, Quotients
<1>4. sent - refused <= Spent /\ Spent \in Int  BY <1>1 DEF Spent, Pending
<1>5. CASE last = {}  BY <1>1, <1>2, <1>3, <1>4, <1>5 DEF Budget
<1>6. CASE last # {}
  <2>1. PICK t \in last : TRUE  BY <1>6
  <2>2. t \in Nat /\ t <= clock  BY <1>1, <2>1
  <2>3. t \div Interval <= clock \div Interval /\ t \div Interval \in Nat
    BY <1>1, <1>2, <2>2, Quotients
  <2>4. Spent <= loops + t \div Interval  BY <1>2, <2>1 DEF Budget
  <2> QED BY <1>1, <1>3, <1>4, <2>3, <2>4
<1> QED BY <1>5, <1>6

\* Any number of loops, each with a client of its own, ask no more often than
\* once per interval and once more per loop, apart from what the vendor refused.
THEOREM BudgetHolds == Spec => []RequestBudget
<1>1. Init => Budget
  <2>1. SUFFICES ASSUME Init PROVE Budget  OBVIOUS
  <2>2. job.pc = "idle" /\ loops = 0 /\ last = {} /\ sent = 0 /\ refused = 0
    BY <2>1, NoJobType DEF Init, ClientInit
  <2>3. ask.stage = "idle"  BY <2>1, <2>2, InitT, IdleElsewhere
  <2>4. Spent = 0  BY <2>2, <2>3 DEF Spent, Pending
  <2> QED BY <2>2, <2>4 DEF Budget
<1>2. TInv /\ Budget /\ [Next]_vars => Budget'  BY NextB
<1>3. TInv /\ Budget => RequestBudget  BY BudgetFollows
<1> QED BY <1>1, <1>2, <1>3, AlwaysT, PTL DEF Spec

-----------------------------------------------------------------------------
(***************************************************************************)
(* What a signal has been through.                                         *)
(***************************************************************************)

IndicatorReadings == {IndicatorOf(p) : p \in Points} \cup {NoIndicator}
NewsReadings == {NewsOf(a) : a \in Articles} \cup {NoNews}
BarReadings == {LiquidityOf(b, d) : b \in Bars, d \in FirstDay..LastDay} \cup {NoLiquidity}
Reading == IndicatorReadings \cup NewsReadings \cup BarReadings

\* A provider keeps one reading for a symbol, and none where it is switched off.
Kept ==
    /\ seen \in [Endpoint -> [Symbols -> SUBSET Reading]]
    /\ \A s \in Symbols :
          /\ seen["indicators"][s] \subseteq IndicatorReadings /\ seen["news"][s] \subseteq NewsReadings
          /\ \A i, k \in seen["indicators"][s] : i = k
          /\ \A n, m \in seen["news"][s] : n = m
          /\ ~rules.ind.enabled => seen["indicators"][s] = {}
          /\ ~rules.news.enabled => seen["news"][s] = {}

\* The indicators were there if they must be, and gave no veto.
IndicatorsHeard(at, confidence) ==
    /\ rules.ind.required /\ rules.ind.enabled =>
          \E i \in seen["indicators"][at] :
              i.state = "read" /\ Missing \notin {i.fast, i.slow, i.rsi, i.macd, i.signal}
    /\ \A i \in seen["indicators"][at] : i.state = "read" =>
          /\ ~(Missing \notin {i.fast, i.slow} /\ i.fast < i.slow /\ rules.ind.onDown = "skip")
          /\ ~(i.rsi # Missing /\ i.rsi >= rules.ind.hotAt /\ rules.ind.onHot = "skip")
          /\ confidence >= Least(rules.ind.floor, rules.news.floor)

\* Nor did the news.
NewsHeard(at) ==
    /\ rules.news.required /\ rules.news.enabled =>
          \E n \in seen["news"][at] : n.state = "read" /\ n.rated >= rules.news.minimum
    /\ \A n \in seen["news"][at] :
          /\ n.state = "read" /\ n.rated > 0 /\ n.rated >= rules.news.minimum
          /\ n.negative * 100 >= rules.news.strongAt * n.rated
          => rules.news.onStrong # "skip"

Judged ==
    /\ job.pc = "indicators" => job.sig.side = job.sig.rules
    /\ job.pc \in {"news", "size", "submit"} =>
          /\ job.sig.side = "buy" =>
                job.sig.rules = "buy" /\ IndicatorsHeard(job.at, job.sig.confidence)
          /\ job.sig.rules = "sell" => job.sig.side = "sell"
    /\ job.pc \in {"size", "submit"} => (job.sig.side = "buy" => NewsHeard(job.at))
    /\ job.pc = "submit" =>
          IF job.sig.side = "buy"
          THEN EntryAllowed(Cap, Breadth) /\ job.amount = ScaledAmount(Cap, Breadth)
          ELSE job.amount = Cap

LEMMA KeptInit == Nothing \in [Endpoint -> [Symbols -> SUBSET Reading]]
<1>1. {} \in SUBSET Reading  OBVIOUS
<1> QED BY <1>1 DEF Nothing

\* What the indicators say is in the verdict on an entry.
LEMMA IndicatorsJudge ==
    ASSUME rules \in Rules, NEW sig \in SignalType, sig.side = "buy", NEW i,
           i.state = "read" => {i.fast, i.slow, i.rsi, i.macd, i.signal} \subseteq Int,
           i.state # "read" => ~(rules.ind.enabled /\ rules.ind.required),
           AfterIndicators(sig, i).side = "buy"
    PROVE  i.state = "read" =>
              /\ rules.ind.required => Missing \notin {i.fast, i.slow, i.rsi, i.macd, i.signal}
              /\ ~(Missing \notin {i.fast, i.slow} /\ i.fast < i.slow /\ rules.ind.onDown = "skip")
              /\ ~(i.rsi # Missing /\ i.rsi >= rules.ind.hotAt /\ rules.ind.onHot = "skip")
              /\ AfterIndicators(sig, i).confidence >= rules.ind.floor
<1> SUFFICES ASSUME i.state = "read"
             PROVE  /\ rules.ind.required => Missing \notin {i.fast, i.slow, i.rsi, i.macd, i.signal}
                    /\ ~(Missing \notin {i.fast, i.slow} /\ i.fast < i.slow /\ rules.ind.onDown = "skip")
                    /\ ~(i.rsi # Missing /\ i.rsi >= rules.ind.hotAt /\ rules.ind.onHot = "skip")
                    /\ AfterIndicators(sig, i).confidence >= rules.ind.floor
  OBVIOUS
<1> DEFINE weighed == Modulated(sig.confidence, Parts(i))
<1>1. /\ ~Parts(i)[1].skip /\ ~Parts(i)[2].skip /\ ~Parts(i)[3].skip
      /\ ~(weighed < rules.ind.floor)
      /\ AfterIndicators(sig, i) = [sig EXCEPT !.confidence = weighed]
  <2>1. Skipped(sig).side = "hold"  BY SkippedType
  <2>2. ~Unread(i)  BY DEF Unread
  <2>3. ~(\/ \E k \in 1..3 : Parts(i)[k].skip
          \/ Modulated(sig.confidence, Parts(i)) < rules.ind.floor)
    BY <2>1, <2>2 DEF AfterIndicators
  <2>4. AfterIndicators(sig, i) = [sig EXCEPT !.confidence = weighed]
    BY <2>2, <2>3 DEF AfterIndicators
  <2>5. 1 \in 1..3 /\ 2 \in 1..3 /\ 3 \in 1..3  OBVIOUS
  <2> QED BY <2>3, <2>4, <2>5
<1>2. /\ Parts(i)[1] = Trend[Compared(i.fast, i.slow)]
      /\ Parts(i)[2] = Rsi[Band(i.rsi)]
      /\ Parts(i)[3] = Macd[Compared(i.macd, i.signal)]
  BY DEF Parts
<1>3. IfRequired.skip <=> rules.ind.required
  <2>1. rules.ind.required \in BOOLEAN  BY DEF Rules
  <2> QED BY <2>1 DEF IfRequired, On, Factor
<1>4. rules.ind.required => Missing \notin {i.fast, i.slow, i.rsi, i.macd, i.signal}
  <2>1. Trend.missing = IfRequired /\ Rsi.missing = IfRequired /\ Macd.missing = IfRequired
    BY DEF Trend, Rsi, Macd
  <2>2. Missing \in {i.fast, i.slow} => Compared(i.fast, i.slow) = "missing"  BY DEF Compared
  <2>3. Missing \in {i.macd, i.signal} => Compared(i.macd, i.signal) = "missing"  BY DEF Compared
  <2>4. i.rsi = Missing => Band(i.rsi) = "missing"  BY DEF Band
  <2> QED BY <1>1, <1>2, <1>3, <2>1, <2>2, <2>3, <2>4
<1>5. ~(Missing \notin {i.fast, i.slow} /\ i.fast < i.slow /\ rules.ind.onDown = "skip")
  <2>1. Missing \notin {i.fast, i.slow} /\ i.fast < i.slow => Compared(i.fast, i.slow) = "below"
    BY DEF Compared
  <2>2. Trend.below = On(rules.ind.onDown, rules.ind.down)  BY DEF Trend
  <2>3. rules.ind.onDown = "skip" => Trend.below.skip  BY <2>2 DEF On
  <2> QED BY <1>1, <1>2, <2>1, <2>3
<1>6. ~(i.rsi # Missing /\ i.rsi >= rules.ind.hotAt /\ rules.ind.onHot = "skip")
  <2>1. i.rsi # Missing /\ i.rsi >= rules.ind.hotAt => Band(i.rsi) = "hot"  BY DEF Band
  <2>2. Rsi.hot = On(rules.ind.onHot, rules.ind.over)  BY DEF Rsi
  <2>3. rules.ind.onHot = "skip" => Rsi.hot.skip  BY <2>2 DEF On
  <2> QED BY <1>1, <1>2, <2>1, <2>3
<1>7. AfterIndicators(sig, i).confidence >= rules.ind.floor
  <2>1. weighed \in Int  BY ModulatedRange DEF SignalType
  <2>2. rules.ind.floor \in Int  BY DEF Rules
  <2>3. AfterIndicators(sig, i).confidence = weighed
    <3> HIDE DEF weighed
    <3> QED BY <1>1 DEF SignalType
  <2>4. weighed \in Int  BY <2>1
  <2> QED BY <1>1, <2>2, <2>3, <2>4
<1> QED BY <1>4, <1>5, <1>6, <1>7

\* An entry that goes on without its indicators did not require them.
LEMMA IndicatorsMissed ==
    ASSUME NEW sig \in SignalType, sig.side = "buy", NEW i, i.state # "read",
           AfterIndicators(sig, i).side = "buy"
    PROVE  ~(rules.ind.enabled /\ rules.ind.required)
<1>1. Skipped(sig).side = "hold"  BY SkippedType
<1> QED BY <1>1 DEF AfterIndicators, Unread

\* What the news say is in the verdict, and weighs no lower than a floor.
LEMMA NewsJudge ==
    ASSUME rules \in Rules, NEW sig \in SignalType, sig.side = "buy", NEW n,
           n.state = "read" => n.rated \in Nat /\ n.negative \in Nat,
           AfterNews(sig, n).side = "buy"
    PROVE  /\ n.state # "read" => ~(rules.news.enabled /\ rules.news.required)
           /\ n.state = "read" => /\ rules.news.required => n.rated >= rules.news.minimum
                                  /\ /\ n.rated > 0 /\ n.rated >= rules.news.minimum
                                     /\ n.negative * 100 >= rules.news.strongAt * n.rated
                                     => rules.news.onStrong # "skip"
           /\ \/ AfterNews(sig, n).confidence = sig.confidence
              \/ AfterNews(sig, n).confidence >= rules.news.floor
<1>1. Skipped(sig).side = "hold"  BY SkippedType
<1>2. CASE n.state # "read"
  BY <1>1, <1>2 DEF AfterNews, Unread
<1>3. CASE n.state = "read"
  <2> DEFINE filtered == Times(sig.confidence, Heard[Tone(n)].pct)
  <2>1. /\ ~Heard[Tone(n)].skip
        /\ ~(Tone(n) \in {"negative", "strong"} /\ filtered < rules.news.floor)
        /\ AfterNews(sig, n) = [sig EXCEPT !.confidence = Least(filtered, sig.confidence)]
    BY <1>1, <1>3 DEF AfterNews, Unread
  <2>2. rules.news.required => n.rated >= rules.news.minimum
    <3>1. rules.news.minimum \in Int  BY DEF Rules
    <3>2. n.rated < rules.news.minimum => Tone(n) = "thin"  BY <1>3, <3>1 DEF Tone
    <3> QED BY <1>3, <2>1, <3>1, <3>2, HeardType
  <2>3. /\ n.rated > 0 /\ n.rated >= rules.news.minimum
        /\ n.negative * 100 >= rules.news.strongAt * n.rated
        => rules.news.onStrong # "skip"
    <3>1. SUFFICES ASSUME n.rated > 0, n.rated >= rules.news.minimum,
                          n.negative * 100 >= rules.news.strongAt * n.rated
                   PROVE  Tone(n) = "strong"
      BY <2>1, HeardType
    <3>2. Share(n.negative, n.rated, rules.news.strongAt)  BY <3>1 DEF Share
    <3>3. rules.news.minimum \in Int  BY DEF Rules
    <3>4. ~(n.rated < rules.news.minimum)  BY <1>3, <3>1, <3>3
    <3> QED BY <3>1, <3>2, <3>4 DEF Tone
  <2>4. sig.confidence \in Int /\ filtered \in Int
    <3>1. sig.confidence \in Int  BY DEF SignalType
    <3>2. Heard[Tone(n)].pct \in Int
      <4>1. Heard[Tone(n)].pct \in 0..100  BY HeardType
      <4> QED BY <4>1
    <3> QED BY <3>1, <3>2, TimesInt
  <2>5. AfterNews(sig, n).confidence \in {filtered, sig.confidence}
    <3> HIDE DEF filtered
    <3>1. Least(filtered, sig.confidence) \in {filtered, sig.confidence}  BY DEF Least
    <3> QED BY <2>1, <3>1 DEF SignalType
  <2>6. CASE Tone(n) \in {"thin", "fine"}
    <3>1. Heard[Tone(n)].pct = 100  BY <2>6, HeardType
    <3>2. filtered = sig.confidence  BY <2>4, <3>1, TimesAll
    <3> QED BY <1>3, <2>2, <2>3, <2>5, <3>2
  <2>7. CASE Tone(n) \in {"negative", "strong"}
    <3>1. rules.news.floor \in Int  BY DEF Rules
    <3>2. filtered >= rules.news.floor
      <4> HIDE DEF filtered
      <4> QED BY <2>1, <2>4, <2>7, <3>1
    <3> QED BY <1>3, <2>2, <2>3, <2>5, <3>2
  <2> QED BY <2>6, <2>7, HeardType
<1> QED BY <1>2, <1>3

\* The numbers in a reading.
LEMMA IndicatorNumbers ==
    ASSUME NEW i \in IndicatorReadings
    PROVE  i.state = "read" => {i.fast, i.slow, i.rsi, i.macd, i.signal} \subseteq Int
<1>1. CASE i = NoIndicator  BY <1>1 DEF NoIndicator
<1>2. CASE i \in {IndicatorOf(p) : p \in Points}
  <2>1. PICK p \in Points : i = IndicatorOf(p)  BY <1>2
  <2>2. p \in [fast : Int, slow : Int, rsi : Int, macd : Int, signal : Int]
    BY <2>1, VendorAssumption
  <2> QED BY <2>1, <2>2 DEF IndicatorOf
<1> QED BY <1>1, <1>2 DEF IndicatorReadings

LEMMA NewsNumbers ==
    ASSUME NEW n \in NewsReadings
    PROVE  n.state = "read" => n.rated \in Nat /\ n.negative \in Nat
<1>1. CASE n = NoNews  BY <1>1 DEF NoNews
<1>2. CASE n \in {NewsOf(a) : a \in Articles}
  <2>1. PICK a \in Articles : n = NewsOf(a)  BY <1>2
  <2>2. IsFiniteSet(DOMAIN a)  BY <2>1, VendorAssumption
  <2> DEFINE recent == {x \in DOMAIN a : a[x].age # Missing /\ a[x].age <= rules.news.hours}
             rated == {x \in recent : a[x].label # "none"}
             negative == {x \in rated : a[x].label \in rules.news.labels}
  <2>3. IsFiniteSet(rated) /\ IsFiniteSet(negative)
    <3>1. rated \subseteq DOMAIN a /\ negative \subseteq DOMAIN a  OBVIOUS
    <3> HIDE DEF rated, negative
    <3> QED BY <2>2, <3>1, FS_Subset
  <2>4. n.rated = Cardinality(rated) /\ n.negative = Cardinality(negative)
    BY <2>1 DEF NewsOf
  <2> HIDE DEF rated, negative
  <2> QED BY <2>3, <2>4, FS_CardinalityType
<1> QED BY <1>1, <1>2 DEF NewsReadings

\* The caches are as they were.
LEMMA KeptSame ==
    ASSUME Kept, UNCHANGED <<rules, seen>>
    PROVE  Kept'
<1>1. NewsReadings' = NewsReadings  BY DEF NewsReadings, NewsOf
<1>2. BarReadings' = BarReadings /\ IndicatorReadings' = IndicatorReadings
  BY DEF BarReadings, IndicatorReadings
<1>3. Reading' = Reading  BY <1>1, <1>2 DEF Reading
<1> QED BY <1>1, <1>2, <1>3 DEF Kept

\* One reading more.
LEMMA KeptOne ==
    ASSUME TypeOK, Kept, UNCHANGED rules, NEW e \in Endpoint, NEW s \in Symbols, NEW r \in Reading,
           e = "indicators" => r \in IndicatorReadings /\ rules.ind.enabled,
           e = "news" => r \in NewsReadings /\ rules.news.enabled,
           seen' = [seen EXCEPT ![e][s] = {r}]
    PROVE  /\ Kept'
           /\ \A f \in Endpoint, t \in Symbols : f # e => seen'[f][t] = seen[f][t]
<1>1. NewsReadings' = NewsReadings  BY DEF NewsReadings, NewsOf
<1>2. BarReadings' = BarReadings /\ IndicatorReadings' = IndicatorReadings
  BY DEF BarReadings, IndicatorReadings
<1>3. Reading' = Reading  BY <1>1, <1>2 DEF Reading
<1>4. seen \in [Endpoint -> [Symbols -> SUBSET Reading]]  BY DEF Kept
<1>5. seen' \in [Endpoint -> [Symbols -> SUBSET Reading]]
  <2>1. {r} \in SUBSET Reading  OBVIOUS
  <2>2. [seen[e] EXCEPT ![s] = {r}] \in [Symbols -> SUBSET Reading]  BY <1>4, <2>1
  <2> QED BY <1>4, <2>2
<1>6. \A f \in Endpoint, t \in Symbols :
          seen'[f][t] = IF f = e /\ t = s THEN {r} ELSE seen[f][t]
  BY <1>4
<1>7. "indicators" \in Endpoint /\ "news" \in Endpoint  BY DEF Endpoint
<1>8. ASSUME NEW t \in Symbols
      PROVE  /\ seen'["indicators"][t] \subseteq IndicatorReadings /\ seen'["news"][t] \subseteq NewsReadings
             /\ \A i, k \in seen'["indicators"][t] : i = k
             /\ \A n, m \in seen'["news"][t] : n = m
             /\ ~rules.ind.enabled => seen'["indicators"][t] = {}
             /\ ~rules.news.enabled => seen'["news"][t] = {}
  <2>1. /\ seen'["indicators"][t] = IF "indicators" = e /\ t = s THEN {r} ELSE seen["indicators"][t]
        /\ seen'["news"][t] = IF "news" = e /\ t = s THEN {r} ELSE seen["news"][t]
    BY <1>6, <1>7
  <2>2. /\ seen["indicators"][t] \subseteq IndicatorReadings /\ seen["news"][t] \subseteq NewsReadings
        /\ \A i, k \in seen["indicators"][t] : i = k
        /\ \A n, m \in seen["news"][t] : n = m
        /\ ~rules.ind.enabled => seen["indicators"][t] = {}
        /\ ~rules.news.enabled => seen["news"][t] = {}
    BY DEF Kept
  <2> QED BY <2>1, <2>2
<1>9. Kept'
  BY <1>1, <1>2, <1>3, <1>5, <1>8 DEF Kept
<1> QED BY <1>6, <1>9

\* What a signal has been through is kept as long as it is looked up nowhere else.
LEMMA JudgedSame ==
    ASSUME Judged, UNCHANGED <<rules, job, brake>>,
           job.pc \in {"news", "size", "submit"} => seen'["indicators"][job.at] = seen["indicators"][job.at],
           job.pc \in {"size", "submit"} => seen'["news"][job.at] = seen["news"][job.at]
    PROVE  Judged'
<1>1. job.pc \in {"news", "size", "submit"} /\ job.sig.side = "buy" =>
          job.sig.rules = "buy" /\ IndicatorsHeard(job.at, job.sig.confidence)'
  BY DEF Judged, IndicatorsHeard
<1>2. job.pc \in {"size", "submit"} /\ job.sig.side = "buy" => NewsHeard(job.at)'
  BY DEF Judged, NewsHeard
<1>3. job.pc = "submit" =>
          IF job.sig.side = "buy"
          THEN EntryAllowed(Cap, Breadth)' /\ job.amount = ScaledAmount(Cap, Breadth)'
          ELSE job.amount = Cap
  BY DEF Judged, EntryAllowed, ScaledAmount, Breadth, Multiplier, Regime, BlocksEntries, WideEnough,
         Times, Reducing, Share
<1> QED BY <1>1, <1>2, <1>3 DEF Judged

LEMMA JudgedElsewhere ==
    ASSUME job'.pc \notin {"indicators", "news", "size", "submit"}
    PROVE  Judged'
BY DEF Judged

\* A reading is taken.
LEMMA ReadS ==
    ASSUME TInv, Kept, Judged, UNCHANGED rules, ReadLiquidity \/ ReadIndicators \/ ReadNews
    PROVE  Kept' /\ Judged'
<1>1. TypeOK /\ job.at \in Symbols /\ UNCHANGED <<job, brake>>
  BY DEF TInv, Placed, ReadLiquidity, ReadIndicators, ReadNews, Snapshot, Put, loopVars
<1>2. ASSUME NEW e, NEW readings, NEW error, Snapshot(e, readings, error)
      PROVE  \/ UNCHANGED seen
             \/ \E r \in readings \cup {error} : seen' = [seen EXCEPT ![e][job.at] = {r}]
  BY <1>2 DEF Snapshot, Put, loopVars
<1>3. "bars" \in Endpoint /\ "indicators" \in Endpoint /\ "news" \in Endpoint  BY DEF Endpoint
<1>4. CASE UNCHANGED seen
  BY <1>1, <1>4, KeptSame, JudgedSame
<1>5. CASE ReadLiquidity /\ ~UNCHANGED seen
  <2>1. PICK r \in {LiquidityOf(b, job.today) : b \in Bars} \cup {NoLiquidity} :
            seen' = [seen EXCEPT !["bars"][job.at] = {r}]
    BY <1>2, <1>5 DEF ReadLiquidity
  <2>2. r \in BarReadings  BY <1>1, <2>1, JobType DEF BarReadings
  <2>3. r \in Reading  BY <2>2 DEF Reading
  <2>4. /\ Kept'
        /\ \A f \in Endpoint, t \in Symbols : f # "bars" => seen'[f][t] = seen[f][t]
    BY <1>1, <1>3, <2>1, <2>3, KeptOne
  <2> QED BY <1>1, <1>3, <2>4, JudgedSame
<1>6. CASE ReadIndicators /\ ~UNCHANGED seen
  <2>1. PICK r \in {IndicatorOf(p) : p \in Points} \cup {NoIndicator} :
            seen' = [seen EXCEPT !["indicators"][job.at] = {r}]
    BY <1>2, <1>6 DEF ReadIndicators
  <2>2. r \in IndicatorReadings  BY <2>1 DEF IndicatorReadings
  <2>3. r \in Reading  BY <2>2 DEF Reading
  <2>4. rules.ind.enabled /\ job.pc = "indicators"  BY <1>6 DEF ReadIndicators
  <2>5. Kept'  BY <1>1, <1>3, <2>1, <2>2, <2>3, <2>4, KeptOne
  <2> QED BY <1>1, <2>4, <2>5, JudgedSame
<1>7. CASE ReadNews /\ ~UNCHANGED seen
  <2>1. PICK r \in {NewsOf(a) : a \in Articles} \cup {NoNews} :
            seen' = [seen EXCEPT !["news"][job.at] = {r}]
    <3>1. Snapshot("news", {NewsOf(a) : a \in Articles}, NoNews)  BY <1>7 DEF ReadNews
    <3> QED BY <1>2, <1>7, <3>1, Zenon
  <2>2. r \in NewsReadings  BY <2>1 DEF NewsReadings
  <2>3. r \in Reading  BY <2>2 DEF Reading
  <2>4. rules.news.enabled /\ job.pc = "news"  BY <1>7 DEF ReadNews
  <2>5. /\ Kept'
        /\ \A f \in Endpoint, t \in Symbols : f # "news" => seen'[f][t] = seen[f][t]
    BY <1>1, <1>3, <2>1, <2>2, <2>3, <2>4, KeptOne
  <2> QED BY <1>1, <1>3, <2>4, <2>5, JudgedSame
<1> QED BY <1>4, <1>5, <1>6, <1>7

\* The indicators judge.
LEMMA IndicateS ==
    ASSUME TInv, Kept, Judged, UNCHANGED rules, Indicate
    PROVE  Kept' /\ Judged'
<1>1. TypeOK /\ rules \in Rules /\ job.at \in Symbols /\ job.pc = "indicators"
  BY RulesTyped DEF TInv, Placed, Indicate
<1>2. PICK i \in Readings("indicators", rules.ind.enabled, NoIndicator) :
          Step([job EXCEPT !.pc = "news", !.sig = AfterIndicators(@, i)])
  BY DEF Indicate
<1>3. job.sig \in SignalType /\ job.sig.side = job.sig.rules  BY <1>1, JobType DEF Judged
<1> DEFINE sig == AfterIndicators(job.sig, i)
<1>4. /\ UNCHANGED <<seen, brake>> /\ job'.pc = "news" /\ job'.sig = sig /\ job'.at = job.at
  <2>1. job' = [job EXCEPT !.pc = "news", !.sig = sig]  BY <1>2 DEF Step
  <2>2. UNCHANGED <<seen, brake>>  BY <1>2 DEF Step
  <2> HIDE DEF sig
  <2> QED BY <1>1, <2>1, <2>2, JobType DEF Job
<1>5. Kept'  BY <1>4, KeptSame
<1>6. /\ sig \in SignalType /\ sig.rules = job.sig.rules /\ sig.side \in {job.sig.side, "hold"}
      /\ job.sig.side # "buy" => sig = job.sig
  BY <1>1, <1>3, AfterIndicatorsType
<1>7. sig.rules = "sell" => sig.side = "sell"  BY <1>3, <1>6
<1>8. ASSUME sig.side = "buy" PROVE sig.rules = "buy" /\ IndicatorsHeard(job.at, sig.confidence)
  <2>1. job.sig.side = "buy" /\ sig.rules = "buy"  BY <1>3, <1>6, <1>8
  <2>2. CASE ~rules.ind.enabled
    <3>1. seen["indicators"][job.at] = {}  BY <1>1, <2>2 DEF Kept
    <3> QED BY <2>1, <2>2, <3>1 DEF IndicatorsHeard
  <2>3. CASE rules.ind.enabled
    <3>1. i \in seen["indicators"][job.at]  BY <1>2, <2>3 DEF Readings
    <3>2. i \in IndicatorReadings /\ \A k \in seen["indicators"][job.at] : k = i
      BY <1>1, <3>1 DEF Kept
    <3>3. i.state = "read" => {i.fast, i.slow, i.rsi, i.macd, i.signal} \subseteq Int
      BY <3>2, IndicatorNumbers
    <3>4. i.state # "read" => ~(rules.ind.enabled /\ rules.ind.required)
      BY <1>3, <1>8, <2>1, IndicatorsMissed
    <3>5. i.state = "read" =>
              /\ rules.ind.required => Missing \notin {i.fast, i.slow, i.rsi, i.macd, i.signal}
              /\ ~(Missing \notin {i.fast, i.slow} /\ i.fast < i.slow /\ rules.ind.onDown = "skip")
              /\ ~(i.rsi # Missing /\ i.rsi >= rules.ind.hotAt /\ rules.ind.onHot = "skip")
              /\ sig.confidence >= rules.ind.floor
      BY <1>1, <1>3, <1>8, <2>1, <3>3, <3>4, IndicatorsJudge
    <3>6. i.state = "read" => sig.confidence >= Least(rules.ind.floor, rules.news.floor)
      <4>1. rules.ind.floor \in Int /\ rules.news.floor \in Int  BY <1>1 DEF Rules
      <4>2. sig.confidence \in Int  BY <1>6 DEF SignalType
      <4> HIDE DEF sig
      <4> QED BY <3>5, <4>1, <4>2 DEF Least
    <3> HIDE DEF sig
    <3> QED BY <2>1, <2>3, <3>1, <3>2, <3>4, <3>5, <3>6 DEF IndicatorsHeard
  <2> QED BY <2>2, <2>3
<1> HIDE DEF sig
<1>9. IndicatorsHeard(job.at, sig.confidence) => IndicatorsHeard(job.at, job.sig.confidence)'
  BY <1>4 DEF IndicatorsHeard
<1>10. Judged'  BY <1>4, <1>7, <1>8, <1>9 DEF Judged
<1> QED BY <1>5, <1>10

\* The news judge.
LEMMA FilterS ==
    ASSUME TInv, Kept, Judged, UNCHANGED rules, Filter
    PROVE  Kept' /\ Judged'
<1>1. TypeOK /\ rules \in Rules /\ job.at \in Symbols /\ job.pc = "news"
  BY RulesTyped DEF TInv, Placed, Filter
<1>2. PICK n \in Readings("news", rules.news.enabled, NoNews) :
          Step([job EXCEPT !.pc = "size", !.sig = AfterNews(@, n)])
  BY DEF Filter
<1>3. /\ job.sig \in SignalType
      /\ job.sig.side = "buy" => job.sig.rules = "buy" /\ IndicatorsHeard(job.at, job.sig.confidence)
      /\ job.sig.rules = "sell" => job.sig.side = "sell"
  BY <1>1, JobType DEF Judged
<1> DEFINE sig == AfterNews(job.sig, n)
<1>4. /\ UNCHANGED <<seen, brake>> /\ job'.pc = "size" /\ job'.sig = sig /\ job'.at = job.at
  <2>1. job' = [job EXCEPT !.pc = "size", !.sig = sig]  BY <1>2 DEF Step
  <2>2. UNCHANGED <<seen, brake>>  BY <1>2 DEF Step
  <2> HIDE DEF sig
  <2> QED BY <1>1, <2>1, <2>2, JobType DEF Job
<1>5. Kept'  BY <1>4, KeptSame
<1>6. /\ sig \in SignalType /\ sig.rules = job.sig.rules /\ sig.side \in {job.sig.side, "hold"}
      /\ job.sig.side # "buy" => sig = job.sig
  BY <1>1, <1>3, AfterNewsType
<1>7. sig.rules = "sell" => sig.side = "sell"  BY <1>3, <1>6
<1>8. ASSUME sig.side = "buy"
      PROVE  sig.rules = "buy" /\ IndicatorsHeard(job.at, sig.confidence) /\ NewsHeard(job.at)
  <2>1. job.sig.side = "buy" /\ sig.rules = "buy"  BY <1>3, <1>6, <1>8
  <2>2. n.state = "read" => n.rated \in Nat /\ n.negative \in Nat
    <3>1. CASE rules.news.enabled
      <4>1. n \in seen["news"][job.at]  BY <1>2, <3>1 DEF Readings
      <4>2. n \in NewsReadings  BY <1>1, <4>1 DEF Kept
      <4> QED BY <4>2, NewsNumbers
    <3>2. CASE ~rules.news.enabled
      <4>1. n = Absent(NoNews)  BY <1>2, <3>2 DEF Readings
      <4> QED BY <4>1 DEF Absent, NoNews
    <3> QED BY <3>1, <3>2
  <2>3. /\ n.state # "read" => ~(rules.news.enabled /\ rules.news.required)
        /\ n.state = "read" => /\ rules.news.required => n.rated >= rules.news.minimum
                               /\ /\ n.rated > 0 /\ n.rated >= rules.news.minimum
                                  /\ n.negative * 100 >= rules.news.strongAt * n.rated
                                  => rules.news.onStrong # "skip"
        /\ \/ sig.confidence = job.sig.confidence
           \/ sig.confidence >= rules.news.floor
    BY <1>1, <1>3, <1>8, <2>1, <2>2, NewsJudge
  <2>4. IndicatorsHeard(job.at, sig.confidence)
    <3>1. rules.ind.floor \in Int /\ rules.news.floor \in Int  BY <1>1 DEF Rules
    <3>2. sig.confidence \in Int /\ job.sig.confidence \in Int
      BY <1>3, <1>6 DEF SignalType
    <3> HIDE DEF sig
    <3>3. job.sig.confidence >= Least(rules.ind.floor, rules.news.floor) =>
             sig.confidence >= Least(rules.ind.floor, rules.news.floor)
      BY <2>3, <3>1, <3>2 DEF Least
    <3>4. IndicatorsHeard(job.at, job.sig.confidence)  BY <1>3, <2>1
    <3> QED BY <3>3, <3>4 DEF IndicatorsHeard
  <2>5. NewsHeard(job.at)
    <3>1. CASE rules.news.enabled
      <4>1. n \in seen["news"][job.at]  BY <1>2, <3>1 DEF Readings
      <4>2. \A m \in seen["news"][job.at] : m = n  BY <1>1, <4>1 DEF Kept
      <4> QED BY <2>3, <3>1, <4>1, <4>2 DEF NewsHeard
    <3>2. CASE ~rules.news.enabled
      <4>1. seen["news"][job.at] = {}  BY <1>1, <3>2 DEF Kept
      <4> QED BY <3>2, <4>1 DEF NewsHeard
    <3> QED BY <3>1, <3>2
  <2> QED BY <2>1, <2>4, <2>5
<1> HIDE DEF sig
<1>9. /\ IndicatorsHeard(job.at, sig.confidence) => IndicatorsHeard(job.at, job.sig.confidence)'
      /\ NewsHeard(job.at) => NewsHeard(job.at)'
  BY <1>4 DEF IndicatorsHeard, NewsHeard
<1>10. Judged'  BY <1>4, <1>7, <1>8, <1>9 DEF Judged
<1> QED BY <1>5, <1>10

\* The brake has the last word on an entry.
LEMMA SizeS ==
    ASSUME TInv, Kept, Judged, UNCHANGED rules, Size
    PROVE  Kept' /\ Judged'
<1>1. TypeOK /\ job.pc = "size" /\ job.at \in Symbols  BY DEF TInv, Placed, Size
<1>2. UNCHANGED <<seen, brake>>  BY DEF Size, Step
<1>3. Kept'  BY <1>2, KeptSame
<1>4. CASE Step(Passed)
  <2>1. job'.pc = "symbol"
    <3>1. job.at <= Universe  BY <1>1, RulesTyped DEF Symbols
    <3> QED BY <1>1, <1>4, <3>1, PassedType DEF Step
  <2> QED BY <1>3, <2>1, JudgedElsewhere
<1>5. CASE ~Step(Passed)
  <2>1. PICK amount : /\ job' = [job EXCEPT !.pc = "submit", !.amount = amount]
                      /\ IF job.sig.side = "buy"
                         THEN EntryAllowed(Cap, Breadth) /\ amount = ScaledAmount(Cap, Breadth)
                         ELSE amount = Cap
    BY <1>5 DEF Size, Step
  <2>2. job'.pc = "submit" /\ job'.sig = job.sig /\ job'.at = job.at /\ job'.amount = amount
    BY <1>1, <2>1, JobType DEF Job
  <2>3. /\ IndicatorsHeard(job.at, job.sig.confidence)
              => IndicatorsHeard(job.at, job.sig.confidence)'
        /\ NewsHeard(job.at) => NewsHeard(job.at)'
    BY <1>2, <2>2 DEF IndicatorsHeard, NewsHeard
  <2>4. Breadth' = Breadth  BY <1>2 DEF Breadth
  <2>5. /\ EntryAllowed(Cap, Breadth) => EntryAllowed(Cap, Breadth)'
        /\ ScaledAmount(Cap, Breadth)' = ScaledAmount(Cap, Breadth)
    BY <2>4 DEF EntryAllowed, ScaledAmount, Multiplier, Regime, BlocksEntries, WideEnough,
             Times, Reducing, Share
  <2>6. Judged'  BY <1>1, <2>1, <2>2, <2>3, <2>5 DEF Judged
  <2> QED BY <1>3, <2>6
<1> QED BY <1>4, <1>5

\* Where the loop goes, other than to and from the signal of a symbol.
LEMMA Elsewhere ==
    ASSUME TInv, UNCHANGED rules,
           \/ Leave \/ NextCycle \/ Begin \/ CycleOver
           \/ Screen \/ ScreenFails \/ Screened \/ JudgeLiquidity
           \/ SkipWeekend \/ AskBreadth \/ Counted \/ BreadthFails \/ NoSession \/ BreadthKnown
           \/ Price \/ Pass \/ Fill \/ Refuse
    PROVE  UNCHANGED seen /\ job'.pc \notin {"indicators", "news", "size", "submit"}
<1>1. TypeOK  BY DEF TInv
<1>2. \A pc : Goto(pc).pc = pc
  BY <1>1, JobType DEF Goto, Job
<1>3. Passed.pc = "symbol"  BY <1>1, JobType DEF Passed, Job
<1>4. CASE Leave \/ NextCycle \/ Begin \/ CycleOver
  <2>1. UNCHANGED seen  BY <1>4 DEF Leave, NextCycle, Begin, CycleOver, Step
  <2>2. job' \in {NoJob, [job EXCEPT !.pc = "begin", !.left = @ - 1], Goto("top"),
                  [job EXCEPT !.pc = "screen", !.at = 1, !.tradable = {}]}
    BY <1>4 DEF Leave, NextCycle, Begin, CycleOver, Step
  <2> QED BY <1>1, <1>2, <2>1, <2>2, JobType, NoJobType DEF Job
<1>5. CASE Screen \/ ScreenFails \/ Screened
  <2>1. UNCHANGED seen  BY <1>5 DEF Screen, ScreenFails, Screened, Step
  <2>2. /\ job.pc = "screen"
        /\ job' \in {Goto("liquidity"), [job EXCEPT !.at = @ + 1],
                     [job EXCEPT !.pc = "breadth", !.offset = 1]}
    BY <1>5 DEF Screen, ScreenFails, Screened, Step
  <2> QED BY <1>1, <1>2, <2>1, <2>2, JobType DEF Job
<1>6. CASE JudgeLiquidity
  <2>1. PICK l : Step([job EXCEPT !.pc = "screen", !.at = @ + 1,
                           !.tradable = IF Liquid(l) THEN @ \cup {job.at} ELSE @])
    BY <1>6 DEF JudgeLiquidity
  <2>2. job'.pc = "screen"  BY <1>1, <2>1, JobType DEF Job, Step
  <2> QED BY <2>1, <2>2 DEF Step
<1>7. CASE SkipWeekend \/ AskBreadth \/ Counted \/ BreadthFails \/ NoSession
  <2>1. UNCHANGED seen
    BY <1>7 DEF SkipWeekend, AskBreadth, Counted, BreadthFails, NoSession, Step, Put, loopVars
  <2>2. job.pc = "breadth" /\ job' \in {job, [job EXCEPT !.offset = @ + 1]}
    BY <1>7 DEF SkipWeekend, AskBreadth, Counted, BreadthFails, NoSession, Step, Put, loopVars, Walking
  <2> QED BY <1>1, <2>1, <2>2, JobType DEF Job
<1>8. CASE BreadthKnown  BY <1>2, <1>8 DEF BreadthKnown, Step
<1>9. CASE Price
  <2>1. PICK priced : Step([job EXCEPT !.pc = "symbol", !.at = 1, !.tradable = priced])
    BY <1>9 DEF Price
  <2>2. job'.pc = "symbol"  BY <1>1, <2>1, JobType DEF Job, Step
  <2> QED BY <2>1, <2>2 DEF Step
<1>10. CASE Pass \/ Fill \/ Refuse
  BY <1>3, <1>10 DEF Pass, Fill, Refuse, Step
<1> QED BY <1>4, <1>5, <1>6, <1>7, <1>8, <1>9, <1>10

LEMMA NextS ==
    ASSUME TInv, Kept, Judged, [Next]_vars
    PROVE  Kept' /\ Judged'
<1>1. CASE Loop /\ UNCHANGED rules
  <2>1. CASE Start
    <3>1. seen' = Nothing /\ job' = [NoJob EXCEPT !.pc = "top", !.left = Iterations, !.today = day]
      BY <2>1 DEF Start
    <3>2. job'.pc = "top"  BY <3>1, NoJobType DEF Job
    <3>3. Kept'
      <4>1. "indicators" \in Endpoint /\ "news" \in Endpoint  BY DEF Endpoint
      <4>2. seen' \in [Endpoint -> [Symbols -> SUBSET Reading']]
        <5>1. {} \in SUBSET Reading'  OBVIOUS
        <5> QED BY <3>1, <5>1 DEF Nothing
      <4>3. \A s \in Symbols : seen'["indicators"][s] = {} /\ seen'["news"][s] = {}
        BY <3>1, <4>1 DEF Nothing
      <4> QED BY <4>2, <4>3 DEF Kept
    <3> QED BY <3>2, <3>3, JudgedElsewhere
  <2>2. CASE ReadLiquidity \/ ReadIndicators \/ ReadNews  BY <1>1, <2>2, ReadS
  <2>3. CASE Indicate  BY <1>1, <2>3, IndicateS
  <2>4. CASE Filter  BY <1>1, <2>4, FilterS
  <2>5. CASE Size  BY <1>1, <2>5, SizeS
  <2>6. CASE Evaluate
    <3>1. PICK h : Step([job EXCEPT !.pc = "indicators", !.sig = RulesSignal(h, job.at \in held)])
      BY <2>6 DEF Evaluate
    <3> DEFINE sig == RulesSignal(h, job.at \in held)
    <3>2. sig.side = sig.rules  BY RulesSignalType
    <3>3. job'.pc = "indicators" /\ job'.sig = sig
      <4>1. job \in Job  BY DEF TInv, TypeOK
      <4> HIDE DEF sig
      <4> QED BY <3>1, <4>1 DEF Step, Job, sig
    <3>4. Kept'  BY <1>1, <3>1, KeptSame DEF Step
    <3> HIDE DEF sig
    <3>5. Judged'  BY <3>2, <3>3 DEF Judged
    <3> QED BY <3>4, <3>5
  <2>7. CASE \/ Leave \/ NextCycle \/ Begin \/ CycleOver
             \/ Screen \/ ScreenFails \/ Screened \/ JudgeLiquidity
             \/ SkipWeekend \/ AskBreadth \/ Counted \/ BreadthFails \/ NoSession \/ BreadthKnown
             \/ Price \/ Pass \/ Fill \/ Refuse
    BY <1>1, <2>7, Elsewhere, KeptSame, JudgedElsewhere
  <2> QED BY <1>1, <2>1, <2>2, <2>3, <2>4, <2>5, <2>6, <2>7 DEF Loop
<1>2. CASE \/ Asking \/ (Midnight /\ UNCHANGED loopVars) \/ ToggleStop \/ UNCHANGED vars
  <2>1. UNCHANGED <<rules, job, brake, seen>>
    BY <1>2 DEF Asking, Midnight, ToggleStop, vars, loopVars, Next
  <2> QED BY <2>1, KeptSame, JudgedSame
<1> QED BY <1>1, <1>2 DEF Next

LEMMA AlwaysS == Spec => [](TInv /\ Kept /\ Judged)
<1>1. Init => Kept /\ Judged
  <2>1. SUFFICES ASSUME Init PROVE Kept /\ Judged  OBVIOUS
  <2>2. seen = Nothing /\ job.pc = "idle"  BY <2>1, NoJobType DEF Init
  <2>3. "indicators" \in Endpoint /\ "news" \in Endpoint  BY DEF Endpoint
  <2>4. \A s \in Symbols : seen["indicators"][s] = {} /\ seen["news"][s] = {}
    BY <2>2, <2>3 DEF Nothing
  <2>5. Kept  BY <2>2, <2>4, KeptInit DEF Kept
  <2> QED BY <2>2, <2>5 DEF Judged
<1>2. TInv /\ Kept /\ Judged /\ [Next]_vars => Kept' /\ Judged'  BY NextS
<1> QED BY <1>1, <1>2, AlwaysT, PTL DEF Spec

\* What the brake lets in with it switched on has a size.
LEMMA AllowedSize ==
    ASSUME TypeOK, rules.breadth.enabled, NEW b, EntryAllowed(Cap, b)
    PROVE  /\ ScaledAmount(Cap, b) > 0 /\ ~BlocksEntries(b)
<1>1. rules \in Rules  BY RulesTyped
<1>2. Regime(b) # "disabled"  BY <1>1 DEF Regime, Rules
<1> QED BY <1>2 DEF EntryAllowed

\* What is taken along with an answer leaves the loop's place alone.
LEMMA SnapshotKeeps ==
    ASSUME NEW endpoint, NEW readings, NEW error, Snapshot(endpoint, readings, error)
    PROVE  UNCHANGED job
BY DEF Snapshot, Put, loopVars

\* Only these steps start where a signal is on its way to the order.
LEMMA OnTheWay ==
    ASSUME Loop, job.pc \in {"indicators", "news", "size"}
    PROVE  ReadIndicators \/ Indicate \/ ReadNews \/ Filter \/ Size
BY DEF Loop, Start, Leave, NextCycle, Begin, Screen, ScreenFails, Screened, ReadLiquidity,
       JudgeLiquidity, SkipWeekend, AskBreadth, Counted, BreadthFails, NoSession, Walking,
       BreadthKnown, Price, CycleOver, Pass, Evaluate, Fill, Refuse

\* A step of the loop with a sell of the rules at hand.
LEMMA ExitStays ==
    ASSUME TInv, Judged, Loop, UNCHANGED rules,
           job.pc \in {"indicators", "news", "size"}, job.sig.rules = "sell"
    PROVE  /\ job'.pc \in {"indicators", "news", "size", "submit"}
           /\ job'.at = job.at /\ job'.sig.rules = "sell"
<1>1. job \in Job /\ job.sig \in SignalType /\ rules \in Rules
  BY JobType, RulesTyped DEF TInv
<1>2. CASE ReadIndicators \/ ReadNews
  <2>1. UNCHANGED job  BY <1>2, SnapshotKeeps DEF ReadIndicators, ReadNews
  <2> QED BY <2>1
<1>3. CASE Indicate
  <2>1. PICK i : job' = [job EXCEPT !.pc = "news", !.sig = AfterIndicators(@, i)]
    BY <1>3 DEF Indicate, Step
  <2>2. AfterIndicators(job.sig, i).rules = job.sig.rules  BY <1>1, AfterIndicatorsType
  <2>3. job'.pc = "news" /\ job'.at = job.at /\ job'.sig = AfterIndicators(job.sig, i)
    BY <1>1, <2>1 DEF Job
  <2> QED BY <2>2, <2>3
<1>4. CASE Filter
  <2>1. PICK n : job' = [job EXCEPT !.pc = "size", !.sig = AfterNews(@, n)]
    BY <1>4 DEF Filter, Step
  <2>2. AfterNews(job.sig, n).rules = job.sig.rules  BY <1>1, AfterNewsType
  <2>3. job'.pc = "size" /\ job'.at = job.at /\ job'.sig = AfterNews(job.sig, n)
    BY <1>1, <2>1 DEF Job
  <2> QED BY <2>2, <2>3
<1>5. CASE Size
  <2>1. job.sig.side # "buy"  BY <1>5 DEF Size, Judged
  <2>2. job' = [job EXCEPT !.pc = "submit", !.amount = Cap]  BY <1>5, <2>1 DEF Size, Step
  <2> QED BY <1>1, <2>2 DEF Job
<1> QED BY <1>2, <1>3, <1>4, <1>5, OnTheWay

\* For every configuration: behind the rules' signal the overlays only reduce,
\* and lose no exit.
THEOREM OverlaysHold == Spec => OverlaysOnlyReduce
<1>1. ASSUME TInv, Kept, Judged PROVE Reduced
  <2>1. SUFFICES ASSUME job.pc = "submit"
                 PROVE  /\ job.sig.side = "buy" =>
                              /\ job.sig.rules = "buy" /\ job.amount <= Cap
                              /\ rules.breadth.enabled => job.amount > 0
                              /\ IndicatorsHeard(job.at, job.sig.confidence) /\ NewsHeard(job.at)
                        /\ job.sig.rules = "sell" => job.sig.side = "sell" /\ job.amount = Cap
    BY DEF Reduced, IndicatorsHeard, NewsHeard
  <2>2. TypeOK /\ job.amount \in 0..Cap  BY <1>1, JobType DEF TInv
  <2>3. job.amount <= Cap  BY <2>2, RulesTyped
  <2>4. job.sig.rules = "sell" => job.sig.side = "sell" /\ job.amount = Cap
    BY <1>1, <2>1 DEF Judged
  <2>5. ASSUME job.sig.side = "buy"
        PROVE  /\ job.sig.rules = "buy" /\ IndicatorsHeard(job.at, job.sig.confidence)
               /\ NewsHeard(job.at)
               /\ rules.breadth.enabled => job.amount > 0
    BY <1>1, <2>1, <2>2, <2>5, AllowedSize DEF Judged
  <2> QED BY <2>3, <2>4, <2>5
<1>2. ASSUME TInv, Judged, Next PROVE ExitKept
  <2>1. CASE Loop /\ UNCHANGED rules  BY <1>2, <2>1, ExitStays DEF ExitKept
  <2>2. CASE Asking \/ (Midnight /\ UNCHANGED loopVars) \/ ToggleStop
    <3>1. UNCHANGED job  BY <2>2 DEF Asking, Midnight, ToggleStop, loopVars
    <3> QED BY <3>1 DEF ExitKept
  <2> QED BY <1>2, <2>1, <2>2 DEF Next
<1>3. Reduced /\ Reduced' /\ (TInv /\ Judged) /\ [Next]_vars => [ExitKept /\ Reduced']_vars
  BY <1>2
<1> QED BY <1>1, <1>3, AlwaysS, PTL DEF OverlaysOnlyReduce, Spec

\* For every configuration and every reading: no veto is overruled.
THEOREM VetoHolds == Spec => []NoVetoOverruled
<1>1. ASSUME TInv, Kept, Judged PROVE NoVetoOverruled
  <2>1. ASSUME Entering
        PROVE  IndicatorsHeard(job.at, job.sig.confidence) /\ NewsHeard(job.at)
    BY <1>1, <2>1 DEF Entering, Judged
  <2> QED BY <2>1 DEF NoVetoOverruled, IndicatorsHeard, NewsHeard
<1> QED BY <1>1, AlwaysS, PTL

-----------------------------------------------------------------------------
(***************************************************************************)
(* The walk to the last closed session.                                    *)
(***************************************************************************)

\* A day without a session that counted enough names.
Lean(t) == t \in Weekend \/ ~WideEnough(BreadthOf(market[t]))

\* The first wide session before the loop's day, or none within the lookback.
LastWide(b) ==
    \/ /\ b = NoBreadth
       /\ \A t \in (job.today - rules.breadth.lookback)..(job.today - 1) : Lean(t)
    \/ \E s \in (job.today - rules.breadth.lookback)..(job.today - 1) :
          /\ b = BreadthOf(market[s]) /\ ~Lean(s)
          /\ \A t \in (s + 1)..(job.today - 1) : Lean(t)

Heedful == \A d \in 0..LastDay : GroupedDaily(d) \notin failed

Walked ==
    /\ Walking => \A t \in (job.today - job.offset + 1)..(job.today - 1) : Lean(t)
    /\ job.pc # "idle" /\ Heedful => \A b \in brake : LastWide(b)
    /\ /\ job.pc \in {"price", "symbol", "indicators", "news", "size", "submit"}
       /\ rules.breadth.enabled
       => brake # {}

\* Sessions and what they counted do not change.
LEMMA LeanSame ==
    ASSUME UNCHANGED <<rules, market>>
    PROVE  /\ \A t : Lean(t)' = Lean(t)
           /\ \A s : BreadthOf(market[s])' = BreadthOf(market[s])
<1>1. \A s : BreadthOf(market[s])' = BreadthOf(market[s])  BY DEF BreadthOf
<1>2. ASSUME NEW t PROVE Lean(t)' = Lean(t)
  <2>1. BreadthOf(market[t])' = BreadthOf(market[t])  BY <1>1
  <2>2. WideEnough(BreadthOf(market[t]))' = WideEnough(BreadthOf(market[t]))
    BY <2>1 DEF WideEnough
  <2> QED BY <2>2 DEF Lean
<1> QED BY <1>1, <1>2

LEMMA LastWideSame ==
    ASSUME UNCHANGED <<rules, market>>, job'.today = job.today
    PROVE  \A b : LastWide(b) => LastWide(b)'
BY LeanSame DEF LastWide

\* The walk goes on, or is over.
LEMMA WalkedKeep ==
    ASSUME Walked, UNCHANGED <<rules, market, brake>>, job'.today = job.today,
           failed \subseteq failed', job.pc = "idle" => job'.pc = "idle",
           Walking' => (Walking /\ job'.offset = job.offset) \/ job'.offset = 1,
           /\ job'.pc \in {"price", "symbol", "indicators", "news", "size", "submit"}
           /\ rules.breadth.enabled
           => brake # {},
           TypeOK
    PROVE  Walked'
<1>1. \A t : Lean(t)' = Lean(t)  BY LeanSame
<1>2. ASSUME Walking', NEW t \in (job.today - job'.offset + 1)..(job.today - 1) PROVE Lean(t)
  <2>1. CASE Walking /\ job'.offset = job.offset  BY <1>2, <2>1 DEF Walked
  <2>2. CASE job'.offset = 1
    <3>1. job.today \in Int  BY JobType, RulesTyped
    <3>2. (job.today - 1 + 1)..(job.today - 1) = {}  BY <3>1
    <3> QED BY <1>2, <2>2, <3>2
  <2> QED BY <1>2, <2>1, <2>2
<1>3. job'.pc # "idle" /\ Heedful' => \A b \in brake' : LastWide(b)'
  <2>1. SUFFICES ASSUME job'.pc # "idle", Heedful', NEW b \in brake PROVE LastWide(b)'
    OBVIOUS
  <2>2. Heedful  BY <2>1 DEF Heedful
  <2>3. LastWide(b)  BY <2>1, <2>2 DEF Walked
  <2> QED BY <2>3, LastWideSame
<1> QED BY <1>1, <1>2, <1>3 DEF Walked

\* One day further back.
LEMMA FurtherW ==
    ASSUME Walked, TypeOK, Walking, Lean(Session), UNCHANGED <<rules, market, brake>>,
           job' = [job EXCEPT !.offset = @ + 1], failed \subseteq failed'
    PROVE  Walked'
<1>1. /\ job'.offset = job.offset + 1 /\ job'.today = job.today /\ job'.pc = "breadth"
      /\ job.today \in Int /\ job.offset \in Nat
  BY JobType, RulesTyped DEF Job, Walking
<1>2. \A t : Lean(t)' = Lean(t)  BY LeanSame
<1>3. \A t \in (job.today - job.offset + 1)..(job.today - 1) : Lean(t)  BY DEF Walked
<1>4. ASSUME NEW t \in (job.today - (job.offset + 1) + 1)..(job.today - 1) PROVE Lean(t)
  <2>1. t = Session \/ t \in (job.today - job.offset + 1)..(job.today - 1)
    BY <1>1 DEF Session
  <2> QED BY <1>3, <2>1
<1>5. \A t \in (job'.today - job'.offset + 1)..(job'.today - 1) : Lean(t)'
  BY <1>1, <1>2, <1>4
<1>6. brake' = {}  BY DEF Walking
<1> QED BY <1>1, <1>5, <1>6 DEF Walked

\* What the walk finds is the last wide session.
LEMMA CountedW ==
    ASSUME TInv, Walked, UNCHANGED rules, Counted
    PROVE  Walked'
<1>1. TypeOK /\ AskedBreadth /\ Walking  BY WalkAsked DEF TInv, Counted, Walking
<1>2. UNCHANGED market /\ failed \subseteq failed'  BY DEF Counted, Take
<1>3. CASE WideEnough(BreadthOf(market[Session]))
  <2>1. brake' = {BreadthOf(market[Session])} /\ UNCHANGED job  BY <1>3 DEF Counted
  <2>2. Session \in (job.today - rules.breadth.lookback)..(job.today - 1)
    BY <1>1, SessionRange DEF AskedBreadth
  <2>3. ~Lean(Session)  BY <1>1, <1>3 DEF Lean, AskedBreadth
  <2>4. \A t \in (Session + 1)..(job.today - 1) : Lean(t)
    <3>1. Session + 1 = job.today - job.offset + 1
      <4>1. job.today \in Int /\ job.offset \in Int  BY <1>1, JobType, RulesTyped
      <4> QED BY <4>1 DEF Session
    <3> QED BY <1>1, <3>1 DEF Walked
  <2>5. LastWide(BreadthOf(market[Session]))  BY <2>2, <2>3, <2>4 DEF LastWide
  <2>6. \A b \in brake' : LastWide(b)'
    <3>1. ASSUME NEW b, b = BreadthOf(market[Session]) PROVE LastWide(b)'
      BY <1>2, <2>1, <2>5, <3>1, LastWideSame
    <3> QED BY <2>1, <3>1
  <2> QED BY <2>1, <2>6 DEF Walked, Walking
<1>4. CASE ~WideEnough(BreadthOf(market[Session]))
  <2>1. UNCHANGED brake /\ job' = [job EXCEPT !.offset = @ + 1]  BY <1>4 DEF Counted
  <2>2. Lean(Session)  BY <1>4 DEF Lean
  <2> QED BY <1>1, <1>2, <2>1, <2>2, FurtherW
<1> QED BY <1>3, <1>4

\* Or that there is none, or that it was not told.
LEMMA NoneW ==
    ASSUME TInv, Walked, UNCHANGED rules, NoSession \/ BreadthFails
    PROVE  Walked'
<1>1. TypeOK /\ job.pc = "breadth" /\ Walking  BY DEF TInv, NoSession, BreadthFails, Walking
<1>2. /\ UNCHANGED <<market, job>> /\ brake' = {NoBreadth} /\ failed \subseteq failed'
  BY DEF NoSession, BreadthFails, Take
<1>3. CASE NoSession
  <2>1. /\ job.today \in Int /\ rules.breadth.lookback \in Nat
        /\ job.offset = rules.breadth.lookback + 1
    BY <1>1, <1>3, JobType, RulesTyped DEF NoSession
  <2>2. job.today - job.offset + 1 = job.today - rules.breadth.lookback  BY <2>1
  <2>3. LastWide(NoBreadth)  BY <1>1, <2>2 DEF LastWide, Walked
  <2>4. \A b : b = NoBreadth => LastWide(b)'  BY <1>2, <2>3, LastWideSame
  <2> QED BY <1>2, <2>4 DEF Walked, Walking
<1>4. CASE BreadthFails
  <2>1. AskedBreadth  BY <1>1, <1>4, WalkAsked DEF BreadthFails
  <2>2. ask.path = GroupedDaily(Session) /\ Session \in 0..LastDay
    BY <1>1, <2>1, SessionRange DEF AskedBreadth
  <2>3. GroupedDaily(Session) \in failed'  BY <1>4, <2>2 DEF BreadthFails, Take
  <2>4. ~Heedful'  BY <2>2, <2>3 DEF Heedful
  <2> QED BY <1>2, <2>4 DEF Walked, Walking
<1> QED BY <1>3, <1>4

Decided == {"price", "symbol", "indicators", "news", "size", "submit"}

\* Where the loop goes without walking.
LEMMA OnwardW ==
    ASSUME TInv, UNCHANGED rules,
           \/ NextCycle \/ Begin \/ CycleOver
           \/ Screen \/ ScreenFails \/ Screened \/ ReadLiquidity \/ JudgeLiquidity
           \/ AskBreadth \/ BreadthKnown \/ Price \/ Pass \/ Evaluate
           \/ ReadIndicators \/ Indicate \/ ReadNews \/ Filter \/ Size \/ Fill \/ Refuse
    PROVE  /\ UNCHANGED <<market, brake>> /\ failed \subseteq failed'
           /\ job'.today = job.today /\ job.pc # "idle"
           /\ job'.pc = "breadth" => UNCHANGED job \/ job'.offset = 1
           /\ job'.pc \in Decided => \/ job.pc \in Decided
                                     \/ job.pc = "breadth" /\ (brake # {} \/ ~rules.breadth.enabled)
<1>1. job \in Job  BY DEF TInv, TypeOK
<1>2. \A pc : Goto(pc).pc = pc /\ Goto(pc).today = job.today
  BY <1>1 DEF Goto, Job
<1>3. Passed.pc = "symbol" /\ Passed.today = job.today
  BY <1>1 DEF Passed, Job
<1>4. CASE NextCycle \/ Begin \/ CycleOver \/ Screen \/ ScreenFails \/ Screened
  <2>1. UNCHANGED <<market, brake, failed>>
    BY <1>4 DEF NextCycle, Begin, CycleOver, Screen, ScreenFails, Screened, Step
  <2>2. \/ job.pc \in {"top", "begin", "symbol", "screen"} /\ job' = Goto("top")
        \/ job.pc = "top" /\ job' = [job EXCEPT !.pc = "begin", !.left = @ - 1]
        \/ job.pc = "begin" /\ job' = [job EXCEPT !.pc = "screen", !.at = 1, !.tradable = {}]
        \/ job.pc = "screen" /\ job' = Goto("liquidity")
        \/ job.pc = "screen" /\ job' = [job EXCEPT !.at = @ + 1]
        \/ job.pc = "screen" /\ job' = [job EXCEPT !.pc = "breadth", !.offset = 1]
    BY <1>4 DEF NextCycle, Begin, CycleOver, Screen, ScreenFails, Screened, Step
  <2>3. CASE job' = Goto("top") \/ job' = Goto("liquidity")
    <3>1. job'.today = job.today /\ job'.pc \in {"top", "liquidity"}  BY <1>2, <2>3
    <3>2. job.pc # "idle"  BY <2>2
    <3> QED BY <2>1, <3>1, <3>2 DEF Decided
  <2>4. CASE ~(job' = Goto("top") \/ job' = Goto("liquidity"))
    <3>1. /\ job'.today = job.today /\ job'.pc \in {"begin", "screen", "breadth"}
          /\ job'.pc = "breadth" => job'.offset = 1
          /\ job.pc # "idle"
      BY <1>1, <2>2, <2>4 DEF Job
    <3> QED BY <2>1, <3>1 DEF Decided
  <2> QED BY <2>3, <2>4
<1>5. CASE ReadLiquidity \/ ReadIndicators \/ ReadNews \/ AskBreadth
  <2>1. UNCHANGED <<market, brake, job>> /\ failed \subseteq failed'
    BY <1>5 DEF ReadLiquidity, ReadIndicators, ReadNews, AskBreadth, Snapshot, Put, Take, loopVars
  <2>2. job.pc \in {"liquidity", "indicators", "news", "breadth"}
    BY <1>5 DEF ReadLiquidity, ReadIndicators, ReadNews, AskBreadth, Walking
  <2>3. job.pc = "breadth" => AskBreadth
    BY <1>5 DEF ReadLiquidity, ReadIndicators, ReadNews
  <2> QED BY <2>1, <2>2 DEF Decided
<1>6. CASE JudgeLiquidity
  <2>1. PICK l : Step([job EXCEPT !.pc = "screen", !.at = @ + 1,
                           !.tradable = IF Liquid(l) THEN @ \cup {job.at} ELSE @])
    BY <1>6 DEF JudgeLiquidity
  <2>2. job'.pc = "screen" /\ job'.today = job.today /\ job.pc = "liquidity"
    BY <1>1, <1>6, <2>1 DEF Job, Step, JudgeLiquidity
  <2> QED BY <2>1, <2>2 DEF Step, Decided
<1>7. CASE BreadthKnown  BY <1>2, <1>7 DEF BreadthKnown, Step, Decided
<1>8. CASE Price
  <2>1. PICK priced : Step([job EXCEPT !.pc = "symbol", !.at = 1, !.tradable = priced])
    BY <1>8 DEF Price
  <2>2. job'.pc = "symbol" /\ job'.today = job.today /\ job.pc = "price"
    BY <1>1, <1>8, <2>1 DEF Job, Step, Price
  <2> QED BY <2>1, <2>2 DEF Step, Decided
<1>9. CASE Pass \/ Fill \/ Refuse
  BY <1>3, <1>9 DEF Pass, Fill, Refuse, Step, Decided
<1>10. CASE Evaluate
  <2>1. PICK sig : Step([job EXCEPT !.pc = "indicators", !.sig = sig])  BY <1>10 DEF Evaluate
  <2>2. job'.pc = "indicators" /\ job'.today = job.today /\ job.pc = "symbol"
    BY <1>1, <1>10, <2>1 DEF Job, Step, Evaluate
  <2> QED BY <2>1, <2>2 DEF Step, Decided
<1>11. CASE Indicate \/ Filter
  <2>1. PICK sig : \/ Step([job EXCEPT !.pc = "news", !.sig = sig])
                   \/ Step([job EXCEPT !.pc = "size", !.sig = sig])
    BY <1>11 DEF Indicate, Filter
  <2>2. /\ job'.pc \in {"news", "size"} /\ job'.today = job.today
        /\ job.pc \in {"indicators", "news"}
    BY <1>1, <1>11, <2>1 DEF Job, Step, Indicate, Filter
  <2> QED BY <2>1, <2>2 DEF Step, Decided
<1>12. CASE Size
  <2>1. Step(Passed) \/ \E amount : Step([job EXCEPT !.pc = "submit", !.amount = amount])
    BY <1>12 DEF Size
  <2>2. job'.pc \in {"symbol", "submit"} /\ job'.today = job.today /\ job.pc = "size"
    BY <1>1, <1>3, <1>12, <2>1 DEF Job, Step, Size
  <2> QED BY <2>1, <2>2 DEF Step, Decided
<1> QED BY <1>4, <1>5, <1>6, <1>7, <1>8, <1>9, <1>10, <1>11, <1>12

LEMMA NextW ==
    ASSUME TInv, Walked, [Next]_vars
    PROVE  Walked'
<1>1. TypeOK  BY DEF TInv
<1>2. CASE Loop /\ UNCHANGED rules
  <2>1. CASE Start
    <3>1. job'.pc = "top" /\ brake' = {}  BY <2>1, NoJobType DEF Start, Job
    <3> QED BY <3>1 DEF Walked, Walking
  <2>2. CASE Leave
    <3>1. job'.pc = "idle"  BY <2>2, NoJobType DEF Leave, Step
    <3> QED BY <3>1 DEF Walked, Walking
  <2>3. CASE SkipWeekend
    <3>1. Lean(Session)  BY <2>3 DEF SkipWeekend, Lean
    <3>2. Walking /\ UNCHANGED <<rules, market, brake, failed>>
          /\ job' = [job EXCEPT !.offset = @ + 1]
      BY <1>2, <2>3 DEF SkipWeekend, Step
    <3> QED BY <1>1, <3>1, <3>2, FurtherW
  <2>4. CASE Counted  BY <1>2, <2>4, CountedW
  <2>5. CASE NoSession \/ BreadthFails  BY <1>2, <2>5, NoneW
  <2>6. CASE \/ NextCycle \/ Begin \/ CycleOver
             \/ Screen \/ ScreenFails \/ Screened \/ ReadLiquidity \/ JudgeLiquidity
             \/ AskBreadth \/ BreadthKnown \/ Price \/ Pass \/ Evaluate
             \/ ReadIndicators \/ Indicate \/ ReadNews \/ Filter \/ Size \/ Fill \/ Refuse
    <3>1. /\ UNCHANGED <<market, brake>> /\ failed \subseteq failed'
          /\ job'.today = job.today /\ job.pc # "idle"
          /\ job'.pc = "breadth" => UNCHANGED job \/ job'.offset = 1
          /\ job'.pc \in Decided => \/ job.pc \in Decided
                                    \/ job.pc = "breadth" /\ (brake # {} \/ ~rules.breadth.enabled)
      BY <1>2, <2>6, OnwardW
    <3>2. Walking' => (Walking /\ job'.offset = job.offset) \/ job'.offset = 1
      BY <1>2, <3>1 DEF Walking
    <3>3. job'.pc \in Decided /\ rules.breadth.enabled => brake # {}
      BY <3>1 DEF Walked, Decided
    <3> QED BY <1>1, <1>2, <3>1, <3>2, <3>3, WalkedKeep DEF Decided
  <2> QED BY <1>2, <2>1, <2>2, <2>3, <2>4, <2>5, <2>6 DEF Loop
<1>3. CASE \/ Asking \/ (Midnight /\ UNCHANGED loopVars) \/ ToggleStop \/ UNCHANGED vars
  <2>1. UNCHANGED <<rules, job, brake, market, failed>>
    BY <1>3 DEF Asking, Midnight, ToggleStop, vars, loopVars, Next
  <2>2. Walking' => Walking /\ job'.offset = job.offset  BY <2>1 DEF Walking
  <2>3. job'.pc \in Decided /\ rules.breadth.enabled => brake # {}
    BY <2>1 DEF Walked, Decided
  <2> QED BY <1>1, <2>1, <2>2, <2>3, WalkedKeep DEF Decided
<1> QED BY <1>2, <1>3 DEF Next

LEMMA AlwaysW == Spec => [](TInv /\ Walked)
<1>1. Init => Walked
  <2>1. SUFFICES ASSUME Init PROVE Walked  OBVIOUS
  <2>2. job.pc = "idle"  BY <2>1, NoJobType DEF Init
  <2> QED BY <2>2 DEF Walked, Walking
<1>2. TInv /\ Walked /\ [Next]_vars => Walked'  BY NextW
<1> QED BY <1>1, <1>2, AlwaysT, PTL DEF Spec

-----------------------------------------------------------------------------
(***************************************************************************)
(* The brake an entry follows.                                             *)
(***************************************************************************)

\* What breadth counts is what the session's rows say.
LEMMA SessionCount ==
    ASSUME TypeOK, NEW s \in 0..LastDay
    PROVE  /\ BreadthOf(market[s]).state = "read"
           /\ BreadthOf(market[s]).up = Gained(s) /\ Gained(s) \in Nat
           /\ Moved(BreadthOf(market[s])) = Stirred(s) /\ Stirred(s) \in Nat
<1> DEFINE rows == market[s]
           counted == Priced(s)
           up == {r \in counted : rows[r].close > rows[r].open}
           down == {r \in counted : rows[r].close < rows[r].open}
           stirred == {r \in counted : rows[r].close # rows[r].open}
<1>1. /\ IsFiniteSet(DOMAIN rows)
      /\ \A r \in DOMAIN rows : rows[r].open \in Int /\ rows[r].close \in Int
  BY VendorAssumption DEF TypeOK
<1>2. /\ BreadthOf(rows).state = "read"
      /\ BreadthOf(rows).up = Cardinality(up) /\ BreadthOf(rows).down = Cardinality(down)
      /\ Gained(s) = Cardinality(up) /\ Stirred(s) = Cardinality(stirred)
  BY DEF BreadthOf, Priced, Gained, Stirred
<1>3. up \subseteq DOMAIN rows /\ down \subseteq DOMAIN rows  BY DEF Priced
<1>4. \A r \in counted : r \in DOMAIN rows  BY DEF Priced
<1>5. stirred = up \cup down /\ up \cap down = {}
  <2> HIDE DEF counted, rows
  <2>1. \A r \in counted : rows[r].open \in Int /\ rows[r].close \in Int  BY <1>1, <1>4
  <2> QED BY <2>1
<1> HIDE DEF up, down, stirred, counted, rows
<1>6. IsFiniteSet(up) /\ IsFiniteSet(down)  BY <1>1, <1>3, FS_Subset
<1>7. Cardinality(up) \in Nat /\ Cardinality(down) \in Nat  BY <1>6, FS_CardinalityType
<1>8. Cardinality(stirred) = Cardinality(up) + Cardinality(down)
  <2>1. Cardinality(up \cap down) = 0  BY <1>5, FS_EmptySet
  <2>2. Cardinality(stirred) = Cardinality(up) + Cardinality(down) - Cardinality(up \cap down)
    BY <1>5, <1>6, FS_Union
  <2> QED BY <1>7, <2>1, <2>2
<1> QED BY <1>2, <1>7, <1>8 DEF Moved, rows

LEMMA LeanIs ==
    ASSUME NEW t
    PROVE  Lean(t) <=> t \in Weekend \/ ~Wide(t)
<1>1. BreadthOf(market[t]).counted = Cardinality(Priced(t))  BY DEF BreadthOf, Priced
<1> QED BY <1>1 DEF Lean, Wide, WideEnough

\* The first wide session back is the only one.
LEMMA LastIsIt ==
    ASSUME TypeOK, NEW b, LastWide(b), NEW s \in LastSession(job.today)
    PROVE  b = BreadthOf(market[s]) /\ s \in 0..LastDay /\ Wide(s)
<1>1. /\ s \in (job.today - rules.breadth.lookback)..(job.today - 1)
      /\ ~Lean(s) /\ Wide(s)
      /\ \A t \in (s + 1)..(job.today - 1) : Lean(t)
  BY LeanIs DEF LastSession
<1>2. /\ job.today \in FirstDay..LastDay /\ rules.breadth.lookback \in 0..FirstDay
      /\ FirstDay \in Nat /\ LastDay \in Nat
  BY JobType, RulesTyped
<1>3. s \in 0..LastDay  BY <1>1, <1>2
<1>4. PICK u \in (job.today - rules.breadth.lookback)..(job.today - 1) :
          /\ b = BreadthOf(market[u]) /\ ~Lean(u)
          /\ \A t \in (u + 1)..(job.today - 1) : Lean(t)
  BY <1>1 DEF LastWide
<1>5. u = s
  <2>1. ~(u < s)
    <3>1. u < s => s \in (u + 1)..(job.today - 1)  BY <1>1, <1>2
    <3> QED BY <1>1, <1>4, <3>1
  <2>2. ~(s < u)
    <3>1. s < u => u \in (s + 1)..(job.today - 1)  BY <1>1, <1>2
    <3> QED BY <1>1, <1>4, <3>1
  <2> QED BY <1>1, <1>2, <2>1, <2>2
<1> QED BY <1>1, <1>3, <1>4, <1>5

\* A size that is left is within the configured share, whatever it is.
LEMMA ReducedAmount ==
    ASSUME TypeOK, NEW b, NEW pct \in Int, Multiplier(b) = Reducing(pct), ScaledAmount(Cap, b) > 0
    PROVE  ScaledAmount(Cap, b) * 100 <= Cap * pct
<1>1. ScaledAmount(Cap, b) \in 0..Cap /\ ScaledAmount(Cap, b) * 100 <= Cap * Reducing(pct)
  BY ScaledRange
<1>2. Cap \in Nat  BY RulesTyped
<1>3. CASE pct < 0
  <2>1. Reducing(pct) = 0  BY <1>3, ReducingRange
  <2>2. Cap * Reducing(pct) = 0  BY <1>2, <2>1
  <2> QED BY <1>1, <1>2, <2>2
<1>4. CASE pct >= 0
  <2>1. Reducing(pct) \in Nat /\ Reducing(pct) <= pct /\ pct \in Nat  BY <1>4, ReducingRange
  <2>2. Cap * Reducing(pct) \in Nat /\ Cap * Reducing(pct) <= Cap * pct
    BY <1>2, <2>1, ProductsOfNat
  <2>3. Cap * pct \in Int  BY <1>2
  <2> QED BY <1>1, <1>2, <2>2, <2>3
<1> QED BY <1>3, <1>4

LEMMA BrakeFollows ==
    ASSUME TInv, Judged, Walked
    PROVE  BrakeHolds
<1>1. SUFFICES ASSUME Entering, rules.breadth.enabled, Heedful,
                      NEW s \in LastSession(job.today), Stirred(s) > 0
               PROVE  /\ Gained(s) * 100 <= rules.breadth.offAt * Stirred(s) =>
                           ~rules.breadth.offBlocks /\ job.amount * 100 <= Cap * rules.breadth.off
                      /\ Gained(s) * 100 > rules.breadth.offAt * Stirred(s) =>
                           \/ Gained(s) * 100 >= rules.breadth.onAt * Stirred(s)
                           \/ job.amount * 100 <= Cap * rules.breadth.neutral
  BY DEF BrakeHolds, Heedful
<1>2. TypeOK /\ rules \in Rules  BY RulesTyped DEF TInv
<1>3. {rules.breadth.off, rules.breadth.neutral, rules.breadth.offAt, rules.breadth.onAt} \subseteq Int
  BY <1>2 DEF Rules
<1>4. PICK b : b \in brake /\ b = Breadth
  <2>1. brake # {}  BY <1>1 DEF Walked, Entering
  <2> QED BY <1>1, <2>1 DEF Breadth
<1>5. LastWide(b)  BY <1>1, <1>4 DEF Walked, Entering
<1>6. b = BreadthOf(market[s]) /\ s \in 0..LastDay /\ Wide(s)  BY <1>2, <1>5, LastIsIt
<1>7. /\ b.state = "read" /\ b.up = Gained(s) /\ Moved(b) = Stirred(s)
      /\ Gained(s) \in Nat /\ Stirred(s) \in Nat
  BY <1>2, <1>6, SessionCount
<1>8. ~Unread(b) /\ WideEnough(b) /\ Moved(b) # 0
  <2>1. b.counted = Cardinality(Priced(s))  BY <1>6 DEF BreadthOf, Priced
  <2>2. WideEnough(b)  BY <1>6, <2>1 DEF Wide, WideEnough
  <2> QED BY <1>1, <1>7, <2>2 DEF Unread
<1>9. Regime(b) = IF Gained(s) * 100 <= rules.breadth.offAt * Stirred(s) THEN "off"
                  ELSE IF Share(Gained(s), Stirred(s), rules.breadth.onAt) THEN "on" ELSE "neutral"
  BY <1>1, <1>7, <1>8 DEF Regime
<1>10. EntryAllowed(Cap, b) /\ job.amount = ScaledAmount(Cap, b)
  BY <1>1, <1>4 DEF Judged, Entering
<1>11. ScaledAmount(Cap, b) > 0 /\ ~BlocksEntries(b)  BY <1>1, <1>2, <1>10, AllowedSize
<1>12. CASE Gained(s) * 100 <= rules.breadth.offAt * Stirred(s)
  <2>1. Regime(b) = "off"  BY <1>9, <1>12
  <2>2. ~rules.breadth.offBlocks  BY <1>11, <2>1 DEF BlocksEntries
  <2>3. Multiplier(b) = Reducing(rules.breadth.off)  BY <2>1 DEF Multiplier
  <2>4. job.amount * 100 <= Cap * rules.breadth.off
    BY <1>2, <1>3, <1>10, <1>11, <2>3, ReducedAmount
  <2>5. rules.breadth.offAt * Stirred(s) \in Int  BY <1>3, <1>7
  <2> QED BY <1>7, <1>12, <2>2, <2>4, <2>5
<1>13. CASE ~(Gained(s) * 100 <= rules.breadth.offAt * Stirred(s))
  <2>1. CASE Share(Gained(s), Stirred(s), rules.breadth.onAt)  BY <1>13, <2>1 DEF Share
  <2>2. CASE ~Share(Gained(s), Stirred(s), rules.breadth.onAt)
    <3>1. Regime(b) = "neutral"  BY <1>9, <1>13, <2>2
    <3>2. Multiplier(b) = Reducing(rules.breadth.neutral)  BY <3>1 DEF Multiplier
    <3>3. job.amount * 100 <= Cap * rules.breadth.neutral
      BY <1>2, <1>3, <1>10, <1>11, <3>2, ReducedAmount
    <3> QED BY <1>13, <3>3
  <2> QED BY <2>1, <2>2
<1> QED BY <1>12, <1>13

\* For every configuration, every calendar and whatever the sessions counted:
\* an entry follows the breadth of the last closed session before the loop was
\* built, unless a request of the loop failed.
THEOREM BrakeIsHeld == Spec => []BrakeHolds
<1>1. TInv /\ Kept /\ Judged /\ Walked => BrakeHolds  BY BrakeFollows
<1> QED BY <1>1, AlwaysS, AlwaysW, PTL
=============================================================================
