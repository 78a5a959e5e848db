---------------------------- MODULE MCEquityCycle ----------------------------
(* Instances of EquityCycle for TLC: the shipped thresholds, with every      *)
(* reading required or none of them.                                         *)
EXTENDS EquityCycle

Shipped == [
    profile |-> [buy  |-> {"ema20_above_ema50", "rsi_between_35_and_70", "momentum_5_positive"},
                 sell |-> {"rsi_above_75", "momentum_5_negative", "stop_loss_hit", "take_profit_hit"}],
    ind     |-> [enabled |-> TRUE, required |-> FALSE, up |-> 110, down |-> 50, cold |-> 115,
                 over |-> 50, bull |-> 110, bear |-> 60, onDown |-> "skip", onHot |-> "skip",
                 onOver |-> "downweight", onBear |-> "downweight", hotAt |-> 80, overAt |-> 70,
                 coldAt |-> 30, ceiling |-> 950000, floor |-> 350000],
    news    |-> [enabled |-> TRUE, required |-> FALSE, hours |-> 48, labels |-> {"negative"},
                 minimum |-> 2, strongAt |-> 60, negativeAt |-> 34, onStrong |-> "skip", onNegative |-> "downweight", strong |-> 40, negative |-> 60,
                 floor |-> 350000],
    breadth |-> [enabled |-> TRUE, required |-> FALSE, close |-> 1, minimum |-> 5, lookback |-> 3,
                 onAt |-> 55, offAt |-> 40, offBlocks |-> TRUE, on |-> 100, neutral |-> 75, off |-> 40,
                 least |-> 5],
    liq     |-> [enabled |-> TRUE, required |-> FALSE, bars |-> 2, stale |-> 2, close |-> 3, volume |-> 2,
                 dollars |-> 10]]

\* Every reading required, and multipliers that would enlarge an entry.
Strict == [Shipped EXCEPT !.ind.required = TRUE, !.news.required = TRUE, !.breadth.required = TRUE,
                          !.liq.required = TRUE, !.breadth.neutral = 150, !.news.negative = 120]
MCConfigs == {Shipped, Strict}

History(warm, ema20, ema50, rsi, momentum) ==
    [warm |-> warm, ema20 |-> ema20, ema50 |-> ema50, rsi |-> rsi, momentum |-> momentum]

MCHistories ==
    {History(TRUE, 2, 1, 50, 1), History(TRUE, 2, 1, 50, -1), History(TRUE, 2, 1, 76, 1),
     History(FALSE, 0, 0, 0, 0)}

Point(fast, slow, rsi, macd, signal) ==
    [fast |-> fast, slow |-> slow, rsi |-> rsi, macd |-> macd, signal |-> signal]

MCPoints == {Point(2, 1, 50, 1, 2), Point(2, 1, 70, 1, 2), Point(1, 2, 50, 2, 1),
             Point(Missing, 1, 80, 1, 1)}

\* Articles: rated ones of either kind, one too old, one about another symbol.
Rated(negative, others) ==
    [a \in 1..(negative + others) |->
        [age |-> 10, label |-> IF a <= negative THEN "negative" ELSE "neutral"]]
    @@ (90 :> [age |-> 49, label |-> "negative"]) @@ (91 :> [age |-> 48, label |-> "none"])

MCArticles == {Rated(1, 1), Rated(3, 2)}

Bar(d, close, volume) == [day |-> d, close |-> close, volume |-> volume]

MCBars == {{Bar(1, 3, 4), Bar(2, 4, 2), Bar(3, 0, 0)}, {Bar(1, 3, 4), Bar(2, 3, 0)}}

\* A session: rows that rose and fell, one that did not move, one below the floor.
Rows(up, down) ==
    [r \in 1..(up + down) |-> [open |-> 2, close |-> IF r <= up THEN 3 ELSE 1]]
    @@ (90 :> [open |-> 2, close |-> 2]) @@ (91 :> [open |-> 3, close |-> 0])

Falling == Rows(2, 3)
Mixed == Rows(2, 2)
Rising == Rows(4, 2)
Closed == << >>

\* Breadth of days 0, 2 and 3; day 1 is the weekend.  A closed day 2 sends the
\* walk back to day 0; day 3 is still open when the loop is built.
Breadths == {<<Mixed, Mixed, Falling>>, <<Falling, Closed, Rising>>, <<Closed, Closed, Rising>>}
MCMarkets == {[d \in 0..LastDay |-> IF d = 0 THEN b[1] ELSE IF d = 2 THEN b[2] ELSE b[3]] : b \in Breadths}
=============================================================================
