----------------------------- MODULE MCDayStore -----------------------------
(* Instances of DayStore for TLC.  Prices run from 1 to 3; a quiet session   *)
(* stays at 2, the levels of the plays are 1 and 3.                          *)
EXTENDS Calibration

MCPlay == {"opt", "small"}

MCLevels == [p \in Play |->
    IF p = "opt" THEN [bullish |-> FALSE, target |-> 1, stop |-> 3]
    ELSE [bullish |-> TRUE, target |-> 3, stop |-> 1]]

TwoScouts == [s \in {"options", "smallcap"} |-> IF s = "options" THEN {"opt"} ELSE {"small"}]
AnyScout  == [s \in {"options"} |-> MCPlay]

quiet == [high |-> 2, low |-> 2]
up    == [high |-> 3, low |-> 2]
down  == [high |-> 2, low |-> 1]
both  == [high |-> 3, low |-> 1]

\* Every play sees the same prices: `range' by session, and in a session that
\* spans both levels the minutes of `inside'.
Market(play, range, inside) ==
    [bars    |-> [p \in play |-> range],
     minutes |-> [p \in play |-> [k \in DOMAIN range |->
                      IF range[k] = both THEN inside ELSE <<range[k]>>]]]

NoMove == {Market(MCPlay, <<quiet, quiet>>, <<>>)}

MCMarkets ==
    {Market(MCPlay, range, inside) :
        range  \in {<<down, a, b, up, quiet>> : a \in {quiet, down}, b \in {quiet, up}}
              \cup {<<quiet, both, up, quiet, quiet>>, <<up, quiet, quiet, both, down>>},
        inside \in {<<quiet, up, down>>, <<down, up>>, <<both>>, <<>>}}
=============================================================================
