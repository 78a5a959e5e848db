----------------------------- MODULE Settlement -----------------------------
(***************************************************************************)
(* src/scout_settlement/settlement.py: did the underlying reach the play's *)
(* target before its stop, within so many sessions?  No state: a verdict   *)
(* is a function of the play's levels and of the bars it is given.         *)
(*                                                                         *)
(* Both the scout-settlement job and the Sector Scout's open calls are     *)
(* graded by it.                                                           *)
(***************************************************************************)
EXTENDS Integers, Sequences

Price == Nat

\* A price range: one session, or one minute of a session.
Bar == [high : Price, low : Price]

\* The levels of a play, all on the underlying.  A call or a long share is
\* bullish: its target is above, its stop below.
Levels == [bullish : BOOLEAN, target : Price, stop : Price]

Verdicts == {"WIN", "LOSS", "OPEN"}

\* Verdicts the sweep never looks at again.
Frozen == {"WIN", "LOSS"}

HitsTarget(bar, play) ==
    IF play.bullish THEN bar.high >= play.target ELSE bar.low <= play.target

HitsStop(bar, play) ==
    IF play.bullish THEN bar.low <= play.stop ELSE bar.high >= play.stop

Touches(bar, play) == HitsTarget(bar, play) \/ HitsStop(bar, play)

\* bars[k] is the first bar that touches a level.
DecidedAt(bars, play, k) ==
    /\ k \in 1..Len(bars)
    /\ Touches(bars[k], play)
    /\ \A j \in 1..(k-1) : ~ Touches(bars[j], play)

\* Within one session that spans both levels: the first minute that touches one
\* decides, and only if it touches the target alone is it a win.
MinutesWin(minutes, play) ==
    \E k \in 1..Len(minutes) :
        DecidedAt(minutes, play, k) /\ ~ HitsStop(minutes[k], play)

\* Session k reached the target first; minutesOf[k] are its minute bars, none
\* when they could not be had.
SessionWins(bars, minutesOf, play, k) ==
    /\ HitsTarget(bars[k], play)
    /\ HitsStop(bars[k], play) => MinutesWin(minutesOf[k], play)

\* Only the first `horizon' bars count, and the first of them that touches a
\* level decides.
Considered(bars, horizon, k) == k \in 1..Len(bars) /\ k <= horizon

Settle(play, bars, minutesOf, horizon) ==
    IF \E k \in 1..Len(bars) :
          /\ Considered(bars, horizon, k)
          /\ DecidedAt(bars, play, k)
          /\ SessionWins(bars, minutesOf, play, k)
    THEN "WIN"
    ELSE IF \E k \in 1..Len(bars) :
               Considered(bars, horizon, k) /\ Touches(bars[k], play)
    THEN "LOSS"
    ELSE "OPEN"
=============================================================================
