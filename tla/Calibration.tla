----------------------------- MODULE Calibration -----------------------------
(***************************************************************************)
(* How good the scouts were: the tallies of the day documents, as they are *)
(* when somebody looks (src/scout_calibration/calibration.py and           *)
(* report_summary of src/entry_alerts/store.py), and the replay that       *)
(* grades plays from their days' bars in one go, long after                *)
(* (src/scout_backtest/backtest.py).                                       *)
(*                                                                         *)
(* The live verdicts were written one sweep at a time, by jobs that fail   *)
(* and lose minute bars; the replay is a second caller of settle(), whose  *)
(* requests fail too.  It derives its plays again, those of the options    *)
(* scout only and on dates of its own: what it has in common with the      *)
(* record may be any part of it, and what it finds beside is not compared. *)
(***************************************************************************)
EXTENDS DayStore

CalibrationDays == 60

\* A record is a play of a day that was reported.
Records ==
    {r \in ReportDays(CalibrationDays) \X Play : r[2] \in doc[r[1]].plays}

Recorded(r) == doc[r[1]].verdict[r[2]]

\* Broken variant: the bars start with the day of the play itself.
SpanFromPlayDay(rows, day) == SubSeq(rows, day, MaxDay)

\* Two horizons and a week of days after the play's day.
Span(rows, day) ==
    LET last == day + 2 * Horizon + 7
    IN  SubSeq(rows, day + 1, IF last < MaxDay THEN last ELSE MaxDay)

\* What a replay lacks for a play: nothing; minute bars it could not fetch; or the
\* whole record, the bars not fetched or the play not among those it derived.
Gap == {"nothing", "minutes", "record"}

\* settle_play: no bars, no record, and sessions without minutes are a loss.
Replayed(r, gap) ==
    LET bars    == Span(market.bars[r[2]], r[1])
        minutes == IF gap = "minutes" THEN [k \in DOMAIN bars |-> <<>>]
                   ELSE Span(market.minutes[r[2]], r[1])
    IN  IF gap = "record" \/ bars = <<>> THEN "none"
        ELSE Settle(LevelsOf[r[2]], bars, minutes, Horizon)

\* compute_calibration, and report_summary for a day: the same counts for all graded
\* plays <<record, verdict>>, for those of a conviction tier, of a scout or of a day.
Tally(graded) ==
    LET those(S) == Cardinality({g \in graded : g[2] \in S})
    IN  [settled |-> those(Frozen), wins |-> those({"WIN"}), open |-> those({"OPEN"})]

-----------------------------------------------------------------------------
(***************************************************************************)
(* Properties.                                                             *)
(***************************************************************************)

\* A session within the horizon spans both levels: its minutes had to decide.
Ambiguous(r) ==
    \E k \in (r[1]+1)..MaxDay :
        /\ k <= r[1] + Horizon
        /\ HitsTarget(market.bars[r[2]][k], LevelsOf[r[2]])
        /\ HitsStop(market.bars[r[2]][k], LevelsOf[r[2]])

\* The live counts of a part of the plays against those of a replay that lacks `gaps'.
Explained(part, gaps, recorded, replayed) ==
    LET live   == Tally({g \in recorded : g[1] \in part})
        replay == Tally({g \in replayed : g[1] \in part /\ g[3] = gaps[g[1]]})
        absent == {r \in part : gaps[r] = "record"}
        blind  == {r \in part : gaps[r] = "minutes" /\ Ambiguous(r)}
        unsure == {r \in part : Recorded(r) \notin Frozen \/ Ambiguous(r)}
    IN  /\ live.settled <= replay.settled + Cardinality(absent)
        /\ live.wins <= replay.wins + Cardinality(absent \cup blind)
        /\ replay.wins <= live.wins + Cardinality(unsure)

\* What the calibration page says was realized does not flatter the scouts, and what it
\* misses is accounted for.  Compare, in every tier, for every scout and every day, the
\* live counts with those of a replay, whatever that lacks: more plays are settled live
\* only by those of which the replay has no record, more of them won only by those and by
\* ones it had to decide without their minutes, and fewer won only by plays still to be
\* settled and ones whose minutes had to decide (calibration.py:82, backtest.py:57,
\* settlement.py:110).
CalibrationUnderstates ==
    LET recorded == {<<r, Recorded(r)>> : r \in Records}
        replayed == {<<r, Replayed(r, gap), gap>> : r \in Records, gap \in Gap}
    IN  \A part \in SUBSET Records : \A gaps \in [part -> Gap] :
            Explained(part, gaps, recorded, replayed)
=============================================================================
