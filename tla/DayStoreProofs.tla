--------------------------- MODULE DayStoreProofs ---------------------------
(***************************************************************************)
(* The safety properties of DayStore for every set of plays, scouts and    *)
(* alerters, every price history, horizon, window and bound.               *)
(***************************************************************************)
EXTENDS Calibration, FiniteSetTheorems, SequenceTheorems, WellFoundedInduction, TLAPS

-----------------------------------------------------------------------------
(***************************************************************************)
(* What a verdict of settle() is worth, for all levels, bars and horizons. *)
(***************************************************************************)

\* A minute walk that wins reached the target with no minute up to it, that one
\* included, reaching the stop.
LEMMA MinutesWinEarned ==
    ASSUME NEW minutes, Len(minutes) \in Nat, NEW play, MinutesWin(minutes, play)
    PROVE  \E m \in 1..Len(minutes) :
              /\ HitsTarget(minutes[m], play)
              /\ \A i \in 1..m : ~ HitsStop(minutes[i], play)
<1>1. PICK m \in 1..Len(minutes) :
         DecidedAt(minutes, play, m) /\ ~ HitsStop(minutes[m], play)
  BY DEF MinutesWin
<1>2. HitsTarget(minutes[m], play)
  BY <1>1 DEF DecidedAt, Touches
<1>3. \A i \in 1..m : i = m \/ i \in 1..(m-1)
  OBVIOUS
<1>4. \A i \in 1..m : ~ HitsStop(minutes[i], play)
  BY <1>1, <1>3 DEF DecidedAt, Touches
<1>5. QED
  BY <1>2, <1>4

\* settle() never claims a win the prices do not show: a session of the horizon
\* reached the target, none before it reached the stop, and where it did itself
\* its minutes reached the target first (settlement.py:23).
THEOREM NoOverclaim ==
    ASSUME NEW bars, Len(bars) \in Nat, NEW minutesOf,
           \A k \in 1..Len(bars) : Len(minutesOf[k]) \in Nat,
           NEW play, NEW horizon \in Nat,
           Settle(play, bars, minutesOf, horizon) = "WIN"
    PROVE  \E k \in 1..Len(bars) :
              /\ k <= horizon
              /\ HitsTarget(bars[k], play)
              /\ \A i \in 1..(k-1) : ~ HitsStop(bars[i], play)
              /\ HitsStop(bars[k], play) =>
                    \E m \in 1..Len(minutesOf[k]) :
                        /\ HitsTarget(minutesOf[k][m], play)
                        /\ \A i \in 1..m : ~ HitsStop(minutesOf[k][i], play)
<1>1. PICK k \in 1..Len(bars) :
         /\ Considered(bars, horizon, k)
         /\ DecidedAt(bars, play, k)
         /\ SessionWins(bars, minutesOf, play, k)
  BY DEF Settle
<1>2. k <= horizon /\ \A i \in 1..(k-1) : ~ HitsStop(bars[i], play)
  BY <1>1 DEF Considered, DecidedAt, Touches
<1>3. /\ HitsTarget(bars[k], play)
      /\ HitsStop(bars[k], play) => MinutesWin(minutesOf[k], play)
  BY <1>1 DEF SessionWins
<1>4. QED
  BY <1>2, <1>3, MinutesWinEarned

\* Graded again when more sessions are there, a decided play gets the verdict it
\* had, as long as the minute bars of the sessions it had are the same: running
\* the sweep again is safe (__main__.py:9).
THEOREM VerdictStays ==
    ASSUME NEW S, NEW bars \in Seq(S), NEW more \in Seq(S), NEW minutesOf, NEW wider,
           \A k \in 1..Len(bars) : wider[k] = minutesOf[k],
           NEW play, NEW horizon \in Nat,
           Settle(play, bars, minutesOf, horizon) # "OPEN"
    PROVE  Settle(play, bars \o more, wider, horizon) = Settle(play, bars, minutesOf, horizon)
<1> DEFINE all == bars \o more
<1>1. /\ Len(bars) \in Nat /\ Len(all) \in Nat /\ Len(bars) <= Len(all)
      /\ \A k \in 1..Len(bars) : all[k] = bars[k] /\ k \in 1..Len(all)
  OBVIOUS
<1> HIDE DEF all
<1>2. ASSUME NEW k \in 1..Len(bars)
      PROVE  /\ Considered(all, horizon, k) <=> Considered(bars, horizon, k)
             /\ Touches(all[k], play) <=> Touches(bars[k], play)
             /\ DecidedAt(all, play, k) <=> DecidedAt(bars, play, k)
             /\ SessionWins(all, wider, play, k) <=> SessionWins(bars, minutesOf, play, k)
  <2>1. \A j \in 1..(k-1) : all[j] = bars[j]
    BY <1>1
  <2>2. QED
    BY <1>1, <2>1 DEF Considered, DecidedAt, SessionWins
<1>3. CASE \E k \in 1..Len(bars) :
              /\ Considered(bars, horizon, k)
              /\ DecidedAt(bars, play, k)
              /\ SessionWins(bars, minutesOf, play, k)
  <2>1. Settle(play, bars, minutesOf, horizon) = "WIN"
    BY <1>3 DEF Settle
  <2>2. \E k \in 1..Len(all) :
              /\ Considered(all, horizon, k)
              /\ DecidedAt(all, play, k)
              /\ SessionWins(all, wider, play, k)
    BY <1>1, <1>2, <1>3
  <2>3. Settle(play, all, wider, horizon) = "WIN"
    BY <2>2 DEF Settle
  <2>4. QED
    BY <2>1, <2>3 DEF all
<1>4. CASE ~ \E k \in 1..Len(bars) :
                /\ Considered(bars, horizon, k)
                /\ DecidedAt(bars, play, k)
                /\ SessionWins(bars, minutesOf, play, k)
  <2>1. PICK k \in 1..Len(bars) : Considered(bars, horizon, k) /\ Touches(bars[k], play)
    BY <1>4 DEF Settle
  <2>2. Settle(play, bars, minutesOf, horizon) = "LOSS"
    BY <1>4, <2>1 DEF Settle
  <2>3. ASSUME NEW i \in 1..Len(all), DecidedAt(all, play, i) PROVE i \in 1..Len(bars)
    <3>1. Touches(all[k], play)
      BY <1>2, <2>1
    <3>2. ~ (k \in 1..(i-1))
      BY <2>3, <3>1 DEF DecidedAt
    <3>3. QED
      BY <1>1, <3>2
  <2>4. ~ \E i \in 1..Len(all) :
              /\ Considered(all, horizon, i)
              /\ DecidedAt(all, play, i)
              /\ SessionWins(all, wider, play, i)
    BY <1>2, <1>4, <2>3
  <2>5. \E i \in 1..Len(all) : Considered(all, horizon, i) /\ Touches(all[i], play)
    BY <1>1, <1>2, <2>1
  <2>6. Settle(play, all, wider, horizon) = "LOSS"
    BY <2>4, <2>5 DEF Settle
  <2>7. QED
    BY <2>2, <2>6 DEF all
<1>5. QED
  BY <1>3, <1>4

\* An outage of the minute bars can only turn a win into a loss: a win graded
\* without them is a win with any (settlement.py:100).
THEOREM OutageIsConservative ==
    ASSUME NEW bars, Len(bars) \in Nat, NEW minutesOf, NEW play, NEW horizon \in Nat,
           Settle(play, bars, [k \in 1..Len(bars) |-> <<>>], horizon) = "WIN"
    PROVE  Settle(play, bars, minutesOf, horizon) = "WIN"
<1> DEFINE none == [k \in 1..Len(bars) |-> <<>>]
<1>1. PICK k \in 1..Len(bars) :
         /\ Considered(bars, horizon, k)
         /\ DecidedAt(bars, play, k)
         /\ SessionWins(bars, none, play, k)
  BY DEF Settle
<1>2. none[k] = <<>> /\ Len(<<>>) = 0 /\ 1..0 = {}
  OBVIOUS
<1>3. ~ MinutesWin(none[k], play)
  BY <1>2 DEF MinutesWin
<1> HIDE DEF none
<1>4. SessionWins(bars, minutesOf, play, k)
  BY <1>1, <1>3 DEF SessionWins
<1>5. QED
  BY <1>1, <1>4 DEF Settle

-----------------------------------------------------------------------------
(***************************************************************************)
(* The days, the marks and the verdicts.                                   *)
(***************************************************************************)

\* The two dates, and the days the jobs are about: writers are at or after the
\* New York date, the sweep is before the one it started on.
Calendar ==
    /\ et <= utc /\ utc <= et + 1
    /\ \A j \in Writer : pc[j] # "idle" => job[j].day >= et
    /\ pc[Settler] # "idle" => job[Settler].today <= et
    /\ \A d \in job[Settler].todo : d < job[Settler].today
    /\ pc[Settler] \in {"merge", "put"} => job[Settler].day \in job[Settler].todo

\* A day that New York has not left has no outcome, and no writer holds one.
NoneYet ==
    /\ \A d \in Day : d >= et => doc[d].verdict = NoVerdict
    /\ \A j \in Writer : job[j].base.verdict = NoVerdict

\* The sweep never holds a new verdict for a play that is final.
Respects ==
    LET d == job[Settler].day
    IN  /\ pc[Settler] = "merge" =>
              \A p \in Play : doc[d].verdict[p] \in Frozen => job[Settler].outs[p] = "none"
        /\ pc[Settler] = "put" =>
              /\ job[Settler].base.fired = doc[d].fired
              /\ \A p \in Play : doc[d].verdict[p] \in Frozen =>
                    job[Settler].base.verdict[p] = doc[d].verdict[p]

\* A win the sweep holds in memory is supported as well.
PendingWins ==
    LET d == job[Settler].day
    IN  \A p \in Play :
          /\ pc[Settler] = "merge" /\ job[Settler].outs[p] = "WIN" => Supported(p, d, et)
          /\ pc[Settler] = "put" /\ job[Settler].base.verdict[p] = "WIN" => Supported(p, d, et)

\* Alerter executions that have marked play p of day d and not mailed it yet.
Senders(d, p) == {a \in Alerters : pc[a] = "send" /\ job[a].day = d /\ p \in job[a].ids}

\* While a play is unmarked, each mail of it goes back to an upload that lost
\* marks.
Unmarked ==
    \A d \in Day, p \in Play :
        p \notin doc[d].fired =>
            alerted[d][p] + Cardinality(Senders(d, p)) <= Cardinality(Alerters) * disturbed[d]

-----------------------------------------------------------------------------
(***************************************************************************)
(* Types.                                                                  *)
(***************************************************************************)

\* The empty document and the empty job have their types.
LEMMA EmptyTypes == EmptyDay \in Doc /\ NoJob \in Job /\ 1 \in Day
BY DayBoundAssumption DEF EmptyDay, NoJob, NoVerdict, Doc, Job, Day

\* What the store makes of a document and of play ids is a document.
LEMMA DocTypes ==
    ASSUME NEW d \in Doc, NEW ids \in SUBSET Play
    PROVE  /\ AsDayState(d) \in Doc /\ AsDayState(d).plays = d.plays
           /\ AsDayState(d).fired = d.fired /\ AsDayState(d).verdict = NoVerdict
           /\ SavePlays(d, ids) \in Doc /\ SavePlays(d, ids).fired = d.fired
           /\ SavePlays(d, ids).verdict = d.verdict
           /\ MarkFired(d, ids) \in Doc /\ MarkFired(d, ids).fired = d.fired \cup ids
           /\ MarkFired(d, ids).verdict = d.verdict
BY DEF Doc, AsDayState, SavePlays, MarkFired, NoVerdict

\* Begin is the one way pc and job change together.
LEMMA BeginType ==
    ASSUME TypeOK, NEW j \in Jobs, NEW at \in PcOf(j), NEW fresh \in Job, Begin(j, at, fresh)
    PROVE  /\ pc' \in [Jobs -> {"idle", "load", "write", "send", "sweep", "merge", "put"}]
           /\ \A i \in Jobs : pc'[i] \in PcOf(i)
           /\ job' \in [Jobs -> Job]
           /\ pc'[j] = at /\ job'[j] = fresh
           /\ \A i \in Jobs \ {j} : pc'[i] = pc[i] /\ job'[i] = job[i]
BY DEF TypeOK, Begin, PcOf

LEMMA EndType ==
    ASSUME TypeOK, NEW j \in Jobs, End(j)
    PROVE  /\ pc' \in [Jobs -> {"idle", "load", "write", "send", "sweep", "merge", "put"}]
           /\ \A i \in Jobs : pc'[i] \in PcOf(i)
           /\ job' \in [Jobs -> Job]
           /\ pc'[j] = "idle" /\ job'[j] = NoJob
           /\ \A i \in Jobs \ {j} : pc'[i] = pc[i] /\ job'[i] = job[i]
<1>1. "idle" \in PcOf(j)
  BY DEF PcOf
<1>2. QED
  BY <1>1, EmptyTypes, BeginType DEF End

\* The job kinds are apart, so their steps are.
LEMMA Kinds ==
    /\ \A j \in Scouts : j \in Jobs /\ j \in Writer /\ j \notin Alerters /\ j # Settler
                         /\ PcOf(j) = {"idle", "load", "write"}
    /\ \A j \in Alerters : j \in Jobs /\ j \in Writer /\ j \notin Scouts /\ j # Settler
                           /\ PcOf(j) = {"idle", "load", "write", "send"}
    /\ \A j \in Writer : j \in Scouts \/ j \in Alerters
    /\ Settler \in Jobs /\ Settler \notin Writer /\ PcOf(Settler) = {"idle", "sweep", "merge", "put"}
    /\ \A j \in Jobs : j \in Writer \/ j = Settler
BY JobAssumption DEF Jobs, Writer, PcOf

\* What a writer loads is a document without outcomes: the day's, or none.
LEMMA LoadFacts ==
    ASSUME TypeOK, NEW day \in Day, NEW base, LoadDay(day, base)
    PROVE  /\ base \in Doc /\ base.verdict = NoVerdict /\ faults' \in Nat
           /\ base = EmptyDay \/ base.fired = doc[day].fired
<1>1. CASE base = AsDayState(doc[day]) /\ UNCHANGED faults
  <2>1. doc[day] \in Doc /\ faults \in Nat
    BY DEF TypeOK
  <2>2. QED
    BY <1>1, <2>1, DocTypes
<1>2. CASE base = EmptyDay /\ Fault
  <2>1. faults' \in Nat
    BY <1>2 DEF TypeOK, Fault
  <2>2. EmptyDay.verdict = NoVerdict
    BY DEF EmptyDay
  <2>3. QED
    BY <1>2, <2>1, <2>2, EmptyTypes
<1>3. QED
  BY <1>1, <1>2 DEF LoadDay

\* Going on to the next day, or ending, keeps the types.
LEMMA OnwardType ==
    ASSUME TypeOK, NEW at \in Job, Onward(Settler, at)
    PROVE  /\ pc' \in [Jobs -> {"idle", "load", "write", "send", "sweep", "merge", "put"}]
           /\ \A i \in Jobs : pc'[i] \in PcOf(i)
           /\ job' \in [Jobs -> Job]
           /\ \A i \in Jobs \ {Settler} : pc'[i] = pc[i] /\ job'[i] = job[i]
           /\ \/ pc'[Settler] = "idle" /\ job'[Settler] = NoJob
              \/ /\ pc'[Settler] = "sweep"
                 /\ job'[Settler].today = at.today
                 /\ job'[Settler].todo = at.todo \ {at.day}
<1>1. CASE at.todo \ {at.day} = {}
  BY <1>1, Kinds, EndType DEF Onward
<1>2. CASE at.todo \ {at.day} # {}
  <2> DEFINE next == [NoJob EXCEPT !.today = at.today, !.todo = at.todo \ {at.day}]
  <2>1. next \in Job /\ next.today = at.today /\ next.todo = at.todo \ {at.day}
    BY EmptyTypes DEF Job, NoJob
  <2>2. Begin(Settler, "sweep", next)
    BY <1>2 DEF Onward
  <2>3. "sweep" \in PcOf(Settler) /\ Settler \in Jobs
    BY Kinds
  <2> HIDE DEF next
  <2>4. QED
    BY <2>1, <2>2, <2>3, BeginType
<1>3. QED
  BY <1>1, <1>2

\* A verdict is one of three.
LEMMA OutcomeType ==
    ASSUME NEW p, NEW d, NEW e, NEW noMinutes
    PROVE  Outcome(p, d, e, noMinutes) \in Verdicts
BY DEF Outcome, Settle, Verdicts

LEMMA TypeInit == Init => TypeOK
<1> SUFFICES ASSUME Init PROVE TypeOK
  OBVIOUS
<1>1. \A j \in Jobs : "idle" \in PcOf(j)
  BY DEF PcOf
<1>2. 0 \in Nat
  OBVIOUS
<1>3. QED
  BY <1>1, <1>2, EmptyTypes DEF Init, TypeOK

LEMMA TypeStep == TypeOK /\ [Next]_vars => TypeOK'
<1> SUFFICES ASSUME TypeOK, [Next]_vars PROVE TypeOK'
  OBVIOUS
<1> USE DEF clocks, bounds, hist
<1>1. ASSUME NEW s \in Scouts, ScoutStart(s) PROVE TypeOK'
  <2>1. PICK ids \in SUBSET Writes[s] :
          Begin(s, "load", [NoJob EXCEPT !.day = utc, !.ids = ids])
    BY <1>1 DEF ScoutStart
  <2> DEFINE fresh == [NoJob EXCEPT !.day = utc, !.ids = ids]
  <2>2. ids \in SUBSET Play
    BY PlayAssumption
  <2>3. fresh \in Job
    BY <2>2, EmptyTypes DEF TypeOK, Job, NoJob
  <2>4. s \in Jobs /\ "load" \in PcOf(s)
    BY Kinds
  <2>5. starts' \in Nat
    BY <1>1 DEF ScoutStart, TypeOK
  <2>6. Begin(s, "load", fresh)
    BY <2>1
  <2> HIDE DEF fresh
  <2>7. QED
    BY <1>1, <2>3, <2>4, <2>5, <2>6, BeginType DEF ScoutStart, TypeOK
<1>2. ASSUME NEW a \in Alerters, AlertStart(a) PROVE TypeOK'
  <2>1. PICK base : /\ LoadDay(utc, base)
                    /\ \E ids \in SUBSET (base.plays \ base.fired) :
                          Begin(a, "load", [NoJob EXCEPT !.day = utc, !.ids = ids])
    BY <1>2 DEF AlertStart
  <2>2. utc \in Day
    BY DEF TypeOK
  <2>3. base \in Doc /\ faults' \in Nat
    BY <2>1, <2>2, LoadFacts
  <2>4. PICK ids \in SUBSET (base.plays \ base.fired) :
          Begin(a, "load", [NoJob EXCEPT !.day = utc, !.ids = ids])
    BY <2>1
  <2> DEFINE fresh == [NoJob EXCEPT !.day = utc, !.ids = ids]
  <2>5. ids \in SUBSET Play
    BY <2>3 DEF Doc
  <2>6. fresh \in Job
    BY <2>2, <2>5, EmptyTypes DEF Job, NoJob
  <2>7. a \in Jobs /\ "load" \in PcOf(a)
    BY Kinds
  <2>8. starts' \in Nat
    BY <1>2 DEF AlertStart, TypeOK
  <2>9. Begin(a, "load", fresh)
    BY <2>4
  <2> HIDE DEF fresh
  <2>10. QED
    BY <1>2, <2>3, <2>6, <2>7, <2>8, <2>9, BeginType DEF AlertStart, TypeOK
<1>3. ASSUME NEW j \in Writer, Load(j) PROVE TypeOK'
  <2>1. PICK base : /\ LoadDay(job[j].day, base)
                    /\ Begin(j, "write", [job[j] EXCEPT !.base = base])
    BY <1>3 DEF Load
  <2>2. j \in Jobs /\ "write" \in PcOf(j)
    BY Kinds
  <2>3. job[j] \in Job /\ job[j].day \in Day
    BY <2>2 DEF TypeOK, Job
  <2>4. base \in Doc /\ faults' \in Nat
    BY <2>1, <2>3, LoadFacts
  <2>5. [job[j] EXCEPT !.base = base] \in Job
    BY <2>3, <2>4 DEF Job
  <2>6. QED
    BY <1>3, <2>1, <2>2, <2>4, <2>5, BeginType DEF Load, TypeOK
<1>4. ASSUME NEW j \in Writer, AfterWrite(j)
      PROVE  /\ pc' \in [Jobs -> {"idle", "load", "write", "send", "sweep", "merge", "put"}]
             /\ \A i \in Jobs : pc'[i] \in PcOf(i)
             /\ job' \in [Jobs -> Job]
  <2>1. CASE j \in Scouts
    BY <1>4, <2>1, Kinds, EndType DEF AfterWrite
  <2>2. CASE j \in Alerters
    <3>1. j \in Jobs /\ "send" \in PcOf(j) /\ j \notin Scouts
      BY <2>2, Kinds
    <3>2. [job[j] EXCEPT !.base = EmptyDay] \in Job
      BY <3>1, EmptyTypes DEF TypeOK, Job
    <3>3. Begin(j, "send", [job[j] EXCEPT !.base = EmptyDay])
      BY <1>4, <3>1 DEF AfterWrite
    <3>4. QED
      BY <3>1, <3>2, <3>3, BeginType
  <2>3. QED
    BY <2>1, <2>2, Kinds
<1>5. ASSUME NEW j \in Writer, Write(j) PROVE TypeOK'
  <2>1. j \in Jobs
    BY Kinds
  <2>2. job[j].day \in Day /\ job[j].base \in Doc /\ job[j].ids \in SUBSET Play
    BY <2>1 DEF TypeOK, Job
  <2>3. SavePlays(job[j].base, job[j].ids) \in Doc /\ MarkFired(job[j].base, job[j].ids) \in Doc
    BY <2>2, DocTypes
  <2>4. doc' \in [Day -> Doc]
    BY <1>5, <2>2, <2>3 DEF Write, TypeOK
  <2>5. disturbed' \in [Day -> Nat]
    BY <1>5, <2>2 DEF Write, TypeOK
  <2>6. QED
    BY <1>4, <1>5, <2>4, <2>5 DEF Write, TypeOK
<1>6. ASSUME NEW j \in Writer, WriteLocal(j) PROVE TypeOK'
  <2>1. job[j].day \in Day
    BY Kinds DEF TypeOK, Job
  <2>2. disturbed' \in [Day -> Nat] /\ faults' \in Nat
    BY <1>6, <2>1 DEF WriteLocal, Fault, TypeOK
  <2>3. QED
    BY <1>4, <1>6, <2>2 DEF WriteLocal, TypeOK
<1>7. ASSUME NEW a \in Alerters, Send(a) PROVE TypeOK'
  <2>1. a \in Jobs
    BY Kinds
  <2>2. alerted' \in [Day -> [Play -> Nat]]
    BY <1>7, <2>1 DEF Send, TypeOK, Job
  <2>3. QED
    BY <1>7, <2>1, <2>2, EndType DEF Send, TypeOK
<1>8. ASSUME NEW a \in Alerters, SendFails(a) PROVE TypeOK'
  BY <1>8, Kinds, EndType DEF SendFails, TypeOK
<1>9. ASSUME SettleStart(Settler) PROVE TypeOK'
  <2> DEFINE todo == {d \in ReportDays(Lookback) : d < et}
             fresh == [NoJob EXCEPT !.today = et, !.todo = todo]
  <2>1. todo \in SUBSET Day
    BY DEF ReportDays, Listed
  <2>2. Begin(Settler, "sweep", fresh)
    BY <1>9 DEF SettleStart
  <2>3. fresh \in Job
    BY <2>1, EmptyTypes DEF TypeOK, Job, NoJob
  <2>4. Settler \in Jobs /\ "sweep" \in PcOf(Settler)
    BY Kinds
  <2> HIDE DEF fresh
  <2>5. QED
    BY <1>9, <2>2, <2>3, <2>4, BeginType DEF SettleStart, TypeOK
<1>10. ASSUME SweepDay(Settler) PROVE TypeOK'
  <2>1. PICK d \in job[Settler].todo :
          LET here == [job[Settler] EXCEPT !.day = d]
          IN  \/ Onward(Settler, here)
              \/ \E got \in SUBSET Unsettled(doc[d]) : \E noMinutes \in SUBSET got :
                    Begin(Settler, "merge", [here EXCEPT !.outs =
                       [p \in Play |-> IF p \in got
                                      THEN Outcome(p, d, here.today, noMinutes) ELSE "none"]])
    BY <1>10 DEF SweepDay
  <2> DEFINE here == [job[Settler] EXCEPT !.day = d]
  <2>2. job[Settler] \in Job /\ d \in Day /\ Settler \in Jobs
    BY Kinds DEF TypeOK, Job
  <2>3. here \in Job
    BY <2>2 DEF Job
  <2>4. CASE Onward(Settler, here)
    <3> HIDE DEF here
    <3>1. QED
      BY <1>10, <2>3, <2>4, OnwardType DEF SweepDay, TypeOK
  <2>5. ASSUME NEW got \in SUBSET Unsettled(doc[d]), NEW noMinutes \in SUBSET got,
               Begin(Settler, "merge", [here EXCEPT !.outs =
                  [p \in Play |-> IF p \in got
                                  THEN Outcome(p, d, here.today, noMinutes) ELSE "none"]])
        PROVE TypeOK'
    <3> DEFINE outs == [p \in Play |-> IF p \in got
                                  THEN Outcome(p, d, here.today, noMinutes) ELSE "none"]
               next == [here EXCEPT !.outs = outs]
    <3>1. outs \in [Play -> Verdicts \cup {"none"}]
      BY OutcomeType
    <3> HIDE DEF outs
    <3>2. next \in Job
      BY <2>3, <3>1 DEF Job
    <3>3. Begin(Settler, "merge", next)
      BY <2>5 DEF outs
    <3>4. "merge" \in PcOf(Settler)
      BY Kinds
    <3> HIDE DEF next
    <3>5. QED
      BY <1>10, <2>2, <3>2, <3>3, <3>4, BeginType DEF SweepDay, TypeOK
  <2>6. QED
    BY <2>1, <2>4, <2>5
<1>11. ASSUME Merge(Settler) PROVE TypeOK'
  <2> DEFINE raw == doc[job[Settler].day]
             new == [p \in Play |-> IF p \in raw.plays /\ job[Settler].outs[p] # "none"
                                    THEN job[Settler].outs[p] ELSE raw.verdict[p]]
             next == [job[Settler] EXCEPT !.base = [raw EXCEPT !.verdict = new]]
  <2>1. job[Settler] \in Job /\ Settler \in Jobs /\ "put" \in PcOf(Settler)
    BY Kinds DEF TypeOK
  <2>2. raw \in Doc
    BY <2>1 DEF TypeOK, Job
  <2>3. new \in [Play -> Verdicts \cup {"none"}]
    BY <2>1, <2>2 DEF Job, Doc
  <2>4. Begin(Settler, "put", next)
    BY <1>11 DEF Merge
  <2> HIDE DEF new, raw
  <2>5. [raw EXCEPT !.verdict = new] \in Doc
    BY <2>2, <2>3 DEF Doc
  <2>6. next \in Job
    BY <2>1, <2>5 DEF Job
  <2> HIDE DEF next
  <2>7. QED
    BY <1>11, <2>1, <2>4, <2>6, BeginType DEF Merge, TypeOK
<1>12. ASSUME Put(Settler) PROVE TypeOK'
  <2>1. job[Settler] \in Job /\ job[Settler].base \in Doc
    BY Kinds DEF TypeOK, Job
  <2>2. doc' \in [Day -> Doc]
    BY <1>12, <2>1 DEF Put, TypeOK
  <2>3. QED
    BY <1>12, <2>1, <2>2, OnwardType DEF Put, TypeOK
<1>13. ASSUME SaveFails(Settler) PROVE TypeOK'
  <2>1. job[Settler] \in Job
    BY Kinds DEF TypeOK
  <2>2. faults' \in Nat
    BY <1>13 DEF SaveFails, Fault, TypeOK
  <2>3. QED
    BY <1>13, <2>1, <2>2, OnwardType DEF SaveFails, TypeOK
<1>14. ASSUME NEW j \in Jobs, Crash(j) PROVE TypeOK'
  <2>1. faults' \in Nat
    BY <1>14 DEF Crash, Fault, TypeOK
  <2>2. QED
    BY <1>14, <2>1, EndType DEF Crash, TypeOK
<1>15. CASE UtcMidnight
  BY <1>15, DayBoundAssumption DEF UtcMidnight, TypeOK, Day
<1>16. CASE EtMidnight
  BY <1>16 DEF EtMidnight, TypeOK
<1>17. CASE UNCHANGED vars
  BY <1>17 DEF vars, TypeOK
<1>18. QED
  BY <1>1, <1>2, <1>3, <1>5, <1>6, <1>7, <1>8, <1>9, <1>10, <1>11, <1>12, <1>13,
     <1>14, <1>15, <1>16, <1>17 DEF Next

\* Types hold always.
THEOREM TypeCorrect == Spec => []TypeOK
BY TypeInit, TypeStep, PTL DEF Spec

-----------------------------------------------------------------------------
(***************************************************************************)
(* What a step of a writer, and what a step of the sweep, changes.         *)
(***************************************************************************)

WriterAct(j) ==
    \/ j \in Scouts /\ ScoutStart(j)
    \/ j \in Alerters /\ (AlertStart(j) \/ Send(j) \/ SendFails(j))
    \/ Load(j) \/ Write(j) \/ WriteLocal(j) \/ Crash(j)

SweepAct ==
    \/ SettleStart(Settler) \/ SweepDay(Settler) \/ Merge(Settler)
    \/ Put(Settler) \/ SaveFails(Settler) \/ Crash(Settler)

LEMMA Steps ==
    [Next]_vars => \/ \E j \in Writer : WriterAct(j)
                   \/ SweepAct \/ UtcMidnight \/ EtMidnight \/ UNCHANGED vars
<1> SUFFICES ASSUME [Next]_vars
             PROVE  \/ \E j \in Writer : WriterAct(j)
                    \/ SweepAct \/ UtcMidnight \/ EtMidnight \/ UNCHANGED vars
  OBVIOUS
<1>1. ASSUME NEW j \in Jobs, Crash(j) PROVE SweepAct \/ \E i \in Writer : WriterAct(i)
  BY <1>1, Kinds DEF WriterAct, SweepAct
<1>2. QED
  BY <1>1, Kinds DEF Next, WriterAct, SweepAct

\* A writer moves only itself.  It takes the UTC date when it starts and keeps
\* that day, and it uploads only to it, never an outcome.
LEMMA WriterEffect ==
    ASSUME TypeOK, NEW j \in Writer, WriterAct(j)
    PROVE  /\ UNCHANGED clocks
           /\ \A i \in Jobs \ {j} : pc'[i] = pc[i] /\ job'[i] = job[i]
           /\ \/ pc'[j] = "idle"
              \/ pc[j] = "idle" /\ job'[j].day = utc
              \/ pc[j] # "idle" /\ job'[j].day = job[j].day
           /\ job[j].base.verdict = NoVerdict => job'[j].base.verdict = NoVerdict
           /\ \A d \in Day : \/ doc'[d] = doc[d]
                             \/ /\ pc[j] \in {"load", "write"} /\ d = job[j].day
                                /\ doc'[d].verdict = job[j].base.verdict
<1> USE DEF clocks, bounds, hist
<1>0. j \in Jobs /\ job[j] \in Job /\ job[j].day \in Day /\ NoJob.base.verdict = NoVerdict
  BY Kinds DEF TypeOK, Job, NoJob, EmptyDay
<1>1. CASE j \in Scouts /\ ScoutStart(j)
  <2>1. PICK ids : Begin(j, "load", [NoJob EXCEPT !.day = utc, !.ids = ids])
    BY <1>1 DEF ScoutStart
  <2>2. /\ [NoJob EXCEPT !.day = utc, !.ids = ids].day = utc
        /\ [NoJob EXCEPT !.day = utc, !.ids = ids].base = NoJob.base
    BY DEF NoJob
  <2>3. job'[j] = [NoJob EXCEPT !.day = utc, !.ids = ids]
    BY <1>0, <2>1 DEF TypeOK, Begin
  <2>4. \A i \in Jobs \ {j} : pc'[i] = pc[i] /\ job'[i] = job[i]
    BY <2>1 DEF TypeOK, Begin
  <2>5. QED
    BY <1>0, <1>1, <2>2, <2>3, <2>4 DEF ScoutStart
<1>2. CASE j \in Alerters /\ AlertStart(j)
  <2>1. PICK ids : Begin(j, "load", [NoJob EXCEPT !.day = utc, !.ids = ids])
    BY <1>2 DEF AlertStart
  <2>2. /\ [NoJob EXCEPT !.day = utc, !.ids = ids].day = utc
        /\ [NoJob EXCEPT !.day = utc, !.ids = ids].base = NoJob.base
    BY DEF NoJob
  <2>3. job'[j] = [NoJob EXCEPT !.day = utc, !.ids = ids]
    BY <1>0, <2>1 DEF TypeOK, Begin
  <2>4. \A i \in Jobs \ {j} : pc'[i] = pc[i] /\ job'[i] = job[i]
    BY <2>1 DEF TypeOK, Begin
  <2>5. QED
    BY <1>0, <1>2, <2>2, <2>3, <2>4 DEF AlertStart
<1>3. ASSUME End(j)
      PROVE  /\ \A i \in Jobs \ {j} : pc'[i] = pc[i] /\ job'[i] = job[i]
             /\ pc'[j] = "idle" /\ job'[j].base.verdict = NoVerdict
  BY <1>0, <1>3, EndType
<1>4. CASE j \in Alerters /\ (Send(j) \/ SendFails(j))
  BY <1>3, <1>4 DEF Send, SendFails
<1>5. CASE Crash(j)
  BY <1>3, <1>5 DEF Crash
<1>6. CASE Load(j)
  <2>1. PICK base : LoadDay(job[j].day, base) /\ Begin(j, "write", [job[j] EXCEPT !.base = base])
    BY <1>6 DEF Load
  <2>2. base.verdict = NoVerdict
    BY <1>0, <2>1, LoadFacts
  <2>3. job'[j] = [job[j] EXCEPT !.base = base] /\ job'[j].day = job[j].day /\ job'[j].base = base
    BY <1>0, <2>1 DEF TypeOK, Begin, Job
  <2>4. \A i \in Jobs \ {j} : pc'[i] = pc[i] /\ job'[i] = job[i]
    BY <2>1 DEF TypeOK, Begin
  <2>5. QED
    BY <1>6, <2>2, <2>3, <2>4 DEF Load
<1>7. ASSUME AfterWrite(j)
      PROVE  /\ \A i \in Jobs \ {j} : pc'[i] = pc[i] /\ job'[i] = job[i]
             /\ pc'[j] = "idle" \/ job'[j].day = job[j].day
             /\ job'[j].base.verdict = NoVerdict
  <2>1. CASE j \in Scouts
    BY <1>3, <1>7, <2>1 DEF AfterWrite
  <2>2. CASE j \notin Scouts
    <3>1. Begin(j, "send", [job[j] EXCEPT !.base = EmptyDay])
      BY <1>7, <2>2 DEF AfterWrite
    <3>2. job'[j] = [job[j] EXCEPT !.base = EmptyDay]
          /\ job'[j].day = job[j].day /\ job'[j].base = EmptyDay
      BY <1>0, <3>1 DEF TypeOK, Begin, Job
    <3>3. \A i \in Jobs \ {j} : pc'[i] = pc[i] /\ job'[i] = job[i]
      BY <3>1 DEF TypeOK, Begin
    <3>4. QED
      BY <3>2, <3>3 DEF EmptyDay
  <2>3. QED
    BY <2>1, <2>2
<1>8. CASE Write(j)
  <2>1. /\ SavePlays(job[j].base, job[j].ids).verdict = job[j].base.verdict
        /\ MarkFired(job[j].base, job[j].ids).verdict = job[j].base.verdict
    BY <1>0, DocTypes DEF Job
  <2>2. \A d \in Day : \/ doc'[d] = doc[d]
                       \/ d = job[j].day /\ doc'[d].verdict = job[j].base.verdict
    <3>1. PICK new : /\ doc' = [doc EXCEPT ![job[j].day] = new]
                     /\ new.verdict = job[j].base.verdict
      BY <1>8, <2>1 DEF Write
    <3>2. DOMAIN doc = Day
      BY DEF TypeOK
    <3>3. QED
      BY <1>0, <3>1, <3>2
  <2>3. pc[j] = "write"
    BY <1>8 DEF Write
  <2>4. AfterWrite(j) /\ UNCHANGED clocks
    BY <1>8 DEF Write
  <2>5. QED
    BY <1>7, <2>2, <2>3, <2>4
<1>9. CASE WriteLocal(j)
  BY <1>7, <1>9 DEF WriteLocal
<1>10. QED
  BY <1>1, <1>2, <1>4, <1>5, <1>6, <1>8, <1>9 DEF WriterAct

\* Onward, and End, take the sweep to a later day of its list or to its end.
LEMMA SweepMoves ==
    ASSUME TypeOK, NEW at \in Job, Onward(Settler, at) \/ End(Settler)
    PROVE  /\ \A i \in Writer : pc'[i] = pc[i] /\ job'[i] = job[i]
           /\ \/ pc'[Settler] = "idle" /\ job'[Settler].todo = {}
              \/ /\ pc'[Settler] = "sweep"
                 /\ job'[Settler].today = at.today
                 /\ job'[Settler].todo \subseteq at.todo
<1>1. CASE End(Settler)
  BY <1>1, Kinds, EndType DEF NoJob
<1>2. CASE Onward(Settler, at)
  BY <1>2, Kinds, OnwardType DEF NoJob
<1>3. QED
  BY <1>1, <1>2

\* The steps of the sweep that only move on; Put writes its document besides.
LEMMA SweepQuits ==
    ASSUME TypeOK, Put(Settler) \/ SaveFails(Settler) \/ Crash(Settler)
    PROVE  /\ UNCHANGED clocks
           /\ \A i \in Writer : pc'[i] = pc[i] /\ job'[i] = job[i]
           /\ \/ pc'[Settler] = "idle" /\ job'[Settler].todo = {}
              \/ /\ pc'[Settler] = "sweep"
                 /\ job'[Settler].today = job[Settler].today
                 /\ job'[Settler].todo \subseteq job[Settler].todo
           /\ pc[Settler] # "idle"
           /\ \/ doc' = doc
              \/ /\ pc[Settler] = "put"
                 /\ doc' = [doc EXCEPT ![job[Settler].day] = job[Settler].base]
<1>1. job[Settler] \in Job
  BY Kinds DEF TypeOK
<1>2. Onward(Settler, job[Settler]) \/ End(Settler)
  BY DEF Put, SaveFails, Crash
<1>3. /\ \A i \in Writer : pc'[i] = pc[i] /\ job'[i] = job[i]
      /\ \/ pc'[Settler] = "idle" /\ job'[Settler].todo = {}
         \/ /\ pc'[Settler] = "sweep"
            /\ job'[Settler].today = job[Settler].today
            /\ job'[Settler].todo \subseteq job[Settler].todo
  BY <1>1, <1>2, SweepMoves
<1>4. QED
  BY <1>3 DEF Put, SaveFails, Crash

\* A sweep starts on the New York date, over days before it.
LEMMA SweepStarts ==
    ASSUME TypeOK, SettleStart(Settler)
    PROVE  /\ UNCHANGED <<clocks, doc>>
           /\ \A i \in Writer : pc'[i] = pc[i] /\ job'[i] = job[i]
           /\ pc'[Settler] = "sweep" /\ job'[Settler].today = et
           /\ \A d \in job'[Settler].todo : d < et
<1> DEFINE todo == {d \in ReportDays(Lookback) : d < et}
           fresh == [NoJob EXCEPT !.today = et, !.todo = todo]
<1>1. Begin(Settler, "sweep", fresh)
  BY DEF SettleStart
<1>2. fresh.today = et /\ fresh.todo = todo
  BY DEF NoJob
<1> HIDE DEF fresh
<1>3. /\ pc'[Settler] = "sweep" /\ job'[Settler] = fresh
      /\ \A i \in Writer : pc'[i] = pc[i] /\ job'[i] = job[i]
  BY <1>1, Kinds DEF Begin, TypeOK
<1>4. QED
  BY <1>2, <1>3 DEF SettleStart

\* The sweep passes over a day of its list, or grades plays of it that are not
\* final and that have a completed session.
LEMMA SweepGrades ==
    ASSUME TypeOK, SweepDay(Settler)
    PROVE  /\ UNCHANGED <<clocks, doc>>
           /\ \A i \in Writer : pc'[i] = pc[i] /\ job'[i] = job[i]
           /\ pc[Settler] = "sweep"
           /\ \/ pc'[Settler] = "idle" /\ job'[Settler].todo = {}
              \/ /\ pc'[Settler] = "sweep"
                 /\ job'[Settler].today = job[Settler].today
                 /\ job'[Settler].todo \subseteq job[Settler].todo
              \/ /\ pc'[Settler] = "merge"
                 /\ job'[Settler].today = job[Settler].today
                 /\ job'[Settler].todo = job[Settler].todo
                 /\ job'[Settler].day \in job[Settler].todo
                 /\ \A p \in Play : job'[Settler].outs[p] # "none" =>
                       /\ p \in Unsettled(doc[job'[Settler].day])
                       /\ \E noMinutes :
                             job'[Settler].outs[p] =
                                Outcome(p, job'[Settler].day, job[Settler].today, noMinutes)
<1>1. PICK d \in job[Settler].todo :
        LET here == [job[Settler] EXCEPT !.day = d]
        IN  \/ Onward(Settler, here)
            \/ \E got \in SUBSET Unsettled(doc[d]) : \E noMinutes \in SUBSET got :
                  Begin(Settler, "merge", [here EXCEPT !.outs =
                     [p \in Play |-> IF p \in got
                                    THEN Outcome(p, d, here.today, noMinutes) ELSE "none"]])
  BY DEF SweepDay
<1> DEFINE here == [job[Settler] EXCEPT !.day = d]
<1>2. job[Settler] \in Job /\ d \in Day
  BY Kinds DEF TypeOK, Job
<1>3. here \in Job /\ here.day = d /\ here.today = job[Settler].today /\ here.todo = job[Settler].todo
  BY <1>2 DEF Job
<1>4. UNCHANGED <<clocks, doc>> /\ pc[Settler] = "sweep"
  BY DEF SweepDay
<1>5. CASE Onward(Settler, here)
  <2> HIDE DEF here
  <2>1. QED
    BY <1>3, <1>4, <1>5, SweepMoves
<1>6. ASSUME NEW got \in SUBSET Unsettled(doc[d]), NEW noMinutes \in SUBSET got,
             Begin(Settler, "merge", [here EXCEPT !.outs =
                [p \in Play |-> IF p \in got
                                THEN Outcome(p, d, here.today, noMinutes) ELSE "none"]])
      PROVE  /\ \A i \in Writer : pc'[i] = pc[i] /\ job'[i] = job[i]
             /\ pc'[Settler] = "merge"
             /\ job'[Settler].today = job[Settler].today
             /\ job'[Settler].todo = job[Settler].todo
             /\ job'[Settler].day = d
             /\ \A p \in Play : job'[Settler].outs[p] # "none" =>
                   /\ p \in Unsettled(doc[d])
                   /\ job'[Settler].outs[p] = Outcome(p, d, job[Settler].today, noMinutes)
  <2> HIDE DEF here
  <2> DEFINE outs == [p \in Play |-> IF p \in got
                                THEN Outcome(p, d, here.today, noMinutes) ELSE "none"]
             next == [here EXCEPT !.outs = outs]
  <2>1. \A p \in Play : outs[p] # "none" =>
           p \in got /\ outs[p] = Outcome(p, d, here.today, noMinutes)
    OBVIOUS
  <2>2. Begin(Settler, "merge", next)
    BY <1>6
  <2> HIDE DEF outs
  <2>3. next.outs = outs /\ next.today = here.today /\ next.todo = here.todo /\ next.day = d
    BY <1>3 DEF Job
  <2> HIDE DEF next
  <2>4. /\ pc'[Settler] = "merge" /\ job'[Settler] = next
        /\ \A i \in Writer : pc'[i] = pc[i] /\ job'[i] = job[i]
    BY <2>2, Kinds DEF Begin, TypeOK
  <2>5. QED
    BY <1>3, <2>1, <2>3, <2>4
<1>7. QED
  BY ZenonT(60), <1>1, <1>4, <1>5, <1>6

\* The merge puts a new verdict where it has one and keeps the document else.
LEMMA SweepMerges ==
    ASSUME TypeOK, Merge(Settler)
    PROVE  LET raw  == doc[job[Settler].day]
               base == job'[Settler].base
           IN  /\ UNCHANGED <<clocks, doc>>
               /\ \A i \in Writer : pc'[i] = pc[i] /\ job'[i] = job[i]
               /\ pc[Settler] = "merge" /\ pc'[Settler] = "put"
               /\ job'[Settler].day = job[Settler].day
               /\ job'[Settler].today = job[Settler].today
               /\ job'[Settler].todo = job[Settler].todo
               /\ base.fired = raw.fired
               /\ \A p \in Play : \/ base.verdict[p] = raw.verdict[p]
                                  \/ /\ base.verdict[p] = job[Settler].outs[p]
                                     /\ job[Settler].outs[p] # "none"
<1> DEFINE raw == doc[job[Settler].day]
           new == [p \in Play |-> IF p \in raw.plays /\ job[Settler].outs[p] # "none"
                                  THEN job[Settler].outs[p] ELSE raw.verdict[p]]
           base == [raw EXCEPT !.verdict = new]
           next == [job[Settler] EXCEPT !.base = base]
<1>1. job[Settler] \in Job
  BY Kinds DEF TypeOK
<1>2. raw \in Doc
  BY <1>1 DEF TypeOK, Job
<1>3. \A p \in Play : \/ new[p] = raw.verdict[p]
                      \/ new[p] = job[Settler].outs[p] /\ job[Settler].outs[p] # "none"
  OBVIOUS
<1>4. Begin(Settler, "put", next)
  BY DEF Merge
<1>5. UNCHANGED <<clocks, doc>> /\ pc[Settler] = "merge"
  BY DEF Merge
<1> HIDE DEF new, raw
<1>6. base.verdict = new /\ base.fired = raw.fired
  BY <1>2 DEF Doc
<1> HIDE DEF base
<1>7. /\ next.base = base /\ next.day = job[Settler].day
      /\ next.today = job[Settler].today /\ next.todo = job[Settler].todo
  BY <1>1 DEF Job
<1> HIDE DEF next
<1>8. /\ pc'[Settler] = "put" /\ job'[Settler] = next
      /\ \A i \in Writer : pc'[i] = pc[i] /\ job'[i] = job[i]
  BY <1>4, Kinds DEF Begin, TypeOK
<1>9. QED
  BY <1>3, <1>5, <1>6, <1>7, <1>8 DEF raw

-----------------------------------------------------------------------------
(***************************************************************************)
(* The sweep and the writers never work on the same day.                   *)
(***************************************************************************)

IInv == TypeOK /\ Calendar /\ NoneYet /\ Respects

LEMMA SweepJobType ==
    ASSUME TypeOK
    PROVE  /\ job[Settler] \in Job /\ job[Settler].day \in Day /\ job[Settler].today \in Day
           /\ job[Settler].todo \in SUBSET Day /\ job[Settler].base \in Doc
           /\ et \in Nat /\ utc \in Nat /\ Day \subseteq Nat
           /\ \A j \in Writer : job[j].day \in Nat
BY Kinds, DayBoundAssumption DEF TypeOK, Job, Day

LEMMA CalendarStep == TypeOK /\ Calendar /\ [Next]_vars => Calendar'
<1> SUFFICES ASSUME TypeOK, Calendar, [Next]_vars PROVE Calendar'
  OBVIOUS
<1>0. Settler \in Jobs /\ \A j \in Writer : j \in Jobs /\ j # Settler
  BY Kinds
<1>1. ASSUME NEW j \in Writer, WriterAct(j) PROVE Calendar'
  <2>1. /\ UNCHANGED <<utc, et>>
        /\ \A i \in Jobs \ {j} : pc'[i] = pc[i] /\ job'[i] = job[i]
        /\ \/ pc'[j] = "idle"
           \/ pc[j] = "idle" /\ job'[j].day = utc
           \/ pc[j] # "idle" /\ job'[j].day = job[j].day
    BY <1>1, WriterEffect DEF clocks
  <2>2. pc'[j] # "idle" => job'[j].day >= et
    BY <2>1, SweepJobType DEF Calendar
  <2>3. QED
    BY <1>0, <2>1, <2>2 DEF Calendar
<1>2. CASE SettleStart(Settler)
  BY <1>2, SweepStarts, SweepJobType DEF Calendar, clocks
<1>3. CASE SweepDay(Settler)
  <2>1. /\ UNCHANGED <<utc, et>>
        /\ \A i \in Writer : pc'[i] = pc[i] /\ job'[i] = job[i]
        /\ pc[Settler] # "idle"
        /\ \/ pc'[Settler] = "idle" /\ job'[Settler].todo = {}
           \/ /\ pc'[Settler] = "sweep"
              /\ job'[Settler].today = job[Settler].today
              /\ job'[Settler].todo \subseteq job[Settler].todo
           \/ /\ pc'[Settler] = "merge"
              /\ job'[Settler].today = job[Settler].today
              /\ job'[Settler].todo = job[Settler].todo
              /\ job'[Settler].day \in job[Settler].todo
    BY <1>3, SweepGrades DEF clocks
  <2>2. QED
    BY <2>1 DEF Calendar
<1>4. CASE Merge(Settler)
  BY <1>4, SweepMerges DEF Calendar, clocks
<1>5. CASE Put(Settler) \/ SaveFails(Settler) \/ Crash(Settler)
  BY <1>5, SweepQuits DEF Calendar, clocks
<1>6. CASE UtcMidnight
  BY <1>6, SweepJobType DEF UtcMidnight, Calendar
<1>7. CASE EtMidnight
  <2>1. et <= et' /\ et' = utc /\ UNCHANGED <<utc, pc, job>>
    BY <1>7, SweepJobType DEF EtMidnight
  <2>2. \A j \in Writer : pc[j] # "idle" => job[j].day = utc
    BY <1>7 DEF EtMidnight
  <2>3. QED
    BY <2>1, <2>2, SweepJobType DEF Calendar
<1>8. CASE UNCHANGED vars
  BY <1>8 DEF vars, clocks, Calendar
<1>9. QED
  BY <1>1, <1>2, <1>3, <1>4, <1>5, <1>6, <1>7, <1>8, Steps DEF SweepAct

\* Between the read of a day's document and its upload no writer holds the day.
LEMMA DaysApart ==
    ASSUME TypeOK, Calendar
    PROVE  /\ SettlesPastDays
           /\ pc[Settler] \in {"merge", "put"} => job[Settler].day < et
           /\ \A j \in Writer : pc[j] # "idle" => job[j].day >= et
BY SweepJobType DEF Calendar, SettlesPastDays

LEMMA NoneYetStep == TypeOK /\ Calendar /\ NoneYet /\ [Next]_vars => NoneYet'
<1> SUFFICES ASSUME TypeOK, Calendar, NoneYet, [Next]_vars PROVE NoneYet'
  OBVIOUS
<1>0. \A j \in Writer : j \in Jobs /\ j # Settler
  BY Kinds
<1>1. ASSUME NEW j \in Writer, WriterAct(j) PROVE NoneYet'
  <2>1. /\ et' = et
        /\ \A i \in Jobs \ {j} : job'[i] = job[i]
        /\ job[j].base.verdict = NoVerdict => job'[j].base.verdict = NoVerdict
        /\ \A d \in Day : doc'[d] = doc[d] \/ doc'[d].verdict = job[j].base.verdict
    BY <1>1, WriterEffect DEF clocks
  <2>2. QED
    BY <1>0, <2>1 DEF NoneYet
<1>2. ASSUME et' = et, \A i \in Writer : job'[i] = job[i], doc' = doc PROVE NoneYet'
  BY <1>2 DEF NoneYet
<1>3. CASE SettleStart(Settler) \/ SweepDay(Settler) \/ Merge(Settler)
  BY <1>2, <1>3, SweepStarts, SweepGrades, SweepMerges DEF clocks
<1>4. CASE Put(Settler) \/ SaveFails(Settler) \/ Crash(Settler)
  <2>1. /\ et' = et /\ \A i \in Writer : job'[i] = job[i]
        /\ \/ doc' = doc
           \/ /\ pc[Settler] = "put"
              /\ doc' = [doc EXCEPT ![job[Settler].day] = job[Settler].base]
    BY <1>4, SweepQuits DEF clocks
  <2>2. CASE pc[Settler] = "put" /\ doc' = [doc EXCEPT ![job[Settler].day] = job[Settler].base]
    <3>1. job[Settler].day < et
      BY <2>2, DaysApart
    <3>2. \A d \in Day : d >= et => doc'[d] = doc[d]
      BY <2>2, <3>1, SweepJobType DEF TypeOK
    <3>3. QED
      BY <2>1, <3>2 DEF NoneYet
  <2>3. QED
    BY <1>2, <2>1, <2>2
<1>5. CASE UtcMidnight
  BY <1>2, <1>5 DEF UtcMidnight
<1>6. CASE EtMidnight
  BY <1>6, SweepJobType DEF EtMidnight, NoneYet
<1>7. CASE UNCHANGED vars
  BY <1>2, <1>7 DEF vars, clocks
<1>8. QED
  BY <1>1, <1>3, <1>4, <1>5, <1>6, <1>7, Steps DEF SweepAct

LEMMA RespectsStep == IInv /\ [Next]_vars => Respects'
<1> SUFFICES ASSUME IInv, [Next]_vars PROVE Respects'
  OBVIOUS
<1> USE DEF IInv
<1>0. Settler \in Jobs /\ \A j \in Writer : j \in Jobs /\ j # Settler
  BY Kinds
<1>1. ASSUME NEW j \in Writer, WriterAct(j) PROVE Respects'
  <2>1. /\ pc'[Settler] = pc[Settler] /\ job'[Settler] = job[Settler]
        /\ \A d \in Day : \/ doc'[d] = doc[d]
                          \/ pc[j] \in {"load", "write"} /\ d = job[j].day
    BY <1>0, <1>1, WriterEffect
  <2>2. CASE pc[Settler] \in {"merge", "put"}
    <3>1. doc'[job[Settler].day] = doc[job[Settler].day]
      BY <2>1, <2>2, DaysApart, SweepJobType DEF SettlesPastDays
    <3>2. QED
      BY <2>1, <3>1 DEF Respects
  <2>3. CASE pc[Settler] \notin {"merge", "put"}
    BY <2>1, <2>3 DEF Respects
  <2>4. QED
    BY <2>2, <2>3
<1>2. CASE SettleStart(Settler)
  BY <1>2, SweepStarts DEF Respects
<1>3. CASE SweepDay(Settler)
  BY <1>3, SweepGrades DEF Respects, Unsettled
<1>4. CASE Merge(Settler)
  BY <1>4, SweepMerges DEF Respects
<1>5. CASE Put(Settler) \/ SaveFails(Settler) \/ Crash(Settler)
  BY <1>5, SweepQuits DEF Respects
<1>6. CASE UtcMidnight \/ EtMidnight \/ UNCHANGED vars
  BY <1>6 DEF UtcMidnight, EtMidnight, vars, Respects
<1>7. QED
  BY <1>1, <1>2, <1>3, <1>4, <1>5, <1>6, Steps DEF SweepAct

LEMMA Inductive == Spec => []IInv
<1>1. Init => IInv
  <2> SUFFICES ASSUME Init PROVE IInv
    OBVIOUS
  <2>1. TypeOK
    BY TypeInit
  <2>2. Calendar /\ NoneYet /\ Respects
    BY Kinds DEF Init, Calendar, NoneYet, Respects, NoJob, EmptyDay
  <2>3. QED
    BY <2>1, <2>2 DEF IInv
<1>2. IInv /\ [Next]_vars => IInv'
  BY TypeStep, CalendarStep, NoneYetStep, RespectsStep DEF IInv
<1>3. QED
  BY <1>1, <1>2, PTL DEF Spec

\* While the sweep merges a day no writer is between its load and its upload of
\* that day (store.py:340).
THEOREM PastDaysOnly == Spec => []SettlesPastDays
<1>1. IInv => SettlesPastDays
  BY DaysApart DEF IInv
<1>2. QED
  BY <1>1, Inductive, PTL

\* A play that has won or lost stays so (engine.py:9).
THEOREM FinalIsFinal == Spec => OutcomesSurvive
<1> DEFINE A == \A d \in Day, p \in Play :
                   doc[d].verdict[p] \in Frozen => doc'[d].verdict[p] = doc[d].verdict[p]
<1>1. IInv /\ [Next]_vars => A
  <2> SUFFICES ASSUME IInv, [Next]_vars, NEW d \in Day, NEW p \in Play,
                      doc[d].verdict[p] \in Frozen
               PROVE  doc'[d].verdict[p] = doc[d].verdict[p]
    OBVIOUS
  <2> USE DEF IInv
  <2>1. ~ (d >= et)
    BY DEF NoneYet, NoVerdict, Frozen
  <2>2. ASSUME NEW j \in Writer, WriterAct(j) PROVE doc'[d] = doc[d]
    <3>1. doc'[d] = doc[d] \/ (pc[j] # "idle" /\ d = job[j].day)
      BY <2>2, WriterEffect
    <3>2. QED
      BY <2>1, <3>1, DaysApart
  <2>3. CASE Put(Settler) \/ SaveFails(Settler) \/ Crash(Settler)
    <3>1. \/ doc' = doc
          \/ /\ pc[Settler] = "put"
             /\ doc' = [doc EXCEPT ![job[Settler].day] = job[Settler].base]
      BY <2>3, SweepQuits
    <3>2. QED
      BY <3>1 DEF Respects, TypeOK
  <2>4. CASE \/ SettleStart(Settler) \/ SweepDay(Settler) \/ Merge(Settler)
             \/ UtcMidnight \/ EtMidnight \/ UNCHANGED vars
    <3>1. doc' = doc
      BY <2>4, SweepStarts, SweepGrades, SweepMerges DEF UtcMidnight, EtMidnight, vars
    <3>2. QED
      BY <3>1
  <2>5. QED
    BY <2>2, <2>3, <2>4, Steps DEF SweepAct
<1>2. QED
  BY <1>1, Inductive, PTL DEF Spec, OutcomesSurvive

-----------------------------------------------------------------------------
(***************************************************************************)
(* Recorded wins.                                                          *)
(***************************************************************************)

\* The sessions a play is graded on, by their day.
LEMMA SessionFacts ==
    ASSUME NEW S, NEW rows \in Seq(S), Len(rows) >= MaxDay, NEW d \in Day, NEW e \in Day
    PROVE  LET w == Sessions(rows, d, e)
           IN  /\ Len(w) = IF d + 1 <= e - 1 THEN e - 1 - d ELSE 0
               /\ \A k \in 1..Len(w) : w[k] = rows[d + k]
<1>1. d \in Nat /\ e \in Nat /\ e <= MaxDay /\ d >= 1 /\ MaxDay \in Nat
  BY DayBoundAssumption DEF Day
<1>2. \A i \in (d+1)..(e-1) : i \in 1..Len(rows)
  BY <1>1
<1>3. \A i \in (d+1)..(e-1) : rows[i] \in S
  BY <1>2
<1> DEFINE a == d + 1
           b == e - 1
<1>4. a \in Int /\ b \in Int /\ \A i \in a..b : rows[i] \in S
  BY <1>1, <1>3
<1> HIDE DEF a, b
<1>5. /\ Len(SubSeq(rows, a, b)) = IF a <= b THEN b - a + 1 ELSE 0
      /\ \A i \in 1..(b - a + 1) : SubSeq(rows, a, b)[i] = rows[a + i - 1]
  BY <1>4, SubSeqProperties
<1>6. Sessions(rows, d, e) = SubSeq(rows, a, b)
  BY DEF Sessions, a, b
<1>7. b - a + 1 = e - 1 - d
  BY <1>1 DEF a, b
<1>8. Len(SubSeq(rows, a, b)) = IF d + 1 <= e - 1 THEN e - 1 - d ELSE 0
  BY <1>5, <1>7 DEF a, b
<1>9. ASSUME NEW k \in 1..Len(SubSeq(rows, a, b))
      PROVE  SubSeq(rows, a, b)[k] = rows[d + k]
  <2>1. k \in Nat /\ k >= 1 /\ k <= e - 1 - d
    BY <1>1, <1>8
  <2>2. k \in 1..(b - a + 1) /\ a + k - 1 = d + k
    BY <1>1, <2>1 DEF a, b
  <2>3. QED
    BY <1>5, <2>2
<1>10. QED
  BY <1>6, <1>8, <1>9

\* Every win the sweep grades is supported by the prices up to its date.
LEMMA GradedWin ==
    ASSUME TypeOK, NEW p \in Play, NEW d \in Day, NEW e \in Day, NEW noMinutes,
           Outcome(p, d, e, noMinutes) = "WIN"
    PROVE  Supported(p, d, e)
<1> DEFINE play == LevelsOf[p]
           rows == market.bars[p]
           mrows == market.minutes[p]
           bars == Sessions(rows, d, e)
           mins == IF p \in noMinutes THEN [k \in DOMAIN bars |-> <<>>]
                   ELSE Sessions(mrows, d, e)
<1>1. /\ rows \in Seq(Bar) /\ Len(rows) >= MaxDay
      /\ mrows \in Seq(Seq(Bar)) /\ Len(mrows) >= MaxDay
  BY MarketAssumption DEF TypeOK
<1>2. /\ Len(bars) = IF d + 1 <= e - 1 THEN e - 1 - d ELSE 0
      /\ \A k \in 1..Len(bars) : bars[k] = rows[d + k]
  BY <1>1, SessionFacts
<1>3. /\ Len(Sessions(mrows, d, e)) = Len(bars)
      /\ \A k \in 1..Len(bars) : Sessions(mrows, d, e)[k] = mrows[d + k]
  BY <1>1, <1>2, SessionFacts
<1>4. d \in Nat /\ e \in Nat /\ d >= 1 /\ e <= MaxDay /\ MaxDay \in Nat /\ Horizon \in Nat
  BY DayBoundAssumption DEF Day
<1>5. Len(bars) \in Nat /\ \A k \in 1..Len(bars) : d + k \in (d+1)..(e-1) /\ d + k \in 1..Len(mrows)
  BY <1>1, <1>2, <1>4
<1>6. \A k \in 1..Len(bars) : mrows[d + k] \in Seq(Bar)
  BY <1>1, <1>5
<1>7. DOMAIN bars = 1..Len(bars)
  <2>1. bars = SubSeq(rows, d + 1, e - 1)
    BY DEF Sessions
  <2>2. \A i \in (d+1)..(e-1) : rows[i] \in Bar
    BY <1>1, <1>4
  <2>3. bars \in Seq(Bar)
    BY <1>4, <2>1, <2>2, SubSeqProperties
  <2>4. QED
    BY <2>3
<1>8. \A k \in 1..Len(bars) : \/ mins[k] = <<>>
                              \/ mins[k] = mrows[d + k]
  BY <1>3, <1>7
<1>9. \A k \in 1..Len(bars) : Len(mins[k]) \in Nat
  BY <1>6, <1>8
<1>10. Settle(play, bars, mins, Horizon) = "WIN"
  BY DEF Outcome
<1> HIDE DEF play, rows, mrows, bars, mins
<1>11. PICK k \in 1..Len(bars) :
          /\ k <= Horizon
          /\ HitsTarget(bars[k], play)
          /\ \A i \in 1..(k-1) : ~ HitsStop(bars[i], play)
          /\ HitsStop(bars[k], play) =>
                \E m \in 1..Len(mins[k]) :
                    /\ HitsTarget(mins[k][m], play)
                    /\ \A i \in 1..m : ~ HitsStop(mins[k][i], play)
  <2>1. Len(bars) \in Nat
    BY <1>5
  <2>2. Horizon \in Nat
    BY <1>4
  <2>3. QED
    BY ZenonT(60), <2>1, <2>2, <1>9, <1>10, NoOverclaim
<1>12. d + k \in (d+1)..(e-1) /\ (d + k) - d <= Horizon
  BY <1>4, <1>5, <1>11
<1>13. HitsTarget(rows[d + k], play)
  BY <1>2, <1>11
<1>14. \A i \in (d+1)..(d+k-1) : ~ HitsStop(rows[i], play)
  <2> SUFFICES ASSUME NEW i \in (d+1)..(d+k-1) PROVE ~ HitsStop(rows[i], play)
    OBVIOUS
  <2>1. i - d \in 1..(k-1) /\ i - d \in 1..Len(bars) /\ d + (i - d) = i
    BY <1>4, <1>5
  <2>2. bars[i - d] = rows[i]
    BY <1>2, <2>1
  <2>3. QED
    BY <1>11, <2>1, <2>2
<1>15. ASSUME HitsStop(rows[d + k], play)
       PROVE  \E m \in 1..Len(mrows[d + k]) :
                 /\ HitsTarget(mrows[d + k][m], play)
                 /\ \A i \in 1..m : ~ HitsStop(mrows[d + k][i], play)
  <2>1. PICK m \in 1..Len(mins[k]) :
           /\ HitsTarget(mins[k][m], play)
           /\ \A i \in 1..m : ~ HitsStop(mins[k][i], play)
    BY <1>2, <1>11, <1>15
  <2>2. mins[k] # <<>>
    <3>1. SUFFICES ASSUME mins[k] = <<>> PROVE FALSE
      OBVIOUS
    <3>2. Len(mins[k]) = 0
      BY <3>1
    <3>3. QED
      BY <2>1, <3>2
  <2>3. mins[k] = mrows[d + k]
    BY <1>8, <2>2
  <2>4. QED
    BY <2>1, <2>3
<1>16. QED
  <2>1. PICK n \in (d+1)..(e-1) : n = d + k
    BY <1>12
  <2>2. n - d <= Horizon
    BY <1>12, <2>1
  <2>3. HitsTarget(market.bars[p][n], LevelsOf[p])
    BY <1>13, <2>1 DEF play, rows
  <2>4. \A i \in (d+1)..(n-1) : ~ HitsStop(market.bars[p][i], LevelsOf[p])
    <3>1. (d+1)..(n-1) = (d+1)..(d+k-1)
      BY <1>4, <1>5, <2>1
    <3>2. QED
      BY <1>14, <3>1 DEF play, rows
  <2>5. HitsStop(market.bars[p][n], LevelsOf[p]) =>
           \E m \in 1..Len(market.minutes[p][n]) :
               /\ HitsTarget(market.minutes[p][n][m], LevelsOf[p])
               /\ \A i \in 1..m : ~ HitsStop(market.minutes[p][n][i], LevelsOf[p])
    BY <1>15, <2>1 DEF play, rows, mrows
  <2>6. QED
    BY <2>2, <2>3, <2>4, <2>5 DEF Supported

\* What was supported stays supported: prices do not change.
LEMMA SupportedStays ==
    ASSUME NEW p \in Play, NEW d \in Day, NEW e \in Nat, NEW g \in Nat, e <= g,
           market' = market, Supported(p, d, e)
    PROVE  Supported(p, d, g) /\ Supported(p, d, e)' /\ Supported(p, d, g)'
<1>1. d \in Nat /\ (d+1)..(e-1) \subseteq (d+1)..(g-1)
  BY DayBoundAssumption DEF Day
<1>2. QED
  BY <1>1 DEF Supported

WInv == IInv /\ WinsEarned /\ PendingWins

LEMMA WinsStep == WInv /\ [Next]_vars => WinsEarned' /\ PendingWins'
<1> SUFFICES ASSUME WInv, [Next]_vars PROVE WinsEarned' /\ PendingWins'
  OBVIOUS
<1> USE DEF WInv, IInv
<1> DEFINE won(d, p) == doc[d].verdict[p] = "WIN"
<1>0. /\ \A d \in Day, p \in Play : won(d, p) => Supported(p, d, et)
      /\ Settler \in Jobs /\ \A j \in Writer : j \in Jobs /\ j # Settler
  BY Kinds DEF WinsEarned, Supported
<1>1. ASSUME \A d \in Day, p \in Play : doc'[d].verdict[p] = "WIN" => Supported(p, d, et)',
             PendingWins'
      PROVE  WinsEarned' /\ PendingWins'
  BY <1>1 DEF WinsEarned, Supported
<1>2. ASSUME market' = market, et' \in Nat, et <= et'
      PROVE  \A d \in Day, p \in Play : Supported(p, d, et) => Supported(p, d, et)'
  <2>1. \A d \in Day, p \in Play : Supported(p, d, et) => Supported(p, d, et')
    BY <1>2, SweepJobType, SupportedStays
  <2>2. \A d \in Day, p \in Play : Supported(p, d, et') => Supported(p, d, et)'
    BY ZenonT(60), <1>2 DEF Supported
  <2>3. QED
    BY <2>1, <2>2
<1>3. ASSUME NEW j \in Writer, WriterAct(j) PROVE WinsEarned' /\ PendingWins'
  <2>1. /\ market' = market /\ et' = et
        /\ pc'[Settler] = pc[Settler] /\ job'[Settler] = job[Settler]
        /\ \A d \in Day : doc'[d] = doc[d] \/ doc'[d].verdict = job[j].base.verdict
    BY <1>0, <1>3, WriterEffect DEF clocks
  <2>2. \A d \in Day, p \in Play : Supported(p, d, et) => Supported(p, d, et)'
    BY <1>2, <2>1, SweepJobType
  <2>3. \A d \in Day, p \in Play : doc'[d].verdict[p] = "WIN" => doc[d].verdict[p] = "WIN"
    BY <2>1 DEF NoneYet, NoVerdict
  <2>4. PendingWins'
    BY <2>1, <2>2, SweepJobType DEF PendingWins
  <2>5. QED
    BY <1>0, <1>1, <2>2, <2>3, <2>4
<1>4. ASSUME market' = market, et' \in Nat, et <= et', doc' = doc, PendingWins'
      PROVE  WinsEarned' /\ PendingWins'
  BY <1>0, <1>1, <1>2, <1>4
<1>5. CASE SettleStart(Settler)
  <2>1. UNCHANGED <<market, et, doc>> /\ pc'[Settler] = "sweep"
    BY <1>5, SweepStarts DEF clocks
  <2>2. PendingWins'
    BY <2>1 DEF PendingWins
  <2>3. QED
    BY <1>4, <2>1, <2>2, SweepJobType
<1>6. CASE SweepDay(Settler)
  <2>1. UNCHANGED <<market, et, doc>>
    BY <1>6, SweepGrades DEF clocks
  <2>2. ASSUME NEW p \in Play, pc'[Settler] = "merge", job'[Settler].outs[p] = "WIN"
        PROVE  Supported(p, job[Settler].day, et)'
    <3>1. PICK noMinutes :
             job'[Settler].outs[p] = Outcome(p, job'[Settler].day, job[Settler].today, noMinutes)
      BY <1>6, <2>2, SweepGrades
    <3>2. job'[Settler].day \in Day
      BY <1>6, <2>2, SweepGrades, SweepJobType
    <3>3. Supported(p, job'[Settler].day, job[Settler].today)
      BY <2>2, <3>1, <3>2, SweepJobType, GradedWin
    <3>4. job[Settler].today <= et /\ job[Settler].today \in Nat /\ et \in Nat
      BY <1>6, SweepGrades, SweepJobType DEF Calendar
    <3>5. Supported(p, job'[Settler].day, et)
      BY <2>1, <3>2, <3>3, <3>4, SupportedStays
    <3>6. QED
      BY <2>1, <3>5 DEF Supported
  <2>3. pc'[Settler] # "put"
    BY <1>6, SweepGrades
  <2>4. PendingWins'
    BY <2>2, <2>3 DEF PendingWins
  <2>5. QED
    BY <1>4, <2>1, <2>4, SweepJobType
<1>7. CASE Merge(Settler)
  <2>1. /\ UNCHANGED <<market, et, doc>>
        /\ pc[Settler] = "merge" /\ pc'[Settler] = "put"
        /\ job'[Settler].day = job[Settler].day
        /\ \A p \in Play :
              \/ job'[Settler].base.verdict[p] = doc[job[Settler].day].verdict[p]
              \/ job'[Settler].base.verdict[p] = job[Settler].outs[p]
    BY <1>7, SweepMerges DEF clocks
  <2>2. ASSUME NEW p \in Play, job'[Settler].base.verdict[p] = "WIN"
        PROVE  Supported(p, job[Settler].day, et)
    BY <1>0, <2>1, <2>2, SweepJobType DEF PendingWins
  <2>3. \A p \in Play : Supported(p, job[Settler].day, et)
                          => Supported(p, job[Settler].day, et)'
    BY <2>1, <1>2, SweepJobType
  <2>4. PendingWins'
    BY <2>1, <2>2 DEF PendingWins, Supported
  <2>5. QED
    BY <1>4, <2>1, <2>4, SweepJobType
<1>8. CASE Put(Settler) \/ SaveFails(Settler) \/ Crash(Settler)
  <2>1. /\ UNCHANGED <<market, et>>
        /\ pc'[Settler] \in {"idle", "sweep"}
        /\ \/ doc' = doc
           \/ /\ pc[Settler] = "put"
              /\ doc' = [doc EXCEPT ![job[Settler].day] = job[Settler].base]
    BY <1>8, SweepQuits DEF clocks
  <2>2. PendingWins'
    BY <2>1 DEF PendingWins
  <2>3. CASE doc' = doc
    BY <1>4, <2>1, <2>2, <2>3, SweepJobType
  <2>4. CASE pc[Settler] = "put" /\ doc' = [doc EXCEPT ![job[Settler].day] = job[Settler].base]
    <3>1. \A d \in Day : \/ doc'[d] = doc[d]
                         \/ d = job[Settler].day /\ doc'[d] = job[Settler].base
      BY <2>4 DEF TypeOK
    <3>2. \A d \in Day, p \in Play : doc'[d].verdict[p] = "WIN" => Supported(p, d, et)
      BY <1>0, <2>4, <3>1 DEF PendingWins
    <3>3. \A d \in Day, p \in Play : Supported(p, d, et) => Supported(p, d, et)'
      BY <1>2, <2>1, SweepJobType
    <3>4. QED
      BY <1>1, <2>2, <3>2, <3>3
  <2>5. QED
    BY <2>1, <2>3, <2>4
<1>9. CASE UtcMidnight \/ EtMidnight \/ UNCHANGED vars
  <2>1. /\ UNCHANGED <<market, doc, pc, job>>
        /\ et' \in Nat /\ et <= et'
    BY <1>9, SweepJobType DEF UtcMidnight, EtMidnight, vars, clocks
  <2>2. PendingWins'
    BY <1>2, <2>1, SweepJobType DEF PendingWins
  <2>3. QED
    BY <1>4, <2>1, <2>2
<1>10. QED
  BY <1>3, <1>5, <1>6, <1>7, <1>8, <1>9, Steps DEF SweepAct

\* Every recorded win was won (settlement.py:23).
THEOREM WinsAreEarned == Spec => []WinsEarned
<1>1. Init => WinsEarned /\ PendingWins
  BY Kinds DEF Init, WinsEarned, PendingWins, EmptyDay, NoVerdict
<1>2. IInv /\ IInv' /\ WinsEarned /\ PendingWins /\ [Next]_vars => WinsEarned' /\ PendingWins'
  BY WinsStep DEF WInv
<1>3. QED
  BY <1>1, <1>2, Inductive, PTL DEF Spec

-----------------------------------------------------------------------------
(***************************************************************************)
(* Alerts.                                                                 *)
(***************************************************************************)

\* The sets that are counted are finite, and no larger than the alerters.
LEMMA Counts ==
    /\ Cardinality(Alerters) \in Nat
    /\ \A S, T : S \subseteq T /\ T \subseteq Alerters =>
          /\ IsFiniteSet(S) /\ Cardinality(S) \in Nat
          /\ Cardinality(S) <= Cardinality(T) /\ Cardinality(T) <= Cardinality(Alerters)
          /\ Cardinality(T) \in Nat
<1>1. \A T : T \subseteq Alerters =>
         IsFiniteSet(T) /\ Cardinality(T) \in Nat /\ Cardinality(T) <= Cardinality(Alerters)
  BY JobAssumption, FS_Subset, FS_CardinalityType
<1>2. ASSUME NEW S, NEW T, S \subseteq T, T \subseteq Alerters
      PROVE  Cardinality(S) <= Cardinality(T) /\ S \subseteq Alerters
  BY <1>1, <1>2, FS_Subset
<1>3. QED
  BY <1>1, <1>2, JobAssumption, FS_CardinalityType

\* One more disturbing upload pays for one more mail by every alerter.
LEMMA Budget ==
    ASSUME NEW n \in Nat, NEW u \in Nat
    PROVE  n * (u + 1) = n * u + n /\ n * u \in Nat /\ n * (u + 1) \in Nat
OBVIOUS

AlertInv == AlertsBounded /\ Unmarked

\* The parts of AlertInv for one play, with what a step may change as parameters.
LEMMA AlertCase ==
    ASSUME TypeOK, NEW d \in Day, NEW p \in Play
    PROVE  /\ Senders(d, p) \subseteq InFlight(d, p) /\ InFlight(d, p) \subseteq Alerters
           /\ Cardinality(Senders(d, p)) \in Nat /\ Cardinality(InFlight(d, p)) \in Nat
           /\ Cardinality(Senders(d, p)) <= Cardinality(InFlight(d, p))
           /\ Cardinality(InFlight(d, p)) <= Cardinality(Alerters)
           /\ alerted[d][p] \in Nat /\ disturbed[d] \in Nat
<1>1. Senders(d, p) \subseteq InFlight(d, p) /\ InFlight(d, p) \subseteq Alerters
  BY DEF Senders, InFlight
<1>2. QED
  BY <1>1, Counts DEF TypeOK

\* A step that sends nothing, adds nothing to what is in flight and loses no
\* mark keeps both parts; one that loses marks counts itself.
LEMMA QuietStep ==
    ASSUME TypeOK, AlertInv, NEW d \in Day, NEW p \in Play, NEW S, NEW T, NEW u \in Nat,
           S \subseteq T, T \subseteq InFlight(d, p),
           \/ u = disturbed[d] + 1
           \/ u = disturbed[d] /\ S \subseteq Senders(d, p) /\ p \notin doc[d].fired
           \/ u = disturbed[d] /\ p \in doc[d].fired
    PROVE  /\ alerted[d][p] + Cardinality(T) <= Cardinality(Alerters) * (u + 1)
           /\ \/ alerted[d][p] + Cardinality(S) <= Cardinality(Alerters) * u
              \/ u = disturbed[d] /\ p \in doc[d].fired
<1> DEFINE N == Cardinality(Alerters)
           a == alerted[d][p]
           v == disturbed[d]
<1>1. a \in Nat /\ v \in Nat /\ N \in Nat
  BY AlertCase, Counts
<1>2. /\ Cardinality(S) \in Nat /\ Cardinality(T) \in Nat
      /\ Cardinality(S) <= Cardinality(T)
      /\ Cardinality(T) <= Cardinality(InFlight(d, p))
      /\ Cardinality(InFlight(d, p)) \in Nat
  BY Counts, AlertCase
<1>3. a + Cardinality(InFlight(d, p)) <= N * (v + 1)
  BY DEF AlertInv, AlertsBounded
<1>4. p \notin doc[d].fired => a + Cardinality(Senders(d, p)) <= N * v
  BY DEF AlertInv, Unmarked
<1>5. S \subseteq Senders(d, p) => Cardinality(S) <= Cardinality(Senders(d, p))
                                   /\ Cardinality(Senders(d, p)) \in Nat
  BY Counts, AlertCase
<1> HIDE DEF N, a, v
<1>6. CASE u = v + 1
  <2>1. N * (u + 1) = N * (v + 1) + N /\ N * (v + 1) \in Nat
    BY <1>1, <1>6, Budget
  <2>2. a + Cardinality(T) <= N * (v + 1) /\ a + Cardinality(S) <= N * (v + 1)
    BY <1>1, <1>2, <1>3, <2>1
  <2>3. N * u = N * (v + 1)
    BY <1>6
  <2>4. QED
    BY <1>1, <1>2, <2>1, <2>2, <2>3 DEF N, a, v
<1>7. CASE u = v
  <2>1. N * (v + 1) \in Nat /\ N * v \in Nat
    BY <1>1, Budget
  <2>2. a + Cardinality(T) <= N * (v + 1)
    BY <1>1, <1>2, <1>3, <2>1
  <2>3. CASE p \in doc[d].fired
    BY <1>7, <2>2, <2>3 DEF N, a, v
  <2>4. CASE p \notin doc[d].fired
    <3>1. S \subseteq Senders(d, p)
      BY <1>1, <1>7, <2>4 DEF v
    <3>2. a + Cardinality(S) <= N * v
      BY <1>1, <1>2, <1>4, <1>5, <2>1, <2>4, <3>1
    <3>3. QED
      BY <1>7, <2>2, <3>2 DEF N, a, v
  <2>5. QED
    BY <2>3, <2>4
<1>8. QED
  BY <1>6, <1>7 DEF v

\* AlertInv after a step, play by play.
LEMMA AlertNext ==
    ASSUME \A d \in Day, p \in Play :
              /\ alerted'[d][p] + Cardinality(InFlight(d, p)')
                    <= Cardinality(Alerters) * (disturbed'[d] + 1)
              /\ p \notin doc'[d].fired =>
                    alerted'[d][p] + Cardinality(Senders(d, p)')
                        <= Cardinality(Alerters) * disturbed'[d]
    PROVE  AlertInv'
BY DEF AlertInv, AlertsBounded, Unmarked, InFlight, Senders

\* QuietStep for all plays at once.
LEMMA QuietCase ==
    ASSUME TypeOK, AlertInv, alerted' = alerted,
           \A d \in Day, p \in Play :
              /\ InFlight(d, p)' \subseteq InFlight(d, p)
              /\ \/ disturbed'[d] = disturbed[d] + 1
                 \/ /\ disturbed'[d] = disturbed[d]
                    /\ p \in doc[d].fired => p \in doc'[d].fired
                    /\ p \notin doc'[d].fired => Senders(d, p)' \subseteq Senders(d, p)
    PROVE  AlertInv'
<1> SUFFICES ASSUME NEW d \in Day, NEW p \in Play
             PROVE  /\ alerted'[d][p] + Cardinality(InFlight(d, p)')
                          <= Cardinality(Alerters) * (disturbed'[d] + 1)
                    /\ p \notin doc'[d].fired =>
                          alerted'[d][p] + Cardinality(Senders(d, p)')
                              <= Cardinality(Alerters) * disturbed'[d]
  BY AlertNext
<1> DEFINE T == InFlight(d, p)'
           S == Senders(d, p)'
           u == disturbed'[d]
<1>1. S \subseteq T /\ T \subseteq InFlight(d, p) /\ {} \subseteq T
  BY DEF Senders, InFlight
<1>2. disturbed[d] \in Nat /\ u \in Nat
  BY AlertCase
<1>3. \/ u = disturbed[d] + 1
      \/ /\ u = disturbed[d]
         /\ p \in doc[d].fired => p \in doc'[d].fired
         /\ p \notin doc'[d].fired => S \subseteq Senders(d, p)
  OBVIOUS
<1> HIDE DEF T, S, u
<1>4. alerted[d][p] + Cardinality(T) <= Cardinality(Alerters) * (u + 1)
  <2>1. {} \subseteq Senders(d, p)
    OBVIOUS
  <2>2. QED
    BY <1>1, <1>2, <1>3, <2>1, QuietStep
<1>5. ASSUME p \notin doc'[d].fired
      PROVE  alerted[d][p] + Cardinality(S) <= Cardinality(Alerters) * u
  <2>1. \/ u = disturbed[d] + 1
        \/ u = disturbed[d] /\ S \subseteq Senders(d, p) /\ p \notin doc[d].fired
    BY <1>3, <1>5
  <2>2. QED
    BY <1>1, <1>2, <2>1, QuietStep
<1>6. QED
  BY <1>4, <1>5 DEF T, S, u

\* Nothing in flight moves unless an alerter does.
LEMMA StillAlerters ==
    ASSUME \A a \in Alerters : pc'[a] = pc[a] /\ job'[a] = job[a]
    PROVE  \A d \in Day, p \in Play :
              InFlight(d, p)' = InFlight(d, p) /\ Senders(d, p)' = Senders(d, p)
BY DEF InFlight, Senders

\* An alerter that goes on with its plays, or ends, adds nothing to what is in
\* flight, and to the senders only itself.
LEMMA MovingAlerter ==
    ASSUME NEW j \in Alerters,
           \A a \in Alerters \ {j} : pc'[a] = pc[a] /\ job'[a] = job[a],
           \/ pc'[j] = "idle"
           \/ pc[j] # "idle" /\ job'[j].day = job[j].day /\ job'[j].ids = job[j].ids
    PROVE  \A d \in Day, p \in Play :
              /\ InFlight(d, p)' \subseteq InFlight(d, p)
              /\ Senders(d, p)' \subseteq Senders(d, p)
                 \/ (pc'[j] = "send" /\ d = job[j].day /\ p \in job[j].ids)
BY DEF InFlight, Senders

\* A new cycle: its plays were unmarked, so the mails so far are paid for.
LEMMA AlertStartCase ==
    ASSUME TypeOK, AlertInv, NEW a \in Alerters, AlertStart(a) PROVE AlertInv'
<1>1. PICK base : /\ LoadDay(utc, base)
                  /\ \E ids \in SUBSET (base.plays \ base.fired) :
                        ids # {} /\ Begin(a, "load", [NoJob EXCEPT !.day = utc, !.ids = ids])
  BY DEF AlertStart
<1>2. PICK ids \in SUBSET (base.plays \ base.fired) :
         ids # {} /\ Begin(a, "load", [NoJob EXCEPT !.day = utc, !.ids = ids])
  BY <1>1
<1>3. utc \in Day /\ doc[utc] \in Doc
  BY DEF TypeOK
<1>4. base = AsDayState(doc[utc])
  BY <1>1, <1>2 DEF LoadDay, EmptyDay
<1>5. \A p \in ids : p \notin doc[utc].fired
  BY <1>2, <1>3, <1>4, DocTypes
<1> DEFINE fresh == [NoJob EXCEPT !.day = utc, !.ids = ids]
<1>6. fresh.day = utc /\ fresh.ids = ids
  BY DEF NoJob
<1> HIDE DEF fresh
<1>7. /\ pc'[a] = "load" /\ job'[a].day = utc /\ job'[a].ids = ids
      /\ \A b \in Alerters \ {a} : pc'[b] = pc[b] /\ job'[b] = job[b]
  BY <1>2, <1>6, Kinds DEF Begin, TypeOK, fresh
<1>8. UNCHANGED <<doc, alerted, disturbed>>
  BY DEF AlertStart, hist
<1> SUFFICES ASSUME NEW d \in Day, NEW p \in Play
             PROVE  /\ alerted[d][p] + Cardinality(InFlight(d, p)')
                          <= Cardinality(Alerters) * (disturbed[d] + 1)
                    /\ p \notin doc[d].fired =>
                          alerted[d][p] + Cardinality(Senders(d, p)')
                              <= Cardinality(Alerters) * disturbed[d]
  BY <1>8, AlertNext
<1>9. Senders(d, p)' \subseteq Senders(d, p) /\ InFlight(d, p)' \subseteq Alerters
  BY <1>7 DEF Senders, InFlight
<1>10. p \notin doc[d].fired => alerted[d][p] + Cardinality(Senders(d, p)')
                                   <= Cardinality(Alerters) * disturbed[d]
  BY <1>9, AlertCase, QuietStep, Counts
<1>11. CASE d = utc /\ p \in ids
  <2> DEFINE N == Cardinality(Alerters)
             T == InFlight(d, p)'
  <2>1. alerted[d][p] + Cardinality(Senders(d, p)) <= N * disturbed[d]
    BY <1>5, <1>11 DEF AlertInv, Unmarked
  <2>2. Cardinality(T) \in Nat /\ Cardinality(T) <= N /\ N \in Nat
    BY <1>9, Counts
  <2>3. /\ N * (disturbed[d] + 1) = N * disturbed[d] + N
        /\ N * disturbed[d] \in Nat /\ N * (disturbed[d] + 1) \in Nat
    BY <2>2, AlertCase, Budget
  <2>4. alerted[d][p] \in Nat /\ Cardinality(Senders(d, p)) \in Nat
    BY AlertCase
  <2> HIDE DEF N, T
  <2>5. alerted[d][p] + Cardinality(T) <= N * (disturbed[d] + 1)
    BY <2>1, <2>2, <2>3, <2>4
  <2>6. QED
    BY <1>10, <2>5 DEF N, T
<1>12. CASE ~ (d = utc /\ p \in ids)
  <2>1. InFlight(d, p)' \subseteq InFlight(d, p)
    BY <1>7, <1>12 DEF InFlight
  <2>2. {} \subseteq InFlight(d, p)' /\ {} \subseteq Senders(d, p)
    OBVIOUS
  <2>3. alerted[d][p] + Cardinality(InFlight(d, p)') <= Cardinality(Alerters) * (disturbed[d] + 1)
    BY <2>1, <2>2, AlertCase, QuietStep
  <2>4. QED
    BY <1>10, <2>3
<1>13. QED
  BY <1>11, <1>12

\* A mail moves its alerter from what is in flight to what is sent.
LEMMA SendCase ==
    ASSUME TypeOK, AlertInv, NEW a \in Alerters, Send(a) PROVE AlertInv'
<1>1. /\ pc'[a] = "idle" /\ pc[a] = "send"
      /\ \A b \in Alerters \ {a} : pc'[b] = pc[b] /\ job'[b] = job[b]
      /\ a \in Jobs /\ job[a].day \in Day /\ job[a].ids \in SUBSET Play
  BY Kinds, EndType DEF Send, TypeOK, Job
<1>2. UNCHANGED <<doc, disturbed>>
  BY DEF Send
<1>3. \A d \in Day, p \in Play :
         alerted'[d][p] = IF d = job[a].day /\ p \in job[a].ids
                          THEN alerted[d][p] + 1 ELSE alerted[d][p]
  BY <1>1 DEF Send, TypeOK
<1> SUFFICES ASSUME NEW d \in Day, NEW p \in Play
             PROVE  /\ alerted'[d][p] + Cardinality(InFlight(d, p)')
                          <= Cardinality(Alerters) * (disturbed[d] + 1)
                    /\ p \notin doc[d].fired =>
                          alerted'[d][p] + Cardinality(Senders(d, p)')
                              <= Cardinality(Alerters) * disturbed[d]
  BY <1>2, AlertNext
<1>4. /\ InFlight(d, p)' = InFlight(d, p) \ {a}
      /\ Senders(d, p)' = Senders(d, p) \ {a}
  BY <1>1 DEF InFlight, Senders
<1>5. IsFiniteSet(InFlight(d, p)) /\ IsFiniteSet(Senders(d, p))
  BY AlertCase, Counts
<1>6. /\ alerted[d][p] + Cardinality(InFlight(d, p)) <= Cardinality(Alerters) * (disturbed[d] + 1)
      /\ p \notin doc[d].fired =>
            alerted[d][p] + Cardinality(Senders(d, p)) <= Cardinality(Alerters) * disturbed[d]
  BY DEF AlertInv, AlertsBounded, Unmarked
<1>7. /\ Cardinality(Alerters) * (disturbed[d] + 1) \in Nat
      /\ Cardinality(Alerters) * disturbed[d] \in Nat
  BY AlertCase, Counts, Budget
<1>8. CASE d = job[a].day /\ p \in job[a].ids
  <2>1. a \in InFlight(d, p) /\ a \in Senders(d, p)
    BY <1>1, <1>8 DEF InFlight, Senders
  <2>2. /\ Cardinality(InFlight(d, p)') = Cardinality(InFlight(d, p)) - 1
        /\ Cardinality(Senders(d, p)') = Cardinality(Senders(d, p)) - 1
    BY <1>4, <1>5, <2>1, FS_RemoveElement
  <2>3. alerted'[d][p] = alerted[d][p] + 1
    BY <1>3, <1>8
  <2>4. QED
    BY <1>6, <1>7, <2>2, <2>3, AlertCase
<1>9. CASE ~ (d = job[a].day /\ p \in job[a].ids)
  <2>1. a \notin InFlight(d, p) /\ a \notin Senders(d, p)
    BY <1>9 DEF InFlight, Senders
  <2>2. InFlight(d, p)' = InFlight(d, p) /\ Senders(d, p)' = Senders(d, p)
    BY <1>4, <2>1
  <2>3. QED
    BY <1>3, <1>6, <1>9, <2>2
<1>10. QED
  BY <1>8, <1>9

\* A scout or an alerter has written its plays: what is marked may be less than
\* before only if that is counted, and whoever marked a play is its sender.
LEMMA WriteCase ==
    ASSUME TypeOK, AlertInv, NEW j \in Writer, Write(j) PROVE AlertInv'
<1>1. /\ j \in Jobs /\ job[j].day \in Day /\ job[j].base \in Doc /\ job[j].ids \in SUBSET Play
      /\ pc[j] = "write"
  BY Kinds DEF Write, TypeOK, Job
<1>2. /\ SavePlays(job[j].base, job[j].ids).fired = job[j].base.fired
      /\ MarkFired(job[j].base, job[j].ids).fired = job[j].base.fired \cup job[j].ids
  BY <1>1, DocTypes
<1>3. PICK new : /\ doc' = [doc EXCEPT ![job[j].day] = new]
                 /\ new.fired = IF j \in Scouts THEN job[j].base.fired
                                ELSE job[j].base.fired \cup job[j].ids
  BY <1>2 DEF Write
<1>4. \A d \in Day : doc'[d] = IF d = job[j].day THEN new ELSE doc[d]
  BY <1>1, <1>3 DEF TypeOK
<1>5. \A d \in Day : disturbed'[d] = IF d = job[j].day /\ job[j].base.fired # doc[d].fired
                                     THEN disturbed[d] + 1 ELSE disturbed[d]
  BY <1>1 DEF Write, TypeOK
<1>6. AfterWrite(j) /\ alerted' = alerted
  BY DEF Write
<1>7. CASE j \in Scouts
  <2>1. \A a \in Alerters : pc'[a] = pc[a] /\ job'[a] = job[a]
    BY <1>1, <1>6, <1>7, Kinds, EndType DEF AfterWrite
  <2>2. \A d \in Day, p \in Play :
           InFlight(d, p)' = InFlight(d, p) /\ Senders(d, p)' = Senders(d, p)
    BY <2>1, StillAlerters
  <2>3. \A d \in Day : disturbed'[d] = disturbed[d] + 1
                       \/ (disturbed'[d] = disturbed[d] /\ doc'[d].fired = doc[d].fired)
    BY <1>3, <1>4, <1>5, <1>7
  <2>4. QED
    BY <1>6, <2>2, <2>3, QuietCase
<1>8. CASE j \in Alerters
  <2>1. j \notin Scouts /\ Begin(j, "send", [job[j] EXCEPT !.base = EmptyDay])
    BY <1>6, <1>8, Kinds DEF AfterWrite
  <2>2. /\ job'[j].day = job[j].day /\ job'[j].ids = job[j].ids
        /\ \A a \in Alerters \ {j} : pc'[a] = pc[a] /\ job'[a] = job[a]
    BY <1>1, <2>1, Kinds DEF Begin, TypeOK, Job
  <2>3. \A d \in Day, p \in Play :
           /\ InFlight(d, p)' \subseteq InFlight(d, p)
           /\ Senders(d, p)' \subseteq Senders(d, p) \/ (d = job[j].day /\ p \in job[j].ids)
    BY <1>1, <1>8, <2>2, MovingAlerter
  <2>4. \A d \in Day, p \in Play :
           \/ disturbed'[d] = disturbed[d] + 1
           \/ /\ disturbed'[d] = disturbed[d]
              /\ p \in doc[d].fired => p \in doc'[d].fired
              /\ d = job[j].day /\ p \in job[j].ids => p \in doc'[d].fired
    BY <1>3, <1>4, <1>5, <2>1
  <2>5. QED
    BY <1>6, <2>3, <2>4, QuietCase
<1>9. QED
  BY <1>7, <1>8, Kinds

\* Every other step of a writer is quiet.
LEMMA WriterCase ==
    ASSUME TypeOK, AlertInv, NEW j \in Writer, WriterAct(j) PROVE AlertInv'
<1>0. j \in Jobs /\ job[j] \in Job /\ job[j].day \in Day
  BY Kinds DEF TypeOK, Job
<1>1. CASE j \in Alerters /\ (AlertStart(j) \/ Send(j))
  BY <1>1, AlertStartCase, SendCase
<1>2. CASE Write(j)
  BY <1>2, WriteCase
<1>3. ASSUME UNCHANGED <<doc, alerted, disturbed>>,
             pc'[j] # "send" \/ j \in Scouts,
             \/ pc'[j] = "idle" \/ j \in Scouts
             \/ pc[j] # "idle" /\ job'[j].day = job[j].day /\ job'[j].ids = job[j].ids
      PROVE  AlertInv'
  <2>1. \A i \in Jobs \ {j} : pc'[i] = pc[i] /\ job'[i] = job[i]
    BY WriterEffect
  <2>2. \A d \in Day, p \in Play :
           InFlight(d, p)' \subseteq InFlight(d, p) /\ Senders(d, p)' \subseteq Senders(d, p)
    <3>1. CASE j \in Scouts
      BY <2>1, <3>1, Kinds, StillAlerters
    <3>2. CASE j \in Alerters
      BY <1>3, <2>1, <3>2, Kinds, MovingAlerter
    <3>3. QED
      BY <3>1, <3>2, Kinds
  <2>3. QED
    BY <1>3, <2>2, QuietCase
<1>4. CASE (j \in Scouts /\ ScoutStart(j)) \/ (j \in Alerters /\ SendFails(j)) \/ Crash(j)
  <2>1. UNCHANGED <<doc, alerted, disturbed>>
    BY <1>4 DEF ScoutStart, SendFails, Crash, hist
  <2>2. j \in Scouts \/ End(j)
    BY <1>4 DEF SendFails, Crash
  <2>3. QED
    BY <1>0, <1>3, <2>1, <2>2, EndType
<1>5. CASE Load(j)
  <2>1. PICK base : Begin(j, "write", [job[j] EXCEPT !.base = base])
    BY <1>5 DEF Load
  <2>2. /\ pc'[j] = "write" /\ pc[j] # "idle"
        /\ job'[j].day = job[j].day /\ job'[j].ids = job[j].ids
    BY <1>0, <1>5, <2>1 DEF Begin, Load, TypeOK, Job
  <2>3. UNCHANGED <<doc, alerted, disturbed>>
    BY <1>5 DEF Load, hist
  <2>4. QED
    BY <1>3, <2>2, <2>3
<1>6. CASE WriteLocal(j)
  <2>1. /\ doc' = doc /\ alerted' = alerted /\ AfterWrite(j) /\ pc[j] = "write"
        /\ \A d \in Day : disturbed'[d] = IF d = job[j].day THEN disturbed[d] + 1
                                          ELSE disturbed[d]
    BY <1>0, <1>6 DEF WriteLocal, TypeOK
  <2>2. \A i \in Jobs \ {j} : pc'[i] = pc[i] /\ job'[i] = job[i]
    BY WriterEffect
  <2>3. \A d \in Day, p \in Play :
           /\ InFlight(d, p)' \subseteq InFlight(d, p)
           /\ Senders(d, p)' \subseteq Senders(d, p) \/ d = job[j].day
    <3>1. CASE j \in Scouts
      BY <2>2, <3>1, Kinds, StillAlerters
    <3>2. CASE j \in Alerters
      <4>1. Begin(j, "send", [job[j] EXCEPT !.base = EmptyDay])
        BY <2>1, <3>2, Kinds DEF AfterWrite
      <4>2. job'[j].day = job[j].day /\ job'[j].ids = job[j].ids
        BY <1>0, <4>1 DEF Begin, TypeOK, Job
      <4>3. QED
        BY <2>1, <2>2, <3>2, <4>2, Kinds, MovingAlerter
    <3>3. QED
      BY <3>1, <3>2, Kinds
  <2>4. QED
    BY <2>1, <2>3, QuietCase
<1>7. QED
  BY <1>1, <1>2, <1>4, <1>5, <1>6 DEF WriterAct

LEMMA AlertStep == IInv /\ AlertInv /\ [Next]_vars => AlertInv'
<1> SUFFICES ASSUME IInv, AlertInv, [Next]_vars PROVE AlertInv'
  OBVIOUS
<1> USE DEF IInv
<1>1. ASSUME \A a \in Alerters : pc'[a] = pc[a] /\ job'[a] = job[a],
             \A d \in Day : doc'[d].fired = doc[d].fired, UNCHANGED <<alerted, disturbed>>
      PROVE  AlertInv'
  <2>1. \A d \in Day, p \in Play :
           InFlight(d, p)' = InFlight(d, p) /\ Senders(d, p)' = Senders(d, p)
    BY <1>1, StillAlerters
  <2>2. QED
    BY <1>1, <2>1, QuietCase
<1>2. CASE SweepAct
  <2>1. \A a \in Alerters : pc'[a] = pc[a] /\ job'[a] = job[a]
    BY <1>2, Kinds, SweepStarts, SweepGrades, SweepMerges, SweepQuits DEF SweepAct
  <2>2. UNCHANGED <<alerted, disturbed>>
    BY <1>2 DEF SweepAct, SettleStart, SweepDay, Merge, Put, SaveFails, Crash, hist
  <2>3. \A d \in Day : doc'[d].fired = doc[d].fired
    <3>1. \/ doc' = doc
          \/ /\ pc[Settler] = "put"
             /\ doc' = [doc EXCEPT ![job[Settler].day] = job[Settler].base]
      BY <1>2, SweepStarts, SweepGrades, SweepMerges, SweepQuits DEF SweepAct
    <3>2. QED
      BY <3>1 DEF Respects, TypeOK
  <2>4. QED
    BY <1>1, <2>1, <2>2, <2>3
<1>3. CASE UtcMidnight \/ EtMidnight \/ UNCHANGED vars
  BY <1>1, <1>3 DEF UtcMidnight, EtMidnight, vars, hist
<1>4. QED
  BY <1>2, <1>3, WriterCase, Steps

\* A play is mailed at most once by each alerter execution that can run at the
\* same time, and again only for uploads that lost marks (alerter.py:104).
THEOREM AlertsAreBounded == Spec => []AlertsBounded
<1>1. Init => AlertInv
  <2> SUFFICES ASSUME Init PROVE AlertInv
    OBVIOUS
  <2>1. \A d \in Day, p \in Play :
           /\ InFlight(d, p) = {} /\ Senders(d, p) = {}
           /\ alerted[d][p] = 0 /\ disturbed[d] = 0
    BY Kinds DEF Init, InFlight, Senders
  <2>2. Cardinality({}) = 0 /\ Cardinality(Alerters) \in Nat
    BY Counts, FS_EmptySet
  <2>3. Cardinality(Alerters) * (0 + 1) >= 0 /\ Cardinality(Alerters) * 0 >= 0
    BY <2>2, Budget
  <2>4. \A d \in Day, p \in Play :
           /\ alerted[d][p] + Cardinality(InFlight(d, p)) = 0
           /\ alerted[d][p] + Cardinality(Senders(d, p)) = 0
    <3>1. ASSUME NEW d \in Day, NEW p \in Play
          PROVE  /\ Cardinality(InFlight(d, p)) = 0 /\ Cardinality(Senders(d, p)) = 0
                 /\ alerted[d][p] = 0
      <4>1. InFlight(d, p) = {} /\ Senders(d, p) = {} /\ alerted[d][p] = 0
        BY <2>1
      <4>2. QED
        BY <2>2, <4>1
    <3>2. QED
      BY <3>1
  <2>5. QED
    BY <2>1, <2>3, <2>4 DEF AlertInv, AlertsBounded, Unmarked
<1>2. AlertInv => AlertsBounded
  BY DEF AlertInv
<1>3. QED
  BY <1>1, <1>2, AlertStep, Inductive, PTL DEF Spec

-----------------------------------------------------------------------------
(***************************************************************************)
(* Calibration: what the sweeps wrote against one replay of the same days. *)
(***************************************************************************)

\* The session that decides a play: the first of the horizon to touch a level.
Decides(p, d, k) ==
    /\ k \in (d+1)..MaxDay /\ k - d <= Horizon
    /\ Touches(market.bars[p][k], LevelsOf[p])
    /\ \A i \in (d+1)..(k-1) : ~ Touches(market.bars[p][i], LevelsOf[p])

\* A win or a loss that the prices bear out, the win with the day's minutes.
Borne(p, d, v) ==
    \E k \in (d+1)..MaxDay :
        /\ Decides(p, d, k)
        /\ v = "WIN"  => SessionWins(market.bars[p], market.minutes[p], LevelsOf[p], k)
        /\ v = "LOSS" => HitsStop(market.bars[p][k], LevelsOf[p])

\* Every verdict in the bucket, and every one the sweep holds in memory.
RecordsBorne ==
    \A d \in Day, p \in Play, v \in Frozen : doc[d].verdict[p] = v => Borne(p, d, v)

PendingBorne ==
    \A d \in Day, p \in Play, v \in Frozen :
        job[Settler].day = d =>
            /\ pc[Settler] = "merge" /\ job[Settler].outs[p] = v => Borne(p, d, v)
            /\ pc[Settler] = "put" /\ job[Settler].base.verdict[p] = v => Borne(p, d, v)

\* A finite set of whole numbers has a first one.
LEMMA FirstOf ==
    ASSUME NEW E, IsFiniteSet(E), E \subseteq Int, E # {}
    PROVE  \E m \in E : \A e \in E : m <= e
<1> DEFINE Before(e) == {x \in E : x < e}
           T == {Before(e) : e \in E}
<1>1. IsWellFoundedOn(StrictSubsetOrdering(E), FiniteSubsetsOf(E))
  BY FS_StrictSubsetOrderingWellFounded
<1>2. T \subseteq FiniteSubsetsOf(E) /\ T # {}
  <2>1. \A S \in SUBSET E : IsFiniteSet(S)
    BY FS_Subset
  <2>2. (\A S \in T : S \in SUBSET E) /\ T # {}
    OBVIOUS
  <2> HIDE DEF T
  <2>3. QED
    BY <2>1, <2>2 DEF FiniteSubsetsOf
<1>3. PICK S \in T : \A y \in T : ~(<<y, S>> \in StrictSubsetOrdering(E))
  <2> HIDE DEF T
  <2>1. QED
    BY <1>1, <1>2, WFMin
<1>4. PICK m \in E : S = Before(m)
  OBVIOUS
<1>5. ASSUME NEW e \in E, ~(m <= e) PROVE FALSE
  <2>1. e < m /\ m \in Int /\ e \in Int
    BY <1>5
  <2>2. Before(e) \subseteq Before(m)
    <3>1. ASSUME NEW x \in E, x < e PROVE x < m
      <4>1. x \in Int
        OBVIOUS
      <4>2. QED
        BY <2>1, <3>1, <4>1
    <3>2. QED
      BY <3>1
  <2>3. e \in Before(m) /\ e \notin Before(e)
    BY <2>1
  <2>4. Before(e) \in T /\ Before(e) \in SUBSET E /\ Before(m) \in SUBSET E
    OBVIOUS
  <2> HIDE DEF Before, T
  <2>5. Before(e) # Before(m)
    BY <2>3
  <2>6. <<Before(e), Before(m)>> \in StrictSubsetOrdering(E)
    BY <2>2, <2>4, <2>5 DEF StrictSubsetOrdering
  <2>7. QED
    BY <1>3, <1>4, <2>4, <2>6
<1>6. QED
  BY <1>5

\* What settle() decides, it decides at the first bar that touches a level: a
\* loss is a bar that reached the stop.
LEMMA Decided ==
    ASSUME NEW bars, Len(bars) \in Nat, NEW minutesOf, NEW play, NEW horizon \in Nat,
           Settle(play, bars, minutesOf, horizon) \in Frozen
    PROVE  \E k \in 1..Len(bars) :
              /\ k <= horizon /\ DecidedAt(bars, play, k)
              /\ Settle(play, bars, minutesOf, horizon) = "WIN" =>
                    SessionWins(bars, minutesOf, play, k)
              /\ Settle(play, bars, minutesOf, horizon) = "LOSS" => HitsStop(bars[k], play)
<1> DEFINE v == Settle(play, bars, minutesOf, horizon)
           won(k) == /\ Considered(bars, horizon, k) /\ DecidedAt(bars, play, k)
                     /\ SessionWins(bars, minutesOf, play, k)
<1>1. CASE \E k \in 1..Len(bars) : won(k)
  <2>1. PICK k \in 1..Len(bars) : won(k)
    BY <1>1
  <2>2. v = "WIN"
    BY <1>1 DEF Settle
  <2>3. QED
    BY <2>1, <2>2 DEF Considered
<1>2. CASE ~ \E k \in 1..Len(bars) : won(k)
  <2>1. \E k \in 1..Len(bars) : Considered(bars, horizon, k) /\ Touches(bars[k], play)
    BY <1>2 DEF Settle, Frozen
  <2>2. v = "LOSS"
    BY <1>2, <2>1 DEF Settle
  <2> DEFINE E == {k \in 1..Len(bars) : Touches(bars[k], play)}
  <2>3. IsFiniteSet(E) /\ E \subseteq Int /\ E # {}
    <3>1. IsFiniteSet(1..Len(bars))
      <4>1. 1 \in Int /\ Len(bars) \in Int
        OBVIOUS
      <4>2. QED
        BY <4>1, FS_Interval
    <3>2. E \subseteq 1..Len(bars) /\ E # {}
      BY <2>1
    <3>3. IsFiniteSet(E)
      BY <3>1, <3>2, FS_Subset
    <3>4. 1..Len(bars) \subseteq Int
      OBVIOUS
    <3>5. QED
      BY <3>2, <3>3, <3>4
  <2>4. PICK k \in E : \A e \in E : k <= e
    <3> HIDE DEF E
    <3>1. QED
      BY <2>3, FirstOf
  <2>5. k \in 1..Len(bars) /\ Touches(bars[k], play)
    OBVIOUS
  <2>6. k <= horizon
    <3>1. PICK e \in 1..Len(bars) : Considered(bars, horizon, e) /\ Touches(bars[e], play)
      BY <2>1
    <3>2. k <= e /\ e <= horizon
      BY <2>4, <3>1 DEF Considered
    <3>3. QED
      BY <2>5, <3>1, <3>2
  <2>7. \A j \in 1..(k-1) : ~ Touches(bars[j], play)
    <3>1. ASSUME NEW j \in 1..(k-1), Touches(bars[j], play) PROVE FALSE
      <4>1. j \in E /\ j < k
        BY <2>5, <3>1
      <4>2. QED
        BY <2>4, <4>1
    <3>2. QED
      BY <3>1
  <2>8. DecidedAt(bars, play, k) /\ Considered(bars, horizon, k)
    BY <2>5, <2>6, <2>7 DEF DecidedAt, Considered
  <2>9. ~ SessionWins(bars, minutesOf, play, k)
    BY <1>2, <2>5, <2>8
  <2>10. HitsStop(bars[k], play)
    BY <2>5, <2>9 DEF SessionWins, Touches
  <2>11. QED
    BY <2>2, <2>5, <2>6, <2>8, <2>10
<1>3. QED
  BY <1>1, <1>2

\* Bars taken from the day after the play's on: what decides there decides the play.
LEMMA Shifted ==
    ASSUME NEW p \in Play, NEW d \in Day, NEW bars, Len(bars) \in Nat,
           d + Len(bars) <= MaxDay,
           \A k \in 1..Len(bars) : bars[k] = market.bars[p][d + k],
           NEW k \in 1..Len(bars), k <= Horizon, NEW n \in Nat, n = d + k
    PROVE  DecidedAt(bars, LevelsOf[p], k) <=> Decides(p, d, n)
<1> DEFINE play == LevelsOf[p]
           rows == market.bars[p]
<1>1. d \in Nat /\ MaxDay \in Nat /\ Horizon \in Nat /\ k \in Nat
  BY DayBoundAssumption DEF Day
<1>2. n \in (d+1)..MaxDay /\ n - d <= Horizon
  BY <1>1
<1>3. bars[k] = rows[n]
  OBVIOUS
<1>4. ASSUME \A j \in 1..(k-1) : ~ Touches(bars[j], play), NEW i \in (d+1)..(n-1)
      PROVE  ~ Touches(rows[i], play)
  <2>1. i - d \in 1..(k-1) /\ i - d \in 1..Len(bars) /\ d + (i - d) = i
    BY <1>1
  <2>2. bars[i - d] = rows[i]
    BY <2>1
  <2>3. QED
    BY <1>4, <2>1, <2>2
<1>5. ASSUME \A i \in (d+1)..(n-1) : ~ Touches(rows[i], play), NEW j \in 1..(k-1)
      PROVE  ~ Touches(bars[j], play)
  <2>1. d + j \in (d+1)..(n-1) /\ j \in 1..Len(bars)
    BY <1>1
  <2>2. bars[j] = rows[d + j]
    BY <2>1
  <2>3. QED
    BY <1>5, <2>1, <2>2
<1> HIDE DEF play, rows
<1>6. DecidedAt(bars, play, k) <=>
         Touches(rows[n], play) /\ \A j \in 1..(k-1) : ~ Touches(bars[j], play)
  BY <1>3 DEF DecidedAt
<1>7. Decides(p, d, n) <=>
         Touches(rows[n], play) /\ \A i \in (d+1)..(n-1) : ~ Touches(rows[i], play)
  BY <1>2 DEF Decides, play, rows
<1>8. (\A j \in 1..(k-1) : ~ Touches(bars[j], play)) <=>
      (\A i \in (d+1)..(n-1) : ~ Touches(rows[i], play))
  BY <1>4, <1>5
<1>9. QED
  BY <1>6, <1>7, <1>8 DEF play

\* Every verdict the sweep grades is borne out by the prices: a win graded without
\* minutes did not need any.
LEMMA GradedBorne ==
    ASSUME TypeOK, NEW p \in Play, NEW d \in Day, NEW e \in Day, NEW noMinutes,
           Outcome(p, d, e, noMinutes) \in Frozen
    PROVE  Borne(p, d, Outcome(p, d, e, noMinutes))
<1> DEFINE play == LevelsOf[p]
           rows == market.bars[p]
           mrows == market.minutes[p]
           bars == Sessions(rows, d, e)
           mins == IF p \in noMinutes THEN [k \in DOMAIN bars |-> <<>>]
                   ELSE Sessions(mrows, d, e)
           v == Outcome(p, d, e, noMinutes)
<1>1. /\ rows \in Seq(Bar) /\ Len(rows) >= MaxDay
      /\ mrows \in Seq(Seq(Bar)) /\ Len(mrows) >= MaxDay
  BY MarketAssumption DEF TypeOK
<1>2. /\ Len(bars) = IF d + 1 <= e - 1 THEN e - 1 - d ELSE 0
      /\ \A k \in 1..Len(bars) : bars[k] = rows[d + k]
  BY <1>1, SessionFacts
<1>3. /\ Len(Sessions(mrows, d, e)) = Len(bars)
      /\ \A k \in 1..Len(bars) : Sessions(mrows, d, e)[k] = mrows[d + k]
  BY <1>1, <1>2, SessionFacts
<1>4. d \in Nat /\ e \in Nat /\ d >= 1 /\ e <= MaxDay /\ MaxDay \in Nat /\ Horizon \in Nat
  BY DayBoundAssumption DEF Day
<1>5. Len(bars) \in Nat /\ d + Len(bars) <= MaxDay
  <2> HIDE DEF bars
  <2>1. QED
    BY <1>2, <1>4 DEF Day
<1>6. DOMAIN bars = 1..Len(bars)
  <2>1. bars = SubSeq(rows, d + 1, e - 1)
    BY DEF Sessions
  <2>2. \A i \in (d+1)..(e-1) : rows[i] \in Bar
    BY <1>1, <1>4
  <2>3. bars \in Seq(Bar)
    BY <1>4, <2>1, <2>2, SubSeqProperties
  <2>4. QED
    BY <2>3
<1>7. \A k \in 1..Len(bars) : \/ mins[k] = <<>>
                              \/ mins[k] = mrows[d + k]
  BY <1>3, <1>6
<1>8. v = Settle(play, bars, mins, Horizon)
  BY DEF Outcome
<1> HIDE DEF rows, mrows, bars, mins, v
<1>9. PICK k \in 1..Len(bars) :
          /\ k <= Horizon /\ DecidedAt(bars, play, k)
          /\ v = "WIN" => SessionWins(bars, mins, play, k)
          /\ v = "LOSS" => HitsStop(bars[k], play)
  <2>1. Settle(play, bars, mins, Horizon) \in Frozen
    BY <1>8 DEF v
  <2>2. QED
    BY <1>4, <1>5, <1>8, <2>1, Decided
<1> DEFINE n == d + k
<1>10. n \in Nat /\ n = d + k
  BY <1>4, <1>5
<1> HIDE DEF n
<1>11. Decides(p, d, n)
  <2>1. \A i \in 1..Len(bars) : bars[i] = market.bars[p][d + i]
    BY <1>2 DEF rows
  <2>2. DecidedAt(bars, LevelsOf[p], k) <=> Decides(p, d, n)
    BY <1>5, <1>9, <1>10, <2>1, Shifted
  <2>3. QED
    BY <1>9, <2>2
<1>12. bars[k] = rows[n] /\ (mins[k] = <<>> \/ mins[k] = mrows[n])
  BY <1>2, <1>7, <1>10
<1>13. ASSUME v = "WIN" PROVE SessionWins(rows, mrows, play, n)
  <2>1. HitsTarget(bars[k], play) /\ (HitsStop(bars[k], play) => MinutesWin(mins[k], play))
    BY <1>9, <1>13 DEF SessionWins
  <2>2. ~ MinutesWin(<<>>, play)
    BY DEF MinutesWin
  <2>3. HitsStop(rows[n], play) => MinutesWin(mrows[n], play)
    BY <1>12, <2>1, <2>2
  <2>4. QED
    BY <1>12, <2>1, <2>3 DEF SessionWins
<1>14. v = "LOSS" => HitsStop(rows[n], play)
  BY <1>9, <1>12
<1>15. n \in (d+1)..MaxDay
  BY <1>11 DEF Decides
<1>16. QED
  BY <1>11, <1>13, <1>14, <1>15 DEF Borne, v, rows, mrows

\* No step changes the prices.
LEMMA MarketStays == TypeOK /\ [Next]_vars => market' = market
<1> SUFFICES ASSUME TypeOK, [Next]_vars PROVE market' = market
  OBVIOUS
<1>1. ASSUME NEW j \in Writer, WriterAct(j) PROVE market' = market
  BY <1>1, WriterEffect DEF clocks
<1>2. CASE SweepAct
  BY <1>2, SweepStarts, SweepGrades, SweepMerges, SweepQuits DEF SweepAct, clocks
<1>3. QED
  BY <1>1, <1>2, Steps DEF UtcMidnight, EtMidnight, vars, clocks

BInv == IInv /\ RecordsBorne /\ PendingBorne

\* Only the sweep brings new verdicts, and it grades by the prices.
LEMMA BorneStep == BInv /\ [Next]_vars => RecordsBorne' /\ PendingBorne'
<1> SUFFICES ASSUME BInv, [Next]_vars PROVE RecordsBorne' /\ PendingBorne'
  OBVIOUS
<1> USE DEF BInv, IInv
<1>0. Settler \in Jobs /\ \A j \in Writer : j \in Jobs /\ j # Settler
  BY Kinds
<1>1. \A d \in Day, p \in Play, v \in Frozen : Borne(p, d, v) => Borne(p, d, v)'
  <2>1. market' = market
    BY MarketStays
  <2>2. QED
    BY <2>1 DEF Borne, Decides
<1>2. ASSUME \A d \in Day, p \in Play, v \in Frozen : doc'[d].verdict[p] = v => Borne(p, d, v)
      PROVE  RecordsBorne'
  BY <1>1, <1>2 DEF RecordsBorne
<1>3. ASSUME doc' = doc PROVE RecordsBorne'
  BY <1>1, <1>3 DEF RecordsBorne
<1>4. ASSUME pc'[Settler] \notin {"merge", "put"} PROVE PendingBorne'
  BY <1>4 DEF PendingBorne
<1>5. ASSUME NEW j \in Writer, WriterAct(j) PROVE RecordsBorne' /\ PendingBorne'
  <2>1. /\ pc'[Settler] = pc[Settler] /\ job'[Settler] = job[Settler]
        /\ \A d \in Day : doc'[d] = doc[d] \/ doc'[d].verdict = job[j].base.verdict
    BY <1>0, <1>5, WriterEffect
  <2>2. \A d \in Day, p \in Play, v \in Frozen :
           doc'[d].verdict[p] = v => doc[d].verdict[p] = v
    BY <2>1 DEF NoneYet, NoVerdict, Frozen
  <2>3. RecordsBorne'
    BY <1>2, <2>2 DEF RecordsBorne
  <2>4. PendingBorne'
    BY <1>1, <2>1 DEF PendingBorne
  <2>5. QED
    BY <2>3, <2>4
<1>6. CASE SettleStart(Settler)
  BY <1>3, <1>4, <1>6, SweepStarts
<1>7. CASE SweepDay(Settler)
  <2>1. doc' = doc /\ pc'[Settler] # "put"
    BY <1>7, SweepGrades
  <2>2. ASSUME NEW p \in Play, NEW v \in Frozen, NEW d \in Day,
               pc'[Settler] = "merge", job'[Settler].day = d, job'[Settler].outs[p] = v
        PROVE  Borne(p, d, v)
    <3>1. v # "none"
      BY DEF Frozen
    <3>2. PICK noMinutes : v = Outcome(p, job'[Settler].day, job[Settler].today, noMinutes)
      BY <1>7, <2>2, <3>1, SweepGrades
    <3>3. PICK e \in Day : e = job[Settler].today
      BY SweepJobType
    <3>4. v = Outcome(p, d, e, noMinutes)
      BY <2>2, <3>2, <3>3
    <3>5. QED
      BY <3>4, GradedBorne
  <2>3. PendingBorne'
    BY <1>1, <2>1, <2>2 DEF PendingBorne
  <2>4. QED
    BY <1>3, <2>1, <2>3
<1>8. CASE Merge(Settler)
  <2>1. /\ doc' = doc
        /\ pc[Settler] = "merge" /\ pc'[Settler] = "put"
        /\ job'[Settler].day = job[Settler].day
        /\ \A p \in Play :
              \/ job'[Settler].base.verdict[p] = doc[job[Settler].day].verdict[p]
              \/ job'[Settler].base.verdict[p] = job[Settler].outs[p]
    BY <1>8, SweepMerges
  <2>2. ASSUME NEW d \in Day, NEW p \in Play, NEW v \in Frozen,
               job[Settler].day = d, job'[Settler].base.verdict[p] = v
        PROVE  Borne(p, d, v)
    BY <2>1, <2>2 DEF PendingBorne, RecordsBorne
  <2>3. PendingBorne'
    BY <1>1, <2>1, <2>2 DEF PendingBorne
  <2>4. QED
    BY <1>3, <2>1, <2>3
<1>9. CASE Put(Settler) \/ SaveFails(Settler) \/ Crash(Settler)
  <2>1. /\ pc'[Settler] \in {"idle", "sweep"}
        /\ \/ doc' = doc
           \/ /\ pc[Settler] = "put"
              /\ doc' = [doc EXCEPT ![job[Settler].day] = job[Settler].base]
    BY <1>9, SweepQuits
  <2>2. PendingBorne'
    BY <1>4, <2>1
  <2>3. CASE pc[Settler] = "put" /\ doc' = [doc EXCEPT ![job[Settler].day] = job[Settler].base]
    <3>1. \A d \in Day : \/ doc'[d] = doc[d]
                         \/ d = job[Settler].day /\ doc'[d] = job[Settler].base
      BY <2>3 DEF TypeOK
    <3>2. \A d \in Day, p \in Play, v \in Frozen : doc'[d].verdict[p] = v => Borne(p, d, v)
      BY <2>3, <3>1 DEF PendingBorne, RecordsBorne
    <3>3. QED
      BY <1>2, <2>2, <3>2
  <2>4. QED
    BY <1>3, <2>1, <2>2, <2>3
<1>10. CASE UtcMidnight \/ EtMidnight \/ UNCHANGED vars
  <2>1. UNCHANGED <<doc, pc, job>>
    BY <1>10 DEF UtcMidnight, EtMidnight, vars
  <2>2. PendingBorne'
    BY <1>1, <2>1 DEF PendingBorne
  <2>3. QED
    BY <1>3, <2>1, <2>2
<1>11. QED
  BY <1>5, <1>6, <1>7, <1>8, <1>9, <1>10, Steps DEF SweepAct

\* The bars of a replay, by their day: none before the day after the play's, and
\* all of the horizon that the behaviour has.
LEMMA SpanFacts ==
    ASSUME NEW S, NEW rows \in Seq(S), Len(rows) >= MaxDay, NEW d \in Day
    PROVE  LET w == Span(rows, d)
           IN  /\ Len(w) \in Nat /\ DOMAIN w = 1..Len(w) /\ d + Len(w) <= MaxDay
               /\ \A n \in (d+1)..MaxDay : n - d <= Horizon => n - d \in 1..Len(w)
               /\ \A k \in 1..Len(w) : w[k] = rows[d + k]
<1> DEFINE last == d + 2 * Horizon + 7
           a == d + 1
           b == IF last < MaxDay THEN last ELSE MaxDay
<1>1. d \in Nat /\ d <= MaxDay /\ d >= 1 /\ MaxDay \in Nat /\ Horizon \in Nat
  BY DayBoundAssumption DEF Day
<1>2. /\ b \in Nat /\ d <= b /\ b <= MaxDay /\ a \in Nat /\ a = d + 1
      /\ \A n \in (d+1)..MaxDay : n - d <= Horizon => n <= b
  BY <1>1
<1>3. Span(rows, d) = SubSeq(rows, a, b)
  BY DEF Span
<1> HIDE DEF last, a, b
<1>4. \A i \in a..b : rows[i] \in S
  BY <1>1, <1>2
<1>5. /\ Len(SubSeq(rows, a, b)) = IF a <= b THEN b - a + 1 ELSE 0
      /\ \A i \in 1..(b - a + 1) : SubSeq(rows, a, b)[i] = rows[a + i - 1]
      /\ SubSeq(rows, a, b) \in Seq(S)
  BY <1>2, <1>4, SubSeqProperties
<1>11. DOMAIN SubSeq(rows, a, b) = 1..Len(SubSeq(rows, a, b))
  BY <1>5
<1>6. Len(SubSeq(rows, a, b)) = b - d
  BY <1>1, <1>2, <1>5
<1>7. ASSUME NEW k \in 1..(b - d) PROVE SubSeq(rows, a, b)[k] = rows[d + k]
  <2>1. k \in 1..(b - a + 1) /\ a + k - 1 = d + k
    BY <1>1, <1>2
  <2>2. QED
    BY <1>5, <2>1
<1>8. \A n \in (d+1)..MaxDay : n - d <= Horizon => n - d \in 1..(b - d)
  BY <1>1, <1>2
<1>9. b - d \in Nat /\ d + (b - d) <= MaxDay
  BY <1>1, <1>2
<1>10. QED
  BY <1>3, <1>6, <1>7, <1>8, <1>9, <1>11

\* The replay has every session of the horizon: it decides where the prices decide, for
\* want of minutes against the play.
LEMMA ReplayedAt ==
    ASSUME TypeOK, NEW r, NEW d \in Day, NEW p \in Play, r[1] = d, r[2] = p,
           NEW n, Decides(p, d, n), NEW gap \in {"nothing", "minutes"}
    PROVE  Replayed(r, gap) =
               IF /\ HitsTarget(market.bars[p][n], LevelsOf[p])
                  /\ HitsStop(market.bars[p][n], LevelsOf[p])
                        => gap = "nothing" /\ MinutesWin(market.minutes[p][n], LevelsOf[p])
               THEN "WIN" ELSE "LOSS"
<1> DEFINE play == LevelsOf[p]
           rows == market.bars[p]
           mrows == market.minutes[p]
           bars == Span(rows, d)
           spanned == Span(mrows, d)
           mins == IF gap = "minutes" THEN [i \in DOMAIN bars |-> <<>>] ELSE spanned
           k == n - d
           won == /\ HitsTarget(rows[n], play)
                  /\ HitsStop(rows[n], play) => gap = "nothing" /\ MinutesWin(mrows[n], play)
<1>1. /\ rows \in Seq(Bar) /\ Len(rows) >= MaxDay
      /\ mrows \in Seq(Seq(Bar)) /\ Len(mrows) >= MaxDay
  BY MarketAssumption DEF TypeOK
<1>2. /\ Len(bars) \in Nat /\ d + Len(bars) <= MaxDay
      /\ \A i \in (d+1)..MaxDay : i - d <= Horizon => i - d \in 1..Len(bars)
      /\ \A i \in 1..Len(bars) : bars[i] = rows[d + i]
  BY <1>1, SpanFacts
<1>3. /\ \A i \in (d+1)..MaxDay : i - d <= Horizon => i - d \in 1..Len(spanned)
      /\ \A i \in 1..Len(spanned) : spanned[i] = mrows[d + i]
  BY <1>1, SpanFacts
<1>4. d \in Nat /\ MaxDay \in Nat /\ Horizon \in Nat
  BY DayBoundAssumption DEF Day
<1>5. n \in (d+1)..MaxDay /\ n - d <= Horizon
  BY DEF Decides
<1>6. n \in Nat /\ k \in Nat /\ n = d + k /\ k <= Horizon
  BY <1>4, <1>5
<1>7. k \in 1..Len(bars) /\ k \in 1..Len(spanned)
  BY <1>2, <1>3, <1>5
<1>8. bars # <<>>
  BY <1>7
<1>9. Replayed(r, gap) = Settle(play, bars, mins, Horizon)
  BY <1>8 DEF Replayed
<1>10. DOMAIN bars = 1..Len(bars)
  BY <1>1, SpanFacts
<1>11. MinutesWin(mins[k], play) <=> gap = "nothing" /\ MinutesWin(mrows[n], play)
  <2>1. CASE gap = "nothing"
    <3>1. mins = spanned
      BY <2>1
    <3> HIDE DEF mins, spanned
    <3>2. mins[k] = mrows[n]
      BY <1>3, <1>6, <1>7, <3>1
    <3>3. QED
      BY <2>1, <3>2
  <2>2. CASE gap = "minutes"
    <3>1. mins = [i \in 1..Len(bars) |-> <<>>]
      BY <1>10, <2>2
    <3> HIDE DEF mins, bars
    <3>2. mins[k] = <<>>
      BY <1>7, <3>1
    <3>3. ~ MinutesWin(<<>>, play)
      BY DEF MinutesWin
    <3>4. QED
      BY <2>2, <3>2, <3>3
  <2>3. QED
    BY <2>1, <2>2
<1> HIDE DEF bars, mins, spanned, k, rows, mrows
<1>12. bars[k] = rows[n]
  BY <1>2, <1>6, <1>7
<1>13. DecidedAt(bars, play, k)
  <2>1. \A i \in 1..Len(bars) : bars[i] = market.bars[p][d + i]
    BY <1>2 DEF rows
  <2>2. DecidedAt(bars, LevelsOf[p], k) <=> Decides(p, d, n)
    BY <1>2, <1>6, <1>7, <2>1, Shifted
  <2>3. QED
    BY <2>2
<1>14. SessionWins(bars, mins, play, k) <=> won
  BY <1>11, <1>12 DEF SessionWins
<1>15. Considered(bars, Horizon, k) /\ Touches(bars[k], play)
  BY <1>6, <1>7, <1>13 DEF Considered, DecidedAt
<1>16. ASSUME NEW i \in 1..Len(bars), DecidedAt(bars, play, i) PROVE i = k
  <2>1. ~ (k \in 1..(i-1)) /\ ~ (i \in 1..(k-1))
    BY <1>13, <1>15, <1>16 DEF DecidedAt
  <2>2. QED
    BY <1>2, <1>6, <1>7, <2>1
<1> HIDE DEF won
<1>17. CASE won
  <2>1. Settle(play, bars, mins, Horizon) = "WIN"
    BY <1>7, <1>13, <1>14, <1>15, <1>17 DEF Settle
  <2>2. QED
    BY <1>9, <1>17, <2>1 DEF won, rows, mrows
<1>18. CASE ~ won
  <2>1. ~ \E i \in 1..Len(bars) :
             /\ Considered(bars, Horizon, i)
             /\ DecidedAt(bars, play, i)
             /\ SessionWins(bars, mins, play, i)
    BY <1>14, <1>16, <1>18
  <2>2. Settle(play, bars, mins, Horizon) = "LOSS"
    BY <1>7, <1>15, <2>1 DEF Settle
  <2>3. QED
    BY <1>9, <1>18, <2>2 DEF won, rows, mrows
<1>19. QED
  BY <1>17, <1>18

\* One record: what is final is final in a replay that has it; a win is a win there,
\* unless its minutes had to decide and are missing; and a win of the replay that was
\* recorded as a loss had both levels in one session.
LEMMA RecordFacts ==
    ASSUME TypeOK, RecordsBorne, NEW r \in Day \X Play, NEW gap \in Gap
    PROVE  /\ Recorded(r) \in Frozen => Replayed(r, gap) \in Frozen \/ gap = "record"
           /\ Recorded(r) = "WIN" => \/ Replayed(r, gap) = "WIN" \/ gap = "record"
                                     \/ gap = "minutes" /\ Ambiguous(r)
           /\ Replayed(r, gap) = "WIN" =>
                 Recorded(r) = "WIN" \/ Recorded(r) \notin Frozen \/ Ambiguous(r)
<1>1. PICK d \in Day, p \in Play : r = <<d, p>>
  OBVIOUS
<1>2. r[1] = d /\ r[2] = p
  BY <1>1
<1> DEFINE v == doc[d].verdict[p]
<1>3. Recorded(r) = v
  BY <1>2 DEF Recorded
<1>4. gap = "record" => Replayed(r, gap) = "none"
  BY DEF Replayed
<1> HIDE DEF v
<1>5. CASE gap = "record"
  BY <1>4, <1>5 DEF Frozen
<1>6. CASE v \notin Frozen
  BY <1>3, <1>6 DEF Frozen
<1>7. CASE v \in Frozen /\ gap # "record"
  <2>1. Borne(p, d, v)
    BY <1>7 DEF RecordsBorne, v
  <2> DEFINE won(n) == SessionWins(market.bars[p], market.minutes[p], LevelsOf[p], n)
             target(n) == HitsTarget(market.bars[p][n], LevelsOf[p])
             stop(n) == HitsStop(market.bars[p][n], LevelsOf[p])
             minutes(n) == MinutesWin(market.minutes[p][n], LevelsOf[p])
  <2>2. PICK n \in (d+1)..MaxDay :
           /\ Decides(p, d, n)
           /\ v = "WIN" => won(n)
           /\ v = "LOSS" => stop(n)
    BY <2>1 DEF Borne
  <2>3. gap \in {"nothing", "minutes"}
    BY <1>7 DEF Gap
  <2>4. Replayed(r, gap) =
           IF target(n) /\ (stop(n) => gap = "nothing" /\ minutes(n)) THEN "WIN" ELSE "LOSS"
    BY <1>2, <2>2, <2>3, ReplayedAt
  <2>5. won(n) <=> target(n) /\ (stop(n) => minutes(n))
    BY DEF SessionWins
  <2>6. target(n) /\ stop(n) => Ambiguous(r)
    <3>1. n <= d + Horizon
      <4>1. n - d <= Horizon
        BY <2>2 DEF Decides
      <4>2. QED
        BY <4>1, DayBoundAssumption DEF Day
    <3>2. QED
      BY <1>2, <2>2, <3>1 DEF Ambiguous
  <2> HIDE DEF won, target, stop, minutes
  <2>7. v = "WIN" \/ v = "LOSS"
    BY <1>7 DEF Frozen
  <2>8. Replayed(r, gap) \in Frozen
    BY <2>4 DEF Frozen
  <2>9. v = "WIN" => Replayed(r, gap) = "WIN" \/ (gap = "minutes" /\ Ambiguous(r))
    <3> SUFFICES ASSUME v = "WIN" PROVE Replayed(r, gap) = "WIN" \/ (gap = "minutes" /\ Ambiguous(r))
      OBVIOUS
    <3>1. target(n) /\ (stop(n) => minutes(n))
      BY <2>2, <2>5
    <3>2. CASE gap = "nothing" \/ ~ stop(n)
      <4>1. target(n) /\ (stop(n) => gap = "nothing" /\ minutes(n))
        BY <3>1, <3>2, <2>3
      <4>2. Replayed(r, gap) = "WIN"
        BY <2>4, <4>1, Zenon
      <4>3. QED
        BY <4>2
    <3>3. CASE gap = "minutes" /\ stop(n)
      BY <2>6, <3>1, <3>3
    <3>4. QED
      BY <2>3, <3>2, <3>3
  <2>10. Replayed(r, gap) = "WIN" => v = "WIN" \/ Ambiguous(r)
    BY <2>2, <2>4, <2>6, <2>7
  <2>11. QED
    BY <1>3, <2>8, <2>9, <2>10
<1>8. QED
  BY <1>5, <1>6, <1>7

\* Graded plays are as many as the records they are of.
LEMMA Keyed ==
    ASSUME NEW G, NEW K, IsFiniteSet(K), K = {g[1] : g \in G},
           \A g, h \in G : g[1] = h[1] => g = h
    PROVE  Cardinality(G) = Cardinality(K)
<1> DEFINE key == [g \in G |-> g[1]]
<1>1. key \in [G -> K] /\ \A g, h \in G : key[g] = key[h] => g = h
  OBVIOUS
<1>2. \A k \in K : \E g \in G : key[g] = k
  OBVIOUS
<1> HIDE DEF key
<1>3. key \in Injection(G, K)
  BY <1>1 DEF Injection, IsInjective
<1>4. key \in Surjection(G, K)
  BY <1>1, <1>2 DEF Surjection
<1>5. QED
  BY <1>3, <1>4, FS_Injection

\* A set within the union of two has at most the elements of both.
LEMMA Covered ==
    ASSUME NEW A, NEW B, NEW C, IsFiniteSet(B), IsFiniteSet(C), A \subseteq B \cup C
    PROVE  Cardinality(A) <= Cardinality(B) + Cardinality(C)
<1>1. IsFiniteSet(B \cup C) /\ IsFiniteSet(B \cap C)
  BY FS_Union, FS_Subset
<1>2. Cardinality(B \cup C) = Cardinality(B) + Cardinality(C) - Cardinality(B \cap C)
  BY FS_Union
<1>3. IsFiniteSet(A) /\ Cardinality(A) <= Cardinality(B \cup C)
  BY <1>1, FS_Subset
<1>4. /\ Cardinality(A) \in Nat /\ Cardinality(B) \in Nat /\ Cardinality(C) \in Nat
      /\ Cardinality(B \cap C) \in Nat /\ Cardinality(B \cup C) \in Nat
  BY <1>1, <1>3, FS_CardinalityType
<1>5. QED
  BY <1>2, <1>3, <1>4

\* The plays that are counted are finitely many.
LEMMA RecordsFinite == IsFiniteSet(Day \X Play) /\ Records \subseteq Day \X Play
<1>1. IsFiniteSet(Day)
  <2>1. 1 \in Int /\ MaxDay \in Int
    BY DayBoundAssumption
  <2>2. QED
    BY <2>1, FS_Interval DEF Day
<1>2. IsFiniteSet(Day \X Play)
  BY <1>1, PlayAssumption, FS_Product
<1>3. QED
  BY <1>2 DEF Records, ReportDays, Listed

\* In every tier, for every scout and every day, and whatever a replay lacks: the live
\* counts of settled plays and of wins exceed the replay's by no more than the plays it has
\* no record of and those it decided without their minutes, and a win they miss is of a
\* play still to be settled or of a session that spanned both levels (calibration.py:82).
THEOREM CalibrationHolds == Spec => []CalibrationUnderstates
<1>1. TypeOK /\ RecordsBorne => CalibrationUnderstates
  <2> SUFFICES ASSUME TypeOK, RecordsBorne PROVE CalibrationUnderstates
    OBVIOUS
  <2> DEFINE recorded == {<<r, Recorded(r)>> : r \in Records}
             replayed == {<<r, Replayed(r, gap), gap>> : r \in Records, gap \in Gap}
  <2>1. ASSUME NEW part \in SUBSET Records, NEW gaps \in [part -> Gap]
        PROVE  Explained(part, gaps, recorded, replayed)
    <3> DEFINE mine == {g \in recorded : g[1] \in part}
               theirs == {g \in replayed : g[1] \in part /\ g[3] = gaps[g[1]]}
               absent == {r \in part : gaps[r] = "record"}
               blind  == {r \in part : gaps[r] = "minutes" /\ Ambiguous(r)}
               unsure == {r \in part : Recorded(r) \notin Frozen \/ Ambiguous(r)}
               liveOf(S) == {r \in part : Recorded(r) \in S}
               replayOf(S) == {r \in part : Replayed(r, gaps[r]) \in S}
    <3>1. part \subseteq Records /\ part \subseteq Day \X Play
      BY RecordsFinite
    <3>2. \A S : IsFiniteSet(liveOf(S)) /\ IsFiniteSet(replayOf(S))
      BY <3>1, RecordsFinite, FS_Subset
    <3>3. IsFiniteSet(absent) /\ IsFiniteSet(absent \cup blind) /\ IsFiniteSet(unsure)
      BY <3>1, RecordsFinite, FS_Subset
    <3>4. ASSUME NEW S PROVE Cardinality({g \in mine : g[2] \in S}) = Cardinality(liveOf(S))
      <4> DEFINE G == {g \in mine : g[2] \in S}
      <4>1. \A g \in G : g[1] \in liveOf(S) /\ g = <<g[1], Recorded(g[1])>>
        OBVIOUS
      <4>2. \A r \in liveOf(S) : <<r, Recorded(r)>> \in G
        BY <3>1
      <4> HIDE DEF G, liveOf
      <4>3. \A g, h \in G : g[1] = h[1] => g = h
        BY <4>1
      <4>4. liveOf(S) = {g[1] : g \in G}
        BY <4>1, <4>2
      <4>5. Cardinality(G) = Cardinality(liveOf(S))
        BY <3>2, <4>3, <4>4, Keyed
      <4>6. QED
        BY <4>5 DEF G
    <3>5. ASSUME NEW S PROVE Cardinality({g \in theirs : g[2] \in S}) = Cardinality(replayOf(S))
      <4> DEFINE G == {g \in theirs : g[2] \in S}
      <4>1. \A g \in G : /\ g[1] \in replayOf(S)
                         /\ g = <<g[1], Replayed(g[1], gaps[g[1]]), gaps[g[1]]>>
        OBVIOUS
      <4>2. \A r \in replayOf(S) : <<r, Replayed(r, gaps[r]), gaps[r]>> \in G
        BY <3>1
      <4> HIDE DEF G, replayOf
      <4>3. \A g, h \in G : g[1] = h[1] => g = h
        BY <4>1
      <4>4. replayOf(S) = {g[1] : g \in G}
        BY <4>1, <4>2
      <4>5. Cardinality(G) = Cardinality(replayOf(S))
        BY <3>2, <4>3, <4>4, Keyed
      <4>6. QED
        BY <4>5 DEF G
    <3> HIDE DEF mine, theirs
    <3>6. /\ Tally(mine).settled = Cardinality(liveOf(Frozen))
          /\ Tally(mine).wins = Cardinality(liveOf({"WIN"}))
      BY <3>4 DEF Tally
    <3>7. /\ Tally(theirs).settled = Cardinality(replayOf(Frozen))
          /\ Tally(theirs).wins = Cardinality(replayOf({"WIN"}))
      BY <3>5 DEF Tally
    <3>8. /\ liveOf(Frozen) \subseteq replayOf(Frozen) \cup absent
          /\ liveOf({"WIN"}) \subseteq replayOf({"WIN"}) \cup (absent \cup blind)
          /\ replayOf({"WIN"}) \subseteq liveOf({"WIN"}) \cup unsure
      BY <3>1, RecordFacts
    <3> HIDE DEF liveOf, replayOf, absent, blind, unsure
    <3>9. Tally(mine).settled <= Tally(theirs).settled + Cardinality(absent)
      BY <3>2, <3>3, <3>6, <3>7, <3>8, Covered
    <3>10. Tally(mine).wins <= Tally(theirs).wins + Cardinality(absent \cup blind)
      BY <3>2, <3>3, <3>6, <3>7, <3>8, Covered
    <3>11. Tally(theirs).wins <= Tally(mine).wins + Cardinality(unsure)
      BY <3>2, <3>3, <3>6, <3>7, <3>8, Covered
    <3>12. QED
      BY <3>9, <3>10, <3>11 DEF mine, theirs, absent, blind, unsure, Explained
  <2>2. QED
    BY <2>1 DEF CalibrationUnderstates
<1>2. Init => RecordsBorne /\ PendingBorne
  BY Kinds DEF Init, RecordsBorne, PendingBorne, EmptyDay, NoVerdict, Frozen
<1>3. IInv /\ IInv' /\ RecordsBorne /\ PendingBorne /\ [Next]_vars
         => RecordsBorne' /\ PendingBorne'
  BY BorneStep DEF BInv
<1>4. IInv => TypeOK
  BY DEF IInv
<1>5. QED
  BY <1>1, <1>2, <1>3, <1>4, Inductive, PTL DEF Spec
=============================================================================
