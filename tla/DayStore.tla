------------------------------ MODULE DayStore ------------------------------
(***************************************************************************)
(* The shared day document of the scouts: one JSON object per calendar day *)
(* in a bucket, {plays, fired}, each play with an optional outcome         *)
(* (src/entry_alerts/store.py).                                            *)
(*                                                                         *)
(* Three kinds of scheduled job touch it, each execution in a container of *)
(* its own: a scout merges the day's plays in (save_plays), the entry      *)
(* alerter marks plays as fired and mails them (alerter.run_cycle), the    *)
(* settlement sweep writes outcomes into past days (run_settlement).       *)
(* Every one of them loads the whole object, changes it in memory and      *)
(* uploads the whole object; nothing locks it and the upload has no        *)
(* generation check.  A failed read or upload falls back to a local file,  *)
(* which in a container starts empty and goes with it.                     *)
(*                                                                         *)
(* The scouts and the alerter name the day by the UTC date, the sweep by   *)
(* the New York date, which changes some hours later.                      *)
(***************************************************************************)
EXTENDS Settlement, FiniteSets

CONSTANTS
    Play,       \* play ids without their date part
    Scouts,     \* options-scout and smallcap-scout executions
    Alerters,   \* entry-alerts executions
    Settler,    \* the scout-settlement execution: one at a time
    Writes,     \* the plays a scout may find
    LevelsOf,   \* the levels of a play
    Markets,    \* what prices may do: bars and minute bars by play and day
    Horizon,    \* settlement horizon in sessions
    Lookback,   \* how many report days a sweep lists
    MaxDay,     \* bound: days of a behaviour
    MaxStarts,  \* bound: executions of scouts and alerters
    MaxFaults   \* bound: failed reads and uploads, containers that die

Day    == 1..MaxDay
Writer == Scouts \cup Alerters
Jobs   == Writer \cup {Settler}

ASSUME JobAssumption ==
    /\ IsFiniteSet(Alerters)
    /\ Scouts \cap Alerters = {} /\ Settler \notin Writer
ASSUME PlayAssumption ==
    /\ IsFiniteSet(Play)
    /\ Writes \in [Scouts -> SUBSET Play]
    /\ LevelsOf \in [Play -> Levels]
ASSUME MarketAssumption ==
    \A m \in Markets : \A p \in Play :
        /\ m.bars[p]    \in Seq(Bar)      /\ Len(m.bars[p])    >= MaxDay
        /\ m.minutes[p] \in Seq(Seq(Bar)) /\ Len(m.minutes[p]) >= MaxDay
ASSUME DayBoundAssumption ==
    /\ MaxDay \in Nat \ {0}
    /\ {Horizon, Lookback, MaxStarts, MaxFaults} \subseteq Nat

\* The document of a day; one that is not there yet is empty.
Doc == [plays : SUBSET Play, fired : SUBSET Play,
        verdict : [Play -> Verdicts \cup {"none"}]]

NoVerdict == [p \in Play |-> "none"]

EmptyDay == [plays |-> {}, fired |-> {}, verdict |-> NoVerdict]

\* What an execution holds in memory.
Job == [day  : Day,
        ids  : SUBSET Play,     \* plays found, or plays newly hit
        base : Doc,             \* the document it loaded
        today : Day,            \* of a sweep: the New York date it started on
        todo : SUBSET Day,      \* of a sweep: days left
        outs : [Play -> Verdicts \cup {"none"}]]

NoJob == [day |-> 1, ids |-> {}, base |-> EmptyDay, today |-> 1,
          todo |-> {}, outs |-> NoVerdict]

VARIABLES
    doc,        \* the bucket: the document of each day
    utc, et,    \* the date in UTC and in New York
    market,     \* prices, fixed for a behaviour
    pc, job,
    starts, faults,
    alerted,    \* history: alert mails sent, by day and play
    disturbed   \* history: by day, uploads that carried an old fired set and
                \* marks that never reached the bucket

clocks == <<utc, et, market>>
bounds == <<starts, faults>>
hist   == <<alerted, disturbed>>
vars   == <<doc, clocks, pc, job, bounds, hist>>

PcOf(j) == IF j \in Scouts THEN {"idle", "load", "write"}
           ELSE IF j \in Alerters THEN {"idle", "load", "write", "send"}
           ELSE {"idle", "sweep", "merge", "put"}

\* Types of the variables, and the steps each kind of job has.
TypeOK ==
    /\ doc \in [Day -> Doc]
    /\ utc \in Day /\ et \in Day
    /\ market \in Markets
    /\ pc \in [Jobs -> {"idle", "load", "write", "send", "sweep", "merge", "put"}]
    /\ \A j \in Jobs : pc[j] \in PcOf(j)
    /\ job \in [Jobs -> Job]
    /\ starts \in Nat /\ faults \in Nat
    /\ alerted \in [Day -> [Play -> Nat]]
    /\ disturbed \in [Day -> Nat]

Init ==
    /\ doc = [d \in Day |-> EmptyDay]
    /\ utc = 1 /\ et = 1
    /\ market \in Markets
    /\ pc = [j \in Jobs |-> "idle"]
    /\ job = [j \in Jobs |-> NoJob]
    /\ starts = 0 /\ faults = 0
    /\ alerted = [d \in Day |-> [p \in Play |-> 0]]
    /\ disturbed = [d \in Day |-> 0]

-----------------------------------------------------------------------------
(***************************************************************************)
(* The store.                                                              *)
(***************************************************************************)

\* DayState.from_json knows no outcome field: whoever loads the document this
\* way and writes it back has dropped the outcomes.
AsDayState(d) == [d EXCEPT !.verdict = NoVerdict]

Fault == faults < MaxFaults /\ faults' = faults + 1

\* load_day: the object, or on any error the local file, which is not there.
LoadDay(day, base) ==
    \/ base = AsDayState(doc[day]) /\ UNCHANGED faults
    \/ base = EmptyDay /\ Fault

\* Broken variant: the day's plays replace the document.
SavePlaysAfresh(base, ids) == [EmptyDay EXCEPT !.plays = base.plays \cup ids]

SavePlays(base, ids) == [base EXCEPT !.plays = @ \cup ids]

MarkFired(base, ids) == [base EXCEPT !.fired = @ \cup ids]

Begin(j, at, fresh) ==
    /\ pc'  = [pc EXCEPT ![j] = at]
    /\ job' = [job EXCEPT ![j] = fresh]

End(j) == Begin(j, "idle", NoJob)

-----------------------------------------------------------------------------
(***************************************************************************)
(* Scouts and alerter.                                                     *)
(***************************************************************************)

\* A scout has ranked its plays, for the UTC date it started on.  It saves
\* them in a dry run as well.
ScoutStart(s) ==
    /\ pc[s] = "idle" /\ starts < MaxStarts
    /\ starts' = starts + 1
    /\ \E ids \in SUBSET Writes[s] :
          /\ ids # {}
          /\ Begin(s, "load", [NoJob EXCEPT !.day = utc, !.ids = ids])
    /\ UNCHANGED <<doc, clocks, faults, hist>>

\* A poll cycle: load the day, fetch prices, collect the plays newly hit.  One
\* that hits nothing ends here.  The market-hours guard can be forced.
AlertStart(a) ==
    /\ pc[a] = "idle" /\ starts < MaxStarts
    /\ starts' = starts + 1
    /\ \E base \in {AsDayState(doc[utc]), EmptyDay} :
          /\ LoadDay(utc, base)
          /\ \E ids \in SUBSET (base.plays \ base.fired) :
                /\ ids # {}
                /\ Begin(a, "load", [NoJob EXCEPT !.day = utc, !.ids = ids])
    /\ UNCHANGED <<doc, clocks, hist>>

\* save_plays and mark_fired: load the document again.
Load(j) ==
    /\ j \in Writer /\ pc[j] = "load"
    /\ \E base \in {AsDayState(doc[job[j].day]), EmptyDay} :
          /\ LoadDay(job[j].day, base)
          /\ Begin(j, "write", [job[j] EXCEPT !.base = base])
    /\ UNCHANGED <<doc, clocks, starts, hist>>

\* Broken variant: a scout mails the plays it saved as if they were hits.
AfterWriteSend(j) == Begin(j, "send", [job[j] EXCEPT !.base = EmptyDay])

\* A scout is done with the store, the alerter sends its mail.
AfterWrite(j) ==
    IF j \in Scouts THEN End(j)
    ELSE Begin(j, "send", [job[j] EXCEPT !.base = EmptyDay])

\* The upload replaces the object, whatever it has become since the load.
Write(j) ==
    /\ j \in Writer /\ pc[j] = "write"
    /\ LET d    == job[j].day
           base == job[j].base
       IN  /\ doc' = [doc EXCEPT ![d] = IF j \in Scouts THEN SavePlays(base, job[j].ids)
                                        ELSE MarkFired(base, job[j].ids)]
           /\ disturbed' = [disturbed EXCEPT ![d] =
                               IF base.fired # doc[d].fired THEN @ + 1 ELSE @]
    /\ AfterWrite(j)
    /\ UNCHANGED <<clocks, bounds, alerted>>

\* The upload fails: the local file is written instead and no one notices.
WriteLocal(j) ==
    /\ j \in Writer /\ pc[j] = "write"
    /\ Fault
    /\ disturbed' = [disturbed EXCEPT ![job[j].day] = @ + 1]
    /\ AfterWrite(j)
    /\ UNCHANGED <<doc, clocks, starts, alerted>>

\* One mail for all of them.
Send(a) ==
    /\ a \in Alerters /\ pc[a] = "send"
    /\ alerted' = [alerted EXCEPT ![job[a].day] =
                      [p \in Play |-> IF p \in job[a].ids THEN @[p] + 1 ELSE @[p]]]
    /\ End(a)
    /\ UNCHANGED <<doc, clocks, bounds, disturbed>>

\* No password, or SMTP raises: the execution fails, the marks stay.
SendFails(a) ==
    /\ a \in Alerters /\ pc[a] = "send"
    /\ End(a)
    /\ UNCHANGED <<doc, clocks, bounds, hist>>

-----------------------------------------------------------------------------
(***************************************************************************)
(* The settlement sweep.                                                   *)
(***************************************************************************)

Listed == {d \in Day : doc[d] # EmptyDay}

\* list_report_days: the newest `limit' days that have a document.
ReportDays(limit) ==
    {d \in Listed : Cardinality({e \in Listed : e > d}) < limit}

\* Broken variant: the job runs after the close, so the present day counts as
\* complete, and it is told by UTC.
SettleStartUtc(t) ==
    /\ pc[t] = "idle"
    /\ LET todo == {d \in ReportDays(Lookback) : d <= utc}
       IN  todo # {} /\ Begin(t, "sweep", [NoJob EXCEPT !.today = utc + 1, !.todo = todo])
    /\ UNCHANGED <<doc, clocks, bounds, hist>>

\* Only days strictly before the New York date.
SettleStart(t) ==
    /\ pc[t] = "idle"
    /\ LET todo == {d \in ReportDays(Lookback) : d < et}
       IN  todo # {} /\ Begin(t, "sweep", [NoJob EXCEPT !.today = et, !.todo = todo])
    /\ UNCHANGED <<doc, clocks, bounds, hist>>

\* Broken variant: the sessions start with the day of the play itself.
SessionsFromPlayDay(rows, day, today) == SubSeq(rows, day, today - 1)

\* The sessions after the play's day that are complete by yesterday.
Sessions(rows, day, today) == SubSeq(rows, day + 1, today - 1)

\* Minute bars are fetched for an ambiguous session; when that fails (p is in
\* noMinutes) the session is graded as if it had none.
Outcome(p, day, today, noMinutes) ==
    LET bars == Sessions(market.bars[p], day, today)
        mins == IF p \in noMinutes THEN [k \in DOMAIN bars |-> <<>>]
                ELSE Sessions(market.minutes[p], day, today)
    IN  Settle(LevelsOf[p], bars, mins, Horizon)

\* The sweep is through with the day of `at': it goes on to the next, or ends.
Onward(t, at) ==
    LET rest == at.todo \ {at.day}
    IN  IF rest = {} THEN End(t)
        ELSE Begin(t, "sweep", [NoJob EXCEPT !.today = at.today, !.todo = rest])

\* Broken variant: plays that are final are settled again.
UnsettledAll(raw) == raw.plays

Unsettled(raw) == {p \in raw.plays : raw.verdict[p] \notin Frozen}

\* The newest day left: read its records, pass over those that are final and
\* those whose bars cannot be had, settle the others (`got').  A day without a
\* completed session yet, or with nothing to settle, is passed over.
SweepDay(t) ==
    /\ pc[t] = "sweep"
    /\ \E d \in job[t].todo :
          /\ \A e \in job[t].todo : e <= d
          /\ LET here == [job[t] EXCEPT !.day = d]
             IN  \/ Onward(t, here)
                \/ /\ d + 1 < here.today
                   /\ \E got \in SUBSET Unsettled(doc[d]) : \E noMinutes \in SUBSET got :
                         /\ got # {}
                         /\ Begin(t, "merge", [here EXCEPT !.outs =
                               [p \in Play |-> IF p \in got
                                              THEN Outcome(p, d, here.today, noMinutes)
                                              ELSE "none"]])
    /\ UNCHANGED <<doc, clocks, bounds, hist>>

\* save_outcomes: read the raw document again and merge into the plays it has.
Merge(t) ==
    /\ pc[t] = "merge"
    /\ LET raw == doc[job[t].day]
           new == [p \in Play |-> IF p \in raw.plays /\ job[t].outs[p] # "none"
                                  THEN job[t].outs[p] ELSE raw.verdict[p]]
       IN  Begin(t, "put", [job[t] EXCEPT !.base = [raw EXCEPT !.verdict = new]])
    /\ UNCHANGED <<doc, clocks, bounds, hist>>

Put(t) ==
    /\ pc[t] = "put"
    /\ doc' = [doc EXCEPT ![job[t].day] = job[t].base]
    /\ Onward(t, job[t])
    /\ UNCHANGED <<clocks, bounds, hist>>

\* A read that finds nothing, or an upload that only reaches the local file:
\* the day is left as it was, for a later sweep.
SaveFails(t) ==
    /\ pc[t] \in {"merge", "put"}
    /\ Fault
    /\ Onward(t, job[t])
    /\ UNCHANGED <<doc, clocks, starts, hist>>

-----------------------------------------------------------------------------
\* A container is killed.
Crash(j) ==
    /\ pc[j] # "idle"
    /\ Fault
    /\ End(j)
    /\ UNCHANGED <<doc, clocks, starts, hist>>

UtcMidnight ==
    /\ utc = et /\ utc < MaxDay
    /\ utc' = utc + 1
    /\ UNCHANGED <<doc, et, market, pc, job, bounds, hist>>

\* New York follows hours later; no scout or alerter execution lasts as long
\* (their task timeouts are minutes).
EtMidnight ==
    /\ et < utc
    /\ \A j \in Writer : pc[j] # "idle" => job[j].day = utc
    /\ et' = utc
    /\ UNCHANGED <<doc, utc, market, pc, job, bounds, hist>>

Next ==
    \/ \E s \in Scouts : ScoutStart(s)
    \/ \E a \in Alerters : AlertStart(a) \/ Send(a) \/ SendFails(a)
    \/ \E j \in Writer : Load(j) \/ Write(j) \/ WriteLocal(j)
    \/ SettleStart(Settler) \/ SweepDay(Settler) \/ Merge(Settler)
    \/ Put(Settler) \/ SaveFails(Settler)
    \/ \E j \in Jobs : Crash(j)
    \/ UtcMidnight \/ EtMidnight

Spec == Init /\ [][Next]_vars

-----------------------------------------------------------------------------
(***************************************************************************)
(* Properties.                                                             *)
(***************************************************************************)

\* Alerter executions that hold play p of day d and have not mailed it yet.
InFlight(d, p) == {a \in Alerters : pc[a] # "idle" /\ job[a].day = d /\ p \in job[a].ids}

\* A play is mailed once for each alerter execution that can be running at the
\* same time, and again as often only for each upload that lost marks: a cycle
\* that starts after a mark has reached the bucket never mails the play
\* (alerter.py:104, alerter.py:122).
AlertsBounded ==
    \A d \in Day, p \in Play :
        alerted[d][p] + Cardinality(InFlight(d, p))
            <= Cardinality(Alerters) * (disturbed[d] + 1)

\* save_outcomes' raw merge never runs next to a load-and-upload that would
\* drop the outcomes it writes, although the two sides tell the day by
\* different clocks (store.py:340).
SettlesPastDays ==
    pc[Settler] \in {"merge", "put"} =>
        \A j \in Writer : pc[j] \in {"load", "write"} => job[j].day # job[Settler].day

\* A play that has won or lost stays so, whatever scout, alerter and sweep do
\* next (engine.py:9, engine.py:57).
OutcomesSurvive ==
    [][\A d \in Day, p \in Play :
         doc[d].verdict[p] \in Frozen => doc'[d].verdict[p] = doc[d].verdict[p]]_vars

\* The prices support a win of play p of day d by the end of day e - 1: within
\* the horizon a session reached the target, none before it reached the stop,
\* and in the session itself, if it did, only a later minute.
Supported(p, d, e) ==
    \E k \in (d+1)..(e-1) :
        LET play == LevelsOf[p]
            bars == market.bars[p]
            mins == market.minutes[p][k]
        IN  /\ k - d <= Horizon
            /\ HitsTarget(bars[k], play)
            /\ \A i \in (d+1)..(k-1) : ~ HitsStop(bars[i], play)
            /\ HitsStop(bars[k], play) =>
                  \E m \in 1..Len(mins) :
                      /\ HitsTarget(mins[m], play)
                      /\ \A i \in 1..m : ~ HitsStop(mins[i], play)

\* A recorded win was won (settlement.py:100, :129): whatever the sweep could
\* fetch, and on whichever day it ran, the prices of completed sessions bear it
\* out.
WinsEarned ==
    \A d \in Day, p \in Play : doc[d].verdict[p] = "WIN" => Supported(p, d, et)
=============================================================================
