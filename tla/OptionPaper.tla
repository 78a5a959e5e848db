----------------------------- MODULE OptionPaper -----------------------------
(***************************************************************************)
(* The options paper lane: the bounded loop of src/option_runtime.py, run  *)
(* as a proving run from the command line or as one arm-gated cycle of the *)
(* trader job (src/option_trader/cycle.py).                                *)
(*                                                                         *)
(* An execution keeps two stores: the paper ledger, which a proving run    *)
(* empties first, and the decisions of the audit log, which nothing ever   *)
(* empties.  Booking a fill and logging it are two transactions.  At its   *)
(* end it reconciles one store with the other, and later the readiness     *)
(* gate reads the audit log alone and judges which runs were clean.        *)
(* Executions are processes over the same files; nothing locks these, and  *)
(* a process can die between any two transactions.                         *)
(*                                                                         *)
(* Every fill is one contract for one unit of premium, so the quantity,    *)
(* notional and cash checks of the reconciliation say the same.            *)
(***************************************************************************)
EXTENDS Integers, Sequences, FiniteSets

CONSTANTS
    Contract,    \* option contracts a play source may offer
    Proc,        \* processes an execution may run in
    PremiumCap,  \* options.risk.max_total_premium_at_risk_usd
    Cash0,       \* starting cash of the ledger
    Iterations,  \* iterations of a proving run
    MaxRuns,     \* bound: executions of a behaviour
    MaxLost      \* bound: process deaths of a behaviour

ASSUME SetAssumption == IsFiniteSet(Contract) /\ IsFiniteSet(Proc) /\ "none" \notin Contract
ASSUME AmountAssumption ==
    /\ {PremiumCap, Cash0, MaxRuns, MaxLost} \subseteq Nat
    /\ Iterations \in Nat \ {0}

\* A row of the decisions table.  by, the number of the execution that wrote
\* it, is history: the code has no such column.
Row == [act : {"filled", "completed", "halted", "reconciled"},
        what : Contract \cup {"none"},
        ok   : BOOLEAN,     \* completed: on a real basis; reconciled: no errors
        by   : Nat]

\* What an execution has in memory.
Job == [proving : BOOLEAN,
        run   : Nat,
        left  : Nat,                    \* iterations still to run
        todo  : SUBSET Contract,        \* candidates of this cycle
        cash  : Int,                    \* what it may still spend in it
        fill  : Contract \cup {"none"}, \* booked, not logged yet
        exp   : [Contract -> Nat],      \* quantities the audit log expects
        clean : BOOLEAN]                \* the reconciliation found no error

Nothing == [c \in Contract |-> 0]

NoJob == [proving |-> FALSE, run |-> 0, left |-> 0, todo |-> {}, cash |-> 0,
          fill |-> "none", exp |-> Nothing, clean |-> FALSE]

VARIABLES
    stop,       \* the STOP_TRADING_OPTIONS file exists
    ledger,     \* filled rows of paper_trades: the contract of each
    audit,      \* decisions, as far as they are read again
    pc, job,
    runs, lost, \* executions and deaths so far (bound them)
    overlap,    \* history: executions that ran next to another
    unlogged    \* history: fills booked by an execution that died before its row

vars == <<stop, ledger, audit, pc, job, runs, lost, overlap, unlogged>>

Pc == {"idle", "reset", "armed", "top", "cash", "fill", "log",
       "expect", "compare", "record"}

TypeOK ==
    /\ stop \in BOOLEAN
    /\ ledger \in Seq(Contract) /\ audit \in Seq(Row)
    /\ pc \in [Proc -> Pc] /\ job \in [Proc -> Job]
    /\ runs \in Nat /\ lost \in Nat /\ unlogged \in Nat
    /\ overlap \subseteq Nat

Init ==
    /\ stop = FALSE
    /\ ledger = <<>> /\ audit = <<>>
    /\ pc = [p \in Proc |-> "idle"] /\ job = [p \in Proc |-> NoJob]
    /\ runs = 0 /\ lost = 0 /\ unlogged = 0
    /\ overlap = {}

-----------------------------------------------------------------------------
(***************************************************************************)
(* The two stores.                                                         *)
(***************************************************************************)

Rows(act) == {k \in DOMAIN audit : audit[k].act = act}

\* The latest row of `these', 0 if there is none.
Latest(these) == IF these = {} THEN 0 ELSE CHOOSE k \in these : \A i \in these : i <= k

Held(c) == Cardinality({k \in DOMAIN ledger : ledger[k] = c})

\* Broken variant: every fill ever logged.
ExpectedEver(c) == Cardinality({k \in Rows("filled") : audit[k].what = c})

\* _expected_from_audit: fills logged since the latest reconcile row.
Expected(c) ==
    Cardinality({k \in Rows("filled") : audit[k].what = c /\ k > Latest(Rows("reconciled"))})

\* Broken variant: every cycle starts from zero.
OpenPremiumAfresh == 0

\* _open_premium_at_risk: what the open positions cost.
OpenPremium == Len(ledger)

PaperCash == Cash0 - Len(ledger)

LogRow(p, act, what, ok) ==
    audit' = Append(audit, [act |-> act, what |-> what, ok |-> ok, by |-> job[p].run])

Step(p, at, after) ==
    /\ pc'  = [pc EXCEPT ![p] = at]
    /\ job' = [job EXCEPT ![p] = after]

Leave(p) == Step(p, "idle", NoJob)

-----------------------------------------------------------------------------
(***************************************************************************)
(* An execution.                                                           *)
(***************************************************************************)

Running == {p \in Proc : pc[p] # "idle"}

Start(p, at, proving, iterations) ==
    /\ pc[p] = "idle" /\ runs < MaxRuns
    /\ runs' = runs + 1
    /\ Step(p, at, [NoJob EXCEPT !.proving = proving, !.run = runs + 1, !.left = iterations])
    /\ overlap' = IF Running = {} THEN overlap
                  ELSE overlap \cup {runs + 1} \cup {job[q].run : q \in Running}
    /\ UNCHANGED <<stop, ledger, audit, lost, unlogged>>

StartProving(p) == Start(p, "reset", TRUE, Iterations)

\* The trader job found its lane armed; disarmed it ends at once.
StartTrader(p) == Start(p, "armed", FALSE, 1)

\* Broken variant: the ledger goes on from the run before.
KeepLedger(p) ==
    /\ pc[p] = "reset"
    /\ Step(p, "top", job[p])
    /\ UNCHANGED <<stop, ledger, audit, runs, lost, overlap, unlogged>>

\* PaperBroker.reset: archived and deleted in one transaction.
Reset(p) ==
    /\ pc[p] = "reset"
    /\ ledger' = <<>>
    /\ Step(p, "top", job[p])
    /\ UNCHANGED <<stop, audit, runs, lost, overlap, unlogged>>

\* The trader looks at the kill switch before it builds anything.
TraderGo(p) ==
    /\ pc[p] = "armed"
    /\ IF stop THEN Leave(p) ELSE Step(p, "top", job[p])
    /\ UNCHANGED <<stop, ledger, audit, runs, lost, overlap, unlogged>>

\* The kill switch ends the loop: no completion row, but the caller goes on to
\* reconcile.
Halt(p) ==
    /\ pc[p] = "top" /\ job[p].left > 0
    /\ stop
    /\ LogRow(p, "halted", "none", FALSE)
    /\ Step(p, "expect", job[p])
    /\ UNCHANGED <<stop, ledger, runs, lost, overlap, unlogged>>

\* Broken variant: one iteration too many.
PlanOnce(p) ==
    /\ pc[p] = "top"
    /\ ~stop
    /\ \E plays \in SUBSET Contract :
          /\ plays = {} \/ OpenPremium + Cardinality(plays) <= PremiumCap
          /\ Step(p, "cash", [job[p] EXCEPT !.left = @ - 1, !.todo = plays])
    /\ UNCHANGED <<stop, ledger, audit, runs, lost, overlap, unlogged>>

\* An iteration: the plays, mapped to candidates under the total premium cap,
\* which sees the positions that are open now and the candidates before it.
Plan(p) ==
    /\ pc[p] = "top" /\ job[p].left > 0
    /\ ~stop
    /\ \E plays \in SUBSET Contract :
          /\ plays = {} \/ OpenPremium + Cardinality(plays) <= PremiumCap
          /\ Step(p, "cash", [job[p] EXCEPT !.left = @ - 1, !.todo = plays])
    /\ UNCHANGED <<stop, ledger, audit, runs, lost, overlap, unlogged>>

\* The cash the cycle may spend is read once.
ReadCash(p) ==
    /\ pc[p] = "cash"
    /\ Step(p, "fill", [job[p] EXCEPT !.cash = PaperCash])
    /\ UNCHANGED <<stop, ledger, audit, runs, lost, overlap, unlogged>>

\* A candidate without the cash for it is skipped.
SkipFill(p) ==
    /\ pc[p] = "fill" /\ job[p].cash < 1
    /\ \E c \in job[p].todo : Step(p, "fill", [job[p] EXCEPT !.todo = @ \ {c}])
    /\ UNCHANGED <<stop, ledger, audit, runs, lost, overlap, unlogged>>

\* paper.place_order: the fill is in the ledger.
Book(p) ==
    /\ pc[p] = "fill" /\ job[p].cash >= 1
    /\ \E c \in job[p].todo :
          /\ ledger' = Append(ledger, c)
          /\ Step(p, "log", [job[p] EXCEPT !.todo = @ \ {c}, !.cash = @ - 1, !.fill = c])
    /\ UNCHANGED <<stop, audit, runs, lost, overlap, unlogged>>

\* logger.log_decision: the fill is in the audit log.
LogFill(p) ==
    /\ pc[p] = "log"
    /\ LogRow(p, "filled", job[p].fill, TRUE)
    /\ Step(p, "fill", [job[p] EXCEPT !.fill = "none"])
    /\ UNCHANGED <<stop, ledger, runs, lost, overlap, unlogged>>

CycleOver(p) ==
    /\ pc[p] = "fill" /\ job[p].todo = {}
    /\ Step(p, "top", [job[p] EXCEPT !.cash = 0])
    /\ UNCHANGED <<stop, ledger, audit, runs, lost, overlap, unlogged>>

\* The loop ran to its end.  Only a proving run prices on one of the real bases.
Complete(p) ==
    /\ pc[p] = "top" /\ job[p].left = 0
    /\ LogRow(p, "completed", "none", job[p].proving)
    /\ Step(p, "expect", job[p])
    /\ UNCHANGED <<stop, ledger, runs, lost, overlap, unlogged>>

\* reconcile_option_paper: the audit log is read, then the ledger, then the
\* result is logged.
ReadAudit(p) ==
    /\ pc[p] = "expect"
    /\ Step(p, "compare", [job[p] EXCEPT !.exp = [c \in Contract |-> Expected(c)]])
    /\ UNCHANGED <<stop, ledger, audit, runs, lost, overlap, unlogged>>

Compare(p) ==
    /\ pc[p] = "compare"
    /\ Step(p, "record", [job[p] EXCEPT !.exp = Nothing,
              !.clean = PaperCash >= 0 /\ \A c \in Contract : Held(c) = job[p].exp[c]])
    /\ UNCHANGED <<stop, ledger, audit, runs, lost, overlap, unlogged>>

Record(p) ==
    /\ pc[p] = "record"
    /\ LogRow(p, "reconciled", "none", job[p].clean)
    /\ Leave(p)
    /\ UNCHANGED <<stop, ledger, runs, lost, overlap, unlogged>>

\* A process dies, or an exception ends it (no market data after the reset).
Crash(p) ==
    /\ pc[p] # "idle" /\ lost < MaxLost
    /\ lost' = lost + 1
    /\ unlogged' = IF pc[p] = "log" THEN unlogged + 1 ELSE unlogged
    /\ Leave(p)
    /\ UNCHANGED <<stop, ledger, audit, runs, overlap>>

\* The operator creates and removes the stop file.
ToggleStop ==
    /\ stop' = ~stop
    /\ UNCHANGED <<ledger, audit, pc, job, runs, lost, overlap, unlogged>>

Next ==
    \/ \E p \in Proc :
          \/ StartProving(p) \/ StartTrader(p) \/ Reset(p) \/ TraderGo(p)
          \/ Halt(p) \/ Plan(p) \/ ReadCash(p) \/ SkipFill(p) \/ Book(p) \/ LogFill(p)
          \/ CycleOver(p) \/ Complete(p) \/ ReadAudit(p) \/ Compare(p) \/ Record(p)
          \/ Crash(p)
    \/ ToggleStop

Spec == Init /\ [][Next]_vars

-----------------------------------------------------------------------------
(***************************************************************************)
(* option_paper_proving_runs: which completed runs were clean, from the    *)
(* audit log alone.                                                        *)
(***************************************************************************)

\* What ends an execution, as the audit log shows it.
Boundaries == Rows("completed") \cup Rows("reconciled") \cup Rows("halted")

\* The fills after the boundary before completion i.
WindowFills(i) ==
    {k \in Rows("filled") : k < i /\ k > Latest({b \in Boundaries : b < i})}

\* The first reconcile row after it and before the next completion.
Follows(j, i) ==
    /\ j \in Rows("reconciled") /\ j > i
    /\ \A k \in (i+1)..(j-1) : k \notin Rows("completed") \cup Rows("reconciled")

CleanWith(i, j) ==
    /\ i \in Rows("completed") /\ audit[i].ok
    /\ Follows(j, i) /\ audit[j].ok
    /\ WindowFills(i) # {}

-----------------------------------------------------------------------------
(***************************************************************************)
(* Properties.                                                             *)
(***************************************************************************)

FillsOf(run) == {k \in Rows("filled") : audit[k].by = run}

\* A run that is judged clean has filled something itself: no fill of an
\* execution that died earlier is taken for its own, although the windows are
\* drawn from the audit log, in which a death leaves no row.  What can still
\* deceive it is a fill that was booked and never logged, or another execution
\* at the same time (option_runtime.py:938, :946).
CleanIsEarned ==
    unlogged = 0 =>
        \A i, j \in DOMAIN audit :
            /\ CleanWith(i, j)
            /\ {audit[i].by, audit[j].by} \cap overlap = {}
            => FillsOf(audit[i].by) # {}

\* A proving run that completed alone reconciles with errors only if an earlier
\* execution left fills in the audit log that no reconcile row closed
\* (option_runtime.py:663, :858).
AlarmIsExplained ==
    \A i, j \in DOMAIN audit :
        LET run   == audit[i].by
            since == Latest({k \in Rows("reconciled") : k < i})
        IN  /\ i \in Rows("completed") /\ audit[i].ok
            /\ j \in Rows("reconciled") /\ audit[j].by = run /\ ~ audit[j].ok
            /\ run \notin overlap
            => \E k \in Rows("filled") : k > since /\ k < j /\ audit[k].by # run

\* Candidates that are past the cap and not booked yet.
Pending == {x \in Proc \X Contract : pc[x[1]] \in {"cash", "fill", "log"} /\ x[2] \in job[x[1]].todo}

\* The premium at risk, with what is about to be booked, exceeds its cap by no
\* more than the cap once for each further process: cycles of one process
\* never add up over it (option_runtime.py:588).
PremiumBound == Len(ledger) + Cardinality(Pending) <= PremiumCap * Cardinality(Proc)
=============================================================================
