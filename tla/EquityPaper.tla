----------------------------- MODULE EquityPaper -----------------------------
(***************************************************************************)
(* The equities paper lane: the proving run of src/equity_runtime.py (reset *)
(* the paper ledger, replay the Massive history for a bounded number of    *)
(* cycles, reconcile) and the same loop run on connector quotes, which     *)
(* neither resets nor reconciles.  The readiness report then reads the     *)
(* audit log alone and judges which completed loops were clean.            *)
(*                                                                         *)
(* The audit log is the decisions table of trading_agent.db: the crypto    *)
(* lane writes its paper fills there under the same action name, and the   *)
(* commands that reset its counters write there too.  Nothing locks the    *)
(* stores; a fill and its row are two transactions, and the cash and the   *)
(* holdings an order is checked against are those of the portfolio loaded  *)
(* when the cycle began or after its last own fill.  EquityCycle has what  *)
(* decides a signal, here any signal may arise; a share costs one dollar.  *)
(***************************************************************************)
EXTENDS Integers, Sequences, FiniteSets

CONSTANTS
    Symbol,      \* equities.universe
    Proc,        \* processes an execution may run in
    Cap,         \* risk.max_trade_amount_usd
    Fee,         \* what the paper broker charges a fill, at most
    Cash0,       \* starting cash of the ledger
    Iterations,  \* cycles of an execution, at most
    MaxRuns,     \* bound: executions of a behaviour
    MaxLost,     \* bound: process deaths of a behaviour
    MaxOther     \* bound: rows of other writers of the audit log

ASSUME SetAssumption == IsFiniteSet(Symbol) /\ IsFiniteSet(Proc)
ASSUME AmountAssumption ==
    /\ {Fee, Cash0, Iterations, MaxRuns, MaxLost, MaxOther} \subseteq Nat
    /\ Cap \in Nat \ {0}

\* The broker takes a tenth of a percent (paper_broker.py:242), which is never more
\* than the order itself: the least order is of one.
ASSUME FeeAssumption == Fee <= 1

\* A row of the decisions table, as far as it is read again.  by, the execution
\* that wrote it (0: none of this lane's), is history: the code has no such column.
Row == [act : {"filled", "loop", "reconciled", "manual"},
        ok  : BOOLEAN,   \* loop: priced on Massive; reconciled: no errors
        n   : Nat,       \* loop: iterations completed
        by  : Nat]

Portfolio == [cash : Int, qty : [Symbol -> Int]]

Order == [sym : Symbol, side : {"buy", "sell"}, amount : 1..Cap]

\* What an execution has in memory.  No value of these outlives the step it is for.
Job == [proving : BOOLEAN, run : Nat,
        left  : Nat, done : Nat,      \* cycles to run and completed
        todo  : SUBSET Symbol,        \* symbols the cycle has not come to
        view  : Portfolio,            \* the portfolio it last loaded
        order : SUBSET Order,         \* the order under way, if any
        clean : BOOLEAN]              \* the reconciliation found no error

Empty == [cash |-> Cash0, qty |-> [c \in Symbol |-> 0]]

NoJob == [proving |-> FALSE, run |-> 0, left |-> 0, done |-> 0, todo |-> {},
          view |-> Empty, order |-> {}, clean |-> FALSE]

VARIABLES
    stop,               \* the STOP_TRADING_EQUITIES file exists
    ledger,             \* cash and quantities that the filled paper_trades sum up to
    audit,
    pc, job,
    runs, lost, other,  \* executions, deaths and foreign rows so far (bound them)
    overlap,            \* history: executions that ran next to another
    dead,               \* history: executions that died
    grace               \* history: processes the stop file came too late for

vars == <<stop, ledger, audit, pc, job, runs, lost, other, overlap, dead, grace>>

Pc == {"idle", "reset", "top", "begin", "symbol", "risk", "fill", "log",
       "observe", "compare", "record"}

TypeOK ==
    /\ stop \in BOOLEAN
    /\ ledger \in Portfolio /\ audit \in Seq(Row)
    /\ pc \in [Proc -> Pc] /\ job \in [Proc -> Job]
    /\ runs \in 0..MaxRuns /\ lost \in 0..MaxLost /\ other \in 0..MaxOther
    /\ overlap \cup dead \subseteq 1..MaxRuns
    /\ grace \subseteq Proc

Init ==
    /\ stop = FALSE
    /\ ledger = Empty /\ audit = <<>>
    /\ pc = [p \in Proc |-> "idle"] /\ job = [p \in Proc |-> NoJob]
    /\ runs = 0 /\ lost = 0 /\ other = 0
    /\ overlap = {} /\ dead = {} /\ grace = {}

-----------------------------------------------------------------------------
Rows(act) == {k \in DOMAIN audit : audit[k].act = act}

LogRow(act, ok, n, by) ==
    audit' = Append(audit, [act |-> act, ok |-> ok, n |-> n, by |-> by])

Step(p, at, after) ==
    /\ pc'  = [pc EXCEPT ![p] = at]
    /\ job' = [job EXCEPT ![p] = after]
    /\ UNCHANGED <<runs, lost, other, overlap, dead>>

\* Where the loop leaves to: a proving run reconciles whether or not it was halted.
AfterLoop(p) ==
    IF job[p].proving THEN Step(p, "observe", [job[p] EXCEPT !.left = 0, !.done = 0])
                      ELSE Step(p, "idle", NoJob)

\* What a filled order does to the sums.  The fee comes on top of the notional.
Booked(book, o) ==
    LET sign == IF o.side = "buy" THEN 1 ELSE -1
    IN  [cash |-> book.cash - sign * o.amount - Fee,
         qty  |-> [book.qty EXCEPT ![o.sym] = @ + sign * o.amount]]

-----------------------------------------------------------------------------
(***************************************************************************)
(* An execution.                                                           *)
(***************************************************************************)

Running == {p \in Proc : pc[p] # "idle"}

Start(p, at, proving) ==
    /\ pc[p] = "idle" /\ runs < MaxRuns
    /\ runs' = runs + 1
    /\ \E n \in 0..Iterations :
          job' = [job EXCEPT ![p] =
                    [NoJob EXCEPT !.proving = proving, !.run = runs + 1, !.left = n]]
    /\ pc' = [pc EXCEPT ![p] = at]
    /\ overlap' = IF Running = {} THEN overlap
                  ELSE overlap \cup {runs + 1} \cup {job[q].run : q \in Running}
    /\ UNCHANGED <<stop, ledger, audit, lost, other, dead, grace>>

\* run_equity_proving_run
StartProving(p) == Start(p, "reset", TRUE)

\* run_equity_paper_loop on the connector's own quotes.
StartLoop(p) == Start(p, "top", FALSE)

\* Broken variant: the ledger goes on from the run before.
KeepLedger(p) ==
    /\ pc[p] = "reset"
    /\ Step(p, "top", job[p])
    /\ UNCHANGED <<stop, ledger, audit, grace>>

\* PaperBroker.reset: archived and deleted in one transaction.
Reset(p) ==
    /\ pc[p] = "reset"
    /\ ledger' = Empty
    /\ Step(p, "top", job[p])
    /\ UNCHANGED <<stop, audit, grace>>

\* The loop ran to its bound; that is asked before the stop file is.
Complete(p) ==
    /\ pc[p] = "top" /\ job[p].left = 0
    /\ LogRow("loop", job[p].proving, job[p].done, job[p].run)
    /\ AfterLoop(p)
    /\ UNCHANGED <<stop, ledger, grace>>

\* The stop file ends the loop between two cycles: no completion row.
Halt(p) ==
    /\ pc[p] = "top" /\ job[p].left > 0 /\ stop
    /\ AfterLoop(p)
    /\ UNCHANGED <<stop, ledger, audit, grace>>

\* Broken variant: the bound is not asked before a cycle.
NextCycleUnbounded(p) ==
    /\ pc[p] = "top" /\ ~ stop
    /\ Step(p, "begin", job[p])
    /\ UNCHANGED <<stop, ledger, audit, grace>>

NextCycle(p) ==
    /\ pc[p] = "top" /\ job[p].left > 0 /\ ~ stop
    /\ Step(p, "begin", job[p])
    /\ UNCHANGED <<stop, ledger, audit, grace>>

\* The bound is asked before each cycle and counted down after it.
CycleEnds(p) ==
    Step(p, "top", [job[p] EXCEPT !.left = @ - 1, !.done = @ + 1, !.todo = {},
                                  !.view = Empty])

\* run_equity_cycle reads the switch again and loads the portfolio.  A cycle that
\* the switch ends here or later counts as completed all the same.
BeginCycle(p) ==
    /\ pc[p] = "begin"
    /\ IF stop THEN CycleEnds(p)
               ELSE Step(p, "symbol", [job[p] EXCEPT !.todo = Symbol, !.view = ledger])
    /\ UNCHANGED <<stop, ledger, audit, grace>>

CycleOver(p) ==
    /\ pc[p] = "symbol"
    /\ stop \/ job[p].todo = {}
    /\ CycleEnds(p)
    /\ UNCHANGED <<stop, ledger, audit, grace>>

\* A symbol without an order: not tradable, not quoted, a hold, or held back by the
\* market regime or by a limit of the risk manager that is not modelled here.
Skip(p) ==
    /\ pc[p] = "symbol" /\ ~ stop
    /\ \E c \in job[p].todo : Step(p, "symbol", [job[p] EXCEPT !.todo = @ \ {c}])
    /\ UNCHANGED <<stop, ledger, audit, grace>>

\* Sells are of the full trade amount, cut down to what is held; buys of what the
\* market regime leaves of it.
Sized(p, c, side) ==
    LET held == job[p].view.qty[c]
    IN  IF side = "buy" THEN 1..Cap
        ELSE {IF 0 < held /\ held < Cap THEN held ELSE Cap}

Evaluate(p) ==
    /\ pc[p] = "symbol" /\ ~ stop
    /\ \E c \in job[p].todo, side \in {"buy", "sell"} : \E n \in Sized(p, c, side) :
          Step(p, "risk", [job[p] EXCEPT !.todo = @ \ {c},
                            !.order = {[sym |-> c, side |-> side, amount |-> n]}])
    /\ UNCHANGED <<stop, ledger, audit, grace>>

\* Broken variant: a buy is not checked against the cash.
UnfundedBuy(p, o) == o.side = "sell" => job[p].view.qty[o.sym] > 0

\* RiskManager.evaluate, on the portfolio in memory.
Funded(p, o) ==
    IF o.side = "buy" THEN job[p].view.qty[o.sym] <= 0 /\ job[p].view.cash >= o.amount
                      ELSE job[p].view.qty[o.sym] > 0

\* Broken variant: the switch is read for each symbol only.
DecideBlind(p) ==
    /\ pc[p] = "risk"
    /\ \E o \in job[p].order :
          IF Funded(p, o) THEN Step(p, "fill", job[p])
                          ELSE Step(p, "symbol", [job[p] EXCEPT !.order = {}])
    /\ UNCHANGED <<stop, ledger, audit, grace>>

\* The risk manager reads the switch once more.
Decide(p) ==
    /\ pc[p] = "risk"
    /\ \E o \in job[p].order :
          IF ~ stop /\ Funded(p, o) THEN Step(p, "fill", job[p])
                                    ELSE Step(p, "symbol", [job[p] EXCEPT !.order = {}])
    /\ UNCHANGED <<stop, ledger, audit, grace>>

\* PaperBroker.place_order: the fill is in the ledger.
Fill(p) ==
    /\ pc[p] = "fill"
    /\ \E o \in job[p].order : ledger' = Booked(ledger, o)
    /\ Step(p, "log", job[p])
    /\ grace' = grace \ {p}
    /\ UNCHANGED <<stop, audit>>

\* The fill is in the audit log; the portfolio is loaded again.
LogFill(p) ==
    /\ pc[p] = "log"
    /\ LogRow("filled", TRUE, 0, job[p].run)
    /\ Step(p, "symbol", [job[p] EXCEPT !.order = {}, !.view = ledger])
    /\ UNCHANGED <<stop, ledger, grace>>

\* reconcile_positions: the portfolio is loaded, then the ledger is summed up
\* again, then the result is logged.
Observe(p) ==
    /\ pc[p] = "observe"
    /\ Step(p, "compare", [job[p] EXCEPT !.view = ledger])
    /\ UNCHANGED <<stop, ledger, audit, grace>>

Agrees(book) == book = ledger /\ ledger.cash >= 0 /\ \A c \in Symbol : book.qty[c] >= 0

Compare(p) ==
    /\ pc[p] = "compare"
    /\ Step(p, "record", [job[p] EXCEPT !.view = Empty, !.clean = Agrees(job[p].view)])
    /\ UNCHANGED <<stop, ledger, audit, grace>>

Record(p) ==
    /\ pc[p] = "record"
    /\ LogRow("reconciled", job[p].clean, 0, job[p].run)
    /\ Step(p, "idle", NoJob)
    /\ UNCHANGED <<stop, ledger, grace>>

\* A process dies, or an exception ends it (no bars from Massive, a fault of the
\* account check).
Die(p) ==
    /\ pc[p] # "idle" /\ lost < MaxLost
    /\ lost' = lost + 1
    /\ dead' = dead \cup {job[p].run}
    /\ pc' = [pc EXCEPT ![p] = "idle"] /\ job' = [job EXCEPT ![p] = NoJob]
    /\ grace' = grace \ {p}
    /\ UNCHANGED <<stop, ledger, audit, runs, other, overlap>>

\* The operator creates and removes the stop file.
ToggleStop ==
    /\ stop' = ~ stop
    /\ grace' = IF stop THEN {} ELSE {p \in Proc : pc[p] = "fill"}
    /\ UNCHANGED <<ledger, audit, pc, job, runs, lost, other, overlap, dead>>

\* The crypto lane fills a paper order, or a command resets its counters.
OtherRow ==
    /\ other < MaxOther
    /\ other' = other + 1
    /\ \E act \in {"filled", "manual"} : LogRow(act, TRUE, 0, 0)
    /\ UNCHANGED <<stop, ledger, pc, job, runs, lost, overlap, dead, grace>>

Next ==
    \/ \E p \in Proc :
          \/ StartProving(p) \/ StartLoop(p) \/ Reset(p)
          \/ Complete(p) \/ Halt(p) \/ NextCycle(p) \/ BeginCycle(p) \/ CycleOver(p)
          \/ Skip(p) \/ Evaluate(p) \/ Decide(p) \/ Fill(p) \/ LogFill(p)
          \/ Observe(p) \/ Compare(p) \/ Record(p) \/ Die(p)
    \/ ToggleStop \/ OtherRow

Spec == Init /\ [][Next]_vars

-----------------------------------------------------------------------------
(***************************************************************************)
(* paper_proving_runs: which completed loops were clean, from the audit    *)
(* log alone.                                                              *)
(***************************************************************************)

Latest(these) == IF these = {} THEN 0 ELSE CHOOSE k \in these : \A i \in these : i <= k

\* What lies between the loop row before row i and row i.
Window(i) == (Latest({k \in Rows("loop") : k < i}) + 1)..i

\* Broken variant: a reconcile row anywhere later will do.
FollowingEver(i) == {j \in Rows("reconciled") : j > i}

\* The first reconcile row after loop row i and before the next.  (Those windows
\* are apart, so that no two loops take the same row.)
Following(i) ==
    {j \in Rows("reconciled") :
        j > i /\ \A k \in (i+1)..(j-1) : k \notin Rows("loop") \cup Rows("reconciled")}

Clean(i) ==
    /\ i \in Rows("loop") /\ audit[i].ok /\ audit[i].n > 0
    /\ \E j \in Following(i) : audit[j].ok
    /\ Window(i) \cap Rows("filled") # {}
    /\ Window(i) \cap Rows("manual") = {}

\* paper_runs_evidence
CleanRuns == {i \in DOMAIN audit : Clean(i)}

PaperProven(required) == Cardinality(CleanRuns) >= required

-----------------------------------------------------------------------------
(***************************************************************************)
(* Properties.                                                             *)
(***************************************************************************)

By(run, act) == {k \in Rows(act) : audit[k].by = run}

\* The fills between two loop rows are one execution's own.
OwnWindow(i) == \A k \in Window(i) \cap Rows("filled") : audit[k].by = audit[i].by

\* What the readiness report calls a clean run is one.  If nothing ran beside an
\* execution, it did not die, and no fill of another writer lies in its window, then
\* the report counts it exactly when it was priced on Massive, filled something
\* itself, found no error when it reconciled, and nobody reset a counter: it is
\* neither vouched for by the reconciliation of another execution, nor is a good
\* run lost (equity_readiness.py:412-459).
CleanIsEarned ==
    \A i \in Rows("loop") :
        LET r == audit[i].by
        IN  r \notin overlap \cup dead /\ OwnWindow(i)
            => (Clean(i) <=> /\ audit[i].ok
                             /\ By(r, "filled") # {}
                             /\ \E j \in By(r, "reconciled") : audit[j].ok
                             /\ Window(i) \cap Rows("manual") = {})

\* A proving run that ran alone finds an error in its reconciliation only if it spent
\* its last dollar itself and the fee, which no check reserves, came on top: nothing
\* an earlier execution did, however that one ended, is held against it
\* (equity_runtime.py:694, paper_broker.py:238).
AlarmIsExplained ==
    \A p \in Proc :
        pc[p] = "record" /\ ~ job[p].clean /\ job[p].run \notin overlap
        => ledger.cash < 0 /\ By(job[p].run, "filled") # {}

\* Executions side by side check against portfolios that do not have each other's
\* fills, so the cash may go negative and so may a position.  It stays within one
\* order for every further process (paper_broker.py:238).
OverdraftBounded ==
    LET others == IF overlap = {} THEN 0 ELSE Cardinality(Proc) - 1
    IN  /\ ledger.cash >= - (others * Cap + (others + 1) * Fee)
        /\ \A c \in Symbol : ledger.qty[c] >= - (others * Cap)

\* No order passes the risk check once the stop file is there: what is still filled
\* are the orders that had passed it when the file was created (risk_manager.py:40).
StopHolds == stop => {p \in Proc : pc[p] = "fill"} \subseteq grace

\* equity_readiness.py:395-397 says of a clean run: its "activity window holds at
\* least one paper_order_filled AND the summed fill notional moved the ledger
\* non-trivially -- a zero-trade run proves nothing".
CleanRunTraded == \A i \in CleanRuns : By(audit[i].by, "filled") # {}
=============================================================================
