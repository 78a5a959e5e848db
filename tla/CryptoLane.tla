----------------------------- MODULE CryptoLane -----------------------------
(***************************************************************************)
(* The live crypto lane: the commands of src/main.py and of the dashboard  *)
(* that can put a real order at the Robinhood crypto venue, the files and  *)
(* tables they share, and the operator who works next to them.             *)
(*                                                                         *)
(* Every command is an operating-system process of its own (the dashboard  *)
(* is one process that serves one /live-control request at a time).  They  *)
(* meet only in the STOP_TRADING file, in the configuration on disk, in    *)
(* the orders and daily_summary tables of data/trading_agent.db, where     *)
(* each logger call is one transaction, and at the venue.  Nothing locks   *)
(* anything, so the steps of two processes interleave between any two of   *)
(* those accesses, and a process can die between any two of them.          *)
(*                                                                         *)
(* Money is abstracted to units: an order is worth one unit of cash and    *)
(* moves one unit of its symbol.  Time is abstracted to two events: the    *)
(* cooldown of a symbol runs out, and the UTC day changes.                 *)
(***************************************************************************)
EXTENDS Integers, Sequences, FiniteSets

CONSTANTS
    Symbols,    \* symbols.live_allowed_symbols, in order; the first is BTC-USD
    Cli,        \* processes an operator starts from the command line
    Dash,       \* the dashboard process
    Commands,   \* the commands the operator uses in this instance
    Configs,    \* what trading_rules.yaml may hold
    Cash0,      \* buying power at the start
    MaxIter,    \* bound: iterations of a bounded or dry loop
    MaxPlaced,  \* bound: orders the venue accepts in a behaviour
    MaxDay,     \* bound: day changes in a behaviour
    MaxLost,    \* bound: process deaths in a behaviour
    MaxPreview, \* bound: previews the dashboard holds
    MaxReset    \* bound: counts a reset of the daily summary may wipe out

LoopCommands   == {"run-live", "live-loop", "bounded", "dry-loop", "paper-loop"}
ManualCommands == {"smoke", "single"}
AllCommands    == LoopCommands \cup ManualCommands \cup {"submit-smoke"}

\* The commands whose orders were checked against the day's trade_count.
CountChecked == {"run-live", "live-loop", "bounded", "single", "paper-loop"}

\* risk.max_trades_per_day, risk.max_open_positions, and whether
\* trading.allowed_symbols is exactly ["BTC-USD"] or the whole list.
Config == [trades : Nat, open : Nat, btcOnly : BOOLEAN]

ASSUME SymbolsAssumption == Symbols \in Seq(STRING) /\ Len(Symbols) > 0
ASSUME ProcAssumption    == IsFiniteSet(Cli) /\ Dash \notin Cli
ASSUME CommandAssumption == Commands \subseteq AllCommands
ASSUME ConfigAssumption  == Configs \subseteq Config
ASSUME BoundAssumption   ==
    {Cash0, MaxIter, MaxPlaced, MaxDay, MaxLost, MaxPreview, MaxReset} \subseteq Nat

Proc   == Cli \cup {Dash}
Symbol == {Symbols[k] : k \in 1..Len(Symbols)}
Btc    == Symbols[1]
Side   == {"buy", "sell"}

\* Where a process stands.  "idle" is also a process that is not running.
Pc == {"idle", "preflight", "top", "scan", "evaluate", "confirm",
       "submit", "log", "count"}

\* Cash and holdings as the program sees them: of the account, what can be
\* traded; of the paper ledger, what its rows add up to.
Portfolio == [cash : Int, held : [Symbol -> Int]]

\* What a process has in its own memory while a command runs: the portfolio it
\* loaded, the trade count it read, the order it is working on.
Job == [cmd  : AllCommands,
        live : BOOLEAN,             \* trading.mode=live in the rules it loaded
        left : Nat,                 \* iterations still to run
        i    : 1..(Len(Symbols)+1), \* position in the symbol list
        sym  : Symbol,
        side : Side,
        seen : Nat,                 \* trade_count when it was read
        port : Portfolio,           \* the portfolio it loaded
        sent : Nat]                 \* orders this run of the command submitted

VARIABLES
    stop,       \* the STOP_TRADING file exists
    envLive,    \* .env on disk says TRADING_MODE=live
    cfgLive,    \* trading_rules.yaml on disk says mode=live
    config,     \* its risk section and trading.allowed_symbols
    tradeCount, \* daily_summary.trade_count of the current UTC day
    cooling,    \* symbols whose last row of orders is younger than the cooldown
    pc, job,
    previews,   \* app.state.smoke_previews: risk-checked orders kept for later
    venue,      \* what the venue holds: cash, holdings, open buys and sells
    paper,      \* what the ledger of data/paper_trades.db adds up to
    placed,     \* venue orders of the behaviour (bounds it)
    day, lost,  \* day changes and process deaths so far (bound it)
    accepted,   \* history: orders the venue or the paper ledger took this day
    uncounted,  \* history: those that no trade_count will ever include
    stale,      \* history: this day's orders sent from a stored preview
    late        \* history: orders taken under the present STOP_TRADING file

disk  == <<stop, envLive, cfgLive, config>>
table == <<tradeCount, cooling>>
clock == <<placed, day, lost>>
ghost == <<accepted, uncounted, stale, late>>
book  == <<previews, venue, paper>>
vars  == <<disk, table, pc, job, book, clock, ghost>>

Venue == [cash : Nat, held : [Symbol -> Nat],
          buys : [Symbol -> Nat], sells : [Symbol -> Nat]]

\* Types of the variables.
TypeOK ==
    /\ stop \in BOOLEAN /\ envLive \in BOOLEAN /\ cfgLive \in BOOLEAN
    /\ config \in Config
    /\ tradeCount \in Nat
    /\ cooling \subseteq Symbol
    /\ pc \in [Proc -> Pc]
    /\ job \in [Proc -> Job]
    /\ previews \subseteq [sym : Symbol, side : Side]
    /\ venue \in Venue /\ paper \in Portfolio
    /\ placed \in Nat /\ day \in Nat /\ lost \in Nat
    /\ accepted \in Nat /\ uncounted \in Nat /\ stale \in Nat /\ late \in Nat

Empty == [s \in Symbol |-> 0]

NoPortfolio == [cash |-> 0, held |-> Empty]

NoJob == [cmd |-> "run-live", live |-> FALSE, left |-> 0, i |-> 1,
          sym |-> Btc, side |-> "buy", seen |-> 0,
          port |-> NoPortfolio, sent |-> 0]

Init ==
    /\ stop = FALSE
    /\ envLive \in BOOLEAN /\ cfgLive \in BOOLEAN
    /\ config \in Configs
    /\ tradeCount = 0 /\ cooling = {}
    /\ pc = [p \in Proc |-> "idle"]
    /\ job = [p \in Proc |-> NoJob]
    /\ previews = {}
    /\ venue = [cash |-> Cash0, held |-> Empty, buys |-> Empty, sells |-> Empty]
    /\ paper = [cash |-> Cash0, held |-> Empty]
    /\ placed = 0 /\ day = 0 /\ lost = 0
    /\ accepted = 0 /\ uncounted = 0 /\ stale = 0 /\ late = 0

-----------------------------------------------------------------------------
(***************************************************************************)
(* The risk manager and the portfolio it is given.                         *)
(***************************************************************************)

\* Holdings that quantity_available_for_trading reports: an open sell holds
\* its quantity back.
Available(s) == venue.held[s] - venue.sells[s]

Account == [cash |-> venue.cash, held |-> [s \in Symbol |-> Available(s)]]

AllowedSymbols == IF config.btcOnly THEN {Btc} ELSE Symbol

\* RiskManager.evaluate for one order, over the portfolio and the count its
\* caller passes.  realized_pnl is always 0 (every caller of
\* increment_trade_count leaves it out), so the loss limit never speaks.
RiskAllows(s, side, port, count, allowed) ==
    /\ ~stop
    /\ s \in allowed
    /\ count < config.trades
    /\ s \notin cooling
    /\ side = "buy"  => /\ Cardinality({x \in Symbol : port.held[x] > 0}) < config.open
                        /\ port.held[s] <= 0
                        /\ port.cash >= 1
    /\ side = "sell" => port.held[s] > 0

\* Broken variant: the readiness gates forget the stop file.
GatesWithoutBrake ==
    /\ envLive /\ cfgLive
    /\ config.trades <= 5 /\ config.open <= 10

\* The gates of the bounded loop, which the dashboard's readiness shares.
BoundedGates ==
    /\ envLive /\ cfgLive /\ ~stop
    /\ config.trades <= 5 /\ config.open <= 10

-----------------------------------------------------------------------------
(***************************************************************************)
(* Starting and leaving a command.                                         *)
(***************************************************************************)

CanStart(p, cmd) ==
    /\ pc[p] = "idle"
    /\ cmd \in Commands
    /\ p = Dash => cmd = "bounded"

Launch(p, at, fresh) ==
    /\ pc'  = [pc EXCEPT ![p] = at]
    /\ job' = [job EXCEPT ![p] = fresh]

\* The process ends, or the dashboard has answered: its memory is gone.
Leave(p) == Launch(p, "idle", NoJob)

\* run-live asks only for TRADING_MODE=live; the rules it loads are kept for
\* as long as it runs.
StartRunLive(p) ==
    /\ CanStart(p, "run-live")
    /\ envLive
    /\ Launch(p, "top", [NoJob EXCEPT !.live = cfgLive])
    /\ UNCHANGED <<disk, table, book, clock, ghost>>

StartDryLoop(p) ==
    /\ CanStart(p, "dry-loop")
    /\ Launch(p, "top", [NoJob EXCEPT !.cmd = "dry-loop", !.left = MaxIter])
    /\ UNCHANGED <<disk, table, book, clock, ghost>>

StartPaperLoop(p) ==
    /\ CanStart(p, "paper-loop")
    /\ Launch(p, "top", [NoJob EXCEPT !.cmd = "paper-loop"])
    /\ UNCHANGED <<disk, table, book, clock, ghost>>

StartLiveLoop(p) ==
    /\ CanStart(p, "live-loop")
    /\ envLive /\ cfgLive /\ ~stop
    /\ config.trades <= 1 /\ config.open <= 1 /\ config.btcOnly
    /\ Launch(p, "preflight", [NoJob EXCEPT !.cmd = "live-loop", !.live = TRUE])
    /\ UNCHANGED <<disk, table, book, clock, ghost>>

StartBounded(p) ==
    /\ CanStart(p, "bounded")
    /\ BoundedGates
    /\ Launch(p, "preflight", [NoJob EXCEPT
                !.cmd = "bounded", !.live = TRUE,
                !.left = IF p = Dash THEN 1 ELSE MaxIter])
    /\ UNCHANGED <<disk, table, book, clock, ghost>>

\* After the test suite: the account, a price, and the risk manager's verdict
\* on a trial buy of the first symbol that has a price.
Preflight(p) ==
    /\ pc[p] = "preflight"
    /\ \E s \in (IF job[p].cmd = "live-loop" THEN {Btc} ELSE Symbol) :
          RiskAllows(s, "buy", Account, tradeCount, AllowedSymbols)
    /\ pc' = [pc EXCEPT ![p] = "top"]
    /\ UNCHANGED <<disk, table, job, book, clock, ghost>>

\* The tests fail, the account or the price cannot be had, or the risk manager
\* refuses.  Nothing has been written.
PreflightFails(p) ==
    /\ pc[p] = "preflight"
    /\ Leave(p)
    /\ UNCHANGED <<disk, table, book, clock, ghost>>

-----------------------------------------------------------------------------
(***************************************************************************)
(* The loops, and run_cycle with OrderManager.process_signal inside it.    *)
(***************************************************************************)

Counted == {"bounded", "dry-loop"}

\* The loop ends: iterations used up, the deadline or Ctrl-C of the others, or
\* the stop file (which run-live does not look at).
LoopEnd(p) ==
    /\ pc[p] = "top"
    /\ job[p].cmd \in Counted => job[p].left = 0 \/ stop
    /\ Leave(p)
    /\ UNCHANGED <<disk, table, book, clock, ghost>>

\* Broken variant: run_cycle starts without asking the kill switch.
CycleBeginHalted(p) ==
    /\ pc[p] = "top"
    /\ job[p].cmd \in Counted => job[p].left > 0
    /\ Launch(p, "scan", [job[p] EXCEPT !.left = IF @ = 0 THEN 0 ELSE @ - 1])
    /\ UNCHANGED <<disk, table, book, clock, ghost>>

\* A cycle begins: not halted, the portfolio is loaded once; it is empty when
\* the account lookup fails.
CycleBegin(p) ==
    /\ pc[p] = "top"
    /\ job[p].cmd \in Counted => job[p].left > 0
    /\ ~stop
    /\ \E loaded \in IF job[p].cmd = "paper-loop" THEN {paper}
                     ELSE {Account, NoPortfolio} :
          Launch(p, "scan", [job[p] EXCEPT !.left = IF @ = 0 THEN 0 ELSE @ - 1,
                                           !.port = loaded])
    /\ UNCHANGED <<disk, table, book, clock, ghost>>

\* Every symbol has been seen: run_cycle returns, its portfolio goes.
CycleEnd(p) ==
    /\ pc[p] = "scan"
    /\ job[p].i > Len(Symbols)
    /\ Launch(p, "top", [job[p] EXCEPT !.i = 1, !.port = NoPortfolio])
    /\ UNCHANGED <<disk, table, book, clock, ghost>>

\* Broken variant: one symbol too many.
ScanPastEnd(p) ==
    /\ pc[p] = "scan"
    /\ job[p].i <= Len(Symbols) + 1
    /\ job' = [job EXCEPT ![p].i = @ + 1]
    /\ UNCHANGED <<disk, table, pc, book, clock, ghost>>

\* A symbol is passed over: halted, no price, a hold, or a signal the
\* intelligence filter turned into a hold.
ScanNothing(p) ==
    /\ pc[p] = "scan"
    /\ job[p].i <= Len(Symbols)
    /\ job' = [job EXCEPT ![p].i = @ + 1]
    /\ UNCHANGED <<disk, table, pc, book, clock, ghost>>

\* Broken variant: the cycle hands on the preview summary, whose count is 0.
ScanWithPreviewSummary(p) ==
    /\ pc[p] = "scan"
    /\ job[p].i <= Len(Symbols)
    /\ ~stop
    /\ LET s == Symbols[job[p].i]
       IN  Launch(p, "evaluate",
                  [job[p] EXCEPT !.sym  = s,
                                 !.side = IF job[p].port.held[s] > 0 THEN "sell" ELSE "buy",
                                 !.seen = 0,
                                 !.i    = @ + 1])
    /\ UNCHANGED <<disk, table, book, clock, ghost>>

\* A signal: a sell only of what the loaded portfolio holds, a buy only of what
\* it does not.  The daily summary is read here, before the risk manager runs.
ScanSignal(p) ==
    /\ pc[p] = "scan"
    /\ job[p].i <= Len(Symbols)
    /\ ~stop
    /\ LET s == Symbols[job[p].i]
       IN  Launch(p, "evaluate",
                  [job[p] EXCEPT !.sym  = s,
                                 !.side = IF job[p].port.held[s] > 0 THEN "sell" ELSE "buy",
                                 !.seen = tradeCount,
                                 !.i    = @ + 1])
    /\ UNCHANGED <<disk, table, book, clock, ghost>>

\* Done with one order: a loop goes on to its next symbol, with the portfolio
\* it has (a paper cycle reloads its own), any other command ends.
Done(p, port) ==
    IF job[p].cmd \in LoopCommands
    THEN Launch(p, "scan", [job[p] EXCEPT !.sym = Btc, !.side = "buy", !.seen = 0,
                                          !.port = port])
    ELSE Leave(p)

Passes(p) ==
    /\ RiskAllows(job[p].sym, job[p].side, job[p].port,
                  IF job[p].cmd = "smoke" THEN 0 ELSE job[p].seen,
                  IF job[p].cmd \in LoopCommands THEN Symbol ELSE AllowedSymbols)
    /\ job[p].cmd \notin {"dry-loop", "paper-loop"} => job[p].live

\* The risk manager allows: a cycle goes on to the broker, a manual command
\* prints its preview and waits for the typed confirmation.
EvaluateAllowed(p) ==
    /\ pc[p] = "evaluate"
    /\ Passes(p)
    /\ pc' = [pc EXCEPT ![p] =
                IF job[p].cmd \in ManualCommands THEN "confirm" ELSE "submit"]
    /\ UNCHANGED <<disk, table, job, book, clock, ghost>>

\* It blocks, for a reason above or, on a buy, for the symbol's share of the
\* account, whose arithmetic is left out.
EvaluateBlocked(p) ==
    /\ pc[p] = "evaluate"
    /\ Passes(p) => job[p].side = "buy"
    /\ Done(p, job[p].port)
    /\ UNCHANGED <<disk, table, book, clock, ghost>>

-----------------------------------------------------------------------------
(***************************************************************************)
(* The brokers and the bookkeeping after them.                             *)
(***************************************************************************)

AcceptBuy(s) ==
    /\ venue.cash >= 1
    /\ venue' = [venue EXCEPT !.cash = @ - 1, !.buys[s] = @ + 1]

AcceptSell(s) ==
    /\ Available(s) >= 1
    /\ venue' = [venue EXCEPT !.sells[s] = @ + 1]

Taken ==
    /\ accepted' = accepted + 1
    /\ late' = IF stop THEN late + 1 ELSE late

ToVenue(p) == pc[p] = "submit" /\ job[p].cmd \notin {"dry-loop", "paper-loop"}

\* The venue takes the order of process p.
VenueAccepts(p) ==
    /\ placed < MaxPlaced
    /\ IF job[p].side = "buy" THEN AcceptBuy(job[p].sym) ELSE AcceptSell(job[p].sym)
    /\ placed' = placed + 1
    /\ Taken

\* The order goes out and its answer comes back.
SubmitAccepted(p) ==
    /\ ToVenue(p)
    /\ VenueAccepts(p)
    /\ Launch(p, "log", [job[p] EXCEPT !.sent = @ + 1])
    /\ UNCHANGED <<disk, table, previews, paper, day, lost, uncounted, stale>>

\* The order goes out and the answer is lost (a timeout, a broken connection):
\* the exception is caught nowhere, the command dies and nothing is written.
SubmitAnswerLost(p) ==
    /\ ToVenue(p)
    /\ lost < MaxLost
    /\ VenueAccepts(p)
    /\ Leave(p)
    /\ lost' = lost + 1
    /\ uncounted' = uncounted + 1
    /\ UNCHANGED <<disk, table, previews, paper, day, stale>>

\* The venue refuses, or the request never arrives: the same exception.
SubmitRefused(p) ==
    /\ ToVenue(p)
    /\ Leave(p)
    /\ UNCHANGED <<disk, table, book, clock, ghost>>

\* The dry-run broker only prepares the payload.
SubmitPreview(p) ==
    /\ pc[p] = "submit" /\ job[p].cmd = "dry-loop"
    /\ pc' = [pc EXCEPT ![p] = "log"]
    /\ UNCHANGED <<disk, table, job, book, clock, ghost>>

\* PaperBroker.place_order fills at once and checks nothing.
FillPaper(p) ==
    /\ pc[p] = "submit" /\ job[p].cmd = "paper-loop"
    /\ LET n == IF job[p].side = "buy" THEN 1 ELSE -1
       IN  paper' = [paper EXCEPT !.cash = @ - n, !.held[job[p].sym] = @ + n]
    /\ pc' = [pc EXCEPT ![p] = "log"]
    /\ Taken
    /\ UNCHANGED <<disk, table, job, previews, venue, clock, uncounted, stale>>

\* Broken variant: increment_trade_count is forgotten after log_order.
LogWithoutCount(p) ==
    /\ pc[p] = "log"
    /\ cooling' = cooling \cup {job[p].sym}
    /\ Done(p, job[p].port)
    /\ UNCHANGED <<disk, tradeCount, book, clock, ghost>>

\* Broken variant: a smoke order is counted although it was not checked.
LogAndCountSmoke(p) ==
    /\ pc[p] = "log"
    /\ cooling' = cooling \cup {job[p].sym}
    /\ IF job[p].cmd = "dry-loop"
       THEN Done(p, job[p].port)
       ELSE Launch(p, "count", job[p])
    /\ UNCHANGED <<disk, tradeCount, book, clock, ghost>>

\* logger.log_order: a row whose timestamp starts the symbol's cooldown, for
\* a preview as well.  Only a preview and a smoke order stop here.
LogOrder(p) ==
    /\ pc[p] = "log"
    /\ cooling' = cooling \cup {job[p].sym}
    /\ IF job[p].cmd \in {"dry-loop", "smoke"}
       THEN Done(p, job[p].port)
       ELSE Launch(p, "count", job[p])
    /\ uncounted' = IF job[p].cmd = "smoke" THEN uncounted + 1 ELSE uncounted
    /\ UNCHANGED <<disk, tradeCount, book, clock, accepted, stale, late>>

\* logger.increment_trade_count, on the row of the day it runs in.
CountTrade(p) ==
    /\ pc[p] = "count"
    /\ tradeCount' = tradeCount + 1
    /\ stale' = IF job[p].cmd = "submit-smoke" THEN stale + 1 ELSE stale
    /\ Done(p, IF job[p].cmd = "paper-loop" THEN paper ELSE job[p].port)
    /\ UNCHANGED <<disk, cooling, book, clock, accepted, uncounted, late>>

-----------------------------------------------------------------------------
(***************************************************************************)
(* Supervised orders: gates, a risk check, a typed confirmation, the order.*)
(***************************************************************************)

Supervised(p, cmd, s, side) ==
    /\ side = "buy" => venue.cash >= 1
    /\ Launch(p, "evaluate",
              [NoJob EXCEPT !.cmd = cmd, !.live = TRUE, !.sym = s, !.side = side,
                            !.seen = tradeCount, !.port = Account])
    /\ UNCHANGED <<disk, table, book, clock, ghost>>

StartSmoke(p) ==
    /\ CanStart(p, "smoke")
    /\ envLive /\ cfgLive /\ ~stop
    /\ \E s \in AllowedSymbols, side \in Side : Supervised(p, "smoke", s, side)

StartSingle(p) ==
    /\ CanStart(p, "single")
    /\ envLive /\ cfgLive /\ ~stop
    /\ config.trades <= 1 /\ tradeCount < 1
    /\ \E side \in Side : Supervised(p, "single", Btc, side)

\* The typed text matches: the order is sent with no further look at the stop
\* file, the count or the cooldown.
Confirm(p) ==
    /\ pc[p] = "confirm"
    /\ pc' = [pc EXCEPT ![p] = "submit"]
    /\ UNCHANGED <<disk, table, job, book, clock, ghost>>

ConfirmRefused(p) ==
    /\ pc[p] = "confirm"
    /\ Leave(p)
    /\ UNCHANGED <<disk, table, book, clock, ghost>>

\* preview-smoke: the risk manager's verdict of now, kept with the order.
DashPreview ==
    /\ pc[Dash] = "idle" /\ "submit-smoke" \in Commands
    /\ Cardinality(previews) < MaxPreview
    /\ cfgLive
    /\ \E s \in Symbol, side \in Side :
          /\ RiskAllows(s, side, Account, tradeCount, AllowedSymbols)
          /\ previews' = previews \cup {[sym |-> s, side |-> side]}
    /\ UNCHANGED <<disk, table, pc, job, venue, paper, clock, ghost>>

\* submit-smoke: the readiness gates of now, the order of a stored preview,
\* which stays stored.
DashSubmit ==
    /\ pc[Dash] = "idle"
    /\ BoundedGates
    /\ \E v \in previews :
          Launch(Dash, "submit", [NoJob EXCEPT !.cmd = "submit-smoke", !.live = TRUE,
                                               !.sym = v.sym, !.side = v.side])
    /\ UNCHANGED <<disk, table, book, clock, ghost>>

-----------------------------------------------------------------------------
(***************************************************************************)
(* The operator, the clock, the venue, and failure.                        *)
(***************************************************************************)

CreateStop ==
    /\ ~stop
    /\ stop' = TRUE
    /\ UNCHANGED <<envLive, cfgLive, config, table, pc, job, book, clock, ghost>>

ClearStop ==
    /\ stop
    /\ stop' = FALSE
    /\ late' = 0
    /\ UNCHANGED <<envLive, cfgLive, config, table, pc, job, book, clock,
                   accepted, uncounted, stale>>

\* Two writes, .env first; a running process keeps what it has loaded.
ReturnToPaperEnv ==
    /\ envLive
    /\ envLive' = FALSE
    /\ UNCHANGED <<stop, cfgLive, config, table, pc, job, book, clock, ghost>>

ReturnToPaperRules ==
    /\ ~envLive /\ cfgLive
    /\ cfgLive' = FALSE
    /\ UNCHANGED <<stop, envLive, config, table, pc, job, book, clock, ghost>>

\* reset-daily-paper zeroes the one daily summary there is.
ResetDailyPaper ==
    /\ tradeCount > 0 /\ uncounted + tradeCount <= MaxReset
    /\ tradeCount' = 0
    /\ uncounted' = uncounted + tradeCount
    /\ UNCHANGED <<disk, cooling, pc, job, book, clock, accepted, stale, late>>

CooldownOver ==
    \E s \in cooling :
        /\ cooling' = cooling \ {s}
        /\ UNCHANGED <<disk, tradeCount, pc, job, book, clock, ghost>>

\* Orders that reached the venue and whose process has not finished with them.
Unsettled == {p \in Proc : pc[p] \in {"log", "count"} /\ job[p].cmd # "dry-loop"}

\* Midnight UTC: the summary of the new day starts at zero, and orders still
\* on their way into it are counted there.
NextDay ==
    /\ day < MaxDay
    /\ day' = day + 1
    /\ tradeCount' = 0
    /\ accepted' = Cardinality(Unsettled)
    /\ uncounted' = 0 /\ stale' = 0
    /\ UNCHANGED <<disk, cooling, pc, job, book, placed, lost, late>>

FillBuy(s) ==
    /\ venue.buys[s] > 0
    /\ venue' = [venue EXCEPT !.buys[s] = @ - 1, !.held[s] = @ + 1]

FillSell(s) ==
    /\ venue.sells[s] > 0
    /\ venue' = [venue EXCEPT !.sells[s] = @ - 1, !.held[s] = @ - 1, !.cash = @ + 1]

\* One order of cancel-open-live-orders; the command cancels the open orders it
\* listed one after the other and stops at the first that fails.
CancelBuy(s) ==
    /\ venue.buys[s] > 0
    /\ venue' = [venue EXCEPT !.buys[s] = @ - 1, !.cash = @ + 1]

CancelSell(s) ==
    /\ venue.sells[s] > 0
    /\ venue' = [venue EXCEPT !.sells[s] = @ - 1]

VenueMoves ==
    /\ \E s \in Symbol : FillBuy(s) \/ FillSell(s) \/ CancelBuy(s) \/ CancelSell(s)
    /\ UNCHANGED <<disk, table, pc, job, previews, paper, clock, ghost>>

\* A process dies between two steps.  An order it had at the venue stays there;
\* what it had not yet written stays unwritten.  The dashboard's previews live
\* in its memory.
Crash(p) ==
    /\ pc[p] # "idle"
    /\ lost < MaxLost
    /\ lost' = lost + 1
    /\ Leave(p)
    /\ uncounted' = IF p \in Unsettled THEN uncounted + 1 ELSE uncounted
    /\ previews' = IF p = Dash THEN {} ELSE previews
    /\ UNCHANGED <<disk, table, venue, paper, placed, day, accepted, stale, late>>

-----------------------------------------------------------------------------
\* What a running process does on its own.
Work(p) ==
    \/ Preflight(p) \/ PreflightFails(p) \/ LoopEnd(p) \/ CycleBegin(p) \/ CycleEnd(p)
    \/ ScanNothing(p) \/ ScanSignal(p)
    \/ EvaluateAllowed(p) \/ EvaluateBlocked(p)
    \/ SubmitAccepted(p) \/ SubmitAnswerLost(p) \/ SubmitRefused(p) \/ SubmitPreview(p)
    \/ FillPaper(p) \/ LogOrder(p) \/ CountTrade(p)

\* What an operator does with one.
Operate(p) ==
    \/ StartRunLive(p) \/ StartDryLoop(p) \/ StartPaperLoop(p) \/ StartLiveLoop(p) \/ StartBounded(p)
    \/ StartSmoke(p) \/ StartSingle(p)
    \/ Confirm(p) \/ ConfirmRefused(p)

Operator ==
    \/ DashPreview \/ DashSubmit
    \/ CreateStop \/ ClearStop
    \/ ReturnToPaperEnv \/ ReturnToPaperRules \/ ResetDailyPaper

Next ==
    \/ \E p \in Proc : Work(p) \/ Operate(p) \/ Crash(p)
    \/ Operator
    \/ CooldownOver \/ NextDay \/ VenueMoves

Spec == Init /\ [][Next]_vars

\* A running process keeps running: the operating system schedules it and its
\* HTTP calls time out.  The operator, the venue and the clock owe nothing.
FairSpec == Spec /\ \A p \in Proc : WF_vars(Work(p))

-----------------------------------------------------------------------------
(***************************************************************************)
(* Properties.                                                             *)
(***************************************************************************)

\* Processes whose order passed a check against trade_count and is not counted.
Checked == {p \in Proc : /\ pc[p] \in {"evaluate", "confirm", "submit", "log", "count"}
                         /\ job[p].cmd \in CountChecked
                         /\ job[p].seen < config.trades}

\* Processes that are past their last look at the stop file, with an order.
Armed == {p \in Proc : /\ pc[p] \in {"confirm", "submit"}
                       /\ job[p].cmd # "dry-loop"}

\* The day's trade_count is exactly the orders that were taken, less those some
\* process still has to count and less the named leaks: a smoke order from the
\* command line, a death between order and count, a reset.  Nothing is counted
\* twice and nothing else goes missing (logger.py, order_manager.py).
CountConserved == accepted = tradeCount + uncounted + Cardinality(Unsettled)

\* max_trades_per_day is a check and, later, a count, and nothing holds the two
\* together: the day can end above the cap by one order per further process,
\* and by the orders sent from previews checked earlier, and by no more
\* (risk_manager.py:58, logger.py:124).
DailyCapOvershoot ==
    tradeCount + Cardinality(Checked) <= config.trades + Cardinality(Proc) - 1 + stale

\* After STOP_TRADING appears each process completes at most the one order it
\* had already passed the risk manager with, however long its confirmation
\* takes (kill_switch.py, main.py:819, main.py:1148).
BrakeBound == stop => late + Cardinality(Armed) <= Cardinality(Proc)

\* A loop under a stop file that stays ends, and stays ended: at the latest when
\* the symbols of the running cycle have been passed over (main.py:1349,
\* main.py:1460, main.py:1927).
LoopsStop ==
    (<>[]stop) => \A p \in Proc :
        <>[](pc[p] = "idle" \/ job[p].cmd \notin {"bounded", "live-loop"})
=============================================================================
