-------------------------- MODULE CryptoLaneProofs --------------------------
(***************************************************************************)
(* The safety properties of CryptoLane for every list of symbols, every    *)
(* number of processes and every bound.                                    *)
(***************************************************************************)
EXTENDS CryptoLane, FiniteSetTheorems, TLAPS

\* What the venue has promised to sell it still holds.
Covered == \A s \in Symbol : venue.sells[s] <= venue.held[s]

Inv == TypeOK /\ Covered

-----------------------------------------------------------------------------
\* The first symbol is a symbol, and so is every one a cycle reaches.
LEMMA SymbolFacts ==
    /\ Btc \in Symbol
    /\ \A k \in 1..Len(Symbols) : Symbols[k] \in Symbol
    /\ Len(Symbols) \in Nat
BY SymbolsAssumption DEF Symbol, Btc

LEMMA NoJobType == NoJob \in Job /\ NoPortfolio \in Portfolio
BY SymbolFacts DEF NoJob, NoPortfolio, Empty, Job, Portfolio, AllCommands,
   LoopCommands, ManualCommands, Side

\* The account as the program loads it is a portfolio.
LEMMA AccountType == ASSUME TypeOK PROVE Account \in Portfolio
BY DEF TypeOK, Account, Available, Portfolio, Venue

\* Launch is the one way pc and job change together.
LEMMA LaunchType ==
    ASSUME TypeOK, NEW p \in Proc, NEW at \in Pc, NEW fresh \in Job,
           Launch(p, at, fresh)
    PROVE  pc' \in [Proc -> Pc] /\ job' \in [Proc -> Job]
BY DEF TypeOK, Launch

LEMMA LeaveType ==
    ASSUME TypeOK, NEW p \in Proc, Leave(p)
    PROVE  pc' \in [Proc -> Pc] /\ job' \in [Proc -> Job]
BY NoJobType, LaunchType DEF Leave, Pc

LEMMA DoneType ==
    ASSUME TypeOK, NEW p \in Proc, NEW port \in Portfolio, Done(p, port)
    PROVE  pc' \in [Proc -> Pc] /\ job' \in [Proc -> Job]
<1>1. CASE job[p].cmd \in LoopCommands
  <2>1. [job[p] EXCEPT !.sym = Btc, !.side = "buy", !.seen = 0, !.port = port] \in Job
    BY SymbolFacts DEF TypeOK, Job, Side
  <2>2. QED
    BY <1>1, <2>1, LaunchType DEF Done, Pc
<1>2. CASE job[p].cmd \notin LoopCommands
  BY <1>2, LeaveType DEF Done
<1>3. QED
  BY <1>1, <1>2

\* The processes are finitely many, and so is any set of them.
LEMMA ProcFinite ==
    /\ IsFiniteSet(Proc) /\ Cardinality(Proc) \in Nat \ {0} /\ Dash \in Proc
    /\ \A S \in SUBSET Proc : /\ IsFiniteSet(S) /\ Cardinality(S) \in Nat
                              /\ Cardinality(S) <= Cardinality(Proc)
<1>1. IsFiniteSet(Proc)
  BY ProcAssumption, FS_AddElement DEF Proc
<1>2. \A S \in SUBSET Proc : /\ IsFiniteSet(S) /\ Cardinality(S) \in Nat
                             /\ Cardinality(S) <= Cardinality(Proc)
  BY <1>1, FS_Subset, FS_CardinalityType
<1>3. Cardinality(Proc) # 0
  BY <1>1, FS_EmptySet DEF Proc
<1>4. QED
  BY <1>1, <1>2, <1>3, FS_CardinalityType DEF Proc

-----------------------------------------------------------------------------
(***************************************************************************)
(* Type correctness.                                                       *)
(***************************************************************************)

\* The variables that pc and job leave alone.
Rest == <<disk, table, book, clock, ghost>>

LEMMA MoveType ==
    ASSUME Inv, UNCHANGED Rest,
           pc' \in [Proc -> Pc], job' \in [Proc -> Job]
    PROVE  Inv'
BY DEF Inv, TypeOK, Covered, Rest, disk, table, book, clock, ghost, Portfolio

\* Moving pc alone.
LEMMA PcType ==
    ASSUME TypeOK, NEW p \in Proc, NEW at \in Pc, pc' = [pc EXCEPT ![p] = at]
    PROVE  pc' \in [Proc -> Pc]
BY DEF TypeOK

LEMMA StartInv ==
    ASSUME Inv, NEW p \in Proc, Operate(p)
    PROVE  Inv'
<1> USE DEF Inv
<1>0. TypeOK
  OBVIOUS
<1>1. CASE StartRunLive(p)
  <2>1. [NoJob EXCEPT !.live = cfgLive] \in Job
    BY NoJobType DEF TypeOK, Job
  <2>2. QED
    BY <1>1, <2>1, LaunchType, MoveType DEF StartRunLive, Pc, Rest
<1>2. CASE StartDryLoop(p)
  <2>1. [NoJob EXCEPT !.cmd = "dry-loop", !.left = MaxIter] \in Job
    BY NoJobType, BoundAssumption DEF Job, AllCommands, LoopCommands
  <2>2. QED
    BY <1>2, <2>1, LaunchType, MoveType DEF StartDryLoop, Pc, Rest
<1>3. CASE StartPaperLoop(p)
  <2>1. [NoJob EXCEPT !.cmd = "paper-loop"] \in Job
    BY NoJobType DEF Job, AllCommands, LoopCommands
  <2>2. QED
    BY <1>3, <2>1, LaunchType, MoveType DEF StartPaperLoop, Pc, Rest
<1>4. CASE StartLiveLoop(p)
  <2>1. [NoJob EXCEPT !.cmd = "live-loop", !.live = TRUE] \in Job
    BY NoJobType DEF Job, AllCommands, LoopCommands
  <2>2. QED
    BY <1>4, <2>1, LaunchType, MoveType DEF StartLiveLoop, Pc, Rest
<1>5. CASE StartBounded(p)
  <2>1. [NoJob EXCEPT !.cmd = "bounded", !.live = TRUE,
                      !.left = IF p = Dash THEN 1 ELSE MaxIter] \in Job
    BY NoJobType, BoundAssumption DEF Job, AllCommands, LoopCommands
  <2>2. QED
    BY <1>5, <2>1, LaunchType, MoveType DEF StartBounded, Pc, Rest
<1>6. ASSUME NEW cmd \in ManualCommands, NEW s \in Symbol, NEW side \in Side,
             Supervised(p, cmd, s, side)
      PROVE  Inv'
  <2>1. [NoJob EXCEPT !.cmd = cmd, !.live = TRUE, !.sym = s, !.side = side,
                      !.seen = tradeCount, !.port = Account] \in Job
    BY NoJobType, AccountType DEF TypeOK, Job, AllCommands
  <2>2. QED
    BY <1>6, <2>1, LaunchType, MoveType DEF Supervised, Pc, Rest
<1>7. CASE StartSmoke(p)
  BY <1>6, <1>7, SymbolFacts DEF StartSmoke, AllowedSymbols, ManualCommands
<1>8. CASE StartSingle(p)
  BY <1>6, <1>8, SymbolFacts DEF StartSingle, ManualCommands
<1>9. CASE Confirm(p)
  BY <1>9, PcType, MoveType DEF Confirm, Pc, Rest, TypeOK
<1>10. CASE ConfirmRefused(p)
  BY <1>10, LeaveType, MoveType DEF ConfirmRefused, Rest
<1>11. QED
  BY <1>1, <1>2, <1>3, <1>4, <1>5, <1>7, <1>8, <1>9, <1>10 DEF Operate

\* The steps of a running command that touch neither table, book nor ghosts.
Quiet(p) ==
    \/ Preflight(p) \/ PreflightFails(p) \/ LoopEnd(p) \/ CycleBegin(p) \/ CycleEnd(p)
    \/ ScanNothing(p) \/ ScanSignal(p)
    \/ EvaluateAllowed(p) \/ EvaluateBlocked(p)
    \/ SubmitRefused(p) \/ SubmitPreview(p)

LEMMA QuietInv ==
    ASSUME Inv, NEW p \in Proc, Quiet(p)
    PROVE  Inv'
<1> USE DEF Inv
<1>0. TypeOK /\ job[p] \in Job
  BY DEF TypeOK
<1>1. CASE Preflight(p)
  BY <1>1, PcType, MoveType DEF Preflight, Pc, Rest, TypeOK
<1>2. CASE PreflightFails(p)
  BY <1>2, LeaveType, MoveType DEF PreflightFails, Rest
<1>3. CASE LoopEnd(p)
  BY <1>3, LeaveType, MoveType DEF LoopEnd, Rest
<1>4. CASE CycleBegin(p)
  <2>1. PICK loaded \in {paper, Account, NoPortfolio} :
          Launch(p, "scan", [job[p] EXCEPT !.left = IF @ = 0 THEN 0 ELSE @ - 1,
                                           !.port = loaded])
    BY <1>4 DEF CycleBegin
  <2>2. loaded \in Portfolio
    BY AccountType, NoJobType DEF TypeOK
  <2>3. [job[p] EXCEPT !.left = IF @ = 0 THEN 0 ELSE @ - 1, !.port = loaded] \in Job
    <3> DEFINE n == IF job[p].left = 0 THEN 0 ELSE job[p].left - 1
    <3>1. n \in Nat
      BY <1>0 DEF Job
    <3> HIDE DEF n
    <3>2. [job[p] EXCEPT !.left = n, !.port = loaded] \in Job
      BY <1>0, <2>2, <3>1 DEF Job
    <3>3. QED
      BY <3>2 DEF n
  <2>4. QED
    BY <1>4, <2>1, <2>3, LaunchType, MoveType DEF CycleBegin, Pc, Rest
<1>5. CASE CycleEnd(p)
  <2>0. 1 \in 1..(Len(Symbols)+1)
    BY SymbolFacts
  <2>1. [job[p] EXCEPT !.i = 1, !.port = NoPortfolio] \in Job
    BY <1>0, <2>0, NoJobType DEF Job
  <2>2. QED
    BY <1>5, <2>1, LaunchType, MoveType DEF CycleEnd, Pc, Rest
<1>6. CASE ScanNothing(p)
  <2>1. job[p].i + 1 \in 1..(Len(Symbols)+1)
    BY <1>0, <1>6, SymbolFacts DEF ScanNothing, Job
  <2>2. [job[p] EXCEPT !.i = @ + 1] \in Job
    BY <1>0, <2>1 DEF Job
  <2>3. job' \in [Proc -> Job]
    BY <1>6, <2>2 DEF ScanNothing, TypeOK
  <2>4. QED
    BY <1>6, <2>3, MoveType DEF ScanNothing, Rest, TypeOK
<1>7. CASE ScanSignal(p)
  <2>1. job[p].i + 1 \in 1..(Len(Symbols)+1) /\ Symbols[job[p].i] \in Symbol
    BY <1>0, <1>7, SymbolFacts DEF ScanSignal, Job
  <2>2. [job[p] EXCEPT !.sym  = Symbols[job[p].i],
                       !.side = IF job[p].port.held[Symbols[job[p].i]] > 0
                                THEN "sell" ELSE "buy",
                       !.seen = tradeCount,
                       !.i    = @ + 1] \in Job
    BY <1>0, <2>1 DEF Job, Side, TypeOK
  <2>3. QED
    BY <1>7, <2>2, LaunchType, MoveType DEF ScanSignal, Pc, Rest
<1>8. CASE EvaluateAllowed(p)
  BY <1>8, PcType, MoveType DEF EvaluateAllowed, Pc, Rest, TypeOK
<1>9. CASE EvaluateBlocked(p)
  <2>1. job[p].port \in Portfolio
    BY <1>0 DEF Job
  <2>2. QED
    BY <1>9, <2>1, DoneType, MoveType DEF EvaluateBlocked, Rest
<1>10. CASE SubmitRefused(p)
  BY <1>10, LeaveType, MoveType DEF SubmitRefused, Rest
<1>11. CASE SubmitPreview(p)
  BY <1>11, PcType, MoveType DEF SubmitPreview, Pc, Rest, TypeOK
<1>12. QED
  BY <1>1, <1>2, <1>3, <1>4, <1>5, <1>6, <1>7, <1>8, <1>9, <1>10, <1>11 DEF Quiet

\* What the venue does with an order keeps its books in order.
VenueInv == venue \in Venue /\ Covered

LEMMA VenueFields ==
    ASSUME NEW cash \in Nat, NEW held \in [Symbol -> Nat], NEW buys \in [Symbol -> Nat],
           NEW sells \in [Symbol -> Nat], \A s \in Symbol : sells[s] <= held[s],
           venue' = [cash |-> cash, held |-> held, buys |-> buys, sells |-> sells]
    PROVE  VenueInv'
BY DEF VenueInv, Venue, Covered

LEMMA VenueStep ==
    ASSUME VenueInv, NEW s \in Symbol,
           \/ AcceptBuy(s) \/ AcceptSell(s)
           \/ FillBuy(s) \/ FillSell(s) \/ CancelBuy(s) \/ CancelSell(s)
    PROVE  VenueInv'
<1> DEFINE v == venue
<1>0. /\ v.cash \in Nat /\ v.held \in [Symbol -> Nat]
      /\ v.buys \in [Symbol -> Nat] /\ v.sells \in [Symbol -> Nat]
      /\ v = [cash |-> v.cash, held |-> v.held, buys |-> v.buys, sells |-> v.sells]
      /\ \A x \in Symbol : v.sells[x] <= v.held[x]
  BY DEF VenueInv, Venue, Covered
<1>1. CASE AcceptBuy(s)
  <2>1. venue' = [cash |-> v.cash - 1, held |-> v.held,
                  buys |-> [v.buys EXCEPT ![s] = @ + 1], sells |-> v.sells]
    BY <1>0, <1>1 DEF AcceptBuy
  <2>2. v.cash - 1 \in Nat /\ [v.buys EXCEPT ![s] = @ + 1] \in [Symbol -> Nat]
    BY <1>0, <1>1 DEF AcceptBuy
  <2>3. QED
    BY <1>0, <2>1, <2>2, VenueFields
<1>2. CASE AcceptSell(s)
  <2>1. venue' = [cash |-> v.cash, held |-> v.held, buys |-> v.buys,
                  sells |-> [v.sells EXCEPT ![s] = @ + 1]]
    BY <1>0, <1>2 DEF AcceptSell
  <2>2. /\ [v.sells EXCEPT ![s] = @ + 1] \in [Symbol -> Nat]
        /\ \A x \in Symbol : [v.sells EXCEPT ![s] = @ + 1][x] <= v.held[x]
    BY <1>0, <1>2 DEF AcceptSell, Available
  <2>3. QED
    BY <1>0, <2>1, <2>2, VenueFields
<1>3. CASE FillBuy(s)
  <2>1. venue' = [cash |-> v.cash, held |-> [v.held EXCEPT ![s] = @ + 1],
                  buys |-> [v.buys EXCEPT ![s] = @ - 1], sells |-> v.sells]
    BY <1>0, <1>3 DEF FillBuy
  <2>2. /\ [v.held EXCEPT ![s] = @ + 1] \in [Symbol -> Nat]
        /\ [v.buys EXCEPT ![s] = @ - 1] \in [Symbol -> Nat]
        /\ \A x \in Symbol : v.sells[x] <= [v.held EXCEPT ![s] = @ + 1][x]
    BY <1>0, <1>3 DEF FillBuy
  <2>3. QED
    BY <1>0, <2>1, <2>2, VenueFields
<1>4. CASE FillSell(s)
  <2>1. venue' = [cash |-> v.cash + 1, held |-> [v.held EXCEPT ![s] = @ - 1],
                  buys |-> v.buys, sells |-> [v.sells EXCEPT ![s] = @ - 1]]
    BY <1>0, <1>4 DEF FillSell
  <2>2. /\ [v.held EXCEPT ![s] = @ - 1] \in [Symbol -> Nat]
        /\ [v.sells EXCEPT ![s] = @ - 1] \in [Symbol -> Nat]
        /\ \A x \in Symbol : [v.sells EXCEPT ![s] = @ - 1][x]
                               <= [v.held EXCEPT ![s] = @ - 1][x]
    BY <1>0, <1>4 DEF FillSell
  <2>3. v.cash + 1 \in Nat
    BY <1>0
  <2>4. QED
    BY <1>0, <2>1, <2>2, <2>3, VenueFields
<1>5. CASE CancelBuy(s)
  <2>1. venue' = [cash |-> v.cash + 1, held |-> v.held,
                  buys |-> [v.buys EXCEPT ![s] = @ - 1], sells |-> v.sells]
    BY <1>0, <1>5 DEF CancelBuy
  <2>2. v.cash + 1 \in Nat /\ [v.buys EXCEPT ![s] = @ - 1] \in [Symbol -> Nat]
    BY <1>0, <1>5 DEF CancelBuy
  <2>3. QED
    BY <1>0, <2>1, <2>2, VenueFields
<1>6. CASE CancelSell(s)
  <2>1. venue' = [cash |-> v.cash, held |-> v.held, buys |-> v.buys,
                  sells |-> [v.sells EXCEPT ![s] = @ - 1]]
    BY <1>0, <1>6 DEF CancelSell
  <2>2. /\ [v.sells EXCEPT ![s] = @ - 1] \in [Symbol -> Nat]
        /\ \A x \in Symbol : [v.sells EXCEPT ![s] = @ - 1][x] <= v.held[x]
    BY <1>0, <1>6 DEF CancelSell
  <2>3. QED
    BY <1>0, <2>1, <2>2, VenueFields
<1>7. QED
  BY <1>1, <1>2, <1>3, <1>4, <1>5, <1>6

LEMMA VenueAcceptsInv ==
    ASSUME Inv, NEW p \in Proc, VenueAccepts(p)
    PROVE  VenueInv' /\ placed' \in Nat /\ accepted' \in Nat /\ late' \in Nat
<1>1. job[p].sym \in Symbol /\ VenueInv
  BY DEF Inv, TypeOK, Job, VenueInv
<1>2. VenueInv'
  BY <1>1, VenueStep DEF VenueAccepts
<1>3. QED
  BY <1>2 DEF VenueAccepts, Taken, Inv, TypeOK

LEMMA VenueMovesInv ==
    ASSUME Inv, VenueMoves
    PROVE  Inv'
<1>1. VenueInv'
  BY VenueStep DEF VenueMoves, VenueInv, Inv, TypeOK
<1>2. QED
  BY <1>1 DEF VenueMoves, VenueInv, Inv, TypeOK, disk, table, clock, ghost, Covered, Portfolio

\* The broker's answer and the bookkeeping after it.
Booked(p) ==
    \/ SubmitAccepted(p) \/ SubmitAnswerLost(p) \/ FillPaper(p)
    \/ LogOrder(p) \/ CountTrade(p)

LEMMA BookedInv ==
    ASSUME Inv, NEW p \in Proc, Booked(p)
    PROVE  Inv'
<1> USE DEF Inv
<1>0. TypeOK /\ job[p] \in Job /\ job[p].port \in Portfolio /\ job[p].sym \in Symbol
  BY DEF TypeOK, Job
<1>1. CASE SubmitAccepted(p)
  <2>1. [job[p] EXCEPT !.sent = @ + 1] \in Job
    BY <1>0 DEF Job
  <2>2. pc' \in [Proc -> Pc] /\ job' \in [Proc -> Job]
    BY <1>1, <2>1, LaunchType DEF SubmitAccepted, Pc
  <2>3. VenueInv' /\ placed' \in Nat /\ accepted' \in Nat /\ late' \in Nat
    BY <1>1, VenueAcceptsInv DEF SubmitAccepted
  <2>4. QED
    BY <1>1, <2>2, <2>3 DEF SubmitAccepted, VenueInv, TypeOK, disk, table, Portfolio
<1>2. CASE SubmitAnswerLost(p)
  <2>1. pc' \in [Proc -> Pc] /\ job' \in [Proc -> Job]
    BY <1>2, LeaveType DEF SubmitAnswerLost
  <2>2. VenueInv' /\ placed' \in Nat /\ accepted' \in Nat /\ late' \in Nat
    BY <1>2, VenueAcceptsInv DEF SubmitAnswerLost
  <2>3. QED
    BY <1>2, <2>1, <2>2 DEF SubmitAnswerLost, VenueInv, TypeOK, disk, table, Portfolio
<1>3. CASE FillPaper(p)
  <2>1. pc' \in [Proc -> Pc]
    BY <1>0, <1>3, PcType DEF FillPaper, Pc
  <2>1a. accepted' \in Nat /\ late' \in Nat
    BY <1>0, <1>3 DEF FillPaper, Taken, TypeOK
  <2>2. paper' \in Portfolio
    <3> DEFINE n == IF job[p].side = "buy" THEN 1 ELSE -1
               f == [paper.held EXCEPT ![job[p].sym] = @ + n]
    <3>1. n \in Int /\ paper.cash \in Int /\ paper.held \in [Symbol -> Int]
      BY <1>0 DEF TypeOK, Portfolio
    <3>2. paper' = [cash |-> paper.cash - n, held |-> f]
      BY <1>0, <1>3 DEF FillPaper, TypeOK, Portfolio
    <3>3. f \in [Symbol -> Int] /\ paper.cash - n \in Int
      BY <1>0, <3>1
    <3>4. QED
      BY <3>2, <3>3 DEF Portfolio
  <2>3. QED
    BY <1>3, <2>1, <2>1a, <2>2 DEF FillPaper, TypeOK, Covered, disk, table, clock
<1>4. CASE LogOrder(p)
  <2>1. pc' \in [Proc -> Pc] /\ job' \in [Proc -> Job]
    BY <1>0, <1>4, DoneType, LaunchType DEF LogOrder, Pc
  <2>2. cooling' \subseteq Symbol /\ uncounted' \in Nat
    BY <1>0, <1>4 DEF LogOrder, TypeOK
  <2>3. QED
    BY <1>4, <2>1, <2>2 DEF LogOrder, TypeOK, Covered, disk, book, clock, Portfolio
<1>5. CASE CountTrade(p)
  <2>1. pc' \in [Proc -> Pc] /\ job' \in [Proc -> Job]
    <3>1. (IF job[p].cmd = "paper-loop" THEN paper ELSE job[p].port) \in Portfolio
      BY <1>0 DEF TypeOK
    <3>2. QED
      BY <1>5, <3>1, <1>0, DoneType DEF CountTrade
  <2>2. tradeCount' \in Nat /\ stale' \in Nat
    BY <1>0, <1>5 DEF CountTrade, TypeOK
  <2>3. QED
    BY <1>5, <2>1, <2>2 DEF CountTrade, TypeOK, Covered, disk, book, clock, Portfolio
<1>6. QED
  BY <1>1, <1>2, <1>3, <1>4, <1>5 DEF Booked

LEMMA CrashInv ==
    ASSUME Inv, NEW p \in Proc, Crash(p)
    PROVE  Inv'
<1>1. pc' \in [Proc -> Pc] /\ job' \in [Proc -> Job]
  BY LeaveType DEF Crash, Inv
<1>2. QED
  BY <1>1 DEF Crash, Inv, TypeOK, Covered, disk, table, Portfolio

LEMMA OperatorInv ==
    ASSUME Inv, Operator
    PROVE  Inv'
<1> USE DEF Inv
<1>0. TypeOK
  OBVIOUS
<1>1. CASE DashPreview
  <2>1. previews' \subseteq [sym : Symbol, side : Side]
    BY <1>0, <1>1 DEF DashPreview, TypeOK
  <2>2. QED
    BY <1>1, <2>1 DEF DashPreview, TypeOK, Covered, disk, table, clock, ghost, Portfolio
<1>2. CASE DashSubmit
  <2>1. PICK v \in previews :
          Launch(Dash, "submit", [NoJob EXCEPT !.cmd = "submit-smoke", !.live = TRUE,
                                               !.sym = v.sym, !.side = v.side])
    BY <1>2 DEF DashSubmit
  <2>2. v.sym \in Symbol /\ v.side \in Side
    BY <1>0 DEF TypeOK
  <2>3. [NoJob EXCEPT !.cmd = "submit-smoke", !.live = TRUE,
                      !.sym = v.sym, !.side = v.side] \in Job
    BY <2>2, NoJobType DEF Job, AllCommands
  <2>4. QED
    BY <1>2, <2>1, <2>3, LaunchType, MoveType, ProcFinite DEF DashSubmit, Pc, Rest
<1>3. CASE CreateStop
  BY <1>3 DEF CreateStop, TypeOK, Covered, table, book, clock, ghost
<1>4. CASE ClearStop
  BY <1>4 DEF ClearStop, TypeOK, Covered, table, book, clock
<1>5. CASE ReturnToPaperEnv
  BY <1>5 DEF ReturnToPaperEnv, TypeOK, Covered, table, book, clock, ghost
<1>6. CASE ReturnToPaperRules
  BY <1>6 DEF ReturnToPaperRules, TypeOK, Covered, table, book, clock, ghost
<1>7. CASE ResetDailyPaper
  BY <1>7 DEF ResetDailyPaper, TypeOK, Covered, disk, book, clock
<1>8. QED
  BY <1>1, <1>2, <1>3, <1>4, <1>5, <1>6, <1>7 DEF Operator

LEMMA ClockInv ==
    ASSUME Inv, CooldownOver \/ NextDay
    PROVE  Inv'
<1>1. Cardinality(Unsettled) \in Nat
  BY ProcFinite DEF Unsettled
<1>2. CASE CooldownOver
  BY <1>2 DEF CooldownOver, Inv, TypeOK, Covered, disk, book, clock, ghost, Portfolio
<1>3. CASE NextDay
  BY <1>1, <1>3 DEF NextDay, Inv, TypeOK, Covered, disk, book, Portfolio
<1>4. QED
  BY <1>2, <1>3

-----------------------------------------------------------------------------
LEMMA InitInv == Init => Inv
<1> SUFFICES ASSUME Init PROVE Inv
  OBVIOUS
<1>1. Empty \in [Symbol -> Nat] /\ Empty \in [Symbol -> Int] /\ Cash0 \in Nat
  BY BoundAssumption DEF Empty
<1>2. venue \in Venue /\ paper \in Portfolio
  BY <1>1 DEF Init, Venue, Portfolio
<1>3. Covered
  BY DEF Init, Covered, Empty
<1>4. pc \in [Proc -> Pc] /\ job \in [Proc -> Job]
  BY NoJobType DEF Init, Pc
<1>5. config \in Config
  BY ConfigAssumption DEF Init
<1>6. QED
  BY <1>2, <1>3, <1>4, <1>5 DEF Init, Inv, TypeOK

\* The shape of Next that the proofs below split on.
LEMMA NextCases ==
    ASSUME Next
    PROVE  \/ \E p \in Proc : Operate(p) \/ Quiet(p) \/ Booked(p) \/ Crash(p)
           \/ Operator \/ CooldownOver \/ NextDay \/ VenueMoves
BY DEF Next, Work, Quiet, Booked

LEMMA NextInv == Inv /\ [Next]_vars => Inv'
<1> SUFFICES ASSUME Inv, [Next]_vars PROVE Inv'
  OBVIOUS
<1>1. CASE Next
  BY <1>1, NextCases, StartInv, QuietInv, BookedInv, CrashInv, OperatorInv,
     ClockInv, VenueMovesInv
<1>2. CASE UNCHANGED vars
  BY <1>2 DEF vars, disk, table, book, clock, ghost, Inv, TypeOK, Covered, Portfolio
<1>3. QED
  BY <1>1, <1>2

LEMMA SpecInv == Spec => []Inv
BY InitInv, NextInv, PTL DEF Spec

\* Every variable keeps its type; the venue's part of it needs that no more is
\* promised for sale than is held.
THEOREM TypeCorrect == Spec => []TypeOK
BY SpecInv, PTL DEF Inv

-----------------------------------------------------------------------------
(***************************************************************************)
(* What a step of one process does, as far as the bounds below can see it. *)
(***************************************************************************)

OthersStay(p) == \A q \in Proc \ {p} : pc'[q] = pc[q] /\ job'[q] = job[q]

Shared == <<stop, config, tradeCount, ghost>>

\* The ways the process itself can move without touching what is shared.
Local(p) ==
    \/ /\ pc[p] \notin {"log", "count"}
       /\ pc'[p] \in {"idle", "preflight", "top", "scan"}
    \/ /\ pc[p] \in {"idle", "scan"} /\ pc'[p] = "evaluate"
       /\ job'[p].seen = tradeCount
    \/ /\ pc[p] = "evaluate" /\ pc'[p] \in {"confirm", "submit"}
       /\ job'[p] = job[p]
       /\ ~stop
       /\ job[p].cmd \in CountChecked => job[p].seen < config.trades
    \/ pc[p] = "confirm" /\ pc'[p] = "submit" /\ job'[p] = job[p]
    \/ pc[p] = "submit" /\ pc'[p] = "log" /\ job'[p] = job[p] /\ job[p].cmd = "dry-loop"

LEMMA LaunchLocal ==
    ASSUME TypeOK, NEW p \in Proc, NEW at, NEW fresh, Launch(p, at, fresh)
    PROVE  OthersStay(p) /\ pc'[p] = at /\ job'[p] = fresh
BY DEF TypeOK, Launch, OthersStay

LEMMA LeaveLocal ==
    ASSUME TypeOK, NEW p \in Proc, Leave(p)
    PROVE  OthersStay(p) /\ pc'[p] = "idle"
BY LaunchLocal DEF Leave

LEMMA DoneLocal ==
    ASSUME TypeOK, NEW p \in Proc, NEW port, Done(p, port)
    PROVE  OthersStay(p) /\ pc'[p] \in {"idle", "scan"}
BY LaunchLocal, LeaveLocal DEF Done

LEMMA PcLocal ==
    ASSUME TypeOK, NEW p \in Proc, NEW at, pc' = [pc EXCEPT ![p] = at], job' = job
    PROVE  OthersStay(p) /\ pc'[p] = at /\ job'[p] = job[p]
BY DEF TypeOK, OthersStay

LEMMA OperateMoves ==
    ASSUME TypeOK, NEW p \in Proc, Operate(p)
    PROVE  OthersStay(p) /\ Local(p) /\ UNCHANGED Shared
<1> USE DEF Shared, disk, table
<1>1. CASE StartRunLive(p)
  BY <1>1, LaunchLocal DEF StartRunLive, CanStart, Local
<1>2. CASE StartDryLoop(p)
  BY <1>2, LaunchLocal DEF StartDryLoop, CanStart, Local
<1>3. CASE StartPaperLoop(p)
  BY <1>3, LaunchLocal DEF StartPaperLoop, CanStart, Local
<1>4. CASE StartLiveLoop(p)
  BY <1>4, LaunchLocal DEF StartLiveLoop, CanStart, Local
<1>5. CASE StartBounded(p)
  BY <1>5, LaunchLocal DEF StartBounded, CanStart, Local
<1>6. ASSUME NEW cmd, NEW s, NEW side, pc[p] = "idle", Supervised(p, cmd, s, side)
      PROVE  OthersStay(p) /\ Local(p) /\ UNCHANGED Shared
  <2> DEFINE j == [NoJob EXCEPT !.cmd = cmd, !.live = TRUE, !.sym = s, !.side = side,
                                !.seen = tradeCount, !.port = Account]
  <2>1. j.seen = tradeCount
    BY NoJobType DEF NoJob
  <2>2. OthersStay(p) /\ pc'[p] = "evaluate" /\ job'[p] = j
    BY <1>6, LaunchLocal DEF Supervised
  <2>3. QED
    BY <1>6, <2>1, <2>2 DEF Supervised, Local
<1>7. CASE StartSmoke(p)
  BY <1>6, <1>7 DEF StartSmoke, CanStart
<1>8. CASE StartSingle(p)
  BY <1>6, <1>8 DEF StartSingle, CanStart
<1>9. CASE Confirm(p)
  BY <1>9, PcLocal DEF Confirm, Local
<1>10. CASE ConfirmRefused(p)
  BY <1>10, LeaveLocal DEF ConfirmRefused, Local
<1>11. QED
  BY <1>1, <1>2, <1>3, <1>4, <1>5, <1>7, <1>8, <1>9, <1>10 DEF Operate

LEMMA QuietMoves ==
    ASSUME TypeOK, NEW p \in Proc, Quiet(p)
    PROVE  OthersStay(p) /\ Local(p) /\ UNCHANGED Shared
<1> USE DEF Shared, disk, table
<1>1. CASE Preflight(p)
  BY <1>1, PcLocal DEF Preflight, Local
<1>2. CASE PreflightFails(p) \/ LoopEnd(p) \/ SubmitRefused(p)
  BY <1>2, LeaveLocal DEF PreflightFails, LoopEnd, SubmitRefused, ToVenue, Local
<1>3. CASE CycleBegin(p)
  BY <1>3, LaunchLocal DEF CycleBegin, Local
<1>4. CASE CycleEnd(p)
  BY <1>4, LaunchLocal DEF CycleEnd, Local
<1>5. CASE ScanNothing(p)
  BY <1>5 DEF ScanNothing, Local, OthersStay, TypeOK
<1>6. CASE ScanSignal(p)
  <2> DEFINE j == [job[p] EXCEPT
                     !.sym  = Symbols[job[p].i],
                     !.side = IF job[p].port.held[Symbols[job[p].i]] > 0
                              THEN "sell" ELSE "buy",
                     !.seen = tradeCount,
                     !.i    = @ + 1]
  <2>1. j.seen = tradeCount
    BY DEF TypeOK, Job
  <2>2. OthersStay(p) /\ pc'[p] = "evaluate" /\ job'[p] = j
    BY <1>6, LaunchLocal DEF ScanSignal
  <2>3. QED
    BY <1>6, <2>1, <2>2 DEF ScanSignal, Local
<1>7. CASE EvaluateAllowed(p)
  <2>1. ~stop /\ (job[p].cmd \in CountChecked => job[p].seen < config.trades)
    BY <1>7 DEF EvaluateAllowed, Passes, RiskAllows, CountChecked
  <2>2. QED
    BY <1>7, <2>1, PcLocal DEF EvaluateAllowed, Local
<1>8. CASE EvaluateBlocked(p)
  BY <1>8, DoneLocal DEF EvaluateBlocked, Local
<1>9. CASE SubmitPreview(p)
  BY <1>9, PcLocal DEF SubmitPreview, Local
<1>10. QED
  BY <1>1, <1>2, <1>3, <1>4, <1>5, <1>6, <1>7, <1>8, <1>9 DEF Quiet

\* The broker's answer takes the process out of "submit"; the rest of the
\* bookkeeping goes on from "log" and "count".
LEMMA BookedMoves ==
    ASSUME TypeOK, NEW p \in Proc, Booked(p)
    PROVE  /\ OthersStay(p) /\ UNCHANGED <<stop, config>>
           /\ \/ /\ SubmitAccepted(p) \/ FillPaper(p)
                 /\ pc[p] = "submit" /\ pc'[p] = "log"
                 /\ job'[p].cmd = job[p].cmd /\ job'[p].seen = job[p].seen
                 /\ job[p].cmd # "dry-loop"
                 /\ Taken /\ UNCHANGED <<tradeCount, uncounted, stale>>
              \/ /\ SubmitAnswerLost(p)
                 /\ pc[p] = "submit" /\ pc'[p] = "idle" /\ job[p].cmd # "dry-loop"
                 /\ Taken /\ uncounted' = uncounted + 1
                 /\ UNCHANGED <<tradeCount, stale>>
              \/ /\ LogOrder(p) /\ pc[p] = "log"
                 /\ \/ /\ job[p].cmd \in {"dry-loop", "smoke"}
                       /\ pc'[p] \in {"idle", "scan"}
                    \/ /\ job[p].cmd \notin {"dry-loop", "smoke"}
                       /\ pc'[p] = "count" /\ job'[p] = job[p]
                 /\ uncounted' = IF job[p].cmd = "smoke" THEN uncounted + 1 ELSE uncounted
                 /\ UNCHANGED <<tradeCount, accepted, stale, late>>
              \/ /\ CountTrade(p)
                 /\ pc[p] = "count" /\ pc'[p] \in {"idle", "scan"}
                 /\ tradeCount' = tradeCount + 1
                 /\ stale' = IF job[p].cmd = "submit-smoke" THEN stale + 1 ELSE stale
                 /\ UNCHANGED <<accepted, uncounted, late>>
<1> USE DEF disk, table
<1>1. CASE SubmitAccepted(p)
  <2>1. /\ [job[p] EXCEPT !.sent = @ + 1].cmd = job[p].cmd
        /\ [job[p] EXCEPT !.sent = @ + 1].seen = job[p].seen
    BY DEF TypeOK, Job
  <2>2. OthersStay(p) /\ pc'[p] = "log" /\ job'[p] = [job[p] EXCEPT !.sent = @ + 1]
    BY <1>1, LaunchLocal DEF SubmitAccepted
  <2>3. QED
    BY <1>1, <2>1, <2>2 DEF SubmitAccepted, ToVenue, VenueAccepts
<1>2. CASE SubmitAnswerLost(p)
  BY <1>2, LeaveLocal DEF SubmitAnswerLost, ToVenue, VenueAccepts
<1>3. CASE FillPaper(p)
  BY <1>3, PcLocal DEF FillPaper
<1>4. CASE LogOrder(p)
  BY <1>4, DoneLocal, LaunchLocal DEF LogOrder
<1>5. CASE CountTrade(p)
  BY <1>5, DoneLocal DEF CountTrade
<1>6. QED
  BY <1>1, <1>2, <1>3, <1>4, <1>5 DEF Booked

-----------------------------------------------------------------------------
(***************************************************************************)
(* BrakeBound.  It is inductive once the history variable is known to be   *)
(* zero while there is no stop file.                                       *)
(***************************************************************************)

BrakeInv == BrakeBound /\ (~stop => late = 0)

\* Fewer armed processes and no more late orders keep the bound, and so does a
\* process that turns one into the other.
LEMMA BrakeStep ==
    ASSUME TypeOK, BrakeInv, NEW p \in Proc, OthersStay(p), stop' = stop,
           \/ late' = late /\ (p \in Armed' => p \in Armed \/ ~stop)
           \/ Taken /\ p \in Armed /\ p \notin Armed'
    PROVE  BrakeInv'
<1>1. /\ Armed \in SUBSET Proc /\ Armed' \in SUBSET Proc
      /\ Armed' \ {p} = Armed \ {p}
  BY DEF Armed, OthersStay
<1>2. late \in Nat /\ Cardinality(Armed) \in Nat /\ Cardinality(Armed') \in Nat
  BY <1>1, ProcFinite DEF TypeOK
<1>3. CASE ~stop
  BY <1>3 DEF BrakeInv, BrakeBound, Taken
<1>4. CASE stop /\ late' = late /\ (p \in Armed' => p \in Armed)
  <2>1. Cardinality(Armed') <= Cardinality(Armed)
    BY <1>1, <1>4, ProcFinite, FS_Subset
  <2>2. QED
    BY <1>2, <1>4, <2>1, ProcFinite DEF BrakeInv, BrakeBound
<1>5. CASE stop /\ Taken /\ p \in Armed /\ p \notin Armed'
  <2>1. Armed' = Armed \ {p}
    BY <1>1, <1>5
  <2>2. Cardinality(Armed') = Cardinality(Armed) - 1
    BY <1>1, <1>5, <2>1, ProcFinite, FS_RemoveElement
  <2>3. late' = late + 1
    BY <1>5 DEF Taken
  <2>4. QED
    BY <1>2, <1>5, <2>2, <2>3, ProcFinite DEF BrakeInv, BrakeBound
<1>6. QED
  BY <1>3, <1>4, <1>5

LEMMA BrakeNext == Inv /\ BrakeInv /\ [Next]_vars => BrakeInv'
<1> SUFFICES ASSUME Inv, BrakeInv, [Next]_vars PROVE BrakeInv'
  OBVIOUS
<1>0. TypeOK
  BY DEF Inv
<1>1. ASSUME NEW p \in Proc, Operate(p) \/ Quiet(p) PROVE BrakeInv'
  <2>1. OthersStay(p) /\ Local(p) /\ UNCHANGED Shared
    BY <1>0, <1>1, OperateMoves, QuietMoves
  <2>2. p \in Armed' => p \in Armed \/ ~stop
    BY <2>1 DEF Local, Armed
  <2>3. QED
    BY <1>0, <2>1, <2>2, BrakeStep DEF Shared, ghost
<1>2. ASSUME NEW p \in Proc, Booked(p) PROVE BrakeInv'
  <2>1. /\ OthersStay(p) /\ stop' = stop
        /\ \/ late' = late /\ (p \in Armed' => p \in Armed \/ ~stop)
           \/ Taken /\ p \in Armed /\ p \notin Armed'
    BY <1>0, <1>2, BookedMoves DEF Armed
  <2>2. QED
    BY <1>0, <2>1, BrakeStep
<1>3. ASSUME NEW p \in Proc, Crash(p) PROVE BrakeInv'
  <2>1. OthersStay(p) /\ pc'[p] = "idle" /\ stop' = stop /\ late' = late
    BY <1>0, <1>3, LeaveLocal DEF Crash, disk
  <2>2. QED
    BY <1>0, <2>1, BrakeStep DEF Armed
<1>4. CASE DashSubmit
  <2>1. OthersStay(Dash) /\ ~stop /\ stop' = stop /\ late' = late
    BY <1>0, <1>4, LaunchLocal, ProcFinite DEF DashSubmit, BoundedGates, disk, ghost
  <2>2. QED
    BY <1>0, <2>1, BrakeStep, ProcFinite
<1>5. CASE CreateStop
  <2>1. Cardinality(Armed') <= Cardinality(Proc) /\ Cardinality(Armed') \in Nat
    BY ProcFinite DEF Armed
  <2>2. late' = 0 /\ stop'
    BY <1>5 DEF CreateStop, BrakeInv, ghost
  <2>3. QED
    BY <2>1, <2>2, ProcFinite DEF BrakeInv, BrakeBound
<1>6. CASE ClearStop
  BY <1>6 DEF ClearStop, BrakeInv, BrakeBound
<1>7. CASE \/ DashPreview \/ ReturnToPaperEnv \/ ReturnToPaperRules \/ ResetDailyPaper
           \/ CooldownOver \/ NextDay \/ VenueMoves \/ UNCHANGED vars
  <2>1. UNCHANGED <<stop, late, pc, job>>
    BY <1>7 DEF DashPreview, ReturnToPaperEnv, ReturnToPaperRules, ResetDailyPaper,
       CooldownOver, NextDay, VenueMoves, vars, disk, ghost
  <2>2. QED
    BY <2>1 DEF BrakeInv, BrakeBound, Armed
<1>8. QED
  BY <1>1, <1>2, <1>3, <1>4, <1>5, <1>6, <1>7, NextCases DEF Operator

\* However many processes run, each completes at most one order after the stop
\* file has appeared.
THEOREM BrakeHolds == Spec => []BrakeBound
<1>1. Init => BrakeInv
  BY ProcFinite DEF Init, BrakeInv, BrakeBound
<1>2. QED
  BY <1>1, SpecInv, BrakeNext, PTL DEF Spec, BrakeInv

-----------------------------------------------------------------------------
(***************************************************************************)
(* DailyCapOvershoot.  Its induction needs to know that an order which has *)
(* left the risk manager was below the cap when it was looked at, and      *)
(* which orders are on their way to be counted.                            *)
(***************************************************************************)

SeenInv ==
    \A p \in Proc :
        /\ pc[p] \in {"confirm", "submit", "log", "count"} /\ job[p].cmd \in CountChecked
             => job[p].seen < config.trades
        /\ pc[p] = "submit" /\ job[p].cmd \notin CountChecked
             => job[p].cmd \in {"dry-loop", "smoke", "submit-smoke"}
        /\ pc[p] = "count"
             => job[p].cmd \in CountChecked \cup {"submit-smoke"}

LEMMA CommandSplit ==
    ASSUME TypeOK, NEW p \in Proc
    PROVE  job[p].cmd \in CountChecked \cup {"dry-loop", "smoke", "submit-smoke"}
BY DEF TypeOK, Job, AllCommands, LoopCommands, ManualCommands, CountChecked

LEMMA SeenStep ==
    ASSUME TypeOK, SeenInv, NEW p \in Proc, OthersStay(p), config' = config,
           \/ pc'[p] \in {"idle", "preflight", "top", "scan", "evaluate"}
           \/ /\ pc'[p] \in {"confirm", "submit"}
              /\ job'[p].cmd \in CountChecked => job'[p].seen < config.trades
              /\ job'[p].cmd \in CountChecked \cup {"dry-loop", "smoke", "submit-smoke"}
           \/ /\ pc'[p] = "log" /\ pc[p] = "submit"
              /\ job'[p].cmd = job[p].cmd /\ job'[p].seen = job[p].seen
           \/ /\ pc'[p] = "count" /\ pc[p] = "log" /\ job'[p] = job[p]
              /\ job[p].cmd \notin {"dry-loop", "smoke"}
    PROVE  SeenInv'
<1>1. \A q \in Proc \ {p} : pc'[q] = pc[q] /\ job'[q] = job[q]
  BY DEF OthersStay
<1>2. job[p].cmd \in CountChecked \cup {"dry-loop", "smoke", "submit-smoke"}
  BY CommandSplit
<1>3. QED
  BY <1>1, <1>2 DEF SeenInv

LEMMA SeenNext == Inv /\ SeenInv /\ [Next]_vars => SeenInv'
<1> SUFFICES ASSUME Inv, SeenInv, [Next]_vars PROVE SeenInv'
  OBVIOUS
<1>0. TypeOK
  BY DEF Inv
<1>1. ASSUME NEW p \in Proc, Operate(p) \/ Quiet(p) PROVE SeenInv'
  <2>1. OthersStay(p) /\ Local(p) /\ config' = config
    BY <1>0, <1>1, OperateMoves, QuietMoves DEF Shared
  <2>2. job[p].cmd \in CountChecked \cup {"dry-loop", "smoke", "submit-smoke"}
    BY <1>0, CommandSplit
  <2>3. pc[p] = "confirm" /\ job[p].cmd \in CountChecked => job[p].seen < config.trades
    BY DEF SeenInv
  <2>4. QED
    BY <1>0, <2>1, <2>2, <2>3, SeenStep DEF Local
<1>2. ASSUME NEW p \in Proc, Booked(p) PROVE SeenInv'
  <2>1. /\ OthersStay(p) /\ config' = config
        /\ \/ pc'[p] \in {"idle", "scan"}
           \/ /\ pc'[p] = "log" /\ pc[p] = "submit"
              /\ job'[p].cmd = job[p].cmd /\ job'[p].seen = job[p].seen
           \/ /\ pc'[p] = "count" /\ pc[p] = "log" /\ job'[p] = job[p]
              /\ job[p].cmd \notin {"dry-loop", "smoke"}
    BY <1>0, <1>2, BookedMoves
  <2>2. QED
    BY <1>0, <2>1, SeenStep
<1>3. ASSUME NEW p \in Proc, Crash(p) PROVE SeenInv'
  BY <1>0, <1>3, LeaveLocal, SeenStep DEF Crash, disk
<1>4. CASE DashSubmit
  <2>1. PICK v \in previews :
          Launch(Dash, "submit", [NoJob EXCEPT !.cmd = "submit-smoke", !.live = TRUE,
                                               !.sym = v.sym, !.side = v.side])
    BY <1>4 DEF DashSubmit
  <2>2. [NoJob EXCEPT !.cmd = "submit-smoke", !.live = TRUE,
                      !.sym = v.sym, !.side = v.side].cmd = "submit-smoke"
    BY DEF NoJob
  <2>3. OthersStay(Dash) /\ pc'[Dash] = "submit" /\ job'[Dash].cmd = "submit-smoke"
    <3> DEFINE j == [NoJob EXCEPT !.cmd = "submit-smoke", !.live = TRUE,
                                  !.sym = v.sym, !.side = v.side]
    <3>1. Launch(Dash, "submit", j) /\ j.cmd = "submit-smoke" /\ Dash \in Proc
      BY <2>1, <2>2, ProcFinite
    <3> HIDE DEF j
    <3>2. QED
      BY <1>0, <3>1, LaunchLocal
  <2>4. QED
    BY <1>0, <1>4, <2>3, SeenStep, ProcFinite DEF DashSubmit, disk, CountChecked
<1>5. CASE \/ DashPreview \/ CreateStop \/ ClearStop
           \/ ReturnToPaperEnv \/ ReturnToPaperRules \/ ResetDailyPaper
           \/ CooldownOver \/ NextDay \/ VenueMoves \/ UNCHANGED vars
  <2>1. UNCHANGED <<config, pc, job>>
    BY <1>5 DEF DashPreview, CreateStop, ClearStop, ReturnToPaperEnv, ReturnToPaperRules,
       ResetDailyPaper, CooldownOver, NextDay, VenueMoves, vars, disk
  <2>2. QED
    BY <2>1 DEF SeenInv
<1>6. QED
  BY <1>1, <1>2, <1>3, <1>4, <1>5, NextCases DEF Operator

\* A new order is checked while the day is still below the cap; a checked order
\* that is counted leaves the set; an unchecked one is charged to "stale".
LEMMA OvershootStep ==
    ASSUME TypeOK, DailyCapOvershoot, NEW p \in Proc, OthersStay(p), config' = config,
           \/ /\ tradeCount' = tradeCount /\ stale' = stale
              /\ p \in Checked' => p \in Checked \/ tradeCount < config.trades
           \/ /\ tradeCount' = tradeCount + 1 /\ stale' = stale
              /\ p \in Checked /\ p \notin Checked'
           \/ /\ tradeCount' = tradeCount + 1 /\ stale' = stale + 1
              /\ p \notin Checked'
    PROVE  DailyCapOvershoot'
<1>1. /\ Checked \in SUBSET Proc /\ Checked' \in SUBSET Proc
      /\ Checked' \ {p} = Checked \ {p}
  BY DEF Checked, OthersStay
<1>2. /\ tradeCount \in Nat /\ stale \in Nat /\ config.trades \in Nat
      /\ Cardinality(Checked) \in Nat /\ Cardinality(Checked') \in Nat
      /\ Cardinality(Checked') <= Cardinality(Proc) /\ Cardinality(Proc) \in Nat
  BY <1>1, ProcFinite DEF TypeOK, Config
<1>3. p \notin Checked' \/ p \in Checked => Cardinality(Checked') <= Cardinality(Checked)
  BY <1>1, ProcFinite, FS_Subset
<1>4. CASE /\ tradeCount' = tradeCount /\ stale' = stale
           /\ p \notin Checked' \/ p \in Checked
  BY <1>2, <1>3, <1>4 DEF DailyCapOvershoot
<1>5. CASE tradeCount' = tradeCount /\ stale' = stale /\ tradeCount < config.trades
  BY <1>2, <1>5 DEF DailyCapOvershoot
<1>6. CASE /\ tradeCount' = tradeCount + 1 /\ stale' = stale
           /\ p \in Checked /\ p \notin Checked'
  <2>1. Cardinality(Checked') = Cardinality(Checked) - 1
    <3>1. Checked' = Checked \ {p}
      BY <1>1, <1>6
    <3>2. QED
      BY <1>1, <1>6, <3>1, ProcFinite, FS_RemoveElement
  <2>2. QED
    BY <1>2, <1>6, <2>1 DEF DailyCapOvershoot
<1>7. CASE tradeCount' = tradeCount + 1 /\ stale' = stale + 1 /\ p \notin Checked'
  BY <1>2, <1>3, <1>7 DEF DailyCapOvershoot
<1>8. QED
  BY <1>4, <1>5, <1>6, <1>7

\* A summary at zero leaves room for every process, unless the cap is zero, and
\* then nothing passes the check.
LEMMA ZeroedDay ==
    ASSUME TypeOK, tradeCount' = 0, stale' \in Nat, UNCHANGED <<config, pc, job>>
    PROVE  DailyCapOvershoot'
<1>1. Checked' = Checked /\ Checked \in SUBSET Proc
  BY DEF Checked
<1>2. CASE config.trades = 0
  <2>1. Checked = {}
    BY <1>2 DEF Checked, TypeOK, Job
  <2>2. Checked' = {} /\ config' = config /\ Cardinality({}) = 0
    BY <1>1, <2>1, FS_EmptySet
  <2>3. Cardinality(Checked') = 0 /\ config'.trades = 0 /\ tradeCount' = 0
    BY <1>2, <2>2
  <2>4. Cardinality(Proc) - 1 + stale' >= 0 /\ Cardinality(Proc) \in Nat
    BY ProcFinite
  <2>5. QED
    BY <2>3, <2>4 DEF DailyCapOvershoot
<1>3. CASE config.trades # 0
  BY <1>1, <1>3, ProcFinite DEF DailyCapOvershoot, TypeOK, Config
<1>4. QED
  BY <1>2, <1>3

LEMMA OvershootNext ==
    Inv /\ SeenInv /\ DailyCapOvershoot /\ [Next]_vars => DailyCapOvershoot'
<1> SUFFICES ASSUME Inv, SeenInv, DailyCapOvershoot, [Next]_vars
             PROVE  DailyCapOvershoot'
  OBVIOUS
<1>0. TypeOK
  BY DEF Inv
<1>1. ASSUME NEW p \in Proc, Operate(p) \/ Quiet(p) PROVE DailyCapOvershoot'
  <2>1. OthersStay(p) /\ Local(p) /\ UNCHANGED Shared
    BY <1>0, <1>1, OperateMoves, QuietMoves
  <2>2. p \in Checked' => p \in Checked \/ tradeCount < config.trades
    BY <2>1 DEF Local, Checked, Shared, CountChecked
  <2>3. QED
    BY <1>0, <2>1, <2>2, OvershootStep DEF Shared, ghost
<1>2. ASSUME NEW p \in Proc, Booked(p) PROVE DailyCapOvershoot'
  <2>1. CASE CountTrade(p)
    <3>1. /\ OthersStay(p) /\ config' = config /\ tradeCount' = tradeCount + 1
          /\ pc[p] = "count" /\ p \notin Checked'
          /\ stale' = IF job[p].cmd = "submit-smoke" THEN stale + 1 ELSE stale
      BY <1>0, <2>1, LaunchLocal, DoneLocal DEF CountTrade, disk, Checked
    <3>2. job[p].cmd # "submit-smoke" => p \in Checked
      BY <3>1 DEF SeenInv, Checked
    <3>3. QED
      BY <1>0, <3>1, <3>2, OvershootStep
  <2>2. CASE ~CountTrade(p)
    <3>1. /\ OthersStay(p) /\ config' = config
          /\ tradeCount' = tradeCount /\ stale' = stale
          /\ p \in Checked' => p \in Checked
      BY <1>0, <1>2, <2>2, BookedMoves DEF Checked
    <3>2. QED
      BY <1>0, <3>1, OvershootStep
  <2>3. QED
    BY <2>1, <2>2
<1>3. ASSUME NEW p \in Proc, Crash(p) PROVE DailyCapOvershoot'
  <2>1. /\ OthersStay(p) /\ pc'[p] = "idle" /\ config' = config
        /\ tradeCount' = tradeCount /\ stale' = stale
    BY <1>0, <1>3, LeaveLocal DEF Crash, disk, table
  <2>2. QED
    BY <1>0, <2>1, OvershootStep DEF Checked
<1>4. CASE DashSubmit
  <2>1. PICK v \in previews :
          Launch(Dash, "submit", [NoJob EXCEPT !.cmd = "submit-smoke", !.live = TRUE,
                                               !.sym = v.sym, !.side = v.side])
    BY <1>4 DEF DashSubmit
  <2>2. [NoJob EXCEPT !.cmd = "submit-smoke", !.live = TRUE,
                      !.sym = v.sym, !.side = v.side].cmd \notin CountChecked
    BY DEF NoJob, CountChecked
  <2>3. OthersStay(Dash) /\ job'[Dash].cmd \notin CountChecked
    BY ZenonT(60), <1>0, <2>1, <2>2, LaunchLocal, ProcFinite
  <2>4. UNCHANGED <<config, tradeCount, stale>>
    BY <1>4 DEF DashSubmit, disk, table, ghost
  <2>5. QED
    BY <1>0, <2>3, <2>4, OvershootStep, ProcFinite DEF Checked
<1>5. CASE ResetDailyPaper \/ NextDay
  <2>1. tradeCount' = 0 /\ stale' \in Nat /\ UNCHANGED <<config, pc, job>>
    BY <1>0, <1>5 DEF ResetDailyPaper, NextDay, disk, TypeOK
  <2>2. QED
    BY <1>0, <2>1, ZeroedDay
<1>6. CASE \/ DashPreview \/ CreateStop \/ ClearStop
           \/ ReturnToPaperEnv \/ ReturnToPaperRules
           \/ CooldownOver \/ VenueMoves \/ UNCHANGED vars
  <2>1. UNCHANGED <<config, pc, job, tradeCount, stale>>
    BY <1>6 DEF DashPreview, CreateStop, ClearStop, ReturnToPaperEnv, ReturnToPaperRules,
       CooldownOver, VenueMoves, vars, disk, table, ghost
  <2>2. QED
    BY <2>1 DEF DailyCapOvershoot, Checked
<1>7. QED
  BY <1>1, <1>2, <1>3, <1>4, <1>5, <1>6, NextCases DEF Operator

\* The day's count never exceeds the cap by more than one order per further
\* process and one per order sent from a stored preview.
THEOREM OvershootHolds == Spec => []DailyCapOvershoot
<1>1. Init => SeenInv
  BY DEF Init, SeenInv
<1>2. Init => DailyCapOvershoot
  <2> SUFFICES ASSUME Init PROVE DailyCapOvershoot
    OBVIOUS
  <2>1. Checked = {}
    BY DEF Init, Checked
  <2>2. Cardinality(Checked) = 0 /\ config.trades \in Nat /\ tradeCount = 0 /\ stale = 0
    BY <2>1, FS_EmptySet, ConfigAssumption DEF Init, Config
  <2>3. QED
    BY <2>2, ProcFinite DEF DailyCapOvershoot
<1>3. QED
  BY <1>1, <1>2, SpecInv, SeenNext, OvershootNext, PTL DEF Spec

-----------------------------------------------------------------------------
(***************************************************************************)
(* CountConserved.  Every order enters the books once and leaves the       *)
(* unsettled ones once, into trade_count or into a named leak.             *)
(***************************************************************************)

LEMMA ConservedStep ==
    ASSUME TypeOK, CountConserved, NEW p \in Proc, OthersStay(p),
           \/ /\ p \in Unsettled' <=> p \in Unsettled
              /\ accepted' - tradeCount' - uncounted' = accepted - tradeCount - uncounted
           \/ /\ p \notin Unsettled /\ p \in Unsettled'
              /\ accepted' - tradeCount' - uncounted' = accepted - tradeCount - uncounted + 1
           \/ /\ p \in Unsettled /\ p \notin Unsettled'
              /\ accepted' - tradeCount' - uncounted' = accepted - tradeCount - uncounted - 1,
           accepted' \in Nat, tradeCount' \in Nat, uncounted' \in Nat
    PROVE  CountConserved'
<1>1. /\ Unsettled \in SUBSET Proc /\ Unsettled' \in SUBSET Proc
      /\ Unsettled' \ {p} = Unsettled \ {p}
  BY DEF Unsettled, OthersStay
<1>2. /\ accepted \in Nat /\ tradeCount \in Nat /\ uncounted \in Nat
      /\ Cardinality(Unsettled) \in Nat /\ Cardinality(Unsettled') \in Nat
      /\ IsFiniteSet(Unsettled)
  BY <1>1, ProcFinite DEF TypeOK
<1>3. CASE p \in Unsettled' <=> p \in Unsettled
  <2>1. Unsettled' = Unsettled
    <3>1. \A q : q \in Unsettled' <=> q \in Unsettled
      BY <1>1, <1>3
    <3>2. QED
      BY <3>1, Zenon
  <2>2. QED
    BY <1>2, <1>3, <2>1 DEF CountConserved
<1>4. CASE p \notin Unsettled /\ p \in Unsettled'
  <2>1. Unsettled' = Unsettled \cup {p}
    BY <1>1, <1>4
  <2>2. Cardinality(Unsettled') = Cardinality(Unsettled) + 1
    BY <1>2, <1>4, <2>1, FS_AddElement
  <2>3. QED
    BY <1>2, <1>4, <2>2 DEF CountConserved
<1>5. CASE p \in Unsettled /\ p \notin Unsettled'
  <2>1. Unsettled' = Unsettled \ {p}
    BY <1>1, <1>5
  <2>2. Cardinality(Unsettled') = Cardinality(Unsettled) - 1
    BY <1>2, <1>5, <2>1, FS_RemoveElement
  <2>3. QED
    BY <1>2, <1>5, <2>2 DEF CountConserved
<1>6. QED
  BY <1>3, <1>4, <1>5

LEMMA ConservedNext ==
    Inv /\ SeenInv /\ CountConserved /\ [Next]_vars => CountConserved'
<1> SUFFICES ASSUME Inv, SeenInv, CountConserved, [Next]_vars
             PROVE  CountConserved'
  OBVIOUS
<1>0. /\ TypeOK /\ accepted' \in Nat /\ tradeCount' \in Nat /\ uncounted' \in Nat
      /\ accepted \in Nat /\ tradeCount \in Nat /\ uncounted \in Nat
  BY NextInv DEF Inv, TypeOK
<1>1. ASSUME NEW p \in Proc, Operate(p) \/ Quiet(p) PROVE CountConserved'
  <2>1. OthersStay(p) /\ Local(p) /\ UNCHANGED Shared
    BY <1>0, <1>1, OperateMoves, QuietMoves
  <2>2. p \in Unsettled' <=> p \in Unsettled
    BY <2>1 DEF Local, Unsettled
  <2>3. QED
    BY <1>0, <2>1, <2>2, ConservedStep DEF Shared, ghost
<1>2. ASSUME NEW p \in Proc, Booked(p) PROVE CountConserved'
  <2>1. OthersStay(p)
    BY <1>0, <1>2, BookedMoves
  <2>2. CASE SubmitAccepted(p) \/ FillPaper(p)
    <3>1. /\ pc[p] = "submit" /\ pc'[p] = "log" /\ job[p].cmd # "dry-loop"
          /\ job'[p].cmd = job[p].cmd
          /\ accepted' = accepted + 1 /\ tradeCount' = tradeCount /\ uncounted' = uncounted
      <4>1. CASE SubmitAccepted(p)
        <5>1. [job[p] EXCEPT !.sent = @ + 1].cmd = job[p].cmd
          BY <1>0 DEF TypeOK, Job
        <5>2. QED
          BY ZenonT(60), <1>0, <4>1, <5>1, LaunchLocal
             DEF SubmitAccepted, ToVenue, VenueAccepts, Taken, table
      <4>2. CASE FillPaper(p)
        BY <1>0, <4>2, PcLocal DEF FillPaper, Taken, table
      <4>3. QED
        BY <2>2, <4>1, <4>2
    <3>2. p \notin Unsettled /\ p \in Unsettled'
      BY <3>1 DEF Unsettled
    <3>3. QED
      BY <1>0, <2>1, <3>1, <3>2, ConservedStep
  <2>3. CASE SubmitAnswerLost(p)
    <3>1. /\ pc[p] = "submit" /\ pc'[p] = "idle"
          /\ accepted' = accepted + 1 /\ tradeCount' = tradeCount
          /\ uncounted' = uncounted + 1
      BY <1>0, <2>3, LeaveLocal DEF SubmitAnswerLost, ToVenue, VenueAccepts, Taken, table
    <3>2. p \notin Unsettled /\ p \notin Unsettled'
      BY <3>1 DEF Unsettled
    <3>3. QED
      BY <1>0, <2>1, <3>1, <3>2, ConservedStep
  <2>4. CASE LogOrder(p)
    <3>1. pc[p] = "log" /\ accepted' = accepted /\ tradeCount' = tradeCount
      BY <2>4 DEF LogOrder
    <3>2. CASE job[p].cmd = "dry-loop"
      <4>1. pc'[p] \in {"idle", "scan"} /\ uncounted' = uncounted
        BY <1>0, <2>4, <3>2, DoneLocal DEF LogOrder
      <4>2. p \notin Unsettled /\ p \notin Unsettled'
        BY <3>2, <4>1 DEF Unsettled
      <4>3. QED
        BY <1>0, <2>1, <3>1, <4>1, <4>2, ConservedStep
    <3>3. CASE job[p].cmd = "smoke"
      <4>1. pc'[p] \in {"idle", "scan"} /\ uncounted' = uncounted + 1
        BY <1>0, <2>4, <3>3, DoneLocal DEF LogOrder
      <4>2. p \in Unsettled /\ p \notin Unsettled'
        BY <3>1, <3>3, <4>1 DEF Unsettled
      <4>3. QED
        BY <1>0, <2>1, <3>1, <4>1, <4>2, ConservedStep
    <3>4. CASE job[p].cmd \notin {"dry-loop", "smoke"}
      <4>1. pc'[p] = "count" /\ job'[p] = job[p] /\ uncounted' = uncounted
        BY <1>0, <2>4, <3>4, LaunchLocal DEF LogOrder
      <4>2. p \in Unsettled /\ p \in Unsettled'
        BY <3>1, <3>4, <4>1 DEF Unsettled
      <4>3. QED
        BY <1>0, <2>1, <3>1, <4>1, <4>2, ConservedStep
    <3>5. QED
      BY <3>2, <3>3, <3>4
  <2>5. CASE CountTrade(p)
    <3>1. /\ pc[p] = "count" /\ pc'[p] \in {"idle", "scan"}
          /\ accepted' = accepted /\ tradeCount' = tradeCount + 1 /\ uncounted' = uncounted
      BY <1>0, <2>5, DoneLocal, LaunchLocal DEF CountTrade
    <3>2. job[p].cmd # "dry-loop"
      BY <3>1 DEF SeenInv, CountChecked
    <3>3. p \in Unsettled /\ p \notin Unsettled'
      BY <3>1, <3>2 DEF Unsettled
    <3>4. QED
      BY <1>0, <2>1, <3>1, <3>3, ConservedStep
  <2>6. QED
    BY <1>2, <2>2, <2>3, <2>4, <2>5 DEF Booked
<1>3. ASSUME NEW p \in Proc, Crash(p) PROVE CountConserved'
  <2>1. /\ OthersStay(p) /\ pc'[p] = "idle" /\ accepted' = accepted
        /\ tradeCount' = tradeCount
        /\ uncounted' = IF p \in Unsettled THEN uncounted + 1 ELSE uncounted
    BY <1>0, <1>3, LeaveLocal DEF Crash, table
  <2>2. p \notin Unsettled'
    BY <2>1 DEF Unsettled
  <2>3. QED
    BY <1>0, <2>1, <2>2, ConservedStep
<1>4. CASE DashSubmit
  <2>1. OthersStay(Dash) /\ pc[Dash] = "idle" /\ pc'[Dash] = "submit"
    BY <1>0, <1>4, LaunchLocal, ProcFinite DEF DashSubmit
  <2>2. Dash \notin Unsettled /\ Dash \notin Unsettled'
    BY <2>1 DEF Unsettled
  <2>3. UNCHANGED <<accepted, tradeCount, uncounted>>
    BY <1>4 DEF DashSubmit, table, ghost
  <2>4. QED
    BY <1>0, <2>1, <2>2, <2>3, ConservedStep, ProcFinite
<1>5. CASE ResetDailyPaper
  <2>1. Unsettled' = Unsettled
    BY <1>5 DEF ResetDailyPaper, Unsettled
  <2>2. Cardinality(Unsettled) \in Nat
    BY ProcFinite DEF Unsettled
  <2>3. QED
    BY <1>0, <1>5, <2>1, <2>2 DEF ResetDailyPaper, CountConserved
<1>6. CASE NextDay
  <2>1. Unsettled' = Unsettled
    BY <1>6 DEF NextDay, Unsettled
  <2>2. Cardinality(Unsettled) \in Nat
    BY ProcFinite DEF Unsettled
  <2>3. QED
    BY <1>0, <1>6, <2>1, <2>2 DEF NextDay, CountConserved
<1>7. CASE \/ DashPreview \/ CreateStop \/ ClearStop
           \/ ReturnToPaperEnv \/ ReturnToPaperRules
           \/ CooldownOver \/ VenueMoves \/ UNCHANGED vars
  <2>1. UNCHANGED <<pc, job, accepted, tradeCount, uncounted>>
    BY <1>7 DEF DashPreview, CreateStop, ClearStop, ReturnToPaperEnv, ReturnToPaperRules,
       CooldownOver, VenueMoves, vars, table, ghost
  <2>2. QED
    BY <2>1 DEF CountConserved, Unsettled
<1>8. QED
  BY <1>1, <1>2, <1>3, <1>4, <1>5, <1>6, <1>7, NextCases DEF Operator

\* No order is counted twice, and none is lost except by a smoke order, a death
\* between order and count, or a reset.
THEOREM ConservedHolds == Spec => []CountConserved
<1>1. Init => SeenInv
  BY DEF Init, SeenInv
<1>2. Init => CountConserved
  <2> SUFFICES ASSUME Init PROVE CountConserved
    OBVIOUS
  <2>1. Unsettled = {}
    BY DEF Init, Unsettled
  <2>2. Cardinality(Unsettled) = 0
    BY <2>1, FS_EmptySet
  <2>3. QED
    BY <2>2 DEF Init, CountConserved
<1>3. QED
  BY <1>1, <1>2, SpecInv, SeenNext, ConservedNext, PTL DEF Spec
=============================================================================
