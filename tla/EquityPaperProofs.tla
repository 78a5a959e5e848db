-------------------------- MODULE EquityPaperProofs --------------------------
(***************************************************************************)
(* Proofs about EquityPaper, for every set of symbols and processes and    *)
(* every number of executions, cycles and deaths: the types, the stop file,*)
(* what an alarm of a proving run that ran alone can mean, how far         *)
(* executions side by side can overdraw the ledger, and which runs the     *)
(* readiness report calls clean.                                           *)
(***************************************************************************)
EXTENDS EquityPaper, FiniteSetTheorems, TLAPS

Cycling == {"begin", "symbol", "risk", "fill", "log"}

\* What the types need: a cycle under way is still to be counted, and an
\* execution has a number.
Counted == \A p \in Proc : pc[p] \in Cycling => job[p].left > 0
Numbered == \A p \in Proc : pc[p] # "idle" => job[p].run \in 1..MaxRuns

TInv == TypeOK /\ Counted /\ Numbered

-----------------------------------------------------------------------------
(***************************************************************************)
(* Types.                                                                  *)
(***************************************************************************)

LEMMA NoJobType == NoJob \in Job /\ Empty \in Portfolio
<1>1. Empty \in Portfolio  BY AmountAssumption DEF Empty, Portfolio
<1> QED BY <1>1 DEF NoJob, Job

LEMMA LogType ==
    ASSUME TypeOK, NEW act \in {"filled", "loop", "reconciled", "manual"}, NEW ok \in BOOLEAN,
           NEW n \in Nat, NEW by \in Nat, LogRow(act, ok, n, by)
    PROVE  audit' \in Seq(Row)
<1>1. [act |-> act, ok |-> ok, n |-> n, by |-> by] \in Row  BY DEF Row
<1> QED BY <1>1 DEF TypeOK, LogRow

\* An execution goes on to `at' with `after' in memory.
LEMMA StepInv ==
    ASSUME TInv, NEW p \in Proc, NEW at \in Pc, NEW after \in Job, Step(p, at, after),
           at \in Cycling => after.left > 0,
           at # "idle" => after.run \in 1..MaxRuns,
           stop' \in BOOLEAN, ledger' \in Portfolio, audit' \in Seq(Row), grace' \subseteq Proc
    PROVE  TInv'
<1>1. pc' = [pc EXCEPT ![p] = at] /\ job' = [job EXCEPT ![p] = after]  BY DEF Step
<1>2. pc' \in [Proc -> Pc] /\ job' \in [Proc -> Job]  BY <1>1 DEF TInv, TypeOK
<1>3. \A q \in Proc : /\ pc'[q] = IF q = p THEN at ELSE pc[q]
                      /\ job'[q] = IF q = p THEN after ELSE job[q]
  BY <1>1 DEF TInv, TypeOK
<1>4. Counted' /\ Numbered'  BY <1>3 DEF TInv, Counted, Numbered
<1>5. TypeOK'  BY <1>2 DEF Step, TInv, TypeOK
<1> QED BY <1>4, <1>5 DEF TInv

\* The loop is left with the memory of a run, or with none.
LEMMA AfterLoopInv ==
    ASSUME TInv, NEW p \in Proc, pc[p] # "idle", AfterLoop(p),
           stop' \in BOOLEAN, ledger' \in Portfolio, audit' \in Seq(Row), grace' \subseteq Proc
    PROVE  TInv'
<1>1. job[p] \in Job /\ job[p].run \in 1..MaxRuns  BY DEF TInv, TypeOK, Numbered
<1>2. CASE job[p].proving
  <2>1. [job[p] EXCEPT !.left = 0, !.done = 0] \in Job  BY <1>1 DEF Job
  <2>2. [job[p] EXCEPT !.left = 0, !.done = 0].run = job[p].run  BY <1>1 DEF Job
  <2>3. "observe" \in Pc /\ "observe" \notin Cycling  BY DEF Pc, Cycling
  <2>4. Step(p, "observe", [job[p] EXCEPT !.left = 0, !.done = 0])  BY <1>2 DEF AfterLoop
  <2> QED BY <1>1, <2>1, <2>2, <2>3, <2>4, StepInv
<1>3. CASE ~ job[p].proving
  <2>1. "idle" \in Pc /\ "idle" \notin Cycling  BY DEF Pc, Cycling
  <2>2. Step(p, "idle", NoJob)  BY <1>3 DEF AfterLoop
  <2> QED BY <2>1, <2>2, NoJobType, StepInv
<1> QED BY <1>2, <1>3

\* A cycle is counted.
LEMMA CycleEndsInv ==
    ASSUME TInv, NEW p \in Proc, pc[p] \in Cycling, CycleEnds(p),
           stop' \in BOOLEAN, ledger' \in Portfolio, audit' \in Seq(Row), grace' \subseteq Proc
    PROVE  TInv'
<1> DEFINE after == [job[p] EXCEPT !.left = @ - 1, !.done = @ + 1, !.todo = {}, !.view = Empty]
<1>1. job[p] \in Job /\ job[p].left > 0 /\ job[p].run \in 1..MaxRuns
  BY DEF TInv, TypeOK, Numbered, Counted, Cycling
<1>2. job[p].left - 1 \in Nat /\ job[p].done + 1 \in Nat  BY <1>1 DEF Job
<1>3. after \in Job  BY <1>1, <1>2, NoJobType DEF Job
<1>4. after.run = job[p].run  BY <1>1 DEF Job
<1>5. "top" \in Pc /\ "top" \notin Cycling  BY DEF Pc, Cycling
<1>6. Step(p, "top", after)  BY DEF CycleEnds
<1> HIDE DEF after
<1> QED BY <1>1, <1>3, <1>4, <1>5, <1>6, StepInv

LEMMA StartInv ==
    ASSUME TInv, NEW p \in Proc, NEW at \in {"reset", "top"}, NEW proving \in BOOLEAN,
           Start(p, at, proving)
    PROVE  TInv'
<1>1. PICK n \in 0..Iterations :
         job' = [job EXCEPT ![p] =
                   [NoJob EXCEPT !.proving = proving, !.run = runs + 1, !.left = n]]
  BY DEF Start
<1> DEFINE after == [NoJob EXCEPT !.proving = proving, !.run = runs + 1, !.left = n]
<1>2. runs \in Nat /\ runs + 1 \in 1..MaxRuns /\ n \in Nat
  BY AmountAssumption DEF Start, TInv, TypeOK
<1>3. after \in Job /\ after.run = runs + 1
  <2>1. NoJob \in Job  BY NoJobType
  <2>2. runs + 1 \in Nat  BY <1>2
  <2>3. NoJob.run = 0  BY DEF NoJob
  <2>4. after \in Job  BY <1>2, <2>1, <2>2 DEF Job
  <2>5. after.run = runs + 1  BY <2>1 DEF Job
  <2> QED BY <2>4, <2>5
<1>4. job' = [job EXCEPT ![p] = after]  BY <1>1
<1> HIDE DEF after
<1>5. pc' = [pc EXCEPT ![p] = at]  BY DEF Start
<1>6. at \in Pc /\ at \notin Cycling  BY DEF Pc, Cycling
<1>7. pc' \in [Proc -> Pc] /\ job' \in [Proc -> Job]  BY <1>3, <1>4, <1>5, <1>6 DEF TInv, TypeOK
<1>8. \A q \in Proc : /\ pc'[q] = IF q = p THEN at ELSE pc[q]
                      /\ job'[q] = IF q = p THEN after ELSE job[q]
  BY <1>4, <1>5 DEF TInv, TypeOK
<1>9. Counted' /\ Numbered'  BY <1>2, <1>3, <1>6, <1>8 DEF TInv, Counted, Numbered
<1>10. {job[q].run : q \in Running} \subseteq 1..MaxRuns  BY DEF TInv, Numbered, Running
<1>11. runs' = runs + 1 /\ runs' \in 0..MaxRuns  BY <1>2 DEF Start
<1>12. overlap' \cup dead' \subseteq 1..MaxRuns
  BY <1>2, <1>10 DEF Start, TInv, TypeOK
<1>13. TypeOK'  BY <1>7, <1>11, <1>12 DEF Start, TInv, TypeOK
<1> QED BY <1>9, <1>13 DEF TInv

\* Every step keeps the types.
LEMMA TypeStep == TInv /\ [Next]_vars => TInv'
<1> SUFFICES ASSUME TInv, [Next]_vars PROVE TInv'  OBVIOUS
<1>t. TypeOK  BY DEF TInv
<1>j. \A p \in Proc : /\ job[p] \in Job
                      /\ pc[p] # "idle" => job[p].run \in 1..MaxRuns
                      /\ pc[p] \in Cycling => job[p].left > 0
  BY DEF TInv, TypeOK, Numbered, Counted
<1>c. Pc = Cycling \cup {"idle", "reset", "top", "observe", "compare", "record"}
      /\ Cycling \cap {"idle", "reset", "top", "observe", "compare", "record"} = {}
  BY DEF Pc, Cycling
<1>s. stop \in BOOLEAN /\ ledger \in Portfolio /\ audit \in Seq(Row) /\ grace \subseteq Proc
  BY <1>t DEF TypeOK
<1>1. ASSUME NEW p \in Proc, StartProving(p) \/ StartLoop(p) PROVE TInv'
  BY <1>1, StartInv DEF StartProving, StartLoop
<1>2. ASSUME NEW p \in Proc, Reset(p) PROVE TInv'
  <2>1. ledger' \in Portfolio  BY <1>2, NoJobType DEF Reset
  <2>2. Step(p, "top", job[p]) /\ pc[p] = "reset"  BY <1>2 DEF Reset
  <2> QED BY <1>2, <1>c, <1>j, <1>s, <2>1, <2>2, StepInv DEF Reset
<1>3. ASSUME NEW p \in Proc, Complete(p) PROVE TInv'
  <2>1. job[p].proving \in BOOLEAN /\ job[p].done \in Nat /\ job[p].run \in Nat
    BY <1>j DEF Job
  <2>2. audit' \in Seq(Row)  BY <1>3, <1>t, <2>1, LogType DEF Complete
  <2> QED BY <1>3, <1>s, <2>2, AfterLoopInv DEF Complete
<1>4. ASSUME NEW p \in Proc, Halt(p) PROVE TInv'
  BY <1>4, <1>s, AfterLoopInv DEF Halt
<1>5. ASSUME NEW p \in Proc, NextCycle(p) PROVE TInv'
  <2>1. Step(p, "begin", job[p]) /\ pc[p] = "top" /\ job[p].left > 0  BY <1>5 DEF NextCycle
  <2> QED BY <1>5, <1>c, <1>j, <1>s, <2>1, StepInv DEF NextCycle, Cycling
<1>6. ASSUME NEW p \in Proc, BeginCycle(p) PROVE TInv'
  <2>1. CASE stop
    BY <1>6, <1>s, <2>1, CycleEndsInv DEF BeginCycle, Cycling
  <2>2. CASE ~ stop
    <3> DEFINE after == [job[p] EXCEPT !.todo = Symbol, !.view = ledger]
    <3>1. after \in Job /\ after.run = job[p].run /\ after.left = job[p].left
      BY <1>j, <1>s DEF Job
    <3>2. Step(p, "symbol", after) /\ pc[p] = "begin"  BY <1>6, <2>2 DEF BeginCycle
    <3> HIDE DEF after
    <3>3. after.left > 0 /\ after.run \in 1..MaxRuns  BY <1>j, <3>1, <3>2 DEF Cycling
    <3> QED BY <1>6, <1>s, <3>1, <3>2, <3>3, StepInv DEF BeginCycle, Pc
  <2> QED BY <2>1, <2>2
<1>7. ASSUME NEW p \in Proc, CycleOver(p) PROVE TInv'
  BY <1>7, <1>s, CycleEndsInv DEF CycleOver, Cycling
<1>8. ASSUME NEW p \in Proc, Skip(p) PROVE TInv'
  <2>1. PICK c \in job[p].todo : Step(p, "symbol", [job[p] EXCEPT !.todo = @ \ {c}])
    BY <1>8 DEF Skip
  <2> DEFINE after == [job[p] EXCEPT !.todo = @ \ {c}]
  <2>2. after \in Job /\ after.run = job[p].run /\ after.left = job[p].left
    BY <1>j DEF Job
  <2>3. Step(p, "symbol", after) /\ pc[p] = "symbol"  BY <1>8, <2>1 DEF Skip
  <2> HIDE DEF after
  <2>4. after.left > 0 /\ after.run \in 1..MaxRuns  BY <1>j, <2>2, <2>3 DEF Cycling
  <2> QED BY <1>8, <1>s, <2>2, <2>3, <2>4, StepInv DEF Skip, Pc
<1>9. ASSUME NEW p \in Proc, Evaluate(p) PROVE TInv'
  <2>1. PICK c \in job[p].todo, side \in {"buy", "sell"} : \E n \in Sized(p, c, side) :
            Step(p, "risk", [job[p] EXCEPT !.todo = @ \ {c},
                              !.order = {[sym |-> c, side |-> side, amount |-> n]}])
    BY <1>9 DEF Evaluate
  <2>2. PICK n \in Sized(p, c, side) :
            Step(p, "risk", [job[p] EXCEPT !.todo = @ \ {c},
                              !.order = {[sym |-> c, side |-> side, amount |-> n]}])
    BY <2>1
  <2>3. job[p].todo \subseteq Symbol /\ c \in Symbol /\ job[p].view.qty[c] \in Int
    BY <1>j DEF Job, Portfolio
  <2>4. n \in 1..Cap  BY <2>2, <2>3, AmountAssumption DEF Sized
  <2>5. {[sym |-> c, side |-> side, amount |-> n]} \subseteq Order  BY <2>3, <2>4 DEF Order
  <2> DEFINE after == [job[p] EXCEPT !.todo = @ \ {c},
                              !.order = {[sym |-> c, side |-> side, amount |-> n]}]
  <2>6. after \in Job /\ after.run = job[p].run /\ after.left = job[p].left
    BY <1>j, <2>3, <2>5 DEF Job
  <2>7. Step(p, "risk", after) /\ pc[p] = "symbol"  BY <1>9, <2>2 DEF Evaluate
  <2> HIDE DEF after
  <2>8. after.left > 0 /\ after.run \in 1..MaxRuns  BY <1>j, <2>6, <2>7 DEF Cycling
  <2> QED BY <1>9, <1>s, <2>6, <2>7, <2>8, StepInv DEF Evaluate, Pc
<1>10. ASSUME NEW p \in Proc, Decide(p) PROVE TInv'
  <2>1. pc[p] = "risk" /\ job[p].left > 0 /\ job[p].run \in 1..MaxRuns
    BY <1>10, <1>j DEF Decide, Cycling
  <2>2. Step(p, "fill", job[p]) \/ Step(p, "symbol", [job[p] EXCEPT !.order = {}])
    BY <1>10, Zenon DEF Decide
  <2>3. UNCHANGED <<stop, ledger, audit, grace>>  BY <1>10 DEF Decide
  <2>4. CASE Step(p, "fill", job[p])
    BY <1>j, <1>s, <2>1, <2>3, <2>4, StepInv DEF Pc
  <2>5. CASE Step(p, "symbol", [job[p] EXCEPT !.order = {}])
    <3> DEFINE after == [job[p] EXCEPT !.order = {}]
    <3>1. after \in Job /\ after.run = job[p].run /\ after.left = job[p].left
      BY <1>j DEF Job
    <3>2. Step(p, "symbol", after)  BY <2>5
    <3> HIDE DEF after
    <3> QED BY <1>s, <2>1, <2>3, <3>1, <3>2, StepInv DEF Pc
  <2> QED BY <2>2, <2>4, <2>5
<1>11. ASSUME NEW p \in Proc, Fill(p) PROVE TInv'
  <2>1. PICK o \in job[p].order : ledger' = Booked(ledger, o)  BY <1>11 DEF Fill
  <2>2. o \in Order  BY <1>j DEF Job
  <2>3. o.sym \in Symbol /\ o.amount \in Int  BY <2>2, AmountAssumption DEF Order
  <2>4. ledger' \in Portfolio
    <3> DEFINE sign == IF o.side = "buy" THEN 1 ELSE -1
    <3>1. sign * o.amount \in Int
      <4>1. CASE o.side = "buy"
        <5>1. sign = 1  BY <4>1
        <5> QED BY <2>3, <5>1
      <4>2. CASE o.side # "buy"
        <5>1. sign = -1  BY <4>2
        <5> QED BY <2>3, <5>1
      <4> QED BY <4>1, <4>2
    <3> DEFINE moved == sign * o.amount
    <3>2. ledger' = [cash |-> ledger.cash - moved - Fee,
                     qty  |-> [ledger.qty EXCEPT ![o.sym] = @ + moved]]
      BY <2>1 DEF Booked
    <3>3. moved \in Int  BY <3>1
    <3> HIDE DEF moved
    <3>4. ledger.cash \in Int /\ ledger.qty \in [Symbol -> Int]  BY <1>s DEF Portfolio
    <3>5. ledger.cash - moved - Fee \in Int  BY <3>3, <3>4, AmountAssumption
    <3>6. [ledger.qty EXCEPT ![o.sym] = @ + moved] \in [Symbol -> Int]  BY <2>3, <3>3, <3>4
    <3> QED BY <3>2, <3>5, <3>6 DEF Portfolio
  <2>5. Step(p, "log", job[p]) /\ pc[p] = "fill" /\ grace' \subseteq Proc
    BY <1>11, <1>s DEF Fill
  <2>6. job[p].left > 0 /\ job[p].run \in 1..MaxRuns  BY <1>j, <2>5 DEF Cycling
  <2> QED BY <1>11, <1>j, <1>s, <2>4, <2>5, <2>6, StepInv DEF Fill, Pc
<1>12. ASSUME NEW p \in Proc, LogFill(p) PROVE TInv'
  <2>1. pc[p] = "log" /\ job[p].left > 0 /\ job[p].run \in 1..MaxRuns
    BY <1>12, <1>j DEF LogFill, Cycling
  <2>2. audit' \in Seq(Row)
    <3>1. LogRow("filled", TRUE, 0, job[p].run)  BY <1>12 DEF LogFill
    <3>2. job[p].run \in Nat  BY <1>j DEF Job
    <3> QED BY <1>t, <3>1, <3>2, LogType
  <2> DEFINE after == [job[p] EXCEPT !.order = {}, !.view = ledger]
  <2>3. after \in Job /\ after.run = job[p].run /\ after.left = job[p].left
    BY <1>j, <1>s DEF Job
  <2>4. Step(p, "symbol", after)  BY <1>12 DEF LogFill
  <2> HIDE DEF after
  <2> QED BY <1>12, <1>s, <2>1, <2>2, <2>3, <2>4, StepInv DEF LogFill, Pc
<1>13. ASSUME NEW p \in Proc, Observe(p) PROVE TInv'
  <2> DEFINE after == [job[p] EXCEPT !.view = ledger]
  <2>1. after \in Job /\ after.run = job[p].run  BY <1>j, <1>s DEF Job
  <2>2. Step(p, "compare", after) /\ pc[p] = "observe"  BY <1>13 DEF Observe
  <2> HIDE DEF after
  <2> QED BY <1>13, <1>c, <1>j, <1>s, <2>1, <2>2, StepInv DEF Observe
<1>14. ASSUME NEW p \in Proc, Compare(p) PROVE TInv'
  <2> DEFINE verdict == Agrees(job[p].view)
             after == [job[p] EXCEPT !.view = Empty, !.clean = verdict]
  <2>1. verdict \in BOOLEAN  BY Zenon DEF Agrees
  <2>2. Step(p, "record", after) /\ pc[p] = "compare"  BY <1>14 DEF Compare
  <2> HIDE DEF verdict
  <2>3. after \in Job /\ after.run = job[p].run  BY <1>j, <2>1, NoJobType DEF Job
  <2> HIDE DEF after
  <2> QED BY <1>14, <1>c, <1>j, <1>s, <2>2, <2>3, StepInv DEF Compare
<1>15. ASSUME NEW p \in Proc, Record(p) PROVE TInv'
  <2>1. job[p].clean \in BOOLEAN /\ job[p].run \in Nat  BY <1>j DEF Job
  <2>2. audit' \in Seq(Row)  BY <1>15, <1>t, <2>1, LogType DEF Record
  <2>3. Step(p, "idle", NoJob)  BY <1>15 DEF Record
  <2> QED BY <1>15, <1>c, <1>s, <2>2, <2>3, NoJobType, StepInv DEF Record
<1>16. ASSUME NEW p \in Proc, Die(p) PROVE TInv'
  <2>1. job[p].run \in 1..MaxRuns  BY <1>16, <1>j DEF Die
  <2>2. pc' = [pc EXCEPT ![p] = "idle"] /\ job' = [job EXCEPT ![p] = NoJob]
    BY <1>16 DEF Die
  <2>3. pc' \in [Proc -> Pc] /\ job' \in [Proc -> Job]
    BY <1>c, <1>t, <2>2, NoJobType DEF TypeOK
  <2>4. \A q \in Proc : q # p => pc'[q] = pc[q] /\ job'[q] = job[q]
    BY <1>t, <2>2 DEF TypeOK
  <2>5. pc'[p] = "idle"  BY <1>t, <2>2 DEF TypeOK
  <2>6. Counted' /\ Numbered'  BY <1>c, <1>j, <2>4, <2>5 DEF Counted, Numbered
  <2>7. lost' \in 0..MaxLost  BY <1>16, <1>t, AmountAssumption DEF Die, TypeOK
  <2>8. TypeOK'  BY <1>16, <1>t, <2>1, <2>3, <2>7 DEF Die, TypeOK
  <2> QED BY <2>6, <2>8 DEF TInv
<1>17. CASE ToggleStop
  <2>1. Counted' /\ Numbered'  BY <1>17 DEF ToggleStop, TInv, Counted, Numbered
  <2>2. TypeOK'  BY <1>17, <1>t DEF ToggleStop, TypeOK
  <2> QED BY <2>1, <2>2 DEF TInv
<1>18. CASE OtherRow
  <2>1. PICK act \in {"filled", "manual"} : LogRow(act, TRUE, 0, 0)  BY <1>18 DEF OtherRow
  <2>2. audit' \in Seq(Row)  BY <1>t, <2>1, LogType
  <2>3. other' \in 0..MaxOther  BY <1>18, <1>t, AmountAssumption DEF OtherRow, TypeOK
  <2>4. Counted' /\ Numbered'  BY <1>18 DEF OtherRow, TInv, Counted, Numbered
  <2>5. TypeOK'  BY <1>18, <1>t, <2>2, <2>3 DEF OtherRow, TypeOK
  <2> QED BY <2>4, <2>5 DEF TInv
<1>19. CASE UNCHANGED vars
  BY <1>19 DEF vars, TInv, TypeOK, Counted, Numbered
<1> QED BY <1>1, <1>2, <1>3, <1>4, <1>5, <1>6, <1>7, <1>8, <1>9, <1>10, <1>11, <1>12,
          <1>13, <1>14, <1>15, <1>16, <1>17, <1>18, <1>19 DEF Next

LEMMA TypeInit == Init => TInv
<1> SUFFICES ASSUME Init PROVE TInv  OBVIOUS
<1>1. pc \in [Proc -> Pc] /\ job \in [Proc -> Job]  BY NoJobType DEF Init, Pc
<1>2. audit \in Seq(Row) /\ ledger \in Portfolio  BY NoJobType DEF Init
<1>3. stop \in BOOLEAN  BY Zenon DEF Init
<1>4. TypeOK  BY <1>1, <1>2, <1>3, AmountAssumption DEF Init, TypeOK
<1>5. Counted /\ Numbered  BY DEF Init, Counted, Numbered, Cycling
<1> QED BY <1>4, <1>5 DEF TInv

\* The variables keep their types, for every set of symbols and processes,
\* every trade amount, fee and bound (equity_runtime.py).
THEOREM TypeCorrect == Spec => []TypeOK
<1>1. TInv => TypeOK  BY DEF TInv
<1> QED BY <1>1, TypeInit, TypeStep, PTL DEF Spec

-----------------------------------------------------------------------------
(***************************************************************************)
(* The stop file.                                                          *)
(***************************************************************************)

\* A process that neither fills nor changes the set of latecomers.
LEMMA StopQuiet ==
    ASSUME TInv, StopHolds, NEW p \in Proc, NEW at, at # "fill",
           pc' = [pc EXCEPT ![p] = at], stop' = stop,
           grace' = grace \/ grace' = grace \ {p}
    PROVE  StopHolds'
<1>1. \A q \in Proc : pc'[q] = IF q = p THEN at ELSE pc[q]  BY DEF TInv, TypeOK
<1> QED BY <1>1 DEF StopHolds

LEMMA StopStep == TInv /\ StopHolds /\ [Next]_vars => StopHolds'
<1> SUFFICES ASSUME TInv, StopHolds, [Next]_vars PROVE StopHolds'  OBVIOUS
<1>1. ASSUME NEW p \in Proc, StartProving(p) \/ StartLoop(p) PROVE StopHolds'
  <2>1. PICK at \in {"reset", "top"} : pc' = [pc EXCEPT ![p] = at]
    BY <1>1 DEF StartProving, StartLoop, Start
  <2> QED BY <1>1, <2>1, StopQuiet DEF StartProving, StartLoop, Start
<1>2. ASSUME NEW p \in Proc,
             \/ Reset(p) \/ Complete(p) \/ Halt(p) \/ NextCycle(p) \/ BeginCycle(p) \/ CycleOver(p)
             \/ Skip(p) \/ Evaluate(p) \/ Fill(p) \/ LogFill(p)
             \/ Observe(p) \/ Compare(p) \/ Record(p) \/ Die(p)
      PROVE  StopHolds'
  <2>1. PICK at \in Pc \ {"fill"} : pc' = [pc EXCEPT ![p] = at]
    <3>1. CASE Complete(p) \/ Halt(p)
      BY <3>1 DEF Complete, Halt, AfterLoop, Step, Pc
    <3>2. CASE BeginCycle(p) \/ CycleOver(p)
      BY <3>2 DEF BeginCycle, CycleOver, CycleEnds, Step, Pc
    <3>3. CASE Reset(p) \/ NextCycle(p) \/ Fill(p) \/ LogFill(p)
               \/ Observe(p) \/ Compare(p) \/ Record(p) \/ Die(p)
      BY <3>3 DEF Reset, NextCycle, Fill, LogFill, Observe, Compare, Record, Die, Step, Pc
    <3>4. CASE Skip(p)
      BY <3>4 DEF Skip, Step, Pc
    <3>5. CASE Evaluate(p)
      BY <3>5 DEF Evaluate, Step, Pc
    <3> QED BY <1>2, <3>1, <3>2, <3>3, <3>4, <3>5
  <2>2. stop' = stop /\ (grace' = grace \/ grace' = grace \ {p})
    BY <1>2 DEF Reset, Complete, Halt, NextCycle, BeginCycle, CycleOver, Skip, Evaluate, Fill,
                LogFill, Observe, Compare, Record, Die
  <2> QED BY <2>1, <2>2, StopQuiet
<1>3. ASSUME NEW p \in Proc, Decide(p) PROVE StopHolds'
  <2>1. stop' = stop /\ grace' = grace  BY <1>3 DEF Decide
  <2>2. CASE stop
    <3>1. pc' = [pc EXCEPT ![p] = "symbol"]  BY <1>3, <2>2 DEF Decide, Step
    <3> QED BY <2>1, <3>1, StopQuiet
  <2>3. CASE ~ stop
    BY <2>1, <2>3 DEF StopHolds
  <2> QED BY <2>2, <2>3
<1>4. CASE ToggleStop
  BY <1>4 DEF ToggleStop, StopHolds
<1>5. CASE OtherRow \/ UNCHANGED vars
  BY <1>5 DEF OtherRow, vars, StopHolds
<1> QED BY <1>1, <1>2, <1>3, <1>4, <1>5 DEF Next

\* Once the stop file is there no order passes the risk check, for any number of
\* executions side by side (risk_manager.py:40).
THEOREM StopIsHeld == Spec => []StopHolds
<1>1. Init => StopHolds  BY DEF Init, StopHolds
<1> QED BY <1>1, TypeInit, TypeStep, StopStep, PTL DEF Spec

-----------------------------------------------------------------------------
(***************************************************************************)
(* A proving run that runs alone.                                          *)
(***************************************************************************)

\* Executions that are active together are marked as such.
Sole == \A p, q \in Proc : pc[p] # "idle" /\ pc[q] # "idle" /\ p # q => job[p].run \in overlap

\* Only proving runs reconcile.
Reconciles == \A p \in Proc : pc[p] \in {"observe", "compare", "record"} => job[p].proving

\* A proving run past its reset, with nothing beside it so far.
Alone(p) == job[p].proving /\ job[p].run \notin overlap /\ pc[p] \notin {"idle", "reset"}

\* To it the ledger is its own: the portfolio in memory is the ledger, nothing is
\* short, and what was moved was moved by its fills.
Own(p) ==
    /\ \A c \in Symbol : ledger.qty[c] >= 0
    /\ ledger = Empty \/ pc[p] = "log" \/ By(job[p].run, "filled") # {}
    /\ pc[p] \in {"symbol", "risk", "fill", "compare"} => job[p].view = ledger
    /\ pc[p] = "risk" => \A a, b \in job[p].order : a = b
    /\ pc[p] = "risk" =>
          \A o \in job[p].order : o.side = "sell" /\ ledger.qty[o.sym] > 0
                                    => o.amount <= ledger.qty[o.sym]
    /\ pc[p] = "fill" =>
          \A o \in job[p].order : o.side = "sell" => o.amount <= ledger.qty[o.sym]
    /\ pc[p] = "record" => job[p].clean \/ ledger.cash < 0

Owned == \A p \in Proc : Alone(p) => Own(p)

AInv == Sole /\ Reconciles /\ Owned

\* Rows are only added: fills that were logged stay so.
LEMMA FillsStay ==
    ASSUME TypeOK, NEW r \in Row, audit' = Append(audit, r) \/ audit' = audit,
           NEW p \in Proc, job'[p].run = job[p].run, By(job[p].run, "filled") # {}
    PROVE  By(job[p].run, "filled")' # {}
<1>1. \A k \in DOMAIN audit : k \in DOMAIN audit' /\ audit'[k] = audit[k]
  BY DEF TypeOK
<1>2. PICK k \in DOMAIN audit : audit[k].act = "filled" /\ audit[k].by = job[p].run
  BY DEF By, Rows
<1>3. k \in By(job[p].run, "filled")'  BY <1>1, <1>2 DEF By, Rows
<1> QED BY <1>3

\* The row of a fill counts for its execution.
LEMMA FillCounts ==
    ASSUME TypeOK, NEW p \in Proc, job[p].run \in Nat, job'[p].run = job[p].run,
           LogRow("filled", TRUE, 0, job[p].run)
    PROVE  By(job[p].run, "filled")' # {}
<1> DEFINE r == [act |-> "filled", ok |-> TRUE, n |-> 0, by |-> job[p].run]
<1>1. r \in Row /\ r.act = "filled" /\ r.by = job[p].run  BY DEF Row
<1>2. audit' = Append(audit, r)  BY DEF LogRow
<1> HIDE DEF r
<1>3. Len(audit) + 1 \in DOMAIN audit' /\ audit'[Len(audit) + 1] = r
  BY <1>1, <1>2 DEF TypeOK
<1>4. Len(audit) + 1 \in By(job[p].run, "filled")'  BY <1>1, <1>3 DEF By, Rows
<1> QED BY <1>4

\* A step of an execution leaves the others as they were: if one of them were
\* alone, this one would not be there.
LEMMA OneStep ==
    ASSUME TInv, AInv, NEW p \in Proc, pc[p] # "idle", NEW at, NEW after, Step(p, at, after),
           at # "idle" => after.run = job[p].run,
           at \in {"observe", "compare", "record"} => after.proving,
           Alone(p)' => Own(p)'
    PROVE  AInv'
<1>1. \A q \in Proc : /\ pc'[q] = IF q = p THEN at ELSE pc[q]
                      /\ job'[q] = IF q = p THEN after ELSE job[q]
  BY DEF Step, TInv, TypeOK
<1>2. overlap' = overlap  BY DEF Step
<1>3. Sole'  BY <1>1, <1>2 DEF AInv, Sole
<1>4. Reconciles'  BY <1>1 DEF AInv, Reconciles
<1>5. ASSUME NEW q \in Proc, q # p PROVE ~Alone(q)'
  BY <1>1, <1>2, <1>5 DEF AInv, Sole, Alone
<1>6. Owned'
  <2> SUFFICES ASSUME NEW q \in Proc, Alone(q)' PROVE Own(q)'  BY DEF Owned
  <2>1. q = p  BY <1>5
  <2> QED BY <2>1
<1> QED BY <1>3, <1>4, <1>6 DEF AInv

\* What the step of an execution that is alone may rely on, and its effect.
LEMMA StepFacts ==
    ASSUME TInv, AInv, NEW p \in Proc, NEW at, NEW after, Step(p, at, after)
    PROVE  /\ pc'[p] = at /\ job'[p] = after /\ overlap' = overlap
           /\ job[p] \in Job /\ ledger \in Portfolio /\ audit \in Seq(Row)
           /\ Alone(p) => Own(p)
BY DEF Step, TInv, TypeOK, AInv, Owned

LEMMA StartOwned ==
    ASSUME TInv, AInv, NEW p \in Proc, NEW at \in {"reset", "top"}, NEW proving \in BOOLEAN,
           proving => at = "reset", Start(p, at, proving)
    PROVE  AInv'
<1>1. PICK n \in 0..Iterations :
         job' = [job EXCEPT ![p] =
                   [NoJob EXCEPT !.proving = proving, !.run = runs + 1, !.left = n]]
  BY DEF Start
<1> DEFINE after == [NoJob EXCEPT !.proving = proving, !.run = runs + 1, !.left = n]
<1>2. after.run = runs + 1 /\ after.proving = proving  BY DEF NoJob
<1>3. job' = [job EXCEPT ![p] = after]  BY <1>1
<1> HIDE DEF after
<1>4. \A q \in Proc : /\ pc'[q] = IF q = p THEN at ELSE pc[q]
                      /\ job'[q] = IF q = p THEN after ELSE job[q]
  BY <1>3 DEF Start, TInv, TypeOK
<1>5. pc[p] = "idle"  BY DEF Start
<1>6. CASE Running = {}
  <2>1. \A q \in Proc : pc[q] = "idle"  BY <1>6 DEF Running
  <2>2. Sole'  BY <1>4, <2>1 DEF Sole
  <2>3. Reconciles'  BY <1>4, <2>1 DEF Reconciles
  <2>4. Owned'  BY <1>2, <1>4, <2>1 DEF Owned, Alone
  <2> QED BY <2>2, <2>3, <2>4 DEF AInv
<1>7. CASE Running # {}
  <2>1. overlap' = overlap \cup {runs + 1} \cup {job[q].run : q \in Running}
    BY <1>7 DEF Start
  <2>2. \A q \in Proc : pc'[q] # "idle" => job'[q].run \in overlap'
    BY <1>2, <1>4, <1>5, <2>1 DEF Running
  <2>3. Sole' /\ Owned'  BY <2>2 DEF Sole, Owned, Alone
  <2>4. Reconciles'  BY <1>4 DEF AInv, Reconciles
  <2> QED BY <2>3, <2>4 DEF AInv
<1> QED BY <1>6, <1>7

\* The loop is left: only a proving run goes on, and with what it has.
LEMMA AfterLoopOwned ==
    ASSUME TInv, AInv, NEW p \in Proc, pc[p] = "top", AfterLoop(p), ledger' = ledger,
           NEW r \in Row, audit' = Append(audit, r) \/ audit' = audit
    PROVE  AInv'
<1>1. CASE job[p].proving
  <2> DEFINE after == [job[p] EXCEPT !.left = 0, !.done = 0]
  <2>1. Step(p, "observe", after)  BY <1>1 DEF AfterLoop
  <2>2. job[p] \in Job  BY DEF TInv, TypeOK
  <2>3. after.run = job[p].run /\ after.proving = job[p].proving  BY <2>2 DEF Job
  <2> HIDE DEF after
  <2>4. pc'[p] = "observe" /\ job'[p] = after /\ overlap' = overlap /\ (Alone(p) => Own(p))
    BY <2>1, StepFacts
  <2>6. ASSUME Alone(p)' PROVE Own(p)'
    <3>1. Own(p)  BY <2>3, <2>4, <2>6 DEF Alone
    <3>2. job'[p].run = job[p].run  BY <2>3, <2>4
    <3>3. ledger = Empty \/ By(job[p].run, "filled")' # {}
      BY <3>1, <3>2, FillsStay DEF Own, TInv
    <3> QED BY <2>4, <3>1, <3>3 DEF Own
  <2> QED BY <1>1, <2>1, <2>3, <2>6, OneStep
<1>2. CASE ~ job[p].proving
  <2>1. Step(p, "idle", NoJob)  BY <1>2 DEF AfterLoop
  <2>2. ~ Alone(p)'  BY <2>1, StepFacts DEF Alone
  <2> QED BY <2>1, <2>2, OneStep
<1> QED BY <1>1, <1>2

\* What is left to show of a step that touches memory only.
OwnMemory(at, after) ==
    /\ at \in {"symbol", "risk", "fill", "compare"} => after.view = ledger
    /\ at = "risk" => \A a, b \in after.order : a = b
    /\ at = "risk" =>
          \A o \in after.order : o.side = "sell" /\ ledger.qty[o.sym] > 0
                                 => o.amount <= ledger.qty[o.sym]
    /\ at = "fill" =>
          \A o \in after.order : o.side = "sell" => o.amount <= ledger.qty[o.sym]
    /\ at = "record" => after.clean \/ ledger.cash < 0

LEMMA InMemory ==
    ASSUME TInv, AInv, NEW p \in Proc, pc[p] \notin {"idle", "reset", "log"},
           NEW at, at \notin {"idle", "reset", "log"}, NEW after, Step(p, at, after),
           after.run = job[p].run, after.proving = job[p].proving,
           at \in {"observe", "compare", "record"} => job[p].proving,
           ledger' = ledger, audit' = audit,
           Own(p) => OwnMemory(at, after)
    PROVE  AInv'
<1>1. pc'[p] = at /\ job'[p] = after /\ overlap' = overlap /\ (Alone(p) => Own(p))
  BY StepFacts
<1>2. ASSUME Alone(p)' PROVE Own(p)'
  <2>1. Own(p)  BY <1>1, <1>2 DEF Alone
  <2>2. By(job[p].run, "filled")' = By(job[p].run, "filled")  BY <1>1 DEF By, Rows
  <2>3. ledger = Empty \/ By(job[p].run, "filled")' # {}  BY <2>1, <2>2 DEF Own
  <2>4. OwnMemory(at, after)  BY <2>1
  <2> QED BY <1>1, <2>1, <2>3, <2>4 DEF Own, OwnMemory
<1> QED BY <1>2, OneStep

\* Every step keeps a run that is alone in charge of the ledger.
LEMMA OwnStep == TInv /\ AInv /\ [Next]_vars => AInv'
<1> SUFFICES ASSUME TInv, AInv, [Next]_vars PROVE AInv'  OBVIOUS
<1>j. \A p \in Proc : job[p] \in Job  BY DEF TInv, TypeOK
<1>l. /\ ledger.cash \in Int /\ ledger.qty \in [Symbol -> Int]
      /\ Empty.qty = [c \in Symbol |-> 0]
  BY DEF TInv, TypeOK, Portfolio, Empty
<1>1. ASSUME NEW p \in Proc, StartProving(p) \/ StartLoop(p) PROVE AInv'
  BY <1>1, StartOwned DEF StartProving, StartLoop
<1>2. ASSUME NEW p \in Proc, Reset(p) PROVE AInv'
  <2>1. Step(p, "top", job[p]) /\ ledger' = Empty /\ pc[p] = "reset"  BY <1>2 DEF Reset
  <2>2. pc'[p] = "top"  BY <2>1, StepFacts
  <2>3. Own(p)'  BY <1>l, <2>1, <2>2 DEF Own, Empty
  <2> QED BY <2>1, <2>3, OneStep
<1>3. ASSUME NEW p \in Proc, Complete(p) PROVE AInv'
  <2> DEFINE r == [act |-> "loop", ok |-> job[p].proving, n |-> job[p].done, by |-> job[p].run]
  <2>1. r \in Row  BY <1>j DEF Job, Row
  <2>2. audit' = Append(audit, r)  BY <1>3 DEF Complete, LogRow
  <2> HIDE DEF r
  <2> QED BY <1>3, <2>1, <2>2, AfterLoopOwned DEF Complete
<1>4. ASSUME NEW p \in Proc, Halt(p) PROVE AInv'
  <2>1. [act |-> "manual", ok |-> TRUE, n |-> 0, by |-> 0] \in Row  BY DEF Row
  <2> QED BY <1>4, <2>1, AfterLoopOwned DEF Halt
<1>5. ASSUME NEW p \in Proc, NextCycle(p) PROVE AInv'
  BY <1>5, InMemory DEF NextCycle, OwnMemory
<1>6. ASSUME NEW p \in Proc, pc[p] \in {"begin", "symbol"}, CycleEnds(p),
             UNCHANGED <<ledger, audit>>
      PROVE  AInv'
  <2> DEFINE after == [job[p] EXCEPT !.left = @ - 1, !.done = @ + 1, !.todo = {}, !.view = Empty]
  <2>1. Step(p, "top", after)  BY <1>6 DEF CycleEnds
  <2>2. after.run = job[p].run /\ after.proving = job[p].proving  BY <1>j DEF Job
  <2> HIDE DEF after
  <2>3. OwnMemory("top", after)  BY DEF OwnMemory
  <2> QED BY <1>6, <2>1, <2>2, <2>3, InMemory
<1>7. ASSUME NEW p \in Proc, BeginCycle(p) PROVE AInv'
  <2>1. CASE stop  BY <1>6, <1>7, <2>1 DEF BeginCycle
  <2>2. CASE ~ stop
    <3> DEFINE after == [job[p] EXCEPT !.todo = Symbol, !.view = ledger]
    <3>1. Step(p, "symbol", after)  BY <1>7, <2>2 DEF BeginCycle
    <3>2. after.run = job[p].run /\ after.proving = job[p].proving /\ after.view = ledger
      BY <1>j DEF Job
    <3> HIDE DEF after
    <3>3. OwnMemory("symbol", after)  BY <3>2 DEF OwnMemory
    <3> QED BY <1>7, <3>1, <3>2, <3>3, InMemory DEF BeginCycle
  <2> QED BY <2>1, <2>2
<1>8. ASSUME NEW p \in Proc, CycleOver(p) PROVE AInv'
  BY <1>6, <1>8 DEF CycleOver
<1>9. ASSUME NEW p \in Proc, Skip(p) PROVE AInv'
  <2>1. PICK c \in job[p].todo : Step(p, "symbol", [job[p] EXCEPT !.todo = @ \ {c}])
    BY <1>9 DEF Skip
  <2> DEFINE after == [job[p] EXCEPT !.todo = @ \ {c}]
  <2>2. after.run = job[p].run /\ after.proving = job[p].proving /\ after.view = job[p].view
    BY <1>j DEF Job
  <2>3. Step(p, "symbol", after) /\ pc[p] = "symbol"  BY <1>9, <2>1 DEF Skip
  <2> HIDE DEF after
  <2>4. Own(p) => OwnMemory("symbol", after)  BY <2>2, <2>3 DEF Own, OwnMemory
  <2> QED BY <1>9, <2>2, <2>3, <2>4, InMemory DEF Skip
<1>10. ASSUME NEW p \in Proc, Evaluate(p) PROVE AInv'
  <2>1. PICK c \in job[p].todo, side \in {"buy", "sell"} : \E n \in Sized(p, c, side) :
            Step(p, "risk", [job[p] EXCEPT !.todo = @ \ {c},
                              !.order = {[sym |-> c, side |-> side, amount |-> n]}])
    BY <1>10 DEF Evaluate
  <2>2. PICK n \in Sized(p, c, side) :
            Step(p, "risk", [job[p] EXCEPT !.todo = @ \ {c},
                              !.order = {[sym |-> c, side |-> side, amount |-> n]}])
    BY <2>1
  <2> DEFINE after == [job[p] EXCEPT !.todo = @ \ {c},
                              !.order = {[sym |-> c, side |-> side, amount |-> n]}]
  <2>3. /\ after.run = job[p].run /\ after.proving = job[p].proving /\ after.view = job[p].view
        /\ after.order = {[sym |-> c, side |-> side, amount |-> n]}
    BY <1>j DEF Job
  <2>4. Step(p, "risk", after) /\ pc[p] = "symbol"  BY <1>10, <2>2 DEF Evaluate
  <2> HIDE DEF after
  <2>5. c \in Symbol  BY <1>j DEF Job
  <2>6. ASSUME Own(p) PROVE OwnMemory("risk", after)
    <3>1. job[p].view = ledger  BY <2>4, <2>6 DEF Own
    <3>2. side = "sell" /\ ledger.qty[c] > 0 => n <= ledger.qty[c]
      <4>1. ledger.qty[c] \in Int  BY <1>l, <2>5
      <4> QED BY <2>2, <3>1, <4>1, AmountAssumption DEF Sized
    <3> QED BY <2>3, <3>1, <3>2 DEF OwnMemory
  <2> QED BY <1>10, <2>3, <2>4, <2>6, InMemory DEF Evaluate
<1>11. ASSUME NEW p \in Proc, Decide(p) PROVE AInv'
  <2>1. PICK o \in job[p].order :
            IF ~ stop /\ Funded(p, o) THEN Step(p, "fill", job[p])
                                      ELSE Step(p, "symbol", [job[p] EXCEPT !.order = {}])
    BY <1>11 DEF Decide
  <2>2. pc[p] = "risk" /\ UNCHANGED <<ledger, audit>>  BY <1>11 DEF Decide
  <2>3. CASE Step(p, "fill", job[p]) /\ Funded(p, o)
    <3>1. ASSUME Own(p) PROVE OwnMemory("fill", job[p])
      <4>1. job[p].view = ledger /\ \A a \in job[p].order : a = o
        BY <2>1, <2>2, <3>1 DEF Own
      <4>2. o.side = "sell" => o.amount <= ledger.qty[o.sym]
        BY <2>1, <2>2, <2>3, <3>1, <4>1 DEF Own, Funded
      <4> QED BY <4>1, <4>2 DEF OwnMemory
    <3> QED BY <2>2, <2>3, <3>1, InMemory
  <2>4. CASE Step(p, "symbol", [job[p] EXCEPT !.order = {}])
    <3> DEFINE after == [job[p] EXCEPT !.order = {}]
    <3>1. after.run = job[p].run /\ after.proving = job[p].proving /\ after.view = job[p].view
      BY <1>j DEF Job
    <3>2. Step(p, "symbol", after)  BY <2>4
    <3> HIDE DEF after
    <3>3. Own(p) => OwnMemory("symbol", after)  BY <2>2, <3>1 DEF Own, OwnMemory
    <3> QED BY <2>2, <3>1, <3>2, <3>3, InMemory
  <2> QED BY <2>1, <2>3, <2>4, Zenon
<1>12. ASSUME NEW p \in Proc, Fill(p) PROVE AInv'
  <2>1. PICK o \in job[p].order : ledger' = Booked(ledger, o)  BY <1>12 DEF Fill
  <2>2. Step(p, "log", job[p]) /\ pc[p] = "fill"  BY <1>12 DEF Fill
  <2>3. o.sym \in Symbol /\ o.amount \in Int /\ o.amount > 0 /\ o.side \in {"buy", "sell"}
    BY <1>j, AmountAssumption DEF Job, Order
  <2>4. pc'[p] = "log" /\ job'[p] = job[p] /\ overlap' = overlap /\ (Alone(p) => Own(p))
    BY <2>2, StepFacts
  <2>5. ASSUME Alone(p)' PROVE Own(p)'
    <3>1. Own(p)  BY <2>2, <2>4, <2>5 DEF Alone
    <3>2. \A c \in Symbol : ledger.qty[c] >= 0 /\ ledger.qty[c] \in Int
      BY <1>l, <3>1 DEF Own
    <3>3. CASE o.side = "buy"
      <4>1. ledger'.qty = [ledger.qty EXCEPT ![o.sym] = @ + o.amount]
        BY <1>l, <2>1, <2>3, <3>3 DEF Booked
      <4>2. \A c \in Symbol : ledger'.qty[c] >= 0  BY <1>l, <2>3, <3>2, <4>1
      <4> QED BY <2>4, <4>2 DEF Own
    <3>4. CASE o.side = "sell"
      <4>1. ledger'.qty = [ledger.qty EXCEPT ![o.sym] = @ - o.amount]
        <5>1. ledger'.qty = [ledger.qty EXCEPT ![o.sym] = @ + (-1) * o.amount]
          BY <2>1, <3>4 DEF Booked
        <5>2. (-1) * o.amount = - o.amount  BY <2>3
        <5> QED BY <1>l, <2>3, <5>1, <5>2
      <4>2. o.amount <= ledger.qty[o.sym]  BY <2>1, <2>2, <3>1, <3>4 DEF Own
      <4>3. \A c \in Symbol : ledger'.qty[c] >= 0  BY <1>l, <2>3, <3>2, <4>1, <4>2
      <4> QED BY <2>4, <4>3 DEF Own
    <3> QED BY <2>3, <3>3, <3>4
  <2> QED BY <2>2, <2>5, OneStep
<1>13. ASSUME NEW p \in Proc, LogFill(p) PROVE AInv'
  <2> DEFINE after == [job[p] EXCEPT !.order = {}, !.view = ledger]
  <2>1. Step(p, "symbol", after) /\ pc[p] = "log"  BY <1>13 DEF LogFill
  <2>2. after.run = job[p].run /\ after.proving = job[p].proving /\ after.view = ledger
        /\ job[p].run \in Nat
    BY <1>j DEF Job
  <2> HIDE DEF after
  <2>3. pc'[p] = "symbol" /\ job'[p] = after /\ overlap' = overlap /\ (Alone(p) => Own(p))
    BY <2>1, StepFacts
  <2>4. LogRow("filled", TRUE, 0, job[p].run) /\ ledger' = ledger  BY <1>13 DEF LogFill
  <2>5. By(job[p].run, "filled")' # {}
    BY <2>2, <2>3, <2>4, FillCounts DEF TInv
  <2>6. ASSUME Alone(p)' PROVE Own(p)'
    <3>1. Own(p)  BY <2>1, <2>2, <2>3, <2>6 DEF Alone
    <3> QED BY <2>2, <2>3, <2>4, <2>5, <3>1 DEF Own
  <2> QED BY <2>1, <2>2, <2>6, OneStep
<1>14. ASSUME NEW p \in Proc, Observe(p) PROVE AInv'
  <2> DEFINE after == [job[p] EXCEPT !.view = ledger]
  <2>1. Step(p, "compare", after) /\ pc[p] = "observe"  BY <1>14 DEF Observe
  <2>2. after.run = job[p].run /\ after.proving = job[p].proving /\ after.view = ledger
    BY <1>j DEF Job
  <2> HIDE DEF after
  <2>3. OwnMemory("compare", after)  BY <2>2 DEF OwnMemory
  <2>4. job[p].proving  BY <2>1 DEF AInv, Reconciles
  <2> QED BY <1>14, <2>1, <2>2, <2>3, <2>4, InMemory DEF Observe
<1>15. ASSUME NEW p \in Proc, Compare(p) PROVE AInv'
  <2> DEFINE verdict == Agrees(job[p].view)
             after == [job[p] EXCEPT !.view = Empty, !.clean = verdict]
  <2>1. Step(p, "record", after) /\ pc[p] = "compare"  BY <1>15 DEF Compare
  <2>2. ASSUME Own(p) PROVE verdict \/ ledger.cash < 0
    BY <1>l, <2>1, <2>2 DEF Own, Agrees
  <2> HIDE DEF verdict
  <2>3. after.run = job[p].run /\ after.proving = job[p].proving /\ after.clean = verdict
    BY <1>j DEF Job
  <2> HIDE DEF after
  <2>4. ASSUME Own(p) PROVE OwnMemory("record", after)
    <3>1. after.clean \/ ledger.cash < 0  BY <2>2, <2>3, <2>4, Zenon
    <3> QED BY <3>1 DEF OwnMemory
  <2>5. job[p].proving  BY <2>1 DEF AInv, Reconciles
  <2> QED BY <1>15, <2>1, <2>3, <2>4, <2>5, InMemory DEF Compare
<1>16. ASSUME NEW p \in Proc, Record(p) PROVE AInv'
  <2>1. Step(p, "idle", NoJob) /\ pc[p] = "record"  BY <1>16 DEF Record
  <2>2. ~ Alone(p)'  BY <2>1, StepFacts DEF Alone
  <2> QED BY <2>1, <2>2, OneStep
<1>17. ASSUME NEW p \in Proc, Die(p) PROVE AInv'
  <2>1. \A q \in Proc : /\ pc'[q] = IF q = p THEN "idle" ELSE pc[q]
                        /\ q # p => job'[q] = job[q]
    BY <1>17 DEF Die, TInv, TypeOK
  <2>2. overlap' = overlap /\ pc[p] # "idle"  BY <1>17 DEF Die
  <2>3. Sole'  BY <2>1, <2>2 DEF AInv, Sole
  <2>4. Reconciles'  BY <2>1 DEF AInv, Reconciles
  <2>5. \A q \in Proc : ~ Alone(q)'  BY <2>1, <2>2 DEF AInv, Sole, Alone
  <2> QED BY <2>3, <2>4, <2>5 DEF AInv, Owned
<1>18. CASE ToggleStop \/ OtherRow \/ UNCHANGED vars
  <2>1. UNCHANGED <<ledger, pc, job, overlap>>  BY <1>18 DEF ToggleStop, OtherRow, vars
  <2>2. \E r \in Row : audit' = Append(audit, r) \/ audit' = audit
    <3>1. CASE OtherRow
      <4>1. PICK act \in {"filled", "manual"} : LogRow(act, TRUE, 0, 0)  BY <3>1 DEF OtherRow
      <4>2. [act |-> act, ok |-> TRUE, n |-> 0, by |-> 0] \in Row  BY DEF Row
      <4> QED BY <4>1, <4>2 DEF LogRow
    <3>2. CASE ToggleStop \/ UNCHANGED vars
      <4>1. [act |-> "manual", ok |-> TRUE, n |-> 0, by |-> 0] \in Row  BY DEF Row
      <4> QED BY <3>2, <4>1 DEF ToggleStop, vars
    <3> QED BY <1>18, <3>1, <3>2
  <2>3. Sole' /\ Reconciles'  BY <2>1 DEF AInv, Sole, Reconciles
  <2>4. ASSUME NEW p \in Proc, Alone(p)' PROVE Own(p)'
    <3>1. Own(p)  BY <2>1, <2>4 DEF AInv, Owned, Alone
    <3>2. job'[p].run = job[p].run  BY <2>1
    <3>3. ledger = Empty \/ pc[p] = "log" \/ By(job[p].run, "filled")' # {}
      BY <2>2, <3>1, <3>2, FillsStay DEF Own, TInv
    <3> QED BY <2>1, <3>1, <3>3 DEF Own
  <2> QED BY <2>3, <2>4 DEF AInv, Owned
<1> QED
  BY <1>1, <1>2, <1>3, <1>4, <1>5, <1>7, <1>8, <1>9, <1>10, <1>11, <1>12, <1>13, <1>14, <1>15,
     <1>16, <1>17, <1>18 DEF Next

LEMMA OwnInit == Init => AInv
BY DEF Init, AInv, Sole, Reconciles, Owned, Alone

\* A run that is alone and finds an error has spent its last dollar itself.
LEMMA OwnAlarm == TInv /\ AInv => AlarmIsExplained
<1> SUFFICES ASSUME TInv, AInv, NEW p \in Proc, pc[p] = "record", ~ job[p].clean,
                    job[p].run \notin overlap
             PROVE  ledger.cash < 0 /\ By(job[p].run, "filled") # {}
  BY DEF AlarmIsExplained
<1>1. Own(p)  BY DEF AInv, Owned, Reconciles, Alone
<1>2. ledger.cash < 0  BY <1>1 DEF Own
<1>3. ledger # Empty  BY <1>2, AmountAssumption DEF Empty
<1> QED BY <1>1, <1>2, <1>3 DEF Own

\* A proving run that ran alone is never blamed for what an earlier execution did:
\* an error in its reconciliation means it spent its last dollar itself and the fee
\* came on top (equity_runtime.py:694, paper_broker.py:238).
THEOREM AlarmHolds == Spec => []AlarmIsExplained
<1> QED BY TypeInit, TypeStep, OwnInit, OwnStep, OwnAlarm, PTL DEF Spec

-----------------------------------------------------------------------------
(***************************************************************************)
(* Executions side by side: what of the cash and of a position the orders  *)
(* still under way can take is covered, but for one order per further      *)
(* process.                                                                *)
(***************************************************************************)

Loaded == {"symbol", "risk", "fill"}

\* An order under way is one, fits what its execution saw, and passed the check.
Checked ==
    \A p \in Proc :
        /\ pc[p] \in {"risk", "fill"} => \A a, b \in job[p].order : a = b
        /\ pc[p] \in {"risk", "fill"} =>
              \A o \in job[p].order :
                 o.side = "sell" /\ job[p].view.qty[o.sym] > 0 => o.amount <= job[p].view.qty[o.sym]
        /\ pc[p] = "fill" => \A o \in job[p].order : Funded(p, o)

\* While no two executions overlapped, nothing is seen that is not there.
Fresh ==
    overlap = {} =>
        /\ ledger.cash >= - Fee /\ \A c \in Symbol : ledger.qty[c] >= 0
        /\ \A p \in Proc : pc[p] \in Loaded => job[p].view = ledger

\* The level L of a store that the members of U saw at v and may each take up to D
\* of once, though none from under z: there is a process whose reading is held back
\* by no more than one order of each of the others that took theirs.
Count == [S \in SUBSET Proc |-> Cardinality(S)]

Covers(L, U, v, D, z) ==
    \E p \in Proc : L >= (IF p \in U THEN v[p] ELSE z) - D * Count[Proc \ (U \cup {p})]

Buying     == {p \in Proc : pc[p] \in Loaded /\ job[p].view.cash >= 1}
Selling(c) == {p \in Proc : pc[p] \in Loaded /\ job[p].view.qty[c] >= 1}

CashCovered == Covers(ledger.cash, Buying, [p \in Proc |-> job[p].view.cash], Cap + Fee, - Fee)
QtyCovered ==
    \A c \in Symbol : Covers(ledger.qty[c], Selling(c), [p \in Proc |-> job[p].view.qty[c]], Cap, 0)

OInv ==
    /\ Checked /\ Fresh
    /\ Proc = {} => overlap = {}
    /\ Proc # {} => CashCovered /\ QtyCovered

-----------------------------------------------------------------------------
LEMMA Scale ==
    ASSUME NEW D \in Nat, NEW a \in Nat, NEW b \in Nat, a <= b
    PROVE  D * a <= D * b /\ D * a \in Nat /\ D * (a + 1) = D * a + D
OBVIOUS

LEMMA ProcSets ==
    ASSUME NEW S \in SUBSET Proc
    PROVE  IsFiniteSet(S) /\ Cardinality(S) \in Nat /\ Count[S] = Cardinality(S)
BY SetAssumption, FS_Subset, FS_CardinalityType DEF Count

\* One process moves on: it keeps its reading, or takes a new one, or gives it up
\* and takes what it may.
LEMMA CoverStep ==
    ASSUME NEW q \in Proc, NEW U \in SUBSET Proc, NEW U1 \in SUBSET Proc, NEW v, NEW v1,
           NEW L \in Int, NEW L1 \in Int, NEW D \in Nat, NEW z \in Int,
           \A p \in Proc : v[p] \in Int,
           \A p \in Proc : p # q => (p \in U1 <=> p \in U) /\ v1[p] = v[p],
           \A p \in U : v[p] >= z,
           Covers(L, U, v, D, z),
           \/ q \in U /\ q \in U1 /\ v1[q] = v[q] /\ L1 = L
           \/ q \in U1 /\ v1[q] = L1
           \/ q \notin U1 /\ (L1 >= L \/ L1 >= z)
           \/ q \notin U1 /\ q \in U /\ L1 >= L - D /\ L1 >= L - v[q] + z
    PROVE  Covers(L1, U1, v1, D, z)
<1> DEFINE Rest(p)  == Proc \ (U \cup {p})
           Rest1(p) == Proc \ (U1 \cup {p})
<1>1. \A p \in Proc : /\ Cardinality(Rest(p)) \in Nat /\ Cardinality(Rest1(p)) \in Nat
                      /\ IsFiniteSet(Rest(p)) /\ IsFiniteSet(Rest1(p))
                      /\ Count[Rest(p)] = Cardinality(Rest(p))
                      /\ Count[Rest1(p)] = Cardinality(Rest1(p))
  BY ProcSets
<1>2. \A p \in Proc : D * Cardinality(Rest(p)) \in Nat /\ D * Cardinality(Rest1(p)) \in Nat
  <2>1. \A n \in Nat : D * n \in Nat
    BY Scale
  <2> HIDE DEF Rest, Rest1
  <2>2. QED
    BY ONLY <1>1, <2>1
<1>3. PICK p \in Proc : L >= (IF p \in U THEN v[p] ELSE z) - D * Cardinality(Rest(p))
  BY <1>1 DEF Covers
<1>4. SUFFICES \E w \in Proc : L1 >= (IF w \in U1 THEN v1[w] ELSE z) - D * Cardinality(Rest1(w))
  BY <1>1 DEF Covers
<1>5. Rest1(q) = Rest(q)
  OBVIOUS
<1>6. CASE q \in U /\ q \in U1 /\ v1[q] = v[q] /\ L1 = L
  <2>1. Rest1(p) = Rest(p) /\ v1[p] = v[p] /\ (p \in U1 <=> p \in U)
    BY <1>6
  <2> HIDE DEF Rest, Rest1
  <2>2. QED
    BY <1>3, <1>6, <2>1
<1>7. CASE q \in U1 /\ v1[q] = L1
  <2> HIDE DEF Rest, Rest1
  <2>1. QED
    BY <1>2, <1>7
<1>8. CASE q \notin U1 /\ L1 >= z
  <2> HIDE DEF Rest, Rest1
  <2>1. QED
    BY <1>2, <1>8
<1>9. CASE q \notin U1 /\ L1 >= L
  <2>1. CASE p = q
    <3> HIDE DEF Rest, Rest1
    <3>1. L1 >= z - D * Cardinality(Rest1(q))
      BY <1>2, <1>3, <1>5, <1>9, <2>1
    <3>2. QED
      BY <1>9, <3>1
  <2>2. CASE p # q
    <3>1. Rest(p) \subseteq Rest1(p)
      BY <1>9
    <3>2. Cardinality(Rest(p)) <= Cardinality(Rest1(p))
      BY <1>1, <3>1, FS_Subset
    <3> HIDE DEF Rest, Rest1
    <3>3. D * Cardinality(Rest(p)) <= D * Cardinality(Rest1(p))
      BY <1>1, <3>2, Scale
    <3>4. (IF p \in U THEN v[p] ELSE z) = (IF p \in U1 THEN v1[p] ELSE z) /\ (IF p \in U THEN v[p] ELSE z) \in Int
      BY <2>2
    <3>5. QED
      BY <1>2, <1>3, <1>9, <3>3, <3>4
  <2>3. QED
    BY <2>1, <2>2
<1>10. CASE q \notin U1 /\ q \in U /\ L1 >= L - D /\ L1 >= L - v[q] + z
  <2>1. CASE p = q
    <3> HIDE DEF Rest, Rest1
    <3>1. L1 >= z - D * Cardinality(Rest1(q))
      BY <1>2, <1>3, <1>5, <1>10, <2>1
    <3>2. QED
      BY <1>10, <3>1
  <2>2. CASE p # q
    <3>1. Rest1(p) = Rest(p) \cup {q} /\ q \notin Rest(p)
      BY <1>10, <2>2
    <3>2. Cardinality(Rest1(p)) = Cardinality(Rest(p)) + 1
      BY <1>1, <3>1, FS_AddElement
    <3> HIDE DEF Rest, Rest1
    <3>3. D * Cardinality(Rest1(p)) = D * Cardinality(Rest(p)) + D
      BY <1>1, <3>2, Scale
    <3>4. (IF p \in U THEN v[p] ELSE z) = (IF p \in U1 THEN v1[p] ELSE z) /\ (IF p \in U THEN v[p] ELSE z) \in Int
      BY <2>2
    <3>5. QED
      BY <1>2, <1>3, <1>10, <3>3, <3>4
  <2>3. QED
    BY <2>1, <2>2
<1>11. QED
  BY <1>6, <1>7, <1>8, <1>9, <1>10

\* What is covered is not overdrawn by more than one order for every further process.
LEMMA CoverBound ==
    ASSUME NEW U \in SUBSET Proc, NEW v, NEW L \in Int, NEW D \in Nat, NEW z \in Int,
           \A p \in Proc : v[p] \in Int, \A p \in U : v[p] >= z, Covers(L, U, v, D, z)
    PROVE  L >= z - D * (Cardinality(Proc) - 1)
<1>1. PICK p \in Proc : L >= (IF p \in U THEN v[p] ELSE z) - D * Cardinality(Proc \ (U \cup {p}))
  BY ProcSets DEF Covers
<1> DEFINE n == Cardinality(Proc \ (U \cup {p}))
           m == Cardinality(Proc \ {p})
<1>2. n <= m /\ n \in Nat /\ m \in Nat
  <2>1. (Proc \ (U \cup {p})) \in SUBSET (Proc \ {p})
    OBVIOUS
  <2>2. QED
    BY <2>1, ProcSets, FS_Subset
<1>3. m = Cardinality(Proc) - 1
  BY SetAssumption, FS_RemoveElement
<1> HIDE DEF n, m
<1>4. D * n <= D * m /\ D * n \in Nat /\ D * m \in Nat
  BY <1>2, Scale
<1>5. L >= z - D * n
  BY <1>1, <1>4 DEF n
<1>6. QED
  BY <1>3, <1>4, <1>5

-----------------------------------------------------------------------------
\* A filled order, spelled out.
LEMMA BookedFacts ==
    ASSUME NEW book \in Portfolio, NEW o \in Order
    PROVE  /\ o.sym \in Symbol /\ o.side \in {"buy", "sell"} /\ o.amount \in 1..Cap
           /\ o.side = "buy" =>
                 /\ Booked(book, o).cash = book.cash - o.amount - Fee
                 /\ Booked(book, o).qty = [book.qty EXCEPT ![o.sym] = @ + o.amount]
           /\ o.side = "sell" =>
                 /\ Booked(book, o).cash = book.cash + o.amount - Fee
                 /\ Booked(book, o).qty = [book.qty EXCEPT ![o.sym] = @ - o.amount]
<1>1. o.sym \in Symbol /\ o.side \in {"buy", "sell"} /\ o.amount \in 1..Cap
  BY DEF Order
<1>2. book.cash \in Int /\ book.qty \in [Symbol -> Int] /\ o.amount \in Int /\ Fee \in Int
  BY <1>1, AmountAssumption DEF Portfolio
<1>3. ASSUME o.side = "buy"
      PROVE  /\ Booked(book, o).cash = book.cash - o.amount - Fee
             /\ Booked(book, o).qty = [book.qty EXCEPT ![o.sym] = @ + o.amount]
  <2>1. Booked(book, o) = [cash |-> book.cash - 1 * o.amount - Fee,
                           qty  |-> [book.qty EXCEPT ![o.sym] = @ + 1 * o.amount]]
    BY <1>3 DEF Booked
  <2>2. 1 * o.amount = o.amount
    BY <1>2
  <2>3. QED
    BY <2>1, <2>2
<1>4. ASSUME o.side = "sell"
      PROVE  /\ Booked(book, o).cash = book.cash + o.amount - Fee
             /\ Booked(book, o).qty = [book.qty EXCEPT ![o.sym] = @ - o.amount]
  <2>1. Booked(book, o) = [cash |-> book.cash - (-1) * o.amount - Fee,
                           qty  |-> [book.qty EXCEPT ![o.sym] = @ + (-1) * o.amount]]
    BY <1>4 DEF Booked
  <2>2. (-1) * o.amount = - o.amount
    BY <1>2
  <2>3. book.cash - (- o.amount) - Fee = book.cash + o.amount - Fee
    BY <1>2
  <2>4. book.qty[o.sym] + (- o.amount) = book.qty[o.sym] - o.amount
    BY <1>1, <1>2
  <2>5. QED
    BY <2>1, <2>2, <2>3, <2>4
<1>5. QED
  BY <1>1, <1>3, <1>4

\* What a step of process q does to the stores and to what it has seen of them.
Moves(q, at, after) ==
    \/ ledger' = ledger /\ pc[q] \in Loaded /\ at \in Loaded /\ after.view = job[q].view
    \/ ledger' = ledger /\ at \in Loaded /\ after.view = ledger
    \/ at \notin Loaded /\ ledger' \in {ledger, Empty}
    \/ /\ at \notin Loaded /\ pc[q] = "fill"
       /\ \E o \in job[q].order :
             /\ ledger' = Booked(ledger, o) /\ Funded(q, o)
             /\ o.side = "sell" => o.amount <= job[q].view.qty[o.sym]

LEMMA CashStep ==
    ASSUME TInv, NEW q \in Proc, NEW at, NEW after \in Job,
           pc' = [pc EXCEPT ![q] = at], job' = [job EXCEPT ![q] = after],
           ledger' \in Portfolio, Moves(q, at, after), CashCovered
    PROVE  CashCovered'
<1>1. \A p \in Proc : job[p] \in Job /\ job[p].view.cash \in Int /\ after.view.cash \in Int
  BY DEF TInv, TypeOK, Job, Portfolio
<1>2. ledger \in Portfolio /\ ledger.cash \in Int /\ ledger'.cash \in Int
  BY DEF TInv, TypeOK, Portfolio
<1>3. \A p \in Proc : /\ pc'[p] = IF p = q THEN at ELSE pc[p]
                      /\ job'[p] = IF p = q THEN after ELSE job[p]
  BY DEF TInv, TypeOK
<1>4. PICK U : U = Buying
  OBVIOUS
<1>5. PICK U1 : U1 = {p \in Proc : pc'[p] \in Loaded /\ job'[p].view.cash >= 1}
  OBVIOUS
<1>6. PICK v : v = [p \in Proc |-> job[p].view.cash]
  OBVIOUS
<1>7. PICK v1 : v1 = [p \in Proc |-> job'[p].view.cash]
  OBVIOUS
<1>8. PICK L1 \in Int : L1 = ledger'.cash
  BY <1>2
<1>9. Cap + Fee \in Nat /\ - Fee \in Int /\ - Fee <= 0
  BY AmountAssumption
<1>10. U \in SUBSET Proc /\ U1 \in SUBSET Proc
  BY <1>4, <1>5 DEF Buying
<1>11. \A p \in Proc : v[p] \in Int
  BY <1>1, <1>6
<1>12. \A p \in Proc : p # q => (p \in U1 <=> p \in U) /\ v1[p] = v[p]
  BY <1>3, <1>4, <1>5, <1>6, <1>7 DEF Buying
<1>13. \A p \in U : v[p] >= - Fee
  BY <1>1, <1>4, <1>6, <1>9 DEF Buying
<1>14. Covers(ledger.cash, U, v, Cap + Fee, - Fee)
  BY <1>4, <1>6 DEF CashCovered
<1>15. /\ q \in U <=> pc[q] \in Loaded /\ job[q].view.cash >= 1
       /\ q \in U1 <=> at \in Loaded /\ after.view.cash >= 1
       /\ v[q] = job[q].view.cash /\ v1[q] = after.view.cash
  BY <1>3, <1>4, <1>5, <1>6, <1>7 DEF Buying
<1>16. \/ q \in U /\ q \in U1 /\ v1[q] = v[q] /\ L1 = ledger.cash
       \/ q \in U1 /\ v1[q] = L1
       \/ q \notin U1 /\ (L1 >= ledger.cash \/ L1 >= - Fee)
       \/ q \notin U1 /\ q \in U /\ L1 >= ledger.cash - (Cap + Fee) /\ L1 >= ledger.cash - v[q] + - Fee
  <2>1. CASE ledger' = ledger /\ pc[q] \in Loaded /\ at \in Loaded /\ after.view = job[q].view
    BY <1>1, <1>2, <1>8, <1>15, <2>1
  <2>2. CASE ledger' = ledger /\ at \in Loaded /\ after.view = ledger
    BY <1>1, <1>2, <1>8, <1>15, <2>2
  <2>3. CASE at \notin Loaded /\ ledger' \in {ledger, Empty}
    BY <1>2, <1>8, <1>9, <1>15, <2>3, AmountAssumption DEF Empty
  <2>4. CASE /\ at \notin Loaded /\ pc[q] = "fill"
             /\ \E o \in job[q].order :
                   /\ ledger' = Booked(ledger, o) /\ Funded(q, o)
                   /\ o.side = "sell" => o.amount <= job[q].view.qty[o.sym]
    <3>1. PICK o \in job[q].order : ledger' = Booked(ledger, o) /\ Funded(q, o)
      BY <2>4
    <3>2. o \in Order
      BY <1>1 DEF Job
    <3>3. /\ o.side \in {"buy", "sell"} /\ o.amount \in 1..Cap
          /\ o.side = "buy" => L1 = ledger.cash - o.amount - Fee
          /\ o.side = "sell" => L1 = ledger.cash + o.amount - Fee
      BY <1>2, <1>8, <3>1, <3>2, BookedFacts
    <3>4. CASE o.side = "sell"
      BY <1>2, <1>8, <1>15, <2>4, <3>3, <3>4, AmountAssumption, FeeAssumption
    <3>5. CASE o.side = "buy"
      <4>1. job[q].view.cash >= o.amount /\ pc[q] \in Loaded
        BY <2>4, <3>1, <3>5 DEF Funded, Loaded
      <4>2. QED
        BY <1>1, <1>2, <1>8, <1>15, <2>4, <3>3, <3>5, <4>1, AmountAssumption
    <3>6. QED
      BY <3>3, <3>4, <3>5
  <2>5. QED
    BY <2>1, <2>2, <2>3, <2>4 DEF Moves
<1>17. Covers(L1, U1, v1, Cap + Fee, - Fee)
  BY <1>2, <1>9, <1>10, <1>11, <1>12, <1>13, <1>14, <1>16, CoverStep
<1>18. QED
  BY <1>5, <1>7, <1>8, <1>17 DEF CashCovered, Covers, Buying

LEMMA QtyStep ==
    ASSUME TInv, NEW q \in Proc, NEW at, NEW after \in Job,
           pc' = [pc EXCEPT ![q] = at], job' = [job EXCEPT ![q] = after],
           ledger' \in Portfolio, Moves(q, at, after), QtyCovered
    PROVE  QtyCovered'
<1> SUFFICES ASSUME NEW c \in Symbol
             PROVE  Covers(ledger.qty[c], Selling(c), [p \in Proc |-> job[p].view.qty[c]], Cap, 0)'
  BY DEF QtyCovered
<1>1. \A p \in Proc : job[p] \in Job /\ job[p].view.qty[c] \in Int /\ after.view.qty[c] \in Int
  <2>1. \A b \in Portfolio : b.qty[c] \in Int
    BY DEF Portfolio
  <2>2. \A j \in Job : j.view \in Portfolio
    BY DEF Job
  <2>3. \A p \in Proc : job[p] \in Job
    BY DEF TInv, TypeOK
  <2>4. QED
    BY <2>1, <2>2, <2>3
<1>2. ledger \in Portfolio /\ ledger.qty[c] \in Int /\ ledger'.qty[c] \in Int
  BY DEF TInv, TypeOK, Portfolio
<1>3. \A p \in Proc : /\ pc'[p] = IF p = q THEN at ELSE pc[p]
                      /\ job'[p] = IF p = q THEN after ELSE job[p]
  BY DEF TInv, TypeOK
<1>4. PICK U : U = Selling(c)
  OBVIOUS
<1>5. PICK U1 : U1 = {p \in Proc : pc'[p] \in Loaded /\ job'[p].view.qty[c] >= 1}
  OBVIOUS
<1>6. PICK v : v = [p \in Proc |-> job[p].view.qty[c]]
  OBVIOUS
<1>7. PICK v1 : v1 = [p \in Proc |-> job'[p].view.qty[c]]
  OBVIOUS
<1>8. PICK L1 \in Int : L1 = ledger'.qty[c]
  BY <1>2
<1>9. Cap \in Nat
  BY AmountAssumption
<1>10. U \in SUBSET Proc /\ U1 \in SUBSET Proc
  BY <1>4, <1>5 DEF Selling
<1>11. \A p \in Proc : v[p] \in Int
  BY <1>1, <1>6
<1>12. \A p \in Proc : p # q => (p \in U1 <=> p \in U) /\ v1[p] = v[p]
  BY <1>3, <1>4, <1>5, <1>6, <1>7 DEF Selling
<1>13. \A p \in U : v[p] >= 0
  BY <1>1, <1>4, <1>6 DEF Selling
<1>14. Covers(ledger.qty[c], U, v, Cap, 0)
  BY <1>4, <1>6 DEF QtyCovered
<1>15. /\ q \in U <=> pc[q] \in Loaded /\ job[q].view.qty[c] >= 1
       /\ q \in U1 <=> at \in Loaded /\ after.view.qty[c] >= 1
       /\ v[q] = job[q].view.qty[c] /\ v1[q] = after.view.qty[c]
  BY <1>3, <1>4, <1>5, <1>6, <1>7 DEF Selling
<1>16. \/ q \in U /\ q \in U1 /\ v1[q] = v[q] /\ L1 = ledger.qty[c]
       \/ q \in U1 /\ v1[q] = L1
       \/ q \notin U1 /\ (L1 >= ledger.qty[c] \/ L1 >= 0)
       \/ q \notin U1 /\ q \in U /\ L1 >= ledger.qty[c] - Cap /\ L1 >= ledger.qty[c] - v[q] + 0
  <2>1. CASE ledger' = ledger /\ pc[q] \in Loaded /\ at \in Loaded /\ after.view = job[q].view
    BY <1>1, <1>2, <1>8, <1>15, <2>1
  <2>2. CASE ledger' = ledger /\ at \in Loaded /\ after.view = ledger
    BY <1>1, <1>2, <1>8, <1>15, <2>2
  <2>3. CASE at \notin Loaded /\ ledger' \in {ledger, Empty}
    BY <1>2, <1>8, <1>15, <2>3 DEF Empty
  <2>4. CASE /\ at \notin Loaded /\ pc[q] = "fill"
             /\ \E o \in job[q].order :
                   /\ ledger' = Booked(ledger, o) /\ Funded(q, o)
                   /\ o.side = "sell" => o.amount <= job[q].view.qty[o.sym]
    <3>1. PICK o \in job[q].order :
             /\ ledger' = Booked(ledger, o) /\ Funded(q, o)
             /\ o.side = "sell" => o.amount <= job[q].view.qty[o.sym]
      BY <2>4
    <3>2. o \in Order
      BY <1>1 DEF Job
    <3>3. /\ o.side \in {"buy", "sell"} /\ o.amount \in 1..Cap /\ o.sym \in Symbol
          /\ o.side = "buy" => ledger'.qty = [ledger.qty EXCEPT ![o.sym] = @ + o.amount]
          /\ o.side = "sell" => ledger'.qty = [ledger.qty EXCEPT ![o.sym] = @ - o.amount]
      <4>1. PICK b : b = ledger'
        OBVIOUS
      <4>2. b = Booked(ledger, o)
        BY <3>1, <4>1
      <4>3. /\ o.side \in {"buy", "sell"} /\ o.amount \in 1..Cap /\ o.sym \in Symbol
            /\ o.side = "buy" => b.qty = [ledger.qty EXCEPT ![o.sym] = @ + o.amount]
            /\ o.side = "sell" => b.qty = [ledger.qty EXCEPT ![o.sym] = @ - o.amount]
        BY <1>2, <3>2, <4>2, BookedFacts, Zenon
      <4>4. QED
        BY <4>1, <4>3
    <3>4. ledger.qty \in [Symbol -> Int]
      BY <1>2 DEF Portfolio
    <3>5. CASE o.side = "buy" \/ c # o.sym
      <4>1. L1 >= ledger.qty[c]
        BY <1>2, <1>8, <3>3, <3>4, <3>5, AmountAssumption
      <4>2. QED
        BY <1>15, <2>4, <4>1
    <3>6. CASE o.side = "sell" /\ c = o.sym
      <4>1. L1 = ledger.qty[c] - o.amount
        BY <1>2, <1>8, <3>3, <3>4, <3>6
      <4>2. job[q].view.qty[c] > 0 /\ o.amount <= job[q].view.qty[c] /\ pc[q] \in Loaded
        <5>1. Funded(q, o) => job[q].view.qty[o.sym] > 0
          BY <3>6 DEF Funded
        <5>2. QED
          BY <2>4, <3>1, <3>6, <5>1 DEF Loaded
      <4>3. QED
        BY <1>1, <1>2, <1>15, <2>4, <3>3, <4>1, <4>2, AmountAssumption
    <3>7. QED
      BY <3>3, <3>5, <3>6
  <2>5. QED
    BY <2>1, <2>2, <2>3, <2>4 DEF Moves
<1>17. Covers(L1, U1, v1, Cap, 0)
  <2>1. PICK z \in Int : z = 0
    OBVIOUS
  <2>2. PICK L \in Int : L = ledger.qty[c]
    BY <1>2
  <2>3. Covers(L1, U1, v1, Cap, z)
    <3>1. Covers(L, U, v, Cap, z) /\ \A p \in U : v[p] >= z
      BY <1>13, <1>14, <2>1, <2>2
    <3>2. \/ q \in U /\ q \in U1 /\ v1[q] = v[q] /\ L1 = L
          \/ q \in U1 /\ v1[q] = L1
          \/ q \notin U1 /\ (L1 >= L \/ L1 >= z)
          \/ q \notin U1 /\ q \in U /\ L1 >= L - Cap /\ L1 >= L - v[q] + z
      BY <1>16, <2>1, <2>2
    <3>3. QED
      BY <1>9, <1>10, <1>11, <1>12, <3>1, <3>2, CoverStep, ZenonT(60)
  <2>4. QED
    BY <2>1, <2>3
<1>18. QED
  BY <1>5, <1>7, <1>8, <1>17 DEF Covers, Selling

\* What a process has in memory of an order under way, after its step.
Weighed(at, after) ==
    /\ at \in {"risk", "fill"} => \A a, b \in after.order : a = b
    /\ at \in {"risk", "fill"} =>
          \A o \in after.order :
             o.side = "sell" /\ after.view.qty[o.sym] > 0 => o.amount <= after.view.qty[o.sym]
    /\ at = "fill" =>
          \A o \in after.order :
             IF o.side = "buy" THEN after.view.qty[o.sym] <= 0 /\ after.view.cash >= o.amount
                               ELSE after.view.qty[o.sym] > 0

LEMMA CheckedStep ==
    ASSUME TInv, Checked, NEW p \in Proc, NEW at, NEW after, Weighed(at, after),
           pc' = [pc EXCEPT ![p] = at], job' = [job EXCEPT ![p] = after]
    PROVE  Checked'
<1>1. \A q \in Proc : /\ pc'[q] = IF q = p THEN at ELSE pc[q]
                      /\ job'[q] = IF q = p THEN after ELSE job[q]
  BY DEF TInv, TypeOK
<1>2. SUFFICES ASSUME NEW q \in Proc
      PROVE  /\ pc'[q] \in {"risk", "fill"} => \A a, b \in job'[q].order : a = b
             /\ pc'[q] \in {"risk", "fill"} =>
                   \A o \in job'[q].order :
                      o.side = "sell" /\ job'[q].view.qty[o.sym] > 0
                      => o.amount <= job'[q].view.qty[o.sym]
             /\ pc'[q] = "fill" =>
                   \A o \in job'[q].order :
                      IF o.side = "buy" THEN job'[q].view.qty[o.sym] <= 0 /\ job'[q].view.cash >= o.amount
                                        ELSE job'[q].view.qty[o.sym] > 0
  BY DEF Checked, Funded
<1>3. CASE q = p
  BY <1>1, <1>3 DEF Weighed
<1>4. CASE q # p
  <2>1. pc'[q] = pc[q] /\ job'[q] = job[q]
    BY <1>1, <1>4
  <2>2. QED
    BY <2>1 DEF Checked, Funded
<1>5. QED
  BY <1>3, <1>4

\* Without an overlap the process that moves is the only one.
LEMMA FreshStep ==
    ASSUME TInv, Checked, Fresh, NEW p \in Proc, NEW at, NEW after, Moves(p, at, after),
           pc' = [pc EXCEPT ![p] = at], job' = [job EXCEPT ![p] = after],
           overlap' = {} => overlap = {} /\ \A q \in Proc : q # p => pc[q] = "idle"
    PROVE  Fresh'
<1>1. SUFFICES ASSUME overlap' = {}
      PROVE  /\ ledger'.cash >= - Fee /\ \A c \in Symbol : ledger'.qty[c] >= 0
             /\ \A q \in Proc : pc'[q] \in Loaded => job'[q].view = ledger'
  BY DEF Fresh
<1>2. /\ ledger \in Portfolio /\ ledger.cash \in Int /\ ledger.qty \in [Symbol -> Int]
      /\ ledger.cash >= - Fee /\ \A c \in Symbol : ledger.qty[c] >= 0
      /\ pc[p] \in Loaded => job[p].view = ledger
  BY <1>1 DEF Fresh, TInv, TypeOK, Portfolio
<1>3. \A q \in Proc : pc'[q] \in Loaded => q = p /\ at \in Loaded /\ job'[q] = after
  BY <1>1 DEF TInv, TypeOK, Loaded
<1>4. CASE ledger' = ledger /\ pc[p] \in Loaded /\ at \in Loaded /\ after.view = job[p].view
  BY <1>2, <1>3, <1>4
<1>5. CASE ledger' = ledger /\ at \in Loaded /\ after.view = ledger
  BY <1>2, <1>3, <1>5
<1>6. CASE at \notin Loaded /\ ledger' \in {ledger, Empty}
  BY <1>2, <1>3, <1>6, AmountAssumption DEF Empty
<1>7. CASE /\ at \notin Loaded /\ pc[p] = "fill"
           /\ \E o \in job[p].order :
                 /\ ledger' = Booked(ledger, o) /\ Funded(p, o)
                 /\ o.side = "sell" => o.amount <= job[p].view.qty[o.sym]
  <2>1. PICK o \in job[p].order :
             /\ ledger' = Booked(ledger, o) /\ Funded(p, o)
             /\ o.side = "sell" => o.amount <= job[p].view.qty[o.sym]
    BY <1>7
  <2>2. o \in Order
    BY DEF TInv, TypeOK, Job
  <2>3. job[p].view = ledger
    BY <1>2, <1>7 DEF Loaded
  <2>4. PICK b : b = ledger'
    OBVIOUS
  <2>5. b = Booked(ledger, o)
    BY <2>1, <2>4
  <2>6. /\ o.sym \in Symbol /\ o.side \in {"buy", "sell"} /\ o.amount \in 1..Cap
        /\ o.side = "buy" => /\ b.cash = ledger.cash - o.amount - Fee
                             /\ b.qty = [ledger.qty EXCEPT ![o.sym] = @ + o.amount]
        /\ o.side = "sell" => /\ b.cash = ledger.cash + o.amount - Fee
                              /\ b.qty = [ledger.qty EXCEPT ![o.sym] = @ - o.amount]
    BY <1>2, <2>2, <2>5, BookedFacts, Zenon
  <2>7. b.cash >= - Fee /\ \A c \in Symbol : b.qty[c] >= 0
    <3>1. CASE o.side = "buy"
      <4>1. ledger.cash >= o.amount
        BY <2>1, <2>3, <3>1 DEF Funded
      <4>2. QED
        BY <1>2, <2>6, <3>1, <4>1, AmountAssumption
    <3>2. CASE o.side = "sell"
      <4>1. o.amount <= ledger.qty[o.sym]
        BY <2>1, <2>3, <3>2
      <4>2. QED
        BY <1>2, <2>6, <3>2, <4>1, AmountAssumption, FeeAssumption
    <3>3. QED
      BY <2>6, <3>1, <3>2
  <2>8. QED
    BY <1>3, <1>7, <2>4, <2>7
<1>8. QED
  BY <1>4, <1>5, <1>6, <1>7 DEF Moves

LEMMA Moved ==
    ASSUME TInv, TInv', OInv, NEW p \in Proc, NEW at, NEW after,
           pc' = [pc EXCEPT ![p] = at], job' = [job EXCEPT ![p] = after],
           overlap' = {} => overlap = {} /\ \A q \in Proc : q # p => pc[q] = "idle",
           Moves(p, at, after), Weighed(at, after)
    PROVE  OInv'
<1>1. Checked'
  BY CheckedStep DEF OInv
<1>2. Fresh'
  BY FreshStep DEF OInv
<1>3. after \in Job /\ ledger' \in Portfolio
  <2>1. job'[p] = after /\ job'[p] \in Job
    BY DEF TInv, TypeOK
  <2>2. QED
    BY <2>1 DEF TInv, TypeOK
<1>4. CashCovered'
  BY <1>3, CashStep DEF OInv
<1>5. QtyCovered'
  BY <1>3, QtyStep DEF OInv
<1>6. QED
  BY <1>1, <1>2, <1>4, <1>5 DEF OInv

\* A step of an execution that is under way marks none.
LEMMA Stepped ==
    ASSUME TInv, TInv', AInv, OInv, NEW p \in Proc, pc[p] # "idle", NEW at, NEW after,
           Step(p, at, after), Moves(p, at, after), Weighed(at, after)
    PROVE  OInv'
<1>1. overlap' = {} => overlap = {} /\ \A q \in Proc : q # p => pc[q] = "idle"
  BY DEF Step, AInv, Sole
<1>2. QED
  BY <1>1, Moved DEF Step

LEMMA OverStep == TInv /\ TInv' /\ AInv /\ OInv /\ [Next]_vars => OInv'
<1> SUFFICES ASSUME TInv, TInv', AInv, OInv, [Next]_vars
             PROVE  OInv'
  OBVIOUS
<1>j. \A p \in Proc : job[p] \in Job
  BY DEF TInv, TypeOK
<1>1. ASSUME NEW p \in Proc, NEW at \in {"reset", "top"}, NEW proving, Start(p, at, proving)
      PROVE  OInv'
  <2>1. PICK n \in 0..Iterations :
           job' = [job EXCEPT ![p] =
                     [NoJob EXCEPT !.proving = proving, !.run = runs + 1, !.left = n]]
    BY <1>1 DEF Start
  <2>2. PICK after : after = [NoJob EXCEPT !.proving = proving, !.run = runs + 1, !.left = n]
    OBVIOUS
  <2>3. job' = [job EXCEPT ![p] = after] /\ pc' = [pc EXCEPT ![p] = at] /\ ledger' = ledger
    BY <1>1, <2>1, <2>2 DEF Start
  <2>4. Moves(p, at, after) /\ Weighed(at, after)
    BY <2>3 DEF Moves, Weighed, Loaded
  <2>5. overlap' = {} => overlap = {} /\ \A q \in Proc : q # p => pc[q] = "idle"
    BY <1>1 DEF Start, Running
  <2>6. QED
    BY <2>3, <2>4, <2>5, Moved
\* The steps that leave the stores alone and are not about an order.
<1>2. ASSUME NEW p \in Proc, pc[p] # "idle", NEW at, NEW after, Step(p, at, after),
             at \notin Loaded, ledger' \in {ledger, Empty}
      PROVE  OInv'
  <2>1. Moves(p, at, after) /\ Weighed(at, after)
    BY <1>2 DEF Moves, Weighed, Loaded
  <2>2. QED
    BY <1>2, <2>1, Stepped
<1>3. ASSUME NEW p \in Proc, pc[p] # "idle", CycleEnds(p), ledger' = ledger
      PROVE  OInv'
  BY <1>2, <1>3 DEF CycleEnds, Loaded
<1>4. ASSUME NEW p \in Proc, pc[p] # "idle", AfterLoop(p), ledger' = ledger
      PROVE  OInv'
  BY <1>2, <1>4 DEF AfterLoop, Loaded
<1>5. ASSUME NEW p \in Proc, pc[p] # "idle", NEW after, Step(p, "symbol", after), ledger' = ledger,
             after.view = ledger \/ (pc[p] \in Loaded /\ after.view = job[p].view)
      PROVE  OInv'
  <2>1. Moves(p, "symbol", after) /\ Weighed("symbol", after)
    BY <1>5 DEF Moves, Weighed, Loaded
  <2>2. QED
    BY <1>5, <2>1, Stepped
<1>6. ASSUME NEW p \in Proc, StartProving(p) \/ StartLoop(p)
      PROVE  OInv'
  BY <1>1, <1>6 DEF StartProving, StartLoop
<1>7. ASSUME NEW p \in Proc, Reset(p) \/ NextCycle(p) \/ Observe(p) \/ Compare(p) \/ Record(p)
      PROVE  OInv'
  BY <1>2, <1>7 DEF Reset, NextCycle, Observe, Compare, Record, Loaded
<1>8. ASSUME NEW p \in Proc, Complete(p) \/ Halt(p)
      PROVE  OInv'
  BY <1>4, <1>8 DEF Complete, Halt
<1>9. ASSUME NEW p \in Proc, BeginCycle(p)
      PROVE  OInv'
  <2>1. CASE stop
    BY <1>3, <1>9, <2>1 DEF BeginCycle
  <2>2. CASE ~ stop
    <3>1. PICK after : after = [job[p] EXCEPT !.todo = Symbol, !.view = ledger]
      OBVIOUS
    <3>2. Step(p, "symbol", after) /\ pc[p] = "begin" /\ ledger' = ledger
      BY <1>9, <2>2, <3>1 DEF BeginCycle
    <3>3. after.view = ledger
      BY <1>j, <3>1 DEF Job
    <3>4. pc[p] # "idle"
      BY <3>2
    <3>5. QED
      BY <1>5, <3>2, <3>3, <3>4, Zenon
  <2>3. QED
    BY <2>1, <2>2
<1>10. ASSUME NEW p \in Proc, CycleOver(p)
       PROVE  OInv'
  BY <1>3, <1>10 DEF CycleOver
<1>11. ASSUME NEW p \in Proc, Skip(p)
       PROVE  OInv'
  <2>1. PICK c \in job[p].todo : Step(p, "symbol", [job[p] EXCEPT !.todo = @ \ {c}])
    BY <1>11 DEF Skip
  <2>2. PICK after : after = [job[p] EXCEPT !.todo = @ \ {c}]
    OBVIOUS
  <2>3. Step(p, "symbol", after) /\ pc[p] = "symbol" /\ ledger' = ledger
    BY <1>11, <2>1, <2>2 DEF Skip
  <2>4. after.view = job[p].view
    BY <1>j, <2>2 DEF Job
  <2>5. QED
    BY <1>5, <2>3, <2>4 DEF Loaded
<1>12. ASSUME NEW p \in Proc, Evaluate(p)
       PROVE  OInv'
  <2>1. PICK c \in job[p].todo, side \in {"buy", "sell"} : \E n \in Sized(p, c, side) :
            Step(p, "risk", [job[p] EXCEPT !.todo = @ \ {c},
                              !.order = {[sym |-> c, side |-> side, amount |-> n]}])
    BY <1>12 DEF Evaluate
  <2>2. PICK n \in Sized(p, c, side) :
            Step(p, "risk", [job[p] EXCEPT !.todo = @ \ {c},
                              !.order = {[sym |-> c, side |-> side, amount |-> n]}])
    BY <2>1
  <2>3. PICK after : after = [job[p] EXCEPT !.todo = @ \ {c},
                              !.order = {[sym |-> c, side |-> side, amount |-> n]}]
    OBVIOUS
  <2>4. after.view = job[p].view /\ after.order = {[sym |-> c, side |-> side, amount |-> n]}
    BY <1>j, <2>3 DEF Job
  <2>5. Step(p, "risk", after) /\ pc[p] = "symbol" /\ ledger' = ledger
    BY <1>12, <2>2, <2>3 DEF Evaluate
  <2>6. side = "sell" /\ job[p].view.qty[c] > 0 => n <= job[p].view.qty[c]
    <3>1. c \in Symbol /\ job[p].view.qty[c] \in Int
      BY <1>j DEF Job, Portfolio
    <3>2. QED
      BY <2>2, <3>1, AmountAssumption DEF Sized
  <2>7. Moves(p, "risk", after)
    BY <2>4, <2>5 DEF Moves, Loaded
  <2>8. Weighed("risk", after)
    BY <2>4, <2>6 DEF Weighed
  <2>9. QED
    BY <2>5, <2>7, <2>8, Stepped
<1>13. ASSUME NEW p \in Proc, Decide(p)
       PROVE  OInv'
  <2>1. PICK o \in job[p].order :
            IF ~ stop /\ Funded(p, o) THEN Step(p, "fill", job[p])
                                      ELSE Step(p, "symbol", [job[p] EXCEPT !.order = {}])
    BY <1>13 DEF Decide
  <2>2. pc[p] = "risk" /\ ledger' = ledger
    BY <1>13 DEF Decide
  <2>3. CASE Step(p, "fill", job[p]) /\ Funded(p, o)
    <3>1. \A a \in job[p].order : a = o
      BY <2>2 DEF OInv, Checked
    <3>2. Weighed("fill", job[p])
      BY <2>2, <2>3, <3>1 DEF OInv, Checked, Weighed, Funded
    <3>3. Moves(p, "fill", job[p])
      BY <2>2 DEF Moves, Loaded
    <3>4. QED
      BY <2>2, <2>3, <3>2, <3>3, Stepped
  <2>4. CASE Step(p, "symbol", [job[p] EXCEPT !.order = {}])
    <3>1. PICK after : after = [job[p] EXCEPT !.order = {}]
      OBVIOUS
    <3>2. Step(p, "symbol", after)
      BY <2>4, <3>1
    <3>3. after.view = job[p].view
      BY <1>j, <3>1 DEF Job
    <3>4. QED
      BY <1>5, <2>2, <3>2, <3>3 DEF Loaded
  <2>5. QED
    BY <2>1, <2>3, <2>4, Zenon
<1>14. ASSUME NEW p \in Proc, Fill(p)
       PROVE  OInv'
  <2>1. PICK o \in job[p].order : ledger' = Booked(ledger, o)
    BY <1>14 DEF Fill
  <2>2. Step(p, "log", job[p]) /\ pc[p] = "fill"
    BY <1>14 DEF Fill
  <2>3. Funded(p, o) /\ (o.side = "sell" => o.amount <= job[p].view.qty[o.sym])
    BY <2>2 DEF OInv, Checked, Funded
  <2>4. Moves(p, "log", job[p]) /\ Weighed("log", job[p])
    BY <2>1, <2>2, <2>3 DEF Moves, Weighed, Loaded
  <2>5. QED
    BY <2>2, <2>4, Stepped
<1>15. ASSUME NEW p \in Proc, LogFill(p)
       PROVE  OInv'
  <2>1. PICK after : after = [job[p] EXCEPT !.order = {}, !.view = ledger]
    OBVIOUS
  <2>2. Step(p, "symbol", after) /\ pc[p] = "log" /\ ledger' = ledger
    BY <1>15, <2>1 DEF LogFill
  <2>3. after.view = ledger
    BY <1>j, <2>1 DEF Job
  <2>4. pc[p] # "idle"
    BY <2>2
  <2>5. QED
    BY <1>5, <2>2, <2>3, <2>4, Zenon
<1>16. ASSUME NEW p \in Proc, Die(p)
       PROVE  OInv'
  <2>1. /\ pc' = [pc EXCEPT ![p] = "idle"] /\ job' = [job EXCEPT ![p] = NoJob]
        /\ ledger' = ledger /\ overlap' = overlap /\ pc[p] # "idle"
    BY <1>16 DEF Die
  <2>2. overlap' = {} => overlap = {} /\ \A q \in Proc : q # p => pc[q] = "idle"
    BY <2>1 DEF AInv, Sole
  <2>3. Moves(p, "idle", NoJob) /\ Weighed("idle", NoJob)
    BY <2>1 DEF Moves, Weighed, Loaded
  <2>4. QED
    BY <2>1, <2>2, <2>3, Moved
<1>17. CASE ToggleStop \/ OtherRow \/ UNCHANGED vars
  <2>1. UNCHANGED <<ledger, pc, job, overlap>>
    BY <1>17 DEF ToggleStop, OtherRow, vars
  <2>2. Checked' /\ Fresh'
    BY <2>1 DEF OInv, Checked, Fresh, Funded
  <2>3. Proc # {} => CashCovered' /\ QtyCovered'
    BY <2>1 DEF OInv, CashCovered, QtyCovered, Covers, Buying, Selling
  <2>4. QED
    BY <2>1, <2>2, <2>3 DEF OInv
<1>18. QED
  BY <1>6, <1>7, <1>8, <1>9, <1>10, <1>11, <1>12, <1>13, <1>14, <1>15, <1>16, <1>17 DEF Next

LEMMA OverInit == Init => OInv
<1> SUFFICES ASSUME Init
             PROVE  OInv
  OBVIOUS
<1>1. Checked /\ Fresh /\ overlap = {}
  BY AmountAssumption DEF Init, Checked, Fresh, Empty, Loaded
<1>2. ASSUME NEW p \in Proc
      PROVE  CashCovered /\ QtyCovered
  <2>1. Buying = {} /\ \A c \in Symbol : Selling(c) = {}
    BY DEF Init, Buying, Selling, Loaded
  <2>2. PICK n \in Nat : n = Count[Proc \ ({} \cup {p})]
    BY ProcSets
  <2>3. PICK D \in Nat : D = Cap + Fee
    BY AmountAssumption
  <2>4. D * n \in Nat /\ Cap * n \in Nat
    BY Scale, AmountAssumption
  <2>5. ledger.cash >= - Fee - D * n
    BY <2>4, AmountAssumption DEF Init, Empty
  <2>6. \A c \in Symbol : ledger.qty[c] >= 0 - Cap * n
    BY <2>4 DEF Init, Empty
  <2>7. QED
    BY <2>1, <2>2, <2>3, <2>5, <2>6 DEF CashCovered, QtyCovered, Covers
<1>3. QED
  BY <1>1, <1>2 DEF OInv

LEMMA OverBound == TInv /\ OInv => OverdraftBounded
<1> SUFFICES ASSUME TInv, OInv
             PROVE  OverdraftBounded
  OBVIOUS
<1>1. /\ ledger.cash \in Int /\ \A c \in Symbol : ledger.qty[c] \in Int
      /\ \A p \in Proc : /\ job[p].view.cash \in Int
                         /\ \A c \in Symbol : job[p].view.qty[c] \in Int
  <2>1. \A b \in Portfolio : b.cash \in Int /\ \A c \in Symbol : b.qty[c] \in Int
    BY DEF Portfolio
  <2>2. ledger \in Portfolio /\ \A p \in Proc : job[p].view \in Portfolio
    BY DEF TInv, TypeOK, Job
  <2>3. QED
    BY <2>1, <2>2
<1>2. Cap \in Nat /\ Fee \in Nat /\ Cap + Fee \in Nat /\ - Fee \in Int
  BY AmountAssumption
<1>3. CASE overlap = {}
  <2>1. ledger.cash >= - Fee /\ \A c \in Symbol : ledger.qty[c] >= 0
    BY <1>3 DEF OInv, Fresh
  <2>2. 0 * Cap = 0 /\ (0 + 1) * Fee = Fee
    BY <1>2
  <2>3. QED
    BY <1>1, <1>2, <1>3, <2>1, <2>2 DEF OverdraftBounded
<1>4. CASE overlap # {}
  <2>1. PICK m : m = Cardinality(Proc) - 1
    OBVIOUS
  <2>2. CashCovered /\ QtyCovered /\ m \in Nat
    <3>1. PICK p \in Proc : TRUE
      BY <1>4 DEF OInv
    <3>2. m = Cardinality(Proc \ {p})
      BY <2>1, SetAssumption, FS_RemoveElement
    <3>3. QED
      BY <3>1, <3>2, ProcSets DEF OInv
  <2>3. PICK v : v = [p \in Proc |-> job[p].view.cash]
    OBVIOUS
  <2>4. Buying \in SUBSET Proc /\ (\A p \in Proc : v[p] \in Int) /\ \A p \in Buying : v[p] >= - Fee
    BY <1>1, <1>2, <2>3 DEF Buying
  <2>5. Covers(ledger.cash, Buying, v, Cap + Fee, - Fee)
    BY <2>2, <2>3 DEF CashCovered
  <2>6. ledger.cash >= - Fee - (Cap + Fee) * m
    BY <1>1, <1>2, <2>1, <2>4, <2>5, CoverBound
  <2>7. ASSUME NEW c \in Symbol
        PROVE  ledger.qty[c] >= 0 - Cap * m
    <3>1. PICK w : w = [p \in Proc |-> job[p].view.qty[c]]
      OBVIOUS
    <3>2. PICK z \in Int : z = 0
      OBVIOUS
    <3>3. Selling(c) \in SUBSET Proc /\ (\A p \in Proc : w[p] \in Int) /\ \A p \in Selling(c) : w[p] >= z
      BY <1>1, <3>1, <3>2 DEF Selling
    <3>4. Covers(ledger.qty[c], Selling(c), w, Cap, z)
      BY <2>2, <3>1, <3>2 DEF QtyCovered
    <3>5. ledger.qty[c] >= z - Cap * m
      BY <1>1, <1>2, <2>1, <3>3, <3>4, CoverBound
    <3>6. QED
      BY <3>2, <3>5
  <2>8. (Cap + Fee) * m = m * Cap + m * Fee /\ Cap * m = m * Cap /\ (m + 1) * Fee = m * Fee + Fee
        /\ m * Cap \in Int /\ m * Fee \in Int
    BY <1>2, <2>2
  <2>9. /\ ledger.cash >= - (m * Cap + (m + 1) * Fee)
        /\ \A c \in Symbol : ledger.qty[c] >= - (m * Cap)
    BY <1>1, <1>2, <2>6, <2>7, <2>8
  <2>10. QED
    BY <1>4, <2>1, <2>9 DEF OverdraftBounded
<1>5. QED
  BY <1>3, <1>4

\* Executions side by side overdraw the cash and a position by at most one order for
\* every further process, for any number of processes (paper_broker.py:238).
THEOREM OverdraftHolds == Spec => []OverdraftBounded
<1>1. Init => TInv /\ AInv /\ OInv
  BY TypeInit, OwnInit, OverInit
<1>2. TInv /\ AInv /\ OInv /\ [Next]_vars => (TInv /\ AInv /\ OInv)'
  BY TypeStep, OwnStep, OverStep
<1>3. QED
  BY <1>1, <1>2, OverBound, PTL DEF Spec

-----------------------------------------------------------------------------
(***************************************************************************)
(* Which runs the report calls clean.                                      *)
(***************************************************************************)

Ends == {"observe", "compare", "record"}

\* Numbers of executions are given once.
Given ==
    /\ \A p \in Proc : pc[p] # "idle" => job[p].run \in 1..runs
    /\ \A k \in DOMAIN audit : audit[k].by <= runs /\ (audit[k].act = "loop" => audit[k].by > 0)

\* The CHOOSE of Latest finds the latest row.
LatestFound(S) == Latest(S) \in S \cup {0} /\ \A k \in S : k <= Latest(S)

Ordered ==
    /\ LatestFound(Rows("loop"))
    /\ \A i \in DOMAIN audit : LatestFound({m \in Rows("loop") : m < i})

\* The rows of an execution that runs: fills, each after the loop row of everyone
\* before it, and in the end its own loop row, which nobody's loop row or
\* reconciliation follows.
Kept(p) ==
    /\ \A k \in DOMAIN audit :
          audit[k].by = job[p].run =>
             \/ audit[k].act = "filled"
             \/ audit[k].act = "loop" /\ audit[k].ok /\ pc[p] \in Ends
    /\ \A k \in Rows("filled") :
          audit[k].by = job[p].run =>
             /\ pc[p] \notin Ends => \A m \in Rows("loop") : m < k
             /\ job[p].done > 0 \/ pc[p] \in Cycling \cup Ends
    /\ \A i \in Rows("loop") :
          audit[i].by = job[p].run => \A k \in Rows("loop") \cup Rows("reconciled") : k <= i

Active(r) == \E p \in Proc : pc[p] # "idle" /\ job[p].run = r

\* The rows of an execution that completed: its fills are in its window, and what
\* follows its loop row is its own reconciliation, there at the latest when it ends.
Settled(i) ==
    /\ \A k \in By(audit[i].by, "filled") : k < i /\ \A m \in Rows("loop") : m < i => m < k
    /\ By(audit[i].by, "filled") # {} => audit[i].n > 0
    /\ audit[i].ok => Following(i) = By(audit[i].by, "reconciled")
    /\ audit[i].ok /\ ~ Active(audit[i].by) => Following(i) # {}

CInv ==
    /\ Given /\ Ordered
    /\ \A p \in Proc : pc[p] # "idle" /\ job[p].run \notin overlap => Kept(p)
    /\ \A i \in Rows("loop") : audit[i].by \notin overlap \cup dead => Settled(i)

-----------------------------------------------------------------------------
\* Latest finds the greatest.
LEMMA LatestIs ==
    ASSUME NEW S \in SUBSET Nat, NEW m \in S, \A k \in S : k <= m
    PROVE  Latest(S) = m
<1>1. \E k \in S : \A i \in S : i <= k
  OBVIOUS
<1>2. S # {} /\ \A k \in S : (\A i \in S : i <= k) => k = m
  OBVIOUS
<1>3. QED
  BY <1>1, <1>2 DEF Latest

\* What a new row changes.
LEMMA NewRow ==
    ASSUME audit \in Seq(Row), NEW x \in Row, audit' = Append(audit, x), NEW n, n = Len(audit) + 1
    PROVE  /\ n \in Nat \ {0}
           /\ \A k \in DOMAIN audit : k \in Nat \ {0} /\ k < n /\ audit'[k] = audit[k]
           /\ DOMAIN audit' = DOMAIN audit \cup {n} /\ audit'[n] = x
           /\ \A act : Rows(act) \subseteq DOMAIN audit
           /\ \A act : Rows(act)' = Rows(act) \cup (IF x.act = act THEN {n} ELSE {})
<1>1. /\ n \in Nat \ {0}
      /\ \A k \in DOMAIN audit : k \in Nat \ {0} /\ k < n /\ audit'[k] = audit[k]
      /\ DOMAIN audit' = DOMAIN audit \cup {n} /\ audit'[n] = x
  OBVIOUS
<1>2. ASSUME NEW act
      PROVE  Rows(act)' = Rows(act) \cup (IF x.act = act THEN {n} ELSE {})
  BY <1>1 DEF Rows
<1>3. ASSUME NEW act
      PROVE  Rows(act) \subseteq DOMAIN audit
  BY DEF Rows
<1>4. QED
  BY <1>1, <1>2, <1>3

LEMMA RowsKept ==
    ASSUME audit \in Seq(Row), NEW x \in Row, audit' = Append(audit, x), NEW act, x.act # act
    PROVE  Rows(act)' = Rows(act)
<1>1. PICK n : n = Len(audit) + 1
  OBVIOUS
<1>2. Rows(act)' = Rows(act) \cup (IF x.act = act THEN {n} ELSE {})
  BY <1>1, NewRow
<1>3. QED
  BY <1>2

LEMMA NewBy ==
    ASSUME audit \in Seq(Row), NEW x \in Row, audit' = Append(audit, x), NEW n, n = Len(audit) + 1,
           NEW y, NEW act
    PROVE  By(y, act)' = By(y, act) \cup (IF x.act = act /\ x.by = y THEN {n} ELSE {})
<1>1. /\ \A k \in DOMAIN audit : k < n /\ audit'[k] = audit[k]
      /\ audit'[n] = x /\ Rows(act) \subseteq DOMAIN audit
  BY NewRow
<1>2. Rows(act)' = Rows(act) \cup (IF x.act = act THEN {n} ELSE {})
  BY NewRow
<1>3. QED
  BY <1>1, <1>2 DEF By

LEMMA ByKept ==
    ASSUME audit \in Seq(Row), NEW x \in Row, audit' = Append(audit, x), NEW y, NEW act,
           x.act # act \/ x.by # y
    PROVE  By(y, act)' = By(y, act)
<1>1. PICK n : n = Len(audit) + 1
  OBVIOUS
<1>2. By(y, act)' = By(y, act) \cup (IF x.act = act /\ x.by = y THEN {n} ELSE {})
  BY <1>1, NewBy
<1>3. QED
  BY <1>2

\* The first row after i that counts stays the first.
LEMMA NewFollowing ==
    ASSUME audit \in Seq(Row), NEW x \in Row, audit' = Append(audit, x), NEW n, n = Len(audit) + 1,
           NEW i \in DOMAIN audit
    PROVE  Following(i)' = Following(i)
              \cup (IF x.act = "reconciled" /\ \A k \in Rows("loop") \cup Rows("reconciled") : k <= i
                    THEN {n} ELSE {})
<1>1. /\ n \in Nat \ {0} /\ \A k \in DOMAIN audit : k \in Nat \ {0} /\ k < n
      /\ \A act : Rows(act) \subseteq DOMAIN audit
  BY NewRow
<1>2. \A act : Rows(act)' = Rows(act) \cup (IF x.act = act THEN {n} ELSE {})
  BY NewRow
<1>3. PICK R : R = Rows("reconciled")
  OBVIOUS
<1>4. PICK E : E = Rows("loop") \cup Rows("reconciled")
  OBVIOUS
<1>5. PICK R1 : R1 = Rows("reconciled")' /\ R1 = R \cup (IF x.act = "reconciled" THEN {n} ELSE {})
  BY <1>2, <1>3
<1>6. PICK E1 : E1 = (Rows("loop") \cup Rows("reconciled"))'
                /\ E1 \subseteq E \cup {n} /\ E \subseteq E1
  BY <1>2, <1>4
<1>7. /\ R \subseteq E /\ \A k \in E : k \in Nat \ {0} /\ k < n
      /\ i \in Nat \ {0} /\ i < n
  BY <1>1, <1>3, <1>4
<1>8. Following(i)' = {j \in R1 : j > i /\ \A k \in (i+1)..(j-1) : k \notin E1}
  BY <1>5, <1>6 DEF Following
<1>9. Following(i) = {j \in R : j > i /\ \A k \in (i+1)..(j-1) : k \notin E}
  BY <1>3, <1>4 DEF Following
<1>10. \A j \in R : (\A k \in (i+1)..(j-1) : k \notin E1) <=> \A k \in (i+1)..(j-1) : k \notin E
  BY <1>1, <1>6, <1>7
<1>11. (\A k \in (i+1)..(n-1) : k \notin E1) <=> \A k \in E : k <= i
  <2>1. ASSUME \A k \in (i+1)..(n-1) : k \notin E1, NEW k \in E
        PROVE  k <= i
    <3>1. k \in E1 /\ k \in Nat /\ k < n
      BY <1>6, <1>7
    <3>2. k \notin (i+1)..(n-1)
      BY <2>1, <3>1
    <3>3. QED
      BY <1>1, <1>7, <3>1, <3>2
  <2>2. ASSUME \A k \in E : k <= i, NEW k \in (i+1)..(n-1)
        PROVE  k \notin E1
    <3>1. k \in Int /\ k > i /\ k < n
      BY <1>1, <1>7
    <3>2. k # n /\ k \notin E
      BY <1>1, <1>7, <2>2, <3>1
    <3>3. QED
      BY <1>6, <3>2
  <2>3. QED
    BY <2>1, <2>2
<1>12. {j \in R1 : j > i /\ \A k \in (i+1)..(j-1) : k \notin E1}
          = {j \in R : j > i /\ \A k \in (i+1)..(j-1) : k \notin E}
            \cup (IF x.act = "reconciled" /\ \A k \in E : k <= i THEN {n} ELSE {})
  <2>1. ASSUME NEW j
        PROVE  j \in R1 /\ j > i /\ (\A k \in (i+1)..(j-1) : k \notin E1)
               <=> \/ j \in R /\ j > i /\ \A k \in (i+1)..(j-1) : k \notin E
                   \/ j = n /\ x.act = "reconciled" /\ \A k \in E : k <= i
    <3>1. CASE j \in R
      <4>1. j # n
        BY <1>7, <3>1
      <4>2. j \in R1
        BY <1>5, <3>1
      <4>3. QED
        BY <1>10, <3>1, <4>1, <4>2
    <3>2. CASE j \notin R /\ j = n
      BY <1>1, <1>5, <1>7, <1>11, <3>2
    <3>3. CASE j \notin R /\ j # n
      BY <1>5, <3>3
    <3>4. QED
      BY <3>1, <3>2, <3>3
  <2>2. QED
    BY <2>1
<1>13. QED
  BY <1>4, <1>8, <1>9, <1>12

\* Rows are only added, so Latest goes on finding the latest.
LEMMA OrderedStep ==
    ASSUME audit \in Seq(Row), Ordered, NEW x \in Row, audit' = Append(audit, x)
    PROVE  Ordered'
<1>1. PICK n : n = Len(audit) + 1
  OBVIOUS
<1>2. /\ n \in Nat \ {0}
      /\ \A k \in DOMAIN audit : k \in Nat \ {0} /\ k < n
      /\ DOMAIN audit' = DOMAIN audit \cup {n}
      /\ \A act : Rows(act) \subseteq DOMAIN audit
  BY <1>1, NewRow
<1>3. Rows("loop")' = Rows("loop") \cup (IF x.act = "loop" THEN {n} ELSE {})
  BY <1>1, NewRow
<1>4. PICK S : S = Rows("loop")
  OBVIOUS
<1>5. PICK S1 : S1 = Rows("loop")'
  OBVIOUS
<1>6. LatestFound(S) /\ \A i \in DOMAIN audit : LatestFound({m \in S : m < i})
  BY <1>4 DEF Ordered
<1>7. S1 = S \cup (IF x.act = "loop" THEN {n} ELSE {}) /\ \A k \in S : k \in Nat /\ k < n
  BY <1>2, <1>3, <1>4, <1>5
<1>8. LatestFound(S1)
  <2>1. CASE S1 = S
    BY <1>6, <2>1
  <2>2. CASE S1 = S \cup {n}
    <3>1. Latest(S1) = n
      BY <1>2, <1>7, <2>2, LatestIs
    <3>2. QED
      BY ONLY <1>2, <1>7, <2>2, <3>1 DEF LatestFound
  <2>3. QED
    BY <1>7, <2>1, <2>2
<1>9. ASSUME NEW i \in DOMAIN audit'
      PROVE  LatestFound({m \in S1 : m < i})
  <2>1. CASE i \in DOMAIN audit
    <3>1. {m \in S1 : m < i} = {m \in S : m < i}
      BY <1>2, <1>7, <2>1
    <3>2. QED
      BY <1>6, <2>1, <3>1
  <2>2. CASE i = n
    <3>1. {m \in S1 : m < i} = S
      BY <1>2, <1>7, <2>2
    <3>2. QED
      BY <1>6, <3>1
  <2>3. QED
    BY <1>2, <2>1, <2>2
<1>10. LatestFound(Rows("loop")')
  BY <1>5, <1>8
<1>11. \A i \in DOMAIN audit' : LatestFound({m \in Rows("loop")' : m < i})
  BY <1>5, <1>9
<1>12. QED
  BY <1>10, <1>11 DEF Ordered, LatestFound, Latest

\* What a window holds.
LEMMA InWindow ==
    ASSUME audit \in Seq(Row), Ordered, NEW i \in DOMAIN audit, NEW k \in DOMAIN audit
    PROVE  k \in Window(i) <=> k <= i /\ \A m \in Rows("loop") : m < i => m < k
<1>1. PICK S : S = {m \in Rows("loop") : m < i}
  OBVIOUS
<1>2. Latest(S) \in S \cup {0} /\ \A m \in S : m <= Latest(S)
  BY <1>1 DEF Ordered, LatestFound
<1>3. i \in Nat \ {0} /\ k \in Nat \ {0} /\ \A m \in S : m \in Nat
  BY <1>1 DEF Rows
<1>4. PICK l \in Nat : l = Latest(S)
  BY <1>2, <1>3
<1>5. k \in Window(i) <=> k >= l + 1 /\ k <= i
  BY <1>1, <1>3, <1>4 DEF Window
<1>6. k >= l + 1 <=> \A m \in S : m < k
  BY <1>2, <1>3, <1>4
<1>7. QED
  BY <1>1, <1>5, <1>6

-----------------------------------------------------------------------------
\* What an execution under way does to the audit log: nothing, and then it ends its
\* loop alive only to reconcile; or one row of its own.
Adds(p, at, after, x) ==
    \/ /\ audit' = audit
       /\ at = "idle" => pc[p] \notin Ends \/ job[p].run \in dead'
       /\ \/ at \in Ends
          \/ at = "idle"
          \/ /\ pc[p] \notin Ends
             /\ after.done > 0 \/ at \in Cycling \/ (after.done = job[p].done /\ pc[p] \notin Cycling)
    \/ /\ audit' = Append(audit, x) /\ x.by = job[p].run
       /\ \/ pc[p] = "log" /\ at = "symbol" /\ x.act = "filled"
          \/ /\ pc[p] = "top" /\ x.act = "loop" /\ x.n = job[p].done
             /\ IF x.ok THEN at = "observe" ELSE at = "idle"
          \/ pc[p] = "record" /\ at = "idle" /\ x.act = "reconciled"

\* One step of execution p.
Acts(p, at, after, x) ==
    /\ pc[p] # "idle" /\ pc' = [pc EXCEPT ![p] = at] /\ job' = [job EXCEPT ![p] = after]
    /\ at # "idle" => after.run = job[p].run
    /\ runs' = runs /\ overlap' = overlap /\ dead \subseteq dead'
    /\ Adds(p, at, after, x)

LEMMA ActsFacts ==
    ASSUME TInv, NEW p \in Proc, NEW at, NEW after, NEW x, Acts(p, at, after, x)
    PROVE  /\ pc'[p] = at /\ job'[p] = after
           /\ \A q \in Proc : q # p => pc'[q] = pc[q] /\ job'[q] = job[q]
BY DEF Acts, TInv, TypeOK

LEMMA GivenStep ==
    ASSUME TInv, Given, NEW p \in Proc, NEW at, NEW after, NEW x \in Row, Acts(p, at, after, x)
    PROVE  Given'
<1>1. \A q \in Proc : pc'[q] # "idle" => job'[q].run \in 1..runs'
  <2>1. job'[p] = after /\ pc'[p] = at /\ runs' = runs
    BY ActsFacts DEF Acts
  <2>2. pc'[p] # "idle" => job'[p].run \in 1..runs'
    BY <2>1 DEF Acts, Given
  <2>3. ASSUME NEW q \in Proc, q # p
        PROVE  pc'[q] # "idle" => job'[q].run \in 1..runs'
    <3>1. pc'[q] = pc[q] /\ job'[q] = job[q]
      BY <2>3, ActsFacts
    <3>2. QED
      BY <2>1, <3>1 DEF Given
  <2>4. QED
    BY <2>2, <2>3
<1>2. job[p].run \in 1..runs /\ runs \in Nat
  BY DEF Acts, Given, TInv, TypeOK
<1>3. \A k \in DOMAIN audit' : audit'[k].by <= runs' /\ (audit'[k].act = "loop" => audit'[k].by > 0)
  <2>1. CASE audit' = audit
    BY <2>1 DEF Acts, Given
  <2>2. CASE audit' = Append(audit, x) /\ x.by = job[p].run
    <3>1. PICK n : n = Len(audit) + 1
      OBVIOUS
    <3>2. /\ \A k \in DOMAIN audit : audit'[k] = audit[k]
          /\ DOMAIN audit' = DOMAIN audit \cup {n} /\ audit'[n] = x
      BY <2>2, <3>1, NewRow DEF TInv, TypeOK
    <3>3. QED
      BY <1>2, <2>2, <3>2 DEF Acts, Given
  <2>3. QED
    BY <2>1, <2>2 DEF Acts, Adds
<1>4. QED
  BY <1>1, <1>3 DEF Given

\* The execution that moves keeps its rows in order.
LEMMA KeptStep ==
    ASSUME TInv, NEW p \in Proc, NEW at, NEW after, NEW x \in Row, Acts(p, at, after, x),
           at # "idle", Kept(p)
    PROVE  Kept(p)'
<1>1. pc'[p] = at /\ job'[p] = after /\ after.run = job[p].run
  <2>1. after.run = job[p].run
    BY DEF Acts
  <2>2. QED
    BY <2>1, ActsFacts
<1>c. Cycling \cap Ends = {} /\ "top" \notin Ends \cup Cycling /\ "symbol" \in Cycling
      /\ "observe" \in Ends /\ "log" \in Cycling
  BY DEF Cycling, Ends
<1>2. CASE audit' = audit
  <2>1. \A act : Rows(act)' = Rows(act)
    BY <1>2 DEF Rows
  <2>2. \/ at \in Ends
        \/ /\ pc[p] \notin Ends
           /\ after.done > 0 \/ at \in Cycling \/ (after.done = job[p].done /\ pc[p] \notin Cycling)
    <3>1. \A k \in {audit} : audit # Append(audit, x)
      BY DEF TInv, TypeOK
    <3>2. QED
      BY <1>2, <3>1 DEF Acts, Adds
  <2>3. \A k \in DOMAIN audit' :
           audit'[k].by = job'[p].run =>
              \/ audit'[k].act = "filled"
              \/ audit'[k].act = "loop" /\ audit'[k].ok /\ pc'[p] \in Ends
    BY <1>1, <1>2, <2>2 DEF Kept
  <2>4. \A k \in Rows("filled")' :
           audit'[k].by = job'[p].run =>
              /\ pc'[p] \notin Ends => \A m \in Rows("loop")' : m < k
              /\ job'[p].done > 0 \/ pc'[p] \in Cycling \cup Ends
    BY <1>1, <1>2, <2>1, <2>2 DEF Kept
  <2>5. \A i \in Rows("loop")' :
           audit'[i].by = job'[p].run => \A k \in (Rows("loop") \cup Rows("reconciled"))' : k <= i
    BY <1>1, <1>2, <2>1 DEF Kept
  <2>6. QED
    BY <2>3, <2>4, <2>5 DEF Kept
<1>3. CASE audit' # audit
  <2>1. PICK n : n = Len(audit) + 1
    OBVIOUS
  <2>2. /\ audit' = Append(audit, x) /\ x.by = job[p].run
        /\ \/ pc[p] = "log" /\ at = "symbol" /\ x.act = "filled"
           \/ pc[p] = "top" /\ x.act = "loop" /\ x.ok /\ at = "observe"
    BY <1>3 DEF Acts, Adds
  <2>3. /\ n \in Nat \ {0}
        /\ \A k \in DOMAIN audit : k \in Nat \ {0} /\ k < n /\ audit'[k] = audit[k]
        /\ DOMAIN audit' = DOMAIN audit \cup {n} /\ audit'[n] = x
        /\ \A act : Rows(act) \subseteq DOMAIN audit
    BY <2>1, <2>2, NewRow DEF TInv, TypeOK
  <2>4. \A act : Rows(act)' = Rows(act) \cup (IF x.act = act THEN {n} ELSE {})
    BY <2>1, <2>2, NewRow DEF TInv, TypeOK
  <2>5. pc[p] \notin Ends /\ \A k \in DOMAIN audit : audit[k].by = job[p].run => audit[k].act = "filled"
    BY <1>c, <2>2 DEF Kept
  <2>6. \A k \in DOMAIN audit' :
           audit'[k].by = job'[p].run =>
              \/ audit'[k].act = "filled"
              \/ audit'[k].act = "loop" /\ audit'[k].ok /\ pc'[p] \in Ends
    BY <1>1, <1>c, <2>2, <2>3, <2>5
  <2>7. CASE pc[p] = "log" /\ at = "symbol" /\ x.act = "filled"
    <3>1. Rows("filled")' = Rows("filled") \cup {n} /\ Rows("loop")' = Rows("loop")
          /\ Rows("reconciled")' = Rows("reconciled")
      BY <2>4, <2>7
    <3>2. \A k \in Rows("filled")' :
             audit'[k].by = job'[p].run =>
                /\ pc'[p] \notin Ends => \A m \in Rows("loop")' : m < k
                /\ job'[p].done > 0 \/ pc'[p] \in Cycling \cup Ends
      BY <1>1, <1>c, <2>3, <2>5, <2>7, <3>1 DEF Kept
    <3>3. \A i \in Rows("loop")' : audit'[i].by # job'[p].run
      BY <1>1, <2>3, <2>5, <3>1 DEF Rows
    <3>4. QED
      BY <2>6, <3>2, <3>3 DEF Kept
  <2>8. CASE pc[p] = "top" /\ x.act = "loop" /\ x.ok /\ at = "observe"
    <3>1. Rows("filled")' = Rows("filled") /\ Rows("loop")' = Rows("loop") \cup {n}
          /\ Rows("reconciled")' = Rows("reconciled")
      BY <2>4, <2>8
    <3>2. pc'[p] \in Ends
      BY <1>1, <1>c, <2>8
    <3>3. \A i \in Rows("loop") : audit[i].by # job[p].run
      BY <2>5 DEF Rows
    <3>4. \A i \in Rows("loop")' :
             audit'[i].by = job'[p].run => \A k \in (Rows("loop") \cup Rows("reconciled"))' : k <= i
      BY <1>1, <2>3, <3>1, <3>3
    <3>5. QED
      BY <2>6, <3>2, <3>4 DEF Kept
  <2>9. QED
    BY <2>2, <2>7, <2>8
<1>4. QED
  BY <1>2, <1>3

\* A loop row that was there keeps what follows it.
LEMMA SettledStep ==
    ASSUME TInv, Sole, Given, NEW p \in Proc, NEW at, NEW after, NEW x \in Row, Acts(p, at, after, x),
           job[p].run \notin overlap => Kept(p),
           NEW i \in Rows("loop"), audit[i].by \notin overlap \cup dead', Settled(i)
    PROVE  Settled(i)'
<1>1. pc'[p] = at /\ job'[p] = after /\ \A q \in Proc : q # p => pc'[q] = pc[q] /\ job'[q] = job[q]
  BY ActsFacts
<1>2. PICK r : r = audit[i].by
  OBVIOUS
<1>3. i \in DOMAIN audit /\ audit[i].act = "loop"
  BY DEF Rows
\* The execution that wrote it was running, or is another one and has ended.
<1>4. CASE r = job[p].run
  <2>1. Kept(p) /\ pc[p] \in Ends /\ audit[i].ok
    BY <1>2, <1>3, <1>4 DEF Kept
  <2>2. CASE audit' = audit
    <3>1. at # "idle"
      <4>1. audit # Append(audit, x)
        BY DEF TInv, TypeOK
      <4>2. QED
        BY <1>2, <1>4, <2>1, <2>2, <4>1 DEF Acts, Adds
    <3>2. Active(r)'
      BY <1>1, <1>4, <3>1 DEF Active, Acts
    <3>3. (\A y, act : By(y, act)' = By(y, act)) /\ Rows("loop")' = Rows("loop")
          /\ Following(i)' = Following(i)
      BY <2>2 DEF By, Rows, Following
    <3>4. /\ \A k \in By(r, "filled") : k < i /\ \A m \in Rows("loop") : m < i => m < k
          /\ By(r, "filled") # {} => audit[i].n > 0
          /\ audit[i].ok => Following(i) = By(r, "reconciled")
      BY <1>2 DEF Settled
    <3>5. audit'[i] = audit[i] /\ audit'[i].by = r
      BY <1>2, <2>2
    <3>6. \A k \in By(r, "filled")' : k < i /\ \A m \in Rows("loop")' : m < i => m < k
      BY <3>3, <3>4
    <3>7. /\ By(r, "filled")' # {} => audit'[i].n > 0
          /\ audit'[i].ok => Following(i)' = By(r, "reconciled")'
      BY <3>3, <3>4, <3>5
    <3>8. QED
      BY <3>2, <3>5, <3>6, <3>7 DEF Settled
  <2>3. CASE audit' # audit
    <3>1. PICK n : n = Len(audit) + 1
      OBVIOUS
    <3>2. audit' = Append(audit, x) /\ x.by = r /\ x.act = "reconciled"
      BY <1>4, <2>1, <2>3 DEF Acts, Adds, Ends
    <3>t. audit \in Seq(Row)
      BY DEF TInv, TypeOK
    <3>3. n \in Nat \ {0} /\ audit'[i] = audit[i]
      BY <1>3, <3>1, <3>2, <3>t, NewRow
    <3>4. By(r, "filled")' = By(r, "filled")
      BY <3>2, <3>t, ByKept
    <3>5. By(r, "filled")' = By(r, "filled") /\ Rows("loop")' = Rows("loop")
          /\ By(r, "reconciled")' = By(r, "reconciled") \cup {n}
      <4>1. Rows("loop")' = Rows("loop")
        BY <3>2, <3>t, RowsKept
      <4>2. By(r, "reconciled")' = By(r, "reconciled") \cup (IF x.act = "reconciled" /\ x.by = r THEN {n} ELSE {})
        BY <3>1, <3>2, <3>t, NewBy
      <4>3. QED
        BY <3>2, <3>4, <4>1, <4>2
    <3>6. By(r, "reconciled") = {}
      BY <1>2, <1>4, <2>1 DEF Kept, By, Rows
    <3>7. Following(i) = {}
      BY <1>2, <2>1, <3>6 DEF Settled
    <3>8. \A k \in Rows("loop") \cup Rows("reconciled") : k <= i
      BY <1>2, <1>4, <2>1 DEF Kept
    <3>9. Following(i)' = {n}
      BY <1>3, <3>1, <3>2, <3>7, <3>8, NewFollowing DEF TInv, TypeOK
    <3>10. \A k \in By(r, "filled")' : k < i /\ \A m \in Rows("loop")' : m < i => m < k
      BY <1>2, <3>5 DEF Settled
    <3>11. By(r, "filled")' # {} => audit'[i].n > 0
      BY <1>2, <3>3, <3>5 DEF Settled
    <3>12. audit'[i].by = r
      BY <1>2, <3>3
    <3>13. QED
      BY <3>5, <3>6, <3>9, <3>10, <3>11, <3>12 DEF Settled
  <2>4. QED
    BY <2>2, <2>3
<1>5. CASE r # job[p].run
  <2>1. Active(r)' <=> Active(r)
    <3>1. (pc'[p] # "idle" => job'[p].run # r) /\ job[p].run # r
      BY <1>1, <1>5 DEF Acts
    <3>2. QED
      BY <1>1, <3>1 DEF Active
  <2>2. CASE audit' = audit
    <3>1. (\A y, act : By(y, act)' = By(y, act)) /\ Rows("loop")' = Rows("loop")
          /\ Following(i)' = Following(i)
      BY <2>2 DEF By, Rows, Following
    <3>2. /\ \A k \in By(r, "filled") : k < i /\ \A m \in Rows("loop") : m < i => m < k
          /\ By(r, "filled") # {} => audit[i].n > 0
          /\ audit[i].ok => Following(i) = By(r, "reconciled")
          /\ audit[i].ok /\ ~ Active(r) => Following(i) # {}
      BY <1>2 DEF Settled
    <3>3. audit'[i] = audit[i] /\ audit'[i].by = r
      BY <1>2, <2>2
    <3>4. \A k \in By(r, "filled")' : k < i /\ \A m \in Rows("loop")' : m < i => m < k
      BY <3>1, <3>2
    <3>5. /\ By(r, "filled")' # {} => audit'[i].n > 0
          /\ audit'[i].ok => Following(i)' = By(r, "reconciled")'
          /\ audit'[i].ok /\ ~ Active(r)' => Following(i)' # {}
      BY <2>1, <3>1, <3>2, <3>3
    <3>6. QED
      BY <3>3, <3>4, <3>5 DEF Settled
  <2>3. CASE audit' # audit
    <3>1. PICK n : n = Len(audit) + 1
      OBVIOUS
    <3>2. audit' = Append(audit, x) /\ x.by # r
      BY <1>5, <2>3 DEF Acts, Adds
    <3>3. /\ n \in Nat \ {0} /\ audit'[i] = audit[i] /\ i < n
          /\ \A act : Rows(act)' = Rows(act) \cup (IF x.act = act THEN {n} ELSE {})
      BY <1>3, <3>1, <3>2, NewRow DEF TInv, TypeOK
    <3>4. \A act : By(r, act)' = By(r, act)
      <4>1. ASSUME NEW act
            PROVE  By(r, act)' = By(r, act)
        <5>1. By(r, act)' = By(r, act) \cup (IF x.act = act /\ x.by = r THEN {n} ELSE {})
          BY <3>1, <3>2, NewBy DEF TInv, TypeOK
        <5>2. QED
          BY <3>2, <5>1
      <4>2. QED
        BY <4>1
    <3>5. \A m \in Rows("loop")' : m < i => m \in Rows("loop")
      BY <1>3, <3>3 DEF TInv, TypeOK
    <3>6. audit[i].ok => Following(i)' = Following(i)
      <4>1. CASE x.act # "reconciled"
        BY <1>3, <3>1, <3>2, <4>1, NewFollowing DEF TInv, TypeOK
      <4>2. CASE x.act = "reconciled"
        <5>1. ~ Active(r)
          <6>1. \A q \in Proc : pc[q] # "idle" /\ job[q].run = r => q # p /\ r \in overlap
            BY <1>5 DEF Acts, Sole
          <6>2. QED
            BY <1>2, <6>1 DEF Active
        <5>2. audit[i].ok => \E k \in Rows("reconciled") : k > i
          BY <1>2, <5>1 DEF Settled, Following
        <5>3. i \in Nat /\ \A k \in Rows("reconciled") : k \in Nat
          BY <1>3 DEF Rows, TInv, TypeOK
        <5>4. audit[i].ok => ~ \A k \in Rows("loop") \cup Rows("reconciled") : k <= i
          BY <5>2, <5>3
        <5>5. QED
          BY <1>3, <3>1, <3>2, <5>4, NewFollowing DEF TInv, TypeOK
      <4>3. QED
        BY <4>1, <4>2
    <3>7. \A k \in By(r, "filled")' : k < i /\ \A m \in Rows("loop")' : m < i => m < k
      BY <1>2, <3>4, <3>5 DEF Settled
    <3>8. /\ By(r, "filled")' # {} => audit'[i].n > 0
          /\ audit'[i].ok => Following(i)' = By(r, "reconciled")'
          /\ audit'[i].ok /\ ~ Active(r)' => Following(i)' # {}
      BY <1>2, <2>1, <3>3, <3>4, <3>6 DEF Settled
    <3>9. audit'[i].by = r
      BY <1>2, <3>3
    <3>10. QED
      BY <3>7, <3>8, <3>9 DEF Settled
  <2>4. QED
    BY <2>2, <2>3
<1>6. QED
  BY <1>4, <1>5

LEMMA OrderedSame == ASSUME Ordered, audit' = audit PROVE Ordered'
<1>1. Rows("loop")' = Rows("loop")
  BY DEF Rows
<1>2. QED
  BY <1>1 DEF Ordered, LatestFound

\* The loop row of an execution that kept its rows in order.
LEMMA SettledNew ==
    ASSUME TInv, NEW p \in Proc, NEW at, NEW after, NEW x \in Row, Acts(p, at, after, x), Kept(p),
           audit' # audit, x.act = "loop", NEW n, n = Len(audit) + 1
    PROVE  Settled(n)'
<1>1. PICK r : r = job[p].run
  OBVIOUS
<1>2. /\ audit' = Append(audit, x) /\ x.by = r /\ pc[p] = "top" /\ x.n = job[p].done
      /\ x.ok => at = "observe"
  BY <1>1 DEF Acts, Adds
<1>3. /\ n \in Nat \ {0} /\ audit'[n] = x
      /\ \A k \in DOMAIN audit : k \in Nat \ {0} /\ k < n
      /\ \A act : Rows(act) \subseteq DOMAIN audit
  BY <1>2, NewRow DEF TInv, TypeOK
<1>4. Rows("loop")' = Rows("loop") \cup {n} /\ Rows("reconciled")' = Rows("reconciled") \cup {}
  <2>1. \A act : Rows(act)' = Rows(act) \cup (IF x.act = act THEN {n} ELSE {})
    BY <1>2, NewRow DEF TInv, TypeOK
  <2>2. QED
    BY <2>1
<1>5. By(r, "filled")' = By(r, "filled") \cup {} /\ By(r, "reconciled")' = By(r, "reconciled") \cup {}
  BY <1>2, NewBy DEF TInv, TypeOK
<1>6. By(r, "filled")' = By(r, "filled") /\ By(r, "reconciled")' = By(r, "reconciled")
      /\ Rows("reconciled")' = Rows("reconciled")
  BY <1>4, <1>5
<1>7. pc[p] \notin Ends \cup Cycling
  BY <1>2 DEF Ends, Cycling
<1>8. \A k \in By(r, "filled") : k < n /\ job[p].done > 0 /\ \A m \in Rows("loop") : m < k
  BY <1>1, <1>3, <1>7 DEF By, Kept
<1>9. By(r, "reconciled") = {}
  BY <1>1 DEF Kept, By, Rows
<1>10. Following(n)' = {}
  BY <1>3, <1>6 DEF Following
<1>11. x.ok => Active(r)'
  <2>1. pc'[p] = at /\ job'[p] = after
    BY ActsFacts
  <2>2. QED
    BY <1>1, <1>2, <2>1 DEF Active, Acts
<1>12. \A k \in By(r, "filled")' : k < n /\ \A m \in Rows("loop")' : m < n => m < k
  BY <1>3, <1>4, <1>6, <1>8
<1>13. By(r, "filled")' # {} => audit'[n].n > 0
  BY <1>2, <1>3, <1>6, <1>8
<1>14. audit'[n].by = r /\ Following(n)' = By(r, "reconciled")' /\ (audit'[n].ok => Active(r)')
  BY <1>2, <1>3, <1>6, <1>9, <1>10, <1>11
<1>15. QED
  BY <1>12, <1>13, <1>14 DEF Settled

\* The step of an execution.
LEMMA ActsInv ==
    ASSUME TInv, Sole, CInv, NEW p \in Proc, NEW at, NEW after, NEW x \in Row, Acts(p, at, after, x)
    PROVE  CInv'
<1>1. /\ pc'[p] = at /\ job'[p] = after
      /\ \A q \in Proc : q # p => pc'[q] = pc[q] /\ job'[q] = job[q]
  BY ActsFacts
<1>2. overlap' = overlap /\ dead \subseteq dead' /\ pc[p] # "idle" /\ (at # "idle" => after.run = job[p].run)
      /\ (audit' = audit \/ (audit' = Append(audit, x) /\ x.by = job[p].run))
  BY DEF Acts, Adds
<1>3. Given'
  BY GivenStep DEF CInv
<1>4. Ordered'
  <2>1. CASE audit' = audit
    BY <2>1, OrderedSame DEF CInv
  <2>2. CASE audit' = Append(audit, x)
    BY <2>2, OrderedStep DEF CInv, TInv, TypeOK
  <2>3. QED
    BY <1>2, <2>1, <2>2
<1>5. ASSUME NEW q \in Proc, pc'[q] # "idle", job'[q].run \notin overlap'
      PROVE  Kept(q)'
  <2>1. q = p
    BY <1>1, <1>2, <1>5 DEF Sole
  <2>2. Kept(p)
    BY <1>1, <1>2, <1>5, <2>1 DEF CInv
  <2>3. Kept(p)'
    BY <1>1, <1>5, <2>1, <2>2, KeptStep
  <2>4. QED
    BY <2>1, <2>3
<1>6. ASSUME NEW i \in Rows("loop")', audit'[i].by \notin overlap' \cup dead'
      PROVE  Settled(i)'
  <2>1. CASE i \in Rows("loop")
    <3>1. audit'[i] = audit[i]
      <4>1. i \in DOMAIN audit
        BY <2>1 DEF Rows
      <4>2. QED
        BY <1>2, <4>1 DEF TInv, TypeOK
    <3>2. audit[i].by \notin overlap \cup dead' /\ Settled(i)
      BY <1>2, <1>6, <2>1, <3>1 DEF CInv
    <3>3. job[p].run \notin overlap => Kept(p)
      BY <1>2 DEF CInv
    <3>4. QED
      BY <2>1, <3>2, <3>3, SettledStep DEF CInv
  <2>2. CASE i \notin Rows("loop")
    <3>1. PICK n : n = Len(audit) + 1
      OBVIOUS
    <3>2. audit' = Append(audit, x) /\ audit' # audit
      BY <1>2, <2>2 DEF Rows
    <3>3. Rows("loop")' = Rows("loop") \cup (IF x.act = "loop" THEN {n} ELSE {}) /\ audit'[n] = x
      BY <3>1, <3>2, NewRow DEF TInv, TypeOK
    <3>4. i = n /\ x.act = "loop" /\ audit'[i] = x
      BY <2>2, <3>3
    <3>5. x.by = job[p].run
      BY <1>2, <3>2
    <3>6. Kept(p)
      BY <1>2, <1>6, <3>4, <3>5 DEF CInv
    <3>7. QED
      BY <3>1, <3>2, <3>4, <3>6, SettledNew
  <2>3. QED
    BY <2>1, <2>2
<1>7. QED
  BY <1>3, <1>4, <1>5, <1>6 DEF CInv

\* A new execution has a number that no row bears.
LEMMA StartClean ==
    ASSUME TInv, CInv, NEW p \in Proc, NEW at \in {"reset", "top"}, NEW proving, Start(p, at, proving)
    PROVE  CInv'
<1>1. PICK n \in 0..Iterations :
         job' = [job EXCEPT ![p] =
                   [NoJob EXCEPT !.proving = proving, !.run = runs + 1, !.left = n]]
  BY DEF Start
<1>2. PICK after : after = [NoJob EXCEPT !.proving = proving, !.run = runs + 1, !.left = n]
  OBVIOUS
<1>3. after.run = runs + 1
  BY <1>2 DEF NoJob
<1>4. \A q \in Proc : /\ pc'[q] = IF q = p THEN at ELSE pc[q]
                      /\ job'[q] = IF q = p THEN after ELSE job[q]
  BY <1>1, <1>2 DEF Start, TInv, TypeOK
<1>5. /\ pc[p] = "idle" /\ runs' = runs + 1 /\ runs \in Nat /\ audit' = audit /\ dead' = dead
      /\ overlap' = IF Running = {} THEN overlap
                    ELSE overlap \cup {runs + 1} \cup {job[q].run : q \in Running}
  BY DEF Start, TInv, TypeOK
<1>6. \A k \in DOMAIN audit : audit[k].by \in Nat /\ audit[k].by <= runs
  <2>1. \A k \in DOMAIN audit : audit[k] \in Row
    BY DEF TInv, TypeOK
  <2>2. QED
    BY <2>1 DEF Row, CInv, Given
<1>7. Given'
  <2>1. \A q \in Proc : pc'[q] # "idle" => job'[q].run \in 1..runs'
    <3>1. job'[p].run \in 1..runs'
      BY <1>3, <1>4, <1>5
    <3>2. ASSUME NEW q \in Proc, q # p, pc'[q] # "idle"
          PROVE  job'[q].run \in 1..runs'
      <4>1. job'[q].run \in 1..runs
        BY <1>4, <3>2 DEF CInv, Given
      <4>2. QED
        BY <1>5, <4>1
    <3>3. QED
      BY <3>1, <3>2
  <2>2. \A k \in DOMAIN audit' : audit'[k].by <= runs' /\ (audit'[k].act = "loop" => audit'[k].by > 0)
    BY <1>5, <1>6 DEF CInv, Given
  <2>3. QED
    BY <2>1, <2>2 DEF Given
<1>8. Ordered'
  BY <1>5, OrderedSame DEF CInv
<1>9. ASSUME NEW q \in Proc, pc'[q] # "idle", job'[q].run \notin overlap'
      PROVE  Kept(q)'
  <2>1. q = p
    <3>1. ASSUME q # p
          PROVE  FALSE
      <4>1. q \in Running /\ job'[q].run = job[q].run
        BY <1>4, <1>9, <3>1 DEF Running
      <4>2. QED
        BY <1>5, <1>9, <4>1
    <3>2. QED
      BY <3>1
  <2>2. \A k \in DOMAIN audit' : audit'[k].by # job'[p].run
    BY <1>3, <1>4, <1>5, <1>6
  <2>3. QED
    BY <2>1, <2>2 DEF Kept, Rows
<1>10. ASSUME NEW i \in Rows("loop")', audit'[i].by \notin overlap' \cup dead'
       PROVE  Settled(i)'
  <2>1. PICK r : r = audit[i].by
    OBVIOUS
  <2>2. i \in Rows("loop") /\ i \in DOMAIN audit /\ audit'[i] = audit[i]
    BY <1>5, <1>10 DEF Rows
  <2>3. Settled(i)
    BY <1>5, <1>10, <2>2 DEF CInv
  <2>4. (\A y, act : By(y, act)' = By(y, act)) /\ Rows("loop")' = Rows("loop")
        /\ Following(i)' = Following(i)
    BY <1>5 DEF By, Rows, Following
  <2>5. Active(r) => Active(r)'
    BY <1>4, <1>5 DEF Active
  <2>6. /\ \A k \in By(r, "filled") : k < i /\ \A m \in Rows("loop") : m < i => m < k
        /\ By(r, "filled") # {} => audit[i].n > 0
        /\ audit[i].ok => Following(i) = By(r, "reconciled")
        /\ audit[i].ok /\ ~ Active(r) => Following(i) # {}
    BY <2>1, <2>3 DEF Settled
  <2>7. \A k \in By(r, "filled")' : k < i /\ \A m \in Rows("loop")' : m < i => m < k
    BY <2>4, <2>6
  <2>8. /\ By(r, "filled")' # {} => audit'[i].n > 0
        /\ audit'[i].ok => Following(i)' = By(r, "reconciled")'
        /\ audit'[i].ok /\ ~ Active(r)' => Following(i)' # {}
    BY <2>2, <2>4, <2>5, <2>6
  <2>9. audit'[i].by = r
    BY <2>1, <2>2
  <2>10. QED
    BY <2>7, <2>8, <2>9 DEF Settled
<1>11. QED
  BY <1>7, <1>8, <1>9, <1>10 DEF CInv

\* A row of another writer bears no number of an execution.
LEMMA OtherClean ==
    ASSUME TInv, CInv, UNCHANGED <<pc, job, runs, overlap, dead>>,
           NEW x \in Row, audit' = Append(audit, x), x.by = 0, x.act \in {"filled", "manual"}
    PROVE  CInv'
<1>1. PICK n : n = Len(audit) + 1
  OBVIOUS
<1>2. /\ n \in Nat \ {0} /\ audit'[n] = x /\ DOMAIN audit' = DOMAIN audit \cup {n}
      /\ \A k \in DOMAIN audit : k \in Nat \ {0} /\ k < n /\ audit'[k] = audit[k]
      /\ \A act : Rows(act) \subseteq DOMAIN audit
  BY <1>1, NewRow DEF TInv, TypeOK
<1>3. Rows("loop")' = Rows("loop") \cup {} /\ Rows("reconciled")' = Rows("reconciled") \cup {}
      /\ Rows("filled")' \subseteq Rows("filled") \cup {n}
  <2>1. \A act : Rows(act)' = Rows(act) \cup (IF x.act = act THEN {n} ELSE {})
    BY <1>1, NewRow DEF TInv, TypeOK
  <2>2. QED
    BY <2>1
<1>4. Rows("loop")' = Rows("loop") /\ Rows("reconciled")' = Rows("reconciled")
  BY <1>3
<1>5. Given'
  BY <1>2 DEF CInv, Given, TInv, TypeOK
<1>6. Ordered'
  BY OrderedStep DEF CInv, TInv, TypeOK
<1>7. ASSUME NEW q \in Proc, pc[q] # "idle", job[q].run \notin overlap
      PROVE  Kept(q)'
  <2>1. Kept(q) /\ job[q].run # 0
    BY <1>7 DEF CInv, Given, TInv, TypeOK
  <2>2. \A k \in DOMAIN audit' :
           audit'[k].by = job'[q].run =>
              \/ audit'[k].act = "filled"
              \/ audit'[k].act = "loop" /\ audit'[k].ok /\ pc'[q] \in Ends
    BY <1>2, <2>1 DEF Kept
  <2>3. \A k \in Rows("filled")' :
           audit'[k].by = job'[q].run =>
              /\ pc'[q] \notin Ends => \A m \in Rows("loop")' : m < k
              /\ job'[q].done > 0 \/ pc'[q] \in Cycling \cup Ends
    <3>1. SUFFICES ASSUME NEW k \in Rows("filled")', audit'[k].by = job[q].run
          PROVE  /\ pc[q] \notin Ends => \A m \in Rows("loop") : m < k
                 /\ job[q].done > 0 \/ pc[q] \in Cycling \cup Ends
      BY <1>4
    <3>2. k \in Rows("filled") /\ audit[k].by = job[q].run
      BY <1>2, <1>3, <2>1, <3>1
    <3>3. QED
      BY <2>1, <3>2 DEF Kept
  <2>4. \A i \in Rows("loop")' :
           audit'[i].by = job'[q].run => \A k \in (Rows("loop") \cup Rows("reconciled"))' : k <= i
    BY <1>2, <1>4, <2>1 DEF Kept
  <2>5. QED
    BY <2>2, <2>3, <2>4 DEF Kept
<1>8. ASSUME NEW i \in Rows("loop")', audit'[i].by \notin overlap \cup dead
      PROVE  Settled(i)'
  <2>1. PICK r : r = audit[i].by
    OBVIOUS
  <2>2. i \in Rows("loop") /\ i \in DOMAIN audit /\ audit'[i] = audit[i] /\ audit[i].act = "loop"
    BY <1>2, <1>4, <1>8 DEF Rows
  <2>3. Settled(i) /\ r # 0
    BY <1>8, <2>1, <2>2 DEF CInv, Given
  <2>4. ASSUME NEW act
        PROVE  By(r, act)' = By(r, act)
    <3>1. By(r, act)' = By(r, act) \cup (IF x.act = act /\ x.by = r THEN {n} ELSE {})
      BY <1>1, NewBy DEF TInv, TypeOK
    <3>2. QED
      BY <2>3, <3>1
  <2>5. Following(i)' = Following(i)
    <3>1. Following(i)' = Following(i) \cup {}
      BY <1>1, <2>2, NewFollowing DEF TInv, TypeOK
    <3>2. QED
      BY <3>1
  <2>6. Active(r)' = Active(r)
    BY DEF Active
  <2>7. /\ \A k \in By(r, "filled") : k < i /\ \A m \in Rows("loop") : m < i => m < k
        /\ By(r, "filled") # {} => audit[i].n > 0
        /\ audit[i].ok => Following(i) = By(r, "reconciled")
        /\ audit[i].ok /\ ~ Active(r) => Following(i) # {}
    BY <2>1, <2>3 DEF Settled
  <2>8. \A k \in By(r, "filled")' : k < i /\ \A m \in Rows("loop")' : m < i => m < k
    BY <1>4, <2>4, <2>7
  <2>9. /\ By(r, "filled")' # {} => audit'[i].n > 0
        /\ audit'[i].ok => Following(i)' = By(r, "reconciled")'
        /\ audit'[i].ok /\ ~ Active(r)' => Following(i)' # {}
    BY <2>2, <2>4, <2>5, <2>6, <2>7
  <2>10. audit'[i].by = r
    BY <2>1, <2>2
  <2>11. QED
    BY <2>8, <2>9, <2>10 DEF Settled
<1>9. QED
  BY <1>5, <1>6, <1>7, <1>8 DEF CInv

LEMMA QuietClean ==
    ASSUME TInv, CInv, UNCHANGED <<pc, job, runs, overlap, dead, audit>>
    PROVE  CInv'
<1>1. \A act : Rows(act)' = Rows(act)
  BY DEF Rows
<1>2. Given'
  BY DEF CInv, Given
<1>3. Ordered'
  BY OrderedSame DEF CInv
<1>4. \A q \in Proc : Kept(q) => Kept(q)'
  BY <1>1 DEF Kept
<1>5. \A i \in Rows("loop") : Settled(i) => Settled(i)'
  <2>1. /\ \A y, act : By(y, act)' = By(y, act)
        /\ \A i : Following(i)' = Following(i)
        /\ \A r : Active(r)' = Active(r)
    BY <1>1 DEF By, Following, Active
  <2>2. QED
    BY <1>1, <2>1 DEF Settled
<1>6. QED
  BY <1>1, <1>2, <1>3, <1>4, <1>5 DEF CInv

\* A step that writes no row.
LEMMA InMemoryClean ==
    ASSUME TInv, Sole, CInv, NEW p \in Proc, pc[p] # "idle", NEW at, NEW after, Step(p, at, after),
           at # "idle" => after.run = job[p].run, audit' = audit,
           at = "idle" => pc[p] \notin Ends,
           \/ at \in Ends
           \/ at = "idle"
           \/ /\ pc[p] \notin Ends
              /\ after.done > 0 \/ at \in Cycling \/ (after.done = job[p].done /\ pc[p] \notin Cycling)
    PROVE  CInv'
<1>1. PICK x : x = [act |-> "manual", ok |-> TRUE, n |-> 0, by |-> 0]
  OBVIOUS
<1>2. x \in Row
  BY <1>1 DEF Row
<1>3. Acts(p, at, after, x)
  BY DEF Acts, Adds, Step
<1>4. QED
  BY <1>2, <1>3, ActsInv

\* A step that writes one.
LEMMA LogClean ==
    ASSUME TInv, Sole, CInv, NEW p \in Proc, pc[p] # "idle", NEW at, NEW after, Step(p, at, after),
           at # "idle" => after.run = job[p].run,
           NEW act \in {"filled", "loop", "reconciled"}, NEW ok \in BOOLEAN, NEW n \in Nat,
           LogRow(act, ok, n, job[p].run),
           \/ pc[p] = "log" /\ at = "symbol" /\ act = "filled"
           \/ /\ pc[p] = "top" /\ act = "loop" /\ n = job[p].done
              /\ IF ok THEN at = "observe" ELSE at = "idle"
           \/ pc[p] = "record" /\ at = "idle" /\ act = "reconciled"
    PROVE  CInv'
<1>1. PICK x : x = [act |-> act, ok |-> ok, n |-> n, by |-> job[p].run]
  OBVIOUS
<1>2. job[p].run \in Nat
  BY DEF TInv, TypeOK, Job
<1>3. x \in Row /\ x.act = act /\ x.ok = ok /\ x.n = n /\ x.by = job[p].run
  BY <1>1, <1>2 DEF Row
<1>4. audit' = Append(audit, x)
  BY <1>1 DEF LogRow
<1>5. Acts(p, at, after, x)
  BY <1>3, <1>4 DEF Acts, Adds, Step
<1>6. QED
  BY <1>3, <1>5, ActsInv

LEMMA CleanStep == TInv /\ AInv /\ CInv /\ [Next]_vars => CInv'
<1> SUFFICES ASSUME TInv, AInv, CInv, [Next]_vars
             PROVE  CInv'
  OBVIOUS
<1>s. Sole
  BY DEF AInv
<1>j. \A p \in Proc : job[p] \in Job
  BY DEF TInv, TypeOK
<1>c. /\ Cycling = {"begin", "symbol", "risk", "fill", "log"}
      /\ Ends = {"observe", "compare", "record"}
  BY DEF Cycling, Ends
<1>1. ASSUME NEW p \in Proc, StartProving(p) \/ StartLoop(p)
      PROVE  CInv'
  BY <1>1, StartClean DEF StartProving, StartLoop
\* Where a step leads to that is none of an end.
<1>2. ASSUME NEW p \in Proc, pc[p] \notin Ends \cup {"idle"}, NEW after, NEW at \in Cycling,
             Step(p, at, after), after.run = job[p].run, audit' = audit
      PROVE  CInv'
  <2>1. at # "idle"
    BY <1>2, <1>c
  <2>2. QED
    BY <1>2, <1>s, <2>1, InMemoryClean
<1>3. ASSUME NEW p \in Proc, pc[p] \notin Ends \cup {"idle"}, CycleEnds(p), audit' = audit
      PROVE  CInv'
  <2>1. PICK after : after = [job[p] EXCEPT !.left = @ - 1, !.done = @ + 1, !.todo = {}, !.view = Empty]
    OBVIOUS
  <2>2. after.run = job[p].run /\ after.done = job[p].done + 1 /\ job[p].done \in Nat
    BY <1>j, <2>1 DEF Job
  <2>3. Step(p, "top", after)
    BY <1>3, <2>1 DEF CycleEnds
  <2>4. after.done > 0
    BY <2>2
  <2>5. QED
    BY <1>3, <1>s, <2>2, <2>3, <2>4, InMemoryClean
<1>4. ASSUME NEW p \in Proc, Reset(p)
      PROVE  CInv'
  <2>1. Step(p, "top", job[p]) /\ pc[p] = "reset" /\ audit' = audit
    BY <1>4 DEF Reset
  <2>2. pc[p] \notin Ends \cup Cycling \cup {"idle"}
    BY <1>c, <2>1
  <2>3. QED
    BY <1>s, <2>1, <2>2, InMemoryClean
<1>5. ASSUME NEW p \in Proc, Complete(p)
      PROVE  CInv'
  <2>1. LogRow("loop", job[p].proving, job[p].done, job[p].run) /\ AfterLoop(p) /\ pc[p] = "top"
    BY <1>5 DEF Complete
  <2>2. job[p].proving \in BOOLEAN /\ job[p].done \in Nat
    BY <1>j DEF Job
  <2>3. CASE job[p].proving
    <3>1. PICK after : after = [job[p] EXCEPT !.left = 0, !.done = 0]
      OBVIOUS
    <3>2. Step(p, "observe", after)
      BY <2>1, <2>3, <3>1 DEF AfterLoop
    <3>3. after.run = job[p].run
      BY <1>j, <3>1 DEF Job
    <3>4. QED
      BY <1>s, <2>1, <2>2, <2>3, <3>2, <3>3, LogClean
  <2>4. CASE ~ job[p].proving
    <3>1. Step(p, "idle", NoJob)
      BY <2>1, <2>4 DEF AfterLoop
    <3>2. QED
      BY <1>s, <2>1, <2>2, <2>4, <3>1, LogClean
  <2>5. QED
    BY <2>3, <2>4
<1>6. ASSUME NEW p \in Proc, Halt(p)
      PROVE  CInv'
  <2>1. AfterLoop(p) /\ pc[p] = "top" /\ audit' = audit
    BY <1>6 DEF Halt
  <2>2. pc[p] \notin Ends /\ pc[p] # "idle" /\ "observe" \in Ends
    BY <1>c, <2>1
  <2>3. CASE job[p].proving
    <3>1. PICK after : after = [job[p] EXCEPT !.left = 0, !.done = 0]
      OBVIOUS
    <3>2. Step(p, "observe", after)
      BY <2>1, <2>3, <3>1 DEF AfterLoop
    <3>3. after.run = job[p].run
      BY <1>j, <3>1 DEF Job
    <3>4. QED
      BY <1>s, <2>1, <2>2, <3>2, <3>3, InMemoryClean
  <2>4. CASE ~ job[p].proving
    <3>1. Step(p, "idle", NoJob)
      BY <2>1, <2>4 DEF AfterLoop
    <3>2. QED
      BY <1>s, <2>1, <2>2, <3>1, InMemoryClean
  <2>5. QED
    BY <2>3, <2>4
<1>7. ASSUME NEW p \in Proc, NextCycle(p)
      PROVE  CInv'
  <2>1. Step(p, "begin", job[p]) /\ pc[p] = "top" /\ audit' = audit
    BY <1>7 DEF NextCycle
  <2>2. pc[p] \notin Ends \cup {"idle"} /\ "begin" \in Cycling
    BY <1>c, <2>1
  <2>3. QED
    BY <1>2, <2>1, <2>2
<1>8. ASSUME NEW p \in Proc, BeginCycle(p)
      PROVE  CInv'
  <2>1. pc[p] = "begin" /\ audit' = audit
    BY <1>8 DEF BeginCycle
  <2>2. pc[p] \notin Ends \cup {"idle"} /\ "symbol" \in Cycling
    BY <1>c, <2>1
  <2>3. CASE stop
    <3>1. CycleEnds(p)
      BY <1>8, <2>3 DEF BeginCycle
    <3>2. QED
      BY <1>3, <2>1, <2>2, <3>1
  <2>4. CASE ~ stop
    <3>1. PICK after : after = [job[p] EXCEPT !.todo = Symbol, !.view = ledger]
      OBVIOUS
    <3>2. Step(p, "symbol", after)
      BY <1>8, <2>4, <3>1 DEF BeginCycle
    <3>3. after.run = job[p].run
      BY <1>j, <3>1 DEF Job
    <3>4. QED
      BY <1>2, <2>1, <2>2, <3>2, <3>3
  <2>5. QED
    BY <2>3, <2>4
<1>9. ASSUME NEW p \in Proc, CycleOver(p)
      PROVE  CInv'
  <2>1. CycleEnds(p) /\ pc[p] = "symbol" /\ audit' = audit
    BY <1>9 DEF CycleOver
  <2>2. pc[p] \notin Ends \cup {"idle"}
    BY <1>c, <2>1
  <2>3. QED
    BY <1>3, <2>1, <2>2
<1>10. ASSUME NEW p \in Proc, Skip(p) \/ Evaluate(p)
       PROVE  CInv'
  <2>1. pc[p] = "symbol" /\ audit' = audit
    BY <1>10 DEF Skip, Evaluate
  <2>2. pc[p] \notin Ends \cup {"idle"} /\ "symbol" \in Cycling /\ "risk" \in Cycling
    BY <1>c, <2>1
  <2>3. CASE Skip(p)
    <3>1. PICK c \in job[p].todo : Step(p, "symbol", [job[p] EXCEPT !.todo = @ \ {c}])
      BY <2>3 DEF Skip
    <3>2. PICK after : after = [job[p] EXCEPT !.todo = @ \ {c}]
      OBVIOUS
    <3>3. Step(p, "symbol", after)
      BY <3>1, <3>2
    <3>4. after.run = job[p].run
      BY <1>j, <3>2 DEF Job
    <3>5. QED
      BY <1>2, <2>1, <2>2, <3>3, <3>4
  <2>4. CASE Evaluate(p)
    <3>1. PICK c \in job[p].todo, side \in {"buy", "sell"} : \E n \in Sized(p, c, side) :
              Step(p, "risk", [job[p] EXCEPT !.todo = @ \ {c},
                                !.order = {[sym |-> c, side |-> side, amount |-> n]}])
      BY <2>4 DEF Evaluate
    <3>2. PICK n \in Sized(p, c, side) :
              Step(p, "risk", [job[p] EXCEPT !.todo = @ \ {c},
                                !.order = {[sym |-> c, side |-> side, amount |-> n]}])
      BY <3>1
    <3>3. PICK after : after = [job[p] EXCEPT !.todo = @ \ {c},
                                !.order = {[sym |-> c, side |-> side, amount |-> n]}]
      OBVIOUS
    <3>4. Step(p, "risk", after)
      BY <3>2, <3>3
    <3>5. after.run = job[p].run
      BY <1>j, <3>3 DEF Job
    <3>6. QED
      BY <1>2, <2>1, <2>2, <3>4, <3>5
  <2>5. QED
    BY <1>10, <2>3, <2>4
<1>11. ASSUME NEW p \in Proc, Decide(p)
       PROVE  CInv'
  <2>1. pc[p] = "risk" /\ audit' = audit
    BY <1>11 DEF Decide
  <2>2. pc[p] \notin Ends \cup {"idle"} /\ "symbol" \in Cycling /\ "fill" \in Cycling
    BY <1>c, <2>1
  <2>3. Step(p, "fill", job[p]) \/ Step(p, "symbol", [job[p] EXCEPT !.order = {}])
    BY <1>11, Zenon DEF Decide
  <2>4. CASE Step(p, "fill", job[p])
    BY <1>2, <2>1, <2>2, <2>4
  <2>5. CASE Step(p, "symbol", [job[p] EXCEPT !.order = {}])
    <3>1. PICK after : after = [job[p] EXCEPT !.order = {}]
      OBVIOUS
    <3>2. Step(p, "symbol", after)
      BY <2>5, <3>1
    <3>3. after.run = job[p].run
      BY <1>j, <3>1 DEF Job
    <3>4. QED
      BY <1>2, <2>1, <2>2, <3>2, <3>3
  <2>6. QED
    BY <2>3, <2>4, <2>5
<1>12. ASSUME NEW p \in Proc, Fill(p)
       PROVE  CInv'
  <2>1. Step(p, "log", job[p]) /\ pc[p] = "fill" /\ audit' = audit
    BY <1>12 DEF Fill
  <2>2. pc[p] \notin Ends \cup {"idle"} /\ "log" \in Cycling
    BY <1>c, <2>1
  <2>3. QED
    BY <1>2, <2>1, <2>2
<1>13. ASSUME NEW p \in Proc, LogFill(p)
       PROVE  CInv'
  <2>1. PICK after : after = [job[p] EXCEPT !.order = {}, !.view = ledger]
    OBVIOUS
  <2>2. Step(p, "symbol", after) /\ pc[p] = "log" /\ LogRow("filled", TRUE, 0, job[p].run)
    BY <1>13, <2>1 DEF LogFill
  <2>3. after.run = job[p].run
    BY <1>j, <2>1 DEF Job
  <2>4. 0 \in Nat
    OBVIOUS
  <2>5. QED
    BY <1>s, <2>2, <2>3, <2>4, LogClean
<1>14. ASSUME NEW p \in Proc, Observe(p)
       PROVE  CInv'
  <2>1. PICK after : after = [job[p] EXCEPT !.view = ledger]
    OBVIOUS
  <2>2. Step(p, "compare", after) /\ pc[p] = "observe" /\ audit' = audit
    BY <1>14, <2>1 DEF Observe
  <2>3. after.run = job[p].run /\ "compare" \in Ends
    BY <1>c, <1>j, <2>1 DEF Job
  <2>4. QED
    BY <1>s, <2>2, <2>3, InMemoryClean
<1>15. ASSUME NEW p \in Proc, Compare(p)
       PROVE  CInv'
  <2>1. PICK verdict : verdict = Agrees(job[p].view)
    OBVIOUS
  <2>2. PICK after : after = [job[p] EXCEPT !.view = Empty, !.clean = verdict]
    OBVIOUS
  <2>3. Step(p, "record", after) /\ pc[p] = "compare" /\ audit' = audit
    BY <1>15, <2>1, <2>2, Zenon DEF Compare
  <2>4. after.run = job[p].run /\ "record" \in Ends
    BY <1>c, <1>j, <2>2 DEF Job
  <2>5. QED
    BY <1>s, <2>3, <2>4, InMemoryClean
<1>16. ASSUME NEW p \in Proc, Record(p)
       PROVE  CInv'
  <2>1. LogRow("reconciled", job[p].clean, 0, job[p].run) /\ Step(p, "idle", NoJob) /\ pc[p] = "record"
    BY <1>16 DEF Record
  <2>2. job[p].clean \in BOOLEAN /\ 0 \in Nat
    BY <1>j DEF Job
  <2>3. QED
    BY <1>s, <2>1, <2>2, LogClean
<1>17. ASSUME NEW p \in Proc, Die(p)
       PROVE  CInv'
  <2>1. PICK x : x = [act |-> "manual", ok |-> TRUE, n |-> 0, by |-> 0]
    OBVIOUS
  <2>2. x \in Row
    BY <2>1 DEF Row
  <2>3. Acts(p, "idle", NoJob, x)
    BY <1>17 DEF Die, Acts, Adds
  <2>4. QED
    BY <1>s, <2>2, <2>3, ActsInv
<1>18. CASE OtherRow
  <2>1. PICK act \in {"filled", "manual"} : LogRow(act, TRUE, 0, 0)
    BY <1>18 DEF OtherRow
  <2>2. PICK x : x = [act |-> act, ok |-> TRUE, n |-> 0, by |-> 0]
    OBVIOUS
  <2>3. x \in Row /\ x.by = 0 /\ x.act \in {"filled", "manual"}
    BY <2>2 DEF Row
  <2>4. audit' = Append(audit, x)
    BY <2>1, <2>2 DEF LogRow
  <2>5. UNCHANGED <<pc, job, runs, overlap, dead>>
    BY <1>18 DEF OtherRow
  <2>6. QED
    BY <2>3, <2>4, <2>5, OtherClean
<1>19. CASE ToggleStop \/ UNCHANGED vars
  BY <1>19, QuietClean DEF ToggleStop, vars
<1>20. QED
  BY <1>1, <1>4, <1>5, <1>6, <1>7, <1>8, <1>9, <1>10, <1>11, <1>12, <1>13, <1>14, <1>15, <1>16,
     <1>17, <1>18, <1>19 DEF Next

LEMMA CleanInit == Init => CInv
<1> SUFFICES ASSUME Init
             PROVE  CInv
  OBVIOUS
<1>1. DOMAIN audit = {} /\ \A act : Rows(act) = {}
  BY DEF Init, Rows
<1>2. LatestFound(Rows("loop"))
  BY <1>1 DEF LatestFound, Latest
<1>3. QED
  BY <1>1, <1>2 DEF Init, CInv, Given, Ordered

\* Rows that are settled are judged by what their execution did.
LEMMA CleanFollows == TInv /\ CInv => CleanIsEarned
<1> SUFFICES ASSUME TInv, CInv, NEW i \in Rows("loop"), audit[i].by \notin overlap \cup dead, OwnWindow(i)
             PROVE  Clean(i) <=> /\ audit[i].ok
                                 /\ By(audit[i].by, "filled") # {}
                                 /\ \E j \in By(audit[i].by, "reconciled") : audit[j].ok
                                 /\ Window(i) \cap Rows("manual") = {}
  BY DEF CleanIsEarned
<1>1. Settled(i)
  BY DEF CInv
<1>2. i \in DOMAIN audit /\ \A k \in Rows("filled") : k \in DOMAIN audit
  BY DEF Rows
<1>3. Window(i) \cap Rows("filled") = By(audit[i].by, "filled")
  <2>1. ASSUME NEW k \in Window(i), k \in Rows("filled")
        PROVE  k \in By(audit[i].by, "filled")
    BY <2>1 DEF OwnWindow, By
  <2>2. ASSUME NEW k \in By(audit[i].by, "filled")
        PROVE  k \in Rows("filled") /\ k \in Window(i)
    <3>1. k \in Rows("filled") /\ k \in DOMAIN audit
      BY <1>2, <2>2 DEF By
    <3>2. k < i /\ \A m \in Rows("loop") : m < i => m < k
      BY <1>1, <2>2 DEF Settled
    <3>3. k <= i
      BY <1>2, <3>1, <3>2 DEF TInv, TypeOK
    <3>4. k \in Window(i)
      BY <1>2, <3>1, <3>2, <3>3, InWindow DEF CInv, TInv, TypeOK
    <3>5. QED
      BY <3>1, <3>4
  <2>3. QED
    BY <2>1, <2>2
<1>4. audit[i].ok => Following(i) = By(audit[i].by, "reconciled")
  BY <1>1 DEF Settled
<1>5. By(audit[i].by, "filled") # {} => audit[i].n > 0
  BY <1>1 DEF Settled
<1>6. QED
  BY <1>3, <1>4, <1>5 DEF Clean

\* The readiness report calls a run clean exactly when it was, for any number of
\* executions, deaths and rows of other writers (equity_readiness.py:412-459).
THEOREM CleanHolds == Spec => []CleanIsEarned
<1>1. Init => TInv /\ AInv /\ CInv
  BY TypeInit, OwnInit, CleanInit
<1>2. TInv /\ AInv /\ CInv /\ [Next]_vars => (TInv /\ AInv /\ CInv)'
  BY TypeStep, OwnStep, CleanStep
<1>3. QED
  BY <1>1, <1>2, CleanFollows, PTL DEF Spec
=============================================================================
