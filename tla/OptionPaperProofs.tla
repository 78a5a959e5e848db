-------------------------- MODULE OptionPaperProofs --------------------------
(***************************************************************************)
(* Types, the premium bound and the reconciliation of OptionPaper, for     *)
(* every set of contracts and processes, every cap and every number of     *)
(* executions and deaths.                                                  *)
(***************************************************************************)
EXTENDS OptionPaper, FunctionTheorems, FiniteSetTheorems, TLAPS

\* Steps in which an execution holds candidates.
Planned == {"cash", "fill", "log"}

\* No execution plans more than the cap by itself.
PlansWithin ==
    \A p \in Proc : pc[p] \in Planned => Cardinality(job[p].todo) <= PremiumCap

PInv == TypeOK /\ PlansWithin /\ PremiumBound

-----------------------------------------------------------------------------
(***************************************************************************)
(* Types.                                                                  *)
(***************************************************************************)

LEMMA NoJobType == NoJob \in Job /\ Nothing \in [Contract -> Nat]
BY DEF NoJob, Job, Nothing

\* Step is the one way pc and job change.
LEMMA StepType ==
    ASSUME TypeOK, NEW p \in Proc, NEW at \in Pc, NEW after \in Job, Step(p, at, after)
    PROVE  pc' \in [Proc -> Pc] /\ job' \in [Proc -> Job]
BY DEF TypeOK, Step

LEMMA LeaveType ==
    ASSUME TypeOK, NEW p \in Proc, Leave(p)
    PROVE  pc' \in [Proc -> Pc] /\ job' \in [Proc -> Job]
BY NoJobType, StepType DEF Leave, Pc

LEMMA LogType ==
    ASSUME TypeOK, NEW p \in Proc, NEW ok \in BOOLEAN, NEW what \in Contract \cup {"none"},
           NEW act \in {"filled", "completed", "halted", "reconciled"},
           LogRow(p, act, what, ok)
    PROVE  audit' \in Seq(Row)
BY DEF TypeOK, LogRow, Row, Job

LEMMA CountType ==
    ASSUME TypeOK, NEW S \in SUBSET (DOMAIN audit)
    PROVE  Cardinality(S) \in Nat
<1>1. DOMAIN audit = 1..Len(audit) /\ Len(audit) \in Nat
  BY DEF TypeOK
<1>2. IsFiniteSet(DOMAIN audit)
  BY <1>1, FS_Interval
<1>3. QED
  BY <1>2, FS_Subset, FS_CardinalityType

LEMMA StartType ==
    ASSUME TypeOK, NEW p \in Proc, StartProving(p) \/ StartTrader(p)
    PROVE  TypeOK'
<1>1. PICK at \in {"reset", "armed"}, proving \in BOOLEAN, n \in Nat : Start(p, at, proving, n)
  <2>1. CASE StartProving(p)
    BY <2>1, AmountAssumption DEF StartProving
  <2>2. CASE StartTrader(p)
    BY <2>2 DEF StartTrader
  <2>3. QED
    BY <2>1, <2>2
<1>2. [NoJob EXCEPT !.proving = proving, !.run = runs + 1, !.left = n] \in Job
  <2>1. runs + 1 \in Nat /\ NoJob \in Job
    BY NoJobType DEF TypeOK
  <2>2. QED
    BY <2>1 DEF Job
<1>3. pc' \in [Proc -> Pc] /\ job' \in [Proc -> Job]
  BY <1>1, <1>2, StepType DEF Start, Pc
<1>4. {job[q].run : q \in Running} \subseteq Nat /\ runs + 1 \in Nat
  BY DEF TypeOK, Job, Running
<1>5. overlap' \subseteq Nat /\ runs' \in Nat
  BY <1>1, <1>4 DEF Start, TypeOK
<1>6. QED
  BY <1>1, <1>3, <1>5 DEF Start, TypeOK

LEMMA TypeStep == TypeOK /\ [Next]_vars => TypeOK'
<1> SUFFICES ASSUME TypeOK, [Next]_vars PROVE TypeOK'
  OBVIOUS
<1>1. CASE UNCHANGED vars
  BY <1>1 DEF TypeOK, vars
<1>2. CASE ToggleStop
  BY <1>2 DEF ToggleStop, TypeOK
<1>3. ASSUME NEW p \in Proc,
             \/ StartProving(p) \/ StartTrader(p) \/ Reset(p) \/ TraderGo(p)
             \/ Halt(p) \/ Plan(p) \/ ReadCash(p) \/ SkipFill(p) \/ Book(p) \/ LogFill(p)
             \/ CycleOver(p) \/ Complete(p) \/ ReadAudit(p) \/ Compare(p) \/ Record(p)
             \/ Crash(p)
      PROVE  TypeOK'
  <2>0. job[p] \in Job /\ Len(ledger) \in Nat
    BY DEF TypeOK
  <2>1. CASE StartProving(p) \/ StartTrader(p)
    BY <2>1, StartType
  <2>2. CASE Reset(p)
    BY <2>0, <2>2, StepType DEF Reset, TypeOK, Pc
  <2>3. CASE TraderGo(p)
    <3>1. pc' \in [Proc -> Pc] /\ job' \in [Proc -> Job]
      BY <2>0, <2>3, StepType, LeaveType DEF TraderGo, Pc
    <3>2. QED
      BY <2>3, <3>1 DEF TraderGo, TypeOK
  <2>4. CASE Halt(p)
    BY <2>0, <2>4, StepType, LogType DEF Halt, TypeOK, Pc
  <2>5. CASE Plan(p)
    <3>1. PICK plays \in SUBSET Contract :
             Step(p, "cash", [job[p] EXCEPT !.left = @ - 1, !.todo = plays])
      BY <2>5, Zenon DEF Plan
    <3>2. job[p].left - 1 \in Nat
      BY <2>0, <2>5 DEF Plan, Job
    <3>3. [job[p] EXCEPT !.left = @ - 1, !.todo = plays] \in Job
      BY <2>0, <3>2 DEF Job
    <3>4. QED
      BY <2>5, <3>1, <3>3, StepType DEF Plan, TypeOK, Pc
  <2>6. CASE ReadCash(p)
    <3>1. PaperCash \in Int
      BY <2>0, AmountAssumption DEF PaperCash
    <3>2. [job[p] EXCEPT !.cash = PaperCash] \in Job
      BY <2>0, <3>1 DEF Job
    <3>3. QED
      BY <2>6, <3>2, StepType DEF ReadCash, TypeOK, Pc
  <2>7. CASE SkipFill(p)
    <3>1. PICK c \in job[p].todo : Step(p, "fill", [job[p] EXCEPT !.todo = @ \ {c}])
      BY <2>7 DEF SkipFill
    <3>2. [job[p] EXCEPT !.todo = @ \ {c}] \in Job
      BY <2>0 DEF Job
    <3>3. QED
      BY <2>7, <3>1, <3>2, StepType DEF SkipFill, TypeOK, Pc
  <2>8. CASE Book(p)
    <3>1. PICK c \in job[p].todo :
             /\ ledger' = Append(ledger, c)
             /\ Step(p, "log", [job[p] EXCEPT !.todo = @ \ {c}, !.cash = @ - 1, !.fill = c])
      BY <2>8 DEF Book
    <3>2. c \in Contract /\ job[p].cash - 1 \in Int /\ job[p].todo \ {c} \subseteq Contract
      BY <2>0 DEF Job
    <3>3. [job[p] EXCEPT !.todo = @ \ {c}, !.cash = @ - 1, !.fill = c] \in Job
      BY <2>0, <3>2 DEF Job
    <3>4. ledger' \in Seq(Contract)
      BY <3>1, <3>2 DEF TypeOK
    <3>5. QED
      BY <2>8, <3>1, <3>3, <3>4, StepType DEF Book, TypeOK, Pc
  <2>9. CASE LogFill(p)
    <3>1. [job[p] EXCEPT !.fill = "none"] \in Job /\ job[p].fill \in Contract \cup {"none"}
      BY <2>0 DEF Job
    <3>2. QED
      BY <2>9, <3>1, StepType, LogType DEF LogFill, TypeOK, Pc
  <2>10. CASE CycleOver(p)
    <3>1. [job[p] EXCEPT !.cash = 0] \in Job
      BY <2>0 DEF Job
    <3>2. QED
      BY <2>10, <3>1, StepType DEF CycleOver, TypeOK, Pc
  <2>11. CASE Complete(p)
    <3>1. job[p].proving \in BOOLEAN
      BY <2>0 DEF Job
    <3>2. QED
      BY <2>0, <2>11, <3>1, StepType, LogType DEF Complete, TypeOK, Pc
  <2>12. CASE ReadAudit(p)
    <3>1. [c \in Contract |-> Expected(c)] \in [Contract -> Nat]
      BY CountType DEF Expected, Rows
    <3>2. [job[p] EXCEPT !.exp = [c \in Contract |-> Expected(c)]] \in Job
      BY <2>0, <3>1 DEF Job
    <3>3. QED
      BY <2>12, <3>2, StepType DEF ReadAudit, TypeOK, Pc
  <2>13. CASE Compare(p)
    <3> DEFINE same == PaperCash >= 0 /\ \A c \in Contract : Held(c) = job[p].exp[c]
    <3>1. [job[p] EXCEPT !.exp = Nothing, !.clean = same] \in Job
      BY <2>0, NoJobType DEF Job
    <3>2. QED
      BY <2>13, <3>1, StepType DEF Compare, TypeOK, Pc
  <2>14. CASE Record(p)
    <3>1. job[p].clean \in BOOLEAN
      BY <2>0 DEF Job
    <3>2. QED
      BY <2>14, <3>1, LeaveType, LogType DEF Record, TypeOK
  <2>15. CASE Crash(p)
    BY <2>15, LeaveType DEF Crash, TypeOK
  <2>16. QED
    BY <1>3, <2>1, <2>2, <2>3, <2>4, <2>5, <2>6, <2>7, <2>8, <2>9, <2>10, <2>11,
       <2>12, <2>13, <2>14, <2>15
<1>4. QED
  BY <1>1, <1>2, <1>3 DEF Next

LEMMA TypeInit == Init => TypeOK
<1> SUFFICES ASSUME Init PROVE TypeOK
  OBVIOUS
<1>1. pc \in [Proc -> Pc] /\ job \in [Proc -> Job]
  BY NoJobType DEF Init, Pc
<1>2. ledger \in Seq(Contract) /\ audit \in Seq(Row)
  BY DEF Init
<1>3. QED
  BY <1>1, <1>2 DEF Init, TypeOK

\* Variables keep their types, for every set of contracts and processes.
THEOREM TypeCorrect == Spec => []TypeOK
BY TypeInit, TypeStep, PTL DEF Spec

-----------------------------------------------------------------------------
(***************************************************************************)
(* The premium bound.                                                      *)
(***************************************************************************)

\* A set of pairs has no more elements than there are first components times
\* the most any of them is paired with.
LEMMA Counting ==
    ASSUME NEW P, IsFiniteSet(P), NEW C, IsFiniteSet(C), NEW m \in Nat,
           NEW S \in [P -> SUBSET C], \A p \in P : Cardinality(S[p]) <= m
    PROVE  LET X == {x \in P \X C : x[2] \in S[x[1]]}
           IN  IsFiniteSet(X) /\ Cardinality(X) <= Cardinality(P) * m
<1> DEFINE X == {x \in P \X C : x[2] \in S[x[1]]}
           g == [p \in P |-> CHOOSE h : h \in Injection(S[p], 1..m)]
           f == [x \in X |-> <<x[1], g[x[1]][x[2]]>>]
<1>1. ASSUME NEW p \in P
      PROVE  g[p] \in Injection(S[p], 1..m)
  <2>1. IsFiniteSet(S[p])
    BY FS_Subset
  <2> DEFINE n == Cardinality(S[p])
  <2>2. n \in Nat /\ n <= m /\ ExistsBijection(1..n, S[p])
    BY <2>1, FS_CardinalityType
  <2> HIDE DEF n
  <2>3. PICK h : h \in Bijection(S[p], 1..n)
    BY <2>2, Fun_ExistsBijSymmetric, Fun_ExistsBij
  <2>4. h \in [S[p] -> 1..n] /\ \A a, b \in S[p] : h[a] = h[b] => a = b
    BY <2>3 DEF Bijection, Injection, IsInjective
  <2>5. h \in [S[p] -> 1..m]
    BY <2>2, <2>4
  <2>6. h \in Injection(S[p], 1..m)
    BY <2>4, <2>5, Fun_IsInj
  <2>7. QED
    BY <2>6
<1>2. \A x \in X : x[1] \in P /\ x[2] \in S[x[1]] /\ x = <<x[1], x[2]>>
  OBVIOUS
<1>3. \A p \in P : g[p] \in [S[p] -> 1..m] /\ \A a, b \in S[p] : g[p][a] = g[p][b] => a = b
  BY <1>1, Fun_InjectionProperties
<1> HIDE DEF X, g
<1>4. f \in [X -> P \X (1..m)]
  BY <1>2, <1>3
<1>5. \A a, b \in X : f[a] = f[b] => a = b
  BY <1>2, <1>3
<1>6. f \in Injection(X, P \X (1..m))
  BY <1>4, <1>5, Fun_IsInj
<1>7. IsFiniteSet(1..m) /\ Cardinality(1..m) = m
  BY FS_Interval
<1>8. IsFiniteSet(P \X (1..m)) /\ Cardinality(P \X (1..m)) = Cardinality(P) * m
  BY <1>7, FS_Product
<1>9. IsFiniteSet(X) /\ Cardinality(X) <= Cardinality(P) * m
  BY <1>6, <1>8, FS_Injection
<1>10. QED
  BY <1>9 DEF X

LEMMA PendingFinite ==
    ASSUME TypeOK
    PROVE  IsFiniteSet(Pending) /\ Cardinality(Pending) \in Nat
<1>1. IsFiniteSet(Proc \X Contract)
  BY SetAssumption, FS_Product
<1>2. QED
  BY <1>1, FS_Subset, FS_CardinalityType DEF Pending

\* An execution that takes up no new candidates.
LEMMA Shrinking ==
    ASSUME TypeOK, PlansWithin, NEW p \in Proc, NEW at \in Pc, NEW after \in Job,
           Step(p, at, after),
           at \in Planned => pc[p] \in Planned /\ after.todo \subseteq job[p].todo
    PROVE  PlansWithin' /\ Pending' \subseteq Pending
<1>1. job[p] \in Job /\ job[p].todo \subseteq Contract /\ IsFiniteSet(job[p].todo)
  BY SetAssumption, FS_Subset DEF TypeOK, Job
<1>2. \A q \in Proc : q # p => pc'[q] = pc[q] /\ job'[q] = job[q]
  BY DEF Step, TypeOK
<1>3. pc'[p] = at /\ job'[p] = after
  BY DEF Step, TypeOK
<1>4. at \in Planned => Cardinality(after.todo) <= PremiumCap
  <2>1. SUFFICES ASSUME at \in Planned PROVE Cardinality(after.todo) <= PremiumCap
    OBVIOUS
  <2>2. Cardinality(job[p].todo) <= PremiumCap
    BY <2>1 DEF PlansWithin
  <2>3. Cardinality(after.todo) <= Cardinality(job[p].todo)
    BY <1>1, <2>1, FS_Subset
  <2>4. Cardinality(after.todo) \in Nat /\ Cardinality(job[p].todo) \in Nat
    BY <1>1, <2>1, FS_Subset, FS_CardinalityType
  <2>5. QED
    BY <2>2, <2>3, <2>4, AmountAssumption
<1>5. PlansWithin'
  BY <1>2, <1>3, <1>4 DEF PlansWithin
<1>6. Pending' \subseteq Pending
  BY <1>2, <1>3 DEF Pending, Planned
<1>7. QED
  BY <1>5, <1>6

\* The common case: nothing new is taken up and the ledger does not grow.
LEMMA Quiet ==
    ASSUME TypeOK, PlansWithin, PremiumBound, NEW p \in Proc, NEW at \in Pc, NEW after \in Job,
           Step(p, at, after),
           at \in Planned => pc[p] \in Planned /\ after.todo \subseteq job[p].todo,
           ledger' = ledger
    PROVE  PlansWithin' /\ PremiumBound'
<1>1. PlansWithin' /\ Pending' \subseteq Pending
  BY Shrinking
<1>2. Cardinality(Pending') <= Cardinality(Pending) /\ Cardinality(Pending') \in Nat
  BY <1>1, PendingFinite, FS_Subset, FS_CardinalityType
<1>3. Len(ledger) \in Nat /\ PremiumCap * Cardinality(Proc) \in Nat /\ Cardinality(Pending) \in Nat
  BY SetAssumption, AmountAssumption, FS_CardinalityType, PendingFinite DEF TypeOK
<1>4. QED
  BY <1>1, <1>2, <1>3 DEF PremiumBound

\* Candidates of the other executions.
Others(p) == {x \in Pending : x[1] # p}

LEMMA OthersBound ==
    ASSUME TypeOK, PlansWithin, NEW p \in Proc
    PROVE  /\ IsFiniteSet(Others(p))
           /\ Cardinality(Others(p)) <= (Cardinality(Proc) - 1) * PremiumCap
<1> DEFINE P == Proc \ {p}
           S == [q \in P |-> IF pc[q] \in Planned THEN job[q].todo ELSE {}]
           X == {x \in P \X Contract : x[2] \in S[x[1]]}
<1>1. IsFiniteSet(P) /\ Cardinality(P) = Cardinality(Proc) - 1
  BY SetAssumption, FS_RemoveElement
<1>2. S \in [P -> SUBSET Contract]
  BY DEF TypeOK, Job
<1>3. PremiumCap \in Nat
  BY AmountAssumption
<1>4. \A q \in P : Cardinality(S[q]) <= PremiumCap
  BY <1>3, FS_EmptySet DEF PlansWithin
<1>5. Others(p) = X
  BY DEF Others, Pending, Planned
<1> HIDE DEF P, S
<1>6. IsFiniteSet(X) /\ Cardinality(X) <= Cardinality(P) * PremiumCap
  BY <1>1, <1>2, <1>3, <1>4, SetAssumption, Counting
<1>7. QED
  BY <1>1, <1>5, <1>6

\* A cycle is planned: by itself it fits under the cap.
LEMMA PlanStep ==
    ASSUME TypeOK, PlansWithin, PremiumBound, NEW p \in Proc, Plan(p)
    PROVE  PlansWithin' /\ PremiumBound'
<1> DEFINE N == Cardinality(Proc)
<1>1. PICK plays \in SUBSET Contract :
         /\ plays = {} \/ Len(ledger) + Cardinality(plays) <= PremiumCap
         /\ Step(p, "cash", [job[p] EXCEPT !.left = @ - 1, !.todo = plays])
  BY Zenon DEF Plan, OpenPremium
<1>2. /\ ledger' = ledger /\ pc[p] = "top"
      /\ \A q \in Proc : q # p => pc'[q] = pc[q] /\ job'[q] = job[q]
      /\ pc'[p] = "cash" /\ job'[p].todo = plays
  <2>1. job[p] \in Job
    BY DEF TypeOK
  <2>2. [job[p] EXCEPT !.left = @ - 1, !.todo = plays].todo = plays
    BY <2>1 DEF Job
  <2>3. QED
    BY <1>1, <2>2 DEF Plan, Step, TypeOK
<1>3. IsFiniteSet(plays) /\ Cardinality(plays) \in Nat
  BY SetAssumption, FS_Subset, FS_CardinalityType
<1>4. /\ Len(ledger) \in Nat /\ PremiumCap \in Nat /\ N \in Nat
      /\ Cardinality(Pending) \in Nat /\ Cardinality({}) = 0
  BY SetAssumption, AmountAssumption, FS_CardinalityType, PendingFinite, FS_EmptySet DEF TypeOK
<1>5. Cardinality(plays) <= PremiumCap
  <2>1. CASE plays = {}
    BY <1>4, <2>1
  <2>2. CASE Len(ledger) + Cardinality(plays) <= PremiumCap
    BY <1>3, <1>4, <2>2
  <2>3. QED
    BY <1>1, <2>1, <2>2
<1>6. PlansWithin'
  BY <1>2, <1>5 DEF PlansWithin
<1>7. Pending' = Others(p) \cup ({p} \X plays)
  <2>1. ASSUME NEW x \in Proc \X Contract
        PROVE  x \in Pending' <=> x \in Others(p) \cup ({p} \X plays)
    BY <1>2 DEF Pending, Others
  <2>2. Pending' \subseteq Proc \X Contract
    BY DEF Pending
  <2>3. Others(p) \cup ({p} \X plays) \subseteq Proc \X Contract
    BY DEF Others, Pending
  <2>4. QED
    BY <2>1, <2>2, <2>3
<1>8. IsFiniteSet({p} \X plays) /\ Cardinality({p} \X plays) = Cardinality(plays)
  <2>1. IsFiniteSet({p}) /\ Cardinality({p}) = 1
    BY FS_Singleton
  <2>2. QED
    BY <1>3, <2>1, FS_Product
<1>9. IsFiniteSet(Others(p)) /\ Cardinality(Others(p)) \in Nat
  BY OthersBound, FS_CardinalityType
<1>10. Cardinality(Pending') <= Cardinality(Others(p)) + Cardinality(plays)
  <2>1. Cardinality(Others(p) \cap ({p} \X plays)) \in Nat
    BY <1>9, FS_Intersection, FS_CardinalityType
  <2>2. Cardinality(Pending')
           = Cardinality(Others(p)) + Cardinality(plays) - Cardinality(Others(p) \cap ({p} \X plays))
    BY <1>7, <1>8, <1>9, FS_Union
  <2>3. QED
    BY <1>3, <1>9, <2>1, <2>2
<1>11. IsFiniteSet(Pending') /\ Cardinality(Pending') \in Nat
  BY <1>7, <1>8, <1>9, FS_Union, FS_CardinalityType
<1>12. CASE plays = {}
  <2>1. Pending' \subseteq Pending
    BY <1>7, <1>12 DEF Others
  <2>2. Cardinality(Pending') <= Cardinality(Pending)
    BY <2>1, PendingFinite, FS_Subset
  <2>3. PremiumCap * N \in Nat
    BY <1>4
  <2>4. QED
    BY <1>2, <1>4, <1>6, <1>11, <2>2, <2>3 DEF PremiumBound
<1>13. CASE Len(ledger) + Cardinality(plays) <= PremiumCap
  <2>1. (N - 1) * PremiumCap + PremiumCap = PremiumCap * N
    BY <1>4
  <2>2. (N - 1) * PremiumCap \in Int /\ PremiumCap * N \in Int
    BY <1>4
  <2>3. Cardinality(Others(p)) <= (N - 1) * PremiumCap
    BY OthersBound
  <2> HIDE DEF N
  <2>4. Len(ledger) + Cardinality(Pending') <= PremiumCap * N
    BY <1>3, <1>4, <1>9, <1>10, <1>11, <1>13, <2>1, <2>2, <2>3
  <2>5. QED
    BY <1>2, <1>6, <2>4 DEF PremiumBound, N
<1>14. QED
  BY <1>1, <1>12, <1>13

\* A booked candidate moves from the pending ones into the ledger.
LEMMA BookStep ==
    ASSUME TypeOK, PlansWithin, PremiumBound, NEW p \in Proc, Book(p)
    PROVE  PlansWithin' /\ PremiumBound'
<1>1. PICK c \in job[p].todo :
         /\ ledger' = Append(ledger, c)
         /\ Step(p, "log", [job[p] EXCEPT !.todo = @ \ {c}, !.cash = @ - 1, !.fill = c])
  BY DEF Book
<1> DEFINE after == [job[p] EXCEPT !.todo = @ \ {c}, !.cash = @ - 1, !.fill = c]
<1>2. c \in Contract /\ job[p].cash - 1 \in Int /\ job[p].todo \ {c} \subseteq Contract
  BY DEF TypeOK, Job
<1>3. after \in Job /\ after.todo = job[p].todo \ {c}
  BY <1>2 DEF TypeOK, Job
<1>4. pc[p] = "fill"
  BY DEF Book
<1> HIDE DEF after
<1>5. PlansWithin' /\ Pending' \subseteq Pending
  BY <1>1, <1>3, <1>4, Shrinking DEF Planned, Pc, after
<1>6. pc'[p] = "log" /\ job'[p] = after
  BY <1>1 DEF Step, TypeOK, after
<1>7. <<p, c>> \in Pending /\ <<p, c>> \notin Pending'
  BY <1>2, <1>3, <1>4, <1>6 DEF Pending
<1>8. Cardinality(Pending \ {<<p, c>>}) = Cardinality(Pending) - 1 /\ IsFiniteSet(Pending \ {<<p, c>>})
  BY <1>7, PendingFinite, FS_RemoveElement
<1>9. Cardinality(Pending') <= Cardinality(Pending) - 1 /\ Cardinality(Pending') \in Nat
  <2>1. Pending' \in SUBSET (Pending \ {<<p, c>>})
    BY <1>5, <1>7
  <2>2. QED
    BY <1>8, <2>1, FS_Subset, FS_CardinalityType
<1>10. Len(ledger') = Len(ledger) + 1 /\ Len(ledger) \in Nat
  BY <1>1, <1>2 DEF TypeOK
<1>11. PremiumCap * Cardinality(Proc) \in Nat /\ Cardinality(Pending) \in Nat
  BY SetAssumption, AmountAssumption, FS_CardinalityType, PendingFinite
<1>12. QED
  BY <1>5, <1>9, <1>10, <1>11 DEF PremiumBound

\* A reset empties the ledger and takes nothing up.
LEMMA ResetStep ==
    ASSUME TypeOK, PlansWithin, PremiumBound, NEW p \in Proc, Reset(p)
    PROVE  PlansWithin' /\ PremiumBound'
<1>1. PlansWithin' /\ Pending' \subseteq Pending
  <2>1. job[p] \in Job /\ Step(p, "top", job[p])
    BY DEF TypeOK, Reset
  <2>2. QED
    BY <2>1, Shrinking DEF Planned, Pc
<1>2. Cardinality(Pending') <= Cardinality(Pending) /\ Cardinality(Pending') \in Nat
  BY <1>1, PendingFinite, FS_Subset, FS_CardinalityType
<1>3. Len(ledger) \in Nat /\ Len(ledger') = 0
  BY DEF TypeOK, Reset
<1>4. PremiumCap * Cardinality(Proc) \in Nat /\ Cardinality(Pending) \in Nat
  BY SetAssumption, AmountAssumption, FS_CardinalityType, PendingFinite
<1>5. QED
  BY <1>1, <1>2, <1>3, <1>4 DEF PremiumBound

LEMMA LeaveStep ==
    ASSUME TypeOK, PlansWithin, PremiumBound, NEW p \in Proc, Leave(p), ledger' = ledger
    PROVE  PlansWithin' /\ PremiumBound'
BY NoJobType, Quiet DEF Leave, Planned, Pc

LEMMA PremiumStep == PInv /\ [Next]_vars => PInv'
<1> SUFFICES ASSUME TypeOK, PlansWithin, PremiumBound, TypeOK', [Next]_vars
             PROVE  PlansWithin' /\ PremiumBound'
  BY TypeStep DEF PInv
<1>1. CASE pc' = pc /\ job' = job /\ ledger' = ledger
  BY <1>1 DEF PlansWithin, PremiumBound, Pending
<1>2. ASSUME NEW p \in Proc,
             \/ StartProving(p) \/ StartTrader(p) \/ Reset(p) \/ TraderGo(p)
             \/ Halt(p) \/ Plan(p) \/ ReadCash(p) \/ SkipFill(p) \/ Book(p) \/ LogFill(p)
             \/ CycleOver(p) \/ Complete(p) \/ ReadAudit(p) \/ Compare(p) \/ Record(p)
             \/ Crash(p)
      PROVE  PlansWithin' /\ PremiumBound'
  <2>0. /\ job[p] \in Job /\ pc'[p] \in Pc /\ job'[p] \in Job
        /\ pc \in [Proc -> Pc] /\ job \in [Proc -> Job]
    BY DEF TypeOK
  \* Every step but four leaves the ledger alone and keeps or drops its candidates.
  <2>1. ASSUME NEW at \in Pc, NEW after, Step(p, at, after), ledger' = ledger,
               at \in Planned => pc[p] \in Planned /\ after.todo \subseteq job[p].todo
        PROVE  PlansWithin' /\ PremiumBound'
    <3>1. after \in Job
      BY <2>0, <2>1 DEF Step
    <3>2. QED
      BY <2>1, <3>1, Quiet
  <2>2. CASE StartProving(p) \/ StartTrader(p)
    <3>1. PICK at, after : at \in {"reset", "armed"} /\ Step(p, at, after) /\ ledger' = ledger
      <4>1. CASE StartProving(p)
        BY <4>1 DEF StartProving, Start
      <4>2. CASE StartTrader(p)
        BY <4>2 DEF StartTrader, Start
      <4>3. QED
        BY <2>2, <4>1, <4>2
    <3>2. QED
      BY <2>1, <3>1 DEF Planned, Pc
  <2>3. CASE Reset(p)
    BY <2>3, ResetStep
  <2>4. CASE Plan(p)
    BY <2>4, PlanStep
  <2>5. CASE Book(p)
    BY <2>5, BookStep
  <2>6. CASE TraderGo(p)
    <3>1. ledger' = ledger /\ (Leave(p) \/ Step(p, "top", job[p]))
      BY <2>6 DEF TraderGo
    <3>2. QED
      BY <2>1, <3>1, LeaveStep DEF Planned, Pc
  <2>7. CASE Halt(p) \/ Complete(p)
    <3>1. ledger' = ledger /\ Step(p, "expect", job[p])
      BY <2>7 DEF Halt, Complete
    <3>2. QED
      BY <2>1, <3>1 DEF Planned, Pc
  <2>8. CASE ReadCash(p)
    <3>1. ledger' = ledger /\ pc[p] = "cash" /\ Step(p, "fill", [job[p] EXCEPT !.cash = PaperCash])
      BY <2>8 DEF ReadCash
    <3>2. [job[p] EXCEPT !.cash = PaperCash].todo = job[p].todo
      BY <2>0 DEF Job
    <3>3. QED
      BY <2>1, <3>1, <3>2 DEF Planned, Pc
  <2>9. CASE SkipFill(p)
    <3>1. PICK c : ledger' = ledger /\ pc[p] = "fill" /\ Step(p, "fill", [job[p] EXCEPT !.todo = @ \ {c}])
      BY <2>9 DEF SkipFill
    <3>2. [job[p] EXCEPT !.todo = @ \ {c}].todo \subseteq job[p].todo
      BY <2>0 DEF Job
    <3>3. QED
      BY <2>1, <3>1, <3>2 DEF Planned, Pc
  <2>10. CASE LogFill(p)
    <3>1. ledger' = ledger /\ pc[p] = "log" /\ Step(p, "fill", [job[p] EXCEPT !.fill = "none"])
      BY <2>10 DEF LogFill
    <3>2. [job[p] EXCEPT !.fill = "none"].todo = job[p].todo
      BY <2>0 DEF Job
    <3>3. QED
      BY <2>1, <3>1, <3>2 DEF Planned, Pc
  <2>11. CASE CycleOver(p)
    <3>1. PICK after : ledger' = ledger /\ Step(p, "top", after)
      BY <2>11 DEF CycleOver
    <3>2. QED
      BY <2>1, <3>1 DEF Planned, Pc
  <2>12. CASE ReadAudit(p)
    <3>1. PICK after : ledger' = ledger /\ Step(p, "compare", after)
      BY <2>12 DEF ReadAudit
    <3>2. QED
      BY <2>1, <3>1 DEF Planned, Pc
  <2>13. CASE Compare(p)
    <3>1. PICK after : ledger' = ledger /\ Step(p, "record", after)
      BY <2>13 DEF Compare
    <3>2. QED
      BY <2>1, <3>1 DEF Planned, Pc
  <2>14. CASE Record(p) \/ Crash(p)
    BY <2>14, LeaveStep DEF Record, Crash
  <2>15. QED
    BY <1>2, <2>2, <2>3, <2>4, <2>5, <2>6, <2>7, <2>8, <2>9, <2>10, <2>11, <2>12, <2>13, <2>14
<1>3. QED
  BY <1>1, <1>2 DEF Next, ToggleStop, vars

LEMMA PremiumInit == Init => PInv
<1> SUFFICES ASSUME Init PROVE PlansWithin /\ PremiumBound
  BY TypeInit DEF PInv
<1>1. PlansWithin
  BY DEF Init, PlansWithin, Planned
<1>2. Pending = {} /\ Len(ledger) = 0
  BY DEF Init, Pending
<1>3. PremiumCap * Cardinality(Proc) \in Nat
  BY SetAssumption, AmountAssumption, FS_CardinalityType
<1>4. QED
  BY <1>1, <1>2, <1>3, FS_EmptySet DEF PremiumBound

\* The premium at risk exceeds its cap by no more than the cap once for each
\* further process, for any number of processes, cycles and deaths.
THEOREM PremiumHolds == Spec => []PremiumBound
<1>1. PInv => PremiumBound
  BY DEF PInv
<1>2. QED
  BY <1>1, PremiumInit, PremiumStep, PTL DEF Spec

-----------------------------------------------------------------------------
(***************************************************************************)
(* The two stores and their reconciliation.                                *)
(***************************************************************************)

\* The latest reconcile row.
LastClosed == Latest(Rows("reconciled"))

\* Fills of a contract that the audit log expects, and those an execution wrote.
Open(c)   == {k \in Rows("filled") : audit[k].what = c /\ k > LastClosed}
Own(p, c) == {k \in Rows("filled") : audit[k].what = c /\ audit[k].by = job[p].run}

\* Booked and not logged yet.
Booking(c) == {p \in Proc : pc[p] = "log" /\ job[p].fill = c}

\* Numbers of executions are given once.
Numbered ==
    /\ \A p \in Proc : job[p].run <= runs
    /\ \A k \in DOMAIN audit : audit[k].by <= runs

\* Executions that are active together are marked as such.
Sole == \A p, q \in Proc : pc[p] # "idle" /\ pc[q] # "idle" /\ p # q => job[p].run \in overlap

\* The CHOOSE of Latest finds the latest row.
Ordered ==
    /\ LastClosed \in Rows("reconciled") \cup {0}
    /\ \A k \in Rows("reconciled") : k <= LastClosed
    /\ Latest(Boundaries) \in Boundaries \cup {0}
    /\ \A k \in Boundaries : k <= Latest(Boundaries)

Alone(p) == pc[p] # "idle" /\ job[p].run \notin overlap

\* What an execution that is alone can rely on: all it wrote is still open; past
\* the reset of a proving run the ledger holds its own fills and no more than the
\* cash; and what it read of the two stores is what they still say.
Undisturbed(p) ==
    /\ \A k \in DOMAIN audit : audit[k].by = job[p].run => k > LastClosed /\ pc[p] # "reset"
    /\ \A k \in Rows("completed") : audit[k].by = job[p].run /\ audit[k].ok => job[p].proving
    /\ job[p].proving /\ pc[p] # "reset" =>
          /\ \A c \in Contract :
                Held(c) = Cardinality(Own(p, c))
                          + (IF pc[p] = "log" /\ job[p].fill = c THEN 1 ELSE 0)
          /\ PaperCash >= 0
          /\ pc[p] \in {"fill", "log"} => job[p].cash = PaperCash
    /\ pc[p] = "compare" => \A c \in Contract : job[p].exp[c] = Expected(c)
    /\ pc[p] = "record" =>
          (job[p].clean <=> PaperCash >= 0 /\ \A c \in Contract : Held(c) = Expected(c))

\* The ledger is short of what the audit log expects of a contract, and nothing
\* that is still to be logged makes up for it.
Short(c) == Expected(c) > 0 /\ Held(c) < Expected(c) + Cardinality(Booking(c))

\* A run that completed on the fills of others alone.
Borrowed(i) ==
    /\ i \in Rows("completed") /\ audit[i].ok /\ audit[i].by \notin overlap
    /\ FillsOf(audit[i].by) = {} /\ WindowFills(i) # {}

\* A fill is of a contract.
Named ==
    /\ \A p \in Proc : pc[p] = "log" => job[p].fill \in Contract
    /\ \A k \in Rows("filled") : audit[k].what \in Contract

\* Until the next reconcile row the ledger is short of those.
StaysShort ==
    unlogged = 0 =>
        \A i \in DOMAIN audit :
            Borrowed(i) /\ (\A k \in Rows("reconciled") : k < i)
            => \E c \in Contract : Short(c)

RInv ==
    /\ TypeOK /\ Numbered /\ Sole /\ Ordered /\ Named
    /\ \A p \in Proc : Alone(p) => Undisturbed(p)
    /\ StaysShort /\ CleanIsEarned /\ AlarmIsExplained

-----------------------------------------------------------------------------
\* Latest finds the greatest.
LEMMA LatestIs ==
    ASSUME NEW S \in SUBSET Nat, NEW m \in S, \A k \in S : k <= m
    PROVE  Latest(S) = m
<1>1. \E k \in S : \A i \in S : i <= k
  OBVIOUS
<1>2. S # {} /\ \A k \in S : (\A i \in S : i <= k) => k = m
  OBVIOUS
<1>3. QED
  BY <1>1, <1>2 DEF Latest

\* What a new row changes.
LEMMA NewRow ==
    ASSUME audit \in Seq(Row), NEW r \in Row, audit' = Append(audit, r)
    PROVE  LET n == Len(audit) + 1
           IN  /\ n \in Nat \ {0}
               /\ \A k \in DOMAIN audit : k \in Nat /\ k < n /\ audit'[k] = audit[k]
               /\ DOMAIN audit' = DOMAIN audit \cup {n} /\ audit'[n] = r
               /\ \A act : Rows(act)' = Rows(act) \cup (IF r.act = act THEN {n} ELSE {})
<1> DEFINE n == Len(audit) + 1
<1>1. /\ n \in Nat \ {0}
      /\ \A k \in DOMAIN audit : k \in Nat /\ k < n /\ audit'[k] = audit[k]
      /\ DOMAIN audit' = DOMAIN audit \cup {n} /\ audit'[n] = r
  OBVIOUS
<1> HIDE DEF n
<1>2. ASSUME NEW act
      PROVE  Rows(act)' = Rows(act) \cup (IF r.act = act THEN {n} ELSE {})
  BY <1>1 DEF Rows
<1>3. QED
  BY <1>1, <1>2 DEF n

\* What lies before a row stays as it was.
LEMMA Before ==
    ASSUME audit \in Seq(Row), NEW r \in Row, audit' = Append(audit, r) \/ audit' = audit
    PROVE  /\ \A i \in DOMAIN audit :
                 /\ i \in DOMAIN audit' /\ audit'[i] = audit[i] /\ i \in Nat \ {0}
                 /\ WindowFills(i)' = WindowFills(i)
                 /\ {k \in Rows("reconciled")' : k < i} = {k \in Rows("reconciled") : k < i}
           /\ \A x : FillsOf(x) \subseteq FillsOf(x)'
           /\ \A act : Rows(act) \subseteq Rows(act)'
<1>1. CASE audit' = audit
  BY <1>1 DEF WindowFills, Boundaries, Rows, FillsOf
<1>2. CASE audit' = Append(audit, r)
  <2> DEFINE n == Len(audit) + 1
  <2>1. /\ n \in Nat \ {0}
        /\ \A k \in DOMAIN audit : k \in Nat \ {0} /\ k < n /\ audit'[k] = audit[k]
        /\ DOMAIN audit' = DOMAIN audit \cup {n}
        /\ \A act : Rows(act)' = Rows(act) \cup (IF r.act = act THEN {n} ELSE {})
    BY <1>2, NewRow
  <2>2. \A act : Rows(act) \subseteq DOMAIN audit
    BY DEF Rows
  <2> HIDE DEF n
  <2>3. ASSUME NEW i \in DOMAIN audit, NEW act
        PROVE  {k \in Rows(act)' : k < i} = {k \in Rows(act) : k < i}
    BY <2>1, <2>2
  <2>4. ASSUME NEW i \in DOMAIN audit
        PROVE  WindowFills(i)' = WindowFills(i)
    <3>1. {b \in Boundaries : b < i}' = {b \in Boundaries : b < i}
      BY <2>3 DEF Boundaries
    <3>2. {k \in Rows("filled")' : k < i} = {k \in Rows("filled") : k < i}
      BY <2>3
    <3>3. Latest({b \in Boundaries : b < i})' = Latest({b \in Boundaries : b < i})
      BY <3>1
    <3>4. QED
      BY <3>2, <3>3 DEF WindowFills
  <2>5. \A x : FillsOf(x) \subseteq FillsOf(x)'
    BY <2>1, <2>2 DEF FillsOf
  <2>6. QED
    BY <2>1, <2>3, <2>4, <2>5
<1>3. QED
  BY <1>1, <1>2

\* Rows are only added, so Latest goes on finding the latest.
LEMMA OrderedStep ==
    ASSUME audit \in Seq(Row), Ordered, NEW r \in Row, audit' = Append(audit, r) \/ audit' = audit
    PROVE  /\ Ordered'
           /\ LastClosed' = IF audit' # audit /\ r.act = "reconciled" THEN Len(audit) + 1 ELSE LastClosed
<1>1. CASE audit' = audit
  <2>1. \A act : Rows(act)' = Rows(act)
    BY <1>1 DEF Rows
  <2>2. Boundaries' = Boundaries
    BY <2>1 DEF Boundaries
  <2>3. LastClosed' = LastClosed
    BY <2>1 DEF LastClosed
  <2>4. QED
    BY <1>1, <2>1, <2>2, <2>3 DEF Ordered
<1>2. CASE audit' = Append(audit, r)
  <2> DEFINE n == Len(audit) + 1
  <2>1. /\ n \in Nat \ {0}
        /\ \A k \in DOMAIN audit : k \in Nat /\ k < n
        /\ \A act : Rows(act)' = Rows(act) \cup (IF r.act = act THEN {n} ELSE {})
        /\ DOMAIN audit' # DOMAIN audit
    BY <1>2, NewRow
  <2>2. \A act : Rows(act) \subseteq DOMAIN audit
    BY DEF Rows
  <2>3. Boundaries \subseteq DOMAIN audit
    BY DEF Boundaries, Rows
  <2>3a. \A k \in Boundaries : k \in Nat /\ k < n
    BY <2>1, <2>3
  <2> HIDE DEF n
  <2>4. CASE r.act = "reconciled"
    <3>1. Rows("reconciled")' = Rows("reconciled") \cup {n}
      BY <2>1, <2>4
    <3>2. LastClosed' = n
      BY <2>1, <2>2, <3>1, LatestIs DEF LastClosed
    <3>3. Boundaries' = Boundaries \cup {n}
      BY <2>1, <2>4 DEF Boundaries
    <3>4. Latest(Boundaries)' = n
      BY <2>1, <2>3, <3>3, LatestIs
    <3>5. LastClosed' \in Rows("reconciled")' /\ \A k \in Rows("reconciled")' : k <= LastClosed'
      BY <2>1, <2>2, <3>1, <3>2
    <3>6. Latest(Boundaries)' \in Boundaries' /\ \A k \in Boundaries' : k <= Latest(Boundaries)'
      BY ONLY <2>1, <2>3a, <3>3, <3>4
    <3>7. LastClosed' = IF audit' # audit /\ r.act = "reconciled" THEN n ELSE LastClosed
      BY <2>1, <2>4, <3>2
    <3>8. QED
      BY <3>5, <3>6, <3>7 DEF Ordered, n
  <2>5. CASE r.act # "reconciled"
    <3>1. Rows("reconciled")' = Rows("reconciled")
      BY <2>1, <2>5
    <3>2. LastClosed' = LastClosed
      BY <3>1 DEF LastClosed
    <3>3. CASE r.act = "filled"
      <4>1. Boundaries' = Boundaries
        BY <2>1, <3>3 DEF Boundaries
      <4>2. QED
        BY <2>5, <3>1, <3>2, <4>1 DEF Ordered
    <3>4. CASE r.act \in {"completed", "halted"}
      <4>1. Boundaries' = Boundaries \cup {n}
        BY <2>1, <3>4 DEF Boundaries
      <4>2. Latest(Boundaries)' = n
        BY <2>1, <2>3, <4>1, LatestIs
      <4>3. Latest(Boundaries)' \in Boundaries' /\ \A k \in Boundaries' : k <= Latest(Boundaries)'
        BY ONLY <2>1, <2>3a, <4>1, <4>2
      <4>4. QED
        BY <2>5, <3>1, <3>2, <4>3 DEF Ordered
    <3>5. QED
      BY <2>5, <3>3, <3>4 DEF Row
  <2>6. QED
    BY <2>4, <2>5
<1>3. QED
  BY <1>1, <1>2

-----------------------------------------------------------------------------
\* What is counted is finite.
LEMMA Counts ==
    ASSUME TypeOK, NEW c
    PROVE  /\ IsFiniteSet(Open(c)) /\ IsFiniteSet(Booking(c))
           /\ Expected(c) = Cardinality(Open(c))
           /\ Expected(c) \in Nat /\ Held(c) \in Nat /\ Cardinality(Booking(c)) \in Nat
           /\ \A p : IsFiniteSet(Own(p, c)) /\ Cardinality(Own(p, c)) \in Nat
           /\ \A p : Own(p, c) \subseteq DOMAIN audit
           /\ Open(c) \subseteq DOMAIN audit
<1>1. /\ DOMAIN audit = 1..Len(audit) /\ Len(audit) \in Nat
      /\ DOMAIN ledger = 1..Len(ledger) /\ Len(ledger) \in Nat
  BY DEF TypeOK
<1>2. IsFiniteSet(DOMAIN audit) /\ IsFiniteSet(DOMAIN ledger)
  BY <1>1, FS_Interval
<1>3. /\ Open(c) \subseteq DOMAIN audit
      /\ \A p : Own(p, c) \subseteq DOMAIN audit
      /\ {k \in DOMAIN ledger : ledger[k] = c} \subseteq DOMAIN ledger
      /\ Booking(c) \subseteq Proc
  BY DEF Open, Own, Booking, Rows
<1>4. /\ IsFiniteSet(Open(c)) /\ IsFiniteSet(Booking(c))
      /\ \A p : IsFiniteSet(Own(p, c))
      /\ IsFiniteSet({k \in DOMAIN ledger : ledger[k] = c})
  BY <1>2, <1>3, SetAssumption, FS_Subset
<1>5. Expected(c) = Cardinality(Open(c))
  BY DEF Expected, Open, LastClosed
<1>6. QED
  BY <1>3, <1>4, <1>5, FS_CardinalityType DEF Held

LEMMA OneMoreIf ==
    ASSUME NEW S, IsFiniteSet(S), NEW T, NEW x, x \notin S, NEW P,
           T = IF P THEN S \cup {x} ELSE S
    PROVE  Cardinality(T) = Cardinality(S) + (IF P THEN 1 ELSE 0)
<1>1. Cardinality(S) \in Nat
  BY FS_CardinalityType
<1>2. Cardinality(S \cup {x}) = Cardinality(S) + 1
  BY FS_AddElement
<1>3. CASE P
  BY <1>2, <1>3
<1>4. CASE ~P
  BY <1>1, <1>4
<1>5. QED
  BY <1>3, <1>4

\* A fill that is logged is expected from now on, and is its execution's own.
LEMMA Logged ==
    ASSUME TypeOK, Ordered, NEW r \in Row, audit' = Append(audit, r), r.act = "filled",
           NEW c, NEW p, job'[p].run = job[p].run
    PROVE  /\ Expected(c)' = Expected(c) + (IF r.what = c THEN 1 ELSE 0)
           /\ Cardinality(Own(p, c))'
                 = Cardinality(Own(p, c)) + (IF r.what = c /\ r.by = job[p].run THEN 1 ELSE 0)
<1> DEFINE n == Len(audit) + 1
<1>1. /\ n \in Nat \ {0}
      /\ \A k \in DOMAIN audit : k \in Nat /\ k < n /\ audit'[k] = audit[k]
      /\ audit'[n] = r /\ Rows("filled")' = Rows("filled") \cup {n}
  BY NewRow DEF TypeOK
<1>2. LastClosed' = LastClosed
  BY OrderedStep DEF TypeOK
<1>3. LastClosed < n /\ Rows("filled") \subseteq DOMAIN audit
  BY <1>1 DEF Ordered, Rows
<1> HIDE DEF n
<1>4. Open(c)' = IF r.what = c THEN Open(c) \cup {n} ELSE Open(c)
  BY <1>1, <1>2, <1>3 DEF Open
<1>5. Own(p, c)' = IF r.what = c /\ r.by = job[p].run THEN Own(p, c) \cup {n} ELSE Own(p, c)
  BY <1>1, <1>3 DEF Own
<1>6. n \notin Open(c) /\ n \notin Own(p, c)
  BY <1>1, Counts
<1>7. Cardinality(Own(p, c))' = Cardinality(Own(p, c)')
  OBVIOUS
<1>8. Cardinality(Own(p, c)) \in Nat /\ IsFiniteSet(Own(p, c))
  BY Counts
<1>9. Cardinality(Own(p, c)')
         = Cardinality(Own(p, c)) + (IF r.what = c /\ r.by = job[p].run THEN 1 ELSE 0)
  BY <1>5, <1>6, <1>8, OneMoreIf
<1>10. Expected(c)' = Cardinality(Open(c)')
  BY DEF Expected, Open, LastClosed
<1>11. Expected(c) = Cardinality(Open(c)) /\ Expected(c) \in Nat /\ IsFiniteSet(Open(c))
  BY Counts
<1>12. Expected(c)' = Expected(c) + (IF r.what = c THEN 1 ELSE 0)
  BY <1>4, <1>6, <1>10, <1>11, OneMoreIf
<1>13. QED
  BY <1>7, <1>9, <1>12

\* Rows that end an execution are no fills.
LEMMA NotLogged ==
    ASSUME TypeOK, Ordered, NEW r \in Row, audit' = Append(audit, r) \/ audit' = audit,
           r.act \in {"completed", "halted"},
           NEW c, NEW p, job'[p].run = job[p].run
    PROVE  Expected(c)' = Expected(c) /\ Own(p, c)' = Own(p, c)
<1>1. Rows("filled")' = Rows("filled") /\ \A k \in DOMAIN audit : audit'[k] = audit[k]
  <2>1. CASE audit' = audit
    BY <2>1 DEF Rows
  <2>2. CASE audit' = Append(audit, r)
    <3>1. Rows("filled")' = Rows("filled") \cup (IF r.act = "filled" THEN {Len(audit) + 1} ELSE {})
      BY <2>2, NewRow DEF TypeOK
    <3>2. \A k \in DOMAIN audit : audit'[k] = audit[k]
      BY <2>2, NewRow DEF TypeOK
    <3>3. QED
      BY <3>1, <3>2
  <2>3. QED
    BY <2>1, <2>2
<1>2. LastClosed' = LastClosed
  BY OrderedStep DEF TypeOK
<1>3. Rows("filled") \subseteq DOMAIN audit
  BY DEF Rows
<1>4. Open(c)' = Open(c) /\ Own(p, c)' = Own(p, c)
  BY <1>1, <1>2, <1>3 DEF Open, Own
<1>5. Expected(c)' = Cardinality(Open(c)')
  BY DEF Expected, Open, LastClosed
<1>6. QED
  BY <1>4, <1>5, Counts

\* A fill that is booked.
LEMMA Booked ==
    ASSUME TypeOK, NEW b \in Contract, ledger' = Append(ledger, b), NEW c
    PROVE  Held(c)' = Held(c) + (IF b = c THEN 1 ELSE 0) /\ PaperCash' = PaperCash - 1
<1> DEFINE n == Len(ledger) + 1
           S == {k \in DOMAIN ledger : ledger[k] = c}
<1>1. /\ n \in Nat \ {0} /\ DOMAIN ledger = 1..Len(ledger) /\ Len(ledger) \in Nat
      /\ DOMAIN ledger' = DOMAIN ledger \cup {n} /\ n \notin DOMAIN ledger
      /\ ledger'[n] = b /\ \A k \in DOMAIN ledger : ledger'[k] = ledger[k]
      /\ Len(ledger') = n
  BY DEF TypeOK
<1>2. IsFiniteSet(S) /\ Cardinality(S) \in Nat
  <2>1. IsFiniteSet(DOMAIN ledger)
    BY <1>1, FS_Interval
  <2>2. QED
    BY <2>1, FS_Subset, FS_CardinalityType
<1>3. {k \in DOMAIN ledger' : ledger'[k] = c} = IF b = c THEN S \cup {n} ELSE S
  <2> HIDE DEF n
  <2>1. QED
    BY <1>1
<1>4. n \notin S
  BY <1>1
<1>5. PaperCash' = PaperCash - 1
  BY <1>1, AmountAssumption DEF PaperCash
<1> HIDE DEF n, S
<1>6. Cardinality({k \in DOMAIN ledger' : ledger'[k] = c})
         = Cardinality(S) + (IF b = c THEN 1 ELSE 0)
  BY <1>2, <1>3, <1>4, OneMoreIf
<1>7. QED
  BY <1>5, <1>6 DEF Held, S

\* One execution moves: what is booked and not logged yet changes by its own.
LEMMA BookingMove ==
    ASSUME TypeOK, NEW p \in Proc, NEW at, NEW after, Step(p, at, after), NEW c
    PROVE  Booking(c)' = (Booking(c) \ {p}) \cup (IF at = "log" /\ after.fill = c THEN {p} ELSE {})
<1>1. \A q \in Proc : /\ pc'[q] = IF q = p THEN at ELSE pc[q]
                      /\ job'[q] = IF q = p THEN after ELSE job[q]
  BY DEF TypeOK, Step
<1>2. QED
  BY <1>1 DEF Booking

-----------------------------------------------------------------------------
\* A step of a running execution: it keeps its number or goes, and adds at most
\* one row, of its own.
Moves(p, at, after, r) ==
    /\ pc[p] # "idle" /\ Step(p, at, after)
    /\ at # "idle" => after.run = job[p].run /\ after.proving = job[p].proving
    /\ after.run <= runs
    /\ audit' = audit \/ (audit' = Append(audit, r) /\ r.by = job[p].run)
    /\ runs' = runs /\ overlap' = overlap

\* An execution that moves leaves no other one alone.
LEMMA MoveStep ==
    ASSUME TypeOK, Numbered, Sole, Ordered, NEW p \in Proc, NEW at, NEW after, NEW r \in Row,
           Moves(p, at, after, r), Alone(p)' => Undisturbed(p)'
    PROVE  Numbered' /\ Sole' /\ Ordered' /\ \A q \in Proc : Alone(q)' => Undisturbed(q)'
<1>1. \A q \in Proc : /\ pc'[q] = IF q = p THEN at ELSE pc[q]
                      /\ job'[q] = IF q = p THEN after ELSE job[q]
  BY DEF TypeOK, Moves, Step
<1>2. Ordered'
  BY OrderedStep DEF TypeOK, Moves
<1>3. Numbered'
  <2>1. \A q \in Proc : job'[q].run <= runs'
    BY <1>1 DEF Moves, Numbered
  <2>2. \A k \in DOMAIN audit' : audit'[k].by <= runs'
    <3>1. CASE audit' = audit
      BY <3>1 DEF Moves, Numbered
    <3>2. CASE audit' = Append(audit, r) /\ r.by = job[p].run
      BY <3>2, NewRow DEF Moves, Numbered, TypeOK
    <3>3. QED
      BY <3>1, <3>2 DEF Moves
  <2>3. QED
    BY <2>1, <2>2 DEF Numbered
<1>4. Sole'
  BY <1>1 DEF Moves, Sole
<1>5. ASSUME NEW q \in Proc, q # p PROVE ~Alone(q)'
  BY <1>1, <1>5 DEF Moves, Sole, Alone
<1>6. QED
  BY <1>2, <1>3, <1>4, <1>5

\* Nothing is booked, logged or thrown away.
LEMMA SameStores ==
    ASSUME TypeOK, audit' = audit, ledger' = ledger
    PROVE  /\ LastClosed' = LastClosed /\ PaperCash' = PaperCash
           /\ \A act : Rows(act)' = Rows(act)
           /\ \A c : Expected(c)' = Expected(c) /\ Held(c)' = Held(c)
           /\ \A p, c : job'[p].run = job[p].run => Own(p, c)' = Own(p, c)
<1>1. \A act : Rows(act)' = Rows(act)
  BY DEF Rows
<1>2. LastClosed' = LastClosed
  BY <1>1 DEF LastClosed
<1>3. \A c : Open(c)' = Open(c)
  BY <1>1, <1>2 DEF Open
<1>4. \A c : Expected(c)' = Expected(c)
  BY <1>3 DEF Expected, Open, LastClosed
<1>5. \A c : Held(c)' = Held(c)
  BY DEF Held
<1>6. PaperCash' = PaperCash
  BY DEF PaperCash
<1>7. \A p, c : job'[p].run = job[p].run => Own(p, c)' = Own(p, c)
  BY <1>1 DEF Own
<1>8. QED
  BY <1>1, <1>2, <1>4, <1>5, <1>6, <1>7

\* What is left to show of a step that touches memory only.
LEMMA InMemory ==
    ASSUME TypeOK, NEW p \in Proc, Alone(p) => Undisturbed(p),
           pc[p] \notin {"idle", "reset", "log"},
           NEW at, at \notin {"idle", "reset", "log"}, NEW after, Step(p, at, after),
           after.run = job[p].run, after.proving = job[p].proving, overlap' = overlap,
           audit' = audit, ledger' = ledger,
           at = "fill" => after.cash = PaperCash \/ (pc[p] = "fill" /\ after.cash = job[p].cash),
           at = "compare" => \A c \in Contract : after.exp[c] = Expected(c),
           at = "record" =>
              (Alone(p) => (after.clean <=> PaperCash >= 0 /\ \A c \in Contract : Held(c) = Expected(c)))
    PROVE  Alone(p)' => Undisturbed(p)'
<1>1. pc'[p] = at /\ job'[p] = after
  BY DEF TypeOK, Step
<1> SUFFICES ASSUME Alone(p)' PROVE Undisturbed(p)'
  OBVIOUS
<1>2. Alone(p) /\ Undisturbed(p)
  BY <1>1 DEF Alone
<1>3. /\ LastClosed' = LastClosed /\ PaperCash' = PaperCash
      /\ \A act : Rows(act)' = Rows(act)
      /\ \A c : Expected(c)' = Expected(c) /\ Held(c)' = Held(c)
      /\ \A c : Own(p, c)' = Own(p, c)
  BY <1>1, SameStores
<1>4. /\ \A k \in DOMAIN audit' : audit'[k].by = job'[p].run => k > LastClosed' /\ pc'[p] # "reset"
      /\ \A k \in Rows("completed")' : audit'[k].by = job'[p].run /\ audit'[k].ok => job'[p].proving
  BY <1>1, <1>2, <1>3 DEF Undisturbed
<1>5. ASSUME job'[p].proving
      PROVE  /\ \A c \in Contract :
                   Held(c)' = Cardinality(Own(p, c))'
                              + (IF pc'[p] = "log" /\ job'[p].fill = c THEN 1 ELSE 0)
             /\ PaperCash' >= 0
             /\ pc'[p] \in {"fill", "log"} => job'[p].cash = PaperCash'
  <2>1. \A c \in Contract : Held(c)' = Cardinality(Own(p, c)) + 0
    BY <1>1, <1>2, <1>3, <1>5 DEF Undisturbed
  <2>2. \A c : Cardinality(Own(p, c))' = Cardinality(Own(p, c))
    BY <1>3
  <2>3. PaperCash' >= 0 /\ (pc'[p] \in {"fill", "log"} => job'[p].cash = PaperCash')
    BY <1>1, <1>2, <1>3, <1>5 DEF Undisturbed
  <2>4. QED
    BY <1>1, <2>1, <2>2, <2>3
<1>6. pc'[p] = "compare" => \A c \in Contract : job'[p].exp[c] = Expected(c)'
  BY <1>1, <1>3
<1>7. pc'[p] = "record" =>
         (job'[p].clean <=> PaperCash' >= 0 /\ \A c \in Contract : Held(c)' = Expected(c)')
  BY <1>1, <1>2, <1>3
<1>8. QED
  BY <1>4, <1>5, <1>6, <1>7 DEF Undisturbed

\* A proving run empties the ledger before it has written anything.
LEMMA ResetAlone ==
    ASSUME TypeOK, Ordered, NEW p \in Proc, Alone(p) => Undisturbed(p), Reset(p)
    PROVE  Alone(p)' => Undisturbed(p)'
<1>1. /\ pc[p] = "reset" /\ pc'[p] = "top" /\ job'[p] = job[p] /\ overlap' = overlap
      /\ audit' = audit /\ ledger' = <<>>
  BY DEF Reset, Step, TypeOK
<1> SUFFICES ASSUME Alone(p)' PROVE Undisturbed(p)'
  OBVIOUS
<1>2. Alone(p) /\ Undisturbed(p)
  BY <1>1 DEF Alone
<1>3. \A k \in DOMAIN audit : audit[k].by # job[p].run
  BY <1>1, <1>2 DEF Undisturbed
<1>4. \A c : Held(c)' = 0
  BY <1>1, FS_EmptySet DEF Held
<1>5. PaperCash' >= 0
  BY <1>1, AmountAssumption DEF PaperCash
<1>6. \A c : Own(p, c)' = {}
  BY <1>1, <1>3 DEF Own, Rows
<1>7. \A c : Cardinality(Own(p, c))' = 0
  BY <1>6, FS_EmptySet
<1>8. /\ \A k \in DOMAIN audit' : audit'[k].by # job'[p].run
      /\ \A k \in Rows("completed")' : audit'[k].by # job'[p].run
  BY <1>1, <1>3 DEF Rows
<1>9. QED
  BY <1>1, <1>4, <1>5, <1>7, <1>8 DEF Undisturbed

\* Alone, the cash it remembers is the cash there is.
LEMMA BookAlone ==
    ASSUME TypeOK, NEW p \in Proc, Alone(p) => Undisturbed(p), Book(p)
    PROVE  Alone(p)' => Undisturbed(p)'
<1>1. PICK b \in job[p].todo :
         /\ ledger' = Append(ledger, b)
         /\ Step(p, "log", [job[p] EXCEPT !.todo = @ \ {b}, !.cash = @ - 1, !.fill = b])
  BY DEF Book
<1>2. b \in Contract /\ job[p] \in Job /\ PaperCash \in Int
  BY AmountAssumption DEF TypeOK, Job, PaperCash
<1>3. /\ pc[p] = "fill" /\ pc'[p] = "log" /\ audit' = audit /\ overlap' = overlap
      /\ job[p].cash >= 1
  BY <1>1 DEF Book, Step, TypeOK
<1>4. /\ job'[p].run = job[p].run /\ job'[p].proving = job[p].proving
      /\ job'[p].cash = job[p].cash - 1 /\ job'[p].fill = b
  BY <1>1, <1>2 DEF Step, TypeOK, Job
<1> SUFFICES ASSUME Alone(p)' PROVE Undisturbed(p)'
  OBVIOUS
<1>5. Alone(p) /\ Undisturbed(p)
  BY <1>3, <1>4 DEF Alone
<1>6. \A act : Rows(act)' = Rows(act)
  BY <1>3 DEF Rows
<1>7. LastClosed' = LastClosed
  BY <1>6 DEF LastClosed
<1>8. \A c : Own(p, c)' = Own(p, c)
  BY <1>3, <1>4, <1>6 DEF Own
<1>9. \A c : Cardinality(Own(p, c))' = Cardinality(Own(p, c))
  BY <1>8
<1>10. /\ \A c : Held(c)' = Held(c) + (IF b = c THEN 1 ELSE 0)
       /\ PaperCash' = PaperCash - 1
  BY <1>1, <1>2, Booked
<1>11. job[p].proving =>
          /\ \A c \in Contract : Held(c) = Cardinality(Own(p, c)) + 0
          /\ job[p].cash = PaperCash
  BY <1>3, <1>5 DEF Undisturbed
<1>12. job'[p].proving =>
          /\ \A c \in Contract :
                Held(c)' = Cardinality(Own(p, c))'
                           + (IF pc'[p] = "log" /\ job'[p].fill = c THEN 1 ELSE 0)
          /\ PaperCash' >= 0
          /\ job'[p].cash = PaperCash'
  <2>1. SUFFICES ASSUME job'[p].proving
                 PROVE  /\ \A c \in Contract :
                              Held(c)' = Cardinality(Own(p, c))'
                                         + (IF pc'[p] = "log" /\ job'[p].fill = c THEN 1 ELSE 0)
                        /\ PaperCash' >= 0
                        /\ job'[p].cash = PaperCash'
    OBVIOUS
  <2>2. ASSUME NEW c \in Contract
        PROVE  Held(c)' = Cardinality(Own(p, c))'
                          + (IF pc'[p] = "log" /\ job'[p].fill = c THEN 1 ELSE 0)
    <3>1. Cardinality(Own(p, c)) \in Nat
      BY Counts
    <3>2. Held(c)' = Cardinality(Own(p, c)) + 0 + (IF b = c THEN 1 ELSE 0)
      BY <1>4, <1>10, <1>11, <2>1
    <3>3. QED
      BY <1>3, <1>4, <1>9, <3>1, <3>2
  <2>3. QED
    BY <1>2, <1>3, <1>4, <1>10, <1>11, <2>1, <2>2
<1>13. /\ \A k \in DOMAIN audit' : audit'[k].by = job'[p].run => k > LastClosed' /\ pc'[p] # "reset"
       /\ \A k \in Rows("completed")' : audit'[k].by = job'[p].run /\ audit'[k].ok => job'[p].proving
  BY <1>3, <1>4, <1>5, <1>6, <1>7 DEF Undisturbed
<1>14. QED
  BY <1>3, <1>12, <1>13 DEF Undisturbed

\* A row that an execution adds at its end is still open.
LEMMA EndAlone ==
    ASSUME TypeOK, Ordered, NEW p \in Proc, Alone(p) => Undisturbed(p), pc[p] = "top",
           Step(p, "expect", job[p]), overlap' = overlap, ledger' = ledger,
           NEW r \in Row, audit' = Append(audit, r), r.by = job[p].run,
           r.act \in {"completed", "halted"},
           r.act = "completed" /\ r.ok => job[p].proving
    PROVE  Alone(p)' => Undisturbed(p)'
<1>1. pc'[p] = "expect" /\ job'[p] = job[p]
  BY DEF Step, TypeOK
<1> SUFFICES ASSUME Alone(p)' PROVE Undisturbed(p)'
  OBVIOUS
<1>2. Alone(p) /\ Undisturbed(p)
  BY <1>1 DEF Alone
<1> DEFINE n == Len(audit) + 1
<1>3. /\ n \in Nat \ {0}
      /\ \A k \in DOMAIN audit : k \in Nat /\ k < n /\ audit'[k] = audit[k]
      /\ DOMAIN audit' = DOMAIN audit \cup {n} /\ audit'[n] = r
      /\ \A act : Rows(act)' = Rows(act) \cup (IF r.act = act THEN {n} ELSE {})
  BY NewRow DEF TypeOK
<1>4. LastClosed' = LastClosed /\ LastClosed < n
  <2>1. LastClosed' = LastClosed
    BY OrderedStep DEF TypeOK
  <2>2. Rows("reconciled") \subseteq DOMAIN audit
    BY DEF Rows
  <2>3. QED
    BY <1>3, <2>1, <2>2 DEF Ordered
<1> HIDE DEF n
<1>5. \A k \in DOMAIN audit' : audit'[k].by = job'[p].run => k > LastClosed' /\ pc'[p] # "reset"
  BY <1>1, <1>2, <1>3, <1>4 DEF Undisturbed
<1>6. \A k \in Rows("completed")' : audit'[k].by = job'[p].run /\ audit'[k].ok => job'[p].proving
  <2>1. SUFFICES ASSUME NEW k \in Rows("completed")', audit'[k].by = job'[p].run, audit'[k].ok
                 PROVE  job'[p].proving
    OBVIOUS
  <2>2. CASE k \in Rows("completed")
    BY <1>1, <1>2, <1>3, <2>1, <2>2 DEF Undisturbed, Rows
  <2>3. CASE k = n /\ r.act = "completed"
    BY <1>1, <1>3, <2>1, <2>3
  <2>4. QED
    BY <1>3, <2>1, <2>2, <2>3
<1>7. \A c : Own(p, c)' = Own(p, c)
  BY <1>1, NotLogged
<1>8. \A c : Cardinality(Own(p, c))' = Cardinality(Own(p, c))
  BY <1>7
<1>9. \A c : Held(c)' = Held(c)
  BY DEF Held
<1>10. PaperCash' = PaperCash
  BY DEF PaperCash
<1>11. job[p].proving => (\A c \in Contract : Held(c) = Cardinality(Own(p, c)) + 0) /\ PaperCash >= 0
  BY <1>2, "top" # "log" DEF Undisturbed
<1>12. QED
  BY <1>1, <1>5, <1>6, <1>8, <1>9, <1>10, <1>11 DEF Undisturbed

\* A fill that is logged moves from memory to its own rows.
LEMMA LogAlone ==
    ASSUME TypeOK, Ordered, NEW p \in Proc, Alone(p) => Undisturbed(p), LogFill(p)
    PROVE  Alone(p)' => Undisturbed(p)'
<1> DEFINE r == [act |-> "filled", what |-> job[p].fill, ok |-> TRUE, by |-> job[p].run]
<1>1. r \in Row /\ r.act = "filled" /\ r.by = job[p].run /\ r.what = job[p].fill
  BY DEF TypeOK, Job, Row
<1>2. audit' = Append(audit, r)
  BY DEF LogFill, LogRow
<1> HIDE DEF r
<1>3. /\ pc[p] = "log" /\ pc'[p] = "fill" /\ overlap' = overlap /\ ledger' = ledger
      /\ job'[p].run = job[p].run /\ job'[p].proving = job[p].proving
      /\ job'[p].cash = job[p].cash
  BY DEF LogFill, Step, TypeOK, Job
<1> SUFFICES ASSUME Alone(p)' PROVE Undisturbed(p)'
  OBVIOUS
<1>4. Alone(p) /\ Undisturbed(p)
  BY <1>3 DEF Alone
<1> DEFINE n == Len(audit) + 1
<1>5. /\ n \in Nat \ {0}
      /\ \A k \in DOMAIN audit : k \in Nat /\ k < n /\ audit'[k] = audit[k]
      /\ DOMAIN audit' = DOMAIN audit \cup {n} /\ audit'[n] = r
      /\ Rows("completed")' = Rows("completed")
  <2>1. Rows("completed")' = Rows("completed") \cup (IF r.act = "completed" THEN {n} ELSE {})
    BY <1>1, <1>2, NewRow DEF TypeOK
  <2>2. /\ n \in Nat \ {0}
        /\ \A k \in DOMAIN audit : k \in Nat /\ k < n /\ audit'[k] = audit[k]
        /\ DOMAIN audit' = DOMAIN audit \cup {n} /\ audit'[n] = r
    BY <1>1, <1>2, NewRow DEF TypeOK
  <2>3. QED
    BY <1>1, <2>1, <2>2
<1>6. LastClosed' = LastClosed /\ LastClosed < n
  <2>1. LastClosed' = LastClosed
    BY <1>1, <1>2, OrderedStep DEF TypeOK
  <2>2. Rows("reconciled") \subseteq DOMAIN audit
    BY DEF Rows
  <2>3. QED
    BY <1>5, <2>1, <2>2 DEF Ordered
<1> HIDE DEF n
<1>7. \A k \in DOMAIN audit' : audit'[k].by = job'[p].run => k > LastClosed' /\ pc'[p] # "reset"
  BY <1>3, <1>4, <1>5, <1>6 DEF Undisturbed
<1>8. \A k \in Rows("completed")' : audit'[k].by = job'[p].run /\ audit'[k].ok => job'[p].proving
  BY <1>3, <1>4, <1>5 DEF Undisturbed, Rows
<1>9. \A c : Cardinality(Own(p, c))' = Cardinality(Own(p, c)) + (IF job[p].fill = c THEN 1 ELSE 0)
  BY <1>1, <1>2, <1>3, Logged
<1>10. \A c : Held(c)' = Held(c)
  BY <1>3 DEF Held
<1>11. PaperCash' = PaperCash
  BY <1>3 DEF PaperCash
<1>12. job[p].proving =>
          /\ \A c \in Contract :
                Held(c) = Cardinality(Own(p, c)) + (IF job[p].fill = c THEN 1 ELSE 0)
          /\ PaperCash >= 0 /\ job[p].cash = PaperCash
  BY <1>3, <1>4 DEF Undisturbed
<1>13. job'[p].proving =>
          /\ \A c \in Contract : Held(c)' = Cardinality(Own(p, c))' + 0
          /\ PaperCash' >= 0 /\ job'[p].cash = PaperCash'
  <2>1. \A c : Cardinality(Own(p, c)) \in Nat
    BY Counts
  <2>2. QED
    BY <1>3, <1>9, <1>10, <1>11, <1>12, <2>1
<1>14. QED
  BY <1>3, <1>7, <1>8, <1>13 DEF Undisturbed

-----------------------------------------------------------------------------
\* An execution that starts next to another is marked, and so is the other.
LEMMA StartStep ==
    ASSUME TypeOK, Numbered, Sole, Ordered, \A q \in Proc : Alone(q) => Undisturbed(q),
           NEW p \in Proc, NEW at \in {"reset", "armed"}, NEW proving \in BOOLEAN, NEW iterations,
           Start(p, at, proving, iterations), at = "armed" => ~proving
    PROVE  Numbered' /\ Sole' /\ Ordered' /\ \A q \in Proc : Alone(q)' => Undisturbed(q)'
<1> DEFINE after == [NoJob EXCEPT !.proving = proving, !.run = runs + 1, !.left = iterations]
<1>1. after.run = runs + 1 /\ after.proving = proving
  BY DEF NoJob
<1>2. \A q \in Proc : /\ pc'[q] = IF q = p THEN at ELSE pc[q]
                      /\ job'[q] = IF q = p THEN after ELSE job[q]
  BY DEF TypeOK, Start, Step
<1> HIDE DEF after
<1>3. /\ pc[p] = "idle" /\ runs' = runs + 1 /\ runs \in Nat /\ audit' = audit
      /\ overlap' = IF Running = {} THEN overlap
                    ELSE overlap \cup {runs + 1} \cup {job[q].run : q \in Running}
      /\ \A q \in Proc : job[q].run \in Nat
  BY DEF Start, TypeOK, Job
<1>4. Numbered'
  <2>1. \A q \in Proc : job'[q].run <= runs'
    BY <1>1, <1>2, <1>3 DEF Numbered
  <2>2. \A k \in DOMAIN audit : audit[k].by \in Nat
    <3>1. \A k \in DOMAIN audit : audit[k] \in Row
      BY DEF TypeOK
    <3>2. QED
      BY <3>1 DEF Row
  <2>3. \A k \in DOMAIN audit' : audit'[k].by <= runs'
    BY <1>3, <2>2 DEF Numbered
  <2>4. QED
    BY <2>1, <2>3 DEF Numbered
<1>5. ASSUME NEW q \in Proc, q # p, pc[q] # "idle"
      PROVE  job'[q].run \in overlap' /\ job'[p].run \in overlap'
  <2>1. q \in Running
    BY <1>5 DEF Running
  <2>2. QED
    BY <1>1, <1>2, <1>3, <1>5, <2>1
<1>6. Sole'
  BY <1>2, <1>5 DEF Sole
<1>7. Ordered'
  <2>1. [act |-> "halted", what |-> "none", ok |-> TRUE, by |-> 0] \in Row
    BY DEF Row
  <2>2. QED
    BY <1>3, <2>1, OrderedStep DEF TypeOK
<1>8. ASSUME NEW q \in Proc, q # p PROVE ~Alone(q)'
  BY <1>2, <1>5, <1>8 DEF Alone
<1>9. \A k \in DOMAIN audit' : audit'[k].by # job'[p].run
  BY <1>1, <1>2, <1>3 DEF Numbered, TypeOK, Row
<1>10. Alone(p)' => Undisturbed(p)'
  <2>1. \A k \in Rows("completed")' : k \in DOMAIN audit'
    BY DEF Rows
  <2>2. CASE at = "reset"
    BY <1>2, <1>9, <2>1, <2>2 DEF Undisturbed
  <2>3. CASE at = "armed"
    <3>1. pc'[p] = "armed" /\ ~ job'[p].proving
      BY <1>1, <1>2, <2>3
    <3>2. QED
      BY <1>9, <2>1, <3>1 DEF Undisturbed
  <2>4. QED
    BY <2>2, <2>3
<1>11. QED
  BY <1>4, <1>6, <1>7, <1>8, <1>10

\* What is booked and not logged yet, after a step.
LEMMA Tally ==
    ASSUME TypeOK, NEW p \in Proc, NEW at, NEW after, Step(p, at, after), NEW c
    PROVE  Cardinality(Booking(c))' = Cardinality(Booking(c))
              - (IF pc[p] = "log" /\ job[p].fill = c THEN 1 ELSE 0)
              + (IF at = "log" /\ after.fill = c THEN 1 ELSE 0)
<1> DEFINE Rest == Booking(c) \ {p}
<1>1. Booking(c)' = IF at = "log" /\ after.fill = c THEN Rest \cup {p} ELSE Rest
  BY BookingMove
<1>2. Booking(c) = IF pc[p] = "log" /\ job[p].fill = c THEN Rest \cup {p} ELSE Rest
  BY DEF Booking
<1>3. p \notin Rest /\ IsFiniteSet(Rest)
  BY Counts, FS_Difference
<1>4. Cardinality(Rest) \in Nat
  BY <1>3, FS_CardinalityType
<1>5. Cardinality(Booking(c)') = Cardinality(Rest) + (IF at = "log" /\ after.fill = c THEN 1 ELSE 0)
  BY <1>1, <1>3, OneMoreIf
<1>6. Cardinality(Booking(c))
         = Cardinality(Rest) + (IF pc[p] = "log" /\ job[p].fill = c THEN 1 ELSE 0)
  BY <1>2, <1>3, OneMoreIf
<1>7. Cardinality(Booking(c))' = Cardinality(Booking(c)')
  OBVIOUS
<1>8. QED
  BY <1>4, <1>5, <1>6, <1>7

\* What never shrinks.
Grows(r) ==
    /\ audit' = audit \/ audit' = Append(audit, r)
    /\ overlap \subseteq overlap' /\ (unlogged' = 0 => unlogged = 0)

\* A ledger that is short stays short unless a reconcile row closes what it lacks.
LEMMA ShortStep ==
    ASSUME TypeOK, StaysShort, NEW r \in Row, Grows(r), NEW n, n = Len(audit) + 1,
           \/ audit' # audit /\ r.act = "reconciled"
           \/ unlogged' = 0 => \A c \in Contract : Short(c) => Short(c)',
           audit' # audit /\ r.act = "completed" /\ unlogged' = 0 /\ Borrowed(n)'
              => \E c \in Contract : Short(c)'
    PROVE  StaysShort'
<1> SUFFICES ASSUME unlogged' = 0, NEW i \in DOMAIN audit', Borrowed(i)',
                    \A k \in Rows("reconciled")' : k < i
             PROVE  \E c \in Contract : Short(c)'
  BY DEF StaysShort
<1>1. /\ unlogged = 0 /\ overlap \subseteq overlap'
      /\ audit' = audit \/ audit' = Append(audit, r)
  BY DEF Grows
<1>2. CASE i \in DOMAIN audit
  <2>1. /\ audit'[i] = audit[i] /\ i \in Nat /\ WindowFills(i)' = WindowFills(i)
        /\ \A act : Rows(act) \subseteq Rows(act)'
    BY <1>1, <1>2, Before DEF TypeOK
  <2>2. \A k \in Rows("filled") : audit'[k] = audit[k] /\ k \in Rows("filled")'
    BY <1>1, Before DEF TypeOK, Rows
  <2>3. FillsOf(audit[i].by) = {}
    BY <2>1, <2>2 DEF Borrowed, FillsOf
  <2>4. Borrowed(i)
    BY <1>1, <1>2, <2>1, <2>3 DEF Borrowed, Rows
  <2>5. PICK c \in Contract : Short(c)
    BY <1>1, <1>2, <2>1, <2>4 DEF StaysShort
  <2>6. ~ (audit' # audit /\ r.act = "reconciled")
    <3>1. SUFFICES ASSUME audit' # audit, r.act = "reconciled" PROVE FALSE
      OBVIOUS
    <3>2. n \in Rows("reconciled")' /\ i < n /\ n \in Nat
      BY <1>1, <1>2, <3>1, NewRow DEF TypeOK
    <3>3. QED
      BY <2>1, <3>2
  <2>7. QED
    BY <2>5, <2>6
<1>3. CASE i \notin DOMAIN audit
  <2>1. audit' = Append(audit, r) /\ audit' # audit /\ i = n /\ audit'[n] = r
    BY <1>1, <1>3, NewRow DEF TypeOK
  <2>2. r.act = "completed"
    BY <2>1 DEF Borrowed, Rows
  <2>3. QED
    BY <2>1, <2>2
<1>4. QED
  BY <1>2, <1>3

\* Each contract's shortage, step by step: nothing that is booked or logged
\* makes up for it.
LEMMA QuietShort ==
    ASSUME TypeOK, NEW p \in Proc, NEW at, NEW after, Step(p, at, after),
           pc[p] # "log", at # "log", NEW c, Expected(c)' = Expected(c), Held(c)' = Held(c)
    PROVE  Short(c) => Short(c)'
<1>1. Cardinality(Booking(c))' = Cardinality(Booking(c)) - 0 + 0
  BY Tally
<1>2. Cardinality(Booking(c)) \in Nat
  BY Counts
<1>3. QED
  BY <1>1, <1>2 DEF Short

LEMMA ResetShort ==
    ASSUME TypeOK, NEW p \in Proc, Reset(p), NEW c
    PROVE  Short(c) => Short(c)'
<1>1. audit' = audit /\ ledger' = <<>>
  BY DEF Reset
<1>2. Held(c)' = 0
  BY <1>1, FS_EmptySet DEF Held
<1>3. Expected(c)' = Expected(c)
  BY <1>1 DEF Expected, Rows
<1>4. Expected(c) \in Nat
  BY Counts
<1>5. Cardinality(Booking(c))' \in Nat
  <2>1. Step(p, "top", job[p]) /\ pc[p] # "log"
    BY DEF Reset
  <2>2. Cardinality(Booking(c))' = Cardinality(Booking(c)) - 0 + 0
    BY <2>1, Tally
  <2>3. Cardinality(Booking(c)) \in Nat
    BY Counts
  <2>4. QED
    BY <2>2, <2>3
<1>6. QED
  BY <1>2, <1>3, <1>4, <1>5 DEF Short

LEMMA BookShort ==
    ASSUME TypeOK, NEW p \in Proc, Book(p), NEW c
    PROVE  Short(c) => Short(c)'
<1>1. PICK b \in job[p].todo :
         /\ ledger' = Append(ledger, b)
         /\ Step(p, "log", [job[p] EXCEPT !.todo = @ \ {b}, !.cash = @ - 1, !.fill = b])
  BY DEF Book
<1>2. b \in Contract /\ job[p] \in Job /\ pc[p] = "fill" /\ audit' = audit
  BY DEF TypeOK, Job, Book
<1> DEFINE after == [job[p] EXCEPT !.todo = @ \ {b}, !.cash = @ - 1, !.fill = b]
<1>3. after.fill = b /\ Step(p, "log", after)
  BY <1>1, <1>2 DEF Job
<1> HIDE DEF after
<1>4. Held(c)' = Held(c) + (IF b = c THEN 1 ELSE 0)
  BY <1>1, <1>2, Booked
<1>5. Cardinality(Booking(c))' = Cardinality(Booking(c)) - 0 + (IF b = c THEN 1 ELSE 0)
  BY <1>2, <1>3, Tally
<1>6. Expected(c)' = Expected(c)
  BY <1>2 DEF Expected, Rows
<1>7. Cardinality(Booking(c)) \in Nat /\ Held(c) \in Nat /\ Expected(c) \in Nat
  BY Counts
<1>8. QED
  BY <1>4, <1>5, <1>6, <1>7 DEF Short

LEMMA LogShort ==
    ASSUME TypeOK, Ordered, NEW p \in Proc, LogFill(p), NEW c \in Contract
    PROVE  Short(c) => Short(c)'
<1> DEFINE r == [act |-> "filled", what |-> job[p].fill, ok |-> TRUE, by |-> job[p].run]
           after == [job[p] EXCEPT !.fill = "none"]
<1>1. r \in Row /\ r.act = "filled" /\ r.what = job[p].fill
  BY DEF TypeOK, Job, Row
<1>2. audit' = Append(audit, r) /\ Step(p, "fill", after) /\ ledger' = ledger /\ pc[p] = "log"
  BY DEF LogFill, LogRow
<1>3. after.run = job[p].run /\ job'[p] = after
  BY <1>2 DEF TypeOK, Job, Step
<1> HIDE DEF r, after
<1>4. Expected(c)' = Expected(c) + (IF job[p].fill = c THEN 1 ELSE 0)
  BY <1>1, <1>2, <1>3, Logged
<1>5. Cardinality(Booking(c))' = Cardinality(Booking(c)) - (IF job[p].fill = c THEN 1 ELSE 0) + 0
  BY <1>2, Tally
<1>6. Held(c)' = Held(c)
  BY <1>2 DEF Held
<1>7. Cardinality(Booking(c)) \in Nat /\ Held(c) \in Nat /\ Expected(c) \in Nat
  BY Counts
<1>8. QED
  BY <1>4, <1>5, <1>6, <1>7 DEF Short

\* A proving run that completes alone and on nothing of its own has an empty
\* ledger, so what its window shows is missing.
LEMMA BorrowedShort ==
    ASSUME TypeOK, Ordered, Named, NEW p \in Proc, Alone(p) => Undisturbed(p),
           Complete(p), NEW n, n = Len(audit) + 1, Borrowed(n)'
    PROVE  \E c \in Contract : Short(c)'
<1>0. [act |-> "completed", what |-> "none", ok |-> job[p].proving, by |-> job[p].run] \in Row
  BY DEF TypeOK, Job, Row
<1>1. PICK r \in Row : r = [act |-> "completed", what |-> "none",
                            ok |-> job[p].proving, by |-> job[p].run]
  BY <1>0
<1>2. /\ audit' = Append(audit, r) /\ job'[p] = job[p] /\ pc[p] = "top"
      /\ ledger' = ledger /\ overlap' = overlap
  BY <1>1 DEF Complete, LogRow, Step, TypeOK
<1>3. /\ n \in Nat /\ audit'[n] = r
      /\ \A k \in DOMAIN audit : k \in Nat /\ k < n /\ audit'[k] = audit[k]
      /\ \A act : Rows(act)' = Rows(act) \cup (IF r.act = act THEN {n} ELSE {})
  <2>1. /\ n \in Nat /\ audit'[n] = r
        /\ \A k \in DOMAIN audit : k \in Nat /\ k < n /\ audit'[k] = audit[k]
    BY <1>1, <1>2, NewRow DEF TypeOK
  <2>2. \A act : Rows(act)' = Rows(act) \cup (IF r.act = act THEN {n} ELSE {})
    BY <1>1, <1>2, NewRow DEF TypeOK
  <2>3. QED
    BY <2>1, <2>2
<1>4. Rows("filled")' = Rows("filled")
  <2>1. Rows("filled")' = Rows("filled") \cup (IF r.act = "filled" THEN {n} ELSE {})
    BY <1>3
  <2>2. r.act = "completed"
    BY <1>1
  <2>3. QED
    BY <2>1, <2>2
<1>5. job[p].proving /\ Alone(p)
  BY <1>1, <1>2, <1>3 DEF Borrowed, Alone
<1>6. \A c : Own(p, c) = {}
  <2>1. \A k \in Rows("filled")' : audit'[k].by # r.by
    BY <1>3 DEF Borrowed, FillsOf
  <2>2. Rows("filled") \subseteq DOMAIN audit
    BY DEF Rows
  <2>3. QED
    BY <1>1, <1>2, <1>3, <1>4, <2>1, <2>2 DEF Own
<1>7. \A c \in Contract : Held(c) = 0
  <2>1. \A c \in Contract : Held(c) = Cardinality(Own(p, c)) + 0
    BY <1>2, <1>5 DEF Undisturbed
  <2>2. \A c : Cardinality(Own(p, c)) = 0
    BY <1>6, FS_EmptySet
  <2>3. QED
    BY <2>1, <2>2
<1>8. PICK w \in Rows("filled") : w > LastClosed
  <2>1. PICK w \in WindowFills(n)' : TRUE
    BY DEF Borrowed
  <2>2. {b \in Boundaries' : b < n} = Boundaries
    <3>1. Boundaries' = Boundaries \cup {n}
      BY <1>1, <1>3 DEF Boundaries
    <3>2. Boundaries \subseteq DOMAIN audit
      BY DEF Boundaries, Rows
    <3>3. QED
      BY <1>3, <3>1, <3>2
  <2>3. w \in Rows("filled") /\ w > Latest(Boundaries)
    BY <1>4, <2>1, <2>2 DEF WindowFills
  <2>4. w \in Nat \ {0} /\ w \in DOMAIN audit
    BY <2>3 DEF Rows, TypeOK
  <2>5. CASE LastClosed = 0
    BY <2>3, <2>4, <2>5
  <2>6. CASE LastClosed \in Rows("reconciled")
    <3>1. LastClosed \in Boundaries /\ LastClosed <= Latest(Boundaries)
      BY <2>6 DEF Ordered, Boundaries
    <3>2. LastClosed \in Nat /\ Latest(Boundaries) \in Nat
      <4>1. Boundaries \subseteq Nat
        BY DEF Boundaries, Rows, TypeOK
      <4>2. Latest(Boundaries) \in Boundaries \cup {0}
        BY DEF Ordered
      <4>3. Latest(Boundaries) \in Nat
        <5>1. 0 \in Nat
          OBVIOUS
        <5>2. QED
          BY <4>1, <4>2, <5>1, Zenon
      <4>4. QED
        BY <3>1, <4>1, <4>3
    <3>3. QED
      BY <2>3, <2>4, <3>1, <3>2
  <2>7. QED
    BY <2>3, <2>5, <2>6 DEF Ordered
<1>9. PICK c \in Contract : w \in Open(c)
  BY <1>8 DEF Named, Open
<1>10. Expected(c) > 0
  <2>1. Expected(c) = Cardinality(Open(c)) /\ IsFiniteSet(Open(c)) /\ Expected(c) \in Nat
    BY Counts
  <2>2. Cardinality(Open(c)) # 0
    BY <1>9, <2>1, FS_EmptySet
  <2>3. QED
    BY <2>1, <2>2
<1>11. Expected(c)' = Expected(c) /\ Held(c)' = 0
  <2>1. Expected(c)' = Expected(c)
    BY <1>1, <1>2, NotLogged
  <2>2. Held(c)' = Held(c)
    BY <1>2 DEF Held
  <2>3. QED
    BY <1>7, <1>9, <2>1, <2>2
<1>12. Cardinality(Booking(c))' \in Nat
  <2>1. Step(p, "expect", job[p]) /\ pc[p] # "log"
    BY <1>2 DEF Complete
  <2>2. Cardinality(Booking(c))' = Cardinality(Booking(c)) - 0 + 0
    BY <2>1, Tally
  <2>3. Cardinality(Booking(c)) \in Nat
    BY Counts
  <2>4. QED
    BY <2>2, <2>3
<1>13. Expected(c) \in Nat
  BY Counts
<1>14. Short(c)'
  BY <1>10, <1>11, <1>12, <1>13 DEF Short
<1>15. QED
  BY <1>9, <1>14

-----------------------------------------------------------------------------
\* What was judged of the rows before stands; a reconcile row adds a judgement.
LEMMA CleanStep ==
    ASSUME TypeOK, CleanIsEarned, NEW r \in Row, Grows(r), NEW n, n = Len(audit) + 1,
           audit' # audit /\ r.act = "reconciled" =>
              \A i \in DOMAIN audit :
                 /\ unlogged' = 0 /\ CleanWith(i, n)'
                 /\ audit[i].by \notin overlap' /\ r.by \notin overlap'
                 => FillsOf(audit[i].by) # {}
    PROVE  CleanIsEarned'
<1> SUFFICES ASSUME unlogged' = 0, NEW i \in DOMAIN audit', NEW j \in DOMAIN audit',
                    CleanWith(i, j)', audit'[i].by \notin overlap', audit'[j].by \notin overlap',
                    \A k \in Rows("filled")' : audit'[k].by # audit'[i].by
             PROVE  FALSE
  BY DEF CleanIsEarned, FillsOf
<1>1. /\ unlogged = 0 /\ overlap \subseteq overlap'
      /\ audit' = audit \/ audit' = Append(audit, r)
  BY DEF Grows
<1>2. \A k \in DOMAIN audit : audit'[k] = audit[k] /\ k \in Nat /\ k < n
  <2>1. CASE audit' = audit
    BY <2>1 DEF TypeOK
  <2>2. CASE audit' = Append(audit, r)
    BY <2>2, NewRow DEF TypeOK
  <2>3. QED
    BY <1>1, <2>1, <2>2
<1>3. \A act : Rows(act) \subseteq Rows(act)'
  BY <1>1, Before DEF TypeOK
<1>4. \A act : Rows(act) \subseteq DOMAIN audit
  BY DEF Rows
<1>5. i < j /\ j \in Rows("reconciled")' /\ i \in Rows("completed")'
  BY DEF CleanWith, Follows
<1>6. DOMAIN audit' \subseteq DOMAIN audit \cup {n} /\ n \in Nat
  <2>1. CASE audit' = audit
    BY <2>1 DEF TypeOK
  <2>2. CASE audit' = Append(audit, r)
    BY <2>2, NewRow DEF TypeOK
  <2>3. QED
    BY <1>1, <2>1, <2>2
<1>7. i \in DOMAIN audit /\ i \in Nat /\ i < n
  BY <1>2, <1>5, <1>6
<1>8. FillsOf(audit[i].by) = {}
  <2>1. \A k \in Rows("filled") : audit[k].by # audit[i].by
    BY <1>2, <1>3, <1>4, <1>7
  <2>2. QED
    BY <2>1 DEF FillsOf
<1>9. CASE j \in DOMAIN audit
  <2>1. j \in Rows("reconciled") /\ i \in Rows("completed")
    BY <1>2, <1>5, <1>7, <1>9 DEF Rows
  <2>2. Follows(j, i)
    BY <1>3, <1>5, <2>1 DEF CleanWith, Follows
  <2>3. WindowFills(i)' = WindowFills(i)
    BY <1>1, <1>7, Before DEF TypeOK
  <2>4. CleanWith(i, j)
    BY <1>2, <1>7, <1>9, <2>1, <2>2, <2>3 DEF CleanWith
  <2>5. {audit[i].by, audit[j].by} \cap overlap = {}
    BY <1>1, <1>2, <1>7, <1>9
  <2>6. QED
    BY <1>1, <1>7, <1>8, <1>9, <2>4, <2>5 DEF CleanIsEarned
<1>10. CASE j \notin DOMAIN audit
  <2>1. j = n /\ audit' = Append(audit, r) /\ audit' # audit
    BY <1>1, <1>6, <1>10
  <2>2. audit'[n] = r /\ r.act = "reconciled"
    <3>1. audit'[n] = r
      BY <2>1, NewRow DEF TypeOK
    <3>2. QED
      BY <1>5, <2>1, <3>1 DEF Rows
  <2>3. CleanWith(i, n)' /\ audit[i].by \notin overlap' /\ r.by \notin overlap'
    BY <1>2, <1>7, <2>1, <2>2
  <2>4. QED
    BY <1>7, <1>8, <2>1, <2>2, <2>3
<1>11. QED
  BY <1>9, <1>10

\* An error row that a run alone reconciles is explained; so is one that was
\* there before.
LEMMA AlarmStep ==
    ASSUME TypeOK, AlarmIsExplained, NEW r \in Row, Grows(r), NEW n, n = Len(audit) + 1,
           audit' # audit /\ r.act = "reconciled" /\ ~ r.ok /\ r.by \notin overlap' =>
              \A i \in Rows("completed") :
                 audit[i].ok /\ audit[i].by = r.by =>
                    \E k \in Rows("filled") :
                       /\ k > Latest({m \in Rows("reconciled") : m < i}) /\ k < n
                       /\ audit[k].by # r.by,
           audit' # audit /\ r.act = "completed" /\ r.by \notin overlap' =>
              \A j \in Rows("reconciled") : audit[j].by # r.by
    PROVE  AlarmIsExplained'
<1> SUFFICES ASSUME NEW i \in DOMAIN audit', NEW j \in DOMAIN audit',
                    i \in Rows("completed")', audit'[i].ok,
                    j \in Rows("reconciled")', audit'[j].by = audit'[i].by, ~ audit'[j].ok,
                    audit'[i].by \notin overlap'
             PROVE  \E k \in Rows("filled")' :
                       /\ k > Latest({m \in Rows("reconciled") : m < i})' /\ k < j
                       /\ audit'[k].by # audit'[i].by
  BY DEF AlarmIsExplained
<1>1. overlap \subseteq overlap' /\ (audit' = audit \/ audit' = Append(audit, r))
  BY DEF Grows
<1>2. \A k \in DOMAIN audit : audit'[k] = audit[k] /\ k \in Nat /\ k < n
  <2>1. CASE audit' = audit
    BY <2>1 DEF TypeOK
  <2>2. CASE audit' = Append(audit, r)
    BY <2>2, NewRow DEF TypeOK
  <2>3. QED
    BY <1>1, <2>1, <2>2
<1>3. Rows("filled") \subseteq Rows("filled")' /\ Rows("filled") \subseteq DOMAIN audit
  <2>1. \A act : Rows(act) \subseteq Rows(act)'
    BY <1>1, Before DEF TypeOK
  <2>2. QED
    BY <2>1 DEF Rows
<1>4. \A k \in DOMAIN audit' : k \notin DOMAIN audit =>
         k = n /\ audit' = Append(audit, r) /\ audit' # audit /\ audit'[n] = r
  <2>1. CASE audit' = audit
    BY <2>1
  <2>2. CASE audit' = Append(audit, r)
    BY <2>2, NewRow DEF TypeOK
  <2>3. QED
    BY <1>1, <2>1, <2>2
<1>5. CASE i \notin DOMAIN audit
  <2>1. i = n /\ audit' # audit /\ audit'[n] = r
    BY <1>4, <1>5
  <2>2. r.act = "completed" /\ r.by \notin overlap'
    BY <2>1 DEF Rows
  <2>3. j # n
    BY <2>1, <2>2 DEF Rows
  <2>4. j \in Rows("reconciled") /\ audit[j].by = r.by
    BY <1>2, <1>4, <2>1, <2>3 DEF Rows
  <2>5. QED
    BY <2>1, <2>2, <2>4
<1>6. CASE i \in DOMAIN audit
  <2>1. i \in Rows("completed") /\ audit[i].ok /\ audit'[i].by = audit[i].by
    BY <1>2, <1>6 DEF Rows
  <2>2. {m \in Rows("reconciled")' : m < i} = {m \in Rows("reconciled") : m < i}
    BY <1>1, <1>6, Before DEF TypeOK
  <2>3. Latest({m \in Rows("reconciled") : m < i})' = Latest({m \in Rows("reconciled") : m < i})
    BY <2>2
  <2>4. PICK k \in Rows("filled") :
           /\ k > Latest({m \in Rows("reconciled") : m < i}) /\ k < j
           /\ audit[k].by # audit[i].by
    <3>1. CASE j \in DOMAIN audit
      <4>1. /\ j \in Rows("reconciled") /\ audit[j].by = audit[i].by /\ ~ audit[j].ok
            /\ audit[i].by \notin overlap
        BY <1>1, <1>2, <2>1, <3>1 DEF Rows
      <4>2. QED
        BY <1>6, <2>1, <3>1, <4>1 DEF AlarmIsExplained
    <3>2. CASE j \notin DOMAIN audit
      <4>1. j = n /\ audit' # audit /\ audit'[n] = r
        BY <1>4, <3>2
      <4>2. r.act = "reconciled" /\ ~ r.ok /\ r.by = audit[i].by /\ r.by \notin overlap'
        BY <2>1, <4>1 DEF Rows
      <4>3. QED
        BY <2>1, <4>1, <4>2
    <3>3. QED
      BY <3>1, <3>2
  <2>5. k \in Rows("filled")' /\ audit'[k].by = audit[k].by
    BY <1>2, <1>3
  <2>6. QED
    BY <2>1, <2>3, <2>4, <2>5
<1>7. QED
  BY <1>5, <1>6

\* An execution that is alone and finds no error leaves no shortage behind that
\* a borrowed run would.
LEMMA RecordClean ==
    ASSUME TypeOK, Sole, StaysShort, NEW p \in Proc, Alone(p) => Undisturbed(p),
           pc[p] = "record", overlap' = overlap, unlogged' = unlogged,
           NEW r \in Row, r.act = "reconciled", r.ok = job[p].clean, r.by = job[p].run,
           audit' = Append(audit, r), NEW n, n = Len(audit) + 1,
           NEW i \in DOMAIN audit, unlogged' = 0, CleanWith(i, n)',
           audit[i].by \notin overlap', r.by \notin overlap'
    PROVE  FillsOf(audit[i].by) # {}
<1> SUFFICES ASSUME FillsOf(audit[i].by) = {} PROVE FALSE
  OBVIOUS
<1>1. /\ n \in Nat /\ audit'[n] = r
      /\ \A k \in DOMAIN audit : k \in Nat /\ k < n /\ audit'[k] = audit[k]
  BY NewRow DEF TypeOK
<1>2. \A act : Rows(act) \subseteq Rows(act)'
  BY Before DEF TypeOK
<1>3. Alone(p) /\ Undisturbed(p)
  BY DEF Alone
<1>4. PaperCash >= 0 /\ \A c \in Contract : Held(c) = Expected(c)
  <2>1. r.ok
    BY <1>1 DEF CleanWith
  <2>2. job[p].clean
    BY <2>1
  <2>3. QED
    BY <1>3, <2>2 DEF Undisturbed
<1>5. \A c : Booking(c) = {}
  BY <1>3 DEF Sole, Alone, Booking
<1>6. i \in Rows("completed") /\ audit[i].ok
  BY <1>1 DEF CleanWith, Rows
<1>7. WindowFills(i)' = WindowFills(i)
  BY Before DEF TypeOK
<1>8. Borrowed(i)
  BY <1>6, <1>7 DEF Borrowed, CleanWith
<1>9. \A k \in Rows("reconciled") : k < i
  <2>1. SUFFICES ASSUME NEW k \in Rows("reconciled") PROVE k < i
    OBVIOUS
  <2>2. k \in DOMAIN audit /\ k # i
    BY <1>6, <2>1 DEF Rows
  <2>3. k \in Nat /\ k < n /\ i \in Nat /\ k \in Rows("reconciled")'
    BY <1>1, <1>2, <2>1, <2>2
  <2>4. k \notin (i+1)..(n-1)
    BY <2>3 DEF CleanWith, Follows
  <2>5. QED
    BY <1>1, <2>2, <2>3, <2>4
<1>10. PICK c \in Contract : Short(c)
  BY <1>8, <1>9 DEF StaysShort
<1>11. Cardinality(Booking(c)) = 0 /\ Held(c) \in Nat /\ Expected(c) \in Nat
  BY <1>5, Counts, FS_EmptySet
<1>12. QED
  BY <1>4, <1>10, <1>11 DEF Short

\* An execution that is alone holds what it logged itself, so an error is a fill
\* of another one that is still open.
LEMMA RecordAlarm ==
    ASSUME TypeOK, Ordered, NEW p \in Proc, Alone(p) => Undisturbed(p),
           pc[p] = "record", job[p].run \notin overlap, ~ job[p].clean,
           NEW n, n = Len(audit) + 1,
           NEW i \in Rows("completed"), audit[i].ok, audit[i].by = job[p].run
    PROVE  \E k \in Rows("filled") :
              /\ k > Latest({m \in Rows("reconciled") : m < i}) /\ k < n
              /\ audit[k].by # job[p].run
<1>1. Alone(p) /\ Undisturbed(p)
  BY DEF Alone
<1>2. job[p].proving
  BY <1>1 DEF Undisturbed
<1>3. PaperCash >= 0 /\ \A c \in Contract : Held(c) = Cardinality(Own(p, c)) + 0
  BY <1>1, <1>2 DEF Undisturbed
<1>4. PICK c \in Contract : Held(c) # Expected(c)
  BY <1>1, <1>3 DEF Undisturbed
<1>5. Cardinality(Own(p, c)) # Cardinality(Open(c))
  BY <1>3, <1>4, Counts
<1>6. Own(p, c) \subseteq Open(c)
  BY <1>1 DEF Undisturbed, Own, Open, Rows
<1>7. PICK k \in Open(c) : k \notin Own(p, c)
  <2>1. Own(p, c) # Open(c)
    BY <1>5
  <2>2. QED
    BY <1>6, <2>1
<1>8. k \in Rows("filled") /\ k > LastClosed /\ audit[k].by # job[p].run
  BY <1>7 DEF Open, Own
<1>9. i > LastClosed
  BY <1>1 DEF Undisturbed, Rows
<1>10. Latest({m \in Rows("reconciled") : m < i}) = LastClosed
  <2>1. \A m \in Rows("reconciled") : m \in Nat /\ m <= LastClosed /\ i \in Nat /\ LastClosed \in Nat
    BY DEF Ordered, Rows, TypeOK
  <2>2. {m \in Rows("reconciled") : m < i} = Rows("reconciled")
    BY <1>9, <2>1
  <2>3. QED
    BY <2>2 DEF LastClosed
<1>11. k < n
  BY <1>8 DEF Rows, TypeOK
<1>12. QED
  BY <1>8, <1>10, <1>11

-----------------------------------------------------------------------------
\* Fills keep the contract they are of.
LEMMA NamedStep ==
    ASSUME TypeOK, Named, NEW p \in Proc, NEW at, NEW after, Step(p, at, after),
           at = "log" => after.fill \in Contract,
           NEW r \in Row, audit' = audit \/ audit' = Append(audit, r),
           r.act = "filled" => r.what \in Contract
    PROVE  Named'
<1>1. \A q \in Proc : /\ pc'[q] = IF q = p THEN at ELSE pc[q]
                      /\ job'[q] = IF q = p THEN after ELSE job[q]
  BY DEF TypeOK, Step
<1>2. \A k \in Rows("filled")' : audit'[k].what \in Contract
  <2>1. CASE audit' = audit
    BY <2>1 DEF Named, Rows
  <2>2. CASE audit' = Append(audit, r)
    <3>1. /\ \A k \in DOMAIN audit : audit'[k] = audit[k]
          /\ DOMAIN audit' = DOMAIN audit \cup {Len(audit) + 1}
          /\ audit'[Len(audit) + 1] = r
      BY <2>2, NewRow DEF TypeOK
    <3>2. QED
      BY <3>1 DEF Named, Rows
  <2>3. QED
    BY <2>1, <2>2
<1>3. \A q \in Proc : pc'[q] = "log" => job'[q].fill \in Contract
  BY <1>1 DEF Named
<1>4. QED
  BY <1>2, <1>3 DEF Named

\* What three properties say of the audit log, and hold on to while no row is added.
Judged == StaysShort /\ CleanIsEarned /\ AlarmIsExplained

LEMMA SomeRow == \E r \in Row : r.act = "halted"
<1>1. [act |-> "halted", what |-> "none", ok |-> TRUE, by |-> 0] \in Row
  BY DEF Row
<1>2. QED
  BY <1>1

LEMMA NoRow ==
    ASSUME TypeOK, Judged, audit' = audit, overlap \subseteq overlap',
           unlogged' = 0 => unlogged = 0 /\ \A c \in Contract : Short(c) => Short(c)'
    PROVE  Judged'
<1>1. PICK r \in Row : r.act = "halted"
  BY SomeRow
<1>2. PICK n : n = Len(audit) + 1
  OBVIOUS
<1>3. Grows(r)
  BY DEF Grows
<1>4. StaysShort'
  BY <1>1, <1>2, <1>3, ShortStep DEF Judged
<1>5. CleanIsEarned'
  BY <1>1, <1>2, <1>3, CleanStep DEF Judged
<1>6. AlarmIsExplained'
  BY <1>1, <1>2, <1>3, AlarmStep DEF Judged
<1>7. QED
  BY <1>4, <1>5, <1>6 DEF Judged

\* The invariant but for its types.
Apart ==
    /\ Numbered /\ Sole /\ Ordered /\ Named
    /\ \A p \in Proc : Alone(p) => Undisturbed(p)

\* A step that books and logs nothing.
LEMMA MemoryStep ==
    ASSUME TypeOK, Apart, Judged, NEW p \in Proc, NEW at, NEW after, Step(p, at, after),
           pc[p] # "idle", at # "log", pc[p] = "log" => unlogged' # 0,
           at # "idle" => after.run = job[p].run /\ after.proving = job[p].proving,
           after.run <= runs, runs' = runs, overlap' = overlap,
           unlogged' = 0 => unlogged = 0,
           audit' = audit, ledger' = ledger, Alone(p)' => Undisturbed(p)'
    PROVE  Apart' /\ Judged'
<1>1. PICK r \in Row : r.act = "halted"
  BY SomeRow
<1>2. Moves(p, at, after, r)
  BY DEF Moves
<1>3. Numbered' /\ Sole' /\ Ordered' /\ \A q \in Proc : Alone(q)' => Undisturbed(q)'
  BY <1>2, MoveStep DEF Apart
<1>4. Named'
  BY <1>1, NamedStep DEF Apart
<1>5. \A c : Expected(c)' = Expected(c) /\ Held(c)' = Held(c)
  BY SameStores
<1>6. unlogged' = 0 => unlogged = 0 /\ \A c \in Contract : Short(c) => Short(c)'
  BY <1>5, QuietShort
<1>7. Judged'
  BY <1>6, NoRow
<1>8. QED
  BY <1>3, <1>4, <1>7 DEF Apart

LEMMA StartsApart ==
    ASSUME TypeOK, Apart, Judged, NEW p \in Proc, StartProving(p) \/ StartTrader(p)
    PROVE  Apart' /\ Judged'
<1>1. PICK at \in {"reset", "armed"}, proving \in BOOLEAN, iterations \in {Iterations, 1} :
         Start(p, at, proving, iterations) /\ (at = "armed" => ~proving)
  <2>1. CASE StartProving(p)
    BY <2>1 DEF StartProving
  <2>2. CASE StartTrader(p)
    BY <2>2 DEF StartTrader
  <2>3. QED
    BY <2>1, <2>2
<1>2. Numbered' /\ Sole' /\ Ordered' /\ \A q \in Proc : Alone(q)' => Undisturbed(q)'
  BY <1>1, StartStep DEF Apart
<1>3. PICK after : /\ Step(p, at, after) /\ pc[p] = "idle" /\ audit' = audit /\ ledger' = ledger
                   /\ unlogged' = unlogged /\ overlap \subseteq overlap'
  BY <1>1 DEF Start
<1>4. at # "log"
  OBVIOUS
<1>5. Named'
  <2>1. PICK r \in Row : r.act = "halted"
    BY SomeRow
  <2>2. QED
    BY <1>3, <1>4, <2>1, NamedStep DEF Apart
<1>6. \A c : Expected(c)' = Expected(c) /\ Held(c)' = Held(c)
  BY <1>3, SameStores
<1>7. \A c : Short(c) => Short(c)'
  BY <1>3, <1>4, <1>6, QuietShort
<1>8. Judged'
  BY <1>3, <1>7, NoRow
<1>9. QED
  BY <1>2, <1>5, <1>8 DEF Apart

\* Steps in memory, an end or a death included.
LEMMA QuietActions ==
    ASSUME TypeOK, Apart, Judged, NEW p \in Proc,
           \/ TraderGo(p) \/ Plan(p) \/ ReadCash(p) \/ SkipFill(p) \/ CycleOver(p)
           \/ ReadAudit(p) \/ Compare(p) \/ Crash(p)
    PROVE  Apart' /\ Judged'
<1>0. /\ job[p] \in Job /\ runs \in Nat /\ lost \in Nat /\ unlogged \in Nat /\ job[p].run <= runs
      /\ Alone(p) => Undisturbed(p)
  BY DEF TypeOK, Apart, Numbered
<1>1. ASSUME Leave(p), pc[p] # "idle", pc[p] = "log" => unlogged' # 0,
             runs' = runs, overlap' = overlap, unlogged' = 0 => unlogged = 0,
             audit' = audit, ledger' = ledger
      PROVE  Apart' /\ Judged'
  <2>1. Step(p, "idle", NoJob) /\ NoJob.run <= runs /\ "idle" # "log"
    BY <1>0, <1>1 DEF Leave, NoJob
  <2>2. ~ Alone(p)'
    BY <2>1 DEF Alone, Step, TypeOK
  <2>3. QED
    BY <1>1, <2>1, <2>2, MemoryStep
<1>2. ASSUME NEW at, at \notin {"idle", "reset", "log"}, NEW after, Step(p, at, after),
             pc[p] \notin {"idle", "reset", "log"},
             after.run = job[p].run, after.proving = job[p].proving,
             at = "fill" => after.cash = PaperCash \/ (pc[p] = "fill" /\ after.cash = job[p].cash),
             at = "compare" => \A c \in Contract : after.exp[c] = Expected(c),
             at = "record" =>
                (Alone(p) => (after.clean <=> PaperCash >= 0 /\ \A c \in Contract : Held(c) = Expected(c))),
             runs' = runs, overlap' = overlap, unlogged' = unlogged,
             audit' = audit, ledger' = ledger
      PROVE  Apart' /\ Judged'
  <2>1. Alone(p)' => Undisturbed(p)'
    BY <1>0, <1>2, InMemory
  <2>2. QED
    BY <1>0, <1>2, <2>1, MemoryStep
<1>3. CASE TraderGo(p)
  <2>1. CASE stop
    BY <1>1, <1>3, <2>1 DEF TraderGo
  <2>2. CASE ~ stop
    BY <1>2, <1>3, <2>2 DEF TraderGo
  <2>3. QED
    BY <2>1, <2>2
<1>4. CASE Plan(p)
  <2>1. PICK plays : Step(p, "cash", [job[p] EXCEPT !.left = @ - 1, !.todo = plays])
    BY <1>4 DEF Plan
  <2>2. PICK after : after = [job[p] EXCEPT !.left = @ - 1, !.todo = plays]
    OBVIOUS
  <2>3. after.run = job[p].run /\ after.proving = job[p].proving
    BY <1>0, <2>2 DEF Job
  <2>4. Step(p, "cash", after)
    BY <2>1, <2>2
  <2>5. QED
    BY <1>2, <1>4, <2>3, <2>4 DEF Plan
<1>5. CASE ReadCash(p)
  <2>1. PICK after : /\ Step(p, "fill", after) /\ after.cash = PaperCash
                     /\ after.run = job[p].run /\ after.proving = job[p].proving
    BY <1>0, <1>5 DEF ReadCash, Job
  <2>2. QED
    BY <1>2, <1>5, <2>1 DEF ReadCash
<1>6. CASE SkipFill(p)
  <2>1. PICK c : Step(p, "fill", [job[p] EXCEPT !.todo = @ \ {c}])
    BY <1>6 DEF SkipFill
  <2>2. PICK after : /\ Step(p, "fill", after) /\ after.cash = job[p].cash
                     /\ after.run = job[p].run /\ after.proving = job[p].proving
    BY <1>0, <2>1 DEF Job
  <2>3. QED
    BY <1>2, <1>6, <2>2 DEF SkipFill
<1>7. CASE CycleOver(p)
  <2>1. PICK after : /\ Step(p, "top", after)
                     /\ after.run = job[p].run /\ after.proving = job[p].proving
    BY <1>0, <1>7 DEF CycleOver, Job
  <2>2. QED
    BY <1>2, <1>7, <2>1 DEF CycleOver
<1>8. CASE ReadAudit(p)
  <2>1. PICK after : /\ Step(p, "compare", after)
                     /\ after.run = job[p].run /\ after.proving = job[p].proving
                     /\ \A c \in Contract : after.exp[c] = Expected(c)
    BY <1>0, <1>8 DEF ReadAudit, Job
  <2>2. QED
    BY <1>2, <1>8, <2>1 DEF ReadAudit
<1>9. CASE Compare(p)
  <2> DEFINE found == PaperCash >= 0 /\ \A c \in Contract : Held(c) = job[p].exp[c]
  <2>0. PICK after : after = [job[p] EXCEPT !.exp = Nothing, !.clean = found]
    OBVIOUS
  <2>1. /\ Step(p, "record", after)
        /\ after.run = job[p].run /\ after.proving = job[p].proving
        /\ after.clean = found
    <3>1. Step(p, "record", after)
      BY <1>9, <2>0 DEF Compare
    <3> HIDE DEF found
    <3>2. after.run = job[p].run /\ after.proving = job[p].proving /\ after.clean = found
      BY <1>0, <2>0 DEF Job
    <3>3. QED
      BY <3>1, <3>2
  <2>2. pc[p] = "compare"
    BY <1>9 DEF Compare
  <2>3. Alone(p) => \A c \in Contract : job[p].exp[c] = Expected(c)
    BY <1>0, <2>2 DEF Undisturbed
  <2>4. Alone(p) => (after.clean <=> PaperCash >= 0 /\ \A c \in Contract : Held(c) = Expected(c))
    BY <2>1, <2>3
  <2>5. QED
    BY <1>2, <1>9, <2>1, <2>2, <2>4 DEF Compare
<1>10. CASE Crash(p)
  BY <1>0, <1>1, <1>10 DEF Crash
<1>11. QED
  BY <1>3, <1>4, <1>5, <1>6, <1>7, <1>8, <1>9, <1>10

\* Steps that change the ledger.
LEMMA LedgerActions ==
    ASSUME TypeOK, Apart, Judged, NEW p \in Proc, Reset(p) \/ Book(p)
    PROVE  Apart' /\ Judged'
<1>0. /\ job[p] \in Job /\ job[p].run <= runs /\ (Alone(p) => Undisturbed(p)) /\ Ordered
      /\ audit' = audit /\ runs' = runs /\ overlap' = overlap /\ unlogged' = unlogged
      /\ pc[p] # "idle"
  BY DEF TypeOK, Apart, Numbered, Reset, Book
<1>1. PICK r \in Row : r.act = "halted"
  BY SomeRow
<1>2. PICK at, after : /\ Step(p, at, after)
                       /\ after.run = job[p].run /\ after.proving = job[p].proving
                       /\ at = "log" => after.fill \in Contract
  <2>1. CASE Reset(p)
    BY <2>1, "top" # "log" DEF Reset
  <2>2. CASE Book(p)
    <3>1. PICK b \in job[p].todo :
             Step(p, "log", [job[p] EXCEPT !.todo = @ \ {b}, !.cash = @ - 1, !.fill = b])
      BY <2>2 DEF Book
    <3>2. b \in Contract
      BY <1>0, <3>1 DEF Job
    <3>3. PICK after : after = [job[p] EXCEPT !.todo = @ \ {b}, !.cash = @ - 1, !.fill = b]
      OBVIOUS
    <3>4. after.run = job[p].run /\ after.proving = job[p].proving /\ after.fill = b
      BY <1>0, <3>3 DEF Job
    <3>5. Step(p, "log", after)
      BY <3>1, <3>3
    <3>6. QED
      BY <3>2, <3>4, <3>5
  <2>3. QED
    BY <2>1, <2>2
<1>3. Alone(p)' => Undisturbed(p)'
  BY <1>0, ResetAlone, BookAlone
<1>4. Moves(p, at, after, r)
  BY <1>0, <1>2 DEF Moves
<1>5. Numbered' /\ Sole' /\ Ordered' /\ \A q \in Proc : Alone(q)' => Undisturbed(q)'
  BY <1>3, <1>4, MoveStep DEF Apart
<1>6. Named'
  BY <1>0, <1>1, <1>2, NamedStep DEF Apart
<1>7. \A c \in Contract : Short(c) => Short(c)'
  BY ResetShort, BookShort
<1>8. Judged'
  BY <1>0, <1>7, NoRow
<1>9. QED
  BY <1>5, <1>6, <1>8 DEF Apart

\* Steps that add a row.
LEMMA LogAction ==
    ASSUME TypeOK, Apart, Judged, NEW p \in Proc, LogFill(p)
    PROVE  Apart' /\ Judged'
<1>0. /\ job[p] \in Job /\ job[p].run <= runs /\ (Alone(p) => Undisturbed(p)) /\ Ordered
      /\ runs' = runs /\ overlap' = overlap /\ unlogged' = unlogged /\ pc[p] = "log"
      /\ job[p].fill \in Contract
  BY DEF TypeOK, Apart, Numbered, Named, LogFill
<1>1. [act |-> "filled", what |-> job[p].fill, ok |-> TRUE, by |-> job[p].run] \in Row
  BY <1>0 DEF Job, Row
<1>2. PICK r \in Row : /\ audit' = Append(audit, r)
                       /\ r.act = "filled" /\ r.what = job[p].fill /\ r.by = job[p].run
  BY <1>1 DEF LogFill, LogRow
<1>3. PICK after : /\ Step(p, "fill", after)
                   /\ after.run = job[p].run /\ after.proving = job[p].proving
  BY <1>0 DEF LogFill, Job
<1>4. Alone(p)' => Undisturbed(p)'
  BY <1>0, LogAlone
<1>5. Moves(p, "fill", after, r)
  BY <1>0, <1>2, <1>3 DEF Moves
<1>6. Numbered' /\ Sole' /\ Ordered' /\ \A q \in Proc : Alone(q)' => Undisturbed(q)'
  BY <1>4, <1>5, MoveStep DEF Apart
<1>7. Named'
  BY <1>0, <1>2, <1>3, NamedStep DEF Apart
<1>8. PICK n : n = Len(audit) + 1
  OBVIOUS
<1>9. Grows(r)
  BY <1>0, <1>2 DEF Grows
<1>10. \A c \in Contract : Short(c) => Short(c)'
  BY <1>0, LogShort
<1>11. StaysShort'
  BY <1>2, <1>8, <1>9, <1>10, ShortStep DEF Judged
<1>12. CleanIsEarned'
  BY <1>2, <1>8, <1>9, CleanStep DEF Judged
<1>13. AlarmIsExplained'
  BY <1>2, <1>8, <1>9, AlarmStep DEF Judged
<1>14. QED
  BY <1>6, <1>7, <1>11, <1>12, <1>13 DEF Apart, Judged

\* The loop's last row: only a completed run can be judged.
LEMMA EndActions ==
    ASSUME TypeOK, Apart, Judged, NEW p \in Proc, Halt(p) \/ Complete(p)
    PROVE  Apart' /\ Judged'
<1>0. /\ job[p] \in Job /\ job[p].run <= runs /\ (Alone(p) => Undisturbed(p)) /\ Ordered /\ Named
      /\ runs' = runs /\ overlap' = overlap /\ unlogged' = unlogged /\ pc[p] = "top"
      /\ Step(p, "expect", job[p]) /\ ledger' = ledger
  BY DEF TypeOK, Apart, Numbered, Halt, Complete
<1>1. PICK r \in Row :
         /\ audit' = Append(audit, r) /\ r.by = job[p].run
         /\ \/ r.act = "halted"
            \/ r.act = "completed" /\ r.ok = job[p].proving /\ Complete(p)
  <2>1. CASE Halt(p)
    <3>1. [act |-> "halted", what |-> "none", ok |-> FALSE, by |-> job[p].run] \in Row
      BY <1>0 DEF Job, Row
    <3>2. QED
      BY <2>1, <3>1 DEF Halt, LogRow
  <2>2. CASE Complete(p)
    <3>1. [act |-> "completed", what |-> "none", ok |-> job[p].proving, by |-> job[p].run] \in Row
      BY <1>0 DEF Job, Row
    <3>2. QED
      BY <2>2, <3>1 DEF Complete, LogRow
  <2>3. QED
    BY <2>1, <2>2
<1>2. r.act \in {"completed", "halted"} /\ r.act # "filled" /\ r.act # "reconciled"
  BY <1>1
<1>3. job'[p] = job[p]
  BY <1>0 DEF Step, TypeOK
<1>4. Alone(p)' => Undisturbed(p)'
  <2>1. r.act = "completed" /\ r.ok => job[p].proving
    BY <1>1
  <2>2. QED
    BY <1>0, <1>1, <1>2, <2>1, EndAlone
<1>5. Moves(p, "expect", job[p], r)
  BY <1>0, <1>1 DEF Moves
<1>6. Numbered' /\ Sole' /\ Ordered' /\ \A q \in Proc : Alone(q)' => Undisturbed(q)'
  BY <1>4, <1>5, MoveStep DEF Apart
<1>7. Named'
  BY <1>0, <1>1, <1>2, NamedStep
<1>8. PICK n : n = Len(audit) + 1
  OBVIOUS
<1>9. Grows(r)
  BY <1>0, <1>1 DEF Grows
<1>10. \A c \in Contract : Short(c) => Short(c)'
  <2>1. \A c : Expected(c)' = Expected(c)
    BY <1>1, <1>2, <1>3, NotLogged, <1>0
  <2>2. \A c : Held(c)' = Held(c)
    BY <1>0 DEF Held
  <2>3. QED
    BY <1>0, <2>1, <2>2, QuietShort
<1>11. StaysShort'
  <2>1. r.act = "completed" /\ Borrowed(n)' => \E c \in Contract : Short(c)'
    BY <1>0, <1>1, <1>8, BorrowedShort
  <2>2. QED
    BY <1>2, <1>8, <1>9, <1>10, <2>1, ShortStep DEF Judged
<1>12. CleanIsEarned'
  BY <1>2, <1>8, <1>9, CleanStep DEF Judged
<1>13. AlarmIsExplained'
  <2>1. r.by \notin overlap' => \A j \in Rows("reconciled") : audit[j].by # r.by
    <3>1. SUFFICES ASSUME r.by \notin overlap', NEW j \in Rows("reconciled"), audit[j].by = r.by
                   PROVE  FALSE
      OBVIOUS
    <3>2. Undisturbed(p)
      BY <1>0, <1>1, <3>1 DEF Alone
    <3>3. j > LastClosed /\ j <= LastClosed
      BY <1>0, <1>1, <3>1, <3>2 DEF Undisturbed, Ordered, Rows
    <3>4. j \in Nat /\ LastClosed \in Nat
      BY <1>0, <3>1 DEF Ordered, Rows, TypeOK
    <3>5. QED
      BY <3>3, <3>4
  <2>2. QED
    BY <1>2, <1>8, <1>9, <2>1, AlarmStep DEF Judged
<1>14. QED
  BY <1>6, <1>7, <1>11, <1>12, <1>13 DEF Apart, Judged

\* The reconcile row closes what was open, and adds a judgement.
LEMMA RecordAction ==
    ASSUME TypeOK, Apart, Judged, NEW p \in Proc, Record(p)
    PROVE  Apart' /\ Judged'
<1>0. /\ job[p] \in Job /\ NoJob.run <= runs /\ (Alone(p) => Undisturbed(p)) /\ Ordered /\ Named
      /\ runs' = runs /\ overlap' = overlap /\ unlogged' = unlogged /\ pc[p] = "record"
      /\ Step(p, "idle", NoJob) /\ Sole /\ StaysShort
  BY DEF TypeOK, Apart, Record, Leave, NoJob, Judged
<1>1. [act |-> "reconciled", what |-> "none", ok |-> job[p].clean, by |-> job[p].run] \in Row
  BY <1>0 DEF Job, Row
<1>2. PICK r \in Row : /\ audit' = Append(audit, r)
                       /\ r.act = "reconciled" /\ r.ok = job[p].clean /\ r.by = job[p].run
  BY <1>1 DEF Record, LogRow
<1>3. ~ Alone(p)'
  BY <1>0 DEF Alone, Step, TypeOK
<1>4. Moves(p, "idle", NoJob, r)
  BY <1>0, <1>2 DEF Moves
<1>5. Numbered' /\ Sole' /\ Ordered' /\ \A q \in Proc : Alone(q)' => Undisturbed(q)'
  BY <1>3, <1>4, MoveStep DEF Apart
<1>6. Named'
  BY <1>0, <1>2, "idle" # "log", NamedStep
<1>7. PICK n : n = Len(audit) + 1
  OBVIOUS
<1>8. Grows(r) /\ audit' # audit
  <2>1. audit' # audit
    <3>1. Len(audit') = Len(audit) + 1 /\ Len(audit) \in Nat
      BY <1>2 DEF TypeOK
    <3>2. QED
      BY <3>1
  <2>2. QED
    BY <1>0, <1>2, <2>1 DEF Grows
<1>9. StaysShort'
  BY <1>2, <1>7, <1>8, ShortStep DEF Judged
<1>10. CleanIsEarned'
  <2>1. \A i \in DOMAIN audit :
           /\ unlogged' = 0 /\ CleanWith(i, n)'
           /\ audit[i].by \notin overlap' /\ r.by \notin overlap'
           => FillsOf(audit[i].by) # {}
    BY <1>0, <1>2, <1>7, RecordClean
  <2>2. QED
    BY <1>2, <1>7, <1>8, <2>1, CleanStep DEF Judged
<1>11. AlarmIsExplained'
  <2>1. ~ r.ok /\ r.by \notin overlap' =>
           \A i \in Rows("completed") :
              audit[i].ok /\ audit[i].by = r.by =>
                 \E k \in Rows("filled") :
                    /\ k > Latest({m \in Rows("reconciled") : m < i}) /\ k < n
                    /\ audit[k].by # r.by
    BY <1>0, <1>2, <1>7, RecordAlarm
  <2>2. QED
    BY <1>2, <1>7, <1>8, <2>1, AlarmStep DEF Judged
<1>12. QED
  BY <1>5, <1>6, <1>9, <1>10, <1>11 DEF Apart, Judged

-----------------------------------------------------------------------------
LEMMA ReconInit == Init => RInv
<1> SUFFICES ASSUME Init PROVE RInv
  OBVIOUS
<1>1. TypeOK
  BY TypeInit
<1>2. \A p \in Proc : pc[p] = "idle" /\ job[p].run = 0
  BY DEF Init, NoJob
<1>3. audit = <<>> /\ runs = 0
  BY DEF Init
<1>4. DOMAIN audit = {} /\ \A act : Rows(act) = {}
  BY <1>3 DEF Rows
<1>5. Latest({}) = 0
  BY DEF Latest
<1>6. LastClosed = 0 /\ Latest(Boundaries) = 0 /\ Boundaries = {}
  BY <1>4, <1>5 DEF LastClosed, Boundaries
<1>7. Ordered
  BY <1>4, <1>6 DEF Ordered
<1>8. Numbered /\ Sole /\ Named
  BY <1>2, <1>3, <1>4 DEF Numbered, Sole, Named
<1>9. \A p \in Proc : ~ Alone(p)
  BY <1>2 DEF Alone
<1>10. StaysShort /\ CleanIsEarned /\ AlarmIsExplained
  BY <1>4 DEF StaysShort, CleanIsEarned, AlarmIsExplained
<1>11. QED
  BY <1>1, <1>7, <1>8, <1>9, <1>10 DEF RInv

LEMMA ReconStep == RInv /\ [Next]_vars => RInv'
<1> SUFFICES ASSUME TypeOK, Apart, Judged, [Next]_vars PROVE Apart' /\ Judged'
  BY TypeStep DEF RInv, Apart, Judged
<1>1. ASSUME NEW p \in Proc,
             \/ StartProving(p) \/ StartTrader(p) \/ Reset(p) \/ TraderGo(p)
             \/ Halt(p) \/ Plan(p) \/ ReadCash(p) \/ SkipFill(p) \/ Book(p) \/ LogFill(p)
             \/ CycleOver(p) \/ Complete(p) \/ ReadAudit(p) \/ Compare(p) \/ Record(p)
             \/ Crash(p)
      PROVE  Apart' /\ Judged'
  BY <1>1, StartsApart, QuietActions, LedgerActions, LogAction, EndActions, RecordAction
<1>2. ASSUME UNCHANGED <<ledger, audit, pc, job, runs, overlap, unlogged>>
      PROVE  Apart' /\ Judged'
  <2>1. /\ LastClosed' = LastClosed /\ PaperCash' = PaperCash
        /\ \A act : Rows(act)' = Rows(act)
        /\ \A c : Expected(c)' = Expected(c) /\ Held(c)' = Held(c)
        /\ \A p, c : Own(p, c)' = Own(p, c)
    BY <1>2, SameStores
  <2>2. \A c : Booking(c)' = Booking(c)
    BY <1>2 DEF Booking
  <2>3. Judged'
    BY <1>2, <2>1, <2>2, NoRow DEF Short
  <2>4. Boundaries' = Boundaries
    BY <2>1 DEF Boundaries
  <2>5. Ordered'
    BY <2>1, <2>4 DEF Apart, Ordered
  <2>6. Numbered' /\ Sole' /\ Named'
    BY <1>2, <2>1 DEF Apart, Numbered, Sole, Named
  <2>7. \A p \in Proc : Alone(p)' => Undisturbed(p)'
    <3>1. SUFFICES ASSUME NEW p \in Proc, Alone(p)' PROVE Undisturbed(p)'
      OBVIOUS
    <3>2. Undisturbed(p)
      BY <1>2, <3>1 DEF Alone, Apart
    <3>3. \A c : Cardinality(Own(p, c))' = Cardinality(Own(p, c))
      BY <2>1
    <3>4. QED
      BY <1>2, <2>1, <3>2, <3>3 DEF Undisturbed
  <2>8. QED
    BY <2>3, <2>5, <2>6, <2>7 DEF Apart
<1>3. QED
  BY <1>1, <1>2 DEF Next, ToggleStop, vars

\* A run that the readiness gate judges clean has filled something itself unless
\* a fill was never logged or another execution ran at the same time, for every
\* number of executions, processes, contracts and deaths.
THEOREM CleanHolds == Spec => []CleanIsEarned
<1>1. RInv => CleanIsEarned
  BY DEF RInv
<1>2. QED
  BY <1>1, ReconInit, ReconStep, PTL DEF Spec

\* A proving run that completed alone reconciles with errors only over fills an
\* earlier execution left open in the audit log, whatever happened before.
THEOREM AlarmHolds == Spec => []AlarmIsExplained
<1>1. RInv => AlarmIsExplained
  BY DEF RInv
<1>2. QED
  BY <1>1, ReconInit, ReconStep, PTL DEF Spec
=============================================================================
