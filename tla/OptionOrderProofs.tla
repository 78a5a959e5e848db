-------------------------- MODULE OptionOrderProofs --------------------------
(***************************************************************************)
(* Proofs about OptionOrder: its types, how far the premium at risk passes *)
(* its cap, how many orders pass a lane that was disarmed or stopped, and  *)
(* that an order sent again is not ordered again.                          *)
(***************************************************************************)
EXTENDS OptionOrder, FiniteSetTheorems, SequenceTheorems, TLAPS

-----------------------------------------------------------------------------
(***************************************************************************)
(* Types.                                                                  *)
(***************************************************************************)

LEMMA AtLeastNat ==
    ASSUME NEW a \in Nat, NEW b \in Nat
    PROVE  AtLeast(a, b) \in Nat /\ AtLeast(a, b) >= a /\ AtLeast(a, b) >= b
BY DEF AtLeast

LEMMA InFinite ==
    ASSUME TypeOK, NEW states, NEW side
    PROVE  IsFiniteSet(In(states, side)) /\ Cardinality(In(states, side)) \in Nat
<1>1. DOMAIN orders = 1..Len(orders) /\ Len(orders) \in Nat
  BY DEF TypeOK
<1>2. IsFiniteSet(DOMAIN orders)
  BY <1>1, FS_Interval
<1>3. In(states, side) \subseteq DOMAIN orders
  BY DEF In
<1>. QED
  BY <1>2, <1>3, FS_Subset, FS_CardinalityType

LEMMA PremiumNat ==
    ASSUME TypeOK
    PROVE  OpenPremium \in Nat
BY InFinite, CapAssumption DEF OpenPremium

LEMMA CountedNat ==
    ASSUME TypeOK, NEW p \in Proc, NEW readable \in BOOLEAN
    PROVE  Counted(p, readable) \in Nat
<1>1. job[p].open \in Nat
  BY DEF TypeOK, Job
<1>. QED
  BY <1>1, PremiumNat, AtLeastNat DEF Counted

\* Setting the control state and the job of one session keeps their types.
LEMMA GoType ==
    ASSUME TypeOK, NEW p \in Proc, NEW to \in Pc, NEW after \in Job, Go(p, to, after)
    PROVE  pc' \in [Proc -> Pc] /\ job' \in [Proc -> Job]
BY DEF Go, TypeOK

LEMMA NoJobType == NoJob \in Job
BY DEF NoJob, Job

LEMMA AskType ==
    ASSUME NEW j \in Job, NEW r \in Request, NEW n \in Nat, NEW d \in Nat
    PROVE  [j EXCEPT !.asked = r, !.intent = n, !.day = d] \in Job
BY DEF Job

LEMMA RefuseType ==
    ASSUME TypeOK, NEW p \in Proc, Refuse(p)
    PROVE  pc' \in [Proc -> Pc] /\ job' \in [Proc -> Job]
BY GoType, NoJobType DEF Refuse, Pc

LEMMA ClosedType ==
    ASSUME NEW o \in Order, NEW state \in {"resting", "held", "closed", "cancelled", "expired"}
    PROVE  [o EXCEPT !.state = state] \in Order
BY DEF Order

LEMMA ExceptInSeq ==
    ASSUME NEW S, NEW s \in Seq(S), NEW i \in DOMAIN s, NEW e \in S
    PROVE  /\ [s EXCEPT ![i] = e] \in Seq(S)
           /\ DOMAIN [s EXCEPT ![i] = e] = DOMAIN s
OBVIOUS

LEMMA SetStateType ==
    ASSUME TypeOK, NEW k \in DOMAIN orders,
           NEW state \in {"resting", "held", "closed", "cancelled", "expired"}, SetState(k, state)
    PROVE  orders' \in Seq(Order)
<1>1. orders[k] \in Order
  BY DEF TypeOK
<1>2. [orders[k] EXCEPT !.state = state] \in Order
  BY <1>1 DEF Order
<1>. QED
  BY <1>2 DEF SetState, TypeOK

LEMMA TypeStep ==
    ASSUME TypeOK, [Next]_vars
    PROVE  TypeOK'
<1>. USE DEF Pc
<1>1. ASSUME NEW p \in Proc, Begin(p) PROVE TypeOK'
  <2>1. PICK r \in Request : Go(p, "arm", [NoJob EXCEPT !.asked = r, !.intent = intents + 1, !.day = today])
    BY <1>1 DEF Begin
  <2>2. [NoJob EXCEPT !.asked = r, !.intent = intents + 1, !.day = today] \in Job
    <3>1. intents + 1 \in Nat /\ today \in Nat
      BY DEF TypeOK
    <3>. QED
      BY <3>1, NoJobType, AskType, Zenon
  <2>. QED
    BY <1>1, <2>1, <2>2, GoType DEF Begin, TypeOK, world
<1>2. ASSUME NEW p \in Proc, BrokerArm(p) \/ ClientArm(p) \/ BrokerKill(p) \/ ClientKill(p)
      PROVE  TypeOK'
  <2>1. job[p] \in Job
    BY DEF TypeOK
  <2>2. pc' \in [Proc -> Pc] /\ job' \in [Proc -> Job]
    BY <1>2, <2>1, GoType, RefuseType DEF BrokerArm, ClientArm, BrokerKill, ClientKill, ArmGate, KillGate
  <2>. QED
    BY <1>2, <2>2 DEF BrokerArm, ClientArm, BrokerKill, ClientKill, ArmGate, KillGate, TypeOK, world
<1>3. ASSUME NEW p \in Proc, BrokerRead(p) PROVE TypeOK'
  <2>1. PICK readable \in BOOLEAN :
          /\ Readable(readable)
          /\ \/ Go(p, "kill", [job[p] EXCEPT !.open = Counted(p, readable)])
             \/ Refuse(p)
    BY <1>3, Zenon DEF BrokerRead
  <2>2. [job[p] EXCEPT !.open = Counted(p, readable)] \in Job
    BY CountedNat DEF TypeOK, Job
  <2>3. pc' \in [Proc -> Pc] /\ job' \in [Proc -> Job]
    BY <2>1, <2>2, GoType, RefuseType
  <2>4. lost' \in Nat
    BY <2>1 DEF Readable, TypeOK
  <2>. QED
    BY <1>3, <2>3, <2>4 DEF BrokerRead, TypeOK, world
<1>4. ASSUME NEW p \in Proc, ClientRead(p) PROVE TypeOK'
  <2>1. PICK readable \in BOOLEAN :
          /\ Readable(readable)
          /\ \/ Go(p, "clientKill", [job[p] EXCEPT !.open = Counted(p, readable),
                       !.careful = readable /\ In({"resting"}, "buy") = {}])
             \/ Refuse(p)
    BY <1>4, Zenon DEF ClientRead
  <2>2. [job[p] EXCEPT !.open = Counted(p, readable),
                       !.careful = readable /\ In({"resting"}, "buy") = {}] \in Job
    BY CountedNat DEF TypeOK, Job
  <2>3. pc' \in [Proc -> Pc] /\ job' \in [Proc -> Job]
    BY <2>1, <2>2, GoType, RefuseType
  <2>4. lost' \in Nat
    BY <2>1 DEF Readable, TypeOK
  <2>. QED
    BY <1>4, <2>3, <2>4 DEF ClientRead, TypeOK, world
<1>5. ASSUME NEW p \in Proc, SendNew(p) PROVE TypeOK'
  <2>. DEFINE others == [q \in Proc |-> [job[q] EXCEPT !.careful = FALSE]]
  <2>1. others \in [Proc -> Job]
    BY DEF TypeOK, Job
  <2>2. pc' \in [Proc -> Pc] /\ job' \in [Proc -> Job] /\ lost' \in Nat
    <3>1. \/ /\ pc' = [pc EXCEPT ![p] = "idle"] /\ job' = [others EXCEPT ![p] = NoJob] /\ lost' = lost
          \/ /\ pc' = [pc EXCEPT ![p] = "unknown"] /\ job' = others /\ lost' = lost + 1
      BY <1>5 DEF SendNew, Learn
    <3>. HIDE DEF others
    <3>. QED
      BY <3>1, <2>1, NoJobType DEF TypeOK
  <2>3. job[p].asked \in Request
    <3>1. Fits(job[p].asked) /\ job[p] \in Job
      BY <1>5 DEF SendNew, TypeOK
    <3>2. job[p].asked # NoRequest
      BY <3>1 DEF Fits, NoRequest
    <3>. QED
      BY <3>1, <3>2 DEF Job
  <2>4. [ref |-> job[p].asked, state |-> "resting",
         intent |-> job[p].intent, careful |-> job[p].careful] \in Order
    BY <2>3 DEF TypeOK, Job, Order
  <2>5. orders' \in Seq(Order)
    BY <1>5, <2>4 DEF SendNew, Take, TypeOK
  <2>6. late' \in [arm : Nat, stop : Nat]
    BY <1>5 DEF SendNew, Take, TypeOK
  <2>. QED
    BY <1>5, <2>2, <2>5, <2>6 DEF SendNew, TypeOK, world
<1>6. ASSUME NEW p \in Proc, SendKnown(p) PROVE TypeOK'
  <2>1. pc' \in [Proc -> Pc] /\ job' \in [Proc -> Job] /\ lost' \in Nat
    BY <1>6, NoJobType DEF SendKnown, Learn, TypeOK
  <2>. QED
    BY <1>6, <2>1 DEF SendKnown, TypeOK, world
<1>7. ASSUME NEW p \in Proc, Retry(p) PROVE TypeOK'
  <2>1. [job[p] EXCEPT !.open = 0, !.careful = FALSE, !.day = today] \in Job
    BY DEF TypeOK, Job
  <2>. QED
    BY <1>7, <2>1, GoType DEF Retry, TypeOK, world
<1>8. ASSUME NEW p \in Proc, GiveUp(p) PROVE TypeOK'
  BY <1>8, GoType, NoJobType DEF GiveUp, TypeOK, world
<1>9. ASSUME FillBuy \/ Cancel PROVE TypeOK'
  <2>1. PICK k \in DOMAIN orders, state \in {"held", "cancelled"} : SetState(k, state)
    BY <1>9 DEF FillBuy, Cancel, In
  <2>3. orders' \in Seq(Order)
    BY <2>1, SetStateType
  <2>. QED
    BY <1>9, <2>3 DEF FillBuy, Cancel, TypeOK, world
<1>10. ASSUME FillSell PROVE TypeOK'
  <2>1. PICK s \in In({"resting"}, "sell"), k \in In({"held"}, "buy") :
          orders' = [orders EXCEPT ![s].state = "closed", ![k].state = "closed"]
    BY <1>10, Zenon DEF FillSell
  <2>2. s \in DOMAIN orders /\ k \in DOMAIN orders
    BY <2>1 DEF In
  <2>. DEFINE one == [orders EXCEPT ![s].state = "closed"]
  <2>3. [orders[s] EXCEPT !.state = "closed"] \in Order
    <3>1. orders[s] \in Order
      BY <2>2 DEF TypeOK
    <3>. QED
      BY <3>1, ClosedType
  <2>4. one \in Seq(Order) /\ DOMAIN one = DOMAIN orders
    <3>1. one = [orders EXCEPT ![s] = [orders[s] EXCEPT !.state = "closed"]]
      OBVIOUS
    <3>. QED
      BY <2>2, <2>3, <3>1, ExceptInSeq DEF TypeOK
  <2>5. [one[k] EXCEPT !.state = "closed"] \in Order
    <3>1. one[k] \in Order
      BY <2>2, <2>4
    <3>. QED
      BY <3>1, ClosedType
  <2>6. orders' = [one EXCEPT ![k].state = "closed"]
    BY <2>1
  <2>. HIDE DEF one
  <2>7. orders' \in Seq(Order)
    BY <2>2, <2>4, <2>5, <2>6
  <2>. QED
    BY <1>10, <2>7 DEF FillSell, TypeOK, world
<1>11. ASSUME Arm \/ Disarm \/ ToggleStop PROVE TypeOK'
  <2>1. late' \in [arm : Nat, stop : Nat]
    <3>1. late \in [arm : Nat, stop : Nat]
      BY DEF TypeOK
    <3>2. [late EXCEPT !.arm = 0] \in [arm : Nat, stop : Nat]
          /\ [late EXCEPT !.stop = 0] \in [arm : Nat, stop : Nat]
      BY <3>1
    <3>. QED
      BY <1>11, <3>1, <3>2 DEF Arm, Disarm, ToggleStop
  <2>2. armed' \in BOOLEAN /\ stop' \in BOOLEAN
    BY <1>11 DEF Arm, Disarm, ToggleStop, TypeOK
  <2>. QED
    BY <1>11, <2>1, <2>2 DEF Arm, Disarm, ToggleStop, TypeOK
<1>12. ASSUME NewDay PROVE TypeOK'
  <2>1. ASSUME NEW k \in DOMAIN orders PROVE [orders[k] EXCEPT !.state = "expired"] \in Order /\ orders[k] \in Order
    <3>1. orders[k] \in Order
      BY DEF TypeOK
    <3>. QED
      BY <3>1, ClosedType
  <2> DEFINE aged == [k \in DOMAIN orders |->
                        IF Expiry[orders[k].ref.contract] = today /\ orders[k].state \in {"resting", "held"}
                        THEN [orders[k] EXCEPT !.state = "expired"] ELSE orders[k]]
  <2>2. \A k \in DOMAIN orders : aged[k] \in Order
    BY <2>1
  <2>3. DOMAIN aged = 1 .. Len(orders) /\ Len(orders) \in Nat
    BY DEF TypeOK
  <2>4. orders' = aged
    BY <1>12 DEF NewDay
  <2>. HIDE DEF aged
  <2>5. DOMAIN orders = 1 .. Len(orders)
    BY DEF TypeOK
  <2>6. aged = [k \in 1 .. Len(orders) |-> aged[k]]
    BY <2>3, Zenon DEF aged
  <2>7. aged \in [1 .. Len(orders) -> Order]
    BY <2>2, <2>5, <2>6
  <2>8. orders' \in Seq(Order)
    BY <2>3, <2>4, <2>7, SeqDef
  <2>. QED
    BY <1>12, <2>8 DEF NewDay, TypeOK
<1>13. CASE UNCHANGED vars
  BY <1>13 DEF vars, world, TypeOK
<1>. QED
  BY <1>1, <1>2, <1>3, <1>4, <1>5, <1>6, <1>7, <1>8, <1>9, <1>10, <1>11, <1>12, <1>13 DEF Next

LEMMA TypeInit ==
    ASSUME Init
    PROVE  TypeOK
<1>1. orders \in Seq(Order) /\ today \in Nat /\ intents \in Nat /\ lost \in Nat
  BY DEF Init
<1>2. pc \in [Proc -> Pc] /\ job \in [Proc -> Job]
  BY NoJobType DEF Init, Pc
<1>3. late \in [arm : Nat, stop : Nat] /\ armed \in BOOLEAN /\ stop \in BOOLEAN
  BY DEF Init
<1>. QED
  BY <1>1, <1>2, <1>3 DEF TypeOK

\* The types hold for every finite set of contracts and sessions, every cap and
\* any number of orders, days and lost answers.
THEOREM TypeCorrect == Spec => []TypeOK
BY TypeInit, TypeStep, PTL DEF Spec

-----------------------------------------------------------------------------
(***************************************************************************)
(* The premium at risk.  A careful session leaves room for its own order:  *)
(* every buy that is live when it is sent was counted, and a later one     *)
(* makes it careless.                                                      *)
(***************************************************************************)

Careful == {k \in Live : orders[k].careful}

Room(p) ==
    /\ pc[p] \in {"clientKill", "send"} /\ job[p].careful /\ job[p].asked.side = "buy"
    => Multiplier * Cardinality(Live) + Multiplier <= TotalCap

CapInv ==
    /\ TypeOK
    /\ \A p \in Proc : Room(p)
    /\ Multiplier * Cardinality(Careful) <= TotalCap

LEMMA Times ==
    ASSUME NEW a \in Nat, NEW b \in Nat
    PROVE  /\ a <= b => Multiplier * a <= Multiplier * b
           /\ Multiplier * (a + b) = Multiplier * a + Multiplier * b
           /\ Multiplier * a \in Nat
<1>1. Multiplier \in Nat
  BY CapAssumption
<1>2. ASSUME a <= b PROVE Multiplier * a <= Multiplier * b
  <2>1. b - a \in Nat /\ Multiplier * (b - a) >= 0
    BY <1>1, <1>2
  <2>2. Multiplier * b = Multiplier * a + Multiplier * (b - a)
    BY <1>1
  <2>. QED
    BY <1>1, <2>1, <2>2
<1>. QED
  BY <1>1, <1>2

LEMMA LiveFinite ==
    ASSUME TypeOK
    PROVE  /\ IsFiniteSet(Live) /\ Cardinality(Live) \in Nat
           /\ IsFiniteSet(Careful) /\ Cardinality(Careful) \in Nat
           /\ Cardinality(Careful) <= Cardinality(Live)
<1>1. IsFiniteSet(Live) /\ Cardinality(Live) \in Nat
  BY InFinite DEF Live
<1>2. Careful \subseteq Live
  BY DEF Careful
<1>. QED
  BY <1>1, <1>2, FS_Subset, FS_CardinalityType

\* The client's caps let an order for one contract pass only if there is room.
LEMMA CapsLeaveRoom ==
    ASSUME NEW r \in Request, NEW day \in Nat, NEW open \in Nat, r.side = "buy",
           ClientCaps(OrderOf(r, day), {3}, open) = {}
    PROVE  open + Multiplier <= TotalCap
<1>. DEFINE o    == OrderOf(r, day)
            loss == EffectiveLoss(o)
            pr   == Proposal(o, loss)
<1>1. KnownDte(o) # {}
  BY DEF KnownDte, OrderOf
<1>2. Evaluate(pr, {3}, AtLeast(open, 0)) = {}
  BY <1>1 DEF ClientCaps, CapsWith
<1>3. TotalGate(pr, AtLeast(open, 0)) = {}
  BY <1>2 DEF Evaluate
<1>4. PremiumAtRisk(pr) = Multiplier
  <2>1. o.price = 1 /\ o.quantity = 1 /\ o.loss = {} /\ Buys(o.legs) # {}
    BY DEF OrderOf, Buys
  <2>2. loss = {Multiplier}
    BY <2>1, CapAssumption DEF EffectiveLoss, AtLeast
  <2>3. pr.quantity = 1 /\ pr.loss = {Multiplier}
    BY <2>1, <2>2 DEF Proposal
  <2>4. (CHOOSE l \in pr.loss : TRUE) = Multiplier
    BY <2>3
  <2>. HIDE DEF pr
  <2>. QED
    BY <2>3, <2>4, CapAssumption DEF PremiumAtRisk, AtLeast
<1>5. AtLeast(AtLeast(open, 0), 0) + PremiumAtRisk(pr) <= TotalCap
  <2>1. AtLeast(AtLeast(open, 0), 0) = open
    BY DEF AtLeast
  <2>2. CASE AtLeast(AtLeast(open, 0), 0) + PremiumAtRisk(pr) > TotalCap
    BY <1>3, <2>2 DEF TotalGate
  <2>. HIDE DEF pr
  <2>. QED
    BY <1>4, <2>1, <2>2, CapAssumption
<1>. HIDE DEF pr
<1>. QED
  BY <1>4, <1>5, CapAssumption DEF AtLeast

\* A step that takes no order, and turns no session careful, keeps all of it.
LEMMA QuietStep ==
    ASSUME CapInv, TypeOK', Live' \subseteq Live, Careful' \subseteq Careful,
           \A p \in Proc :
              pc'[p] \in {"clientKill", "send"} /\ job'[p].careful /\ job'[p].asked.side = "buy"
              => pc[p] \in {"clientKill", "send"} /\ job[p].careful /\ job[p].asked.side = "buy"
    PROVE  CapInv'
<1>1. /\ Cardinality(Live) \in Nat /\ Cardinality(Live') \in Nat
      /\ Cardinality(Live') <= Cardinality(Live)
      /\ Cardinality(Careful) \in Nat /\ Cardinality(Careful') \in Nat
      /\ Cardinality(Careful') <= Cardinality(Careful)
  <2>1. IsFiniteSet(Live) /\ IsFiniteSet(Careful)
    BY LiveFinite DEF CapInv
  <2>. QED
    BY <2>1, FS_Subset, FS_CardinalityType
<1>2. /\ Multiplier * Cardinality(Live') <= Multiplier * Cardinality(Live)
      /\ Multiplier * Cardinality(Careful') <= Multiplier * Cardinality(Careful)
      /\ Multiplier * Cardinality(Live') \in Nat /\ Multiplier * Cardinality(Live) \in Nat
      /\ Multiplier * Cardinality(Careful') \in Nat /\ Multiplier * Cardinality(Careful) \in Nat
  BY <1>1, Times
<1>3. TotalCap \in Nat /\ Multiplier \in Nat
  BY CapAssumption
<1>4. ASSUME NEW p \in Proc PROVE Room(p)'
  BY <1>2, <1>3 DEF CapInv, Room
<1>. QED
  BY <1>2, <1>3, <1>4 DEF CapInv

LEMMA CapStep ==
    ASSUME CapInv, [Next]_vars
    PROVE  CapInv'
<1>1. TypeOK /\ TypeOK'
  BY TypeStep DEF CapInv
<1>. DEFINE Calm == \A p \in Proc :
              pc'[p] \in {"clientKill", "send"} /\ job'[p].careful /\ job'[p].asked.side = "buy"
              => pc[p] \in {"clientKill", "send"} /\ job[p].careful /\ job[p].asked.side = "buy"
<1>2. ASSUME orders' = orders PROVE Live' = Live /\ Careful' = Careful
  BY <1>2 DEF Live, Careful, In
<1>3. ASSUME NEW p \in Proc,
             Begin(p) \/ BrokerArm(p) \/ ClientArm(p) \/ BrokerRead(p) \/ BrokerKill(p)
             \/ SendKnown(p) \/ Retry(p) \/ GiveUp(p)
      PROVE  CapInv'
  <2>1. orders' = orders
    BY <1>3 DEF Begin, BrokerArm, ClientArm, ArmGate, BrokerRead, BrokerKill, KillGate, SendKnown, Retry, GiveUp
  <2>2. /\ pc'[p] \notin {"clientKill", "send"}
        /\ \A q \in Proc \ {p} : pc'[q] = pc[q] /\ job'[q] = job[q]
    BY <1>1, <1>3 DEF Begin, BrokerArm, ClientArm, ArmGate, BrokerRead, BrokerKill, KillGate,
       SendKnown, Learn, Retry, GiveUp, Go, Refuse, TypeOK
  <2>. QED
    BY <1>1, <1>2, <2>1, <2>2, QuietStep
<1>4. ASSUME NEW p \in Proc, ClientKill(p) PROVE CapInv'
  <2>1. orders' = orders
    BY <1>4 DEF ClientKill, KillGate
  <2>2. Calm
    BY <1>1, <1>4 DEF ClientKill, KillGate, Go, Refuse, NoJob, TypeOK
  <2>. QED
    BY <1>1, <1>2, <2>1, <2>2, QuietStep
<1>5. ASSUME NEW p \in Proc, ClientRead(p) PROVE CapInv'
  <2>1. orders' = orders
    BY <1>5 DEF ClientRead
  <2>2. \A q \in Proc \ {p} : pc'[q] = pc[q] /\ job'[q] = job[q]
    BY <1>1, <1>5 DEF ClientRead, Go, Refuse, TypeOK
  <2>3. Room(p)'
    <3>1. SUFFICES ASSUME pc'[p] \in {"clientKill", "send"}, job'[p].careful, job'[p].asked.side = "buy"
                   PROVE  Multiplier * Cardinality(Live') + Multiplier <= TotalCap
      BY DEF Room
    <3>2. PICK readable \in BOOLEAN :
            \/ /\ ClientCaps(OrderOf(job[p].asked, job[p].day), {3}, Counted(p, readable)) = {}
               /\ Go(p, "clientKill", [job[p] EXCEPT !.open = Counted(p, readable),
                       !.careful = readable /\ In({"resting"}, "buy") = {}])
            \/ Refuse(p)
      BY <1>5, Zenon DEF ClientRead
    <3>3. /\ ClientCaps(OrderOf(job[p].asked, job[p].day), {3}, Counted(p, readable)) = {}
          /\ readable /\ In({"resting"}, "buy") = {} /\ job[p].asked.side = "buy"
      <4>1. CASE Refuse(p)
        BY <1>1, <3>1, <4>1 DEF Refuse, Go, TypeOK
      <4>. DEFINE after == [job[p] EXCEPT !.open = Counted(p, readable),
                              !.careful = readable /\ In({"resting"}, "buy") = {}]
      <4>2. CASE ClientCaps(OrderOf(job[p].asked, job[p].day), {3}, Counted(p, readable)) = {}
                 /\ Go(p, "clientKill", after)
        <5>1. job'[p] = after
          BY <1>1, <4>2 DEF Go, TypeOK
        <5>2. job[p] \in Job
          BY <1>1 DEF TypeOK
        <5>3. after.careful = (readable /\ In({"resting"}, "buy") = {}) /\ after.asked = job[p].asked
          BY <5>2 DEF Job
        <5>. HIDE DEF after
        <5>. QED
          BY <3>1, <4>2, <5>1, <5>3
      <4>. QED
        BY <3>2, <4>1, <4>2
    <3>4. Live = In({"held"}, "buy")
      BY <3>3 DEF Live, In
    <3>5. Counted(p, readable) \in Nat /\ Counted(p, readable) >= Multiplier * Cardinality(Live)
      <4>1. job[p].open \in Nat
        BY <1>1 DEF TypeOK, Job
      <4>2. Counted(p, readable) = AtLeast(job[p].open, OpenPremium)
        BY <3>3 DEF Counted
      <4>. QED
        BY <1>1, <3>4, <4>1, <4>2, PremiumNat, AtLeastNat DEF OpenPremium
    <3>6. job[p].asked \in Request /\ job[p].day \in Nat
      BY <1>1, <3>3 DEF TypeOK, Job, NoRequest
    <3>7. Counted(p, readable) + Multiplier <= TotalCap
      BY <3>3, <3>5, <3>6, CapsLeaveRoom
    <3>8. Multiplier * Cardinality(Live) \in Nat /\ Multiplier \in Nat /\ TotalCap \in Nat
      BY <1>1, LiveFinite, Times, CapAssumption
    <3>9. Live' = Live
      BY <1>2, <2>1
    <3>. QED
      BY <3>5, <3>7, <3>8, <3>9
  <2>4. ASSUME NEW q \in Proc PROVE Room(q)'
    <3>1. CASE q = p
      BY <2>3, <3>1
    <3>2. CASE q # p
      <4>1. Live' = Live
        BY <1>2, <2>1
      <4>. QED
        BY <2>2, <3>2, <4>1 DEF CapInv, Room
    <3>. QED
      BY <3>1, <3>2
  <2>. QED
    BY <1>1, <1>2, <2>1, <2>4 DEF CapInv
<1>6. ASSUME NEW p \in Proc, SendNew(p) PROVE CapInv'
  <2>. DEFINE n == Len(orders) + 1
              o == [ref |-> job[p].asked, state |-> "resting",
                    intent |-> job[p].intent, careful |-> job[p].careful]
  <2>1. /\ DOMAIN orders' = DOMAIN orders \cup {n} /\ n \notin DOMAIN orders
        /\ orders'[n] = o /\ \A k \in DOMAIN orders : orders'[k] = orders[k]
    BY <1>1, <1>6 DEF SendNew, Take, TypeOK
  <2>2. \A q \in Proc : ~ (pc'[q] \in {"clientKill", "send"} /\ job'[q].careful)
    <3>. DEFINE others == [q \in Proc |-> [job[q] EXCEPT !.careful = FALSE]]
    <3>1. /\ \/ pc' = [pc EXCEPT ![p] = "idle"] /\ job' = [others EXCEPT ![p] = NoJob]
             \/ pc' = [pc EXCEPT ![p] = "unknown"] /\ job' = others
      BY <1>6 DEF SendNew, Learn
    <3>2. others \in [Proc -> Job] /\ \A q \in Proc : ~others[q].careful
      BY <1>1 DEF TypeOK, Job
    <3>. HIDE DEF others
    <3>. QED
      BY <1>1, <3>1, <3>2 DEF TypeOK, NoJob
  <2>3. /\ IsFiniteSet(Live) /\ IsFiniteSet(Careful)
        /\ Cardinality(Live) \in Nat /\ Cardinality(Careful) \in Nat
        /\ Cardinality(Careful) <= Cardinality(Live)
    BY <1>1, LiveFinite
  <2>4. CASE job[p].careful /\ job[p].asked.side = "buy"
    <3>1. Room(p) /\ pc[p] = "send"
      BY <1>6 DEF CapInv, SendNew
    <3>2. Multiplier * Cardinality(Live) + Multiplier <= TotalCap
      BY <2>4, <3>1 DEF Room
    <3>3. Careful' \subseteq Careful \cup {n}
      BY <2>1 DEF Careful, Live, In
    <3>4. Cardinality(Careful') \in Nat /\ Cardinality(Careful') <= Cardinality(Live) + 1
      <4>1. /\ IsFiniteSet(Careful \cup {n})
            /\ Cardinality(Careful \cup {n}) <= Cardinality(Careful) + 1
            /\ Cardinality(Careful \cup {n}) \in Nat
        <5>. HIDE DEF n
        <5>1. IsFiniteSet(Careful \cup {n})
          BY <2>3, FS_AddElement
        <5>2. Cardinality(Careful \cup {n}) \in Nat
          BY <5>1, FS_CardinalityType
        <5>3. \/ Cardinality(Careful \cup {n}) = Cardinality(Careful)
              \/ Cardinality(Careful \cup {n}) = Cardinality(Careful) + 1
          BY <2>3, FS_AddElement
        <5>. QED
          BY <2>3, <5>1, <5>2, <5>3
      <4>2. /\ IsFiniteSet(Careful') /\ Cardinality(Careful') \in Nat
            /\ Cardinality(Careful') <= Cardinality(Careful \cup {n})
        BY <3>3, <4>1, FS_Subset, FS_CardinalityType
      <4>. QED
        BY <2>3, <4>1, <4>2
    <3>5. Multiplier * Cardinality(Careful') <= Multiplier * (Cardinality(Live) + 1)
      BY <2>3, <3>4, Times
    <3>6. Multiplier * (Cardinality(Live) + 1) = Multiplier * Cardinality(Live) + Multiplier
      BY <2>3, Times, CapAssumption
    <3>7. /\ Multiplier * Cardinality(Careful') \in Nat /\ TotalCap \in Nat
          /\ Multiplier * Cardinality(Live) + Multiplier \in Nat
      BY <2>3, <3>4, Times, CapAssumption
    <3>8. Multiplier * Cardinality(Careful') <= TotalCap
      BY <3>2, <3>5, <3>6, <3>7
    <3>9. \A q \in Proc : Room(q)'
      BY <2>2 DEF Room
    <3>. QED
      BY <1>1, <3>8, <3>9 DEF CapInv
  <2>5. CASE ~(job[p].careful /\ job[p].asked.side = "buy")
    <3>1. Careful' = Careful
      BY <2>1, <2>5 DEF Careful, Live, In
    <3>2. \A q \in Proc : Room(q)'
      BY <2>2 DEF Room
    <3>. QED
      BY <1>1, <3>1, <3>2 DEF CapInv
  <2>. QED
    BY <2>4, <2>5
<1>7. ASSUME FillBuy \/ FillSell \/ Cancel \/ NewDay PROVE CapInv'
  <2>1. /\ DOMAIN orders' = DOMAIN orders
        /\ \A k \in DOMAIN orders :
              /\ orders'[k].ref = orders[k].ref /\ orders'[k].careful = orders[k].careful
              /\ orders[k].state \notin {"resting", "held"} => orders'[k].state \notin {"resting", "held"}
    <3>1. CASE FillBuy \/ Cancel
      <4>1. PICK k \in DOMAIN orders, state \in {"held", "cancelled"} :
              orders[k].state = "resting" /\ SetState(k, state)
        BY <3>1 DEF FillBuy, Cancel, In
      <4>. QED
        BY <1>1, <4>1 DEF SetState, TypeOK, Order
    <3>2. CASE FillSell
      <4>1. PICK s \in In({"resting"}, "sell"), k \in In({"held"}, "buy") :
              orders' = [orders EXCEPT ![s].state = "closed", ![k].state = "closed"]
        BY <3>2, Zenon DEF FillSell
      <4>2. s \in DOMAIN orders /\ k \in DOMAIN orders /\ s # k
        BY <1>1, <4>1 DEF In
      <4>3. \A j \in DOMAIN orders :
               orders'[j] = IF j \in {s, k} THEN [orders[j] EXCEPT !.state = "closed"] ELSE orders[j]
        BY <4>1, <4>2
      <4>4. DOMAIN orders' = DOMAIN orders
        BY <4>1
      <4>5. ASSUME NEW j \in DOMAIN orders
            PROVE  /\ orders'[j].ref = orders[j].ref /\ orders'[j].careful = orders[j].careful
                   /\ orders'[j].state \in {"closed", orders[j].state}
        <5>1. orders[j] \in Order
          BY <1>1 DEF TypeOK
        <5>. QED
          BY <4>3, <5>1 DEF Order
      <4>. QED
        BY <4>4, <4>5
    <3>3. CASE NewDay
      BY <1>1, <3>3 DEF NewDay, TypeOK, Order
    <3>. QED
      BY <1>7, <3>1, <3>2, <3>3
  <2>2. Live' \subseteq Live /\ Careful' \subseteq Careful
    BY <2>1 DEF Live, Careful, In
  <2>3. pc' = pc /\ job' = job
    BY <1>7 DEF FillBuy, FillSell, Cancel, NewDay
  <2>. QED
    BY <1>1, <2>2, <2>3, QuietStep
<1>8. ASSUME Arm \/ Disarm \/ ToggleStop \/ UNCHANGED vars PROVE CapInv'
  <2>1. orders' = orders /\ pc' = pc /\ job' = job
    BY <1>8 DEF Arm, Disarm, ToggleStop, vars
  <2>. QED
    BY <1>1, <1>2, <2>1, QuietStep
<1>. QED
  BY <1>3, <1>4, <1>5, <1>6, <1>7, <1>8 DEF Next

LEMMA CapInit ==
    ASSUME Init
    PROVE  CapInv
<1>1. Live = {} /\ Careful = {}
  BY DEF Init, Live, Careful, In
<1>2. Cardinality(Careful) = 0
  BY <1>1, FS_EmptySet
<1>3. Multiplier * 0 = 0 /\ TotalCap \in Nat
  BY CapAssumption
<1>4. \A p \in Proc : Room(p)
  BY DEF Init, Room
<1>. QED
  BY <1>2, <1>3, <1>4, TypeInit DEF CapInv

LEMMA CapSuffices ==
    ASSUME CapInv
    PROVE  CapOvershoot
<1>. DEFINE careless == {k \in Live : ~orders[k].careful}
<1>1. IsFiniteSet(Live) /\ IsFiniteSet(Careful) /\ Cardinality(Careful) \in Nat /\ Cardinality(Live) \in Nat
  BY LiveFinite DEF CapInv
<1>2. careless \subseteq Live
  OBVIOUS
<1>2a. IsFiniteSet(careless) /\ Cardinality(careless) \in Nat
  BY <1>1, <1>2, FS_Subset, FS_CardinalityType
<1>3. Live = Careful \cup careless /\ Careful \cap careless = {}
  BY DEF Careful
<1>4. Cardinality(Live) = Cardinality(Careful) + Cardinality(careless)
  <2>1. Cardinality(Careful \cap careless) = 0
    BY <1>3, FS_EmptySet
  <2>2. Cardinality(Careful \cup careless) =
          Cardinality(Careful) + Cardinality(careless) - Cardinality(Careful \cap careless)
    BY <1>1, <1>2a, FS_Union
  <2>3. Cardinality(Careful \cup careless) = Cardinality(Live)
    BY <1>3
  <2>. HIDE DEF careless
  <2>. QED
    BY <1>1, <1>2a, <2>1, <2>2, <2>3
<1>5. Multiplier * Cardinality(Live) = Multiplier * Cardinality(Careful) + Multiplier * Cardinality(careless)
  BY <1>1, <1>2a, <1>4, Times
<1>6. /\ Multiplier * Cardinality(Careful) \in Nat /\ Multiplier * Cardinality(careless) \in Nat
      /\ TotalCap \in Nat
  BY <1>1, <1>2a, Times, CapAssumption
<1>7. Multiplier * Cardinality(Careful) <= TotalCap
  BY DEF CapInv
<1>. HIDE DEF careless
<1>8. Multiplier * Cardinality(Live) <= TotalCap + Multiplier * Cardinality(careless)
  BY <1>5, <1>6, <1>7
<1>. QED
  BY <1>8 DEF CapOvershoot, careless

\* Whatever the cap and however many sessions: every dollar at risk above the
\* cap belongs to an order that was sent carelessly.
THEOREM CapHolds == Spec => []CapOvershoot
BY CapInit, CapStep, CapSuffices, PTL DEF Spec

-----------------------------------------------------------------------------
(***************************************************************************)
(* Orders after the lane was disarmed or stopped.  Each session that is    *)
(* past the last look at the marker, or at the stop file, can still send   *)
(* one; nobody passes it any more.                                         *)
(***************************************************************************)

PastArm  == {p \in Proc : pc[p] \in {"clientRead", "clientKill", "send"}}
PastStop == {p \in Proc : pc[p] = "send"}

LateInv ==
    /\ TypeOK
    /\ ~armed => late.arm + Cardinality(PastArm) <= Cardinality(Proc)
    /\ stop => late.stop + Cardinality(PastStop) <= Cardinality(Proc)

LEMMA PastFinite ==
    /\ \A S \in SUBSET Proc : /\ IsFiniteSet(S) /\ Cardinality(S) \in Nat
                             /\ Cardinality(S) <= Cardinality(Proc)
    /\ \A S \in SUBSET Proc : \A T \in SUBSET S : Cardinality(T) <= Cardinality(S)
    /\ \A S \in SUBSET Proc : \A p \in S : Cardinality(S \ {p}) = Cardinality(S) - 1
<1>1. IsFiniteSet(Proc)
  BY OrderAssumption
<1>2. ASSUME NEW S \in SUBSET Proc
      PROVE  IsFiniteSet(S) /\ Cardinality(S) \in Nat /\ Cardinality(S) <= Cardinality(Proc)
  BY <1>1, FS_Subset, FS_CardinalityType
<1>3. ASSUME NEW S \in SUBSET Proc, NEW T \in SUBSET S PROVE Cardinality(T) <= Cardinality(S)
  BY <1>2, FS_Subset
<1>4. ASSUME NEW S \in SUBSET Proc, NEW p \in S PROVE Cardinality(S \ {p}) = Cardinality(S) - 1
  BY <1>2, FS_RemoveElement
<1>. QED
  BY <1>2, <1>3, <1>4

\* A step that takes no order and lets no session past a closed gate.
LEMMA LateQuiet ==
    ASSUME LateInv, TypeOK', late' = late, armed' = armed, stop' = stop,
           ~armed => PastArm' \subseteq PastArm, stop => PastStop' \subseteq PastStop
    PROVE  LateInv'
<1>1. PastArm \subseteq Proc /\ PastStop \subseteq Proc /\ PastArm' \subseteq Proc /\ PastStop' \subseteq Proc
  BY DEF PastArm, PastStop
<1>2. /\ Cardinality(PastArm) \in Nat /\ Cardinality(PastArm') \in Nat
      /\ Cardinality(PastStop) \in Nat /\ Cardinality(PastStop') \in Nat /\ Cardinality(Proc) \in Nat
      /\ ~armed => Cardinality(PastArm') <= Cardinality(PastArm)
      /\ stop => Cardinality(PastStop') <= Cardinality(PastStop)
  BY <1>1, PastFinite
<1>3. late.arm \in Nat /\ late.stop \in Nat
  BY DEF LateInv, TypeOK
<1>. QED
  BY <1>2, <1>3 DEF LateInv

LEMMA LateStep ==
    ASSUME LateInv, [Next]_vars
    PROVE  LateInv'
<1>1. TypeOK /\ TypeOK'
  BY TypeStep DEF LateInv
<1>2. late.arm \in Nat /\ late.stop \in Nat
  BY <1>1 DEF TypeOK
<1>3. ASSUME NEW p \in Proc,
             Begin(p) \/ BrokerArm(p) \/ BrokerRead(p) \/ BrokerKill(p) \/ ClientRead(p)
             \/ SendKnown(p) \/ Retry(p) \/ GiveUp(p)
      PROVE  LateInv'
  <2>1. late' = late /\ armed' = armed /\ stop' = stop
    BY <1>3 DEF Begin, BrokerArm, ArmGate, BrokerRead, BrokerKill, KillGate, ClientRead, SendKnown,
       Retry, GiveUp, world
  <2>2. /\ pc'[p] \in {"clientRead", "clientKill", "send"} => pc[p] \in {"clientRead", "clientKill", "send"}
        /\ pc'[p] # "send" /\ \A q \in Proc \ {p} : pc'[q] = pc[q]
    BY <1>1, <1>3 DEF Begin, BrokerArm, ArmGate, BrokerRead, BrokerKill, KillGate, ClientRead,
       SendKnown, Learn, Retry, GiveUp, Go, Refuse, TypeOK
  <2>3. PastArm' \subseteq PastArm /\ PastStop' \subseteq PastStop
    BY <2>2 DEF PastArm, PastStop
  <2>. QED
    BY <1>1, <2>1, <2>3, LateQuiet
<1>4. ASSUME NEW p \in Proc, ClientArm(p) PROVE LateInv'
  <2>1. late' = late /\ armed' = armed /\ stop' = stop
    BY <1>4 DEF ClientArm, ArmGate, world
  <2>2. /\ ~armed => pc'[p] = "idle"
        /\ pc'[p] # "send" /\ \A q \in Proc \ {p} : pc'[q] = pc[q]
    BY <1>1, <1>4 DEF ClientArm, ArmGate, LaneArmed, Go, Refuse, TypeOK
  <2>3. (~armed => PastArm' \subseteq PastArm) /\ PastStop' \subseteq PastStop
    BY <2>2 DEF PastArm, PastStop
  <2>. QED
    BY <1>1, <2>1, <2>3, LateQuiet
<1>5. ASSUME NEW p \in Proc, ClientKill(p) PROVE LateInv'
  <2>1. late' = late /\ armed' = armed /\ stop' = stop
    BY <1>5 DEF ClientKill, KillGate, world
  <2>2. /\ pc[p] = "clientKill" /\ (stop => pc'[p] = "idle")
        /\ \A q \in Proc \ {p} : pc'[q] = pc[q]
    BY <1>1, <1>5 DEF ClientKill, KillGate, Halted, Go, Refuse, TypeOK
  <2>3. PastArm' \subseteq PastArm /\ (stop => PastStop' \subseteq PastStop)
    BY <2>2 DEF PastArm, PastStop
  <2>. QED
    BY <1>1, <2>1, <2>3, LateQuiet
<1>6. ASSUME NEW p \in Proc, SendNew(p) PROVE LateInv'
  <2>1. /\ armed' = armed /\ stop' = stop
        /\ late' = [arm |-> IF armed THEN late.arm ELSE late.arm + 1,
                    stop |-> IF stop THEN late.stop + 1 ELSE late.stop]
    BY <1>6 DEF SendNew, Take, world
  <2>2. pc[p] = "send" /\ pc'[p] \in {"idle", "unknown"} /\ \A q \in Proc \ {p} : pc'[q] = pc[q]
    BY <1>1, <1>6 DEF SendNew, Learn, TypeOK
  <2>3. PastArm' = PastArm \ {p} /\ PastStop' = PastStop \ {p} /\ p \in PastArm /\ p \in PastStop
    BY <2>2 DEF PastArm, PastStop
  <2>4. PastArm \subseteq Proc /\ PastStop \subseteq Proc
    BY DEF PastArm, PastStop
  <2>5. /\ Cardinality(PastArm') = Cardinality(PastArm) - 1 /\ Cardinality(PastArm) \in Nat
        /\ Cardinality(PastStop') = Cardinality(PastStop) - 1 /\ Cardinality(PastStop) \in Nat
        /\ Cardinality(Proc) \in Nat
    BY <2>3, <2>4, PastFinite
  <2>6. ~armed' => late'.arm + Cardinality(PastArm') <= Cardinality(Proc)
    BY <1>2, <2>1, <2>5 DEF LateInv
  <2>7. stop' => late'.stop + Cardinality(PastStop') <= Cardinality(Proc)
    BY <1>2, <2>1, <2>5 DEF LateInv
  <2>. QED
    BY <1>1, <2>6, <2>7 DEF LateInv
<1>7. ASSUME FillBuy \/ FillSell \/ Cancel \/ NewDay \/ UNCHANGED vars PROVE LateInv'
  <2>1. late' = late /\ armed' = armed /\ stop' = stop /\ pc' = pc
    BY <1>7 DEF FillBuy, FillSell, Cancel, NewDay, vars, world
  <2>2. PastArm' = PastArm /\ PastStop' = PastStop
    BY <2>1 DEF PastArm, PastStop
  <2>. QED
    BY <1>1, <2>1, <2>2, LateQuiet
<1>8. ASSUME Arm \/ Disarm \/ ToggleStop PROVE LateInv'
  <2>1. PastArm' = PastArm /\ PastStop' = PastStop
    BY <1>8 DEF Arm, Disarm, ToggleStop, PastArm, PastStop
  <2>2. /\ PastArm \subseteq Proc /\ PastStop \subseteq Proc
    BY DEF PastArm, PastStop
  <2>3. /\ Cardinality(PastArm) \in Nat /\ Cardinality(PastArm) <= Cardinality(Proc)
        /\ Cardinality(PastStop) \in Nat /\ Cardinality(PastStop) <= Cardinality(Proc)
    BY <2>2, PastFinite
  <2>4. CASE Arm
    BY <1>1, <2>1, <2>4 DEF Arm, LateInv
  <2>5. CASE Disarm
    <3>1. late'.arm = 0 /\ late'.stop = late.stop /\ stop' = stop
      BY <1>1, <2>5 DEF Disarm, TypeOK
    <3>. QED
      BY <1>1, <2>1, <2>3, <3>1 DEF LateInv
  <2>6. CASE ToggleStop
    <3>1. late'.stop = 0 /\ late'.arm = late.arm /\ armed' = armed
      BY <1>1, <2>6 DEF ToggleStop, TypeOK
    <3>. QED
      BY <1>1, <2>1, <2>3, <3>1 DEF LateInv
  <2>. QED
    BY <1>8, <2>4, <2>5, <2>6
<1>. QED
  BY <1>3, <1>4, <1>5, <1>6, <1>7, <1>8 DEF Next

LEMMA LateInit ==
    ASSUME Init
    PROVE  LateInv
<1>1. PastArm = {} /\ PastStop = {}
  BY DEF Init, PastArm, PastStop
<1>2. Cardinality(PastArm) = 0 /\ Cardinality(PastStop) = 0
  BY <1>1, FS_EmptySet
<1>3. Cardinality(Proc) \in Nat
  <2>1. Proc \in SUBSET Proc
    OBVIOUS
  <2>. QED
    BY <2>1, PastFinite
<1>4. late.arm = 0 /\ late.stop = 0
  BY DEF Init
<1>. QED
  BY <1>2, <1>3, <1>4, TypeInit DEF LateInv

LEMMA LateSuffices ==
    ASSUME LateInv
    PROVE  LateOrders
<1>1. PastArm \subseteq Proc /\ PastStop \subseteq Proc
  BY DEF PastArm, PastStop
<1>2. /\ Cardinality(PastArm) \in Nat /\ Cardinality(PastStop) \in Nat /\ Cardinality(Proc) \in Nat
      /\ late.arm \in Nat /\ late.stop \in Nat
  BY <1>1, PastFinite DEF LateInv, TypeOK
<1>. QED
  BY <1>2 DEF LateInv, LateOrders

\* With any number of sessions, and wherever the operator's step falls between
\* theirs: a disarmed or stopped lane lets at most one more order of each pass.
THEOREM LateHolds == Spec => []LateOrders
BY LateInit, LateStep, LateSuffices, PTL DEF Spec

-----------------------------------------------------------------------------
(***************************************************************************)
(* An order sent again.                                                    *)
(***************************************************************************)

\* Active sessions work on intents of their own; an order of that intent has
\* the key the session would send again.
Own(p) ==
    pc[p] # "idle" =>
        /\ job[p].intent > 0 /\ job[p].intent <= intents
        /\ \A q \in Proc : pc[q] # "idle" /\ job[q].intent = job[p].intent => q = p
        /\ \A k \in DOMAIN orders : orders[k].intent = job[p].intent => orders[k].ref = job[p].asked

OnceInv ==
    /\ TypeOK
    /\ \A k \in DOMAIN orders : orders[k].intent <= intents
    /\ \A p \in Proc : Own(p)
    /\ OncePerIntent

\* A step after which no session is active that was not, and none has another
\* request; the book keeps its orders.
LEMMA OnceQuiet ==
    ASSUME OnceInv, TypeOK', intents' = intents, DOMAIN orders' = DOMAIN orders,
           \A k \in DOMAIN orders : orders'[k].intent = orders[k].intent /\ orders'[k].ref = orders[k].ref,
           \A p \in Proc : pc'[p] # "idle" =>
              pc[p] # "idle" /\ job'[p].intent = job[p].intent /\ job'[p].asked = job[p].asked
    PROVE  OnceInv'
<1>1. OncePerIntent'
  BY DEF OnceInv, OncePerIntent
<1>2. ASSUME NEW p \in Proc PROVE Own(p)'
  BY DEF OnceInv, Own
<1>. QED
  BY <1>1, <1>2 DEF OnceInv

LEMMA OnceStep ==
    ASSUME OnceInv, [Next]_vars
    PROVE  OnceInv'
<1>1. TypeOK /\ TypeOK'
  BY TypeStep DEF OnceInv
<1>2. ASSUME NEW p \in Proc, Begin(p) PROVE OnceInv'
  <2>1. PICK r \in Request : Go(p, "arm", [NoJob EXCEPT !.asked = r, !.intent = intents + 1, !.day = today])
    BY <1>2 DEF Begin
  <2>2. /\ orders' = orders /\ intents' = intents + 1 /\ intents \in Nat /\ pc[p] = "idle"
        /\ \A q \in Proc \ {p} : pc'[q] = pc[q] /\ job'[q] = job[q]
        /\ job'[p].intent = intents + 1
    BY <1>1, <1>2, <2>1 DEF Begin, Go, TypeOK, NoJob
  <2>3. ASSUME NEW k \in DOMAIN orders PROVE orders[k].intent \in Nat
    <3>1. orders[k] \in Order
      BY <1>1 DEF TypeOK
    <3>. QED
      BY <3>1 DEF Order
  <2>4. \A q \in Proc : job[q].intent \in Nat
    BY <1>1 DEF TypeOK, Job
  <2>5. ASSUME NEW q \in Proc PROVE Own(q)'
    BY <2>2, <2>3, <2>4 DEF OnceInv, Own
  <2>6. OncePerIntent'
    BY <2>2 DEF OnceInv, OncePerIntent
  <2>. QED
    BY <1>1, <2>2, <2>3, <2>5, <2>6 DEF OnceInv
<1>3. ASSUME NEW p \in Proc,
             BrokerArm(p) \/ ClientArm(p) \/ BrokerKill(p) \/ ClientKill(p) \/ SendKnown(p)
             \/ GiveUp(p)
      PROVE  OnceInv'
  <2>1. orders' = orders /\ intents' = intents
    BY <1>3 DEF BrokerArm, ClientArm, ArmGate, BrokerKill, ClientKill, KillGate, SendKnown, GiveUp
  <2>2. /\ pc[p] # "idle" /\ (pc'[p] # "idle" => job'[p] = job[p])
        /\ \A q \in Proc \ {p} : pc'[q] = pc[q] /\ job'[q] = job[q]
    BY <1>1, <1>3 DEF BrokerArm, ClientArm, ArmGate, BrokerKill, ClientKill, KillGate, SendKnown,
       Learn, GiveUp, Go, Refuse, TypeOK
  <2>. QED
    BY <1>1, <2>1, <2>2, OnceQuiet
<1>4. ASSUME NEW p \in Proc, BrokerRead(p) \/ ClientRead(p) \/ Retry(p) PROVE OnceInv'
  <2>1. orders' = orders /\ intents' = intents /\ pc[p] # "idle"
    BY <1>4 DEF BrokerRead, ClientRead, Retry
  <2>2. PICK to \in Pc, open \in Nat, careful \in BOOLEAN, day \in Nat :
          \/ Go(p, to, [job[p] EXCEPT !.open = open])
          \/ Go(p, to, [job[p] EXCEPT !.open = open, !.careful = careful])
          \/ Go(p, to, [job[p] EXCEPT !.open = open, !.careful = careful, !.day = day])
          \/ Refuse(p)
    <3>1. CASE BrokerRead(p)
      <4>1. PICK readable \in BOOLEAN :
              Go(p, "kill", [job[p] EXCEPT !.open = Counted(p, readable)]) \/ Refuse(p)
        BY <3>1, Zenon DEF BrokerRead
      <4>2. Counted(p, readable) \in Nat /\ "kill" \in Pc
        BY <1>1, CountedNat DEF Pc
      <4>. QED
        BY <4>1, <4>2, Zenon
    <3>2. CASE ClientRead(p)
      <4>1. PICK readable \in BOOLEAN :
              \/ Go(p, "clientKill", [job[p] EXCEPT !.open = Counted(p, readable),
                       !.careful = readable /\ In({"resting"}, "buy") = {}])
              \/ Refuse(p)
        BY <3>2, Zenon DEF ClientRead
      <4>2. Counted(p, readable) \in Nat /\ "clientKill" \in Pc
            /\ (readable /\ In({"resting"}, "buy") = {}) \in BOOLEAN
        BY <1>1, CountedNat DEF Pc
      <4>. QED
        BY <4>1, <4>2, Zenon
    <3>3. CASE Retry(p)
      <4>1. Go(p, "arm", [job[p] EXCEPT !.open = 0, !.careful = FALSE, !.day = today])
        BY <3>3 DEF Retry
      <4>2. "arm" \in Pc /\ 0 \in Nat /\ FALSE \in BOOLEAN /\ today \in Nat
        BY <1>1 DEF Pc, TypeOK
      <4>. QED
        BY <4>1, <4>2, Zenon
    <3>. QED
      BY <1>4, <3>1, <3>2, <3>3
  <2>3. job[p] \in Job
    BY <1>1 DEF TypeOK
  <2>4. /\ pc'[p] # "idle" => job'[p].intent = job[p].intent /\ job'[p].asked = job[p].asked
        /\ \A q \in Proc \ {p} : pc'[q] = pc[q] /\ job'[q] = job[q]
    <3>1. CASE Refuse(p)
      BY <1>1, <3>1 DEF Refuse, Go, TypeOK
    <3>2. ASSUME NEW after, Go(p, to, after), after.intent = job[p].intent, after.asked = job[p].asked
          PROVE  /\ job'[p].intent = job[p].intent /\ job'[p].asked = job[p].asked
                 /\ \A q \in Proc \ {p} : pc'[q] = pc[q] /\ job'[q] = job[q]
      BY <1>1, <3>2 DEF Go, TypeOK
    <3>3. CASE Go(p, to, [job[p] EXCEPT !.open = open])
      BY <2>3, <3>2, <3>3 DEF Job
    <3>4. CASE Go(p, to, [job[p] EXCEPT !.open = open, !.careful = careful])
      BY <2>3, <3>2, <3>4 DEF Job
    <3>5. CASE Go(p, to, [job[p] EXCEPT !.open = open, !.careful = careful, !.day = day])
      BY <2>3, <3>2, <3>5 DEF Job
    <3>. QED
      BY <2>2, <3>1, <3>3, <3>4, <3>5
  <2>. QED
    BY <1>1, <2>1, <2>4, OnceQuiet
<1>5. ASSUME NEW p \in Proc, SendNew(p) PROVE OnceInv'
  <2>. DEFINE n == Len(orders) + 1
              o == [ref |-> job[p].asked, state |-> "resting",
                    intent |-> job[p].intent, careful |-> job[p].careful]
  <2>1. /\ DOMAIN orders' = DOMAIN orders \cup {n} /\ n \notin DOMAIN orders
        /\ orders'[n] = o /\ \A k \in DOMAIN orders : orders'[k] = orders[k]
    BY <1>1, <1>5 DEF SendNew, Take, TypeOK
  <2>2. intents' = intents /\ pc[p] = "send" /\ Known(p) = {}
    BY <1>5 DEF SendNew
  <2>3. \A q \in Proc : pc'[q] # "idle" =>
            pc[q] # "idle" /\ job'[q].intent = job[q].intent /\ job'[q].asked = job[q].asked
    <3>. DEFINE others == [q \in Proc |-> [job[q] EXCEPT !.careful = FALSE]]
    <3>1. \/ pc' = [pc EXCEPT ![p] = "idle"] /\ job' = [others EXCEPT ![p] = NoJob]
          \/ pc' = [pc EXCEPT ![p] = "unknown"] /\ job' = others
      BY <1>5 DEF SendNew, Learn
    <3>2. /\ others \in [Proc -> Job]
          /\ \A q \in Proc : others[q].intent = job[q].intent /\ others[q].asked = job[q].asked
      BY <1>1 DEF TypeOK, Job
    <3>. HIDE DEF others
    <3>. QED
      BY <1>1, <2>2, <3>1, <3>2 DEF TypeOK
  <2>4. \A k \in DOMAIN orders : orders[k].intent # job[p].intent
    <3>1. \A k \in DOMAIN orders : orders[k].ref # job[p].asked
      BY <2>2 DEF Known, SameKey
    <3>. QED
      BY <2>2, <3>1 DEF OnceInv, Own
  <2>. HIDE DEF n
  <2>5. OncePerIntent'
    BY <2>1, <2>4 DEF OnceInv, OncePerIntent
  <2>6. \A k \in DOMAIN orders' : orders'[k].intent <= intents'
    BY <2>1, <2>2 DEF OnceInv, Own
  <2>7. ASSUME NEW q \in Proc, pc'[q] # "idle" PROVE Own(q)'
    <3>1. /\ job'[q].intent > 0 /\ job'[q].intent <= intents'
          /\ \A r \in Proc : pc'[r] # "idle" /\ job'[r].intent = job'[q].intent => r = q
      BY <2>2, <2>3, <2>7 DEF OnceInv, Own
    <3>2. ASSUME NEW k \in DOMAIN orders', orders'[k].intent = job'[q].intent
          PROVE  orders'[k].ref = job'[q].asked
      <4>1. CASE k = n
        <5>1. job[q].intent = job[p].intent
          BY <2>1, <2>3, <2>7, <3>2, <4>1
        <5>2. q = p
          BY <2>2, <2>3, <2>7, <5>1 DEF OnceInv, Own
        <5>. QED
          BY <2>1, <2>3, <2>7, <4>1, <5>2
      <4>2. CASE k # n
        BY <2>1, <2>3, <2>7, <3>2, <4>2 DEF OnceInv, Own
      <4>. QED
        BY <4>1, <4>2
    <3>. QED
      BY <3>1, <3>2 DEF Own
  <2>8. \A q \in Proc : Own(q)'
    BY <2>7 DEF Own
  <2>. QED
    BY <1>1, <2>5, <2>6, <2>8 DEF OnceInv
<1>6. ASSUME FillBuy \/ FillSell \/ Cancel \/ NewDay PROVE OnceInv'
  <2>1. /\ DOMAIN orders' = DOMAIN orders
        /\ \A k \in DOMAIN orders : orders'[k].intent = orders[k].intent /\ orders'[k].ref = orders[k].ref
    <3>1. CASE FillBuy \/ Cancel
      <4>1. PICK k \in DOMAIN orders, state \in {"held", "cancelled"} : SetState(k, state)
        BY <3>1 DEF FillBuy, Cancel, In
      <4>. QED
        BY <1>1, <4>1 DEF SetState, TypeOK, Order
    <3>2. CASE FillSell
      <4>1. PICK s \in In({"resting"}, "sell"), k \in In({"held"}, "buy") :
              orders' = [orders EXCEPT ![s].state = "closed", ![k].state = "closed"]
        BY <3>2, Zenon DEF FillSell
      <4>2. s \in DOMAIN orders /\ k \in DOMAIN orders /\ s # k
        BY <1>1, <4>1 DEF In
      <4>3. \A j \in DOMAIN orders :
               orders'[j] = IF j \in {s, k} THEN [orders[j] EXCEPT !.state = "closed"] ELSE orders[j]
        BY <4>1, <4>2
      <4>4. DOMAIN orders' = DOMAIN orders
        BY <4>1
      <4>5. ASSUME NEW j \in DOMAIN orders
            PROVE  orders'[j].ref = orders[j].ref /\ orders'[j].intent = orders[j].intent
        <5>1. orders[j] \in Order
          BY <1>1 DEF TypeOK
        <5>. QED
          BY <4>3, <5>1 DEF Order
      <4>. QED
        BY <4>4, <4>5
    <3>3. CASE NewDay
      BY <1>1, <3>3 DEF NewDay, TypeOK, Order
    <3>. QED
      BY <1>6, <3>1, <3>2, <3>3
  <2>2. pc' = pc /\ job' = job /\ intents' = intents
    BY <1>6 DEF FillBuy, FillSell, Cancel, NewDay
  <2>. QED
    BY <1>1, <2>1, <2>2, OnceQuiet
<1>7. ASSUME Arm \/ Disarm \/ ToggleStop \/ UNCHANGED vars PROVE OnceInv'
  <2>1. pc' = pc /\ job' = job /\ intents' = intents /\ orders' = orders
    BY <1>7 DEF Arm, Disarm, ToggleStop, vars
  <2>. QED
    BY <1>1, <2>1, OnceQuiet
<1>. QED
  BY <1>2, <1>3, <1>4, <1>5, <1>6, <1>7 DEF Next

LEMMA OnceInit ==
    ASSUME Init
    PROVE  OnceInv
<1>1. orders = <<>> /\ DOMAIN orders = {} /\ \A p \in Proc : pc[p] = "idle"
  BY DEF Init
<1>. QED
  BY <1>1, TypeInit DEF OnceInv, Own, OncePerIntent

\* However many sessions, orders and lost answers: sending an order again never
\* makes a second one, as long as the venue knows an order by its key.
THEOREM OnceHolds == Spec => []OncePerIntent
<1>1. OnceInv => OncePerIntent
  BY DEF OnceInv
<1>. QED
  BY <1>1, OnceInit, OnceStep, PTL DEF Spec
=============================================================================
