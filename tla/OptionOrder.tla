----------------------------- MODULE OptionOrder -----------------------------
(***************************************************************************)
(* The way of a live option order: a session submits it through the broker *)
(* (src/robinhood_option_broker.py) and the client                         *)
(* (src/robinhood_option_client.py) to the venue.  Both layers ask the     *)
(* same things again, each at its own moment: is the lane armed            *)
(* (src/shared_state.py), what premium is already at risk in the open      *)
(* positions, do the caps allow the order (OptionGates), is the kill       *)
(* switch open.  In between the operator arms, disarms and stops, other    *)
(* sessions submit, the venue fills, and days pass.                        *)
(*                                                                         *)
(* An order is for one contract at one dollar a share.  The answer of the  *)
(* venue may be lost; the session then may send the same order again, with *)
(* the key derived from its content, by which the venue knows it.          *)
(***************************************************************************)
EXTENDS OptionGates

CONSTANTS
    Contract,   \* option contracts
    Expiry,     \* the day each expires
    Proc,       \* sessions
    MaxIntents, \* bound: orders the operator asks for
    MaxLost,    \* bound: answers and position reads that fail
    LastDay     \* bound: days of a behaviour

ASSUME OrderAssumption ==
    /\ IsFiniteSet(Contract) /\ IsFiniteSet(Proc)
    /\ Expiry \in [Contract -> Nat]
    /\ {MaxIntents, MaxLost, LastDay} \subseteq Nat

\* What the operator asks for, and what place_limit_order makes of it.
Request == [contract : Contract, side : {"buy", "sell"}]

NoRequest == [contract |-> "none", side |-> "none"]

OrderOf(r, day) ==
    [legs |-> <<[side |-> r.side, effect |-> IF r.side = "buy" THEN "open" ELSE "close",
                 expiry |-> {}]>>,
     direction |-> IF r.side = "buy" THEN "debit" ELSE "credit",
     quantity |-> 1, price |-> 1, dte |-> {Expiry[r.contract] - day}, loss |-> {}]

\* The venue's book.  intent and careful are history.
Order == [ref : Request, state : {"resting", "held", "closed", "cancelled", "expired"},
          intent : Nat, careful : BOOLEAN]

\* A submission under way, and the one before it while its answer is missing.
\* open: the premium at risk its caps count; day: when its expiry was counted.
Job == [asked : Request \cup {NoRequest}, intent : Nat, day : Nat, open : Nat, careful : BOOLEAN]

NoJob == [asked |-> NoRequest, intent |-> 0, day |-> 0, open |-> 0, careful |-> FALSE]

Pc == {"idle", "arm", "read", "kill", "clientArm", "clientRead", "clientKill", "send", "unknown"}

VARIABLES
    armed,     \* ARM_STATE_OPTIONS exists
    stop,      \* STOP_TRADING_OPTIONS exists
    today,
    orders,    \* the venue's book, oldest first
    pc, job,
    intents,   \* orders asked for so far
    lost,      \* failed reads and lost answers so far
    late       \* history: orders taken since the lane was disarmed, since it was stopped

world == <<armed, stop, today>>
vars  == <<world, orders, pc, job, intents, lost, late>>

TypeOK ==
    /\ armed \in BOOLEAN /\ stop \in BOOLEAN /\ today \in Nat
    /\ orders \in Seq(Order)
    /\ pc \in [Proc -> Pc] /\ job \in [Proc -> Job]
    /\ intents \in Nat /\ lost \in Nat
    /\ late \in [arm : Nat, stop : Nat]

Init ==
    /\ armed = FALSE /\ stop = FALSE /\ today = 0
    /\ orders = <<>>
    /\ pc = [p \in Proc |-> "idle"] /\ job = [p \in Proc |-> NoJob]
    /\ intents = 0 /\ lost = 0
    /\ late = [arm |-> 0, stop |-> 0]

-----------------------------------------------------------------------------
(***************************************************************************)
(* What a submission reads.                                                *)
(***************************************************************************)

In(states, side) == {k \in DOMAIN orders : orders[k].state \in states /\ orders[k].ref.side = side}

\* Broken variant: armed by the absence of the stop file, as the other lanes.
ArmedUnlessStopped == ~stop

\* FileArmStore.is_armed: the options lane is armed by a marker of its own.
LaneArmed == armed

\* KillSwitch.halt_reasons.
Halted == stop

\* Broken variant: the 0.0 a caller passes by default.
NothingOpen == 0

\* _open_premium_at_risk_from_positions: what the open positions cost.
OpenPremium == Multiplier * Cardinality(In({"held"}, "buy"))

Go(p, to, after) ==
    /\ pc'  = [pc EXCEPT ![p] = to]
    /\ job' = [job EXCEPT ![p] = after]

\* A gate refused: the caller gets a preview with the reason, or an exception.
Refuse(p) == Go(p, "idle", NoJob)

-----------------------------------------------------------------------------
(***************************************************************************)
(* A submission, with the double human gate already passed: a preview      *)
(* changes nothing.                                                        *)
(***************************************************************************)

Begin(p) ==
    /\ pc[p] = "idle" /\ intents < MaxIntents
    /\ intents' = intents + 1
    /\ \E r \in Request :
          Go(p, "arm", [NoJob EXCEPT !.asked = r, !.intent = intents + 1, !.day = today])
    /\ UNCHANGED <<world, orders, lost, late>>

\* The arm gate of the broker or of the client.
ArmGate(p, at, to) ==
    /\ pc[p] = at
    /\ IF LaneArmed THEN Go(p, to, job[p]) ELSE Refuse(p)
    /\ UNCHANGED <<world, orders, intents, lost, late>>

BrokerArm(p) == ArmGate(p, "arm", "read")
ClientArm(p) == ArmGate(p, "clientArm", "clientRead")

\* The positions are read, or count for nothing when they cannot be; the larger
\* of that and what the caller says goes into the caps.
Counted(p, readable) == AtLeast(job[p].open, IF readable THEN OpenPremium ELSE 0)

Readable(readable) ==
    /\ readable \/ lost < MaxLost
    /\ lost' = IF readable THEN lost ELSE lost + 1

\* The account has level 3.
BrokerRead(p) ==
    /\ pc[p] = "read"
    /\ \E readable \in BOOLEAN :
          LET open == Counted(p, readable)
          IN  /\ Readable(readable)
              /\ IF BrokerCaps(OrderOf(job[p].asked, job[p].day), {3}, open) = {}
                 THEN Go(p, "kill", [job[p] EXCEPT !.open = open])
                 ELSE Refuse(p)
    /\ UNCHANGED <<world, orders, intents, late>>

ClientRead(p) ==
    /\ pc[p] = "clientRead"
    /\ \E readable \in BOOLEAN :
          LET open == Counted(p, readable)
          IN  /\ Readable(readable)
              /\ IF ClientCaps(OrderOf(job[p].asked, job[p].day), {3}, open) = {}
                 THEN Go(p, "clientKill", [job[p] EXCEPT !.open = open,
                           !.careful = readable /\ In({"resting"}, "buy") = {}])
                 ELSE Refuse(p)
    /\ UNCHANGED <<world, orders, intents, late>>

KillGate(p, at, to) ==
    /\ pc[p] = at
    /\ IF Halted THEN Refuse(p) ELSE Go(p, to, job[p])
    /\ UNCHANGED <<world, orders, intents, lost, late>>

BrokerKill(p) == KillGate(p, "kill", "clientArm")
ClientKill(p) == KillGate(p, "clientKill", "send")

-----------------------------------------------------------------------------
(***************************************************************************)
(* The venue.  It knows an order by its key, and answers for the one it    *)
(* has.                                                                    *)
(***************************************************************************)

\* Broken variant: a key for every attempt.
KeyByAttempt(k, p) == FALSE

\* _deterministic_ref_id: the key is the content.
SameKey(k, p) == orders[k].ref = job[p].asked

Known(p) == {k \in DOMAIN orders : SameKey(k, p)}

\* A sale needs a position that no other sale is for.
Fits(r) ==
    \/ r.side = "buy"
    \/ /\ r.side = "sell"
       /\ \E k \in In({"held"}, "buy") : orders[k].ref.contract = r.contract
       /\ \A s \in In({"resting"}, "sell") : orders[s].ref # r

\* The venue takes the order.
Take(p) ==
    /\ orders' = Append(orders, [ref |-> job[p].asked, state |-> "resting",
                                 intent |-> job[p].intent, careful |-> job[p].careful])
    /\ late' = [arm |-> IF armed THEN late.arm ELSE late.arm + 1,
                stop |-> IF stop THEN late.stop + 1 ELSE late.stop]

\* The session is told the outcome, or left without an answer.
Learn(p, jobs) ==
    \/ /\ pc'  = [pc EXCEPT ![p] = "idle"]
       /\ job' = [jobs EXCEPT ![p] = NoJob]
       /\ UNCHANGED lost
    \/ /\ lost < MaxLost /\ lost' = lost + 1
       /\ pc'  = [pc EXCEPT ![p] = "unknown"]
       /\ job' = jobs

\* Nobody's reading of the positions is up to date after a new order.
SendNew(p) ==
    /\ pc[p] = "send" /\ Known(p) = {} /\ Fits(job[p].asked)
    /\ Take(p)
    /\ Learn(p, [q \in Proc |-> [job[q] EXCEPT !.careful = FALSE]])
    /\ UNCHANGED <<world, intents>>

\* The venue refuses it, or has it already.
SendKnown(p) ==
    /\ pc[p] = "send"
    /\ Known(p) # {} \/ ~Fits(job[p].asked)
    /\ Learn(p, job)
    /\ UNCHANGED <<world, orders, intents, late>>

\* Without an answer the session sends the same order again, or lets it be.
Retry(p) ==
    /\ pc[p] = "unknown"
    /\ Go(p, "arm", [job[p] EXCEPT !.open = 0, !.careful = FALSE, !.day = today])
    /\ UNCHANGED <<world, orders, intents, lost, late>>

GiveUp(p) ==
    /\ pc[p] = "unknown"
    /\ Go(p, "idle", NoJob)
    /\ UNCHANGED <<world, orders, intents, lost, late>>

SetState(k, state) == orders' = [orders EXCEPT ![k].state = state]

FillBuy ==
    /\ \E k \in In({"resting"}, "buy") : SetState(k, "held")
    /\ UNCHANGED <<world, pc, job, intents, lost, late>>

\* A sale closes the position it is for.
FillSell ==
    /\ \E s \in In({"resting"}, "sell"), k \in In({"held"}, "buy") :
          /\ orders[k].ref.contract = orders[s].ref.contract
          /\ orders' = [orders EXCEPT ![s].state = "closed", ![k].state = "closed"]
    /\ UNCHANGED <<world, pc, job, intents, lost, late>>

\* Broken variant: spelled the other way.
CancelSpelled ==
    /\ ~Halted
    /\ \E side \in {"buy", "sell"} : \E k \in In({"resting"}, side) : SetState(k, "canceled")
    /\ UNCHANGED <<world, pc, job, intents, lost, late>>

\* cancel_order: not held to the arm gate, but to the kill switch.
Cancel ==
    /\ ~Halted
    /\ \E side \in {"buy", "sell"} : \E k \in In({"resting"}, side) : SetState(k, "cancelled")
    /\ UNCHANGED <<world, pc, job, intents, lost, late>>

-----------------------------------------------------------------------------
(***************************************************************************)
(* The operator and the calendar.                                          *)
(***************************************************************************)

Arm ==
    /\ ~armed /\ armed' = TRUE
    /\ UNCHANGED <<stop, today, orders, pc, job, intents, lost, late>>

Disarm ==
    /\ armed /\ armed' = FALSE
    /\ late' = [late EXCEPT !.arm = 0]
    /\ UNCHANGED <<stop, today, orders, pc, job, intents, lost>>

ToggleStop ==
    /\ stop' = ~stop
    /\ late' = [late EXCEPT !.stop = 0]
    /\ UNCHANGED <<armed, today, orders, pc, job, intents, lost>>

\* What expired yesterday is gone.
NewDay ==
    /\ today < LastDay /\ today' = today + 1
    /\ orders' = [k \in DOMAIN orders |->
          IF Expiry[orders[k].ref.contract] = today /\ orders[k].state \in {"resting", "held"}
          THEN [orders[k] EXCEPT !.state = "expired"] ELSE orders[k]]
    /\ UNCHANGED <<armed, stop, pc, job, intents, lost, late>>

Next ==
    \/ \E p \in Proc :
          \/ Begin(p) \/ BrokerArm(p) \/ BrokerRead(p) \/ BrokerKill(p)
          \/ ClientArm(p) \/ ClientRead(p) \/ ClientKill(p)
          \/ SendNew(p) \/ SendKnown(p) \/ Retry(p) \/ GiveUp(p)
    \/ FillBuy \/ FillSell \/ Cancel
    \/ Arm \/ Disarm \/ ToggleStop \/ NewDay

Spec == Init /\ [][Next]_vars

-----------------------------------------------------------------------------
(***************************************************************************)
(* Properties.                                                             *)
(***************************************************************************)

\* Premium at risk, or about to be when a resting order fills.
Live == In({"resting", "held"}, "buy")

\* The premium at risk exceeds its cap by no more than the orders that were
\* sent carelessly: while another buy was resting or being sent, or after the
\* positions could not be read (robinhood_option_broker.py:580, :391).
CapOvershoot ==
    Multiplier * Cardinality(Live) <=
        TotalCap + Multiplier * Cardinality({k \in Live : ~orders[k].careful})

\* After the lane is disarmed, and after the stop file appears, each session
\* gets at most the order it was already sending past the venue.
LateOrders ==
    /\ ~armed => late.arm <= Cardinality(Proc)
    /\ stop => late.stop <= Cardinality(Proc)

\* However often the answer is lost and the order sent again, what the operator
\* asked for once is ordered once (robinhood_option_client.py:311).
OncePerIntent ==
    \A i, j \in DOMAIN orders : orders[i].intent = orders[j].intent => i = j
=============================================================================
