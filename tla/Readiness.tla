------------------------------ MODULE Readiness ------------------------------
(***************************************************************************)
(* The live-readiness reports of the equities and the options lane         *)
(* (src/equity_readiness.py, src/option_readiness.py).  A report loads the *)
(* trading rules, runs the whole test suite, which takes minutes, then     *)
(* reads the evidence no test can speak to (the audit log, git, the source *)
(* itself) and judges every gate of its lane: the gate's proving tests     *)
(* exist and passed, and its evidence holds.  Nothing keeps the tree from  *)
(* being edited meanwhile.  The gates read the rules that were loaded at   *)
(* the start, but for the account the lane is bound to, which the gate     *)
(* itself reads again; and a value no whole number can be made of ends     *)
(* the options report with an exception, without a verdict.                *)
(*                                                                         *)
(* A tree is what a report can tell of the working copy; an edit changes   *)
(* one fact of it.  How paper evidence comes about is the subject of       *)
(* EquityPaper and OptionPaper: here a lane has a number of clean runs.    *)
(* No name of this module is one of SectorState, whose proofs share a      *)
(* module with these.                                                      *)
(***************************************************************************)
EXTENDS Integers, FiniteSets

CONSTANTS
    Tuned,       \* bound: the settings that are edited
    MaxEdits     \* bound: edits of the tree

Lane == {"equities", "options"}

\* CAP_BOUNDS and OPTION_CAP_BOUNDS: what a setting may be at most, or at least.
AtMost == [max_trade_amount_usd |-> 100, max_daily_loss_usd |-> 100, max_trades_per_day |-> 5,
           max_open_positions |-> 10, max_symbol_allocation_percent |-> 25]
AtLeast == [min_order_cooldown_seconds |-> 300]
OptionAtMost == [max_debit_premium_per_trade_usd |-> 500, max_total_premium_at_risk_usd |-> 1500,
                 max_contracts_per_order |-> 5]
OptionAtLeast == [min_days_to_expiry |-> 2]
\* OPTION_LEVEL_FLOORS, and the multiplier that is the only one.
Floors == [single_leg_long |-> 2, long_multi_leg |-> 3, defined_risk_spread |-> 3]
Multiplier == 100

Setting == DOMAIN AtMost \cup DOMAIN AtLeast \cup DOMAIN OptionAtMost \cup DOMAIN OptionAtLeast
           \cup DOMAIN Floors \cup {"contract_multiplier"}

\* The settings that int() reads, the others float().
Integral == DOMAIN Floors \cup {"contract_multiplier"}

\* What a setting holds: nothing, a text that is no number (or .nan), a number, or a
\* number in quotes.  A number is counted in halves.
Kind  == {"missing", "text", "number", "quoted"}
Value == [kind : Kind, half : Int]

Number(n) == [kind |-> "number", half |-> 2 * n]

ASSUME BoundAssumption == MaxEdits \in Nat /\ Tuned \subseteq Setting

\* The gates of a lane.
EquityGates == {"order_symbol_guard", "kill_switch", "human_gate", "agentic_account_only",
    "regular_trading_hours", "pattern_day_trader", "long_only_no_shorts", "no_margin", "no_options",
    "risk_caps", "paper_proven_twice", "no_secret_in_code", "git_hygiene", "crypto_lane_untouched"}

OptionGates == {"option_order_safety_guard", "options_lane_armed", "human_gate", "kill_switch",
    "defined_risk_only", "account_confinement", "options_risk_caps", "paper_proven_twice",
    "no_secret_in_code", "git_hygiene"}

GatesOf(lane) == IF lane = "equities" THEN EquityGates ELSE OptionGates

\* The proving tests of a gate: a node stands for all that prove the same gates.
\* One test proves two of them.
Proving(lane, gate) ==
    CASE gate = "no_secret_in_code" -> {}
      [] lane = "equities" /\ gate = "kill_switch" -> {<<lane, gate>>, <<lane, "own_stop_file">>}
      [] gate = "crypto_lane_untouched" -> {<<lane, "own_stop_file">>}
      [] OTHER -> {<<lane, gate>>}

Node == {<<"none", "any_other_test">>}
        \cup UNION {UNION {Proving(lane, gate) : gate \in GatesOf(lane)} : lane \in Lane}

\* A line of pytest's output is one case of a test; cases of a test share the node.
Outcome == {"PASSED", "FAILED", "SKIPPED"}
Line == Node \X Outcome

Flag == {"allow_margin", "allow_shorts", "allow_shorting", "allow_zero_dte"}

\* The stop files have names in the rules; a name may be missing, or empty.
StopFile == {"STOP_TRADING", "STOP_TRADING_EQUITIES", "STOP_TRADING_OPTIONS"}
StopName == StopFile \cup {"missing", "empty"}

\* A string literal and the name it is assigned to.
Literal == [name    : {"credential", "account"},
            value   : {"credential", "placeholder", "digits", "pem"},
            place   : {"src", "tests", "docs"},
            excused : BOOLEAN]

\* What git has to say against publishing the tree.
GitFault == {"no_repository", "ignore_rules_not_committed", "ignore_rules_dirty", "nothing_tracked",
             "artifact_tracked", "artifact_not_ignored", "needed_file_ignored"}

File == StopFile \cup {"binding_doc", "order_symbol_guard", "option_order_safety_guard"}

Rules == [settings : [Setting -> Value],
          flags : SUBSET Flag, universe : BOOLEAN,  \* a universe is listed
          anchor : BOOLEAN,                         \* expected_account is the Agentic one
          stops : [{"crypto", "equities", "options"} -> StopName]]

\* The rules as they are shipped: every cap at its bound.
Shipped == [settings |-> [k \in Setting |->
                CASE k \in DOMAIN AtMost        -> Number(AtMost[k])
                  [] k \in DOMAIN AtLeast       -> Number(AtLeast[k])
                  [] k \in DOMAIN OptionAtMost  -> Number(OptionAtMost[k])
                  [] k \in DOMAIN OptionAtLeast -> Number(OptionAtLeast[k])
                  [] k \in DOMAIN Floors        -> Number(Floors[k])
                  [] OTHER                      -> Number(Multiplier)],
            flags |-> {}, universe |-> TRUE, anchor |-> TRUE,
            stops |-> [crypto |-> "STOP_TRADING", equities |-> "STOP_TRADING_EQUITIES",
                       options |-> "STOP_TRADING_OPTIONS"]]

VARIABLES
    tree,     \* lines and uncollectable: what pytest finds; rules; files; literals; git; clean
    report,   \* the report under way or last made
    edits     \* edits so far (bounds them)

reportsVars == <<tree, report, edits>>

NoSuite == [lines |-> {}, code |-> 0]

ReportsInit ==
    /\ tree = [lines |-> Node \X {"PASSED"}, uncollectable |-> FALSE, rules |-> Shipped,
               files |-> File, literals |-> {}, git |-> {}, clean |-> [l \in Lane |-> 2]]
    /\ report = [pc |-> "none", lane |-> "equities", rules |-> Shipped, suite |-> NoSuite,
                 ready |-> FALSE, before |-> tree, edits |-> 0]
    /\ edits = 0

ReportsTypeOK ==
    /\ tree.lines \subseteq Line /\ tree.uncollectable \in BOOLEAN
    /\ tree.files \subseteq File /\ tree.literals \subseteq Literal /\ tree.git \subseteq GitFault
    /\ tree.clean \in [Lane -> Nat] /\ {tree.rules, report.rules} \subseteq Rules
    /\ report.pc \in {"none", "suite", "judge", "done", "crashed"} /\ report.lane \in Lane
    /\ report.ready \in BOOLEAN /\ report.edits \in 0..MaxEdits
    /\ report.ready => report.pc = "done"
    /\ edits \in 0..MaxEdits

-----------------------------------------------------------------------------
(***************************************************************************)
(* The test suite.                                                         *)
(***************************************************************************)

\* pytest's exit code: 0 only when something ran and nothing failed.
ExitCode(t) == IF t.uncollectable THEN 2
               ELSE IF t.lines = {} THEN 5
               ELSE IF \E l \in t.lines : l[2] = "FAILED" THEN 1 ELSE 0

Outcomes(suite, node) == {l[2] : l \in {m \in suite.lines : m[1] = node}}

\* Broken variant: a case that passed speaks for the test.
BestOf(outcomes) == IF outcomes = {} THEN "ABSENT"
                    ELSE IF "PASSED" \in outcomes THEN "PASSED"
                    ELSE IF "SKIPPED" \in outcomes THEN "SKIPPED" ELSE "FAILED"

\* parse_pytest_output: the worst case speaks for the test.
Worst(outcomes) == IF outcomes = {} THEN "ABSENT"
                   ELSE IF "FAILED" \in outcomes THEN "FAILED"
                   ELSE IF "SKIPPED" \in outcomes THEN "SKIPPED" ELSE "PASSED"

Failed(suite) == {node \in Node : Worst(Outcomes(suite, node)) = "FAILED"}

SuitePassed(suite) == suite.code = 0 /\ suite.lines # {} /\ Failed(suite) = {}

-----------------------------------------------------------------------------
(***************************************************************************)
(* The evidence.                                                           *)
(***************************************************************************)

\* float() makes a number of what is one, in quotes or not.
IsNumber(v) == v.kind \in {"number", "quoted"}
Within(v, bound) == IsNumber(v) /\ v.half <= 2 * bound
Beyond(v, bound) == IsNumber(v) /\ v.half >= 2 * bound

\* int() drops the fraction of a number, and raises on a text and on a fraction in quotes.
Truncated(v) == IF v.half >= 0 THEN v.half \div 2 ELSE -((-v.half) \div 2)
Raises(v) == v.kind = "text" \/ (v.kind = "quoted" /\ v.half % 2 # 0)

RiskCaps(rules) ==
    /\ \A k \in DOMAIN AtMost : Within(rules.settings[k], AtMost[k])
    /\ \A k \in DOMAIN AtLeast : Beyond(rules.settings[k], AtLeast[k])
    /\ rules.settings["max_symbol_allocation_percent"].half > 0
    /\ rules.flags \cap {"allow_margin", "allow_shorts", "allow_shorting"} = {}
    /\ rules.universe

OptionRiskCaps(rules) ==
    /\ \A k \in DOMAIN OptionAtMost : Within(rules.settings[k], OptionAtMost[k])
    /\ \A k \in DOMAIN OptionAtLeast : Beyond(rules.settings[k], OptionAtLeast[k])
    /\ "allow_zero_dte" \notin rules.flags
    /\ \A k \in Integral : rules.settings[k].kind # "missing"
    /\ Truncated(rules.settings["contract_multiplier"]) = Multiplier
    /\ \A k \in DOMAIN Floors : Truncated(rules.settings[k]) >= Floors[k]

\* No try surrounds the int() of the options gate.
Crashes(lane, rules) == lane = "options" /\ \E k \in Integral : Raises(rules.settings[k])

\* hardcoded_account_literals
AccountLiteral(l) == l.place = "src" /\ l.name = "account" /\ l.value = "digits"

AgenticAccount(t) == "binding_doc" \in t.files /\ ~ \E l \in t.literals : AccountLiteral(l)

\* The anchor is read from the file when the gate is judged.
AccountConfined(t) == t.rules.anchor /\ AgenticAccount(t)

\* The name of a stop file, or what the report takes for it; an empty one names the
\* project's directory.
StopOf(rules, lane, default) ==
    IF rules.stops[lane] = "missing" THEN default ELSE rules.stops[lane]

CryptoDisarmed(rules, t) == StopOf(rules, "crypto", "STOP_TRADING") \in t.files \cup {"empty"}

CryptoUntouched(rules, t) ==
    /\ CryptoDisarmed(rules, t)
    /\ StopOf(rules, "equities", "empty") \notin {"empty", StopOf(rules, "crypto", "STOP_TRADING")}

LaneIsolated(rules, t) ==
    /\ CryptoDisarmed(rules, t)
    /\ StopOf(rules, "options", "STOP_TRADING_OPTIONS") \notin
          {"empty", StopOf(rules, "crypto", "STOP_TRADING"),
           StopOf(rules, "equities", "STOP_TRADING_EQUITIES")}

\* The scan goes over src, tests and what is deployed.  A key block needs no name.
Scanned(l) == l.place \in {"src", "tests"} /\ ~ l.excused
LooksSecret(l) == l.value = "pem" \/ (l.name = "credential" /\ l.value = "credential")

NoSecret(t) == ~ \E l \in t.literals : Scanned(l) /\ LooksSecret(l)

ProvenTwice(lane, t) == t.clean[lane] >= 2

EquityEvidence(gate, rules, t) ==
    CASE gate = "order_symbol_guard"    -> "order_symbol_guard" \in t.files
      [] gate = "agentic_account_only"  -> AgenticAccount(t)
      [] gate = "risk_caps"             -> RiskCaps(rules)
      [] gate = "paper_proven_twice"    -> ProvenTwice("equities", t)
      [] gate = "no_secret_in_code"     -> NoSecret(t)
      [] gate = "git_hygiene"           -> t.git = {}
      [] gate = "crypto_lane_untouched" -> CryptoUntouched(rules, t)
      [] OTHER                          -> TRUE

OptionEvidence(gate, rules, t) ==
    CASE gate = "option_order_safety_guard" -> "option_order_safety_guard" \in t.files
      [] gate = "kill_switch"               -> LaneIsolated(rules, t)
      [] gate = "account_confinement"       -> AccountConfined(t)
      [] gate = "options_risk_caps"         -> OptionRiskCaps(rules)
      [] gate = "paper_proven_twice"        -> ProvenTwice("options", t)
      [] gate = "no_secret_in_code"         -> NoSecret(t)
      [] gate = "git_hygiene"               -> t.git = {}
      [] OTHER                              -> TRUE

Evidence(lane, gate, rules, t) ==
    IF lane = "equities" THEN EquityEvidence(gate, rules, t) ELSE OptionEvidence(gate, rules, t)

\* Broken variant: a test that is not there does not count against its gate.
GatePassedLoosely(lane, gate, suite, rules, t) ==
    /\ \A node \in Proving(lane, gate) : Worst(Outcomes(suite, node)) \in {"ABSENT", "PASSED"}
    /\ Evidence(lane, gate, rules, t)

\* evaluate_gate: a test that is missing, skipped or red proves nothing.
GatePassed(lane, gate, suite, rules, t) ==
    /\ \A node \in Proving(lane, gate) : Worst(Outcomes(suite, node)) = "PASSED"
    /\ Evidence(lane, gate, rules, t)

\* readiness_verdict
Ready(lane, suite, rules, t) ==
    SuitePassed(suite) /\ \A gate \in GatesOf(lane) : GatePassed(lane, gate, suite, rules, t)

-----------------------------------------------------------------------------
(***************************************************************************)
(* A report, and the edits beside it.                                      *)
(***************************************************************************)

\* Broken variant: the verdict of the last report is still there.
StartStale ==
    /\ report.pc \in {"none", "done", "crashed"}
    /\ \E lane \in Lane :
          report' = [report EXCEPT !.pc = "suite", !.lane = lane, !.rules = tree.rules,
                                   !.before = tree, !.edits = 0]
    /\ UNCHANGED <<tree, edits>>

\* The rules are loaded before the suite starts.
StartReport ==
    /\ report.pc \in {"none", "done", "crashed"}
    /\ \E lane \in Lane :
          report' = [pc |-> "suite", lane |-> lane, rules |-> tree.rules, suite |-> NoSuite,
                     ready |-> FALSE, before |-> tree, edits |-> 0]
    /\ UNCHANGED <<tree, edits>>

RunSuite ==
    /\ report.pc = "suite"
    /\ report' = [report EXCEPT !.pc = "judge", !.suite =
                    [code |-> ExitCode(tree), lines |-> IF tree.uncollectable THEN {} ELSE tree.lines]]
    /\ UNCHANGED <<tree, edits>>

\* The gates are evaluated with the rules and the outcomes of before and the rest of now.
Judge ==
    LET crash == Crashes(report.lane, report.rules)
    IN  /\ report.pc = "judge"
        /\ report' = [report EXCEPT
                        !.pc = IF crash THEN "crashed" ELSE "done",
                        !.ready = ~ crash /\ Ready(report.lane, report.suite, report.rules, tree)]
        /\ UNCHANGED <<tree, edits>>

\* The values a setting may be given: about its bound by halves, in quotes with and
\* without a fraction, zero, a text, and nothing at all.
Values(k) ==
    LET at == Shipped.settings[k].half
    IN  {[kind |-> "missing", half |-> 0], [kind |-> "text", half |-> 0], Number(0)}
        \cup {[kind |-> "number", half |-> h] : h \in {at - 2, at - 1, at, at + 1, at + 2}}
        \cup {[kind |-> "quoted", half |-> h] : h \in {at, at + 1}}

Flipped(s, e) == IF e \in s THEN s \ {e} ELSE s \cup {e}

EditedRules(r) ==
    (UNION {{[r EXCEPT !.settings[k] = v] : v \in Values(k)} : k \in Tuned})
    \cup {[r EXCEPT !.flags = Flipped(@, e)] : e \in Flag}
    \cup {[r EXCEPT !.universe = ~ @], [r EXCEPT !.anchor = ~ @]}
    \cup {[r EXCEPT !.stops[k] = s] : k \in DOMAIN r.stops, s \in StopName}

EditedTrees(t) ==
    {[t EXCEPT !.rules = r] : r \in EditedRules(t.rules)}
    \cup {[t EXCEPT !.lines = Flipped(@, l)] : l \in Line}
    \cup {[t EXCEPT !.lines = {}], [t EXCEPT !.uncollectable = ~ @]}
    \cup {[t EXCEPT !.files = Flipped(@, e)] : e \in File}
    \cup {[t EXCEPT !.literals = Flipped(@, l)] : l \in Literal}
    \cup {[t EXCEPT !.git = Flipped(@, e)] : e \in GitFault}
    \cup {[t EXCEPT !.clean[l] = n] : l \in Lane, n \in {0, 1, 3}}

\* Somebody edits the tree, or a paper run adds to the audit log.
Edit ==
    /\ edits < MaxEdits /\ report.pc \notin {"done", "crashed"}
    /\ edits' = edits + 1
    /\ \E t \in EditedTrees(tree) : tree' = t
    /\ report' = IF report.pc \in {"suite", "judge"} THEN [report EXCEPT !.edits = @ + 1] ELSE report

ReportsNext == StartReport \/ RunSuite \/ Judge \/ Edit

ReportsSpec == ReportsInit /\ [][ReportsNext]_reportsVars

-----------------------------------------------------------------------------
(***************************************************************************)
(* Properties.                                                             *)
(***************************************************************************)

\* What the two lanes' documents ask of a tree before real money may trade it.
SuiteGreen(t) ==
    /\ ~ t.uncollectable /\ t.lines # {}
    /\ \A l \in t.lines : l[2] # "FAILED"

TestsProve(lane, t) ==
    \A node \in Node : node[1] = lane => {l \in t.lines : l[1] = node} = {<<node, "PASSED">>}

\* The limits of a lane, on the values it works with: the options lane too drops the
\* fraction of a whole number (option_risk_gates.py:244-250).
CapsHold(lane, r) ==
    LET most(k, n)   == r.settings[k].kind \notin {"missing", "text"} /\ r.settings[k].half <= 2 * n
        least(k, n)  == r.settings[k].kind \notin {"missing", "text"} /\ r.settings[k].half >= 2 * n
        whole(k)     == r.settings[k].kind = "quoted" => r.settings[k].half % 2 = 0
    IN  IF lane = "equities"
        THEN /\ most("max_trade_amount_usd", 100) /\ most("max_daily_loss_usd", 100)
             /\ most("max_trades_per_day", 5) /\ most("max_open_positions", 10)
             /\ most("max_symbol_allocation_percent", 25)
             /\ r.settings["max_symbol_allocation_percent"].half > 0
             /\ least("min_order_cooldown_seconds", 300)
             /\ r.flags \subseteq {"allow_zero_dte"} /\ r.universe
        ELSE /\ most("max_debit_premium_per_trade_usd", 500)
             /\ most("max_total_premium_at_risk_usd", 1500)
             /\ most("max_contracts_per_order", 5) /\ least("min_days_to_expiry", 2)
             /\ least("contract_multiplier", 100) /\ r.settings["contract_multiplier"].half < 2 * 101
             /\ least("single_leg_long", 2) /\ least("long_multi_leg", 3)
             /\ least("defined_risk_spread", 3)
             /\ whole("contract_multiplier") /\ whole("single_leg_long")
             /\ whole("long_multi_leg") /\ whole("defined_risk_spread")
             /\ "allow_zero_dte" \notin r.flags /\ r.anchor

Leaks(l) == /\ l.place # "docs" /\ ~ l.excused
            /\ l.value = "pem" \/ <<l.name, l.value>> = <<"credential", "credential">>

\* The stop file of a lane, by the name it has where none is given (shared_state.py:43-46).
StopInEffect(r, lane) ==
    LET usual == [crypto |-> "STOP_TRADING", equities |-> "STOP_TRADING_EQUITIES",
                  options |-> "STOP_TRADING_OPTIONS"]
    IN  IF r.stops[lane] = "missing" THEN usual[lane] ELSE r.stops[lane]

Sound(lane, t) ==
    LET stop(k) == StopInEffect(t.rules, k)
        own  == IF lane = "equities" THEN {"crypto", "equities"} ELSE {"crypto", "equities", "options"}
    IN  /\ SuiteGreen(t) /\ TestsProve(lane, t) /\ CapsHold(lane, t.rules)
        /\ t.git = {} /\ \A l \in t.literals : ~ Leaks(l)
        /\ \A l \in t.literals : l.place = "src" /\ l.value = "digits" => l.name # "account"
        /\ {"binding_doc", IF lane = "equities" THEN "order_symbol_guard"
                          ELSE "option_order_safety_guard"} \subseteq t.files
        /\ stop("crypto") # "empty" => stop("crypto") \in t.files
        /\ stop(lane) # "empty" /\ \A k \in own \ {lane} : stop(k) # stop(lane)
        /\ lane = "equities" => t.rules.stops["equities"] # "missing"
        /\ t.clean[lane] > 1

\* A report takes minutes and reads the rules, the tests and the evidence at different
\* times, the account's anchor once more at the end.  As long as the tree was edited at
\* most once meanwhile, its verdict was true of the tree at its beginning or at its end:
\* ready only if that tree was sound, not ready, or no verdict at all, only if it was not
\* (equity_readiness.py:1201-1204, option_readiness.py:654-657).
VerdictWasTrue ==
    report.pc \in {"done", "crashed"} /\ report.edits <= 1 =>
        \E t \in {report.before, tree} : report.ready = Sound(report.lane, t)
=============================================================================
