---------------------------- MODULE MassiveClient ----------------------------
(***************************************************************************)
(* The one Massive client a paper loop builds and every provider of the    *)
(* loop shares (src/equity_intelligence/massive_client.py): a cache keyed  *)
(* by path and UTC day, a throttle before each request that is not in it,  *)
(* and retries when the vendor answers 429.                                *)
(*                                                                         *)
(* The program is one thread, so at most one question is open; the module  *)
(* that EXTENDS this one asks it and takes the answer.  Time passes only   *)
(* in the sleeps.                                                          *)
(***************************************************************************)
EXTENDS Integers

CONSTANTS
    HasKey,     \* an api key was resolved
    Interval,   \* MASSIVE_MIN_INTERVAL_SECONDS
    Retries,    \* MAX_RETRIES
    MaxWait,    \* MAX_BACKOFF_SECONDS
    Path,       \* what can be asked
    LastDay,    \* bound: days of a behaviour
    MaxFaults   \* bound: answers 429 and failures of a behaviour

ASSUME ClientAssumption ==
    /\ HasKey \in BOOLEAN
    /\ {Interval, Retries, LastDay, MaxFaults} \subseteq Nat
    /\ MaxWait \in Nat \ {0}

\* The stages of a question.
Stage == {"idle", "throttle", "send", "backoff", "answered", "failed"}

Question == [stage : Stage, path : Path, key : Path \X (0..LastDay),
             attempt : 0..Retries, delay : 1..MaxWait]

VARIABLES
    day,      \* UTC day
    clock,    \* monotonic seconds
    last,     \* _last_request_at: empty before the first request
    cache,    \* keys with an answer
    ask,      \* the question that is open
    faults,   \* answers 429 and failures so far (bounds them)
    sent,     \* history: requests sent
    refused   \* history: those answered 429

clientVars == <<day, clock, last, cache, ask, faults, sent, refused>>

Quiet(path) == [stage |-> "idle", path |-> path, key |-> <<path, 0>>, attempt |-> 0, delay |-> 1]

ClientInit ==
    /\ clock = 0 /\ last = {} /\ cache = {}
    /\ ask = Quiet(CHOOSE p \in Path : TRUE)
    /\ faults = 0 /\ sent = 0 /\ refused = 0

\* A new client starts with an empty cache; its throttle knows no request.
NewClient == last' = {} /\ cache' = {}

-----------------------------------------------------------------------------

At(stage) == ask' = [ask EXCEPT !.stage = stage]

\* _get: without a key nothing is asked; the key holds the day it is now.
Ask(path) ==
    LET key == <<path, day>>
    IN  ask' = [Quiet(path) EXCEPT !.key = key,
                  !.stage = IF ~HasKey THEN "failed"
                            ELSE IF key \in cache THEN "answered" ELSE "throttle"]

\* Broken variant: the time of the request is not kept.
ThrottleForgets ==
    /\ ask.stage = "throttle"
    /\ clock' = clock /\ last' = last
    /\ At("send")
    /\ UNCHANGED <<day, cache, faults, sent, refused>>

Throttle ==
    /\ ask.stage = "throttle"
    /\ clock' = IF Interval > 0 /\ \E t \in last : clock - t < Interval
                THEN (CHOOSE t \in last : TRUE) + Interval ELSE clock
    /\ last' = IF Interval > 0 THEN {clock'} ELSE last
    /\ At("send")
    /\ UNCHANGED <<day, cache, faults, sent, refused>>

\* The vendor answers.
Answered ==
    /\ ask.stage = "send"
    /\ sent' = sent + 1
    /\ cache' = cache \cup {ask.key}
    /\ At("answered")
    /\ UNCHANGED <<day, clock, last, faults, refused>>

\* Any other status is raised at once.
Raised ==
    /\ ask.stage = "send" /\ faults < MaxFaults
    /\ faults' = faults + 1
    /\ sent' = sent + 1
    /\ At("failed")
    /\ UNCHANGED <<day, clock, last, cache, refused>>

RateLimited ==
    /\ ask.stage = "send" /\ faults < MaxFaults
    /\ faults' = faults + 1
    /\ sent' = sent + 1 /\ refused' = refused + 1
    /\ At(IF ask.attempt = Retries THEN "failed" ELSE "backoff")
    /\ UNCHANGED <<day, clock, last, cache>>

\* The wait the vendor asks for, or the doubled delay; neither above the cap.
Backoff ==
    /\ ask.stage = "backoff"
    /\ \E wait \in {0, ask.delay, MaxWait} : clock' = clock + wait
    /\ ask' = [ask EXCEPT !.stage = "send", !.attempt = @ + 1,
                          !.delay = IF 2 * @ < MaxWait THEN 2 * @ ELSE MaxWait]
    /\ UNCHANGED <<day, last, cache, faults, sent, refused>>

\* Midnight comes at any point.
Midnight ==
    /\ day < LastDay
    /\ day' = day + 1
    /\ UNCHANGED <<clock, last, cache, ask, faults, sent, refused>>

ClientStep == Throttle \/ Answered \/ Raised \/ RateLimited \/ Backoff
=============================================================================
