----------------------------- MODULE SectorState -----------------------------
(***************************************************************************)
(* The open calls of the Sector Scout: runs (src/sector_scout/runner.py)   *)
(* grade them and append new ones (src/sector_scout/settlement.py) in a    *)
(* file kept twice, in a local directory and in a bucket, of which a read  *)
(* takes the fresher (src/sector_scout/state.py).  The directory is that   *)
(* of one machine with a disk, or that of a container, gone when its       *)
(* execution ends.  Uploads, downloads and local writes fail silently, a   *)
(* local write that fails half way leaves a file that no read accepts, the *)
(* clocks of the machine and of the bucket may differ, runs may die, in a  *)
(* save too, and may overlap.                                              *)
(***************************************************************************)
EXTENDS Naturals, FiniteSets

CONSTANTS
    Fund,       \* funds with a structure to publish (fund and direction)
    Run,        \* executions that can be active at a time
    Disk,       \* the directory of a machine that keeps it
    LastDay,    \* bound: days of a behaviour
    MaxRuns,    \* bound: runs that start
    MaxFaults   \* bound: failed reads, uploads, local writes and deaths

ASSUME SectorAssumption ==
    /\ IsFiniteSet(Fund) /\ Disk \notin Run
    /\ {LastDay, MaxRuns, MaxFaults} \subseteq Nat

Verdict == {"OPEN", "WIN", "LOSS"}
Frozen  == {"WIN", "LOSS"}

\* record_call: "sector:fund:direction:date".
Id == Fund \X (0 .. LastDay)

\* The file: the verdict of every call.  A file that is missing, empty or cut off
\* is no list: a read passes over it, and where there is no other the list is empty.
Calls == UNION {[S -> Verdict] : S \in SUBSET Id}
Empty == [i \in {} |-> "OPEN"]

Place == Run \cup {Disk}

\* A copy in a directory; newer says that its time is after that of the blob,
\* or that there is no blob.
Copy == [calls : Calls, newer : BOOLEAN]

\* The machine's clock against the bucket's; one that differs is off by more
\* than the time of a behaviour.
Clock == {"true", "behind", "ahead"}

\* What becomes of a local file that is written: the new text, a piece of it that
\* cannot be parsed (write_text empties the file first), or the old one (it
\* could not be opened).
Fate == {"written", "torn", "unopened"}

Job  == [day : 0 .. LastDay, calls : Calls]
Pc   == {"idle", "grade", "saveGrades", "append", "saveNew", "done"}

VARIABLES
    disk,     \* the runs share the directory of one machine
    clock,    \* its clock
    today,
    bucket,   \* the blob
    local,    \* the copy in every directory
    pc, job,
    runs, faults,
    told,     \* history: the calls a run has saved
    harm      \* history: something voided the store's promise

world == <<disk, clock, today>>
files == <<bucket, local>>
vars  == <<world, files, pc, job, runs, faults, told, harm>>

TypeOK ==
    /\ disk \in BOOLEAN /\ clock \in Clock /\ today \in 0 .. LastDay
    /\ bucket \in Calls /\ local \in [Place -> Copy]
    /\ pc \in [Run -> Pc] /\ job \in [Run -> Job]
    /\ runs \in Nat /\ faults \in Nat
    /\ told \subseteq Id /\ harm \in BOOLEAN

NoCopy == [calls |-> Empty, newer |-> FALSE]
NoJob  == [day |-> 0, calls |-> Empty]

Init ==
    /\ disk \in BOOLEAN /\ clock \in Clock /\ today = 0
    /\ bucket = Empty /\ local = [d \in Place |-> NoCopy]
    /\ pc = [p \in Run |-> "idle"] /\ job = [p \in Run |-> NoJob]
    /\ runs = 0 /\ faults = 0
    /\ told = {} /\ harm = FALSE

-----------------------------------------------------------------------------
(***************************************************************************)
(* The store.                                                              *)
(***************************************************************************)

Dir(p) == IF disk THEN Disk ELSE p

\* Broken variant: the bucket is preferred whenever it can be read.
BucketFirst(p) == IF bucket # Empty THEN bucket ELSE local[Dir(p)].calls

\* _read: the fresher of both copies.
Fresher(p) == IF local[Dir(p)].newer THEN local[Dir(p)].calls ELSE bucket

\* The directory holds what the bucket lacks.
Holds(d) == local[d].newer /\ local[d].calls # bucket

\* What is stored: the newest copy that is still there.
Stored ==
    IF \E d \in Place : Holds(d)
    THEN local[CHOOSE d \in Place : Holds(d)].calls
    ELSE bucket

\* What a read may give.
Readable(p) == {Fresher(p), local[Dir(p)].calls, bucket, Empty}

\* Either copy may fail to be read, which leaves the other, or both: nothing.
Read(p, result) ==
    \E failed \in SUBSET {"blob", "file"} :
        /\ faults' = faults + Cardinality(failed) /\ faults' <= MaxFaults
        /\ result = CASE failed = {}       -> Fresher(p)
                      [] failed = {"blob"} -> local[Dir(p)].calls
                      [] failed = {"file"} -> bucket
                      [] OTHER             -> Empty
        /\ harm' = (harm \/ (failed # {} /\ result # Stored))

\* A copy that is not written: an upload makes the blob the newer one, unless
\* the copy has its time from a clock that is ahead.
Aged(copy, uploaded) == [copy EXCEPT !.newer = @ /\ (~uploaded \/ clock = "ahead")]

\* The copy of the run's directory after an attempt to write it.
Rewritten(p, outcome, uploaded) ==
    CASE outcome = "written"  ->
            [calls |-> job[p].calls,
             newer |-> IF uploaded THEN clock = "ahead" ELSE clock # "behind" \/ bucket = Empty]
      [] outcome = "torn"     -> NoCopy
      [] outcome = "unopened" -> Aged(local[Dir(p)], uploaded)

Copies(p, outcome, uploaded) ==
    [d \in Place |-> IF d = Dir(p) THEN Rewritten(p, outcome, uploaded) ELSE Aged(local[d], uploaded)]

\* A file is lost of which the bucket has no copy.
LastCopyLost(p, outcome) == outcome = "torn" /\ Holds(Dir(p))

\* _write: the local copy first, then the upload, each of which may fail.
Write(p, outcome, uploaded) ==
    /\ faults' = faults + (IF outcome = "written" THEN 0 ELSE 1) + (IF uploaded THEN 0 ELSE 1)
    /\ faults' <= MaxFaults
    /\ bucket' = IF uploaded THEN job[p].calls ELSE bucket
    /\ local' = Copies(p, outcome, uploaded)
    /\ told' = IF outcome = "written" \/ uploaded THEN told \cup DOMAIN job[p].calls ELSE told
    /\ harm' = (\/ harm
                \/ ~uploaded /\ (~disk \/ clock = "behind" \/ LastCopyLost(p, outcome))
                \/ uploaded /\ outcome = "unopened" /\ clock = "ahead" /\ local[Dir(p)].newer)

-----------------------------------------------------------------------------
(***************************************************************************)
(* A run: run_report.                                                      *)
(***************************************************************************)

Active == {p \in Run : pc[p] # "idle"}

Goes(p, to, after) ==
    /\ pc'  = [pc EXCEPT ![p] = to]
    /\ job' = [job EXCEPT ![p] = after]

Begin(p) ==
    /\ pc[p] = "idle" /\ runs < MaxRuns
    /\ runs' = runs + 1
    /\ harm' = (harm \/ Active # {})
    /\ Goes(p, "grade", [NoJob EXCEPT !.day = today])
    /\ UNCHANGED <<world, files, faults, told>>

\* Broken variant: the field beside the verdict.
FirstResolved == "new"

\* The outcome of a new record.
FirstVerdict == "OPEN"

Open(calls) == {i \in DOMAIN calls : calls[i] \notin Frozen}

\* Broken variant: what is settled leaves the list.
GradedOnly(calls, priced, v) == [i \in Open(calls) |-> IF i \in priced THEN v[i] ELSE calls[i]]

\* The list with new verdicts of the open calls whose bars could be read.
Graded(calls, priced, v) == [i \in DOMAIN calls |-> IF i \in priced THEN v[i] ELSE calls[i]]

\* evaluate_open_calls up to the save, which follows if an outcome was written.
Grade(p) ==
    /\ pc[p] = "grade"
    /\ \E calls \in Readable(p) :
          /\ Read(p, calls)
          /\ \E priced \in SUBSET Open(calls) : \E v \in [priced -> Verdict] :
                Goes(p, IF priced = {} THEN "append" ELSE "saveGrades",
                     [job[p] EXCEPT !.calls = Graded(calls, priced, v)])
    /\ UNCHANGED <<world, files, runs, told>>

\* append_new_calls up to the save: the ids of the day that are not there yet.
Append(p) ==
    /\ pc[p] = "append"
    /\ \E calls \in Readable(p) :
          /\ Read(p, calls)
          /\ \E plays \in SUBSET Fund :
                LET new == {<<f, job[p].day>> : f \in plays} \ DOMAIN calls
                IN  Goes(p, IF new = {} THEN "done" ELSE "saveNew",
                         [job[p] EXCEPT !.calls =
                             [i \in DOMAIN calls \cup new |-> IF i \in new THEN FirstVerdict ELSE calls[i]]])
    /\ UNCHANGED <<world, files, runs, told>>

\* save_open_calls, whose answer nobody asks for.
Save(p, at, to) ==
    /\ pc[p] = at
    /\ \E outcome \in Fate, uploaded \in BOOLEAN : Write(p, outcome, uploaded)
    /\ Goes(p, to, job[p])
    /\ UNCHANGED <<world, runs>>

SaveGrades(p) == Save(p, "saveGrades", "append")
SaveNew(p)    == Save(p, "saveNew", "done")

\* The execution is over; a container takes its directory with it.
Leave(p, copies) ==
    /\ Goes(p, "idle", NoJob)
    /\ local' = IF disk THEN copies ELSE [copies EXCEPT ![p] = NoCopy]
    /\ UNCHANGED <<world, bucket, runs, told>>

End(p) == pc[p] = "done" /\ Leave(p, local) /\ UNCHANGED <<faults, harm>>

\* A death in a save comes before the upload, with the local file in any state;
\* one after the upload is one of the next step.
Die(p) ==
    /\ pc[p] # "idle" /\ faults < MaxFaults
    /\ faults' = faults + 1
    /\ \E outcome \in IF pc[p] \in {"saveGrades", "saveNew"} THEN Fate ELSE {"unopened"} :
          /\ Leave(p, Copies(p, outcome, FALSE))
          /\ harm' = (harm \/ LastCopyLost(p, outcome))

NewDay ==
    /\ today < LastDay /\ today' = today + 1
    /\ UNCHANGED <<disk, clock, files, pc, job, runs, faults, told, harm>>

Next ==
    \/ \E p \in Run : Begin(p) \/ Grade(p) \/ SaveGrades(p) \/ Append(p) \/ SaveNew(p) \/ End(p) \/ Die(p)
    \/ NewDay

Spec == Init /\ [][Next]_vars

-----------------------------------------------------------------------------
(***************************************************************************)
(* Properties.                                                             *)
(***************************************************************************)

Register == INSTANCE CallRegister WITH calls <- Stored, trusted <- ~harm

\* The store implements the register of CallRegister: through runs, deaths and
\* failed uploads, on a machine with a disk through every outage of the bucket
\* (state.py:99), what is stored only grows and a final verdict stays.  Void
\* are: runs that overlap; a failed upload of a container, or of a machine
\* whose clock is behind; a failed read of one copy where the other is not what
\* is stored; a local file emptied by a write that goes no further, while it is
\* the only one to hold what an outage kept from the bucket (state.py:93); and
\* a file that cannot be opened, on a machine whose clock makes it look newer
\* than the blob that is then uploaded (state.py:137).
IsRegister == Register!Spec

\* A call that a run has saved, locally or in the bucket, stays recorded
\* (state.py:72, "a bucket outage never loses the run"), while none of the
\* events happened that IsRegister names.
NothingLost == ~harm => told \subseteq DOMAIN Stored
=============================================================================
