------------------------ MODULE SectorReadinessProofs ------------------------
(***************************************************************************)
(* Proofs about SectorState and about Readiness, which share nothing.      *)
(*                                                                         *)
(* SectorState: for any funds, any number of runs and faults the store is  *)
(* the register of CallRegister, and no saved call is lost.  Both rest on  *)
(* one invariant.  While the promise holds (~harm) at most one run is      *)
(* active, only the directory of a machine ever holds what the bucket      *)
(* lacks, no other directory has a copy that counts as newer but that of a *)
(* running container, and what a run is about to save extends what is      *)
(* stored.                                                                 *)
(*                                                                         *)
(* Readiness, in the second part: for any settings edited and any number   *)
(* of edits a report's verdict was true of the tree at its beginning or at *)
(* its end, unless two edits fell between.                                 *)
(***************************************************************************)
EXTENDS SectorState, Readiness, FiniteSetTheorems, TLAPS

\* `after' records what `before' does, with its final verdicts.
Extends(before, after) ==
    /\ DOMAIN before \subseteq DOMAIN after
    /\ \A i \in DOMAIN before : before[i] \in Frozen => after[i] = before[i]

Sole == \A p, q \in Run : pc[p] # "idle" /\ pc[q] # "idle" => p = q

OnlyDiskAhead == \A d \in Place : Holds(d) => disk /\ d = Disk

Owned == \A d \in Place : local[d].newer => IF disk THEN d = Disk ELSE d \in Active

\* A clock that is behind never makes a copy look newer than a blob.
Lagging == clock = "behind" /\ bucket # Empty => \A d \in Place : ~local[d].newer

Holders == OnlyDiskAhead /\ Owned /\ Lagging

SavesExtend == \A p \in Run : pc[p] \in {"saveGrades", "saveNew"} => Extends(Stored, job[p].calls)

Promise == ~harm => Sole /\ Holders /\ SavesExtend /\ told \subseteq DOMAIN Stored

-----------------------------------------------------------------------------
(***************************************************************************)
(* Lists of calls.                                                         *)
(***************************************************************************)

\* A verdict for each of some ids is a list of calls.
LEMMA ListOf == ASSUME NEW S \in SUBSET Id, NEW f \in [S -> Verdict] PROVE f \in Calls
BY DEF Calls

\* And a list of calls has a verdict for each of its ids.
LEMMA OfList == ASSUME NEW c \in Calls
                PROVE  DOMAIN c \in SUBSET Id /\ c \in [DOMAIN c -> Verdict]
<1>1. PICK S \in SUBSET Id : c \in [S -> Verdict]  BY DEF Calls
<1>2. DOMAIN c = S  BY <1>1
<1> QED BY <1>1, <1>2

\* The list before the first run (state.py:125).
LEMMA EmptyType == Empty \in Calls /\ DOMAIN Empty = {}
<1>1. Empty \in [{} -> Verdict]  BY DEF Empty
<1>2. DOMAIN Empty = {}  BY DEF Empty
<1> QED BY <1>1, <1>2, ListOf

\* Grading gives a list that extends the one it was given (settlement.py:132).
LEMMA GradedExtends ==
    ASSUME NEW c \in Calls, NEW priced \in SUBSET Open(c), NEW v \in [priced -> Verdict]
    PROVE  Graded(c, priced, v) \in Calls /\ Extends(c, Graded(c, priced, v))
<1>1. DOMAIN c \in SUBSET Id /\ c \in [DOMAIN c -> Verdict]  BY OfList
<1>2. priced \subseteq DOMAIN c /\ \A i \in priced : c[i] \notin Frozen  BY DEF Open
<1>3. Graded(c, priced, v) \in [DOMAIN c -> Verdict]  BY <1>1, <1>2 DEF Graded
<1>4. Extends(c, Graded(c, priced, v))  BY <1>1, <1>2 DEF Extends, Graded
<1> QED BY <1>1, <1>3, <1>4, ListOf

\* So does recording new calls (settlement.py:236).
LEMMA AppendedExtends ==
    ASSUME NEW c \in Calls, NEW new \in SUBSET Id, new \cap DOMAIN c = {},
           NEW d, d = [i \in DOMAIN c \cup new |-> IF i \in new THEN FirstVerdict ELSE c[i]]
    PROVE  d \in Calls /\ Extends(c, d)
<1>1. DOMAIN c \in SUBSET Id /\ c \in [DOMAIN c -> Verdict]  BY OfList
<1>2. FirstVerdict \in Verdict  BY DEF FirstVerdict, Verdict
<1>3. d \in [DOMAIN c \cup new -> Verdict]  BY <1>1, <1>2
<1>4. DOMAIN c \cup new \in SUBSET Id  BY <1>1
<1>5. Extends(c, d)  BY <1>1 DEF Extends
<1> QED BY <1>3, <1>4, <1>5, ListOf

-----------------------------------------------------------------------------
(***************************************************************************)
(* Types.                                                                  *)
(***************************************************************************)

\* A step of one run keeps the types of where runs stand and what they hold.
LEMMA GoesType ==
    ASSUME TypeOK, NEW p \in Run, NEW to \in Pc, NEW after \in Job, Goes(p, to, after)
    PROVE  pc' \in [Run -> Pc] /\ job' \in [Run -> Job]
BY DEF Goes, TypeOK

\* What a read may give are lists of calls.
LEMMA ReadableType == ASSUME TypeOK, NEW p \in Run, NEW c \in Readable(p) PROVE c \in Calls
<1>1. Dir(p) \in Place  BY DEF Dir, Place
<1>2. local[Dir(p)] \in Copy  BY <1>1 DEF TypeOK
<1>3. local[Dir(p)].calls \in Calls /\ local[Dir(p)].newer \in BOOLEAN  BY <1>2 DEF Copy
<1>4. bucket \in Calls  BY DEF TypeOK
<1>5. Fresher(p) \in Calls  BY <1>3, <1>4 DEF Fresher
<1> QED BY <1>3, <1>4, <1>5, EmptyType DEF Readable

\* A read keeps the types of what it changes.
LEMMA ReadType ==
    ASSUME TypeOK, NEW p \in Run, NEW c, Read(p, c)
    PROVE  faults' \in Nat /\ harm' \in BOOLEAN
<1>1. PICK failed \in SUBSET {"blob", "file"} :
          /\ faults' = faults + Cardinality(failed)
          /\ harm' = (harm \/ (failed # {} /\ c # Stored))
  BY DEF Read
<1>2. IsFiniteSet({"blob", "file"})
  <2>1. IsFiniteSet({"blob"})  BY FS_Singleton
  <2>2. IsFiniteSet({"blob"} \cup {"file"})  BY <2>1, FS_AddElement
  <2>3. {"blob", "file"} = {"blob"} \cup {"file"}  OBVIOUS
  <2> QED BY <2>2, <2>3
<1>3. Cardinality(failed) \in Nat  BY <1>2, FS_Subset, FS_CardinalityType
<1>4. faults' \in Nat  BY <1>1, <1>3 DEF TypeOK
<1>5. harm' \in BOOLEAN  BY <1>1, Zenon
<1> QED BY <1>4, <1>5

\* The copies after an attempt to write one are copies.
LEMMA CopiesType ==
    ASSUME TypeOK, NEW p \in Run, NEW outcome \in Fate, NEW uploaded \in BOOLEAN
    PROVE  Copies(p, outcome, uploaded) \in [Place -> Copy]
<1>1. Dir(p) \in Place  BY DEF Dir, Place
<1>2. ASSUME NEW d \in Place PROVE Aged(local[d], uploaded) \in Copy
  <2>1. local[d] \in Copy  BY DEF TypeOK
  <2>2. (local[d].newer /\ (~uploaded \/ clock = "ahead")) \in BOOLEAN  BY Zenon
  <2> QED BY <2>1, <2>2 DEF Aged, Copy
<1>3. NoCopy \in Copy  BY EmptyType DEF NoCopy, Copy
<1>4. job[p].calls \in Calls  BY DEF TypeOK, Job
<1>5. Rewritten(p, outcome, uploaded) \in Copy
  <2>1. CASE outcome = "written"
    <3> DEFINE n == IF uploaded THEN clock = "ahead" ELSE clock # "behind" \/ bucket = Empty
    <3>1. n \in BOOLEAN  BY Zenon
    <3>2. Rewritten(p, outcome, uploaded) = [calls |-> job[p].calls, newer |-> n]
      BY <2>1 DEF Rewritten
    <3> HIDE DEF n
    <3> QED BY <1>4, <3>1, <3>2 DEF Copy
  <2>2. CASE outcome = "torn"      BY <1>3, <2>2 DEF Rewritten
  <2>3. CASE outcome = "unopened"  BY <1>1, <1>2, <2>3 DEF Rewritten
  <2> QED BY <2>1, <2>2, <2>3 DEF Fate
<1> QED BY <1>2, <1>5 DEF Copies

\* The end of an execution.
LEMMA LeaveType ==
    ASSUME TypeOK, NEW p \in Run, NEW copies \in [Place -> Copy], Leave(p, copies)
    PROVE  /\ pc' \in [Run -> Pc] /\ job' \in [Run -> Job]
           /\ local' \in [Place -> Copy]
           /\ UNCHANGED <<world, bucket, runs, told>>
<1>1. "idle" \in Pc  BY DEF Pc
<1>2. 0 \in 0 .. LastDay  BY SectorAssumption
<1>3. NoJob \in Job  BY <1>2, EmptyType DEF NoJob, Job
<1>4. NoCopy \in Copy  BY EmptyType DEF NoCopy, Copy
<1>5. pc' \in [Run -> Pc] /\ job' \in [Run -> Job]  BY <1>1, <1>3, GoesType DEF Leave
<1>6. local' \in [Place -> Copy]  BY <1>4 DEF Leave, TypeOK
<1> QED BY <1>5, <1>6 DEF Leave
-----------------------------------------------------------------------------
\* A save of either kind.
LEMMA SaveType ==
    ASSUME TypeOK, NEW p \in Run, NEW at \in Pc, NEW to \in Pc, Save(p, at, to)
    PROVE  TypeOK'
<1>1. job[p] \in Job  BY DEF TypeOK
<1>2. job[p].calls \in Calls  BY <1>1 DEF Job
<1>3. pc' \in [Run -> Pc] /\ job' \in [Run -> Job]  BY <1>1, GoesType DEF Save
<1>4. PICK outcome \in Fate, uploaded \in BOOLEAN : Write(p, outcome, uploaded)  BY DEF Save
<1>5. faults' \in Nat  BY <1>4 DEF Write, TypeOK
<1>6. bucket' \in Calls  BY <1>2, <1>4 DEF Write, TypeOK
<1>7. local' \in [Place -> Copy]  BY <1>4, CopiesType DEF Write
<1>8. told' \subseteq Id
  <2>1. DOMAIN job[p].calls \subseteq Id  BY <1>2, OfList
  <2> QED BY <1>4, <2>1 DEF Write, TypeOK
<1>10. harm' \in BOOLEAN  BY <1>4, Zenon DEF Write
<1>11. UNCHANGED <<world, runs>>  BY DEF Save
<1> QED BY <1>3, <1>5, <1>6, <1>7, <1>8, <1>10, <1>11 DEF TypeOK, world

\* Every step keeps the types.
LEMMA TypeStep == TypeOK /\ [Next]_vars => TypeOK'
<1> SUFFICES ASSUME TypeOK, [Next]_vars PROVE TypeOK'  OBVIOUS
<1>p. {"idle", "grade", "saveGrades", "append", "saveNew", "done"} \subseteq Pc  BY DEF Pc
<1>1. ASSUME NEW p \in Run, Begin(p) PROVE TypeOK'
  <2>1. [NoJob EXCEPT !.day = today] \in Job  BY EmptyType DEF NoJob, Job, TypeOK
  <2>2. pc' \in [Run -> Pc] /\ job' \in [Run -> Job]  BY <1>1, <1>p, <2>1, GoesType DEF Begin
  <2>3. runs' \in Nat  BY <1>1 DEF Begin, TypeOK
  <2>4. harm' = (harm \/ Active # {})  BY <1>1 DEF Begin
  <2>5. harm' \in BOOLEAN  BY <2>4, Zenon
  <2> QED BY <1>1, <2>2, <2>3, <2>5 DEF Begin, TypeOK, world, files
<1>2. ASSUME NEW p \in Run, Grade(p) PROVE TypeOK'
  <2>1. PICK c \in Readable(p) :
          /\ Read(p, c)
          /\ \E priced \in SUBSET Open(c) : \E v \in [priced -> Verdict] :
                Goes(p, IF priced = {} THEN "append" ELSE "saveGrades",
                     [job[p] EXCEPT !.calls = Graded(c, priced, v)])
    BY <1>2 DEF Grade
  <2>2. c \in Calls /\ faults' \in Nat /\ harm' \in BOOLEAN  BY <2>1, ReadableType, ReadType
  <2>3. PICK priced \in SUBSET Open(c) : \E v \in [priced -> Verdict] :
            Goes(p, IF priced = {} THEN "append" ELSE "saveGrades",
                 [job[p] EXCEPT !.calls = Graded(c, priced, v)])
    BY <2>1
  <2>4. PICK v \in [priced -> Verdict] :
            Goes(p, IF priced = {} THEN "append" ELSE "saveGrades",
                 [job[p] EXCEPT !.calls = Graded(c, priced, v)])
    BY <2>3
  <2>5. Graded(c, priced, v) \in Calls  BY <2>2, GradedExtends
  <2>6. job[p] \in Job  BY DEF TypeOK
  <2>7. [job[p] EXCEPT !.calls = Graded(c, priced, v)] \in Job  BY <2>5, <2>6 DEF Job
  <2>8. pc' \in [Run -> Pc] /\ job' \in [Run -> Job]  BY <1>p, <2>4, <2>7, GoesType
  <2> QED BY <1>2, <2>2, <2>8 DEF Grade, TypeOK, world, files
<1>3. ASSUME NEW p \in Run, Append(p) PROVE TypeOK'
  <2>1. PICK c \in Readable(p) :
          /\ Read(p, c)
          /\ \E plays \in SUBSET Fund :
                LET new == {<<f, job[p].day>> : f \in plays} \ DOMAIN c
                IN  Goes(p, IF new = {} THEN "done" ELSE "saveNew",
                         [job[p] EXCEPT !.calls =
                             [i \in DOMAIN c \cup new |-> IF i \in new THEN FirstVerdict ELSE c[i]]])
    BY <1>3 DEF Append
  <2>2. c \in Calls /\ faults' \in Nat /\ harm' \in BOOLEAN  BY <2>1, ReadableType, ReadType
  <2>3. PICK plays \in SUBSET Fund :
                LET new == {<<f, job[p].day>> : f \in plays} \ DOMAIN c
                IN  Goes(p, IF new = {} THEN "done" ELSE "saveNew",
                         [job[p] EXCEPT !.calls =
                             [i \in DOMAIN c \cup new |-> IF i \in new THEN FirstVerdict ELSE c[i]]])
    BY <2>1
  <2> DEFINE new == {<<f, job[p].day>> : f \in plays} \ DOMAIN c
             after == [i \in DOMAIN c \cup new |-> IF i \in new THEN FirstVerdict ELSE c[i]]
  <2>4. job[p] \in Job /\ job[p].day \in 0 .. LastDay  BY DEF TypeOK, Job
  <2>5. new \in SUBSET Id /\ new \cap DOMAIN c = {}  BY <2>4 DEF Id
  <2>6. Goes(p, IF new = {} THEN "done" ELSE "saveNew", [job[p] EXCEPT !.calls = after])  BY <2>3
  <2>7. after \in Calls
    <3>1. after = [i \in DOMAIN c \cup new |-> IF i \in new THEN FirstVerdict ELSE c[i]]  OBVIOUS
    <3> HIDE DEF new, after
    <3> QED BY <2>2, <2>5, <3>1, AppendedExtends
  <2> HIDE DEF new, after
  <2>8. [job[p] EXCEPT !.calls = after] \in Job  BY <2>4, <2>7 DEF Job
  <2>9. pc' \in [Run -> Pc] /\ job' \in [Run -> Job]  BY <1>p, <2>6, <2>8, GoesType
  <2> QED BY <1>3, <2>2, <2>9 DEF Append, TypeOK, world, files
<1>4. ASSUME NEW p \in Run, SaveGrades(p) PROVE TypeOK'
  BY <1>4, <1>p, SaveType DEF SaveGrades
<1>5. ASSUME NEW p \in Run, SaveNew(p) PROVE TypeOK'
  BY <1>5, <1>p, SaveType DEF SaveNew
<1>6. ASSUME NEW p \in Run, End(p) PROVE TypeOK'
  <2>1. Leave(p, local) /\ UNCHANGED <<faults, harm>>  BY <1>6 DEF End
  <2>2. local \in [Place -> Copy]  BY DEF TypeOK
  <2> QED BY <2>1, <2>2, LeaveType DEF TypeOK, world
<1>7. ASSUME NEW p \in Run, Die(p) PROVE TypeOK'
  <2>1. PICK outcome \in Fate : /\ Leave(p, Copies(p, outcome, FALSE))
                                  /\ harm' = (harm \/ LastCopyLost(p, outcome))
    BY <1>7 DEF Die, Fate
  <2>2. faults' \in Nat  BY <1>7 DEF Die, TypeOK
  <2>3. harm' \in BOOLEAN  BY <2>1, Zenon
  <2>4. Copies(p, outcome, FALSE) \in [Place -> Copy]  BY CopiesType
  <2> QED BY <2>1, <2>2, <2>3, <2>4, LeaveType DEF TypeOK, world
<1>8. CASE NewDay
  <2>1. today' \in 0 .. LastDay  BY <1>8, SectorAssumption DEF NewDay, TypeOK
  <2> QED BY <1>8, <2>1 DEF NewDay, TypeOK, files
<1>9. CASE UNCHANGED vars
  BY <1>9 DEF vars, world, files, TypeOK
<1> QED BY <1>1, <1>2, <1>3, <1>4, <1>5, <1>6, <1>7, <1>8, <1>9 DEF Next

-----------------------------------------------------------------------------
(***************************************************************************)
(* What is stored.                                                         *)
(***************************************************************************)

\* If only the copy of directory D may hold what the blob lacks, the newest
\* copy is that one or the blob.
LEMMA Newest ==
    ASSUME NEW P, NEW D \in P, NEW copies, NEW blob,
           \A d \in P : copies[d].newer /\ copies[d].calls # blob => d = D
    PROVE  (IF \E d \in P : copies[d].newer /\ copies[d].calls # blob
            THEN copies[CHOOSE d \in P : copies[d].newer /\ copies[d].calls # blob].calls ELSE blob)
           = IF copies[D].newer THEN copies[D].calls ELSE blob
<1>1. CASE copies[D].newer /\ copies[D].calls # blob
  <2>1. (CHOOSE d \in P : copies[d].newer /\ copies[d].calls # blob) = D  BY <1>1
  <2> QED BY <1>1, <2>1
<1>2. CASE ~(copies[D].newer /\ copies[D].calls # blob)
  <2>1. ~\E d \in P : copies[d].newer /\ copies[d].calls # blob  BY <1>2
  <2> QED BY <1>2, <2>1
<1> QED BY <1>1, <1>2

\* A list extends itself, and extending goes from list to list.
LEMMA ExtendsItself == ASSUME NEW c PROVE Extends(c, c)
BY DEF Extends

\* A read while the promise holds, and still holds after, gives what is stored
\* (state.py:97, :137).
LEMMA ReadsStored ==
    ASSUME Promise, ~harm, NEW p \in Run, NEW c, Read(p, c), ~harm'
    PROVE  c = Stored
<1>1. OnlyDiskAhead /\ Owned  BY DEF Promise, Holders
<1>2. Disk \in Place /\ p \in Place /\ p # Disk  BY SectorAssumption DEF Place
<1>3. Stored = IF local[Disk].newer THEN local[Disk].calls ELSE bucket
  BY <1>1, <1>2, Newest DEF Stored, OnlyDiskAhead, Holds
<1>4. Fresher(p) = Stored
  <2>1. CASE disk   BY <2>1, <1>3 DEF Fresher, Dir
  <2>2. CASE ~disk
    <3>1. ~Holds(p)  BY <2>2, <1>1, <1>2 DEF OnlyDiskAhead
    <3>2. ~local[Disk].newer  BY <2>2, <1>1, <1>2, SectorAssumption DEF Owned, Active
    <3> QED BY <2>2, <3>1, <3>2, <1>3 DEF Fresher, Dir, Holds
  <2> QED BY <2>1, <2>2
<1>5. PICK failed \in SUBSET {"blob", "file"} :
          /\ failed = {} => c = Fresher(p)
          /\ harm' = (harm \/ (failed # {} /\ c # Stored))
  BY DEF Read
<1>6. CASE failed = {}  BY <1>4, <1>5, <1>6
<1>7. CASE failed # {}  BY <1>5, <1>7, Zenon
<1> QED BY <1>6, <1>7

\* What is stored has the type of a list.
LEMMA StoredType == ASSUME TypeOK PROVE Stored \in Calls
<1>1. \A d \in Place : local[d].calls \in Calls  BY DEF TypeOK, Copy
<1>2. CASE \E d \in Place : Holds(d)
  <2>1. (CHOOSE d \in Place : Holds(d)) \in Place  BY <1>2
  <2> QED BY <1>1, <1>2, <2>1 DEF Stored
<1>3. CASE ~\E d \in Place : Holds(d)
  BY <1>3 DEF Stored, TypeOK
<1> QED BY <1>2, <1>3

\* Nothing restores a promise that was voided.
LEMMA HarmStays == ASSUME TypeOK, [Next]_vars, harm PROVE harm'
<1>1. ASSUME NEW p \in Run, Begin(p) PROVE harm'  BY <1>1, Zenon DEF Begin
<1>2. ASSUME NEW p \in Run, NEW c, Read(p, c) PROVE harm'  BY <1>2, Zenon DEF Read
<1>3. ASSUME NEW p \in Run, Grade(p) PROVE harm'  BY <1>2, <1>3, Zenon DEF Grade
<1>4. ASSUME NEW p \in Run, Append(p) PROVE harm'  BY <1>2, <1>4, Zenon DEF Append
<1>5. ASSUME NEW p \in Run, NEW at, NEW to, Save(p, at, to) PROVE harm'
  BY <1>5, Zenon DEF Save, Write
<1>6. ASSUME NEW p \in Run, Die(p) PROVE harm'  BY <1>6, Zenon DEF Die
<1> QED BY <1>1, <1>3, <1>4, <1>5, <1>6 DEF Next, SaveGrades, SaveNew, End, NewDay, vars

-----------------------------------------------------------------------------
(***************************************************************************)
(* While the promise holds.                                                *)
(***************************************************************************)

\* What a step must show: the promise again, and that the list has advanced.
Kept == Promise' /\ Extends(Stored, Stored')

\* A step that changes neither what is stored nor who may save what keeps it.
LEMMA Quiet ==
    ASSUME Promise, ~harm, NEW p \in Run,
           UNCHANGED <<disk, clock, files, told>>,
           \A q \in Run : pc[q] # "idle" => pc'[q] # "idle",
           \A q \in Run : q # p => pc'[q] = pc[q] /\ job'[q] = job[q],
           \A q \in Run : pc[q] # "idle" => q = p,
           pc'[p] \in {"saveGrades", "saveNew"} => Extends(Stored, job'[p].calls)
    PROVE  Kept
<1>1. Stored' = Stored  BY DEF files, Stored, Holds
<1>2. Holders /\ told \subseteq DOMAIN Stored  BY DEF Promise
<1>3. OnlyDiskAhead' /\ Lagging' /\ told' \subseteq DOMAIN Stored'
  BY <1>1, <1>2 DEF files, Holders, OnlyDiskAhead, Lagging, Holds
<1>a. Owned'  BY <1>2 DEF files, Holders, Owned, Active
<1>4. Sole'  BY DEF Sole
<1>5. SavesExtend'  BY <1>1 DEF SavesExtend
<1> QED BY <1>1, <1>3, <1>a, <1>4, <1>5, ExtendsItself DEF Kept, Promise, Holders

\* Where the only run that is active may keep a newer copy.
LEMMA OnlyOwn ==
    ASSUME Promise, ~harm, NEW p \in Run, pc[p] # "idle"
    PROVE  /\ \A d \in Place : local[d].newer => d = Dir(p)
           /\ \A q \in Run : q # p => pc[q] = "idle"
           /\ Stored = IF local[Dir(p)].newer THEN local[Dir(p)].calls ELSE bucket
<1>1. Sole /\ Owned  BY DEF Promise, Holders
<1>2. \A q \in Run : q # p => pc[q] = "idle"  BY <1>1 DEF Sole
<1>3. \A d \in Place : local[d].newer => d = Dir(p)
  BY <1>1, <1>2 DEF Owned, Active, Dir
<1>4. Dir(p) \in Place  BY DEF Dir, Place
<1>5. \A d \in Place : local[d].newer /\ local[d].calls # bucket => d = Dir(p)  BY <1>3
<1>6. Stored = IF local[Dir(p)].newer THEN local[Dir(p)].calls ELSE bucket
  BY <1>4, <1>5, Newest DEF Stored, Holds
<1> QED BY <1>2, <1>3, <1>6

\* The copies after an attempt to write the one of a run.
LEMMA CopiesAre ==
    ASSUME TypeOK, NEW p \in Run, NEW outcome, NEW uploaded \in BOOLEAN,
           \A d \in Place : local[d].newer => d = Dir(p)
    PROVE  LET copies == Copies(p, outcome, uploaded)
           IN  /\ copies[Dir(p)] = Rewritten(p, outcome, uploaded)
               /\ \A d \in Place : copies[d].newer => d = Dir(p)
<1>1. Dir(p) \in Place  BY DEF Dir, Place
<1>2. Copies(p, outcome, uploaded)[Dir(p)] = Rewritten(p, outcome, uploaded)  BY <1>1 DEF Copies
<1>3. ASSUME NEW d \in Place, d # Dir(p) PROVE ~Copies(p, outcome, uploaded)[d].newer
  <2>1. Copies(p, outcome, uploaded)[d] = Aged(local[d], uploaded)  BY <1>3 DEF Copies
  <2>2. local[d] \in Copy /\ ~local[d].newer  BY <1>3 DEF TypeOK
  <2>3. Aged(local[d], uploaded).newer = (local[d].newer /\ (~uploaded \/ clock = "ahead"))
    BY <2>2 DEF Aged, Copy
  <2>4. ~Aged(local[d], uploaded).newer  BY <2>2, <2>3, Zenon
  <2> QED BY <2>1, <2>4
<1> QED BY <1>2, <1>3

\* What an attempt to write the file leaves of it.
LEMMA RewrittenIs ==
    ASSUME TypeOK, NEW p \in Run, NEW outcome \in Fate, NEW uploaded \in BOOLEAN
    PROVE  LET copy == Rewritten(p, outcome, uploaded)
           IN  /\ outcome = "written" => copy.calls = job[p].calls
               /\ outcome = "written" /\ uploaded => (copy.newer <=> clock = "ahead")
               /\ outcome = "written" /\ ~uploaded => (copy.newer <=> clock # "behind" \/ bucket = Empty)
               /\ outcome = "torn" => ~copy.newer
               /\ outcome = "unopened" =>
                     /\ copy.calls = local[Dir(p)].calls
                     /\ copy.newer <=> local[Dir(p)].newer /\ (~uploaded \/ clock = "ahead")
<1>1. CASE outcome = "written"
  <2> DEFINE n == IF uploaded THEN clock = "ahead" ELSE clock # "behind" \/ bucket = Empty
  <2>1. Rewritten(p, outcome, uploaded) = [calls |-> job[p].calls, newer |-> n]
    BY <1>1 DEF Rewritten
  <2>2. /\ Rewritten(p, outcome, uploaded).calls = job[p].calls
        /\ Rewritten(p, outcome, uploaded).newer = n
    <3> HIDE DEF n
    <3> QED BY <2>1
  <2> QED BY <1>1, <2>2
<1>2. CASE outcome = "torn"  BY <1>2 DEF Rewritten, NoCopy
<1>3. CASE outcome = "unopened"
  <2>1. Rewritten(p, outcome, uploaded) = Aged(local[Dir(p)], uploaded)  BY <1>3 DEF Rewritten
  <2>2. local[Dir(p)] \in Copy  BY DEF TypeOK, Dir, Place
  <2>3. /\ Aged(local[Dir(p)], uploaded).calls = local[Dir(p)].calls
        /\ Aged(local[Dir(p)], uploaded).newer = (local[Dir(p)].newer /\ (~uploaded \/ clock = "ahead"))
    BY <2>2 DEF Aged, Copy
  <2> QED BY <1>3, <2>1, <2>3, Zenon
<1> QED BY <1>1, <1>2, <1>3 DEF Fate

\* What is stored after an attempt to write the copy of the only active run
\* that leaves the promise standing: the list to be saved, if one of the copies
\* took it for good, and else what was stored.
LEMMA StoredAfter ==
    ASSUME TypeOK, Promise, ~harm, NEW p \in Run, pc[p] # "idle",
           NEW outcome \in Fate, NEW uploaded \in BOOLEAN,
           NEW blob, blob = IF uploaded THEN job[p].calls ELSE bucket,
           uploaded \/ (disk /\ ~LastCopyLost(p, outcome)),
           ~(uploaded /\ outcome = "unopened" /\ clock = "ahead" /\ local[Dir(p)].newer),
           NEW copies, copies = Copies(p, outcome, uploaded)
    PROVE  LET after == IF copies[Dir(p)].newer THEN copies[Dir(p)].calls ELSE blob
               took  == uploaded \/ (outcome = "written" /\ (clock # "behind" \/ bucket = Empty))
           IN  after = IF took THEN job[p].calls ELSE Stored
<1> DEFINE copy == Rewritten(p, outcome, uploaded)
<1>1. \A d \in Place : local[d].newer => d = Dir(p)  BY OnlyOwn
<1>2. Stored = IF local[Dir(p)].newer THEN local[Dir(p)].calls ELSE bucket  BY OnlyOwn
<1>3. copies[Dir(p)] = copy  BY <1>1, CopiesAre
<1>4. Lagging  BY DEF Promise, Holders
<1>5. Dir(p) \in Place  BY DEF Dir, Place
<1>6. clock = "behind" /\ bucket # Empty => ~local[Dir(p)].newer  BY <1>4, <1>5 DEF Lagging
<1>7. CASE outcome = "written"
  <2>1. copy.calls = job[p].calls  BY <1>7, RewrittenIs
  <2>2. CASE uploaded  BY <1>3, <2>1, <2>2
  <2>3. CASE ~uploaded
    <3>1. copy.newer <=> clock # "behind" \/ bucket = Empty  BY <1>7, <2>3, RewrittenIs
    <3> HIDE DEF copy
    <3> QED BY <1>2, <1>3, <1>6, <1>7, <2>1, <2>3, <3>1
  <2> QED BY <2>2, <2>3
<1>8. CASE outcome = "torn"
  <2>1. ~copy.newer  BY <1>8, RewrittenIs
  <2>2. CASE uploaded  BY <1>3, <2>1, <2>2
  <2>3. CASE ~uploaded
    <3>1. ~Holds(Dir(p))  BY <1>8, <2>3 DEF LastCopyLost
    <3>2. Stored = bucket  BY <1>2, <3>1 DEF Holds
    <3> HIDE DEF copy
    <3> QED BY <1>3, <1>8, <2>1, <2>3, <3>2
  <2> QED BY <2>2, <2>3
<1>9. CASE outcome = "unopened"
  <2>1. copy.calls = local[Dir(p)].calls  BY <1>9, RewrittenIs
  <2>2. copy.newer <=> local[Dir(p)].newer /\ (~uploaded \/ clock = "ahead")  BY <1>9, RewrittenIs
  <2> HIDE DEF copy
  <2>3. CASE uploaded   BY <1>3, <1>9, <2>2, <2>3
  <2>4. CASE ~uploaded  BY <1>2, <1>3, <1>9, <2>1, <2>2, <2>4
  <2> QED BY <2>3, <2>4
<1> QED BY <1>7, <1>8, <1>9 DEF Fate

\* A clock that is behind never makes a written copy newer than a blob.
LEMMA LagsOn ==
    ASSUME TypeOK, Lagging, NEW p \in Run, NEW outcome \in Fate, NEW uploaded \in BOOLEAN,
           \A d \in Place : local[d].newer => d = Dir(p),
           clock = "behind", uploaded \/ bucket # Empty
    PROVE  \A d \in Place : ~Copies(p, outcome, uploaded)[d].newer
<1>1. \A d \in Place : Copies(p, outcome, uploaded)[d].newer => d = Dir(p)  BY CopiesAre
<1>2. Copies(p, outcome, uploaded)[Dir(p)] = Rewritten(p, outcome, uploaded)  BY CopiesAre
<1>3. Dir(p) \in Place  BY DEF Dir, Place
<1>4. uploaded \/ ~local[Dir(p)].newer  BY <1>3 DEF Lagging
<1>5. ~Rewritten(p, outcome, uploaded).newer
  <2>1. CASE outcome = "written"   BY <2>1, RewrittenIs
  <2>2. CASE outcome = "torn"      BY <2>2, RewrittenIs
  <2>3. CASE outcome = "unopened"  BY <1>4, <2>3, RewrittenIs
  <2> QED BY <2>1, <2>2, <2>3 DEF Fate
<1> QED BY <1>1, <1>2, <1>5

\* A save makes what was to be saved what is stored, or changes nothing of it.
LEMMA SaveKeeps ==
    ASSUME TypeOK, Promise, ~harm, ~harm', NEW p \in Run,
           NEW at \in {"saveGrades", "saveNew"}, NEW to \in {"append", "done"},
           Save(p, at, to)
    PROVE  Kept
<1>1. Sole /\ Holders /\ SavesExtend /\ told \subseteq DOMAIN Stored  BY DEF Promise
<1>2. PICK outcome \in Fate, uploaded \in BOOLEAN : Write(p, outcome, uploaded)  BY DEF Save
<1>3. /\ uploaded \/ (disk /\ clock # "behind" /\ ~LastCopyLost(p, outcome))
      /\ ~(uploaded /\ outcome = "unopened" /\ clock = "ahead" /\ local[Dir(p)].newer)
  BY <1>2, Zenon DEF Write
<1>4. UNCHANGED <<disk, clock>> /\ pc[p] = at  BY DEF Save, world
<1>5. pc[p] # "idle"  BY <1>4
<1>6. local' = Copies(p, outcome, uploaded)  BY <1>2 DEF Write
<1>7. bucket' = IF uploaded THEN job[p].calls ELSE bucket  BY <1>2 DEF Write
<1>8. \A d \in Place : local[d].newer => d = Dir(p)  BY <1>5, OnlyOwn
<1>9. \A d \in Place : local'[d].newer => d = Dir(p)  BY <1>6, <1>8, CopiesAre
<1>10. local'[Dir(p)] = Rewritten(p, outcome, uploaded)  BY <1>6, <1>8, CopiesAre
<1>11. Dir(p) \in Place  BY DEF Dir, Place
<1>12. Stored' = IF local'[Dir(p)].newer THEN local'[Dir(p)].calls ELSE bucket'
  <2>1. \A d \in Place : local'[d].newer /\ local'[d].calls # bucket' => d = Dir(p)  BY <1>9
  <2> QED BY <1>11, <2>1, Newest DEF Stored, Holds
<1>13. Stored' = IF outcome = "written" \/ uploaded THEN job[p].calls ELSE Stored
  <2>1. (IF local'[Dir(p)].newer THEN local'[Dir(p)].calls ELSE bucket')
          = IF uploaded \/ (outcome = "written" /\ (clock # "behind" \/ bucket = Empty))
            THEN job[p].calls ELSE Stored
    BY <1>3, <1>5, <1>6, <1>7, StoredAfter
  <2> QED BY <1>3, <1>12, <2>1
<1>14. Extends(Stored, job[p].calls)  BY <1>1, <1>4 DEF SavesExtend
<1>15. Extends(Stored, Stored')  BY <1>13, <1>14, ExtendsItself
<1>16. told' \subseteq DOMAIN Stored'
  <2>1. told' = IF outcome = "written" \/ uploaded THEN told \cup DOMAIN job[p].calls ELSE told
    BY <1>2 DEF Write
  <2>2. DOMAIN Stored \subseteq DOMAIN job[p].calls  BY <1>14 DEF Extends
  <2> QED BY <1>1, <1>13, <2>1, <2>2
<1>17. pc' = [pc EXCEPT ![p] = to]  BY DEF Save, Goes
<1>18. \A q \in Run : q # p => pc[q] = "idle"  BY <1>5, OnlyOwn
<1>19. pc'[p] = to /\ \A q \in Run : q # p => pc'[q] = "idle"  BY <1>17, <1>18 DEF TypeOK
<1>20. Sole'  BY <1>19 DEF Sole
<1>21. SavesExtend'  BY <1>19 DEF SavesExtend
<1>22. Owned'
  <2>1. \A d \in Place : local'[d].newer => d = IF disk' THEN Disk ELSE p  BY <1>4, <1>9 DEF Dir
  <2> QED BY <1>19, <2>1 DEF Owned, Active
<1>23. OnlyDiskAhead'
  <2>1. CASE disk   BY <1>4, <1>9, <2>1 DEF OnlyDiskAhead, Holds, Dir
  <2>2. CASE ~disk
    <3>1. uploaded /\ bucket' = job[p].calls  BY <1>3, <1>7, <2>2
    <3>2. Rewritten(p, outcome, uploaded).newer => Rewritten(p, outcome, uploaded).calls = job[p].calls
      BY <1>3, <3>1, RewrittenIs DEF Fate
    <3> QED BY <1>9, <1>10, <3>1, <3>2 DEF OnlyDiskAhead, Holds
  <2> QED BY <2>1, <2>2
<1>24. Lagging'
  <2> SUFFICES ASSUME clock = "behind" PROVE \A d \in Place : ~local'[d].newer
    BY <1>4 DEF Lagging
  <2> QED BY <1>1, <1>3, <1>6, <1>8, LagsOn DEF Holders
<1> QED BY <1>15, <1>16, <1>20, <1>21, <1>22, <1>23, <1>24 DEF Kept, Promise, Holders

\* The end of an execution, in the middle of a save too: on a machine with a
\* disk its file stays as the save left it, a container takes its own along.
LEMMA LeaveKeeps ==
    ASSUME TypeOK, Promise, ~harm, NEW p \in Run, pc[p] # "idle",
           NEW outcome \in Fate, Leave(p, Copies(p, outcome, FALSE)),
           ~LastCopyLost(p, outcome),
           outcome = "written" => pc[p] \in {"saveGrades", "saveNew"}
    PROVE  Kept
<1>1. Holders /\ SavesExtend /\ told \subseteq DOMAIN Stored  BY DEF Promise
<1>2. UNCHANGED <<disk, clock, bucket, told>>  BY DEF Leave, world
<1>3. Disk \in Place /\ p \in Place /\ p # Disk /\ Dir(p) \in Place
  BY SectorAssumption DEF Place, Dir
<1>4. \A d \in Place : local[d].newer => d = Dir(p)  BY OnlyOwn
<1>5. \A q \in Run : q # p => pc[q] = "idle"  BY OnlyOwn
<1>6. \A q \in Run : pc'[q] = "idle"  BY <1>5 DEF Leave, Goes, TypeOK
<1>7. Sole' /\ SavesExtend'  BY <1>6 DEF Sole, SavesExtend
<1>8. CASE disk
  <2>1. local' = Copies(p, outcome, FALSE) /\ Dir(p) = Disk  BY <1>8 DEF Leave, Dir
  <2>2. \A d \in Place : local'[d].newer => d = Disk  BY <1>4, <2>1, CopiesAre
  <2>3. OnlyDiskAhead' /\ Owned'  BY <1>2, <1>8, <2>2 DEF OnlyDiskAhead, Owned, Holds
  <2>4. Lagging'
    <3> SUFFICES ASSUME clock = "behind", bucket # Empty PROVE \A d \in Place : ~local'[d].newer
      BY <1>2 DEF Lagging
    <3> QED BY <1>1, <1>4, <2>1, LagsOn DEF Holders
  <2>5. Stored' = IF local'[Disk].newer THEN local'[Disk].calls ELSE bucket'
    <3>1. \A d \in Place : local'[d].newer /\ local'[d].calls # bucket' => d = Disk  BY <2>2
    <3> QED BY <1>3, <3>1, Newest DEF Stored, Holds
  <2>6. Stored' = Stored \/ (outcome = "written" /\ Stored' = job[p].calls)
    <3>1. (IF local'[Dir(p)].newer THEN local'[Dir(p)].calls ELSE bucket')
            = IF FALSE \/ (outcome = "written" /\ (clock # "behind" \/ bucket = Empty))
              THEN job[p].calls ELSE Stored
      <4>1. PICK uploaded \in BOOLEAN : uploaded = FALSE  OBVIOUS
      <4>2. bucket' = IF uploaded THEN job[p].calls ELSE bucket  BY <1>2, <4>1
      <4>3. local' = Copies(p, outcome, uploaded)  BY <2>1, <4>1
      <4>4. disk /\ ~uploaded  BY <1>8, <4>1
      <4>5. (IF local'[Dir(p)].newer THEN local'[Dir(p)].calls ELSE bucket')
              = IF uploaded \/ (outcome = "written" /\ (clock # "behind" \/ bucket = Empty))
                THEN job[p].calls ELSE Stored
        BY <4>2, <4>3, <4>4, StoredAfter
      <4> QED BY <4>4, <4>5
    <3> QED BY <2>1, <2>5, <3>1
  <2>7. Extends(Stored, Stored')  BY <1>1, <2>6, ExtendsItself DEF SavesExtend
  <2>8. told' \subseteq DOMAIN Stored'  BY <1>1, <1>2, <2>7 DEF Extends
  <2> QED BY <1>7, <2>3, <2>4, <2>7, <2>8 DEF Kept, Promise, Holders
<1>9. CASE ~disk
  <2>1. \A d \in Place : ~local'[d].newer
    <3>1. local' = [Copies(p, outcome, FALSE) EXCEPT ![p] = NoCopy] /\ Dir(p) = p
      BY <1>9 DEF Leave, Dir
    <3>2. \A d \in Place : Copies(p, outcome, FALSE)[d].newer => d = p  BY <1>4, <3>1, CopiesAre
    <3>3. Copies(p, outcome, FALSE) \in [Place -> Copy]  BY CopiesType
    <3>4. \A d \in Place : local'[d] = IF d = p THEN NoCopy ELSE Copies(p, outcome, FALSE)[d]
      BY <1>3, <3>1, <3>3
    <3>5. ~NoCopy.newer  BY DEF NoCopy
    <3> QED BY <3>2, <3>4, <3>5
  <2>2. Stored' = bucket  BY <1>2, <2>1 DEF Stored, Holds
  <2>3. Stored = bucket
    <3>1. \A d \in Place : ~Holds(d)  BY <1>1, <1>9 DEF Holders, OnlyDiskAhead
    <3> QED BY <3>1 DEF Stored
  <2>4. OnlyDiskAhead' /\ Owned' /\ Lagging'  BY <2>1 DEF OnlyDiskAhead, Owned, Lagging, Holds
  <2> QED BY <1>1, <1>2, <1>7, <2>2, <2>3, <2>4, ExtendsItself DEF Kept, Promise, Holders
<1> QED BY <1>8, <1>9

\* An execution that ends leaves the copies as they are, as one that could not
\* open its file does.
LEMMA Untouched == ASSUME TypeOK, NEW p \in Run PROVE Copies(p, "unopened", FALSE) = local
<1>1. \A d \in Place : Aged(local[d], FALSE) = local[d]
  BY DEF Aged, TypeOK, Copy
<1>2. Copies(p, "unopened", FALSE) = [d \in Place |-> local[d]]
  BY <1>1 DEF Copies, Rewritten
<1> QED BY <1>2 DEF TypeOK

\* Every step that leaves the promise standing keeps it.
LEMMA KeepStep == ASSUME TypeOK, Promise, [Next]_vars, ~harm' PROVE Kept
<1>0. ~harm  BY HarmStays
<1>s. Sole /\ told \subseteq DOMAIN Stored  BY <1>0 DEF Promise
<1>1. ASSUME NEW p \in Run, Begin(p) PROVE Kept
  <2>1. harm' = (harm \/ Active # {})  BY <1>1 DEF Begin
  <2>2. Active = {}  BY <2>1, Zenon
  <2>3. \A q \in Run : pc[q] = "idle"  BY <2>2 DEF Active
  <2>4. pc' = [pc EXCEPT ![p] = "grade"]  BY <1>1 DEF Begin, Goes
  <2>5. pc'[p] = "grade"  BY <2>4 DEF TypeOK
  <2>6. \A q \in Run : q # p => pc'[q] = pc[q] /\ job'[q] = job[q]
    BY <1>1 DEF Begin, Goes, TypeOK
  <2>7. UNCHANGED <<disk, clock, files, told>>  BY <1>1 DEF Begin, world
  <2> QED BY <1>0, <2>3, <2>5, <2>6, <2>7, Quiet
<1>2. ASSUME NEW p \in Run, Grade(p) PROVE Kept
  <2>1. PICK c \in Readable(p) :
          /\ Read(p, c)
          /\ \E priced \in SUBSET Open(c) : \E v \in [priced -> Verdict] :
                Goes(p, IF priced = {} THEN "append" ELSE "saveGrades",
                     [job[p] EXCEPT !.calls = Graded(c, priced, v)])
    BY <1>2 DEF Grade
  <2>2. c = Stored /\ c \in Calls  BY <1>0, <2>1, ReadsStored, ReadableType
  <2>3. PICK priced \in SUBSET Open(c) : \E v \in [priced -> Verdict] :
            Goes(p, IF priced = {} THEN "append" ELSE "saveGrades",
                 [job[p] EXCEPT !.calls = Graded(c, priced, v)])
    BY <2>1
  <2>4. PICK v \in [priced -> Verdict] :
            Goes(p, IF priced = {} THEN "append" ELSE "saveGrades",
                 [job[p] EXCEPT !.calls = Graded(c, priced, v)])
    BY <2>3
  <2>5. Extends(Stored, Graded(c, priced, v))  BY <2>2, GradedExtends
  <2>6. job[p] \in Job  BY DEF TypeOK
  <2>7. [job[p] EXCEPT !.calls = Graded(c, priced, v)].calls = Graded(c, priced, v)
    BY <2>6 DEF Job
  <2>8. job'[p].calls = Graded(c, priced, v)  BY <2>4, <2>7 DEF Goes, TypeOK
  <2>9. \A q \in Run : q # p => pc'[q] = pc[q] /\ job'[q] = job[q]  BY <2>4 DEF Goes, TypeOK
  <2>10. \A q \in Run : pc[q] # "idle" => q = p  BY <1>2, <1>s DEF Grade, Sole
  <2>11. UNCHANGED <<disk, clock, files, told>>  BY <1>2 DEF Grade, world
  <2>12. \A q \in Run : pc[q] # "idle" => pc'[q] # "idle"  BY <2>4 DEF Goes, TypeOK
  <2> QED BY <1>0, <2>5, <2>8, <2>9, <2>10, <2>11, <2>12, Quiet
<1>3. ASSUME NEW p \in Run, Append(p) PROVE Kept
  <2>1. PICK c \in Readable(p) :
          /\ Read(p, c)
          /\ \E plays \in SUBSET Fund :
                LET new == {<<f, job[p].day>> : f \in plays} \ DOMAIN c
                IN  Goes(p, IF new = {} THEN "done" ELSE "saveNew",
                         [job[p] EXCEPT !.calls =
                             [i \in DOMAIN c \cup new |-> IF i \in new THEN FirstVerdict ELSE c[i]]])
    BY <1>3 DEF Append
  <2>2. c = Stored /\ c \in Calls  BY <1>0, <2>1, ReadsStored, ReadableType
  <2>3. PICK plays \in SUBSET Fund :
                LET new == {<<f, job[p].day>> : f \in plays} \ DOMAIN c
                IN  Goes(p, IF new = {} THEN "done" ELSE "saveNew",
                         [job[p] EXCEPT !.calls =
                             [i \in DOMAIN c \cup new |-> IF i \in new THEN FirstVerdict ELSE c[i]]])
    BY <2>1
  <2> DEFINE new == {<<f, job[p].day>> : f \in plays} \ DOMAIN c
             after == [i \in DOMAIN c \cup new |-> IF i \in new THEN FirstVerdict ELSE c[i]]
  <2>4. job[p] \in Job /\ job[p].day \in 0 .. LastDay  BY DEF TypeOK, Job
  <2>5. new \in SUBSET Id /\ new \cap DOMAIN c = {}  BY <2>4 DEF Id
  <2>6. Goes(p, IF new = {} THEN "done" ELSE "saveNew", [job[p] EXCEPT !.calls = after])  BY <2>3
  <2>7. Extends(Stored, after)
    <3>1. after = [i \in DOMAIN c \cup new |-> IF i \in new THEN FirstVerdict ELSE c[i]]  OBVIOUS
    <3> HIDE DEF new, after
    <3> QED BY <2>2, <2>5, <3>1, AppendedExtends
  <2> HIDE DEF new, after
  <2>8. [job[p] EXCEPT !.calls = after].calls = after  BY <2>4 DEF Job
  <2>9. job'[p].calls = after  BY <2>6, <2>8 DEF Goes, TypeOK
  <2>10. \A q \in Run : q # p => pc'[q] = pc[q] /\ job'[q] = job[q]  BY <2>6 DEF Goes, TypeOK
  <2>11. \A q \in Run : pc[q] # "idle" => q = p  BY <1>3, <1>s DEF Append, Sole
  <2>12. UNCHANGED <<disk, clock, files, told>>  BY <1>3 DEF Append, world
  <2>13. \A q \in Run : pc[q] # "idle" => pc'[q] # "idle"  BY <2>6 DEF Goes, TypeOK
  <2> QED BY <1>0, <2>7, <2>9, <2>10, <2>11, <2>12, <2>13, Quiet
<1>4. ASSUME NEW p \in Run, SaveGrades(p) PROVE Kept
  BY <1>0, <1>4, SaveKeeps DEF SaveGrades
<1>5. ASSUME NEW p \in Run, SaveNew(p) PROVE Kept
  BY <1>0, <1>5, SaveKeeps DEF SaveNew
<1>6. ASSUME NEW p \in Run, End(p) PROVE Kept
  <2>1. Leave(p, Copies(p, "unopened", FALSE)) /\ pc[p] # "idle"  BY <1>6, Untouched DEF End
  <2>2. ~LastCopyLost(p, "unopened") /\ "unopened" \in Fate  BY DEF LastCopyLost, Fate
  <2> QED BY <1>0, <2>1, <2>2, LeaveKeeps
<1>7. ASSUME NEW p \in Run, Die(p) PROVE Kept
  <2>1. PICK outcome \in IF pc[p] \in {"saveGrades", "saveNew"} THEN Fate ELSE {"unopened"} :
            /\ Leave(p, Copies(p, outcome, FALSE))
            /\ harm' = (harm \/ LastCopyLost(p, outcome))
    BY <1>7 DEF Die
  <2>2. outcome \in Fate /\ (outcome = "written" => pc[p] \in {"saveGrades", "saveNew"})
    BY DEF Fate
  <2>3. ~LastCopyLost(p, outcome)  BY <2>1, Zenon
  <2>4. pc[p] # "idle"  BY <1>7 DEF Die
  <2> QED BY <1>0, <2>1, <2>2, <2>3, <2>4, LeaveKeeps
<1>8. CASE NewDay \/ UNCHANGED vars
  <2>1. UNCHANGED <<disk, clock, files, pc, job, told>>  BY <1>8 DEF NewDay, vars, world
  <2>2. Stored' = Stored  BY <2>1 DEF files, Stored, Holds
  <2>3. Promise'
    BY <1>0, <2>1, <2>2 DEF Promise, Sole, Holders, OnlyDiskAhead, Owned, Lagging, Holds, Active, SavesExtend, files
  <2> QED BY <2>2, <2>3, ExtendsItself DEF Kept
<1> QED BY <1>1, <1>2, <1>3, <1>4, <1>5, <1>6, <1>7, <1>8 DEF Next

-----------------------------------------------------------------------------
(***************************************************************************)
(* The theorems.                                                           *)
(***************************************************************************)

\* The variables keep their types, for any funds, runs and faults (state.py,
\* settlement.py, runner.py).
THEOREM TypeCorrect == Spec => []TypeOK
<1>1. Init => TypeOK
  <2>1. 0 \in 0 .. LastDay /\ "idle" \in Pc  BY SectorAssumption DEF Pc
  <2>2. NoCopy \in Copy /\ NoJob \in Job  BY <2>1, EmptyType DEF NoCopy, Copy, NoJob, Job
  <2> SUFFICES ASSUME Init PROVE TypeOK  OBVIOUS
  <2>3. local \in [Place -> Copy] /\ pc \in [Run -> Pc] /\ job \in [Run -> Job]
    BY <2>1, <2>2 DEF Init
  <2>4. harm \in BOOLEAN  BY Zenon DEF Init
  <2> QED BY <2>1, <2>3, <2>4, EmptyType DEF Init, TypeOK
<1> QED BY <1>1, TypeStep, PTL DEF Spec

\* The promise and what it rests on hold at the start.
LEMMA PromiseStarts == Init => Promise
<1> SUFFICES ASSUME Init PROVE Promise  OBVIOUS
<1>1. \A d \in Place : ~local[d].newer  BY DEF Init, NoCopy
<1>2. \A p \in Run : pc[p] = "idle"  BY DEF Init
<1>3. told = {}  BY DEF Init
<1> QED BY <1>1, <1>2, <1>3 DEF Promise, Sole, Holders, OnlyDiskAhead, Owned, Lagging, Holds, SavesExtend

\* A step keeps the invariant.
LEMMA PromiseStep == TypeOK /\ Promise /\ [Next]_vars => Promise'
<1> SUFFICES ASSUME TypeOK, Promise, [Next]_vars, ~harm' PROVE Promise'  BY DEF Promise
<1> QED BY KeepStep DEF Kept

\* What a run has saved, locally or in the bucket, stays recorded through
\* deaths and outages, while the promise of the store holds (state.py:72).
THEOREM NothingLostHolds == Spec => []NothingLost
<1>1. Promise => NothingLost  BY DEF Promise, NothingLost
<1> QED BY <1>1, PromiseStarts, PromiseStep, TypeCorrect, PTL DEF Spec

\* Every step of the store is a step of the register, or none.
LEMMA RegisterStep ==
    TypeOK /\ TypeOK' /\ Promise /\ [Next]_vars => [Register!Next]_<<Stored, ~harm>>
<1> SUFFICES ASSUME TypeOK, TypeOK', Promise, [Next]_vars PROVE Register!Next
  OBVIOUS
<1>1. Stored' \in Register!Registers
  <2>1. \A d \in Place : local'[d].calls \in Calls  BY DEF TypeOK, Copy
  <2>2. CASE \E d \in Place : Holds(d)'
    <3>1. (CHOOSE d \in Place : Holds(d)') \in Place  BY <2>2
    <3> QED BY <2>1, <2>2, <3>1 DEF Stored, Calls, Register!Registers
  <2>3. CASE ~\E d \in Place : Holds(d)'
    BY <2>3 DEF Stored, TypeOK, Calls, Register!Registers
  <2> QED BY <2>2, <2>3
<1>2. CASE harm'
  <2>1. (~harm)' = FALSE  BY <1>2, Zenon
  <2> QED BY <1>1, <2>1 DEF Register!Next, Register!Void
<1>3. CASE ~harm'
  <2>1. Kept  BY <1>3, KeepStep
  <2>2. ~harm  BY <1>3, HarmStays
  <2>3. (~harm)' = ~harm  BY <1>3, <2>2, Zenon
  <2>4. Extends(Stored, Stored')  BY <2>1 DEF Kept
  <2> QED BY <1>1, <2>3, <2>4 DEF Register!Next, Register!Advance, Extends
<1> QED BY <1>2, <1>3

\* The store implements the register of CallRegister: what is stored only
\* grows and final verdicts stay, until something voids the promise
\* (state.py:99, settlement.py:132).
THEOREM RegisterHolds == Spec => IsRegister
<1>1. Init => Register!Init
  <2> SUFFICES ASSUME Init PROVE Register!Init  OBVIOUS
  <2>1. \A d \in Place : ~local[d].newer  BY DEF Init, NoCopy
  <2>2. Stored = Empty  BY <2>1 DEF Init, Stored, Holds
  <2>3. (~harm) = TRUE  BY Zenon DEF Init
  <2> QED BY <2>2, <2>3 DEF Register!Init, Empty
<1> QED BY <1>1, RegisterStep, PromiseStarts, PromiseStep, TypeCorrect, PTL
        DEF Spec, IsRegister, Register!Spec

-----------------------------------------------------------------------------
(***************************************************************************)
(* Readiness.                                                              *)
(***************************************************************************)
\* The working copy, as far as a report can tell.
Tree == [lines : SUBSET Line, uncollectable : BOOLEAN, rules : Rules, files : SUBSET File,
         literals : SUBSET Literal, git : SUBSET GitFault, clean : [Lane -> Nat]]

\* What a run of the suite on t gives (RunSuite).
SuiteOf(t) == [code |-> ExitCode(t), lines |-> IF t.uncollectable THEN {} ELSE t.lines]

\* Outcomes of a suite.
Suite == [lines : SUBSET Line, code : Nat]

\* The same rules, but for the account's anchor.
Alike(r, q) == r.settings = q.settings /\ r.flags = q.flags /\ r.universe = q.universe /\ r.stops = q.stops

\* Two trees on which the suite does the same, whose rules a report that loads them
\* finds the same, and the same in all that is read when the gates are judged.
SameSuite(t, u) == t.lines = u.lines /\ t.uncollectable = u.uncollectable
SameRules(t, u) == Alike(t.rules, u.rules)
SameRest(t, u) == /\ t.files = u.files /\ t.literals = u.literals /\ t.git = u.git
                  /\ t.clean = u.clean /\ t.rules.anchor = u.rules.anchor

\* An edit changes the suite, the rules or the rest.
OneApart(t, u) ==
    \/ SameSuite(t, u) /\ SameRules(t, u)
    \/ SameSuite(t, u) /\ SameRest(t, u)
    \/ SameRules(t, u) /\ SameRest(t, u)

-----------------------------------------------------------------------------
\* Every shipped setting is a number.
LEMMA ShippedSettings == Shipped.settings \in [Setting -> Value]
<1>1. \A n \in Int : Number(n) \in Value  BY DEF Number, Value, Kind
<1>2. /\ \A k \in DOMAIN AtMost : AtMost[k] \in Int
      /\ \A k \in DOMAIN AtLeast : AtLeast[k] \in Int
  BY DEF AtMost, AtLeast
<1>3. /\ \A k \in DOMAIN OptionAtMost : OptionAtMost[k] \in Int
      /\ \A k \in DOMAIN OptionAtLeast : OptionAtLeast[k] \in Int
  BY DEF OptionAtMost, OptionAtLeast
<1>4. (\A k \in DOMAIN Floors : Floors[k] \in Int) /\ Multiplier \in Int
  BY DEF Floors, Multiplier
<1> HIDE DEF Value
<1>5. ASSUME NEW k \in Setting
      PROVE  (CASE k \in DOMAIN AtMost        -> Number(AtMost[k])
                [] k \in DOMAIN AtLeast       -> Number(AtLeast[k])
                [] k \in DOMAIN OptionAtMost  -> Number(OptionAtMost[k])
                [] k \in DOMAIN OptionAtLeast -> Number(OptionAtLeast[k])
                [] k \in DOMAIN Floors        -> Number(Floors[k])
                [] OTHER                      -> Number(Multiplier)) \in Value
  BY <1>1, <1>2, <1>3, <1>4
<1> QED BY <1>5 DEF Shipped

\* The shipped rules are rules.
LEMMA ShippedType == Shipped \in Rules
<1>1. Shipped.settings \in [Setting -> Value]  BY ShippedSettings
<1>2. Shipped = [settings |-> Shipped.settings, flags |-> {}, universe |-> TRUE, anchor |-> TRUE,
            stops |-> [crypto |-> "STOP_TRADING", equities |-> "STOP_TRADING_EQUITIES",
                       options |-> "STOP_TRADING_OPTIONS"]]
  BY DEF Shipped
<1>3. [crypto |-> "STOP_TRADING", equities |-> "STOP_TRADING_EQUITIES",
        options |-> "STOP_TRADING_OPTIONS"]
        \in [{"crypto", "equities", "options"} -> StopName]
  BY DEF StopName, StopFile
<1>4. ASSUME NEW f \in [Setting -> Value], NEW g \in [{"crypto", "equities", "options"} -> StopName]
      PROVE  [settings |-> f, flags |-> {}, universe |-> TRUE, anchor |-> TRUE, stops |-> g] \in Rules
  BY DEF Rules
<1> HIDE DEF Rules
<1> QED BY <1>1, <1>2, <1>3, <1>4

\* Adding or removing an element of S leaves a subset of S.
LEMMA FlippedType == ASSUME NEW S, NEW s \in SUBSET S, NEW e \in S PROVE Flipped(s, e) \in SUBSET S
BY DEF Flipped

\* A setting is edited to a value a setting may have.
LEMMA ValuesType == ASSUME NEW k \in Setting PROVE Values(k) \subseteq Value
<1>1. Shipped.settings[k] \in Value  BY ShippedSettings
<1>2. Shipped.settings[k].half \in Int  BY <1>1 DEF Value
<1>3. \A x \in Kind, h \in Int : [kind |-> x, half |-> h] \in Value  BY DEF Value
<1>4. {"missing", "text", "number", "quoted"} \subseteq Kind  BY DEF Kind
<1>5. Number(0) \in Value  BY <1>3, <1>4 DEF Number
<1> HIDE DEF Value, Kind
<1> QED BY <1>2, <1>3, <1>4, <1>5 DEF Values

\* Edited rules are rules.
LEMMA EditedRulesType ==
    ASSUME NEW r \in Rules, NEW q \in EditedRules(r)
    PROVE  q \in Rules /\ (q.anchor = r.anchor \/ Alike(r, q))
<1>1. ASSUME NEW k \in Tuned, NEW v \in Values(k), q = [r EXCEPT !.settings[k] = v] PROVE q \in Rules /\ q.anchor = r.anchor
  <2>1. k \in Setting /\ v \in Value  BY <1>1, ValuesType, BoundAssumption
  <2>2. [r.settings EXCEPT ![k] = v] \in [Setting -> Value]  BY <2>1 DEF Rules
  <2>3. q = [r EXCEPT !.settings = [r.settings EXCEPT ![k] = v]]  BY <1>1 DEF Rules
  <2> QED BY <2>2, <2>3 DEF Rules
<1>2. ASSUME NEW e \in Flag, q = [r EXCEPT !.flags = Flipped(@, e)] PROVE q \in Rules /\ q.anchor = r.anchor
  <2>1. Flipped(r.flags, e) \in SUBSET Flag  BY FlippedType DEF Rules
  <2> QED BY <1>2, <2>1 DEF Rules
<1>3. ASSUME q = [r EXCEPT !.universe = ~ @] PROVE q \in Rules /\ q.anchor = r.anchor
  BY <1>3 DEF Rules
<1>7. ASSUME q = [r EXCEPT !.anchor = ~ @] PROVE q \in Rules /\ Alike(r, q)
  BY <1>7 DEF Rules, Alike
<1>4. ASSUME NEW k \in {"crypto", "equities", "options"}, NEW s \in StopName,
        q = [r EXCEPT !.stops[k] = s]
      PROVE  q \in Rules /\ q.anchor = r.anchor
  <2>1. [r.stops EXCEPT ![k] = s] \in [{"crypto", "equities", "options"} -> StopName]  BY DEF Rules
  <2>2. q = [r EXCEPT !.stops = [r.stops EXCEPT ![k] = s]]  BY <1>4 DEF Rules
  <2> QED BY <2>1, <2>2 DEF Rules
<1>5. DOMAIN r.stops = {"crypto", "equities", "options"}  BY DEF Rules
<1>6. \/ \E k \in Tuned : \E v \in Values(k) : q = [r EXCEPT !.settings[k] = v]
      \/ \E e \in Flag : q = [r EXCEPT !.flags = Flipped(@, e)]
      \/ q = [r EXCEPT !.universe = ~ @] \/ q = [r EXCEPT !.anchor = ~ @]
      \/ \E k \in DOMAIN r.stops : \E s \in StopName : q = [r EXCEPT !.stops[k] = s]
  BY DEF EditedRules
<1> QED BY <1>1, <1>2, <1>3, <1>4, <1>5, <1>6, <1>7

\* An edit gives a tree, and changes one of the three parts at most.
LEMMA EditedType ==
    ASSUME NEW t \in Tree, NEW u \in EditedTrees(t)
    PROVE  u \in Tree /\ OneApart(t, u)
<1>1. ASSUME NEW r \in EditedRules(t.rules), u = [t EXCEPT !.rules = r] PROVE u \in Tree
        /\ OneApart(t, u)
  <2>1. r \in Rules /\ (r.anchor = t.rules.anchor \/ Alike(t.rules, r))  BY EditedRulesType DEF Tree
  <2>2. u \in Tree /\ u.rules = r  BY <1>1, <2>1 DEF Tree
  <2>3. SameSuite(t, u)  BY <1>1 DEF Tree, SameSuite
  <2>4. r.anchor = t.rules.anchor => SameRest(t, u)  BY <1>1 DEF Tree, SameRest
  <2> QED BY <2>1, <2>2, <2>3, <2>4 DEF OneApart, SameRules
<1>2. ASSUME NEW l \in SUBSET Line, NEW b \in BOOLEAN, u = [t EXCEPT !.lines = l]
        \/ u = [t EXCEPT !.uncollectable = b]
      PROVE  u \in Tree /\ OneApart(t, u)
  BY <1>2 DEF Tree, OneApart, SameRules, Alike, SameRest
<1>3. ASSUME NEW f \in SUBSET File, u = [t EXCEPT !.files = f] PROVE u \in Tree /\ OneApart(t, u)
  BY <1>3 DEF Tree, OneApart, SameRules, Alike, SameSuite
<1>4. ASSUME NEW f \in SUBSET Literal, u = [t EXCEPT !.literals = f] PROVE u \in Tree /\ OneApart(t, u)
  BY <1>4 DEF Tree, OneApart, SameRules, Alike, SameSuite
<1>5. ASSUME NEW f \in SUBSET GitFault, u = [t EXCEPT !.git = f] PROVE u \in Tree /\ OneApart(t, u)
  BY <1>5 DEF Tree, OneApart, SameRules, Alike, SameSuite
<1>6. ASSUME NEW l \in Lane, NEW n \in Nat, u = [t EXCEPT !.clean[l] = n] PROVE u \in Tree
        /\ OneApart(t, u)
  <2>1. [t.clean EXCEPT ![l] = n] \in [Lane -> Nat]  BY DEF Tree
  <2>2. u = [t EXCEPT !.clean = [t.clean EXCEPT ![l] = n]]  BY <1>6 DEF Tree
  <2> QED BY <2>1, <2>2 DEF Tree, OneApart, SameRules, Alike, SameSuite
<1>7. /\ \A l \in Line : Flipped(t.lines, l) \in SUBSET Line
      /\ \A e \in File : Flipped(t.files, e) \in SUBSET File
      /\ \A e \in Literal : Flipped(t.literals, e) \in SUBSET Literal
      /\ \A e \in GitFault : Flipped(t.git, e) \in SUBSET GitFault
  BY FlippedType DEF Tree
<1>8. \/ \E r \in EditedRules(t.rules) : u = [t EXCEPT !.rules = r]
      \/ \E l \in Line : u = [t EXCEPT !.lines = Flipped(@, l)]
      \/ u = [t EXCEPT !.lines = {}] \/ u = [t EXCEPT !.uncollectable = ~ @]
      \/ \E e \in File : u = [t EXCEPT !.files = Flipped(@, e)]
      \/ \E l \in Literal : u = [t EXCEPT !.literals = Flipped(@, l)]
      \/ \E e \in GitFault : u = [t EXCEPT !.git = Flipped(@, e)]
      \/ \E l \in Lane, n \in {0, 1, 3} : u = [t EXCEPT !.clean[l] = n]
  BY DEF EditedTrees
<1>9. CASE \E l \in Line : u = [t EXCEPT !.lines = Flipped(@, l)]
  BY <1>9, <1>2, <1>7
<1>10. CASE u = [t EXCEPT !.lines = {}]
  BY <1>10, <1>2
<1>11. CASE u = [t EXCEPT !.uncollectable = ~ @]
  BY <1>11, <1>2 DEF Tree
<1>12. CASE \E e \in File : u = [t EXCEPT !.files = Flipped(@, e)]
  BY <1>12, <1>3, <1>7
<1>13. CASE \E l \in Literal : u = [t EXCEPT !.literals = Flipped(@, l)]
  BY <1>13, <1>4, <1>7
<1>14. CASE \E e \in GitFault : u = [t EXCEPT !.git = Flipped(@, e)]
  BY <1>14, <1>5, <1>7
<1>15. CASE \E l \in Lane, n \in {0, 1, 3} : u = [t EXCEPT !.clean[l] = n]
  BY <1>15, <1>6
<1> QED BY <1>1, <1>8, <1>9, <1>10, <1>11, <1>12, <1>13, <1>14, <1>15
-----------------------------------------------------------------------------
(***************************************************************************)
(* A verdict says of a tree what the documents ask of it.                  *)
(***************************************************************************)

\* A run of the suite gives outcomes.
LEMMA SuiteType == ASSUME NEW t \in Tree PROVE SuiteOf(t) \in Suite
<1>1. ExitCode(t) \in Nat  BY DEF ExitCode
<1> QED BY <1>1 DEF SuiteOf, Suite, Tree

\* The worst case has passed when nothing but passed was seen (parse_pytest_output).
LEMMA WorstPassed ==
    ASSUME NEW S \in SUBSET Outcome PROVE Worst(S) = "PASSED" <=> S = {"PASSED"}
<1>1. ASSUME Worst(S) = "PASSED" PROVE S = {"PASSED"}
  <2>1. S # {} /\ "FAILED" \notin S /\ "SKIPPED" \notin S  BY <1>1 DEF Worst
  <2>2. \A x \in S : x = "PASSED"  BY <2>1 DEF Outcome
  <2> QED BY <2>1, <2>2
<1>2. ASSUME S = {"PASSED"} PROVE Worst(S) = "PASSED"
  <2>1. S # {} /\ "FAILED" \notin S /\ "SKIPPED" \notin S  BY <1>2
  <2> QED BY <2>1 DEF Worst
<1> QED BY <1>1, <1>2

\* The worst case has failed when one case has.
LEMMA WorstFailed == ASSUME NEW S \in SUBSET Outcome PROVE Worst(S) = "FAILED" <=> "FAILED" \in S
BY DEF Worst

\* What is seen of a test are outcomes.
LEMMA OutcomesType == ASSUME NEW s \in Suite, NEW n PROVE Outcomes(s, n) \in SUBSET Outcome
<1>1. s.lines \subseteq Node \X Outcome  BY DEF Suite, Line
<1> QED BY <1>1 DEF Outcomes

\* An outcome of a test is a line of it.
LEMMA OutcomeOf ==
    ASSUME NEW s \in Suite, NEW n, NEW o
    PROVE  o \in Outcomes(s, n) <=> <<n, o>> \in s.lines
<1>1. s.lines \subseteq Node \X Outcome  BY DEF Suite, Line
<1>2. \A l \in s.lines : l = <<l[1], l[2]>>  BY <1>1
<1> QED BY <1>2 DEF Outcomes

\* The suite has passed exactly when its tree is green.
LEMMA Green == ASSUME NEW t \in Tree PROVE SuitePassed(SuiteOf(t)) <=> SuiteGreen(t)
<1>1. SuiteOf(t) \in Suite  BY SuiteType
<1>2. t.lines \subseteq Node \X Outcome  BY DEF Tree, Line
<1>3. t.uncollectable \in BOOLEAN  BY DEF Tree
<1>4. SuiteOf(t).code = ExitCode(t) /\ SuiteOf(t).lines = IF t.uncollectable THEN {} ELSE t.lines
  BY DEF SuiteOf
<1>5. ASSUME SuitePassed(SuiteOf(t)) PROVE SuiteGreen(t)
  BY <1>3, <1>4, <1>5 DEF SuitePassed, SuiteGreen, ExitCode
<1>6. ASSUME SuiteGreen(t) PROVE SuitePassed(SuiteOf(t))
  <2>1. ~ t.uncollectable /\ t.lines # {} /\ \A l \in t.lines : l[2] # "FAILED"  BY <1>6 DEF SuiteGreen
  <2>2. SuiteOf(t).code = 0 /\ SuiteOf(t).lines = t.lines  BY <1>4, <2>1 DEF ExitCode
  <2>3. \A n \in Node : Worst(Outcomes(SuiteOf(t), n)) # "FAILED"
    <3> SUFFICES ASSUME NEW n \in Node PROVE Worst(Outcomes(SuiteOf(t), n)) # "FAILED"  OBVIOUS
    <3>1. <<n, "FAILED">> \notin SuiteOf(t).lines
      <4>1. <<n, "FAILED">>[2] = "FAILED"  OBVIOUS
      <4> QED BY <2>1, <2>2, <4>1
    <3>2. "FAILED" \notin Outcomes(SuiteOf(t), n)  BY <1>1, <3>1, OutcomeOf
    <3> QED BY <1>1, <3>2, OutcomesType, WorstFailed
  <2> QED BY <2>1, <2>2, <2>3 DEF SuitePassed, Failed
<1> QED BY <1>5, <1>6

\* The tests of a lane are those that prove one of its gates.
LEMMA ProvingNodes ==
    ASSUME NEW lane \in Lane
    PROVE  \A node : node \in Node /\ node[1] = lane
                     <=> \E gate \in GatesOf(lane) : node \in Proving(lane, gate)
<1>1. ASSUME NEW own \in Lane, NEW gate \in GatesOf(own), NEW node \in Proving(own, gate)
      PROVE  node[1] = own
  BY DEF Proving
<1>2. \A node : node \in Node <=> \/ node = <<"none", "any_other_test">>
                                    \/ \E own \in Lane : \E gate \in GatesOf(own) :
                                        node \in Proving(own, gate)
  BY DEF Node
<1>3. <<"none", "any_other_test">>[1] \notin Lane  BY DEF Lane
<1> QED BY <1>1, <1>2, <1>3

\* Every gate's tests have passed exactly when the tree's tests prove the lane.
LEMMA TestsShown ==
    ASSUME NEW t \in Tree, NEW lane \in Lane, ~ t.uncollectable
    PROVE  (\A gate \in GatesOf(lane) : \A node \in Proving(lane, gate) :
                Worst(Outcomes(SuiteOf(t), node)) = "PASSED")
           <=> TestsProve(lane, t)
<1>1. SuiteOf(t) \in Suite /\ SuiteOf(t).lines = t.lines  BY SuiteType DEF SuiteOf
<1>2. t.lines \subseteq Node \X Outcome  BY DEF Tree, Line
<1>3. ASSUME NEW n PROVE Worst(Outcomes(SuiteOf(t), n)) = "PASSED"
                         <=> {l \in t.lines : l[1] = n} = {<<n, "PASSED">>}
  <2>1. \A o : o \in Outcomes(SuiteOf(t), n) <=> <<n, o>> \in t.lines  BY <1>1, OutcomeOf
  <2>2. Worst(Outcomes(SuiteOf(t), n)) = "PASSED" <=> Outcomes(SuiteOf(t), n) = {"PASSED"}
    BY <1>1, OutcomesType, WorstPassed
  <2>3. \A l \in t.lines : l[1] = n <=> l = <<n, l[2]>>  BY <1>2
  <2>4. ASSUME Outcomes(SuiteOf(t), n) = {"PASSED"} PROVE {l \in t.lines :
          l[1] = n} = {<<n, "PASSED">>}
    <3>1. <<n, "PASSED">> \in t.lines /\ <<n, "PASSED">>[1] = n  BY <2>1, <2>4
    <3>2. \A l \in t.lines : l[1] = n => l = <<n, "PASSED">>  BY <2>1, <2>3, <2>4
    <3> QED BY <3>1, <3>2
  <2>5. ASSUME {l \in t.lines : l[1] = n} = {<<n, "PASSED">>} PROVE Outcomes(SuiteOf(t),
          n) = {"PASSED"}
    <3>1. <<n, "PASSED">> \in t.lines  BY <2>5
    <3>2. \A o : <<n, o>> \in t.lines => o = "PASSED"
      <4> SUFFICES ASSUME NEW o, <<n, o>> \in t.lines PROVE o = "PASSED"  OBVIOUS
      <4>1. <<n, o>>[1] = n  OBVIOUS
      <4>2. <<n, o>> = <<n, "PASSED">>  BY <2>5, <4>1
      <4> QED BY <4>2
    <3> QED BY <2>1, <3>1, <3>2
  <2> QED BY <2>2, <2>4, <2>5
<1> QED BY <1>3, ProvingNodes DEF TestsProve

\* A number up to a bound, and from it on, in halves.
AtMostHalf(v, n) == v.kind \notin {"missing", "text"} /\ v.half <= 2 * n
AtLeastHalf(v, n) == v.kind \notin {"missing", "text"} /\ v.half >= 2 * n

\* What int() makes of a number (option_readiness.py:166, :178): it is at least n, for a
\* whole n above zero, exactly when the number is.
LEMMA TruncatedFloor ==
    ASSUME NEW v \in Value, NEW n \in Nat, n >= 1
    PROVE  Truncated(v) >= n <=> v.half >= 2 * n
<1>1. v.half \in Int  BY DEF Value
<1>2. CASE v.half >= 0
  <2>1. PICK q \in Int : (v.half = 2 * q \/ v.half = 2 * q + 1) /\ v.half \div 2 = q  BY <1>1
  <2>2. Truncated(v) = q  BY <1>2, <2>1 DEF Truncated
  <2> QED BY <1>1, <2>1, <2>2
<1>3. CASE ~(v.half >= 0)
  <2>1. PICK q \in Int : (-v.half = 2 * q \/ -v.half = 2 * q + 1) /\ (-v.half) \div 2 = q  BY <1>1
  <2>2. Truncated(v) = -q  BY <1>3, <2>1 DEF Truncated
  <2> QED BY <1>1, <1>3, <2>1, <2>2
<1> QED BY <1>2, <1>3

\* What int() makes of a number is a whole number.
LEMMA TruncatedType == ASSUME NEW v \in Value PROVE Truncated(v) \in Int
<1>1. v.half \in Int  BY DEF Value
<1> QED BY <1>1 DEF Truncated

\* The equities lane's caps are those its documents ask for.
LEMMA EquityCaps ==
    ASSUME NEW r \in Rules PROVE RiskCaps(r) <=> CapsHold("equities", r)
<1>1. \A k \in Setting : r.settings[k] \in Value  BY DEF Rules
<1>2. \A v \in Value : \A n : (Within(v, n) <=> AtMostHalf(v, n)) /\ (Beyond(v, n) <=> AtLeastHalf(v, n))
  BY DEF Within, Beyond, IsNumber, AtMostHalf, AtLeastHalf, Value, Kind
<1>3. (\A k \in DOMAIN AtMost : Within(r.settings[k], AtMost[k])) <=>
        /\ AtMostHalf(r.settings["max_trade_amount_usd"], 100)
        /\ AtMostHalf(r.settings["max_daily_loss_usd"], 100)
        /\ AtMostHalf(r.settings["max_trades_per_day"], 5)
        /\ AtMostHalf(r.settings["max_open_positions"], 10)
        /\ AtMostHalf(r.settings["max_symbol_allocation_percent"], 25)
  <2>1. DOMAIN AtMost = {"max_trade_amount_usd", "max_daily_loss_usd", "max_trades_per_day",
          "max_open_positions", "max_symbol_allocation_percent"}  BY DEF AtMost
  <2>2. \A k \in DOMAIN AtMost : r.settings[k] \in Value  BY <1>1 DEF Setting
  <2>3. \A k \in DOMAIN AtMost : Within(r.settings[k], AtMost[k]) <=> AtMostHalf(r.settings[k], AtMost[k])
    BY <1>2, <2>2
  <2>4. /\ AtMost["max_trade_amount_usd"] = 100 /\ AtMost["max_daily_loss_usd"] = 100
        /\ AtMost["max_trades_per_day"] = 5 /\ AtMost["max_open_positions"] = 10
        /\ AtMost["max_symbol_allocation_percent"] = 25
    BY DEF AtMost
  <2> QED BY <2>1, <2>3, <2>4
<1>4. (\A k \in DOMAIN AtLeast : Beyond(r.settings[k], AtLeast[k]))
        <=> AtLeastHalf(r.settings["min_order_cooldown_seconds"], 300)
  <2>1. DOMAIN AtLeast = {"min_order_cooldown_seconds"} /\ AtLeast["min_order_cooldown_seconds"] = 300
    BY DEF AtLeast
  <2>2. r.settings["min_order_cooldown_seconds"] \in Value  BY <1>1, <2>1 DEF Setting
  <2> QED BY <1>2, <2>1, <2>2
<1>5. r.flags \cap {"allow_margin", "allow_shorts", "allow_shorting"} = {}
      <=> r.flags \subseteq {"allow_zero_dte"}
  <2>1. r.flags \subseteq Flag  BY DEF Rules
  <2> QED BY <2>1 DEF Flag
<1>6. CapsHold("equities", r) <=>
        /\ AtMostHalf(r.settings["max_trade_amount_usd"], 100)
        /\ AtMostHalf(r.settings["max_daily_loss_usd"], 100)
        /\ AtMostHalf(r.settings["max_trades_per_day"], 5)
        /\ AtMostHalf(r.settings["max_open_positions"], 10)
        /\ AtMostHalf(r.settings["max_symbol_allocation_percent"], 25)
        /\ r.settings["max_symbol_allocation_percent"].half > 0
        /\ AtLeastHalf(r.settings["min_order_cooldown_seconds"], 300)
        /\ r.flags \subseteq {"allow_zero_dte"} /\ r.universe
  BY DEF CapsHold, AtMostHalf, AtLeastHalf
<1> QED BY <1>3, <1>4, <1>5, <1>6 DEF RiskCaps

\* So are the options lane's, with the account they are bound to, where a verdict is given.
LEMMA OptionCaps ==
    ASSUME NEW r \in Rules
    PROVE  OptionRiskCaps(r) /\ ~Crashes("options", r) /\ r.anchor <=> CapsHold("options", r)
<1> DEFINE whole(k) == r.settings[k].kind = "quoted" => r.settings[k].half % 2 = 0
<1>1. \A k \in Setting : r.settings[k] \in Value  BY DEF Rules
<1>2. \A v \in Value : \A n : (Within(v, n) <=> AtMostHalf(v, n)) /\ (Beyond(v, n) <=> AtLeastHalf(v, n))
  BY DEF Within, Beyond, IsNumber, AtMostHalf, AtLeastHalf, Value, Kind
<1>3. (\A k \in DOMAIN OptionAtMost : Within(r.settings[k], OptionAtMost[k])) <=>
        /\ AtMostHalf(r.settings["max_debit_premium_per_trade_usd"], 500)
        /\ AtMostHalf(r.settings["max_total_premium_at_risk_usd"], 1500)
        /\ AtMostHalf(r.settings["max_contracts_per_order"], 5)
  <2>1. DOMAIN OptionAtMost = {"max_debit_premium_per_trade_usd",
          "max_total_premium_at_risk_usd", "max_contracts_per_order"}  BY DEF OptionAtMost
  <2>2. \A k \in DOMAIN OptionAtMost : r.settings[k] \in Value  BY <1>1 DEF Setting
  <2>3. \A k \in DOMAIN OptionAtMost :
            Within(r.settings[k], OptionAtMost[k]) <=> AtMostHalf(r.settings[k], OptionAtMost[k])
    BY <1>2, <2>2
  <2>4. /\ OptionAtMost["max_debit_premium_per_trade_usd"] = 500
        /\ OptionAtMost["max_total_premium_at_risk_usd"] = 1500
        /\ OptionAtMost["max_contracts_per_order"] = 5
    BY DEF OptionAtMost
  <2> QED BY <2>1, <2>3, <2>4
<1>4. (\A k \in DOMAIN OptionAtLeast : Beyond(r.settings[k], OptionAtLeast[k]))
        <=> AtLeastHalf(r.settings["min_days_to_expiry"], 2)
  <2>1. DOMAIN OptionAtLeast = {"min_days_to_expiry"} /\ OptionAtLeast["min_days_to_expiry"] = 2
    BY DEF OptionAtLeast
  <2>2. r.settings["min_days_to_expiry"] \in Value  BY <1>1, <2>1 DEF Setting
  <2> QED BY <1>2, <2>1, <2>2
<1>5. DOMAIN Floors = {"single_leg_long", "long_multi_leg", "defined_risk_spread"}  BY DEF Floors
<1>6. Floors["single_leg_long"] = 2 /\ Floors["long_multi_leg"] = 3 /\ Floors["defined_risk_spread"] = 3
  BY DEF Floors
<1>7. \A k \in Integral : r.settings[k] \in Value  BY <1>1 DEF Integral, Setting
<1>8. \A k \in Integral :
          r.settings[k].kind # "missing" /\ ~Raises(r.settings[k])
          <=> r.settings[k].kind \notin {"missing", "text"} /\ whole(k)
  BY DEF Raises
<1>9. ASSUME NEW k \in Integral, NEW n \in Nat, n >= 1
      PROVE  Truncated(r.settings[k]) >= n <=> r.settings[k].half >= 2 * n
  BY <1>7, <1>9, TruncatedFloor
<1>10. Truncated(r.settings["contract_multiplier"]) = Multiplier
         <=> r.settings["contract_multiplier"].half >= 2 * 100
             /\ r.settings["contract_multiplier"].half < 2 * 101
  <2>1. "contract_multiplier" \in Integral  BY DEF Integral
  <2> DEFINE v == r.settings["contract_multiplier"]
  <2>2. v \in Value /\ v.half \in Int /\ Truncated(v) \in Int
    BY <1>7, <2>1, TruncatedType DEF Value
  <2>3. (Truncated(v) >= 100 <=> v.half >= 2 * 100) /\ (Truncated(v) >= 101 <=> v.half >= 2 * 101)
    BY <1>9, <2>1
  <2> HIDE DEF v
  <2>4. Truncated(v) = 100 <=> v.half >= 2 * 100 /\ v.half < 2 * 101  BY <2>2, <2>3
  <2> QED BY <2>4 DEF v, Multiplier
<1>11. (\A k \in DOMAIN Floors : Truncated(r.settings[k]) >= Floors[k]) <=>
         /\ r.settings["single_leg_long"].half >= 2 * 2
         /\ r.settings["long_multi_leg"].half >= 2 * 3
         /\ r.settings["defined_risk_spread"].half >= 2 * 3
  <2>1. {"single_leg_long", "long_multi_leg", "defined_risk_spread"} \subseteq Integral
    BY <1>5 DEF Integral
  <2>2. /\ Truncated(r.settings["single_leg_long"]) >= 2 <=> r.settings["single_leg_long"].half >= 2 * 2
        /\ Truncated(r.settings["long_multi_leg"]) >= 3 <=> r.settings["long_multi_leg"].half >= 2 * 3
        /\ Truncated(r.settings["defined_risk_spread"]) >= 3
             <=> r.settings["defined_risk_spread"].half >= 2 * 3
    BY <1>9, <2>1
  <2> QED BY <1>5, <1>6, <2>2
<1>12. Integral = {"single_leg_long", "long_multi_leg", "defined_risk_spread", "contract_multiplier"}
  BY <1>5 DEF Integral
<1>13. (\A k \in Integral : r.settings[k].kind # "missing") /\ ~Crashes("options", r) <=>
         \A k \in Integral : r.settings[k].kind \notin {"missing", "text"} /\ whole(k)
  <2>1. ~Crashes("options", r) <=> \A k \in Integral : ~Raises(r.settings[k])  BY DEF Crashes
  <2> QED BY <1>8, <2>1
<1>14. (\A k \in Integral : r.settings[k].kind \notin {"missing", "text"} /\ whole(k)) <=>
         /\ r.settings["single_leg_long"].kind \notin {"missing", "text"} /\ whole("single_leg_long")
         /\ r.settings["long_multi_leg"].kind \notin {"missing", "text"} /\ whole("long_multi_leg")
         /\ r.settings["defined_risk_spread"].kind \notin {"missing", "text"}
         /\ whole("defined_risk_spread")
         /\ r.settings["contract_multiplier"].kind \notin {"missing", "text"}
         /\ whole("contract_multiplier")
  <2> HIDE DEF whole
  <2> QED BY <1>12
<1>15. CapsHold("options", r) <=>
         /\ AtMostHalf(r.settings["max_debit_premium_per_trade_usd"], 500)
         /\ AtMostHalf(r.settings["max_total_premium_at_risk_usd"], 1500)
         /\ AtMostHalf(r.settings["max_contracts_per_order"], 5)
         /\ AtLeastHalf(r.settings["min_days_to_expiry"], 2)
         /\ AtLeastHalf(r.settings["contract_multiplier"], 100)
         /\ r.settings["contract_multiplier"].half < 2 * 101
         /\ AtLeastHalf(r.settings["single_leg_long"], 2) /\ AtLeastHalf(r.settings["long_multi_leg"], 3)
         /\ AtLeastHalf(r.settings["defined_risk_spread"], 3)
         /\ whole("contract_multiplier") /\ whole("single_leg_long")
         /\ whole("long_multi_leg") /\ whole("defined_risk_spread")
         /\ "allow_zero_dte" \notin r.flags /\ r.anchor
  BY DEF CapsHold, AtMostHalf, AtLeastHalf
<1> HIDE DEF whole
<1>17. /\ AtLeastHalf(r.settings["contract_multiplier"], 100)
            <=> r.settings["contract_multiplier"].kind \notin {"missing", "text"}
                /\ r.settings["contract_multiplier"].half >= 2 * 100
       /\ AtLeastHalf(r.settings["single_leg_long"], 2)
            <=> r.settings["single_leg_long"].kind \notin {"missing", "text"}
                /\ r.settings["single_leg_long"].half >= 2 * 2
       /\ AtLeastHalf(r.settings["long_multi_leg"], 3)
            <=> r.settings["long_multi_leg"].kind \notin {"missing", "text"}
                /\ r.settings["long_multi_leg"].half >= 2 * 3
       /\ AtLeastHalf(r.settings["defined_risk_spread"], 3)
            <=> r.settings["defined_risk_spread"].kind \notin {"missing", "text"}
                /\ r.settings["defined_risk_spread"].half >= 2 * 3
  BY DEF AtLeastHalf
<1>16. OptionRiskCaps(r) <=>
         /\ AtMostHalf(r.settings["max_debit_premium_per_trade_usd"], 500)
         /\ AtMostHalf(r.settings["max_total_premium_at_risk_usd"], 1500)
         /\ AtMostHalf(r.settings["max_contracts_per_order"], 5)
         /\ AtLeastHalf(r.settings["min_days_to_expiry"], 2)
         /\ "allow_zero_dte" \notin r.flags
         /\ \A k \in Integral : r.settings[k].kind # "missing"
         /\ r.settings["contract_multiplier"].half >= 2 * 100
         /\ r.settings["contract_multiplier"].half < 2 * 101
         /\ r.settings["single_leg_long"].half >= 2 * 2
         /\ r.settings["long_multi_leg"].half >= 2 * 3
         /\ r.settings["defined_risk_spread"].half >= 2 * 3
  BY <1>3, <1>4, <1>10, <1>11 DEF OptionRiskCaps
<1> DEFINE numbers == \A k \in Integral : r.settings[k].kind # "missing"
<1> DEFINE crashes == Crashes("options", r)
<1> HIDE DEF numbers, crashes
<1> QED BY <1>13, <1>14, <1>15, <1>16, <1>17 DEF numbers, crashes

\* The scan for secrets and account numbers finds what the documents forbid.
LEMMA NoLeaks ==
    ASSUME NEW t \in Tree
    PROVE  /\ NoSecret(t) <=> \A l \in t.literals : ~ Leaks(l)
           /\ AgenticAccount(t) <=>
                /\ "binding_doc" \in t.files
                /\ \A l \in t.literals : l.place = "src" /\ l.value = "digits" => l.name # "account"
<1>1. t.literals \subseteq Literal  BY DEF Tree
<1>2. \A l \in Literal : Scanned(l) /\ LooksSecret(l) <=> Leaks(l)
  BY DEF Literal, Scanned, LooksSecret, Leaks
<1> QED BY <1>1, <1>2 DEF NoSecret, AgenticAccount, AccountLiteral

\* What the evidence of all gates of the equities lane amounts to.
LEMMA EquityShown ==
    ASSUME NEW t \in Tree
    PROVE  (\A gate \in GatesOf("equities") : Evidence("equities", gate, t.rules, t)) <=>
             /\ "order_symbol_guard" \in t.files /\ AgenticAccount(t) /\ RiskCaps(t.rules)
             /\ ProvenTwice("equities", t) /\ NoSecret(t) /\ t.git = {}
             /\ CryptoUntouched(t.rules, t)
<1> DEFINE E(gate) == EquityEvidence(gate, t.rules, t)
<1>1. /\ E("order_symbol_guard") <=> "order_symbol_guard" \in t.files
      /\ E("agentic_account_only") <=> AgenticAccount(t)
      /\ E("risk_caps") <=> RiskCaps(t.rules)
      /\ E("paper_proven_twice") <=> ProvenTwice("equities", t)
      /\ E("no_secret_in_code") <=> NoSecret(t)
      /\ E("git_hygiene") <=> t.git = {}
      /\ E("crypto_lane_untouched") <=> CryptoUntouched(t.rules, t)
  BY DEF EquityEvidence
<1>2. \A gate \in {"kill_switch", "human_gate", "regular_trading_hours", "pattern_day_trader",
                   "long_only_no_shorts", "no_margin", "no_options"} : E(gate)
  BY DEF EquityEvidence
<1> HIDE DEF E
<1>3. (\A gate \in EquityGates : E(gate)) <=>
        /\ E("order_symbol_guard") /\ E("agentic_account_only") /\ E("risk_caps")
        /\ E("paper_proven_twice") /\ E("no_secret_in_code") /\ E("git_hygiene")
        /\ E("crypto_lane_untouched")
  BY <1>2 DEF EquityGates
<1>4. (\A gate \in GatesOf("equities") : Evidence("equities", gate, t.rules, t))
      <=> \A gate \in EquityGates : E(gate)
  BY DEF GatesOf, Evidence, E
<1> QED BY <1>1, <1>3, <1>4

\* What the evidence of all gates of the options lane amounts to.
LEMMA OptionShown ==
    ASSUME NEW t \in Tree
    PROVE  (\A gate \in GatesOf("options") : Evidence("options", gate, t.rules, t)) <=>
             /\ "option_order_safety_guard" \in t.files /\ LaneIsolated(t.rules, t)
             /\ AccountConfined(t) /\ OptionRiskCaps(t.rules)
             /\ ProvenTwice("options", t) /\ NoSecret(t) /\ t.git = {}
<1> DEFINE E(gate) == OptionEvidence(gate, t.rules, t)
<1>1. /\ E("option_order_safety_guard") <=> "option_order_safety_guard" \in t.files
      /\ E("kill_switch") <=> LaneIsolated(t.rules, t)
      /\ E("account_confinement") <=> AccountConfined(t)
      /\ E("options_risk_caps") <=> OptionRiskCaps(t.rules)
      /\ E("paper_proven_twice") <=> ProvenTwice("options", t)
      /\ E("no_secret_in_code") <=> NoSecret(t)
      /\ E("git_hygiene") <=> t.git = {}
  BY DEF OptionEvidence
<1>2. \A gate \in {"options_lane_armed", "human_gate", "defined_risk_only"} : E(gate)
  BY DEF OptionEvidence
<1> HIDE DEF E
<1>3. (\A gate \in OptionGates : E(gate)) <=>
        /\ E("option_order_safety_guard") /\ E("kill_switch") /\ E("account_confinement")
        /\ E("options_risk_caps") /\ E("paper_proven_twice") /\ E("no_secret_in_code")
        /\ E("git_hygiene")
  BY <1>2 DEF OptionGates
<1>4. (\A gate \in GatesOf("options") : Evidence("options", gate, t.rules, t))
      <=> \A gate \in OptionGates : E(gate)
  BY DEF GatesOf, Evidence, E
<1> QED BY <1>1, <1>3, <1>4

\* What a report that loaded the rules r and got the outcomes s announces of a tree t.
Announced(lane, s, r, t) == ~Crashes(lane, r) /\ Ready(lane, s, r, t)

\* The stop files are where the documents want them (equity_readiness.py:968,
\* option_readiness.py:262).
LEMMA StopsEquity ==
    ASSUME NEW r \in Rules, NEW t \in Tree
    PROVE  CryptoUntouched(r, t) <=>
             /\ StopInEffect(r, "crypto") # "empty" => StopInEffect(r, "crypto") \in t.files
             /\ StopInEffect(r, "equities") # "empty"
             /\ \A k \in {"crypto", "equities"} \ {"equities"} :
                    StopInEffect(r, k) # StopInEffect(r, "equities")
             /\ r.stops["equities"] # "missing"
<1>1. StopInEffect(r, "crypto") = StopOf(r, "crypto", "STOP_TRADING")  BY DEF StopInEffect, StopOf
<1>2. r.stops["equities"] # "missing" =>
        StopInEffect(r, "equities") = StopOf(r, "equities", "empty")
        /\ StopInEffect(r, "equities") = r.stops["equities"]
  BY DEF StopInEffect, StopOf
<1>3. r.stops["equities"] = "missing" => StopOf(r, "equities", "empty") = "empty"  BY DEF StopOf
<1> QED BY <1>1, <1>2, <1>3 DEF CryptoUntouched, CryptoDisarmed

LEMMA StopsOption ==
    ASSUME NEW r \in Rules, NEW t \in Tree
    PROVE  LaneIsolated(r, t) <=>
             /\ StopInEffect(r, "crypto") # "empty" => StopInEffect(r, "crypto") \in t.files
             /\ StopInEffect(r, "options") # "empty"
             /\ \A k \in {"crypto", "equities", "options"} \ {"options"} :
                    StopInEffect(r, k) # StopInEffect(r, "options")
<1>1. /\ StopInEffect(r, "crypto") = StopOf(r, "crypto", "STOP_TRADING")
      /\ StopInEffect(r, "equities") = StopOf(r, "equities", "STOP_TRADING_EQUITIES")
      /\ StopInEffect(r, "options") = StopOf(r, "options", "STOP_TRADING_OPTIONS")
  BY DEF StopInEffect, StopOf
<1> QED BY <1>1 DEF LaneIsolated, CryptoDisarmed

\* A verdict made of one tree is what the documents ask of that tree
\* (readiness_verdict; equity_readiness.py:1201-1204, option_readiness.py:654-657).
LEMMA ReadyIsSound ==
    ASSUME NEW t \in Tree, NEW lane \in Lane
    PROVE  Announced(lane, SuiteOf(t), t.rules, t) <=> Sound(lane, t)
<1>1. t.rules \in Rules /\ t.clean \in [Lane -> Nat]  BY DEF Tree
<1>2. Announced(lane, SuiteOf(t), t.rules, t) <=>
        /\ ~Crashes(lane, t.rules) /\ SuiteGreen(t) /\ TestsProve(lane, t)
        /\ \A gate \in GatesOf(lane) : Evidence(lane, gate, t.rules, t)
  <2>1. SuiteGreen(t) => ~ t.uncollectable  BY DEF SuiteGreen
  <2> QED BY <2>1, Green, TestsShown DEF Announced, Ready, GatePassed
<1>3. ProvenTwice(lane, t) <=> t.clean[lane] > 1  BY <1>1 DEF ProvenTwice
<1>4. CASE lane = "equities"
  <2>1. ~Crashes("equities", t.rules)  BY DEF Crashes
  <2>2. Announced("equities", SuiteOf(t), t.rules, t) <=>
          /\ SuiteGreen(t) /\ TestsProve("equities", t)
          /\ "order_symbol_guard" \in t.files /\ AgenticAccount(t) /\ CapsHold("equities", t.rules)
          /\ t.clean["equities"] > 1 /\ NoSecret(t) /\ t.git = {} /\ CryptoUntouched(t.rules, t)
    BY <1>1, <1>2, <1>3, <1>4, <2>1, EquityShown, EquityCaps
  <2>3. Sound("equities", t) <=>
          /\ SuiteGreen(t) /\ TestsProve("equities", t) /\ CapsHold("equities", t.rules)
          /\ t.git = {} /\ (\A l \in t.literals : ~ Leaks(l))
          /\ (\A l \in t.literals : l.place = "src" /\ l.value = "digits" => l.name # "account")
          /\ "binding_doc" \in t.files /\ "order_symbol_guard" \in t.files
          /\ (StopInEffect(t.rules, "crypto") # "empty" => StopInEffect(t.rules, "crypto") \in t.files)
          /\ StopInEffect(t.rules, "equities") # "empty"
          /\ (\A k \in {"crypto", "equities"} \ {"equities"} :
                 StopInEffect(t.rules, k) # StopInEffect(t.rules, "equities"))
          /\ t.rules.stops["equities"] # "missing" /\ t.clean["equities"] > 1
    BY DEF Sound
  <2> QED BY <1>1, <1>4, <2>2, <2>3, StopsEquity, NoLeaks
<1>5. CASE lane = "options"
  <2>1. AccountConfined(t) <=> t.rules.anchor /\ AgenticAccount(t)  BY DEF AccountConfined
  <2>2. Announced("options", SuiteOf(t), t.rules, t) <=>
          /\ SuiteGreen(t) /\ TestsProve("options", t)
          /\ "option_order_safety_guard" \in t.files /\ AgenticAccount(t) /\ CapsHold("options", t.rules)
          /\ t.clean["options"] > 1 /\ NoSecret(t) /\ t.git = {} /\ LaneIsolated(t.rules, t)
    BY <1>1, <1>2, <1>3, <1>5, <2>1, OptionShown, OptionCaps
  <2>3. Sound("options", t) <=>
          /\ SuiteGreen(t) /\ TestsProve("options", t) /\ CapsHold("options", t.rules)
          /\ t.git = {} /\ (\A l \in t.literals : ~ Leaks(l))
          /\ (\A l \in t.literals : l.place = "src" /\ l.value = "digits" => l.name # "account")
          /\ "binding_doc" \in t.files /\ "option_order_safety_guard" \in t.files
          /\ (StopInEffect(t.rules, "crypto") # "empty" => StopInEffect(t.rules, "crypto") \in t.files)
          /\ StopInEffect(t.rules, "options") # "empty"
          /\ (\A k \in {"crypto", "equities", "options"} \ {"options"} :
                 StopInEffect(t.rules, k) # StopInEffect(t.rules, "options"))
          /\ t.clean["options"] > 1
    BY DEF Sound
  <2> QED BY <1>1, <1>5, <2>2, <2>3, StopsOption, NoLeaks
<1> QED BY <1>4, <1>5 DEF Lane

-----------------------------------------------------------------------------
(***************************************************************************)
(* The reports and the edits beside them.                                  *)
(***************************************************************************)

\* A report.
Report == [pc : {"none", "suite", "judge", "done", "crashed"}, lane : Lane, rules : Rules, suite : Suite,
           ready : BOOLEAN, before : Tree, edits : Nat]

\* Types, and what the counters owe each other.
ReportTyped ==
    /\ tree \in Tree /\ report \in Report /\ edits \in 0..MaxEdits
    /\ report.edits <= edits
    /\ report.ready => report.pc = "done"

\* A report is being made.
UnderWay == report.pc \in {"suite", "judge"}

\* How far what the report has read so far is from the tree.
Meanwhile ==
    /\ UnderWay => report.rules = report.before.rules
    /\ UnderWay /\ report.edits = 0 => tree = report.before
    /\ UnderWay /\ report.edits = 1 => OneApart(report.before, tree)
    /\ report.pc = "judge" /\ report.edits <= 1 =>
           report.suite = SuiteOf(report.before) \/ report.suite = SuiteOf(tree)

\* The invariant of the reports.
ReportInv == ReportTyped /\ Meanwhile /\ VerdictWasTrue

\* A verdict depends on a tree, beyond rules and outcomes, by the rest only.
LEMMA RestDecides ==
    ASSUME NEW lane, NEW s, NEW r, NEW t, NEW u, SameRest(t, u)
    PROVE  Announced(lane, s, r, t) <=> Announced(lane, s, r, u)
<1>1. ASSUME NEW gate PROVE Evidence(lane, gate, r, t) <=> Evidence(lane, gate, r, u)
  <2>1. EquityEvidence(gate, r, t) <=> EquityEvidence(gate, r, u)
    BY DEF SameRest, EquityEvidence, AgenticAccount, ProvenTwice, NoSecret, CryptoUntouched,
           CryptoDisarmed
  <2>2. OptionEvidence(gate, r, t) <=> OptionEvidence(gate, r, u)
    BY DEF SameRest, OptionEvidence, AgenticAccount, AccountConfined, ProvenTwice, NoSecret,
           LaneIsolated, CryptoDisarmed
  <2> QED BY <2>1, <2>2 DEF Evidence
<1> QED BY <1>1 DEF Announced, Ready, GatePassed

\* And on the rules it was given not by the anchor in them (option_readiness.py:213).
LEMMA RulesDecide ==
    ASSUME NEW lane, NEW s, NEW r, NEW q, NEW t, Alike(r, q)
    PROVE  Announced(lane, s, r, t) <=> Announced(lane, s, q, t)
<1>1. \A l, d : StopOf(r, l, d) = StopOf(q, l, d)  BY DEF Alike, StopOf
<1>2. RiskCaps(r) <=> RiskCaps(q)  BY DEF Alike, RiskCaps
<1>3. OptionRiskCaps(r) <=> OptionRiskCaps(q)  BY DEF Alike, OptionRiskCaps
<1>4. CryptoUntouched(r, t) <=> CryptoUntouched(q, t)  BY <1>1 DEF CryptoUntouched, CryptoDisarmed
<1>5. LaneIsolated(r, t) <=> LaneIsolated(q, t)  BY <1>1 DEF LaneIsolated, CryptoDisarmed
<1>6. ASSUME NEW gate PROVE Evidence(lane, gate, r, t) <=> Evidence(lane, gate, q, t)
  <2>1. EquityEvidence(gate, r, t) <=> EquityEvidence(gate, q, t)  BY <1>2, <1>4 DEF EquityEvidence
  <2>2. OptionEvidence(gate, r, t) <=> OptionEvidence(gate, q, t)  BY <1>3, <1>5 DEF OptionEvidence
  <2> QED BY <2>1, <2>2 DEF Evidence
<1>7. Crashes(lane, r) <=> Crashes(lane, q)  BY DEF Alike, Crashes
<1> QED BY <1>6, <1>7 DEF Announced, Ready, GatePassed

\* The suite does the same on trees that are the same to it.
LEMMA SuiteDecides == ASSUME NEW t, NEW u, SameSuite(t, u) PROVE SuiteOf(t) = SuiteOf(u)
BY DEF SameSuite, SuiteOf, ExitCode

\* Of two trees one edit apart: a verdict with the rules of the first, the outcomes of
\* either and the rest of the second is true of one of them.
LEMMA MixedVerdict ==
    ASSUME NEW b \in Tree, NEW t \in Tree, NEW lane \in Lane, NEW s,
           b = t \/ OneApart(b, t), s = SuiteOf(b) \/ s = SuiteOf(t)
    PROVE  \/ Announced(lane, s, b.rules, t) <=> Sound(lane, b)
           \/ Announced(lane, s, b.rules, t) <=> Sound(lane, t)
<1>1. /\ Announced(lane, SuiteOf(b), b.rules, b) <=> Sound(lane, b)
      /\ Announced(lane, SuiteOf(t), t.rules, t) <=> Sound(lane, t)
  BY ReadyIsSound
<1>2. CASE b = t
  BY <1>1, <1>2
<1>3. CASE SameSuite(b, t) /\ SameRules(b, t)
  <2>1. s = SuiteOf(t)  BY <1>3, SuiteDecides
  <2>2. Announced(lane, s, b.rules, t) <=> Announced(lane, s, t.rules, t)
    BY <1>3, RulesDecide DEF SameRules
  <2> QED BY <1>1, <2>1, <2>2
<1>4. CASE SameSuite(b, t) /\ SameRest(b, t)
  <2>1. s = SuiteOf(b)  BY <1>4, SuiteDecides
  <2>2. Announced(lane, s, b.rules, b) <=> Announced(lane, s, b.rules, t)  BY <1>4, RestDecides
  <2> QED BY <1>1, <2>1, <2>2
<1>5. CASE SameRules(b, t) /\ SameRest(b, t)
  <2>1. Announced(lane, s, b.rules, b) <=> Announced(lane, s, b.rules, t)  BY <1>5, RestDecides
  <2>2. \A u \in {b, t} : Announced(lane, s, b.rules, u) <=> Announced(lane, s, t.rules, u)
    BY <1>5, RulesDecide DEF SameRules
  <2> QED BY <1>1, <2>1, <2>2
<1> QED BY <1>2, <1>3, <1>4, <1>5 DEF OneApart

\* A verdict is yes or no.
LEMMA AnnouncedBoolean == ASSUME NEW lane, NEW s, NEW r, NEW t PROVE Announced(lane, s, r, t) \in BOOLEAN
BY DEF Announced

\* So is what is asked of a tree.
LEMMA SoundBoolean == ASSUME NEW lane, NEW t PROVE Sound(lane, t) \in BOOLEAN
BY DEF Sound

\* The first tree is one.
LEMMA InitTree == ASSUME ReportsInit PROVE tree \in Tree
<1>1. Node \X {"PASSED"} \in SUBSET Line  BY DEF Line, Outcome
<1>2. [l \in Lane |-> 2] \in [Lane -> Nat]  OBVIOUS
<1>3. tree = [lines |-> Node \X {"PASSED"}, uncollectable |-> FALSE, rules |-> Shipped,
              files |-> File, literals |-> {}, git |-> {}, clean |-> [l \in Lane |-> 2]]
  BY DEF ReportsInit
<1> QED BY <1>1, <1>2, <1>3, ShippedType DEF Tree

\* The invariant holds at first.
LEMMA ReportStarts == ASSUME ReportsInit PROVE ReportInv
<1>1. tree \in Tree  BY InitTree
<1>2. report = [pc |-> "none", lane |-> "equities", rules |-> Shipped, suite |-> NoSuite,
                ready |-> FALSE, before |-> tree, edits |-> 0]
      /\ edits = 0
  BY DEF ReportsInit
<1>3. NoSuite \in Suite  BY DEF NoSuite, Suite
<1>4. report \in Report  BY <1>1, <1>2, <1>3, ShippedType DEF Report, Lane
<1> QED BY <1>1, <1>2, <1>4, BoundAssumption DEF ReportInv, ReportTyped, Meanwhile, UnderWay, VerdictWasTrue

\* Loading the rules keeps the invariant.
LEMMA StartKeeps == ASSUME ReportInv, StartReport PROVE ReportInv'
<1> USE DEF ReportInv, ReportTyped
<1>1. PICK lane \in Lane : report' = [pc |-> "suite", lane |-> lane, rules |-> tree.rules,
          suite |-> NoSuite, ready |-> FALSE, before |-> tree, edits |-> 0]
  BY DEF StartReport
<1>2. tree' = tree /\ edits' = edits  BY DEF StartReport
<1>3. NoSuite \in Suite  BY DEF NoSuite, Suite
<1>4. tree.rules \in Rules  BY DEF Tree
<1>5. report' \in Report  BY <1>1, <1>3, <1>4 DEF Report
<1>6. ReportTyped'  BY <1>1, <1>2, <1>5
<1>7. Meanwhile'  BY <1>1, <1>2 DEF Meanwhile, UnderWay
<1>8. VerdictWasTrue'  BY <1>1 DEF VerdictWasTrue
<1> QED BY <1>6, <1>7, <1>8

\* Running the suite keeps it.
LEMMA SuiteKeeps == ASSUME ReportInv, RunSuite PROVE ReportInv'
<1> USE DEF ReportInv, ReportTyped
<1>1. report.pc = "suite" /\ report' = [report EXCEPT !.pc = "judge", !.suite = SuiteOf(tree)]
      /\ tree' = tree /\ edits' = edits
  BY DEF RunSuite, SuiteOf
<1>2. SuiteOf(tree) \in Suite  BY SuiteType
<1>3. report' \in Report  BY <1>1, <1>2 DEF Report
<1>4. /\ report'.pc = "judge" /\ report'.suite = SuiteOf(tree) /\ report'.rules = report.rules
      /\ report'.before = report.before /\ report'.edits = report.edits /\ report'.ready = report.ready
  BY <1>1 DEF Report
<1>5. ReportTyped'  BY <1>1, <1>3, <1>4
<1>6. Meanwhile'  BY <1>1, <1>4 DEF Meanwhile, UnderWay
<1>7. VerdictWasTrue'  BY <1>4 DEF VerdictWasTrue
<1> QED BY <1>5, <1>6, <1>7

\* Judging the gates keeps it: this is where the verdict is made.
LEMMA JudgeKeeps == ASSUME ReportInv, Judge PROVE ReportInv'
<1> USE DEF ReportInv, ReportTyped
<1> DEFINE verdict == Announced(report.lane, report.suite, report.rules, tree)
<1> DEFINE crash == Crashes(report.lane, report.rules)
<1>1. /\ report.pc = "judge" /\ tree' = tree /\ edits' = edits
      /\ report' = [report EXCEPT !.pc = IF crash THEN "crashed" ELSE "done", !.ready = verdict]
  BY DEF Judge, Announced
<1>9. verdict => ~crash  BY DEF Announced
<1>2. verdict \in BOOLEAN  BY AnnouncedBoolean
<1> HIDE DEF verdict, crash
<1>3. report' \in Report  BY <1>1, <1>2 DEF Report
<1>4. /\ report'.pc = IF crash THEN "crashed" ELSE "done"
      /\ report'.ready = verdict /\ report'.lane = report.lane
      /\ report'.before = report.before /\ report'.edits = report.edits
  BY <1>1 DEF Report
<1>5. ReportTyped'  BY <1>1, <1>3, <1>4, <1>9
<1>6. Meanwhile'  BY <1>4 DEF Meanwhile, UnderWay
<1>7. ASSUME report.edits <= 1
      PROVE  \E u \in {report.before, tree} : verdict = Sound(report.lane, u)
  <2>1. report.before \in Tree /\ tree \in Tree /\ report.lane \in Lane /\ report.edits \in Nat
    BY DEF Report
  <2>2. /\ report.rules = report.before.rules
        /\ report.before = tree \/ OneApart(report.before, tree)
        /\ report.suite = SuiteOf(report.before) \/ report.suite = SuiteOf(tree)
    BY <1>1, <1>7, <2>1 DEF Meanwhile, UnderWay
  <2>3. \/ Announced(report.lane, report.suite, report.before.rules, tree) <=> Sound(report.lane, report.before)
        \/ Announced(report.lane, report.suite, report.before.rules, tree) <=> Sound(report.lane, tree)
    BY <2>1, <2>2, MixedVerdict
  <2>4. verdict = Announced(report.lane, report.suite, report.before.rules, tree)  BY <2>2 DEF verdict
  <2> QED BY <2>3, <2>4, <1>2, SoundBoolean
<1>8. VerdictWasTrue'  BY <1>1, <1>4, <1>7 DEF VerdictWasTrue
<1> QED BY <1>5, <1>6, <1>8

\* An edit keeps it: the first one of a report is the only one that matters.
LEMMA EditKeeps ==
    ASSUME ReportInv, Edit PROVE ReportInv'
<1> USE DEF ReportInv, ReportTyped
<1>1. edits < MaxEdits /\ report.pc \notin {"done", "crashed"} /\ edits' = edits + 1 /\ tree' \in EditedTrees(tree)
      /\ report' = IF UnderWay THEN [report EXCEPT !.edits = @ + 1] ELSE report
  BY DEF Edit, UnderWay
<1>2. tree' \in Tree /\ OneApart(tree, tree')  BY <1>1, EditedType
<1>3. /\ report' \in Report
      /\ report'.pc = report.pc /\ report'.rules = report.rules /\ report'.before = report.before
      /\ report'.suite = report.suite /\ report'.ready = report.ready
      /\ report'.edits = IF UnderWay THEN report.edits + 1 ELSE report.edits
  BY <1>1 DEF Report
<1>4. report.edits \in Nat  BY DEF Report
<1>5. ReportTyped'  BY <1>1, <1>2, <1>3, <1>4, BoundAssumption
<1>6. Meanwhile'
  <2>1. UnderWay' <=> UnderWay  BY <1>3 DEF UnderWay
  <2>2. CASE ~ UnderWay
    BY <1>3, <2>1, <2>2 DEF Meanwhile, UnderWay
  <2>3. CASE UnderWay
    <3>1. report'.edits = report.edits + 1  BY <1>3, <2>3
    <3>2. report'.edits <= 1 => tree = report.before  BY <2>3, <3>1, <1>4 DEF Meanwhile
    <3>3. report'.edits = 1 => OneApart(report'.before, tree')  BY <3>2, <1>2, <1>3
    <3>4. report.pc = "judge" /\ report'.edits <= 1 => report'.suite = SuiteOf(report'.before)
      BY <1>3, <1>4, <3>1, <3>2 DEF Meanwhile
    <3>5. report'.edits # 0  BY <3>1, <1>4
    <3> QED BY <1>3, <2>3, <3>3, <3>4, <3>5 DEF Meanwhile, UnderWay
  <2> QED BY <2>2, <2>3
<1>7. VerdictWasTrue'  BY <1>1, <1>3 DEF VerdictWasTrue
<1> QED BY <1>5, <1>6, <1>7

\* The invariant always holds.
LEMMA ReportKept == ReportsSpec => []ReportInv
<1>1. ReportsInit => ReportInv  BY ReportStarts
<1>2. ReportInv /\ [ReportsNext]_reportsVars => ReportInv'
  <2> SUFFICES ASSUME ReportInv, [ReportsNext]_reportsVars PROVE ReportInv'  OBVIOUS
  <2>1. CASE StartReport  BY <2>1, StartKeeps
  <2>2. CASE RunSuite  BY <2>2, SuiteKeeps
  <2>3. CASE Judge  BY <2>3, JudgeKeeps
  <2>4. CASE Edit  BY <2>4, EditKeeps
  <2>5. CASE UNCHANGED reportsVars
    BY <2>5 DEF reportsVars, ReportInv, ReportTyped, Meanwhile, UnderWay, VerdictWasTrue
  <2> QED BY <2>1, <2>2, <2>3, <2>4, <2>5 DEF ReportsNext
<1> QED BY <1>1, <1>2, PTL DEF ReportsSpec

\* The types of the reports, for any settings and any number of edits.
THEOREM ReportTypeCorrect == ReportsSpec => []ReportsTypeOK
<1>1. ReportInv => ReportsTypeOK
  <2> SUFFICES ASSUME ReportInv PROVE ReportsTypeOK  OBVIOUS
  <2>1. report.edits \in 0..MaxEdits  BY BoundAssumption DEF ReportInv, ReportTyped, Report
  <2> QED BY <2>1 DEF ReportInv, ReportTyped, Report, Tree, ReportsTypeOK
<1> QED BY <1>1, ReportKept, PTL

\* VerdictWasTrue, for any settings and any number of edits
\* (equity_readiness.py:1201-1204, option_readiness.py:654-657): a report's verdict was
\* true of the tree at its beginning or at its end, unless it was edited twice meanwhile.
THEOREM VerdictHolds == ReportsSpec => []VerdictWasTrue
<1>1. ReportInv => VerdictWasTrue  BY DEF ReportInv
<1> QED BY <1>1, ReportKept, PTL
=============================================================================
