------------------------ MODULE FileCheckpointsProofs ------------------------
(***************************************************************************)
(* The undo of an agent's files, for any turns, files, texts and mishaps:  *)
(* a restore replaces only what the turn itself left in a file, and puts   *)
(* back what the turn found there at first; and what an agent wrote in     *)
(* files that only it wrote can be undone.  The argument for the first     *)
(* two: a write makes a file that no record names, so a file that a record *)
(* names still has the writer it had when it was recorded; and what a plan *)
(* is to bring back is never found on disk, so a file half restored is     *)
(* never taken for one.  For the last: what an agent wrote is on disk as   *)
(* recorded, and only a write of somebody else, who is told apart, moves   *)
(* the revision of the file on.                                            *)
(***************************************************************************)
EXTENDS FileCheckpoints, TLAPS

RecordType == [made : BOOLEAN, before : Version, rev : Stamp \union {None}]
BaseType == [on : BOOLEAN, disk : [Path -> Version]]
OpType ==
    [status : {"none", "planned", "applying", "complete", "needs_recovery"},
     of : Turn \union Op \union {Other}, ready : SUBSET Path, applied : SUBSET Path,
     pending : SUBSET Path, file : [Path -> FileType]]
EditType ==
    [turn : Turn \union {Other}, at : {"idle", "tracked", "written", "saved"},
     text : Text \union {NoText}, id : Stamp \union {None}]
JobType ==
    [op : Op \union {Other}, at : {"idle", "next", "checked", "applied", "advanced"},
     path : Path \union {Other}, todo : SUBSET Path, result : Version]

(* TypeOK by its parts, with whole records. *)
FilesTyped ==
    /\ disk \in [Path -> Version] /\ head \in [Path -> Stamp \union {None}]
    /\ by \in [Path -> Turn \union Op \union {Other}]
    /\ mishaps \in 0 .. MaxMishap
JournalTyped ==
    /\ phase \in [Turn -> {"new", "running", "lost", "done"}]
    /\ log \in [Turn -> [Path -> EntryType]]
    /\ open \in [Turn -> [Path -> RecordType]]
    /\ base \in [Turn -> BaseType]
    /\ origin \in [Turn -> [Path -> Text \union {NoText}]]
    /\ clean \in [Turn -> [Path -> BOOLEAN]]
EditsTyped ==
    /\ edit \in [Path -> EditType]
    /\ \A p \in Path : edit[p].at # "idle" =>
         edit[p].turn \in Turn /\ phase[edit[p].turn] = "running"
RestoresTyped == op \in [Op -> OpType] /\ job \in JobType

Typed == FilesTyped /\ JournalTyped /\ EditsTyped /\ RestoresTyped

(* A version that names its file, and one that a file still is. *)
Actual(v) == v.text # NoText => v.file # None
Still(p, v) == v.text # NoText /\ disk[p].text = v.text /\ disk[p].file = v.file

(* Every version but the outcome of an edit names its file. *)
AllActual ==
    /\ \A p \in Path : Actual(disk[p])
    /\ \A t \in Turn, p \in Path : Actual(log[t][p].before) /\ Actual(open[t][p].before)
    /\ \A o \in Op, p \in Path :
         /\ Actual(op[o].file[p].expected) /\ Actual(op[o].file[p].target)
         /\ Actual(op[o].file[p].result)
    /\ Actual(job.result)

(* Who left a file as it was recorded is still its last writer. *)
LogSound == \A t \in Turn, p \in Path : Still(p, log[t][p].after) => by[p] = t
ResultSound == \A o \in Op : \A p \in op[o].applied :
    Still(p, op[o].file[p].result) => by[p] = o

(* A tool that could not tell its own file recorded only its text. *)
TextOnly(t, p, v) == log[t][p].after = [text |-> v.text, file |-> None]
PlanSound == \A o \in Op : \A p \in op[o].ready :
    Still(p, op[o].file[p].expected) =>
        \/ by[p] = op[o].of
        \/ op[o].of \in Turn /\ TextOnly(op[o].of, p, op[o].file[p].expected)

(* No file is ever again the one that a plan is to bring back. *)
TargetGone == \A o \in Op : \A p \in op[o].ready : ~Still(p, op[o].file[p].target)

EditSound == \A p \in Path :
    edit[p].at = "written" /\ disk[p].text = edit[p].text => by[p] = edit[p].turn

(* A restore runs alone, on files of its plan. *)
JobSound == job.at # "idle" =>
    /\ \A p \in Path : edit[p].at = "idle"
    /\ job.op \in Op /\ job.todo \subseteq op[job.op].ready
    /\ job.at # "next" => job.path \in op[job.op].ready
    /\ job.at = "checked" => SameOnDisk(disk[job.path], op[job.op].file[job.path].expected)
    /\ job.at \in {"applied", "advanced"} /\ Still(job.path, job.result) => by[job.path] = job.op

(* Plans are made for turns that are over, and only their files are ever *)
(* announced.                                                              *)
PlansOfDone == \A o \in Op :
    /\ op[o].ready # {} /\ op[o].of \in Turn => phase[op[o].of] = "done"
    /\ op[o].pending \subseteq op[o].ready

(* What the journal and the plans keep of the beginning of a turn. *)
OriginLogged == \A t \in Turn, p \in Path :
    log[t][p].made /\ ~log[t][p].uncertain => log[t][p].before.text = origin[t][p]
OriginOpen == \A p \in Path :
    edit[p].at \in {"tracked", "written"} /\ ~log[edit[p].turn][p].made =>
        open[edit[p].turn][p].before.text = origin[edit[p].turn][p]
OriginPlanned == \A o \in Op : \A p \in op[o].ready :
    op[o].of \in Turn => op[o].file[p].target.text = origin[op[o].of][p]

USE CheckpointAssumption DEF Stamp, None, history

-----------------------------------------------------------------------------
(* Versions and what is put together from them. *)
LEMMA VersionFields ==
    /\ Absent \in Version
    /\ \A v \in Version : /\ v.text \in Text \union {NoText}
                          /\ v.file \in Stamp \union {None}
                          /\ v.text = NoText => v = Absent
                          /\ v = [text |-> v.text, file |-> v.file]
    /\ \A x \in Text, i \in Stamp \union {None} : [text |-> x, file |-> i] \in Version
BY DEF Version, Absent

(* The entries, plans and edits that begin empty. *)
LEMMA EmptyRecords ==
    /\ NoEntry \in EntryType /\ Spoilt \in EntryType /\ NoRecord \in RecordType
    /\ NoBase \in BaseType /\ NoEdit \in EditType /\ NoJob \in JobType
    /\ NoFile \in FileType /\ NoOp \in OpType
<1>1. Absent \in Version
  BY VersionFields
<1>2. NoEntry \in EntryType /\ Spoilt \in EntryType
  BY <1>1 DEF NoEntry, Spoilt, EntryType
<1>3. NoRecord \in RecordType /\ NoBase \in BaseType
  BY <1>1 DEF NoRecord, NoBase, RecordType, BaseType
<1>4. NoEdit \in EditType /\ NoJob \in JobType
  BY <1>1 DEF NoEdit, NoJob, EditType, JobType
<1>5. NoFile \in FileType
  BY <1>1 DEF NoFile, FileType
<1>6. NoOp \in OpType
  BY <1>5 DEF NoOp, OpType
<1>7. QED
  BY <1>2, <1>3, <1>4, <1>5, <1>6

(* A fresh number is a number that is not in use. *)
LEMMA Fresh == ASSUME NEW known, NEW i \in New(known) PROVE i \in Stamp /\ i \notin known
BY DEF New

(* The files that the records name. *)
LEMMA Named ==
    ASSUME NEW p \in Path
    PROVE  /\ job.result.file \in Files(p)
           /\ \A t \in Turn : log[t][p].after.file \in Files(p)
           /\ \A o \in Op : /\ op[o].file[p].expected.file \in Files(p)
                            /\ op[o].file[p].target.file \in Files(p)
                            /\ op[o].file[p].result.file \in Files(p)
<1>1. job.result.file \in Files(p)
  BY DEF Files
<1>2. ASSUME NEW t \in Turn PROVE log[t][p].after.file \in Files(p)
  <2> DEFINE F(u) == {log[u][p].before.file, log[u][p].after.file, open[u][p].before.file,
                      base[u].disk[p].file}
  <2>1. log[t][p].after.file \in F(t)
    OBVIOUS
  <2>2. F(t) \in {F(u) : u \in Turn}
    BY <1>2
  <2>3. UNION {F(u) : u \in Turn} \subseteq Files(p)
    BY DEF Files
  <2> HIDE DEF F
  <2>4. QED
    BY <2>1, <2>2, <2>3
<1>3. ASSUME NEW o \in Op, NEW f,
             f \in {op[o].file[p].expected.file, op[o].file[p].target.file, op[o].file[p].result.file}
      PROVE  f \in Files(p)
  <2>1. \E s \in {{op[u].file[p].expected.file, op[u].file[p].target.file,
                   op[u].file[p].result.file} : u \in Op} : f \in s
    BY <1>3
  <2>2. f \in UNION {{op[u].file[p].expected.file, op[u].file[p].target.file,
                     op[u].file[p].result.file} : u \in Op}
    BY <2>1
  <2>3. QED
    BY <2>2 DEF Files
<1>4. QED
  BY <1>1, <1>2, <1>3

(* A write makes a file that no record names. *)
LEMMA WriteIsFresh ==
    ASSUME disk \in [Path -> Version], NEW p \in Path, NEW x \in Text \union {NoText}, Written(p, x)
    PROVE  /\ disk' \in [Path -> Version] /\ disk'[p].text = x
           /\ \A q \in Path \ {p} : disk'[q] = disk[q]
           /\ x # NoText => disk'[p].file \in Stamp /\ disk'[p].file \notin Files(p)
           /\ x = NoText => disk'[p].file = None
<1>1. PICK i \in New(Files(p)) :
        disk' = [disk EXCEPT ![p] = IF x = NoText THEN Absent ELSE [text |-> x, file |-> i]]
  BY DEF Written
<1>2. i \in Stamp /\ i \notin Files(p)
  BY Fresh
<1>3. CASE x = NoText
  BY <1>1, <1>3, VersionFields DEF Absent
<1>4. CASE x # NoText
  <2>1. [text |-> x, file |-> i] \in Version
    BY <1>2, <1>4, VersionFields
  <2>2. QED
    BY <1>1, <1>2, <1>4, <2>1
<1>5. QED
  BY <1>3, <1>4

(* So a record of a file names no file that is written later. *)
LEMMA WrittenIsUnnamed ==
    ASSUME disk \in [Path -> Version], NEW p \in Path, NEW x \in Text \union {NoText}, Written(p, x)
    PROVE  \A v : v.file \in Files(p) =>
             ~(v.text # NoText /\ disk'[p].text = v.text /\ disk'[p].file = v.file)
BY WriteIsFresh

-----------------------------------------------------------------------------
(* A restore under way is at a file of its plan. *)
LEMMA JobPath ==
    ASSUME Typed, JobSound, job.at # "idle"
    PROVE  /\ job.op \in Op /\ op[job.op] \in OpType /\ job.todo \subseteq Path
           /\ job.at # "next" => job.path \in Path /\ op[job.op].file[job.path] \in FileType
BY DEF Typed, JobSound, RestoresTyped, OpType

(* Every step keeps the types of the files. *)
LEMMA FilesStep == Typed /\ JobSound /\ [Next]_vars => FilesTyped'
<1> SUFFICES ASSUME Typed, JobSound, [Next]_vars PROVE FilesTyped'
  OBVIOUS
<1> USE DEF FilesTyped, Typed
<1>1. ASSUME NEW p \in Path, NEW x \in Text, WriteEdit(p, x) PROVE FilesTyped'
  <2>1. disk' \in [Path -> Version]
    BY <1>1, WriteIsFresh DEF WriteEdit
  <2>2. edit[p].turn \in Turn
    BY <1>1 DEF WriteEdit, EditsTyped
  <2>3. QED
    BY <1>1, <2>1, <2>2 DEF WriteEdit
<1>2. ASSUME NEW p \in Path, Advance(p) PROVE FilesTyped'
  BY <1>2 DEF Advance, EditsTyped, EditType
<1>3. ASSUME NEW p \in Path, EditFails(p) PROVE FilesTyped'
  BY <1>3 DEF EditFails, Mishap
<1>4. ASSUME NEW t \in Turn, BeginCommand(t) PROVE FilesTyped'
  BY <1>4 DEF BeginCommand, Mishap
<1>5. ASSUME NEW t \in Turn, FinishCommand(t) PROVE FilesTyped'
  <2>1. PICK i \in New(UNION {Revisions(p) : p \in Path}) :
          head' = [p \in Path |-> IF p \in Touched(t) THEN i ELSE head[p]]
    BY <1>5 DEF FinishCommand
  <2>2. i \in Stamp
    BY Fresh
  <2>3. QED
    BY <1>5, <2>1, <2>2 DEF FinishCommand
<1>6. ASSUME ApplyFile PROVE FilesTyped'
  <2>1. job.path \in Path /\ job.op \in Op /\ op[job.op].file[job.path].target.text \in Text \union {NoText}
    BY <1>6, JobPath, VersionFields DEF ApplyFile, FileType
  <2>2. disk' \in [Path -> Version]
    BY <1>6, <2>1, WriteIsFresh DEF ApplyFile
  <2>3. QED
    BY <1>6, <2>1, <2>2 DEF ApplyFile
<1>7. ASSUME ApplyFails PROVE FilesTyped'
  BY <1>7 DEF ApplyFails, NeedsRecovery, Mishap
<1>8. ASSUME AdvanceFile PROVE FilesTyped'
  <2>1. PICK i \in New(Revisions(job.path)) : head' = [head EXCEPT ![job.path] = i]
    BY <1>8 DEF AdvanceFile
  <2>2. i \in Stamp
    BY Fresh
  <2>3. QED
    BY <1>8, <2>1, <2>2 DEF AdvanceFile
<1>9. ASSUME NEW p \in Path, NEW x \in Text \union {NoText}, Outside(p, x) PROVE FilesTyped'
  <2>1. disk' \in [Path -> Version]
    BY <1>9, WriteIsFresh DEF Outside
  <2>2. edit[p].turn \in Turn \union {Other}
    BY <1>9 DEF EditsTyped, EditType
  <2>3. by' \in [Path -> Turn \union Op \union {Other}]
    <3>1. PICK w \in Turn \union {Other} : by' = [by EXCEPT ![p] = w]
      BY <1>9, <2>2 DEF Outside
    <3>2. QED
      BY <3>1
  <2>4. QED
    BY <1>9, <2>1, <2>3 DEF Outside, Mishap
<1>10. ASSUME Crash PROVE FilesTyped'
  BY <1>10 DEF Crash, Mishap
<1>11. CASE UNCHANGED <<disk, head, by, mishaps>>
  BY <1>11
<1> HIDE DEF FilesTyped, Typed
<1>12. QED
  BY <1>1, <1>2, <1>3, <1>4, <1>5, <1>6, <1>7, <1>8, <1>9, <1>10, <1>11 DEF BeginTurn, Track,
     SaveEdit, FinishTurn, Recover, Plan, Preview, UndoPreview, BeginRestore, NeedsRecovery,
     CheckFile, RecordFile, EndRestore, vars, Next, EditStep, TurnStep, RestoreStep

(* What an edit leaves in the journal. *)
LEMMA MergedTyped ==
    ASSUME NEW prev \in EntryType, NEW e \in EntryType, NEW found
    PROVE  Merged(prev, e, found) \in EntryType
<1>1. [e EXCEPT !.before = IF prev.made THEN prev.before ELSE @] \in EntryType
  BY DEF EntryType
<1>2. QED
  BY <1>1, EmptyRecords DEF Merged

(* The outcome that the journal records of an edit. *)
Outcome(p) ==
    [text |-> edit[p].text,
     file |-> IF disk[p].text = edit[p].text THEN disk[p].file ELSE None]
Entry(p, i) ==
    [NoEntry EXCEPT !.made = TRUE, !.before = open[edit[p].turn][p].before,
                    !.after = Outcome(p), !.rev = i]

(* They are versions and entries of the journal. *)
LEMMA EntryTyped ==
    ASSUME Typed, NEW p \in Path, edit[p].turn \in Turn, NEW i \in Stamp
    PROVE  Outcome(p) \in Version /\ Entry(p, i) \in EntryType
<1>1. disk[p] \in Version /\ edit[p].text \in Text \union {NoText}
  BY DEF Typed, FilesTyped, EditsTyped, EditType
<1>2. Outcome(p) \in Version
  <2>1. CASE edit[p].text = NoText
    <3>1. Outcome(p) = Absent
      BY <1>1, <2>1, VersionFields DEF Outcome, Absent
    <3>2. QED
      BY <3>1, VersionFields
  <2>2. CASE edit[p].text # NoText
    BY <1>1, <2>2, VersionFields DEF Outcome
  <2>3. QED
    BY <2>1, <2>2
<1>3. open[edit[p].turn][p].before \in Version
  BY DEF Typed, JournalTyped, RecordType
<1>4. QED
  BY <1>2, <1>3, EmptyRecords DEF Entry, EntryType

(* What the end of an edit does to the journal. *)
LEMMA SavedEntry ==
    ASSUME Typed, NEW p \in Path, SaveEdit(p)
    PROVE  \E i \in Stamp : /\ edit[p].turn \in Turn
             /\ log' = [log EXCEPT ![edit[p].turn][p] =
                          Merged(log[edit[p].turn][p], Entry(p, i), open[edit[p].turn][p].rev)]
             /\ edit' = [edit EXCEPT ![p].at = "saved", ![p].id = i]
<1>1. edit[p].turn \in Turn
  BY DEF SaveEdit, Typed, EditsTyped
<1>2. PICK i \in New(Revisions(p)) :
        /\ log' = [log EXCEPT ![edit[p].turn][p] =
                     Merged(@, Entry(p, i), open[edit[p].turn][p].rev)]
        /\ edit' = [edit EXCEPT ![p].at = "saved", ![p].id = i]
  BY DEF SaveEdit, Entry, Outcome
<1>3. i \in Stamp
  BY Fresh
<1>4. QED
  BY <1>1, <1>2, <1>3

(* Every step keeps the types of the journal. *)
LEMMA JournalStep == Typed /\ [Next]_vars => JournalTyped'
<1> SUFFICES ASSUME Typed, [Next]_vars PROVE JournalTyped'
  OBVIOUS
<1> USE DEF JournalTyped, Typed
<1>1. ASSUME NEW t \in Turn, BeginTurn(t) PROVE JournalTyped'
  BY <1>1 DEF BeginTurn
<1>2. ASSUME NEW t \in Turn, NEW p \in Path, Track(t, p) PROVE JournalTyped'
  <2>1. [made |-> TRUE, before |-> disk[p], rev |-> head[p]] \in RecordType
    BY DEF FilesTyped, RecordType
  <2>2. open' \in [Turn -> [Path -> RecordType]]
    BY <1>2, <2>1 DEF Track
  <2>3. origin' \in [Turn -> [Path -> Text \union {NoText}]]
    <3>1. disk[p].text \in Text \union {NoText}
      BY VersionFields DEF FilesTyped
    <3>2. PICK x \in Text \union {NoText} : origin' = origin \/ origin' = [origin EXCEPT ![t][p] = x]
      BY <1>2, <3>1 DEF Track
    <3>3. [origin[t] EXCEPT ![p] = x] \in [Path -> Text \union {NoText}]
      OBVIOUS
    <3>4. QED
      BY <3>2, <3>3
  <2>4. clean' \in [Turn -> [Path -> BOOLEAN]]
    <3>1. PICK c \in BOOLEAN : clean' = clean \/ clean' = [clean EXCEPT ![t][p] = c]
      BY <1>2 DEF Track
    <3>2. [clean[t] EXCEPT ![p] = c] \in [Path -> BOOLEAN]
      OBVIOUS
    <3>3. QED
      BY <3>1, <3>2
  <2>5. QED
    BY <1>2, <2>2, <2>3, <2>4 DEF Track
<1>3. ASSUME NEW p \in Path, SaveEdit(p) PROVE JournalTyped'
  <2>1. PICK i \in Stamp : /\ edit[p].turn \in Turn
           /\ log' = [log EXCEPT ![edit[p].turn][p] =
                        Merged(log[edit[p].turn][p], Entry(p, i), open[edit[p].turn][p].rev)]
    BY <1>3, SavedEntry
  <2>2. Merged(log[edit[p].turn][p], Entry(p, i), open[edit[p].turn][p].rev) \in EntryType
    BY <2>1, MergedTyped, EntryTyped
  <2>3. log' \in [Turn -> [Path -> EntryType]]
    BY <2>1, <2>2
  <2>4. open' \in [Turn -> [Path -> RecordType]]
    BY <1>3, <2>1, EmptyRecords DEF SaveEdit
  <2>5. QED
    BY <1>3, <2>3, <2>4 DEF SaveEdit
<1>4. ASSUME NEW p \in Path, EditFails(p) PROVE JournalTyped'
  <2>1. PICK t \in Turn : /\ log' = [log EXCEPT ![t][p] = Spoilt]
           /\ open' = [open EXCEPT ![t][p] = NoRecord]
           /\ clean' = [clean EXCEPT ![t][p] = FALSE]
    BY <1>4 DEF EditFails, EditsTyped
  <2>2. [clean[t] EXCEPT ![p] = FALSE] \in [Path -> BOOLEAN]
    OBVIOUS
  <2>3. clean' \in [Turn -> [Path -> BOOLEAN]]
    BY <2>1, <2>2
  <2>4. log' \in [Turn -> [Path -> EntryType]] /\ open' \in [Turn -> [Path -> RecordType]]
    BY <2>1, EmptyRecords
  <2>5. QED
    BY <1>4, <2>3, <2>4 DEF EditFails
<1>5. ASSUME NEW t \in Turn, BeginCommand(t) PROVE JournalTyped'
  <2>1. [on |-> TRUE, disk |-> disk] \in BaseType
    BY DEF FilesTyped, BaseType
  <2>2. QED
    BY <1>5, <2>1 DEF BeginCommand
<1>6. ASSUME NEW t \in Turn, FinishCommand(t) PROVE JournalTyped'
  <2>1. [p \in Path |-> IF p \in Rewritten(t) THEN Spoilt ELSE log[t][p]] \in [Path -> EntryType]
    BY EmptyRecords
  <2>2. log' \in [Turn -> [Path -> EntryType]]
    BY <1>6, <2>1 DEF FinishCommand
  <2>3. base' \in [Turn -> BaseType]
    BY <1>6, EmptyRecords DEF FinishCommand
  <2>4. [p \in Path |-> clean[t][p] /\ p \notin Rewritten(t)] \in [Path -> BOOLEAN]
    OBVIOUS
  <2>5. clean' \in [Turn -> [Path -> BOOLEAN]]
    BY <1>6, <2>4 DEF FinishCommand
  <2>6. QED
    BY <1>6, <2>2, <2>3, <2>5 DEF FinishCommand
<1>7. ASSUME NEW t \in Turn, FinishTurn(t) PROVE JournalTyped'
  BY <1>7 DEF FinishTurn
<1>8. ASSUME NEW t \in Turn, Recover(t) PROVE JournalTyped'
  <2>1. [p \in Path |-> IF open[t][p].made \/ (base[t].on /\ p \in Rewritten(t))
                        THEN Spoilt ELSE log[t][p]] \in [Path -> EntryType]
    BY EmptyRecords
  <2>2. log' \in [Turn -> [Path -> EntryType]]
    BY <1>8, <2>1 DEF Recover
  <2>3. open' \in [Turn -> [Path -> RecordType]] /\ base' \in [Turn -> BaseType]
    BY <1>8, EmptyRecords DEF Recover
  <2>4. QED
    BY <1>8, <2>2, <2>3 DEF Recover
<1>9. ASSUME Crash PROVE JournalTyped'
  BY <1>9 DEF Crash
<1>10. CASE UNCHANGED <<phase, log, open, base, origin, clean>>
  BY <1>10
<1> HIDE DEF JournalTyped, Typed
<1>11. QED
  BY <1>1, <1>2, <1>3, <1>4, <1>5, <1>6, <1>7, <1>8, <1>9, <1>10 DEF WriteEdit, Advance,
     Plan, Preview, UndoPreview, BeginRestore, NeedsRecovery, CheckFile, ApplyFile, ApplyFails,
     AdvanceFile, RecordFile, EndRestore, Outside, vars, Next, EditStep, TurnStep, RestoreStep

(* Every step keeps the edits typed, and with running turns. *)
LEMMA EditsStep == Typed /\ [Next]_vars => EditsTyped'
<1> SUFFICES ASSUME Typed, [Next]_vars PROVE EditsTyped'
  OBVIOUS
<1> USE DEF EditsTyped, Typed
<1>1. ASSUME NEW t \in Turn, BeginTurn(t) PROVE EditsTyped'
  BY <1>1 DEF BeginTurn, JournalTyped
<1>2. ASSUME NEW t \in Turn, NEW p \in Path, Track(t, p) PROVE EditsTyped'
  <2>1. [NoEdit EXCEPT !.turn = t, !.at = "tracked"] \in EditType
    BY EmptyRecords DEF EditType
  <2>2. QED
    BY <1>2, <2>1 DEF Track, NoEdit
<1>3. ASSUME NEW p \in Path, NEW x \in Text, WriteEdit(p, x) PROVE EditsTyped'
  BY <1>3 DEF WriteEdit, EditType
<1>4. ASSUME NEW p \in Path, SaveEdit(p) PROVE EditsTyped'
  <2>1. PICK i \in Stamp : edit' = [edit EXCEPT ![p].at = "saved", ![p].id = i]
    BY <1>4, SavedEntry
  <2>2. [edit[p] EXCEPT !.at = "saved", !.id = i] \in EditType
    BY DEF EditType
  <2>3. \A q \in Path : edit'[q].at # "idle" => edit[q].at # "idle" /\ edit'[q].turn = edit[q].turn
    BY <1>4, <2>1 DEF SaveEdit, EditType
  <2>4. QED
    BY <1>4, <2>1, <2>2, <2>3 DEF SaveEdit
<1>5. ASSUME NEW p \in Path, Advance(p) PROVE EditsTyped'
  BY <1>5, EmptyRecords DEF Advance, NoEdit
<1>6. ASSUME NEW p \in Path, EditFails(p) PROVE EditsTyped'
  BY <1>6, EmptyRecords DEF EditFails, NoEdit
<1>7. ASSUME NEW t \in Turn, FinishTurn(t) PROVE EditsTyped'
  BY <1>7 DEF FinishTurn, JournalTyped
<1>8. ASSUME NEW t \in Turn, Recover(t) PROVE EditsTyped'
  BY <1>8 DEF Recover, JournalTyped
<1>9. ASSUME Crash PROVE EditsTyped'
  BY <1>9, EmptyRecords DEF Crash, NoEdit
<1>10. CASE UNCHANGED <<edit, phase>>
  BY <1>10
<1> HIDE DEF EditsTyped, Typed
<1>11. QED
  BY <1>1, <1>2, <1>3, <1>4, <1>5, <1>6, <1>7, <1>8, <1>9, <1>10 DEF BeginCommand,
     FinishCommand, Plan, Preview, UndoPreview, BeginRestore, NeedsRecovery, CheckFile,
     ApplyFile, ApplyFails, AdvanceFile, RecordFile, EndRestore, Outside, vars, Next,
     EditStep, TurnStep, RestoreStep

(* What a plan is. *)
PlanFor(of, ready, target) ==
    [NoOp EXCEPT !.status = "planned", !.of = of, !.ready = ready,
       !.file = [p \in Path |-> IF p \notin ready THEN NoFile ELSE
                   [NoFile EXCEPT !.expected = disk[p], !.target = target[p], !.rev = head[p]]]]

(* Such a plan has its type. *)
LEMMA PlanTyped ==
    ASSUME Typed, NEW of \in Turn \union Op, NEW ready \in SUBSET Path,
           NEW target \in [Path -> Version]
    PROVE  PlanFor(of, ready, target) \in OpType
<1>1. ASSUME NEW p \in Path
      PROVE  [NoFile EXCEPT !.expected = disk[p], !.target = target[p], !.rev = head[p]] \in FileType
  BY <1>1, EmptyRecords DEF FileType, Typed, FilesTyped
<1>2. QED
  BY <1>1, EmptyRecords DEF PlanFor, OpType, NoOp, NoFile

(* The parts of a plan. *)
LEMMA PlanParts ==
    ASSUME NEW of, NEW ready, NEW target
    PROVE  /\ PlanFor(of, ready, target).of = of /\ PlanFor(of, ready, target).ready = ready
           /\ PlanFor(of, ready, target).applied = {} /\ PlanFor(of, ready, target).pending = {}
           /\ \A p \in ready \intersect Path :
                /\ PlanFor(of, ready, target).file[p].expected = disk[p]
                /\ PlanFor(of, ready, target).file[p].target = target[p]
                /\ PlanFor(of, ready, target).file[p].result = Absent
           /\ \A p \in Path \ ready : PlanFor(of, ready, target).file[p] = NoFile
BY DEF PlanFor, NoOp, NoFile

(* A preview of what a turn did plans to bring back what it found. *)
LEMMA Previewed ==
    ASSUME Typed, NEW o \in Op, NEW t \in Turn, Preview(o, t)
    PROVE  /\ op[o] = NoOp /\ phase[t] = "done" /\ job.at = "idle"
           /\ op' = [op EXCEPT ![o] = PlanFor(t, {p \in Path : Ready(t, p)},
                                              [p \in Path |-> log[t][p].before])]
           /\ [p \in Path |-> log[t][p].before] \in [Path -> Version]
<1>1. \A p \in Path : log[t][p].before \in Version
  BY DEF Typed, JournalTyped, EntryType
<1>2. QED
  BY <1>1 DEF Preview, Plan, PlanFor, Exclusive, Undisturbed

(* A preview of an undo plans to bring back what the restore found. *)
LEMMA UndoPreviewed ==
    ASSUME Typed, NEW o \in Op, NEW u \in Op, UndoPreview(o, u)
    PROVE  /\ op[o] = NoOp /\ op[u].status # "none" /\ job.at = "idle"
           /\ op' = [op EXCEPT ![o] = PlanFor(u, {p \in Affected(u) : UndoReady(u, p)},
                                              [p \in Path |-> op[u].file[p].expected])]
           /\ [p \in Path |-> op[u].file[p].expected] \in [Path -> Version]
           /\ Affected(u) \subseteq Path
<1>1. \A p \in Path : op[u].file[p].expected \in Version
  BY DEF Typed, RestoresTyped, OpType, FileType
<1>2. Affected(u) \subseteq Path
  BY DEF Affected, Typed, RestoresTyped, OpType
<1>3. QED
  BY <1>1, <1>2 DEF UndoPreview, Plan, PlanFor, Exclusive, Undisturbed

(* A restore that records its file keeps everything else of its plan. *)
LEMMA RecordedFile ==
    ASSUME Typed, JobSound, RecordFile
    PROVE  /\ op' \in [Op -> OpType]
           /\ \A o \in Op : /\ op'[o].of = op[o].of /\ op'[o].ready = op[o].ready
                            /\ o # job.op => op'[o] = op[o]
                            /\ op'[o].pending \subseteq op[o].pending
                            /\ \A p \in Path : /\ op'[o].file[p].expected = op[o].file[p].expected
                                               /\ op'[o].file[p].target = op[o].file[p].target
                                               /\ o # job.op \/ p # job.path =>
                                                    /\ op'[o].file[p].result = op[o].file[p].result
                                                    /\ op'[o].file[p].resultRev = op[o].file[p].resultRev
           /\ op'[job.op].applied = op[job.op].applied \union {job.path}
           /\ op'[job.op].pending = {} /\ op'[job.op].status = op[job.op].status
           /\ op'[job.op].file[job.path].result = job.result
           /\ op'[job.op].file[job.path].resultRev = head[job.path]
<1>1. /\ job.op \in Op /\ job.path \in Path /\ op[job.op] \in OpType
      /\ op[job.op].file[job.path] \in FileType /\ job.result \in Version
      /\ head[job.path] \in Stamp \union {None} /\ op \in [Op -> OpType]
  BY JobPath DEF RecordFile, Typed, RestoresTyped, FilesTyped, JobType
<1>2. PICK o \in Op, p \in Path : /\ o = job.op /\ p = job.path
         /\ op' = [op EXCEPT ![o].applied = @ \union {p}, ![o].pending = {},
                             ![o].file[p].result = job.result, ![o].file[p].resultRev = head[p]]
  BY <1>1 DEF RecordFile
<1> DEFINE f0 == op[o].file[p]
           f1 == [f0 EXCEPT !.result = job.result]
           f2 == [f1 EXCEPT !.resultRev = head[p]]
           file1 == [op[o].file EXCEPT ![p] = f1]
           file2 == [file1 EXCEPT ![p] = f2]
           o1 == [op[o] EXCEPT !.applied = op[o].applied \union {p}]
           o2 == [o1 EXCEPT !.pending = {}]
           o3 == [o2 EXCEPT !.file = file1]
           o4 == [o3 EXCEPT !.file = file2]
<1>3. /\ f2 \in FileType /\ f2.result = job.result /\ f2.resultRev = head[p]
      /\ f2.expected = f0.expected /\ f2.target = f0.target
      /\ f1 \in FileType
  BY <1>1, <1>2 DEF FileType
<1>4. /\ file2 \in [Path -> FileType] /\ file2[p] = f2 /\ file1 \in [Path -> FileType]
      /\ \A q \in Path \ {p} : file2[q] = op[o].file[q]
  <2> HIDE DEF f1, f2
  <2>1. op[o].file \in [Path -> FileType]
    BY <1>1, <1>2 DEF OpType
  <2>2. QED
    BY <1>3, <2>1
<1>5. /\ o4 \in OpType /\ o4.of = op[o].of /\ o4.ready = op[o].ready
      /\ o4.status = op[o].status /\ o4.file = file2 /\ o4.pending = {}
      /\ o4.applied = op[o].applied \union {p}
  <2> HIDE DEF f1, f2, file1, file2
  <2>1. op[o] \in OpType
    BY <1>1, <1>2
  <2>2. QED
    BY <1>4, <2>1 DEF OpType
<1>6. op'[o] = o4 /\ \A u \in Op \ {o} : op'[u] = op[u]
  BY <1>1, <1>2 DEF OpType, FileType
<1>7. op' \in [Op -> OpType]
  <2> HIDE DEF o4
  <2>1. ASSUME NEW a, NEW b, NEW c, NEW d,
               op' = [[[[op EXCEPT ![o] = a] EXCEPT ![o] = b] EXCEPT ![o] = c] EXCEPT ![o] = d]
        PROVE  op' = [op EXCEPT ![o] = d]
    BY <2>1, <1>1
  <2>2. \E d : op' = [op EXCEPT ![o] = d]
    <3>1. PICK a, b, c, d :
            op' = [[[[op EXCEPT ![o] = a] EXCEPT ![o] = b] EXCEPT ![o] = c] EXCEPT ![o] = d]
      BY <1>2
    <3>2. QED
      BY <2>1, <3>1
  <2>3. QED
    BY <1>1, <1>5, <1>6, <2>2
<1> HIDE DEF f0, f1, f2, file1, file2, o1, o2, o3, o4
<1>8. f0 = op[o].file[p]
  BY DEF f0
<1>9. /\ op'[o].of = op[o].of /\ op'[o].ready = op[o].ready /\ op'[o].pending = {}
      /\ op'[o].status = op[o].status
      /\ op'[o].applied = op[o].applied \union {p} /\ op'[o].file = file2
  BY <1>5, <1>6
<1>10. \A q \in Path : /\ file2[q].expected = op[o].file[q].expected
                       /\ file2[q].target = op[o].file[q].target
                       /\ q # p => /\ file2[q].result = op[o].file[q].result
                                   /\ file2[q].resultRev = op[o].file[q].resultRev
  BY <1>3, <1>4, <1>8
<1>11. file2[p].result = job.result /\ file2[p].resultRev = head[p]
  BY <1>3, <1>4
<1>12. o = job.op /\ p = job.path
  BY <1>2
<1>13. ASSUME NEW u \in Op
       PROVE  /\ op'[u].of = op[u].of /\ op'[u].ready = op[u].ready
              /\ u # job.op => op'[u] = op[u]
              /\ op'[u].pending \subseteq op[u].pending
              /\ \A q \in Path : /\ op'[u].file[q].expected = op[u].file[q].expected
                                 /\ op'[u].file[q].target = op[u].file[q].target
                                 /\ u # job.op \/ q # job.path =>
                                      /\ op'[u].file[q].result = op[u].file[q].result
                                      /\ op'[u].file[q].resultRev = op[u].file[q].resultRev
  <2>1. CASE u = o
    <3>1. \A q \in Path : /\ op'[o].file[q].expected = op[o].file[q].expected
                          /\ op'[o].file[q].target = op[o].file[q].target
                          /\ q # p => /\ op'[o].file[q].result = op[o].file[q].result
                                      /\ op'[o].file[q].resultRev = op[o].file[q].resultRev
      BY <1>9, <1>10
    <3>2. op'[o].pending \subseteq op[o].pending
      BY <1>9
    <3>3. QED
      BY <1>12, <1>9, <2>1, <3>1, <3>2
  <2>2. CASE u # o
    BY <1>12, <1>6, <1>13, <2>2
  <2>3. QED
    BY <2>1, <2>2
<1>14. QED
  <2>1. /\ op'[job.op].applied = op[job.op].applied \union {job.path}
        /\ op'[job.op].pending = {} /\ op'[job.op].status = op[job.op].status
    BY <1>12, <1>9
  <2>2. /\ op'[job.op].file[job.path].result = job.result
        /\ op'[job.op].file[job.path].resultRev = head[job.path]
    BY <1>12, <1>9, <1>11
  <2>3. QED
    BY <1>7, <1>13, <2>1, <2>2

(* Every step keeps the types of the restores. *)
LEMMA RestoresStep == Typed /\ JobSound /\ [Next]_vars => RestoresTyped'
<1> SUFFICES ASSUME Typed, JobSound, [Next]_vars PROVE RestoresTyped'
  OBVIOUS
<1> USE DEF RestoresTyped
<1>1. ASSUME NEW o \in Op, NEW t \in Turn, Preview(o, t) PROVE RestoresTyped'
  <2>1. op' \in [Op -> OpType]
    <3> DEFINE ready == {p \in Path : Ready(t, p)}
               target == [p \in Path |-> log[t][p].before]
    <3>1. /\ ready \in SUBSET Path /\ target \in [Path -> Version]
          /\ op' = [op EXCEPT ![o] = PlanFor(t, ready, target)]
      BY <1>1, Previewed
    <3> HIDE DEF ready, target
    <3>2. PlanFor(t, ready, target) \in OpType
      BY <3>1, PlanTyped
    <3>3. QED
      BY <3>1, <3>2 DEF Typed
  <2>2. QED
    BY <1>1, <2>1 DEF Preview, Plan, Typed
<1>2. ASSUME NEW o \in Op, NEW u \in Op, UndoPreview(o, u) PROVE RestoresTyped'
  <2>1. {p \in Affected(u) : UndoReady(u, p)} \in SUBSET Path
    BY <1>2, UndoPreviewed
  <2>2. op' \in [Op -> OpType]
    <3> DEFINE ready == {p \in Affected(u) : UndoReady(u, p)}
               target == [p \in Path |-> op[u].file[p].expected]
    <3>1. /\ ready \in SUBSET Path /\ target \in [Path -> Version]
          /\ op' = [op EXCEPT ![o] = PlanFor(u, ready, target)]
      BY <1>2, <2>1, UndoPreviewed
    <3> HIDE DEF ready, target
    <3>2. PlanFor(u, ready, target) \in OpType
      BY <3>1, PlanTyped
    <3>3. QED
      BY <3>1, <3>2 DEF Typed
  <2>3. QED
    BY <1>2, <2>2 DEF UndoPreview, Plan, Typed
<1>3. ASSUME NEW o \in Op, NEW chosen \in SUBSET Path, BeginRestore(o, chosen) PROVE RestoresTyped'
  <2>1. [op[o] EXCEPT !.status = "applying"] \in OpType
    BY DEF Typed, OpType
  <2>2. [NoJob EXCEPT !.op = o, !.at = "next", !.todo = chosen] \in JobType
    BY EmptyRecords DEF JobType
  <2>3. QED
    BY <1>3, <2>1, <2>2 DEF BeginRestore, Typed
<1>4. ASSUME NeedsRecovery, job.at # "idle" PROVE RestoresTyped'
  <2>1. job.op \in Op /\ [op[job.op] EXCEPT !.status = "needs_recovery"] \in OpType
    BY <1>4, JobPath DEF OpType
  <2>2. QED
    BY <1>4, <2>1, EmptyRecords DEF NeedsRecovery, Typed
<1>5. ASSUME NEW p \in Path, CheckFile(p), ~NeedsRecovery PROVE RestoresTyped'
  <2>1. job.op \in Op /\ [op[job.op] EXCEPT !.pending = {p}] \in OpType
    BY <1>5, JobPath DEF OpType, CheckFile
  <2>2. [job EXCEPT !.at = "checked", !.path = p, !.todo = @ \ {p}] \in JobType
    BY DEF Typed, JobType
  <2>3. QED
    BY <1>5, <2>1, <2>2 DEF CheckFile, Typed
<1>6. ASSUME ApplyFile PROVE RestoresTyped'
  <2>1. job.path \in Path /\ op[job.op].file[job.path].target.text \in Text \union {NoText}
    BY <1>6, JobPath, VersionFields DEF ApplyFile, FileType
  <2>2. disk'[job.path] \in Version
    BY <1>6, <2>1, WriteIsFresh DEF ApplyFile, Typed, FilesTyped
  <2>3. QED
    BY <1>6, <2>2 DEF ApplyFile, Typed, JobType
<1>7. ASSUME AdvanceFile PROVE RestoresTyped'
  BY <1>7 DEF AdvanceFile, Typed, JobType
<1>8. ASSUME RecordFile PROVE RestoresTyped'
  <2>1. [NoJob EXCEPT !.op = job.op, !.at = "next", !.todo = job.todo] \in JobType
    BY EmptyRecords DEF JobType, Typed
  <2>2. QED
    BY <1>8, <2>1, RecordedFile DEF RecordFile
<1>9. ASSUME EndRestore PROVE RestoresTyped'
  <2>1. job.op \in Op /\ [op[job.op] EXCEPT !.status = "complete"] \in OpType
    BY <1>9, JobPath DEF OpType, EndRestore
  <2>2. QED
    BY <1>9, <2>1, EmptyRecords DEF EndRestore, Typed
<1>10. ASSUME Crash PROVE RestoresTyped'
  BY <1>10, EmptyRecords DEF Crash, Typed
<1>11. CASE UNCHANGED <<op, job>>
  BY <1>11 DEF Typed
<1> HIDE DEF RestoresTyped
<1>12. QED
  BY <1>1, <1>2, <1>3, <1>4, <1>5, <1>6, <1>7, <1>8, <1>9, <1>10, <1>11 DEF BeginTurn, Track,
     WriteEdit, SaveEdit, Advance, EditFails, BeginCommand, FinishCommand, FinishTurn, Recover,
     ApplyFails, CheckFile, Outside, vars, Next, EditStep, TurnStep, RestoreStep

(* Every step keeps the types. *)
LEMMA TypedStep == Typed /\ JobSound /\ [Next]_vars => Typed'
BY FilesStep, JournalStep, EditsStep, RestoresStep DEF Typed

-----------------------------------------------------------------------------
(* The kinds of steps: what they leave alone. *)
OnDisk ==
    \/ \E p \in Path, x \in Text : WriteEdit(p, x)
    \/ ApplyFile
    \/ \E p \in Path, x \in Text \union {NoText} : Outside(p, x)
Planning ==
    \/ \E o \in Op, t \in Turn : Preview(o, t)
    \/ \E o, u \in Op : UndoPreview(o, u)

PlansKept == \A o \in Op :
    /\ op'[o].of = op[o].of /\ op'[o].ready = op[o].ready
    /\ \A p \in Path : /\ op'[o].file[p].expected = op[o].file[p].expected
                       /\ op'[o].file[p].target = op[o].file[p].target
ResultsKept == \A o \in Op :
    /\ op'[o].applied = op[o].applied
    /\ \A p \in Path : op'[o].file[p].result = op[o].file[p].result

(* A file is written by a tool, a restore or somebody outside. *)
LEMMA DiskStep ==
    [Next]_vars => \/ UNCHANGED <<disk, by>>
                   \/ OnDisk /\ UNCHANGED <<log, open, op, origin, phase>>
BY DEF WriteEdit, ApplyFile, Outside, OnDisk, BeginTurn, Track, SaveEdit, Advance, EditFails,
   BeginCommand, FinishCommand, FinishTurn, Recover, Plan, Preview, UndoPreview, BeginRestore,
   NeedsRecovery, CheckFile, ApplyFails, AdvanceFile, RecordFile, EndRestore, Crash, vars, Next,
   EditStep, TurnStep, RestoreStep

(* A plan is made once, and from then on only the outcome is added. *)
LEMMA OpStep ==
    Typed /\ JobSound /\ [Next]_vars =>
      \/ PlansKept /\ (ResultsKept \/ RecordFile)
      \/ Planning /\ UNCHANGED <<disk, by, log, origin, phase, edit, job>>
<1> SUFFICES ASSUME Typed, JobSound, [Next]_vars
             PROVE  \/ PlansKept /\ (ResultsKept \/ RecordFile)
                    \/ Planning /\ UNCHANGED <<disk, by, log, origin, phase, edit, job>>
  OBVIOUS
<1>1. CASE Planning
  BY <1>1 DEF Planning, Preview, UndoPreview, Plan
<1>2. CASE RecordFile
  BY <1>2, RecordedFile DEF PlansKept
<1>3. ASSUME NEW o \in Op, NEW chosen \in SUBSET Path, BeginRestore(o, chosen)
      PROVE  PlansKept /\ ResultsKept
  BY <1>3 DEF BeginRestore, PlansKept, ResultsKept, Typed, RestoresTyped, OpType
<1>4. ASSUME NeedsRecovery, job.at # "idle" PROVE PlansKept /\ ResultsKept
  BY <1>4 DEF NeedsRecovery, PlansKept, ResultsKept, Typed, RestoresTyped, OpType
<1>5. ASSUME NEW p \in Path, CheckFile(p), ~NeedsRecovery PROVE PlansKept /\ ResultsKept
  BY <1>5 DEF CheckFile, PlansKept, ResultsKept, Typed, RestoresTyped, OpType
<1>6. ASSUME EndRestore PROVE PlansKept /\ ResultsKept
  BY <1>6 DEF EndRestore, PlansKept, ResultsKept, Typed, RestoresTyped, OpType
<1>7. CASE UNCHANGED op
  BY <1>7 DEF PlansKept, ResultsKept
<1>8. QED
  BY <1>1, <1>2, <1>3, <1>4, <1>5, <1>6, <1>7 DEF Planning, BeginTurn, Track, WriteEdit,
     SaveEdit, Advance, EditFails, BeginCommand, FinishCommand, FinishTurn, Recover, CheckFile,
     ApplyFile, ApplyFails, AdvanceFile, Outside, Crash, vars, Next, EditStep, TurnStep,
     RestoreStep

(* A journal entry changes by an edit, or is spoilt. *)
LEMMA LogStep ==
    Typed /\ [Next]_vars => \A t \in Turn, p \in Path :
      \/ log'[t][p] = log[t][p]
      \/ log'[t][p] = Spoilt
      \/ \E i \in Stamp : /\ SaveEdit(p) /\ edit[p].turn = t
                          /\ log'[t][p] = Merged(log[t][p], Entry(p, i), open[t][p].rev)
<1> SUFFICES ASSUME Typed, [Next]_vars, NEW t \in Turn, NEW p \in Path
             PROVE  \/ log'[t][p] = log[t][p]
                    \/ log'[t][p] = Spoilt
                    \/ \E i \in Stamp : /\ SaveEdit(p) /\ edit[p].turn = t
                          /\ log'[t][p] = Merged(log[t][p], Entry(p, i), open[t][p].rev)
  OBVIOUS
<1> USE DEF Typed, JournalTyped, EditsTyped
<1>1. ASSUME NEW q \in Path, SaveEdit(q)
      PROVE  \/ log'[t][p] = log[t][p]
             \/ \E i \in Stamp : /\ SaveEdit(p) /\ edit[p].turn = t
                          /\ log'[t][p] = Merged(log[t][p], Entry(p, i), open[t][p].rev)
  <2>1. PICK i \in Stamp : /\ edit[q].turn \in Turn
           /\ log' = [log EXCEPT ![edit[q].turn][q] =
                        Merged(log[edit[q].turn][q], Entry(q, i), open[edit[q].turn][q].rev)]
    BY <1>1, SavedEntry
  <2>2. QED
    BY <1>1, <2>1
<1>2. ASSUME NEW q \in Path, EditFails(q)
      PROVE  log'[t][p] = log[t][p] \/ log'[t][p] = Spoilt
  BY <1>2 DEF EditFails
<1>3. ASSUME NEW u \in Turn, FinishCommand(u)
      PROVE  log'[t][p] = log[t][p] \/ log'[t][p] = Spoilt
  BY <1>3 DEF FinishCommand
<1>4. ASSUME NEW u \in Turn, Recover(u)
      PROVE  log'[t][p] = log[t][p] \/ log'[t][p] = Spoilt
  BY <1>4 DEF Recover
<1>5. CASE UNCHANGED log
  BY <1>5
<1> HIDE DEF Typed, JournalTyped, EditsTyped
<1>6. QED
  BY <1>1, <1>2, <1>3, <1>4, <1>5 DEF WriteEdit, ApplyFile, Outside, BeginTurn, Track, Advance,
     BeginCommand, FinishTurn, Plan, Preview, UndoPreview, BeginRestore, NeedsRecovery,
     CheckFile, ApplyFails, AdvanceFile, RecordFile, EndRestore, Crash, vars, Next,
     EditStep, TurnStep, RestoreStep

(* What is over stays as it is. *)
LEMMA DoneStays ==
    Typed /\ [Next]_vars => \A t \in Turn : phase[t] = "done" =>
      phase'[t] = "done" /\ log'[t] = log[t] /\ origin'[t] = origin[t]
<1> SUFFICES ASSUME Typed, [Next]_vars, NEW t \in Turn, phase[t] = "done"
             PROVE  phase'[t] = "done" /\ log'[t] = log[t] /\ origin'[t] = origin[t]
  OBVIOUS
<1> USE DEF Typed, JournalTyped, EditsTyped
<1>1. ASSUME NEW u \in Turn, BeginTurn(u)
      PROVE  phase'[t] = "done" /\ UNCHANGED <<log, origin>>
  BY <1>1 DEF BeginTurn
<1>2. ASSUME NEW u \in Turn, NEW p \in Path, Track(u, p)
      PROVE  UNCHANGED <<phase, log>> /\ origin'[t] = origin[t]
  BY <1>2 DEF Track
<1>3. ASSUME NEW p \in Path, SaveEdit(p)
      PROVE  UNCHANGED <<phase, origin>> /\ log'[t] = log[t]
  BY <1>3 DEF SaveEdit
<1>4. ASSUME NEW p \in Path, EditFails(p)
      PROVE  UNCHANGED <<phase, origin>> /\ log'[t] = log[t]
  BY <1>4 DEF EditFails
<1>5. ASSUME NEW u \in Turn, FinishCommand(u)
      PROVE  UNCHANGED <<phase, origin>> /\ log'[t] = log[t]
  BY <1>5 DEF FinishCommand
<1>6. ASSUME NEW u \in Turn, FinishTurn(u)
      PROVE  phase'[t] = "done" /\ UNCHANGED <<log, origin>>
  BY <1>6 DEF FinishTurn
<1>7. ASSUME NEW u \in Turn, Recover(u)
      PROVE  phase'[t] = "done" /\ UNCHANGED origin /\ log'[t] = log[t]
  BY <1>7 DEF Recover
<1>8. ASSUME Crash PROVE phase'[t] = "done" /\ UNCHANGED <<log, origin>>
  BY <1>8 DEF Crash
<1>9. CASE UNCHANGED <<phase, log, origin>>
  BY <1>9
<1> HIDE DEF Typed, JournalTyped, EditsTyped
<1>10. QED
  BY <1>1, <1>2, <1>3, <1>4, <1>5, <1>6, <1>7, <1>8, <1>9 DEF WriteEdit, ApplyFile, Outside,
     Advance, BeginCommand, Plan, Preview, UndoPreview, BeginRestore, NeedsRecovery, CheckFile,
     ApplyFails, AdvanceFile, RecordFile, EndRestore, vars, Next, EditStep, TurnStep,
     RestoreStep

-----------------------------------------------------------------------------
Sound ==
    /\ AllActual /\ LogSound /\ ResultSound /\ PlanSound /\ TargetGone
    /\ EditSound /\ JobSound /\ PlansOfDone

(* Where a step writes. *)
LEMMA OnDiskAt ==
    ASSUME Typed, JobSound, OnDisk
    PROVE  \E p \in Path, x \in Text \union {NoText} :
             /\ Written(p, x) /\ \A q \in Path \ {p} : by'[q] = by[q]
             /\ \/ x \in Text /\ WriteEdit(p, x)
                \/ ApplyFile /\ p = job.path
                \/ Outside(p, x)
<1>1. ASSUME NEW p \in Path, NEW x \in Text, WriteEdit(p, x)
      PROVE  Written(p, x) /\ \A q \in Path \ {p} : by'[q] = by[q]
  BY <1>1 DEF WriteEdit, Typed, FilesTyped
<1>2. ASSUME ApplyFile
      PROVE  /\ job.path \in Path /\ op[job.op].file[job.path].target.text \in Text \union {NoText}
             /\ Written(job.path, op[job.op].file[job.path].target.text)
             /\ \A q \in Path \ {job.path} : by'[q] = by[q]
  BY <1>2, JobPath, VersionFields DEF ApplyFile, FileType, Typed, FilesTyped
<1>3. ASSUME NEW p \in Path, NEW x \in Text \union {NoText}, Outside(p, x)
      PROVE  Written(p, x) /\ \A q \in Path \ {p} : by'[q] = by[q]
  BY <1>3 DEF Outside, Typed, FilesTyped
<1>4. QED
  BY <1>1, <1>2, <1>3 DEF OnDisk

(* A write leaves the files of the records where they were, or nowhere. *)
LEMMA StillAfterWrite ==
    ASSUME Typed, JobSound, OnDisk, NEW p \in Path, NEW v, v.file \in Files(p), Still(p, v)'
    PROVE  Still(p, v) /\ by'[p] = by[p]
<1>1. PICK q \in Path, x \in Text \union {NoText} :
        Written(q, x) /\ \A r \in Path \ {q} : by'[r] = by[r]
  BY OnDiskAt
<1>2. disk \in [Path -> Version]
  BY DEF Typed, FilesTyped
<1>3. q # p
  BY <1>1, <1>2, WrittenIsUnnamed DEF Still
<1>4. disk'[p] = disk[p]
  BY <1>1, <1>2, <1>3, WriteIsFresh
<1>5. QED
  BY <1>1, <1>3, <1>4 DEF Still

(* Why a file is ready, and what would be put back. *)
PlanFounded(of, ready, target) ==
    \/ /\ of \in Turn /\ phase[of] = "done" /\ \A p \in ready : Ready(of, p)
       /\ \A p \in Path : target[p] = log[of][p].before
    \/ /\ of \in Op /\ \A p \in ready : p \in Affected(of) /\ UndoReady(of, p)
       /\ \A p \in Path : target[p] = op[of].file[p].expected

PlanIs(o, of, ready, target) ==
    /\ \A u \in Op \ {o} : op'[u] = op[u]
    /\ op'[o].of = of /\ op'[o].ready = ready /\ op'[o].applied = {} /\ op'[o].pending = {}
    /\ \A p \in ready : /\ op'[o].file[p].expected = disk[p]
                       /\ op'[o].file[p].target = target[p]
                       /\ op'[o].file[p].result = Absent
    /\ \A p \in Path \ ready : op'[o].file[p] = NoFile
    /\ op[o] = NoOp /\ job.at = "idle"
    /\ PlanFounded(of, ready, target)

(* What a step plans. *)
LEMMA PlanMade ==
    ASSUME Typed, Planning
    PROVE  \E o \in Op, of \in Turn \union Op, ready \in SUBSET Path, target \in [Path -> Version] :
             PlanIs(o, of, ready, target)
<1>1. PICK o \in Op, of \in Turn \union Op, ready \in SUBSET Path, target \in [Path -> Version] :
        /\ op' = [op EXCEPT ![o] = PlanFor(of, ready, target)] /\ op[o] = NoOp /\ job.at = "idle"
        /\ PlanFounded(of, ready, target)
  <2>1. ASSUME NEW o \in Op, NEW t \in Turn, Preview(o, t)
        PROVE  \E ready \in SUBSET Path, target \in [Path -> Version] :
                 /\ op' = [op EXCEPT ![o] = PlanFor(t, ready, target)] /\ op[o] = NoOp
                 /\ job.at = "idle" /\ PlanFounded(t, ready, target)
    <3> DEFINE ready == {p \in Path : Ready(t, p)}
               target == [p \in Path |-> log[t][p].before]
    <3>1. /\ op' = [op EXCEPT ![o] = PlanFor(t, ready, target)] /\ op[o] = NoOp
          /\ job.at = "idle" /\ phase[t] = "done" /\ target \in [Path -> Version]
      BY <2>1, Previewed
    <3>2. ready \in SUBSET Path /\ \A p \in ready : Ready(t, p)
      OBVIOUS
    <3>3. \A p \in Path : target[p] = log[t][p].before
      OBVIOUS
    <3> HIDE DEF ready, target
    <3>4. QED
      BY <3>1, <3>2, <3>3 DEF PlanFounded
  <2>2. ASSUME NEW o \in Op, NEW u \in Op, UndoPreview(o, u)
        PROVE  \E ready \in SUBSET Path, target \in [Path -> Version] :
                 /\ op' = [op EXCEPT ![o] = PlanFor(u, ready, target)] /\ op[o] = NoOp
                 /\ job.at = "idle" /\ PlanFounded(u, ready, target)
    <3> DEFINE ready == {p \in Affected(u) : UndoReady(u, p)}
               target == [p \in Path |-> op[u].file[p].expected]
    <3>1. /\ op' = [op EXCEPT ![o] = PlanFor(u, ready, target)] /\ op[o] = NoOp
          /\ job.at = "idle" /\ target \in [Path -> Version] /\ Affected(u) \subseteq Path
      BY <2>2, UndoPreviewed
    <3>2. ready \in SUBSET Path /\ \A p \in ready : p \in Affected(u) /\ UndoReady(u, p)
      BY <3>1
    <3>3. \A p \in Path : target[p] = op[u].file[p].expected
      OBVIOUS
    <3> HIDE DEF ready, target
    <3>4. QED
      BY <3>1, <3>2, <3>3 DEF PlanFounded
  <2>3. CASE \E o \in Op, t \in Turn : Preview(o, t)
    BY <2>1, <2>3
  <2>4. CASE \E o, u \in Op : UndoPreview(o, u)
    BY <2>2, <2>4
  <2>5. QED
    BY <2>3, <2>4 DEF Planning
<1>2. op'[o] = PlanFor(of, ready, target) /\ \A u \in Op \ {o} : op'[u] = op[u]
  BY <1>1 DEF Typed, RestoresTyped
<1>3. of \in Turn \union Op /\ ready \in SUBSET Path /\ target \in [Path -> Version]
  BY <1>1
<1> DEFINE plan == PlanFor(of, ready, target)
<1>4. /\ plan.of = of /\ plan.ready = ready /\ plan.applied = {} /\ plan.pending = {}
      /\ \A p \in ready : /\ plan.file[p].expected = disk[p] /\ plan.file[p].target = target[p]
                         /\ plan.file[p].result = Absent
      /\ \A p \in Path \ ready : plan.file[p] = NoFile
  BY <1>3, PlanParts
<1> HIDE DEF plan
<1>5. op'[o] = plan
  BY <1>2 DEF plan
<1>6. PlanIs(o, of, ready, target)
  BY <1>1, <1>2, <1>4, <1>5 DEF PlanIs
<1>7. QED
  BY <1>1, <1>6

(* Every recorded version but an edit's outcome names its file. *)
LEMMA ActualStep == Typed /\ Sound /\ [Next]_vars => AllActual'
<1> SUFFICES ASSUME Typed, Sound, [Next]_vars PROVE AllActual'
  OBVIOUS
<1>0. AllActual /\ JobSound
  BY DEF Sound
<1>1. \A p \in Path : Actual(disk[p])'
  <2>1. CASE UNCHANGED <<disk, by>>
    BY <1>0, <2>1 DEF AllActual, Actual
  <2>2. CASE OnDisk
    <3>1. PICK q \in Path, x \in Text \union {NoText} : Written(q, x)
      BY <1>0, <2>2, OnDiskAt
    <3>2. disk \in [Path -> Version]
      BY DEF Typed, FilesTyped
    <3>3. QED
      BY <1>0, <3>1, <3>2, WriteIsFresh DEF AllActual, Actual
  <2>3. QED
    BY <2>1, <2>2, DiskStep
<1>2. ASSUME NEW t \in Turn, NEW p \in Path PROVE Actual(log[t][p].before)'
  <2>1. CASE log'[t][p] = log[t][p]
    BY <1>0, <1>2, <2>1 DEF AllActual, Actual
  <2>2. CASE log'[t][p] = Spoilt
    BY <2>2 DEF Spoilt, NoEntry, Absent, Actual
  <2>3. ASSUME NEW i \in Stamp, edit[p].turn = t,
               log'[t][p] = Merged(log[t][p], Entry(p, i), open[t][p].rev)
        PROVE  Actual(log[t][p].before)'
    <3>1. Entry(p, i).before = open[t][p].before
      BY <2>3 DEF Entry, NoEntry
    <3>2. Entry(p, i) \in EntryType
      BY <1>2, <2>3, EntryTyped
    <3>3. log'[t][p] = Spoilt \/ log'[t][p].before \in {log[t][p].before, open[t][p].before}
      BY <2>3, <3>1, <3>2 DEF Merged, EntryType
    <3>4. QED
      BY <1>0, <1>2, <2>2, <3>3 DEF AllActual, Actual
  <2>4. QED
    BY <1>2, <2>1, <2>2, <2>3, LogStep
<1>3. \A t \in Turn, p \in Path : Actual(open[t][p].before)'
  <2>1. ASSUME NEW t \in Turn, NEW p \in Path, Track(t, p)
        PROVE  \A u \in Turn, q \in Path : Actual(open[u][q].before)'
    BY <1>0, <2>1 DEF Track, AllActual, Actual, Typed, JournalTyped
  <2>2. ASSUME NEW p \in Path, SaveEdit(p) \/ EditFails(p)
        PROVE  \A u \in Turn, q \in Path : Actual(open[u][q].before)'
    <3>1. open' = [open EXCEPT ![edit[p].turn][p] = NoRecord] /\ edit[p].turn \in Turn
      BY <2>2 DEF SaveEdit, EditFails, Typed, EditsTyped
    <3>2. QED
      BY <1>0, <3>1 DEF AllActual, Actual, Typed, JournalTyped, NoRecord, Absent
  <2>3. ASSUME NEW t \in Turn, Recover(t)
        PROVE  \A u \in Turn, q \in Path : Actual(open[u][q].before)'
    BY <1>0, <2>3 DEF Recover, AllActual, Actual, Typed, JournalTyped, NoRecord, Absent
  <2>4. CASE UNCHANGED open
    BY <1>0, <2>4 DEF AllActual, Actual
  <2>5. QED
    BY <2>1, <2>2, <2>3, <2>4 DEF WriteEdit, ApplyFile, Outside, BeginTurn, Advance,
       BeginCommand, FinishCommand, FinishTurn, Plan, Preview, UndoPreview, BeginRestore,
       NeedsRecovery, CheckFile, ApplyFails, AdvanceFile, RecordFile, EndRestore, Crash, vars,
       Next, EditStep, TurnStep, RestoreStep
<1>4. ASSUME NEW o \in Op, NEW p \in Path
      PROVE  /\ Actual(op[o].file[p].expected)' /\ Actual(op[o].file[p].target)'
             /\ Actual(op[o].file[p].result)'
  <2>1. CASE PlansKept /\ ResultsKept
    BY <1>0, <1>4, <2>1 DEF PlansKept, ResultsKept, AllActual, Actual
  <2>2. CASE PlansKept /\ RecordFile
    <3>1. op'[o].file[p].result \in {op[o].file[p].result, job.result}
      BY <1>0, <1>4, <2>2, RecordedFile
    <3>2. Actual(op'[o].file[p].result)
      BY <1>0, <1>4, <3>1 DEF AllActual
    <3>3. /\ op'[o].file[p].expected = op[o].file[p].expected
          /\ op'[o].file[p].target = op[o].file[p].target
      BY <1>4, <2>2 DEF PlansKept
    <3>4. QED
      BY <1>0, <1>4, <3>2, <3>3 DEF AllActual, Actual
  <2>3. CASE Planning
    <3>1. PICK o2 \in Op, of \in Turn \union Op, ready \in SUBSET Path, target \in [Path -> Version] :
            PlanIs(o2, of, ready, target)
      BY <2>3, PlanMade
    <3>0. \A q \in Path : Actual(target[q])
      BY <1>0, <3>1 DEF AllActual, PlanIs, PlanFounded
    <3>2. CASE o # o2
      BY <1>0, <1>4, <3>1, <3>2 DEF AllActual, Actual, PlanIs
    <3>3. CASE o = o2 /\ p \in ready
      BY <1>0, <1>4, <3>0, <3>1, <3>3 DEF AllActual, Actual, Absent, PlanIs
    <3>4. CASE o = o2 /\ p \notin ready
      BY <1>4, <3>1, <3>4 DEF Actual, NoFile, Absent, PlanIs
    <3>5. QED
      BY <3>2, <3>3, <3>4
  <2>4. QED
    BY <1>0, <2>1, <2>2, <2>3, OpStep
<1>5. Actual(job.result)'
  <2>1. CASE ApplyFile
    <3>1. /\ job.path \in Path /\ op[job.op].file[job.path].target.text \in Text \union {NoText}
          /\ job'.result = disk'[job.path]
      BY <1>0, <2>1, JobPath, VersionFields DEF ApplyFile, FileType, Typed, RestoresTyped, JobType
    <3>2. QED
      BY <1>1, <3>1 DEF Actual
  <2>2. CASE job'.result \in {job.result, Absent}
    BY <1>0, <2>2 DEF AllActual, Actual, Absent
  <2>3. ASSUME RecordFile \/ EndRestore \/ NeedsRecovery \/ Crash
               \/ \E o \in Op, chosen \in SUBSET Path : BeginRestore(o, chosen)
        PROVE  job'.result \in {job.result, Absent}
    <3>1. NoJob.result = Absent
          /\ \A o, todo : [NoJob EXCEPT !.op = o, !.at = "next", !.todo = todo].result = Absent
      BY DEF NoJob
    <3>2. CASE RecordFile
      BY <3>1, <3>2 DEF RecordFile
    <3>3. CASE EndRestore \/ NeedsRecovery \/ Crash
      BY <3>1, <3>3 DEF EndRestore, NeedsRecovery, Crash
    <3>4. CASE \E o \in Op, chosen \in SUBSET Path : BeginRestore(o, chosen)
      BY <3>1, <3>4 DEF BeginRestore
    <3>5. QED
      BY <2>3, <3>2, <3>3, <3>4
  <2>4. ASSUME AdvanceFile \/ \E p \in Path : CheckFile(p) /\ ~NeedsRecovery
        PROVE  job'.result \in {job.result, Absent}
    BY <2>4 DEF AdvanceFile, CheckFile, Typed, RestoresTyped, JobType
  <2>5. CASE UNCHANGED job
    BY <1>0, <2>5 DEF AllActual, Actual
  <2>6. QED
    BY <2>1, <2>2, <2>3, <2>4, <2>5 DEF WriteEdit, Outside, BeginTurn, Track, SaveEdit, Advance,
       EditFails, BeginCommand, FinishCommand, FinishTurn, Recover, Plan, Preview, UndoPreview,
       CheckFile, ApplyFails, vars, Next, EditStep, TurnStep, RestoreStep
<1>6. QED
  BY <1>1, <1>2, <1>3, <1>4, <1>5 DEF AllActual

(* The journal names the files that the turn wrote. *)
LEMMA LogSoundStep == Typed /\ Sound /\ [Next]_vars => LogSound'
<1> SUFFICES ASSUME Typed, Sound, [Next]_vars, NEW t \in Turn, NEW p \in Path,
                    Still(p, log[t][p].after)'
             PROVE  by'[p] = t
  BY DEF LogSound
<1>0. LogSound /\ EditSound /\ JobSound
  BY DEF Sound
<1>1. CASE OnDisk /\ UNCHANGED log
  <2>1. PICK v : v = log[t][p].after
    OBVIOUS
  <2>2. v.file \in Files(p) /\ Still(p, v)'
    BY <1>1, <2>1, Named DEF Still
  <2>3. Still(p, v) /\ by'[p] = by[p]
    BY <1>0, <1>1, <2>2, StillAfterWrite
  <2>4. QED
    BY <1>0, <2>1, <2>3 DEF LogSound
<1>2. CASE UNCHANGED <<disk, by>>
  <2>1. CASE log'[t][p] = log[t][p]
    BY <1>0, <1>2, <2>1 DEF LogSound, Still
  <2>2. CASE log'[t][p] = Spoilt
    BY <2>2 DEF Spoilt, NoEntry, Absent, Still
  <2>3. ASSUME NEW i \in Stamp, SaveEdit(p), edit[p].turn = t,
               log'[t][p] = Merged(log[t][p], Entry(p, i), open[t][p].rev)
        PROVE  by'[p] = t
    <3>1. Entry(p, i).after = Outcome(p) /\ Entry(p, i) \in EntryType
      BY <2>3, EntryTyped DEF Entry, NoEntry
    <3>2. log'[t][p] = Spoilt \/ log'[t][p].after = Outcome(p)
      BY <2>3, <3>1 DEF Merged, EntryType
    <3>3. CASE log'[t][p].after = Outcome(p)
      <4>1. disk[p].text = edit[p].text /\ edit[p].at = "written"
        BY <1>2, <2>3, <3>3 DEF Still, Outcome, SaveEdit
      <4>2. QED
        BY <1>0, <1>2, <2>3, <4>1 DEF EditSound
    <3>4. QED
      BY <2>2, <3>2, <3>3
  <2>4. QED
    BY <2>1, <2>2, <2>3, LogStep
<1>3. QED
  BY <1>1, <1>2, DiskStep

(* The record of a restore names the files that it wrote. *)
LEMMA ResultSoundStep == Typed /\ Sound /\ [Next]_vars => ResultSound'
<1> SUFFICES ASSUME Typed, Sound, [Next]_vars, NEW o \in Op, NEW p \in op'[o].applied,
                    Still(p, op[o].file[p].result)'
             PROVE  by'[p] = o
  BY DEF ResultSound
<1>0. ResultSound /\ JobSound
  BY DEF Sound
<1>1. CASE OnDisk /\ UNCHANGED op
  <2>1. PICK v : v = op[o].file[p].result
    OBVIOUS
  <2>2. p \in Path /\ p \in op[o].applied
    BY <1>1 DEF Typed, RestoresTyped, OpType
  <2>3. v.file \in Files(p) /\ Still(p, v)'
    BY <1>1, <2>1, <2>2, Named DEF Still
  <2>4. Still(p, v) /\ by'[p] = by[p]
    BY <1>0, <1>1, <2>2, <2>3, StillAfterWrite
  <2>5. QED
    BY <1>0, <2>1, <2>2, <2>4 DEF ResultSound
<1>2. CASE UNCHANGED <<disk, by>>
  <2>1. CASE ResultsKept
    <3>1. p \in op[o].applied /\ p \in Path
      BY <2>1 DEF ResultsKept, Typed, RestoresTyped, OpType
    <3>2. op'[o].file[p].result = op[o].file[p].result
      BY <2>1, <3>1 DEF ResultsKept
    <3>3. QED
      BY <1>0, <1>2, <3>1, <3>2 DEF ResultSound, Still
  <2>2. CASE RecordFile
    <3>1. CASE o = job.op /\ p = job.path
      <4>1. op'[o].file[p].result = job.result
        BY <1>0, <2>2, <3>1, RecordedFile
      <4>2. Still(job.path, job.result) /\ job.at = "advanced"
        BY <1>2, <2>2, <3>1, <4>1 DEF Still, RecordFile
      <4>3. QED
        BY <1>0, <1>2, <3>1, <4>2 DEF JobSound
    <3>2. CASE ~(o = job.op /\ p = job.path)
      <4>1. p \in op[o].applied
        BY <1>0, <2>2, <3>2, RecordedFile
      <4>2. p \in Path
        BY <4>1 DEF Typed, RestoresTyped, OpType
      <4>3. op'[o].file[p].result = op[o].file[p].result
        BY <1>0, <2>2, <3>2, <4>2, RecordedFile
      <4>4. QED
        BY <1>0, <1>2, <4>1, <4>3 DEF ResultSound, Still
    <3>3. QED
      BY <3>1, <3>2
  <2>3. CASE Planning
    <3>1. PICK o2 \in Op, of \in Turn \union Op, ready \in SUBSET Path, target \in [Path -> Version] :
            PlanIs(o2, of, ready, target)
      BY <2>3, PlanMade
    <3>2. op'[o] = op[o] /\ p \in op[o].applied
      BY <3>1 DEF PlanIs
    <3>3. QED
      BY <1>0, <1>2, <3>2 DEF ResultSound, Still
  <2>4. QED
    BY <1>0, <2>1, <2>2, <2>3, OpStep
<1>3. QED
  BY <1>1, <1>2, DiskStep

(* What a plan expects is the work of its turn or restore. *)
LEMMA PlanSoundStep == Typed /\ Sound /\ [Next]_vars => PlanSound'
<1> SUFFICES ASSUME Typed, Sound, [Next]_vars, NEW o \in Op, NEW p \in op'[o].ready,
                    Still(p, op[o].file[p].expected)'
             PROVE  \/ by'[p] = op'[o].of
                    \/ /\ op'[o].of \in Turn
                       /\ log'[op'[o].of][p].after = [text |-> op'[o].file[p].expected.text, file |-> None]
  BY DEF PlanSound, TextOnly
<1>0. AllActual /\ LogSound /\ ResultSound /\ PlanSound /\ TargetGone /\ JobSound /\ PlansOfDone
  BY DEF Sound
<1>1. CASE PlansKept
  <2>1. p \in op[o].ready /\ p \in Path /\ op'[o].of = op[o].of
        /\ op'[o].file[p].expected = op[o].file[p].expected
    BY <1>1 DEF PlansKept, Typed, RestoresTyped, OpType
  <2>2. PICK v : v = op[o].file[p].expected
    OBVIOUS
  <2>3. Still(p, v)'
    BY <2>1, <2>2 DEF Still
  <2>4. Still(p, v) /\ by'[p] = by[p]
    <3>1. v.file \in Files(p)
      BY <2>1, <2>2, Named
    <3>2. CASE UNCHANGED <<disk, by>>
      BY <2>3, <3>2 DEF Still
    <3>3. CASE OnDisk
      BY <1>0, <2>1, <2>3, <3>1, <3>3, StillAfterWrite
    <3>4. QED
      BY <3>2, <3>3, DiskStep
  <2>5. \/ by[p] = op[o].of
        \/ op[o].of \in Turn /\ TextOnly(op[o].of, p, op[o].file[p].expected)
    BY <1>0, <2>1, <2>2, <2>4 DEF PlanSound
  <2>6. op[o].of \in Turn => log'[op[o].of] = log[op[o].of]
    BY <1>0, <2>1, DoneStays DEF PlansOfDone
  <2>7. QED
    BY <2>1, <2>4, <2>5, <2>6 DEF TextOnly
<1>2. CASE Planning /\ UNCHANGED <<disk, by, log>>
  <2>1. PICK o2 \in Op, of \in Turn \union Op, ready \in SUBSET Path, target \in [Path -> Version] :
          PlanIs(o2, of, ready, target)
    BY <1>2, PlanMade
  <2>2. CASE o # o2
    <3>1. op'[o] = op[o]
      BY <2>1, <2>2 DEF PlanIs
    <3>2. QED
      BY <1>0, <1>2, <3>1 DEF PlanSound, Still, TextOnly
  <2>3. CASE o = o2
    <3>1. p \in ready /\ p \in Path /\ op'[o].of = of /\ op'[o].file[p].expected = disk[p]
          /\ disk[p].text # NoText
      BY <1>2, <2>1, <2>3 DEF PlanIs, Still
    <3>2. CASE of \in Turn /\ Ready(of, p)
      <4>1. SameOnDisk(disk[p], log[of][p].after) /\ log[of][p].after \in Version
        BY <3>1, <3>2 DEF Ready, Typed, JournalTyped, EntryType
      <4>2. CASE log[of][p].after.file = None
        <5>1. log[of][p].after = [text |-> disk[p].text, file |-> None]
          BY <4>1, <4>2, VersionFields DEF SameOnDisk
        <5>2. QED
          BY <1>2, <3>1, <3>2, <5>1
      <4>3. CASE log[of][p].after.file # None
        <5>1. Still(p, log[of][p].after)
          BY <3>1, <4>1, <4>3 DEF SameOnDisk, Still
        <5>2. QED
          BY <1>0, <1>2, <3>1, <3>2, <5>1 DEF LogSound
      <4>4. QED
        BY <4>2, <4>3
    <3>3. CASE of \in Op /\ p \in Affected(of) /\ UndoReady(of, p)
      <4>1. CASE p \in op[of].applied
        <5>1. SameOnDisk(disk[p], op[of].file[p].result) /\ Actual(op[of].file[p].result)
          BY <1>0, <3>1, <3>3, <4>1 DEF UndoReady, AllActual
        <5>2. Still(p, op[of].file[p].result)
          BY <3>1, <5>1 DEF SameOnDisk, Actual, Still
        <5>3. QED
          BY <1>0, <1>2, <3>1, <3>3, <4>1, <5>2 DEF ResultSound
      <4>2. CASE p \notin op[of].applied
        <5>1. SameOnDisk(disk[p], op[of].file[p].target) /\ Actual(op[of].file[p].target)
          BY <1>0, <3>1, <3>3, <4>2 DEF UndoReady, AllActual
        <5>2. Still(p, op[of].file[p].target) /\ p \in op[of].ready
          BY <1>0, <3>1, <3>3, <4>2, <5>1 DEF SameOnDisk, Actual, Still, Affected, PlansOfDone
        <5>3. QED
          BY <1>0, <3>3, <5>2 DEF TargetGone
      <4>3. QED
        BY <4>1, <4>2
    <3>4. QED
      BY <2>1, <3>1, <3>2, <3>3 DEF PlanIs, PlanFounded
  <2>4. QED
    BY <2>2, <2>3
<1>3. QED
  BY <1>0, <1>1, <1>2, OpStep

(* What a plan is to bring back is nowhere. *)
LEMMA TargetGoneStep == Typed /\ Sound /\ [Next]_vars => TargetGone'
<1> SUFFICES ASSUME Typed, Sound, [Next]_vars, NEW o \in Op, NEW p \in op'[o].ready,
                    Still(p, op[o].file[p].target)'
             PROVE  FALSE
  BY DEF TargetGone
<1>0. TargetGone /\ JobSound
  BY DEF Sound
<1>1. CASE PlansKept
  <2>1. p \in op[o].ready /\ p \in Path /\ op'[o].file[p].target = op[o].file[p].target
    BY <1>1 DEF PlansKept, Typed, RestoresTyped, OpType
  <2>2. PICK v : v = op[o].file[p].target
    OBVIOUS
  <2>3. Still(p, v)' /\ v.file \in Files(p)
    BY <2>1, <2>2, Named DEF Still
  <2>4. Still(p, v)
    <3>1. CASE UNCHANGED <<disk, by>>
      BY <2>3, <3>1 DEF Still
    <3>2. CASE OnDisk
      BY <1>0, <2>1, <2>3, <3>2, StillAfterWrite
    <3>3. QED
      BY <3>1, <3>2, DiskStep
  <2>5. QED
    BY <1>0, <2>1, <2>2, <2>4 DEF TargetGone
<1>2. CASE Planning /\ UNCHANGED disk
  <2>1. PICK o2 \in Op, of \in Turn \union Op, ready \in SUBSET Path, target \in [Path -> Version] :
          PlanIs(o2, of, ready, target)
    BY <1>2, PlanMade
  <2>2. CASE o # o2
    <3>1. op'[o] = op[o]
      BY <2>1, <2>2 DEF PlanIs
    <3>2. QED
      BY <1>0, <1>2, <3>1 DEF TargetGone, Still
  <2>3. CASE o = o2
    <3>1. p \in ready /\ p \in Path /\ op'[o].file[p].target = target[p] /\ disk[p].text = target[p].text
      BY <1>2, <2>1, <2>3 DEF PlanIs, Still
    <3>2. CASE of \in Turn /\ Ready(of, p) /\ target[p] = log[of][p].before
      BY <3>1, <3>2 DEF Ready, Unchanged, Same
    <3>3. CASE of \in Op /\ UndoReady(of, p) /\ target[p] = op[of].file[p].expected
      BY <3>1, <3>3 DEF UndoReady, Same
    <3>4. QED
      BY <2>1, <3>1, <3>2, <3>3 DEF PlanIs, PlanFounded
  <2>4. QED
    BY <2>2, <2>3
<1>3. QED
  BY <1>0, <1>1, <1>2, OpStep

-----------------------------------------------------------------------------
(* How an edit under way goes on. *)
LEMMA EditChange ==
    Typed /\ [Next]_vars => \A p \in Path :
      \/ edit'[p] = edit[p]
      \/ edit'[p].at = "idle" /\ (Advance(p) \/ EditFails(p) \/ Crash)
      \/ \E t \in Turn : Track(t, p) /\ edit'[p].at = "tracked" /\ edit'[p].turn = t
      \/ /\ edit[p].at = "tracked" /\ edit'[p].at = "written" /\ edit'[p].turn = edit[p].turn
         /\ \E x \in Text : WriteEdit(p, x)
      \/ /\ edit[p].at = "written" /\ edit'[p].at = "saved" /\ edit'[p].turn = edit[p].turn
         /\ SaveEdit(p)
<1> SUFFICES ASSUME Typed, [Next]_vars, NEW p \in Path
             PROVE  \/ edit'[p] = edit[p]
                    \/ edit'[p].at = "idle" /\ (Advance(p) \/ EditFails(p) \/ Crash)
                    \/ \E t \in Turn : Track(t, p) /\ edit'[p].at = "tracked" /\ edit'[p].turn = t
                    \/ /\ edit[p].at = "tracked" /\ edit'[p].at = "written"
                       /\ edit'[p].turn = edit[p].turn /\ \E x \in Text : WriteEdit(p, x)
                    \/ /\ edit[p].at = "written" /\ edit'[p].at = "saved"
                       /\ edit'[p].turn = edit[p].turn /\ SaveEdit(p)
  OBVIOUS
<1>0. edit \in [Path -> EditType]
  BY DEF Typed, EditsTyped
<1>1. ASSUME NEW t \in Turn, NEW q \in Path, Track(t, q)
      PROVE  \/ edit'[p] = edit[p]
             \/ q = p /\ edit'[p].at = "tracked" /\ edit'[p].turn = t
  BY <1>0, <1>1 DEF Track, NoEdit
<1>2. ASSUME NEW q \in Path, NEW x \in Text, WriteEdit(q, x)
      PROVE  \/ edit'[p] = edit[p]
             \/ /\ q = p /\ edit[p].at = "tracked" /\ edit'[p].at = "written"
                /\ edit'[p].turn = edit[p].turn
  BY <1>0, <1>2 DEF WriteEdit, EditType
<1>3. ASSUME NEW q \in Path, SaveEdit(q)
      PROVE  \/ edit'[p] = edit[p]
             \/ /\ q = p /\ edit[p].at = "written" /\ edit'[p].at = "saved"
                /\ edit'[p].turn = edit[p].turn
  <2>1. PICK i \in Stamp : edit' = [edit EXCEPT ![q].at = "saved", ![q].id = i]
    BY <1>3, SavedEntry
  <2>2. QED
    BY <1>0, <1>3, <2>1 DEF SaveEdit, EditType
<1>4. ASSUME NEW q \in Path, Advance(q) \/ EditFails(q)
      PROVE  edit'[p] = edit[p] \/ (q = p /\ edit'[p].at = "idle")
  BY <1>0, <1>4 DEF Advance, EditFails, NoEdit
<1>5. ASSUME Crash PROVE edit'[p].at = "idle"
  BY <1>5 DEF Crash, NoEdit
<1>6. CASE UNCHANGED edit
  BY <1>6
<1>7. QED
  BY <1>1, <1>2, <1>3, <1>4, <1>5, <1>6 DEF BeginTurn, BeginCommand, FinishCommand, FinishTurn,
     Recover, Plan, Preview, UndoPreview, BeginRestore, NeedsRecovery, CheckFile, ApplyFile,
     ApplyFails, AdvanceFile, RecordFile, EndRestore, Outside, vars, Next, EditStep, TurnStep,
     RestoreStep

(* The text that a tool wrote and nobody replaced is the tool's. *)
LEMMA EditSoundStep == Typed /\ Sound /\ [Next]_vars => EditSound'
<1> SUFFICES ASSUME Typed, Sound, [Next]_vars, NEW p \in Path,
                    edit'[p].at = "written", disk'[p].text = edit'[p].text
             PROVE  by'[p] = edit'[p].turn
  BY DEF EditSound
<1>0. EditSound /\ JobSound
  BY DEF Sound
<1>1. CASE \E x \in Text : WriteEdit(p, x)
  BY <1>1 DEF WriteEdit, Typed, FilesTyped, EditsTyped, EditType
<1>2. CASE edit'[p] = edit[p] /\ ~\E x \in Text : WriteEdit(p, x)
  <2>1. CASE UNCHANGED <<disk, by>>
    BY <1>0, <1>2, <2>1 DEF EditSound
  <2>2. CASE OnDisk
    <3>1. PICK q \in Path, x \in Text \union {NoText} :
            /\ Written(q, x) /\ \A r \in Path \ {q} : by'[r] = by[r]
            /\ \/ x \in Text /\ WriteEdit(q, x)
               \/ ApplyFile /\ q = job.path
               \/ Outside(q, x)
      BY <1>0, <2>2, OnDiskAt
    <3>2. disk'[q].text = x /\ \A r \in Path \ {q} : disk'[r] = disk[r]
      BY <3>1, WriteIsFresh DEF Typed, FilesTyped
    <3>3. CASE q # p
      BY <1>0, <1>2, <3>1, <3>2, <3>3 DEF EditSound
    <3>4. CASE q = p /\ ApplyFile
      BY <1>0, <1>2, <3>4 DEF ApplyFile, JobSound
    <3>5. CASE q = p /\ Outside(q, x)
      BY <1>2, <3>2, <3>5 DEF Outside, Typed, FilesTyped
    <3>6. QED
      BY <1>2, <3>1, <3>3, <3>4, <3>5
  <2>3. QED
    BY <2>1, <2>2, DiskStep
<1>3. CASE edit'[p] # edit[p] /\ ~\E x \in Text : WriteEdit(p, x)
  BY <1>3, EditChange
<1>4. QED
  BY <1>1, <1>2, <1>3

(* How a restore goes on. *)
JobChange ==
    \/ UNCHANGED job
    \/ job'.at = "idle"
    \/ /\ job'.at = "next" /\ UNCHANGED edit
       /\ \/ job'.op \in Op /\ job'.todo \subseteq op[job'.op].ready /\ Exclusive
          \/ job.at # "idle" /\ job'.op = job.op /\ job'.todo = job.todo
    \/ \E p \in job.todo : /\ UNCHANGED <<edit, disk>>
         /\ job.at = "next" /\ StillExpected(job.op, p)
         /\ job'.at = "checked" /\ job'.op = job.op /\ job'.path = p /\ job'.todo \subseteq job.todo
    \/ /\ ApplyFile /\ job.at = "checked" /\ UNCHANGED edit
       /\ job'.at = "applied" /\ job'.op = job.op /\ job'.path = job.path
       /\ job'.todo = job.todo /\ by'[job.path] = job.op
    \/ /\ job.at = "applied" /\ UNCHANGED <<edit, disk, by>>
       /\ job'.at = "advanced" /\ job'.op = job.op /\ job'.path = job.path
       /\ job'.todo = job.todo /\ job'.result = job.result

(* Every step of a restore is one of these. *)
LEMMA JobChanges == Typed /\ JobSound /\ [Next]_vars => JobChange
<1> SUFFICES ASSUME Typed, JobSound, [Next]_vars PROVE JobChange
  OBVIOUS
<1>0. job \in JobType /\ by \in [Path -> Turn \union Op \union {Other}]
  BY DEF Typed, RestoresTyped, FilesTyped
<1>1. ASSUME NEW o \in Op, NEW chosen \in SUBSET Path, BeginRestore(o, chosen)
      PROVE  /\ job'.at = "next" /\ UNCHANGED edit
             /\ job'.op \in Op /\ job'.todo \subseteq op[job'.op].ready /\ Exclusive
  BY <1>1 DEF BeginRestore, NoJob
<1>2. ASSUME NEW p \in Path, CheckFile(p), StillExpected(job.op, p)
      PROVE  /\ UNCHANGED <<edit, disk>> /\ p \in job.todo
             /\ job.at = "next" /\ job'.at = "checked" /\ job'.op = job.op /\ job'.path = p
             /\ job'.todo \subseteq job.todo
  <2>1. /\ UNCHANGED <<edit, disk>> /\ p \in job.todo /\ job.at = "next"
        /\ job' = [job EXCEPT !.at = "checked", !.path = p, !.todo = @ \ {p}]
    BY <1>2 DEF CheckFile
  <2>2. QED
    BY <1>0, <2>1 DEF JobType
<1>3. ASSUME ApplyFile
      PROVE  /\ job.at = "checked" /\ UNCHANGED edit
             /\ job'.at = "applied" /\ job'.op = job.op /\ job'.path = job.path
             /\ job'.todo = job.todo /\ by'[job.path] = job.op
  <2>1. job.path \in Path
    BY <1>3, JobPath DEF ApplyFile
  <2>2. QED
    BY <1>0, <1>3, <2>1 DEF ApplyFile, JobType
<1>4. ASSUME AdvanceFile
      PROVE  /\ job.at = "applied" /\ UNCHANGED <<edit, disk, by>>
             /\ job'.at = "advanced" /\ job'.op = job.op /\ job'.path = job.path
             /\ job'.todo = job.todo /\ job'.result = job.result
  BY <1>0, <1>4 DEF AdvanceFile, JobType
<1>5. ASSUME RecordFile
      PROVE  /\ job'.at = "next" /\ UNCHANGED edit
             /\ job.at # "idle" /\ job'.op = job.op /\ job'.todo = job.todo
  BY <1>5 DEF RecordFile, NoJob
<1>6. ASSUME NeedsRecovery \/ EndRestore \/ Crash PROVE job'.at = "idle"
  BY <1>6 DEF NeedsRecovery, EndRestore, Crash, NoJob
<1>7. CASE UNCHANGED job
  BY <1>7 DEF JobChange
<1>8. ASSUME NEW p \in Path, CheckFile(p), ~StillExpected(job.op, p) PROVE NeedsRecovery
  BY <1>8 DEF CheckFile
<1>9. QED
  BY <1>1, <1>2, <1>3, <1>4, <1>5, <1>6, <1>7, <1>8 DEF JobChange, BeginTurn, Track, WriteEdit,
     SaveEdit, Advance, EditFails, BeginCommand, FinishCommand, FinishTurn, Recover, Plan,
     Preview, UndoPreview, ApplyFails, Outside, vars, Next, EditStep, TurnStep, RestoreStep

(* While a restore runs, the files are looked at and written by it alone, *)
(* and by those who never ask.                                             *)
LEMMA JobSoundStep == Typed /\ Sound /\ [Next]_vars => JobSound'
<1> SUFFICES ASSUME Typed, Sound, [Next]_vars, job'.at # "idle"
             PROVE  /\ \A p \in Path : edit'[p].at = "idle"
                    /\ job'.op \in Op /\ job'.todo \subseteq op'[job'.op].ready
                    /\ job'.at # "next" => job'.path \in op'[job'.op].ready
                    /\ job'.at = "checked" =>
                         SameOnDisk(disk'[job'.path], op'[job'.op].file[job'.path].expected)
                    /\ job'.at \in {"applied", "advanced"} /\ Still(job.path, job.result)' =>
                         by'[job'.path] = job'.op
  BY DEF JobSound, SameOnDisk
<1>0. JobSound
  BY DEF Sound
<1>1. CASE job.at = "idle"
  <2>1. /\ job'.at = "next" /\ UNCHANGED edit /\ job'.op \in Op
        /\ job'.todo \subseteq op[job'.op].ready /\ Exclusive
    BY <1>0, <1>1, JobChanges DEF JobChange
  <2>2. PlansKept
    <3>1. ~UNCHANGED job
      BY <1>1
    <3>2. QED
      BY <1>0, <3>1, OpStep
  <2>3. QED
    BY <2>1, <2>2 DEF PlansKept, Exclusive
<1>2. CASE job.at # "idle"
  <2>1. PlansKept
    <3>1. ~Planning
      <4>1. ASSUME Planning PROVE job.at = "idle"
        BY <4>1 DEF Planning, Preview, UndoPreview, Exclusive, Undisturbed
      <4>2. QED
        BY <1>2, <4>1
    <3>2. QED
      BY <1>0, <3>1, OpStep
  <2>2. \A p \in Path : edit[p].at = "idle" /\ edit'[p].at = "idle"
    <3>1. \A t \in Turn, p \in Path : ~Track(t, p)
      BY <1>2 DEF Track, Undisturbed
    <3>2. QED
      BY <1>0, <1>2, <3>1, EditChange DEF JobSound
  <2>3. /\ job.op \in Op /\ op'[job.op].ready = op[job.op].ready /\ job.todo \subseteq op[job.op].ready
        /\ \A p \in Path : op'[job.op].file[p].expected = op[job.op].file[p].expected
        /\ op[job.op].ready \subseteq Path
    BY <1>0, <1>2, <2>1 DEF JobSound, PlansKept, Typed, RestoresTyped, OpType
  <2>4. CASE UNCHANGED job
    <3>1. /\ job.at # "next" => job.path \in op[job.op].ready
          /\ job.at = "checked" => SameOnDisk(disk[job.path], op[job.op].file[job.path].expected)
          /\ job.at \in {"applied", "advanced"} /\ Still(job.path, job.result) => by[job.path] = job.op
      BY <1>0, <1>2 DEF JobSound
    <3>2. ASSUME job.at = "checked"
          PROVE  disk'[job.path] = disk[job.path]
      <4>1. CASE UNCHANGED <<disk, by>>
        BY <4>1
      <4>2. CASE OnDisk
        <5>1. PICK q \in Path, x \in Text \union {NoText} :
                /\ Written(q, x)
                /\ \/ x \in Text /\ WriteEdit(q, x)
                   \/ ApplyFile /\ q = job.path
                   \/ Outside(q, x)
          BY <1>0, <4>2, OnDiskAt
        <5>2. ~WriteEdit(q, x)
          BY <2>2 DEF WriteEdit
        <5>3. ~ApplyFile
          BY <2>4, <3>2 DEF ApplyFile, Typed, RestoresTyped, JobType
        <5>4. q # job.path
          BY <3>2, <5>1, <5>2, <5>3 DEF Outside
        <5>5. job.path \in Path
          BY <2>3, <3>1, <3>2
        <5>6. QED
          BY <5>1, <5>4, <5>5, WriteIsFresh DEF Typed, FilesTyped
      <4>3. QED
        BY <4>1, <4>2, DiskStep
    <3>3. ASSUME job.at \in {"applied", "advanced"}, Still(job.path, job.result)'
          PROVE  by'[job.path] = job.op
      <4>1. job.path \in Path
        BY <2>3, <3>1, <3>3
      <4>2. PICK p \in Path : p = job.path
        BY <4>1
      <4>3. PICK v : v = job.result
        OBVIOUS
      <4>4. Still(p, v)' /\ v.file \in Files(p)
        BY <2>4, <3>3, <4>2, <4>3, Named DEF Still
      <4>5. Still(p, v) /\ by'[p] = by[p]
        <5>1. CASE UNCHANGED <<disk, by>>
          BY <4>4, <5>1 DEF Still
        <5>2. CASE OnDisk
          BY <1>0, <4>4, <5>2, StillAfterWrite
        <5>3. QED
          BY <5>1, <5>2, DiskStep
      <4>6. QED
        BY <3>1, <3>3, <4>2, <4>3, <4>5
    <3>4. job.at \in {"checked", "applied", "advanced"} => job.path \in Path
      BY <2>3, <3>1
    <3>5. QED
      BY <2>2, <2>3, <2>4, <3>1, <3>2, <3>3, <3>4
  <2>5. CASE job'.at = "next" /\ job'.op = job.op /\ job'.todo = job.todo
    BY <2>2, <2>3, <2>5
  <2>6. ASSUME NEW p \in job.todo, UNCHANGED disk, StillExpected(job.op, p),
               job'.at = "checked", job'.op = job.op, job'.path = p, job'.todo \subseteq job.todo
        PROVE  /\ job'.op \in Op /\ job'.todo \subseteq op'[job'.op].ready
               /\ job'.path \in op'[job'.op].ready
               /\ SameOnDisk(disk'[job'.path], op'[job'.op].file[job'.path].expected)
    BY <2>3, <2>6 DEF StillExpected
  <2>7. CASE /\ ApplyFile /\ job.at = "checked"
             /\ job'.at = "applied" /\ job'.op = job.op /\ job'.path = job.path
             /\ job'.todo = job.todo /\ by'[job.path] = job.op
    BY <1>0, <2>2, <2>3, <2>7 DEF JobSound
  <2>8. CASE /\ job.at = "applied" /\ UNCHANGED <<disk, by>>
             /\ job'.at = "advanced" /\ job'.op = job.op /\ job'.path = job.path
             /\ job'.todo = job.todo /\ job'.result = job.result
    <3>1. Still(job.path, job.result)' => Still(job.path, job.result)
      BY <2>8 DEF Still
    <3>2. QED
      BY <1>0, <2>2, <2>3, <2>8, <3>1 DEF JobSound
  <2>9. CASE job'.at = "next"
    BY <1>0, <1>2, <2>4, <2>5, <2>9, JobChanges DEF JobChange, Exclusive, Undisturbed
  <2>10. QED
    BY <1>0, <1>2, <2>2, <2>4, <2>6, <2>7, <2>8, <2>9, JobChanges DEF JobChange
<1>3. QED
  BY <1>1, <1>2

(* Plans are made for turns that are over, and only their files announced. *)
LEMMA PlansOfDoneStep == Typed /\ Sound /\ [Next]_vars => PlansOfDone'
<1> SUFFICES ASSUME Typed, Sound, [Next]_vars, NEW o \in Op
             PROVE  /\ op'[o].ready # {} /\ op'[o].of \in Turn => phase'[op'[o].of] = "done"
                    /\ op'[o].pending \subseteq op'[o].ready
  BY DEF PlansOfDone
<1>0. JobSound /\ PlansOfDone /\ op \in [Op -> OpType]
  BY DEF Sound, Typed, RestoresTyped
<1>1. CASE PlansKept
  <2>1. op'[o].ready = op[o].ready /\ op'[o].of = op[o].of
    BY <1>1 DEF PlansKept
  <2>2. op'[o].ready # {} /\ op'[o].of \in Turn => phase'[op'[o].of] = "done"
    BY <1>0, <2>1, DoneStays DEF PlansOfDone
  <2>3. op'[o].pending \subseteq op[o].ready
    <3>1. op[o].pending \subseteq op[o].ready
      BY <1>0 DEF PlansOfDone
    <3>2. ASSUME NEW u \in Op, NEW chosen \in SUBSET Path, BeginRestore(u, chosen)
          PROVE  op'[o].pending = op[o].pending
      BY <1>0, <3>2 DEF BeginRestore, OpType
    <3>3. ASSUME NeedsRecovery \/ EndRestore PROVE op'[o].pending = op[o].pending
      BY <1>0, <3>3 DEF NeedsRecovery, EndRestore, OpType
    <3>4. ASSUME NEW p \in Path, CheckFile(p), ~NeedsRecovery
          PROVE  op'[o].pending = op[o].pending \/ op'[o].pending \subseteq op[o].ready
      <4>1. job.op \in Op /\ p \in op[job.op].ready
        BY <1>0, <3>4 DEF CheckFile, JobSound
      <4>2. op' = [op EXCEPT ![job.op].pending = {p}]
        BY <3>4 DEF CheckFile
      <4>3. QED
        BY <1>0, <4>1, <4>2 DEF OpType
    <3>5. ASSUME RecordFile PROVE op'[o].pending \subseteq op[o].pending
      BY <1>0, <3>5, RecordedFile
    <3>6. CASE UNCHANGED op
      BY <3>1, <3>6
    <3>7. ASSUME Planning PROVE op'[o].pending \subseteq op[o].pending
      BY <3>7, PlanMade DEF PlanIs
    <3>8. QED
      BY <3>1, <3>2, <3>3, <3>4, <3>5, <3>6, <3>7 DEF Planning, BeginTurn, Track, WriteEdit,
         SaveEdit, Advance, EditFails, BeginCommand, FinishCommand, FinishTurn, Recover,
         CheckFile, ApplyFile, ApplyFails, AdvanceFile, Outside, Crash, vars, Next, EditStep,
         TurnStep, RestoreStep
  <2>4. QED
    BY <2>1, <2>2, <2>3
<1>2. CASE Planning /\ UNCHANGED phase
  <2>1. PICK o2 \in Op, of \in Turn \union Op, ready \in SUBSET Path, target \in [Path -> Version] :
          PlanIs(o2, of, ready, target)
    BY <1>2, PlanMade
  <2>2. CASE o # o2
    BY <1>0, <1>2, <2>1, <2>2 DEF PlanIs, PlansOfDone
  <2>3. CASE o = o2
    BY <1>2, <2>1, <2>3 DEF PlanIs, PlanFounded
  <2>4. QED
    BY <2>2, <2>3
<1>3. QED
  BY <1>0, <1>1, <1>2, OpStep

-----------------------------------------------------------------------------
Origins == OriginLogged /\ OriginOpen /\ OriginPlanned

(* What a turn found in a file is noted when it first touches the file. *)
LEMMA OriginKept ==
    Typed /\ [Next]_vars => \A t \in Turn, p \in Path :
      origin'[t][p] = origin[t][p] \/ (Track(t, p) /\ ~log[t][p].made)
<1>1. ASSUME Typed, NEW t \in Turn, NEW p \in Path, NEW u \in Turn, NEW q \in Path, Track(u, q)
      PROVE  origin'[t][p] = origin[t][p] \/ (Track(t, p) /\ ~log[t][p].made)
  <2>1. CASE log[u][q].made
    BY <1>1, <2>1 DEF Track
  <2>2. CASE ~log[u][q].made
    <3>1. origin' = [origin EXCEPT ![u][q] = disk[q].text]
      BY <1>1, <2>2 DEF Track
    <3>2. (u = t /\ q = p) \/ origin'[t][p] = origin[t][p]
      BY <1>1, <3>1 DEF Typed, JournalTyped
    <3>3. QED
      BY <1>1, <2>2, <3>2
  <2>3. QED
    BY <2>1, <2>2
<1>2. Next /\ ~(\E u \in Turn, q \in Path : Track(u, q)) => UNCHANGED origin
  BY DEF WriteEdit, SaveEdit, Advance, EditFails, BeginTurn, BeginCommand, FinishCommand,
     FinishTurn, Recover, Plan, Preview, UndoPreview, BeginRestore, NeedsRecovery, CheckFile,
     ApplyFile, ApplyFails, AdvanceFile, RecordFile, EndRestore, Outside, Crash, Next, EditStep,
     TurnStep, RestoreStep
<1>3. UNCHANGED vars => UNCHANGED origin
  BY DEF vars
<1>4. QED
  BY <1>1, <1>2, <1>3

(* The record of an edit under way lasts as long as the edit. *)
LEMMA OpenKept ==
    Typed /\ [Next]_vars => \A t \in Turn, p \in Path :
      \/ open'[t][p] = open[t][p]
      \/ Track(t, p)
      \/ (SaveEdit(p) \/ EditFails(p)) /\ edit[p].turn = t
      \/ Recover(t)
<1> SUFFICES ASSUME Typed, [Next]_vars, NEW t \in Turn, NEW p \in Path
             PROVE  \/ open'[t][p] = open[t][p]
                    \/ Track(t, p)
                    \/ (SaveEdit(p) \/ EditFails(p)) /\ edit[p].turn = t
                    \/ Recover(t)
  OBVIOUS
<1>0. open \in [Turn -> [Path -> RecordType]]
  BY DEF Typed, JournalTyped
<1>1. ASSUME NEW u \in Turn, NEW q \in Path, Track(u, q)
      PROVE  open'[t][p] = open[t][p] \/ Track(t, p)
  BY <1>0, <1>1 DEF Track
<1>2. ASSUME NEW q \in Path, SaveEdit(q) \/ EditFails(q)
      PROVE  \/ open'[t][p] = open[t][p]
             \/ (SaveEdit(p) \/ EditFails(p)) /\ edit[p].turn = t
  <2>1. open' = [open EXCEPT ![edit[q].turn][q] = NoRecord]
    BY <1>2 DEF SaveEdit, EditFails
  <2>2. QED
    BY <1>0, <1>2, <2>1
<1>3. ASSUME NEW u \in Turn, Recover(u)
      PROVE  open'[t][p] = open[t][p] \/ Recover(t)
  BY <1>0, <1>3 DEF Recover
<1>4. CASE UNCHANGED open
  BY <1>4
<1>5. QED
  BY <1>1, <1>2, <1>3, <1>4 DEF WriteEdit, ApplyFile, Outside, BeginTurn, Advance, BeginCommand,
     FinishCommand, FinishTurn, Plan, Preview, UndoPreview, BeginRestore, NeedsRecovery,
     CheckFile, ApplyFails, AdvanceFile, RecordFile, EndRestore, Crash, vars, Next, EditStep,
     TurnStep, RestoreStep

(* The first version of an entry is what the turn found. *)
LEMMA OriginLoggedStep == Typed /\ Origins /\ [Next]_vars => OriginLogged'
<1> SUFFICES ASSUME Typed, Origins, [Next]_vars, NEW t \in Turn, NEW p \in Path,
                    log'[t][p].made, ~log'[t][p].uncertain
             PROVE  log'[t][p].before.text = origin'[t][p]
  BY DEF OriginLogged
<1>0. OriginLogged /\ OriginOpen
  BY DEF Origins
<1>1. CASE log'[t][p] = log[t][p]
  <2>1. origin'[t][p] = origin[t][p]
    BY <1>1, OriginKept
  <2>2. QED
    BY <1>0, <1>1, <2>1 DEF OriginLogged
<1>2. CASE log'[t][p] = Spoilt
  BY <1>2 DEF Spoilt, NoEntry
<1>3. ASSUME NEW i \in Stamp, SaveEdit(p), edit[p].turn = t,
             log'[t][p] = Merged(log[t][p], Entry(p, i), open[t][p].rev)
      PROVE  log'[t][p].before.text = origin'[t][p]
  <2>1. UNCHANGED origin /\ edit[p].at = "written"
    BY <1>3 DEF SaveEdit
  <2>2. Entry(p, i).before = open[t][p].before /\ Entry(p, i) \in EntryType
    BY <1>3, EntryTyped DEF Entry, NoEntry
  <2>3. /\ ~log[t][p].uncertain
        /\ log'[t][p].before = IF log[t][p].made THEN log[t][p].before ELSE open[t][p].before
    <3>1. Follows(log[t][p], Entry(p, i), open[t][p].rev)
      <4>1. log'[t][p] # Spoilt
        BY DEF Spoilt, NoEntry
      <4>2. QED
        BY <1>3, <4>1 DEF Merged
    <3>2. QED
      BY <1>3, <2>2, <3>1 DEF Merged, Follows, EntryType
  <2>4. QED
    BY <1>0, <1>3, <2>1, <2>3 DEF OriginLogged, OriginOpen
<1>4. QED
  BY <1>1, <1>2, <1>3, LogStep

(* So is that of the edit that begins an entry. *)
LEMMA OriginOpenStep == Typed /\ Origins /\ [Next]_vars => OriginOpen'
<1> SUFFICES ASSUME Typed, Origins, [Next]_vars, NEW p \in Path,
                    edit'[p].at \in {"tracked", "written"}, ~log'[edit'[p].turn][p].made
             PROVE  open'[edit'[p].turn][p].before.text = origin'[edit'[p].turn][p]
  BY DEF OriginOpen
<1>0. OriginOpen
  BY DEF Origins
<1>1. ASSUME NEW t \in Turn, Track(t, p), edit'[p].turn = t
      PROVE  open'[edit'[p].turn][p].before.text = origin'[edit'[p].turn][p]
  <2>1. ~log[t][p].made
    BY <1>1 DEF Track
  <2>2. QED
    BY <1>1, <2>1 DEF Track, Typed, JournalTyped
<1>2. CASE /\ edit[p].at \in {"tracked", "written"} /\ edit'[p].turn = edit[p].turn
  <2>1. PICK t \in Turn : t = edit[p].turn /\ phase[t] = "running"
    BY <1>2 DEF Typed, EditsTyped
  <2>2. ~\E u \in Turn : Track(u, p)
    BY <1>2 DEF Track
  <2>3. ~SaveEdit(p)
    <3>1. ASSUME SaveEdit(p) PROVE FALSE
      <4>1. PICK i \in Stamp : edit' = [edit EXCEPT ![p].at = "saved", ![p].id = i]
        BY <3>1, SavedEntry
      <4>2. edit'[p].at = "saved"
        BY <4>1 DEF Typed, EditsTyped, EditType
      <4>3. QED
        BY <4>2
    <3>2. QED
      BY <3>1
  <2>4. ~EditFails(p)
    BY DEF EditFails, Typed, EditsTyped, NoEdit
  <2>5. ~Recover(t)
    BY <2>1 DEF Recover
  <2>6. open'[t][p] = open[t][p] /\ origin'[t][p] = origin[t][p]
    BY <2>1, <2>2, <2>3, <2>4, <2>5, OpenKept, OriginKept
  <2>7. ~log[t][p].made
    <3>1. log'[t][p] = log[t][p] \/ log'[t][p] = Spoilt
      BY <2>3, LogStep
    <3>2. QED
      BY <1>2, <2>1, <3>1 DEF Spoilt, NoEntry
  <2>8. QED
    BY <1>0, <1>2, <2>1, <2>6, <2>7 DEF OriginOpen
<1>3. QED
  BY <1>1, <1>2, EditChange

(* What a plan brings back is what the turn found. *)
LEMMA OriginPlannedStep == Typed /\ Sound /\ Origins /\ [Next]_vars => OriginPlanned'
<1> SUFFICES ASSUME Typed, Sound, Origins, [Next]_vars, NEW o \in Op, NEW p \in op'[o].ready,
                    op'[o].of \in Turn
             PROVE  op'[o].file[p].target.text = origin'[op'[o].of][p]
  BY DEF OriginPlanned
<1>0. JobSound /\ PlansOfDone /\ OriginLogged /\ OriginPlanned
  BY DEF Sound, Origins
<1>1. CASE PlansKept
  <2>1. p \in op[o].ready /\ p \in Path /\ op'[o].of = op[o].of
        /\ op'[o].file[p].target = op[o].file[p].target
    BY <1>1 DEF PlansKept, Typed, RestoresTyped, OpType
  <2>2. origin'[op[o].of] = origin[op[o].of]
    BY <1>0, <2>1, DoneStays DEF PlansOfDone
  <2>3. QED
    BY <1>0, <2>1, <2>2 DEF OriginPlanned
<1>2. CASE Planning /\ UNCHANGED origin
  <2>1. PICK o2 \in Op, of \in Turn \union Op, ready \in SUBSET Path, target \in [Path -> Version] :
          PlanIs(o2, of, ready, target)
    BY <1>2, PlanMade
  <2>2. CASE o # o2
    BY <1>0, <1>2, <2>1, <2>2 DEF PlanIs, OriginPlanned
  <2>3. CASE o = o2
    <3>1. p \in ready /\ p \in Path /\ op'[o].of = of /\ op'[o].file[p].target = target[p]
      BY <2>1, <2>3 DEF PlanIs
    <3>2. of \in Turn /\ of \notin Op
      BY <3>1
    <3>3. Ready(of, p) /\ target[p] = log[of][p].before
      BY <2>1, <3>1, <3>2 DEF PlanIs, PlanFounded
    <3>4. QED
      BY <1>0, <1>2, <3>1, <3>2, <3>3 DEF Ready, OriginLogged
  <2>4. QED
    BY <2>2, <2>3
<1>3. QED
  BY <1>0, <1>1, <1>2, OpStep

-----------------------------------------------------------------------------
Inv == Typed /\ Sound /\ Origins

(* In the beginning there is nothing to tell. *)
LEMMA Initially == Init => Inv
<1> SUFFICES ASSUME Init PROVE Inv
  OBVIOUS
<1>1. disk \in [Path -> Version] /\ \A p \in Path : Actual(disk[p])
  <2>1. \A x \in Text : [text |-> x, file |-> 1] \in Version
    BY VersionFields
  <2>2. \A p \in Path : disk[p] = Absent \/ \E x \in Text : disk[p] = [text |-> x, file |-> 1]
    BY DEF Init
  <2>3. ASSUME NEW p \in Path PROVE disk[p] \in Version /\ Actual(disk[p])
    <3>1. CASE disk[p] = Absent
      BY <3>1, VersionFields DEF Actual, Absent
    <3>2. ASSUME NEW x \in Text, disk[p] = [text |-> x, file |-> 1]
          PROVE  disk[p] \in Version /\ Actual(disk[p])
      BY <2>1, <3>2 DEF Actual
    <3>3. QED
      BY <2>2, <3>1, <3>2
  <2>4. disk \in [Path -> Version]
    BY <2>3 DEF Init
  <2>5. QED
    BY <2>3, <2>4
<1>2. Typed
  BY <1>1, EmptyRecords DEF Init, Typed, FilesTyped, JournalTyped, EditsTyped, RestoresTyped, NoEdit
<1>3. AllActual
  BY <1>1 DEF Init, AllActual, Actual, NoEntry, NoRecord, NoOp, NoFile, NoJob, Absent
<1>4. LogSound /\ EditSound
  BY DEF Init, LogSound, EditSound, Still, NoEntry, NoEdit, Absent
<1>5. ResultSound /\ PlanSound /\ TargetGone /\ PlansOfDone /\ OriginPlanned
  BY DEF Init, ResultSound, PlanSound, TargetGone, PlansOfDone, OriginPlanned, NoOp
<1>6. JobSound
  BY DEF Init, JobSound, NoJob
<1>7. OriginLogged /\ OriginOpen
  BY DEF Init, OriginLogged, OriginOpen, NoEntry, NoEdit
<1>8. QED
  BY <1>2, <1>3, <1>4, <1>5, <1>6, <1>7 DEF Inv, Sound, Origins

(* Every step keeps all of it. *)
LEMMA Inductive == Inv /\ [Next]_vars => Inv'
<1> SUFFICES ASSUME Typed, Sound, Origins, [Next]_vars PROVE Inv'
  BY DEF Inv
<1>1. Typed'
  BY TypedStep DEF Sound
<1>2. Sound'
  BY ActualStep, LogSoundStep, ResultSoundStep, PlanSoundStep, TargetGoneStep, EditSoundStep,
     JobSoundStep, PlansOfDoneStep DEF Sound
<1>3. Origins'
  BY OriginLoggedStep, OriginOpenStep, OriginPlannedStep DEF Origins
<1>4. QED
  BY <1>1, <1>2, <1>3 DEF Inv

(* So all of it holds all the time. *)
LEMMA Always == Spec => []Inv
BY Initially, Inductive, PTL DEF Spec

(* Every part of the state has its type, and edits belong to running turns. *)
THEOREM CheckpointsAreTyped == Spec => []TypeOK
<1>1. Inv => TypeOK
  <2> SUFFICES ASSUME Typed PROVE TypeOK
    BY DEF Inv
  <2>1. disk \in [Path -> Version] /\ head \in [Path -> Stamp \union {None}]
        /\ by \in [Path -> Turn \union Op \union {Other}] /\ mishaps \in 0 .. MaxMishap
    BY DEF Typed, FilesTyped
  <2>2. /\ phase \in [Turn -> {"new", "running", "lost", "done"}]
        /\ log \in [Turn -> [Path -> EntryType]]
        /\ open \in [Turn -> [Path -> RecordType]]
        /\ base \in [Turn -> BaseType]
        /\ origin \in [Turn -> [Path -> Text \union {NoText}]]
        /\ clean \in [Turn -> [Path -> BOOLEAN]]
    BY DEF Typed, JournalTyped
  <2>3. /\ edit \in [Path -> EditType]
        /\ \A p \in Path : edit[p].at # "idle" =>
             edit[p].turn \in Turn /\ phase[edit[p].turn] = "running"
    BY DEF Typed, EditsTyped
  <2>4. op \in [Op -> OpType]
    BY DEF Typed, RestoresTyped
  <2>5. /\ job.op \in Op \union {Other} /\ job.path \in Path \union {Other}
        /\ job.at \in {"idle", "next", "checked", "applied", "advanced"}
        /\ job.todo \subseteq Path /\ job.result \in Version
    BY DEF Typed, RestoresTyped, JobType
  <2>6. QED
    BY <2>1, <2>2, <2>3, <2>4, <2>5 DEF TypeOK, RecordType, BaseType, OpType, EditType
<1>2. QED
  BY <1>1, Always, PTL

(* A restore replaces only what the turn itself left in the file, and an   *)
(* undo only what its restore left there, whatever users, other agents and *)
(* crashes did since the preview or the last look (preview and             *)
(* restoreUnlocked of WorkspaceCheckpoints.ts).                            *)
THEOREM OwnWorkOnly == Spec => []OnlyOwnWorkUndone
<1>1. Inv => OnlyOwnWorkUndone
  <2> SUFFICES ASSUME Typed, Sound, job.at = "checked", disk[job.path].text # NoText
               PROVE  \/ by[job.path] = op[job.op].of
                      \/ /\ op[job.op].of \in Turn
                         /\ log[op[job.op].of][job.path].after =
                              [text |-> disk[job.path].text, file |-> None]
    BY DEF Inv, OnlyOwnWorkUndone
  <2>0. AllActual /\ PlanSound /\ JobSound
    BY DEF Sound
  <2>1. PICK o \in Op, p \in Path : /\ o = job.op /\ p = job.path /\ p \in op[o].ready
                                    /\ SameOnDisk(disk[p], op[o].file[p].expected)
    BY <2>0, JobPath DEF JobSound
  <2>2. Actual(op[o].file[p].expected)
    BY <2>0 DEF AllActual
  <2>3. Still(p, op[o].file[p].expected)
    BY <2>1, <2>2 DEF SameOnDisk, Actual, Still
  <2>4. QED
    BY <2>0, <2>1, <2>3 DEF PlanSound, TextOnly, Still
<1>2. QED
  BY <1>1, Always, PTL

(* What a restore puts back is what the turn found when it first touched   *)
(* the file, however many edits of its own the turn chained                *)
(* (mergeTrackedEdit of WorkspaceCheckpoints.ts).                          *)
THEOREM OriginComesBack == Spec => []RestoresOrigin
<1>1. Inv => RestoresOrigin
  BY DEF Inv, Sound, Origins, JobSound, OriginPlanned, RestoresOrigin
<1>2. QED
  BY <1>1, Always, PTL

-----------------------------------------------------------------------------
(* What can be undone.  The second invariant, of what is not written by    *)
(* others: only the file a restore is at has been announced; a restore or  *)
(* an edit under way and the files it wrote have nobody else's hands on    *)
(* them but those who never ask; what an agent wrote is on disk as it was  *)
(* recorded, at the revision recorded.                                     *)
PendingNow ==
    /\ \A o \in Op : op[o].status = "planned" => op[o].pending = {}
    /\ job.at # "idle" => op[job.op].status = "applying"
    /\ job.at = "next" => op[job.op].pending = {}
    /\ job.at \in {"checked", "applied", "advanced"} => op[job.op].pending = {job.path}

ResultNow == job.at \in {"applied", "advanced"} =>
    /\ by[job.path] \in {job.op, Other}
    /\ by[job.path] = job.op => disk[job.path] = job.result

WritersApart == \A p \in Path :
    edit[p].at \in {"written", "saved"} => by[p] \in {edit[p].turn, Other}

CommandAlone == \A t \in Turn :
    /\ phase[t] = "new" => ~base[t].on
    /\ phase[t] = "running" /\ base[t].on =>
         /\ job.at = "idle"
         /\ \A p \in Path : edit[p].at = "idle" /\ (by[p] # Other => disk[p] = base[t].disk[p])

RestoreKept == \A o \in Op, p \in Path : by[p] = o /\ p \notin op[o].pending =>
    p \in op[o].applied /\ disk[p] = op[o].file[p].result /\ op[o].file[p].resultRev = head[p]

LogFits(t, p) ==
    /\ log[t][p].made /\ log[t][p].after = disk[p]
    /\ log[t][p].rev = IF edit[p].at = "saved" THEN edit[p].id ELSE head[p]
CleanKept == \A t \in Turn, p \in Path : clean[t][p] =>
    /\ ~log[t][p].uncertain /\ phase[t] # "lost"
    /\ edit[p].at \in {"tracked", "written"} /\ edit[p].turn = t /\ log[t][p].made =>
         log[t][p].after = open[t][p].before /\ log[t][p].rev = open[t][p].rev
    /\ by[p] = t /\ edit[p].at = "written" => disk[p].text = edit[p].text
    /\ by[p] = t /\ edit[p].at # "written" => LogFits(t, p)

Kept == PendingNow /\ ResultNow /\ WritersApart /\ CommandAlone /\ RestoreKept /\ CleanKept

(* Who writes a file, and when. *)
LEMMA WriterStep ==
    Typed /\ JobSound /\ [Next]_vars => \A p \in Path :
      \/ disk'[p] = disk[p] /\ by'[p] = by[p]
      \/ \E x \in Text : WriteEdit(p, x) /\ disk'[p].text = x /\ by'[p] = edit[p].turn
      \/ ApplyFile /\ p = job.path /\ by'[p] = job.op
      \/ \E x \in Text \union {NoText} :
           /\ Outside(p, x) /\ disk'[p].text = x
           /\ \/ by'[p] = Other
              \/ edit[p].at = "written" /\ edit[p].text = x /\ by'[p] = edit[p].turn
<1> SUFFICES ASSUME Typed, JobSound, [Next]_vars, NEW p \in Path
             PROVE  \/ disk'[p] = disk[p] /\ by'[p] = by[p]
                    \/ \E x \in Text : WriteEdit(p, x) /\ disk'[p].text = x /\ by'[p] = edit[p].turn
                    \/ ApplyFile /\ p = job.path /\ by'[p] = job.op
                    \/ \E x \in Text \union {NoText} :
                         /\ Outside(p, x) /\ disk'[p].text = x
                         /\ \/ by'[p] = Other
                            \/ edit[p].at = "written" /\ edit[p].text = x /\ by'[p] = edit[p].turn
  OBVIOUS
<1>1. CASE UNCHANGED <<disk, by>>
  BY <1>1
<1>2. CASE OnDisk
  <2>1. PICK q \in Path, x \in Text \union {NoText} :
          /\ Written(q, x) /\ \A r \in Path \ {q} : by'[r] = by[r]
          /\ \/ x \in Text /\ WriteEdit(q, x)
             \/ ApplyFile /\ q = job.path
             \/ Outside(q, x)
    BY <1>2, OnDiskAt
  <2>2. disk'[q].text = x /\ \A r \in Path \ {q} : disk'[r] = disk[r]
    BY <2>1, WriteIsFresh DEF Typed, FilesTyped
  <2>3. by \in [Path -> Turn \union Op \union {Other}]
    BY DEF Typed, FilesTyped
  <2>4. CASE x \in Text /\ WriteEdit(q, x)
    BY <2>1, <2>2, <2>3, <2>4 DEF WriteEdit
  <2>5. CASE ApplyFile /\ q = job.path
    BY <2>1, <2>2, <2>3, <2>5 DEF ApplyFile
  <2>6. CASE Outside(q, x)
    <3>1. \/ by'[q] = Other
          \/ edit[q].at = "written" /\ edit[q].text = x /\ by'[q] = edit[q].turn
      BY <2>3, <2>6 DEF Outside
    <3>2. QED
      BY <2>1, <2>2, <2>6, <3>1
  <2>7. QED
    BY <2>1, <2>4, <2>5, <2>6
<1>3. QED
  BY <1>1, <1>2, DiskStep

(* Who moves the revision of a file on. *)
LEMMA HeadStep ==
    Typed /\ JobSound /\ [Next]_vars => \A p \in Path :
      \/ head'[p] = head[p]
      \/ Advance(p) /\ head'[p] = edit[p].id
      \/ \E t \in Turn : FinishCommand(t) /\ p \in Touched(t)
      \/ AdvanceFile /\ p = job.path
<1> SUFFICES ASSUME Typed, JobSound, [Next]_vars, NEW p \in Path
             PROVE  \/ head'[p] = head[p]
                    \/ Advance(p) /\ head'[p] = edit[p].id
                    \/ \E t \in Turn : FinishCommand(t) /\ p \in Touched(t)
                    \/ AdvanceFile /\ p = job.path
  OBVIOUS
<1>0. head \in [Path -> Stamp \union {None}]
  BY DEF Typed, FilesTyped
<1>1. ASSUME NEW q \in Path, Advance(q)
      PROVE  head'[p] = head[p] \/ (Advance(p) /\ head'[p] = edit[p].id)
  BY <1>0, <1>1 DEF Advance
<1>2. ASSUME NEW t \in Turn, FinishCommand(t)
      PROVE  head'[p] = head[p] \/ p \in Touched(t)
  BY <1>0, <1>2 DEF FinishCommand
<1>3. ASSUME AdvanceFile
      PROVE  head'[p] = head[p] \/ p = job.path
  BY <1>0, <1>3 DEF AdvanceFile
<1>4. CASE UNCHANGED head
  BY <1>4
<1>5. QED
  BY <1>1, <1>2, <1>3, <1>4 DEF WriteEdit, ApplyFile, Outside, BeginTurn, Track, SaveEdit,
     EditFails, BeginCommand, FinishTurn, Recover, Plan, Preview, UndoPreview, BeginRestore,
     NeedsRecovery, CheckFile, ApplyFails, RecordFile, EndRestore, Crash, vars, Next, EditStep,
     TurnStep, RestoreStep

(* What becomes of the record of a restore. *)
LEMMA RecordStep ==
    Typed /\ JobSound /\ [Next]_vars => \A o \in Op :
      \/ /\ op'[o].pending = op[o].pending /\ op'[o].applied = op[o].applied
         /\ op'[o].file = op[o].file
      \/ /\ job.at = "next" /\ o = job.op
         /\ op'[o].applied = op[o].applied /\ op'[o].file = op[o].file
      \/ RecordFile /\ o = job.op
      \/ op[o] = NoOp
<1> SUFFICES ASSUME Typed, JobSound, [Next]_vars, NEW o \in Op
             PROVE  \/ /\ op'[o].pending = op[o].pending /\ op'[o].applied = op[o].applied
                       /\ op'[o].file = op[o].file
                    \/ /\ job.at = "next" /\ o = job.op
                       /\ op'[o].applied = op[o].applied /\ op'[o].file = op[o].file
                    \/ RecordFile /\ o = job.op
                    \/ op[o] = NoOp
  OBVIOUS
<1>0. op \in [Op -> OpType]
  BY DEF Typed, RestoresTyped
<1>1. ASSUME NEW u \in Op, NEW chosen \in SUBSET Path, BeginRestore(u, chosen)
      PROVE  /\ op'[o].pending = op[o].pending /\ op'[o].applied = op[o].applied
             /\ op'[o].file = op[o].file
  BY <1>0, <1>1 DEF BeginRestore, OpType
<1>2. ASSUME NeedsRecovery \/ EndRestore
      PROVE  /\ op'[o].pending = op[o].pending /\ op'[o].applied = op[o].applied
             /\ op'[o].file = op[o].file
  BY <1>0, <1>2 DEF NeedsRecovery, EndRestore, OpType
<1>3. ASSUME NEW p \in Path, CheckFile(p), ~NeedsRecovery
      PROVE  /\ o # job.op => op'[o] = op[o]
             /\ op'[o].applied = op[o].applied /\ op'[o].file = op[o].file /\ job.at = "next"
  <2>1. op' = [op EXCEPT ![job.op].pending = {p}] /\ job.at = "next"
    BY <1>3 DEF CheckFile
  <2>2. QED
    BY <1>0, <2>1 DEF OpType
<1>4. ASSUME RecordFile PROVE o # job.op => op'[o] = op[o]
  BY <1>4, RecordedFile
<1>5. ASSUME Planning PROVE op'[o] = op[o] \/ op[o] = NoOp
  BY <1>5, PlanMade DEF PlanIs
<1>6. CASE UNCHANGED op
  BY <1>6
<1>7. QED
  BY <1>1, <1>2, <1>3, <1>4, <1>5, <1>6 DEF Planning, BeginTurn, Track, WriteEdit, SaveEdit,
     Advance, EditFails, BeginCommand, FinishCommand, FinishTurn, Recover, CheckFile, ApplyFile,
     ApplyFails, AdvanceFile, Outside, Crash, vars, Next, EditStep, TurnStep, RestoreStep

(* Only the file that a restore is at has been announced. *)
LEMMA PendingNowStep == Typed /\ Sound /\ PendingNow /\ [Next]_vars => PendingNow'
<1> SUFFICES ASSUME Typed, Sound, PendingNow, [Next]_vars PROVE PendingNow'
  OBVIOUS
<1>0. JobSound /\ op \in [Op -> OpType] /\ job \in JobType
  BY DEF Sound, Typed, RestoresTyped
<1>1. ASSUME NEW o \in Op, NEW chosen \in SUBSET Path, BeginRestore(o, chosen) PROVE PendingNow'
  <2>1. /\ op'[o].status = "applying" /\ op'[o].pending = op[o].pending /\ op[o].pending = {}
        /\ \A u \in Op \ {o} : op'[u] = op[u]
    BY <1>0, <1>1 DEF BeginRestore, OpType, PendingNow
  <2>2. job'.op = o /\ job'.at = "next"
    BY <1>1 DEF BeginRestore, NoJob
  <2>3. QED
    BY <2>1, <2>2 DEF PendingNow
<1>2. ASSUME NeedsRecovery \/ EndRestore, job.at # "idle" PROVE PendingNow'
  <2>1. job'.at = "idle"
    BY <1>2 DEF NeedsRecovery, EndRestore, NoJob
  <2>2. \A o \in Op : op'[o].status = "planned" => op'[o] = op[o]
    BY <1>0, <1>2 DEF NeedsRecovery, EndRestore, OpType
  <2>3. QED
    BY <2>1, <2>2 DEF PendingNow
<1>3. ASSUME NEW p \in Path, CheckFile(p), ~NeedsRecovery PROVE PendingNow'
  <2>1. /\ job.op \in Op /\ op[job.op].status = "applying"
        /\ op' = [op EXCEPT ![job.op].pending = {p}]
        /\ job' = [job EXCEPT !.at = "checked", !.path = p, !.todo = @ \ {p}]
    BY <1>0, <1>3 DEF CheckFile, JobSound, PendingNow
  <2>2. /\ op'[job.op].pending = {p} /\ op'[job.op].status = "applying"
        /\ \A u \in Op \ {job.op} : op'[u] = op[u]
    BY <1>0, <2>1 DEF OpType
  <2>3. job'.op = job.op /\ job'.at = "checked" /\ job'.path = p
    BY <1>0, <2>1 DEF JobType
  <2>4. QED
    BY <2>1, <2>2, <2>3 DEF PendingNow
<1>4. ASSUME ApplyFile \/ AdvanceFile PROVE PendingNow'
  <2>1. /\ UNCHANGED op /\ job'.op = job.op /\ job'.path = job.path
        /\ job.at \in {"checked", "applied"} /\ job'.at \in {"applied", "advanced"}
    BY <1>0, <1>4 DEF ApplyFile, AdvanceFile, JobType
  <2>2. QED
    BY <2>1 DEF PendingNow
<1>5. ASSUME RecordFile PROVE PendingNow'
  <2>1. job'.op = job.op /\ job'.at = "next" /\ job.at = "advanced" /\ job.op \in Op
    BY <1>0, <1>5 DEF RecordFile, NoJob, JobSound
  <2>2. /\ op'[job.op].pending = {} /\ op'[job.op].status = op[job.op].status
        /\ \A u \in Op \ {job.op} : op'[u] = op[u]
    BY <1>0, <1>5, RecordedFile
  <2>3. QED
    BY <2>1, <2>2 DEF PendingNow
<1>6. ASSUME Planning PROVE PendingNow'
  <2>1. PICK o \in Op, of \in Turn \union Op, ready \in SUBSET Path, target \in [Path -> Version] :
          PlanIs(o, of, ready, target)
    BY <1>6, PlanMade
  <2>2. job'.at = "idle"
    BY <1>6, <2>1 DEF Planning, Preview, UndoPreview, Plan, PlanIs
  <2>3. \A u \in Op : op'[u] = op[u] \/ op'[u].pending = {}
    BY <2>1 DEF PlanIs
  <2>4. QED
    BY <2>2, <2>3 DEF PendingNow
<1>7. ASSUME Crash PROVE PendingNow'
  BY <1>7 DEF Crash, NoJob, PendingNow
<1>8. CASE UNCHANGED <<op, job>>
  BY <1>8 DEF PendingNow
<1> HIDE DEF PendingNow
<1>9. QED
  BY <1>1, <1>2, <1>3, <1>4, <1>5, <1>6, <1>7, <1>8 DEF Planning, BeginTurn, Track, WriteEdit,
     SaveEdit, Advance, EditFails, BeginCommand, FinishCommand, FinishTurn, Recover, CheckFile,
     ApplyFails, EndRestore, Outside, vars, Next, EditStep, TurnStep, RestoreStep

(* The file a restore is at is as the restore left it, or somebody's. *)
LEMMA ResultNowStep == Typed /\ JobSound /\ ResultNow /\ [Next]_vars => ResultNow'
<1> SUFFICES ASSUME Typed, JobSound, ResultNow, [Next]_vars, job'.at \in {"applied", "advanced"}
             PROVE  /\ by'[job'.path] \in {job'.op, Other}
                    /\ by'[job'.path] = job'.op => disk'[job'.path] = job'.result
  BY DEF ResultNow
<1>1. CASE UNCHANGED job
  <2>1. /\ job.path \in Path /\ job.op \in Op
        /\ \A p \in Path : edit[p].at = "idle"
    BY <1>1, JobPath DEF JobSound
  <2>2. \/ disk'[job.path] = disk[job.path] /\ by'[job.path] = by[job.path]
        \/ by'[job.path] = Other
    BY <1>1, <2>1, WriterStep DEF WriteEdit, ApplyFile
  <2>3. QED
    BY <1>1, <2>1, <2>2 DEF ResultNow
<1>2. CASE ApplyFile
  <2>1. job'.op = job.op /\ job'.path = job.path /\ by'[job.path] = job.op
    BY <1>2, JobChanges DEF JobChange, ApplyFile
  <2>2. job'.result = disk'[job.path]
    BY <1>2 DEF ApplyFile, Typed, RestoresTyped, JobType
  <2>3. QED
    BY <2>1, <2>2
<1>3. CASE /\ job.at = "applied" /\ UNCHANGED <<disk, by>>
           /\ job'.op = job.op /\ job'.path = job.path /\ job'.result = job.result
  BY <1>3 DEF ResultNow
<1>4. QED
  BY <1>1, <1>2, <1>3, JobChanges DEF JobChange

(* While a tool has a file in hand, no other agent writes it. *)
LEMMA WritersApartStep == Typed /\ JobSound /\ WritersApart /\ [Next]_vars => WritersApart'
<1> SUFFICES ASSUME Typed, JobSound, WritersApart, [Next]_vars, NEW p \in Path,
                    edit'[p].at \in {"written", "saved"}
             PROVE  by'[p] \in {edit'[p].turn, Other}
  BY DEF WritersApart
<1>1. CASE \E x \in Text : WriteEdit(p, x)
  BY <1>1 DEF WriteEdit, Typed, FilesTyped, EditsTyped, EditType
<1>2. CASE edit'[p] = edit[p] /\ ~\E x \in Text : WriteEdit(p, x)
  <2>1. ~ApplyFile
    BY <1>2 DEF ApplyFile, JobSound
  <2>2. QED
    BY <1>2, <2>1, WriterStep DEF WritersApart
<1>3. CASE SaveEdit(p) /\ edit[p].at = "written" /\ edit'[p].turn = edit[p].turn
  BY <1>3 DEF SaveEdit, WritersApart
<1>4. QED
  BY <1>1, <1>2, <1>3, EditChange

(* Where the capture of a command comes from. *)
LEMMA BaseStep ==
    Typed /\ [Next]_vars => \A t \in Turn :
      \/ base'[t] = base[t] /\ (phase'[t] # phase[t] =>
           \/ phase[t] = "new" /\ phase'[t] = "running"
           \/ phase'[t] \in {"lost", "done"})
      \/ BeginCommand(t) /\ base'[t] = [on |-> TRUE, disk |-> disk]
      \/ ~base'[t].on
<1> SUFFICES ASSUME Typed, [Next]_vars, NEW t \in Turn
             PROVE  \/ base'[t] = base[t] /\ (phase'[t] # phase[t] =>
                         \/ phase[t] = "new" /\ phase'[t] = "running"
                         \/ phase'[t] \in {"lost", "done"})
                    \/ BeginCommand(t) /\ base'[t] = [on |-> TRUE, disk |-> disk]
                    \/ ~base'[t].on
  OBVIOUS
<1>0. phase \in [Turn -> {"new", "running", "lost", "done"}] /\ base \in [Turn -> BaseType]
  BY DEF Typed, JournalTyped
<1>1. ASSUME NEW u \in Turn, BeginTurn(u)
      PROVE  base' = base /\ (phase'[t] # phase[t] => phase[t] = "new" /\ phase'[t] = "running")
  BY <1>0, <1>1 DEF BeginTurn
<1>2. ASSUME NEW u \in Turn, BeginCommand(u)
      PROVE  \/ base'[t] = base[t] /\ phase' = phase
             \/ BeginCommand(t) /\ base'[t] = [on |-> TRUE, disk |-> disk]
  BY <1>0, <1>2 DEF BeginCommand
<1>3. ASSUME NEW u \in Turn, FinishCommand(u)
      PROVE  (base'[t] = base[t] /\ phase' = phase) \/ ~base'[t].on
  BY <1>0, <1>3 DEF FinishCommand, NoBase
<1>4. ASSUME NEW u \in Turn, FinishTurn(u)
      PROVE  base' = base /\ (phase'[t] # phase[t] => phase'[t] = "done")
  BY <1>0, <1>4 DEF FinishTurn
<1>5. ASSUME NEW u \in Turn, Recover(u)
      PROVE  (base'[t] = base[t] /\ phase'[t] = phase[t]) \/ ~base'[t].on
  BY <1>0, <1>5 DEF Recover, NoBase
<1>6. ASSUME Crash PROVE base' = base /\ (phase'[t] # phase[t] => phase'[t] = "lost")
  BY <1>0, <1>6 DEF Crash
<1>7. CASE UNCHANGED <<phase, base>>
  BY <1>7
<1>8. QED
  BY <1>1, <1>2, <1>3, <1>4, <1>5, <1>6, <1>7 DEF WriteEdit, ApplyFile, Outside, Track, SaveEdit,
     Advance, EditFails, Plan, Preview, UndoPreview, BeginRestore, NeedsRecovery, CheckFile,
     ApplyFails, AdvanceFile, RecordFile, EndRestore, vars, Next, EditStep, TurnStep, RestoreStep

(* While a command runs no agent writes a file. *)
LEMMA CommandAloneStep == Typed /\ JobSound /\ CommandAlone /\ [Next]_vars => CommandAlone'
<1> SUFFICES ASSUME Typed, JobSound, CommandAlone, [Next]_vars, NEW t \in Turn
             PROVE  /\ phase'[t] = "new" => ~base'[t].on
                    /\ phase'[t] = "running" /\ base'[t].on =>
                         /\ job'.at = "idle"
                         /\ \A p \in Path : /\ edit'[p].at = "idle"
                                            /\ by'[p] # Other => disk'[p] = base'[t].disk[p]
  BY DEF CommandAlone
<1>1. ASSUME base'[t].on, ~BeginCommand(t)
      PROVE  /\ base'[t] = base[t] /\ phase'[t] # "new"
             /\ phase'[t] = "running" => phase[t] = "running"
  <2>1. base'[t] = base[t] /\ (phase'[t] # phase[t] =>
           \/ phase[t] = "new" /\ phase'[t] = "running"
           \/ phase'[t] \in {"lost", "done"})
    BY <1>1, BaseStep
  <2>2. phase[t] # "new"
    BY <1>1, <2>1 DEF CommandAlone
  <2>3. QED
    BY <2>1, <2>2
<1>2. CASE BeginCommand(t)
  <2>1. /\ phase[t] = "running" /\ Exclusive /\ UNCHANGED <<disk, by, edit, job, phase>>
        /\ base'[t].disk = disk
    BY <1>2 DEF BeginCommand, Typed, JournalTyped
  <2>2. QED
    BY <2>1 DEF Exclusive, Undisturbed
<1>3. ASSUME phase'[t] = "running", base'[t].on, ~BeginCommand(t)
      PROVE  /\ job'.at = "idle"
             /\ \A p \in Path : /\ edit'[p].at = "idle"
                                /\ by'[p] # Other => disk'[p] = base'[t].disk[p]
  <2>1. phase[t] = "running" /\ base[t].on /\ base'[t] = base[t]
    BY <1>1, <1>3
  <2>2. /\ job.at = "idle"
        /\ \A p \in Path : edit[p].at = "idle" /\ (by[p] # Other => disk[p] = base[t].disk[p])
    BY <2>1 DEF CommandAlone
  <2>3. Commanding
    BY <2>1 DEF Commanding
  <2>4. job'.at = "idle"
    BY <2>2, <2>3, JobChanges DEF JobChange, Exclusive, Undisturbed
  <2>5. ASSUME NEW p \in Path PROVE edit'[p].at = "idle"
    <3>1. \A u \in Turn : ~Track(u, p)
      BY <2>3 DEF Track, Undisturbed
    <3>2. QED
      BY <2>2, <3>1, EditChange
  <2>6. ASSUME NEW p \in Path, by'[p] # Other PROVE disk'[p] = base'[t].disk[p]
    <3>1. ~ApplyFile /\ edit[p].at = "idle"
      BY <2>2 DEF ApplyFile
    <3>2. \A x \in Text : ~WriteEdit(p, x)
      BY <3>1 DEF WriteEdit
    <3>3. disk'[p] = disk[p] /\ by'[p] = by[p]
      BY <2>6, <3>1, <3>2, WriterStep
    <3>4. QED
      BY <2>1, <2>2, <2>6, <3>3
  <2>7. QED
    BY <2>4, <2>5, <2>6
<1>4. QED
  <2>1. CASE BeginCommand(t)
    <3>1. phase'[t] = "running"
      BY <2>1 DEF BeginCommand
    <3>2. QED
      BY <1>2, <2>1, <3>1
  <2>2. CASE ~BeginCommand(t)
    BY <1>1, <1>3, <2>2
  <2>3. QED
    BY <2>1, <2>2

(* The revision of a file that an agent wrote is moved on by that agent. *)
LEMMA RevisionStays ==
    ASSUME Typed, JobSound, Kept, [Next]_vars, NEW p \in Path, by[p] # Other,
           ~Advance(p), ~(AdvanceFile /\ p = job.path /\ by[p] = job.op)
    PROVE  head'[p] = head[p]
<1>1. ASSUME NEW t \in Turn, FinishCommand(t) PROVE p \notin Touched(t)
  <2>1. disk[p] = base[t].disk[p]
    BY <1>1 DEF FinishCommand, Kept, CommandAlone
  <2>2. disk[p].file = None \/ disk[p].file = disk[p].file
    OBVIOUS
  <2>3. QED
    BY <2>1, <2>2 DEF Touched, SameOnDisk
<1>2. ASSUME AdvanceFile, p = job.path PROVE FALSE
  BY <1>2 DEF AdvanceFile, Kept, ResultNow
<1>3. QED
  BY <1>1, <1>2, HeadStep

(* What a restore wrote is as it recorded it. *)
LEMMA RestoreKeptStep == Typed /\ Sound /\ Kept /\ [Next]_vars => RestoreKept'
<1> SUFFICES ASSUME Typed, Sound, Kept, [Next]_vars, NEW o \in Op, NEW p \in Path,
                    by'[p] = o, p \notin op'[o].pending
             PROVE  /\ p \in op'[o].applied /\ disk'[p] = op'[o].file[p].result
                    /\ op'[o].file[p].resultRev = head'[p]
  BY DEF RestoreKept
<1>0. JobSound /\ PendingNow /\ ResultNow /\ RestoreKept
  BY DEF Sound, Kept
<1>1. o \notin Turn /\ o # Other
  OBVIOUS
<1>2. disk'[p] = disk[p] /\ by[p] = o
  <2>1. ASSUME edit[p].at # "idle" PROVE by'[p] # edit[p].turn
    BY <1>1, <2>1 DEF Typed, EditsTyped
  <2>2. \A x \in Text : WriteEdit(p, x) => edit[p].at # "idle"
    BY DEF WriteEdit
  <2>3. ~(ApplyFile /\ p = job.path /\ by'[p] = job.op)
    BY <1>0 DEF ApplyFile, PendingNow
  <2>4. QED
    BY <1>0, <1>1, <2>1, <2>2, <2>3, WriterStep
<1>3. ASSUME p \notin op[o].pending
      PROVE  /\ p \in op[o].applied /\ disk[p] = op[o].file[p].result
             /\ op[o].file[p].resultRev = head[p] /\ head'[p] = head[p]
  <2>1. ~Advance(p)
    BY <1>1, <1>2 DEF Advance, Kept, WritersApart, Typed, EditsTyped
  <2>2. ~(AdvanceFile /\ p = job.path /\ by[p] = job.op)
    BY <1>0, <1>2, <1>3 DEF AdvanceFile, PendingNow
  <2>3. head'[p] = head[p]
    BY <1>0, <1>1, <1>2, <2>1, <2>2, RevisionStays
  <2>4. QED
    BY <1>0, <1>2, <1>3, <2>3 DEF RestoreKept
<1>4. CASE /\ op'[o].pending = op[o].pending /\ op'[o].applied = op[o].applied
           /\ op'[o].file = op[o].file
  BY <1>2, <1>3, <1>4
<1>5. CASE /\ job.at = "next" /\ o = job.op
           /\ op'[o].applied = op[o].applied /\ op'[o].file = op[o].file
  <2>1. p \notin op[o].pending
    BY <1>0, <1>5 DEF PendingNow
  <2>2. QED
    BY <1>2, <1>3, <1>5, <2>1
<1>6. CASE RecordFile /\ o = job.op
  <2>1. job.at = "advanced" /\ UNCHANGED head
    BY <1>6 DEF RecordFile
  <2>2. /\ op'[o].applied = op[o].applied \union {job.path}
        /\ op'[o].file[job.path].result = job.result
        /\ op'[o].file[job.path].resultRev = head[job.path]
        /\ p # job.path => /\ op'[o].file[p].result = op[o].file[p].result
                           /\ op'[o].file[p].resultRev = op[o].file[p].resultRev
    BY <1>0, <1>6, RecordedFile
  <2>3. CASE p = job.path
    BY <1>0, <1>2, <1>6, <2>1, <2>2, <2>3 DEF ResultNow
  <2>4. CASE p # job.path
    <3>1. p \notin op[o].pending
      BY <1>0, <1>6, <2>1, <2>4 DEF PendingNow
    <3>2. QED
      BY <1>2, <1>3, <2>2, <2>4, <3>1
  <2>5. QED
    BY <2>3, <2>4
<1>7. CASE op[o] = NoOp
  BY <1>3, <1>7 DEF NoOp
<1>8. QED
  BY <1>0, <1>4, <1>5, <1>6, <1>7, RecordStep

(* A turn's clean record of a file is changed by its own edits alone. *)
LEMMA CleanStep ==
    ASSUME Typed, [Next]_vars, NEW t \in Turn, NEW p \in Path, clean'[t][p]
    PROVE  /\ clean[t][p] /\ (phase'[t] = "lost" => phase[t] = "lost")
           /\ \/ log'[t][p] = log[t][p]
              \/ SaveEdit(p) /\ edit[p].turn = t
              \/ phase[t] = "lost"
           /\ ~(EditFails(p) /\ edit[p].turn = t)
           /\ ~(Crash /\ phase[t] = "running")
           /\ Track(t, p) /\ log[t][p].made => by[p] = t
<1>0. /\ clean \in [Turn -> [Path -> BOOLEAN]] /\ phase \in [Turn -> {"new", "running", "lost", "done"}]
      /\ log \in [Turn -> [Path -> EntryType]]
  BY DEF Typed, JournalTyped
<1> DEFINE Goal == /\ clean[t][p] /\ (phase'[t] = "lost" => phase[t] = "lost")
                   /\ \/ log'[t][p] = log[t][p]
                      \/ SaveEdit(p) /\ edit[p].turn = t
                      \/ phase[t] = "lost"
<1>1. ASSUME NEW u \in Turn, NEW q \in Path, Track(u, q)
      PROVE  Goal /\ (u = t /\ q = p /\ log[t][p].made => by[p] = t)
  <2>1. UNCHANGED <<phase, log>>
    BY <1>1 DEF Track
  <2>2. CASE log[u][q].made
    <3>1. PICK c \in BOOLEAN : /\ clean' = [clean EXCEPT ![u][q] = c]
                               /\ c <=> (clean[u][q] /\ by[q] = u)
      BY <1>0, <1>1, <2>2 DEF Track
    <3>2. clean[t][p] /\ (u = t /\ q = p => by[p] = t)
      BY <1>0, <3>1
    <3>3. QED
      BY <2>1, <3>2
  <2>3. CASE ~log[u][q].made
    <3>1. UNCHANGED clean
      BY <1>1, <2>3 DEF Track
    <3>2. QED
      BY <2>1, <2>3, <3>1
  <2>4. QED
    BY <2>2, <2>3
<1>2. ASSUME NEW q \in Path, EditFails(q) PROVE Goal /\ ~(q = p /\ edit[p].turn = t)
  <2>1. PICK u \in Turn : /\ u = edit[q].turn /\ clean' = [clean EXCEPT ![u][q] = FALSE]
                          /\ log' = [log EXCEPT ![u][q] = Spoilt] /\ UNCHANGED phase
    BY <1>2 DEF EditFails, Typed, EditsTyped
  <2>2. clean[t][p] /\ ~(q = p /\ u = t)
    BY <1>0, <2>1
  <2>3. log'[t][p] = log[t][p]
    BY <1>0, <2>1, <2>2
  <2>4. QED
    BY <2>1, <2>2, <2>3
<1>3. ASSUME NEW q \in Path, SaveEdit(q) PROVE Goal
  <2>1. UNCHANGED <<clean, phase>>
    BY <1>3 DEF SaveEdit
  <2>2. (q = p /\ edit[q].turn = t) \/ log'[t][p] = log[t][p]
    BY <1>0, <1>3 DEF SaveEdit
  <2>3. QED
    BY <1>3, <2>1, <2>2
<1>4. ASSUME NEW u \in Turn, FinishCommand(u) PROVE Goal
  <2>1. /\ log' = [log EXCEPT ![u] = [q \in Path |-> IF q \in Rewritten(u) THEN Spoilt ELSE log[u][q]]]
        /\ clean' = [clean EXCEPT ![u] = [q \in Path |-> clean[u][q] /\ q \notin Rewritten(u)]]
        /\ UNCHANGED phase
    BY <1>4 DEF FinishCommand
  <2>2. clean[t][p] /\ log'[t][p] = log[t][p]
    BY <1>0, <2>1
  <2>3. QED
    BY <2>1, <2>2
<1>5. ASSUME NEW u \in Turn, Recover(u) PROVE Goal
  BY <1>0, <1>5 DEF Recover
<1>6. ASSUME NEW u \in Turn, BeginTurn(u) \/ FinishTurn(u) PROVE Goal
  BY <1>0, <1>6 DEF BeginTurn, FinishTurn
<1>7. ASSUME Crash PROVE Goal /\ phase[t] # "running"
  BY <1>0, <1>7 DEF Crash
<1>8. ASSUME UNCHANGED <<phase, log, clean>> PROVE Goal
  BY <1>8
<1>9. Goal
  <2> HIDE DEF Goal
  <2>1. QED
    BY <1>1, <1>2, <1>3, <1>4, <1>5, <1>6, <1>7, <1>8 DEF WriteEdit, ApplyFile, Outside, Advance,
       BeginCommand, Plan, Preview, UndoPreview, BeginRestore, NeedsRecovery, CheckFile,
       ApplyFails, AdvanceFile, RecordFile, EndRestore, vars, Next, EditStep, TurnStep, RestoreStep
<1>10. QED
  BY <1>1, <1>2, <1>7, <1>9

(* An edit that goes on from the turn's own last one is recorded as such. *)
LEMMA CleanEdit ==
    ASSUME Typed, NEW t \in Turn, NEW p \in Path, SaveEdit(p), edit[p].turn = t,
           ~log[t][p].uncertain,
           log[t][p].made => /\ log[t][p].after = open[t][p].before
                             /\ log[t][p].rev = open[t][p].rev
    PROVE  /\ ~log'[t][p].uncertain /\ log'[t][p].made /\ log'[t][p].after = Outcome(p)
           /\ log'[t][p].rev = edit'[p].id /\ edit'[p].at = "saved"
<1>1. PICK i \in Stamp :
        /\ log' = [log EXCEPT ![edit[p].turn][p] =
                     Merged(log[edit[p].turn][p], Entry(p, i), open[edit[p].turn][p].rev)]
        /\ edit' = [edit EXCEPT ![p].at = "saved", ![p].id = i]
  BY SavedEntry
<1>2. log'[t][p] = Merged(log[t][p], Entry(p, i), open[t][p].rev)
  BY <1>1 DEF Typed, JournalTyped
<1>3. edit'[p].at = "saved" /\ edit'[p].id = i
  BY <1>1 DEF Typed, EditsTyped, EditType
<1>4. /\ Entry(p, i) \in EntryType /\ Entry(p, i).before = open[t][p].before
      /\ Entry(p, i).made /\ ~Entry(p, i).uncertain
      /\ Entry(p, i).after = Outcome(p) /\ Entry(p, i).rev = i
  BY EntryTyped DEF Entry, NoEntry
<1>5. Follows(log[t][p], Entry(p, i), open[t][p].rev)
  BY <1>4 DEF Follows, SameOnDisk
<1>6. log'[t][p] = [Entry(p, i) EXCEPT !.before = IF log[t][p].made THEN log[t][p].before ELSE @]
  BY <1>2, <1>5 DEF Merged
<1>7. QED
  BY <1>3, <1>4, <1>6 DEF EntryType

(* What a turn wrote is as it recorded it. *)
LEMMA CleanKeptStep == Typed /\ Sound /\ Kept /\ [Next]_vars => CleanKept'
<1> SUFFICES ASSUME Typed, Sound, Kept, [Next]_vars, NEW t \in Turn, NEW p \in Path, clean'[t][p]
             PROVE  /\ ~log'[t][p].uncertain /\ phase'[t] # "lost"
                    /\ edit'[p].at \in {"tracked", "written"} /\ edit'[p].turn = t /\ log'[t][p].made =>
                         /\ log'[t][p].after = open'[t][p].before
                         /\ log'[t][p].rev = open'[t][p].rev
                    /\ by'[p] = t /\ edit'[p].at = "written" => disk'[p].text = edit'[p].text
                    /\ by'[p] = t /\ edit'[p].at # "written" =>
                         /\ log'[t][p].made /\ log'[t][p].after = disk'[p]
                         /\ log'[t][p].rev = IF edit'[p].at = "saved" THEN edit'[p].id ELSE head'[p]
  BY DEF CleanKept, LogFits
<1>0. JobSound /\ EditSound /\ WritersApart /\ CleanKept
  BY DEF Sound, Kept
<1>1. /\ ~log[t][p].uncertain /\ phase[t] # "lost" /\ phase'[t] # "lost"
      /\ edit[p].at \in {"tracked", "written"} /\ edit[p].turn = t /\ log[t][p].made =>
           log[t][p].after = open[t][p].before /\ log[t][p].rev = open[t][p].rev
      /\ by[p] = t /\ edit[p].at = "written" => disk[p].text = edit[p].text
      /\ by[p] = t /\ edit[p].at # "written" => LogFits(t, p)
      /\ log'[t][p] = log[t][p] \/ (SaveEdit(p) /\ edit[p].turn = t)
      /\ ~(EditFails(p) /\ edit[p].turn = t) /\ ~(Crash /\ phase[t] = "running")
      /\ Track(t, p) /\ log[t][p].made => by[p] = t
  BY <1>0, CleanStep DEF CleanKept
<1>2. ASSUME SaveEdit(p), edit[p].turn = t
      PROVE  /\ ~log'[t][p].uncertain /\ log'[t][p].made /\ log'[t][p].after = Outcome(p)
             /\ log'[t][p].rev = edit'[p].id /\ edit'[p].at = "saved"
             /\ edit[p].at = "written" /\ UNCHANGED <<disk, by>>
  <2>1. edit[p].at = "written" /\ UNCHANGED <<disk, by>>
    BY <1>2 DEF SaveEdit
  <2>2. QED
    BY <1>1, <1>2, <2>1, CleanEdit
<1>3. ~log'[t][p].uncertain
  BY <1>1, <1>2
<1>4. t # Other /\ t \notin Op
  OBVIOUS
<1>5. ASSUME edit'[p].at \in {"tracked", "written"}, edit'[p].turn = t, log'[t][p].made
      PROVE  log'[t][p].after = open'[t][p].before /\ log'[t][p].rev = open'[t][p].rev
  <2>1. log'[t][p] = log[t][p]
    BY <1>1, <1>2, <1>5
  <2>2. CASE edit[p].at \in {"tracked", "written"} /\ edit[p].turn = t
    <3>1. phase[t] = "running"
      BY <2>2 DEF Typed, EditsTyped
    <3>2. ~Track(t, p) /\ ~Recover(t)
      BY <2>2, <3>1 DEF Track, Recover
    <3>3. ~SaveEdit(p)
      BY <1>2, <1>5, <2>2
    <3>4. ~EditFails(p)
      BY <1>1, <2>2
    <3>5. open'[t][p] = open[t][p]
      BY <3>2, <3>3, <3>4, OpenKept
    <3>6. QED
      BY <1>1, <1>5, <2>1, <2>2, <3>5
  <2>3. CASE Track(t, p)
    <3>1. log[t][p].made /\ edit[p].at = "idle" /\ by[p] = t
      BY <1>1, <1>5, <2>1, <2>3 DEF Track
    <3>2. open'[t][p] = [made |-> TRUE, before |-> disk[p], rev |-> head[p]]
      BY <2>3 DEF Track, Typed, JournalTyped
    <3>3. QED
      BY <1>1, <2>1, <3>1, <3>2 DEF LogFits
  <2>4. QED
    BY <1>5, <2>2, <2>3, EditChange
<1>6. ASSUME by'[p] = t
      PROVE  \/ by[p] = t /\ disk'[p] = disk[p]
             \/ \E x \in Text : WriteEdit(p, x) /\ disk'[p].text = x
             \/ /\ edit[p].at = "written" /\ disk'[p].text = edit[p].text
                /\ edit' = edit
  <2>1. ~(ApplyFile /\ p = job.path /\ by'[p] = job.op)
    BY <1>0, <1>4, <1>6 DEF ApplyFile, JobSound
  <2>2. \A x \in Text \union {NoText} : Outside(p, x) => UNCHANGED edit
    BY DEF Outside
  <2>3. QED
    BY <1>0, <1>4, <1>6, <2>1, <2>2, WriterStep
<1>7. ASSUME NEW x \in Text, WriteEdit(p, x) PROVE edit'[p].at = "written" /\ edit'[p].text = x
  BY <1>7 DEF WriteEdit, Typed, EditsTyped, EditType
<1>8. ASSUME by'[p] = t, edit'[p].at = "written" PROVE disk'[p].text = edit'[p].text
  <2>1. CASE edit'[p] = edit[p]
    BY <1>1, <1>6, <1>7, <1>8, <2>1
  <2>2. CASE \E x \in Text : WriteEdit(p, x)
    <3>1. PICK x \in Text : WriteEdit(p, x)
      BY <2>2
    <3>2. disk'[p].text = x
      BY <3>1, WriteIsFresh DEF WriteEdit, Typed, FilesTyped
    <3>3. QED
      BY <1>7, <3>1, <3>2
  <2>3. QED
    BY <1>8, <2>1, <2>2, EditChange
<1>9. ASSUME by'[p] = t, edit'[p].at # "written"
      PROVE  /\ log'[t][p].made /\ log'[t][p].after = disk'[p]
             /\ log'[t][p].rev = IF edit'[p].at = "saved" THEN edit'[p].id ELSE head'[p]
  <2>1. by[p] = t /\ disk'[p] = disk[p]
    BY <1>6, <1>7, <1>9
  <2>2. CASE SaveEdit(p) /\ edit[p].turn = t
    <3>1. disk[p].text = edit[p].text /\ edit[p].at = "written"
      BY <1>1, <1>2, <2>1, <2>2
    <3>2. Outcome(p) = disk[p]
      <4>1. disk[p] \in Version
        BY DEF Typed, FilesTyped
      <4>2. QED
        BY <3>1, <4>1, VersionFields DEF Outcome
    <3>3. QED
      BY <1>2, <2>1, <2>2, <3>2
  <2>3. CASE Advance(p)
    <3>1. edit[p].at = "saved" /\ edit'[p].at = "idle" /\ head'[p] = edit[p].id
      BY <2>3 DEF Advance, NoEdit, Typed, EditsTyped, FilesTyped
    <3>2. LogFits(t, p)
      BY <1>1, <2>1, <3>1
    <3>3. log'[t][p] = log[t][p]
      BY <1>1, <1>2, <3>1
    <3>4. QED
      BY <2>1, <3>1, <3>2, <3>3 DEF LogFits
  <2>4. CASE ~(SaveEdit(p) /\ edit[p].turn = t) /\ ~Advance(p)
    <3>1. log'[t][p] = log[t][p]
      BY <1>1, <2>4
    <3>2. head'[p] = head[p]
      <4>1. ~(AdvanceFile /\ by[p] = job.op)
        BY <1>0, <1>4, <2>1 DEF AdvanceFile, JobSound
      <4>2. QED
        BY <1>0, <1>4, <2>1, <2>4, <4>1, RevisionStays
    <3>3. edit[p].at \in {"written", "saved"} => edit[p].turn = t
      BY <1>0, <1>4, <2>1 DEF WritersApart
    <3>4. \/ edit'[p] = edit[p]
          \/ edit[p].at \notin {"written", "saved"} /\ edit'[p].at # "saved"
      <4>1. CASE edit'[p].at = "idle" /\ (EditFails(p) \/ Crash)
        <5>1. edit[p].at \in {"written", "saved"} => edit[p].turn = t /\ phase[t] = "running"
          BY <3>3 DEF Typed, EditsTyped
        <5>2. QED
          BY <1>1, <4>1, <5>1
      <4>2. CASE \E u \in Turn : Track(u, p) /\ edit'[p].at = "tracked"
        BY <4>2 DEF Track
      <4>3. QED
        BY <1>9, <2>4, <3>3, <4>1, <4>2, EditChange
    <3>5. edit[p].at # "written" /\ LogFits(t, p)
      BY <1>1, <1>9, <2>1, <3>4
    <3>6. QED
      BY <2>1, <3>1, <3>2, <3>4, <3>5 DEF LogFits
  <2>5. QED
    BY <2>2, <2>3, <2>4
<1>10. QED
  BY <1>1, <1>3, <1>5, <1>8, <1>9

(* In the beginning nobody has written anything. *)
LEMMA KeptInitially == Init => Kept
<1> SUFFICES ASSUME Init PROVE Kept
  OBVIOUS
<1>1. PendingNow /\ ResultNow
  BY DEF Init, PendingNow, ResultNow, NoOp, NoJob
<1>2. WritersApart /\ CommandAlone
  BY DEF Init, WritersApart, CommandAlone, NoEdit, NoBase
<1>3. RestoreKept
  BY DEF Init, RestoreKept
<1>4. CleanKept
  BY DEF Init, CleanKept, NoEntry, NoEdit
<1>5. QED
  BY <1>1, <1>2, <1>3, <1>4 DEF Kept

(* The second invariant holds beside the first. *)
LEMMA AlwaysKept == Spec => [](Inv /\ Kept)
<1>1. Init => Inv /\ Kept
  BY Initially, KeptInitially
<1>2. Inv /\ Kept /\ [Next]_vars => Inv' /\ Kept'
  <2> SUFFICES ASSUME Inv, Kept, [Next]_vars PROVE Inv' /\ Kept'
    OBVIOUS
  <2>1. Typed /\ Sound /\ JobSound
    BY DEF Inv, Sound
  <2>2. PendingNow /\ ResultNow /\ WritersApart /\ CommandAlone
    BY DEF Kept
  <2>3. PendingNow' /\ ResultNow' /\ WritersApart' /\ CommandAlone'
    BY <2>1, <2>2, PendingNowStep, ResultNowStep, WritersApartStep, CommandAloneStep
  <2>4. RestoreKept' /\ CleanKept'
    BY <2>1, RestoreKeptStep, CleanKeptStep
  <2>5. QED
    BY <2>3, <2>4, Inductive DEF Kept
<1>3. QED
  BY <1>1, <1>2, PTL DEF Spec

(* A file that a restore replaced is in its record, also after a crash or  *)
(* a failure at the next file; as long as nobody writes it, it can be put  *)
(* back, but for the file a crash caught half recorded (restoreUnlocked    *)
(* and previewUndo of WorkspaceCheckpoints.ts).                            *)
THEOREM RestoresCanBeUndone == Spec => []RestoreUndoable
<1>1. Inv /\ Kept => RestoreUndoable
  BY DEF Kept, RestoreKept, RestoreUndoable, UndoReady, SameOnDisk
<1>2. QED
  BY <1>1, AlwaysKept, PTL

(* What a turn wrote and recorded in files that only it wrote can be       *)
(* undone: the edits, failures and commands of others elsewhere do not     *)
(* take the undo away (mergeTrackedEdit and preview of                     *)
(* WorkspaceCheckpoints.ts).                                               *)
THEOREM OwnWorkCanBeUndone == Spec => []OwnWorkUndoable
<1>1. Inv /\ Kept => OwnWorkUndoable
  <2> SUFFICES ASSUME Inv, Kept, NEW t \in Turn, NEW p \in Path,
                      phase[t] = "done", by[p] = t, clean[t][p], disk[p].text # origin[t][p]
               PROVE  Ready(t, p)
    BY DEF OwnWorkUndoable, Same
  <2>1. edit[p].at \notin {"written", "saved"}
    BY DEF Inv, Typed, EditsTyped, Kept, WritersApart
  <2>2. ~log[t][p].uncertain /\ LogFits(t, p)
    BY <2>1 DEF Kept, CleanKept
  <2>3. log[t][p].before.text = origin[t][p]
    BY <2>2 DEF Inv, Origins, OriginLogged, LogFits
  <2>4. QED
    BY <2>1, <2>2, <2>3 DEF Ready, LogFits, Same, Unchanged, SameOnDisk
<1>2. QED
  BY <1>1, AlwaysKept, PTL
=============================================================================
