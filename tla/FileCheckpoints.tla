--------------------------- MODULE FileCheckpoints ---------------------------
(***************************************************************************)
(* The undo of what an agent wrote (src/session/checkpoints/               *)
(* WorkspaceCheckpoints.ts): the journal a turn keeps of its file edits    *)
(* and commands, the recovery of a turn that a crash interrupted, the      *)
(* preview and the restore of a turn's files, and the undo of a restore.   *)
(*                                                                         *)
(* A turn stands for itself and its session.  Users and their editors      *)
(* write files at any time without asking; agents of other sessions and    *)
(* restores take the leases of WorkspaceCoordinator.  A file version is    *)
(* its text and its fingerprint, which stands for inode, times and mode.   *)
(* Everything but edit and job is on disk.                                 *)
(***************************************************************************)
EXTENDS Naturals

CONSTANTS
    Turn, Op,     \* turns, and restores together with their previews
    Path,         \* files
    Text, NoText, \* contents, and that of a file that does not exist
    Other,        \* the author of what users and commands write
    MaxStamp,     \* how many fingerprints and revisions there are
    MaxMishap     \* bound on outside writes, commands, failures and crashes

ASSUME CheckpointAssumption ==
    /\ NoText \notin Text
    /\ Other \notin Turn \union Op \union Path
    /\ Turn \intersect Op = {}
    /\ MaxStamp \in Nat \ {0} /\ MaxMishap \in Nat

VARIABLES
    disk,   \* the files
    head,   \* file-heads: the revision of each file
    phase,  \* how far each turn is
    log,    \* the edit records of each turn, merged for each file
    open,   \* its edit records that have no outcome yet
    base,   \* the files as its unfinished command found them
    op,     \* plans and operations
    edit,   \* WorkspaceCheckpoints.pending: the edit under way of each file
    job,    \* the restore under way
    mishaps, \* how many there were
    by,     \* history: who wrote each file last
    origin, \* history: the text each turn found in a file at first
    clean   \* history: did it always come back to its own work, and record it?

history == <<by, origin, clean>>
vars == <<disk, head, phase, log, open, base, op, edit, job, mishaps, history>>

None == 0
Absent == [text |-> NoText, file |-> None]
Stamp == 1 .. MaxStamp
Version == [text : Text, file : Stamp \union {None}] \union {Absent}

NoEntry == [made |-> FALSE, before |-> Absent, after |-> Absent, rev |-> None, uncertain |-> FALSE]
Spoilt == [NoEntry EXCEPT !.made = TRUE, !.uncertain = TRUE]
NoRecord == [made |-> FALSE, before |-> Absent, rev |-> None]
NoBase == [on |-> FALSE, disk |-> [p \in Path |-> Absent]]
NoEdit == [turn |-> Other, at |-> "idle", text |-> NoText, id |-> None]
NoJob == [op |-> Other, at |-> "idle", path |-> Other, todo |-> {}, result |-> Absent]
NoFile == [expected |-> Absent, target |-> Absent, rev |-> None, result |-> Absent, resultRev |-> None]
NoOp == [status |-> "none", of |-> Other, ready |-> {}, applied |-> {}, pending |-> {},
         file |-> [p \in Path |-> NoFile]]

Mishap == mishaps < MaxMishap /\ mishaps' = mishaps + 1

Init ==
    /\ disk \in [Path -> {Absent} \union {[text |-> x, file |-> 1] : x \in Text}]
    /\ head = [p \in Path |-> None]
    /\ phase = [t \in Turn |-> "new"]
    /\ log = [t \in Turn |-> [p \in Path |-> NoEntry]]
    /\ open = [t \in Turn |-> [p \in Path |-> NoRecord]]
    /\ base = [t \in Turn |-> NoBase]
    /\ op = [o \in Op |-> NoOp]
    /\ edit = [p \in Path |-> NoEdit]
    /\ job = NoJob
    /\ mishaps = 0
    /\ by = [p \in Path |-> Other]
    /\ origin = [t \in Turn |-> [p \in Path |-> NoText]]
    /\ clean = [t \in Turn |-> [p \in Path |-> TRUE]]

-----------------------------------------------------------------------------
Same(l, r) == l.text = r.text

(* Faulty: the fingerprint is left out. *)
SameOnDiskByText(l, r) == l.text = r.text

(* A version recorded without a fingerprint is compared by its text only. *)
SameOnDisk(l, r) == l.text = r.text /\ (r.file = None \/ l.file = r.file)

(* A new fingerprint or revision is one to which nothing refers any more;  *)
(* which one it is makes no difference.                                    *)
Files(p) ==
    {disk[p].file, job.result.file}
    \union (UNION {{log[t][p].before.file, log[t][p].after.file, open[t][p].before.file,
                    base[t].disk[p].file} : t \in Turn})
    \union (UNION {{op[o].file[p].expected.file, op[o].file[p].target.file,
                    op[o].file[p].result.file} : o \in Op})

Revisions(p) ==
    {head[p], edit[p].id}
    \union (UNION {{log[t][p].rev, open[t][p].rev} : t \in Turn})
    \union (UNION {{op[o].file[p].rev, op[o].file[p].resultRev} : o \in Op})

New(known) == {i \in Stamp \ known : \A j \in Stamp \ known : i <= j}

(* Every write makes a file that no capture has seen. *)
Written(p, x) == \E i \in New(Files(p)) :
    disk' = [disk EXCEPT ![p] = IF x = NoText THEN Absent ELSE [text |-> x, file |-> i]]

(* Leases: a file edit excludes others of its file, commands and restores  *)
(* exclude everything.                                                     *)
Commanding == \E t \in Turn : phase[t] = "running" /\ base[t].on
Undisturbed == job.at = "idle" /\ ~Commanding
Exclusive == Undisturbed /\ \A p \in Path : edit[p].at = "idle"

-----------------------------------------------------------------------------
(* The journal of a turn.  An entry that is uncertain is shown and never   *)
(* restored: what it says of the file plays no part any more.              *)
BeginTurn(t) ==
    /\ phase[t] = "new"
    /\ phase' = [phase EXCEPT ![t] = "running"]
    /\ UNCHANGED <<disk, head, log, open, base, op, edit, job, history, mishaps>>

(* trackEdit, under the lease of the file: the version found is recorded   *)
(* before the tool writes.                                                 *)
Track(t, p) ==
    /\ phase[t] = "running" /\ Undisturbed /\ edit[p].at = "idle"
    /\ open' = [open EXCEPT ![t][p] = [made |-> TRUE, before |-> disk[p], rev |-> head[p]]]
    /\ edit' = [edit EXCEPT ![p] = [NoEdit EXCEPT !.turn = t, !.at = "tracked"]]
    /\ IF log[t][p].made
         THEN /\ clean' = [clean EXCEPT ![t][p] = @ /\ by[p] = t]
              /\ UNCHANGED origin
         ELSE /\ origin' = [origin EXCEPT ![t][p] = disk[p].text]
              /\ UNCHANGED clean
    /\ UNCHANGED <<disk, head, phase, log, base, op, job, by, mishaps>>

WriteEdit(p, x) ==
    /\ edit[p].at = "tracked"
    /\ Written(p, x)
    /\ edit' = [edit EXCEPT ![p].at = "written", ![p].text = x]
    /\ by' = [by EXCEPT ![p] = edit[p].turn]
    /\ UNCHANGED <<head, phase, log, open, base, op, job, origin, clean, mishaps>>

(* An edit that goes on from where the journal stands. *)
Follows(prev, e, found) ==
    /\ ~prev.uncertain
    /\ prev.made => SameOnDisk(prev.after, e.before) /\ prev.rev = found

(* Faulty: the version before is the latest one. *)
MergedLatest(prev, e, found) == IF Follows(prev, e, found) THEN e ELSE Spoilt

(* mergeTrackedEdit: a chain of edits counts as one from the first version *)
(* to the last, unless somebody came between.                              *)
Merged(prev, e, found) ==
    IF ~Follows(prev, e, found) THEN Spoilt
    ELSE [e EXCEPT !.before = IF prev.made THEN prev.before ELSE @]

(* recordEdit: the outcome is what the tool wrote, and this very file if   *)
(* nobody has written another text since.                                  *)
SaveEdit(p) ==
    LET t == edit[p].turn
        text == edit[p].text
        after == [text |-> text, file |-> IF disk[p].text = text THEN disk[p].file ELSE None]
    IN  /\ edit[p].at = "written"
        /\ \E i \in New(Revisions(p)) :
             /\ log' = [log EXCEPT ![t][p] = Merged(@,
                          [NoEntry EXCEPT !.made = TRUE, !.before = open[t][p].before,
                                          !.after = after, !.rev = i],
                          open[t][p].rev)]
             /\ edit' = [edit EXCEPT ![p].at = "saved", ![p].id = i]
        /\ open' = [open EXCEPT ![t][p] = NoRecord]
        /\ UNCHANGED <<disk, head, phase, base, op, job, history, mishaps>>

(* Faulty: the revision of the file stays. *)
AdvanceStays(p) ==
    /\ edit[p].at = "saved"
    /\ edit' = [edit EXCEPT ![p] = NoEdit]
    /\ UNCHANGED <<disk, head, phase, log, open, base, op, job, history, mishaps>>

Advance(p) ==
    /\ edit[p].at = "saved"
    /\ head' = [head EXCEPT ![p] = edit[p].id]
    /\ edit' = [edit EXCEPT ![p] = NoEdit]
    /\ UNCHANGED <<disk, phase, log, open, base, op, job, history, mishaps>>

(* runEdit: a tool that fails may have written something or nothing. *)
EditFails(p) ==
    LET t == edit[p].turn
    IN  /\ edit[p].at \in {"tracked", "written", "saved"}
        /\ log' = [log EXCEPT ![t][p] = Spoilt]
        /\ open' = [open EXCEPT ![t][p] = NoRecord]
        /\ edit' = [edit EXCEPT ![p] = NoEdit]
        /\ clean' = [clean EXCEPT ![t][p] = FALSE]
        /\ Mishap
        /\ UNCHANGED <<disk, head, phase, base, op, job, by, origin>>

(* startCommand: what a command changes is told by two captures. *)
BeginCommand(t) ==
    /\ phase[t] = "running" /\ Exclusive
    /\ base' = [base EXCEPT ![t] = [on |-> TRUE, disk |-> disk]]
    /\ Mishap
    /\ UNCHANGED <<disk, head, phase, log, open, op, edit, job, history>>

Touched(t) == {p \in Path : ~SameOnDisk(base[t].disk[p], disk[p])}
Rewritten(t) == {p \in Path : ~Same(base[t].disk[p], disk[p])}

(* finishCommand: nothing it finds is taken for the work of the turn. *)
FinishCommand(t) ==
    /\ phase[t] = "running" /\ base[t].on
    /\ \E i \in New(UNION {Revisions(p) : p \in Path}) :
         head' = [p \in Path |-> IF p \in Touched(t) THEN i ELSE head[p]]
    /\ log' = [log EXCEPT ![t] = [p \in Path |-> IF p \in Rewritten(t) THEN Spoilt ELSE @[p]]]
    /\ clean' = [clean EXCEPT ![t] = [p \in Path |-> @[p] /\ p \notin Rewritten(t)]]
    /\ base' = [base EXCEPT ![t] = NoBase]
    /\ UNCHANGED <<disk, phase, open, op, edit, job, by, origin, mishaps>>

(* Faulty: the tools of the turn are not waited for. *)
FinishTurnEarly(t) ==
    /\ phase[t] = "running" /\ ~base[t].on
    /\ phase' = [phase EXCEPT ![t] = "done"]
    /\ UNCHANGED <<disk, head, log, open, base, op, edit, job, history, mishaps>>

(* finishTurn and publish, once the tools have returned. *)
FinishTurn(t) ==
    /\ phase[t] = "running" /\ ~base[t].on
    /\ \A p \in Path : edit[p].turn # t
    /\ phase' = [phase EXCEPT ![t] = "done"]
    /\ UNCHANGED <<disk, head, log, open, base, op, edit, job, history, mishaps>>

(* recoverInterrupted, when the next turn of the session begins or its     *)
(* checkpoints are listed.                                                 *)
Recover(t) ==
    /\ phase[t] = "lost"
    /\ phase' = [phase EXCEPT ![t] = "done"]
    /\ log' = [log EXCEPT ![t] = [p \in Path |->
                 IF open[t][p].made \/ (base[t].on /\ p \in Rewritten(t)) THEN Spoilt ELSE @[p]]]
    /\ open' = [open EXCEPT ![t] = [p \in Path |-> NoRecord]]
    /\ base' = [base EXCEPT ![t] = NoBase]
    /\ UNCHANGED <<disk, head, op, edit, job, history, mishaps>>

-----------------------------------------------------------------------------
(* Restores. *)
Unchanged(t, p) == Same(disk[p], log[t][p].before)

(* A published change that preview finds ready. *)
Ready(t, p) ==
    LET e == log[t][p]
    IN  /\ e.made /\ ~e.uncertain
        /\ ~Same(e.before, e.after)
        /\ ~Unchanged(t, p)
        /\ SameOnDisk(disk[p], e.after) /\ e.rev = head[p]

Plan(o, of, ready, target) ==
    /\ op[o] = NoOp
    /\ op' = [op EXCEPT ![o] = [NoOp EXCEPT !.status = "planned", !.of = of, !.ready = ready,
                !.file = [p \in Path |-> IF p \notin ready THEN NoFile ELSE
                            [NoFile EXCEPT !.expected = disk[p], !.target = target[p], !.rev = head[p]]]]]
    /\ UNCHANGED <<disk, head, phase, log, open, base, edit, job, history, mishaps>>

Preview(o, t) ==
    /\ phase[t] = "done" /\ Exclusive
    /\ LET ready == {p \in Path : Ready(t, p)}
       IN  ready # {} /\ Plan(o, t, ready, [p \in Path |-> log[t][p].before])

(* What an operation may have changed: also the file it was about to, if   *)
(* that is no longer as it was.                                            *)
Affected(u) ==
    op[u].applied \union {p \in op[u].pending : ~Same(disk[p], op[u].file[p].expected)}

UndoReady(u, p) ==
    LET f == op[u].file[p]
        result == IF p \in op[u].applied THEN f.result ELSE f.target
    IN  /\ ~Same(disk[p], f.expected)
        /\ SameOnDisk(disk[p], result)
        /\ p \in op[u].applied => f.resultRev = head[p]

UndoPreview(o, u) ==
    /\ op[u].status \in {"applying", "complete", "needs_recovery"} /\ Exclusive
    /\ LET ready == {p \in Affected(u) : UndoReady(u, p)}
       IN  ready # {} /\ Plan(o, u, ready, [p \in Path |-> op[u].file[p].expected])

StillExpected(o, p) ==
    SameOnDisk(disk[p], op[o].file[p].expected) /\ head[p] = op[o].file[p].rev

(* restoreUnlocked of the chosen files: a plan is used once, and refused   *)
(* when one of them has changed since.                                     *)
BeginRestore(o, chosen) ==
    /\ op[o].status = "planned" /\ Exclusive
    /\ chosen \subseteq op[o].ready /\ chosen # {}
    /\ \A p \in chosen : StillExpected(o, p)
    /\ op' = [op EXCEPT ![o].status = "applying"]
    /\ job' = [NoJob EXCEPT !.op = o, !.at = "next", !.todo = chosen]
    /\ UNCHANGED <<disk, head, phase, log, open, base, edit, history, mishaps>>

NeedsRecovery ==
    /\ op' = [op EXCEPT ![job.op].status = "needs_recovery"]
    /\ job' = NoJob
    /\ UNCHANGED <<disk, head, phase, log, open, base, edit, history>>

(* The next file is looked at once more and announced as pending. *)
CheckFile(p) ==
    /\ job.at = "next" /\ p \in job.todo
    /\ IF StillExpected(job.op, p)
         THEN /\ op' = [op EXCEPT ![job.op].pending = {p}]
              /\ job' = [job EXCEPT !.at = "checked", !.path = p, !.todo = @ \ {p}]
              /\ UNCHANGED <<disk, head, phase, log, open, base, edit, history, mishaps>>
         ELSE NeedsRecovery /\ UNCHANGED mishaps

(* applyFile, and the capture of its result. *)
ApplyFile ==
    LET p == job.path IN
    /\ job.at = "checked"
    /\ Written(p, op[job.op].file[p].target.text)
    /\ job' = [job EXCEPT !.at = "applied", !.result = disk'[p]]
    /\ by' = [by EXCEPT ![p] = job.op]
    /\ UNCHANGED <<head, phase, log, open, base, op, edit, origin, clean, mishaps>>

ApplyFails == job.at = "checked" /\ NeedsRecovery /\ Mishap

AdvanceFile ==
    /\ job.at = "applied"
    /\ \E i \in New(Revisions(job.path)) : head' = [head EXCEPT ![job.path] = i]
    /\ job' = [job EXCEPT !.at = "advanced"]
    /\ UNCHANGED <<disk, phase, log, open, base, op, edit, history, mishaps>>

(* Faulty: the result is not kept. *)
RecordWithoutResult ==
    /\ job.at = "advanced"
    /\ op' = [op EXCEPT ![job.op].applied = @ \union {job.path}, ![job.op].pending = {},
                        ![job.op].file[job.path].result = op[job.op].file[job.path].target,
                        ![job.op].file[job.path].resultRev = head[job.path]]
    /\ job' = [NoJob EXCEPT !.op = job.op, !.at = "next", !.todo = job.todo]
    /\ UNCHANGED <<disk, head, phase, log, open, base, edit, history, mishaps>>

RecordFile ==
    /\ job.at = "advanced"
    /\ op' = [op EXCEPT ![job.op].applied = @ \union {job.path}, ![job.op].pending = {},
                        ![job.op].file[job.path].result = job.result,
                        ![job.op].file[job.path].resultRev = head[job.path]]
    /\ job' = [NoJob EXCEPT !.op = job.op, !.at = "next", !.todo = job.todo]
    /\ UNCHANGED <<disk, head, phase, log, open, base, edit, history, mishaps>>

EndRestore ==
    /\ job.at = "next" /\ job.todo = {}
    /\ op' = [op EXCEPT ![job.op].status = "complete"]
    /\ job' = NoJob
    /\ UNCHANGED <<disk, head, phase, log, open, base, edit, history, mishaps>>

-----------------------------------------------------------------------------
(* Users, their editors and commands.  Nobody can close the moment between *)
(* the last look at a file and its replacement; it is left out here.  The  *)
(* text that a tool has just written, written again before the tool has    *)
(* captured it, counts as the tool's.                                      *)
Outside(p, x) ==
    /\ ~(job.at = "checked" /\ job.path = p)
    /\ Written(p, x)
    /\ by' = [by EXCEPT ![p] = IF edit[p].at = "written" /\ edit[p].text = x
                               THEN edit[p].turn ELSE Other]
    /\ Mishap
    /\ UNCHANGED <<head, phase, log, open, base, op, edit, job, origin, clean>>

(* The process ends and starts again. *)
Crash ==
    /\ phase' = [t \in Turn |-> IF phase[t] = "running" THEN "lost" ELSE phase[t]]
    /\ clean' = [t \in Turn |-> IF phase[t] = "running" THEN [p \in Path |-> FALSE] ELSE clean[t]]
    /\ edit' = [p \in Path |-> NoEdit]
    /\ job' = NoJob
    /\ phase' # phase \/ job # NoJob
    /\ Mishap
    /\ UNCHANGED <<disk, head, log, open, base, op, by, origin>>

EditStep(p) ==
    \/ \E t \in Turn : Track(t, p)
    \/ \E x \in Text : WriteEdit(p, x)
    \/ SaveEdit(p) \/ Advance(p) \/ EditFails(p)

TurnStep(t) ==
    \/ BeginTurn(t) \/ BeginCommand(t) \/ FinishCommand(t) \/ FinishTurn(t) \/ Recover(t)
    \/ \E o \in Op : Preview(o, t)

RestoreStep ==
    \/ \E o, u \in Op : UndoPreview(o, u)
    \/ \E o \in Op, chosen \in SUBSET Path : BeginRestore(o, chosen)
    \/ \E p \in Path : CheckFile(p)
    \/ ApplyFile \/ ApplyFails \/ AdvanceFile \/ RecordFile \/ EndRestore

Next ==
    \/ \E p \in Path : EditStep(p)
    \/ \E t \in Turn : TurnStep(t)
    \/ RestoreStep
    \/ \E p \in Path, x \in Text \union {NoText} : Outside(p, x)
    \/ Crash

Spec == Init /\ [][Next]_vars

-----------------------------------------------------------------------------
EntryType == [made : BOOLEAN, before : Version, after : Version, rev : Stamp \union {None}, uncertain : BOOLEAN]
FileType == [expected : Version, target : Version, rev : Stamp \union {None}, result : Version, resultRev : Stamp \union {None}]

(* Every part of the state has its type, and an edit under way belongs to a *)
(* running turn.                                                           *)
TypeOK ==
    /\ disk \in [Path -> Version] /\ head \in [Path -> Stamp \union {None}]
    /\ phase \in [Turn -> {"new", "running", "lost", "done"}]
    /\ log \in [Turn -> [Path -> EntryType]]
    /\ open \in [Turn -> [Path -> [made : BOOLEAN, before : Version, rev : Stamp \union {None}]]]
    /\ base \in [Turn -> [on : BOOLEAN, disk : [Path -> Version]]]
    /\ op \in [Op -> [status : {"none", "planned", "applying", "complete", "needs_recovery"},
                      of : Turn \union Op \union {Other}, ready : SUBSET Path,
                      applied : SUBSET Path, pending : SUBSET Path, file : [Path -> FileType]]]
    /\ edit \in [Path -> [turn : Turn \union {Other}, at : {"idle", "tracked", "written", "saved"},
                          text : Text \union {NoText}, id : Stamp \union {None}]]
    /\ \A p \in Path : edit[p].at # "idle" =>
         edit[p].turn \in Turn /\ phase[edit[p].turn] = "running"
    /\ job.op \in Op \union {Other} /\ job.path \in Path \union {Other}
    /\ job.at \in {"idle", "next", "checked", "applied", "advanced"}
    /\ job.todo \subseteq Path /\ job.result \in Version
    /\ by \in [Path -> Turn \union Op \union {Other}]
    /\ origin \in [Turn -> [Path -> Text \union {NoText}]]
    /\ clean \in [Turn -> [Path -> BOOLEAN]]
    /\ mishaps \in 0 .. MaxMishap

(* A restore replaces only what the turn itself left in the file, and an   *)
(* undo only what its restore left there, whatever users, other agents and *)
(* crashes did since the preview or the last look.  Where a tool could not *)
(* tell its own file any more, it replaces only the text that it wrote.    *)
OnlyOwnWorkUndone == job.at = "checked" =>
    LET p == job.path
        of == op[job.op].of
    IN  \/ disk[p].text = NoText
        \/ by[p] = of
        \/ of \in Turn /\ log[of][p].after = [text |-> disk[p].text, file |-> None]

(* What a restore puts back is what the turn found when it first touched   *)
(* the file, however many edits of its own the turn chained.               *)
RestoresOrigin == job.at = "checked" /\ op[job.op].of \in Turn =>
    op[job.op].file[job.path].target.text = origin[op[job.op].of][job.path]

(* A file that a restore replaced is in its record, also after a crash or  *)
(* a failure at the next file; as long as nobody writes it, it can be put  *)
(* back, but for the file a crash caught half recorded.                    *)
RestoreUndoable == \A o \in Op, p \in Path : by[p] = o =>
    \/ p \in op[o].pending
    \/ /\ p \in op[o].applied
       /\ UndoReady(o, p) \/ Same(disk[p], op[o].file[p].expected)

(* What a turn wrote and recorded in files that only it wrote can be       *)
(* undone: the edits, failures and commands of others elsewhere do not     *)
(* take the undo away.                                                     *)
OwnWorkUndoable == \A t \in Turn, p \in Path :
    phase[t] = "done" /\ by[p] = t /\ clean[t][p] =>
        Ready(t, p) \/ Same(disk[p], [text |-> origin[t][p]])

(* "undo recovers a file applied before a process exited without recording *)
(* its completed write" (tests/session/workspace-checkpoints.spec.ts)      *)
InterruptedUndoable == \A o \in Op, p \in Path :
    job.at = "idle" /\ by[p] = o /\ p \in op[o].pending =>
        UndoReady(o, p) \/ Same(disk[p], op[o].file[p].expected)
=============================================================================
