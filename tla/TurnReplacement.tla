--------------------------- MODULE TurnReplacement ---------------------------
(***************************************************************************)
(* Editing the last message of a conversation.  replaceLastTurn of the     *)
(* gateway (src/gateway/client/InProcessGateway.ts) cuts the last turn off *)
(* the transcript and keeps a backup and a journal beside it; the run that *)
(* submits the edited message claims the replacement and commits it when   *)
(* its input is accepted; a timer or the host rolls it back otherwise.     *)
(* After a crash recoverPendingLastTurnReplacements                        *)
(* (src/web/server/replaceLastTurn.ts) decides from the files what became  *)
(* of it.  A file operation is one step, and a crash may come after any.   *)
(***************************************************************************)
EXTENDS Naturals, FiniteSetsExt, SequencesExt

CONSTANTS
    Turn,            \* run ids; a host gives one to one run only
    MaxEdits,        \* bounds the edits prepared
    None,            \* no run, replacement, file or job
    Faults           \* what may go wrong beside crashes and failing writes

ASSUME FaultsAssumption ==
    MaxEdits \in Nat /\ Faults \subseteq {"commit", "rollback", "recovery", "close"}

VARIABLES
    transcript,  \* the turns in the transcript file
    backup,      \* the backup file of each edit
    journal,     \* the journal of each edit: its replacement turn
    edits,       \* the edits prepared, in the order of their times
    gateway,     \* "up", or where start-up recovery is
    run,         \* the run in charge of the session
    pending,     \* pendingTurnReplacements: the prepared edit
    job,         \* the rewriting of the transcript that is under way
    used,        \* the turns submitted
    told,        \* the turns whose acceptance was announced
    gone         \* the turns that a recorded edit replaced

disk == <<transcript, backup, journal, edits>>
memory == <<run, pending, job>>
ledger == <<used, told, gone>>
vars == <<disk, gateway, memory, ledger>>

Edit == 1..MaxEdits
Phases == {"prepared", "submitting", "finalizing"}
EditSteps == {"aborting", "backup", "rename", "undoBackup", "undoJournal"}
FinalSteps == {"restore", "unlinkBackup", "unlinkJournal"}

RunRecord == [turn : Turn, at : {"starting", "recorded", "committing", "accepted"},
              closed : BOOLEAN]
Replacement == [tx : Edit, turn : Turn, phase : Phases]

(* The rewriting of a transcript knows as much as it still needs.          *)
Job ==
    [step : {"aborting"}, old : Turn, turn : Turn]
        \union [step : {"backup", "rename"}, turn : Turn, tx : Edit, body : Seq(Turn)]
        \union [step : {"undoBackup", "undoJournal"}, tx : Edit]
        \union [step : FinalSteps, for : {"commit", "rollback"}, tx : Edit]

ASSUME NoneAssumption ==
    /\ None \notin Turn /\ None \notin Seq(Turn)
    /\ None \notin RunRecord /\ None \notin Replacement /\ None \notin Job

Init ==
    /\ transcript = <<>>
    /\ backup = [x \in Edit |-> None]
    /\ journal = [x \in Edit |-> None]
    /\ edits = 0
    /\ gateway = "up"
    /\ run = None /\ pending = None /\ job = None
    /\ used = {} /\ told = {} /\ gone = {}

Editing == job # None /\ job.step \in EditSteps

(* The replacement that the current run has claimed. *)
Claimed == run # None /\ pending # None /\ pending.turn = run.turn /\ pending.phase = "submitting"

-----------------------------------------------------------------------------
(* Faulty: the transcript reservation of an edit is not looked at. *)
SubmitUnreserved(t) ==
    /\ gateway = "up" /\ run = None
    /\ t \notin used
    /\ pending # None => pending.turn = t /\ pending.phase = "prepared"
    /\ run' = [turn |-> t, at |-> "starting", closed |-> FALSE]
    /\ pending' = IF pending = None THEN None ELSE [pending EXCEPT !.phase = "submitting"]
    /\ used' = used \union {t}
    /\ UNCHANGED <<disk, gateway, job, told, gone>>

(* submitTurn: claimPendingTurnReplacement, the transcript reservation and *)
(* beginTurn.  A submission refused changes nothing.                       *)
Submit(t) ==
    /\ gateway = "up" /\ run = None /\ ~Editing
    /\ t \notin used
    /\ pending # None => pending.turn = t /\ pending.phase = "prepared"
    /\ run' = [turn |-> t, at |-> "starting", closed |-> FALSE]
    /\ pending' = IF pending = None THEN None ELSE [pending EXCEPT !.phase = "submitting"]
    /\ used' = used \union {t}
    /\ UNCHANGED <<disk, gateway, job, told, gone>>

(* The session records accepted_input.  A writer that is closed drops the  *)
(* record and reports no error: that is the fault "close", and without it  *)
(* a run whose session is closed ends before it records.                   *)
Record ==
    /\ run # None /\ run.at = "starting"
    /\ \/ ~run.closed /\ transcript' = Append(transcript, run.turn)
       \/ run.closed /\ "close" \in Faults /\ UNCHANGED transcript
    /\ gone' = IF Claimed /\ backup[pending.tx] # None
               THEN gone \union {Last(backup[pending.tx])} ELSE gone
    /\ run' = [run EXCEPT !.at = "recorded"]
    /\ UNCHANGED <<backup, journal, edits, gateway, pending, job, used, told>>

(* The gateway sees input_accepted: it commits a claimed replacement       *)
(* before it passes the event on.                                          *)
Accept ==
    /\ run # None /\ run.at = "recorded"
    /\ IF Claimed
       THEN /\ run' = [run EXCEPT !.at = "committing"]
            /\ pending' = [pending EXCEPT !.phase = "finalizing"]
            /\ job' = [step |-> "unlinkBackup", for |-> "commit", tx |-> pending.tx]
            /\ UNCHANGED told
       ELSE /\ run' = [run EXCEPT !.at = "accepted"]
            /\ told' = told \union {run.turn}
            /\ UNCHANGED <<pending, job>>
    /\ UNCHANGED <<disk, gateway, used, gone>>

(* Faulty: the claim is not released. *)
RunEndsKeepsClaim ==
    /\ run # None /\ run' = None
    /\ UNCHANGED <<disk, gateway, pending, job, ledger>>

(* Faulty: a replacement that is being committed is released as well. *)
RunEndsReleases ==
    /\ run # None /\ run' = None
    /\ pending' = IF pending # None THEN [pending EXCEPT !.phase = "prepared"] ELSE None
    /\ UNCHANGED <<disk, gateway, job, ledger>>

(* The run ends: completed, failed, stopped or timed out, at any point.    *)
(* finish releases a claim that was not committed.                         *)
RunEnds ==
    /\ run # None
    /\ run' = None
    /\ pending' = IF Claimed THEN [pending EXCEPT !.phase = "prepared"] ELSE pending
    /\ UNCHANGED <<disk, gateway, job, ledger>>

CloseSession ==
    /\ "close" \in Faults
    /\ run # None /\ ~run.closed
    /\ run' = [run EXCEPT !.closed = TRUE]
    /\ UNCHANGED <<disk, gateway, pending, job, ledger>>

-----------------------------------------------------------------------------
(* replaceLastTurn up to its first await: refuse, or reserve the session.  *)
(* new becomes the turn of the edited message.                             *)
BeginEdit(old, new) ==
    /\ gateway = "up" /\ job = None /\ pending = None
    /\ edits < MaxEdits
    /\ old \in used /\ new \notin used
    /\ run # None => run.turn = old
    /\ job' = [step |-> "aborting", old |-> old, turn |-> new]
    /\ UNCHANGED <<disk, gateway, run, pending, ledger>>

(* The run has ended or the wait for it timed out.  The session is closed, *)
(* the transcript read and the journal written.                            *)
WriteJournal ==
    /\ job # None /\ job.step = "aborting"
    /\ transcript # <<>> /\ Last(transcript) = job.old
    /\ run' = IF run = None THEN None ELSE [run EXCEPT !.closed = TRUE]
    /\ edits' = edits + 1
    /\ journal' = [journal EXCEPT ![edits'] = job.turn]
    /\ job' = [step |-> "backup", turn |-> job.turn, tx |-> edits', body |-> transcript]
    /\ UNCHANGED <<transcript, backup, gateway, pending, ledger>>

(* The message is no longer the last, or the transcript cannot be read.    *)
RefuseEdit ==
    /\ job # None /\ job.step = "aborting"
    /\ run' = IF run = None THEN None ELSE [run EXCEPT !.closed = TRUE]
    /\ job' = None
    /\ UNCHANGED <<disk, gateway, pending, ledger>>

WriteBackup ==
    /\ job # None /\ job.step = "backup"
    /\ backup' = [backup EXCEPT ![job.tx] = job.body]
    /\ job' = [job EXCEPT !.step = "rename"]
    /\ UNCHANGED <<transcript, journal, edits, gateway, run, pending, ledger>>

(* The transcript is renamed over, and the edit waits for its run. *)
CutLastTurn ==
    /\ job # None /\ job.step = "rename"
    /\ transcript' = Front(job.body)
    /\ pending' = [tx |-> job.tx, turn |-> job.turn, phase |-> "prepared"]
    /\ job' = None
    /\ UNCHANGED <<backup, journal, edits, gateway, run, ledger>>

(* Faulty: the files of an edit that failed stay. *)
EditFailsOnly ==
    /\ job # None /\ job.step \in {"backup", "rename"}
    /\ job' = None
    /\ UNCHANGED <<disk, gateway, run, pending, ledger>>

EditFails ==
    /\ job # None /\ job.step \in {"backup", "rename"}
    /\ job' = [step |-> "undoBackup", tx |-> job.tx]
    /\ UNCHANGED <<disk, gateway, run, pending, ledger>>

UndoBackup ==
    /\ job # None /\ job.step = "undoBackup"
    /\ backup' = [backup EXCEPT ![job.tx] = None]
    /\ job' = [job EXCEPT !.step = "undoJournal"]
    /\ UNCHANGED <<transcript, journal, edits, gateway, run, pending, ledger>>

UndoJournal ==
    /\ job # None /\ job.step = "undoJournal"
    /\ journal' = [journal EXCEPT ![job.tx] = None]
    /\ job' = None
    /\ UNCHANGED <<transcript, backup, edits, gateway, run, pending, ledger>>

-----------------------------------------------------------------------------
(* Faulty: a replacement that a run has claimed is rolled back as well. *)
BeginRollbackOfClaim ==
    /\ gateway = "up" /\ pending # None /\ pending.phase # "finalizing"
    /\ pending' = [pending EXCEPT !.phase = "finalizing"]
    /\ job' = [step |-> "restore", for |-> "rollback", tx |-> pending.tx]
    /\ UNCHANGED <<disk, gateway, run, ledger>>

(* The timer rollbackExpiredTurnReplacement, or the host's request.  Both  *)
(* leave a replacement alone whose session is executing a run.             *)
BeginRollback ==
    /\ gateway = "up" /\ run = None
    /\ pending # None /\ pending.phase = "prepared"
    /\ pending' = [pending EXCEPT !.phase = "finalizing"]
    /\ job' = [step |-> "restore", for |-> "rollback", tx |-> pending.tx]
    /\ UNCHANGED <<disk, gateway, run, ledger>>

RestoreBackup ==
    /\ job # None /\ job.step = "restore"
    /\ backup[job.tx] # None
    /\ transcript' = backup[job.tx]
    /\ gone' = gone \ Range(backup[job.tx])
    /\ job' = [job EXCEPT !.step = "unlinkBackup"]
    /\ UNCHANGED <<backup, journal, edits, gateway, run, pending, used, told>>

UnlinkBackup ==
    /\ job # None /\ job.step = "unlinkBackup"
    /\ backup' = [backup EXCEPT ![job.tx] = None]
    /\ job' = [job EXCEPT !.step = "unlinkJournal"]
    /\ UNCHANGED <<transcript, journal, edits, gateway, run, pending, ledger>>

(* A rollback or a commit is over.  The event that waited for the commit   *)
(* is passed on, if its run is still in charge.                            *)
Announced ==
    /\ pending' = None /\ job' = None
    /\ IF run # None /\ run.at = "committing"
       THEN run' = [run EXCEPT !.at = "accepted"] /\ told' = told \union {run.turn}
       ELSE UNCHANGED <<run, told>>
    /\ UNCHANGED <<used, gone>>

UnlinkJournal ==
    /\ job # None /\ job.step = "unlinkJournal"
    /\ journal' = [journal EXCEPT ![job.tx] = None]
    /\ Announced
    /\ UNCHANGED <<transcript, backup, edits, gateway>>

(* A commit whose clean-up fails is a commit all the same. *)
CommitLeavesFiles ==
    /\ "commit" \in Faults
    /\ job # None /\ job.step \in {"unlinkBackup", "unlinkJournal"} /\ job.for = "commit"
    /\ Announced
    /\ UNCHANGED <<disk, gateway>>

(* A rollback that fails is prepared again, and tried again by the timer.  *)
RollbackFails ==
    /\ job # None
    /\ \/ job.step = "restore"
       \/ /\ "rollback" \in Faults
          /\ job.step \in {"unlinkBackup", "unlinkJournal"} /\ job.for = "rollback"
    /\ pending' = [pending EXCEPT !.phase = "prepared"]
    /\ job' = None
    /\ UNCHANGED <<disk, gateway, run, ledger>>

-----------------------------------------------------------------------------
Artifacts == {x \in Edit : backup[x] # None \/ journal[x] # None}

(* Faulty: the oldest edit decides. *)
Oldest == Min(Artifacts)

Latest == Max(Artifacts)

(* The newest edit alone decides.  It is committed when the turn that its  *)
(* journal names is in the transcript; a backup without a journal, as old  *)
(* releases left, when the transcript has a turn that the backup has not.  *)
Committed ==
    IF journal[Latest] # None
    THEN journal[Latest] \in Range(transcript)
    ELSE Range(transcript) \ Range(backup[Latest]) # {}

MustRestore == Artifacts # {} /\ ~Committed /\ backup[Latest] # None

Crash ==
    /\ gateway # "down"
    /\ gateway' = "down"
    /\ run' = None /\ pending' = None /\ job' = None
    /\ UNCHANGED <<disk, ledger>>

(* An edit without a backup is reported and its journal left alone. *)
Recover ==
    /\ gateway = "down"
    /\ IF MustRestore
       THEN /\ transcript' = backup[Latest]
            /\ gone' = gone \ Range(backup[Latest])
            /\ gateway' = "cleaning"
       ELSE /\ gateway' = IF Artifacts # {} /\ Committed THEN "cleaning" ELSE "up"
            /\ UNCHANGED <<transcript, gone>>
    /\ UNCHANGED <<backup, journal, edits, memory, used, told>>

(* Files are removed one by one, the backup of an edit before its journal. *)
Clean(x) ==
    /\ gateway = "cleaning" /\ x \in Artifacts
    /\ IF backup[x] # None
       THEN backup' = [backup EXCEPT ![x] = None] /\ UNCHANGED journal
       ELSE journal' = [journal EXCEPT ![x] = None] /\ UNCHANGED backup
    /\ UNCHANGED <<transcript, edits, gateway, memory, ledger>>

Serve ==
    /\ gateway = "cleaning" /\ Artifacts = {}
    /\ gateway' = "up"
    /\ UNCHANGED <<disk, memory, ledger>>

(* A recovery that fails is reported, and the gateway starts all the same. *)
RecoveryFails ==
    /\ "recovery" \in Faults
    /\ gateway \in {"down", "cleaning"}
    /\ gateway' = "up"
    /\ UNCHANGED <<disk, memory, ledger>>

-----------------------------------------------------------------------------
Run == Record \/ Accept \/ RunEnds \/ CloseSession

EditStep ==
    \/ WriteJournal \/ RefuseEdit \/ WriteBackup \/ CutLastTurn
    \/ EditFails \/ UndoBackup \/ UndoJournal

Finalize ==
    \/ BeginRollback \/ RestoreBackup \/ UnlinkBackup \/ UnlinkJournal
    \/ CommitLeavesFiles \/ RollbackFails

StartUp == Recover \/ Serve \/ RecoveryFails \/ \E x \in Edit : Clean(x)

Next ==
    \/ \E t \in Turn : Submit(t)
    \/ \E old, new \in Turn : BeginEdit(old, new)
    \/ Run \/ EditStep \/ Finalize \/ StartUp \/ Crash

(* The timer fires again and again; file operations end; the read and the  *)
(* rename of a rollback, tried for ever, succeed at some time.             *)
Spec ==
    /\ Init /\ [][Next]_vars
    /\ WF_vars(EditStep) /\ WF_vars(StartUp)
    /\ WF_vars(BeginRollback) /\ SF_vars(RestoreBackup)
    /\ WF_vars(UnlinkBackup) /\ WF_vars(UnlinkJournal)

-----------------------------------------------------------------------------
TypeOK ==
    /\ transcript \in Seq(Turn)
    /\ backup \in [Edit -> Seq(Turn) \union {None}]
    /\ journal \in [Edit -> Turn \union {None}]
    /\ edits \in 0..MaxEdits
    /\ gateway \in {"up", "down", "cleaning"}
    /\ run \in RunRecord \union {None}
    /\ pending \in Replacement \union {None}
    /\ job \in Job \union {None}
    /\ (job # None /\ job.step \in FinalSteps) =>
        pending # None /\ pending.phase = "finalizing" /\ pending.tx = job.tx
    /\ used \subseteq Turn /\ told \subseteq used /\ gone \subseteq used

(* The conversation that a crash at this moment would leave. *)
Survivor == IF MustRestore THEN backup[Latest] ELSE transcript

(* A recorded edit that nobody has been told of can still be undone. *)
Undoable ==
    /\ pending # None /\ pending.turn \in Range(transcript)
    /\ job # None => job.for = "rollback" /\ job.step = "restore"

Conversation == INSTANCE EditableConversation WITH
    NoConversation <- None,
    conversation <- Survivor,
    former <- IF Undoable THEN backup[pending.tx] ELSE None

(* Through crashes, failures and timeouts at any point, what survives      *)
(* changes by whole messages only: an edit replaces the last one at once   *)
(* when it is recorded, is undone only while nobody was told of it, and    *)
(* nothing else is ever lost (comment of recoverPendingLastTurnReplacements).*)
EditsAreAtomic == Conversation!Spec

(* A turn whose acceptance was announced stays, unless an edit replaced it.*)
ToldIsKept == told \ gone \subseteq Range(Survivor)

(* A gateway with no edit pending has no backup on disk that could decide  *)
(* the fate of a later edit.                                               *)
NoStaleBackup ==
    (gateway = "up" /\ pending = None /\ job = None) => \A x \in Edit : backup[x] = None

(* The transcript is rewritten only when no session can append to it: the  *)
(* reservation keeps new runs out from before the close until after.       *)
RewritesAlone ==
    [][~IsPrefix(transcript, transcript') => run = None \/ run.closed]_vars

(* A commit removes the backup of the original only when the replacement   *)
(* is in the transcript (InProcessGateway.ts 1227).                        *)
CommitIsDurable ==
    (job # None /\ job.step \in FinalSteps /\ job.for = "commit")
        => pending.turn \in Range(transcript)

(* When its session is left idle, an edit does not stay pending: it is     *)
(* committed or rolled back, and the session takes messages again.         *)
EditSettles == <>[](run = None) => (pending # None ~> pending = None)
=============================================================================
