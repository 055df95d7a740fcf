------------------------- MODULE TurnReplacementProofs -------------------------
(***************************************************************************)
(* Edits of the last message, for any turns and any number of edits.       *)
(* Whatever goes wrong, the transcript is rewritten only while no session  *)
(* can append to it.  When nothing goes wrong beside crashes and failing   *)
(* writes, an edit is atomic and no accepted message is lost.  The         *)
(* argument: at most the newest edit has a backup, so what a crash leaves  *)
(* behind depends on that edit alone (Outlives); and while an edit is      *)
(* under way the transcript is its backup, with the last turn, without it, *)
(* or with the new turn in its place.                                      *)
(***************************************************************************)
EXTENDS TurnReplacement, WellFoundedInduction, TLAPS

Step(steps) == job # None /\ job.step \in steps
Final(purpose) == Step(FinalSteps) /\ job.for = purpose

(* The turns of the session and of its files were submitted.               *)
Used ==
    /\ Range(transcript) \subseteq used
    /\ \A x \in Edit : backup[x] # None => backup[x] # <<>> /\ Range(backup[x]) \subseteq used
    /\ Step({"backup", "rename"}) => job.body # <<>> /\ Range(job.body) \subseteq used
    /\ run # None => run.turn \in used
    /\ Step({"aborting"}) => edits < MaxEdits

(* Who rewrites the transcript has it for himself. *)
Alone ==
    /\ gateway # "up" => run = None /\ pending = None /\ job = None
    /\ Step(EditSteps) => pending = None
    /\ Step(EditSteps \ {"aborting"}) /\ run # None => run.closed
    /\ Step({"restore"}) => job.for = "rollback"
    /\ Final("rollback") => run = None
    /\ pending # None /\ pending.phase = "finalizing" => Step(FinalSteps)

Newest == edits \in Edit /\ backup[edits] # None

(* Only the newest edit has a backup, and then it has a journal as well.   *)
Files ==
    /\ \A x \in Edit : x > edits => journal[x] = None
    /\ \A x \in Edit : backup[x] # None => x = edits /\ journal[x] # None

(* What survives a crash, in terms of the newest edit. *)
Outlives ==
    IF Newest /\ journal[edits] \notin Range(transcript) THEN backup[edits] ELSE transcript

(* The turn of an edit to come was not submitted yet. *)
Unsubmitted == Step({"aborting", "backup", "rename"}) => job.turn \notin used

(* The edit under way is the newest. *)
UnderWay ==
    /\ pending # None => pending.tx = edits /\ journal[edits] = pending.turn
    /\ Step({"backup", "rename"}) =>
          /\ job.tx = edits /\ journal[edits] = job.turn
          /\ job.body = transcript
    /\ Step({"undoBackup", "undoJournal"}) => job.tx = edits

(* What the transcript is to the backup of an edit that is pending. *)
Recorded == transcript = Append(Front(backup[edits]), pending.turn)

Prepared == job = None \/ Step({"restore"})

Stages ==
    /\ gateway = "up" /\ pending = None /\ Newest => Step({"rename", "undoBackup"})
    /\ Step({"rename"}) => backup[edits] = transcript
    /\ Step({"undoBackup"}) => backup[edits] \in {None, transcript}
    /\ pending # None /\ Prepared =>
          /\ backup[edits] # None /\ pending.turn \notin Range(backup[edits])
          /\ Recorded \/ transcript = Front(backup[edits])
    /\ Step({"unlinkBackup"}) =>
          /\ backup[edits] # None /\ pending.turn \notin Range(backup[edits])
          /\ IF job.for = "commit" THEN Recorded ELSE transcript = backup[edits]
    /\ Step({"unlinkJournal"}) => backup[edits] = None
    /\ Final("commit") => pending.turn \in Range(transcript)
    /\ gateway = "cleaning" => Outlives = transcript

(* The runs that an edit meets: the one of the old turn, closed, and then  *)
(* the one that claims it.                                                 *)
Runs ==
    /\ run # None /\ run.at = "starting" => run.turn \notin Range(Outlives)
    /\ run # None /\ run.at = "recorded" => run.turn \in Range(Outlives)
    /\ run # None /\ run.at = "committing" => Final("commit") /\ run.turn = pending.turn
    /\ pending # None /\ pending.phase = "submitting" =>
          /\ run # None /\ run.turn = pending.turn /\ run.at \in {"starting", "recorded"}
          /\ run.at = "starting" => transcript = Front(backup[edits])
    /\ pending # None /\ run # None =>
          IF run.turn = pending.turn
          THEN pending.phase = "submitting" \/ (Final("commit") /\ run.at = "committing")
          ELSE pending.turn \notin used /\ run.closed
    /\ pending # None /\ ~Final("commit") => pending.turn \notin told

Faultless == Files /\ Unsubmitted /\ UnderWay /\ Stages /\ Runs /\ told \ gone \subseteq Range(Outlives)

USE FaultsAssumption, NoneAssumption

-----------------------------------------------------------------------------
(* Sequences of turns. *)
LEMMA AppendOne ==
    ASSUME NEW s \in Seq(Turn), NEW t \in Turn
    PROVE  /\ Append(s, t) \in Seq(Turn) /\ Append(s, t) # <<>>
           /\ Range(Append(s, t)) = Range(s) \union {t}
           /\ Last(Append(s, t)) = t /\ IsPrefix(s, Append(s, t))
<1> DEFINE a == Append(s, t)
<1>1. /\ a \in Seq(Turn) /\ Len(a) = Len(s) + 1 /\ Len(s) \in Nat
      /\ \A k \in 1..Len(a) : a[k] = IF k <= Len(s) THEN s[k] ELSE t
  OBVIOUS
<1>2. DOMAIN s = 1..Len(s) /\ DOMAIN a = 1..Len(a)
  BY <1>1
<1>3. (\A k \in DOMAIN s : k \in DOMAIN a /\ a[k] = s[k])
      /\ (\A k \in DOMAIN a : k \in DOMAIN s \/ a[k] = t)
      /\ Len(a) \in DOMAIN a /\ a[Len(a)] = t
  BY <1>1, <1>2
<1>4. Range(a) = Range(s) \union {t}
  BY <1>3 DEF Range
<1>5. IsPrefix(s, a)
  BY DEF IsPrefix
<1>6. a # <<>>
  BY <1>1
<1>7. QED
  BY <1>1, <1>3, <1>4, <1>5, <1>6 DEF Last

(* A sequence is its front and its last turn. *)
LEMMA FrontAndLast ==
    ASSUME NEW s \in Seq(Turn), s # <<>>
    PROVE  /\ Front(s) \in Seq(Turn) /\ Last(s) \in Turn
           /\ Range(s) = Range(Front(s)) \union {Last(s)}
<1>1. Len(s) \in Nat \ {0} /\ DOMAIN s = 1..Len(s)
  OBVIOUS
<1>2. /\ Front(s) \in Seq(Turn) /\ Len(Front(s)) = Len(s) - 1
      /\ \A k \in 1..(Len(s) - 1) : Front(s)[k] = s[k]
  BY <1>1 DEF Front
<1>3. DOMAIN Front(s) = 1..(Len(s) - 1)
  BY <1>1, <1>2
<1>4. QED
  BY <1>1, <1>2, <1>3 DEF Range, Last

(* A transcript left alone is a prefix of itself. *)
LEMMA PrefixOfItself == \A s \in Seq(Turn) : IsPrefix(s, s)
BY DEF IsPrefix

(* A set of edits that is not empty has a newest one. *)
LEMMA HasNewest ==
    ASSUME NEW S \in SUBSET Edit, S # {}
    PROVE  Max(S) \in S /\ \A x \in S : Max(S) >= x
<1> DEFINE T == {MaxEdits - x : x \in S}
<1>1. T \subseteq Nat
  BY DEF Edit
<1>2. T # {}
  OBVIOUS
<1>3. \E x \in T : \A y \in T : ~(<<y, x>> \in OpToRel(<, Nat))
  <2> HIDE DEF T
  <2>1. QED
    BY <1>1, <1>2, NatLessThanWellFounded, WFMin
<1>4. PICK x \in T : \A y \in T : ~(y < x)
  BY <1>1, <1>3 DEF OpToRel
<1>5. PICK s \in S : x = MaxEdits - s
  BY <1>4
<1>6. \A y \in S : ~(MaxEdits - y < MaxEdits - s)
  BY <1>4, <1>5
<1>7. \A y \in S : s >= y
  BY <1>6 DEF Edit
<1>8. QED
  BY <1>7 DEF Max

-----------------------------------------------------------------------------
(* Recovery looks at an edit that has files. *)
LEMMA LatestHasFiles == Artifacts # {} => Latest \in Artifacts /\ \A x \in Artifacts : Latest >= x
BY HasNewest DEF Artifacts, Latest

(* Every step keeps the types. *)
LEMMA TypeStep == TypeOK /\ Used /\ [Next]_vars => TypeOK'
<1> SUFFICES ASSUME TypeOK, Used, [Next]_vars PROVE TypeOK'
  OBVIOUS
<1> USE DEF TypeOK, disk, memory, ledger, RunRecord, Replacement, Job, Phases, EditSteps, FinalSteps
<1>1. ASSUME NEW t \in Turn, Submit(t) PROVE TypeOK'
  BY <1>1 DEF Submit
<1>2. ASSUME Record PROVE TypeOK'
  <2>1. run \in RunRecord /\ run.turn \in Turn
    BY <1>2 DEF Record
  <2>2. transcript' \in Seq(Turn)
    BY <1>2, <2>1, AppendOne DEF Record
  <2>3. gone' \subseteq used
    <3>1. CASE Claimed /\ backup[pending.tx] # None
      <4>1. pending.tx \in Edit /\ backup[pending.tx] \in Seq(Turn)
        BY <3>1 DEF Claimed
      <4>2. Last(backup[pending.tx]) \in used
        BY <3>1, <4>1, FrontAndLast DEF Used
      <4>3. QED
        BY <1>2, <3>1, <4>2 DEF Record
    <3>2. CASE ~(Claimed /\ backup[pending.tx] # None)
      BY <1>2, <3>2 DEF Record
    <3>3. QED
      BY <3>1, <3>2
  <2>4. run' \in RunRecord
    BY <1>2, <2>1 DEF Record
  <2>5. QED
    BY <1>2, <2>2, <2>3, <2>4 DEF Record
<1>3. ASSUME Accept PROVE TypeOK'
  <2>1. CASE Claimed
    BY <1>3, <2>1 DEF Accept, Claimed
  <2>2. CASE ~Claimed
    BY <1>3, <2>2 DEF Accept, Used
  <2>3. QED
    BY <2>1, <2>2
<1>4. ASSUME RunEnds PROVE TypeOK'
  BY <1>4 DEF RunEnds, Claimed
<1>5. ASSUME CloseSession PROVE TypeOK'
  BY <1>5 DEF CloseSession
<1>6. ASSUME NEW old \in Turn, NEW new \in Turn, BeginEdit(old, new) PROVE TypeOK'
  BY <1>6 DEF BeginEdit
<1>7. ASSUME WriteJournal PROVE TypeOK'
  <2>1. job.turn \in Turn /\ edits' = edits + 1 /\ edits' \in Edit
    BY <1>7 DEF WriteJournal, Used, Step, Edit
  <2>2. job' \in Job /\ job'.step \notin FinalSteps
    BY <1>7, <2>1 DEF WriteJournal
  <2>3. journal' \in [Edit -> Turn \union {None}]
    BY <1>7, <2>1 DEF WriteJournal
  <2>4. run' \in RunRecord \union {None}
    BY <1>7 DEF WriteJournal
  <2>5. UNCHANGED <<transcript, backup, gateway, pending, used, told, gone>>
    BY <1>7 DEF WriteJournal
  <2>6. edits' \in 0..MaxEdits
    BY <2>1 DEF Edit
  <2>7. QED
    BY <2>2, <2>3, <2>4, <2>5, <2>6
<1>8. ASSUME RefuseEdit PROVE TypeOK'
  BY <1>8 DEF RefuseEdit
<1>9. ASSUME WriteBackup PROVE TypeOK'
  BY <1>9 DEF WriteBackup
<1>10. ASSUME CutLastTurn PROVE TypeOK'
  <2>1. Front(job.body) \in Seq(Turn) /\ job.tx \in Edit /\ job.turn \in Turn
    BY <1>10, FrontAndLast DEF CutLastTurn, Used, Step
  <2>2. QED
    BY <1>10, <2>1 DEF CutLastTurn
<1>11. ASSUME EditFails PROVE TypeOK'
  BY <1>11 DEF EditFails
<1>12. ASSUME UndoBackup PROVE TypeOK'
  BY <1>12 DEF UndoBackup
<1>13. ASSUME UndoJournal PROVE TypeOK'
  BY <1>13 DEF UndoJournal
<1>14. ASSUME BeginRollback PROVE TypeOK'
  BY <1>14 DEF BeginRollback
<1>15. ASSUME RestoreBackup PROVE TypeOK'
  BY <1>15 DEF RestoreBackup
<1>16. ASSUME UnlinkBackup PROVE TypeOK'
  BY <1>16 DEF UnlinkBackup
<1>17. ASSUME UnlinkJournal PROVE TypeOK'
  <2>1. told' \subseteq used /\ pending' = None /\ job' = None
    BY <1>17 DEF UnlinkJournal, Announced, Used
  <2>2. journal' \in [Edit -> Turn \union {None}] /\ run' \in RunRecord \union {None}
    BY <1>17 DEF UnlinkJournal, Announced
  <2>3. QED
    BY <1>17, <2>1, <2>2 DEF UnlinkJournal, Announced
<1>18. ASSUME CommitLeavesFiles PROVE TypeOK'
  <2>1. told' \subseteq used /\ pending' = None /\ job' = None
    BY <1>18 DEF CommitLeavesFiles, Announced, Used
  <2>2. run' \in RunRecord \union {None}
    BY <1>18 DEF CommitLeavesFiles, Announced
  <2>3. QED
    BY <1>18, <2>1, <2>2 DEF CommitLeavesFiles, Announced
<1>19. ASSUME RollbackFails PROVE TypeOK'
  BY <1>19 DEF RollbackFails
<1>20. ASSUME Crash PROVE TypeOK'
  BY <1>20 DEF Crash
<1>21. ASSUME Recover PROVE TypeOK'
  <2>1. CASE MustRestore
    BY <1>21, <2>1, LatestHasFiles DEF Recover, MustRestore, Artifacts
  <2>2. CASE ~MustRestore
    BY <1>21, <2>2 DEF Recover
  <2>3. QED
    BY <2>1, <2>2
<1>22. ASSUME NEW x \in Edit, Clean(x) PROVE TypeOK'
  BY <1>22 DEF Clean
<1>23. ASSUME Serve PROVE TypeOK'
  BY <1>23 DEF Serve
<1>24. ASSUME RecoveryFails PROVE TypeOK'
  BY <1>24 DEF RecoveryFails
<1>25. ASSUME UNCHANGED vars PROVE TypeOK'
  BY <1>25 DEF vars
<1>26. QED
  BY <1>1, <1>2, <1>3, <1>4, <1>5, <1>6, <1>7, <1>8, <1>9, <1>10, <1>11, <1>12, <1>13, <1>14, <1>15, <1>16, <1>17, <1>18, <1>19, <1>20, <1>21, <1>22, <1>23, <1>24, <1>25
  DEF Next, Run, EditStep, Finalize, StartUp

(* What is on disk was submitted before. *)
LEMMA UsedStep == TypeOK /\ Used /\ TypeOK' /\ [Next]_vars => Used'
<1> SUFFICES ASSUME TypeOK, Used, TypeOK', [Next]_vars PROVE Used'
  OBVIOUS
<1> USE DEF TypeOK, disk, memory, ledger, RunRecord, Replacement, Job, Phases, EditSteps, FinalSteps, Used, Step
<1>1. ASSUME NEW t \in Turn, Submit(t) PROVE Used'
  BY <1>1 DEF Submit, Editing
<1>2. ASSUME Record PROVE Used'
  <2>1. run.turn \in used /\ used' = used /\ run'.turn = run.turn
    BY <1>2 DEF Record
  <2>2. Range(transcript') \subseteq used
    <3>1. transcript' = Append(transcript, run.turn) \/ transcript' = transcript
      BY <1>2 DEF Record
    <3>2. Range(Append(transcript, run.turn)) = Range(transcript) \union {run.turn}
      BY <2>1, AppendOne
    <3>3. QED
      BY <2>1, <3>1, <3>2
  <2>3. UNCHANGED <<backup, job, edits>>
    BY <1>2 DEF Record
  <2>4. QED
    BY <2>1, <2>2, <2>3
<1>3. ASSUME Accept PROVE Used'
  BY <1>3 DEF Accept, Claimed
<1>4. ASSUME RunEnds PROVE Used'
  BY <1>4 DEF RunEnds, Claimed
<1>5. ASSUME CloseSession PROVE Used'
  BY <1>5 DEF CloseSession
<1>6. ASSUME NEW old \in Turn, NEW new \in Turn, BeginEdit(old, new) PROVE Used'
  BY <1>6 DEF BeginEdit
<1>7. ASSUME WriteJournal PROVE Used'
  BY <1>7 DEF WriteJournal
<1>8. ASSUME RefuseEdit PROVE Used'
  BY <1>8 DEF RefuseEdit
<1>9. ASSUME WriteBackup PROVE Used'
  BY <1>9 DEF WriteBackup
<1>10. ASSUME CutLastTurn PROVE Used'
  <2>1. Range(Front(job.body)) \subseteq used
    BY <1>10, FrontAndLast DEF CutLastTurn
  <2>2. QED
    BY <1>10, <2>1 DEF CutLastTurn
<1>11. ASSUME EditFails PROVE Used'
  BY <1>11 DEF EditFails
<1>12. ASSUME UndoBackup PROVE Used'
  BY <1>12 DEF UndoBackup
<1>13. ASSUME UndoJournal PROVE Used'
  BY <1>13 DEF UndoJournal
<1>14. ASSUME BeginRollback PROVE Used'
  BY <1>14 DEF BeginRollback
<1>15. ASSUME RestoreBackup PROVE Used'
  BY <1>15 DEF RestoreBackup
<1>16. ASSUME UnlinkBackup PROVE Used'
  BY <1>16 DEF UnlinkBackup
<1>17. ASSUME UnlinkJournal PROVE Used'
  BY <1>17 DEF UnlinkJournal, Announced
<1>18. ASSUME CommitLeavesFiles PROVE Used'
  BY <1>18 DEF CommitLeavesFiles, Announced
<1>19. ASSUME RollbackFails PROVE Used'
  BY <1>19 DEF RollbackFails
<1>20. ASSUME Crash PROVE Used'
  BY <1>20 DEF Crash
<1>21. ASSUME Recover PROVE Used'
  <2>1. CASE MustRestore
    BY <1>21, <2>1, LatestHasFiles DEF Recover, MustRestore, Artifacts
  <2>2. CASE ~MustRestore
    BY <1>21, <2>2 DEF Recover
  <2>3. QED
    BY <2>1, <2>2
<1>22. ASSUME NEW x \in Edit, Clean(x) PROVE Used'
  BY <1>22 DEF Clean
<1>23. ASSUME Serve PROVE Used'
  BY <1>23 DEF Serve
<1>24. ASSUME RecoveryFails PROVE Used'
  BY <1>24 DEF RecoveryFails
<1>25. ASSUME UNCHANGED vars PROVE Used'
  BY <1>25 DEF vars
<1>26. QED
  BY <1>1, <1>2, <1>3, <1>4, <1>5, <1>6, <1>7, <1>8, <1>9, <1>10, <1>11, <1>12, <1>13, <1>14, <1>15, <1>16, <1>17, <1>18, <1>19, <1>20, <1>21, <1>22, <1>23, <1>24, <1>25
  DEF Next, Run, EditStep, Finalize, StartUp

(* Edits and rollbacks keep sessions out. *)
LEMMA AloneStep == TypeOK /\ Alone /\ TypeOK' /\ [Next]_vars => Alone'
<1> SUFFICES ASSUME TypeOK, Alone, TypeOK', [Next]_vars PROVE Alone'
  OBVIOUS
<1> USE DEF TypeOK, disk, memory, ledger, RunRecord, Replacement, Job, Phases, EditSteps, FinalSteps, Alone, Step, Final
<1>1. ASSUME NEW t \in Turn, Submit(t) PROVE Alone'
  BY <1>1 DEF Submit, Editing
<1>2. ASSUME Record PROVE Alone'
  BY <1>2 DEF Record, Claimed
<1>3. ASSUME Accept PROVE Alone'
  BY <1>3 DEF Accept, Claimed
<1>4. ASSUME RunEnds PROVE Alone'
  BY <1>4 DEF RunEnds, Claimed
<1>5. ASSUME CloseSession PROVE Alone'
  BY <1>5 DEF CloseSession
<1>6. ASSUME NEW old \in Turn, NEW new \in Turn, BeginEdit(old, new) PROVE Alone'
  BY <1>6 DEF BeginEdit
<1>7. ASSUME WriteJournal PROVE Alone'
  BY <1>7 DEF WriteJournal
<1>8. ASSUME RefuseEdit PROVE Alone'
  BY <1>8 DEF RefuseEdit
<1>9. ASSUME WriteBackup PROVE Alone'
  BY <1>9 DEF WriteBackup
<1>10. ASSUME CutLastTurn PROVE Alone'
  BY <1>10 DEF CutLastTurn
<1>11. ASSUME EditFails PROVE Alone'
  BY <1>11 DEF EditFails
<1>12. ASSUME UndoBackup PROVE Alone'
  BY <1>12 DEF UndoBackup
<1>13. ASSUME UndoJournal PROVE Alone'
  BY <1>13 DEF UndoJournal
<1>14. ASSUME BeginRollback PROVE Alone'
  BY <1>14 DEF BeginRollback
<1>15. ASSUME RestoreBackup PROVE Alone'
  BY <1>15 DEF RestoreBackup
<1>16. ASSUME UnlinkBackup PROVE Alone'
  BY <1>16 DEF UnlinkBackup
<1>17. ASSUME UnlinkJournal PROVE Alone'
  BY <1>17 DEF UnlinkJournal, Announced
<1>18. ASSUME CommitLeavesFiles PROVE Alone'
  BY <1>18 DEF CommitLeavesFiles, Announced
<1>19. ASSUME RollbackFails PROVE Alone'
  BY <1>19 DEF RollbackFails
<1>20. ASSUME Crash PROVE Alone'
  BY <1>20 DEF Crash
<1>21. ASSUME Recover PROVE Alone'
  BY <1>21 DEF Recover
<1>22. ASSUME NEW x \in Edit, Clean(x) PROVE Alone'
  BY <1>22 DEF Clean
<1>23. ASSUME Serve PROVE Alone'
  BY <1>23 DEF Serve
<1>24. ASSUME RecoveryFails PROVE Alone'
  BY <1>24 DEF RecoveryFails
<1>25. ASSUME UNCHANGED vars PROVE Alone'
  BY <1>25 DEF vars
<1>26. QED
  BY <1>1, <1>2, <1>3, <1>4, <1>5, <1>6, <1>7, <1>8, <1>9, <1>10, <1>11, <1>12, <1>13, <1>14, <1>15, <1>16, <1>17, <1>18, <1>19, <1>20, <1>21, <1>22, <1>23, <1>24, <1>25
  DEF Next, Run, EditStep, Finalize, StartUp

IInv == TypeOK /\ Used /\ Alone

(* A fresh gateway has the invariant that no fault breaks. *)
LEMMA InitInv == Init => IInv
<1> SUFFICES ASSUME Init PROVE IInv
  OBVIOUS
<1>1. <<>> \in Seq(Turn) /\ Range(<<>>) = {}
  BY DEF Range
<1>2. TypeOK
  BY <1>1 DEF Init, TypeOK, Edit
<1>3. Used /\ Alone
  BY <1>1 DEF Init, Used, Alone, Step, Final
<1>4. QED
  BY <1>2, <1>3 DEF IInv

(* That invariant is inductive, whatever may go wrong. *)
LEMMA EditsInductive == Spec => []IInv
<1>1. IInv /\ [Next]_vars => IInv'
  BY TypeStep, UsedStep, AloneStep DEF IInv
<1>2. QED
  BY <1>1, InitInv, PTL DEF Spec

(* The types of the files, the runs and the edit under way, whatever may   *)
(* go wrong: a finalization owns the pending replacement                   *)
(* (finalizeLastTurnReplacement).                                          *)
THEOREM EditTyping == Spec => []TypeOK
<1>1. IInv => TypeOK
  BY DEF IInv
<1>2. QED
  BY <1>1, EditsInductive, PTL

(* Whatever goes wrong, the transcript is rewritten only when no session   *)
(* can append to it (replaceLastTurn, the reservation in submitTurn and    *)
(* the roll back of replacements that expired).                            *)
THEOREM NoRewriteUnderRun == Spec => RewritesAlone
<1>1. ASSUME IInv, [Next]_vars, ~IsPrefix(transcript, transcript')
      PROVE  run = None \/ run.closed
  <2>1. transcript' # transcript
    BY <1>1, PrefixOfItself DEF IInv, TypeOK
  <2>2. Record \/ CutLastTurn \/ RestoreBackup \/ Recover
    BY <1>1, <2>1 DEF Next, Submit, BeginEdit, Run, Accept, RunEnds, CloseSession, EditStep,
       WriteJournal, RefuseEdit, WriteBackup, EditFails, UndoBackup, UndoJournal, Finalize,
       BeginRollback, UnlinkBackup, UnlinkJournal, CommitLeavesFiles, RollbackFails, StartUp,
       Clean, Serve, RecoveryFails, Crash, vars, disk
  <2>3. ASSUME Record PROVE FALSE
    <3>1. transcript' = Append(transcript, run.turn) /\ run.turn \in Turn
      BY <1>1, <2>1, <2>3 DEF Record, IInv, TypeOK, RunRecord
    <3>2. QED
      BY <1>1, <3>1, AppendOne DEF IInv, TypeOK
  <2>4. CASE CutLastTurn \/ RestoreBackup \/ Recover
    BY <1>1, <2>4 DEF CutLastTurn, RestoreBackup, Recover, IInv, Alone, Step, Final, EditSteps,
       FinalSteps
  <2>5. QED
    BY <2>2, <2>3, <2>4
<1>2. IInv /\ [Next]_vars =>
        [~IsPrefix(transcript, transcript') => run = None \/ run.closed]_vars
  BY <1>1
<1>3. QED
  BY <1>2, EditsInductive, PTL DEF Spec, RewritesAlone

-----------------------------------------------------------------------------
(* Recovery decides as the newest edit alone says. *)
LEMMA NewestDecides ==
    ASSUME TypeOK, Files
    PROVE  /\ Newest => /\ Artifacts # {} /\ Latest = edits
                        /\ Committed <=> journal[edits] \in Range(transcript)
           /\ MustRestore <=> Newest /\ ~Committed
<1>1. ASSUME Newest
      PROVE  /\ Artifacts # {} /\ Latest = edits
             /\ Committed <=> journal[edits] \in Range(transcript)
  <2>1. edits \in Artifacts /\ \A x \in Artifacts : x <= edits
    BY <1>1 DEF Newest, Artifacts, Files, TypeOK, Edit
  <2>2. Latest = edits
    BY <2>1, LatestHasFiles DEF Artifacts, Edit, TypeOK
  <2>3. journal[edits] # None
    BY <1>1 DEF Newest, Files
  <2>4. QED
    BY <2>1, <2>2, <2>3 DEF Committed
<1>2. CASE Newest
  BY <1>1, <1>2 DEF MustRestore, Newest
<1>3. CASE ~Newest
  <2>1. \A x \in Edit : backup[x] = None
    BY <1>3 DEF Newest, Files
  <2>2. ~MustRestore
    BY <2>1, LatestHasFiles DEF MustRestore, Artifacts
  <2>3. QED
    BY <1>3, <2>2
<1>4. QED
  BY <1>2, <1>3

(* What recovery would leave is what the newest edit says. *)
LEMMA SurvivorIs == TypeOK /\ Files => Survivor = Outlives
BY NewestDecides DEF Survivor, MustRestore, Newest, Outlives

(* What a pending edit has left of its backup. *)
LEMMA PendingTurns ==
    ASSUME IInv, Faultless, pending # None, Prepared
    PROVE  /\ backup[edits] \in Seq(Turn) /\ pending.turn \in Turn /\ Newest
           /\ Front(backup[edits]) \in Seq(Turn)
           /\ Range(backup[edits]) = Range(Front(backup[edits])) \union {Last(backup[edits])}
           /\ Recorded => /\ Range(transcript) = Range(Front(backup[edits])) \union {pending.turn}
                          /\ Outlives = transcript
           /\ ~Recorded => transcript = Front(backup[edits]) /\ Outlives = backup[edits]
           /\ Recorded <=> pending.turn \in Range(transcript)
<1>1. backup[edits] \in Seq(Turn) /\ backup[edits] # <<>> /\ pending.turn \in Turn /\ Newest
      /\ journal[edits] = pending.turn
  BY DEF IInv, TypeOK, Replacement, Used, Faultless, UnderWay, Stages, Newest
<1>2. /\ Front(backup[edits]) \in Seq(Turn)
      /\ Range(backup[edits]) = Range(Front(backup[edits])) \union {Last(backup[edits])}
  BY <1>1, FrontAndLast
<1>3. Recorded => Range(transcript) = Range(Front(backup[edits])) \union {pending.turn}
  BY <1>1, <1>2, AppendOne DEF Recorded
<1>4. (Recorded \/ transcript = Front(backup[edits])) /\ pending.turn \notin Range(backup[edits])
  BY DEF Faultless, Stages
<1>5. QED
  BY <1>1, <1>2, <1>3, <1>4 DEF Outlives

(* A run that records appends to a transcript that it has for itself, and  *)
(* a pending edit is its own.                                              *)
LEMMA RecordEffects ==
    ASSUME Faults = {}, IInv, Faultless, Record
    PROVE  /\ run # None /\ run.at = "starting" /\ run.turn \in Turn
           /\ run' # None /\ run'.turn = run.turn /\ run'.at = "recorded" /\ run'.closed = run.closed
           /\ transcript' = Append(transcript, run.turn)
           /\ Range(transcript)' = Range(transcript) \union {run.turn}
           /\ UNCHANGED <<backup, journal, edits, gateway, pending, job, used, told>>
           /\ Outlives' = transcript'
           /\ IF pending = None
              THEN ~Newest /\ gone' = gone
              ELSE /\ Claimed /\ job = None /\ Newest /\ ~Recorded
                   /\ transcript = Front(backup[edits]) /\ Outlives = backup[edits]
                   /\ gone' = gone \union {Last(backup[edits])}
<1> USE DEF IInv, Faultless
<1>1. /\ run # None /\ run \in RunRecord /\ run.at = "starting" /\ run.turn \in Turn /\ ~run.closed
      /\ transcript' = Append(transcript, run.turn)
      /\ run' = [run EXCEPT !.at = "recorded"]
      /\ UNCHANGED <<backup, journal, edits, gateway, pending, job, used, told>>
  BY DEF Record, TypeOK, RunRecord
<1>2. run' # None /\ run'.turn = run.turn /\ run'.at = "recorded" /\ run'.closed = run.closed
  <2>1. run' \in RunRecord
    BY <1>1 DEF RunRecord
  <2>2. QED
    BY <1>1, <2>1 DEF RunRecord
<1>3. Range(transcript') = Range(transcript) \union {run.turn}
  BY <1>1, AppendOne DEF TypeOK
<1>4. ASSUME pending = None PROVE ~Newest /\ gone' = gone
  <2>1. gateway = "up" /\ ~Step({"rename", "undoBackup"})
    BY <1>1 DEF Alone, Step, EditSteps
  <2>2. QED
    BY <1>4, <2>1 DEF Stages, Record, Claimed
<1>5. ASSUME pending # None
      PROVE  /\ Claimed /\ job = None /\ Newest /\ ~Recorded
             /\ transcript = Front(backup[edits]) /\ Outlives = backup[edits]
             /\ gone' = gone \union {Last(backup[edits])}
             /\ journal[edits] = run.turn
  <2>1. Claimed
    BY <1>1, <1>5 DEF Runs, Claimed
  <2>2. job = None
    BY <2>1 DEF Claimed, Alone, TypeOK, Step, Job, EditSteps, FinalSteps
  <2>3. transcript = Front(backup[edits]) /\ pending.tx = edits /\ journal[edits] = run.turn
    BY <1>1, <2>1 DEF Claimed, Runs, UnderWay
  <2>4. run.turn \notin Range(Outlives)
    BY <1>1 DEF Runs
  <2>5. ~Recorded /\ Newest /\ Outlives = backup[edits]
    BY <1>5, <2>1, <2>2, <2>4, PendingTurns DEF Prepared, Claimed
  <2>6. gone' = gone \union {Last(backup[edits])}
    BY <2>1, <2>3, <2>5 DEF Record, Newest
  <2>7. QED
    BY <2>1, <2>2, <2>3, <2>5, <2>6
<1>6. Outlives' = transcript'
  BY <1>1, <1>3, <1>4, <1>5 DEF Outlives, Newest
<1>7. QED
  BY <1>1, <1>2, <1>3, <1>4, <1>5, <1>6

(* No step leaves a backup behind that a later edit would meet.            *)
LEMMA FilesStep == Faults = {} /\ IInv /\ IInv' /\ Faultless /\ [Next]_vars => Files'
<1> SUFFICES ASSUME Faults = {}, IInv, IInv', Faultless, [Next]_vars PROVE Files'
  OBVIOUS
<1> USE DEF IInv, TypeOK, disk, memory, ledger, RunRecord, Replacement, Job, Phases, EditSteps, FinalSteps, Step, Final, Edit, Alone, Used, Faultless, Files, Stages, Newest, UnderWay
<1>1. ASSUME NEW t \in Turn, Submit(t) PROVE Files'
  BY <1>1 DEF Submit, Editing
<1>2. ASSUME Record PROVE Files'
  BY <1>2 DEF Record, Claimed
<1>3. ASSUME Accept PROVE Files'
  BY <1>3 DEF Accept, Claimed
<1>4. ASSUME RunEnds PROVE Files'
  BY <1>4 DEF RunEnds, Claimed
<1>5. ASSUME CloseSession PROVE Files'
  BY <1>5 DEF CloseSession
<1>6. ASSUME NEW old \in Turn, NEW new \in Turn, BeginEdit(old, new) PROVE Files'
  BY <1>6 DEF BeginEdit
<1>7. ASSUME WriteJournal PROVE Files'
  BY <1>7 DEF WriteJournal
<1>8. ASSUME RefuseEdit PROVE Files'
  BY <1>8 DEF RefuseEdit
<1>9. ASSUME WriteBackup PROVE Files'
  BY <1>9 DEF WriteBackup
<1>10. ASSUME CutLastTurn PROVE Files'
  BY <1>10 DEF CutLastTurn
<1>11. ASSUME EditFails PROVE Files'
  BY <1>11 DEF EditFails
<1>12. ASSUME UndoBackup PROVE Files'
  BY <1>12 DEF UndoBackup
<1>13. ASSUME UndoJournal PROVE Files'
  BY <1>13 DEF UndoJournal
<1>14. ASSUME BeginRollback PROVE Files'
  BY <1>14 DEF BeginRollback
<1>15. ASSUME RestoreBackup PROVE Files'
  BY <1>15 DEF RestoreBackup
<1>16. ASSUME UnlinkBackup PROVE Files'
  BY <1>16 DEF UnlinkBackup
<1>17. ASSUME UnlinkJournal PROVE Files'
  BY <1>17 DEF UnlinkJournal, Announced
<1>18. ASSUME CommitLeavesFiles PROVE Files'
  BY <1>18 DEF CommitLeavesFiles, Announced
<1>19. ASSUME RollbackFails PROVE Files'
  BY <1>19 DEF RollbackFails
<1>20. ASSUME Crash PROVE Files'
  BY <1>20 DEF Crash
<1>21. ASSUME Recover PROVE Files'
  BY <1>21 DEF Recover
<1>22. ASSUME NEW x \in Edit, Clean(x) PROVE Files'
  <2>1. CASE backup[x] # None
    BY <1>22, <2>1 DEF Clean
  <2>2. CASE backup[x] = None
    <3>1. /\ UNCHANGED <<backup, edits>>
          /\ \A y \in Edit : journal'[y] = IF y = x THEN None ELSE journal[y]
      BY <1>22, <2>2 DEF Clean
    <3>2. (\A y \in Edit : y > edits => journal[y] = None)
          /\ \A y \in Edit : backup[y] # None => y = edits /\ journal[y] # None
      OBVIOUS
    <3>3. QED
      BY <2>2, <3>1, <3>2 DEF Files
  <2>3. QED
    BY <2>1, <2>2
<1>23. ASSUME Serve PROVE Files'
  BY <1>23 DEF Serve
<1>24. ASSUME RecoveryFails PROVE Files'
  BY <1>24 DEF RecoveryFails
<1>25. ASSUME UNCHANGED vars PROVE Files'
  BY <1>25 DEF vars
<1>26. QED
  BY <1>1, <1>2, <1>3, <1>4, <1>5, <1>6, <1>7, <1>8, <1>9, <1>10, <1>11, <1>12, <1>13, <1>14, <1>15, <1>16, <1>17, <1>18, <1>19, <1>20, <1>21, <1>22, <1>23, <1>24, <1>25
  DEF Next, Run, EditStep, Finalize, StartUp

(* A run cannot take the turn of an edit before the edit is prepared.      *)
LEMMA UnsubmittedStep == Faults = {} /\ IInv /\ IInv' /\ Faultless /\ [Next]_vars => Unsubmitted'
<1> SUFFICES ASSUME Faults = {}, IInv, IInv', Faultless, [Next]_vars PROVE Unsubmitted'
  OBVIOUS
<1> USE DEF IInv, TypeOK, disk, memory, ledger, RunRecord, Replacement, Job, Phases, EditSteps, FinalSteps, Step, Final, Edit, Alone, Used, Faultless, Unsubmitted
<1>1. ASSUME NEW t \in Turn, Submit(t) PROVE Unsubmitted'
  BY <1>1 DEF Submit, Editing
<1>2. ASSUME Record PROVE Unsubmitted'
  BY <1>2 DEF Record, Claimed
<1>3. ASSUME Accept PROVE Unsubmitted'
  BY <1>3 DEF Accept, Claimed
<1>4. ASSUME RunEnds PROVE Unsubmitted'
  BY <1>4 DEF RunEnds, Claimed
<1>5. ASSUME CloseSession PROVE Unsubmitted'
  BY <1>5 DEF CloseSession
<1>6. ASSUME NEW old \in Turn, NEW new \in Turn, BeginEdit(old, new) PROVE Unsubmitted'
  BY <1>6 DEF BeginEdit
<1>7. ASSUME WriteJournal PROVE Unsubmitted'
  BY <1>7 DEF WriteJournal
<1>8. ASSUME RefuseEdit PROVE Unsubmitted'
  BY <1>8 DEF RefuseEdit
<1>9. ASSUME WriteBackup PROVE Unsubmitted'
  BY <1>9 DEF WriteBackup
<1>10. ASSUME CutLastTurn PROVE Unsubmitted'
  BY <1>10 DEF CutLastTurn
<1>11. ASSUME EditFails PROVE Unsubmitted'
  BY <1>11 DEF EditFails
<1>12. ASSUME UndoBackup PROVE Unsubmitted'
  BY <1>12 DEF UndoBackup
<1>13. ASSUME UndoJournal PROVE Unsubmitted'
  BY <1>13 DEF UndoJournal
<1>14. ASSUME BeginRollback PROVE Unsubmitted'
  BY <1>14 DEF BeginRollback
<1>15. ASSUME RestoreBackup PROVE Unsubmitted'
  BY <1>15 DEF RestoreBackup
<1>16. ASSUME UnlinkBackup PROVE Unsubmitted'
  BY <1>16 DEF UnlinkBackup
<1>17. ASSUME UnlinkJournal PROVE Unsubmitted'
  BY <1>17 DEF UnlinkJournal, Announced
<1>18. ASSUME CommitLeavesFiles PROVE Unsubmitted'
  BY <1>18 DEF CommitLeavesFiles, Announced
<1>19. ASSUME RollbackFails PROVE Unsubmitted'
  BY <1>19 DEF RollbackFails
<1>20. ASSUME Crash PROVE Unsubmitted'
  BY <1>20 DEF Crash
<1>21. ASSUME Recover PROVE Unsubmitted'
  BY <1>21 DEF Recover
<1>22. ASSUME NEW x \in Edit, Clean(x) PROVE Unsubmitted'
  BY <1>22 DEF Clean
<1>23. ASSUME Serve PROVE Unsubmitted'
  BY <1>23 DEF Serve
<1>24. ASSUME RecoveryFails PROVE Unsubmitted'
  BY <1>24 DEF RecoveryFails
<1>25. ASSUME UNCHANGED vars PROVE Unsubmitted'
  BY <1>25 DEF vars
<1>26. QED
  BY <1>1, <1>2, <1>3, <1>4, <1>5, <1>6, <1>7, <1>8, <1>9, <1>10, <1>11, <1>12, <1>13, <1>14, <1>15, <1>16, <1>17, <1>18, <1>19, <1>20, <1>21, <1>22, <1>23, <1>24, <1>25
  DEF Next, Run, EditStep, Finalize, StartUp

(* The edit under way stays the newest, and the transcript that it read     *)
(* stays the transcript until it is cut.                                   *)
LEMMA UnderWayStep == Faults = {} /\ IInv /\ IInv' /\ Faultless /\ [Next]_vars => UnderWay'
<1> SUFFICES ASSUME Faults = {}, IInv, IInv', Faultless, [Next]_vars PROVE UnderWay'
  OBVIOUS
<1> USE DEF IInv, TypeOK, disk, memory, ledger, RunRecord, Replacement, Job, Phases, EditSteps, FinalSteps, Step, Final, Edit, Alone, Used, Faultless, UnderWay, Stages, Unsubmitted, Prepared
<1>1. ASSUME NEW t \in Turn, Submit(t) PROVE UnderWay'
  BY <1>1 DEF Submit, Editing
<1>2. ASSUME Record PROVE UnderWay'
  BY <1>2 DEF Record, Claimed
<1>3. ASSUME Accept PROVE UnderWay'
  BY <1>3 DEF Accept, Claimed
<1>4. ASSUME RunEnds PROVE UnderWay'
  BY <1>4 DEF RunEnds, Claimed
<1>5. ASSUME CloseSession PROVE UnderWay'
  BY <1>5 DEF CloseSession
<1>6. ASSUME NEW old \in Turn, NEW new \in Turn, BeginEdit(old, new) PROVE UnderWay'
  BY <1>6 DEF BeginEdit
<1>7. ASSUME WriteJournal PROVE UnderWay'
  BY <1>7 DEF WriteJournal
<1>8. ASSUME RefuseEdit PROVE UnderWay'
  BY <1>8 DEF RefuseEdit
<1>9. ASSUME WriteBackup PROVE UnderWay'
  BY <1>9 DEF WriteBackup
<1>10. ASSUME CutLastTurn PROVE UnderWay'
  BY <1>10 DEF CutLastTurn
<1>11. ASSUME EditFails PROVE UnderWay'
  BY <1>11 DEF EditFails
<1>12. ASSUME UndoBackup PROVE UnderWay'
  BY <1>12 DEF UndoBackup
<1>13. ASSUME UndoJournal PROVE UnderWay'
  BY <1>13 DEF UndoJournal
<1>14. ASSUME BeginRollback PROVE UnderWay'
  BY <1>14 DEF BeginRollback
<1>15. ASSUME RestoreBackup PROVE UnderWay'
  BY <1>15 DEF RestoreBackup
<1>16. ASSUME UnlinkBackup PROVE UnderWay'
  BY <1>16 DEF UnlinkBackup
<1>17. ASSUME UnlinkJournal PROVE UnderWay'
  BY <1>17 DEF UnlinkJournal, Announced
<1>18. ASSUME CommitLeavesFiles PROVE UnderWay'
  BY <1>18 DEF CommitLeavesFiles, Announced
<1>19. ASSUME RollbackFails PROVE UnderWay'
  BY <1>19 DEF RollbackFails
<1>20. ASSUME Crash PROVE UnderWay'
  BY <1>20 DEF Crash
<1>21. ASSUME Recover PROVE UnderWay'
  BY <1>21 DEF Recover
<1>22. ASSUME NEW x \in Edit, Clean(x) PROVE UnderWay'
  BY <1>22 DEF Clean
<1>23. ASSUME Serve PROVE UnderWay'
  BY <1>23 DEF Serve
<1>24. ASSUME RecoveryFails PROVE UnderWay'
  BY <1>24 DEF RecoveryFails
<1>25. ASSUME UNCHANGED vars PROVE UnderWay'
  BY <1>25 DEF vars
<1>26. QED
  BY <1>1, <1>2, <1>3, <1>4, <1>5, <1>6, <1>7, <1>8, <1>9, <1>10, <1>11, <1>12, <1>13, <1>14, <1>15, <1>16, <1>17, <1>18, <1>19, <1>20, <1>21, <1>22, <1>23, <1>24, <1>25
  DEF Next, Run, EditStep, Finalize, StartUp

(* Every step keeps what the transcript is to the backup of the edit.      *)
LEMMA StagesStep == Faults = {} /\ IInv /\ IInv' /\ Faultless /\ [Next]_vars => Stages'
<1> SUFFICES ASSUME Faults = {}, IInv, IInv', Faultless, [Next]_vars PROVE Stages'
  OBVIOUS
<1> USE DEF IInv, TypeOK, disk, memory, ledger, RunRecord, Replacement, Job, Phases, EditSteps, FinalSteps, Step, Final, Edit, Alone, Used, Faultless, Files, UnderWay, Stages, Newest, Recorded, Prepared, Outlives, Unsubmitted, Runs
<1>1. ASSUME NEW t \in Turn, Submit(t) PROVE Stages'
  BY <1>1 DEF Submit, Editing
<1>2. ASSUME Record PROVE Stages'
  BY <1>2 DEF Record, Claimed
<1>3. ASSUME Accept PROVE Stages'
  <2>1. CASE Claimed
    <3>1. Prepared /\ run.turn = pending.turn /\ run.turn \in Range(Outlives)
      BY <1>3, <2>1 DEF Accept, Claimed
    <3>2. Recorded /\ pending.turn \in Range(transcript)
      BY <2>1, <3>1, PendingTurns DEF Claimed
    <3>3. /\ UNCHANGED <<transcript, backup, edits, gateway, journal>>
          /\ pending' = [pending EXCEPT !.phase = "finalizing"]
          /\ job' = [step |-> "unlinkBackup", for |-> "commit", tx |-> pending.tx]
      BY <1>3, <2>1 DEF Accept
    <3>4. pending' # None /\ pending'.turn = pending.turn /\ pending # None
      BY <2>1, <3>3 DEF Claimed
    <3>5. ~Step({"rename"})' /\ ~Step({"undoBackup"})' /\ ~Step({"unlinkJournal"})' /\ ~Prepared'
      <4>1. job' \in Job /\ job'.step = "unlinkBackup"
        BY <2>1, <3>3 DEF Claimed
      <4>2. QED
        BY <4>1
    <3>6. backup[edits] # None /\ pending.turn \notin Range(backup[edits]) /\ Recorded'
      BY <3>1, <3>2, <3>3, <3>4
    <3>7. gateway = "up"
      BY <2>1 DEF Claimed
    <3>8. QED
      BY <3>2, <3>3, <3>4, <3>5, <3>6, <3>7
  <2>2. CASE ~Claimed
    BY <1>3, <2>2 DEF Accept
  <2>3. QED
    BY <2>1, <2>2
<1>4. ASSUME RunEnds PROVE Stages'
  <2>1. UNCHANGED <<transcript, backup, journal, edits, gateway, job>>
    BY <1>4 DEF RunEnds
  <2>2. (pending' = None <=> pending = None) /\ (pending # None => pending'.turn = pending.turn)
    BY <1>4 DEF RunEnds, Claimed
  <2>3. /\ Recorded' <=> transcript = Append(Front(backup[edits]), pending'.turn)
        /\ Prepared' <=> Prepared /\ Outlives' = Outlives
    BY <2>1
  <2>4. Step(FinalSteps) => pending # None
    OBVIOUS
  <2>5. QED
    BY <2>1, <2>2, <2>3, <2>4
<1>5. ASSUME CloseSession PROVE Stages'
  BY <1>5 DEF CloseSession
<1>6. ASSUME NEW old \in Turn, NEW new \in Turn, BeginEdit(old, new) PROVE Stages'
  BY <1>6 DEF BeginEdit
<1>7. ASSUME WriteJournal PROVE Stages'
  BY <1>7 DEF WriteJournal
<1>8. ASSUME RefuseEdit PROVE Stages'
  BY <1>8 DEF RefuseEdit
<1>9. ASSUME WriteBackup PROVE Stages'
  BY <1>9 DEF WriteBackup
<1>10. ASSUME CutLastTurn PROVE Stages'
  BY <1>10 DEF CutLastTurn
<1>11. ASSUME EditFails PROVE Stages'
  BY <1>11 DEF EditFails
<1>12. ASSUME UndoBackup PROVE Stages'
  BY <1>12 DEF UndoBackup
<1>13. ASSUME UndoJournal PROVE Stages'
  BY <1>13 DEF UndoJournal
<1>14. ASSUME BeginRollback PROVE Stages'
  BY <1>14 DEF BeginRollback
<1>15. ASSUME RestoreBackup PROVE Stages'
  BY <1>15 DEF RestoreBackup
<1>16. ASSUME UnlinkBackup PROVE Stages'
  BY <1>16 DEF UnlinkBackup
<1>17. ASSUME UnlinkJournal PROVE Stages'
  BY <1>17 DEF UnlinkJournal, Announced
<1>18. ASSUME CommitLeavesFiles PROVE Stages'
  BY <1>18 DEF CommitLeavesFiles, Announced
<1>19. ASSUME RollbackFails PROVE Stages'
  BY <1>19 DEF RollbackFails
<1>20. ASSUME Crash PROVE Stages'
  BY <1>20 DEF Crash
<1>21. ASSUME Recover PROVE Stages'
  <2>1. UNCHANGED <<backup, journal, edits, pending, job>> /\ pending = None /\ job = None
    BY <1>21 DEF Recover
  <2>2. CASE MustRestore
    BY <1>21, <2>1, <2>2, NewestDecides DEF Recover
  <2>3. CASE ~MustRestore
    <3>1. transcript' = transcript
          /\ gateway' = IF Artifacts # {} /\ Committed THEN "cleaning" ELSE "up"
      BY <1>21, <2>3 DEF Recover
    <3>2. Newest => Committed /\ Artifacts # {} /\ journal[edits] \in Range(transcript)
      BY <2>3, NewestDecides
    <3>3. QED
      BY <2>1, <3>1, <3>2
  <2>4. QED
    BY <2>2, <2>3
<1>22. ASSUME NEW x \in Edit, Clean(x) PROVE Stages'
  BY <1>22 DEF Clean
<1>23. ASSUME Serve PROVE Stages'
  <2>1. ~Newest /\ pending = None /\ job = None
    BY <1>23, NewestDecides DEF Serve
  <2>2. QED
    BY <1>23, <2>1 DEF Serve
<1>24. ASSUME RecoveryFails PROVE Stages'
  BY <1>24 DEF RecoveryFails
<1>25. ASSUME UNCHANGED vars PROVE Stages'
  BY <1>25 DEF vars
<1>26. QED
  BY <1>1, <1>2, <1>3, <1>4, <1>5, <1>6, <1>7, <1>8, <1>9, <1>10, <1>11, <1>12, <1>13, <1>14, <1>15, <1>16, <1>17, <1>18, <1>19, <1>20, <1>21, <1>22, <1>23, <1>24, <1>25
  DEF Next, Run, EditStep, Finalize, StartUp

(* A run records once, and only the run of the edit meets the pending one.  *)
LEMMA RunsStep == Faults = {} /\ IInv /\ IInv' /\ Faultless /\ [Next]_vars => Runs'
<1> SUFFICES ASSUME Faults = {}, IInv, IInv', Faultless, [Next]_vars PROVE Runs'
  OBVIOUS
<1> USE DEF IInv, TypeOK, disk, memory, ledger, RunRecord, Replacement, Job, Phases, EditSteps, FinalSteps, Step, Final, Edit, Alone, Used, Faultless, Files, UnderWay, Stages, Runs, Newest, Recorded, Prepared, Outlives, Unsubmitted
<1>1. ASSUME NEW t \in Turn, Submit(t) PROVE Runs'
  <2>1. UNCHANGED <<transcript, backup, journal, edits, gateway, job, told>> /\ t \notin used
        /\ run' = [turn |-> t, at |-> "starting", closed |-> FALSE]
    BY <1>1 DEF Submit
  <2>2. Range(Outlives) \subseteq used
    OBVIOUS
  <2>3. CASE pending = None
    BY <1>1, <2>1, <2>2, <2>3 DEF Submit
  <2>4. CASE pending # None
    <3>1. pending.turn = t /\ pending.phase = "prepared" /\ pending' = [pending EXCEPT !.phase = "submitting"]
      BY <1>1, <2>4 DEF Submit
    <3>2. job = None
      BY <2>4, <3>1
    <3>3. ~Recorded
      BY <2>1, <2>4, <3>1, <3>2, PendingTurns
    <3>4. transcript = Front(backup[edits])
      BY <2>4, <3>2, <3>3, PendingTurns
    <3>5. /\ pending' # None /\ pending'.turn = t /\ pending'.phase = "submitting"
          /\ run' # None /\ run'.turn = t /\ run'.at = "starting" /\ ~run'.closed
      <4>1. pending' \in Replacement /\ run' \in RunRecord
        BY <2>1, <2>4, <3>1
      <4>2. QED
        BY <2>1, <2>4, <3>1, <4>1
    <3>6. t \notin Range(Outlives)' /\ t \notin told' /\ ~Final("commit")'
      BY <2>1, <2>2, <3>2
    <3>7. transcript' = Front(backup[edits])'
      BY <2>1, <3>4
    <3>8. QED
      BY <3>5, <3>6, <3>7 DEF Runs
  <2>5. QED
    BY <2>3, <2>4
<1>2. ASSUME Record PROVE Runs'
  <2>1. /\ run' # None /\ run'.turn = run.turn /\ run'.at = "recorded" /\ run'.closed = run.closed
        /\ UNCHANGED <<pending, job, used, told>>
        /\ run.turn \in Range(Outlives)'
    BY <1>2, RecordEffects
  <2>2. run # None /\ run.at = "starting" /\ (Final("commit")' <=> Final("commit"))
    BY <1>2, <2>1, RecordEffects
  <2>3. QED
    BY <2>1, <2>2
<1>3. ASSUME Accept PROVE Runs'
  BY <1>3 DEF Accept, Claimed
<1>4. ASSUME RunEnds PROVE Runs'
  BY <1>4 DEF RunEnds, Claimed
<1>5. ASSUME CloseSession PROVE Runs'
  BY <1>5 DEF CloseSession
<1>6. ASSUME NEW old \in Turn, NEW new \in Turn, BeginEdit(old, new) PROVE Runs'
  BY <1>6 DEF BeginEdit
<1>7. ASSUME WriteJournal PROVE Runs'
  BY <1>7 DEF WriteJournal
<1>8. ASSUME RefuseEdit PROVE Runs'
  BY <1>8 DEF RefuseEdit
<1>9. ASSUME WriteBackup PROVE Runs'
  BY <1>9 DEF WriteBackup
<1>10. ASSUME CutLastTurn PROVE Runs'
  BY <1>10 DEF CutLastTurn
<1>11. ASSUME EditFails PROVE Runs'
  BY <1>11 DEF EditFails
<1>12. ASSUME UndoBackup PROVE Runs'
  BY <1>12 DEF UndoBackup
<1>13. ASSUME UndoJournal PROVE Runs'
  BY <1>13 DEF UndoJournal
<1>14. ASSUME BeginRollback PROVE Runs'
  BY <1>14 DEF BeginRollback
<1>15. ASSUME RestoreBackup PROVE Runs'
  BY <1>15 DEF RestoreBackup
<1>16. ASSUME UnlinkBackup PROVE Runs'
  BY <1>16 DEF UnlinkBackup
<1>17. ASSUME UnlinkJournal PROVE Runs'
  BY <1>17 DEF UnlinkJournal, Announced
<1>18. ASSUME CommitLeavesFiles PROVE Runs'
  BY <1>18 DEF CommitLeavesFiles, Announced
<1>19. ASSUME RollbackFails PROVE Runs'
  BY <1>19 DEF RollbackFails
<1>20. ASSUME Crash PROVE Runs'
  BY <1>20 DEF Crash
<1>21. ASSUME Recover PROVE Runs'
  BY <1>21 DEF Recover
<1>22. ASSUME NEW x \in Edit, Clean(x) PROVE Runs'
  BY <1>22 DEF Clean
<1>23. ASSUME Serve PROVE Runs'
  BY <1>23 DEF Serve
<1>24. ASSUME RecoveryFails PROVE Runs'
  BY <1>24 DEF RecoveryFails
<1>25. ASSUME UNCHANGED vars PROVE Runs'
  BY <1>25 DEF vars
<1>26. QED
  BY <1>1, <1>2, <1>3, <1>4, <1>5, <1>6, <1>7, <1>8, <1>9, <1>10, <1>11, <1>12, <1>13, <1>14, <1>15, <1>16, <1>17, <1>18, <1>19, <1>20, <1>21, <1>22, <1>23, <1>24, <1>25
  DEF Next, Run, EditStep, Finalize, StartUp

(* A step loses an announced turn only by recording the edit that replaces it. *)
LEMMA KeptStep == Faults = {} /\ IInv /\ IInv' /\ Faultless /\ [Next]_vars => told' \ gone' \subseteq Range(Outlives)'
<1> SUFFICES ASSUME Faults = {}, IInv, IInv', Faultless, [Next]_vars PROVE told' \ gone' \subseteq Range(Outlives)'
  OBVIOUS
<1> USE DEF IInv, TypeOK, disk, memory, ledger, RunRecord, Replacement, Job, Phases, EditSteps, FinalSteps, Step, Final, Edit, Alone, Used, Faultless, Files, UnderWay, Stages, Runs, Newest, Recorded, Prepared, Outlives, Unsubmitted
<1>1. ASSUME NEW t \in Turn, Submit(t) PROVE told' \ gone' \subseteq Range(Outlives)'
  BY <1>1 DEF Submit, Editing
<1>2. ASSUME Record PROVE told' \ gone' \subseteq Range(Outlives)'
  <2>1. /\ Outlives' = transcript' /\ Range(transcript)' = Range(transcript) \union {run.turn}
        /\ told' = told
    BY <1>2, RecordEffects
  <2>2. CASE pending = None
    BY <1>2, <2>1, <2>2, RecordEffects
  <2>3. CASE pending # None
    <3>1. /\ transcript = Front(backup[edits]) /\ Outlives = backup[edits] /\ Prepared
          /\ gone' = gone \union {Last(backup[edits])}
      BY <1>2, <2>3, RecordEffects
    <3>2. Range(Outlives) = Range(transcript) \union {Last(backup[edits])}
      BY <2>3, <3>1, PendingTurns
    <3>3. QED
      BY <2>1, <3>1, <3>2
  <2>4. QED
    BY <2>2, <2>3
<1>3. ASSUME Accept PROVE told' \ gone' \subseteq Range(Outlives)'
  BY <1>3 DEF Accept, Claimed
<1>4. ASSUME RunEnds PROVE told' \ gone' \subseteq Range(Outlives)'
  BY <1>4 DEF RunEnds, Claimed
<1>5. ASSUME CloseSession PROVE told' \ gone' \subseteq Range(Outlives)'
  BY <1>5 DEF CloseSession
<1>6. ASSUME NEW old \in Turn, NEW new \in Turn, BeginEdit(old, new) PROVE told' \ gone' \subseteq Range(Outlives)'
  BY <1>6 DEF BeginEdit
<1>7. ASSUME WriteJournal PROVE told' \ gone' \subseteq Range(Outlives)'
  BY <1>7 DEF WriteJournal
<1>8. ASSUME RefuseEdit PROVE told' \ gone' \subseteq Range(Outlives)'
  BY <1>8 DEF RefuseEdit
<1>9. ASSUME WriteBackup PROVE told' \ gone' \subseteq Range(Outlives)'
  BY <1>9 DEF WriteBackup
<1>10. ASSUME CutLastTurn PROVE told' \ gone' \subseteq Range(Outlives)'
  BY <1>10 DEF CutLastTurn
<1>11. ASSUME EditFails PROVE told' \ gone' \subseteq Range(Outlives)'
  BY <1>11 DEF EditFails
<1>12. ASSUME UndoBackup PROVE told' \ gone' \subseteq Range(Outlives)'
  BY <1>12 DEF UndoBackup
<1>13. ASSUME UndoJournal PROVE told' \ gone' \subseteq Range(Outlives)'
  BY <1>13 DEF UndoJournal
<1>14. ASSUME BeginRollback PROVE told' \ gone' \subseteq Range(Outlives)'
  BY <1>14 DEF BeginRollback
<1>15. ASSUME RestoreBackup PROVE told' \ gone' \subseteq Range(Outlives)'
  <2>1. /\ pending # None /\ Prepared /\ ~Final("commit") /\ pending.turn \notin told
        /\ job.tx = edits
    BY <1>15 DEF RestoreBackup
  <2>2. /\ transcript' = backup[edits] /\ gone' = gone \ Range(backup[edits])
        /\ UNCHANGED <<backup, journal, edits, told>>
    BY <1>15, <2>1 DEF RestoreBackup
  <2>3. Outlives' = backup[edits]
    BY <2>2
  <2>4. told \ gone \subseteq Range(backup[edits])
    <3>1. Range(Outlives) \subseteq Range(backup[edits]) \union {pending.turn}
      BY <2>1, PendingTurns
    <3>2. QED
      BY <2>1, <3>1
  <2>5. QED
    BY <2>2, <2>3, <2>4
<1>16. ASSUME UnlinkBackup PROVE told' \ gone' \subseteq Range(Outlives)'
  BY <1>16 DEF UnlinkBackup
<1>17. ASSUME UnlinkJournal PROVE told' \ gone' \subseteq Range(Outlives)'
  <2>1. Step({"unlinkJournal"}) /\ pending # None /\ ~Newest /\ Outlives = transcript
    BY <1>17 DEF UnlinkJournal
  <2>2. /\ UNCHANGED <<transcript, backup, edits, gone>>
        /\ told' = IF run # None /\ run.at = "committing" THEN told \union {run.turn} ELSE told
    BY <1>17 DEF UnlinkJournal, Announced
  <2>3. run # None /\ run.at = "committing" => run.turn \in Range(transcript)
    <3>1. Runs /\ Stages
      BY DEF Faultless
    <3>2. QED
      BY <3>1
  <2>4. Outlives' = transcript
    BY <2>1, <2>2
  <2>5. QED
    BY <2>1, <2>2, <2>3, <2>4
<1>18. ASSUME CommitLeavesFiles PROVE told' \ gone' \subseteq Range(Outlives)'
  BY <1>18 DEF CommitLeavesFiles, Announced
<1>19. ASSUME RollbackFails PROVE told' \ gone' \subseteq Range(Outlives)'
  BY <1>19 DEF RollbackFails
<1>20. ASSUME Crash PROVE told' \ gone' \subseteq Range(Outlives)'
  BY <1>20 DEF Crash
<1>21. ASSUME Recover PROVE told' \ gone' \subseteq Range(Outlives)'
  <2>1. UNCHANGED <<backup, journal, edits, told>>
    BY <1>21 DEF Recover
  <2>2. CASE MustRestore
    <3>1. Newest /\ Latest = edits /\ Outlives = backup[edits]
      BY <2>2, NewestDecides
    <3>2. transcript' = backup[edits] /\ gone' = gone \ Range(backup[edits])
      BY <1>21, <2>2, <3>1 DEF Recover
    <3>3. Outlives' = backup[edits]
      BY <2>1, <3>2
    <3>4. QED
      BY <2>1, <3>1, <3>2, <3>3
  <2>3. CASE ~MustRestore
    <3>1. UNCHANGED <<transcript, gone>>
      BY <1>21, <2>3 DEF Recover
    <3>2. QED
      BY <2>1, <3>1
  <2>4. QED
    BY <2>2, <2>3
<1>22. ASSUME NEW x \in Edit, Clean(x) PROVE told' \ gone' \subseteq Range(Outlives)'
  BY <1>22 DEF Clean
<1>23. ASSUME Serve PROVE told' \ gone' \subseteq Range(Outlives)'
  BY <1>23 DEF Serve
<1>24. ASSUME RecoveryFails PROVE told' \ gone' \subseteq Range(Outlives)'
  BY <1>24 DEF RecoveryFails
<1>25. ASSUME UNCHANGED vars PROVE told' \ gone' \subseteq Range(Outlives)'
  BY <1>25 DEF vars
<1>26. QED
  BY <1>1, <1>2, <1>3, <1>4, <1>5, <1>6, <1>7, <1>8, <1>9, <1>10, <1>11, <1>12, <1>13, <1>14, <1>15, <1>16, <1>17, <1>18, <1>19, <1>20, <1>21, <1>22, <1>23, <1>24, <1>25
  DEF Next, Run, EditStep, Finalize, StartUp

-----------------------------------------------------------------------------
(* A fresh gateway has no edit and no files of one. *)
LEMMA InitFaultless == Init => Faultless
<1> SUFFICES ASSUME Init PROVE Faultless
  OBVIOUS
<1>1. ~Newest /\ transcript = <<>> /\ Range(<<>>) = {}
  BY DEF Init, Newest, Range
<1>2. QED
  BY <1>1 DEF Init, Faultless, Files, Unsubmitted, UnderWay, Stages, Runs, Outlives, Step, Final, Prepared

(* When nothing goes wrong beside crashes and failing writes, the newest   *)
(* edit alone decides what survives.                                       *)
LEMMA FaultlessInductive == ASSUME Faults = {} PROVE Spec => [](IInv /\ Faultless)
<1>1. IInv /\ Faultless /\ [Next]_vars => IInv'
  BY TypeStep, UsedStep, AloneStep DEF IInv
<1>2. Faults = {} /\ IInv /\ IInv' /\ Faultless /\ [Next]_vars => Faultless'
  <2>1. ASSUME Faults = {}, IInv, IInv', Faultless, [Next]_vars PROVE Faultless'
    <3>1. Files' /\ Unsubmitted' /\ UnderWay' /\ Stages' /\ Runs' /\ (told' \ gone' \subseteq Range(Outlives)')
      BY <2>1, FilesStep, UnsubmittedStep, UnderWayStep, StagesStep, RunsStep, KeptStep
    <3>2. QED
      BY <3>1 DEF Faultless
  <2>2. QED
    BY <2>1
<1>3. IInv /\ Faultless /\ [Next]_vars => IInv' /\ Faultless'
  BY <1>1, <1>2
<1>4. QED
  BY <1>3, InitInv, InitFaultless, PTL DEF Spec

(* An accepted message is lost to no crash: what start-up recovery leaves  *)
(* has every turn that was announced and not replaced                      *)
(* (recoverPendingLastTurnReplacements).                                   *)
THEOREM AcceptedIsKept == ASSUME Faults = {} PROVE Spec => []ToldIsKept
<1>1. IInv /\ Faultless => ToldIsKept
  BY SurvivorIs DEF IInv, Faultless, ToldIsKept
<1>2. QED
  BY <1>1, FaultlessInductive, PTL

(* An edit that is over leaves no backup that recovery could mistake for   *)
(* the one of a later edit (cleanupArtifacts, commit and roll back).       *)
THEOREM NoBackupOutlivesItsEdit == ASSUME Faults = {} PROVE Spec => []NoStaleBackup
<1>1. ASSUME IInv, Faultless PROVE NoStaleBackup
  <2>1. ASSUME gateway = "up", pending = None, job = None
        PROVE  \A x \in Edit : backup[x] = None
    <3>1. ~Newest
      BY <1>1, <2>1 DEF Faultless, Stages, Step
    <3>2. QED
      BY <1>1, <3>1 DEF Faultless, Files, Newest
  <2>2. QED
    BY <2>1 DEF NoStaleBackup
<1>2. QED
  BY <1>1, FaultlessInductive, PTL

-----------------------------------------------------------------------------
(* The conversation that the files hold: what survives a crash now, and    *)
(* what it was before an edit that can still be undone.                    *)
Former == IF pending # None /\ Prepared /\ Recorded THEN backup[edits] ELSE None

Lasting == INSTANCE EditableConversation WITH
    NoConversation <- None, conversation <- Outlives, former <- Former

(* The mapping of EditsAreAtomic, in terms of the newest edit. *)
LEMMA Mapped ==
    IInv /\ Faultless =>
        Survivor = Outlives /\ (IF Undoable THEN backup[pending.tx] ELSE None) = Former
<1> SUFFICES ASSUME IInv, Faultless
             PROVE  Survivor = Outlives /\ (IF Undoable THEN backup[pending.tx] ELSE None) = Former
  OBVIOUS
<1>1. Survivor = Outlives
  BY SurvivorIs DEF IInv, Faultless
<1>2. ASSUME pending # None PROVE Undoable <=> Prepared /\ Recorded
  <2>1. (job # None => job.for = "rollback" /\ job.step = "restore") <=> Prepared
    BY <1>2 DEF IInv, Alone, Prepared, Step, TypeOK
  <2>2. Prepared => (Recorded <=> pending.turn \in Range(transcript))
    BY <1>2, PendingTurns
  <2>3. QED
    BY <1>2, <2>1, <2>2 DEF Undoable
<1>3. pending # None => pending.tx = edits
  BY DEF Faultless, UnderWay
<1>4. QED
  BY <1>1, <1>2, <1>3 DEF Former, Undoable

(* The same, after a step. *)
LEMMA MappedNext ==
    IInv' /\ Faultless' =>
        (Survivor = Outlives /\ (IF Undoable THEN backup[pending.tx] ELSE None) = Former)'
BY Mapped, PTL

(* Every step says a message, replaces the last one, settles, undoes or    *)
(* announces the edit, or changes nothing of the conversation.             *)
LEMMA ConversationStep ==
    ASSUME Faults = {}, IInv, IInv', Faultless, Faultless', [Next]_vars
    PROVE  [Lasting!Next]_<<Outlives, Former, told>>
<1> USE DEF IInv, TypeOK, disk, memory, ledger, RunRecord, Replacement, Job, Phases, EditSteps, FinalSteps, Step, Final, Edit, Alone, Used, Faultless, Files, UnderWay, Stages, Runs, Newest, Recorded, Prepared, Outlives, Unsubmitted, Former
<1>1. ASSUME NEW t \in Turn, Submit(t) PROVE UNCHANGED <<Outlives, Former, told>>
  BY <1>1 DEF Submit, Editing
<1>2. ASSUME Record PROVE \E t \in Turn : Lasting!Say(t) \/ Lasting!Replace(t)
  <2>1. /\ run.turn \in Turn /\ run.turn \notin Range(Outlives)
        /\ Outlives' = Append(transcript, run.turn) /\ UNCHANGED <<pending, job, edits, backup, told>>
    BY <1>2, RecordEffects
  <2>2. CASE pending = None
    <3>1. Outlives = transcript /\ Former = None /\ Former' = None
      BY <1>2, <2>1, <2>2, RecordEffects
    <3>2. Lasting!Say(run.turn)
      BY <2>1, <3>1 DEF Lasting!Say, Lasting!Range, Range
    <3>3. QED
      BY <2>1, <3>2
  <2>3. CASE pending # None
    <3>1. /\ transcript = Front(backup[edits]) /\ Outlives = backup[edits] /\ job = None
          /\ Former = None /\ pending.turn = run.turn
      BY <1>2, <2>3, RecordEffects DEF Claimed
    <3>2. Former' = backup[edits]
      BY <1>2, <2>1, <2>3, <3>1, RecordEffects
    <3>3. Outlives # <<>>
      BY <1>2, <2>3, <3>1, RecordEffects
    <3>4. Lasting!Replace(run.turn)
      BY <2>1, <3>1, <3>2, <3>3 DEF Lasting!Replace, Lasting!Range, Range, Lasting!Front, Front
    <3>5. QED
      BY <2>1, <3>4
  <2>4. QED
    BY <2>2, <2>3
<1>3. ASSUME Accept PROVE Lasting!Settle \/ \E t \in Turn : Lasting!Tell(t)
  <2>1. UNCHANGED <<transcript, backup, journal, edits>> /\ Outlives' = Outlives
    BY <1>3 DEF Accept
  <2>2. run # None /\ run.turn \in Turn /\ run.turn \in Range(Outlives) /\ run.at = "recorded"
    BY <1>3 DEF Accept
  <2>3. CASE Claimed
    <3>1. Prepared /\ pending # None /\ pending.turn = run.turn
      BY <2>3 DEF Claimed
    <3>2. Recorded /\ Newest
      BY <2>2, <3>1, PendingTurns
    <3>3. Former = backup[edits] /\ Former # None
      BY <3>1, <3>2
    <3>4. job' \in Job /\ job'.step = "unlinkBackup" /\ told' = told
      BY <1>3, <2>3, <3>1 DEF Accept
    <3>5. Former' = None
      BY <3>4
    <3>6. QED
      BY <2>1, <3>3, <3>4, <3>5 DEF Lasting!Settle
  <2>4. CASE ~Claimed
    <3>1. pending' = pending /\ job' = job /\ told' = told \union {run.turn}
      BY <1>3, <2>4 DEF Accept
    <3>2. pending # None => pending.turn \notin used
      BY <2>2, <2>4 DEF Claimed
    <3>3. pending # None /\ Prepared => ~Recorded
      BY <3>2, PendingTurns
    <3>4. Former = None /\ Former' = None
      BY <2>1, <3>1, <3>3
    <3>5. Lasting!Tell(run.turn)
      BY <2>1, <2>2, <3>1, <3>4 DEF Lasting!Tell, Lasting!Range, Range
    <3>6. QED
      BY <2>2, <3>5
  <2>5. QED
    BY <2>3, <2>4
<1>4. ASSUME RunEnds PROVE UNCHANGED <<Outlives, Former, told>>
  BY <1>4 DEF RunEnds, Claimed
<1>5. ASSUME CloseSession PROVE UNCHANGED <<Outlives, Former, told>>
  BY <1>5 DEF CloseSession
<1>6. ASSUME NEW old \in Turn, NEW new \in Turn, BeginEdit(old, new) PROVE UNCHANGED <<Outlives, Former, told>>
  BY <1>6 DEF BeginEdit
<1>7. ASSUME WriteJournal PROVE UNCHANGED <<Outlives, Former, told>>
  BY <1>7 DEF WriteJournal
<1>8. ASSUME RefuseEdit PROVE UNCHANGED <<Outlives, Former, told>>
  BY <1>8 DEF RefuseEdit
<1>9. ASSUME WriteBackup PROVE UNCHANGED <<Outlives, Former, told>>
  BY <1>9 DEF WriteBackup
<1>10. ASSUME CutLastTurn PROVE UNCHANGED <<Outlives, Former, told>>
  BY <1>10 DEF CutLastTurn
<1>11. ASSUME EditFails PROVE UNCHANGED <<Outlives, Former, told>>
  BY <1>11 DEF EditFails
<1>12. ASSUME UndoBackup PROVE UNCHANGED <<Outlives, Former, told>>
  BY <1>12 DEF UndoBackup
<1>13. ASSUME UndoJournal PROVE UNCHANGED <<Outlives, Former, told>>
  BY <1>13 DEF UndoJournal
<1>14. ASSUME BeginRollback PROVE UNCHANGED <<Outlives, Former, told>>
  BY <1>14 DEF BeginRollback
<1>15. ASSUME RestoreBackup PROVE Lasting!Undo \/ UNCHANGED <<Outlives, Former, told>>
  <2>1. pending # None /\ Prepared /\ job.tx = edits
    BY <1>15 DEF RestoreBackup
  <2>2. /\ transcript' = backup[edits] /\ UNCHANGED <<backup, journal, edits, told>>
        /\ job' = [job EXCEPT !.step = "unlinkBackup"]
    BY <1>15, <2>1 DEF RestoreBackup
  <2>3. Outlives' = backup[edits]
    BY <2>2
  <2>4. Former' = None
    BY <2>2, <1>15 DEF RestoreBackup
  <2>5. CASE Recorded
    BY <2>1, <2>2, <2>3, <2>4, <2>5 DEF Lasting!Undo
  <2>6. CASE ~Recorded
    <3>1. Outlives = backup[edits] /\ Former = None
      BY <2>1, <2>6, PendingTurns
    <3>2. QED
      BY <2>2, <2>3, <2>4, <3>1
  <2>7. QED
    BY <2>5, <2>6
<1>16. ASSUME UnlinkBackup PROVE UNCHANGED <<Outlives, Former, told>>
  BY <1>16 DEF UnlinkBackup
<1>17. ASSUME UnlinkJournal
       PROVE  UNCHANGED <<Outlives, Former, told>> \/ \E t \in Turn : Lasting!Tell(t)
  <2>1. Step({"unlinkJournal"}) /\ pending # None /\ ~Newest /\ Outlives = transcript
        /\ Former = None
    BY <1>17 DEF UnlinkJournal
  <2>2. /\ UNCHANGED <<transcript, backup, edits>> /\ pending' = None
        /\ told' = IF run # None /\ run.at = "committing" THEN told \union {run.turn} ELSE told
    BY <1>17 DEF UnlinkJournal, Announced
  <2>3. Outlives' = transcript /\ Former' = None
    BY <2>1, <2>2
  <2>4. CASE run # None /\ run.at = "committing"
    <3>1. run.turn \in Turn /\ run.turn \in Range(transcript)
      BY <2>4
    <3>2. Lasting!Tell(run.turn)
      BY <2>1, <2>2, <2>3, <2>4, <3>1 DEF Lasting!Tell, Lasting!Range, Range
    <3>3. QED
      BY <3>1, <3>2
  <2>5. CASE ~(run # None /\ run.at = "committing")
    BY <2>1, <2>2, <2>3, <2>5
  <2>6. QED
    BY <2>4, <2>5
<1>18. ASSUME CommitLeavesFiles PROVE UNCHANGED <<Outlives, Former, told>>
  BY <1>18 DEF CommitLeavesFiles, Announced
<1>19. ASSUME RollbackFails PROVE UNCHANGED <<Outlives, Former, told>>
  BY <1>19 DEF RollbackFails
<1>20. ASSUME Crash PROVE Lasting!Settle \/ UNCHANGED <<Outlives, Former, told>>
  <2>1. Outlives' = Outlives /\ Former' = None /\ told' = told
    BY <1>20 DEF Crash
  <2>2. QED
    BY <2>1 DEF Lasting!Settle
<1>21. ASSUME Recover PROVE UNCHANGED <<Outlives, Former, told>>
  <2>1. UNCHANGED <<backup, journal, edits, told, pending>> /\ pending = None
    BY <1>21 DEF Recover
  <2>2. Outlives' = Outlives
    <3>1. CASE MustRestore
      <4>1. Newest /\ Latest = edits /\ Outlives = backup[edits]
        BY <3>1, NewestDecides
      <4>2. transcript' = backup[edits]
        BY <1>21, <3>1, <4>1 DEF Recover
      <4>3. QED
        BY <2>1, <4>1, <4>2
    <3>2. CASE ~MustRestore
      BY <1>21, <2>1, <3>2 DEF Recover
    <3>3. QED
      BY <3>1, <3>2
  <2>3. QED
    BY <2>1, <2>2
<1>22. ASSUME NEW x \in Edit, Clean(x) PROVE UNCHANGED <<Outlives, Former, told>>
  BY <1>22 DEF Clean
<1>23. ASSUME Serve PROVE UNCHANGED <<Outlives, Former, told>>
  BY <1>23 DEF Serve
<1>24. ASSUME RecoveryFails PROVE UNCHANGED <<Outlives, Former, told>>
  BY <1>24 DEF RecoveryFails
<1>25. ASSUME UNCHANGED vars PROVE UNCHANGED <<Outlives, Former, told>>
  BY <1>25 DEF vars
<1>26. \/ UNCHANGED <<Outlives, Former, told>> \/ Lasting!Settle \/ Lasting!Undo
       \/ \E t \in Turn : Lasting!Say(t) \/ Lasting!Replace(t) \/ Lasting!Tell(t)
  BY <1>1, <1>2, <1>3, <1>4, <1>5, <1>6, <1>7, <1>8, <1>9, <1>10, <1>11, <1>12, <1>13, <1>14, <1>15, <1>16, <1>17, <1>18, <1>19, <1>20, <1>21, <1>22, <1>23, <1>24, <1>25
  DEF Next, Run, EditStep, Finalize, StartUp
<1>27. QED
  BY <1>26 DEF Lasting!Next

(* When nothing goes wrong beside crashes and failing writes, the files    *)
(* implement an editable conversation: through a crash at any point, an    *)
(* edit replaces the last message at once, or is undone while nobody was   *)
(* told of it, and nothing else is lost (replaceLastTurn, the commit in    *)
(* the run's event stream and recoverPendingLastTurnReplacements).         *)
THEOREM EditsImplementConversation == ASSUME Faults = {} PROVE Spec => EditsAreAtomic
<1> DEFINE former == IF Undoable THEN backup[pending.tx] ELSE None
<1>1. Init => Conversation!Init
  <2>1. ASSUME Init PROVE Conversation!Init
    <3>1. Survivor = Outlives /\ ~Newest /\ ~Undoable
      BY <2>1, InitInv, InitFaultless, Mapped DEF Init, Newest, Undoable
    <3>2. QED
      BY <2>1, <3>1 DEF Conversation!Init, Init, Outlives
  <2>2. QED
    BY <2>1
<1>2. IInv /\ Faultless /\ (IInv /\ Faultless)' /\ [Next]_vars
        => [Conversation!Next]_<<Survivor, former, told>>
  <2>1. ASSUME IInv, Faultless, IInv', Faultless', [Next]_vars
        PROVE  [Conversation!Next]_<<Survivor, former, told>>
    <3>1. Survivor = Outlives /\ former = Former /\ Survivor' = Outlives' /\ former' = Former'
      BY <2>1, Mapped, MappedNext
    <3>2. [Lasting!Next]_<<Outlives, Former, told>>
      BY <2>1, ConversationStep
    <3>3. QED
      BY <3>1, <3>2 DEF Lasting!Next, Lasting!Say, Lasting!Replace, Lasting!Settle, Lasting!Undo,
         Lasting!Tell, Lasting!Range, Lasting!Front, Conversation!Range, Conversation!Front, Conversation!Next, Conversation!Say, Conversation!Replace,
         Conversation!Settle, Conversation!Undo, Conversation!Tell
  <2>2. QED
    BY <2>1
<1>3. QED
  BY <1>1, <1>2, FaultlessInductive, PTL DEF Spec, EditsAreAtomic, Conversation!Spec

=============================================================================
