----------------------------- MODULE SteeredTurn -----------------------------
(***************************************************************************)
(* Guidance through one session: the requests of the user                  *)
(* (src/agent/session/AgentSession.ts steer, cancelSteer, abort), the      *)
(* runner of a turn (src/agent/turn/TurnRunner.ts run) and the places      *)
(* where the agent loop takes guidance in (src/agent/loop/AgentLoop.ts).   *)
(* Every await and yield of the runner is a point where requests of the    *)
(* user come in between.                                                   *)
(*                                                                         *)
(* The transcript writer chains its appends (JsonlTranscriptWriter         *)
(* writeChain): once one has failed every later one fails too.             *)
(***************************************************************************)
EXTENDS SteerMailbox

CONSTANTS
    MaxTurns       \* input.maxTurns, the model iterations of a turn

ASSUME LimitAssumption == MaxTurns \in Nat \ {0}

VARIABLES
    at,            \* where the runner is
    status,        \* state.status, "idle" for every value at rest
    current,       \* state.currentTurnId
    batch,         \* drained guidance the loop has not yet applied
    resume,        \* where the loop goes on after the batch
    unacked,       \* unacknowledgedSteers
    report,        \* the steer_unapplied events still to be sent
    turnCount,     \* model iterations of the turn
    checkpointed,  \* checkpointsFinished
    chain,         \* the transcript writer: "ok" or "broken"
    begun,         \* the turns submitted
    fate,          \* what the user was told of each item
    over,          \* the turns of which turn_completed was sent
    unsaved        \* the turns in which a checkpoint could not be recorded

runner == <<batch, resume, unacked, report, turnCount, checkpointed>>
ledger == <<fate, over, unsaved>>
vars == <<mailbox, at, status, current, runner, chain, begun, ledger>>

Places == {"none", "accepting", "head", "applying", "model", "stopping", "returned",
           "finishing", "reporting", "caught", "recovering", "failed", "ended", "dropped"}

Tell(t, i, outcome) == fate' = [fate EXCEPT ![t][i] = outcome] /\ UNCHANGED <<over, unsaved>>

Init ==
    /\ MailboxInit
    /\ at = "none"
    /\ status = "idle"
    /\ current = NoTurn
    /\ batch = {} /\ resume = "model" /\ unacked = {} /\ report = {}
    /\ turnCount = 1
    /\ checkpointed = FALSE
    /\ chain = "ok"
    /\ begun = {}
    /\ fate = [t \in Turn |-> [i \in Item |-> "unseen"]]
    /\ over = {} /\ unsaved = {}

-----------------------------------------------------------------------------
(* Requests of the user, at any time and for any turn. *)
Running == status = "running" /\ current # NoTurn

Steer(t, i) ==
    /\ Running
    /\ Enqueue(t, i)
    /\ Tell(t, i, "accepted")
    /\ UNCHANGED <<at, status, current, runner, chain, begun>>

CancelSteer(t, i) ==
    /\ Running
    /\ Withdraw(t, i)
    /\ Tell(t, i, "cancelled")
    /\ UNCHANGED <<at, status, current, runner, chain, begun>>

Abort ==
    /\ at \notin {"none", "dropped"}
    /\ status' = "aborted"
    /\ UNCHANGED <<mailbox, at, current, runner, chain, begun, ledger>>

-----------------------------------------------------------------------------
(* An append succeeds only while the chain is whole; a failing one breaks it. *)
AppendOK == chain = "ok" /\ UNCHANGED chain
AppendFailed == chain' = "broken"

(* submitTurn, up to the start of the runner. *)
Begin(t) ==
    /\ at = "none" /\ t \notin begun
    /\ at' = "accepting"
    /\ status' = "running"
    /\ current' = t
    /\ checkpointed' = FALSE
    /\ begun' = begun \union {t}
    /\ UNCHANGED <<mailbox, batch, resume, unacked, report, turnCount, chain, ledger>>

(* The input cannot be recorded, or a checkpoint, a hook or the input      *)
(* itself ends the turn before the mailbox opens.                          *)
Refuse ==
    /\ at = "accepting"
    /\ AppendOK \/ AppendFailed
    /\ at' = "ended"
    /\ UNCHANGED <<mailbox, status, current, runner, begun, ledger>>

OpenMailbox ==
    /\ at = "accepting"
    /\ AppendOK
    /\ Start(current)
    /\ batch' = {} /\ unacked' = {} /\ report' = {}
    /\ turnCount' = 1
    /\ at' = "head"
    /\ UNCHANGED <<status, current, resume, checkpointed, begun, ledger>>

(* trackDrainedSteers: the loop takes a batch in and remembers it. *)
TakeBatch(next) ==
    /\ batch' = Drained(current)
    /\ unacked' = unacked \union Drained(current)
    /\ resume' = next
    /\ at' = "applying"
    /\ UNCHANGED <<report, turnCount, checkpointed>>

(* The loop head: stop when aborted, else drain before the next model call. *)
LoopHead ==
    /\ at = "head"
    /\ IF status = "aborted"
       THEN at' = "returned" /\ UNCHANGED <<mailbox, runner>>
       ELSE DrainBox(current) /\ TakeBatch("model")
    /\ UNCHANGED <<status, current, chain, begun, ledger>>

(* Faulty: the messages of a batch are applied in any order. *)
ApplyAny(i) ==
    /\ at = "applying" /\ i \in batch
    /\ AppendOK
    /\ batch' = batch \ {i}
    /\ unacked' = unacked \ {i}
    /\ Tell(current, i, "applied")
    /\ UNCHANGED <<mailbox, at, status, current, resume, report, turnCount, checkpointed, begun>>

(* applySteerMessages: a message counts once it is in the transcript. *)
Apply(i) ==
    /\ at = "applying" /\ Earliest(i, batch)
    /\ AppendOK
    /\ batch' = batch \ {i}
    /\ unacked' = unacked \ {i}
    /\ Tell(current, i, "applied")
    /\ UNCHANGED <<mailbox, at, status, current, resume, report, turnCount, checkpointed, begun>>

ApplyFails ==
    /\ at = "applying" /\ batch # {}
    /\ AppendFailed
    /\ at' = "caught"
    /\ UNCHANGED <<mailbox, status, current, runner, begun, ledger>>

BatchDone ==
    /\ at = "applying" /\ batch = {}
    /\ at' = resume
    /\ turnCount' = IF resume = "head" THEN turnCount + 1 ELSE turnCount
    /\ UNCHANGED <<mailbox, status, current, batch, resume, unacked, report, checkpointed, chain, begun, ledger>>

(* Faulty: the limit is tested before the iteration is counted. *)
IterateOnceMore ==
    /\ at = "model" /\ turnCount <= MaxTurns
    /\ at' = "head" /\ turnCount' = turnCount + 1
    /\ UNCHANGED <<mailbox, status, current, batch, resume, unacked, report, checkpointed, chain, begun, ledger>>

(* The model call and its tools: a recovery repeats the iteration, tool    *)
(* calls start another one, and the turn may stop here in several ways.    *)
Iterate ==
    /\ at = "model"
    /\ \/ at' = "head" /\ UNCHANGED turnCount
       \/ turnCount < MaxTurns /\ at' = "head" /\ turnCount' = turnCount + 1
       \/ at' \in {"returned", "caught"} /\ UNCHANGED turnCount
    /\ UNCHANGED <<mailbox, status, current, batch, resume, unacked, report, checkpointed, chain, begun, ledger>>

(* The model made no tool calls.  Guidance starts another iteration when   *)
(* the budget allows one; else it stays in the mailbox, which stays open.  *)
Terminal ==
    /\ at = "model"
    /\ IF turnCount < MaxTurns /\ Drained(current) # {}
       THEN DrainOrClose(current) /\ TakeBatch("head")
       ELSE /\ IF turnCount < MaxTurns THEN DrainOrClose(current) ELSE UNCHANGED mailbox
            /\ at' = "stopping"
            /\ UNCHANGED runner
    /\ UNCHANGED <<status, current, chain, begun, ledger>>

(* The Stop hooks and the status messages at the end of the loop. *)
StopLoop ==
    /\ at = "stopping"
    /\ at' \in {"returned", "caught"}
    /\ UNCHANGED <<mailbox, status, current, runner, chain, begun, ledger>>

-----------------------------------------------------------------------------
(* Faulty: what was drained but not applied is forgotten. *)
CloseMailboxOnly ==
    /\ report' = Left(current)
    /\ unacked' = {}
    /\ Close(current)
    /\ UNCHANGED <<batch, resume, turnCount, checkpointed>>

(* closeSteerMailbox of the runner: what was drained but not applied and   *)
(* what is left in the mailbox goes back to the user.                      *)
CloseMailbox ==
    /\ report' = unacked \union Left(current)
    /\ unacked' = {}
    /\ Close(current)
    /\ UNCHANGED <<batch, resume, turnCount, checkpointed>>

LoopReturned ==
    /\ at = "returned"
    /\ CloseMailbox
    /\ at' = "finishing"
    /\ UNCHANGED <<status, current, chain, begun, ledger>>

LoopThrew ==
    /\ at = "caught"
    /\ CloseMailbox
    /\ at' = "recovering"
    /\ UNCHANGED <<status, current, chain, begun, ledger>>

(* finishCheckpoints runs once, and a turn need not have a checkpoint.     *)
(* Otherwise a status message goes to the transcript; when that fails so   *)
(* does the message about the failure, and it throws.                      *)
CheckpointThrows == ~checkpointed /\ AppendFailed

FinishTurn ==
    /\ at = "finishing"
    /\ \/ UNCHANGED chain /\ at' = "reporting" /\ UNCHANGED unsaved
       \/ CheckpointThrows /\ at' = "caught" /\ unsaved' = unsaved \union {current}
    /\ checkpointed' = TRUE
    /\ UNCHANGED <<mailbox, status, current, batch, resume, unacked, report, turnCount, begun, fate, over>>

(* The same in the catch block, where it ends the runner. *)
Recover ==
    /\ at = "recovering"
    /\ \/ UNCHANGED chain /\ at' = "failed" /\ UNCHANGED unsaved
       \/ CheckpointThrows /\ at' = "none" /\ unsaved' = unsaved \union {current}
    /\ checkpointed' = TRUE
    /\ UNCHANGED <<mailbox, status, current, batch, resume, unacked, report, turnCount, begun, fate, over>>

(* A steer_unapplied event. *)
Report(i) ==
    /\ at \in {"reporting", "failed"} /\ i \in report
    /\ report' = report \ {i}
    /\ Tell(current, i, "unapplied")
    /\ UNCHANGED <<mailbox, at, status, current, batch, resume, unacked, turnCount, checkpointed, chain, begun>>

(* The turn result goes to the transcript, then turn_completed is sent.    *)
(* After a failure it is sent whether the result was recorded or not.      *)
Complete ==
    /\ report = {}
    /\ \/ at = "reporting" /\ AppendOK
       \/ at = "failed" /\ (AppendOK \/ AppendFailed)
    /\ at' = "ended"
    /\ over' = over \union {current}
    /\ UNCHANGED <<mailbox, status, current, runner, begun, fate, unsaved>>

ResultNotRecorded ==
    /\ at = "reporting" /\ report = {}
    /\ AppendFailed
    /\ at' = "caught"
    /\ UNCHANGED <<mailbox, status, current, runner, begun, ledger>>

(* The rest of submitTurn. *)
End ==
    /\ at = "ended"
    /\ at' = "none"
    /\ status' = "idle"
    /\ current' = NoTurn
    /\ FinishBox(current)
    /\ UNCHANGED <<runner, chain, begun, ledger>>

(* The consumer of the turn stops reading: the runner's finally closes the *)
(* mailbox and the session is disposed of.                                 *)
Drop ==
    /\ at \notin {"none", "dropped"}
    /\ Close(current)
    /\ at' = "dropped"
    /\ status' = "aborted"
    /\ UNCHANGED <<current, runner, chain, begun, ledger>>

-----------------------------------------------------------------------------
Runner ==
    \/ Refuse \/ OpenMailbox \/ LoopHead \/ ApplyFails \/ BatchDone \/ Iterate
    \/ Terminal \/ StopLoop \/ LoopReturned \/ LoopThrew \/ FinishTurn \/ Recover
    \/ Complete \/ ResultNotRecorded \/ End
    \/ \E i \in Item : Apply(i) \/ Report(i)

User == \E t \in Turn, i \in Item : Steer(t, i) \/ CancelSteer(t, i)

Next == Runner \/ User \/ Abort \/ Drop \/ \E t \in Turn : Begin(t)

(* The runner goes on: model calls, tools, hooks and disk writes return.   *)
Spec == Init /\ [][Next]_vars /\ WF_vars(Runner)

-----------------------------------------------------------------------------
TypeOK ==
    /\ MailboxTypeOK
    /\ at \in Places
    /\ status \in {"idle", "running", "aborted"}
    /\ current \in Turn \union {NoTurn}
    /\ at \notin {"none", "dropped"} => current \in Turn
    /\ batch \subseteq Item /\ unacked \subseteq Item /\ report \subseteq Item
    /\ resume \in {"model", "head"}
    /\ turnCount \in 1..MaxTurns
    /\ checkpointed \in BOOLEAN
    /\ chain \in {"ok", "broken"}
    /\ begun \subseteq Turn
    /\ fate \in [Turn -> [Item -> {"unseen", "accepted", "applied", "unapplied", "cancelled"}]]
    /\ over \subseteq begun /\ unsaved \subseteq begun

(* Accepted guidance has exactly one outcome.  What was cancelled is never *)
(* applied, what was applied is never handed back for another turn, and a  *)
(* turn that ends has handed back all that it did not apply: the terminal  *)
(* race that drainOrClose is synchronous for (SteerMailbox lines 19-25).   *)
(* Turns are left out in which recording a checkpoint fails at their end.  *)
Ledger == INSTANCE GuidanceLedger WITH over <- over \ unsaved

Promise == Ledger!Spec

(* Guidance enters the conversation in the order it was accepted.          *)
InOrder ==
    \A j, k \in DOMAIN arrivals :
        (j < k /\ box # NoTurn /\ fate[box][arrivals[k]] = "applied")
            => fate[box][arrivals[j]] \in {"applied", "cancelled"}

(* A turn that has ended in sight of the user has returned the guidance it *)
(* accepted and did not apply (tests/agent/session/steer-terminal.spec.ts, *)
(* "a partially persisted guidance batch applies only durable messages and *)
(* returns the rest").                                                     *)
ReturnsRest ==
    \A t \in over, i \in Item : fate[t][i] # "accepted"

(* No accepted guidance is left hanging while its consumer listens, except *)
(* in such turns.                                                          *)
GuidanceSettles ==
    \A t \in Turn, i \in Item :
        fate[t][i] = "accepted" ~>
            fate[t][i] # "accepted" \/ at = "dropped" \/ t \in unsaved
=============================================================================
