---------------------------- MODULE GatewayTurns ----------------------------
(***************************************************************************)
(* The runs of one session (src/gateway/client/InProcessGateway.ts,        *)
(* submitTurn and abortTurn) over the session cache.  A run reserves the   *)
(* session key, prepares (settings, getOrCreate, attachments), executes    *)
(* its session and then releases the key.  Every await of that path is a   *)
(* point where other runs, a Stop, a hard timeout, a checkpoint restore    *)
(* (src/cli/createLocalGateway.ts) or a change of the cache come in.       *)
(***************************************************************************)
EXTENDS SessionRouter

VARIABLES
    at,         \* where the pump of a run is
    holds,      \* the session that a run awaits or was given
    owner,      \* turnCompletions and turnCancellations: the run in charge
    cancelled,  \* the runs that were cancelled
    timedOut,   \* the runs whose hard timeout fired
    awaited,    \* the session whose disposal a timed out run waits for
    ended,      \* the runs whose turnDone is resolved
    restoring,  \* the checkpoint restore of this session
    outdated    \* the sessions in use or begun at the last runtime change

turns == <<at, holds, owner, cancelled, timedOut, awaited, ended>>
vars == <<router, turns, restoring, outdated>>

Idle == {"new", "refused", "over"}
Waiting == {"draining", "evicting"}
Making == {"creating", "recreating"}
Places == Idle \union Waiting \union Making \union
            {"refreshing", "discarding", "preparing", "running", "ending"}

Init ==
    /\ RouterInit
    /\ at = [r \in Run |-> "new"]
    /\ holds = [r \in Run |-> None]
    /\ owner = None
    /\ cancelled = {} /\ timedOut = {} /\ ended = {}
    /\ awaited = [r \in Run |-> None]
    /\ restoring = "no"
    /\ outdated = {}

Go(r, place) == at' = [at EXCEPT ![r] = place]
Hold(r, s) == holds' = [holds EXCEPT ![r] = s]

(* What the steps of a pump leave alone. *)
PumpFrame == UNCHANGED <<slot, paused, down, owner, cancelled, timedOut, awaited,
                         ended, restoring, outdated>>

(* The calls of getOrCreate whose generations are still the current ones.  *)
(* What a call has read is gone with it.                                   *)
MarkCall(r) ==
    /\ fresh' = fresh \union {r}
    /\ steady' = steady \union {r}
    /\ unchanged' = unchanged \union {r}

ForgetCall(r) ==
    /\ fresh' = fresh \ {r}
    /\ steady' = steady \ {r}
    /\ unchanged' = unchanged \ {r}

-----------------------------------------------------------------------------
(* submitTurn up to its first await, or the answer session_busy. *)
Submit(r) ==
    /\ at[r] = "new"
    /\ \/ Reserve(RunId[r]) /\ owner' = r /\ Go(r, "refreshing")
       \/ (down \/ slot # None) /\ UNCHANGED <<slot, owner>> /\ Go(r, "refused")
    /\ UNCHANGED <<cached, dirty, life, closing, fresh, steady, unchanged, paused, down>>
    /\ UNCHANGED <<holds, cancelled, timedOut, awaited, ended, restoring, outdated>>

(* The call of getOrCreate by run r fails. *)
CallFails(r) ==
    /\ Fail(r, {q \in Run \ {r} : at[q] \in Making})
    /\ steady' = steady \ {r} /\ unchanged' = unchanged \ {r}
    /\ Go(r, "ending")

(* getOrCreate looks the session up: take it, replace a dirty one, or make *)
(* one.  begins is TRUE when the call has not waited yet.                  *)
LookUp(r, begins) ==
    \/ /\ cached # None
       /\ dirty => slot \notin {None, RunId[r]}
       /\ Hold(r, cached) /\ Go(r, "preparing")
       /\ ForgetCall(r)
       /\ UNCHANGED <<cached, dirty, life, closing>>
    \/ /\ cached # None
       /\ dirty /\ slot \in {None, RunId[r]}
       /\ Dispose(cached) /\ closing' = cached
       /\ Hold(r, cached) /\ Go(r, "evicting")
       /\ IF begins THEN MarkCall(r) ELSE UNCHANGED <<fresh, steady, unchanged>>
       /\ UNCHANGED <<cached, dirty>>
    \/ /\ cached = None /\ ~paused
       /\ life' = [life EXCEPT ![r] = "creating"]
       /\ Go(r, "creating")
       /\ IF begins THEN MarkCall(r) ELSE UNCHANGED <<fresh, steady, unchanged>>
       /\ UNCHANGED <<cached, dirty, closing, holds>>
    \/ /\ cached = None /\ paused
       /\ CallFails(r)
       /\ UNCHANGED <<cached, dirty, life, closing, holds>>

(* Faulty: getOrCreate does not wait for the writer before it. *)
RefreshedAtOnce(r) ==
    /\ at[r] = "refreshing"
    /\ r \notin cancelled /\ ~down /\ ~paused
    /\ LookUp(r, TRUE)
    /\ PumpFrame

(* The settings are read again; then getOrCreate runs to its first await. *)
Refreshed(r) ==
    /\ at[r] = "refreshing"
    /\ \/ /\ r \in cancelled \/ down
          /\ Go(r, "ending")
          /\ UNCHANGED <<cached, dirty, life, closing, fresh, steady, unchanged, holds>>
       \/ /\ r \notin cancelled /\ ~down /\ paused
          /\ CallFails(r)
          /\ UNCHANGED <<cached, dirty, life, closing, holds>>
       \/ /\ r \notin cancelled /\ ~down /\ ~paused
          /\ IF closing # None
             THEN /\ Go(r, "draining") /\ Hold(r, closing)
                  /\ MarkCall(r)
                  /\ UNCHANGED <<cached, dirty, life, closing>>
             ELSE LookUp(r, TRUE)
    /\ PumpFrame

(* The disposal that getOrCreate awaits is over: another writer of the     *)
(* transcript is gone.                                                     *)
WriterGone(r) ==
    /\ at[r] = "draining" /\ Drained(holds[r])
    /\ IF r \in fresh /\ ~down
       THEN LookUp(r, FALSE)
       ELSE CallFails(r) /\ UNCHANGED <<cached, dirty, life, closing, holds>>
    /\ PumpFrame

(* The dirty session is disposed of; a new one takes over its state. *)
Recreate(r) ==
    /\ at[r] = "evicting" /\ Drained(holds[r])
    /\ IF r \in fresh /\ ~down /\ ~paused
       THEN /\ life' = [life EXCEPT ![r] = "creating"]
            /\ Go(r, "recreating")
            /\ UNCHANGED <<fresh, steady, unchanged>>
       ELSE CallFails(r) /\ UNCHANGED life
    /\ UNCHANGED <<cached, dirty, closing, holds>>
    /\ PumpFrame

Made(r) ==
    /\ at[r] \in Making
    /\ Adopt(r)
    /\ Hold(r, r) /\ Go(r, "preparing")
    /\ ForgetCall(r)
    /\ PumpFrame

(* A late result is disposed of, not cached. *)
MadeLate(r) ==
    /\ at[r] \in Making /\ ~Kept(r)
    /\ life' = [life EXCEPT ![r] = "discarding"]
    /\ Go(r, "discarding")
    /\ UNCHANGED <<cached, dirty, closing, fresh, steady, unchanged, holds>>
    /\ PumpFrame

Discarded(r) ==
    /\ at[r] = "discarding" /\ Drained(r)
    /\ CallFails(r)
    /\ UNCHANGED <<cached, dirty, life, closing, holds>>
    /\ PumpFrame

MakeFails(r) ==
    /\ at[r] \in Making
    /\ life' = [life EXCEPT ![r] = "disposed"]
    /\ CallFails(r)
    /\ UNCHANGED <<cached, dirty, closing, holds>>
    /\ PumpFrame

PumpStep(r, from, to) ==
    /\ at[r] = from
    /\ Go(r, to)
    /\ UNCHANGED <<cached, dirty, life, closing, fresh, steady, unchanged, holds>>
    /\ PumpFrame

(* Attachments and the model are resolved; a cancelled run stops here. *)
Execute(r) == r \notin cancelled /\ PumpStep(r, "preparing", "running")

GiveUp(r) == PumpStep(r, "preparing", "ending")

(* The agent session ends the turn, or throws. *)
Return(r) == PumpStep(r, "running", "ending")

-----------------------------------------------------------------------------
(* The end of finish: the run hands the session key back. *)
Free(r) ==
    /\ ended' = ended \union {r}
    /\ IF owner = r
       THEN owner' = None /\ Release(RunId[r])
       ELSE UNCHANGED <<owner, slot>>

(* Faulty: a late clean-up clears whatever run has the key now. *)
PumpEndsAgain(r) ==
    /\ at[r] = "ending"
    /\ Go(r, "over")
    /\ ended' = ended \union {r} /\ owner' = None /\ Release(RunId[r])
    /\ UNCHANGED <<cached, dirty, life, closing, fresh, steady, unchanged, paused, down>>
    /\ UNCHANGED <<holds, cancelled, timedOut, awaited, restoring, outdated>>

(* Faulty: a run that was stopped does not finish. *)
PumpEndsUnlessStopped(r) ==
    /\ at[r] = "ending"
    /\ Go(r, "over")
    /\ IF r \in cancelled THEN UNCHANGED <<ended, owner, slot>> ELSE Free(r)
    /\ UNCHANGED <<cached, dirty, life, closing, fresh, steady, unchanged, paused, down>>
    /\ UNCHANGED <<holds, cancelled, timedOut, awaited, restoring, outdated>>

(* The finally block of the pump.  finish runs once: after a timeout it    *)
(* was begun by the timer.                                                 *)
PumpEnds(r) ==
    /\ at[r] = "ending"
    /\ Go(r, "over")
    /\ IF r \in timedOut THEN UNCHANGED <<ended, owner, slot>> ELSE Free(r)
    /\ UNCHANGED <<cached, dirty, life, closing, fresh, steady, unchanged, paused, down>>
    /\ UNCHANGED <<holds, cancelled, timedOut, awaited, restoring, outdated>>

(* Faulty: the session stays in the cache. *)
TimeoutKeepsSession(r) ==
    /\ at[r] \notin Idle /\ r \notin timedOut
    /\ timedOut' = timedOut \union {r}
    /\ cancelled' = cancelled \union {r}
    /\ UNCHANGED <<router, at, holds, owner, ended, awaited, restoring, outdated>>

(* Faulty: the run is not cancelled. *)
TimeoutOnlyCloses(r) ==
    /\ at[r] \notin Idle /\ r \notin timedOut
    /\ timedOut' = timedOut \union {r}
    /\ awaited' = [awaited EXCEPT ![r] = Draining]
    /\ Close
    /\ UNCHANGED <<slot, steady, unchanged, paused, down>>
    /\ UNCHANGED <<at, holds, owner, cancelled, ended, restoring, outdated>>

(* The hard timeout: cancel, and quarantine the session. *)
Timeout(r) ==
    /\ at[r] \notin Idle /\ r \notin timedOut
    /\ timedOut' = timedOut \union {r}
    /\ cancelled' = cancelled \union {r}
    /\ awaited' = [awaited EXCEPT ![r] = Draining]
    /\ Close
    /\ UNCHANGED <<slot, steady, unchanged, paused, down>>
    /\ UNCHANGED <<at, holds, owner, ended, restoring, outdated>>

(* Faulty: the key is kept until the pump is over. *)
TimeoutFreesLate(r) ==
    /\ r \in timedOut \ ended /\ Drained(awaited[r]) /\ at[r] = "over"
    /\ Free(r)
    /\ UNCHANGED <<cached, dirty, life, closing, fresh, steady, unchanged, paused, down>>
    /\ UNCHANGED <<at, holds, cancelled, timedOut, awaited, restoring, outdated>>

TimeoutFrees(r) ==
    /\ r \in timedOut \ ended /\ Drained(awaited[r])
    /\ Free(r)
    /\ UNCHANGED <<cached, dirty, life, closing, fresh, steady, unchanged, paused, down>>
    /\ UNCHANGED <<at, holds, cancelled, timedOut, awaited, restoring, outdated>>

(* A Stop that names the active run, the abort signal of its host, or the  *)
(* end of its event stream.  A Stop that names another run does nothing.   *)
Cancel(r) ==
    /\ owner = r /\ r \notin cancelled
    /\ cancelled' = cancelled \union {r}
    /\ UNCHANGED <<router, restoring, outdated>>
    /\ UNCHANGED <<at, holds, owner, timedOut, awaited, ended>>

-----------------------------------------------------------------------------
(* A checkpoint restore reserves the session key like a run, closes the    *)
(* session and then rewrites the conversation and the files.               *)
BeginRestore ==
    /\ restoring = "no"
    /\ Reserve(RestoreId)
    /\ restoring' = "reserved"
    /\ UNCHANGED <<cached, dirty, life, closing, fresh, steady, unchanged, paused, down>>
    /\ UNCHANGED <<turns, outdated>>

CloseForRestore ==
    /\ restoring = "reserved"
    /\ Close
    /\ restoring' = "closing"
    /\ UNCHANGED <<slot, steady, unchanged, paused, down, turns, outdated>>

(* Faulty: the restore does not wait for the disposal. *)
RestoreAtOnce ==
    /\ restoring = "closing"
    /\ restoring' = "writing"
    /\ UNCHANGED <<router, turns, outdated>>

Restore ==
    /\ restoring = "closing" /\ Drained(Draining)
    /\ restoring' = "writing"
    /\ UNCHANGED <<router, turns, outdated>>

EndRestore ==
    /\ restoring # "no"
    /\ restoring' = "no"
    /\ Release(RestoreId)
    /\ UNCHANGED <<cached, dirty, life, closing, fresh, steady, unchanged, paused, down>>
    /\ UNCHANGED <<turns, outdated>>

ChangeRuntime ==
    /\ MarkDirty
    /\ outdated' = {s \in Run : life[s] \in {"creating", "live"}}
    /\ UNCHANGED <<turns, restoring>>

CacheEvent ==
    /\ CloseSession \/ SweepIdle \/ CloseProject \/ ResumeProject \/ Shutdown
    /\ UNCHANGED <<turns, restoring, outdated>>

DisposalEnds(s) == Disposed(s) /\ UNCHANGED <<turns, restoring, outdated>>

-----------------------------------------------------------------------------
Pump(r) ==
    \/ Refreshed(r) \/ WriterGone(r) \/ Recreate(r) \/ Made(r) \/ MadeLate(r)
    \/ Discarded(r) \/ MakeFails(r) \/ Execute(r) \/ GiveUp(r) \/ Return(r)
    \/ PumpEnds(r)

Next ==
    \/ \E r \in Run : Submit(r) \/ Pump(r) \/ Timeout(r) \/ TimeoutFrees(r) \/ Cancel(r)
    \/ \E s \in Run : DisposalEnds(s)
    \/ BeginRestore \/ CloseForRestore \/ Restore \/ EndRestore
    \/ ChangeRuntime \/ CacheEvent

(* Transcript writers flush; what waits only for them goes on.  Nothing is *)
(* assumed of the session itself or of the factory that makes it.          *)
Spec ==
    /\ Init /\ [][Next]_vars
    /\ \A r \in Run : WF_vars(TimeoutFrees(r)) /\ WF_vars(DisposalEnds(r))

-----------------------------------------------------------------------------
TypeOK ==
    /\ RouterTypeOK
    /\ at \in [Run -> Places]
    /\ holds \in [Run -> Run \union {None}]
    /\ owner \in Run \union {None}
    /\ timedOut \subseteq cancelled /\ cancelled \subseteq Run /\ ended \subseteq Run
    /\ awaited \in [Run -> Run \union {None}]
    /\ restoring \in {"no", "reserved", "closing", "writing"}
    /\ outdated \subseteq Run

Unended(r) == at[r] \notin {"new", "refused"} /\ r \notin ended

(* A run that has not handed its key back is the one in charge of it: no   *)
(* other run was let in beside it, and neither the late clean-up of an     *)
(* older run, with the same id perhaps, nor a restore took its place (test *)
(* "hard timeout quarantines a non-cooperative active turn without its     *)
(* late cleanup affecting the next run").                                  *)
OwnsSlot ==
    \A r \in Run : Unended(r) => owner = r /\ (slot = RunId[r] \/ down)

(* Two runs never execute one session, although a timed out run may go on  *)
(* executing its own for ever.                                             *)
NoSharedSession ==
    \A r, q \in Run :
        (r # q /\ at[r] = "running" /\ at[q] = "running") => holds[r] # holds[q]

(* Every live session is the cached one: a late factory, a close, an idle  *)
(* sweep or a project closed meanwhile leaves none undisposed.             *)
NoLeakedSession == \A s \in Run : life[s] = "live" => cached = s

(* A session is made only when those before it have flushed the transcript *)
(* that the new one reads (getOrCreate awaits closingSessions).            *)
Handover ==
    [][\A r \in Run :
          (at[r] \notin Making /\ at'[r] \in Making)
              => \A s \in Run : life[s] \notin {"live", "disposing"}]_vars

(* getOrCreate never hands out a disposed session, also after a factory    *)
(* has failed to replace a dirty one, and never one that a runtime change  *)
(* announced before the call has outdated, except when the change came in  *)
(* while the call was under way.                                           *)
HandsOutCurrent ==
    [][\A r \in Run :
          (at[r] # "preparing" /\ at'[r] = "preparing")
              => /\ life'[holds'[r]] = "live"
                 /\ (r \in unchanged \/ at[r] = "refreshing") => holds'[r] \notin outdated]_vars

(* A restore rewrites a conversation that no run and no writer touches.    *)
RestoresAlone ==
    (restoring = "writing" /\ ~down) =>
        /\ \A r \in Run : ~Unended(r)
        /\ \A s \in Run : life[s] \notin {"live", "disposing"}

(* A hard timeout frees the session key, whatever the tool, the session or *)
(* the factory of the run does.                                            *)
HardTimeoutFrees == \A r \in Run : r \in timedOut ~> r \in ended

(* Preparation ends and a session ends its turn at some time. *)
Cooperates == \A r \in Run : WF_vars(Pump(r))

(* Then every run that was let in ends and hands its key back: no run      *)
(* waits for a disposal that never comes.                                  *)
RunsEnd == Cooperates => \A r \in Run : owner = r ~> owner # r
=============================================================================
