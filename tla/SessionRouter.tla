---------------------------- MODULE SessionRouter ----------------------------
(***************************************************************************)
(* The cache of agent sessions (src/gateway/SessionRouter.ts), for one     *)
(* session key of one project: the sessions of other keys share nothing    *)
(* with it but the project and runtime marks.  Each call of getOrCreate    *)
(* makes at most one session, so a session is named by the run whose call  *)
(* makes it.                                                               *)
(*                                                                         *)
(* Generations (a Symbol for the session, a counter for the project, the   *)
(* runtime revisions) are only ever compared by a call with the value it   *)
(* read when it began: they are the sets of calls for which the comparison *)
(* still succeeds.                                                         *)
(***************************************************************************)
CONSTANTS
    Run,        \* calls of submitTurn
    RunId,      \* the id of a run: a host may use one again
    RestoreId,  \* the id of a checkpoint restore
    None

ASSUME RunAssumption ==
    /\ None \notin Run
    /\ \A r \in Run : RunId[r] \notin {None, RestoreId}
    /\ RestoreId # None

VARIABLES
    slot,       \* inFlightTurns: the id that reserved the session key
    cached,     \* sessions: the session in the cache
    dirty,      \* whether it has a dirtyReason
    life,       \* the life of each session; one made too late is discarded
    closing,    \* closingSessions: the session whose disposal is under way
    fresh,      \* the calls that began in the present session generation
    steady,     \* the calls since which the project was not closed
    unchanged,  \* the calls since which no runtime change was announced
    paused,     \* the project is being deleted
    down        \* isShutdown

router == <<slot, cached, dirty, life, closing, fresh, steady, unchanged, paused, down>>

RouterInit ==
    /\ slot = None
    /\ cached = None
    /\ dirty = FALSE
    /\ life = [s \in Run |-> "unborn"]
    /\ closing = None
    /\ fresh = {} /\ steady = {} /\ unchanged = {}
    /\ paused = FALSE
    /\ down = FALSE

-----------------------------------------------------------------------------
(* beginTurn is true, and endTurn(id). *)
Reserve(id) == ~down /\ slot = None /\ slot' = id

Release(id) == slot' = IF slot = id THEN None ELSE slot

(* dispose() of a session; only the first call has an effect. *)
Dispose(s) == life' = [life EXCEPT ![s] = IF @ = "live" THEN "disposing" ELSE @]

(* sessions.delete and emitSessionEvict for the cached session. *)
EvictCached ==
    /\ cached' = None
    /\ dirty' = FALSE
    /\ Dispose(cached)
    /\ closing' = cached

(* close: sessionGenerations.delete, then evict what is cached. *)
Close ==
    /\ fresh' = {}
    /\ IF cached # None THEN EvictCached ELSE UNCHANGED <<cached, dirty, life, closing>>

(* The disposal that the promise of close waits for. *)
Draining == IF cached # None THEN cached ELSE closing

Drained(s) == s # None => life[s] = "disposed"

(* A session has flushed its transcript: the finally of emitSessionEvict. *)
Disposed(s) ==
    /\ life[s] \in {"disposing", "discarding"} \/ (life[s] = "disposed" /\ closing = s)
    /\ life' = [life EXCEPT ![s] = "disposed"]
    /\ closing' = IF closing = s THEN None ELSE closing
    /\ UNCHANGED <<slot, cached, dirty, fresh, steady, unchanged, paused, down>>

(* closeSession of a client, or a change of the session's model. *)
CloseSession == Close /\ UNCHANGED <<slot, steady, unchanged, paused, down>>

(* sweepIdle, from its timer or from beginTurn: skips a session in use. *)
SweepIdle ==
    /\ ~down /\ slot = None /\ cached # None
    /\ Close
    /\ UNCHANGED <<slot, steady, unchanged, paused, down>>

(* markAllDirty and markProjectDirty of this project. *)
MarkDirty ==
    /\ dirty' = (cached # None)
    /\ unchanged' = {}
    /\ UNCHANGED <<slot, cached, life, closing, fresh, steady, paused, down>>

CloseProject ==
    /\ paused' = TRUE
    /\ steady' = {}
    /\ IF cached # None THEN Close ELSE UNCHANGED <<cached, dirty, life, closing, fresh>>
    /\ UNCHANGED <<slot, unchanged, down>>

ResumeProject ==
    /\ paused
    /\ paused' = FALSE
    /\ UNCHANGED <<slot, cached, dirty, life, closing, fresh, steady, unchanged, down>>

Shutdown ==
    /\ ~down
    /\ down' = TRUE
    /\ slot' = None
    /\ Close
    /\ UNCHANGED <<steady, unchanged, paused>>

(* A call of getOrCreate by run r fails: its finally block drops the       *)
(* generation when no session and no other creation (others) is left.      *)
Fail(r, others) ==
    fresh' = IF cached = None /\ others = {} /\ r \in fresh THEN {} ELSE fresh \ {r}

(* Faulty: the session generation is not compared. *)
KeptAnyway(r) == ~down /\ ~paused /\ r \in steady

(* createTrackedSession gives call r a session: it is kept only when       *)
(* nothing was closed in the meantime.                                     *)
Kept(r) == ~down /\ ~paused /\ r \in fresh /\ r \in steady

(* Faulty: a runtime change during the creation is not noticed. *)
AdoptClean(r) ==
    /\ Kept(r)
    /\ cached' = r /\ dirty' = FALSE
    /\ life' = [life EXCEPT ![r] = "live"]
    /\ UNCHANGED closing

Adopt(r) ==
    /\ Kept(r)
    /\ cached' = r
    /\ dirty' = (r \notin unchanged)
    /\ life' = [life EXCEPT ![r] = "live"]
    /\ UNCHANGED closing

RouterTypeOK ==
    /\ slot \in {RunId[r] : r \in Run} \union {RestoreId, None}
    /\ cached \in Run \union {None}
    /\ dirty \in BOOLEAN
    /\ life \in [Run -> {"unborn", "creating", "live", "discarding", "disposing", "disposed"}]
    /\ closing \in Run \union {None}
    /\ fresh \subseteq Run /\ steady \subseteq Run /\ unchanged \subseteq Run
    /\ paused \in BOOLEAN /\ down \in BOOLEAN
=============================================================================
