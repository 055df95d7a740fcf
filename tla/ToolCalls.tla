------------------------------- MODULE ToolCalls -------------------------------
(***************************************************************************)
(* The tool calls of the runs of one session key, from the scheduler that  *)
(* executes a batch (src/tool/scheduler/ConcurrentToolScheduler.ts) over   *)
(* the preparation of a call (src/tool/execution/ToolRuntime.ts) to the    *)
(* permissions and questions that wait for the user in the buses of the    *)
(* gateway (src/gateway/permission, src/gateway/elicitation), and the ends *)
(* of a run that reject them (InProcessGateway.ts).                        *)
(*                                                                         *)
(* The buses and the event stream are found by the session key.  A run     *)
(* that timed out may go on with its calls beside its successor, so what   *)
(* it asks late is shown, and rejected, among the questions of the other.  *)
(***************************************************************************)
EXTENDS Naturals, FiniteSets

CONSTANTS
    Run, NoRun,     \* the submissions for one session key, and none
    MaxCall,        \* the longest batch
    Batches,        \* the batches a model may ask for: length and kinds
    MaxConcurrency  \* maxConcurrency of the scheduler

ASSUME ToolAssumption ==
    /\ NoRun \notin Run
    /\ MaxCall \in Nat \ {0} /\ MaxConcurrency \in Nat \ {0}
    /\ Batches \subseteq (1 .. MaxCall) \X [1 .. MaxCall -> {"safe", "exclusive", "broken"}]

VARIABLES
    owner,     \* the run in charge of the session key
    run,       \* how far each run is
    cancelled, \* the runs whose cancellation was called
    aborted,   \* the runs whose abort signal has fired
    size,      \* the length of the batch of each run
    kind,      \* what its calls are, with the input they have now
    sched,     \* where executeAll is
    next,      \* its index
    failed,    \* the runs of which a call has thrown
    call,      \* how far each call is
    asked,     \* GatewayPermissionBus: the calls with an entry
    questions  \* GatewayElicitationBus

gateway == <<owner, run, cancelled, aborted>>
batch == <<size, kind, sched, next, failed>>
buses == <<asked, questions>>
vars == <<gateway, batch, call, buses>>

Call == 1 .. MaxCall
Calls(r) == 1 .. size[r]

(* isConcurrencySafe of the tool and its input: yes, no, or it throws. *)
Kinds == {"safe", "exclusive", "broken"}

(* A call waits for the user "asking" for permission and "questioning"     *)
(* while it executes; "refused" is a wait that was rejected, and "ending"  *)
(* is a call that has an error for result.                                 *)
Waiting == {"asking", "questioning"}
Executing == {"executing", "questioning"}
Stages == {"none", "preparing", "approved", "refused", "ending", "done"} \union Waiting \union Executing

Going(r) == {i \in Call : call[r][i] \notin {"none", "done"}}

NoCalls == [i \in Call |-> "none"]
NoKinds == [i \in Call |-> "safe"]

Init ==
    /\ owner = NoRun
    /\ run = [r \in Run |-> "new"]
    /\ cancelled = {} /\ aborted = {} /\ failed = {}
    /\ size = [r \in Run |-> 0]
    /\ kind = [r \in Run |-> NoKinds]
    /\ sched = [r \in Run |-> "idle"]
    /\ next = [r \in Run |-> 1]
    /\ call = [r \in Run |-> NoCalls]
    /\ asked = {} /\ questions = {}

-----------------------------------------------------------------------------
(* The scheduler. *)
(* The first step of ToolRuntime.execute; an aborted call only records it. *)
Entered(r) == IF r \in aborted THEN "ending" ELSE "preparing"

Enter(r, from, to) ==
    call' = [call EXCEPT ![r] = [i \in Call |-> IF i \in from .. to THEN Entered(r) ELSE @[i]]]

At(r, place, index) ==
    /\ sched' = [sched EXCEPT ![r] = place]
    /\ next' = [next EXCEPT ![r] = index]
    /\ UNCHANGED <<size, kind, failed, gateway, buses>>

(* The model asks for calls.  A single call goes without the pool. *)
Dispatch(r, n, k) ==
    /\ run[r] = "live" /\ sched[r] = "idle"
    /\ size' = [size EXCEPT ![r] = n]
    /\ kind' = [kind EXCEPT ![r] = k]
    /\ sched' = [sched EXCEPT ![r] = IF n = 1 THEN "alone" ELSE "filling"]
    /\ next' = [next EXCEPT ![r] = 1]
    /\ IF n = 1 THEN Enter(r, 1, 1) ELSE UNCHANGED call
    /\ UNCHANGED <<failed, gateway, buses>>

MustBeAlone(r, k) == k \in Calls(r) /\ (r \in aborted \/ kind[r][k] # "safe")

Room(r) == Cardinality(Going(r)) < MaxConcurrency

(* Where the loop awaits: behind the last call, at a call that must not    *)
(* run beside others, or when the pool is full.                            *)
StopsAt(r, k) ==
    \/ k = size[r] + 1
    \/ MustBeAlone(r, k)
    \/ Cardinality(Going(r)) + (k - next[r]) = MaxConcurrency

(* The loop starts calls up to its next await. *)
Fill(r) ==
    /\ sched[r] = "filling" /\ Room(r)
    /\ IF r \in failed THEN At(r, "throwing", next[r]) /\ UNCHANGED call
       ELSE \E k \in next[r] .. size[r] + 1 :
              /\ StopsAt(r, k) /\ \A j \in next[r] .. k - 1 : ~StopsAt(r, j)
              /\ Enter(r, next[r], k - 1)
              /\ At(r, CASE k = size[r] + 1 -> "draining"
                         [] Cardinality(Going(r)) + (k - next[r]) = MaxConcurrency -> "filling"
                         [] r \notin aborted /\ kind[r][k] = "broken" -> "throwing"
                         [] OTHER -> "barrier", k)

(* An exclusive call, or any call once aborted, when no other is going. *)
Exclusive(r) ==
    /\ sched[r] = "barrier" /\ Going(r) = {}
    /\ IF r \in failed THEN At(r, "throwing", next[r]) /\ UNCHANGED call
       ELSE Enter(r, next[r], next[r]) /\ At(r, "alone", next[r])

ExclusiveEnds(r) ==
    /\ sched[r] = "alone" /\ size[r] > 1 /\ Going(r) = {}
    /\ IF r \in failed THEN At(r, "throwing", next[r]) ELSE At(r, "filling", next[r] + 1)
    /\ UNCHANGED call

(* What executeAll leaves behind when it is over. *)
Over(r) ==
    /\ sched' = [sched EXCEPT ![r] = "settled"]
    /\ next' = [next EXCEPT ![r] = 1]
    /\ size' = [size EXCEPT ![r] = 0]
    /\ kind' = [kind EXCEPT ![r] = NoKinds]
    /\ failed' = failed \ {r}
    /\ UNCHANGED <<gateway, buses>>

(* executeAll returns or throws, after every call it started has ended. *)
Settle(r) ==
    /\ \/ sched[r] \in {"draining", "throwing"}
       \/ sched[r] = "alone" /\ size[r] = 1
    /\ Going(r) = {}
    /\ Over(r)
    /\ call' = [call EXCEPT ![r] = NoCalls]

-----------------------------------------------------------------------------
(* One call. *)
CallGoes(r, i, to) == call' = [call EXCEPT ![r][i] = to]

(* Faulty: the signal that has fired already is not looked at. *)
AskDeaf(r, i) ==
    /\ call[r][i] = "preparing"
    /\ IF owner = NoRun
         THEN CallGoes(r, i, "ending") /\ UNCHANGED asked
         ELSE CallGoes(r, i, "asking") /\ asked' = asked \union {<<r, i>>}
    /\ UNCHANGED <<gateway, batch, questions>>

(* The permission hook: denied when no stream can show the question.  A    *)
(* stopped run's question is rejected, and its entry stays in the bus.     *)
Ask(r, i) ==
    /\ call[r][i] = "preparing"
    /\ IF owner = NoRun
         THEN CallGoes(r, i, "ending") /\ UNCHANGED asked
         ELSE /\ CallGoes(r, i, IF r \in aborted THEN "refused" ELSE "asking")
              /\ asked' = asked \union {<<r, i>>}
    /\ UNCHANGED <<gateway, batch, questions>>

(* permissionDecide; nothing waits behind an entry that was left over. *)
Decide(r, i) ==
    /\ <<r, i>> \in asked
    /\ asked' = asked \ {<<r, i>>}
    /\ IF call[r][i] = "asking"
         THEN \E to \in {"approved", "ending"} : CallGoes(r, i, to)
         ELSE UNCHANGED call
    /\ UNCHANGED <<gateway, batch, questions>>

Pooled(r) == size[r] > 1 /\ MaxConcurrency > 1 /\ sched[r] # "alone"

(* Faulty: what a hook has made of the call is not checked again. *)
ExecuteUnchecked(r, i) ==
    /\ call[r][i] \in {"preparing", "approved"}
    /\ \E k \in {kind[r][i], "exclusive"} :
         /\ kind' = [kind EXCEPT ![r][i] = k]
         /\ CallGoes(r, i, IF r \in aborted THEN "ending" ELSE "executing")
    /\ UNCHANGED <<gateway, size, sched, next, failed, buses>>

(* Allowed, by the rules or by the user.  Hooks and permissions may have   *)
(* changed the input: in the pool it must still be safe.  The abort signal *)
(* is looked at last.                                                      *)
Execute(r, i) ==
    /\ call[r][i] \in {"preparing", "approved"}
    /\ \E k \in {kind[r][i], "exclusive"} :
         /\ kind' = [kind EXCEPT ![r][i] = k]
         /\ CallGoes(r, i, IF r \in aborted \/ (Pooled(r) /\ k # "safe")
                           THEN "ending" ELSE "executing")
    /\ UNCHANGED <<gateway, size, sched, next, failed, buses>>

(* askUser of a tool; a stopped run's question is cancelled at once. *)
Question(r, i) ==
    /\ call[r][i] = "executing"
    /\ IF r \in aborted
         THEN CallGoes(r, i, "refused") /\ UNCHANGED questions
         ELSE CallGoes(r, i, "questioning") /\ questions' = questions \union {<<r, i>>}
    /\ UNCHANGED <<gateway, batch, asked>>

(* respondElicitation: an answer, or the user declines. *)
Respond(r, i) ==
    /\ <<r, i>> \in questions
    /\ questions' = questions \ {<<r, i>>}
    /\ \E to \in {"executing", "ending"} : CallGoes(r, i, to)
    /\ UNCHANGED <<gateway, batch, asked>>

(* The call is refused by a check, a hook or a rule, or the tool returns   *)
(* or throws; and the result is audited.  An audit that throws fails the   *)
(* batch.                                                                  *)
Result(r, i) ==
    /\ call[r][i] \in {"preparing", "approved", "executing", "refused", "ending"}
    /\ CallGoes(r, i, "done")
    /\ failed' \in {failed, failed \union {r}}
    /\ UNCHANGED <<gateway, size, kind, sched, next, buses>>

-----------------------------------------------------------------------------
(* The runs. *)
(* rejectSession of both buses; stopped are the runs whose abort signal    *)
(* fires too.                                                              *)
InBuses == asked \union questions

Reject(stopped) ==
    /\ call' = [r \in Run |-> [i \in Call |->
                  IF call[r][i] \in Waiting /\ (r \in stopped \/ <<r, i>> \in InBuses)
                  THEN "refused" ELSE call[r][i]]]
    /\ asked' = {} /\ questions' = {}

Submit(r) ==
    /\ run[r] = "new" /\ owner = NoRun
    /\ run' = [run EXCEPT ![r] = "live"]
    /\ owner' = r
    /\ UNCHANGED <<cancelled, aborted, batch, call, buses>>

(* Faulty: the questions are rejected and the agent is not told. *)
CancelWithoutAbort(r) ==
    /\ owner = r /\ r \notin cancelled
    /\ cancelled' = cancelled \union {r}
    /\ Reject({r})
    /\ UNCHANGED <<owner, run, aborted, batch>>

(* cancel, by a Stop, the host's signal or the end of the event stream. *)
Cancel(r) ==
    /\ owner = r /\ r \notin cancelled
    /\ cancelled' = cancelled \union {r} /\ aborted' = aborted \union {r}
    /\ Reject({r})
    /\ UNCHANGED <<owner, run, batch>>

(* The session is closed under its run: AgentSession.dispose fires the     *)
(* signal.  Entries for permissions stay.                                  *)
Dispose(r) ==
    /\ run[r] = "live" /\ r \notin aborted
    /\ aborted' = aborted \union {r}
    /\ call' = [call EXCEPT ![r] = [i \in Call |-> IF @[i] \in Waiting THEN "refused" ELSE @[i]]]
    /\ questions' = {x \in questions : x[1] # r}
    /\ UNCHANGED <<owner, run, cancelled, batch, asked>>

(* The hard timeout: a cancellation, and the session is closed. *)
Timeout(r) ==
    /\ run[r] = "live"
    /\ run' = [run EXCEPT ![r] = "expired"]
    /\ cancelled' = cancelled \union {r} /\ aborted' = aborted \union {r}
    /\ IF r \in cancelled THEN UNCHANGED <<call, buses>> ELSE Reject({r})
    /\ UNCHANGED <<owner, batch>>

HandBack(r) ==
    /\ run' = [run EXCEPT ![r] = "ended"]
    /\ owner' = NoRun
    /\ Reject({})
    /\ UNCHANGED <<cancelled, aborted, batch>>

(* finish of a run that timed out: its calls go on. *)
TimeoutFrees(r) == run[r] = "expired" /\ HandBack(r)

(* The turn ends when its batch has settled, and finish follows. *)
Finish(r) ==
    /\ run[r] = "live" /\ sched[r] \in {"idle", "settled"}
    /\ HandBack(r)

-----------------------------------------------------------------------------
Schedule(r) == Fill(r) \/ Exclusive(r) \/ ExclusiveEnds(r) \/ Settle(r)

CallStep(r, i) == Ask(r, i) \/ Execute(r, i) \/ Question(r, i) \/ Result(r, i)

User(r, i) == Decide(r, i) \/ Respond(r, i)

RunStep(r) ==
    \/ Submit(r) \/ Cancel(r) \/ Dispose(r) \/ Timeout(r) \/ TimeoutFrees(r) \/ Finish(r)
    \/ \E b \in Batches : Dispatch(r, b[1], b[2])

Next == \E r \in Run :
    \/ RunStep(r) \/ Schedule(r)
    \/ \E i \in Call : CallStep(r, i) \/ User(r, i)

Spec == Init /\ [][Next]_vars

-----------------------------------------------------------------------------
TypeOK ==
    /\ owner \in Run \union {NoRun}
    /\ run \in [Run -> {"new", "live", "expired", "ended"}]
    /\ cancelled \subseteq aborted /\ aborted \subseteq Run /\ failed \subseteq Run
    /\ size \in [Run -> 0 .. MaxCall]
    /\ kind \in [Run -> [Call -> Kinds]]
    /\ sched \in [Run -> {"idle", "filling", "barrier", "alone", "draining", "throwing", "settled"}]
    /\ next \in [Run -> 1 .. MaxCall + 1]
    /\ call \in [Run -> [Call -> Stages]]
    /\ asked \subseteq Run \X Call /\ questions \subseteq Run \X Call

(* Whatever hooks and permissions make of the inputs, a tool that must not *)
(* run beside others executes alone in its batch, at most maxConcurrency   *)
(* calls are under way, and none outlives executeAll, which may throw      *)
(* ("neither cancellation nor an unexpected failure may orphan started     *)
(* calls", ConcurrentToolScheduler.ts 70).                                 *)
BarrierHolds == \A r \in Run :
    /\ Cardinality(Going(r)) <= MaxConcurrency
    /\ sched[r] \in {"idle", "settled"} => Going(r) = {}
    /\ \A i \in Going(r) :
         call[r][i] \in Executing /\ kind[r][i] # "safe" => Going(r) = {i}

(* A call that waits for the user can be answered: its entry is in the bus *)
(* and its run is the one in charge, not yet stopped.  And only the end of *)
(* its own run refuses a call, never that of the run before or after,      *)
(* which share the bus.                                                    *)
QuestionsReachTheirCall == \A r \in Run, i \in Call :
    /\ call[r][i] = "asking" => <<r, i>> \in asked
    /\ call[r][i] = "questioning" => <<r, i>> \in questions
    /\ call[r][i] \in Waiting => owner = r /\ r \notin aborted
    /\ call[r][i] = "refused" => r \in aborted
=============================================================================
