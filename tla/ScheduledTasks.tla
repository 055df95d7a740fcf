--------------------------- MODULE ScheduledTasks ---------------------------
(***************************************************************************)
(* The scheduled tasks of one project: the task file and its serialised    *)
(* mutations (src/cron/storage/CronTaskStore.ts), the timer and the ticks  *)
(* that find due tasks (src/cron/runtime/CronScheduler.ts), the run of one *)
(* occurrence (CronFire.ts), the recovery of a restarted manager and the   *)
(* requests of the user (CronRuntime.ts), and the hot reload that replaces *)
(* one manager by the next in the same process (src/cli/pilotdeck.ts).     *)
(*                                                                         *)
(* A manager is a generation.  A crash ends every activity of the process; *)
(* a reload leaves the runs and the forgotten timers of the old generation *)
(* alive beside the new one.  Only the task file and the run history are   *)
(* on disk.  One unit of time is one period of every recurring schedule,   *)
(* and also the minute by which a task is put off.                         *)
(***************************************************************************)
EXTENDS Naturals, FiniteSets

CONSTANTS
    Task, NoTask,      \* the identifiers createTask may draw, and none
    MaxConcurrentRuns, \* config.maxConcurrentRuns
    MaxRun,            \* bound on the run identifiers
    MaxGen,            \* bound on the managers: 1 + restarts + reloads
    MaxNow,            \* bound on the clock
    MaxEdit,           \* bound on the edits of one task
    MaxChain           \* bound on the timers and ticks of one scheduler

ASSUME ScheduleAssumption ==
    /\ NoTask \notin Task
    /\ MaxConcurrentRuns \in Nat \ {0}
    /\ MaxRun \in Nat /\ MaxNow \in Nat /\ MaxEdit \in Nat
    /\ MaxChain \in Nat \ {0} /\ MaxGen \in Nat \ {0}

VARIABLES
    now,      \* the clock
    store,    \* the task file
    history,  \* run-history.jsonl: the number of terminal records of each run
    told,     \* what the user knows of each task
    policy,   \* sessionOverrides: the tasks whose unattended policy is registered
    run,      \* CronFire.runTask, one per run identifier
    tick,     \* CronScheduler.tick, one per tick under way
    armed,    \* how many timers of each scheduler have yet to fire
    held,     \* does this.timer of each scheduler hold one of them?
    awaited,  \* tickInProgress of each scheduler
    gen,      \* the current manager
    phase,    \* how far it is
    rec,      \* what its start or its stop has read and done
    rewound,  \* history: the tasks whose revision a recovery has set back
    call      \* the task of a stop request that waits for its abort

timers == <<armed, held, awaited>>
manager == <<gen, phase, rec, rewound>>
vars == <<now, store, history, told, policy, run, tick, timers, manager, call>>

Run == 1 .. MaxRun
Gen == 1 .. MaxGen
Slot == 1 .. MaxChain
NoRun == 0
NoSlot == 0

(* A task of the file: last is lastRunId, at is nextRunAt, and edit stands *)
(* for what the user wrote.                                                *)
Absent == [status |-> "absent", type |-> "once", rev |-> 0, at |-> 0, last |-> NoRun, edit |-> 0]
Present(t) == store[t].status # "absent"

NotRunning == [at |-> "free", task |-> NoTask, gen |-> 1, was |-> Absent, claim |-> Absent, next |-> 0]
NoTick == [live |-> FALSE, gen |-> 1, now |-> 0, due |-> {}]
Nothing == [todo |-> {}, recorded |-> {}, next |-> 0, wait |-> NoSlot]

(* Where a run is: "claiming" before its compare-and-set, "turn" in        *)
(* submitTurn, then the steps of its finally block.                        *)
Taken == {"turn", "recording", "settling", "done", "dead"}
Claimed == {r \in Run : run[r].at \in Taken}

(* Faulty: a run is registered once it has taken its task. *)
ActiveOnceClaimed(g) == {r \in Run : run[r].gen = g /\ run[r].at = "turn"}

(* activeRuns of a manager. *)
Active(g) == {r \in Run : run[r].gen = g /\ run[r].at \in {"claiming", "turn"}}

Phases == {"listing", "reading", "recovering", "started", "stopping"}
Started(g) == g = gen /\ phase = "started"

Init ==
    /\ now = 0
    /\ store = [t \in Task |-> Absent]
    /\ history = [r \in Run |-> 0]
    /\ told = [t \in Task |-> "unknown"]
    /\ policy = {}
    /\ run = [r \in Run |-> NotRunning]
    /\ tick = [i \in Slot |-> NoTick]
    /\ armed = [g \in Gen |-> 0]
    /\ held = [g \in Gen |-> FALSE]
    /\ awaited = [g \in Gen |-> NoSlot]
    /\ gen = 1
    /\ phase = "listing"
    /\ rec = Nothing
    /\ rewound = {}
    /\ call = NoTask

-----------------------------------------------------------------------------
(* The scheduler.  A new timer is kept in this.timer whatever was there;   *)
(* only the timer kept there can be cleared.                               *)
Arm(g) ==
    /\ armed' = [armed EXCEPT ![g] = @ + 1]
    /\ held' = [held EXCEPT ![g] = TRUE]

(* The timers and ticks that each go on for ever; MaxChain bounds them. *)
Chains(g) == armed[g] + Cardinality({i \in Slot : tick[i].live /\ tick[i].gen = g})

(* poke: nothing unless the scheduler is started. *)
Poke ==
    /\ IF Started(gen)
          THEN /\ held[gen] \/ Chains(gen) < MaxChain
               /\ armed' = [armed EXCEPT ![gen] = IF held[gen] THEN @ ELSE @ + 1]
               /\ held' = [held EXCEPT ![gen] = TRUE]
          ELSE UNCHANGED <<armed, held>>
    /\ UNCHANGED awaited

Unused == {r \in Run : run[r].at = "free"}

(* isDue, of the tasks read.  Bound: nothing counts as due when the run    *)
(* identifiers would not suffice.                                          *)
Pending == UNION {{<<i, d>> : d \in tick[i].due} : i \in Slot}

Due ==
    LET due == {[task |-> t, was |-> store[t]] :
                  t \in {u \in Task : store[u].status = "scheduled" /\ store[u].at <= now}}
    IN  IF Cardinality(due) + Cardinality(Pending) <= Cardinality(Unused) THEN due ELSE {}

(* A timer fires, also one of a stopped scheduler that nobody could clear. *)
(* The callback forgets this.timer even when it holds another timer.       *)
TimerFires(g, i) ==
    /\ armed[g] > 0 /\ ~tick[i].live
    /\ armed' = [armed EXCEPT ![g] = @ - 1]
    /\ held' = [held EXCEPT ![g] = FALSE]
    /\ awaited' = [awaited EXCEPT ![g] = i]
    /\ tick' = [tick EXCEPT ![i] = [live |-> TRUE, gen |-> g, now |-> now, due |-> Due]]
    /\ UNCHANGED <<now, store, history, told, policy, run, manager, call>>

(* Faulty: the revision is not compared. *)
SameButRevision(a, b) == a.status = b.status /\ a.at = b.at /\ a.last = b.last

Same(a, b) ==
    a.status = b.status /\ a.rev = b.rev /\ a.at = b.at /\ a.last = b.last

Served(i, d) == tick' = [tick EXCEPT ![i].due = @ \ {d}]

(* The next due task, below the limit: runTask registers the run before    *)
(* its first await, and the tick goes on without waiting for it.           *)
Launch(i) == \E d \in tick[i].due :
    /\ Cardinality(Active(tick[i].gen)) < MaxConcurrentRuns
    /\ \E r \in Unused :
         /\ \A u \in Unused : r <= u
         /\ run' = [run EXCEPT ![r] = [NotRunning EXCEPT
                       !.at = "claiming", !.task = d.task, !.gen = tick[i].gen, !.was = d.was]]
    /\ Served(i, d)
    /\ UNCHANGED <<now, store, history, told, policy, timers, manager, call>>

(* At the limit: delayTask puts it off by a minute, unless it has changed. *)
Delay(i) == \E d \in tick[i].due :
    /\ Cardinality(Active(tick[i].gen)) >= MaxConcurrentRuns
    /\ store' = IF Same(store[d.task], d.was)
                  THEN [store EXCEPT ![d.task].at = tick[i].now + 1, ![d.task].rev = @ + 1]
                  ELSE store
    /\ Served(i, d)
    /\ UNCHANGED <<now, history, told, policy, run, timers, manager, call>>

(* Faulty: only the tick that stop() would wait for arms the next timer. *)
TickEndsAwaited(i) ==
    /\ tick[i].live /\ tick[i].due = {}
    /\ tick' = [tick EXCEPT ![i] = NoTick]
    /\ awaited' = [awaited EXCEPT ![tick[i].gen] = NoSlot]
    /\ IF Started(tick[i].gen) /\ awaited[gen] = i THEN Arm(gen) ELSE UNCHANGED <<armed, held>>
    /\ rec' = [rec EXCEPT !.wait = IF @ = i THEN NoSlot ELSE @]
    /\ UNCHANGED <<now, store, history, told, policy, run, gen, phase, rewound, call>>

(* The end of a tick arms the next timer, unless the scheduler is stopped. *)
TickEnds(i) ==
    /\ tick[i].live /\ tick[i].due = {}
    /\ tick' = [tick EXCEPT ![i] = NoTick]
    /\ awaited' = [awaited EXCEPT ![tick[i].gen] = NoSlot]
    /\ IF Started(tick[i].gen)
         THEN Arm(gen)
         ELSE UNCHANGED <<armed, held>>
    /\ rec' = [rec EXCEPT !.wait = IF @ = i THEN NoSlot ELSE @]
    /\ UNCHANGED <<now, store, history, told, policy, run, gen, phase, rewound, call>>

-----------------------------------------------------------------------------
(* The run of one occurrence. *)
(* Faulty: any scheduled task is taken. *)
MatchesAnyScheduled(t, was) == store[t].status = "scheduled"

MatchesScheduledSnapshot(t, was) == store[t].status = "scheduled" /\ Same(store[t], was)

(* The compare-and-set that takes the task; a run refused leaves no trace. *)
Claim(r) ==
    /\ run[r].at = "claiming"
    /\ LET t == run[r].task
           taken == [store[t] EXCEPT !.status = "running", !.last = r, !.rev = @ + 1]
       IN  IF MatchesScheduledSnapshot(t, run[r].was)
             THEN /\ store' = [store EXCEPT ![t] = taken]
                  /\ run' = [run EXCEPT ![r].at = "turn", ![r].claim = taken]
             ELSE /\ run' = [run EXCEPT ![r] = NotRunning]
                  /\ UNCHANGED store
    /\ UNCHANGED <<now, history, told, policy, tick, timers, manager, call>>

(* submitTurn completes, fails, times out or is aborted: the run is no     *)
(* longer active, and the next occurrence is counted from now.             *)
TurnEnds(r) ==
    /\ run[r].at = "turn"
    /\ run' = [run EXCEPT ![r].at = "recording", ![r].next = now + 1]
    /\ UNCHANGED <<now, store, history, told, policy, tick, timers, manager, call>>

Record(r) ==
    /\ run[r].at = "recording"
    /\ history' = [history EXCEPT ![r] = @ + 1]
    /\ run' = [run EXCEPT ![r].at = "settling"]
    /\ UNCHANGED <<now, store, told, policy, tick, timers, manager, call>>

(* Faulty: the task is written back whatever has become of it. *)
MatchesAnything(t, claim, r) == TRUE

MatchesRunningTask(t, claim, r) ==
    store[t].status = "running" /\ store[t].last = r /\ store[t].rev = claim.rev

(* updateTaskAfterRun: a one-time task goes, with its session; a recurring *)
(* one waits for its next time.                                            *)
Settle(r) ==
    /\ run[r].at = "settling"
    /\ run' = [run EXCEPT ![r].at = "done", ![r].next = 0]
    /\ LET t == run[r].task IN
       IF ~MatchesRunningTask(t, run[r].claim, r) THEN UNCHANGED <<store, policy>>
       ELSE IF run[r].claim.type = "once"
         THEN store' = [store EXCEPT ![t] = Absent] /\ policy' = policy \ {t}
         ELSE /\ store' = [store EXCEPT ![t].status = "scheduled",
                                        ![t].at = run[r].next, ![t].rev = @ + 1]
              /\ UNCHANGED policy
    /\ UNCHANGED <<now, history, told, tick, timers, manager, call>>

-----------------------------------------------------------------------------
(* The start of a manager: recoverInterruptedRuns, prepareTaskSessions and *)
(* scheduler.start.  What is found running is written back from the copy   *)
(* read first, whatever has happened to the task since.                    *)
(* Faulty: only recurring tasks are looked for. *)
RecoverRecurring ==
    /\ phase = "listing"
    /\ phase' = "reading"
    /\ rec' = [Nothing EXCEPT !.next = now + 1, !.todo =
                  {[task |-> t, was |-> store[t]] :
                     t \in {u \in Task : store[u].status = "running" /\ store[u].type = "cron"}}]
    /\ UNCHANGED <<now, store, history, told, policy, run, tick, timers, gen, rewound, call>>

RecoverList ==
    /\ phase = "listing"
    /\ phase' = "reading"
    /\ rec' = [Nothing EXCEPT !.next = now + 1, !.todo =
                  {[task |-> t, was |-> store[t]] : t \in {u \in Task : store[u].status = "running"}}]
    /\ UNCHANGED <<now, store, history, told, policy, run, tick, timers, gen, rewound, call>>

RecoverRead ==
    /\ phase = "reading"
    /\ phase' = "recovering"
    /\ rec' = [rec EXCEPT !.recorded = {r \in Run : history[r] > 0}]
    /\ UNCHANGED <<now, store, history, told, policy, run, tick, timers, gen, rewound, call>>

(* A run without a terminal record is recorded as interrupted. *)
RecoverRecord == \E d \in rec.todo :
    /\ phase = "recovering" /\ d.was.last \notin rec.recorded
    /\ history' = [history EXCEPT ![d.was.last] = @ + 1]
    /\ rec' = [rec EXCEPT !.recorded = @ \union {d.was.last}]
    /\ UNCHANGED <<now, store, told, policy, run, tick, timers, gen, phase, rewound, call>>

Restored(d) == [d.was EXCEPT !.status = "scheduled", !.at = rec.next, !.rev = @ + 1]

RecoverTask == \E d \in rec.todo :
    /\ phase = "recovering" /\ d.was.last \in rec.recorded
    /\ IF d.was.type = "once"
         THEN /\ store' = [store EXCEPT ![d.task] = Absent] /\ policy' = policy \ {d.task}
              /\ UNCHANGED rewound
         ELSE /\ store' = [store EXCEPT ![d.task] = Restored(d)] /\ UNCHANGED policy
              /\ rewound' = IF Present(d.task) /\ store[d.task].rev <= Restored(d).rev
                               THEN rewound ELSE rewound \union {d.task}
    /\ rec' = [rec EXCEPT !.todo = @ \ {d}]
    /\ UNCHANGED <<now, history, told, run, tick, timers, gen, phase, call>>

(* Faulty: the sessions of the tasks found are not prepared. *)
StartUnprepared ==
    /\ phase = "recovering" /\ rec.todo = {}
    /\ phase' = "started"
    /\ Arm(gen)
    /\ rec' = Nothing
    /\ UNCHANGED <<now, store, history, told, policy, run, tick, awaited, gen, rewound, call>>

Start ==
    /\ phase = "recovering" /\ rec.todo = {}
    /\ policy' = policy \union {t \in Task : Present(t)}
    /\ phase' = "started"
    /\ Arm(gen)
    /\ rec' = Nothing
    /\ UNCHANGED <<now, store, history, told, run, tick, awaited, gen, rewound, call>>

-----------------------------------------------------------------------------
(* handleSubsystemReload: scheduler.stop clears the timer it holds and     *)
(* waits for the tick it knows of; the active runs are asked to abort and  *)
(* left alone; the sessions of all tasks are released; the next manager is *)
(* built and started.                                                      *)
(* Faulty: the timer is cleared and still held. *)
StopStillHeld ==
    /\ phase = "started" /\ gen < MaxGen
    /\ phase' = "stopping"
    /\ armed' = [armed EXCEPT ![gen] = IF held[gen] THEN @ - 1 ELSE @]
    /\ rec' = [rec EXCEPT !.wait = awaited[gen]]
    /\ UNCHANGED <<now, store, history, told, policy, run, tick, held, awaited, gen, rewound, call>>

Stop ==
    /\ phase = "started" /\ gen < MaxGen
    /\ phase' = "stopping"
    /\ armed' = [armed EXCEPT ![gen] = IF held[gen] THEN @ - 1 ELSE @]
    /\ held' = [held EXCEPT ![gen] = FALSE]
    /\ rec' = [rec EXCEPT !.wait = awaited[gen]]
    /\ UNCHANGED <<now, store, history, told, policy, run, tick, awaited, gen, rewound, call>>

Replace ==
    /\ phase = "stopping" /\ rec.wait = NoSlot
    /\ policy' = policy \ {t \in Task : Present(t)}
    /\ gen' = gen + 1
    /\ phase' = "listing"
    /\ UNCHANGED <<now, store, history, told, run, tick, timers, rec, rewound, call>>

(* The process ends and is started again: the file and the history remain. *)
Crash ==
    /\ gen < MaxGen
    /\ gen' = gen + 1
    /\ phase' = "listing"
    /\ rec' = Nothing
    /\ policy' = {}
    /\ run' = [r \in Run |-> IF run[r].at = "claiming" THEN NotRunning
                             ELSE IF r \in Claimed THEN [run[r] EXCEPT !.at = "dead"]
                             ELSE run[r]]
    /\ tick' = [i \in Slot |-> NoTick]
    /\ armed' = [g \in Gen |-> 0] /\ held' = [g \in Gen |-> FALSE]
    /\ awaited' = [g \in Gen |-> NoSlot]
    /\ call' = NoTask
    /\ UNCHANGED <<now, store, history, told, rewound>>

-----------------------------------------------------------------------------
(* Requests of the user.  A manager that is starting is waited for, except *)
(* by a deletion that names no project.                                    *)
Reachable == phase \in {"started", "stopping"}

(* createTask: the policy of its session is registered before it is        *)
(* stored.                                                                 *)
Put(t, type, at) ==
    /\ told[t] = "unknown"
    /\ store' = [store EXCEPT ![t] = [Absent EXCEPT !.status = "scheduled", !.type = type, !.at = at]]
    /\ told' = [told EXCEPT ![t] = "kept"]
    /\ policy' = policy \union {t}

Times(type) == IF type = "once" THEN {now, now + 1} ELSE {now + 1}

Create(t, type) ==
    /\ Reachable
    /\ \E at \in Times(type) : Put(t, type, at)
    /\ Poke
    /\ UNCHANGED <<now, history, run, tick, manager, call>>

(* updateTask refuses a running task and a revision the user has not seen. *)
Update(t, type) ==
    /\ Reachable
    /\ store[t].status = "scheduled" /\ store[t].edit < MaxEdit
    /\ \E at \in Times(type) :
         store' = [store EXCEPT ![t].type = type, ![t].at = at, ![t].rev = @ + 1, ![t].edit = @ + 1]
    /\ Poke
    /\ UNCHANGED <<now, history, told, policy, run, tick, manager, call>>

(* A recovery under way holds a copy of the task, which it may yet put     *)
(* back.                                                                   *)
Copied(t) == \E d \in rec.todo : d.task = t

Forget(t) ==
    /\ store' = [store EXCEPT ![t] = Absent]
    /\ told' = [told EXCEPT ![t] = IF Copied(t) THEN "overtaken" ELSE "deleted"]
    /\ policy' = policy \ {t}

Delete(t) ==
    /\ Present(t)
    /\ Forget(t)
    /\ Poke
    /\ UNCHANGED <<now, history, run, tick, manager, call>>

(* stopTask of a run that began as one-time: abortTurn is waited for, and  *)
(* then the task is deleted.                                               *)
StopTask(t) ==
    /\ Reachable /\ call = NoTask
    /\ \E r \in Active(gen) : run[r].task = t /\ run[r].was.type = "once"
    /\ call' = t
    /\ UNCHANGED <<now, store, history, told, policy, run, tick, timers, manager>>

TaskStopped ==
    /\ call # NoTask
    /\ Forget(call)
    /\ Poke
    /\ call' = NoTask
    /\ UNCHANGED <<now, history, run, tick, manager>>

Advance ==
    /\ now < MaxNow
    /\ now' = now + 1
    /\ UNCHANGED <<store, history, told, policy, run, tick, timers, manager, call>>

-----------------------------------------------------------------------------
RunStep(r) == Claim(r) \/ TurnEnds(r) \/ Record(r) \/ Settle(r)
TickStep(i) == Launch(i) \/ Delay(i) \/ TickEnds(i)
StartStep == RecoverList \/ RecoverRead \/ RecoverRecord \/ RecoverTask \/ Start
Request(t) ==
    \/ \E type \in {"once", "cron"} : Create(t, type) \/ Update(t, type)
    \/ Delete(t) \/ StopTask(t)

Next ==
    \/ \E r \in Run : RunStep(r)
    \/ \E i \in Slot : TickStep(i)
    \/ \E g \in Gen, i \in Slot : TimerFires(g, i)
    \/ StartStep
    \/ Stop \/ Replace \/ Crash \/ Advance
    \/ \E t \in Task : Request(t)
    \/ TaskStopped

(* File operations and turns end; a turn has a time limit.                 *)
Fairness ==
    /\ \A r \in Run : WF_vars(RunStep(r))
    /\ WF_vars(StartStep)

Spec == Init /\ [][Next]_vars /\ Fairness

-----------------------------------------------------------------------------
TaskRecord == [status : {"absent", "scheduled", "running"}, type : {"once", "cron"},
          rev : Nat, at : Nat, last : Run \union {NoRun}, edit : 0 .. MaxEdit]
Snapshot == [task : Task, was : TaskRecord]

(* Every part of the state has its type. *)
TypeOK ==
    /\ now \in 0 .. MaxNow
    /\ store \in [Task -> TaskRecord]
    /\ history \in [Run -> Nat]
    /\ told \in [Task -> {"unknown", "kept", "deleted", "overtaken"}]
    /\ policy \subseteq Task
    /\ \A r \in Run : /\ run[r].at \in Taken \union {"free", "claiming"}
                       /\ run[r].at # "free" => run[r].task \in Task
                       /\ run[r].gen \in Gen /\ run[r].was \in TaskRecord
                       /\ run[r].claim \in TaskRecord /\ run[r].next \in Nat
    /\ \A i \in Slot : tick[i].gen \in Gen /\ tick[i].due \subseteq Snapshot
    /\ armed \in [Gen -> 0 .. MaxChain] /\ held \in [Gen -> BOOLEAN]
    /\ \A g \in Gen : held[g] => armed[g] > 0
    /\ awaited \in [Gen -> Slot \union {NoSlot}]
    /\ gen \in Gen /\ phase \in Phases
    /\ rec.todo \subseteq Snapshot /\ rec.recorded \subseteq Run
    /\ rec.wait \in Slot \union {NoSlot} /\ rewound \subseteq Task
    /\ call \in Task \union {NoTask}

(* However many ticks of however many managers find a task due, and        *)
(* whatever restarts in between, one occurrence is taken by one run, and   *)
(* a one-time task that was taken is never taken again.  Except for a task *)
(* whose revision a recovery has set back: revisions no longer tell its    *)
(* occurrences apart.                                                      *)
AtMostOnce == \A r, s \in Claimed : r # s /\ run[r].task = run[s].task =>
    /\ Same(run[r].was, run[s].was) => run[r].task \in rewound
    /\ ~(run[r].claim.type = "once" /\ run[s].was.last = r)

(* A run executes the task as the tick that found it due had read it: what *)
(* the user has edited in between is neither run early nor run with the    *)
(* old text.  The same exception.                                          *)
RunsWhatWasDue == \A r \in Claimed : run[r].task \notin rewound =>
    run[r].claim.edit = run[r].was.edit /\ run[r].claim.type = run[r].was.type

(* No manager has more runs active than configured, however many ticks of  *)
(* its scheduler overlap.                                                  *)
CapRespected == \A g \in Gen : Cardinality(Active(g)) <= MaxConcurrentRuns

(* A started scheduler always has a timer to come or a tick that will arm  *)
(* one: no poke, and no tick that ends beside another, puts it to sleep.   *)
NeverSleeps == phase = "started" =>
    armed[gen] > 0 \/ \E i \in Slot : tick[i].live /\ tick[i].gen = gen

(* Under a started manager no task can fire without the unattended policy  *)
(* of its session, whatever the manager before released.                   *)
PolicyInPlace == phase = "started" => \A t \in Task : Present(t) => t \in policy

(* A task deleted while no recovery holds a copy of it does not come back, *)
(* and a task disappears only by the word of the user or because its one   *)
(* time has been taken.                                                    *)
UserWordKept == \A t \in Task :
    /\ Present(t) => told[t] \in {"kept", "overtaken"}
    /\ told[t] = "kept" /\ ~Present(t) =>
          \E r \in Claimed : run[r].task = t /\ run[r].claim.type = "once"

(* Every run that took a task is accounted for in the history, unless the  *)
(* user deletes the task first, and no task stays running, through crashes *)
(* and reloads.                                                            *)
RunsSettle ==
    /\ \A r \in Run, t \in Task :
         r \in Claimed /\ run[r].task = t ~> history[r] > 0 \/ told[t] # "kept"
    /\ \A t \in Task : store[t].status = "running" ~> store[t].status # "running"
=============================================================================
