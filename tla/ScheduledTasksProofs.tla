------------------------- MODULE ScheduledTasksProofs -------------------------
(***************************************************************************)
(* Scheduled tasks, for any tasks, managers, limits and clock: the limit   *)
(* of runs holds, a started scheduler never goes to sleep, no task fires   *)
(* without its policy, no task comes back or disappears against the word   *)
(* of the user, and every occurrence is taken once and as it was due.  The *)
(* argument for the user's word: a task found running, and every copy of   *)
(* one that a recovery holds, has a run that took it, and its one time is  *)
(* over only through that run.  That for the occurrences: revisions only   *)
(* grow unless a recovery sets one back, so no two runs match the same.    *)
(***************************************************************************)
EXTENDS ScheduledTasks, FiniteSetTheorems, TLAPS

RunRecord ==
    [at : Taken \union {"free", "claiming"}, task : Task \union {NoTask}, gen : Gen,
     was : TaskRecord, claim : TaskRecord, next : Nat]
TickRecord == [live : BOOLEAN, gen : Gen, now : Nat, due : SUBSET Snapshot]
Recovery == [todo : SUBSET Snapshot, recorded : SUBSET Run, next : Nat, wait : Slot \union {NoSlot}]

(* TypeOK by its parts, with whole records and without the bound on timers. *)
TasksTyped ==
    /\ now \in 0 .. MaxNow
    /\ store \in [Task -> TaskRecord]
    /\ told \in [Task -> {"unknown", "kept", "deleted", "overtaken"}]
    /\ policy \subseteq Task
    /\ call \in Task \union {NoTask}

RunsTyped ==
    /\ history \in [Run -> Nat]
    /\ run \in [Run -> RunRecord]
    /\ \A r \in Run : run[r].at # "free" => run[r].task \in Task

TimersTyped ==
    /\ tick \in [Slot -> TickRecord]
    /\ armed \in [Gen -> Nat] /\ held \in [Gen -> BOOLEAN]
    /\ \A g \in Gen : held[g] => armed[g] > 0
    /\ awaited \in [Gen -> Slot \union {NoSlot}]

ManagerTyped ==
    /\ gen \in Gen /\ phase \in Phases /\ rec \in Recovery
    /\ phase = "stopping" => gen < MaxGen
    /\ rewound \subseteq Task

Typed == TasksTyped /\ RunsTyped /\ TimersTyped /\ ManagerTyped

(* The ticks of a scheduler that are under way. *)
Live(g) == {i \in Slot : tick[i].live /\ tick[i].gen = g}

(* A scheduler that has not started has no timer, and those of one that    *)
(* has are bounded.                                                        *)
Bounded ==
    /\ \A g \in Gen : armed[g] + Cardinality(Live(g)) <= MaxChain
    /\ \A g \in Gen : g > gen \/ (g = gen /\ phase \notin {"started", "stopping"}) =>
          armed[g] = 0 /\ Live(g) = {}

(* A task that is running, in the file or in the copy of a recovery, was   *)
(* taken by a run.                                                         *)
TakenBy(t, task) ==
    /\ task.last \in Claimed
    /\ run[task.last].task = t /\ run[task.last].claim.type = task.type

RunningTaken == \A t \in Task : store[t].status = "running" => TakenBy(t, store[t])

CopiesTaken == \A d \in rec.todo :
    /\ d.was.status = "running" /\ TakenBy(d.task, d.was)
    /\ told[d.task] \in {"kept", "overtaken"}

CopiesInUse == rec.todo # {} => phase \in {"reading", "recovering"}

Accounted == RunningTaken /\ CopiesTaken /\ CopiesInUse

USE ScheduleAssumption DEF Run, Gen, Slot, NoRun, NoSlot, timers, manager

-----------------------------------------------------------------------------
(* Tasks whose fields are set are tasks. *)
LEMMA AbsentTask == Absent \in TaskRecord
BY DEF TaskRecord, Absent

(* A task that a run takes. *)
LEMMA TaskTaken ==
    ASSUME NEW t \in TaskRecord, NEW r \in Run
    PROVE  [t EXCEPT !.status = "running", !.last = r, !.rev = @ + 1] \in TaskRecord
<1>1. t.rev + 1 \in Nat
  BY DEF TaskRecord
<1>2. QED
  BY <1>1 DEF TaskRecord

(* A task scheduled for its next time. *)
LEMMA TaskScheduled ==
    ASSUME NEW t \in TaskRecord, NEW at \in Nat
    PROVE  [t EXCEPT !.status = "scheduled", !.at = at, !.rev = @ + 1] \in TaskRecord
<1>1. t.rev + 1 \in Nat
  BY DEF TaskRecord
<1>2. QED
  BY <1>1 DEF TaskRecord

(* A task put off. *)
LEMMA TaskPutOff ==
    ASSUME NEW t \in TaskRecord, NEW at \in Nat
    PROVE  [t EXCEPT !.at = at, !.rev = @ + 1] \in TaskRecord
<1>1. t.rev + 1 \in Nat
  BY DEF TaskRecord
<1>2. QED
  BY <1>1 DEF TaskRecord

(* A task edited by the user. *)
LEMMA TaskEdited ==
    ASSUME NEW t \in TaskRecord, NEW type \in {"once", "cron"}, NEW at \in Nat, t.edit < MaxEdit
    PROVE  [t EXCEPT !.type = type, !.at = at, !.rev = @ + 1, !.edit = @ + 1] \in TaskRecord
<1>1. t.rev + 1 \in Nat /\ t.edit + 1 \in 0 .. MaxEdit
  BY DEF TaskRecord
<1>2. QED
  BY <1>1 DEF TaskRecord

(* A task as created. *)
LEMMA TaskNew ==
    ASSUME NEW t \in TaskRecord, NEW type \in {"once", "cron"}, NEW at \in Nat
    PROVE  [t EXCEPT !.status = "scheduled", !.type = type, !.at = at] \in TaskRecord
BY DEF TaskRecord

(* Records of runs and ticks. *)
LEMMA FreshRun == NotRunning \in RunRecord
BY AbsentTask DEF NotRunning, RunRecord

(* A tick that is not under way. *)
LEMMA FreshTick == NoTick \in TickRecord
BY DEF NoTick, TickRecord

(* A tick that has served a due task. *)
LEMMA DueServed ==
    ASSUME NEW k \in TickRecord, NEW d
    PROVE  [k EXCEPT !.due = @ \ {d}] \in TickRecord
<1>1. k.due \ {d} \in SUBSET Snapshot
  BY DEF TickRecord
<1>2. QED
  BY <1>1 DEF TickRecord

(* Timers that are armed, and those that are poked, are timers. *)
LEMMA ArmTyped == ASSUME TimersTyped, NEW g \in Gen, Arm(g)
                  PROVE  /\ armed' \in [Gen -> Nat] /\ held' \in [Gen -> BOOLEAN]
                         /\ \A h \in Gen : held'[h] => armed'[h] > 0
BY DEF TimersTyped, Arm

(* A poke keeps the types of the timers. *)
LEMMA PokeTyped == ASSUME TimersTyped, gen \in Gen, Poke, UNCHANGED tick PROVE TimersTyped'
<1>1. armed' \in [Gen -> Nat] /\ held' \in [Gen -> BOOLEAN]
  <2>1. CASE Started(gen)
    <3>1. armed[gen] + 1 \in Nat /\ armed[gen] \in Nat
      BY DEF TimersTyped
    <3>2. QED
      BY <2>1, <3>1 DEF TimersTyped, Poke
  <2>2. CASE ~Started(gen)
    BY <2>2 DEF TimersTyped, Poke
  <2>3. QED
    BY <2>1, <2>2
<1>2. \A h \in Gen : held'[h] => armed'[h] > 0
  BY DEF TimersTyped, Poke
<1>3. QED
  BY <1>1, <1>2 DEF TimersTyped, Poke

(* The tasks keep their types. *)
LEMMA TasksStep == Typed /\ [Next]_vars => TasksTyped'
<1> SUFFICES ASSUME Typed, [Next]_vars PROVE TasksTyped'
  OBVIOUS
<1> USE DEF Typed, TasksTyped
<1>1. ASSUME NEW r \in Run, Settle(r) PROVE TasksTyped'
  <2>1. run[r].task \in Task /\ run[r].next \in Nat /\ run[r].claim \in TaskRecord
    BY <1>1 DEF Settle, RunsTyped, RunRecord
  <2>2. [store[run[r].task] EXCEPT !.status = "scheduled", !.at = run[r].next, !.rev = @ + 1] \in TaskRecord
    BY <2>1, TaskScheduled
  <2>3. store' \in [Task -> TaskRecord]
    BY <1>1, <2>1, <2>2, AbsentTask DEF Settle, MatchesRunningTask
  <2>4. QED
    BY <1>1, <2>3 DEF Settle
<1>2. ASSUME NEW r \in Run, Claim(r) PROVE TasksTyped'
  <2>1. run[r].task \in Task
    BY <1>2 DEF Claim, RunsTyped, RunRecord
  <2>2. [store[run[r].task] EXCEPT !.status = "running", !.last = r, !.rev = @ + 1] \in TaskRecord
    BY <2>1, TaskTaken
  <2>3. QED
    BY <1>2, <2>1, <2>2 DEF Claim
<1>3. ASSUME NEW i \in Slot, Delay(i) PROVE TasksTyped'
  <2>1. PICK d \in tick[i].due :
          store' = IF Same(store[d.task], d.was)
                   THEN [store EXCEPT ![d.task].at = tick[i].now + 1, ![d.task].rev = @ + 1]
                   ELSE store
    BY <1>3 DEF Delay
  <2>2. d.task \in Task /\ tick[i].now + 1 \in Nat
    BY DEF TimersTyped, TickRecord, Snapshot
  <2>3. [store[d.task] EXCEPT !.at = tick[i].now + 1, !.rev = @ + 1] \in TaskRecord
    BY <2>2, TaskPutOff
  <2>4. QED
    BY <1>3, <2>1, <2>2, <2>3 DEF Delay
<1>4. ASSUME RecoverTask PROVE TasksTyped'
  <2>1. PICK d \in rec.todo :
          /\ store' \in {[store EXCEPT ![d.task] = Absent], [store EXCEPT ![d.task] = Restored(d)]}
          /\ policy' \in {policy, policy \ {d.task}}
    BY <1>4 DEF RecoverTask
  <2>2. d.task \in Task /\ d.was \in TaskRecord /\ rec.next \in Nat
    BY DEF ManagerTyped, Recovery, Snapshot
  <2>3. Restored(d) \in TaskRecord /\ Absent \in TaskRecord
    BY <2>2, AbsentTask, TaskScheduled DEF Restored
  <2>4. QED
    BY <1>4, <2>1, <2>2, <2>3 DEF RecoverTask
<1>5. ASSUME Start PROVE TasksTyped'
  BY <1>5 DEF Start
<1>6. ASSUME Replace PROVE TasksTyped'
  BY <1>6 DEF Replace
<1>7. ASSUME Crash PROVE TasksTyped'
  BY <1>7 DEF Crash
<1>8. ASSUME Advance PROVE TasksTyped'
  BY <1>8 DEF Advance
<1>9. ASSUME NEW t \in Task, NEW type \in {"once", "cron"}, Create(t, type) PROVE TasksTyped'
  <2>1. PICK at \in Times(type) : Put(t, type, at)
    BY <1>9 DEF Create
  <2>2. at \in Nat
    BY DEF Times
  <2>3. [Absent EXCEPT !.status = "scheduled", !.type = type, !.at = at] \in TaskRecord
    BY <2>2, AbsentTask, TaskNew
  <2>4. QED
    BY <1>9, <2>1, <2>3 DEF Create, Put
<1>10. ASSUME NEW t \in Task, NEW type \in {"once", "cron"}, Update(t, type) PROVE TasksTyped'
  <2>1. PICK at \in Times(type) :
          store' = [store EXCEPT ![t].type = type, ![t].at = at, ![t].rev = @ + 1, ![t].edit = @ + 1]
    BY <1>10 DEF Update
  <2>2. at \in Nat
    BY DEF Times
  <2>3. [store[t] EXCEPT !.type = type, !.at = at, !.rev = @ + 1, !.edit = @ + 1] \in TaskRecord
    BY <1>10, <2>2, TaskEdited DEF Update
  <2>4. QED
    BY <1>10, <2>1, <2>3 DEF Update
<1>11. ASSUME NEW t \in Task, Delete(t) PROVE TasksTyped'
  BY <1>11, AbsentTask DEF Delete, Forget
<1>12. ASSUME NEW t \in Task, StopTask(t) PROVE TasksTyped'
  BY <1>12 DEF StopTask
<1>13. ASSUME TaskStopped PROVE TasksTyped'
  BY <1>13, AbsentTask DEF TaskStopped, Forget
<1>14. CASE UNCHANGED <<now, store, told, policy, call>>
  BY <1>14
<1>15. QED
  BY <1>1, <1>2, <1>3, <1>4, <1>5, <1>6, <1>7, <1>8, <1>9, <1>10, <1>11, <1>12, <1>13,
     <1>14 DEF TurnEnds, Record, Launch, Served, TickEnds, TimerFires, RecoverList,
     RecoverRead, RecoverRecord, Stop, vars, timers, manager, Next, RunStep, TickStep,
     StartStep, Request

(* The runs keep their types. *)
LEMMA RunsStep == Typed /\ Accounted /\ [Next]_vars => RunsTyped'
<1> SUFFICES ASSUME Typed, Accounted, [Next]_vars PROVE RunsTyped'
  OBVIOUS
<1> USE DEF Typed, RunsTyped, RunRecord, Taken
<1>1. ASSUME NEW r \in Run, Claim(r) PROVE RunsTyped'
  <2>1. run[r].task \in Task
    BY <1>1 DEF Claim
  <2>2. [store[run[r].task] EXCEPT !.status = "running", !.last = r, !.rev = @ + 1] \in TaskRecord
    BY <2>1, TaskTaken DEF TasksTyped
  <2>3. NotRunning \in RunRecord
    BY FreshRun
  <2>4. history' = history
    BY <1>1 DEF Claim
  <2>5. CASE MatchesScheduledSnapshot(run[r].task, run[r].was)
    <3>1. PICK c \in TaskRecord : run' = [run EXCEPT ![r].at = "turn", ![r].claim = c]
      BY <1>1, <2>2, <2>5 DEF Claim
    <3>2. QED
      BY <2>1, <2>4, <3>1
  <2>6. CASE ~MatchesScheduledSnapshot(run[r].task, run[r].was)
    <3>1. run' = [run EXCEPT ![r] = NotRunning] /\ NotRunning.at = "free"
      BY <1>1, <2>6 DEF Claim, NotRunning
    <3>2. QED
      BY <2>3, <2>4, <3>1
  <2>7. QED
    BY <1>1, <2>5, <2>6 DEF Claim
<1>2. ASSUME NEW r \in Run, TurnEnds(r) PROVE RunsTyped'
  <2>1. now + 1 \in Nat
    BY DEF TasksTyped
  <2>2. QED
    BY <1>2, <2>1 DEF TurnEnds
<1>3. ASSUME NEW r \in Run, Record(r) PROVE RunsTyped'
  <2>1. history[r] + 1 \in Nat
    OBVIOUS
  <2>2. QED
    BY <1>3, <2>1 DEF Record
<1>4. ASSUME NEW r \in Run, Settle(r) PROVE RunsTyped'
  BY <1>4 DEF Settle
<1>5. ASSUME NEW i \in Slot, Launch(i) PROVE RunsTyped'
  <2>1. PICK d \in tick[i].due, r \in Unused :
          run' = [run EXCEPT ![r] = [NotRunning EXCEPT
                    !.at = "claiming", !.task = d.task, !.gen = tick[i].gen, !.was = d.was]]
    BY <1>5 DEF Launch
  <2>2. d.task \in Task /\ d.was \in TaskRecord /\ tick[i].gen \in Gen /\ r \in Run
    <3> HIDE DEF RunsTyped, RunRecord
    <3>1. tick[i].due \subseteq Snapshot /\ tick[i].gen \in Gen
      BY <1>5 DEF TimersTyped, TickRecord
    <3>2. d \in Snapshot
      BY <3>1
    <3>3. d.task \in Task /\ d.was \in TaskRecord
      BY <3>2 DEF Snapshot
    <3>4. QED
      BY <3>1, <3>3 DEF Unused
  <2>3. Absent \in TaskRecord
    BY AbsentTask
  <2>4. QED
    BY <1>5, <2>1, <2>2, <2>3 DEF Launch, NotRunning
<1>6. ASSUME RecoverRecord PROVE RunsTyped'
  <2>1. PICK d \in rec.todo : history' = [history EXCEPT ![d.was.last] = @ + 1]
    BY <1>6 DEF RecoverRecord
  <2>2. d.was.last \in Run /\ history[d.was.last] + 1 \in Nat
    BY DEF Accounted, CopiesTaken, TakenBy, Claimed
  <2>3. QED
    BY <1>6, <2>1, <2>2 DEF RecoverRecord
<1>7. ASSUME Crash PROVE RunsTyped'
  <2>1. NotRunning \in RunRecord
    BY FreshRun
  <2>2. \A r \in Run : run'[r] \in RunRecord /\ (run'[r].at # "free" => run'[r].task \in Task)
    BY <1>7, <2>1 DEF Crash, NotRunning, Claimed
  <2>3. QED
    BY <1>7, <2>2 DEF Crash
<1>8. CASE UNCHANGED <<run, history>>
  BY <1>8
<1>9. QED
  BY <1>1, <1>2, <1>3, <1>4, <1>5, <1>6, <1>7, <1>8 DEF Delay, Served, TickEnds,
     TimerFires, RecoverList, RecoverRead, RecoverTask, Start, Stop, Replace, Advance,
     Create, Put, Times, Update, Delete, Forget, StopTask, TaskStopped, vars, timers,
     manager, Next, RunStep, TickStep, StartStep, Request

(* Timers and ticks keep their types. *)
LEMMA TimersStep == Typed /\ [Next]_vars => TimersTyped'
<1> SUFFICES ASSUME Typed, [Next]_vars PROVE TimersTyped'
  OBVIOUS
<1> USE DEF Typed
<1>1. ASSUME NEW i \in Slot, Launch(i) PROVE TimersTyped'
  <2>1. PICK d \in tick[i].due : tick' = [tick EXCEPT ![i].due = @ \ {d}]
    BY <1>1 DEF Launch, Served
  <2>2. tick' \in [Slot -> TickRecord]
    BY <2>1, DueServed DEF TimersTyped
  <2>3. QED
    BY <1>1, <2>2 DEF Launch, TimersTyped
<1>2. ASSUME NEW i \in Slot, Delay(i) PROVE TimersTyped'
  <2>1. PICK d \in tick[i].due : tick' = [tick EXCEPT ![i].due = @ \ {d}]
    BY <1>2 DEF Delay, Served
  <2>2. tick' \in [Slot -> TickRecord]
    BY <2>1, DueServed DEF TimersTyped
  <2>3. QED
    BY <1>2, <2>2 DEF Delay, TimersTyped
<1>3. ASSUME NEW i \in Slot, TickEnds(i) PROVE TimersTyped'
  <2>1. tick' \in [Slot -> TickRecord] /\ awaited' \in [Gen -> Slot \union {NoSlot}]
    BY <1>3, FreshTick DEF TickEnds, TimersTyped
  <2>2. CASE Started(tick[i].gen)
    BY <1>3, <2>1, <2>2, ArmTyped DEF TickEnds, TimersTyped, ManagerTyped
  <2>3. CASE ~Started(tick[i].gen)
    BY <1>3, <2>1, <2>3 DEF TickEnds, TimersTyped
  <2>4. QED
    BY <2>2, <2>3
<1>4. ASSUME NEW g \in Gen, NEW i \in Slot, TimerFires(g, i) PROVE TimersTyped'
  <2>1. Due \subseteq Snapshot
    BY DEF Due, Snapshot, TasksTyped
  <2>2. now \in Nat
    BY DEF TasksTyped
  <2>3. [live |-> TRUE, gen |-> g, now |-> now, due |-> Due] \in TickRecord
    BY <2>1, <2>2 DEF TickRecord
  <2>4. tick' \in [Slot -> TickRecord]
    BY <1>4, <2>3 DEF TimerFires, TimersTyped
  <2>5. armed' \in [Gen -> Nat] /\ held' \in [Gen -> BOOLEAN] /\ awaited' \in [Gen -> Slot \union {NoSlot}]
    BY <1>4 DEF TimerFires, TimersTyped
  <2>6. \A h \in Gen : held'[h] => armed'[h] > 0
    BY <1>4 DEF TimerFires, TimersTyped
  <2>7. QED
    BY <2>4, <2>5, <2>6 DEF TimersTyped
<1>5. ASSUME Start PROVE TimersTyped'
  <2>1. Arm(gen) /\ gen \in Gen /\ UNCHANGED <<tick, awaited>>
    BY <1>5 DEF Start, ManagerTyped
  <2>2. QED
    BY <2>1, ArmTyped DEF TimersTyped
<1>6. ASSUME Stop PROVE TimersTyped'
  <2>1. gen \in Gen
    BY DEF ManagerTyped
  <2>2. armed' \in [Gen -> Nat] /\ held' \in [Gen -> BOOLEAN]
    BY <1>6, <2>1 DEF Stop, TimersTyped
  <2>3. \A h \in Gen : held'[h] => armed'[h] > 0
    BY <1>6, <2>1 DEF Stop, TimersTyped
  <2>4. QED
    BY <1>6, <2>2, <2>3 DEF Stop, TimersTyped
<1>7. ASSUME Crash PROVE TimersTyped'
  <2>1. tick' \in [Slot -> TickRecord]
    BY <1>7, FreshTick DEF Crash
  <2>2. QED
    BY <1>7, <2>1 DEF Crash, TimersTyped
<1>8. ASSUME NEW t \in Task, NEW type \in {"once", "cron"}, Create(t, type) PROVE TimersTyped'
  BY <1>8, PokeTyped DEF Create, ManagerTyped
<1>9. ASSUME NEW t \in Task, NEW type \in {"once", "cron"}, Update(t, type) PROVE TimersTyped'
  BY <1>9, PokeTyped DEF Update, ManagerTyped
<1>10. ASSUME NEW t \in Task, Delete(t) PROVE TimersTyped'
  BY <1>10, PokeTyped DEF Delete, ManagerTyped
<1>11. ASSUME TaskStopped PROVE TimersTyped'
  BY <1>11, PokeTyped DEF TaskStopped, ManagerTyped
<1>12. CASE UNCHANGED <<tick, armed, held, awaited>>
  BY <1>12 DEF TimersTyped
<1>13. QED
  BY <1>1, <1>2, <1>3, <1>4, <1>5, <1>6, <1>7, <1>8, <1>9, <1>10, <1>11, <1>12 DEF Claim,
     TurnEnds, Record, Settle, RecoverList, RecoverRead, RecoverRecord, RecoverTask,
     Replace, Advance, StopTask, vars, timers, manager, Next, RunStep, TickStep,
     StartStep, Request

(* The manager keeps its types. *)
LEMMA ManagerStep == Typed /\ Accounted /\ [Next]_vars => ManagerTyped'
<1> SUFFICES ASSUME Typed, Accounted, [Next]_vars PROVE ManagerTyped'
  OBVIOUS
<1> USE DEF Typed, ManagerTyped, Recovery, Phases, Nothing
<1>1. ASSUME NEW i \in Slot, TickEnds(i) PROVE ManagerTyped'
  BY <1>1 DEF TickEnds
<1>2. ASSUME RecoverList PROVE ManagerTyped'
  <2>1. {[task |-> t, was |-> store[t]] : t \in {u \in Task : store[u].status = "running"}} \subseteq Snapshot
    BY DEF Snapshot, TasksTyped
  <2>2. now + 1 \in Nat
    BY DEF TasksTyped
  <2>3. rec' \in Recovery
    BY <1>2, <2>1, <2>2 DEF RecoverList
  <2>4. QED
    BY <1>2, <2>3 DEF RecoverList
<1>3. ASSUME RecoverRead PROVE ManagerTyped'
  BY <1>3 DEF RecoverRead
<1>4. ASSUME RecoverRecord PROVE ManagerTyped'
  <2>1. PICK d \in rec.todo : rec' = [rec EXCEPT !.recorded = @ \union {d.was.last}]
    BY <1>4 DEF RecoverRecord
  <2>2. d.was.last \in Run
    BY DEF Accounted, CopiesTaken, TakenBy, Claimed
  <2>3. QED
    BY <1>4, <2>1, <2>2 DEF RecoverRecord
<1>5. ASSUME RecoverTask PROVE ManagerTyped'
  <2>1. rewound' \subseteq Task
    BY <1>5 DEF RecoverTask, Snapshot
  <2>2. QED
    BY <1>5, <2>1 DEF RecoverTask
<1>6. ASSUME Start PROVE ManagerTyped'
  BY <1>6 DEF Start
<1>7. ASSUME Stop PROVE ManagerTyped'
  <2>1. awaited[gen] \in Slot \union {NoSlot}
    BY DEF TimersTyped
  <2>2. QED
    BY <1>7, <2>1 DEF Stop
<1>8. ASSUME Replace PROVE ManagerTyped'
  BY <1>8 DEF Replace
<1>9. ASSUME Crash PROVE ManagerTyped'
  BY <1>9 DEF Crash
<1>10. CASE UNCHANGED <<gen, phase, rec, rewound>>
  BY <1>10
<1>11. QED
  BY <1>1, <1>2, <1>3, <1>4, <1>5, <1>6, <1>7, <1>8, <1>9, <1>10 DEF Claim, TurnEnds,
     Record, Settle, Launch, Served, Delay, TimerFires, Advance, Create, Put, Times,
     Update, Delete, Forget, StopTask, TaskStopped, vars, timers, manager, Next, RunStep,
     TickStep, StartStep, Request

(* Every step keeps the types. *)
LEMMA TypedStep == Typed /\ Accounted /\ [Next]_vars => Typed'
BY TasksStep, RunsStep, TimersStep, ManagerStep DEF Typed

-----------------------------------------------------------------------------
(* A run that took its task stays on record as the one that did. *)
RunsKept == \A r \in Claimed :
    r \in Claimed' /\ run'[r].task = run[r].task /\ run'[r].claim = run[r].claim

(* No step takes a claim back. *)
LEMMA ClaimsStay == Typed /\ [Next]_vars => RunsKept
<1> SUFFICES ASSUME Typed, [Next]_vars PROVE RunsKept
  OBVIOUS
<1> USE DEF RunsKept, Claimed, Taken, Typed, RunsTyped, RunRecord
<1>1. ASSUME NEW r \in Run, Claim(r) PROVE RunsKept
  BY <1>1 DEF Claim
<1>2. ASSUME NEW r \in Run, TurnEnds(r) PROVE RunsKept
  BY <1>2 DEF TurnEnds
<1>3. ASSUME NEW r \in Run, Record(r) PROVE RunsKept
  BY <1>3 DEF Record
<1>4. ASSUME NEW r \in Run, Settle(r) PROVE RunsKept
  BY <1>4 DEF Settle
<1>5. ASSUME NEW i \in Slot, Launch(i) PROVE RunsKept
  <2>1. PICK r \in Unused : \E k : run' = [run EXCEPT ![r] = k]
    BY <1>5 DEF Launch
  <2>2. QED
    BY <2>1 DEF Unused
<1>6. ASSUME Crash PROVE RunsKept
  BY <1>6 DEF Crash
<1>7. CASE UNCHANGED run
  BY <1>7
<1>8. QED
  BY <1>1, <1>2, <1>3, <1>4, <1>5, <1>6, <1>7 DEF Delay, Served, TickEnds, TimerFires,
     RecoverList, RecoverRead, RecoverRecord, RecoverTask, Start, Stop, Replace, Advance,
     Create, Put, Times, Update, Delete, Forget, StopTask, TaskStopped, vars, timers,
     manager, Next, RunStep, TickStep, StartStep, Request

(* What a run took stays taken by it. *)
LEMMA StaysTaken == ASSUME RunsKept, NEW t, NEW task, TakenBy(t, task) PROVE TakenBy(t, task)'
BY DEF RunsKept, TakenBy

(* A step that changes one task, which is not running then. *)
LEMMA OneTaskRests ==
    ASSUME Typed, RunsKept, RunningTaken, NEW t \in Task, NEW task \in TaskRecord,
           task.status # "running", store' = [store EXCEPT ![t] = task]
    PROVE  RunningTaken'
<1>1. ASSUME NEW u \in Task, store'[u].status = "running" PROVE TakenBy(u, store[u])' /\ u # t
  BY <1>1, StaysTaken DEF RunningTaken, Typed, TasksTyped
<1>2. QED
  BY <1>1 DEF RunningTaken

(* Every step keeps the running tasks accounted for. *)
LEMMA AccountedStep == Typed /\ RunsKept /\ UserWordKept /\ Accounted /\ [Next]_vars => Accounted'
<1> SUFFICES ASSUME Typed, RunsKept, UserWordKept, Accounted, [Next]_vars PROVE Accounted'
  OBVIOUS
<1> USE DEF Accounted
<1>1. ASSUME NEW r \in Run, Claim(r) PROVE Accounted'
  <2>1. CASE MatchesScheduledSnapshot(run[r].task, run[r].was)
    <3>1. PICK t \in Task, k \in TaskRecord :
            /\ t = run[r].task /\ k.status = "running" /\ k.last = r
            /\ store' = [store EXCEPT ![t] = k]
            /\ run' = [run EXCEPT ![r].at = "turn", ![r].claim = k]
      <4>1. run[r].task \in Task
        BY <1>1 DEF Claim, Typed, RunsTyped
      <4>2. [store[run[r].task] EXCEPT !.status = "running", !.last = r, !.rev = @ + 1] \in TaskRecord
        BY <4>1, TaskTaken DEF Typed, TasksTyped
      <4>3. QED
        BY <1>1, <2>1, <4>1, <4>2 DEF Claim, Typed, TasksTyped, TaskRecord
    <3>2. TakenBy(t, k)'
      BY <3>1 DEF TakenBy, Claimed, Taken, Typed, RunsTyped, RunRecord
    <3>3. ASSUME NEW u \in Task, store'[u].status = "running" PROVE TakenBy(u, store[u])'
      <4>1. CASE u = t
        BY <3>1, <3>2, <4>1 DEF Typed, TasksTyped
      <4>2. CASE u # t
        BY <3>1, <3>3, <4>2, StaysTaken DEF RunningTaken, Typed, TasksTyped
      <4>3. QED
        BY <4>1, <4>2
    <3>4. CopiesTaken' /\ CopiesInUse'
      BY <1>1, StaysTaken DEF Claim, CopiesTaken, CopiesInUse
    <3>5. QED
      BY <3>3, <3>4 DEF RunningTaken
  <2>2. CASE ~MatchesScheduledSnapshot(run[r].task, run[r].was)
    <3>1. UNCHANGED <<store, told, rec, phase>>
      BY <1>1, <2>2 DEF Claim
    <3>2. QED
      BY <3>1, StaysTaken DEF RunningTaken, CopiesTaken, CopiesInUse
  <2>3. QED
    BY <2>1, <2>2
<1>2. ASSUME NEW r \in Run, Settle(r) PROVE Accounted'
  <2>1. RunningTaken'
    <3>1. run[r].task \in Task /\ run[r].next \in Nat
      BY <1>2 DEF Settle, Typed, RunsTyped, RunRecord
    <3>2. store' = store \/ \E k \in TaskRecord :
            k.status # "running" /\ store' = [store EXCEPT ![run[r].task] = k]
      <4>1. [store[run[r].task] EXCEPT !.status = "scheduled", !.at = run[r].next, !.rev = @ + 1] \in TaskRecord
        BY <3>1, TaskScheduled DEF Typed, TasksTyped
      <4>2. \/ store' = store
            \/ store' = [store EXCEPT ![run[r].task] = Absent]
            \/ store' = [store EXCEPT ![run[r].task] =
                   [store[run[r].task] EXCEPT !.status = "scheduled", !.at = run[r].next, !.rev = @ + 1]]
        BY <1>2, <3>1 DEF Settle, Typed, TasksTyped
      <4>3. Absent.status # "running"
            /\ [store[run[r].task] EXCEPT !.status = "scheduled", !.at = run[r].next, !.rev = @ + 1].status # "running"
        BY <3>1 DEF Absent, Typed, TasksTyped, TaskRecord
      <4>4. QED
        BY <4>1, <4>2, <4>3, AbsentTask
    <3>3. QED
      BY <3>1, <3>2, OneTaskRests, StaysTaken DEF RunningTaken
  <2>2. CopiesTaken' /\ CopiesInUse'
    BY <1>2, StaysTaken DEF Settle, CopiesTaken, CopiesInUse
  <2>3. QED
    BY <2>1, <2>2
<1>3. ASSUME NEW i \in Slot, Delay(i) PROVE Accounted'
  <2>1. PICK d \in tick[i].due :
          store' = IF Same(store[d.task], d.was)
                   THEN [store EXCEPT ![d.task].at = tick[i].now + 1, ![d.task].rev = @ + 1]
                   ELSE store
    BY <1>3 DEF Delay
  <2>2. d.task \in Task
    BY DEF Typed, TimersTyped, TickRecord, Snapshot
  <2>3. \A u \in Task : /\ store'[u].status = store[u].status /\ store'[u].last = store[u].last
                        /\ store'[u].type = store[u].type
    BY <2>1, <2>2 DEF Typed, TasksTyped, TaskRecord
  <2>4. RunningTaken'
    BY <2>3 DEF RunningTaken, TakenBy, RunsKept
  <2>5. CopiesTaken' /\ CopiesInUse'
    BY <1>3, StaysTaken DEF Delay, CopiesTaken, CopiesInUse
  <2>6. QED
    BY <2>4, <2>5
<1>4. ASSUME NEW i \in Slot, TickEnds(i) PROVE Accounted'
  <2>1. RunningTaken'
    BY <1>4, StaysTaken DEF RunningTaken, TickEnds, Typed, ManagerTyped, Recovery
  <2>2. CopiesTaken' /\ CopiesInUse'
    BY <1>4, StaysTaken DEF CopiesTaken, CopiesInUse, TickEnds, Typed, ManagerTyped, Recovery
  <2>3. QED
    BY <2>1, <2>2
<1>5. ASSUME RecoverList PROVE Accounted'
  <2>1. RunningTaken'
    BY <1>5, StaysTaken DEF RecoverList, RunningTaken
  <2>2. rec'.todo = {[task |-> t, was |-> store[t]] : t \in {u \in Task : store[u].status = "running"}}
        /\ UNCHANGED told /\ phase' = "reading"
    BY <1>5 DEF RecoverList, Nothing
  <2>3. ASSUME NEW t \in Task, store[t].status = "running"
        PROVE  TakenBy(t, store[t]) /\ told[t] \in {"kept", "overtaken"}
    BY <2>3 DEF RunningTaken, UserWordKept, Present
  <2>4. CopiesTaken'
    BY <2>2, <2>3, StaysTaken DEF CopiesTaken
  <2>5. QED
    BY <2>1, <2>2, <2>4 DEF CopiesInUse
<1>6. ASSUME RecoverRead PROVE Accounted'
  <2>1. RunningTaken'
    BY <1>6, StaysTaken DEF RunningTaken, RecoverRead, Typed, ManagerTyped, Recovery
  <2>2. CopiesTaken' /\ CopiesInUse'
    BY <1>6, StaysTaken DEF CopiesTaken, CopiesInUse, RecoverRead, Typed, ManagerTyped, Recovery
  <2>3. QED
    BY <2>1, <2>2
<1>7. ASSUME RecoverRecord PROVE Accounted'
  <2>1. RunningTaken'
    BY <1>7, StaysTaken DEF RunningTaken, RecoverRecord, Typed, ManagerTyped, Recovery
  <2>2. CopiesTaken' /\ CopiesInUse'
    BY <1>7, StaysTaken DEF CopiesTaken, CopiesInUse, RecoverRecord, Typed, ManagerTyped, Recovery
  <2>3. QED
    BY <2>1, <2>2
<1>8. ASSUME RecoverTask PROVE Accounted'
  <2>1. PICK d \in rec.todo :
          /\ store' \in {[store EXCEPT ![d.task] = Absent], [store EXCEPT ![d.task] = Restored(d)]}
          /\ rec' = [rec EXCEPT !.todo = @ \ {d}]
    BY <1>8 DEF RecoverTask
  <2>2. d.task \in Task /\ d.was \in TaskRecord /\ rec.next \in Nat
    BY DEF Typed, ManagerTyped, Recovery, Snapshot
  <2>3. /\ Restored(d) \in TaskRecord /\ Restored(d).status # "running"
        /\ Absent \in TaskRecord /\ Absent.status # "running"
    BY <2>2, AbsentTask, TaskScheduled DEF Restored, TaskRecord, Absent
  <2>4. RunningTaken'
    BY <2>1, <2>2, <2>3, OneTaskRests
  <2>5. rec'.todo \subseteq rec.todo /\ UNCHANGED <<told, phase>>
    BY <1>8, <2>1 DEF RecoverTask, Typed, ManagerTyped, Recovery
  <2>6. QED
    BY <2>4, <2>5, StaysTaken DEF CopiesTaken, CopiesInUse
<1>9. ASSUME Start PROVE Accounted'
  <2>1. RunningTaken'
    BY <1>9, StaysTaken DEF RunningTaken, Start, Nothing
  <2>2. CopiesTaken' /\ CopiesInUse'
    BY <1>9, StaysTaken DEF CopiesTaken, CopiesInUse, Start, Nothing
  <2>3. QED
    BY <2>1, <2>2
<1>10. ASSUME Stop PROVE Accounted'
  <2>1. RunningTaken'
    BY <1>10, StaysTaken DEF RunningTaken, Stop, Typed, ManagerTyped, Recovery
  <2>2. CopiesTaken' /\ CopiesInUse'
    BY <1>10, StaysTaken DEF CopiesTaken, CopiesInUse, Stop, Typed, ManagerTyped, Recovery
  <2>3. QED
    BY <2>1, <2>2
<1>11. ASSUME Replace PROVE Accounted'
  <2>1. RunningTaken'
    BY <1>11, StaysTaken DEF RunningTaken, Replace
  <2>2. CopiesTaken' /\ CopiesInUse'
    BY <1>11, StaysTaken DEF CopiesTaken, CopiesInUse, Replace
  <2>3. QED
    BY <2>1, <2>2
<1>12. ASSUME Crash PROVE Accounted'
  <2>1. RunningTaken'
    BY <1>12, StaysTaken DEF RunningTaken, Crash, Nothing
  <2>2. CopiesTaken' /\ CopiesInUse'
    BY <1>12, StaysTaken DEF CopiesTaken, CopiesInUse, Crash, Nothing
  <2>3. QED
    BY <2>1, <2>2
<1>13. ASSUME NEW t \in Task, NEW type \in {"once", "cron"}, Create(t, type) PROVE Accounted'
  <2>1. PICK at \in Times(type) : Put(t, type, at)
    BY <1>13 DEF Create
  <2>2. [Absent EXCEPT !.status = "scheduled", !.type = type, !.at = at] \in TaskRecord
        /\ [Absent EXCEPT !.status = "scheduled", !.type = type, !.at = at].status # "running"
    <3>1. at \in Nat
      BY DEF Times, Typed, TasksTyped
    <3>2. QED
      BY <3>1, AbsentTask, TaskNew DEF Absent
  <2>3. RunningTaken'
    BY <2>1, <2>2, OneTaskRests DEF Put
  <2>4. CopiesTaken'
    BY <1>13, <2>1, StaysTaken DEF Create, Put, CopiesTaken, Typed, TasksTyped
  <2>5. QED
    BY <1>13, <2>3, <2>4 DEF Create, CopiesInUse
<1>14. ASSUME NEW t \in Task, NEW type \in {"once", "cron"}, Update(t, type) PROVE Accounted'
  <2>1. \A u \in Task : store'[u].status = store[u].status /\ (u # t => store'[u] = store[u])
    BY <1>14 DEF Update, Typed, TasksTyped, TaskRecord
  <2>2. RunningTaken'
    BY <1>14, <2>1, StaysTaken DEF Update, RunningTaken
  <2>3. CopiesTaken' /\ CopiesInUse'
    BY <1>14, StaysTaken DEF Update, CopiesTaken, CopiesInUse
  <2>4. QED
    BY <2>2, <2>3
<1>15. ASSUME NEW t \in Task, Delete(t) PROVE Accounted'
  <2>1. RunningTaken'
    BY <1>15, AbsentTask, OneTaskRests DEF Forget, Delete, Absent, Typed, TasksTyped
  <2>2. \A d \in rec.todo : told'[d.task] \in {"kept", "overtaken"}
    BY <1>15 DEF Forget, Delete, Copied, CopiesTaken, Typed, TasksTyped, ManagerTyped, Recovery, Snapshot
  <2>3. CopiesTaken' /\ CopiesInUse'
    BY <1>15, <2>2, StaysTaken DEF Delete, CopiesTaken, CopiesInUse
  <2>4. QED
    BY <2>1, <2>3
<1>16. ASSUME TaskStopped PROVE Accounted'
  <2>1. RunningTaken'
    BY <1>16, AbsentTask, OneTaskRests DEF Forget, TaskStopped, Absent, Typed, TasksTyped
  <2>2. \A d \in rec.todo : told'[d.task] \in {"kept", "overtaken"}
    BY <1>16 DEF Forget, TaskStopped, Copied, CopiesTaken, Typed, TasksTyped, ManagerTyped, Recovery, Snapshot
  <2>3. CopiesTaken' /\ CopiesInUse'
    BY <1>16, <2>2, StaysTaken DEF TaskStopped, CopiesTaken, CopiesInUse
  <2>4. QED
    BY <2>1, <2>3
<1>17. CASE UNCHANGED <<store, told, rec, phase>>
  <2>1. RunningTaken'
    BY <1>17, StaysTaken DEF RunningTaken
  <2>2. CopiesTaken' /\ CopiesInUse'
    BY <1>17, StaysTaken DEF CopiesTaken, CopiesInUse
  <2>3. QED
    BY <2>1, <2>2
<1>18. QED
  BY <1>1, <1>2, <1>3, <1>4, <1>5, <1>6, <1>7, <1>8, <1>9, <1>10, <1>11, <1>12, <1>13,
     <1>14, <1>15, <1>16, <1>17 DEF TurnEnds, Record, Launch, Served, TimerFires, Advance,
     StopTask, vars, timers, manager, Next, RunStep, TickStep, StartStep, Request

(* The ticks of a scheduler can be counted. *)
LEMMA TicksFinite == \A g \in Gen : IsFiniteSet(Live(g)) /\ Cardinality(Live(g)) \in Nat
<1> SUFFICES ASSUME NEW g \in Gen PROVE IsFiniteSet(Live(g)) /\ Cardinality(Live(g)) \in Nat
  OBVIOUS
<1>1. IsFiniteSet(Slot)
  BY FS_Interval
<1>2. Live(g) \in SUBSET Slot
  BY DEF Live
<1>3. QED
  BY <1>1, <1>2, FS_Subset, FS_CardinalityType

(* Steps that leave timers and ticks alone, or poke. *)
LEMMA BoundedQuiet ==
    ASSUME Bounded, \A g \in Gen : Live(g)' = Live(g), UNCHANGED <<armed, gen>>,
           phase \in {"started", "stopping"} => phase' \in {"started", "stopping"}
    PROVE  Bounded'
BY DEF Bounded

(* A poke arms a timer only where there is room. *)
LEMMA BoundedPoke ==
    ASSUME Typed, Bounded, UNCHANGED <<tick, gen, phase>>, Poke
    PROVE  Bounded'
<1>1. \A g \in Gen : Live(g)' = Live(g)
  BY DEF Live
<1>2. CASE UNCHANGED armed
  BY <1>1, <1>2, BoundedQuiet
<1>3. CASE ~UNCHANGED armed
  <2>1. /\ phase = "started" /\ armed' = [armed EXCEPT ![gen] = @ + 1]
        /\ Chains(gen) < MaxChain /\ gen \in Gen
    BY <1>3 DEF Poke, Started, Typed, TimersTyped, ManagerTyped
  <2>2. armed[gen] + Cardinality(Live(gen)) < MaxChain
    BY <2>1 DEF Chains, Live
  <2>3. QED
    BY <1>1, <2>1, <2>2, TicksFinite DEF Bounded, Typed, TimersTyped
<1>4. QED
  BY <1>2, <1>3

(* A scheduler keeps its timers and ticks, and pokes when it has room. *)
LEMMA BoundedStep == Typed /\ Bounded /\ [Next]_vars => Bounded'
<1> SUFFICES ASSUME Typed, Bounded, [Next]_vars PROVE Bounded'
  OBVIOUS
<1>1. ASSUME NEW i \in Slot, Launch(i) PROVE Bounded'
  <2>1. \A g \in Gen : Live(g)' = Live(g)
    BY <1>1 DEF Live, Launch, Served, Typed, TimersTyped, TickRecord
  <2>2. QED
    BY <1>1, <2>1, BoundedQuiet DEF Launch, Served
<1>2. ASSUME NEW i \in Slot, Delay(i) PROVE Bounded'
  <2>1. \A g \in Gen : Live(g)' = Live(g)
    BY <1>2 DEF Live, Delay, Served, Typed, TimersTyped, TickRecord
  <2>2. QED
    BY <1>2, <2>1, BoundedQuiet DEF Delay, Served
<1>3. ASSUME NEW i \in Slot, TickEnds(i) PROVE Bounded'
  <2>0. PICK h \in Gen : h = tick[i].gen
    BY <1>3 DEF Typed, TimersTyped, TickRecord
  <2>1. /\ i \in Live(h)
        /\ \A g \in Gen : Live(g)' = Live(g) \ {i} /\ (g # h => i \notin Live(g))
    BY <1>3, <2>0 DEF TickEnds, Live, NoTick, Typed, TimersTyped, TickRecord
  <2>2. Cardinality(Live(h)') = Cardinality(Live(h)) - 1
    BY <2>1, TicksFinite, FS_RemoveElement
  <2>3. \A g \in Gen \ {h} : Live(g)' = Live(g)
    BY <2>1
  <2>4. UNCHANGED <<gen, phase>> /\ armed \in [Gen -> Nat]
        /\ (armed' = armed \/ (h = gen /\ phase = "started" /\ armed' = [armed EXCEPT ![h] = @ + 1]))
    BY <1>3, <2>0 DEF TickEnds, Started, Arm, Typed, TimersTyped
  <2>5. \A g \in Gen : armed'[g] + Cardinality(Live(g)') <= MaxChain
    <3>1. armed'[h] <= armed[h] + 1 /\ armed'[h] \in Nat /\ armed[h] \in Nat
          /\ \A g \in Gen \ {h} : armed'[g] = armed[g]
      BY <2>4
    <3>2. \A g \in Gen : armed[g] + Cardinality(Live(g)) <= MaxChain
      BY DEF Bounded
    <3>3. armed'[h] + Cardinality(Live(h)') <= MaxChain
      BY <2>2, <3>1, <3>2, TicksFinite
    <3>4. QED
      BY <2>3, <3>1, <3>2, <3>3
  <2>6. QED
    BY <2>1, <2>3, <2>4, <2>5 DEF Bounded, Typed, TimersTyped
<1>4. ASSUME NEW g \in Gen, NEW i \in Slot, TimerFires(g, i) PROVE Bounded'
  <2>1. /\ i \notin Live(g) /\ Live(g)' = Live(g) \union {i}
        /\ \A h \in Gen \ {g} : Live(h)' = Live(h)
    BY <1>4 DEF TimerFires, Live, Typed, TimersTyped, TickRecord
  <2>2. Cardinality(Live(g)') = Cardinality(Live(g)) + 1
    BY <2>1, TicksFinite, FS_AddElement
  <2>3. /\ armed[g] > 0 /\ armed' = [armed EXCEPT ![g] = @ - 1] /\ UNCHANGED <<gen, phase>>
    BY <1>4 DEF TimerFires
  <2>4. \A h \in Gen : armed'[h] + Cardinality(Live(h)') <= MaxChain
    <3>1. /\ armed'[g] = armed[g] - 1 /\ armed[g] \in Nat
          /\ \A h \in Gen \ {g} : armed'[h] = armed[h]
      BY <1>4, <2>3 DEF Typed, TimersTyped
    <3>2. \A h \in Gen : armed[h] + Cardinality(Live(h)) <= MaxChain
      BY DEF Bounded
    <3>3. armed'[g] + Cardinality(Live(g)') <= MaxChain
      BY <1>4, <2>2, <3>1, <3>2, TicksFinite
    <3>4. QED
      BY <2>1, <3>1, <3>2, <3>3
  <2>5. armed[g] # 0
    BY <2>3
  <2>6. QED
    BY <1>4, <2>1, <2>3, <2>4, <2>5 DEF Bounded, Typed, TimersTyped
<1>5. ASSUME RecoverList PROVE Bounded'
  <2>1. \A g \in Gen : Live(g)' = Live(g)
    BY <1>5 DEF Live, RecoverList, Typed, TimersTyped, TickRecord
  <2>2. QED
    BY <1>5, <2>1, BoundedQuiet DEF RecoverList
<1>6. ASSUME RecoverRead PROVE Bounded'
  <2>1. \A g \in Gen : Live(g)' = Live(g)
    BY <1>6 DEF Live, RecoverRead, Typed, TimersTyped, TickRecord
  <2>2. QED
    BY <1>6, <2>1, BoundedQuiet DEF RecoverRead
<1>7. ASSUME Start PROVE Bounded'
  <2>1. /\ \A g \in Gen : Live(g)' = Live(g)
        /\ armed' = [armed EXCEPT ![gen] = @ + 1] /\ gen \in Gen /\ gen' = gen
        /\ phase = "recovering" /\ phase' = "started"
    BY <1>7 DEF Start, Arm, Live, Typed, ManagerTyped
  <2>2. armed[gen] = 0 /\ Cardinality(Live(gen)) = 0
    BY <2>1, FS_EmptySet DEF Bounded
  <2>3. \A g \in Gen : armed'[g] + Cardinality(Live(g)') <= MaxChain
    <3>1. armed'[gen] = 1 /\ \A g \in Gen \ {gen} : armed'[g] = armed[g]
      BY <2>1, <2>2 DEF Typed, TimersTyped
    <3>2. \A g \in Gen : armed[g] + Cardinality(Live(g)) <= MaxChain
      BY DEF Bounded
    <3>3. QED
      BY <2>1, <2>2, <3>1, <3>2
  <2>4. QED
    BY <2>1, <2>3 DEF Bounded, Typed, TimersTyped
<1>8. ASSUME Stop PROVE Bounded'
  <2>1. /\ \A g \in Gen : Live(g)' = Live(g)
        /\ \A g \in Gen : armed'[g] \in Nat /\ armed'[g] <= armed[g]
        /\ gen' = gen /\ phase = "started" /\ phase' = "stopping"
    BY <1>8 DEF Stop, Live, Typed, TimersTyped, ManagerTyped
  <2>2. ASSUME NEW g \in Gen PROVE armed'[g] + Cardinality(Live(g)') <= MaxChain
    <3>1. armed[g] \in Nat /\ Cardinality(Live(g)) \in Nat
      BY <2>2, TicksFinite DEF Typed, TimersTyped
    <3>2. armed[g] + Cardinality(Live(g)) <= MaxChain
      BY <2>2 DEF Bounded
    <3>3. QED
      BY <2>1, <2>2, <3>1, <3>2
  <2>3. ASSUME NEW g \in Gen, g > gen PROVE armed'[g] = 0 /\ Live(g)' = {}
    BY <2>1, <2>3 DEF Bounded
  <2>4. QED
    BY <2>1, <2>2, <2>3 DEF Bounded
<1>9. ASSUME Replace PROVE Bounded'
  <2>1. /\ \A g \in Gen : Live(g)' = Live(g)
        /\ armed' = armed /\ gen' = gen + 1 /\ gen \in Gen
    BY <1>9 DEF Replace, Live, Typed, ManagerTyped
  <2>2. QED
    BY <2>1 DEF Bounded
<1>10. ASSUME Crash PROVE Bounded'
  <2>1. \A g \in Gen : armed'[g] = 0 /\ Live(g)' = {}
    BY <1>10 DEF Crash, Live, NoTick
  <2>2. QED
    BY <2>1, FS_EmptySet DEF Bounded
<1>11. ASSUME NEW t \in Task, NEW type \in {"once", "cron"}, Create(t, type) PROVE Bounded'
  BY <1>11, BoundedPoke DEF Create
<1>12. ASSUME NEW t \in Task, NEW type \in {"once", "cron"}, Update(t, type) PROVE Bounded'
  BY <1>12, BoundedPoke DEF Update
<1>13. ASSUME NEW t \in Task, Delete(t) PROVE Bounded'
  BY <1>13, BoundedPoke DEF Delete
<1>14. ASSUME TaskStopped PROVE Bounded'
  BY <1>14, BoundedPoke DEF TaskStopped
<1>15. CASE UNCHANGED <<tick, armed, gen, phase>>
  <2>1. \A g \in Gen : Live(g)' = Live(g)
    BY <1>15 DEF Live
  <2>2. QED
    BY <1>15, <2>1, BoundedQuiet
<1>16. QED
  BY <1>1, <1>2, <1>3, <1>4, <1>5, <1>6, <1>7, <1>8, <1>9, <1>10, <1>11, <1>12, <1>13,
     <1>14, <1>15 DEF Claim, TurnEnds, Record, Settle, RecoverRecord, RecoverTask,
     Advance, StopTask, vars, timers, manager, Next, RunStep, TickStep, StartStep, Request

(* The active runs of a manager can be counted. *)
LEMMA ActiveFinite == \A g \in Gen : IsFiniteSet(Active(g)) /\ Cardinality(Active(g)) \in Nat
<1> SUFFICES ASSUME NEW g \in Gen PROVE IsFiniteSet(Active(g)) /\ Cardinality(Active(g)) \in Nat
  OBVIOUS
<1>1. IsFiniteSet(Run)
  BY FS_Interval
<1>2. Active(g) \in SUBSET Run
  BY DEF Active
<1>3. QED
  BY <1>1, <1>2, FS_Subset, FS_CardinalityType

(* A step after which no manager has more active runs. *)
LEMMA NoMoreActive ==
    ASSUME CapRespected, \A g \in Gen : Active(g)' \subseteq Active(g)
    PROVE  CapRespected'
<1> SUFFICES ASSUME NEW g \in Gen PROVE Cardinality(Active(g)') <= MaxConcurrentRuns
  BY DEF CapRespected
<1>1. Cardinality(Active(g)') <= Cardinality(Active(g)) /\ Cardinality(Active(g)') \in Nat
  BY ActiveFinite, FS_Subset, FS_CardinalityType
<1>2. QED
  BY <1>1, ActiveFinite DEF CapRespected

(* A run begins below the limit only. *)
LEMMA CapStep == Typed /\ CapRespected /\ [Next]_vars => CapRespected'
<1> SUFFICES ASSUME Typed, CapRespected, [Next]_vars PROVE CapRespected'
  OBVIOUS
<1>1. ASSUME NEW r \in Run, Claim(r) PROVE CapRespected'
  <2>0. \/ run'[r].at = "turn" /\ run'[r].gen = run[r].gen
        \/ run'[r].at = "free"
    BY <1>1 DEF Claim, NotRunning, Typed, RunsTyped, RunRecord
  <2>1. \A g \in Gen : Active(g)' \subseteq Active(g)
    BY <1>1, <2>0 DEF Active, Claim, NotRunning, Typed, RunsTyped, RunRecord
  <2>2. QED
    BY <2>1, NoMoreActive
<1>2. ASSUME NEW r \in Run, TurnEnds(r) PROVE CapRespected'
  <2>1. \A g \in Gen : Active(g)' \subseteq Active(g)
    BY <1>2 DEF Active, TurnEnds, Typed, RunsTyped, RunRecord
  <2>2. QED
    BY <2>1, NoMoreActive
<1>3. ASSUME NEW r \in Run, Record(r) PROVE CapRespected'
  <2>1. \A g \in Gen : Active(g)' \subseteq Active(g)
    BY <1>3 DEF Active, Record, Typed, RunsTyped, RunRecord
  <2>2. QED
    BY <2>1, NoMoreActive
<1>4. ASSUME NEW r \in Run, Settle(r) PROVE CapRespected'
  <2>1. \A g \in Gen : Active(g)' \subseteq Active(g)
    BY <1>4 DEF Active, Settle, Typed, RunsTyped, RunRecord
  <2>2. QED
    BY <2>1, NoMoreActive
<1>5. ASSUME NEW i \in Slot, Launch(i) PROVE CapRespected'
  <2>1. PICK d \in tick[i].due, r \in Unused :
          run' = [run EXCEPT ![r] = [NotRunning EXCEPT
                    !.at = "claiming", !.task = d.task, !.gen = tick[i].gen, !.was = d.was]]
    BY <1>5 DEF Launch
  <2>2. tick[i].gen \in Gen /\ Cardinality(Active(tick[i].gen)) < MaxConcurrentRuns
    BY <1>5 DEF Launch, Typed, TimersTyped, TickRecord
  <2>3. \A g \in Gen : Active(g)' = IF g = tick[i].gen THEN Active(g) \union {r} ELSE Active(g)
    BY <2>1 DEF Active, Unused, NotRunning, Typed, RunsTyped, RunRecord
  <2>4. ASSUME NEW g \in Gen
        PROVE  /\ Cardinality(Active(g) \union {r}) <= Cardinality(Active(g)) + 1
               /\ Cardinality(Active(g) \union {r}) \in Nat
    <3>1. IsFiniteSet(Active(g)) /\ Cardinality(Active(g)) \in Nat
      BY <2>4, ActiveFinite
    <3>2. Cardinality(Active(g) \union {r}) =
            IF r \in Active(g) THEN Cardinality(Active(g)) ELSE Cardinality(Active(g)) + 1
      BY <3>1, FS_AddElement
    <3>3. QED
      BY <3>1, <3>2
  <2>5. ASSUME NEW g \in Gen PROVE Cardinality(Active(g)') <= MaxConcurrentRuns
    <3>1. CASE g = tick[i].gen
      <4>1. Cardinality(Active(g)) < MaxConcurrentRuns /\ Cardinality(Active(g)) \in Nat
        BY <2>2, <2>5, <3>1, ActiveFinite
      <4>2. Active(g)' = Active(g) \union {r}
        BY <2>3, <2>5, <3>1
      <4>3. QED
        BY <2>4, <2>5, <4>1, <4>2
    <3>2. CASE g # tick[i].gen
      BY <2>3, <2>5, <3>2 DEF CapRespected
    <3>3. QED
      BY <3>1, <3>2
  <2>6. QED
    BY <2>5 DEF CapRespected
<1>6. ASSUME Crash PROVE CapRespected'
  <2>1. \A g \in Gen : Active(g)' \subseteq Active(g)
    BY <1>6 DEF Active, Crash, NotRunning, Claimed, Taken, Typed, RunsTyped, RunRecord
  <2>2. QED
    BY <2>1, NoMoreActive
<1>7. CASE UNCHANGED run
  <2>1. \A g \in Gen : Active(g)' \subseteq Active(g)
    BY <1>7 DEF Active, Typed, RunsTyped, RunRecord
  <2>2. QED
    BY <2>1, NoMoreActive
<1>8. QED
  BY <1>1, <1>2, <1>3, <1>4, <1>5, <1>6, <1>7 DEF Delay, Served, TickEnds, TimerFires,
     RecoverList, RecoverRead, RecoverRecord, RecoverTask, Start, Stop, Replace, Advance,
     Create, Put, Times, Update, Delete, Forget, StopTask, TaskStopped, vars, timers,
     manager, Next, RunStep, TickStep, StartStep, Request

(* A poke puts no scheduler to sleep. *)
LEMMA AwakePoke ==
    ASSUME Typed, NeverSleeps, UNCHANGED <<tick, gen, phase>>, Poke
    PROVE  NeverSleeps'
<1>1. armed[gen] \in Nat /\ armed'[gen] \in Nat /\ armed'[gen] >= armed[gen]
  BY DEF Typed, TimersTyped, ManagerTyped, Poke
<1>2. QED
  BY <1>1 DEF NeverSleeps

(* A started scheduler keeps a timer or a tick. *)
LEMMA AwakeStep == Typed /\ NeverSleeps /\ [Next]_vars => NeverSleeps'
<1> SUFFICES ASSUME Typed, NeverSleeps, [Next]_vars PROVE NeverSleeps'
  OBVIOUS
<1> USE DEF NeverSleeps, Typed
<1>1. ASSUME NEW i \in Slot, Launch(i) PROVE NeverSleeps'
  BY <1>1 DEF Launch, Served
<1>2. ASSUME NEW i \in Slot, Delay(i) PROVE NeverSleeps'
  BY <1>2 DEF Delay, Served
<1>3. ASSUME NEW i \in Slot, TickEnds(i) PROVE NeverSleeps'
  <2>1. UNCHANGED <<gen, phase>> /\ gen \in Gen
        /\ \A j \in Slot \ {i} : tick'[j] = tick[j]
    BY <1>3 DEF TickEnds, TimersTyped, ManagerTyped
  <2>2. CASE Started(tick[i].gen)
    <3>1. armed'[gen] = armed[gen] + 1 /\ armed[gen] \in Nat
      BY <1>3, <2>1, <2>2 DEF TickEnds, Arm, TimersTyped
    <3>2. QED
      BY <2>1, <3>1
  <2>3. CASE ~Started(tick[i].gen)
    <3>1. armed' = armed /\ (phase = "started" => tick[i].gen # gen)
      BY <1>3, <2>3 DEF TickEnds, Started
    <3>2. QED
      BY <2>1, <3>1
  <2>4. QED
    BY <2>2, <2>3
<1>4. ASSUME NEW g \in Gen, NEW i \in Slot, TimerFires(g, i) PROVE NeverSleeps'
  <2>1. tick'[i].live /\ tick'[i].gen = g /\ \A j \in Slot : tick[j].live => tick'[j] = tick[j]
    BY <1>4 DEF TimerFires, TimersTyped
  <2>2. \A h \in Gen \ {g} : armed'[h] = armed[h]
    BY <1>4 DEF TimerFires, TimersTyped
  <2>3. UNCHANGED <<gen, phase>> /\ gen \in Gen
    BY <1>4 DEF TimerFires, ManagerTyped
  <2>4. QED
    BY <2>1, <2>2, <2>3
<1>5. ASSUME RecoverList PROVE NeverSleeps'
  BY <1>5 DEF RecoverList
<1>6. ASSUME RecoverRead PROVE NeverSleeps'
  BY <1>6 DEF RecoverRead
<1>7. ASSUME Start PROVE NeverSleeps'
  <2>1. armed'[gen'] = armed[gen] + 1 /\ armed[gen] \in Nat
    BY <1>7 DEF Start, Arm, TimersTyped, ManagerTyped
  <2>2. QED
    BY <2>1
<1>8. ASSUME Stop PROVE NeverSleeps'
  BY <1>8 DEF Stop
<1>9. ASSUME Replace PROVE NeverSleeps'
  BY <1>9 DEF Replace
<1>10. ASSUME Crash PROVE NeverSleeps'
  BY <1>10 DEF Crash
<1>11. ASSUME NEW t \in Task, NEW type \in {"once", "cron"}, Create(t, type) PROVE NeverSleeps'
  BY <1>11, AwakePoke DEF Create
<1>12. ASSUME NEW t \in Task, NEW type \in {"once", "cron"}, Update(t, type) PROVE NeverSleeps'
  BY <1>12, AwakePoke DEF Update
<1>13. ASSUME NEW t \in Task, Delete(t) PROVE NeverSleeps'
  BY <1>13, AwakePoke DEF Delete
<1>14. ASSUME TaskStopped PROVE NeverSleeps'
  BY <1>14, AwakePoke DEF TaskStopped
<1>15. CASE UNCHANGED <<tick, armed, gen, phase>>
  BY <1>15
<1>16. QED
  BY <1>1, <1>2, <1>3, <1>4, <1>5, <1>6, <1>7, <1>8, <1>9, <1>10, <1>11, <1>12, <1>13,
     <1>14, <1>15 DEF Claim, TurnEnds, Record, Settle, RecoverRecord, RecoverTask,
     Advance, StopTask, vars, timers, manager, Next, RunStep, TickStep, StartStep, Request

(* A task comes with its policy, and takes it along. *)
LEMMA PolicyStep == Typed /\ PolicyInPlace /\ [Next]_vars => PolicyInPlace'
<1> SUFFICES ASSUME Typed, PolicyInPlace, [Next]_vars PROVE PolicyInPlace'
  OBVIOUS
<1> USE DEF PolicyInPlace, Present, Typed, TasksTyped, TaskRecord, Absent
<1>1. ASSUME NEW r \in Run, Claim(r) PROVE PolicyInPlace'
  <2>1. run[r].task \in Task
    BY <1>1 DEF Claim, RunsTyped
  <2>2. \A t \in Task : store'[t].status # "absent" => store[t].status # "absent"
    BY <1>1, <2>1 DEF Claim, MatchesScheduledSnapshot
  <2>3. QED
    BY <1>1, <2>2 DEF Claim
<1>2. ASSUME NEW r \in Run, Settle(r) PROVE PolicyInPlace'
  BY <1>2 DEF Settle
<1>3. ASSUME NEW i \in Slot, Delay(i) PROVE PolicyInPlace'
  BY <1>3 DEF Delay, Served
<1>4. ASSUME RecoverList PROVE PolicyInPlace'
  BY <1>4 DEF RecoverList
<1>5. ASSUME RecoverRead PROVE PolicyInPlace'
  BY <1>5 DEF RecoverRead
<1>6. ASSUME RecoverTask PROVE PolicyInPlace'
  BY <1>6 DEF RecoverTask
<1>7. ASSUME Start PROVE PolicyInPlace'
  BY <1>7 DEF Start
<1>8. ASSUME Stop PROVE PolicyInPlace'
  BY <1>8 DEF Stop
<1>9. ASSUME Replace PROVE PolicyInPlace'
  BY <1>9 DEF Replace
<1>10. ASSUME Crash PROVE PolicyInPlace'
  BY <1>10 DEF Crash
<1>11. ASSUME NEW t \in Task, NEW type \in {"once", "cron"}, Create(t, type) PROVE PolicyInPlace'
  BY <1>11 DEF Create, Put, Times
<1>12. ASSUME NEW t \in Task, NEW type \in {"once", "cron"}, Update(t, type) PROVE PolicyInPlace'
  BY <1>12 DEF Update, Times
<1>13. ASSUME NEW t \in Task, Delete(t) PROVE PolicyInPlace'
  BY <1>13 DEF Delete, Forget
<1>14. ASSUME TaskStopped PROVE PolicyInPlace'
  BY <1>14 DEF TaskStopped, Forget
<1>15. CASE UNCHANGED <<store, policy, phase>>
  BY <1>15
<1>16. QED
  BY <1>1, <1>2, <1>3, <1>4, <1>5, <1>6, <1>7, <1>8, <1>9, <1>10, <1>11, <1>12, <1>13,
     <1>14, <1>15 DEF TurnEnds, Record, Launch, Served, TickEnds, TimerFires,
     RecoverRecord, Advance, StopTask, vars, timers, manager, Next, RunStep, TickStep,
     StartStep, Request

(* No step acts against the word of the user. *)
LEMMA WordStep == Typed /\ RunsKept /\ Accounted /\ UserWordKept /\ [Next]_vars => UserWordKept'
<1> SUFFICES ASSUME Typed, RunsKept, Accounted, UserWordKept, [Next]_vars PROVE UserWordKept'
  OBVIOUS
<1> USE DEF UserWordKept, Present, Typed, TasksTyped, TaskRecord, Absent
<1>1. ASSUME NEW r \in Run, Claim(r) PROVE UserWordKept'
  <2>1. run[r].task \in Task
    BY <1>1 DEF Claim, RunsTyped
  <2>2. CASE UNCHANGED store
    BY <1>1, <2>2 DEF Claim, RunsKept
  <2>3. CASE ~UNCHANGED store
    <3>1. PICK t \in Task : /\ store[t].status = "scheduled" /\ t = run[r].task
             /\ store' = [store EXCEPT ![t] = [store[t] EXCEPT !.status = "running", !.last = r, !.rev = @ + 1]]
      BY <1>1, <2>1, <2>3 DEF Claim, MatchesScheduledSnapshot
    <3>2. store'[t].status = "running" /\ \A u \in Task \ {t} : store'[u] = store[u]
      BY <3>1
    <3>3. told' = told
      BY <1>1 DEF Claim
    <3>4. QED
      BY <3>1, <3>2, <3>3 DEF RunsKept
  <2>4. QED
    BY <2>2, <2>3
<1>2. ASSUME NEW r \in Run, Settle(r) PROVE UserWordKept'
  <2>1. run[r].task \in Task /\ r \in Claimed /\ told' = told
    BY <1>2 DEF Settle, RunsTyped, Claimed, Taken
  <2>2. \A t \in Task : \/ store'[t].status # "absent" <=> store[t].status # "absent"
                        \/ /\ t = run[r].task /\ run[r].claim.type = "once"
                           /\ store'[t].status = "absent"
    BY <1>2, <2>1 DEF Settle, MatchesRunningTask
  <2>3. QED
    BY <2>1, <2>2 DEF RunsKept
<1>3. ASSUME NEW i \in Slot, Delay(i) PROVE UserWordKept'
  <2>0. /\ told' = told
        /\ \A t \in Task : store'[t].status = store[t].status
    <3> HIDE DEF UserWordKept
    <3>1. PICK d \in tick[i].due :
            store' = IF Same(store[d.task], d.was)
                     THEN [store EXCEPT ![d.task].at = tick[i].now + 1, ![d.task].rev = @ + 1]
                     ELSE store
      BY <1>3 DEF Delay
    <3>2. d.task \in Task
      BY DEF TimersTyped, TickRecord, Snapshot
    <3>3. QED
      BY <1>3, <3>1, <3>2 DEF Delay
  <2>1. QED
    BY <2>0 DEF RunsKept
<1>4. ASSUME RecoverTask PROVE UserWordKept'
  <2>1. PICK d \in rec.todo :
          \/ d.was.type = "once" /\ store' = [store EXCEPT ![d.task] = Absent]
          \/ store' = [store EXCEPT ![d.task] = Restored(d)]
    BY <1>4 DEF RecoverTask
  <2>2. d.task \in Task /\ told' = told
    BY <1>4 DEF RecoverTask, ManagerTyped, Recovery, Snapshot
  <2>3. told[d.task] \in {"kept", "overtaken"} /\ TakenBy(d.task, d.was)
    BY DEF Accounted, CopiesTaken
  <2>4. \A t \in Task \ {d.task} : store'[t] = store[t]
    BY <2>1, <2>2
  <2>5. d.was.type = "once" =>
          \E r \in Claimed : run[r].task = d.task /\ run[r].claim.type = "once"
    BY <2>3 DEF TakenBy
  <2>6. Restored(d).status = "scheduled"
    BY <2>2 DEF Restored, ManagerTyped, Recovery, Snapshot
  <2>7. ASSUME NEW t \in Task \ {d.task}
        PROVE  /\ store'[t].status # "absent" => told'[t] \in {"kept", "overtaken"}
               /\ told'[t] = "kept" /\ store'[t].status = "absent" =>
                    \E r \in Claimed' : run'[r].task = t /\ run'[r].claim.type = "once"
    BY <2>2, <2>4, <2>7 DEF RunsKept
  <2>8. /\ told'[d.task] \in {"kept", "overtaken"}
        /\ store'[d.task].status = "absent" =>
             \E r \in Claimed' : run'[r].task = d.task /\ run'[r].claim.type = "once"
    BY <2>1, <2>2, <2>3, <2>5, <2>6 DEF RunsKept
  <2>9. QED
    BY <2>2, <2>7, <2>8
<1>5. ASSUME NEW t \in Task, NEW type \in {"once", "cron"}, Create(t, type) PROVE UserWordKept'
  BY <1>5 DEF Create, Put, RunsKept
<1>6. ASSUME NEW t \in Task, NEW type \in {"once", "cron"}, Update(t, type) PROVE UserWordKept'
  BY <1>6 DEF Update, RunsKept
<1>7. ASSUME NEW t \in Task, Delete(t) PROVE UserWordKept'
  BY <1>7 DEF Delete, Forget, RunsKept
<1>8. ASSUME TaskStopped PROVE UserWordKept'
  BY <1>8 DEF TaskStopped, Forget, RunsKept
<1>9. CASE UNCHANGED <<store, told>>
  BY <1>9 DEF RunsKept
<1> HIDE DEF UserWordKept, Present, Typed, TasksTyped, TaskRecord, Absent
<1>10. QED
  BY <1>1, <1>2, <1>3, <1>4, <1>5, <1>6, <1>7, <1>8, <1>9 DEF TurnEnds, Record, Launch,
     Served, TickEnds, TimerFires, RecoverList, RecoverRead, RecoverRecord, Start, Stop,
     Replace, Crash, Advance, StopTask, vars, timers, manager, Next, RunStep, TickStep,
     StartStep, Request

-----------------------------------------------------------------------------
(* Occurrences.  A revision names one state of a task as long as no        *)
(* recovery sets it back, so a compare-and-set with what was read succeeds *)
(* only if nothing has happened in between.                                *)

(* What ticks and claims under way have read. *)
Seen == {s \in Snapshot :
    \/ \E i \in Slot : s \in tick[i].due
    \/ \E r \in Run : run[r].at = "claiming" /\ run[r].task = s.task /\ run[r].was = s.was}

SameText(a, b) == a.edit = b.edit /\ a.type = b.type

(* Nobody knows of a task that has not been created. *)
Known == \A t \in Task : told[t] = "unknown" =>
    /\ \A s \in Seen : s.task # t
    /\ \A r \in Claimed : run[r].task # t

OneCopy == \A d, e \in rec.todo : d.task = e.task => d = e

(* What runs have taken is over: the task has a later revision. *)
Past == \A t \in Task \ rewound : Present(t) =>
    \A r \in Claimed : run[r].task = t => run[r].was.rev < store[t].rev

(* What was read is not later than the task, and the same text if a        *)
(* compare-and-set takes it for the same state.                            *)
Current == \A t \in Task \ rewound : Present(t) =>
    \A s \in Seen : s.task = t =>
        /\ s.was.rev <= store[t].rev
        /\ Same(store[t], s.was) => SameText(store[t], s.was)

(* Nobody edits a task while a recovery holds a copy of it. *)
CopiesAgree == \A d \in rec.todo : d.task \notin rewound =>
    /\ Present(d.task) => d.was.rev <= store[d.task].rev /\ SameText(store[d.task], d.was)
    /\ \A s \in Seen : s.task = d.task /\ d.was.rev < s.was.rev => SameText(s.was, d.was)

(* The last run of a task, wherever it is noted, has taken it. *)
LastClaimed ==
    /\ \A t \in Task : store[t].last \in Claimed \union {NoRun}
    /\ \A s \in Seen : s.was.last \in Claimed \union {NoRun}
    /\ \A q \in Claimed : run[q].was.last \in Claimed \union {NoRun}

(* A one-time task is not waiting after the run that took it. *)
OverOnce == \A r \in Claimed : run[r].claim.type = "once" =>
    /\ \A t \in Task : store[t].status = "scheduled" => store[t].last # r
    /\ \A s \in Seen : s.was.last # r
    /\ \A q \in Claimed : run[q].was.last # r

Revisions ==
    /\ Known /\ OneCopy /\ Past /\ Current /\ CopiesAgree
    /\ LastClaimed /\ OverOnce

(* A run that was there before the step, with the same memory. *)
OldRun(q) ==
    /\ q \in Claimed /\ run'[q].task = run[q].task
    /\ run'[q].was = run[q].was /\ run'[q].claim = run[q].claim

(* A compare-and-set that succeeds. *)
Takes(r) ==
    LET t == run[r].task IN
    /\ r \notin Claimed /\ run[r].at = "claiming" /\ t \in Task
    /\ store[t].status = "scheduled" /\ Same(store[t], run[r].was)
    /\ run'[r].was = run[r].was /\ run'[r].task = t /\ SameText(store[t], run'[r].claim)
    /\ \A u \in Task \ {t} : store'[u] = store[u]
    /\ store'[t].status = "running" /\ store'[t].rev = store[t].rev + 1
    /\ store'[t].last = r /\ SameText(store'[t], store[t])
    /\ r \in Claimed' /\ \A q \in Claimed' : q = r \/ OldRun(q)
    /\ UNCHANGED <<rec, rewound, told>>

(* Runs come to be claimed one at a time, by a compare-and-set. *)
LEMMA TakeStep == ASSUME Typed, [Next]_vars
                  PROVE  (\A q \in Claimed' : OldRun(q)) \/ \E r \in Run : Takes(r)
<1> USE DEF OldRun, Claimed, Taken, Typed, RunsTyped, RunRecord
<1>1. ASSUME NEW r \in Run, Claim(r) PROVE (\A q \in Claimed' : OldRun(q)) \/ Takes(r)
  <2> DEFINE t == run[r].task
  <2>1. t \in Task /\ run[r].at = "claiming" /\ r \notin Claimed
    BY <1>1 DEF Claim
  <2>2. CASE MatchesScheduledSnapshot(t, run[r].was)
    <3>1. PICK k \in TaskRecord :
            /\ k.status = "running" /\ k.last = r /\ k.rev = store[t].rev + 1
            /\ SameText(k, store[t])
            /\ store' = [store EXCEPT ![t] = k]
            /\ run' = [run EXCEPT ![r].at = "turn", ![r].claim = k]
      <4>1. [store[t] EXCEPT !.status = "running", !.last = r, !.rev = @ + 1] \in TaskRecord
        BY <2>1, TaskTaken DEF TasksTyped
      <4>2. QED
        BY <1>1, <2>1, <2>2, <4>1 DEF Claim, TasksTyped, TaskRecord, SameText
    <3>2. /\ run'[r].was = run[r].was /\ run'[r].task = t /\ run'[r].claim = k
          /\ run'[r].at = "turn" /\ \A q \in Run \ {r} : run'[q] = run[q]
      BY <3>1
    <3>3. store'[t] = k /\ \A u \in Task \ {t} : store'[u] = store[u]
      BY <2>1, <3>1 DEF TasksTyped
    <3>4. UNCHANGED <<rec, rewound, told>>
      BY <1>1 DEF Claim
    <3>5. QED
      BY <2>1, <2>2, <3>1, <3>2, <3>3, <3>4 DEF Takes, SameText, MatchesScheduledSnapshot
  <2>3. CASE ~MatchesScheduledSnapshot(t, run[r].was)
    <3>1. run' = [run EXCEPT ![r] = NotRunning]
      BY <1>1, <2>3 DEF Claim
    <3>2. run'[r].at = "free" /\ \A q \in Run \ {r} : run'[q] = run[q]
      BY <3>1 DEF NotRunning
    <3>3. QED
      BY <3>2
  <2>4. QED
    BY <2>2, <2>3
<1>2. ASSUME NEW r \in Run, TurnEnds(r) PROVE \A q \in Claimed' : OldRun(q)
  BY <1>2 DEF TurnEnds
<1>3. ASSUME NEW r \in Run, Record(r) PROVE \A q \in Claimed' : OldRun(q)
  BY <1>3 DEF Record
<1>4. ASSUME NEW r \in Run, Settle(r) PROVE \A q \in Claimed' : OldRun(q)
  BY <1>4 DEF Settle
<1>5. ASSUME NEW i \in Slot, Launch(i) PROVE \A q \in Claimed' : OldRun(q)
  <2>1. PICK r \in Unused, d \in tick[i].due : run' = [run EXCEPT ![r] = [NotRunning EXCEPT
               !.at = "claiming", !.task = d.task, !.gen = tick[i].gen, !.was = d.was]]
    BY <1>5 DEF Launch
  <2>2. r \in Run /\ run'[r].at = "claiming" /\ \A q \in Run \ {r} : run'[q] = run[q]
    BY <2>1 DEF Unused, NotRunning
  <2>3. QED
    BY <2>2
<1>6. ASSUME Crash PROVE \A q \in Claimed' : OldRun(q)
  <2>1. ASSUME NEW q \in Claimed' PROVE OldRun(q)
    <3>1. q \in Run /\ run'[q] = (IF run[q].at = "claiming" THEN NotRunning
                     ELSE IF q \in Claimed THEN [run[q] EXCEPT !.at = "dead"] ELSE run[q])
      BY <1>6 DEF Crash
    <3>2. q \in Claimed /\ run'[q] = [run[q] EXCEPT !.at = "dead"]
      BY <3>1 DEF NotRunning
    <3>3. QED
      BY <3>1, <3>2
  <2>2. QED
    BY <2>1
<1>7. CASE UNCHANGED run
  BY <1>7
<1>8. QED
  BY <1>1, <1>2, <1>3, <1>4, <1>5, <1>6, <1>7 DEF Delay, Served, TickEnds, TimerFires,
     RecoverList, RecoverRead, RecoverRecord, RecoverTask, Start, Stop, Replace, Advance,
     Create, Put, Times, Update, Delete, Forget, StopTask, TaskStopped, vars, timers,
     manager, Next, RunStep, TickStep, StartStep, Request

(* A tick reads tasks that are scheduled, and reading changes nothing. *)
Reads(s) ==
    /\ s.task \in Task /\ s.was = store[s.task] /\ store[s.task].status = "scheduled"
    /\ UNCHANGED <<store, told, run, rec, rewound>>

LEMMA SeenStep == ASSUME Typed, [Next]_vars PROVE \A s \in Seen' : s \in Seen \/ Reads(s)
<1> SUFFICES ASSUME NEW s \in Seen' PROVE s \in Seen \/ Reads(s)
  OBVIOUS
<1>0. s \in Snapshot
  BY DEF Seen
<1> USE DEF Typed, RunsTyped, RunRecord, TimersTyped, TickRecord
<1>1. ASSUME NEW g \in Gen, NEW i \in Slot, TimerFires(g, i) PROVE s \in Seen \/ Reads(s)
  <2>1. Due \subseteq {[task |-> t, was |-> store[t]] : t \in {u \in Task : store[u].status = "scheduled"}}
    BY DEF Due
  <2>2. \A j \in Slot : tick'[j].due = tick[j].due \/ tick'[j].due = Due
    BY <1>1 DEF TimerFires
  <2>3. run' = run /\ UNCHANGED <<store, told, run, rec, rewound>>
    BY <1>1 DEF TimerFires
  <2>4. s \in Seen \/ s \in Due
    BY <1>0, <2>2, <2>3 DEF Seen
  <2>5. s \in Due => Reads(s)
    BY <2>1, <2>3 DEF Reads
  <2>6. QED
    BY <2>4, <2>5
<1>2. ASSUME NEW i \in Slot, Launch(i) PROVE s \in Seen
  <2>1. PICK r \in Unused, d \in tick[i].due :
          /\ run' = [run EXCEPT ![r] = [NotRunning EXCEPT
               !.at = "claiming", !.task = d.task, !.gen = tick[i].gen, !.was = d.was]]
          /\ tick' = [tick EXCEPT ![i].due = @ \ {d}]
    BY <1>2 DEF Launch, Served
  <2>2. /\ r \in Run /\ run'[r].task = d.task /\ run'[r].was = d.was
        /\ \A q \in Run \ {r} : run'[q] = run[q]
    BY <2>1 DEF Unused, NotRunning
  <2>3. d \in Snapshot /\ \A j \in Slot : tick'[j].due \subseteq tick[j].due
    BY <2>1
  <2>4. d.task = s.task /\ d.was = s.was => d = s
    <3>1. d = [task |-> d.task, was |-> d.was]
      BY <2>3 DEF Snapshot
    <3>2. s = [task |-> s.task, was |-> s.was]
      BY <1>0 DEF Snapshot
    <3>3. QED
      BY <3>1, <3>2
  <2>5. QED
    BY <1>0, <2>2, <2>3, <2>4 DEF Seen
<1>3. ASSUME \A j \in Slot : tick'[j].due \subseteq tick[j].due,
             \A r \in Run : run'[r].at = "claiming" =>
                 run[r].at = "claiming" /\ run'[r].task = run[r].task /\ run'[r].was = run[r].was
      PROVE  s \in Seen
  BY <1>0, <1>3 DEF Seen
<1>4. ASSUME NEW r \in Run, RunStep(r) PROVE s \in Seen
  <2>1. tick' = tick
    BY <1>4 DEF RunStep, Claim, TurnEnds, Record, Settle
  <2>2. \A q \in Run : run'[q].at = "claiming" => run'[q] = run[q]
    <3>1. CASE Claim(r)
      <4>1. run'[r].at # "claiming" /\ \A q \in Run \ {r} : run'[q] = run[q]
        BY <3>1 DEF Claim, NotRunning
      <4>2. QED
        BY <4>1
    <3>2. CASE TurnEnds(r)
      BY <3>2 DEF TurnEnds
    <3>3. CASE Record(r)
      BY <3>3 DEF Record
    <3>4. CASE Settle(r)
      BY <3>4 DEF Settle
    <3>5. QED
      BY <1>4, <3>1, <3>2, <3>3, <3>4 DEF RunStep
  <2>3. QED
    BY <1>3, <2>1, <2>2
<1>5. ASSUME NEW i \in Slot, Delay(i) \/ TickEnds(i) PROVE s \in Seen
  <2>1. run' = run
    BY <1>5 DEF Delay, TickEnds
  <2>2. \A j \in Slot : tick'[j].due \subseteq tick[j].due
    <3>1. CASE Delay(i)
      <4>1. PICK d \in tick[i].due : tick' = [tick EXCEPT ![i].due = @ \ {d}]
        BY <3>1 DEF Delay, Served
      <4>2. QED
        BY <4>1
    <3>2. CASE TickEnds(i)
      BY <3>2 DEF TickEnds, NoTick
    <3>3. QED
      BY <1>5, <3>1, <3>2
  <2>3. QED
    BY <1>3, <2>1, <2>2
<1>6. ASSUME Crash PROVE s \in Seen
  <2>1. \A j \in Slot : tick'[j].due = {}
    BY <1>6 DEF Crash, NoTick
  <2>2. \A r \in Run : run'[r].at # "claiming"
    BY <1>6 DEF Crash, NotRunning
  <2>3. QED
    BY <1>3, <2>1, <2>2
<1>7. CASE UNCHANGED <<tick, run>>
  BY <1>3, <1>7
<1>8. QED
  BY <1>1, <1>2, <1>4, <1>5, <1>6, <1>7 DEF RecoverList, RecoverRead, RecoverRecord,
     RecoverTask, Start, Stop, Replace, Advance, Create, Put, Times, Update, Delete, Forget,
     StopTask, TaskStopped, vars, timers, manager, Next, TickStep, StartStep, Request

(* What a step does to a task. *)
Removed(t) == store'[t].status = "absent" /\ store'[t].last \in {store[t].last, NoRun}

Bumped(t) ==
    /\ Present(t) /\ store'[t].rev = store[t].rev + 1
    /\ store'[t].last = store[t].last /\ SameText(store'[t], store[t])
    /\ store'[t].status = "scheduled" =>
          store[t].status = "scheduled" \/ run[store[t].last].claim.type # "once"

Edited(t) ==
    /\ rec.todo = {} /\ Present(t) /\ store[t].status = "scheduled"
    /\ store'[t].rev = store[t].rev + 1 /\ store'[t].last = store[t].last

Created(t) == told[t] = "unknown" /\ store'[t].last = NoRun

PutBack(t) == \E d \in rec.todo :
    /\ d.task = t /\ d.was.type # "once" /\ store'[t] = Restored(d)
    /\ rec'.todo = rec.todo \ {d}
    /\ t \notin rewound' => Present(t) /\ store[t].rev <= Restored(d).rev

Fate(t) ==
    \/ store'[t] = store[t] \/ Removed(t) \/ Bumped(t) \/ Edited(t) \/ Created(t)
    \/ PutBack(t)
    \/ \E r \in Run : Takes(r) /\ run[r].task = t

(* A step that changes nothing but one task. *)
LEMMA OneFate ==
    ASSUME Typed, NEW t \in Task, NEW k, store' = [store EXCEPT ![t] = k], Fate(t)
    PROVE  \A u \in Task : Fate(u)
BY DEF Fate, Typed, TasksTyped

LEMMA StoreStep ==
    ASSUME Typed, Accounted, [Next]_vars
    PROVE  (\A t \in Task : Fate(t)) /\ rewound \subseteq rewound'
<1>1. ASSUME NEW r \in Run, Claim(r) PROVE \A t \in Task : Fate(t)
  <2>1. CASE MatchesScheduledSnapshot(run[r].task, run[r].was)
    <3>1. r \in Claimed' /\ r \notin Claimed
      BY <1>1, <2>1 DEF Claim, Claimed, Taken, Typed, RunsTyped, RunRecord
    <3>2. PICK q \in Run : Takes(q)
      BY <3>1, TakeStep DEF OldRun
    <3>3. QED
      BY <3>2 DEF Takes, Fate
  <2>2. CASE ~MatchesScheduledSnapshot(run[r].task, run[r].was)
    BY <1>1, <2>2 DEF Claim, Fate
  <2>3. QED
    BY <2>1, <2>2
<1>2. ASSUME NEW r \in Run, Settle(r) PROVE \A t \in Task : Fate(t)
  <2> DEFINE t == run[r].task
  <2>1. t \in Task /\ store[t] \in TaskRecord
    BY <1>2 DEF Settle, Typed, RunsTyped, TasksTyped
  <2>2. CASE ~MatchesRunningTask(t, run[r].claim, r)
    BY <1>2, <2>2 DEF Settle, Fate
  <2>3. CASE MatchesRunningTask(t, run[r].claim, r) /\ run[r].claim.type = "once"
    <3>1. store' = [store EXCEPT ![t] = Absent]
      BY <1>2, <2>3 DEF Settle
    <3>2. Removed(t)
      BY <2>1, <3>1 DEF Removed, Absent, Typed, TasksTyped
    <3>3. QED
      BY <2>1, <3>1, <3>2, OneFate DEF Fate
  <2>4. CASE MatchesRunningTask(t, run[r].claim, r) /\ run[r].claim.type # "once"
    <3>1. PICK k : /\ k = [store[t] EXCEPT !.status = "scheduled", !.at = run[r].next, !.rev = @ + 1]
                   /\ store' = [store EXCEPT ![t] = k]
      BY <1>2, <2>1, <2>4 DEF Settle, Typed, TasksTyped
    <3>2. k.rev = store[t].rev + 1 /\ k.last = store[t].last /\ SameText(k, store[t])
      BY <2>1, <3>1 DEF TaskRecord, SameText
    <3>3. store'[t] = k /\ store[t].last = r /\ store[t].status = "running"
      BY <2>1, <2>4, <3>1 DEF MatchesRunningTask, Typed, TasksTyped
    <3>4. Bumped(t)
      BY <2>4, <3>2, <3>3 DEF Bumped, Present
    <3>5. QED
      BY <2>1, <3>1, <3>4, OneFate DEF Fate
  <2>5. QED
    BY <2>2, <2>3, <2>4
<1>3. ASSUME NEW i \in Slot, Delay(i) PROVE \A t \in Task : Fate(t)
  <2>1. PICK d \in tick[i].due :
          store' = IF Same(store[d.task], d.was)
                   THEN [store EXCEPT ![d.task].at = tick[i].now + 1, ![d.task].rev = @ + 1]
                   ELSE store
    BY <1>3 DEF Delay
  <2> DEFINE t == d.task
  <2>2. t \in Task /\ store[t] \in TaskRecord
    BY DEF Typed, TasksTyped, TimersTyped, TickRecord, Snapshot
  <2>3. CASE Same(store[t], d.was)
    <3>1. PICK k : /\ k = [store[t] EXCEPT !.at = tick[i].now + 1, !.rev = @ + 1]
                   /\ store' = [store EXCEPT ![t] = k]
      BY <2>1, <2>2, <2>3 DEF Typed, TasksTyped
    <3>2. /\ k.rev = store[t].rev + 1 /\ k.last = store[t].last /\ SameText(k, store[t])
          /\ k.status = store[t].status
      BY <2>2, <3>1 DEF TaskRecord, SameText
    <3>3. store'[t] = k
      BY <2>2, <3>1 DEF Typed, TasksTyped
    <3>4. Bumped(t) \/ Removed(t)
      BY <3>2, <3>3 DEF Bumped, Removed, Present
    <3>5. QED
      BY <2>2, <3>1, <3>4, OneFate DEF Fate
  <2>4. CASE ~Same(store[t], d.was)
    BY <2>1, <2>4 DEF Fate
  <2>5. QED
    BY <2>3, <2>4
<1>4. ASSUME RecoverTask PROVE (\A t \in Task : Fate(t)) /\ rewound \subseteq rewound'
  <2>1. PICK d \in rec.todo :
          /\ rec' = [rec EXCEPT !.todo = @ \ {d}]
          /\ IF d.was.type = "once"
               THEN store' = [store EXCEPT ![d.task] = Absent] /\ rewound' = rewound
               ELSE /\ store' = [store EXCEPT ![d.task] = Restored(d)]
                    /\ rewound' = IF Present(d.task) /\ store[d.task].rev <= Restored(d).rev
                                  THEN rewound ELSE rewound \union {d.task}
    BY <1>4 DEF RecoverTask
  <2> DEFINE t == d.task
  <2>2. t \in Task /\ rec'.todo = rec.todo \ {d}
    BY <2>1 DEF Typed, ManagerTyped, Recovery, Snapshot
  <2>3. CASE d.was.type = "once"
    <3>1. Removed(t)
      BY <2>1, <2>2, <2>3 DEF Removed, Absent, Typed, TasksTyped
    <3>2. QED
      BY <2>1, <2>2, <2>3, <3>1, OneFate DEF Fate
  <2>4. CASE d.was.type # "once"
    <3>1. store' = [store EXCEPT ![t] = Restored(d)] /\ store'[t] = Restored(d)
      BY <2>1, <2>2, <2>4 DEF Typed, TasksTyped
    <3>2. PutBack(t) /\ rewound \subseteq rewound'
      BY <2>1, <2>2, <2>4, <3>1 DEF PutBack
    <3>3. QED
      BY <2>2, <3>1, <3>2, OneFate DEF Fate
  <2>5. QED
    BY <2>1, <2>3, <2>4
<1>5. ASSUME NEW t \in Task, NEW type \in {"once", "cron"}, Create(t, type)
      PROVE  \A u \in Task : Fate(u)
  <2>1. PICK at \in Times(type) : Put(t, type, at)
    BY <1>5 DEF Create
  <2>2. store'[t].last = NoRun
    BY <2>1 DEF Put, Absent, Typed, TasksTyped
  <2>3. QED
    BY <2>1, <2>2, OneFate DEF Put, Created, Fate
<1>6. ASSUME NEW t \in Task, NEW type \in {"once", "cron"}, Update(t, type)
      PROVE  \A u \in Task : Fate(u)
  <2>1. PICK k : /\ \E at : k = [store[t] EXCEPT !.type = type, !.at = at, !.rev = @ + 1, !.edit = @ + 1]
                 /\ store' = [store EXCEPT ![t] = k]
    BY <1>6 DEF Update, Typed, TasksTyped
  <2>2. k.rev = store[t].rev + 1 /\ k.last = store[t].last /\ store'[t] = k
    BY <2>1 DEF Typed, TasksTyped, TaskRecord
  <2>3. rec.todo = {}
    BY <1>6 DEF Update, Reachable, Accounted, CopiesInUse
  <2>4. Edited(t)
    BY <1>6, <2>2, <2>3 DEF Update, Edited, Present
  <2>5. QED
    BY <2>1, <2>4, OneFate DEF Fate
<1>7. ASSUME NEW t \in Task, Forget(t) PROVE \A u \in Task : Fate(u)
  <2>1. Removed(t)
    BY <1>7 DEF Forget, Removed, Absent, Typed, TasksTyped
  <2>2. QED
    BY <1>7, <2>1, OneFate DEF Forget, Fate
<1>8. ASSUME UNCHANGED store PROVE \A t \in Task : Fate(t)
  <2>1. \A t \in Task : store'[t] = store[t]
    BY <1>8
  <2>2. QED
    BY <2>1 DEF Fate
<1>9. (\A t \in Task : Fate(t))
  <2>1. ASSUME TaskStopped PROVE \A t \in Task : Fate(t)
    BY <1>7, <2>1 DEF TaskStopped, Typed, TasksTyped
  <2>2. QED
    BY <1>1, <1>2, <1>3, <1>4, <1>5, <1>6, <1>7, <1>8, <2>1 DEF TurnEnds, Record, Launch,
     Served, TickEnds, TimerFires, RecoverList, RecoverRead, RecoverRecord, Start, Stop,
     Replace, Crash, Advance, Delete, StopTask, vars, timers, manager, Next, RunStep,
     TickStep, StartStep, Request
<1>10. rewound \subseteq rewound'
  BY <1>4 DEF Claim, Settle, Delay, Create, Update, TaskStopped, TurnEnds, Record, Launch,
     Served, TickEnds, TimerFires, RecoverList, RecoverRead, RecoverRecord, Start, Stop,
     Replace, Crash, Advance, Delete, StopTask, vars, timers, manager, Next, RunStep,
     TickStep, StartStep, Request
<1>11. QED
  BY <1>9, <1>10

(* A recovery makes its copies at once, and then only uses them up. *)
Copies == \E S \in SUBSET Task :
    /\ \A t \in S : store[t].status = "running"
    /\ rec'.todo = {[task |-> t, was |-> store[t]] : t \in S}
    /\ UNCHANGED <<store, told, run, tick, rewound>>

LEMMA CopyStep == ASSUME Typed, [Next]_vars PROVE rec'.todo \subseteq rec.todo \/ Copies
<1> USE DEF Typed, ManagerTyped, Recovery
<1>1. ASSUME RecoverList PROVE Copies
  <2> DEFINE S == {u \in Task : store[u].status = "running"}
  <2>1. rec'.todo = {[task |-> t, was |-> store[t]] : t \in S}
    BY <1>1 DEF RecoverList, Nothing
  <2>2. S \in SUBSET Task /\ \A t \in S : store[t].status = "running"
    OBVIOUS
  <2>3. UNCHANGED <<store, told, run, tick, rewound>>
    BY <1>1 DEF RecoverList
  <2>4. QED
    BY <2>1, <2>2, <2>3 DEF Copies
<1>2. ASSUME RecoverRead \/ RecoverRecord \/ Stop PROVE rec'.todo \subseteq rec.todo
  BY <1>2 DEF RecoverRead, RecoverRecord, Stop
<1>3. ASSUME RecoverTask PROVE rec'.todo \subseteq rec.todo
  BY <1>3 DEF RecoverTask
<1>4. ASSUME Start \/ Crash PROVE rec'.todo \subseteq rec.todo
  BY <1>4 DEF Start, Crash, Nothing
<1>5. ASSUME NEW i \in Slot, TickEnds(i) PROVE rec'.todo \subseteq rec.todo
  BY <1>5 DEF TickEnds
<1>6. CASE UNCHANGED rec
  BY <1>6
<1>7. QED
  BY <1>1, <1>2, <1>3, <1>4, <1>5, <1>6 DEF Claim, TurnEnds, Record, Settle, Launch, Served,
     Delay, TimerFires, Advance, Create, Put, Times, Update, Delete, Forget, StopTask,
     TaskStopped, Replace, vars, timers, manager, Next, RunStep, TickStep, StartStep, Request

(* A task that nobody knows of was not known before. *)
LEMMA ToldStep == ASSUME Typed, [Next]_vars, NEW t \in Task, told'[t] = "unknown"
                  PROVE  told[t] = "unknown"
<1>1. ASSUME NEW u \in Task, NEW v, v # "unknown", told' = [told EXCEPT ![u] = v]
      PROVE  told[t] = "unknown"
  BY <1>1 DEF Typed, TasksTyped
<1>2. ASSUME NEW u \in Task, Forget(u) PROVE told[t] = "unknown"
  BY <1>1, <1>2 DEF Forget
<1>3. ASSUME TaskStopped PROVE told[t] = "unknown"
  BY <1>2, <1>3 DEF TaskStopped, Typed, TasksTyped
<1>4. ASSUME NEW u \in Task, NEW type \in {"once", "cron"}, Create(u, type)
      PROVE  told[t] = "unknown"
  BY <1>1, <1>4 DEF Create, Put
<1>5. CASE UNCHANGED told
  BY <1>5
<1>6. QED
  BY <1>2, <1>3, <1>4, <1>5 DEF Claim, TurnEnds, Record, Settle, Launch, Served, Delay,
     TickEnds, TimerFires, RecoverList, RecoverRead, RecoverRecord, RecoverTask, Start, Stop,
     Replace, Crash, Advance, Update, Delete, StopTask, vars, timers, manager, Next, RunStep,
     TickStep, StartStep, Request

(* What the step lemmas say of a step, for the invariants below. *)
Changes ==
    /\ \A t \in Task : Fate(t)
    /\ rewound \subseteq rewound'
    /\ \A s \in Seen' : s \in Seen \/ Reads(s)
    /\ rec'.todo \subseteq rec.todo \/ Copies
    /\ (\A q \in Claimed' : OldRun(q)) \/ \E r \in Run : Takes(r)
    /\ \A t \in Task : told'[t] = "unknown" => told[t] = "unknown"

LEMMA StepChanges == Typed /\ Accounted /\ [Next]_vars => Changes
BY StoreStep, SeenStep, CopyStep, TakeStep, ToldStep DEF Changes

(* A run that takes its task has read it before. *)
LEMMA TakesSeen ==
    ASSUME Typed, NEW r \in Run, Takes(r)
    PROVE  [task |-> run[r].task, was |-> run[r].was] \in Seen
<1>1. run[r].at = "claiming" /\ run[r].task \in Task
  BY DEF Takes
<1>2. run[r].was \in TaskRecord
  BY DEF Typed, RunsTyped, RunRecord
<1>3. QED
  BY <1>1, <1>2 DEF Seen, Snapshot

LEMMA KnownStep == ASSUME Typed, UserWordKept, Changes, Known PROVE Known'
<1> SUFFICES ASSUME NEW t \in Task, told'[t] = "unknown"
             PROVE  (\A s \in Seen' : s.task # t) /\ (\A r \in Claimed' : run'[r].task # t)
  BY DEF Known
<1>1. told[t] = "unknown"
  BY DEF Changes
<1>2. ASSUME NEW s \in Seen', s.task = t PROVE FALSE
  <2>1. CASE s \in Seen
    BY <1>1, <1>2, <2>1 DEF Known
  <2>2. CASE Reads(s)
    BY <1>1, <1>2, <2>2 DEF Reads, UserWordKept, Present
  <2>3. QED
    BY <2>1, <2>2 DEF Changes
<1>3. ASSUME NEW r \in Claimed', run'[r].task = t PROVE FALSE
  <2>1. CASE OldRun(r)
    BY <1>1, <1>3, <2>1 DEF OldRun, Known
  <2>2. ASSUME NEW q \in Run, Takes(q) PROVE FALSE
    <3>1. run[q].task # t
      BY <1>1, <2>2, TakesSeen DEF Known
    <3>2. r = q \/ OldRun(r)
      BY <2>2 DEF Takes
    <3>3. QED
      BY <1>3, <2>1, <2>2, <3>1, <3>2 DEF Takes, OldRun, Known
  <2>3. QED
    BY <2>1, <2>2 DEF Changes
<1>4. QED
  BY <1>2, <1>3

LEMMA OneCopyStep == ASSUME Changes, OneCopy PROVE OneCopy'
<1>1. CASE rec'.todo \subseteq rec.todo
  BY <1>1 DEF OneCopy
<1>2. CASE Copies
  BY <1>2 DEF Copies, OneCopy
<1>3. QED
  BY <1>1, <1>2 DEF Changes

(* The revision of a task that stays never goes down unless it is set      *)
(* back, and rises whenever the task is taken, settled, put off or edited. *)
LEMMA RevisionsRise ==
    ASSUME Typed, Changes, Accounted, Known, NEW t \in Task \ rewound', Present(t)', told[t] # "unknown"
    PROVE  /\ Present(t) /\ t \notin rewound
           /\ store[t].rev \in Nat /\ store'[t].rev \in Nat
           /\ \/ store'[t] = store[t]
              \/ store'[t].rev = store[t].rev + 1 /\ ~PutBack(t)
              \/ PutBack(t) /\ store[t].rev <= store'[t].rev
<1>1. t \notin rewound
  BY DEF Changes
<1>2. store'[t].status # "absent"
  BY DEF Present
<1>3. CASE store'[t] = store[t]
  BY <1>1, <1>2, <1>3 DEF Present, Typed, TasksTyped, TaskRecord
<1>4. CASE Removed(t)
  BY <1>2, <1>4 DEF Removed
<1>5. CASE (Bumped(t) \/ Edited(t)) /\ ~PutBack(t)
  BY <1>1, <1>5 DEF Bumped, Edited, Typed, TasksTyped, TaskRecord
<1>6. CASE Created(t)
  BY <1>6 DEF Created
<1>7. CASE PutBack(t)
  <2>1. PICK d \in rec.todo : d.task = t /\ store'[t] = Restored(d) /\ Present(t)
                              /\ store[t].rev <= Restored(d).rev
    BY <1>7 DEF PutBack
  <2>2. d.was \in TaskRecord
    BY DEF Typed, ManagerTyped, Recovery, Snapshot
  <2>3. Restored(d).rev \in Nat
    BY <2>2 DEF Restored, TaskRecord
  <2>4. QED
    BY <1>1, <1>7, <2>1, <2>3 DEF Typed, TasksTyped, TaskRecord
<1>8. CASE (\E r \in Run : Takes(r) /\ run[r].task = t) /\ ~PutBack(t)
  BY <1>1, <1>8 DEF Takes, Present, Typed, TasksTyped, TaskRecord
<1>9. QED
  BY <1>3, <1>4, <1>5, <1>6, <1>7, <1>8 DEF Changes, Fate

LEMMA PastStep == ASSUME Typed, Accounted, Changes, Known, Past PROVE Past'
<1> SUFFICES ASSUME NEW t \in Task \ rewound', Present(t)', NEW r \in Claimed', run'[r].task = t
             PROVE  run'[r].was.rev < store'[t].rev
  BY DEF Past
<1>0. r \in Run
  BY DEF Claimed
<1>1. CASE OldRun(r)
  <2>1. told[t] # "unknown" /\ run[r].was.rev \in Nat
    BY <1>0, <1>1 DEF OldRun, Known, Typed, RunsTyped, RunRecord, TaskRecord
  <2>2. Present(t) /\ t \notin rewound /\ store[t].rev \in Nat /\ store'[t].rev \in Nat
        /\ store[t].rev <= store'[t].rev
    BY <2>1, RevisionsRise
  <2>3. run[r].was.rev < store[t].rev
    BY <1>1, <2>2 DEF OldRun, Past
  <2>4. QED
    BY <1>1, <2>1, <2>2, <2>3 DEF OldRun
<1>2. CASE Takes(r)
  BY <1>2 DEF Takes, Same, Typed, TasksTyped, TaskRecord
<1>3. QED
  BY <1>1, <1>2 DEF Changes, Takes

LEMMA CurrentStep ==
    ASSUME Typed, Accounted, Changes, Known, Current, CopiesAgree PROVE Current'
<1> SUFFICES ASSUME NEW t \in Task \ rewound', Present(t)', NEW s \in Seen', s.task = t
             PROVE  /\ s.was.rev <= store'[t].rev
                    /\ Same(store'[t], s.was) => SameText(store'[t], s.was)
  BY DEF Current, Same, SameText
<1>0. s.was \in TaskRecord
  BY DEF Seen, Snapshot
<1>1. CASE s \in Seen
  <2>1. told[t] # "unknown"
    BY <1>1 DEF Known
  <2>2. /\ Present(t) /\ t \notin rewound /\ store[t].rev \in Nat /\ store'[t].rev \in Nat
        /\ \/ store'[t] = store[t]
           \/ store'[t].rev = store[t].rev + 1
           \/ PutBack(t) /\ store[t].rev <= store'[t].rev
    BY <2>1, RevisionsRise
  <2>3. /\ s.was.rev \in Nat /\ s.was.rev <= store[t].rev
        /\ Same(store[t], s.was) => SameText(store[t], s.was)
    BY <1>0, <1>1, <2>2 DEF Current, TaskRecord
  <2>4. CASE store'[t] = store[t]
    BY <2>3, <2>4
  <2>5. CASE store'[t].rev = store[t].rev + 1 /\ ~PutBack(t)
    BY <2>2, <2>3, <2>5 DEF Same
  <2>6. CASE PutBack(t) /\ store[t].rev <= store'[t].rev
    <3>1. PICK d \in rec.todo : d.task = t /\ store'[t] = Restored(d)
      BY <2>6 DEF PutBack
    <3>2. d.was \in TaskRecord /\ rec.next \in Nat
      BY DEF Typed, ManagerTyped, Recovery, Snapshot
    <3>3. Restored(d).rev = d.was.rev + 1 /\ SameText(Restored(d), d.was)
      BY <3>2 DEF Restored, TaskRecord, SameText
    <3>4. d.was.rev < s.was.rev => SameText(s.was, d.was)
      BY <1>1, <2>2, <3>1 DEF CopiesAgree
    <3>5. Same(store'[t], s.was) => s.was.rev = d.was.rev + 1
      BY <3>1, <3>3 DEF Same
    <3>6. d.was.rev \in Nat
      BY <3>2 DEF TaskRecord
    <3>7. Same(store'[t], s.was) => SameText(store'[t], s.was)
      BY <3>1, <3>3, <3>4, <3>5, <3>6 DEF SameText
    <3>8. QED
      BY <2>2, <2>3, <2>6, <3>7
  <2>7. QED
    BY <2>2, <2>4, <2>5, <2>6
<1>2. CASE Reads(s)
  BY <1>0, <1>2 DEF Reads, SameText, TaskRecord
<1>3. QED
  BY <1>1, <1>2 DEF Changes

LEMMA CopiesAgreeStep ==
    ASSUME Typed, Accounted, Changes, Known, OneCopy, Current, CopiesAgree PROVE CopiesAgree'
<1> SUFFICES ASSUME NEW d \in rec'.todo, d.task \notin rewound'
             PROVE  /\ Present(d.task)' => /\ d.was.rev <= store'[d.task].rev
                                           /\ SameText(store'[d.task], d.was)
                    /\ \A s \in Seen' : s.task = d.task /\ d.was.rev < s.was.rev =>
                          SameText(s.was, d.was)
  BY DEF CopiesAgree, SameText
<1> DEFINE t == d.task
<1>1. t \notin rewound
  BY DEF Changes
<1>2. CASE d \in rec.todo
  <2>1. t \in Task /\ d.was.rev \in Nat /\ store[t].rev \in Nat
    BY <1>2 DEF Typed, ManagerTyped, Recovery, Snapshot, TasksTyped, TaskRecord
  <2>2. told[t] # "unknown" /\ rec.todo # {}
    BY <1>2 DEF Accounted, CopiesTaken
  <2>3. Present(t) => d.was.rev <= store[t].rev /\ SameText(store[t], d.was)
    BY <1>1, <1>2 DEF CopiesAgree
  <2>4. ~PutBack(t)
    BY <1>2 DEF PutBack, OneCopy
  <2>5. ASSUME Present(t)' PROVE d.was.rev <= store'[t].rev /\ SameText(store'[t], d.was)
    <3>1. store'[t].status # "absent"
      BY <2>5 DEF Present
    <3>2. CASE store'[t] = store[t]
      BY <2>3, <3>1, <3>2 DEF Present
    <3>3. CASE Bumped(t)
      BY <2>1, <2>3, <3>3 DEF Bumped, SameText
    <3>4. ASSUME NEW r \in Run, Takes(r), run[r].task = t
          PROVE  d.was.rev <= store'[t].rev /\ SameText(store'[t], d.was)
      BY <2>1, <2>3, <3>4 DEF Takes, Present, SameText
    <3>5. QED
      BY <2>1, <2>2, <2>4, <3>1, <3>2, <3>3, <3>4 DEF Changes, Fate, Removed, Edited, Created
  <2>6. ASSUME NEW s \in Seen', s.task = t, d.was.rev < s.was.rev PROVE SameText(s.was, d.was)
    <3>1. CASE s \in Seen
      BY <1>1, <1>2, <2>6, <3>1 DEF CopiesAgree
    <3>2. CASE Reads(s)
      BY <2>3, <2>6, <3>2 DEF Reads, Present
    <3>3. QED
      BY <2>6, <3>1, <3>2 DEF Changes
  <2>7. QED
    BY <2>5, <2>6
<1>3. CASE Copies
  <2>1. /\ t \in Task /\ store[t].status = "running" /\ d.was = store[t]
        /\ store' = store /\ Seen' = Seen
    BY <1>3 DEF Copies, Seen
  <2>2. store[t].rev \in Nat /\ Present(t)
    BY <2>1 DEF Typed, TasksTyped, TaskRecord, Present
  <2>3. ASSUME NEW s \in Seen', s.task = t PROVE s.was.rev \in Nat /\ s.was.rev <= d.was.rev
    BY <1>1, <2>1, <2>2, <2>3 DEF Current, Seen, Snapshot, TaskRecord
  <2>4. QED
    BY <2>1, <2>2, <2>3 DEF SameText
<1>4. QED
  BY <1>2, <1>3 DEF Changes

(* The last run of a task is one that took it, in what is read and in what *)
(* a recovery puts back.                                                   *)
LEMMA LastClaimedStep ==
    ASSUME Typed, Accounted, RunsKept, Changes, LastClaimed PROVE LastClaimed'
<1>1. Claimed \subseteq Claimed'
  BY DEF RunsKept
<1>2. ASSUME NEW t \in Task PROVE store'[t].last \in Claimed' \union {NoRun}
  <2>1. store[t].last \in Claimed' \union {NoRun}
    BY <1>1, <1>2 DEF LastClaimed
  <2>2. CASE PutBack(t)
    <3>1. PICK d \in rec.todo : d.task = t /\ store'[t] = Restored(d)
      BY <2>2 DEF PutBack
    <3>2. d.was \in TaskRecord /\ d.was.last \in Claimed
      BY DEF Typed, ManagerTyped, Recovery, Snapshot, Accounted, CopiesTaken, TakenBy
    <3>3. QED
      BY <1>1, <3>1, <3>2 DEF Restored, TaskRecord
  <2>3. ASSUME NEW r \in Run, Takes(r), run[r].task = t PROVE store'[t].last \in Claimed'
    BY <2>3 DEF Takes
  <2>4. QED
    BY <1>2, <2>1, <2>2, <2>3 DEF Changes, Fate, Removed, Bumped, Edited, Created
<1>3. ASSUME NEW s \in Seen' PROVE s.was.last \in Claimed' \union {NoRun}
  <2>1. s \in Seen => s.was.last \in Claimed \union {NoRun}
    BY DEF LastClaimed
  <2>2. Reads(s) => s.was.last \in Claimed \union {NoRun}
    BY DEF Reads, LastClaimed
  <2>3. QED
    BY <1>1, <1>3, <2>1, <2>2 DEF Changes
<1>4. ASSUME NEW q \in Claimed' PROVE run'[q].was.last \in Claimed' \union {NoRun}
  <2>1. OldRun(q) => run'[q].was.last \in Claimed \union {NoRun}
    BY DEF OldRun, LastClaimed
  <2>2. ASSUME NEW r \in Run, Takes(r) PROVE run'[r].was.last \in Claimed \union {NoRun}
    <3>1. PICK s \in Seen : s.was = run[r].was
      BY <2>2, TakesSeen
    <3>2. run'[r].was = run[r].was
      BY <2>2 DEF Takes
    <3>3. QED
      BY <3>1, <3>2 DEF LastClaimed
  <2>3. QED
    BY <1>1, <1>4, <2>1, <2>2 DEF Changes, Takes
<1>5. QED
  BY <1>2, <1>3, <1>4 DEF LastClaimed

(* A one-time task that was taken never waits again. *)
LEMMA OverOnceStep ==
    ASSUME Typed, Accounted, Changes, LastClaimed, OverOnce PROVE OverOnce'
<1> SUFFICES ASSUME NEW r \in Claimed', run'[r].claim.type = "once"
             PROVE  /\ \A t \in Task : store'[t].status = "scheduled" => store'[t].last # r
                    /\ \A s \in Seen' : s.was.last # r
                    /\ \A q \in Claimed' : run'[q].was.last # r
  BY DEF OverOnce
<1>1. r \in Run /\ r # NoRun
  BY DEF Claimed
<1>2. CASE OldRun(r)
  <2>1. r \in Claimed /\ run[r].claim.type = "once"
    BY <1>2 DEF OldRun
  <2>2. ASSUME NEW t \in Task, store'[t].status = "scheduled" PROVE store'[t].last # r
    <3>1. store[t].status = "scheduled" => store[t].last # r
      BY <2>1, <2>2 DEF OverOnce
    <3>2. CASE Bumped(t)
      BY <2>1, <2>2, <3>1, <3>2 DEF Bumped
    <3>3. CASE PutBack(t)
      <4>1. PICK d \in rec.todo : d.task = t /\ d.was.type # "once" /\ store'[t] = Restored(d)
        BY <3>3 DEF PutBack
      <4>2. d.was \in TaskRecord /\ run[d.was.last].claim.type = d.was.type
        BY DEF Typed, ManagerTyped, Recovery, Snapshot, Accounted, CopiesTaken, TakenBy
      <4>3. QED
        BY <2>1, <4>1, <4>2 DEF Restored, TaskRecord
    <3>4. ASSUME NEW q \in Run, Takes(q), run[q].task = t PROVE FALSE
      BY <2>2, <3>4 DEF Takes
    <3>5. QED
      BY <1>1, <2>2, <3>1, <3>2, <3>3, <3>4 DEF Changes, Fate, Removed, Edited, Created
  <2>3. ASSUME NEW s \in Seen' PROVE s.was.last # r
    <3>1. s \in Seen => s.was.last # r
      BY <2>1 DEF OverOnce
    <3>2. Reads(s) => s.was.last # r
      BY <2>1 DEF Reads, OverOnce
    <3>3. QED
      BY <2>3, <3>1, <3>2 DEF Changes
  <2>4. ASSUME NEW q \in Claimed' PROVE run'[q].was.last # r
    <3>1. OldRun(q) => run'[q].was.last # r
      BY <2>1 DEF OldRun, OverOnce
    <3>2. ASSUME NEW k \in Run, Takes(k) PROVE run'[k].was.last # r
      <4>1. PICK s \in Seen : s.was = run[k].was
        BY <3>2, TakesSeen
      <4>2. run'[k].was = run[k].was
        BY <3>2 DEF Takes
      <4>3. QED
        BY <2>1, <4>1, <4>2 DEF OverOnce
    <3>3. QED
      BY <2>4, <3>1, <3>2 DEF Changes, Takes
  <2>5. QED
    BY <2>2, <2>3, <2>4
<1>3. CASE Takes(r)
  <2>1. r \notin Claimed
    BY <1>3 DEF Takes
  <2>2. ASSUME NEW t \in Task, store'[t].status = "scheduled" PROVE store'[t].last # r
    <3>1. store'[t] = store[t]
      BY <1>3, <2>2 DEF Takes
    <3>2. QED
      BY <1>1, <2>1, <2>2, <3>1 DEF LastClaimed
  <2>3. ASSUME NEW s \in Seen' PROVE s.was.last # r
    <3>1. s \in Seen => s.was.last # r
      BY <1>1, <2>1 DEF LastClaimed
    <3>2. Reads(s) => s.was.last # r
      BY <1>1, <2>1 DEF Reads, LastClaimed
    <3>3. QED
      BY <2>3, <3>1, <3>2 DEF Changes
  <2>4. ASSUME NEW q \in Claimed' PROVE run'[q].was.last # r
    <3>1. OldRun(q) => run'[q].was.last # r
      BY <1>1, <2>1 DEF OldRun, LastClaimed
    <3>2. run'[r].was.last # r
      <4>1. PICK s \in Seen : s.was = run[r].was
        BY <1>1, <1>3, TakesSeen
      <4>2. run'[r].was = run[r].was
        BY <1>3 DEF Takes
      <4>3. s.was.last \in Claimed \union {NoRun}
        BY <4>1 DEF LastClaimed
      <4>4. QED
        BY <1>1, <2>1, <4>1, <4>2, <4>3
    <3>3. QED
      BY <1>3, <2>4, <3>1, <3>2 DEF Takes
  <2>5. QED
    BY <2>2, <2>3, <2>4
<1>4. QED
  BY <1>2, <1>3 DEF Changes, Takes

(* A run that takes its task takes another occurrence than those before. *)
LEMMA AtMostOnceStep ==
    ASSUME Typed, Accounted, UserWordKept, Changes, Past, AtMostOnce, OverOnce' PROVE AtMostOnce'
<1> SUFFICES ASSUME NEW r \in Claimed', NEW s \in Claimed', r # s, run'[r].task = run'[s].task
             PROVE  /\ Same(run'[r].was, run'[s].was) => run'[r].task \in rewound'
                    /\ ~(run'[r].claim.type = "once" /\ run'[s].was.last = r)
  BY DEF AtMostOnce, Same
<1>1. ~(run'[r].claim.type = "once" /\ run'[s].was.last = r)
  BY DEF OverOnce
<1>2. ASSUME NEW p \in Run, Takes(p), NEW q \in Claimed', q # p, run'[q].task = run'[p].task,
             Same(run'[p].was, run'[q].was)
      PROVE  run'[p].task \in rewound'
  <2> DEFINE t == run[p].task
  <2>1. /\ q \in Claimed /\ run[q].task = t /\ run'[q].was = run[q].was
        /\ t \in Task /\ Present(t) /\ Same(store[t], run[p].was)
        /\ run'[p].was = run[p].was /\ run'[p].task = t /\ rewound' = rewound
    BY <1>2 DEF Takes, OldRun, Present
  <2>2. run[q].was.rev = store[t].rev /\ store[t].rev \in Nat
    BY <1>2, <2>1 DEF Same, Typed, TasksTyped, TaskRecord
  <2>3. QED
    BY <2>1, <2>2 DEF Past
<1>3. CASE OldRun(r) /\ OldRun(s)
  BY <1>1, <1>3 DEF OldRun, AtMostOnce, Changes
<1>4. ASSUME NEW p \in Run, Takes(p), r = p \/ s = p
      PROVE  Same(run'[r].was, run'[s].was) => run'[r].task \in rewound'
  BY <1>2, <1>4 DEF Same
<1>5. QED
  BY <1>1, <1>3, <1>4 DEF Changes, Takes

(* A compare-and-set takes the text that was read. *)
LEMMA RunsWhatWasDueStep ==
    ASSUME Typed, Changes, Current, RunsWhatWasDue PROVE RunsWhatWasDue'
<1> SUFFICES ASSUME NEW r \in Claimed', run'[r].task \notin rewound'
             PROVE  SameText(run'[r].claim, run'[r].was)
  BY DEF RunsWhatWasDue, SameText
<1>1. CASE OldRun(r)
  BY <1>1 DEF OldRun, RunsWhatWasDue, SameText, Changes
<1>2. CASE Takes(r)
  <2>1. /\ run[r].task \in Task \ rewound /\ Present(run[r].task)
        /\ Same(store[run[r].task], run[r].was) /\ SameText(store[run[r].task], run'[r].claim)
        /\ run'[r].was = run[r].was
    BY <1>2 DEF Takes, Present
  <2>2. SameText(store[run[r].task], run[r].was)
    <3>1. PICK s \in Seen : s.task = run[r].task /\ s.was = run[r].was
      BY <1>2, TakesSeen DEF Claimed
    <3>2. QED
      BY <2>1, <3>1 DEF Current
  <2>3. QED
    BY <2>1, <2>2 DEF SameText
<1>3. QED
  BY <1>1, <1>2 DEF Changes, Takes

-----------------------------------------------------------------------------
(* The inductive invariant. *)
Inv ==
    /\ Typed /\ Accounted /\ Bounded
    /\ CapRespected /\ NeverSleeps /\ PolicyInPlace /\ UserWordKept
    /\ Revisions /\ AtMostOnce /\ RunsWhatWasDue

(* Nothing is stored, armed or running at the beginning. *)
LEMMA InvInit == Init => Inv
<1> SUFFICES ASSUME Init PROVE Inv
  OBVIOUS
<1>1. Typed
  <2>1. TasksTyped
    BY AbsentTask DEF Init, TasksTyped
  <2>2. RunsTyped
    <3>1. \A r \in Run : run[r] = NotRunning /\ history[r] = 0
      BY DEF Init
    <3>2. NotRunning.at = "free"
      BY DEF NotRunning
    <3>3. QED
      BY <3>1, <3>2, FreshRun DEF Init, RunsTyped
  <2>3. TimersTyped
    BY FreshTick DEF Init, TimersTyped
  <2>4. ManagerTyped
    BY DEF Init, ManagerTyped, Phases, Recovery, Nothing
  <2>5. QED
    BY <2>1, <2>2, <2>3, <2>4 DEF Typed
<1>2. Accounted
  BY DEF Init, Accounted, RunningTaken, CopiesTaken, CopiesInUse, Absent, Nothing
<1>3. Bounded
  <2>1. \A g \in Gen : armed[g] = 0 /\ Live(g) = {}
    BY DEF Init, Live, NoTick
  <2>2. QED
    BY <2>1, FS_EmptySet DEF Bounded
<1>4. CapRespected
  <2>1. \A g \in Gen : Active(g) = {}
    BY DEF Init, Active, NotRunning
  <2>2. QED
    BY <2>1, FS_EmptySet DEF CapRespected
<1>5. NeverSleeps /\ PolicyInPlace
  BY DEF Init, NeverSleeps, PolicyInPlace
<1>6. UserWordKept
  BY DEF Init, UserWordKept, Present, Absent
<1>7. Seen = {} /\ Claimed = {} /\ rec.todo = {} /\ \A t \in Task : store[t].last = NoRun
  BY DEF Init, Seen, Claimed, Taken, NotRunning, NoTick, Nothing, Absent
<1>8. Revisions
  BY <1>7 DEF Revisions, Known, OneCopy, Past, Current, CopiesAgree, LastClaimed, OverOnce
<1>9. AtMostOnce /\ RunsWhatWasDue
  BY <1>7 DEF AtMostOnce, RunsWhatWasDue
<1>10. QED
  BY <1>1, <1>2, <1>3, <1>4, <1>5, <1>6, <1>8, <1>9 DEF Inv

(* The invariant holds of every reachable state. *)
LEMMA Invariance == Spec => []Inv
<1>1. ASSUME Inv, [Next]_vars PROVE Inv'
  <2>1. Typed /\ Accounted /\ UserWordKept /\ Revisions
    BY <1>1 DEF Inv
  <2>2. RunsKept /\ Changes
    BY <1>1, <2>1, ClaimsStay, StepChanges
  <2>3. Revisions'
    BY <2>1, <2>2, KnownStep, OneCopyStep, PastStep, CurrentStep, CopiesAgreeStep,
       LastClaimedStep, OverOnceStep DEF Revisions
  <2>4. AtMostOnce' /\ RunsWhatWasDue'
    BY <1>1, <2>1, <2>2, <2>3, AtMostOnceStep, RunsWhatWasDueStep DEF Inv, Revisions
  <2>5. Typed' /\ Accounted' /\ UserWordKept'
    BY <1>1, <2>1, <2>2, TypedStep, AccountedStep, WordStep
  <2>6. Bounded' /\ CapRespected' /\ NeverSleeps' /\ PolicyInPlace'
    BY <1>1, <2>1, BoundedStep, CapStep, AwakeStep, PolicyStep DEF Inv
  <2>7. QED
    BY <2>3, <2>4, <2>5, <2>6 DEF Inv
<1>2. QED
  BY InvInit, <1>1, PTL DEF Spec

(* Every part of the state has its type, and the timers of one scheduler   *)
(* are never more than the bound.                                          *)
THEOREM TasksAreTyped == Spec => []TypeOK
<1>1. Inv => TypeOK
  <2> SUFFICES ASSUME Inv PROVE TypeOK
    OBVIOUS
  <2>1. armed \in [Gen -> 0 .. MaxChain]
    BY TicksFinite DEF Inv, Bounded, Typed, TimersTyped
  <2>2. QED
    BY <2>1 DEF Inv, Typed, TasksTyped, RunsTyped, TimersTyped, ManagerTyped, RunRecord,
       TickRecord, Recovery, TypeOK
<1>2. QED
  BY <1>1, Invariance, PTL

(* No manager has more runs active than configured (CronFire.ts), whatever *)
(* ticks of its scheduler overlap, and however many managers there are.    *)
THEOREM LimitHolds == Spec => []CapRespected
<1>1. Inv => CapRespected
  BY DEF Inv
<1>2. QED
  BY <1>1, Invariance, PTL

(* A started scheduler always has a timer to come or a tick that will arm  *)
(* one (CronScheduler.ts: schedule, poke, the finally of tick).            *)
THEOREM SchedulerStaysAwake == Spec => []NeverSleeps
<1>1. Inv => NeverSleeps
  BY DEF Inv
<1>2. QED
  BY <1>1, Invariance, PTL

(* Under a started manager every stored task has the unattended policy of  *)
(* its session, whatever a manager before it released.                     *)
THEOREM EveryTaskHasItsPolicy == Spec => []PolicyInPlace
<1>1. Inv => PolicyInPlace
  BY DEF Inv
<1>2. QED
  BY <1>1, Invariance, PTL

(* A task comes back or disappears only by the word of the user, or        *)
(* because its one time was taken, through crashes and hot reloads.        *)
THEOREM TasksFollowTheUser == Spec => []UserWordKept
<1>1. Inv => UserWordKept
  BY DEF Inv
<1>2. QED
  BY <1>1, Invariance, PTL

(* One occurrence is taken by one run and a one-time task once, whatever   *)
(* ticks, managers and restarts find it due (CronTaskStore.ts: the         *)
(* compare-and-set of claimTaskForRun), unless a recovery has set the      *)
(* revision of the task back.                                              *)
THEOREM OccurrencesRunOnce == Spec => []AtMostOnce
<1>1. Inv => AtMostOnce
  BY DEF Inv
<1>2. QED
  BY <1>1, Invariance, PTL

(* A run executes the task as the tick that found it due had read it,      *)
(* whatever the user edits and other managers do in between; the same      *)
(* exception.                                                              *)
THEOREM RunsAsDue == Spec => []RunsWhatWasDue
<1>1. Inv => RunsWhatWasDue
  BY DEF Inv
<1>2. QED
  BY <1>1, Invariance, PTL
=============================================================================
