---------------------------- MODULE ToolCallsProofs ----------------------------
(***************************************************************************)
(* Calls that must not run beside others execute alone, and every call     *)
(* that waits for the user can be answered, for any number of runs, any    *)
(* batches and any size of the pool.                                       *)
(***************************************************************************)
EXTENDS ToolCalls, FiniteSetTheorems, TLAPS

(* The run in charge is the one that is live or has yet to hand its key    *)
(* back after a timeout.                                                   *)
InCharge ==
    /\ \A r \in Run : run[r] \in {"live", "expired"} <=> owner = r
    /\ \A r \in Run : run[r] = "expired" => r \in aborted

(* Where the scheduler is tells which calls can be under way. *)
Stage(r) ==
    /\ sched[r] \in {"idle", "settled"} => Going(r) = {}
    /\ sched[r] = "filling" => Going(r) \subseteq 1 .. next[r] - 1
    /\ sched[r] = "alone" => Going(r) \subseteq {next[r]}
    /\ sched[r] \in {"alone", "barrier"} => next[r] \in Call
    /\ sched[r] \in {"filling", "barrier", "draining", "throwing"} => size[r] > 1
    /\ run[r] = "new" => sched[r] = "idle"

(* An unsafe call executes alone, or in a pool of one. *)
Alone(r) == \A i \in Call :
    call[r][i] \in Executing /\ kind[r][i] # "safe" => sched[r] = "alone" \/ MaxConcurrency = 1

(* A run that executes a batch is in charge or stopped. *)
Reachable(r) == sched[r] \notin {"idle", "settled"} /\ r \notin aborted => owner = r

(* Only a call that waits has an entry among the questions. *)
Questioned(r) == \A i \in Call : <<r, i>> \in questions => call[r][i] = "questioning"

Bounded(r) == Cardinality(Going(r)) <= MaxConcurrency

(* QuestionsReachTheirCall for one run. *)
Answerable(r) == \A i \in Call :
    /\ call[r][i] = "asking" => <<r, i>> \in asked
    /\ call[r][i] = "questioning" => <<r, i>> \in questions
    /\ call[r][i] \in Waiting => owner = r /\ r \notin aborted
    /\ call[r][i] = "refused" => r \in aborted

Local(r) == Stage(r) /\ Alone(r) /\ Reachable(r) /\ Questioned(r) /\ Bounded(r) /\ Answerable(r)

IInv == TypeOK /\ InCharge /\ \A r \in Run : Local(r)

-----------------------------------------------------------------------------
LEMMA GoingFinite ==
    \A r \in Run : IsFiniteSet(Going(r)) /\ Cardinality(Going(r)) \in Nat
<1>1. IsFiniteSet(Call)
  BY FS_Interval, ToolAssumption DEF Call
<1>2. \A r \in Run : Going(r) \in SUBSET Call
  BY DEF Going
<1>3. QED
  BY <1>1, <1>2, FS_Subset, FS_CardinalityType

(* Calls that end or go on do not fill the pool. *)
LEMMA ShrinkingBounded ==
    ASSUME NEW r \in Run, Bounded(r), Going(r)' \subseteq Going(r)
    PROVE  Bounded(r)'
<1>1. Going(r)' \in SUBSET Going(r)
  OBVIOUS
<1>2. Cardinality(Going(r)') <= Cardinality(Going(r)) /\ Cardinality(Going(r)') \in Nat
  BY <1>1, GoingFinite, FS_Subset, FS_CardinalityType
<1>3. QED
  BY <1>2, GoingFinite, ToolAssumption DEF Bounded

(* One call at most fits into any pool. *)
LEMMA SingleBounded ==
    ASSUME NEW r \in Run, NEW i, Going(r)' \subseteq {i}
    PROVE  Bounded(r)'
<1>1. Going(r)' = {} \/ Going(r)' = {i}
  OBVIOUS
<1>2. Cardinality(Going(r)') \in {0, 1}
  BY <1>1, FS_EmptySet, FS_Singleton
<1>3. QED
  BY <1>2, ToolAssumption DEF Bounded

(* A step that leaves a run alone leaves what holds of it. *)
Same(q) ==
    /\ call'[q] = call[q] /\ kind'[q] = kind[q] /\ size'[q] = size[q]
    /\ sched'[q] = sched[q] /\ next'[q] = next[q] /\ run'[q] = run[q]
    /\ q \in aborted' <=> q \in aborted
    /\ owner' = q <=> owner = q
    /\ \A i \in Call : <<q, i>> \in asked' <=> <<q, i>> \in asked
    /\ \A i \in Call : <<q, i>> \in questions' <=> <<q, i>> \in questions

LEMMA SameLocal ==
    ASSUME NEW q \in Run, Local(q), Same(q)
    PROVE  Local(q)'
<1>1. Going(q)' = Going(q)
  BY DEF Same, Going
<1>2. Bounded(q)'
  BY <1>1, ShrinkingBounded DEF Local
<1>3. Stage(q)'
  BY <1>1 DEF Same, Local, Stage
<1>4. Alone(q)' /\ Questioned(q)'
  BY DEF Same, Local, Alone, Questioned
<1>5. Reachable(q)' /\ Answerable(q)'
  BY DEF Same, Local, Reachable, Answerable
<1>6. QED
  BY <1>2, <1>3, <1>4, <1>5 DEF Local

LEMMA OneRun ==
    ASSUME IInv, NEW r \in Run, TypeOK', InCharge', Local(r)', \A q \in Run \ {r} : Same(q)
    PROVE  IInv'
BY SameLocal DEF IInv

(* A call under way that moves on starts no other. *)
LEMMA MovesOn ==
    ASSUME IInv, NEW r \in Run, NEW i \in Going(r), NEW to \in Stages, CallGoes(r, i, to),
           UNCHANGED <<gateway, size, sched, next>>
    PROVE  /\ call' \in [Run -> [Call -> Stages]]
           /\ call'[r][i] = to
           /\ \A j \in Call : j # i => call'[r][j] = call[r][j]
           /\ \A q \in Run \ {r} : call'[q] = call[q]
           /\ Stage(r)' /\ Bounded(r)' /\ Reachable(r)' /\ InCharge'
<1>1. i \in Call
  BY DEF Going
<1>2. /\ call' \in [Run -> [Call -> Stages]]
      /\ call'[r][i] = to
      /\ \A j \in Call : j # i => call'[r][j] = call[r][j]
      /\ \A q \in Run \ {r} : call'[q] = call[q]
  BY <1>1 DEF IInv, TypeOK, CallGoes
<1>3. Going(r)' \subseteq Going(r)
  BY <1>1, <1>2 DEF Going
<1>4. Bounded(r)'
  BY <1>3, ShrinkingBounded DEF IInv, Local
<1>5. Stage(r)'
  BY <1>3 DEF IInv, Local, Stage, gateway
<1>6. Reachable(r)' /\ InCharge'
  BY DEF IInv, Local, Reachable, InCharge, gateway
<1>7. QED
  BY <1>2, <1>4, <1>5, <1>6

-----------------------------------------------------------------------------
LEMMA InitInv == Init => IInv
<1> SUFFICES ASSUME Init PROVE IInv
  OBVIOUS
<1>1. TypeOK
  BY ToolAssumption DEF Init, TypeOK, NoKinds, NoCalls, Call, Kinds, Stages
<1>2. \A r \in Run : Going(r) = {}
  BY DEF Init, Going, NoCalls
<1>3. ASSUME NEW r \in Run PROVE Bounded(r)
  <2>1. Cardinality(Going(r)) = 0
    BY <1>2, FS_EmptySet
  <2>2. QED
    BY <2>1, ToolAssumption DEF Bounded
<1>4. InCharge
  BY ToolAssumption DEF Init, InCharge
<1>5. \A r \in Run : Stage(r) /\ Alone(r) /\ Reachable(r) /\ Questioned(r) /\ Answerable(r)
  BY <1>2 DEF Init, Stage, Alone, Reachable, Questioned, Answerable, NoCalls, Executing, Waiting
<1>6. QED
  BY <1>1, <1>3, <1>4, <1>5 DEF IInv, Local

-----------------------------------------------------------------------------
(* The scheduler. *)
(* A call that enters waits for nobody and does not execute. *)
LEMMA EnterCalls ==
    ASSUME IInv, NEW r \in Run, NEW from, NEW to, Enter(r, from, to)
    PROVE  /\ call' \in [Run -> [Call -> Stages]]
           /\ \A q \in Run \ {r} : call'[q] = call[q]
           /\ \A i \in Call : call'[r][i] = IF i \in from .. to THEN Entered(r) ELSE call[r][i]
           /\ Entered(r) \in {"preparing", "ending"}
<1>1. Entered(r) \in {"preparing", "ending"} /\ Entered(r) \in Stages
  BY DEF Entered, Stages
<1>2. \A i \in Call : call[r][i] \in Stages
  BY DEF IInv, TypeOK
<1> DEFINE new == [i \in Call |-> IF i \in from .. to THEN Entered(r) ELSE call[r][i]]
<1>3. new \in [Call -> Stages]
  BY <1>1, <1>2
<1>4. call' = [call EXCEPT ![r] = new]
  BY DEF Enter
<1>5. call'[r] = new /\ \A q \in Run \ {r} : call'[q] = call[q]
  BY <1>4 DEF IInv, TypeOK
<1>6. call' \in [Run -> [Call -> Stages]]
  BY <1>3, <1>4 DEF IInv, TypeOK
<1>7. \A i \in Call : call'[r][i] = IF i \in from .. to THEN Entered(r) ELSE call[r][i]
  BY <1>5
<1>8. QED
  BY <1>1, <1>5, <1>6, <1>7

LEMMA DispatchInv ==
    ASSUME IInv, NEW r \in Run, NEW b \in Batches, Dispatch(r, b[1], b[2])
    PROVE  IInv'
<1> DEFINE n == b[1]
           k == b[2]
<1>1. n \in Nat /\ n >= 1 /\ n <= MaxCall /\ k \in [Call -> Kinds]
  BY ToolAssumption DEF Call, Kinds
<1>2. 1 \in Call /\ 1 \in 1 .. MaxCall + 1 /\ n \in 0 .. MaxCall
  BY <1>1, ToolAssumption DEF Call
<1>3. \A i \in Call : call[r][i] \in {"none", "done"}
  BY DEF IInv, Local, Stage, Going, Dispatch
<1>4. /\ call' \in [Run -> [Call -> Stages]]
      /\ \A q \in Run \ {r} : call'[q] = call[q]
      /\ \A i \in Call : call'[r][i] \in {"none", "done", "preparing", "ending"}
      /\ \A i \in Call : i # 1 \/ n # 1 => call'[r][i] = call[r][i]
  <2>1. CASE n = 1
    <3>1. Enter(r, 1, 1)
      BY <2>1 DEF Dispatch
    <3>2. \A i \in Call : i \in 1 .. 1 <=> i = 1
      BY ToolAssumption DEF Call
    <3>3. QED
      BY <1>2, <1>3, <2>1, <3>1, <3>2, EnterCalls
  <2>2. CASE n # 1
    BY <1>3, <2>2 DEF Dispatch, IInv, TypeOK
  <2>3. QED
    BY <2>1, <2>2
<1>5. TypeOK'
  BY <1>1, <1>2, <1>4 DEF IInv, TypeOK, Dispatch, gateway, buses
<1>6. InCharge'
  BY DEF IInv, InCharge, Dispatch, gateway
<1>7. Going(r)' \subseteq (IF n = 1 THEN {1} ELSE {})
  BY <1>3, <1>4 DEF Going
<1>8. Bounded(r)'
  BY <1>7, SingleBounded
<1>9. Stage(r)'
  BY <1>1, <1>2, <1>7 DEF IInv, TypeOK, Dispatch, gateway, Stage
<1>10. Reachable(r)'
  BY DEF IInv, InCharge, Dispatch, gateway, Reachable
<1>11. Alone(r)' /\ Answerable(r)'
  BY <1>4 DEF Alone, Answerable, Executing, Waiting
<1>12. Questioned(r)'
  BY <1>3 DEF IInv, Local, Questioned, Dispatch, buses
<1>13. \A q \in Run \ {r} : Same(q)
  BY <1>4 DEF IInv, TypeOK, Dispatch, gateway, buses, Same
<1>14. QED
  BY <1>5, <1>6, <1>8, <1>9, <1>10, <1>11, <1>12, <1>13, OneRun DEF Local

(* The pool takes what fits: the loop stops at the first call for which    *)
(* there is no room.                                                       *)
LEMMA FillBounded ==
    ASSUME IInv, NEW r \in Run, Room(r), NEW k \in Nat, k >= next[r],
           \A j \in next[r] .. k - 1 : ~StopsAt(r, j), Enter(r, next[r], k - 1)
    PROVE  Bounded(r)'
<1> DEFINE g == Cardinality(Going(r))
           new == next[r] .. k - 1
<1>1. next[r] \in Nat /\ MaxConcurrency \in Nat /\ g \in Nat /\ g < MaxConcurrency
  BY GoingFinite, ToolAssumption DEF IInv, TypeOK, Room
<1>2. g + (k - next[r]) <= MaxConcurrency
  <2> SUFFICES ASSUME g + (k - next[r]) > MaxConcurrency PROVE FALSE
    BY <1>1
  <2> DEFINE j == next[r] + (MaxConcurrency - g)
  <2>1. j \in new /\ g + (j - next[r]) = MaxConcurrency
    BY <1>1
  <2>2. StopsAt(r, j)
    BY <2>1 DEF StopsAt
  <2>3. QED
    BY <2>1, <2>2
<1>3. IsFiniteSet(new) /\ Cardinality(new) = k - next[r]
  <2>1. next[r] \in Int /\ k - 1 \in Int
    BY <1>1
  <2>2. /\ IsFiniteSet(new)
        /\ Cardinality(new) = IF next[r] > k - 1 THEN 0 ELSE (k - 1) - next[r] + 1
    BY <2>1, FS_Interval
  <2>3. QED
    BY <1>1, <2>2
<1>4. Going(r)' \in SUBSET (Going(r) \union new)
  BY EnterCalls DEF Going
<1>5. /\ IsFiniteSet(Going(r) \union new)
      /\ Cardinality(Going(r) \union new) <= g + (k - next[r])
  <2>1. IsFiniteSet(Going(r)) /\ IsFiniteSet(Going(r) \cap new)
    BY GoingFinite, FS_Intersection
  <2>2. Cardinality(Going(r) \cap new) \in Nat
    BY <2>1, FS_CardinalityType
  <2>3. /\ IsFiniteSet(Going(r) \union new)
        /\ Cardinality(Going(r) \union new) = g + Cardinality(new) - Cardinality(Going(r) \cap new)
    BY <1>3, <2>1, FS_Union
  <2>4. QED
    BY <1>1, <1>3, <2>2, <2>3
<1>6. Cardinality(Going(r)') <= Cardinality(Going(r) \union new)
  BY <1>4, <1>5, FS_Subset
<1>7. Cardinality(Going(r)') \in Nat /\ Cardinality(Going(r) \union new) \in Nat
  BY <1>4, <1>5, FS_Subset, FS_CardinalityType
<1>8. QED
  BY <1>1, <1>2, <1>5, <1>6, <1>7 DEF Bounded

(* The loop stops because a call has thrown: nothing is started. *)
LEMMA ThrowsInv ==
    ASSUME IInv, NEW r \in Run, sched[r] = "filling" \/ Going(r) = {}, sched[r] \notin {"idle", "settled"}, size[r] > 1,
           At(r, "throwing", next[r]), UNCHANGED call
    PROVE  IInv'
<1>1. TypeOK' /\ InCharge'
  BY DEF IInv, TypeOK, InCharge, At, gateway, buses
<1>2. Going(r)' = Going(r)
  BY DEF Going
<1>3. Bounded(r)' /\ Reachable(r)' /\ Questioned(r)' /\ Answerable(r)'
  BY <1>2, ShrinkingBounded
  DEF IInv, TypeOK, Local, At, gateway, buses, Reachable, Questioned, Answerable
<1>4. Stage(r)'
  BY DEF IInv, TypeOK, Local, At, gateway, Stage
<1>5. Alone(r)'
  BY DEF IInv, TypeOK, Local, At, Alone, Going, Executing, Waiting
<1>6. \A q \in Run \ {r} : Same(q)
  BY DEF IInv, TypeOK, At, gateway, buses, Same
<1>7. QED
  BY <1>1, <1>3, <1>4, <1>5, <1>6, OneRun DEF Local

LEMMA FillInv ==
    ASSUME IInv, NEW r \in Run, Fill(r)
    PROVE  IInv'
<1>1. sched[r] = "filling" /\ size[r] > 1 /\ next[r] \in Nat /\ size[r] \in 0 .. MaxCall
  BY DEF IInv, TypeOK, Local, Stage, Fill
<1>2. CASE r \in failed
  BY <1>1, <1>2, ThrowsInv DEF Fill
<1>3. CASE r \notin failed
  <2> PICK k \in next[r] .. size[r] + 1 :
        /\ StopsAt(r, k) /\ \A j \in next[r] .. k - 1 : ~StopsAt(r, j)
        /\ Enter(r, next[r], k - 1)
        /\ At(r, CASE k = size[r] + 1 -> "draining"
                   [] Cardinality(Going(r)) + (k - next[r]) = MaxConcurrency -> "filling"
                   [] r \notin aborted /\ kind[r][k] = "broken" -> "throwing"
                   [] OTHER -> "barrier", k)
    BY <1>3 DEF Fill
  <2>1. k \in Nat /\ k >= next[r] /\ k \in 1 .. MaxCall + 1
    BY <1>1, ToolAssumption DEF IInv, TypeOK
  <2>2. /\ sched'[r] \in {"draining", "filling", "throwing", "barrier"}
        /\ sched'[r] = "barrier" => k \in Call
    <3>1. k # size[r] + 1 /\ Cardinality(Going(r)) + (k - next[r]) # MaxConcurrency => k \in Call
      BY <1>1, ToolAssumption DEF StopsAt, MustBeAlone, Calls, Call
    <3>2. QED
      BY <3>1 DEF IInv, TypeOK, At
  <2>3. /\ \A q \in Run \ {r} : call'[q] = call[q] /\ sched'[q] = sched[q] /\ next'[q] = next[q]
        /\ next'[r] = k
        /\ \A i \in Call : IF i \in next[r] .. k - 1 THEN call'[r][i] \in {"preparing", "ending"}
                                                   ELSE call'[r][i] = call[r][i]
    <3>1. \A q \in Run \ {r} : sched'[q] = sched[q] /\ next'[q] = next[q]
      BY DEF IInv, TypeOK, At
    <3>2. next'[r] = k
      BY DEF IInv, TypeOK, At
    <3>3. QED
      BY <3>1, <3>2, EnterCalls
  <2>4. TypeOK' /\ InCharge'
    <3>1. call' \in [Run -> [Call -> Stages]]
      BY EnterCalls
    <3>2. /\ next' \in [Run -> 1 .. MaxCall + 1]
          /\ sched' = [sched EXCEPT ![r] = sched'[r]]
      BY <2>1 DEF IInv, TypeOK, At
    <3>3. QED
      BY <2>2, <3>1, <3>2 DEF IInv, TypeOK, InCharge, At, gateway, buses
  <2>5. Bounded(r)'
    BY <2>1, FillBounded DEF Fill
  <2>6. Stage(r)'
    <3>1. \A i \in Going(r) : i \in 1 .. next[r] - 1
      BY <1>1 DEF IInv, Local, Stage
    <3>2. Going(r)' \subseteq 1 .. k - 1
      BY <1>1, <2>1, <2>3, <3>1, ToolAssumption DEF Going, Call
    <3>3. QED
      BY <1>1, <2>2, <2>3, <3>2 DEF IInv, InCharge, Local, Stage, At, gateway
  <2>7. Reachable(r)' /\ Questioned(r)'
    <3>1. \A i \in next[r] .. k - 1 : i \notin Going(r)
      BY <1>1 DEF IInv, Local, Stage
    <3>2. \A i \in next[r] .. k - 1 : i \in Call => <<r, i>> \notin questions
      BY <3>1 DEF IInv, Local, Questioned, Going
    <3>3. QED
      BY <1>1, <2>3, <3>2 DEF IInv, Local, Reachable, Questioned, At, gateway, buses
  <2>8. Alone(r)' /\ Answerable(r)'
    BY <1>1, <2>3 DEF IInv, Local, Alone, Answerable, Executing, Waiting, At, gateway, buses
  <2>9. \A q \in Run \ {r} : Same(q)
    BY <2>3 DEF Same, At, gateway, buses
  <2>10. QED
    BY <2>4, <2>5, <2>6, <2>7, <2>8, <2>9, OneRun DEF Local
<1>4. QED
  BY <1>2, <1>3

LEMMA ExclusiveInv ==
    ASSUME IInv, NEW r \in Run, Exclusive(r)
    PROVE  IInv'
<1>1. sched[r] = "barrier" /\ size[r] > 1 /\ Going(r) = {} /\ next[r] \in Call
  BY DEF IInv, Local, Stage, Exclusive
<1>2. CASE r \in failed
  BY <1>1, <1>2, ThrowsInv DEF Exclusive
<1>3. CASE r \notin failed
  <2>1. Enter(r, next[r], next[r]) /\ At(r, "alone", next[r])
    BY <1>3 DEF Exclusive
  <2>2. \A i \in Call : i \in next[r] .. next[r] <=> i = next[r]
    BY <1>1, ToolAssumption DEF Call
  <2>3. /\ \A q \in Run \ {r} : call'[q] = call[q]
        /\ \A i \in Call : call'[r][i] \in {"none", "done", "preparing", "ending"}
        /\ \A i \in Call : i # next[r] => call'[r][i] \in {"none", "done"}
    BY <1>1, <2>1, <2>2, EnterCalls DEF Going
  <2>4. TypeOK' /\ InCharge'
    BY <2>1, EnterCalls DEF IInv, TypeOK, InCharge, At, gateway, buses
  <2>5. Going(r)' \subseteq {next[r]}
    BY <2>3 DEF Going
  <2>6. Bounded(r)'
    BY <2>5, SingleBounded
  <2>7. Stage(r)'
    BY <1>1, <2>1, <2>5 DEF IInv, TypeOK, Local, Stage, At, gateway
  <2>8. Reachable(r)'
    BY <1>1, <2>1 DEF IInv, Local, Reachable, At, gateway
  <2>9. Alone(r)' /\ Answerable(r)'
    BY <2>3 DEF Alone, Answerable, Executing, Waiting
  <2>10. Questioned(r)'
    BY <1>1, <2>1 DEF IInv, Local, Questioned, Going, At, buses
  <2>11. \A q \in Run \ {r} : Same(q)
    BY <2>1, <2>3 DEF IInv, TypeOK, Same, At, gateway, buses
  <2>12. QED
    BY <2>4, <2>6, <2>7, <2>8, <2>9, <2>10, <2>11, OneRun DEF Local
<1>4. QED
  BY <1>2, <1>3

LEMMA ExclusiveEndsInv ==
    ASSUME IInv, NEW r \in Run, ExclusiveEnds(r)
    PROVE  IInv'
<1>1. sched[r] = "alone" /\ size[r] > 1 /\ Going(r) = {} /\ next[r] \in Call
  BY DEF IInv, Local, Stage, ExclusiveEnds
<1>2. CASE r \in failed
  BY <1>1, <1>2, ThrowsInv DEF ExclusiveEnds
<1>3. CASE r \notin failed
  <2>1. At(r, "filling", next[r] + 1) /\ UNCHANGED call
    BY <1>3 DEF ExclusiveEnds
  <2>2. next[r] + 1 \in 1 .. MaxCall + 1
    BY <1>1, ToolAssumption DEF Call
  <2>3. TypeOK' /\ InCharge'
    BY <2>1, <2>2 DEF IInv, TypeOK, InCharge, At, gateway, buses
  <2>4. Going(r)' = Going(r)
    BY <2>1 DEF Going
  <2>5. Bounded(r)' /\ Reachable(r)' /\ Questioned(r)' /\ Answerable(r)'
    BY <1>1, <2>1, <2>4, ShrinkingBounded
    DEF IInv, Local, At, gateway, buses, Reachable, Questioned, Answerable
  <2>6. Stage(r)'
    BY <1>1, <2>1, <2>4 DEF IInv, TypeOK, Local, Stage, At, gateway
  <2>7. Alone(r)'
    BY <1>1, <2>1 DEF Alone, Going, Executing, Waiting
  <2>8. \A q \in Run \ {r} : Same(q)
    BY <2>1 DEF IInv, TypeOK, Same, At, gateway, buses
  <2>9. QED
    BY <2>3, <2>5, <2>6, <2>7, <2>8, OneRun DEF Local
<1>4. QED
  BY <1>2, <1>3

LEMMA SettleInv ==
    ASSUME IInv, NEW r \in Run, Settle(r)
    PROVE  IInv'
<1>1. sched[r] \notin {"idle", "settled"} /\ Going(r) = {}
  BY DEF Settle
<1>2. call'[r] = NoCalls /\ \A q \in Run \ {r} : call'[q] = call[q]
  BY DEF IInv, TypeOK, Settle
<1>3. TypeOK' /\ InCharge'
  <2>1. NoCalls \in [Call -> Stages] /\ NoKinds \in [Call -> Kinds]
    BY DEF NoCalls, NoKinds, Stages, Kinds
  <2>2. 0 \in 0 .. MaxCall /\ 1 \in 1 .. MaxCall + 1
    BY ToolAssumption
  <2>3. QED
    BY <2>1, <2>2 DEF IInv, TypeOK, InCharge, Settle, Over, gateway, buses
<1>4. Going(r)' = {}
  BY <1>2 DEF Going, NoCalls
<1>5. Bounded(r)'
  BY <1>4, SingleBounded
<1>6. Stage(r)' /\ Reachable(r)'
  BY <1>1, <1>4 DEF IInv, TypeOK, Local, Stage, Reachable, Settle, Over, gateway
<1>7. Alone(r)' /\ Answerable(r)'
  BY <1>2 DEF NoCalls, Alone, Answerable, Executing, Waiting
<1>8. Questioned(r)'
  BY <1>1 DEF IInv, Local, Questioned, Going, Settle, Over, buses
<1>9. \A q \in Run \ {r} : Same(q)
  BY <1>2 DEF IInv, TypeOK, Same, Settle, Over, gateway, buses
<1>10. QED
  BY <1>3, <1>5, <1>6, <1>7, <1>8, <1>9, OneRun DEF Local

-----------------------------------------------------------------------------
(* One call. *)
LEMMA AskInv ==
    ASSUME IInv, NEW r \in Run, NEW i \in Call, Ask(r, i)
    PROVE  IInv'
<1> DEFINE to == IF owner = NoRun THEN "ending" ELSE IF r \in aborted THEN "refused" ELSE "asking"
<1>1. i \in Going(r) /\ to \in Stages /\ CallGoes(r, i, to)
  BY DEF Ask, Going, Stages, Waiting
<1>2. UNCHANGED <<gateway, size, sched, next>>
  BY DEF Ask, batch
<1>3. /\ call' \in [Run -> [Call -> Stages]] /\ call'[r][i] = to
      /\ \A j \in Call : j # i => call'[r][j] = call[r][j]
      /\ \A q \in Run \ {r} : call'[q] = call[q]
      /\ Stage(r)' /\ Bounded(r)' /\ Reachable(r)' /\ InCharge'
  BY <1>1, <1>2, MovesOn
<1>4. asked' \in {asked, asked \union {<<r, i>>}} /\ asked \subseteq asked'
  BY DEF Ask
<1>5. TypeOK'
  BY <1>3, <1>4 DEF IInv, TypeOK, Ask, gateway, batch
<1>6. Alone(r)'
  BY <1>3 DEF IInv, Local, Alone, Executing, Ask, batch
<1>7. Questioned(r)'
  BY <1>3 DEF IInv, Local, Questioned, Ask
<1>8. Answerable(r)'
  <2>1. r \notin aborted => owner = r
    BY <1>1 DEF IInv, Local, Stage, Reachable
  <2>2. to = "asking" => <<r, i>> \in asked'
    BY DEF Ask
  <2>3. ASSUME NEW j \in Call PROVE
          (/\ call[r][j] = "asking" => <<r, j>> \in asked
           /\ call[r][j] = "questioning" => <<r, j>> \in questions
           /\ call[r][j] \in Waiting => owner = r /\ r \notin aborted
           /\ call[r][j] = "refused" => r \in aborted)'
    <3>1. CASE j = i
      BY <1>3, <2>1, <2>2, <3>1 DEF Waiting, Ask, gateway
    <3>2. CASE j # i
      BY <1>3, <1>4, <3>2 DEF IInv, Local, Answerable, Ask, gateway
    <3>3. QED
      BY <3>1, <3>2
  <2>4. QED
    BY <2>3 DEF Answerable
<1>9. \A q \in Run \ {r} : Same(q)
  BY <1>3, <1>4 DEF Same, Ask, gateway, batch
<1>10. QED
  BY <1>3, <1>5, <1>6, <1>7, <1>8, <1>9, OneRun DEF Local

LEMMA DecideInv ==
    ASSUME IInv, NEW r \in Run, NEW i \in Call, Decide(r, i)
    PROVE  IInv'
<1>1. /\ call' \in [Run -> [Call -> Stages]]
      /\ \A q \in Run \ {r} : call'[q] = call[q]
      /\ \A j \in Call : j # i => call'[r][j] = call[r][j]
      /\ \/ call'[r][i] \in {"approved", "ending"}
         \/ call'[r][i] = call[r][i] /\ call[r][i] # "asking"
      /\ call[r][i] # "questioning" => call'[r][i] # "questioning"
      /\ call[r][i] = "questioning" => call'[r][i] = "questioning"
      /\ Stage(r)' /\ Bounded(r)' /\ Reachable(r)' /\ InCharge'
  <2>1. CASE call[r][i] = "asking"
    <3>1. PICK to \in {"approved", "ending"} : CallGoes(r, i, to)
      BY <2>1 DEF Decide
    <3>2. i \in Going(r) /\ to \in Stages
      BY <2>1 DEF Going, Stages
    <3>3. UNCHANGED <<gateway, size, sched, next>>
      BY DEF Decide, batch
    <3>4. QED
      BY <2>1, <3>1, <3>2, <3>3, MovesOn
  <2>2. CASE call[r][i] # "asking"
    <3>1. UNCHANGED <<call, gateway, batch>>
      BY <2>2 DEF Decide
    <3>2. Going(r)' = Going(r)
      BY <3>1 DEF Going
    <3>3. Bounded(r)'
      BY <3>2, ShrinkingBounded DEF IInv, Local
    <3>4. Stage(r)' /\ Reachable(r)' /\ InCharge'
      BY <3>1, <3>2 DEF IInv, Local, Stage, Reachable, InCharge, gateway, batch
    <3>5. QED
      BY <2>2, <3>1, <3>3, <3>4 DEF IInv, TypeOK
  <2>3. QED
    BY <2>1, <2>2
<1>2. TypeOK'
  BY <1>1 DEF IInv, TypeOK, Decide, gateway, batch
<1>3. Alone(r)'
  BY <1>1 DEF IInv, Local, Alone, Executing, Decide, batch
<1>4. Questioned(r)'
  BY <1>1 DEF IInv, Local, Questioned, Decide
<1>5. Answerable(r)'
  BY <1>1 DEF IInv, Local, Answerable, Waiting, Decide, gateway
<1>6. \A q \in Run \ {r} : Same(q)
  BY <1>1 DEF Same, Decide, gateway, batch
<1>7. QED
  BY <1>1, <1>2, <1>3, <1>4, <1>5, <1>6, OneRun DEF Local

(* What hooks and permissions make of a call is looked at again. *)
LEMMA ExecuteInv ==
    ASSUME IInv, NEW r \in Run, NEW i \in Call, Execute(r, i)
    PROVE  IInv'
<1> PICK k \in {kind[r][i], "exclusive"} :
      /\ kind' = [kind EXCEPT ![r][i] = k]
      /\ CallGoes(r, i, IF r \in aborted \/ (Pooled(r) /\ k # "safe") THEN "ending" ELSE "executing")
  BY DEF Execute
<1> DEFINE to == IF r \in aborted \/ (Pooled(r) /\ k # "safe") THEN "ending" ELSE "executing"
<1>1. i \in Going(r) /\ to \in Stages
  BY DEF Execute, Going, Stages, Executing
<1>2. UNCHANGED <<gateway, size, sched, next>>
  BY DEF Execute
<1>3. /\ call' \in [Run -> [Call -> Stages]] /\ call'[r][i] = to
      /\ \A j \in Call : j # i => call'[r][j] = call[r][j]
      /\ \A q \in Run \ {r} : call'[q] = call[q]
      /\ Stage(r)' /\ Bounded(r)' /\ Reachable(r)' /\ InCharge'
  BY <1>1, <1>2, MovesOn
<1>4. /\ kind'[r][i] = k
      /\ \A j \in Call : j # i => kind'[r][j] = kind[r][j]
      /\ \A q \in Run \ {r} : kind'[q] = kind[q]
  BY DEF IInv, TypeOK
<1>5. TypeOK'
  <2>1. k \in Kinds
    BY DEF IInv, TypeOK, Kinds
  <2>2. kind' \in [Run -> [Call -> Kinds]]
    BY <2>1 DEF IInv, TypeOK
  <2>3. QED
    BY <1>3, <2>2 DEF IInv, TypeOK, Execute, gateway, buses
<1>6. Alone(r)'
  <2>1. Pooled(r) \/ sched[r] = "alone" \/ MaxConcurrency = 1
    <3>1. size[r] > 1 \/ sched[r] = "alone"
      BY <1>1 DEF IInv, TypeOK, Local, Stage
    <3>2. QED
      BY <3>1, ToolAssumption DEF Pooled
  <2>2. to = "executing" /\ k # "safe" => sched[r] = "alone" \/ MaxConcurrency = 1
    BY <2>1
  <2>3. to \in Executing => to = "executing"
    BY DEF Executing
  <2>4. QED
    BY <1>2, <1>3, <1>4, <2>2, <2>3 DEF IInv, Local, Alone
<1>7. Questioned(r)'
  BY <1>3 DEF IInv, Local, Questioned, Answerable, Waiting, Execute, buses
<1>8. Answerable(r)'
  BY <1>3 DEF IInv, Local, Answerable, Waiting, Execute, gateway, buses
<1>9. \A q \in Run \ {r} : Same(q)
  BY <1>3, <1>4 DEF Same, Execute, gateway, buses
<1>10. QED
  BY <1>3, <1>5, <1>6, <1>7, <1>8, <1>9, OneRun DEF Local

LEMMA QuestionInv ==
    ASSUME IInv, NEW r \in Run, NEW i \in Call, Question(r, i)
    PROVE  IInv'
<1> DEFINE to == IF r \in aborted THEN "refused" ELSE "questioning"
<1>1. i \in Going(r) /\ to \in Stages /\ CallGoes(r, i, to)
  BY DEF Question, Going, Stages, Waiting
<1>2. UNCHANGED <<gateway, size, sched, next, kind>>
  BY DEF Question, batch
<1>3. /\ call' \in [Run -> [Call -> Stages]] /\ call'[r][i] = to
      /\ \A j \in Call : j # i => call'[r][j] = call[r][j]
      /\ \A q \in Run \ {r} : call'[q] = call[q]
      /\ Stage(r)' /\ Bounded(r)' /\ Reachable(r)' /\ InCharge'
  BY <1>1, <1>2, MovesOn
<1>4. questions' = IF r \in aborted THEN questions ELSE questions \union {<<r, i>>}
  BY DEF Question
<1>5. TypeOK'
  BY <1>3, <1>4 DEF IInv, TypeOK, Question, gateway, batch
<1>6. Alone(r)'
  <2>1. call[r][i] \in Executing
    BY DEF Question, Executing
  <2>2. QED
    BY <1>2, <1>3, <2>1 DEF IInv, Local, Alone
<1>7. Questioned(r)'
  BY <1>3, <1>4 DEF IInv, Local, Questioned, Question
<1>8. Answerable(r)'
  <2>1. r \notin aborted => owner = r
    BY <1>1 DEF IInv, Local, Stage, Reachable
  <2>2. QED
    BY <1>3, <1>4, <2>1 DEF IInv, Local, Answerable, Waiting, Question, gateway
<1>9. \A q \in Run \ {r} : Same(q)
  BY <1>3, <1>4 DEF Same, Question, gateway, batch
<1>10. QED
  BY <1>3, <1>5, <1>6, <1>7, <1>8, <1>9, OneRun DEF Local

LEMMA RespondInv ==
    ASSUME IInv, NEW r \in Run, NEW i \in Call, Respond(r, i)
    PROVE  IInv'
<1> PICK to \in {"executing", "ending"} : CallGoes(r, i, to)
  BY DEF Respond
<1>1. call[r][i] = "questioning"
  BY DEF IInv, Local, Questioned, Respond
<1>2. i \in Going(r) /\ to \in Stages
  BY <1>1 DEF Going, Stages, Executing
<1>3. UNCHANGED <<gateway, size, sched, next, kind>>
  BY DEF Respond, batch
<1>4. /\ call' \in [Run -> [Call -> Stages]] /\ call'[r][i] = to
      /\ \A j \in Call : j # i => call'[r][j] = call[r][j]
      /\ \A q \in Run \ {r} : call'[q] = call[q]
      /\ Stage(r)' /\ Bounded(r)' /\ Reachable(r)' /\ InCharge'
  BY <1>2, <1>3, MovesOn
<1>5. TypeOK'
  BY <1>4 DEF IInv, TypeOK, Respond, gateway, batch
<1>6. Alone(r)'
  <2>1. call[r][i] \in Executing
    BY <1>1 DEF Executing
  <2>2. QED
    BY <1>3, <1>4, <2>1 DEF IInv, Local, Alone
<1>7. Questioned(r)' /\ Answerable(r)'
  BY <1>4 DEF IInv, Local, Questioned, Answerable, Waiting, Respond, gateway
<1>8. \A q \in Run \ {r} : Same(q)
  BY <1>4 DEF Same, Respond, gateway, batch
<1>9. QED
  BY <1>4, <1>5, <1>6, <1>7, <1>8, OneRun DEF Local

LEMMA ResultInv ==
    ASSUME IInv, NEW r \in Run, NEW i \in Call, Result(r, i)
    PROVE  IInv'
<1>1. i \in Going(r) /\ "done" \in Stages /\ CallGoes(r, i, "done")
  BY DEF Result, Going, Stages
<1>2. UNCHANGED <<gateway, size, sched, next, kind, buses>>
  BY DEF Result
<1>3. /\ call' \in [Run -> [Call -> Stages]] /\ call'[r][i] = "done"
      /\ \A j \in Call : j # i => call'[r][j] = call[r][j]
      /\ \A q \in Run \ {r} : call'[q] = call[q]
      /\ Stage(r)' /\ Bounded(r)' /\ Reachable(r)' /\ InCharge'
  BY <1>1, <1>2, MovesOn
<1>4. TypeOK'
  BY <1>2, <1>3 DEF IInv, TypeOK, Result, gateway, buses
<1>5. Alone(r)'
  BY <1>2, <1>3 DEF IInv, Local, Alone, Executing, Waiting
<1>6. Questioned(r)'
  BY <1>2, <1>3 DEF IInv, Local, Questioned, Result, buses
<1>7. Answerable(r)'
  BY <1>2, <1>3 DEF IInv, Local, Answerable, Waiting, gateway, buses
<1>8. \A q \in Run \ {r} : Same(q)
  BY <1>2, <1>3 DEF Same, gateway, buses
<1>9. QED
  BY <1>3, <1>4, <1>5, <1>6, <1>7, <1>8, OneRun DEF Local

-----------------------------------------------------------------------------
(* The runs. *)
(* After a rejection no call waits, no run has a question, and only calls  *)
(* of stopped runs were refused.                                           *)
LEMMA RejectLocal ==
    ASSUME IInv, NEW stopped, Reject(stopped), UNCHANGED batch, aborted \subseteq aborted',
           \A r \in Run, i \in Call : call[r][i] \in Waiting => r \in aborted',
           NEW q \in Run, run'[q] # "new" \/ run'[q] = run[q],
           sched[q] \notin {"idle", "settled"} /\ q \notin aborted' => owner' = q
    PROVE  Local(q)' /\ call' \in [Run -> [Call -> Stages]]
<1>1. \A i \in Call : /\ call[q][i] \in Waiting => call'[q][i] = "refused"
                      /\ call[q][i] \notin Waiting => call'[q][i] = call[q][i]
  <2>1. \A i \in Call : call[q][i] \in Waiting => <<q, i>> \in InBuses
    BY DEF IInv, Local, Answerable, Waiting, InBuses
  <2>2. QED
    BY <2>1 DEF Reject
<1>2. call' \in [Run -> [Call -> Stages]]
  BY DEF IInv, TypeOK, Reject, Stages
<1>3. Going(q)' = Going(q)
  BY <1>1 DEF Going, Waiting
<1>4. Bounded(q)'
  BY <1>3, ShrinkingBounded DEF IInv, Local
<1>5. Stage(q)' /\ Reachable(q)'
  BY <1>3 DEF IInv, Local, Stage, Reachable, batch
<1>6. Alone(q)'
  BY <1>1 DEF IInv, Local, Alone, Executing, Waiting, batch
<1>7. Questioned(q)'
  BY DEF Questioned, Reject
<1>8. Answerable(q)'
  BY <1>1 DEF IInv, Local, Answerable, Waiting
<1>9. QED
  BY <1>2, <1>4, <1>5, <1>6, <1>7, <1>8 DEF Local

LEMMA SubmitInv ==
    ASSUME IInv, NEW r \in Run, Submit(r)
    PROVE  IInv'
<1>1. TypeOK' /\ InCharge'
  BY ToolAssumption DEF IInv, TypeOK, InCharge, Submit, batch, buses
<1>2. Going(r)' = Going(r)
  BY DEF Going, Submit
<1>3. Bounded(r)'
  BY <1>2, ShrinkingBounded DEF IInv, Local
<1>4. Stage(r)' /\ Reachable(r)'
  BY <1>2 DEF IInv, TypeOK, Local, Stage, Reachable, Submit, batch
<1>5. Alone(r)' /\ Questioned(r)'
  BY DEF IInv, Local, Alone, Questioned, Submit, batch, buses
<1>6. Answerable(r)'
  BY DEF IInv, Local, Answerable, Submit, buses
<1>7. \A q \in Run \ {r} : Same(q)
  BY ToolAssumption DEF IInv, TypeOK, Same, Submit, batch, buses
<1>8. QED
  BY <1>1, <1>3, <1>4, <1>5, <1>6, <1>7, OneRun DEF Local

LEMMA CancelInv ==
    ASSUME IInv, NEW r \in Run, Cancel(r)
    PROVE  IInv'
<1>1. Reject({r}) /\ UNCHANGED batch /\ aborted' = aborted \union {r}
  BY DEF Cancel
<1>2. \A q \in Run, i \in Call : call[q][i] \in Waiting => q \in aborted'
  BY <1>1 DEF IInv, Local, Answerable, Cancel
<1>3. ASSUME NEW q \in Run PROVE Local(q)' /\ call' \in [Run -> [Call -> Stages]]
  <2>1. run'[q] = run[q] /\ (sched[q] \notin {"idle", "settled"} /\ q \notin aborted' => owner' = q)
    BY <1>1 DEF IInv, Local, Reachable, Cancel
  <2>2. QED
    BY <1>1, <1>2, <2>1, RejectLocal
<1>4. TypeOK' /\ InCharge'
  BY <1>1, <1>3 DEF IInv, TypeOK, InCharge, Cancel, Reject, batch
<1>5. QED
  BY <1>3, <1>4 DEF IInv

LEMMA DisposeInv ==
    ASSUME IInv, NEW r \in Run, Dispose(r)
    PROVE  IInv'
<1>1. /\ \A i \in Call : /\ call[r][i] \in Waiting => call'[r][i] = "refused"
                         /\ call[r][i] \notin Waiting => call'[r][i] = call[r][i]
      /\ \A q \in Run \ {r} : call'[q] = call[q]
  BY DEF IInv, TypeOK, Dispose
<1>2. call' \in [Run -> [Call -> Stages]]
  <2>1. [i \in Call |-> IF call[r][i] \in Waiting THEN "refused" ELSE call[r][i]] \in [Call -> Stages]
    BY DEF IInv, TypeOK, Stages
  <2>2. QED
    BY <2>1 DEF IInv, TypeOK, Dispose
<1>3. TypeOK' /\ InCharge'
  BY <1>2 DEF IInv, TypeOK, InCharge, Dispose, batch
<1>4. Going(r)' = Going(r)
  BY <1>1 DEF Going, Waiting
<1>5. Bounded(r)'
  BY <1>4, ShrinkingBounded DEF IInv, Local
<1>6. Stage(r)' /\ Reachable(r)'
  BY <1>4 DEF IInv, Local, Stage, Reachable, Dispose, batch
<1>7. Alone(r)'
  BY <1>1 DEF IInv, Local, Alone, Executing, Waiting, Dispose, batch
<1>8. Questioned(r)'
  BY DEF Questioned, Dispose
<1>9. Answerable(r)'
  BY <1>1 DEF Answerable, Waiting, IInv, Local, Dispose
<1>10. \A q \in Run \ {r} : Same(q)
  BY <1>1 DEF Same, Dispose, batch
<1>11. QED
  BY <1>3, <1>5, <1>6, <1>7, <1>8, <1>9, <1>10, OneRun DEF Local

LEMMA TimeoutInv ==
    ASSUME IInv, NEW r \in Run, Timeout(r)
    PROVE  IInv'
<1>1. UNCHANGED <<owner, batch>> /\ aborted' = aborted \union {r}
  BY DEF Timeout
<1>2. /\ run' \in [Run -> {"new", "live", "expired", "ended"}] /\ run'[r] = "expired"
      /\ \A q \in Run \ {r} : run'[q] = run[q]
  BY DEF IInv, TypeOK, Timeout
<1>3. InCharge'
  BY <1>1, <1>2 DEF IInv, InCharge, Timeout
<1>4. CASE r \in cancelled
  <2>1. r \in aborted /\ UNCHANGED <<aborted, call, buses>>
    BY <1>1, <1>4 DEF IInv, TypeOK, Timeout
  <2>2. TypeOK'
    BY <1>1, <1>2, <2>1 DEF IInv, TypeOK, Timeout, batch, buses
  <2>3. Going(r)' = Going(r)
    BY <2>1 DEF Going
  <2>4. Bounded(r)'
    BY <2>3, ShrinkingBounded DEF IInv, Local
  <2>5. Stage(r)' /\ Reachable(r)'
    BY <1>1, <1>2, <2>1, <2>3 DEF IInv, Local, Stage, Reachable, batch
  <2>6. Alone(r)' /\ Questioned(r)' /\ Answerable(r)'
    BY <1>1, <2>1 DEF IInv, Local, Alone, Questioned, Answerable, batch, buses
  <2>7. \A q \in Run \ {r} : Same(q)
    BY <1>1, <1>2, <2>1 DEF Same, batch, buses
  <2>8. QED
    BY <1>3, <2>2, <2>4, <2>5, <2>6, <2>7, OneRun DEF Local
<1>5. CASE r \notin cancelled
  <2>1. Reject({r})
    BY <1>5 DEF Timeout
  <2>2. \A q \in Run, i \in Call : call[q][i] \in Waiting => q \in aborted'
    BY <1>1 DEF IInv, InCharge, Local, Answerable, Timeout
  <2>3. ASSUME NEW q \in Run PROVE Local(q)' /\ call' \in [Run -> [Call -> Stages]]
    <3>1. run'[q] # "new" \/ run'[q] = run[q]
      BY <1>2
    <3>2. sched[q] \notin {"idle", "settled"} /\ q \notin aborted' => owner' = q
      BY <1>1 DEF IInv, Local, Reachable
    <3>3. QED
      BY <1>1, <2>1, <2>2, <3>1, <3>2, RejectLocal
  <2>4. TypeOK'
    BY <1>1, <1>2, <2>1, <2>3 DEF IInv, TypeOK, Timeout, Reject, batch
  <2>5. QED
    BY <1>3, <2>3, <2>4 DEF IInv
<1>6. QED
  BY <1>4, <1>5

(* The key goes back when the run in charge has no call that waits. *)
LEMMA HandBackInv ==
    ASSUME IInv, NEW r \in Run, run[r] \in {"live", "expired"}, HandBack(r),
           r \in aborted \/ sched[r] \in {"idle", "settled"}
    PROVE  IInv'
<1>1. UNCHANGED <<cancelled, aborted, batch>> /\ Reject({}) /\ owner = r
  BY DEF IInv, InCharge, HandBack
<1>2. /\ run' \in [Run -> {"new", "live", "expired", "ended"}] /\ run'[r] = "ended"
      /\ \A q \in Run \ {r} : run'[q] = run[q]
  BY DEF IInv, TypeOK, HandBack
<1>3. \A q \in Run, i \in Call : call[q][i] \notin Waiting
  BY <1>1 DEF IInv, Local, Stage, Going, Answerable, Waiting
<1>4. ASSUME NEW q \in Run PROVE Local(q)' /\ call' \in [Run -> [Call -> Stages]]
  <2>1. sched[q] \notin {"idle", "settled"} /\ q \notin aborted' => owner' = q
    BY <1>1 DEF IInv, Local, Reachable
  <2>2. QED
    BY <1>1, <1>2, <1>3, <2>1, RejectLocal
<1>5. InCharge'
  BY <1>1, <1>2, ToolAssumption DEF IInv, InCharge, HandBack
<1>6. TypeOK'
  BY <1>1, <1>2, <1>4 DEF IInv, TypeOK, HandBack, Reject, batch
<1>7. QED
  BY <1>4, <1>5, <1>6 DEF IInv

-----------------------------------------------------------------------------
LEMMA StepInv == IInv /\ [Next]_vars => IInv'
<1> SUFFICES ASSUME IInv, [Next]_vars PROVE IInv'
  OBVIOUS
<1>1. CASE UNCHANGED vars
  <2>1. TypeOK' /\ InCharge'
    BY <1>1 DEF IInv, TypeOK, InCharge, vars, gateway, batch, buses
  <2>2. \A q \in Run : Same(q)
    BY <1>1 DEF Same, vars, gateway, batch, buses
  <2>3. QED
    BY <2>1, <2>2, SameLocal DEF IInv
<1>2. ASSUME NEW r \in Run, RunStep(r) PROVE IInv'
  <2>1. CASE TimeoutFrees(r)
    BY <2>1, HandBackInv DEF TimeoutFrees, IInv, InCharge
  <2>2. CASE Finish(r)
    BY <2>2, HandBackInv DEF Finish
  <2>3. QED
    BY <1>2, <2>1, <2>2, SubmitInv, CancelInv, DisposeInv, TimeoutInv, DispatchInv DEF RunStep
<1>3. ASSUME NEW r \in Run, Schedule(r) PROVE IInv'
  BY <1>3, FillInv, ExclusiveInv, ExclusiveEndsInv, SettleInv DEF Schedule
<1>4. ASSUME NEW r \in Run, NEW i \in Call, CallStep(r, i) \/ User(r, i) PROVE IInv'
  BY <1>4, AskInv, ExecuteInv, QuestionInv, ResultInv, DecideInv, RespondInv DEF CallStep, User
<1>5. QED
  BY <1>1, <1>2, <1>3, <1>4 DEF Next

(* Every reachable state satisfies the inductive invariant. *)
THEOREM Inductive == Spec => []IInv
BY InitInv, StepInv, PTL DEF Spec

(* Every variable has its type; in particular a run whose cancellation was *)
(* called is stopped (InProcessGateway.ts 446).                            *)
THEOREM ToolTyping == Spec => []TypeOK
<1>1. IInv => TypeOK
  BY DEF IInv
<1>2. QED
  BY <1>1, Inductive, PTL

(* A tool that must not run beside others executes alone, whatever hooks   *)
(* and permissions make of it, the pool is never exceeded and no call      *)
(* outlives executeAll (ConcurrentToolScheduler.ts 39-72, ToolRuntime.ts   *)
(* 255).                                                                   *)
THEOREM BarrierKept == Spec => []BarrierHolds
<1>1. ASSUME IInv PROVE BarrierHolds
  <2> SUFFICES ASSUME NEW r \in Run
               PROVE  /\ Cardinality(Going(r)) <= MaxConcurrency
                      /\ sched[r] \in {"idle", "settled"} => Going(r) = {}
                      /\ \A i \in Going(r) :
                           call[r][i] \in Executing /\ kind[r][i] # "safe" => Going(r) = {i}
    BY DEF BarrierHolds
  <2>1. Cardinality(Going(r)) <= MaxConcurrency /\ (sched[r] \in {"idle", "settled"} => Going(r) = {})
    BY <1>1 DEF IInv, Local, Bounded, Stage
  <2>2. ASSUME NEW i \in Going(r), call[r][i] \in Executing, kind[r][i] # "safe"
        PROVE  Going(r) = {i}
    <3>1. sched[r] = "alone" \/ MaxConcurrency = 1
      BY <1>1, <2>2 DEF IInv, Local, Alone, Going
    <3>2. CASE sched[r] = "alone"
      BY <1>1, <3>2 DEF IInv, Local, Stage
    <3>3. CASE MaxConcurrency = 1
      <4>1. {i} \in SUBSET Going(r) /\ Cardinality({i}) = 1
        BY FS_Singleton
      <4>2. QED
        BY <2>1, <3>3, <4>1, GoingFinite, FS_Subset
    <3>4. QED
      BY <3>1, <3>2, <3>3
  <2>3. QED
    BY <2>1, <2>2
<1>2. QED
  BY <1>1, Inductive, PTL

(* A call that waits for the user is found in its bus, by the run in       *)
(* charge, and only the end of its own run refuses it                      *)
(* (createGatewayPermissionHook.ts 62-150, InProcessGateway.ts 446-562).   *)
THEOREM QuestionsAnswerable == Spec => []QuestionsReachTheirCall
<1>1. IInv => QuestionsReachTheirCall
  BY DEF IInv, Local, Answerable, QuestionsReachTheirCall
<1>2. QED
  BY <1>1, Inductive, PTL
==============================================================================
