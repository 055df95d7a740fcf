-------------------------- MODULE GatewayTurnsProofs --------------------------
(***************************************************************************)
(* A session key belongs to one run at a time, for any number of runs with *)
(* any ids.  OwnsSlot is inductive beside the types: a reservation needs a *)
(* free slot, and a run frees the slot only while it is the one in charge. *)
(***************************************************************************)
EXTENDS GatewayTurns, TLAPS

(* Closing or evicting the cached session keeps the types of the cache.    *)
LEMMA CloseTypes ==
    ASSUME RouterTypeOK, Close
    PROVE  /\ cached' \in Run \union {None}
           /\ dirty' \in BOOLEAN
           /\ life' \in [Run -> {"unborn", "creating", "live", "discarding", "disposing", "disposed"}]
           /\ closing' \in Run \union {None}
           /\ fresh' \subseteq Run
<1>1. CASE cached # None
  BY <1>1 DEF RouterTypeOK, Close, EvictCached, Dispose
<1>2. CASE cached = None
  BY <1>2 DEF RouterTypeOK, Close
<1>3. QED
  BY <1>1, <1>2

(* A failing call only forgets itself, or the whole generation.            *)
LEMMA FailTypes ==
    ASSUME RouterTypeOK, NEW r \in Run, CallFails(r)
    PROVE  fresh' \subseteq Run /\ steady' \subseteq Run /\ unchanged' \subseteq Run
BY DEF RouterTypeOK, CallFails, Fail

(* What getOrCreate does between two of its awaits keeps the types.        *)
LEMMA LookUpTypes ==
    ASSUME TypeOK, NEW r \in Run, NEW begins \in BOOLEAN, LookUp(r, begins)
    PROVE  /\ cached' \in Run \union {None}
           /\ dirty' \in BOOLEAN
           /\ life' \in [Run -> {"unborn", "creating", "live", "discarding", "disposing", "disposed"}]
           /\ closing' \in Run \union {None}
           /\ fresh' \subseteq Run /\ steady' \subseteq Run /\ unchanged' \subseteq Run
           /\ holds' \in [Run -> Run \union {None}]
           /\ at' \in [Run -> Places]
<1>1. CASE cached # None /\ (dirty => slot \notin {None, RunId[r]}) /\ Hold(r, cached)
           /\ Go(r, "preparing") /\ ForgetCall(r) /\ UNCHANGED <<cached, dirty, life, closing>>
  BY <1>1 DEF TypeOK, RouterTypeOK, Hold, Go, ForgetCall, Places
<1>2. CASE /\ cached # None
           /\ dirty /\ slot \in {None, RunId[r]}
           /\ Dispose(cached) /\ closing' = cached
           /\ Hold(r, cached) /\ Go(r, "evicting")
           /\ IF begins THEN MarkCall(r) ELSE UNCHANGED <<fresh, steady, unchanged>>
           /\ UNCHANGED <<cached, dirty>>
  BY <1>2 DEF TypeOK, RouterTypeOK, Hold, Go, MarkCall, Places, Waiting, Dispose
<1>3. CASE /\ cached = None /\ ~paused
           /\ life' = [life EXCEPT ![r] = "creating"]
           /\ Go(r, "creating")
           /\ IF begins THEN MarkCall(r) ELSE UNCHANGED <<fresh, steady, unchanged>>
           /\ UNCHANGED <<cached, dirty, closing, holds>>
  BY <1>3 DEF TypeOK, RouterTypeOK, Go, MarkCall, Places, Making
<1>4. CASE cached = None /\ paused /\ CallFails(r)
           /\ UNCHANGED <<cached, dirty, life, closing, holds>>
  <2>1. at' \in [Run -> Places]
    BY <1>4 DEF TypeOK, CallFails, Go, Places
  <2>2. QED
    BY <1>4, <2>1, FailTypes DEF TypeOK, RouterTypeOK
<1>5. QED
  BY <1>1, <1>2, <1>3, <1>4 DEF LookUp

-----------------------------------------------------------------------------
(* Every step keeps the types. *)
LEMMA TypeStep == TypeOK /\ [Next]_vars => TypeOK'
<1> SUFFICES ASSUME TypeOK, [Next]_vars PROVE TypeOK'
  OBVIOUS
<1> USE RunAssumption
<1>1. ASSUME NEW r \in Run, Submit(r) PROVE TypeOK'
  BY <1>1 DEF TypeOK, RouterTypeOK, Submit, Reserve, Go, Places, Idle
<1>2. ASSUME NEW r \in Run, Refreshed(r) PROVE TypeOK'
  <2>1. CASE LookUp(r, TRUE)
    BY <1>2, <2>1, LookUpTypes DEF TypeOK, RouterTypeOK, Refreshed, PumpFrame
  <2>2. CASE ~LookUp(r, TRUE) /\ CallFails(r)
    <3>1. at' \in [Run -> Places]
      BY <2>2 DEF TypeOK, CallFails, Go, Places
    <3>2. UNCHANGED <<cached, dirty, life, closing, holds>>
      BY <1>2, <2>2 DEF Refreshed, CallFails, Go, TypeOK
    <3>3. QED
      BY <1>2, <2>2, <3>1, <3>2, FailTypes DEF TypeOK, RouterTypeOK, Refreshed, PumpFrame
  <2>3. CASE ~LookUp(r, TRUE) /\ ~CallFails(r)
    <3>1. \/ /\ Go(r, "ending")
             /\ UNCHANGED <<cached, dirty, life, closing, fresh, steady, unchanged, holds>>
          \/ /\ closing # None /\ Go(r, "draining") /\ Hold(r, closing) /\ MarkCall(r)
             /\ UNCHANGED <<cached, dirty, life, closing>>
      BY <1>2, <2>3 DEF Refreshed
    <3>2. at' \in [Run -> Places] /\ holds' \in [Run -> Run \union {None}]
      BY <3>1 DEF TypeOK, RouterTypeOK, Go, Hold, Places, Waiting
    <3>3. fresh' \subseteq Run /\ steady' \subseteq Run /\ unchanged' \subseteq Run
          /\ UNCHANGED <<cached, dirty, life, closing>>
      BY <3>1 DEF TypeOK, RouterTypeOK, MarkCall
    <3>4. PumpFrame
      BY <1>2 DEF Refreshed
    <3>5. QED
      BY <3>2, <3>3, <3>4 DEF TypeOK, RouterTypeOK, PumpFrame
  <2>4. QED
    BY <2>1, <2>2, <2>3
<1>3. ASSUME NEW r \in Run, WriterGone(r) PROVE TypeOK'
  <2>1. CASE LookUp(r, FALSE)
    BY <1>3, <2>1, LookUpTypes DEF TypeOK, RouterTypeOK, WriterGone, PumpFrame
  <2>2. CASE CallFails(r) /\ UNCHANGED <<cached, dirty, life, closing, holds>>
    <3>1. at' \in [Run -> Places]
      BY <2>2 DEF TypeOK, CallFails, Go, Places
    <3>2. QED
      BY <1>3, <2>2, <3>1, FailTypes DEF TypeOK, RouterTypeOK, WriterGone, PumpFrame
  <2>3. QED
    BY <1>3, <2>1, <2>2 DEF WriterGone
<1>4. ASSUME NEW r \in Run, Recreate(r) PROVE TypeOK'
  <2>1. CASE CallFails(r) /\ UNCHANGED life
    <3>1. at' \in [Run -> Places]
      BY <2>1 DEF TypeOK, CallFails, Go, Places
    <3>2. QED
      BY <1>4, <2>1, <3>1, FailTypes DEF TypeOK, RouterTypeOK, Recreate, PumpFrame
  <2>2. CASE ~(CallFails(r) /\ UNCHANGED life)
    BY <1>4, <2>2 DEF TypeOK, RouterTypeOK, Recreate, PumpFrame, Go, Places, Making
  <2>3. QED
    BY <2>1, <2>2
<1>5. ASSUME NEW r \in Run, Made(r) PROVE TypeOK'
  BY <1>5 DEF TypeOK, RouterTypeOK, Made, Adopt, Hold, Go, ForgetCall, PumpFrame, Places
<1>6. ASSUME NEW r \in Run, MadeLate(r) PROVE TypeOK'
  BY <1>6 DEF TypeOK, RouterTypeOK, MadeLate, Go, PumpFrame, Places
<1>7. ASSUME NEW r \in Run, Discarded(r) \/ MakeFails(r) PROVE TypeOK'
  <2>1. CallFails(r) /\ PumpFrame /\ UNCHANGED <<cached, dirty, closing, holds>>
        /\ life' \in [Run -> {"unborn", "creating", "live", "discarding", "disposing", "disposed"}]
    BY <1>7 DEF TypeOK, RouterTypeOK, Discarded, MakeFails
  <2>2. at' \in [Run -> Places]
    BY <2>1 DEF TypeOK, CallFails, Go, Places
  <2>3. QED
    BY <2>1, <2>2, FailTypes DEF TypeOK, RouterTypeOK, PumpFrame
<1>8. ASSUME NEW r \in Run, Execute(r) \/ GiveUp(r) \/ Return(r) PROVE TypeOK'
  BY <1>8 DEF TypeOK, RouterTypeOK, Execute, GiveUp, Return, PumpStep, Go, PumpFrame, Places
<1>9. ASSUME NEW r \in Run, PumpEnds(r) PROVE TypeOK'
  BY <1>9 DEF TypeOK, RouterTypeOK, PumpEnds, Free, Release, Go, Places, Idle
<1>10. ASSUME NEW r \in Run, Timeout(r) PROVE TypeOK'
  <2>1. awaited' \in [Run -> Run \union {None}]
    BY <1>10 DEF TypeOK, RouterTypeOK, Timeout, Draining
  <2>2. QED
    BY <1>10, <2>1, CloseTypes DEF TypeOK, RouterTypeOK, Timeout
<1>11. ASSUME NEW r \in Run, TimeoutFrees(r) PROVE TypeOK'
  BY <1>11 DEF TypeOK, RouterTypeOK, TimeoutFrees, Free, Release
<1>12. ASSUME NEW r \in Run, Cancel(r) PROVE TypeOK'
  BY <1>12 DEF TypeOK, RouterTypeOK, Cancel, router
<1>13. ASSUME NEW s \in Run, DisposalEnds(s) PROVE TypeOK'
  BY <1>13 DEF TypeOK, RouterTypeOK, DisposalEnds, Disposed, turns
<1>14. CASE BeginRestore
  BY <1>14 DEF TypeOK, RouterTypeOK, BeginRestore, Reserve, turns
<1>15. CASE CloseForRestore
  BY <1>15, CloseTypes DEF TypeOK, RouterTypeOK, CloseForRestore, turns
<1>16. CASE Restore \/ EndRestore
  BY <1>16 DEF TypeOK, RouterTypeOK, Restore, EndRestore, Release, router, turns
<1>17. CASE ChangeRuntime
  BY <1>17 DEF TypeOK, RouterTypeOK, ChangeRuntime, MarkDirty, turns
<1>18. CASE CacheEvent
  <2>1. CASE CloseSession \/ SweepIdle \/ Shutdown
    BY <1>18, <2>1, CloseTypes
    DEF TypeOK, RouterTypeOK, CacheEvent, CloseSession, SweepIdle, Shutdown, turns
  <2>2. CASE CloseProject
    BY <1>18, <2>2, CloseTypes DEF TypeOK, RouterTypeOK, CacheEvent, CloseProject, turns
  <2>3. CASE ResumeProject
    BY <1>18, <2>3 DEF TypeOK, RouterTypeOK, CacheEvent, ResumeProject, turns
  <2>4. QED
    BY <1>18, <2>1, <2>2, <2>3 DEF CacheEvent
<1>19. CASE UNCHANGED vars
  BY <1>19 DEF TypeOK, RouterTypeOK, vars, router, turns
<1>20. QED
  BY <1>1, <1>2, <1>3, <1>4, <1>5, <1>6, <1>7, <1>8, <1>9, <1>10, <1>11, <1>12,
     <1>13, <1>14, <1>15, <1>16, <1>17, <1>18, <1>19 DEF Next, Pump

(* The types of the gateway and of the session cache. *)
THEOREM GatewayTyping == Spec => []TypeOK
<1>1. Init => TypeOK
  BY RunAssumption DEF Init, RouterInit, TypeOK, RouterTypeOK, Places, Idle
<1>2. QED
  BY <1>1, TypeStep, PTL DEF Spec

-----------------------------------------------------------------------------
(* A run that frees the key leaves every other run in charge as it was:    *)
(* two runs never are in charge together.                                  *)
LEMMA FreeKeepsOthers ==
    ASSUME OwnsSlot, NEW r \in Run, Free(r), NEW q \in Run, q # r, Unended(q)
    PROVE  owner' = q /\ (slot' = RunId[q] \/ down)
BY DEF OwnsSlot, Free

(* A step that moves one run between places past its submission, and may   *)
(* do anything else but touch the key, keeps OwnsSlot.                     *)
LEMMA MovesKeepSlot ==
    ASSUME TypeOK, OwnsSlot,
           UNCHANGED <<slot, owner, ended>>, down => down',
           \A q \in Run : at'[q] \in {"new", "refused"} \/ at[q] \notin {"new", "refused"}
    PROVE  OwnsSlot'
BY DEF OwnsSlot, Unended

(* Every step keeps a run in charge until it hands its key back. *)
LEMMA SlotStep == TypeOK /\ OwnsSlot /\ [Next]_vars => OwnsSlot'
<1> SUFFICES ASSUME TypeOK, OwnsSlot, [Next]_vars PROVE OwnsSlot'
  OBVIOUS
<1> USE RunAssumption
<1>1. ASSUME NEW r \in Run, Submit(r) PROVE OwnsSlot'
  <2>1. CASE slot = None /\ ~down
    <3>1. \A q \in Run : ~Unended(q)
      BY <2>1 DEF OwnsSlot
    <3>2. slot' = RunId[r] /\ owner' = r /\ UNCHANGED <<ended, down>>
          /\ at' = [at EXCEPT ![r] = "refreshing"]
      BY <1>1, <2>1 DEF Submit, Reserve, Go
    <3>3. QED
      BY <3>1, <3>2 DEF OwnsSlot, Unended, TypeOK
  <2>2. CASE slot # None \/ down
    <3>1. UNCHANGED <<slot, owner, ended, down>> /\ at' = [at EXCEPT ![r] = "refused"]
      BY <1>1, <2>2 DEF Submit, Reserve, Go
    <3>2. QED
      BY <3>1, MovesKeepSlot DEF TypeOK
  <2>3. QED
    BY <2>1, <2>2
<1>2. ASSUME NEW r \in Run, PumpFrame, at[r] \notin {"new", "refused"},
             at' = [at EXCEPT ![r] = at'[r]]
      PROVE  OwnsSlot'
  BY <1>2, MovesKeepSlot DEF TypeOK, PumpFrame
<1>3. ASSUME NEW r \in Run,
             \/ Refreshed(r) \/ WriterGone(r) \/ Recreate(r) \/ Made(r) \/ MadeLate(r)
             \/ Discarded(r) \/ MakeFails(r) \/ Execute(r) \/ GiveUp(r) \/ Return(r)
      PROVE  OwnsSlot'
  <2>1. PumpFrame
    BY <1>3 DEF Refreshed, WriterGone, Recreate, Made, MadeLate, Discarded, MakeFails,
       Execute, GiveUp, Return, PumpStep
  <2>2. at[r] \notin {"new", "refused"}
    BY <1>3 DEF Refreshed, WriterGone, Recreate, Made, MadeLate, Discarded, MakeFails,
       Execute, GiveUp, Return, PumpStep, Making
  <2>3. \E place : Go(r, place)
    BY <1>3 DEF Refreshed, LookUp, CallFails, WriterGone, Recreate, Made, MadeLate, Discarded,
       MakeFails, Execute, GiveUp, Return, PumpStep
  <2>4. at' = [at EXCEPT ![r] = at'[r]]
    BY <2>3 DEF Go, TypeOK
  <2>5. QED
    BY <1>2, <2>1, <2>2, <2>4
<1>4. ASSUME NEW r \in Run, PumpEnds(r) PROVE OwnsSlot'
  <2>1. at' = [at EXCEPT ![r] = "over"] /\ UNCHANGED down
    BY <1>4 DEF PumpEnds, Go
  <2>2. CASE r \in timedOut
    BY <1>4, <2>1, <2>2, MovesKeepSlot DEF PumpEnds, TypeOK
  <2>3. CASE r \notin timedOut
    <3>1. Free(r) /\ r \in ended' /\ \A q \in ended : q \in ended'
      BY <1>4, <2>3 DEF PumpEnds, Free
    <3>2. \A q \in Run : Unended(q)' => q # r /\ Unended(q)
      BY <2>1, <3>1 DEF Unended, TypeOK
    <3>3. QED
      BY <2>1, <3>1, <3>2, FreeKeepsOthers DEF OwnsSlot
  <2>4. QED
    BY <2>2, <2>3
<1>5. ASSUME NEW r \in Run, TimeoutFrees(r) PROVE OwnsSlot'
  <2>1. Free(r) /\ r \in ended' /\ (\A q \in ended : q \in ended') /\ UNCHANGED <<at, down>>
    BY <1>5 DEF TimeoutFrees, Free
  <2>2. \A q \in Run : Unended(q)' => q # r /\ Unended(q)
    BY <2>1 DEF Unended
  <2>3. QED
    BY <2>1, <2>2, FreeKeepsOthers DEF OwnsSlot
<1>6. ASSUME NEW r \in Run, Timeout(r) \/ Cancel(r) \/ DisposalEnds(r)
      PROVE  OwnsSlot'
  BY <1>6 DEF OwnsSlot, Unended, Timeout, Cancel, DisposalEnds, Disposed, turns, router
<1>7. CASE BeginRestore
  <2>1. slot = None /\ ~down /\ UNCHANGED <<at, owner, ended, down>>
    BY <1>7 DEF BeginRestore, Reserve, turns
  <2>2. QED
    BY <2>1 DEF OwnsSlot, Unended
<1>8. CASE EndRestore
  BY <1>8 DEF OwnsSlot, Unended, EndRestore, Release, turns
<1>9. CASE CloseForRestore \/ Restore \/ ChangeRuntime \/ UNCHANGED vars
  BY <1>9 DEF OwnsSlot, Unended, CloseForRestore, Restore, ChangeRuntime, MarkDirty, vars,
     turns, router
<1>10. CASE CacheEvent
  BY <1>10 DEF OwnsSlot, Unended, CacheEvent, CloseSession, SweepIdle, CloseProject,
     ResumeProject, Shutdown, turns
<1>11. QED
  BY <1>1, <1>3, <1>4, <1>5, <1>6, <1>7, <1>8, <1>9, <1>10 DEF Next, Pump

(* A session key belongs to one run at a time: no run is let in beside one *)
(* that has not handed its key back, and neither a late clean-up of a run  *)
(* with the same id nor a restore takes the key away (submitTurn, finish   *)
(* and the hard timeout of InProcessGateway, beginTurn and endTurn of      *)
(* SessionRouter).                                                         *)
THEOREM OneRunInCharge == Spec => []OwnsSlot
<1>1. Init => OwnsSlot
  BY DEF Init, OwnsSlot, Unended
<1>2. QED
  BY <1>1, SlotStep, GatewayTyping, PTL DEF Spec
=============================================================================
