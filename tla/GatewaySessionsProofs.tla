------------------------- MODULE GatewaySessionsProofs -------------------------
(***************************************************************************)
(* No session is shared, leaked, outdated or made beside an open writer,   *)
(* and restores are alone, for any number of runs with any ids.  The       *)
(* argument: only the run in charge has a call of getOrCreate whose        *)
(* generation is still current (FreshInCharge), so at most one call at a   *)
(* time can put a session into the cache; and a run that timed out closed  *)
(* the cache, so what it goes on using is never found there again.         *)
(***************************************************************************)
EXTENDS GatewayTurnsProofs

Unmet == {"new", "refused", "refreshing"} \union Waiting
Before == Unmet \union Making
Calling == Waiting \union Making \union {"discarding"}

InUse(r) == at[r] \in {"preparing", "running"}

(* A run hands its key back at the end, unless it timed out. *)
EndedRuns == \A r \in ended : r \in timedOut \/ at[r] = "over"

(* A timed out run has no current call. *)
CurrentCalls == \A r \in fresh : r \notin timedOut /\ at[r] \in Calling

(* A session that is not made yet is in nobody's hands. *)
Unmade == \A r \in Run : at[r] \in Before =>
    /\ cached # r /\ closing # r
    /\ \A q \in Run : InUse(q) => holds[q] # r
    /\ at[r] \in Unmet => life[r] = "unborn" /\ r \notin outdated
    /\ at[r] \in Making => life[r] = "creating"
    /\ r \in unchanged => r \notin outdated

(* A session has one user, and that of a timed out run is not cached. *)
Used == \A r \in Run : InUse(r) =>
    /\ holds[r] \in Run
    /\ r \in timedOut => holds[r] # cached
    /\ \A q \in Run \ {r} : InUse(q) => holds[q] # holds[r]

(* At most one session writes, the one that is cached or being closed. *)
OneWriter ==
    /\ NoLeakedSession
    /\ \A s \in Run : life[s] = "disposing" => closing = s /\ cached \in {s, None}
    /\ cached # None /\ (life[cached] # "live" \/ cached \in outdated) => dirty

(* What a current call has found out about older writers remains true. *)
Predecessors == \A r \in fresh, s \in Run :
    /\ at[r] \in Making \union {"evicting"} => life[s] # "live"
    /\ at[r] \in Making => life[s] # "disposing"
    /\ at[r] \in Waiting /\ life[s] = "disposing" => holds[r] = s

RestoreKey == restoring # "no" /\ ~down =>
    /\ slot = RestoreId
    /\ restoring # "reserved" => \A s \in Run : life[s] # "live"
    /\ restoring = "writing" => \A s \in Run : life[s] # "disposing"

Sessions == EndedRuns /\ CurrentCalls /\ Unmade /\ Used /\ OneWriter /\ Predecessors

SInv == TypeOK /\ OwnsSlot /\ Sessions /\ RestoreKey

USE RunAssumption

-----------------------------------------------------------------------------
(* A run that was let in, and has neither timed out nor ended, is in       *)
(* charge: so is every run with a current call.                            *)
LEMMA InCharge ==
    ASSUME SInv, NEW r \in Run, r \notin timedOut, at[r] \notin {"new", "refused", "over"}
    PROVE  owner = r /\ (slot = RunId[r] \/ down)
BY DEF SInv, Sessions, EndedRuns, OwnsSlot, Unended

(* A call whose generation is current belongs to the run in charge. *)
LEMMA FreshInCharge ==
    ASSUME SInv, NEW r \in fresh
    PROVE  r \in Run /\ owner = r /\ (slot = RunId[r] \/ down)
<1>1. r \in Run
  BY DEF SInv, TypeOK, RouterTypeOK
<1>2. r \notin timedOut /\ at[r] \notin {"new", "refused", "over"}
  BY DEF SInv, Sessions, CurrentCalls, Calling, Waiting, Making
<1>3. QED
  BY <1>1, <1>2, InCharge

(* Steps in which runs move on and sessions come to their end. *)
LEMMA Quiet ==
    ASSUME SInv, TypeOK',
           UNCHANGED <<cached, dirty, holds, outdated, timedOut>>,
           fresh' \subseteq fresh, unchanged' \subseteq unchanged,
           \A q \in Run :
              \/ at'[q] = at[q]
              \/ at[q] # "over" /\ at'[q] \in {"ending", "over"} /\ q \notin fresh'
              \/ at[q] = "new" /\ at'[q] \in {"refreshing", "refused"}
              \/ at[q] = "preparing" /\ at'[q] = "running"
              \/ at[q] \in Making /\ at'[q] = "discarding",
           \A q \in ended' : q \in ended \/ q \in timedOut \/ at'[q] = "over",
           \A s \in Run :
              \/ life'[s] = life[s]
              \/ /\ life[s] \notin {"unborn", "live"} /\ at'[s] \notin Making
                 /\ life'[s] \in {"discarding", "disposed"},
           closing' \in {closing, None},
           \A s \in Run : life'[s] = "disposing" => closing' = closing
    PROVE  Sessions'
<1>1. \A q \in Run : /\ at'[q] \in Before => at[q] \in Before
                     /\ at'[q] \in Unmet => at[q] \in Unmet
                     /\ at'[q] \in Making => at'[q] = at[q]
                     /\ at'[q] \in Waiting => at'[q] = at[q]
                     /\ InUse(q)' => InUse(q)
                     /\ at[q] = "over" => at'[q] = "over"
  BY DEF Before, Unmet, Waiting, Making, InUse
<1>2. EndedRuns'
  BY <1>1 DEF SInv, TypeOK, Sessions, EndedRuns
<1>3. CurrentCalls'
  BY DEF SInv, TypeOK, RouterTypeOK, Sessions, CurrentCalls, Calling, Waiting, Making
<1>4. Unmade'
  BY <1>1 DEF SInv, Sessions, Unmade, Before
<1>5. Used'
  BY <1>1 DEF SInv, Sessions, Used
<1>6. OneWriter'
  <2>1. cached \in Run \union {None}
    BY DEF SInv, TypeOK, RouterTypeOK
  <2>2. QED
    BY <2>1 DEF SInv, Sessions, OneWriter, NoLeakedSession
<1>7. Predecessors'
  <2>1. \A r \in fresh' : r \in Run /\ r \in fresh
    BY DEF SInv, TypeOK, RouterTypeOK
  <2>2. \A r \in fresh' : /\ at'[r] \in Making \union {"evicting"} => at'[r] = at[r]
                          /\ at'[r] \in Waiting => at'[r] = at[r]
    BY <1>1, <2>1 DEF Waiting
  <2>3. \A s \in Run : /\ life'[s] = "live" => life[s] = "live"
                       /\ life'[s] = "disposing" => life[s] = "disposing"
    OBVIOUS
  <2>4. QED
    BY <2>1, <2>2, <2>3 DEF SInv, Sessions, Predecessors
<1>8. QED
  BY <1>2, <1>3, <1>4, <1>5, <1>6, <1>7 DEF Sessions

(* Closing the session leaves none alive and no call current. *)
LEMMA CloseSessions ==
    ASSUME SInv, TypeOK', Close, UNCHANGED <<at, holds, outdated, ended, unchanged>>,
           timedOut \subseteq timedOut'
    PROVE  /\ Sessions'
           /\ \A s \in Run : /\ life'[s] # "live"
                             /\ life'[s] = "disposing" => life[s] \in {"live", "disposing"}
<1>1. fresh' = {} /\ cached' = None
  BY DEF Close, EvictCached
<1>2. cached \in Run \union {None}
  BY DEF SInv, TypeOK, RouterTypeOK
<1>3. \A s \in Run : /\ s = cached => life'[s] = IF life[s] = "live" THEN "disposing" ELSE life[s]
                     /\ s # cached => life'[s] = life[s]
  BY <1>2 DEF Close, EvictCached, Dispose, SInv, TypeOK, RouterTypeOK
<1>4. closing' = IF cached # None THEN cached ELSE closing
  BY DEF Close, EvictCached
<1>5. \A s \in Run : /\ life'[s] # "live"
                     /\ life'[s] = "disposing" => life[s] \in {"live", "disposing"}
  BY <1>3 DEF SInv, Sessions, OneWriter, NoLeakedSession
<1>6. EndedRuns' /\ CurrentCalls' /\ Predecessors'
  BY <1>1 DEF SInv, Sessions, EndedRuns, CurrentCalls, Predecessors
<1>7. Unmade'
  BY <1>1, <1>3, <1>4 DEF SInv, Sessions, Unmade, Before, InUse
<1>8. Used'
  BY <1>1 DEF SInv, Sessions, Used, InUse
<1>9. OneWriter'
  BY <1>1, <1>2, <1>3, <1>4, <1>5 DEF SInv, Sessions, OneWriter, NoLeakedSession
<1>10. QED
  BY <1>5, <1>6, <1>7, <1>8, <1>9 DEF Sessions

(* A call of getOrCreate that fails is out, and so is its run.             *)
LEMMA FailQuiet ==
    ASSUME SInv, TypeOK', NEW r \in Run, at[r] # "over", CallFails(r), PumpFrame,
           UNCHANGED <<cached, dirty, closing, holds>>,
           life' = life \/ (at[r] \in Making /\ life' = [life EXCEPT ![r] = "disposed"])
    PROVE  Sessions'
<1>1. fresh' \subseteq fresh /\ unchanged' \subseteq unchanged /\ r \notin fresh'
  BY DEF CallFails, Fail
<1>2. \A q \in Run : IF q = r THEN at'[q] = "ending" ELSE at'[q] = at[q]
  BY DEF CallFails, Go, SInv, TypeOK
<1>3. \A s \in Run : \/ life'[s] = life[s]
                     \/ /\ life[s] \notin {"unborn", "live"} /\ at'[s] \notin Making
                        /\ life'[s] \in {"discarding", "disposed"}
  BY <1>2 DEF SInv, TypeOK, RouterTypeOK, Sessions, Unmade, Before, Making
<1>4. UNCHANGED <<timedOut, outdated, ended>>
  BY DEF PumpFrame
<1>5. QED
  BY <1>1, <1>2, <1>3, <1>4, Quiet

(* A call that looks the session up is the one in charge: the sessions in  *)
(* use are those of timed out runs, and none of them is in the cache.      *)
LEMMA LookUpSessions ==
    ASSUME SInv, TypeOK', NEW r \in Run, NEW begins \in BOOLEAN, LookUp(r, begins),
           PumpFrame, ~down, r \notin timedOut,
           IF begins THEN at[r] = "refreshing" /\ closing = None
                     ELSE at[r] = "draining" /\ r \in fresh /\ Drained(holds[r])
    PROVE  Sessions'
<1> USE DEF Waiting, Making
<1>1. at[r] \in Unmet /\ at[r] \in Before /\ ~InUse(r) /\ slot = RunId[r] /\ owner = r
  BY InCharge DEF Unmet, Before, InUse
<1>2. fresh \subseteq {r}
  BY <1>1, FreshInCharge
<1>3. \A q \in Run \ {r} : InUse(q) => holds[q] # cached
  BY <1>1, InCharge DEF InUse, SInv, Sessions, Used
<1>4. cached # r /\ closing # r /\ life[r] = "unborn" /\ r \notin outdated
      /\ \A q \in Run : InUse(q) => holds[q] # r
  BY <1>1 DEF SInv, Sessions, Unmade
<1>5. cached \in Run \union {None} /\ None \notin Run
  BY DEF SInv, TypeOK, RouterTypeOK
<1>6. r \notin ended /\ UNCHANGED <<timedOut, outdated, ended>>
  BY <1>1 DEF SInv, Sessions, EndedRuns, PumpFrame, Before, Unmet
<1>7. CASE /\ cached # None
           /\ dirty => slot \notin {None, RunId[r]}
           /\ Hold(r, cached) /\ Go(r, "preparing")
           /\ ForgetCall(r)
           /\ UNCHANGED <<cached, dirty, life, closing>>
  <2>1. \A q \in Run : /\ at'[q] = IF q = r THEN "preparing" ELSE at[q]
                       /\ holds'[q] = IF q = r THEN cached ELSE holds[q]
    BY <1>7 DEF Go, Hold, SInv, TypeOK
  <2>2. fresh' = {} /\ unchanged' \subseteq unchanged
    BY <1>2, <1>7 DEF ForgetCall
  <2>3. EndedRuns' /\ CurrentCalls' /\ Predecessors'
    BY <1>6, <2>1, <2>2 DEF SInv, TypeOK, Sessions, EndedRuns, CurrentCalls, Predecessors
  <2>4. Unmade'
    BY <1>4, <1>6, <1>7, <2>1, <2>2 DEF SInv, Sessions, Unmade, Before, Unmet, InUse
  <2>5. Used'
    BY <1>3, <1>5, <1>6, <1>7, <2>1 DEF SInv, Sessions, Used, InUse
  <2>6. OneWriter'
    BY <1>6, <1>7 DEF SInv, Sessions, OneWriter, NoLeakedSession
  <2>7. QED
    BY <2>3, <2>4, <2>5, <2>6 DEF Sessions
<1>8. CASE /\ cached # None
           /\ dirty /\ slot \in {None, RunId[r]}
           /\ Dispose(cached) /\ closing' = cached
           /\ Hold(r, cached) /\ Go(r, "evicting")
           /\ IF begins THEN MarkCall(r) ELSE UNCHANGED <<fresh, steady, unchanged>>
           /\ UNCHANGED <<cached, dirty>>
  <2>1. \A q \in Run : /\ at'[q] = IF q = r THEN "evicting" ELSE at[q]
                       /\ holds'[q] = IF q = r THEN cached ELSE holds[q]
    BY <1>8 DEF Go, Hold, SInv, TypeOK
  <2>2. fresh' = {r} /\ unchanged' \subseteq unchanged \union {r}
    BY <1>2, <1>8 DEF MarkCall
  <2>3. \A s \in Run : life'[s] = IF s = cached /\ life[s] = "live" THEN "disposing" ELSE life[s]
    BY <1>8 DEF Dispose, SInv, TypeOK, RouterTypeOK
  <2>4. \A s \in Run : /\ life'[s] # "live"
                       /\ life'[s] = "disposing" => s = cached
    BY <1>8, <2>3 DEF SInv, Sessions, OneWriter, NoLeakedSession
  <2>5. EndedRuns' /\ CurrentCalls' /\ Predecessors'
    BY <1>6, <1>8, <2>1, <2>2, <2>4
    DEF SInv, TypeOK, Sessions, EndedRuns, CurrentCalls, Predecessors, Calling
  <2>6. Unmade'
    BY <1>1, <1>4, <1>6, <1>8, <2>1, <2>2, <2>3 DEF SInv, Sessions, Unmade, Before, Unmet, InUse
  <2>7. Used'
    BY <1>6, <1>8, <2>1 DEF SInv, Sessions, Used, InUse
  <2>8. OneWriter'
    BY <1>8, <2>4 DEF OneWriter, NoLeakedSession
  <2>9. QED
    BY <2>5, <2>6, <2>7, <2>8 DEF Sessions
<1>9. CASE /\ cached = None /\ ~paused
           /\ life' = [life EXCEPT ![r] = "creating"]
           /\ Go(r, "creating")
           /\ IF begins THEN MarkCall(r) ELSE UNCHANGED <<fresh, steady, unchanged>>
           /\ UNCHANGED <<cached, dirty, closing, holds>>
  <2>1. \A q \in Run : at'[q] = IF q = r THEN "creating" ELSE at[q]
    BY <1>9 DEF Go, SInv, TypeOK
  <2>2. fresh' = {r} /\ unchanged' \subseteq unchanged \union {r}
    BY <1>2, <1>9 DEF MarkCall
  <2>3. \A s \in Run : life'[s] = IF s = r THEN "creating" ELSE life[s]
    BY <1>9 DEF SInv, TypeOK, RouterTypeOK
  <2>4. \A s \in Run : life[s] \notin {"live", "disposing"}
    BY <1>5, <1>9 DEF SInv, Sessions, OneWriter, NoLeakedSession, Predecessors, Drained
  <2>5. EndedRuns' /\ CurrentCalls' /\ Predecessors'
    BY <1>6, <2>1, <2>2, <2>3, <2>4
    DEF SInv, TypeOK, Sessions, EndedRuns, CurrentCalls, Predecessors, Calling
  <2>6. Unmade'
    BY <1>4, <1>6, <1>9, <2>1, <2>2, <2>3 DEF SInv, Sessions, Unmade, Before, Unmet, InUse
  <2>7. Used'
    BY <1>6, <1>9, <2>1 DEF SInv, Sessions, Used, InUse
  <2>8. OneWriter'
    BY <1>9, <2>3, <2>4 DEF OneWriter, NoLeakedSession
  <2>9. QED
    BY <2>5, <2>6, <2>7, <2>8 DEF Sessions
<1>10. CASE cached = None /\ paused /\ CallFails(r) /\ UNCHANGED <<cached, dirty, life, closing, holds>>
  BY <1>1, <1>10, FailQuiet DEF Before, Unmet
<1>11. QED
  BY <1>7, <1>8, <1>9, <1>10 DEF LookUp

-----------------------------------------------------------------------------
(* getOrCreate begins: it waits for a writer, gives way or looks the session up. *)
LEMMA RefreshedSessions ==
    ASSUME SInv, TypeOK', NEW r \in Run, Refreshed(r)
    PROVE  Sessions'
<1>1. at[r] = "refreshing" /\ PumpFrame
  BY DEF Refreshed
<1>2. CASE Go(r, "ending")
           /\ UNCHANGED <<cached, dirty, life, closing, fresh, steady, unchanged, holds>>
  <2>1. r \notin fresh /\ \A q \in Run : IF q = r THEN at'[q] = "ending" ELSE at'[q] = at[q]
    BY <1>1, <1>2 DEF SInv, TypeOK, Sessions, CurrentCalls, Calling, Waiting, Making, Go
  <2>2. QED
    BY <1>1, <1>2, <2>1, Quiet DEF PumpFrame
<1>3. CASE CallFails(r) /\ UNCHANGED <<cached, dirty, life, closing, holds>>
  BY <1>1, <1>3, FailQuiet
<1>4. CASE /\ r \notin cancelled /\ ~down
           /\ closing # None /\ Go(r, "draining") /\ Hold(r, closing)
           /\ MarkCall(r)
           /\ UNCHANGED <<cached, dirty, life, closing>>
  <2>1. r \notin timedOut
    BY <1>4 DEF SInv, TypeOK
  <2>2. fresh \subseteq {r}
    BY <1>1, <2>1, InCharge, FreshInCharge
  <2>3. fresh' = {r} /\ unchanged' \subseteq unchanged \union {r}
    BY <1>4, <2>2 DEF MarkCall
  <2>4. \A q \in Run : /\ at'[q] = IF q = r THEN "draining" ELSE at[q]
                       /\ holds'[q] = IF q = r THEN closing ELSE holds[q]
    BY <1>4 DEF Go, Hold, SInv, TypeOK
  <2>5. UNCHANGED <<timedOut, outdated, ended>>
    BY <1>1 DEF PumpFrame
  <2>6. EndedRuns' /\ CurrentCalls'
    BY <1>1, <2>1, <2>3, <2>4, <2>5
    DEF SInv, TypeOK, Sessions, EndedRuns, CurrentCalls, Calling, Waiting
  <2>7. Unmade'
    BY <1>1, <1>4, <2>3, <2>4, <2>5 DEF SInv, Sessions, Unmade, Before, Unmet, Waiting, Making, InUse
  <2>8. Used'
    BY <1>4, <2>4, <2>5 DEF SInv, Sessions, Used, InUse
  <2>9. OneWriter'
    BY <1>4, <2>5 DEF SInv, Sessions, OneWriter, NoLeakedSession
  <2>10. Predecessors'
    BY <1>4, <2>3, <2>4 DEF SInv, Sessions, OneWriter, Predecessors, Waiting, Making
  <2>11. QED
    BY <2>6, <2>7, <2>8, <2>9, <2>10 DEF Sessions
<1>5. CASE r \notin cancelled /\ ~down /\ closing = None /\ LookUp(r, TRUE)
  <2>1. r \notin timedOut
    BY <1>5 DEF SInv, TypeOK
  <2>2. QED
    BY <1>1, <1>5, <2>1, LookUpSessions
<1>6. QED
  BY <1>2, <1>3, <1>4, <1>5 DEF Refreshed

(* The writer that the call waited for has closed. *)
LEMMA WriterGoneSessions ==
    ASSUME SInv, TypeOK', NEW r \in Run, WriterGone(r)
    PROVE  Sessions'
<1>1. CASE r \in fresh /\ ~down /\ LookUp(r, FALSE)
  <2>1. r \notin timedOut
    BY <1>1 DEF SInv, Sessions, CurrentCalls
  <2>2. QED
    BY <1>1, <2>1, LookUpSessions DEF WriterGone
<1>2. CASE CallFails(r) /\ UNCHANGED <<cached, dirty, life, closing, holds>>
  BY <1>2, FailQuiet DEF WriterGone
<1>3. QED
  BY <1>1, <1>2 DEF WriterGone

(* A dirty session has drained, and the call makes the next one. *)
LEMMA RecreateSessions ==
    ASSUME SInv, TypeOK', NEW r \in Run, Recreate(r)
    PROVE  Sessions'
<1> USE DEF Waiting, Making
<1>1. at[r] = "evicting" /\ PumpFrame /\ UNCHANGED <<cached, dirty, closing, holds>>
  BY DEF Recreate
<1>2. CASE CallFails(r) /\ UNCHANGED life
  BY <1>1, <1>2, FailQuiet
<1>3. CASE /\ r \in fresh /\ Drained(holds[r])
           /\ life' = [life EXCEPT ![r] = "creating"]
           /\ Go(r, "recreating")
           /\ UNCHANGED <<fresh, steady, unchanged>>
  <2>1. \A q \in Run : /\ at'[q] = IF q = r THEN "recreating" ELSE at[q]
                       /\ life'[q] = IF q = r THEN "creating" ELSE life[q]
    BY <1>3 DEF Go, SInv, TypeOK, RouterTypeOK
  <2>2. None \notin Run /\ \A s \in Run : life[s] \notin {"live", "disposing"}
    BY <1>1, <1>3 DEF SInv, Sessions, Predecessors, Drained
  <2>3. cached \in Run \union {None} /\ cached # r
    BY <1>1 DEF SInv, TypeOK, RouterTypeOK, Sessions, Unmade, Before, Unmet
  <2>4. UNCHANGED <<timedOut, outdated, ended>> /\ fresh \subseteq {r}
    BY <1>1, <1>3, FreshInCharge DEF PumpFrame
  <2>5. EndedRuns' /\ CurrentCalls' /\ Predecessors'
    BY <1>1, <1>3, <2>1, <2>2, <2>4
    DEF SInv, TypeOK, Sessions, EndedRuns, CurrentCalls, Predecessors, Calling
  <2>6. Unmade'
    BY <1>1, <1>3, <2>1, <2>4 DEF SInv, Sessions, Unmade, Before, Unmet, InUse
  <2>7. Used'
    BY <1>1, <2>1, <2>4 DEF SInv, Sessions, Used, InUse
  <2>8. OneWriter'
    BY <1>1, <2>1, <2>2, <2>3, <2>4 DEF SInv, Sessions, OneWriter, NoLeakedSession
  <2>9. QED
    BY <2>5, <2>6, <2>7, <2>8 DEF Sessions
<1>4. QED
  BY <1>2, <1>3 DEF Recreate

(* The session that is kept is the only one, and nobody has it yet.        *)
LEMMA MadeSessions ==
    ASSUME SInv, TypeOK', NEW r \in Run, Made(r)
    PROVE  Sessions'
<1>1. at[r] \in Making /\ r \in fresh /\ ~down /\ PumpFrame /\ UNCHANGED closing
  BY DEF Made, Adopt, Kept
<1>2. fresh \subseteq {r} /\ r \notin timedOut
  BY <1>1, FreshInCharge DEF SInv, Sessions, CurrentCalls
<1>3. fresh' = {} /\ unchanged' \subseteq unchanged /\ UNCHANGED <<timedOut, outdated, ended>>
  BY <1>1, <1>2 DEF Made, ForgetCall, PumpFrame
<1>4. \A q \in Run : /\ at'[q] = IF q = r THEN "preparing" ELSE at[q]
                     /\ holds'[q] = IF q = r THEN r ELSE holds[q]
                     /\ life'[q] = IF q = r THEN "live" ELSE life[q]
  BY DEF Made, Adopt, Go, Hold, SInv, TypeOK, RouterTypeOK
<1>5. cached' = r /\ dirty' = (r \notin unchanged)
  BY DEF Made, Adopt
<1>6. closing # r /\ (r \in unchanged => r \notin outdated)
      /\ \A q \in Run : InUse(q) => holds[q] # r
  BY <1>1 DEF SInv, Sessions, Unmade, Before
<1>7. \A s \in Run : life[s] \notin {"live", "disposing"}
  BY <1>1 DEF SInv, Sessions, Predecessors
<1>8. EndedRuns' /\ CurrentCalls' /\ Predecessors'
  <2>1. at[r] # "over"
    BY <1>1 DEF Making
  <2>2. EndedRuns'
    BY <1>2, <1>3, <1>4, <2>1 DEF SInv, TypeOK, Sessions, EndedRuns
  <2>3. QED
    BY <1>3, <2>2 DEF CurrentCalls, Predecessors
<1>9. Unmade'
  BY <1>1, <1>3, <1>4, <1>5
  DEF SInv, Sessions, Unmade, Before, Unmet, Waiting, Making, InUse
<1>10. Used'
  BY <1>2, <1>3, <1>4, <1>5, <1>6 DEF SInv, Sessions, Used, InUse
<1>11. OneWriter'
  BY <1>3, <1>4, <1>5, <1>6, <1>7 DEF OneWriter, NoLeakedSession
<1>12. QED
  BY <1>8, <1>9, <1>10, <1>11 DEF Sessions

(* A runtime change outdates what is cached and what is being made. *)
LEMMA ChangeSessions ==
    ASSUME SInv, TypeOK', ChangeRuntime
    PROVE  Sessions'
<1>1. /\ dirty' = (cached # None) /\ unchanged' = {}
      /\ outdated' = {s \in Run : life[s] \in {"creating", "live"}}
      /\ UNCHANGED <<cached, life, closing, fresh, at, holds, timedOut, ended>>
  BY DEF ChangeRuntime, MarkDirty, turns
<1>2. EndedRuns' /\ CurrentCalls' /\ Predecessors'
  BY <1>1 DEF SInv, Sessions, EndedRuns, CurrentCalls, Predecessors
<1>3. Unmade'
  BY <1>1 DEF SInv, Sessions, Unmade, InUse
<1>4. Used'
  BY <1>1 DEF SInv, Sessions, Used, InUse
<1>5. OneWriter'
  BY <1>1 DEF SInv, Sessions, OneWriter, NoLeakedSession
<1>6. QED
  BY <1>2, <1>3, <1>4, <1>5 DEF Sessions

(* Every step keeps what is known of the sessions. *)
LEMMA SessionStep == SInv /\ TypeOK' /\ [Next]_vars => Sessions'
<1> SUFFICES ASSUME SInv, TypeOK', [Next]_vars PROVE Sessions'
  OBVIOUS
<1>1. ASSUME NEW r \in Run, Submit(r) PROVE Sessions'
  <2>1. \A q \in Run : at'[q] = at[q] \/ (at[q] = "new" /\ at'[q] \in {"refreshing", "refused"})
    BY <1>1 DEF Submit, Go, SInv, TypeOK
  <2>2. QED
    BY <1>1, <2>1, Quiet DEF Submit
<1>2. ASSUME NEW r \in Run, Refreshed(r) \/ WriterGone(r) \/ Recreate(r) \/ Made(r)
      PROVE  Sessions'
  BY <1>2, RefreshedSessions, WriterGoneSessions, RecreateSessions, MadeSessions
<1>3. ASSUME NEW r \in Run, MadeLate(r) PROVE Sessions'
  <2>1. at[r] \in Making /\ life[r] = "creating"
    BY <1>3 DEF MadeLate, SInv, Sessions, Unmade, Before
  <2>2. \A q \in Run : /\ at'[q] = IF q = r THEN "discarding" ELSE at[q]
                       /\ life'[q] = IF q = r THEN "discarding" ELSE life[q]
    BY <1>3 DEF MadeLate, Go, SInv, TypeOK, RouterTypeOK
  <2>3. UNCHANGED <<cached, dirty, holds, outdated, timedOut, fresh, unchanged, ended, closing>>
    BY <1>3 DEF MadeLate, PumpFrame
  <2>4. QED
    BY <2>1, <2>2, <2>3, Quiet DEF Making
<1>4. ASSUME NEW r \in Run, Discarded(r) \/ MakeFails(r) PROVE Sessions'
  BY <1>4, FailQuiet DEF Discarded, MakeFails, Making
<1>5. ASSUME NEW r \in Run, Execute(r) \/ GiveUp(r) \/ Return(r) PROVE Sessions'
  <2>1. /\ at[r] \in {"preparing", "running"}
        /\ \/ at[r] = "preparing" /\ Go(r, "running")
           \/ Go(r, "ending")
        /\ UNCHANGED <<cached, dirty, life, closing, fresh, steady, unchanged, holds>>
        /\ UNCHANGED <<outdated, timedOut, ended>>
    BY <1>5 DEF Execute, GiveUp, Return, PumpStep, PumpFrame
  <2>2. r \notin fresh
    BY <2>1 DEF SInv, Sessions, CurrentCalls, Calling, Waiting, Making
  <2>3. \A q \in Run : q # r => at'[q] = at[q]
    BY <2>1 DEF Go, SInv, TypeOK
  <2>4. at'[r] = "ending" \/ (at[r] = "preparing" /\ at'[r] = "running")
    BY <2>1 DEF Go, SInv, TypeOK
  <2>5. QED
    BY <2>1, <2>2, <2>3, <2>4, Quiet
<1>6. ASSUME NEW r \in Run, PumpEnds(r) PROVE Sessions'
  <2>1. r \notin fresh
    BY <1>6 DEF PumpEnds, SInv, Sessions, CurrentCalls, Calling, Waiting, Making
  <2>2. \A q \in Run : at'[q] = IF q = r THEN "over" ELSE at[q]
    BY <1>6 DEF PumpEnds, Go, SInv, TypeOK
  <2>3. \A q \in ended' : q \in ended \/ at'[q] = "over"
    BY <1>6, <2>2 DEF PumpEnds, Free
  <2>4. QED
    BY <1>6, <2>1, <2>2, <2>3, Quiet DEF PumpEnds
<1>7. ASSUME NEW r \in Run, TimeoutFrees(r) \/ Cancel(r) PROVE Sessions'
  <2>1. \A q \in ended' : q \in ended \/ q \in timedOut
    BY <1>7 DEF TimeoutFrees, Free, Cancel
  <2>2. QED
    BY <1>7, <2>1, Quiet DEF TimeoutFrees, Cancel, router
<1>8. ASSUME NEW r \in Run, Timeout(r) PROVE Sessions'
  BY <1>8, CloseSessions DEF Timeout
<1>9. ASSUME NEW s \in Run, DisposalEnds(s) PROVE Sessions'
  <2>1. at[s] \notin Making /\ life[s] \notin {"unborn", "live"}
    BY <1>9 DEF DisposalEnds, Disposed, SInv, Sessions, Unmade, Before
  <2>2. \A q \in Run : life'[q] = IF q = s THEN "disposed" ELSE life[q]
    BY <1>9 DEF DisposalEnds, Disposed, SInv, TypeOK, RouterTypeOK
  <2>3. \A q \in Run : life'[q] = "disposing" => closing' = closing
    BY <1>9, <2>2 DEF DisposalEnds, Disposed, SInv, Sessions, OneWriter
  <2>4. closing' \in {closing, None}
    BY <1>9 DEF DisposalEnds, Disposed
  <2>5. UNCHANGED <<cached, dirty, fresh, unchanged, at, holds, outdated, timedOut, ended>>
    BY <1>9 DEF DisposalEnds, Disposed, turns
  <2>6. QED
    BY <2>1, <2>2, <2>3, <2>4, <2>5, Quiet
<1>10. CASE BeginRestore \/ Restore \/ EndRestore \/ UNCHANGED vars
  BY <1>10, Quiet DEF BeginRestore, Restore, EndRestore, vars, turns, router
<1>11. CASE CloseForRestore
  BY <1>11, CloseSessions DEF CloseForRestore, turns
<1>12. CASE ChangeRuntime
  BY <1>12, ChangeSessions
<1>13. CASE CacheEvent
  <2>1. CASE CloseSession \/ SweepIdle \/ Shutdown
    BY <1>13, <2>1, CloseSessions DEF CacheEvent, CloseSession, SweepIdle, Shutdown, turns
  <2>2. CASE CloseProject
    BY <1>13, <2>2, CloseSessions, Quiet DEF CacheEvent, CloseProject, turns
  <2>3. CASE ResumeProject
    BY <1>13, <2>3, Quiet DEF CacheEvent, ResumeProject, turns
  <2>4. QED
    BY <1>13, <2>1, <2>2, <2>3 DEF CacheEvent
<1>14. QED
  BY <1>1, <1>2, <1>3, <1>4, <1>5, <1>6, <1>7, <1>8, <1>9, <1>10, <1>11, <1>12, <1>13
  DEF Next, Pump

-----------------------------------------------------------------------------
(* A restore keeps its key, and finds no more writers than there were.     *)
LEMMA KeyKept ==
    ASSUME SInv, UNCHANGED restoring, down => down',
           slot' = slot \/ slot # RestoreId,
           \A s \in Run : /\ life'[s] = "live" => life[s] = "live"
                          /\ life'[s] = "disposing" => life[s] \in {"live", "disposing"}
    PROVE  RestoreKey'
BY DEF SInv, RestoreKey

(* The steps of a run leave the key of a restore alone. *)
LEMMA PumpKeepsKey ==
    ASSUME SInv, NEW r \in Run,
           \/ Refreshed(r) \/ WriterGone(r) \/ Recreate(r) \/ Made(r) \/ MadeLate(r)
           \/ Discarded(r) \/ MakeFails(r) \/ Execute(r) \/ GiveUp(r) \/ Return(r)
    PROVE  RestoreKey'
<1>1. UNCHANGED <<slot, restoring, down>>
  BY DEF Refreshed, WriterGone, Recreate, Made, MadeLate, Discarded, MakeFails, Execute,
     GiveUp, Return, PumpStep, PumpFrame
<1>2. CASE Made(r)
  <2>1. r \in fresh /\ ~down
    BY <1>2 DEF Made, Adopt, Kept
  <2>2. slot = RunId[r]
    BY <2>1, FreshInCharge
  <2>3. QED
    BY <1>1, <2>1, <2>2 DEF SInv, RestoreKey
<1>3. CASE ~Made(r)
  <2>1. \/ UNCHANGED life \/ Dispose(cached)
        \/ \E l \in {"creating", "discarding", "disposed"} : life' = [life EXCEPT ![r] = l]
    BY <1>3 DEF Refreshed, LookUp, WriterGone, Recreate, MadeLate, Discarded, MakeFails, Execute,
       GiveUp, Return, PumpStep
  <2>2. \A s \in Run : /\ life'[s] = "live" => life[s] = "live"
                       /\ life'[s] = "disposing" => life[s] \in {"live", "disposing"}
    BY <2>1 DEF Dispose, SInv, TypeOK, RouterTypeOK
  <2>3. QED
    BY <1>1, <2>2, KeyKept
<1>4. QED
  BY <1>2, <1>3

(* Every step keeps the key of a restore. *)
LEMMA RestoreStep == SInv /\ TypeOK' /\ [Next]_vars => RestoreKey'
<1> SUFFICES ASSUME SInv, TypeOK', [Next]_vars PROVE RestoreKey'
  OBVIOUS
<1>1. ASSUME NEW r \in Run, Submit(r) PROVE RestoreKey'
  BY <1>1, KeyKept DEF Submit, Reserve
<1>2. ASSUME NEW r \in Run, PumpEnds(r) \/ TimeoutFrees(r) PROVE RestoreKey'
  BY <1>2, KeyKept DEF PumpEnds, TimeoutFrees, Free, Release
<1>3. ASSUME NEW r \in Run, Timeout(r) PROVE RestoreKey'
  BY <1>3, CloseSessions, KeyKept DEF Timeout
<1>4. ASSUME NEW r \in Run, Cancel(r) PROVE RestoreKey'
  BY <1>4, KeyKept DEF Cancel, router
<1>5. ASSUME NEW s \in Run, DisposalEnds(s) PROVE RestoreKey'
  <2>1. \A q \in Run : life'[q] = IF q = s THEN "disposed" ELSE life[q]
    BY <1>5 DEF DisposalEnds, Disposed, SInv, TypeOK, RouterTypeOK
  <2>2. QED
    BY <1>5, <2>1, KeyKept DEF DisposalEnds, Disposed
<1>6. CASE BeginRestore
  BY <1>6 DEF BeginRestore, Reserve, RestoreKey
<1>7. CASE CloseForRestore
  <2>1. \A s \in Run : life'[s] # "live"
    BY <1>7, CloseSessions DEF CloseForRestore, turns
  <2>2. QED
    BY <1>7, <2>1 DEF CloseForRestore, SInv, RestoreKey
<1>8. CASE Restore
  <2>1. \A s \in Run : life[s] # "disposing"
    BY <1>8 DEF Restore, Draining, Drained, SInv, Sessions, OneWriter
  <2>2. QED
    BY <1>8, <2>1 DEF Restore, router, SInv, RestoreKey
<1>9. CASE EndRestore
  BY <1>9 DEF EndRestore, RestoreKey
<1>10. CASE ChangeRuntime \/ UNCHANGED vars
  BY <1>10, KeyKept DEF ChangeRuntime, MarkDirty, vars, router
<1>11. CASE CacheEvent
  <2>1. CASE CloseSession \/ SweepIdle
    BY <1>11, <2>1, CloseSessions, KeyKept DEF CacheEvent, CloseSession, SweepIdle, turns
  <2>2. CASE Shutdown
    BY <1>11, <2>2 DEF CacheEvent, Shutdown, RestoreKey
  <2>3. CASE CloseProject
    BY <1>11, <2>3, CloseSessions, KeyKept DEF CacheEvent, CloseProject, turns
  <2>4. CASE ResumeProject
    BY <1>11, <2>4, KeyKept DEF CacheEvent, ResumeProject
  <2>5. QED
    BY <1>11, <2>1, <2>2, <2>3, <2>4 DEF CacheEvent
<1>12. QED
  BY <1>1, <1>2, <1>3, <1>4, <1>5, <1>6, <1>7, <1>8, <1>9, <1>10, <1>11, PumpKeepsKey
  DEF Next, Pump

(* The invariant, for every behaviour of the gateway. *)
LEMMA SessionsInductive == Spec => []SInv
<1>1. Init => SInv
  <2> SUFFICES ASSUME Init PROVE SInv
    OBVIOUS
  <2>1. TypeOK /\ OwnsSlot
    BY DEF Init, RouterInit, TypeOK, RouterTypeOK, Places, Idle, OwnsSlot, Unended
  <2>2. Sessions
    BY DEF Init, RouterInit, Sessions, EndedRuns, CurrentCalls, Unmade, Before, Unmet, Waiting,
       Making, Used, InUse, OneWriter, NoLeakedSession, Predecessors
  <2>3. RestoreKey
    BY DEF Init, RestoreKey
  <2>4. QED
    BY <2>1, <2>2, <2>3 DEF SInv
<1>2. SInv /\ [Next]_vars => SInv'
  BY TypeStep, SlotStep, SessionStep, RestoreStep DEF SInv
<1>3. QED
  BY <1>1, <1>2, PTL DEF Spec

-----------------------------------------------------------------------------
(* Two runs never execute one session: a timed out run keeps the session   *)
(* it has, and the hard timeout has taken that one out of the cache.       *)
THEOREM OwnSession == Spec => []NoSharedSession
<1>1. SInv => NoSharedSession
  BY DEF SInv, Sessions, Used, InUse, NoSharedSession
<1>2. QED
  BY <1>1, SessionsInductive, PTL

(* Every live session is the cached one: getOrCreate, close, sweepIdle,    *)
(* closeProject and shutdown leave none undisposed.                        *)
THEOREM NoneLeaked == Spec => []NoLeakedSession
<1>1. SInv => NoLeakedSession
  BY DEF SInv, Sessions, OneWriter
<1>2. QED
  BY <1>1, SessionsInductive, PTL

(* A checkpoint restore writes while no run is in charge of the session    *)
(* key and no session writes the transcript (createLocalGateway).          *)
THEOREM RestoreIsAlone == Spec => []RestoresAlone
<1>1. SInv => RestoresAlone
  <2> SUFFICES ASSUME SInv, restoring = "writing", ~down
               PROVE  /\ \A r \in Run : ~Unended(r)
                      /\ \A s \in Run : life[s] \notin {"live", "disposing"}
    BY DEF RestoresAlone
  <2>1. slot = RestoreId /\ \A s \in Run : life[s] \notin {"live", "disposing"}
    BY DEF SInv, RestoreKey
  <2>2. QED
    BY <2>1 DEF SInv, OwnsSlot
<1>2. QED
  BY <1>1, SessionsInductive, PTL

(* A pump is moved by its own steps only. *)
LEMMA OwnMove ==
    ASSUME TypeOK, [Next]_vars, NEW r \in Run, at'[r] # at[r]
    PROVE  Submit(r) \/ Pump(r)
<1>1. ASSUME NEW q \in Run, Submit(q) \/ Pump(q), q # r PROVE FALSE
  <2>1. \E place : Go(q, place)
    BY <1>1 DEF Submit, Pump, Refreshed, LookUp, CallFails, WriterGone, Recreate, Made, MadeLate,
       Discarded, MakeFails, Execute, GiveUp, Return, PumpStep, PumpEnds
  <2>2. QED
    BY <1>1, <2>1 DEF Go, TypeOK
<1>2. ASSUME NEW q \in Run, Timeout(q) \/ TimeoutFrees(q) \/ Cancel(q) \/ DisposalEnds(q)
      PROVE  FALSE
  BY <1>2 DEF Timeout, TimeoutFrees, Cancel, DisposalEnds, turns
<1>3. CASE BeginRestore \/ CloseForRestore \/ Restore \/ EndRestore \/ ChangeRuntime
           \/ CacheEvent \/ UNCHANGED vars
  BY <1>3 DEF BeginRestore, CloseForRestore, Restore, EndRestore, ChangeRuntime, CacheEvent,
     vars, turns
<1>4. QED
  BY <1>1, <1>2, <1>3 DEF Next

(* A session is made only when those before it have flushed the transcript *)
(* that it reads (getOrCreate and the replacement of a dirty session).     *)
THEOREM WritersHandOver == Spec => Handover
<1>1. ASSUME SInv, SInv', [Next]_vars, NEW r \in Run, at[r] \notin Making, at'[r] \in Making
      PROVE  \A s \in Run : life[s] \notin {"live", "disposing"}
  <2>1. Submit(r) \/ Pump(r)
    BY <1>1, OwnMove DEF SInv
  <2>2. /\ r \in fresh' /\ at[r] \in Unmet
        /\ life' = [life EXCEPT ![r] = "creating"]
    <3>1. CASE Refreshed(r) \/ WriterGone(r)
      BY <1>1, <3>1
      DEF Refreshed, WriterGone, LookUp, CallFails, MarkCall, Go, Making, Unmet, Waiting, SInv, TypeOK
    <3>2. CASE Recreate(r)
      BY <1>1, <3>2 DEF Recreate, CallFails, Go, Making, Unmet, Waiting, SInv, TypeOK
    <3>3. CASE ~(Refreshed(r) \/ WriterGone(r) \/ Recreate(r))
      <4>1. \E place \in Places \ Making : Go(r, place)
        BY <1>1, <2>1, <3>3 DEF Submit, Pump, Made, MadeLate, Discarded, MakeFails, CallFails,
           Execute, GiveUp, Return, PumpStep, PumpEnds, Places, Idle, Making
      <4>2. QED
        BY <1>1, <4>1 DEF Go, SInv, TypeOK
    <3>4. QED
      BY <3>1, <3>2, <3>3
  <2>3. life[r] = "unborn"
    BY <1>1, <2>2 DEF SInv, Sessions, Unmade, Before
  <2>4. \A s \in Run : life'[s] \notin {"live", "disposing"}
    BY <1>1, <2>2 DEF SInv, Sessions, Predecessors
  <2>5. QED
    BY <1>1, <2>2, <2>3, <2>4 DEF SInv, TypeOK, RouterTypeOK
<1>2. SInv /\ SInv' /\ [Next]_vars =>
        [\A r \in Run :
            (at[r] \notin Making /\ at'[r] \in Making)
                => \A s \in Run : life[s] \notin {"live", "disposing"}]_vars
  BY <1>1
<1>3. QED
  BY <1>2, SessionsInductive, PTL DEF Spec, Handover

(* What a run is given is open, and up to date with every runtime change   *)
(* that was announced before the run asked for it.                         *)
THEOREM CurrentSession == Spec => HandsOutCurrent
<1>1. ASSUME SInv, [Next]_vars, NEW r \in Run, at[r] # "preparing", at'[r] = "preparing"
      PROVE  /\ life'[holds'[r]] = "live"
             /\ (r \in unchanged \/ at[r] = "refreshing") => holds'[r] \notin outdated
  <2>1. Submit(r) \/ Pump(r)
    BY <1>1, OwnMove DEF SInv
  <2>2. CASE Made(r)
    <3>1. holds'[r] = r /\ life'[r] = "live"
      BY <1>1, <2>2 DEF Made, Adopt, Hold, SInv, TypeOK, RouterTypeOK
    <3>2. at[r] \in Making
      BY <2>2 DEF Made
    <3>3. QED
      BY <1>1, <3>1, <3>2 DEF SInv, Sessions, Unmade, Before, Making
  <2>3. CASE Refreshed(r) \/ WriterGone(r)
    <3>1. /\ cached # None /\ (dirty => slot \notin {None, RunId[r]})
          /\ Hold(r, cached) /\ UNCHANGED life
      BY <1>1, <2>3 DEF Refreshed, WriterGone, LookUp, CallFails, Go, SInv, TypeOK
    <3>2. slot = RunId[r]
      <4>1. CASE Refreshed(r)
        BY <1>1, <2>3, <4>1, InCharge DEF Refreshed, Go, SInv, TypeOK
      <4>2. CASE WriterGone(r)
        BY <1>1, <4>2, FreshInCharge DEF WriterGone, CallFails, Go, SInv, TypeOK
      <4>3. QED
        BY <2>3, <4>1, <4>2
    <3>3. life[cached] = "live" /\ cached \notin outdated
      BY <1>1, <3>1, <3>2 DEF SInv, Sessions, OneWriter
    <3>4. QED
      BY <1>1, <3>1, <3>3 DEF Hold, SInv, TypeOK
  <2>4. CASE ~(Refreshed(r) \/ WriterGone(r) \/ Made(r))
    <3>1. \E place \in Places \ {"preparing"} : Go(r, place)
      BY <1>1, <2>1, <2>4 DEF Submit, Pump, Recreate, MadeLate, Discarded, MakeFails, CallFails,
         Execute, GiveUp, Return, PumpStep, PumpEnds, Places, Idle, Making
    <3>2. QED
      BY <1>1, <3>1 DEF Go, SInv, TypeOK
  <2>5. QED
    BY <2>2, <2>3, <2>4
<1>2. SInv /\ [Next]_vars =>
        [\A r \in Run :
            (at[r] # "preparing" /\ at'[r] = "preparing")
                => /\ life'[holds'[r]] = "live"
                   /\ (r \in unchanged \/ at[r] = "refreshing") => holds'[r] \notin outdated]_vars
  BY <1>1
<1>3. QED
  BY <1>2, SessionsInductive, PTL DEF Spec, HandsOutCurrent
===============================================================================
