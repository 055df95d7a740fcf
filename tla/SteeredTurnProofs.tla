--------------------------- MODULE SteeredTurnProofs ---------------------------
(***************************************************************************)
(* Guidance has exactly one outcome and is applied in order, for any turns *)
(* and items and any number of iterations: SteeredTurn implements          *)
(* GuidanceLedger.  The argument: a piece of accepted guidance is in one   *)
(* of three places, the mailbox, the loop's batch or the report to the     *)
(* user, and what is in one of them has no outcome yet.                    *)
(***************************************************************************)
EXTENDS SteeredTurn, TLAPS

Loop == {"head", "applying", "model", "stopping", "returned"}
Closing == {"finishing", "recovering", "reporting", "failed"}
Guided == Loop \union Closing \union {"caught"}

(* The mailbox is open for the present turn only, and closes empty.        *)
Box ==
    /\ box \in begun \union {NoTurn} /\ current \in begun \union {NoTurn}
    /\ open => at \in Loop \union {"caught"}
    /\ ~open => pending = {}
    /\ at \in Guided => box = current /\ current \notin over
    /\ at = "accepting" => box # current

(* Nothing is said about a turn whose mailbox was never open.              *)
Untold ==
    \A t \in Turn : (t \notin begun \/ (at = "accepting" /\ t = current)) =>
        t \notin over \union unsaved /\ \A i \in Item : fate[t][i] = "unseen"

(* The mailbox and the user agree on what was seen and what was cancelled. *)
Agreed ==
    box # NoTurn => \A i \in Item :
        /\ i \in cancelled <=> fate[box][i] = "cancelled"
        /\ fate[box][i] = "unseen" <=> i \notin Seen \union cancelled

(* Accepted guidance is in exactly one place, unless a checkpoint failed.  *)
Placed ==
    at \in Guided =>
        /\ \A i \in pending \union unacked \union report : fate[current][i] = "accepted"
        /\ \A i \in Item : fate[current][i] = "accepted" =>
              i \in pending \union unacked \union report \/ current \in unsaved
        /\ pending \intersect unacked = {} /\ report \intersect (pending \union unacked) = {}

Stages ==
    /\ at \in Loop =>
          /\ report = {} /\ current \notin unsaved
          /\ \A i \in Item : fate[current][i] # "unapplied"
          /\ unacked = IF at = "applying" THEN batch ELSE {}
    /\ at = "applying" /\ resume = "head" => turnCount < MaxTurns
    /\ at = "caught" => report = {} \/ current \in unsaved
    /\ at \in Closing => unacked = {}

(* What waits in the mailbox came after all that was taken out of it.      *)
Ordered ==
    /\ \A j, k \in DOMAIN arrivals : j # k => arrivals[j] # arrivals[k]
    /\ \A j, k \in DOMAIN arrivals :
          j < k /\ arrivals[j] \in pending => arrivals[k] \in pending \union cancelled
    /\ InOrder

IInv == TypeOK /\ Box /\ Untold /\ Agreed /\ Placed /\ Stages /\ Ordered

USE TurnAssumption, LimitAssumption

Told == {"unseen", "accepted", "applied", "unapplied", "cancelled"}

-----------------------------------------------------------------------------
(* What the user is told of one item leaves the others alone. *)
LEMMA TellOne ==
    ASSUME TypeOK, NEW t \in Turn, NEW i \in Item, NEW outcome \in Told, Tell(t, i, outcome)
    PROVE  /\ fate' \in [Turn -> [Item -> Told]]
           /\ \A u \in Turn, j \in Item :
                 fate'[u][j] = IF u = t /\ j = i THEN outcome ELSE fate[u][j]
           /\ UNCHANGED <<over, unsaved>>
BY DEF TypeOK, Tell, Told

(* Items in the mailbox are items, and one more is seen when it comes in.   *)
LEMMA SeenItems == MailboxTypeOK => Seen \subseteq Item /\ pending \subseteq Item
BY DEF MailboxTypeOK, Seen

(* An item that arrives is seen, and the others stay so. *)
LEMMA SeeOne ==
    ASSUME MailboxTypeOK, NEW i \in Item, arrivals' = Append(arrivals, i)
    PROVE  arrivals' \in Seq(Item) /\ Seen' = Seen \union {i}
<1>1. Len(arrivals') = Len(arrivals) + 1 /\ arrivals' \in Seq(Item)
      /\ \A k \in 1..Len(arrivals') :
            arrivals'[k] = IF k <= Len(arrivals) THEN arrivals[k] ELSE i
  BY DEF MailboxTypeOK
<1>2. DOMAIN arrivals = 1..Len(arrivals) /\ DOMAIN arrivals' = 1..Len(arrivals')
      /\ Len(arrivals) \in Nat
  BY <1>1 DEF MailboxTypeOK
<1>3. \A k \in DOMAIN arrivals : k \in DOMAIN arrivals' /\ arrivals'[k] = arrivals[k]
  BY <1>1, <1>2
<1>4. Len(arrivals') \in DOMAIN arrivals' /\ arrivals'[Len(arrivals')] = i
  BY <1>1, <1>2
<1>5. \A k \in DOMAIN arrivals' : k \in DOMAIN arrivals \/ arrivals'[k] = i
  BY <1>1, <1>2
<1>6. QED
  BY <1>1, <1>3, <1>4, <1>5 DEF Seen

(* A request that is accepted puts its item into the mailbox. *)
LEMMA SteerInv ==
    ASSUME IInv, NEW t \in Turn, NEW i \in Item, Steer(t, i)
    PROVE  IInv'
<1> USE DEF Steer, Enqueue, Accepts, Running, mailbox, runner, ledger
<1>1. /\ fate' \in [Turn -> [Item -> Told]]
      /\ \A u \in Turn, j \in Item :
            fate'[u][j] = IF u = t /\ j = i THEN "accepted" ELSE fate[u][j]
      /\ UNCHANGED <<over, unsaved>>
  BY TellOne DEF IInv, TypeOK, Told
<1>2. TypeOK'
  BY <1>1, SeeOne DEF IInv, TypeOK, MailboxTypeOK, Places, Stages, Box, Told, Loop, Closing, Guided
<1>3. Box'
  BY <1>1 DEF IInv, TypeOK, MailboxTypeOK, Box, Loop, Closing, Guided
<1>4. Untold'
  BY <1>1 DEF IInv, TypeOK, Box, Untold, Loop, Closing, Guided
<1>5. Agreed'
  BY <1>1, SeeOne DEF IInv, TypeOK, MailboxTypeOK, Box, Untold, Agreed, Loop, Closing, Guided
<1>6. Placed'
  BY <1>1 DEF IInv, TypeOK, MailboxTypeOK, Box, Untold, Agreed, Placed, Stages, Seen, Loop, Closing, Guided
<1>7. Stages'
  BY <1>1 DEF IInv, TypeOK, MailboxTypeOK, Box, Untold, Agreed, Placed, Stages, Seen, Loop, Closing, Guided
<1>8. Ordered'
  BY <1>1 DEF IInv, TypeOK, MailboxTypeOK, Box, Agreed, Placed, Stages, Ordered, InOrder, Seen, Loop, Closing, Guided
<1>9. QED
  BY <1>2, <1>3, <1>4, <1>5, <1>6, <1>7, <1>8 DEF IInv

(* A withdrawn item was in the mailbox, or will never be taken. *)
LEMMA CancelInv ==
    ASSUME IInv, NEW t \in Turn, NEW i \in Item, CancelSteer(t, i)
    PROVE  IInv'
<1> USE DEF CancelSteer, Withdraw, Cancels, Running, mailbox, runner, ledger
<1>1. /\ fate' \in [Turn -> [Item -> Told]]
      /\ \A u \in Turn, j \in Item :
            fate'[u][j] = IF u = t /\ j = i THEN "cancelled" ELSE fate[u][j]
      /\ UNCHANGED <<over, unsaved>>
  BY TellOne DEF IInv, TypeOK, Told
<1>2. TypeOK'
  BY <1>1 DEF IInv, TypeOK, MailboxTypeOK, Places, Stages, Box, Seen, Told, Loop, Closing, Guided
<1>3. Box'
  BY <1>1 DEF IInv, TypeOK, MailboxTypeOK, Box, Loop, Closing, Guided
<1>4. Untold'
  BY <1>1 DEF IInv, TypeOK, Box, Untold, Loop, Closing, Guided
<1>5. Agreed'
  BY <1>1 DEF IInv, TypeOK, MailboxTypeOK, Box, Untold, Agreed, Seen, Loop, Closing, Guided
<1>6. Placed'
  BY <1>1 DEF IInv, TypeOK, MailboxTypeOK, Box, Untold, Agreed, Placed, Stages, Seen, Loop, Closing, Guided
<1>7. Stages'
  BY <1>1 DEF IInv, TypeOK, MailboxTypeOK, Box, Untold, Agreed, Placed, Stages, Seen, Loop, Closing, Guided
<1>8. Ordered'
  BY <1>1 DEF IInv, TypeOK, MailboxTypeOK, Box, Agreed, Placed, Stages, Ordered, InOrder, Seen, Loop, Closing, Guided
<1>9. QED
  BY <1>2, <1>3, <1>4, <1>5, <1>6, <1>7, <1>8 DEF IInv

(* The mailbox opens for a turn of which the user was told nothing. *)
LEMMA OpenInv ==
    ASSUME IInv, OpenMailbox
    PROVE  IInv'
<1> USE DEF OpenMailbox, Start, AppendOK, mailbox, runner, ledger
<1>2. TypeOK'
  BY DEF IInv, TypeOK, MailboxTypeOK, Places, Stages, Box, Seen, Told, Loop, Closing, Guided
<1>3. Box'
  BY DEF IInv, TypeOK, MailboxTypeOK, Box, Untold, Loop, Closing, Guided
<1>4. Untold'
  BY DEF IInv, TypeOK, Box, Untold, Loop, Closing, Guided
<1>5. Agreed'
  BY DEF IInv, TypeOK, MailboxTypeOK, Box, Untold, Agreed, Seen, Loop, Closing, Guided
<1>6. Placed'
  BY DEF IInv, TypeOK, MailboxTypeOK, Box, Untold, Agreed, Placed, Stages, Seen, Loop, Closing, Guided
<1>7. Stages'
  BY DEF IInv, TypeOK, MailboxTypeOK, Box, Untold, Agreed, Placed, Stages, Seen, Loop, Closing, Guided
<1>8. Ordered'
  BY DEF IInv, TypeOK, MailboxTypeOK, Box, Agreed, Placed, Stages, Ordered, InOrder, Seen, Loop, Closing, Guided
<1>9. QED
  BY <1>2, <1>3, <1>4, <1>5, <1>6, <1>7, <1>8 DEF IInv

(* The loop takes all that waits. *)
LEMMA HeadInv ==
    ASSUME IInv, LoopHead
    PROVE  IInv'
<1> USE DEF LoopHead, DrainBox, TakeBatch, Drained, mailbox, runner, ledger
<1>2. TypeOK'
  BY DEF IInv, TypeOK, MailboxTypeOK, Places, Stages, Box, Seen, Told, Loop, Closing, Guided
<1>3. Box'
  BY DEF IInv, TypeOK, MailboxTypeOK, Box, Loop, Closing, Guided
<1>4. Untold'
  BY DEF IInv, TypeOK, Box, Untold, Loop, Closing, Guided
<1>5. Agreed'
  BY DEF IInv, TypeOK, MailboxTypeOK, Box, Untold, Agreed, Seen, Loop, Closing, Guided
<1>6. Placed'
  BY DEF IInv, TypeOK, MailboxTypeOK, Box, Untold, Agreed, Placed, Stages, Seen, Loop, Closing, Guided
<1>7. Stages'
  <2>1. CASE status = "aborted"
    BY <2>1 DEF IInv, Stages, Loop, Closing
  <2>2. CASE status # "aborted"
    <3>1. /\ at = "head" /\ at' = "applying" /\ resume' = "model" /\ unacked' = unacked \union batch'
          /\ UNCHANGED <<report, turnCount, current, fate, unsaved>>
      BY <2>2
    <3>2. unacked = {} /\ unacked' = batch'
      BY <3>1 DEF IInv, Stages, Loop
    <3>3. QED
      BY <3>1, <3>2 DEF IInv, Stages, Loop, Closing
  <2>3. QED
    BY <2>1, <2>2
<1>8. Ordered'
  BY DEF IInv, TypeOK, MailboxTypeOK, Box, Agreed, Placed, Stages, Ordered, InOrder, Seen, Loop, Closing, Guided
<1>9. QED
  BY <1>2, <1>3, <1>4, <1>5, <1>6, <1>7, <1>8 DEF IInv

(* The first of the batch comes after all that is settled. *)
LEMMA ApplyInv ==
    ASSUME IInv, NEW i \in Item, Apply(i)
    PROVE  IInv'
<1> USE DEF Apply, AppendOK, Earliest, mailbox, runner, ledger
<1>1. /\ fate' \in [Turn -> [Item -> Told]]
      /\ \A u \in Turn, j \in Item :
            fate'[u][j] = IF u = current /\ j = i THEN "applied" ELSE fate[u][j]
      /\ UNCHANGED <<over, unsaved>>
  BY TellOne DEF IInv, TypeOK, Told
<1>2. TypeOK'
  BY <1>1 DEF IInv, TypeOK, MailboxTypeOK, Places, Stages, Box, Seen, Told, Loop, Closing, Guided
<1>3. Box'
  BY <1>1 DEF IInv, TypeOK, MailboxTypeOK, Box, Loop, Closing, Guided
<1>4. Untold'
  BY <1>1 DEF IInv, TypeOK, Box, Untold, Loop, Closing, Guided
<1>5. Agreed'
  BY <1>1 DEF IInv, TypeOK, MailboxTypeOK, Box, Placed, Stages, Agreed, Seen, Loop, Closing, Guided
<1>6. Placed'
  BY <1>1 DEF IInv, TypeOK, MailboxTypeOK, Box, Untold, Agreed, Placed, Stages, Seen, Loop, Closing, Guided
<1>7. Stages'
  BY <1>1 DEF IInv, TypeOK, MailboxTypeOK, Box, Untold, Agreed, Placed, Stages, Seen, Loop, Closing, Guided
<1>8. Ordered'
  BY <1>1 DEF IInv, TypeOK, MailboxTypeOK, Box, Agreed, Placed, Stages, Ordered, InOrder, Seen, Loop, Closing, Guided
<1>9. QED
  BY <1>2, <1>3, <1>4, <1>5, <1>6, <1>7, <1>8 DEF IInv

(* A batch at the end of a turn is taken only while an iteration is left. *)
LEMMA TerminalInv ==
    ASSUME IInv, Terminal
    PROVE  IInv'
<1> USE DEF Terminal, DrainOrClose, TakeBatch, Drained, mailbox, runner, ledger
<1>1. ASSUME turnCount < MaxTurns, Drained(current) # {} PROVE TypeOK' /\ Stages'
  <2>1. /\ at = "model" /\ at' = "applying" /\ resume' = "head" /\ batch' = Drained(current)
        /\ unacked' = unacked \union batch' /\ pending' = pending \ Drained(current)
        /\ open' \in BOOLEAN /\ (open' => open)
        /\ UNCHANGED <<report, turnCount, checkpointed, status, current, chain, begun, ledger>>
        /\ UNCHANGED <<box, arrivals, cancelled>>
    BY <1>1
  <2>2. Drained(current) \subseteq pending
    OBVIOUS
  <2>3. unacked = {} /\ unacked' = batch'
    BY <2>1 DEF IInv, Stages, Loop
  <2>4. TypeOK'
    BY <2>1, <2>2, <2>3, SeenItems DEF IInv, TypeOK, MailboxTypeOK, Places, Seen
  <2>5. Stages'
    BY <1>1, <2>1, <2>3 DEF IInv, Stages, Loop, Closing
  <2>6. QED
    BY <2>4, <2>5
<1>2. ASSUME ~(turnCount < MaxTurns /\ Drained(current) # {}) PROVE TypeOK' /\ Stages'
  <2>1. /\ at = "model" /\ at' = "stopping" /\ UNCHANGED runner
        /\ pending' = pending \ Drained(current) \/ UNCHANGED pending
        /\ open' \in BOOLEAN /\ (open' => open)
        /\ UNCHANGED <<status, current, chain, begun, ledger>>
        /\ UNCHANGED <<box, arrivals, cancelled>>
    BY <1>2 DEF IInv, TypeOK, MailboxTypeOK
  <2>2. TypeOK'
    BY <2>1 DEF IInv, TypeOK, MailboxTypeOK, Places, Seen
  <2>3. Stages'
    BY <2>1 DEF IInv, Stages, Loop, Closing
  <2>4. QED
    BY <2>2, <2>3
<1>3. Box'
  BY DEF IInv, TypeOK, MailboxTypeOK, Box, Loop, Closing, Guided
<1>4. Untold'
  BY DEF IInv, TypeOK, Box, Untold, Loop, Closing, Guided
<1>5. Agreed'
  BY DEF IInv, TypeOK, MailboxTypeOK, Box, Untold, Agreed, Seen, Loop, Closing, Guided
<1>6. Placed'
  BY DEF IInv, TypeOK, MailboxTypeOK, Box, Untold, Agreed, Placed, Stages, Seen, Loop, Closing, Guided
<1>8. Ordered'
  BY DEF IInv, TypeOK, MailboxTypeOK, Box, Agreed, Placed, Stages, Ordered, InOrder, Seen, Loop, Closing, Guided
<1>9. QED
  BY <1>1, <1>2, <1>3, <1>4, <1>5, <1>6, <1>8 DEF IInv

(* What was not applied goes to the report. *)
LEMMA CloseInv ==
    ASSUME IInv, LoopReturned \/ LoopThrew
    PROVE  IInv'
<1> USE DEF LoopReturned, LoopThrew, CloseMailbox, Close, Left, mailbox, runner, ledger
<1>2. TypeOK'
  BY SeenItems DEF IInv, TypeOK, MailboxTypeOK, Places, Stages, Box, Seen, Told, Loop, Closing, Guided
<1>3. Box'
  BY DEF IInv, TypeOK, MailboxTypeOK, Box, Loop, Closing, Guided
<1>4. Untold'
  BY DEF IInv, TypeOK, Box, Untold, Loop, Closing, Guided
<1>5. Agreed'
  BY DEF IInv, TypeOK, MailboxTypeOK, Box, Untold, Agreed, Seen, Loop, Closing, Guided
<1>6. Placed'
  BY DEF IInv, TypeOK, MailboxTypeOK, Box, Untold, Agreed, Placed, Stages, Seen, Loop, Closing, Guided
<1>7. Stages'
  BY DEF IInv, TypeOK, MailboxTypeOK, Box, Untold, Agreed, Placed, Stages, Seen, Loop, Closing, Guided
<1>8. Ordered'
  BY DEF IInv, TypeOK, MailboxTypeOK, Box, Agreed, Placed, Stages, Ordered, InOrder, Seen, Loop, Closing, Guided
<1>9. QED
  BY <1>2, <1>3, <1>4, <1>5, <1>6, <1>7, <1>8 DEF IInv

(* A reported item leaves the report. *)
LEMMA ReportInv ==
    ASSUME IInv, NEW i \in Item, Report(i)
    PROVE  IInv'
<1> USE DEF Report, mailbox, runner, ledger
<1>1. /\ fate' \in [Turn -> [Item -> Told]]
      /\ \A u \in Turn, j \in Item :
            fate'[u][j] = IF u = current /\ j = i THEN "unapplied" ELSE fate[u][j]
      /\ UNCHANGED <<over, unsaved>>
  BY TellOne DEF IInv, TypeOK, Told
<1>2. TypeOK'
  BY <1>1 DEF IInv, TypeOK, MailboxTypeOK, Places, Stages, Box, Seen, Told, Loop, Closing, Guided
<1>3. Box'
  BY <1>1 DEF IInv, TypeOK, MailboxTypeOK, Box, Loop, Closing, Guided
<1>4. Untold'
  BY <1>1 DEF IInv, TypeOK, Box, Untold, Loop, Closing, Guided
<1>5. Agreed'
  BY <1>1 DEF IInv, TypeOK, MailboxTypeOK, Box, Placed, Stages, Agreed, Seen, Loop, Closing, Guided
<1>6. Placed'
  BY <1>1 DEF IInv, TypeOK, MailboxTypeOK, Box, Untold, Agreed, Placed, Stages, Seen, Loop, Closing, Guided
<1>7. Stages'
  BY <1>1 DEF IInv, TypeOK, MailboxTypeOK, Box, Untold, Agreed, Placed, Stages, Seen, Loop, Closing, Guided
<1>8. Ordered'
  BY <1>1 DEF IInv, TypeOK, MailboxTypeOK, Box, Agreed, Placed, Stages, Ordered, InOrder, Seen, Loop, Closing, Guided
<1>9. QED
  BY <1>2, <1>3, <1>4, <1>5, <1>6, <1>7, <1>8 DEF IInv

(* The mailbox of a turn that is over is emptied. *)
LEMMA EndInv ==
    ASSUME IInv, End
    PROVE  IInv'
<1> USE DEF End, FinishBox, mailbox, runner, ledger
<1>2. TypeOK'
  <2>1. MailboxTypeOK'
    <3>1. CASE box = current
      <4>1. box' = NoTurn /\ open' = FALSE /\ pending' = {} /\ arrivals' = <<>> /\ cancelled' = {}
        BY <3>1
      <4>2. <<>> \in Seq(Item)
        OBVIOUS
      <4>3. arrivals' \in Seq(Item)
        BY <4>1, <4>2
      <4>4. pending' \subseteq Seen' /\ cancelled' \subseteq Item
        BY <4>1
      <4>5. QED
        BY <4>1, <4>3, <4>4 DEF MailboxTypeOK
    <3>2. CASE box # current
      BY <3>2 DEF IInv, TypeOK, MailboxTypeOK, Seen
    <3>3. QED
      BY <3>1, <3>2
  <2>2. QED
    BY <2>1 DEF IInv, TypeOK, Places
<1>3. Box'
  BY DEF IInv, TypeOK, MailboxTypeOK, Box, Loop, Closing, Guided
<1>4. Untold'
  BY DEF IInv, TypeOK, Box, Untold, Loop, Closing, Guided
<1>5. Agreed'
  BY DEF IInv, TypeOK, MailboxTypeOK, Box, Untold, Agreed, Seen, Loop, Closing, Guided
<1>6. Placed'
  BY DEF IInv, TypeOK, MailboxTypeOK, Box, Untold, Agreed, Placed, Stages, Seen, Loop, Closing, Guided
<1>7. Stages'
  BY DEF IInv, TypeOK, MailboxTypeOK, Box, Untold, Agreed, Placed, Stages, Seen, Loop, Closing, Guided
<1>8. Ordered'
  BY DEF IInv, TypeOK, MailboxTypeOK, Box, Agreed, Placed, Stages, Ordered, InOrder, Seen, Loop, Closing, Guided
<1>9. QED
  BY <1>2, <1>3, <1>4, <1>5, <1>6, <1>7, <1>8 DEF IInv

(* A turn that nobody listens to any more is left. *)
LEMMA DropInv ==
    ASSUME IInv, Drop
    PROVE  IInv'
<1> USE DEF Drop, Close, Left, mailbox, runner, ledger
<1>2. TypeOK'
  BY DEF IInv, TypeOK, MailboxTypeOK, Places, Stages, Box, Seen, Told, Loop, Closing, Guided
<1>3. Box'
  BY DEF IInv, TypeOK, MailboxTypeOK, Box, Loop, Closing, Guided
<1>4. Untold'
  BY DEF IInv, TypeOK, Box, Untold, Loop, Closing, Guided
<1>5. Agreed'
  BY DEF IInv, TypeOK, MailboxTypeOK, Box, Untold, Agreed, Seen, Loop, Closing, Guided
<1>6. Placed'
  BY DEF IInv, TypeOK, MailboxTypeOK, Box, Untold, Agreed, Placed, Stages, Seen, Loop, Closing, Guided
<1>7. Stages'
  BY DEF IInv, TypeOK, MailboxTypeOK, Box, Untold, Agreed, Placed, Stages, Seen, Loop, Closing, Guided
<1>8. Ordered'
  BY DEF IInv, TypeOK, MailboxTypeOK, Box, Agreed, Placed, Stages, Ordered, InOrder, Seen, Loop, Closing, Guided
<1>9. QED
  BY <1>2, <1>3, <1>4, <1>5, <1>6, <1>7, <1>8 DEF IInv

(* A new turn finds the mailbox closed. *)
LEMMA BeginInv ==
    ASSUME IInv, NEW t \in Turn, Begin(t)
    PROVE  IInv'
<1> USE DEF Begin, mailbox, runner, ledger
<1>2. TypeOK'
  BY DEF IInv, TypeOK, MailboxTypeOK, Places, Stages, Box, Seen, Told, Loop, Closing, Guided
<1>3. Box'
  BY DEF IInv, TypeOK, MailboxTypeOK, Box, Loop, Closing, Guided
<1>4. Untold'
  BY DEF IInv, TypeOK, Box, Untold, Loop, Closing, Guided
<1>5. Agreed'
  BY DEF IInv, TypeOK, MailboxTypeOK, Box, Untold, Agreed, Seen, Loop, Closing, Guided
<1>6. Placed'
  BY DEF IInv, TypeOK, MailboxTypeOK, Box, Untold, Agreed, Placed, Stages, Seen, Loop, Closing, Guided
<1>7. Stages'
  BY DEF IInv, TypeOK, MailboxTypeOK, Box, Untold, Agreed, Placed, Stages, Seen, Loop, Closing, Guided
<1>8. Ordered'
  BY DEF IInv, TypeOK, MailboxTypeOK, Box, Agreed, Placed, Stages, Ordered, InOrder, Seen, Loop, Closing, Guided
<1>9. QED
  BY <1>2, <1>3, <1>4, <1>5, <1>6, <1>7, <1>8 DEF IInv

(* Steps that touch neither mailbox nor report. *)
LEMMA MoveInv ==
    ASSUME IInv, Abort \/ Refuse \/ ApplyFails \/ BatchDone \/ Iterate \/ StopLoop \/ ResultNotRecorded
    PROVE  IInv'
<1> USE DEF Abort, Refuse, ApplyFails, BatchDone, Iterate, StopLoop, ResultNotRecorded, AppendOK, AppendFailed, mailbox, runner, ledger
<1>2. TypeOK'
  BY DEF IInv, TypeOK, MailboxTypeOK, Places, Stages, Box, Seen, Told, Loop, Closing, Guided
<1>3. Box'
  BY DEF IInv, TypeOK, MailboxTypeOK, Box, Loop, Closing, Guided
<1>4. Untold'
  BY DEF IInv, TypeOK, Box, Untold, Loop, Closing, Guided
<1>5. Agreed'
  BY DEF IInv, TypeOK, MailboxTypeOK, Box, Untold, Agreed, Seen, Loop, Closing, Guided
<1>6. Placed'
  BY DEF IInv, TypeOK, MailboxTypeOK, Box, Untold, Agreed, Placed, Stages, Seen, Loop, Closing, Guided
<1>7. Stages'
  BY DEF IInv, TypeOK, MailboxTypeOK, Box, Untold, Agreed, Placed, Stages, Seen, Loop, Closing, Guided
<1>8. Ordered'
  BY DEF IInv, TypeOK, MailboxTypeOK, Box, Agreed, Placed, Stages, Ordered, InOrder, Seen, Loop, Closing, Guided
<1>9. QED
  BY <1>2, <1>3, <1>4, <1>5, <1>6, <1>7, <1>8 DEF IInv

(* A checkpoint that fails marks its turn. *)
LEMMA FinishInv ==
    ASSUME IInv, FinishTurn \/ Recover
    PROVE  IInv'
<1> USE DEF FinishTurn, Recover, CheckpointThrows, AppendFailed, mailbox, runner, ledger
<1>2. TypeOK'
  BY DEF IInv, TypeOK, MailboxTypeOK, Places, Stages, Box, Seen, Told, Loop, Closing, Guided
<1>3. Box'
  BY DEF IInv, TypeOK, MailboxTypeOK, Box, Loop, Closing, Guided
<1>4. Untold'
  BY DEF IInv, TypeOK, Box, Untold, Loop, Closing, Guided
<1>5. Agreed'
  BY DEF IInv, TypeOK, MailboxTypeOK, Box, Untold, Agreed, Seen, Loop, Closing, Guided
<1>6. Placed'
  BY DEF IInv, TypeOK, MailboxTypeOK, Box, Untold, Agreed, Placed, Stages, Seen, Loop, Closing, Guided
<1>7. Stages'
  BY DEF IInv, TypeOK, MailboxTypeOK, Box, Untold, Agreed, Placed, Stages, Seen, Loop, Closing, Guided
<1>8. Ordered'
  BY DEF IInv, TypeOK, MailboxTypeOK, Box, Agreed, Placed, Stages, Ordered, InOrder, Seen, Loop, Closing, Guided
<1>9. QED
  BY <1>2, <1>3, <1>4, <1>5, <1>6, <1>7, <1>8 DEF IInv

(* A turn is over once. *)
LEMMA CompleteInv ==
    ASSUME IInv, Complete
    PROVE  IInv'
<1> USE DEF Complete, AppendOK, AppendFailed, mailbox, runner, ledger
<1>2. TypeOK'
  BY DEF IInv, TypeOK, MailboxTypeOK, Places, Stages, Box, Seen, Told, Loop, Closing, Guided
<1>3. Box'
  BY DEF IInv, TypeOK, MailboxTypeOK, Box, Loop, Closing, Guided
<1>4. Untold'
  BY DEF IInv, TypeOK, Box, Untold, Loop, Closing, Guided
<1>5. Agreed'
  BY DEF IInv, TypeOK, MailboxTypeOK, Box, Untold, Agreed, Seen, Loop, Closing, Guided
<1>6. Placed'
  BY DEF IInv, TypeOK, MailboxTypeOK, Box, Untold, Agreed, Placed, Stages, Seen, Loop, Closing, Guided
<1>7. Stages'
  BY DEF IInv, TypeOK, MailboxTypeOK, Box, Untold, Agreed, Placed, Stages, Seen, Loop, Closing, Guided
<1>8. Ordered'
  BY DEF IInv, TypeOK, MailboxTypeOK, Box, Agreed, Placed, Stages, Ordered, InOrder, Seen, Loop, Closing, Guided
<1>9. QED
  BY <1>2, <1>3, <1>4, <1>5, <1>6, <1>7, <1>8 DEF IInv

(* Every step keeps the invariant. *)
LEMMA StepInv == IInv /\ [Next]_vars => IInv'
<1> SUFFICES ASSUME IInv, [Next]_vars PROVE IInv'
  OBVIOUS
<1>1. CASE Runner
  BY <1>1, OpenInv, HeadInv, ApplyInv, TerminalInv, CloseInv, ReportInv, EndInv, MoveInv,
     FinishInv, CompleteInv DEF Runner
<1>2. CASE User \/ Abort \/ Drop \/ \E t \in Turn : Begin(t)
  BY <1>2, SteerInv, CancelInv, MoveInv, DropInv, BeginInv DEF User
<1>3. CASE UNCHANGED vars
  BY <1>3 DEF vars, mailbox, runner, ledger, IInv, TypeOK, MailboxTypeOK, Seen, Box, Untold,
     Agreed, Placed, Stages, Ordered, InOrder
<1>4. QED
  BY <1>1, <1>2, <1>3 DEF Next

(* It holds at the start. *)
LEMMA InitInv == Init => IInv
<1> SUFFICES ASSUME Init PROVE IInv
  OBVIOUS
<1>1. <<>> \in Seq(Item) /\ Seen = {}
  BY DEF Init, MailboxInit, Seen
<1>2. TypeOK
  <2>1. MailboxTypeOK
    BY <1>1 DEF Init, MailboxInit, MailboxTypeOK
  <2>2. 1 \in 1..MaxTurns
    OBVIOUS
  <2>3. fate \in [Turn -> [Item -> Told]]
    BY DEF Init, Told
  <2>4. QED
    BY <2>1, <2>2, <2>3 DEF Init, MailboxInit, TypeOK, Places, Told
<1>3. Box /\ Untold /\ Agreed /\ Placed /\ Stages /\ Ordered
  BY DEF Init, MailboxInit, Box, Untold, Agreed, Placed, Stages, Ordered, InOrder, Loop, Closing,
     Guided
<1>4. QED
  BY <1>2, <1>3 DEF IInv

(* Every reachable state satisfies it. *)
LEMMA GuidanceInductive == Spec => []IInv
BY InitInv, StepInv, PTL DEF Spec

-----------------------------------------------------------------------------
(* The types of the mailbox and of the turn; in particular the loop never  *)
(* exceeds input.maxTurns, although guidance that comes last makes it go   *)
(* on (AgentLoop.ts).                                                      *)
THEOREM GuidanceTyping == Spec => []TypeOK
<1>1. IInv => TypeOK
  BY DEF IInv
<1>2. QED
  BY <1>1, GuidanceInductive, PTL

(* Guidance enters the conversation in the order it was accepted           *)
(* (applySteerMessages).                                                   *)
THEOREM GuidanceInOrder == Spec => []InOrder
<1>1. IInv => InOrder
  BY DEF IInv, Ordered
<1>2. QED
  BY <1>1, GuidanceInductive, PTL

-----------------------------------------------------------------------------
(* What the user is told keeps the promise of GuidanceLedger. *)
LEMMA TellKeepsPromise ==
    ASSUME IInv, [Next]_vars
    PROVE  [Ledger!Next]_<<fate, over \ unsaved>>
<1> USE DEF Ledger!Next, Ledger!Settle
<1>1. ASSUME NEW t \in Turn, NEW i \in Item, Steer(t, i) PROVE Ledger!Accept(t, i)
  BY <1>1 DEF Steer, Enqueue, Accepts, Tell, Ledger!Accept, IInv, TypeOK, MailboxTypeOK, Box,
     Agreed, Loop, Guided
<1>2. ASSUME NEW t \in Turn, NEW i \in Item, CancelSteer(t, i) PROVE [Ledger!Cancel(t, i)]_fate
  BY <1>2 DEF CancelSteer, Withdraw, Cancels, Tell, Ledger!Cancel, IInv, TypeOK, Box, Agreed,
     Placed, Loop, Guided
<1>3. ASSUME NEW i \in Item, Apply(i) PROVE Ledger!Apply(current, i)
  BY <1>3 DEF Apply, Earliest, Tell, Ledger!Apply, IInv, TypeOK, Box, Placed, Stages, Loop, Guided
<1>4. ASSUME NEW i \in Item, Report(i) PROVE Ledger!Return(current, i)
  BY <1>4 DEF Report, Tell, Ledger!Return, IInv, TypeOK, Box, Placed, Closing, Guided
<1>5. CASE Complete
  <2>1. current \in Turn /\ UNCHANGED <<fate, unsaved>> /\ over' = over \union {current}
    BY <1>5 DEF Complete, IInv, TypeOK
  <2>2. CASE current \in unsaved
    BY <2>1, <2>2
  <2>3. CASE current \notin unsaved
    <3>1. pending = {} /\ unacked = {} /\ report = {}
      BY <1>5 DEF Complete, IInv, Box, Stages, Loop, Closing
    <3>2. \A i \in Item : fate[current][i] # "accepted"
      BY <1>5, <2>3, <3>1 DEF Complete, IInv, Placed, Closing, Guided
    <3>3. Ledger!End(current)
      BY <2>1, <2>3, <3>2 DEF Ledger!End
    <3>4. QED
      BY <2>1, <3>3
  <2>4. QED
    BY <2>2, <2>3
<1>6. CASE FinishTurn \/ Recover
  BY <1>6 DEF FinishTurn, Recover, IInv, Box, Closing, Guided
<1>7. CASE Refuse \/ OpenMailbox \/ LoopHead \/ ApplyFails \/ BatchDone \/ Iterate \/ Terminal
           \/ StopLoop \/ LoopReturned \/ LoopThrew \/ ResultNotRecorded \/ End \/ Abort \/ Drop
           \/ UNCHANGED vars
  BY <1>7 DEF Refuse, OpenMailbox, LoopHead, ApplyFails, BatchDone, Iterate, Terminal, StopLoop,
     LoopReturned, LoopThrew, ResultNotRecorded, End, Abort, Drop, vars, ledger
<1>8. ASSUME NEW t \in Turn, Begin(t) PROVE UNCHANGED <<fate, over, unsaved>>
  BY <1>8 DEF Begin, ledger
<1>9. current \in Turn \union {NoTurn}
  BY DEF IInv, TypeOK
<1>10. QED
  <2>1. ASSUME NEW t \in Turn, NEW i \in Item, Steer(t, i) \/ CancelSteer(t, i)
        PROVE  [Ledger!Next]_<<fate, over \ unsaved>>
    <3>1. UNCHANGED (over \ unsaved)
      BY <2>1 DEF Steer, CancelSteer, Tell
    <3>2. QED
      BY <1>1, <1>2, <2>1, <3>1
  <2>2. ASSUME NEW i \in Item, Apply(i) \/ Report(i)
        PROVE  [Ledger!Next]_<<fate, over \ unsaved>>
    <3>1. current \in Turn
      BY <2>2 DEF Apply, Report, IInv, TypeOK
    <3>2. QED
      BY <1>3, <1>4, <2>2, <3>1
  <2>3. QED
    BY <1>5, <1>6, <1>7, <1>8, <2>1, <2>2 DEF Next, Runner, User

(* The guidance of a turn implements the promise made to the user: of      *)
(* every accepted item the user learns one outcome, which never changes,   *)
(* and a turn that ends has handed back what it did not apply, whenever    *)
(* it is stopped or fails and whichever way the terminal race goes         *)
(* (SteerMailbox.drainOrClose, TurnRunner.run).                            *)
THEOREM GuidancePromise == Spec => Promise
<1>1. Init => Ledger!Init
  BY DEF Init, Ledger!Init
<1>2. IInv /\ [Next]_vars => [Ledger!Next]_<<fate, over \ unsaved>>
  BY TellKeepsPromise
<1>3. QED
  BY <1>1, <1>2, GuidanceInductive, PTL DEF Spec, Promise, Ledger!Spec
=============================================================================
