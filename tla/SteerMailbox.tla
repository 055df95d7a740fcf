---------------------------- MODULE SteerMailbox ----------------------------
(***************************************************************************)
(* The inbox of a session for guidance that the user sends while a turn    *)
(* runs (src/agent/session/SteerMailbox.ts).  Every method is synchronous, *)
(* hence one step.  The array of pending messages is the set pending in    *)
(* the order of arrivals, whose elements are the code's seenItemIds.       *)
(***************************************************************************)
EXTENDS Naturals, Sequences

CONSTANTS Turn, Item, NoTurn

ASSUME TurnAssumption == NoTurn \notin Turn

VARIABLES
    box,        \* the turn the mailbox belongs to
    open,       \* whether it takes guidance
    pending,    \* guidance the loop has not drained
    arrivals,   \* the items taken in this turn, in order
    cancelled   \* the items withdrawn in this turn

mailbox == <<box, open, pending, arrivals, cancelled>>

Seen == {arrivals[k] : k \in DOMAIN arrivals}

MailboxInit ==
    /\ box = NoTurn
    /\ open = FALSE
    /\ pending = {}
    /\ arrivals = <<>>
    /\ cancelled = {}

Start(t) ==
    /\ box' = t
    /\ open' = TRUE
    /\ pending' = {}
    /\ arrivals' = <<>>
    /\ cancelled' = {}

(* enqueue answers { accepted: true }. *)
Accepts(t, i) == box = t /\ open /\ i \notin cancelled

(* A retry of an accepted item is accepted and changes nothing. *)
Enqueue(t, i) ==
    /\ Accepts(t, i) /\ i \notin Seen
    /\ pending' = pending \union {i}
    /\ arrivals' = Append(arrivals, i)
    /\ UNCHANGED <<box, open, cancelled>>

(* cancel answers { cancelled: true }: the item is pending, or it is       *)
(* unknown and is marked so that a late enqueue is refused.                *)
Cancels(t, i) == box = t /\ (i \in cancelled \/ i \in pending \/ i \notin Seen)

Withdraw(t, i) ==
    /\ Cancels(t, i)
    /\ pending' = pending \ {i}
    /\ cancelled' = cancelled \union {i}
    /\ UNCHANGED <<box, open, arrivals>>

(* What drain(t) returns. *)
Drained(t) == IF open /\ box = t THEN pending ELSE {}

DrainBox(t) ==
    /\ pending' = pending \ Drained(t)
    /\ UNCHANGED <<box, open, arrivals, cancelled>>

(* drainOrClose: hand out what is pending or, in the same step, close. *)
DrainOrClose(t) ==
    /\ pending' = pending \ Drained(t)
    /\ open' = (open /\ (box = t => pending # {}))
    /\ UNCHANGED <<box, arrivals, cancelled>>

(* Faulty: close does not hand out what is pending. *)
LeftNothing(t) == {}

(* What close(t) returns. *)
Left(t) == IF box = t THEN pending ELSE {}

Close(t) ==
    /\ open' = (open /\ box # t)
    /\ pending' = pending \ Left(t)
    /\ UNCHANGED <<box, arrivals, cancelled>>

FinishBox(t) ==
    IF box = t
    THEN /\ box' = NoTurn
         /\ open' = FALSE
         /\ pending' = {}
         /\ arrivals' = <<>>
         /\ cancelled' = {}
    ELSE UNCHANGED mailbox

(* i is the member of S that arrived first. *)
Earliest(i, S) ==
    \E k \in DOMAIN arrivals :
        arrivals[k] = i /\ i \in S /\ \A m \in 1..(k - 1) : arrivals[m] \notin S

MailboxTypeOK ==
    /\ box \in Turn \union {NoTurn}
    /\ open \in BOOLEAN
    /\ arrivals \in Seq(Item)
    /\ pending \subseteq Seen
    /\ cancelled \subseteq Item
=============================================================================
