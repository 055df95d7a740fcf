------------------------ MODULE WorkspaceCoordinator ------------------------
(***************************************************************************)
(* The process-wide coordinator of file operations                        *)
(* (src/session/checkpoints/WorkspaceCoordinator.ts).  Tools, commands,   *)
(* the Git panel and checkpoint restores take a lease on a path before    *)
(* they write.  Directory leases cover everything below them; a caller    *)
(* that runs inside another lease inherits its owner                      *)
(* (operationContext, an AsyncLocalStorage) and may enter it.             *)
(*                                                                         *)
(* An operation stands for one call together with its path, its kind and  *)
(* the operation it runs inside.  A task makes each of its nested calls   *)
(* once.  A task called from outside may be called again when all of it   *)
(* has ended: the objects the code compares with === (leases, owners) are *)
(* then new ones.                                                         *)
(***************************************************************************)
CONSTANTS
    Op,        \* operations that take a lease
    Path,      \* canonical paths
    Inside,    \* the pairs <<root, target>> such that root contains target
    Scope,     \* the path an operation leases
    Kind,      \* "file" or "directory"
    Owner,     \* the owner object of an operation's async context
    Parent,    \* the operation in whose task an operation is called
    NoParent   \* the parent of an operation called from outside

ASSUME OpAssumption ==
    /\ Inside \subseteq Path \X Path
    /\ Scope \in [Op -> Path]
    /\ Kind \in [Op -> {"file", "directory"}]
    /\ NoParent \notin Op
    /\ Parent \in [Op -> Op \union {NoParent}]
    /\ \A o \in Op : Parent[o] # NoParent => Owner[o] = Owner[Parent[o]]

(* Containment of canonical paths is that of a tree.  A directory that is  *)
(* leased in the task of another lease lies within that one (a command of  *)
(* a script works in the script's project, WorkspaceCheckpoints.ts) or is  *)
(* the only nested call of its owner (the common directory of the Git      *)
(* panel, createLocalGateway.ts).                                          *)
OnlyCall(o) ==
    \A c \in Op : Owner[c] = Owner[o] /\ Parent[c] # NoParent => c = o

Within(o) ==
    Kind[Parent[o]] = "directory" /\ <<Scope[Parent[o]], Scope[o]>> \in Inside

ASSUME NestingAssumption ==
    /\ \A x, y, z \in Path : <<x, y>> \in Inside /\ <<y, z>> \in Inside => <<x, z>> \in Inside
    /\ \A x, y, z \in Path : <<x, z>> \in Inside /\ <<y, z>> \in Inside =>
          <<x, y>> \in Inside \/ <<y, x>> \in Inside
    /\ \A o \in Op : Parent[o] # NoParent /\ Kind[o] = "directory" => Within(o) \/ OnlyCall(o)

VARIABLES
    active,    \* the leases held
    waiting,   \* the requests queued
    ahead,     \* the order of the queue: the requests in front of each one
    called     \* the nested calls that running tasks have made

vars == <<active, waiting, ahead, called>>

Live == active \union waiting

-----------------------------------------------------------------------------
(* overlappingPaths: one path contains the other. *)
Overlapping(l, r) ==
    <<Scope[l], Scope[r]>> \in Inside \/ <<Scope[r], Scope[l]>> \in Inside

SameOwnerDirectory(l, r) ==
    /\ Owner[l] = Owner[r]
    /\ Kind[l] = "directory" \/ Kind[r] = "directory"

(* Two file operations of one owner conflict: only a directory is entered. *)
Conflicts(l, r) ==
    Overlapping(l, r) /\ ~SameOwnerDirectory(l, r)

(* o is called inside a directory lease of its own owner. *)
Nested(o, held) ==
    \E h \in held : /\ Owner[h] = Owner[o]
                    /\ Kind[h] = "directory"
                    /\ Overlapping(h, o)

(* Faulty: a nested request does not look at the leases held. *)
AdmitsNestedBlindly(o, held, front) ==
    Nested(o, held) \/ \A w \in held \union front : ~Conflicts(w, o)

(* Faulty: nobody looks at the queue. *)
AdmitsUnqueued(o, held, front) == \A h \in held : ~Conflicts(h, o)

(* Faulty: nested requests queue like all others. *)
AdmitsQueued(o, held, front) == \A w \in held \union front : ~Conflicts(w, o)

(* The test drain applies to one queued request. *)
Admits(o, held, front) ==
    /\ \A h \in held : ~Conflicts(h, o)
    /\ Nested(o, held) \/ \A w \in front : ~Conflicts(w, o)

(* One pass of drain over the queue grants exactly the requests G: each is *)
(* tested against the leases granted so far and the requests the pass has  *)
(* left in front of it.                                                    *)
Grants(G, held, queue, front) ==
    \A o \in queue :
        o \in G <=> Admits(o, held \union (G \intersect front[o]), front[o] \ G)

(* What drain makes of the leases held and of a queue.  The array keeps    *)
(* the order of arrival, since it only grows at its end.                   *)
Drain(held, queue, front) ==
    \E G \in SUBSET queue :
        /\ Grants(G, held, queue, front)
        /\ active' = held \union G
        /\ waiting' = queue \ G
        /\ ahead' = [o \in Op |-> IF o \in waiting'
                                  THEN front[o] \intersect waiting' ELSE {}]

-----------------------------------------------------------------------------
Init ==
    /\ active = {}
    /\ waiting = {}
    /\ ahead = [o \in Op |-> {}]
    /\ called = {}

(* A nested call is made in the running task of its parent.  A call from   *)
(* outside brings a new owner object: nothing of the old one is left.      *)
MayCall(o) ==
    IF Parent[o] # NoParent
    THEN Parent[o] \in active /\ o \notin called
    ELSE \A p \in Live : Owner[p] # Owner[o]

(* Faulty: the request does not go to the end of the queue. *)
RequestUnordered(o) ==
    /\ MayCall(o)
    /\ called' = IF Parent[o] # NoParent
                 THEN called \union {o}
                 ELSE {c \in called : Owner[c] # Owner[o]}
    /\ Drain(active, waiting \union {o}, ahead)

(* acquireWorkspaceOperation: queue the request, then drain. *)
Request(o) ==
    /\ MayCall(o)
    /\ called' = IF Parent[o] # NoParent
                 THEN called \union {o}
                 ELSE {c \in called : Owner[c] # Owner[o]}
    /\ Drain(active, waiting \union {o}, [ahead EXCEPT ![o] = waiting])

(* Faulty: the requests behind the cancelled one are not looked at again. *)
CancelOnly(o) ==
    /\ o \in waiting
    /\ waiting' = waiting \ {o}
    /\ ahead' = [w \in Op |-> IF w = o THEN {} ELSE ahead[w] \ {o}]
    /\ UNCHANGED <<active, called>>

(* The abort signal of a queued request fires. *)
Cancel(o) ==
    /\ o \in waiting
    /\ Drain(active, waiting \ {o}, [w \in Op |-> ahead[w] \ {o}])
    /\ UNCHANGED called

Awaited(o) == {c \in Live : Parent[c] = o}

(* The task of a lease has ended and every call in it was awaited. *)
Finish(o) ==
    /\ o \in active
    /\ Awaited(o) = {}
    /\ Drain(active \ {o}, waiting, ahead)
    /\ UNCHANGED called

(* The task ends (it is stopped, or one of several calls in it failed)     *)
(* while a call made in it is still queued or holds its lease.             *)
Abandon(o) ==
    /\ o \in active
    /\ Awaited(o) # {}
    /\ Drain(active \ {o}, waiting, ahead)
    /\ UNCHANGED called

Next == \E o \in Op : Request(o) \/ Cancel(o) \/ Finish(o) \/ Abandon(o)

(* Every task that holds a lease ends once the calls it awaits have;       *)
(* nobody has to cancel or to abandon anything.                            *)
Spec == Init /\ [][Next]_vars /\ \A o \in Op : WF_vars(Finish(o))

-----------------------------------------------------------------------------
(* The queue is an order apart from the leases; nested calls are recorded. *)
TypeOK ==
    /\ active \subseteq Op
    /\ waiting \subseteq Op
    /\ ahead \in [Op -> SUBSET waiting]
    /\ called \subseteq Op
    /\ active \intersect waiting = {}
    /\ \A v, w \in waiting : v # w => (v \in ahead[w] <=> w \notin ahead[v])
    /\ \A w \in waiting : w \notin ahead[w]
    /\ \A o \in Live : Parent[o] # NoParent => o \in called

(* No two leases held at one time conflict: operations with overlapping    *)
(* paths run one at a time unless one of them is a directory operation of  *)
(* the same owner, so two writers of a file never interleave (the comment  *)
(* in conflicts, lines 25-26).                                             *)
Exclusion ==
    \A l, r \in active : l # r => ~Conflicts(l, r)

(* No wake-up is lost: a request that the rule of drain admits is not left *)
(* in the queue by any of the four operations, a cancelled one included.   *)
NoLostWakeup ==
    \A o \in waiting : ~Admits(o, active, ahead[o])

(* A request passes an older conflicting one only if its owner holds a     *)
(* directory lease around it (test "nested file tools can complete even    *)
(* after a conflicting independent writer queues"); others do not barge.   *)
InTurn(o) ==
    \/ Nested(o, active' \ {o})
    \/ \A w \in waiting \intersect waiting' :
          (o \in waiting => w \in ahead[o]) => ~Conflicts(w, o)

NoBarging == [][\A o \in active' \ active : InTurn(o)]_vars

(* A request queued behind other writers is granted or cancelled: the      *)
(* nested calls that pass it do not starve it and holders never wait for   *)
(* each other in a circle, when nested scopes lie inside their parent's    *)
(* or are taken root first (the Git panel: work tree, then common dir).    *)
RequestsSettle ==
    \A o \in Op : o \in waiting ~> o \notin waiting

=============================================================================
