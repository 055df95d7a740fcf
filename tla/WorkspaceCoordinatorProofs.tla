--------------------- MODULE WorkspaceCoordinatorProofs ---------------------
(***************************************************************************)
(* Exclusion and the absence of barging, for any set of operations, any    *)
(* paths and any nesting.  Both follow from one lemma about a drain pass:  *)
(* the queue is totally ordered, so of two requests granted together the   *)
(* later one was tested against the earlier one.                           *)
(***************************************************************************)
EXTENDS WorkspaceCoordinator, TLAPS

(* The lists that drain works on: a queue and the order of its requests. *)
Ordered(queue, front) ==
    /\ queue \subseteq Op
    /\ front \in [Op -> SUBSET Op]
    /\ \A v, w \in queue : v # w => (v \in front[w] <=> w \notin front[v])
    /\ \A w \in queue : w \notin front[w]

(* Conflicts is symmetric, as overlappingPaths and the owner test are. *)
LEMMA ConflictsSymmetric ==
    \A l, r \in Op : Conflicts(l, r) => Conflicts(r, l)
BY DEF Conflicts, Overlapping, SameOwnerDirectory

(* Draining an ordered queue keeps the types and the order. *)
LEMMA DrainTypes ==
    ASSUME NEW held \in SUBSET Op, NEW queue, NEW front,
           Ordered(queue, front), held \intersect queue = {},
           Drain(held, queue, front)
    PROVE  /\ active' \subseteq Op
           /\ waiting' \subseteq Op
           /\ ahead' \in [Op -> SUBSET waiting']
           /\ active' \intersect waiting' = {}
           /\ \A v, w \in waiting' : v # w => (v \in ahead'[w] <=> w \notin ahead'[v])
           /\ \A w \in waiting' : w \notin ahead'[w]
           /\ Live' = held \union queue
<1>1. PICK G \in SUBSET queue :
          /\ active' = held \union G
          /\ waiting' = queue \ G
          /\ ahead' = [o \in Op |-> IF o \in waiting'
                                    THEN front[o] \intersect waiting' ELSE {}]
  BY DEF Drain
<1>2. waiting' \subseteq Op /\ active' \subseteq Op
  BY <1>1 DEF Ordered
<1>3. \A o \in waiting' : ahead'[o] = front[o] \intersect waiting'
  BY <1>1, <1>2
<1>4. ahead' \in [Op -> SUBSET waiting']
  BY <1>1
<1>5. active' \intersect waiting' = {}
  BY <1>1
<1>6. waiting' \subseteq queue
  BY <1>1
<1>7. Live' = held \union queue
  BY <1>1 DEF Live
<1>8. QED
  BY <1>2, <1>3, <1>4, <1>5, <1>6, <1>7 DEF Ordered

(* Draining grants no lease that conflicts with another one held. *)
LEMMA DrainExcludes ==
    ASSUME NEW held \in SUBSET Op, NEW queue, NEW front,
           Ordered(queue, front), Drain(held, queue, front),
           \A l, r \in held : l # r => ~Conflicts(l, r)
    PROVE  Exclusion'
<1>1. PICK G \in SUBSET queue : Grants(G, held, queue, front) /\ active' = held \union G
  BY DEF Drain
<1>2. \A o \in G : \A h \in held \union (G \intersect front[o]) : ~Conflicts(h, o)
  BY <1>1 DEF Grants, Admits
<1>3. \A l, r \in G : l # r => l \in front[r] \/ r \in front[l]
  BY <1>1 DEF Ordered
<1>4. G \subseteq Op
  BY <1>1 DEF Ordered
<1>5. SUFFICES ASSUME NEW l \in held \union G, NEW r \in held \union G, l # r
               PROVE  ~Conflicts(l, r)
  BY <1>1 DEF Exclusion, Conflicts, Overlapping, SameOwnerDirectory
<1>6. CASE l \in held /\ r \in held
  BY <1>5, <1>6
<1>7. CASE l \in held /\ r \in G
  BY <1>2, <1>7
<1>8. CASE l \in G /\ r \in held
  BY <1>2, <1>4, <1>8, ConflictsSymmetric
<1>9. CASE l \in G /\ r \in G
  BY <1>2, <1>3, <1>4, <1>5, <1>9, ConflictsSymmetric
<1>10. QED
  BY <1>5, <1>6, <1>7, <1>8, <1>9

-----------------------------------------------------------------------------
(* Each action drains an ordered queue beside leases that exclude each     *)
(* other; this is what the two lemmas above need.                          *)
DrainsFrom(held, queue, front) ==
    /\ held \subseteq active
    /\ Ordered(queue, front)
    /\ held \intersect queue = {}
    /\ Drain(held, queue, front)

LEMMA ActionsDrain ==
    ASSUME TypeOK, NEW o \in Op
    PROVE  /\ Request(o) => /\ DrainsFrom(active, waiting \union {o}, [ahead EXCEPT ![o] = waiting])
                            /\ o \notin Live
           /\ Cancel(o)  => DrainsFrom(active, waiting \ {o}, [w \in Op |-> ahead[w] \ {o}])
           /\ Finish(o)  => DrainsFrom(active \ {o}, waiting, ahead)
           /\ Abandon(o) => DrainsFrom(active \ {o}, waiting, ahead)
<1>1. Ordered(waiting, ahead)
  BY DEF TypeOK, Ordered
<1>2. ASSUME Request(o)
      PROVE  /\ DrainsFrom(active, waiting \union {o}, [ahead EXCEPT ![o] = waiting])
             /\ o \notin Live
  <2>1. o \notin Live
    BY <1>2 DEF TypeOK, Request, MayCall
  <2>2. Ordered(waiting \union {o}, [ahead EXCEPT ![o] = waiting])
    BY <2>1 DEF Ordered, TypeOK, Live
  <2>3. QED
    BY <1>2, <2>1, <2>2 DEF DrainsFrom, Request, TypeOK, Live
<1>3. ASSUME Cancel(o)
      PROVE  DrainsFrom(active, waiting \ {o}, [w \in Op |-> ahead[w] \ {o}])
  <2>1. Ordered(waiting \ {o}, [w \in Op |-> ahead[w] \ {o}])
    BY DEF Ordered, TypeOK
  <2>2. QED
    BY <1>3, <2>1 DEF DrainsFrom, Cancel, TypeOK
<1>4. ASSUME Finish(o) \/ Abandon(o)
      PROVE  DrainsFrom(active \ {o}, waiting, ahead)
  BY <1>1, <1>4 DEF DrainsFrom, Finish, Abandon, TypeOK
<1>5. QED
  BY <1>2, <1>3, <1>4

(* The queue stays an order without duplicates. *)
THEOREM Typing == Spec => []TypeOK
<1>1. Init => TypeOK
  BY DEF Init, TypeOK, Live
<1>2. TypeOK /\ [Next]_vars => TypeOK'
  <2> SUFFICES ASSUME TypeOK, [Next]_vars PROVE TypeOK'
    OBVIOUS
  <2>1. ASSUME NEW held, NEW queue, NEW front, DrainsFrom(held, queue, front),
               \A p \in held \union queue : Parent[p] # NoParent => p \in called',
               called' \subseteq Op
        PROVE  TypeOK'
    <3>1. held \in SUBSET Op
      BY <2>1 DEF DrainsFrom, TypeOK
    <3>2. QED
      BY <2>1, <3>1, DrainTypes DEF DrainsFrom, TypeOK
  <2>2. ASSUME NEW o \in Op, Request(o) PROVE TypeOK'
    <3>1. o \notin Live /\ DrainsFrom(active, waiting \union {o}, [ahead EXCEPT ![o] = waiting])
      BY <2>2, ActionsDrain
    <3>2. called' \subseteq Op /\ \A p \in Live \union {o} : Parent[p] # NoParent => p \in called'
      BY <2>2, <3>1 DEF Request, MayCall, TypeOK
    <3>3. QED
      BY <2>1, <3>1, <3>2 DEF Live
  <2>3. ASSUME NEW o \in Op, Cancel(o) PROVE TypeOK'
    <3>1. DrainsFrom(active, waiting \ {o}, [w \in Op |-> ahead[w] \ {o}]) /\ called' = called
      BY <2>3, ActionsDrain DEF Cancel
    <3>2. QED
      BY <2>1, <3>1 DEF Live, TypeOK
  <2>4. ASSUME NEW o \in Op, Finish(o) \/ Abandon(o) PROVE TypeOK'
    <3>1. DrainsFrom(active \ {o}, waiting, ahead) /\ called' = called
      BY <2>4, ActionsDrain DEF Finish, Abandon
    <3>2. QED
      BY <2>1, <3>1 DEF Live, TypeOK
  <2>5. CASE UNCHANGED vars
    BY <2>5 DEF vars, TypeOK, Live
  <2>6. QED
    BY <2>2, <2>3, <2>4, <2>5 DEF Next
<1>3. QED
  BY <1>1, <1>2, PTL DEF Spec

(* No two conflicting leases are ever held together. *)
THEOREM MutualExclusion == Spec => []Exclusion
<1>1. Init => Exclusion
  BY DEF Init, Exclusion
<1>2. TypeOK /\ Exclusion /\ [Next]_vars => Exclusion'
  <2> SUFFICES ASSUME TypeOK, Exclusion, [Next]_vars PROVE Exclusion'
    OBVIOUS
  <2>1. ASSUME NEW held, NEW queue, NEW front, DrainsFrom(held, queue, front)
        PROVE  Exclusion'
    <3>1. held \in SUBSET Op /\ \A l, r \in held : l # r => ~Conflicts(l, r)
      BY <2>1 DEF DrainsFrom, TypeOK, Exclusion
    <3>2. QED
      BY <2>1, <3>1, DrainExcludes DEF DrainsFrom
  <2>2. ASSUME NEW o \in Op, Request(o) \/ Cancel(o) \/ Finish(o) \/ Abandon(o)
        PROVE  Exclusion'
    BY <2>1, <2>2, ActionsDrain
  <2>3. CASE UNCHANGED vars
    BY <2>3 DEF vars, Exclusion, Conflicts, Overlapping, SameOwnerDirectory
  <2>4. QED
    BY <2>2, <2>3 DEF Next
<1>3. QED
  BY <1>1, <1>2, Typing, PTL DEF Spec

(* Nobody but a nested caller is granted a lease before an older request   *)
(* that conflicts with it.                                                 *)
THEOREM GrantedInTurn == Spec => NoBarging
<1>1. TypeOK /\ [Next]_vars => [\A o \in active' \ active : InTurn(o)]_vars
  <2> SUFFICES ASSUME TypeOK, Next, NEW g \in active' \ active
               PROVE  InTurn(g)
    BY DEF vars
  <2>1. ASSUME NEW held, NEW queue, NEW front, DrainsFrom(held, queue, front),
               queue \intersect active = {},
               \A o \in queue : \A w \in waiting \intersect queue :
                   (o \in waiting => w \in ahead[o]) /\ w # o => w \in front[o]
        PROVE  InTurn(g)
    <3>1. PICK G \in SUBSET queue : /\ Grants(G, held, queue, front)
                                    /\ active' = held \union G
                                    /\ waiting' = queue \ G
      BY <2>1 DEF DrainsFrom, Drain
    <3>2. g \in G /\ g \in queue /\ g \notin held
      BY <2>1, <3>1 DEF DrainsFrom
    <3>3. Admits(g, held \union (G \intersect front[g]), front[g] \ G)
      BY <3>1, <3>2 DEF Grants
    <3>4. held \union (G \intersect front[g]) \subseteq active' \ {g}
      BY <2>1, <3>1, <3>2 DEF DrainsFrom, Ordered
    <3>5. CASE Nested(g, held \union (G \intersect front[g]))
      BY <3>4, <3>5 DEF Nested, InTurn
    <3>6. CASE \A w \in front[g] \ G : ~Conflicts(w, g)
      <4>1. ASSUME NEW w \in waiting \intersect waiting', g \in waiting => w \in ahead[g]
            PROVE  w \in front[g] \ G
        BY <2>1, <3>1, <3>2, <4>1
      <4>2. QED
        BY <3>6, <4>1 DEF InTurn
    <3>7. QED
      BY <3>3, <3>5, <3>6 DEF Admits
  <2>2. ASSUME NEW o \in Op, Request(o) PROVE InTurn(g)
    <3>1. o \notin Live /\ DrainsFrom(active, waiting \union {o}, [ahead EXCEPT ![o] = waiting])
      BY <2>2, ActionsDrain
    <3>2. \A p \in waiting \union {o} : \A w \in waiting \intersect (waiting \union {o}) :
             (p \in waiting => w \in ahead[p]) /\ w # p => w \in [ahead EXCEPT ![o] = waiting][p]
      BY <3>1 DEF TypeOK, Live
    <3>3. (waiting \union {o}) \intersect active = {}
      BY <3>1 DEF TypeOK, Live
    <3>4. QED
      BY <2>1, <3>1, <3>2, <3>3
  <2>3. ASSUME NEW o \in Op, Cancel(o) PROVE InTurn(g)
    <3>1. DrainsFrom(active, waiting \ {o}, [w \in Op |-> ahead[w] \ {o}])
      BY <2>3, ActionsDrain
    <3>2. \A p \in waiting \ {o} : \A w \in waiting \intersect (waiting \ {o}) :
             (p \in waiting => w \in ahead[p]) /\ w # p => w \in [x \in Op |-> ahead[x] \ {o}][p]
      BY DEF TypeOK
    <3>3. QED
      BY <2>1, <3>1, <3>2 DEF TypeOK
  <2>4. ASSUME NEW o \in Op, Finish(o) \/ Abandon(o) PROVE InTurn(g)
    <3>1. DrainsFrom(active \ {o}, waiting, ahead)
      BY <2>4, ActionsDrain
    <3>2. \A p \in waiting : \A w \in waiting \intersect waiting :
             (p \in waiting => w \in ahead[p]) /\ w # p => w \in ahead[p]
      OBVIOUS
    <3>3. waiting \intersect active = {}
      BY DEF TypeOK
    <3>4. QED
      BY <2>1, <3>1, <3>2, <3>3
  <2>5. QED
    BY <2>2, <2>3, <2>4 DEF Next
<1>2. QED
  BY <1>1, Typing, PTL DEF Spec, NoBarging

-----------------------------------------------------------------------------
(* A pass of drain tests each request once.  What it refuses stays refused *)
(* unless a directory granted behind a request brings the request into its *)
(* owner's lease.                                                          *)
Opens(d, o) ==
    /\ d # o /\ Owner[d] = Owner[o]
    /\ Kind[d] = "directory" /\ Overlapping(d, o)

LEMMA DrainWakes ==
    ASSUME NEW held \in SUBSET Op, NEW queue, NEW front,
           Ordered(queue, front), \A o \in queue : front[o] \subseteq queue,
           \A o, d \in queue : Opens(d, o) => Nested(o, held),
           Drain(held, queue, front)
    PROVE  NoLostWakeup'
<1>1. PICK G \in SUBSET queue :
          /\ Grants(G, held, queue, front)
          /\ active' = held \union G
          /\ waiting' = queue \ G
          /\ ahead' = [o \in Op |-> IF o \in waiting'
                                    THEN front[o] \intersect waiting' ELSE {}]
  BY DEF Drain
<1>2. SUFFICES ASSUME NEW o \in queue \ G, Admits(o, held \union G, front[o] \ G)
               PROVE  FALSE
  <2>1. ASSUME NEW o \in waiting' PROVE ahead'[o] = front[o] \ G
    BY <1>1, <2>1 DEF Ordered
  <2>2. NoLostWakeup' <=> \A o \in waiting' : ~Admits(o, active', ahead'[o])
    BY DEF NoLostWakeup, Admits, Nested, Conflicts, Overlapping, SameOwnerDirectory
  <2>3. QED
    BY <1>1, <1>2, <2>1, <2>2
<1> DEFINE tested == held \union (G \intersect front[o])
<1>3. ~Admits(o, tested, front[o] \ G)
  BY <1>1 DEF Grants
<1>4. \A h \in tested : ~Conflicts(h, o)
  BY <1>2 DEF Admits
<1>5. ~Nested(o, tested) /\ ~(\A w \in front[o] \ G : ~Conflicts(w, o))
  BY <1>3, <1>4 DEF Admits
<1>6. Nested(o, held \union G)
  BY <1>2, <1>5 DEF Admits
<1>7. PICK d \in held \union G : Owner[d] = Owner[o] /\ Kind[d] = "directory" /\ Overlapping(d, o)
  BY <1>6 DEF Nested
<1>8. CASE d \in held
  BY <1>5, <1>7, <1>8 DEF Nested
<1>9. CASE d \in G
  BY <1>1, <1>2, <1>5, <1>7, <1>9 DEF Nested, Opens
<1>10. QED
  BY <1>7, <1>8, <1>9

(* A queued request from outside is alone with its owner, and a directory  *)
(* that lies within its parent's lease never queues.                       *)
Lone == \A d \in waiting :
    /\ Parent[d] = NoParent => \A o \in Live : Owner[o] = Owner[d] => o = d
    /\ Parent[d] # NoParent /\ Kind[d] = "directory" => ~Within(d)

(* Within one tree, what overlaps a path overlaps every path around it. *)
LEMMA OverlapsAround ==
    ASSUME NEW p \in Op, NEW o \in Op, NEW x \in Op,
           <<Scope[p], Scope[o]>> \in Inside, Overlapping(x, o)
    PROVE  Overlapping(x, p) /\ Overlapping(p, x)
<1>1. Scope[p] \in Path /\ Scope[o] \in Path /\ Scope[x] \in Path
  BY OpAssumption
<1>2. CASE <<Scope[x], Scope[o]>> \in Inside
  BY <1>1, <1>2, NestingAssumption DEF Overlapping
<1>3. CASE <<Scope[o], Scope[x]>> \in Inside
  BY <1>1, <1>3, NestingAssumption DEF Overlapping
<1>4. QED
  BY <1>2, <1>3 DEF Overlapping

(* The calls of a waiting request's owner. *)
LEMMA NoneOpens ==
    ASSUME TypeOK, Lone, NEW d \in waiting, NEW x \in waiting
    PROVE  ~Opens(d, x)
<1>1. d \in Op /\ x \in Op
  BY DEF TypeOK
<1>2. CASE Parent[d] = NoParent
  BY <1>2 DEF Lone, Opens, Live
<1>3. CASE Parent[x] = NoParent
  BY <1>3 DEF Lone, Opens, Live
<1>4. CASE Parent[d] # NoParent /\ Parent[x] # NoParent
  BY <1>1, <1>4, NestingAssumption DEF Lone, Opens, OnlyCall
<1>5. QED
  BY <1>2, <1>3, <1>4

(* A directory within its parent's lease is granted when it is asked for:  *)
(* what conflicts with it would conflict with the parent.                  *)
LEMMA WithinGranted ==
    ASSUME TypeOK, Exclusion', NEW o \in Op, Request(o),
           Parent[o] # NoParent, Kind[o] = "directory", Within(o)
    PROVE  o \notin waiting'
<1> DEFINE queue == waiting \union {o}
           front == [ahead EXCEPT ![o] = waiting]
           p == Parent[o]
<1>1. PICK G \in SUBSET queue :
          /\ Grants(G, active, queue, front)
          /\ active' = active \union G
          /\ waiting' = queue \ G
  BY DEF Request, Drain
<1>2. p \in active /\ p \in Op /\ Owner[p] = Owner[o] /\ Kind[p] = "directory"
      /\ <<Scope[p], Scope[o]>> \in Inside
  BY OpAssumption DEF Request, MayCall, Within, TypeOK
<1>3. SUFFICES ASSUME o \in queue \ G PROVE FALSE
  BY <1>1
<1> DEFINE tested == active \union (G \intersect front[o])
<1>4. ~Admits(o, tested, front[o] \ G)
  BY <1>1, <1>3 DEF Grants
<1>5. Nested(o, tested)
  BY <1>2 DEF Nested, Overlapping
<1>6. PICK h \in tested : Conflicts(h, o)
  BY <1>4, <1>5 DEF Admits
<1>7. h \in active' /\ p \in active' /\ h \in Op
  BY <1>1, <1>2, <1>6 DEF TypeOK
<1>8. Owner[h] # Owner[o] /\ Overlapping(h, o)
  BY <1>6 DEF Conflicts, SameOwnerDirectory
<1>9. Conflicts(h, p)
  BY <1>2, <1>7, <1>8, OverlapsAround DEF Conflicts, SameOwnerDirectory
<1>10. QED
  BY <1>2, <1>7, <1>8, <1>9 DEF Exclusion, Conflicts, Overlapping, SameOwnerDirectory

(* A request opens nothing that is not already inside its parent's lease. *)
LEMMA RequestOpensNothing ==
    ASSUME TypeOK, Lone, NEW o \in Op, Request(o), o \notin Live,
           NEW d \in waiting \union {o}, NEW x \in waiting \union {o}, Opens(d, x)
    PROVE  Nested(x, active)
<1>1. d \in Op /\ x \in Op /\ d # x /\ Owner[d] = Owner[x]
  BY DEF TypeOK, Opens
<1>2. CASE d \in waiting /\ x \in waiting
  BY <1>2, NoneOpens
<1>3. ASSUME Parent[o] = NoParent PROVE FALSE
  <2>1. \A w \in waiting : Owner[w] # Owner[o]
    BY <1>3 DEF Request, MayCall, Live
  <2>2. QED
    BY <1>1, <1>2, <2>1, NoneOpens
<1> DEFINE p == Parent[o]
<1>4. p \in active /\ p \in Op /\ p \notin waiting /\ Owner[p] = Owner[o]
  BY <1>3, OpAssumption DEF Request, MayCall, TypeOK
<1>5. \A w \in waiting : Owner[w] = Owner[o] => Parent[w] # NoParent
  BY <1>4 DEF Lone, Live
<1>6. CASE d = o /\ x \in waiting
  <2>1. ~OnlyCall(o)
    BY <1>1, <1>5, <1>6 DEF OnlyCall
  <2>2. Within(o)
    BY <1>3, <1>6, <2>1, NestingAssumption DEF Opens
  <2>3. Overlapping(p, x)
    BY <1>1, <1>4, <1>6, <2>2, OverlapsAround DEF Within, Opens, Overlapping
  <2>4. QED
    BY <1>1, <1>4, <1>6, <2>2, <2>3 DEF Nested, Within
<1>7. CASE x = o /\ d \in waiting
  <2>1. Parent[d] # NoParent /\ Kind[d] = "directory"
    BY <1>1, <1>5, <1>7 DEF Opens
  <2>2. OnlyCall(d)
    BY <1>1, <1>7, <2>1, NestingAssumption DEF Lone
  <2>3. QED
    BY <1>1, <1>3, <1>7, <2>2 DEF OnlyCall
<1>8. QED
  BY <1>1, <1>2, <1>6, <1>7

LEMMA LoneStep == TypeOK /\ Exclusion' /\ Lone /\ [Next]_vars => Lone'
<1> SUFFICES ASSUME TypeOK, Exclusion', Lone, [Next]_vars PROVE Lone'
  OBVIOUS
<1>1. ASSUME NEW held, NEW queue, NEW front, DrainsFrom(held, queue, front),
             queue \subseteq waiting
      PROVE  Lone'
  <2>1. waiting' \subseteq waiting /\ Live' \subseteq Live
    BY <1>1, DrainTypes DEF DrainsFrom, Drain, TypeOK, Live
  <2>2. QED
    BY <2>1 DEF Lone, Within
<1>2. ASSUME NEW o \in Op, Request(o) PROVE Lone'
  <2>1. o \notin Live /\ DrainsFrom(active, waiting \union {o}, [ahead EXCEPT ![o] = waiting])
    BY <1>2, ActionsDrain
  <2>2. waiting' \subseteq waiting \union {o} /\ Live' = Live \union {o}
    BY <2>1, DrainTypes DEF DrainsFrom, Drain, TypeOK, Live
  <2>3. ASSUME NEW d \in waiting', Parent[d] = NoParent, NEW x \in Live', Owner[x] = Owner[d]
        PROVE  x = d
    <3>1. CASE d = o
      BY <1>2, <2>2, <2>3, <3>1 DEF Request, MayCall
    <3>2. CASE d # o /\ x # o
      BY <2>2, <2>3, <3>2 DEF Lone
    <3>3. CASE d # o /\ x = o
      <4>1. d \in waiting /\ d \in Live /\ d \notin active
        BY <2>2, <3>3 DEF Live, TypeOK
      <4>2. Parent[o] # NoParent /\ Parent[o] \in active
        BY <1>2, <2>3, <3>3, <4>1 DEF Request, MayCall
      <4>3. Owner[Parent[o]] = Owner[d] /\ Parent[o] \in Live
        BY <2>3, <3>3, <4>2, OpAssumption DEF Live
      <4>4. QED
        BY <2>3, <4>1, <4>2, <4>3 DEF Lone
    <3>4. QED
      BY <3>1, <3>2, <3>3
  <2>4. ASSUME NEW d \in waiting', Parent[d] # NoParent, Kind[d] = "directory"
        PROVE  ~Within(d)
    BY <1>2, <2>2, <2>4, WithinGranted DEF Lone
  <2>5. QED
    BY <2>3, <2>4 DEF Lone, Within
<1>3. ASSUME NEW o \in Op, Cancel(o) \/ Finish(o) \/ Abandon(o) PROVE Lone'
  BY <1>1, <1>3, ActionsDrain
<1>4. CASE UNCHANGED vars
  BY <1>4 DEF vars, Lone, Live, Within
<1>5. QED
  BY <1>2, <1>3, <1>4 DEF Next

(* No request that could run is left in the queue, whoever ends, gives up  *)
(* or cancels (the drain at the end of every operation of                  *)
(* WorkspaceCoordinator.ts).                                               *)
THEOREM NoRequestOverlooked == Spec => []NoLostWakeup
<1>1. Init => Lone /\ NoLostWakeup
  BY DEF Init, Lone, NoLostWakeup
<1>2. TypeOK /\ Lone /\ NoLostWakeup /\ [Next]_vars => NoLostWakeup'
  <2> SUFFICES ASSUME TypeOK, Lone, NoLostWakeup, [Next]_vars PROVE NoLostWakeup'
    OBVIOUS
  <2>1. ASSUME NEW held, NEW queue, NEW front, DrainsFrom(held, queue, front),
               \A o \in queue : front[o] \subseteq queue,
               \A o, d \in queue : Opens(d, o) => Nested(o, held)
        PROVE  NoLostWakeup'
    BY <2>1, DrainWakes DEF DrainsFrom, TypeOK
  <2>2. ASSUME NEW o \in Op, Request(o) PROVE NoLostWakeup'
    <3>1. o \notin Live /\ DrainsFrom(active, waiting \union {o}, [ahead EXCEPT ![o] = waiting])
      BY <2>2, ActionsDrain
    <3>2. \A w \in waiting \union {o} : [ahead EXCEPT ![o] = waiting][w] \subseteq waiting \union {o}
      BY DEF TypeOK
    <3>3. QED
      BY <2>1, <2>2, <3>1, <3>2, RequestOpensNothing
  <2>3. ASSUME NEW o \in Op, Cancel(o) PROVE NoLostWakeup'
    <3>1. DrainsFrom(active, waiting \ {o}, [w \in Op |-> ahead[w] \ {o}])
      BY <2>3, ActionsDrain
    <3>2. \A w \in waiting \ {o} : [v \in Op |-> ahead[v] \ {o}][w] \subseteq waiting \ {o}
      BY DEF TypeOK
    <3>3. QED
      BY <2>1, <3>1, <3>2, NoneOpens
  <2>4. ASSUME NEW o \in Op, Finish(o) \/ Abandon(o) PROVE NoLostWakeup'
    <3>1. DrainsFrom(active \ {o}, waiting, ahead)
      BY <2>4, ActionsDrain
    <3>2. \A w \in waiting : ahead[w] \subseteq waiting
      BY DEF TypeOK
    <3>3. QED
      BY <2>1, <3>1, <3>2, NoneOpens
  <2>5. CASE UNCHANGED vars
    BY <2>5 DEF vars, NoLostWakeup, Admits, Nested, Conflicts, Overlapping, SameOwnerDirectory
  <2>6. QED
    BY <2>2, <2>3, <2>4, <2>5 DEF Next
<1>3. QED
  BY <1>1, <1>2, LoneStep, Typing, MutualExclusion, PTL DEF Spec

=============================================================================
