--------------------------- MODULE ScavengerProofs ---------------------------
(***************************************************************************)
(* Proofs about the collector for every heap, every set of code objects,   *)
(* weakrefs, proxies and layouts, and every bound: its type invariant,     *)
(* that no collection leaves a dangling pointer (NoDangling) or a pointer  *)
(* to an old address (NoStalePointer), and what a collection keeps, clears, *)
(* queues and reclaims.                                                    *)
(***************************************************************************)
EXTENDS Scavenger, FiniteSetTheorems, SequenceTheorems, TLAPS

-----------------------------------------------------------------------------
(***************************************************************************)
(* Facts about the operators.                                              *)
(***************************************************************************)

\* Reach(S) is in every set of existing objects that is closed under references
\* and includes S.
LEMMA ReachInClosed ==
    ASSUME NEW S, NEW T \in SUBSET Existing, S \subseteq T,
           \A p \in T : refs[p] \subseteq T
    PROVE  Reach(S) \subseteq T
  BY DEF Reach

\* The members of a queue after an append.
LEMMA ElemsAppend ==
    ASSUME NEW X, NEW q \in Seq(X), NEW x \in X
    PROVE  Elems(Append(q, x)) = Elems(q) \cup {x}
  <1>1. /\ Len(Append(q, x)) = Len(q) + 1
        /\ \A i \in 1..Len(q) : Append(q, x)[i] = q[i]
        /\ Append(q, x)[Len(q) + 1] = x
        /\ DOMAIN q = 1..Len(q) /\ DOMAIN Append(q, x) = 1..(Len(q) + 1)
        /\ Len(q) \in Nat
    OBVIOUS
  <1>2. 1..(Len(q) + 1) = 1..Len(q) \cup {Len(q) + 1}
    BY <1>1
  <1> QED
    BY <1>1, <1>2 DEF Elems

\* The members of two queues spliced together.
LEMMA ElemsConcat ==
    ASSUME NEW X, NEW q \in Seq(X), NEW r \in Seq(X)
    PROVE  Elems(q \o r) = Elems(q) \cup Elems(r)
  <1>1. /\ DOMAIN q = 1..Len(q) /\ DOMAIN r = 1..Len(r)
        /\ DOMAIN (q \o r) = 1..(Len(q) + Len(r))
        /\ Len(q) \in Nat /\ Len(r) \in Nat
        /\ \A i \in 1..Len(q) : (q \o r)[i] = q[i]
        /\ \A i \in 1..Len(r) : (q \o r)[Len(q) + i] = r[i]
    OBVIOUS
  <1>2. Elems(q) \cup Elems(r) \subseteq Elems(q \o r)
    <2>1. \A i \in 1..Len(q) : i \in 1..(Len(q) + Len(r))
      BY <1>1
    <2>2. \A i \in 1..Len(r) : Len(q) + i \in 1..(Len(q) + Len(r))
      BY <1>1
    <2> QED
      BY <1>1, <2>1, <2>2 DEF Elems
  <1>3. ASSUME NEW i \in 1..(Len(q) + Len(r))
        PROVE  (q \o r)[i] \in Elems(q) \cup Elems(r)
    <2>1. CASE i \in 1..Len(q)
      BY <2>1, <1>1 DEF Elems
    <2>2. CASE i \notin 1..Len(q)
      <3>1. i - Len(q) \in 1..Len(r) /\ i = Len(q) + (i - Len(q))
        BY <2>2, <1>1
      <3> QED
        BY <3>1, <1>1 DEF Elems
    <2> QED
      BY <2>1, <2>2
  <1> QED
    BY <1>1, <1>2, <1>3 DEF Elems

\* The members of a queue and of what is left of it without its head.
LEMMA ElemsTail ==
    ASSUME NEW X, NEW q \in Seq(X), q # <<>>
    PROVE  /\ Head(q) \in Elems(q)
           /\ Elems(q) = {Head(q)} \cup Elems(Tail(q))
           /\ Tail(q) \in Seq(X)
  <1>1. /\ DOMAIN q = 1..Len(q) /\ Len(q) \in Nat /\ Len(q) > 0
        /\ Head(q) = q[1]
        /\ Tail(q) \in Seq(X)
        /\ DOMAIN Tail(q) = 1..(Len(q) - 1)
        /\ \A i \in 1..(Len(q) - 1) : Tail(q)[i] = q[i + 1]
    OBVIOUS
  <1>2. \A i \in 1..(Len(q) - 1) : i + 1 \in 1..Len(q)
    BY <1>1
  <1>3. \A i \in 1..Len(q) : i = 1 \/ (i - 1 \in 1..(Len(q) - 1) /\ i = (i - 1) + 1)
    BY <1>1
  <1>4. 1 \in 1..Len(q)
    BY <1>1
  <1>5. Head(q) \in Elems(q)
    BY <1>1, <1>4 DEF Elems
  <1>6. Elems(Tail(q)) \subseteq Elems(q)
    BY <1>1, <1>2 DEF Elems
  <1>7. ASSUME NEW i \in 1..Len(q)
        PROVE  q[i] \in {Head(q)} \cup Elems(Tail(q))
    <2>1. CASE i = 1
      BY <2>1, <1>1
    <2>2. CASE i # 1
      <3>1. i - 1 \in 1..(Len(q) - 1) /\ Tail(q)[i - 1] = q[i]
        BY <2>2, <1>1, <1>3
      <3> QED
        BY <3>1, <1>1 DEF Elems
    <2> QED
      BY <2>1, <2>2
  <1> QED
    BY <1>1, <1>5, <1>6, <1>7 DEF Elems

\* A listing of a set of objects is a sequence of its members.
LEMMA OrdersAreSequences ==
    ASSUME NEW S \in SUBSET Obj, NEW q \in Orders(S)
    PROVE  q \in Seq(S) /\ Elems(q) \subseteq S
  <1>1. IsFiniteSet(S)
    BY ScavengerAssumption, FS_Subset
  <1>2. Cardinality(S) \in Nat
    BY <1>1, FS_CardinalityType
  <1>3. q \in [1..Cardinality(S) -> S]
    BY DEF Orders
  <1>4. q \in Seq(S)
    BY <1>2, <1>3
  <1> QED
    BY <1>3, <1>4 DEF Elems

\* What SetTop changes: of the objects held by activations, only the top one.
LEMMA SetTopHeld ==
    ASSUME TypeOK, frames # <<>>, NEW l, NEW c, [loop |-> l, cur |-> c] \in Activation,
           SetTop(l, c)
    PROVE  /\ frames' \in Seq(Activation)
           /\ Held' \subseteq Held \cup ({c} \ {None})
  <1>1. /\ frames \in Seq(Activation) /\ Len(frames) \in Nat /\ Len(frames) > 0
        /\ DOMAIN frames = 1..Len(frames)
        /\ Len(frames) \in 1..Len(frames)
    BY DEF TypeOK, Activation
  <1>3. frames' = [frames EXCEPT ![Len(frames)] = [loop |-> l, cur |-> c]]
    BY DEF SetTop
  <1>4. frames' \in Seq(Activation)
    BY <1>1, <1>3
  <1>5. DOMAIN frames' = DOMAIN frames
    BY <1>3
  <1>6. \A i \in DOMAIN frames : frames'[i].cur = frames[i].cur \/ frames'[i].cur = c
    BY <1>1, <1>3
  <1> QED
    BY <1>4, <1>5, <1>6 DEF Held

\* An activation is done with its item, or goes on to the other queue.
LEMMA SetTopNone ==
    ASSUME TypeOK, frames # <<>>, NEW l \in {"callbacks", "finalizers"}, SetTop(l, None)
    PROVE  frames' \in Seq(Activation) /\ Held' \subseteq Held
  <1>1. [loop |-> l, cur |-> None] \in Activation
    BY DEF Activation
  <1> QED
    BY <1>1, SetTopHeld

\* An activation takes an item from its queue.
LEMMA SetTopItem ==
    ASSUME TypeOK, frames # <<>>, NEW o,
           \/ o \in WeakRef /\ SetTop("callbacks", o)
           \/ o \in Proxy /\ SetTop("finalizers", o)
    PROVE  frames' \in Seq(Activation) /\ Held' \subseteq Held \cup {o}
  <1>1. /\ o \in WeakRef => [loop |-> "callbacks", cur |-> o] \in Activation
        /\ o \in Proxy => [loop |-> "finalizers", cur |-> o] \in Activation
    BY DEF Activation
  <1> QED
    BY <1>1, SetTopHeld

\* The object a finalizer loop holds is an extension object.
LEMMA FinalizedIsProxy ==
    ASSUME TypeOK, InLoop("finalizers"), Top.cur # None
    PROVE  Top.cur \in Proxy
  <1>1. frames \in Seq(Activation) /\ frames # <<>> /\ Top.loop = "finalizers"
    BY DEF TypeOK, InLoop
  <1>2. frames[Len(frames)] \in Activation
    BY <1>1
  <1> QED
    BY <1>1, <1>2 DEF Top, Activation

\* What an activation pushed or popped changes.
LEMMA PushPopHeld ==
    ASSUME TypeOK
    PROVE  /\ \A l \in {"callbacks", "finalizers"} :
                frames' = Append(frames, [loop |-> l, cur |-> None])
                => frames' \in Seq(Activation) /\ Held' \subseteq Held
           /\ frames # <<>> /\ frames' = SubSeq(frames, 1, Len(frames) - 1)
                => frames' \in Seq(Activation) /\ Held' \subseteq Held
  <1>1. /\ frames \in Seq(Activation) /\ Len(frames) \in Nat
        /\ DOMAIN frames = 1..Len(frames)
    BY DEF TypeOK, Activation
  <1>2. ASSUME NEW l \in {"callbacks", "finalizers"},
               frames' = Append(frames, [loop |-> l, cur |-> None])
        PROVE  frames' \in Seq(Activation) /\ Held' \subseteq Held
    <2>1. [loop |-> l, cur |-> None] \in Activation
      BY DEF Activation
    <2>2. /\ frames' \in Seq(Activation)
          /\ DOMAIN frames' = 1..(Len(frames) + 1)
          /\ \A i \in 1..Len(frames) : frames'[i] = frames[i]
          /\ frames'[Len(frames) + 1].cur = None
      BY <1>1, <1>2, <2>1
    <2>3. \A i \in 1..(Len(frames) + 1) : i \in 1..Len(frames) \/ i = Len(frames) + 1
      BY <1>1
    <2> QED
      BY <1>1, <2>2, <2>3 DEF Held
  <1>3. ASSUME frames # <<>>, frames' = SubSeq(frames, 1, Len(frames) - 1)
        PROVE  frames' \in Seq(Activation) /\ Held' \subseteq Held
    <2>1. Len(frames) > 0
      BY <1>1, <1>3
    <2>2. /\ frames' \in Seq(Activation)
          /\ DOMAIN frames' = 1..(Len(frames) - 1)
          /\ \A i \in 1..(Len(frames) - 1) : frames'[i] = frames[i]
      BY <1>1, <1>3, <2>1
    <2>3. \A i \in 1..(Len(frames) - 1) : i \in 1..Len(frames)
      BY <1>1
    <2> QED
      BY <1>1, <2>2, <2>3 DEF Held
  <1> QED
    BY <1>2, <1>3

\* Running code can get hold only of objects that exist.
LEMMA AccessibleExists ==
    ASSUME TypeOK, ClosedHeap
    PROVE  Accessible \subseteq Existing
  <1>1. roots \cup Held \cup {o \in handles : refcnt[o] > 0}
          \cup {x \in tracked : refcnt[x] > 1} \subseteq Existing
    BY DEF ClosedHeap, RootSet
  <1>2. Existing \in SUBSET Obj /\ \A p \in Existing : refs[p] \subseteq Existing
    BY DEF ClosedHeap, Existing
  <1> QED
    BY <1>1, <1>2, ReachInClosed DEF Accessible

\* What scavengePointer() on the pointers to S does: the objects it moves were
\* in from-space, every object of S has been kept, and no other has gone.
LEMMA Scavenged ==
    ASSUME TypeOK, NEW h, NEW S, S \subseteq Existing,
           NEW loc \in {"to", "immortal"}, Scavenge(h, S, loc)
    PROVE  /\ space' \in [Obj -> {"none", "from", "to", "immortal"}]
           /\ Existing' = Existing
           /\ Moved(S) \subseteq Existing \ Kept
           /\ Kept' = Kept \cup Moved(S)
           /\ S \subseteq Kept'
           /\ fwd' = fwd \cup Moved(S)
           /\ stale' \in [Holders -> SUBSET Obj]
           /\ \A k \in Holders : stale'[k] \subseteq stale[k] \cup (Moved(S) \cap HeldBy(k))
           /\ \A k \in Holders : k = h => stale'[k] \cap S = {}
  <1>1. Moved(S) \subseteq In("from")
    BY DEF Moved
  <1>2. /\ space' = [o \in Obj |-> IF o \notin Moved(S) THEN space[o]
                                  ELSE IF o \in Code THEN "immortal" ELSE loc]
        /\ fwd' = fwd \cup Moved(S)
    BY DEF Scavenge
  <1>3. space' \in [Obj -> {"none", "from", "to", "immortal"}]
    BY <1>2 DEF TypeOK
  <1>4. Existing' = Existing
    BY <1>1, <1>2 DEF Existing, In
  <1>5. Moved(S) \subseteq Existing \ Kept
    BY <1>1 DEF Existing, Kept, In
  <1>6. Kept' = Kept \cup Moved(S)
    BY <1>1, <1>2 DEF Kept, In
  <1>7. S \subseteq Kept'
    <2>1. \A o \in S : o \in In("from") => o \in Moved(S)
      BY DEF Moved
    <2>2. \A o \in Existing : o \in In("from") \/ o \in Kept
      BY DEF Existing, Kept, In, TypeOK
    <2> QED
      BY <1>6, <2>1, <2>2
  <1>8. \A k \in Holders :
          stale'[k] = (stale[k] \cup (Moved(S) \cap HeldBy(k)))
                        \ (IF k = h THEN S
                           ELSE IF k = "layout"
                                THEN {LayoutOf[o] : o \in S \cap In("from")}
                                ELSE {})
    BY DEF Scavenge
  <1>9. Moved(S) \subseteq Obj
    BY <1>1 DEF In
  <1>10. stale' \in [Holders -> SUBSET Obj]
    BY <1>9 DEF Scavenge, TypeOK
  <1> QED
    BY <1>2, <1>3, <1>4, <1>5, <1>6, <1>7, <1>8, <1>10

-----------------------------------------------------------------------------
(***************************************************************************)
(* Type correctness.                                                       *)
(***************************************************************************)

\* Scanning an object keeps the types of what it changes.
LEMMA ScanObjectType ==
    ASSUME TypeOK, ClosedHeap, NEW o \in Existing, NEW loc \in {"to", "immortal"},
           ScanObject(o, loc)
    PROVE  /\ space' \in [Obj -> {"none", "from", "to", "immortal"}]
           /\ fwd' \subseteq Obj /\ gray' \subseteq Obj
           /\ stale' \in [Holders -> SUBSET Obj]
           /\ delayed' \in Seq(WeakRef)
           /\ UNCHANGED <<refs, referent, hasCallback, roots, layouts, capiVars,
                          queueVars, dest, delayedCallbacks, runCallback>>
  <1>1. Scavenge("field", refs[o], loc) /\ refs[o] \subseteq Existing
    BY DEF ScanObject, ClosedHeap
  <1>2. Moved(refs[o]) \subseteq Obj
    BY <1>1, Scavenged DEF Existing
  <1>3. delayed' \in Seq(WeakRef)
    BY DEF ScanObject, TypeOK
  <1> QED
    BY <1>1, <1>2, <1>3, Scavenged DEF ScanObject, TypeOK

\* What running code can get hold of are objects.
LEMMA AccessibleObjects == Accessible \subseteq Obj
  BY DEF Accessible, Reach

\* The steps of running code keep the types.
LEMMA MutateType == TypeOK /\ Mutate => TypeOK'
  <1> SUFFICES ASSUME TypeOK, Mutate PROVE TypeOK'
    OBVIOUS
  <1>1. ASSUME NEW o \in Obj, NEW S \in SUBSET Obj, NewObject(o, S) PROVE TypeOK'
    BY <1>1 DEF NewObject, Allocate, TypeOK, Accessible, Reach,
       heapVars, capiVars, queueVars, gcVars
  <1>2. ASSUME NEW o \in Obj, NEW S \in SUBSET Obj, NewExtensionObject(o, S)
        PROVE  TypeOK'
    BY <1>2 DEF NewExtensionObject, Allocate, TypeOK, Accessible, Reach,
       heapVars, capiVars, queueVars, gcVars
  <1>3. ASSUME NEW o \in Obj, NEW S \in SUBSET Obj, SetFields(o, S) PROVE TypeOK'
    BY <1>3 DEF SetFields, TypeOK, Accessible, Reach,
       heapVars, capiVars, queueVars, gcVars
  <1>4. ASSUME NEW w \in WeakRef, NEW r \in Obj, NEW b \in BOOLEAN,
               NEW S \in SUBSET Obj, NewWeakRef(w, r, b, S)
        PROVE  TypeOK'
    BY <1>4, ScavengerAssumption DEF NewWeakRef, Allocate, TypeOK, Accessible, Reach,
       heapVars, capiVars, queueVars, gcVars
  <1>5. ASSUME NEW o \in Obj, AddRoot(o) PROVE TypeOK'
    BY <1>5 DEF AddRoot, TypeOK, Accessible, Reach,
       heapVars, capiVars, queueVars, gcVars
  <1>6. ASSUME NEW o \in Obj, DropRoot(o) PROVE TypeOK'
    BY <1>6 DEF DropRoot, TypeOK, Accessible, Reach,
       heapVars, capiVars, queueVars, gcVars
  <1>7. ASSUME NEW o \in Obj, NewReference(o) PROVE TypeOK'
    <2>1. /\ refcnt' \in [Obj -> Nat] /\ handles' \subseteq Wrapped
          /\ borrowed' \subseteq Obj
      <3>1. refcnt' = [refcnt EXCEPT ![o] = 1] \/ refcnt' = [refcnt EXCEPT ![o] = @ + 1]
        BY <1>7 DEF NewReference
      <3>2. refcnt' \in [Obj -> Nat]
        <4>1. refcnt \in [Obj -> Nat]
          BY DEF TypeOK
        <4> QED
          BY <3>1, <4>1
      <3>3. handles' \subseteq Wrapped /\ borrowed' \subseteq Obj
        BY <1>7 DEF NewReference, TypeOK
      <3> QED
        BY <3>2, <3>3
    <2> QED
      BY <1>7, <2>1 DEF NewReference, TypeOK, heapVars, queueVars, gcVars
  <1>8. ASSUME NEW o \in Obj, BorrowedReference(o) PROVE TypeOK'
    BY <1>8 DEF BorrowedReference, TypeOK, Accessible, Reach,
       heapVars, capiVars, queueVars, gcVars
  <1>9. ASSUME NEW o \in Obj, Decref(o) PROVE TypeOK'
    BY <1>9 DEF Decref, TypeOK, Accessible, Reach,
       heapVars, capiVars, queueVars, gcVars
  <1>10. ASSUME NEW o \in Obj, StealReference(o) PROVE TypeOK'
    BY <1>10 DEF StealReference, TypeOK, Accessible, Reach,
       heapVars, capiVars, queueVars, gcVars
  <1>11. ASSUME NEW o \in Obj, SetCache(o) PROVE TypeOK'
    BY <1>11 DEF SetCache, TypeOK, Accessible, Reach,
       heapVars, capiVars, queueVars, gcVars
  <1> QED
    BY <1>1, <1>2, <1>3, <1>4, <1>5, <1>6, <1>7, <1>8, <1>9, <1>10, <1>11, AccessibleObjects
    DEF Mutate

\* A step of a collection keeps the types.
LEMMA CollectType == TypeOK /\ ClosedHeap /\ Collect => TypeOK'
  <1> SUFFICES ASSUME TypeOK, ClosedHeap, Collect PROVE TypeOK'
    OBVIOUS
  <1> USE DEF heapVars, capiVars, queueVars, gcVars
  <1>1. ASSUME NEW o \in Obj, ScanImmortalSpace(o) PROVE TypeOK'
    <2>1. o \in Existing /\ dest \in {"to", "immortal"} /\ ScanObject(o, dest)
      BY <1>1 DEF ScanImmortalSpace, TypeOK, In, Existing
    <2> QED
      BY <1>1, <2>1, ScanObjectType DEF ScanImmortalSpace, TypeOK
  <1>2. ASSUME NEW o \in Obj, ProcessGrayImmortal(o) PROVE TypeOK'
    <2>1. o \in Existing /\ ScanObject(o, "immortal")
      BY <1>2 DEF ProcessGrayImmortal, In, Existing
    <2> QED
      BY <1>2, <2>1, ScanObjectType DEF ProcessGrayImmortal, TypeOK
  <1>3. ASSUME NEW o \in Obj, ProcessGrayTo(o) PROVE TypeOK'
    <2>1. o \in Existing /\ dest \in {"to", "immortal"} /\ ScanObject(o, dest)
      BY <1>3 DEF ProcessGrayTo, TypeOK, In, Existing
    <2> QED
      BY <1>3, <2>1, ScanObjectType DEF ProcessGrayTo, TypeOK
  <1>4. CASE ImmortalSpaceScanned
    BY <1>4 DEF ImmortalSpaceScanned, TypeOK, Phases
  <1>5. CASE VisitRoots
    <2>1. RootSet \subseteq Existing /\ dest \in {"to", "immortal"}
      BY DEF ClosedHeap, TypeOK
    <2>2. Moved(RootSet) \subseteq Obj
      BY DEF Moved, In
    <2> QED
      BY <1>5, <2>1, <2>2, Scavenged DEF VisitRoots, TypeOK, Phases
  <1>6. CASE VisitIncrementedApiHandles
    <2> DEFINE S == {o \in handles : refcnt[o] > 0}
    <2>1. S \subseteq Existing /\ dest \in {"to", "immortal"}
      BY DEF ClosedHeap, TypeOK
    <2>2. Moved(S) \subseteq Obj
      BY DEF Moved, In
    <2>3. Scavenge("local", S, dest) /\ gray' = gray \cup Moved(S)
      BY <1>6 DEF VisitIncrementedApiHandles
    <2> HIDE DEF S
    <2> QED
      BY <1>6, <2>1, <2>2, <2>3, Scavenged
      DEF VisitIncrementedApiHandles, TypeOK, Phases
  <1>7. CASE GrayObjectsProcessed
    <2>1. AfterGray(phase) \in Phases
      BY DEF AfterGray, Phases
    <2> QED
      BY <1>7, <2>1 DEF GrayObjectsProcessed, TypeOK
  <1>8. CASE VisitExtensionObjects
    <2>1. tracked \subseteq Existing /\ dest \in {"to", "immortal"}
      BY DEF ClosedHeap, TypeOK
    <2>2. Moved(tracked) \subseteq Obj
      BY DEF Moved, In
    <2>3. finalizable' \in Seq(Proxy)
      <3> DEFINE dead == {x \in tracked : refcnt[x] <= 1 /\ IsWhite(x)}
      <3>1. PICK q \in Orders(dead) : finalizable' = finalizable \o q
        BY <1>8 DEF VisitExtensionObjects
      <3>2. dead \in SUBSET Obj /\ dead \subseteq Proxy
        BY ScavengerAssumption DEF TypeOK
      <3>3. q \in Seq(dead)
        BY <3>2, OrdersAreSequences
      <3>4. q \in Seq(Proxy)
        BY <3>2, <3>3
      <3> QED
        BY <3>1, <3>4 DEF TypeOK
    <2> QED
      BY <1>8, <2>1, <2>2, <2>3, Scavenged DEF VisitExtensionObjects, TypeOK, Phases
  <1>9. CASE VisitNotIncrementedBorrowedApiHandles
    <2>1. /\ space' \in [Obj -> {"none", "from", "to", "immortal"}]
          /\ handles' \subseteq Wrapped /\ caches' \subseteq Obj
          /\ borrowed' \subseteq Obj
      BY <1>9 DEF VisitNotIncrementedBorrowedApiHandles, TypeOK
    <2>2. \A S : Moved(S) \subseteq Obj
      BY DEF Moved, In
    <2>3. /\ fwd' \subseteq Obj /\ gray' \subseteq Obj
          /\ stale' \in [Holders -> SUBSET Obj]
      BY <1>9, <2>2 DEF VisitNotIncrementedBorrowedApiHandles, TypeOK
    <2> QED
      BY <1>9, <2>1, <2>3 DEF VisitNotIncrementedBorrowedApiHandles, TypeOK, Phases
  <1>10. CASE ProcessDelayedReference
    <2>1. /\ Head(delayed) \in WeakRef /\ delayed' \in Seq(WeakRef)
      BY <1>10 DEF ProcessDelayedReference, TypeOK
    <2>2. delayedCallbacks' \in Seq(WeakRef)
      BY <1>10, <2>1 DEF ProcessDelayedReference, TypeOK
    <2>3. referent' \in [Obj -> Obj \cup {None}]
      BY <1>10 DEF ProcessDelayedReference, TypeOK
    <2> QED
      BY <1>10, <2>1, <2>2, <2>3 DEF ProcessDelayedReference, TypeOK
  <1>11. CASE DelayedReferencesProcessed
    BY <1>11 DEF DelayedReferencesProcessed, TypeOK, Phases
  <1>12. CASE ProcessLayouts
    BY <1>12 DEF ProcessLayouts, TypeOK, Phases
  <1>13. CASE SwapSpaces
    <2>1. frames' \in Seq(Activation)
      BY <1>13, PushPopHeld DEF SwapSpaces
    <2>2. /\ space' \in [Obj -> {"none", "from", "to", "immortal"}]
          /\ refs' \in [Obj -> SUBSET Obj]
          /\ referent' \in [Obj -> Obj \cup {None}]
          /\ callbacks' \in Seq(WeakRef) /\ delayedCallbacks' \in Seq(WeakRef)
      BY <1>13 DEF SwapSpaces, TypeOK
    <2> QED
      BY <1>13, <2>1, <2>2 DEF SwapSpaces, TypeOK, Phases, Activation
  <1> QED
    BY <1>1, <1>2, <1>3, <1>4, <1>5, <1>6, <1>7, <1>8, <1>9, <1>10, <1>11,
       <1>12, <1>13 DEF Collect

\* The loops over the two queues keep the types.
LEMMA QueuesType == TypeOK /\ (DrainQueues \/ UserCodeReturns) => TypeOK'
  <1> SUFFICES ASSUME TypeOK, DrainQueues \/ UserCodeReturns PROVE TypeOK'
    OBVIOUS
  <1> USE DEF heapVars, capiVars, queueVars, gcVars
  <1>0. frames # <<>> => Top.cur \in Obj \cup {None}
    <2>1. frames \in Seq(Activation)
      BY DEF TypeOK, Activation
    <2>2. frames # <<>> => frames[Len(frames)] \in Activation
      BY <2>1
    <2> QED
      BY <2>2, ScavengerAssumption DEF Top, Activation
  <1>1. CASE DequeueCallback
    <2>1. Head(callbacks) \in WeakRef /\ callbacks' \in Seq(WeakRef)
      BY <1>1 DEF DequeueCallback, TypeOK
    <2>2. frames' \in Seq(Activation)
      BY <1>1, <2>1, SetTopItem DEF DequeueCallback, InLoop
    <2> QED
      BY <1>1, <2>1, <2>2 DEF DequeueCallback, TypeOK, Activation
  <1>2. CASE CallbacksProcessed
    <2>1. frames' \in Seq(Activation)
      BY <1>2, SetTopNone DEF CallbacksProcessed, InLoop
    <2> QED
      BY <1>2, <2>1 DEF CallbacksProcessed, TypeOK, Activation
  <1>3. CASE FinalizeExtensionObject
    <2>1. Head(finalizable) \in Proxy /\ finalizable' \in Seq(Proxy)
      BY <1>3 DEF FinalizeExtensionObject, TypeOK
    <2>2. Head(finalizable) \in Obj
      BY <2>1, ScavengerAssumption
    <2>3. frames' \in Seq(Activation)
      BY <1>3, <2>1, SetTopItem
      DEF FinalizeExtensionObject, InLoop, TypeOK
    <2>4. refcnt' \in [Obj -> Nat] /\ borrowed' \subseteq Obj
      <3>1. refcnt \in [Obj -> Nat] /\ borrowed \subseteq Obj
        BY DEF TypeOK
      <3>2. \/ refcnt' = refcnt /\ borrowed' = borrowed
            \/ /\ refcnt' = [refcnt EXCEPT ![Head(finalizable)] = 0]
               /\ borrowed' = borrowed \cup {Head(finalizable)}
        BY <1>3 DEF FinalizeExtensionObject
      <3> QED
        BY <2>2, <3>1, <3>2
    <2>5. phase' \in Phases
      BY <1>3 DEF FinalizeExtensionObject, TypeOK, Phases
    <2> QED
      BY <1>3, <2>1, <2>3, <2>4, <2>5
      DEF FinalizeExtensionObject, TypeOK, Activation
  <1>4. CASE CollectGarbageReturns
    <2>1. frames' \in Seq(Activation)
      BY <1>4, PushPopHeld DEF CollectGarbageReturns, InLoop
    <2> QED
      BY <1>4, <2>1 DEF CollectGarbageReturns, TypeOK, Activation
  <1>5. CASE CallbackReturns
    <2>1. frames' \in Seq(Activation)
      BY <1>5, SetTopNone DEF CallbackReturns, InLoop
    <2> QED
      BY <1>5, <2>1 DEF CallbackReturns, TypeOK, Activation
  <1>6. CASE DeallocReleases
    <2>1. frames' \in Seq(Activation)
      BY <1>6, SetTopNone DEF DeallocReleases, InLoop
    <2> QED
      BY <1>6, <2>1 DEF DeallocReleases, TypeOK, Activation
  <1>7. CASE DeallocResurrects
    <2>1. frames' \in Seq(Activation)
      BY <1>7, SetTopNone DEF DeallocResurrects, InLoop
    <2> QED
      BY <1>7, <2>1 DEF DeallocResurrects, TypeOK, Activation
  <1> QED
    BY <1>1, <1>2, <1>3, <1>4, <1>5, <1>6, <1>7 DEF DrainQueues, UserCodeReturns

\* Every step keeps the types.
LEMMA NextType == TypeOK /\ ClosedHeap /\ [Next]_vars => TypeOK'
  <1> SUFFICES ASSUME TypeOK, ClosedHeap, [Next]_vars PROVE TypeOK'
    OBVIOUS
  <1>1. ASSUME NEW d \in {"to", "immortal"}, CollectGarbageInto(d) PROVE TypeOK'
    BY <1>1 DEF CollectGarbageInto, TypeOK, Phases, In, heapVars, capiVars, queueVars
  <1>2. CASE UNCHANGED vars
    BY <1>2 DEF vars, heapVars, capiVars, queueVars, gcVars, TypeOK
  <1> QED
    BY <1>1, <1>2, MutateType, CollectType, QueuesType DEF Next, Aborted

-----------------------------------------------------------------------------
(***************************************************************************)
(* The inductive invariant.                                                *)
(***************************************************************************)

\* When no collection runs, or the process aborts, only ClosedHeap can be
\* disturbed.
LEMMA IdleOrAborted ==
    ASSUME TypeOK, Inductive, phase = "run", phase' \in {"run", "aborted"},
           UNCHANGED <<fwd, gray, stale, delayed, delayedCallbacks>>,
           In("to")' = {}, ClosedHeap'
    PROVE  Inductive'
  <1>1. gray = {} /\ fwd = {} /\ delayed = <<>> /\ delayedCallbacks = <<>>
    BY DEF Inductive, PhaseOK, Collecting
  <1>2. \A h \in Holders : stale[h] = {}
    BY DEF Inductive, StaleOK, Collecting
  <1>3. TriColor'
    BY DEF TriColor, Collecting
  <1>4. PhaseOK'
    BY <1>1 DEF PhaseOK, Collecting, AfterRoots, AfterExtension,
       AfterBorrowed, AfterDelayed, AfterLayouts
  <1>5. StaleOK'
    BY <1>2 DEF StaleOK, Collecting, AfterRoots, AfterExtension,
       AfterBorrowed, AfterLayouts, Holders
  <1> QED
    BY <1>3, <1>4, <1>5 DEF Inductive

\* When no collection is in progress, the invariant asks only that the existing
\* objects are closed under references and that nothing is gray or stale.
LEMMA IdleInductive ==
    ASSUME TypeOK, Inductive, phase = "run", UNCHANGED gcVars, In("to")' = {},
           ClosedHeap'
    PROVE  Inductive'
  BY IdleOrAborted DEF gcVars

\* An allocation adds an object with references to objects that exist.
LEMMA AllocateClosed ==
    ASSUME TypeOK, ClosedHeap, NEW o \in Obj, NEW S \in SUBSET Obj, Allocate(o, S)
    PROVE  /\ Existing' = Existing \cup {o}
           /\ \A p \in Existing' : refs'[p] \subseteq Existing'
           /\ In("to")' = In("to")
           /\ roots' = roots \cup {o}
  <1>1. /\ space[o] = "none" /\ space' = [space EXCEPT ![o] = "from"]
        /\ refs' = [refs EXCEPT ![o] = S]
        /\ roots' = roots \cup {o}
        /\ S \subseteq Existing
    BY AccessibleExists DEF Allocate
  <1>2. Existing' = Existing \cup {o}
    BY <1>1 DEF Existing, TypeOK
  <1>3. In("to")' = In("to")
    BY <1>1 DEF In, TypeOK
  <1>4. \A p \in Existing' : refs'[p] \subseteq Existing'
    BY <1>1, <1>2 DEF ClosedHeap, TypeOK, Existing
  <1> QED
    BY <1>1, <1>2, <1>3, <1>4

\* The steps of running code keep the invariant.
LEMMA MutateInductive == TypeOK /\ Inductive /\ Mutate => Inductive'
  <1> SUFFICES ASSUME TypeOK, Inductive, Mutate PROVE Inductive'
    OBVIOUS
  <1>1. /\ ClosedHeap
        /\ phase = "run" => In("to") = {}
        /\ Accessible \subseteq Existing
    BY AccessibleExists DEF Inductive, PhaseOK, Collecting
  <1>2. UNCHANGED queueVars =>
          RootSet' = roots' \cup Elems(callbacks) \cup Elems(finalizable) \cup Held
    BY DEF RootSet, Elems, Held, queueVars
  <1>3. /\ Elems(callbacks) \cup Elems(finalizable) \cup Held \subseteq Existing
        /\ roots \cup handles \cup caches \cup tracked \cup layouts \subseteq Existing
    BY <1>1 DEF ClosedHeap, RootSet
  <1>4. ASSUME UNCHANGED <<space, refs, referent, layouts>>, UNCHANGED queueVars,
               roots' \cup handles' \cup caches' \cup tracked' \subseteq Existing
        PROVE  ClosedHeap' /\ In("to")' = In("to")
    BY <1>1, <1>2, <1>3, <1>4 DEF ClosedHeap, Existing, In
  <1>5. ASSUME NEW o \in Obj, NEW S \in SUBSET Obj, NewObject(o, S)
        PROVE  Inductive'
    <2>1. /\ phase = "run" /\ UNCHANGED <<capiVars, queueVars, gcVars, referent>>
          /\ layouts' \subseteq layouts \cup {o} /\ Allocate(o, S)
      BY <1>5 DEF NewObject, Running
    <2>2. ClosedHeap'
      BY <2>1, <1>1, <1>2, <1>3, AllocateClosed DEF ClosedHeap, capiVars
    <2> QED
      BY <2>1, <2>2, <1>1, AllocateClosed, IdleInductive
  <1>6. ASSUME NEW o \in Obj, NEW S \in SUBSET Obj, NewExtensionObject(o, S)
        PROVE  Inductive'
    <2>1. /\ phase = "run" /\ UNCHANGED <<queueVars, gcVars, referent>>
          /\ UNCHANGED <<layouts, handles, caches>>
          /\ tracked' = tracked \cup {o} /\ Allocate(o, S)
      BY <1>6 DEF NewExtensionObject, Running
    <2>2. ClosedHeap'
      BY <2>1, <1>1, <1>2, <1>3, AllocateClosed DEF ClosedHeap
    <2> QED
      BY <2>1, <2>2, <1>1, AllocateClosed, IdleInductive
  <1>7. ASSUME NEW o \in Obj, NEW S \in SUBSET Obj, SetFields(o, S)
        PROVE  Inductive'
    <2>1. /\ phase = "run" /\ UNCHANGED <<capiVars, queueVars, gcVars>>
          /\ UNCHANGED <<space, referent, roots, layouts>>
          /\ S \subseteq Existing /\ refs' = [refs EXCEPT ![o] = S]
      BY <1>7, <1>1 DEF SetFields, Running
    <2>2. Existing' = Existing /\ In("to")' = In("to")
      BY <2>1 DEF Existing, In
    <2>3. \A p \in Existing : refs'[p] \subseteq Existing
      BY <2>1, <1>1 DEF ClosedHeap, TypeOK, Existing
    <2>4. ClosedHeap'
      BY <2>1, <2>2, <2>3, <1>1, <1>2, <1>3 DEF ClosedHeap, capiVars
    <2> QED
      BY <2>1, <2>2, <2>4, <1>1, IdleInductive
  <1>8. ASSUME NEW w \in WeakRef, NEW r \in Obj, NEW b \in BOOLEAN,
               NEW S \in SUBSET Obj, NewWeakRef(w, r, b, S)
        PROVE  Inductive'
    <2>1. /\ phase = "run" /\ UNCHANGED <<capiVars, queueVars, gcVars, layouts>>
          /\ r \in Existing /\ referent' = [referent EXCEPT ![w] = r]
          /\ Allocate(w, S) /\ w \in Obj
      BY <1>8, <1>1, ScavengerAssumption DEF NewWeakRef, Running
    <2>2. \A p \in Obj :
            referent'[p] # None => /\ referent'[p] \in Existing
                                   /\ p \in WeakRef \cap (Existing \cup {w})
      BY <2>1, <1>1, <1>8 DEF ClosedHeap, TypeOK
    <2>3. ClosedHeap'
      BY <2>1, <2>2, <1>1, <1>2, <1>3, AllocateClosed DEF ClosedHeap, capiVars
    <2> QED
      BY <2>1, <2>3, <1>1, AllocateClosed, IdleInductive
  <1>9. ASSUME NEW o \in Obj, AddRoot(o) PROVE Inductive'
    <2>1. /\ phase = "run" /\ UNCHANGED <<capiVars, queueVars, gcVars>>
          /\ UNCHANGED <<space, refs, referent, layouts>>
          /\ roots' = roots \cup {o}
      BY <1>9 DEF AddRoot, Running
    <2>2. o \in Existing
      BY <1>9, <1>1, ScavengerAssumption DEF AddRoot, ClosedHeap
    <2>3. ClosedHeap' /\ In("to")' = In("to")
      BY <2>1, <2>2, <1>3, <1>4 DEF capiVars
    <2> QED
      BY <2>1, <2>3, <1>1, IdleInductive
  <1>10. ASSUME NEW o \in Obj, DropRoot(o) PROVE Inductive'
    <2>1. /\ phase = "run" /\ UNCHANGED <<capiVars, queueVars, gcVars>>
          /\ UNCHANGED <<space, refs, referent, layouts>>
          /\ roots' \subseteq roots
      BY <1>10 DEF DropRoot, Running
    <2>2. ClosedHeap' /\ In("to")' = In("to")
      BY <2>1, <1>3, <1>4 DEF capiVars
    <2> QED
      BY <2>1, <2>2, <1>1, IdleInductive
  <1>11. ASSUME NEW o \in Obj,
                \/ NewReference(o) \/ BorrowedReference(o) \/ Decref(o)
                \/ StealReference(o) \/ SetCache(o)
         PROVE  Inductive'
    <2>1. /\ phase = "run" /\ UNCHANGED <<queueVars, gcVars, tracked>>
          /\ UNCHANGED <<space, refs, referent, layouts>>
          /\ handles' \cup caches' \cup roots' \subseteq
                handles \cup caches \cup roots \cup {o}
          /\ o \in Accessible \cup handles \cup tracked
      BY <1>11 DEF NewReference, BorrowedReference, Decref, StealReference,
         SetCache, Running, heapVars
    <2>2. ClosedHeap' /\ In("to")' = In("to")
      BY <2>1, <1>1, <1>3, <1>4
    <2> QED
      BY <2>1, <2>2, <1>1, IdleInductive
  <1> QED
    BY <1>5, <1>6, <1>7, <1>8, <1>9, <1>10, <1>11, AccessibleObjects DEF Mutate

\* The objects each holder outside the heap has pointers to.
LEMMA HeldByHolder ==
    /\ HeldBy("root") = RootSet /\ HeldBy("layout") = layouts
    /\ HeldBy("handle") = handles /\ HeldBy("cache") = caches
    /\ HeldBy("ext") = tracked
    /\ HeldBy("root")' = RootSet' /\ HeldBy("layout")' = layouts'
    /\ HeldBy("handle")' = handles' /\ HeldBy("cache")' = caches'
    /\ HeldBy("ext")' = tracked'
  BY DEF HeldBy

\* What a step of a collection that scavenges S leaves as it was: the heap is
\* closed, black objects stay black, and the pointers of a holder whose objects
\* have all been kept do not go stale.
LEMMA ScavengeInductive ==
    ASSUME TypeOK, Inductive, Collecting, NEW h, NEW S, S \subseteq Existing,
           NEW loc \in {"to", "immortal"}, Scavenge(h, S, loc),
           UNCHANGED <<refs, referent, roots, layouts, handles, caches, tracked,
                       callbacks, frames>>,
           Elems(finalizable) \subseteq Elems(finalizable'),
           Elems(finalizable') \subseteq Elems(finalizable) \cup tracked
    PROVE  /\ ClosedHeap'
           /\ Kept \subseteq Kept' /\ fwd' \subseteq Kept'
           /\ RootSet \subseteq RootSet' /\ RootSet' \subseteq RootSet \cup tracked
           /\ \A o \in Kept \ gray :
                /\ refs'[o] \subseteq Kept'
                /\ referent'[o] \in Kept' \cup {None} \/ o \in Elems(delayed)
           /\ \A k \in Holders : stale'[k] \subseteq HeldBy(k)'
           /\ \A k \in Holders : HeldBy(k) \subseteq Kept => stale'[k] \subseteq stale[k]
           /\ \A k \in Holders : k = h /\ HeldBy(k) \subseteq S => stale'[k] = {}
  <1>1. /\ Existing' = Existing
        /\ Moved(S) \subseteq Existing \ Kept
        /\ Kept' = Kept \cup Moved(S)
        /\ fwd' = fwd \cup Moved(S)
        /\ \A k \in Holders : stale'[k] \subseteq stale[k] \cup (Moved(S) \cap HeldBy(k))
        /\ \A k \in Holders : k = h => stale'[k] \cap S = {}
    BY Scavenged
  <1>2. RootSet \subseteq RootSet' /\ RootSet' \subseteq RootSet \cup tracked
    BY DEF RootSet, Elems, Held
  <1>3. ClosedHeap'
    BY <1>1, <1>2 DEF ClosedHeap, Inductive
  <1>4. \A k \in Holders : HeldBy(k) \subseteq HeldBy(k)'
    BY <1>2, HeldByHolder DEF Holders
  <1>5. \A k \in Holders : stale'[k] \subseteq HeldBy(k)'
    BY <1>1, <1>4 DEF Inductive, StaleOK
  <1>6. \A o \in Kept \ gray :
          /\ refs'[o] \subseteq Kept'
          /\ referent'[o] \in Kept' \cup {None} \/ o \in Elems(delayed)
    BY <1>1 DEF Inductive, TriColor
  <1>7. fwd' \subseteq Kept'
    BY <1>1 DEF Inductive, TriColor
  <1>8. \A k \in Holders : stale[k] \subseteq HeldBy(k)
    BY DEF Inductive, StaleOK
  <1>9. \A k \in Holders : HeldBy(k) \subseteq Kept => stale'[k] \subseteq stale[k]
    BY <1>1
  <1>10. \A k \in Holders : k = h /\ HeldBy(k) \subseteq S => stale'[k] = {}
    BY <1>1, <1>8
  <1> QED
    BY <1>1, <1>2, <1>3, <1>5, <1>6, <1>7, <1>9, <1>10

\* Scanning a gray object makes it black.
LEMMA ScanObjectInductive ==
    ASSUME TypeOK, Inductive, Collecting, phase' = phase, NEW o \in gray,
           NEW loc \in {"to", "immortal"}, ScanObject(o, loc)
    PROVE  Inductive'
  <1>1. /\ Scavenge("field", refs[o], loc)
        /\ gray' = (gray \ {o}) \cup Moved(refs[o])
        /\ UNCHANGED <<refs, referent, roots, layouts, handles, caches, tracked,
                       callbacks, finalizable, frames, delayedCallbacks>>
    BY DEF ScanObject, capiVars, queueVars
  <1>2. gray \cup Elems(delayed) \cup Elems(delayedCallbacks) \subseteq Kept
    BY DEF Inductive, TriColor
  <1>3. Kept \subseteq Existing /\ Existing \subseteq Obj
    BY DEF Kept, Existing, In
  <1>4. refs[o] \subseteq Existing
    BY <1>2, <1>3 DEF Inductive, ClosedHeap
  <1>5. /\ Kept' = Kept \cup Moved(refs[o]) /\ refs[o] \subseteq Kept'
    BY <1>1, <1>4, Scavenged
  <1>6. /\ ClosedHeap'
        /\ fwd' \subseteq Kept' /\ RootSet' \subseteq RootSet \cup tracked
        /\ \A p \in Kept \ gray :
             /\ refs'[p] \subseteq Kept'
             /\ referent'[p] \in Kept' \cup {None} \/ p \in Elems(delayed)
        /\ \A k \in Holders : stale'[k] \subseteq HeldBy(k)'
        /\ \A k \in Holders : HeldBy(k) \subseteq Kept => stale'[k] \subseteq stale[k]
    BY <1>1, <1>4, ScavengeInductive
  <1>7. RootSet' = RootSet
    BY <1>1 DEF RootSet, Elems, Held
  <1>8. /\ Elems(delayed) \subseteq Elems(delayed')
        /\ Elems(delayed') \subseteq Elems(delayed) \cup {o}
        /\ referent[o] \in Kept \cup {None} \/ o \in Elems(delayed')
    <2>1. delayed \in Seq(WeakRef)
      BY DEF TypeOK
    <2>2. CASE o \in WeakRef /\ referent[o] # None /\ IsWhite(referent[o])
      <3>1. delayed' = Append(delayed, o)
        BY <2>2 DEF ScanObject
      <3> QED
        BY <2>1, <2>2, <3>1, ElemsAppend
    <2>3. CASE ~(o \in WeakRef /\ referent[o] # None /\ IsWhite(referent[o]))
      <3>1. delayed' = delayed
        BY <2>3 DEF ScanObject
      <3>2. referent[o] # None => o \in WeakRef
        BY <1>2, <1>3 DEF Inductive, ClosedHeap
      <3>3. referent[o] = None \/ referent[o] \in fwd
        BY <2>3, <3>2 DEF IsWhite
      <3>4. fwd \subseteq Kept
        BY DEF Inductive, TriColor
      <3> QED
        BY <3>1, <3>3, <3>4
    <2> QED
      BY <2>2, <2>3
  <1>9. TriColor'
    <2>1. fwd' \cup gray' \cup Elems(delayed') \cup Elems(delayedCallbacks') \subseteq Kept'
      BY <1>1, <1>2, <1>5, <1>6, <1>8
    <2>2. ASSUME NEW p \in Kept' \ gray'
          PROVE  /\ refs'[p] \subseteq Kept'
                 /\ referent'[p] \in Kept' \cup {None} \/ p \in Elems(delayed')
      <3>1. p = o \/ p \in Kept \ gray
        BY <1>1, <1>5
      <3>2. CASE p = o
        BY <3>2, <1>1, <1>5, <1>8
      <3>3. CASE p \in Kept \ gray
        BY <3>3, <1>6, <1>8
      <3> QED
        BY <3>1, <3>2, <3>3
    <2>3. Elems(delayedCallbacks)' = Elems(delayedCallbacks') /\ Elems(delayed)' = Elems(delayed')
      BY DEF Elems
    <2> QED
      BY <2>1, <2>2, <2>3 DEF TriColor
  <1>10. PhaseOK'
    BY <1>1, <1>5, <1>7 DEF Inductive, PhaseOK, Collecting, AfterRoots,
       AfterExtension, AfterBorrowed, AfterDelayed, AfterLayouts
  <1>11. StaleOK'
    <2>1. \A k \in Holders : HeldBy(k) \subseteq Kept /\ stale[k] = {} => stale'[k] = {}
      BY <1>6
    <2> QED
      BY <1>6, <2>1, HeldByHolder DEF Inductive, PhaseOK, StaleOK, Collecting,
         Holders, AfterRoots, AfterExtension, AfterBorrowed, AfterLayouts
  <1> QED
    BY <1>6, <1>9, <1>10, <1>11 DEF Inductive

\* A step that moves the objects S that the runtime or extension code points to,
\* and makes them gray.
LEMMA GrayRoots ==
    ASSUME TypeOK, Inductive, Collecting, Collecting', NEW h, NEW S, S \subseteq Existing,
           NEW loc \in {"to", "immortal"}, Scavenge(h, S, loc),
           gray' = gray \cup Moved(S),
           UNCHANGED <<refs, referent, roots, layouts, handles, caches, tracked,
                       callbacks, frames, delayed, delayedCallbacks>>,
           Elems(finalizable) \subseteq Elems(finalizable'),
           Elems(finalizable') \subseteq Elems(finalizable) \cup tracked
    PROVE  TriColor'
  <1>1. /\ Kept' = Kept \cup Moved(S)
        /\ fwd' \subseteq Kept'
        /\ \A o \in Kept \ gray :
             /\ refs'[o] \subseteq Kept'
             /\ referent'[o] \in Kept' \cup {None} \/ o \in Elems(delayed)
    BY Scavenged, ScavengeInductive
  <1>2. gray \cup Elems(delayed) \cup Elems(delayedCallbacks) \subseteq Kept
    BY DEF Inductive, TriColor
  <1>3. Elems(delayed)' = Elems(delayed) /\ Elems(delayedCallbacks)' = Elems(delayedCallbacks)
    BY DEF Elems
  <1> QED
    BY <1>1, <1>2, <1>3 DEF TriColor

\* The steps of a collection keep the invariant.
LEMMA CollectInductive == TypeOK /\ Inductive /\ Collect => Inductive'
  <1> SUFFICES ASSUME TypeOK, Inductive, Collect PROVE Inductive'
    OBVIOUS
  <1> DEFINE rootsUnchanged ==
        UNCHANGED <<refs, referent, roots, layouts, handles, caches, tracked,
                    callbacks, frames, delayed, delayedCallbacks>>
  <1>1. dest \in {"to", "immortal"}
    BY DEF TypeOK
  <1>2. RootSet \cup handles \cup caches \cup tracked \cup layouts \subseteq Existing
    BY DEF Inductive, ClosedHeap
  <1>3. ASSUME NEW o \in Obj, ScanImmortalSpace(o) PROVE Inductive'
    BY <1>1, <1>3, ScanObjectInductive DEF ScanImmortalSpace, Collecting
  <1>4. ASSUME NEW o \in Obj, ProcessGrayImmortal(o) PROVE Inductive'
    BY <1>4, ScanObjectInductive DEF ProcessGrayImmortal, Collecting, GrayPhases
  <1>5. ASSUME NEW o \in Obj, ProcessGrayTo(o) PROVE Inductive'
    BY <1>1, <1>5, ScanObjectInductive DEF ProcessGrayTo, Collecting, GrayPhases
  <1>6. ASSUME phase' \in {"roots", "extension", "borrowed", "delayed", "layouts", "swap"},
               Collecting, phase' # "roots" => gray = {},
               phase' = "layouts" => delayed = <<>>,
               UNCHANGED <<heapVars, capiVars, queueVars, dest, fwd, gray, stale,
                           delayed, delayedCallbacks>>,
               \/ phase = "immortal" /\ phase' = "roots"
               \/ phase = "gray1" /\ phase' = "extension"
               \/ phase = "gray2" /\ phase' = "borrowed"
               \/ phase = "gray3" /\ phase' = "delayed"
               \/ phase = "delayed" /\ phase' = "layouts"
               \/ phase = "gray4" /\ phase' = "swap"
        PROVE  Inductive'
    <2>1. /\ Existing' = Existing /\ Kept' = Kept /\ RootSet' = RootSet
          /\ Elems(delayed)' = Elems(delayed)
          /\ Elems(delayedCallbacks)' = Elems(delayedCallbacks)
      BY <1>6 DEF Existing, Kept, In, RootSet, Elems, Held, heapVars, queueVars
    <2>2. ClosedHeap' /\ TriColor'
      BY <1>6, <2>1 DEF Inductive, ClosedHeap, TriColor, Collecting, heapVars, capiVars
    <2>3. PhaseOK'
      BY <1>6, <2>1 DEF Inductive, PhaseOK, Collecting, heapVars, capiVars,
         AfterRoots, AfterExtension, AfterBorrowed, AfterDelayed, AfterLayouts
    <2>4. \A k \in Holders : HeldBy(k)' = HeldBy(k)
      BY <1>6, <2>1, HeldByHolder DEF Holders, heapVars, capiVars
    <2>5. StaleOK'
      BY <1>6, <2>4 DEF Inductive, StaleOK, Collecting, AfterRoots,
         AfterExtension, AfterBorrowed, AfterLayouts
    <2> QED
      BY <2>2, <2>3, <2>5 DEF Inductive
  <1>7. CASE ImmortalSpaceScanned
    BY <1>6, <1>7 DEF ImmortalSpaceScanned, Collecting
  <1>8. CASE GrayObjectsProcessed
    <2>1. \/ phase = "gray1" /\ phase' = "extension"
          \/ phase = "gray2" /\ phase' = "borrowed"
          \/ phase = "gray3" /\ phase' = "delayed"
          \/ phase = "gray4" /\ phase' = "swap"
      BY <1>8 DEF GrayObjectsProcessed, GrayPhases, AfterGray
    <2> QED
      BY <1>6, <1>8, <2>1 DEF GrayObjectsProcessed, Collecting
  <1>9. CASE DelayedReferencesProcessed
    <2>1. gray = {}
      BY <1>9 DEF DelayedReferencesProcessed, Inductive, PhaseOK
    <2> QED
      BY <1>6, <1>9, <2>1 DEF DelayedReferencesProcessed, Collecting
  <1>10. CASE VisitRoots
    <2>1. /\ Scavenge("root", RootSet, dest) /\ gray' = gray \cup Moved(RootSet)
          /\ phase = "roots" /\ phase' = "incremented" /\ rootsUnchanged
          /\ finalizable' = finalizable
      BY <1>10 DEF VisitRoots, capiVars, queueVars
    <2>2. Collecting /\ Collecting'
      BY <2>1 DEF Collecting
    <2>3. RootSet' = RootSet /\ Elems(finalizable') = Elems(finalizable)
      BY <2>1 DEF RootSet, Elems, Held
    <2>4. /\ TriColor' /\ ClosedHeap' /\ RootSet \subseteq Kept'
          /\ \A k \in Holders : stale'[k] \subseteq HeldBy(k)'
          /\ stale'["root"] = {}
      BY <1>1, <1>2, <2>1, <2>2, <2>3, GrayRoots, ScavengeInductive, Scavenged,
         HeldByHolder DEF Holders
    <2>5. PhaseOK'
      BY <2>1, <2>3, <2>4 DEF PhaseOK, Collecting, AfterRoots, AfterExtension,
         AfterBorrowed, AfterDelayed, AfterLayouts
    <2>6. StaleOK'
      BY <2>1, <2>4 DEF StaleOK, Collecting, AfterRoots, AfterExtension,
         AfterBorrowed, AfterLayouts
    <2> QED
      BY <2>4, <2>5, <2>6 DEF Inductive
  <1>11. CASE VisitIncrementedApiHandles
    <2> DEFINE S == {o \in handles : refcnt[o] > 0}
    <2>1. /\ Scavenge("local", S, dest) /\ gray' = gray \cup Moved(S)
          /\ phase = "incremented" /\ phase' = "gray1" /\ rootsUnchanged
          /\ finalizable' = finalizable
      BY <1>11 DEF VisitIncrementedApiHandles, capiVars, queueVars
    <2>2. Collecting /\ Collecting' /\ S \subseteq Existing
      BY <1>2, <2>1 DEF Collecting
    <2>3. RootSet' = RootSet /\ Elems(finalizable') = Elems(finalizable)
      BY <2>1 DEF RootSet, Elems, Held
    <2> HIDE DEF S
    <2>4. /\ RootSet \subseteq Kept /\ stale["root"] = {}
      BY <2>1 DEF Inductive, PhaseOK, StaleOK, AfterRoots
    <2>5. /\ TriColor' /\ ClosedHeap' /\ Kept \subseteq Kept'
          /\ \A k \in Holders : stale'[k] \subseteq HeldBy(k)'
          /\ stale'["root"] = {}
      BY <1>1, <2>1, <2>2, <2>3, <2>4, GrayRoots, ScavengeInductive, HeldByHolder
      DEF Holders
    <2>6. PhaseOK'
      BY <2>1, <2>3, <2>4, <2>5 DEF PhaseOK, Collecting, AfterRoots, AfterExtension,
         AfterBorrowed, AfterDelayed, AfterLayouts
    <2>7. StaleOK'
      BY <2>1, <2>5 DEF StaleOK, Collecting, AfterRoots, AfterExtension,
         AfterBorrowed, AfterLayouts
    <2> QED
      BY <2>5, <2>6, <2>7 DEF Inductive
  <1>12. CASE VisitExtensionObjects
    <2>1. /\ Scavenge("ext", tracked, dest) /\ gray' = gray \cup Moved(tracked)
          /\ phase = "extension" /\ phase' = "gray2" /\ rootsUnchanged
      BY <1>12 DEF VisitExtensionObjects, capiVars
    <2>2. Collecting /\ Collecting'
      BY <2>1 DEF Collecting
    <2>3. /\ Elems(finalizable) \subseteq Elems(finalizable')
          /\ Elems(finalizable') \subseteq Elems(finalizable) \cup tracked
      <3> DEFINE dead == {x \in tracked : refcnt[x] <= 1 /\ IsWhite(x)}
      <3>1. PICK q \in Orders(dead) : finalizable' = finalizable \o q
        BY <1>12 DEF VisitExtensionObjects
      <3>2. dead \in SUBSET Obj /\ finalizable \in Seq(Obj)
        BY ScavengerAssumption DEF TypeOK
      <3>3. q \in Seq(Obj) /\ Elems(q) \subseteq tracked
        BY <3>2, OrdersAreSequences
      <3> QED
        BY <3>1, <3>2, <3>3, ElemsConcat
    <2>4. RootSet \subseteq Kept /\ stale["root"] = {}
      BY <2>1 DEF Inductive, PhaseOK, StaleOK, AfterRoots
    <2>5. /\ TriColor' /\ ClosedHeap' /\ Kept \subseteq Kept' /\ tracked \subseteq Kept'
          /\ RootSet' \subseteq RootSet \cup tracked
          /\ \A k \in Holders : stale'[k] \subseteq HeldBy(k)'
          /\ stale'["root"] = {} /\ stale'["ext"] = {}
      BY <1>1, <1>2, <2>1, <2>2, <2>3, <2>4, GrayRoots, ScavengeInductive,
         Scavenged, HeldByHolder DEF Holders
    <2>6. PhaseOK'
      BY <2>1, <2>4, <2>5 DEF PhaseOK, Collecting, AfterRoots, AfterExtension,
         AfterBorrowed, AfterDelayed, AfterLayouts
    <2>7. StaleOK'
      BY <2>1, <2>5 DEF StaleOK, Collecting, AfterRoots, AfterExtension,
         AfterBorrowed, AfterLayouts
    <2> QED
      BY <2>5, <2>6, <2>7 DEF Inductive
  <1>13. CASE VisitNotIncrementedBorrowedApiHandles
    <2> DEFINE freed == {o \in handles : refcnt[o] = 0 /\ IsWhite(o)}
               keys == (handles \ freed) \cup (caches \ freed)
    <2>1. /\ handles' = handles \ freed /\ caches' = caches \ freed
          /\ space' = [o \in Obj |-> IF o \notin Moved(keys) THEN space[o]
                                   ELSE IF o \in Code THEN "immortal" ELSE dest]
          /\ fwd' = fwd \cup Moved(keys) /\ gray' = gray \cup Moved(keys)
          /\ stale' = [k \in Holders |->
                          IF k \in {"handle", "cache"} THEN {}
                          ELSE stale[k] \cup (Moved(keys) \cap HeldBy(k))]
          /\ phase = "borrowed" /\ phase' = "gray3"
          /\ UNCHANGED <<refs, referent, roots, layouts, tracked, callbacks,
                         finalizable, frames, delayed, delayedCallbacks>>
      BY <1>13 DEF VisitNotIncrementedBorrowedApiHandles, queueVars
    <2>2. keys \subseteq Existing /\ handles' \cup caches' = keys
      BY <1>2, <2>1
    <2> HIDE DEF keys, freed
    <2>3. Moved(keys) \subseteq In("from")
      BY DEF Moved
    <2>4. Existing' = Existing
      BY <1>1, <2>1, <2>3 DEF Existing, In
    <2>5. Kept' = Kept \cup Moved(keys) /\ Moved(keys) \cap Kept = {}
      BY <1>1, <2>1, <2>3 DEF Kept, In
    <2>6. keys \subseteq Kept'
      <3>1. \A o \in keys : o \in In("from") => o \in Moved(keys)
        BY DEF Moved
      <3>2. \A o \in Existing : o \in In("from") \/ o \in Kept
        BY DEF Existing, Kept, In, TypeOK
      <3> QED
        BY <2>2, <2>5, <3>1, <3>2
    <2>7. RootSet' = RootSet /\ Elems(delayed)' = Elems(delayed)
          /\ Elems(delayedCallbacks)' = Elems(delayedCallbacks)
      BY <2>1 DEF RootSet, Elems, Held
    <2>8. ClosedHeap'
      BY <1>2, <2>1, <2>2, <2>4, <2>7 DEF Inductive, ClosedHeap
    <2>9. TriColor'
      BY <2>1, <2>5, <2>7 DEF Inductive, TriColor, Collecting
    <2>10. /\ RootSet \subseteq Kept /\ tracked \subseteq Kept
           /\ stale["root"] = {} /\ stale["ext"] = {}
           /\ stale["layout"] \subseteq layouts
      BY <2>1, HeldByHolder DEF Inductive, PhaseOK, StaleOK, AfterRoots, AfterExtension,
         Holders
    <2>11. PhaseOK'
      BY <2>1, <2>2, <2>5, <2>6, <2>7, <2>10 DEF PhaseOK, Collecting, AfterRoots,
         AfterExtension, AfterBorrowed, AfterDelayed, AfterLayouts
    <2>12. /\ stale'["root"] = {} /\ stale'["ext"] = {}
           /\ stale'["handle"] = {} /\ stale'["cache"] = {}
           /\ stale'["layout"] \subseteq layouts'
      BY <2>1, <2>5, <2>10, HeldByHolder DEF Holders
    <2>13. StaleOK'
      BY <2>1, <2>12, HeldByHolder DEF StaleOK, Collecting, Holders, AfterRoots,
         AfterExtension, AfterBorrowed, AfterLayouts
    <2> QED
      BY <2>8, <2>9, <2>11, <2>13 DEF Inductive
  <1>14. CASE ProcessDelayedReference
    <2> DEFINE w == Head(delayed)
               clear == referent[w] # None /\ IsWhite(referent[w])
    <2>1. /\ phase = "delayed" /\ phase' = "delayed" /\ delayed # <<>>
          /\ delayed' = Tail(delayed)
          /\ referent' = IF clear THEN [referent EXCEPT ![w] = None] ELSE referent
          /\ \/ delayedCallbacks' = delayedCallbacks
             \/ delayedCallbacks' = Append(delayedCallbacks, w)
          /\ UNCHANGED <<space, refs, roots, layouts, handles, caches, tracked,
                         queueVars, fwd, gray, stale>>
      BY <1>14 DEF ProcessDelayedReference, capiVars
    <2>2. /\ Existing' = Existing /\ Kept' = Kept /\ RootSet' = RootSet
      BY <2>1 DEF Existing, Kept, In, RootSet, Elems, Held, queueVars
    <2>3. delayed \in Seq(WeakRef) /\ delayedCallbacks \in Seq(WeakRef)
          /\ referent \in [Obj -> Obj \cup {None}] /\ w \in WeakRef
      BY <2>1 DEF TypeOK
    <2>4. /\ w \in Elems(delayed) /\ Elems(delayed) = {w} \cup Elems(delayed')
          /\ Elems(delayedCallbacks') \subseteq Elems(delayedCallbacks) \cup {w}
      <3>1. /\ w \in Elems(delayed) /\ Elems(delayed) = {w} \cup Elems(Tail(delayed))
        BY <2>1, <2>3, ElemsTail
      <3>2. Elems(Append(delayedCallbacks, w)) = Elems(delayedCallbacks) \cup {w}
        BY <2>3, ElemsAppend
      <3> QED
        BY <2>1, <3>1, <3>2
    <2>5. fwd \cup gray \cup Elems(delayed) \cup Elems(delayedCallbacks) \subseteq Kept
      BY <2>1 DEF Inductive, TriColor, Collecting
    <2>6. \A o \in Obj : referent'[o] = referent[o] \/ referent'[o] = None
      BY <2>1, <2>3
    <2>7. ClosedHeap'
      BY <2>1, <2>2, <2>6 DEF Inductive, ClosedHeap
    <2>8. w \in Obj /\ referent'[w] \in Kept \cup {None}
      <3>1. w \in Obj
        BY <2>3, ScavengerAssumption
      <3>2. CASE clear
        <4>1. referent' = [referent EXCEPT ![w] = None]
          BY <2>1, <3>2
        <4> QED
          BY <2>3, <3>1, <4>1
      <3>3. CASE ~clear
        <4>1. referent' = referent /\ (referent[w] = None \/ ~IsWhite(referent[w]))
          BY <2>1, <3>3
        <4> QED
          BY <2>5, <3>1, <4>1 DEF IsWhite
      <3> QED
        BY <3>1, <3>2, <3>3
    <2>9. Kept \subseteq Obj
      BY DEF Kept, In
    <2>10. ASSUME NEW o \in Kept \ gray
           PROVE  referent'[o] \in Kept \cup {None} \/ o \in Elems(delayed')
      <3>1. referent[o] \in Kept \cup {None} \/ o \in Elems(delayed)
        BY <2>1 DEF Inductive, TriColor, Collecting
      <3> QED
        BY <2>4, <2>6, <2>8, <2>9, <3>1
    <2> HIDE DEF w, clear
    <2>11. TriColor'
      <3>1. Elems(delayed)' = Elems(delayed') /\ Elems(delayedCallbacks)' = Elems(delayedCallbacks')
        BY DEF Elems
      <3>2. \A o \in Kept \ gray : refs[o] \subseteq Kept
        BY <2>1 DEF Inductive, TriColor, Collecting
      <3> QED
        BY <2>1, <2>2, <2>4, <2>5, <2>10, <3>1, <3>2 DEF TriColor
    <2>12. PhaseOK'
      BY <2>1, <2>2 DEF Inductive, PhaseOK, Collecting, AfterRoots,
         AfterExtension, AfterBorrowed, AfterDelayed, AfterLayouts
    <2>13. StaleOK'
      BY <2>1, <2>2, HeldByHolder DEF Inductive, StaleOK, Collecting, Holders,
         AfterRoots, AfterExtension, AfterBorrowed, AfterLayouts
    <2> QED
      BY <2>7, <2>11, <2>12, <2>13 DEF Inductive
  <1>15. CASE ProcessLayouts
    <2>1. /\ phase = "layouts" /\ phase' = "gray4"
          /\ layouts' = layouts \ In("from")
          /\ stale' = [stale EXCEPT !["layout"] = {}]
          /\ UNCHANGED <<space, refs, referent, roots, capiVars, queueVars, fwd,
                         gray, delayed, delayedCallbacks>>
      BY <1>15 DEF ProcessLayouts
    <2>2. /\ Existing' = Existing /\ Kept' = Kept /\ RootSet' = RootSet
          /\ Elems(delayed)' = Elems(delayed)
          /\ Elems(delayedCallbacks)' = Elems(delayedCallbacks)
      BY <2>1 DEF Existing, Kept, In, RootSet, Elems, Held, queueVars
    <2>3. layouts' \subseteq Kept
      BY <1>2, <2>1 DEF Existing, Kept, In, TypeOK
    <2>4. ClosedHeap' /\ TriColor'
      BY <2>1, <2>2 DEF Inductive, ClosedHeap, TriColor, Collecting, capiVars
    <2>5. PhaseOK'
      BY <2>1, <2>2, <2>3 DEF Inductive, PhaseOK, Collecting, AfterRoots,
         AfterExtension, AfterBorrowed, AfterDelayed, AfterLayouts, capiVars
    <2>6. /\ stale \in [Holders -> SUBSET Obj] /\ "layout" \in Holders
      BY DEF TypeOK, Holders
    <2>7. stale'["layout"] = {} /\ \A k \in Holders \ {"layout"} : stale'[k] = stale[k]
      BY <2>1, <2>6
    <2>8. StaleOK'
      BY <2>1, <2>2, <2>7, HeldByHolder DEF Inductive, StaleOK, Collecting,
         Holders, AfterRoots, AfterExtension, AfterBorrowed, AfterLayouts, capiVars
    <2> QED
      BY <2>4, <2>5, <2>8 DEF Inductive
  <1>16. CASE SwapSpaces
    <2>1. /\ phase = "swap" /\ phase' = "run"
          /\ space' = [o \in Obj |-> CASE space[o] = "from" -> "none"
                                       [] space[o] = "to" -> "from"
                                       [] OTHER -> space[o]]
          /\ refs' = [o \in Obj |-> IF space[o] = "from" THEN {} ELSE refs[o]]
          /\ referent' = [o \in Obj |-> IF space[o] = "from" THEN None
                                        ELSE referent[o]]
          /\ callbacks' = callbacks \o delayedCallbacks
          /\ fwd' = {} /\ delayedCallbacks' = <<>>
          /\ UNCHANGED <<roots, layouts, handles, caches, tracked, finalizable,
                         gray, stale, delayed>>
      BY <1>16 DEF SwapSpaces, capiVars
    <2>2. Held' \subseteq Held
      BY <1>16, PushPopHeld DEF SwapSpaces
    <2>3. Existing' = Kept
      BY <2>1 DEF Existing, Kept, In, TypeOK
    <2>4. In("to")' = {}
      BY <2>1 DEF In, TypeOK
    <2>5. /\ gray = {} /\ delayed = <<>>
          /\ RootSet \cup handles \cup caches \cup tracked \cup layouts \subseteq Kept
          /\ Elems(delayedCallbacks) \subseteq Kept
          /\ \A k \in Holders : stale[k] = {}
      BY <2>1 DEF Inductive, PhaseOK, StaleOK, TriColor, Collecting, Holders,
         AfterRoots, AfterExtension, AfterBorrowed, AfterDelayed, AfterLayouts
    <2>6. RootSet' \subseteq Kept
      <3>1. Elems(callbacks') = Elems(callbacks) \cup Elems(delayedCallbacks)
        <4>1. callbacks \in Seq(Obj) /\ delayedCallbacks \in Seq(Obj)
          BY ScavengerAssumption DEF TypeOK
        <4> QED
          BY <2>1, <4>1, ElemsConcat
      <3>2. Elems(callbacks)' = Elems(callbacks') /\ Elems(finalizable)' = Elems(finalizable)
        BY <2>1 DEF Elems
      <3> QED
        BY <2>1, <2>2, <2>5, <3>1, <3>2 DEF RootSet
    <2>7. Kept \subseteq Obj /\ Kept \cap In("from") = {}
      BY DEF Kept, In
    <2>8. \A o \in Kept : refs[o] \subseteq Kept /\ referent[o] \in Kept \cup {None}
      BY <2>1, <2>5 DEF Inductive, TriColor, Collecting, Elems
    <2>9. ClosedHeap'
      <3>1. \A o \in Kept : refs'[o] \subseteq Kept
        BY <2>1, <2>7, <2>8
      <3>2. ASSUME NEW o \in Obj, referent'[o] # None
            PROVE  referent'[o] \in Kept /\ o \in WeakRef \cap Kept
        <4>1. referent'[o] = referent[o] /\ space[o] # "from"
          BY <2>1, <3>2
        <4>2. o \in WeakRef /\ (space[o] # "none" => o \in Kept)
          BY <3>2, <4>1 DEF Inductive, ClosedHeap, Kept, In, TypeOK
        <4>3. space[o] # "none"
          BY <3>2, <4>1 DEF Inductive, ClosedHeap, Existing
        <4> QED
          BY <2>8, <3>2, <4>1, <4>2, <4>3
      <3> QED
        BY <2>1, <2>3, <2>5, <2>6, <3>1, <3>2 DEF ClosedHeap
    <2>10. TriColor'
      BY <2>1 DEF TriColor, Collecting
    <2>11. PhaseOK'
      BY <2>1, <2>4, <2>5 DEF PhaseOK, Collecting, AfterRoots, AfterExtension,
         AfterBorrowed, AfterDelayed, AfterLayouts
    <2>12. StaleOK'
      BY <2>1, <2>5 DEF StaleOK, Collecting, Holders, AfterRoots,
         AfterExtension, AfterBorrowed, AfterLayouts
    <2> QED
      BY <2>9, <2>10, <2>11, <2>12 DEF Inductive
  <1> QED
    BY <1>3, <1>4, <1>5, <1>7, <1>8, <1>9, <1>10, <1>11, <1>12, <1>13, <1>14,
       <1>15, <1>16 DEF Collect

\* The start of a collection makes the immortal space gray.
LEMMA CollectGarbageIntoInductive ==
    ASSUME TypeOK, Inductive, NEW d \in {"to", "immortal"}, CollectGarbageInto(d)
    PROVE  Inductive'
  <1>1. /\ phase = "run" /\ phase' = "immortal"
        /\ fwd' = {} /\ gray' = In("immortal")
        /\ delayed' = <<>> /\ delayedCallbacks' = <<>>
        /\ UNCHANGED <<heapVars, capiVars, queueVars, stale>>
    BY DEF CollectGarbageInto, Running
  <1>2. /\ Existing' = Existing /\ Kept' = Kept /\ RootSet' = RootSet
        /\ Elems(delayed)' = {} /\ Elems(delayedCallbacks)' = {}
    BY <1>1 DEF Existing, Kept, In, RootSet, Elems, Held, heapVars, queueVars
  <1>3. Kept = In("immortal")
    BY <1>1 DEF Inductive, PhaseOK, Collecting, Kept
  <1>4. ClosedHeap' /\ TriColor'
    BY <1>1, <1>2, <1>3 DEF Inductive, ClosedHeap, TriColor, heapVars, capiVars
  <1>5. PhaseOK'
    BY <1>1 DEF PhaseOK, Collecting, AfterRoots, AfterExtension, AfterBorrowed,
       AfterDelayed, AfterLayouts
  <1>6. StaleOK'
    BY <1>1 DEF Inductive, StaleOK, Collecting, AfterRoots, AfterExtension,
       AfterBorrowed, AfterLayouts, Holders
  <1> QED
    BY <1>4, <1>5, <1>6 DEF Inductive

\* The loops over the two queues keep the invariant.
LEMMA QueuesInductive ==
    TypeOK /\ Inductive /\ (DrainQueues \/ UserCodeReturns) => Inductive'
  <1> SUFFICES ASSUME TypeOK, Inductive, DrainQueues \/ UserCodeReturns
               PROVE  Inductive'
    OBVIOUS
  <1>1. ASSUME phase = "run", phase' \in {"run", "aborted"},
               UNCHANGED <<space, refs, referent, roots, layouts>>,
               UNCHANGED <<handles, caches, fwd, gray, stale, delayed,
                           delayedCallbacks>>,
               tracked' \subseteq tracked,
               Elems(callbacks') \cup Elems(finalizable') \cup Held' \subseteq RootSet
        PROVE  Inductive'
    <2>1. /\ Existing' = Existing /\ In("to")' = In("to") /\ In("to") = {}
      BY <1>1 DEF Existing, In, Inductive, PhaseOK, Collecting
    <2>2. RootSet' \subseteq RootSet
      <3>1. Elems(callbacks)' = Elems(callbacks') /\ Elems(finalizable)' = Elems(finalizable')
        BY DEF Elems
      <3> QED
        BY <1>1, <3>1 DEF RootSet
    <2>3. ClosedHeap'
      BY <1>1, <2>1, <2>2 DEF Inductive, ClosedHeap
    <2> QED
      BY <1>1, <2>1, <2>3, IdleOrAborted
  <1>2. /\ callbacks \in Seq(Obj) /\ finalizable \in Seq(Obj)
    BY ScavengerAssumption DEF TypeOK
  <1>3. /\ Elems(callbacks) \subseteq RootSet /\ Elems(finalizable) \subseteq RootSet
        /\ Held \subseteq RootSet
    BY DEF RootSet
  <1> USE DEF InLoop, heapVars, capiVars, gcVars
  <1>4. CASE DequeueCallback
    <2>1. /\ Head(callbacks) \in Elems(callbacks) /\ Head(callbacks) \in WeakRef
          /\ Elems(callbacks') \subseteq Elems(callbacks)
      <3>1. callbacks # <<>> /\ callbacks' = Tail(callbacks)
        BY <1>4 DEF DequeueCallback
      <3>2. Head(callbacks) \in WeakRef
        BY <3>1 DEF TypeOK
      <3> QED
        BY <1>2, <3>1, <3>2, ElemsTail
    <2>2. Held' \subseteq Held \cup {Head(callbacks)}
      BY <1>4, <2>1, SetTopItem DEF DequeueCallback
    <2> QED
      BY <1>1, <1>3, <1>4, <2>1, <2>2 DEF DequeueCallback
  <1>5. CASE CallbacksProcessed
    <2>1. Held' \subseteq Held
      BY <1>5, SetTopNone DEF CallbacksProcessed
    <2> QED
      BY <1>1, <1>3, <1>5, <2>1 DEF CallbacksProcessed
  <1>6. CASE FinalizeExtensionObject
    <2>1. /\ Head(finalizable) \in Elems(finalizable) /\ Head(finalizable) \in Proxy
          /\ Elems(finalizable') \subseteq Elems(finalizable)
      <3>1. finalizable # <<>> /\ finalizable' = Tail(finalizable)
        BY <1>6 DEF FinalizeExtensionObject
      <3>2. Head(finalizable) \in Proxy
        BY <3>1 DEF TypeOK
      <3> QED
        BY <1>2, <3>1, <3>2, ElemsTail
    <2>2. Held' \subseteq Held \cup {Head(finalizable)}
      <3>1. CASE refcnt[Head(finalizable)] = 1
        BY <1>6, <2>1, <3>1, SetTopItem DEF FinalizeExtensionObject
      <3>2. CASE refcnt[Head(finalizable)] # 1
        BY <1>6, <3>2 DEF FinalizeExtensionObject, Held
      <3> QED
        BY <3>1, <3>2
    <2> QED
      BY <1>1, <1>3, <1>6, <2>1, <2>2 DEF FinalizeExtensionObject
  <1>7. CASE CollectGarbageReturns
    <2>1. Held' \subseteq Held
      BY <1>7, PushPopHeld DEF CollectGarbageReturns
    <2> QED
      BY <1>1, <1>3, <1>7, <2>1 DEF CollectGarbageReturns
  <1>8. CASE CallbackReturns
    <2>1. Held' \subseteq Held
      BY <1>8, SetTopNone DEF CallbackReturns
    <2> QED
      BY <1>1, <1>3, <1>8, <2>1 DEF CallbackReturns
  <1>9. CASE DeallocReleases
    <2>1. Held' \subseteq Held
      BY <1>9, SetTopNone DEF DeallocReleases
    <2> QED
      BY <1>1, <1>3, <1>9, <2>1 DEF DeallocReleases
  <1>10. CASE DeallocResurrects
    <2>1. Held' \subseteq Held
      BY <1>10, SetTopNone DEF DeallocResurrects
    <2> QED
      BY <1>1, <1>3, <1>10, <2>1 DEF DeallocResurrects
  <1> QED
    BY <1>4, <1>5, <1>6, <1>7, <1>8, <1>9, <1>10 DEF DrainQueues, UserCodeReturns

-----------------------------------------------------------------------------
(***************************************************************************)
(* The theorems.                                                           *)
(***************************************************************************)

IInv == TypeOK /\ Inductive

\* The empty heap satisfies the invariant.
LEMMA InitIInv == Init => IInv
  <1> SUFFICES ASSUME Init PROVE IInv
    OBVIOUS
  <1>1. TypeOK
    <2>1. /\ space \in [Obj -> {"none", "from", "to", "immortal"}]
          /\ refs \in [Obj -> SUBSET Obj]
          /\ referent \in [Obj -> Obj \cup {None}]
          /\ refcnt \in [Obj -> Nat]
          /\ stale \in [Holders -> SUBSET Obj]
      BY DEF Init
    <2>2. \A X : <<>> \in Seq(X)
      OBVIOUS
    <2> QED
      BY <2>1, <2>2 DEF Init, TypeOK, Phases
  <1>2. Existing = {} /\ Kept = {}
    BY DEF Init, Existing, Kept, In
  <1>3. RootSet = {}
    BY DEF Init, RootSet, Elems, Held
  <1>4. Inductive
    BY <1>2, <1>3 DEF Init, Inductive, ClosedHeap, TriColor, PhaseOK, StaleOK,
       Collecting, Kept, In, Holders, AfterRoots, AfterExtension, AfterBorrowed,
       AfterDelayed, AfterLayouts
  <1> QED
    BY <1>1, <1>4 DEF IInv

\* Every step of running code, of a collection and of the queues keeps it.
LEMMA NextIInv == IInv /\ [Next]_vars => IInv'
  <1> SUFFICES ASSUME IInv, [Next]_vars PROVE IInv'
    OBVIOUS
  <1>1. TypeOK'
    BY NextType DEF IInv, Inductive
  <1>2. CASE UNCHANGED vars
    <2> USE <1>2 DEF vars, heapVars, capiVars, queueVars, gcVars
    <2>1. /\ Existing' = Existing /\ Kept' = Kept /\ In("to")' = In("to")
          /\ Elems(delayed)' = Elems(delayed)
          /\ Elems(delayedCallbacks)' = Elems(delayedCallbacks)
      BY DEF Existing, Kept, In, Elems
    <2>2. RootSet' = RootSet
      BY DEF RootSet, Elems, Held
    <2>3. ClosedHeap' = ClosedHeap
      BY <2>1, <2>2 DEF ClosedHeap
    <2>4. TriColor' = TriColor
      BY <2>1 DEF TriColor, Collecting
    <2>5. PhaseOK' = PhaseOK
      BY <2>1, <2>2 DEF PhaseOK, Collecting
    <2>6. \A k \in Holders : HeldBy(k)' = HeldBy(k)
      BY <2>2, HeldByHolder DEF Holders
    <2>7. StaleOK' = StaleOK
      BY <2>6 DEF StaleOK, Collecting
    <2> QED
      BY <1>1, <2>3, <2>4, <2>5, <2>7 DEF IInv, Inductive
  <1>3. CASE Next
    BY <1>1, <1>2, <1>3, MutateInductive, CollectGarbageIntoInductive,
       CollectInductive, QueuesInductive DEF IInv, Next, Aborted
  <1> QED
    BY <1>2, <1>3

\* The collector's invariant: the heap is closed, no black object references a
\* white one, and each statement of collect() leaves done what the following
\* ones rely on - for every heap and every interleaving with the queues.
THEOREM InductiveInvariant == Spec => [](TypeOK /\ Inductive)
  BY InitIInv, NextIInv, PTL DEF Spec, IInv

\* Every variable of the collector, the C-API state and the queues has its type.
THEOREM TypeCorrect == Spec => []TypeOK
  BY InductiveInvariant, PTL

\* No collection leaves a pointer to an object it freed, in the heap, in a root,
\* in the dictionaries of handles and caches, in a native object or in layouts.
THEOREM HeapVerifies == Spec => []NoDangling
  <1>1. Inductive => NoDangling
    BY DEF Inductive, ClosedHeap, NoDangling, Existing
  <1> QED
    BY <1>1, InductiveInvariant, PTL

\* No collection leaves a pointer outside the heap at an object's old address.
THEOREM PointersUpdated == Spec => []NoStalePointer
  <1>1. Inductive => NoStalePointer
    BY DEF Inductive, StaleOK, NoStalePointer, Collecting
  <1> QED
    BY <1>1, InductiveInvariant, PTL

-----------------------------------------------------------------------------
(***************************************************************************)
(* Handles: HandlesOK is inductive.                                        *)
(***************************************************************************)

\* Every step keeps a cache with its handle and counts the references of the
\* handles that were not borrowed.
LEMMA NextHandles == TypeOK /\ HandlesOK /\ [Next]_vars => HandlesOK'
  <1> SUFFICES ASSUME TypeOK, HandlesOK, [Next]_vars PROVE HandlesOK'
    OBVIOUS
  <1>1. ASSUME UNCHANGED <<handles, caches, refcnt, borrowed>> PROVE HandlesOK'
    BY <1>1 DEF HandlesOK
  <1>2. Proxy \cap handles = {}
    BY ScavengerAssumption DEF TypeOK
  <1>3. ASSUME NEW o \in Obj, NEW S \in SUBSET Obj, NewExtensionObject(o, S)
        PROVE  HandlesOK'
    BY <1>2, <1>3 DEF NewExtensionObject, HandlesOK, TypeOK
  <1>4. ASSUME NEW o \in Obj, NewReference(o) PROVE HandlesOK'
    <2>1. refcnt \in [Obj -> Nat] /\ handles \subseteq Obj
      BY ScavengerAssumption DEF TypeOK
    <2>2. \A p \in Obj : refcnt'[p] = 0 => p # o /\ refcnt[p] = 0
      BY <1>4, <2>1 DEF NewReference
    <2>3. handles' \subseteq handles \cup {o} /\ handles \subseteq handles'
      BY <1>4 DEF NewReference
    <2>4. caches' = caches /\ borrowed \subseteq borrowed' \cup {o}
      BY <1>4 DEF NewReference
    <2> QED
      BY <2>1, <2>2, <2>3, <2>4 DEF HandlesOK
  <1>5. ASSUME NEW o \in Obj, BorrowedReference(o) PROVE HandlesOK'
    BY <1>5 DEF BorrowedReference, HandlesOK, TypeOK
  <1>6. ASSUME NEW o \in Obj, Decref(o) PROVE HandlesOK'
    <2>1. refcnt \in [Obj -> Nat] /\ refcnt' = [refcnt EXCEPT ![o] = @ - 1]
          /\ handles \subseteq Obj /\ borrowed' = borrowed
      BY <1>6, ScavengerAssumption DEF Decref, TypeOK
    <2>2. CASE o \in handles /\ refcnt[o] = 1 /\ o \notin borrowed
      BY <1>6, <2>1, <2>2 DEF Decref, HandlesOK
    <2>3. CASE ~(o \in handles /\ refcnt[o] = 1 /\ o \notin borrowed)
      <3>1. handles' = handles /\ caches' = caches
        BY <1>6, <2>3 DEF Decref
      <3>2. o \in handles => refcnt[o] > 0
        BY <1>6, <2>1 DEF Decref
      <3> QED
        BY <2>1, <2>3, <3>1, <3>2 DEF HandlesOK
    <2> QED
      BY <2>2, <2>3
  <1>7. ASSUME NEW o \in Obj, StealReference(o) PROVE HandlesOK'
    BY <1>7 DEF StealReference, HandlesOK, TypeOK
  <1>8. ASSUME NEW o \in Obj, SetCache(o) PROVE HandlesOK'
    BY <1>8 DEF SetCache, HandlesOK
  <1>9. CASE VisitNotIncrementedBorrowedApiHandles
    BY <1>9 DEF VisitNotIncrementedBorrowedApiHandles, HandlesOK
  <1>10. CASE FinalizeExtensionObject
    <2>1. refcnt \in [Obj -> Nat] /\ handles \subseteq Obj
      BY ScavengerAssumption DEF TypeOK
    <2>2. /\ UNCHANGED <<handles, caches>>
          /\ \/ refcnt' = refcnt /\ borrowed' = borrowed
             \/ /\ refcnt' = [refcnt EXCEPT ![Head(finalizable)] = 0]
                /\ borrowed' = borrowed \cup {Head(finalizable)}
      BY <1>10 DEF FinalizeExtensionObject
    <2>3. \A o \in handles : refcnt'[o] = 0 => refcnt[o] = 0 \/ o \in borrowed'
      BY <2>1, <2>2
    <2> QED
      BY <2>2, <2>3 DEF HandlesOK
  <1>11. CASE DeallocResurrects
    <2>1. refcnt \in [Obj -> Nat] /\ handles \subseteq Obj
      BY ScavengerAssumption DEF TypeOK
    <2>2. /\ refcnt' = [refcnt EXCEPT ![Top.cur] = 2]
          /\ borrowed' = borrowed \ {Top.cur}
          /\ UNCHANGED <<handles, caches>>
      BY <1>11 DEF DeallocResurrects
    <2>3. \A o \in handles : refcnt'[o] = 0 => o # Top.cur /\ refcnt[o] = 0
      BY <2>1, <2>2
    <2> QED
      BY <2>2, <2>3 DEF HandlesOK
  <1>12. CASE Collect
    <2>1. Collect => \/ VisitNotIncrementedBorrowedApiHandles
                     \/ UNCHANGED <<handles, caches, refcnt, borrowed>>
      BY DEF Collect, ScanImmortalSpace, ProcessGrayImmortal, ProcessGrayTo,
         ScanObject, ImmortalSpaceScanned, VisitRoots, VisitIncrementedApiHandles,
         GrayObjectsProcessed, VisitExtensionObjects, ProcessDelayedReference,
         DelayedReferencesProcessed, ProcessLayouts, SwapSpaces, capiVars
    <2> QED
      BY <1>1, <1>9, <1>12, <2>1
  <1>13. CASE Mutate
    <2>1. ASSUME NEW o \in Obj, NEW S \in SUBSET Obj,
                 NewObject(o, S) \/ SetFields(o, S) \/ AddRoot(o) \/ DropRoot(o)
          PROVE  HandlesOK'
      BY <1>1, <2>1 DEF NewObject, SetFields, AddRoot, DropRoot, capiVars
    <2>2. ASSUME NEW w \in WeakRef, NEW r \in Obj, NEW b \in BOOLEAN,
                 NEW S \in SUBSET Obj, NewWeakRef(w, r, b, S)
          PROVE  HandlesOK'
      BY <1>1, <2>2 DEF NewWeakRef, capiVars
    <2> QED
      BY <1>3, <1>4, <1>5, <1>6, <1>7, <1>8, <1>13, <2>1, <2>2, AccessibleObjects
      DEF Mutate
  <1>14. CASE (\E d \in {"to", "immortal"} : CollectGarbageInto(d)) \/ UNCHANGED vars
    BY <1>1, <1>14 DEF CollectGarbageInto, vars, capiVars
  <1>15. CASE DeallocReleases
    <2>1. Top.cur \notin handles
      BY <1>15, FinalizedIsProxy, ScavengerAssumption DEF DeallocReleases, TypeOK
    <2>2. /\ borrowed' = borrowed \ {Top.cur}
          /\ UNCHANGED <<handles, caches, refcnt>>
      BY <1>15 DEF DeallocReleases
    <2> QED
      BY <2>1, <2>2 DEF HandlesOK
  <1>16. CASE DrainQueues \/ UserCodeReturns
    BY <1>1, <1>10, <1>11, <1>15, <1>16 DEF DrainQueues, UserCodeReturns,
       DequeueCallback, CallbacksProcessed, CollectGarbageReturns, CallbackReturns,
       capiVars
  <1> QED
    BY <1>12, <1>13, <1>14, <1>16 DEF Next, Aborted

\* dispose() and the collection never leave a cache without its handle, nor a
\* handle without references that extension code has not borrowed: the DCHECK of
\* visitNotIncrementedBorrowedApiHandles() holds.
THEOREM HandlesCorrect == Spec => []HandlesOK
  <1>1. Init => HandlesOK
    BY DEF Init, HandlesOK
  <1>2. TypeOK /\ HandlesOK /\ [Next]_vars => HandlesOK'
    BY NextHandles
  <1> QED
    BY <1>1, <1>2, TypeCorrect, PTL DEF Spec

-----------------------------------------------------------------------------
(***************************************************************************)
(* What a collection keeps, clears, queues and reclaims.  These proofs rest *)
(* on the invariant above, and on four more parts of it: where the objects *)
(* that were moved are (MovedOK), the entries of the layouts tuple         *)
(* (LayoutsOK), the weakrefs whose callbacks run (HeldCleared), and why an *)
(* object was moved (Justified).                                           *)
(***************************************************************************)

(***************************************************************************)
(* What the steps change of the heap.                                      *)
(***************************************************************************)

\* A step of a collection moves objects of S.
Moves(S, loc) ==
    /\ space' = [o \in Obj |-> IF o \notin Moved(S) THEN space[o]
                              ELSE IF o \in Code THEN "immortal" ELSE loc]
    /\ fwd' = fwd \cup Moved(S)

LEMMA MovesEffect ==
    ASSUME TypeOK, NEW S, S \subseteq Existing, NEW loc \in {"to", "immortal"}, Moves(S, loc)
    PROVE  /\ Moved(S) \subseteq In("from")
           /\ In("from")' = In("from") \ Moved(S)
           /\ In("to") \subseteq In("to")' /\ In("to")' \subseteq In("to") \cup Moved(S)
           /\ In("immortal") \subseteq In("immortal")'
           /\ In("immortal")' \subseteq In("immortal") \cup Moved(S)
           /\ Kept' = Kept \cup Moved(S) /\ Kept \cap In("from") = {}
           /\ S \subseteq Kept' /\ Existing' = Existing
           /\ \A o \in Moved(S) : o \in Code \/ loc = "immortal" => o \in In("immortal")'
           /\ Kept \subseteq Obj /\ Kept' \subseteq Obj
  <1>1. Moved(S) \subseteq In("from")
    BY DEF Moved
  <1>2. \A o \in Obj : space'[o] = IF o \notin Moved(S) THEN space[o]
                                   ELSE IF o \in Code THEN "immortal" ELSE loc
    BY DEF Moves
  <1>3. /\ In("from")' = In("from") \ Moved(S)
        /\ In("to") \subseteq In("to")' /\ In("to")' \subseteq In("to") \cup Moved(S)
        /\ In("immortal") \subseteq In("immortal")'
        /\ In("immortal")' \subseteq In("immortal") \cup Moved(S)
        /\ Existing' = Existing
    BY <1>1, <1>2 DEF In, Existing
  <1>4. Kept' = Kept \cup Moved(S) /\ Kept \cap In("from") = {}
    BY <1>1, <1>2 DEF In, Kept
  <1>5. S \subseteq Kept'
    <2>1. \A o \in S : o \in In("from") => o \in Moved(S)
      BY DEF Moved
    <2>2. \A o \in Existing : o \in In("from") \/ o \in Kept
      BY DEF Existing, Kept, In, TypeOK
    <2> QED
      BY <1>4, <2>1, <2>2
  <1>6. \A o \in Moved(S) : o \in Code \/ loc = "immortal" => o \in In("immortal")'
    BY <1>1, <1>2 DEF In
  <1>7. Kept \subseteq Obj /\ Kept' \subseteq Obj
    BY DEF Kept, In
  <1> QED
    BY <1>1, <1>3, <1>4, <1>5, <1>6, <1>7

\* A step that moves nothing.
LEMMA MovesNothing ==
    ASSUME TypeOK, UNCHANGED <<space, fwd>>
    PROVE  Moves({}, "to") /\ Moved({}) = {}
  BY DEF Moves, Moved, TypeOK

\* The set that a step of a collection moves is part of what the collection
\* starts from or is referenced by an object that was moved before.
Moving ==
    \E S \in SUBSET Existing, loc \in {"to", "immortal"} :
        /\ Moves(S, loc)
        /\ S \cap In("from") \subseteq Sources \/ \E o \in Kept : S = refs[o]
        /\ phase \in {"layouts"} \cup AfterLayouts => Moved(S) = {}

LEMMA ScanObjectMoves ==
    ASSUME TypeOK, Inductive, NEW o \in gray, NEW loc \in {"to", "immortal"}, Collecting,
           phase \notin {"layouts"} \cup AfterLayouts, ScanObject(o, loc)
    PROVE  Moving
  <1>1. o \in Kept /\ Kept \subseteq Existing
    BY DEF Inductive, TriColor, Kept, Existing, In
  <1>2. refs[o] \in SUBSET Existing
    BY <1>1 DEF Inductive, ClosedHeap
  <1>3. Moves(refs[o], loc)
    BY DEF ScanObject, Scavenge, Moves
  <1> QED
    BY <1>1, <1>2, <1>3 DEF Moving

\* What the steps of a collection before its last one have in common.
Common ==
    /\ Moving /\ Collecting /\ Collecting'
    /\ UNCHANGED <<refs, roots, tracked, frames, callbacks, hasCallback, refcnt>>
    /\ handles' \subseteq handles /\ (\A o \in handles : refcnt[o] > 0 => o \in handles')
    /\ RootSet \subseteq RootSet'
    /\ \/ layouts' = layouts /\ (phase \in AfterLayouts <=> phase' \in AfterLayouts)
       \/ phase = "layouts" /\ phase' \in AfterLayouts /\ layouts' = layouts \ In("from")
    /\ \/ phase \in AfterHandles <=> phase' \in AfterHandles
       \/ VisitIncrementedApiHandles

LEMMA ScanCommon ==
    ASSUME TypeOK, Inductive, NEW o \in gray, NEW loc \in {"to", "immortal"}, Collecting,
           phase' = phase, ScanObject(o, loc)
    PROVE  Common
  <1>1. phase \notin {"layouts"} \cup AfterLayouts
    BY DEF Inductive, PhaseOK, AfterLayouts
  <1>2. Moving
    BY <1>1, ScanObjectMoves
  <1>3. UNCHANGED <<refs, roots, layouts, tracked, handles, refcnt, frames, callbacks, finalizable,
                    hasCallback>>
    BY DEF ScanObject, capiVars, queueVars
  <1>4. RootSet' = RootSet
    BY <1>3 DEF RootSet, Elems, Held
  <1> QED
    BY <1>2, <1>3, <1>4 DEF Common, Collecting

LEMMA IdleCommon ==
    ASSUME TypeOK, Collecting, Collecting', UNCHANGED <<space, fwd>>,
           UNCHANGED <<refs, roots, layouts, capiVars, queueVars, hasCallback>>,
           phase \in AfterHandles <=> phase' \in AfterHandles,
           phase \in AfterLayouts <=> phase' \in AfterLayouts
    PROVE  Common
  <1>1. Moving
    BY MovesNothing DEF Moving
  <1>2. RootSet' = RootSet
    BY DEF RootSet, Elems, Held, queueVars
  <1> QED
    BY <1>1, <1>2 DEF Common, capiVars, queueVars

LEMMA RootsCommon ==
    ASSUME TypeOK, Collecting, Collecting', NEW h, NEW S, S \subseteq Existing,
           NEW loc \in {"to", "immortal"}, Scavenge(h, S, loc), S \subseteq Sources,
           UNCHANGED <<refs, roots, layouts, capiVars, frames, callbacks, hasCallback>>,
           Elems(finalizable) \subseteq Elems(finalizable'),
           phase \notin {"layouts"} \cup AfterLayouts, phase' \notin AfterLayouts,
           \/ phase \in AfterHandles <=> phase' \in AfterHandles
           \/ VisitIncrementedApiHandles
    PROVE  Common
  <1>1. Moves(S, loc)
    BY DEF Scavenge, Moves
  <1>2. Moving
    BY <1>1 DEF Moving
  <1>3. RootSet \subseteq RootSet'
    BY DEF RootSet, Elems, Held
  <1> QED
    BY <1>2, <1>3 DEF Common, capiVars

LEMMA CollectCommon ==
    ASSUME TypeOK, Inductive, HandlesOK, Collect, phase # "swap"
    PROVE  Common
  <1> USE DEF heapVars
  <1>1. dest \in {"to", "immortal"}
    BY DEF TypeOK
  <1>2. RootSet \cup handles \cup caches \cup tracked \cup layouts \subseteq Existing
    BY DEF Inductive, ClosedHeap
  <1>3. ASSUME NEW o \in Obj, ScanImmortalSpace(o) PROVE Common
    BY <1>1, <1>3, ScanCommon DEF ScanImmortalSpace, Collecting
  <1>4. ASSUME NEW o \in Obj, ProcessGrayImmortal(o) PROVE Common
    BY <1>4, ScanCommon DEF ProcessGrayImmortal, Collecting, GrayPhases
  <1>5. ASSUME NEW o \in Obj, ProcessGrayTo(o) PROVE Common
    BY <1>1, <1>5, ScanCommon DEF ProcessGrayTo, Collecting, GrayPhases
  <1>6. CASE ImmortalSpaceScanned
    BY <1>6, IdleCommon DEF ImmortalSpaceScanned, Collecting, AfterHandles, AfterRoots, AfterLayouts
  <1>7. CASE GrayObjectsProcessed
    <2>1. \/ phase = "gray1" /\ phase' = "extension"
          \/ phase = "gray2" /\ phase' = "borrowed"
          \/ phase = "gray3" /\ phase' = "delayed"
          \/ phase = "gray4" /\ phase' = "swap"
      BY <1>7 DEF GrayObjectsProcessed, GrayPhases, AfterGray
    <2> QED
      BY <1>7, <2>1, IdleCommon
      DEF GrayObjectsProcessed, Collecting, AfterHandles, AfterRoots, AfterLayouts
  <1>8. CASE VisitRoots
    <2>1. RootSet \subseteq Sources
      BY DEF Sources
    <2> QED
      BY <1>1, <1>2, <1>8, <2>1, RootsCommon
      DEF VisitRoots, Collecting, AfterHandles, AfterRoots, AfterLayouts, queueVars
  <1>9. CASE VisitIncrementedApiHandles
    <2> DEFINE S == {o \in handles : refcnt[o] > 0}
    <2>1. S \subseteq Sources /\ S \subseteq Existing
      BY <1>2 DEF Sources
    <2>2. Scavenge("local", S, dest)
      BY <1>9 DEF VisitIncrementedApiHandles
    <2>3. /\ phase = "incremented" /\ phase' = "gray1"
          /\ UNCHANGED <<refs, roots, layouts, capiVars, frames, callbacks, hasCallback, finalizable>>
      BY <1>9 DEF VisitIncrementedApiHandles, queueVars
    <2> HIDE DEF S
    <2>4. /\ Collecting /\ Collecting' /\ phase \notin {"layouts"} \cup AfterLayouts
          /\ phase' \notin AfterLayouts /\ Elems(finalizable) \subseteq Elems(finalizable')
      BY <2>3 DEF Collecting, AfterLayouts
    <2> QED
      BY <1>1, <1>9, <2>1, <2>2, <2>3, <2>4, RootsCommon
  <1>10. CASE VisitExtensionObjects
    <2>1. tracked \subseteq Sources
      BY DEF Sources
    <2>2. Elems(finalizable) \subseteq Elems(finalizable')
      <3> DEFINE dead == {x \in tracked : refcnt[x] <= 1 /\ IsWhite(x)}
      <3>1. PICK q \in Orders(dead) : finalizable' = finalizable \o q
        BY <1>10 DEF VisitExtensionObjects
      <3>2. dead \in SUBSET Obj /\ finalizable \in Seq(Obj)
        BY ScavengerAssumption DEF TypeOK
      <3>3. q \in Seq(Obj)
        BY <3>2, OrdersAreSequences
      <3> QED
        BY <3>1, <3>2, <3>3, ElemsConcat
    <2>3. /\ phase = "extension" /\ phase' = "gray2" /\ Scavenge("ext", tracked, dest)
          /\ UNCHANGED <<refs, roots, layouts, capiVars, frames, callbacks, hasCallback>>
      BY <1>10 DEF VisitExtensionObjects
    <2>4. /\ Collecting /\ Collecting' /\ phase \notin {"layouts"} \cup AfterLayouts
          /\ phase' \notin AfterLayouts /\ (phase \in AfterHandles <=> phase' \in AfterHandles)
      BY <2>3 DEF Collecting, AfterLayouts, AfterHandles, AfterRoots
    <2> QED
      BY <1>1, <1>2, <2>1, <2>2, <2>3, <2>4, RootsCommon
  <1>11. CASE VisitNotIncrementedBorrowedApiHandles
    <2> DEFINE freed == {o \in handles : refcnt[o] = 0 /\ IsWhite(o)}
               keys == (handles \ freed) \cup (caches \ freed)
    <2>1. /\ Moves(keys, dest) /\ handles' = handles \ freed
          /\ phase = "borrowed" /\ phase' = "gray3"
          /\ UNCHANGED <<refs, roots, layouts, tracked, refcnt, queueVars, hasCallback>>
      BY <1>11 DEF VisitNotIncrementedBorrowedApiHandles, Moves
    <2>2. refcnt \in [Obj -> Nat] /\ handles \subseteq Obj
      BY ScavengerAssumption DEF TypeOK
    <2>3. keys \subseteq handles
      BY DEF HandlesOK
    <2>4. fwd \cap In("from") = {}
      <3>1. Kept \cap In("from") = {}
        BY DEF Kept, In
      <3> QED
        BY <2>1, <3>1 DEF Inductive, TriColor, Collecting
    <2>5. \A o \in keys \cap In("from") : refcnt[o] > 0
      BY <2>2, <2>3, <2>4 DEF HandlesOK, IsWhite
    <2>6. keys \cap In("from") \subseteq Sources
      BY <2>3, <2>5 DEF Sources
    <2>7. \A o \in handles : refcnt[o] > 0 => o \in handles'
      BY <2>1, <2>2
    <2>8. keys \in SUBSET Existing
      BY <1>2, <2>3
    <2> HIDE DEF keys, freed
    <2>9. Moving
      BY <1>1, <2>1, <2>6, <2>8 DEF Moving, AfterLayouts
    <2>10. RootSet' = RootSet
      BY <2>1 DEF RootSet, Elems, Held, queueVars
    <2>11. handles' \subseteq handles
      BY <2>1
    <2> QED
      BY <2>1, <2>7, <2>9, <2>10, <2>11
      DEF Common, Collecting, queueVars, AfterHandles, AfterRoots, AfterLayouts
  <1>12. CASE ProcessDelayedReference
    BY <1>12, IdleCommon DEF ProcessDelayedReference, Collecting
  <1>13. CASE DelayedReferencesProcessed
    BY <1>13, IdleCommon
    DEF DelayedReferencesProcessed, Collecting, AfterHandles, AfterRoots, AfterLayouts
  <1>14. CASE ProcessLayouts
    <2>1. /\ phase = "layouts" /\ phase' = "gray4" /\ layouts' = layouts \ In("from")
          /\ UNCHANGED <<space, refs, hasCallback, roots, capiVars, queueVars, fwd>>
      BY <1>14 DEF ProcessLayouts
    <2>2. Moving
      BY <2>1, MovesNothing DEF Moving
    <2>3. RootSet' = RootSet
      BY <2>1 DEF RootSet, Elems, Held, queueVars
    <2> QED
      BY <2>1, <2>2, <2>3
      DEF Common, Collecting, capiVars, queueVars, AfterHandles, AfterRoots, AfterLayouts
  <1>15. CASE SwapSpaces
    BY <1>15 DEF SwapSpaces
  <1> QED
    BY <1>3, <1>4, <1>5, <1>6, <1>7, <1>8, <1>9, <1>10, <1>11, <1>12, <1>13, <1>14, <1>15 DEF Collect

\* A step of running code: objects are only added, each with its layout.
LEMMA MutateFrame ==
    ASSUME TypeOK, Inductive, Mutate
    PROVE  /\ phase = "run" /\ UNCHANGED <<gcVars, queueVars>>
           /\ In("to")' = {}
           /\ layouts \subseteq layouts'
           /\ \A o \in In("from")' : o \in In("from") \/ LayoutOf[o] \in layouts \cup {None}
           /\ \A o \in Existing : referent'[o] = referent[o]
           /\ hasCallback \subseteq hasCallback' /\ tracked \subseteq tracked'
  <1>1. phase = "run" /\ In("to") = {} /\ (UNCHANGED space => In("from")' = In("from") /\ In("to")' = In("to"))
    BY DEF Mutate, Running, Inductive, PhaseOK, Collecting, In
  <1>2. ASSUME NEW o \in Obj, NEW S, Allocate(o, S)
        PROVE  /\ In("to")' = In("to") /\ o \notin Existing
               /\ \A p \in In("from")' : p \in In("from") \/ LayoutOf[p] \in layouts \cup {None}
    BY <1>2 DEF Allocate, In, Existing, TypeOK
  <1> USE DEF heapVars, capiVars, queueVars, gcVars
  <1>3. ASSUME NEW o \in Obj, NEW S \in SUBSET Obj,
               NewObject(o, S) \/ NewExtensionObject(o, S)
        PROVE  /\ UNCHANGED <<gcVars, queueVars, referent, hasCallback>>
               /\ Allocate(o, S) /\ layouts \subseteq layouts' /\ tracked \subseteq tracked'
    BY <1>3 DEF NewObject, NewExtensionObject
  <1>4. ASSUME NEW w \in WeakRef, NEW r \in Obj, NEW b \in BOOLEAN, NEW S \in SUBSET Obj,
               NewWeakRef(w, r, b, S)
        PROVE  /\ UNCHANGED <<gcVars, queueVars, layouts, tracked>> /\ hasCallback \subseteq hasCallback'
               /\ Allocate(w, S) /\ referent' = [referent EXCEPT ![w] = r]
    BY <1>4 DEF NewWeakRef
  <1>5. ASSUME NEW o \in Obj, NEW S \in SUBSET Obj,
               SetFields(o, S) \/ AddRoot(o) \/ DropRoot(o)
        PROVE  UNCHANGED <<gcVars, queueVars, space, layouts, referent, hasCallback, tracked>>
    BY <1>5 DEF SetFields, AddRoot, DropRoot
  <1>6. ASSUME NEW o \in Obj, \/ NewReference(o) \/ BorrowedReference(o) \/ Decref(o)
                              \/ StealReference(o) \/ SetCache(o)
        PROVE  UNCHANGED <<gcVars, queueVars, space, layouts, referent, hasCallback, tracked>>
    BY <1>6 DEF NewReference, BorrowedReference, Decref, StealReference, SetCache
  <1>7. ASSUME NEW o \in Obj, NEW S \in SUBSET Obj, NewObject(o, S) \/ NewExtensionObject(o, S)
        PROVE  /\ UNCHANGED <<gcVars, queueVars, referent, hasCallback>> /\ In("to")' = {}
               /\ layouts \subseteq layouts' /\ tracked \subseteq tracked'
               /\ \A p \in In("from")' : p \in In("from") \/ LayoutOf[p] \in layouts \cup {None}
    BY <1>1, <1>2, <1>3, <1>7
  <1>8. ASSUME NEW w \in WeakRef, NEW r \in Obj, NEW b \in BOOLEAN, NEW S \in SUBSET Obj,
               NewWeakRef(w, r, b, S)
        PROVE  /\ UNCHANGED <<gcVars, queueVars, layouts, tracked>> /\ In("to")' = {}
               /\ hasCallback \subseteq hasCallback'
               /\ \A p \in In("from")' : p \in In("from") \/ LayoutOf[p] \in layouts \cup {None}
               /\ \A o \in Existing : referent'[o] = referent[o]
    <2>1. w \in Obj
      BY ScavengerAssumption
    <2> QED
      BY <1>1, <1>2, <1>4, <1>8, <2>1 DEF Existing, TypeOK
  <1>9. Accessible \in SUBSET Obj
    BY AccessibleObjects
  <1> QED
    BY <1>1, <1>5, <1>6, <1>7, <1>8, <1>9 DEF Mutate

\* A step of the loops over the queues touches no object.
LEMMA QueuesFrame ==
    ASSUME DrainQueues \/ UserCodeReturns
    PROVE  /\ phase = "run" /\ phase' \in {"run", "aborted"}
           /\ UNCHANGED <<space, referent, layouts, fwd, delayedCallbacks>>
  BY DEF DrainQueues, UserCodeReturns, DequeueCallback, CallbacksProcessed,
     FinalizeExtensionObject, CollectGarbageReturns, CallbackReturns, DeallocReleases,
     DeallocResurrects, InLoop, heapVars, gcVars

\* The last step of a collection: from-space is given up.
LEMMA SwapFrame ==
    ASSUME TypeOK, Inductive, Collect, phase = "swap"
    PROVE  /\ SwapSpaces /\ phase' = "run"
           /\ In("from")' = In("to") /\ In("to")' = {}
           /\ UNCHANGED <<layouts, tracked, finalizable>>
           /\ \A o \in Obj : space[o] # "from" => referent'[o] = referent[o]
           /\ callbacks' = callbacks \o delayedCallbacks /\ delayedCallbacks' = <<>>
           /\ hasCallback' = hasCallback \ In("from")
           /\ Held' \subseteq Held
  <1>1. SwapSpaces
    BY DEF Collect, ScanImmortalSpace, ProcessGrayImmortal, ProcessGrayTo, GrayPhases,
       ImmortalSpaceScanned, VisitRoots, VisitIncrementedApiHandles, GrayObjectsProcessed,
       VisitExtensionObjects, VisitNotIncrementedBorrowedApiHandles, ProcessDelayedReference,
       DelayedReferencesProcessed, ProcessLayouts
  <1>2. /\ phase' = "run" /\ UNCHANGED <<layouts, tracked, finalizable>>
        /\ space' = [o \in Obj |-> CASE space[o] = "from" -> "none"
                                     [] space[o] = "to" -> "from"
                                     [] OTHER -> space[o]]
        /\ referent' = [o \in Obj |-> IF space[o] = "from" THEN None ELSE referent[o]]
        /\ callbacks' = callbacks \o delayedCallbacks /\ delayedCallbacks' = <<>>
        /\ hasCallback' = hasCallback \ In("from")
    BY <1>1 DEF SwapSpaces, capiVars
  <1>3. In("from")' = In("to") /\ In("to")' = {}
    BY <1>2 DEF In, TypeOK
  <1>4. Held' \subseteq Held
    BY <1>1, PushPopHeld DEF SwapSpaces
  <1> QED
    BY <1>1, <1>2, <1>3, <1>4

-----------------------------------------------------------------------------
(***************************************************************************)
(* The parts of CollectorInvariant that Inductive lacks, one by one.       *)
(***************************************************************************)

\* A collection moves the layouts of what it moves; the entries it drops are of
\* layouts that nothing it kept uses.
LEMMA NextLayouts ==
    ASSUME TypeOK, Inductive, HandlesOK, LayoutsOK, [Next]_vars
    PROVE  LayoutsOK'
  <1>1. CASE Collect /\ phase # "swap"
    <2>1. Common
      BY <1>1, CollectCommon
    <2>2. PICK S \in SUBSET Existing, loc \in {"to", "immortal"} :
            /\ Moves(S, loc)
            /\ phase \in {"layouts"} \cup AfterLayouts => Moved(S) = {}
      BY <2>1 DEF Common, Moving
    <2>3. /\ In("from")' = In("from") \ Moved(S)
          /\ In("to")' \subseteq In("to") \cup Moved(S)
          /\ Kept' = Kept \cup Moved(S) /\ Kept \cap In("from") = {}
      BY <2>2, MovesEffect
    <2>4. ASSUME phase' \notin AfterLayouts, NEW o \in In("from")', LayoutOf[o] # None
          PROVE  LayoutOf[o] \in layouts'
      BY <2>1, <2>3, <2>4 DEF Common, LayoutsOK
    <2>5. ASSUME NEW o \in In("to"), LayoutOf[o] # None
          PROVE  LayoutOf[o] \in layouts' \cap Kept'
      BY <2>1, <2>3, <2>5 DEF Common, LayoutsOK
    <2>6. ASSUME NEW o \in Moved(S), LayoutOf[o] # None
          PROVE  LayoutOf[o] \in layouts' \cap Kept'
      <3>1. phase # "layouts" /\ phase \notin AfterLayouts /\ layouts' = layouts
        BY <2>1, <2>2, <2>6 DEF Common
      <3>2. o \in S \cap In("from")
        <4>1. LayoutOf \in [Obj -> Layouts \cup {None}] /\ \A p \in Layouts : LayoutOf[p] = None
          BY ScavengerAssumption
        <4>2. \A p \in Obj \cap {LayoutOf[q] : q \in S \cap In("from")} : p = None \/ p \in Layouts
          BY <4>1 DEF In
        <4> QED
          BY <2>6, <4>1, <4>2, ScavengerAssumption DEF Moved, In
      <3>3. LayoutOf[o] \in layouts
        BY <2>6, <3>1, <3>2 DEF LayoutsOK
      <3>4. LayoutOf[o] \in In("from") => LayoutOf[o] \in Moved(S)
        BY <3>2 DEF Moved
      <3>5. layouts \subseteq In("from") \cup Kept
        BY DEF Inductive, ClosedHeap, Existing, TypeOK, In, Kept
      <3> QED
        BY <2>3, <3>1, <3>3, <3>4, <3>5
    <2> QED
      BY <2>3, <2>4, <2>5, <2>6 DEF LayoutsOK
  <1>2. CASE Collect /\ phase = "swap"
    BY <1>2, SwapFrame DEF LayoutsOK
  <1>3. CASE Mutate
    BY <1>3, MutateFrame DEF LayoutsOK, gcVars, AfterLayouts
  <1>4. CASE DrainQueues \/ UserCodeReturns
    BY <1>4, QueuesFrame DEF LayoutsOK, In, Kept, AfterLayouts
  <1>5. CASE (\E d \in {"to", "immortal"} : CollectGarbageInto(d)) \/ UNCHANGED vars
    BY <1>5 DEF CollectGarbageInto, LayoutsOK, Running, vars, heapVars, gcVars, In, Kept,
       AfterLayouts
  <1> QED
    BY <1>1, <1>2, <1>3, <1>4, <1>5 DEF Next, Aborted

\* What a collection moves is counted by extension code or forwards.
LEMMA NextMoved ==
    ASSUME TypeOK, Inductive, HandlesOK, MovedOK, [Next]_vars
    PROVE  MovedOK'
  <1>0. ~Collecting' /\ In("to")' = {} => MovedOK'
    BY DEF MovedOK, Collecting, AfterHandles, AfterRoots
  <1>1. CASE Collect /\ phase # "swap"
    <2>1. Common
      BY <1>1, CollectCommon
    <2>2. PICK S \in SUBSET Existing, loc \in {"to", "immortal"} : Moves(S, loc)
      BY <2>1 DEF Common, Moving
    <2>3. /\ In("to")' \subseteq In("to") \cup Moved(S) /\ fwd' = fwd \cup Moved(S)
          /\ Kept \subseteq Kept'
      BY <2>2, MovesEffect DEF Moves
    <2>4. In("to")' \subseteq fwd'
      BY <2>3 DEF MovedOK
    <2>5. CASE phase \in AfterHandles <=> phase' \in AfterHandles
      <3>1. {o \in handles' : refcnt'[o] > 0} \subseteq {o \in handles : refcnt[o] > 0}
        BY <2>1 DEF Common
      <3> QED
        BY <2>3, <2>4, <2>5, <3>1 DEF MovedOK
    <2>6. CASE VisitIncrementedApiHandles
      <3> DEFINE counted == {o \in handles : refcnt[o] > 0}
      <3>1. counted \subseteq Existing /\ dest \in {"to", "immortal"}
        BY DEF Inductive, ClosedHeap, TypeOK
      <3>2. Scavenge("local", counted, dest) /\ counted' = counted
        BY <2>6 DEF VisitIncrementedApiHandles, capiVars
      <3> HIDE DEF counted
      <3>3. counted \subseteq Kept'
        BY <3>1, <3>2, Scavenged
      <3>4. counted' \subseteq Kept'
        BY <3>2, <3>3
      <3> QED
        BY <2>4, <3>4 DEF MovedOK, counted
    <2> QED
      BY <2>1, <2>5, <2>6 DEF Common
  <1>2. CASE Collect /\ phase = "swap"
    BY <1>0, <1>2, SwapFrame DEF Collecting
  <1>3. CASE Mutate
    BY <1>0, <1>3, MutateFrame DEF Collecting, gcVars
  <1>4. CASE DrainQueues \/ UserCodeReturns
    BY <1>0, <1>4, QueuesFrame DEF Collecting, In, Inductive, PhaseOK
  <1>5. CASE \E d \in {"to", "immortal"} : CollectGarbageInto(d)
    BY <1>5 DEF CollectGarbageInto, Running, MovedOK, AfterHandles, AfterRoots, heapVars, In,
       Inductive, PhaseOK, Collecting
  <1>6. CASE UNCHANGED vars
    BY <1>6 DEF vars, heapVars, capiVars, gcVars, MovedOK, In, Kept
  <1> QED
    BY <1>1, <1>2, <1>3, <1>4, <1>5, <1>6 DEF Next, Aborted

\* The induction on the order in which objects are moved: a set of moved objects
\* that holds the sources and what its members point to holds them all, after
\* each step that moves more.
LEMMA MovedIsJustified ==
    ASSUME TypeOK, Justified, Common
    PROVE  Justified'
  <1>1. PICK S \in SUBSET Existing, loc \in {"to", "immortal"} :
          /\ Moves(S, loc)
          /\ S \cap In("from") \subseteq Sources \/ \E o \in Kept : S = refs[o]
    BY DEF Common, Moving
  <1>2. /\ In("immortal") \subseteq In("immortal")'
        /\ In("immortal")' \subseteq In("immortal") \cup Moved(S)
        /\ Kept' = Kept \cup Moved(S) /\ Kept \cap In("from") = {}
        /\ Moved(S) \subseteq In("from")
        /\ \A o \in Moved(S) : o \in Code \/ loc = "immortal" => o \in In("immortal")'
        /\ Kept \subseteq Obj
    BY <1>1, MovesEffect
  <1>3. /\ refs' = refs /\ Collecting
        /\ RootSet \subseteq RootSet' /\ tracked' = tracked /\ refcnt' = refcnt
        /\ \A o \in handles : refcnt[o] > 0 => o \in handles'
    BY DEF Common
  <1>4. Sources \subseteq Sources'
    BY <1>2, <1>3 DEF Sources
  <1>5. In("immortal")' \subseteq Sources'
    BY DEF Sources
  <1>6. SUFFICES ASSUME NEW T \in SUBSET (Kept'), (Sources') \cap (Kept') \subseteq T,
                        \A p \in T : (refs[p] \cup {LayoutOf[q] : q \in {p} \ In("immortal")'})
                                       \cap (Kept') \subseteq T
                 PROVE  Kept' \subseteq T
    BY <1>3 DEF Justified, Points
  <1>7. Kept \subseteq T
    <2>1. Sources \cap Kept \subseteq T \cap Kept
      BY <1>2, <1>4, <1>6
    <2>2. ASSUME NEW p \in T \cap Kept PROVE Points(p) \cap Kept \subseteq T \cap Kept
      <3>1. p \notin In("immortal") => p \notin In("immortal")'
        BY <1>2
      <3> QED
        BY <1>2, <1>6, <3>1 DEF Points
    <2> QED
      BY <1>3, <2>1, <2>2 DEF Justified
  <1>8. S \cap In("from") \subseteq T
    <2>1. S \cap In("from") \subseteq Kept'
      BY <1>2 DEF Moved
    <2>2. CASE S \cap In("from") \subseteq Sources
      BY <1>4, <1>6, <2>1, <2>2
    <2>3. CASE \E o \in Kept : S = refs[o]
      BY <1>6, <1>7, <2>1, <2>3
    <2> QED
      BY <1>1, <2>2, <2>3
  <1>9. ASSUME NEW o \in Moved(S), o \notin S PROVE o \in T
    <2>1. PICK q \in S \cap In("from") : o = LayoutOf[q] /\ q \in Moved(S)
      BY <1>9 DEF Moved
    <2>2. CASE q \notin In("immortal")'
      BY <1>2, <1>6, <1>8, <2>1, <2>2
    <2>3. CASE q \in In("immortal")'
      <3>1. q \notin Code
        BY <2>1, <1>2, ScavengerAssumption DEF In
      <3>2. loc = "immortal"
        BY <1>1, <2>1, <2>3, <3>1 DEF Moves, In
      <3>3. o \in In("immortal")'
        BY <1>2, <1>9, <3>2
      <3> QED
        BY <1>2, <1>5, <1>6, <1>9, <3>3
    <2> QED
      BY <2>2, <2>3
  <1> QED
    BY <1>2, <1>7, <1>8, <1>9 DEF Moved

\* A collection starts with the immortal objects, and moves what it can justify.
LEMMA NextJustified ==
    ASSUME TypeOK, Inductive, HandlesOK, Justified, [Next]_vars
    PROVE  Justified'
  <1>1. CASE Collect /\ phase # "swap"
    BY <1>1, CollectCommon, MovedIsJustified
  <1>2. CASE \E d \in {"to", "immortal"} : CollectGarbageInto(d)
    <2>1. In("to") = {} /\ space' = space
      BY <1>2 DEF CollectGarbageInto, Running, heapVars, Inductive, PhaseOK, Collecting
    <2>2. Kept' \subseteq Sources'
      BY <2>1 DEF Kept, Sources, In
    <2> QED
      BY <2>2 DEF Justified
  <1>3. CASE UNCHANGED vars
    BY <1>3 DEF vars, heapVars, capiVars, queueVars, gcVars, Justified, Collecting, Kept, In,
       Sources, RootSet, Elems, Held, Points
  <1>4. ~Collecting' => Justified'
    BY DEF Justified
  <1> QED
    BY <1>1, <1>2, <1>3, <1>4, SwapFrame, MutateFrame, QueuesFrame
    DEF Next, Aborted, Collecting, gcVars

-----------------------------------------------------------------------------
(***************************************************************************)
(* The queues.                                                             *)
(***************************************************************************)

\* A queue in which nothing is twice.
Distinct(q) == \A i, j \in DOMAIN q : q[i] = q[j] => i = j

LEMMA DistinctAppend ==
    ASSUME NEW X, NEW q \in Seq(X), NEW x \in X, Distinct(q), x \notin Elems(q)
    PROVE  Distinct(Append(q, x))
  <1>1. /\ DOMAIN q = 1..Len(q) /\ Len(q) \in Nat
        /\ DOMAIN Append(q, x) = 1..(Len(q) + 1)
        /\ \A i \in 1..Len(q) : Append(q, x)[i] = q[i] /\ q[i] # x
        /\ Append(q, x)[Len(q) + 1] = x
    BY DEF Elems
  <1>2. \A i \in 1..(Len(q) + 1) : i \in 1..Len(q) \/ i = Len(q) + 1
    BY <1>1
  <1> QED
    BY <1>1, <1>2 DEF Distinct

LEMMA DistinctTail ==
    ASSUME NEW X, NEW q \in Seq(X), q # <<>>, Distinct(q)
    PROVE  Distinct(Tail(q)) /\ Head(q) \notin Elems(Tail(q))
  <1>1. /\ DOMAIN q = 1..Len(q) /\ Len(q) \in Nat /\ Len(q) > 0
        /\ Head(q) = q[1]
        /\ DOMAIN Tail(q) = 1..(Len(q) - 1)
        /\ \A i \in 1..(Len(q) - 1) : Tail(q)[i] = q[i + 1]
    OBVIOUS
  <1>2. \A i \in 1..(Len(q) - 1) : i + 1 \in 1..Len(q) /\ i + 1 # 1
    BY <1>1
  <1>3. 1 \in 1..Len(q) /\ \A i, j \in 1..(Len(q) - 1) : i + 1 = j + 1 => i = j
    BY <1>1
  <1>4. \A i, j \in 1..(Len(q) - 1) : q[i + 1] = q[j + 1] => i = j
    BY <1>1, <1>2, <1>3 DEF Distinct
  <1>5. \A i \in 1..(Len(q) - 1) : q[i + 1] # q[1]
    BY <1>1, <1>2, <1>3 DEF Distinct
  <1> QED
    BY <1>1, <1>4, <1>5 DEF Distinct, Elems

LEMMA DistinctConcat ==
    ASSUME NEW X, NEW q \in Seq(X), NEW r \in Seq(X)
    PROVE  Distinct(q \o r) <=> Distinct(q) /\ Distinct(r) /\ Elems(q) \cap Elems(r) = {}
  <1>1. /\ DOMAIN q = 1..Len(q) /\ DOMAIN r = 1..Len(r)
        /\ DOMAIN (q \o r) = 1..(Len(q) + Len(r))
        /\ Len(q) \in Nat /\ Len(r) \in Nat
        /\ \A i \in 1..Len(q) : (q \o r)[i] = q[i]
        /\ \A i \in 1..Len(r) : (q \o r)[Len(q) + i] = r[i]
    OBVIOUS
  <1>2. \A i \in 1..Len(q) : i \in 1..(Len(q) + Len(r))
    BY <1>1
  <1>3. \A i \in 1..Len(r) : /\ Len(q) + i \in 1..(Len(q) + Len(r))
                             /\ Len(q) + i \notin 1..Len(q)
    BY <1>1
  <1>4. \A i, j \in 1..Len(r) : Len(q) + i = Len(q) + j => i = j
    BY <1>1
  <1>5. ASSUME Distinct(q \o r)
        PROVE  Distinct(q) /\ Distinct(r) /\ Elems(q) \cap Elems(r) = {}
    <2>1. Distinct(q)
      BY <1>1, <1>2, <1>5 DEF Distinct
    <2>2. \A i, j \in 1..Len(r) : r[i] = r[j] => Len(q) + i = Len(q) + j
      BY <1>1, <1>3, <1>5 DEF Distinct
    <2>3. Distinct(r)
      BY <1>1, <1>4, <2>2 DEF Distinct
    <2>4. \A i \in 1..Len(q), j \in 1..Len(r) : q[i] # r[j]
      <3>1. SUFFICES ASSUME NEW i \in 1..Len(q), NEW j \in 1..Len(r), q[i] = r[j] PROVE FALSE
        OBVIOUS
      <3>2. (q \o r)[i] = (q \o r)[Len(q) + j]
        BY <1>1, <3>1
      <3>3. i = Len(q) + j
        BY <1>1, <1>2, <1>3, <1>5, <3>2 DEF Distinct
      <3> QED
        BY <1>3, <3>3
    <2> QED
      BY <1>1, <2>1, <2>3, <2>4 DEF Elems
  <1>6. ASSUME Distinct(q), Distinct(r), Elems(q) \cap Elems(r) = {}
        PROVE  Distinct(q \o r)
    <2>1. \A i \in 1..(Len(q) + Len(r)) :
             \/ i \in 1..Len(q)
             \/ i - Len(q) \in 1..Len(r) /\ i = Len(q) + (i - Len(q))
      BY <1>1
    <2>2. SUFFICES ASSUME NEW i \in 1..(Len(q) + Len(r)), NEW j \in 1..(Len(q) + Len(r)),
                          (q \o r)[i] = (q \o r)[j]
                   PROVE  i = j
      BY <1>1 DEF Distinct
    <2>3. \A a \in 1..Len(q), b \in 1..Len(r) : q[a] # r[b]
      BY <1>1, <1>6 DEF Elems
    <2>4. CASE i \in 1..Len(q) /\ j \in 1..Len(q)
      BY <1>1, <1>6, <2>2, <2>4 DEF Distinct
    <2>5. CASE i \notin 1..Len(q) /\ j \notin 1..Len(q)
      <3>1. /\ i - Len(q) \in 1..Len(r) /\ i = Len(q) + (i - Len(q))
            /\ j - Len(q) \in 1..Len(r) /\ j = Len(q) + (j - Len(q))
        BY <2>1, <2>5
      <3>2. (q \o r)[i] = r[i - Len(q)] /\ (q \o r)[j] = r[j - Len(q)]
        BY <1>1, <3>1
      <3>3. i - Len(q) = j - Len(q)
        BY <1>1, <1>6, <2>2, <3>1, <3>2 DEF Distinct
      <3> QED
        BY <3>1, <3>3
    <2>6. CASE i \in 1..Len(q) /\ j \notin 1..Len(q)
      BY <1>1, <2>1, <2>2, <2>3, <2>6
    <2>7. CASE i \notin 1..Len(q) /\ j \in 1..Len(q)
      BY <1>1, <2>1, <2>2, <2>3, <2>7
    <2> QED
      BY <2>4, <2>5, <2>6, <2>7
  <1> QED
    BY <1>5, <1>6

\* The two queues of weakrefs taken apart.
CallbackParts ==
    /\ Distinct(callbacks) /\ Distinct(delayedCallbacks)
    /\ Elems(callbacks) \cap Elems(delayedCallbacks) = {}
    /\ \A w \in Elems(callbacks) \cup Elems(delayedCallbacks) :
         w \in hasCallback \ Held /\ referent[w] = None

LEMMA CallbackQueueParts == TypeOK => (CallbackQueueOK <=> CallbackParts)
  <1> SUFFICES ASSUME TypeOK PROVE CallbackQueueOK <=> CallbackParts
    OBVIOUS
  <1> DEFINE q == callbacks \o delayedCallbacks
             Fine(w) == w \in hasCallback \ Held /\ referent[w] = None
  <1>1. callbacks \in Seq(WeakRef) /\ delayedCallbacks \in Seq(WeakRef)
    BY DEF TypeOK
  <1>2. Elems(q) = Elems(callbacks) \cup Elems(delayedCallbacks)
    BY <1>1, ElemsConcat
  <1>3. Distinct(q) <=> /\ Distinct(callbacks) /\ Distinct(delayedCallbacks)
                        /\ Elems(callbacks) \cap Elems(delayedCallbacks) = {}
    BY <1>1, DistinctConcat
  <1>4. CallbackQueueOK <=> (\A i \in DOMAIN q : Fine(q[i])) /\ Distinct(q)
    BY DEF CallbackQueueOK, Distinct
  <1>5. CallbackParts <=> /\ Distinct(callbacks) /\ Distinct(delayedCallbacks)
                          /\ Elems(callbacks) \cap Elems(delayedCallbacks) = {}
                          /\ \A w \in Elems(callbacks) \cup Elems(delayedCallbacks) : Fine(w)
    BY DEF CallbackParts
  <1> HIDE DEF q, Fine
  <1>6. (\A i \in DOMAIN q : Fine(q[i])) <=> (\A w \in Elems(q) : Fine(w))
    BY DEF Elems
  <1> QED
    BY <1>2, <1>3, <1>4, <1>5, <1>6

\* A weakref is enqueued when it is cleared, and leaves the queue when its
\* callback starts.
LEMMA NextCallbacks ==
    ASSUME TypeOK, Inductive, HandlesOK, HeldCleared, CallbackParts, [Next]_vars
    PROVE  HeldCleared' /\ CallbackParts'
  <1> DEFINE Queued == Elems(callbacks) \cup Elems(delayedCallbacks)
  <1>1. /\ callbacks \in Seq(WeakRef) /\ delayedCallbacks \in Seq(WeakRef)
        /\ delayed \in Seq(WeakRef) /\ WeakRef \subseteq Obj
        /\ referent \in [Obj -> Obj \cup {None}]
    BY ScavengerAssumption DEF TypeOK
  <1>2. Held \subseteq RootSet /\ Elems(callbacks) \subseteq RootSet /\ RootSet \subseteq Existing
    BY DEF RootSet, Inductive, ClosedHeap
  <1>3. ASSUME Held' \subseteq Held, UNCHANGED <<callbacks, delayedCallbacks>>,
               hasCallback \cap Queued \subseteq hasCallback',
               \A w \in Queued \cup Held : referent'[w] = referent[w]
        PROVE  HeldCleared' /\ CallbackParts'
    <2>1. HeldCleared'
      BY <1>3 DEF HeldCleared
    <2>2. \A w \in Elems(callbacks)' \cup Elems(delayedCallbacks)' :
             w \in hasCallback' \ Held' /\ referent'[w] = None
      BY <1>3 DEF CallbackParts, Elems
    <2>3. /\ Distinct(callbacks)' /\ Distinct(delayedCallbacks)'
          /\ (Elems(callbacks) \cap Elems(delayedCallbacks) = {})'
      BY <1>3 DEF CallbackParts, Elems, Distinct
    <2> QED
      BY <2>1, <2>2, <2>3 DEF CallbackParts
  <1>4. ASSUME UNCHANGED <<frames, callbacks, delayedCallbacks, hasCallback, referent>>
        PROVE  HeldCleared' /\ CallbackParts'
    BY <1>4, <1>3 DEF Held
  <1>5. CASE ProcessDelayedReference
    <2> DEFINE w == Head(delayed)
               clear == referent[w] # None /\ IsWhite(referent[w])
    <2>1. /\ w \in WeakRef
          /\ UNCHANGED <<frames, callbacks, hasCallback>>
          /\ referent' = IF clear THEN [referent EXCEPT ![w] = None] ELSE referent
          /\ delayedCallbacks' = IF clear /\ w \in hasCallback
                                 THEN Append(delayedCallbacks, w) ELSE delayedCallbacks
      BY <1>1, <1>5 DEF ProcessDelayedReference, queueVars
    <2>2. CASE ~clear
      BY <1>4, <2>1, <2>2
    <2>3. CASE clear
      <3>1. w \notin Queued \cup Held
        BY <2>1, <2>3 DEF CallbackParts, HeldCleared
      <3>2. referent' = [referent EXCEPT ![w] = None]
        BY <2>1, <2>3
      <3>3. Held' = Held
        BY <2>1 DEF Held
      <3>4. CASE w \notin hasCallback
        <4> HIDE DEF w, clear
        <4> QED
          BY <1>1, <1>3, <2>1, <2>3, <3>1, <3>2, <3>3, <3>4
      <3>5. CASE w \in hasCallback
        <4> HIDE DEF w, clear
        <4>1. delayedCallbacks' = Append(delayedCallbacks, w)
          BY <2>1, <2>3, <3>5
        <4>2. /\ Elems(delayedCallbacks)' = Elems(delayedCallbacks) \cup {w}
              /\ Distinct(delayedCallbacks)'
          <5>1. w \notin Elems(delayedCallbacks) /\ Distinct(delayedCallbacks)
            BY <3>1 DEF CallbackParts
          <5>2. Elems(Append(delayedCallbacks, w)) = Elems(delayedCallbacks) \cup {w}
            BY <1>1, <2>1, ElemsAppend
          <5>3. Distinct(Append(delayedCallbacks, w))
            BY <1>1, <2>1, <5>1, DistinctAppend
          <5> QED
            BY <4>1, <5>2, <5>3
        <4>3. Elems(callbacks)' = Elems(callbacks) /\ Distinct(callbacks)'
          BY <2>1 DEF CallbackParts, Elems, Distinct
        <4>4. \A v \in Queued \cup Held \cup {w} : referent'[v] = None \/ v \in Held
          BY <1>1, <2>1, <3>1, <3>2 DEF CallbackParts
        <4>5. HeldCleared'
          BY <1>1, <3>1, <3>2, <3>3 DEF HeldCleared
        <4>6. \A v \in Queued \cup {w} : v \in hasCallback' \ Held' /\ referent'[v] = None
          BY <2>1, <3>1, <3>3, <3>5, <4>4 DEF CallbackParts
        <4>7. Elems(callbacks)' \cap Elems(delayedCallbacks)' = {}
          BY <3>1, <4>2, <4>3 DEF CallbackParts
        <4> QED
          BY <4>2, <4>3, <4>5, <4>6, <4>7 DEF CallbackParts
      <3> QED
        BY <3>4, <3>5
    <2> HIDE DEF clear
    <2> QED
      BY <2>2, <2>3
  <1>6. CASE Collect /\ phase # "swap" /\ ~ProcessDelayedReference
    BY <1>4, <1>6 DEF Collect, ScanImmortalSpace, ProcessGrayImmortal, ProcessGrayTo,
       ScanObject, ImmortalSpaceScanned, VisitRoots, VisitIncrementedApiHandles,
       GrayObjectsProcessed, VisitExtensionObjects, VisitNotIncrementedBorrowedApiHandles,
       DelayedReferencesProcessed, ProcessLayouts, SwapSpaces, heapVars, queueVars
  <1>7. CASE Collect /\ phase = "swap"
    <2>1. /\ Held' \subseteq Held /\ callbacks' = callbacks \o delayedCallbacks
          /\ delayedCallbacks' = <<>> /\ hasCallback' = hasCallback \ In("from")
          /\ \A o \in Obj : space[o] # "from" => referent'[o] = referent[o]
      BY <1>7, SwapFrame
    <2>2. Queued \cup Held \subseteq Kept /\ Kept \cap In("from") = {}
      BY <1>2, <1>7 DEF Inductive, PhaseOK, TriColor, AfterRoots, Collecting, Kept, In
    <2>3. \A o \in Queued \cup Held : o \in Obj /\ space[o] # "from"
      BY <2>2 DEF Kept, In
    <2>4. HeldCleared'
      BY <2>1, <2>3 DEF HeldCleared
    <2>5. Distinct(callbacks)' /\ Elems(callbacks)' = Queued
      BY <1>1, <2>1, DistinctConcat, ElemsConcat DEF CallbackParts
    <2>6. Distinct(delayedCallbacks)' /\ Elems(delayedCallbacks)' = {}
      BY <2>1 DEF Distinct, Elems
    <2>7. \A v \in Queued : v \in hasCallback' \ Held' /\ referent'[v] = None
      BY <2>1, <2>2, <2>3 DEF CallbackParts
    <2> QED
      BY <2>4, <2>5, <2>6, <2>7 DEF CallbackParts
  <1>8. phase = "run" => delayedCallbacks = <<>> /\ Queued \subseteq Existing
    BY <1>2 DEF Inductive, PhaseOK, Collecting, Elems
  <1>9. CASE Mutate
    <2>1. /\ phase = "run" /\ UNCHANGED <<frames, callbacks, delayedCallbacks>>
          /\ hasCallback \subseteq hasCallback'
          /\ \A o \in Existing : referent'[o] = referent[o]
      BY <1>9, MutateFrame DEF gcVars, queueVars
    <2>2. Held' = Held
      BY <2>1 DEF Held
    <2> QED
      BY <1>2, <1>3, <1>8, <2>1, <2>2
  <1>10. CASE DequeueCallback
    <2>1. /\ callbacks' = Tail(callbacks) /\ callbacks # <<>> /\ frames # <<>>
          /\ SetTop("callbacks", Head(callbacks)) /\ phase = "run"
          /\ UNCHANGED <<referent, hasCallback, delayedCallbacks>>
      BY <1>10 DEF DequeueCallback, InLoop, heapVars, gcVars
    <2>2. /\ Head(callbacks) \in Elems(callbacks) /\ Head(callbacks) \in WeakRef
          /\ Elems(callbacks) = {Head(callbacks)} \cup Elems(Tail(callbacks))
      BY <1>1, <2>1, ElemsTail
    <2>3. Distinct(Tail(callbacks)) /\ Head(callbacks) \notin Elems(Tail(callbacks))
      BY <1>1, <2>1, DistinctTail DEF CallbackParts
    <2>4. Held' \subseteq Held \cup {Head(callbacks)}
      BY <2>1, <2>2, SetTopItem
    <2>5. HeldCleared'
      BY <2>1, <2>2, <2>4 DEF HeldCleared, CallbackParts
    <2>6. Distinct(callbacks)' /\ Elems(callbacks)' = Elems(Tail(callbacks))
      BY <2>1, <2>3
    <2>7. Distinct(delayedCallbacks)' /\ Elems(delayedCallbacks)' = {}
      BY <1>8, <2>1 DEF Distinct, Elems
    <2>8. \A v \in Elems(Tail(callbacks)) : v \in hasCallback' \ Held' /\ referent'[v] = None
      BY <2>1, <2>2, <2>3, <2>4 DEF CallbackParts
    <2> QED
      BY <2>5, <2>6, <2>7, <2>8 DEF CallbackParts
  <1>11. CASE CallbackReturns
    <2>1. /\ frames # <<>> /\ SetTop("callbacks", None) /\ phase = "run" /\ Top.cur # None
          /\ hasCallback' = hasCallback \ {Top.cur}
          /\ UNCHANGED <<referent, callbacks, delayedCallbacks>>
      BY <1>11 DEF CallbackReturns, InLoop, gcVars
    <2>2. Held' \subseteq Held
      BY <2>1, SetTopNone
    <2>3. Top.cur \in Held
      <3>1. Len(frames) \in DOMAIN frames
        BY <2>1 DEF TypeOK, Activation
      <3> QED
        BY <2>1, <3>1 DEF Held, Top
    <2> QED
      BY <1>3, <2>1, <2>2, <2>3 DEF CallbackParts
  <1>12. CASE FinalizeExtensionObject
    <2>1. /\ finalizable # <<>> /\ frames # <<>>
          /\ frames' = frames \/ SetTop("finalizers", Head(finalizable))
          /\ UNCHANGED <<referent, hasCallback, callbacks, delayedCallbacks>>
      BY <1>12 DEF FinalizeExtensionObject, InLoop, heapVars
    <2>2. Head(finalizable) \in Proxy
      BY <2>1 DEF TypeOK
    <2>3. Held' \subseteq Held \cup {Head(finalizable)}
      BY <2>1, <2>2, SetTopItem DEF Held
    <2>4. Head(finalizable) \notin WeakRef
      BY <2>2, ScavengerAssumption
    <2>5. Queued \subseteq WeakRef
      BY <1>1 DEF Elems
    <2>6. HeldCleared'
      BY <2>1, <2>3, <2>4 DEF HeldCleared
    <2>7. Elems(callbacks)' = Elems(callbacks) /\ Elems(delayedCallbacks)' = Elems(delayedCallbacks)
      BY <2>1
    <2>8. \A v \in Queued : v \in hasCallback' \ Held' /\ referent'[v] = None
      BY <2>1, <2>3, <2>4, <2>5 DEF CallbackParts
    <2> QED
      BY <2>1, <2>6, <2>7, <2>8 DEF CallbackParts, Distinct
  <1>13. CASE CallbacksProcessed \/ CollectGarbageReturns \/ DeallocReleases \/ DeallocResurrects
    <2>1. /\ frames # <<>>
          /\ \/ SetTop("finalizers", None)
             \/ frames' = SubSeq(frames, 1, Len(frames) - 1)
          /\ UNCHANGED <<referent, hasCallback, callbacks, delayedCallbacks>>
      BY <1>13 DEF CallbacksProcessed, CollectGarbageReturns, DeallocReleases,
         DeallocResurrects, InLoop, heapVars, gcVars
    <2>2. Held' \subseteq Held
      BY <2>1, SetTopNone, PushPopHeld
    <2> QED
      BY <1>3, <2>1, <2>2
  <1>14. CASE \E d \in {"to", "immortal"} : CollectGarbageInto(d)
    <2>1. /\ phase = "run" /\ delayedCallbacks' = <<>>
          /\ UNCHANGED <<frames, callbacks, hasCallback, referent>>
      BY <1>14 DEF CollectGarbageInto, Running, heapVars, queueVars
    <2> QED
      BY <1>4, <1>8, <2>1
  <1>15. CASE UNCHANGED vars
    BY <1>4, <1>15 DEF vars, heapVars, queueVars, gcVars
  <1> QED
    BY <1>5, <1>6, <1>7, <1>9, <1>10, <1>11, <1>12, <1>13, <1>14, <1>15
    DEF Next, Aborted, DrainQueues, UserCodeReturns

\* The queue of extension objects, taken apart.
FinalizerParts == Distinct(finalizable) /\ Elems(finalizable) \subseteq tracked \ Held

LEMMA FinalizerQueueParts == FinalizerQueueOK <=> FinalizerParts
  BY DEF FinalizerQueueOK, FinalizerParts, Distinct, Elems

\* What the queue needs: an immortal object is never forwarded, and so looks
\* unvisited to each collection, which would queue it again.
QueuedAreMortal ==
    \A x \in Proxy : x \in Elems(finalizable) \cup Held => space[x] # "immortal"

\* An extension object is enqueued once: a queued or running one is visited with
\* the roots, before visitExtensionObjects() looks for unvisited ones.
LEMMA NextFinalizers ==
    ASSUME TypeOK, Inductive, MovedOK, FinalizerParts, QueuedAreMortal, [Next]_vars
    PROVE  FinalizerParts'
  <1>1. finalizable \in Seq(Proxy) /\ Proxy \subseteq Obj /\ tracked \subseteq Proxy
    BY ScavengerAssumption DEF TypeOK
  <1>2. Elems(finalizable) \subseteq Proxy
    BY <1>1 DEF Elems
  <1>3. ASSUME finalizable' = finalizable, Held' \cap Proxy \subseteq Held, tracked \ Held \subseteq tracked'
        PROVE  FinalizerParts'
    BY <1>2, <1>3 DEF FinalizerParts, Distinct, Elems
  <1>4. CASE VisitExtensionObjects
    <2> DEFINE dead == {x \in tracked : refcnt[x] <= 1 /\ IsWhite(x)}
    <2>1. PICK q \in Orders(dead) : finalizable' = finalizable \o q
      BY <1>4 DEF VisitExtensionObjects
    <2>2. /\ phase = "extension" /\ UNCHANGED <<frames, tracked>>
      BY <1>4 DEF VisitExtensionObjects, capiVars
    <2>3. dead \subseteq tracked /\ dead \cap fwd = {}
      BY DEF IsWhite
    <2> HIDE DEF dead
    <2>4. q \in Seq(dead) /\ Elems(q) \subseteq dead /\ dead \in SUBSET Obj
      BY <1>1, <2>3, OrdersAreSequences
    <2>5. q \in Seq(Proxy)
      BY <1>1, <2>3, <2>4
    <2>6. DOMAIN q = 1..Cardinality(dead)
      BY DEF Orders
    <2>7. Distinct(q)
      BY <2>6 DEF Orders, Distinct
    <2>8. RootSet \subseteq Kept /\ In("to") \subseteq fwd
      BY <2>2 DEF Inductive, PhaseOK, AfterRoots, MovedOK
    <2>9. Elems(finalizable) \cup Held \subseteq RootSet
      BY DEF RootSet
    <2>10. ASSUME NEW x \in dead PROVE x \notin Elems(finalizable) \cup Held
      <3>1. SUFFICES ASSUME x \in Elems(finalizable) \cup Held PROVE FALSE
        OBVIOUS
      <3>2. x \in Proxy /\ x \in Kept
        BY <1>1, <2>3, <2>8, <2>9, <3>1
      <3>3. x \in In("to")
        BY <3>1, <3>2 DEF QueuedAreMortal, Kept, In
      <3> QED
        BY <2>3, <2>8, <3>3
    <2>11. Elems(finalizable') = Elems(finalizable) \cup Elems(q)
      BY <1>1, <2>1, <2>5, ElemsConcat
    <2>12. Distinct(finalizable')
      BY <1>1, <2>1, <2>4, <2>5, <2>7, <2>10, DistinctConcat DEF FinalizerParts
    <2>13. Held' = Held
      BY <2>2 DEF Held
    <2>14. Elems(finalizable') \subseteq tracked \ Held
      BY <2>3, <2>4, <2>10, <2>11 DEF FinalizerParts
    <2>15. Elems(finalizable') \subseteq tracked' \ Held'
      BY <2>2, <2>13, <2>14
    <2> QED
      BY <2>12, <2>15 DEF FinalizerParts
  <1>5. CASE Collect /\ ~VisitExtensionObjects /\ phase # "swap"
    <2>1. UNCHANGED <<frames, tracked, finalizable>>
      BY <1>5 DEF Collect, ScanImmortalSpace, ProcessGrayImmortal, ProcessGrayTo,
         ScanObject, ImmortalSpaceScanned, VisitRoots, VisitIncrementedApiHandles,
         GrayObjectsProcessed, VisitNotIncrementedBorrowedApiHandles, ProcessDelayedReference,
         DelayedReferencesProcessed, ProcessLayouts, SwapSpaces, capiVars, queueVars
    <2> QED
      BY <1>3, <2>1 DEF Held
  <1>6. CASE Collect /\ phase = "swap"
    BY <1>3, <1>6, SwapFrame
  <1>7. CASE Mutate
    <2>1. UNCHANGED <<frames, finalizable>> /\ tracked \subseteq tracked'
      BY <1>7, MutateFrame DEF queueVars
    <2> QED
      BY <1>3, <2>1 DEF Held
  <1>8. CASE FinalizeExtensionObject
    <2>1. /\ finalizable # <<>> /\ frames # <<>> /\ finalizable' = Tail(finalizable)
          /\ frames' = frames \/ SetTop("finalizers", Head(finalizable))
          /\ tracked' = tracked
      BY <1>8 DEF FinalizeExtensionObject, InLoop
    <2>2. /\ Head(finalizable) \in Proxy
          /\ Elems(finalizable) = {Head(finalizable)} \cup Elems(Tail(finalizable))
      BY <1>1, <2>1, ElemsTail
    <2>3. Distinct(Tail(finalizable)) /\ Head(finalizable) \notin Elems(Tail(finalizable))
      BY <1>1, <2>1, DistinctTail DEF FinalizerParts
    <2>4. Held' \subseteq Held \cup {Head(finalizable)}
      BY <2>1, <2>2, SetTopItem DEF Held
    <2>5. Elems(Tail(finalizable)) \subseteq tracked \ Held'
      BY <2>2, <2>3, <2>4 DEF FinalizerParts
    <2> QED
      BY <2>1, <2>3, <2>5 DEF FinalizerParts
  <1>9. CASE DequeueCallback
    <2>1. /\ frames # <<>> /\ SetTop("callbacks", Head(callbacks)) /\ callbacks # <<>>
          /\ UNCHANGED <<finalizable, tracked>>
      BY <1>9 DEF DequeueCallback, InLoop, capiVars
    <2>2. Head(callbacks) \in WeakRef
      BY <2>1 DEF TypeOK
    <2>3. Held' \subseteq Held \cup {Head(callbacks)} /\ Head(callbacks) \notin Proxy
      BY <2>1, <2>2, SetTopItem, ScavengerAssumption
    <2> QED
      BY <1>3, <2>1, <2>3
  <1>10. CASE DeallocReleases
    <2>1. /\ frames # <<>> /\ SetTop("finalizers", None) /\ Top.cur # None
          /\ tracked' = tracked \ {Top.cur} /\ finalizable' = finalizable
      BY <1>10 DEF DeallocReleases, InLoop
    <2>2. Held' \subseteq Held
      BY <2>1, SetTopNone
    <2>3. Top.cur \in Held
      <3>1. Len(frames) \in DOMAIN frames
        BY <2>1 DEF TypeOK, Activation
      <3> QED
        BY <2>1, <3>1 DEF Held, Top
    <2> QED
      BY <1>3, <2>1, <2>2, <2>3
  <1>11. CASE \/ CallbacksProcessed \/ CollectGarbageReturns \/ CallbackReturns
              \/ DeallocResurrects
    <2>1. /\ frames # <<>>
          /\ \/ \E l \in {"callbacks", "finalizers"} : SetTop(l, None)
             \/ frames' = SubSeq(frames, 1, Len(frames) - 1)
          /\ UNCHANGED <<finalizable, tracked>>
      BY <1>11 DEF CallbacksProcessed, CollectGarbageReturns, CallbackReturns,
         DeallocResurrects, InLoop, capiVars
    <2>2. Held' \subseteq Held
      BY <2>1, SetTopNone, PushPopHeld
    <2> QED
      BY <1>3, <2>1, <2>2
  <1>12. CASE (\E d \in {"to", "immortal"} : CollectGarbageInto(d)) \/ UNCHANGED vars
    BY <1>3, <1>12 DEF CollectGarbageInto, vars, capiVars, queueVars, Held
  <1> QED
    BY <1>4, <1>5, <1>6, <1>7, <1>8, <1>9, <1>10, <1>11, <1>12
    DEF Next, Aborted, DrainQueues, UserCodeReturns

-----------------------------------------------------------------------------
(***************************************************************************)
(* What is reachable.                                                      *)
(***************************************************************************)

LEMMA ReachLayoutsInClosed ==
    ASSUME NEW S, NEW T \in SUBSET Existing, S \subseteq T,
           \A p \in T : Points(p) \subseteq T \cup {None}
    PROVE  ReachWithLayouts(S) \subseteq T
  BY DEF ReachWithLayouts, Points

LEMMA ReachLayoutsCloses ==
    ASSUME NEW S, S \subseteq Existing
    PROVE  /\ S \subseteq ReachWithLayouts(S)
           /\ \A p \in ReachWithLayouts(S) : Points(p) \cap Existing \subseteq ReachWithLayouts(S)
  <1>1. S \subseteq ReachWithLayouts(S)
    BY DEF ReachWithLayouts, Existing
  <1>2. ASSUME NEW p \in ReachWithLayouts(S), NEW o \in Points(p) \cap Existing
        PROVE  o \in ReachWithLayouts(S)
    <2>1. SUFFICES ASSUME NEW T \in SUBSET (S \cup Existing), S \subseteq T,
                          \A q \in T : Points(q) \subseteq T \cup {None}
                   PROVE  o \in T
      BY DEF ReachWithLayouts, Points, Existing
    <2>2. p \in T
      BY <2>1 DEF ReachWithLayouts, Points
    <2> QED
      BY <1>2, <2>1, <2>2, ScavengerAssumption DEF Existing
  <1> QED
    BY <1>1, <1>2

\* When nothing is gray, a collection has moved all that it must keep, and after
\* the extension objects' pass all that it may keep: what was moved is closed.
LEMMA ReachableIsKept ==
    ASSUME TypeOK, Inductive, MovedOK, LayoutsOK, Collecting, gray = {},
           phase \in AfterHandles
    PROVE  /\ MustKeep \subseteq Kept
           /\ phase \in AfterExtension => MayKeep \subseteq Kept
  <1>1. Kept \in SUBSET Existing
    BY DEF Kept, Existing, In
  <1>2. ASSUME NEW p \in Kept PROVE Points(p) \subseteq Kept \cup {None}
    <2>1. refs[p] \subseteq Kept
      BY <1>2 DEF Inductive, TriColor
    <2>2. p \notin In("immortal") => LayoutOf[p] \in Kept \cup {None}
      BY <1>2 DEF LayoutsOK, Kept
    <2> QED
      BY <2>1, <2>2 DEF Points
  <1>3. RootSet \cup {o \in handles : refcnt[o] > 0} \cup In("immortal") \subseteq Kept
    BY DEF Inductive, PhaseOK, MovedOK, AfterHandles, Kept
  <1>4. MustKeep \subseteq Kept
    BY <1>1, <1>2, <1>3, ReachLayoutsInClosed DEF MustKeep
  <1>5. phase \in AfterExtension => tracked \subseteq Kept
    BY DEF Inductive, PhaseOK
  <1>6. phase \in AfterExtension => MayKeep \subseteq Kept
    BY <1>1, <1>2, <1>4, <1>5, ReachLayoutsInClosed DEF MayKeep
  <1> QED
    BY <1>4, <1>6

\* Conversely, all that was moved can be reached.
LEMMA KeptIsReachable ==
    ASSUME TypeOK, Inductive, Justified, Collecting
    PROVE  Kept \subseteq MayKeep
  <1> DEFINE first == RootSet \cup {o \in handles : refcnt[o] > 0} \cup In("immortal")
  <1>1. first \subseteq Existing /\ tracked \subseteq Existing /\ Kept \subseteq Existing
    BY DEF Inductive, ClosedHeap, Existing, In, Kept
  <1>2. MustKeep = ReachWithLayouts(first) /\ MayKeep = ReachWithLayouts(MustKeep \cup tracked)
    BY DEF MustKeep, MayKeep
  <1>3. first \subseteq MustKeep /\ MustKeep \subseteq Existing
    <2>1. ReachWithLayouts(first) \subseteq first \cup Existing
      BY DEF ReachWithLayouts
    <2> HIDE DEF first
    <2> QED
      BY <1>1, <1>2, <2>1, ReachLayoutsCloses
  <1>4. /\ MustKeep \cup tracked \subseteq MayKeep
        /\ \A p \in MayKeep : Points(p) \cap Existing \subseteq MayKeep
    <2>1. MustKeep \cup tracked \subseteq Existing
      BY <1>1, <1>3
    <2> HIDE DEF first
    <2> QED
      BY <1>2, <2>1, ReachLayoutsCloses
  <1>5. Sources = first \cup tracked
    BY DEF Sources
  <1>6. Sources \cap Kept \subseteq MayKeep \cap Kept
    BY <1>3, <1>4, <1>5
  <1>7. \A p \in MayKeep \cap Kept : Points(p) \cap Kept \subseteq MayKeep \cap Kept
    BY <1>1, <1>4
  <1> QED
    BY <1>6, <1>7 DEF Justified

-----------------------------------------------------------------------------
(***************************************************************************)
(* The theorems.                                                           *)
(***************************************************************************)

\* The parts that are inductive together.
Whole == /\ TypeOK /\ HandlesOK /\ CollectorInvariant /\ CallbackParts

LEMMA WholeInvariant == Spec => []Whole
  <1>1. Init => Whole
    <2>1. Init => MovedOK /\ LayoutsOK /\ HeldCleared /\ Justified
      BY DEF Init, MovedOK, LayoutsOK, HeldCleared, Justified, Collecting, AfterHandles,
         AfterRoots, AfterLayouts, In, Held
    <2>2. Init => CallbackParts
      BY DEF Init, CallbackParts, Distinct, Elems
    <2>3. Init => HandlesOK
      BY DEF Init, HandlesOK
    <2>4. Init => TypeOK /\ Inductive
      BY InitIInv DEF IInv
    <2> QED
      BY <2>1, <2>2, <2>3, <2>4 DEF Whole, CollectorInvariant
  <1>2. Whole /\ [Next]_vars => Whole'
    <2> SUFFICES ASSUME Whole, [Next]_vars PROVE Whole'
      OBVIOUS
    <2>1. TypeOK' /\ Inductive'
      BY NextIInv DEF Whole, CollectorInvariant, IInv
    <2>2. HandlesOK'
      BY NextHandles DEF Whole
    <2>3. LayoutsOK' /\ MovedOK' /\ Justified'
      BY NextLayouts, NextMoved, NextJustified DEF Whole, CollectorInvariant
    <2>4. HeldCleared' /\ CallbackParts'
      BY NextCallbacks DEF Whole, CollectorInvariant
    <2> QED
      BY <2>1, <2>2, <2>3, <2>4 DEF Whole, CollectorInvariant
  <1> QED
    BY <1>1, <1>2, PTL DEF Spec

\* At every step of every collection, what it has moved is what it can justify,
\* the layouts of what it moved are there, and no pointer is lost.
THEOREM CollectorCorrect == Spec => []CollectorInvariant
  <1>1. Whole => CollectorInvariant
    BY DEF Whole
  <1> QED
    BY <1>1, WholeInvariant, PTL

\* Runtime::layoutOf() finds a layout for every mortal object: processLayouts()
\* zeroes no entry that is needed.
THEOREM LayoutsKept == Spec => []LayoutKept
  <1>1. Whole => LayoutKept
    BY DEF Whole, CollectorInvariant, LayoutsOK, LayoutKept, AfterLayouts
  <1> QED
    BY <1>1, WholeInvariant, PTL

\* processCallbacks() finds only cleared weakrefs with callbacks in its queue,
\* each once and none that is running, however collections nest.
THEOREM CallbacksQueuedOnce == Spec => []CallbackQueueOK
  <1>1. Whole => CallbackQueueOK
    BY CallbackQueueParts DEF Whole
  <1> QED
    BY <1>1, WholeInvariant, PTL

\* As long as the objects that are queued or being finalized are mortal, the queue
\* of extension objects has each of them once, and none that was given up.
THEOREM FinalizedOnce == Spec /\ []QueuedAreMortal => []FinalizerQueueOK
  <1>1. Init => FinalizerParts
    BY DEF Init, FinalizerParts, Distinct, Elems
  <1>2. Whole /\ QueuedAreMortal /\ FinalizerParts /\ [Next]_vars => FinalizerParts'
    BY NextFinalizers DEF Whole, CollectorInvariant
  <1>3. FinalizerParts => FinalizerQueueOK
    BY FinalizerQueueParts
  <1> QED
    BY <1>1, <1>2, <1>3, WholeInvariant, PTL DEF Spec

\* processDelayedReferences() clears no weakref whose mortal referent the
\* collection keeps.
THEOREM ClearedOnlyIfDead == Spec => WeakRefClearedOnlyIfDead
  <1>1. ASSUME Whole, [Next]_vars, NEW w \in WeakRef, phase = "delayed",
               referent[w] # None, referent'[w] = None, space[referent[w]] # "immortal"
        PROVE  referent[w] \notin MayKeep
    <2>1. referent[w] \notin fwd
      <3>1. ProcessDelayedReference
        BY <1>1 DEF Next, Mutate, Running, CollectGarbageInto, DrainQueues, UserCodeReturns,
           DequeueCallback, CallbacksProcessed, FinalizeExtensionObject, CollectGarbageReturns,
           CallbackReturns, DeallocReleases, DeallocResurrects, InLoop, Aborted, Collect,
           ScanImmortalSpace, ProcessGrayImmortal, ProcessGrayTo, GrayPhases,
           ImmortalSpaceScanned, VisitRoots, VisitIncrementedApiHandles, GrayObjectsProcessed,
           VisitExtensionObjects, VisitNotIncrementedBorrowedApiHandles,
           DelayedReferencesProcessed, ProcessLayouts, SwapSpaces, vars, heapVars
      <3>2. referent \in [Obj -> Obj \cup {None}] /\ w \in Obj
        BY <1>1, ScavengerAssumption DEF Whole, TypeOK
      <3> QED
        BY <1>1, <3>1, <3>2 DEF ProcessDelayedReference, IsWhite
    <2>2. MayKeep \subseteq Kept /\ In("to") \subseteq fwd
      <3>1. /\ Collecting /\ gray = {} /\ phase \in AfterHandles /\ phase \in AfterExtension
            /\ TypeOK /\ Inductive /\ MovedOK /\ LayoutsOK
        BY <1>1 DEF Whole, CollectorInvariant, Inductive, PhaseOK, Collecting, AfterHandles,
           AfterExtension, AfterRoots
      <3> QED
        BY <3>1, ReachableIsKept DEF MovedOK
    <2> QED
      BY <1>1, <2>1, <2>2 DEF Kept, In
  <1>2. Whole /\ [Next]_vars =>
          [\A w \in WeakRef : /\ phase = "delayed"
                              /\ referent[w] # None /\ referent'[w] = None
                              /\ space[referent[w]] # "immortal"
                              => referent[w] \notin MayKeep]_vars
    BY <1>1
  <1> QED
    BY <1>2, WholeInvariant, PTL DEF Spec, WeakRefClearedOnlyIfDead

\* A handle that a collection disposes of is that of an object which nothing
\* keeps, or of an immortal one: a borrowed PyObject* outlives its borrower.
THEOREM BorrowedHandlesKept == Spec => BorrowedHandleKept
  <1>1. ASSUME Whole, [Next]_vars, NEW o \in handles \ handles', phase = "borrowed",
               space[o] # "immortal"
        PROVE  o \notin MayKeep
    <2>1. o \notin fwd
      <3>1. VisitNotIncrementedBorrowedApiHandles
        BY <1>1 DEF Next, Mutate, Running, CollectGarbageInto, DrainQueues, UserCodeReturns,
           DequeueCallback, CallbacksProcessed, FinalizeExtensionObject, CollectGarbageReturns,
           CallbackReturns, DeallocReleases, DeallocResurrects, InLoop, Aborted, Collect,
           ScanImmortalSpace, ProcessGrayImmortal, ProcessGrayTo, GrayPhases,
           ImmortalSpaceScanned, VisitRoots, VisitIncrementedApiHandles, GrayObjectsProcessed,
           VisitExtensionObjects, ProcessDelayedReference,
           DelayedReferencesProcessed, ProcessLayouts, SwapSpaces, vars, capiVars
      <3> QED
        BY <1>1, <3>1 DEF VisitNotIncrementedBorrowedApiHandles, IsWhite
    <2>2. MayKeep \subseteq Kept /\ In("to") \subseteq fwd
      <3>1. /\ Collecting /\ gray = {} /\ phase \in AfterHandles /\ phase \in AfterExtension
            /\ TypeOK /\ Inductive /\ MovedOK /\ LayoutsOK
        BY <1>1 DEF Whole, CollectorInvariant, Inductive, PhaseOK, Collecting, AfterHandles,
           AfterExtension, AfterRoots
      <3> QED
        BY <3>1, ReachableIsKept DEF MovedOK
    <2> QED
      BY <1>1, <2>1, <2>2 DEF Kept, In
  <1>2. Whole /\ [Next]_vars =>
          [\A o \in handles \ handles' :
             phase = "borrowed" /\ space[o] # "immortal" => o \notin MayKeep]_vars
    BY <1>1
  <1> QED
    BY <1>2, WholeInvariant, PTL DEF Spec, BorrowedHandleKept

\* visitExtensionObjects() enqueues a mortal extension object only when extension
\* code holds no reference to it and the program cannot reach its proxy.
THEOREM FinalizedOnlyIfUnreferenced == Spec => OnlyUnreferencedFinalized
  <1>1. ASSUME Whole, [Next]_vars, NEW x \in Elems(finalizable') \ Elems(finalizable),
               space[x] # "immortal"
        PROVE  refcnt[x] <= 1 /\ x \notin MustKeep
    <2>1. CASE VisitExtensionObjects
      <3> DEFINE dead == {y \in tracked : refcnt[y] <= 1 /\ IsWhite(y)}
      <3>1. PICK q \in Orders(dead) : finalizable' = finalizable \o q
        BY <2>1 DEF VisitExtensionObjects
      <3>2. dead \in SUBSET Obj /\ finalizable \in Seq(Obj)
        BY <1>1, ScavengerAssumption DEF Whole, TypeOK
      <3>3. q \in Seq(Obj) /\ Elems(q) \subseteq dead
        BY <3>2, OrdersAreSequences
      <3>4. x \in dead
        <4> HIDE DEF dead
        <4> QED
          BY <1>1, <3>1, <3>2, <3>3, ElemsConcat
      <3>5. MustKeep \subseteq Kept /\ In("to") \subseteq fwd
        <4>1. /\ Collecting /\ gray = {} /\ phase \in AfterHandles
              /\ TypeOK /\ Inductive /\ MovedOK /\ LayoutsOK
          BY <1>1, <2>1 DEF VisitExtensionObjects, Whole, CollectorInvariant, Inductive,
             PhaseOK, Collecting, AfterHandles, AfterRoots
        <4> QED
          BY <4>1, ReachableIsKept DEF MovedOK
      <3> QED
        BY <1>1, <3>4, <3>5 DEF IsWhite, Kept, In
    <2>2. CASE FinalizeExtensionObject
      <3>1. finalizable \in Seq(Proxy) /\ finalizable # <<>> /\ finalizable' = Tail(finalizable)
        BY <1>1, <2>2 DEF FinalizeExtensionObject, Whole, TypeOK
      <3> QED
        BY <1>1, <3>1, ElemsTail
    <2>3. CASE UNCHANGED finalizable
      BY <1>1, <2>3
    <2>4. Collect => VisitExtensionObjects \/ UNCHANGED finalizable
      BY DEF Collect, ScanImmortalSpace, ProcessGrayImmortal, ProcessGrayTo,
         ScanObject, ImmortalSpaceScanned, VisitRoots, VisitIncrementedApiHandles,
         GrayObjectsProcessed, VisitNotIncrementedBorrowedApiHandles, ProcessDelayedReference,
         DelayedReferencesProcessed, ProcessLayouts, SwapSpaces, queueVars
    <2>5. Mutate => UNCHANGED finalizable
      BY <1>1, MutateFrame DEF Whole, CollectorInvariant, queueVars
    <2>6. DrainQueues \/ UserCodeReturns => FinalizeExtensionObject \/ UNCHANGED finalizable
      BY DEF DrainQueues, UserCodeReturns, DequeueCallback, CallbacksProcessed,
         CollectGarbageReturns, CallbackReturns, DeallocReleases, DeallocResurrects
    <2>7. (\E d \in {"to", "immortal"} : CollectGarbageInto(d)) \/ UNCHANGED vars
            => UNCHANGED finalizable
      BY DEF CollectGarbageInto, vars, queueVars
    <2> QED
      BY <1>1, <2>1, <2>2, <2>3, <2>4, <2>5, <2>6, <2>7 DEF Next, Aborted
  <1>2. Whole /\ [Next]_vars =>
          [\A x \in Elems(finalizable') \ Elems(finalizable) :
             space[x] # "immortal" => refcnt[x] <= 1 /\ x \notin MustKeep]_vars
    BY <1>1
  <1> QED
    BY <1>2, WholeInvariant, PTL DEF Spec, OnlyUnreferencedFinalized

\* A collection keeps nothing but what it must, and what an extension object keeps.
THEOREM GarbageIsReclaimed == Spec => GarbageReclaimed
  <1>1. Whole => (phase = "swap" => Kept \subseteq MayKeep)
    BY KeptIsReachable DEF Whole, CollectorInvariant, Collecting
  <1>2. Whole /\ [Next]_vars =>
          [phase = "swap" /\ phase' = "run" => Kept \subseteq MayKeep]_vars
    BY <1>1
  <1> QED
    BY <1>2, WholeInvariant, PTL DEF Spec, GarbageReclaimed

\* The objects of C lead to no others.
Closed(C) == \A o \in C : refs[o] \subseteq C

\* Code objects become immortal, then what they lead to: without
\* gc.immortalize_heap() nothing else does.
OnlyImmortal(C) == In("immortal") \subseteq C /\ dest = "to"

LEMMA NextOnlyImmortal ==
    ASSUME ~CanImmortalize, NEW C \in SUBSET Obj, Code \subseteq C,
           \A o \in C : LayoutOf[o] \in C \cup {None},
           TypeOK, Closed(C), OnlyImmortal(C), [Next]_vars
    PROVE  OnlyImmortal(C)'
  <1> USE DEF heapVars, gcVars
  <1>1. ASSUME NEW h, NEW S, Scavenge(h, S, "to") PROVE In("immortal")' \subseteq C
    BY <1>1 DEF Scavenge, OnlyImmortal, In
  <1>2. ASSUME NEW h, NEW o \in C, Scavenge(h, refs[o], "immortal") PROVE In("immortal")' \subseteq C
    <2>1. refs[o] \subseteq C
      BY <1>2 DEF Closed
    <2>2. Moved(refs[o]) \subseteq C
      BY <2>1, ScavengerAssumption DEF Moved, In
    <2> QED
      BY <2>2, <1>2 DEF Scavenge, OnlyImmortal, In
  <1>3. UNCHANGED space => In("immortal")' \subseteq C
    BY DEF OnlyImmortal, In
  <1>4. ASSUME NEW o \in Obj, ScanImmortalSpace(o) \/ ProcessGrayTo(o) PROVE OnlyImmortal(C)'
    BY <1>1, <1>4 DEF ScanImmortalSpace, ProcessGrayTo, ScanObject, OnlyImmortal
  <1>5. ASSUME NEW o \in Obj, ProcessGrayImmortal(o) PROVE OnlyImmortal(C)'
    <2>1. o \in C
      BY <1>5 DEF ProcessGrayImmortal, OnlyImmortal
    <2> QED
      BY <1>2, <1>5, <2>1 DEF ProcessGrayImmortal, ScanObject, OnlyImmortal
  <1>6. CASE VisitRoots
    BY <1>1, <1>6 DEF VisitRoots, OnlyImmortal
  <1>7. CASE VisitIncrementedApiHandles
    BY <1>1, <1>7 DEF VisitIncrementedApiHandles, OnlyImmortal
  <1>8. CASE VisitExtensionObjects
    BY <1>1, <1>8 DEF VisitExtensionObjects, OnlyImmortal
  <1>9. CASE VisitNotIncrementedBorrowedApiHandles
    <2>1. dest' = "to" /\ \E keys : space' = [o \in Obj |->
                                     IF o \notin Moved(keys) THEN space[o]
                                     ELSE IF o \in Code THEN "immortal" ELSE "to"]
      BY <1>9 DEF VisitNotIncrementedBorrowedApiHandles, OnlyImmortal
    <2> QED
      BY <2>1 DEF OnlyImmortal, In
  <1>10. CASE SwapSpaces
    <2>1. \A o \in Obj : space'[o] = "immortal" => space[o] = "immortal"
      BY <1>10 DEF SwapSpaces
    <2>2. dest' = "to"
      BY <1>10 DEF SwapSpaces
    <2> QED
      BY <2>1, <2>2 DEF OnlyImmortal, In
  <1>11. CASE \/ ImmortalSpaceScanned \/ GrayObjectsProcessed \/ ProcessDelayedReference
              \/ DelayedReferencesProcessed \/ ProcessLayouts
    BY <1>3, <1>11 DEF ImmortalSpaceScanned, GrayObjectsProcessed, ProcessDelayedReference,
       DelayedReferencesProcessed, ProcessLayouts, OnlyImmortal
  <1>12. CASE Mutate
    <2>1. ASSUME NEW o, NEW S, Allocate(o, S) PROVE In("immortal")' \subseteq C
      BY <2>1 DEF Allocate, OnlyImmortal, In, TypeOK
    <2>2. UNCHANGED dest /\ (UNCHANGED space \/ \E o, S : Allocate(o, S))
      BY <1>12 DEF Mutate, NewObject, NewExtensionObject, SetFields, NewWeakRef, AddRoot,
         DropRoot, NewReference, BorrowedReference, Decref, StealReference, SetCache
    <2> QED
      BY <1>3, <2>1, <2>2 DEF OnlyImmortal
  <1>13. CASE DrainQueues \/ UserCodeReturns
    BY <1>3, <1>13 DEF DrainQueues, UserCodeReturns, DequeueCallback, CallbacksProcessed,
       FinalizeExtensionObject, CollectGarbageReturns, CallbackReturns, DeallocReleases,
       DeallocResurrects, OnlyImmortal
  <1>14. CASE \E d \in {"to", "immortal"} : CollectGarbageInto(d)
    BY <1>3, <1>14 DEF CollectGarbageInto, OnlyImmortal
  <1>15. CASE UNCHANGED vars
    BY <1>3, <1>15 DEF vars, OnlyImmortal
  <1> QED
    BY <1>4, <1>5, <1>6, <1>7, <1>8, <1>9, <1>10, <1>11, <1>12, <1>13, <1>14, <1>15
    DEF Next, Aborted, Collect

\* Unless gc.immortalize_heap() is called, and as long as no extension object is
\* among the constants of code objects and what those lead to,
\* visitExtensionObjects() and processFinalizers() take each extension object once,
\* and while it is tracked: collections make code objects immortal, but no
\* extension object.
THEOREM FinalizedOnceUnlessConstant ==
    ASSUME ~CanImmortalize, NEW Constants \in SUBSET (Obj \ Proxy), Code \subseteq Constants,
           \A o \in Constants : LayoutOf[o] \in Constants \cup {None}
    PROVE  Spec /\ []Closed(Constants) => []FinalizerQueueOK
  <1> DEFINE Kind == OnlyImmortal(Constants)
             Lead == Closed(Constants)
  <1>1. Init => Kind
    BY DEF Init, OnlyImmortal, In
  <1>2. TypeOK /\ Lead /\ Kind /\ [Next]_vars => Kind'
    BY NextOnlyImmortal
  <1>3. Kind => QueuedAreMortal
    BY ScavengerAssumption DEF OnlyImmortal, QueuedAreMortal, In
  <1> HIDE DEF Kind, Lead
  <1>4. Spec /\ []Lead => []FinalizerQueueOK
    BY <1>1, <1>2, <1>3, TypeCorrect, FinalizedOnce, PTL DEF Spec
  <1> QED
    BY <1>4 DEF Lead
=============================================================================
