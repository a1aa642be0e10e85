----------------------------- MODULE Scavenger -----------------------------
(***************************************************************************)
(* The moving collector of the managed heap (runtime/scavenger.cpp), the   *)
(* roots it starts from, the C-API handles and extension objects it        *)
(* consults (ext/Internal/api-handle.cpp, extension-object.cpp) and the    *)
(* two queues the runtime drains after a collection                        *)
(* (runtime.cpp: processCallbacks, processFinalizers).                     *)
(*                                                                         *)
(* An object is an identity.  Moving it is changing its space from "from"  *)
(* to "to" or "immortal"; a pointer to it that still holds the from-space  *)
(* address is either a field of an object that has not been scanned yet    *)
(* (a gray or a white object) or is recorded in stale.                     *)
(***************************************************************************)
EXTENDS Naturals, Sequences, FiniteSets

CONSTANTS
    Obj,          \* identities of heap objects
    Code,         \* the code objects among them
    WeakRef,      \* the weakrefs (and weak links) among them
    Proxy,        \* the native proxies: managed halves of extension objects
    Layouts,      \* the layouts of user-defined types among them
    LayoutOf,     \* the layout of each object, None for a builtin layout
    Wrapped,      \* the objects extension code asks handles for
    None,
    CanImmortalize, \* whether the program calls gc.immortalize_heap()
    Together,     \* bound: sets of objects of which one holds all that exist
    MaxRefs,      \* bound: strong references stored in each object
    MaxRefcnt,    \* bound: reference count of one handle
    MaxDepth      \* bound: collections nested in callbacks and finalizers

ASSUME ScavengerAssumption ==
    /\ IsFiniteSet(Obj)
    /\ Code \subseteq Obj /\ WeakRef \subseteq Obj /\ Proxy \subseteq Obj
    /\ Layouts \subseteq Obj
    /\ Code \cap WeakRef = {} /\ Code \cap Proxy = {} /\ WeakRef \cap Proxy = {}
    /\ Layouts \cap (Code \cup WeakRef \cup Proxy) = {}
    /\ None \notin Obj
    /\ LayoutOf \in [Obj -> Layouts \cup {None}]
    /\ \A o \in Code \cup WeakRef \cup Layouts : LayoutOf[o] = None
    /\ Wrapped \subseteq Obj \ Proxy
    /\ CanImmortalize \in BOOLEAN
    /\ Together \subseteq SUBSET Obj
    /\ MaxRefs \in [Obj -> Nat] /\ MaxRefcnt \in Nat /\ MaxDepth \in Nat

VARIABLES
    space,        \* where each object lives; "none" is not allocated
    refs,         \* strong references held in the fields of each object
    referent,     \* the weak reference of each weakref, or None
    hasCallback,  \* the weakrefs whose callback field is not None
    roots,        \* objects referenced from runtime and thread roots
    layouts,      \* the non-zero entries of Runtime::layouts_
    handles,      \* objects that have an entry in CAPIState::handles
    caches,       \* objects that have an entry in CAPIState::caches
    refcnt,       \* ob_refcnt without kBorrowedBit, handle or native object
    borrowed,     \* objects whose ob_refcnt has kBorrowedBit
    tracked,      \* CAPIState::extension_objects, the native objects not yet
                  \* deallocated, each with the proxy its reference_ points to
    callbacks,    \* Runtime::callbacks_
    finalizable,  \* Runtime::finalizable_references_
    frames,       \* activations of collectGarbageInto after the collection
    phase,        \* the statement of Scavenger::collect being executed
    dest,         \* the space of SaveLocation copy_into
    scanning,     \* the space processGrayObjectsIn is scanning
    fwd,          \* objects whose from-space copy forwards
    gray,         \* objects between a gray line and the fill mark
    stale,        \* pointers outside the heap to from-space copies
    delayed,      \* Scavenger::delayed_references_
    delayedCallbacks, \* Scavenger::delayed_callbacks_
    runCallback   \* run_callback of collectGarbageInto

heapVars == <<space, refs, referent, hasCallback, roots, layouts>>
capiVars == <<handles, caches, refcnt, borrowed, tracked>>
queueVars == <<callbacks, finalizable, frames>>
gcVars == <<phase, dest, scanning, fwd, gray, stale, delayed,
            delayedCallbacks, runCallback>>
vars == <<heapVars, capiVars, queueVars, gcVars>>

Holders == {"root", "layout", "handle", "cache", "ext"}

Phases == {"run", "immortal", "roots", "incremented", "gray1", "extension",
           "gray2", "borrowed", "gray3", "delayed", "layouts", "gray4",
           "swap", "aborted"}

GrayPhases == {"gray1", "gray2", "gray3", "gray4"}

\* The statement of Scavenger::collect that follows a processGrayObjects().
AfterGray(p) == CASE p = "gray1" -> "extension"
                  [] p = "gray2" -> "borrowed"
                  [] p = "gray3" -> "delayed"
                  [] OTHER       -> "swap"

Elems(q) == {q[i] : i \in DOMAIN q}

\* The orders in which the members of S can be listed.
Orders(S) == {q \in [1..Cardinality(S) -> S] :
                \A i, j \in 1..Cardinality(S) : q[i] = q[j] => i = j}

In(s) == {o \in Obj : space[o] = s}
Existing == {o \in Obj : space[o] # "none"}

\* Objects reachable from S over strong references.
Reach(S) == {o \in Obj \cap (S \cup Existing) : \A T \in SUBSET (S \cup Existing) :
               (S \subseteq T /\ \A p \in T : refs[p] \subseteq T) => o \in T}

\* The weakref or proxy that the activation f of processCallbacks() or
\* processFinalizers() holds in a HandleScope while user code runs.
Held == {frames[i].cur : i \in DOMAIN frames} \ {None}

\* Everything visitRootsWithoutApiHandles() visits except the layouts.
RootSet == roots \cup Elems(callbacks) \cup Elems(finalizable) \cup Held

\* What running Python or extension code can get hold of.
Accessible == Reach(roots \cup Held \cup {o \in handles : refcnt[o] > 0}
                          \cup {x \in tracked : refcnt[x] > 1})

Init ==
    /\ space = [o \in Obj |-> "none"]
    /\ refs = [o \in Obj |-> {}]
    /\ referent = [o \in Obj |-> None]
    /\ hasCallback = {} /\ roots = {} /\ layouts = {}
    /\ handles = {} /\ caches = {} /\ borrowed = {} /\ tracked = {}
    /\ refcnt = [o \in Obj |-> 0]
    /\ callbacks = <<>> /\ finalizable = <<>> /\ frames = <<>>
    /\ phase = "run" /\ dest = "to" /\ scanning = "immortal"
    /\ fwd = {} /\ gray = {} /\ stale = [h \in Holders |-> {}]
    /\ delayed = <<>> /\ delayedCallbacks = <<>> /\ runCallback = FALSE

-----------------------------------------------------------------------------
(***************************************************************************)
(* The mutator: Python code, and extension code calling the C-API.  It     *)
(* runs when no collection is in progress and no queue is between two      *)
(* items.                                                                  *)
(***************************************************************************)

Running == /\ phase = "run"
           /\ frames # <<>> => frames[Len(frames)].cur # None

\* The bound Together: with o, what exists is still part of one of its sets.
MayExist(o) == \E objects \in Together :
                  \A p \in Obj : space[p] # "none" \/ p = o => p \in objects

\* Its reference fields and the root that the allocating code keeps it in.
Allocate(o, S) ==
    /\ space[o] = "none" /\ MayExist(o)
    /\ S \subseteq Accessible /\ Cardinality(S) <= MaxRefs[o]
    /\ LayoutOf[o] # None => LayoutOf[o] \in layouts \cap Accessible
    /\ space' = [space EXCEPT ![o] = "from"]
    /\ refs' = [refs EXCEPT ![o] = S]
    /\ roots' = roots \cup {o}

\* Any object but a weakref or an extension object; a layout also gets its
\* entry in the layouts tuple.
NewObject(o, S) ==
    /\ Running
    /\ o \notin WeakRef \cup Proxy
    /\ Allocate(o, S)
    /\ layouts' = IF o \in Layouts THEN layouts \cup {o} ELSE layouts
    /\ UNCHANGED <<referent, hasCallback, capiVars, queueVars, gcVars>>

\* weakref.ref(r) and weakref.ref(r, callback); S is what the callback holds.
NewWeakRef(w, r, withCallback, S) ==
    /\ Running
    /\ w \in WeakRef /\ r \in Accessible
    /\ S # {} => withCallback
    /\ Allocate(w, S)
    /\ referent' = [referent EXCEPT ![w] = r]
    /\ hasCallback' = IF withCallback THEN hasCallback \cup {w} ELSE hasCallback
    /\ UNCHANGED <<layouts, capiVars, queueVars, gcVars>>

\* initializeExtensionObject(): one reference is the caller's, one the
\* runtime's.
NewExtensionObject(x, S) ==
    /\ Running
    /\ x \in Proxy /\ MaxRefcnt >= 2
    /\ Allocate(x, S)
    /\ refcnt' = [refcnt EXCEPT ![x] = 2]
    /\ borrowed' = borrowed \ {x}
    /\ tracked' = tracked \cup {x}
    /\ UNCHANGED <<referent, hasCallback, layouts, handles, caches, queueVars,
                   gcVars>>

SetFields(o, S) ==
    /\ Running
    /\ o \in Accessible \ WeakRef
    /\ S \subseteq Accessible /\ Cardinality(S) <= MaxRefs[o]
    /\ refs' = [refs EXCEPT ![o] = S]
    /\ UNCHANGED <<space, referent, hasCallback, roots, layouts, capiVars,
                   queueVars, gcVars>>

\* A global or a local variable is bound to an object that can be reached, or
\* that calling a reachable weakref returns.
AddRoot(o) ==
    /\ Running
    /\ o \in Accessible \cup {referent[w] : w \in Accessible \cap WeakRef}
    /\ o # None
    /\ roots' = roots \cup {o}
    /\ UNCHANGED <<space, refs, referent, hasCallback, layouts, capiVars,
                   queueVars, gcVars>>

DropRoot(o) ==
    /\ Running
    /\ roots' = roots \ {o}
    /\ o \in roots
    /\ UNCHANGED <<space, refs, referent, hasCallback, layouts, capiVars,
                   queueVars, gcVars>>

\* ApiHandle::newReference(): the handle of a managed object is created on
\* demand, a native object is its own handle.  A tp_dealloc takes references to
\* the object it is called on only as in DeallocResurrects below.
NewReference(o) ==
    /\ Running
    /\ o \in Accessible
    /\ \/ /\ o \in Wrapped
          /\ handles' = handles \cup {o}
          /\ borrowed' = IF o \in handles THEN borrowed ELSE borrowed \ {o}
          /\ refcnt' = [refcnt EXCEPT ![o] = IF o \in handles THEN @ + 1 ELSE 1]
       \/ /\ o \in tracked \ Held
          /\ refcnt' = [refcnt EXCEPT ![o] = @ + 1]
          /\ UNCHANGED <<handles, borrowed>>
    /\ refcnt'[o] <= MaxRefcnt
    /\ UNCHANGED <<heapVars, caches, tracked, queueVars, gcVars>>

\* ApiHandle::borrowedReference().
BorrowedReference(o) ==
    /\ Running
    /\ o \in Accessible \cap (Wrapped \cup tracked)
    /\ borrowed' = borrowed \cup {o}
    /\ handles' = IF o \in Wrapped THEN handles \cup {o} ELSE handles
    /\ refcnt' = [refcnt EXCEPT ![o] =
                    IF o \in Wrapped /\ o \notin handles THEN 0 ELSE @]
    /\ UNCHANGED <<heapVars, caches, tracked, queueVars, gcVars>>

\* Mutants of Decref: a borrowed reference is released as if it were owned;
\* dispose() leaves the cache behind.
DecrefOfBorrowed(o) ==
    /\ Running
    /\ o \in handles
    /\ refcnt' = [refcnt EXCEPT ![o] = @ - 1]
    /\ UNCHANGED <<heapVars, handles, caches, borrowed, tracked, queueVars, gcVars>>

DecrefKeepsCache(o) ==
    /\ Running
    /\ o \in handles /\ refcnt[o] > 0
    /\ refcnt' = [refcnt EXCEPT ![o] = @ - 1]
    /\ handles' = IF refcnt[o] = 1 /\ o \notin borrowed THEN handles \ {o}
                  ELSE handles
    /\ UNCHANGED <<heapVars, caches, borrowed, tracked, queueVars, gcVars>>

\* ApiHandle::decref() by code that owns a reference; dispose() when the count
\* reaches zero and the handle was never borrowed.  The last reference to a
\* native object is the runtime's.
Decref(o) ==
    /\ Running
    /\ \/ o \in handles /\ refcnt[o] > 0
       \/ o \in tracked /\ refcnt[o] > 1
    /\ refcnt' = [refcnt EXCEPT ![o] = @ - 1]
    /\ LET disposed == o \in handles /\ refcnt[o] = 1 /\ o \notin borrowed
       IN  /\ handles' = IF disposed THEN handles \ {o} ELSE handles
           /\ caches' = IF disposed THEN caches \ {o} ELSE caches
    /\ UNCHANGED <<heapVars, borrowed, tracked, queueVars, gcVars>>

\* ApiHandle::stealReference(): the managed side keeps the object.
StealReference(o) ==
    /\ Running
    /\ \/ o \in handles /\ refcnt[o] > 0
       \/ o \in tracked /\ refcnt[o] > 1
    /\ borrowed' = borrowed \cup {o}
    /\ refcnt' = [refcnt EXCEPT ![o] = @ - 1]
    /\ roots' = roots \cup {o}
    /\ UNCHANGED <<space, refs, referent, hasCallback, layouts, handles, caches,
                   tracked, queueVars, gcVars>>

\* ApiHandle::setCache(), called with a handle the caller may use.
SetCache(o) ==
    /\ Running
    /\ o \in handles \cap Accessible
    /\ caches' = caches \cup {o}
    /\ UNCHANGED <<heapVars, handles, refcnt, borrowed, tracked,
                   queueVars, gcVars>>

-----------------------------------------------------------------------------
(***************************************************************************)
(* Scavenger::collect().                                                   *)
(***************************************************************************)

\* Called from gc.collect(), gc.immortalize_heap() and Heap::allocateRetry().
CollectGarbageInto(d) ==
    /\ Running
    /\ Len(frames) < MaxDepth
    /\ d = "to" \/ (d = "immortal" /\ CanImmortalize)
    /\ runCallback' = (callbacks = <<>>)
    /\ phase' = "immortal"
    /\ dest' = d
    /\ scanning' = "immortal"
    /\ fwd' = {}
    /\ gray' = In("immortal")
    /\ delayed' = <<>> /\ delayedCallbacks' = <<>>
    /\ UNCHANGED <<heapVars, capiVars, queueVars, stale>>

\* Mutant of Moved: transport() does not scavenge the layout.
MovedWithoutLayouts(S) == S \cap In("from")

\* What scavengePointer() on each member of S transports: the members that are
\* in from-space and, from transport(), their layouts.
Moved(S) == LET M == S \cap In("from")
            IN  M \cup ({LayoutOf[o] : o \in M} \cap In("from"))

\* The objects the out-of-heap holder h has pointers to.
HeldBy(h) == CASE h = "root"   -> RootSet
               [] h = "layout" -> layouts
               [] h = "handle" -> handles
               [] h = "cache"  -> caches
               [] h = "ext"    -> tracked

\* scavengePointer() on the pointers that h (a holder, or "field" for an object
\* being scanned) has to the objects in S.  Code objects are transported to the
\* immortal space, the others to loc.  The pointers that other holders have to
\* a moved object go stale, except the entry of the layouts tuple, which
\* transport() updates itself.
Scavenge(h, S, loc) ==
    LET M == Moved(S)
        byLayout == {LayoutOf[o] : o \in S \cap In("from")}
    IN  /\ space' = [o \in Obj |-> IF o \notin M THEN space[o]
                                   ELSE IF o \in Code THEN "immortal" ELSE loc]
        /\ fwd' = fwd \cup M
        /\ stale' = [k \in Holders |->
                       (stale[k] \cup (M \cap HeldBy(k)))
                         \ (IF k = h THEN S
                            ELSE IF k = "layout" THEN byLayout ELSE {})]

\* isWhiteObject(): true of every object this collection has not moved.
IsWhite(o) == o \notin fwd

\* The body of the loop of processGrayObjectsIn(): a weakref whose referent is
\* white is delayed and its referent field skipped.
ScanObject(o, loc) ==
    LET delay == o \in WeakRef /\ referent[o] # None /\ IsWhite(referent[o])
    IN  /\ Scavenge("field", refs[o], loc)
        /\ gray' = (gray \ {o}) \cup Moved(refs[o])
        /\ delayed' = IF delay THEN Append(delayed, o) ELSE delayed
        /\ UNCHANGED <<refs, referent, hasCallback, roots, layouts, capiVars,
                       queueVars, dest, delayedCallbacks, runCallback>>

\* The first statement of collect(): the whole immortal space is scanned, and
\* the code objects found on the way, with the collection's save location.
ScanImmortalSpace(o) ==
    /\ phase = "immortal"
    /\ o \in gray \cap In("immortal")
    /\ ScanObject(o, dest)
    /\ UNCHANGED <<phase, scanning>>

ImmortalSpaceScanned ==
    /\ phase = "immortal"
    /\ gray \cap In("immortal") = {}
    /\ phase' = "roots"
    /\ UNCHANGED <<heapVars, capiVars, queueVars, dest, scanning, fwd, gray,
                   stale, delayed, delayedCallbacks, runCallback>>

\* Mutant of VisitRoots: the weakref or proxy that an outer activation of the
\* queues' loops is working on is not visited.
VisitRootsNotHeld ==
    /\ phase = "roots"
    /\ Scavenge("root", RootSet \ Held, dest)
    /\ gray' = gray \cup Moved(RootSet \ Held)
    /\ phase' = "incremented"
    /\ UNCHANGED <<refs, referent, hasCallback, roots, layouts, capiVars,
                   queueVars, dest, scanning, delayed, delayedCallbacks,
                   runCallback>>

\* visitRootsWithoutApiHandles().
VisitRoots ==
    /\ phase = "roots"
    /\ Scavenge("root", RootSet, dest)
    /\ gray' = gray \cup Moved(RootSet)
    /\ phase' = "incremented"
    /\ UNCHANGED <<refs, referent, hasCallback, roots, layouts, capiVars,
                   queueVars, dest, scanning, delayed, delayedCallbacks,
                   runCallback>>

\* Mutant of VisitIncrementedApiHandles: borrowed handles are roots too.
VisitAllApiHandles ==
    /\ phase = "incremented"
    /\ Scavenge("local", handles, dest)
    /\ gray' = gray \cup Moved(handles)
    /\ phase' = "gray1"
    /\ UNCHANGED <<refs, referent, hasCallback, roots, layouts, capiVars,
                   queueVars, dest, scanning, delayed, delayedCallbacks,
                   runCallback>>

\* visitIncrementedApiHandles(): the moved key is not written back, so that the
\* dictionary's pointers stay stale.
VisitIncrementedApiHandles ==
    /\ phase = "incremented"
    /\ LET S == {o \in handles : refcnt[o] > 0}
       IN  /\ Scavenge("local", S, dest)
           /\ gray' = gray \cup Moved(S)
    /\ phase' = "gray1"
    /\ UNCHANGED <<refs, referent, hasCallback, roots, layouts, capiVars,
                   queueVars, dest, scanning, delayed, delayedCallbacks,
                   runCallback>>

\* processGrayObjects(): all gray objects of the immortal space are scanned,
\* their references transported to the immortal space, before any of to-space;
\* then all of to-space before the immortal space is looked at again.
ProcessGrayImmortal(o) ==
    /\ phase \in GrayPhases
    /\ o \in gray \cap In("immortal")
    /\ scanning = "immortal" \/ gray \cap In("to") = {}
    /\ scanning' = "immortal"
    /\ ScanObject(o, "immortal")
    /\ UNCHANGED phase

ProcessGrayTo(o) ==
    /\ phase \in GrayPhases
    /\ o \in gray \cap In("to")
    /\ scanning = "to" \/ gray \cap In("immortal") = {}
    /\ scanning' = "to"
    /\ ScanObject(o, dest)
    /\ UNCHANGED phase

\* Mutant of GrayObjectsProcessed: the loop ends with to-space, although code
\* objects moved to the immortal space on the way.
GrayObjectsProcessedOnce ==
    /\ phase \in GrayPhases
    /\ gray \cap In("to") = {}
    /\ phase' = AfterGray(phase)
    /\ scanning' = "immortal"
    /\ UNCHANGED <<heapVars, capiVars, queueVars, dest, fwd, gray, stale,
                   delayed, delayedCallbacks, runCallback>>

GrayObjectsProcessed ==
    /\ phase \in GrayPhases
    /\ gray = {}
    /\ phase' = AfterGray(phase)
    /\ scanning' = "immortal"
    /\ UNCHANGED <<heapVars, capiVars, queueVars, dest, fwd, gray, stale,
                   delayed, delayedCallbacks, runCallback>>

\* Mutants of VisitExtensionObjects: the reference count is not looked at; an
\* object that is already queued is queued again.
QueueDead(dead) ==
    /\ phase = "extension"
    /\ \E q \in Orders(dead) : finalizable' = finalizable \o q
    /\ Scavenge("ext", tracked, dest)
    /\ gray' = gray \cup Moved(tracked)
    /\ phase' = "gray2"
    /\ UNCHANGED <<refs, referent, hasCallback, roots, layouts, capiVars,
                   callbacks, frames, dest, scanning, delayed,
                   delayedCallbacks, runCallback>>

VisitExtensionObjectsAnyCount == QueueDead({x \in tracked : IsWhite(x)})

VisitExtensionObjectsAnyColor == QueueDead({x \in tracked : refcnt[x] <= 1})

\* visitExtensionObjects(): every tracked proxy is visited; the ones that only
\* the runtime references are queued, in the order of the list, to be
\* finalized.
VisitExtensionObjects ==
    /\ phase = "extension"
    /\ LET dead == {x \in tracked : refcnt[x] <= 1 /\ IsWhite(x)}
       IN  \E q \in Orders(dead) : finalizable' = finalizable \o q
    /\ Scavenge("ext", tracked, dest)
    /\ gray' = gray \cup Moved(tracked)
    /\ phase' = "gray2"
    /\ UNCHANGED <<refs, referent, hasCallback, roots, layouts, capiVars,
                   callbacks, frames, dest, scanning, delayed,
                   delayedCallbacks, runCallback>>

\* Mutants of VisitNotIncrementedBorrowedApiHandles: every handle without
\* references is freed; the caches are visited but not rehashed.
RebuildDictionaries(freed, rehashed) ==
    /\ phase = "borrowed"
    /\ LET keys == (handles \cup caches) \ freed
       IN  /\ handles' = handles \ freed
           /\ caches' = caches \ freed
           /\ borrowed' = borrowed \ freed
           /\ space' = [o \in Obj |-> IF o \in Moved(keys) THEN dest ELSE space[o]]
           /\ fwd' = fwd \cup Moved(keys)
           /\ gray' = gray \cup Moved(keys)
           /\ stale' = [k \in Holders |->
                          IF k \in rehashed THEN {}
                          ELSE stale[k] \cup (Moved(keys) \cap HeldBy(k))]
    /\ phase' = "gray3"
    /\ UNCHANGED <<refs, referent, hasCallback, roots, layouts, refcnt,
                   tracked, queueVars, dest, scanning,
                   delayed, delayedCallbacks, runCallback>>

FreeAllBorrowedHandles ==
    RebuildDictionaries({o \in handles : refcnt[o] = 0}, {"handle", "cache"})

RebuildHandlesOnly ==
    RebuildDictionaries({o \in handles : refcnt[o] = 0 /\ IsWhite(o)}, {"handle"})

\* visitNotIncrementedBorrowedApiHandles(): handles without references to white
\* objects are freed with their cache, the dictionary is rebuilt with the other
\* ones, and the caches are visited and rehashed.
VisitNotIncrementedBorrowedApiHandles ==
    /\ phase = "borrowed"
    /\ LET freed == {o \in handles : refcnt[o] = 0 /\ IsWhite(o)}
           kept  == handles \ freed
           keys  == kept \cup (caches \ freed)
       IN  /\ handles' = kept
           /\ caches' = caches \ freed
           /\ borrowed' = borrowed \ freed
           /\ space' = [o \in Obj |->
                          IF o \notin Moved(keys) THEN space[o]
                          ELSE IF o \in Code THEN "immortal" ELSE dest]
           /\ fwd' = fwd \cup Moved(keys)
           /\ gray' = gray \cup Moved(keys)
           /\ stale' = [k \in Holders |->
                          IF k \in {"handle", "cache"} THEN {}
                          ELSE stale[k] \cup (Moved(keys) \cap HeldBy(k))]
    /\ phase' = "gray3"
    /\ UNCHANGED <<refs, referent, hasCallback, roots, layouts, refcnt,
                   tracked, queueVars, dest, scanning,
                   delayed, delayedCallbacks, runCallback>>

\* Mutants of ProcessDelayedReference: the referent's color is not looked at
\* again; one whose referent was moved after all stays in the list.
ProcessDelayedReferenceBlindly ==
    /\ phase = "delayed" /\ delayed # <<>>
    /\ referent' = [referent EXCEPT ![Head(delayed)] = None]
    /\ delayedCallbacks' = IF Head(delayed) \in hasCallback
                           THEN Append(delayedCallbacks, Head(delayed))
                           ELSE delayedCallbacks
    /\ delayed' = Tail(delayed)
    /\ UNCHANGED <<space, refs, hasCallback, roots, layouts, capiVars,
                   queueVars, phase, dest, scanning, fwd, gray, stale,
                   runCallback>>

ProcessDelayedReferenceAgain ==
    /\ phase = "delayed" /\ delayed # <<>>
    /\ LET w == Head(delayed)
           clear == referent[w] # None /\ IsWhite(referent[w])
       IN  /\ referent' = IF clear THEN [referent EXCEPT ![w] = None]
                          ELSE referent
           /\ delayedCallbacks' = IF clear /\ w \in hasCallback
                                  THEN Append(delayedCallbacks, w)
                                  ELSE delayedCallbacks
           /\ delayed' = IF clear THEN Tail(delayed) ELSE delayed
    /\ UNCHANGED <<space, refs, hasCallback, roots, layouts, capiVars,
                   queueVars, phase, dest, scanning, fwd, gray, stale,
                   runCallback>>

\* The loop of processDelayedReferences().
ProcessDelayedReference ==
    /\ phase = "delayed" /\ delayed # <<>>
    /\ LET w == Head(delayed)
           clear == referent[w] # None /\ IsWhite(referent[w])
       IN  /\ referent' = IF clear THEN [referent EXCEPT ![w] = None]
                          ELSE referent
           /\ delayedCallbacks' = IF clear /\ w \in hasCallback
                                  THEN Append(delayedCallbacks, w)
                                  ELSE delayedCallbacks
    /\ delayed' = Tail(delayed)
    /\ UNCHANGED <<space, refs, hasCallback, roots, layouts, capiVars,
                   queueVars, phase, dest, scanning, fwd, gray, stale,
                   runCallback>>

DelayedReferencesProcessed ==
    /\ phase = "delayed" /\ delayed = <<>>
    /\ phase' = "layouts"
    /\ UNCHANGED <<heapVars, capiVars, queueVars, dest, scanning, fwd, gray,
                   stale, delayed, delayedCallbacks, runCallback>>

\* Mutant of ProcessLayouts: entries of layouts that were not moved stay.
ProcessLayoutsKeepsAll ==
    /\ phase = "layouts"
    /\ stale' = [stale EXCEPT !["layout"] = {}]
    /\ phase' = "gray4"
    /\ UNCHANGED <<heapVars, capiVars, queueVars, dest, scanning, fwd, gray,
                   delayed, delayedCallbacks, runCallback>>

\* processLayouts(): the entries of layouts that were not moved are zeroed.
ProcessLayouts ==
    /\ phase = "layouts"
    /\ layouts' = layouts \ In("from")
    /\ stale' = [stale EXCEPT !["layout"] = {}]
    /\ phase' = "gray4"
    /\ UNCHANGED <<space, refs, referent, hasCallback, roots, capiVars,
                   queueVars, dest, scanning, fwd, gray, delayed,
                   delayedCallbacks, runCallback>>

\* Mutant of SwapSpaces: the weakrefs to call back are not spliced to the queue.
SwapSpacesWithoutSplice ==
    /\ phase = "swap"
    /\ space' = [o \in Obj |-> CASE space[o] = "from" -> "none"
                                 [] space[o] = "to" -> "from"
                                 [] OTHER -> space[o]]
    /\ refs' = [o \in Obj |-> IF space[o] = "from" THEN {} ELSE refs[o]]
    /\ referent' = [o \in Obj |-> IF space[o] = "from" THEN None ELSE referent[o]]
    /\ hasCallback' = hasCallback \ In("from")
    /\ frames' = Append(frames, [loop |-> "callbacks", cur |-> None])
    /\ phase' = "run"
    /\ fwd' = {} /\ delayedCallbacks' = <<>>
    /\ dest' = "to" /\ scanning' = "immortal" /\ runCallback' = FALSE
    /\ UNCHANGED <<roots, layouts, capiVars, callbacks, finalizable, gray, stale,
                   delayed>>

\* The end of scavenge() and of scavengeIntoImmortal(), which delete
\* from-space, and the statements of collectGarbageInto() up to the first
\* queue.
SwapSpaces ==
    /\ phase = "swap"
    /\ space' = [o \in Obj |-> CASE space[o] = "from" -> "none"
                                 [] space[o] = "to" -> "from"
                                 [] OTHER -> space[o]]
    /\ refs' = [o \in Obj |-> IF space[o] = "from" THEN {} ELSE refs[o]]
    /\ referent' = [o \in Obj |-> IF space[o] = "from" THEN None ELSE referent[o]]
    /\ hasCallback' = hasCallback \ In("from")
    /\ callbacks' = callbacks \o delayedCallbacks
    /\ frames' = Append(frames, [loop |-> IF runCallback THEN "callbacks"
                                          ELSE "finalizers",
                                 cur |-> None])
    /\ phase' = "run"
    /\ fwd' = {} /\ delayedCallbacks' = <<>>
    /\ dest' = "to" /\ scanning' = "immortal" /\ runCallback' = FALSE
    /\ UNCHANGED <<roots, layouts, capiVars, finalizable, gray, stale, delayed>>

-----------------------------------------------------------------------------
(***************************************************************************)
(* The rest of collectGarbageInto(): processCallbacks() when no outer      *)
(* activation is draining the queue, then processFinalizers().             *)
(***************************************************************************)

\* An activation of a loop, and the item it has taken from its queue.
Activation == [loop : {"callbacks"}, cur : WeakRef \cup {None}]
              \cup [loop : {"finalizers"}, cur : Proxy \cup {None}]

Top == frames[Len(frames)]
SetTop(loop, cur) ==
    frames' = [frames EXCEPT ![Len(frames)] = [loop |-> loop, cur |-> cur]]

InLoop(loop) == /\ phase = "run"
                /\ frames # <<>> /\ Top.loop = loop

\* Mutant of DequeueCallback: the queue keeps the weakref while it is run.
DequeueCallbackKeeps ==
    /\ InLoop("callbacks") /\ Top.cur = None
    /\ callbacks # <<>>
    /\ SetTop("callbacks", Head(callbacks))
    /\ UNCHANGED <<heapVars, capiVars, callbacks, finalizable, gcVars>>

DequeueCallback ==
    /\ InLoop("callbacks") /\ Top.cur = None
    /\ callbacks # <<>>
    /\ callbacks' = Tail(callbacks)
    /\ SetTop("callbacks", Head(callbacks))
    /\ UNCHANGED <<heapVars, capiVars, finalizable, gcVars>>

\* The callback returned or raised, which is ignored.
CallbackReturns ==
    /\ InLoop("callbacks") /\ Top.cur # None
    /\ hasCallback' = hasCallback \ {Top.cur}
    /\ SetTop("callbacks", None)
    /\ UNCHANGED <<space, refs, referent, roots, layouts, capiVars, callbacks,
                   finalizable, gcVars>>

CallbacksProcessed ==
    /\ InLoop("callbacks") /\ Top.cur = None
    /\ callbacks = <<>>
    /\ SetTop("finalizers", None)
    /\ UNCHANGED <<heapVars, capiVars, callbacks, finalizable, gcVars>>

\* finalizeExtensionObject() up to the call of tp_dealloc; the process aborts
\* unless the runtime holds the last reference.
FinalizeExtensionObject ==
    /\ InLoop("finalizers") /\ Top.cur = None
    /\ finalizable # <<>>
    /\ finalizable' = Tail(finalizable)
    /\ IF refcnt[Head(finalizable)] = 1
       THEN /\ SetTop("finalizers", Head(finalizable))
            /\ refcnt' = [refcnt EXCEPT ![Head(finalizable)] = 0]
            /\ borrowed' = borrowed \cup {Head(finalizable)}
            /\ UNCHANGED phase
       ELSE /\ phase' = "aborted"
            /\ UNCHANGED <<frames, refcnt, borrowed>>
    /\ UNCHANGED <<heapVars, handles, caches, tracked, callbacks, dest,
                   scanning, fwd, gray, stale, delayed, delayedCallbacks,
                   runCallback>>

\* tp_dealloc gives the memory up: it frees it, when PyObject_Free untracks the
\* object and clears the proxy's native pointer, or keeps it for a free list,
\* when finalizeExtensionObject() untracks the object.
DeallocReleases ==
    /\ InLoop("finalizers") /\ Top.cur # None
    /\ refcnt[Top.cur] = 0
    /\ tracked' = tracked \ {Top.cur} /\ borrowed' = borrowed \ {Top.cur}
    /\ SetTop("finalizers", None)
    /\ UNCHANGED <<heapVars, handles, caches, refcnt, callbacks, finalizable,
                   gcVars>>

\* tp_finalize, called by PyObject_CallFinalizerFromDealloc, takes a new
\* reference: the object stays tracked, the runtime's reference restored.
DeallocResurrects ==
    /\ InLoop("finalizers") /\ Top.cur # None
    /\ refcnt[Top.cur] = 0 /\ MaxRefcnt >= 2
    /\ refcnt' = [refcnt EXCEPT ![Top.cur] = 2]
    /\ borrowed' = borrowed \ {Top.cur}
    /\ SetTop("finalizers", None)
    /\ UNCHANGED <<heapVars, handles, caches, tracked, callbacks,
                   finalizable, gcVars>>

\* Mutant of CollectGarbageReturns: processFinalizers() handles one object only.
CollectGarbageReturnsEarly ==
    /\ InLoop("finalizers") /\ Top.cur = None
    /\ frames' = SubSeq(frames, 1, Len(frames) - 1)
    /\ UNCHANGED <<heapVars, capiVars, callbacks, finalizable, gcVars>>

CollectGarbageReturns ==
    /\ InLoop("finalizers") /\ Top.cur = None
    /\ finalizable = <<>>
    /\ frames' = SubSeq(frames, 1, Len(frames) - 1)
    /\ UNCHANGED <<heapVars, capiVars, callbacks, finalizable, gcVars>>

\* Once a CHECK has failed nothing happens any more.
Aborted == phase = "aborted" /\ UNCHANGED vars

-----------------------------------------------------------------------------

\* Python and extension code.
Mutate ==
    /\ Running
    /\ \/ \E S \in SUBSET Accessible, o \in Obj :
            NewObject(o, S) \/ NewExtensionObject(o, S) \/ SetFields(o, S)
       \/ \E S \in SUBSET Accessible, w \in WeakRef, r \in Accessible, b \in BOOLEAN :
            NewWeakRef(w, r, b, S)
       \/ \E o \in Obj :
            \/ AddRoot(o) \/ DropRoot(o) \/ NewReference(o) \/ BorrowedReference(o)
            \/ Decref(o) \/ StealReference(o) \/ SetCache(o)

Collect ==
    \/ \E o \in Obj : \/ ScanImmortalSpace(o)
                      \/ ProcessGrayImmortal(o) \/ ProcessGrayTo(o)
    \/ ImmortalSpaceScanned \/ VisitRoots \/ VisitIncrementedApiHandles
    \/ GrayObjectsProcessed \/ VisitExtensionObjects
    \/ VisitNotIncrementedBorrowedApiHandles
    \/ ProcessDelayedReference \/ DelayedReferencesProcessed
    \/ ProcessLayouts \/ SwapSpaces

DrainQueues ==
    \/ DequeueCallback \/ CallbacksProcessed
    \/ FinalizeExtensionObject \/ CollectGarbageReturns

\* The user code a queue item runs returns.
UserCodeReturns ==
    \/ CallbackReturns
    \/ DeallocReleases \/ DeallocResurrects

Next == \/ Mutate
        \/ \E d \in {"to", "immortal"} : CollectGarbageInto(d)
        \/ Collect \/ DrainQueues \/ UserCodeReturns \/ Aborted

Spec == Init /\ [][Next]_vars

\* The collector and the two loops run to their end; each callback and each
\* tp_dealloc returns, however many collections it starts, and so however many
\* others run and return inside it.
FairSpec == Spec /\ WF_vars(Collect) /\ WF_vars(DrainQueues)
                 /\ \A d \in 1..MaxDepth :
                      SF_vars(Len(frames) = d /\ UserCodeReturns)

-----------------------------------------------------------------------------
(***************************************************************************)
(* Correctness.                                                            *)
(***************************************************************************)

TypeOK ==
    /\ space \in [Obj -> {"none", "from", "to", "immortal"}]
    /\ refs \in [Obj -> SUBSET Obj]
    /\ referent \in [Obj -> Obj \cup {None}]
    /\ hasCallback \subseteq Obj /\ roots \subseteq Obj /\ layouts \subseteq Layouts
    /\ handles \subseteq Wrapped /\ caches \subseteq Obj
    /\ refcnt \in [Obj -> Nat] /\ borrowed \subseteq Obj
    /\ tracked \subseteq Proxy
    /\ callbacks \in Seq(WeakRef) /\ finalizable \in Seq(Proxy)
    /\ frames \in Seq(Activation)
    /\ phase \in Phases /\ dest \in {"to", "immortal"}
    /\ scanning \in {"to", "immortal"}
    /\ fwd \subseteq Obj /\ gray \subseteq Obj
    /\ stale \in [Holders -> SUBSET Obj]
    /\ delayed \in Seq(WeakRef) /\ delayedCallbacks \in Seq(WeakRef)
    /\ runCallback \in BOOLEAN

\* The DCHECK(heap_->verify(), "Heap failed to verify after GC") of scavenge()
\* and its counterpart for what lies outside the heap: whenever user code runs,
\* every pointer in an object, in a root, in the handle and cache dictionaries,
\* in a native object and in the layouts tuple is to an object that was kept.
NoDangling ==
    phase = "run" =>
      /\ \A o \in Existing : /\ refs[o] \subseteq Existing
                             /\ referent[o] # None => referent[o] \in Existing
      /\ RootSet \cup handles \cup caches \cup tracked \cup layouts \subseteq Existing

\* Whenever user code runs, no holder outside the heap still has the address
\* that an object had before a collection moved it.
NoStalePointer == phase = "run" => \A h \in Holders : stale[h] = {}

Collecting == phase \notin {"run", "aborted"}

\* What has been moved, by this collection or, into the immortal space, by an
\* earlier one.
Kept == In("to") \cup In("immortal")

\* The phases after the one that visits a kind of pointer.
AfterRoots == {"incremented", "gray1", "extension", "gray2", "borrowed",
               "gray3", "delayed", "layouts", "gray4", "swap"}
AfterExtension == AfterRoots \ {"incremented", "gray1", "extension"}
AfterBorrowed == {"gray3", "delayed", "layouts", "gray4", "swap"}
AfterDelayed == {"layouts", "gray4", "swap"}
AfterLayouts == {"gray4", "swap"}

\* At every step every pointer, in the heap and outside, is to an object that
\* exists, in from-space if need be.
ClosedHeap ==
    /\ \A o \in Existing : refs[o] \subseteq Existing
    /\ \A o \in Obj : referent[o] # None =>
                      referent[o] \in Existing /\ o \in WeakRef \cap Existing
    /\ RootSet \cup handles \cup caches \cup tracked \cup layouts \subseteq Existing

\* The tri-color invariant of collect(): a black object, one that was moved and
\* lies before its gray line, references no white one, except the weakrefs in
\* delayed_references_.
TriColor ==
    Collecting =>
      /\ fwd \cup gray \cup Elems(delayed) \cup Elems(delayedCallbacks) \subseteq Kept
      /\ \A o \in Kept \ gray :
           /\ refs[o] \subseteq Kept
           /\ \/ referent[o] \in Kept \cup {None}
              \/ o \in Elems(delayed)

\* What each statement of collect() leaves done for the following ones.
PhaseOK ==
    /\ ~Collecting => /\ gray = {} /\ fwd = {} /\ In("to") = {}
                      /\ delayed = <<>> /\ delayedCallbacks = <<>>
    /\ phase \in {"extension", "borrowed", "delayed", "layouts", "gray4", "swap"}
         => gray = {}
    /\ phase \in AfterRoots => RootSet \subseteq Kept
    /\ phase \in AfterExtension => tracked \subseteq Kept
    /\ phase \in AfterBorrowed => handles \cup caches \subseteq Kept
    /\ phase \in AfterDelayed => delayed = <<>>
    /\ phase \in AfterLayouts => layouts \subseteq Kept

\* Stale pointers are left only by a statement that a later one makes up for.
StaleOK ==
    /\ \A h \in Holders : stale[h] \subseteq HeldBy(h)
    /\ ~Collecting => \A h \in Holders : stale[h] = {}
    /\ phase \in AfterRoots => stale["root"] = {}
    /\ phase \in AfterExtension => stale["ext"] = {}
    /\ phase \in AfterBorrowed => stale["handle"] = {} /\ stale["cache"] = {}
    /\ phase \in AfterLayouts => stale["layout"] = {}

\* The inductive invariant from which NoDangling and NoStalePointer follow.
Inductive == ClosedHeap /\ TriColor /\ PhaseOK /\ StaleOK

\* Counted handles are visited next to the roots; only what this collection
\* moved is in to-space, and it forwards.
AfterHandles == AfterRoots \ {"incremented"}
MovedOK ==
    /\ phase \in AfterHandles => {o \in handles : refcnt[o] > 0} \subseteq Kept
    /\ In("to") \subseteq fwd

\* The layouts tuple has an entry for the layout of each mortal object, and
\* transport() moved the layouts of the moved ones before processLayouts().
LayoutsOK ==
    /\ phase \notin AfterLayouts =>
         \A o \in In("from") : LayoutOf[o] # None => LayoutOf[o] \in layouts
    /\ \A o \in In("to") : LayoutOf[o] # None => LayoutOf[o] \in layouts \cap Kept

\* A weakref whose callback runs was cleared.
HeldCleared == \A w \in Held \cap WeakRef : referent[w] = None

\* Where a collection starts from, and what an object it moved keeps alive.
Sources == RootSet \cup {o \in handles : refcnt[o] > 0} \cup tracked \cup In("immortal")
Points(p) == refs[p] \cup {LayoutOf[q] : q \in {p} \ In("immortal")}

\* Whatever a collection moved can be reached, through objects that it moved,
\* from where it starts.
Justified ==
    Collecting =>
      \A T \in SUBSET Kept :
        /\ Sources \cap Kept \subseteq T
        /\ \A p \in T : Points(p) \cap Kept \subseteq T
        => Kept \subseteq T

\* The whole invariant: what the properties of the queues, of layouts and of
\* what a collection keeps and reclaims follow from.
CollectorInvariant == Inductive /\ MovedOK /\ LayoutsOK /\ HeldCleared /\ Justified

\* Closure over strong references and, for an object that is or was moved by
\* this collection, over the reference to its layout that transport() follows.
ReachWithLayouts(S) ==
    {o \in Obj \cap (S \cup Existing) : \A T \in SUBSET (S \cup Existing) :
       /\ S \subseteq T
       /\ \A p \in T : refs[p] \cup {LayoutOf[q] : q \in {p} \ In("immortal")}
                         \subseteq T \cup {None}
       => o \in T}

\* What a collection must keep, at any point of it: what is reachable from the
\* roots, from handles with references and from the immortal space.
MustKeep == ReachWithLayouts(RootSet \cup {o \in handles : refcnt[o] > 0}
                               \cup In("immortal"))

\* The collection also keeps the tracked extension objects, whatever their
\* reference count, and what they reference: tp_dealloc needs them whole.
MayKeep == ReachWithLayouts(MustKeep \cup tracked)

\* Of the objects a collection moved, each is one that it had to keep, or one
\* that an extension object keeps: what nothing references is reclaimed by the
\* first collection.
GarbageReclaimed ==
    [][phase = "swap" /\ phase' = "run" => Kept \subseteq MayKeep]_vars

\* processDelayedReferences() clears a weakref only when its mortal referent
\* had no strong reference "after all".
WeakRefClearedOnlyIfDead ==
    [][\A w \in WeakRef :
         /\ phase = "delayed"
         /\ referent[w] # None /\ referent'[w] = None
         /\ space[referent[w]] # "immortal"
         => referent[w] \notin MayKeep]_vars

\* processCallbacks() casts the callback of every weakref it dequeues to a
\* BoundMethod and enqueue() asserts that a weakref is in one queue at most:
\* queued weakrefs have a callback, are cleared, and are queued or running once.
CallbackQueueOK ==
    LET q == callbacks \o delayedCallbacks
    IN  /\ \A i \in DOMAIN q : /\ q[i] \in hasCallback \ Held
                               /\ referent[q[i]] = None
        /\ \A i, j \in DOMAIN q : q[i] = q[j] => i = j

\* Every live weakref that a collection cleared gets its callback run, unless
\* the process aborts first.
CallbackEventuallyRun ==
    \A w \in WeakRef :
      (w \in hasCallback /\ referent[w] = None)
        ~> (w \notin hasCallback \/ phase = "aborted")

\* The C-API side: a cache belongs to a handle, and a handle without references
\* is a borrowed one ("non-borrowed object should already be disposed").
HandlesOK == /\ caches \subseteq handles
             /\ \A o \in handles : refcnt[o] = 0 => o \in borrowed

\* A collection frees the handle of a mortal object only if nothing keeps the
\* object: a borrowed PyObject* stays valid as long as the object is reachable.
BorrowedHandleKept ==
    [][\A o \in handles \ handles' :
         phase = "borrowed" /\ space[o] # "immortal" => o \notin MayKeep]_vars

\* Runtime::layoutOf() finds the layout of every mortal object.
LayoutKept ==
    phase = "run" => \A o \in In("from") :
                       LayoutOf[o] # None => LayoutOf[o] \in layouts

\* Extension objects are queued for finalization once, and while they are
\* tracked: tp_dealloc never works on memory that was given up.
FinalizerQueueOK ==
    /\ \A i \in DOMAIN finalizable :
         finalizable[i] \in tracked \ Held
    /\ \A i, j \in DOMAIN finalizable : finalizable[i] = finalizable[j] => i = j

\* visitExtensionObjects() queues a mortal proxy only if it has no reference
\* from extension code and nothing but an extension object references it.
OnlyUnreferencedFinalized ==
    [][\A x \in Elems(finalizable') \ Elems(finalizable) :
         space[x] # "immortal" => refcnt[x] <= 1 /\ x \notin MustKeep]_vars

\* Every queued extension object is taken from the queue, unless the process
\* aborts first.
FinalizerEventuallyRun ==
    \A x \in Proxy : x \in Elems(finalizable)
                       ~> (x \notin Elems(finalizable) \/ phase = "aborted")

\* Every collection comes to an end.
CollectionEnds == (phase \notin {"run", "aborted"}) ~> (phase = "run")

-----------------------------------------------------------------------------
(***************************************************************************)
(* Statements of the code's comments and assertions that the code does not *)
(* live up to; each is refuted by a run of its own.                        *)
(***************************************************************************)

\* objects.h: the referent of a weakref is "Set to None by the garbage
\* collector when the referent is being collected" - whatever space it is in.
WeakRefClearedOnlyIfCollected ==
    [][\A w \in WeakRef :
         phase = "delayed" /\ referent[w] # None /\ referent'[w] = None
         => referent[w] \notin MayKeep]_vars

\* extension-object.cpp: "The runtime must hold the last reference to the
\* PyObject*" when finalizeExtensionObject() is called, or a CHECK aborts the
\* process.
LastReferenceIsTheRuntimes == phase # "aborted"

=============================================================================
