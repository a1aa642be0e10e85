---------------------------- MODULE HandleTables ----------------------------
(***************************************************************************)
(* The tables of CAPIState (ext/Internal/capi-state.h, api-handle.cpp):    *)
(* the dictionary of the handles, that of the cached values, and the free  *)
(* list of handles.  An object is its address.  Which handles are counted, *)
(* borrowed or reachable is the Scavenger's part: here any handle may be   *)
(* disposed of, and a collection may free any of them and move any object. *)
(***************************************************************************)
EXTENDS ApiHandleDict, Sequences

CONSTANTS
    Cached,          \* cached values
    Cacheable,       \* the objects that the C-API caches a value for
    InitialHandles,  \* kInitialHandlesCapacity, a power of two
    InitialCaches,   \* kInitialCachesCapacity, a power of two
    MaxIndices,      \* bound: number of indices of a dictionary
    MaxItems         \* bound: num_items_ of the handles

ASSUME TablesAssumption ==
    /\ NoValue \notin Cached \cup Nat
    /\ Cacheable \subseteq Key
    /\ {InitialHandles, InitialCaches} \subseteq {2, 4, 8, 16, 32, 64}
    /\ MaxIndices \in 2..64 /\ MaxItems \in Nat

VARIABLES
    handles,  \* CAPIState::handles
    caches,   \* CAPIState::caches
    free      \* CAPIState::free_handles, as places in handle_buffer: the
              \* recycled handles, then the frontier

vars == <<handles, caches, free>>

handleOf == at(handles)
cacheOf == at(caches)
Live == DOMAIN handleOf

Init ==
    /\ handles = initialize(InitialHandles)
    /\ caches = initialize(InitialCaches)
    /\ free = <<0>>

AllocateReusesHead ==
    free' = IF Len(free) > 1 THEN free ELSE <<free[1] + 1>>

allocateHandle ==
    free' = IF Len(free) > 1 THEN Tail(free) ELSE <<free[1] + 1>>

freeHandle(h) == free' = <<h>> \o free

\* ApiHandle::newReferenceWithManaged() of an object that has no handle.
NewReference(k) ==
    LET e == atPutLookup(handles, k)
    IN  /\ k \notin Live /\ handles.numItems < MaxItems
        /\ allocateHandle
        /\ handles' = atPutValue(e, e.indices[stopsAt(e, k)], free[1])
        /\ numIndices(handles') <= MaxIndices
        /\ UNCHANGED caches

\* ApiHandle::setCache().
SetCache(k, v) ==
    /\ k \in Live
    /\ caches' = atPut(caches, k, v)
    /\ numIndices(caches') <= MaxIndices
    /\ UNCHANGED <<handles, free>>

\* ApiHandle::disposeWithRuntime().
Dispose(k) ==
    /\ k \in Live
    /\ handles' = remove(handles, k)
    /\ caches' = remove(caches, k)
    /\ freeHandle(handleOf[k])

-----------------------------------------------------------------------------

\* Where the collector may leave the objects of S: where they were, if they
\* are immortal, or in the other space, where no object was.
Moves(S) == LET occupied == Live
            IN  {m \in [S -> Key] : /\ \A j, k \in S : m[j] = m[k] => j = k
                                    /\ \A k \in S : m[k] = k \/ m[k] \notin occupied}

\* The dense indices of the handles of the objects of freed.
Dead(freed) == {i \in items(handles) : handles.keys[i] \in freed}

\* The caches after remove() of the keys of the handles at S, in their order.
CachesWithout(S) ==
    LET c[i \in 0..handles.nextIndex] ==
          IF i = 0 THEN caches
          ELSE IF i - 1 \in S THEN remove(c[i - 1], handles.keys[i - 1])
          ELSE c[i - 1]
    IN  c[handles.nextIndex]

FollowCachesOfDead(freed, move) ==
    LET d == visitKeys(caches, [k \in Live |-> IF k \in freed THEN k ELSE move[k]])
    IN  caches' = rehash(d, numIndices(d))

\* The cached values of the freed handles go, the others follow their objects.
FollowCaches(freed, move) ==
    LET d == visitKeys(CachesWithout(Dead(freed)), move)
    IN  caches' = rehash(d, numIndices(d))

\* Frees the handles at the dense indices S of the dictionary, in their order.
FreeHandles(S) ==
    LET f[i \in 0..handles.nextIndex] ==
          IF i = 0 THEN free
          ELSE (IF i - 1 \in S THEN <<handles.values[i - 1]>> ELSE <<>>) \o f[i - 1]
    IN  free' = f[handles.nextIndex]

\* The new dictionary has room for as many handles as the old one counts,
\* and the old count stays.
RebuildHandles(kept, move) ==
    handles' = Reinserted(handles, kept, move,
                          nextPowerOfTwo((handles.numItems * 3) \div 2 + 1), Cardinality(kept))

\* visitNotIncrementedBorrowedApiHandles(), when the objects of freed are
\* unreachable and their handles not counted, and the others go where move says.
Collect(freed, move) ==
    /\ RebuildHandles(items(handles) \ Dead(freed), move)
    /\ FreeHandles(Dead(freed))
    /\ FollowCaches(freed, move)
    /\ numIndices(handles') <= MaxIndices

Collection == \E freed \in SUBSET Live : \E move \in Moves(Live \ freed) : Collect(freed, move)

Next ==
    \/ \E k \in Key : NewReference(k)
    \/ \E k \in Cacheable, v \in Cached : SetCache(k, v)
    \/ \E k \in Key : Dispose(k)
    \/ Collection

Spec == Init /\ [][Next]_vars

-----------------------------------------------------------------------------
(***************************************************************************)
(* Properties.                                                             *)
(***************************************************************************)

DictType(d) ==
    /\ d.indices \in [DOMAIN d.indices -> -2..(d.nextIndex - 1)]
    /\ \E n \in {2, 4, 8, 16, 32, 64} : /\ DOMAIN d.indices = 0..(n - 1)
                                        /\ DOMAIN d.keys = 0..(maxCapacity(n) - 1)
                                        /\ DOMAIN d.values = DOMAIN d.keys
    /\ \A i \in DOMAIN d.keys : d.keys[i] \in Key \cup {NoKey}
    /\ d.nextIndex \in Nat /\ d.numItems \in Nat

\* The dictionaries and the free list are well formed: every index names a
\* dense entry that was given out (api-handle.cpp:167-172).
TypeOK ==
    /\ DictType(handles) /\ DictType(caches)
    /\ free \in Seq(Nat) /\ free # <<>>

\* "Maintain the invariant that we have space for at least one more item"
\* (api-handle.cpp:182): an insertion never writes past the dense arrays, and
\* a probe always ends at an empty index.  It must survive the collections,
\* after which num_items_ counts more than next_index_.
SpaceForOneMore == hasUsableItem(handles) /\ hasUsableItem(caches)

\* Iteration (nextItem, which the collector uses) and lookup (at, which the
\* C-API uses) see the same entries: each entry is the one that a lookup of
\* its key finds, so no key has two.
EntriesAreFound ==
    \A d \in {handles, caches} : \A i \in items(d) :
        lookup(d, d.keys[i]) /\ d.indices[stopsAt(d, d.keys[i])] = i

\* A handle is in use or in the free list, once, and the frontier is past all
\* of them (capi-state.h:19-21): a freed handle is never still in a
\* dictionary, where two objects would come to share it.
HandlesPartitioned ==
    LET recycled == {free[i] : i \in 1..(Len(free) - 1)}
        frontier == free[Len(free)]
        inUse == {handleOf[k] : k \in Live}
    IN  /\ recycled \cup inUse = 0..(frontier - 1)
        /\ Cardinality(recycled) = Len(free) - 1
        /\ Cardinality(inUse) = Cardinality(Live)
        /\ Cardinality(recycled) + Cardinality(inUse) = frontier

\* The count of the caches is exact through every removal and collection;
\* rehash() relies on it for the next entry's place (api-handle.cpp:259).
CachesCounted == caches.numItems = Cardinality(items(caches))

Tables == INSTANCE HandleMap WITH Handle <- 0..Cardinality(Key)

\* The two open-addressing tables together implement the map from objects to
\* handles and cached values, through removals, growth and moving collections.
ImplementsHandleMap == Tables!Spec

-----------------------------------------------------------------------------

\* Runtime::freeApiHandles() takes the decrease of numApiHandles() over a
\* collection for the number of handles it freed (runtime.cpp:3610-3618).
CountTellsWhatWasFreed ==
    [][Collection => handles.numItems - handles'.numItems
                       = Cardinality(items(handles)) - Cardinality(items(handles)')]_vars

=============================================================================
