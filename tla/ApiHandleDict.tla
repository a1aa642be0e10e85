--------------------------- MODULE ApiHandleDict ---------------------------
(***************************************************************************)
(* ApiHandleDict (ext/Internal/api-handle-dict.h, api-handle.cpp): the     *)
(* open-addressing hash table from the address of an object to its handle  *)
(* (CAPIState::handles) or to its cached value (CAPIState::caches).  A     *)
(* sparse array of indices is probed; the entries are in dense arrays of   *)
(* keys and values, in insertion order, with holes where they were removed.*)
(*                                                                         *)
(* A dictionary d is a record of the members of the class: d.indices has   *)
(* num_indices_ elements, d.keys and d.values have capacity_.  A method    *)
(* that changes the dictionary is an operator that returns the new record. *)
(***************************************************************************)
EXTENDS Integers, FiniteSets, FiniteSetsExt

CONSTANTS
    Key,        \* addresses of objects
    Hash,       \* handleHash() of each address
    NoKey,      \* the zero of an unused or removed entry
    NoValue     \* the nullptr of a removed entry

\* A hash below 1024, so that probeNext() has shifted it out after two steps.
MaxHash == 1023

ASSUME DictAssumption ==
    /\ IsFiniteSet(Key) /\ NoKey \notin Key
    /\ Hash \in [Key -> 0..MaxHash]

Empty == -1
Tombstone == -2

maxCapacity(n) == (n * 2) \div 3

\* Utils::nextPowerOfTwo(): the next power of two strictly above x.
nextPowerOfTwo(x) == Min({p \in {2, 4, 8, 16, 32, 64, 128} : p > x})

numIndices(d) == Cardinality(DOMAIN d.indices)
capacity(d) == Cardinality(DOMAIN d.keys)

newIndices(n) == [i \in 0..(n - 1) |-> Empty]
newKeys(n) == [i \in 0..(maxCapacity(n) - 1) |-> NoKey]

\* malloc(): the value of an entry without a key is never read.
newValues(n) == [i \in 0..(maxCapacity(n) - 1) |-> NoValue]

initialize(n) ==
    [indices |-> newIndices(n), keys |-> newKeys(n), values |-> newValues(n),
     nextIndex |-> 0, numItems |-> 0]

-----------------------------------------------------------------------------

\* The indices that probeBegin() and probeNext() visit for a hash, until they
\* have visited every one of n.  Each step shifts perturb by five.
probe(hash, n) ==
    LET perturb(i) == IF i = 1 THEN hash \div 32 ELSE 0
        p[i \in 0..(n + 2)] ==
          IF i = 0 THEN hash % n ELSE (p[i - 1] * 5 + 1 + perturb(i)) % n
    IN  p

probes == [n \in {2, 4, 8, 16, 32, 64, 128} |-> [k \in Key |-> probe(Hash[k], n)]]

\* The first member of S that the probe for k meets in n indices.
firstOf(S, k, n) ==
    LET p == probes[n][k]
    IN  p[CHOOSE i \in DOMAIN p : p[i] \in S /\ \A j \in 0..(i - 1) : p[j] \notin S]

holds(d, i, k) == d.indices[i] >= 0 /\ d.keys[d.indices[i]] = k

\* Where lookup() stops: at the entry of k or at an empty index.
stopsAt(d, k) ==
    firstOf({i \in DOMAIN d.indices : d.indices[i] = Empty \/ holds(d, i, k)}, k, numIndices(d))

lookup(d, k) == d.indices[stopsAt(d, k)] # Empty

\* The map that at() implements.
at(d) == LET found == [k \in Key |-> d.indices[stopsAt(d, k)]]
         IN  [k \in {k \in Key : found[k] # Empty} |-> d.values[found[k]]]

\* nextItem(), from 0 to next_index_: the dense indices of the entries.
items(d) == {i \in 0..(d.nextIndex - 1) : i \in DOMAIN d.keys /\ d.keys[i] # NoKey}

-----------------------------------------------------------------------------

Unmoved == [k \in Key |-> k]

\* The loop that rehash() and a collection share: the entries at the dense
\* indices S, their keys moved, enter n new indices in their order.
Reinserted(d, S, move, n, nextIndex) ==
    LET old == [c \in 0..(Cardinality(S) - 1) |->
                  CHOOSE i \in S : Cardinality({j \in S : j < i}) = c]
        key(c) == move[d.keys[old[c]]]
        indices[c \in 0..Cardinality(S)] ==
          IF c = 0 THEN newIndices(n)
          ELSE LET before == indices[c - 1]
                   unused == {i \in DOMAIN before : before[i] = Empty}
               IN  [before EXCEPT ![firstOf(unused, key(c - 1), n)] = c - 1]
    IN  [d EXCEPT
          !.indices = indices[Cardinality(S)],
          !.keys = [c \in DOMAIN newKeys(n) |-> IF c \in DOMAIN old THEN key(c) ELSE NoKey],
          !.values = [c \in DOMAIN newValues(n) |->
                        IF c \in DOMAIN old THEN d.values[old[c]] ELSE NoValue],
          !.nextIndex = nextIndex]

RehashKeepsNextIndex(d, n) == Reinserted(d, items(d), Unmoved, n, d.nextIndex)

rehash(d, n) == Reinserted(d, items(d), Unmoved, n, d.numItems)

hasUsableItem(d) == d.nextIndex < capacity(d)

growthFactor(d) == IF d.numItems < capacity(d) \div 2 THEN 1 ELSE 2

grow(d) == rehash(d, numIndices(d) * growthFactor(d))

\* An index that is unused holds the new entry: the first that the probe met,
\* which may be a tombstone, once an empty index shows that k has no entry.
inserted(d, k) ==
    LET free == {i \in DOMAIN d.indices : d.indices[i] < 0}
    IN  [d EXCEPT !.indices[firstOf(free, k, numIndices(d))] = d.nextIndex,
                  !.keys[d.nextIndex] = k,
                  !.nextIndex = @ + 1,
                  !.numItems = @ + 1]

atPutLookup(d, k) == IF lookup(d, k) THEN d ELSE inserted(d, k)

atPutValue(d, i, v) ==
    LET e == [d EXCEPT !.values[i] = v] IN IF hasUsableItem(e) THEN e ELSE grow(e)

atPut(d, k, v) ==
    LET e == atPutLookup(d, k) IN atPutValue(e, e.indices[stopsAt(e, k)], v)

RemoveDecrementsFirst(d, k) ==
    LET e == [d EXCEPT !.numItems = @ - 1]
        i == stopsAt(d, k)
    IN  IF ~lookup(d, k) THEN e
        ELSE [e EXCEPT !.indices[i] = Tombstone,
                       !.keys[d.indices[i]] = NoKey,
                       !.values[d.indices[i]] = NoValue]

RemoveMakesEmpty(d, k) ==
    IF ~lookup(d, k) THEN d
    ELSE LET i == stopsAt(d, k)
         IN  [d EXCEPT !.indices[i] = Empty,
                       !.keys[d.indices[i]] = NoKey,
                       !.values[d.indices[i]] = NoValue,
                       !.numItems = @ - 1]

RemoveKeepsCount(d, k) ==
    IF ~lookup(d, k) THEN d
    ELSE LET i == stopsAt(d, k)
         IN  [d EXCEPT !.indices[i] = Tombstone,
                       !.keys[d.indices[i]] = NoKey,
                       !.values[d.indices[i]] = NoValue]

\* remove(), which leaves d as it is when k has no entry.
remove(d, k) ==
    IF ~lookup(d, k) THEN d
    ELSE LET i == stopsAt(d, k)
         IN  [d EXCEPT !.indices[i] = Tombstone,
                       !.keys[d.indices[i]] = NoKey,
                       !.values[d.indices[i]] = NoValue,
                       !.numItems = @ - 1]

visitKeys(d, move) == [d EXCEPT !.keys = [i \in DOMAIN @ |->
                                            IF @[i] = NoKey THEN NoKey ELSE move[@[i]]]]

=============================================================================
