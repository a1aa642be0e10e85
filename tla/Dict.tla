-------------------------------- MODULE Dict --------------------------------
(***************************************************************************)
(* dict (runtime/dict-builtins.cpp): items in the order of insertion, found *)
(* through an array of indices with open addressing.                       *)
(*                                                                         *)
(* A lookup compares keys with __eq__, which the program may define: it    *)
(* raises, or it uses the same dict again while the lookup goes on with the *)
(* arrays that it took from the dict when it began.                        *)
(***************************************************************************)
EXTENDS Integers, Sequences, FiniteSets, SequencesExt, FiniteSetsExt

CONSTANTS
    None,
    Key,           \* key objects
    Class,         \* Class[k]: keys of one class are equal
    Hash,          \* Hash[k]
    Value,
    Nested,        \* what an __eq__ may do to the dict
    MaxCalls,      \* bound on lookups whose __eq__ is running
    MaxIndices,    \* bound on the growth of the dict
    kInitialDictIndicesLength,
    kPerturbShifts \* so many shifts leave nothing of a hash in perturb:
                   \* 13 for the words of 64 bits of the code

Operation == {"put", "get", "remove", "popitem", "clear"}

\* An index without an item.
Empty == 0
Tombstone == -1

\* perturb at each step of a probe: probeNext shifts it by five bits.
Perturb(hash, steps) ==
    LET perturb[i \in 1..steps] == IF i = 1 THEN hash ELSE perturb[i - 1] \div 32
    IN  perturb

ASSUME DictAssumption ==
    /\ \A j, k \in Key : Class[j] = Class[k] => Hash[j] = Hash[k]
    /\ kPerturbShifts \in Nat
    /\ \A k \in Key : /\ Hash[k] \in Nat
                      /\ Perturb(Hash[k], kPerturbShifts + 1)[kPerturbShifts + 1] = 0
    /\ None \notin Key \cup Nat
    /\ Nested \subseteq Operation
    /\ MaxCalls \in Nat \ {0} /\ MaxIndices \in Nat
    /\ kInitialDictIndicesLength \in {2, 4, 8}

VARIABLES
    arrays,      \* the data and indices of the dict, last, and those before
                 \* it that a lookup still has; empty for a new dict
    numItems,
    firstEmpty,  \* firstEmptyItemIndex
    calls,       \* lookups whose __eq__ is running, the last one on top
    stopped      \* a lookup probes without end, or left its arrays

vars == <<arrays, numItems, firstEmpty, calls, stopped>>

Init ==
    /\ arrays = <<>>
    /\ numItems = 0
    /\ firstEmpty = 1
    /\ calls = <<>>
    /\ stopped = FALSE

-----------------------------------------------------------------------------
(* Arrays [items, indices].  An item is a record [key, value], or Unused, or *)
(* Removed.  Its hash is Hash[key].                                        *)

Unused == [key |-> None, value |-> "unused"]
Removed == [key |-> None, value |-> "removed"]
Full(item) == item.key # None

NewArrays(numIndices) ==
    [items |-> [i \in 1..((numIndices * 2) \div 3) |-> Unused],
     indices |-> [p \in 0..(numIndices - 1) |-> Empty]]

numIndices(a) == Cardinality(DOMAIN a.indices)

\* probeBegin, probeNext: the indices in the order of the visits.  While perturb
\* moves it a probe may meet an index again; the next n visits meet them all, and
\* the later ones repeat these.
Steps(n) == n + kPerturbShifts

Probe(hash, n) ==
    LET perturb == Perturb(hash, Steps(n))
        p[i \in 1..Steps(n)] == IF i = 1 THEN hash % n ELSE (p[i - 1] * 5 + 1 + perturb[i]) % n
    IN  p

\* dictInsertNoUpdate: the i-th item goes to the first empty index.
InsertNoUpdate(indices, hash, i) ==
    LET p == Probe(hash, Cardinality(DOMAIN indices))
    IN  [indices EXCEPT ![p[SelectInSeq(p, LAMBDA q : indices[q] = Empty)]] = i]

\* The state [arrays, numItems, firstEmpty] of the dict.
State == [arrays |-> arrays, numItems |-> numItems, firstEmpty |-> firstEmpty]
Arrays(d) == Last(d.arrays)

\* dictNextItem: the items before the first empty one that are not removed.
LiveItems(d) ==
    LET items == Arrays(d).items
        live == {i \in 1..(d.firstEmpty - 1) : Full(items[i])}
        place(j) == CHOOSE i \in live : Cardinality({h \in live : h <= i}) = j
    IN  [j \in 1..Cardinality(live) |-> items[place(j)]]

\* The dict with these items in new arrays of twice the size.
Grown(d, live) ==
    LET new == NewArrays(2 * numIndices(Arrays(d)))
        indices[i \in 0..Len(live)] ==
          IF i = 0 THEN new.indices ELSE InsertNoUpdate(indices[i - 1], Hash[live[i].key], i)
        items == [i \in DOMAIN new.items |-> IF i \in DOMAIN live THEN live[i] ELSE Unused]
    IN  [arrays |-> Append(d.arrays, [items |-> items, indices |-> indices[Len(live)]]),
         numItems |-> d.numItems, firstEmpty |-> d.numItems + 1]

\* Mutant of EnsureCapacity: the items are put in the order of their indices.
EnsureCapacityByIndex(d) ==
    LET old == Arrays(d)
        filled == SetToSortSeq({p \in DOMAIN old.indices : old.indices[p] > 0}, LAMBDA p, q : p < q)
        live == [j \in DOMAIN filled |-> old.items[old.indices[filled[j]]]]
    IN  IF d.firstEmpty <= Len(old.items) THEN d ELSE Grown(d, live)

\* dictEnsureCapacity: a full dict doubles, whatever was removed from it; the
\* items move up to the first places.
EnsureCapacity(d) ==
    IF d.firstEmpty <= Len(Arrays(d).items) THEN d ELSE Grown(d, LiveItems(d))

-----------------------------------------------------------------------------
(* The end of an operation whose lookup l, with the arrays l.arrays, found the *)
(* key at an index or did not find it.  FALSE where it leaves the arrays.  *)

ItemAt(d, l, at) == d.arrays[l.arrays].indices[at]

\* dictAtPut, dictAt, dictRemove after the lookup: the index is read again.
Found(d, l, at) ==
    LET i == ItemAt(d, l, at)
    IN  CASE l.op = "put" -> [d EXCEPT !.arrays[l.arrays].items[i].value = l.value]
          [] l.op = "get" -> d
          [] l.op = "remove" -> [d EXCEPT !.arrays[l.arrays].items[i] = Removed,
                                          !.arrays[l.arrays].indices[at] = Tombstone,
                                          !.numItems = @ - 1]

\* dictAtPut of a new key: the first free index, the dict's first empty item.
NotFound(d, l) ==
    IF l.op # "put" THEN d
    ELSE EnsureCapacity([d EXCEPT
            !.arrays[l.arrays].items[d.firstEmpty] = [key |-> l.key, value |-> l.value],
            !.arrays[l.arrays].indices[l.free] = d.firstEmpty,
            !.numItems = @ + 1,
            !.firstEmpty = @ + 1])

-----------------------------------------------------------------------------
(* Steps *)

\* Arrays that neither the dict nor a lookup has are garbage.
Become(d, below) ==
    /\ arrays' = IF below = <<>> /\ d.arrays # <<>> THEN <<Last(d.arrays)>> ELSE d.arrays
    /\ numItems' = d.numItems
    /\ firstEmpty' = d.firstEmpty
    /\ calls' = below
    /\ d.arrays # <<>> => numIndices(Last(d.arrays)) <= MaxIndices
    /\ UNCHANGED stopped

Stop == stopped' = TRUE /\ UNCHANGED <<arrays, numItems, firstEmpty, calls>>

FoundAt(d, l, at, below) ==
    IF ItemAt(d, l, at) > 0 THEN Become(Found(d, l, at), below) ELSE Stop

\* Mutant of Continue: an insertion takes the first free index it meets.
ContinueToFirstFree(d, l, below) ==
    LET a == d.arrays[l.arrays]
        p == Probe(Hash[l.key], numIndices(a))
        filled(q) == a.indices[q] > 0
        meets(q) == a.indices[q] = Empty \/ (l.op = "put" /\ ~filled(q))
                    \/ (filled(q) /\ Full(a.items[a.indices[q]])
                                       /\ Hash[a.items[a.indices[q]].key] = Hash[l.key])
        stops == {s \in l.step..Len(p) : meets(p[s])}
        at == p[Min(stops)]
        key == a.items[a.indices[at]].key
    IN  CASE stops = {} -> Stop
          [] stops # {} /\ ~filled(at) -> Become(NotFound(d, [l EXCEPT !.free = at]), below)
          [] stops # {} /\ filled(at) /\ key = l.key -> FoundAt(d, l, at, below)
          [] stops # {} /\ filled(at) /\ key # l.key ->
                Become(d, Append(below, [l EXCEPT !.step = Min(stops) + 1, !.with = key]))

\* dictLookup, dictLookupForInsertion from l.step on, until __eq__ is called with
\* another key of this hash, or to the end.
Continue(d, l, below) ==
    LET a == d.arrays[l.arrays]
        p == Probe(Hash[l.key], numIndices(a))
        filled(q) == a.indices[q] > 0
        meets(q) == a.indices[q] = Empty \/ (filled(q) /\ Full(a.items[a.indices[q]])
                                                       /\ Hash[a.items[a.indices[q]].key] = Hash[l.key])
        stops == {s \in l.step..Len(p) : meets(p[s])}
        at == p[Min(stops)]
        key == a.items[a.indices[at]].key
        frees == {s \in l.step..Min(stops) : ~filled(p[s])}
        free == IF l.free # None \/ frees = {} THEN l.free ELSE p[Min(frees)]
        passed == [l EXCEPT !.free = free]
    IN  CASE stops = {} -> Stop
          [] stops # {} /\ ~filled(at) ->
                IF l.op = "put" /\ d.firstEmpty > Len(a.items) THEN Stop
                ELSE Become(NotFound(d, passed), below)
          [] stops # {} /\ filled(at) /\ key = l.key -> FoundAt(d, l, at, below)
          [] stops # {} /\ filled(at) /\ key # l.key ->
                Become(d, Append(below, [passed EXCEPT !.step = Min(stops) + 1, !.with = key]))

MayUse(op) ==
    /\ ~stopped
    /\ calls # <<>> => op \in Nested /\ Len(calls) < MaxCalls

\* An operation that begins; the first dictAtPut allocates the arrays.
Begin(op, k, v) ==
    LET allocated == [State EXCEPT !.arrays = <<NewArrays(kInitialDictIndicesLength)>>]
        d == IF arrays = <<>> THEN allocated ELSE State
    IN  /\ MayUse(op)
        /\ op = "put" \/ numItems # 0
        /\ Continue(d, [op |-> op, key |-> k, value |-> v, arrays |-> Len(d.arrays),
                        step |-> 1, free |-> None, with |-> None], calls)

AtPut(k, v) == Begin("put", k, v)
At(k) == Begin("get", k, None)
Delete(k) == Begin("remove", k, None)

\* __eq__ returns whether the keys are equal.
EqReturns ==
    LET l == Last(calls)
        at == Probe(Hash[l.key], numIndices(arrays[l.arrays]))[l.step - 1]
    IN  /\ calls # <<>> /\ ~stopped
        /\ IF Class[l.with] = Class[l.key] THEN FoundAt(State, l, at, Front(calls))
           ELSE Continue(State, l, Front(calls))

EqRaises ==
    /\ calls # <<>> /\ ~stopped
    /\ Become(State, Front(calls))

\* dict.popitem(): the last item; its index is found without __eq__.
PopItem ==
    LET a == Last(arrays)
        i == Max({j \in 1..(firstEmpty - 1) : Full(a.items[j])})
        at == {p \in DOMAIN a.indices : a.indices[p] = i}
    IN  /\ MayUse("popitem")
        /\ numItems # 0
        /\ IF at = {} THEN Stop
           ELSE \E p \in at : Become([State EXCEPT
                    !.arrays[Len(arrays)] = [items |-> [a.items EXCEPT ![i] = Removed],
                                             indices |-> [a.indices EXCEPT ![p] = Tombstone]],
                    !.numItems = @ - 1], calls)

\* dictClear
Clear ==
    /\ MayUse("clear")
    /\ arrays # <<>>
    /\ Become([arrays |-> Append(Front(arrays), NewArrays(numIndices(Last(arrays)))),
               numItems |-> 0, firstEmpty |-> 1], calls)

Next ==
    \/ \E k \in Key, v \in Value : AtPut(k, v)
    \/ \E k \in Key : At(k) \/ Delete(k)
    \/ EqReturns
    \/ EqRaises
    \/ PopItem
    \/ Clear

Spec == Init /\ [][Next]_vars

-----------------------------------------------------------------------------
(* Properties *)

\* The DCHECK of dictEnsureCapacity: the items counted are the items there.
EntriesCounted == arrays # <<>> => Len(LiveItems(State)) = numItems

\* An item is found by the probe for its hash at its only index, before an empty
\* one; no other index is filled; no two keys are equal.
IndicesFindItems(a) ==
    LET full == {i \in DOMAIN a.items : Full(a.items[i])}
        filled == {p \in DOMAIN a.indices : a.indices[p] > 0}
    IN  /\ {a.indices[p] : p \in filled} = full
        /\ Cardinality(filled) = Cardinality(full)
        /\ \A i \in full :
              LET probe == Probe(Hash[a.items[i].key], numIndices(a))
                  at == SelectInSeq(probe, LAMBDA p : a.indices[p] = i)
              IN  \A s \in 1..at : a.indices[probe[s]] # Empty
        /\ \A i, j \in full : Class[a.items[i].key] = Class[a.items[j].key] => i = j

\* The structure of the dict through every insertion, removal and growth, also
\* while the __eq__ of a lookup runs: items and indices agree, an item is left
\* for the next insertion, and an empty index ends every probe.
WellFormed ==
    /\ ~stopped
    /\ Len(calls) <= MaxCalls
    /\ EntriesCounted
    /\ arrays # <<>> =>
        LET a == Last(arrays)
        IN  /\ IndicesFindItems(a)
            /\ firstEmpty \in 1..Len(a.items)
            /\ \A i \in DOMAIN a.items : a.items[i] = Unused <=> i >= firstEmpty
            /\ \E p \in DOMAIN a.indices : a.indices[p] = Empty

\* A dict is a map that remembers the order of insertion, through tombstones,
\* colliding hashes, growth and an __eq__ that raises.
Promised == INSTANCE OrderedDict WITH
    items <- IF arrays = <<>> THEN <<>> ELSE LiveItems(State)

ImplementsOrderedDict == Promised!Spec
=============================================================================
