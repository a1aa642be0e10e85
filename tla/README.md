# Skybison in TLA+

Formal models of the parts of the Skybison runtime (a Python runtime with a
moving garbage collector and a CPython-compatible C-API) whose correctness
depends on the order of steps: the collector and everything that holds a
pointer across one, the inline caches and what invalidates them, dicts whose keys
run code, signals, generators.  The models are translated from `src/runtime` and
`src/ext`; they are model-checked with TLC on small instances, and the safety
properties of the collector, of the tables of C-API handles, of the global caches,
of signals and of generators are proved with TLAPS for every instance.

## 1. The system

Skybison runs one bytecode interpreter over a managed heap.  Extension modules
in C see `PyObject*` values that are either *handles* (for managed objects) or
*native objects* (their own memory, with a managed half, the native proxy).

| Component | State | Operations | Talks to |
|---|---|---|---|
| Scavenger (`scavenger.cpp`) | from-space, to-space, immortal space, two gray lines, the list of delayed weakrefs | `scavenge`, `scavengeIntoImmortal`, the passes of `collect` | roots, C-API handles, extension objects (calls their visitors) |
| Collection driver (`runtime.cpp:1727`) | `callbacks_`, `finalizable_references_` | `collectGarbageInto`, `processCallbacks`, `processFinalizers` | Scavenger; user code, which may call it again |
| Weak references (`ref-builtins.cpp`, `objects.h`) | referent, callback, link | `weakref.__new__`, call | Scavenger clears the referent, driver runs the callback |
| C-API handles (`api-handle.cpp`) | the dictionaries `handles` and `caches`, the free list, reference counts with a borrowed bit | new, borrowed and stolen references, decref, cache, dispose | Scavenger (three visitors) |
| Extension objects (`extension-object.cpp`) | the list of tracked objects | initialize, track, queue, finalize, untrack | Scavenger, driver, `tp_dealloc` |
| Heap (`heap.cpp`, `space.cpp`) | two spaces | allocate, verify | starts a collection when full |
| Layouts (`layout.h`, `runtime.cpp`) | the layouts tuple, the transition triples | create, transition | weak roots of the Scavenger |
| Inline caches (`ic.cpp`) | caches in each function, dependency links in value cells | update, evict, invalidate | the links are weak references the Scavenger clears |
| Dict and set (`dict-builtins.cpp`) | sparse indices and dense items | lookup, insert, remove, iterate | user `__eq__` and `__hash__` in the middle of a probe |
| Interpreter, frames (`interpreter.cpp`) | frames, block stack, pending exception | opcodes | all of the above |
| Generators (`generator-builtins.cpp`) | saved frame, running flag | send, throw, close | interpreter |
| Signals, interrupts (`under-signal-module.cpp`, `thread.cpp`) | pending flags, interrupt flags, stack limit | handler, `handlePendingSignals` | interrupts the interpreter asynchronously |
| Threads, import lock (`under-thread-module.cpp`, `under-imp-module.cpp`) | thread list, lock holder and count | start, exit, acquire, release | a collection walks the thread list |
| Types and MRO (`type-builtins.cpp`, `mro.cpp`) | type attributes, MRO tuples | C3 merge, attribute update | inline caches |
| IO, builtin data types, JIT, compiler, C-API wrappers | | | |

What is hard in it:

- **Ordering inside a collection.**  `collect` is a sequence of passes (immortal
  space, roots, counted handles, extension objects, borrowed handles, delayed
  weakrefs, layouts) with a gray-object loop between them.  Each pass decides
  what is dead from what the earlier ones moved; each table outside the heap
  is rewritten by one of them, and holds old addresses until then.
- **Re-entrance.**  Weakref callbacks and `tp_dealloc` are user code run in the
  middle of draining a queue; they allocate, so they can start a collection that
  moves what the outer loop works on and appends to both queues.
- **Two notions of liveness.**  Managed code is traced, extension code counts;
  a borrowed handle has no count, and the runtime itself owns one count of each
  native object.
- **Immortal objects.**  They are never moved again, so that the collector's
  "has not been moved" means "is dead" only for mortal objects.
- **Caches without a check.**  A cached opcode does not look at the class or the
  module again; whoever changes one must find every cache that read it, through
  links that are shared by caches, cut by collections, and deleted when caches go.
- **User code inside an operation.**  `__eq__` inside a dict's probe, a method or
  getter between a lookup and the caching of its result, `throw()` of an iterator
  inside a generator's: each may change what the operation already read.
- **Asynchrony.**  Signal handlers between any two instructions; threads, which the
  runtime itself calls unsafe (`under-thread-module.cpp:63-72`).

What makes each part correct: for the collector, that nothing reachable is
lost, that nothing outside the heap keeps an old address, and that garbage goes;
for weakrefs, that they are cleared exactly when the referent goes, and that
each callback runs once; for handles, that a `PyObject*` in use stays valid and
unique, and an unused one is reclaimed; for extension objects, that `tp_dealloc`
runs once, on whole memory, and only when nobody holds the object; for layouts,
that the layout of every object is found; for inline caches, that a hit is what a
lookup would find; for a dict, that it is a map that remembers the order of
insertion; for signals, that each that arrives is handled; for generators, that
none is entered twice and that exceptions see the right exception state.
`PROJECT.json` lists the hazards with
their lines, and for each the properties that cover it or why none does yet.

## 2. Modules

```
Scavenger ------- MCScavenger ----- MCHeap, MCQueues, MCWeakRefImmortal, MCLastReference (.cfg)
    \------------ ScavengerProofs
ApiHandleDict --- HandleTables ---- MCHandleTables (.cfg)
    |                 | implements
    |             HandleMap
ApiHandleDictProofs --- HandleTablesProofs
InlineCache ----- MCInlineCache --- MCInlineCache, MCDiamond (.cfg)
    \------------ InlineCacheProofs
GlobalCache ----- MCGlobalCache --- MCGlobalCache (.cfg)
    \------------ GlobalCacheProofs
Dict ------------ MCDict ---------- MCDict, MCDictReentrant (.cfg)
  | implements
OrderedDict ----- DictProofs
Signals --------- SignalsProofs --- MCSignals (.cfg)
Generators ------ GeneratorsProofs  MCGenerators (.cfg)
```

### Scavenger

The heap, the collector, the C-API state it consults, and the two queues.

*Abstraction.*  An object is an identity, `space` says where it is, so moving is
changing the space.  What matters about addresses is kept: `fwd` is the set of
objects whose from-space copy forwards (`isWhiteObject` is "not in `fwd`", as in
the code, and therefore true of older immortal objects), and `stale[h]` are the
objects to which the out-of-heap holder `h` (roots, layouts tuple, handle
dictionary, cache dictionary, native objects) still has a pre-move address.
`refs` is the set of strong references of an object; order and multiplicity do not
matter to a collector.  Sizes and space exhaustion are abstracted to
"a collection may start whenever user code runs": it covers `gc.collect()`,
`gc.immortalize_heap()` and `Heap::allocateRetry`.

*Steps.*  User code is the actions of `Mutate`.  `CollectGarbageInto` starts a
collection; `phase` is the statement of `collect()` being executed.  The scans
are one object at a time (`ScanImmortalSpace`, `ProcessGrayImmortal`,
`ProcessGrayTo`); the scan pointer's order within a space is left open, but the
alternation of the two spaces is the code's, because it decides what becomes
immortal.  The visitors are one step each, with the whole of what they do.
`SwapSpaces` is the end of `scavenge()` up to the splice of the queue.  `frames`
are the activations of `collectGarbageInto()` that are past their collection,
each with the loop it is in and the weakref or proxy it holds in a
`HandleScope`: `DequeueCallback`, `CallbackReturns`, `CallbacksProcessed`,
`FinalizeExtensionObject`, `DeallocReleases`, `DeallocResurrects` and
`CollectGarbageReturns` are their steps.  User code runs again while an
activation holds an item, so that collections nest.  A failing `CHECK` in
`finalizeExtensionObject` is the phase `aborted`.

*Obligations of extension code* are guards: it releases only references it owns
(`Decref`), it reaches objects only from roots, from references it owns, or from
objects they reference (`Accessible`), and a `tp_dealloc` takes references to
its own object only through `tp_finalize`.  A borrowed reference is not a way to
reach an object: whether its handle survives is what is checked.

### ApiHandleDict, HandleTables, HandleMap

`ApiHandleDict` is the open-addressing dictionary as operators on a record with
the class's members: probing, tombstones, the dense arrays with holes,
growth, `rehash`.  `HandleTables` composes the two dictionaries of `CAPIState`
and the free list, whose last element is the frontier in the handle buffer; an
object is its address here, and which handles a collection frees and where
objects go is left open, since `Scavenger` decides it.  `HandleMap` is what the
tables promise: two maps, of which the collection drops or moves entries.
A collection's own rebuild of the dictionary sets `next_index_` and not
`num_items_` (`api-handle.cpp:557-562`), so the count of the handles stays
too high from then on; the properties hold in spite of it.

### InlineCache

The caches of attributes and operators.  `cell[t][n]` is the value
cell of a name in the dict of a class, a placeholder when a lookup only passed
there, with the list of functions linked to it (`None` after the function was
collected).  `caches[f][i]` are the entries of the `i`-th caching opcode of `f`:
none, one (monomorphic), or the slots of a polymorphic one.  `program` is
what runs: the opcodes of each function with the names they look up and the
layouts of the operands that reach them, and what may be stored in and deleted from
classes; a layout is a class and the instance attributes it has.  The opcodes are
attribute loads and stores, method calls, arithmetic, in-place and comparison
operators, subscripts, membership tests and iteration.  They differ in what they
look up (`Lookup`), in the lookups they depend on (`Reads`), and in when they call
user code.  `Load` is a miss (`loadAttrUpdateCache` and the other functions of the
interpreter that update caches): the lookup, and either at once or
after user code has returned (`Return`) the update of the cache and the insertion
of dependencies.  A hit changes nothing and is no step.  `SetAttribute` and
`DeleteAttribute` are `typeSetAttr` and `typeDeleteAttribute` with the whole
invalidation: `InvalidateAttr` visits the links of the cell, `IcIterator` the filled
entries of each function (as the code does it: it skips polymorphic `LOAD_ATTR`
caches and filled `STORE_SUBSCR` and `COMPARE_IN`, and reaches the mark of an emptied polymorphic cache), and
`EvictIfAffected` with `DeleteDependent` and `DeleteDependentToDefiningType`
evicts and unlinks.  An invalid cast of a dead link is the end of the process
(`crashed`); the coherence properties speak of the states before it.
MRO tuples are given (their computation is not modelled), and the builtin classes at
their ends, which cannot change, are left out of them.

### GlobalCache

Globals and module attributes.  `value[m][n]` and `dependents[m][n]` are the cell
of a name in a module and its links, `cache[f][n]` the module whose cell `f` caches
for `n`, `cachedLoads` and `cachedStores` the opcodes rewritten to their
`..._CACHED` form, `attr[f]` the module that a `LOAD_ATTR_MODULE` caches.  The
actions are the opcodes, `moduleAtPut` and `moduleRemove` from elsewhere, and the
collection of a function.

### Dict, OrderedDict

`arrays` is the pair of `data` and `indices` that the dict has, preceded by older
pairs that a lookup still uses; `calls` are the lookups whose `__eq__` is running,
each with the arrays it took when it began, where its probe is, and the first free
index it met.  `Begin` and `EqReturns` run a lookup to the next call of `__eq__` or
to its end, including what the operation then does; `EqRaises` abandons it.
`__eq__` may use the dict in the ways of `Nested`.  `OrderedDict` is the sequence
of items that a dict promises; the mapping is the items that an iterator would
see.

### Signals

The handler (`SignalArrives`) is enabled in every state.  The main thread's
functions are split where a signal makes a difference: `clearInterrupt` into the
read and write of the flags, their test and the change of the limit;
`handlePendingSignals` at each flag; `signal()` between the handler and the
callback.  `stack` holds the activations, callbacks among them, which may call
all of these again.  `overlooked` is a history variable that names the two
ways in which an interrupt of a signal is lost.

### Generators

A generator's code is arbitrary.  `pc`, `sub` and `try` are its saved frame (where
it is, the subiterator of a `YIELD_FROM`, whether a try block encloses it),
`running`, `prev` and `caught` the flags and links the runtime keeps; `stack` the
activations of bodies, delegated throws and closes, `next` the call to make or the
result to return.  Every C++ function between two pieces of user code is one
action, with its early returns and errors.  A stack without room raises, as
the interpreter does.  `next.lookup` marks an exception that the lookup of `throw`
raised in the subiterator of the generator that is being closed: it never came to the
generator's body.

## 3. Runs

All passing runs are exhaustive and keep deadlock checking on.

| Run | Instance | What it shows |
|---|---|---|
| `heap` | an object with 2 references, a code object and a user-defined layout; or 2 objects with handles and caches, counts to 2; or an object and 2 weakrefs; moving and immortalizing, nesting 2 | `NoDangling`, `NoStalePointer`, `LayoutKept`, `HandlesOK`, `BorrowedHandleKept`, `WeakRefClearedOnlyIfDead`, `GarbageReclaimed`, `TypeOK`, and the proofs' invariant `CollectorInvariant` |
| `queues` | 2 extension objects that may reference each other, or one with an object and a weakref, nesting 2, fairness | `FinalizerQueueOK`, `CallbackQueueOK`, `OnlyUnreferencedFinalized`, `CollectorInvariant`, `FinalizerEventuallyRun`, `CallbackEventuallyRun`, `CollectionEnds`, across resurrection and aborts |
| `handle_tables` | 3 colliding addresses, caches of 2, initial size 2, up to 8 indices, count up to 2 | `SpaceForOneMore`, `EntriesAreFound`, `HandlesPartitioned`, `CachesCounted`, `TypeOK`, and `ImplementsHandleMap` |
| `dict` | 4 keys: two equal, three of one hash, whose probe meets an index twice, the fourth with an earlier index; 4 indices growing to 8; `__eq__` reads or raises, 2 nested | `WellFormed`, `ImplementsOrderedDict` |
| `inline_caches` | classes A and B(A), polymorphic caches of 2, and one of three programs: a binary operation on 3 pairs of layouts, a method call, an attribute that is an instance variable, a property or a method; an in-place operation on 3 pairs, a binary one with the same selectors, a subscript; a comparison, stores to 3 layouts, an iteration | `CachesCoherent`, `DependentsTracked`, `WellFormed` |
| `global_caches` | 2 modules and the builtins, 2 readers, a writer, a module attribute | `GlobalsCoherent`, `CachedOpcodesFilled`, `ModuleAttributesCoherent`, `WellFormed` |
| `signals` | 2 signals, another interrupt, 2 nested calls, fairness | `NoSignalForgotten`, `PendingInterrupts`, `OnlyCallablesCalled`, `SignalHandled`, and the proof's invariant `Inductive` |
| `generators` | a generator, a coroutine, a user-defined iterator, 4 activations | `RunningMeansActive`, `CaughtStatesFollowStack`, `ClosedIsFinished` |

*Bounds of the collector.*  `MaxRefs` is the references stored in each object,
`MaxRefcnt` the references to one handle, `MaxDepth` the nested collections,
`Together` the sets of objects that may exist at the same time.  A tri-color
violation needs a black, a gray and a white object, one of them in the other
space: three objects.  An object's identity may be allocated again after it was
collected, so the number of objects in a behaviour is not bounded, only the
number alive at once; a behaviour passes from one of the sets of `Together` to
another when all is garbage.  A count of two tells the last reference from
another one, and for a native object the runtime's from extension code's.  Depth
two is an outer and an inner activation; a deeper one relates to the next as
the inner to the outer.  `heap` uses symmetry between the two objects with handles
and between the two weakrefs: no definition and no property tells them apart, and
none of the run's properties is a liveness property.

*Bounds of the tables.*  Handle tables start at two indices (the code: 256 and
128) with room for one entry, so that the first insertion grows them, and the
second too: with a count of two (`MaxItems`) and eight indices (`MaxIndices`)
growth, rehashing in place, tombstones, their reuse, and growth after the count
has drifted all occur.  Hashes are below 1024 there, so that the perturbation of the
probe is used up after two steps.  In `dict` three keys have the hash 33, which is used
up after two shifts (`kPerturbShifts = 2`; the code's 64 bits take 13): of 4 indices its
probe visits 1, 3, 0, 1, 2, 3, so that a lookup comes to an index again, and calls
`__eq__` for its key again, before it has seen all of them.  A dict
starts at 4 indices (the code: 8) with places for two items, so that the third
insertion, whatever was removed, grows it.  `dict` uses symmetry between the values,
which nothing tells apart.

*Bounds of the caches.*  Polymorphic caches have 2 entries (the code: 4), so that
three pairs of layouts overflow one.  Two classes give a base whose cells are shared
by two entries, and a placeholder below a definition.  One lookup at a time runs
user code (`MaxCalls`), which may load; it may not change a class in the passing
run (`UpdatesInCalls`, see the variants).  The three programs use only opcodes that
invalidation knows, store no `__setattr__` in a class, and delete no attribute that
instances have as well.  For globals, the program removes only bound globals
(`RemovesUnbound`), a name's index fits a byte (`kByteValues`), and no function both
reads and assigns the same global: the variants say what happens otherwise.

*Bounds of signals and generators.*  Two signals stand for one before and one after
the place the loop is at; `kProfile` stands for every other interrupt; no call is made
when two activations are there, so that a callback is interrupted by a second
one.  Four activations are two generators that delegate and throw into one another
and an iterator between them; a deeper stack raises `RecursionError`, as the
thread's does.

*Fairness* of `Scavenger` (`FairSpec`).  Collector and queue loops run to their end: they are
plain loops of the thread that has started the collection (weak fairness
of `Collect` and of `DrainQueues`).  For each depth, the user code at that depth
returns (strong fairness, as the collections it starts disable its return
meanwhile): liveness of the queues is promised only if callbacks and `tp_dealloc`
return.  It has to be stated for each depth: with one condition for all depths, a
callback that runs for ever would count as returning whenever one that it started
does.

*Fairness* of `Signals` (`FairSpec`).  The runtime's own steps go on (weak fairness
of `Step`).  A callback ends and plain code pushes frames, stated for each depth of
the stack: strong fairness, because signals and calls that the same code makes
disable these steps meanwhile.  Nothing makes a signal arrive.

*Mutants.*  Each property of each passing run has a mutated definition (a dropped
guard, a missing pass, a table not rehashed), kept beside the definition that it
mutates, under which the run fails.

### Disagreements between the code and what it says of itself

Each has a run in which TLC finds the counterexample.

| Run | Statement | What the code does |
|---|---|---|
| `weakref_immortal` | a referent is cleared when it is being collected (`objects.h:3054`) | a weakref to an older immortal object is cleared, its callback run |
| `last_reference` | the runtime holds the last reference at finalization (`extension-object.cpp:35`) | callbacks and other finalizers run in between, and can take one |
| `ic_diamond` | the dependencies deleted with a cache are gone (`ic.cpp:528`) | another entry of the function still needs them; a later update leaves it stale |
| `dict_reentrant` | the items found are those counted (`dict-builtins.cpp:358`) | a lookup whose `__eq__` made the dict grow writes to the old arrays and counts in the new one |

The cause of the first, that `isWhiteObject` is true of every object that an
earlier collection made immortal, concerns borrowed handles, extension objects
and layouts as well: `BorrowedHandleKept`, `OnlyUnreferencedFinalized` and
`LayoutKept` are stated for mortal objects, and say so.
`OnlyUnreferencedFinalized` has another qualification: `visitExtensionObjects`
visits and queues in one pass, so that a reference from one extension object to
another does not count against finalizing the latter.

### Variants

The constants of a module select more than its passing run does.  In these variants
TLC refutes a property; each shows what the bounds of the run above leave out.

| Module, variant | Refuted | What the code does |
|---|---|---|
| `Scavenger` as in `queues`, `CanImmortalize = TRUE` | `FinalizerQueueOK` | an extension object that was made immortal never forwards, so that a collection which begins while it is queued, or in its `tp_dealloc`, takes it for unvisited and queues it again (`scavenger.cpp:172-175`) |
| `Scavenger` with `CanImmortalize = FALSE`, a code object and an extension object | `FinalizerQueueOK` | every collection makes code objects immortal, with what they lead to: an extension object among their constants is queued twice in the same way |
| `HandleTables` as in `handle_tables` | `CountTellsWhatWasFreed` | `runtime.cpp:3614` takes the decrease of the count for the number of handles collected; the collection's rebuild does not lower the count |
| `InlineCache` as in `inline_caches` | `NoInvalidCast` | `ic.cpp:720` casts the referent of a dead link ; the invalidation of globals tests for it (`ic-test.cpp:1629`) |
| `InlineCache` as in `ic_diamond`, `Programs <- SiblingCalls` | `NoInvalidCast` | the iterator stops at a polymorphic cache whose entries were all evicted and reads its mark as an entry |
| `InlineCache`, `UpdatesInCalls = TRUE` | `CachesCoherent` | a method or getter that changes its class while it runs is cached afterwards as it was found |
| `InlineCache` as in `inline_caches`, `Programs <- ReflectedOfLeft` | `CachesCoherent` | the lookup of the reflected method compares it with that of the left operand (`interpreter.cpp:719`), but `insertBinaryOpDependencies` (`ic.cpp:284`) links no cell for that: when the left class gets the same method later, the cache goes on calling it where the lookup would find the operation unsupported |
| `InlineCache`, `Programs <- ItemStore` or `Membership` | `CachesCoherent` | a filled `STORE_SUBSCR` or `COMPARE_IN` is not among the opcodes of `isByteCodeWithCache` (`bytecode.h:369`): after an update of `__setitem__` or `__contains__` the old method is called for ever, although `ic.h:233` announces that caches are invalidated by an attribute update |
| `InlineCache`, `Programs <- StoreWithHook` | `CachesCoherent` | a store depends on the name it stores, not on `__setattr__`: the first `__setattr__` of a class is ignored by the stores already cached (`type-builtins.cpp:1060` ends the process only at an update of one that is there) |
| `InlineCache`, `Programs <- StoreThenDelete` | `CachesCoherent` | deleting a class attribute removes its cell with the links (`type-builtins.cpp:412`), but leaves the caches of instance variables: a property stored afterwards does not evict them. An attribute that the class never had does as well: the deletion raises, and removes the placeholder |
| `InlineCache` as in `inline_caches`, `Programs <- OffsetBesideMethod` | `CachesCoherent`, `DependentsTracked` | when a class replaces a method, `icEvictAttr` spares the function's entry for an instance variable of that name (`ic.cpp:516`), but evicting the method's own entry unlinks the function (`ic.cpp:531`): a property assigned later leaves the store stale, as in `ic_diamond` but with single inheritance |
| `GlobalCache`, one function that reads and assigns `x` (`ReadsX`, `AssignsX`) | `BuiltinsUntouched` | a load that finds the builtin also turns the `STORE_GLOBAL` of the function into a cached one (`ic.cpp:828`), whose target is then the builtin's cell |
| `GlobalCache`, three names, `kByteValues = 2` (`ReadsAll`) | `CachedOpcodesFilled` | the index of a name is narrowed to a byte (`ic.cpp:819`): the opcode of another name becomes the cached one |
| `GlobalCache`, `RemovesUnbound = TRUE` | `GlobalsCoherent` | deleting an unbound global raises, but removes the placeholder that announced a cached builtin |
| `Generators` as in `generators` | `FinishedForGood` | a finished generator whose saved frame has a try block runs its handler when something is thrown into it (`interpreter.cpp:6612`) |
| `Generators` as in `generators` | `ClosedIsAlwaysFinished` | what the lookup of `throw` in the subiterator raises is forwarded (`generator-builtins.cpp:82-91`) without entering the generator; a `GeneratorExit` or `StopIteration` among it is swallowed by `closeImpl` (177-180), which returns `None` with the generator still suspended at its `YIELD_FROM` |
| `Generators` as in `generators` | `SubiteratorStays` | while `throw` is looked up in an iterator, the generator that delegates to it can be resumed: the `DCHECK` at `generator-builtins.cpp:118` fails |

Seen while modelling, and left to the code's reviewers: `typeAtPut` returns before
it updates the type's flags when it invalidates a cell
(`type-builtins.cpp:289-294`); `closeImpl` does not close a
subiterator (`TODO` at `generator-builtins.cpp:79`); a `StopIteration` thrown into
a generator that does not catch it is not converted (`interpreter.cpp:6644`); a
dict that is only emptied and refilled doubles for ever
(`TODO(T44247845)`), and its growth moves the items under an iterator's index.

## 4. Proofs

The theorems hold for every value of the constants that the `ASSUME`s of the
modules allow: finitely many objects, functions and names where the proofs count
them, disjoint kinds, and nothing about sizes, counts, depths or graphs.  Only the handle
tables have bounds in their assumptions: a hash is below 1024 and a table has at most 64
indices, so that the perturbation is used up after two steps and the sizes are a finite
set to compute with; the number of objects and of operations has none.  A hash of `Dict`
is any number that `kPerturbShifts` shifts exhaust, and `kPerturbShifts` any number: for 13
these are the 64-bit words of the code (2^64 < 32^13), and every number has its own
(`ShiftsExhaust`).  The sizes of a dict have no bound but `MaxIndices`, which is any number.

| Module | Theorem | States |
|---|---|---|
| `ScavengerProofs` | `TypeCorrect` | `[]TypeOK` |
| | `InductiveInvariant` | `[]Inductive` |
| | `HeapVerifies` | `[]NoDangling`, the "Heap failed to verify" `DCHECK` extended to what lies outside the heap |
| | `PointersUpdated` | `[]NoStalePointer` |
| | `HandlesCorrect` | `[]HandlesOK` |
| | `CollectorCorrect` | `[]CollectorInvariant` |
| | `LayoutsKept`, `CallbacksQueuedOnce` | `[]LayoutKept`, `[]CallbackQueueOK` |
| | `FinalizedOnce` | `[]FinalizerQueueOK`, as long as what is queued is mortal |
| | `FinalizedOnceUnlessConstant` | `[]FinalizerQueueOK`, if only code objects are made immortal and none of them leads to an extension object |
| | `ClearedOnlyIfDead`, `BorrowedHandlesKept`, `FinalizedOnlyIfUnreferenced`, `GarbageIsReclaimed` | the four action properties of a collection: what it clears, frees and queues is dead, what survives is alive |
| `SignalsProofs` | `InductiveInvariant` | `[]Inductive` |
| | `SignalsNotForgotten`, `InterruptsDelivered`, `CallablesCalled` | `[]NoSignalForgotten`, `[]PendingInterrupts`, `OnlyCallablesCalled`, each with the exceptions that it names |
| | `InterruptsNotLost` | `PendingInterrupts` without exception, if there are no other interrupts and no callback raises |
| | `CallablesAlwaysCalled` | `OnlyCallablesCalled` without exception, if the program never installs `SIG_DFL` |
| `GeneratorsProofs` | `InductiveInvariant` | `[]Inductive` |
| | `RunningIsActive`, `ExceptionStatesNested`, `CloseFinishes` | `[]RunningMeansActive`, `[]CaughtStatesFollowStack`, `[]ClosedIsFinished` |
| | `CloseFinishesGenerators` | `[]ClosedIsAlwaysFinished`, if generators delegate to generators and coroutines only |
| `GlobalCacheProofs` | `TypeCorrect` | `[]TypeOK` |
| | `CachesWellFormed`, `GlobalsStayCoherent`, `ModuleAttributesStayCoherent` | `[]WellFormed`, `[]GlobalsCoherent`, `[]ModuleAttributesCoherent`, if only bound globals are deleted |
| | `CachedOpcodesStayFilled` | `[]CachedOpcodesFilled`, if the names of a function fit a byte |
| `InlineCacheProofs` | `LinksAndCachesWellFormed` | `[]WellFormed`, for every hierarchy, program and size of a polymorphic cache |
| | `MethodDependentsTracked` | `[]DependentsTracked`, for single inheritance and opcodes that cache methods only |
| | `MethodCachesCoherent` | `[]CachesCoherent`, if moreover methods do not update classes while they run and no left operand gets a swapped selector unnoticed |
| `HandleTablesProofs` | `Invariant` | `[]IInv` |
| | `TablesTyped`, `RoomIsKept`, `IterationAndLookupAgree` | `[]TypeOK`, `[]SpaceForOneMore`, `[]EntriesAreFound`, for every hash below 1024 and up to 64 indices |
| | `HandlesAreSharedOut`, `CachesAreCounted` | `[]HandlesPartitioned`, `[]CachesCounted` |
| | `HandleMapImplemented` | `ImplementsHandleMap`: the tables implement `HandleMap` |
| `DictProofs` | `ProbeVisits` | a probe comes to every index, whatever the hash, the shifts that it takes and the size |
| | `DictWellFormed` | `[]WellFormed`, if an `__eq__` only looks keys up or raises |
| | `DictImplementsOrderedDict` | `ImplementsOrderedDict`: the dict implements `OrderedDict`, under the same hypothesis |

*Hypotheses.*  Several results are false without theirs, and a variant above shows it:
an immortal extension object is queued twice (`QueuedAreMortal` of `FinalizedOnce`);
the deletion of an unbound global removes a placeholder (`~RemovesUnbound`); an
index is narrowed to a byte (`FewNames`).  Ordinary runs satisfy them, and the passing
runs are instances of them.  `FinalizedOnceUnlessConstant` names what makes
`QueuedAreMortal` true: no `gc.immortalize_heap()`, and a set `Constants` of objects, with
the code objects and without an extension object, that no reference leaves
(`Closed(Constants)`, assumed of the behaviour: the program does not store an extension
object where a code object leads).  `InterruptsNotLost` and
`CallablesAlwaysCalled` exclude what the exceptions of `PendingInterrupts` and
`OnlyCallablesCalled` are about (`Kinds = {}`, no `CallbackRaises`; `Default \notin
Installable`), and `CloseFinishesGenerators` the iterators whose `throw` is looked up by
running code (`Iter = {}`).  For `InlineCache` each
hypothesis answers to a variant: `SingleInheritance` to `ic_diamond`,
`~UpdatesInCalls` to the update from a running method, `PlainProgram` to
`ReflectedOfLeft`, and `MethodProgram` leaves out `STORE_SUBSCR` and `COMPARE_IN`
(`ItemStore`, `Membership`) and the caches of instance variables (`StoreWithHook`,
`StoreThenDelete`, `OffsetBesideMethod`).  The program `InplaceOperations` of `inline_caches` satisfies all of
them; the run also checks programs with `LOAD_ATTR` and `STORE_ATTR`, which the
theorems do not reach.  `Lookups` of `DictProofs` says that an `__eq__` may look keys up
in the dict that calls it, to any depth, or raise (`Nested \subseteq {"get"}`): one that
inserts, removes or clears leaves the outer lookup with indices or items that the dict has
no longer, and `dict_reentrant` refutes `WellFormed` for it.  The run `dict` is an instance.

*Scavenger: the heap.*  `NoDangling` speaks of states in which user code runs, and
says nothing of a collection in progress; it is not inductive.  `Inductive` is
four parts.  `ClosedHeap`: every pointer is to an object that exists, in
whichever space.  `TriColor`: an object that was moved and is not gray has no
reference to one that was not moved, but for weakrefs in the delayed list.
`PhaseOK`: what each pass leaves done for the later ones (after the roots' pass the
roots are moved, and so on), and that at the passes between two gray loops
nothing is gray.  `StaleOK`: a holder has stale pointers only until its pass.
At `SwapSpaces` nothing is gray, nothing delayed and every holder done, so what
exists afterwards is closed: `NoDangling`.  Steps of user code disturb only
`ClosedHeap` (`MutateInductive`, by `AccessibleExists`: what code can reach
exists); steps of the collector all go through `Scavenge`, whose effect is in
the lemmas `Scavenged`, `ScavengeInductive` and `GrayRoots`.

*Scavenger: what a collection keeps and gives up.*  `CollectorInvariant` adds four
parts to `Inductive`.  `MovedOK`: counted handles are moved next to the roots, and
to-space holds only what forwards.  `LayoutsOK`: the layout of a mortal object has an
entry, and was moved with it.  `HeldCleared`: the weakref whose callback runs is
cleared.  `Justified`: whatever this collection moved is in every set that has the
sources of the collection and is closed under what its members point to, that is,
reachable through objects that were moved; a step that moves more has moved the
object that points to it (`MovedIsJustified`).  The other direction, that what the
sources reach is moved, is `TriColor` when nothing is gray (`ReachableIsKept`).  The
two enclose the survivors: a weakref is cleared, a handle dropped and an extension
object queued only for an object that the closure does not hold, and nothing but the
closure is left at the end.  `MayKeep` follows references and layouts from the
sources that the code has, extension objects and immortal objects among them.

*Signals.*  `NoSignalForgotten` is inductive with the shapes of the stack
(`SetCallbackOnTop`, `ClearingLooks`), with the agreement of the two tables of
handlers outside `signal()` (`TablesAgree`), and with `InterruptKept`, from which
`PendingInterrupts` follows: whoever took the flag is about to look at the signals.

*Generators.*  That the running flag is right needs that the stack and the next call
fit: what `next` calls was tested (`AwaitedIsCalled`), a waiting activation is below the
one it waits for (`AwaitedIsAbove`), a lookup of `throw` is below the activations that
it made (`LookupBelowActivations`).  For the exception states, `StateBelow` is shown to
depend on what is below a place of the stack only, to be the generator's own above a
body, and to pass through every other activation.  Then each way to change the stack
(`Push`, `Pop`, `Replace`, `Enter`, `Leave`) has its lemmas, and each action cites one.  The
invariant `Inductive` is not listed in `generators`, where TLC passes it too.

*GlobalCache.*  Every action is a composition of operators on records of the state
(`UpdateGlobalVar`, `InvalidateGlobalVar`, `ModuleAtPut`, `ModuleRemove`, `InsertDependent`),
each with lemmas on its effect and on what it keeps.
`Sound` is `WellFormed` of such a record: a cached cell has a value and a link to the
function, and a cached builtin has a placeholder in the module of the function.  `GlobalsCoherent` and `ModuleAttributesCoherent` follow.

*InlineCache.*  `LinkedOnce` needs the whole of the dependency code: a function is
put in the place of the first dead link only after the search has passed all links
(`LinkAdded`), dead links are removed at any length of the list
(`RemoveDeadWeakLinksOf`), one link is removed where a cache is evicted
(`RemoveFirstOf`).  `IInv` adds that the entries and the pending lookups belong to
opcodes of the program.  An invalidation is four loops inside each other; each
keeps the set `States` of well-formed caches and cells, whatever the classes and
the entries that it visits (`EvictIfAffectedOf`, `EvictCacheOf`, `InvalidateAttrOf`),
also when it ends the process.

`DependentsTracked` is the harder half of coherence, for an eviction removes links that
other entries may need.  `TInv` says that every entry is `Tracked`, and `Present` that a
link is never in a cell without a value or placeholder, so that a tracked lookup gets
to each class that it reads through placeholders, which is the very condition under
which an update is taken to affect it (`TrackedPlaceholders`).  Within an invalidation
this holds but for the entries that the update shadows and that the walk has not come to
(`OthersTracked`).  `UnlinkKeeps` is where single inheritance enters: two lookups that
pass through the same class go the same way from there, so that an entry which reads a
class whose link is removed reads the updated class as well, and is shadowed.
`DefiningTypeStep` shows that the other lookups of an evicted entry are unlinked
below the first class that some entry needs.  `WalkStep`, `LinksStep` and
`InvalidateClears` carry this through the loops: at the end every entry that is left is
tracked and not shadowed (`Cleared`).  Coherence then needs no more of an invalidation:
an entry that is left does not read the cell that changed (`UnshadowedAvoids`), and a
lookup that does not read what changed comes to the same end (`LookupUnread`,
`ChangeUnread`).  A lookup that waits for its method stays current because nothing
updates a class meanwhile (`CallsCurrent`).

*The handles' dictionary.*  `ApiHandleDictProofs` holds the lemmas about the operators of
`ApiHandleDict`.  The library's induction theorems take an operator as a parameter,
which the provers cannot instantiate; `SetInduction` is an induction over a set of
numbers, proved from `NatLessThanWellFounded` and `WFMin`, and `FiniteRecursion` the
existence of the function that a bounded recursion defines.  The rest is in four
layers.

- *The probe visits every index* (`ProbeVisits`).  After two steps the perturbation
  is zero and a step is x -> 5x + 1 mod n.  `Jumps` composes steps by doubling: 2, 4, ...
  64 of them are one affine map mod 128, which shifts an index by half the size that it
  doubles.  `CoversTwice` then takes a covering of n indices to one of 2n.
- *A well-linked dictionary is a map.*  `Intact` is `Fields` (the sizes of the arrays),
  `Linked` (the index at which the lookup of an entry's key stops is that of the
  entry, and every index that is not negative is that of an entry), and that the indices
  which are not empty are not more than the dense places given out.  So an index is
  empty (`EmptyIndex`), a lookup ends, and finds the entry if there is one
  (`LookupOf`); `MapOf` relates `items` to `at`.
- *What an operation does to the map*: `InsertedOf`, `RemovedOf`, `ReinsertedMap` (the
  loop that `rehash` and a collection share: `FillOne` for one entry, `FilledAll` by
  induction), `GrownOf`, `FollowedOf`.
- *Room.*  `Ready` adds to `Intact` that a dense place is free, and the bound that makes
  this inductive: num_items is at least the number of entries and less than
  next_index plus the capacity.  `growthFactor()` and the capacity that a collection
  chooses go by num_items, which after a collection counts more than there is; the
  bound is what shows that the table which they choose has room (`GrownOf`,
  `RoomForCount`): with num_items below the number of entries, `grow()` could keep the
  size of a full table; with one far above it, twice the size would be too small for
  the next_index that `rehash` takes from it.

*HandleTables.*  `IInv` says that both dictionaries are `Ready`; that the caches are
counted, and have keys among the handles' only; `Shares`, which is `HandlesPartitioned`
without cardinalities; and that the frontier is at most the number of objects, for
then a new handle is one of `0..Cardinality(Key)`, the handles of `HandleMap`.
`NewReferenceMaps`, `SetCacheMaps`, `DisposeMaps` and `CollectMaps` say what each action
does to the two maps and to the sharing.  In a collection the loops over the dead
handles are inductions (`FreedHandles`, `DroppedCaches`), after which the
maps have moved (`Moved`).  The refinement follows action by action; in `CollectRefines` an object's
origin is found by its handle, which is no other object's (`OriginsFollowed`).

*Dict: the probe.*  Neither the hash of a dict's item nor the size is bounded, so
there is no finite set of sizes to compute with.  `Size(n)` says that n is in every set
that has 2 and the double of each of its members: an induction over doubling that needs no
exponents.  The hash perturbs the first `kPerturbShifts` steps at most (`PerturbVanishes`),
wherever they lead to.  From there on the probe is x -> 5x + 1, and `Generated` is that
without remainders, from any number.  `OddJump` says that
n steps of it multiply by 4c + 1 and add c, for an odd multiple c of n; it holds for 1 and
passes from n to 2n (`OddJumpTwice`), and an odd multiple of n exchanges the two halves
of the remainders of 2n, so that the first 2n members have all of them when the first n have
all of n (`CoversTwice`).  `ProbeVisits` is the case of n indices: the n steps after the
perturbation come to all of them, so that `Steps(n)` are enough for any lookup.

*Dict: the arrays.*  `WellFormed` says where the entries are, but not enough of where a
lookup that waits for its `__eq__` stands.  `DictInv` has four parts.  `Intact`: the
sizes (`Fields`); every item has one index, which its own probe comes to before an empty one
(`Linked`, `Reached`); no two items have equal keys (`Distinct`); and the indices that
are not empty, tombstones included, are no more than the places given out, of which there
are fewer than indices, so that an empty one is left (`EmptyIndex`).  `Asking`, for each
lookup whose `__eq__` runs: what it has passed holds no key equal to its own
(`Passed`), its first free index is one it passed, and the item it asks about is still at
its index.  That at most the lowest of these lookups is one that writes (`Asked`), which is
what `Lookups` gives.  And that the arrays are the only ones: nobody has older ones.
`ContinueOf` shows that a lookup then ends at the item if there is one, at a place for a new
one if there is none, or waits again (`Outcome`); `InsertedOf`, `ValueOf`,
`RemovedOf` that each end keeps the arrays `Intact`; `GrownOf`, that the growth does: it
is a repeated insertion into indices without tombstones (`FillOne`, by induction
`FilledAll`), after which no lookup is left that knew the old arrays.

*Dict: the list.*  The items that an iterator sees are the full ones in the order of
their places.  `Ordered` enumerates a set of numbers in their order, and `OrderedOnly` says that
nothing else is an enumeration in order; so what an operation does to the set of full
places says what it does to the list: a new last place appends (`OrderedAdd`), a place
that goes shifts the later ones (`OrderedLess`), growth renumbers the places and changes
nothing.  `InsertedList`, `ValueList`, `RemovedList` and `PoppedList` are these, and
`FindOne` and `FindNone` relate the key in the list to the place that the lookup found.
`NextLeads` has both results for each action: the invariant holds again, and the list takes a
step of `OrderedDict` or stays.

*Model-checked only.*  Liveness (`FinalizerEventuallyRun`, `CallbackEventuallyRun`,
`CollectionEnds`, `SignalHandled`), which is out of the prover's reach with its
fairness.  `CachesCoherent` and `DependentsTracked` of `InlineCache` for programs with
`LOAD_ATTR` and `STORE_ATTR` (their caches go stale in the variants `StoreWithHook`,
`StoreThenDelete` and `OffsetBesideMethod`, so that a theorem needs hypotheses on the history of
updates, and on which opcodes of a function read the same name) and, for `DependentsTracked`, for multiple inheritance.

## 5. Not modelled, and the plan

The collector: the pass over the layout transition triples, object sizes and
heap exhaustion, weakref subclasses.  Several threads: the runtime refuses a second
one without an opt-in and calls itself not thread-safe, so that the import lock and
the thread list have one user; their interleavings would be those of undefined
behaviour.  Extension objects: `PyObject_Realloc` and re-initialization of memory
from a free list.  Handles: immediate handles, which have no state, and the disposal
of everything at shutdown.  Caches: type construction, slot descriptors, and attributes
of types and `super`.  Dicts: iterators, `update`, merging; sets.  Classes: the
computation of the MRO and type flags.  Buffered and text IO, most of which is
Python code of the library.  Outside the scope altogether: the other opcodes,
builtin data types (sequential functions of their arguments), the JIT (instruction
encoding), the compiler and the library (Python programs), vendored code.

What remains to be proved: `DependentsTracked` and `CachesCoherent` for attribute
loads and stores; `CachesCoherent` for hierarchies with several bases, with a condition on
the program in place of `SingleInheritance`.

Checking: `tlc -config MCHeap.cfg MCScavenger` and so on (`PROJECT.json` names
module and configuration of every run), `tlapm ScavengerProofs.tla` and the
other modules of proofs (those of the collector take some minutes).
