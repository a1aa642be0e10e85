---------------------------- MODULE GlobalCache ----------------------------
(***************************************************************************)
(* The caches of global variables and of module attributes (runtime/ic.cpp,*)
(* runtime/module-builtins.cpp).                                           *)
(*                                                                         *)
(* LOAD_GLOBAL caches the value cell it found, in the module of the        *)
(* function or in the builtins module, and turns itself into               *)
(* LOAD_GLOBAL_CACHED, which no longer looks anything up.  A placeholder in *)
(* the module tells that one of its functions caches the builtin of that   *)
(* name; a definition in its place invalidates the cell of the builtin.    *)
(***************************************************************************)
EXTENDS Integers, Sequences, FiniteSets, SequencesExt

CONSTANTS
    None,
    UserModule,       \* the modules of the program
    Builtins,         \* the module that is their __builtins__
    Name,
    Fun,
    ModuleOf,         \* ModuleOf[f]: the module of f
    NameIndex,        \* NameIndex[f][n]: the index of n in the names of f
    Loads,            \* Loads[f]: names that f reads with LOAD_GLOBAL
    Stores,           \* Stores[f]: names that f writes with STORE_GLOBAL
    AttrName,         \* AttrName[f]: the name of an attribute that f reads of
                      \* some module, or None
    Value,
    InitialBuiltin,   \* the value of the builtins at the start
    Droppable,        \* functions the program may drop
    RemovesUnbound,   \* may the program remove a name that is not bound?
    kByteValues       \* number of values of a byte

Module == UserModule \cup {Builtins}

\* A value cell without a value, no cell at all, and a cell that was removed
\* from its module.
Placeholder == "placeholder"
Absent == "absent"
Detached == "detached"

ASSUME ConstantsOK ==
    /\ Builtins \notin UserModule
    /\ ModuleOf \in [Fun -> UserModule]
    /\ NameIndex \in [Fun -> [Name -> Nat]]
    /\ \A f \in Fun : Loads[f] \cup Stores[f] \subseteq Name
    /\ AttrName \in [Fun -> Name \cup {None}]
    /\ InitialBuiltin \in Value
    /\ {Placeholder, Absent} \cap Value = {}
    /\ {None, Detached} \cap Module = {} /\ None # Detached
    /\ None \notin Fun /\ Droppable \subseteq Fun
    /\ RemovesUnbound \in BOOLEAN
    /\ kByteValues \in Nat \ {0}

VARIABLES
    value,         \* value[m][n]: the cell of n in the dict of m
    dependents,    \* dependents[m][n]: the functions linked to that cell
    cache,         \* cache[f][n]: the module of the cell that f caches for n
    attr,          \* attr[f]: the module of the cell cached for AttrName[f]
    cachedLoads,   \* cachedLoads[f]: names whose LOAD_GLOBAL is ..._CACHED
    cachedStores,  \* cachedStores[f]: names whose STORE_GLOBAL is ..._CACHED
    live           \* the functions that are not collected

vars == <<value, dependents, cache, attr, cachedLoads, cachedStores, live>>

Init ==
    /\ value = [m \in Module |-> [n \in Name |->
                    IF m = Builtins THEN InitialBuiltin ELSE Absent]]
    /\ dependents = [m \in Module |-> [n \in Name |-> <<>>]]
    /\ cache = [f \in Fun |-> [n \in Name |-> None]]
    /\ attr = [f \in Fun |-> None]
    /\ cachedLoads = [f \in Fun |-> {}]
    /\ cachedStores = [f \in Fun |-> {}]
    /\ live = Fun

-----------------------------------------------------------------------------
(* Operations on the state st of cells and caches *)

State == [value |-> value, dependents |-> dependents, cache |-> cache, attr |-> attr,
          loads |-> cachedLoads, stores |-> cachedStores]

Become(st) ==
    /\ value' = st.value
    /\ dependents' = st.dependents
    /\ cache' = st.cache
    /\ attr' = st.attr
    /\ cachedLoads' = st.loads
    /\ cachedStores' = st.stores

\* Entry n of entry m of a table.
Put(table, m, n, entry) == [table EXCEPT ![m] = [@ EXCEPT ![n] = entry]]

\* The cell that the name stands for in a function of module m.
LookupGlobal(m, n) ==
    IF value[m][n] \in Value THEN m
    ELSE IF value[Builtins][n] \in Value THEN Builtins ELSE None

\* icUpdateGlobalVar: f caches the cell of n in m.  The opcodes of f with that
\* argument change, whatever cell it is; the index is narrowed to a byte.
UpdateGlobalVar(st, f, n, m) ==
    LET argument == NameIndex[f][n] % kByteValues
        hits == {k \in Name : NameIndex[f][k] = argument}
    IN  IF st.cache[f][n] # None THEN st
        ELSE [value |-> st.value,
              dependents |-> Put(st.dependents, m, n, <<f>> \o st.dependents[m][n]),
              cache |-> Put(st.cache, f, n, m),
              attr |-> st.attr,
              loads |-> [st.loads EXCEPT ![f] = @ \cup (hits \cap Loads[f])],
              stores |-> [st.stores EXCEPT ![f] = @ \cup (hits \cap Stores[f])]]

\* The functions linked to the cell of n in m, except those collected, and those
\* of them that cache it for a global variable or for an attribute.
Linked(st, m, n) == Range(st.dependents[m][n]) \ {None}
ForgetsGlobal(st, f, m, n) == f \in Linked(st, m, n) /\ st.cache[f][n] = m
ForgetsAttr(st, f, m, n) == f \in Linked(st, m, n) /\ AttrName[f] = n /\ st.attr[f] = m

\* Mutants of InvalidateGlobalVar: STORE_GLOBAL_CACHED stays; an attribute
\* cached by module id stays.
InvalidateLoadsOnly(st, m, n) ==
    [value |-> st.value,
     dependents |-> Put(st.dependents, m, n, <<>>),
     cache |-> [f \in Fun |-> IF ForgetsGlobal(st, f, m, n) THEN [st.cache[f] EXCEPT ![n] = None]
                             ELSE st.cache[f]],
     attr |-> [f \in Fun |-> IF ForgetsAttr(st, f, m, n) THEN None ELSE st.attr[f]],
     loads |-> [f \in Fun |-> IF ForgetsGlobal(st, f, m, n) THEN st.loads[f] \ {n}
                             ELSE st.loads[f]],
     stores |-> st.stores]

InvalidateGlobalsOnly(st, m, n) ==
    [value |-> st.value,
     dependents |-> Put(st.dependents, m, n, <<>>),
     cache |-> [f \in Fun |-> IF ForgetsGlobal(st, f, m, n) THEN [st.cache[f] EXCEPT ![n] = None]
                             ELSE st.cache[f]],
     attr |-> st.attr,
     loads |-> [f \in Fun |-> IF ForgetsGlobal(st, f, m, n) THEN st.loads[f] \ {n}
                             ELSE st.loads[f]],
     stores |-> [f \in Fun |-> IF ForgetsGlobal(st, f, m, n) THEN st.stores[f] \ {n}
                              ELSE st.stores[f]]]

\* icInvalidateGlobalVar: who is linked to the cell of n in m forgets it; the
\* opcodes become plain; no link remains.
InvalidateGlobalVar(st, m, n) ==
    [value |-> st.value,
     dependents |-> Put(st.dependents, m, n, <<>>),
     cache |-> [f \in Fun |-> IF ForgetsGlobal(st, f, m, n) THEN [st.cache[f] EXCEPT ![n] = None]
                             ELSE st.cache[f]],
     attr |-> [f \in Fun |-> IF ForgetsAttr(st, f, m, n) THEN None ELSE st.attr[f]],
     loads |-> [f \in Fun |-> IF ForgetsGlobal(st, f, m, n) THEN st.loads[f] \ {n}
                             ELSE st.loads[f]],
     stores |-> [f \in Fun |-> IF ForgetsGlobal(st, f, m, n) THEN st.stores[f] \ {n}
                              ELSE st.stores[f]]]

\* Mutant of ModuleAtPut: a placeholder is filled like any other cell.
ModuleAtPutQuietly(st, m, n, v) == [st EXCEPT !.value = Put(@, m, n, v)]

\* moduleValueCellAtPut: in the place of a placeholder, the caches of the
\* builtin with this name are invalid.
ModuleAtPut(st, m, n, v) ==
    LET shadowed == m # Builtins /\ st.value[m][n] = Placeholder /\ st.value[Builtins][n] \in Value
        invalidated == IF shadowed THEN InvalidateGlobalVar(st, Builtins, n) ELSE st
    IN  [invalidated EXCEPT !.value = Put(@, m, n, v)]

\* moduleRemove: caches left behind hold a cell of no module.
ModuleRemove(st, m, n) ==
    LET invalidated == InvalidateGlobalVar(st, m, n)
        detach(x) == IF x = m THEN Detached ELSE x
    IN  [value |-> Put(st.value, m, n, Absent),
         dependents |-> invalidated.dependents,
         cache |-> [f \in Fun |-> [invalidated.cache[f] EXCEPT ![n] = detach(@)]],
         attr |-> [f \in Fun |-> IF AttrName[f] = n THEN detach(invalidated.attr[f])
                                ELSE invalidated.attr[f]],
         loads |-> invalidated.loads,
         stores |-> invalidated.stores]

\* Mutant of InsertDependent: the first link is taken for a dead one.
InsertDependentOverwrites(links, f) ==
    IF f \in Range(links) THEN links
    ELSE IF links # <<>> THEN [links EXCEPT ![1] = f]
    ELSE <<f>>

\* icInsertDependentToValueCellDependencyLink
InsertDependent(links, f) ==
    LET dead == SelectInSeq(links, LAMBDA g : g = None)
    IN  IF f \in Range(links) THEN links
        ELSE IF dead # 0 THEN [links EXCEPT ![dead] = f]
        ELSE <<f>> \o links

-----------------------------------------------------------------------------
(* The program *)

\* doLoadGlobal; the placeholder tells the module that a builtin is cached.
LoadGlobal(f, n) ==
    LET m == LookupGlobal(ModuleOf[f], n)
        st == UpdateGlobalVar(State, f, n, m)
    IN  /\ f \in live /\ n \in Loads[f] \ cachedLoads[f]
        /\ m # None
        /\ Become(IF m = Builtins THEN [st EXCEPT !.value = Put(@, ModuleOf[f], n, Placeholder)]
                  ELSE st)
        /\ UNCHANGED live

\* doStoreGlobal
StoreGlobal(f, n, v) ==
    /\ f \in live /\ n \in Stores[f] \ cachedStores[f]
    /\ Become(UpdateGlobalVar(ModuleAtPut(State, ModuleOf[f], n, v), f, n, ModuleOf[f]))
    /\ UNCHANGED live

\* doStoreGlobalCached: the cached cell is set, without a look at its module.
StoreGlobalCached(f, n, v) ==
    /\ f \in live /\ n \in cachedStores[f]
    /\ cache[f][n] \in Module
    /\ Become([State EXCEPT !.value = Put(@, cache[f][n], n, v)])
    /\ UNCHANGED live

\* doLoadAttrModule: an attribute of module m.  A miss empties the cache first.
LoadAttrModule(f, m) ==
    LET n == AttrName[f]
    IN  /\ f \in live /\ n # None /\ attr[f] # m
        /\ attr' = [attr EXCEPT ![f] = IF value[m][n] \in Value THEN m ELSE None]
        /\ dependents' = IF value[m][n] \in Value
                         THEN Put(dependents, m, n, InsertDependent(dependents[m][n], f))
                         ELSE dependents
        /\ UNCHANGED <<value, cache, cachedLoads, cachedStores, live>>

\* moduleAtPut from elsewhere, m.n = v
SetModuleAttribute(m, n, v) ==
    /\ Become(ModuleAtPut(State, m, n, v))
    /\ UNCHANGED live

\* DELETE_GLOBAL, del m.n: a placeholder goes as well, although this raises.
RemoveModuleAttribute(m, n) ==
    /\ value[m][n] \in Value \/ (RemovesUnbound /\ value[m][n] = Placeholder)
    /\ Become(ModuleRemove(State, m, n))
    /\ UNCHANGED live

\* The collector clears the links to a function that it reclaims.
CollectFunction(f) ==
    /\ f \in live
    /\ live' = live \ {f}
    /\ dependents' = [m \in Module |-> [n \in Name |->
                        [k \in DOMAIN dependents[m][n] |->
                            IF dependents[m][n][k] = f THEN None ELSE dependents[m][n][k]]]]
    /\ cache' = [cache EXCEPT ![f] = [n \in Name |-> None]]
    /\ attr' = [attr EXCEPT ![f] = None]
    /\ cachedLoads' = [cachedLoads EXCEPT ![f] = {}]
    /\ cachedStores' = [cachedStores EXCEPT ![f] = {}]
    /\ UNCHANGED value

Next ==
    \/ \E f \in Fun, n \in Name : LoadGlobal(f, n)
    \/ \E f \in Fun, n \in Name, v \in Value : StoreGlobal(f, n, v)
    \/ \E f \in Fun, n \in Name, v \in Value : StoreGlobalCached(f, n, v)
    \/ \E f \in Fun, m \in Module : LoadAttrModule(f, m)
    \/ \E m \in Module, n \in Name, v \in Value : SetModuleAttribute(m, n, v)
    \/ \E m \in Module, n \in Name : RemoveModuleAttribute(m, n)
    \/ \E f \in Droppable : CollectFunction(f)

Spec == Init /\ [][Next]_vars

-----------------------------------------------------------------------------
(* Properties *)

\* Cells, links and caches are well formed.
TypeOK ==
    /\ value \in [Module -> [Name -> Value \cup {Placeholder, Absent}]]
    /\ dependents \in [Module -> [Name -> Seq(Fun \cup {None})]]
    /\ cache \in [Fun -> [Name -> Module \cup {None, Detached}]]
    /\ attr \in [Fun -> Module \cup {None, Detached}]
    /\ cachedLoads \in [Fun -> SUBSET Name] /\ cachedStores \in [Fun -> SUBSET Name]
    /\ \A f \in Fun : cachedLoads[f] \subseteq Loads[f] /\ cachedStores[f] \subseteq Stores[f]
    /\ live \subseteq Fun

\* LOAD_GLOBAL_CACHED reads the cell that LOAD_GLOBAL would find: no
\* definition, removal or shadowing in any module leaves a stale cache.
GlobalsCoherent ==
    \A f \in Fun : \A n \in cachedLoads[f] :
        cache[f][n] # None => cache[f][n] = LookupGlobal(ModuleOf[f], n)

\* An opcode is ..._CACHED only while its cache is filled: it casts what it
\* finds there to a value cell.
CachedOpcodesFilled ==
    \A f \in Fun : \A n \in cachedLoads[f] \cup cachedStores[f] : cache[f][n] # None

\* A module attribute cached by id is a live cell with a value.
ModuleAttributesCoherent ==
    \A f \in Fun : attr[f] # None => attr[f] # Detached /\ value[attr[f]][AttrName[f]] \in Value

\* Whoever caches a cell is linked to it, through invalidation on behalf of other
\* modules and the collection of the functions beside it; who caches a builtin has
\* a placeholder in its own module that makes a later definition noticed.
DependentsTracked ==
    \A f \in Fun, n \in Name :
        /\ cache[f][n] \in Module => f \in Range(dependents[cache[f][n]][n])
        /\ attr[f] \in Module /\ AttrName[f] = n => f \in Range(dependents[attr[f]][n])
        /\ cache[f][n] = Builtins => value[ModuleOf[f]][n] = Placeholder

\* A cell that is cached, by an opcode or not, is still in a module that the
\* function can see and has a value.
CachedCellsBound ==
    /\ \A f \in Fun, n \in Name : cache[f][n] # None =>
            /\ cache[f][n] \in {ModuleOf[f], Builtins}
            /\ value[cache[f][n]][n] \in Value
    /\ \A f \in Fun : attr[f] # None => /\ attr[f] \in Module /\ AttrName[f] \in Name
                                       /\ value[attr[f]][AttrName[f]] \in Value

\* What the cells, their links and the caches keep through every definition,
\* removal and collection.
WellFormed == TypeOK /\ DependentsTracked /\ CachedCellsBound

\* A store to a global variable of a module never changes a builtin.  It is false
\* of the code for a function that reads and assigns the same name.
BuiltinsUntouched ==
    [][ (\E f \in Fun, n \in Name, v \in Value : StoreGlobal(f, n, v) \/ StoreGlobalCached(f, n, v))
        => value'[Builtins] = value[Builtins] ]_vars
=============================================================================
