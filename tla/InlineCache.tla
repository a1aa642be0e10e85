---------------------------- MODULE InlineCache ----------------------------
(***************************************************************************)
(* The inline caches of the interpreter for attributes and operators       *)
(* (runtime/ic.cpp), and the dependencies that let an update of a class    *)
(* evict them.                                                             *)
(*                                                                         *)
(* A caching opcode of a function remembers what the lookup along the MRO  *)
(* found for the layouts of its operands.  The lookup leaves a link to the *)
(* function in the value cell of every class it visited, a placeholder     *)
(* where the class does not have the attribute; an update of a cell walks  *)
(* its links and evicts the caches that the update shadows.                *)
(***************************************************************************)
EXTENDS Integers, Sequences, FiniteSets, SequencesExt

CONSTANTS
    None,
    Type,             \* the classes of the program: heap types
    Mro,              \* Mro[t]: its resolution order without the builtin
                      \* types at the end, whose dicts are immutable
    Name,             \* attribute names
    SetAttr,          \* the name "__setattr__"
    Fun,              \* functions with caching opcodes
    Method,           \* class attributes that are functions
    Property,         \* class attributes that are properties
    Programs,         \* the programs that may run, see ConstantsOK
    MaxCalls,         \* bound on nested calls from within a lookup
    UpdatesInCalls,   \* may these calls update classes?
    kIcEntriesPerPolyCache

Value == Method \cup Property

\* Opcodes with two operands.  Their names end in the selector, looked up in
\* the left operand, and the swapped selector, looked up in the right one;
\* INPLACE_OP has the in-place selector before them.
Operators == {"BINARY_OP", "COMPARE_OP", "INPLACE_OP"}

\* Opcodes that look a special method up in the class of their operand.
SpecialMethods == {"BINARY_SUBSCR", "STORE_SUBSCR", "FOR_ITER", "COMPARE_IN"}

Opcodes == Operators \cup SpecialMethods \cup {"LOAD_ATTR", "LOAD_METHOD", "STORE_ATTR"}

\* A layout: the class of an instance, and the instance attributes it has.
Layout == [type : Type, attrs : SUBSET Name]

\* A caching opcode, with the layouts of the operands that reach it.
Opcode == [op : Opcodes, names : Seq(Name), keys : SUBSET Seq(Layout)]

\* A value cell without a value, and no cell at all.
Placeholder == "placeholder"
Absent == "absent"

ASSUME ConstantsOK ==
    /\ Mro \in [Type -> Seq(Type)]
    /\ \A t \in Type : Mro[t] # <<>> /\ Mro[t][1] = t
    \* code[f]: the caching opcodes of f; assigns: the <<t, n, v>> that may be stored
    \* in a class; deletes: the <<t, n>> that may be deleted; drops: the functions dropped.
    /\ \A program \in Programs :
        /\ program.code \in [Fun -> Seq(Opcode)]
        /\ \A f \in Fun : \A i \in DOMAIN program.code[f] :
            LET op == program.code[f][i]
            IN  /\ Len(op.names) = CASE op.op = "INPLACE_OP" -> 3
                                     [] op.op \in Operators \ {"INPLACE_OP"} -> 2
                                     [] OTHER -> 1
                /\ \A key \in op.keys : Len(key) = IF op.op \in Operators THEN 2 ELSE 1
        /\ program.assigns \subseteq Type \X Name \X Value
        /\ program.deletes \subseteq Type \X Name
        /\ program.drops \subseteq Fun
    /\ None \notin Fun
    /\ {Placeholder, Absent} \cap Value = {}
    /\ kIcEntriesPerPolyCache \in Nat /\ kIcEntriesPerPolyCache > 1
    /\ MaxCalls \in Nat
    /\ UpdatesInCalls \in BOOLEAN

VARIABLES
    program,  \* the program that runs
    cell,     \* cell[t][n]: the value cell of n in the dict of t
    caches,   \* caches[f][i]: the entries of the i-th caching opcode: <<>>,
              \* one entry, or the entries of a polymorphic cache
    live,     \* the functions that are not collected
    calls,    \* lookups whose method or getter is still running
    crashed   \* an invalid cast ended the process

vars == <<program, cell, caches, live, calls, crashed>>

Code == program.code

Cell == [value : Value \cup {Placeholder, Absent}, dependents : Seq(Fun \cup {None})]

NoCell == [value |-> Absent, dependents |-> <<>>]

Empty == [key |-> <<>>, kind |-> "none", value |-> None]

Init ==
    /\ program \in Programs
    /\ cell = [t \in Type |-> [n \in Name |-> NoCell]]
    /\ caches = [f \in Fun |-> [i \in DOMAIN Code[f] |-> <<>>]]
    /\ live = Fun
    /\ calls = <<>>
    /\ crashed = FALSE

-----------------------------------------------------------------------------
(* Lookups without caches *)

NotFound == [kind |-> "not_found", value |-> None]

\* Where the lookup of n along the MRO of t ends, 0 if no class has it.
DefiningIndex(t, n) == SelectInSeq(Mro[t], LAMBDA u : cell[u][n].value \in Value)

typeLookupInMro(t, n) ==
    LET d == DefiningIndex(t, n)
    IN  IF d = 0 THEN None ELSE cell[Mro[t][d]][n].value

\* What LOAD_ATTR finds in an instance of layout l: a property of the class,
\* else the instance variable, else a method of the class.
AttributeLocation(l, n) ==
    LET attr == typeLookupInMro(l.type, n)
    IN  CASE attr \in Property -> [kind |-> "property", value |-> attr]
          [] attr \notin Property /\ n \in l.attrs -> [kind |-> "offset", value |-> None]
          [] attr \in Method /\ n \notin l.attrs -> [kind |-> "method", value |-> attr]
          [] OTHER -> NotFound

\* Where STORE_ATTR writes: the instance variable, or a new one and a new
\* layout; a property or another __setattr__ runs instead.
StoreLocation(l, n) ==
    IF typeLookupInMro(l.type, SetAttr) # None \/ typeLookupInMro(l.type, n) \in Property
    THEN NotFound
    ELSE [kind |-> IF n \in l.attrs THEN "offset" ELSE "transition", value |-> None]

\* The method for the swapped selector.  An arithmetic operation does without
\* it when both operands have the same one.
ReflectedMethod(op, left, right) ==
    LET method == typeLookupInMro(right.type, Last(op.names))
    IN  IF op.op # "COMPARE_OP" /\ method = typeLookupInMro(left.type, Last(op.names))
        THEN None ELSE method

OperatorMethod(op, left, right) ==
    LET method == typeLookupInMro(left.type, op.names[Len(op.names) - 1])
        reflected == ReflectedMethod(op, left, right)
        reflectedFirst ==
            /\ left.type # right.type
            /\ method = None \/ left.type \in Range(Mro[right.type])
            /\ reflected # None
        chosen == IF reflectedFirst THEN reflected ELSE method
    IN  IF chosen \notin Method THEN NotFound
        ELSE [kind |-> CASE ~reflectedFirst -> "retry"
                         [] reflectedFirst /\ method = None -> "reflected"
                         [] OTHER -> "reflected_retry",
              value |-> chosen]

\* The in-place method of the left operand; the binary operation that follows
\* it when it gives up is never cached.
InplaceMethod(op, left, right) ==
    LET method == typeLookupInMro(left.type, Head(op.names))
    IN  CASE method = None -> OperatorMethod(op, left, right)
          [] method \in Method -> [kind |-> "inplace", value |-> method]
          [] OTHER -> NotFound

\* What of found an opcode caches if it caches methods only.
OnlyMethod(found) == IF found.kind = "method" THEN found ELSE NotFound

SpecialMethod(l, n) ==
    LET method == typeLookupInMro(l.type, n)
    IN  IF method \in Method THEN [kind |-> "method", value |-> method] ELSE NotFound

\* The slow path of an opcode for operands with the layouts of key.
Lookup(op, key) ==
    CASE op.op \in {"BINARY_OP", "COMPARE_OP"} -> OperatorMethod(op, key[1], key[2])
      [] op.op = "INPLACE_OP" -> InplaceMethod(op, key[1], key[2])
      [] op.op \in SpecialMethods -> SpecialMethod(key[1], op.names[1])
      [] op.op = "STORE_ATTR" -> StoreLocation(key[1], op.names[1])
      [] op.op = "LOAD_ATTR" -> AttributeLocation(key[1], op.names[1])
      [] op.op = "LOAD_METHOD" -> OnlyMethod(AttributeLocation(key[1], op.names[1]))

\* The lookups <<type, name>> behind a cache for key.
Reads(op, key) ==
    [k \in DOMAIN op.names |->
        <<IF k = Len(op.names) THEN Last(key).type ELSE key[1].type, op.names[k]>>]

-----------------------------------------------------------------------------
(* Dependencies *)

RemoveDeadWeakLinks(links) ==
    LET kept[k \in 0..Len(links)] ==
          IF k = 0 THEN <<>>
          ELSE IF links[k] = None THEN kept[k - 1] ELSE Append(kept[k - 1], links[k])
    IN  kept[Len(links)]

\* Mutant of InsertDependent: a dead link is reused as soon as it is met.
InsertDependentReusesFirst(links, f) ==
    LET at == SelectInSeq(links, LAMBDA g : g \in {f, None})
    IN  IF at = 0 THEN <<f>> \o links ELSE [links EXCEPT ![at] = f]

\* icInsertDependentToValueCellDependencyLink: a function is listed once, the
\* first dead link is reused, further dead links met are removed.
InsertDependent(links, f) ==
    LET found == SelectInSeq(links, LAMBDA g : g = f)
        met == IF found = 0 THEN links ELSE SubSeq(links, 1, found)
        dead == {i \in DOMAIN met : met[i] = None}
        filled == IF found # 0 THEN links
                  ELSE IF dead = {} THEN <<f>> \o links
                  ELSE [links EXCEPT ![SelectInSeq(links, LAMBDA g : g = None)] = f]
    IN  IF Cardinality(dead) > 1 THEN RemoveDeadWeakLinks(filled) ELSE filled

\* insertDependencyForTypeLookupInMro: the cells that a lookup of n from t
\* reads, made if they are missing.
InsertDependency(c, t, n, f) ==
    LET d == DefiningIndex(t, n)
        visited == IF d = 0 THEN Range(Mro[t]) ELSE Range(SubSeq(Mro[t], 1, d))
    IN  [u \in Type |-> IF u \notin visited THEN c[u] ELSE
            [c[u] EXCEPT ![n] =
                [value |-> IF @.value = Absent THEN Placeholder ELSE @.value,
                 dependents |-> InsertDependent(@.dependents, f)]]]

InsertDependencies(f, op, key) ==
    LET reads == Reads(op, key)
        c[k \in 0..Len(op.names)] ==
          IF k = 0 THEN cell ELSE InsertDependency(c[k - 1], reads[k][1], reads[k][2], f)
    IN  c[Len(op.names)]

\* icUpdateAttr, icUpdateBinOp: an empty cache or one with this key becomes
\* monomorphic, another one polymorphic; a full one starts over.
UpdateCache(entries, e) ==
    IF entries = <<>> \/ (Len(entries) = 1 /\ entries[1].key = e.key) THEN <<e>>
    ELSE LET poly == IF Len(entries) = 1
                     THEN [j \in 1..kIcEntriesPerPolyCache |-> IF j = 1 THEN entries[1] ELSE Empty]
                     ELSE entries
             slot == SelectInSeq(poly, LAMBDA x : x = Empty \/ x.key = e.key)
         IN  IF slot # 0 THEN [poly EXCEPT ![slot] = e]
             ELSE [j \in 1..kIcEntriesPerPolyCache |-> IF j = 1 THEN e ELSE Empty]

IsPolymorphic(entries) == Len(entries) > 1

MonomorphicKinds == {"property", "transition"}

\* A lookup for key at the i-th opcode of f, whose caches are old, is cached
\* with its dependencies.  A property and a change of layout are kept in an
\* empty cache only.
CacheResult(old, f, i, key, target) ==
    LET op == Code[f][i]
        kept == ~(target.kind \in MonomorphicKinds /\ old[f][i] # <<>>)
    IN  IF target # NotFound /\ kept
        THEN /\ caches' = [old EXCEPT ![f][i] =
                    UpdateCache(@, [key |-> key, kind |-> target.kind, value |-> target.value])]
             /\ cell' = InsertDependencies(f, op, key)
        ELSE caches' = old /\ UNCHANGED cell

\* The search of an operator stops at the first free entry.
Hit(f, i, key) ==
    LET entries == caches[f][i]
        at == SelectInSeq(entries, LAMBDA e : e.key = key)
        hole == SelectInSeq(entries, LAMBDA e : e = Empty)
    IN  at # 0 /\ (Code[f][i].op \in Operators /\ hole # 0 => at < hole)

-----------------------------------------------------------------------------
(* Invalidation.  st is a record [cell, caches, crashed].                   *)

\* isByteCodeWithCache: a filled STORE_SUBSCR or COMPARE_IN and a polymorphic
\* LOAD_ATTR are not among the opcodes that invalidation knows.
IsByteCodeWithCache(op, entries) ==
    /\ op.op \notin {"STORE_SUBSCR", "COMPARE_IN"}
    /\ ~(op.op = "LOAD_ATTR" /\ IsPolymorphic(entries))

\* IcIterator: the filled entries of f as pairs <<opcode, entry>>.  When the last
\* cache is polymorphic and all its entries are evicted, hasNext() holds once
\* more, without an entry: <<last, 0>>.
IcIterator(st, f) ==
    LET entries(i) == st.caches[f][i]
        sites == {i \in DOMAIN Code[f] : IsByteCodeWithCache(Code[f][i], entries(i))}
        filled(i) == {<<i, j>> : j \in {j \in DOMAIN entries(i) : entries(i)[j] # Empty}}
        last == Max(sites)
    IN  (UNION {filled(i) : i \in sites})
        \cup (IF sites # {} /\ IsPolymorphic(entries(last)) /\ filled(last) = {}
              THEN {<<last, 0>>} ELSE {})

\* The pairs that the iterator may return, in its order.
IteratorSteps(f) == Len(Code[f]) * (kIcEntriesPerPolyCache + 1)
IteratorAt(q) == <<(q - 1) \div (kIcEntriesPerPolyCache + 1) + 1,
                   (q - 1) % (kIcEntriesPerPolyCache + 1)>>

MethodNames(op) == Range(op.names)

\* Mutant of IsAffected: the MRO of the cached type is not walked.
IsAffectedItself(c, cachedType, n, updatedType) ==
    cachedType = updatedType /\ c[updatedType][n].value # Absent

\* icIsCachedAttributeAffectedByUpdatedType
IsAffected(c, cachedType, n, updatedType) ==
    LET at == SelectInSeq(Mro[cachedType], LAMBDA u : u = updatedType)
    IN  /\ at # 0
        /\ c[updatedType][n].value # Absent
        /\ \A k \in 1..(at - 1) : c[Mro[cachedType][k]][n].value = Placeholder

\* icIsAttrCachedInDependent, which casts the key of an entry that is not there.
IsAttrCached(st, t, n, f) ==
    \E p \in IcIterator(st, f) :
        /\ p[2] # 0
        /\ \E read \in Range(Reads(Code[f][p[1]], st.caches[f][p[1]][p[2]].key)) :
            read[2] = n /\ IsAffected(st.cell, read[1], n, t)

ReachesNoEntry(st, n, f) ==
    \E p \in IcIterator(st, f) : p[2] = 0 /\ n \in MethodNames(Code[f][p[1]])

\* icDeleteDependentFromInheritingTypes: the first link to f is removed from the
\* cells of cachedType up to definingType.
DeleteDependent(c, cachedType, n, definingType, f) ==
    LET at == SelectInSeq(Mro[cachedType], LAMBDA u : u = definingType)
        passed == Range(SubSeq(Mro[cachedType], 1, at))
    IN  [u \in Type |-> IF u \notin passed THEN c[u]
                        ELSE [c[u] EXCEPT ![n].dependents = RemoveFirst(@, f)]]

\* Mutant of DeleteDependentToDefiningType: the other caches of f are not asked.
DeleteDependentToEndOfMro(st, f, cachedType, n) ==
    LET mro == Mro[cachedType]
        absent == SelectInSeq(mro, LAMBDA u : st.cell[u][n].value = Absent)
        highest == IF absent = 0 THEN Len(mro) ELSE absent - 1
    IN  IF highest = 0 THEN st
        ELSE [st EXCEPT !.cell = DeleteDependent(@, cachedType, n, mro[highest], f)]

\* icDeleteDependentToDefiningType: up to the highest super type below those
\* that another cache of f needs.
DeleteDependentToDefiningType(st, f, cachedType, n) ==
    LET mro == Mro[cachedType]
        stop == SelectInSeq(mro, LAMBDA u :
                    st.cell[u][n].value = Absent \/ IsAttrCached(st, u, n, f))
        highest == IF stop = 0 THEN Len(mro) ELSE stop - 1
    IN  IF st.cell[cachedType][n].value # Absent /\ stop # 1 /\ ReachesNoEntry(st, n, f)
        THEN [st EXCEPT !.crashed = TRUE]
        ELSE IF highest = 0 THEN st
        ELSE [st EXCEPT !.cell = DeleteDependent(@, cachedType, n, mro[highest], f)]

Evict(st, f, i, j) ==
    IF IsPolymorphic(st.caches[f][i])
    THEN [st EXCEPT !.caches[f][i][j] = Empty]
    ELSE [st EXCEPT !.caches[f][i] = <<>>]

\* icEvictAttr, icEvictBinaryOp, icEvictInplaceOp for the cache p of f, after a
\* change of n in t: the first lookup of n that the change shadows is unlinked,
\* then the other lookups.  An instance variable stays when the new value is not
\* a data descriptor.
EvictIfAffected(st, f, p, t, n, dataDescriptor) ==
    LET op == Code[f][p[1]]
        e == st.caches[f][p[1]][p[2]]
        reads == Reads(op, e.key)
        affected == SelectInSeq(reads, LAMBDA read :
                        read[2] = n /\ IsAffected(st.cell, read[1], n, t))
        evicted == Evict(st, f, p[1], p[2])
        unlinked == [evicted EXCEPT !.cell = DeleteDependent(@, reads[affected][1], n, t, f)]
        s[k \in 0..Len(op.names)] ==
          IF k = 0 THEN unlinked
          ELSE IF k = affected THEN s[k - 1]
          ELSE DeleteDependentToDefiningType(s[k - 1], f, reads[k][1], reads[k][2])
    IN  IF st.crashed \/ n \notin MethodNames(op) THEN st
        ELSE IF p[2] = 0 THEN [st EXCEPT !.crashed = TRUE]
        ELSE IF \/ e.kind \in {"offset", "transition"} /\ ~dataDescriptor
                \/ affected = 0
             THEN st
        ELSE s[Len(op.names)]

\* icEvictCache; the link of a collected function is cast like another.
EvictCache(st, f, t, n, dataDescriptor) ==
    LET returned == IcIterator(st, f)
        s[q \in 0..IteratorSteps(f)] ==
          IF q = 0 THEN st
          ELSE IF IteratorAt(q) \notin returned THEN s[q - 1]
          ELSE EvictIfAffected(s[q - 1], f, IteratorAt(q), t, n, dataDescriptor)
    IN  IF f = None THEN [st EXCEPT !.crashed = TRUE] ELSE s[IteratorSteps(f)]

\* icInvalidateAttr for a cell c[t][n] that was just changed.
InvalidateAttr(c, t, n) ==
    LET links == c[t][n].dependents
        s[k \in 0..Len(links)] ==
          IF k = 0 THEN [cell |-> c, caches |-> caches, crashed |-> FALSE]
          ELSE IF s[k - 1].crashed THEN s[k - 1]
          ELSE EvictCache(s[k - 1], links[k], t, n, c[t][n].value \in Property)
    IN  s[Len(links)]

-----------------------------------------------------------------------------
(* The program *)

\* Does user code run between the lookup and the update of the cache?
CallsUserCode(op, target) ==
    \/ op.op \in Operators \cup {"COMPARE_IN"} /\ target # NotFound
    \/ target.kind = "property"

\* A miss.  A cache with a property or a change of layout is emptied first.
Load(f, i, key) ==
    LET op == Code[f][i]
        target == Lookup(op, key)
        retry == Len(caches[f][i]) = 1 /\ caches[f][i][1].kind \in MonomorphicKinds
        old == IF retry THEN [caches EXCEPT ![f][i] = <<>>] ELSE caches
    IN  /\ ~crashed
        /\ f \in live
        /\ ~Hit(f, i, key)
        /\ \/ /\ ~CallsUserCode(op, target)
              /\ CacheResult(old, f, i, key, target)
              /\ UNCHANGED calls
           \/ /\ CallsUserCode(op, target)
              /\ Len(calls) < MaxCalls
              /\ calls' = Append(calls, [fun |-> f, opcode |-> i, key |-> key, target |-> target])
              /\ caches' = old
              /\ UNCHANGED cell
        /\ UNCHANGED <<program, live, crashed>>

\* The user code returns, or raises: what was found before it ran is cached,
\* but a comparison or a property that raised is not.
Return(raises) ==
    LET call == Last(calls)
        cached == ~raises \/ Code[call.fun][call.opcode].op \notin {"COMPARE_OP", "LOAD_ATTR"}
    IN  /\ ~crashed
        /\ calls # <<>>
        /\ IF cached THEN CacheResult(caches, call.fun, call.opcode, call.key, call.target)
           ELSE UNCHANGED <<caches, cell>>
        /\ calls' = Front(calls)
        /\ UNCHANGED <<program, live, crashed>>

MayUpdate == ~crashed /\ (calls = <<>> \/ UpdatesInCalls)

\* terminateIfUnimplementedTypeAttrCacheInvalidation: the process ends at an
\* update of a __setattr__ that has a cell.
Terminates(t, n) == n = SetAttr /\ cell[t][n].value # Absent

\* typeSetAttr
SetAttribute(t, n, v) ==
    LET st == InvalidateAttr([cell EXCEPT ![t][n].value = v], t, n)
    IN  /\ MayUpdate
        /\ ~Terminates(t, n)
        /\ cell' = st.cell /\ caches' = st.caches /\ crashed' = st.crashed
        /\ UNCHANGED <<program, live, calls>>

\* typeDeleteAttribute: a placeholder goes as well, although it raises.
DeleteAttribute(t, n) ==
    LET st == InvalidateAttr(cell, t, n)
    IN  /\ MayUpdate
        /\ cell[t][n].value # Absent
        /\ ~Terminates(t, n)
        /\ cell' = [st.cell EXCEPT ![t][n] = NoCell]
        /\ caches' = st.caches /\ crashed' = st.crashed
        /\ UNCHANGED <<program, live, calls>>

\* The collector clears the links to a function that it reclaims.
CollectFunction(f) ==
    /\ ~crashed
    /\ f \in live
    /\ \A k \in DOMAIN calls : calls[k].fun # f
    /\ live' = live \ {f}
    /\ cell' = [t \in Type |-> [n \in Name |-> [cell[t][n] EXCEPT !.dependents =
                    [k \in DOMAIN @ |-> IF @[k] = f THEN None ELSE @[k]]]]]
    /\ caches' = [caches EXCEPT ![f] = [i \in DOMAIN Code[f] |-> <<>>]]
    /\ UNCHANGED <<program, calls, crashed>>

Crashed == crashed /\ UNCHANGED vars

Next ==
    \/ \E f \in Fun : \E i \in DOMAIN Code[f] : \E key \in Code[f][i].keys : Load(f, i, key)
    \/ \E raises \in BOOLEAN : Return(raises)
    \/ \E a \in program.assigns : SetAttribute(a[1], a[2], a[3])
    \/ \E d \in program.deletes : DeleteAttribute(d[1], d[2])
    \/ \E f \in program.drops : CollectFunction(f)
    \/ Crashed

Spec == Init /\ [][Next]_vars

-----------------------------------------------------------------------------
(* Properties *)

Entries(f, i) == {e \in Range(caches[f][i]) : e # Empty}

\* Caches, cells and pending lookups are well formed, a cache with one entry is
\* monomorphic and a polymorphic one has all its slots.
TypeOK ==
    /\ program \in Programs
    /\ cell \in [Type -> [Name -> Cell]]
    /\ live \subseteq Fun
    /\ crashed \in BOOLEAN
    /\ Len(calls) <= MaxCalls
    /\ \A f \in Fun : \A i \in DOMAIN Code[f] :
        /\ Len(caches[f][i]) \in {0, 1, kIcEntriesPerPolyCache}
        /\ Len(caches[f][i]) = 1 => caches[f][i][1] # Empty
        /\ \A e \in Entries(f, i) : e.key \in Code[f][i].keys /\ e.value \in Value \cup {None}

\* A cache holds what the lookup without it would find: no update of a class
\* on the MRO of a cached type leaves a stale entry behind.
CachesCoherent ==
    ~crashed => \A f \in live : \A i \in DOMAIN Code[f] : \A e \in Entries(f, i) :
        LET found == Lookup(Code[f][i], e.key)
        IN  e.kind = found.kind /\ e.value = found.value

\* A function that has an entry is a dependent of every cell that its lookup
\* read, up to the class that defines the attribute.
DependentsTracked ==
    ~crashed => \A f \in live : \A i \in DOMAIN Code[f] : \A e \in Entries(f, i) :
        \A read \in Range(Reads(Code[f][i], e.key)) :
            LET t == read[1]
                n == read[2]
                d == DefiningIndex(t, n)
            IN  \A k \in 1..(IF d = 0 THEN Len(Mro[t]) ELSE d) :
                    f \in Range(cell[Mro[t][k]][n].dependents)

\* No function is linked twice to a cell, whatever dead links were reused: the
\* removal of a dependent stops at the first link it finds.
LinkedOnce ==
    \A t \in Type, n \in Name, f \in Fun :
        Cardinality({k \in DOMAIN cell[t][n].dependents : cell[t][n].dependents[k] = f}) <= 1

\* The structure the lists of links and the caches keep through every insertion,
\* eviction and collection.
WellFormed == TypeOK /\ LinkedOnce

\* Invalidation never casts the referent of a dead link to a function, nor the
\* mark of a polymorphic cache to a layout id.
NoInvalidCast == ~crashed
=============================================================================
