------------------------- MODULE GlobalCacheProofs -------------------------
(***************************************************************************)
(* Proofs about the caches of global variables and module attributes, for  *)
(* every set of modules, names, functions and values.                      *)
(*                                                                         *)
(* A theorem that holds only for programs of a certain kind says so: its   *)
(* hypothesis is one about the program, and each theorem has the one it    *)
(* needs and no other.                                                     *)
(***************************************************************************)
EXTENDS GlobalCache, SequenceTheorems, WellFoundedInduction, TLAPS

Link == Fun \cup {None}

-----------------------------------------------------------------------------
(***************************************************************************)
(* Tables and lists of links.                                              *)
(***************************************************************************)

\* An entry is put into a table.
LEMMA PutEntry ==
    ASSUME NEW A, NEW B, NEW C, NEW table \in [A -> [B -> C]],
           NEW m \in A, NEW n \in B, NEW entry \in C
    PROVE  /\ Put(table, m, n, entry) \in [A -> [B -> C]]
           /\ \A a \in A, b \in B :
                Put(table, m, n, entry)[a][b] = IF a = m /\ b = n THEN entry ELSE table[a][b]
  BY DEF Put

\* A set of natural numbers that is not empty has a least one.
LEMMA LeastOne ==
    ASSUME NEW I, I \subseteq Nat, I # {}
    PROVE  Min(I) \in I
  <1> DEFINE less == OpToRel(<, Nat)
  <1>1. \A i, j \in Nat : j < i => <<j, i>> \in less
    BY Zenon DEF OpToRel
  <1>2. IsWellFoundedOn(less, Nat)
    BY NatLessThanWellFounded
  <1> HIDE DEF less
  <1>3. PICK i \in I : \A j \in I : ~ (<<j, i>> \in less)
    BY <1>2, WFMin
  <1>4. \A j \in I : i <= j
    <2> TAKE j \in I
    <2>1. i \in Nat /\ j \in Nat /\ ~ (j < i)
      BY <1>1, <1>3
    <2> QED
      BY <2>1
  <1> QED
    BY <1>4 DEF Min

\* A link is added in front.
LEMMA ConsLink ==
    ASSUME NEW links \in Seq(Link), NEW f \in Link
    PROVE  /\ <<f>> \o links \in Seq(Link)
           /\ f \in Range(<<f>> \o links)
           /\ Range(links) \subseteq Range(<<f>> \o links)
  <1> DEFINE all == <<f>> \o links
             n == Len(links)
  <1>1. <<f>> \in Seq(Link) /\ Len(<<f>>) = 1 /\ <<f>>[1] = f
    OBVIOUS
  <1>2. n \in Nat /\ DOMAIN links = 1..n
    BY LenProperties
  <1>3. /\ all \in Seq(Link)
        /\ Len(all) = 1 + n
        /\ \A i \in 1..(1 + n) : all[i] = IF i <= 1 THEN <<f>>[i] ELSE links[i - 1]
    BY <1>1, ConcatProperties
  <1>4. DOMAIN all = 1..(1 + n)
    BY <1>3, LenProperties
  <1> HIDE DEF all, n
  <1>5. f \in Range(all)
    <2>1. 1 \in 1..(1 + n)
      BY <1>2
    <2> QED
      BY <2>1, <1>1, <1>3, <1>4 DEF Range
  <1>6. ASSUME NEW g \in Range(links) PROVE g \in Range(all)
    <2>1. PICK i \in 1..n : links[i] = g
      BY <1>2 DEF Range
    <2>2. i + 1 \in 1..(1 + n) /\ ~(i + 1 <= 1) /\ (i + 1) - 1 = i
      BY <1>2
    <2> QED
      BY <2>1, <2>2, <1>3, <1>4 DEF Range
  <1> QED
    BY <1>3, <1>5, <1>6 DEF all

\* A function is linked once, in the place of one that was collected if there is
\* one, and no other function loses its link.
LEMMA InsertDependentLinks ==
    ASSUME NEW links \in Seq(Link), NEW f \in Fun
    PROVE  /\ InsertDependent(links, f) \in Seq(Link)
           /\ f \in Range(InsertDependent(links, f))
           /\ Range(links) \ {None} \subseteq Range(InsertDependent(links, f))
  <1> DEFINE I == {i \in 1..Len(links) : links[i] = None}
             dead == IF I # {} THEN Min(I) ELSE 0
  <1>1. InsertDependent(links, f) =
            IF f \in Range(links) THEN links
            ELSE IF dead # 0 THEN [links EXCEPT ![dead] = f]
            ELSE <<f>> \o links
    BY DEF InsertDependent, SelectInSeq
  <1>2. Len(links) \in Nat /\ DOMAIN links = 1..Len(links) /\ f \in Link
    BY LenProperties DEF Link
  <1>3. CASE f \in Range(links)
    BY <1>1, <1>3
  <1>4. CASE f \notin Range(links) /\ I # {}
    <2>1. I \subseteq Nat
      BY <1>2
    <2>2. Min(I) \in I
      BY <2>1, <1>4, LeastOne
    <2>3. PICK d \in 1..Len(links) : d = dead /\ links[d] = None
      BY <2>2, <1>4
    <2>4. InsertDependent(links, f) = [links EXCEPT ![d] = f]
      BY <2>3, <1>1, <1>4
    <2>5. /\ [links EXCEPT ![d] = f] \in Seq(Link)
          /\ DOMAIN [links EXCEPT ![d] = f] = 1..Len(links)
          /\ \A j \in 1..Len(links) :
                [links EXCEPT ![d] = f][j] = IF j = d THEN f ELSE links[j]
      BY <1>2, ExceptSeq
    <2>6. ASSUME NEW g \in Range(links) \ {None} PROVE g \in Range([links EXCEPT ![d] = f])
      <3>1. PICK i \in 1..Len(links) : links[i] = g
        BY <1>2 DEF Range
      <3>2. i # d
        BY <3>1, <2>3
      <3> QED
        BY <3>1, <3>2, <2>5 DEF Range
    <2>7. f \in Range([links EXCEPT ![d] = f])
      BY <2>5 DEF Range
    <2> QED
      BY <2>4, <2>5, <2>6, <2>7
  <1>5. CASE f \notin Range(links) /\ I = {}
    <2>1. InsertDependent(links, f) = <<f>> \o links
      BY <1>1, <1>5
    <2> QED
      BY <2>1, <1>2, ConsLink
  <1> QED
    BY <1>3, <1>4, <1>5

\* The collector replaces the links of one function.
LEMMA LinksWithout ==
    ASSUME NEW links \in Seq(Link), NEW f
    PROVE  LET rest == [k \in DOMAIN links |-> IF links[k] = f THEN None ELSE links[k]]
           IN  rest \in Seq(Link) /\ Range(links) \ {f} \subseteq Range(rest)
  <1> DEFINE rest == [k \in DOMAIN links |-> IF links[k] = f THEN None ELSE links[k]]
  <1>1. Len(links) \in Nat /\ DOMAIN links = 1..Len(links) /\ \A k \in 1..Len(links) : links[k] \in Link
    BY LenProperties, ElementOfSeq
  <1>2. rest \in [1..Len(links) -> Link]
    BY <1>1 DEF Link
  <1>3. rest \in Seq(Link)
    BY <1>1, <1>2
  <1>4. ASSUME NEW g \in Range(links) \ {f} PROVE g \in Range(rest)
    <2>1. PICK k \in DOMAIN links : links[k] = g
      BY DEF Range
    <2>2. k \in DOMAIN rest /\ rest[k] = g
      BY <2>1
    <2> QED
      BY <2>2 DEF Range
  <1> QED
    BY <1>3, <1>4

-----------------------------------------------------------------------------
(***************************************************************************)
(* What the operations on cells and caches keep of their types.            *)
(***************************************************************************)

Contents == Value \cup {Placeholder, Absent}
Cell == Module \cup {None, Detached}

States ==
    [value : [Module -> [Name -> Contents]], dependents : [Module -> [Name -> Seq(Link)]],
     cache : [Fun -> [Name -> Cell]], attr : [Fun -> Cell],
     loads : [Fun -> SUBSET Name], stores : [Fun -> SUBSET Name]]

Typed(st) ==
    /\ st \in States
    /\ \A f \in Fun : st.loads[f] \subseteq Loads[f] /\ st.stores[f] \subseteq Stores[f]

\* The types of the fields.
LEMMA Fields ==
    ASSUME NEW st, Typed(st)
    PROVE  /\ st.value \in [Module -> [Name -> Contents]]
           /\ st.dependents \in [Module -> [Name -> Seq(Link)]]
           /\ st.cache \in [Fun -> [Name -> Cell]]
           /\ st.attr \in [Fun -> Cell]
           /\ st.loads \in [Fun -> SUBSET Name] /\ st.stores \in [Fun -> SUBSET Name]
  BY DEF Typed, States

LEMMA TypedState == TypeOK <=> Typed(State) /\ live \subseteq Fun
  BY DEF TypeOK, Typed, States, State, Link, Contents, Cell

LEMMA BecomeTyped ==
    ASSUME NEW st, Typed(st), Become(st), live' \subseteq Fun
    PROVE  TypeOK'
  BY DEF TypeOK, Typed, States, Become, Link, Contents, Cell

\* A cell of a module is assigned.
LEMMA PutValueTyped ==
    ASSUME NEW st, Typed(st), NEW m \in Module, NEW n \in Name, NEW v \in Contents
    PROVE  LET new == [st EXCEPT !.value = Put(@, m, n, v)]
           IN  /\ Typed(new)
               /\ new.dependents = st.dependents /\ new.cache = st.cache /\ new.attr = st.attr
               /\ new.loads = st.loads /\ new.stores = st.stores
               /\ new.value = Put(st.value, m, n, v)
  <1>1. Put(st.value, m, n, v) \in [Module -> [Name -> Contents]]
    BY PutEntry DEF Typed, States
  <1> QED
    BY <1>1 DEF Typed, States

\* The names that the opcodes with one argument stand for.
Hits(f, n) == {k \in Name : NameIndex[f][k] = NameIndex[f][n] % kByteValues}

\* A cell is cached for a name of a function.
LEMMA UpdateEffect ==
    ASSUME NEW st, Typed(st), NEW f \in Fun, NEW n \in Name, NEW m \in Module,
           st.cache[f][n] = None, NEW new, new = UpdateGlobalVar(st, f, n, m)
    PROVE  /\ Typed(new)
           /\ new.value = st.value /\ new.attr = st.attr
           /\ \A g \in Fun, k \in Name :
                new.cache[g][k] = IF g = f /\ k = n THEN m ELSE st.cache[g][k]
           /\ \A c \in Module, k \in Name :
                new.dependents[c][k] = IF c = m /\ k = n THEN <<f>> \o st.dependents[m][n]
                                       ELSE st.dependents[c][k]
           /\ \A g \in Fun : g # f => new.loads[g] = st.loads[g] /\ new.stores[g] = st.stores[g]
           /\ new.loads[f] = st.loads[f] \cup (Hits(f, n) \cap Loads[f])
           /\ new.stores[f] = st.stores[f] \cup (Hits(f, n) \cap Stores[f])
  <1> DEFINE links == <<f>> \o st.dependents[m][n]
  <1>1. new = [value |-> st.value,
               dependents |-> Put(st.dependents, m, n, links),
               cache |-> Put(st.cache, f, n, m),
               attr |-> st.attr,
               loads |-> [st.loads EXCEPT ![f] = @ \cup (Hits(f, n) \cap Loads[f])],
               stores |-> [st.stores EXCEPT ![f] = @ \cup (Hits(f, n) \cap Stores[f])]]
    BY DEF UpdateGlobalVar, Hits
  <1>2. links \in Seq(Link)
    <2>1. st.dependents[m][n] \in Seq(Link) /\ f \in Link
      BY DEF Typed, States, Link
    <2> QED
      BY <2>1, ConsLink
  <1> HIDE DEF links
  <1>3. m \in Cell
    BY DEF Cell
  <1>4. /\ Put(st.dependents, m, n, links) \in [Module -> [Name -> Seq(Link)]]
        /\ \A c \in Module, k \in Name :
             Put(st.dependents, m, n, links)[c][k] = IF c = m /\ k = n THEN links
                                                     ELSE st.dependents[c][k]
    <2>1. st.dependents \in [Module -> [Name -> Seq(Link)]]
      BY Fields
    <2> QED
      BY <1>2, <2>1 DEF Put
  <1>5. /\ Put(st.cache, f, n, m) \in [Fun -> [Name -> Cell]]
        /\ \A g \in Fun, k \in Name :
             Put(st.cache, f, n, m)[g][k] = IF g = f /\ k = n THEN m ELSE st.cache[g][k]
    <2>1. st.cache \in [Fun -> [Name -> Cell]]
      BY Fields
    <2> QED
      BY <1>3, <2>1 DEF Put
  <1>6. Hits(f, n) \cap Loads[f] \subseteq Name /\ Hits(f, n) \cap Stores[f] \subseteq Name
    BY DEF Hits
  <1>7. new \in States
    BY <1>1, <1>4, <1>5, <1>6 DEF Typed, States
  <1>8. /\ \A g \in Fun : g # f => new.loads[g] = st.loads[g] /\ new.stores[g] = st.stores[g]
        /\ new.loads[f] = st.loads[f] \cup (Hits(f, n) \cap Loads[f])
        /\ new.stores[f] = st.stores[f] \cup (Hits(f, n) \cap Stores[f])
    BY <1>1 DEF Typed, States
  <1>9. \A g \in Fun : new.loads[g] \subseteq Loads[g] /\ new.stores[g] \subseteq Stores[g]
    BY <1>8 DEF Typed
  <1>10. /\ new.value = st.value /\ new.attr = st.attr
         /\ new.dependents = Put(st.dependents, m, n, links)
         /\ new.cache = Put(st.cache, f, n, m)
    BY <1>1
  <1>11. /\ \A g \in Fun, k \in Name :
                new.cache[g][k] = IF g = f /\ k = n THEN m ELSE st.cache[g][k]
         /\ \A c \in Module, k \in Name :
                new.dependents[c][k] = IF c = m /\ k = n THEN <<f>> \o st.dependents[m][n]
                                       ELSE st.dependents[c][k]
    <2>1. ASSUME NEW g \in Fun, NEW k \in Name
          PROVE  new.cache[g][k] = IF g = f /\ k = n THEN m ELSE st.cache[g][k]
      BY <1>5, <1>10
    <2>2. ASSUME NEW c \in Module, NEW k \in Name
          PROVE  new.dependents[c][k] = IF c = m /\ k = n THEN links ELSE st.dependents[c][k]
      BY <1>4, <1>10
    <2> QED
      BY <2>1, <2>2 DEF links
  <1> QED
    BY <1>7, <1>8, <1>9, <1>10, <1>11 DEF Typed

LEMMA UpdateKept ==
    ASSUME NEW st, NEW f, NEW n, NEW m, st.cache[f][n] # None
    PROVE  UpdateGlobalVar(st, f, n, m) = st
  BY DEF UpdateGlobalVar

\* The caches of a cell are invalidated.
LEMMA InvalidateEffect ==
    ASSUME NEW st, Typed(st), NEW m \in Module, NEW n \in Name,
           NEW new, new = InvalidateGlobalVar(st, m, n)
    PROVE  /\ Typed(new)
           /\ new.value = st.value
           /\ \A c \in Module, k \in Name :
                new.dependents[c][k] = IF c = m /\ k = n THEN <<>> ELSE st.dependents[c][k]
           /\ \A g \in Fun, k \in Name :
                new.cache[g][k] = IF k = n /\ ForgetsGlobal(st, g, m, n) THEN None
                                  ELSE st.cache[g][k]
           /\ \A g \in Fun :
                new.attr[g] = IF ForgetsAttr(st, g, m, n) THEN None ELSE st.attr[g]
           /\ \A g \in Fun :
                new.loads[g] = IF ForgetsGlobal(st, g, m, n) THEN st.loads[g] \ {n} ELSE st.loads[g]
           /\ \A g \in Fun :
                new.stores[g] = IF ForgetsGlobal(st, g, m, n) THEN st.stores[g] \ {n} ELSE st.stores[g]
  <1> DEFINE F(g) == ForgetsGlobal(st, g, m, n)
             A(g) == ForgetsAttr(st, g, m, n)
  <1> HIDE DEF F, A
  <1>1. new = [value |-> st.value,
               dependents |-> Put(st.dependents, m, n, <<>>),
               cache |-> [g \in Fun |-> IF F(g) THEN [st.cache[g] EXCEPT ![n] = None]
                                       ELSE st.cache[g]],
               attr |-> [g \in Fun |-> IF A(g) THEN None ELSE st.attr[g]],
               loads |-> [g \in Fun |-> IF F(g) THEN st.loads[g] \ {n} ELSE st.loads[g]],
               stores |-> [g \in Fun |-> IF F(g) THEN st.stores[g] \ {n} ELSE st.stores[g]]]
    BY DEF InvalidateGlobalVar, F, A
  <1>2. /\ Put(st.dependents, m, n, <<>>) \in [Module -> [Name -> Seq(Link)]]
        /\ \A c \in Module, k \in Name :
             Put(st.dependents, m, n, <<>>)[c][k] = IF c = m /\ k = n THEN <<>>
                                                    ELSE st.dependents[c][k]
    <2>1. <<>> \in Seq(Link)
      BY EmptySeq
    <2> QED
      BY <2>1, Fields DEF Put
  <1>3. \A g \in Fun, k \in Name :
            new.cache[g][k] = IF k = n /\ F(g) THEN None ELSE st.cache[g][k]
    BY <1>1 DEF Typed, States
  <1>4. \A g \in Fun : /\ new.attr[g] = IF A(g) THEN None ELSE st.attr[g]
                       /\ new.loads[g] = IF F(g) THEN st.loads[g] \ {n} ELSE st.loads[g]
                       /\ new.stores[g] = IF F(g) THEN st.stores[g] \ {n} ELSE st.stores[g]
    BY <1>1
  <1>5. new \in States
    <2>1. new.cache \in [Fun -> [Name -> Cell]]
      <3>1. \A g \in Fun : [st.cache[g] EXCEPT ![n] = None] \in [Name -> Cell]
        BY DEF Typed, States, Cell
      <3>2. \A g \in Fun : st.cache[g] \in [Name -> Cell]
        BY DEF Typed, States
      <3> QED
        BY <3>1, <3>2, <1>1
    <2>2. new.attr \in [Fun -> Cell]
      BY <1>1 DEF Typed, States, Cell
    <2>3. new.loads \in [Fun -> SUBSET Name] /\ new.stores \in [Fun -> SUBSET Name]
      <3>1. \A g \in Fun : st.loads[g] \in SUBSET Name /\ st.stores[g] \in SUBSET Name
        BY DEF Typed, States
      <3> QED
        BY <3>1, <1>1
    <2>4. new.value \in [Module -> [Name -> Contents]]
      BY <1>1 DEF Typed, States
    <2> QED
      BY <2>1, <2>2, <2>3, <2>4, <1>1, <1>2 DEF States
  <1>6. \A g \in Fun : new.loads[g] \subseteq Loads[g] /\ new.stores[g] \subseteq Stores[g]
    BY <1>4 DEF Typed
  <1> QED
    BY <1>1, <1>2, <1>3, <1>4, <1>5, <1>6 DEF Typed, F, A

\* One entry of a row is changed.
LEMMA RowEntry ==
    ASSUME NEW row \in [Name -> Cell], NEW n \in Name, NEW entry \in Cell
    PROVE  /\ [row EXCEPT ![n] = entry] \in [Name -> Cell]
           /\ \A k \in Name : [row EXCEPT ![n] = entry][k] = IF k = n THEN entry ELSE row[k]
  OBVIOUS

\* A module variable is removed.
LEMMA RemoveEffect ==
    ASSUME NEW st, Typed(st), NEW m \in Module, NEW n \in Name,
           NEW old, old = InvalidateGlobalVar(st, m, n),
           NEW new, new = ModuleRemove(st, m, n)
    PROVE  /\ Typed(new)
           /\ \A c \in Module, k \in Name :
                new.value[c][k] = IF c = m /\ k = n THEN Absent ELSE st.value[c][k]
           /\ new.dependents = old.dependents
           /\ \A g \in Fun, k \in Name :
                new.cache[g][k] = IF k = n /\ old.cache[g][k] = m THEN Detached ELSE old.cache[g][k]
           /\ \A g \in Fun :
                new.attr[g] = IF AttrName[g] = n /\ old.attr[g] = m THEN Detached ELSE old.attr[g]
           /\ new.loads = old.loads /\ new.stores = old.stores
  <1>1. Typed(old)
    BY InvalidateEffect
  <1>2. new = [value |-> Put(st.value, m, n, Absent),
               dependents |-> old.dependents,
               cache |-> [g \in Fun |-> [old.cache[g] EXCEPT ![n] = IF @ = m THEN Detached ELSE @]],
               attr |-> [g \in Fun |-> IF AttrName[g] = n
                                      THEN IF old.attr[g] = m THEN Detached ELSE old.attr[g]
                                      ELSE old.attr[g]],
               loads |-> old.loads,
               stores |-> old.stores]
    BY DEF ModuleRemove
  <1>3. /\ Put(st.value, m, n, Absent) \in [Module -> [Name -> Contents]]
        /\ \A c \in Module, k \in Name :
             Put(st.value, m, n, Absent)[c][k] = IF c = m /\ k = n THEN Absent ELSE st.value[c][k]
    <2>1. Absent \in Contents
      BY DEF Contents
    <2>2. st.value \in [Module -> [Name -> Contents]]
      BY Fields
    <2> QED
      BY <2>1, <2>2 DEF Put
  <1>4. old.cache \in [Fun -> [Name -> Cell]] /\ old.attr \in [Fun -> Cell] /\ Detached \in Cell
    BY <1>1, Fields DEF Cell
  <1>5. /\ new.cache \in [Fun -> [Name -> Cell]]
        /\ \A g \in Fun, k \in Name :
             new.cache[g][k] = IF k = n /\ old.cache[g][k] = m THEN Detached ELSE old.cache[g][k]
    <2>1. new.cache = [g \in Fun |-> [old.cache[g] EXCEPT ![n] = IF @ = m THEN Detached ELSE @]]
      BY <1>2
    <2>2. \A g \in Fun : old.cache[g] \in [Name -> Cell]
      BY <1>4
    <2>3. \A g \in Fun : new.cache[g] = [old.cache[g] EXCEPT ![n] = IF @ = m THEN Detached ELSE @]
      BY <2>1
    <2>4. ASSUME NEW g \in Fun
          PROVE  /\ new.cache[g] \in [Name -> Cell]
                 /\ \A k \in Name : new.cache[g][k] = IF k = n /\ old.cache[g][k] = m THEN Detached
                                                      ELSE old.cache[g][k]
      <3> DEFINE row == old.cache[g]
                 entry == IF row[n] = m THEN Detached ELSE row[n]
      <3>1. row \in [Name -> Cell] /\ new.cache[g] = [row EXCEPT ![n] = entry]
        BY <2>2, <2>3
      <3>2. entry \in Cell
        BY <3>1, <1>4
      <3> HIDE DEF row, entry
      <3>3. /\ [row EXCEPT ![n] = entry] \in [Name -> Cell]
            /\ \A k \in Name : [row EXCEPT ![n] = entry][k] = IF k = n THEN entry ELSE row[k]
        BY <3>1, <3>2, RowEntry
      <3> QED
        BY <3>1, <3>3 DEF row, entry
    <2>6. new.cache \in [Fun -> [Name -> Cell]]
      BY <2>1, <2>4
    <2> QED
      BY <2>4, <2>6
  <1>6. /\ new.attr \in [Fun -> Cell]
        /\ \A g \in Fun :
             new.attr[g] = IF AttrName[g] = n /\ old.attr[g] = m THEN Detached ELSE old.attr[g]
    BY <1>2, <1>4
  <1>7. /\ new.value = Put(st.value, m, n, Absent)
        /\ new.dependents = old.dependents
        /\ new.loads = old.loads /\ new.stores = old.stores
    BY <1>2
  <1>8. Typed(new)
    <2>1. new \in States
      <3>1. /\ old.dependents \in [Module -> [Name -> Seq(Link)]]
            /\ old.loads \in [Fun -> SUBSET Name] /\ old.stores \in [Fun -> SUBSET Name]
        BY <1>1, Fields
      <3> QED
        BY <3>1, <1>2, <1>3, <1>5, <1>6, <1>7 DEF States
    <2> QED
      BY <2>1, <1>1, <1>7 DEF Typed
  <1>9. \A c \in Module, k \in Name :
            new.value[c][k] = IF c = m /\ k = n THEN Absent ELSE st.value[c][k]
    BY <1>3, <1>7
  <1> QED
    BY <1>5, <1>6, <1>7, <1>8, <1>9

\* A module variable is assigned: in the place of a placeholder, after the
\* caches of the builtin are invalidated.
Shadows(st, m, n) ==
    m # Builtins /\ st.value[m][n] = Placeholder /\ st.value[Builtins][n] \in Value

LEMMA AtPutEffect ==
    ASSUME NEW st, Typed(st), NEW m \in Module, NEW n \in Name, NEW v \in Value,
           NEW old, old = IF Shadows(st, m, n) THEN InvalidateGlobalVar(st, Builtins, n) ELSE st,
           NEW new, new = ModuleAtPut(st, m, n, v)
    PROVE  /\ Typed(old) /\ Typed(new)
           /\ \A c \in Module, k \in Name :
                new.value[c][k] = IF c = m /\ k = n THEN v ELSE st.value[c][k]
           /\ new.dependents = old.dependents /\ new.cache = old.cache /\ new.attr = old.attr
           /\ new.loads = old.loads /\ new.stores = old.stores
  <1>1. Builtins \in Module /\ v \in Contents
    BY DEF Module, Contents
  <1>2. Typed(old) /\ old.value = st.value
    BY <1>1, InvalidateEffect
  <1>3. new = [old EXCEPT !.value = Put(@, m, n, v)]
    BY DEF ModuleAtPut, Shadows
  <1>4. /\ Typed(new)
        /\ new.dependents = old.dependents /\ new.cache = old.cache /\ new.attr = old.attr
        /\ new.loads = old.loads /\ new.stores = old.stores
        /\ new.value = Put(old.value, m, n, v)
    BY <1>1, <1>2, <1>3, PutValueTyped
  <1>5. old.value \in [Module -> [Name -> Contents]]
    BY <1>2, Fields
  <1>6. \A c \in Module, k \in Name :
            new.value[c][k] = IF c = m /\ k = n THEN v ELSE st.value[c][k]
    BY <1>1, <1>2, <1>4, <1>5 DEF Put
  <1> QED
    BY <1>2, <1>4, <1>6

-----------------------------------------------------------------------------
(***************************************************************************)
(* What the operations keep.  Each property is first one of a state of     *)
(* cells and caches.                                                       *)
(***************************************************************************)

\* The opcodes ..._CACHED have a filled cache.
Filled(st) == \A f \in Fun : \A n \in st.loads[f] \cup st.stores[f] : st.cache[f][n] # None

\* A cached cell has a value and is linked to who caches it; who caches a
\* builtin has a placeholder in its own module.
CacheOK(st, f, n) ==
    st.cache[f][n] # None =>
        /\ st.cache[f][n] \in {ModuleOf[f], Builtins}
        /\ st.value[st.cache[f][n]][n] \in Value
        /\ f \in Range(st.dependents[st.cache[f][n]][n])
        /\ st.cache[f][n] = Builtins => st.value[ModuleOf[f]][n] = Placeholder

AttrOK(st, f) ==
    st.attr[f] # None =>
        /\ st.attr[f] \in Module /\ AttrName[f] \in Name
        /\ st.value[st.attr[f]][AttrName[f]] \in Value
        /\ f \in Range(st.dependents[st.attr[f]][AttrName[f]])

Sound(st) ==
    /\ \A f \in Fun, n \in Name : CacheOK(st, f, n)
    /\ \A f \in Fun : AttrOK(st, f)

LEMMA StatesOf ==
    /\ CachedOpcodesFilled <=> Filled(State)
    /\ \A st : Become(st) /\ Filled(st) => CachedOpcodesFilled'
  BY DEF CachedOpcodesFilled, Filled, State, Become

\* Modules.
LEMMA ModulesOf ==
    /\ Builtins \in Module /\ None \notin Module /\ Detached \notin Module
    /\ \A f \in Fun : ModuleOf[f] \in Module /\ ModuleOf[f] # Builtins
    /\ Placeholder \notin Value /\ Absent \notin Value
    /\ None \notin Fun
  BY ConstantsOK DEF Module

LEMMA SoundState ==
    ASSUME TypeOK
    PROVE  Sound(State) <=> DependentsTracked /\ CachedCellsBound
  <1>1. ASSUME Sound(State) PROVE DependentsTracked /\ CachedCellsBound
    <2>1. ASSUME NEW f \in Fun, NEW n \in Name
          PROVE  /\ cache[f][n] \in Module => f \in Range(dependents[cache[f][n]][n])
                 /\ cache[f][n] = Builtins => value[ModuleOf[f]][n] = Placeholder
                 /\ cache[f][n] # None => /\ cache[f][n] \in {ModuleOf[f], Builtins}
                                          /\ value[cache[f][n]][n] \in Value
      BY <1>1, ModulesOf DEF Sound, CacheOK, State
    <2>2. ASSUME NEW f \in Fun
          PROVE  /\ attr[f] \in Module => f \in Range(dependents[attr[f]][AttrName[f]])
                 /\ attr[f] # None => /\ attr[f] \in Module /\ AttrName[f] \in Name
                                      /\ value[attr[f]][AttrName[f]] \in Value
      BY <1>1, ModulesOf DEF Sound, AttrOK, State
    <2> QED
      BY <2>1, <2>2 DEF DependentsTracked, CachedCellsBound
  <1>2. ASSUME DependentsTracked, CachedCellsBound PROVE Sound(State)
    <2>1. ASSUME NEW f \in Fun, NEW n \in Name PROVE CacheOK(State, f, n)
      BY <1>2, ModulesOf DEF DependentsTracked, CachedCellsBound, CacheOK, State
    <2>2. ASSUME NEW f \in Fun PROVE AttrOK(State, f)
      BY <1>2 DEF DependentsTracked, CachedCellsBound, AttrOK, State
    <2> QED
      BY <2>1, <2>2 DEF Sound
  <1> QED
    BY <1>1, <1>2

LEMMA BecomeSound ==
    ASSUME NEW st, Become(st), Sound(st), TypeOK'
    PROVE  DependentsTracked' /\ CachedCellsBound'
  <1>1. ASSUME NEW f \in Fun, NEW n \in Name
        PROVE  /\ cache'[f][n] \in Module => f \in Range(dependents'[cache'[f][n]][n])
               /\ cache'[f][n] = Builtins => value'[ModuleOf[f]][n] = Placeholder
               /\ cache'[f][n] # None => /\ cache'[f][n] \in {ModuleOf[f], Builtins}
                                         /\ value'[cache'[f][n]][n] \in Value
    BY ModulesOf DEF Sound, CacheOK, Become
  <1>2. ASSUME NEW f \in Fun
        PROVE  /\ attr'[f] \in Module => f \in Range(dependents'[attr'[f]][AttrName[f]])
               /\ attr'[f] # None => /\ attr'[f] \in Module /\ AttrName[f] \in Name
                                     /\ value'[attr'[f]][AttrName[f]] \in Value
    BY ModulesOf DEF Sound, AttrOK, Become
  <1> QED
    BY <1>1, <1>2 DEF DependentsTracked, CachedCellsBound

\* After an invalidation nothing caches the cell.
LEMMA InvalidateSound ==
    ASSUME NEW st, Typed(st), Sound(st), NEW m \in Module, NEW n \in Name,
           NEW new, new = InvalidateGlobalVar(st, m, n)
    PROVE  /\ Sound(new)
           /\ \A f \in Fun : new.cache[f][n] # m
           /\ \A f \in Fun : AttrName[f] = n => new.attr[f] # m
  <1>1. /\ new.value = st.value
        /\ \A c \in Module, k \in Name :
             new.dependents[c][k] = IF c = m /\ k = n THEN <<>> ELSE st.dependents[c][k]
        /\ \A g \in Fun, k \in Name :
             new.cache[g][k] = IF k = n /\ ForgetsGlobal(st, g, m, n) THEN None ELSE st.cache[g][k]
        /\ \A g \in Fun :
             new.attr[g] = IF ForgetsAttr(st, g, m, n) THEN None ELSE st.attr[g]
    BY InvalidateEffect
  <1>2. ASSUME NEW f \in Fun, NEW k \in Name
        PROVE  CacheOK(new, f, k) /\ (k = n => new.cache[f][k] # m)
    <2>1. CASE new.cache[f][k] = None
      BY <2>1, ModulesOf DEF CacheOK
    <2>2. CASE new.cache[f][k] # None
      <3> DEFINE c == st.cache[f][k]
      <3>1. new.cache[f][k] = c /\ c # None /\ ~(k = n /\ ForgetsGlobal(st, f, m, n))
        BY <2>2, <1>1
      <3>2. CacheOK(st, f, k)
        BY DEF Sound
      <3>3. /\ c \in {ModuleOf[f], Builtins} /\ c \in Module
            /\ st.value[c][k] \in Value
            /\ f \in Range(st.dependents[c][k])
            /\ c = Builtins => st.value[ModuleOf[f]][k] = Placeholder
        BY <3>1, <3>2, ModulesOf DEF CacheOK
      <3> HIDE DEF c
      <3>4. ~(c = m /\ k = n)
        BY <3>1, <3>3, ModulesOf DEF ForgetsGlobal, Linked, c
      <3>5. new.dependents[c][k] = st.dependents[c][k]
        BY <3>3, <3>4, <1>1
      <3> QED
        BY <3>1, <3>3, <3>4, <3>5, <1>1 DEF CacheOK
    <2> QED
      BY <2>1, <2>2
  <1>3. ASSUME NEW f \in Fun
        PROVE  AttrOK(new, f) /\ (AttrName[f] = n => new.attr[f] # m)
    <2>1. CASE new.attr[f] = None
      BY <2>1, ModulesOf DEF AttrOK
    <2>2. CASE new.attr[f] # None
      <3> DEFINE c == st.attr[f]
                 k == AttrName[f]
      <3>1. new.attr[f] = c /\ c # None /\ ~ForgetsAttr(st, f, m, n)
        BY <2>2, <1>1
      <3>2. AttrOK(st, f)
        BY DEF Sound
      <3>3. /\ c \in Module /\ k \in Name
            /\ st.value[c][k] \in Value
            /\ f \in Range(st.dependents[c][k])
        BY <3>1, <3>2 DEF AttrOK
      <3>4. ~(c = m /\ k = n)
        BY <3>1, <3>3, ModulesOf DEF ForgetsAttr, Linked
      <3> HIDE DEF c, k
      <3>5. new.dependents[c][k] = st.dependents[c][k]
        BY <3>3, <3>4, <1>1
      <3> QED
        BY <3>1, <3>3, <3>4, <3>5, <1>1 DEF AttrOK, k
    <2> QED
      BY <2>1, <2>2
  <1> QED
    BY <1>2, <1>3 DEF Sound

\* A definition leaves no cache of the builtin that it shadows.
LEMMA AtPutSound ==
    ASSUME NEW st, Typed(st), Sound(st), NEW m \in Module, NEW n \in Name, NEW v \in Value,
           NEW new, new = ModuleAtPut(st, m, n, v)
    PROVE  Sound(new)
  <1> DEFINE old == IF Shadows(st, m, n) THEN InvalidateGlobalVar(st, Builtins, n) ELSE st
  <1>1. /\ \A c \in Module, k \in Name :
             new.value[c][k] = IF c = m /\ k = n THEN v ELSE st.value[c][k]
        /\ new.dependents = old.dependents /\ new.cache = old.cache /\ new.attr = old.attr
    BY AtPutEffect
  <1>2. /\ Sound(old)
        /\ Shadows(st, m, n) => \A f \in Fun : old.cache[f][n] # Builtins
    BY InvalidateSound, ModulesOf
  <1>3. old.value = st.value
    BY InvalidateEffect, ModulesOf
  <1> HIDE DEF old
  <1>4. ASSUME NEW f \in Fun, NEW k \in Name, new.cache[f][k] # None
        PROVE  /\ new.cache[f][k] \in {ModuleOf[f], Builtins}
               /\ new.value[new.cache[f][k]][k] \in Value
               /\ f \in Range(new.dependents[new.cache[f][k]][k])
               /\ new.cache[f][k] = Builtins => new.value[ModuleOf[f]][k] = Placeholder
    <2> DEFINE c == old.cache[f][k]
    <2>1. /\ c \in {ModuleOf[f], Builtins}
          /\ st.value[c][k] \in Value
          /\ f \in Range(old.dependents[c][k])
          /\ c = Builtins => st.value[ModuleOf[f]][k] = Placeholder
      BY <1>1, <1>2, <1>3, <1>4 DEF Sound, CacheOK
    <2>2. c \in Module /\ ModuleOf[f] \in Module /\ ModuleOf[f] # Builtins
      BY <2>1, ModulesOf
    <2>3. new.cache[f][k] = c /\ new.dependents[c][k] = old.dependents[c][k]
      BY <1>1
    <2> HIDE DEF c
    <2>4. new.value[c][k] \in Value
      BY <2>1, <2>2, <1>1
    <2>5. ASSUME c = Builtins PROVE new.value[ModuleOf[f]][k] = Placeholder
      <3>1. ~(ModuleOf[f] = m /\ k = n)
        BY <2>1, <2>2, <2>5, <1>2 DEF Shadows, c
      <3> QED
        BY <3>1, <2>1, <2>2, <2>5, <1>1
    <2> QED
      BY <2>1, <2>3, <2>4, <2>5
  <1>5. ASSUME NEW f \in Fun, new.attr[f] # None
        PROVE  /\ new.attr[f] \in Module /\ AttrName[f] \in Name
               /\ new.value[new.attr[f]][AttrName[f]] \in Value
               /\ f \in Range(new.dependents[new.attr[f]][AttrName[f]])
    BY <1>1, <1>2, <1>3, <1>5 DEF Sound, AttrOK
  <1> QED
    BY <1>4, <1>5 DEF Sound, CacheOK, AttrOK

\* A variable that has a value is removed.
LEMMA RemoveSound ==
    ASSUME NEW st, Typed(st), Sound(st), NEW m \in Module, NEW n \in Name,
           st.value[m][n] \in Value, NEW new, new = ModuleRemove(st, m, n)
    PROVE  Sound(new)
  <1> DEFINE old == InvalidateGlobalVar(st, m, n)
  <1>1. /\ \A c \in Module, k \in Name :
             new.value[c][k] = IF c = m /\ k = n THEN Absent ELSE st.value[c][k]
        /\ new.dependents = old.dependents
        /\ \A g \in Fun, k \in Name :
             new.cache[g][k] = IF k = n /\ old.cache[g][k] = m THEN Detached ELSE old.cache[g][k]
        /\ \A g \in Fun :
             new.attr[g] = IF AttrName[g] = n /\ old.attr[g] = m THEN Detached ELSE old.attr[g]
    BY RemoveEffect
  <1>2. /\ Sound(old)
        /\ \A f \in Fun : old.cache[f][n] # m
        /\ \A f \in Fun : AttrName[f] = n => old.attr[f] # m
    BY InvalidateSound
  <1>3. old.value = st.value
    BY InvalidateEffect
  <1> HIDE DEF old
  <1>4. ASSUME NEW f \in Fun, NEW k \in Name, new.cache[f][k] # None
        PROVE  /\ new.cache[f][k] \in {ModuleOf[f], Builtins}
               /\ new.value[new.cache[f][k]][k] \in Value
               /\ f \in Range(new.dependents[new.cache[f][k]][k])
               /\ new.cache[f][k] = Builtins => new.value[ModuleOf[f]][k] = Placeholder
    <2> DEFINE c == old.cache[f][k]
    <2>1. new.cache[f][k] = c /\ ~(c = m /\ k = n)
      BY <1>1, <1>2
    <2>2. /\ c \in {ModuleOf[f], Builtins}
          /\ st.value[c][k] \in Value
          /\ f \in Range(old.dependents[c][k])
          /\ c = Builtins => st.value[ModuleOf[f]][k] = Placeholder
      BY <2>1, <1>2, <1>3, <1>4 DEF Sound, CacheOK
    <2>3. c \in Module /\ ModuleOf[f] \in Module
      BY <2>2, ModulesOf
    <2> HIDE DEF c
    <2>4. new.value[c][k] \in Value /\ new.dependents[c][k] = old.dependents[c][k]
      BY <2>1, <2>2, <2>3, <1>1
    <2>5. ASSUME c = Builtins PROVE new.value[ModuleOf[f]][k] = Placeholder
      <3>1. ~(ModuleOf[f] = m /\ k = n)
        BY <2>2, <2>5, ModulesOf
      <3> QED
        BY <3>1, <2>2, <2>3, <2>5, <1>1
    <2> QED
      BY <2>1, <2>2, <2>4, <2>5
  <1>5. ASSUME NEW f \in Fun, new.attr[f] # None
        PROVE  /\ new.attr[f] \in Module /\ AttrName[f] \in Name
               /\ new.value[new.attr[f]][AttrName[f]] \in Value
               /\ f \in Range(new.dependents[new.attr[f]][AttrName[f]])
    <2>1. new.attr[f] = old.attr[f] /\ ~(old.attr[f] = m /\ AttrName[f] = n)
      BY <1>1, <1>2
    <2> QED
      BY <2>1, <1>1, <1>2, <1>3, <1>5 DEF Sound, AttrOK
  <1> QED
    BY <1>4, <1>5 DEF Sound, CacheOK, AttrOK

\* A cell is cached for a name, unless one is already: no link is lost.
Updated(st, new, f, n, m) ==
    /\ new.value = st.value /\ new.attr = st.attr
    /\ \A g \in Fun, k \in Name :
         new.cache[g][k] = IF g = f /\ k = n /\ st.cache[f][n] = None THEN m ELSE st.cache[g][k]
    /\ \A c \in Module, k \in Name : Range(st.dependents[c][k]) \subseteq Range(new.dependents[c][k])
    /\ st.cache[f][n] = None => f \in Range(new.dependents[m][n])

LEMMA UpdateLinks ==
    ASSUME NEW st, Typed(st), NEW f \in Fun, NEW n \in Name, NEW m \in Module,
           NEW new, new = UpdateGlobalVar(st, f, n, m)
    PROVE  Typed(new) /\ Updated(st, new, f, n, m)
  <1>1. CASE st.cache[f][n] # None
    <2>1. new = st
      BY <1>1, UpdateKept
    <2> QED
      BY <1>1, <2>1 DEF Updated
  <1>2. CASE st.cache[f][n] = None
    <2> DEFINE links == st.dependents[m][n]
    <2>1. /\ Typed(new)
          /\ new.value = st.value /\ new.attr = st.attr
          /\ \A g \in Fun, k \in Name :
               new.cache[g][k] = IF g = f /\ k = n THEN m ELSE st.cache[g][k]
          /\ \A c \in Module, k \in Name :
               new.dependents[c][k] = IF c = m /\ k = n THEN <<f>> \o st.dependents[m][n]
                                      ELSE st.dependents[c][k]
      BY <1>2, UpdateEffect
    <2>2. links \in Seq(Link) /\ f \in Link
      <3>1. st.dependents \in [Module -> [Name -> Seq(Link)]]
        BY Fields
      <3> QED
        BY <3>1 DEF Link
    <2>3. f \in Range(<<f>> \o links) /\ Range(links) \subseteq Range(<<f>> \o links)
      BY <2>2, ConsLink
    <2>4. \A c \in Module, k \in Name : Range(st.dependents[c][k]) \subseteq Range(new.dependents[c][k])
      BY <2>1, <2>3
    <2> QED
      BY <1>2, <2>1, <2>3, <2>4 DEF Updated
  <1> QED
    BY <1>1, <1>2

\* A function caches a variable of its own module that has a value.
LEMMA UpdateSound ==
    ASSUME NEW st, Typed(st), Sound(st), NEW f \in Fun, NEW n \in Name,
           st.value[ModuleOf[f]][n] \in Value,
           NEW new, new = UpdateGlobalVar(st, f, n, ModuleOf[f])
    PROVE  Sound(new)
  <1> DEFINE m == ModuleOf[f]
  <1>1. m \in Module /\ m # Builtins
    BY ModulesOf
  <1>2. Updated(st, new, f, n, m)
    BY <1>1, UpdateLinks
  <1>3. ASSUME NEW g \in Fun, NEW k \in Name PROVE CacheOK(new, g, k)
    <2>1. CASE g = f /\ k = n /\ st.cache[f][n] = None
      BY <2>1, <1>1, <1>2 DEF CacheOK, Updated
    <2>2. CASE ~(g = f /\ k = n /\ st.cache[f][n] = None)
      <3>1. new.cache[g][k] = st.cache[g][k]
        BY <2>2, <1>2 DEF Updated
      <3>2. CacheOK(st, g, k)
        BY DEF Sound
      <3> QED
        BY <3>1, <3>2, <1>2, ModulesOf DEF CacheOK, Updated
    <2> QED
      BY <2>1, <2>2
  <1>4. ASSUME NEW g \in Fun PROVE AttrOK(new, g)
    <2>1. AttrOK(st, g)
      BY DEF Sound
    <2> QED
      BY <2>1, <1>2 DEF AttrOK, Updated
  <1> QED
    BY <1>3, <1>4 DEF Sound

\* A function caches a builtin, and a placeholder takes the place of the variable
\* without a value.
LEMMA LoadBuiltinSound ==
    ASSUME NEW st, Typed(st), Sound(st), NEW f \in Fun, NEW n \in Name,
           st.value[ModuleOf[f]][n] \notin Value, st.value[Builtins][n] \in Value,
           NEW upd, upd = UpdateGlobalVar(st, f, n, Builtins),
           NEW new, new = [upd EXCEPT !.value = Put(@, ModuleOf[f], n, Placeholder)]
    PROVE  Sound(new)
  <1>1. Builtins \in Module /\ ModuleOf[f] \in Module /\ ModuleOf[f] # Builtins
    BY ModulesOf
  <1>2. Typed(upd) /\ Updated(st, upd, f, n, Builtins)
    BY <1>1, UpdateLinks
  <1>3. /\ new.dependents = upd.dependents /\ new.cache = upd.cache /\ new.attr = upd.attr
        /\ new.value = Put(upd.value, ModuleOf[f], n, Placeholder)
    <2>1. Placeholder \in Contents
      BY DEF Contents
    <2> QED
      BY <2>1, <1>1, <1>2, PutValueTyped
  <1>4. \A c \in Module, k \in Name :
            new.value[c][k] = IF c = ModuleOf[f] /\ k = n THEN Placeholder ELSE st.value[c][k]
    <2>1. st.value \in [Module -> [Name -> Contents]]
      BY Fields
    <2> QED
      BY <2>1, <1>1, <1>2, <1>3 DEF Put, Updated
  <1>5. ASSUME NEW g \in Fun, NEW k \in Name PROVE CacheOK(new, g, k)
    <2>1. CASE g = f /\ k = n /\ st.cache[f][n] = None
      BY <2>1, <1>1, <1>2, <1>3, <1>4 DEF CacheOK, Updated
    <2>2. CASE ~(g = f /\ k = n /\ st.cache[f][n] = None)
      <3>1. new.cache[g][k] = st.cache[g][k]
        BY <2>2, <1>2, <1>3 DEF Updated
      <3>2. CASE st.cache[g][k] = None
        BY <3>1, <3>2 DEF CacheOK
      <3>3. CASE st.cache[g][k] # None
        <4> DEFINE c == st.cache[g][k]
        <4>1. CacheOK(st, g, k)
          BY DEF Sound
        <4>2. /\ c \in {ModuleOf[g], Builtins} /\ c \in Module /\ ModuleOf[g] \in Module
              /\ st.value[c][k] \in Value
              /\ g \in Range(st.dependents[c][k])
              /\ c = Builtins => st.value[ModuleOf[g]][k] = Placeholder
          BY <3>3, <4>1, ModulesOf DEF CacheOK
        <4> HIDE DEF c
        <4>3. new.value[c][k] = st.value[c][k]
          BY <4>2, <1>4
        <4>4. c = Builtins => new.value[ModuleOf[g]][k] = Placeholder
          BY <4>2, <1>4
        <4>5. g \in Range(new.dependents[c][k])
          BY <4>2, <1>2, <1>3 DEF Updated
        <4> QED
          BY <3>1, <4>2, <4>3, <4>4, <4>5 DEF CacheOK, c
      <3> QED
        BY <3>2, <3>3
    <2> QED
      BY <2>1, <2>2
  <1>6. ASSUME NEW g \in Fun PROVE AttrOK(new, g)
    <2> DEFINE c == st.attr[g]
    <2>1. AttrOK(st, g)
      BY DEF Sound
    <2>2. new.attr[g] = c
      BY <1>2, <1>3 DEF Updated
    <2>3. CASE c = None
      BY <2>2, <2>3 DEF AttrOK
    <2>4. CASE c # None
      <3>1. /\ c \in Module /\ AttrName[g] \in Name
            /\ st.value[c][AttrName[g]] \in Value
            /\ g \in Range(st.dependents[c][AttrName[g]])
        BY <2>1, <2>4 DEF AttrOK
      <3> HIDE DEF c
      <3>2. new.value[c][AttrName[g]] \in Value
        BY <3>1, <1>4
      <3>3. g \in Range(new.dependents[c][AttrName[g]])
        BY <3>1, <1>2, <1>3 DEF Updated
      <3> QED
        BY <2>2, <3>1, <3>2, <3>3 DEF AttrOK
    <2> QED
      BY <2>3, <2>4
  <1> QED
    BY <1>5, <1>6 DEF Sound

\* The names of a function fit the argument of an opcode.
FewNames ==
    \A f \in Fun : \A k, n \in Name :
        NameIndex[f][n] < kByteValues /\ (NameIndex[f][k] = NameIndex[f][n] => k = n)

LEMMA SmallRemainder == \A i \in Nat, k \in Nat \ {0} : i < k => i % k = i
  OBVIOUS

LEMMA HitsOne ==
    ASSUME FewNames, NEW f \in Fun, NEW n \in Name
    PROVE  Hits(f, n) = {n}
  <1>1. NameIndex[f][n] \in Nat /\ kByteValues \in Nat \ {0}
    BY ConstantsOK
  <1>2. NameIndex[f][n] % kByteValues = NameIndex[f][n]
    BY <1>1, SmallRemainder DEF FewNames
  <1> QED
    BY <1>2 DEF Hits, FewNames

\* The opcodes of one name become ..._CACHED with its cache.
OnlyNamed(st, new, f, n) ==
    /\ \A g \in Fun : g # f => new.loads[g] = st.loads[g] /\ new.stores[g] = st.stores[g]
    /\ new.loads[f] \subseteq st.loads[f] \cup {n}
    /\ new.stores[f] \subseteq st.stores[f] \cup {n}

LEMMA UpdateOpcodes ==
    ASSUME FewNames, NEW st, Typed(st), NEW f \in Fun, NEW n \in Name, NEW m \in Module,
           st.cache[f][n] = None, NEW new, new = UpdateGlobalVar(st, f, n, m)
    PROVE  OnlyNamed(st, new, f, n)
  <1>1. Hits(f, n) = {n}
    BY HitsOne
  <1>2. /\ new.loads = [st.loads EXCEPT ![f] = @ \cup (Hits(f, n) \cap Loads[f])]
        /\ new.stores = [st.stores EXCEPT ![f] = @ \cup (Hits(f, n) \cap Stores[f])]
    BY DEF UpdateGlobalVar, Hits
  <1>3. st.loads \in [Fun -> SUBSET Name] /\ st.stores \in [Fun -> SUBSET Name]
    BY Fields
  <1> QED
    BY <1>1, <1>2, <1>3 DEF OnlyNamed

LEMMA UpdateFilled ==
    ASSUME FewNames, NEW st, Typed(st), Filled(st),
           NEW f \in Fun, NEW n \in Name, NEW m \in Module,
           NEW new, new = UpdateGlobalVar(st, f, n, m)
    PROVE  Filled(new)
  <1>1. CASE st.cache[f][n] # None
    BY <1>1, UpdateKept
  <1>2. CASE st.cache[f][n] = None
    <2>1. Typed(new) /\ Updated(st, new, f, n, m) /\ OnlyNamed(st, new, f, n)
      BY <1>2, UpdateLinks, UpdateOpcodes
    <2>2. \A g \in Fun : new.loads[g] \cup new.stores[g] \subseteq Name
      BY <2>1, Fields
    <2>3. ASSUME NEW g \in Fun, NEW k \in new.loads[g] \cup new.stores[g]
          PROVE  new.cache[g][k] # None
      <3>1. k \in Name
        BY <2>2
      <3>2. CASE g = f /\ k = n
        BY <1>2, <2>1, <3>1, <3>2, ModulesOf DEF Updated
      <3>3. CASE ~(g = f /\ k = n)
        <4>1. k \in st.loads[g] \cup st.stores[g]
          BY <2>1, <3>3 DEF OnlyNamed
        <4> QED
          BY <2>1, <3>1, <3>3, <4>1 DEF Filled, Updated
      <3> QED
        BY <3>2, <3>3
    <2> QED
      BY <2>3 DEF Filled
  <1> QED
    BY <1>1, <1>2

LEMMA InvalidateFilled ==
    ASSUME NEW st, Typed(st), Filled(st), NEW m \in Module, NEW n \in Name,
           NEW new, new = InvalidateGlobalVar(st, m, n)
    PROVE  Filled(new)
  <1>1. \A g \in Fun, k \in Name :
             new.cache[g][k] = IF k = n /\ ForgetsGlobal(st, g, m, n) THEN None ELSE st.cache[g][k]
    BY InvalidateEffect
  <1>2. \A g \in Fun :
             new.loads[g] = IF ForgetsGlobal(st, g, m, n) THEN st.loads[g] \ {n} ELSE st.loads[g]
    BY DEF InvalidateGlobalVar
  <1>3. \A g \in Fun :
             new.stores[g] = IF ForgetsGlobal(st, g, m, n) THEN st.stores[g] \ {n} ELSE st.stores[g]
    BY DEF InvalidateGlobalVar
  <1>4. \A g \in Fun : st.loads[g] \cup st.stores[g] \subseteq Name
    BY Fields
  <1>5. ASSUME NEW g \in Fun, NEW k \in new.loads[g] \cup new.stores[g]
        PROVE  new.cache[g][k] # None
    <2>1. k \in st.loads[g] \cup st.stores[g] /\ ~(k = n /\ ForgetsGlobal(st, g, m, n))
      BY <1>2, <1>3
    <2>2. k \in Name
      BY <2>1, <1>4
    <2> QED
      BY <1>1, <2>1, <2>2 DEF Filled
  <1> QED
    BY <1>5 DEF Filled

LEMMA AtPutFilled ==
    ASSUME NEW st, Typed(st), Filled(st), NEW m \in Module, NEW n \in Name, NEW v \in Value,
           NEW new, new = ModuleAtPut(st, m, n, v)
    PROVE  Filled(new)
  <1> DEFINE old == IF Shadows(st, m, n) THEN InvalidateGlobalVar(st, Builtins, n) ELSE st
  <1>1. Filled(old)
    BY InvalidateFilled, ModulesOf
  <1>2. new.cache = old.cache /\ new.loads = old.loads /\ new.stores = old.stores
    BY AtPutEffect
  <1> QED
    BY <1>1, <1>2 DEF Filled

LEMMA RemoveFilled ==
    ASSUME NEW st, Typed(st), Filled(st), NEW m \in Module, NEW n \in Name,
           NEW new, new = ModuleRemove(st, m, n)
    PROVE  Filled(new)
  <1> DEFINE old == InvalidateGlobalVar(st, m, n)
  <1>1. Filled(old) /\ Typed(old)
    BY InvalidateFilled, InvalidateEffect
  <1>2. /\ \A g \in Fun, k \in Name :
             new.cache[g][k] = IF k = n /\ old.cache[g][k] = m THEN Detached ELSE old.cache[g][k]
        /\ new.loads = old.loads /\ new.stores = old.stores
    BY RemoveEffect
  <1>3. \A g \in Fun : old.loads[g] \cup old.stores[g] \subseteq Name
    BY <1>1, Fields
  <1> HIDE DEF old
  <1>4. ASSUME NEW g \in Fun, NEW k \in new.loads[g] \cup new.stores[g]
        PROVE  new.cache[g][k] # None
    BY <1>1, <1>2, <1>3, ConstantsOK DEF Filled
  <1> QED
    BY <1>4 DEF Filled

-----------------------------------------------------------------------------
(***************************************************************************)
(* Every step leads to a state of cells and caches that keeps all of it.   *)
(***************************************************************************)

\* A value is assigned to a cell that has one.
LEMMA PutBoundSound ==
    ASSUME NEW st, Typed(st), Sound(st), NEW c \in Module, NEW n \in Name, NEW v \in Value,
           st.value[c][n] \in Value, NEW new, new = [st EXCEPT !.value = Put(@, c, n, v)]
    PROVE  Sound(new)
  <1>1. v \in Contents
    BY DEF Contents
  <1>2. /\ new.dependents = st.dependents /\ new.cache = st.cache /\ new.attr = st.attr
        /\ new.value = Put(st.value, c, n, v)
    BY <1>1, PutValueTyped
  <1>3. st.value \in [Module -> [Name -> Contents]]
    BY Fields
  <1>4. \A d \in Module, k \in Name :
            new.value[d][k] = IF d = c /\ k = n THEN v ELSE st.value[d][k]
    BY <1>2, <1>3 DEF Put
  <1>5. \A d \in Module, k \in Name :
            /\ st.value[d][k] \in Value => new.value[d][k] \in Value
            /\ st.value[d][k] = Placeholder => new.value[d][k] = Placeholder
    BY <1>4, ModulesOf
  <1>6. ASSUME NEW g \in Fun, NEW k \in Name PROVE CacheOK(new, g, k)
    <2>1. CacheOK(st, g, k)
      BY DEF Sound
    <2> QED
      BY <2>1, <1>2, <1>5, ModulesOf DEF CacheOK
  <1>7. ASSUME NEW g \in Fun PROVE AttrOK(new, g)
    <2>1. AttrOK(st, g)
      BY DEF Sound
    <2> QED
      BY <2>1, <1>2, <1>5 DEF AttrOK
  <1> QED
    BY <1>6, <1>7 DEF Sound

\* What a step keeps, with what it needs for it.
Keeps(new) ==
    /\ Typed(new)
    /\ ~RemovesUnbound /\ Sound(State) => Sound(new)
    /\ FewNames /\ Filled(State) => Filled(new)

Kept == \E new : Become(new) /\ Keeps(new)

\* An assignment to a cell of a state keeps what its other fields say.
LEMMA SameCaches ==
    ASSUME NEW st, NEW new,
           new.cache = st.cache, new.loads = st.loads, new.stores = st.stores
    PROVE  Filled(st) => Filled(new)
  BY DEF Filled

LEMMA LoadGlobalKeeps ==
    ASSUME Typed(State), NEW f \in Fun, NEW n \in Name, LoadGlobal(f, n)
    PROVE  Kept
  <1> DEFINE m == LookupGlobal(ModuleOf[f], n)
             upd == UpdateGlobalVar(State, f, n, m)
             put == [upd EXCEPT !.value = Put(@, ModuleOf[f], n, Placeholder)]
             new == IF m = Builtins THEN put ELSE upd
  <1>1. n \in Loads[f] /\ m # None /\ Become(new)
    BY DEF LoadGlobal
  <1>2. /\ \/ m = ModuleOf[f] /\ State.value[m][n] \in Value
           \/ /\ m = Builtins /\ State.value[Builtins][n] \in Value
              /\ State.value[ModuleOf[f]][n] \notin Value
        /\ m \in Module
    BY <1>1, ModulesOf DEF LookupGlobal, State
  <1> HIDE DEF m
  <1>3. Typed(upd)
    BY <1>2, UpdateLinks
  <1>4. FewNames /\ Filled(State) => Filled(upd)
    BY <1>2, UpdateFilled
  <1>5. CASE m = Builtins
    <2>1. Typed(put) /\ put.cache = upd.cache /\ put.loads = upd.loads /\ put.stores = upd.stores
      <3>1. Placeholder \in Contents /\ ModuleOf[f] \in Module
        BY ModulesOf DEF Contents
      <3> QED
        BY <3>1, <1>3, PutValueTyped
    <2>2. Sound(State) => Sound(put)
      BY <1>2, <1>5, ModulesOf, LoadBuiltinSound
    <2> HIDE DEF upd, put
    <2>3. Keeps(put)
      BY <2>1, <2>2, <1>4, SameCaches DEF Keeps
    <2> QED
      BY <2>3, <1>1, <1>5 DEF Kept
  <1>6. CASE m # Builtins
    <2>1. Sound(State) => Sound(upd)
      BY <1>2, <1>6, UpdateSound
    <2> HIDE DEF upd, put
    <2>2. Keeps(upd)
      BY <2>1, <1>3, <1>4 DEF Keeps
    <2> QED
      BY <2>2, <1>1, <1>6 DEF Kept
  <1> QED
    BY <1>5, <1>6

LEMMA StoreGlobalKeeps ==
    ASSUME Typed(State), NEW f \in Fun, NEW n \in Name, NEW v \in Value, StoreGlobal(f, n, v)
    PROVE  Kept
  <1> DEFINE m == ModuleOf[f]
             put == ModuleAtPut(State, m, n, v)
             new == UpdateGlobalVar(put, f, n, m)
  <1>1. m \in Module /\ Become(new)
    BY ModulesOf DEF StoreGlobal
  <1>2. Typed(put) /\ put.value[m][n] = v
    BY <1>1, AtPutEffect
  <1>3. /\ Sound(State) => Sound(put)
        /\ Filled(State) => Filled(put)
    BY <1>1, AtPutSound, AtPutFilled
  <1> HIDE DEF put
  <1>4. Typed(new)
    BY <1>1, <1>2, UpdateLinks
  <1>5. Sound(put) => Sound(new)
    BY <1>2, UpdateSound
  <1>6. FewNames /\ Filled(put) => Filled(new)
    BY <1>1, <1>2, UpdateFilled
  <1> HIDE DEF new
  <1>7. Keeps(new)
    BY <1>3, <1>4, <1>5, <1>6 DEF Keeps
  <1> QED
    BY <1>1, <1>7 DEF Kept

LEMMA StoreGlobalCachedKeeps ==
    ASSUME Typed(State), NEW f \in Fun, NEW n \in Name, NEW v \in Value, StoreGlobalCached(f, n, v)
    PROVE  Kept
  <1> DEFINE c == State.cache[f][n]
             new == [State EXCEPT !.value = Put(@, c, n, v)]
  <1>1. c \in Module /\ Become(new)
    BY DEF StoreGlobalCached, State
  <1>2. v \in Contents
    BY DEF Contents
  <1>3. Typed(new) /\ new.cache = State.cache /\ new.loads = State.loads /\ new.stores = State.stores
    BY <1>1, <1>2, PutValueTyped
  <1>4. ASSUME Sound(State) PROVE Sound(new)
    <2>1. State.value[c][n] \in Value
      BY <1>1, <1>4, ModulesOf DEF Sound, CacheOK
    <2> QED
      BY <2>1, <1>1, <1>4, PutBoundSound
  <1> HIDE DEF new
  <1>5. Keeps(new)
    BY <1>3, <1>4, SameCaches DEF Keeps
  <1> QED
    BY <1>1, <1>5 DEF Kept

LEMMA SetModuleAttributeKeeps ==
    ASSUME Typed(State), NEW m \in Module, NEW n \in Name, NEW v \in Value,
           SetModuleAttribute(m, n, v)
    PROVE  Kept
  <1> DEFINE new == ModuleAtPut(State, m, n, v)
  <1>1. Become(new)
    BY DEF SetModuleAttribute
  <1>2. Typed(new)
    BY AtPutEffect
  <1>3. /\ Sound(State) => Sound(new)
        /\ Filled(State) => Filled(new)
    BY AtPutSound, AtPutFilled
  <1> HIDE DEF new
  <1>4. Keeps(new)
    BY <1>2, <1>3 DEF Keeps
  <1> QED
    BY <1>1, <1>4 DEF Kept

LEMMA RemoveModuleAttributeKeeps ==
    ASSUME Typed(State), NEW m \in Module, NEW n \in Name, RemoveModuleAttribute(m, n)
    PROVE  Kept
  <1> DEFINE new == ModuleRemove(State, m, n)
  <1>1. Become(new) /\ (~RemovesUnbound => State.value[m][n] \in Value)
    BY DEF RemoveModuleAttribute, State
  <1>2. Typed(new)
    BY RemoveEffect
  <1>3. ~RemovesUnbound /\ Sound(State) => Sound(new)
    BY <1>1, RemoveSound
  <1>4. Filled(State) => Filled(new)
    BY RemoveFilled
  <1> HIDE DEF new
  <1>5. Keeps(new)
    BY <1>2, <1>3, <1>4 DEF Keeps
  <1> QED
    BY <1>1, <1>5 DEF Kept

LEMMA LoadAttrModuleKeeps ==
    ASSUME Typed(State), NEW f \in Fun, NEW m \in Module, LoadAttrModule(f, m)
    PROVE  Kept
  <1> DEFINE n == AttrName[f]
             found == value[m][n] \in Value
             links == InsertDependent(dependents[m][n], f)
             new == [value |-> value, dependents |-> dependents', cache |-> cache, attr |-> attr',
                     loads |-> cachedLoads, stores |-> cachedStores]
  <1>1. /\ n \in Name
        /\ attr' = [attr EXCEPT ![f] = IF found THEN m ELSE None]
        /\ dependents' = IF found THEN Put(dependents, m, n, links) ELSE dependents
        /\ UNCHANGED <<value, cache, cachedLoads, cachedStores>>
    BY ConstantsOK DEF LoadAttrModule
  <1>2. Become(new)
    BY <1>1 DEF Become
  <1>3. /\ value \in [Module -> [Name -> Contents]] /\ cache \in [Fun -> [Name -> Cell]]
        /\ dependents \in [Module -> [Name -> Seq(Link)]] /\ attr \in [Fun -> Cell]
        /\ cachedLoads \in [Fun -> SUBSET Name] /\ cachedStores \in [Fun -> SUBSET Name]
    BY Fields DEF State
  <1>4. /\ links \in Seq(Link)
        /\ f \in Range(links)
        /\ Range(dependents[m][n]) \ {None} \subseteq Range(links)
    BY <1>1, <1>3, InsertDependentLinks
  <1> HIDE DEF links, n, found
  <1>5. /\ dependents' \in [Module -> [Name -> Seq(Link)]]
        /\ \A c \in Module, k \in Name :
             dependents'[c][k] = IF found /\ c = m /\ k = n THEN links ELSE dependents[c][k]
    BY <1>1, <1>3, <1>4 DEF Put
  <1>6. /\ attr' \in [Fun -> Cell]
        /\ \A g \in Fun : attr'[g] = IF g = f THEN IF found THEN m ELSE None ELSE attr[g]
    <2>1. m \in Cell /\ None \in Cell
      BY DEF Cell
    <2> QED
      BY <2>1, <1>1, <1>3
  <1>7. Typed(new)
    <2>1. \A g \in Fun : cachedLoads[g] \subseteq Loads[g] /\ cachedStores[g] \subseteq Stores[g]
      BY DEF Typed, State
    <2> QED
      BY <2>1, <1>3, <1>5, <1>6 DEF Typed, States
  <1>8. \A g \in Fun, c \in Module, k \in Name :
            g \in Range(dependents[c][k]) => g \in Range(dependents'[c][k])
    BY <1>4, <1>5, ModulesOf
  <1>9. ASSUME Sound(State) PROVE Sound(new)
    <2>1. ASSUME NEW g \in Fun, NEW k \in Name PROVE CacheOK(new, g, k)
      <3>1. CacheOK(State, g, k)
        BY <1>9 DEF Sound
      <3> QED
        BY <3>1, <1>8, ModulesOf DEF CacheOK, State
    <2>2. ASSUME NEW g \in Fun PROVE AttrOK(new, g)
      <3>1. CASE g = f
        BY <3>1, <1>1, <1>4, <1>5, <1>6 DEF AttrOK, n, found
      <3>2. CASE g # f
        <4>1. AttrOK(State, g)
          BY <1>9 DEF Sound
        <4> QED
          BY <4>1, <3>2, <1>6, <1>8 DEF AttrOK, State
      <3> QED
        BY <3>1, <3>2
    <2> QED
      BY <2>1, <2>2 DEF Sound
  <1>10. new.cache = State.cache /\ new.loads = State.loads /\ new.stores = State.stores
    BY DEF State
  <1> HIDE DEF new
  <1>11. Keeps(new)
    BY <1>7, <1>9, <1>10, SameCaches DEF Keeps
  <1> QED
    BY <1>2, <1>11 DEF Kept

LEMMA CollectFunctionKeeps ==
    ASSUME Typed(State), NEW f \in Fun, CollectFunction(f)
    PROVE  Kept
  <1> DEFINE rest(links) == [k \in DOMAIN links |-> IF links[k] = f THEN None ELSE links[k]]
             new == [value |-> value, dependents |-> dependents', cache |-> cache', attr |-> attr',
                     loads |-> cachedLoads', stores |-> cachedStores']
  <1>1. /\ dependents' = [m \in Module |-> [n \in Name |-> rest(dependents[m][n])]]
        /\ cache' = [cache EXCEPT ![f] = [n \in Name |-> None]]
        /\ attr' = [attr EXCEPT ![f] = None]
        /\ cachedLoads' = [cachedLoads EXCEPT ![f] = {}]
        /\ cachedStores' = [cachedStores EXCEPT ![f] = {}]
        /\ value' = value
    BY DEF CollectFunction
  <1>2. Become(new)
    BY <1>1 DEF Become
  <1>3. /\ value \in [Module -> [Name -> Contents]] /\ cache \in [Fun -> [Name -> Cell]]
        /\ dependents \in [Module -> [Name -> Seq(Link)]] /\ attr \in [Fun -> Cell]
        /\ cachedLoads \in [Fun -> SUBSET Name] /\ cachedStores \in [Fun -> SUBSET Name]
    BY Fields DEF State
  <1>4. ASSUME NEW m \in Module, NEW n \in Name
        PROVE  /\ rest(dependents[m][n]) \in Seq(Link)
               /\ Range(dependents[m][n]) \ {f} \subseteq Range(rest(dependents[m][n]))
    <2>1. dependents[m][n] \in Seq(Link)
      BY <1>3
    <2> QED
      BY <2>1, LinksWithout
  <1> HIDE DEF rest
  <1>5. /\ dependents' \in [Module -> [Name -> Seq(Link)]]
        /\ \A g \in Fun, m \in Module, n \in Name :
             g # f /\ g \in Range(dependents[m][n]) => g \in Range(dependents'[m][n])
    BY <1>1, <1>4
  <1>6. None \in Cell
    BY DEF Cell
  <1>7. /\ cache' \in [Fun -> [Name -> Cell]] /\ attr' \in [Fun -> Cell]
        /\ cachedLoads' \in [Fun -> SUBSET Name] /\ cachedStores' \in [Fun -> SUBSET Name]
        /\ \A n \in Name : cache'[f][n] = None
        /\ attr'[f] = None /\ cachedLoads'[f] = {} /\ cachedStores'[f] = {}
        /\ \A g \in Fun : g # f => /\ cache'[g] = cache[g] /\ attr'[g] = attr[g]
                                  /\ cachedLoads'[g] = cachedLoads[g]
                                  /\ cachedStores'[g] = cachedStores[g]
    BY <1>1, <1>3, <1>6
  <1>8. Typed(new)
    <2>1. \A g \in Fun : cachedLoads[g] \subseteq Loads[g] /\ cachedStores[g] \subseteq Stores[g]
      BY DEF Typed, State
    <2>2. \A g \in Fun : cachedLoads'[g] \subseteq Loads[g] /\ cachedStores'[g] \subseteq Stores[g]
      BY <2>1, <1>7
    <2>3. value' \in [Module -> [Name -> Contents]]
      BY <1>1, <1>3
    <2> QED
      BY <2>2, <2>3, <1>1, <1>3, <1>5, <1>7 DEF Typed, States
  <1>9. ASSUME Sound(State) PROVE Sound(new)
    <2>1. ASSUME NEW g \in Fun, NEW k \in Name PROVE CacheOK(new, g, k)
      <3>1. CASE g = f
        BY <3>1, <1>7 DEF CacheOK
      <3>2. CASE g # f
        <4>1. CacheOK(State, g, k)
          BY <1>9 DEF Sound
        <4>2. cache[g][k] # None => cache[g][k] \in Module
          BY <4>1, ModulesOf DEF CacheOK, State
        <4> QED
          BY <4>1, <4>2, <3>2, <1>1, <1>5, <1>7 DEF CacheOK, State
      <3> QED
        BY <3>1, <3>2
    <2>2. ASSUME NEW g \in Fun PROVE AttrOK(new, g)
      <3>1. CASE g = f
        BY <3>1, <1>7 DEF AttrOK
      <3>2. CASE g # f
        <4>1. AttrOK(State, g)
          BY <1>9 DEF Sound
        <4> QED
          BY <4>1, <3>2, <1>1, <1>5, <1>7 DEF AttrOK, State
      <3> QED
        BY <3>1, <3>2
    <2> QED
      BY <2>1, <2>2 DEF Sound
  <1>10. Filled(State) => Filled(new)
    BY <1>7 DEF Filled, State
  <1> HIDE DEF new
  <1>11. Keeps(new)
    BY <1>8, <1>9, <1>10 DEF Keeps
  <1> QED
    BY <1>2, <1>11 DEF Kept

LEMMA StepKeeps ==
    ASSUME TypeOK, [Next]_vars
    PROVE  Kept /\ live' \subseteq Fun
  <1>1. Typed(State) /\ live \subseteq Fun
    BY TypedState
  <1>2. CASE UNCHANGED vars
    <2>1. Become(State)
      BY <1>2 DEF Become, State, vars
    <2>2. Keeps(State)
      BY <1>1 DEF Keeps
    <2> QED
      BY <2>1, <2>2, <1>1, <1>2 DEF Kept, vars
  <1>3. ASSUME NEW f \in Fun, NEW n \in Name, LoadGlobal(f, n) PROVE Kept /\ live' \subseteq Fun
    BY <1>1, <1>3, LoadGlobalKeeps DEF LoadGlobal
  <1>4. ASSUME NEW f \in Fun, NEW n \in Name, NEW v \in Value, StoreGlobal(f, n, v)
        PROVE  Kept /\ live' \subseteq Fun
    BY <1>1, <1>4, StoreGlobalKeeps DEF StoreGlobal
  <1>5. ASSUME NEW f \in Fun, NEW n \in Name, NEW v \in Value, StoreGlobalCached(f, n, v)
        PROVE  Kept /\ live' \subseteq Fun
    BY <1>1, <1>5, StoreGlobalCachedKeeps DEF StoreGlobalCached
  <1>6. ASSUME NEW f \in Fun, NEW m \in Module, LoadAttrModule(f, m) PROVE Kept /\ live' \subseteq Fun
    BY <1>1, <1>6, LoadAttrModuleKeeps DEF LoadAttrModule
  <1>7. ASSUME NEW m \in Module, NEW n \in Name, NEW v \in Value, SetModuleAttribute(m, n, v)
        PROVE  Kept /\ live' \subseteq Fun
    BY <1>1, <1>7, SetModuleAttributeKeeps DEF SetModuleAttribute
  <1>8. ASSUME NEW m \in Module, NEW n \in Name, RemoveModuleAttribute(m, n)
        PROVE  Kept /\ live' \subseteq Fun
    BY <1>1, <1>8, RemoveModuleAttributeKeeps DEF RemoveModuleAttribute
  <1>9. ASSUME NEW f \in Droppable, CollectFunction(f) PROVE Kept /\ live' \subseteq Fun
    BY <1>1, <1>9, ConstantsOK, CollectFunctionKeeps DEF CollectFunction
  <1> QED
    BY <1>2, <1>3, <1>4, <1>5, <1>6, <1>7, <1>8, <1>9 DEF Next

-----------------------------------------------------------------------------
(***************************************************************************)
(* The theorems.                                                           *)
(***************************************************************************)

\* In the first state nothing is cached.
LEMMA InitKeeps ==
    ASSUME Init
    PROVE  TypeOK /\ Sound(State) /\ Filled(State)
  <1>1. value \in [Module -> [Name -> Value \cup {Placeholder, Absent}]]
    BY ConstantsOK DEF Init
  <1>2. dependents \in [Module -> [Name -> Seq(Fun \cup {None})]]
    BY DEF Init
  <1>3. TypeOK
    BY <1>1, <1>2 DEF Init, TypeOK
  <1>4. Sound(State)
    BY DEF Init, Sound, CacheOK, AttrOK, State
  <1>5. Filled(State)
    BY DEF Init, Filled, State
  <1> QED
    BY <1>3, <1>4, <1>5

LEMMA StepTyped ==
    ASSUME TypeOK, [Next]_vars PROVE TypeOK'
  <1>1. PICK new : Become(new) /\ Keeps(new)
    BY StepKeeps DEF Kept
  <1> QED
    BY <1>1, StepKeeps, BecomeTyped DEF Keeps

\* Cells, links and caches have their types, whatever the program does.
THEOREM TypeCorrect == Spec => []TypeOK
  <1>1. Init => TypeOK
    BY InitKeeps
  <1>2. TypeOK /\ [Next]_vars => TypeOK'
    BY StepTyped
  <1> QED
    BY <1>1, <1>2, PTL DEF Spec

\* What is cached has a value and is linked to who caches it, and who caches a
\* builtin has a placeholder in its own module (icUpdateGlobalVar,
\* icInvalidateGlobalVar, moduleValueCellAtPut, moduleRemove): as long as the
\* program only removes variables that are bound.
THEOREM CachesWellFormed == ASSUME ~RemovesUnbound PROVE Spec => []WellFormed
  <1>1. Init => WellFormed
    BY InitKeeps, SoundState DEF WellFormed
  <1>2. WellFormed /\ [Next]_vars => WellFormed'
    <2> SUFFICES ASSUME WellFormed, [Next]_vars PROVE WellFormed'
      OBVIOUS
    <2>1. TypeOK /\ TypeOK' /\ Sound(State)
      BY StepTyped, SoundState DEF WellFormed
    <2>2. PICK new : Become(new) /\ Keeps(new)
      BY <2>1, StepKeeps DEF Kept
    <2>3. Sound(new)
      BY <2>1, <2>2 DEF Keeps
    <2>4. DependentsTracked' /\ CachedCellsBound'
      BY <2>1, <2>2, <2>3, BecomeSound
    <2> QED
      BY <2>1, <2>4 DEF WellFormed
  <1> QED
    BY <1>1, <1>2, PTL DEF Spec

\* A cached LOAD_GLOBAL reads the cell that a lookup through the module and its
\* builtins finds, after any definitions, shadowings, removals and collections
\* (doLoadGlobal, doLoadGlobalCached).
THEOREM GlobalsStayCoherent == ASSUME ~RemovesUnbound PROVE Spec => []GlobalsCoherent
  <1>1. WellFormed => GlobalsCoherent
    <2> SUFFICES ASSUME WellFormed, NEW f \in Fun, NEW n \in cachedLoads[f], cache[f][n] # None
                 PROVE  cache[f][n] = LookupGlobal(ModuleOf[f], n)
      BY DEF GlobalsCoherent
    <2>1. n \in Name
      BY DEF WellFormed, TypeOK
    <2>2. /\ cache[f][n] \in {ModuleOf[f], Builtins}
          /\ value[cache[f][n]][n] \in Value
          /\ cache[f][n] = Builtins => value[ModuleOf[f]][n] = Placeholder
      BY <2>1 DEF WellFormed, CachedCellsBound, DependentsTracked
    <2> QED
      BY <2>2, ModulesOf DEF LookupGlobal
  <1>2. Spec => []WellFormed
    BY CachesWellFormed
  <1> QED
    BY <1>1, <1>2, PTL

\* An attribute that is cached with the id of its module is a cell of that
\* module, with a value (doLoadAttrModule, moduleRemove).
THEOREM ModuleAttributesStayCoherent ==
    ASSUME ~RemovesUnbound PROVE Spec => []ModuleAttributesCoherent
  <1>1. WellFormed => ModuleAttributesCoherent
    BY ModulesOf DEF WellFormed, CachedCellsBound, ModuleAttributesCoherent
  <1>2. Spec => []WellFormed
    BY CachesWellFormed
  <1> QED
    BY <1>1, <1>2, PTL

\* An opcode is ..._CACHED only while its cache holds a cell, so that what it
\* casts is one (doLoadGlobalCached, doStoreGlobalCached): in functions whose
\* names fit the argument of an opcode.
THEOREM CachedOpcodesStayFilled == ASSUME FewNames PROVE Spec => []CachedOpcodesFilled
  <1> DEFINE Inv == TypeOK /\ CachedOpcodesFilled
  <1>1. Init => Inv
    BY InitKeeps, StatesOf
  <1>2. Inv /\ [Next]_vars => Inv'
    <2> SUFFICES ASSUME TypeOK, CachedOpcodesFilled, [Next]_vars
                 PROVE  TypeOK' /\ CachedOpcodesFilled'
      OBVIOUS
    <2>1. Filled(State)
      BY StatesOf
    <2>2. PICK new : Become(new) /\ Keeps(new)
      BY StepKeeps DEF Kept
    <2>3. Filled(new)
      BY <2>1, <2>2 DEF Keeps
    <2> QED
      BY <2>2, <2>3, StepTyped, StatesOf
  <1> QED
    BY <1>1, <1>2, PTL DEF Spec
=============================================================================
