-------------------------- MODULE InlineCacheProofs --------------------------
(***************************************************************************)
(* For every program, every class hierarchy and every number of entries,   *)
(* the caches and the lists of links stay well formed: TypeOK, and no      *)
(* function is linked twice to a cell.  If no class has two bases and the  *)
(* opcodes cache methods only, the functions with entries are linked to    *)
(* all cells that their lookups read, and an update of a class leaves no   *)
(* stale entry behind.                                                     *)
(***************************************************************************)
EXTENDS InlineCache, FiniteSetTheorems, FunctionTheorems, NaturalsInduction,
        SequenceTheorems, WellFoundedInduction, TLAPS

(***************************************************************************)
(* The invariant.                                                          *)
(***************************************************************************)

\* The kinds of entries and of what a lookup finds.
Kinds == {"property", "offset", "method", "transition",
          "retry", "reflected", "reflected_retry", "inplace"}

Targets == {NotFound} \cup [kind : Kinds, value : Value \cup {None}]

\* The entries of the i-th caching opcode of f, and any entry.
EntriesAt(f, i) == {Empty} \cup [key : Code[f][i].keys, kind : Kinds, value : Value \cup {None}]

Entry == [key : Seq(Layout), kind : Kinds \cup {"none"}, value : Value \cup {None}]

\* No function is linked twice.
Once(links) ==
    \A i, j \in DOMAIN links : links[i] = links[j] /\ links[i] \in Fun => i = j

Links == {links \in Seq(Fun \cup {None}) : Once(links)}

\* Function g is linked.
HasLink(links, g) == \E i \in DOMAIN links : links[i] = g

Cells == {c \in [Type -> [Name -> Cell]] : \A t \in Type, n \in Name : c[t][n].dependents \in Links}

\* An opcode without entries, with one, or with all slots of a polymorphic cache.
CacheAt(f, i, entries) ==
    /\ entries \in Seq(EntriesAt(f, i))
    /\ Len(entries) \in {0, 1, kIcEntriesPerPolyCache}
    /\ Len(entries) = 1 => entries[1] # Empty

CachesOK(c) ==
    /\ c \in [Fun -> Seq(Seq(Entry))]
    /\ \A f \in Fun : /\ DOMAIN c[f] = DOMAIN Code[f]
                      /\ \A i \in DOMAIN Code[f] : CacheAt(f, i, c[f][i])

\* What an invalidation works on.
States ==
    {st \in [cell : Cells, caches : [Fun -> Seq(Seq(Entry))], crashed : BOOLEAN] : CachesOK(st.caches)}

CallOK(call) ==
    /\ call.fun \in Fun /\ call.opcode \in DOMAIN Code[call.fun]
    /\ call.key \in Code[call.fun][call.opcode].keys /\ call.target \in Targets

CallRecord == [fun : Fun, opcode : Nat, key : Seq(Layout), target : Targets]

IInv ==
    /\ program \in Programs
    /\ cell \in Cells
    /\ CachesOK(caches)
    /\ live \subseteq Fun
    /\ crashed \in BOOLEAN
    /\ calls \in Seq(CallRecord)
    /\ Len(calls) <= MaxCalls
    /\ \A k \in DOMAIN calls : CallOK(calls[k])

(***************************************************************************)
(* Induction and recursion on numbers, for sets of them.                   *)
(***************************************************************************)

LEMMA SetInduction ==
    ASSUME NEW S \in SUBSET Nat, 0 \in S, \A n \in S : n + 1 \in S
    PROVE  S = Nat
  <1> DEFINE T == Nat \ S
             R == {ss \in Nat \X Nat : ss[1] < ss[2]}
  <1>1. R = OpToRel(<, Nat)
    BY DEF OpToRel
  <1>2. IsWellFoundedOn(R, Nat)
    BY <1>1, NatLessThanWellFounded
  <1>3. SUFFICES ASSUME T # {} PROVE FALSE
    OBVIOUS
  <1> HIDE DEF R, T
  <1>4. T \subseteq Nat
    BY DEF T
  <1>5. PICK x \in T : \A y \in T : ~ (<<y, x>> \in R)
    BY <1>2, <1>3, <1>4, WFMin
  <1>6. x \in Nat /\ x # 0 /\ x - 1 \in Nat /\ x = (x - 1) + 1
    BY <1>4 DEF T
  <1>7. x - 1 \notin S
    BY <1>6 DEF T
  <1>8. x - 1 \in T /\ <<x - 1, x>> \in R
    BY <1>6, <1>7 DEF T, R
  <1> QED
    BY <1>5, <1>8

LEMMA LeastNumber ==
    ASSUME NEW S \in SUBSET Nat, S # {}
    PROVE  \E x \in S : \A y \in S : x <= y
  <1> DEFINE R == {ss \in Nat \X Nat : ss[1] < ss[2]}
  <1>1. R = OpToRel(<, Nat)
    BY DEF OpToRel
  <1>2. IsWellFoundedOn(R, Nat)
    BY <1>1, NatLessThanWellFounded
  <1> HIDE DEF R
  <1>3. PICK x \in S : \A y \in S : ~ (<<y, x>> \in R)
    BY <1>2, WFMin
  <1>4. \A y \in S : ~ (y < x)
    BY <1>3 DEF R
  <1> QED
    BY <1>4

\* A loop that runs m times has a sequence of states.
HasRun(m, X, x0, step) ==
    \E f \in [0..m -> X] : f = [i \in 0..m |-> IF i = 0 THEN x0 ELSE step[<<i, f[i - 1]>>]]

LEMMA FiniteRecursion ==
    ASSUME NEW m \in Nat, NEW X, NEW x0 \in X, NEW step \in [(1..m) \X X -> X]
    PROVE  HasRun(m, X, x0, step)
  <1> DEFINE Runs(k) == \E f \in [0..m -> X] :
                           f[0] = x0 /\ \A i \in 1..m : i <= k => f[i] = step[<<i, f[i - 1]>>]
             S == {k \in Nat : Runs(k)}
  <1>1. 0 \in S
    <2> DEFINE f == [i \in 0..m |-> x0]
    <2>1. f \in [0..m -> X] /\ f[0] = x0 /\ \A i \in 1..m : i <= 0 => f[i] = step[<<i, f[i - 1]>>]
      OBVIOUS
    <2> QED
      BY <2>1
  <1>2. ASSUME NEW k \in S PROVE k + 1 \in S
    <2>1. k \in Nat
      OBVIOUS
    <2>2. PICK f \in [0..m -> X] :
             f[0] = x0 /\ \A i \in 1..m : i <= k => f[i] = step[<<i, f[i - 1]>>]
      OBVIOUS
    <2> DEFINE g == [i \in 0..m |-> IF i = k + 1 THEN step[<<i, f[i - 1]>>] ELSE f[i]]
    <2>3. ASSUME NEW i \in 0..m PROVE g[i] \in X
      <3>1. CASE i = k + 1
        <4>1. i - 1 \in 0..m
          BY <2>1, <3>1
        <4> QED
          BY <3>1, <4>1
      <3> QED
        BY <3>1
    <2>4. g \in [0..m -> X]
      BY <2>3
    <2>5. g[0] = x0
      BY <2>1, <2>2
    <2>6. ASSUME NEW i \in 1..m, i <= k + 1 PROVE g[i] = step[<<i, g[i - 1]>>]
      <3>1. i - 1 \in 0..m /\ i - 1 # k + 1 /\ i \in 0..m
        BY <2>1, <2>6
      <3>2. g[i - 1] = f[i - 1]
        BY <3>1
      <3>3. CASE i = k + 1
        BY <3>1, <3>2, <3>3
      <3>4. CASE i # k + 1
        <4>1. g[i] = f[i] /\ i <= k
          BY <2>1, <2>6, <3>1, <3>4
        <4> QED
          BY <2>2, <3>2, <4>1
      <3> QED
        BY <3>3, <3>4
    <2>7. Runs(k + 1)
      BY <2>4, <2>5, <2>6
    <2> QED
      BY <2>1, <2>7
  <1> HIDE DEF Runs
  <1>3. S = Nat
    <2> HIDE DEF S
    <2>1. S \in SUBSET Nat
      BY DEF S
    <2> QED
      BY <1>1, <1>2, <2>1, SetInduction
  <1>4. Runs(m)
    BY <1>3
  <1>5. PICK f \in [0..m -> X] :
           f[0] = x0 /\ \A i \in 1..m : i <= m => f[i] = step[<<i, f[i - 1]>>]
    BY <1>4 DEF Runs
  <1>6. ASSUME NEW i \in 0..m PROVE f[i] = IF i = 0 THEN x0 ELSE step[<<i, f[i - 1]>>]
    BY <1>5
  <1>7. f = [i \in 0..m |-> IF i = 0 THEN x0 ELSE step[<<i, f[i - 1]>>]]
    BY <1>6
  <1> QED
    BY <1>7 DEF HasRun

\* What a loop keeps at every step it has at its end.
LEMMA LoopKeeps ==
    ASSUME NEW m \in Nat, NEW X, NEW g, g[0] \in X,
           \A i \in 1..m : g[i - 1] \in X => g[i] \in X
    PROVE  \A i \in 0..m : g[i] \in X
  <1> DEFINE S == {k \in Nat : k <= m => g[k] \in X}
  <1>1. 0 \in S
    OBVIOUS
  <1>2. ASSUME NEW k \in S PROVE k + 1 \in S
    <2>1. SUFFICES ASSUME k + 1 <= m PROVE g[k + 1] \in X
      OBVIOUS
    <2>2. k + 1 \in 1..m /\ (k + 1) - 1 = k /\ g[k] \in X
      BY <2>1
    <2> QED
      BY <2>2
  <1>3. S = Nat
    <2>1. S \in SUBSET Nat
      OBVIOUS
    <2> HIDE DEF S
    <2> QED
      BY <1>1, <1>2, <2>1, SetInduction
  <1> QED
    BY <1>3

\* The least number of a set is in it.
LEMMA MinOf ==
    ASSUME NEW S \in SUBSET Nat, S # {}
    PROVE  Min(S) \in S /\ \A y \in S : Min(S) <= y
  <1>1. PICK x \in S : \A y \in S : x <= y
    BY LeastNumber
  <1> QED
    BY <1>1 DEF Min

\* Where a link is first found.
LEMMA LinkFound ==
    ASSUME NEW links \in Seq(Fun \cup {None}), NEW v
    PROVE  LET q == SelectInSeq(links, LAMBDA g : g = v)
           IN  \/ q = 0 /\ \A i \in DOMAIN links : links[i] # v
               \/ q \in DOMAIN links /\ links[q] = v
  <1> DEFINE I == {i \in 1..Len(links) : links[i] = v}
  <1>1. SelectInSeq(links, LAMBDA g : g = v) = IF I # {} THEN Min(I) ELSE 0
    BY DEF SelectInSeq
  <1>2. I \in SUBSET Nat /\ DOMAIN links = 1..Len(links)
    OBVIOUS
  <1>3. CASE I = {}
    BY <1>1, <1>2, <1>3
  <1>4. CASE I # {}
    <2>1. Min(I) \in I
      <3> HIDE DEF I
      <3> QED
        BY <1>2, <1>4, MinOf
    <2> QED
      BY <1>1, <1>2, <1>4, <2>1
  <1> QED
    BY <1>3, <1>4

-----------------------------------------------------------------------------
(***************************************************************************)
(* The lists of links.                                                     *)
(***************************************************************************)

\* The links kept from the first k ones.
KeptOf(links, k, s) ==
    /\ s \in Links
    /\ \A j \in DOMAIN s : \E i \in 1..k : links[i] = s[j]
    /\ \A i \in 1..k : links[i] # None => HasLink(s, links[i])

LEMMA KeepOne ==
    ASSUME NEW links \in Links, NEW k \in 1..Len(links), NEW s, KeptOf(links, k - 1, s)
    PROVE  /\ links[k] = None => KeptOf(links, k, s)
           /\ KeptOf(links, k, Append(s, links[k]))
  <1>1. links \in Seq(Fun \cup {None}) /\ Once(links) /\ DOMAIN links = 1..Len(links)
    BY DEF Links
  <1>2. s \in Seq(Fun \cup {None}) /\ Once(s) /\ DOMAIN s = 1..Len(s)
    BY DEF KeptOf, Links
  <1>3. /\ \A j \in DOMAIN s : \E i \in 1..(k - 1) : links[i] = s[j]
        /\ \A i \in 1..(k - 1) : links[i] # None => HasLink(s, links[i])
    BY DEF KeptOf
  <1>11. ASSUME NEW j \in DOMAIN s PROVE \E i \in 1..k : links[i] = s[j]
    <2>1. PICK i \in 1..(k - 1) : links[i] = s[j]
      BY <1>3
    <2> QED
      BY <2>1
  <1>12. \A i \in 1..k : i = k \/ i \in 1..(k - 1)
    BY <1>1
  <1>4. links[k] = None => KeptOf(links, k, s)
    BY <1>3, <1>11, <1>12 DEF KeptOf
  <1> DEFINE a == Append(s, links[k])
  <1>5. links[k] \in Fun \cup {None}
    BY <1>1
  <1>6. a \in Seq(Fun \cup {None}) /\ DOMAIN a = 1..(Len(s) + 1) /\ Len(s) \in Nat
    BY <1>2, <1>5
  <1>7. a[Len(s) + 1] = links[k] /\ \A j \in 1..Len(s) : a[j] = s[j]
    BY <1>2, <1>5
  <1> HIDE DEF a
  <1>8. Once(a)
    <2> SUFFICES ASSUME NEW i \in DOMAIN a, NEW j \in DOMAIN a, a[i] = a[j], a[i] \in Fun, i < j
                 PROVE  FALSE
      BY <1>6 DEF Once
    <2>1. i \in 1..Len(s)
      BY <1>6
    <2>2. CASE j \in 1..Len(s)
      BY <1>2, <1>7, <2>1, <2>2 DEF Once
    <2>3. CASE j = Len(s) + 1
      <3>1. PICK q \in 1..(k - 1) : links[q] = s[i]
        BY <1>2, <1>3, <2>1
      <3>2. links[q] = links[k] /\ links[q] \in Fun
        BY <1>7, <2>1, <2>3, <3>1
      <3>3. q \in DOMAIN links /\ k \in DOMAIN links /\ q # k
        BY <1>1
      <3> QED
        BY <1>1, <3>2, <3>3 DEF Once
    <2> QED
      BY <1>6, <2>2, <2>3
  <1>9. ASSUME NEW j \in DOMAIN a PROVE \E i \in 1..k : links[i] = a[j]
    <2>1. CASE j \in 1..Len(s)
      BY <1>2, <1>7, <1>11, <2>1
    <2>2. CASE j = Len(s) + 1
      BY <1>7, <2>2
    <2> QED
      BY <1>6, <2>1, <2>2
  <1>13. ASSUME NEW i \in 1..k, links[i] # None PROVE HasLink(a, links[i])
    <2>1. CASE i = k
      <3>1. Len(s) + 1 \in DOMAIN a
        BY <1>6
      <3> QED
        BY <1>7, <2>1, <3>1 DEF HasLink
    <2>2. CASE i \in 1..(k - 1)
      <3>1. PICK j \in DOMAIN s : s[j] = links[i]
        BY <1>3, <1>13, <2>2 DEF HasLink
      <3>2. j \in DOMAIN a /\ a[j] = links[i]
        BY <1>2, <1>6, <1>7, <3>1
      <3> QED
        BY <3>2 DEF HasLink
    <2> QED
      BY <1>12, <2>1, <2>2
  <1>10. KeptOf(links, k, a)
    BY <1>6, <1>8, <1>9, <1>13 DEF KeptOf, Links
  <1> QED
    BY <1>4, <1>10 DEF a

LEMMA RemoveDeadWeakLinksOf ==
    ASSUME NEW links \in Links
    PROVE  /\ RemoveDeadWeakLinks(links) \in Links
           /\ \A g \in Fun : HasLink(RemoveDeadWeakLinks(links), g) <=> HasLink(links, g)
  <1> DEFINE m == Len(links)
             X == Seq(Fun \cup {None})
             step == [z \in (1..m) \X X |->
                        IF links[z[1]] = None THEN z[2] ELSE Append(z[2], links[z[1]])]
             Is(r) == r = [k \in 0..Len(links) |->
                             IF k = 0 THEN <<>>
                             ELSE IF links[k] = None THEN r[k - 1]
                             ELSE Append(r[k - 1], links[k])]
  <1>1. links \in X /\ DOMAIN links = 1..m /\ m \in Nat
    BY DEF Links
  <1>2. step \in [(1..m) \X X -> X]
    <2>1. ASSUME NEW k \in 1..m, NEW s \in X
          PROVE  (IF links[k] = None THEN s ELSE Append(s, links[k])) \in X
      <3>1. links[k] \in Fun \cup {None}
        BY <1>1
      <3> QED
        BY <3>1
    <2> HIDE DEF X, m
    <2> QED
      BY <2>1
  <1>3. PICK h \in [0..m -> X] : h = [i \in 0..m |-> IF i = 0 THEN <<>> ELSE step[<<i, h[i - 1]>>]]
    <2>1. <<>> \in X
      OBVIOUS
    <2> HIDE DEF m, X, step
    <2>2. HasRun(m, X, <<>>, step)
      BY <1>1, <1>2, <2>1, FiniteRecursion
    <2> QED
      BY <2>2 DEF HasRun
  <1>4. Is(h)
    <2>1. ASSUME NEW k \in 0..m, k # 0
          PROVE  step[<<k, h[k - 1]>>] = IF links[k] = None THEN h[k - 1]
                                         ELSE Append(h[k - 1], links[k])
      <3>1. k - 1 \in 0..m /\ k \in 1..m
        BY <1>1, <2>1
      <3>2. h[k - 1] \in X
        BY <3>1
      <3> HIDE DEF X, m
      <3> QED
        BY <3>1, <3>2
    <2> HIDE DEF step
    <2> QED
      BY <1>3, <2>1
  <1> DEFINE r == CHOOSE r : Is(r)
  <1>5. RemoveDeadWeakLinks(links) = r[m]
    BY DEF RemoveDeadWeakLinks
  <1>6. Is(r)
    <2> HIDE DEF Is
    <2> QED
      BY <1>4
  <1>7. r[0] = <<>> /\ \A k \in 1..m : r[k] = IF links[k] = None THEN r[k - 1]
                                              ELSE Append(r[k - 1], links[k])
    <2> HIDE DEF r
    <2>1. r = [k \in 0..m |-> IF k = 0 THEN <<>>
                              ELSE IF links[k] = None THEN r[k - 1]
                              ELSE Append(r[k - 1], links[k])]
      BY <1>6
    <2>2. 0 \in 0..m /\ \A k \in 1..m : k \in 0..m /\ k # 0
      BY <1>1
    <2> HIDE DEF Is, m
    <2> QED
      BY <2>1, <2>2
  <1> HIDE DEF r, Is, step, X
  <1>8. \A k \in 0..m : KeptOf(links, k, r[k])
    <2> DEFINE S == {k \in Nat : k <= m => KeptOf(links, k, r[k])}
    <2>1. 0 \in S
      <3>1. KeptOf(links, 0, <<>>)
        BY DEF KeptOf, Links, Once
      <3> QED
        BY <1>7, <3>1
    <2>2. ASSUME NEW k \in S PROVE k + 1 \in S
      <3>1. k \in Nat
        OBVIOUS
      <3>2. SUFFICES ASSUME k + 1 <= m PROVE KeptOf(links, k + 1, r[k + 1])
        BY <3>1
      <3>3. k + 1 \in 1..m /\ (k + 1) - 1 = k /\ KeptOf(links, k, r[k])
        BY <1>1, <3>1, <3>2
      <3>4. /\ links[k + 1] = None => KeptOf(links, k + 1, r[k])
            /\ KeptOf(links, k + 1, Append(r[k], links[k + 1]))
        <4>1. k + 1 \in 1..Len(links) /\ KeptOf(links, (k + 1) - 1, r[k])
          BY <3>3
        <4> HIDE DEF m, S
        <4> QED
          BY <4>1, KeepOne
      <3>5. r[k + 1] = IF links[k + 1] = None THEN r[k] ELSE Append(r[k], links[k + 1])
        <4> HIDE DEF m, S
        <4> QED
          BY <1>7, <3>3
      <3> QED
        BY <3>4, <3>5
    <2>3. S = Nat
      <3>1. S \in SUBSET Nat
        OBVIOUS
      <3> HIDE DEF S
      <3> QED
        BY <2>1, <2>2, <3>1, SetInduction
    <2> QED
      BY <2>3
  <1>9. KeptOf(links, m, r[m])
    BY <1>1, <1>8
  <1> HIDE DEF m
  <1> DEFINE s == r[m]
  <1>10. KeptOf(links, m, s) /\ s = RemoveDeadWeakLinks(links)
    BY <1>5, <1>9
  <1> HIDE DEF s
  <1>11. ASSUME NEW g \in Fun PROVE HasLink(s, g) <=> HasLink(links, g)
    <2>1. g # None
      BY ConstantsOK
    <2>2. HasLink(s, g) => HasLink(links, g)
      BY <1>1, <1>10 DEF KeptOf, HasLink
    <2>3. HasLink(links, g) => HasLink(s, g)
      <3> SUFFICES ASSUME NEW i \in 1..m, links[i] = g PROVE HasLink(s, g)
        BY <1>1 DEF HasLink
      <3> QED
        BY <1>10, <2>1 DEF KeptOf
    <2> QED
      BY <2>2, <2>3
  <1> QED
    BY <1>10, <1>11 DEF KeptOf

LEMMA RemoveFirstOf ==
    ASSUME NEW links \in Links, NEW f
    PROVE  /\ RemoveFirst(links, f) \in Links
           /\ \A g \in Fun : HasLink(RemoveFirst(links, f), g) => HasLink(links, g)
           /\ \A g \in Fun : g # f /\ HasLink(links, g) => HasLink(RemoveFirst(links, f), g)
  <1> DEFINE q == SelectInSeq(links, LAMBDA g : g = f)
             n == Len(links)
             r == RemoveAt(links, q)
  <1>1. links \in Seq(Fun \cup {None}) /\ Once(links) /\ n \in Nat /\ DOMAIN links = 1..n
    BY DEF Links
  <1>2. RemoveFirst(links, f) = IF \E i \in 1..n : links[i] = f THEN r ELSE links
    BY DEF RemoveFirst
  <1>3. \/ q = 0 /\ \A i \in DOMAIN links : links[i] # f
        \/ q \in DOMAIN links /\ links[q] = f
    BY <1>1, LinkFound
  <1>4. CASE q \in DOMAIN links
    <2>1. q \in 1..n
      BY <1>1, <1>4
    <2>12. links[q] = f
      BY <1>1, <1>3, <2>1
    <2>2. r = SubSeq(links, 1, q - 1) \o SubSeq(links, q + 1, n)
      BY DEF RemoveAt
    <2> HIDE DEF q, r
    <2> DEFINE x == SubSeq(links, 1, q - 1)
               y == SubSeq(links, q + 1, n)
    <2>3. /\ x \in Seq(Fun \cup {None}) /\ Len(x) = q - 1
          /\ \A i \in 1..(q - 1) : x[i] = links[i]
      BY <1>1, <2>1
    <2>4. /\ y \in Seq(Fun \cup {None}) /\ Len(y) = n - q
          /\ \A i \in 1..(n - q) : y[i] = links[i + q]
      <3> HIDE DEF n
      <3> DEFINE l == q + 1
      <3>1. l \in 1..(n + 1) /\ n - l + 1 = n - q /\ \A i \in 1..(n - q) : i + l - 1 = i + q
        BY <1>1, <2>1
      <3>2. y = SubSeq(links, l, n)
        OBVIOUS
      <3> HIDE DEF l, y
      <3>3. y \in Seq(Fun \cup {None})
        BY <1>1, <3>1, <3>2
      <3>4. Len(y) = n - l + 1
        BY <1>1, <3>1, <3>2
      <3>5. \A i \in 1..(n - l + 1) : y[i] = links[i + l - 1]
        BY <1>1, <3>1, <3>2
      <3> QED
        BY <3>1, <3>3, <3>4, <3>5
    <2>5. r = x \o y
      BY <2>2
    <2> HIDE DEF n, x, y
    <2>6. /\ r \in Seq(Fun \cup {None}) /\ DOMAIN r = 1..(n - 1)
          /\ \A i \in 1..(n - 1) : r[i] = IF i <= q - 1 THEN x[i] ELSE y[i - (q - 1)]
      <3>1. r \in Seq(Fun \cup {None}) /\ Len(r) = Len(x) + Len(y)
        BY <2>3, <2>4, <2>5, ConcatProperties
      <3>2. Len(x) + Len(y) = n - 1 /\ n - 1 \in Nat
        BY <1>1, <2>1, <2>3, <2>4
      <3>3. DOMAIN r = 1..(n - 1)
        BY <3>1, <3>2
      <3>4. \A i \in 1..(Len(x) + Len(y)) : r[i] = IF i <= Len(x) THEN x[i] ELSE y[i - Len(x)]
        BY <2>3, <2>4, <2>5, ConcatProperties
      <3> QED
        BY <2>3, <3>1, <3>2, <3>3, <3>4
    <2>7. \A i \in 1..(n - 1) : r[i] = IF i < q THEN links[i] ELSE links[i + 1]
      <3> SUFFICES ASSUME NEW i \in 1..(n - 1) PROVE r[i] = IF i < q THEN links[i] ELSE links[i + 1]
        OBVIOUS
      <3>1. CASE i < q
        <4>1. i \in 1..(q - 1) /\ i <= q - 1
          BY <1>1, <2>1, <3>1
        <4> QED
          BY <2>3, <2>6, <3>1, <4>1
      <3>2. CASE ~ (i < q)
        <4>1. i - (q - 1) \in 1..(n - q) /\ (i - (q - 1)) + q = i + 1 /\ ~ (i <= q - 1)
          BY <1>1, <2>1, <3>2
        <4> QED
          BY <2>4, <2>6, <3>2, <4>1
      <3> QED
        BY <3>1, <3>2
    <2>8. Once(r)
      <3> SUFFICES ASSUME NEW i \in 1..(n - 1), NEW j \in 1..(n - 1), r[i] = r[j], r[i] \in Fun
                   PROVE  i = j
        BY <2>6 DEF Once
      <3> DEFINE at(k) == IF k < q THEN k ELSE k + 1
      <3>1. at(i) \in 1..n /\ at(j) \in 1..n /\ (at(i) = at(j) => i = j)
        BY <1>1, <2>1
      <3>2. r[i] = links[at(i)] /\ r[j] = links[at(j)]
        BY <2>7
      <3> HIDE DEF at
      <3> QED
        BY <1>1, <3>1, <3>2 DEF Once
    <2>9. ASSUME NEW g \in Fun, HasLink(r, g) PROVE HasLink(links, g)
      <3>1. PICK i \in 1..(n - 1) : r[i] = g
        BY <2>6, <2>9 DEF HasLink
      <3>2. i \in 1..n /\ i + 1 \in 1..n
        BY <1>1, <2>1
      <3> QED
        BY <1>1, <2>7, <3>1, <3>2 DEF HasLink
    <2>10. ASSUME NEW g \in Fun, g # f, HasLink(links, g) PROVE HasLink(r, g)
      <3>1. PICK k \in 1..n : links[k] = g
        BY <1>1, <2>10 DEF HasLink
      <3>2. k # q
        BY <2>10, <2>12, <3>1
      <3>3. CASE k < q
        <4>1. k \in 1..(n - 1)
          BY <1>1, <2>1, <3>3
        <4> QED
          BY <2>6, <2>7, <3>1, <3>3, <4>1 DEF HasLink
      <3>4. CASE k > q
        <4>1. k - 1 \in 1..(n - 1) /\ ~ (k - 1 < q) /\ (k - 1) + 1 = k
          BY <1>1, <2>1, <3>4
        <4>2. r[k - 1] = g
          BY <2>7, <3>1, <4>1
        <4> QED
          BY <2>6, <4>1, <4>2 DEF HasLink
      <3> QED
        BY <1>1, <2>1, <3>2, <3>3, <3>4
    <2>11. RemoveFirst(links, f) = r
      <3>1. \E i \in 1..n : links[i] = f
        BY <2>1, <2>12
      <3> HIDE DEF n
      <3> QED
        BY <1>2, <3>1
    <2> QED
      BY <2>6, <2>8, <2>9, <2>10, <2>11 DEF Links
  <1>5. CASE q = 0 /\ \A i \in DOMAIN links : links[i] # f
    <2> HIDE DEF q, r, n
    <2> QED
      BY <1>1, <1>2, <1>5
  <1> QED
    BY <1>3, <1>4, <1>5

\* The links r are those of links and f.
Adds(links, f, r) ==
    /\ r \in Links
    /\ \A g \in Fun : HasLink(r, g) <=> (g = f \/ HasLink(links, g))

\* A function in front of the links, or in the place of a dead one, where it was
\* not linked.
LEMMA LinkAdded ==
    ASSUME NEW links \in Links, NEW f \in Fun, \A i \in DOMAIN links : links[i] # f
    PROVE  /\ Adds(links, f, <<f>> \o links)
           /\ \A q \in DOMAIN links : links[q] = None => Adds(links, f, [links EXCEPT ![q] = f])
  <1>1. links \in Seq(Fun \cup {None}) /\ Once(links) /\ DOMAIN links = 1..Len(links)
        /\ Len(links) \in Nat
    BY DEF Links
  <1>2. Adds(links, f, <<f>> \o links)
    <2> DEFINE a == <<f>> \o links
    <2>1. a \in Seq(Fun \cup {None}) /\ DOMAIN a = 1..(Len(links) + 1)
      BY <1>1
    <2>2. a[1] = f /\ \A i \in 2..(Len(links) + 1) : i - 1 \in DOMAIN links /\ a[i] = links[i - 1]
      BY <1>1
    <2> HIDE DEF a
    <2>3. Once(a)
      <3> SUFFICES ASSUME NEW i \in DOMAIN a, NEW j \in DOMAIN a, a[i] = a[j], a[i] \in Fun, i < j
                   PROVE  FALSE
        BY <2>1 DEF Once
      <3>1. j \in 2..(Len(links) + 1)
        BY <1>1, <2>1
      <3>2. CASE i = 1
        BY <2>2, <3>1, <3>2
      <3>3. CASE i # 1
        <4>1. i \in 2..(Len(links) + 1) /\ i - 1 # j - 1
          BY <1>1, <2>1, <3>1, <3>3
        <4>2. links[i - 1] = links[j - 1] /\ links[i - 1] \in Fun
          BY <2>2, <3>1, <4>1
        <4> QED
          BY <1>1, <2>2, <3>1, <4>1, <4>2 DEF Once
      <3> QED
        BY <3>2, <3>3
    <2>4. ASSUME NEW g \in Fun PROVE HasLink(a, g) <=> (g = f \/ HasLink(links, g))
      <3>1. HasLink(a, g) => g = f \/ HasLink(links, g)
        <4> SUFFICES ASSUME NEW i \in 1..(Len(links) + 1), a[i] = g, i # 1 PROVE HasLink(links, g)
          BY <2>1, <2>2 DEF HasLink
        <4>1. i \in 2..(Len(links) + 1)
          BY <1>1
        <4> QED
          BY <2>2, <4>1 DEF HasLink
      <3>2. HasLink(a, f)
        <4>1. 1 \in DOMAIN a
          BY <1>1, <2>1
        <4> QED
          BY <2>2, <4>1 DEF HasLink
      <3>3. HasLink(links, g) => HasLink(a, g)
        <4> SUFFICES ASSUME NEW i \in 1..Len(links), links[i] = g PROVE HasLink(a, g)
          BY <1>1 DEF HasLink
        <4>1. i + 1 \in 2..(Len(links) + 1) /\ i + 1 \in DOMAIN a /\ (i + 1) - 1 = i
          BY <1>1, <2>1
        <4>2. a[i + 1] = g
          BY <2>2, <4>1
        <4> QED
          BY <4>1, <4>2 DEF HasLink
      <3> QED
        BY <3>1, <3>2, <3>3
    <2>5. Adds(links, f, a)
      BY <2>1, <2>3, <2>4 DEF Links, Adds
    <2> QED
      BY <2>5 DEF a
  <1>3. ASSUME NEW q \in DOMAIN links, links[q] = None PROVE Adds(links, f, [links EXCEPT ![q] = f])
    <2> DEFINE a == [links EXCEPT ![q] = f]
    <2>1. DOMAIN a = DOMAIN links /\ \A i \in DOMAIN links : a[i] = IF i = q THEN f ELSE links[i]
      OBVIOUS
    <2>2. a \in Seq(Fun \cup {None})
      <3>1. \A i \in 1..Len(links) : a[i] \in Fun \cup {None}
        BY <1>1, <2>1
      <3>2. DOMAIN a = 1..Len(links) /\ a = [i \in DOMAIN links |-> a[i]]
        BY <1>1
      <3> HIDE DEF a
      <3>3. a \in [1..Len(links) -> Fun \cup {None}]
        BY <1>1, <3>1, <3>2
      <3> QED
        BY <1>1, <3>3
    <2> HIDE DEF a
    <2>3. Once(a)
      <3> SUFFICES ASSUME NEW i \in DOMAIN a, NEW j \in DOMAIN a, a[i] = a[j], a[i] \in Fun, i # j
                   PROVE  FALSE
        BY DEF Once
      <3>1. CASE i = q \/ j = q
        BY <2>1, <3>1
      <3>2. CASE i # q /\ j # q
        BY <1>1, <2>1, <3>2 DEF Once
      <3> QED
        BY <3>1, <3>2
    <2>4. ASSUME NEW g \in Fun PROVE HasLink(a, g) <=> (g = f \/ HasLink(links, g))
      <3>1. links[q] # g
        BY <1>3, ConstantsOK
      <3> QED
        BY <2>1, <3>1 DEF HasLink
    <2>5. Adds(links, f, a)
      BY <2>2, <2>3, <2>4 DEF Links, Adds
    <2> QED
      BY <2>5 DEF a
  <1> QED
    BY <1>2, <1>3

LEMMA InsertDependentOf ==
    ASSUME NEW links \in Links, NEW f \in Fun
    PROVE  Adds(links, f, InsertDependent(links, f))
  <1> DEFINE found == SelectInSeq(links, LAMBDA g : g = f)
             met == IF found = 0 THEN links ELSE SubSeq(links, 1, found)
             dead == {i \in DOMAIN met : met[i] = None}
             first == SelectInSeq(links, LAMBDA g : g = None)
             filled == IF found # 0 THEN links
                       ELSE IF dead = {} THEN <<f>> \o links
                       ELSE [links EXCEPT ![first] = f]
  <1>1. InsertDependent(links, f) = IF Cardinality(dead) > 1 THEN RemoveDeadWeakLinks(filled) ELSE filled
    BY DEF InsertDependent
  <1>4. links \in Seq(Fun \cup {None}) /\ 0 \notin DOMAIN links
    BY DEF Links
  <1>2. \/ found = 0 /\ \A i \in DOMAIN links : links[i] # f
        \/ found # 0 /\ HasLink(links, f)
    <2>1. \/ found = 0 /\ \A i \in DOMAIN links : links[i] # f
          \/ found \in DOMAIN links /\ links[found] = f
      BY <1>4, LinkFound
    <2> HIDE DEF found
    <2> QED
      BY <1>4, <2>1 DEF HasLink
  <1>5. found = 0 /\ dead # {} => first \in DOMAIN links /\ links[first] = None
    <2> SUFFICES ASSUME found = 0, dead # {} PROVE first \in DOMAIN links /\ links[first] = None
      OBVIOUS
    <2>1. \/ first = 0 /\ \A i \in DOMAIN links : links[i] # None
          \/ first \in DOMAIN links /\ links[first] = None
      BY <1>4, LinkFound
    <2> HIDE DEF first, found
    <2> QED
      BY <2>1
  <1> HIDE DEF found, met, dead, first
  <1>3. Adds(links, f, filled)
    <2>1. CASE found = 0
      BY <1>2, <1>5, <2>1, LinkAdded
    <2>2. CASE found # 0
      BY <1>2, <2>2 DEF Adds
    <2> QED
      BY <2>1, <2>2
  <1> HIDE DEF filled
  <1>6. filled \in Links /\ Adds(links, f, RemoveDeadWeakLinks(filled))
    BY <1>3, RemoveDeadWeakLinksOf DEF Adds
  <1> QED
    BY <1>1, <1>3, <1>6

-----------------------------------------------------------------------------
(***************************************************************************)
(* The value cells.                                                        *)
(***************************************************************************)

\* Cells are cells whatever lists of links they get.
LEMMA CellOf ==
    ASSUME NEW c \in Cells, NEW t \in Type, NEW n \in Name
    PROVE  /\ c[t][n] \in Cell /\ c[t][n].dependents \in Links
           /\ c[t][n].value \in Value \cup {Placeholder, Absent}
           /\ DOMAIN c[t] = Name
  BY DEF Cells, Cell

LEMMA CellsFrom ==
    ASSUME NEW c, DOMAIN c = Type, c = [t \in Type |-> c[t]],
           \A t \in Type : DOMAIN c[t] = Name /\ c[t] = [n \in Name |-> c[t][n]],
           \A t \in Type, n \in Name : c[t][n] \in [value : Value \cup {Placeholder, Absent},
                                                    dependents : Links]
    PROVE  c \in Cells
  <1>1. \A t \in Type, n \in Name : c[t][n] \in Cell /\ c[t][n].dependents \in Links
    BY DEF Cell, Links
  <1>2. \A t \in Type : c[t] \in [Name -> Cell]
    BY <1>1
  <1>3. c \in [Type -> [Name -> Cell]]
    BY <1>2
  <1> QED
    BY <1>1, <1>3 DEF Cells

LEMMA InsertDependencyOf ==
    ASSUME NEW c \in Cells, NEW t, NEW n, NEW f \in Fun
    PROVE  InsertDependency(c, t, n, f) \in Cells
  <1> DEFINE d == DefiningIndex(t, n)
             visited == IF d = 0 THEN Range(Mro[t]) ELSE Range(SubSeq(Mro[t], 1, d))
             new(u) == [value |-> IF c[u][n].value = Absent THEN Placeholder ELSE c[u][n].value,
                        dependents |-> InsertDependent(c[u][n].dependents, f)]
             r == InsertDependency(c, t, n, f)
  <1>1. r = [u \in Type |-> IF u \notin visited THEN c[u] ELSE [c[u] EXCEPT ![n] = new(u)]]
    BY DEF InsertDependency
  <1> HIDE DEF d, visited, r
  <1>2. ASSUME NEW u \in Type, n \in Name
        PROVE  new(u) \in [value : Value \cup {Placeholder, Absent}, dependents : Links]
    <2>1. c[u][n].dependents \in Links /\ c[u][n].value \in Value \cup {Placeholder, Absent}
      BY <1>2, CellOf
    <2>2. InsertDependent(c[u][n].dependents, f) \in Links
      BY <2>1, InsertDependentOf DEF Adds
    <2> QED
      BY <2>1, <2>2
  <1> HIDE DEF new
  <1>3. ASSUME NEW u \in Type
        PROVE  /\ DOMAIN r[u] = Name /\ r[u] = [x \in Name |-> r[u][x]]
               /\ \A x \in Name : r[u][x] \in [value : Value \cup {Placeholder, Absent},
                                               dependents : Links]
    <2>1. c[u] = [x \in Name |-> c[u][x]]
      BY DEF Cells
    <2>2. \A x \in Name : c[u][x] \in [value : Value \cup {Placeholder, Absent}, dependents : Links]
      <3> SUFFICES ASSUME NEW x \in Name
                   PROVE  c[u][x] \in [value : Value \cup {Placeholder, Absent}, dependents : Links]
        OBVIOUS
      <3>1. c[u][x] \in Cell /\ c[u][x].dependents \in Links
        BY CellOf
      <3> QED
        BY <3>1 DEF Cell
    <2>3. CASE u \notin visited
      BY <1>1, <2>1, <2>2, <2>3
    <2>4. CASE u \in visited
      <3>1. r[u] = [c[u] EXCEPT ![n] = new(u)]
        BY <1>1, <2>4
      <3>2. DOMAIN r[u] = Name /\ r[u] = [x \in Name |-> IF x = n THEN new(u) ELSE c[u][x]]
        BY <2>1, <3>1
      <3> QED
        BY <1>2, <2>2, <3>2
    <2> QED
      BY <2>3, <2>4
  <1>4. DOMAIN r = Type /\ r = [u \in Type |-> r[u]]
    BY <1>1
  <1>5. r \in Cells
    BY <1>3, <1>4, CellsFrom
  <1> QED
    BY <1>5 DEF r

\* The cells after each of the dependencies of an opcode was inserted.
InsertRun(f, op, key, r) ==
    /\ r[0] = cell
    /\ \A k \in 1..Len(op.names) :
          r[k] = InsertDependency(r[k - 1], Reads(op, key)[k][1], Reads(op, key)[k][2], f)
    /\ \A k \in 0..Len(op.names) : r[k] \in Cells

LEMMA InsertDependenciesRun ==
    ASSUME cell \in Cells, NEW f \in Fun, NEW op \in Opcode, NEW key
    PROVE  \E r : InsertRun(f, op, key, r) /\ InsertDependencies(f, op, key) = r[Len(op.names)]
  <1> DEFINE m == Len(op.names)
             next(k, c) == InsertDependency(c, Reads(op, key)[k][1], Reads(op, key)[k][2], f)
             step == [z \in (1..m) \X Cells |-> next(z[1], z[2])]
             Is(r) == r = [k \in 0..Len(op.names) |->
                             IF k = 0 THEN cell
                             ELSE InsertDependency(r[k - 1], Reads(op, key)[k][1],
                                                   Reads(op, key)[k][2], f)]
  <1>1. m \in Nat
    BY DEF Opcode
  <1>2. \A k \in 1..m, c \in Cells : next(k, c) \in Cells
    BY InsertDependencyOf
  <1>3. step \in [(1..m) \X Cells -> Cells]
    <2> HIDE DEF next, m
    <2> QED
      BY <1>2
  <1>4. PICK h \in [0..m -> Cells] :
           h = [i \in 0..m |-> IF i = 0 THEN cell ELSE step[<<i, h[i - 1]>>]]
    <2> HIDE DEF m, step
    <2>1. HasRun(m, Cells, cell, step)
      BY <1>1, <1>3, FiniteRecursion
    <2> QED
      BY <2>1 DEF HasRun
  <1>5. Is(h)
    <2>1. ASSUME NEW k \in 0..m, k # 0 PROVE step[<<k, h[k - 1]>>] = next(k, h[k - 1])
      <3>1. k - 1 \in 0..m /\ k \in 1..m
        BY <1>1, <2>1
      <3> HIDE DEF m, next
      <3>2. h[k - 1] \in Cells
        BY <3>1
      <3> QED
        BY <3>1, <3>2
    <2>2. h = [k \in 0..m |-> IF k = 0 THEN cell ELSE next(k, h[k - 1])]
      <3> HIDE DEF step, next
      <3> QED
        BY <1>4, <2>1
    <2> QED
      BY <2>2
  <1> DEFINE r == CHOOSE r : Is(r)
  <1>6. InsertDependencies(f, op, key) = r[m]
    BY DEF InsertDependencies
  <1>7. Is(r)
    <2> HIDE DEF Is
    <2> QED
      BY <1>5
  <1>8. r[0] = cell /\ \A k \in 1..m : r[k] = next(k, r[k - 1])
    <2> HIDE DEF r
    <2>1. r = [k \in 0..m |-> IF k = 0 THEN cell ELSE next(k, r[k - 1])]
      BY <1>7
    <2>2. 0 \in 0..m /\ \A k \in 1..m : k \in 0..m /\ k # 0
      BY <1>1
    <2> HIDE DEF Is, m, next
    <2> QED
      BY <2>1, <2>2
  <1> HIDE DEF r, Is, step
  <1>12. \A k \in 1..m : r[k] = InsertDependency(r[k - 1], Reads(op, key)[k][1],
                                                 Reads(op, key)[k][2], f)
    BY <1>8
  <1> HIDE DEF m, next
  <1>9. r[0] \in Cells
    BY <1>8
  <1>10. \A k \in 1..m : r[k - 1] \in Cells => r[k] \in Cells
    BY <1>2, <1>8
  <1>11. \A k \in 0..m : r[k] \in Cells
    BY <1>1, <1>9, <1>10, LoopKeeps
  <1> QED
    BY <1>6, <1>8, <1>11, <1>12 DEF m, InsertRun

LEMMA InsertDependenciesOf ==
    ASSUME cell \in Cells, NEW f \in Fun, NEW op \in Opcode, NEW key
    PROVE  InsertDependencies(f, op, key) \in Cells
  <1>1. PICK r : InsertRun(f, op, key, r) /\ InsertDependencies(f, op, key) = r[Len(op.names)]
    BY InsertDependenciesRun
  <1>2. Len(op.names) \in Nat
    BY DEF Opcode
  <1> QED
    BY <1>1, <1>2 DEF InsertRun

LEMMA DeleteDependentOf ==
    ASSUME NEW c \in Cells, NEW t, NEW n, NEW definingType, NEW f
    PROVE  DeleteDependent(c, t, n, definingType, f) \in Cells
  <1> DEFINE place == SelectInSeq(Mro[t], LAMBDA u : u = definingType)
             passed == Range(SubSeq(Mro[t], 1, place))
             new(u) == [c[u][n] EXCEPT !.dependents = RemoveFirst(c[u][n].dependents, f)]
             r == DeleteDependent(c, t, n, definingType, f)
  <1>1. r = [u \in Type |-> IF u \notin passed THEN c[u] ELSE [c[u] EXCEPT ![n] = new(u)]]
    BY DEF DeleteDependent
  <1> HIDE DEF place, passed, r
  <1>2. ASSUME NEW u \in Type, n \in Name
        PROVE  new(u) \in [value : Value \cup {Placeholder, Absent}, dependents : Links]
    <2>1. c[u][n] \in Cell /\ c[u][n].dependents \in Links
      BY <1>2, CellOf
    <2>2. RemoveFirst(c[u][n].dependents, f) \in Links
      BY <2>1, RemoveFirstOf
    <2> QED
      BY <2>1, <2>2 DEF Cell
  <1> HIDE DEF new
  <1>3. ASSUME NEW u \in Type
        PROVE  /\ DOMAIN r[u] = Name /\ r[u] = [x \in Name |-> r[u][x]]
               /\ \A x \in Name : r[u][x] \in [value : Value \cup {Placeholder, Absent},
                                               dependents : Links]
    <2>1. c[u] = [x \in Name |-> c[u][x]]
      BY DEF Cells
    <2>2. \A x \in Name : c[u][x] \in [value : Value \cup {Placeholder, Absent}, dependents : Links]
      <3> SUFFICES ASSUME NEW x \in Name
                   PROVE  c[u][x] \in [value : Value \cup {Placeholder, Absent}, dependents : Links]
        OBVIOUS
      <3>1. c[u][x] \in Cell /\ c[u][x].dependents \in Links
        BY CellOf
      <3> QED
        BY <3>1 DEF Cell
    <2>3. CASE u \notin passed
      BY <1>1, <2>1, <2>2, <2>3
    <2>4. CASE u \in passed
      <3>1. r[u] = [c[u] EXCEPT ![n] = new(u)]
        BY <1>1, <2>4
      <3>2. DOMAIN r[u] = Name /\ r[u] = [x \in Name |-> IF x = n THEN new(u) ELSE c[u][x]]
        BY <2>1, <3>1
      <3> QED
        BY <1>2, <2>2, <3>2
    <2> QED
      BY <2>3, <2>4
  <1>4. DOMAIN r = Type /\ r = [u \in Type |-> r[u]]
    BY <1>1
  <1>5. r \in Cells
    BY <1>3, <1>4, CellsFrom
  <1> QED
    BY <1>5 DEF r

-----------------------------------------------------------------------------
(***************************************************************************)
(* Invalidation.                                                           *)
(***************************************************************************)

\* A state that differs in its cells, in one opcode of one function, or in that
\* the process crashed.
LEMMA StateOf ==
    ASSUME NEW st \in States
    PROVE  /\ st.cell \in Cells /\ CachesOK(st.caches) /\ st.crashed \in BOOLEAN
           /\ [st EXCEPT !.crashed = TRUE] \in States
           /\ \A c \in Cells : [st EXCEPT !.cell = c] \in States
           /\ \A c : CachesOK(c) => [st EXCEPT !.caches = c] \in States
  BY DEF States, CachesOK

\* The entries of an opcode are entries.
LEMMA EntriesTyped ==
    ASSUME program \in Programs, NEW f \in Fun, NEW i \in DOMAIN Code[f]
    PROVE  /\ Code[f] \in Seq(Opcode) /\ Code[f][i] \in Opcode
           /\ Code[f][i].keys \subseteq Seq(Layout)
           /\ EntriesAt(f, i) \subseteq Entry
  <1>1. Code[f] \in Seq(Opcode)
    BY ConstantsOK DEF Code
  <1>2. Code[f][i] \in Opcode
    BY <1>1
  <1>3. Code[f][i].keys \subseteq Seq(Layout)
    BY <1>2 DEF Opcode
  <1>4. Empty \in Entry
    BY DEF Empty, Entry
  <1> QED
    BY <1>1, <1>2, <1>3, <1>4 DEF EntriesAt, Entry

\* Caches with other entries of one opcode.
LEMMA CacheChanged ==
    ASSUME program \in Programs, NEW c, CachesOK(c), NEW f \in Fun, NEW i \in DOMAIN Code[f],
           NEW entries, CacheAt(f, i, entries)
    PROVE  CachesOK([c EXCEPT ![f][i] = entries])
  <1> DEFINE e == [c EXCEPT ![f][i] = entries]
  <1>1. c \in [Fun -> Seq(Seq(Entry))] /\ DOMAIN c[f] = DOMAIN Code[f]
    BY DEF CachesOK
  <1>2. Code[f] \in Seq(Opcode) /\ EntriesAt(f, i) \subseteq Entry
    BY EntriesTyped
  <1>3. entries \in Seq(Entry)
    BY <1>2 DEF CacheAt
  <1>4. [c[f] EXCEPT ![i] = entries] \in Seq(Seq(Entry))
    <2> DEFINE n == Len(c[f])
               a == [c[f] EXCEPT ![i] = entries]
    <2>1. c[f] \in Seq(Seq(Entry))
      BY <1>1
    <2>2. n \in Nat /\ DOMAIN c[f] = 1..n /\ \A j \in 1..n : c[f][j] \in Seq(Entry)
      BY <2>1
    <2>3. DOMAIN a = 1..n /\ a = [j \in 1..n |-> a[j]]
          /\ \A j \in 1..n : a[j] = IF j = i THEN entries ELSE c[f][j]
      BY <2>1, <2>2
    <2> HIDE DEF n, a
    <2>4. \A j \in 1..n : a[j] \in Seq(Entry)
      BY <1>3, <2>2, <2>3
    <2>5. a \in [1..n -> Seq(Entry)]
      BY <2>3, <2>4
    <2>6. a \in Seq(Seq(Entry))
      BY <2>2, <2>5
    <2> QED
      BY <2>6 DEF a
  <1>5. /\ e \in [Fun -> Seq(Seq(Entry))]
        /\ \A g \in Fun : DOMAIN e[g] = DOMAIN c[g]
        /\ \A g \in Fun : \A j \in DOMAIN Code[g] :
              e[g][j] = IF g = f /\ j = i THEN entries ELSE c[g][j]
    <2>1. e = [c EXCEPT ![f] = [c[f] EXCEPT ![i] = entries]]
      OBVIOUS
    <2>2. e \in [Fun -> Seq(Seq(Entry))]
      BY <1>1, <1>4, <2>1
    <2>3. e[f] = [c[f] EXCEPT ![i] = entries] /\ \A g \in Fun : g # f => e[g] = c[g]
      BY <1>1, <2>1
    <2> HIDE DEF e
    <2>4. DOMAIN e[f] = DOMAIN c[f] /\ e[f][i] = entries
          /\ \A j \in DOMAIN Code[f] : j # i => e[f][j] = c[f][j]
      BY <1>1, <2>3
    <2> QED
      BY <2>2, <2>3, <2>4
  <1> HIDE DEF e
  <1>6. ASSUME NEW g \in Fun, NEW j \in DOMAIN Code[g]
        PROVE  CacheAt(g, j, e[g][j])
    <2>1. CASE g = f /\ j = i
      BY <1>5, <2>1
    <2>2. CASE ~ (g = f /\ j = i)
      BY <1>5, <2>2 DEF CachesOK
    <2> QED
      BY <2>1, <2>2
  <1>7. CachesOK(e)
    <2>1. \A g \in Fun : DOMAIN c[g] = DOMAIN Code[g]
      BY DEF CachesOK
    <2> QED
      BY <1>5, <1>6, <2>1 DEF CachesOK
  <1> QED
    BY <1>7 DEF e

LEMMA EntryReplaced ==
    ASSUME NEW f, NEW i, NEW entries, CacheAt(f, i, entries), Len(entries) # 1, NEW j,
           NEW e \in EntriesAt(f, i)
    PROVE  CacheAt(f, i, [entries EXCEPT ![j] = e])
  <1> DEFINE E == EntriesAt(f, i)
             n == Len(entries)
             a == [entries EXCEPT ![j] = e]
  <1>1. entries \in Seq(E) /\ n \in {0, 1, kIcEntriesPerPolyCache} /\ n # 1
    BY DEF CacheAt
  <1>2. n \in Nat /\ DOMAIN entries = 1..n /\ \A k \in 1..n : entries[k] \in E
    <2> HIDE DEF E
    <2> QED
      BY <1>1
  <1>3. DOMAIN a = 1..n /\ a = [k \in 1..n |-> a[k]]
        /\ \A k \in 1..n : a[k] = IF k = j THEN e ELSE entries[k]
    <2> HIDE DEF n, E
    <2>1. DOMAIN a = DOMAIN entries /\ a = [k \in DOMAIN entries |-> IF k = j THEN e ELSE entries[k]]
      <3>1. entries = [k \in DOMAIN entries |-> entries[k]]
        BY <1>1
      <3> QED
        BY <3>1
    <2> HIDE DEF a
    <2> QED
      BY <1>2, <2>1
  <1> HIDE DEF a, n, E
  <1>4. \A k \in 1..n : a[k] \in E
    BY <1>2, <1>3 DEF E
  <1>5. a \in [1..n -> E]
    BY <1>3, <1>4
  <1>6. a \in Seq(E) /\ Len(a) = n
    BY <1>2, <1>5
  <1> QED
    BY <1>1, <1>6 DEF CacheAt, a, E

LEMMA EvictOf ==
    ASSUME program \in Programs, NEW st \in States, NEW f \in Fun, NEW i \in DOMAIN Code[f], NEW j
    PROVE  Evict(st, f, i, j) \in States
  <1> DEFINE entries == st.caches[f][i]
             holes == [entries EXCEPT ![j] = Empty]
  <1>1. CachesOK(st.caches)
    BY StateOf
  <1>2. CacheAt(f, i, entries)
    BY <1>1 DEF CachesOK
  <1>3. CASE IsPolymorphic(entries)
    <2>1. Empty \in EntriesAt(f, i)
      BY DEF EntriesAt
    <2>2. Len(entries) # 1
      <3> HIDE DEF entries
      <3>1. Len(entries) \in Nat /\ Len(entries) > 1
        BY <1>2, <1>3, ConstantsOK DEF CacheAt, IsPolymorphic
      <3> QED
        BY <3>1
    <2>3. CacheAt(f, i, holes)
      <3> HIDE DEF entries
      <3> QED
        BY <1>2, <2>1, <2>2, EntryReplaced
    <2>4. Evict(st, f, i, j) = [st EXCEPT !.caches = [st.caches EXCEPT ![f][i] = holes]]
      <3>1. Evict(st, f, i, j) = [st EXCEPT !.caches[f][i][j] = Empty]
        BY <1>3 DEF Evict
      <3>2. @ = [st EXCEPT !.caches = [st.caches EXCEPT ![f][i] = holes]]
        OBVIOUS
      <3> QED
        BY <3>1, <3>2
    <2> HIDE DEF holes
    <2>5. CachesOK([st.caches EXCEPT ![f][i] = holes])
      BY <1>1, <2>3, CacheChanged
    <2> DEFINE c == [st.caches EXCEPT ![f][i] = holes]
    <2>6. CachesOK(c) /\ Evict(st, f, i, j) = [st EXCEPT !.caches = c]
      BY <2>4, <2>5
    <2> HIDE DEF c
    <2> QED
      BY <2>6, StateOf
  <1>4. CASE ~IsPolymorphic(entries)
    <2>1. CacheAt(f, i, <<>>)
      BY DEF CacheAt
    <2>2. CachesOK([st.caches EXCEPT ![f][i] = <<>>])
      BY <1>1, <2>1, CacheChanged
    <2>3. Evict(st, f, i, j) = [st EXCEPT !.caches = [st.caches EXCEPT ![f][i] = <<>>]]
      BY <1>4 DEF Evict
    <2> DEFINE c == [st.caches EXCEPT ![f][i] = <<>>]
    <2>4. CachesOK(c) /\ Evict(st, f, i, j) = [st EXCEPT !.caches = c]
      BY <2>2, <2>3
    <2> HIDE DEF c
    <2> QED
      BY <2>4, StateOf
  <1> QED
    BY <1>3, <1>4

LEMMA DeleteDependentToDefiningTypeOf ==
    ASSUME NEW st \in States, NEW f, NEW t, NEW n
    PROVE  DeleteDependentToDefiningType(st, f, t, n) \in States
  <1> DEFINE r == DeleteDependentToDefiningType(st, f, t, n)
  <1>1. \/ r = st
        \/ r = [st EXCEPT !.crashed = TRUE]
        \/ \E u : r = [st EXCEPT !.cell = DeleteDependent(st.cell, t, n, u, f)]
    BY DEF DeleteDependentToDefiningType
  <1> HIDE DEF r
  <1>2. st.cell \in Cells
    BY StateOf
  <1>3. \A u : DeleteDependent(st.cell, t, n, u, f) \in Cells
    BY <1>2, DeleteDependentOf
  <1>4. r \in States
    BY <1>1, <1>3, StateOf
  <1> QED
    BY <1>4 DEF r

\* The lookups behind the cache p of f, and the first of them that a change of n
\* in t shadows.
ReadsOf(st, f, p) == Reads(Code[f][p[1]], st.caches[f][p[1]][p[2]].key)

Shadowed(st, f, p, t, n) ==
    SelectInSeq(ReadsOf(st, f, p),
                LAMBDA read : read[2] = n /\ IsAffected(st.cell, read[1], n, t))

\* The states of an eviction that unlinks lookup after lookup.
EvictRun(st, f, p, t, n, r) ==
    /\ r[0] = [Evict(st, f, p[1], p[2]) EXCEPT !.cell =
                  DeleteDependent(@, ReadsOf(st, f, p)[Shadowed(st, f, p, t, n)][1], n, t, f)]
    /\ \A k \in 1..Len(Code[f][p[1]].names) :
          r[k] = IF k = Shadowed(st, f, p, t, n) THEN r[k - 1]
                 ELSE DeleteDependentToDefiningType(r[k - 1], f, ReadsOf(st, f, p)[k][1],
                                                    ReadsOf(st, f, p)[k][2])
    /\ \A k \in 0..Len(Code[f][p[1]].names) : r[k] \in States

\* When a cache stays although its opcode names n.
Spared(st, f, p, t, n, dataDescriptor) ==
    \/ st.caches[f][p[1]][p[2]].kind \in {"offset", "transition"} /\ ~dataDescriptor
    \/ Shadowed(st, f, p, t, n) = 0

LEMMA EvictIfAffectedRun ==
    ASSUME program \in Programs, NEW st \in States, NEW f \in Fun, NEW p,
           p[1] \in DOMAIN Code[f], NEW t, NEW n, NEW dataDescriptor
    PROVE  LET e == EvictIfAffected(st, f, p, t, n, dataDescriptor)
               op == Code[f][p[1]]
           IN  \/ e = st /\ (st.crashed \/ n \notin MethodNames(op))
               \/ e = [st EXCEPT !.crashed = TRUE]
               \/ e = st /\ p[2] # 0 /\ Spared(st, f, p, t, n, dataDescriptor)
               \/ /\ ~st.crashed /\ p[2] # 0 /\ Shadowed(st, f, p, t, n) # 0
                  /\ \E r : EvictRun(st, f, p, t, n, r) /\ e = r[Len(op.names)]
  <1> DEFINE op == Code[f][p[1]]
             m == Len(op.names)
             reads == ReadsOf(st, f, p)
             affected == Shadowed(st, f, p, t, n)
             evicted == Evict(st, f, p[1], p[2])
             unlinked == [evicted EXCEPT !.cell =
                              DeleteDependent(evicted.cell, reads[affected][1], n, t, f)]
             next(k, s) == IF k = affected THEN s
                           ELSE DeleteDependentToDefiningType(s, f, reads[k][1], reads[k][2])
             step == [z \in (1..m) \X States |-> next(z[1], z[2])]
             Is(r) == r = [k \in 0..m |-> IF k = 0 THEN unlinked
                                          ELSE IF k = affected THEN r[k - 1]
                                          ELSE DeleteDependentToDefiningType(
                                                   r[k - 1], f, reads[k][1], reads[k][2])]
             r == CHOOSE r : Is(r)
             e == EvictIfAffected(st, f, p, t, n, dataDescriptor)
  <1>1. \/ e = st /\ (st.crashed \/ n \notin MethodNames(op))
        \/ e = [st EXCEPT !.crashed = TRUE]
        \/ e = st /\ p[2] # 0 /\ Spared(st, f, p, t, n, dataDescriptor)
        \/ ~st.crashed /\ p[2] # 0 /\ affected # 0 /\ e = r[m]
    BY DEF EvictIfAffected, Spared, Shadowed, ReadsOf
  <1> HIDE DEF e
  <1>2. m \in Nat
    <2>1. op \in Opcode
      BY EntriesTyped
    <2> HIDE DEF op
    <2> QED
      BY <2>1 DEF Opcode
  <1>3. unlinked \in States
    <2>1. evicted \in States
      BY EvictOf
    <2> HIDE DEF evicted, reads, affected
    <2>2. DeleteDependent(evicted.cell, reads[affected][1], n, t, f) \in Cells
      BY <2>1, StateOf, DeleteDependentOf
    <2> QED
      BY <2>1, <2>2, StateOf
  <1>4. \A k \in 1..m, s \in States : next(k, s) \in States
    <2> HIDE DEF m, reads, affected
    <2> QED
      BY DeleteDependentToDefiningTypeOf
  <1>5. step \in [(1..m) \X States -> States]
    <2> HIDE DEF next, m
    <2> QED
      BY <1>4
  <1> HIDE DEF unlinked, reads
  <1>15. unlinked = [Evict(st, f, p[1], p[2]) EXCEPT !.cell =
                        DeleteDependent(@, ReadsOf(st, f, p)[affected][1], n, t, f)]
    <2> HIDE DEF affected
    <2> QED
      BY DEF unlinked, reads
  <1> HIDE DEF affected
  <1>6. PICK h \in [0..m -> States] :
           h = [i \in 0..m |-> IF i = 0 THEN unlinked ELSE step[<<i, h[i - 1]>>]]
    <2> HIDE DEF m, step
    <2>1. HasRun(m, States, unlinked, step)
      BY <1>2, <1>3, <1>5, FiniteRecursion
    <2> QED
      BY <2>1 DEF HasRun
  <1>7. Is(h)
    <2>1. ASSUME NEW k \in 0..m, k # 0 PROVE step[<<k, h[k - 1]>>] = next(k, h[k - 1])
      <3> HIDE DEF m, next
      <3>1. k - 1 \in 0..m /\ k \in 1..m
        BY <1>2, <2>1
      <3>2. h[k - 1] \in States
        BY <3>1
      <3> QED
        BY <3>1, <3>2
    <2>2. h = [k \in 0..m |-> IF k = 0 THEN unlinked ELSE next(k, h[k - 1])]
      <3> HIDE DEF step, next, m
      <3> QED
        BY <1>6, <2>1
    <2> QED
      BY <2>2
  <1>8. Is(r)
    <2> HIDE DEF Is
    <2> QED
      BY <1>7
  <1>9. r[0] = unlinked /\ \A k \in 1..m : r[k] = next(k, r[k - 1])
    <2> HIDE DEF r
    <2>1. r = [k \in 0..m |-> IF k = 0 THEN unlinked ELSE next(k, r[k - 1])]
      BY <1>8
    <2> HIDE DEF Is, m, next
    <2>2. 0 \in 0..m /\ \A k \in 1..m : k \in 0..m /\ k # 0
      BY <1>2
    <2> QED
      BY <2>1, <2>2
  <1> HIDE DEF r, Is, step, m, next
  <1>10. r[0] \in States
    BY <1>3, <1>9
  <1>11. \A k \in 1..m : r[k - 1] \in States => r[k] \in States
    BY <1>4, <1>9
  <1>12. \A k \in 0..m : r[k] \in States
    BY <1>2, <1>10, <1>11, LoopKeeps
  <1>13. EvictRun(st, f, p, t, n, r)
    BY <1>9, <1>12, <1>15 DEF EvictRun, next, m, op, reads, affected
  <1> QED
    BY <1>1, <1>13 DEF e, m, op, affected

LEMMA EvictIfAffectedOf ==
    ASSUME program \in Programs, NEW st \in States, NEW f \in Fun, NEW p,
           p[1] \in DOMAIN Code[f], NEW t, NEW n, NEW dataDescriptor
    PROVE  EvictIfAffected(st, f, p, t, n, dataDescriptor) \in States
  <1> DEFINE e == EvictIfAffected(st, f, p, t, n, dataDescriptor)
             op == Code[f][p[1]]
  <1>1. \/ e = st
        \/ e = [st EXCEPT !.crashed = TRUE]
        \/ \E r : EvictRun(st, f, p, t, n, r) /\ e = r[Len(op.names)]
    <2> HIDE DEF e
    <2> QED
      BY EvictIfAffectedRun DEF e
  <1>2. Len(op.names) \in Nat
    <2>1. op \in Opcode
      BY EntriesTyped
    <2> HIDE DEF op
    <2> QED
      BY <2>1 DEF Opcode
  <1>3. \A r : EvictRun(st, f, p, t, n, r) => r[Len(op.names)] \in States
    BY <1>2 DEF EvictRun
  <1> HIDE DEF e
  <1>4. e \in States
    BY <1>1, <1>3, StateOf
  <1> QED
    BY <1>4 DEF e

\* The iterator returns caches of opcodes of the function.
LEMMA MaxOf ==
    ASSUME NEW m \in Nat, NEW S \in SUBSET (1..m), S # {}
    PROVE  Max(S) \in S
  <1> DEFINE D == {d \in Nat : \E x \in S : d = m - x}
  <1>1. D \in SUBSET Nat /\ D # {}
    <2>1. PICK x \in S : TRUE
      OBVIOUS
    <2>2. m - x \in Nat
      BY <2>1
    <2> QED
      BY <2>1, <2>2
  <1> HIDE DEF D
  <1>2. PICK d \in D : \A y \in D : d <= y
    BY <1>1, LeastNumber
  <1>3. PICK x \in S : d = m - x /\ d \in Nat
    BY <1>2 DEF D
  <1>4. ASSUME NEW y \in S PROVE x >= y
    <2>1. m - y \in Nat
      OBVIOUS
    <2>2. m - y \in D
      BY <2>1 DEF D
    <2>3. d <= m - y
      BY <1>2, <2>2
    <2> QED
      BY <1>3, <2>3
  <1>5. \E z \in S : \A y \in S : z >= y
    BY <1>4
  <1> QED
    BY <1>5 DEF Max

LEMMA IteratorOf ==
    ASSUME program \in Programs, NEW st, NEW f \in Fun, NEW p \in IcIterator(st, f)
    PROVE  /\ p[1] \in DOMAIN Code[f]
           /\ \/ p[2] = 0
              \/ p[2] \in DOMAIN st.caches[f][p[1]] /\ st.caches[f][p[1]][p[2]] # Empty
  <1> DEFINE entries(i) == st.caches[f][i]
             sites == {i \in DOMAIN Code[f] : IsByteCodeWithCache(Code[f][i], entries(i))}
             filled(i) == {<<i, j>> : j \in {j \in DOMAIN entries(i) : entries(i)[j] # Empty}}
             last == Max(sites)
  <1>1. \/ \E i \in sites : p \in filled(i)
        \/ sites # {} /\ p = <<last, 0>>
    <2> DEFINE found == UNION {filled(i) : i \in sites}
               extra == IF sites # {} /\ IsPolymorphic(entries(last)) /\ filled(last) = {}
                        THEN {<<last, 0>>} ELSE {}
    <2>1. IcIterator(st, f) = found \cup extra
      BY DEF IcIterator
    <2> HIDE DEF sites, filled, last
    <2>2. p \in found => \E i \in sites : p \in filled(i)
      OBVIOUS
    <2>3. p \in extra => sites # {} /\ p = <<last, 0>>
      OBVIOUS
    <2>4. p \in found \/ p \in extra
      <3> HIDE DEF found, extra
      <3> QED
        BY <2>1
    <2> HIDE DEF found, extra
    <2> QED
      BY <2>2, <2>3, <2>4
  <1>2. CASE \E i \in sites : p \in filled(i)
    BY <1>2
  <1>3. CASE sites # {} /\ p = <<last, 0>>
    <2> DEFINE n == Len(Code[f])
    <2>1. n \in Nat /\ DOMAIN Code[f] = 1..n
      BY ConstantsOK DEF Code
    <2>2. sites \in SUBSET (1..n)
      BY <2>1
    <2> HIDE DEF n, sites
    <2>3. last \in sites
      BY <1>3, <2>1, <2>2, MaxOf
    <2> QED
      BY <1>3, <2>3 DEF sites
  <1> QED
    BY <1>1, <1>2, <1>3

\* The states of the walk over the caches of f.
WalkRun(st, f, t, n, dataDescriptor, r) ==
    /\ r[0] = st
    /\ \A q \in 1..IteratorSteps(f) :
          r[q] = IF IteratorAt(q) \notin IcIterator(st, f) THEN r[q - 1]
                 ELSE EvictIfAffected(r[q - 1], f, IteratorAt(q), t, n, dataDescriptor)
    /\ \A q \in 0..IteratorSteps(f) : r[q] \in States

LEMMA StepsOf ==
    ASSUME program \in Programs, NEW f \in Fun
    PROVE  IteratorSteps(f) \in Nat
  <1> DEFINE l == Len(Code[f])
  <1>1. l \in Nat
    BY ConstantsOK DEF Code
  <1> HIDE DEF l
  <1>2. l * (kIcEntriesPerPolyCache + 1) \in Nat
    BY <1>1, ConstantsOK
  <1> QED
    BY <1>2 DEF IteratorSteps, l

LEMMA EvictCacheRun ==
    ASSUME program \in Programs, NEW st \in States, NEW f \in Fun, NEW t, NEW n,
           NEW dataDescriptor
    PROVE  \E r : /\ WalkRun(st, f, t, n, dataDescriptor, r)
                  /\ EvictCache(st, f, t, n, dataDescriptor) = r[IteratorSteps(f)]
  <1> DEFINE m == IteratorSteps(f)
             returned == IcIterator(st, f)
             next(q, s) == IF IteratorAt(q) \notin returned THEN s
                           ELSE EvictIfAffected(s, f, IteratorAt(q), t, n, dataDescriptor)
             step == [z \in (1..m) \X States |-> next(z[1], z[2])]
             Is(r) == r = [q \in 0..m |-> IF q = 0 THEN st
                                          ELSE IF IteratorAt(q) \notin returned THEN r[q - 1]
                                          ELSE EvictIfAffected(r[q - 1], f, IteratorAt(q), t, n,
                                                               dataDescriptor)]
             r == CHOOSE r : Is(r)
             e == EvictCache(st, f, t, n, dataDescriptor)
  <1>1. e = r[m]
    <2>1. f # None
      BY ConstantsOK
    <2> QED
      BY <2>1 DEF EvictCache
  <1> HIDE DEF e
  <1>2. m \in Nat
    BY StepsOf
  <1>3. \A q \in 1..m, s \in States : next(q, s) \in States
    <2> SUFFICES ASSUME NEW q \in 1..m, NEW s \in States PROVE next(q, s) \in States
      OBVIOUS
    <2>1. CASE IteratorAt(q) \in returned
      <3>1. IteratorAt(q)[1] \in DOMAIN Code[f]
        BY <2>1, IteratorOf
      <3>2. EvictIfAffected(s, f, IteratorAt(q), t, n, dataDescriptor) \in States
        BY <3>1, EvictIfAffectedOf
      <3> HIDE DEF returned
      <3> QED
        BY <2>1, <3>2
    <2> HIDE DEF returned
    <2>2. CASE IteratorAt(q) \notin returned
      BY <2>2
    <2> QED
      BY <2>1, <2>2
  <1>4. step \in [(1..m) \X States -> States]
    <2> HIDE DEF next, m
    <2> QED
      BY <1>3
  <1> HIDE DEF returned
  <1>5. PICK h \in [0..m -> States] :
           h = [i \in 0..m |-> IF i = 0 THEN st ELSE step[<<i, h[i - 1]>>]]
    <2> HIDE DEF m, step
    <2>1. HasRun(m, States, st, step)
      BY <1>2, <1>4, FiniteRecursion
    <2> QED
      BY <2>1 DEF HasRun
  <1>6. Is(h)
    <2>1. ASSUME NEW k \in 0..m, k # 0 PROVE step[<<k, h[k - 1]>>] = next(k, h[k - 1])
      <3> HIDE DEF m, next
      <3>1. k - 1 \in 0..m /\ k \in 1..m
        BY <1>2, <2>1
      <3>2. h[k - 1] \in States
        BY <3>1
      <3> QED
        BY <3>1, <3>2
    <2>2. h = [k \in 0..m |-> IF k = 0 THEN st ELSE next(k, h[k - 1])]
      <3> HIDE DEF step, next, m
      <3> QED
        BY <1>5, <2>1
    <2> QED
      BY <2>2
  <1>7. Is(r)
    <2> HIDE DEF Is
    <2> QED
      BY <1>6
  <1>8. r[0] = st /\ \A k \in 1..m : r[k] = next(k, r[k - 1])
    <2> HIDE DEF r
    <2>1. r = [k \in 0..m |-> IF k = 0 THEN st ELSE next(k, r[k - 1])]
      BY <1>7
    <2> HIDE DEF Is, m, next
    <2>2. 0 \in 0..m /\ \A k \in 1..m : k \in 0..m /\ k # 0
      BY <1>2
    <2> QED
      BY <2>1, <2>2
  <1>12. \A q \in 1..m : r[q] = IF IteratorAt(q) \notin returned THEN r[q - 1]
                               ELSE EvictIfAffected(r[q - 1], f, IteratorAt(q), t, n, dataDescriptor)
    BY <1>8
  <1> HIDE DEF r, Is, step, m, next
  <1>9. r[0] \in States
    BY <1>8
  <1>10. \A k \in 1..m : r[k - 1] \in States => r[k] \in States
    BY <1>3, <1>8
  <1>11. \A k \in 0..m : r[k] \in States
    BY <1>2, <1>9, <1>10, LoopKeeps
  <1> QED
    BY <1>1, <1>8, <1>11, <1>12 DEF WalkRun, e, m, returned

LEMMA EvictCacheOf ==
    ASSUME program \in Programs, NEW st \in States, NEW f \in Fun \cup {None}, NEW t, NEW n,
           NEW dataDescriptor
    PROVE  EvictCache(st, f, t, n, dataDescriptor) \in States
  <1>1. CASE f = None
    BY <1>1, StateOf DEF EvictCache
  <1>2. CASE f # None
    <2>1. f \in Fun /\ IteratorSteps(f) \in Nat
      BY <1>2, StepsOf
    <2>2. PICK r : /\ WalkRun(st, f, t, n, dataDescriptor, r)
                   /\ EvictCache(st, f, t, n, dataDescriptor) = r[IteratorSteps(f)]
      BY <2>1, EvictCacheRun
    <2> QED
      BY <2>1, <2>2 DEF WalkRun
  <1> QED
    BY <1>1, <1>2

\* The states of the walk over the links of a cell that was changed.
LinksRun(c, t, n, r) ==
    /\ r[0] = [cell |-> c, caches |-> caches, crashed |-> FALSE]
    /\ \A k \in 1..Len(c[t][n].dependents) :
          r[k] = IF r[k - 1].crashed THEN r[k - 1]
                 ELSE EvictCache(r[k - 1], c[t][n].dependents[k], t, n, c[t][n].value \in Property)
    /\ \A k \in 0..Len(c[t][n].dependents) : r[k] \in States

LEMMA InvalidateAttrRun ==
    ASSUME program \in Programs, CachesOK(caches), NEW c \in Cells, NEW t \in Type, NEW n \in Name
    PROVE  \E r : LinksRun(c, t, n, r) /\ InvalidateAttr(c, t, n) = r[Len(c[t][n].dependents)]
  <1> DEFINE links == c[t][n].dependents
             m == Len(links)
             st == [cell |-> c, caches |-> caches, crashed |-> FALSE]
             dataDescriptor == c[t][n].value \in Property
             next(k, s) == IF s.crashed THEN s ELSE EvictCache(s, links[k], t, n, dataDescriptor)
             step == [z \in (1..m) \X States |-> next(z[1], z[2])]
             Is(r) == r = [k \in 0..m |-> IF k = 0 THEN st ELSE next(k, r[k - 1])]
             r == CHOOSE r : Is(r)
  <1>1. InvalidateAttr(c, t, n) = r[m]
    BY DEF InvalidateAttr
  <1>2. m \in Nat /\ \A k \in 1..m : links[k] \in Fun \cup {None}
    <2>1. links \in Seq(Fun \cup {None})
      BY CellOf DEF Links
    <2> HIDE DEF links
    <2> QED
      BY <2>1
  <1>3. st \in States
    BY DEF States, CachesOK
  <1> HIDE DEF links, st, dataDescriptor
  <1>4. \A k \in 1..m, s \in States : next(k, s) \in States
    BY <1>2, EvictCacheOf
  <1>5. step \in [(1..m) \X States -> States]
    <2> HIDE DEF next, m
    <2> QED
      BY <1>4
  <1>6. PICK h \in [0..m -> States] :
           h = [i \in 0..m |-> IF i = 0 THEN st ELSE step[<<i, h[i - 1]>>]]
    <2> HIDE DEF m, step
    <2>1. HasRun(m, States, st, step)
      BY <1>2, <1>3, <1>5, FiniteRecursion
    <2> QED
      BY <2>1 DEF HasRun
  <1>7. Is(h)
    <2>1. ASSUME NEW k \in 0..m, k # 0 PROVE step[<<k, h[k - 1]>>] = next(k, h[k - 1])
      <3> HIDE DEF m, next
      <3>1. k - 1 \in 0..m /\ k \in 1..m
        BY <1>2, <2>1
      <3>2. h[k - 1] \in States
        BY <3>1
      <3> QED
        BY <3>1, <3>2
    <2> HIDE DEF step, next, m
    <2> QED
      BY <1>6, <2>1
  <1>8. Is(r)
    <2> HIDE DEF Is
    <2> QED
      BY <1>7
  <1>9. r[0] = st /\ \A k \in 1..m : r[k] = next(k, r[k - 1])
    <2> HIDE DEF r, next, m
    <2>1. r = [k \in 0..m |-> IF k = 0 THEN st ELSE next(k, r[k - 1])]
      BY <1>8
    <2>2. 0 \in 0..m /\ \A k \in 1..m : k \in 0..m /\ k # 0
      BY <1>2
    <2> HIDE DEF Is
    <2> QED
      BY <2>1, <2>2
  <1> HIDE DEF r, Is, step, m, next
  <1>10. r[0] \in States
    BY <1>3, <1>9
  <1>11. \A k \in 1..m : r[k - 1] \in States => r[k] \in States
    BY <1>4, <1>9
  <1>12. \A k \in 0..m : r[k] \in States
    BY <1>2, <1>10, <1>11, LoopKeeps
  <1> QED
    BY <1>1, <1>9, <1>12 DEF LinksRun, next, m, st, links, dataDescriptor

LEMMA InvalidateAttrOf ==
    ASSUME program \in Programs, CachesOK(caches), NEW c \in Cells, NEW t \in Type, NEW n \in Name
    PROVE  InvalidateAttr(c, t, n) \in States
  <1>1. PICK r : LinksRun(c, t, n, r) /\ InvalidateAttr(c, t, n) = r[Len(c[t][n].dependents)]
    BY InvalidateAttrRun
  <1>2. c[t][n].dependents \in Links
    BY CellOf
  <1>3. Len(c[t][n].dependents) \in Nat
    BY <1>2 DEF Links
  <1> QED
    BY <1>1, <1>3 DEF LinksRun


-----------------------------------------------------------------------------
(***************************************************************************)
(* Lookups and the caching of their results.                               *)
(***************************************************************************)

LEMMA LookupOf ==
    ASSUME NEW op \in Opcode, NEW key
    PROVE  Lookup(op, key) \in Targets
  <1>1. NotFound \in Targets /\ \A k \in Kinds, v \in Value \cup {None} : [kind |-> k, value |-> v] \in Targets
    BY DEF Targets
  <1>2. ASSUME NEW left, NEW right PROVE OperatorMethod(op, left, right) \in Targets
    <2>1. \/ OperatorMethod(op, left, right) = NotFound
          \/ \E k \in Kinds, v \in Method : OperatorMethod(op, left, right) = [kind |-> k, value |-> v]
      BY DEF OperatorMethod, Kinds
    <2> QED
      BY <1>1, <2>1 DEF Value
  <1>3. ASSUME NEW left, NEW right PROVE InplaceMethod(op, left, right) \in Targets
    <2> DEFINE method == typeLookupInMro(left.type, Head(op.names))
    <2>1. \/ InplaceMethod(op, left, right) = OperatorMethod(op, left, right)
          \/ InplaceMethod(op, left, right) = NotFound
          \/ method \in Method /\ InplaceMethod(op, left, right) = [kind |-> "inplace", value |-> method]
      BY DEF InplaceMethod
    <2> HIDE DEF method
    <2> QED
      BY <1>1, <1>2, <2>1 DEF Value, Kinds
  <1>4. ASSUME NEW l, NEW n PROVE SpecialMethod(l, n) \in Targets
    <2> DEFINE method == typeLookupInMro(l.type, n)
    <2>1. \/ SpecialMethod(l, n) = NotFound
          \/ method \in Method /\ SpecialMethod(l, n) = [kind |-> "method", value |-> method]
      BY DEF SpecialMethod
    <2> HIDE DEF method
    <2> QED
      BY <1>1, <2>1 DEF Value, Kinds
  <1>5. ASSUME NEW l, NEW n PROVE StoreLocation(l, n) \in Targets
    <2>1. \/ StoreLocation(l, n) = NotFound
          \/ StoreLocation(l, n) = [kind |-> "offset", value |-> None]
          \/ StoreLocation(l, n) = [kind |-> "transition", value |-> None]
      BY DEF StoreLocation
    <2> QED
      BY <1>1, <2>1 DEF Kinds
  <1>6. ASSUME NEW l, NEW n PROVE AttributeLocation(l, n) \in Targets
    <2> DEFINE attr == typeLookupInMro(l.type, n)
    <2>1. \/ AttributeLocation(l, n) = NotFound
          \/ AttributeLocation(l, n) = [kind |-> "offset", value |-> None]
          \/ attr \in Property /\ AttributeLocation(l, n) = [kind |-> "property", value |-> attr]
          \/ attr \in Method /\ AttributeLocation(l, n) = [kind |-> "method", value |-> attr]
      BY DEF AttributeLocation
    <2> HIDE DEF attr
    <2> QED
      BY <1>1, <2>1 DEF Value, Kinds
  <1>7. \A found \in Targets : OnlyMethod(found) \in Targets
    BY <1>1 DEF OnlyMethod
  <1>8. op.op \in Opcodes
    BY DEF Opcode
  <1>9. CASE op.op \in {"BINARY_OP", "COMPARE_OP"}
    <2>1. Lookup(op, key) = OperatorMethod(op, key[1], key[2])
      BY <1>9 DEF Lookup, SpecialMethods
    <2> QED
      BY <1>2, <2>1
  <1>10. CASE op.op = "INPLACE_OP"
    <2>1. Lookup(op, key) = InplaceMethod(op, key[1], key[2])
      BY <1>10 DEF Lookup, SpecialMethods
    <2> QED
      BY <1>3, <2>1
  <1>11. CASE op.op \in SpecialMethods
    <2>1. Lookup(op, key) = SpecialMethod(key[1], op.names[1])
      BY <1>11 DEF Lookup, SpecialMethods
    <2> QED
      BY <1>4, <2>1
  <1>12. CASE op.op = "STORE_ATTR"
    <2>1. Lookup(op, key) = StoreLocation(key[1], op.names[1])
      BY <1>12 DEF Lookup, SpecialMethods
    <2> QED
      BY <1>5, <2>1
  <1>13. CASE op.op = "LOAD_ATTR"
    <2>1. Lookup(op, key) = AttributeLocation(key[1], op.names[1])
      BY <1>13 DEF Lookup, SpecialMethods
    <2> QED
      BY <1>6, <2>1
  <1>14. CASE op.op = "LOAD_METHOD"
    <2>1. Lookup(op, key) = OnlyMethod(AttributeLocation(key[1], op.names[1]))
      BY <1>14 DEF Lookup, SpecialMethods
    <2> QED
      BY <1>6, <1>7, <2>1
  <1> QED
    BY <1>8, <1>9, <1>10, <1>11, <1>12, <1>13, <1>14 DEF Opcodes, Operators

\* A full polymorphic cache.
LEMMA PolymorphicFrom ==
    ASSUME NEW f, NEW i, NEW e \in EntriesAt(f, i)
    PROVE  CacheAt(f, i, [j \in 1..kIcEntriesPerPolyCache |-> IF j = 1 THEN e ELSE Empty])
  <1> DEFINE E == EntriesAt(f, i)
             n == kIcEntriesPerPolyCache
             a == [j \in 1..n |-> IF j = 1 THEN e ELSE Empty]
  <1>1. n \in Nat /\ n > 1
    BY ConstantsOK
  <1>2. Empty \in E
    BY DEF EntriesAt
  <1> HIDE DEF E, n
  <1>3. a \in [1..n -> E]
    BY <1>2 DEF E
  <1> HIDE DEF a
  <1>4. a \in Seq(E) /\ Len(a) = n
    BY <1>1, <1>3
  <1>5. CacheAt(f, i, a)
    BY <1>1, <1>4 DEF CacheAt, E, n
  <1> QED
    BY <1>5 DEF a, n

LEMMA UpdateCacheOf ==
    ASSUME program \in Programs, NEW f \in Fun, NEW i \in DOMAIN Code[f], NEW entries,
           CacheAt(f, i, entries), NEW e \in EntriesAt(f, i), e # Empty
    PROVE  CacheAt(f, i, UpdateCache(entries, e))
  <1> DEFINE u == UpdateCache(entries, e)
             first(x) == [j \in 1..kIcEntriesPerPolyCache |-> IF j = 1 THEN x ELSE Empty]
             poly == IF Len(entries) = 1 THEN first(entries[1]) ELSE entries
             slot == SelectInSeq(poly, LAMBDA x : x = Empty \/ x.key = e.key)
  <1>1. \/ u = <<e>>
        \/ entries # <<>> /\ (u = [poly EXCEPT ![slot] = e] \/ u = first(e))
    BY DEF UpdateCache
  <1> HIDE DEF u, slot
  <1>2. CacheAt(f, i, <<e>>)
    <2>1. <<e>> \in Seq(EntriesAt(f, i)) /\ Len(<<e>>) = 1 /\ <<e>>[1] = e
      OBVIOUS
    <2> QED
      BY <2>1 DEF CacheAt
  <1>3. CacheAt(f, i, first(e))
    BY PolymorphicFrom
  <1>4. CacheAt(f, i, poly) /\ Len(poly) # 1
    <2>1. CASE Len(entries) = 1
      <3>1. entries[1] \in EntriesAt(f, i)
        <4> DEFINE E == EntriesAt(f, i)
        <4>1. entries \in Seq(E)
          BY DEF CacheAt
        <4> HIDE DEF E
        <4>2. \A k \in 1..Len(entries) : entries[k] \in E
          BY <4>1
        <4>3. 1 \in 1..Len(entries)
          BY <2>1
        <4>4. entries[1] \in E
          BY <4>2, <4>3
        <4> QED
          BY <4>4 DEF E
      <3>2. CacheAt(f, i, first(entries[1]))
        BY <3>1, PolymorphicFrom
      <3>3. Len(first(entries[1])) = kIcEntriesPerPolyCache
        BY ConstantsOK
      <3>4. kIcEntriesPerPolyCache # 1
        BY ConstantsOK
      <3> HIDE DEF first
      <3>5. poly = first(entries[1])
        BY <2>1
      <3> HIDE DEF poly
      <3> QED
        BY <3>2, <3>3, <3>4, <3>5
    <2>2. CASE Len(entries) # 1
      BY <2>2
    <2> QED
      BY <2>1, <2>2
  <1> HIDE DEF poly, first
  <1>5. CacheAt(f, i, [poly EXCEPT ![slot] = e])
    BY <1>4, EntryReplaced
  <1>6. CacheAt(f, i, u)
    BY <1>1, <1>2, <1>3, <1>5
  <1> QED
    BY <1>6 DEF u

LEMMA CacheResultOf ==
    ASSUME program \in Programs, cell \in Cells, NEW old, CachesOK(old), NEW f \in Fun,
           NEW i \in DOMAIN Code[f], NEW key \in Code[f][i].keys, NEW target \in Targets,
           CacheResult(old, f, i, key, target)
    PROVE  cell' \in Cells /\ CachesOK(caches')
  <1> DEFINE e == [key |-> key, kind |-> target.kind, value |-> target.value]
             op == Code[f][i]
             new == UpdateCache(old[f][i], e)
  <1>1. \/ /\ target # NotFound
           /\ caches' = [old EXCEPT ![f][i] = new]
           /\ cell' = InsertDependencies(f, op, key)
        \/ caches' = old /\ cell' = cell
    BY DEF CacheResult
  <1>2. op \in Opcode /\ key \in Seq(Layout)
    BY EntriesTyped
  <1>3. CASE caches' = old /\ cell' = cell
    BY <1>3
  <1>4. CASE /\ target # NotFound
             /\ caches' = [old EXCEPT ![f][i] = new]
             /\ cell' = InsertDependencies(f, op, key)
    <2>1. target \in [kind : Kinds, value : Value \cup {None}]
      BY <1>4 DEF Targets
    <2>2. e \in EntriesAt(f, i)
      BY <2>1 DEF EntriesAt
    <2>3. e # Empty
      <3>1. "none" \notin Kinds /\ target.kind \in Kinds
        BY <2>1 DEF Kinds
      <3>2. e.kind # Empty.kind
        BY <3>1 DEF Empty
      <3> HIDE DEF e
      <3> QED
        BY <3>2
    <2>4. CacheAt(f, i, old[f][i])
      BY DEF CachesOK
    <2> HIDE DEF e
    <2>5. CacheAt(f, i, new)
      BY <2>2, <2>3, <2>4, UpdateCacheOf
    <2> HIDE DEF new
    <2>6. CachesOK([old EXCEPT ![f][i] = new])
      BY <2>5, CacheChanged
    <2> DEFINE c == [old EXCEPT ![f][i] = new]
    <2>7. CachesOK(c) /\ caches' = c
      BY <1>4, <2>6
    <2> HIDE DEF c, op
    <2>8. InsertDependencies(f, op, key) \in Cells
      BY <1>2, InsertDependenciesOf
    <2> QED
      BY <1>4, <2>7, <2>8
  <1> QED
    BY <1>1, <1>3, <1>4

-----------------------------------------------------------------------------
(***************************************************************************)
(* The steps of the program.                                               *)
(***************************************************************************)

LEMMA CellReplaced ==
    ASSUME NEW c \in Cells, NEW t \in Type, NEW n \in Name,
           NEW v \in [value : Value \cup {Placeholder, Absent}, dependents : Links]
    PROVE  [c EXCEPT ![t][n] = v] \in Cells
  <1> DEFINE r == [c EXCEPT ![t][n] = v]
  <1>1. c = [u \in Type |-> c[u]] /\ \A u \in Type : c[u] = [x \in Name |-> c[u][x]]
    BY DEF Cells
  <1>2. DOMAIN r = Type /\ r = [u \in Type |-> r[u]] /\ r[t] = [c[t] EXCEPT ![n] = v]
        /\ \A u \in Type : u # t => r[u] = c[u]
    BY <1>1
  <1> HIDE DEF r
  <1>3. \A u \in Type, x \in Name : c[u][x] \in [value : Value \cup {Placeholder, Absent},
                                                 dependents : Links]
    <2> SUFFICES ASSUME NEW u \in Type, NEW x \in Name
                 PROVE  c[u][x] \in [value : Value \cup {Placeholder, Absent}, dependents : Links]
      OBVIOUS
    <2>1. c[u][x] \in Cell /\ c[u][x].dependents \in Links
      BY CellOf
    <2> QED
      BY <2>1 DEF Cell
  <1>4. \A u \in Type : /\ DOMAIN r[u] = Name /\ r[u] = [x \in Name |-> r[u][x]]
                        /\ \A x \in Name : r[u][x] = v \/ r[u][x] = c[u][x]
    <2> SUFFICES ASSUME NEW u \in Type
                 PROVE  /\ DOMAIN r[u] = Name /\ r[u] = [x \in Name |-> r[u][x]]
                        /\ \A x \in Name : r[u][x] = v \/ r[u][x] = c[u][x]
      OBVIOUS
    <2>1. CASE u = t
      <3>1. r[u] = [x \in Name |-> IF x = n THEN v ELSE c[t][x]]
        BY <1>1, <1>2, <2>1
      <3> QED
        BY <2>1, <3>1
    <2>2. CASE u # t
      BY <1>1, <1>2, <2>2
    <2> QED
      BY <2>1, <2>2
  <1>5. \A u \in Type, x \in Name : r[u][x] \in [value : Value \cup {Placeholder, Absent},
                                                 dependents : Links]
    BY <1>3, <1>4
  <1>6. r \in Cells
    BY <1>2, <1>4, <1>5, CellsFrom
  <1> QED
    BY <1>6 DEF r

LEMMA InitInv ==
    Init => IInv
  <1> SUFFICES ASSUME Init PROVE IInv
    OBVIOUS
  <1>1. program \in Programs /\ live \subseteq Fun /\ crashed \in BOOLEAN
    BY DEF Init
  <1>2. cell \in Cells
    <2>1. NoCell \in [value : Value \cup {Placeholder, Absent}, dependents : Links]
      BY DEF NoCell, Links, Once
    <2>2. cell = [t \in Type |-> [n \in Name |-> NoCell]]
      BY DEF Init
    <2>3. /\ DOMAIN cell = Type /\ cell = [t \in Type |-> cell[t]]
          /\ \A t \in Type : DOMAIN cell[t] = Name /\ cell[t] = [n \in Name |-> cell[t][n]]
          /\ \A t \in Type, n \in Name : cell[t][n] = NoCell
      BY <2>2
    <2> QED
      BY <2>1, <2>3, CellsFrom
  <1>3. CachesOK(caches)
    <2>1. caches = [f \in Fun |-> [i \in DOMAIN Code[f] |-> <<>>]]
      BY DEF Init
    <2>2. \A f \in Fun : [i \in DOMAIN Code[f] |-> <<>>] \in Seq(Seq(Entry))
      <3> SUFFICES ASSUME NEW f \in Fun PROVE [i \in DOMAIN Code[f] |-> <<>>] \in Seq(Seq(Entry))
        OBVIOUS
      <3> DEFINE n == Len(Code[f])
      <3>1. n \in Nat /\ DOMAIN Code[f] = 1..n
        BY <1>1, ConstantsOK DEF Code
      <3> HIDE DEF n
      <3> QED
        BY <3>1
    <2>3. \A f, i : CacheAt(f, i, <<>>)
      BY DEF CacheAt
    <2> QED
      BY <2>1, <2>2, <2>3 DEF CachesOK
  <1>4. calls \in Seq(CallRecord) /\ Len(calls) <= MaxCalls /\ DOMAIN calls = {}
    BY ConstantsOK DEF Init
  <1> QED
    BY <1>1, <1>2, <1>3, <1>4 DEF IInv

\* What the caches of a program must be does not change.
LEMMA SameProgram ==
    ASSUME program' = program
    PROVE  /\ \A c : CachesOK(c)' = CachesOK(c)
           /\ \A call : CallOK(call)' = CallOK(call)
  BY DEF CachesOK, CacheAt, EntriesAt, CallOK, Code

\* A step that changes caches and cells only, and perhaps ends the process.
LEMMA CachesStep ==
    ASSUME IInv, program' = program, cell' \in Cells, CachesOK(caches'), live' = live,
           crashed' \in BOOLEAN, calls' = calls
    PROVE  IInv'
  BY SameProgram DEF IInv, CachesOK, CacheAt, EntriesAt, CallOK, Code

LEMMA LoadInv ==
    ASSUME IInv, NEW f \in Fun, NEW i \in DOMAIN Code[f], NEW key \in Code[f][i].keys,
           Load(f, i, key)
    PROVE  IInv'
  <1> DEFINE op == Code[f][i]
             target == Lookup(op, key)
             retry == Len(caches[f][i]) = 1 /\ caches[f][i][1].kind \in MonomorphicKinds
             old == IF retry THEN [caches EXCEPT ![f][i] = <<>>] ELSE caches
             call == [fun |-> f, opcode |-> i, key |-> key, target |-> target]
  <1>1. /\ program \in Programs /\ cell \in Cells /\ CachesOK(caches) /\ calls \in Seq(CallRecord)
        /\ live \subseteq Fun /\ crashed \in BOOLEAN
    BY DEF IInv
  <1>2. /\ program' = program /\ live' = live /\ crashed' = crashed
        /\ \/ CacheResult(old, f, i, key, target) /\ calls' = calls
           \/ Len(calls) < MaxCalls /\ calls' = Append(calls, call) /\ caches' = old /\ cell' = cell
    BY DEF Load
  <1>3. op \in Opcode /\ key \in Seq(Layout) /\ i \in Nat
    <2>1. Code[f] \in Seq(Opcode)
      BY <1>1, EntriesTyped
    <2>2. i \in Nat
      BY <2>1
    <2> QED
      BY <1>1, <2>2, EntriesTyped
  <1>4. target \in Targets
    <2> HIDE DEF op
    <2> QED
      BY <1>3, LookupOf
  <1> HIDE DEF target
  <1>5. CachesOK(old)
    <2>1. CacheAt(f, i, <<>>)
      BY DEF CacheAt
    <2>2. CachesOK([caches EXCEPT ![f][i] = <<>>])
      BY <1>1, <2>1, CacheChanged
    <2> HIDE DEF retry
    <2> QED
      BY <1>1, <2>2
  <1> HIDE DEF old, op
  <1>6. CASE CacheResult(old, f, i, key, target) /\ calls' = calls
    <2>1. cell' \in Cells /\ CachesOK(caches')
      BY <1>1, <1>4, <1>5, <1>6, CacheResultOf DEF op
    <2> QED
      BY <1>1, <1>2, <1>6, <2>1, CachesStep
  <1>7. CASE Len(calls) < MaxCalls /\ calls' = Append(calls, call) /\ caches' = old /\ cell' = cell
    <2> DEFINE n == Len(calls)
    <2>1. call \in CallRecord /\ CallOK(call)
      BY <1>3, <1>4 DEF CallRecord, CallOK
    <2> HIDE DEF call
    <2>2. /\ n \in Nat /\ DOMAIN calls = 1..n
          /\ calls' \in Seq(CallRecord) /\ Len(calls') = n + 1 /\ DOMAIN calls' = 1..(n + 1)
          /\ calls'[n + 1] = call /\ \A k \in 1..n : calls'[k] = calls[k]
      BY <1>1, <1>7, <2>1
    <2>3. n + 1 <= MaxCalls
      <3>1. n < MaxCalls
        BY <1>7
      <3> HIDE DEF n
      <3> QED
        BY <2>2, <3>1, ConstantsOK
    <2> HIDE DEF n
    <2>4. \A k \in 1..n : CallOK(calls[k])
      BY <2>2 DEF IInv
    <2>5. \A k \in DOMAIN calls' : CallOK(calls'[k])
      <3> SUFFICES ASSUME NEW k \in 1..(n + 1) PROVE CallOK(calls'[k])
        BY <2>2
      <3>1. CASE k = n + 1
        BY <2>1, <2>2, <3>1
      <3>2. CASE k # n + 1
        <4>1. k \in 1..n
          BY <2>2, <3>2
        <4> QED
          BY <2>2, <2>4, <4>1
      <3> QED
        BY <3>1, <3>2
    <2>6. (\A k \in DOMAIN calls : CallOK(calls[k]))'
      BY <1>2, <2>5 DEF CallOK, Code
    <2>7. CachesOK(caches)'
      BY <1>2, <1>5, <1>7 DEF CachesOK, CacheAt, EntriesAt, Code
    <2> QED
      BY <1>1, <1>2, <1>7, <2>2, <2>3, <2>6, <2>7 DEF IInv, Cells, Cell, Links
  <1> QED
    BY <1>2, <1>6, <1>7

LEMMA ReturnInv ==
    ASSUME IInv, NEW raises \in BOOLEAN, Return(raises)
    PROVE  IInv'
  <1> DEFINE call == Last(calls)
             n == Len(calls)
  <1>1. /\ program \in Programs /\ cell \in Cells /\ CachesOK(caches) /\ calls \in Seq(CallRecord)
        /\ live \subseteq Fun /\ crashed \in BOOLEAN
        /\ \A k \in DOMAIN calls : CallOK(calls[k])
    BY DEF IInv
  <1>2. /\ program' = program /\ live' = live /\ crashed' = crashed
        /\ calls # <<>> /\ calls' = Front(calls)
        /\ \/ CacheResult(caches, call.fun, call.opcode, call.key, call.target)
           \/ caches' = caches /\ cell' = cell
    BY DEF Return
  <1>3. n \in Nat /\ n # 0 /\ DOMAIN calls = 1..n /\ n <= MaxCalls
    BY <1>1, <1>2 DEF IInv
  <1>4. CallOK(call)
    <2>1. call = calls[n]
      BY DEF Last
    <2> HIDE DEF call, n
    <2>2. n \in DOMAIN calls
      BY <1>3
    <2> QED
      BY <1>1, <2>1, <2>2
  <1>5. cell' \in Cells /\ CachesOK(caches')
    <2>1. CASE CacheResult(caches, call.fun, call.opcode, call.key, call.target)
      <3> HIDE DEF call
      <3>1. /\ call.fun \in Fun /\ call.opcode \in DOMAIN Code[call.fun]
            /\ call.key \in Code[call.fun][call.opcode].keys /\ call.target \in Targets
        BY <1>4 DEF CallOK
      <3> QED
        BY <1>1, <2>1, <3>1, CacheResultOf
    <2>2. CASE caches' = caches /\ cell' = cell
      BY <1>1, <2>2
    <2> QED
      BY <1>2, <2>1, <2>2
  <1> HIDE DEF call
  <1>6. /\ calls' \in Seq(CallRecord) /\ Len(calls') = n - 1 /\ DOMAIN calls' = 1..(n - 1)
        /\ \A k \in 1..(n - 1) : calls'[k] = calls[k]
    <2>1. calls' = SubSeq(calls, 1, n - 1)
      BY <1>2 DEF Front
    <2>2. n - 1 \in Nat /\ n = Len(calls)
      BY <1>3
    <2> HIDE DEF n
    <2>3. calls' \in Seq(CallRecord) /\ Len(calls') = n - 1
      BY <1>1, <1>3, <2>1, <2>2
    <2>4. \A k \in 1..(n - 1) : calls'[k] = calls[k]
      BY <1>1, <1>3, <2>1, <2>2
    <2> QED
      BY <2>2, <2>3, <2>4
  <1>7. \A k \in DOMAIN calls' : CallOK(calls'[k])
    <2> SUFFICES ASSUME NEW k \in 1..(n - 1) PROVE CallOK(calls[k])
      BY <1>6
    <2> HIDE DEF n
    <2>1. k \in DOMAIN calls
      BY <1>3
    <2> QED
      BY <1>1, <2>1
  <1>8. (\A k \in DOMAIN calls : CallOK(calls[k]))'
    BY <1>2, <1>7 DEF CallOK, Code
  <1>9. CachesOK(caches)'
    BY <1>2, <1>5 DEF CachesOK, CacheAt, EntriesAt, Code
  <1>10. Len(calls') <= MaxCalls
    <2> HIDE DEF n
    <2> QED
      BY <1>3, <1>6, ConstantsOK
  <1> HIDE DEF n
  <1> QED
    BY <1>1, <1>2, <1>5, <1>6, <1>8, <1>9, <1>10 DEF IInv, Cells, Cell, Links

LEMMA SetAttributeInv ==
    ASSUME IInv, NEW a \in program.assigns, SetAttribute(a[1], a[2], a[3])
    PROVE  IInv'
  <1> DEFINE changed == [cell[a[1]][a[2]] EXCEPT !.value = a[3]]
             c == [cell EXCEPT ![a[1]][a[2]] = changed]
             st == InvalidateAttr(c, a[1], a[2])
  <1>1. /\ program \in Programs /\ cell \in Cells /\ CachesOK(caches)
    BY DEF IInv
  <1>2. a[1] \in Type /\ a[2] \in Name /\ a[3] \in Value
    BY <1>1, ConstantsOK
  <1>3. /\ program' = program /\ live' = live /\ calls' = calls
        /\ cell' = st.cell /\ caches' = st.caches /\ crashed' = st.crashed
    BY DEF SetAttribute
  <1>4. changed \in [value : Value \cup {Placeholder, Absent}, dependents : Links]
    <2>1. cell[a[1]][a[2]] \in Cell /\ cell[a[1]][a[2]].dependents \in Links
      BY <1>1, <1>2, CellOf
    <2> QED
      BY <1>2, <2>1 DEF Cell
  <1> HIDE DEF changed
  <1>5. c \in Cells
    BY <1>1, <1>2, <1>4, CellReplaced
  <1> HIDE DEF c
  <1>6. st \in States
    BY <1>1, <1>2, <1>5, InvalidateAttrOf
  <1> HIDE DEF st
  <1>7. cell' \in Cells /\ CachesOK(caches') /\ crashed' \in BOOLEAN
    BY <1>3, <1>6, StateOf
  <1> QED
    BY <1>3, <1>7, CachesStep

LEMMA DeleteAttributeInv ==
    ASSUME IInv, NEW d \in program.deletes, DeleteAttribute(d[1], d[2])
    PROVE  IInv'
  <1> DEFINE st == InvalidateAttr(cell, d[1], d[2])
             c == [st.cell EXCEPT ![d[1]][d[2]] = NoCell]
  <1>1. /\ program \in Programs /\ cell \in Cells /\ CachesOK(caches)
    BY DEF IInv
  <1>2. d[1] \in Type /\ d[2] \in Name
    BY <1>1, ConstantsOK
  <1>3. /\ program' = program /\ live' = live /\ calls' = calls
        /\ cell' = c /\ caches' = st.caches /\ crashed' = st.crashed
    BY DEF DeleteAttribute
  <1>4. NoCell \in [value : Value \cup {Placeholder, Absent}, dependents : Links]
    BY DEF NoCell, Links, Once
  <1>5. st \in States
    BY <1>1, <1>2, InvalidateAttrOf
  <1> HIDE DEF st
  <1>6. st.cell \in Cells
    BY <1>5, StateOf
  <1>7. c \in Cells
    BY <1>2, <1>4, <1>6, CellReplaced
  <1> HIDE DEF c
  <1>8. cell' \in Cells /\ CachesOK(caches') /\ crashed' \in BOOLEAN
    BY <1>3, <1>5, <1>7, StateOf
  <1> QED
    BY <1>3, <1>8, CachesStep

\* The links after one function was reclaimed.
LEMMA LinksCleared ==
    ASSUME NEW links \in Links, NEW f
    PROVE  [k \in DOMAIN links |-> IF links[k] = f THEN None ELSE links[k]] \in Links
  <1> DEFINE a == [k \in DOMAIN links |-> IF links[k] = f THEN None ELSE links[k]]
             n == Len(links)
  <1>1. links \in Seq(Fun \cup {None}) /\ Once(links)
    BY DEF Links
  <1>2. n \in Nat /\ DOMAIN links = 1..n /\ \A k \in 1..n : links[k] \in Fun \cup {None}
    BY <1>1
  <1>3. DOMAIN a = 1..n /\ a \in [1..n -> Fun \cup {None}]
    <2> HIDE DEF n
    <2> QED
      BY <1>2
  <1>4. \A k \in DOMAIN links : a[k] \in Fun => a[k] = links[k]
    BY ConstantsOK
  <1>5. DOMAIN a = DOMAIN links
    OBVIOUS
  <1> HIDE DEF a, n
  <1>6. a \in Seq(Fun \cup {None})
    BY <1>2, <1>3
  <1>7. Once(a)
    BY <1>1, <1>4, <1>5 DEF Once
  <1>8. a \in Links
    BY <1>6, <1>7 DEF Links
  <1> QED
    BY <1>8 DEF a

LEMMA CollectFunctionInv ==
    ASSUME IInv, NEW f \in Fun, CollectFunction(f)
    PROVE  IInv'
  <1> DEFINE links(t, n) == cell[t][n].dependents
             cleared(t, n) == [k \in DOMAIN links(t, n) |->
                                 IF links(t, n)[k] = f THEN None ELSE links(t, n)[k]]
             none == [i \in DOMAIN Code[f] |-> <<>>]
  <1>1. /\ program \in Programs /\ cell \in Cells /\ CachesOK(caches) /\ calls \in Seq(CallRecord)
        /\ live \subseteq Fun /\ crashed \in BOOLEAN /\ Len(calls) <= MaxCalls
        /\ \A k \in DOMAIN calls : CallOK(calls[k])
    BY DEF IInv
  <1>2. /\ program' = program /\ calls' = calls /\ crashed' = crashed /\ live' = live \ {f}
        /\ cell' = [t \in Type |-> [n \in Name |-> [cell[t][n] EXCEPT !.dependents = cleared(t, n)]]]
        /\ caches' = [caches EXCEPT ![f] = none]
    BY DEF CollectFunction
  <1>3. cell' \in Cells
    <2> DEFINE new(t, n) == [cell[t][n] EXCEPT !.dependents = cleared(t, n)]
               c == [t \in Type |-> [n \in Name |-> new(t, n)]]
    <2>1. ASSUME NEW t \in Type, NEW n \in Name
          PROVE  new(t, n) \in [value : Value \cup {Placeholder, Absent}, dependents : Links]
      <3>1. cell[t][n] \in Cell /\ links(t, n) \in Links
        BY <1>1, CellOf
      <3>2. cleared(t, n) \in Links
        <4> HIDE DEF links
        <4> QED
          BY <3>1, LinksCleared
      <3> HIDE DEF cleared
      <3> QED
        BY <3>1, <3>2 DEF Cell
    <2> HIDE DEF cleared
    <2>2. cell' = c
      BY <1>2
    <2> HIDE DEF new
    <2>3. /\ DOMAIN c = Type /\ c = [t \in Type |-> c[t]]
          /\ \A t \in Type : DOMAIN c[t] = Name /\ c[t] = [n \in Name |-> c[t][n]]
          /\ \A t \in Type, n \in Name : c[t][n] = new(t, n)
      OBVIOUS
    <2> HIDE DEF c
    <2>4. ASSUME NEW t \in Type, NEW n \in Name
          PROVE  c[t][n] \in [value : Value \cup {Placeholder, Absent}, dependents : Links]
      BY <2>1, <2>3
    <2>5. c \in Cells
      BY <2>3, <2>4, CellsFrom
    <2> QED
      BY <2>2, <2>5
  <1>4. CachesOK(caches')
    <2>1. none \in Seq(Seq(Entry)) /\ DOMAIN none = DOMAIN Code[f]
          /\ \A i \in DOMAIN Code[f] : none[i] = <<>>
      <3> DEFINE n == Len(Code[f])
      <3>1. n \in Nat /\ DOMAIN Code[f] = 1..n
        BY <1>1, ConstantsOK DEF Code
      <3> HIDE DEF n
      <3> QED
        BY <3>1
    <2> HIDE DEF none
    <2>2. \A i : CacheAt(f, i, <<>>)
      BY DEF CacheAt
    <2> DEFINE c == [caches EXCEPT ![f] = none]
    <2>3. caches \in [Fun -> Seq(Seq(Entry))]
      BY <1>1 DEF CachesOK
    <2>4. c \in [Fun -> Seq(Seq(Entry))] /\ c[f] = none /\ \A g \in Fun : g # f => c[g] = caches[g]
      BY <2>1, <2>3
    <2> HIDE DEF c
    <2>5. ASSUME NEW g \in Fun
          PROVE  DOMAIN c[g] = DOMAIN Code[g] /\ \A i \in DOMAIN Code[g] : CacheAt(g, i, c[g][i])
      <3>1. CASE g = f
        BY <2>1, <2>2, <2>4, <3>1
      <3>2. CASE g # f
        BY <1>1, <2>4, <3>2 DEF CachesOK
      <3> QED
        BY <3>1, <3>2
    <2>6. CachesOK(c)
      BY <2>4, <2>5 DEF CachesOK
    <2> QED
      BY <1>2, <2>6 DEF c
  <1> HIDE DEF cleared, none, links
  <1>5. (\A k \in DOMAIN calls : CallOK(calls[k]))'
    BY <1>1, <1>2 DEF CallOK, Code
  <1>6. CachesOK(caches)'
    BY <1>2, <1>4 DEF CachesOK, CacheAt, EntriesAt, Code
  <1>7. live' \subseteq Fun
    BY <1>1, <1>2
  <1> QED
    BY <1>1, <1>2, <1>3, <1>5, <1>6, <1>7 DEF IInv, Cells, Cell, Links

\* Every step of the program keeps the invariant.
LEMMA NextInv ==
    ASSUME IInv, [Next]_vars
    PROVE  IInv'
  <1>1. ASSUME NEW f \in Fun, NEW i \in DOMAIN Code[f], NEW key \in Code[f][i].keys,
               Load(f, i, key)
        PROVE  IInv'
    BY <1>1, LoadInv
  <1>2. ASSUME NEW raises \in BOOLEAN, Return(raises)
        PROVE  IInv'
    BY <1>2, ReturnInv
  <1>3. ASSUME NEW a \in program.assigns, SetAttribute(a[1], a[2], a[3])
        PROVE  IInv'
    BY <1>3, SetAttributeInv
  <1>4. ASSUME NEW d \in program.deletes, DeleteAttribute(d[1], d[2])
        PROVE  IInv'
    BY <1>4, DeleteAttributeInv
  <1>5. ASSUME NEW f \in program.drops, CollectFunction(f)
        PROVE  IInv'
    <2>1. f \in Fun
      BY ConstantsOK DEF IInv
    <2> QED
      BY <1>5, <2>1, CollectFunctionInv
  <1>6. CASE UNCHANGED vars
    <2>1. IInv' = IInv
      BY <1>6 DEF vars, IInv, CachesOK, CacheAt, EntriesAt, CallOK, Code, Cells, Cell, Links
    <2> QED
      BY <2>1
  <1>7. CASE Crashed
    BY <1>6, <1>7 DEF Crashed
  <1> QED
    BY <1>1, <1>2, <1>3, <1>4, <1>5, <1>6, <1>7 DEF Next

\* The invariant implies what the runs check.
LEMMA InvWellFormed ==
    IInv => WellFormed
  <1> SUFFICES ASSUME IInv PROVE WellFormed
    OBVIOUS
  <1>1. ASSUME NEW f \in Fun, NEW i \in DOMAIN Code[f]
        PROVE  /\ Len(caches[f][i]) \in {0, 1, kIcEntriesPerPolyCache}
               /\ Len(caches[f][i]) = 1 => caches[f][i][1] # Empty
               /\ \A e \in Entries(f, i) : e.key \in Code[f][i].keys /\ e.value \in Value \cup {None}
    <2> DEFINE entries == caches[f][i]
               E == EntriesAt(f, i)
    <2>1. CacheAt(f, i, entries)
      BY DEF IInv, CachesOK
    <2>2. entries \in Seq(E)
      BY <2>1 DEF CacheAt
    <2>3. ASSUME NEW e \in Entries(f, i)
          PROVE  e.key \in Code[f][i].keys /\ e.value \in Value \cup {None}
      <3>1. e \in Range(entries) /\ e # Empty
        BY DEF Entries
      <3>2. PICK j \in DOMAIN entries : e = entries[j]
        <4> HIDE DEF entries
        <4> QED
          BY <3>1 DEF Range
      <3>3. e \in E
        <4> HIDE DEF entries, E
        <4> QED
          BY <2>2, <3>2
      <3>4. e \in [key : Code[f][i].keys, kind : Kinds, value : Value \cup {None}]
        BY <3>1, <3>3 DEF EntriesAt
      <3> QED
        BY <3>4
    <2> QED
      BY <2>1, <2>3 DEF CacheAt
  <1>2. TypeOK
    BY <1>1 DEF TypeOK, IInv, Cells
  <1>3. LinkedOnce
    <2> SUFFICES ASSUME NEW t \in Type, NEW n \in Name, NEW f \in Fun
                 PROVE  Cardinality({k \in DOMAIN cell[t][n].dependents :
                                       cell[t][n].dependents[k] = f}) <= 1
      BY DEF LinkedOnce
    <2> DEFINE links == cell[t][n].dependents
               S == {k \in DOMAIN links : links[k] = f}
    <2>1. Once(links)
      BY CellOf DEF IInv, Links
    <2> HIDE DEF links
    <2>2. \A i, j \in S : i = j
      BY <2>1 DEF Once
    <2>3. CASE S = {}
      <3>1. Cardinality(S) = 0
        BY <2>3, FS_EmptySet
      <3> HIDE DEF S
      <3>2. Cardinality(S) <= 1
        BY <3>1
      <3> QED
        BY <3>2 DEF S, links
    <2>4. CASE S # {}
      <3> HIDE DEF S
      <3>1. PICK x \in S : TRUE
        BY <2>4
      <3>2. S = {x}
        BY <2>2, <3>1
      <3>3. Cardinality(S) = 1
        BY <3>2, FS_Singleton
      <3>4. Cardinality(S) <= 1
        BY <3>3
      <3> QED
        BY <3>4 DEF S, links
    <2> QED
      BY <2>3, <2>4
  <1> QED
    BY <1>2, <1>3 DEF WellFormed

\* Whatever the classes, the program and the number of entries: the caches and
\* the lists of links are well formed at every moment, and no function is linked
\* twice to a cell, so that the removal of a dependent, which stops at the first
\* link it finds, leaves none behind (icInsertDependentToValueCellDependencyLink,
\* icDeleteDependentInValueCell).
THEOREM LinksAndCachesWellFormed ==
    Spec => []WellFormed
  <1>1. Init => IInv
    BY InitInv
  <1>2. IInv /\ [Next]_vars => IInv'
    BY NextInv
  <1>3. IInv => WellFormed
    BY InvWellFormed
  <1> QED
    BY <1>1, <1>2, <1>3, PTL DEF Spec

-----------------------------------------------------------------------------
(***************************************************************************)
(* Caches of methods under single inheritance.                             *)
(***************************************************************************)

\* Classes that share a base share the rest of their resolution orders.
SingleInheritance ==
    \A t, u \in Type : \A i \in DOMAIN Mro[t], j \in DOMAIN Mro[u] :
        Mro[t][i] = Mro[u][j] =>
            \A k \in 0..Len(Mro[t]) :
                i + k \in DOMAIN Mro[t] => j + k \in DOMAIN Mro[u] /\ Mro[t][i + k] = Mro[u][j + k]

\* The opcodes that cache methods only, and that invalidation knows.
MethodOpcodes ==
    {"BINARY_OP", "COMPARE_OP", "INPLACE_OP", "BINARY_SUBSCR", "FOR_ITER", "LOAD_METHOD"}

MethodProgram(p) == \A f \in Fun : \A i \in DOMAIN p.code[f] : p.code[f][i].op \in MethodOpcodes

\* Function g is linked to the cell of n in u; the lookup of n from t reads the
\* k-th class; g is linked wherever that lookup reads.
Linked(c, g, u, n) == HasLink(c[u][n].dependents, g)

Reached(c, t, n, k) == \A j \in 1..(k - 1) : c[Mro[t][j]][n].value \notin Value

Tracked(c, g, t, n) ==
    \A k \in DOMAIN Mro[t] : Reached(c, t, n, k) => Linked(c, g, Mro[t][k], n)

TrackedEntry(c, g, i, e) ==
    \A r \in DOMAIN Code[g][i].names :
        Tracked(c, g, Reads(Code[g][i], e.key)[r][1], Reads(Code[g][i], e.key)[r][2])

Present(c) == \A u \in Type, n \in Name, g \in Fun : Linked(c, g, u, n) => c[u][n].value # Absent

InstanceKinds == {"offset", "transition"}

MethodsCached(c) ==
    \A f \in Fun : \A i \in DOMAIN Code[f] : \A j \in DOMAIN c[f][i] :
        c[f][i][j].kind \notin InstanceKinds

AllTracked(c, s) ==
    \A f \in Fun : \A i \in DOMAIN Code[f] : \A j \in DOMAIN s[f][i] :
        s[f][i][j] # Empty => TrackedEntry(c, f, i, s[f][i][j])

TInv ==
    /\ SingleInheritance
    /\ IInv
    /\ MethodProgram(program)
    /\ Present(cell)
    /\ MethodsCached(caches)
    /\ \A k \in DOMAIN calls : calls[k].target.kind \notin InstanceKinds
    /\ ~crashed => AllTracked(cell, caches)

\* An arithmetic operation looks the swapped selector up in the left operand as
\* well, and no link says so.  It does not matter if the operands are of one
\* class, or one of them never has the swapped selector.
PlainOpcode(p, op) ==
    op.op \in {"BINARY_OP", "INPLACE_OP"} => \A key \in op.keys :
        \/ key[1].type = key[2].type
        \/ \E k \in {1, 2} : \A a \in p.assigns :
              ~ (a[1] \in Range(Mro[key[k].type]) /\ a[2] = Last(op.names))

PlainProgram(p) == \A f \in Fun : \A i \in DOMAIN p.code[f] : PlainOpcode(p, p.code[f][i])

\* Class attributes are those that the program assigns.
Assigned(c) ==
    \A u \in Type, x \in Name :
        c[u][x].value \in Value => \E a \in program.assigns : a[1] = u /\ a[2] = x

\* What lookups found that are still running, and what caches hold, is what a
\* lookup would find.
CallsCurrent ==
    \A k \in DOMAIN calls :
        calls[k].target = Lookup(Code[calls[k].fun][calls[k].opcode], calls[k].key)

Coherent(op, e) ==
    /\ e.kind = Lookup(op, e.key).kind
    /\ e.value = Lookup(op, e.key).value

AllCoherent ==
    \A f \in Fun : \A i \in DOMAIN Code[f] : \A j \in DOMAIN caches[f][i] :
        caches[f][i][j] # Empty => Coherent(Code[f][i], caches[f][i][j])

CInv ==
    /\ TInv
    /\ ~UpdatesInCalls
    /\ PlainProgram(program)
    /\ Assigned(cell)
    /\ CallsCurrent
    /\ ~crashed => AllCoherent

\* The first number of a set, 0 if it is empty.
LEMMA FirstIn ==
    ASSUME NEW S \in SUBSET Nat
    PROVE  LET q == IF S # {} THEN Min(S) ELSE 0
           IN  \/ S = {} /\ q = 0
               \/ S # {} /\ q \in S /\ \A y \in S : q <= y
  BY MinOf

\* The iterator of f passes over every place of every opcode of f.
LEMMA IteratorCovers ==
    ASSUME program \in Programs, NEW f \in Fun, NEW i \in DOMAIN Code[f],
           NEW j \in 0..kIcEntriesPerPolyCache
    PROVE  \E q \in 1..IteratorSteps(f) : IteratorAt(q) = <<i, j>>
  <1> DEFINE n == kIcEntriesPerPolyCache + 1
             l == Len(Code[f])
             a == i - 1
             q == a * n + j + 1
  <1>1. l \in Nat /\ i \in 1..l
    BY ConstantsOK DEF Code
  <1>2. n \in Nat /\ n > 0 /\ j \in 0..(n - 1)
    BY ConstantsOK
  <1>3. a \in Nat /\ a + 1 <= l
    BY <1>1
  <1>4. IteratorSteps(f) = l * n
    BY DEF IteratorSteps
  <1>5. IteratorAt(q) = <<(q - 1) \div n + 1, (q - 1) % n>>
    BY DEF IteratorAt
  <1>6. i = a + 1
    BY <1>1
  <1> HIDE DEF n, l, a
  <1>7. a * n \in Nat /\ l * n \in Nat
    BY <1>1, <1>2, <1>3
  <1>8. (a + 1) * n = a * n + n
    BY <1>2, <1>3
  <1>9. (a + 1) * n <= l * n
    <2>1. PICK d \in Nat : l = (a + 1) + d
      <3>1. l - (a + 1) \in Nat /\ l = (a + 1) + (l - (a + 1))
        BY <1>1, <1>3
      <3> QED
        BY <3>1
    <2>2. l * n = (a + 1) * n + d * n /\ d * n \in Nat
      BY <1>1, <1>2, <1>3, <2>1
    <2> QED
      BY <1>7, <1>8, <2>2, <1>2
  <1>10. q \in 1..IteratorSteps(f)
    BY <1>2, <1>4, <1>7, <1>8, <1>9
  <1>11. q - 1 = a * n + j
    BY <1>2, <1>7
  <1>12. (a * n + j) \div n = a /\ (a * n + j) % n = j
    BY <1>2, <1>3, <1>7
  <1>13. IteratorAt(q) = <<i, j>>
    BY <1>5, <1>6, <1>11, <1>12
  <1> QED
    BY <1>10, <1>13

LEMMA MroOf ==
    ASSUME NEW t \in Type
    PROVE  /\ Len(Mro[t]) \in Nat /\ DOMAIN Mro[t] = 1..Len(Mro[t])
           /\ \A k \in DOMAIN Mro[t] : Mro[t][k] \in Type
  <1>1. Mro[t] \in Seq(Type)
    BY ConstantsOK
  <1> QED
    BY <1>1

\* The lookups behind a cache are lookups of names in types.
LEMMA ReadsTyped ==
    ASSUME program \in Programs, NEW f \in Fun, NEW i \in DOMAIN Code[f],
           NEW key \in Code[f][i].keys
    PROVE  LET op == Code[f][i]
               reads == Reads(op, key)
           IN  /\ Len(op.names) \in Nat /\ DOMAIN op.names = 1..Len(op.names)
               /\ Len(reads) = Len(op.names) /\ DOMAIN reads = DOMAIN op.names
               /\ \A k \in DOMAIN reads : reads[k][1] \in Type /\ reads[k][2] \in Name
               /\ MethodNames(op) = {reads[k][2] : k \in DOMAIN reads}
  <1> DEFINE op == Code[f][i]
             reads == Reads(op, key)
             m == Len(op.names)
  <1>1. op \in Opcode /\ key \in Seq(Layout)
    BY EntriesTyped
  <1>2. Len(key) = IF op.op \in Operators THEN 2 ELSE 1
    BY ConstantsOK DEF Code
  <1> HIDE DEF op
  <1>3. op.names \in Seq(Name)
    BY <1>1 DEF Opcode
  <1>4. m \in Nat /\ DOMAIN op.names = 1..m /\ \A k \in 1..m : op.names[k] \in Name
    BY <1>3
  <1>5. key[1].type \in Type /\ Last(key).type \in Type
    <2>1. key[1] \in Layout /\ key[Len(key)] \in Layout
      <3>1. (Len(key) = 1 \/ Len(key) = 2) /\ DOMAIN key = 1..Len(key)
        <4>1. Len(key) = 1 \/ Len(key) = 2
          BY <1>2
        <4> QED
          BY <1>1, <4>1
      <3>2. 1 \in DOMAIN key /\ Len(key) \in DOMAIN key
        BY <3>1
      <3> QED
        BY <1>1, <3>2
    <2> QED
      BY <2>1 DEF Last, Layout
  <1> HIDE DEF m
  <1>6. reads = [k \in 1..m |-> <<IF k = m THEN Last(key).type ELSE key[1].type, op.names[k]>>]
    BY <1>4 DEF Reads, m
  <1> HIDE DEF reads
  <1>7. DOMAIN reads = 1..m /\ Len(reads) = m
    BY <1>4, <1>6
  <1>8. \A k \in 1..m : reads[k][1] \in Type /\ reads[k][2] \in Name /\ reads[k][2] = op.names[k]
    BY <1>4, <1>5, <1>6
  <1>9. Range(op.names) = {reads[k][2] : k \in 1..m}
    BY <1>4, <1>8 DEF Range
  <1> QED
    BY <1>4, <1>7, <1>8, <1>9 DEF MethodNames, reads, op, m

-----------------------------------------------------------------------------
(* What an insertion and a removal do to the links.                         *)

Visited(t, n) ==
    LET d == DefiningIndex(t, n)
    IN  IF d = 0 THEN Range(Mro[t]) ELSE Range(SubSeq(Mro[t], 1, d))

\* Cells r are those of c with f linked to the cells of n in the given types.
LinksAdded(c, r, f, n, types) ==
    /\ \A u \in Type, x \in Name, g \in Fun : Linked(c, g, u, x) => Linked(r, g, u, x)
    /\ \A u \in types : Linked(r, f, u, n)
    /\ \A u \in Type, x \in Name, g \in Fun :
          Linked(r, g, u, x) => Linked(c, g, u, x) \/ r[u][x].value # Absent
    /\ \A u \in Type, x \in Name : \/ r[u][x].value = c[u][x].value
                                   \/ c[u][x].value = Absent /\ r[u][x].value = Placeholder

LEMMA InsertDependencyLinks ==
    ASSUME NEW c \in Cells, NEW t \in Type, NEW n \in Name, NEW f \in Fun
    PROVE  LinksAdded(c, InsertDependency(c, t, n, f), f, n, Visited(t, n) \cap Type)
  <1> DEFINE visited == Visited(t, n)
             new(u) == [value |-> IF c[u][n].value = Absent THEN Placeholder ELSE c[u][n].value,
                        dependents |-> InsertDependent(c[u][n].dependents, f)]
             r == InsertDependency(c, t, n, f)
  <1>1. r = [u \in Type |-> IF u \notin visited THEN c[u] ELSE [c[u] EXCEPT ![n] = new(u)]]
    BY DEF InsertDependency, Visited
  <1> HIDE DEF visited, r
  <1>2. ASSUME NEW u \in Type
        PROVE  Adds(c[u][n].dependents, f, InsertDependent(c[u][n].dependents, f))
    <2>1. c[u][n].dependents \in Links
      BY CellOf
    <2> QED
      BY <2>1, InsertDependentOf
  <1>3. ASSUME NEW u \in Type, NEW x \in Name
        PROVE  r[u][x] = IF u \in visited /\ x = n THEN new(u) ELSE c[u][x]
    <2>1. DOMAIN c[u] = Name
      BY CellOf
    <2> HIDE DEF new
    <2> QED
      BY <1>1, <2>1
  <1>4. ASSUME NEW u \in Type
        PROVE  /\ \A g \in Fun : HasLink(new(u).dependents, g) <=> (g = f \/ Linked(c, g, u, n))
               /\ new(u).value # Absent
               /\ new(u).value = c[u][n].value \/ (c[u][n].value = Absent /\ new(u).value = Placeholder)
    BY <1>2, ConstantsOK DEF Adds, Linked, Placeholder, Absent
  <1> HIDE DEF new
  <1>5. \A u \in Type, x \in Name, g \in Fun : Linked(c, g, u, x) => Linked(r, g, u, x)
    BY <1>3, <1>4 DEF Linked
  <1>6. \A u \in visited \cap Type : Linked(r, f, u, n)
    BY <1>3, <1>4 DEF Linked
  <1>7. \A u \in Type, x \in Name, g \in Fun :
          Linked(r, g, u, x) => Linked(c, g, u, x) \/ r[u][x].value # Absent
    BY <1>3, <1>4 DEF Linked
  <1>8. \A u \in Type, x \in Name : \/ r[u][x].value = c[u][x].value
                                    \/ c[u][x].value = Absent /\ r[u][x].value = Placeholder
    BY <1>3, <1>4
  <1> QED
    BY <1>5, <1>6, <1>7, <1>8 DEF LinksAdded, r, visited

\* What every step of a loop passes on holds of every step.
LEMMA LoopHolds ==
    ASSUME NEW m \in Nat, NEW G, 0 \in G, \A k \in 1..m : k - 1 \in G => k \in G
    PROVE  \A k \in 0..m : k \in G
  <1> DEFINE g == [k \in 0..m |-> k]
  <1>1. g[0] \in G /\ \A k \in 1..m : g[k - 1] \in G => g[k] \in G
    <2>1. \A k \in 1..m : k \in 0..m /\ k - 1 \in 0..m
      OBVIOUS
    <2> QED
      BY <2>1
  <1>2. \A k \in 0..m : g[k] = k
    OBVIOUS
  <1> HIDE DEF g
  <1>3. \A k \in 0..m : g[k] \in G
    BY <1>1, LoopKeeps
  <1> QED
    BY <1>2, <1>3

\* Cells r are those of c with f linked to all cells that the first m lookups read.
Inserted(c, r, f, reads, m) ==
    /\ \A u \in Type, x \in Name, g \in Fun : Linked(c, g, u, x) => Linked(r, g, u, x)
    /\ \A k \in 1..m : \A u \in Visited(reads[k][1], reads[k][2]) \cap Type :
          Linked(r, f, u, reads[k][2])
    /\ \A u \in Type, x \in Name, g \in Fun :
          Linked(r, g, u, x) => Linked(c, g, u, x) \/ r[u][x].value # Absent
    /\ \A u \in Type, x \in Name : \/ r[u][x].value = c[u][x].value
                                   \/ c[u][x].value = Absent /\ r[u][x].value = Placeholder

LEMMA InsertedOneMore ==
    ASSUME NEW c, NEW a, NEW b, NEW f \in Fun, NEW reads, NEW k \in Nat, k > 0,
           \A j \in 1..k : reads[j][2] \in Name, Inserted(c, a, f, reads, k - 1),
           LinksAdded(a, b, f, reads[k][2], Visited(reads[k][1], reads[k][2]) \cap Type)
    PROVE  Inserted(c, b, f, reads, k)
  <1>1. \A j \in 1..k : j = k \/ j \in 1..(k - 1)
    OBVIOUS
  <1>2. \A u \in Type, x \in Name, g \in Fun : Linked(c, g, u, x) => Linked(b, g, u, x)
    BY DEF Inserted, LinksAdded
  <1>3. ASSUME NEW j \in 1..k, NEW u \in Visited(reads[j][1], reads[j][2]) \cap Type
        PROVE  Linked(b, f, u, reads[j][2])
    <2>1. CASE j \in 1..(k - 1)
      <3>1. reads[j][2] \in Name /\ u \in Type
        BY <1>1
      <3>2. Linked(a, f, u, reads[j][2])
        BY <2>1 DEF Inserted
      <3> QED
        BY <3>1, <3>2 DEF LinksAdded
    <2>2. CASE j = k
      BY <2>2 DEF LinksAdded
    <2> QED
      BY <1>1, <2>1, <2>2
  <1>4. ASSUME NEW u \in Type, NEW x \in Name, NEW g \in Fun, Linked(b, g, u, x)
        PROVE  Linked(c, g, u, x) \/ b[u][x].value # Absent
    <2>1. Linked(a, g, u, x) \/ b[u][x].value # Absent
      BY <1>4 DEF LinksAdded
    <2>2. Linked(a, g, u, x) => Linked(c, g, u, x) \/ a[u][x].value # Absent
      BY DEF Inserted
    <2>3. a[u][x].value # Absent => b[u][x].value # Absent
      BY DEF LinksAdded
    <2> QED
      BY <2>1, <2>2, <2>3
  <1>5. \A u \in Type, x \in Name : \/ b[u][x].value = c[u][x].value
                                    \/ c[u][x].value = Absent /\ b[u][x].value = Placeholder
    BY DEF Inserted, LinksAdded, Placeholder, Absent
  <1> QED
    BY <1>2, <1>3, <1>4, <1>5 DEF Inserted

LEMMA InsertDependenciesLinks ==
    ASSUME program \in Programs, cell \in Cells, NEW f \in Fun, NEW i \in DOMAIN Code[f],
           NEW key \in Code[f][i].keys
    PROVE  Inserted(cell, InsertDependencies(f, Code[f][i], key), f, Reads(Code[f][i], key),
                    Len(Code[f][i].names))
  <1> DEFINE op == Code[f][i]
             reads == Reads(op, key)
             m == Len(op.names)
  <1>1. op \in Opcode
    BY EntriesTyped
  <1>2. m \in Nat /\ \A k \in 1..m : reads[k][1] \in Type /\ reads[k][2] \in Name
    BY ReadsTyped
  <1>3. PICK r : InsertRun(f, op, key, r) /\ InsertDependencies(f, op, key) = r[m]
    <2> HIDE DEF op
    <2> QED
      BY <1>1, InsertDependenciesRun
  <1> DEFINE G == {k \in 0..m : Inserted(cell, r[k], f, reads, k)}
  <1>4. 0 \in G
    <2>1. r[0] = cell
      BY <1>3 DEF InsertRun
    <2>2. Inserted(cell, cell, f, reads, 0)
      BY DEF Inserted
    <2> HIDE DEF m, reads
    <2> QED
      BY <1>2, <2>1, <2>2
  <1>5. ASSUME NEW k \in 1..m, k - 1 \in G PROVE k \in G
    <2>1. /\ r[k] = InsertDependency(r[k - 1], reads[k][1], reads[k][2], f)
          /\ r[k - 1] \in Cells
      <3>1. k - 1 \in 0..m
        BY <1>2
      <3> QED
        BY <1>3, <3>1 DEF InsertRun
    <2>2. /\ reads[k][1] \in Type /\ reads[k][2] \in Name /\ Inserted(cell, r[k - 1], f, reads, k - 1)
          /\ k \in Nat /\ k > 0 /\ \A j \in 1..k : reads[j][2] \in Name
      BY <1>2, <1>5
    <2> HIDE DEF reads, m, G
    <2>3. LinksAdded(r[k - 1], r[k], f, reads[k][2], Visited(reads[k][1], reads[k][2]) \cap Type)
      BY <2>1, <2>2, InsertDependencyLinks
    <2>4. Inserted(cell, r[k], f, reads, k)
      BY <1>2, <2>2, <2>3, InsertedOneMore
    <2> QED
      BY <1>2, <2>4 DEF G
  <1> HIDE DEF G, reads, m
  <1>6. m \in G
    BY <1>2, <1>4, <1>5, LoopHolds
  <1> QED
    BY <1>3, <1>6 DEF G, reads, m

SameValues(c, r) == \A u \in Type, x \in Name : r[u][x].value = c[u][x].value

\* Cells r are those of c without links to f in the cells of n in the given types.
Removed(c, r, f, n, types) ==
    /\ SameValues(c, r)
    /\ \A u \in Type, x \in Name, g \in Fun : Linked(r, g, u, x) => Linked(c, g, u, x)
    /\ \A u \in Type, x \in Name, g \in Fun :
          Linked(c, g, u, x) => \/ Linked(r, g, u, x)
                                \/ g = f /\ x = n /\ u \in types

Passed(t, u) == Range(SubSeq(Mro[t], 1, SelectInSeq(Mro[t], LAMBDA v : v = u)))

LEMMA DeleteDependentLinks ==
    ASSUME NEW c \in Cells, NEW t, NEW n \in Name, NEW u, NEW f
    PROVE  Removed(c, DeleteDependent(c, t, n, u, f), f, n, Passed(t, u))
  <1> DEFINE passed == Passed(t, u)
             new(v) == [c[v][n] EXCEPT !.dependents = RemoveFirst(c[v][n].dependents, f)]
             r == DeleteDependent(c, t, n, u, f)
  <1>1. r = [v \in Type |-> IF v \notin passed THEN c[v] ELSE [c[v] EXCEPT ![n] = new(v)]]
    BY DEF DeleteDependent, Passed
  <1> HIDE DEF passed, r
  <1>2. ASSUME NEW v \in Type
        PROVE  /\ new(v).value = c[v][n].value
               /\ new(v).dependents = RemoveFirst(c[v][n].dependents, f)
    <2>1. c[v][n] \in Cell
      BY CellOf
    <2> QED
      BY <2>1 DEF Cell
  <1>3. ASSUME NEW v \in Type, NEW x \in Name
        PROVE  r[v][x] = IF v \in passed /\ x = n THEN new(v) ELSE c[v][x]
    <2>1. DOMAIN c[v] = Name
      BY CellOf
    <2> HIDE DEF new
    <2> QED
      BY <1>1, <2>1
  <1> HIDE DEF new
  <1>4. ASSUME NEW v \in Type
        PROVE  \A g \in Fun : /\ HasLink(new(v).dependents, g) => Linked(c, g, v, n)
                              /\ g # f /\ Linked(c, g, v, n) => HasLink(new(v).dependents, g)
    <2>1. c[v][n].dependents \in Links
      BY CellOf
    <2> QED
      BY <1>2, <2>1, RemoveFirstOf DEF Linked
  <1> QED
    BY <1>2, <1>3, <1>4 DEF Removed, SameValues, Linked, r, passed

-----------------------------------------------------------------------------
(* The lookups that an update shadows.                                      *)

\* An update of n in u shadows the lookups from t that get to u through
\* placeholders only.
LEMMA AffectedAt ==
    ASSUME NEW c, NEW t \in Type, NEW n, NEW u
    PROVE  IsAffected(c, t, n, u) <=>
              /\ c[u][n].value # Absent
              /\ \E k \in DOMAIN Mro[t] : /\ Mro[t][k] = u
                                          /\ \A j \in 1..(k - 1) : c[Mro[t][j]][n].value = Placeholder
  <1> DEFINE I == {k \in 1..Len(Mro[t]) : Mro[t][k] = u}
             q == IF I # {} THEN Min(I) ELSE 0
  <1>1. SelectInSeq(Mro[t], LAMBDA v : v = u) = q
    BY DEF SelectInSeq
  <1>2. IsAffected(c, t, n, u) <=>
           /\ q # 0
           /\ c[u][n].value # Absent
           /\ \A k \in 1..(q - 1) : c[Mro[t][k]][n].value = Placeholder
    BY <1>1 DEF IsAffected
  <1>3. I \in SUBSET Nat /\ 0 \notin I
    OBVIOUS
  <1>4. DOMAIN Mro[t] = 1..Len(Mro[t]) /\ Len(Mro[t]) \in Nat
    BY MroOf
  <1>5. \/ I = {} /\ q = 0
        \/ I # {} /\ q \in I /\ \A y \in I : q <= y
    <2> HIDE DEF I
    <2> QED
      BY <1>3, FirstIn
  <1>6. q \in Nat
    BY <1>3, <1>5
  <1>7. \A k : k \in I <=> k \in 1..Len(Mro[t]) /\ Mro[t][k] = u
    OBVIOUS
  <1> HIDE DEF q, I
  <1>8. CASE I = {}
    BY <1>2, <1>4, <1>5, <1>7, <1>8
  <1>9. CASE I # {}
    <2>1. q \in DOMAIN Mro[t] /\ Mro[t][q] = u /\ q # 0 /\ \A y \in I : q <= y
      BY <1>3, <1>4, <1>5, <1>7, <1>9
    <2>2. ASSUME NEW k \in DOMAIN Mro[t], Mro[t][k] = u PROVE \A j \in 1..(q - 1) : j \in 1..(k - 1)
      <3>1. k \in I
        BY <1>4, <1>7, <2>2
      <3>2. q <= k /\ k \in Nat
        BY <1>4, <2>1, <3>1
      <3> QED
        BY <1>6, <3>2
    <2> QED
      BY <1>2, <2>1, <2>2
  <1> QED
    BY <1>8, <1>9

LEMMA AffectedSame ==
    ASSUME NEW c, NEW r, SameValues(c, r), NEW t \in Type, NEW n \in Name, NEW u \in Type
    PROVE  IsAffected(r, t, n, u) <=> IsAffected(c, t, n, u)
  <1>1. \A k \in DOMAIN Mro[t] : \A j \in 1..(k - 1) : Mro[t][j] \in Type
    <2> SUFFICES ASSUME NEW k \in DOMAIN Mro[t], NEW j \in 1..(k - 1) PROVE Mro[t][j] \in Type
      OBVIOUS
    <2>1. j \in DOMAIN Mro[t]
      BY MroOf
    <2> QED
      BY <2>1, MroOf
  <1>2. r[u][n].value = c[u][n].value
        /\ \A k \in DOMAIN Mro[t] : \A j \in 1..(k - 1) :
              r[Mro[t][j]][n].value = c[Mro[t][j]][n].value
    BY <1>1 DEF SameValues
  <1> QED
    BY <1>2, AffectedAt

\* A tracked lookup reads no class without a cell: an update of any class that it
\* reads shadows it.
LEMMA TrackedPlaceholders ==
    ASSUME NEW c \in Cells, Present(c), NEW g \in Fun, NEW t \in Type, NEW n \in Name,
           Tracked(c, g, t, n), NEW k \in DOMAIN Mro[t], Reached(c, t, n, k)
    PROVE  /\ c[Mro[t][k]][n].value # Absent
           /\ \A j \in 1..(k - 1) : c[Mro[t][j]][n].value = Placeholder
           /\ IsAffected(c, t, n, Mro[t][k])
  <1>1. Len(Mro[t]) \in Nat /\ k \in 1..Len(Mro[t]) /\ DOMAIN Mro[t] = 1..Len(Mro[t])
    BY MroOf
  <1>2. ASSUME NEW j \in DOMAIN Mro[t], Reached(c, t, n, j)
        PROVE  c[Mro[t][j]][n].value # Absent
    <2>1. Mro[t][j] \in Type
      BY MroOf
    <2>2. Linked(c, g, Mro[t][j], n)
      BY <1>2 DEF Tracked
    <2> QED
      BY <2>1, <2>2 DEF Present
  <1>3. ASSUME NEW j \in 1..(k - 1) PROVE c[Mro[t][j]][n].value = Placeholder
    <2>1. j \in DOMAIN Mro[t] /\ \A l \in 1..(j - 1) : l \in 1..(k - 1)
      BY <1>1
    <2>2. Reached(c, t, n, j) /\ c[Mro[t][j]][n].value \notin Value
      BY <2>1 DEF Reached
    <2>3. Mro[t][j] \in Type
      BY <2>1, MroOf
    <2>4. c[Mro[t][j]][n].value \in Value \cup {Placeholder, Absent}
      BY <2>3, CellOf
    <2> QED
      BY <1>2, <2>1, <2>2, <2>4
  <1> QED
    BY <1>2, <1>3, AffectedAt

\* With single inheritance, the links of an evicted cache that go are not needed
\* by a lookup that the update leaves alone.
LEMMA UnlinkKeeps ==
    ASSUME SingleInheritance, NEW c \in Cells, Present(c), NEW g \in Fun,
           NEW t \in Type, NEW n \in Name, NEW u \in Type, IsAffected(c, t, n, u),
           NEW t2 \in Type, NEW x \in Name, Tracked(c, g, t2, x),
           ~ (x = n /\ IsAffected(c, t2, n, u))
    PROVE  Tracked(DeleteDependent(c, t, n, u, g), g, t2, x)
  <1> DEFINE r == DeleteDependent(c, t, n, u, g)
             q == SelectInSeq(Mro[t], LAMBDA v : v = u)
  <1>1. Removed(c, r, g, n, Passed(t, u))
    BY DeleteDependentLinks
  <1> HIDE DEF r
  <1>2. SUFFICES ASSUME NEW k \in DOMAIN Mro[t2], Reached(r, t2, x, k)
                 PROVE  Linked(r, g, Mro[t2][k], x)
    BY DEF Tracked, r
  <1>3. Len(Mro[t2]) \in Nat /\ k \in 1..Len(Mro[t2]) /\ DOMAIN Mro[t2] = 1..Len(Mro[t2])
        /\ \A j \in DOMAIN Mro[t2] : Mro[t2][j] \in Type
    BY MroOf
  <1>4. Reached(c, t2, x, k)
    <2>1. \A j \in 1..(k - 1) : Mro[t2][j] \in Type
      BY <1>3
    <2> QED
      BY <1>1, <1>2, <2>1 DEF Reached, Removed, SameValues
  <1>5. Linked(c, g, Mro[t2][k], x) /\ Mro[t2][k] \in Type
    BY <1>3, <1>4 DEF Tracked
  <1>6. SUFFICES ASSUME x = n, Mro[t2][k] \in Passed(t, u) PROVE FALSE
    BY <1>1, <1>5 DEF Removed
  <1>7. /\ q \in DOMAIN Mro[t] /\ Mro[t][q] = u
        /\ \A j \in 1..(q - 1) : c[Mro[t][j]][n].value = Placeholder
        /\ c[u][n].value # Absent
    <2> DEFINE I == {j \in 1..Len(Mro[t]) : Mro[t][j] = u}
    <2>1. q = IF I # {} THEN Min(I) ELSE 0
      BY DEF SelectInSeq
    <2>2. q # 0 /\ c[u][n].value # Absent
          /\ \A j \in 1..(q - 1) : c[Mro[t][j]][n].value = Placeholder
      BY DEF IsAffected
    <2>3. I \in SUBSET Nat
      OBVIOUS
    <2> HIDE DEF q
    <2>4. q \in I
      <3> HIDE DEF I
      <3> QED
        BY <2>1, <2>2, <2>3, FirstIn
    <2>5. q \in DOMAIN Mro[t] /\ Mro[t][q] = u
      BY <2>4, MroOf
    <2> QED
      BY <2>2, <2>5
  <1>8. Len(Mro[t]) \in Nat /\ q \in 1..Len(Mro[t]) /\ DOMAIN Mro[t] = 1..Len(Mro[t])
    BY <1>7, MroOf
  <1>9. PICK j \in 1..q : Mro[t2][k] = Mro[t][j]
    <2>1. Mro[t2][k] \in Range(SubSeq(Mro[t], 1, q))
      BY <1>6 DEF Passed
    <2> HIDE DEF q
    <2> DEFINE s == SubSeq(Mro[t], 1, q)
    <2>2. Mro[t] \in Seq(Type)
      BY ConstantsOK
    <2>3. Len(s) = q /\ DOMAIN s = 1..q /\ \A j \in 1..q : s[j] = Mro[t][j]
      BY <1>8, <2>2
    <2> HIDE DEF s
    <2>4. PICK j \in DOMAIN s : Mro[t2][k] = s[j]
      BY <2>1 DEF Range, s
    <2> QED
      BY <2>3, <2>4
  <1> HIDE DEF q
  <1>10. \A d \in 0..(q - j) : k + d \in DOMAIN Mro[t2] /\ Mro[t2][k + d] = Mro[t][j + d]
    <2> SUFFICES ASSUME NEW d \in 0..(q - j)
                 PROVE  k + d \in DOMAIN Mro[t2] /\ Mro[t2][k + d] = Mro[t][j + d]
      OBVIOUS
    <2>1. j \in DOMAIN Mro[t] /\ j + d \in DOMAIN Mro[t] /\ d \in 0..Len(Mro[t])
      BY <1>8
    <2> QED
      BY <1>9, <2>1 DEF SingleInheritance
  <1>11. \A l \in 1..(k - 1) : c[Mro[t2][l]][n].value = Placeholder
    BY <1>4, <1>6, TrackedPlaceholders
  <1> DEFINE z == k + (q - j)
  <1>12. z \in DOMAIN Mro[t2] /\ Mro[t2][z] = u
    <2>1. q - j \in 0..(q - j) /\ j + (q - j) = q
      BY <1>8
    <2> QED
      BY <1>7, <1>10, <2>1
  <1>13. ASSUME NEW l \in 1..(z - 1) PROVE c[Mro[t2][l]][n].value = Placeholder
    <2>1. CASE l < k
      <3>1. l \in 1..(k - 1)
        BY <1>3, <2>1
      <3> QED
        BY <1>11, <3>1
    <2>2. CASE ~ (l < k)
      <3>1. l - k \in 0..(q - j) /\ j + (l - k) \in 1..(q - 1) /\ k + (l - k) = l
        BY <1>3, <1>8, <2>2
      <3>2. Mro[t2][l] = Mro[t][j + (l - k)]
        BY <1>10, <3>1
      <3> QED
        BY <1>7, <3>1, <3>2
    <2> QED
      BY <2>1, <2>2
  <1> HIDE DEF z
  <1>14. IsAffected(c, t2, n, u)
    BY <1>7, <1>12, <1>13, AffectedAt
  <1> QED
    BY <1>6, <1>14

-----------------------------------------------------------------------------
(* What an eviction keeps.                                                  *)

\* Whether an update of n in t shadows a lookup behind entry e of f.
Shadows(c, f, i, e, t, n) ==
    \E k \in DOMAIN Code[f][i].names :
        /\ Reads(Code[f][i], e.key)[k][2] = n
        /\ IsAffected(c, Reads(Code[f][i], e.key)[k][1], n, t)

\* From s to r, function f lost entries and links, and nothing else changed.
Narrows(s, r, f) ==
    /\ SameValues(s.cell, r.cell)
    /\ \A u \in Type, x \in Name, g \in Fun : Linked(r.cell, g, u, x) => Linked(s.cell, g, u, x)
    /\ \A u \in Type, x \in Name, g \in Fun :
          g # f /\ Linked(s.cell, g, u, x) => Linked(r.cell, g, u, x)
    /\ \A g \in Fun : g # f => r.caches[g] = s.caches[g]
    /\ \A i \in DOMAIN Code[f] : \A j \in DOMAIN r.caches[f][i] :
          r.caches[f][i][j] # Empty => /\ j \in DOMAIN s.caches[f][i]
                                       /\ r.caches[f][i][j] = s.caches[f][i][j]
    /\ s.crashed => r.crashed

\* The entries of f that remain in r are tracked if they were.
KeepsTracked(s, r, f) ==
    \A i \in DOMAIN Code[f] : \A j \in DOMAIN r.caches[f][i] :
        /\ r.caches[f][i][j] # Empty
        /\ TrackedEntry(s.cell, f, i, r.caches[f][i][j])
        => TrackedEntry(r.cell, f, i, r.caches[f][i][j])

\* All entries of f are tracked but those that the update of n in t shadows.
OthersTracked(s, f, t, n) ==
    \A i \in DOMAIN Code[f] : \A j \in DOMAIN s.caches[f][i] :
        /\ s.caches[f][i][j] # Empty
        /\ ~Shadows(s.cell, f, i, s.caches[f][i][j], t, n)
        => TrackedEntry(s.cell, f, i, s.caches[f][i][j])

\* The only entry of f that is in s and not in r is the j-th one of opcode i.
OnlyEvicts(s, r, f, i, j) ==
    \A k \in DOMAIN Code[f] : \A l \in DOMAIN s.caches[f][k] :
        k # i \/ l # j => l \in DOMAIN r.caches[f][k] /\ r.caches[f][k][l] = s.caches[f][k][l]

LEMMA NarrowsTwice ==
    ASSUME NEW a, NEW b, NEW c, NEW f, Narrows(a, b, f), Narrows(b, c, f)
    PROVE  Narrows(a, c, f)
  BY DEF Narrows, SameValues

LEMMA FilledEntry ==
    ASSUME program \in Programs, NEW c, CachesOK(c), NEW f \in Fun, NEW i \in DOMAIN Code[f],
           NEW j \in DOMAIN c[f][i], c[f][i][j] # Empty
    PROVE  /\ j \in 1..kIcEntriesPerPolyCache
           /\ c[f][i][j] \in [key : Code[f][i].keys, kind : Kinds, value : Value \cup {None}]
  <1> DEFINE entries == c[f][i]
             E == EntriesAt(f, i)
  <1>1. CacheAt(f, i, entries)
    BY DEF CachesOK
  <1>2. entries \in Seq(E) /\ Len(entries) \in {0, 1, kIcEntriesPerPolyCache}
    BY <1>1 DEF CacheAt
  <1>3. kIcEntriesPerPolyCache \in Nat /\ kIcEntriesPerPolyCache > 1
    BY ConstantsOK
  <1> HIDE DEF E
  <1>4. entries[j] \in E /\ j \in 1..Len(entries)
    BY <1>2
  <1>5. j \in 1..kIcEntriesPerPolyCache
    <2> DEFINE l == Len(entries)
    <2>1. l = 0 \/ l = 1 \/ l = kIcEntriesPerPolyCache
      BY <1>2
    <2>2. j \in 1..l
      BY <1>4
    <2> HIDE DEF l, entries
    <2> QED
      BY <1>3, <2>1, <2>2
  <1> QED
    BY <1>4, <1>5 DEF E, EntriesAt

\* Invalidation sees every entry of a program that caches methods only.
LEMMA FilledReturned ==
    ASSUME program \in Programs, MethodProgram(program), NEW st, NEW f \in Fun,
           NEW i \in DOMAIN Code[f], NEW j \in DOMAIN st.caches[f][i], st.caches[f][i][j] # Empty
    PROVE  <<i, j>> \in IcIterator(st, f)
  <1> DEFINE entries(k) == st.caches[f][k]
             sites == {k \in DOMAIN Code[f] : IsByteCodeWithCache(Code[f][k], entries(k))}
             filled(k) == {<<k, l>> : l \in {l \in DOMAIN entries(k) : entries(k)[l] # Empty}}
             last == Max(sites)
             found == UNION {filled(k) : k \in sites}
             extra == IF sites # {} /\ IsPolymorphic(entries(last)) /\ filled(last) = {}
                      THEN {<<last, 0>>} ELSE {}
  <1>1. IcIterator(st, f) = found \cup extra
    BY DEF IcIterator
  <1>2. Code[f][i].op \in MethodOpcodes
    BY DEF MethodProgram, Code
  <1>3. i \in sites
    BY <1>2 DEF IsByteCodeWithCache, MethodOpcodes
  <1>4. <<i, j>> \in filled(i)
    OBVIOUS
  <1> HIDE DEF sites, filled, extra
  <1>5. <<i, j>> \in found
    BY <1>3, <1>4
  <1> HIDE DEF found
  <1> QED
    BY <1>1, <1>5

LEMMA PassedUpTo ==
    ASSUME NEW t \in Type, NEW h \in DOMAIN Mro[t], NEW u \in Passed(t, Mro[t][h])
    PROVE  \E j \in 1..h : u = Mro[t][j]
  <1> DEFINE I == {j \in 1..Len(Mro[t]) : Mro[t][j] = Mro[t][h]}
             q == IF I # {} THEN Min(I) ELSE 0
             s == SubSeq(Mro[t], 1, q)
  <1>1. SelectInSeq(Mro[t], LAMBDA v : v = Mro[t][h]) = q
    BY DEF SelectInSeq
  <1>2. u \in Range(s)
    BY <1>1 DEF Passed
  <1>3. Mro[t] \in Seq(Type) /\ DOMAIN Mro[t] = 1..Len(Mro[t]) /\ Len(Mro[t]) \in Nat
    BY ConstantsOK
  <1>4. I \in SUBSET Nat /\ h \in I /\ \A j \in I : j \in 1..Len(Mro[t])
    BY <1>3
  <1> HIDE DEF I
  <1>5. q \in I /\ q <= h
    BY <1>4, FirstIn
  <1> HIDE DEF q
  <1>6. q \in 1..h /\ q \in 1..Len(Mro[t]) /\ h \in Nat
    <2>1. h \in 1..Len(Mro[t]) /\ q \in 1..Len(Mro[t])
      BY <1>3, <1>4, <1>5
    <2> QED
      BY <1>3, <1>5, <2>1
  <1>7. DOMAIN s = 1..q /\ \A j \in 1..q : s[j] = Mro[t][j]
    BY <1>3, <1>6
  <1> HIDE DEF s
  <1>8. PICK j \in 1..q : u = s[j]
    BY <1>2, <1>7 DEF Range
  <1>9. j \in 1..h /\ u = Mro[t][j]
    BY <1>6, <1>7, <1>8
  <1> QED
    BY <1>9

LEMMA EvictDrops ==
    ASSUME program \in Programs, NEW st \in States, NEW f \in Fun, NEW i \in DOMAIN Code[f], NEW j
    PROVE  LET r == Evict(st, f, i, j)
           IN  /\ r.cell = st.cell /\ r.crashed = st.crashed
               /\ Narrows(st, r, f)
               /\ j \in DOMAIN st.caches[f][i] =>
                     /\ ~ (j \in DOMAIN r.caches[f][i] /\ r.caches[f][i][j] # Empty)
                     /\ OnlyEvicts(st, r, f, i, j)
  <1> DEFINE r == Evict(st, f, i, j)
             entries == st.caches[f][i]
             new == IF IsPolymorphic(entries) THEN [entries EXCEPT ![j] = Empty] ELSE <<>>
  <1>1. /\ st \in [cell : Cells, caches : [Fun -> Seq(Seq(Entry))], crashed : BOOLEAN]
        /\ DOMAIN st.caches[f] = DOMAIN Code[f]
    BY DEF States, CachesOK
  <1>2. r = [st EXCEPT !.caches = [st.caches EXCEPT ![f] = [st.caches[f] EXCEPT ![i] = new]]]
    BY DEF Evict
  <1> HIDE DEF new, r
  <1>3. r.cell = st.cell /\ r.crashed = st.crashed
    BY <1>1, <1>2
  <1>4. r.caches = [st.caches EXCEPT ![f] = [st.caches[f] EXCEPT ![i] = new]]
    BY <1>1, <1>2
  <1>5. /\ \A g \in Fun : g # f => r.caches[g] = st.caches[g]
        /\ r.caches[f] = [st.caches[f] EXCEPT ![i] = new]
    BY <1>1, <1>4
  <1>6. r.caches[f][i] = new /\ \A k \in DOMAIN Code[f] : k # i => r.caches[f][k] = st.caches[f][k]
    BY <1>1, <1>5
  <1>7. ASSUME NEW k \in DOMAIN new, new[k] # Empty
        PROVE  k # j /\ k \in DOMAIN entries /\ new[k] = entries[k]
    BY <1>7 DEF new
  <1>8. ASSUME NEW k \in DOMAIN Code[f], NEW l \in DOMAIN r.caches[f][k], r.caches[f][k][l] # Empty
        PROVE  l \in DOMAIN st.caches[f][k] /\ r.caches[f][k][l] = st.caches[f][k][l]
    BY <1>6, <1>7, <1>8
  <1>9. Narrows(st, r, f)
    BY <1>3, <1>5, <1>8 DEF Narrows, SameValues
  <1>10. ASSUME j \in DOMAIN entries, NEW l \in DOMAIN entries, l # j
         PROVE  l \in DOMAIN new /\ new[l] = entries[l]
    <2>1. CacheAt(f, i, entries)
      BY DEF States, CachesOK
    <2>2. entries \in Seq(EntriesAt(f, i)) /\ Len(entries) \in Nat
      BY <2>1 DEF CacheAt
    <2>3. IsPolymorphic(entries)
      <3>1. l \in 1..Len(entries) /\ j \in 1..Len(entries)
        BY <1>10, <2>2
      <3> QED
        BY <1>10, <2>2, <3>1 DEF IsPolymorphic
    <2> QED
      BY <1>10, <2>3 DEF new
  <1>11. j \in DOMAIN entries => OnlyEvicts(st, r, f, i, j)
    <2> HIDE DEF entries
    <2> QED
      BY <1>6, <1>10 DEF OnlyEvicts, entries
  <1> QED
    BY <1>3, <1>6, <1>7, <1>9, <1>11 DEF r

\* Tracked lookups stay tracked when links go that they do not need.
LEMMA TrackedUnless ==
    ASSUME NEW c, NEW r, NEW f \in Fun, NEW n, NEW types, Removed(c, r, f, n, types),
           NEW t \in Type, NEW x \in Name, Tracked(c, f, t, x),
           x = n => \A k \in DOMAIN Mro[t] : Reached(c, t, x, k) => Mro[t][k] \notin types
    PROVE  Tracked(r, f, t, x)
  <1> SUFFICES ASSUME NEW k \in DOMAIN Mro[t], Reached(r, t, x, k)
               PROVE  Linked(r, f, Mro[t][k], x)
    BY DEF Tracked
  <1>1. k \in 1..Len(Mro[t]) /\ DOMAIN Mro[t] = 1..Len(Mro[t]) /\ Len(Mro[t]) \in Nat
        /\ \A j \in DOMAIN Mro[t] : Mro[t][j] \in Type
    BY MroOf
  <1>2. Reached(c, t, x, k)
    <2>1. \A j \in 1..(k - 1) : Mro[t][j] \in Type
      BY <1>1
    <2> QED
      BY <2>1 DEF Reached, Removed, SameValues
  <1>3. Linked(c, f, Mro[t][k], x) /\ Mro[t][k] \in Type
    BY <1>1, <1>2 DEF Tracked
  <1> QED
    BY <1>2, <1>3 DEF Removed

LEMMA DefiningTypeStep ==
    ASSUME program \in Programs, MethodProgram(program), NEW s \in States, Present(s.cell),
           NEW f \in Fun, NEW t \in Type, NEW n \in Name
    PROVE  LET r == DeleteDependentToDefiningType(s, f, t, n)
           IN  /\ r.caches = s.caches /\ Narrows(s, r, f)
               /\ ~r.crashed => KeepsTracked(s, r, f)
  <1> DEFINE r == DeleteDependentToDefiningType(s, f, t, n)
             mro == Mro[t]
             I == {k \in 1..Len(mro) : s.cell[mro[k]][n].value = Absent \/ IsAttrCached(s, mro[k], n, f)}
             stop == IF I # {} THEN Min(I) ELSE 0
             highest == IF stop = 0 THEN Len(mro) ELSE stop - 1
             c == DeleteDependent(s.cell, t, n, mro[highest], f)
  <1>1. \/ r = s
        \/ r = [s EXCEPT !.crashed = TRUE]
        \/ highest # 0 /\ r = [s EXCEPT !.cell = c]
    BY DEF DeleteDependentToDefiningType, SelectInSeq
  <1>2. /\ s \in [cell : Cells, caches : [Fun -> Seq(Seq(Entry))], crashed : BOOLEAN]
        /\ CachesOK(s.caches)
    BY DEF States
  <1> HIDE DEF r
  <1>3. CASE r = s
    BY <1>3 DEF Narrows, SameValues, KeepsTracked, r
  <1>4. CASE r = [s EXCEPT !.crashed = TRUE]
    <2>1. r.cell = s.cell /\ r.caches = s.caches /\ r.crashed = TRUE
      BY <1>2, <1>4
    <2> QED
      BY <2>1 DEF Narrows, SameValues, r
  <1>5. CASE highest # 0 /\ r = [s EXCEPT !.cell = c]
    <2>1. Len(mro) \in Nat /\ DOMAIN mro = 1..Len(mro)
      BY MroOf
    <2>2. I \in SUBSET Nat /\ \A k \in I : k \in 1..Len(mro)
      OBVIOUS
    <2>3. \/ I = {} /\ stop = 0
          \/ I # {} /\ stop \in I /\ \A y \in I : stop <= y
      <3> HIDE DEF I
      <3> QED
        BY <2>2, FirstIn
    <2>4. ASSUME NEW k \in 1..Len(mro), k \notin I
          PROVE  ~IsAttrCached(s, mro[k], n, f)
      BY <2>4
    <2> HIDE DEF I, stop
    <2>5. highest \in DOMAIN mro /\ \A k \in 1..highest : k \in 1..Len(mro) /\ k \notin I
      BY <1>5, <2>1, <2>2, <2>3
    <2> HIDE DEF highest
    <2>6. Removed(s.cell, c, f, n, Passed(t, mro[highest]))
      BY <1>2, DeleteDependentLinks
    <2> HIDE DEF c
    <2>7. r.cell = c /\ r.caches = s.caches /\ r.crashed = s.crashed
      BY <1>2, <1>5
    <2>8. Narrows(s, r, f)
      BY <2>6, <2>7 DEF Narrows, Removed
    <2>9. ASSUME NEW i \in DOMAIN Code[f], NEW j \in DOMAIN s.caches[f][i], s.caches[f][i][j] # Empty,
                 TrackedEntry(s.cell, f, i, s.caches[f][i][j])
          PROVE  TrackedEntry(r.cell, f, i, s.caches[f][i][j])
      <3> DEFINE op == Code[f][i]
                 reads == Reads(op, s.caches[f][i][j].key)
      <3>1. s.caches[f][i][j].key \in Code[f][i].keys /\ j \in Nat /\ j # 0
        BY <1>2, <2>9, FilledEntry, ConstantsOK
      <3>2. /\ DOMAIN reads = DOMAIN op.names
            /\ \A k \in DOMAIN reads : reads[k][1] \in Type /\ reads[k][2] \in Name
        BY <3>1, ReadsTyped
      <3>3. <<i, j>> \in IcIterator(s, f)
        BY <2>9, FilledReturned
      <3>4. SUFFICES ASSUME NEW k \in DOMAIN reads
                     PROVE  Tracked(c, f, reads[k][1], reads[k][2])
        BY <2>7, <3>2 DEF TrackedEntry
      <3>5. Tracked(s.cell, f, reads[k][1], reads[k][2])
        BY <2>9, <3>2, <3>4 DEF TrackedEntry
      <3>6. reads[k] \in Range(reads)
        BY <3>4 DEF Range
      <3>7. ASSUME NEW u, reads[k][2] = n, IsAffected(s.cell, reads[k][1], n, u)
            PROVE  IsAttrCached(s, u, n, f)
        <4>1. \E read \in Range(reads) : read[2] = n /\ IsAffected(s.cell, read[1], n, u)
          BY <3>6, <3>7
        <4>2. <<i, j>>[1] = i /\ <<i, j>>[2] = j
          OBVIOUS
        <4> QED
          BY <3>1, <3>3, <4>1, <4>2 DEF IsAttrCached
      <3>8. reads[k][1] \in Type /\ reads[k][2] \in Name
        BY <3>2, <3>4
      <3> DEFINE T == reads[k][1]
                 x == reads[k][2]
      <3>9. T \in Type /\ x \in Name /\ Tracked(s.cell, f, T, x)
            /\ \A u : x = n /\ IsAffected(s.cell, T, n, u) => IsAttrCached(s, u, n, f)
        BY <3>5, <3>7, <3>8
      <3> HIDE DEF T, x, reads, op
      <3>10. ASSUME x = n, NEW l \in DOMAIN Mro[T], Reached(s.cell, T, x, l)
             PROVE  Mro[T][l] \notin Passed(t, mro[highest])
        <4>1. s.cell \in Cells
          BY <1>2
        <4>2. IsAffected(s.cell, T, n, Mro[T][l])
          BY <3>9, <3>10, <4>1, TrackedPlaceholders
        <4>3. IsAttrCached(s, Mro[T][l], n, f)
          BY <3>9, <3>10, <4>2
        <4>4. \A k2 \in 1..highest : Mro[T][l] # mro[k2]
          BY <2>4, <2>5, <4>3
        <4> HIDE DEF mro
        <4> QED
          BY <2>5, <4>4, PassedUpTo DEF mro
      <3>11. Tracked(c, f, T, x)
        BY <2>6, <3>9, <3>10, TrackedUnless
      <3> QED
        BY <3>11 DEF T, x
    <2>10. KeepsTracked(s, r, f)
      BY <2>7, <2>9 DEF KeepsTracked
    <2> QED
      BY <2>7, <2>8, <2>10 DEF r
  <1> QED
    BY <1>1, <1>3, <1>4, <1>5

\* The values of the cells alone decide what an update shadows.
LEMMA ShadowsSame ==
    ASSUME program \in Programs, NEW c, NEW r, SameValues(c, r), NEW f \in Fun,
           NEW i \in DOMAIN Code[f], NEW e, e.key \in Code[f][i].keys,
           NEW t \in Type, NEW n \in Name
    PROVE  Shadows(r, f, i, e, t, n) <=> Shadows(c, f, i, e, t, n)
  <1> DEFINE op == Code[f][i]
             reads == Reads(op, e.key)
  <1>1. \A k \in DOMAIN op.names : reads[k][1] \in Type
    BY ReadsTyped
  <1>2. \A k \in DOMAIN op.names : IsAffected(r, reads[k][1], n, t) <=> IsAffected(c, reads[k][1], n, t)
    <2> HIDE DEF reads, op
    <2> QED
      BY <1>1, AffectedSame
  <1> QED
    BY <1>2 DEF Shadows

LEMMA PresentKept ==
    ASSUME NEW s, NEW r, NEW f, Narrows(s, r, f), Present(s.cell)
    PROVE  Present(r.cell)
  BY DEF Narrows, Present, SameValues

\* Entries that stay tracked through a step that unlinks f.
LEMMA OthersKept ==
    ASSUME program \in Programs, NEW s \in States, NEW r, NEW f \in Fun, NEW t \in Type, NEW n \in Name,
           Narrows(s, r, f), KeepsTracked(s, r, f), OthersTracked(s, f, t, n)
    PROVE  OthersTracked(r, f, t, n)
  <1> SUFFICES ASSUME NEW i \in DOMAIN Code[f], NEW j \in DOMAIN r.caches[f][i],
                      r.caches[f][i][j] # Empty,
                      ~Shadows(r.cell, f, i, r.caches[f][i][j], t, n)
               PROVE  TrackedEntry(r.cell, f, i, r.caches[f][i][j])
    BY DEF OthersTracked
  <1> DEFINE e == r.caches[f][i][j]
  <1>1. j \in DOMAIN s.caches[f][i] /\ s.caches[f][i][j] = e /\ SameValues(s.cell, r.cell)
    BY DEF Narrows
  <1>2. CachesOK(s.caches)
    BY DEF States
  <1>3. s.caches[f][i][j].key \in Code[f][i].keys
    BY <1>1, <1>2, FilledEntry
  <1>4. Shadows(r.cell, f, i, e, t, n) <=> Shadows(s.cell, f, i, e, t, n)
    <2>1. e.key \in Code[f][i].keys
      BY <1>1, <1>3
    <2> HIDE DEF e
    <2> QED
      BY <1>1, <2>1, ShadowsSame
  <1>5. TrackedEntry(s.cell, f, i, e)
    BY <1>1, <1>4 DEF OthersTracked
  <1> QED
    BY <1>5 DEF KeepsTracked

\* Is the j-th entry of opcode i gone, or not shadowed?
Settled(r, f, i, j, t, n) ==
    j \in DOMAIN r.caches[f][i] /\ r.caches[f][i][j] # Empty
        => ~Shadows(r.cell, f, i, r.caches[f][i][j], t, n)

\* The eviction of a shadowed entry with its first links keeps the other entries
\* that are not shadowed tracked.
LEMMA UnlinkStep ==
    ASSUME SingleInheritance, program \in Programs, NEW st \in States, Present(st.cell),
           NEW f \in Fun, NEW i \in DOMAIN Code[f], NEW j, NEW t \in Type, NEW n \in Name,
           OthersTracked(st, f, t, n), NEW t2 \in Type, IsAffected(st.cell, t2, n, t)
    PROVE  LET s == Evict(st, f, i, j)
               r == [s EXCEPT !.cell = DeleteDependent(@, t2, n, t, f)]
           IN  r.caches = s.caches /\ Narrows(st, r, f) /\ OthersTracked(r, f, t, n)
  <1> DEFINE s == Evict(st, f, i, j)
             c == DeleteDependent(st.cell, t2, n, t, f)
             r == [s EXCEPT !.cell = DeleteDependent(@, t2, n, t, f)]
  <1>1. s \in States
    BY EvictOf
  <1>2. s.cell = st.cell /\ s.crashed = st.crashed /\ Narrows(st, s, f)
    BY EvictDrops
  <1>3. s \in [cell : Cells, caches : [Fun -> Seq(Seq(Entry))], crashed : BOOLEAN]
        /\ CachesOK(s.caches) /\ st.cell \in Cells /\ CachesOK(st.caches)
    BY <1>1 DEF States
  <1> HIDE DEF s
  <1>4. r.cell = c /\ r.caches = s.caches /\ r.crashed = s.crashed
    BY <1>2, <1>3
  <1> HIDE DEF r
  <1>5. Removed(st.cell, c, f, n, Passed(t2, t))
    BY <1>3, DeleteDependentLinks
  <1> HIDE DEF c
  <1>6. Narrows(s, r, f)
    BY <1>2, <1>4, <1>5 DEF Narrows, Removed
  <1>7. Narrows(st, r, f)
    BY <1>2, <1>6, NarrowsTwice
  <1>8. ASSUME NEW k \in DOMAIN Code[f], NEW l \in DOMAIN r.caches[f][k], r.caches[f][k][l] # Empty,
               ~Shadows(r.cell, f, k, r.caches[f][k][l], t, n)
        PROVE  TrackedEntry(r.cell, f, k, r.caches[f][k][l])
    <2> DEFINE e == r.caches[f][k][l]
               reads == Reads(Code[f][k], e.key)
    <2>1. l \in DOMAIN st.caches[f][k] /\ st.caches[f][k][l] = e /\ SameValues(st.cell, r.cell)
      BY <1>7, <1>8 DEF Narrows
    <2>2. e \in [key : Code[f][k].keys, kind : Kinds, value : Value \cup {None}]
      BY <1>3, <1>8, <2>1, FilledEntry
    <2> HIDE DEF e
    <2>3. e.key \in Code[f][k].keys
      BY <2>2
    <2>4. ~Shadows(st.cell, f, k, e, t, n)
      BY <1>8, <2>1, <2>3, ShadowsSame DEF e
    <2>5. TrackedEntry(st.cell, f, k, e)
      BY <1>8, <2>1, <2>4 DEF OthersTracked, e
    <2>6. DOMAIN reads = DOMAIN Code[f][k].names
          /\ \A a \in DOMAIN reads : reads[a][1] \in Type /\ reads[a][2] \in Name
      BY <2>3, ReadsTyped
    <2>7. SUFFICES ASSUME NEW a \in DOMAIN reads PROVE Tracked(c, f, reads[a][1], reads[a][2])
      BY <1>4, <2>6 DEF TrackedEntry, e
    <2> DEFINE T == reads[a][1]
               x == reads[a][2]
    <2>8. T \in Type /\ x \in Name
      BY <2>6, <2>7
    <2>9. Tracked(st.cell, f, T, x)
      BY <2>5, <2>6, <2>7 DEF TrackedEntry
    <2>10. ~ (x = n /\ IsAffected(st.cell, T, n, t))
      BY <2>4, <2>6, <2>7 DEF Shadows
    <2> HIDE DEF T, x, reads
    <2>11. Tracked(c, f, T, x)
      BY <1>3, <2>8, <2>9, <2>10, UnlinkKeeps DEF c
    <2> QED
      BY <2>11 DEF T, x
  <1>9. OthersTracked(r, f, t, n)
    BY <1>8 DEF OthersTracked
  <1> QED
    BY <1>4, <1>7, <1>9 DEF r, s

\* What the eviction of one entry has done when the process did not end.
StepDone(s, r, f, i, j, t, n) ==
    /\ OthersTracked(r, f, t, n)
    /\ Settled(r, f, i, j, t, n)
    /\ OnlyEvicts(s, r, f, i, j)

LEMMA EvictStep ==
    ASSUME SingleInheritance, program \in Programs, MethodProgram(program),
           NEW st \in States, Present(st.cell), NEW f \in Fun, NEW i \in DOMAIN Code[f],
           NEW j \in DOMAIN st.caches[f][i], st.caches[f][i][j] # Empty,
           st.caches[f][i][j].kind \notin InstanceKinds,
           NEW t \in Type, NEW n \in Name, OthersTracked(st, f, t, n), NEW dataDescriptor
    PROVE  LET r == EvictIfAffected(st, f, <<i, j>>, t, n, dataDescriptor)
           IN  /\ Narrows(st, r, f)
               /\ ~r.crashed => StepDone(st, r, f, i, j, t, n)
  <1> DEFINE e == st.caches[f][i][j]
             op == Code[f][i]
             reads == Reads(op, e.key)
             m == Len(op.names)
             p == <<i, j>>
             a == Shadowed(st, f, p, t, n)
             Hits(k) == reads[k][2] = n /\ IsAffected(st.cell, reads[k][1], n, t)
             I == {k \in 1..Len(reads) : Hits(k)}
             z == EvictIfAffected(st, f, p, t, n, dataDescriptor)
  <1>1. /\ st \in [cell : Cells, caches : [Fun -> Seq(Seq(Entry))], crashed : BOOLEAN]
        /\ CachesOK(st.caches)
    BY DEF States
  <1>2. e.key \in Code[f][i].keys /\ j \in Nat
    BY <1>1, FilledEntry
  <1>3. /\ m \in Nat /\ DOMAIN op.names = 1..m /\ Len(reads) = m /\ DOMAIN reads = 1..m
        /\ \A k \in 1..m : reads[k][1] \in Type /\ reads[k][2] \in Name
        /\ MethodNames(op) = {reads[k][2] : k \in 1..m}
    BY <1>2, ReadsTyped
  <1>4. p[1] = i /\ p[2] = j /\ ReadsOf(st, f, p) = reads
    BY DEF ReadsOf
  <1>5. a = IF I # {} THEN Min(I) ELSE 0
    BY <1>4 DEF Shadowed, SelectInSeq
  <1>6. Shadows(st.cell, f, i, e, t, n) <=> \E k \in 1..m : Hits(k)
    BY <1>3 DEF Shadows
  <1>7. I = {k \in 1..m : Hits(k)}
    BY <1>3
  <1>8. p[1] \in DOMAIN Code[f]
    BY <1>4
  <1>9. \/ z = st /\ (st.crashed \/ n \notin MethodNames(op))
        \/ z = [st EXCEPT !.crashed = TRUE]
        \/ z = st /\ p[2] # 0 /\ Spared(st, f, p, t, n, dataDescriptor)
        \/ /\ ~st.crashed /\ p[2] # 0 /\ a # 0
           /\ \E r : EvictRun(st, f, p, t, n, r) /\ z = r[m]
    <2> HIDE DEF z, p, a
    <2>1. LET y == EvictIfAffected(st, f, p, t, n, dataDescriptor)
              op1 == Code[f][p[1]]
          IN  \/ y = st /\ (st.crashed \/ n \notin MethodNames(op1))
              \/ y = [st EXCEPT !.crashed = TRUE]
              \/ y = st /\ p[2] # 0 /\ Spared(st, f, p, t, n, dataDescriptor)
              \/ /\ ~st.crashed /\ p[2] # 0 /\ Shadowed(st, f, p, t, n) # 0
                 /\ \E r : EvictRun(st, f, p, t, n, r) /\ y = r[Len(op1.names)]
      BY <1>8, EvictIfAffectedRun
    <2> QED
      BY <1>4, <2>1 DEF z, a
  <1>10. Spared(st, f, p, t, n, dataDescriptor) => a = 0
    BY <1>4 DEF Spared, InstanceKinds
  <1>11. \/ I = {} /\ a = 0
         \/ I # {} /\ a \in I
    <2>1. I \in SUBSET Nat
      <3> HIDE DEF I, Hits, m
      <3> QED
        BY <1>3, <1>7
    <2> HIDE DEF I, a
    <2> QED
      BY <1>5, <2>1, FirstIn
  <1>12. ASSUME z = st, ~st.crashed => ~Shadows(st.cell, f, i, e, t, n)
         PROVE  Narrows(st, z, f) /\ (~z.crashed => StepDone(st, z, f, i, j, t, n))
    <2> HIDE DEF z
    <2>1. Narrows(st, st, f) /\ OnlyEvicts(st, st, f, i, j)
      BY DEF Narrows, SameValues, OnlyEvicts
    <2> QED
      BY <1>12, <2>1 DEF StepDone, Settled
  <1>13. CASE z = st /\ (st.crashed \/ n \notin MethodNames(op))
    <2>1. n \notin MethodNames(op) => ~ \E k \in 1..m : Hits(k)
      BY <1>3
    <2> HIDE DEF Hits, z
    <2>2. ~st.crashed => ~Shadows(st.cell, f, i, e, t, n)
      BY <1>6, <1>13, <2>1
    <2> QED
      BY <1>12, <1>13, <2>2 DEF z
  <1>14. CASE z = st /\ p[2] # 0 /\ Spared(st, f, p, t, n, dataDescriptor)
    <2>1. ~ \E k \in 1..m : Hits(k)
      <3> HIDE DEF a
      <3>1. I = {} \/ a \in 1..m
        BY <1>7, <1>11
      <3>2. I = {}
        <4>1. a = 0
          BY <1>10, <1>14
        <4>2. 0 \notin 1..m
          <5> HIDE DEF m
          <5> QED
            BY <1>3
        <4> HIDE DEF I, m
        <4> QED
          BY <3>1, <4>1, <4>2
      <3> HIDE DEF Hits
      <3> QED
        BY <1>7, <3>2
    <2> HIDE DEF Hits, z
    <2>2. ~Shadows(st.cell, f, i, e, t, n)
      BY <1>6, <2>1
    <2> QED
      BY <1>12, <1>14, <2>2 DEF z
  <1>15. CASE z = [st EXCEPT !.crashed = TRUE]
    <2> HIDE DEF z
    <2>1. z.cell = st.cell /\ z.caches = st.caches /\ z.crashed = TRUE
      BY <1>1, <1>15
    <2> QED
      BY <2>1 DEF Narrows, SameValues, z
  <1>16. CASE ~st.crashed /\ p[2] # 0 /\ a # 0 /\ \E r : EvictRun(st, f, p, t, n, r) /\ z = r[m]
    <2>1. PICK r : EvictRun(st, f, p, t, n, r) /\ z = r[m]
      BY <1>16
    <2>2. a \in 1..m /\ Hits(a)
      <3> HIDE DEF a, Hits
      <3> QED
        BY <1>7, <1>11, <1>16
    <2> DEFINE s == Evict(st, f, i, j)
               y == [s EXCEPT !.cell = DeleteDependent(@, reads[a][1], n, t, f)]
    <2>3. r[0] = y
      BY <1>4, <2>1 DEF EvictRun
    <2>4. \A k \in 1..m : r[k] = IF k = a THEN r[k - 1]
                                ELSE DeleteDependentToDefiningType(r[k - 1], f, reads[k][1], reads[k][2])
      <3> HIDE DEF a, reads
      <3> QED
        BY <1>4, <2>1 DEF EvictRun, a
    <2>5. \A k \in 0..m : r[k] \in States
      BY <1>4, <2>1 DEF EvictRun
    <2>6. y.caches = s.caches /\ Narrows(st, y, f) /\ OthersTracked(y, f, t, n)
      <3>1. reads[a][1] \in Type /\ IsAffected(st.cell, reads[a][1], n, t)
        BY <1>3, <2>2
      <3> HIDE DEF reads, a
      <3> QED
        BY <3>1, UnlinkStep
    <2>7. /\ ~ (j \in DOMAIN s.caches[f][i] /\ s.caches[f][i][j] # Empty)
          /\ OnlyEvicts(st, s, f, i, j)
      BY EvictDrops
    <2> HIDE DEF s, y, a, reads, Hits, I, e, z
    <2> DEFINE G == {k \in 0..m : /\ Narrows(st, r[k], f)
                                  /\ r[k].caches = s.caches
                                  /\ ~r[k].crashed => OthersTracked(r[k], f, t, n)}
    <2>8. 0 \in G
      BY <1>3, <2>3, <2>6
    <2>9. ASSUME NEW k \in 1..m, k - 1 \in G PROVE k \in G
      <3> DEFINE b == r[k - 1]
      <3>1. k \in 0..m /\ b \in States /\ Narrows(st, b, f) /\ b.caches = s.caches
            /\ (~b.crashed => OthersTracked(b, f, t, n))
        BY <1>3, <2>5, <2>9
      <3>2. CASE k = a
        BY <2>4, <3>1, <3>2
      <3>3. CASE k # a
        <4> DEFINE d == DeleteDependentToDefiningType(b, f, reads[k][1], reads[k][2])
        <4>1. r[k] = d /\ reads[k][1] \in Type /\ reads[k][2] \in Name
          BY <1>3, <2>4, <3>3
        <4>2. Present(b.cell)
          BY <3>1, PresentKept
        <4> HIDE DEF b
        <4>3. /\ d.caches = b.caches /\ Narrows(b, d, f)
              /\ ~d.crashed => KeepsTracked(b, d, f)
          BY <3>1, <4>1, <4>2, DefiningTypeStep
        <4> HIDE DEF d
        <4>4. Narrows(st, d, f)
          BY <3>1, <4>3, NarrowsTwice
        <4>5. ~d.crashed => OthersTracked(d, f, t, n)
          <5> SUFFICES ASSUME ~d.crashed PROVE OthersTracked(d, f, t, n)
            OBVIOUS
          <5>1. ~b.crashed
            BY <4>3 DEF Narrows
          <5> QED
            BY <3>1, <4>3, <5>1, OthersKept
        <4> QED
          BY <3>1, <4>1, <4>3, <4>4, <4>5
      <3> QED
        BY <3>2, <3>3
    <2> HIDE DEF G, m, p
    <2>10. m \in G
      <3>1. m \in Nat
        BY <1>3
      <3>2. \A k \in 0..m : k \in G
        BY <2>8, <2>9, <3>1, LoopHolds
      <3> QED
        BY <3>1, <3>2
    <2>11. Narrows(st, z, f) /\ z.caches = s.caches /\ (~z.crashed => OthersTracked(z, f, t, n))
      BY <2>1, <2>10 DEF G
    <2>12. ~z.crashed => StepDone(st, z, f, i, j, t, n)
      BY <2>7, <2>11 DEF StepDone, Settled, OnlyEvicts
    <2> QED
      BY <2>11, <2>12 DEF z, p
  <1> QED
    BY <1>9, <1>13, <1>14, <1>15, <1>16

LEMMA SettledKept ==
    ASSUME program \in Programs, NEW b \in States, NEW z, NEW f \in Fun, NEW i \in DOMAIN Code[f],
           NEW j, NEW t \in Type, NEW n \in Name, Narrows(b, z, f), Settled(b, f, i, j, t, n)
    PROVE  Settled(z, f, i, j, t, n)
  <1> SUFFICES ASSUME j \in DOMAIN z.caches[f][i], z.caches[f][i][j] # Empty
               PROVE  ~Shadows(z.cell, f, i, z.caches[f][i][j], t, n)
    BY DEF Settled
  <1> DEFINE e == z.caches[f][i][j]
  <1>1. j \in DOMAIN b.caches[f][i] /\ b.caches[f][i][j] = e /\ SameValues(b.cell, z.cell)
    BY DEF Narrows
  <1>2. CachesOK(b.caches)
    BY DEF States
  <1>3. e.key \in Code[f][i].keys
    BY <1>1, <1>2, FilledEntry
  <1>4. ~Shadows(b.cell, f, i, e, t, n)
    BY <1>1 DEF Settled
  <1> HIDE DEF e
  <1>5. ~Shadows(z.cell, f, i, e, t, n)
    BY <1>1, <1>3, <1>4, ShadowsSame
  <1> QED
    BY <1>5 DEF e

LEMMA IteratorDistinct ==
    ASSUME NEW q \in Nat, NEW k \in Nat, q > 0, k > 0, IteratorAt(q) = IteratorAt(k)
    PROVE  q = k
  <1> DEFINE n == kIcEntriesPerPolyCache + 1
  <1>1. n \in Nat /\ n > 0
    BY ConstantsOK
  <1>2. /\ (q - 1) \div n + 1 = (k - 1) \div n + 1
        /\ (q - 1) % n = (k - 1) % n
    BY DEF IteratorAt
  <1> HIDE DEF n
  <1>3. ASSUME NEW x \in Nat PROVE x \div n \in Nat /\ x = n * (x \div n) + (x % n)
    BY <1>1
  <1>4. q - 1 \in Nat /\ k - 1 \in Nat
    OBVIOUS
  <1>5. (q - 1) \div n = (k - 1) \div n
    BY <1>2, <1>3, <1>4
  <1>6. q - 1 = k - 1
    BY <1>2, <1>3, <1>4, <1>5
  <1> QED
    BY <1>6

\* After the walk over the caches of f, all its entries are tracked and the
\* update shadows none.
Cleared(r, f, t, n) ==
    \A i \in DOMAIN Code[f] : \A j \in DOMAIN r.caches[f][i] :
        r.caches[f][i][j] # Empty => /\ ~Shadows(r.cell, f, i, r.caches[f][i][j], t, n)
                                     /\ TrackedEntry(r.cell, f, i, r.caches[f][i][j])

\* The walk that started in st has come to the q-th place, and is in b.
WalkAt(st, b, f, t, n, q) ==
    /\ OthersTracked(b, f, t, n)
    /\ \A k \in 1..IteratorSteps(f) :
          IteratorAt(k) \in IcIterator(st, f) /\ IteratorAt(k)[2] # 0 =>
              LET i == IteratorAt(k)[1]
                  j == IteratorAt(k)[2]
              IN  IF k <= q THEN Settled(b, f, i, j, t, n)
                  ELSE j \in DOMAIN b.caches[f][i] /\ b.caches[f][i][j] = st.caches[f][i][j]

LEMMA WalkStep ==
    ASSUME SingleInheritance, program \in Programs, MethodProgram(program), NEW st \in States,
           Present(st.cell), MethodsCached(st.caches), NEW f \in Fun, NEW t \in Type, NEW n \in Name,
           NEW q \in 1..IteratorSteps(f), IteratorAt(q) \in IcIterator(st, f), NEW dataDescriptor,
           NEW b \in States, Narrows(st, b, f), ~b.crashed => WalkAt(st, b, f, t, n, q - 1)
    PROVE  LET z == EvictIfAffected(b, f, IteratorAt(q), t, n, dataDescriptor)
           IN  Narrows(st, z, f) /\ (~z.crashed => WalkAt(st, z, f, t, n, q))
  <1> DEFINE p == IteratorAt(q)
             i == p[1]
             j == p[2]
             z == EvictIfAffected(b, f, p, t, n, dataDescriptor)
  <1>1. /\ i \in DOMAIN Code[f]
        /\ \/ j = 0
           \/ j \in DOMAIN st.caches[f][i] /\ st.caches[f][i][j] # Empty
    BY IteratorOf
  <1>2. p = <<i, j>>
    BY DEF IteratorAt
  <1>3. IteratorSteps(f) \in Nat /\ q \in Nat /\ q > 0
    BY StepsOf
  <1>4. b \in [cell : Cells, caches : [Fun -> Seq(Seq(Entry))], crashed : BOOLEAN]
    BY DEF States
  <1>5. \/ z = b /\ (b.crashed \/ n \notin MethodNames(Code[f][i]))
        \/ z = [b EXCEPT !.crashed = TRUE]
        \/ z = b /\ j # 0
        \/ ~b.crashed /\ j # 0
    <2> HIDE DEF p
    <2> QED
      BY <1>1, EvictIfAffectedRun
  <1> HIDE DEF z
  <1>6. CASE b.crashed \/ j = 0
    <2>1. z = b \/ z = [b EXCEPT !.crashed = TRUE]
      BY <1>5, <1>6
    <2>2. CASE z = [b EXCEPT !.crashed = TRUE]
      <3>1. z.cell = b.cell /\ z.caches = b.caches /\ z.crashed = TRUE
        BY <1>4, <2>2
      <3> QED
        BY <3>1 DEF Narrows, z
    <2>3. CASE z = b
      <3> SUFFICES ASSUME ~b.crashed PROVE WalkAt(st, b, f, t, n, q)
        BY <2>3 DEF z
      <3>1. j = 0 /\ WalkAt(st, b, f, t, n, q - 1)
        BY <1>6
      <3>2. \A k \in 1..IteratorSteps(f) : k # q => (k <= q <=> k <= q - 1)
        BY <1>3
      <3> QED
        BY <3>1, <3>2 DEF WalkAt
    <2> QED
      BY <2>1, <2>2, <2>3
  <1>7. CASE ~b.crashed /\ j # 0
    <2>1. /\ j \in DOMAIN b.caches[f][i] /\ b.caches[f][i][j] = st.caches[f][i][j]
          /\ OthersTracked(b, f, t, n)
      <3>1. WalkAt(st, b, f, t, n, q - 1) /\ ~ (q <= q - 1)
        BY <1>3, <1>7
      <3> QED
        BY <1>7, <3>1 DEF WalkAt
    <2>2. b.caches[f][i][j] # Empty /\ b.caches[f][i][j].kind \notin InstanceKinds
      BY <1>1, <1>7, <2>1 DEF MethodsCached
    <2>3. Present(b.cell)
      BY PresentKept
    <2> HIDE DEF p, i, j
    <2>4. Narrows(b, z, f) /\ (~z.crashed => StepDone(b, z, f, i, j, t, n))
      <3>1. LET r == EvictIfAffected(b, f, <<i, j>>, t, n, dataDescriptor)
            IN  Narrows(b, r, f) /\ (~r.crashed => StepDone(b, r, f, i, j, t, n))
        BY <1>1, <2>1, <2>2, <2>3, EvictStep
      <3> QED
        BY <1>2, <3>1 DEF z
    <2>5. Narrows(st, z, f)
      BY <2>4, NarrowsTwice
    <2>6. ASSUME ~z.crashed PROVE WalkAt(st, z, f, t, n, q)
      <3>1. StepDone(b, z, f, i, j, t, n)
        BY <2>4, <2>6
      <3>2. OthersTracked(z, f, t, n)
        BY <3>1 DEF StepDone
      <3>3. ASSUME NEW k \in 1..IteratorSteps(f), IteratorAt(k) \in IcIterator(st, f),
                   IteratorAt(k)[2] # 0
            PROVE  LET i2 == IteratorAt(k)[1]
                       j2 == IteratorAt(k)[2]
                   IN  IF k <= q THEN Settled(z, f, i2, j2, t, n)
                       ELSE j2 \in DOMAIN z.caches[f][i2] /\ z.caches[f][i2][j2] = st.caches[f][i2][j2]
        <4> DEFINE i2 == IteratorAt(k)[1]
                   j2 == IteratorAt(k)[2]
        <4>1. i2 \in DOMAIN Code[f]
          BY <3>3, IteratorOf
        <4>2. IF k <= q - 1 THEN Settled(b, f, i2, j2, t, n)
              ELSE j2 \in DOMAIN b.caches[f][i2] /\ b.caches[f][i2][j2] = st.caches[f][i2][j2]
          BY <1>7, <3>3 DEF WalkAt
        <4>3. k \in Nat /\ k > 0
          BY <1>3
        <4>4. CASE k < q
          <5>1. k <= q - 1 /\ k <= q
            BY <1>3, <4>3, <4>4
          <5>2. Settled(b, f, i2, j2, t, n)
            BY <4>2, <5>1
          <5> HIDE DEF i2, j2
          <5>3. Settled(z, f, i2, j2, t, n)
            BY <2>4, <4>1, <5>2, SettledKept
          <5> QED
            BY <5>1, <5>3 DEF i2, j2
        <4>5. CASE k = q
          BY <1>3, <3>1, <4>5 DEF StepDone, i, j, p
        <4>6. CASE k > q
          <5>1. ~ (k <= q - 1) /\ ~ (k <= q)
            BY <1>3, <4>3, <4>6
          <5>2. j2 \in DOMAIN b.caches[f][i2] /\ b.caches[f][i2][j2] = st.caches[f][i2][j2]
            BY <4>2, <5>1
          <5>3. IteratorAt(k) = <<i2, j2>>
            BY DEF IteratorAt
          <5>4. i2 # i \/ j2 # j
            <6>1. k # q
              BY <1>3, <4>3, <4>6
            <6>2. IteratorAt(k) # p
              BY <1>3, <4>3, <6>1, IteratorDistinct DEF p
            <6> HIDE DEF i2, j2
            <6> QED
              BY <1>2, <5>3, <6>2
          <5> HIDE DEF i2, j2
          <5>5. j2 \in DOMAIN z.caches[f][i2] /\ z.caches[f][i2][j2] = b.caches[f][i2][j2]
            BY <3>1, <4>1, <5>2, <5>4 DEF StepDone, OnlyEvicts
          <5>6. j2 \in DOMAIN z.caches[f][i2] /\ z.caches[f][i2][j2] = st.caches[f][i2][j2]
            BY <5>2, <5>5
          <5> QED
            BY <5>1, <5>6 DEF i2, j2
        <4> QED
          BY <1>3, <4>3, <4>4, <4>5, <4>6
      <3> QED
        BY <3>2, <3>3 DEF WalkAt
    <2> QED
      BY <2>5, <2>6 DEF z, p
  <1> QED
    BY <1>6, <1>7

LEMMA WalkClears ==
    ASSUME SingleInheritance, program \in Programs, MethodProgram(program), NEW st \in States,
           ~st.crashed, Present(st.cell), MethodsCached(st.caches), NEW f \in Fun,
           NEW t \in Type, NEW n \in Name, OthersTracked(st, f, t, n), NEW dataDescriptor
    PROVE  LET z == EvictCache(st, f, t, n, dataDescriptor)
           IN  Narrows(st, z, f) /\ (~z.crashed => Cleared(z, f, t, n))
  <1> DEFINE m == IteratorSteps(f)
             z == EvictCache(st, f, t, n, dataDescriptor)
  <1>1. m \in Nat
    BY StepsOf
  <1>2. PICK r : WalkRun(st, f, t, n, dataDescriptor, r) /\ z = r[m]
    BY EvictCacheRun
  <1> DEFINE G == {q \in 0..m : /\ Narrows(st, r[q], f)
                                /\ ~r[q].crashed => WalkAt(st, r[q], f, t, n, q)}
  <1> HIDE DEF z
  <1>3. 0 \in G
    <2>1. r[0] = st
      BY <1>2 DEF WalkRun
    <2>2. Narrows(st, st, f)
      BY DEF Narrows, SameValues
    <2>3. WalkAt(st, st, f, t, n, 0)
      <3>1. ASSUME NEW k \in 1..m, IteratorAt(k) \in IcIterator(st, f), IteratorAt(k)[2] # 0
            PROVE  ~ (k <= 0) /\ IteratorAt(k)[2] \in DOMAIN st.caches[f][IteratorAt(k)[1]]
        BY <1>1, <3>1, IteratorOf
      <3> QED
        BY <3>1 DEF WalkAt
    <2> HIDE DEF m
    <2> QED
      BY <1>1, <2>1, <2>2, <2>3
  <1>4. ASSUME NEW q \in 1..m, q - 1 \in G PROVE q \in G
    <2> DEFINE b == r[q - 1]
    <2>1. /\ q \in 0..m /\ q \in Nat /\ b \in States /\ Narrows(st, b, f)
          /\ (~b.crashed => WalkAt(st, b, f, t, n, q - 1))
      <3>1. q - 1 \in 0..m /\ q \in 0..m /\ q \in Nat
        BY <1>1
      <3> QED
        BY <1>2, <1>4, <3>1 DEF WalkRun
    <2>2. r[q] = IF IteratorAt(q) \notin IcIterator(st, f) THEN b
                 ELSE EvictIfAffected(b, f, IteratorAt(q), t, n, dataDescriptor)
      BY <1>2 DEF WalkRun
    <2> HIDE DEF b
    <2>3. CASE IteratorAt(q) \notin IcIterator(st, f)
      <3>1. \A k \in 1..m : k # q => (k <= q <=> k <= q - 1)
        BY <1>1, <2>1
      <3>2. WalkAt(st, b, f, t, n, q - 1) => WalkAt(st, b, f, t, n, q)
        BY <2>3, <3>1 DEF WalkAt
      <3> QED
        BY <2>1, <2>2, <2>3, <3>2
    <2>4. CASE IteratorAt(q) \in IcIterator(st, f)
      <3> DEFINE y == EvictIfAffected(b, f, IteratorAt(q), t, n, dataDescriptor)
      <3>1. Narrows(st, y, f) /\ (~y.crashed => WalkAt(st, y, f, t, n, q))
        BY <2>1, <2>4, WalkStep
      <3>2. r[q] = y
        BY <2>2, <2>4
      <3> HIDE DEF y
      <3> QED
        BY <2>1, <3>1, <3>2
    <2> QED
      BY <2>3, <2>4
  <1>5. m \in G
    <2> HIDE DEF G, m
    <2>1. \A q \in 0..m : q \in G
      BY <1>1, <1>3, <1>4, LoopHolds
    <2> QED
      BY <1>1, <2>1
  <1>6. Narrows(st, z, f) /\ (~z.crashed => WalkAt(st, z, f, t, n, m))
    BY <1>2, <1>5
  <1>7. ASSUME ~z.crashed, NEW i \in DOMAIN Code[f], NEW j \in DOMAIN z.caches[f][i],
               z.caches[f][i][j] # Empty
        PROVE  /\ ~Shadows(z.cell, f, i, z.caches[f][i][j], t, n)
               /\ TrackedEntry(z.cell, f, i, z.caches[f][i][j])
    <2>1. j \in DOMAIN st.caches[f][i] /\ st.caches[f][i][j] # Empty
      BY <1>6, <1>7 DEF Narrows
    <2>2. CachesOK(st.caches)
      BY DEF States
    <2>3. j \in 0..kIcEntriesPerPolyCache /\ j # 0
      BY <2>1, <2>2, FilledEntry, ConstantsOK
    <2>4. PICK q \in 1..m : IteratorAt(q) = <<i, j>>
      BY <2>3, IteratorCovers
    <2>5. <<i, j>> \in IcIterator(st, f)
      BY <2>1, FilledReturned
    <2>6. q <= m /\ <<i, j>>[1] = i /\ <<i, j>>[2] = j
      BY <1>1
    <2>7. WalkAt(st, z, f, t, n, m)
      BY <1>6, <1>7
    <2>8. Settled(z, f, i, j, t, n)
      BY <2>3, <2>4, <2>5, <2>6, <2>7 DEF WalkAt
    <2>9. ~Shadows(z.cell, f, i, z.caches[f][i][j], t, n)
      BY <1>7, <2>8 DEF Settled
    <2> QED
      BY <1>7, <2>7, <2>9 DEF WalkAt, OthersTracked
  <1> QED
    BY <1>6, <1>7 DEF z, Cleared

\* Function g has in r the links it has in c, and lookups in r read no further.
KeepsLinks(c, r, g) ==
    \A u \in Type, x \in Name :
        /\ Linked(c, g, u, x) => Linked(r, g, u, x)
        /\ r[u][x].value \notin Value => c[u][x].value \notin Value

LEMMA LookupKept ==
    ASSUME NEW c, NEW r, NEW g, KeepsLinks(c, r, g), NEW t \in Type, NEW x \in Name, Tracked(c, g, t, x)
    PROVE  Tracked(r, g, t, x)
  <1> SUFFICES ASSUME NEW k \in DOMAIN Mro[t], Reached(r, t, x, k)
               PROVE  Linked(r, g, Mro[t][k], x)
    BY DEF Tracked
  <1>1. k \in 1..Len(Mro[t]) /\ DOMAIN Mro[t] = 1..Len(Mro[t]) /\ Len(Mro[t]) \in Nat
        /\ \A j \in DOMAIN Mro[t] : Mro[t][j] \in Type
    BY MroOf
  <1>2. Reached(c, t, x, k)
    <2>1. \A j \in 1..(k - 1) : Mro[t][j] \in Type
      BY <1>1
    <2> QED
      BY <2>1 DEF Reached, KeepsLinks
  <1>3. Linked(c, g, Mro[t][k], x) /\ Mro[t][k] \in Type
    BY <1>1, <1>2 DEF Tracked
  <1> QED
    BY <1>3 DEF KeepsLinks

LEMMA EntryKept ==
    ASSUME program \in Programs, NEW c, NEW r, NEW g \in Fun, KeepsLinks(c, r, g),
           NEW i \in DOMAIN Code[g], NEW e, e.key \in Code[g][i].keys, TrackedEntry(c, g, i, e)
    PROVE  TrackedEntry(r, g, i, e)
  <1> DEFINE reads == Reads(Code[g][i], e.key)
  <1>1. \A k \in DOMAIN Code[g][i].names : reads[k][1] \in Type /\ reads[k][2] \in Name
    BY ReadsTyped
  <1> SUFFICES ASSUME NEW k \in DOMAIN Code[g][i].names
               PROVE  Tracked(r, g, reads[k][1], reads[k][2])
    BY DEF TrackedEntry
  <1> DEFINE T == reads[k][1]
             x == reads[k][2]
  <1>2. T \in Type /\ x \in Name /\ Tracked(c, g, T, x)
    BY <1>1 DEF TrackedEntry
  <1> HIDE DEF T, x, reads
  <1>3. Tracked(r, g, T, x)
    BY <1>2, LookupKept
  <1> QED
    BY <1>3 DEF T, x

\* What holds of the entries of another function after an eviction.
LEMMA ClearedOther ==
    ASSUME program \in Programs, NEW b \in States, NEW z, NEW f, Narrows(b, z, f),
           NEW g \in Fun, g # f, NEW t \in Type, NEW n \in Name, Cleared(b, g, t, n)
    PROVE  Cleared(z, g, t, n)
  <1>1. KeepsLinks(b.cell, z.cell, g) /\ z.caches[g] = b.caches[g] /\ SameValues(b.cell, z.cell)
    BY DEF Narrows, KeepsLinks, SameValues
  <1>2. CachesOK(b.caches)
    BY DEF States
  <1>3. ASSUME NEW i \in DOMAIN Code[g], NEW j \in DOMAIN b.caches[g][i], b.caches[g][i][j] # Empty
        PROVE  /\ ~Shadows(z.cell, g, i, b.caches[g][i][j], t, n)
               /\ TrackedEntry(z.cell, g, i, b.caches[g][i][j])
    <2> DEFINE e == b.caches[g][i][j]
    <2>1. e.key \in Code[g][i].keys
      BY <1>2, <1>3, FilledEntry
    <2>2. ~Shadows(b.cell, g, i, e, t, n) /\ TrackedEntry(b.cell, g, i, e)
      BY <1>3 DEF Cleared
    <2> HIDE DEF e
    <2>3. ~Shadows(z.cell, g, i, e, t, n)
      BY <1>1, <2>1, <2>2, ShadowsSame
    <2>4. TrackedEntry(z.cell, g, i, e)
      BY <1>1, <2>1, <2>2, EntryKept
    <2> QED
      BY <2>3, <2>4 DEF e
  <1> QED
    BY <1>1, <1>3 DEF Cleared

LEMMA AllTrackedNext ==
    ASSUME program \in Programs, NEW b \in States, NEW z, NEW f \in Fun, Narrows(b, z, f),
           AllTracked(b.cell, b.caches), NEW t, NEW n, Cleared(z, f, t, n)
    PROVE  AllTracked(z.cell, z.caches)
  <1> SUFFICES ASSUME NEW g \in Fun, NEW i \in DOMAIN Code[g], NEW j \in DOMAIN z.caches[g][i],
                      z.caches[g][i][j] # Empty
               PROVE  TrackedEntry(z.cell, g, i, z.caches[g][i][j])
    BY DEF AllTracked
  <1>1. CASE g = f
    BY <1>1 DEF Cleared
  <1>2. CASE g # f
    <2>1. KeepsLinks(b.cell, z.cell, g) /\ z.caches[g] = b.caches[g]
      BY <1>2 DEF Narrows, KeepsLinks, SameValues
    <2>2. CachesOK(b.caches)
      BY DEF States
    <2> DEFINE e == b.caches[g][i][j]
    <2>3. e.key \in Code[g][i].keys
      BY <2>1, <2>2, FilledEntry
    <2>4. TrackedEntry(b.cell, g, i, e)
      BY <2>1 DEF AllTracked
    <2> HIDE DEF e
    <2>5. TrackedEntry(z.cell, g, i, e)
      BY <2>1, <2>3, <2>4, EntryKept
    <2> QED
      BY <2>1, <2>5 DEF e
  <1> QED
    BY <1>1, <1>2

\* State r has the values of c, and no links and entries but those of c and s.
Fewer(c, s, r) ==
    /\ SameValues(c, r.cell)
    /\ \A u \in Type, x \in Name, g \in Fun : Linked(r.cell, g, u, x) => Linked(c, g, u, x)
    /\ \A g \in Fun : \A i \in DOMAIN Code[g] : \A j \in DOMAIN r.caches[g][i] :
          r.caches[g][i][j] # Empty => /\ j \in DOMAIN s[g][i]
                                       /\ r.caches[g][i][j] = s[g][i][j]

LEMMA FewerNext ==
    ASSUME NEW c, NEW s, NEW b, NEW z, NEW f, Fewer(c, s, b), Narrows(b, z, f)
    PROVE  Fewer(c, s, z)
  <1>1. SameValues(c, z.cell)
    BY DEF Fewer, Narrows, SameValues
  <1>2. \A u \in Type, x \in Name, g \in Fun : Linked(z.cell, g, u, x) => Linked(c, g, u, x)
    BY DEF Fewer, Narrows
  <1>3. ASSUME NEW g \in Fun, NEW i \in DOMAIN Code[g], NEW j \in DOMAIN z.caches[g][i],
               z.caches[g][i][j] # Empty
        PROVE  j \in DOMAIN b.caches[g][i] /\ b.caches[g][i][j] = z.caches[g][i][j]
    <2>1. CASE g = f
      BY <1>3, <2>1 DEF Narrows
    <2>2. CASE g # f
      BY <2>2 DEF Narrows
    <2> QED
      BY <2>1, <2>2
  <1>4. ASSUME NEW g \in Fun, NEW i \in DOMAIN Code[g], NEW j \in DOMAIN z.caches[g][i],
               z.caches[g][i][j] # Empty
        PROVE  j \in DOMAIN s[g][i] /\ z.caches[g][i][j] = s[g][i][j]
    BY <1>3, <1>4 DEF Fewer
  <1> QED
    BY <1>1, <1>2, <1>4 DEF Fewer

\* A function without a link to the cell that changed has no entry that the
\* change shadows.
LEMMA UnlinkedCleared ==
    ASSUME program \in Programs, NEW z \in States, AllTracked(z.cell, z.caches), NEW f \in Fun,
           NEW t \in Type, NEW n \in Name, ~Linked(z.cell, f, t, n)
    PROVE  Cleared(z, f, t, n)
  <1> SUFFICES ASSUME NEW i \in DOMAIN Code[f], NEW j \in DOMAIN z.caches[f][i],
                      z.caches[f][i][j] # Empty
               PROVE  /\ ~Shadows(z.cell, f, i, z.caches[f][i][j], t, n)
                      /\ TrackedEntry(z.cell, f, i, z.caches[f][i][j])
    BY DEF Cleared
  <1> DEFINE e == z.caches[f][i][j]
             reads == Reads(Code[f][i], e.key)
  <1>1. TrackedEntry(z.cell, f, i, e)
    BY DEF AllTracked
  <1>2. e.key \in Code[f][i].keys
    <2>1. CachesOK(z.caches)
      BY DEF States
    <2> QED
      BY <2>1, FilledEntry
  <1>3. \A k \in DOMAIN Code[f][i].names : reads[k][1] \in Type
    BY <1>2, ReadsTyped
  <1>4. ASSUME NEW k \in DOMAIN Code[f][i].names, reads[k][2] = n,
               IsAffected(z.cell, reads[k][1], n, t)
        PROVE  FALSE
    <2> DEFINE T == reads[k][1]
    <2>1. T \in Type /\ Tracked(z.cell, f, T, n)
      BY <1>1, <1>3, <1>4 DEF TrackedEntry
    <2>2. IsAffected(z.cell, T, n, t)
      BY <1>4
    <2> HIDE DEF T
    <2> DEFINE c == z.cell
    <2>3. PICK l \in DOMAIN Mro[T] : /\ Mro[T][l] = t
                                     /\ \A h \in 1..(l - 1) : c[Mro[T][h]][n].value = Placeholder
      <3>1. IsAffected(c, T, n, t)
        BY <2>2
      <3> HIDE DEF c
      <3>2. T \in Type
        BY <2>1
      <3>3. IsAffected(c, T, n, t) <=>
               /\ c[t][n].value # Absent
               /\ \E l \in DOMAIN Mro[T] : /\ Mro[T][l] = t
                                           /\ \A h \in 1..(l - 1) : c[Mro[T][h]][n].value = Placeholder
        BY <3>2, AffectedAt
      <3> QED
        BY <3>1, <3>3
    <2>4. Reached(z.cell, T, n, l)
      BY <2>3, ConstantsOK DEF Reached
    <2>5. Linked(z.cell, f, t, n)
      BY <2>1, <2>3, <2>4 DEF Tracked
    <2> QED
      BY <2>5
  <1> QED
    BY <1>1, <1>4 DEF Shadows

\* The walk over the links of a cell that was changed has come to the k-th link.
LinksAt(c, t, n, b, k) ==
    /\ AllTracked(b.cell, b.caches)
    /\ \A l \in 1..k : /\ c[t][n].dependents[l] \in Fun
                       /\ Cleared(b, c[t][n].dependents[l], t, n)

LEMMA LinksStep ==
    ASSUME SingleInheritance, program \in Programs, MethodProgram(program), MethodsCached(caches),
           NEW c \in Cells, Present(c), NEW t \in Type, NEW n \in Name,
           NEW k \in 1..Len(c[t][n].dependents), NEW b \in States, ~b.crashed,
           Fewer(c, caches, b), LinksAt(c, t, n, b, k - 1)
    PROVE  LET z == EvictCache(b, c[t][n].dependents[k], t, n, c[t][n].value \in Property)
           IN  Fewer(c, caches, z) /\ (~z.crashed => LinksAt(c, t, n, z, k))
  <1> DEFINE links == c[t][n].dependents
             f == links[k]
             dataDescriptor == c[t][n].value \in Property
             z == EvictCache(b, f, t, n, dataDescriptor)
  <1>1. links \in Links /\ Len(links) \in Nat /\ \A l \in 1..Len(links) : links[l] \in Fun \cup {None}
    <2>1. links \in Links
      BY CellOf
    <2> HIDE DEF links
    <2> QED
      BY <2>1 DEF Links
  <1>2. k \in 1..Len(links)
    OBVIOUS
  <1> HIDE DEF links, dataDescriptor
  <1>3. CASE f = None
    <2>1. z = [b EXCEPT !.crashed = TRUE]
      BY <1>3 DEF EvictCache
    <2>2. b \in [cell : Cells, caches : [Fun -> Seq(Seq(Entry))], crashed : BOOLEAN]
      BY DEF States
    <2> HIDE DEF z
    <2>3. z.cell = b.cell /\ z.caches = b.caches /\ z.crashed = TRUE
      BY <2>1, <2>2
    <2>4. Fewer(c, caches, z)
      BY <2>3 DEF Fewer
    <2> QED
      BY <2>3, <2>4 DEF z, f, links, dataDescriptor
  <1>4. CASE f # None
    <2>1. f \in Fun
      BY <1>1, <1>2, <1>4
    <2>2. Present(b.cell)
      BY DEF Fewer, Present, SameValues
    <2>3. MethodsCached(b.caches)
      <3> SUFFICES ASSUME NEW g \in Fun, NEW i \in DOMAIN Code[g], NEW j \in DOMAIN b.caches[g][i]
                   PROVE  b.caches[g][i][j].kind \notin InstanceKinds
        BY DEF MethodsCached
      <3>1. CASE b.caches[g][i][j] = Empty
        BY <3>1 DEF Empty, InstanceKinds
      <3>2. CASE b.caches[g][i][j] # Empty
        BY <3>2 DEF Fewer, MethodsCached
      <3> QED
        BY <3>1, <3>2
    <2>4. OthersTracked(b, f, t, n)
      BY <2>1 DEF LinksAt, AllTracked, OthersTracked
    <2>5. Narrows(b, z, f) /\ (~z.crashed => Cleared(z, f, t, n))
      <3> HIDE DEF f
      <3> QED
        BY <2>1, <2>2, <2>3, <2>4, WalkClears
    <2> HIDE DEF z
    <2>6. Fewer(c, caches, z)
      <3> HIDE DEF f
      <3> QED
        BY <2>5, FewerNext
    <2>7. ASSUME ~z.crashed PROVE LinksAt(c, t, n, z, k)
      <3>1. AllTracked(z.cell, z.caches)
        <4> HIDE DEF f
        <4> QED
          BY <2>1, <2>5, <2>7, AllTrackedNext DEF LinksAt
      <3>2. ASSUME NEW l \in 1..k PROVE links[l] \in Fun /\ Cleared(z, links[l], t, n)
        <4>1. CASE links[l] = f
          BY <2>1, <2>5, <2>7, <4>1
        <4>2. CASE links[l] # f
          <5>1. l \in 1..(k - 1)
            BY <1>1, <1>2, <4>2 DEF f
          <5>2. links[l] \in Fun /\ Cleared(b, links[l], t, n)
            BY <5>1 DEF LinksAt, links
          <5> HIDE DEF f
          <5> QED
            BY <2>5, <4>2, <5>2, ClearedOther
        <4> QED
          BY <4>1, <4>2
      <3> QED
        BY <3>1, <3>2 DEF LinksAt, links
    <2> QED
      BY <2>6, <2>7 DEF z, f, links, dataDescriptor
  <1> QED
    BY <1>3, <1>4

\* Invalidation evicts every entry that a change of n in t shadows, and keeps
\* the dependencies of the others.
LEMMA InvalidateClears ==
    ASSUME SingleInheritance, program \in Programs, MethodProgram(program), CachesOK(caches),
           MethodsCached(caches), NEW c \in Cells, Present(c), AllTracked(c, caches),
           NEW t \in Type, NEW n \in Name
    PROVE  LET z == InvalidateAttr(c, t, n)
           IN  Fewer(c, caches, z) /\ (~z.crashed => \A f \in Fun : Cleared(z, f, t, n))
  <1> DEFINE links == c[t][n].dependents
             m == Len(links)
             z == InvalidateAttr(c, t, n)
  <1>1. PICK r : LinksRun(c, t, n, r) /\ z = r[m]
    BY InvalidateAttrRun
  <1>2. m \in Nat
    <2>1. links \in Links
      BY CellOf
    <2> QED
      BY <2>1 DEF Links
  <1> HIDE DEF z
  <1> DEFINE G == {k \in 0..m : /\ Fewer(c, caches, r[k])
                                /\ ~r[k].crashed => LinksAt(c, t, n, r[k], k)}
  <1>3. 0 \in G
    <2>1. r[0].cell = c /\ r[0].caches = caches
      BY <1>1 DEF LinksRun
    <2>2. Fewer(c, caches, r[0])
      BY <2>1 DEF Fewer, SameValues
    <2>3. LinksAt(c, t, n, r[0], 0)
      BY <2>1 DEF LinksAt
    <2> HIDE DEF m
    <2> QED
      BY <1>2, <2>2, <2>3
  <1>4. ASSUME NEW k \in 1..m, k - 1 \in G PROVE k \in G
    <2> DEFINE b == r[k - 1]
    <2>1. k \in 0..m /\ b \in States /\ Fewer(c, caches, b)
          /\ (~b.crashed => LinksAt(c, t, n, b, k - 1))
      <3>1. k - 1 \in 0..m /\ k \in 0..m
        BY <1>2
      <3> QED
        BY <1>1, <1>4, <3>1 DEF LinksRun
    <2>2. r[k] = IF b.crashed THEN b ELSE EvictCache(b, links[k], t, n, c[t][n].value \in Property)
      BY <1>1 DEF LinksRun
    <2> HIDE DEF b
    <2>3. CASE b.crashed
      BY <2>1, <2>2, <2>3
    <2>4. CASE ~b.crashed
      <3> DEFINE y == EvictCache(b, links[k], t, n, c[t][n].value \in Property)
      <3>1. Fewer(c, caches, y) /\ (~y.crashed => LinksAt(c, t, n, y, k))
        BY <2>1, <2>4, LinksStep
      <3>2. r[k] = y
        BY <2>2, <2>4
      <3> HIDE DEF y
      <3> QED
        BY <2>1, <3>1, <3>2
    <2> QED
      BY <2>3, <2>4
  <1>5. m \in G
    <2> HIDE DEF G, m
    <2>1. \A k \in 0..m : k \in G
      BY <1>2, <1>3, <1>4, LoopHolds
    <2> QED
      BY <1>2, <2>1
  <1>6. /\ Fewer(c, caches, z) /\ z \in States
        /\ (~z.crashed => LinksAt(c, t, n, z, m))
    BY <1>1, <1>2, <1>5 DEF LinksRun
  <1>7. ASSUME ~z.crashed, NEW f \in Fun PROVE Cleared(z, f, t, n)
    <2>1. CASE \E l \in DOMAIN links : links[l] = f
      <3>1. DOMAIN links = 1..m
        <4>1. links \in Links
          BY CellOf
        <4> QED
          BY <4>1 DEF Links
      <3> QED
        BY <1>6, <1>7, <2>1, <3>1 DEF LinksAt
    <2>2. CASE ~ \E l \in DOMAIN links : links[l] = f
      <3>1. ~Linked(z.cell, f, t, n)
        BY <1>6, <2>2 DEF Fewer, Linked, HasLink
      <3> QED
        BY <1>6, <1>7, <3>1, UnlinkedCleared DEF LinksAt
    <2> QED
      BY <2>1, <2>2
  <1> QED
    BY <1>6, <1>7 DEF z

-----------------------------------------------------------------------------
(* The steps of the program keep the dependencies.                          *)

\* The entries after an update of a cache.
LEMMA UpdatedEntries ==
    ASSUME NEW f, NEW i, NEW entries, CacheAt(f, i, entries), NEW e,
           NEW j \in DOMAIN UpdateCache(entries, e)
    PROVE  LET x == UpdateCache(entries, e)[j]
           IN  x = e \/ x = Empty \/ \E k \in DOMAIN entries : x = entries[k]
  <1> DEFINE u == UpdateCache(entries, e)
             first(x) == [k \in 1..kIcEntriesPerPolyCache |-> IF k = 1 THEN x ELSE Empty]
             poly == IF Len(entries) = 1 THEN first(entries[1]) ELSE entries
             slot == SelectInSeq(poly, LAMBDA x : x = Empty \/ x.key = e.key)
  <1>1. \/ u = <<e>>
        \/ u = [poly EXCEPT ![slot] = e]
        \/ u = first(e)
    BY DEF UpdateCache
  <1>2. j \in DOMAIN u
    OBVIOUS
  <1> HIDE DEF u, slot
  <1>3. ASSUME NEW k \in DOMAIN poly
        PROVE  poly[k] = Empty \/ \E l \in DOMAIN entries : poly[k] = entries[l]
    <2>1. CASE Len(entries) = 1
      <3> DEFINE E == EntriesAt(f, i)
      <3>1. entries \in Seq(E)
        BY DEF CacheAt
      <3> HIDE DEF E
      <3>2. 1 \in DOMAIN entries
        BY <2>1, <3>1
      <3>3. poly = first(entries[1])
        BY <2>1
      <3>4. poly[k] = entries[1] \/ poly[k] = Empty
        BY <3>3
      <3> QED
        BY <3>2, <3>4
    <2>2. CASE Len(entries) # 1
      BY <2>2
    <2> QED
      BY <2>1, <2>2
  <1> HIDE DEF poly
  <1>4. CASE u = <<e>>
    BY <1>2, <1>4 DEF u
  <1>5. CASE u = [poly EXCEPT ![slot] = e]
    <2>1. j \in DOMAIN poly /\ (u[j] = e \/ u[j] = poly[j])
      BY <1>2, <1>5
    <2>2. u[j] = e \/ u[j] = Empty \/ \E k \in DOMAIN entries : u[j] = entries[k]
      BY <1>3, <2>1
    <2> QED
      BY <2>2 DEF u
  <1>6. CASE u = first(e)
    <2>1. u[j] = e \/ u[j] = Empty
      BY <1>2, <1>6
    <2> QED
      BY <2>1 DEF u
  <1> QED
    BY <1>1, <1>4, <1>5, <1>6

LEMMA MethodKinds ==
    ASSUME NEW op, op.op \in MethodOpcodes, NEW key
    PROVE  Lookup(op, key).kind \notin InstanceKinds
  <1>1. NotFound.kind \notin InstanceKinds
    BY DEF NotFound, InstanceKinds
  <1>2. ASSUME NEW left, NEW right PROVE OperatorMethod(op, left, right).kind \notin InstanceKinds
    <2>1. \/ OperatorMethod(op, left, right) = NotFound
          \/ \E v : OperatorMethod(op, left, right) = [kind |-> "retry", value |-> v]
          \/ \E v : OperatorMethod(op, left, right) = [kind |-> "reflected", value |-> v]
          \/ \E v : OperatorMethod(op, left, right) = [kind |-> "reflected_retry", value |-> v]
      BY DEF OperatorMethod
    <2> QED
      BY <1>1, <2>1 DEF InstanceKinds
  <1>3. ASSUME NEW left, NEW right PROVE InplaceMethod(op, left, right).kind \notin InstanceKinds
    <2> DEFINE method == typeLookupInMro(left.type, Head(op.names))
    <2>1. \/ InplaceMethod(op, left, right) = OperatorMethod(op, left, right)
          \/ InplaceMethod(op, left, right) = NotFound
          \/ InplaceMethod(op, left, right) = [kind |-> "inplace", value |-> method]
      BY DEF InplaceMethod
    <2> HIDE DEF method
    <2> QED
      BY <1>1, <1>2, <2>1 DEF InstanceKinds
  <1>4. ASSUME NEW l, NEW n PROVE SpecialMethod(l, n).kind \notin InstanceKinds
    <2>1. \/ SpecialMethod(l, n) = NotFound
          \/ \E v : SpecialMethod(l, n) = [kind |-> "method", value |-> v]
      BY DEF SpecialMethod
    <2> QED
      BY <1>1, <2>1 DEF InstanceKinds
  <1>5. ASSUME NEW found PROVE OnlyMethod(found).kind \notin InstanceKinds
    BY <1>1 DEF OnlyMethod, InstanceKinds
  <1>6. CASE op.op \in {"BINARY_OP", "COMPARE_OP"}
    <2>1. Lookup(op, key) = OperatorMethod(op, key[1], key[2])
      BY <1>6 DEF Lookup, SpecialMethods
    <2> QED
      BY <1>2, <2>1
  <1>7. CASE op.op = "INPLACE_OP"
    <2>1. Lookup(op, key) = InplaceMethod(op, key[1], key[2])
      BY <1>7 DEF Lookup, SpecialMethods
    <2> QED
      BY <1>3, <2>1
  <1>8. CASE op.op \in {"BINARY_SUBSCR", "FOR_ITER"}
    <2>1. Lookup(op, key) = SpecialMethod(key[1], op.names[1])
      BY <1>8 DEF Lookup, SpecialMethods
    <2> QED
      BY <1>4, <2>1
  <1>9. CASE op.op = "LOAD_METHOD"
    <2>1. Lookup(op, key) = OnlyMethod(AttributeLocation(key[1], op.names[1]))
      BY <1>9 DEF Lookup, SpecialMethods
    <2> QED
      BY <1>5, <2>1
  <1> QED
    BY <1>6, <1>7, <1>8, <1>9 DEF MethodOpcodes

\* The classes that a lookup reads are those it leaves a link in.
LEMMA ReachedVisited ==
    ASSUME NEW t \in Type, NEW n, NEW k \in DOMAIN Mro[t], Reached(cell, t, n, k)
    PROVE  Mro[t][k] \in Visited(t, n)
  <1> DEFINE I == {j \in 1..Len(Mro[t]) : cell[Mro[t][j]][n].value \in Value}
             d == IF I # {} THEN Min(I) ELSE 0
  <1>1. DefiningIndex(t, n) = d
    BY DEF DefiningIndex, SelectInSeq
  <1>2. Mro[t] \in Seq(Type) /\ Len(Mro[t]) \in Nat /\ DOMAIN Mro[t] = 1..Len(Mro[t])
    BY ConstantsOK
  <1>3. I \in SUBSET Nat /\ \A j \in I : j \in 1..Len(Mro[t]) /\ cell[Mro[t][j]][n].value \in Value
    OBVIOUS
  <1> HIDE DEF I
  <1>4. \/ I = {} /\ d = 0
        \/ I # {} /\ d \in I
    BY <1>3, FirstIn
  <1> HIDE DEF d
  <1>5. CASE d = 0
    BY <1>1, <1>5 DEF Visited, Range
  <1>6. CASE d # 0
    <2>1. d \in 1..Len(Mro[t]) /\ cell[Mro[t][d]][n].value \in Value
      BY <1>3, <1>4, <1>6
    <2>2. ~ (d \in 1..(k - 1))
      BY <2>1 DEF Reached
    <2>3. k \in 1..d
      BY <1>2, <2>1, <2>2
    <2> DEFINE s == SubSeq(Mro[t], 1, d)
    <2>4. DOMAIN s = 1..d /\ s[k] = Mro[t][k]
      BY <1>2, <2>1, <2>3
    <2>5. Visited(t, n) = Range(s)
      BY <1>1, <1>6 DEF Visited
    <2> HIDE DEF s
    <2> QED
      BY <2>3, <2>4, <2>5 DEF Range
  <1> QED
    BY <1>5, <1>6

\* A new entry is tracked.
LEMMA NewTracked ==
    ASSUME program \in Programs, NEW f \in Fun, NEW i \in DOMAIN Code[f],
           NEW key \in Code[f][i].keys, NEW e, e.key = key, NEW c,
           Inserted(cell, c, f, Reads(Code[f][i], key), Len(Code[f][i].names))
    PROVE  TrackedEntry(c, f, i, e)
  <1> DEFINE reads == Reads(Code[f][i], key)
             m == Len(Code[f][i].names)
  <1>1. /\ DOMAIN Code[f][i].names = 1..m
        /\ \A k \in 1..m : reads[k][1] \in Type /\ reads[k][2] \in Name
    BY ReadsTyped
  <1> SUFFICES ASSUME NEW k \in 1..m PROVE Tracked(c, f, reads[k][1], reads[k][2])
    BY <1>1 DEF TrackedEntry
  <1> DEFINE T == reads[k][1]
             x == reads[k][2]
  <1>2. T \in Type /\ x \in Name
    BY <1>1
  <1>3. \A u \in Visited(T, x) \cap Type : Linked(c, f, u, x)
    BY DEF Inserted
  <1>4. \A u \in Type, y \in Name : c[u][y].value \notin Value => cell[u][y].value \notin Value
    BY ConstantsOK DEF Inserted
  <1> HIDE DEF T, x, reads, m
  <1>5. ASSUME NEW l \in DOMAIN Mro[T], Reached(c, T, x, l)
        PROVE  Linked(c, f, Mro[T][l], x)
    <2>1. l \in 1..Len(Mro[T]) /\ DOMAIN Mro[T] = 1..Len(Mro[T]) /\ Len(Mro[T]) \in Nat
          /\ \A h \in DOMAIN Mro[T] : Mro[T][h] \in Type
      BY <1>2, MroOf
    <2>2. \A h \in 1..(l - 1) : Mro[T][h] \in Type
      BY <2>1
    <2>3. Reached(cell, T, x, l)
      BY <1>2, <1>4, <1>5, <2>2 DEF Reached
    <2>4. Mro[T][l] \in Visited(T, x)
      BY <1>2, <2>3, ReachedVisited
    <2> QED
      BY <1>3, <2>1, <2>4
  <1> QED
    BY <1>5 DEF Tracked, T, x

\* The caching of a result tracks its lookups, and keeps the others tracked.
LEMMA CacheResultTracked ==
    ASSUME program \in Programs, cell \in Cells, Present(cell), NEW old, CachesOK(old),
           MethodsCached(old), NEW f \in Fun, NEW i \in DOMAIN Code[f],
           NEW key \in Code[f][i].keys, NEW target \in Targets, target.kind \notin InstanceKinds,
           CacheResult(old, f, i, key, target)
    PROVE  /\ Present(cell') /\ MethodsCached(caches')
           /\ AllTracked(cell, old) => AllTracked(cell', caches')
  <1> DEFINE e == [key |-> key, kind |-> target.kind, value |-> target.value]
             op == Code[f][i]
             new == UpdateCache(old[f][i], e)
  <1>1. \/ caches' = [old EXCEPT ![f][i] = new] /\ cell' = InsertDependencies(f, op, key)
        \/ caches' = old /\ cell' = cell
    BY DEF CacheResult
  <1>2. CASE caches' = old /\ cell' = cell
    BY <1>2
  <1>3. CASE caches' = [old EXCEPT ![f][i] = new] /\ cell' = InsertDependencies(f, op, key)
    <2> DEFINE c == InsertDependencies(f, op, key)
    <2>1. Inserted(cell, c, f, Reads(op, key), Len(op.names))
      BY InsertDependenciesLinks
    <2>2. cell' = c
      BY <1>3
    <2> HIDE DEF c
    <2>3. CacheAt(f, i, old[f][i])
      BY DEF CachesOK
    <2>4. \A j \in DOMAIN new : \/ new[j] = e \/ new[j] = Empty
                                \/ \E k \in DOMAIN old[f][i] : new[j] = old[f][i][k]
      BY <2>3, UpdatedEntries
    <2>5. e.key = key /\ e.kind \notin InstanceKinds
      OBVIOUS
    <2> HIDE DEF e, new
    <2>6. /\ caches'[f][i] = new
          /\ \A g \in Fun : \A k \in DOMAIN Code[g] : g # f \/ k # i => caches'[g][k] = old[g][k]
      <3> DEFINE z == [old EXCEPT ![f][i] = new]
      <3>1. old \in [Fun -> Seq(Seq(Entry))] /\ DOMAIN old[f] = DOMAIN Code[f]
        BY DEF CachesOK
      <3>2. z = [old EXCEPT ![f] = [old[f] EXCEPT ![i] = new]]
        OBVIOUS
      <3>3. z[f] = [old[f] EXCEPT ![i] = new] /\ \A g \in Fun : g # f => z[g] = old[g]
        BY <3>1, <3>2
      <3>4. caches' = z
        BY <1>3
      <3> HIDE DEF z
      <3> QED
        BY <3>1, <3>3, <3>4
    <2>7. Present(c)
      <3> SUFFICES ASSUME NEW u \in Type, NEW x \in Name, NEW g \in Fun, Linked(c, g, u, x)
                   PROVE  c[u][x].value # Absent
        BY DEF Present
      <3>1. Linked(cell, g, u, x) \/ c[u][x].value # Absent
        BY <2>1 DEF Inserted
      <3>2. c[u][x].value = cell[u][x].value \/ c[u][x].value = Placeholder
        BY <2>1 DEF Inserted
      <3> QED
        BY <3>1, <3>2 DEF Present, Placeholder, Absent
    <2>8. MethodsCached(caches')
      <3> SUFFICES ASSUME NEW g \in Fun, NEW k \in DOMAIN Code[g], NEW j \in DOMAIN caches'[g][k]
                   PROVE  caches'[g][k][j].kind \notin InstanceKinds
        BY DEF MethodsCached
      <3>1. Empty.kind \notin InstanceKinds
        BY DEF Empty, InstanceKinds
      <3>2. CASE g = f /\ k = i
        BY <2>4, <2>5, <2>6, <3>1, <3>2 DEF MethodsCached
      <3>3. CASE g # f \/ k # i
        BY <2>6, <3>3 DEF MethodsCached
      <3> QED
        BY <3>2, <3>3
    <2>9. ASSUME AllTracked(cell, old) PROVE AllTracked(c, caches')
      <3> SUFFICES ASSUME NEW g \in Fun, NEW k \in DOMAIN Code[g], NEW j \in DOMAIN caches'[g][k],
                          caches'[g][k][j] # Empty
                   PROVE  TrackedEntry(c, g, k, caches'[g][k][j])
        BY DEF AllTracked
      <3>1. KeepsLinks(cell, c, g)
        BY <2>1, ConstantsOK DEF Inserted, KeepsLinks
      <3>2. ASSUME NEW l \in DOMAIN old[g][k], old[g][k][l] # Empty
            PROVE  TrackedEntry(c, g, k, old[g][k][l])
        <4> DEFINE x == old[g][k][l]
        <4>1. TrackedEntry(cell, g, k, x)
          BY <2>9, <3>2 DEF AllTracked
        <4>2. x.key \in Code[g][k].keys
          BY <3>2, FilledEntry
        <4> HIDE DEF x
        <4>3. TrackedEntry(c, g, k, x)
          BY <3>1, <4>1, <4>2, EntryKept
        <4> QED
          BY <4>3 DEF x
      <3>3. CASE g = f /\ k = i
        <4>1. TrackedEntry(c, f, i, e)
          BY <2>1, <2>5, NewTracked DEF op
        <4> QED
          BY <2>4, <2>6, <3>2, <3>3, <4>1
      <3>4. CASE g # f \/ k # i
        BY <2>6, <3>2, <3>4
      <3> QED
        BY <3>3, <3>4
    <2> QED
      BY <2>2, <2>7, <2>8, <2>9
  <1> QED
    BY <1>1, <1>2, <1>3

LEMMA TrackedStep ==
    ASSUME SingleInheritance, IInv', program' = program, MethodProgram(program), Present(cell'),
           MethodsCached(caches'),
           \A k \in DOMAIN calls' : calls'[k].target.kind \notin InstanceKinds,
           ~crashed' => AllTracked(cell', caches')
    PROVE  TInv'
  <1>1. SingleInheritance'
    BY DEF SingleInheritance
  <1>2. MethodProgram(program)' /\ MethodsCached(caches)'
    BY DEF MethodProgram, MethodsCached, Code
  <1>3. Present(cell)'
    BY DEF Present, Linked, HasLink
  <1>4. AllTracked(cell', caches') => AllTracked(cell, caches)'
    BY DEF AllTracked, TrackedEntry, Code
  <1> QED
    BY <1>1, <1>2, <1>3, <1>4 DEF TInv

LEMMA InitTracked ==
    ASSUME SingleInheritance, MethodProgram(program), Init
    PROVE  TInv
  <1>1. /\ cell = [t \in Type |-> [n \in Name |-> NoCell]]
        /\ caches = [f \in Fun |-> [i \in DOMAIN Code[f] |-> <<>>]]
        /\ calls = <<>>
    BY DEF Init
  <1>2. Present(cell)
    BY <1>1 DEF Present, Linked, HasLink, NoCell
  <1>3. MethodsCached(caches) /\ AllTracked(cell, caches)
    BY <1>1 DEF MethodsCached, AllTracked
  <1>4. \A k \in DOMAIN calls : calls[k].target.kind \notin InstanceKinds
    BY <1>1
  <1> QED
    BY <1>2, <1>3, <1>4, InitInv DEF TInv

\* The entries that a miss starts from: a property and a change of layout go first.
LEMMA RetriedEntries ==
    ASSUME program \in Programs, CachesOK(caches), NEW f \in Fun, NEW i \in DOMAIN Code[f]
    PROVE  LET retry == Len(caches[f][i]) = 1 /\ caches[f][i][1].kind \in MonomorphicKinds
               old == IF retry THEN [caches EXCEPT ![f][i] = <<>>] ELSE caches
           IN  /\ CachesOK(old)
               /\ \A g \in Fun : \A k \in DOMAIN Code[g] : \A j \in DOMAIN old[g][k] :
                     old[g][k] = caches[g][k]
  <1> DEFINE z == [caches EXCEPT ![f][i] = <<>>]
  <1>1. CacheAt(f, i, <<>>)
    BY DEF CacheAt
  <1>2. CachesOK(z)
    BY <1>1, CacheChanged
  <1>3. z[f][i] = <<>> /\ \A g \in Fun : \A k \in DOMAIN Code[g] : g # f \/ k # i => z[g][k] = caches[g][k]
    <2>1. caches \in [Fun -> Seq(Seq(Entry))] /\ DOMAIN caches[f] = DOMAIN Code[f]
      BY DEF CachesOK
    <2>2. z = [caches EXCEPT ![f] = [caches[f] EXCEPT ![i] = <<>>]]
      OBVIOUS
    <2>3. z[f] = [caches[f] EXCEPT ![i] = <<>>] /\ \A g \in Fun : g # f => z[g] = caches[g]
      BY <2>1, <2>2
    <2> HIDE DEF z
    <2> QED
      BY <2>1, <2>3
  <1> HIDE DEF z
  <1>4. \A g \in Fun : \A k \in DOMAIN Code[g] : \A j \in DOMAIN z[g][k] : z[g][k] = caches[g][k]
    <2> SUFFICES ASSUME NEW g \in Fun, NEW k \in DOMAIN Code[g], NEW j \in DOMAIN z[g][k]
                 PROVE  z[g][k] = caches[g][k]
      OBVIOUS
    <2>1. ~ (g = f /\ k = i)
      BY <1>3
    <2> QED
      BY <1>3, <2>1
  <1> QED
    BY <1>2, <1>4 DEF z

\* The pending lookups after one more, and after the return of the last one.
LEMMA CallPushed ==
    ASSUME calls \in Seq(CallRecord), NEW call \in CallRecord, calls' = Append(calls, call)
    PROVE  \A k \in DOMAIN calls' : (k \in DOMAIN calls /\ calls'[k] = calls[k]) \/ calls'[k] = call
  <1> DEFINE n == Len(calls)
  <1>1. n \in Nat /\ DOMAIN calls = 1..n
    OBVIOUS
  <1>2. DOMAIN calls' = 1..(n + 1) /\ calls'[n + 1] = call /\ \A k \in 1..n : calls'[k] = calls[k]
    BY <1>1
  <1> HIDE DEF n
  <1>3. \A k \in 1..(n + 1) : k \in 1..n \/ k = n + 1
    BY <1>1
  <1> QED
    BY <1>1, <1>2, <1>3

LEMMA CallPopped ==
    ASSUME calls \in Seq(CallRecord), calls # <<>>, calls' = Front(calls)
    PROVE  /\ \E k \in DOMAIN calls : Last(calls) = calls[k]
           /\ \A k \in DOMAIN calls' : k \in DOMAIN calls /\ calls'[k] = calls[k]
  <1> DEFINE n == Len(calls)
  <1>1. n \in Nat /\ n # 0 /\ DOMAIN calls = 1..n
    OBVIOUS
  <1>2. Last(calls) = calls[n] /\ calls' = SubSeq(calls, 1, n - 1)
    BY DEF Last, Front
  <1>3. n - 1 \in Nat /\ n = Len(calls)
    BY <1>1
  <1> HIDE DEF n
  <1>4. DOMAIN calls' = 1..(n - 1) /\ \A k \in 1..(n - 1) : calls'[k] = calls[k]
    BY <1>1, <1>2, <1>3
  <1>5. n \in 1..n /\ \A k \in 1..(n - 1) : k \in 1..n
    BY <1>1, <1>3
  <1> QED
    BY <1>1, <1>2, <1>4, <1>5

LEMMA LoadTracked ==
    ASSUME TInv, NEW f \in Fun, NEW i \in DOMAIN Code[f], NEW key \in Code[f][i].keys,
           Load(f, i, key)
    PROVE  TInv'
  <1> DEFINE op == Code[f][i]
             target == Lookup(op, key)
             retry == Len(caches[f][i]) = 1 /\ caches[f][i][1].kind \in MonomorphicKinds
             old == IF retry THEN [caches EXCEPT ![f][i] = <<>>] ELSE caches
             call == [fun |-> f, opcode |-> i, key |-> key, target |-> target]
  <1>1. /\ program \in Programs /\ cell \in Cells /\ CachesOK(caches) /\ calls \in Seq(CallRecord)
        /\ SingleInheritance /\ MethodProgram(program) /\ Present(cell) /\ MethodsCached(caches)
        /\ \A k \in DOMAIN calls : calls[k].target.kind \notin InstanceKinds
        /\ ~crashed => AllTracked(cell, caches)
    BY DEF TInv, IInv
  <1>2. /\ program' = program /\ live' = live /\ crashed' = crashed /\ ~crashed
        /\ \/ CacheResult(old, f, i, key, target) /\ calls' = calls
           \/ calls' = Append(calls, call) /\ caches' = old /\ cell' = cell
    BY DEF Load
  <1>3. IInv'
    BY LoadInv DEF TInv
  <1>4. op \in Opcode /\ op.op \in MethodOpcodes
    <2> HIDE DEF op
    <2> QED
      BY <1>1, EntriesTyped DEF MethodProgram, op, Code
  <1>5. target \in Targets /\ target.kind \notin InstanceKinds
    <2> HIDE DEF op
    <2> QED
      BY <1>4, LookupOf, MethodKinds
  <1>6. target = call.target
    OBVIOUS
  <1> HIDE DEF target
  <1>7. /\ CachesOK(old) /\ MethodsCached(old)
        /\ AllTracked(cell, caches) => AllTracked(cell, old)
    <2>1. /\ CachesOK(old)
          /\ \A g \in Fun : \A k \in DOMAIN Code[g] : \A j \in DOMAIN old[g][k] : old[g][k] = caches[g][k]
      BY <1>1, RetriedEntries
    <2> HIDE DEF old
    <2>2. MethodsCached(old)
      BY <1>1, <2>1 DEF MethodsCached
    <2>3. AllTracked(cell, caches) => AllTracked(cell, old)
      BY <2>1 DEF AllTracked
    <2> QED
      BY <2>1, <2>2, <2>3
  <1> HIDE DEF old, op, call
  <1>8. CASE CacheResult(old, f, i, key, target) /\ calls' = calls
    <2>1. /\ Present(cell') /\ MethodsCached(caches')
          /\ AllTracked(cell, old) => AllTracked(cell', caches')
      BY <1>1, <1>5, <1>7, <1>8, CacheResultTracked
    <2> QED
      BY <1>1, <1>2, <1>3, <1>7, <1>8, <2>1, TrackedStep
  <1>9. CASE calls' = Append(calls, call) /\ caches' = old /\ cell' = cell
    <2>1. call \in CallRecord
      <3>1. i \in Nat
        <4>1. Code[f] \in Seq(Opcode)
          BY <1>1, EntriesTyped
        <4> QED
          BY <4>1
      <3>2. key \in Seq(Layout)
        BY <1>1, EntriesTyped
      <3> QED
        BY <1>5, <3>1, <3>2 DEF CallRecord, call
    <2>2. \A k \in DOMAIN calls' : calls'[k].target.kind \notin InstanceKinds
      BY <1>1, <1>5, <1>6, <1>9, <2>1, CallPushed
    <2> QED
      BY <1>1, <1>2, <1>3, <1>7, <1>9, <2>2, TrackedStep
  <1> QED
    BY <1>2, <1>8, <1>9

LEMMA ReturnTracked ==
    ASSUME TInv, NEW raises \in BOOLEAN, Return(raises)
    PROVE  TInv'
  <1> DEFINE call == Last(calls)
  <1>1. /\ program \in Programs /\ cell \in Cells /\ CachesOK(caches) /\ calls \in Seq(CallRecord)
        /\ SingleInheritance /\ MethodProgram(program) /\ Present(cell) /\ MethodsCached(caches)
        /\ \A k \in DOMAIN calls : CallOK(calls[k]) /\ calls[k].target.kind \notin InstanceKinds
        /\ ~crashed => AllTracked(cell, caches)
    BY DEF TInv, IInv
  <1>2. /\ program' = program /\ crashed' = crashed /\ ~crashed
        /\ calls # <<>> /\ calls' = Front(calls)
        /\ \/ CacheResult(caches, call.fun, call.opcode, call.key, call.target)
           \/ caches' = caches /\ cell' = cell
    BY DEF Return
  <1>3. IInv'
    BY ReturnInv DEF TInv
  <1>4. /\ \E k \in DOMAIN calls : call = calls[k]
        /\ \A k \in DOMAIN calls' : k \in DOMAIN calls /\ calls'[k] = calls[k]
    BY <1>1, <1>2, CallPopped
  <1>5. CallOK(call) /\ call.target.kind \notin InstanceKinds
    BY <1>1, <1>4
  <1> HIDE DEF call
  <1>7. \A k \in DOMAIN calls' : calls'[k].target.kind \notin InstanceKinds
    BY <1>1, <1>4
  <1>8. CASE CacheResult(caches, call.fun, call.opcode, call.key, call.target)
    <2>1. /\ call.fun \in Fun /\ call.opcode \in DOMAIN Code[call.fun]
          /\ call.key \in Code[call.fun][call.opcode].keys /\ call.target \in Targets
      BY <1>5 DEF CallOK
    <2>2. /\ Present(cell') /\ MethodsCached(caches')
          /\ AllTracked(cell, caches) => AllTracked(cell', caches')
      BY <1>1, <1>5, <1>8, <2>1, CacheResultTracked
    <2> QED
      BY <1>1, <1>2, <1>3, <1>7, <2>2, TrackedStep
  <1>9. CASE caches' = caches /\ cell' = cell
    BY <1>1, <1>2, <1>3, <1>7, <1>9, TrackedStep
  <1> QED
    BY <1>2, <1>8, <1>9

\* What is cleared of every function is tracked of every function.
LEMMA ClearedTracked ==
    ASSUME NEW z, NEW t, NEW n, \A f \in Fun : Cleared(z, f, t, n)
    PROVE  AllTracked(z.cell, z.caches)
  BY DEF Cleared, AllTracked

LEMMA FewerMethods ==
    ASSUME NEW c, NEW z, Fewer(c, caches, z), MethodsCached(caches), Present(c)
    PROVE  MethodsCached(z.caches) /\ Present(z.cell)
  <1>1. Present(z.cell)
    BY DEF Fewer, Present, SameValues
  <1>2. ASSUME NEW g \in Fun, NEW i \in DOMAIN Code[g], NEW j \in DOMAIN z.caches[g][i]
        PROVE  z.caches[g][i][j].kind \notin InstanceKinds
    <2>1. CASE z.caches[g][i][j] = Empty
      BY <2>1 DEF Empty, InstanceKinds
    <2>2. CASE z.caches[g][i][j] # Empty
      BY <2>2 DEF Fewer, MethodsCached
    <2> QED
      BY <2>1, <2>2
  <1> QED
    BY <1>1, <1>2 DEF MethodsCached

\* Cells c with another value of n in t.
LEMMA ValueSet ==
    ASSUME NEW c \in Cells, NEW t \in Type, NEW n \in Name, NEW v \in Value
    PROVE  LET r == [c EXCEPT ![t][n].value = v]
           IN  /\ r \in Cells
               /\ \A u \in Type, x \in Name :
                     /\ r[u][x].dependents = c[u][x].dependents
                     /\ r[u][x].value = IF u = t /\ x = n THEN v ELSE c[u][x].value
  <1> DEFINE changed == [c[t][n] EXCEPT !.value = v]
             r == [c EXCEPT ![t][n] = changed]
  <1>1. c[t][n] \in Cell /\ c[t][n].dependents \in Links
    BY CellOf
  <1>2. /\ changed \in [value : Value \cup {Placeholder, Absent}, dependents : Links]
        /\ changed.value = v /\ changed.dependents = c[t][n].dependents
    BY <1>1 DEF Cell
  <1>3. [c EXCEPT ![t][n].value = v] = r
    OBVIOUS
  <1> HIDE DEF changed
  <1>4. r \in Cells
    BY <1>2, CellReplaced
  <1>5. c = [u \in Type |-> c[u]] /\ \A u \in Type : c[u] = [x \in Name |-> c[u][x]]
    BY DEF Cells
  <1>6. r[t] = [c[t] EXCEPT ![n] = changed] /\ \A u \in Type : u # t => r[u] = c[u]
    BY <1>5
  <1> HIDE DEF r
  <1>7. r[t][n] = changed /\ \A x \in Name : x # n => r[t][x] = c[t][x]
    BY <1>5, <1>6
  <1>8. \A u \in Type, x \in Name :
           /\ r[u][x].dependents = c[u][x].dependents
           /\ r[u][x].value = IF u = t /\ x = n THEN v ELSE c[u][x].value
    BY <1>2, <1>6, <1>7
  <1> QED
    BY <1>3, <1>4, <1>8

\* An assignment changed the cells to c, and then walked the links of the cell.
SetRun(c, z, t, n, v) ==
    /\ cell' = z.cell /\ caches' = z.caches /\ crashed' = z.crashed
    /\ z \in States /\ Present(z.cell) /\ MethodsCached(z.caches)
    /\ \A u \in Type, x \in Name :
          /\ c[u][x].dependents = cell[u][x].dependents
          /\ c[u][x].value = IF u = t /\ x = n THEN v ELSE cell[u][x].value
    /\ Fewer(c, caches, z)
    /\ ~z.crashed => \A f \in Fun : Cleared(z, f, t, n)

LEMMA SetAttributeRun ==
    ASSUME TInv, NEW a \in program.assigns, SetAttribute(a[1], a[2], a[3])
    PROVE  \E c, z : SetRun(c, z, a[1], a[2], a[3])
  <1> DEFINE t == a[1]
             n == a[2]
             v == a[3]
             c == [cell EXCEPT ![t][n].value = v]
             st == InvalidateAttr(c, t, n)
  <1>1. /\ program \in Programs /\ cell \in Cells /\ CachesOK(caches)
        /\ SingleInheritance /\ MethodProgram(program) /\ Present(cell) /\ MethodsCached(caches)
        /\ ~crashed => AllTracked(cell, caches)
    BY DEF TInv, IInv
  <1>2. t \in Type /\ n \in Name /\ v \in Value
    BY <1>1, ConstantsOK
  <1>3. ~crashed /\ cell' = st.cell /\ caches' = st.caches /\ crashed' = st.crashed
    BY DEF SetAttribute, MayUpdate
  <1> HIDE DEF t, n, v
  <1>4. /\ c \in Cells
        /\ \A u \in Type, x \in Name :
              /\ c[u][x].dependents = cell[u][x].dependents
              /\ c[u][x].value = IF u = t /\ x = n THEN v ELSE cell[u][x].value
    BY <1>1, <1>2, ValueSet
  <1> HIDE DEF c
  <1>5. Present(c)
    <2>1. v # Absent
      BY <1>2, ConstantsOK
    <2> SUFFICES ASSUME NEW u \in Type, NEW x \in Name, NEW g \in Fun, Linked(c, g, u, x)
                 PROVE  c[u][x].value # Absent
      BY DEF Present
    <2>2. Linked(cell, g, u, x)
      BY <1>4 DEF Linked
    <2>3. cell[u][x].value # Absent
      BY <1>1, <2>2 DEF Present
    <2> QED
      BY <1>4, <2>1, <2>3
  <1>6. \A g : KeepsLinks(cell, c, g)
    BY <1>2, <1>4 DEF KeepsLinks, Linked
  <1>7. AllTracked(c, caches)
    <2> SUFFICES ASSUME NEW g \in Fun, NEW i \in DOMAIN Code[g], NEW j \in DOMAIN caches[g][i],
                        caches[g][i][j] # Empty
                 PROVE  TrackedEntry(c, g, i, caches[g][i][j])
      BY DEF AllTracked
    <2> DEFINE e == caches[g][i][j]
    <2>1. e.key \in Code[g][i].keys
      BY <1>1, FilledEntry
    <2>2. TrackedEntry(cell, g, i, e)
      BY <1>1, <1>3 DEF AllTracked
    <2> HIDE DEF e
    <2>3. TrackedEntry(c, g, i, e)
      BY <1>1, <1>6, <2>1, <2>2, EntryKept
    <2> QED
      BY <2>3 DEF e
  <1>8. st \in States
    BY <1>1, <1>2, <1>4, InvalidateAttrOf
  <1>9. Fewer(c, caches, st) /\ (~st.crashed => \A f \in Fun : Cleared(st, f, t, n))
    BY <1>1, <1>2, <1>4, <1>5, <1>7, InvalidateClears
  <1> HIDE DEF st
  <1>10. Present(st.cell) /\ MethodsCached(st.caches)
    BY <1>1, <1>5, <1>9, FewerMethods
  <1>11. SetRun(c, st, t, n, v)
    BY <1>3, <1>4, <1>8, <1>9, <1>10 DEF SetRun
  <1> QED
    BY <1>11 DEF t, n, v

LEMMA SetAttributeTracked ==
    ASSUME TInv, NEW a \in program.assigns, SetAttribute(a[1], a[2], a[3])
    PROVE  TInv'
  <1>1. program' = program /\ calls' = calls
    BY DEF SetAttribute
  <1>2. IInv'
    BY SetAttributeInv DEF TInv
  <1>3. PICK c, z : SetRun(c, z, a[1], a[2], a[3])
    BY SetAttributeRun
  <1>4. Present(cell') /\ MethodsCached(caches')
    BY <1>3 DEF SetRun
  <1>5. ~crashed' => AllTracked(cell', caches')
    BY <1>3, ClearedTracked DEF SetRun
  <1> QED
    BY <1>1, <1>2, <1>4, <1>5, TrackedStep DEF TInv

\* The cell of n in t goes after its links were walked: no lookup that is left
\* reads it.
LEMMA CellGone ==
    ASSUME program \in Programs, NEW z \in States, Present(z.cell), NEW t \in Type, NEW n \in Name,
           \A f \in Fun : Cleared(z, f, t, n), NEW r,
           \A u \in Type, x \in Name : u # t \/ x # n => r[u][x] = z.cell[u][x]
    PROVE  AllTracked(r, z.caches)
  <1> SUFFICES ASSUME NEW g \in Fun, NEW i \in DOMAIN Code[g], NEW j \in DOMAIN z.caches[g][i],
                      z.caches[g][i][j] # Empty
               PROVE  TrackedEntry(r, g, i, z.caches[g][i][j])
    BY DEF AllTracked
  <1> DEFINE e == z.caches[g][i][j]
             reads == Reads(Code[g][i], e.key)
             c == z.cell
  <1>1. c \in Cells /\ CachesOK(z.caches)
    BY DEF States
  <1>2. e.key \in Code[g][i].keys
    BY <1>1, FilledEntry
  <1>3. \A k \in DOMAIN Code[g][i].names : reads[k][1] \in Type /\ reads[k][2] \in Name
    BY <1>2, ReadsTyped
  <1>4. TrackedEntry(c, g, i, e) /\ ~Shadows(c, g, i, e, t, n)
    BY DEF Cleared
  <1> SUFFICES ASSUME NEW k \in DOMAIN Code[g][i].names
               PROVE  Tracked(r, g, reads[k][1], reads[k][2])
    BY DEF TrackedEntry
  <1> DEFINE T == reads[k][1]
             x == reads[k][2]
  <1>5. /\ T \in Type /\ x \in Name /\ Tracked(c, g, T, x)
        /\ ~ (x = n /\ IsAffected(c, T, n, t))
    BY <1>3, <1>4 DEF TrackedEntry, Shadows
  <1> HIDE DEF T, x, reads, e
  <1>6. \A u \in Type, y \in Name : u # t \/ y # n => r[u][y] = c[u][y]
    OBVIOUS
  <1>7. Present(c)
    OBVIOUS
  <1> HIDE DEF c
  <1>8. /\ Mro[T] \in Seq(Type) /\ Len(Mro[T]) \in Nat /\ DOMAIN Mro[T] = 1..Len(Mro[T])
        /\ \A l \in DOMAIN Mro[T] : Mro[T][l] \in Type
    BY <1>5, MroOf, ConstantsOK
  <1>9. ASSUME x = n, NEW l \in DOMAIN Mro[T], Reached(c, T, n, l)
        PROVE  Mro[T][l] # t
    <2>1. IsAffected(c, T, n, Mro[T][l])
      BY <1>1, <1>5, <1>7, <1>9, TrackedPlaceholders
    <2> QED
      BY <1>5, <1>9, <2>1
  <1>10. ASSUME NEW l \in DOMAIN Mro[T], Reached(r, T, x, l)
         PROVE  Linked(r, g, Mro[T][l], x)
    <2>1. l \in 1..Len(Mro[T]) /\ \A h \in 1..(l - 1) : h \in DOMAIN Mro[T] /\ Mro[T][h] \in Type
      BY <1>8
    <2>2. CASE x # n
      <3>1. Reached(c, T, x, l)
        BY <1>5, <1>6, <1>10, <2>1, <2>2 DEF Reached
      <3>2. Linked(c, g, Mro[T][l], x)
        BY <1>5, <3>1 DEF Tracked
      <3> QED
        BY <1>5, <1>6, <1>8, <2>2, <3>2 DEF Linked
    <2>3. CASE x = n
      <3> DEFINE S == {h \in 1..(l - 1) : Mro[T][h] = t}
      <3>1. S = {}
        <4> SUFFICES ASSUME S # {} PROVE FALSE
          OBVIOUS
        <4>1. S \in SUBSET Nat
          OBVIOUS
        <4> HIDE DEF S
        <4>2. PICK h \in S : \A y \in S : h <= y
          BY <4>1, LeastNumber
        <4>3. h \in 1..(l - 1) /\ Mro[T][h] = t
          BY <4>2 DEF S
        <4>4. \A w \in 1..(h - 1) : w \in 1..(l - 1) /\ w \notin S
          BY <2>1, <4>1, <4>2, <4>3
        <4>5. \A w \in 1..(h - 1) : c[Mro[T][w]][n].value \notin Value
          <5> SUFFICES ASSUME NEW w \in 1..(h - 1) PROVE c[Mro[T][w]][n].value \notin Value
            OBVIOUS
          <5>1. w \in 1..(l - 1) /\ Mro[T][w] # t /\ Mro[T][w] \in Type
            BY <2>1, <4>4 DEF S
          <5> QED
            BY <1>6, <1>10, <2>3, <5>1 DEF Reached
        <4>6. Reached(c, T, n, h)
          BY <4>5 DEF Reached
        <4> QED
          BY <1>9, <2>1, <2>3, <4>3, <4>6
      <3>2. \A h \in 1..(l - 1) : Mro[T][h] # t
        BY <3>1
      <3>3. Reached(c, T, n, l)
        BY <1>6, <1>10, <2>1, <2>3, <3>2 DEF Reached
      <3>4. Mro[T][l] # t
        BY <1>9, <2>3, <3>3
      <3>5. Linked(c, g, Mro[T][l], x)
        BY <1>5, <2>3, <3>3 DEF Tracked
      <3> QED
        BY <1>5, <1>6, <1>8, <3>4, <3>5 DEF Linked
    <2> QED
      BY <2>2, <2>3
  <1> QED
    BY <1>10 DEF Tracked, T, x

LEMMA CellDeleted ==
    ASSUME NEW c \in Cells, NEW t \in Type, NEW n \in Name
    PROVE  LET r == [c EXCEPT ![t][n] = NoCell]
           IN  /\ r[t][n] = NoCell
               /\ \A u \in Type, x \in Name : u # t \/ x # n => r[u][x] = c[u][x]
  <1> DEFINE r == [c EXCEPT ![t][n] = NoCell]
  <1>1. c = [u \in Type |-> c[u]] /\ \A u \in Type : c[u] = [x \in Name |-> c[u][x]]
    BY DEF Cells
  <1>2. r[t] = [c[t] EXCEPT ![n] = NoCell] /\ \A u \in Type : u # t => r[u] = c[u]
    BY <1>1
  <1> HIDE DEF r
  <1>3. r[t][n] = NoCell /\ \A x \in Name : x # n => r[t][x] = c[t][x]
    BY <1>1, <1>2
  <1>4. \A u \in Type, x \in Name : u # t \/ x # n => r[u][x] = c[u][x]
    BY <1>2, <1>3
  <1> QED
    BY <1>3, <1>4 DEF r

\* A deletion walked the links of the cell, and then removed it.
DeleteRun(z, t, n) ==
    /\ caches' = z.caches /\ crashed' = z.crashed
    /\ z \in States /\ Present(z.cell) /\ MethodsCached(z.caches)
    /\ cell'[t][n] = NoCell
    /\ \A u \in Type, x \in Name : u # t \/ x # n => cell'[u][x] = z.cell[u][x]
    /\ Fewer(cell, caches, z)
    /\ ~z.crashed => \A f \in Fun : Cleared(z, f, t, n)

LEMMA DeleteAttributeRun ==
    ASSUME TInv, NEW d \in program.deletes, DeleteAttribute(d[1], d[2])
    PROVE  \E z : DeleteRun(z, d[1], d[2])
  <1> DEFINE t == d[1]
             n == d[2]
             st == InvalidateAttr(cell, t, n)
             r == [st.cell EXCEPT ![t][n] = NoCell]
  <1>1. /\ program \in Programs /\ cell \in Cells /\ CachesOK(caches)
        /\ SingleInheritance /\ MethodProgram(program) /\ Present(cell) /\ MethodsCached(caches)
        /\ ~crashed => AllTracked(cell, caches)
    BY DEF TInv, IInv
  <1>2. t \in Type /\ n \in Name
    BY <1>1, ConstantsOK
  <1>3. ~crashed /\ cell' = r /\ caches' = st.caches /\ crashed' = st.crashed
    BY DEF DeleteAttribute, MayUpdate
  <1> HIDE DEF t, n
  <1>4. st \in States
    BY <1>1, <1>2, InvalidateAttrOf
  <1>5. Fewer(cell, caches, st) /\ (~st.crashed => \A f \in Fun : Cleared(st, f, t, n))
    BY <1>1, <1>2, <1>3, InvalidateClears
  <1> HIDE DEF st
  <1>6. Present(st.cell) /\ MethodsCached(st.caches)
    BY <1>1, <1>5, FewerMethods
  <1>7. r[t][n] = NoCell /\ \A u \in Type, x \in Name : u # t \/ x # n => r[u][x] = st.cell[u][x]
    <2>1. st.cell \in Cells
      BY <1>4, StateOf
    <2> QED
      BY <1>2, <2>1, CellDeleted
  <1> HIDE DEF r
  <1>8. DeleteRun(st, t, n)
    BY <1>3, <1>4, <1>5, <1>6, <1>7 DEF DeleteRun
  <1> QED
    BY <1>8 DEF t, n

LEMMA DeleteAttributeTracked ==
    ASSUME TInv, NEW d \in program.deletes, DeleteAttribute(d[1], d[2])
    PROVE  TInv'
  <1> DEFINE t == d[1]
             n == d[2]
  <1>1. /\ program \in Programs /\ t \in Type /\ n \in Name
    BY ConstantsOK DEF TInv, IInv
  <1>2. program' = program /\ calls' = calls
    BY DEF DeleteAttribute
  <1>3. IInv'
    BY DeleteAttributeInv DEF TInv
  <1>4. PICK z : DeleteRun(z, t, n)
    BY DeleteAttributeRun
  <1> HIDE DEF t, n
  <1>5. /\ cell'[t][n] = NoCell
        /\ \A u \in Type, x \in Name : u # t \/ x # n => cell'[u][x] = z.cell[u][x]
        /\ caches' = z.caches /\ crashed' = z.crashed
        /\ z \in States /\ Present(z.cell) /\ MethodsCached(z.caches)
        /\ (~z.crashed => \A f \in Fun : Cleared(z, f, t, n))
    BY <1>4 DEF DeleteRun
  <1>6. Present(cell')
    <2> SUFFICES ASSUME NEW u \in Type, NEW x \in Name, NEW g \in Fun, Linked(cell', g, u, x)
                 PROVE  cell'[u][x].value # Absent
      BY DEF Present
    <2>1. u # t \/ x # n
      BY <1>5 DEF Linked, HasLink, NoCell
    <2>2. cell'[u][x] = z.cell[u][x]
      BY <1>5, <2>1
    <2> QED
      BY <1>5, <2>2 DEF Present, Linked
  <1>7. ~crashed' => AllTracked(cell', caches')
    BY <1>1, <1>5, CellGone
  <1>8. MethodsCached(caches')
    BY <1>5
  <1> QED
    BY <1>2, <1>3, <1>6, <1>7, <1>8, TrackedStep DEF TInv

LEMMA CollectFunctionTracked ==
    ASSUME TInv, NEW f \in Fun, CollectFunction(f)
    PROVE  TInv'
  <1> DEFINE links(t, n) == cell[t][n].dependents
             left(t, n) == [k \in DOMAIN links(t, n) |->
                              IF links(t, n)[k] = f THEN None ELSE links(t, n)[k]]
             none == [i \in DOMAIN Code[f] |-> <<>>]
             c == [t \in Type |-> [n \in Name |-> [cell[t][n] EXCEPT !.dependents = left(t, n)]]]
  <1>1. /\ program \in Programs /\ cell \in Cells /\ CachesOK(caches)
        /\ SingleInheritance /\ MethodProgram(program) /\ Present(cell) /\ MethodsCached(caches)
        /\ \A k \in DOMAIN calls : calls[k].target.kind \notin InstanceKinds
        /\ ~crashed => AllTracked(cell, caches)
    BY DEF TInv, IInv
  <1>2. /\ program' = program /\ calls' = calls /\ crashed' = crashed /\ ~crashed
        /\ cell' = c /\ caches' = [caches EXCEPT ![f] = none]
    BY DEF CollectFunction
  <1>3. IInv'
    BY CollectFunctionInv DEF TInv
  <1>4. ASSUME NEW u \in Type, NEW x \in Name
        PROVE  /\ c[u][x].value = cell[u][x].value
               /\ \A g \in Fun : Linked(c, g, u, x) <=> g # f /\ Linked(cell, g, u, x)
    <2>1. cell[u][x] \in Cell
      BY <1>1, CellOf
    <2> HIDE DEF left
    <2>2. c[u][x].value = cell[u][x].value /\ c[u][x].dependents = left(u, x)
      BY <2>1 DEF Cell
    <2> HIDE DEF c
    <2>3. \A g \in Fun : HasLink(left(u, x), g) <=> g # f /\ HasLink(links(u, x), g)
      BY ConstantsOK DEF HasLink, left
    <2> QED
      BY <2>2, <2>3 DEF Linked
  <1> HIDE DEF c
  <1>5. Present(c)
    BY <1>1, <1>4 DEF Present
  <1>6. \A g \in Fun \ {f} : KeepsLinks(cell, c, g)
    BY <1>4 DEF KeepsLinks
  <1>7. /\ caches'[f] = none
        /\ \A g \in Fun : g # f => caches'[g] = caches[g]
    <2>1. caches \in [Fun -> Seq(Seq(Entry))]
      BY <1>1 DEF CachesOK
    <2> HIDE DEF none
    <2> QED
      BY <1>2, <2>1
  <1>8. \A i \in DOMAIN Code[f] : caches'[f][i] = <<>>
    BY <1>7
  <1> HIDE DEF none
  <1>9. MethodsCached(caches')
    <2> SUFFICES ASSUME NEW g \in Fun, NEW i \in DOMAIN Code[g], NEW j \in DOMAIN caches'[g][i]
                 PROVE  caches'[g][i][j].kind \notin InstanceKinds
      BY DEF MethodsCached
    <2>1. g # f
      BY <1>8
    <2> QED
      BY <1>1, <1>7, <2>1 DEF MethodsCached
  <1>10. AllTracked(c, caches')
    <2> SUFFICES ASSUME NEW g \in Fun, NEW i \in DOMAIN Code[g], NEW j \in DOMAIN caches'[g][i],
                        caches'[g][i][j] # Empty
                 PROVE  TrackedEntry(c, g, i, caches'[g][i][j])
      BY DEF AllTracked
    <2> DEFINE e == caches[g][i][j]
    <2>1. g # f
      BY <1>8
    <2>2. caches'[g][i][j] = e /\ j \in DOMAIN caches[g][i]
      BY <1>7, <2>1
    <2>3. e.key \in Code[g][i].keys
      BY <1>1, <2>2, FilledEntry
    <2>4. TrackedEntry(cell, g, i, e)
      BY <1>1, <1>2, <2>2 DEF AllTracked
    <2> HIDE DEF e
    <2>5. TrackedEntry(c, g, i, e)
      BY <1>1, <1>6, <2>1, <2>3, <2>4, EntryKept
    <2> QED
      BY <2>2, <2>5
  <1> QED
    BY <1>1, <1>2, <1>3, <1>5, <1>9, <1>10, TrackedStep

LEMMA NextTracked ==
    ASSUME TInv, [Next]_vars
    PROVE  TInv'
  <1>1. ASSUME NEW f \in Fun, NEW i \in DOMAIN Code[f], NEW key \in Code[f][i].keys,
               Load(f, i, key)
        PROVE  TInv'
    BY <1>1, LoadTracked
  <1>2. ASSUME NEW raises \in BOOLEAN, Return(raises)
        PROVE  TInv'
    BY <1>2, ReturnTracked
  <1>3. ASSUME NEW a \in program.assigns, SetAttribute(a[1], a[2], a[3])
        PROVE  TInv'
    BY <1>3, SetAttributeTracked
  <1>4. ASSUME NEW d \in program.deletes, DeleteAttribute(d[1], d[2])
        PROVE  TInv'
    BY <1>4, DeleteAttributeTracked
  <1>5. ASSUME NEW f \in program.drops, CollectFunction(f)
        PROVE  TInv'
    <2>1. f \in Fun
      BY ConstantsOK DEF TInv, IInv
    <2> QED
      BY <1>5, <2>1, CollectFunctionTracked
  <1>6. CASE UNCHANGED vars
    <2>1. IInv'
      BY <1>6, NextInv DEF TInv
    <2>2. /\ program' = program /\ cell' = cell /\ caches' = caches /\ calls' = calls
          /\ crashed' = crashed
      BY <1>6 DEF vars
    <2> QED
      BY <2>1, <2>2, TrackedStep DEF TInv
  <1>7. CASE Crashed
    BY <1>6, <1>7 DEF Crashed
  <1> QED
    BY <1>1, <1>2, <1>3, <1>4, <1>5, <1>6, <1>7 DEF Next

\* The classes that the property lists are those that the lookup reads.
LEMMA DefiningReached ==
    ASSUME NEW t \in Type, NEW n,
           NEW k \in 1..(IF DefiningIndex(t, n) = 0 THEN Len(Mro[t]) ELSE DefiningIndex(t, n))
    PROVE  k \in DOMAIN Mro[t] /\ Reached(cell, t, n, k)
  <1> DEFINE I == {j \in 1..Len(Mro[t]) : cell[Mro[t][j]][n].value \in Value}
             d == DefiningIndex(t, n)
  <1>1. d = IF I # {} THEN Min(I) ELSE 0
    BY DEF DefiningIndex, SelectInSeq
  <1>2. Len(Mro[t]) \in Nat /\ DOMAIN Mro[t] = 1..Len(Mro[t])
    BY MroOf
  <1>3. /\ I \in SUBSET Nat
        /\ \A j : j \in I <=> j \in 1..Len(Mro[t]) /\ cell[Mro[t][j]][n].value \in Value
    OBVIOUS
  <1>4. k \in 1..(IF d = 0 THEN Len(Mro[t]) ELSE d)
    OBVIOUS
  <1> HIDE DEF I, d
  <1>5. \/ I = {} /\ d = 0
        \/ I # {} /\ d \in I /\ \A y \in I : d <= y
    BY <1>1, <1>3, FirstIn
  <1>6. k \in 1..Len(Mro[t]) /\ \A j \in 1..(k - 1) : j \in 1..Len(Mro[t]) /\ j \notin I
    <2>1. CASE I = {}
      BY <1>2, <1>4, <1>5, <2>1
    <2>2. CASE I # {}
      <3>1. d \in 1..Len(Mro[t]) /\ d # 0 /\ \A y \in I : d <= y
        BY <1>2, <1>3, <1>5, <2>2
      <3>2. k \in 1..d
        BY <1>4, <3>1
      <3>3. \A j \in 1..(k - 1) : j \in 1..Len(Mro[t]) /\ ~ (d <= j)
        BY <1>2, <3>1, <3>2
      <3> QED
        BY <1>2, <3>1, <3>2, <3>3
    <2> QED
      BY <2>1, <2>2
  <1> QED
    BY <1>2, <1>3, <1>6 DEF Reached

LEMMA TrackedDependents ==
    TInv => DependentsTracked
  <1> SUFFICES ASSUME TInv, ~crashed, NEW f \in live, NEW i \in DOMAIN Code[f], NEW e \in Entries(f, i),
                      NEW read \in Range(Reads(Code[f][i], e.key)),
                      NEW k \in 1..(IF DefiningIndex(read[1], read[2]) = 0 THEN Len(Mro[read[1]])
                                    ELSE DefiningIndex(read[1], read[2]))
               PROVE  f \in Range(cell[Mro[read[1]][k]][read[2]].dependents)
    BY DEF DependentsTracked
  <1> DEFINE reads == Reads(Code[f][i], e.key)
  <1>1. /\ program \in Programs /\ CachesOK(caches) /\ f \in Fun /\ AllTracked(cell, caches)
    BY DEF TInv, IInv
  <1>2. PICK j \in DOMAIN caches[f][i] : e = caches[f][i][j] /\ e # Empty
    BY DEF Entries, Range
  <1>3. e.key \in Code[f][i].keys /\ TrackedEntry(cell, f, i, e)
    BY <1>1, <1>2, FilledEntry DEF AllTracked
  <1>4. /\ DOMAIN reads = DOMAIN Code[f][i].names
        /\ \A r \in DOMAIN reads : reads[r][1] \in Type /\ reads[r][2] \in Name
    BY <1>1, <1>3, ReadsTyped
  <1>5. PICK r \in DOMAIN reads : read = reads[r]
    BY DEF Range
  <1> DEFINE t == read[1]
             n == read[2]
  <1>6. t \in Type /\ n \in Name /\ Tracked(cell, f, t, n)
    BY <1>3, <1>4, <1>5 DEF TrackedEntry
  <1>7. k \in 1..(IF DefiningIndex(t, n) = 0 THEN Len(Mro[t]) ELSE DefiningIndex(t, n))
    OBVIOUS
  <1> HIDE DEF t, n, reads
  <1>8. k \in DOMAIN Mro[t] /\ Reached(cell, t, n, k)
    BY <1>6, <1>7, DefiningReached
  <1>9. Linked(cell, f, Mro[t][k], n)
    BY <1>6, <1>8 DEF Tracked
  <1>10. f \in Range(cell[Mro[t][k]][n].dependents)
    BY <1>9 DEF Linked, HasLink, Range
  <1> QED
    BY <1>10 DEF t, n

\* Without multiple inheritance, and for opcodes that cache methods only, a function
\* with an entry is linked to every cell that its lookup read.  icEvictCache removes
\* the links of an evicted entry: those up to the class that was updated, and with
\* icDeleteDependentToDefiningType those of the other lookups up to the first class
\* that another entry needs.  With one base per class, the classes below the updated
\* one that an entry which stays reads are not those of the evicted entry.
THEOREM MethodDependentsTracked ==
    SingleInheritance /\ MethodProgram(program) /\ Spec => []DependentsTracked
  <1>1. SingleInheritance /\ MethodProgram(program) /\ Init => TInv
    BY InitTracked
  <1>2. TInv /\ [Next]_vars => TInv'
    BY NextTracked
  <1>3. TInv => DependentsTracked
    BY TrackedDependents
  <1> QED
    BY <1>1, <1>2, <1>3, PTL DEF Spec

-----------------------------------------------------------------------------
(* Lookups that a step leaves alone.                                        *)

\* The lookup of x from t comes to the same end in the next state.
SameLookup(t, x) ==
    \A k \in DOMAIN Mro[t] :
        Reached(cell', t, x, k) =>
            \/ cell'[Mro[t][k]][x].value = cell[Mro[t][k]][x].value
            \/ cell'[Mro[t][k]][x].value \notin Value /\ cell[Mro[t][k]][x].value \notin Value

LEMMA LookupUnread ==
    ASSUME NEW t \in Type, NEW x, SameLookup(t, x)
    PROVE  typeLookupInMro(t, x)' = typeLookupInMro(t, x)
  <1> DEFINE I == {j \in 1..Len(Mro[t]) : cell[Mro[t][j]][x].value \in Value}
             J == {j \in 1..Len(Mro[t]) : cell'[Mro[t][j]][x].value \in Value}
             d == IF I # {} THEN Min(I) ELSE 0
             h == IF J # {} THEN Min(J) ELSE 0
  <1>1. DefiningIndex(t, x) = d
    BY DEF DefiningIndex, SelectInSeq
  <1>2. DefiningIndex(t, x)' = h
    BY DEF DefiningIndex, SelectInSeq
  <1>3. /\ typeLookupInMro(t, x) = IF d = 0 THEN None ELSE cell[Mro[t][d]][x].value
        /\ typeLookupInMro(t, x)' = IF h = 0 THEN None ELSE cell'[Mro[t][h]][x].value
    BY <1>1, <1>2 DEF typeLookupInMro
  <1>4. Len(Mro[t]) \in Nat /\ DOMAIN Mro[t] = 1..Len(Mro[t])
    BY MroOf
  <1>5. /\ I \in SUBSET Nat /\ J \in SUBSET Nat
        /\ \A j : j \in I <=> j \in 1..Len(Mro[t]) /\ cell[Mro[t][j]][x].value \in Value
        /\ \A j : j \in J <=> j \in 1..Len(Mro[t]) /\ cell'[Mro[t][j]][x].value \in Value
    OBVIOUS
  <1> HIDE DEF I, J
  <1>6. \/ I = {} /\ d = 0
        \/ I # {} /\ d \in I /\ \A y \in I : d <= y
    BY <1>5, FirstIn
  <1>7. \/ J = {} /\ h = 0
        \/ J # {} /\ h \in J /\ \A y \in J : h <= y
    BY <1>5, FirstIn
  <1> HIDE DEF d, h
  <1>8. ASSUME NEW k \in 1..Len(Mro[t]), \A j \in 1..(k - 1) : j \notin J
        PROVE  /\ k \in I <=> k \in J
               /\ k \in J => cell'[Mro[t][k]][x].value = cell[Mro[t][k]][x].value
    <2>1. \A j \in 1..(k - 1) : j \in 1..Len(Mro[t])
      BY <1>4
    <2>2. Reached(cell', t, x, k)
      BY <1>5, <1>8, <2>1 DEF Reached
    <2> QED
      BY <1>4, <1>5, <2>2 DEF SameLookup
  <1>9. CASE J = {}
    <2>1. I = {}
      BY <1>5, <1>8, <1>9
    <2> QED
      BY <1>3, <1>6, <1>7, <1>9, <2>1
  <1>10. CASE J # {}
    <2>1. h \in J /\ h \in 1..Len(Mro[t]) /\ \A y \in J : h <= y
      BY <1>5, <1>7, <1>10
    <2>2. \A j \in 1..(h - 1) : j \in 1..Len(Mro[t]) /\ \A l \in 1..j : l \notin J
      <3> SUFFICES ASSUME NEW j \in 1..(h - 1)
                   PROVE  j \in 1..Len(Mro[t]) /\ \A l \in 1..j : l \notin J
        OBVIOUS
      <3>1. \A l \in 1..j : ~ (h <= l)
        BY <1>4, <2>1
      <3>2. j \in 1..Len(Mro[t])
        BY <1>4, <2>1
      <3> QED
        BY <2>1, <3>1, <3>2
    <2>3. \A j \in 1..(h - 1) : j \notin J
      <3> SUFFICES ASSUME NEW j \in 1..(h - 1) PROVE j \notin J
        OBVIOUS
      <3>1. j \in 1..j
        BY <2>2
      <3> QED
        BY <2>2, <3>1
    <2>4. h \in I /\ cell'[Mro[t][h]][x].value = cell[Mro[t][h]][x].value
      BY <1>8, <2>1, <2>3
    <2>5. \A j \in 1..(h - 1) : j \notin I
      <3> SUFFICES ASSUME NEW j \in 1..(h - 1) PROVE j \notin I
        OBVIOUS
      <3>1. \A l \in 1..(j - 1) : l \in 1..j
        OBVIOUS
      <3>2. j \in 1..Len(Mro[t]) /\ \A l \in 1..(j - 1) : l \notin J
        BY <2>2, <3>1
      <3> QED
        BY <1>8, <2>3, <3>2
    <2>6. d = h
      <3>1. d \in I /\ d <= h /\ d \in 1..Len(Mro[t])
        BY <1>5, <1>6, <2>4
      <3>2. ~ (d \in 1..(h - 1))
        BY <2>5, <3>1
      <3> QED
        BY <1>4, <2>1, <3>1, <3>2
    <2>7. h # 0
      BY <2>1
    <2> QED
      BY <1>3, <2>4, <2>6, <2>7
  <1> QED
    BY <1>9, <1>10

\* The lookups behind an opcode for key come to the same end in the next state.
SameReads(op, key) ==
    /\ \A k \in DOMAIN op.names :
          LET read == Reads(op, key)[k]
          IN  typeLookupInMro(read[1], read[2])' = typeLookupInMro(read[1], read[2])
    /\ op.op \in {"BINARY_OP", "INPLACE_OP"} =>
          \/ typeLookupInMro(key[1].type, Last(op.names))' = typeLookupInMro(key[1].type, Last(op.names))
          \/ typeLookupInMro(key[2].type, Last(op.names)) = None

\* How many selectors and operands an opcode has.
OpcodeShape(op, key) ==
    /\ op.names \in Seq(Name) /\ op.op \in MethodOpcodes
    /\ op.op = "INPLACE_OP" => Len(op.names) = 3
    /\ op.op \in {"BINARY_OP", "COMPARE_OP"} => Len(op.names) = 2
    /\ op.op \in Operators => Len(key) = 2
    /\ op.op \notin Operators => Len(op.names) = 1 /\ Len(key) = 1

LEMMA ShapeOf ==
    ASSUME program \in Programs, MethodProgram(program), NEW f \in Fun, NEW i \in DOMAIN Code[f],
           NEW key \in Code[f][i].keys
    PROVE  OpcodeShape(Code[f][i], key)
  <1> DEFINE op == Code[f][i]
             n == Len(op.names)
  <1>1. op \in Opcode /\ op.op \in MethodOpcodes
    BY EntriesTyped DEF MethodProgram, Code
  <1>2. n = CASE op.op = "INPLACE_OP" -> 3
              [] op.op \in Operators \ {"INPLACE_OP"} -> 2
              [] OTHER -> 1
    BY ConstantsOK DEF Code
  <1>3. Len(key) = IF op.op \in Operators THEN 2 ELSE 1
    BY ConstantsOK DEF Code
  <1> HIDE DEF op, n
  <1>4. op.op = "INPLACE_OP" => n = 3
    BY <1>2
  <1>5. op.op \in {"BINARY_OP", "COMPARE_OP"} => n = 2
    <2> SUFFICES ASSUME op.op \in {"BINARY_OP", "COMPARE_OP"} PROVE n = 2
      OBVIOUS
    <2>1. op.op \in Operators \ {"INPLACE_OP"} /\ op.op # "INPLACE_OP"
      BY DEF Operators
    <2> QED
      BY <1>2, <2>1
  <1>6. op.op \notin Operators => n = 1
    <2> SUFFICES ASSUME op.op \notin Operators PROVE n = 1
      OBVIOUS
    <2>1. op.op \notin Operators \ {"INPLACE_OP"} /\ op.op # "INPLACE_OP"
      BY DEF Operators
    <2> QED
      BY <1>2, <2>1
  <1>7. op.names \in Seq(Name)
    BY <1>1 DEF Opcode
  <1> QED
    BY <1>1, <1>3, <1>4, <1>5, <1>6, <1>7 DEF OpcodeShape, op, n

LEMMA OperandsTyped ==
    ASSUME program \in Programs, MethodProgram(program), NEW f \in Fun, NEW i \in DOMAIN Code[f],
           NEW key \in Code[f][i].keys, NEW op, op = Code[f][i], op.op \in Operators
    PROVE  key[1].type \in Type /\ key[2].type \in Type /\ Last(op.names) \in Name
  <1>1. OpcodeShape(op, key)
    BY ShapeOf
  <1>2. key \in Seq(Layout)
    BY EntriesTyped
  <1>3. Len(key) = 2 /\ op.names \in Seq(Name) /\ (Len(op.names) = 2 \/ Len(op.names) = 3)
    BY <1>1 DEF OpcodeShape, Operators
  <1> DEFINE names == op.names
             n == Len(names)
  <1>4. names \in Seq(Name) /\ (n = 2 \/ n = 3)
    BY <1>3
  <1>5. key[1] \in Layout /\ key[2] \in Layout
    <2>1. \A k \in 1..Len(key) : key[k] \in Layout
      BY <1>2
    <2>2. 1 \in 1..Len(key) /\ 2 \in 1..Len(key)
      BY <1>3
    <2> QED
      BY <2>1, <2>2
  <1> HIDE DEF names
  <1>6. \A k \in 1..n : names[k] \in Name
    BY <1>4
  <1> HIDE DEF n
  <1>7. n \in 1..n
    BY <1>4
  <1>8. names[n] \in Name
    BY <1>6, <1>7
  <1> QED
    BY <1>5, <1>8 DEF Layout, Last, names, n

LEMMA LookupSame ==
    ASSUME NEW op, NEW key, OpcodeShape(op, key), SameReads(op, key)
    PROVE  Lookup(op, key)' = Lookup(op, key)
  <1> DEFINE At(t, n) == typeLookupInMro(t, n)' = typeLookupInMro(t, n)
             m == Len(op.names)
  <1>1. m \in Nat /\ DOMAIN op.names = 1..m
    BY DEF OpcodeShape
  <1>2. \A k \in 1..m : At(IF k = m THEN Last(key).type ELSE key[1].type, op.names[k])
    BY <1>1 DEF SameReads, Reads
  <1>3. op.op \in {"BINARY_OP", "INPLACE_OP"} =>
           At(key[1].type, Last(op.names)) \/ typeLookupInMro(key[2].type, Last(op.names)) = None
    BY DEF SameReads
  <1>4. Last(key) = key[Len(key)] /\ Last(op.names) = op.names[m] /\ Head(op.names) = op.names[1]
    BY DEF Last
  <1> HIDE DEF m, At
  <1>5. ASSUME NEW left, NEW right, At(left.type, op.names[m - 1]), At(right.type, op.names[m]),
               op.op # "COMPARE_OP" =>
                  At(left.type, op.names[m]) \/ typeLookupInMro(right.type, op.names[m]) = None
        PROVE  OperatorMethod(op, left, right)' = OperatorMethod(op, left, right)
    <2>1. ReflectedMethod(op, left, right)' = ReflectedMethod(op, left, right)
      BY <1>4, <1>5 DEF ReflectedMethod, At
    <2>2. typeLookupInMro(left.type, op.names[Len(op.names) - 1])'
             = typeLookupInMro(left.type, op.names[Len(op.names) - 1])
      BY <1>5 DEF At, m
    <2> QED
      BY <2>1, <2>2 DEF OperatorMethod
  <1>6. CASE op.op \in {"BINARY_OP", "COMPARE_OP"}
    <2>1. m = 2 /\ Len(key) = 2
      BY <1>6 DEF OpcodeShape, Operators, m
    <2>2. At(key[1].type, op.names[1]) /\ At(key[2].type, op.names[2])
      BY <1>2, <1>4, <2>1
    <2>3. m - 1 = 1
      BY <2>1
    <2>4. OperatorMethod(op, key[1], key[2])' = OperatorMethod(op, key[1], key[2])
      BY <1>3, <1>4, <1>6, <1>5, <2>1, <2>2, <2>3
    <2> QED
      BY <1>6, <2>4 DEF Lookup, SpecialMethods
  <1>7. CASE op.op = "INPLACE_OP"
    <2>1. m = 3 /\ Len(key) = 2
      BY <1>7 DEF OpcodeShape, Operators, m
    <2>2. At(key[1].type, op.names[1]) /\ At(key[1].type, op.names[2]) /\ At(key[2].type, op.names[3])
      BY <1>2, <1>4, <2>1
    <2>3. m - 1 = 2
      BY <2>1
    <2>4. OperatorMethod(op, key[1], key[2])' = OperatorMethod(op, key[1], key[2])
      BY <1>3, <1>4, <1>7, <1>5, <2>1, <2>2, <2>3
    <2>5. typeLookupInMro(key[1].type, Head(op.names))' = typeLookupInMro(key[1].type, Head(op.names))
      BY <1>4, <2>2 DEF At
    <2>6. InplaceMethod(op, key[1], key[2])' = InplaceMethod(op, key[1], key[2])
      BY <2>4, <2>5 DEF InplaceMethod
    <2> QED
      BY <1>7, <2>6 DEF Lookup, SpecialMethods
  <1>8. CASE op.op \in {"BINARY_SUBSCR", "FOR_ITER", "LOAD_METHOD"}
    <2>1. m = 1 /\ Len(key) = 1
      BY <1>8 DEF OpcodeShape, Operators, m
    <2>2. At(key[1].type, op.names[1])
      BY <1>2, <1>4, <2>1
    <2> QED
      BY <1>8, <2>2 DEF Lookup, SpecialMethod, SpecialMethods, OnlyMethod, AttributeLocation, At
  <1> QED
    BY <1>6, <1>7, <1>8 DEF OpcodeShape, MethodOpcodes

\* A lookup whose reads all come to the same end finds the same.
LEMMA UnreadSame ==
    ASSUME program \in Programs, MethodProgram(program), NEW f \in Fun, NEW i \in DOMAIN Code[f],
           NEW key \in Code[f][i].keys, NEW op, op = Code[f][i],
           \A k \in DOMAIN op.names : SameLookup(Reads(op, key)[k][1], Reads(op, key)[k][2]),
           op.op \in {"BINARY_OP", "INPLACE_OP"} =>
              \/ SameLookup(key[1].type, Last(op.names))
              \/ typeLookupInMro(key[2].type, Last(op.names)) = None
    PROVE  Lookup(op, key)' = Lookup(op, key)
  <1>1. OpcodeShape(op, key)
    BY ShapeOf
  <1>2. \A k \in DOMAIN op.names : Reads(op, key)[k][1] \in Type
    <2>1. \A k \in DOMAIN Code[f][i].names : Reads(Code[f][i], key)[k][1] \in Type
      BY ReadsTyped
    <2> QED
      BY <2>1
  <1>3. op.op \in {"BINARY_OP", "INPLACE_OP"} => key[1].type \in Type
    BY OperandsTyped DEF Operators
  <1>4. ASSUME NEW k \in DOMAIN op.names
        PROVE  typeLookupInMro(Reads(op, key)[k][1], Reads(op, key)[k][2])'
                  = typeLookupInMro(Reads(op, key)[k][1], Reads(op, key)[k][2])
    <2> DEFINE t == Reads(op, key)[k][1]
               x == Reads(op, key)[k][2]
    <2>1. t \in Type /\ SameLookup(t, x)
      BY <1>2, <1>4
    <2> HIDE DEF t, x
    <2>2. typeLookupInMro(t, x)' = typeLookupInMro(t, x)
      BY <2>1, LookupUnread
    <2> QED
      BY <2>2 DEF t, x
  <1>5. op.op \in {"BINARY_OP", "INPLACE_OP"} =>
           \/ typeLookupInMro(key[1].type, Last(op.names))' = typeLookupInMro(key[1].type, Last(op.names))
           \/ typeLookupInMro(key[2].type, Last(op.names)) = None
    <2> DEFINE t == key[1].type
               x == Last(op.names)
    <2>1. op.op \in {"BINARY_OP", "INPLACE_OP"} =>
             t \in Type /\ (SameLookup(t, x) \/ typeLookupInMro(key[2].type, x) = None)
      BY <1>3
    <2> HIDE DEF t, x
    <2>2. op.op \in {"BINARY_OP", "INPLACE_OP"} =>
             typeLookupInMro(t, x)' = typeLookupInMro(t, x) \/ typeLookupInMro(key[2].type, x) = None
      BY <2>1, LookupUnread
    <2> QED
      BY <2>2 DEF t, x
  <1>6. SameReads(op, key)
    BY <1>4, <1>5 DEF SameReads
  <1> QED
    BY <1>1, <1>6, LookupSame

\* A step that gives and takes no class attribute changes no lookup.
SameAttributes(t, x) ==
    \/ cell'[t][x].value = cell[t][x].value
    \/ cell'[t][x].value \notin Value /\ cell[t][x].value \notin Value

LEMMA QuietStep ==
    ASSUME program \in Programs, MethodProgram(program),
           \A u \in Type, x \in Name : SameAttributes(u, x),
           NEW f \in Fun, NEW i \in DOMAIN Code[f], NEW key \in Code[f][i].keys,
           NEW op, op = Code[f][i]
    PROVE  Lookup(op, key)' = Lookup(op, key)
  <1>1. ASSUME NEW t \in Type, NEW x \in Name PROVE SameLookup(t, x)
    <2>1. \A k \in DOMAIN Mro[t] : Mro[t][k] \in Type
      BY MroOf
    <2> QED
      BY <2>1 DEF SameLookup, SameAttributes
  <1>2. \A k \in DOMAIN op.names : Reads(op, key)[k][1] \in Type /\ Reads(op, key)[k][2] \in Name
    <2>1. /\ DOMAIN Reads(Code[f][i], key) = DOMAIN Code[f][i].names
          /\ \A k \in DOMAIN Reads(Code[f][i], key) :
                Reads(Code[f][i], key)[k][1] \in Type /\ Reads(Code[f][i], key)[k][2] \in Name
      BY ReadsTyped
    <2> QED
      BY <2>1
  <1>3. op.op \in {"BINARY_OP", "INPLACE_OP"} => key[1].type \in Type /\ Last(op.names) \in Name
    BY OperandsTyped DEF Operators
  <1>4. \A k \in DOMAIN op.names : SameLookup(Reads(op, key)[k][1], Reads(op, key)[k][2])
    BY <1>1, <1>2
  <1>5. op.op \in {"BINARY_OP", "INPLACE_OP"} => SameLookup(key[1].type, Last(op.names))
    BY <1>1, <1>3
  <1> QED
    BY <1>4, <1>5, UnreadSame

LEMMA NoAttribute ==
    ASSUME NEW t \in Type, NEW x, \A l \in DOMAIN Mro[t] : cell[Mro[t][l]][x].value \notin Value
    PROVE  typeLookupInMro(t, x) = None
  <1> DEFINE I == {j \in 1..Len(Mro[t]) : cell[Mro[t][j]][x].value \in Value}
  <1>1. DefiningIndex(t, x) = IF I # {} THEN Min(I) ELSE 0
    BY DEF DefiningIndex, SelectInSeq
  <1>2. I = {}
    BY MroOf
  <1> QED
    BY <1>1, <1>2 DEF typeLookupInMro

\* No lookup of n behind an opcode for key reads class t.
ReadsAvoid(c, op, key, t, n) ==
    \A k \in DOMAIN op.names : \A l \in DOMAIN Mro[Reads(op, key)[k][1]] :
        Reads(op, key)[k][2] = n /\ Reached(c, Reads(op, key)[k][1], n, l)
            => Mro[Reads(op, key)[k][1]][l] # t

\* No class attribute changes but n in t.
OnlyChanges(t, n) == \A u \in Type, x \in Name : u # t \/ x # n => SameAttributes(u, x)

\* A step that changes n in t and nothing else leaves alone what does not read it.
LEMMA ChangeUnread ==
    ASSUME program \in Programs, MethodProgram(program), PlainProgram(program),
           Assigned(cell), Assigned(cell'), NEW t, NEW n,
           OnlyChanges(t, n), NEW f \in Fun, NEW i \in DOMAIN Code[f], NEW key \in Code[f][i].keys,
           NEW op, op = Code[f][i], ReadsAvoid(cell', op, key, t, n)
    PROVE  Lookup(op, key)' = Lookup(op, key)
  <1>1. \A k \in DOMAIN op.names : Reads(op, key)[k][1] \in Type /\ Reads(op, key)[k][2] \in Name
    <2>1. /\ DOMAIN Reads(Code[f][i], key) = DOMAIN Code[f][i].names
          /\ \A k \in DOMAIN Reads(Code[f][i], key) :
                Reads(Code[f][i], key)[k][1] \in Type /\ Reads(Code[f][i], key)[k][2] \in Name
      BY ReadsTyped
    <2> QED
      BY <2>1
  <1>2. ASSUME NEW k \in DOMAIN op.names
        PROVE  SameLookup(Reads(op, key)[k][1], Reads(op, key)[k][2])
    <2> DEFINE T == Reads(op, key)[k][1]
               x == Reads(op, key)[k][2]
    <2>1. /\ T \in Type /\ x \in Name
          /\ \A l \in DOMAIN Mro[T] : x = n /\ Reached(cell', T, n, l) => Mro[T][l] # t
      BY <1>1 DEF ReadsAvoid
    <2> HIDE DEF T, x
    <2>2. \A l \in DOMAIN Mro[T] : Mro[T][l] \in Type
      BY <2>1, MroOf
    <2>3. \A l \in DOMAIN Mro[T] : Reached(cell', T, x, l) => SameAttributes(Mro[T][l], x)
      BY <2>1, <2>2 DEF OnlyChanges
    <2>4. SameLookup(T, x)
      BY <2>3 DEF SameLookup, SameAttributes
    <2> QED
      BY <2>4 DEF T, x
  <1>3. ASSUME op.op \in {"BINARY_OP", "INPLACE_OP"}
        PROVE  \/ SameLookup(key[1].type, Last(op.names))
               \/ typeLookupInMro(key[2].type, Last(op.names)) = None
    <2> DEFINE T == key[1].type
               x == Last(op.names)
               m == Len(op.names)
               right == key[2].type
    <2>1. T \in Type /\ right \in Type /\ x \in Name
      BY <1>3, OperandsTyped DEF Operators
    <2>2. PlainOpcode(program, op)
      BY DEF PlainProgram, Code
    <2>3. \/ T = right
          \/ \A a \in program.assigns : ~ (a[1] \in Range(Mro[T]) /\ a[2] = x)
          \/ \A a \in program.assigns : ~ (a[1] \in Range(Mro[right]) /\ a[2] = x)
      BY <1>3, <2>2 DEF PlainOpcode
    <2>4. CASE T = right
      <3>1. OpcodeShape(op, key)
        BY ShapeOf
      <3>2. Len(key) = 2 /\ (m = 2 \/ m = 3) /\ DOMAIN op.names = 1..m
        BY <1>3, <3>1 DEF OpcodeShape, Operators
      <3>3. m \in DOMAIN op.names
        <4> HIDE DEF m
        <4> QED
          BY <3>2
      <3>4. Reads(op, key)[m] = <<T, x>>
        BY <2>4, <3>2, <3>3 DEF Reads, Last
      <3> HIDE DEF T, x, right
      <3> QED
        BY <1>2, <3>3, <3>4 DEF T, x
    <2>5. CASE \A a \in program.assigns : ~ (a[1] \in Range(Mro[T]) /\ a[2] = x)
      <3> HIDE DEF T, x
      <3>1. ASSUME NEW l \in DOMAIN Mro[T]
            PROVE  cell'[Mro[T][l]][x].value \notin Value /\ cell[Mro[T][l]][x].value \notin Value
        <4>1. Mro[T][l] \in Type /\ Mro[T][l] \in Range(Mro[T])
          BY <2>1, MroOf DEF Range
        <4> QED
          BY <2>1, <2>5, <4>1 DEF Assigned
      <3>2. SameLookup(T, x)
        BY <3>1 DEF SameLookup
      <3> QED
        BY <3>2 DEF T, x
    <2>6. CASE \A a \in program.assigns : ~ (a[1] \in Range(Mro[right]) /\ a[2] = x)
      <3> HIDE DEF right, x
      <3>1. ASSUME NEW l \in DOMAIN Mro[right] PROVE cell[Mro[right][l]][x].value \notin Value
        <4>1. Mro[right][l] \in Type /\ Mro[right][l] \in Range(Mro[right])
          BY <2>1, MroOf DEF Range
        <4> QED
          BY <2>1, <2>6, <4>1 DEF Assigned
      <3>2. typeLookupInMro(right, x) = None
        BY <2>1, <3>1, NoAttribute
      <3> QED
        BY <3>2 DEF right, x
    <2> QED
      BY <2>3, <2>4, <2>5, <2>6
  <1> QED
    BY <1>2, <1>3, UnreadSame

-----------------------------------------------------------------------------
(* The steps of the program keep the caches coherent.                       *)

LEMMA CoherentStep ==
    ASSUME TInv', program' = program, ~UpdatesInCalls, PlainProgram(program), Assigned(cell'),
           CallsCurrent', ~crashed' => AllCoherent'
    PROVE  CInv'
  <1>1. PlainProgram(program)'
    BY DEF PlainProgram, PlainOpcode
  <1>2. Assigned(cell)'
    BY DEF Assigned
  <1> QED
    BY <1>1, <1>2 DEF CInv

LEMMA InitCoherent ==
    ASSUME SingleInheritance, MethodProgram(program), PlainProgram(program), ~UpdatesInCalls, Init
    PROVE  CInv
  <1>1. /\ cell = [t \in Type |-> [n \in Name |-> NoCell]]
        /\ caches = [f \in Fun |-> [i \in DOMAIN Code[f] |-> <<>>]]
        /\ calls = <<>>
    BY DEF Init
  <1>2. Assigned(cell)
    BY <1>1, ConstantsOK DEF Assigned, NoCell
  <1>3. CallsCurrent /\ AllCoherent
    BY <1>1 DEF CallsCurrent, AllCoherent
  <1> QED
    BY <1>2, <1>3, InitTracked DEF CInv

\* The entries of the next state.
LEMMA NextEntries ==
    ASSUME IInv', program' = program, NEW f \in Fun, NEW i \in DOMAIN Code[f],
           NEW j \in DOMAIN caches'[f][i], NEW e, e = caches'[f][i][j], e # Empty
    PROVE  e.key \in Code[f][i].keys
  <1>1. program \in Programs /\ CachesOK(caches')
    BY DEF IInv, CachesOK, CacheAt, EntriesAt, Code
  <1>2. e \in [key : Code[f][i].keys, kind : Kinds, value : Value \cup {None}]
    BY <1>1, FilledEntry
  <1> QED
    BY <1>2

\* The next state is coherent if each of its entries is.
LEMMA AllCoherentFrom ==
    ASSUME program' = program,
           \A f \in Fun : \A i \in DOMAIN Code[f] : \A j \in DOMAIN caches'[f][i] : \A op, e :
              op = Code[f][i] /\ e = caches'[f][i][j] /\ e # Empty => Coherent(op, e)'
    PROVE  AllCoherent'
  <1> SUFFICES ASSUME NEW f \in Fun, NEW i \in DOMAIN Code[f], NEW j \in DOMAIN caches'[f][i],
                      caches'[f][i][j] # Empty
               PROVE  Coherent(Code[f][i], caches[f][i][j])'
    BY DEF AllCoherent, Code
  <1>1. PICK op : op = Code[f][i]
    OBVIOUS
  <1>2. PICK e : e = caches'[f][i][j]
    OBVIOUS
  <1>3. Coherent(op, e)'
    BY <1>1, <1>2
  <1>4. op = Code'[f][i]
    BY <1>1 DEF Code
  <1> QED
    BY <1>2, <1>3, <1>4

\* The caching of a result that a lookup finds leaves all lookups and the other
\* entries as they were.
LEMMA CacheResultCoherent ==
    ASSUME program \in Programs, program' = program, MethodProgram(program), cell \in Cells,
           NEW old, CachesOK(old), NEW f \in Fun, NEW i \in DOMAIN Code[f],
           NEW key \in Code[f][i].keys, NEW target, CacheResult(old, f, i, key, target)
    PROVE  /\ \A u \in Type, x \in Name : SameAttributes(u, x)
           /\ \A g \in Fun : \A k \in DOMAIN Code[g] : \A j \in DOMAIN caches'[g][k] :
                 caches'[g][k][j] # Empty =>
                    \/ g = f /\ k = i
                       /\ caches'[g][k][j] = [key |-> key, kind |-> target.kind, value |-> target.value]
                    \/ \E l \in DOMAIN old[g][k] : caches'[g][k][j] = old[g][k][l]
  <1> DEFINE e == [key |-> key, kind |-> target.kind, value |-> target.value]
             op == Code[f][i]
             new == UpdateCache(old[f][i], e)
  <1>1. \/ caches' = [old EXCEPT ![f][i] = new] /\ cell' = InsertDependencies(f, op, key)
        \/ caches' = old /\ cell' = cell
    BY DEF CacheResult
  <1>2. CASE caches' = old /\ cell' = cell
    BY <1>2 DEF SameAttributes
  <1>3. CASE caches' = [old EXCEPT ![f][i] = new] /\ cell' = InsertDependencies(f, op, key)
    <2>1. Inserted(cell, cell', f, Reads(op, key), Len(op.names))
      BY <1>3, InsertDependenciesLinks
    <2>2. \A u \in Type, x \in Name : SameAttributes(u, x)
      BY <2>1, ConstantsOK DEF Inserted, SameAttributes
    <2>3. CacheAt(f, i, old[f][i])
      BY DEF CachesOK
    <2>4. \A j \in DOMAIN new : \/ new[j] = e \/ new[j] = Empty
                                \/ \E k \in DOMAIN old[f][i] : new[j] = old[f][i][k]
      BY <2>3, UpdatedEntries
    <2> HIDE DEF e, new
    <2>5. /\ caches'[f][i] = new
          /\ \A g \in Fun : \A k \in DOMAIN Code[g] : g # f \/ k # i => caches'[g][k] = old[g][k]
      <3> DEFINE z == [old EXCEPT ![f][i] = new]
      <3>1. old \in [Fun -> Seq(Seq(Entry))] /\ DOMAIN old[f] = DOMAIN Code[f]
        BY DEF CachesOK
      <3>2. z = [old EXCEPT ![f] = [old[f] EXCEPT ![i] = new]]
        OBVIOUS
      <3>3. z[f] = [old[f] EXCEPT ![i] = new] /\ \A g \in Fun : g # f => z[g] = old[g]
        BY <3>1, <3>2
      <3>4. caches' = z
        BY <1>3
      <3> HIDE DEF z
      <3> QED
        BY <3>1, <3>3, <3>4
    <2>6. ASSUME NEW g \in Fun, NEW k \in DOMAIN Code[g], NEW j \in DOMAIN caches'[g][k],
                 caches'[g][k][j] # Empty
          PROVE  \/ g = f /\ k = i /\ caches'[g][k][j] = e
                 \/ \E l \in DOMAIN old[g][k] : caches'[g][k][j] = old[g][k][l]
      <3>1. CASE g = f /\ k = i
        BY <2>4, <2>5, <2>6, <3>1
      <3>2. CASE g # f \/ k # i
        BY <2>5, <3>2
      <3> QED
        BY <3>1, <3>2
    <2> QED
      BY <2>2, <2>6 DEF e
  <1> QED
    BY <1>1, <1>2, <1>3

\* The pending lookups are current, and the entries those of before or coherent.
Caught ==
    /\ \A k \in DOMAIN calls' : \A call : call = calls'[k] =>
          call.target = Lookup(Code[call.fun][call.opcode], call.key)
    /\ \A f \in Fun : \A i \in DOMAIN Code[f] : \A j \in DOMAIN caches'[f][i] : \A e :
          e = caches'[f][i][j] /\ e # Empty =>
              \/ Coherent(Code[f][i], e)
              \/ \E l \in DOMAIN caches[f][i] : e = caches[f][i][l]

\* A step that gives and takes no class attribute leaves coherent what is.
LEMMA QuietCoherent ==
    ASSUME CInv, TInv', program' = program, ~crashed' => ~crashed,
           \A u \in Type, x \in Name : SameAttributes(u, x), Caught
    PROVE  CInv'
  <1>1. /\ program \in Programs /\ MethodProgram(program) /\ PlainProgram(program)
        /\ ~UpdatesInCalls /\ Assigned(cell) /\ (~crashed => AllCoherent)
    BY DEF CInv, TInv, IInv
  <1>2. IInv'
    BY DEF TInv
  <1>3. Assigned(cell')
    BY <1>1 DEF Assigned, SameAttributes
  <1>4. CallsCurrent'
    <2> SUFFICES ASSUME NEW k \in DOMAIN calls'
                 PROVE  (calls[k].target = Lookup(Code[calls[k].fun][calls[k].opcode], calls[k].key))'
      BY DEF CallsCurrent
    <2>1. PICK call : call = calls'[k]
      OBVIOUS
    <2>2. /\ call.fun \in Fun /\ call.opcode \in DOMAIN Code[call.fun]
          /\ call.key \in Code[call.fun][call.opcode].keys
      <3>1. CallOK(calls[k])'
        BY <1>2 DEF IInv
      <3> QED
        BY <2>1, <3>1 DEF CallOK, Code
    <2>3. PICK op : op = Code[call.fun][call.opcode]
      OBVIOUS
    <2>4. Lookup(op, call.key)' = Lookup(op, call.key)
      BY <1>1, <2>2, <2>3, QuietStep
    <2>5. call.target = Lookup(Code[call.fun][call.opcode], call.key)
      BY <2>1 DEF Caught
    <2>6. call.target = Lookup(op, call.key)
      BY <2>3, <2>5
    <2>7. op = Code'[call.fun][call.opcode]
      BY <2>3 DEF Code
    <2>8. call.target = Lookup(op, call.key)'
      BY <2>4, <2>6
    <2> QED
      BY <2>1, <2>7, <2>8
  <1>5. ASSUME ~crashed' PROVE AllCoherent'
    <2> SUFFICES ASSUME NEW f \in Fun, NEW i \in DOMAIN Code[f], NEW j \in DOMAIN caches'[f][i],
                        NEW op, NEW e, op = Code[f][i], e = caches'[f][i][j], e # Empty
                 PROVE  Coherent(op, e)'
      BY AllCoherentFrom
    <2>1. e.key \in Code[f][i].keys
      BY <1>2, NextEntries
    <2>2. Lookup(op, e.key)' = Lookup(op, e.key)
      BY <1>1, <2>1, QuietStep
    <2>3. Coherent(Code[f][i], e)
      <3>1. CASE \E l \in DOMAIN caches[f][i] : e = caches[f][i][l]
        BY <1>1, <1>5, <3>1 DEF AllCoherent
      <3>2. CASE ~ \E l \in DOMAIN caches[f][i] : e = caches[f][i][l]
        BY <3>2 DEF Caught
      <3> QED
        BY <3>1, <3>2
    <2>4. Coherent(op, e)
      BY <2>3
    <2> QED
      BY <2>2, <2>4 DEF Coherent
  <1> QED
    BY <1>1, <1>3, <1>4, <1>5, CoherentStep

\* The entries that remain do not read n in t.
OnlyLeaves(t, n) ==
    \A f \in Fun : \A i \in DOMAIN Code[f] : \A j \in DOMAIN caches'[f][i] : \A e :
        e = caches'[f][i][j] /\ e # Empty =>
            /\ \E l \in DOMAIN caches[f][i] : e = caches[f][i][l]
            /\ ReadsAvoid(cell', Code[f][i], e.key, t, n)

\* An update of n in t leaves entries that do not read it coherent.
LEMMA ChangeCoherent ==
    ASSUME CInv, TInv', program' = program, ~crashed, calls = <<>>, calls' = calls,
           Assigned(cell'), NEW t, NEW n,
           OnlyChanges(t, n), ~crashed' => OnlyLeaves(t, n)
    PROVE  CInv'
  <1>1. /\ program \in Programs /\ MethodProgram(program) /\ PlainProgram(program)
        /\ ~UpdatesInCalls /\ Assigned(cell) /\ AllCoherent
    BY DEF CInv, TInv, IInv
  <1>2. IInv'
    BY DEF TInv
  <1>3. CallsCurrent'
    BY DEF CallsCurrent
  <1>4. ASSUME ~crashed' PROVE AllCoherent'
    <2> SUFFICES ASSUME NEW f \in Fun, NEW i \in DOMAIN Code[f], NEW j \in DOMAIN caches'[f][i],
                        NEW op, NEW e, op = Code[f][i], e = caches'[f][i][j], e # Empty
                 PROVE  Coherent(op, e)'
      BY AllCoherentFrom
    <2>1. e.key \in Code[f][i].keys
      BY <1>2, NextEntries
    <2>2. /\ \E l \in DOMAIN caches[f][i] : e = caches[f][i][l]
          /\ ReadsAvoid(cell', Code[f][i], e.key, t, n)
      BY <1>4 DEF OnlyLeaves
    <2>3. ReadsAvoid(cell', op, e.key, t, n)
      BY <2>2
    <2>4. Lookup(op, e.key)' = Lookup(op, e.key)
      BY <1>1, <2>1, <2>3, ChangeUnread
    <2>5. Coherent(Code[f][i], e)
      BY <1>1, <2>2 DEF AllCoherent
    <2>6. Coherent(op, e)
      BY <2>5
    <2> QED
      BY <2>4, <2>6 DEF Coherent
  <1> QED
    BY <1>1, <1>3, <1>4, CoherentStep

\* What is cached, or found before user code runs, is what a lookup finds.
LEMMA LoadCoherent ==
    ASSUME CInv, NEW f \in Fun, NEW i \in DOMAIN Code[f], NEW key \in Code[f][i].keys,
           Load(f, i, key)
    PROVE  CInv'
  <1> DEFINE target == Lookup(Code[f][i], key)
             retry == Len(caches[f][i]) = 1 /\ caches[f][i][1].kind \in MonomorphicKinds
             old == IF retry THEN [caches EXCEPT ![f][i] = <<>>] ELSE caches
             call == [fun |-> f, opcode |-> i, key |-> key, target |-> target]
             entry == [key |-> key, kind |-> target.kind, value |-> target.value]
  <1>1. /\ TInv /\ program \in Programs /\ MethodProgram(program) /\ cell \in Cells
        /\ CachesOK(caches) /\ calls \in Seq(CallRecord) /\ CallsCurrent
    BY DEF CInv, TInv, IInv
  <1>2. /\ program' = program /\ crashed' = crashed
        /\ \/ CacheResult(old, f, i, key, target) /\ calls' = calls
           \/ calls' = Append(calls, call) /\ caches' = old /\ cell' = cell
    BY DEF Load
  <1>3. TInv'
    BY <1>1, LoadTracked
  <1>4. /\ CachesOK(old)
        /\ \A g \in Fun : \A k \in DOMAIN Code[g] : \A j \in DOMAIN old[g][k] : old[g][k] = caches[g][k]
    BY <1>1, RetriedEntries
  <1>5. target \in Targets
    <2>1. Code[f][i] \in Opcode
      BY <1>1, EntriesTyped
    <2> QED
      BY <2>1, LookupOf
  <1> HIDE DEF old
  <1>6. CASE CacheResult(old, f, i, key, target) /\ calls' = calls
    <2> HIDE DEF target
    <2>1. /\ \A u \in Type, x \in Name : SameAttributes(u, x)
          /\ \A g \in Fun : \A k \in DOMAIN Code[g] : \A j \in DOMAIN caches'[g][k] :
                caches'[g][k][j] # Empty =>
                   \/ g = f /\ k = i /\ caches'[g][k][j] = entry
                   \/ \E l \in DOMAIN old[g][k] : caches'[g][k][j] = old[g][k][l]
      BY <1>1, <1>2, <1>4, <1>6, CacheResultCoherent
    <2>2. Coherent(Code[f][i], entry)
      BY DEF Coherent, target
    <2> HIDE DEF entry
    <2>3. \A g \in Fun : \A k \in DOMAIN Code[g] : \A j \in DOMAIN caches'[g][k] : \A e :
             e = caches'[g][k][j] /\ e # Empty =>
                 \/ Coherent(Code[g][k], e)
                 \/ \E l \in DOMAIN caches[g][k] : e = caches[g][k][l]
      BY <1>4, <2>1, <2>2
    <2>4. Caught
      BY <1>1, <1>6, <2>3 DEF Caught, CallsCurrent
    <2> QED
      BY <1>2, <1>3, <2>1, <2>4, QuietCoherent
  <1>7. CASE calls' = Append(calls, call) /\ caches' = old /\ cell' = cell
    <2>1. call.fun = f /\ call.opcode = i /\ call.key = key /\ call.target = Lookup(Code[f][i], key)
      OBVIOUS
    <2>2. call \in CallRecord
      <3>1. i \in Nat
        <4>1. Code[f] \in Seq(Opcode)
          BY <1>1, EntriesTyped
        <4> QED
          BY <4>1
      <3>2. key \in Seq(Layout)
        BY <1>1, EntriesTyped
      <3> HIDE DEF target
      <3> QED
        BY <1>5, <3>1, <3>2 DEF CallRecord
    <2> HIDE DEF call
    <2>3. \A k \in DOMAIN calls' : (k \in DOMAIN calls /\ calls'[k] = calls[k]) \/ calls'[k] = call
      BY <1>1, <1>7, <2>2, CallPushed
    <2>4. ASSUME NEW k \in DOMAIN calls', NEW c, c = calls'[k]
          PROVE  c.target = Lookup(Code[c.fun][c.opcode], c.key)
      BY <1>1, <2>1, <2>3, <2>4 DEF CallsCurrent
    <2>5. \A g \in Fun : \A k \in DOMAIN Code[g] : \A j \in DOMAIN caches'[g][k] : \A e :
             e = caches'[g][k][j] => \E l \in DOMAIN caches[g][k] : e = caches[g][k][l]
      BY <1>4, <1>7
    <2>6. Caught
      BY <2>4, <2>5 DEF Caught
    <2>7. \A u \in Type, x \in Name : SameAttributes(u, x)
      BY <1>7 DEF SameAttributes
    <2> QED
      BY <1>2, <1>3, <2>6, <2>7, QuietCoherent
  <1> QED
    BY <1>2, <1>6, <1>7

\* What was found before user code ran is what a lookup still finds.
LEMMA ReturnCoherent ==
    ASSUME CInv, NEW raises \in BOOLEAN, Return(raises)
    PROVE  CInv'
  <1> DEFINE call == Last(calls)
             entry == [key |-> call.key, kind |-> call.target.kind, value |-> call.target.value]
  <1>1. /\ TInv /\ program \in Programs /\ MethodProgram(program) /\ cell \in Cells
        /\ CachesOK(caches) /\ calls \in Seq(CallRecord) /\ CallsCurrent
        /\ \A k \in DOMAIN calls : CallOK(calls[k])
    BY DEF CInv, TInv, IInv
  <1>2. /\ program' = program /\ crashed' = crashed
        /\ calls # <<>> /\ calls' = Front(calls)
        /\ \/ CacheResult(caches, call.fun, call.opcode, call.key, call.target)
           \/ caches' = caches /\ cell' = cell
    BY DEF Return
  <1>3. TInv'
    BY <1>1, ReturnTracked
  <1>4. /\ \E k \in DOMAIN calls : call = calls[k]
        /\ \A k \in DOMAIN calls' : k \in DOMAIN calls /\ calls'[k] = calls[k]
    BY <1>1, <1>2, CallPopped
  <1> HIDE DEF call
  <1>5. CallOK(call) /\ call.target = Lookup(Code[call.fun][call.opcode], call.key)
    BY <1>1, <1>4 DEF CallsCurrent
  <1>6. \A k \in DOMAIN calls' : \A c : c = calls'[k] =>
           c.target = Lookup(Code[c.fun][c.opcode], c.key)
    BY <1>1, <1>4 DEF CallsCurrent
  <1>7. CASE CacheResult(caches, call.fun, call.opcode, call.key, call.target)
    <2>1. /\ call.fun \in Fun /\ call.opcode \in DOMAIN Code[call.fun]
          /\ call.key \in Code[call.fun][call.opcode].keys
      BY <1>5 DEF CallOK
    <2>2. /\ \A u \in Type, x \in Name : SameAttributes(u, x)
          /\ \A g \in Fun : \A k \in DOMAIN Code[g] : \A j \in DOMAIN caches'[g][k] :
                caches'[g][k][j] # Empty =>
                   \/ g = call.fun /\ k = call.opcode /\ caches'[g][k][j] = entry
                   \/ \E l \in DOMAIN caches[g][k] : caches'[g][k][j] = caches[g][k][l]
      BY <1>1, <1>2, <1>7, <2>1, CacheResultCoherent
    <2>3. Coherent(Code[call.fun][call.opcode], entry)
      BY <1>5 DEF Coherent
    <2> HIDE DEF entry
    <2>4. \A g \in Fun : \A k \in DOMAIN Code[g] : \A j \in DOMAIN caches'[g][k] : \A e :
             e = caches'[g][k][j] /\ e # Empty =>
                 \/ Coherent(Code[g][k], e)
                 \/ \E l \in DOMAIN caches[g][k] : e = caches[g][k][l]
      BY <2>2, <2>3
    <2>5. Caught
      BY <1>6, <2>4 DEF Caught
    <2> QED
      BY <1>2, <1>3, <2>2, <2>5, QuietCoherent
  <1>8. CASE caches' = caches /\ cell' = cell
    <2>1. Caught
      BY <1>6, <1>8 DEF Caught
    <2>2. \A u \in Type, x \in Name : SameAttributes(u, x)
      BY <1>8 DEF SameAttributes
    <2> QED
      BY <1>2, <1>3, <2>1, <2>2, QuietCoherent
  <1> QED
    BY <1>2, <1>7, <1>8

\* Entries that an update does not shadow do not read the class it changed.
LEMMA UnshadowedAvoids ==
    ASSUME program \in Programs, NEW c \in Cells, Present(c), NEW g \in Fun, NEW i \in DOMAIN Code[g],
           NEW e, e.key \in Code[g][i].keys, TrackedEntry(c, g, i, e), NEW t, NEW n,
           ~Shadows(c, g, i, e, t, n)
    PROVE  ReadsAvoid(c, Code[g][i], e.key, t, n)
  <1> DEFINE reads == Reads(Code[g][i], e.key)
  <1> SUFFICES ASSUME NEW k \in DOMAIN Code[g][i].names, NEW l \in DOMAIN Mro[reads[k][1]],
                      reads[k][2] = n, Reached(c, reads[k][1], n, l), Mro[reads[k][1]][l] = t
               PROVE  FALSE
    BY DEF ReadsAvoid
  <1> DEFINE T == reads[k][1]
  <1>1. T \in Type /\ n \in Name
    BY ReadsTyped
  <1>2. Tracked(c, g, T, n)
    BY DEF TrackedEntry
  <1>3. ~ IsAffected(c, T, n, t)
    BY DEF Shadows
  <1>4. l \in DOMAIN Mro[T] /\ Reached(c, T, n, l) /\ Mro[T][l] = t
    OBVIOUS
  <1> HIDE DEF T, reads
  <1>5. IsAffected(c, T, n, Mro[T][l])
    BY <1>1, <1>2, <1>4, TrackedPlaceholders
  <1> QED
    BY <1>3, <1>4, <1>5

\* An assignment evicts all entries that read the class.
LEMMA SetAttributeCoherent ==
    ASSUME CInv, NEW a \in program.assigns, SetAttribute(a[1], a[2], a[3])
    PROVE  CInv'
  <1> DEFINE t == a[1]
             n == a[2]
  <1>1. /\ TInv /\ ~UpdatesInCalls /\ program \in Programs /\ Assigned(cell)
    BY DEF CInv, TInv, IInv
  <1>2. /\ program' = program /\ calls' = calls /\ ~crashed /\ calls = <<>>
    BY <1>1 DEF SetAttribute, MayUpdate
  <1>3. TInv'
    BY <1>1, SetAttributeTracked
  <1>4. t \in Type /\ n \in Name
    BY <1>1, ConstantsOK
  <1>5. PICK c, z : SetRun(c, z, t, n, a[3])
    BY <1>1, SetAttributeRun
  <1> HIDE DEF t, n
  <1>6. /\ cell' = z.cell /\ caches' = z.caches /\ crashed' = z.crashed
        /\ z.cell \in Cells /\ Present(z.cell) /\ Fewer(c, caches, z)
        /\ ~z.crashed => \A f \in Fun : Cleared(z, f, t, n)
    BY <1>5, StateOf DEF SetRun
  <1>7. \A u \in Type, x \in Name : u # t \/ x # n => cell'[u][x].value = cell[u][x].value
    BY <1>5, <1>6 DEF SetRun, Fewer, SameValues
  <1>8. Assigned(cell')
    <2> SUFFICES ASSUME NEW u \in Type, NEW x \in Name, cell'[u][x].value \in Value
                 PROVE  \E b \in program.assigns : b[1] = u /\ b[2] = x
      BY DEF Assigned
    <2>1. CASE u = t /\ x = n
      BY <2>1 DEF t, n
    <2>2. CASE u # t \/ x # n
      BY <1>1, <1>7, <2>2 DEF Assigned
    <2> QED
      BY <2>1, <2>2
  <1>9. ASSUME ~crashed', NEW f \in Fun, NEW i \in DOMAIN Code[f], NEW j \in DOMAIN caches'[f][i],
               NEW e, e = caches'[f][i][j], e # Empty
        PROVE  /\ \E l \in DOMAIN caches[f][i] : e = caches[f][i][l]
               /\ ReadsAvoid(cell', Code[f][i], e.key, t, n)
    <2>1. \E l \in DOMAIN caches[f][i] : e = caches[f][i][l]
      BY <1>6, <1>9 DEF Fewer
    <2>2. e.key \in Code[f][i].keys
      BY <1>2, <1>3, <1>9, NextEntries DEF TInv
    <2>3. Cleared(z, f, t, n) /\ e = z.caches[f][i][j] /\ j \in DOMAIN z.caches[f][i]
      BY <1>6, <1>9
    <2>4. ~Shadows(z.cell, f, i, e, t, n) /\ TrackedEntry(z.cell, f, i, e)
      BY <1>9, <2>3 DEF Cleared
    <2>5. ReadsAvoid(z.cell, Code[f][i], e.key, t, n)
      BY <1>1, <1>6, <2>2, <2>4, UnshadowedAvoids
    <2> QED
      BY <1>6, <2>1, <2>5
  <1>10. OnlyChanges(t, n)
    BY <1>7 DEF OnlyChanges, SameAttributes
  <1>11. ~crashed' => OnlyLeaves(t, n)
    BY <1>9 DEF OnlyLeaves
  <1> QED
    BY <1>2, <1>3, <1>8, <1>10, <1>11, ChangeCoherent

\* After a deletion no entry reads the class: there is no cell to be linked to.
LEMMA DeleteAttributeCoherent ==
    ASSUME CInv, NEW d \in program.deletes, DeleteAttribute(d[1], d[2])
    PROVE  CInv'
  <1> DEFINE t == d[1]
             n == d[2]
  <1>1. /\ TInv /\ ~UpdatesInCalls /\ program \in Programs /\ Assigned(cell)
    BY DEF CInv, TInv, IInv
  <1>2. /\ program' = program /\ calls' = calls /\ ~crashed /\ calls = <<>>
    BY <1>1 DEF DeleteAttribute, MayUpdate
  <1>3. TInv'
    BY <1>1, DeleteAttributeTracked
  <1>4. t \in Type /\ n \in Name
    BY <1>1, ConstantsOK
  <1>5. PICK z : DeleteRun(z, t, n)
    BY <1>1, DeleteAttributeRun
  <1> HIDE DEF t, n
  <1>6. /\ caches' = z.caches /\ Fewer(cell, caches, z) /\ cell'[t][n] = NoCell
        /\ \A u \in Type, x \in Name : u # t \/ x # n => cell'[u][x].value = cell[u][x].value
    BY <1>5 DEF DeleteRun, Fewer, SameValues
  <1>7. Assigned(cell')
    <2> SUFFICES ASSUME NEW u \in Type, NEW x \in Name, cell'[u][x].value \in Value
                 PROVE  \E b \in program.assigns : b[1] = u /\ b[2] = x
      BY DEF Assigned
    <2>1. u # t \/ x # n
      BY <1>6, ConstantsOK DEF NoCell
    <2> QED
      BY <1>1, <1>6, <2>1 DEF Assigned
  <1>8. ~crashed' => AllTracked(cell', caches')
    BY <1>2, <1>3 DEF TInv, AllTracked, TrackedEntry, Code
  <1>9. ASSUME ~crashed', NEW f \in Fun, NEW i \in DOMAIN Code[f], NEW j \in DOMAIN caches'[f][i],
               NEW e, e = caches'[f][i][j], e # Empty
        PROVE  /\ \E l \in DOMAIN caches[f][i] : e = caches[f][i][l]
               /\ ReadsAvoid(cell', Code[f][i], e.key, t, n)
    <2>1. \E l \in DOMAIN caches[f][i] : e = caches[f][i][l]
      BY <1>6, <1>9 DEF Fewer
    <2>2. TrackedEntry(cell', f, i, e)
      BY <1>8, <1>9 DEF AllTracked
    <2>3. ~ Linked(cell', f, t, n)
      BY <1>6 DEF Linked, HasLink, NoCell
    <2>4. ReadsAvoid(cell', Code[f][i], e.key, t, n)
      BY <2>2, <2>3 DEF ReadsAvoid, TrackedEntry, Tracked
    <2> QED
      BY <2>1, <2>4
  <1>10. OnlyChanges(t, n)
    BY <1>6 DEF OnlyChanges, SameAttributes
  <1>11. ~crashed' => OnlyLeaves(t, n)
    BY <1>9 DEF OnlyLeaves
  <1> QED
    BY <1>2, <1>3, <1>7, <1>10, <1>11, ChangeCoherent

LEMMA CollectFunctionCoherent ==
    ASSUME CInv, NEW f \in Fun, CollectFunction(f)
    PROVE  CInv'
  <1> DEFINE left(t, n) == [k \in DOMAIN cell[t][n].dependents |->
                              IF cell[t][n].dependents[k] = f THEN None ELSE cell[t][n].dependents[k]]
             none == [i \in DOMAIN Code[f] |-> <<>>]
  <1>1. /\ TInv /\ cell \in Cells /\ CachesOK(caches) /\ CallsCurrent
    BY DEF CInv, TInv, IInv
  <1>2. /\ program' = program /\ calls' = calls /\ crashed' = crashed
        /\ cell' = [t \in Type |-> [n \in Name |-> [cell[t][n] EXCEPT !.dependents = left(t, n)]]]
        /\ caches' = [caches EXCEPT ![f] = none]
    BY DEF CollectFunction
  <1>3. TInv'
    BY <1>1, CollectFunctionTracked
  <1> HIDE DEF left
  <1>4. ASSUME NEW u \in Type, NEW x \in Name PROVE SameAttributes(u, x)
    <2>1. cell[u][x] \in Cell
      BY <1>1, CellOf
    <2>2. cell'[u][x].value = cell[u][x].value
      BY <1>2, <2>1 DEF Cell
    <2> QED
      BY <2>2 DEF SameAttributes
  <1>5. /\ caches'[f] = none
        /\ \A g \in Fun : g # f => caches'[g] = caches[g]
    <2>1. caches \in [Fun -> Seq(Seq(Entry))]
      BY <1>1 DEF CachesOK
    <2> HIDE DEF none
    <2> QED
      BY <1>2, <2>1
  <1>6. \A i \in DOMAIN Code[f] : caches'[f][i] = <<>>
    BY <1>5
  <1> HIDE DEF none
  <1>7. Caught
    <2>1. ASSUME NEW g \in Fun, NEW i \in DOMAIN Code[g], NEW j \in DOMAIN caches'[g][i]
          PROVE  j \in DOMAIN caches[g][i] /\ caches'[g][i][j] = caches[g][i][j]
      <3>1. g # f
        BY <1>6
      <3> QED
        BY <1>5, <3>1
    <2> QED
      BY <1>1, <1>2, <2>1 DEF Caught, CallsCurrent
  <1> QED
    BY <1>2, <1>3, <1>4, <1>7, QuietCoherent

LEMMA NextCoherent ==
    ASSUME CInv, [Next]_vars
    PROVE  CInv'
  <1>1. ASSUME NEW f \in Fun, NEW i \in DOMAIN Code[f], NEW key \in Code[f][i].keys,
               Load(f, i, key)
        PROVE  CInv'
    BY <1>1, LoadCoherent
  <1>2. ASSUME NEW raises \in BOOLEAN, Return(raises)
        PROVE  CInv'
    BY <1>2, ReturnCoherent
  <1>3. ASSUME NEW a \in program.assigns, SetAttribute(a[1], a[2], a[3])
        PROVE  CInv'
    BY <1>3, SetAttributeCoherent
  <1>4. ASSUME NEW d \in program.deletes, DeleteAttribute(d[1], d[2])
        PROVE  CInv'
    BY <1>4, DeleteAttributeCoherent
  <1>5. ASSUME NEW f \in program.drops, CollectFunction(f)
        PROVE  CInv'
    <2>1. f \in Fun
      BY ConstantsOK DEF CInv, TInv, IInv
    <2> QED
      BY <1>5, <2>1, CollectFunctionCoherent
  <1>6. CASE UNCHANGED vars
    <2>1. TInv'
      BY <1>6, NextTracked DEF CInv
    <2>2. /\ program' = program /\ cell' = cell /\ caches' = caches /\ calls' = calls
          /\ crashed' = crashed
      BY <1>6 DEF vars
    <2>3. Caught
      BY <2>2 DEF Caught, CInv, CallsCurrent
    <2>4. \A u \in Type, x \in Name : SameAttributes(u, x)
      BY <2>2 DEF SameAttributes
    <2> QED
      BY <2>1, <2>2, <2>3, <2>4, QuietCoherent
  <1>7. CASE Crashed
    BY <1>6, <1>7 DEF Crashed
  <1> QED
    BY <1>1, <1>2, <1>3, <1>4, <1>5, <1>6, <1>7 DEF Next

LEMMA CoherentCaches ==
    CInv => CachesCoherent
  <1> SUFFICES ASSUME CInv, ~crashed, NEW f \in live, NEW i \in DOMAIN Code[f], NEW e \in Entries(f, i)
               PROVE  /\ e.kind = Lookup(Code[f][i], e.key).kind
                      /\ e.value = Lookup(Code[f][i], e.key).value
    BY DEF CachesCoherent
  <1>1. f \in Fun /\ AllCoherent
    BY DEF CInv, TInv, IInv
  <1>2. PICK j \in DOMAIN caches[f][i] : e = caches[f][i][j] /\ e # Empty
    BY DEF Entries, Range
  <1>3. Coherent(Code[f][i], e)
    BY <1>1, <1>2 DEF AllCoherent
  <1> QED
    BY <1>3 DEF Coherent

\* If moreover methods do not update classes while an operator calls them, and the
\* swapped selector of an arithmetic operation is not one that the left operand gets
\* unnoticed, then a cache holds what the lookup without it would find: typeSetAttr and
\* typeDeleteAttribute, through icInvalidateAttr, evict every entry that they change.
THEOREM MethodCachesCoherent ==
    /\ SingleInheritance /\ MethodProgram(program) /\ PlainProgram(program) /\ ~UpdatesInCalls
    /\ Spec
    => []CachesCoherent
  <1>1. /\ SingleInheritance /\ MethodProgram(program) /\ PlainProgram(program) /\ ~UpdatesInCalls
        /\ Init
        => CInv
    BY InitCoherent
  <1>2. CInv /\ [Next]_vars => CInv'
    BY NextCoherent
  <1>3. CInv => CachesCoherent
    BY CoherentCaches
  <1> QED
    BY <1>1, <1>2, <1>3, PTL DEF Spec
=============================================================================
