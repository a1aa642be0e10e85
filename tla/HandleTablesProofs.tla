------------------------- MODULE HandleTablesProofs -------------------------
(***************************************************************************)
(* Proofs about HandleTables, for every set of addresses, every hash, and  *)
(* every sequence of new references, cached values, disposals and moving   *)
(* collections: the invariants that the runs check, and that the two hash  *)
(* tables and the free list implement HandleMap.                           *)
(***************************************************************************)
EXTENDS HandleTables, ApiHandleDictProofs, SequenceTheorems

(***************************************************************************)
(* The free list.  The map h from objects to handles and the list q share  *)
(* out the numbers below the frontier, the last number of q.               *)
(***************************************************************************)

Recycles(q, x) == \E i \in 1..(Len(q) - 1) : q[i] = x

Shares(h, q) ==
    /\ q \in Seq(Nat) /\ q # <<>>
    /\ \A i, j \in 1..(Len(q) - 1) : q[i] = q[j] => i = j
    /\ \A k \in DOMAIN h : h[k] \in Nat /\ ~Recycles(q, h[k])
    /\ \A j, k \in DOMAIN h : h[j] = h[k] => j = k
    /\ \A x \in Nat : x < q[Len(q)] <=> Recycles(q, x) \/ \E k \in DOMAIN h : h[k] = x

LEMMA Lengths ==
    ASSUME NEW q \in Seq(Nat), q # <<>>
    PROVE  /\ Len(q) \in Nat /\ Len(q) >= 1 /\ q[Len(q)] \in Nat /\ q[1] \in Nat
           /\ \A i \in 1..(Len(q) - 1) : i \in 1..Len(q) /\ q[i] \in Nat
  OBVIOUS

\* The list r is q after x.
Prepends(r, x, q) ==
    /\ r \in Seq(Nat) /\ r # <<>> /\ r[Len(r)] = q[Len(q)]
    /\ \A y : Recycles(r, y) <=> y = x \/ Recycles(q, y)
    /\ (~Recycles(q, x) /\ \A i, j \in 1..(Len(q) - 1) : q[i] = q[j] => i = j)
         => \A i, j \in 1..(Len(r) - 1) : r[i] = r[j] => i = j

\* freeHandle(): the list begins with the freed handle.
LEMMA Pushed ==
    ASSUME NEW q \in Seq(Nat), q # <<>>, NEW x \in Nat, NEW r, r = <<x>> \o q
    PROVE  Prepends(r, x, q)
  <1>1. /\ Len(q) \in Nat /\ Len(q) >= 1
    BY Lengths
  <1>2. /\ r \in Seq(Nat) /\ r # <<>> /\ Len(r) = Len(q) + 1 /\ r[1] = x
        /\ \A i \in 1..Len(q) : r[i + 1] = q[i]
    OBVIOUS
  <1>3. r[Len(r)] = q[Len(q)]
    BY <1>1, <1>2
  <1>4. \A i \in 1..(Len(r) - 1) : i # 1 => i - 1 \in 1..(Len(q) - 1) /\ r[i] = q[i - 1]
    <2>1. ASSUME NEW i \in 1..(Len(r) - 1), i # 1
          PROVE  i - 1 \in 1..(Len(q) - 1) /\ r[i] = q[i - 1]
      <3>1. i - 1 \in 1..(Len(q) - 1) /\ i - 1 \in 1..Len(q) /\ (i - 1) + 1 = i
        BY <1>1, <1>2, <2>1
      <3> QED
        BY <1>2, <3>1
    <2> QED
      BY <2>1
  <1>5. ASSUME NEW y PROVE Recycles(r, y) <=> y = x \/ Recycles(q, y)
    <2>1. ASSUME Recycles(r, y) PROVE y = x \/ Recycles(q, y)
      BY <1>2, <1>4, <2>1 DEF Recycles
    <2>2. ASSUME y = x PROVE Recycles(r, y)
      <3>1. 1 \in 1..(Len(r) - 1)
        BY <1>1, <1>2
      <3> QED
        BY <1>2, <2>2, <3>1 DEF Recycles
    <2>3. ASSUME Recycles(q, y) PROVE Recycles(r, y)
      <3>1. PICK i \in 1..(Len(q) - 1) : q[i] = y
        BY <2>3 DEF Recycles
      <3>2. i \in 1..Len(q) /\ i + 1 \in 1..(Len(r) - 1)
        BY <1>1, <1>2
      <3> QED
        BY <1>2, <3>1, <3>2 DEF Recycles
    <2> QED
      BY <2>1, <2>2, <2>3
  <1>6. ASSUME ~Recycles(q, x), \A i, j \in 1..(Len(q) - 1) : q[i] = q[j] => i = j,
               NEW i \in 1..(Len(r) - 1), NEW j \in 1..(Len(r) - 1), r[i] = r[j]
        PROVE  i = j
    <2>1. CASE i = 1 /\ j = 1
      BY <2>1
    <2>2. CASE i = 1 /\ j # 1
      BY <1>2, <1>4, <1>6, <2>2 DEF Recycles
    <2>3. CASE i # 1 /\ j = 1
      BY <1>2, <1>4, <1>6, <2>3 DEF Recycles
    <2>4. CASE i # 1 /\ j # 1
      <3>1. i - 1 = j - 1
        BY <1>4, <1>6, <2>4
      <3> QED
        BY <1>1, <1>2, <3>1
    <2> QED
      BY <2>1, <2>2, <2>3, <2>4
  <1> QED
    BY <1>2, <1>3, <1>5, <1>6 DEF Prepends

\* The list r is q without its first.
Follows(r, q) ==
    /\ r \in Seq(Nat) /\ Len(r) = Len(q) - 1 /\ r # <<>>
    /\ \A i \in 1..Len(r) : r[i] = q[i + 1]

LEMMA Tails ==
    ASSUME NEW q \in Seq(Nat), Len(q) > 1
    PROVE  Follows(Tail(q), q)
  <1>1. Len(q) \in Nat /\ q # <<>>
    OBVIOUS
  <1> DEFINE r == Tail(q)
  <1>2. /\ r \in Seq(Nat) /\ Len(r) = Len(q) - 1
        /\ \A i \in 1..Len(r) : r[i] = q[i + 1]
    BY <1>1, HeadTailProperties
  <1> HIDE DEF r
  <1>3. r # <<>>
    <2>1. Len(r) # 0
      <3> DEFINE m == Len(q)
                 c == Len(r)
      <3>1. m \in Nat /\ m > 1
        BY <1>1
      <3>2. c = m - 1
        BY <1>2
      <3> HIDE DEF m, c
      <3>3. c # 0
        BY <3>1, <3>2
      <3> QED
        BY <3>3 DEF c
    <2> QED
      BY <1>2, <2>1, EmptySeq
  <1>4. Follows(r, q)
    BY <1>2, <1>3 DEF Follows
  <1> QED
    BY <1>4 DEF r

\* allocateHandle(): a recycled handle goes to the object k.
LEMMA AllocatedRecycled ==
    ASSUME NEW h, NEW q, Shares(h, q), NEW k, k \notin DOMAIN h,
           Len(q) > 1, NEW r, Follows(r, q)
    PROVE  /\ Shares(With(h, k, q[1]), r)
           /\ \A j \in DOMAIN h : h[j] # q[1]
           /\ r[Len(r)] = q[Len(q)] /\ q[1] <= q[Len(q)]
  <1> DEFINE g == With(h, k, q[1])
  <1>1. /\ q \in Seq(Nat) /\ q # <<>>
        /\ \A i, j \in 1..(Len(q) - 1) : q[i] = q[j] => i = j
        /\ \A j \in DOMAIN h : h[j] \in Nat /\ ~Recycles(q, h[j])
        /\ \A i, j \in DOMAIN h : h[i] = h[j] => i = j
        /\ \A x \in Nat : x < q[Len(q)] <=> Recycles(q, x) \/ \E j \in DOMAIN h : h[j] = x
    BY DEF Shares
  <1>2. Len(q) \in Nat /\ Len(q) >= 1 /\ q[Len(q)] \in Nat /\ q[1] \in Nat
    BY <1>1, Lengths
  <1>3. /\ DOMAIN g = DOMAIN h \cup {k} /\ g[k] = q[1]
        /\ \A j \in DOMAIN h : g[j] = h[j]
    BY DEF With
  <1> HIDE DEF g
  <1>4. /\ r \in Seq(Nat) /\ Len(r) = Len(q) - 1 /\ r # <<>> /\ Len(r) \in Nat /\ Len(r) >= 1
        /\ \A i \in 1..Len(r) : r[i] = q[i + 1]
    BY <1>2 DEF Follows
  <1>5. r[Len(r)] = q[Len(q)]
    <2> DEFINE m == Len(q)
               c == Len(r)
    <2>1. m \in Nat /\ c \in Nat /\ c >= 1 /\ c = m - 1
      BY <1>2, <1>4
    <2>2. \A i \in 1..c : r[i] = q[i + 1]
      BY <1>4
    <2> HIDE DEF m, c
    <2>3. c \in 1..c /\ c + 1 = m
      BY <2>1
    <2>4. r[c] = q[m]
      BY <2>2, <2>3
    <2> QED
      BY <2>4 DEF m, c
  <1>6. \A i \in 1..(Len(r) - 1) : i + 1 \in 1..(Len(q) - 1) /\ r[i] = q[i + 1]
    <2> DEFINE m == Len(q)
               c == Len(r)
    <2>1. m \in Nat /\ c \in Nat /\ c >= 1 /\ c = m - 1
      BY <1>2, <1>4
    <2>2. \A i \in 1..c : r[i] = q[i + 1]
      BY <1>4
    <2> HIDE DEF m, c
    <2>3. \A i \in 1..(c - 1) : i + 1 \in 1..(m - 1) /\ i \in 1..c
      BY <2>1
    <2>4. \A i \in 1..(c - 1) : i + 1 \in 1..(m - 1) /\ r[i] = q[i + 1]
      BY <2>2, <2>3
    <2> QED
      BY <2>4 DEF m, c
  <1>7. Recycles(q, q[1])
    <2>1. 1 \in 1..(Len(q) - 1)
      BY <1>2
    <2> QED
      BY <2>1 DEF Recycles
  <1>8. ASSUME NEW x PROVE Recycles(r, x) <=> Recycles(q, x) /\ x # q[1]
    <2>1. ASSUME Recycles(r, x) PROVE Recycles(q, x) /\ x # q[1]
      <3>1. PICK i \in 1..(Len(r) - 1) : r[i] = x
        BY <2>1 DEF Recycles
      <3>2. i + 1 \in 1..(Len(q) - 1) /\ q[i + 1] = x /\ i + 1 # 1 /\ 1 \in 1..(Len(q) - 1)
        BY <1>2, <1>6, <3>1
      <3>3. q[i + 1] # q[1]
        BY <1>1, <3>2
      <3> QED
        BY <3>2, <3>3 DEF Recycles
    <2>2. ASSUME Recycles(q, x), x # q[1] PROVE Recycles(r, x)
      <3>1. PICK i \in 1..(Len(q) - 1) : q[i] = x
        BY <2>2 DEF Recycles
      <3>2. i # 1 /\ i - 1 \in 1..(Len(r) - 1) /\ (i - 1) + 1 = i
        BY <1>2, <1>4, <2>2, <3>1
      <3>3. r[i - 1] = x
        BY <1>6, <3>1, <3>2
      <3> QED
        BY <3>2, <3>3 DEF Recycles
    <2> QED
      BY <2>1, <2>2
  <1>9. \A i, j \in 1..(Len(r) - 1) : r[i] = r[j] => i = j
    <2>1. ASSUME NEW i \in 1..(Len(r) - 1), NEW j \in 1..(Len(r) - 1), r[i] = r[j] PROVE i = j
      <3>1. i + 1 = j + 1
        BY <1>1, <1>6, <2>1
      <3> QED
        BY <1>4, <3>1
    <2> QED
      BY <2>1
  <1>10. \A j \in DOMAIN h : h[j] # q[1]
    BY <1>1, <1>7
  <1>11. \A j \in DOMAIN g : g[j] \in Nat /\ ~Recycles(r, g[j])
    BY <1>1, <1>2, <1>3, <1>8
  <1>12. \A i, j \in DOMAIN g : g[i] = g[j] => i = j
    BY <1>1, <1>3, <1>10
  <1>13. ASSUME NEW x \in Nat
         PROVE  x < r[Len(r)] <=> Recycles(r, x) \/ \E j \in DOMAIN g : g[j] = x
    <2>1. x < q[Len(q)] <=> Recycles(q, x) \/ \E j \in DOMAIN h : h[j] = x
      BY <1>1
    <2>2. (\E j \in DOMAIN g : g[j] = x) <=> x = q[1] \/ \E j \in DOMAIN h : h[j] = x
      BY <1>3
    <2> QED
      BY <1>5, <1>7, <1>8, <2>1, <2>2
  <1>14. q[1] < q[Len(q)]
    BY <1>1, <1>2, <1>7
  <1>15. Shares(g, r)
    BY <1>4, <1>9, <1>11, <1>12, <1>13 DEF Shares
  <1> QED
    BY <1>2, <1>5, <1>10, <1>14, <1>15 DEF g

\* allocateHandle(): the frontier goes to the object k, when all below it are used.
LEMMA AllocatedFrontier ==
    ASSUME NEW h, NEW q, Shares(h, q), NEW k, k \notin DOMAIN h,
           Len(q) = 1, NEW r, r = <<q[1] + 1>>
    PROVE  /\ Shares(With(h, k, q[1]), r)
           /\ \A j \in DOMAIN h : h[j] # q[1]
           /\ r[Len(r)] = q[Len(q)] + 1 /\ q[1] = q[Len(q)]
           /\ \A x \in 0..(q[Len(q)] - 1) : \E j \in DOMAIN h : h[j] = x
  <1> DEFINE g == With(h, k, q[1])
  <1>1. /\ q \in Seq(Nat) /\ q # <<>>
        /\ \A i, j \in 1..(Len(q) - 1) : q[i] = q[j] => i = j
        /\ \A j \in DOMAIN h : h[j] \in Nat /\ ~Recycles(q, h[j])
        /\ \A i, j \in DOMAIN h : h[i] = h[j] => i = j
        /\ \A x \in Nat : x < q[Len(q)] <=> Recycles(q, x) \/ \E j \in DOMAIN h : h[j] = x
    BY DEF Shares
  <1>2. Len(q) \in Nat /\ Len(q) >= 1 /\ q[Len(q)] \in Nat /\ q[1] \in Nat
    BY <1>1, Lengths
  <1>3. /\ DOMAIN g = DOMAIN h \cup {k} /\ g[k] = q[1]
        /\ \A j \in DOMAIN h : g[j] = h[j]
    BY DEF With
  <1> HIDE DEF g
  <1>4. Len(q) = 1 /\ r = <<q[1] + 1>>
    OBVIOUS
  <1>5. r \in Seq(Nat) /\ r # <<>> /\ Len(r) = 1 /\ r[Len(r)] = q[1] + 1
    BY <1>2, <1>4
  <1>6. /\ \A x : ~Recycles(q, x) /\ ~Recycles(r, x)
        /\ \A i, j \in 1..(Len(r) - 1) : r[i] = r[j] => i = j
    BY <1>4, <1>5 DEF Recycles
  <1>7. \A x \in Nat : x < q[1] <=> \E j \in DOMAIN h : h[j] = x
    BY <1>1, <1>4, <1>6
  <1>8. \A j \in DOMAIN h : h[j] # q[1]
    BY <1>1, <1>2, <1>7
  <1>9. \A j \in DOMAIN g : g[j] \in Nat /\ ~Recycles(r, g[j])
    BY <1>1, <1>2, <1>3, <1>6
  <1>10. \A i, j \in DOMAIN g : g[i] = g[j] => i = j
    BY <1>1, <1>3, <1>8
  <1>11. ASSUME NEW x \in Nat
        PROVE  x < r[Len(r)] <=> Recycles(r, x) \/ \E j \in DOMAIN g : g[j] = x
    <2>1. x < q[1] + 1 <=> x < q[1] \/ x = q[1]
      BY <1>2
    <2>2. (\E j \in DOMAIN g : g[j] = x) <=> x = q[1] \/ \E j \in DOMAIN h : h[j] = x
      BY <1>3
    <2> QED
      BY <1>5, <1>6, <1>7, <2>1, <2>2
  <1>12. Shares(g, r)
    BY <1>5, <1>6, <1>9, <1>10, <1>11 DEF Shares
  <1>13. \A x \in 0..(q[Len(q)] - 1) : \E j \in DOMAIN h : h[j] = x
    BY <1>2, <1>4, <1>7
  <1> QED
    BY <1>2, <1>4, <1>5, <1>8, <1>12, <1>13 DEF g

\* freeHandle(): the handle of k, which is disposed of, goes to the list.
LEMMA Released ==
    ASSUME NEW h, NEW q, Shares(h, q), NEW k \in DOMAIN h,
           NEW r, Prepends(r, h[k], q)
    PROVE  Shares(Without(h, k), r) /\ r[Len(r)] = q[Len(q)]
  <1> DEFINE g == Without(h, k)
  <1>1. /\ q \in Seq(Nat) /\ q # <<>>
        /\ \A i, j \in 1..(Len(q) - 1) : q[i] = q[j] => i = j
        /\ \A j \in DOMAIN h : h[j] \in Nat /\ ~Recycles(q, h[j])
        /\ \A i, j \in DOMAIN h : h[i] = h[j] => i = j
        /\ \A x \in Nat : x < q[Len(q)] <=> Recycles(q, x) \/ \E j \in DOMAIN h : h[j] = x
    BY DEF Shares
  <1>2. /\ r \in Seq(Nat) /\ r # <<>> /\ r[Len(r)] = q[Len(q)]
        /\ \A y : Recycles(r, y) <=> y = h[k] \/ Recycles(q, y)
        /\ \A i, j \in 1..(Len(r) - 1) : r[i] = r[j] => i = j
    <2>1. h[k] \in Nat /\ ~Recycles(q, h[k])
      BY <1>1
    <2> QED
      BY <1>1, <2>1 DEF Prepends
  <1>3. /\ DOMAIN g = DOMAIN h \ {k}
        /\ \A j \in DOMAIN g : g[j] = h[j]
    BY DEF Without
  <1> HIDE DEF g
  <1>4. \A j \in DOMAIN g : g[j] \in Nat /\ ~Recycles(r, g[j])
    BY <1>1, <1>2, <1>3
  <1>5. \A i, j \in DOMAIN g : g[i] = g[j] => i = j
    BY <1>1, <1>3
  <1>6. ASSUME NEW x \in Nat
        PROVE  x < r[Len(r)] <=> Recycles(r, x) \/ \E j \in DOMAIN g : g[j] = x
    <2>1. x < q[Len(q)] <=> Recycles(q, x) \/ \E j \in DOMAIN h : h[j] = x
      BY <1>1
    <2>2. (\E j \in DOMAIN h : h[j] = x) <=> x = h[k] \/ \E j \in DOMAIN g : g[j] = x
      BY <1>3
    <2> QED
      BY <1>2, <2>1, <2>2
  <1>7. Shares(g, r)
    BY <1>2, <1>4, <1>5, <1>6 DEF Shares
  <1> QED
    BY <1>2, <1>7 DEF g

\* The list does not tell where the objects are.
LEMMA SharesMoved ==
    ASSUME NEW h, NEW q, Shares(h, q), NEW move, NEW g, Moved(g, h, move)
    PROVE  Shares(g, q)
  <1>1. /\ q \in Seq(Nat) /\ q # <<>>
        /\ \A i, j \in 1..(Len(q) - 1) : q[i] = q[j] => i = j
        /\ \A j \in DOMAIN h : h[j] \in Nat /\ ~Recycles(q, h[j])
        /\ \A i, j \in DOMAIN h : h[i] = h[j] => i = j
        /\ \A x \in Nat : x < q[Len(q)] <=> Recycles(q, x) \/ \E j \in DOMAIN h : h[j] = x
    BY DEF Shares
  <1>2. /\ \A k \in DOMAIN g : \E j \in DOMAIN h : move[j] = k
        /\ \A j \in DOMAIN h : move[j] \in DOMAIN g /\ g[move[j]] = h[j]
    BY DEF Moved
  <1>3. \A k \in DOMAIN g : g[k] \in Nat /\ ~Recycles(q, g[k])
    BY <1>1, <1>2
  <1>4. ASSUME NEW i \in DOMAIN g, NEW k \in DOMAIN g, g[i] = g[k] PROVE i = k
    <2>1. PICK j1 \in DOMAIN h : move[j1] = i
      BY <1>2
    <2>2. PICK j2 \in DOMAIN h : move[j2] = k
      BY <1>2
    <2>3. h[j1] = h[j2]
      BY <1>2, <1>4, <2>1, <2>2
    <2>4. j1 = j2
      BY <1>1, <2>3
    <2> QED
      BY <2>1, <2>2, <2>4
  <1>5. \A x : (\E j \in DOMAIN h : h[j] = x) <=> \E k \in DOMAIN g : g[k] = x
    BY <1>2
  <1>6. \A x \in Nat : x < q[Len(q)] <=> Recycles(q, x) \/ \E k \in DOMAIN g : g[k] = x
    BY <1>1, <1>5
  <1> QED
    BY <1>1, <1>3, <1>4, <1>6 DEF Shares

-----------------------------------------------------------------------------
(***************************************************************************)
(* The inductive invariant.                                                *)
(***************************************************************************)

HandleValue == Nat \cup {NoValue}
CacheValue == Cached \cup {NoValue}

IsReady(d, W) == \E n \in Sizes : n <= 64 /\ Ready(d, n, W)

\* The dictionaries are maps, with room for one more entry; only an object with
\* a handle has a cached value; the handles are shared out; and there are not
\* more than objects.
IInv ==
    /\ IsReady(handles, HandleValue) /\ IsReady(caches, CacheValue)
    /\ CachesCounted
    /\ DOMAIN cacheOf \subseteq Live
    /\ Shares(handleOf, free)
    /\ free[Len(free)] <= Cardinality(Key)

LEMMA Bounds ==
    /\ NoValue \in HandleValue /\ NoValue \in CacheValue
    /\ MaxIndices \in Nat /\ MaxIndices <= 64
    /\ InitialHandles \in Sizes /\ InitialHandles <= 64
    /\ InitialCaches \in Sizes /\ InitialCaches <= 64
  BY TablesAssumption DEF HandleValue, CacheValue, Sizes

LEMMA ReadyOf ==
    ASSUME NEW d, NEW n, NEW W, Ready(d, n, W)
    PROVE  Intact(d, n, W) /\ Agrees(d) /\ DOMAIN at(d) \subseteq Key /\ numIndices(d) = n /\ n \in Sizes
  <1>1. Intact(d, n, W)
    BY DEF Ready
  <1>2. Agrees(d) /\ numIndices(d) = n /\ n \in Sizes
    BY <1>1, MapOf, ItemsBelow
  <1> QED
    BY <1>1, <1>2 DEF Agrees

LEMMA IsReadyOf ==
    ASSUME NEW d, NEW W, IsReady(d, W)
    PROVE  /\ Agrees(d) /\ DOMAIN at(d) \subseteq Key
           /\ hasUsableItem(d)
           /\ \A c \in items(d) : lookup(d, d.keys[c]) /\ d.indices[stopsAt(d, d.keys[c])] = c
           /\ DictType(d)
  <1>1. PICK n \in Sizes : n <= 64 /\ Ready(d, n, W)
    BY DEF IsReady
  <1>2. Intact(d, n, W) /\ Agrees(d) /\ DOMAIN at(d) \subseteq Key
    BY <1>1, ReadyOf
  <1>3. Fields(d, n, W) /\ Linked(d)
    BY <1>2, IntactOf
  <1>4. hasUsableItem(d)
    <2>1. capacity(d) = maxCapacity(n)
      BY <1>3, FieldsOf
    <2> QED
      BY <1>1, <2>1 DEF hasUsableItem, Ready
  <1>5. ASSUME NEW c \in items(d)
        PROVE  lookup(d, d.keys[c]) /\ d.indices[stopsAt(d, d.keys[c])] = c
    <2>1. d.keys[c] \in Key
      BY <1>2, <1>3, IntactOf, ItemsOf
    <2> QED
      BY <1>2, <2>1, LookupOf
  <1>6. DictType(d)
    <2>1. /\ d.indices \in [0..(n - 1) -> Int]
          /\ d.keys \in [0..(maxCapacity(n) - 1) -> Key \cup {NoKey}]
          /\ d.values \in [0..(maxCapacity(n) - 1) -> W]
          /\ d.nextIndex \in Nat /\ d.numItems \in Nat
          /\ DOMAIN d.indices = 0..(n - 1)
          /\ DOMAIN d.keys = 0..(maxCapacity(n) - 1)
      BY <1>3, FieldsOf
    <2>2. d.indices \in [DOMAIN d.indices -> -2..(d.nextIndex - 1)]
      <3>1. \A i \in DOMAIN d.indices : d.indices[i] \in -2..(d.nextIndex - 1)
        BY <1>3 DEF Linked
      <3> QED
        BY <2>1, <3>1
    <2>3. \A i \in DOMAIN d.keys : d.keys[i] \in Key \cup {NoKey}
      BY <2>1
    <2>4. DOMAIN d.values = DOMAIN d.keys
      BY <2>1
    <2>5. n \in {2, 4, 8, 16, 32, 64}
      BY <1>1 DEF Sizes
    <2> QED
      BY <2>1, <2>2, <2>3, <2>4, <2>5 DEF DictType
  <1> QED
    BY <1>2, <1>4, <1>5, <1>6

\* What the runs check follows.
LEMMA IInvImplies ==
    ASSUME IInv
    PROVE  TypeOK /\ SpaceForOneMore /\ EntriesAreFound /\ CachesCounted
  <1>1. IsReady(handles, HandleValue) /\ IsReady(caches, CacheValue) /\ CachesCounted
    BY DEF IInv
  <1>2. TypeOK
    BY <1>1, IsReadyOf DEF TypeOK, IInv, Shares
  <1>3. SpaceForOneMore
    BY <1>1, IsReadyOf DEF SpaceForOneMore
  <1>4. EntriesAreFound
    BY <1>1, IsReadyOf DEF EntriesAreFound
  <1> QED
    BY <1>1, <1>2, <1>3, <1>4

-----------------------------------------------------------------------------
(***************************************************************************)
(* What each action does to the maps.                                      *)
(***************************************************************************)

\* A dictionary within the bound after a change of its map.
LEMMA ReadyWithin ==
    ASSUME NEW d, NEW W, NEW map, NEW numItems, NEW number, Becomes(d, W, map, numItems, number),
           numIndices(d) <= MaxIndices
    PROVE  IsReady(d, W) /\ at(d) = map /\ d.numItems = numItems /\ Cardinality(items(d)) = number
  <1>1. PICK n \in Sizes : Ready(d, n, W)
    BY DEF Becomes
  <1>2. numIndices(d) = n
    BY <1>1, ReadyOf
  <1>3. n <= 64
    <2>1. n \in Nat
      BY Capacities
    <2> QED
      BY <1>2, <2>1, Bounds
  <1> QED
    BY <1>1, <1>3 DEF IsReady, Becomes

\* The numbers below f are handles of objects of K other than k.
LEMMA FrontierBelow ==
    ASSUME NEW K, IsFiniteSet(K), NEW h, DOMAIN h \subseteq K, NEW k \in K, k \notin DOMAIN h,
           NEW f \in Nat, \A x \in 0..(f - 1) : \E j \in DOMAIN h : h[j] = x
    PROVE  f + 1 <= Cardinality(K)
  <1> DEFINE D == DOMAIN h
             g == [x \in 0..(f - 1) |-> CHOOSE j \in D : h[j] = x]
  <1>1. \A x \in 0..(f - 1) : g[x] \in D /\ h[g[x]] = x
    OBVIOUS
  <1>2. IsFiniteSet(D)
    BY FS_Subset
  <1>3. IsFiniteSet(0..(f - 1)) /\ Cardinality(0..(f - 1)) = f
    BY FirstNumbers
  <1>4. g \in Injection(0..(f - 1), D)
    <2>1. g = [x \in 0..(f - 1) |-> g[x]]
      OBVIOUS
    <2> HIDE DEF g, D
    <2>2. g \in [0..(f - 1) -> D]
      BY <1>1, <2>1
    <2>3. \A x, y \in 0..(f - 1) : g[x] = g[y] => x = y
      BY <1>1
    <2> QED
      BY <2>2, <2>3, Fun_IsInj
  <1> HIDE DEF g, D
  <1>5. f <= Cardinality(D)
    BY <1>2, <1>3, <1>4, FS_Injection
  <1>6. Cardinality(D \cup {k}) = Cardinality(D) + 1
    <2>1. k \notin D
      BY DEF D
    <2> QED
      BY <1>2, <2>1, FS_AddElement
  <1>7. D \cup {k} \subseteq K
    BY DEF D
  <1>8. Cardinality(D \cup {k}) <= Cardinality(K)
    BY <1>7, FS_Subset
  <1>9. Cardinality(D) \in Nat /\ Cardinality(K) \in Nat
    BY <1>2, FS_CardinalityType
  <1> QED
    BY <1>5, <1>6, <1>8, <1>9

LEMMA IInvParts ==
    ASSUME IInv
    PROVE  /\ IsReady(handles, HandleValue) /\ IsReady(caches, CacheValue)
           /\ caches.numItems = Cardinality(items(caches))
           /\ Cardinality(items(caches)) \in Nat
           /\ DOMAIN cacheOf \subseteq Live /\ Live \subseteq Key
           /\ Shares(handleOf, free)
           /\ free \in Seq(Nat) /\ free # <<>> /\ Len(free) \in Nat /\ Len(free) >= 1
           /\ free[1] \in Nat /\ free[Len(free)] \in Nat
           /\ free[Len(free)] <= Cardinality(Key)
           /\ IsFiniteSet(Key) /\ Cardinality(Key) \in Nat
  <1>1. /\ IsReady(handles, HandleValue) /\ IsReady(caches, CacheValue)
        /\ caches.numItems = Cardinality(items(caches))
        /\ DOMAIN cacheOf \subseteq Live
        /\ Shares(handleOf, free)
        /\ free[Len(free)] <= Cardinality(Key)
    BY DEF IInv, CachesCounted
  <1>2. free \in Seq(Nat) /\ free # <<>>
    BY <1>1 DEF Shares
  <1>3. Len(free) \in Nat /\ Len(free) >= 1 /\ free[1] \in Nat /\ free[Len(free)] \in Nat
    BY <1>2, Lengths
  <1>4. Live \subseteq Key
    BY <1>1, IsReadyOf DEF Live, handleOf
  <1>5. IsFiniteSet(Key) /\ Cardinality(Key) \in Nat
    BY DictAssumption, FS_CardinalityType
  <1>6. Cardinality(items(caches)) \in Nat
    BY <1>1, ItemsBelow DEF IsReady, Ready
  <1> QED
    BY <1>1, <1>2, <1>3, <1>4, <1>5, <1>6

LEMMA NewReferenceMaps ==
    ASSUME IInv, NEW k \in Key, NewReference(k)
    PROVE  /\ IsReady(handles', HandleValue) /\ k \notin Live
           /\ at(handles') = With(at(handles), k, free[1])
           /\ Shares(at(handles'), free') /\ free'[Len(free')] <= Cardinality(Key)
           /\ caches' = caches
           /\ \A j \in Live : handleOf[j] # free[1]
           /\ free[1] \in 0..Cardinality(Key)
           /\ handles'.numItems = handles.numItems + 1
           /\ Cardinality(items(handles')) = Cardinality(items(handles)) + 1
  <1>1. /\ IsReady(handles, HandleValue) /\ Live \subseteq Key
        /\ Shares(handleOf, free)
        /\ free \in Seq(Nat) /\ free # <<>> /\ Len(free) \in Nat /\ Len(free) >= 1
        /\ free[1] \in Nat /\ free[Len(free)] \in Nat
        /\ free[Len(free)] <= Cardinality(Key)
        /\ IsFiniteSet(Key) /\ Cardinality(Key) \in Nat
    BY IInvParts
  <1>2. /\ k \notin Live /\ caches' = caches /\ numIndices(handles') <= MaxIndices
        /\ handles' = atPut(handles, k, free[1]) /\ allocateHandle
    BY DEF NewReference, atPut
  <1>3. PICK n \in Sizes : n <= 64 /\ Ready(handles, n, HandleValue)
    BY <1>1 DEF IsReady
  <1>4. Becomes(handles', HandleValue, With(at(handles), k, free[1]),
                handles.numItems + 1, Cardinality(items(handles)) + 1)
    <2>1. free[1] \in HandleValue
      BY <1>1 DEF HandleValue
    <2>2. k \notin DOMAIN at(handles)
      BY <1>2 DEF Live, handleOf
    <2>3. 1 = (IF k \in DOMAIN at(handles) THEN 0 ELSE 1)
      BY <2>2
    <2> QED
      BY <1>2, <1>3, <2>1, <2>3, AtPutOf, Bounds
  <1>5. /\ IsReady(handles', HandleValue) /\ at(handles') = With(at(handles), k, free[1])
        /\ handles'.numItems = handles.numItems + 1
        /\ Cardinality(items(handles')) = Cardinality(items(handles)) + 1
    BY <1>2, <1>4, ReadyWithin
  <1>6. /\ Shares(With(handleOf, k, free[1]), free') /\ free'[Len(free')] <= Cardinality(Key)
        /\ \A j \in Live : handleOf[j] # free[1]
        /\ free[1] <= free[Len(free)]
    <2>1. CASE Len(free) > 1
      <3>1. free' = Tail(free)
        BY <1>2, <2>1 DEF allocateHandle
      <3>2. Follows(free', free)
        BY <1>1, <2>1, <3>1, Tails
      <3> QED
        BY <1>1, <1>2, <2>1, <3>2, AllocatedRecycled DEF Live
    <2>2. CASE Len(free) = 1
      <3>1. free' = <<free[1] + 1>>
        BY <1>2, <2>2 DEF allocateHandle
      <3>2. /\ Shares(With(handleOf, k, free[1]), free')
            /\ \A j \in DOMAIN handleOf : handleOf[j] # free[1]
            /\ free'[Len(free')] = free[Len(free)] + 1 /\ free[1] = free[Len(free)]
            /\ \A x \in 0..(free[Len(free)] - 1) : \E j \in DOMAIN handleOf : handleOf[j] = x
        BY <1>1, <1>2, <2>2, <3>1, AllocatedFrontier DEF Live
      <3>3. free[Len(free)] + 1 <= Cardinality(Key)
        BY <1>1, <1>2, <3>2, FrontierBelow DEF Live
      <3> QED
        BY <1>1, <3>2, <3>3 DEF Live
    <2>3. Len(free) > 1 \/ Len(free) = 1
      <3> DEFINE m == Len(free)
      <3>1. m \in Nat /\ m >= 1
        BY <1>1
      <3> HIDE DEF m
      <3>2. m > 1 \/ m = 1
        BY <3>1
      <3> QED
        BY <3>2 DEF m
    <2> QED
      BY <2>1, <2>2, <2>3
  <1>7. free[1] \in 0..Cardinality(Key)
    BY <1>1, <1>6
  <1> QED
    BY <1>2, <1>5, <1>6, <1>7 DEF handleOf

LEMMA SetCacheMaps ==
    ASSUME IInv, NEW k \in Cacheable, NEW v \in Cached, SetCache(k, v)
    PROVE  /\ IsReady(caches', CacheValue) /\ k \in Live
           /\ at(caches') = With(at(caches), k, v)
           /\ caches'.numItems = Cardinality(items(caches'))
           /\ handles' = handles /\ free' = free
  <1>1. /\ IsReady(caches, CacheValue)
        /\ caches.numItems = Cardinality(items(caches)) /\ Cardinality(items(caches)) \in Nat
    BY IInvParts
  <1>2. /\ k \in Live /\ handles' = handles /\ free' = free /\ numIndices(caches') <= MaxIndices
        /\ caches' = atPut(caches, k, v)
    BY DEF SetCache
  <1>3. PICK n \in Sizes : n <= 64 /\ Ready(caches, n, CacheValue)
    BY <1>1 DEF IsReady
  <1>4. PICK more \in {0, 1} : more = IF k \in DOMAIN at(caches) THEN 0 ELSE 1
    OBVIOUS
  <1>5. Becomes(caches', CacheValue, With(at(caches), k, v),
                caches.numItems + more, Cardinality(items(caches)) + more)
    <2>1. v \in CacheValue /\ k \in Key
      BY TablesAssumption DEF CacheValue
    <2> QED
      BY <1>2, <1>3, <1>4, <2>1, AtPutOf, Bounds
  <1>6. /\ IsReady(caches', CacheValue) /\ at(caches') = With(at(caches), k, v)
        /\ caches'.numItems = caches.numItems + more
        /\ Cardinality(items(caches')) = Cardinality(items(caches)) + more
    BY <1>2, <1>5, ReadyWithin
  <1> QED
    BY <1>1, <1>2, <1>6

LEMMA DisposeMaps ==
    ASSUME IInv, NEW k \in Key, Dispose(k)
    PROVE  /\ IsReady(handles', HandleValue) /\ IsReady(caches', CacheValue) /\ k \in Live
           /\ at(handles') = Without(at(handles), k) /\ at(caches') = Without(at(caches), k)
           /\ caches'.numItems = Cardinality(items(caches'))
           /\ Shares(at(handles'), free') /\ free'[Len(free')] <= Cardinality(Key)
  <1>1. /\ IsReady(handles, HandleValue) /\ IsReady(caches, CacheValue)
        /\ caches.numItems = Cardinality(items(caches)) /\ Cardinality(items(caches)) \in Nat
        /\ Shares(handleOf, free) /\ free[Len(free)] <= Cardinality(Key)
    BY IInvParts
  <1>2. /\ k \in Live /\ handles' = remove(handles, k) /\ caches' = remove(caches, k)
        /\ free' = <<handleOf[k]>> \o free
    BY DEF Dispose, freeHandle
  <1>3. IsReady(handles', HandleValue) /\ at(handles') = Without(at(handles), k)
    <2>1. PICK n \in Sizes : n <= 64 /\ Ready(handles, n, HandleValue)
      BY <1>1 DEF IsReady
    <2>2. Ready(handles', n, HandleValue) /\ at(handles') = Without(at(handles), k)
      BY <1>2, <2>1, RemoveOf, Bounds
    <2> QED
      BY <2>1, <2>2 DEF IsReady
  <1>4. /\ IsReady(caches', CacheValue) /\ at(caches') = Without(at(caches), k)
        /\ caches'.numItems = Cardinality(items(caches'))
    <2>1. PICK n \in Sizes : n <= 64 /\ Ready(caches, n, CacheValue)
      BY <1>1 DEF IsReady
    <2>2. PICK less \in {0, 1} : less = IF k \in DOMAIN at(caches) THEN 1 ELSE 0
      OBVIOUS
    <2>3. /\ Ready(caches', n, CacheValue) /\ at(caches') = Without(at(caches), k)
          /\ caches'.numItems = caches.numItems - less
          /\ Cardinality(items(caches')) = Cardinality(items(caches)) - less
      BY <1>2, <2>1, <2>2, RemoveOf, Bounds
    <2> QED
      BY <1>1, <2>1, <2>3 DEF IsReady
  <1>5. Shares(Without(handleOf, k), free') /\ free'[Len(free')] = free[Len(free)]
    <2>1. free \in Seq(Nat) /\ free # <<>> /\ handleOf[k] \in Nat
      BY <1>1, <1>2 DEF Shares, Live
    <2>2. Prepends(free', handleOf[k], free)
      BY <1>2, <2>1, Pushed
    <2> QED
      BY <1>1, <1>2, <2>2, Released DEF Live
  <1> QED
    BY <1>1, <1>2, <1>3, <1>4, <1>5 DEF handleOf

-----------------------------------------------------------------------------
(***************************************************************************)
(* A collection.  The loops over the handles to free take them out of the  *)
(* caches and put them in the free list, one after the other.              *)
(***************************************************************************)

Minus(map, K) == [x \in DOMAIN map \ K |-> map[x]]

LEMMA MinusOne ==
    ASSUME NEW map, NEW K, NEW k
    PROVE  Without(Minus(map, K), k) = Minus(map, K \cup {k})
  <1>1. (DOMAIN map \ K) \ {k} = DOMAIN map \ (K \cup {k})
    OBVIOUS
  <1> QED
    BY <1>1 DEF Without, Minus

\* The keys of the handles at the dense indices S below i.
KeysBelow(S, i) == {handles.keys[c] : c \in {c \in S : c < i}}

LEMMA KeysBelowNext ==
    ASSUME NEW S \in SUBSET Nat, NEW i \in Nat
    PROVE  /\ KeysBelow(S, 0) = {}
           /\ i \in S => KeysBelow(S, i + 1) = KeysBelow(S, i) \cup {handles.keys[i]}
           /\ i \notin S => KeysBelow(S, i + 1) = KeysBelow(S, i)
  <1>1. {c \in S : c < 0} = {}
    <2>1. \A c \in S : c \in Nat /\ ~ (c < 0)
      OBVIOUS
    <2> QED
      BY <2>1
  <1>2. KeysBelow(S, 0) = {}
    BY <1>1 DEF KeysBelow
  <1> DEFINE Below(b) == {c \in S : c < b}
  <1>3. ASSUME NEW c \in S PROVE c < i + 1 <=> c < i \/ c = i
    <2>1. c \in Nat
      OBVIOUS
    <2> QED
      BY <2>1
  <1>4. /\ i \in S => Below(i + 1) = Below(i) \cup {i}
        /\ i \notin S => Below(i + 1) = Below(i)
    BY <1>3
  <1>5. ASSUME i \in S PROVE KeysBelow(S, i + 1) = KeysBelow(S, i) \cup {handles.keys[i]}
    BY <1>4, <1>5 DEF KeysBelow
  <1>6. ASSUME i \notin S PROVE KeysBelow(S, i + 1) = KeysBelow(S, i)
    BY <1>4, <1>6 DEF KeysBelow
  <1> QED
    BY <1>2, <1>5, <1>6

\* The dense indices of the handles, and their keys.
LEMMA HandleItems ==
    ASSUME IInv, NEW S \in SUBSET items(handles)
    PROVE  /\ S \in SUBSET Nat /\ handles.nextIndex \in Nat
           /\ \A c \in S : /\ c < handles.nextIndex
                           /\ handles.keys[c] \in Live /\ handles.keys[c] \in Key
                           /\ handleOf[handles.keys[c]] = handles.values[c]
                           /\ handles.values[c] \in Nat
           /\ \A b, c \in S : handles.keys[b] = handles.keys[c] => b = c
  <1>1. IsReady(handles, HandleValue) /\ Shares(handleOf, free) /\ Live \subseteq Key
    BY IInvParts
  <1>2. Agrees(handles)
    BY <1>1, IsReadyOf
  <1>3. handles.nextIndex \in Nat
    BY <1>1, ItemsBelow DEF IsReady, Ready
  <1>4. \A c \in items(handles) : c \in Nat /\ c < handles.nextIndex
    BY <1>3 DEF items
  <1>5. \A c \in items(handles) : /\ handles.keys[c] \in Live
                                  /\ handleOf[handles.keys[c]] = handles.values[c]
    BY <1>2 DEF Agrees, handleOf, Live
  <1>6. \A k \in Live : handleOf[k] \in Nat
    BY <1>1 DEF Shares, Live
  <1>7. \A b, c \in items(handles) : handles.keys[b] = handles.keys[c] => b = c
    BY <1>2 DEF Agrees
  <1> QED
    BY <1>1, <1>3, <1>4, <1>5, <1>6, <1>7

\* The loop that FreeHandles() stands for.
Frees(f, S) ==
    f = [i \in 0..handles.nextIndex |->
           IF i = 0 THEN free
           ELSE (IF i - 1 \in S THEN <<handles.values[i - 1]>> ELSE <<>>) \o f[i - 1]]

LEMMA FreesExists ==
    ASSUME IInv, NEW S \in SUBSET items(handles)
    PROVE  \E f : Frees(f, S)
  <1> DEFINE m == handles.nextIndex
             X == Seq(Nat)
             first(i) == IF i - 1 \in S THEN <<handles.values[i - 1]>> ELSE <<>>
             step == [z \in (0..m) \X X |-> first(z[1]) \o z[2]]
  <1>1. m \in Nat /\ \A c \in S : handles.values[c] \in Nat
    BY HandleItems
  <1>2. free \in X
    BY IInvParts
  <1>3. \A i : first(i) \in X
    <2>1. ASSUME NEW i PROVE first(i) \in X
      <3>1. CASE i - 1 \in S
        BY <1>1, <3>1
      <3>2. CASE ~ (i - 1 \in S)
        BY <3>2
      <3> QED
        BY <3>1, <3>2
    <2> QED
      BY <2>1
  <1> HIDE DEF first, m
  <1>4. step \in [(0..m) \X X -> X]
    <2>1. ASSUME NEW i \in 0..m, NEW x \in X PROVE first(i) \o x \in X
      <3>1. first(i) \in X
        BY <1>3
      <3> QED
        BY <3>1
    <2> HIDE DEF X
    <2> QED
      BY <2>1
  <1>5. PICK f \in [0..m -> X] : f = [i \in 0..m |-> IF i = 0 THEN free ELSE step[<<i, f[i - 1]>>]]
    <2> HIDE DEF X, step
    <2>1. HasRun(m, X, free, step)
      BY <1>1, <1>2, <1>4, FiniteRecursion
    <2> QED
      BY <2>1 DEF HasRun
  <1>6. ASSUME NEW i \in 0..m, i # 0 PROVE step[<<i, f[i - 1]>>] = first(i) \o f[i - 1]
    <2>1. i - 1 \in 0..m
      BY <1>1, <1>6
    <2>2. f[i - 1] \in X
      BY <2>1
    <2> HIDE DEF X
    <2> QED
      BY <2>2
  <1>7. f = [i \in 0..m |-> IF i = 0 THEN free ELSE first(i) \o f[i - 1]]
    <2> HIDE DEF X, step
    <2> QED
      BY <1>5, <1>6
  <1> QED
    BY <1>7 DEF Frees, first, m

\* The handles at S are in the list, and those of the other objects are not.
LEMMA FreedHandles ==
    ASSUME IInv, NEW S \in SUBSET items(handles), FreeHandles(S)
    PROVE  /\ Shares(Minus(handleOf, {handles.keys[c] : c \in S}), free')
           /\ free'[Len(free')] = free[Len(free)]
  <1> DEFINE m == handles.nextIndex
             g == CHOOSE f : Frees(f, S)
             Good(i) == /\ Shares(Minus(handleOf, KeysBelow(S, i)), g[i])
                        /\ g[i][Len(g[i])] = free[Len(free)]
             T == {i \in Nat : i <= m => Good(i)}
  <1>1. free' = g[m]
    BY DEF FreeHandles, Frees
  <1>2. Frees(g, S)
    BY FreesExists
  <1> HIDE DEF g
  <1>3. /\ S \in SUBSET Nat /\ m \in Nat
        /\ \A c \in S : /\ c < m /\ handles.keys[c] \in Live
                        /\ handleOf[handles.keys[c]] = handles.values[c]
                        /\ handles.values[c] \in Nat
        /\ \A b, c \in S : handles.keys[b] = handles.keys[c] => b = c
    BY HandleItems
  <1>4. /\ g[0] = free
        /\ \A i \in 0..m : i # 0 =>
              g[i] = (IF i - 1 \in S THEN <<handles.values[i - 1]>> ELSE <<>>) \o g[i - 1]
    <2> DEFINE body(i) == (IF i - 1 \in S THEN <<handles.values[i - 1]>> ELSE <<>>) \o g[i - 1]
    <2>1. g = [i \in 0..m |-> IF i = 0 THEN free ELSE body(i)]
      BY <1>2 DEF Frees
    <2>2. 0 \in 0..m
      BY <1>3
    <2> HIDE DEF body, m
    <2>3. g[0] = free /\ \A i \in 0..m : i # 0 => g[i] = body(i)
      BY <2>1, <2>2
    <2> QED
      BY <2>3 DEF body, m
  <1> HIDE DEF m
  <1>5. 0 \in T
    <2>1. KeysBelow(S, 0) = {}
      BY <1>3, KeysBelowNext
    <2>2. Minus(handleOf, {}) = handleOf
      <3>1. handleOf = [k \in DOMAIN handleOf |-> handleOf[k]]
        BY IInvParts, IsReadyOf DEF Agrees, handleOf
      <3>2. DOMAIN handleOf \ {} = DOMAIN handleOf
        OBVIOUS
      <3> QED
        BY <3>1, <3>2 DEF Minus
    <2>3. Shares(handleOf, free)
      BY IInvParts
    <2> QED
      BY <1>4, <2>1, <2>2, <2>3
  <1>6. ASSUME NEW i \in T PROVE i + 1 \in T
    <2>1. i \in Nat
      OBVIOUS
    <2>2. SUFFICES ASSUME i + 1 <= m PROVE Good(i + 1)
      BY <2>1
    <2>3. /\ i + 1 \in 0..m /\ i + 1 # 0 /\ (i + 1) - 1 = i /\ i <= m
      BY <1>3, <2>1, <2>2
    <2>4. Good(i)
      BY <2>1, <2>3
    <2>5. g[i + 1] = (IF i \in S THEN <<handles.values[i]>> ELSE <<>>) \o g[i]
      BY <1>4, <2>3
    <2> DEFINE h == Minus(handleOf, KeysBelow(S, i))
    <2>6. g[i] \in Seq(Nat)
      BY <2>4 DEF Shares
    <2>7. CASE i \in S
      <3>1. KeysBelow(S, i + 1) = KeysBelow(S, i) \cup {handles.keys[i]}
        BY <1>3, <2>1, <2>7, KeysBelowNext
      <3>2. handles.keys[i] \notin KeysBelow(S, i)
        <4>1. SUFFICES ASSUME handles.keys[i] \in KeysBelow(S, i) PROVE FALSE
          OBVIOUS
        <4>2. PICK c \in S : c < i /\ handles.keys[c] = handles.keys[i]
          BY <4>1 DEF KeysBelow
        <4>3. c = i
          BY <1>3, <2>7, <4>2
        <4> QED
          BY <2>1, <4>2, <4>3
      <3>3. handles.keys[i] \in DOMAIN h /\ h[handles.keys[i]] = handles.values[i]
        BY <1>3, <2>7, <3>2 DEF Minus, Live
      <3>4. Prepends(g[i + 1], h[handles.keys[i]], g[i])
        <4>1. g[i + 1] = <<h[handles.keys[i]]>> \o g[i]
          BY <2>5, <2>7, <3>3
        <4>2. h[handles.keys[i]] \in Nat /\ g[i] # <<>>
          BY <1>3, <2>4, <2>7, <3>3 DEF Shares
        <4> HIDE DEF h
        <4> QED
          BY <2>6, <4>1, <4>2, Pushed
      <3>5. Shares(h, g[i])
        BY <2>4
      <3> HIDE DEF h
      <3>6. /\ Shares(Without(h, handles.keys[i]), g[i + 1])
            /\ g[i + 1][Len(g[i + 1])] = g[i][Len(g[i])]
        BY <3>3, <3>4, <3>5, Released
      <3>7. Without(h, handles.keys[i]) = Minus(handleOf, KeysBelow(S, i + 1))
        BY <3>1, MinusOne DEF h
      <3> QED
        BY <2>4, <3>6, <3>7
    <2>8. CASE i \notin S
      <3>1. KeysBelow(S, i + 1) = KeysBelow(S, i)
        BY <1>3, <2>1, <2>8, KeysBelowNext
      <3>2. g[i + 1] = g[i]
        <4>1. g[i + 1] = <<>> \o g[i]
          BY <2>5, <2>8
        <4> QED
          BY <2>6, <4>1, ConcatEmptySeq
      <3> QED
        BY <2>4, <3>1, <3>2
    <2> QED
      BY <2>7, <2>8
  <1>7. T = Nat
    <2>1. T \in SUBSET Nat
      OBVIOUS
    <2> HIDE DEF T
    <2> QED
      BY <1>5, <1>6, <2>1, SetInduction
  <1>8. Good(m)
    BY <1>3, <1>7
  <1>9. KeysBelow(S, m) = {handles.keys[c] : c \in S}
    <2>1. {c \in S : c < m} = S
      BY <1>3
    <2> QED
      BY <2>1 DEF KeysBelow
  <1> QED
    BY <1>1, <1>8, <1>9

\* The loop that CachesWithout() stands for.
Drops(c, S) ==
    c = [i \in 0..handles.nextIndex |->
           IF i = 0 THEN caches
           ELSE IF i - 1 \in S THEN remove(c[i - 1], handles.keys[i - 1])
           ELSE c[i - 1]]

LEMMA DropsExists ==
    ASSUME IInv, NEW S \in SUBSET items(handles), NEW n \in Sizes, Ready(caches, n, CacheValue)
    PROVE  \E c : Drops(c, S)
  <1> DEFINE m == handles.nextIndex
             X == {d \in [indices : [0..(n - 1) -> Int],
                          keys : [0..(maxCapacity(n) - 1) -> Key \cup {NoKey}],
                          values : [0..(maxCapacity(n) - 1) -> CacheValue],
                          nextIndex : Nat, numItems : Nat] : Ready(d, n, CacheValue)}
             drop(i, d) == IF i - 1 \in S THEN remove(d, handles.keys[i - 1]) ELSE d
             step == [z \in (0..m) \X X |-> drop(z[1], z[2])]
  <1>1. m \in Nat /\ \A c \in S : handles.keys[c] \in Key
    BY HandleItems
  <1>2. \A d : d \in X <=> Ready(d, n, CacheValue)
    <2>1. ASSUME NEW d, Ready(d, n, CacheValue) PROVE Fields(d, n, CacheValue)
      BY <2>1, ReadyOf, IntactOf
    <2> QED
      BY <2>1 DEF Fields
  <1> HIDE DEF X, m
  <1>3. ASSUME NEW i, NEW d \in X PROVE drop(i, d) \in X
    <2>1. CASE i - 1 \in S
      <3>1. handles.keys[i - 1] \in Key
        BY <1>1, <2>1
      <3>2. PICK less \in {0, 1} : less = IF handles.keys[i - 1] \in DOMAIN at(d) THEN 1 ELSE 0
        OBVIOUS
      <3>3. Ready(remove(d, handles.keys[i - 1]), n, CacheValue)
        BY <1>2, <3>1, <3>2, RemoveOf, Bounds
      <3> QED
        BY <1>2, <2>1, <3>3
    <2>2. CASE ~ (i - 1 \in S)
      BY <2>2
    <2> QED
      BY <2>1, <2>2
  <1> HIDE DEF drop
  <1>4. step \in [(0..m) \X X -> X]
    BY <1>3
  <1>5. caches \in X
    BY <1>2
  <1>6. PICK f \in [0..m -> X] : f = [i \in 0..m |-> IF i = 0 THEN caches ELSE step[<<i, f[i - 1]>>]]
    <2> HIDE DEF step
    <2>1. HasRun(m, X, caches, step)
      BY <1>1, <1>4, <1>5, FiniteRecursion
    <2> QED
      BY <2>1 DEF HasRun
  <1>7. ASSUME NEW i \in 0..m, i # 0 PROVE step[<<i, f[i - 1]>>] = drop(i, f[i - 1])
    <2>1. i - 1 \in 0..m
      BY <1>1, <1>7
    <2>2. f[i - 1] \in X
      BY <2>1
    <2> QED
      BY <2>2
  <1>8. f = [i \in 0..m |-> IF i = 0 THEN caches ELSE drop(i, f[i - 1])]
    <2> HIDE DEF step
    <2> QED
      BY <1>6, <1>7
  <1> QED
    BY <1>8 DEF Drops, drop, m

\* The cached values of the objects whose handles are at S go.
LEMMA DroppedCaches ==
    ASSUME IInv, NEW S \in SUBSET items(handles), NEW n \in Sizes, Ready(caches, n, CacheValue)
    PROVE  /\ Ready(CachesWithout(S), n, CacheValue)
           /\ CachesWithout(S).numItems = Cardinality(items(CachesWithout(S)))
           /\ at(CachesWithout(S)) = Minus(cacheOf, {handles.keys[c] : c \in S})
  <1> DEFINE m == handles.nextIndex
             g == CHOOSE c : Drops(c, S)
             Good(i) == /\ Ready(g[i], n, CacheValue)
                        /\ g[i].numItems = Cardinality(items(g[i]))
                        /\ at(g[i]) = Minus(cacheOf, KeysBelow(S, i))
             T == {i \in Nat : i <= m => Good(i)}
  <1>1. CachesWithout(S) = g[m]
    BY DEF CachesWithout, Drops
  <1>2. Drops(g, S)
    BY DropsExists
  <1> HIDE DEF g
  <1>3. /\ S \in SUBSET Nat /\ m \in Nat
        /\ \A c \in S : c < m /\ handles.keys[c] \in Key
    BY HandleItems
  <1>4. /\ g[0] = caches
        /\ \A i \in 0..m : i # 0 =>
              /\ i - 1 \in S => g[i] = remove(g[i - 1], handles.keys[i - 1])
              /\ i - 1 \notin S => g[i] = g[i - 1]
    <2> DEFINE body(i) == IF i - 1 \in S THEN remove(g[i - 1], handles.keys[i - 1]) ELSE g[i - 1]
    <2>1. g = [i \in 0..m |-> IF i = 0 THEN caches ELSE body(i)]
      BY <1>2 DEF Drops
    <2>2. 0 \in 0..m
      BY <1>3
    <2>3. ASSUME NEW i
          PROVE  /\ i - 1 \in S => body(i) = remove(g[i - 1], handles.keys[i - 1])
                 /\ i - 1 \notin S => body(i) = g[i - 1]
      OBVIOUS
    <2> HIDE DEF body, m
    <2>4. g[0] = caches /\ \A i \in 0..m : i # 0 => g[i] = body(i)
      BY <2>1, <2>2
    <2> QED
      BY <2>3, <2>4
  <1> HIDE DEF m
  <1>5. 0 \in T
    <2>1. KeysBelow(S, 0) = {}
      BY <1>3, KeysBelowNext
    <2>2. Minus(cacheOf, {}) = cacheOf
      <3>1. cacheOf = [k \in DOMAIN cacheOf |-> cacheOf[k]]
        BY IInvParts, IsReadyOf DEF Agrees, cacheOf
      <3>2. DOMAIN cacheOf \ {} = DOMAIN cacheOf
        OBVIOUS
      <3> QED
        BY <3>1, <3>2 DEF Minus
    <2>3. caches.numItems = Cardinality(items(caches))
      BY IInvParts
    <2> QED
      BY <1>4, <2>1, <2>2, <2>3 DEF cacheOf
  <1>6. ASSUME NEW i \in T PROVE i + 1 \in T
    <2>1. i \in Nat
      OBVIOUS
    <2>2. SUFFICES ASSUME i + 1 <= m PROVE Good(i + 1)
      BY <2>1
    <2>3. i + 1 \in 0..m /\ i + 1 # 0 /\ (i + 1) - 1 = i /\ i <= m
      BY <1>3, <2>1, <2>2
    <2>4. Good(i)
      BY <2>1, <2>3
    <2>5. CASE i \in S
      <3> DEFINE k == handles.keys[i]
      <3>1. k \in Key /\ g[i + 1] = remove(g[i], k)
        BY <1>3, <1>4, <2>3, <2>5
      <3>2. KeysBelow(S, i + 1) = KeysBelow(S, i) \cup {k}
        BY <1>3, <2>1, <2>5, KeysBelowNext
      <3> HIDE DEF k
      <3>3. PICK less \in {0, 1} : less = IF k \in DOMAIN at(g[i]) THEN 1 ELSE 0
        OBVIOUS
      <3>4. Ready(g[i], n, CacheValue)
        BY <2>4
      <3>5. /\ Ready(g[i + 1], n, CacheValue) /\ at(g[i + 1]) = Without(at(g[i]), k)
            /\ g[i + 1].numItems = g[i].numItems - less
            /\ Cardinality(items(g[i + 1])) = Cardinality(items(g[i])) - less
        BY <3>1, <3>3, <3>4, RemoveOf, Bounds
      <3>6. Without(at(g[i]), k) = Minus(cacheOf, KeysBelow(S, i + 1))
        BY <2>4, <3>2, MinusOne
      <3>7. g[i + 1].numItems = Cardinality(items(g[i + 1]))
        BY <2>4, <3>5
      <3> QED
        BY <3>5, <3>6, <3>7
    <2>6. CASE i \notin S
      <3>1. KeysBelow(S, i + 1) = KeysBelow(S, i)
        BY <1>3, <2>1, <2>6, KeysBelowNext
      <3>2. g[i + 1] = g[i]
        BY <1>4, <2>3, <2>6
      <3> QED
        BY <2>4, <3>1, <3>2
    <2> QED
      BY <2>5, <2>6
  <1>7. T = Nat
    <2>1. T \in SUBSET Nat
      OBVIOUS
    <2> HIDE DEF T
    <2> QED
      BY <1>5, <1>6, <2>1, SetInduction
  <1>8. Good(m)
    BY <1>3, <1>7
  <1>9. KeysBelow(S, m) = {handles.keys[c] : c \in S}
    <2>1. {c \in S : c < m} = S
      BY <1>3
    <2> QED
      BY <2>1 DEF KeysBelow
  <1> QED
    BY <1>1, <1>8, <1>9

\* A collection frees the handles of the objects of freed, and moves the others.
LEMMA CollectMaps ==
    ASSUME IInv, NEW freed \in SUBSET Live, NEW move \in Moves(Live \ freed), Collect(freed, move)
    PROVE  /\ IsReady(handles', HandleValue) /\ IsReady(caches', CacheValue)
           /\ caches'.numItems = Cardinality(items(caches'))
           /\ Moved(at(handles'), Minus(at(handles), freed), move)
           /\ Moved(at(caches'), Minus(at(caches), freed), move)
           /\ Shares(at(handles'), free') /\ free'[Len(free')] <= Cardinality(Key)
  <1> DEFINE dead == Dead(freed)
             kept == items(handles) \ dead
  <1>1. /\ IsReady(handles, HandleValue) /\ IsReady(caches, CacheValue)
        /\ caches.numItems = Cardinality(items(caches))
        /\ DOMAIN cacheOf \subseteq Live /\ Live \subseteq Key
        /\ free[Len(free)] <= Cardinality(Key)
    BY IInvParts
  <1>2. /\ RebuildHandles(kept, move) /\ FreeHandles(dead) /\ FollowCaches(freed, move)
        /\ numIndices(handles') <= MaxIndices
    BY DEF Collect
  <1>3. /\ \A k \in Live \ freed : move[k] \in Key
        /\ \A j, k \in Live \ freed : move[j] = move[k] => j = k
    BY DEF Moves
  <1>4. Agrees(handles) /\ Agrees(caches)
    BY <1>1, IsReadyOf
  <1>5. dead \in SUBSET items(handles) /\ kept \in SUBSET items(handles)
    BY DEF Dead
  <1>6. {handles.keys[c] : c \in dead} = freed
    <2>1. ASSUME NEW c \in dead PROVE handles.keys[c] \in freed
      BY DEF Dead
    <2>2. ASSUME NEW k \in freed PROVE \E c \in dead : handles.keys[c] = k
      <3>1. k \in DOMAIN at(handles)
        BY DEF Live, handleOf
      <3>2. PICK c \in items(handles) : handles.keys[c] = k
        BY <1>4, <3>1 DEF Agrees
      <3> QED
        BY <3>2 DEF Dead
    <2> HIDE DEF dead
    <2> QED
      BY <2>1, <2>2
  <1>7. ASSUME NEW c \in kept
        PROVE  handles.keys[c] \in Live \ freed /\ at(handles)[handles.keys[c]] = handles.values[c]
    <2>1. c \in items(handles) /\ handles.keys[c] \notin freed
      BY DEF Dead
    <2> QED
      BY <1>4, <2>1 DEF Agrees, Live, handleOf
  <1>8. ASSUME NEW k \in Live \ freed PROVE \E c \in kept : handles.keys[c] = k
    <2>1. k \in DOMAIN at(handles)
      BY DEF Live, handleOf
    <2>2. PICK c \in items(handles) : handles.keys[c] = k
      BY <1>4, <2>1 DEF Agrees
    <2> QED
      BY <2>2 DEF Dead
  <1> HIDE DEF kept, dead
  <1>9. IsReady(handles', HandleValue) /\ Carries(handles', handles, kept, move)
    <2>1. PICK n \in Sizes : n <= 64 /\ Ready(handles, n, HandleValue)
      BY <1>1 DEF IsReady
    <2>2. /\ \A c \in kept : move[handles.keys[c]] \in Key
          /\ \A b, c \in kept : move[handles.keys[b]] = move[handles.keys[c]] => b = c
      <3>1. \A b, c \in kept : handles.keys[b] = handles.keys[c] => b = c
        BY <1>4, <1>5 DEF Agrees
      <3> QED
        BY <1>3, <1>7, <3>1
    <2> DEFINE n1 == nextPowerOfTwo((handles.numItems * 3) \div 2 + 1)
    <2>3. handles' = Reinserted(handles, kept, move, n1, Cardinality(kept))
      BY <1>2 DEF RebuildHandles
    <2>4. n1 = nextPowerOfTwo((handles.numItems * 3) \div 2 + 1)
      OBVIOUS
    <2> HIDE DEF n1
    <2>5. /\ n1 \in Sizes /\ Ready(handles', n1, HandleValue) /\ numIndices(handles') = n1
          /\ Carries(handles', handles, kept, move)
      BY <1>5, <2>1, <2>2, <2>3, <2>4, RebuiltOf, Bounds
    <2>6. n1 <= 64
      <3>1. n1 \in Nat
        BY <2>5, Capacities
      <3> QED
        BY <1>2, <2>5, <3>1, Bounds
    <2> QED
      BY <2>5, <2>6 DEF IsReady
  <1>10. Moved(at(handles'), Minus(at(handles), freed), move)
    <2>1. /\ DOMAIN Minus(at(handles), freed) = Live \ freed
          /\ \A k \in Live \ freed : Minus(at(handles), freed)[k] = at(handles)[k]
      BY DEF Minus, Live, handleOf
    <2>2. ASSUME NEW k \in DOMAIN at(handles') PROVE \E j \in Live \ freed : move[j] = k
      BY <1>7, <1>9 DEF Carries
    <2>3. ASSUME NEW j \in Live \ freed
          PROVE  move[j] \in DOMAIN at(handles') /\ at(handles')[move[j]] = at(handles)[j]
      <3>1. PICK c \in kept : handles.keys[c] = j
        BY <1>8
      <3> QED
        BY <1>7, <1>9, <3>1 DEF Carries
    <2> QED
      BY <2>1, <2>2, <2>3 DEF Moved
  <1>11. Shares(Minus(at(handles), freed), free') /\ free'[Len(free')] = free[Len(free)]
    BY <1>2, <1>5, <1>6, FreedHandles DEF handleOf
  <1>12. Shares(at(handles'), free')
    BY <1>10, <1>11, SharesMoved
  <1>13. /\ IsReady(caches', CacheValue)
         /\ caches'.numItems = Cardinality(items(caches'))
         /\ Moved(at(caches'), Minus(at(caches), freed), move)
    <2>1. PICK n \in Sizes : n <= 64 /\ Ready(caches, n, CacheValue)
      BY <1>1 DEF IsReady
    <2> DEFINE d == CachesWithout(dead)
               e == visitKeys(d, move)
    <2>2. /\ Ready(d, n, CacheValue) /\ d.numItems = Cardinality(items(d))
          /\ at(d) = Minus(cacheOf, freed)
      BY <1>5, <1>6, <2>1, DroppedCaches
    <2>3. caches' = rehash(e, numIndices(e))
      BY <1>2 DEF FollowCaches, dead
    <2>4. e = visitKeys(d, move)
      OBVIOUS
    <2> HIDE DEF d, e
    <2>5. DOMAIN at(d) \subseteq Live \ freed
      BY <1>1, <2>2 DEF Minus
    <2>6. /\ \A k \in DOMAIN at(d) : move[k] \in Key
          /\ \A j, k \in DOMAIN at(d) : move[j] = move[k] => j = k
      BY <1>3, <2>5
    <2>7. /\ Ready(caches', n, CacheValue) /\ caches'.numItems = Cardinality(items(caches'))
          /\ Moved(at(caches'), at(d), move)
      BY <2>2, <2>3, <2>4, <2>6, FollowedOf, Bounds
    <2> QED
      BY <2>1, <2>2, <2>7 DEF IsReady, cacheOf
  <1> QED
    BY <1>1, <1>9, <1>10, <1>11, <1>12, <1>13

-----------------------------------------------------------------------------
(***************************************************************************)
(* The invariant holds, initially and after each step.                     *)
(***************************************************************************)

LEMMA InitShares ==
    ASSUME NEW h, DOMAIN h = {}
    PROVE  Shares(h, <<0>>) /\ <<0>>[Len(<<0>>)] = 0
  <1> DEFINE q == <<0>>
  <1>1. q \in Seq(Nat) /\ q # <<>> /\ Len(q) = 1 /\ q[1] = 0
    OBVIOUS
  <1> HIDE DEF q
  <1>2. q[Len(q)] = 0 /\ 1..(Len(q) - 1) = {}
    BY <1>1
  <1>3. \A x : ~Recycles(q, x)
    BY <1>2 DEF Recycles
  <1>4. Shares(h, q)
    BY <1>1, <1>2, <1>3 DEF Shares
  <1> QED
    BY <1>2, <1>4 DEF q

LEMMA InitIInv == Init => IInv
  <1> SUFFICES ASSUME Init PROVE IInv
    OBVIOUS
  <1>1. /\ handles = initialize(InitialHandles) /\ caches = initialize(InitialCaches)
        /\ free = <<0>>
    BY DEF Init
  <1>2. IsReady(handles, HandleValue) /\ DOMAIN at(handles) = {}
    BY <1>1, InitializedOf, Bounds DEF IsReady
  <1>3. /\ IsReady(caches, CacheValue) /\ DOMAIN at(caches) = {}
        /\ caches.numItems = Cardinality(items(caches))
    BY <1>1, InitializedOf, Bounds DEF IsReady
  <1>4. Shares(handleOf, free) /\ free[Len(free)] = 0
    BY <1>1, <1>2, InitShares DEF handleOf
  <1>5. 0 <= Cardinality(Key)
    BY DictAssumption, FS_CardinalityType
  <1> QED
    BY <1>2, <1>3, <1>4, <1>5 DEF IInv, CachesCounted, cacheOf, Live, handleOf

LEMMA NextIInv == IInv /\ [Next]_vars => IInv'
  <1> SUFFICES ASSUME IInv, [Next]_vars PROVE IInv'
    OBVIOUS
  <1>1. /\ IsReady(handles, HandleValue) /\ IsReady(caches, CacheValue)
        /\ caches.numItems = Cardinality(items(caches))
        /\ DOMAIN at(caches) \subseteq DOMAIN at(handles)
        /\ Shares(at(handles), free)
        /\ free[Len(free)] <= Cardinality(Key)
    BY IInvParts DEF cacheOf, Live, handleOf
  <1>2. SUFFICES /\ IsReady(handles', HandleValue) /\ IsReady(caches', CacheValue)
                 /\ caches'.numItems = Cardinality(items(caches'))
                 /\ DOMAIN at(caches') \subseteq DOMAIN at(handles')
                 /\ Shares(at(handles'), free')
                 /\ free'[Len(free')] <= Cardinality(Key)
    BY DEF IInv, CachesCounted, cacheOf, Live, handleOf
  <1>3. ASSUME NEW k \in Key, NewReference(k)
        PROVE  /\ IsReady(handles', HandleValue) /\ caches' = caches
               /\ DOMAIN at(handles') = DOMAIN at(handles) \cup {k}
               /\ Shares(at(handles'), free') /\ free'[Len(free')] <= Cardinality(Key)
    BY <1>3, NewReferenceMaps DEF With
  <1>4. ASSUME NEW k \in Cacheable, NEW v \in Cached, SetCache(k, v)
        PROVE  /\ IsReady(caches', CacheValue) /\ caches'.numItems = Cardinality(items(caches'))
               /\ DOMAIN at(caches') \subseteq DOMAIN at(handles)
               /\ handles' = handles /\ free' = free
    <2>1. /\ IsReady(caches', CacheValue) /\ caches'.numItems = Cardinality(items(caches'))
          /\ handles' = handles /\ free' = free
          /\ k \in DOMAIN at(handles) /\ DOMAIN at(caches') = DOMAIN at(caches) \cup {k}
      BY <1>4, SetCacheMaps DEF With, Live, handleOf
    <2> QED
      BY <1>1, <2>1
  <1>5. ASSUME NEW k \in Key, Dispose(k)
        PROVE  /\ IsReady(handles', HandleValue) /\ IsReady(caches', CacheValue)
               /\ caches'.numItems = Cardinality(items(caches'))
               /\ DOMAIN at(handles') = DOMAIN at(handles) \ {k}
               /\ DOMAIN at(caches') = DOMAIN at(caches) \ {k}
               /\ Shares(at(handles'), free') /\ free'[Len(free')] <= Cardinality(Key)
    BY <1>5, DisposeMaps DEF Without
  <1>6. ASSUME NEW freed \in SUBSET Live, NEW move \in Moves(Live \ freed), Collect(freed, move)
        PROVE  /\ IsReady(handles', HandleValue) /\ IsReady(caches', CacheValue)
               /\ caches'.numItems = Cardinality(items(caches'))
               /\ DOMAIN at(caches') \subseteq DOMAIN at(handles')
               /\ Shares(at(handles'), free') /\ free'[Len(free')] <= Cardinality(Key)
    <2>1. /\ Moved(at(handles'), Minus(at(handles), freed), move)
          /\ Moved(at(caches'), Minus(at(caches), freed), move)
      BY <1>6, CollectMaps
    <2>2. /\ DOMAIN Minus(at(handles), freed) = DOMAIN at(handles) \ freed
          /\ DOMAIN Minus(at(caches), freed) = DOMAIN at(caches) \ freed
      BY DEF Minus
    <2>3. ASSUME NEW k \in DOMAIN at(caches') PROVE k \in DOMAIN at(handles')
      <3>1. PICK j \in DOMAIN at(caches) \ freed : move[j] = k
        BY <2>1, <2>2 DEF Moved
      <3>2. j \in DOMAIN at(handles) \ freed
        BY <1>1
      <3> QED
        BY <2>1, <2>2, <3>1, <3>2 DEF Moved
    <2> QED
      BY <1>6, <2>3, CollectMaps
  <1>7. CASE UNCHANGED vars
    BY <1>1, <1>7 DEF vars
  <1>8. CASE Next
    <2>1. CASE \E k \in Key : NewReference(k)
      BY <1>1, <1>3, <2>1
    <2>2. CASE \E k \in Cacheable, v \in Cached : SetCache(k, v)
      BY <1>1, <1>4, <2>2
    <2>3. CASE \E k \in Key : Dispose(k)
      BY <1>1, <1>5, <2>3
    <2>4. CASE Collection
      BY <1>6, <2>4 DEF Collection
    <2> QED
      BY <1>8, <2>1, <2>2, <2>3, <2>4 DEF Next
  <1> QED
    BY <1>7, <1>8

-----------------------------------------------------------------------------
(***************************************************************************)
(* The handles are counted.                                                *)
(***************************************************************************)

LEMMA ImageSize ==
    ASSUME NEW S, IsFiniteSet(S), NEW g, \A x, y \in S : g[x] = g[y] => x = y,
           NEW T, \A t : t \in T <=> \E x \in S : g[x] = t
    PROVE  IsFiniteSet(T) /\ Cardinality(T) = Cardinality(S)
  <1> DEFINE f == [x \in S |-> g[x]]
  <1>1. f \in [S -> T] /\ \A x \in S : f[x] = g[x]
    OBVIOUS
  <1> HIDE DEF f
  <1>2. f \in Injection(S, T)
    BY <1>1, Fun_IsInj
  <1>3. f \in Surjection(S, T)
    BY <1>1, Fun_IsSurj
  <1> QED
    BY <1>2, <1>3, FS_Surjection

\* The handles that are recycled, and those that are in use.
Divides(R, U, h, q) ==
    /\ \A x : x \in R <=> Recycles(q, x)
    /\ \A x : x \in U <=> \E k \in DOMAIN h : h[k] = x

LEMMA SharesCount ==
    ASSUME NEW h, NEW q, Shares(h, q), IsFiniteSet(DOMAIN h),
           NEW R, NEW U, Divides(R, U, h, q)
    PROVE  /\ R \cup U = 0..(q[Len(q)] - 1)
           /\ Cardinality(R) = Len(q) - 1
           /\ Cardinality(U) = Cardinality(DOMAIN h)
           /\ Cardinality(R) + Cardinality(U) = q[Len(q)]
  <1>1. /\ q \in Seq(Nat) /\ q # <<>>
        /\ \A i, j \in 1..(Len(q) - 1) : q[i] = q[j] => i = j
        /\ \A k \in DOMAIN h : h[k] \in Nat /\ ~Recycles(q, h[k])
        /\ \A j, k \in DOMAIN h : h[j] = h[k] => j = k
        /\ \A x \in Nat : x < q[Len(q)] <=> Recycles(q, x) \/ \E k \in DOMAIN h : h[k] = x
    BY DEF Shares
  <1>2. /\ Len(q) \in Nat /\ Len(q) >= 1 /\ q[Len(q)] \in Nat
        /\ \A i \in 1..(Len(q) - 1) : q[i] \in Nat
    BY <1>1, Lengths
  <1>3. R \subseteq Nat /\ U \subseteq Nat
    BY <1>1, <1>2 DEF Recycles, Divides
  <1>4. R \cap U = {}
    BY <1>1 DEF Divides
  <1> DEFINE f == q[Len(q)]
             m == Len(q) - 1
  <1>5. \A x \in Nat : x < f <=> x \in R \/ x \in U
    BY <1>1 DEF Divides
  <1>6. f \in Nat /\ m \in Nat
    BY <1>2
  <1>7. /\ IsFiniteSet(R) /\ Cardinality(R) = Cardinality(1..m)
    <2>1. IsFiniteSet(1..m)
      BY <1>6, FS_Interval
    <2> DEFINE S == 1..m
    <2>2. \A i, j \in S : q[i] = q[j] => i = j
      BY <1>1
    <2>3. IsFiniteSet(S) /\ \A x : x \in R <=> \E i \in S : q[i] = x
      BY <2>1 DEF Recycles, Divides
    <2> HIDE DEF S
    <2>4. IsFiniteSet(R) /\ Cardinality(R) = Cardinality(S)
      BY <2>2, <2>3, ImageSize
    <2> QED
      BY <2>4 DEF S
  <1>8. IsFiniteSet(U) /\ Cardinality(U) = Cardinality(DOMAIN h)
    BY <1>1, ImageSize DEF Divides
  <1> HIDE DEF f, m
  <1>9. R \cup U = 0..(f - 1)
    <2>1. \A x : x \in 0..(f - 1) <=> x \in Nat /\ x < f
      BY <1>6
    <2> QED
      BY <1>3, <1>5, <2>1
  <1>10. Cardinality(1..m) = m
    BY <1>6, FS_Interval
  <1>11. Cardinality(0..(f - 1)) = f
    BY <1>6, FirstNumbers
  <1>12. Cardinality(R \cup U) = Cardinality(R) + Cardinality(U)
    <2>1. Cardinality(R \cap U) = 0
      BY <1>4, FS_EmptySet
    <2>2. Cardinality(R \cup U) = Cardinality(R) + Cardinality(U) - Cardinality(R \cap U)
      BY <1>7, <1>8, FS_Union
    <2>3. Cardinality(R) \in Nat /\ Cardinality(U) \in Nat
      BY <1>7, <1>8, FS_CardinalityType
    <2> QED
      BY <2>1, <2>2, <2>3
  <1> QED
    BY <1>7, <1>8, <1>9, <1>10, <1>11, <1>12 DEF f, m

LEMMA IInvPartitions == IInv => HandlesPartitioned
  <1> SUFFICES ASSUME IInv PROVE HandlesPartitioned
    OBVIOUS
  <1>1. Shares(handleOf, free) /\ Live \subseteq Key /\ IsFiniteSet(Key)
    BY IInvParts
  <1>2. IsFiniteSet(DOMAIN handleOf)
    BY <1>1, FS_Subset DEF Live
  <1> DEFINE R == {free[i] : i \in 1..(Len(free) - 1)}
             U == {handleOf[k] : k \in Live}
  <1>3. Divides(R, U, handleOf, free)
    BY DEF Recycles, Divides, Live
  <1> HIDE DEF R, U
  <1>4. /\ R \cup U = 0..(free[Len(free)] - 1)
        /\ Cardinality(R) = Len(free) - 1
        /\ Cardinality(U) = Cardinality(Live)
        /\ Cardinality(R) + Cardinality(U) = free[Len(free)]
    BY <1>1, <1>2, <1>3, SharesCount DEF Live
  <1> QED
    BY <1>4 DEF HandlesPartitioned, R, U

-----------------------------------------------------------------------------
(***************************************************************************)
(* The invariants that the runs check.                                     *)
(***************************************************************************)

\* The inductive invariant holds in every reachable state of the tables: no
\* sequence of the operations of ApiHandle and of collections breaks it.
THEOREM Invariant == Spec => []IInv
  BY InitIInv, NextIInv, PTL DEF Spec

\* The indices of both tables are of a size that the code gives them, and name
\* dense entries that were given out (api-handle.cpp:167-172), for every hash.
THEOREM TablesTyped == Spec => []TypeOK
  <1>1. IInv => TypeOK
    BY IInvImplies
  <1> QED
    BY <1>1, Invariant, PTL

\* There is always room for one more item (api-handle.cpp:182), also after a
\* collection that leaves num_items_ above the number of entries: atPut() never
\* writes past the dense arrays, and a probe always ends.
THEOREM RoomIsKept == Spec => []SpaceForOneMore
  <1>1. IInv => SpaceForOneMore
    BY IInvImplies
  <1> QED
    BY <1>1, Invariant, PTL

\* An entry that nextItem() returns is the one that at() finds, for every hash:
\* tombstones, growth and rehashing never hide an entry from its probe.
THEOREM IterationAndLookupAgree == Spec => []EntriesAreFound
  <1>1. IInv => EntriesAreFound
    BY IInvImplies
  <1> QED
    BY <1>1, Invariant, PTL

\* allocateHandle(), freeHandle() and the loop of a collection that frees many
\* handles never give one handle to two objects, and never lose one.
THEOREM HandlesAreSharedOut == Spec => []HandlesPartitioned
  <1> QED
    BY IInvPartitions, Invariant, PTL

\* num_items_ of the caches is the number of their entries, as the rehash() of
\* a collection relies on (api-handle.cpp:259).
THEOREM CachesAreCounted == Spec => []CachesCounted
  <1>1. IInv => CachesCounted
    BY IInvImplies
  <1> QED
    BY <1>1, Invariant, PTL

-----------------------------------------------------------------------------
(***************************************************************************)
(* The refinement of HandleMap.                                            *)
(***************************************************************************)

LEMMA InitRefines == Init => Tables!Init
  <1> SUFFICES ASSUME Init PROVE Tables!Init
    OBVIOUS
  <1>1. handles = initialize(InitialHandles) /\ caches = initialize(InitialCaches)
    BY DEF Init
  <1>2. DOMAIN at(handles) = {} /\ at(handles) = [k \in DOMAIN at(handles) |-> at(handles)[k]]
    BY <1>1, InitializedOf, Bounds
  <1>3. DOMAIN at(caches) = {} /\ at(caches) = [k \in DOMAIN at(caches) |-> at(caches)[k]]
    BY <1>1, InitializedOf, Bounds
  <1>4. ASSUME NEW f, DOMAIN f = {}, f = [k \in DOMAIN f |-> f[k]] PROVE f = [k \in {} |-> {}]
    BY <1>4
  <1> QED
    BY <1>2, <1>3, <1>4 DEF Tables!Init, handleOf, cacheOf

\* A function of which all that a collection tells is known.
LEMMA MovedInjective ==
    ASSUME NEW f, NEW g, NEW move, Moved(g, f, move),
           \A j, k \in DOMAIN f : f[j] = f[k] => j = k
    PROVE  /\ \A i, k \in DOMAIN g : g[i] = g[k] => i = k
           /\ \A k \in DOMAIN g : \E j \in DOMAIN f : move[j] = k /\ f[j] = g[k]
  <1>1. ASSUME NEW k \in DOMAIN g PROVE \E j \in DOMAIN f : move[j] = k /\ f[j] = g[k]
    BY DEF Moved
  <1>2. ASSUME NEW i \in DOMAIN g, NEW k \in DOMAIN g, g[i] = g[k] PROVE i = k
    <2>1. PICK j1 \in DOMAIN f : move[j1] = i /\ f[j1] = g[i]
      BY <1>1
    <2>2. PICK j2 \in DOMAIN f : move[j2] = k /\ f[j2] = g[k]
      BY <1>1
    <2>3. j1 = j2
      BY <1>2, <2>1, <2>2
    <2> QED
      BY <2>1, <2>2, <2>3
  <1> QED
    BY <1>1, <1>2

\* Where the objects of g were: a handle belongs to one object.
Origins(g, f) == [k \in DOMAIN g |-> CHOOSE j \in DOMAIN f : f[j] = g[k]]

GoesWith(e, c, origin) ==
    e = [k \in {k \in DOMAIN origin : origin[k] \in DOMAIN c} |-> c[origin[k]]]

\* A kept handle tells where its object was, and so where its cached value goes.
LEMMA OriginsFollowed ==
    ASSUME NEW f, NEW c, DOMAIN c \subseteq DOMAIN f, \A j, k \in DOMAIN f : f[j] = f[k] => j = k,
           NEW freed, NEW move,
           NEW g, Moved(g, Minus(f, freed), move), NEW e, Moved(e, Minus(c, freed), move),
           e = [k \in DOMAIN e |-> e[k]],
           NEW origin, origin = Origins(g, f)
    PROVE  /\ \A k \in DOMAIN g : \E j \in DOMAIN f : f[j] = g[k]
           /\ \A i, k \in DOMAIN g : g[i] = g[k] => i = k
           /\ GoesWith(e, c, origin)
  <1>1. /\ DOMAIN Minus(f, freed) = DOMAIN f \ freed
        /\ \A j \in DOMAIN f \ freed : Minus(f, freed)[j] = f[j]
        /\ DOMAIN Minus(c, freed) = DOMAIN c \ freed
        /\ \A j \in DOMAIN c \ freed : Minus(c, freed)[j] = c[j]
    BY DEF Minus
  <1>2. /\ \A i, k \in DOMAIN g : g[i] = g[k] => i = k
        /\ \A k \in DOMAIN g : \E j \in DOMAIN f \ freed : move[j] = k /\ f[j] = g[k]
    <2>1. \A j, k \in DOMAIN Minus(f, freed) :
             Minus(f, freed)[j] = Minus(f, freed)[k] => j = k
      BY <1>1
    <2>2. /\ \A i, k \in DOMAIN g : g[i] = g[k] => i = k
          /\ \A k \in DOMAIN g : \E j \in DOMAIN Minus(f, freed) :
                move[j] = k /\ Minus(f, freed)[j] = g[k]
      BY <2>1, MovedInjective
    <2> QED
      BY <1>1, <2>2
  <1>3. /\ DOMAIN origin = DOMAIN g
        /\ \A k \in DOMAIN g : origin[k] = CHOOSE j \in DOMAIN f : f[j] = g[k]
    BY DEF Origins
  <1>4. ASSUME NEW k \in DOMAIN g, NEW j \in DOMAIN f, f[j] = g[k] PROVE origin[k] = j
    <2>1. origin[k] \in DOMAIN f /\ f[origin[k]] = g[k]
      BY <1>3, <1>4
    <2> QED
      BY <1>4, <2>1
  <1>5. ASSUME NEW k \in DOMAIN e PROVE k \in DOMAIN g /\ origin[k] \in DOMAIN c /\ e[k] = c[origin[k]]
    <2>1. PICK j \in DOMAIN c \ freed : move[j] = k /\ e[k] = c[j]
      BY <1>1 DEF Moved
    <2>2. k \in DOMAIN g /\ g[k] = f[j]
      BY <1>1, <2>1 DEF Moved
    <2>3. origin[k] = j
      BY <1>4, <2>1, <2>2
    <2> QED
      BY <2>1, <2>2, <2>3
  <1>6. ASSUME NEW k \in DOMAIN g, origin[k] \in DOMAIN c PROVE k \in DOMAIN e
    <2>1. PICK j \in DOMAIN f \ freed : move[j] = k /\ f[j] = g[k]
      BY <1>2
    <2>2. origin[k] = j
      BY <1>4, <2>1
    <2>3. j \in DOMAIN c \ freed
      BY <1>6, <2>2
    <2> QED
      BY <1>1, <2>1, <2>3 DEF Moved
  <1>7. DOMAIN e = {k \in DOMAIN origin : origin[k] \in DOMAIN c}
    BY <1>3, <1>5, <1>6
  <1>8. GoesWith(e, c, origin)
    BY <1>5, <1>7 DEF GoesWith
  <1> QED
    BY <1>2, <1>8

LEMMA NewReferenceRefines ==
    ASSUME IInv, NEW k \in Key, NewReference(k)
    PROVE  Tables!New(k)
  <1>1. /\ k \notin DOMAIN handleOf /\ handleOf' = With(handleOf, k, free[1])
        /\ cacheOf' = cacheOf
        /\ \A j \in DOMAIN handleOf : handleOf[j] # free[1]
        /\ free[1] \in 0..Cardinality(Key)
    BY NewReferenceMaps DEF Live, handleOf, cacheOf
  <1>2. free[1] \in (0..Cardinality(Key)) \ Tables!Range(handleOf)
    BY <1>1 DEF Tables!Range
  <1>3. handleOf' = Tables!With(handleOf, k, free[1])
    BY <1>1 DEF With, Tables!With
  <1> QED
    BY <1>1, <1>2, <1>3 DEF Tables!New

LEMMA SetCacheRefines ==
    ASSUME IInv, NEW k \in Cacheable, NEW v \in Cached, SetCache(k, v)
    PROVE  Tables!SetCache(k, v)
  <1>1. /\ k \in DOMAIN handleOf /\ handleOf' = handleOf
        /\ cacheOf' = With(cacheOf, k, v)
    BY SetCacheMaps DEF Live, handleOf, cacheOf
  <1> QED
    BY <1>1 DEF With, Tables!With, Tables!SetCache

LEMMA DisposeRefines ==
    ASSUME IInv, NEW k \in Key, Dispose(k)
    PROVE  Tables!Dispose(k)
  <1>1. /\ k \in DOMAIN handleOf /\ handleOf' = Without(handleOf, k)
        /\ cacheOf' = Without(cacheOf, k)
    BY DisposeMaps DEF Live, handleOf, cacheOf
  <1> QED
    BY <1>1 DEF Without, Tables!Restrict, Tables!Dispose

LEMMA CollectRefines ==
    ASSUME IInv, NEW freed \in SUBSET Live, NEW move \in Moves(Live \ freed), Collect(freed, move)
    PROVE  Tables!Collect
  <1> DEFINE f == at(handles)
             c == at(caches)
             g == at(handles')
             e == at(caches')
             origin == Origins(g, f)
  <1>1. DOMAIN c \subseteq DOMAIN f /\ \A j, k \in DOMAIN f : f[j] = f[k] => j = k
    BY IInvParts DEF cacheOf, Live, handleOf, Shares
  <1>2. Moved(g, Minus(f, freed), move) /\ Moved(e, Minus(c, freed), move)
    BY CollectMaps
  <1>3. e = [k \in DOMAIN e |-> e[k]]
    BY CollectMaps, IsReadyOf DEF Agrees
  <1>4. /\ f = handleOf /\ c = cacheOf /\ g = handleOf' /\ e = cacheOf'
    BY DEF handleOf, cacheOf
  <1>5. origin = Origins(g, f)
    OBVIOUS
  <1> HIDE DEF f, c, g, e, origin
  <1>6. /\ \A k \in DOMAIN g : \E j \in DOMAIN f : f[j] = g[k]
        /\ \A i, k \in DOMAIN g : g[i] = g[k] => i = k
        /\ GoesWith(e, c, origin)
    BY <1>1, <1>2, <1>3, <1>5, OriginsFollowed
  <1>7. Tables!Range(g) \subseteq Tables!Range(f) /\ Tables!IsInjective(g)
    BY <1>6 DEF Tables!Range, Tables!IsInjective
  <1> QED
    BY <1>4, <1>5, <1>6, <1>7 DEF Tables!Collect, Origins, GoesWith

\* The two hash tables and the free list implement the map from objects to
\* handles and cached values that the C-API relies on: through collisions,
\* tombstones, growth, and collections that move the keys and drop entries, an
\* object keeps its handle and its cached value, and no other takes them.
THEOREM HandleMapImplemented == Spec => ImplementsHandleMap
  <1>1. IInv /\ [Next]_vars => [Tables!Next]_<<handleOf, cacheOf>>
    <2> SUFFICES ASSUME IInv, [Next]_vars PROVE [Tables!Next]_<<handleOf, cacheOf>>
      OBVIOUS
    <2>1. ASSUME NEW k \in Key, NewReference(k) PROVE Tables!Next
      BY <2>1, NewReferenceRefines DEF Tables!Next
    <2>2. ASSUME NEW k \in Cacheable, NEW v \in Cached, SetCache(k, v) PROVE Tables!Next
      BY <2>2, SetCacheRefines, TablesAssumption DEF Tables!Next
    <2>3. ASSUME NEW k \in Key, Dispose(k) PROVE Tables!Next
      BY <2>3, DisposeRefines DEF Tables!Next
    <2>4. ASSUME NEW freed \in SUBSET Live, NEW move \in Moves(Live \ freed), Collect(freed, move)
          PROVE  Tables!Next
      BY <2>4, CollectRefines DEF Tables!Next
    <2>5. CASE Next
      BY <2>1, <2>2, <2>3, <2>4, <2>5 DEF Next, Collection
    <2>6. CASE UNCHANGED vars
      BY <2>6 DEF vars, handleOf, cacheOf
    <2> QED
      BY <2>5, <2>6
  <1> QED
    BY <1>1, InitRefines, Invariant, PTL DEF Spec, ImplementsHandleMap, Tables!Spec
=============================================================================
