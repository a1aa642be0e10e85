----------------------------- MODULE DictProofs -----------------------------
(***************************************************************************)
(* Proofs about Dict, for every set of keys, every hash and dicts of every *)
(* size: a probe visits every index, so that a lookup ends; and what an    *)
(* operation leaves is a well-formed dict, whatever the lookups before it  *)
(* called, as long as an __eq__ does no more than look keys up; and each   *)
(* operation does to the list of the items what OrderedDict says.          *)
(***************************************************************************)
EXTENDS Dict, FiniteSetTheorems, FunctionTheorems, NaturalsInduction,
        SequenceTheorems, WellFoundedInduction, TLAPS

(***************************************************************************)
(* Induction and recursion on numbers, for sets of them.                   *)
(***************************************************************************)

\* A set of numbers with 0 and the successor of each of its members is Nat.
LEMMA SetInduction ==
    ASSUME NEW S \in SUBSET Nat, 0 \in S, \A n \in S : n + 1 \in S
    PROVE  S = Nat
  <1> DEFINE T == Nat \ S
             R == {ss \in Nat \X Nat : ss[1] < ss[2]}
  <1>1. R = OpToRel(<, Nat)
    BY DEF OpToRel
  <1>2. IsWellFoundedOn(R, Nat)
    BY <1>1, NatLessThanWellFounded
  <1>3. SUFFICES ASSUME T # {} PROVE FALSE
    OBVIOUS
  <1> HIDE DEF R, T
  <1>4. T \subseteq Nat
    BY DEF T
  <1>5. PICK x \in T : \A y \in T : ~ (<<y, x>> \in R)
    BY <1>2, <1>3, <1>4, WFMin
  <1>6. x \in Nat /\ x # 0 /\ x - 1 \in Nat /\ x = (x - 1) + 1
    BY <1>4 DEF T
  <1>7. x - 1 \notin S
    BY <1>6 DEF T
  <1>8. x - 1 \in T /\ <<x - 1, x>> \in R
    BY <1>6, <1>7 DEF T, R
  <1> QED
    BY <1>5, <1>8

\* A set of numbers has a least member.
LEMMA LeastNumber ==
    ASSUME NEW S \in SUBSET Nat, S # {}
    PROVE  \E x \in S : \A y \in S : x <= y
  <1> DEFINE R == {ss \in Nat \X Nat : ss[1] < ss[2]}
  <1>1. R = OpToRel(<, Nat)
    BY DEF OpToRel
  <1>2. IsWellFoundedOn(R, Nat)
    BY <1>1, NatLessThanWellFounded
  <1> HIDE DEF R
  <1>3. PICK x \in S : \A y \in S : ~ (<<y, x>> \in R)
    BY <1>2, WFMin
  <1>4. \A y \in S : ~ (y < x)
    BY <1>3 DEF R
  <1> QED
    BY <1>4

\* A loop that runs m times has a sequence of states.
HasRun(m, X, x0, step) ==
    \E f \in [0..m -> X] : f = [i \in 0..m |-> IF i = 0 THEN x0 ELSE step[<<i, f[i - 1]>>]]

\* There is a function that satisfies the equations of a finite recursion.
LEMMA FiniteRecursion ==
    ASSUME NEW m \in Nat, NEW X, NEW x0 \in X, NEW step \in [(0..m) \X X -> X]
    PROVE  HasRun(m, X, x0, step)
  <1> DEFINE Runs(k) == \E f \in [0..m -> X] :
                           f[0] = x0 /\ \A i \in 1..m : i <= k => f[i] = step[<<i, f[i - 1]>>]
             S == {k \in Nat : Runs(k)}
  <1>1. 0 \in S
    <2> DEFINE f == [i \in 0..m |-> x0]
    <2>1. f \in [0..m -> X] /\ f[0] = x0 /\ \A i \in 1..m : i <= 0 => f[i] = step[<<i, f[i - 1]>>]
      OBVIOUS
    <2> QED
      BY <2>1
  <1>2. ASSUME NEW k \in S PROVE k + 1 \in S
    <2>1. k \in Nat
      OBVIOUS
    <2>2. PICK f \in [0..m -> X] :
             f[0] = x0 /\ \A i \in 1..m : i <= k => f[i] = step[<<i, f[i - 1]>>]
      OBVIOUS
    <2> DEFINE g == [i \in 0..m |-> IF i = k + 1 THEN step[<<i, f[i - 1]>>] ELSE f[i]]
    <2>3. ASSUME NEW i \in 0..m PROVE g[i] \in X
      <3>1. CASE i = k + 1
        <4>1. i - 1 \in 0..m
          BY <2>1, <3>1
        <4> QED
          BY <3>1, <4>1
      <3> QED
        BY <3>1
    <2>4. g \in [0..m -> X]
      BY <2>3
    <2>5. g[0] = x0
      BY <2>1, <2>2
    <2>6. ASSUME NEW i \in 1..m, i <= k + 1 PROVE g[i] = step[<<i, g[i - 1]>>]
      <3>1. i - 1 \in 0..m /\ i - 1 # k + 1 /\ i \in 0..m
        BY <2>1, <2>6
      <3>2. g[i - 1] = f[i - 1]
        BY <3>1
      <3>3. CASE i = k + 1
        BY <3>1, <3>2, <3>3
      <3>4. CASE i # k + 1
        <4>1. g[i] = f[i] /\ i <= k
          BY <2>1, <2>6, <3>1, <3>4
        <4> QED
          BY <2>2, <3>2, <4>1
      <3> QED
        BY <3>3, <3>4
    <2>7. Runs(k + 1)
      BY <2>4, <2>5, <2>6
    <2> QED
      BY <2>1, <2>7
  <1> HIDE DEF Runs
  <1>3. S = Nat
    <2> HIDE DEF S
    <2>1. S \in SUBSET Nat
      BY DEF S
    <2> QED
      BY <1>1, <1>2, <2>1, SetInduction
  <1>4. Runs(m)
    BY <1>3
  <1>5. PICK f \in [0..m -> X] :
           f[0] = x0 /\ \A i \in 1..m : i <= m => f[i] = step[<<i, f[i - 1]>>]
    BY <1>4 DEF Runs
  <1>6. ASSUME NEW i \in 0..m PROVE f[i] = IF i = 0 THEN x0 ELSE step[<<i, f[i - 1]>>]
    BY <1>5
  <1>7. f = [i \in 0..m |-> IF i = 0 THEN x0 ELSE step[<<i, f[i - 1]>>]]
    BY <1>6
  <1> QED
    BY <1>7 DEF HasRun
(***************************************************************************)
(* A probe visits every index.  probeNext() is a linear congruential       *)
(* generator whose period is the number of indices, a power of two.        *)
(***************************************************************************)

\* The numbers of indices: 2, and twice a number of indices.
Size(n) ==
    /\ n \in Nat
    /\ \A S \in SUBSET Nat : 2 \in S /\ (\A m \in S : m + m \in S) => n \in S

\* Growth doubles the number of indices.
LEMMA SizeTwice ==
    ASSUME NEW n, Size(n)
    PROVE  Size(n + n)
  <1>1. n + n \in Nat
    BY DEF Size
  <1>2. ASSUME NEW S \in SUBSET Nat, 2 \in S, \A m \in S : m + m \in S
        PROVE  n + n \in S
    <2>1. n \in S
      BY <1>2 DEF Size
    <2> QED
      BY <1>2, <2>1
  <1> QED
    BY <1>1, <1>2 DEF Size

\* The number of indices of a new dict.
LEMMA InitialSize ==
    Size(kInitialDictIndicesLength)
  <1>1. Size(2)
    BY DEF Size
  <1>2. Size(2 + 2) /\ 2 + 2 = 4
    BY <1>1, SizeTwice
  <1>3. Size(4 + 4) /\ 4 + 4 = 8
    <2>1. Size(4)
      BY <1>2
    <2> QED
      BY <2>1, SizeTwice
  <1> QED
    BY <1>1, <1>2, <1>3, DictAssumption

\* A number of indices is at least 2.
LEMMA SizeIs ==
    ASSUME NEW n, Size(n)
    PROVE  n \in Nat /\ n >= 2
  <1> DEFINE S == {m \in Nat : m >= 2}
  <1>1. S \in SUBSET Nat /\ 2 \in S /\ \A m \in S : m + m \in S
    OBVIOUS
  <1>2. n \in S
    BY <1>1 DEF Size
  <1> QED
    BY <1>2

\* The probe without the remainders.
Generated(q, m) ==
    /\ q \in [0..m -> Nat]
    /\ \A i \in 0..(m - 1) : q[i + 1] = 5 * q[i] + 1

\* n steps of it multiply by 4c + 1 and add c.
Jump(q, m, n, c) == \A i \in 0..m : i + n <= m => q[i + n] = (4 * c + 1) * q[i] + c

\* c is an odd multiple of n.
OddJump(q, m, n) == \E v \in Nat : Jump(q, m, n, n * (2 * v + 1))

\* The first n members have all remainders.
Covers(q, n) ==
    \A r \in 0..(n - 1) : \E i \in 0..(n - 1), k \in Nat : q[i] = k * n + r

\* When n steps jump by an odd multiple of n, so do twice as many by one of 2n.
LEMMA OddJumpTwice ==
    ASSUME NEW m \in Nat, NEW q, Generated(q, m), NEW n \in Nat, OddJump(q, m, n)
    PROVE  OddJump(q, m, n + n)
  <1>1. PICK v \in Nat : Jump(q, m, n, n * (2 * v + 1))
    BY DEF OddJump
  <1> DEFINE c == n * (2 * v + 1)
             w == v * (2 * c + 1) + c
             e == (n + n) * (2 * w + 1)
  <1>2. c \in Nat /\ w \in Nat /\ e \in Nat
    OBVIOUS
  <1>3. e = c * (4 * c + 2)
    <2>1. 2 * w + 1 = (2 * v + 1) * (2 * c + 1)
      OBVIOUS
    <2>2. e = (n + n) * ((2 * v + 1) * (2 * c + 1))
      BY <2>1
    <2>3. e = 2 * (c * (2 * c + 1))
      BY <2>2
    <2> QED
      BY <2>3, <1>2
  <1>4. Jump(q, m, n, c)
    BY <1>1
  <1> HIDE DEF c, e, w
  <1>5. ASSUME NEW i \in 0..m, i + (n + n) <= m
        PROVE  q[i + (n + n)] = (4 * e + 1) * q[i] + e
    <2>1. i + n \in 0..m /\ i + n <= m /\ (i + n) + n <= m /\ (i + n) + n = i + (n + n)
      BY <1>5
    <2>2. q[i + n] = (4 * c + 1) * q[i] + c
      BY <2>1, <1>4 DEF Jump
    <2>3. q[(i + n) + n] = (4 * c + 1) * q[i + n] + c
      BY <2>1, <1>4 DEF Jump
    <2>4. q[i] \in Nat
      BY DEF Generated
    <2>5. ASSUME NEW x \in Nat
          PROVE  (4 * c + 1) * ((4 * c + 1) * x + c) + c = (4 * (c * (4 * c + 2)) + 1) * x + c * (4 * c + 2)
      BY <1>2
    <2> QED
      BY <2>1, <2>2, <2>3, <2>4, <2>5, <1>3
  <1>6. Jump(q, m, n + n, e)
    BY <1>5 DEF Jump
  <1>7. Jump(q, m, n + n, (n + n) * (2 * w + 1))
    BY <1>6 DEF e
  <1> QED
    BY <1>2, <1>7 DEF OddJump

\* When the first n members have all remainders of n, the first 2n have all of 2n.
LEMMA CoversTwice ==
    ASSUME NEW m \in Nat, NEW q, Generated(q, m), NEW n \in Nat, n + n <= m,
           OddJump(q, m, n), Covers(q, n)
    PROVE  Covers(q, n + n)
  <1> SUFFICES ASSUME NEW r \in 0..((n + n) - 1)
               PROVE  \E i \in 0..((n + n) - 1), k \in Nat : q[i] = k * (n + n) + r
    BY Zenon DEF Covers
  <1> DEFINE high == IF r < n THEN 0 ELSE 1
             low == r - high * n
  <1>1. low \in 0..(n - 1) /\ high \in 0..1 /\ r = low + high * n
    OBVIOUS
  <1>2. PICK i \in 0..(n - 1), k \in Nat : q[i] = k * n + low
    BY <1>1 DEF Covers
  <1>3. PICK v \in Nat : Jump(q, m, n, n * (2 * v + 1))
    BY DEF OddJump
  <1>4. i \in 0..(n + n - 1) /\ i + n \in 0..(n + n - 1) /\ i \in 0..m /\ i + n <= m
    OBVIOUS
  <1>5. q[i] \in Nat
    BY <1>4 DEF Generated
  <1> DEFINE x == q[i]
             odd == (2 * v + 1) * (4 * x + 1)
             half == v * (4 * x + 1) + 2 * x
  <1>14. ASSUME NEW a \in 0..((n + n) - 1), NEW b \in Nat, q[a] = b * (n + n) + r
         PROVE  \E e \in 0..((n + n) - 1), d \in Nat : q[e] = d * (n + n) + r
    BY <1>14, Zenon
  <1>6. q[i + n] = x + n * odd
    <2>1. q[i + n] = (4 * (n * (2 * v + 1)) + 1) * q[i] + n * (2 * v + 1)
      BY <1>3, <1>4 DEF Jump
    <2> QED
      BY <2>1, <1>5
  <1>7. odd = 2 * half + 1 /\ half \in Nat
    BY <1>5
  <1> HIDE DEF odd, half, low, high
  <1>8. PICK j \in Nat : k = 2 * j \/ k = 2 * j + 1
    <2>1. k \div 2 \in Nat /\ (k = 2 * (k \div 2) \/ k = 2 * (k \div 2) + 1)
      OBVIOUS
    <2> QED
      BY <2>1
  <1>9. low \in Nat /\ x = k * n + low /\ n \in Nat /\ odd \in Nat
    BY <1>1, <1>2, <1>5, <1>7
  <1> HIDE DEF x
  <1>10. CASE k = 2 * j /\ high = 0
    <2>1. x = j * (n + n) + r
      BY <1>1, <1>9, <1>10
    <2> QED
      BY <1>4, <1>14, <2>1 DEF x
  <1>11. CASE k = 2 * j + 1 /\ high = 1
    <2>1. x = j * (n + n) + r
      BY <1>1, <1>9, <1>11
    <2> QED
      BY <1>4, <1>14, <2>1 DEF x
  <1>12. CASE k = 2 * j + 1 /\ high = 0
    <2>1. r = low
      BY <1>1, <1>9, <1>12
    <2>2. x + n * odd = (j + half + 1) * (n + n) + r
      BY <1>7, <1>9, <1>12, <2>1
    <2>3. j + half + 1 \in Nat
      BY <1>7
    <2> QED
      BY <1>4, <1>6, <1>14, <2>2, <2>3
  <1>13. CASE k = 2 * j /\ high = 1
    <2>1. r = low + n
      BY <1>1, <1>9, <1>13
    <2>2. x + n * odd = (j + half) * (n + n) + r
      BY <1>7, <1>9, <1>13, <2>1
    <2>3. j + half \in Nat
      BY <1>7
    <2> QED
      BY <1>4, <1>6, <1>14, <2>2, <2>3
  <1> QED
    BY <1>1, <1>8, <1>10, <1>11, <1>12, <1>13

\* The first n members have all remainders, for every number of indices.
LEMMA CoversAll ==
    ASSUME NEW n, Size(n), NEW m \in Nat, n <= m, NEW q, Generated(q, m)
    PROVE  Covers(q, n)
  <1> DEFINE S == {k \in Nat : OddJump(q, m, k) /\ (k <= m => Covers(q, k))}
  <1>1. OddJump(q, m, 1) /\ 1 \in Nat
    <2>1. ASSUME NEW i \in 0..m, i + 1 <= m PROVE q[i + 1] = (4 * (1 * (2 * 0 + 1)) + 1) * q[i] + 1 * (2 * 0 + 1)
      <3>1. i \in 0..(m - 1) /\ q[i] \in Nat
        BY <2>1 DEF Generated
      <3> QED
        BY <3>1 DEF Generated
    <2>2. Jump(q, m, 1, 1 * (2 * 0 + 1))
      BY <2>1 DEF Jump
    <2> QED
      BY <2>2 DEF OddJump
  <1>2. Covers(q, 1)
    <2>1. q[0] \in Nat /\ q[0] = q[0] * 1 + 0 /\ 0 \in 0..(1 - 1) /\ \A r \in 0..(1 - 1) : r = 0
      BY DEF Generated
    <2> QED
      BY <2>1 DEF Covers
  <1>3. 2 \in S
    <2>1. OddJump(q, m, 1 + 1)
      BY <1>1, OddJumpTwice
    <2>2. ASSUME 2 <= m PROVE Covers(q, 1 + 1)
      BY <1>1, <1>2, <2>2, CoversTwice
    <2> QED
      BY <2>1, <2>2
  <1>4. ASSUME NEW k \in S PROVE k + k \in S
    <2>1. k \in Nat /\ OddJump(q, m, k) /\ (k <= m => Covers(q, k)) /\ k + k \in Nat
      OBVIOUS
    <2>2. OddJump(q, m, k + k)
      BY <2>1, OddJumpTwice
    <2>3. ASSUME k + k <= m PROVE Covers(q, k + k)
      <3>1. k <= m
        BY <2>1, <2>3
      <3> QED
        BY <2>1, <2>3, <3>1, CoversTwice
    <2> QED
      BY <2>1, <2>2, <2>3
  <1> HIDE DEF S
  <1>5. S \in SUBSET Nat
    BY DEF S
  <1>6. n \in S
    BY <1>3, <1>4, <1>5 DEF Size
  <1> QED
    BY <1>6 DEF S

\* A number has one remainder.
LEMMA OneRemainder ==
    ASSUME NEW n \in Nat, NEW x \in 0..(n - 1), NEW y \in 0..(n - 1), NEW j \in Nat, NEW k \in Nat,
           j * n + x = k * n + y
    PROVE  x = y
  <1>1. CASE j = k
    BY <1>1
  <1>2. CASE j < k
    <2>1. PICK d \in Nat : k = j + 1 + d
      <3>1. k - j - 1 \in Nat /\ k = j + 1 + (k - j - 1)
        BY <1>2
      <3> QED
        BY <3>1
    <2>2. k * n = j * n + n + d * n /\ d * n \in Nat /\ j * n \in Nat
      BY <2>1
    <2> QED
      BY <2>2
  <1>3. CASE k < j
    <2>1. PICK d \in Nat : j = k + 1 + d
      <3>1. j - k - 1 \in Nat /\ j = k + 1 + (j - k - 1)
        BY <1>3
      <3> QED
        BY <3>1
    <2>2. j * n = k * n + n + d * n /\ d * n \in Nat /\ k * n \in Nat
      BY <2>1
    <2> QED
      BY <2>2
  <1> QED
    BY <1>1, <1>2, <1>3

\* The division of a number.
LEMMA Remainder ==
    ASSUME NEW n \in Nat, n >= 1, NEW x \in Nat
    PROVE  x % n \in 0..(n - 1) /\ x \div n \in Nat /\ x = ((x \div n) * n) + (x % n)
  OBVIOUS

\* The steps of a probe.
LEMMA StepsOf ==
    ASSUME NEW n \in Nat
    PROVE  Steps(n) \in Nat /\ Steps(n) >= n /\ kPerturbShifts \in Nat /\ Steps(n) = n + kPerturbShifts
  BY DictAssumption DEF Steps

\* The function that the shifts compute.
LEMMA PerturbIs ==
    ASSUME NEW h \in Nat, NEW m \in Nat, m >= 1
    PROVE  /\ Perturb(h, m) \in [1..m -> Nat]
           /\ Perturb(h, m)[1] = h
           /\ \A i \in 1..(m - 1) : Perturb(h, m)[i + 1] = Perturb(h, m)[i] \div 32
  <1> DEFINE last == m - 1
             step == [z \in (0..last) \X Nat |-> z[2] \div 32]
             Is(p) == p = [i \in 1..m |-> IF i = 1 THEN h ELSE p[i - 1] \div 32]
  <1>1. last \in Nat
    OBVIOUS
  <1>2. HasRun(last, Nat, h, step)
    <2>1. step \in [(0..last) \X Nat -> Nat]
      OBVIOUS
    <2> HIDE DEF step, last
    <2> QED
      BY <1>1, <2>1, FiniteRecursion
  <1>3. PICK f \in [0..last -> Nat] : f = [i \in 0..last |-> IF i = 0 THEN h ELSE step[<<i, f[i - 1]>>]]
    BY <1>2 DEF HasRun
  <1>4. f[0] = h /\ \A i \in 1..last : f[i] = f[i - 1] \div 32
    <2>1. f[0] = h
      BY <1>1, <1>3
    <2>2. ASSUME NEW i \in 1..last PROVE f[i] = f[i - 1] \div 32
      <3>1. i \in 0..last /\ i # 0 /\ i - 1 \in 0..last
        BY <1>1
      <3>2. f[i] = step[<<i, f[i - 1]>>]
        BY <1>3, <3>1
      <3>3. f[i - 1] \in Nat
        BY <3>1
      <3> QED
        BY <3>1, <3>2, <3>3
    <2> QED
      BY <2>1, <2>2
  <1> DEFINE g == [i \in 1..m |-> f[i - 1]]
  <1>5. Is(g)
    <2>1. ASSUME NEW i \in 1..m PROVE g[i] = IF i = 1 THEN h ELSE g[i - 1] \div 32
      <3>1. CASE i = 1
        BY <1>4, <3>1
      <3>2. CASE i # 1
        <4>1. i - 1 \in 1..last /\ i - 1 \in 1..m /\ g[i] = f[i - 1] /\ g[i - 1] = f[(i - 1) - 1]
          BY <3>2
        <4> QED
          BY <1>4, <3>2, <4>1
      <3> QED
        BY <3>1, <3>2
    <2> QED
      BY <2>1
  <1>6. Perturb(h, m) = CHOOSE p : Is(p)
    BY DEF Perturb
  <1> DEFINE p == Perturb(h, m)
  <1>7. Is(p)
    <2> HIDE DEF Is
    <2> QED
      BY <1>5, <1>6
  <1> HIDE DEF p
  <1>8. p[1] = h /\ \A i \in 1..(m - 1) : p[i + 1] = p[i] \div 32
    <2>1. 1 \in 1..m
      OBVIOUS
    <2>2. p[1] = h
      BY <1>7, <2>1
    <2>3. ASSUME NEW i \in 1..(m - 1) PROVE p[i + 1] = p[i] \div 32
      <3>1. i + 1 \in 1..m /\ i + 1 # 1 /\ (i + 1) - 1 = i
        OBVIOUS
      <3> QED
        BY <1>7, <3>1
    <2> QED
      BY <2>2, <2>3
  <1>9. p \in [1..m -> Nat]
    <2> DEFINE S == {k \in Nat : k + 1 \in 1..m => p[k + 1] \in Nat}
    <2>1. 0 \in S
      BY <1>8
    <2>2. ASSUME NEW k \in S PROVE k + 1 \in S
      <3>1. k \in Nat
        OBVIOUS
      <3>2. ASSUME (k + 1) + 1 \in 1..m PROVE p[(k + 1) + 1] \in Nat
        <4>1. k + 1 \in 1..(m - 1) /\ k + 1 \in 1..m
          BY <3>1, <3>2
        <4>2. p[k + 1] \in Nat
          BY <4>1
        <4>3. p[(k + 1) + 1] = p[k + 1] \div 32
          BY <1>8, <4>1
        <4> QED
          BY <4>2, <4>3
      <3> QED
        BY <3>1, <3>2
    <2>3. S = Nat
      <3> HIDE DEF S
      <3>1. S \in SUBSET Nat
        BY DEF S
      <3> QED
        BY <2>1, <2>2, <3>1, SetInduction
    <2>4. ASSUME NEW i \in 1..m PROVE p[i] \in Nat
      <3> DEFINE k == i - 1
      <3>1. k \in Nat /\ k + 1 = i /\ k + 1 \in 1..m
        OBVIOUS
      <3> HIDE DEF k
      <3>2. k \in S
        <4> HIDE DEF S
        <4> QED
          BY <2>3, <3>1
      <3>3. p[k + 1] \in Nat
        BY <3>1, <3>2
      <3> QED
        BY <3>1, <3>3
    <2>5. DOMAIN p = 1..m /\ p = [i \in 1..m |-> p[i]]
      BY <1>7
    <2> QED
      BY <2>4, <2>5
  <1> QED
    BY <1>8, <1>9 DEF p

\* The shifts do not depend on how many follow.
LEMMA PerturbAgrees ==
    ASSUME NEW h \in Nat, NEW m \in Nat, m >= 1, NEW l \in Nat, m <= l, NEW i \in 1..m
    PROVE  Perturb(h, l)[i] = Perturb(h, m)[i]
  <1> DEFINE p == Perturb(h, m)
             q == Perturb(h, l)
             S == {k \in Nat : k + 1 \in 1..m => q[k + 1] = p[k + 1]}
  <1>1. p[1] = h /\ \A j \in 1..(m - 1) : p[j + 1] = p[j] \div 32
    BY PerturbIs
  <1>2. q[1] = h /\ \A j \in 1..(l - 1) : q[j + 1] = q[j] \div 32
    BY PerturbIs
  <1> HIDE DEF p, q
  <1>3. 0 \in S
    BY <1>1, <1>2
  <1>4. ASSUME NEW k \in S PROVE k + 1 \in S
    <2>1. k \in Nat /\ k + 1 \in Nat
      OBVIOUS
    <2>2. ASSUME (k + 1) + 1 \in 1..m PROVE q[(k + 1) + 1] = p[(k + 1) + 1]
      <3>1. k + 1 \in 1..m /\ k + 1 \in 1..(m - 1) /\ k + 1 \in 1..(l - 1)
        BY <2>1, <2>2
      <3>2. q[k + 1] = p[k + 1]
        BY <3>1
      <3> QED
        BY <1>1, <1>2, <3>1, <3>2
    <2> QED
      BY <2>1, <2>2
  <1>5. S = Nat
    <2> HIDE DEF S
    <2>1. S \in SUBSET Nat
      BY DEF S
    <2> QED
      BY <1>3, <1>4, <2>1, SetInduction
  <1>6. i - 1 \in Nat /\ (i - 1) + 1 = i
    OBVIOUS
  <1> QED
    BY <1>5, <1>6 DEF p, q

\* Enough shifts leave nothing of a hash: whatever the hash, there is a
\* kPerturbShifts that the assumption on the hashes is true of.
LEMMA ShiftsExhaust ==
    ASSUME NEW h \in Nat
    PROVE  Perturb(h, h + 1)[h + 1] = 0
  <1> DEFINE p == Perturb(h, h + 1)
             S == {k \in Nat : k + 1 \in 1..(h + 1) => p[k + 1] \in Nat /\ (p[k + 1] = 0 \/ p[k + 1] + k <= h)}
  <1>1. p \in [1..(h + 1) -> Nat] /\ p[1] = h /\ \A i \in 1..h : p[i + 1] = p[i] \div 32
    <2>1. h + 1 \in Nat /\ h + 1 >= 1 /\ (h + 1) - 1 = h
      OBVIOUS
    <2> QED
      BY <2>1, PerturbIs
  <1> HIDE DEF p
  <1>2. 0 \in S
    BY <1>1
  <1>3. ASSUME NEW k \in S PROVE k + 1 \in S
    <2>1. k \in Nat /\ k + 1 \in Nat
      OBVIOUS
    <2>2. ASSUME (k + 1) + 1 \in 1..(h + 1)
          PROVE  /\ p[(k + 1) + 1] \in Nat
                 /\ p[(k + 1) + 1] = 0 \/ p[(k + 1) + 1] + (k + 1) <= h
      <3>1. k + 1 \in 1..(h + 1) /\ k + 1 \in 1..h
        BY <2>1, <2>2
      <3>2. p[k + 1] \in Nat /\ (p[k + 1] = 0 \/ p[k + 1] + k <= h)
        BY <3>1
      <3>3. p[(k + 1) + 1] = p[k + 1] \div 32
        BY <1>1, <3>1
      <3>4. \A x \in Nat : x \div 32 \in Nat /\ (x \div 32 = 0 \/ x \div 32 + 1 <= x)
        OBVIOUS
      <3> QED
        BY <2>1, <3>2, <3>3, <3>4
    <2> QED
      BY <2>1, <2>2
  <1>4. S = Nat
    <2> HIDE DEF S
    <2>1. S \in SUBSET Nat
      BY DEF S
    <2> QED
      BY <1>2, <1>3, <2>1, SetInduction
  <1>5. h \in S /\ h + 1 \in 1..(h + 1)
    BY <1>4
  <1> QED
    BY <1>5 DEF p

\* A hash that kPerturbShifts shifts leave nothing of.
Exhausted(h) == h \in Nat /\ Perturb(h, kPerturbShifts + 1)[kPerturbShifts + 1] = 0

\* Nothing of the hash is left in the last n steps of a probe.
LEMMA PerturbVanishes ==
    ASSUME NEW h, Exhausted(h), NEW m \in Nat, kPerturbShifts + 1 <= m,
           NEW i \in (kPerturbShifts + 1)..m
    PROVE  Perturb(h, m)[i] = 0
  <1> DEFINE c == kPerturbShifts + 1
             p == Perturb(h, m)
             S == {k \in Nat : c + k \in 1..m => p[c + k] = 0}
  <1>1. h \in Nat /\ c \in Nat /\ c >= 1 /\ m >= 1
    BY DictAssumption DEF Exhausted
  <1>2. \A j \in 1..(m - 1) : p[j + 1] = p[j] \div 32
    BY <1>1, PerturbIs
  <1>3. p[c] = 0
    <2>1. Perturb(h, c)[c] = 0
      BY DEF Exhausted
    <2>2. c \in 1..c /\ c <= m
      BY <1>1
    <2> HIDE DEF c
    <2>3. Perturb(h, m)[c] = Perturb(h, c)[c]
      BY <1>1, <2>2, PerturbAgrees
    <2> QED
      BY <2>1, <2>3
  <1>4. i - c \in Nat /\ c + (i - c) = i /\ i \in 1..m
    BY <1>1
  <1> HIDE DEF p, c
  <1>5. 0 \in S
    BY <1>1, <1>3
  <1>6. ASSUME NEW k \in S PROVE k + 1 \in S
    <2>1. k \in Nat /\ k + 1 \in Nat
      OBVIOUS
    <2>2. ASSUME c + (k + 1) \in 1..m PROVE p[c + (k + 1)] = 0
      <3>1. c + k \in 1..m /\ c + k \in 1..(m - 1) /\ c + (k + 1) = (c + k) + 1
        BY <1>1, <2>1, <2>2
      <3>2. p[c + k] = 0
        BY <3>1
      <3>3. p[(c + k) + 1] = p[c + k] \div 32
        BY <1>2, <3>1
      <3>4. 0 \div 32 = 0
        OBVIOUS
      <3> QED
        BY <3>1, <3>2, <3>3, <3>4
    <2> QED
      BY <2>1, <2>2
  <1>7. S = Nat
    <2> HIDE DEF S
    <2>1. S \in SUBSET Nat
      BY DEF S
    <2> QED
      BY <1>5, <1>6, <2>1, SetInduction
  <1> QED
    BY <1>4, <1>7 DEF p

\* The function that a probe computes.
LEMMA ProbeIs ==
    ASSUME NEW h \in Nat, NEW n \in Nat, n >= 1
    PROVE  /\ Probe(h, n) \in [1..Steps(n) -> 0..(n - 1)]
           /\ Probe(h, n)[1] = h % n
           /\ \A i \in 1..(Steps(n) - 1) :
                  Probe(h, n)[i + 1] = (Probe(h, n)[i] * 5 + 1 + Perturb(h, Steps(n))[i + 1]) % n
  <1> DEFINE X == 0..(n - 1)
             x0 == h % n
             steps == Steps(n)
             m == steps - 1
             perturb == Perturb(h, steps)
             step == [z \in (0..m) \X X |-> (z[2] * 5 + 1 + perturb[z[1] + 1]) % n]
             Is(p) == p = [i \in 1..steps |-> IF i = 1 THEN h % n ELSE (p[i - 1] * 5 + 1 + perturb[i]) % n]
  <1>1. m \in Nat /\ x0 \in X /\ steps \in Nat /\ steps >= 1 /\ \A i \in 1..steps : perturb[i] \in Nat
    <2>1. steps \in Nat /\ steps >= 1
      BY StepsOf
    <2>2. perturb \in [1..steps -> Nat]
      BY <2>1, PerturbIs
    <2>3. x0 \in X
      BY Remainder
    <2> HIDE DEF steps, perturb, x0, X
    <2> QED
      BY <2>1, <2>2, <2>3
  <1> HIDE DEF steps, perturb
  <1>2. step \in [(0..m) \X X -> X]
    <2>1. ASSUME NEW z \in (0..m) \X X PROVE (z[2] * 5 + 1 + perturb[z[1] + 1]) % n \in X
      <3>1. z[2] * 5 + 1 + perturb[z[1] + 1] \in Nat
        <4>1. z[1] + 1 \in 1..steps /\ z[2] \in Nat
          BY <1>1
        <4>2. perturb[z[1] + 1] \in Nat
          BY <1>1, <4>1
        <4> QED
          BY <4>1, <4>2
      <3> QED
        BY <3>1, Remainder
    <2> QED
      BY <2>1
  <1>3. HasRun(m, X, x0, step)
    <2> HIDE DEF m, X, x0, step
    <2> QED
      BY <1>1, <1>2, FiniteRecursion
  <1>4. PICK f \in [0..m -> X] : f = [i \in 0..m |-> IF i = 0 THEN x0 ELSE step[<<i, f[i - 1]>>]]
    BY <1>3 DEF HasRun
  <1>5. f[0] = x0 /\ \A i \in 1..m : f[i] = (f[i - 1] * 5 + 1 + perturb[i + 1]) % n
    <2>1. f[0] = x0
      BY <1>1, <1>4
    <2>2. ASSUME NEW i \in 1..m PROVE f[i] = (f[i - 1] * 5 + 1 + perturb[i + 1]) % n
      <3>1. i \in 0..m /\ i # 0 /\ i - 1 \in 0..m
        BY <1>1
      <3>2. f[i] = step[<<i, f[i - 1]>>]
        BY <1>4, <3>1
      <3>3. f[i - 1] \in X
        BY <3>1
      <3> QED
        BY <3>1, <3>2, <3>3
    <2> QED
      BY <2>1, <2>2
  <1> DEFINE g == [i \in 1..steps |-> f[i - 1]]
  <1>6. Is(g)
    <2>1. ASSUME NEW i \in 1..steps PROVE g[i] = IF i = 1 THEN h % n ELSE (g[i - 1] * 5 + 1 + perturb[i]) % n
      <3>1. CASE i = 1
        BY <1>5, <3>1
      <3>2. CASE i # 1
        <4>1. i - 1 \in 1..m /\ i - 1 \in 1..steps /\ g[i] = f[i - 1] /\ g[i - 1] = f[(i - 1) - 1]
          BY <1>1, <3>2
        <4> QED
          BY <1>5, <3>2, <4>1
      <3> QED
        BY <3>1, <3>2
    <2> QED
      BY <2>1
  <1>7. Probe(h, n) = CHOOSE p : Is(p)
    BY DEF Probe, steps, perturb
  <1> DEFINE p == Probe(h, n)
  <1>8. Is(p)
    <2> HIDE DEF Is
    <2> QED
      BY <1>6, <1>7
  <1>9. p[1] = h % n /\ \A i \in 1..(steps - 1) : p[i + 1] = (p[i] * 5 + 1 + perturb[i + 1]) % n
    <2> HIDE DEF p
    <2>1. 1 \in 1..steps
      BY <1>1
    <2>2. p[1] = h % n
      BY <1>8, <2>1
    <2>3. ASSUME NEW i \in 1..(steps - 1) PROVE p[i + 1] = (p[i] * 5 + 1 + perturb[i + 1]) % n
      <3>1. i + 1 \in 1..steps /\ i + 1 # 1 /\ (i + 1) - 1 = i
        BY <1>1
      <3> QED
        BY <1>8, <3>1
    <2> QED
      BY <2>2, <2>3
  <1>10. p \in [1..steps -> X]
    <2> DEFINE S == {k \in Nat : k + 1 \in 1..steps => p[k + 1] \in X}
    <2> HIDE DEF p
    <2>1. 0 \in S
      BY <1>1, <1>9
    <2>2. ASSUME NEW k \in S PROVE k + 1 \in S
      <3>1. k \in Nat
        OBVIOUS
      <3>2. ASSUME (k + 1) + 1 \in 1..steps PROVE p[(k + 1) + 1] \in X
        <4>1. k + 1 \in 1..(steps - 1) /\ k + 1 \in 1..steps
          BY <1>1, <3>1, <3>2
        <4>2. p[k + 1] \in X
          BY <4>1
        <4>3. p[k + 1] * 5 + 1 + perturb[(k + 1) + 1] \in Nat
          <5>1. \A x \in X, y \in Nat : x * 5 + 1 + y \in Nat
            OBVIOUS
          <5>2. perturb[(k + 1) + 1] \in Nat
            BY <1>1, <3>2
          <5> QED
            BY <4>2, <5>1, <5>2
        <4>4. p[(k + 1) + 1] = (p[k + 1] * 5 + 1 + perturb[(k + 1) + 1]) % n
          BY <1>9, <4>1
        <4> QED
          BY <4>3, <4>4, Remainder
      <3> QED
        BY <3>1, <3>2
    <2>3. S = Nat
      <3> HIDE DEF S
      <3>1. S \in SUBSET Nat
        BY DEF S
      <3> QED
        BY <2>1, <2>2, <3>1, SetInduction
    <2>4. ASSUME NEW i \in 1..steps PROVE p[i] \in X
      <3>1. i - 1 \in Nat /\ (i - 1) + 1 = i
        OBVIOUS
      <3> QED
        BY <2>3, <3>1
    <2>5. DOMAIN p = 1..steps /\ p = [i \in 1..steps |-> p[i]]
      BY <1>8
    <2> QED
      BY <2>4, <2>5
  <1> QED
    BY <1>9, <1>10 DEF steps, perturb

\* A probe comes to every index, for every number of indices that growth reaches
\* and every hash: once the shifts of probeNext (dict-builtins) have taken the hash
\* out of perturb, which moves the probe until then, its jump leaves no index out
\* in as many steps as there are indices, wherever it begins.  A lookup that finds
\* no key ends at an empty index when there is one.
THEOREM ProbeVisits ==
    ASSUME NEW h, Exhausted(h), NEW n, Size(n), NEW r \in 0..(n - 1)
    PROVE  \E s \in 1..Steps(n) : Probe(h, n)[s] = r
  <1> DEFINE step == [z \in (0..n) \X Nat |-> 5 * z[2] + 1]
             p == Probe(h, n)
             c == kPerturbShifts + 1
             start == p[c]
  <1>1. n \in Nat /\ n >= 2 /\ n >= 1 /\ h \in Nat
    BY SizeIs DEF Exhausted
  <1>7. /\ \A i \in 0..(n - 1) : c + i \in 1..Steps(n) /\ p[c + i] \in 0..(n - 1)
        /\ \A i \in 0..(n - 1) : i + 1 \in 0..(n - 1) => p[c + (i + 1)] = (p[c + i] * 5 + 1) % n
        /\ start \in Nat /\ c \in Nat
    <2>1. /\ Steps(n) \in Nat /\ Steps(n) = n + kPerturbShifts /\ kPerturbShifts \in Nat
          /\ c \in Nat /\ c >= 1 /\ c <= Steps(n)
      BY <1>1, StepsOf
    <2>2. /\ p \in [1..Steps(n) -> 0..(n - 1)]
          /\ \A i \in 1..(Steps(n) - 1) : p[i + 1] = (p[i] * 5 + 1 + Perturb(h, Steps(n))[i + 1]) % n
      BY <1>1, ProbeIs
    <2>3. \A i \in c..Steps(n) : Perturb(h, Steps(n))[i] = 0
      BY <2>1, PerturbVanishes
    <2> HIDE DEF p
    <2>4. ASSUME NEW i \in 0..(n - 1)
          PROVE  c + i \in 1..Steps(n) /\ p[c + i] \in 0..(n - 1)
      <3>1. c + i \in 1..Steps(n)
        BY <1>1, <2>1
      <3> QED
        BY <2>2, <3>1
    <2>5. ASSUME NEW i \in 0..(n - 1), i + 1 \in 0..(n - 1)
          PROVE  p[c + (i + 1)] = (p[c + i] * 5 + 1) % n
      <3>1. c + i \in 1..(Steps(n) - 1) /\ (c + i) + 1 = c + (i + 1) /\ (c + i) + 1 \in c..Steps(n)
        BY <1>1, <2>1, <2>5
      <3>2. p[c + (i + 1)] = (p[c + i] * 5 + 1 + 0) % n
        BY <2>2, <2>3, <3>1
      <3>3. p[c + i] \in Nat
        BY <1>1, <2>4
      <3>4. p[c + i] * 5 + 1 + 0 = p[c + i] * 5 + 1
        BY <3>3
      <3> QED
        BY <3>2, <3>4
    <2>6. start \in Nat
      <3>1. 0 \in 0..(n - 1) /\ c + 0 = c
        BY <1>1, <2>1
      <3>2. p[c] \in 0..(n - 1)
        BY <2>4, <3>1
      <3> QED
        BY <1>1, <3>2
    <2> QED
      BY <2>1, <2>4, <2>5, <2>6
  <1> HIDE DEF p, start, c
  <1>2. HasRun(n, Nat, start, step)
    <2>1. step \in [(0..n) \X Nat -> Nat]
      OBVIOUS
    <2> HIDE DEF step
    <2> QED
      BY <1>1, <1>7, <2>1, FiniteRecursion
  <1>3. PICK q \in [0..n -> Nat] : q = [i \in 0..n |-> IF i = 0 THEN start ELSE step[<<i, q[i - 1]>>]]
    BY <1>2 DEF HasRun
  <1>4. q[0] = start
    <2>1. 0 \in 0..n
      BY <1>1
    <2> QED
      BY <1>3, <2>1
  <1>5. ASSUME NEW i \in 0..(n - 1) PROVE q[i + 1] = 5 * q[i] + 1
    <2>1. i + 1 \in 0..n /\ i + 1 # 0 /\ (i + 1) - 1 = i /\ i \in 0..n
      BY <1>1
    <2>2. q[i + 1] = step[<<i + 1, q[i]>>]
      BY <1>3, <2>1
    <2>3. q[i] \in Nat
      BY <2>1
    <2> QED
      BY <2>1, <2>2, <2>3
  <1>6. Generated(q, n)
    BY <1>5 DEF Generated
  <1> DEFINE S == {i \in Nat : i \in 0..(n - 1) => \E k \in Nat : q[i] = k * n + p[c + i]}
  <1>8. 0 \in S
    <2>1. c + 0 = c /\ q[0] = 0 * n + p[c + 0]
      BY <1>1, <1>4, <1>7 DEF start
    <2> QED
      BY <2>1
  <1>9. ASSUME NEW i \in S PROVE i + 1 \in S
    <2>1. i \in Nat
      OBVIOUS
    <2> SUFFICES ASSUME i + 1 \in 0..(n - 1)
                 PROVE  \E k \in Nat : q[i + 1] = k * n + p[c + (i + 1)]
      OBVIOUS
    <2>2. i \in 0..(n - 1)
      BY <1>1, <2>1
    <2>3. PICK k \in Nat : q[i] = k * n + p[c + i]
      BY <2>2
    <2> DEFINE x == p[c + i]
               y == x * 5 + 1
    <2>4. x \in Nat
      <3>1. x \in 0..(n - 1)
        BY <1>7, <2>2
      <3> QED
        BY <1>1, <3>1
    <2> DEFINE div == y \div n
               mod == y % n
    <2>5. y \in Nat /\ y = (div * n) + mod /\ div \in Nat /\ mod \in 0..(n - 1)
      <3>1. y \in Nat
        BY <2>4
      <3> HIDE DEF y
      <3> QED
        BY <1>1, <3>1, Remainder, Zenon
    <2>6. p[c + (i + 1)] = mod
      BY <1>7, <2>2
    <2>7. mod \in Nat
      BY <1>1, <2>5
    <2>8. q[i + 1] = 5 * (k * n + x) + 1
      BY <1>5, <2>2, <2>3
    <2> HIDE DEF x
    <2>9. 5 * (k * n + x) + 1 = (5 * k) * n + y
      BY <1>1, <2>4
    <2> HIDE DEF y, div, mod
    <2>10. (5 * k) * n + y = (5 * k + div) * n + mod
      BY <1>1, <2>5, <2>7
    <2>11. 5 * k + div \in Nat
      BY <2>5
    <2> QED
      BY <2>6, <2>8, <2>9, <2>10, <2>11
  <1>10. S = Nat
    <2> HIDE DEF S
    <2>1. S \in SUBSET Nat
      BY DEF S
    <2> QED
      BY <1>8, <1>9, <2>1, SetInduction
  <1>11. PICK i \in 0..(n - 1), k \in Nat : q[i] = k * n + r
    <2>1. Covers(q, n)
      BY <1>1, <1>6, CoversAll
    <2> QED
      BY <2>1 DEF Covers
  <1>12. i \in Nat /\ c + i \in 1..Steps(n)
    BY <1>1, <1>7
  <1>13. PICK j \in Nat : q[i] = j * n + p[c + i]
    BY <1>10, <1>12
  <1>14. p[c + i] = r
    <2>1. p[c + i] \in 0..(n - 1)
      BY <1>7, <1>12
    <2> QED
      BY <1>1, <1>11, <1>13, <2>1, OneRemainder
  <1> QED
    BY <1>12, <1>14 DEF p

-----------------------------------------------------------------------------
(***************************************************************************)
(* The arrays of a dict.                                                   *)
(***************************************************************************)

Item == [key : Key, value : Value] \cup {Unused, Removed}

capacity(n) == (n * 2) \div 3

Fields(a, n) ==
    /\ Size(n)
    /\ a \in [items : [1..capacity(n) -> Item], indices : [0..(n - 1) -> Int]]

FullItems(a) == {i \in DOMAIN a.items : Full(a.items[i])}
UsedIndices(a) == {p \in DOMAIN a.indices : a.indices[p] # Empty}

\* The probe for the item's hash comes to its index before an empty one.
Reached(a, n, i) ==
    \E s \in 1..Steps(n) :
        LET p == Probe(Hash[a.items[i].key], n)
        IN  a.indices[p[s]] = i /\ \A t \in 1..s : a.indices[p[t]] # Empty

\* Every item has one index.
Linked(a, n) ==
    /\ \A p \in 0..(n - 1) : a.indices[p] > 0 => a.indices[p] \in FullItems(a)
    /\ \A p, q \in 0..(n - 1) : a.indices[p] > 0 /\ a.indices[p] = a.indices[q] => p = q
    /\ \A i \in FullItems(a) : Reached(a, n, i)

Distinct(a) == \A i, j \in FullItems(a) : Class[a.items[i].key] = Class[a.items[j].key] => i = j

\* The arrays a with n indices, where first is the first empty item and num the
\* number of items.
Intact(a, n, first, num) ==
    /\ Fields(a, n) /\ Linked(a, n) /\ Distinct(a)
    /\ first \in 1..(capacity(n) + 1)
    /\ \A i \in 1..capacity(n) : a.items[i] = Unused <=> i >= first
    /\ Cardinality(UsedIndices(a)) < first
    /\ num = Cardinality(FullItems(a))

\* There are fewer places for items than indices, and growth adds some.
LEMMA Capacities ==
    ASSUME NEW n, Size(n)
    PROVE  /\ n \in Nat /\ n >= 2 /\ capacity(n) \in Nat
           /\ capacity(n) >= 1 /\ capacity(n) < n /\ capacity(n) < capacity(n + n)
  <1>1. n \in Nat /\ n >= 2
    BY SizeIs
  <1> QED
    BY <1>1 DEF capacity

\* The cardinality of an interval.
LEMMA Numbers ==
    ASSUME NEW m \in Nat
    PROVE  IsFiniteSet(0..(m - 1)) /\ Cardinality(0..(m - 1)) = m
           /\ IsFiniteSet(1..m) /\ Cardinality(1..m) = m
  BY FS_Interval

\* An item with a key is a record of a key and a value.
LEMMA FullItem ==
    ASSUME NEW x \in Item, Full(x)
    PROVE  /\ x \in [key : Key, value : Value] /\ x.key \in Key /\ x.value \in Value
           /\ x = [key |-> x.key, value |-> x.value]
  <1>1. x # Unused /\ x # Removed
    BY DEF Full, Unused, Removed
  <1>2. x \in [key : Key, value : Value]
    BY <1>1 DEF Item
  <1> QED
    BY <1>2

\* The types of the arrays, and what follows about their fields.
LEMMA FieldsOf ==
    ASSUME NEW a, NEW n, Fields(a, n)
    PROVE  /\ n \in Nat /\ n >= 2 /\ capacity(n) \in Nat /\ capacity(n) >= 1
           /\ a = [items |-> a.items, indices |-> a.indices]
           /\ a.items \in [1..capacity(n) -> Item] /\ a.indices \in [0..(n - 1) -> Int]
           /\ DOMAIN a.items = 1..capacity(n) /\ DOMAIN a.indices = 0..(n - 1)
           /\ numIndices(a) = n /\ Len(a.items) = capacity(n)
           /\ \A i \in FullItems(a) : i \in 1..capacity(n) /\ a.items[i].key \in Key
           /\ IsFiniteSet(FullItems(a)) /\ IsFiniteSet(UsedIndices(a))
           /\ Cardinality(FullItems(a)) \in Nat /\ Cardinality(UsedIndices(a)) \in Nat
  <1> DEFINE cap == capacity(n)
  <1>1. Size(n) /\ n \in Nat /\ n >= 2 /\ cap \in Nat /\ cap >= 1
    BY Capacities DEF Fields
  <1>2. a \in [items : [1..cap -> Item], indices : [0..(n - 1) -> Int]]
    BY DEF Fields
  <1> HIDE DEF cap
  <1>3. /\ a = [items |-> a.items, indices |-> a.indices]
        /\ a.items \in [1..cap -> Item] /\ a.indices \in [0..(n - 1) -> Int]
        /\ DOMAIN a.items = 1..cap /\ DOMAIN a.indices = 0..(n - 1)
    BY <1>2
  <1>4. numIndices(a) = n
    BY <1>1, <1>3, Numbers DEF numIndices
  <1>5. Len(a.items) = cap
    BY <1>1, <1>3
  <1>6. \A i \in FullItems(a) : i \in 1..cap /\ a.items[i].key \in Key
    BY <1>3, FullItem DEF FullItems
  <1>7. FullItems(a) \subseteq 1..cap /\ UsedIndices(a) \subseteq 0..(n - 1)
    BY <1>3 DEF FullItems, UsedIndices
  <1>8. /\ IsFiniteSet(FullItems(a)) /\ IsFiniteSet(UsedIndices(a))
        /\ Cardinality(FullItems(a)) \in Nat /\ Cardinality(UsedIndices(a)) \in Nat
    BY <1>1, <1>7, Numbers, FS_Subset, FS_CardinalityType
  <1> QED
    BY <1>1, <1>3, <1>4, <1>5, <1>6, <1>8 DEF cap

\* The tombstones and the filled indices leave one that is empty.
LEMMA EmptyIndex ==
    ASSUME NEW a, NEW n, NEW first, NEW num, Intact(a, n, first, num)
    PROVE  \E p \in 0..(n - 1) : a.indices[p] = Empty
  <1>1. Fields(a, n) /\ Size(n) /\ Cardinality(UsedIndices(a)) < first
        /\ first \in 1..(capacity(n) + 1)
    BY DEF Intact, Fields
  <1>2. n \in Nat /\ capacity(n) \in Nat /\ capacity(n) < n
    BY <1>1, Capacities
  <1>3. DOMAIN a.indices = 0..(n - 1) /\ Cardinality(UsedIndices(a)) \in Nat
    BY <1>1, FieldsOf
  <1>4. Cardinality(0..(n - 1)) = n
    BY <1>2, Numbers
  <1>5. UsedIndices(a) # 0..(n - 1)
    BY <1>1, <1>2, <1>3, <1>4
  <1> QED
    BY <1>3, <1>5 DEF UsedIndices

-----------------------------------------------------------------------------
(***************************************************************************)
(* A lookup.                                                               *)
(***************************************************************************)

Call == [op : {"put", "get", "remove"}, key : Key, value : Value \cup {None}, arrays : {1}, step : Nat,
         free : Nat \cup {None}, with : Key \cup {None}]

\* The lookup l has passed the indices before step s: none is empty, or of an
\* item with an equal key; l.free is the first that is free.
Passed(a, n, l, s) ==
    LET p == Probe(Hash[l.key], n)
    IN  /\ s \in 1..(Steps(n) + 1)
        /\ \A t \in 1..(s - 1) :
              /\ a.indices[p[t]] # Empty
              /\ a.indices[p[t]] > 0 => Class[a.items[a.indices[p[t]]].key] # Class[l.key]
        /\ \/ l.free = None /\ \A t \in 1..(s - 1) : a.indices[p[t]] > 0
           \/ \E t \in 1..(s - 1) : /\ l.free = p[t] /\ ~(a.indices[p[t]] > 0)
                                    /\ \A u \in 1..(t - 1) : a.indices[p[u]] > 0

\* The __eq__ of a lookup runs, for the item at the index before its step.
Asking(a, n, l) ==
    /\ l \in Call /\ (l.op = "put" => l.value \in Value)
    /\ l.step \in 2..(Steps(n) + 1)
    /\ Passed(a, n, l, l.step - 1)
    /\ LET at == Probe(Hash[l.key], n)[l.step - 1]
       IN  a.indices[at] > 0 /\ l.with = a.items[a.indices[at]].key

\* No item has a key equal to k, and the first free index of its probe is free.
NewPlace(a, n, k, free) ==
    LET p == Probe(Hash[k], n)
    IN  /\ \A i \in FullItems(a) : Class[a.items[i].key] # Class[k]
        /\ \E t \in 1..Steps(n) : /\ free = p[t] /\ ~(a.indices[p[t]] > 0)
                           /\ \A u \in 1..(t - 1) : a.indices[p[u]] > 0

\* The index of an item with a key equal to k.
PlaceOf(a, n, k, at) ==
    /\ at \in 0..(n - 1) /\ a.indices[at] > 0
    /\ Class[a.items[a.indices[at]].key] = Class[k]

\* The type and the range of a probe.
LEMMA ProbeOf ==
    ASSUME NEW n, Size(n), NEW k \in Key
    PROVE  /\ n \in Nat /\ n >= 2 /\ Steps(n) \in Nat /\ Steps(n) >= n
           /\ Probe(Hash[k], n) \in [1..Steps(n) -> 0..(n - 1)]
           /\ Probe(Hash[k], n) \in Seq(0..(n - 1)) /\ Len(Probe(Hash[k], n)) = Steps(n)
           /\ \A r \in 0..(n - 1) : \E s \in 1..Steps(n) : Probe(Hash[k], n)[s] = r
  <1>1. n \in Nat /\ n >= 2 /\ n >= 1
    BY SizeIs
  <1>2. Hash[k] \in Nat /\ Exhausted(Hash[k]) /\ Steps(n) \in Nat /\ Steps(n) >= n
    BY <1>1, StepsOf, DictAssumption DEF Exhausted
  <1>3. Probe(Hash[k], n) \in [1..Steps(n) -> 0..(n - 1)]
    BY <1>1, <1>2, ProbeIs, Zenon
  <1>4. \A r \in 0..(n - 1) : \E s \in 1..Steps(n) : Probe(Hash[k], n)[s] = r
    BY <1>2, ProbeVisits
  <1> DEFINE p == Probe(Hash[k], n)
             X == 0..(n - 1)
  <1>5. p \in Seq(X) /\ Len(p) = Steps(n)
    <2> HIDE DEF p, X
    <2>1. p \in [1..Steps(n) -> X]
      BY <1>3 DEF p, X
    <2> QED
      BY <1>1, <1>2, <2>1
  <1> QED
    BY <1>1, <1>2, <1>3, <1>4, <1>5

\* The operator Min of FiniteSetsExt on a set of numbers.
LEMMA LeastOf ==
    ASSUME NEW S \in SUBSET Nat, S # {}
    PROVE  Min(S) \in S /\ \A x \in S : Min(S) <= x
  <1>1. \E x \in S : \A y \in S : x <= y
    BY LeastNumber
  <1> QED
    BY <1>1 DEF Min

\* The least member of a set of numbers of an interval.
LEMMA FirstIn ==
    ASSUME NEW a \in Nat, NEW b \in Nat, NEW S \in SUBSET (a..b), S # {}
    PROVE  /\ Min(S) \in S /\ Min(S) \in a..b
           /\ \A t \in a..(Min(S) - 1) : t \notin S
  <1>1. S \in SUBSET Nat
    OBVIOUS
  <1>2. Min(S) \in S /\ \A x \in S : Min(S) <= x
    BY <1>1, LeastOf
  <1>3. Min(S) \in a..b
    BY <1>2
  <1>4. ASSUME NEW t \in a..(Min(S) - 1) PROVE t \notin S
    <2>1. ~(Min(S) <= t)
      BY <1>3
    <2> QED
      BY <1>2, <2>1
  <1> QED
    BY <1>2, <1>3, <1>4

\* How a lookup goes on: it ends without an item, or at one, or calls __eq__.
Outcome(d, a, n, l, below) ==
    \/ \E free \in 0..(n - 1) : /\ NewPlace(a, n, l.key, free)
                                /\ Become(NotFound(d, [l EXCEPT !.free = free]), below)
    \/ \E at \in 0..(n - 1) : PlaceOf(a, n, l.key, at) /\ FoundAt(d, l, at, below)
    \/ \E asking \in Call : /\ Asking(a, n, asking) /\ asking.op = l.op
                            /\ Become(d, Append(below, asking))

\* Continue once the probe has come to a step m that it stops at, or to its end.
Goes(d, l, below, stops, filled, at, key, passed, m, a) ==
    CASE stops = {} -> Stop
      [] stops # {} /\ ~filled ->
            IF l.op = "put" /\ d.firstEmpty > Len(a.items) THEN Stop
            ELSE Become(NotFound(d, passed), below)
      [] stops # {} /\ filled /\ key = l.key -> FoundAt(d, l, at, below)
      [] stops # {} /\ filled /\ key # l.key ->
            Become(d, Append(below, [passed EXCEPT !.step = m + 1, !.with = key]))

\* Continue, with the arrays, the probe and the length of the lookup as parameters.
Continues(d, l, below, a, p, n) ==
    LET filled(q) == a.indices[q] > 0
        meets(q) == a.indices[q] = Empty \/ (filled(q) /\ Full(a.items[a.indices[q]])
                                                       /\ Hash[a.items[a.indices[q]].key] = Hash[l.key])
        stops == {s \in l.step..n : meets(p[s])}
        at == p[Min(stops)]
        key == a.items[a.indices[at]].key
        frees == {s \in l.step..Min(stops) : ~filled(p[s])}
        free == IF l.free # None \/ frees = {} THEN l.free ELSE p[Min(frees)]
        passed == [l EXCEPT !.free = free]
    IN  Goes(d, l, below, stops, filled(at), at, key, passed, Min(stops), a)

\* dictLookup and dictLookupForInsertion from a step on: the probe ends, with one
\* of the outcomes.
LEMMA ContinueOf ==
    ASSUME NEW a, NEW n, NEW d, NEW num, Intact(a, n, d.firstEmpty, num),
           d.arrays = <<a>>, d.firstEmpty <= capacity(n),
           NEW l \in Call, l.op = "put" => l.value \in Value, Passed(a, n, l, l.step),
           NEW below, Continue(d, l, below)
    PROVE  Outcome(d, a, n, l, below)
  <1> DEFINE p == Probe(Hash[l.key], n)
             filled(q) == a.indices[q] > 0
             meets(q) == a.indices[q] = Empty \/ (filled(q) /\ Full(a.items[a.indices[q]])
                                                       /\ Hash[a.items[a.indices[q]].key] = Hash[l.key])
             stops == {s \in l.step..Steps(n) : meets(p[s])}
             m == Min(stops)
             at == p[m]
             key == a.items[a.indices[at]].key
             frees == {s \in l.step..m : ~filled(p[s])}
             f == Min(frees)
             free == IF l.free # None \/ frees = {} THEN l.free ELSE p[f]
             passed == [l EXCEPT !.free = free]
  <1>1. /\ Fields(a, n) /\ Linked(a, n) /\ Size(n) /\ l.key \in Key /\ l.arrays = 1
        /\ l.step \in Nat
    BY DEF Intact, Fields, Call
  <1>2. /\ n \in Nat /\ n >= 2 /\ Steps(n) \in Nat /\ Steps(n) >= n
        /\ p \in [1..Steps(n) -> 0..(n - 1)] /\ Len(p) = Steps(n)
        /\ \A r \in 0..(n - 1) : \E s \in 1..Steps(n) : p[s] = r
    BY <1>1, ProbeOf
  <1>3. /\ a.indices \in [0..(n - 1) -> Int] /\ DOMAIN a.indices = 0..(n - 1) /\ numIndices(a) = n
        /\ Len(a.items) = capacity(n) /\ DOMAIN a.items = 1..capacity(n)
        /\ \A i \in FullItems(a) : i \in 1..capacity(n) /\ a.items[i].key \in Key
    BY <1>1, FieldsOf
  <1>4. d.arrays[l.arrays] = a
    BY <1>1
  <1>5. /\ l.step \in 1..(Steps(n) + 1)
        /\ \A t \in 1..(l.step - 1) :
              /\ a.indices[p[t]] # Empty
              /\ a.indices[p[t]] > 0 => Class[a.items[a.indices[p[t]]].key] # Class[l.key]
        /\ \/ l.free = None /\ \A t \in 1..(l.step - 1) : a.indices[p[t]] > 0
           \/ \E t \in 1..(l.step - 1) : /\ l.free = p[t] /\ ~(a.indices[p[t]] > 0)
                                         /\ \A u \in 1..(t - 1) : a.indices[p[u]] > 0
    BY DEF Passed
  <1>6. /\ \A q \in 0..(n - 1) : filled(q) => a.indices[q] \in FullItems(a) /\ Full(a.items[a.indices[q]])
        /\ \A t \in 1..Steps(n) : p[t] \in 0..(n - 1)
        /\ \A t \in 1..(l.step - 1) : t \in 1..Steps(n)
        /\ \A t \in l.step..Steps(n) : t \in 1..Steps(n)
    <2> HIDE DEF p
    <2>1. \A t \in 1..Steps(n) : p[t] \in 0..(n - 1)
      BY <1>2
    <2>2. ASSUME NEW q \in 0..(n - 1), filled(q)
          PROVE  a.indices[q] \in FullItems(a) /\ Full(a.items[a.indices[q]])
      <3>1. a.indices[q] \in FullItems(a)
        BY <1>1, <2>2 DEF Linked
      <3> QED
        BY <3>1 DEF FullItems
    <2>3. /\ \A t \in 1..(l.step - 1) : t \in 1..Steps(n)
          /\ \A t \in l.step..Steps(n) : t \in 1..Steps(n)
      BY <1>1, <1>2, <1>5
    <2> QED
      BY <2>1, <2>2, <2>3
  <1> HIDE DEF p
  <1>7. stops # {}
    <2>1. PICK r \in 0..(n - 1) : a.indices[r] = Empty
      BY EmptyIndex
    <2>2. PICK s \in 1..Steps(n) : p[s] = r
      BY <1>2, <2>1
    <2>3. ~(s \in 1..(l.step - 1))
      BY <1>5, <2>1, <2>2
    <2>4. s \in l.step..Steps(n)
      BY <1>1, <1>2, <1>5, <2>3
    <2>5. meets(p[s])
      BY <2>1, <2>2
    <2> QED
      BY <2>4, <2>5
  <1>8. /\ m \in l.step..Steps(n) /\ m \in 1..Steps(n) /\ m \in Nat /\ m <= Steps(n) /\ meets(p[m])
        /\ \A t \in l.step..(m - 1) : ~meets(p[t]) /\ t \in 1..Steps(n)
    <2>1. stops \in SUBSET (l.step..Steps(n))
      OBVIOUS
    <2> HIDE DEF meets
    <2>2. \A t : t \in stops <=> t \in l.step..Steps(n) /\ meets(p[t])
      OBVIOUS
    <2> HIDE DEF stops
    <2>3. m \in stops /\ m \in l.step..Steps(n) /\ \A t \in l.step..(m - 1) : t \notin stops
      BY <1>1, <1>2, <1>7, <2>1, FirstIn
    <2> HIDE DEF m
    <2>4. m \in 1..Steps(n) /\ m \in Nat /\ m <= Steps(n) /\ \A t \in l.step..(m - 1) : t \in l.step..Steps(n) /\ t \in 1..Steps(n)
      BY <1>1, <1>2, <1>5, <2>3
    <2> QED
      BY <2>2, <2>3, <2>4
  <1>9. ASSUME frees # {}
        PROVE  /\ f \in l.step..m /\ ~filled(p[f])
               /\ \A t \in l.step..(f - 1) : filled(p[t])
    <2>1. frees \in SUBSET (l.step..m)
      OBVIOUS
    <2> HIDE DEF filled
    <2>2. \A t : t \in frees <=> t \in l.step..m /\ ~filled(p[t])
      OBVIOUS
    <2> HIDE DEF stops, m, frees
    <2>5. m \in Nat /\ m <= Steps(n) /\ l.step \in Nat
      BY <1>1, <1>8
    <2>3. f \in frees /\ f \in l.step..m /\ \A t \in l.step..(f - 1) : t \notin frees
      BY <1>1, <1>9, <2>1, <2>5, FirstIn
    <2> HIDE DEF f
    <2>4. \A t \in l.step..(f - 1) : t \in l.step..m
      BY <1>1, <2>3, <2>5
    <2> QED
      BY <2>2, <2>3, <2>4
  <1>10. frees = {} => \A t \in l.step..m : filled(p[t])
    OBVIOUS
  <1>11. passed \in Call /\ passed.op = l.op /\ passed.key = l.key /\ passed.free = free
         /\ passed.value = l.value /\ (frees # {} => p[f] \in 0..(n - 1))
    <2>1. frees # {} => p[f] \in 0..(n - 1) /\ p[f] \in Nat
      <3> HIDE DEF frees, f, m, stops
      <3>1. ASSUME frees # {} PROVE f \in 1..Steps(n)
        <4>1. f \in l.step..m /\ m \in Nat /\ m <= Steps(n)
          BY <1>8, <1>9, <3>1
        <4>2. l.step \in 1..(Steps(n) + 1) /\ n \in Nat /\ Steps(n) \in Nat
          BY <1>2, <1>5
        <4> QED
          BY <4>1, <4>2
      <3> QED
        BY <3>1, <1>2, <1>6
    <2> HIDE DEF frees, f
    <2>2. free \in Nat \cup {None}
      BY <2>1 DEF Call
    <2> HIDE DEF free
    <2> QED
      BY <2>1, <2>2 DEF Call
  <1>12. at \in 0..(n - 1) /\ (filled(at) => Full(a.items[a.indices[at]]))
    <2> HIDE DEF m
    <2> QED
      BY <1>6, <1>8
  <1>13. ASSUME filled(at), key # l.key
         PROVE  Asking(a, n, [passed EXCEPT !.step = m + 1, !.with = key])
    <2> DEFINE l2 == [passed EXCEPT !.step = m + 1, !.with = key]
    <2>1. key \in Key
      <3> HIDE DEF at
      <3> QED
        BY <1>3, <1>6, <1>12, <1>13
    <2>2. /\ l2 \in Call /\ l2.op = l.op /\ l2.value = l.value /\ l2.step = m + 1
          /\ l2.free = free /\ l2.key = l.key /\ l2.with = key
      <3> HIDE DEF key, passed, m, free
      <3>1. m + 1 \in Nat
        <4>1. m \in Nat
          BY <1>8
        <4> QED
          BY <4>1
      <3> QED
        BY <1>11, <2>1, <3>1 DEF Call
    <2>3. l2.step \in 2..(Steps(n) + 1) /\ l2.step - 1 = m
      <3> HIDE DEF l2, m
      <3>1. m \in 1..Steps(n) /\ n \in Nat /\ Steps(n) \in Nat
        BY <1>2, <1>8
      <3> QED
        BY <2>2, <3>1
    <2>4. Passed(a, n, l2, m)
      <3>1. m \in 1..Steps(n) /\ m \in Nat /\ m <= Steps(n) /\ m \in l.step..Steps(n)
            /\ \A t \in l.step..(m - 1) : ~meets(p[t]) /\ t \in 1..Steps(n)
        BY <1>8
      <3>2. ASSUME NEW t \in l.step..(m - 1)
            PROVE  /\ a.indices[p[t]] # Empty
                   /\ a.indices[p[t]] > 0 => Class[a.items[a.indices[p[t]]].key] # Class[l.key]
        <4>1. ~meets(p[t]) /\ p[t] \in 0..(n - 1)
          BY <1>6, <3>1
        <4>2. a.indices[p[t]] # Empty
          BY <4>1
        <4>3. ASSUME a.indices[p[t]] > 0, Class[a.items[a.indices[p[t]]].key] = Class[l.key]
              PROVE  FALSE
          <5>1. a.indices[p[t]] \in FullItems(a) /\ Full(a.items[a.indices[p[t]]])
            BY <1>6, <4>1, <4>3
          <5>2. a.items[a.indices[p[t]]].key \in Key
            BY <1>3, <5>1
          <5>3. Hash[a.items[a.indices[p[t]]].key] = Hash[l.key]
            BY <1>1, <4>3, <5>2, DictAssumption
          <5> QED
            BY <4>1, <4>3, <5>1, <5>3
        <4> QED
          BY <4>2, <4>3
      <3>3. l.free # None => l2.free = l.free
        BY <2>2
      <3>4. l.free = None /\ frees = {} => l2.free = None /\ \A t \in l.step..m : filled(p[t])
        BY <1>10, <2>2
      <3>5. ASSUME l.free = None, frees # {}
            PROVE  /\ l2.free = p[f] /\ f \in l.step..(m - 1) /\ ~filled(p[f])
                   /\ \A t \in l.step..(f - 1) : filled(p[t])
        <4>1. l2.free = p[f]
          BY <2>2, <3>5
        <4>2. f \in l.step..m /\ ~filled(p[f]) /\ \A t \in l.step..(f - 1) : filled(p[t])
          BY <1>9, <3>5
        <4>3. f # m
          BY <1>13, <4>2
        <4> HIDE DEF f, m, filled
        <4>4. f \in l.step..(m - 1)
          BY <1>1, <3>1, <4>2, <4>3
        <4> QED
          BY <4>1, <4>2, <4>4
      <3> HIDE DEF l2, m, f, meets, frees
      <3>6. /\ \A t \in 1..(m - 1) : t \in 1..(l.step - 1) \/ t \in l.step..(m - 1)
            /\ \A t \in 1..(l.step - 1) : t \in 1..(m - 1)
            /\ \A t \in l.step..(m - 1) : t \in 1..(m - 1) /\ t \in l.step..m
        BY <1>2, <1>5, <3>1
      <3>7. ASSUME NEW t \in l.step..(m - 1), NEW u \in 1..(t - 1)
            PROVE  u \in 1..(l.step - 1) \/ u \in l.step..(t - 1)
        <4>1. m \in Nat
          BY <3>1
        <4> QED
          BY <1>1, <4>1
      <3>8. \A t \in 1..(m - 1) :
              /\ a.indices[p[t]] # Empty
              /\ a.indices[p[t]] > 0 => Class[a.items[a.indices[p[t]]].key] # Class[l.key]
        BY <1>5, <3>2, <3>6
      <3>9. \/ l2.free = None /\ \A t \in 1..(m - 1) : a.indices[p[t]] > 0
            \/ \E t \in 1..(m - 1) : /\ l2.free = p[t] /\ ~(a.indices[p[t]] > 0)
                                     /\ \A u \in 1..(t - 1) : a.indices[p[u]] > 0
        <4>1. CASE l.free # None
          BY <1>5, <3>3, <3>6, <4>1
        <4>2. CASE l.free = None /\ \A t \in 1..(l.step - 1) : a.indices[p[t]] > 0
          <5>1. CASE frees = {}
            BY <3>4, <3>6, <4>2, <5>1
          <5>2. CASE frees # {}
            BY <3>5, <3>6, <3>7, <4>2, <5>2
          <5> QED
            BY <5>1, <5>2
        <4>3. l.free = None => \A t \in 1..(l.step - 1) : a.indices[p[t]] > 0
          BY <1>5, <1>6, DictAssumption
        <4> QED
          BY <4>1, <4>2, <4>3
      <3>10. m \in 1..(Steps(n) + 1) /\ l2.key = l.key
        BY <1>2, <2>2, <3>1
      <3> QED
        BY <3>8, <3>9, <3>10 DEF Passed, p
    <2>5. Asking(a, n, l2)
      <3> HIDE DEF l2, m
      <3> QED
        BY <1>13, <2>2, <2>3, <2>4 DEF Asking, p
    <2> QED
      BY <2>5
  <1>14. ASSUME ~filled(at)
         PROVE  NewPlace(a, n, l.key, free) /\ free \in 0..(n - 1)
    <2>1. a.indices[at] = Empty
      BY <1>8, <1>14
    <2>2. ASSUME NEW i \in FullItems(a), Class[a.items[i].key] = Class[l.key] PROVE FALSE
      <3>1. i \in 1..capacity(n) /\ a.items[i].key \in Key /\ Full(a.items[i])
        BY <1>3 DEF FullItems
      <3>2. Hash[a.items[i].key] = Hash[l.key]
        BY <1>1, <2>2, <3>1, DictAssumption
      <3>3. PICK s \in 1..Steps(n) : a.indices[p[s]] = i /\ \A t \in 1..s : a.indices[p[t]] # Empty
        <4>1. Reached(a, n, i)
          BY <1>1 DEF Linked
        <4> QED
          BY <3>2, <4>1 DEF Reached, p
      <3>4. a.indices[p[s]] > 0
        BY <3>1, <3>3
      <3>5. ~(m \in 1..s)
        BY <2>1, <3>3
      <3>6. s \in 1..(m - 1)
        <4>1. m \in 1..Steps(n)
          BY <1>8
        <4> HIDE DEF m
        <4> QED
          BY <1>2, <3>5, <4>1
      <3>7. ~(s \in 1..(l.step - 1))
        BY <1>5, <2>2, <3>3, <3>4
      <3>8. s \in l.step..(m - 1)
        <4>1. m \in 1..Steps(n)
          BY <1>8
        <4> HIDE DEF m
        <4> QED
          BY <1>1, <1>2, <1>5, <3>6, <3>7, <4>1
      <3>9. ~meets(p[s])
        BY <1>8, <3>8
      <3> QED
        BY <3>1, <3>2, <3>3, <3>4, <3>9
    <2>3. \E t \in 1..Steps(n) : /\ free = p[t] /\ ~filled(p[t])
                          /\ \A u \in 1..(t - 1) : filled(p[u])
      <3>1. m \in frees
        <4>1. m \in l.step..m
          <5>1. m \in l.step..Steps(n)
            BY <1>8
          <5> HIDE DEF m
          <5> QED
            BY <1>1, <1>2, <5>1
        <4> QED
          BY <1>14, <4>1
      <3>2. CASE l.free # None
        <4>1. PICK t \in 1..(l.step - 1) : /\ l.free = p[t] /\ ~(a.indices[p[t]] > 0)
                                           /\ \A u \in 1..(t - 1) : a.indices[p[u]] > 0
          BY <1>5, <3>2
        <4>2. free = l.free /\ t \in 1..Steps(n)
          BY <1>6, <3>2
        <4> QED
          BY <4>1, <4>2
      <3>3. CASE l.free = None
        <4>1. free = p[f]
          BY <3>1, <3>3
        <4>2. \A t \in 1..(l.step - 1) : filled(p[t])
          BY <1>5, <1>6, <3>3, DictAssumption
        <4>3. f \in l.step..m /\ ~filled(p[f]) /\ \A t \in l.step..(f - 1) : filled(p[t])
          BY <1>9, <3>1
        <4>4. m \in Nat /\ m <= Steps(n)
          BY <1>8
        <4> HIDE DEF f, m, frees, free, filled
        <4>5. f \in 1..Steps(n) /\ \A t \in 1..(f - 1) : t \in 1..(l.step - 1) \/ t \in l.step..(f - 1)
          BY <1>2, <1>5, <4>3, <4>4
        <4> QED
          BY <4>1, <4>2, <4>3, <4>5
      <3> QED
        BY <3>2, <3>3
    <2> HIDE DEF free
    <2> QED
      BY <1>6, <2>2, <2>3 DEF NewPlace, p
  <1>15. \/ ~filled(at) /\ (\/ l.op = "put" /\ d.firstEmpty > Len(a.items)
                            \/ Become(NotFound(d, passed), below))
         \/ filled(at) /\ key = l.key /\ FoundAt(d, l, at, below)
         \/ /\ filled(at) /\ key # l.key
            /\ Become(d, Append(below, [passed EXCEPT !.step = m + 1, !.with = key]))
    <2> HIDE DEF Stop, FoundAt, Become, NotFound
    <2>1. Continues(d, l, below, d.arrays[l.arrays],
                    Probe(Hash[l.key], numIndices(d.arrays[l.arrays])),
                    Len(Probe(Hash[l.key], numIndices(d.arrays[l.arrays]))))
      BY Zenon DEF Continue, Continues, Goes
    <2>2. Continues(d, l, below, a, p, Steps(n))
      <3>1. p = Probe(Hash[l.key], numIndices(d.arrays[l.arrays]))
            /\ Steps(n) = Len(Probe(Hash[l.key], numIndices(d.arrays[l.arrays])))
        BY <1>2, <1>3, <1>4 DEF p
      <3> QED
        BY <1>4, <2>1, <3>1, Zenon
    <2>3. Goes(d, l, below, stops, filled(at), at, key, passed, m, a)
      BY <2>2, Zenon DEF Continues
    <2> HIDE DEF stops, filled, at, key, passed
    <2> QED
      BY <1>7, <2>3 DEF Goes
  <1>16. ~(l.op = "put" /\ d.firstEmpty > Len(a.items))
    BY <1>3 DEF Intact
  <1>17. CASE filled(at) /\ key # l.key
    <2> DEFINE l2 == [passed EXCEPT !.step = m + 1, !.with = key]
    <2>1. Become(d, Append(below, l2))
      BY <1>15, <1>17
    <2>2. Asking(a, n, l2)
      BY <1>13, <1>17
    <2>3. l2.op = l.op
      <3> HIDE DEF passed
      <3> QED
        BY <1>11 DEF Call
    <2> HIDE DEF l2
    <2>4. l2 \in Call
      BY <2>2 DEF Asking
    <2> QED
      BY <2>1, <2>2, <2>3, <2>4 DEF Outcome
  <1>18. CASE filled(at) /\ key = l.key
    <2>1. FoundAt(d, l, at, below)
      BY <1>15, <1>18
    <2>2. PlaceOf(a, n, l.key, at)
      BY <1>12, <1>18 DEF PlaceOf
    <2> HIDE DEF at
    <2> QED
      BY <1>12, <2>1, <2>2 DEF Outcome
  <1>19. CASE ~filled(at)
    <2>1. Become(NotFound(d, passed), below)
      BY <1>15, <1>16, <1>19
    <2>2. NewPlace(a, n, l.key, free) /\ free \in 0..(n - 1)
      BY <1>14, <1>19
    <2> HIDE DEF free
    <2> QED
      BY <2>1, <2>2 DEF Outcome
  <1> QED
    BY <1>17, <1>18, <1>19

-----------------------------------------------------------------------------
(***************************************************************************)
(* What the end of an operation does to the arrays.                        *)
(***************************************************************************)

\* New arrays have no item.
LEMMA NewOf ==
    ASSUME NEW n, Size(n)
    PROVE  Intact(NewArrays(n), n, 1, 0)
  <1> DEFINE a == NewArrays(n)
  <1>1. /\ n \in Nat /\ n >= 2 /\ capacity(n) \in Nat /\ capacity(n) >= 1
    BY Capacities
  <1>2. /\ a.items = [i \in 1..capacity(n) |-> Unused] /\ a.indices = [p \in 0..(n - 1) |-> Empty]
        /\ a = [items |-> a.items, indices |-> a.indices]
    BY DEF NewArrays, capacity
  <1>3. Unused \in Item /\ ~Full(Unused)
    BY DEF Unused, Item, Full
  <1>4. Fields(a, n)
    <2>1. a.items \in [1..capacity(n) -> Item] /\ a.indices \in [0..(n - 1) -> Int]
      BY <1>2, <1>3 DEF Empty
    <2> HIDE DEF a
    <2>2. a \in [items : [1..capacity(n) -> Item], indices : [0..(n - 1) -> Int]]
      BY <1>2, <2>1, Zenon
    <2> QED
      BY <2>2 DEF Fields
  <1> HIDE DEF a
  <1>5. FullItems(a) = {} /\ UsedIndices(a) = {}
    BY <1>2, <1>3 DEF FullItems, UsedIndices
  <1>6. Linked(a, n) /\ Distinct(a)
    BY <1>2, <1>5 DEF Linked, Distinct, Empty
  <1>7. Cardinality({}) = 0
    BY FS_EmptySet
  <1> QED
    BY <1>1, <1>2, <1>4, <1>5, <1>6, <1>7 DEF Intact, a

Inserted(a, first, k, v, free) ==
    [items |-> [a.items EXCEPT ![first] = [key |-> k, value |-> v]],
     indices |-> [a.indices EXCEPT ![free] = first]]

\* A new item at the first free index of the probe for its key.
LEMMA InsertedOf ==
    ASSUME NEW a, NEW n, NEW first, NEW num, Intact(a, n, first, num), first <= capacity(n),
           NEW k \in Key, NEW v \in Value, NEW free \in 0..(n - 1), NewPlace(a, n, k, free),
           NEW b, b = Inserted(a, first, k, v, free)
    PROVE  /\ Intact(b, n, first + 1, num + 1)
           /\ FullItems(b) = FullItems(a) \cup {first} /\ first \notin FullItems(a)
  <1> DEFINE item == [key |-> k, value |-> v]
             cap == capacity(n)
             I == 0..(n - 1)
  <1>1. /\ Size(n) /\ Fields(a, n) /\ Linked(a, n) /\ Distinct(a)
        /\ \A i \in 1..cap : a.items[i] = Unused <=> i >= first
        /\ Cardinality(UsedIndices(a)) < first /\ num = Cardinality(FullItems(a))
    BY DEF Intact, Fields
  <1>2. /\ n \in Nat /\ n >= 2 /\ cap \in Nat /\ first \in 1..cap /\ first \in Nat /\ first > 0
    BY <1>1, Capacities DEF Intact
  <1>3. /\ a.items \in [1..cap -> Item] /\ a.indices \in [I -> Int]
        /\ DOMAIN a.items = 1..cap /\ DOMAIN a.indices = I
        /\ \A i \in FullItems(a) : i \in 1..cap /\ a.items[i].key \in Key
        /\ IsFiniteSet(FullItems(a)) /\ IsFiniteSet(UsedIndices(a))
        /\ Cardinality(FullItems(a)) \in Nat /\ Cardinality(UsedIndices(a)) \in Nat
    BY <1>1, FieldsOf
  <1>4. item \in Item /\ Full(item) /\ item.key = k /\ item # Unused
    BY DictAssumption DEF Item, Full, Unused
  <1> HIDE DEF item, cap
  <1>5. /\ b.items = [a.items EXCEPT ![first] = item] /\ b.indices = [a.indices EXCEPT ![free] = first]
        /\ b = [items |-> b.items, indices |-> b.indices]
    BY DEF Inserted, item
  <1>6. /\ b.items \in [1..cap -> Item] /\ b.indices \in [I -> Int]
        /\ DOMAIN b.items = 1..cap /\ DOMAIN b.indices = I
        /\ b.items[first] = item /\ \A i \in 1..cap : i # first => b.items[i] = a.items[i]
        /\ b.indices[free] = first /\ \A p \in I : p # free => b.indices[p] = a.indices[p]
    <2> HIDE DEF I
    <2>1. free \in I
      BY DEF I
    <2> QED
      BY <1>2, <1>3, <1>4, <1>5, <2>1
  <1>7. Fields(b, n)
    <2>1. b \in [items : [1..cap -> Item], indices : [I -> Int]]
      BY <1>5, <1>6, Zenon
    <2> QED
      BY <1>1, <2>1 DEF Fields, cap
  <1>8. first \notin FullItems(a) /\ ~Full(a.items[first])
    <2>1. a.items[first] = Unused
      BY <1>1, <1>2
    <2> QED
      BY <2>1 DEF FullItems, Full, Unused
  <1>9. FullItems(b) = FullItems(a) \cup {first}
    BY <1>2, <1>3, <1>4, <1>6 DEF FullItems
  <1>10. PICK t \in 1..Steps(n) : /\ free = Probe(Hash[k], n)[t] /\ ~(a.indices[free] > 0)
                           /\ \A u \in 1..(t - 1) : a.indices[Probe(Hash[k], n)[u]] > 0
    BY DEF NewPlace
  <1>11. \A i \in FullItems(a) : Class[a.items[i].key] # Class[k]
    BY DEF NewPlace
  <1>12. Linked(b, n)
    <2>1. ASSUME NEW p \in I, b.indices[p] > 0 PROVE b.indices[p] \in FullItems(b)
      <3>1. CASE p = free
        BY <1>6, <1>9, <3>1
      <3>2. CASE p # free
        BY <1>1, <1>6, <1>9, <2>1, <3>2 DEF Linked
      <3> QED
        BY <3>1, <3>2
    <2>2. ASSUME NEW p \in I, NEW q \in I, b.indices[p] > 0, b.indices[p] = b.indices[q]
          PROVE  p = q
      <3>1. \A r \in I : a.indices[r] > 0 => a.indices[r] # first
        BY <1>1, <1>8 DEF Linked
      <3>2. CASE p # free /\ q # free
        BY <1>1, <1>6, <2>2, <3>2 DEF Linked
      <3>3. CASE p = free /\ q # free
        BY <1>2, <1>6, <2>2, <3>1, <3>3
      <3>4. CASE p # free /\ q = free
        BY <1>2, <1>6, <2>2, <3>1, <3>4
      <3> QED
        BY <3>2, <3>3, <3>4
    <2>3. Reached(b, n, first)
      <3> DEFINE p == Probe(Hash[k], n)
      <3>1. \A u \in 1..Steps(n) : p[u] \in I
        BY <1>1, ProbeOf
      <3>2. b.items[first].key = k
        BY <1>4, <1>6
      <3> HIDE DEF p
      <3>3. free = p[t] /\ \A u \in 1..(t - 1) : a.indices[p[u]] > 0
        BY <1>10 DEF p
      <3>4. ASSUME NEW u \in 1..t PROVE b.indices[p[u]] # Empty
        <4>1. u \in 1..Steps(n)
          BY <1>2, StepsOf
        <4>2. CASE p[u] = free
          BY <1>2, <1>6, <4>2 DEF Empty
        <4>3. CASE p[u] # free
          <5>1. u \in 1..(t - 1)
            BY <3>3, <4>3
          <5>2. a.indices[p[u]] > 0 /\ b.indices[p[u]] = a.indices[p[u]]
            BY <1>6, <3>1, <3>3, <4>1, <4>3, <5>1
          <5> QED
            BY <5>2 DEF Empty
        <4> QED
          BY <4>2, <4>3
      <3>5. b.indices[p[t]] = first
        BY <1>6, <3>3
      <3> QED
        BY <3>2, <3>4, <3>5 DEF Reached, p
    <2>4. ASSUME NEW i \in FullItems(a) PROVE Reached(b, n, i)
      <3> DEFINE p == Probe(Hash[a.items[i].key], n)
      <3>1. i \in 1..cap /\ i # first /\ a.items[i].key \in Key
        BY <1>3, <1>8
      <3>2. \A u \in 1..Steps(n) : p[u] \in I
        <4>1. p \in [1..Steps(n) -> I]
          BY <1>1, <3>1, ProbeOf, Zenon
        <4> HIDE DEF p, I
        <4> QED
          BY <4>1
      <3>3. b.items[i] = a.items[i]
        BY <1>6, <3>1
      <3> HIDE DEF p
      <3>4. PICK s \in 1..Steps(n) : a.indices[p[s]] = i /\ \A u \in 1..s : a.indices[p[u]] # Empty
        <4>1. Reached(a, n, i)
          BY <1>1 DEF Linked
        <4> QED
          BY <4>1 DEF Reached, p
      <3>5. b.indices[p[s]] = i
        <4>1. p[s] # free
          BY <1>10, <3>1, <3>4
        <4> QED
          BY <1>6, <3>2, <3>4, <4>1
      <3>6. ASSUME NEW u \in 1..s PROVE b.indices[p[u]] # Empty
        <4>1. u \in 1..Steps(n)
          BY <1>2, StepsOf
        <4>2. a.indices[p[u]] # Empty /\ p[u] \in I
          BY <3>2, <3>4, <4>1
        <4>3. CASE p[u] = free
          BY <1>2, <1>6, <4>3 DEF Empty
        <4>4. CASE p[u] # free
          BY <1>6, <4>2, <4>4
        <4> QED
          BY <4>3, <4>4
      <3> QED
        BY <3>3, <3>5, <3>6 DEF Reached, p
    <2> QED
      BY <1>9, <2>1, <2>2, <2>3, <2>4 DEF Linked
  <1>13. Distinct(b)
    <2> SUFFICES ASSUME NEW i \in FullItems(b), NEW j \in FullItems(b),
                        Class[b.items[i].key] = Class[b.items[j].key]
                 PROVE  i = j
      BY DEF Distinct
    <2>1. \A h \in FullItems(a) : b.items[h] = a.items[h]
      BY <1>3, <1>6, <1>8
    <2>2. b.items[first].key = k
      BY <1>4, <1>6
    <2> QED
      BY <1>1, <1>9, <1>11, <2>1, <2>2 DEF Distinct
  <1>14. \A i \in 1..cap : b.items[i] = Unused <=> i >= first + 1
    <2>1. \A i \in 1..cap : i # first => (i >= first <=> i >= first + 1)
      BY <1>2
    <2>2. ~(first >= first + 1) /\ b.items[first] # Unused
      BY <1>2, <1>4, <1>6
    <2> QED
      BY <1>1, <1>2, <1>6, <2>1, <2>2
  <1>15. Cardinality(UsedIndices(b)) < first + 1
    <2>1. UsedIndices(b) = UsedIndices(a) \cup {free}
      <3>1. free \in I /\ first # Empty
        BY <1>2 DEF Empty
      <3> HIDE DEF I
      <3> QED
        BY <1>3, <1>6, <3>1 DEF UsedIndices
    <2>2. Cardinality(UsedIndices(a) \cup {free}) <= Cardinality(UsedIndices(a)) + 1
      <3>1. Cardinality(UsedIndices(a) \cup {free}) =
              IF free \in UsedIndices(a) THEN Cardinality(UsedIndices(a)) ELSE Cardinality(UsedIndices(a)) + 1
        BY <1>3, FS_AddElement
      <3> QED
        BY <1>3, <3>1
    <2>3. Cardinality(UsedIndices(b)) \in Nat
      BY <1>7, FieldsOf
    <2> QED
      BY <1>1, <1>2, <1>3, <2>1, <2>2, <2>3
  <1>16. num + 1 = Cardinality(FullItems(b))
    BY <1>1, <1>3, <1>8, <1>9, FS_AddElement
  <1>17. first + 1 \in 1..(cap + 1)
    BY <1>2
  <1>18. Intact(b, n, first + 1, num + 1)
    BY <1>7, <1>12, <1>13, <1>14, <1>15, <1>16, <1>17 DEF Intact, cap
  <1> QED
    BY <1>8, <1>9, <1>18

IsSet(f, g, i, x) == f = [g EXCEPT ![i] = x]

Valued(a, i, v) == [a EXCEPT !.items[i].value = v]

\* Another value for the item i.
LEMMA ValueOf ==
    ASSUME NEW a, NEW n, NEW first, NEW num, Intact(a, n, first, num),
           NEW i \in FullItems(a), NEW v \in Value,
           NEW b, b = Valued(a, i, v)
    PROVE  /\ Intact(b, n, first, num) /\ FullItems(b) = FullItems(a)
           /\ IsSet(b.items, a.items, i, [key |-> a.items[i].key, value |-> v])
  <1> DEFINE item == [key |-> a.items[i].key, value |-> v]
             cap == capacity(n)
             I == 0..(n - 1)
  <1>1. /\ Size(n) /\ Fields(a, n) /\ Linked(a, n) /\ Distinct(a)
        /\ \A j \in 1..cap : a.items[j] = Unused <=> j >= first
        /\ Cardinality(UsedIndices(a)) < first /\ num = Cardinality(FullItems(a))
        /\ first \in 1..(cap + 1)
    BY DEF Intact, Fields
  <1>2. /\ a = [items |-> a.items, indices |-> a.indices]
        /\ a.items \in [1..cap -> Item] /\ a.indices \in [I -> Int]
        /\ DOMAIN a.items = 1..cap /\ DOMAIN a.indices = I
        /\ i \in 1..cap /\ a.items[i].key \in Key
    BY <1>1, FieldsOf
  <1> HIDE DEF cap, I
  <1>3. item \in Item /\ Full(item) /\ Full(a.items[i]) /\ item # Unused /\ a.items[i] # Unused
        /\ item.key = a.items[i].key
    BY <1>2, DictAssumption DEF Item, Full, Unused, FullItems
  <1>4. [a.items[i] EXCEPT !.value = v] = item
    <2>1. a.items[i] \in Item
      BY <1>2
    <2>2. a.items[i] = [key |-> a.items[i].key, value |-> a.items[i].value]
      BY <1>3, <2>1, FullItem
    <2> QED
      BY <2>2
  <1> HIDE DEF item
  <1>5. /\ b.items = [a.items EXCEPT ![i] = item] /\ b.indices = a.indices
        /\ b = [items |-> b.items, indices |-> b.indices]
    BY <1>2, <1>4 DEF Valued
  <1>6. /\ b.items \in [1..cap -> Item] /\ DOMAIN b.items = 1..cap
        /\ b.items[i] = item /\ \A j \in 1..cap : j # i => b.items[j] = a.items[j]
    BY <1>2, <1>3, <1>5
  <1>7. Fields(b, n)
    <2>1. b \in [items : [1..cap -> Item], indices : [I -> Int]]
      BY <1>2, <1>5, <1>6, Zenon
    <2> QED
      BY <1>1, <2>1 DEF Fields, cap, I
  <1>8. FullItems(b) = FullItems(a) /\ UsedIndices(b) = UsedIndices(a)
    BY <1>2, <1>3, <1>5, <1>6 DEF FullItems, UsedIndices
  <1>9. \A j \in 1..cap : b.items[j].key = a.items[j].key /\ (b.items[j] = Unused <=> a.items[j] = Unused)
    BY <1>3, <1>6
  <1>10. FullItems(a) \subseteq 1..cap
    BY <1>2 DEF FullItems
  <1>11. ASSUME NEW j \in FullItems(a) PROVE Reached(b, n, j)
    <2>1. b.items[j].key = a.items[j].key /\ Reached(a, n, j)
      BY <1>1, <1>9, <1>10 DEF Linked
    <2> DEFINE p == Probe(Hash[a.items[j].key], n)
    <2>2. PICK s \in 1..Steps(n) : a.indices[p[s]] = j /\ \A u \in 1..s : a.indices[p[u]] # Empty
      BY <2>1 DEF Reached
    <2>3. p = Probe(Hash[b.items[j].key], n)
      BY <2>1
    <2> HIDE DEF p
    <2>4. b.indices[p[s]] = j /\ \A u \in 1..s : b.indices[p[u]] # Empty
      BY <1>5, <2>2
    <2> QED
      BY <2>3, <2>4 DEF Reached
  <1>12. Linked(b, n)
    BY <1>1, <1>5, <1>8, <1>11 DEF Linked
  <1>13. Distinct(b)
    BY <1>1, <1>8, <1>9, <1>10 DEF Distinct
  <1>14. Intact(b, n, first, num)
    BY <1>1, <1>7, <1>8, <1>9, <1>12, <1>13 DEF Intact, cap
  <1> QED
    BY <1>5, <1>8, <1>14 DEF item, IsSet

RemovedAt(a, i, at) ==
    [items |-> [a.items EXCEPT ![i] = Removed], indices |-> [a.indices EXCEPT ![at] = Tombstone]]

\* The item i is removed.
LEMMA RemovedOf ==
    ASSUME NEW a, NEW n, NEW first, NEW num, Intact(a, n, first, num),
           NEW at \in 0..(n - 1), NEW i, i = a.indices[at], i > 0,
           NEW b, b = RemovedAt(a, i, at)
    PROVE  /\ Intact(b, n, first, num - 1)
           /\ i \in FullItems(a) /\ FullItems(b) = FullItems(a) \ {i}
  <1> DEFINE cap == capacity(n)
             I == 0..(n - 1)
  <1>1. /\ Size(n) /\ Fields(a, n) /\ Linked(a, n) /\ Distinct(a)
        /\ \A j \in 1..cap : a.items[j] = Unused <=> j >= first
        /\ Cardinality(UsedIndices(a)) < first /\ num = Cardinality(FullItems(a))
        /\ first \in 1..(cap + 1)
    BY DEF Intact, Fields
  <1>2. i \in FullItems(a)
    BY <1>1 DEF Linked
  <1>3. /\ a = [items |-> a.items, indices |-> a.indices]
        /\ a.items \in [1..cap -> Item] /\ a.indices \in [I -> Int]
        /\ DOMAIN a.items = 1..cap /\ DOMAIN a.indices = I
        /\ i \in 1..cap /\ \A j \in FullItems(a) : j \in 1..cap /\ a.items[j].key \in Key
        /\ IsFiniteSet(FullItems(a)) /\ Cardinality(FullItems(a)) \in Nat
    BY <1>1, <1>2, FieldsOf
  <1>4. Removed \in Item /\ ~Full(Removed) /\ Removed # Unused /\ Full(a.items[i]) /\ a.items[i] # Unused
    BY <1>2 DEF Removed, Unused, Item, Full, FullItems
  <1>5. Tombstone # Empty /\ ~(Tombstone > 0) /\ Tombstone \in Int
    BY DEF Tombstone, Empty
  <1>6. at \in I
    OBVIOUS
  <1> HIDE DEF cap, I
  <1>7. /\ b.items = [a.items EXCEPT ![i] = Removed] /\ b.indices = [a.indices EXCEPT ![at] = Tombstone]
        /\ b = [items |-> b.items, indices |-> b.indices]
    BY DEF RemovedAt
  <1>8. /\ b.items \in [1..cap -> Item] /\ DOMAIN b.items = 1..cap
        /\ b.items[i] = Removed /\ \A j \in 1..cap : j # i => b.items[j] = a.items[j]
        /\ b.indices \in [I -> Int] /\ DOMAIN b.indices = I
        /\ b.indices[at] = Tombstone /\ \A p \in I : p # at => b.indices[p] = a.indices[p]
    <2>1. /\ b.items \in [1..cap -> Item] /\ DOMAIN b.items = 1..cap
          /\ b.items[i] = Removed /\ \A j \in 1..cap : j # i => b.items[j] = a.items[j]
      BY <1>3, <1>4, <1>7
    <2>2. /\ b.indices \in [I -> Int] /\ DOMAIN b.indices = I
          /\ b.indices[at] = Tombstone /\ \A p \in I : p # at => b.indices[p] = a.indices[p]
      BY <1>3, <1>5, <1>6, <1>7
    <2> QED
      BY <2>1, <2>2
  <1>9. Fields(b, n)
    <2>1. b \in [items : [1..cap -> Item], indices : [I -> Int]]
      BY <1>7, <1>8, Zenon
    <2> QED
      BY <1>1, <2>1 DEF Fields, cap, I
  <1>10. FullItems(b) = FullItems(a) \ {i}
    BY <1>3, <1>4, <1>8 DEF FullItems
  <1>11. a.indices[at] # Empty
    BY DEF Empty
  <1>12. UsedIndices(b) = UsedIndices(a)
    BY <1>3, <1>5, <1>6, <1>8, <1>11 DEF UsedIndices
  <1>13. \A p \in I : b.indices[p] > 0 => p # at /\ b.indices[p] = a.indices[p]
    BY <1>5, <1>8
  <1>14. /\ \A p \in I : a.indices[p] > 0 => a.indices[p] \in FullItems(a)
         /\ \A p, q \in I : a.indices[p] > 0 /\ a.indices[p] = a.indices[q] => p = q
         /\ \A j \in FullItems(a) : Reached(a, n, j)
    BY <1>1 DEF Linked, I
  <1>15. ASSUME NEW p \in I, b.indices[p] > 0 PROVE b.indices[p] \in FullItems(b)
    <2>1. a.indices[p] \in FullItems(a) /\ p # at /\ b.indices[p] = a.indices[p] /\ a.indices[p] > 0
      BY <1>13, <1>14, <1>15
    <2>2. a.indices[p] # i
      BY <1>6, <1>14, <2>1
    <2> QED
      BY <1>10, <2>1, <2>2
  <1>16. ASSUME NEW p \in I, NEW q \in I, b.indices[p] > 0, b.indices[p] = b.indices[q]
         PROVE  p = q
    BY <1>13, <1>14, <1>16
  <1>17. ASSUME NEW j \in FullItems(b) PROVE Reached(b, n, j)
    <2> DEFINE p == Probe(Hash[a.items[j].key], n)
    <2>1. j \in FullItems(a) /\ j # i /\ j \in 1..cap /\ a.items[j].key \in Key
      BY <1>3, <1>10
    <2>2. \A u \in 1..Steps(n) : p[u] \in I
      <3>1. p \in [1..Steps(n) -> I]
        BY <1>1, <2>1, ProbeOf, Zenon DEF I
      <3> HIDE DEF p, I
      <3> QED
        BY <3>1
    <2>3. b.items[j] = a.items[j]
      BY <1>8, <2>1
    <2> HIDE DEF p
    <2>4. PICK s \in 1..Steps(n) : a.indices[p[s]] = j /\ \A u \in 1..s : a.indices[p[u]] # Empty
      <3>1. Reached(a, n, j)
        BY <1>14, <2>1
      <3> QED
        BY <3>1 DEF Reached, p
    <2>5. b.indices[p[s]] = j
      BY <1>8, <2>1, <2>2, <2>4
    <2>6. ASSUME NEW u \in 1..s PROVE b.indices[p[u]] # Empty
      <3>1. u \in 1..Steps(n)
        BY <1>1, SizeIs, StepsOf
      <3> QED
        BY <1>5, <1>8, <2>2, <2>4, <3>1
    <2> QED
      BY <2>3, <2>5, <2>6 DEF Reached, p
  <1>18. Linked(b, n)
    BY <1>15, <1>16, <1>17 DEF Linked, I
  <1>19. Distinct(b)
    <2>1. \A j \in FullItems(b) : j \in FullItems(a) /\ b.items[j] = a.items[j]
      BY <1>3, <1>8, <1>10
    <2> QED
      BY <1>1, <2>1 DEF Distinct
  <1>20. \A j \in 1..cap : b.items[j] = Unused <=> a.items[j] = Unused
    BY <1>4, <1>8
  <1>21. num - 1 = Cardinality(FullItems(b))
    <2>1. Cardinality(FullItems(a) \ {i}) = Cardinality(FullItems(a)) - 1
      BY <1>2, <1>3, FS_RemoveElement
    <2> QED
      BY <1>1, <1>10, <2>1
  <1>22. Intact(b, n, first, num - 1)
    BY <1>1, <1>9, <1>12, <1>18, <1>19, <1>20, <1>21 DEF Intact, cap
  <1> QED
    BY <1>2, <1>10, <1>22

-----------------------------------------------------------------------------
(***************************************************************************)
(* Growth.                                                                 *)
(***************************************************************************)

\* The members of a set of numbers in their order.
Ordered(S) == [j \in 1..Cardinality(S) |-> CHOOSE i \in S : Cardinality({h \in S : h <= i}) = j]

\* The order is a function.
LEMMA OrderedIs ==
    ASSUME NEW S, NEW m, m = Cardinality(S)
    PROVE  Ordered(S) = [j \in 1..m |-> Ordered(S)[j]]
  <1> DEFINE place(j) == CHOOSE i \in S : Cardinality({h \in S : h <= i}) = j
  <1>1. Ordered(S) = [j \in 1..m |-> place(j)]
    BY DEF Ordered
  <1> HIDE DEF place
  <1> QED
    BY <1>1

\* The order is a bijection, and each member has its rank.
LEMMA OrderedOf ==
    ASSUME NEW S \in SUBSET Nat, IsFiniteSet(S)
    PROVE  /\ Ordered(S) \in [1..Cardinality(S) -> S]
           /\ \A s \in S : \E j \in 1..Cardinality(S) : Ordered(S)[j] = s
           /\ \A j \in 1..Cardinality(S) : Cardinality({h \in S : h <= Ordered(S)[j]}) = j
           /\ \A i, j \in 1..Cardinality(S) : i < j => Ordered(S)[i] < Ordered(S)[j]
  <1> DEFINE m == Cardinality(S)
             UpTo(i) == {h \in S : h <= i}
             rank == [i \in S |-> Cardinality(UpTo(i))]
  <1>1. m \in Nat
    BY FS_CardinalityType
  <1>2. ASSUME NEW i \in S
        PROVE  IsFiniteSet(UpTo(i)) /\ Cardinality(UpTo(i)) \in 1..m
    <2>1. UpTo(i) \in SUBSET S /\ i \in UpTo(i)
      OBVIOUS
    <2> HIDE DEF UpTo
    <2>2. IsFiniteSet(UpTo(i)) /\ Cardinality(UpTo(i)) <= m
      BY <2>1, FS_Subset
    <2>3. Cardinality(UpTo(i)) \in Nat /\ Cardinality(UpTo(i)) # 0
      BY <2>1, <2>2, FS_CardinalityType, FS_EmptySet
    <2> HIDE DEF m
    <2> QED
      BY <1>1, <2>2, <2>3
  <1>3. rank \in [S -> 1..m]
    <2> HIDE DEF UpTo, m
    <2> QED
      BY <1>2
  <1>4. ASSUME NEW i \in S, NEW j \in S, i < j
        PROVE  Cardinality(UpTo(i)) < Cardinality(UpTo(j))
    <2>0. i \in Nat /\ j \in Nat /\ \A h \in S : h \in Nat
      OBVIOUS
    <2>1. UpTo(i) \in SUBSET UpTo(j) /\ j \in UpTo(j) /\ j \notin UpTo(i)
      <3>1. \A h \in S : h <= i => h <= j
        BY <1>4, <2>0
      <3>2. j \in UpTo(j)
        BY <2>0
      <3>3. ~ (j <= i)
        BY <1>4, <2>0
      <3> QED
        BY <3>1, <3>2, <3>3
    <2>2. IsFiniteSet(UpTo(j)) /\ Cardinality(UpTo(j)) \in Nat /\ Cardinality(UpTo(i)) \in Nat
      BY <1>2, FS_CardinalityType
    <2> HIDE DEF UpTo
    <2>3. Cardinality(UpTo(i)) <= Cardinality(UpTo(j)) /\ Cardinality(UpTo(i)) # Cardinality(UpTo(j))
      BY <2>1, <2>2, FS_Subset
    <2> QED
      BY <2>2, <2>3
  <1>5. ASSUME NEW i \in S, NEW j \in S, rank[i] = rank[j] PROVE i = j
    <2>1. i < j \/ j < i \/ i = j
      OBVIOUS
    <2>2. Cardinality(UpTo(i)) = Cardinality(UpTo(j)) /\ Cardinality(UpTo(i)) \in Nat
      BY <1>2, <1>5
    <2> HIDE DEF UpTo
    <2> QED
      BY <1>4, <2>1, <2>2
  <1>6. rank \in Injection(S, 1..m)
    <2> HIDE DEF rank, m
    <2> QED
      BY <1>3, <1>5, Fun_IsInj
  <1>7. IsFiniteSet(1..m) /\ Cardinality(1..m) = m
    <2> HIDE DEF m
    <2> QED
      BY <1>1, Numbers
  <1>8. rank \in Surjection(S, 1..m)
    <2> HIDE DEF rank
    <2> QED
      BY <1>6, <1>7, FS_Injection
  <1>9. ASSUME NEW c \in 1..m
        PROVE  Ordered(S)[c] \in S /\ rank[Ordered(S)[c]] = c
               /\ Cardinality({h \in S : h <= Ordered(S)[c]}) = c
    <2>1. \E i \in S : rank[i] = c
      <3> HIDE DEF rank, m
      <3>1. \A t \in 1..m : \E s \in S : rank[s] = t
        BY <1>8 DEF Surjection
      <3> QED
        BY <3>1
    <2>2. Ordered(S)[c] = CHOOSE i \in S : Cardinality({h \in S : h <= i}) = c
      BY DEF Ordered
    <2>3. \E i \in S : Cardinality({h \in S : h <= i}) = c
      BY <2>1
    <2>4. Ordered(S)[c] \in S /\ Cardinality({h \in S : h <= Ordered(S)[c]}) = c
      BY <2>2, <2>3
    <2> QED
      BY <2>4
  <1>10. Ordered(S) = [c \in 1..m |-> Ordered(S)[c]]
    BY OrderedIs
  <1>11. ASSUME NEW i \in 1..m, NEW j \in 1..m, i < j PROVE Ordered(S)[i] < Ordered(S)[j]
    <2> DEFINE x == Ordered(S)[i]
               y == Ordered(S)[j]
    <2>1. x \in S /\ y \in S /\ Cardinality(UpTo(x)) = i /\ Cardinality(UpTo(y)) = j
      BY <1>9
    <2> HIDE DEF x, y
    <2>2. x < y \/ y < x \/ x = y
      BY <2>1
    <2>3. i \in Nat /\ j \in Nat
      OBVIOUS
    <2> HIDE DEF UpTo, m
    <2>4. x < y
      BY <1>4, <1>11, <2>1, <2>2, <2>3
    <2> QED
      BY <2>4 DEF x, y
  <1> HIDE DEF rank, m
  <1>12. Ordered(S) \in [1..m -> S]
    BY <1>9, <1>10
  <1>13. ASSUME NEW s \in S PROVE \E c \in 1..m : Ordered(S)[c] = s
    <2>1. rank[s] \in 1..m
      BY <1>3
    <2> QED
      BY <1>5, <1>9, <2>1
  <1> QED
    BY <1>9, <1>11, <1>12, <1>13 DEF m

\* The numbers up to m are their own order.
LEMMA OrderedNumbers ==
    ASSUME NEW m \in Nat
    PROVE  Ordered(1..m) = [j \in 1..m |-> j]
  <1>1. IsFiniteSet(1..m) /\ Cardinality(1..m) = m /\ 1..m \in SUBSET Nat
    BY Numbers
  <1>2. ASSUME NEW j \in 1..m PROVE Ordered(1..m)[j] = j
    <2> DEFINE x == Ordered(1..m)[j]
    <2>1. x \in 1..m /\ Cardinality({h \in 1..m : h <= x}) = j
      BY <1>1, OrderedOf
    <2> HIDE DEF x
    <2>2. {h \in 1..m : h <= x} = 1..x /\ x \in Nat
      BY <2>1
    <2>3. Cardinality(1..x) = x
      BY <2>2, Numbers
    <2> QED
      BY <2>1, <2>2, <2>3 DEF x
  <1>3. Ordered(1..m) = [j \in 1..m |-> Ordered(1..m)[j]]
    BY <1>1, OrderedIs
  <1> QED
    BY <1>2, <1>3

\* The loop of the insertions: no index is a tombstone.
NoTombstone(a, n) == \A p \in 0..(n - 1) : a.indices[p] > 0 \/ a.indices[p] = Empty

Absent(a, k) == \A i \in FullItems(a) : Class[a.items[i].key] # Class[k]

Enters(a, n, k, j) ==
    \E free \in 0..(n - 1) : /\ NewPlace(a, n, k, free)
                             /\ InsertNoUpdate(a.indices, Hash[k], j) = [a.indices EXCEPT ![free] = j]

\* dictInsertNoUpdate: the first empty index is the first free one.
LEMMA InsertNoUpdateOf ==
    ASSUME NEW a, NEW n, NEW first, NEW num, Intact(a, n, first, num), NoTombstone(a, n),
           NEW k \in Key, Absent(a, k), NEW j
    PROVE  Enters(a, n, k, j)
  <1> DEFINE p == Probe(Hash[k], n)
             I == {s \in 1..Steps(n) : a.indices[p[s]] = Empty}
             m == Min(I)
  <1>1. Size(n) /\ Fields(a, n)
    BY DEF Intact, Fields
  <1>2. /\ n \in Nat /\ n >= 2 /\ Steps(n) \in Nat /\ Steps(n) >= n
        /\ p \in [1..Steps(n) -> 0..(n - 1)] /\ Len(p) = Steps(n)
        /\ \A r \in 0..(n - 1) : \E s \in 1..Steps(n) : p[s] = r
    BY <1>1, ProbeOf
  <1>3. DOMAIN a.indices = 0..(n - 1) /\ Cardinality(DOMAIN a.indices) = n
    BY <1>1, <1>2, FieldsOf, Numbers
  <1> HIDE DEF p
  <1>4. \A s \in 1..Steps(n) : p[s] \in 0..(n - 1)
    BY <1>2
  <1>5. I # {}
    <2>1. PICK r \in 0..(n - 1) : a.indices[r] = Empty
      BY EmptyIndex
    <2>2. PICK s \in 1..Steps(n) : p[s] = r
      BY <1>2
    <2> QED
      BY <2>1, <2>2
  <1>6. m \in 1..Steps(n) /\ a.indices[p[m]] = Empty /\ \A u \in 1..(m - 1) : a.indices[p[u]] > 0
    <2>1. I \in SUBSET (1..Steps(n))
      OBVIOUS
    <2>2. \A s : s \in I <=> s \in 1..Steps(n) /\ a.indices[p[s]] = Empty
      OBVIOUS
    <2> HIDE DEF I
    <2>3. m \in I /\ m \in 1..Steps(n) /\ \A u \in 1..(m - 1) : u \notin I
      BY <1>2, <1>5, <2>1, FirstIn
    <2> HIDE DEF m
    <2>4. \A u \in 1..(m - 1) : u \in 1..Steps(n)
      BY <1>2, <2>3
    <2> QED
      BY <1>4, <2>2, <2>3, <2>4 DEF NoTombstone
  <1>7. NewPlace(a, n, k, p[m])
    <2> HIDE DEF m
    <2>1. ~(a.indices[p[m]] > 0)
      BY <1>6 DEF Empty
    <2> QED
      BY <1>6, <2>1 DEF NewPlace, Absent, p
  <1>8. InsertNoUpdate(a.indices, Hash[k], j) = [a.indices EXCEPT ![p[m]] = j]
    <2>1. p[m] = p[SelectInSeq(p, LAMBDA q : a.indices[q] = Empty)]
      <3>1. SelectInSeq(p, LAMBDA q : a.indices[q] = Empty) = m
        BY <1>2, <1>5 DEF SelectInSeq
      <3> QED
        BY <3>1
    <2> QED
      BY <1>3, <2>1 DEF InsertNoUpdate, p
  <1>9. p[m] \in 0..(n - 1)
    <2> HIDE DEF m
    <2> QED
      BY <1>4, <1>6
  <1> QED
    BY <1>7, <1>8, <1>9 DEF Enters

\* The new arrays after c insertions.
Part(live, indices, n, c) ==
    [items |-> [i \in 1..capacity(n) |-> IF i \in 1..c THEN live[i] ELSE Unused],
     indices |-> indices]

\* The indices in the loop.
Fills(f, n, m, live) ==
    f = [i \in 0..m |-> IF i = 0 THEN NewArrays(n).indices
                        ELSE InsertNoUpdate(f[i - 1], Hash[live[i].key], i)]

Apart(live, m) == \A i, j \in 1..m : Class[live[i].key] = Class[live[j].key] => i = j

\* One insertion of the loop of dictEnsureCapacity.
LEMMA FillOne ==
    ASSUME NEW n, Size(n), NEW m \in Nat, m <= capacity(n),
           NEW live \in [1..m -> [key : Key, value : Value]],
           Apart(live, m),
           NEW c \in 0..(m - 1), NEW ind, NEW a, a = Part(live, ind, n, c),
           Intact(a, n, c + 1, c), NoTombstone(a, n),
           NEW new, new = InsertNoUpdate(ind, Hash[live[c + 1].key], c + 1),
           NEW b, b = Part(live, new, n, c + 1)
    PROVE  Intact(b, n, (c + 1) + 1, c + 1) /\ NoTombstone(b, n)
  <1> DEFINE item == live[c + 1]
             cap == capacity(n)
  <1>1. /\ n \in Nat /\ cap \in Nat /\ c \in Nat /\ c + 1 \in 1..m /\ c + 1 \in 1..cap
        /\ c + 1 <= cap
    BY Capacities
  <1>2. item \in [key : Key, value : Value]
    <2> HIDE DEF cap
    <2> QED
      BY <1>1
  <1>3. item.key \in Key /\ item.value \in Value /\ item = [key |-> item.key, value |-> item.value]
    <2> HIDE DEF item
    <2> QED
      BY <1>2
  <1>4. /\ a.items = [i \in 1..cap |-> IF i \in 1..c THEN live[i] ELSE Unused] /\ a.indices = ind
        /\ b.items = [i \in 1..cap |-> IF i \in 1..(c + 1) THEN live[i] ELSE Unused] /\ b.indices = new
        /\ b = [items |-> b.items, indices |-> b.indices]
    BY DEF Part
  <1>5. ASSUME NEW i \in FullItems(a) PROVE Class[a.items[i].key] # Class[item.key]
    <2>1. i \in 1..cap /\ Full(a.items[i])
      BY <1>4 DEF FullItems
    <2>2. i \in 1..c /\ a.items[i] = live[i]
      BY <1>4, <2>1 DEF Full, Unused
    <2>3. i \in 1..m /\ i # c + 1
      BY <1>1, <2>2
    <2> QED
      BY <1>1, <2>2, <2>3 DEF Apart
  <1> HIDE DEF item
  <1>6. PICK free \in 0..(n - 1) : /\ NewPlace(a, n, item.key, free)
                                   /\ new = [ind EXCEPT ![free] = c + 1]
    <2>1. new = InsertNoUpdate(a.indices, Hash[item.key], c + 1)
      BY <1>4 DEF item
    <2>2. Enters(a, n, item.key, c + 1)
      <3>1. Absent(a, item.key)
        BY <1>5 DEF Absent
      <3>2. item.key \in Key
        BY <1>3
      <3> QED
        BY <3>1, <3>2, InsertNoUpdateOf
    <2> QED
      BY <1>4, <2>1, <2>2 DEF Enters
  <1>7. b.items = [a.items EXCEPT ![c + 1] = item]
    <2>1. ASSUME NEW i \in 1..cap
          PROVE  b.items[i] = IF i = c + 1 THEN item ELSE a.items[i]
      <3>1. i \in 1..(c + 1) <=> i \in 1..c \/ i = c + 1
        BY <1>1
      <3>2. ~(c + 1 \in 1..c)
        BY <1>1
      <3> QED
        BY <1>1, <1>4, <3>1, <3>2 DEF item
    <2>2. DOMAIN a.items = 1..cap /\ DOMAIN b.items = 1..cap
      BY <1>4
    <2>3. /\ a.items = [i \in 1..cap |-> a.items[i]]
          /\ b.items = [i \in 1..cap |-> b.items[i]]
      BY <1>4
    <2> HIDE DEF cap
    <2> QED
      BY <1>1, <2>1, <2>2, <2>3
  <1>8. b = Inserted(a, c + 1, item.key, item.value, free)
    BY <1>3, <1>4, <1>6, <1>7 DEF Inserted
  <1>9. Intact(b, n, (c + 1) + 1, c + 1)
    <2>1. free \in 0..(n - 1) /\ NewPlace(a, n, item.key, free)
      BY <1>6
    <2> HIDE DEF cap
    <2> QED
      BY <1>1, <1>3, <1>8, <2>1, InsertedOf DEF cap
  <1>10. NoTombstone(b, n)
    <2>1. DOMAIN a.indices = 0..(n - 1)
      <3>1. Fields(a, n)
        BY DEF Intact
      <3> QED
        BY <3>1, FieldsOf
    <2>2. \A p \in 0..(n - 1) : b.indices[p] = IF p = free THEN c + 1 ELSE a.indices[p]
      BY <1>4, <1>6, <2>1
    <2> QED
      BY <1>1, <2>2 DEF NoTombstone
  <1> QED
    BY <1>9, <1>10

\* The loop of dictEnsureCapacity ends with arrays that hold all items.
LEMMA FilledAll ==
    ASSUME NEW n, Size(n), NEW m \in Nat, m <= capacity(n),
           NEW live \in [1..m -> [key : Key, value : Value]],
           Apart(live, m)
    PROVE  /\ \E f : Fills(f, n, m, live)
           /\ \A f : Fills(f, n, m, live) => Intact(Part(live, f[m], n, m), n, m + 1, m)
  <1> DEFINE X == [0..(n - 1) -> Int]
             new(i, before) == InsertNoUpdate(before, Hash[live[i].key], i)
             step == [z \in (0..m) \X X |-> new(z[1], z[2])]
             zero == NewArrays(n).indices
  <1>1. zero \in X
    BY DEF NewArrays, Empty
  <1>2. step \in [(0..m) \X X -> X]
    <2>1. ASSUME NEW i \in 0..m, NEW before \in X PROVE new(i, before) \in X
      <3> DEFINE p == Probe(Hash[live[i].key], Cardinality(DOMAIN before))
                 q == p[SelectInSeq(p, LAMBDA r : before[r] = Empty)]
      <3>1. new(i, before) = [before EXCEPT ![q] = i]
        BY DEF InsertNoUpdate
      <3>2. i \in Int
        OBVIOUS
      <3> HIDE DEF q, new
      <3> QED
        BY <3>1, <3>2
    <2> HIDE DEF new, X
    <2> QED
      BY <2>1
  <1>3. PICK f \in [0..m -> X] :
           f = [i \in 0..m |-> IF i = 0 THEN zero ELSE step[<<i, f[i - 1]>>]]
    <2> HIDE DEF X, step, zero
    <2>1. HasRun(m, X, zero, step)
      BY <1>1, <1>2, FiniteRecursion
    <2> QED
      BY <2>1 DEF HasRun
  <1>4. Fills(f, n, m, live)
    <2>1. ASSUME NEW i \in 0..m, i # 0 PROVE step[<<i, f[i - 1]>>] = new(i, f[i - 1])
      <3>1. i - 1 \in 0..m
        BY <2>1
      <3>2. f[i - 1] \in X
        BY <3>1
      <3> HIDE DEF X, new
      <3> QED
        BY <3>2
    <2>2. f = [i \in 0..m |-> IF i = 0 THEN zero ELSE new(i, f[i - 1])]
      <3> HIDE DEF step, new, zero
      <3> QED
        BY <1>3, <2>1
    <2> QED
      BY <2>2 DEF Fills
  <1>5. ASSUME NEW g, Fills(g, n, m, live) PROVE Intact(Part(live, g[m], n, m), n, m + 1, m)
    <2> DEFINE Done(c) == /\ Intact(Part(live, g[c], n, c), n, c + 1, c)
                          /\ NoTombstone(Part(live, g[c], n, c), n)
               S == {c \in Nat : c <= m => Done(c)}
    <2>1. g[0] = zero /\ \A c \in 0..m : c # 0 => g[c] = new(c, g[c - 1])
      <3>1. g = [i \in 0..m |-> IF i = 0 THEN zero ELSE new(i, g[i - 1])]
        BY <1>5 DEF Fills
      <3>2. 0 \in 0..m
        OBVIOUS
      <3> HIDE DEF new, zero
      <3> QED
        BY <3>1, <3>2
    <2>2. Done(0)
      <3>1. Part(live, zero, n, 0) = NewArrays(n)
        <4>1. 1..0 = {}
          OBVIOUS
        <4> QED
          BY <4>1 DEF Part, NewArrays, capacity
      <3>2. Intact(NewArrays(n), n, 0 + 1, 0)
        BY NewOf
      <3>3. NoTombstone(NewArrays(n), n)
        BY DEF NoTombstone, NewArrays
      <3> HIDE DEF zero
      <3> QED
        BY <2>1, <3>1, <3>2, <3>3
    <2> HIDE DEF Done, new, zero
    <2>3. ASSUME NEW c \in S PROVE c + 1 \in S
      <3>1. c \in Nat
        OBVIOUS
      <3>2. SUFFICES ASSUME c + 1 <= m PROVE Done(c + 1)
        BY <3>1
      <3>3. c + 1 \in 0..m /\ c + 1 # 0 /\ (c + 1) - 1 = c /\ c \in 0..(m - 1) /\ c <= m
        BY <3>1, <3>2
      <3>4. Intact(Part(live, g[c], n, c), n, c + 1, c) /\ NoTombstone(Part(live, g[c], n, c), n)
        BY <3>3 DEF Done
      <3>5. g[c + 1] = InsertNoUpdate(g[c], Hash[live[c + 1].key], c + 1)
        <4>1. g[c + 1] = new(c + 1, g[c])
          BY <2>1, <3>3
        <4> QED
          BY <4>1 DEF new
      <3> HIDE DEF S
      <3>6. /\ Intact(Part(live, g[c + 1], n, c + 1), n, (c + 1) + 1, c + 1)
            /\ NoTombstone(Part(live, g[c + 1], n, c + 1), n)
        BY <3>3, <3>4, <3>5, FillOne, Zenon
      <3> QED
        BY <3>6 DEF Done
    <2>4. S = Nat
      <3>1. S \in SUBSET Nat
        OBVIOUS
      <3> HIDE DEF S
      <3> QED
        BY <2>2, <2>3, <3>1, SetInduction DEF S
    <2> QED
      BY <2>4 DEF Done
  <1> QED
    BY <1>4, <1>5

\* The dict d has one pair of arrays, a.
Has(d, a, n) ==
    /\ d = [arrays |-> <<a>>, numItems |-> d.numItems, firstEmpty |-> d.firstEmpty]
    /\ Intact(a, n, d.firstEmpty, d.numItems)

\* The items of arrays in their order.
LiveOf(a) == [j \in 1..Cardinality(FullItems(a)) |-> a.items[Ordered(FullItems(a))[j]]]

LiveIn(items, live) ==
    [j \in 1..Cardinality(live) |-> items[CHOOSE i \in live : Cardinality({h \in live : h <= i}) = j]]

\* q has the num items of a in their order.
Lists(q, a, num) ==
    /\ q = LiveOf(a)
    /\ q \in Seq([key : Key, value : Value]) /\ Len(q) = num
    /\ q \in [1..num -> [key : Key, value : Value]]
    /\ \A j \in 1..num : /\ Ordered(FullItems(a))[j] \in FullItems(a)
                         /\ q[j] = a.items[Ordered(FullItems(a))[j]]
    /\ Apart(q, num)

\* The iteration with dictNextItem lists the items in their order.
LEMMA LiveItemsOf ==
    ASSUME NEW d, NEW a, NEW n, NEW num, Intact(a, n, d.firstEmpty, num), Last(d.arrays) = a
    PROVE  Lists(LiveItems(d), a, num)
  <1> DEFINE S == FullItems(a)
             place(j) == CHOOSE i \in S : Cardinality({h \in S : h <= i}) = j
  <1>1. /\ Fields(a, n) /\ Distinct(a) /\ num = Cardinality(S)
        /\ d.firstEmpty \in 1..(capacity(n) + 1)
        /\ \A i \in 1..capacity(n) : a.items[i] = Unused <=> i >= d.firstEmpty
    BY DEF Intact
  <1>2. /\ DOMAIN a.items = 1..capacity(n) /\ capacity(n) \in Nat /\ num \in Nat
        /\ a.items \in [1..capacity(n) -> Item]
        /\ IsFiniteSet(S) /\ S \in SUBSET Nat /\ \A i \in S : i \in 1..capacity(n)
    <2>1. /\ DOMAIN a.items = 1..capacity(n) /\ capacity(n) \in Nat /\ num \in Nat
          /\ a.items \in [1..capacity(n) -> Item]
          /\ IsFiniteSet(S) /\ \A i \in S : i \in 1..capacity(n)
      BY <1>1, FieldsOf
    <2> HIDE DEF S
    <2> QED
      BY <2>1
  <1>3. {i \in 1..(d.firstEmpty - 1) : Full(a.items[i])} = S
    <2>1. ASSUME NEW i \in S PROVE i \in 1..(d.firstEmpty - 1)
      <3>1. i \in 1..capacity(n) /\ a.items[i] # Unused
        BY <1>2 DEF FullItems, Full, Unused
      <3>2. ~(i >= d.firstEmpty)
        BY <1>1, <3>1
      <3> QED
        BY <1>1, <1>2, <3>1, <3>2
    <2>2. \A i \in 1..(d.firstEmpty - 1) : i \in 1..capacity(n)
      BY <1>1, <1>2
    <2> QED
      BY <1>2, <2>1, <2>2 DEF FullItems
  <1>4. LiveItems(d) = [j \in 1..Cardinality(S) |-> a.items[place(j)]]
    <2> DEFINE live == {i \in 1..(d.firstEmpty - 1) : Full(a.items[i])}
    <2>1. LiveItems(d) = LiveIn(a.items, live)
      <3>1. LiveItems(d) = LiveIn(Arrays(d).items,
                                  {i \in 1..(d.firstEmpty - 1) : Full(Arrays(d).items[i])})
        BY DEF LiveItems, LiveIn
      <3>2. Arrays(d) = a
        BY DEF Arrays
      <3> QED
        BY <3>1, <3>2
    <2>2. LiveItems(d) = LiveIn(a.items, S)
      <3> HIDE DEF S, live
      <3> QED
        BY <1>3, <2>1 DEF live
    <2> QED
      BY <2>2 DEF LiveIn
  <1>5. Ordered(S) = [j \in 1..Cardinality(S) |-> place(j)]
    BY DEF Ordered
  <1> HIDE DEF place, S
  <1>6. LiveItems(d) = [j \in 1..num |-> a.items[Ordered(S)[j]]]
    BY <1>1, <1>4, <1>5
  <1>7. \A j \in 1..num : Ordered(S)[j] \in S
    <2>1. Ordered(S) \in [1..num -> S]
      BY <1>1, <1>2, OrderedOf
    <2> QED
      BY <2>1
  <1>8. \A i \in S : Full(a.items[i]) /\ a.items[i] \in [key : Key, value : Value]
    <2>1. ASSUME NEW i \in S PROVE Full(a.items[i]) /\ a.items[i] \in Item
      BY <1>2 DEF FullItems, S
    <2> QED
      BY <2>1, FullItem
  <1>9. LiveItems(d) \in [1..num -> [key : Key, value : Value]]
    BY <1>6, <1>7, <1>8
  <1>10. LiveItems(d) \in Seq([key : Key, value : Value]) /\ Len(LiveItems(d)) = num
    <2> DEFINE T == [key : Key, value : Value]
               q == LiveItems(d)
    <2>1. q \in [1..num -> T]
      BY <1>9
    <2> HIDE DEF T, q
    <2>2. q \in Seq(T) /\ Len(q) = num
      BY <1>2, <2>1
    <2> QED
      BY <2>2 DEF T, q
  <1>11. ASSUME NEW i \in 1..num, NEW j \in 1..num,
                Class[LiveItems(d)[i].key] = Class[LiveItems(d)[j].key]
         PROVE  i = j
    <2>1. Ordered(S)[i] = Ordered(S)[j]
      BY <1>1, <1>6, <1>7, <1>11 DEF Distinct, S
    <2>2. Cardinality({h \in S : h <= Ordered(S)[i]}) = i /\ Cardinality({h \in S : h <= Ordered(S)[j]}) = j
      BY <1>1, <1>2, OrderedOf
    <2> QED
      BY <2>1, <2>2
  <1> QED
    BY <1>1, <1>6, <1>7, <1>9, <1>10, <1>11 DEF S, LiveOf, Apart, Lists

\* The last arrays of d are a, with n indices.
Ends(d, a, n) ==
    /\ Intact(a, n, d.firstEmpty, d.numItems)
    /\ d.arrays # <<>> /\ Last(d.arrays) = a

\* A full dict doubles: the new arrays are intact and list the same items.
LEMMA GrownOf ==
    ASSUME NEW d, NEW a, NEW n, Has(d, a, n), NEW e, e = Grown(d, LiveItems(d))
    PROVE  \E b : /\ Ends(e, b, n + n) /\ e.firstEmpty <= capacity(n + n)
                  /\ LiveOf(b) = LiveOf(a)
  <1> DEFINE live == LiveItems(d)
             m == d.numItems
             N == n + n
             zero == NewArrays(N)
             Is(f) == f = [i \in 0..Len(live) |-> IF i = 0 THEN zero.indices
                                                  ELSE InsertNoUpdate(f[i - 1], Hash[live[i].key], i)]
             indices == CHOOSE f : Is(f)
             items == [i \in DOMAIN zero.items |-> IF i \in DOMAIN live THEN live[i] ELSE Unused]
             b == [items |-> items, indices |-> indices[Len(live)]]
  <1>1. /\ Intact(a, n, d.firstEmpty, m) /\ Size(n) /\ Fields(a, n) /\ d.arrays = <<a>>
        /\ Last(d.arrays) = a /\ Arrays(d) = a
    BY DEF Has, Intact, Fields, Last, Arrays
  <1>2. Size(N) /\ N \in Nat /\ capacity(N) \in Nat /\ capacity(n) < capacity(N) /\ capacity(n) \in Nat
    BY <1>1, SizeTwice, Capacities
  <1>3. m \in Nat /\ m <= capacity(n) /\ m = Cardinality(FullItems(a)) /\ n \in Nat /\ numIndices(a) = n
    <2>1. FullItems(a) \subseteq 1..capacity(n) /\ n \in Nat /\ numIndices(a) = n
      BY <1>1, FieldsOf
    <2>2. m = Cardinality(FullItems(a))
      BY <1>1 DEF Intact
    <2>3. IsFiniteSet(1..capacity(n)) /\ Cardinality(1..capacity(n)) = capacity(n)
      BY <1>2, Numbers
    <2>4. Cardinality(FullItems(a)) \in Nat /\ Cardinality(FullItems(a)) <= capacity(n)
      BY <2>1, <2>3, FS_Subset, FS_CardinalityType
    <2> QED
      BY <2>1, <2>2, <2>4
  <1>4. /\ Len(live) = m /\ live \in [1..m -> [key : Key, value : Value]] /\ Apart(live, m)
        /\ live = LiveOf(a) /\ DOMAIN live = 1..m
    <2>1. /\ Len(live) = m /\ live \in [1..m -> [key : Key, value : Value]] /\ Apart(live, m)
          /\ live = LiveOf(a)
      <3>1. Lists(LiveItems(d), a, d.numItems)
        BY <1>1, LiveItemsOf
      <3> QED
        BY <3>1 DEF Lists
    <2> HIDE DEF live
    <2> QED
      BY <2>1
  <1>5. e = [arrays |-> Append(d.arrays, b), numItems |-> m, firstEmpty |-> m + 1]
    <2>1. 2 * numIndices(Arrays(d)) = N
      BY <1>1, <1>3
    <2> HIDE DEF live
    <2> QED
      BY <2>1, Zenon DEF Grown, live
  <1> HIDE DEF live
  <1>6. Fills(indices, N, m, live) /\ Intact(Part(live, indices[m], N, m), N, m + 1, m)
    <2>1. m <= capacity(N)
      BY <1>2, <1>3
    <2>2. /\ \E f : Fills(f, N, m, live)
          /\ \A f : Fills(f, N, m, live) => Intact(Part(live, f[m], N, m), N, m + 1, m)
      <3> HIDE DEF m, N
      <3> QED
        BY <1>2, <1>3, <1>4, <2>1, FilledAll
    <2>3. \A f : Is(f) <=> Fills(f, N, m, live)
      BY <1>4 DEF Fills
    <2> HIDE DEF Is, N, m
    <2>4. Is(indices)
      BY <2>2, <2>3
    <2> HIDE DEF indices
    <2> QED
      BY <2>2, <2>3, <2>4
  <1> HIDE DEF indices
  <1>7. b = Part(live, indices[m], N, m)
    <2>1. zero.items = [i \in 1..capacity(N) |-> Unused]
      BY DEF NewArrays, capacity
    <2> HIDE DEF zero, N, m
    <2> QED
      BY <1>4, <2>1 DEF Part
  <1> HIDE DEF b, N, m
  <1>8. Intact(b, N, m + 1, m)
    BY <1>6, <1>7
  <1>9. /\ e.firstEmpty = m + 1 /\ e.numItems = m
        /\ e.arrays # <<>> /\ Last(e.arrays) = b
    <2> DEFINE s == <<a>>
               S == {a, b}
    <2>1. s \in Seq(S) /\ b \in S /\ Len(s) = 1
      OBVIOUS
    <2> HIDE DEF s, S
    <2>2. Append(s, b) # <<>> /\ Len(Append(s, b)) = 2 /\ Append(s, b)[2] = b
      <3>1. Append(s, b) \in Seq(S) /\ Append(s, b) # <<>> /\ Len(Append(s, b)) = Len(s) + 1
            /\ Append(s, b)[Len(s) + 1] = b
        BY <2>1, AppendProperties, Zenon
      <3> QED
        BY <2>1, <3>1
    <2>3. d.arrays = s
      BY <1>1 DEF s
    <2> QED
      BY <1>5, <2>2, <2>3 DEF Last
  <1>10. LiveOf(b) = live
    <2>1. FullItems(b) = 1..m
      <3>1. b.items = [i \in 1..capacity(N) |-> IF i \in 1..m THEN live[i] ELSE Unused]
        BY <1>7 DEF Part
      <3>2. ASSUME NEW i \in 1..m PROVE i \in 1..capacity(N) /\ Full(b.items[i])
        <4>1. i \in 1..capacity(N)
          BY <1>2, <1>3
        <4>2. live[i] \in [key : Key, value : Value]
          BY <1>4
        <4> QED
          BY <3>1, <4>1, <4>2, DictAssumption DEF Full
      <3>3. \A i \in 1..capacity(N) : Full(b.items[i]) => i \in 1..m
        BY <3>1 DEF Full, Unused
      <3>4. DOMAIN b.items = 1..capacity(N)
        BY <3>1
      <3> QED
        BY <3>2, <3>3, <3>4 DEF FullItems
    <2>2. Ordered(FullItems(b)) = [j \in 1..m |-> j] /\ Cardinality(FullItems(b)) = m
      BY <1>3, <2>1, OrderedNumbers, Numbers
    <2>3. \A j \in 1..m : b.items[j] = live[j]
      <3>1. b.items = [i \in 1..capacity(N) |-> IF i \in 1..m THEN live[i] ELSE Unused]
        BY <1>7 DEF Part
      <3>2. \A j \in 1..m : j \in 1..capacity(N)
        BY <1>2, <1>3
      <3> QED
        BY <3>1, <3>2
    <2> QED
      BY <1>4, <2>2, <2>3 DEF LiveOf
  <1>11. Ends(e, b, N) /\ e.firstEmpty <= capacity(N)
    BY <1>2, <1>3, <1>8, <1>9 DEF Ends
  <1> QED
    BY <1>4, <1>10, <1>11 DEF N

\* A place is left for the next item, and the items are as they were.
LEMMA EnsureCapacityOf ==
    ASSUME NEW d, NEW a, NEW n, Has(d, a, n), NEW e, e = EnsureCapacity(d)
    PROVE  \E b, k : /\ Ends(e, b, k) /\ e.firstEmpty <= capacity(k)
                     /\ LiveOf(b) = LiveOf(a)
  <1>1. Last(d.arrays) = a /\ d.arrays # <<>> /\ Arrays(d) = a
    BY DEF Has, Last, Arrays
  <1>2. Len(a.items) = capacity(n)
    <2>1. Fields(a, n)
      BY DEF Has, Intact
    <2> QED
      BY <2>1, FieldsOf
  <1>3. CASE d.firstEmpty <= Len(a.items)
    <2>1. e = d
      BY <1>1, <1>3 DEF EnsureCapacity
    <2> QED
      BY <1>1, <1>2, <1>3, <2>1 DEF Ends, Has
  <1>4. CASE ~(d.firstEmpty <= Len(a.items))
    <2>1. e = Grown(d, LiveItems(d))
      BY <1>1, <1>4 DEF EnsureCapacity
    <2> QED
      BY <2>1, GrownOf
  <1> QED
    BY <1>3, <1>4

-----------------------------------------------------------------------------
(***************************************************************************)
(* What an operation does to the dict.                                     *)
(***************************************************************************)

\* The dict e has a place for the next item, and lists the items of b.
LeavesItemsOf(e, b) ==
    \E a, n : Ends(e, a, n) /\ e.firstEmpty <= capacity(n) /\ LiveOf(a) = LiveOf(b)

\* The dict with one pair of arrays.
Having(items, indices, num, first) ==
    [arrays |-> <<[items |-> items, indices |-> indices]>>, numItems |-> num, firstEmpty |-> first]

\* An item and an index are stored, and the counts are set.
Stored(d, i, x, j, y, num, first) ==
    [d EXCEPT !.arrays[1].items[i] = x, !.arrays[1].indices[j] = y,
              !.numItems = num, !.firstEmpty = first]

\* What the assignments leave in the record of the dict.
LEMMA StoredIs ==
    ASSUME NEW its, NEW ind, NEW num, NEW first, NEW d, d = Having(its, ind, num, first),
           NEW i, NEW x, NEW j, NEW y, NEW more, NEW next,
           NEW items, IsSet(items, its, i, x), NEW indices, IsSet(indices, ind, j, y)
    PROVE  Stored(d, i, x, j, y, more, next) = Having(items, indices, more, next)
  <1> DEFINE e == [d EXCEPT !.arrays[1].items[i] = x]
             f == [e EXCEPT !.arrays[1].indices[j] = y]
             g == [f EXCEPT !.numItems = more]
             pair == <<[items |-> items, indices |-> indices]>>
  <1>1. e = Having(items, ind, num, first)
    BY DEF Having, IsSet
  <1>2. Stored(d, i, x, j, y, more, next) = [f EXCEPT !.numItems = more, !.firstEmpty = next]
    BY DEF Stored
  <1> HIDE DEF e
  <1>3. f = Having(items, indices, num, first)
    BY <1>1 DEF Having, IsSet
  <1>4. f = [arrays |-> pair, numItems |-> num, firstEmpty |-> first]
    <2> HIDE DEF f
    <2> QED
      BY <1>3 DEF Having
  <1> HIDE DEF f, pair
  <1>5. g = [arrays |-> pair, numItems |-> more, firstEmpty |-> first]
    BY <1>4
  <1>6. [f EXCEPT !.numItems = more, !.firstEmpty = next] = [g EXCEPT !.firstEmpty = next]
    OBVIOUS
  <1> HIDE DEF g
  <1>7. [g EXCEPT !.firstEmpty = next] = [arrays |-> pair, numItems |-> more, firstEmpty |-> next]
    BY <1>5
  <1> QED
    BY <1>2, <1>6, <1>7 DEF Having, pair

\* dictAtPut of a new key.
LEMMA PutNewOf ==
    ASSUME NEW d, NEW a, NEW n, Has(d, a, n), d.firstEmpty <= capacity(n),
           NEW l \in Call, l.op = "put", l.value \in Value,
           NEW free \in 0..(n - 1), NewPlace(a, n, l.key, free),
           NEW e, e = NotFound(d, [l EXCEPT !.free = free])
    PROVE  LeavesItemsOf(e, Inserted(a, d.firstEmpty, l.key, l.value, free))
  <1> DEFINE b == Inserted(a, d.firstEmpty, l.key, l.value, free)
             l2 == [l EXCEPT !.free = free]
             c == [arrays |-> <<b>>, numItems |-> d.numItems + 1, firstEmpty |-> d.firstEmpty + 1]
             c2 == [d EXCEPT
                      !.arrays[l2.arrays].items[d.firstEmpty] = [key |-> l2.key, value |-> l2.value],
                      !.arrays[l2.arrays].indices[l2.free] = d.firstEmpty,
                      !.numItems = @ + 1,
                      !.firstEmpty = @ + 1]
  <1>1. /\ l2.op = "put" /\ l2.arrays = 1 /\ l2.free = free /\ l2.key = l.key /\ l2.value = l.value
        /\ l.key \in Key
    BY DEF Call
  <1>2. e = EnsureCapacity(c2)
    <2> HIDE DEF l2
    <2> QED
      BY <1>1, Zenon DEF NotFound, l2
  <1>3. /\ d = [arrays |-> <<a>>, numItems |-> d.numItems, firstEmpty |-> d.firstEmpty]
        /\ Intact(a, n, d.firstEmpty, d.numItems) /\ Fields(a, n)
    BY DEF Has, Intact
  <1>4. a = [items |-> a.items, indices |-> a.indices]
    BY <1>3, FieldsOf
  <1> HIDE DEF l2
  <1>5. c2 = c
    <2>1. d = Having(a.items, a.indices, d.numItems, d.firstEmpty)
      BY <1>3, <1>4, Zenon DEF Having
    <2> DEFINE x == [key |-> l.key, value |-> l.value]
               j == d.firstEmpty
               num == d.numItems
               more == num + 1
               next == j + 1
               items == [a.items EXCEPT ![j] = x]
               indices == [a.indices EXCEPT ![free] = j]
    <2>2. c2 = Stored(d, j, x, free, j, more, next)
      BY <1>1, Zenon DEF Stored
    <2>3. c = Having(items, indices, more, next)
      BY DEF Having, Inserted
    <2>4. d = Having(a.items, a.indices, num, j) /\ IsSet(items, a.items, j, x)
          /\ IsSet(indices, a.indices, free, j)
      BY <2>1 DEF IsSet
    <2> HIDE DEF x, j, num, more, next, items, indices, c, c2, b
    <2> QED
      BY <2>2, <2>3, <2>4, StoredIs
  <1> HIDE DEF c2
  <1>6. Intact(b, n, d.firstEmpty + 1, d.numItems + 1)
    BY <1>1, <1>3, InsertedOf
  <1> HIDE DEF b
  <1>7. Has(c, b, n)
    BY <1>6 DEF Has
  <1> HIDE DEF c
  <1> QED
    BY <1>2, <1>5, <1>7, EnsureCapacityOf DEF LeavesItemsOf, b

\* dictAtPut of a key that is there.
LEMMA PutOldOf ==
    ASSUME NEW d, NEW a, NEW n, Has(d, a, n), d.firstEmpty <= capacity(n),
           NEW l \in Call, l.op = "put", l.value \in Value,
           NEW at \in 0..(n - 1), PlaceOf(a, n, l.key, at), NEW e, e = Found(d, l, at)
    PROVE  LeavesItemsOf(e, Valued(a, a.indices[at], l.value))
  <1> DEFINE i == a.indices[at]
             b == Valued(a, i, l.value)
             c == [arrays |-> <<b>>, numItems |-> d.numItems, firstEmpty |-> d.firstEmpty]
  <1>1. /\ d = [arrays |-> <<a>>, numItems |-> d.numItems, firstEmpty |-> d.firstEmpty]
        /\ Intact(a, n, d.firstEmpty, d.numItems) /\ l.arrays = 1
    BY DEF Has, Call
  <1>2. ItemAt(d, l, at) = i
    BY <1>1 DEF ItemAt
  <1>3. e = [d EXCEPT !.arrays[l.arrays].items[i].value = l.value]
    <2> HIDE DEF i
    <2> QED
      BY <1>2 DEF Found
  <1>4. e = c
    <2> HIDE DEF i
    <2> QED
      BY <1>1, <1>3 DEF Valued
  <1>5. i \in FullItems(a)
    BY <1>1 DEF PlaceOf, Intact, Linked
  <1>6. Intact(b, n, d.firstEmpty, d.numItems)
    <2> HIDE DEF i
    <2> QED
      BY <1>1, <1>5, ValueOf
  <1> HIDE DEF b
  <1>7. Ends(e, b, n) /\ e.firstEmpty = d.firstEmpty
    BY <1>4, <1>6 DEF Ends, Last
  <1> QED
    BY <1>7 DEF LeavesItemsOf, b

\* dictRemove of a key that is there.
LEMMA RemoveOf ==
    ASSUME NEW d, NEW a, NEW n, Has(d, a, n), d.firstEmpty <= capacity(n),
           NEW l \in Call, l.op = "remove",
           NEW at \in 0..(n - 1), PlaceOf(a, n, l.key, at), NEW e, e = Found(d, l, at)
    PROVE  LeavesItemsOf(e, RemovedAt(a, a.indices[at], at))
  <1> DEFINE i == a.indices[at]
             b == RemovedAt(a, i, at)
             c == [arrays |-> <<b>>, numItems |-> d.numItems - 1, firstEmpty |-> d.firstEmpty]
  <1>1. /\ d = [arrays |-> <<a>>, numItems |-> d.numItems, firstEmpty |-> d.firstEmpty]
        /\ Intact(a, n, d.firstEmpty, d.numItems) /\ l.arrays = 1 /\ Fields(a, n)
    BY DEF Has, Call, Intact
  <1>2. ItemAt(d, l, at) = i /\ i > 0
    BY <1>1 DEF ItemAt, PlaceOf
  <1>3. a = [items |-> a.items, indices |-> a.indices]
    BY <1>1, FieldsOf
  <1> HIDE DEF i
  <1>4. e = [d EXCEPT !.arrays[l.arrays].items[i] = Removed,
                      !.arrays[l.arrays].indices[at] = Tombstone,
                      !.numItems = @ - 1]
    BY <1>2 DEF Found
  <1>5. e = c
    <2>1. d = Having(a.items, a.indices, d.numItems, d.firstEmpty)
      BY <1>1, <1>3, Zenon DEF Having
    <2> DEFINE num == d.numItems
               first == d.firstEmpty
               less == num - 1
               items == [a.items EXCEPT ![i] = Removed]
               indices == [a.indices EXCEPT ![at] = Tombstone]
    <2>2. e = Stored(d, i, Removed, at, Tombstone, less, first)
      <3>1. e = [d EXCEPT !.arrays[1].items[i] = Removed, !.arrays[1].indices[at] = Tombstone,
                          !.numItems = less]
        BY <1>1, <1>4, Zenon
      <3>2. e = [e EXCEPT !.firstEmpty = first]
        BY <1>1, <3>1
      <3> QED
        BY <3>1, <3>2 DEF Stored
    <2>3. c = Having(items, indices, less, first)
      BY DEF Having, RemovedAt
    <2>4. d = Having(a.items, a.indices, num, first) /\ IsSet(items, a.items, i, Removed)
          /\ IsSet(indices, a.indices, at, Tombstone)
      BY <2>1 DEF IsSet
    <2> HIDE DEF num, first, less, items, indices, c
    <2> QED
      BY <2>2, <2>3, <2>4, StoredIs
  <1>6. Intact(b, n, d.firstEmpty, d.numItems - 1)
    BY <1>1, <1>2, RemovedOf DEF i
  <1> HIDE DEF b
  <1>7. Ends(e, b, n) /\ e.firstEmpty = d.firstEmpty
    BY <1>5, <1>6 DEF Ends, Last
  <1> QED
    BY <1>7 DEF LeavesItemsOf, b, i

-----------------------------------------------------------------------------
(***************************************************************************)
(* The list of the items.                                                  *)
(***************************************************************************)

\* There is one order of the members.
LEMMA OrderedOnly ==
    ASSUME NEW S \in SUBSET Nat, IsFiniteSet(S), NEW m, m = Cardinality(S),
           NEW f \in [1..m -> S], \A i, j \in 1..m : i < j => f[i] < f[j]
    PROVE  f = Ordered(S)
  <1> DEFINE g == Ordered(S)
             Rank(x) == Cardinality({h \in S : h <= x})
  <1>1. m \in Nat /\ IsFiniteSet(1..m) /\ Cardinality(1..m) = m
    <2>1. m \in Nat
      BY FS_CardinalityType
    <2> QED
      BY <2>1, Numbers
  <1>2. /\ g \in [1..m -> S] /\ \A s \in S : \E j \in 1..m : g[j] = s
        /\ \A j \in 1..m : Rank(g[j]) = j
    BY OrderedOf
  <1>3. \A j \in 1..m : f[j] \in S /\ f[j] \in Nat
    OBVIOUS
  <1>4. \A i, j \in 1..m : f[i] = f[j] => i = j
    <2> SUFFICES ASSUME NEW i \in 1..m, NEW j \in 1..m, f[i] = f[j] PROVE i = j
      OBVIOUS
    <2>1. i < j \/ j < i \/ i = j
      OBVIOUS
    <2> QED
      BY <1>3, <2>1
  <1>5. \A s \in S : \E j \in 1..m : f[j] = s
    <2>1. f \in Injection(1..m, S)
      BY <1>4, Fun_IsInj
    <2>2. f \in Surjection(1..m, S)
      BY <1>1, <2>1, FS_Injection
    <2> QED
      BY <2>2 DEF Surjection
  <1>6. ASSUME NEW j \in 1..m PROVE Rank(f[j]) = j
    <2> DEFINE T == {h \in S : h <= f[j]}
               e == [i \in 1..j |-> f[i]]
    <2>1. j \in Nat /\ IsFiniteSet(1..j) /\ Cardinality(1..j) = j /\ \A i \in 1..j : i \in 1..m
      BY <1>1, Numbers
    <2>2. ASSUME NEW i \in 1..m PROVE i \in 1..j <=> f[i] <= f[j]
      <3>1. i < j => f[i] <= f[j]
        BY <1>3
      <3>2. j < i => ~(f[i] <= f[j])
        BY <1>3
      <3>3. i = j => f[i] <= f[j]
        BY <1>3
      <3> QED
        BY <1>1, <2>1, <3>1, <3>2, <3>3
    <2>3. \A i \in 1..j : e[i] \in T
      BY <1>3, <2>1, <2>2
    <2>4. e \in [1..j -> T]
      <3> HIDE DEF T
      <3> QED
        BY <2>3
    <2>5. \A h \in T : \E i \in 1..j : e[i] = h
      <3> SUFFICES ASSUME NEW h \in T PROVE \E i \in 1..j : e[i] = h
        OBVIOUS
      <3>1. PICK i \in 1..m : f[i] = h
        BY <1>5
      <3> QED
        BY <2>2, <3>1
    <2>6. \A i, k \in 1..j : e[i] = e[k] => i = k
      BY <1>4, <2>1
    <2> HIDE DEF T, e
    <2>7. e \in Bijection(1..j, T)
      <3>1. e \in Injection(1..j, T)
        BY <2>4, <2>6, Fun_IsInj
      <3>2. e \in Surjection(1..j, T)
        BY <2>4, <2>5, Fun_IsSurj
      <3> QED
        BY <3>1, <3>2 DEF Bijection
    <2>8. Cardinality(T) = j
      <3>1. ExistsBijection(1..j, T)
        BY <2>7 DEF ExistsBijection
      <3> QED
        BY <2>1, <3>1, FS_Bijection
    <2> QED
      BY <2>8 DEF T
  <1> HIDE DEF g, Rank
  <1>7. ASSUME NEW j \in 1..m PROVE f[j] = g[j]
    <2>1. PICK c \in 1..m : g[c] = f[j]
      BY <1>2, <1>3
    <2>2. Rank(g[c]) = c /\ Rank(f[j]) = j
      BY <1>2, <1>6
    <2> QED
      BY <2>1, <2>2
  <1>8. g \in [1..m -> S]
    BY <1>2
  <1>9. f = g
    <2>1. f = [j \in 1..m |-> f[j]] /\ g = [j \in 1..m |-> g[j]]
      BY <1>8
    <2> QED
      BY <1>7, <2>1, Zenon
  <1> QED
    BY <1>9 DEF g

Added(S, m, x) ==
    /\ Cardinality(S \cup {x}) = m + 1
    /\ Ordered(S \cup {x}) = [j \in 1..(m + 1) |-> IF j = m + 1 THEN x ELSE Ordered(S)[j]]

Taken(S, m, r, x) ==
    /\ Cardinality(S \ {x}) = m - 1
    /\ Ordered(S \ {x}) = [j \in 1..(m - 1) |-> Ordered(S)[IF j < r THEN j ELSE j + 1]]

\* A larger number comes last in the order.
LEMMA OrderedAdd ==
    ASSUME NEW S \in SUBSET Nat, IsFiniteSet(S), NEW m, m = Cardinality(S),
           NEW x \in Nat, \A s \in S : s < x
    PROVE  Added(S, m, x)
  <1> DEFINE T == S \cup {x}
             f == [j \in 1..(m + 1) |-> IF j = m + 1 THEN x ELSE Ordered(S)[j]]
  <1>1. m \in Nat /\ x \notin S
    BY FS_CardinalityType
  <1>2. T \in SUBSET Nat /\ IsFiniteSet(T) /\ Cardinality(T) = m + 1
    BY <1>1, FS_AddElement
  <1>3. /\ Ordered(S) \in [1..m -> S]
        /\ \A i, j \in 1..m : i < j => Ordered(S)[i] < Ordered(S)[j]
    BY OrderedOf
  <1>4. \A j \in 1..(m + 1) : j # m + 1 => j \in 1..m /\ f[j] = Ordered(S)[j] /\ Ordered(S)[j] \in S
    BY <1>1, <1>3
  <1>5. f[m + 1] = x
    BY <1>1
  <1>6. f \in [1..(m + 1) -> T]
    BY <1>4
  <1>7. ASSUME NEW i \in 1..(m + 1), NEW j \in 1..(m + 1), i < j PROVE f[i] < f[j]
    <2>1. i # m + 1
      BY <1>1, <1>7
    <2> HIDE DEF f
    <2> QED
      BY <1>3, <1>4, <1>5, <1>7, <2>1
  <1> HIDE DEF f, T
  <1>8. f = Ordered(T)
    BY <1>2, <1>6, <1>7, OrderedOnly
  <1> QED
    BY <1>2, <1>8 DEF f, T, Added

\* The others stay in their order.
LEMMA OrderedLess ==
    ASSUME NEW S \in SUBSET Nat, IsFiniteSet(S), NEW m, m = Cardinality(S),
           NEW r \in 1..m, NEW x, x = Ordered(S)[r]
    PROVE  Taken(S, m, r, x)
  <1> DEFINE T == S \ {x}
             f == [j \in 1..(m - 1) |-> Ordered(S)[IF j < r THEN j ELSE j + 1]]
             at(j) == IF j < r THEN j ELSE j + 1
  <1>1. m \in Nat /\ r \in Nat
    BY FS_CardinalityType
  <1>2. /\ Ordered(S) \in [1..m -> S]
        /\ \A i, j \in 1..m : i < j => Ordered(S)[i] < Ordered(S)[j]
    BY OrderedOf
  <1>3. x \in S
    BY <1>2
  <1>4. T \in SUBSET Nat /\ IsFiniteSet(T) /\ Cardinality(T) = m - 1
    BY <1>3, FS_RemoveElement
  <1>5. ASSUME NEW j \in 1..(m - 1) PROVE at(j) \in 1..m /\ at(j) # r /\ f[j] = Ordered(S)[at(j)]
    BY <1>1
  <1>6. ASSUME NEW i \in 1..(m - 1), NEW j \in 1..(m - 1), i < j PROVE at(i) < at(j)
    BY <1>1, <1>6
  <1> HIDE DEF at, f
  <1>7. ASSUME NEW i \in 1..(m - 1), NEW j \in 1..(m - 1), i < j PROVE f[i] < f[j]
    BY <1>2, <1>5, <1>6, <1>7
  <1>8. ASSUME NEW j \in 1..(m - 1) PROVE f[j] \in T
    <2> DEFINE c == at(j)
    <2>1. c \in 1..m /\ c # r /\ f[j] = Ordered(S)[c]
      BY <1>5
    <2> HIDE DEF c
    <2>2. c < r \/ r < c
      BY <1>1, <2>1
    <2>3. Ordered(S)[c] # x
      <3>1. Ordered(S)[c] \in Nat /\ x \in Nat
        BY <1>2, <1>3, <2>1
      <3> QED
        BY <1>2, <2>1, <2>2, <3>1
    <2> QED
      BY <1>2, <2>1, <2>3
  <1>9. f \in [1..(m - 1) -> T]
    <2>1. f = [j \in 1..(m - 1) |-> f[j]]
      BY DEF f
    <2> HIDE DEF T
    <2> QED
      BY <1>8, <2>1
  <1> HIDE DEF T
  <1>10. f = Ordered(T)
    BY <1>4, <1>7, <1>9, OrderedOnly
  <1> QED
    BY <1>4, <1>10 DEF f, T, Taken

\* Where the list s has a key equal to k.
Find(s, k) == SelectInSeq(s, LAMBDA x : Class[x.key] = Class[k])

\* What a step may do to the list.
Puts(s, t, k, v) ==
    t = IF Find(s, k) = 0 THEN Append(s, [key |-> k, value |-> v])
        ELSE [s EXCEPT ![Find(s, k)].value = v]
Deletes(s, t, k) == Find(s, k) # 0 /\ t = RemoveAt(s, Find(s, k))
Pops(s, t) == s # <<>> /\ t = Front(s)

\* LiveOf is what LiveItems lists.
LEMMA LiveOfIs ==
    ASSUME NEW a, NEW n, NEW first, NEW num, Intact(a, n, first, num)
    PROVE  Lists(LiveOf(a), a, num)
  <1> DEFINE d == [arrays |-> <<a>>, numItems |-> num, firstEmpty |-> first]
  <1>1. d.firstEmpty = first /\ Last(d.arrays) = a
    BY DEF Last
  <1> HIDE DEF d
  <1>2. Lists(LiveItems(d), a, num)
    BY <1>1, LiveItemsOf
  <1>3. LiveItems(d) = LiveOf(a)
    BY <1>2 DEF Lists
  <1> QED
    BY <1>2, <1>3

\* s is the list of the num items of a, at S in the order g.
ListIs(a, num, S, g, s) ==
    /\ num \in Nat /\ s \in Seq([key : Key, value : Value]) /\ Len(s) = num
    /\ s \in [1..num -> [key : Key, value : Value]]
    /\ S \in SUBSET Nat /\ IsFiniteSet(S) /\ num = Cardinality(S)
    /\ g \in [1..num -> S] /\ s = [j \in 1..num |-> a.items[g[j]]]
    /\ \A i \in S : \E j \in 1..num : g[j] = i
    /\ \A i, j \in 1..num : i < j => g[i] < g[j]
    /\ \A i, j \in 1..num : Class[s[i].key] = Class[s[j].key] => i = j

\* The list of intact arrays.
LEMMA ListOf ==
    ASSUME NEW a, NEW n, NEW first, NEW num, Intact(a, n, first, num)
    PROVE  ListIs(a, num, FullItems(a), Ordered(FullItems(a)), LiveOf(a))
  <1>1. Lists(LiveOf(a), a, num)
    BY LiveOfIs
  <1>2. num = Cardinality(FullItems(a)) /\ Fields(a, n)
    BY DEF Intact
  <1>3. IsFiniteSet(FullItems(a)) /\ FullItems(a) \in SUBSET Nat /\ num \in Nat
    BY <1>2, FieldsOf
  <1>4. /\ Ordered(FullItems(a)) \in [1..num -> FullItems(a)]
        /\ \A i \in FullItems(a) : \E j \in 1..num : Ordered(FullItems(a))[j] = i
        /\ \A i, j \in 1..num : i < j => Ordered(FullItems(a))[i] < Ordered(FullItems(a))[j]
    BY <1>2, <1>3, OrderedOf
  <1>5. LiveOf(a) = [j \in 1..num |-> a.items[Ordered(FullItems(a))[j]]]
    BY <1>2 DEF LiveOf
  <1>6. /\ LiveOf(a) \in Seq([key : Key, value : Value]) /\ Len(LiveOf(a)) = num
        /\ LiveOf(a) \in [1..num -> [key : Key, value : Value]]
    BY <1>1 DEF Lists
  <1>7. \A i, j \in 1..num : Class[LiveOf(a)[i].key] = Class[LiveOf(a)[j].key] => i = j
    BY <1>1 DEF Lists, Apart
  <1> QED
    BY <1>2, <1>3, <1>4, <1>5, <1>6, <1>7 DEF ListIs

\* The list has no key equal to one that is absent.
LEMMA FindNone ==
    ASSUME NEW a, NEW n, NEW first, NEW num, Intact(a, n, first, num), NEW k, Absent(a, k)
    PROVE  Find(LiveOf(a), k) = 0
  <1> DEFINE s == LiveOf(a)
  <1>1. /\ Len(s) = num /\ Ordered(FullItems(a)) \in [1..num -> FullItems(a)]
        /\ s = [j \in 1..num |-> a.items[Ordered(FullItems(a))[j]]]
    BY ListOf DEF ListIs
  <1>2. \A j \in 1..num : Class[s[j].key] # Class[k]
    <2> HIDE DEF s
    <2> QED
      BY <1>1 DEF Absent
  <1> HIDE DEF s
  <1>3. {i \in 1..Len(s) : Class[s[i].key] = Class[k]} = {}
    BY <1>1, <1>2
  <1> QED
    BY <1>3 DEF Find, SelectInSeq, s

\* The list has one key equal to that of an item, at its rank.
LEMMA FindOne ==
    ASSUME NEW a, NEW n, NEW first, NEW num, Intact(a, n, first, num),
           NEW i \in FullItems(a), NEW k, Class[a.items[i].key] = Class[k]
    PROVE  /\ Find(LiveOf(a), k) \in 1..num /\ Find(LiveOf(a), k) # 0
           /\ Ordered(FullItems(a))[Find(LiveOf(a), k)] = i
  <1> DEFINE s == LiveOf(a)
             g == Ordered(FullItems(a))
  <1>1. /\ Len(s) = num /\ num \in Nat
        /\ s = [j \in 1..num |-> a.items[g[j]]]
        /\ \A h \in FullItems(a) : \E j \in 1..num : g[j] = h
        /\ \A h, j \in 1..num : Class[s[h].key] = Class[s[j].key] => h = j
    BY ListOf DEF ListIs
  <1>2. PICK r \in 1..num : g[r] = i
    BY <1>1
  <1> HIDE DEF s, g
  <1>3. s[r] = a.items[i]
    BY <1>1, <1>2
  <1>4. {j \in 1..Len(s) : Class[s[j].key] = Class[k]} = {r}
    BY <1>1, <1>3
  <1>5. Min({r}) = r
    BY <1>1 DEF Min
  <1>6. Find(s, k) = r
    BY <1>4, <1>5 DEF Find, SelectInSeq
  <1> QED
    BY <1>1, <1>2, <1>6 DEF s, g

\* dictAtPut of a new key appends an item to the list.
LEMMA InsertedList ==
    ASSUME NEW a, NEW n, NEW first, NEW num, Intact(a, n, first, num), first <= capacity(n),
           NEW k \in Key, NEW v \in Value, NEW free \in 0..(n - 1), NewPlace(a, n, k, free),
           NEW b, b = Inserted(a, first, k, v, free)
    PROVE  Puts(LiveOf(a), LiveOf(b), k, v)
  <1> DEFINE S == FullItems(a)
             s == LiveOf(a)
             item == [key |-> k, value |-> v]
             T == [key : Key, value : Value]
  <1>1. Intact(b, n, first + 1, num + 1) /\ FullItems(b) = S \cup {first}
    BY InsertedOf
  <1>2. /\ num \in Nat /\ S \in SUBSET Nat /\ IsFiniteSet(S) /\ num = Cardinality(S)
        /\ Ordered(S) \in [1..num -> S] /\ s = [j \in 1..num |-> a.items[Ordered(S)[j]]]
        /\ s \in Seq(T) /\ Len(s) = num /\ s \in [1..num -> T]
    <2>1. ListIs(a, num, S, Ordered(S), s)
      BY ListOf
    <2> HIDE DEF S, s
    <2> QED
      BY <2>1 DEF ListIs
  <1>3. first \in Nat /\ \A i \in S : i < first
    <2>1. /\ first \in Nat /\ capacity(n) \in Nat /\ DOMAIN a.items = 1..capacity(n)
          /\ \A i \in 1..capacity(n) : i >= first => a.items[i] = Unused
      <3>1. Fields(a, n) /\ first \in 1..(capacity(n) + 1)
        BY DEF Intact
      <3>2. DOMAIN a.items = 1..capacity(n) /\ capacity(n) \in Nat
        BY <3>1, FieldsOf
      <3> QED
        BY <3>1, <3>2 DEF Intact
    <2>2. ASSUME NEW i \in S PROVE i < first
      <3>1. i \in 1..capacity(n) /\ a.items[i] # Unused
        BY <2>1 DEF FullItems, Full, Unused
      <3> QED
        BY <2>1, <3>1
    <2> QED
      BY <2>1, <2>2
  <1>4. /\ Cardinality(FullItems(b)) = num + 1
        /\ Ordered(FullItems(b)) = [j \in 1..(num + 1) |-> IF j = num + 1 THEN first ELSE Ordered(S)[j]]
    <2> HIDE DEF S
    <2>1. Added(S, num, first)
      BY <1>2, <1>3, OrderedAdd
    <2> QED
      BY <1>1, <2>1 DEF Added
  <1>5. b.items[first] = item /\ \A i \in S : b.items[i] = a.items[i]
    <2>1. b.items = [a.items EXCEPT ![first] = item]
      BY DEF Inserted
    <2>2. first \in DOMAIN a.items
      <3>1. DOMAIN a.items = 1..capacity(n) /\ first \in 1..(capacity(n) + 1) /\ capacity(n) \in Nat
        <4>1. Fields(a, n)
          BY DEF Intact
        <4> QED
          BY <4>1, FieldsOf DEF Intact
      <3> QED
        BY <3>1
    <2>3. \A i \in S : i \in DOMAIN a.items /\ i # first
      BY <1>3, <1>2 DEF FullItems
    <2> HIDE DEF item, S
    <2> QED
      BY <2>1, <2>2, <2>3
  <1> HIDE DEF S, s, item
  <1>6. LiveOf(b) = [j \in 1..(num + 1) |-> IF j = num + 1 THEN item ELSE s[j]]
    <2>1. LiveOf(b) = [j \in 1..(num + 1) |-> b.items[Ordered(FullItems(b))[j]]]
      BY <1>4 DEF LiveOf
    <2>2. ASSUME NEW j \in 1..(num + 1)
          PROVE  b.items[Ordered(FullItems(b))[j]] = IF j = num + 1 THEN item ELSE s[j]
      <3>1. CASE j = num + 1
        BY <1>4, <1>5, <3>1
      <3>2. CASE j # num + 1
        <4>1. j \in 1..num
          BY <1>2, <3>2
        <4> QED
          BY <1>2, <1>4, <1>5, <3>2, <4>1
      <3> QED
        BY <3>1, <3>2
    <2> QED
      BY <2>1, <2>2, Zenon
  <1>7. item \in T
    BY DEF item
  <1>8. LiveOf(b) = Append(s, item)
    <2> HIDE DEF T
    <2>1. /\ Append(s, item) \in Seq(T) /\ Len(Append(s, item)) = num + 1
          /\ Append(s, item)[num + 1] = item
          /\ \A j \in 1..num : Append(s, item)[j] = s[j]
      BY <1>2, <1>7, AppendProperties
    <2> DEFINE q == Append(s, item)
    <2> HIDE DEF q
    <2>2. q = [j \in 1..(num + 1) |-> q[j]]
      BY <1>2, <2>1 DEF q
    <2>3. ASSUME NEW j \in 1..(num + 1) PROVE q[j] = IF j = num + 1 THEN item ELSE s[j]
      BY <1>2, <2>1 DEF q
    <2> QED
      BY <1>6, <2>2, <2>3, Zenon DEF q
  <1>9. Find(s, k) = 0
    <2>1. Absent(a, k)
      BY DEF NewPlace, Absent
    <2> QED
      BY <2>1, FindNone DEF s
  <1> QED
    BY <1>8, <1>9 DEF Puts, s, item

\* dictAtPut of a key that is there changes the value in the list, in place.
LEMMA ValueList ==
    ASSUME NEW a, NEW n, NEW first, NEW num, Intact(a, n, first, num),
           NEW i \in FullItems(a), NEW k, Class[a.items[i].key] = Class[k], NEW v \in Value,
           NEW b, b = Valued(a, i, v)
    PROVE  Puts(LiveOf(a), LiveOf(b), k, v)
  <1> DEFINE S == FullItems(a)
             s == LiveOf(a)
             r == Find(s, k)
             g == Ordered(S)
             T == [key : Key, value : Value]
  <1>1. /\ FullItems(b) = S /\ b.items = [a.items EXCEPT ![i] = [key |-> a.items[i].key, value |-> v]]
    BY ValueOf DEF IsSet
  <1>2. /\ num \in Nat /\ S \in SUBSET Nat /\ IsFiniteSet(S) /\ num = Cardinality(S)
        /\ g \in [1..num -> S] /\ s = [j \in 1..num |-> a.items[g[j]]]
        /\ s \in Seq(T) /\ Len(s) = num /\ s \in [1..num -> T]
        /\ \A h, j \in 1..num : h < j => g[h] < g[j]
    <2>1. ListIs(a, num, S, g, s)
      BY ListOf
    <2> HIDE DEF S, g, s
    <2> QED
      BY <2>1 DEF ListIs
  <1>3. r \in 1..num /\ r # 0 /\ g[r] = i
    BY FindOne
  <1>4. \A j \in 1..num : g[j] \in S /\ g[j] \in Nat /\ (g[j] = i => j = r)
    <2> SUFFICES ASSUME NEW j \in 1..num PROVE g[j] \in S /\ g[j] \in Nat /\ (g[j] = i => j = r)
      OBVIOUS
    <2> HIDE DEF g, r, S
    <2>1. g[j] \in S /\ g[j] \in Nat /\ g[r] \in Nat
      BY <1>2, <1>3
    <2>2. j < r \/ r < j \/ j = r
      BY <1>3
    <2> QED
      BY <1>2, <1>3, <2>1, <2>2
  <1>5. S \subseteq DOMAIN a.items
    BY DEF FullItems
  <1> HIDE DEF S, s, r, g, T
  <1>6. LiveOf(b) = [j \in 1..num |-> b.items[g[j]]]
    BY <1>1, <1>2 DEF LiveOf, g
  <1>7. s[r] = a.items[i]
    BY <1>2, <1>3
  <1>8. [s[r] EXCEPT !.value = v] = [key |-> a.items[i].key, value |-> v]
    <2>1. s[r] \in T
      BY <1>2, <1>3
    <2>2. s[r] = [key |-> s[r].key, value |-> s[r].value]
      BY <2>1 DEF T
    <2> QED
      BY <1>7, <2>2
  <1>9. LiveOf(b) = [s EXCEPT ![r].value = v]
    <2> DEFINE x == [s[r] EXCEPT !.value = v]
    <2>1. [s EXCEPT ![r].value = v] = [s EXCEPT ![r] = x]
      OBVIOUS
    <2>2. x = [key |-> a.items[i].key, value |-> v]
      BY <1>8
    <2> HIDE DEF x
    <2>3. ASSUME NEW j \in 1..num PROVE b.items[g[j]] = IF j = r THEN x ELSE s[j]
      BY <1>1, <1>2, <1>3, <1>4, <1>5, <2>2
    <2>4. [s EXCEPT ![r] = x] = [j \in 1..num |-> IF j = r THEN x ELSE s[j]]
      BY <1>2
    <2> QED
      BY <1>6, <2>1, <2>3, <2>4, Zenon
  <1> QED
    BY <1>3, <1>9 DEF Puts, s, r

\* s without its element r.
Without(s, num, r) == [j \in 1..(num - 1) |-> s[IF j < r THEN j ELSE j + 1]]

\* RemoveAt and Front of SequencesExt on a sequence of known length.
LEMMA WithoutOf ==
    ASSUME NEW T, NEW s \in Seq(T), NEW num \in Nat, Len(s) = num, NEW r \in 1..num
    PROVE  RemoveAt(s, r) = Without(s, num, r) /\ (r = num => Front(s) = Without(s, num, r))
  <1>1. r \in Nat /\ 1 <= r /\ r <= num
    OBVIOUS
  <1>2. RemoveAt(s, r) = Without(s, num, r)
    <2> DEFINE x == SubSeq(s, 1, r - 1)
               y == SubSeq(s, r + 1, num)
    <2>1. /\ x \in Seq(T) /\ Len(x) = r - 1 /\ \A j \in 1..(r - 1) : x[j] = s[j]
          /\ y \in Seq(T) /\ Len(y) = num - r /\ \A j \in 1..(num - r) : y[j] = s[r + j]
      BY <1>1
    <2> HIDE DEF x, y
    <2> DEFINE z == x \o y
    <2>3. /\ z \in Seq(T) /\ Len(z) = num - 1
          /\ \A j \in 1..(num - 1) : z[j] = IF j <= r - 1 THEN x[j] ELSE y[j - (r - 1)]
      <3>1. /\ z \in Seq(T) /\ Len(z) = Len(x) + Len(y)
            /\ \A j \in 1..(Len(x) + Len(y)) : z[j] = IF j <= Len(x) THEN x[j] ELSE y[j - Len(x)]
        BY <2>1, ConcatProperties, Zenon
      <3>2. Len(x) + Len(y) = num - 1
        BY <1>1, <2>1
      <3> HIDE DEF z
      <3> QED
        BY <2>1, <3>1, <3>2
    <2> HIDE DEF z
    <2>4. ASSUME NEW j \in 1..(num - 1) PROVE z[j] = s[IF j < r THEN j ELSE j + 1]
      <3>1. CASE j < r
        <4>1. j \in 1..(r - 1) /\ j <= r - 1
          BY <1>1, <3>1
        <4> QED
          BY <2>1, <2>3, <3>1, <4>1
      <3>2. CASE ~(j < r)
        <4>1. ~(j <= r - 1) /\ j - (r - 1) \in 1..(num - r) /\ r + (j - (r - 1)) = j + 1
          BY <1>1, <3>2
        <4>2. z[j] = y[j - (r - 1)] /\ y[j - (r - 1)] = s[r + (j - (r - 1))]
          BY <2>1, <2>3, <4>1
        <4> QED
          BY <3>2, <4>1, <4>2
      <3> QED
        BY <3>1, <3>2
    <2>5. z = [j \in 1..(num - 1) |-> z[j]]
      BY <2>3
    <2>2. z = Without(s, num, r)
      BY <2>4, <2>5, Zenon DEF Without
    <2> QED
      BY <2>2 DEF RemoveAt, x, y, z
  <1>3. ASSUME r = num PROVE Front(s) = Without(s, num, r)
    BY <1>1, <1>3 DEF Front, Without
  <1> QED
    BY <1>2, <1>3

\* The list after the removal of the item of rank r.
LEMMA RemovedIs ==
    ASSUME NEW a, NEW n, NEW first, NEW num, Intact(a, n, first, num),
           NEW at \in 0..(n - 1), NEW i, i = a.indices[at], i > 0,
           NEW r \in 1..num, Ordered(FullItems(a))[r] = i,
           NEW b, b = RemovedAt(a, i, at)
    PROVE  LiveOf(b) = Without(LiveOf(a), num, r)
  <1> DEFINE S == FullItems(a)
             s == LiveOf(a)
             g == Ordered(S)
             place(j) == IF j < r THEN j ELSE j + 1
  <1>1. FullItems(b) = S \ {i} /\ i \in S
    BY RemovedOf
  <1>2. /\ num \in Nat /\ S \in SUBSET Nat /\ IsFiniteSet(S) /\ num = Cardinality(S)
        /\ g \in [1..num -> S] /\ s = [j \in 1..num |-> a.items[g[j]]]
    <2>1. ListIs(a, num, S, g, s)
      BY ListOf
    <2> HIDE DEF S, g, s
    <2> QED
      BY <2>1 DEF ListIs
  <1>3. Taken(S, num, r, i)
    <2>1. i = Ordered(S)[r]
      OBVIOUS
    <2> HIDE DEF S
    <2>2. IsFiniteSet(S) /\ S \in SUBSET Nat /\ num = Cardinality(S)
      BY <1>2
    <2> QED
      BY <2>1, <2>2, OrderedLess
  <1>4. /\ Cardinality(FullItems(b)) = num - 1
        /\ Ordered(FullItems(b)) = [j \in 1..(num - 1) |-> g[place(j)]]
    BY <1>1, <1>3 DEF Taken
  <1>5. \A h \in S : h # i => b.items[h] = a.items[h]
    BY DEF RemovedAt, FullItems
  <1>6. \A j \in 1..(num - 1) : place(j) \in 1..num
    BY <1>2
  <1>7. ASSUME NEW j \in 1..(num - 1) PROVE g[place(j)] \in S /\ g[place(j)] # i
    <2>1. Ordered(FullItems(b))[j] \in FullItems(b)
      <3>1. IsFiniteSet(S \ {i}) /\ S \ {i} \in SUBSET Nat
        BY <1>2, FS_Subset
      <3> HIDE DEF S
      <3>2. IsFiniteSet(FullItems(b)) /\ FullItems(b) \in SUBSET Nat
        BY <1>1, <3>1
      <3>3. Ordered(FullItems(b)) \in [1..Cardinality(FullItems(b)) -> FullItems(b)]
        BY <3>2, OrderedOf
      <3> QED
        BY <1>4, <3>3
    <2> HIDE DEF S, g, place
    <2>2. Ordered(FullItems(b))[j] = g[place(j)]
      BY <1>4
    <2> QED
      BY <1>1, <2>1, <2>2
  <1> HIDE DEF S, s, g, place
  <1>8. LiveOf(b) = [j \in 1..(num - 1) |-> b.items[Ordered(FullItems(b))[j]]]
    BY <1>4 DEF LiveOf
  <1>9. ASSUME NEW j \in 1..(num - 1) PROVE b.items[Ordered(FullItems(b))[j]] = s[place(j)]
    <2>1. Ordered(FullItems(b))[j] = g[place(j)]
      BY <1>4
    <2>2. s[place(j)] = a.items[g[place(j)]]
      BY <1>2, <1>6
    <2> QED
      BY <1>5, <1>7, <2>1, <2>2
  <1>10. LiveOf(b) = [j \in 1..(num - 1) |-> s[place(j)]]
    BY <1>8, <1>9, Zenon
  <1> QED
    BY <1>10, Zenon DEF Without, place, s

\* dictRemove takes the item out of the list.
LEMMA RemovedList ==
    ASSUME NEW a, NEW n, NEW first, NEW num, Intact(a, n, first, num),
           NEW at \in 0..(n - 1), a.indices[at] > 0,
           NEW k, Class[a.items[a.indices[at]].key] = Class[k],
           NEW b, b = RemovedAt(a, a.indices[at], at)
    PROVE  Deletes(LiveOf(a), LiveOf(b), k)
  <1> DEFINE i == a.indices[at]
             r == Find(LiveOf(a), k)
             s == LiveOf(a)
  <1>1. i \in FullItems(a)
    BY DEF Intact, Linked
  <1>2. r \in 1..num /\ r # 0 /\ Ordered(FullItems(a))[r] = i
    <2> HIDE DEF i
    <2>1. Class[a.items[i].key] = Class[k]
      BY DEF i
    <2> QED
      BY <1>1, <2>1, FindOne
  <1> HIDE DEF r
  <1>3. LiveOf(b) = Without(s, num, r)
    BY <1>2, RemovedIs
  <1>4. s \in Seq([key : Key, value : Value]) /\ Len(s) = num /\ num \in Nat
    <2>1. ListIs(a, num, FullItems(a), Ordered(FullItems(a)), s)
      BY ListOf
    <2> HIDE DEF s
    <2> QED
      BY <2>1 DEF ListIs
  <1> HIDE DEF s
  <1>5. RemoveAt(s, r) = Without(s, num, r)
    BY <1>2, <1>4, WithoutOf
  <1> QED
    BY <1>2, <1>3, <1>5 DEF Deletes, r, s

\* The item in the last place is the last of the list.
LEMMA PoppedList ==
    ASSUME NEW a, NEW n, NEW first, NEW num, Intact(a, n, first, num),
           NEW at \in 0..(n - 1), a.indices[at] > 0,
           \A h \in FullItems(a) : h <= a.indices[at],
           NEW b, b = RemovedAt(a, a.indices[at], at)
    PROVE  Pops(LiveOf(a), LiveOf(b))
  <1> DEFINE i == a.indices[at]
             s == LiveOf(a)
             g == Ordered(FullItems(a))
  <1>1. i \in FullItems(a)
    BY DEF Intact, Linked
  <1>2. /\ num \in Nat /\ s \in Seq([key : Key, value : Value]) /\ Len(s) = num
        /\ FullItems(a) \in SUBSET Nat
        /\ g \in [1..num -> FullItems(a)]
        /\ \A h \in FullItems(a) : \E j \in 1..num : g[j] = h
        /\ \A h, j \in 1..num : h < j => g[h] < g[j]
    <2>1. ListIs(a, num, FullItems(a), g, s)
      BY ListOf
    <2> HIDE DEF g, s
    <2> QED
      BY <2>1 DEF ListIs
  <1>3. \A h \in FullItems(a) : h <= i
    OBVIOUS
  <1>4. PICK r \in 1..num : g[r] = i
    BY <1>1, <1>2
  <1>5. r = num
    <2> HIDE DEF g, i
    <2>1. num \in 1..num /\ g[num] \in FullItems(a) /\ g[num] \in Nat /\ i \in Nat
      BY <1>1, <1>2, <1>4
    <2>2. g[num] <= i
      BY <1>3, <2>1
    <2>3. r < num => i < g[num]
      BY <1>2, <1>4, <2>1
    <2> QED
      BY <1>2, <2>1, <2>2, <2>3
  <1>6. LiveOf(b) = Without(s, num, num)
    <2>1. Ordered(FullItems(a))[num] = a.indices[at] /\ num \in 1..num
      BY <1>4, <1>5
    <2> QED
      BY <2>1, RemovedIs
  <1> HIDE DEF s, g, i
  <1>7. Front(s) = Without(s, num, num) /\ s # <<>>
    <2>1. num \in 1..num
      BY <1>4, <1>5
    <2>2. s # <<>>
      BY <1>2, <2>1
    <2> QED
      BY <1>2, <2>1, <2>2, WithoutOf
  <1> QED
    BY <1>6, <1>7 DEF Pops, s

\* New arrays list nothing.
LEMMA NewList ==
    ASSUME NEW n, Size(n)
    PROVE  LiveOf(NewArrays(n)) = <<>>
  <1> DEFINE s == LiveOf(NewArrays(n))
  <1>1. ListIs(NewArrays(n), 0, FullItems(NewArrays(n)), Ordered(FullItems(NewArrays(n))), s)
    BY NewOf, ListOf
  <1> HIDE DEF s
  <1>2. s \in Seq([key : Key, value : Value]) /\ Len(s) = 0
    BY <1>1 DEF ListIs
  <1>3. s = <<>>
    BY <1>2
  <1> QED
    BY <1>3 DEF s

-----------------------------------------------------------------------------
(***************************************************************************)
(* The steps.                                                              *)
(***************************************************************************)

\* What a step may do to the list.
Moves(s, t) ==
    \/ t = s
    \/ \E k \in Key, v \in Value : Puts(s, t, k, v)
    \/ \E k \in Key : Deletes(s, t, k)
    \/ Pops(s, t)
    \/ t = <<>>

\* Below the lookup on top there are only dictAt: __eq__ does nothing else.
Asked(a, n, cs) == \A c \in 1..Len(cs) : Asking(a, n, cs[c]) /\ (c > 1 => cs[c].op = "get")

\* The dict has the arrays a, a place for the next item, and the lookups cs.
Holds(arr, num, first, cs, a, n) ==
    /\ arr = <<a>> /\ Intact(a, n, first, num) /\ first <= capacity(n)
    /\ Asked(a, n, cs)

Bounded(cs, st) == ~st /\ cs \in Seq(Call) /\ Len(cs) <= MaxCalls

\* The inductive invariant.
DictInv ==
    /\ Bounded(calls, stopped)
    /\ \/ arrays = <<>> /\ numItems = 0 /\ firstEmpty = 1 /\ calls = <<>>
       \/ \E a, n : Holds(arrays, numItems, firstEmpty, calls, a, n)

\* A step to a state with arrays whose list is one step from s.
Leads(s) ==
    /\ Bounded(calls', stopped')
    /\ \E b, k : /\ Holds(arrays', numItems', firstEmpty', calls', b, k)
                 /\ Moves(s, LiveOf(b))

\* A sequence with one element.
LEMMA SingleOf ==
    ASSUME NEW x
    PROVE  <<x>> # <<>> /\ Last(<<x>>) = x /\ <<x>>[1] = x /\ Len(<<x>>) = 1
           /\ Append(Front(<<x>>), x) = <<x>>
  <1> DEFINE T == {x}
             s == <<x>>
             q == Front(s)
  <1>1. s \in Seq(T) /\ Len(s) = 1 /\ s # <<>> /\ s[1] = x
    OBVIOUS
  <1>2. Last(s) = x
    BY <1>1 DEF Last
  <1>3. Front(s) = <<>>
    <2> HIDE DEF s, T
    <2>1. SubSeq(s, 1, 0) \in Seq(T) /\ Len(SubSeq(s, 1, 0)) = 0
      BY SubSeqProperties
    <2>2. q = SubSeq(s, 1, 0)
      BY <1>1 DEF Front
    <2> HIDE DEF q
    <2>3. q = <<>>
      BY <2>1, <2>2
    <2> QED
      BY <2>3 DEF q
  <1>4. Append(<<>>, x) = <<x>>
    OBVIOUS
  <1> HIDE DEF s
  <1>5. Append(Front(s), x) = <<x>>
    BY <1>3, <1>4
  <1> QED
    BY <1>1, <1>2, <1>5 DEF s

\* The type and the elements of Front.
LEMMA FrontOf ==
    ASSUME NEW cs \in Seq(Call), cs # <<>>
    PROVE  /\ Front(cs) \in Seq(Call) /\ Len(cs) \in Nat /\ Len(cs) >= 1
           /\ Len(Front(cs)) = Len(cs) - 1 /\ \A c \in 1..(Len(cs) - 1) : Front(cs)[c] = cs[c]
           /\ Last(cs) = cs[Len(cs)] /\ Last(cs) \in Call
  <1> DEFINE T == Call
  <1> HIDE DEF T
  <1>1. cs \in Seq(T) /\ cs # <<>>
    BY DEF T
  <1>2. Len(cs) \in Nat /\ Len(cs) >= 1
    BY <1>1
  <1>3. /\ Front(cs) \in Seq(T)
        /\ Len(Front(cs)) = Len(cs) - 1 /\ \A c \in 1..(Len(cs) - 1) : Front(cs)[c] = cs[c]
        /\ Last(cs) = cs[Len(cs)] /\ Last(cs) \in T
    <2> DEFINE r == Len(cs)
               q == SubSeq(cs, 1, r - 1)
    <2>1. r \in 1..r /\ r = Len(cs)
      BY <1>2
    <2> HIDE DEF r
    <2>2. q \in Seq(T) /\ Len(q) = r - 1 /\ \A i \in 1..(r - 1) : q[i] = cs[i]
      BY <1>1, <2>1
    <2> HIDE DEF q
    <2>3. q = SubSeq(cs, 1, Len(cs) - 1)
      BY <2>1 DEF q
    <2>4. cs[Len(cs)] \in T
      BY <1>1, <1>2
    <2>5. Front(cs) = q
      BY <2>3 DEF Front
    <2> QED
      BY <2>1, <2>2, <2>4, <2>5 DEF Last
  <1> QED
    BY <1>2, <1>3 DEF T

\* The lookup on top, and those below it.
LEMMA AskedFront ==
    ASSUME NEW a, NEW n, NEW cs \in Seq(Call), cs # <<>>, Asked(a, n, cs), Len(cs) <= MaxCalls
    PROVE  /\ Asked(a, n, Front(cs)) /\ Len(Front(cs)) < MaxCalls /\ Front(cs) \in Seq(Call)
           /\ Last(cs) \in Call /\ Asking(a, n, Last(cs)) /\ (Front(cs) # <<>> => Last(cs).op = "get")
  <1>1. /\ Front(cs) \in Seq(Call) /\ Len(cs) \in Nat /\ Len(cs) >= 1
        /\ Len(Front(cs)) = Len(cs) - 1 /\ \A c \in 1..(Len(cs) - 1) : Front(cs)[c] = cs[c]
        /\ Last(cs) = cs[Len(cs)] /\ Last(cs) \in Call
    BY FrontOf
  <1>2. MaxCalls \in Nat
    BY DictAssumption
  <1>3. Asked(a, n, Front(cs))
    <2> SUFFICES ASSUME NEW c \in 1..Len(Front(cs))
                 PROVE  Asking(a, n, Front(cs)[c]) /\ (c > 1 => Front(cs)[c].op = "get")
      BY Zenon DEF Asked
    <2>1. c \in 1..(Len(cs) - 1) /\ c \in 1..Len(cs)
      BY <1>1
    <2>2. Front(cs)[c] = cs[c] /\ Asking(a, n, cs[c]) /\ (c > 1 => cs[c].op = "get")
      BY <1>1, <2>1 DEF Asked
    <2> QED
      BY <2>2
  <1>4. Len(cs) \in 1..Len(cs)
    BY <1>1
  <1>5. Asking(a, n, Last(cs)) /\ (Len(cs) > 1 => Last(cs).op = "get")
    BY <1>1, <1>4 DEF Asked
  <1>6. Front(cs) # <<>> => Len(cs) > 1
    <2> DEFINE T == Call
    <2> HIDE DEF T
    <2>1. Front(cs) \in Seq(T)
      BY <1>1 DEF T
    <2>2. Front(cs) # <<>> => Len(Front(cs)) >= 1
      BY <2>1
    <2> QED
      BY <1>1, <2>2
  <1> QED
    BY <1>1, <1>2, <1>3, <1>5, <1>6

\* One more lookup whose __eq__ runs.
LEMMA AskedAppend ==
    ASSUME NEW a, NEW n, NEW cs \in Seq(Call), Asked(a, n, cs), Len(cs) < MaxCalls,
           NEW l \in Call, Asking(a, n, l), cs # <<>> => l.op = "get"
    PROVE  /\ Append(cs, l) \in Seq(Call) /\ Len(Append(cs, l)) <= MaxCalls
           /\ Asked(a, n, Append(cs, l)) /\ Append(cs, l) # <<>>
  <1> DEFINE T == Call
             q == Append(cs, l)
  <1>1. /\ q \in Seq(T) /\ q # <<>> /\ Len(q) = Len(cs) + 1 /\ q[Len(cs) + 1] = l
        /\ \A c \in 1..Len(cs) : q[c] = cs[c]
    <2> HIDE DEF T
    <2>1. cs \in Seq(T) /\ l \in T
      BY DEF T
    <2> DEFINE m == Len(cs)
    <2>2. q \in Seq(T) /\ q # <<>> /\ Len(q) = m + 1
      BY <2>1, AppendProperties
    <2>3. q[m + 1] = l
      BY <2>1, AppendProperties
    <2>4. \A c \in 1..m : q[c] = cs[c]
      BY <2>1, AppendProperties
    <2> QED
      BY <2>2, <2>3, <2>4
  <1>2. Len(cs) \in Nat /\ MaxCalls \in Nat
    BY DictAssumption
  <1> HIDE DEF q
  <1>3. Asked(a, n, q)
    <2> SUFFICES ASSUME NEW c \in 1..Len(q) PROVE Asking(a, n, q[c]) /\ (c > 1 => q[c].op = "get")
      BY Zenon DEF Asked
    <2>1. CASE c = Len(cs) + 1
      <3>1. c > 1 => cs # <<>>
        BY <1>2, <2>1
      <3> QED
        BY <1>1, <2>1, <3>1
    <2>2. CASE c # Len(cs) + 1
      <3>1. c \in 1..Len(cs)
        BY <1>1, <1>2, <2>2
      <3> QED
        BY <1>1, <3>1 DEF Asked
    <2> QED
      BY <2>1, <2>2
  <1> QED
    BY <1>1, <1>2, <1>3 DEF q

\* A lookup goes on or ends while the arrays stay.
LEMMA StaysOf ==
    ASSUME NEW d, NEW a, NEW n, Has(d, a, n), d.firstEmpty <= capacity(n), ~stopped,
           NEW cs \in Seq(Call), Len(cs) <= MaxCalls, Asked(a, n, cs), Become(d, cs)
    PROVE  Leads(LiveOf(a))
  <1>1. d.arrays = <<a>> /\ Intact(a, n, d.firstEmpty, d.numItems)
    BY DEF Has
  <1>2. arrays' = <<a>>
    <2>1. arrays' = <<Last(d.arrays)>> \/ arrays' = d.arrays
      BY Zenon DEF Become
    <2>2. Last(d.arrays) = a
      BY <1>1, SingleOf
    <2> QED
      BY <1>1, <2>1, <2>2
  <1>3. calls' = cs /\ ~stopped' /\ numItems' = d.numItems /\ firstEmpty' = d.firstEmpty
    BY DEF Become
  <1>4. Bounded(calls', stopped')
    BY <1>3 DEF Bounded
  <1>5. Holds(arrays', numItems', firstEmpty', calls', a, n)
    BY <1>1, <1>2, <1>3 DEF Holds
  <1>6. Moves(LiveOf(a), LiveOf(a))
    BY DEF Moves
  <1> QED
    BY <1>4, <1>5, <1>6 DEF Leads

\* An operation ends without others below it.
LEMMA EndsOf ==
    ASSUME NEW e, NEW b, LeavesItemsOf(e, b), ~stopped, Become(e, <<>>),
           NEW s, Moves(s, LiveOf(b))
    PROVE  Leads(s)
  <1>1. PICK a, n : Ends(e, a, n) /\ e.firstEmpty <= capacity(n) /\ LiveOf(a) = LiveOf(b)
    BY DEF LeavesItemsOf
  <1>2. /\ Intact(a, n, e.firstEmpty, e.numItems)
        /\ e.arrays # <<>> /\ Last(e.arrays) = a
    BY <1>1 DEF Ends
  <1>3. arrays' = <<a>>
    <2>1. arrays' = <<Last(e.arrays)>>
      BY <1>2, Zenon DEF Become
    <2> QED
      BY <1>2, <2>1
  <1>4. calls' = <<>> /\ ~stopped' /\ numItems' = e.numItems /\ firstEmpty' = e.firstEmpty
    BY DEF Become
  <1>5. Bounded(calls', stopped')
    <2>1. MaxCalls \in Nat
      BY DictAssumption
    <2>2. <<>> \in Seq(Call) /\ Len(<<>>) = 0
      OBVIOUS
    <2> QED
      BY <1>4, <2>1, <2>2 DEF Bounded
  <1>6. Asked(a, n, <<>>)
    BY DEF Asked
  <1>7. Holds(arrays', numItems', firstEmpty', calls', a, n)
    BY <1>1, <1>2, <1>3, <1>4, <1>6 DEF Holds
  <1> QED
    BY <1>1, <1>5, <1>7 DEF Leads

\* Below a lookup there are others only when it is a dictAt.
Above(cs, op) == cs # <<>> => op = "get"

\* The lookup found the item at an index.
LEMMA FoundLeads ==
    ASSUME NEW d, NEW a, NEW n, Has(d, a, n), d.firstEmpty <= capacity(n), ~stopped,
           NEW l \in Call, l.op = "put" => l.value \in Value,
           NEW below \in Seq(Call), Len(below) <= MaxCalls, Asked(a, n, below),
           Above(below, l.op),
           NEW at \in 0..(n - 1), PlaceOf(a, n, l.key, at), FoundAt(d, l, at, below)
    PROVE  Leads(LiveOf(a))
  <1> DEFINE e == Found(d, l, at)
             i == a.indices[at]
  <1>1. /\ d.arrays = <<a>> /\ Intact(a, n, d.firstEmpty, d.numItems) /\ l.arrays = 1
        /\ l.op \in {"put", "get", "remove"} /\ l.key \in Key
    BY DEF Has, Call
  <1>2. /\ a.indices[at] > 0 /\ Class[a.items[i].key] = Class[l.key] /\ i \in FullItems(a)
        /\ i = a.indices[at]
    BY <1>1 DEF PlaceOf, Intact, Linked
  <1>3. Become(e, below)
    <2>1. ItemAt(d, l, at) = a.indices[at]
      BY <1>1, SingleOf DEF ItemAt
    <2> HIDE DEF e
    <2> QED
      BY <1>2, <2>1, Zenon DEF FoundAt, e
  <1> HIDE DEF i
  <1>4. CASE l.op = "get"
    <2>1. e = d
      BY <1>4 DEF Found
    <2> HIDE DEF e
    <2> QED
      BY <1>3, <2>1, StaysOf
  <1>5. CASE l.op = "put"
    <2>1. below = <<>>
      BY <1>5 DEF Above
    <2>2. LeavesItemsOf(e, Valued(a, i, l.value))
      BY <1>2, <1>5, PutOldOf
    <2>3. Puts(LiveOf(a), LiveOf(Valued(a, i, l.value)), l.key, l.value)
      BY <1>1, <1>2, <1>5, ValueList
    <2>4. Moves(LiveOf(a), LiveOf(Valued(a, i, l.value)))
      BY <1>1, <1>5, <2>3 DEF Moves
    <2> HIDE DEF e
    <2> QED
      BY <1>3, <2>1, <2>2, <2>4, EndsOf
  <1>6. CASE l.op = "remove"
    <2>1. below = <<>>
      BY <1>6 DEF Above
    <2>2. LeavesItemsOf(e, RemovedAt(a, i, at))
      BY <1>2, <1>6, RemoveOf
    <2>3. Deletes(LiveOf(a), LiveOf(RemovedAt(a, i, at)), l.key)
      <3>1. Class[a.items[a.indices[at]].key] = Class[l.key]
        BY <1>2
      <3> QED
        BY <1>1, <1>2, <3>1, RemovedList
    <2>4. Moves(LiveOf(a), LiveOf(RemovedAt(a, i, at)))
      BY <1>1, <2>3 DEF Moves
    <2> HIDE DEF e
    <2> QED
      BY <1>3, <2>1, <2>2, <2>4, EndsOf
  <1> QED
    BY <1>1, <1>4, <1>5, <1>6

\* Each outcome of a lookup leads to a state with the invariant.
LEMMA OutcomeLeads ==
    ASSUME NEW d, NEW a, NEW n, Has(d, a, n), d.firstEmpty <= capacity(n), ~stopped,
           NEW l \in Call, l.op = "put" => l.value \in Value,
           NEW below \in Seq(Call), Len(below) < MaxCalls, Asked(a, n, below),
           Above(below, l.op), Outcome(d, a, n, l, below)
    PROVE  Leads(LiveOf(a))
  <1>1. /\ d.arrays = <<a>> /\ Intact(a, n, d.firstEmpty, d.numItems) /\ l.key \in Key
    BY DEF Has, Call
  <1>2. Len(below) <= MaxCalls
    BY DictAssumption
  <1>3. CASE \E at \in 0..(n - 1) : PlaceOf(a, n, l.key, at) /\ FoundAt(d, l, at, below)
    BY <1>2, <1>3, FoundLeads
  <1>4. ASSUME NEW asking \in Call, Asking(a, n, asking), asking.op = l.op,
               Become(d, Append(below, asking))
        PROVE  Leads(LiveOf(a))
    <2> DEFINE q == Append(below, asking)
    <2>1. q \in Seq(Call) /\ Len(q) <= MaxCalls /\ Asked(a, n, q)
      BY <1>4, AskedAppend DEF Above
    <2> HIDE DEF q
    <2>2. Become(d, q)
      BY <1>4 DEF q
    <2> QED
      BY <2>1, <2>2, StaysOf
  <1>5. ASSUME NEW free \in 0..(n - 1), NewPlace(a, n, l.key, free),
               Become(NotFound(d, [l EXCEPT !.free = free]), below)
        PROVE  Leads(LiveOf(a))
    <2> DEFINE e == NotFound(d, [l EXCEPT !.free = free])
    <2>1. CASE l.op # "put"
      <3>1. e = d
        BY <2>1 DEF NotFound, Call
      <3>2. Become(d, below)
        <4> HIDE DEF e
        <4>1. Become(e, below)
          BY <1>5 DEF e
        <4> QED
          BY <3>1, <4>1
      <3> QED
        BY <1>2, <3>2, StaysOf
    <2>2. CASE l.op = "put"
      <3> DEFINE b == Inserted(a, d.firstEmpty, l.key, l.value, free)
      <3>1. below = <<>> /\ l.value \in Value
        BY <2>2 DEF Above
      <3>2. LeavesItemsOf(e, b)
        BY <1>5, <2>2, <3>1, PutNewOf
      <3>3. Puts(LiveOf(a), LiveOf(b), l.key, l.value)
        BY <1>1, <1>5, <3>1, InsertedList
      <3> HIDE DEF b
      <3>4. Moves(LiveOf(a), LiveOf(b))
        BY <1>1, <3>1, <3>3 DEF Moves
      <3>5. Become(e, <<>>)
        <4> HIDE DEF e
        <4>1. Become(e, below)
          BY <1>5 DEF e
        <4> QED
          BY <3>1, <4>1
      <3> HIDE DEF e
      <3> QED
        BY <3>2, <3>4, <3>5, EndsOf
    <2> QED
      BY <2>1, <2>2
  <1> QED
    BY <1>3, <1>4, <1>5 DEF Outcome

\* The state, once there are arrays.
LEMMA StateHas ==
    ASSUME NEW a, NEW n, Holds(arrays, numItems, firstEmpty, calls, a, n)
    PROVE  /\ Has(State, a, n) /\ State.firstEmpty <= capacity(n) /\ State.firstEmpty = firstEmpty
           /\ State.numItems = numItems /\ Asked(a, n, calls) /\ arrays = <<a>>
           /\ Intact(a, n, firstEmpty, numItems) /\ LiveItems(State) = LiveOf(a)
  <1>1. arrays = <<a>> /\ Intact(a, n, firstEmpty, numItems) /\ firstEmpty <= capacity(n) /\ Asked(a, n, calls)
    BY DEF Holds
  <1>2. /\ State = [arrays |-> <<a>>, numItems |-> numItems, firstEmpty |-> firstEmpty]
        /\ State.arrays = <<a>> /\ State.firstEmpty = firstEmpty /\ State.numItems = numItems
    BY <1>1 DEF State
  <1>3. Has(State, a, n)
    BY <1>1, <1>2 DEF Has
  <1>4. LiveItems(State) = LiveOf(a)
    <2>1. Last(State.arrays) = a
      BY <1>2, SingleOf
    <2>2. Intact(a, n, State.firstEmpty, numItems)
      BY <1>1, <1>2
    <2>3. Lists(LiveItems(State), a, numItems)
      BY <2>1, <2>2, LiveItemsOf
    <2> QED
      BY <2>3 DEF Lists
  <1> QED
    BY <1>1, <1>2, <1>3, <1>4

\* __eq__ raises: the lookup ends, the dict is as it was.
LEMMA EqRaisesLeads ==
    ASSUME DictInv, NEW a, NEW n, Holds(arrays, numItems, firstEmpty, calls, a, n), EqRaises
    PROVE  Leads(LiveOf(a))
  <1>1. ~stopped /\ calls # <<>> /\ calls \in Seq(Call) /\ Len(calls) <= MaxCalls
    BY DEF DictInv, Bounded, EqRaises
  <1>2. Has(State, a, n) /\ State.firstEmpty <= capacity(n) /\ Asked(a, n, calls)
    BY StateHas
  <1>3. Front(calls) \in Seq(Call) /\ Len(Front(calls)) < MaxCalls /\ Asked(a, n, Front(calls))
    BY <1>1, <1>2, AskedFront
  <1>4. Len(Front(calls)) <= MaxCalls
    BY <1>3, DictAssumption
  <1>5. Become(State, Front(calls))
    BY DEF EqRaises
  <1> QED
    BY <1>1, <1>2, <1>3, <1>4, <1>5, StaysOf

\* __eq__ returns: the lookup ends at the item, or goes on behind it.
LEMMA EqReturnsLeads ==
    ASSUME DictInv, NEW a, NEW n, Holds(arrays, numItems, firstEmpty, calls, a, n), EqReturns
    PROVE  Leads(LiveOf(a))
  <1> DEFINE l == Last(calls)
             p == Probe(Hash[l.key], n)
             t == l.step - 1
             at == p[t]
             below == Front(calls)
  <1>1. ~stopped /\ calls # <<>> /\ calls \in Seq(Call) /\ Len(calls) <= MaxCalls
    BY DEF DictInv, Bounded, EqReturns
  <1>2. /\ Has(State, a, n) /\ State.firstEmpty <= capacity(n) /\ Asked(a, n, calls)
        /\ arrays = <<a>> /\ Intact(a, n, State.firstEmpty, State.numItems)
    BY StateHas
  <1>3. /\ below \in Seq(Call) /\ Len(below) < MaxCalls /\ Asked(a, n, below)
        /\ l \in Call /\ Asking(a, n, l) /\ (below # <<>> => l.op = "get")
    BY <1>1, <1>2, AskedFront
  <1> HIDE DEF l, below
  <1>4. Above(below, l.op) /\ Len(below) <= MaxCalls
    BY <1>3, DictAssumption DEF Above
  <1>5. /\ l.arrays = 1 /\ l.key \in Key /\ (l.op = "put" => l.value \in Value)
        /\ l.step \in 2..(Steps(n) + 1) /\ Passed(a, n, l, t) /\ a.indices[at] > 0
        /\ l.with = a.items[a.indices[at]].key
    BY <1>3 DEF Asking, Call
  <1>6. Size(n) /\ numIndices(a) = n /\ n \in Nat
    <2>1. Fields(a, n)
      BY <1>2 DEF Intact
    <2> QED
      BY <2>1, FieldsOf DEF Fields
  <1>7. IF Class[l.with] = Class[l.key] THEN FoundAt(State, l, at, below)
        ELSE Continue(State, l, below)
    <2>1. IF Class[l.with] = Class[l.key]
          THEN FoundAt(State, l, Probe(Hash[l.key], numIndices(arrays[l.arrays]))[l.step - 1], below)
          ELSE Continue(State, l, below)
      BY Zenon DEF EqReturns, l, below
    <2>2. arrays[l.arrays] = a
      BY <1>2, <1>5, SingleOf
    <2> QED
      BY <1>6, <2>1, <2>2, Zenon
  <1>8. t \in 1..Steps(n) /\ t + 1 = l.step /\ l.step \in 1..(Steps(n) + 1) /\ t \in Nat
    BY <1>5, <1>6, StepsOf
  <1>9. at \in 0..(n - 1)
    <2>1. p \in [1..Steps(n) -> 0..(n - 1)]
      BY <1>5, <1>6, ProbeOf
    <2> HIDE DEF p, t
    <2> QED
      BY <1>8, <2>1
  <1>10. CASE Class[l.with] = Class[l.key]
    <2>1. FoundAt(State, l, at, below)
      BY <1>7, <1>10
    <2>2. PlaceOf(a, n, l.key, at)
      BY <1>5, <1>9, <1>10 DEF PlaceOf
    <2> HIDE DEF at
    <2> QED
      BY <1>1, <1>2, <1>3, <1>4, <1>5, <1>9, <2>1, <2>2, FoundLeads
  <1>11. CASE Class[l.with] # Class[l.key]
    <2>1. Continue(State, l, below)
      BY <1>7, <1>11
    <2>2. Passed(a, n, l, l.step)
      <3> HIDE DEF p, t
      <3>1. /\ \A u \in 1..(t - 1) :
                  /\ a.indices[p[u]] # Empty
                  /\ a.indices[p[u]] > 0 => Class[a.items[a.indices[p[u]]].key] # Class[l.key]
            /\ \/ l.free = None /\ \A u \in 1..(t - 1) : a.indices[p[u]] > 0
               \/ \E u \in 1..(t - 1) : /\ l.free = p[u] /\ ~(a.indices[p[u]] > 0)
                                        /\ \A w \in 1..(u - 1) : a.indices[p[w]] > 0
        BY <1>5 DEF Passed, p
      <3>2. a.indices[p[t]] # Empty /\ a.indices[p[t]] > 0
            /\ Class[a.items[a.indices[p[t]]].key] # Class[l.key]
        BY <1>5, <1>11 DEF Empty
      <3>3. \A u \in 1..(l.step - 1) : u \in 1..(t - 1) \/ u = t
        BY <1>8
      <3>4. \A u \in 1..(t - 1) : u \in 1..(l.step - 1)
        BY <1>8
      <3>5. \A u \in 1..(l.step - 1) :
                  /\ a.indices[p[u]] # Empty
                  /\ a.indices[p[u]] > 0 => Class[a.items[a.indices[p[u]]].key] # Class[l.key]
        BY <3>1, <3>2, <3>3
      <3>6. \/ l.free = None /\ \A u \in 1..(l.step - 1) : a.indices[p[u]] > 0
            \/ \E u \in 1..(l.step - 1) : /\ l.free = p[u] /\ ~(a.indices[p[u]] > 0)
                                          /\ \A w \in 1..(u - 1) : a.indices[p[w]] > 0
        BY <3>1, <3>2, <3>3, <3>4
      <3> QED
        BY <1>8, <3>5, <3>6 DEF Passed, p
    <2>3. State.arrays = <<a>>
      BY <1>2 DEF State
    <2>4. Outcome(State, a, n, l, below)
      BY <1>2, <1>3, <1>5, <2>1, <2>2, <2>3, ContinueOf
    <2> QED
      BY <1>1, <1>2, <1>3, <1>4, <1>5, <2>4, OutcomeLeads
  <1> QED
    BY <1>10, <1>11

\* The items of the dict, as the abstract specification sees them.
Listed == IF arrays = <<>> THEN <<>> ELSE LiveItems(State)

\* __eq__ may only look up.
Lookups == Nested \subseteq {"get"}

\* An operation begins: dictAtPut, dictAt, dictRemove.
LEMMA BeginLeads ==
    ASSUME DictInv, Lookups, NEW op \in {"put", "get", "remove"}, NEW k \in Key,
           NEW v \in Value \cup {None}, op = "put" => v \in Value, Begin(op, k, v)
    PROVE  Leads(Listed)
  <1> DEFINE m == kInitialDictIndicesLength
             new == NewArrays(m)
             allocated == [State EXCEPT !.arrays = <<new>>]
             d == IF arrays = <<>> THEN allocated ELSE State
             l == [op |-> op, key |-> k, value |-> v, arrays |-> Len(d.arrays),
                   step |-> 1, free |-> None, with |-> None]
             l1 == [op |-> op, key |-> k, value |-> v, arrays |-> 1,
                    step |-> 1, free |-> None, with |-> None]
  <1>1. ~stopped /\ calls \in Seq(Call) /\ Len(calls) <= MaxCalls
    BY DEF DictInv, Bounded
  <1>2. MayUse(op) /\ (op = "put" \/ numItems # 0) /\ Continue(d, l, calls)
    <2> HIDE DEF MayUse, Continue
    <2> QED
      BY Zenon DEF Begin
  <1>3. Above(calls, op) /\ Len(calls) < MaxCalls
    <2>1. CASE calls = <<>>
      <3>1. Len(calls) = 0 /\ MaxCalls \in Nat /\ MaxCalls # 0
        BY <2>1, DictAssumption
      <3> QED
        BY <2>1, <3>1 DEF Above
    <2>2. CASE calls # <<>>
      BY <1>2, <2>2 DEF MayUse, Lookups, Above
    <2> QED
      BY <2>1, <2>2
  <1>4. l1 \in Call /\ l1.op = op /\ l1.key = k /\ l1.value = v /\ l1.step = 1 /\ l1.free = None
    BY DEF Call
  <1> HIDE DEF l1, d, new
  <1>5. ASSUME NEW a, NEW n, Has(d, a, n), d.firstEmpty <= capacity(n), Asked(a, n, calls)
        PROVE  Leads(LiveOf(a))
    <2>1. d.arrays = <<a>> /\ Intact(a, n, d.firstEmpty, d.numItems)
      BY <1>5 DEF Has
    <2>2. Len(d.arrays) = 1
      BY <2>1, SingleOf
    <2>3. l = l1
      BY <2>2 DEF l1
    <2> HIDE DEF l
    <2>4. Continue(d, l1, calls)
      BY <1>2, <2>3
    <2>5. Passed(a, n, l1, l1.step)
      <3>1. n \in Nat
        <4>1. Fields(a, n)
          BY <2>1 DEF Intact
        <4> QED
          BY <4>1, FieldsOf
      <3>2. 1 \in 1..(Steps(n) + 1) /\ 1..(1 - 1) = {}
        BY <3>1, StepsOf
      <3> QED
        BY <1>4, <3>2 DEF Passed
    <2>6. Outcome(d, a, n, l1, calls)
      BY <1>4, <1>5, <2>1, <2>4, <2>5, ContinueOf
    <2> QED
      BY <1>1, <1>3, <1>4, <1>5, <2>6, OutcomeLeads
  <1>6. CASE arrays = <<>>
    <2>1. numItems = 0 /\ firstEmpty = 1 /\ calls = <<>>
      <3>1. ASSUME NEW a, NEW n, Holds(arrays, numItems, firstEmpty, calls, a, n) PROVE FALSE
        <4>1. arrays = <<a>>
          BY <3>1 DEF Holds
        <4> QED
          BY <1>6, <4>1, SingleOf
      <3> QED
        BY <3>1 DEF DictInv
    <2>2. d = [arrays |-> <<new>>, numItems |-> 0, firstEmpty |-> 1]
      BY <1>6, <2>1 DEF d, State
    <2>3. Size(m) /\ Intact(new, m, 1, 0) /\ LiveOf(new) = <<>>
      BY InitialSize, NewOf, NewList DEF new
    <2>4. Has(d, new, m)
      BY <2>2, <2>3 DEF Has
    <2>5. d.firstEmpty <= capacity(m)
      BY <2>2, <2>3, Capacities
    <2>6. Asked(new, m, calls)
      BY <2>1 DEF Asked
    <2>7. Leads(LiveOf(new))
      BY <1>5, <2>4, <2>5, <2>6
    <2> QED
      BY <1>6, <2>3, <2>7 DEF Listed
  <1>7. CASE arrays # <<>>
    <2>1. PICK a, n : Holds(arrays, numItems, firstEmpty, calls, a, n)
      BY <1>7 DEF DictInv
    <2>2. Has(State, a, n) /\ State.firstEmpty <= capacity(n) /\ Asked(a, n, calls)
          /\ LiveItems(State) = LiveOf(a)
      BY <2>1, StateHas
    <2>3. d = State
      BY <1>7 DEF d
    <2>4. Leads(LiveOf(a))
      BY <1>5, <2>2, <2>3
    <2> QED
      BY <1>7, <2>2, <2>4 DEF Listed
  <1> QED
    BY <1>6, <1>7

\* The dict's last arrays become b: the end of dict.popitem() and dictClear.
LEMMA BecomesOf ==
    ASSUME NEW e, NEW b, NEW k, Ends(e, b, k), e.firstEmpty <= capacity(k), ~stopped,
           calls = <<>>, Become(e, calls), NEW s, Moves(s, LiveOf(b))
    PROVE  Leads(s)
  <1>1. LeavesItemsOf(e, b)
    BY DEF LeavesItemsOf
  <1>2. Become(e, <<>>)
    OBVIOUS
  <1> QED
    BY <1>1, <1>2, EndsOf

\* dictClear.
LEMMA ClearLeads ==
    ASSUME DictInv, Lookups, Clear
    PROVE  Leads(Listed)
  <1>1. ~stopped /\ calls = <<>> /\ arrays # <<>>
    BY DEF DictInv, Bounded, Clear, MayUse, Lookups
  <1>2. PICK a, n : Holds(arrays, numItems, firstEmpty, calls, a, n)
    BY <1>1 DEF DictInv
  <1>3. arrays = <<a>> /\ Intact(a, n, firstEmpty, numItems)
    BY <1>2, StateHas
  <1>4. Size(n) /\ numIndices(a) = n
    <2>1. Fields(a, n)
      BY <1>3 DEF Intact
    <2> QED
      BY <2>1, FieldsOf DEF Fields
  <1> DEFINE b == NewArrays(n)
             e == [arrays |-> Append(Front(arrays), NewArrays(numIndices(Last(arrays)))),
                   numItems |-> 0, firstEmpty |-> 1]
  <1>5. Become(e, calls)
    BY Zenon DEF Clear
  <1>6. Intact(b, n, 1, 0) /\ LiveOf(b) = <<>> /\ 1 <= capacity(n)
    BY <1>4, NewOf, NewList, Capacities
  <1>7. e = [arrays |-> <<b>>, numItems |-> 0, firstEmpty |-> 1]
    <2>1. Last(arrays) = a /\ Front(arrays) = <<>>
      BY <1>3, SingleOf
    <2>2. Append(<<>>, b) = <<b>>
      OBVIOUS
    <2> QED
      BY <1>4, <2>1, <2>2
  <1> HIDE DEF e, b
  <1>8. Ends(e, b, n) /\ e.firstEmpty <= capacity(n)
    BY <1>6, <1>7, SingleOf DEF Ends
  <1>9. Moves(Listed, LiveOf(b))
    BY <1>6 DEF Moves
  <1> QED
    BY <1>1, <1>5, <1>8, <1>9, BecomesOf

\* The largest member of a finite set.
LEMMA LargestOf ==
    ASSUME NEW a, NEW n, NEW first, NEW num, Intact(a, n, first, num), num # 0
    PROVE  Max(FullItems(a)) \in FullItems(a) /\ \A h \in FullItems(a) : h <= Max(FullItems(a))
  <1> DEFINE S == FullItems(a)
             g == Ordered(S)
  <1>1. /\ num \in Nat /\ S \in SUBSET Nat /\ g \in [1..num -> S]
        /\ \A i \in S : \E j \in 1..num : g[j] = i
        /\ \A i, j \in 1..num : i < j => g[i] < g[j]
    <2>1. ListIs(a, num, S, g, LiveOf(a))
      BY ListOf
    <2> HIDE DEF S, g
    <2> QED
      BY <2>1 DEF ListIs
  <1> HIDE DEF S, g
  <1>2. g[num] \in S /\ num \in 1..num
    BY <1>1
  <1>3. \A h \in S : h <= g[num]
    <2> SUFFICES ASSUME NEW h \in S PROVE h <= g[num]
      OBVIOUS
    <2>1. PICK j \in 1..num : g[j] = h
      BY <1>1
    <2>2. h \in Nat /\ g[num] \in Nat
      BY <1>1, <1>2
    <2>3. j < num => h < g[num]
      BY <1>1, <1>2, <2>1
    <2>4. j = num \/ j < num
      BY <1>1
    <2> QED
      BY <2>1, <2>2, <2>3, <2>4
  <1>4. \E x \in S : \A y \in S : x >= y
    BY <1>1, <1>2, <1>3
  <1>5. Max(S) \in S /\ \A y \in S : Max(S) >= y
    BY <1>4 DEF Max
  <1>6. \A y \in S : y <= Max(S)
    <2> DEFINE x == Max(S)
    <2>1. x \in S /\ \A y \in S : x >= y
      BY <1>5
    <2> HIDE DEF x
    <2>2. \A y \in S : y <= x
      BY <1>1, <2>1
    <2> QED
      BY <2>2 DEF x
  <1> QED
    BY <1>5, <1>6 DEF S

\* The dict with other arrays and one item less.
LessOne(d, b) == [d EXCEPT !.arrays[1] = b, !.numItems = @ - 1]

\* What the assignments of dict.popitem() leave.
LEMMA LessOneOf ==
    ASSUME NEW d, NEW a, NEW n, Has(d, a, n), NEW b
    PROVE  LessOne(d, b) = [arrays |-> <<b>>, numItems |-> d.numItems - 1, firstEmpty |-> d.firstEmpty]
  <1> DEFINE num == d.numItems
             first == d.firstEmpty
             less == num - 1
             x == <<b>>
  <1>1. d = [arrays |-> <<a>>, numItems |-> num, firstEmpty |-> first]
    BY DEF Has
  <1> HIDE DEF num, first
  <1>2. [d EXCEPT !.arrays[1] = b] = [arrays |-> <<b>>, numItems |-> num, firstEmpty |-> first]
    BY <1>1
  <1> DEFINE e == [d EXCEPT !.arrays[1] = b]
  <1>3. LessOne(d, b) = [e EXCEPT !.numItems = @ - 1]
    BY DEF LessOne
  <1>4. e = [arrays |-> x, numItems |-> num, firstEmpty |-> first]
    BY <1>2
  <1> HIDE DEF e, x
  <1>5. e.numItems = num
    BY <1>4
  <1>6. [e EXCEPT !.numItems = @ - 1] = [e EXCEPT !.numItems = less]
    BY <1>5
  <1> HIDE DEF less
  <1>7. [e EXCEPT !.numItems = less] = [arrays |-> x, numItems |-> less, firstEmpty |-> first]
    BY <1>4
  <1> QED
    BY <1>3, <1>6, <1>7 DEF x, less, num, first

\* dict.popitem().
LEMMA PopItemLeads ==
    ASSUME DictInv, Lookups, PopItem
    PROVE  Leads(Listed)
  <1>1. ~stopped /\ calls = <<>> /\ numItems # 0
    BY DEF DictInv, Bounded, PopItem, MayUse, Lookups
  <1>2. PICK a, n : Holds(arrays, numItems, firstEmpty, calls, a, n)
    BY <1>1 DEF DictInv
  <1>3. /\ arrays = <<a>> /\ Intact(a, n, firstEmpty, numItems) /\ Has(State, a, n)
        /\ State.firstEmpty <= capacity(n) /\ State.firstEmpty = firstEmpty
        /\ State.numItems = numItems /\ LiveItems(State) = LiveOf(a)
    BY <1>2, StateHas
  <1>4. Last(arrays) = a /\ Len(arrays) = 1 /\ arrays # <<>>
    BY <1>3, SingleOf
  <1> DEFINE full == {j \in 1..(firstEmpty - 1) : Full(a.items[j])}
             i == Max(full)
             at == {p \in DOMAIN a.indices : a.indices[p] = i}
  <1>5. /\ Fields(a, n) /\ DOMAIN a.items = 1..capacity(n) /\ DOMAIN a.indices = 0..(n - 1)
        /\ capacity(n) \in Nat /\ firstEmpty \in 1..(capacity(n) + 1) /\ Linked(a, n) /\ Size(n)
        /\ \A j \in 1..capacity(n) : a.items[j] = Unused <=> j >= firstEmpty
        /\ \A j \in FullItems(a) : j \in 1..capacity(n) /\ a.items[j].key \in Key
    <2>1. /\ Fields(a, n) /\ firstEmpty \in 1..(capacity(n) + 1) /\ Linked(a, n)
          /\ \A j \in 1..capacity(n) : a.items[j] = Unused <=> j >= firstEmpty
      BY <1>3 DEF Intact
    <2> QED
      BY <2>1, FieldsOf DEF Fields
  <1>6. full = FullItems(a)
    <2>1. ASSUME NEW j \in FullItems(a) PROVE j \in 1..(firstEmpty - 1) /\ Full(a.items[j])
      <3>1. j \in 1..capacity(n) /\ a.items[j] # Unused /\ Full(a.items[j])
        BY <1>5 DEF FullItems, Full, Unused
      <3>2. ~(j >= firstEmpty)
        BY <1>5, <3>1
      <3> QED
        BY <1>5, <3>1, <3>2
    <2>2. \A j \in 1..(firstEmpty - 1) : j \in 1..capacity(n)
      BY <1>5
    <2> QED
      BY <1>5, <2>1, <2>2 DEF FullItems
  <1>7. i \in FullItems(a) /\ \A h \in FullItems(a) : h <= i
    <2>1. Max(FullItems(a)) \in FullItems(a) /\ \A h \in FullItems(a) : h <= Max(FullItems(a))
      BY <1>1, <1>3, LargestOf
    <2> HIDE DEF full
    <2> QED
      BY <1>6, <2>1
  <1>8. at # {}
    <2> HIDE DEF i
    <2>1. a.items[i].key \in Key /\ Reached(a, n, i)
      BY <1>5, <1>7 DEF Linked
    <2> DEFINE p == Probe(Hash[a.items[i].key], n)
    <2>2. \A u \in 1..Steps(n) : p[u] \in 0..(n - 1)
      <3>1. p \in [1..Steps(n) -> 0..(n - 1)]
        BY <1>5, <2>1, ProbeOf
      <3> HIDE DEF p
      <3> QED
        BY <3>1
    <2>3. PICK s \in 1..Steps(n) : a.indices[p[s]] = i
      BY <2>1 DEF Reached
    <2> HIDE DEF p
    <2> QED
      BY <1>5, <2>2, <2>3
  <1>9. PICK p \in at : Become(LessOne(State, RemovedAt(a, i, p)), calls)
    <2> HIDE DEF Become, MayUse, Stop
    <2>1. IF at = {} THEN Stop
          ELSE \E p \in at : Become([State EXCEPT
                    !.arrays[Len(arrays)] = [items |-> [a.items EXCEPT ![i] = Removed],
                                             indices |-> [a.indices EXCEPT ![p] = Tombstone]],
                    !.numItems = @ - 1], calls)
      BY <1>4, Zenon DEF PopItem
    <2>2. \E p \in at : Become([State EXCEPT
                    !.arrays[Len(arrays)] = [items |-> [a.items EXCEPT ![i] = Removed],
                                             indices |-> [a.indices EXCEPT ![p] = Tombstone]],
                    !.numItems = @ - 1], calls)
      BY <1>8, <2>1, Zenon
    <2> HIDE DEF at
    <2> QED
      BY <1>4, <2>2, Zenon DEF LessOne, RemovedAt
  <1>10. p \in 0..(n - 1) /\ a.indices[p] = i /\ i > 0
    <2> HIDE DEF i
    <2> QED
      BY <1>5, <1>7, <1>9
  <1> HIDE DEF i, at
  <1> DEFINE b == RemovedAt(a, i, p)
             e == LessOne(State, b)
  <1>11. Intact(b, n, firstEmpty, numItems - 1)
    BY <1>3, <1>10, RemovedOf
  <1>12. e = [arrays |-> <<b>>, numItems |-> numItems - 1, firstEmpty |-> firstEmpty]
    BY <1>3, LessOneOf
  <1>13. Pops(LiveOf(a), LiveOf(b))
    <2>1. b = RemovedAt(a, a.indices[p], p) /\ \A h \in FullItems(a) : h <= a.indices[p]
      BY <1>7, <1>10
    <2> HIDE DEF b
    <2> QED
      BY <1>3, <1>10, <2>1, PoppedList
  <1>14. Become(e, calls)
    BY <1>9
  <1> HIDE DEF e, b
  <1>15. Ends(e, b, n) /\ e.firstEmpty <= capacity(n)
    BY <1>3, <1>11, <1>12, SingleOf DEF Ends
  <1>16. Moves(Listed, LiveOf(b))
    BY <1>3, <1>4, <1>13 DEF Moves, Listed
  <1> QED
    BY <1>1, <1>14, <1>15, <1>16, BecomesOf

\* Every action leads to a state with the invariant.
LEMMA NextLeads ==
    ASSUME DictInv, Lookups, Next
    PROVE  Leads(Listed)
  <1>1. ASSUME NEW a, NEW n, Holds(arrays, numItems, firstEmpty, calls, a, n)
        PROVE  Listed = LiveOf(a)
    BY <1>1, StateHas, SingleOf DEF Listed
  <1>2. ASSUME calls # <<>> PROVE \E a, n : Holds(arrays, numItems, firstEmpty, calls, a, n)
    BY <1>2 DEF DictInv
  <1>3. ASSUME NEW k \in Key, NEW v \in Value, AtPut(k, v) PROVE Leads(Listed)
    BY <1>3, BeginLeads DEF AtPut
  <1>4. ASSUME NEW k \in Key, At(k) PROVE Leads(Listed)
    BY <1>4, BeginLeads DEF At
  <1>5. ASSUME NEW k \in Key, Delete(k) PROVE Leads(Listed)
    BY <1>5, BeginLeads DEF Delete
  <1>6. CASE EqReturns
    <2>1. calls # <<>>
      BY <1>6 DEF EqReturns
    <2> QED
      BY <1>1, <1>2, <1>6, <2>1, EqReturnsLeads
  <1>7. CASE EqRaises
    <2>1. calls # <<>>
      BY <1>7 DEF EqRaises
    <2> QED
      BY <1>1, <1>2, <1>7, <2>1, EqRaisesLeads
  <1>8. CASE PopItem
    BY <1>8, PopItemLeads
  <1>9. CASE Clear
    BY <1>9, ClearLeads
  <1> QED
    BY <1>3, <1>4, <1>5, <1>6, <1>7, <1>8, <1>9 DEF Next

\* The same, for the invariant as a predicate of the next state.
LEMMA LeadsInv ==
    ASSUME NEW s, Leads(s)
    PROVE  DictInv' /\ Moves(s, Listed')
  <1>1. PICK b, k : Holds(arrays', numItems', firstEmpty', calls', b, k) /\ Moves(s, LiveOf(b))
    BY DEF Leads
  <1>2. DictInv'
    BY <1>1 DEF Leads, DictInv
  <1>3. Listed' = LiveOf(b)
    <2>1. /\ arrays' = <<b>> /\ Intact(b, k, firstEmpty', numItems')
      BY <1>1 DEF Holds
    <2>2. Last(State'.arrays) = b /\ State'.firstEmpty = firstEmpty' /\ arrays' # <<>>
      BY <2>1, SingleOf DEF State
    <2>3. Lists(LiveItems(State'), b, numItems')
      BY <2>1, <2>2, LiveItemsOf
    <2>4. LiveItems(State') = LiveOf(b)
      BY <2>3 DEF Lists
    <2>5. Listed' = LiveItems(State')
      BY <2>2 DEF Listed
    <2> QED
      BY <2>4, <2>5
  <1> QED
    BY <1>1, <1>2, <1>3

\* A new dict.
LEMMA InitInv ==
    ASSUME Init
    PROVE  DictInv
  <1>1. <<>> \in Seq(Call) /\ Len(<<>>) = 0 /\ MaxCalls \in Nat
    BY DictAssumption
  <1> QED
    BY <1>1 DEF Init, DictInv, Bounded

\* A step keeps the invariant, and moves the list as OrderedDict allows.
LEMMA StepInv ==
    ASSUME DictInv, Lookups, [Next]_vars
    PROVE  DictInv' /\ Moves(Listed, Listed')
  <1>1. CASE Next
    BY <1>1, NextLeads, LeadsInv
  <1>2. CASE UNCHANGED vars
    <2>1. DictInv'
      BY <1>2 DEF DictInv, Holds, vars
    <2>2. Listed' = Listed
      BY <1>2 DEF Listed, vars, State
    <2> QED
      BY <2>1, <2>2 DEF Moves
  <1> QED
    BY <1>1, <1>2

-----------------------------------------------------------------------------
(***************************************************************************)
(* The theorems.                                                           *)
(***************************************************************************)

\* The numbers of indices and of items, and the order of a probe.
LEMMA FindsOf ==
    ASSUME NEW a, NEW n, NEW first, NEW num, Intact(a, n, first, num)
    PROVE  IndicesFindItems(a)
  <1> DEFINE full == FullItems(a)
             filled == {p \in DOMAIN a.indices : a.indices[p] > 0}
             f == [p \in filled |-> a.indices[p]]
  <1>1. /\ Fields(a, n) /\ Size(n) /\ Linked(a, n) /\ Distinct(a)
    BY DEF Intact, Fields
  <1>2. /\ n \in Nat /\ n >= 2 /\ DOMAIN a.indices = 0..(n - 1) /\ numIndices(a) = n
        /\ IsFiniteSet(full) /\ \A i \in full : i \in 1..capacity(n) /\ a.items[i].key \in Key
    BY <1>1, FieldsOf
  <1>3. /\ \A p \in filled : p \in 0..(n - 1) /\ a.indices[p] > 0 /\ a.indices[p] \in full
        /\ \A p, q \in filled : a.indices[p] = a.indices[q] => p = q
    BY <1>1, <1>2 DEF Linked
  <1>4. ASSUME NEW i \in full
        PROVE  LET p == Probe(Hash[a.items[i].key], n)
               IN  \E s \in 1..Steps(n) : /\ a.indices[p[s]] = i /\ p[s] \in filled
                                   /\ \A t \in 1..s : a.indices[p[t]] # Empty
    <2> DEFINE p == Probe(Hash[a.items[i].key], n)
    <2>1. a.items[i].key \in Key /\ i > 0 /\ Reached(a, n, i)
      BY <1>1, <1>2 DEF Linked
    <2>2. \A u \in 1..Steps(n) : p[u] \in 0..(n - 1)
      <3>1. p \in [1..Steps(n) -> 0..(n - 1)]
        BY <1>1, <2>1, ProbeOf
      <3> HIDE DEF p
      <3> QED
        BY <3>1
    <2>3. PICK s \in 1..Steps(n) : a.indices[p[s]] = i /\ \A t \in 1..s : a.indices[p[t]] # Empty
      BY <2>1 DEF Reached
    <2> HIDE DEF p
    <2>4. p[s] \in filled
      BY <1>2, <2>1, <2>2, <2>3
    <2> QED
      BY <2>3, <2>4 DEF p
  <1>5. {a.indices[p] : p \in filled} = full
    <2>1. ASSUME NEW i \in full PROVE \E p \in filled : a.indices[p] = i
      BY <1>4
    <2> HIDE DEF full, filled
    <2> QED
      BY <1>3, <2>1
  <1>6. Cardinality(filled) = Cardinality(full)
    <2>1. \A i \in full : \E p \in filled : f[p] = i
      <3>1. ASSUME NEW i \in full PROVE \E p \in filled : a.indices[p] = i
        BY <1>4
      <3> QED
        BY <3>1
    <2>2. f \in [filled -> full] /\ \A p, q \in filled : f[p] = f[q] => p = q
      <3> HIDE DEF full, filled
      <3> QED
        BY <1>3
    <2>3. IsFiniteSet(filled)
      <3>1. filled \in SUBSET (0..(n - 1))
        BY <1>2
      <3>2. IsFiniteSet(0..(n - 1))
        BY <1>2, Numbers
      <3> HIDE DEF filled
      <3> QED
        BY <3>1, <3>2, FS_Subset
    <2> HIDE DEF full, filled, f
    <2>4. ExistsBijection(filled, full)
      <3>1. f \in Injection(filled, full)
        BY <2>2, Fun_IsInj
      <3>2. f \in Surjection(filled, full)
        BY <2>1, <2>2, Fun_IsSurj
      <3> QED
        BY <3>1, <3>2 DEF Bijection, ExistsBijection
    <2> QED
      BY <2>3, <2>4, FS_Bijection
  <1>7. ASSUME NEW i \in full
        PROVE  LET probe == Probe(Hash[a.items[i].key], n)
                   at == SelectInSeq(probe, LAMBDA p : a.indices[p] = i)
               IN  \A s \in 1..at : a.indices[probe[s]] # Empty
    <2> DEFINE p == Probe(Hash[a.items[i].key], n)
               I == {s \in 1..Len(p) : a.indices[p[s]] = i}
               at == SelectInSeq(p, LAMBDA q : a.indices[q] = i)
    <2>1. Len(p) = Steps(n)
      BY <1>1, <1>2, ProbeOf
    <2>2. PICK s \in 1..Steps(n) : a.indices[p[s]] = i /\ \A t \in 1..s : a.indices[p[t]] # Empty
      BY <1>4
    <2> HIDE DEF p
    <2>3. I \in SUBSET Nat /\ s \in I
      BY <2>1, <2>2
    <2>4. at = Min(I)
      BY <2>3 DEF SelectInSeq
    <2> HIDE DEF I, at
    <2>5. at \in Nat /\ at <= s
      BY <2>3, <2>4, LeastOf
    <2>6. \A t \in 1..at : t \in 1..s
      BY <1>2, <2>5
    <2> QED
      BY <2>2, <2>6 DEF p, at
  <1>8. \A i, j \in full : Class[a.items[i].key] = Class[a.items[j].key] => i = j
    BY <1>1 DEF Distinct
  <1> QED
    BY <1>2, <1>5, <1>6, <1>7, <1>8 DEF IndicesFindItems, FullItems

\* The invariant implies the property.
LEMMA InvWellFormed ==
    ASSUME DictInv
    PROVE  WellFormed
  <1>1. ~stopped /\ Len(calls) <= MaxCalls
    BY DEF DictInv, Bounded
  <1>2. CASE arrays = <<>>
    BY <1>1, <1>2 DEF WellFormed, EntriesCounted
  <1>3. CASE arrays # <<>>
    <2>1. PICK a, n : Holds(arrays, numItems, firstEmpty, calls, a, n)
      BY <1>3 DEF DictInv
    <2>2. /\ arrays = <<a>> /\ Intact(a, n, firstEmpty, numItems) /\ LiveItems(State) = LiveOf(a)
          /\ firstEmpty <= capacity(n)
      BY <2>1, StateHas DEF Holds
    <2>3. Last(arrays) = a
      BY <2>2, SingleOf
    <2>4. EntriesCounted
      <3>1. Lists(LiveOf(a), a, numItems)
        BY <2>2, LiveOfIs
      <3> QED
        BY <2>2, <3>1 DEF Lists, EntriesCounted
    <2>5. /\ Fields(a, n) /\ firstEmpty \in 1..(capacity(n) + 1)
          /\ \A i \in 1..capacity(n) : a.items[i] = Unused <=> i >= firstEmpty
      BY <2>2 DEF Intact
    <2>6. /\ DOMAIN a.items = 1..capacity(n) /\ DOMAIN a.indices = 0..(n - 1)
          /\ Len(a.items) = capacity(n) /\ capacity(n) \in Nat
      BY <2>5, FieldsOf
    <2>7. firstEmpty \in 1..Len(a.items)
      BY <2>2, <2>5, <2>6
    <2>8. \E p \in DOMAIN a.indices : a.indices[p] = Empty
      BY <2>2, <2>6, EmptyIndex
    <2>9. IndicesFindItems(a)
      BY <2>2, FindsOf
    <2> QED
      BY <1>1, <2>3, <2>4, <2>5, <2>6, <2>7, <2>8, <2>9 DEF WellFormed
  <1> QED
    BY <1>2, <1>3

\* The structure of the dict holds through every insertion, removal, growth,
\* popitem and clear, for any keys, hashes and classes, and while the __eq__ of
\* any number of nested lookups runs: no probe runs without end.
THEOREM DictWellFormed ==
    ASSUME Lookups
    PROVE  Spec => []WellFormed
  <1>1. Init => DictInv
    BY InitInv
  <1>2. DictInv /\ [Next]_vars => DictInv'
    BY StepInv
  <1>3. DictInv => WellFormed
    BY InvWellFormed
  <1> QED
    BY <1>1, <1>2, <1>3, PTL DEF Spec

\* The dict implements the map that remembers the order of insertion: each step
\* of the program is one of the map's, or changes no item.
THEOREM DictImplementsOrderedDict ==
    ASSUME Lookups
    PROVE  Spec => ImplementsOrderedDict
  <1>1. Init => DictInv
    BY InitInv
  <1>2. DictInv /\ [Next]_vars => DictInv'
    BY StepInv
  <1>3. Init => Promised!Init
    BY DEF Init, Promised!Init
  <1>4. DictInv /\ [Next]_vars => [Promised!Next]_(IF arrays = <<>> THEN <<>> ELSE LiveItems(State))
    <2> SUFFICES ASSUME DictInv, [Next]_vars
                 PROVE  [Promised!Next]_Listed
      BY DEF Listed
    <2>1. Moves(Listed, Listed')
      BY StepInv
    <2>2. ASSUME NEW k \in Key, NEW v \in Value, Puts(Listed, Listed', k, v) PROVE Promised!AtPut(k, v)
      BY <2>2, Zenon DEF Puts, Find, Listed, Promised!AtPut, Promised!Find, SelectInSeq, Promised!SelectInSeq, Min, Promised!Min
    <2>3. ASSUME NEW k \in Key, Deletes(Listed, Listed', k) PROVE Promised!Delete(k)
      BY <2>3, Zenon DEF Deletes, Find, Listed, Promised!Delete, Promised!Find, SelectInSeq, Promised!SelectInSeq,
                     Min, Promised!Min, RemoveAt, Promised!RemoveAt
    <2>4. ASSUME Pops(Listed, Listed') PROVE Promised!PopItem
      BY <2>4, Zenon DEF Pops, Listed, Promised!PopItem, Front, Promised!Front
    <2>5. ASSUME Listed' = <<>> PROVE Promised!Clear
      BY <2>5, Zenon DEF Listed, Promised!Clear
    <2> QED
      BY <2>1, <2>2, <2>3, <2>4, <2>5 DEF Moves, Promised!Next
  <1> QED
    BY <1>1, <1>2, <1>3, <1>4, PTL DEF Spec, ImplementsOrderedDict, Promised!Spec

=============================================================================
