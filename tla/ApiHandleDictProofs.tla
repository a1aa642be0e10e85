------------------------ MODULE ApiHandleDictProofs ------------------------
(***************************************************************************)
(* Lemmas about ApiHandleDict, for every set of addresses and every hash:  *)
(* a probe visits every index; an entry is found where it was inserted     *)
(* until it is removed, through insertions of others, removals, rehashing  *)
(* and growth; and the map that at() implements changes as it should.      *)
(***************************************************************************)
EXTENDS ApiHandleDict, FiniteSetTheorems, FunctionTheorems, NaturalsInduction,
        WellFoundedInduction, TLAPS

(***************************************************************************)
(* Induction and recursion on numbers, for sets of them.                   *)
(***************************************************************************)

LEMMA SetInduction ==
    ASSUME NEW S \in SUBSET Nat, 0 \in S, \A n \in S : n + 1 \in S
    PROVE  S = Nat
  <1> DEFINE T == Nat \ S
             R == {ss \in Nat \X Nat : ss[1] < ss[2]}
  <1>1. R = OpToRel(<, Nat)
    BY DEF OpToRel
  <1>2. IsWellFoundedOn(R, Nat)
    BY <1>1, NatLessThanWellFounded
  <1>3. SUFFICES ASSUME T # {} PROVE FALSE
    OBVIOUS
  <1> HIDE DEF R, T
  <1>4. T \subseteq Nat
    BY DEF T
  <1>5. PICK x \in T : \A y \in T : ~ (<<y, x>> \in R)
    BY <1>2, <1>3, <1>4, WFMin
  <1>6. x \in Nat /\ x # 0 /\ x - 1 \in Nat /\ x = (x - 1) + 1
    BY <1>4 DEF T
  <1>7. x - 1 \notin S
    BY <1>6 DEF T
  <1>8. x - 1 \in T /\ <<x - 1, x>> \in R
    BY <1>6, <1>7 DEF T, R
  <1> QED
    BY <1>5, <1>8

LEMMA LeastNumber ==
    ASSUME NEW S \in SUBSET Nat, S # {}
    PROVE  \E x \in S : \A y \in S : x <= y
  <1> DEFINE R == {ss \in Nat \X Nat : ss[1] < ss[2]}
  <1>1. R = OpToRel(<, Nat)
    BY DEF OpToRel
  <1>2. IsWellFoundedOn(R, Nat)
    BY <1>1, NatLessThanWellFounded
  <1> HIDE DEF R
  <1>3. PICK x \in S : \A y \in S : ~ (<<y, x>> \in R)
    BY <1>2, WFMin
  <1>4. \A y \in S : ~ (y < x)
    BY <1>3 DEF R
  <1> QED
    BY <1>4

\* A loop that runs m times has a sequence of states.
HasRun(m, X, x0, step) ==
    \E f \in [0..m -> X] : f = [i \in 0..m |-> IF i = 0 THEN x0 ELSE step[<<i, f[i - 1]>>]]

LEMMA FiniteRecursion ==
    ASSUME NEW m \in Nat, NEW X, NEW x0 \in X, NEW step \in [(0..m) \X X -> X]
    PROVE  HasRun(m, X, x0, step)
  <1> DEFINE Runs(k) == \E f \in [0..m -> X] :
                           f[0] = x0 /\ \A i \in 1..m : i <= k => f[i] = step[<<i, f[i - 1]>>]
             S == {k \in Nat : Runs(k)}
  <1>1. 0 \in S
    <2> DEFINE f == [i \in 0..m |-> x0]
    <2>1. f \in [0..m -> X] /\ f[0] = x0 /\ \A i \in 1..m : i <= 0 => f[i] = step[<<i, f[i - 1]>>]
      OBVIOUS
    <2> QED
      BY <2>1
  <1>2. ASSUME NEW k \in S PROVE k + 1 \in S
    <2>1. k \in Nat
      OBVIOUS
    <2>2. PICK f \in [0..m -> X] :
             f[0] = x0 /\ \A i \in 1..m : i <= k => f[i] = step[<<i, f[i - 1]>>]
      OBVIOUS
    <2> DEFINE g == [i \in 0..m |-> IF i = k + 1 THEN step[<<i, f[i - 1]>>] ELSE f[i]]
    <2>3. ASSUME NEW i \in 0..m PROVE g[i] \in X
      <3>1. CASE i = k + 1
        <4>1. i - 1 \in 0..m
          BY <2>1, <3>1
        <4> QED
          BY <3>1, <4>1
      <3> QED
        BY <3>1
    <2>4. g \in [0..m -> X]
      BY <2>3
    <2>5. g[0] = x0
      BY <2>1, <2>2
    <2>6. ASSUME NEW i \in 1..m, i <= k + 1 PROVE g[i] = step[<<i, g[i - 1]>>]
      <3>1. i - 1 \in 0..m /\ i - 1 # k + 1 /\ i \in 0..m
        BY <2>1, <2>6
      <3>2. g[i - 1] = f[i - 1]
        BY <3>1
      <3>3. CASE i = k + 1
        BY <3>1, <3>2, <3>3
      <3>4. CASE i # k + 1
        <4>1. g[i] = f[i] /\ i <= k
          BY <2>1, <2>6, <3>1, <3>4
        <4> QED
          BY <2>2, <3>2, <4>1
      <3> QED
        BY <3>3, <3>4
    <2>7. Runs(k + 1)
      BY <2>4, <2>5, <2>6
    <2> QED
      BY <2>1, <2>7
  <1> HIDE DEF Runs
  <1>3. S = Nat
    <2> HIDE DEF S
    <2>1. S \in SUBSET Nat
      BY DEF S
    <2> QED
      BY <1>1, <1>2, <2>1, SetInduction
  <1>4. Runs(m)
    BY <1>3
  <1>5. PICK f \in [0..m -> X] :
           f[0] = x0 /\ \A i \in 1..m : i <= m => f[i] = step[<<i, f[i - 1]>>]
    BY <1>4 DEF Runs
  <1>6. ASSUME NEW i \in 0..m PROVE f[i] = IF i = 0 THEN x0 ELSE step[<<i, f[i - 1]>>]
    BY <1>5
  <1>7. f = [i \in 0..m |-> IF i = 0 THEN x0 ELSE step[<<i, f[i - 1]>>]]
    BY <1>6
  <1> QED
    BY <1>7 DEF HasRun

-----------------------------------------------------------------------------
(***************************************************************************)
(* A probe visits every index: probeNext() is a linear congruential        *)
(* generator whose period is the number of indices.                        *)
(***************************************************************************)

Sizes == {2, 4, 8, 16, 32, 64, 128}

\* A sequence of the largest number of indices, without a perturbation.
Generated(q) ==
    /\ q \in [0..127 -> 0..127]
    /\ \A i \in 0..126 : q[i + 1] = (q[i] * 5 + 1) % 128

\* m steps of it multiply by a and add b.
Jump(q, m, a, b) == \A i \in 0..127 : i + m <= 127 => q[i + m] = (a * q[i] + b) % 128

\* The first n members have all remainders.
Covers(q, n) == \A r \in 0..(n - 1) : \E i \in 0..(n - 1) : q[i] % n = r

\* What two such jumps do, and what one does to the remainder by 2n.
Composes(a, b, c, d) ==
    \A x \in 0..127 : (a * ((a * x + b) % 128) + b) % 128 = (c * x + d) % 128
Shifts(a, b, n, twice) == \A x \in 0..127 : ((a * x + b) % 128) % twice = (x + n) % twice
Splits(n, twice) ==
    \A x \in 0..127, r \in 0..(twice - 1) :
        x % n = r % n => x % twice = r \/ (x + n) % twice = r

LEMMA JumpTwice ==
    ASSUME NEW q, Generated(q), NEW m \in 1..64, NEW a \in Nat, NEW b \in Nat, NEW c \in Nat,
           NEW d \in Nat, Jump(q, m, a, b), Composes(a, b, c, d),
           NEW twice \in Nat, twice = m + m
    PROVE  Jump(q, twice, c, d)
  <1> SUFFICES ASSUME NEW i \in 0..127, i + twice <= 127
               PROVE  q[i + twice] = (c * q[i] + d) % 128
    BY DEF Jump
  <1>1. i + m \in 0..127 /\ (i + m) + m = i + twice /\ (i + m) + m <= 127 /\ i + m <= 127
    OBVIOUS
  <1>2. q[i + m] = (a * q[i] + b) % 128
    BY <1>1 DEF Jump
  <1>3. q[(i + m) + m] = (a * q[i + m] + b) % 128
    BY <1>1 DEF Jump
  <1>4. q[i] \in 0..127
    BY DEF Generated
  <1> QED
    BY <1>1, <1>2, <1>3, <1>4 DEF Composes

LEMMA Jumps ==
    ASSUME NEW q, Generated(q)
    PROVE  /\ Jump(q, 1, 5, 1) /\ Jump(q, 2, 25, 6) /\ Jump(q, 4, 113, 28)
           /\ Jump(q, 8, 97, 120) /\ Jump(q, 16, 65, 112) /\ Jump(q, 32, 1, 96)
           /\ Jump(q, 64, 1, 64)
  <1>1. Jump(q, 1, 5, 1)
    <2> SUFFICES ASSUME NEW i \in 0..127, i + 1 <= 127 PROVE q[i + 1] = (5 * q[i] + 1) % 128
      BY DEF Jump
    <2>1. i \in 0..126
      OBVIOUS
    <2>2. q[i] \in 0..127
      BY DEF Generated
    <2>3. q[i + 1] = (q[i] * 5 + 1) % 128
      BY <2>1 DEF Generated
    <2> QED
      BY <2>2, <2>3
  <1>2. Jump(q, 2, 25, 6)
    <2>1. Composes(5, 1, 25, 6)
      BY DEF Composes
    <2>2. 1 \in 1..64 /\ 2 = 1 + 1
      OBVIOUS
    <2> QED
      BY <1>1, <2>1, <2>2, JumpTwice
  <1>3. Jump(q, 4, 113, 28)
    <2>1. Composes(25, 6, 113, 28)
      BY DEF Composes
    <2>2. 2 \in 1..64 /\ 4 = 2 + 2
      OBVIOUS
    <2> QED
      BY <1>2, <2>1, <2>2, JumpTwice
  <1>4. Jump(q, 8, 97, 120)
    <2>1. Composes(113, 28, 97, 120)
      BY DEF Composes
    <2>2. 4 \in 1..64 /\ 8 = 4 + 4
      OBVIOUS
    <2> QED
      BY <1>3, <2>1, <2>2, JumpTwice
  <1>5. Jump(q, 16, 65, 112)
    <2>1. Composes(97, 120, 65, 112)
      BY DEF Composes
    <2>2. 8 \in 1..64 /\ 16 = 8 + 8
      OBVIOUS
    <2> QED
      BY <1>4, <2>1, <2>2, JumpTwice
  <1>6. Jump(q, 32, 1, 96)
    <2>1. Composes(65, 112, 1, 96)
      BY DEF Composes
    <2>2. 16 \in 1..64 /\ 32 = 16 + 16
      OBVIOUS
    <2> QED
      BY <1>5, <2>1, <2>2, JumpTwice
  <1>7. Jump(q, 64, 1, 64)
    <2>1. Composes(1, 96, 1, 64)
      BY DEF Composes
    <2>2. 32 \in 1..64 /\ 64 = 32 + 32
      OBVIOUS
    <2> QED
      BY <1>6, <2>1, <2>2, JumpTwice
  <1> QED
    BY <1>1, <1>2, <1>3, <1>4, <1>5, <1>6, <1>7

\* n steps change the remainder by 2n by n.
LEMMA CoversTwice ==
    ASSUME NEW q, Generated(q), NEW n \in 1..64, Covers(q, n), NEW twice \in Nat, twice = n + n,
           NEW a \in Nat, NEW b \in Nat, Jump(q, n, a, b), Shifts(a, b, n, twice),
           Splits(n, twice)
    PROVE  Covers(q, twice)
  <1> SUFFICES ASSUME NEW r \in 0..(twice - 1)
               PROVE  \E i \in 0..(twice - 1) : q[i] % twice = r
    BY DEF Covers
  <1>1. r % n \in 0..(n - 1)
    <2>1. r \in Nat /\ n \in Nat /\ n > 0
      OBVIOUS
    <2> QED
      BY <2>1
  <1>2. PICK i \in 0..(n - 1) : q[i] % n = r % n
    BY <1>1 DEF Covers
  <1>3. /\ i \in 0..127 /\ i + n <= 127
        /\ i \in 0..(twice - 1) /\ i + n \in 0..(twice - 1)
    <2>1. i \in Int /\ 0 <= i /\ i <= n - 1 /\ n \in Int /\ n <= 64 /\ n >= 1
      OBVIOUS
    <2> QED
      BY <2>1
  <1>4. q[i] \in 0..127
    BY <1>3 DEF Generated
  <1>5. q[i + n] = (a * q[i] + b) % 128
    BY <1>3 DEF Jump
  <1>6. q[i + n] % twice = (q[i] + n) % twice
    BY <1>4, <1>5 DEF Shifts
  <1>7. q[i] % twice = r \/ (q[i] + n) % twice = r
    BY <1>2, <1>4 DEF Splits
  <1> QED
    BY <1>3, <1>6, <1>7

LEMMA CoversAll ==
    ASSUME NEW q, Generated(q), NEW n \in Sizes
    PROVE  Covers(q, n)
  <1>1. Covers(q, 1)
    <2>1. 0 \in 0..(1 - 1) /\ \A r \in 0..(1 - 1) : r = 0
      OBVIOUS
    <2>2. q \in [0..127 -> 0..127]
      BY DEF Generated
    <2>3. q[0] \in 0..127
      <3>1. 0 \in 0..127
        OBVIOUS
      <3> QED
        BY <2>2, <3>1
    <2>4. q[0] % 1 = 0
      BY <2>3
    <2> QED
      BY <2>1, <2>4 DEF Covers
  <1>2. Covers(q, 2)
    <2>1. Shifts(5, 1, 1, 2)
      BY DEF Shifts
    <2>2. Splits(1, 2)
      BY DEF Splits
    <2>3. 1 \in 1..64 /\ 2 = 1 + 1
      OBVIOUS
    <2>4. Jump(q, 1, 5, 1)
      BY Jumps
    <2> QED
      BY <1>1, <2>1, <2>2, <2>3, <2>4, CoversTwice
  <1>3. Covers(q, 4)
    <2>1. Shifts(25, 6, 2, 4)
      BY DEF Shifts
    <2>2. Splits(2, 4)
      BY DEF Splits
    <2>3. 2 \in 1..64 /\ 4 = 2 + 2
      OBVIOUS
    <2>4. Jump(q, 2, 25, 6)
      BY Jumps
    <2> QED
      BY <1>2, <2>1, <2>2, <2>3, <2>4, CoversTwice
  <1>4. Covers(q, 8)
    <2>1. Shifts(113, 28, 4, 8)
      BY DEF Shifts
    <2>2. Splits(4, 8)
      BY DEF Splits
    <2>3. 4 \in 1..64 /\ 8 = 4 + 4
      OBVIOUS
    <2>4. Jump(q, 4, 113, 28)
      BY Jumps
    <2> QED
      BY <1>3, <2>1, <2>2, <2>3, <2>4, CoversTwice
  <1>5. Covers(q, 16)
    <2>1. Shifts(97, 120, 8, 16)
      BY DEF Shifts
    <2>2. Splits(8, 16)
      BY DEF Splits
    <2>3. 8 \in 1..64 /\ 16 = 8 + 8
      OBVIOUS
    <2>4. Jump(q, 8, 97, 120)
      BY Jumps
    <2> QED
      BY <1>4, <2>1, <2>2, <2>3, <2>4, CoversTwice
  <1>6. Covers(q, 32)
    <2>1. Shifts(65, 112, 16, 32)
      BY DEF Shifts
    <2>2. Splits(16, 32)
      BY DEF Splits
    <2>3. 16 \in 1..64 /\ 32 = 16 + 16
      OBVIOUS
    <2>4. Jump(q, 16, 65, 112)
      BY Jumps
    <2> QED
      BY <1>5, <2>1, <2>2, <2>3, <2>4, CoversTwice
  <1>7. Covers(q, 64)
    <2>1. Shifts(1, 96, 32, 64)
      BY DEF Shifts
    <2>2. Splits(32, 64)
      BY DEF Splits
    <2>3. 32 \in 1..64 /\ 64 = 32 + 32
      OBVIOUS
    <2>4. Jump(q, 32, 1, 96)
      BY Jumps
    <2> QED
      BY <1>6, <2>1, <2>2, <2>3, <2>4, CoversTwice
  <1>8. Covers(q, 128)
    <2>1. Shifts(1, 64, 64, 128)
      BY DEF Shifts
    <2>2. Splits(64, 128)
      BY DEF Splits
    <2>3. 64 \in 1..64 /\ 128 = 64 + 64
      OBVIOUS
    <2>4. Jump(q, 64, 1, 64)
      BY Jumps
    <2> QED
      BY <1>7, <2>1, <2>2, <2>3, <2>4, CoversTwice
  <1> QED
    BY <1>2, <1>3, <1>4, <1>5, <1>6, <1>7, <1>8 DEF Sizes

LEMMA StepRemainder ==
    ASSUME NEW n \in Nat, n >= 2, NEW x \in 0..(n - 1), NEW y \in Nat
    PROVE  (x * 5 + 1 + y) % n \in 0..(n - 1)
  <1>1. x * 5 + 1 + y \in Nat
    OBVIOUS
  <1> QED
    BY <1>1

\* The function that a probe computes.
LEMMA ProbeIs ==
    ASSUME NEW h \in 0..MaxHash, NEW n \in Sizes
    PROVE  /\ probe(h, n) \in [0..(n + 2) -> 0..(n - 1)]
           /\ \A i \in 1..(n + 1) : probe(h, n)[i + 1] = (probe(h, n)[i] * 5 + 1) % n
  <1> DEFINE perturb(i) == IF i = 1 THEN h \div 32 ELSE 0
             m == n + 2
             X == 0..(n - 1)
             x0 == h % n
             step == [z \in (0..m) \X X |-> (z[2] * 5 + 1 + perturb(z[1])) % n]
             Is(p) == p = [i \in 0..(n + 2) |->
                             IF i = 0 THEN h % n ELSE (p[i - 1] * 5 + 1 + perturb(i)) % n]
  <1>1. n \in Nat /\ n >= 2 /\ h \in Nat /\ h \div 32 \in Nat
    BY DEF Sizes, MaxHash
  <1>2. m \in Nat /\ x0 \in X
    BY <1>1
  <1>3. step \in [(0..m) \X X -> X]
    <2>1. ASSUME NEW i \in 0..m, NEW x \in X PROVE (x * 5 + 1 + perturb(i)) % n \in X
      <3>1. perturb(i) \in Nat
        BY <1>1
      <3> HIDE DEF perturb
      <3>2. x * 5 + 1 + perturb(i) \in Nat
        BY <1>1, <3>1
      <3> QED
        BY <1>1, <3>2
    <2> QED
      BY <2>1
  <1>4. PICK f \in [0..m -> X] : f = [i \in 0..m |-> IF i = 0 THEN x0 ELSE step[<<i, f[i - 1]>>]]
    <2> HIDE DEF m, X, x0, step
    <2>1. HasRun(m, X, x0, step)
      BY <1>2, <1>3, FiniteRecursion
    <2> QED
      BY <2>1 DEF HasRun
  <1>5. Is(f)
    <2>1. ASSUME NEW i \in 0..m, i # 0
          PROVE  step[<<i, f[i - 1]>>] = (f[i - 1] * 5 + 1 + perturb(i)) % n
      <3>1. i - 1 \in 0..m
        BY <1>1, <2>1
      <3>2. f[i - 1] \in X
        BY <3>1
      <3> HIDE DEF X, perturb, m
      <3> QED
        BY <3>2
    <2> HIDE DEF step, perturb
    <2> QED
      BY <1>4, <2>1
  <1>6. Is(probe(h, n))
    <2>1. probe(h, n) = CHOOSE p : Is(p)
      BY DEF probe
    <2> HIDE DEF Is
    <2> QED
      BY <1>5, <2>1
  <1> DEFINE p == probe(h, n)
  <1>7. /\ p[0] = h % n /\ DOMAIN p = 0..m
        /\ \A i \in 0..m : i # 0 => p[i] = (p[i - 1] * 5 + 1 + perturb(i)) % n
    <2> HIDE DEF perturb, p
    <2>1. p = [i \in 0..m |-> IF i = 0 THEN h % n ELSE (p[i - 1] * 5 + 1 + perturb(i)) % n]
      BY <1>6 DEF p
    <2>2. 0 \in 0..m
      BY <1>1
    <2> QED
      BY <2>1, <2>2
  <1>8. p \in [0..m -> X]
    <2> DEFINE S == {k \in Nat : k <= m => p[k] \in X}
    <2>1. 0 \in S
      BY <1>2, <1>7
    <2>2. ASSUME NEW k \in S PROVE k + 1 \in S
      <3>1. CASE k + 1 <= m
        <4>1. k + 1 \in 0..m /\ k + 1 # 0 /\ (k + 1) - 1 = k /\ perturb(k + 1) \in Nat
          BY <1>1, <3>1
        <4>2. p[k + 1] = (p[k] * 5 + 1 + perturb(k + 1)) % n
          <5> HIDE DEF p, perturb, m
          <5> QED
            BY <1>7, <4>1
        <4>3. p[k] \in X
          BY <1>1, <3>1
        <4>4. p[k + 1] \in X
          <5>1. p[k] \in 0..(n - 1) /\ perturb(k + 1) \in Nat
            BY <4>1, <4>3
          <5> HIDE DEF p, perturb
          <5> QED
            BY <1>1, <4>2, <5>1, StepRemainder
        <4> HIDE DEF p, X, m
        <4> QED
          BY <4>1, <4>4
      <3>2. CASE ~ (k + 1 <= m)
        BY <3>2
      <3> QED
        BY <3>1, <3>2
    <2>3. S = Nat
      <3>1. S \in SUBSET Nat
        OBVIOUS
      <3> HIDE DEF S
      <3> QED
        BY <2>1, <2>2, <3>1, SetInduction
    <2>4. ASSUME NEW k \in 0..m PROVE p[k] \in X
      BY <2>3
    <2>5. p = [k \in 0..m |-> p[k]]
      <3> HIDE DEF perturb, p
      <3> QED
        BY <1>6 DEF p
    <2> HIDE DEF p, X, m
    <2> QED
      BY <2>4, <2>5
  <1>9. ASSUME NEW i \in 1..(n + 1) PROVE p[i + 1] = (p[i] * 5 + 1) % n
    <2>1. i + 1 \in 0..m /\ i + 1 # 0 /\ (i + 1) - 1 = i /\ perturb(i + 1) = 0
      BY <1>1
    <2>2. p[i + 1] = (p[i] * 5 + 1 + perturb(i + 1)) % n
      <3> HIDE DEF p, perturb, m
      <3> QED
        BY <1>7, <2>1
    <2>3. p[i] \in Int
      <3>1. i \in 0..m
        BY <1>1
      <3> HIDE DEF p
      <3> QED
        BY <1>1, <1>8, <3>1
    <2> HIDE DEF p, perturb
    <2> QED
      BY <2>1, <2>2, <2>3
  <1> QED
    BY <1>8, <1>9

\* From its second index on, a probe is the remainders of a generated sequence.
LEMMA ProbeVisits ==
    ASSUME NEW h \in 0..MaxHash, NEW n \in Sizes, NEW r \in 0..(n - 1)
    PROVE  \E i \in 0..(n + 2) : probe(h, n)[i] = r
  <1> DEFINE p == probe(h, n)
             X == 0..127
             step == [z \in (0..127) \X X |-> (z[2] * 5 + 1) % 128]
  <1>1. /\ p \in [0..(n + 2) -> 0..(n - 1)]
        /\ \A i \in 1..(n + 1) : p[i + 1] = (p[i] * 5 + 1) % n
    BY ProbeIs
  <1> HIDE DEF p
  <1>2. n \in Nat /\ n >= 2 /\ n <= 128
    BY DEF Sizes
  <1>3. 1 \in 0..(n + 2) /\ p[1] \in 0..(n - 1)
    BY <1>1, <1>2
  <1>4. p[1] \in X
    BY <1>2, <1>3
  <1>5. step \in [(0..127) \X X -> X]
    <2>1. ASSUME NEW x \in X PROVE (x * 5 + 1) % 128 \in X
      OBVIOUS
    <2> QED
      BY <2>1
  <1>6. HasRun(127, X, p[1], step)
    <2> HIDE DEF X, step
    <2>1. 127 \in Nat
      OBVIOUS
    <2> QED
      BY <1>4, <1>5, <2>1, FiniteRecursion
  <1>7. PICK q \in [0..127 -> X] :
           q = [i \in 0..127 |-> IF i = 0 THEN p[1] ELSE step[<<i, q[i - 1]>>]]
    BY <1>6 DEF HasRun
  <1>8. q[0] = p[1]
    <2>1. 0 \in 0..127
      OBVIOUS
    <2> HIDE DEF step, X
    <2> QED
      BY <1>7, <2>1
  <1>9. ASSUME NEW i \in 0..126 PROVE q[i + 1] = (q[i] * 5 + 1) % 128
    <2>1. i + 1 \in 0..127 /\ i + 1 # 0 /\ (i + 1) - 1 = i /\ i \in 0..127
      OBVIOUS
    <2>2. q[i] \in X
      BY <1>7, <2>1
    <2>3. q[i + 1] = step[<<i + 1, q[i]>>]
      <3> HIDE DEF step, X
      <3> QED
        BY <1>7, <2>1
    <2>4. step[<<i + 1, q[i]>>] = (q[i] * 5 + 1) % 128
      <3> HIDE DEF X
      <3> QED
        BY <2>1, <2>2
    <2> QED
      BY <2>3, <2>4
  <1>10. Generated(q)
    BY <1>7, <1>9 DEF Generated
  <1>11. ASSUME NEW x \in 0..127 PROVE ((x * 5 + 1) % 128) % n = ((x % n) * 5 + 1) % n
    <2>1. CASE n = 2
      BY <2>1
    <2>2. CASE n = 4
      BY <2>2
    <2>3. CASE n = 8
      BY <2>3
    <2>4. CASE n = 16
      BY <2>4
    <2>5. CASE n = 32
      BY <2>5
    <2>6. CASE n = 64
      BY <2>6
    <2>7. CASE n = 128
      BY <2>7
    <2> QED
      BY <2>1, <2>2, <2>3, <2>4, <2>5, <2>6, <2>7 DEF Sizes
  <1> DEFINE S == {k \in Nat : k <= n - 1 => p[k + 1] = q[k] % n}
  <1>12. 0 \in S
    <2>1. p[1] % n = p[1]
      BY <1>2, <1>3
    <2> QED
      BY <1>8, <2>1
  <1>13. ASSUME NEW k \in S PROVE k + 1 \in S
    <2>1. SUFFICES ASSUME k + 1 <= n - 1 PROVE p[(k + 1) + 1] = q[k + 1] % n
      OBVIOUS
    <2>2. k \in Nat /\ k <= n - 1 /\ k \in 0..126 /\ k \in 0..127 /\ k + 1 \in 1..(n + 1)
      BY <1>2, <2>1
    <2>3. p[k + 1] = q[k] % n
      BY <2>2
    <2>4. p[(k + 1) + 1] = (p[k + 1] * 5 + 1) % n
      BY <1>1, <2>2
    <2>5. q[k + 1] = (q[k] * 5 + 1) % 128 /\ q[k] \in 0..127
      BY <1>7, <1>9, <2>2
    <2>6. ((q[k] * 5 + 1) % 128) % n = ((q[k] % n) * 5 + 1) % n
      BY <1>11, <2>5
    <2> QED
      BY <2>3, <2>4, <2>5, <2>6
  <1>14. S = Nat
    <2>1. S \in SUBSET Nat
      OBVIOUS
    <2> HIDE DEF S
    <2> QED
      BY <1>12, <1>13, <2>1, SetInduction
  <1>15. PICK i \in 0..(n - 1) : q[i] % n = r
    BY <1>10, CoversAll DEF Covers
  <1>16. p[i + 1] = r
    <2>1. i \in Nat /\ i <= n - 1
      BY <1>2
    <2>2. i \in S
      <3> HIDE DEF S
      <3> QED
        BY <1>14, <2>1
    <2> QED
      BY <1>15, <2>1, <2>2
  <1>17. i + 1 \in 0..(n + 2)
    BY <1>2
  <1> QED
    BY <1>16, <1>17 DEF p

-----------------------------------------------------------------------------
(***************************************************************************)
(* The first index of a set that a probe meets: it is in the set, and      *)
(* stays the first when the set loses others.                              *)
(***************************************************************************)

LEMMA FirstOf ==
    ASSUME NEW n \in Sizes, NEW k \in Key, NEW S \in SUBSET (0..(n - 1)), S # {}
    PROVE  /\ firstOf(S, k, n) \in S
           /\ \A T \in SUBSET S : firstOf(S, k, n) \in T => firstOf(T, k, n) = firstOf(S, k, n)
  <1> DEFINE p == probes[n][k]
             First(T, i) == p[i] \in T /\ \A j \in 0..(i - 1) : p[j] \notin T
             place(T) == CHOOSE i \in DOMAIN p : First(T, i)
             Hits == {i \in 0..(n + 2) : p[i] \in S}
  <1>1. Hash[k] \in 0..MaxHash
    BY DictAssumption
  <1>2. p = probe(Hash[k], n)
    BY DEF probes, Sizes
  <1>3. p \in [0..(n + 2) -> 0..(n - 1)]
    <2> HIDE DEF p
    <2> QED
      BY <1>1, <1>2, ProbeIs
  <1>4. n \in Nat
    BY DEF Sizes
  <1>5. \A T : firstOf(T, k, n) = p[place(T)]
    BY DEF firstOf
  <1> HIDE DEF p
  <1>6. PICK i \in Hits : \A j \in Hits : i <= j
    <2>1. PICK s \in S : TRUE
      OBVIOUS
    <2>2. \E j \in 0..(n + 2) : p[j] = s
      BY <1>1, <1>2, <2>1, ProbeVisits
    <2>3. Hits # {} /\ Hits \in SUBSET Nat
      BY <1>4, <2>2
    <2> QED
      BY <2>3, LeastNumber
  <1>7. i \in 0..(n + 2) /\ First(S, i)
    <2>1. i \in 0..(n + 2) /\ p[i] \in S
      OBVIOUS
    <2>2. ASSUME NEW j \in 0..(i - 1) PROVE p[j] \notin S
      <3>1. j \in 0..(n + 2) /\ ~ (i <= j)
        BY <1>4, <2>1
      <3> QED
        BY <1>6, <3>1
    <2> QED
      BY <2>1, <2>2
  <1>8. ASSUME NEW T, NEW a \in 0..(n + 2), First(T, a) PROVE place(T) = a
    <2>1. DOMAIN p = 0..(n + 2)
      BY <1>3
    <2>2. place(T) \in 0..(n + 2) /\ First(T, place(T))
      <3> HIDE DEF First
      <3> QED
        BY <1>8, <2>1
    <2> HIDE DEF place
    <2>3. ~ (place(T) < a)
      <3>1. SUFFICES ASSUME place(T) < a PROVE FALSE
        OBVIOUS
      <3>2. place(T) \in 0..(a - 1)
        BY <1>4, <2>2, <3>1
      <3> QED
        BY <1>8, <2>2, <3>2
    <2>4. ~ (a < place(T))
      <3>1. SUFFICES ASSUME a < place(T) PROVE FALSE
        OBVIOUS
      <3>2. a \in 0..(place(T) - 1)
        BY <1>4, <2>2, <3>1
      <3> QED
        BY <1>8, <2>2, <3>2
    <2> QED
      BY <1>4, <2>2, <2>3, <2>4
  <1>9. firstOf(S, k, n) = p[i]
    <2>1. place(S) = i
      BY <1>7, <1>8
    <2> QED
      BY <1>5, <2>1
  <1>10. ASSUME NEW T \in SUBSET S, firstOf(S, k, n) \in T
         PROVE  firstOf(T, k, n) = firstOf(S, k, n)
    <2>1. First(T, i)
      BY <1>7, <1>9, <1>10
    <2>2. place(T) = i
      BY <1>7, <1>8, <2>1
    <2> QED
      BY <1>5, <1>9, <2>2
  <1> QED
    BY <1>7, <1>9, <1>10

-----------------------------------------------------------------------------
(***************************************************************************)
(* A dictionary of n indices whose values are in W, and what makes it a    *)
(* map: every used index is where a lookup of its key stops, every key is  *)
(* found where it is, and an index is empty as long as an entry is free.   *)
(***************************************************************************)

Fields(d, n, W) ==
    /\ n \in Sizes
    /\ d \in [indices : [0..(n - 1) -> Int], keys : [0..(maxCapacity(n) - 1) -> Key \cup {NoKey}],
              values : [0..(maxCapacity(n) - 1) -> W], nextIndex : Nat, numItems : Nat]

Stops(d, k) == {i \in DOMAIN d.indices : d.indices[i] = Empty \/ holds(d, i, k)}
Used(d) == {i \in DOMAIN d.indices : d.indices[i] # Empty}

Linked(d) ==
    /\ \A i \in DOMAIN d.indices : d.indices[i] \in -2..(d.nextIndex - 1)
    /\ \A i \in DOMAIN d.indices : d.indices[i] >= 0 =>
          d.keys[d.indices[i]] \in Key /\ stopsAt(d, d.keys[d.indices[i]]) = i
    /\ \A c \in DOMAIN d.keys : d.keys[c] # NoKey =>
          c < d.nextIndex /\ d.indices[stopsAt(d, d.keys[c])] = c

Intact(d, n, W) ==
    /\ Fields(d, n, W) /\ Linked(d)
    /\ Cardinality(Used(d)) <= d.nextIndex /\ d.nextIndex <= maxCapacity(n)

LEMMA Capacities ==
    ASSUME NEW n \in Sizes
    PROVE  /\ n \in Nat /\ n >= 2 /\ maxCapacity(n) \in Nat
           /\ maxCapacity(n) >= 1 /\ maxCapacity(n) < n
           /\ maxCapacity(n) + maxCapacity(n) <= maxCapacity(n * 2)
           /\ n <= 64 => n * 2 \in Sizes
  BY DEF Sizes, maxCapacity

LEMMA FieldsOf ==
    ASSUME NEW d, NEW n, NEW W, Fields(d, n, W)
    PROVE  /\ n \in Sizes
           /\ d.indices \in [0..(n - 1) -> Int]
           /\ d.keys \in [0..(maxCapacity(n) - 1) -> Key \cup {NoKey}]
           /\ d.values \in [0..(maxCapacity(n) - 1) -> W]
           /\ d.nextIndex \in Nat /\ d.numItems \in Nat
           /\ DOMAIN d.indices = 0..(n - 1)
           /\ DOMAIN d.keys = 0..(maxCapacity(n) - 1)
           /\ numIndices(d) = n /\ capacity(d) = maxCapacity(n)
  <1>1. /\ n \in Sizes
        /\ d.indices \in [0..(n - 1) -> Int]
        /\ d.keys \in [0..(maxCapacity(n) - 1) -> Key \cup {NoKey}]
        /\ d.values \in [0..(maxCapacity(n) - 1) -> W]
        /\ d.nextIndex \in Nat /\ d.numItems \in Nat
    BY DEF Fields
  <1>2. DOMAIN d.indices = 0..(n - 1) /\ DOMAIN d.keys = 0..(maxCapacity(n) - 1)
    BY <1>1
  <1>3. n \in Nat /\ n >= 2 /\ maxCapacity(n) \in Nat /\ maxCapacity(n) >= 1
    BY <1>1, Capacities
  <1>4. Cardinality(0..(n - 1)) = n
    <2>1. Cardinality(0..(n - 1)) = IF 0 > n - 1 THEN 0 ELSE (n - 1) - 0 + 1
      BY <1>3, FS_Interval
    <2> QED
      BY <1>3, <2>1
  <1>5. Cardinality(0..(maxCapacity(n) - 1)) = maxCapacity(n)
    <2> DEFINE m == maxCapacity(n)
    <2>1. m \in Nat /\ m >= 1
      BY <1>3
    <2> HIDE DEF m
    <2>2. Cardinality(0..(m - 1)) = IF 0 > m - 1 THEN 0 ELSE (m - 1) - 0 + 1
      BY <2>1, FS_Interval
    <2>3. Cardinality(0..(m - 1)) = m
      BY <2>1, <2>2
    <2> QED
      BY <2>3 DEF m
  <1> QED
    BY <1>1, <1>2, <1>4, <1>5 DEF numIndices, capacity

\* Where a lookup stops.
LEMMA StopsOf ==
    ASSUME NEW d, NEW n, NEW W, Fields(d, n, W), NEW k \in Key, Stops(d, k) # {}
    PROVE  /\ stopsAt(d, k) \in Stops(d, k) /\ stopsAt(d, k) \in 0..(n - 1)
           /\ \A e : Fields(e, n, W) /\ Stops(e, k) \subseteq Stops(d, k) /\ stopsAt(d, k) \in Stops(e, k)
                     => stopsAt(e, k) = stopsAt(d, k)
  <1>1. \A e : Fields(e, n, W) => /\ numIndices(e) = n
                                  /\ DOMAIN e.indices = 0..(n - 1)
                                  /\ stopsAt(e, k) = firstOf(Stops(e, k), k, n)
    <2> TAKE e
    <2> HAVE Fields(e, n, W)
    <2>1. numIndices(e) = n /\ DOMAIN e.indices = 0..(n - 1)
      BY FieldsOf
    <2> QED
      BY <2>1 DEF stopsAt, Stops
  <1>2. n \in Sizes
    BY FieldsOf
  <1>3. Stops(d, k) \in SUBSET (0..(n - 1))
    BY <1>1 DEF Stops
  <1>4. /\ firstOf(Stops(d, k), k, n) \in Stops(d, k)
        /\ \A T \in SUBSET Stops(d, k) : firstOf(Stops(d, k), k, n) \in T
                => firstOf(T, k, n) = firstOf(Stops(d, k), k, n)
    BY <1>2, <1>3, FirstOf
  <1> QED
    BY <1>1, <1>3, <1>4

\* An index is empty when not all entries are used.
LEMMA EmptyIndex ==
    ASSUME NEW d, NEW n, NEW W, Fields(d, n, W), Cardinality(Used(d)) <= maxCapacity(n)
    PROVE  /\ \E i \in 0..(n - 1) : d.indices[i] = Empty
           /\ \A k : Stops(d, k) # {}
  <1>1. n \in Sizes /\ DOMAIN d.indices = 0..(n - 1) /\ numIndices(d) = n
    BY FieldsOf
  <1>2. maxCapacity(n) \in Nat /\ maxCapacity(n) < n /\ n \in Nat
    BY <1>1, Capacities
  <1>3. Used(d) # 0..(n - 1)
    BY <1>1, <1>2 DEF numIndices
  <1>4. PICK i \in 0..(n - 1) : d.indices[i] = Empty
    BY <1>1, <1>3 DEF Used
  <1> QED
    BY <1>1, <1>4 DEF Stops

\* items() are all entries that have a key.
LEMMA ItemsOf ==
    ASSUME NEW d, NEW n, NEW W, Fields(d, n, W),
           \A c \in DOMAIN d.keys : d.keys[c] # NoKey => c < d.nextIndex
    PROVE  /\ items(d) = {c \in DOMAIN d.keys : d.keys[c] # NoKey}
           /\ items(d) \in SUBSET (0..(maxCapacity(n) - 1)) /\ items(d) \in SUBSET Nat
           /\ IsFiniteSet(items(d)) /\ Cardinality(items(d)) \in Nat
           /\ \A c \in items(d) : d.keys[c] \in Key
  <1>1. /\ DOMAIN d.keys = 0..(maxCapacity(n) - 1) /\ d.nextIndex \in Nat /\ n \in Sizes
        /\ d.keys \in [0..(maxCapacity(n) - 1) -> Key \cup {NoKey}]
    BY FieldsOf
  <1>2. maxCapacity(n) \in Nat
    BY <1>1, Capacities
  <1>3. items(d) \subseteq {c \in DOMAIN d.keys : d.keys[c] # NoKey}
    BY DEF items
  <1>4. ASSUME NEW c \in DOMAIN d.keys, d.keys[c] # NoKey PROVE c \in items(d)
    <2>1. c \in Int /\ 0 <= c /\ c < d.nextIndex
      BY <1>1, <1>2, <1>4
    <2>2. c \in 0..(d.nextIndex - 1)
      BY <1>1, <2>1
    <2> QED
      BY <1>4, <2>2 DEF items
  <1>5. items(d) = {c \in DOMAIN d.keys : d.keys[c] # NoKey}
    BY <1>3, <1>4
  <1>6. items(d) \in SUBSET (0..(maxCapacity(n) - 1)) /\ items(d) \in SUBSET Nat
    BY <1>1, <1>2, <1>5
  <1>7. IsFiniteSet(0..(maxCapacity(n) - 1))
    BY <1>2, FS_Interval
  <1>8. IsFiniteSet(items(d))
    BY <1>6, <1>7, FS_Subset
  <1>9. Cardinality(items(d)) \in Nat
    BY <1>8, FS_CardinalityType
  <1>10. \A c \in items(d) : d.keys[c] \in Key
    BY <1>1, <1>5
  <1> QED
    BY <1>5, <1>6, <1>8, <1>9, <1>10

LEMMA IntactOf ==
    ASSUME NEW d, NEW n, NEW W, Intact(d, n, W)
    PROVE  /\ Fields(d, n, W) /\ Linked(d)
           /\ \A c \in DOMAIN d.keys : d.keys[c] # NoKey => c < d.nextIndex
           /\ IsFiniteSet(Used(d)) /\ Cardinality(Used(d)) \in Nat
           /\ Cardinality(Used(d)) <= maxCapacity(n)
           /\ \A k : Stops(d, k) # {}
  <1>1. Fields(d, n, W) /\ Linked(d)
    BY DEF Intact
  <1>2. \A c \in DOMAIN d.keys : d.keys[c] # NoKey => c < d.nextIndex
    BY <1>1 DEF Linked
  <1>3. n \in Sizes /\ DOMAIN d.indices = 0..(n - 1) /\ d.nextIndex \in Nat
    BY <1>1, FieldsOf
  <1>4. n \in Nat /\ maxCapacity(n) \in Nat
    BY <1>3, Capacities
  <1>5. IsFiniteSet(0..(n - 1))
    BY <1>4, FS_Interval
  <1>6. IsFiniteSet(Used(d))
    <2>1. Used(d) \in SUBSET (0..(n - 1))
      BY <1>3 DEF Used
    <2> QED
      BY <1>5, <2>1, FS_Subset
  <1>7. Cardinality(Used(d)) \in Nat
    BY <1>6, FS_CardinalityType
  <1>8. Cardinality(Used(d)) <= maxCapacity(n)
    BY <1>3, <1>4, <1>7 DEF Intact
  <1>9. \A k : Stops(d, k) # {}
    BY <1>1, <1>8, EmptyIndex
  <1> QED
    BY <1>1, <1>2, <1>6, <1>7, <1>8, <1>9

\* lookup() finds the key of each entry, and no other.
LEMMA LookupOf ==
    ASSUME NEW d, NEW n, NEW W, Intact(d, n, W), NEW k \in Key
    PROVE  /\ lookup(d, k) <=> \E c \in items(d) : d.keys[c] = k
           /\ stopsAt(d, k) \in 0..(n - 1)
           /\ ~lookup(d, k) => d.indices[stopsAt(d, k)] = Empty
           /\ lookup(d, k) => /\ d.indices[stopsAt(d, k)] \in items(d)
                              /\ d.indices[stopsAt(d, k)] >= 0
                              /\ d.keys[d.indices[stopsAt(d, k)]] = k
           /\ \A c \in items(d) : d.keys[c] = k => d.indices[stopsAt(d, k)] = c
  <1>1. Fields(d, n, W) /\ Linked(d) /\ Stops(d, k) # {}
    BY IntactOf
  <1>2. \A c \in DOMAIN d.keys : d.keys[c] # NoKey => c < d.nextIndex
    BY IntactOf
  <1>3. items(d) = {c \in DOMAIN d.keys : d.keys[c] # NoKey} /\ items(d) \in SUBSET Nat
    BY <1>1, <1>2, ItemsOf
  <1>4. stopsAt(d, k) \in Stops(d, k) /\ stopsAt(d, k) \in 0..(n - 1)
    BY <1>1, StopsOf
  <1>5. n \in Sizes /\ DOMAIN d.indices = 0..(n - 1) /\ DOMAIN d.keys = 0..(maxCapacity(n) - 1)
        /\ d.nextIndex \in Nat
    BY <1>1, FieldsOf
  <1>6. ASSUME NEW c \in items(d), d.keys[c] = k PROVE d.indices[stopsAt(d, k)] = c
    BY <1>1, <1>3, <1>6 DEF Linked
  <1>7. ASSUME NEW c \in items(d) PROVE c # Empty
    BY <1>3 DEF Empty
  <1>8. ASSUME lookup(d, k)
        PROVE  /\ d.indices[stopsAt(d, k)] \in items(d) /\ d.indices[stopsAt(d, k)] >= 0
               /\ d.keys[d.indices[stopsAt(d, k)]] = k
    <2> DEFINE c == d.indices[stopsAt(d, k)]
    <2>1. c >= 0 /\ d.keys[c] = k
      BY <1>4, <1>8 DEF lookup, Stops, holds
    <2>2. c \in -2..(d.nextIndex - 1)
      BY <1>1, <1>4, <1>5 DEF Linked
    <2>3. c \in DOMAIN d.keys
      <3>1. d.nextIndex <= maxCapacity(n) /\ maxCapacity(n) \in Nat
        BY <1>5, Capacities DEF Intact
      <3> HIDE DEF c
      <3>2. c \in Int /\ c < d.nextIndex
        BY <1>5, <2>2
      <3>3. c \in 0..(maxCapacity(n) - 1)
        BY <1>5, <2>1, <3>1, <3>2
      <3> QED
        BY <1>5, <3>3
    <2>4. k # NoKey
      BY DictAssumption
    <2> QED
      BY <1>3, <2>1, <2>3, <2>4
  <1>9. ~lookup(d, k) => d.indices[stopsAt(d, k)] = Empty
    BY DEF lookup
  <1>10. lookup(d, k) <=> \E c \in items(d) : d.keys[c] = k
    BY <1>6, <1>7, <1>8 DEF lookup
  <1> QED
    BY <1>4, <1>6, <1>8, <1>9, <1>10

\* The map that at() implements has exactly the entries, and no key twice.
Agrees(d) ==
    /\ DOMAIN at(d) \subseteq Key
    /\ at(d) = [k \in DOMAIN at(d) |-> at(d)[k]]
    /\ \A k \in DOMAIN at(d) : \E c \in items(d) : d.keys[c] = k
    /\ \A c \in items(d) : d.keys[c] \in DOMAIN at(d) /\ at(d)[d.keys[c]] = d.values[c]
    /\ \A b, c \in items(d) : d.keys[b] = d.keys[c] => b = c
    /\ \A k \in Key : lookup(d, k) <=> k \in DOMAIN at(d)

LEMMA MapOf ==
    ASSUME NEW d, NEW n, NEW W, Intact(d, n, W)
    PROVE  Agrees(d)
  <1> DEFINE found == [k \in Key |-> d.indices[stopsAt(d, k)]]
             D == {k \in Key : found[k] # Empty}
  <1>1. at(d) = [k \in D |-> d.values[found[k]]]
    BY DEF at
  <1>2. DOMAIN at(d) = D
    BY <1>1
  <1>3. ASSUME NEW k \in Key PROVE k \in D <=> lookup(d, k)
    BY DEF lookup
  <1>4. \A c \in items(d) : d.keys[c] \in Key
    BY IntactOf, ItemsOf
  <1>5. D = {d.keys[c] : c \in items(d)}
    <2>1. ASSUME NEW k \in D PROVE k \in {d.keys[c] : c \in items(d)}
      BY <1>3, LookupOf
    <2>2. ASSUME NEW c \in items(d) PROVE d.keys[c] \in D
      BY <1>3, <1>4, LookupOf
    <2> QED
      BY <2>1, <2>2
  <1>6. ASSUME NEW c \in items(d) PROVE found[d.keys[c]] = c
    BY <1>4, LookupOf
  <1>7. ASSUME NEW c \in items(d) PROVE at(d)[d.keys[c]] = d.values[c]
    <2>1. d.keys[c] \in D
      BY <1>5
    <2> HIDE DEF found, D
    <2> QED
      BY <1>1, <1>6, <2>1
  <1>8. at(d) = [k \in DOMAIN at(d) |-> at(d)[k]]
    <2> HIDE DEF found, D
    <2> QED
      BY <1>1, <1>2
  <1>9. \A k \in Key : lookup(d, k) <=> k \in DOMAIN at(d)
    BY <1>2, <1>3
  <1>10. \A k \in DOMAIN at(d) : \E c \in items(d) : d.keys[c] = k
    BY <1>2, <1>5
  <1>11. \A c \in items(d) : d.keys[c] \in DOMAIN at(d)
    BY <1>2, <1>5
  <1>12. \A b, c \in items(d) : d.keys[b] = d.keys[c] => b = c
    <2> HIDE DEF D, found
    <2> QED
      BY <1>6
  <1> QED
    BY <1>2, <1>7, <1>8, <1>9, <1>10, <1>11, <1>12 DEF Agrees

-----------------------------------------------------------------------------
(***************************************************************************)
(* Insertion, the value of an entry, removal.                              *)
(***************************************************************************)

\* The new entry is found, and every other one still is.
LEMMA InsertedOf ==
    ASSUME NEW d, NEW n, NEW W, Intact(d, n, W), NEW k \in Key, ~lookup(d, k),
           d.nextIndex < maxCapacity(n), NEW e, e = inserted(d, k)
    PROVE  /\ Intact(e, n, W)
           /\ items(e) = items(d) \cup {d.nextIndex} /\ d.nextIndex \notin items(d)
           /\ e.keys = [d.keys EXCEPT ![d.nextIndex] = k] /\ e.values = d.values
           /\ e.nextIndex = d.nextIndex + 1 /\ e.numItems = d.numItems + 1
           /\ e.indices[stopsAt(e, k)] = d.nextIndex
  <1> DEFINE Free == {i \in DOMAIN d.indices : d.indices[i] < 0}
             N == d.nextIndex
             f == firstOf(Free, k, n)
             cap == maxCapacity(n)
  <1>1. Fields(d, n, W) /\ Linked(d) /\ \A j : Stops(d, j) # {}
    BY IntactOf
  <1>2. /\ n \in Sizes /\ numIndices(d) = n
        /\ d.indices \in [0..(n - 1) -> Int] /\ DOMAIN d.indices = 0..(n - 1)
        /\ d.keys \in [0..(cap - 1) -> Key \cup {NoKey}] /\ DOMAIN d.keys = 0..(cap - 1)
        /\ d.values \in [0..(cap - 1) -> W]
        /\ N \in Nat /\ d.numItems \in Nat
    BY <1>1, FieldsOf
  <1>3. cap \in Nat /\ n \in Nat /\ N < cap
    BY <1>2, Capacities
  <1>4. N \in 0..(cap - 1)
    <2> HIDE DEF N, cap
    <2> QED
      BY <1>2, <1>3
  <1>5. /\ e.indices = [d.indices EXCEPT ![f] = N] /\ e.keys = [d.keys EXCEPT ![N] = k]
        /\ e.values = d.values /\ e.nextIndex = N + 1 /\ e.numItems = d.numItems + 1
        /\ e = [indices |-> e.indices, keys |-> e.keys, values |-> e.values,
                nextIndex |-> e.nextIndex, numItems |-> e.numItems]
    BY <1>1, <1>2 DEF inserted, Fields
  <1>6. /\ f \in Free /\ f \in 0..(n - 1) /\ d.indices[f] < 0
        /\ \A T \in SUBSET Free : f \in T => firstOf(T, k, n) = f
    <2>1. Cardinality(Used(d)) <= maxCapacity(n)
      BY IntactOf
    <2>2. \E i \in 0..(n - 1) : d.indices[i] = Empty
      BY <1>1, <2>1, EmptyIndex
    <2>3. Free # {} /\ Free \in SUBSET (0..(n - 1))
      BY <1>2, <2>2 DEF Empty
    <2>4. /\ f \in Free
          /\ \A T \in SUBSET Free : f \in T => firstOf(T, k, n) = f
      BY <1>2, <2>3, FirstOf
    <2> QED
      BY <1>2, <2>4
  <1> HIDE DEF f, cap, N
  <1>7. Fields(e, n, W)
    <2>1. e.indices \in [0..(n - 1) -> Int]
      BY <1>2, <1>5, <1>6
    <2>2. e.keys \in [0..(cap - 1) -> Key \cup {NoKey}]
      BY <1>2, <1>4, <1>5
    <2>3. e.nextIndex \in Nat /\ e.numItems \in Nat
      BY <1>2, <1>5
    <2> QED
      BY <1>2, <1>5, <2>1, <2>2, <2>3 DEF Fields, cap
  <1>8. /\ numIndices(e) = n /\ DOMAIN e.indices = 0..(n - 1) /\ DOMAIN e.keys = 0..(cap - 1)
    BY <1>7, FieldsOf DEF cap
  <1>9. /\ e.indices[f] = N
        /\ \A i \in 0..(n - 1) : i # f => e.indices[i] = d.indices[i]
        /\ e.keys[N] = k
        /\ \A c \in 0..(cap - 1) : c # N => e.keys[c] = d.keys[c]
    BY <1>2, <1>4, <1>5, <1>6
  <1>10. \A i \in 0..(n - 1) :
            d.indices[i] \in -2..(N - 1) /\ d.indices[i] \in Int
    BY <1>1, <1>2 DEF Linked, N
  <1>11. ASSUME NEW i \in 0..(n - 1), d.indices[i] >= 0
         PROVE  /\ d.indices[i] # N /\ d.indices[i] \in 0..(cap - 1)
                /\ d.indices[i] < N
                /\ e.keys[d.indices[i]] = d.keys[d.indices[i]]
                /\ d.keys[d.indices[i]] \in Key /\ d.keys[d.indices[i]] # NoKey
                /\ stopsAt(d, d.keys[d.indices[i]]) = i
                /\ d.keys[d.indices[i]] # k
    <2>1. d.indices[i] # N /\ d.indices[i] \in 0..(cap - 1) /\ d.indices[i] < N
      BY <1>2, <1>3, <1>10, <1>11
    <2>2. d.keys[d.indices[i]] \in Key /\ stopsAt(d, d.keys[d.indices[i]]) = i
      BY <1>1, <1>2, <1>11 DEF Linked
    <2>3. d.keys[d.indices[i]] # NoKey
      BY <2>2, DictAssumption
    <2>4. d.indices[i] \in items(d)
      BY <1>1, <1>2, <2>1, <2>3, IntactOf, ItemsOf
    <2>5. d.keys[d.indices[i]] # k
      BY <2>4, LookupOf
    <2> QED
      BY <1>9, <2>1, <2>2, <2>3, <2>5
  <1>12. stopsAt(e, k) = f
    <2>1. Stops(e, k) \subseteq Free
      <3>1. SUFFICES ASSUME NEW i \in 0..(n - 1), e.indices[i] = Empty \/ holds(e, i, k)
                     PROVE  i \in Free
        BY <1>8 DEF Stops
      <3>2. CASE i = f
        BY <1>6, <3>2
      <3>3. CASE i # f /\ e.indices[i] = Empty
        BY <1>2, <1>9, <3>3 DEF Empty
      <3>4. CASE i # f /\ holds(e, i, k)
        <4>1. d.indices[i] >= 0 /\ e.keys[d.indices[i]] = k
          BY <1>9, <3>4 DEF holds
        <4> QED
          BY <1>11, <4>1
      <3> QED
        BY <3>1, <3>2, <3>3, <3>4
    <2>2. f \in Stops(e, k)
      BY <1>2, <1>6, <1>8, <1>9 DEF Stops, holds
    <2>3. firstOf(Stops(e, k), k, n) = f
      BY <1>6, <2>1, <2>2
    <2> QED
      BY <1>8, <2>3 DEF stopsAt, Stops
  <1>13. ASSUME NEW j \in Key, j # k, d.indices[stopsAt(d, j)] >= 0
         PROVE  stopsAt(e, j) = stopsAt(d, j)
    <2>1. stopsAt(d, j) \in Stops(d, j) /\ stopsAt(d, j) \in 0..(n - 1)
      BY <1>1, StopsOf
    <2>2. ASSUME NEW i \in 0..(n - 1), e.indices[i] = Empty \/ holds(e, i, j)
          PROVE  i \in Stops(d, j)
      <3>1. i # f
        BY <1>2, <1>9, <1>13, <2>2 DEF holds, Empty
      <3>2. CASE e.indices[i] = Empty
        BY <1>2, <1>9, <3>1, <3>2 DEF Stops
      <3>3. CASE holds(e, i, j)
        <4>1. d.indices[i] >= 0 /\ e.keys[d.indices[i]] = j
          BY <1>9, <3>1, <3>3 DEF holds
        <4> QED
          BY <1>2, <1>11, <4>1 DEF Stops, holds
      <3> QED
        BY <2>2, <3>2, <3>3
    <2>3. Stops(e, j) \subseteq Stops(d, j)
      BY <1>8, <2>2 DEF Stops
    <2>4. stopsAt(d, j) \in Stops(e, j)
      <3>1. stopsAt(d, j) # f
        BY <1>6, <1>10, <1>13
      <3>2. holds(d, stopsAt(d, j), j)
        BY <1>13, <2>1 DEF Stops, Empty
      <3>3. holds(e, stopsAt(d, j), j)
        BY <1>9, <1>11, <1>13, <2>1, <3>1, <3>2 DEF holds
      <3> QED
        BY <1>8, <2>1, <3>3 DEF Stops
    <2> QED
      BY <1>1, <1>7, <2>3, <2>4, StopsOf
  <1>14. ASSUME NEW i \in 0..(n - 1) PROVE e.indices[i] \in -2..(e.nextIndex - 1)
    BY <1>2, <1>5, <1>9, <1>10
  <1>15. ASSUME NEW i \in 0..(n - 1), e.indices[i] >= 0
         PROVE  e.keys[e.indices[i]] \in Key /\ stopsAt(e, e.keys[e.indices[i]]) = i
    <2>1. CASE i = f
      BY <1>9, <1>12, <2>1
    <2>2. CASE i # f
      <3>1. e.indices[i] = d.indices[i] /\ d.indices[i] >= 0
        BY <1>9, <1>15, <2>2
      <3> QED
        BY <1>11, <1>13, <3>1
    <2> QED
      BY <2>1, <2>2
  <1>16. ASSUME NEW c \in 0..(cap - 1), e.keys[c] # NoKey
         PROVE  c < e.nextIndex /\ e.indices[stopsAt(e, e.keys[c])] = c
    <2>1. CASE c = N
      BY <1>2, <1>5, <1>9, <1>12, <2>1
    <2>2. CASE c # N
      <3>1. e.keys[c] = d.keys[c] /\ d.keys[c] \in Key
        BY <1>2, <1>9, <1>16, <2>2
      <3>2. c < N /\ d.indices[stopsAt(d, d.keys[c])] = c
        BY <1>1, <1>2, <1>16, <3>1 DEF Linked, N
      <3>3. stopsAt(d, d.keys[c]) \in 0..(n - 1) /\ c >= 0
        <4>1. stopsAt(d, d.keys[c]) \in 0..(n - 1)
          BY <1>1, <3>1, StopsOf
        <4>2. c >= 0
          BY <1>3
        <4> QED
          BY <4>1, <4>2
      <3>4. d.keys[c] # k
        BY <1>11, <3>2, <3>3
      <3>5. stopsAt(e, d.keys[c]) = stopsAt(d, d.keys[c])
        BY <1>13, <3>1, <3>2, <3>3, <3>4
      <3>6. stopsAt(d, d.keys[c]) # f
        BY <1>6, <3>2, <3>3
      <3>7. c < e.nextIndex
        BY <1>2, <1>3, <1>5, <3>2
      <3> QED
        BY <1>9, <3>1, <3>2, <3>3, <3>5, <3>6, <3>7
    <2> QED
      BY <2>1, <2>2
  <1>17. Linked(e)
    BY <1>8, <1>14, <1>15, <1>16 DEF Linked
  <1>18. Cardinality(Used(e)) <= e.nextIndex
    <2>1. Used(e) \subseteq Used(d) \cup {f} /\ Used(d) \subseteq Used(e)
      BY <1>2, <1>8, <1>9 DEF Used, Empty
    <2>2. f \in Used(e)
      BY <1>2, <1>6, <1>8, <1>9 DEF Used, Empty
    <2>3. Used(e) = Used(d) \cup {f}
      BY <2>1, <2>2
    <2>4. IsFiniteSet(Used(d)) /\ Cardinality(Used(d)) \in Nat
      BY IntactOf
    <2>5. Cardinality(Used(e)) <= Cardinality(Used(d)) + 1
      <3>1. Cardinality(Used(e)) = IF f \in Used(d) THEN Cardinality(Used(d))
                                   ELSE Cardinality(Used(d)) + 1
        BY <2>3, <2>4, FS_AddElement
      <3> QED
        BY <2>4, <3>1
    <2>6. Cardinality(Used(d)) <= N
      BY DEF Intact, N
    <2>7. Cardinality(Used(e)) \in Nat
      BY <2>3, <2>4, FS_AddElement
    <2> QED
      BY <1>2, <1>5, <2>4, <2>5, <2>6, <2>7
  <1>19. Intact(e, n, W)
    BY <1>2, <1>3, <1>5, <1>7, <1>17, <1>18 DEF Intact, cap
  <1>20. /\ items(e) = {c \in 0..(cap - 1) : e.keys[c] # NoKey}
         /\ items(d) = {c \in 0..(cap - 1) : d.keys[c] # NoKey}
    <2>1. /\ \A c \in DOMAIN e.keys : e.keys[c] # NoKey => c < e.nextIndex
          /\ \A c \in DOMAIN d.keys : d.keys[c] # NoKey => c < d.nextIndex
      BY <1>19, IntactOf
    <2>2. items(e) = {c \in DOMAIN e.keys : e.keys[c] # NoKey}
      BY <1>7, <2>1, ItemsOf
    <2>3. items(d) = {c \in DOMAIN d.keys : d.keys[c] # NoKey}
      BY <1>1, <2>1, ItemsOf
    <2> QED
      BY <1>2, <1>8, <2>2, <2>3
  <1>21. d.keys[N] = NoKey
    <2>1. d.keys[N] # NoKey => N < N
      BY <1>1, <1>2, <1>4 DEF Linked, N
    <2> QED
      BY <1>2, <2>1
  <1>22. items(e) = items(d) \cup {N} /\ N \notin items(d)
    BY <1>4, <1>9, <1>20, <1>21, DictAssumption
  <1> QED
    BY <1>5, <1>9, <1>12, <1>19, <1>22 DEF N

\* The values and the count say nothing of what is found where.
LEMMA SameIndices ==
    ASSUME NEW d, NEW n, NEW W, Intact(d, n, W), NEW e, Fields(e, n, W),
           e.indices = d.indices, e.keys = d.keys, e.nextIndex = d.nextIndex
    PROVE  /\ Intact(e, n, W) /\ items(e) = items(d)
           /\ \A k : stopsAt(e, k) = stopsAt(d, k) /\ (lookup(e, k) <=> lookup(d, k))
  <1>1. numIndices(e) = numIndices(d)
    BY DEF numIndices
  <1>2. \A k : stopsAt(e, k) = stopsAt(d, k)
    BY <1>1 DEF stopsAt, holds
  <1>3. \A k : lookup(e, k) <=> lookup(d, k)
    BY <1>2 DEF lookup
  <1>4. Linked(d) /\ Cardinality(Used(d)) <= d.nextIndex /\ d.nextIndex <= maxCapacity(n)
    BY DEF Intact
  <1>5. Linked(e)
    BY <1>2, <1>4 DEF Linked
  <1>6. Used(e) = Used(d)
    BY DEF Used
  <1>7. items(e) = items(d)
    BY DEF items
  <1> QED
    BY <1>2, <1>3, <1>4, <1>5, <1>6, <1>7 DEF Intact

SetsValue(e, d, c, v) ==
    /\ e.indices = d.indices /\ e.keys = d.keys /\ e.values = [d.values EXCEPT ![c] = v]
    /\ e.nextIndex = d.nextIndex /\ e.numItems = d.numItems

LEMMA ValueFields ==
    ASSUME NEW d, NEW n, NEW W, Fields(d, n, W), NEW c \in 0..(maxCapacity(n) - 1), NEW v \in W
    PROVE  /\ Fields([d EXCEPT !.values[c] = v], n, W)
           /\ SetsValue([d EXCEPT !.values[c] = v], d, c, v)
  BY DEF Fields, SetsValue

\* The entry goes, and every other one is found.
LEMMA RemovedOf ==
    ASSUME NEW d, NEW n, NEW W, Intact(d, n, W), NoValue \in W, NEW k \in Key, lookup(d, k),
           d.numItems >= 1, NEW e, e = remove(d, k), NEW x, x = d.indices[stopsAt(d, k)]
    PROVE  /\ Intact(e, n, W)
           /\ x \in items(d) /\ d.keys[x] = k /\ items(e) = items(d) \ {x}
           /\ \A c \in items(e) : e.keys[c] = d.keys[c] /\ e.values[c] = d.values[c]
           /\ e.nextIndex = d.nextIndex /\ e.numItems = d.numItems - 1
  <1> DEFINE s == stopsAt(d, k)
             cap == maxCapacity(n)
  <1>1. Fields(d, n, W) /\ Linked(d) /\ \A j : Stops(d, j) # {}
    BY IntactOf
  <1>2. /\ n \in Sizes /\ numIndices(d) = n
        /\ d.indices \in [0..(n - 1) -> Int] /\ DOMAIN d.indices = 0..(n - 1)
        /\ d.keys \in [0..(cap - 1) -> Key \cup {NoKey}] /\ DOMAIN d.keys = 0..(cap - 1)
        /\ d.values \in [0..(cap - 1) -> W]
        /\ d.nextIndex \in Nat /\ d.numItems \in Nat
    BY <1>1, FieldsOf
  <1>3. s \in 0..(n - 1) /\ x \in items(d) /\ d.indices[s] >= 0 /\ d.keys[x] = k
    BY LookupOf
  <1>4. items(d) = {c \in 0..(cap - 1) : d.keys[c] # NoKey} /\ items(d) \in SUBSET Nat
    BY <1>1, <1>2, IntactOf, ItemsOf
  <1>5. x \in 0..(cap - 1) /\ x >= 0
    BY <1>3, <1>4
  <1>6. /\ e.indices = [d.indices EXCEPT ![s] = Tombstone] /\ e.keys = [d.keys EXCEPT ![x] = NoKey]
        /\ e.values = [d.values EXCEPT ![x] = NoValue]
        /\ e.nextIndex = d.nextIndex /\ e.numItems = d.numItems - 1
        /\ e = [indices |-> e.indices, keys |-> e.keys, values |-> e.values,
                nextIndex |-> e.nextIndex, numItems |-> e.numItems]
    BY <1>1, <1>2 DEF remove, Fields
  <1> HIDE DEF s, cap
  <1>7. Fields(e, n, W)
    <2>1. e.indices \in [0..(n - 1) -> Int]
      <3>1. Tombstone \in Int
        BY DEF Tombstone
      <3> QED
        BY <1>2, <1>6, <3>1
    <2>2. e.keys \in [0..(cap - 1) -> Key \cup {NoKey}]
      BY <1>2, <1>6
    <2>3. e.values \in [0..(cap - 1) -> W]
      BY <1>2, <1>6
    <2>4. e.nextIndex \in Nat /\ e.numItems \in Nat
      BY <1>2, <1>6
    <2> QED
      BY <1>2, <1>6, <2>1, <2>2, <2>3, <2>4 DEF Fields, cap
  <1>8. numIndices(e) = n /\ DOMAIN e.indices = 0..(n - 1) /\ DOMAIN e.keys = 0..(cap - 1)
    BY <1>7, FieldsOf DEF cap
  <1>9. /\ e.indices[s] = Tombstone /\ d.indices[s] = x
        /\ \A i \in 0..(n - 1) : i # s => e.indices[i] = d.indices[i]
        /\ e.keys[x] = NoKey
        /\ \A c \in 0..(cap - 1) : c # x => e.keys[c] = d.keys[c]
        /\ \A c \in 0..(cap - 1) : c # x => e.values[c] = d.values[c]
    BY <1>2, <1>3, <1>5, <1>6 DEF s
  <1>10. ASSUME NEW j \in Key, j # k
         PROVE  stopsAt(e, j) = stopsAt(d, j)
    <2>1. j # NoKey
      BY DictAssumption
    <2>2. ASSUME NEW i \in 0..(n - 1)
          PROVE  i \in Stops(e, j) <=> i \in Stops(d, j)
      <3>1. CASE i = s
        <4>1. ~ (e.indices[i] = Empty \/ holds(e, i, j))
          BY <1>9, <3>1 DEF holds, Empty, Tombstone
        <4>2. ~ (d.indices[i] = Empty \/ holds(d, i, j))
          BY <1>3, <1>5, <1>9, <1>10, <3>1 DEF holds, Empty
        <4> QED
          BY <4>1, <4>2 DEF Stops
      <3>2. CASE i # s
        <4>1. e.indices[i] = d.indices[i]
          BY <1>9, <3>2
        <4>2. holds(e, i, j) <=> holds(d, i, j)
          <5>1. ASSUME d.indices[i] >= 0
                PROVE  e.keys[d.indices[i]] = j <=> d.keys[d.indices[i]] = j
            <6>1. d.indices[i] \in 0..(cap - 1)
              <7>1. d.keys[d.indices[i]] \in Key /\ d.indices[i] \in -2..(d.nextIndex - 1)
                BY <1>1, <1>2, <5>1 DEF Linked
              <7>2. cap \in Nat /\ d.nextIndex <= cap
                BY <1>2, Capacities DEF Intact, cap
              <7> QED
                BY <1>2, <5>1, <7>1, <7>2
            <6>2. CASE d.indices[i] = x
              BY <1>3, <1>9, <1>10, <2>1, <6>2
            <6>3. CASE d.indices[i] # x
              BY <1>9, <6>1, <6>3
            <6> QED
              BY <6>2, <6>3
          <5> QED
            BY <4>1, <5>1 DEF holds
        <4> QED
          BY <1>2, <1>8, <4>1, <4>2 DEF Stops
      <3> QED
        BY <3>1, <3>2
    <2>3. Stops(e, j) = Stops(d, j)
      BY <1>2, <1>8, <2>2 DEF Stops
    <2>4. stopsAt(d, j) \in Stops(e, j)
      BY <1>1, <2>3, StopsOf
    <2> QED
      BY <1>1, <1>7, <2>3, <2>4, StopsOf
  <1>11. ASSUME NEW i \in 0..(n - 1) PROVE e.indices[i] \in -2..(e.nextIndex - 1)
    <2>1. d.indices[i] \in -2..(d.nextIndex - 1)
      BY <1>1, <1>2 DEF Linked
    <2> QED
      BY <1>2, <1>6, <1>9, <2>1 DEF Tombstone
  <1>12. ASSUME NEW i \in 0..(n - 1), e.indices[i] >= 0
         PROVE  e.keys[e.indices[i]] \in Key /\ stopsAt(e, e.keys[e.indices[i]]) = i
    <2>1. i # s
      BY <1>9, <1>12 DEF Tombstone
    <2>2. e.indices[i] = d.indices[i] /\ d.indices[i] >= 0
      BY <1>9, <1>12, <2>1
    <2>3. d.keys[d.indices[i]] \in Key /\ stopsAt(d, d.keys[d.indices[i]]) = i
      BY <1>1, <1>2, <2>2 DEF Linked
    <2>4. d.keys[d.indices[i]] # k /\ d.indices[i] # x
      BY <1>3, <2>1, <2>3 DEF s
    <2>5. d.indices[i] \in 0..(cap - 1)
      <3>1. d.indices[i] \in -2..(d.nextIndex - 1)
        BY <1>1, <1>2 DEF Linked
      <3>2. cap \in Nat /\ d.nextIndex <= cap
        BY <1>2, Capacities DEF Intact, cap
      <3> QED
        BY <1>2, <2>2, <3>1, <3>2
    <2> QED
      BY <1>9, <1>10, <2>2, <2>3, <2>4, <2>5
  <1>13. ASSUME NEW c \in 0..(cap - 1), e.keys[c] # NoKey
         PROVE  c < e.nextIndex /\ e.indices[stopsAt(e, e.keys[c])] = c
    <2>1. c # x /\ e.keys[c] = d.keys[c] /\ d.keys[c] \in Key
      BY <1>2, <1>9, <1>13
    <2>2. c < d.nextIndex /\ d.indices[stopsAt(d, d.keys[c])] = c
      BY <1>1, <1>2, <1>13, <2>1 DEF Linked
    <2>3. stopsAt(d, d.keys[c]) # s /\ d.keys[c] # k
      BY <1>9, <2>1, <2>2 DEF s
    <2>4. stopsAt(d, d.keys[c]) \in 0..(n - 1)
      BY <1>1, <2>1, StopsOf
    <2> QED
      BY <1>6, <1>9, <1>10, <2>1, <2>2, <2>3, <2>4
  <1>14. Linked(e)
    BY <1>8, <1>11, <1>12, <1>13 DEF Linked
  <1>15. Used(e) = Used(d)
    <2>1. d.indices[s] # Empty /\ e.indices[s] # Empty
      BY <1>5, <1>9 DEF Empty, Tombstone
    <2>2. \A i \in 0..(n - 1) : e.indices[i] # Empty <=> d.indices[i] # Empty
      BY <1>9, <2>1
    <2> QED
      BY <1>2, <1>8, <2>2 DEF Used
  <1>16. Intact(e, n, W)
    BY <1>6, <1>7, <1>14, <1>15 DEF Intact
  <1>17. items(e) = {c \in 0..(cap - 1) : e.keys[c] # NoKey}
    BY <1>7, <1>8, <1>16, IntactOf, ItemsOf
  <1>18. items(e) = items(d) \ {x}
    BY <1>4, <1>9, <1>17
  <1>19. \A c \in items(e) : e.keys[c] = d.keys[c] /\ e.values[c] = d.values[c]
    BY <1>9, <1>17, <1>18
  <1> QED
    BY <1>3, <1>6, <1>16, <1>18, <1>19

-----------------------------------------------------------------------------
(***************************************************************************)
(* Reinsertion: the loop of rehash() and of a collection.                  *)
(***************************************************************************)

\* The members of a set of numbers in their order.
Ranked(S) ==
    [c \in 0..(Cardinality(S) - 1) |-> CHOOSE i \in S : Cardinality({j \in S : j < i}) = c]

LEMMA RankedOf ==
    ASSUME NEW S \in SUBSET Nat, IsFiniteSet(S)
    PROVE  /\ Ranked(S) \in [0..(Cardinality(S) - 1) -> S]
           /\ \A s \in S : \E c \in 0..(Cardinality(S) - 1) : Ranked(S)[c] = s
           /\ \A b, c \in 0..(Cardinality(S) - 1) : Ranked(S)[b] = Ranked(S)[c] => b = c
  <1> DEFINE m == Cardinality(S)
             Below(i) == {j \in S : j < i}
             rank == [i \in S |-> Cardinality(Below(i))]
  <1>1. m \in Nat
    BY FS_CardinalityType
  <1>2. ASSUME NEW i \in S
        PROVE  IsFiniteSet(Below(i)) /\ Cardinality(Below(i)) \in 0..(m - 1)
    <2>1. Below(i) \in SUBSET S /\ Below(i) # S
      OBVIOUS
    <2> HIDE DEF Below
    <2>2. IsFiniteSet(Below(i)) /\ Cardinality(Below(i)) <= m /\ Cardinality(Below(i)) # m
      BY <2>1, FS_Subset
    <2>3. Cardinality(Below(i)) \in Nat
      BY <2>2, FS_CardinalityType
    <2> HIDE DEF m
    <2> QED
      BY <1>1, <2>2, <2>3
  <1>3. rank \in [S -> 0..(m - 1)]
    <2> HIDE DEF Below, m
    <2> QED
      BY <1>2
  <1>4. ASSUME NEW i \in S, NEW j \in S, i < j
        PROVE  Cardinality(Below(i)) # Cardinality(Below(j))
    <2>0. i \in Nat /\ j \in Nat /\ \A h \in S : h \in Nat
      OBVIOUS
    <2>1. Below(i) \in SUBSET Below(j) /\ i \in Below(j) /\ i \notin Below(i)
      <3>1. \A h \in S : h < i => h < j
        BY <1>4, <2>0
      <3>2. i \in Below(j)
        BY <1>4
      <3>3. ~ (i < i)
        BY <2>0
      <3> QED
        BY <3>1, <3>2, <3>3
    <2>2. IsFiniteSet(Below(j))
      BY <1>2
    <2> HIDE DEF Below
    <2> QED
      BY <2>1, <2>2, FS_Subset
  <1>5. ASSUME NEW i \in S, NEW j \in S, rank[i] = rank[j] PROVE i = j
    <2>1. i < j \/ j < i \/ i = j
      OBVIOUS
    <2> HIDE DEF Below
    <2> QED
      BY <1>4, <1>5, <2>1
  <1>6. rank \in Injection(S, 0..(m - 1))
    <2> HIDE DEF rank, m
    <2> QED
      BY <1>3, <1>5, Fun_IsInj
  <1>7. IsFiniteSet(0..(m - 1)) /\ Cardinality(0..(m - 1)) = m
    <2> HIDE DEF m
    <2>1. IsFiniteSet(0..(m - 1)) /\ Cardinality(0..(m - 1)) = IF 0 > m - 1 THEN 0 ELSE (m - 1) - 0 + 1
      BY <1>1, FS_Interval
    <2> QED
      BY <1>1, <2>1
  <1>8. rank \in Surjection(S, 0..(m - 1))
    <2> HIDE DEF rank
    <2> QED
      BY <1>6, <1>7, FS_Injection
  <1>9. ASSUME NEW c \in 0..(m - 1)
        PROVE  Ranked(S)[c] \in S /\ rank[Ranked(S)[c]] = c
    <2>1. \E i \in S : rank[i] = c
      <3> HIDE DEF rank, m
      <3>1. \A t \in 0..(m - 1) : \E s \in S : rank[s] = t
        BY <1>8 DEF Surjection
      <3> QED
        BY <3>1
    <2>2. Ranked(S)[c] = CHOOSE i \in S : Cardinality({j \in S : j < i}) = c
      BY DEF Ranked
    <2>3. \E i \in S : Cardinality({j \in S : j < i}) = c
      BY <2>1
    <2>4. Ranked(S)[c] \in S /\ Cardinality({j \in S : j < Ranked(S)[c]}) = c
      BY <2>2, <2>3
    <2> QED
      BY <2>4
  <1>10. Ranked(S) = [c \in 0..(m - 1) |-> Ranked(S)[c]]
    BY DEF Ranked
  <1> HIDE DEF rank, m
  <1>11. Ranked(S) \in [0..(m - 1) -> S]
    BY <1>9, <1>10
  <1>12. ASSUME NEW s \in S PROVE \E c \in 0..(m - 1) : Ranked(S)[c] = s
    <2>1. rank[s] \in 0..(m - 1)
      BY <1>3
    <2> QED
      BY <1>5, <1>9, <2>1
  <1>13. ASSUME NEW b \in 0..(m - 1), NEW c \in 0..(m - 1), Ranked(S)[b] = Ranked(S)[c] PROVE b = c
    BY <1>9, <1>13
  <1> QED
    BY <1>11, <1>12, <1>13 DEF m

\* The new indices when c entries are in, the key of the b-th of them being key[b].
Filled(ind, n, key, c) ==
    /\ ind \in [0..(n - 1) -> Int]
    /\ \A i \in 0..(n - 1) : ind[i] = Empty \/ ind[i] \in 0..(c - 1)
    /\ \A i \in 0..(n - 1) : ind[i] # Empty =>
          firstOf({j \in 0..(n - 1) : ind[j] = Empty} \cup {i}, key[ind[i]], n) = i
    /\ \A b \in 0..(c - 1) : \E i \in 0..(n - 1) : ind[i] = b
    /\ \A i, j \in 0..(n - 1) : ind[i] = ind[j] /\ ind[i] # Empty => i = j
    /\ IsFiniteSet({i \in 0..(n - 1) : ind[i] # Empty})
    /\ Cardinality({i \in 0..(n - 1) : ind[i] # Empty}) = c

LEMMA FillOne ==
    ASSUME NEW n \in Sizes, NEW m \in Nat, m <= maxCapacity(n), NEW key \in [0..(m - 1) -> Key],
           NEW c \in 0..(m - 1), NEW ind, Filled(ind, n, key, c),
           NEW f, f = firstOf({i \in 0..(n - 1) : ind[i] = Empty}, key[c], n),
           NEW new, new = [ind EXCEPT ![f] = c]
    PROVE  Filled(new, n, key, c + 1)
  <1> DEFINE U == {i \in 0..(n - 1) : ind[i] = Empty}
             N == {i \in 0..(n - 1) : ind[i] # Empty}
  <1>1. /\ n \in Nat /\ c \in Nat /\ c < m /\ m < n
        /\ c # Empty /\ c + 1 \in Nat /\ key[c] \in Key
    <2>1. n \in Nat /\ maxCapacity(n) \in Nat /\ maxCapacity(n) < n
      BY Capacities
    <2>2. m < n
      BY <2>1
    <2> QED
      BY <2>1, <2>2 DEF Empty
  <1>2. /\ ind \in [0..(n - 1) -> Int]
        /\ \A i \in 0..(n - 1) : ind[i] = Empty \/ ind[i] \in 0..(c - 1)
        /\ \A i \in 0..(n - 1) : ind[i] # Empty => firstOf(U \cup {i}, key[ind[i]], n) = i
        /\ \A b \in 0..(c - 1) : \E i \in 0..(n - 1) : ind[i] = b
        /\ \A i, j \in 0..(n - 1) : ind[i] = ind[j] /\ ind[i] # Empty => i = j
        /\ IsFiniteSet(N) /\ Cardinality(N) = c
    BY DEF Filled
  <1>3. U # {} /\ U \in SUBSET (0..(n - 1))
    <2>1. U = {} => N = 0..(n - 1)
      OBVIOUS
    <2>2. Cardinality(0..(n - 1)) = IF 0 > n - 1 THEN 0 ELSE (n - 1) - 0 + 1
      BY <1>1, FS_Interval
    <2>3. Cardinality(0..(n - 1)) # c
      BY <1>1, <2>2
    <2> HIDE DEF U, N
    <2>4. U # {}
      BY <1>2, <2>1, <2>3
    <2> QED
      BY <2>4 DEF U
  <1>4. /\ f \in U
        /\ \A T \in SUBSET U : f \in T => firstOf(T, key[c], n) = f
    <2>1. f = firstOf(U, key[c], n)
      OBVIOUS
    <2> HIDE DEF U
    <2>2. key[c] \in Key
      BY <1>1
    <2>3. /\ firstOf(U, key[c], n) \in U
          /\ \A T \in SUBSET U : firstOf(U, key[c], n) \in T =>
                firstOf(T, key[c], n) = firstOf(U, key[c], n)
      BY <1>3, <2>2, FirstOf
    <2> QED
      BY <2>1, <2>3
  <1>5. /\ f \in 0..(n - 1) /\ ind[f] = Empty
    BY <1>4
  <1>6. /\ new \in [0..(n - 1) -> Int] /\ new[f] = c
        /\ \A i \in 0..(n - 1) : i # f => new[i] = ind[i]
    BY <1>1, <1>2, <1>5
  <1> DEFINE V == {i \in 0..(n - 1) : new[i] = Empty}
  <1>7. V \cup {f} = U /\ V \subseteq U
    BY <1>1, <1>5, <1>6
  <1>8. ASSUME NEW i \in 0..(n - 1) PROVE new[i] = Empty \/ new[i] \in 0..((c + 1) - 1)
    <2>1. CASE i = f
      BY <1>1, <1>6, <2>1
    <2>2. CASE i # f
      BY <1>1, <1>2, <1>6, <2>2
    <2> QED
      BY <2>1, <2>2
  <1>9. ASSUME NEW i \in 0..(n - 1), new[i] # Empty
        PROVE  firstOf(V \cup {i}, key[new[i]], n) = i
    <2>1. CASE i = f
      <3> HIDE DEF U, V
      <3> QED
        BY <1>4, <1>6, <1>7, <2>1
    <2>2. CASE i # f
      <3>1. new[i] = ind[i] /\ ind[i] # Empty /\ ind[i] \in 0..(c - 1)
        BY <1>2, <1>6, <1>9, <2>2
      <3>2. firstOf(U \cup {i}, key[ind[i]], n) = i /\ key[ind[i]] \in Key
        <4>1. ind[i] \in 0..(m - 1)
          BY <1>1, <3>1
        <4>2. key[ind[i]] \in Key
          BY <4>1
        <4> QED
          BY <1>2, <3>1, <4>2
      <3>3. U \cup {i} \in SUBSET (0..(n - 1)) /\ U \cup {i} # {}
        OBVIOUS
      <3>4. V \cup {i} \in SUBSET (U \cup {i}) /\ i \in V \cup {i}
        BY <1>7
      <3> HIDE DEF U, V
      <3>5. \A T \in SUBSET (U \cup {i}) : firstOf(U \cup {i}, key[ind[i]], n) \in T =>
               firstOf(T, key[ind[i]], n) = firstOf(U \cup {i}, key[ind[i]], n)
        BY <3>2, <3>3, FirstOf
      <3> QED
        BY <3>1, <3>2, <3>4, <3>5
    <2> QED
      BY <2>1, <2>2
  <1>10. ASSUME NEW b \in 0..((c + 1) - 1) PROVE \E i \in 0..(n - 1) : new[i] = b
    <2>1. CASE b = c
      BY <1>5, <1>6, <2>1
    <2>2. CASE b # c
      <3>1. b \in 0..(c - 1) /\ b # Empty
        BY <1>1, <2>2 DEF Empty
      <3>2. PICK i \in 0..(n - 1) : ind[i] = b
        BY <1>2, <3>1
      <3> QED
        BY <1>5, <1>6, <3>1, <3>2
    <2> QED
      BY <2>1, <2>2
  <1>11. ASSUME NEW i \in 0..(n - 1), NEW j \in 0..(n - 1), new[i] = new[j], new[i] # Empty
         PROVE  i = j
    <2>1. \A h \in 0..(n - 1) : ind[h] # c
      BY <1>1, <1>2
    <2> QED
      BY <1>2, <1>6, <1>11, <2>1
  <1>12. LET used == {i \in 0..(n - 1) : new[i] # Empty}
         IN  IsFiniteSet(used) /\ Cardinality(used) = c + 1
    <2>1. {i \in 0..(n - 1) : new[i] # Empty} = N \cup {f} /\ f \notin N
      BY <1>1, <1>5, <1>6
    <2> HIDE DEF N
    <2>2. IsFiniteSet(N \cup {f}) /\ Cardinality(N \cup {f}) = c + 1
      <3>1. f \notin N
        BY <2>1
      <3>2. Cardinality(N \cup {f}) = IF f \in N THEN Cardinality(N) ELSE Cardinality(N) + 1
        BY <1>2, FS_AddElement
      <3>3. IsFiniteSet(N \cup {f})
        BY <1>2, FS_AddElement
      <3> QED
        BY <1>2, <3>1, <3>2, <3>3
    <2> QED
      BY <2>1, <2>2
  <1> QED
    BY <1>6, <1>8, <1>9, <1>10, <1>11, <1>12 DEF Filled

\* The loop that fills n new indices with m entries.
Fills(f, n, m, key) ==
    f = [c \in 0..m |->
           IF c = 0 THEN newIndices(n)
           ELSE [f[c - 1] EXCEPT
                   ![firstOf({i \in DOMAIN f[c - 1] : f[c - 1][i] = Empty}, key[c - 1], n)] = c - 1]]

LEMMA FilledNone ==
    ASSUME NEW n \in Sizes, NEW key
    PROVE  Filled(newIndices(n), n, key, 0)
  <1> DEFINE new == newIndices(n)
  <1>1. n \in Nat
    BY Capacities
  <1>2. new \in [0..(n - 1) -> Int] /\ \A i \in 0..(n - 1) : new[i] = Empty
    BY DEF newIndices, Empty
  <1>3. {i \in 0..(n - 1) : new[i] # Empty} = {}
    BY <1>2
  <1>4. IsFiniteSet({}) /\ Cardinality({}) = 0
    BY FS_EmptySet
  <1>5. 0..(0 - 1) = {}
    OBVIOUS
  <1> HIDE DEF new
  <1>6. Filled(new, n, key, 0)
    BY <1>2, <1>3, <1>4, <1>5 DEF Filled
  <1> QED
    BY <1>6 DEF new

LEMMA FilledAll ==
    ASSUME NEW n \in Sizes, NEW m \in Nat, m <= maxCapacity(n), NEW key \in [0..(m - 1) -> Key]
    PROVE  /\ \E f : Fills(f, n, m, key)
           /\ \A f : Fills(f, n, m, key) => Filled(f[m], n, key, m)
  <1> DEFINE X == [0..(n - 1) -> Int]
             place(c, before) == firstOf({i \in 0..(n - 1) : before[i] = Empty}, key[c - 1], n)
             step == [z \in (0..m) \X X |-> [z[2] EXCEPT ![place(z[1], z[2])] = z[1] - 1]]
  <1>1. newIndices(n) \in X
    BY DEF newIndices, Empty
  <1>2. step \in [(0..m) \X X -> X]
    <2>1. ASSUME NEW c \in 0..m, NEW before \in X
          PROVE  [before EXCEPT ![place(c, before)] = c - 1] \in X
      <3> HIDE DEF place
      <3>1. c - 1 \in Int
        OBVIOUS
      <3> QED
        BY <3>1
    <2> HIDE DEF place, X
    <2> QED
      BY <2>1
  <1>3. PICK f \in [0..m -> X] :
           f = [c \in 0..m |-> IF c = 0 THEN newIndices(n) ELSE step[<<c, f[c - 1]>>]]
    <2> HIDE DEF X, step
    <2>1. HasRun(m, X, newIndices(n), step)
      BY <1>1, <1>2, FiniteRecursion
    <2> QED
      BY <2>1 DEF HasRun
  <1>4. Fills(f, n, m, key)
    <2> DEFINE next(c) ==
          [f[c - 1] EXCEPT
             ![firstOf({i \in DOMAIN f[c - 1] : f[c - 1][i] = Empty}, key[c - 1], n)] = c - 1]
    <2>1. ASSUME NEW c \in 0..m, c # 0 PROVE step[<<c, f[c - 1]>>] = next(c)
      <3>1. c - 1 \in 0..m
        BY <2>1
      <3>2. f[c - 1] \in X
        BY <3>1
      <3>3. DOMAIN f[c - 1] = 0..(n - 1)
        BY <3>2
      <3>4. step[<<c, f[c - 1]>>] = [f[c - 1] EXCEPT ![place(c, f[c - 1])] = c - 1]
        <4> HIDE DEF X, place
        <4> QED
          BY <3>2
      <3> QED
        BY <3>3, <3>4
    <2>2. f = [c \in 0..m |-> IF c = 0 THEN newIndices(n) ELSE next(c)]
      <3> HIDE DEF step, next
      <3> QED
        BY <1>3, <2>1
    <2> QED
      BY <2>2 DEF Fills
  <1>5. ASSUME NEW g, Fills(g, n, m, key) PROVE Filled(g[m], n, key, m)
    <2> DEFINE place2(c) == firstOf({i \in DOMAIN g[c - 1] : g[c - 1][i] = Empty}, key[c - 1], n)
               S == {c \in Nat : c <= m => Filled(g[c], n, key, c)}
    <2>1. /\ g[0] = newIndices(n)
          /\ \A c \in 0..m : c # 0 => g[c] = [g[c - 1] EXCEPT ![place2(c)] = c - 1]
      <3>1. g = [c \in 0..m |-> IF c = 0 THEN newIndices(n)
                                ELSE [g[c - 1] EXCEPT ![place2(c)] = c - 1]]
        BY <1>5 DEF Fills
      <3>2. 0 \in 0..m
        OBVIOUS
      <3> HIDE DEF place2
      <3> QED
        BY <3>1, <3>2
    <2>2. 0 \in S
      BY <2>1, FilledNone
    <2>3. ASSUME NEW c \in S PROVE c + 1 \in S
      <3>1. c \in Nat
        OBVIOUS
      <3>2. SUFFICES ASSUME c + 1 <= m PROVE Filled(g[c + 1], n, key, c + 1)
        BY <3>1
      <3>3. c + 1 \in 0..m /\ c + 1 # 0 /\ (c + 1) - 1 = c /\ c \in 0..(m - 1) /\ c <= m
        BY <3>1, <3>2
      <3>4. Filled(g[c], n, key, c)
        BY <3>3
      <3>5. g[c + 1] = [g[c] EXCEPT ![place2(c + 1)] = c]
        <4> HIDE DEF place2, S
        <4> QED
          BY <2>1, <3>3
      <3>6. place2(c + 1) = firstOf({i \in 0..(n - 1) : g[c][i] = Empty}, key[c], n)
        <4>1. DOMAIN g[c] = 0..(n - 1)
          BY <3>4 DEF Filled
        <4> QED
          BY <3>3, <4>1
      <3> HIDE DEF place2, S
      <3> QED
        BY <3>3, <3>4, <3>5, <3>6, FillOne
    <2>4. S = Nat
      <3>1. S \in SUBSET Nat
        OBVIOUS
      <3> HIDE DEF S
      <3> QED
        BY <2>2, <2>3, <3>1, SetInduction
    <2> QED
      BY <2>4
  <1> QED
    BY <1>4, <1>5

\* The new keys of the entries at S, in their order.
MovedKeys(d, S, move) == [c \in 0..(Cardinality(S) - 1) |-> move[d.keys[Ranked(S)[c]]]]

\* The fields of the dictionary e after the loop.
Reentered(e, d, S, move, n, next) ==
    LET m == Cardinality(S)
        key == MovedKeys(d, S, move)
    IN  /\ \E f : Fills(f, n, m, key) /\ e.indices = f[m]
        /\ e.keys = [c \in 0..(maxCapacity(n) - 1) |->
                       IF c \in 0..(m - 1) THEN key[c] ELSE NoKey]
        /\ e.values = [c \in 0..(maxCapacity(n) - 1) |->
                         IF c \in 0..(m - 1) THEN d.values[Ranked(S)[c]] ELSE NoValue]
        /\ e.nextIndex = next /\ e.numItems = d.numItems
        /\ e = [indices |-> e.indices, keys |-> e.keys, values |-> e.values,
                nextIndex |-> e.nextIndex, numItems |-> e.numItems]

LEMMA ReinsertedFields ==
    ASSUME NEW d, NEW n0, NEW W, Fields(d, n0, W), NEW n \in Sizes,
           NEW S, NEW move, NEW next, Cardinality(S) \in Nat,
           \E f : Fills(f, n, Cardinality(S), MovedKeys(d, S, move)),
           NEW e, e = Reinserted(d, S, move, n, next)
    PROVE  Reentered(e, d, S, move, n, next)
  <1> DEFINE m == Cardinality(S)
             key == MovedKeys(d, S, move)
             old == Ranked(S)
             Is(f) == f = [c \in 0..Cardinality(S) |->
                             IF c = 0 THEN newIndices(n)
                             ELSE [f[c - 1] EXCEPT
                                     ![firstOf({i \in DOMAIN f[c - 1] : f[c - 1][i] = Empty},
                                               move[d.keys[old[c - 1]]], n)] = c - 1]]
             g == CHOOSE f : Is(f)
             keys == [c \in DOMAIN newKeys(n) |->
                        IF c \in DOMAIN old THEN move[d.keys[old[c]]] ELSE NoKey]
             values == [c \in DOMAIN newValues(n) |->
                          IF c \in DOMAIN old THEN d.values[old[c]] ELSE NoValue]
  <1>1. e = [d EXCEPT !.indices = g[Cardinality(S)], !.keys = keys, !.values = values,
                      !.nextIndex = next]
    BY DEF Reinserted, Ranked
  <1>2. ASSUME NEW f PROVE Is(f) <=> Fills(f, n, m, key)
    <2> DEFINE A(c) == [f[c - 1] EXCEPT
                         ![firstOf({i \in DOMAIN f[c - 1] : f[c - 1][i] = Empty},
                                   move[d.keys[old[c - 1]]], n)] = c - 1]
               B(c) == [f[c - 1] EXCEPT
                         ![firstOf({i \in DOMAIN f[c - 1] : f[c - 1][i] = Empty},
                                   key[c - 1], n)] = c - 1]
    <2>1. ASSUME NEW c \in 0..m, c # 0 PROVE A(c) = B(c)
      <3>1. c - 1 \in 0..(m - 1)
        BY <2>1
      <3>2. key[c - 1] = move[d.keys[old[c - 1]]]
        BY <3>1 DEF MovedKeys
      <3> QED
        BY <3>2
    <2>2. Is(f) <=> f = [c \in 0..m |-> IF c = 0 THEN newIndices(n) ELSE A(c)]
      OBVIOUS
    <2>3. Fills(f, n, m, key) <=> f = [c \in 0..m |-> IF c = 0 THEN newIndices(n) ELSE B(c)]
      BY DEF Fills
    <2>4. [c \in 0..m |-> IF c = 0 THEN newIndices(n) ELSE A(c)]
            = [c \in 0..m |-> IF c = 0 THEN newIndices(n) ELSE B(c)]
      <3> HIDE DEF A, B
      <3> QED
        BY <2>1
    <2> HIDE DEF A, B, Is
    <2> QED
      BY <2>2, <2>3, <2>4
  <1>3. Is(g)
    <2> HIDE DEF Is
    <2> QED
      BY <1>2
  <1> HIDE DEF Is, g
  <1>4. Fills(g, n, m, key)
    BY <1>2, <1>3
  <1>5. keys = [c \in 0..(maxCapacity(n) - 1) |-> IF c \in 0..(m - 1) THEN key[c] ELSE NoKey]
    <2>1. DOMAIN old = 0..(m - 1) /\ DOMAIN newKeys(n) = 0..(maxCapacity(n) - 1)
      BY DEF Ranked, newKeys
    <2>2. \A c \in 0..(m - 1) : key[c] = move[d.keys[old[c]]]
      BY DEF MovedKeys
    <2> HIDE DEF old
    <2> QED
      BY <2>1, <2>2
  <1>6. values = [c \in 0..(maxCapacity(n) - 1) |->
                    IF c \in 0..(m - 1) THEN d.values[old[c]] ELSE NoValue]
    <2>1. DOMAIN old = 0..(m - 1) /\ DOMAIN newValues(n) = 0..(maxCapacity(n) - 1)
      BY DEF Ranked, newValues
    <2> HIDE DEF old
    <2> QED
      BY <2>1
  <1> HIDE DEF keys, values
  <1>7. /\ e.indices = g[m] /\ e.keys = keys /\ e.values = values /\ e.nextIndex = next
        /\ e.numItems = d.numItems
        /\ e = [indices |-> e.indices, keys |-> e.keys, values |-> e.values,
                nextIndex |-> e.nextIndex, numItems |-> e.numItems]
    BY <1>1 DEF Fields
  <1>8. \E f : Fills(f, n, m, key) /\ e.indices = f[m]
    <2> HIDE DEF m, key
    <2> QED
      BY <1>4, <1>7
  <1>9. /\ e.keys = [c \in 0..(maxCapacity(n) - 1) |->
                      IF c \in 0..(m - 1) THEN key[c] ELSE NoKey]
        /\ e.values = [c \in 0..(maxCapacity(n) - 1) |->
                        IF c \in 0..(m - 1) THEN d.values[old[c]] ELSE NoValue]
    <2> HIDE DEF m, key, old
    <2> QED
      BY <1>5, <1>6, <1>7
  <1> QED
    BY Zenon, <1>7, <1>8, <1>9 DEF Reentered

\* The entries at S are found under their new keys, in their order.
LEMMA ReinsertedOf ==
    ASSUME NEW d, NEW n0, NEW W, Fields(d, n0, W), NoValue \in W, NEW n \in Sizes,
           NEW S \in SUBSET (DOMAIN d.keys), NEW move,
           \A c \in S : move[d.keys[c]] \in Key,
           \A b, c \in S : move[d.keys[b]] = move[d.keys[c]] => b = c,
           NEW next \in Nat, Cardinality(S) <= next, next <= maxCapacity(n),
           NEW e, e = Reinserted(d, S, move, n, next)
    PROVE  /\ Intact(e, n, W) /\ items(e) = 0..(Cardinality(S) - 1)
           /\ e.nextIndex = next /\ e.numItems = d.numItems
           /\ \A c \in items(e) : /\ Ranked(S)[c] \in S
                                  /\ e.keys[c] = move[d.keys[Ranked(S)[c]]]
                                  /\ e.values[c] = d.values[Ranked(S)[c]]
  <1> DEFINE m == Cardinality(S)
             key == MovedKeys(d, S, move)
             cap == maxCapacity(n)
  <1>1. /\ n0 \in Sizes /\ DOMAIN d.keys = 0..(maxCapacity(n0) - 1)
        /\ d.values \in [0..(maxCapacity(n0) - 1) -> W] /\ d.numItems \in Nat
    BY FieldsOf
  <1>2. maxCapacity(n0) \in Nat /\ cap \in Nat /\ n \in Nat
    BY <1>1, Capacities
  <1>3. S \in SUBSET Nat /\ IsFiniteSet(S) /\ m \in Nat
    <2>1. S \in SUBSET Nat /\ S \in SUBSET (0..(maxCapacity(n0) - 1))
      BY <1>1, <1>2
    <2>2. IsFiniteSet(0..(maxCapacity(n0) - 1))
      <3> DEFINE cap0 == maxCapacity(n0)
      <3>1. cap0 - 1 \in Int
        BY <1>2
      <3> HIDE DEF cap0
      <3>2. IsFiniteSet(0..(cap0 - 1))
        BY <3>1, FS_Interval
      <3> QED
        BY <3>2 DEF cap0
    <2>3. IsFiniteSet(S)
      BY <2>1, <2>2, FS_Subset
    <2> QED
      BY <2>1, <2>3, FS_CardinalityType
  <1>4. /\ Ranked(S) \in [0..(m - 1) -> S]
        /\ \A b, c \in 0..(m - 1) : Ranked(S)[b] = Ranked(S)[c] => b = c
    BY <1>3, RankedOf
  <1>5. key \in [0..(m - 1) -> Key]
    <2>1. ASSUME NEW c \in 0..(m - 1) PROVE move[d.keys[Ranked(S)[c]]] \in Key
      <3> HIDE DEF m
      <3> QED
        BY <1>4
    <2>2. key = [c \in 0..(m - 1) |-> move[d.keys[Ranked(S)[c]]]]
      BY DEF MovedKeys
    <2> HIDE DEF m, key
    <2> QED
      BY <2>1, <2>2
  <1>6. \A b, c \in 0..(m - 1) : key[b] = key[c] => b = c
    <2>1. \A c \in 0..(m - 1) : key[c] = move[d.keys[Ranked(S)[c]]]
      BY DEF MovedKeys
    <2> HIDE DEF m, key
    <2> QED
      BY <1>4, <2>1
  <1>7. m <= next /\ next <= cap /\ m <= cap
    BY <1>2, <1>3
  <1>8. /\ \E f : Fills(f, n, m, key)
        /\ \A f : Fills(f, n, m, key) => Filled(f[m], n, key, m)
    <2> HIDE DEF m, key
    <2> QED
      BY <1>3, <1>5, <1>7, FilledAll DEF cap
  <1>9. /\ \E f : Fills(f, n, m, key) /\ e.indices = f[m]
        /\ e.keys = [c \in 0..(cap - 1) |-> IF c \in 0..(m - 1) THEN key[c] ELSE NoKey]
        /\ e.values = [c \in 0..(cap - 1) |->
                         IF c \in 0..(m - 1) THEN d.values[Ranked(S)[c]] ELSE NoValue]
        /\ e.nextIndex = next /\ e.numItems = d.numItems
        /\ e = [indices |-> e.indices, keys |-> e.keys, values |-> e.values,
                nextIndex |-> e.nextIndex, numItems |-> e.numItems]
    <2>1. Reentered(e, d, S, move, n, next)
      <3>1. \E f : Fills(f, n, Cardinality(S), MovedKeys(d, S, move))
        BY <1>8
      <3>2. Cardinality(S) \in Nat
        BY <1>3
      <3> HIDE DEF m, key, cap
      <3> QED
        BY <3>1, <3>2, ReinsertedFields
    <2> QED
      BY <2>1 DEF Reentered
  <1>10. Filled(e.indices, n, key, m)
    <2> HIDE DEF m, key
    <2> QED
      BY <1>8, <1>9
  <1>11. \A c \in 0..(m - 1) : /\ Ranked(S)[c] \in S
                               /\ key[c] = move[d.keys[Ranked(S)[c]]]
                               /\ d.values[Ranked(S)[c]] \in W
    <2>1. ASSUME NEW c \in 0..(m - 1) PROVE Ranked(S)[c] \in S
      <3> HIDE DEF m
      <3> QED
        BY <1>4
    <2>2. \A c \in 0..(m - 1) : key[c] = move[d.keys[Ranked(S)[c]]]
      BY DEF MovedKeys
    <2> QED
      BY <1>1, <2>1, <2>2
  <1> HIDE DEF m, key, cap
  <1>12. Fields(e, n, W)
    <2>1. e.indices \in [0..(n - 1) -> Int]
      BY <1>10 DEF Filled
    <2>2. e.keys \in [0..(cap - 1) -> Key \cup {NoKey}]
      BY <1>5, <1>9
    <2>3. e.values \in [0..(cap - 1) -> W]
      BY <1>9, <1>11
    <2> QED
      BY <1>1, <1>9, <2>1, <2>2, <2>3 DEF Fields, cap
  <1>13. numIndices(e) = n /\ DOMAIN e.indices = 0..(n - 1) /\ DOMAIN e.keys = 0..(cap - 1)
    BY <1>12, FieldsOf DEF cap
  <1>14. \A c \in 0..(cap - 1) : /\ c \in 0..(m - 1) => e.keys[c] = key[c] /\ e.keys[c] \in Key
                                 /\ c \notin 0..(m - 1) => e.keys[c] = NoKey
    BY <1>5, <1>9
  <1>15. 0..(m - 1) \subseteq 0..(cap - 1)
    BY <1>2, <1>3, <1>7
  <1>16. ASSUME NEW i \in 0..(n - 1)
         PROVE  /\ e.indices[i] = Empty \/ e.indices[i] \in 0..(m - 1)
                /\ e.indices[i] >= 0 <=> e.indices[i] # Empty
    <2>1. e.indices[i] = Empty \/ e.indices[i] \in 0..(m - 1)
      BY <1>10 DEF Filled
    <2> QED
      BY <1>3, <2>1 DEF Empty
  <1>17. ASSUME NEW i \in 0..(n - 1), e.indices[i] >= 0
         PROVE  e.keys[e.indices[i]] \in Key /\ stopsAt(e, e.keys[e.indices[i]]) = i
    <2> DEFINE b == e.indices[i]
    <2>1. b \in 0..(m - 1) /\ b # Empty
      BY <1>16, <1>17
    <2>2. e.keys[b] = key[b] /\ e.keys[b] \in Key
      BY <1>14, <1>15, <2>1
    <2>3. Stops(e, key[b]) = {j \in 0..(n - 1) : e.indices[j] = Empty} \cup {i}
      <3>1. ASSUME NEW j \in 0..(n - 1) PROVE holds(e, j, key[b]) <=> j = i
        <4>1. ASSUME j = i PROVE holds(e, j, key[b])
          BY <1>17, <2>2, <4>1 DEF holds
        <4>2. ASSUME holds(e, j, key[b]) PROVE j = i
          <5>1. e.indices[j] >= 0 /\ e.keys[e.indices[j]] = key[b]
            BY <4>2 DEF holds
          <5>2. e.indices[j] \in 0..(m - 1) /\ e.indices[j] # Empty
            BY <1>16, <5>1
          <5>3. key[e.indices[j]] = key[b]
            BY <1>14, <1>15, <5>1, <5>2
          <5>4. e.indices[j] = e.indices[i]
            BY <1>6, <2>1, <5>2, <5>3
          <5> QED
            BY <1>10, <5>2, <5>4 DEF Filled
        <4> QED
          BY <4>1, <4>2
      <3>2. Stops(e, key[b]) = {j \in 0..(n - 1) : e.indices[j] = Empty \/ holds(e, j, key[b])}
        BY <1>13 DEF Stops
      <3> HIDE DEF b
      <3> QED
        BY <3>1, <3>2
    <2>4. firstOf(Stops(e, key[b]), key[b], n) = i
      BY <1>10, <2>1, <2>3 DEF Filled
    <2>5. stopsAt(e, key[b]) = i
      BY <1>13, <2>4 DEF stopsAt, Stops
    <2> QED
      BY <2>2, <2>5
  <1>18. ASSUME NEW c \in 0..(cap - 1), e.keys[c] # NoKey
         PROVE  c < e.nextIndex /\ e.indices[stopsAt(e, e.keys[c])] = c
    <2>1. c \in 0..(m - 1)
      BY <1>14, <1>18
    <2>2. PICK i \in 0..(n - 1) : e.indices[i] = c
      BY <1>10, <2>1 DEF Filled
    <2>3. stopsAt(e, e.keys[c]) = i
      BY <1>17, <2>1, <2>2
    <2>4. c < next
      BY <1>3, <1>7, <2>1
    <2> QED
      BY <1>9, <2>2, <2>3, <2>4
  <1>19. Linked(e)
    <2>1. ASSUME NEW i \in 0..(n - 1) PROVE e.indices[i] \in -2..(e.nextIndex - 1)
      BY <1>3, <1>7, <1>9, <1>16 DEF Empty
    <2> QED
      BY <1>13, <1>17, <1>18, <2>1 DEF Linked
  <1>20. Cardinality(Used(e)) = m
    <2>1. Used(e) = {i \in 0..(n - 1) : e.indices[i] # Empty}
      BY <1>13 DEF Used
    <2> QED
      BY <1>10, <2>1 DEF Filled
  <1>21. Intact(e, n, W)
    BY <1>7, <1>9, <1>12, <1>19, <1>20 DEF Intact, cap
  <1>22. items(e) = 0..(m - 1)
    <2>1. \A c \in DOMAIN e.keys : e.keys[c] # NoKey => c < e.nextIndex
      BY <1>13, <1>18
    <2>2. items(e) = {c \in 0..(cap - 1) : e.keys[c] # NoKey}
      BY <1>12, <1>13, <2>1, ItemsOf
    <2>3. NoKey \notin Key
      BY DictAssumption
    <2> QED
      BY <1>14, <1>15, <2>2, <2>3
  <1>23. ASSUME NEW c \in items(e)
         PROVE  /\ Ranked(S)[c] \in S
                /\ e.keys[c] = move[d.keys[Ranked(S)[c]]] /\ e.values[c] = d.values[Ranked(S)[c]]
    <2>1. c \in 0..(m - 1) /\ c \in 0..(cap - 1)
      BY <1>15, <1>22
    <2> QED
      BY <1>9, <1>11, <1>14, <2>1
  <1> QED
    BY <1>9, <1>21, <1>22, <1>23 DEF m

LEMMA FirstNumbers ==
    ASSUME NEW m \in Nat
    PROVE  IsFiniteSet(0..(m - 1)) /\ Cardinality(0..(m - 1)) = m
  <1>1. IsFiniteSet(0..(m - 1)) /\ Cardinality(0..(m - 1)) = IF 0 > m - 1 THEN 0 ELSE (m - 1) - 0 + 1
    BY FS_Interval
  <1> QED
    BY <1>1

\* The map of e has the entries of d at S, under their new keys.
Carries(e, d, S, move) ==
    /\ \A k \in DOMAIN at(e) : \E c \in S : move[d.keys[c]] = k
    /\ \A c \in S : /\ move[d.keys[c]] \in DOMAIN at(e)
                    /\ at(e)[move[d.keys[c]]] = d.values[c]

LEMMA ReinsertedMap ==
    ASSUME NEW d, NEW n0, NEW W, Fields(d, n0, W), NoValue \in W, NEW n \in Sizes,
           NEW S \in SUBSET (DOMAIN d.keys), NEW move,
           \A c \in S : move[d.keys[c]] \in Key,
           \A b, c \in S : move[d.keys[b]] = move[d.keys[c]] => b = c,
           NEW next \in Nat, Cardinality(S) <= next, next <= maxCapacity(n),
           NEW e, e = Reinserted(d, S, move, n, next)
    PROVE  /\ Intact(e, n, W) /\ Cardinality(items(e)) = Cardinality(S) /\ Cardinality(S) \in Nat
           /\ e.nextIndex = next /\ e.numItems = d.numItems
           /\ Carries(e, d, S, move)
  <1> DEFINE m == Cardinality(S)
             old == Ranked(S)
  <1>1. S \in SUBSET Nat /\ IsFiniteSet(S) /\ m \in Nat
    <2> DEFINE cap0 == maxCapacity(n0)
    <2>1. n0 \in Sizes /\ DOMAIN d.keys = 0..(cap0 - 1)
      BY FieldsOf
    <2>2. cap0 \in Nat
      BY <2>1, Capacities
    <2> HIDE DEF cap0
    <2>3. S \in SUBSET Nat /\ S \in SUBSET (0..(cap0 - 1))
      BY <2>1, <2>2
    <2>4. IsFiniteSet(S)
      BY <2>2, <2>3, FirstNumbers, FS_Subset
    <2> QED
      BY <2>3, <2>4, FS_CardinalityType
  <1>2. /\ Intact(e, n, W) /\ items(e) = 0..(m - 1)
        /\ e.nextIndex = next /\ e.numItems = d.numItems
        /\ \A c \in items(e) : /\ old[c] \in S
                               /\ e.keys[c] = move[d.keys[old[c]]]
                               /\ e.values[c] = d.values[old[c]]
    BY ReinsertedOf
  <1>3. \A s \in S : \E c \in 0..(m - 1) : old[c] = s
    BY <1>1, RankedOf
  <1>4. Cardinality(items(e)) = m
    <2> HIDE DEF m
    <2> QED
      BY <1>1, <1>2, FirstNumbers
  <1>5. Agrees(e)
    BY <1>2, MapOf
  <1> HIDE DEF m, old
  <1>6. ASSUME NEW s \in S
        PROVE  move[d.keys[s]] \in DOMAIN at(e) /\ at(e)[move[d.keys[s]]] = d.values[s]
    <2>1. PICK c \in items(e) : old[c] = s
      BY <1>2, <1>3
    <2>2. e.keys[c] = move[d.keys[s]] /\ e.values[c] = d.values[s]
      BY <1>2, <2>1
    <2> QED
      BY <1>5, <2>2 DEF Agrees
  <1>7. ASSUME NEW k \in DOMAIN at(e) PROVE \E s \in S : move[d.keys[s]] = k
    <2>1. PICK c \in items(e) : e.keys[c] = k
      BY <1>5 DEF Agrees
    <2> QED
      BY <1>2, <2>1
  <1>8. Carries(e, d, S, move)
    BY <1>6, <1>7 DEF Carries
  <1> QED
    BY <1>1, <1>2, <1>4, <1>6, <1>8 DEF m

\* rehash() changes no entry.
LEMMA RehashedOf ==
    ASSUME NEW d, NEW n0, NEW W, Intact(d, n0, W), NoValue \in W, NEW n \in Sizes,
           Cardinality(items(d)) <= d.numItems, d.numItems <= maxCapacity(n),
           NEW e, e = rehash(d, n)
    PROVE  /\ Intact(e, n, W) /\ at(e) = at(d)
           /\ Cardinality(items(e)) = Cardinality(items(d))
           /\ e.nextIndex = d.numItems /\ e.numItems = d.numItems
  <1> DEFINE S == items(d)
  <1>1. Fields(d, n0, W) /\ d.numItems \in Nat /\ d.nextIndex \in Nat
    BY IntactOf, FieldsOf
  <1>2. S \in SUBSET (DOMAIN d.keys) /\ \A c \in S : d.keys[c] \in Key
    BY <1>1, IntactOf, ItemsOf
  <1>3. \A c \in S : Unmoved[d.keys[c]] = d.keys[c]
    BY <1>2 DEF Unmoved
  <1>4. Agrees(d)
    BY MapOf
  <1>5. \A c \in S : Unmoved[d.keys[c]] \in Key
    BY <1>2, <1>3
  <1>6. \A b, c \in S : Unmoved[d.keys[b]] = Unmoved[d.keys[c]] => b = c
    BY <1>3, <1>4 DEF Agrees
  <1>7. e = Reinserted(d, S, Unmoved, n, d.numItems)
    BY DEF rehash
  <1>8. Cardinality(S) <= d.numItems
    OBVIOUS
  <1> HIDE DEF S
  <1>9. /\ Intact(e, n, W) /\ Cardinality(items(e)) = Cardinality(S)
        /\ e.nextIndex = d.numItems /\ e.numItems = d.numItems
        /\ Carries(e, d, S, Unmoved)
    BY <1>1, <1>2, <1>5, <1>6, <1>7, <1>8, ReinsertedMap
  <1>10. DOMAIN at(e) = DOMAIN at(d)
    <2>1. ASSUME NEW k \in DOMAIN at(d) PROVE k \in DOMAIN at(e)
      BY <1>3, <1>4, <1>9 DEF Agrees, Carries, S
    <2>2. ASSUME NEW k \in DOMAIN at(e) PROVE k \in DOMAIN at(d)
      BY <1>3, <1>4, <1>9 DEF Agrees, Carries, S
    <2> QED
      BY <2>1, <2>2
  <1>11. ASSUME NEW k \in DOMAIN at(d) PROVE at(e)[k] = at(d)[k]
    <2>1. PICK c \in S : d.keys[c] = k
      BY <1>4 DEF Agrees, S
    <2>2. at(d)[k] = d.values[c]
      BY <1>4, <2>1 DEF Agrees, S
    <2>3. at(e)[k] = d.values[c]
      BY <1>3, <1>9, <2>1 DEF Carries
    <2> QED
      BY <2>2, <2>3
  <1>12. at(d) = [k \in DOMAIN at(d) |-> at(d)[k]]
    BY <1>4 DEF Agrees
  <1>13. at(e) = [k \in DOMAIN at(e) |-> at(e)[k]]
    BY <1>9, MapOf DEF Agrees
  <1>14. at(e) = at(d)
    BY <1>10, <1>11, <1>12, <1>13
  <1> QED
    BY <1>9, <1>14 DEF S

-----------------------------------------------------------------------------
(***************************************************************************)
(* The operations on a dictionary with room for an entry, whose count is   *)
(* not below its entries, and not so far above that grow() falls short.    *)
(***************************************************************************)

Counts(d, n) ==
    /\ Cardinality(items(d)) <= d.numItems
    /\ d.numItems < d.nextIndex + maxCapacity(n)

Ready(d, n, W) == Intact(d, n, W) /\ d.nextIndex < maxCapacity(n) /\ Counts(d, n)

\* What a dictionary may become whose map changes: the number of its entries and
\* its count change by the same.
Becomes(e, W, map, numItems, number) ==
    /\ \E n \in Sizes : Ready(e, n, W)
    /\ at(e) = map /\ e.numItems = numItems /\ Cardinality(items(e)) = number

With(map, k, v) == [x \in DOMAIN map \cup {k} |-> IF x = k THEN v ELSE map[x]]

LEMMA ItemsBelow ==
    ASSUME NEW d, NEW n, NEW W, Intact(d, n, W)
    PROVE  /\ IsFiniteSet(items(d)) /\ Cardinality(items(d)) \in Nat
           /\ Cardinality(items(d)) <= d.nextIndex
           /\ d.nextIndex \in Nat /\ d.numItems \in Nat
           /\ n \in Sizes /\ numIndices(d) = n /\ capacity(d) = maxCapacity(n)
           /\ maxCapacity(n) \in Nat
  <1>1. /\ Fields(d, n, W) /\ d.nextIndex \in Nat /\ d.numItems \in Nat
        /\ n \in Sizes /\ numIndices(d) = n /\ capacity(d) = maxCapacity(n)
    BY IntactOf, FieldsOf
  <1>2. maxCapacity(n) \in Nat
    BY <1>1, Capacities
  <1>3. IsFiniteSet(items(d)) /\ Cardinality(items(d)) \in Nat
    BY <1>1, IntactOf, ItemsOf
  <1>4. Cardinality(items(d)) <= d.nextIndex
    <2>1. items(d) \in SUBSET (0..(d.nextIndex - 1))
      BY DEF items
    <2>2. /\ IsFiniteSet(0..(d.nextIndex - 1))
          /\ Cardinality(0..(d.nextIndex - 1)) = d.nextIndex
      BY <1>1, FirstNumbers
    <2> QED
      BY <2>1, <2>2, FS_Subset
  <1> QED
    BY <1>1, <1>2, <1>3, <1>4

\* grow() makes room.
LEMMA GrownOf ==
    ASSUME NEW d, NEW n, NEW W, Intact(d, n, W), NoValue \in W, n <= 64, Counts(d, n),
           d.nextIndex = maxCapacity(n), NEW e, e = grow(d)
    PROVE  Becomes(e, W, at(d), d.numItems, Cardinality(items(d)))
  <1> DEFINE cap == maxCapacity(n)
             n1 == n * growthFactor(d)
  <1>1. /\ n \in Sizes /\ numIndices(d) = n /\ capacity(d) = cap /\ d.numItems \in Nat
        /\ cap \in Nat /\ Cardinality(items(d)) \in Nat
    BY ItemsBelow
  <1>2. n1 \in Sizes /\ d.numItems < maxCapacity(n1)
    <2>1. /\ n \in Nat /\ cap >= 1
          /\ cap + cap <= maxCapacity(n * 2) /\ n * 2 \in Sizes /\ maxCapacity(n * 2) \in Nat
      BY <1>1, Capacities
    <2>2. CASE d.numItems < capacity(d) \div 2
      <3>1. n1 = n
        BY <2>1, <2>2 DEF growthFactor
      <3>2. d.numItems < cap
        <4>1. cap \div 2 <= cap /\ cap \div 2 \in Nat
          <5> HIDE DEF cap
          <5> QED
            BY <1>1
        <4> HIDE DEF cap
        <4> QED
          BY <1>1, <2>2, <4>1
      <3> QED
        BY <1>1, <3>1, <3>2
    <2>3. CASE ~ (d.numItems < capacity(d) \div 2)
      <3>1. n1 = n * 2
        BY <2>3 DEF growthFactor
      <3>2. d.numItems < cap + cap
        BY DEF Counts
      <3>3. d.numItems < maxCapacity(n * 2)
        <4> HIDE DEF cap
        <4> QED
          BY <1>1, <2>1, <3>2
      <3> QED
        BY <2>1, <3>1, <3>3
    <2> QED
      BY <2>2, <2>3
  <1> HIDE DEF n1
  <1>3. e = rehash(d, n1)
    BY <1>1 DEF grow, n1
  <1>4. /\ Intact(e, n1, W) /\ at(e) = at(d)
        /\ Cardinality(items(e)) = Cardinality(items(d))
        /\ e.nextIndex = d.numItems /\ e.numItems = d.numItems
    <2>1. Cardinality(items(d)) <= d.numItems
      BY DEF Counts
    <2>2. maxCapacity(n1) \in Nat
      BY <1>2, Capacities
    <2>3. d.numItems <= maxCapacity(n1)
      BY <1>1, <1>2, <2>2
    <2> QED
      BY <1>2, <1>3, <2>1, <2>3, RehashedOf
  <1>5. Ready(e, n1, W)
    <2>1. maxCapacity(n1) \in Nat /\ maxCapacity(n1) >= 1
      BY <1>2, Capacities
    <2>2. Cardinality(items(e)) <= e.numItems
      BY <1>4 DEF Counts
    <2>3. e.numItems < e.nextIndex + maxCapacity(n1)
      BY <1>1, <1>4, <2>1
    <2> QED
      BY <1>2, <1>4, <2>2, <2>3 DEF Ready, Counts
  <1> QED
    BY <1>2, <1>4, <1>5 DEF Becomes

\* The value of an entry changes, and nothing else.
LEMMA ValueOf ==
    ASSUME NEW d, NEW n, NEW W, Intact(d, n, W), NEW c \in items(d), NEW v \in W,
           NEW e, Fields(e, n, W), SetsValue(e, d, c, v)
    PROVE  /\ Intact(e, n, W) /\ items(e) = items(d)
           /\ e.nextIndex = d.nextIndex /\ e.numItems = d.numItems
           /\ at(e) = With(at(d), d.keys[c], v)
  <1>1. Fields(d, n, W)
    BY IntactOf
  <1>2. c \in 0..(maxCapacity(n) - 1) /\ items(d) \in SUBSET (0..(maxCapacity(n) - 1))
    BY <1>1, IntactOf, ItemsOf
  <1>3. /\ e.keys = d.keys /\ e.values = [d.values EXCEPT ![c] = v] /\ e.indices = d.indices
        /\ e.nextIndex = d.nextIndex /\ e.numItems = d.numItems
    BY DEF SetsValue
  <1>4. Intact(e, n, W) /\ items(e) = items(d)
    BY <1>3, SameIndices
  <1>5. Agrees(d) /\ Agrees(e)
    BY <1>4, MapOf
  <1>6. /\ e.values[c] = v
        /\ \A b \in items(d) : b # c => e.values[b] = d.values[b]
    <2>1. d.values \in [0..(maxCapacity(n) - 1) -> W]
      BY <1>1, FieldsOf
    <2> QED
      BY <1>2, <1>3, <2>1
  <1>7. DOMAIN at(e) = DOMAIN at(d) /\ d.keys[c] \in DOMAIN at(d)
    <2>1. ASSUME NEW k \in DOMAIN at(d) PROVE k \in DOMAIN at(e)
      BY <1>3, <1>4, <1>5 DEF Agrees
    <2>2. ASSUME NEW k \in DOMAIN at(e) PROVE k \in DOMAIN at(d)
      BY <1>3, <1>4, <1>5 DEF Agrees
    <2>3. d.keys[c] \in DOMAIN at(d)
      BY <1>5 DEF Agrees
    <2> QED
      BY <2>1, <2>2, <2>3
  <1>8. ASSUME NEW k \in DOMAIN at(d)
        PROVE  at(e)[k] = IF k = d.keys[c] THEN v ELSE at(d)[k]
    <2>1. PICK b \in items(d) : d.keys[b] = k
      BY <1>5 DEF Agrees
    <2>2. at(d)[k] = d.values[b]
      BY <1>5, <2>1 DEF Agrees
    <2>3. at(e)[k] = e.values[b]
      <3>1. b \in items(e) /\ e.keys[b] = k
        BY <1>3, <1>4, <2>1
      <3> QED
        BY <1>5, <3>1 DEF Agrees
    <2>4. b = c <=> k = d.keys[c]
      BY <1>5, <2>1 DEF Agrees
    <2> QED
      BY <1>6, <2>2, <2>3, <2>4
  <1>9. at(e) = [k \in DOMAIN at(e) |-> at(e)[k]]
    BY <1>5 DEF Agrees
  <1>10. DOMAIN at(d) \cup {d.keys[c]} = DOMAIN at(d)
    BY <1>7
  <1>11. at(e) = With(at(d), d.keys[c], v)
    BY <1>7, <1>8, <1>9, <1>10 DEF With
  <1> QED
    BY <1>3, <1>4, <1>11

\* The entry that atPutLookup() finds or makes.
LEMMA AtPutLookupOf ==
    ASSUME NEW d, NEW n, NEW W, Ready(d, n, W), NEW k \in Key,
           NEW more, more = (IF k \in DOMAIN at(d) THEN 0 ELSE 1),
           NEW e, e = atPutLookup(d, k), NEW c, c = e.indices[stopsAt(e, k)]
    PROVE  /\ Intact(e, n, W) /\ Counts(e, n)
           /\ c \in items(e) /\ e.keys[c] = k
           /\ e.numItems = d.numItems + more
           /\ Cardinality(items(e)) = Cardinality(items(d)) + more
           /\ \A v : With(at(e), k, v) = With(at(d), k, v)
  <1>1. Intact(d, n, W) /\ d.nextIndex < maxCapacity(n) /\ Counts(d, n)
    BY DEF Ready
  <1>2. Agrees(d)
    BY <1>1, MapOf
  <1>3. lookup(d, k) <=> k \in DOMAIN at(d)
    BY <1>2 DEF Agrees
  <1>4. /\ IsFiniteSet(items(d)) /\ Cardinality(items(d)) \in Nat /\ d.numItems \in Nat
        /\ d.nextIndex \in Nat /\ maxCapacity(n) \in Nat
    BY <1>1, ItemsBelow
  <1>5. CASE lookup(d, k)
    <2>1. e = d
      BY <1>5 DEF atPutLookup
    <2>2. more = 0
      BY <1>3, <1>5
    <2>3. c \in items(e) /\ e.keys[c] = k
      BY <1>1, <1>5, <2>1, LookupOf
    <2>4. /\ e.numItems = d.numItems + more
          /\ Cardinality(items(e)) = Cardinality(items(d)) + more
      BY <1>4, <2>1, <2>2
    <2> QED
      BY <1>1, <2>1, <2>3, <2>4
  <1>6. CASE ~lookup(d, k)
    <2>1. e = inserted(d, k)
      BY <1>6 DEF atPutLookup
    <2>2. /\ Intact(e, n, W)
          /\ items(e) = items(d) \cup {d.nextIndex} /\ d.nextIndex \notin items(d)
          /\ e.keys = [d.keys EXCEPT ![d.nextIndex] = k] /\ e.values = d.values
          /\ e.nextIndex = d.nextIndex + 1 /\ e.numItems = d.numItems + 1
          /\ c = d.nextIndex
      BY <1>1, <1>6, <2>1, InsertedOf
    <2>3. more = 1
      BY <1>3, <1>6
    <2>4. Cardinality(items(e)) = Cardinality(items(d)) + 1
      BY <1>4, <2>2, FS_AddElement
    <2>5. Counts(e, n)
      BY <1>1, <1>4, <2>2, <2>4 DEF Counts
    <2>6. /\ e.keys[c] = k
          /\ \A b \in items(d) : e.keys[b] = d.keys[b]
      <3>1. d.keys \in [0..(maxCapacity(n) - 1) -> Key \cup {NoKey}]
        BY <1>1, IntactOf, FieldsOf
      <3>2. c \in 0..(maxCapacity(n) - 1)
        BY <1>1, <1>4, <2>2
      <3>3. items(d) \in SUBSET (0..(maxCapacity(n) - 1))
        BY <1>1, IntactOf, ItemsOf
      <3> QED
        BY <2>2, <3>1, <3>2, <3>3
    <2>7. Agrees(e)
      BY <2>2, MapOf
    <2>8. DOMAIN at(e) = DOMAIN at(d) \cup {k}
      <3>1. ASSUME NEW j \in DOMAIN at(e) PROVE j \in DOMAIN at(d) \cup {k}
        <4>1. PICK b \in items(e) : e.keys[b] = j
          BY <2>7 DEF Agrees
        <4>2. CASE b = c
          BY <2>6, <4>1, <4>2
        <4>3. CASE b # c
          <5>1. b \in items(d) /\ d.keys[b] = j
            BY <2>2, <2>6, <4>1, <4>3
          <5> QED
            BY <1>2, <5>1 DEF Agrees
        <4> QED
          BY <4>2, <4>3
      <3>2. ASSUME NEW j \in DOMAIN at(d) PROVE j \in DOMAIN at(e)
        <4>1. PICK b \in items(d) : d.keys[b] = j
          BY <1>2 DEF Agrees
        <4>2. b \in items(e) /\ e.keys[b] = j
          BY <2>2, <2>6, <4>1
        <4> QED
          BY <2>7, <4>2 DEF Agrees
      <3>3. k \in DOMAIN at(e)
        <4>1. c \in items(e)
          BY <2>2
        <4> QED
          BY <2>6, <2>7, <4>1 DEF Agrees
      <3> QED
        BY <3>1, <3>2, <3>3
    <2>9. ASSUME NEW j \in DOMAIN at(d) PROVE at(e)[j] = at(d)[j]
      <3>1. PICK b \in items(d) : d.keys[b] = j
        BY <1>2 DEF Agrees
      <3>2. b \in items(e) /\ e.keys[b] = j /\ e.values[b] = d.values[b]
        BY <2>2, <2>6, <3>1
      <3>3. at(d)[j] = d.values[b]
        BY <1>2, <3>1 DEF Agrees
      <3>4. at(e)[j] = e.values[b]
        BY <2>7, <3>2 DEF Agrees
      <3> QED
        BY <3>2, <3>3, <3>4
    <2>10. ASSUME NEW v PROVE With(at(e), k, v) = With(at(d), k, v)
      <3>1. k \notin DOMAIN at(d)
        BY <1>3, <1>6
      <3> QED
        BY <2>8, <2>9, <3>1 DEF With
    <2> QED
      BY <2>2, <2>3, <2>4, <2>5, <2>6, <2>10
  <1> QED
    BY <1>5, <1>6

\* atPut() maps k to v.
LEMMA AtPutOf ==
    ASSUME NEW d, NEW n, NEW W, Ready(d, n, W), NoValue \in W, n <= 64, NEW k \in Key, NEW v \in W,
           NEW more, more = (IF k \in DOMAIN at(d) THEN 0 ELSE 1)
    PROVE  Becomes(atPut(d, k, v), W, With(at(d), k, v),
                   d.numItems + more, Cardinality(items(d)) + more)
  <1> DEFINE e == atPutLookup(d, k)
             c == e.indices[stopsAt(e, k)]
             f == [e EXCEPT !.values[c] = v]
  <1>1. /\ Intact(e, n, W) /\ Counts(e, n)
        /\ c \in items(e) /\ e.keys[c] = k
        /\ e.numItems = d.numItems + more
        /\ Cardinality(items(e)) = Cardinality(items(d)) + more
        /\ \A w : With(at(e), k, w) = With(at(d), k, w)
    BY AtPutLookupOf
  <1>2. atPut(d, k, v) = IF hasUsableItem(f) THEN f ELSE grow(f)
    BY DEF atPut, atPutValue
  <1> HIDE DEF e, c
  <1>3. Fields(e, n, W) /\ c \in 0..(maxCapacity(n) - 1)
    BY <1>1, IntactOf, ItemsOf
  <1>4. Fields(f, n, W) /\ SetsValue(f, e, c, v)
    BY <1>3, ValueFields
  <1> HIDE DEF f
  <1>5. /\ Intact(f, n, W) /\ items(f) = items(e)
        /\ f.nextIndex = e.nextIndex /\ f.numItems = e.numItems
        /\ at(f) = With(at(e), k, v)
    BY <1>1, <1>4, ValueOf
  <1>6. Counts(f, n) /\ at(f) = With(at(d), k, v)
    BY <1>1, <1>5 DEF Counts
  <1>7. /\ f.nextIndex \in Nat /\ f.nextIndex <= maxCapacity(n) /\ capacity(f) = maxCapacity(n)
        /\ maxCapacity(n) \in Nat /\ n \in Sizes
    BY <1>5, ItemsBelow DEF Intact
  <1>8. CASE hasUsableItem(f)
    <2>1. f.nextIndex < maxCapacity(n)
      BY <1>7, <1>8 DEF hasUsableItem
    <2>2. Ready(f, n, W)
      BY <1>5, <1>6, <2>1 DEF Ready
    <2> QED
      BY <1>1, <1>2, <1>5, <1>6, <1>7, <1>8, <2>2 DEF Becomes
  <1>9. CASE ~hasUsableItem(f)
    <2>1. f.nextIndex = maxCapacity(n)
      BY <1>7, <1>9 DEF hasUsableItem
    <2>2. Becomes(grow(f), W, at(f), f.numItems, Cardinality(items(f)))
      BY <1>5, <1>6, <2>1, GrownOf
    <2> QED
      BY <1>1, <1>2, <1>5, <1>6, <1>9, <2>2
  <1> QED
    BY <1>8, <1>9

Without(map, k) == [x \in DOMAIN map \ {k} |-> map[x]]

\* remove() drops k, if it has an entry.
LEMMA RemoveOf ==
    ASSUME NEW d, NEW n, NEW W, Ready(d, n, W), NoValue \in W, NEW k \in Key,
           NEW less, less = (IF k \in DOMAIN at(d) THEN 1 ELSE 0), NEW e, e = remove(d, k)
    PROVE  /\ Ready(e, n, W) /\ at(e) = Without(at(d), k)
           /\ e.numItems = d.numItems - less
           /\ Cardinality(items(e)) = Cardinality(items(d)) - less
  <1>1. Intact(d, n, W) /\ d.nextIndex < maxCapacity(n) /\ Counts(d, n)
    BY DEF Ready
  <1>2. Agrees(d)
    BY <1>1, MapOf
  <1>3. lookup(d, k) <=> k \in DOMAIN at(d)
    BY <1>2 DEF Agrees
  <1>4. /\ IsFiniteSet(items(d)) /\ Cardinality(items(d)) \in Nat /\ d.numItems \in Nat
        /\ d.nextIndex \in Nat /\ maxCapacity(n) \in Nat
    BY <1>1, ItemsBelow
  <1>5. CASE ~lookup(d, k)
    <2>1. e = d /\ less = 0
      BY <1>3, <1>5 DEF remove
    <2>2. DOMAIN at(d) \ {k} = DOMAIN at(d)
      BY <1>3, <1>5
    <2>3. at(d) = Without(at(d), k)
      BY <1>2, <2>2 DEF Agrees, Without
    <2> QED
      BY <1>4, <2>1, <2>3
  <1>6. CASE lookup(d, k)
    <2> DEFINE x == d.indices[stopsAt(d, k)]
    <2>1. x \in items(d)
      BY <1>1, <1>6, LookupOf
    <2>2. Cardinality(items(d)) >= 1 /\ Cardinality(items(d) \ {x}) = Cardinality(items(d)) - 1
      <3>1. Cardinality(items(d) \ {x}) = IF x \in items(d) THEN Cardinality(items(d)) - 1
                                          ELSE Cardinality(items(d))
        BY <1>4, FS_RemoveElement
      <3>2. IsFiniteSet(items(d) \ {x})
        BY <1>4, FS_RemoveElement
      <3>3. Cardinality(items(d) \ {x}) \in Nat
        BY <3>2, FS_CardinalityType
      <3> HIDE DEF x
      <3> QED
        BY <1>4, <2>1, <3>1, <3>3
    <2>3. d.numItems >= 1
      BY <1>1, <1>4, <2>2 DEF Counts
    <2>4. /\ Intact(e, n, W) /\ d.keys[x] = k /\ items(e) = items(d) \ {x}
          /\ \A c \in items(e) : e.keys[c] = d.keys[c] /\ e.values[c] = d.values[c]
          /\ e.nextIndex = d.nextIndex /\ e.numItems = d.numItems - 1
      BY <1>1, <1>6, <2>3, RemovedOf
    <2> HIDE DEF x
    <2>5. less = 1
      BY <1>3, <1>6
    <2>6. Counts(e, n)
      BY <1>1, <1>4, <2>2, <2>4 DEF Counts
    <2>7. Ready(e, n, W)
      BY <1>1, <2>4, <2>6 DEF Ready
    <2>8. Agrees(e)
      BY <2>4, MapOf
    <2>9. DOMAIN at(e) = DOMAIN at(d) \ {k}
      <3>1. ASSUME NEW j \in DOMAIN at(e) PROVE j \in DOMAIN at(d) \ {k}
        <4>1. PICK b \in items(e) : e.keys[b] = j
          BY <2>8 DEF Agrees
        <4>2. b \in items(d) /\ b # x /\ d.keys[b] = j
          BY <2>4, <4>1
        <4>3. j \in DOMAIN at(d)
          BY <1>2, <4>2 DEF Agrees
        <4>4. j # k
          BY <1>2, <2>1, <2>4, <4>2 DEF Agrees
        <4> QED
          BY <4>3, <4>4
      <3>2. ASSUME NEW j \in DOMAIN at(d) \ {k} PROVE j \in DOMAIN at(e)
        <4>1. PICK b \in items(d) : d.keys[b] = j
          BY <1>2 DEF Agrees
        <4>2. b \in items(e) /\ e.keys[b] = j
          BY <2>4, <4>1
        <4> QED
          BY <2>8, <4>2 DEF Agrees
      <3> QED
        BY <3>1, <3>2
    <2>10. ASSUME NEW j \in DOMAIN at(e) PROVE at(e)[j] = at(d)[j]
      <3>1. PICK b \in items(e) : e.keys[b] = j
        BY <2>8 DEF Agrees
      <3>2. b \in items(d) /\ d.keys[b] = j /\ e.values[b] = d.values[b]
        BY <2>4, <3>1
      <3>3. at(d)[j] = d.values[b]
        BY <1>2, <3>2 DEF Agrees
      <3>4. at(e)[j] = e.values[b]
        BY <2>8, <3>1 DEF Agrees
      <3> QED
        BY <3>2, <3>3, <3>4
    <2>11. at(e) = [j \in DOMAIN at(e) |-> at(e)[j]]
      BY <2>8 DEF Agrees
    <2>12. at(e) = Without(at(d), k)
      BY <2>9, <2>10, <2>11 DEF Without
    <2> QED
      BY <2>2, <2>4, <2>5, <2>7, <2>12
  <1> QED
    BY <1>5, <1>6

\* visitKeys() moves the keys, and nothing else.
LEMMA VisitedFields ==
    ASSUME NEW d, NEW n, NEW W, Fields(d, n, W), NEW move,
           \A c \in DOMAIN d.keys : d.keys[c] # NoKey => move[d.keys[c]] \in Key,
           NEW e, e = visitKeys(d, move)
    PROVE  /\ Fields(e, n, W)
           /\ e.keys = [c \in DOMAIN d.keys |-> IF d.keys[c] = NoKey THEN NoKey ELSE move[d.keys[c]]]
           /\ e.values = d.values /\ e.nextIndex = d.nextIndex /\ e.numItems = d.numItems
  <1> DEFINE keys == [c \in DOMAIN d.keys |-> IF d.keys[c] = NoKey THEN NoKey ELSE move[d.keys[c]]]
  <1>1. e = [d EXCEPT !.keys = keys]
    BY DEF visitKeys
  <1>2. d.keys \in [0..(maxCapacity(n) - 1) -> Key \cup {NoKey}]
    BY FieldsOf
  <1>3. keys \in [0..(maxCapacity(n) - 1) -> Key \cup {NoKey}]
    BY <1>2
  <1> HIDE DEF keys
  <1>4. /\ Fields(e, n, W) /\ e.keys = keys
        /\ e.values = d.values /\ e.nextIndex = d.nextIndex /\ e.numItems = d.numItems
    BY <1>1, <1>3 DEF Fields
  <1> QED
    BY <1>4 DEF keys

\* What a map f becomes when its keys move.
Moved(g, f, move) ==
    /\ \A k \in DOMAIN g : \E j \in DOMAIN f : move[j] = k
    /\ \A j \in DOMAIN f : move[j] \in DOMAIN g /\ g[move[j]] = f[j]

\* visitKeys() and rehash() together move the keys of the map.
LEMMA FollowedOf ==
    ASSUME NEW d, NEW n, NEW W, Ready(d, n, W), NoValue \in W, d.numItems = Cardinality(items(d)),
           NEW move, \A k \in DOMAIN at(d) : move[k] \in Key,
           \A j, k \in DOMAIN at(d) : move[j] = move[k] => j = k,
           NEW m, m = visitKeys(d, move), NEW e, e = rehash(m, numIndices(m))
    PROVE  /\ Ready(e, n, W) /\ e.numItems = Cardinality(items(e))
           /\ Moved(at(e), at(d), move)
  <1>1. Intact(d, n, W) /\ d.nextIndex < maxCapacity(n) /\ Counts(d, n)
    BY DEF Ready
  <1>2. Agrees(d) /\ Fields(d, n, W)
    BY <1>1, MapOf, IntactOf
  <1>3. /\ IsFiniteSet(items(d)) /\ Cardinality(items(d)) \in Nat /\ d.numItems \in Nat
        /\ Cardinality(items(d)) <= d.nextIndex
        /\ d.nextIndex \in Nat /\ maxCapacity(n) \in Nat /\ n \in Sizes
    BY <1>1, ItemsBelow
  <1>4. items(d) = {c \in DOMAIN d.keys : d.keys[c] # NoKey}
    BY <1>1, <1>2, IntactOf, ItemsOf
  <1>5. ASSUME NEW c \in items(d)
        PROVE  d.keys[c] # NoKey /\ d.keys[c] \in DOMAIN at(d) /\ move[d.keys[c]] \in Key
    BY <1>2, <1>4 DEF Agrees
  <1>6. /\ Fields(m, n, W)
        /\ m.keys = [c \in DOMAIN d.keys |-> IF d.keys[c] = NoKey THEN NoKey ELSE move[d.keys[c]]]
        /\ m.values = d.values /\ m.nextIndex = d.nextIndex /\ m.numItems = d.numItems
    <2>1. \A c \in DOMAIN d.keys : d.keys[c] # NoKey => move[d.keys[c]] \in Key
      BY <1>4, <1>5
    <2> QED
      BY <1>2, <2>1, VisitedFields
  <1>7. DOMAIN m.keys = DOMAIN d.keys /\ numIndices(m) = n
    BY <1>6, FieldsOf
  <1>8. ASSUME NEW c \in DOMAIN d.keys
        PROVE  /\ m.keys[c] # NoKey <=> d.keys[c] # NoKey
               /\ d.keys[c] # NoKey => m.keys[c] = move[d.keys[c]]
    BY <1>4, <1>5, <1>6, DictAssumption
  <1>9. items(m) = items(d)
    <2>1. \A c \in DOMAIN m.keys : m.keys[c] # NoKey => c < m.nextIndex
      BY <1>1, <1>6, <1>7, <1>8, IntactOf
    <2>2. items(m) = {c \in DOMAIN m.keys : m.keys[c] # NoKey}
      BY <1>6, <2>1, ItemsOf
    <2> QED
      BY <1>4, <1>7, <1>8, <2>2
  <1> DEFINE S == items(d)
  <1>10. S \in SUBSET (DOMAIN m.keys)
    BY <1>4, <1>7
  <1>11. ASSUME NEW c \in S
         PROVE  m.keys[c] = move[d.keys[c]] /\ Unmoved[m.keys[c]] = m.keys[c] /\ m.keys[c] \in Key
    BY <1>4, <1>5, <1>8 DEF Unmoved
  <1>12. e = Reinserted(m, S, Unmoved, n, d.numItems)
    BY <1>6, <1>7, <1>9 DEF rehash
  <1> HIDE DEF S
  <1>13. \A c \in S : Unmoved[m.keys[c]] \in Key
    BY <1>11
  <1>14. \A b, c \in S : Unmoved[m.keys[b]] = Unmoved[m.keys[c]] => b = c
    <2>1. ASSUME NEW b \in S, NEW c \in S, Unmoved[m.keys[b]] = Unmoved[m.keys[c]] PROVE b = c
      <3>1. move[d.keys[b]] = move[d.keys[c]]
        BY <1>11, <2>1
      <3>2. d.keys[b] = d.keys[c]
        BY <1>5, <3>1 DEF S
      <3> QED
        BY <1>2, <3>2 DEF Agrees, S
    <2> QED
      BY <2>1
  <1>15. d.numItems = Cardinality(S) /\ d.numItems <= maxCapacity(n)
    BY <1>1, <1>3 DEF S
  <1>16. /\ Intact(e, n, W) /\ Cardinality(items(e)) = Cardinality(S)
         /\ e.nextIndex = d.numItems /\ e.numItems = d.numItems
         /\ Carries(e, m, S, Unmoved)
    <2>1. Cardinality(S) <= d.numItems
      BY <1>3, <1>15
    <2>2. Fields(m, n, W) /\ m.numItems = d.numItems
      BY <1>6
    <2> QED
      BY <1>3, <1>10, <1>12, <1>13, <1>14, <1>15, <2>1, <2>2, ReinsertedMap
  <1>17. Ready(e, n, W)
    <2>1. Cardinality(items(e)) <= e.numItems
      BY <1>3, <1>15, <1>16
    <2>2. e.numItems < e.nextIndex + maxCapacity(n) /\ e.nextIndex < maxCapacity(n)
      BY <1>1, <1>3, <1>15, <1>16
    <2> QED
      BY <1>16, <2>1, <2>2 DEF Ready, Counts
  <1>18. ASSUME NEW k \in DOMAIN at(e) PROVE \E j \in DOMAIN at(d) : move[j] = k
    <2>1. PICK c \in S : Unmoved[m.keys[c]] = k
      BY <1>16 DEF Carries
    <2>2. move[d.keys[c]] = k
      BY <1>11, <2>1
    <2> QED
      BY <1>5, <2>2 DEF S
  <1>19. ASSUME NEW j \in DOMAIN at(d) PROVE move[j] \in DOMAIN at(e) /\ at(e)[move[j]] = at(d)[j]
    <2>1. PICK c \in S : d.keys[c] = j
      BY <1>2 DEF Agrees, S
    <2>2. at(d)[j] = d.values[c]
      BY <1>2, <2>1 DEF Agrees, S
    <2>3. Unmoved[m.keys[c]] = move[j]
      BY <1>11, <2>1
    <2>4. Unmoved[m.keys[c]] \in DOMAIN at(e) /\ at(e)[Unmoved[m.keys[c]]] = m.values[c]
      BY <1>16 DEF Carries
    <2> QED
      BY <1>6, <2>2, <2>3, <2>4
  <1> QED
    BY <1>15, <1>16, <1>17, <1>18, <1>19 DEF Moved

LEMMA NextPower ==
    ASSUME NEW x \in Nat, x < 128
    PROVE  nextPowerOfTwo(x) \in Sizes /\ nextPowerOfTwo(x) > x
  <1> DEFINE P == {p \in {2, 4, 8, 16, 32, 64, 128} : p > x}
  <1>1. P \in SUBSET Nat /\ P # {}
    OBVIOUS
  <1>2. \A p \in P : p \in Sizes /\ p > x
    BY DEF Sizes
  <1> HIDE DEF P
  <1>3. \E p \in P : \A q \in P : p <= q
    BY <1>1, LeastNumber
  <1>4. Min(P) \in P
    BY <1>3 DEF Min
  <1>5. nextPowerOfTwo(x) = Min(P)
    BY DEF nextPowerOfTwo, P
  <1> QED
    BY <1>2, <1>4, <1>5

\* A collection makes the new dictionary large enough for what the old counts.
LEMMA RoomForCount ==
    ASSUME NEW N \in Nat, N <= 82, NEW n, n = nextPowerOfTwo((N * 3) \div 2 + 1)
    PROVE  n \in Sizes /\ N < maxCapacity(n)
  <1> DEFINE h == (N * 3) \div 2
  <1>1. h \in Nat /\ h + 1 < 128 /\ N * 3 <= 2 * h + 1
    OBVIOUS
  <1> HIDE DEF h
  <1>2. n \in Sizes /\ n > h + 1
    <2>1. n = nextPowerOfTwo(h + 1)
      BY DEF h
    <2>2. h + 1 \in Nat /\ h + 1 < 128
      BY <1>1
    <2> QED
      BY <2>1, <2>2, NextPower
  <1>3. n \in Nat
    BY <1>2, Capacities
  <1>4. N * 3 + 3 <= n * 2
    BY <1>1, <1>2, <1>3
  <1>5. N + 1 <= (n * 2) \div 3
    BY <1>3, <1>4
  <1>6. (n * 2) \div 3 \in Nat
    BY <1>3
  <1> QED
    BY <1>2, <1>5, <1>6 DEF maxCapacity

\* A collection leaves the entries at S, under their new keys.
LEMMA RebuiltOf ==
    ASSUME NEW d, NEW n, NEW W, Ready(d, n, W), NoValue \in W, n <= 64,
           NEW S \in SUBSET items(d), NEW move,
           \A c \in S : move[d.keys[c]] \in Key,
           \A b, c \in S : move[d.keys[b]] = move[d.keys[c]] => b = c,
           NEW n1, n1 = nextPowerOfTwo((d.numItems * 3) \div 2 + 1),
           NEW e, e = Reinserted(d, S, move, n1, Cardinality(S))
    PROVE  /\ n1 \in Sizes /\ Ready(e, n1, W) /\ numIndices(e) = n1
           /\ e.numItems = d.numItems
           /\ Carries(e, d, S, move)
  <1>1. Intact(d, n, W) /\ d.nextIndex < maxCapacity(n) /\ Counts(d, n)
    BY DEF Ready
  <1>2. /\ IsFiniteSet(items(d)) /\ Cardinality(items(d)) \in Nat /\ d.numItems \in Nat
        /\ Cardinality(items(d)) <= d.nextIndex
        /\ d.nextIndex \in Nat /\ maxCapacity(n) \in Nat /\ n \in Sizes
    BY <1>1, ItemsBelow
  <1>3. d.numItems <= 82
    <2>1. maxCapacity(n) <= 42
      BY <1>2 DEF Sizes, maxCapacity
    <2>2. d.numItems < d.nextIndex + maxCapacity(n)
      BY <1>1 DEF Counts
    <2> HIDE DEF maxCapacity
    <2> QED
      BY <1>1, <1>2, <2>1, <2>2
  <1>4. n1 \in Sizes /\ d.numItems < maxCapacity(n1)
    BY <1>2, <1>3, RoomForCount
  <1>5. maxCapacity(n1) \in Nat
    BY <1>4, Capacities
  <1>6. Cardinality(S) \in Nat /\ Cardinality(S) <= d.numItems
    <2>1. IsFiniteSet(S) /\ Cardinality(S) <= Cardinality(items(d))
      BY <1>2, FS_Subset
    <2>2. Cardinality(S) \in Nat
      BY <2>1, FS_CardinalityType
    <2>3. Cardinality(items(d)) <= d.numItems
      BY <1>1 DEF Counts
    <2> QED
      BY <1>2, <2>1, <2>2, <2>3
  <1>7. Fields(d, n, W) /\ S \in SUBSET (DOMAIN d.keys)
    <2>1. items(d) \subseteq DOMAIN d.keys
      BY DEF items
    <2> QED
      BY <1>1, <2>1, IntactOf
  <1>8. Cardinality(S) <= Cardinality(S) /\ Cardinality(S) <= maxCapacity(n1)
    BY <1>2, <1>4, <1>5, <1>6
  <1>9. /\ Intact(e, n1, W) /\ Cardinality(items(e)) = Cardinality(S)
        /\ e.nextIndex = Cardinality(S) /\ e.numItems = d.numItems
        /\ Carries(e, d, S, move)
    BY <1>4, <1>6, <1>7, <1>8, ReinsertedMap
  <1>10. Ready(e, n1, W)
    <2>1. e.nextIndex < maxCapacity(n1)
      BY <1>2, <1>4, <1>5, <1>6, <1>9
    <2>2. Cardinality(items(e)) <= e.numItems
      BY <1>6, <1>9
    <2>3. e.numItems < e.nextIndex + maxCapacity(n1)
      BY <1>2, <1>4, <1>5, <1>6, <1>9
    <2> QED
      BY <1>9, <2>1, <2>2, <2>3 DEF Ready, Counts
  <1> QED
    BY <1>4, <1>9, <1>10, ItemsBelow

\* initialize() makes an empty map.
LEMMA InitializedOf ==
    ASSUME NEW n \in Sizes, NEW W, NoValue \in W, NEW d, d = initialize(n)
    PROVE  /\ Ready(d, n, W) /\ DOMAIN at(d) = {} /\ at(d) = [k \in DOMAIN at(d) |-> at(d)[k]]
           /\ d.numItems = Cardinality(items(d)) /\ items(d) = {}
  <1>1. n \in Nat /\ maxCapacity(n) \in Nat /\ maxCapacity(n) >= 1
    BY Capacities
  <1>2. /\ d.indices = newIndices(n) /\ d.keys = newKeys(n) /\ d.values = newValues(n)
        /\ d.nextIndex = 0 /\ d.numItems = 0
    BY DEF initialize
  <1>3. Fields(d, n, W)
    <2>1. newIndices(n) \in [0..(n - 1) -> Int]
      BY DEF newIndices, Empty
    <2>2. newKeys(n) \in [0..(maxCapacity(n) - 1) -> Key \cup {NoKey}]
      BY DEF newKeys
    <2>3. newValues(n) \in [0..(maxCapacity(n) - 1) -> W]
      BY DEF newValues
    <2> HIDE DEF newIndices, newKeys, newValues
    <2> QED
      BY <2>1, <2>2, <2>3 DEF Fields, initialize
  <1>4. DOMAIN d.indices = 0..(n - 1) /\ \A i \in DOMAIN d.indices : d.indices[i] = Empty
    BY <1>2 DEF newIndices
  <1>5. \A c \in DOMAIN d.keys : d.keys[c] = NoKey
    BY <1>2 DEF newKeys
  <1>6. Linked(d)
    BY <1>2, <1>4, <1>5 DEF Linked, Empty
  <1>7. Used(d) = {}
    BY <1>4 DEF Used
  <1>8. items(d) = {}
    BY <1>5 DEF items
  <1>9. Cardinality({}) = 0
    BY FS_EmptySet
  <1>10. Ready(d, n, W)
    BY <1>1, <1>2, <1>3, <1>6, <1>7, <1>8, <1>9 DEF Ready, Intact, Counts
  <1>11. Agrees(d)
    BY <1>10, MapOf DEF Ready
  <1> QED
    BY <1>2, <1>8, <1>9, <1>10, <1>11 DEF Agrees
=============================================================================
