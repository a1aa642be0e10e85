-------------------------- MODULE GeneratorsProofs --------------------------
(***************************************************************************)
(* Proofs about generators for every set of generators, coroutines and     *)
(* iterators and every depth of the stack: no generator is entered twice,  *)
(* exceptions see the state of the innermost active one, and a close() that*)
(* returns has finished its generator.                                     *)
(***************************************************************************)
EXTENDS Generators, SequenceTheorems, FiniteSetTheorems, TLAPS

-----------------------------------------------------------------------------
(***************************************************************************)
(* What the three ways of changing the stack leave.                        *)
(***************************************************************************)

\* The members of the stack.
LEMMA TopFrame ==
    ASSUME TypeOK
    PROVE  /\ Len(stack) \in Nat
           /\ DOMAIN stack = 1..Len(stack)
           /\ \A i \in DOMAIN stack : stack[i] \in Frames
           /\ stack # <<>> => Len(stack) >= 1 /\ Len(stack) \in DOMAIN stack /\ Top \in Frames
           /\ Top = stack[Len(stack)]
  <1>1. stack \in Seq(Frames)
    BY DEF TypeOK
  <1>2. Len(stack) \in Nat /\ DOMAIN stack = 1..Len(stack)
    BY <1>1, LenProperties
  <1>3. \A i \in DOMAIN stack : stack[i] \in Frames
    BY <1>1, <1>2, ElementOfSeq
  <1>4. stack # <<>> => Len(stack) >= 1
    BY <1>1, EmptySeq
  <1> QED
    BY <1>2, <1>3, <1>4 DEF Top

\* The stack without its top.
LEMMA BelowOf ==
    ASSUME TypeOK, stack # <<>>
    PROVE  /\ Below \in Seq(Frames)
           /\ Len(Below) = Len(stack) - 1
           /\ DOMAIN Below = 1..(Len(stack) - 1)
           /\ \A k \in 1..(Len(stack) - 1) : Below[k] = stack[k]
  <1> DEFINE n == Len(stack)
  <1>1. n \in Nat /\ n >= 1 /\ \A i \in 1..n : stack[i] \in Frames
    BY TopFrame
  <1>2. \A k \in 1..(n - 1) : stack[k] \in Frames
    BY <1>1
  <1>3. /\ Below \in Seq(Frames)
        /\ Len(Below) = IF 1 <= n - 1 THEN (n - 1) - 1 + 1 ELSE 0
        /\ \A k \in 1..((n - 1) - 1 + 1) : Below[k] = stack[1 + k - 1]
    BY <1>1, <1>2, SubSeqProperties DEF Below
  <1> HIDE DEF n
  <1>4. (IF 1 <= n - 1 THEN (n - 1) - 1 + 1 ELSE 0) = n - 1
    BY <1>1
  <1>5. Len(Below) = n - 1
    BY <1>3, <1>4
  <1>6. ASSUME NEW k \in 1..(n - 1) PROVE Below[k] = stack[k]
    BY <1>1, <1>3
  <1>7. DOMAIN Below = 1..(n - 1)
    BY <1>3, <1>5, LenProperties
  <1> QED
    BY <1>3, <1>5, <1>6, <1>7 DEF n

\* A return.
LEMMA PopEffect ==
    ASSUME TypeOK, stack # <<>>, stack' = Below
    PROVE  /\ stack' \in Seq(Frames)
           /\ Len(stack') = Len(stack) - 1
           /\ DOMAIN stack' = 1..(Len(stack) - 1)
           /\ DOMAIN stack' = DOMAIN stack \ {Len(stack)}
           /\ \A k \in DOMAIN stack' : stack'[k] = stack[k]
           /\ stack' # <<>> => /\ Len(stack) - 1 \in DOMAIN stack'
                               /\ Top' = stack[Len(stack) - 1]
  <1>1. Len(stack) \in Nat /\ Len(stack) >= 1 /\ DOMAIN stack = 1..Len(stack)
    BY TopFrame
  <1>2. /\ stack' \in Seq(Frames)
        /\ Len(stack') = Len(stack) - 1
        /\ DOMAIN stack' = 1..(Len(stack) - 1)
        /\ \A k \in DOMAIN stack' : stack'[k] = stack[k]
    BY BelowOf
  <1>3. DOMAIN stack' = DOMAIN stack \ {Len(stack)}
    BY <1>1, <1>2
  <1>4. stack' # <<>> => Len(stack) - 1 \in DOMAIN stack'
    <2>1. stack' # <<>> => Len(stack') # 0
      BY <1>2, EmptySeq
    <2> QED
      BY <2>1, <1>1, <1>2
  <1>5. stack' # <<>> => Top' = stack[Len(stack) - 1]
    BY <1>2, <1>4 DEF Top
  <1> QED
    BY <1>2, <1>3, <1>4, <1>5

\* A call.
LEMMA PushEffect ==
    ASSUME TypeOK, NEW a \in Frames, Push(a)
    PROVE  /\ stack' \in Seq(Frames)
           /\ stack' # <<>>
           /\ Len(stack') = Len(stack) + 1
           /\ DOMAIN stack' = DOMAIN stack \cup {Len(stack) + 1}
           /\ Len(stack) + 1 \notin DOMAIN stack
           /\ \A k \in DOMAIN stack : stack'[k] = stack[k]
           /\ stack'[Len(stack) + 1] = a
           /\ Top' = a
  <1>1. Len(stack) \in Nat /\ DOMAIN stack = 1..Len(stack)
    BY TopFrame
  <1>2. /\ stack' \in Seq(Frames)
        /\ stack' # <<>>
        /\ Len(stack') = Len(stack) + 1
        /\ \A k \in 1..Len(stack) : stack'[k] = stack[k]
        /\ stack'[Len(stack) + 1] = a
    BY AppendProperties DEF Push, TypeOK
  <1>3. DOMAIN stack' = 1..(Len(stack) + 1)
    BY <1>2, LenProperties
  <1>4. 1..(Len(stack) + 1) = 1..Len(stack) \cup {Len(stack) + 1}
    BY <1>1
  <1> QED
    BY <1>1, <1>2, <1>3, <1>4 DEF Top

\* A change of the activation on top.
LEMMA ReplaceEffect ==
    ASSUME TypeOK, stack # <<>>, NEW a \in Frames, Replace(a)
    PROVE  /\ stack' \in Seq(Frames)
           /\ stack' # <<>>
           /\ Len(stack') = Len(stack)
           /\ DOMAIN stack' = DOMAIN stack
           /\ \A k \in DOMAIN stack : k # Len(stack) => stack'[k] = stack[k]
           /\ stack'[Len(stack)] = a
           /\ Top' = a
  <1>1. Len(stack) \in Nat /\ Len(stack) >= 1 /\ DOMAIN stack = 1..Len(stack)
    BY TopFrame
  <1>2. /\ Below \in Seq(Frames)
        /\ Len(Below) = Len(stack) - 1
        /\ \A k \in 1..(Len(stack) - 1) : Below[k] = stack[k]
    BY BelowOf
  <1>3. /\ stack' \in Seq(Frames)
        /\ stack' # <<>>
        /\ Len(stack') = (Len(stack) - 1) + 1
        /\ \A k \in 1..(Len(stack) - 1) : stack'[k] = Below[k]
        /\ stack'[(Len(stack) - 1) + 1] = a
    BY <1>2, AppendProperties DEF Replace
  <1>4. Len(stack') = Len(stack) /\ stack'[Len(stack)] = a
    BY <1>1, <1>3
  <1>5. DOMAIN stack' = DOMAIN stack
    BY <1>1, <1>3, <1>4, LenProperties
  <1>6. ASSUME NEW k \in DOMAIN stack, k # Len(stack) PROVE stack'[k] = stack[k]
    BY <1>1, <1>2, <1>3, <1>6
  <1> QED
    BY <1>3, <1>4, <1>5, <1>6 DEF Top

-----------------------------------------------------------------------------
(***************************************************************************)
(* Exception states.                                                       *)
(***************************************************************************)

\* The state below an activation depends on what is below it only.
LEMMA StateBelowSame ==
    ASSUME NEW s, NEW t, NEW n \in Nat, \A k \in 1..(n - 1) : s[k] = t[k], NEW x
    PROVE  StateBelow(s, n, x) <=> StateBelow(t, n, x)
  <1>1. \A i \in 1..(n - 1) : \A j \in (i + 1)..(n - 1) : j \in 1..(n - 1)
    OBVIOUS
  <1> QED
    BY <1>1 DEF StateBelow

\* Above a body it is that of its generator.
LEMMA StateAboveBody ==
    ASSUME NEW s, NEW n \in Nat, n >= 1, s[n].at = "body"
    PROVE  StateBelow(s, n + 1, s[n].gen)
  <1>1. n \in 1..((n + 1) - 1) /\ (n + 1)..((n + 1) - 1) = {}
    OBVIOUS
  <1> QED
    BY <1>1 DEF StateBelow

\* Other activations leave it as it is.
LEMMA StateAboveOther ==
    ASSUME NEW s, NEW n \in Nat, n >= 1, s[n].at # "body", NEW x
    PROVE  StateBelow(s, n + 1, x) <=> StateBelow(s, n, x)
  <1>1. 1..((n + 1) - 1) = 1..(n - 1) \cup {n}
    OBVIOUS
  <1>2. \A i \in 1..(n - 1) : (i + 1)..((n + 1) - 1) = (i + 1)..(n - 1) \cup {n}
    OBVIOUS
  <1>3. (\A j \in 1..((n + 1) - 1) : s[j].at # "body") <=> (\A j \in 1..(n - 1) : s[j].at # "body")
    BY <1>1
  <1>4. \A i \in 1..(n - 1) :
            (\A j \in (i + 1)..((n + 1) - 1) : s[j].at # "body")
                <=> (\A j \in (i + 1)..(n - 1) : s[j].at # "body")
    BY <1>2
  <1> QED
    BY <1>1, <1>3, <1>4 DEF StateBelow

-----------------------------------------------------------------------------
(***************************************************************************)
(* What the stack says of the flags and links.                             *)
(***************************************************************************)

\* No generator is active twice, and it is marked while it is.
ActiveOnce ==
    \A g \in Gen : /\ \A i, j \in ActiveIn(stack, g) : i = j
                   /\ running[g] <=> ActiveIn(stack, g) # {}

LEMMA OnceIsRunningMeansActive ==
    ASSUME TypeOK
    PROVE  ActiveOnce <=> RunningMeansActive
  <1> SUFFICES ASSUME NEW g \in Gen
               PROVE  (\A i, j \in ActiveIn(stack, g) : i = j) <=> Cardinality(ActiveIn(stack, g)) <= 1
    BY DEF ActiveOnce, RunningMeansActive
  <1> DEFINE A == ActiveIn(stack, g)
  <1>1. IsFiniteSet(A)
    <2>1. A \subseteq 1..Len(stack) /\ Len(stack) \in Int
      BY TopFrame DEF ActiveIn
    <2>2. IsFiniteSet(1..Len(stack))
      BY <2>1, FS_Interval
    <2> QED
      BY <2>1, <2>2, FS_Subset
  <1>2. ASSUME \A i, j \in A : i = j
        PROVE  Cardinality(A) <= 1
    <2>1. CASE A = {}
      BY <2>1, FS_EmptySet
    <2>2. CASE A # {}
      <3>1. PICK i : i \in A
        BY <2>2
      <3>2. A = {i}
        BY <3>1, <1>2
      <3> HIDE DEF A
      <3>3. Cardinality({i}) = 1
        BY FS_Singleton
      <3> QED
        BY <3>2, <3>3
    <2> QED
      BY <2>1, <2>2
  <1>3. ASSUME Cardinality(A) <= 1, NEW i \in A, NEW j \in A
        PROVE  i = j
    <2> SUFFICES ASSUME i # j PROVE FALSE
      OBVIOUS
    <2>1. Cardinality({i}) = 1 /\ IsFiniteSet({i})
      BY FS_Singleton
    <2>2. Cardinality({i} \cup {j}) = Cardinality({i}) + 1
      BY <2>1, FS_AddElement
    <2>3. {i} \cup {j} \subseteq A
      OBVIOUS
    <2>4. Cardinality({i} \cup {j}) <= Cardinality(A)
      BY <2>3, <1>1, FS_Subset
    <2>5. Cardinality(A) \in Nat
      BY <1>1, FS_CardinalityType
    <2> QED
      BY <2>1, <2>2, <2>4, <2>5, <1>3
  <1> QED
    BY <1>2, <1>3

StackOK == ActiveOnce /\ LookupBelowActivations /\ CaughtStatesFollowStack /\ AwaitedIsAbove

\* A generator that is not marked is entered.
LEMMA EnterKeeps ==
    ASSUME TypeOK, StackOK, NEW g \in Gen, ~running[g],
           NEW from \in Gen \cup Iter \cup {None}, NEW inTry \in BOOLEAN,
           Resume(g, from, inTry),
           stack # <<>> /\ Awaits(Top) => Awaited(Top) = g
    PROVE  /\ StackOK'
           /\ stack' \in Seq(Frames) /\ stack' # <<>> /\ Top' = Body(g, from, inTry)
           /\ running' \in [Gen -> BOOLEAN]
           /\ prev' \in [Gen -> Gen \cup {Base, None}]
           /\ caught' \in Gen \cup {Base}
  <1> DEFINE n == Len(stack)
             b == Body(g, from, inTry)
  <1>1. b \in Frames /\ b.gen = g /\ b.at = "body"
    BY DEF Body, Frames
  <1>2. /\ n \in Nat /\ DOMAIN stack = 1..n
        /\ stack # <<>> => n >= 1 /\ n \in DOMAIN stack
        /\ Top = stack[n]
    BY TopFrame
  <1>3. /\ Push(b)
        /\ prev' = [prev EXCEPT ![g] = caught] /\ caught' = g
        /\ running' = [running EXCEPT ![g] = TRUE]
    BY DEF Resume
  <1> HIDE DEF b
  <1>4. /\ stack' \in Seq(Frames)
        /\ stack' # <<>>
        /\ Len(stack') = n + 1
        /\ DOMAIN stack' = DOMAIN stack \cup {n + 1}
        /\ n + 1 \notin DOMAIN stack
        /\ \A k \in DOMAIN stack : stack'[k] = stack[k]
        /\ stack'[n + 1] = b
        /\ Top' = b
    BY <1>1, <1>3, PushEffect
  <1> HIDE DEF n
  <1>5. /\ ActiveIn(stack, g) = {}
        /\ ActiveIn(stack', g) = {n + 1}
        /\ \A x \in Gen \ {g} : ActiveIn(stack', x) = ActiveIn(stack, x)
    <2>1. ActiveIn(stack, g) = {}
      BY DEF StackOK, ActiveOnce
    <2>2. \A x : ActiveIn(stack', x) = ActiveIn(stack, x) \cup (IF x = g THEN {n + 1} ELSE {})
      BY <1>1, <1>4 DEF ActiveIn
    <2> QED
      BY <2>1, <2>2
  <1>6. ActiveOnce'
    <2>1. ASSUME NEW x \in Gen
          PROVE  /\ \A i, j \in ActiveIn(stack', x) : i = j
                 /\ running'[x] <=> ActiveIn(stack', x) # {}
      <3>1. CASE x = g
        BY <3>1, <1>3, <1>5 DEF TypeOK
      <3>2. CASE x # g
        <4>1. running'[x] = running[x]
          BY <3>2, <1>3 DEF TypeOK
        <4> QED
          BY <3>2, <4>1, <1>5 DEF StackOK, ActiveOnce
      <3> QED
        BY <3>1, <3>2
    <2> QED
      BY <2>1 DEF ActiveOnce
  <1>7. LookupBelowActivations'
    <2> SUFFICES ASSUME NEW i \in DOMAIN stack', NEW j \in DOMAIN stack',
                        stack'[i].at = "lookup", stack'[j].at \in {"body", "throw"},
                        stack'[j].gen = stack'[i].gen
                 PROVE  i < j
      BY DEF LookupBelowActivations
    <2>1. i \in DOMAIN stack /\ stack'[i] = stack[i]
      BY <1>1, <1>4
    <2>2. CASE j = n + 1
      BY <2>1, <2>2, <1>2
    <2>3. CASE j # n + 1
      BY <2>1, <2>3, <1>4 DEF StackOK, LookupBelowActivations
    <2> QED
      BY <2>2, <2>3
  <1>8. CaughtStatesFollowStack'
    <2>1. StateBelow(stack', n + 2, caught')
      <3>1. n + 1 \in Nat /\ n + 1 >= 1 /\ (n + 1) + 1 = n + 2
        BY <1>2
      <3>2. StateBelow(stack', (n + 1) + 1, stack'[n + 1].gen)
        BY <3>1, <1>1, <1>4, StateAboveBody
      <3> QED
        BY <3>1, <3>2, <1>1, <1>3, <1>4
    <2>2. ASSUME NEW i \in 1..(n + 1), NEW x
          PROVE  StateBelow(stack', i, x) <=> StateBelow(stack, i, x)
      <3>1. \A k \in 1..(i - 1) : stack'[k] = stack[k]
        BY <1>2, <1>4
      <3>2. i \in Nat
        BY <1>2
      <3> QED
        BY <3>1, <3>2, StateBelowSame
    <2>3. ASSUME NEW i \in Bodies'
          PROVE  StateBelow(stack', i, prev'[stack'[i].gen])
      <3>1. CASE i = n + 1
        <4>1. StateBelow(stack, n + 1, caught) /\ i \in 1..(n + 1)
          BY <3>1, <1>2 DEF StackOK, CaughtStatesFollowStack, n
        <4>2. prev'[stack'[i].gen] = caught
          BY <3>1, <1>1, <1>3, <1>4 DEF TypeOK
        <4> QED
          BY <4>1, <4>2, <3>1, <2>2
      <3>2. CASE i # n + 1
        <4>1. i \in DOMAIN stack /\ stack'[i] = stack[i] /\ stack[i].at = "body" /\ i \in 1..(n + 1)
          BY <3>2, <1>2, <1>4 DEF Bodies
        <4>2. stack[i].gen \in Gen
          BY <4>1, TopFrame DEF Frames
        <4>3. stack[i].gen # g
          BY <4>1, <1>5 DEF ActiveIn
        <4>4. prev'[stack'[i].gen] = prev[stack[i].gen]
          BY <4>1, <4>2, <4>3, <1>3 DEF TypeOK
        <4>5. StateBelow(stack, i, prev[stack[i].gen])
          BY <4>1 DEF StackOK, CaughtStatesFollowStack, Bodies
        <4> QED
          BY <4>1, <4>4, <4>5, <2>2
      <3> QED
        BY <3>1, <3>2
    <2>4. ASSUME NEW x \in Gen, prev'[x] # None
          PROVE  \E i \in Bodies' : stack'[i].gen = x
      <3>1. CASE x = g
        BY <3>1, <1>1, <1>4 DEF Bodies
      <3>2. CASE x # g
        <4>1. prev[x] # None
          BY <3>2, <2>4, <1>3 DEF TypeOK
        <4>2. PICK i \in Bodies : stack[i].gen = x
          BY <4>1 DEF StackOK, CaughtStatesFollowStack
        <4> QED
          BY <4>2, <1>4 DEF Bodies
      <3> QED
        BY <3>1, <3>2
    <2>5. Len(stack') + 1 = n + 2
      BY <1>2, <1>4
    <2> QED
      BY <2>1, <2>3, <2>4, <2>5 DEF CaughtStatesFollowStack
  <1>9. AwaitedIsAbove'
    <2> SUFFICES ASSUME NEW i \in 1..(Len(stack') - 1), Awaits(stack'[i])
                 PROVE  stack'[i + 1].gen = Awaited(stack'[i]) /\ stack'[i + 1].at # "close"
      BY DEF AwaitedIsAbove
    <2>1. i \in DOMAIN stack /\ stack'[i] = stack[i]
      BY <1>2, <1>4
    <2>2. CASE i = n
      <3>1. stack # <<>>
        BY <2>1, <1>2
      <3> QED
        BY <2>1, <2>2, <3>1, <1>1, <1>2, <1>4
    <2>3. CASE i # n
      <3>1. i \in 1..(n - 1) /\ i + 1 \in DOMAIN stack
        BY <2>1, <2>3, <1>2
      <3> QED
        BY <2>1, <3>1, <1>4 DEF StackOK, AwaitedIsAbove, n
    <2> QED
      BY <2>2, <2>3
  <1>10. /\ running' \in [Gen -> BOOLEAN]
         /\ prev' \in [Gen -> Gen \cup {Base, None}]
         /\ caught' \in Gen \cup {Base}
    BY <1>3 DEF TypeOK
  <1> QED
    BY <1>4, <1>6, <1>7, <1>8, <1>9, <1>10 DEF StackOK, b

\* Only the activations of one generator change.
LEMMA ActiveChanges ==
    ASSUME TypeOK, ActiveOnce, NEW g \in Gen, NEW b \in BOOLEAN,
           running' = [running EXCEPT ![g] = b],
           \A x \in Gen \ {g} : ActiveIn(stack', x) = ActiveIn(stack, x),
           \A i, j \in ActiveIn(stack', g) : i = j,
           b <=> ActiveIn(stack', g) # {}
    PROVE  ActiveOnce' /\ running' \in [Gen -> BOOLEAN]
  <1>1. ASSUME NEW x \in Gen
        PROVE  /\ \A i, j \in ActiveIn(stack', x) : i = j
               /\ running'[x] <=> ActiveIn(stack', x) # {}
    <2>1. CASE x = g
      BY <2>1 DEF TypeOK
    <2>2. CASE x # g
      <3>1. running'[x] = running[x]
        BY <2>2 DEF TypeOK
      <3> QED
        BY <2>2, <3>1 DEF ActiveOnce
    <2> QED
      BY <2>1, <2>2
  <1> QED
    BY <1>1 DEF ActiveOnce, TypeOK

\* The stack changes above its first m activations, and not in bodies.
LEMMA CaughtKept ==
    ASSUME TypeOK, CaughtStatesFollowStack, stack' \in Seq(Frames), UNCHANGED <<prev, caught>>,
           NEW m \in Nat, \A k \in 1..m : stack'[k] = stack[k],
           \/ Len(stack) = m
           \/ Len(stack) = m + 1 /\ stack[m + 1].at # "body",
           \/ Len(stack') = m
           \/ Len(stack') = m + 1 /\ stack'[m + 1].at # "body"
    PROVE  CaughtStatesFollowStack'
  <1>0. m + 1 \in Nat /\ m + 1 >= 1 /\ 1..(m + 1) = 1..m \cup {m + 1}
    OBVIOUS
  <1>1. DOMAIN stack = 1..Len(stack) /\ DOMAIN stack' = 1..Len(stack')
    BY TopFrame, LenProperties
  <1>2. \A i \in 1..(m + 1) : \A x : StateBelow(stack', i, x) <=> StateBelow(stack, i, x)
    <2> TAKE i \in 1..(m + 1)
    <2> TAKE x
    <2>1. \A k \in 1..(i - 1) : stack'[k] = stack[k]
      OBVIOUS
    <2>2. i \in Nat
      OBVIOUS
    <2> QED
      BY <2>1, <2>2, StateBelowSame
  <1>3. StateBelow(stack, m + 1, caught)
    <2>1. StateBelow(stack, Len(stack) + 1, caught)
      BY DEF CaughtStatesFollowStack
    <2>2. CASE Len(stack) = m
      BY <2>1, <2>2
    <2>3. CASE Len(stack) = m + 1 /\ stack[m + 1].at # "body"
      BY <2>1, <2>3, <1>0, StateAboveOther
    <2> QED
      BY <2>2, <2>3
  <1>4. StateBelow(stack', m + 1, caught')
    <2>1. m + 1 \in 1..(m + 1) /\ caught' = caught
      OBVIOUS
    <2> QED
      BY <2>1, <1>2, <1>3
  <1>5. StateBelow(stack', Len(stack') + 1, caught')
    <2>1. CASE Len(stack') = m
      BY <2>1, <1>4
    <2>2. CASE Len(stack') = m + 1 /\ stack'[m + 1].at # "body"
      BY <2>2, <1>0, <1>4, StateAboveOther
    <2> QED
      BY <2>1, <2>2
  <1>6. Bodies' = Bodies /\ \A i \in Bodies : i \in 1..m /\ stack'[i] = stack[i]
    <2>1. Bodies = {i \in 1..m : stack[i].at = "body"}
      <3>1. CASE Len(stack) = m
        BY <3>1, <1>1 DEF Bodies
      <3>2. CASE Len(stack) = m + 1 /\ stack[m + 1].at # "body"
        <4>1. DOMAIN stack = 1..m \cup {m + 1}
          BY <3>2, <1>0, <1>1
        <4> QED
          BY <3>2, <4>1 DEF Bodies
      <3> QED
        BY <3>1, <3>2
    <2>2. Bodies' = {i \in 1..m : stack'[i].at = "body"}
      <3>1. CASE Len(stack') = m
        BY <3>1, <1>1 DEF Bodies
      <3>2. CASE Len(stack') = m + 1 /\ stack'[m + 1].at # "body"
        <4>1. DOMAIN stack' = 1..m \cup {m + 1}
          BY <3>2, <1>0, <1>1
        <4> QED
          BY <3>2, <4>1 DEF Bodies
      <3> QED
        BY <3>1, <3>2
    <2> QED
      BY <2>1, <2>2
  <1>7. ASSUME NEW i \in Bodies'
        PROVE  StateBelow(stack', i, prev'[stack'[i].gen])
    <2>1. StateBelow(stack, i, prev[stack[i].gen]) /\ i \in 1..(m + 1)
      BY <1>6, <1>7 DEF CaughtStatesFollowStack
    <2>2. prev'[stack'[i].gen] = prev[stack[i].gen]
      BY <1>6, <1>7
    <2> QED
      BY <2>1, <2>2, <1>2
  <1>8. \A g \in Gen : prev'[g] # None => \E i \in Bodies' : stack'[i].gen = g
    BY <1>6 DEF CaughtStatesFollowStack
  <1> QED
    BY <1>5, <1>7, <1>8 DEF CaughtStatesFollowStack

\* What every return keeps.
LEMMA PopKeeps ==
    ASSUME TypeOK, LookupBelowActivations, AwaitedIsAbove, stack # <<>>, stack' = Below
    PROVE  /\ LookupBelowActivations' /\ AwaitedIsAbove'
           /\ stack' \in Seq(Frames)
           /\ \A x : ActiveIn(stack', x) = ActiveIn(stack, x) \ {Len(stack)}
           /\ stack' # <<>> /\ Awaits(Top') => Awaited(Top') = Top.gen /\ Top.at # "close"
  <1>1. /\ stack' \in Seq(Frames)
        /\ Len(stack') = Len(stack) - 1
        /\ DOMAIN stack' = 1..(Len(stack) - 1)
        /\ DOMAIN stack' = DOMAIN stack \ {Len(stack)}
        /\ \A k \in DOMAIN stack' : stack'[k] = stack[k]
        /\ stack' # <<>> => /\ Len(stack) - 1 \in DOMAIN stack'
                            /\ Top' = stack[Len(stack) - 1]
    BY PopEffect
  <1>2. Len(stack) \in Nat /\ Len(stack) >= 1 /\ Top = stack[Len(stack)]
    BY TopFrame
  <1>3. LookupBelowActivations'
    BY <1>1 DEF LookupBelowActivations
  <1>4. AwaitedIsAbove'
    <2> SUFFICES ASSUME NEW i \in 1..(Len(stack') - 1), Awaits(stack'[i])
                 PROVE  stack'[i + 1].gen = Awaited(stack'[i]) /\ stack'[i + 1].at # "close"
      BY DEF AwaitedIsAbove
    <2>1. i \in 1..(Len(stack) - 1) /\ i \in DOMAIN stack' /\ i + 1 \in DOMAIN stack'
      BY <1>1, <1>2
    <2> QED
      BY <2>1, <1>1 DEF AwaitedIsAbove
  <1>5. \A x : ActiveIn(stack', x) = ActiveIn(stack, x) \ {Len(stack)}
    BY <1>1 DEF ActiveIn
  <1>6. ASSUME stack' # <<>>, Awaits(Top')
        PROVE  Awaited(Top') = Top.gen /\ Top.at # "close"
    <2> DEFINE i == Len(stack) - 1
    <2>1. i \in 1..(Len(stack) - 1) /\ i + 1 = Len(stack) /\ Top' = stack[i]
      BY <1>1, <1>2, <1>6
    <2> HIDE DEF i
    <2>2. stack[i + 1].gen = Awaited(stack[i]) /\ stack[i + 1].at # "close"
      BY <2>1, <1>6 DEF AwaitedIsAbove
    <2> QED
      BY <2>1, <2>2, <1>2
  <1> QED
    BY <1>1, <1>3, <1>4, <1>5, <1>6

\* What every call keeps, when it is the one that is awaited.
LEMMA PushKeeps ==
    ASSUME TypeOK, LookupBelowActivations, AwaitedIsAbove, NEW a \in Frames, Push(a),
           stack # <<>> /\ Awaits(Top) => Awaited(Top) = a.gen /\ a.at # "close",
           a.at = "lookup" => ActiveIn(stack, a.gen) = {}
    PROVE  /\ LookupBelowActivations' /\ AwaitedIsAbove'
           /\ stack' \in Seq(Frames) /\ stack' # <<>> /\ Top' = a
           /\ \A x : ActiveIn(stack', x) = ActiveIn(stack, x) \cup
                (IF a.gen = x /\ a.at \in {"body", "throw"} THEN {Len(stack) + 1} ELSE {})
  <1>1. /\ stack' \in Seq(Frames)
        /\ stack' # <<>>
        /\ Len(stack') = Len(stack) + 1
        /\ DOMAIN stack' = DOMAIN stack \cup {Len(stack) + 1}
        /\ Len(stack) + 1 \notin DOMAIN stack
        /\ \A k \in DOMAIN stack : stack'[k] = stack[k]
        /\ stack'[Len(stack) + 1] = a
        /\ Top' = a
    BY PushEffect
  <1>2. /\ Len(stack) \in Nat /\ DOMAIN stack = 1..Len(stack)
        /\ Top = stack[Len(stack)]
    BY TopFrame
  <1>3. LookupBelowActivations'
    <2> SUFFICES ASSUME NEW i \in DOMAIN stack', NEW j \in DOMAIN stack',
                        stack'[i].at = "lookup", stack'[j].at \in {"body", "throw"},
                        stack'[j].gen = stack'[i].gen
                 PROVE  i < j
      BY DEF LookupBelowActivations
    <2>1. CASE i = Len(stack) + 1
      <3>1. j \in DOMAIN stack /\ stack'[j] = stack[j]
        BY <2>1, <1>1
      <3>2. j \in ActiveIn(stack, a.gen)
        BY <2>1, <3>1, <1>1 DEF ActiveIn
      <3> QED
        BY <2>1, <3>2, <1>1
    <2>2. CASE i \in DOMAIN stack /\ j = Len(stack) + 1
      BY <2>2, <1>2
    <2>3. CASE i \in DOMAIN stack /\ j \in DOMAIN stack
      BY <2>3, <1>1 DEF LookupBelowActivations
    <2> QED
      BY <2>1, <2>2, <2>3, <1>1
  <1>4. AwaitedIsAbove'
    <2> SUFFICES ASSUME NEW i \in 1..(Len(stack') - 1), Awaits(stack'[i])
                 PROVE  stack'[i + 1].gen = Awaited(stack'[i]) /\ stack'[i + 1].at # "close"
      BY DEF AwaitedIsAbove
    <2>1. i \in DOMAIN stack /\ stack'[i] = stack[i]
      BY <1>1, <1>2
    <2>2. CASE i = Len(stack)
      <3>1. stack # <<>>
        BY <2>1
      <3> QED
        BY <2>1, <2>2, <3>1, <1>1, <1>2
    <2>3. CASE i # Len(stack)
      <3>1. i \in 1..(Len(stack) - 1) /\ i + 1 \in DOMAIN stack
        BY <2>1, <2>3, <1>2
      <3> QED
        BY <2>1, <3>1, <1>1 DEF AwaitedIsAbove
    <2> QED
      BY <2>2, <2>3
  <1>5. \A x : ActiveIn(stack', x) = ActiveIn(stack, x) \cup
                (IF a.gen = x /\ a.at \in {"body", "throw"} THEN {Len(stack) + 1} ELSE {})
    BY <1>1 DEF ActiveIn
  <1> QED
    BY <1>1, <1>3, <1>4, <1>5

\* The awaited generator of the activation that gets the result.
ResultGoesTo(g) == stack' # <<>> /\ Awaits(Top') => Awaited(Top') = g

Unmoved == UNCHANGED <<running, prev, caught>>

\* The body of a generator is left.
LEMMA LeaveKeeps ==
    ASSUME TypeOK, StackOK, At("body"), Leave(Top.gen)
    PROVE  /\ StackOK' /\ ResultGoesTo(Top.gen)
           /\ stack' \in Seq(Frames)
           /\ running' \in [Gen -> BOOLEAN]
           /\ prev' \in [Gen -> Gen \cup {Base, None}]
           /\ caught' \in Gen \cup {Base}
  <1> DEFINE n == Len(stack)
             g == Top.gen
  <1>1. /\ stack # <<>> /\ Top.at = "body" /\ stack' = Below
        /\ caught' = prev[g] /\ prev' = [prev EXCEPT ![g] = None]
        /\ running' = [running EXCEPT ![g] = FALSE]
    BY DEF At, Leave
  <1>2. /\ n \in Nat /\ n >= 1 /\ DOMAIN stack = 1..n /\ n \in DOMAIN stack
        /\ Top = stack[n] /\ Top \in Frames
    BY <1>1, TopFrame
  <1>3. g \in Gen /\ stack[n].at = "body" /\ stack[n].gen = g
    BY <1>1, <1>2 DEF Frames
  <1>4. /\ LookupBelowActivations' /\ AwaitedIsAbove'
        /\ stack' \in Seq(Frames)
        /\ \A x : ActiveIn(stack', x) = ActiveIn(stack, x) \ {n}
        /\ ResultGoesTo(g)
    BY <1>1, PopKeeps DEF StackOK, ResultGoesTo
  <1>5. /\ Len(stack') = n - 1
        /\ DOMAIN stack' = 1..(n - 1)
        /\ DOMAIN stack' = DOMAIN stack \ {n}
        /\ \A k \in DOMAIN stack' : stack'[k] = stack[k]
    BY <1>1, PopEffect
  <1>6. n \in Bodies
    BY <1>2, <1>3 DEF Bodies
  <1>7. StateBelow(stack, n, prev[g])
    BY <1>3, <1>6 DEF StackOK, CaughtStatesFollowStack
  <1> HIDE DEF n, g
  <1>8. ActiveIn(stack, g) = {n}
    <2>1. n \in ActiveIn(stack, g)
      BY <1>2, <1>3 DEF ActiveIn
    <2> QED
      BY <2>1, <1>3 DEF StackOK, ActiveOnce
  <1>9. ActiveOnce' /\ running' \in [Gen -> BOOLEAN]
    <2>1. ActiveIn(stack', g) = {}
      BY <1>4, <1>8
    <2>2. ASSUME NEW x \in Gen \ {g} PROVE ActiveIn(stack', x) = ActiveIn(stack, x)
      <3>1. n \notin ActiveIn(stack, x)
        BY <1>3, <2>2 DEF ActiveIn
      <3> QED
        BY <3>1, <1>4
    <2> QED
      BY <2>1, <2>2, <1>1, <1>3, ActiveChanges DEF StackOK
  <1>10. CaughtStatesFollowStack'
    <2>1. ASSUME NEW i \in 1..n, NEW x
          PROVE  StateBelow(stack', i, x) <=> StateBelow(stack, i, x)
      <3>1. \A k \in 1..(i - 1) : stack'[k] = stack[k]
        BY <1>2, <1>5
      <3>2. i \in Nat
        BY <1>2
      <3> QED
        BY <3>1, <3>2, StateBelowSame
    <2>2. StateBelow(stack', Len(stack') + 1, caught')
      <3>1. Len(stack') + 1 = n /\ n \in 1..n
        BY <1>2, <1>5
      <3> QED
        BY <3>1, <2>1, <1>1, <1>7
    <2>3. ASSUME NEW i \in Bodies' PROVE StateBelow(stack', i, prev'[stack'[i].gen])
      <3>1. i \in DOMAIN stack /\ i # n /\ i \in 1..n /\ stack'[i] = stack[i] /\ stack[i].at = "body"
        BY <1>2, <1>5 DEF Bodies
      <3>2. stack[i].gen # g
        <4>1. i \notin ActiveIn(stack, g)
          BY <3>1, <1>8
        <4> QED
          BY <3>1, <4>1 DEF ActiveIn
      <3>3. stack[i].gen \in Gen
        BY <3>1, TopFrame DEF Frames
      <3>4. prev'[stack'[i].gen] = prev[stack[i].gen]
        BY <3>1, <3>2, <3>3, <1>1 DEF TypeOK
      <3>5. StateBelow(stack, i, prev[stack[i].gen])
        BY <3>1 DEF StackOK, CaughtStatesFollowStack, Bodies
      <3> QED
        BY <3>1, <3>4, <3>5, <2>1
    <2>4. ASSUME NEW x \in Gen, prev'[x] # None PROVE \E i \in Bodies' : stack'[i].gen = x
      <3>1. prev[x] # None /\ x # g
        BY <2>4, <1>1, <1>3 DEF TypeOK
      <3>2. PICK i \in Bodies : stack[i].gen = x
        BY <3>1 DEF StackOK, CaughtStatesFollowStack
      <3>3. i # n
        BY <3>1, <3>2, <1>3
      <3> QED
        BY <3>2, <3>3, <1>5 DEF Bodies
    <2> QED
      BY <2>2, <2>3, <2>4 DEF CaughtStatesFollowStack
  <1>11. /\ prev' \in [Gen -> Gen \cup {Base, None}]
         /\ caught' \in Gen \cup {Base}
    <2>1. prev[g] # None
      <3>1. CASE prev[g] = None
        <4>1. n - 1 \in Nat /\ \A i \in 1..(n - 1) : i \in DOMAIN stack
          BY <1>2
        <4>2. \A i \in 1..(n - 1) : stack[i].gen # None
          BY <4>1, TopFrame, GeneratorsAssumption DEF Frames
        <4> QED
          BY <3>1, <4>2, <1>7, GeneratorsAssumption DEF StateBelow
      <3> QED
        BY <3>1
    <2> QED
      BY <2>1, <1>1, <1>3 DEF TypeOK
  <1> QED
    BY <1>4, <1>9, <1>10, <1>11 DEF StackOK, g

\* The lookup of throw, and close(), return.
LEMMA PopOtherKeeps ==
    ASSUME TypeOK, StackOK, stack # <<>>, Top.at \in {"lookup", "close"}, stack' = Below, Unmoved
    PROVE  /\ StackOK' /\ stack' \in Seq(Frames)
           /\ ResultGoesTo(Top.gen)
           /\ stack' # <<>> /\ Awaits(Top') => Top.at # "close"
  <1> DEFINE n == Len(stack)
  <1>1. n \in Nat /\ n >= 1 /\ n \in DOMAIN stack /\ Top = stack[n]
    BY TopFrame
  <1>2. /\ LookupBelowActivations' /\ AwaitedIsAbove' /\ stack' \in Seq(Frames)
        /\ \A x : ActiveIn(stack', x) = ActiveIn(stack, x) \ {n}
        /\ stack' # <<>> /\ Awaits(Top') => Awaited(Top') = Top.gen /\ Top.at # "close"
    BY PopKeeps DEF StackOK
  <1>3. Len(stack') = n - 1 /\ \A k \in 1..(n - 1) : stack'[k] = stack[k]
    BY PopEffect
  <1> HIDE DEF n
  <1>4. \A x : n \notin ActiveIn(stack, x)
    BY <1>1 DEF ActiveIn
  <1>5. ActiveOnce'
    BY <1>2, <1>4 DEF StackOK, ActiveOnce, Unmoved
  <1>6. CaughtStatesFollowStack'
    <2>1. n - 1 \in Nat /\ n = (n - 1) + 1
      BY <1>1
    <2>2. Len(stack) = (n - 1) + 1 /\ stack[(n - 1) + 1].at # "body"
      BY <2>1, <1>1 DEF n
    <2> QED
      BY <2>1, <2>2, <1>2, <1>3, CaughtKept DEF StackOK, Unmoved
  <1> QED
    BY <1>2, <1>5, <1>6 DEF StackOK, ResultGoesTo

\* A delegated throw() returns.
LEMMA PopThrowKeeps ==
    ASSUME TypeOK, StackOK, At("throw"), stack' = Below,
           running' = [running EXCEPT ![Top.gen] = FALSE], UNCHANGED <<prev, caught>>
    PROVE  /\ StackOK' /\ stack' \in Seq(Frames) /\ running' \in [Gen -> BOOLEAN]
           /\ ResultGoesTo(Top.gen)
  <1> DEFINE n == Len(stack)
             g == Top.gen
  <1>1. stack # <<>> /\ Top.at = "throw"
    BY DEF At
  <1>2. n \in Nat /\ n >= 1 /\ n \in DOMAIN stack /\ Top = stack[n] /\ g \in Gen
    BY <1>1, TopFrame DEF Frames
  <1>3. /\ LookupBelowActivations' /\ AwaitedIsAbove' /\ stack' \in Seq(Frames)
        /\ \A x : ActiveIn(stack', x) = ActiveIn(stack, x) \ {n}
        /\ ResultGoesTo(g)
    BY <1>1, PopKeeps DEF StackOK, ResultGoesTo
  <1>4. Len(stack') = n - 1 /\ \A k \in 1..(n - 1) : stack'[k] = stack[k]
    BY <1>1, PopEffect
  <1>5. ActiveIn(stack, g) = {n}
    <2>1. n \in ActiveIn(stack, g)
      BY <1>1, <1>2 DEF ActiveIn
    <2> QED
      BY <2>1, <1>2 DEF StackOK, ActiveOnce
  <1> HIDE DEF n
  <1>6. ActiveOnce' /\ running' \in [Gen -> BOOLEAN]
    <2>1. ActiveIn(stack', g) = {}
      BY <1>3, <1>5
    <2>2. ASSUME NEW x \in Gen \ {g} PROVE ActiveIn(stack', x) = ActiveIn(stack, x)
      <3>1. n \notin ActiveIn(stack, x)
        BY <1>2, <2>2 DEF ActiveIn
      <3> QED
        BY <3>1, <1>3
    <2> QED
      BY <2>1, <2>2, <1>2, ActiveChanges DEF StackOK
  <1>7. CaughtStatesFollowStack'
    <2>1. n - 1 \in Nat /\ n = (n - 1) + 1
      BY <1>2
    <2>2. Len(stack) = (n - 1) + 1 /\ stack[(n - 1) + 1].at # "body"
      BY <2>1, <1>1, <1>2 DEF n
    <2> QED
      BY <2>1, <2>2, <1>3, <1>4, CaughtKept DEF StackOK
  <1> QED
    BY <1>3, <1>6, <1>7 DEF StackOK

\* The lookup of throw, and close(), are called.
LEMMA PushOtherKeeps ==
    ASSUME TypeOK, StackOK, NEW a \in Frames, a.at \in {"lookup", "close"}, Push(a), Unmoved,
           stack # <<>> /\ Awaits(Top) => Awaited(Top) = a.gen /\ a.at # "close",
           a.at = "lookup" => ~running[a.gen]
    PROVE  /\ StackOK' /\ stack' \in Seq(Frames) /\ Top' = a
  <1>1. a.gen \in Gen /\ Len(stack) \in Nat /\ DOMAIN stack = 1..Len(stack)
    BY TopFrame DEF Frames
  <1>2. a.at = "lookup" => ActiveIn(stack, a.gen) = {}
    BY <1>1 DEF StackOK, ActiveOnce
  <1>3. /\ LookupBelowActivations' /\ AwaitedIsAbove' /\ stack' \in Seq(Frames) /\ Top' = a
        /\ \A x : ActiveIn(stack', x) = ActiveIn(stack, x) \cup
                (IF a.gen = x /\ a.at \in {"body", "throw"} THEN {Len(stack) + 1} ELSE {})
    BY <1>2, PushKeeps DEF StackOK
  <1>4. ActiveOnce'
    <2>1. \A x : ActiveIn(stack', x) = ActiveIn(stack, x)
      BY <1>3
    <2> QED
      BY <2>1 DEF StackOK, ActiveOnce, Unmoved
  <1>5. CaughtStatesFollowStack'
    <2>1. /\ Len(stack') = Len(stack) + 1 /\ stack'[Len(stack) + 1].at # "body"
          /\ \A k \in 1..Len(stack) : stack'[k] = stack[k]
      BY <1>1, PushEffect
    <2> QED
      BY <2>1, <1>1, <1>3, CaughtKept DEF StackOK, Unmoved
  <1> QED
    BY <1>3, <1>4, <1>5 DEF StackOK

\* A throw() is delegated to another generator.
LEMMA PushThrowKeeps ==
    ASSUME TypeOK, StackOK, NEW g \in Gen, NEW yf \in Gen, Push(Throwing(g, yf)), ~running[g],
           running' = [running EXCEPT ![g] = TRUE], UNCHANGED <<prev, caught>>,
           stack # <<>> /\ Awaits(Top) => Awaited(Top) = g
    PROVE  /\ StackOK' /\ stack' \in Seq(Frames) /\ running' \in [Gen -> BOOLEAN]
           /\ Top' = Throwing(g, yf)
  <1> DEFINE a == Throwing(g, yf)
  <1>1. a \in Frames /\ a.at = "throw" /\ a.gen = g
    BY DEF Throwing, Frames
  <1>2. Push(a)
    OBVIOUS
  <1>3. Len(stack) \in Nat /\ DOMAIN stack = 1..Len(stack)
    BY TopFrame
  <1> HIDE DEF a
  <1>4. /\ LookupBelowActivations' /\ AwaitedIsAbove' /\ stack' \in Seq(Frames) /\ Top' = a
        /\ \A x : ActiveIn(stack', x) = ActiveIn(stack, x) \cup
                (IF a.gen = x /\ a.at \in {"body", "throw"} THEN {Len(stack) + 1} ELSE {})
    BY <1>1, <1>2, PushKeeps DEF StackOK
  <1>5. ActiveOnce' /\ running' \in [Gen -> BOOLEAN]
    <2>1. ActiveIn(stack, g) = {}
      BY DEF StackOK, ActiveOnce
    <2>2. ActiveIn(stack', g) = {Len(stack) + 1}
      BY <2>1, <1>1, <1>4
    <2>3. \A x \in Gen \ {g} : ActiveIn(stack', x) = ActiveIn(stack, x)
      BY <1>1, <1>4
    <2> QED
      BY <2>2, <2>3, ActiveChanges DEF StackOK
  <1>6. CaughtStatesFollowStack'
    <2>1. /\ Len(stack') = Len(stack) + 1 /\ stack'[Len(stack) + 1].at # "body"
          /\ \A k \in 1..Len(stack) : stack'[k] = stack[k]
      BY <1>1, <1>2, <1>3, PushEffect
    <2> QED
      BY <2>1, <1>3, <1>4, CaughtKept DEF StackOK
  <1> QED
    BY <1>4, <1>5, <1>6 DEF StackOK, a

\* The method that was looked up is called: the generator is not active, as all
\* its activations would be above.
LEMMA LookupBecomesThrow ==
    ASSUME TypeOK, StackOK, At("lookup"), Replace(Throwing(Top.gen, Top.from)),
           running' = [running EXCEPT ![Top.gen] = TRUE], UNCHANGED <<prev, caught>>
    PROVE  /\ StackOK' /\ stack' \in Seq(Frames) /\ running' \in [Gen -> BOOLEAN]
           /\ stack' # <<>> /\ Top'.at = "throw" /\ Top'.from \in Iter
  <1> DEFINE n == Len(stack)
             g == Top.gen
             a == Throwing(Top.gen, Top.from)
  <1>1. stack # <<>> /\ Top.at = "lookup"
    BY DEF At
  <1>2. /\ n \in Nat /\ n >= 1 /\ n \in DOMAIN stack /\ DOMAIN stack = 1..n
        /\ Top = stack[n] /\ g \in Gen /\ Top.from \in Iter
    BY <1>1, TopFrame DEF Frames
  <1>3. a \in Frames /\ a.at = "throw" /\ a.gen = g /\ a.from = Top.from
    BY <1>2 DEF Throwing, Frames
  <1> HIDE DEF a
  <1>4. /\ stack' \in Seq(Frames) /\ stack' # <<>>
        /\ Len(stack') = n
        /\ DOMAIN stack' = DOMAIN stack
        /\ \A k \in DOMAIN stack : k # n => stack'[k] = stack[k]
        /\ stack'[n] = a
        /\ Top' = a
    BY <1>1, <1>3, ReplaceEffect DEF a
  <1> HIDE DEF n
  <1>5. stack[n].at = "lookup" /\ stack[n].gen = g
    BY <1>1, <1>2
  <1>6. ActiveIn(stack, g) = {}
    <2> SUFFICES ASSUME NEW j \in ActiveIn(stack, g) PROVE FALSE
      OBVIOUS
    <2>1. n < j /\ j \in DOMAIN stack
      BY <1>2, <1>5 DEF ActiveIn, StackOK, LookupBelowActivations
    <2> QED
      BY <2>1, <1>2
  <1>7. ActiveOnce' /\ running' \in [Gen -> BOOLEAN]
    <2>1. ActiveIn(stack', g) = {n}
      BY <1>2, <1>3, <1>4, <1>6 DEF ActiveIn
    <2>2. ASSUME NEW x \in Gen \ {g} PROVE ActiveIn(stack', x) = ActiveIn(stack, x)
      BY <1>3, <1>4, <1>5, <2>2 DEF ActiveIn
    <2> QED
      BY <2>1, <2>2, <1>2, ActiveChanges DEF StackOK
  <1>8. LookupBelowActivations'
    <2> SUFFICES ASSUME NEW i \in DOMAIN stack', NEW j \in DOMAIN stack',
                        stack'[i].at = "lookup", stack'[j].at \in {"body", "throw"},
                        stack'[j].gen = stack'[i].gen
                 PROVE  i < j
      BY DEF LookupBelowActivations
    <2>1. i \in DOMAIN stack /\ i # n /\ stack'[i] = stack[i]
      BY <1>3, <1>4
    <2>2. CASE j = n
      BY <2>1, <2>2, <1>2
    <2>3. CASE j # n
      BY <2>1, <2>3, <1>4 DEF StackOK, LookupBelowActivations
    <2> QED
      BY <2>2, <2>3
  <1>9. CaughtStatesFollowStack'
    <2>1. n - 1 \in Nat /\ n = (n - 1) + 1 /\ \A k \in 1..(n - 1) : k \in DOMAIN stack /\ k # n
      BY <1>2
    <2>2. /\ Len(stack) = (n - 1) + 1 /\ stack[(n - 1) + 1].at # "body"
          /\ Len(stack') = (n - 1) + 1 /\ stack'[(n - 1) + 1].at # "body"
      BY <2>1, <1>3, <1>4, <1>5 DEF n
    <2>3. \A k \in 1..(n - 1) : stack'[k] = stack[k]
      BY <2>1, <1>4
    <2> QED
      BY <2>1, <2>2, <2>3, <1>4, CaughtKept DEF StackOK
  <1>10. AwaitedIsAbove'
    <2> SUFFICES ASSUME NEW i \in 1..(Len(stack') - 1), Awaits(stack'[i])
                 PROVE  stack'[i + 1].gen = Awaited(stack'[i]) /\ stack'[i + 1].at # "close"
      BY DEF AwaitedIsAbove
    <2>1. i \in DOMAIN stack /\ stack'[i] = stack[i] /\ i + 1 \in DOMAIN stack /\ i \in 1..(n - 1)
      BY <1>2, <1>4
    <2>2. stack[i + 1].gen = Awaited(stack[i]) /\ stack[i + 1].at # "close"
      BY <2>1 DEF StackOK, AwaitedIsAbove, n
    <2>3. CASE i + 1 = n
      BY <2>1, <2>2, <2>3, <1>3, <1>4, <1>5
    <2>4. CASE i + 1 # n
      BY <2>1, <2>2, <2>4, <1>4
    <2> QED
      BY <2>3, <2>4
  <1> QED
    BY <1>2, <1>3, <1>4, <1>7, <1>8, <1>9, <1>10 DEF StackOK

\* The body on top goes on.
LEMMA ReplaceBodyKeeps ==
    ASSUME TypeOK, StackOK, At("body"), NEW from \in Gen \cup Iter \cup {None},
           NEW inTry \in BOOLEAN, Replace(Body(Top.gen, from, inTry)), Unmoved
    PROVE  /\ StackOK' /\ stack' \in Seq(Frames)
           /\ stack' # <<>> /\ Top' = Body(Top.gen, from, inTry)
  <1> DEFINE n == Len(stack)
             g == Top.gen
             a == Body(Top.gen, from, inTry)
  <1>1. stack # <<>> /\ Top.at = "body"
    BY DEF At
  <1>2. /\ n \in Nat /\ n >= 1 /\ n \in DOMAIN stack /\ DOMAIN stack = 1..n
        /\ Top = stack[n] /\ g \in Gen
    BY <1>1, TopFrame DEF Frames
  <1>3. a \in Frames /\ a.at = "body" /\ a.gen = g
    BY <1>2 DEF Body, Frames
  <1> HIDE DEF a
  <1>4. /\ stack' \in Seq(Frames) /\ stack' # <<>>
        /\ Len(stack') = n
        /\ DOMAIN stack' = DOMAIN stack
        /\ \A k \in DOMAIN stack : k # n => stack'[k] = stack[k]
        /\ stack'[n] = a
        /\ Top' = a
    BY <1>1, <1>3, ReplaceEffect DEF a
  <1> HIDE DEF n
  <1>5. stack[n].at = "body" /\ stack[n].gen = g
    BY <1>1, <1>2
  <1>6. \A k \in DOMAIN stack : stack'[k].at = stack[k].at /\ stack'[k].gen = stack[k].gen
    BY <1>3, <1>4, <1>5
  <1>7. \A x : ActiveIn(stack', x) = ActiveIn(stack, x)
    BY <1>4, <1>6 DEF ActiveIn
  <1>8. ActiveOnce' /\ LookupBelowActivations'
    BY <1>4, <1>6, <1>7 DEF StackOK, ActiveOnce, LookupBelowActivations, Unmoved
  <1>9. CaughtStatesFollowStack'
    <2>1. ASSUME NEW i \in 1..(n + 1), NEW x, StateBelow(stack, i, x)
          PROVE  StateBelow(stack', i, x)
      <3>1. \A k \in 1..(i - 1) : k \in DOMAIN stack
        BY <1>2
      <3>2. \A k \in 1..(i - 1) : \A j \in (k + 1)..(i - 1) : j \in 1..(i - 1)
        BY <1>2
      <3> QED
        BY <3>1, <3>2, <1>6, <2>1 DEF StateBelow
    <2>2. Bodies' = Bodies /\ \A i \in Bodies : i \in 1..(n + 1) /\ stack'[i].gen = stack[i].gen
      BY <1>2, <1>4, <1>6 DEF Bodies
    <2>3. StateBelow(stack', Len(stack') + 1, caught')
      <3>1. StateBelow(stack, n + 1, caught) /\ n + 1 \in 1..(n + 1)
        BY <1>2 DEF StackOK, CaughtStatesFollowStack, n
      <3> QED
        BY <3>1, <2>1, <1>4 DEF Unmoved
    <2>4. ASSUME NEW i \in Bodies' PROVE StateBelow(stack', i, prev'[stack'[i].gen])
      <3>1. StateBelow(stack, i, prev[stack[i].gen])
        BY <2>2 DEF StackOK, CaughtStatesFollowStack
      <3>2. i \in 1..(n + 1) /\ prev'[stack'[i].gen] = prev[stack[i].gen]
        BY <2>2 DEF Unmoved
      <3> QED
        BY <3>1, <3>2, <2>1
    <2>5. \A x \in Gen : prev'[x] # None => \E i \in Bodies' : stack'[i].gen = x
      BY <2>2 DEF StackOK, CaughtStatesFollowStack, Unmoved
    <2> QED
      BY <2>3, <2>4, <2>5 DEF CaughtStatesFollowStack
  <1>10. AwaitedIsAbove'
    <2> SUFFICES ASSUME NEW i \in 1..(Len(stack') - 1), Awaits(stack'[i])
                 PROVE  stack'[i + 1].gen = Awaited(stack'[i]) /\ stack'[i + 1].at # "close"
      BY DEF AwaitedIsAbove
    <2>1. i \in DOMAIN stack /\ stack'[i] = stack[i] /\ i + 1 \in DOMAIN stack /\ i \in 1..(n - 1)
      BY <1>2, <1>4
    <2>2. stack[i + 1].gen = Awaited(stack[i]) /\ stack[i + 1].at # "close"
      BY <2>1 DEF StackOK, AwaitedIsAbove, n
    <2> QED
      BY <2>1, <2>2, <1>6
  <1> QED
    BY <1>4, <1>8, <1>9, <1>10 DEF StackOK, a

-----------------------------------------------------------------------------
(***************************************************************************)
(* What is called and what is answered.                                    *)
(***************************************************************************)

\* The fields of next.
LEMMA StepTypes ==
    ASSUME TypeOK
    PROVE  /\ next.do \in {"run", "abort", "send", "throw", "raise", "result"}
           /\ next.do = "send" => next.gen \in Gen
           /\ next.do \in {"throw", "raise"} => next.gen \in Gen /\ next.exc \in Exception
           /\ next.do = "result" => next.is \in Exception \cup {"yield"}
  BY DEF TypeOK, Steps

LEMMA StepsOf ==
    /\ Run \in Steps /\ Run.do = "run"
    /\ Aborted \in Steps /\ Aborted.do = "abort"
    /\ \A g \in Gen : Send(g) \in Steps /\ Send(g).do = "send" /\ Send(g).gen = g
    /\ \A g \in Gen, exc \in Exception :
            /\ Throw(g, exc) \in Steps /\ Throw(g, exc).do = "throw" /\ Throw(g, exc).gen = g
            /\ Raise(g, exc) \in Steps /\ Raise(g, exc).do = "raise" /\ Raise(g, exc).gen = g
    /\ \A r \in Exception \cup {"yield"} :
            /\ Result(r) \in Steps /\ Result(r).do = "result" /\ Result(r).is = r
            /\ ~Result(r).lookup
    /\ \A exc \in Exception :
            /\ LookupRaised(exc) \in Steps /\ LookupRaised(exc).do = "result"
            /\ LookupRaised(exc).lookup
  BY DEF Run, Aborted, Send, Throw, Raise, Result, LookupRaised, Steps

CallsOK == AwaitedIsCalled /\ ClosedIsFinished

\* A generator is called by who awaits it.
LEMMA CallIsAwaited ==
    ASSUME NEW g \in Gen, ResultGoesTo(g),
           \/ next' = Send(g)
           \/ \E exc \in Exception : next' = Throw(g, exc) \/ next' = Raise(g, exc)
    PROVE  CallsOK' /\ next' \in Steps
  <1>1. next'.do \in {"send", "throw", "raise"} /\ next'.gen = g /\ next' \in Steps
    BY StepsOf
  <1> QED
    BY <1>1 DEF CallsOK, AwaitedIsCalled, ClosedIsFinished, ClosesQuietly, ResultGoesTo

\* A generator answers who awaits it, a close() only when it is finished.
LEMMA AnswerIsAwaited ==
    ASSUME NEW g \in Gen, ResultGoesTo(g), NEW r \in Exception \cup {"yield"}, next' = Result(r),
           r \in {"GeneratorExit", "StopIteration"} => pc'[g] = "finished"
    PROVE  CallsOK' /\ next' \in Steps
  <1>1. next'.do = "result" /\ next'.is = r /\ next' \in Steps
    BY StepsOf
  <1>2. At("close")' => Top'.gen = g
    BY DEF ResultGoesTo, At, Awaits, Awaited
  <1> QED
    BY <1>1, <1>2 DEF CallsOK, AwaitedIsCalled, ClosedIsFinished, ClosesQuietly

\* An error answers whoever waits, and so does what a lookup raised.
LEMMA ErrorIsAnswer ==
    ASSUME next' = Result("Error") \/ \E exc \in Exception : next' = LookupRaised(exc)
    PROVE  CallsOK' /\ next' \in Steps
  <1>1. next'.do = "result" /\ (next'.is = "Error" \/ next'.lookup) /\ next' \in Steps
    BY StepsOf DEF Exception
  <1> QED
    BY <1>1 DEF CallsOK, AwaitedIsCalled, ClosedIsFinished, ClosesQuietly

\* Code runs where nothing is awaited.
LEMMA RunAwaitsNone ==
    ASSUME next' = Run, stack' # <<>> => ~Awaits(Top')
    PROVE  CallsOK' /\ next' \in Steps
  <1>1. next'.do = "run" /\ next' \in Steps
    BY StepsOf
  <1> QED
    BY <1>1 DEF CallsOK, AwaitedIsCalled, ClosedIsFinished, ClosesQuietly

\* In the present: what runs awaits nothing, what is called is awaited.
LEMMA WhoIsAwaited ==
    ASSUME TypeOK, CallsOK
    PROVE  /\ next.do = "run" /\ stack # <<>> => ~Awaits(Top)
           /\ next.do \in {"send", "throw", "raise"} /\ stack # <<>> /\ Awaits(Top) =>
                Awaited(Top) = next.gen
  BY DEF CallsOK, AwaitedIsCalled

LEMMA SameStack ==
    ASSUME TypeOK, StackOK, UNCHANGED <<stack, running, prev, caught>>
    PROVE  /\ StackOK'
           /\ \A g : (stack # <<>> /\ Awaits(Top) => Awaited(Top) = g) => ResultGoesTo(g)
           /\ stack' # <<>> /\ ~Awaits(Top) => ~Awaits(Top')
  <1>1. ActiveOnce'
    BY DEF StackOK, ActiveOnce
  <1>2. LookupBelowActivations' /\ AwaitedIsAbove' /\ Bodies' = Bodies /\ Top' = Top
    BY DEF StackOK, LookupBelowActivations, AwaitedIsAbove, Bodies, Top
  <1>3. CaughtStatesFollowStack'
    BY <1>2 DEF StackOK, CaughtStatesFollowStack
  <1> QED
    BY <1>1, <1>2, <1>3 DEF StackOK, ResultGoesTo

Inv == TypeOK /\ StackOK /\ CallsOK

LEMMA InvIsInductive == Inv <=> Inductive
  BY OnceIsRunningMeansActive DEF Inv, StackOK, CallsOK, Inductive

LEMMA InitInv == Init => Inv
  <1> SUFFICES ASSUME Init PROVE Inv
    OBVIOUS
  <1> USE DEF Init
  <1>1. TypeOK
    <2>1. stack \in Seq(Frames) /\ next \in Steps
      BY EmptySeq, StepsOf
    <2> QED
      BY <2>1 DEF TypeOK
  <1>2. Len(stack) = 0 /\ DOMAIN stack = {}
    OBVIOUS
  <1>3. ActiveOnce /\ LookupBelowActivations
    BY <1>2 DEF ActiveOnce, LookupBelowActivations, ActiveIn
  <1>4. AwaitedIsAbove
    <2>1. 1..(Len(stack) - 1) = {}
      BY <1>2
    <2> QED
      BY <2>1 DEF AwaitedIsAbove
  <1>5. CaughtStatesFollowStack
    <2>1. StateBelow(stack, Len(stack) + 1, caught)
      <3>1. 1..((Len(stack) + 1) - 1) = {}
        BY <1>2
      <3> QED
        BY <3>1 DEF StateBelow
    <2>2. Bodies = {} /\ \A g \in Gen : prev[g] = None
      BY <1>2 DEF Bodies
    <2> QED
      BY <2>1, <2>2 DEF CaughtStatesFollowStack
  <1>6. CallsOK
    BY DEF CallsOK, AwaitedIsCalled, ClosedIsFinished, ClosesQuietly, At
  <1> QED
    BY <1>1, <1>3, <1>4, <1>5, <1>6 DEF Inv, StackOK

-----------------------------------------------------------------------------
(***************************************************************************)
(* Every step keeps the invariant.                                         *)
(***************************************************************************)

SavedOK ==
    /\ pc \in [Gen -> {"start", "yield", "from", "finished"}]
    /\ sub \in [Gen -> Gen \cup Iter \cup {None}]
    /\ try \in [Gen -> BOOLEAN]

FlagsOK ==
    /\ running \in [Gen -> BOOLEAN]
    /\ prev \in [Gen -> Gen \cup {Base, None}]
    /\ caught \in Gen \cup {Base}

LEMMA TypeParts == TypeOK <=> SavedOK /\ FlagsOK /\ stack \in Seq(Frames) /\ next \in Steps
  BY DEF TypeOK, SavedOK, FlagsOK

LEMMA TypeOfParts ==
    ASSUME SavedOK', FlagsOK', stack' \in Seq(Frames), next' \in Steps
    PROVE  TypeOK'
  BY DEF TypeOK, SavedOK, FlagsOK

LEMMA InvOfParts ==
    ASSUME SavedOK', FlagsOK', StackOK', stack' \in Seq(Frames), CallsOK', next' \in Steps
    PROVE  Inv'
  BY TypeOfParts DEF Inv

LEMMA SavedKept == SavedOK /\ UNCHANGED saved => SavedOK'
  BY DEF SavedOK, saved

LEMMA FlagsKept == FlagsOK /\ Unmoved => FlagsOK'
  BY DEF FlagsOK, Unmoved

\* Nothing but next and what is saved changes.
LEMMA StillKeeps ==
    ASSUME Inv, UNCHANGED <<stack, running, prev, caught>>, SavedOK', CallsOK', next' \in Steps
    PROVE  Inv'
  <1>1. TypeOK'
    <2>1. FlagsOK' /\ stack' \in Seq(Frames)
      BY FlagsKept, TypeParts DEF Inv, Unmoved
    <2> QED
      BY <2>1, TypeOfParts
  <1>2. StackOK'
    BY SameStack DEF Inv
  <1> QED
    BY <1>1, <1>2 DEF Inv

\* Who is called answers who awaits.
LEMMA CalledGets ==
    ASSUME Inv, next.do \in {"send", "throw", "raise"}, UNCHANGED stack
    PROVE  ResultGoesTo(next.gen) /\ (stack # <<>> /\ Awaits(Top) => Awaited(Top) = next.gen)
  BY WhoIsAwaited DEF Inv, ResultGoesTo, Top

LEMMA CallSendKeeps ==
    ASSUME Inv, NEW g \in Gen, \/ CallSend(g) \/ \E exc \in Exception : CallThrow(g, exc)
    PROVE  Inv'
  <1>1. next = Run /\ UNCHANGED <<stack, running, prev, caught>> /\ UNCHANGED saved
    BY DEF CallSend, CallThrow, CodeRuns
  <1>2. stack # <<>> => ~Awaits(Top)
    BY <1>1, WhoIsAwaited, StepsOf DEF Inv
  <1>3. ResultGoesTo(g)
    BY <1>1, <1>2 DEF ResultGoesTo, Top
  <1>4. CallsOK' /\ next' \in Steps
    BY <1>3, CallIsAwaited DEF CallSend, CallThrow
  <1>5. SavedOK'
    BY <1>1, SavedKept, TypeParts DEF Inv
  <1> QED
    BY <1>1, <1>4, <1>5, StillKeeps

LEMMA CallCloseKeeps ==
    ASSUME Inv, NEW g \in Gen, CallClose(g)
    PROVE  Inv'
  <1>1. /\ next = Run /\ UNCHANGED saved /\ Unmoved /\ Push(Closing(g))
        /\ next' = Throw(g, "GeneratorExit")
    BY DEF CallClose, CodeRuns, Unmoved
  <1>2. stack # <<>> => ~Awaits(Top)
    BY <1>1, WhoIsAwaited, StepsOf DEF Inv
  <1>3. Closing(g) \in Frames /\ Closing(g).at = "close" /\ Closing(g).gen = g
    BY DEF Closing, Frames
  <1>4. StackOK' /\ stack' \in Seq(Frames) /\ Top' = Closing(g)
    BY <1>1, <1>2, <1>3, PushOtherKeeps DEF Inv
  <1>5. ResultGoesTo(g)
    BY <1>3, <1>4 DEF ResultGoesTo, Awaited
  <1>6. CallsOK' /\ next' \in Steps
    BY <1>1, <1>5, CallIsAwaited DEF Exception
  <1>7. SavedOK' /\ FlagsOK'
    BY <1>1, SavedKept, FlagsKept, TypeParts DEF Inv
  <1> QED
    BY <1>4, <1>6, <1>7, InvOfParts

\* A call that fails.
LEMMA FailKeeps ==
    ASSUME Inv, next.do \in {"send", "throw", "raise"}, NEW r \in Exception, Fail(r),
           r = "Error" \/ pc[next.gen] = "finished"
    PROVE  Inv'
  <1>1. next' = Result(r) /\ UNCHANGED saved /\ UNCHANGED <<stack, running, prev, caught>>
    BY DEF Fail
  <1>2. next.gen \in Gen
    BY StepTypes DEF Inv
  <1>3. CallsOK' /\ next' \in Steps
    <2>1. CASE r = "Error"
      BY <2>1, <1>1, ErrorIsAnswer
    <2>2. CASE pc[next.gen] = "finished"
      <3>1. ResultGoesTo(next.gen) /\ pc'[next.gen] = "finished"
        BY <2>2, <1>1, CalledGets DEF saved
      <3> QED
        BY <3>1, <1>1, <1>2, AnswerIsAwaited
    <2> QED
      BY <2>1, <2>2
  <1>4. SavedOK'
    BY <1>1, SavedKept, TypeParts DEF Inv
  <1> QED
    BY <1>1, <1>3, <1>4, StillKeeps

\* The generator called is entered.
LEMMA ResumeKeeps ==
    ASSUME Inv, next.do \in {"send", "raise"}, ~running[next.gen], UNCHANGED saved,
           NEW from \in Gen \cup Iter \cup {None}, NEW inTry \in BOOLEAN,
           Resume(next.gen, from, inTry),
           next' = IF from \in Gen THEN Send(from) ELSE Run
    PROVE  Inv'
  <1> DEFINE b == Body(next.gen, from, inTry)
  <1>1. next.gen \in Gen
    BY StepTypes DEF Inv
  <1>2. stack # <<>> /\ Awaits(Top) => Awaited(Top) = next.gen
    BY WhoIsAwaited DEF Inv
  <1>3. /\ StackOK'
        /\ stack' \in Seq(Frames) /\ stack' # <<>> /\ Top' = b
        /\ running' \in [Gen -> BOOLEAN]
        /\ prev' \in [Gen -> Gen \cup {Base, None}]
        /\ caught' \in Gen \cup {Base}
    BY <1>1, <1>2, EnterKeeps DEF Inv
  <1>4. b.at = "body" /\ b.from = from
    BY DEF Body
  <1>5. CallsOK' /\ next' \in Steps
    <2>1. CASE from \in Gen
      <3>1. ResultGoesTo(from) /\ next' = Send(from)
        BY <2>1, <1>3, <1>4 DEF ResultGoesTo, Awaited
      <3> QED
        BY <2>1, <3>1, CallIsAwaited
    <2>2. CASE from \notin Gen
      <3>1. ~Awaits(Top')
        BY <2>2, <1>3, <1>4 DEF Awaits
      <3> QED
        BY <2>2, <3>1, RunAwaitsNone
    <2> QED
      BY <2>1, <2>2
  <1>6. SavedOK' /\ FlagsOK'
    BY <1>3, SavedKept, TypeParts DEF Inv, FlagsOK
  <1> QED
    BY <1>3, <1>5, <1>6, InvOfParts

LEMMA ResumeGeneratorKeeps ==
    ASSUME Inv, ResumeGenerator
    PROVE  Inv'
  <1> DEFINE g == next.gen
  <1>1. next.do = "send" /\ g \in Gen
    BY StepTypes DEF Inv, ResumeGenerator
  <1>2. CASE running[g]
    BY <1>1, <1>2, FailKeeps DEF ResumeGenerator, Exception
  <1>3. CASE ~running[g] /\ pc[g] = "finished"
    <2>1. (IF g \in Coroutine THEN "Error" ELSE "StopIteration") \in Exception
      BY DEF Exception
    <2> QED
      BY <2>1, <1>1, <1>3, FailKeeps DEF ResumeGenerator
  <1>4. CASE ~running[g] /\ pc[g] # "finished" /\ StackFull
    BY <1>1, <1>4, FailKeeps DEF ResumeGenerator, Exception
  <1>5. CASE ~running[g] /\ pc[g] # "finished" /\ ~StackFull
    <2> DEFINE from == IF pc[g] = "from" THEN sub[g] ELSE None
    <2>1. /\ Resume(g, from, try[g])
          /\ next' = IF pc[g] = "from" /\ sub[g] \in Gen THEN Send(sub[g]) ELSE Run
          /\ UNCHANGED saved
      BY <1>5 DEF ResumeGenerator
    <2>2. from \in Gen \cup Iter \cup {None} /\ try[g] \in BOOLEAN
      BY <1>1 DEF Inv, TypeOK
    <2>3. next' = IF from \in Gen THEN Send(from) ELSE Run
      BY <2>1, GeneratorsAssumption
    <2> HIDE DEF from
    <2> QED
      BY <1>1, <1>5, <2>1, <2>2, <2>3, ResumeKeeps
  <1> QED
    BY <1>2, <1>3, <1>4, <1>5

LEMMA SendValueTooEarlyKeeps ==
    ASSUME Inv, SendValueTooEarly
    PROVE  Inv'
  BY FailKeeps DEF SendValueTooEarly, Exception

LEMMA ResumeGeneratorWithRaiseKeeps ==
    ASSUME Inv, ResumeGeneratorWithRaise
    PROVE  Inv'
  <1> DEFINE g == next.gen
             refused == running[g] \/ StackFull \/ (g \in Coroutine /\ pc[g] = "finished")
  <1>1. next.do = "raise" /\ g \in Gen /\ next.exc \in Exception
    BY StepTypes DEF Inv, ResumeGeneratorWithRaise
  <1>2. CASE refused
    BY <1>1, <1>2, FailKeeps DEF ResumeGeneratorWithRaise, Exception
  <1>3. CASE ~refused /\ try[g]
    <2>1. Resume(g, None, FALSE) /\ next' = Run /\ UNCHANGED saved
      BY <1>3 DEF ResumeGeneratorWithRaise
    <2>2. None \notin Gen
      BY GeneratorsAssumption
    <2> QED
      BY <1>1, <1>3, <2>1, <2>2, ResumeKeeps
  <1>4. CASE ~refused /\ ~try[g]
    <2>1. /\ pc' = [pc EXCEPT ![g] = "finished"]
          /\ next' = Result(next.exc)
          /\ UNCHANGED <<sub, try, running, stack, prev, caught>>
      BY <1>4 DEF ResumeGeneratorWithRaise
    <2>2. SavedOK' /\ pc'[g] = "finished"
      BY <1>1, <2>1 DEF Inv, TypeOK, SavedOK
    <2>3. ResultGoesTo(g)
      BY <1>1, <2>1, CalledGets
    <2>4. CallsOK' /\ next' \in Steps
      BY <1>1, <2>1, <2>2, <2>3, AnswerIsAwaited
    <2> QED
      BY <2>1, <2>2, <2>4, StillKeeps
  <1> QED
    BY <1>2, <1>3, <1>4

\* The end of a YIELD_FROM leaves the saved frame well formed.
LEMMA EndYieldFromKeeps ==
    ASSUME NEW g \in Gen, SavedOK, EndYieldFrom(g)
    PROVE  SavedOK'
  BY DEF SavedOK, EndYieldFrom

LEMMA ThrowImplKeeps ==
    ASSUME Inv, ThrowImpl
    PROVE  Inv'
  <1> DEFINE g == next.gen
             exc == next.exc
             yf == FindYieldFrom(g)
  <1>1. next.do = "throw" /\ g \in Gen /\ exc \in Exception
    BY StepTypes DEF Inv, ThrowImpl
  <1>2. /\ UNCHANGED <<prev, caught>>
        /\ UNCHANGED saved => SavedOK'
    BY SavedKept, TypeParts DEF Inv, ThrowImpl
  <1>3. /\ stack # <<>> /\ Awaits(Top) => Awaited(Top) = g
        /\ yf # None => ~running[g]
    BY <1>1, WhoIsAwaited DEF Inv, FindYieldFrom
  <1>4. CASE yf = None
    <2>1. next' = Raise(g, exc) /\ UNCHANGED saved /\ UNCHANGED <<stack, running, prev, caught>>
      BY <1>2, <1>4, GeneratorsAssumption DEF ThrowImpl
    <2>2. ResultGoesTo(g)
      BY <1>1, <2>1, CalledGets
    <2>3. CallsOK' /\ next' \in Steps
      BY <1>1, <2>1, <2>2, CallIsAwaited
    <2> QED
      BY <1>2, <2>1, <2>3, StillKeeps
  <1>5. CASE yf \in Gen /\ ~StackFull
    <2>1. yf # None /\ yf \notin Iter
      BY <1>5, GeneratorsAssumption
    <2>2. /\ running' = [running EXCEPT ![g] = TRUE]
          /\ next' = Throw(yf, exc) /\ Push(Throwing(g, yf)) /\ UNCHANGED saved
      BY <1>5, <2>1 DEF ThrowImpl
    <2>3. /\ StackOK' /\ stack' \in Seq(Frames) /\ running' \in [Gen -> BOOLEAN]
          /\ Top' = Throwing(g, yf)
      <3> HIDE DEF g, yf
      <3> QED
        BY <1>1, <1>2, <1>3, <1>5, <2>1, <2>2, PushThrowKeeps DEF Inv, g, yf
    <2>4. ResultGoesTo(yf)
      BY <2>3 DEF ResultGoesTo, Awaited, Throwing
    <2>5. CallsOK' /\ next' \in Steps
      BY <1>1, <1>5, <2>2, <2>4, CallIsAwaited
    <2>6. FlagsOK'
      BY <1>2, <2>3, TypeParts DEF Inv, FlagsOK
    <2> QED
      BY <1>2, <2>2, <2>3, <2>5, <2>6, InvOfParts
  <1>6. CASE yf \in Iter /\ ~StackFull
    <2>1. yf # None /\ yf \notin Gen
      BY <1>6, GeneratorsAssumption
    <2>2. Unmoved /\ next' = Run /\ Push(Lookup(g, yf, exc)) /\ UNCHANGED saved
      BY <1>2, <1>6, <2>1 DEF ThrowImpl, Unmoved
    <2> DEFINE a == Lookup(g, yf, exc)
    <2>3. a \in Frames /\ a.at = "lookup" /\ a.gen = g
      BY <1>1, <1>6 DEF Lookup, Frames
    <2>4. StackOK' /\ stack' \in Seq(Frames) /\ Top' = a
      <3> HIDE DEF a, yf
      <3> QED
        BY <1>3, <2>1, <2>2, <2>3, PushOtherKeeps DEF Inv, a, yf
    <2>5. CallsOK' /\ next' \in Steps
      <3>1. ~Awaits(Top')
        BY <2>3, <2>4 DEF Awaits
      <3> QED
        BY <3>1, <2>2, RunAwaitsNone
    <2>6. FlagsOK'
      BY <2>2, FlagsKept, TypeParts DEF Inv
    <2> QED
      BY <1>2, <2>2, <2>4, <2>5, <2>6, InvOfParts
  <1>7. CASE yf # None /\ StackFull
    <2>1. ThrowOverflows(g, yf, exc) /\ UNCHANGED <<stack, running, prev, caught>>
      BY <1>2, <1>7 DEF ThrowImpl, ThrowOverflows
    <2>2. SavedOK'
      <3> HIDE DEF g, yf, exc
      <3> QED
        BY <1>1, <1>2, <2>1, EndYieldFromKeeps, TypeParts DEF Inv, ThrowOverflows
    <2>3. ResultGoesTo(g)
      BY <1>1, <2>1, CalledGets
    <2>4. \/ next' = LookupRaised("Error")
          \/ next' = Raise(g, "Error")
          \/ next' = Raise(g, exc)
      BY <2>1 DEF ThrowOverflows
    <2>5. CallsOK' /\ next' \in Steps
      <3> HIDE DEF g, yf, exc
      <3>1. "Error" \in Exception
        BY DEF Exception
      <3> QED
        BY <1>1, <2>3, <2>4, <3>1, ErrorIsAnswer, CallIsAwaited
    <2> QED
      BY <2>1, <2>2, <2>5, StillKeeps
  <1> QED
    BY <1>4, <1>5, <1>6, <1>7 DEF ThrowImpl

LEMMA ThrowMethodFoundKeeps ==
    ASSUME Inv, ThrowMethodFound
    PROVE  Inv'
  <1>1. /\ next' = Run /\ At("lookup") /\ UNCHANGED saved /\ UNCHANGED <<prev, caught>>
        /\ running' = [running EXCEPT ![Top.gen] = TRUE]
        /\ Replace(Throwing(Top.gen, Top.from))
    BY DEF ThrowMethodFound
  <1>2. /\ StackOK' /\ stack' \in Seq(Frames) /\ running' \in [Gen -> BOOLEAN]
        /\ stack' # <<>> /\ Top'.at = "throw" /\ Top'.from \in Iter
    BY <1>1, LookupBecomesThrow DEF Inv
  <1>3. CallsOK' /\ next' \in Steps
    <2>1. ~Awaits(Top')
      BY <1>2, GeneratorsAssumption DEF Awaits
    <2> QED
      BY <2>1, <1>1, RunAwaitsNone
  <1>4. SavedOK' /\ FlagsOK'
    BY <1>1, <1>2, SavedKept, TypeParts DEF Inv, FlagsOK
  <1> QED
    BY <1>2, <1>3, <1>4, InvOfParts

\* The lookup of throw, or close(), is left.
LEMMA LeftKeeps ==
    ASSUME Inv, stack # <<>>, Top.at \in {"lookup", "close"}, stack' = Below,
           UNCHANGED saved, Unmoved, CallsOK', next' \in Steps
    PROVE  Inv'
  <1>1. StackOK' /\ stack' \in Seq(Frames)
    BY PopOtherKeeps DEF Inv
  <1>2. SavedOK' /\ FlagsOK'
    BY SavedKept, FlagsKept, TypeParts DEF Inv
  <1> QED
    BY <1>1, <1>2, InvOfParts

LEMMA ThrowMethodMissingKeeps ==
    ASSUME Inv, \/ ThrowMethodMissing \/ ThrowMethodRaises \/ CloseReturns
    PROVE  Inv'
  <1>1. /\ stack # <<>> /\ Top.at \in {"lookup", "close"} /\ stack' = Below
        /\ UNCHANGED saved /\ Unmoved
    BY DEF ThrowMethodMissing, ThrowMethodRaises, CloseReturns, At, Unmoved
  <1>2. Top \in Frames
    BY <1>1, TopFrame DEF Inv
  <1>3. /\ ResultGoesTo(Top.gen)
        /\ stack' # <<>> /\ Awaits(Top') => Top.at # "close"
    BY <1>1, PopOtherKeeps DEF Inv
  <1>4. CASE ThrowMethodMissing
    <2>1. Top.gen \in Gen /\ Top.exc \in Exception /\ next' = Raise(Top.gen, Top.exc)
      BY <1>2, <1>4 DEF ThrowMethodMissing, At, Frames
    <2>2. CallsOK' /\ next' \in Steps
      BY <1>3, <2>1, CallIsAwaited
    <2> QED
      BY <1>1, <2>2, LeftKeeps
  <1>5. CASE ThrowMethodRaises
    <2>1. CallsOK' /\ next' \in Steps
      BY <1>5, ErrorIsAnswer DEF ThrowMethodRaises
    <2> QED
      BY <1>1, <2>1, LeftKeeps
  <1>6. CASE CloseReturns
    <2>1. next' = Run /\ Top.at = "close"
      BY <1>6 DEF CloseReturns, At
    <2>2. CallsOK' /\ next' \in Steps
      BY <1>3, <2>1, RunAwaitsNone
    <2> QED
      BY <1>1, <2>2, LeftKeeps
  <1> QED
    BY <1>4, <1>5, <1>6

\* Whatever the subiterator's throw() returned, the generator that delegated it
\* goes on, or hands on what was yielded.
LEMMA ThrownKeeps ==
    ASSUME Inv, At("throw"), NEW r \in Exception \cup {"yield"}, Thrown(Top.gen, Top.from, r)
    PROVE  Inv'
  <1> DEFINE g == Top.gen
             gone == pc[g] # "from" \/ sub[g] # Top.from
  <1>1. stack # <<>> /\ Top.at = "throw"
    BY DEF At
  <1>2. g \in Gen
    BY <1>1, TopFrame DEF Inv, Frames
  <1>3. /\ stack' = Below /\ running' = [running EXCEPT ![g] = FALSE]
        /\ UNCHANGED <<prev, caught>>
    BY DEF Thrown
  <1>4. /\ StackOK' /\ stack' \in Seq(Frames) /\ running' \in [Gen -> BOOLEAN]
        /\ ResultGoesTo(g)
    BY <1>3, PopThrowKeeps DEF Inv
  <1>5. FlagsOK'
    BY <1>3, <1>4, TypeParts DEF Inv, FlagsOK
  <1>6. SavedOK' /\ CallsOK' /\ next' \in Steps
    <2>1. CASE r = "yield"
      <3>1. next' = Result(r) /\ UNCHANGED saved
        BY <2>1 DEF Thrown
      <3>2. r \notin {"GeneratorExit", "StopIteration"}
        BY <2>1
      <3> QED
        BY <3>1, <3>2, <1>2, <1>4, AnswerIsAwaited, SavedKept, TypeParts DEF Inv
    <2>2. CASE r # "yield" /\ gone
      <3>1. next' = Aborted /\ UNCHANGED saved
        BY <2>2 DEF Thrown
      <3>2. CallsOK' /\ next' \in Steps
        BY <3>1, StepsOf DEF CallsOK, AwaitedIsCalled, ClosedIsFinished, ClosesQuietly
      <3> QED
        BY <3>1, <3>2, SavedKept, TypeParts DEF Inv
    <2>3. CASE r # "yield" /\ ~gone
      <3>1. /\ pc' = [pc EXCEPT ![g] = "yield"] /\ sub' = [sub EXCEPT ![g] = None]
            /\ next' = IF r = "StopIteration" THEN Send(g) ELSE Raise(g, r)
            /\ try' = try
        BY <2>3 DEF Thrown, EndYieldFrom
      <3>2. SavedOK'
        BY <3>1, <1>2 DEF Inv, TypeOK, SavedOK
      <3>3. r \in Exception
        BY <2>3
      <3>4. CallsOK' /\ next' \in Steps
        BY <3>1, <3>3, <1>2, <1>4, CallIsAwaited
      <3> QED
        BY <3>2, <3>4
    <2> QED
      BY <2>1, <2>2, <2>3
  <1> QED
    BY <1>4, <1>5, <1>6, InvOfParts

LEMMA ThrowReturnsKeeps ==
    ASSUME Inv, ThrowYieldFromReturns \/ ThrowMethodReturns
    PROVE  Inv'
  <1>1. CASE ThrowYieldFromReturns
    <2>1. next.is \in Exception \cup {"yield"}
      BY <1>1, StepTypes DEF Inv, ThrowYieldFromReturns
    <2> QED
      BY <1>1, <2>1, ThrownKeeps DEF ThrowYieldFromReturns
  <1>2. CASE ThrowMethodReturns
    BY <1>2, ThrownKeeps DEF ThrowMethodReturns
  <1> QED
    BY <1>1, <1>2

\* The generator whose code runs suspends or finishes.
LEMMA SuspendKeeps ==
    ASSUME Inv, At("body"), NEW how \in {"yield", "from"}, NEW from \in Gen \cup Iter \cup {None},
           Suspend(how, from)
    PROVE  Inv'
  <1> DEFINE g == Top.gen
  <1>1. stack # <<>> /\ Top.at = "body"
    BY DEF At
  <1>2. g \in Gen /\ Top.inTry \in BOOLEAN
    BY <1>1, TopFrame DEF Inv, Frames
  <1>3. /\ Leave(g) /\ next' = Result("yield")
        /\ pc' = [pc EXCEPT ![g] = how] /\ sub' = [sub EXCEPT ![g] = from]
        /\ try' = [try EXCEPT ![g] = Top.inTry]
    BY DEF Suspend
  <1>4. /\ StackOK' /\ ResultGoesTo(g) /\ stack' \in Seq(Frames) /\ FlagsOK'
    BY <1>3, LeaveKeeps DEF Inv, FlagsOK
  <1>5. SavedOK'
    BY <1>2, <1>3 DEF Inv, TypeOK, SavedOK
  <1>6. CallsOK' /\ next' \in Steps
    BY <1>2, <1>3, <1>4, AnswerIsAwaited
  <1> QED
    BY <1>4, <1>5, <1>6, InvOfParts

LEMMA FinishKeeps ==
    ASSUME Inv, At("body"), NEW r \in Exception, Finish(r)
    PROVE  Inv'
  <1> DEFINE g == Top.gen
  <1>1. stack # <<>> /\ Top.at = "body"
    BY DEF At
  <1>2. g \in Gen
    BY <1>1, TopFrame DEF Inv, Frames
  <1>3. /\ Leave(g) /\ next' = Result(r) /\ UNCHANGED <<sub, try>>
        /\ pc' = [pc EXCEPT ![g] = "finished"]
    BY DEF Finish
  <1>4. /\ StackOK' /\ ResultGoesTo(g) /\ stack' \in Seq(Frames) /\ FlagsOK'
    BY <1>3, LeaveKeeps DEF Inv, FlagsOK
  <1>5. SavedOK' /\ pc'[g] = "finished"
    BY <1>2, <1>3 DEF Inv, TypeOK, SavedOK
  <1>6. CallsOK' /\ next' \in Steps
    BY <1>2, <1>3, <1>4, <1>5, AnswerIsAwaited
  <1> QED
    BY <1>4, <1>5, <1>6, InvOfParts

\* The code of the generator goes on, or delegates.
LEMMA BodyKeeps ==
    ASSUME Inv, At("body"), NEW from \in Gen \cup Iter \cup {None}, NEW inTry \in BOOLEAN,
           Replace(Body(Top.gen, from, inTry)), UNCHANGED saved, Unmoved,
           next' = IF from \in Gen THEN Send(from) ELSE Run
    PROVE  Inv'
  <1> DEFINE b == Body(Top.gen, from, inTry)
  <1>1. StackOK' /\ stack' \in Seq(Frames) /\ stack' # <<>> /\ Top' = b
    BY ReplaceBodyKeeps DEF Inv
  <1>2. b.at = "body" /\ b.from = from
    BY DEF Body
  <1>3. CallsOK' /\ next' \in Steps
    <2>1. CASE from \in Gen
      <3>1. ResultGoesTo(from) /\ next' = Send(from)
        BY <2>1, <1>1, <1>2 DEF ResultGoesTo, Awaited
      <3> QED
        BY <2>1, <3>1, CallIsAwaited
    <2>2. CASE from \notin Gen
      <3>1. ~Awaits(Top')
        BY <2>2, <1>1, <1>2 DEF Awaits
      <3> QED
        BY <2>2, <3>1, RunAwaitsNone
    <2> QED
      BY <2>1, <2>2
  <1>4. SavedOK' /\ FlagsOK'
    BY SavedKept, FlagsKept, TypeParts DEF Inv
  <1> QED
    BY <1>1, <1>3, <1>4, InvOfParts

LEMMA UnwindKeeps ==
    ASSUME Inv, At("body"), NEW exc \in Exception, Unwind(exc)
    PROVE  Inv'
  <1>1. CASE Top.inTry
    <2>1. /\ Replace(Body(Top.gen, None, FALSE)) /\ next' = Run
          /\ UNCHANGED saved /\ Unmoved
      BY <1>1 DEF Unwind, Unmoved
    <2>2. None \notin Gen
      BY GeneratorsAssumption
    <2> QED
      BY <2>1, <2>2, BodyKeeps
  <1>2. CASE ~Top.inTry
    <2>1. (IF exc = "StopIteration" THEN "Error" ELSE exc) \in Exception
      BY DEF Exception
    <2> QED
      BY <1>2, <2>1, FinishKeeps DEF Unwind
  <1> QED
    BY <1>1, <1>2

LEMMA InBodyKeeps ==
    ASSUME Inv, \/ EnterOrLeaveTry \/ Yield \/ Return \/ RaiseInBody
                \/ \E y \in Gen \cup Iter : YieldFrom(y)
    PROVE  Inv'
  <1>1. next = Run /\ At("body") /\ Top.at = "body" /\ Top.from = None
    BY DEF EnterOrLeaveTry, Yield, Return, RaiseInBody, YieldFrom, InBody, At
  <1>2. Top.gen \in Gen /\ Top.inTry \in BOOLEAN /\ (~Top.inTry) \in BOOLEAN
    BY <1>1, TopFrame DEF At, Inv, Frames
  <1>3. None \notin Gen
    BY GeneratorsAssumption
  <1>4. CASE EnterOrLeaveTry
    <2>1. /\ Replace(Body(Top.gen, None, ~Top.inTry)) /\ next' = next
          /\ UNCHANGED saved /\ Unmoved
      BY <1>4 DEF EnterOrLeaveTry, Unmoved
    <2> QED
      BY <1>1, <1>2, <1>3, <2>1, BodyKeeps
  <1>5. CASE Yield
    BY <1>1, <1>5, SuspendKeeps DEF Yield
  <1>6. CASE Return
    BY <1>1, <1>6, FinishKeeps DEF Return, Exception
  <1>7. CASE RaiseInBody
    BY <1>1, <1>7, UnwindKeeps DEF RaiseInBody
  <1>8. ASSUME NEW y \in Gen \cup Iter, YieldFrom(y)
        PROVE  Inv'
    <2>1. /\ Replace(Body(Top.gen, y, Top.inTry)) /\ next' = IF y \in Gen THEN Send(y) ELSE Run
          /\ UNCHANGED saved /\ Unmoved
      BY <1>8 DEF YieldFrom, Unmoved
    <2> QED
      BY <1>1, <1>2, <2>1, BodyKeeps
  <1> QED
    BY <1>4, <1>5, <1>6, <1>7, <1>8

LEMMA YieldFromGetsKeeps ==
    ASSUME Inv, At("body"), NEW r \in Exception \cup {"yield"}, YieldFromGets(r)
    PROVE  Inv'
  <1>1. Top.gen \in Gen /\ Top.inTry \in BOOLEAN /\ Top.from \in Gen \cup Iter \cup {None}
    BY TopFrame DEF At, Inv, Frames
  <1>2. CASE Suspend("from", Top.from)
    BY <1>1, <1>2, SuspendKeeps
  <1>3. CASE /\ Replace(Body(Top.gen, None, Top.inTry)) /\ next' = Run
             /\ UNCHANGED <<saved, running, prev, caught>>
    <2>1. None \notin Gen /\ Unmoved
      BY <1>3, GeneratorsAssumption DEF Unmoved
    <2> QED
      BY <1>1, <1>3, <2>1, BodyKeeps
  <1>4. CASE r \in {"GeneratorExit", "Error"} /\ Unwind(r)
    BY <1>4, UnwindKeeps DEF Exception
  <1> QED
    BY <1>2, <1>3, <1>4 DEF YieldFromGets

LEMMA DelegateKeeps ==
    ASSUME Inv, DoYieldFrom \/ IteratorReturns
    PROVE  Inv'
  <1>1. CASE DoYieldFrom
    <2>1. next.is \in Exception \cup {"yield"}
      BY <1>1, StepTypes DEF Inv, DoYieldFrom
    <2> QED
      BY <1>1, <2>1, YieldFromGetsKeeps DEF DoYieldFrom
  <1>2. CASE IteratorReturns
    BY <1>2, YieldFromGetsKeeps DEF IteratorReturns
  <1> QED
    BY <1>1, <1>2

LEMMA CallReturnsKeeps ==
    ASSUME Inv, CallReturns
    PROVE  Inv'
  <1>1. next' = Run /\ UNCHANGED saved /\ UNCHANGED <<stack, running, prev, caught>>
    BY DEF CallReturns
  <1>2. ASSUME stack # <<>> PROVE ~Awaits(Top)
    <2>1. Top.from \in Iter \/ (Top.at = "body" /\ Top.from = None)
      BY <1>2 DEF CallReturns
    <2>2. Top.from \notin Gen
      BY <2>1, GeneratorsAssumption
    <2>3. Top.at # "close"
      BY <1>2, <2>1, TopFrame, GeneratorsAssumption DEF Inv, Frames
    <2> QED
      BY <2>2, <2>3 DEF Awaits
  <1>3. CallsOK' /\ next' \in Steps
    BY <1>1, <1>2, RunAwaitsNone DEF Top
  <1>4. SavedOK'
    BY <1>1, SavedKept, TypeParts DEF Inv
  <1> QED
    BY <1>1, <1>3, <1>4, StillKeeps

LEMMA StutterKeeps == Inv /\ UNCHANGED vars => Inv'
  <1> SUFFICES ASSUME Inv, UNCHANGED vars PROVE Inv'
    OBVIOUS
  <1>1. /\ UNCHANGED saved /\ UNCHANGED <<stack, running, prev, caught>> /\ next' = next
    BY DEF vars, saved
  <1>2. SavedOK'
    BY <1>1, SavedKept, TypeParts DEF Inv
  <1>3. CallsOK' /\ next' \in Steps
    BY <1>1 DEF Inv, TypeOK, CallsOK, AwaitedIsCalled, ClosedIsFinished, ClosesQuietly, At, Top,
                saved
  <1> QED
    BY <1>1, <1>2, <1>3, StillKeeps

LEMMA NextInv == Inv /\ [Next]_vars => Inv'
  <1> SUFFICES ASSUME Inv, [Next]_vars PROVE Inv'
    OBVIOUS
  <1>1. ASSUME NEW g \in Gen, CallSend(g) \/ \E exc \in Exception : CallThrow(g, exc)
        PROVE  Inv'
    BY <1>1, CallSendKeeps
  <1>2. ASSUME NEW g \in Gen, CallClose(g) PROVE Inv'
    BY <1>2, CallCloseKeeps
  <1>3. CASE ResumeGenerator
    BY <1>3, ResumeGeneratorKeeps
  <1>4. CASE SendValueTooEarly
    BY <1>4, SendValueTooEarlyKeeps
  <1>5. CASE ResumeGeneratorWithRaise
    BY <1>5, ResumeGeneratorWithRaiseKeeps
  <1>6. CASE ThrowImpl
    BY <1>6, ThrowImplKeeps
  <1>7. CASE ThrowMethodFound
    BY <1>7, ThrowMethodFoundKeeps
  <1>8. CASE ThrowMethodMissing \/ ThrowMethodRaises \/ CloseReturns
    BY <1>8, ThrowMethodMissingKeeps
  <1>9. CASE ThrowYieldFromReturns \/ ThrowMethodReturns
    BY <1>9, ThrowReturnsKeeps
  <1>10. CASE CallReturns
    BY <1>10, CallReturnsKeeps
  <1>11. CASE \/ EnterOrLeaveTry \/ Yield \/ Return \/ RaiseInBody
              \/ \E y \in Gen \cup Iter : YieldFrom(y)
    BY <1>11, InBodyKeeps
  <1>12. CASE DoYieldFrom \/ IteratorReturns
    BY <1>12, DelegateKeeps
  <1>13. CASE UNCHANGED vars \/ Stopped
    BY <1>13, StutterKeeps DEF Stopped
  <1> QED
    BY <1>1, <1>2, <1>3, <1>4, <1>5, <1>6, <1>7, <1>8, <1>9, <1>10, <1>11, <1>12, <1>13 DEF Next

-----------------------------------------------------------------------------
(***************************************************************************)
(* The theorems.                                                           *)
(***************************************************************************)

\* Whatever generators, iterators and callers do, and in whatever order, the
\* conjunction that resumeGenerator(), throwImpl() and closeImpl() rely on is an
\* invariant.
THEOREM InductiveInvariant == Spec => []Inductive
  <1>1. Spec => []Inv
    BY InitInv, NextInv, PTL DEF Spec
  <1> QED
    BY <1>1, InvIsInductive, PTL

\* running is set exactly while the body of the generator, or a throw() that it
\* delegates, is active, and no generator is entered while it is.
THEOREM RunningIsActive == Spec => []RunningMeansActive
  <1>1. Inductive => RunningMeansActive
    BY DEF Inductive
  <1> QED
    BY <1>1, InductiveInvariant, PTL

\* The thread's chain of exception states is that of the active generators.
THEOREM ExceptionStatesNested == Spec => []CaughtStatesFollowStack
  <1>1. Inductive => CaughtStatesFollowStack
    BY DEF Inductive
  <1> QED
    BY <1>1, InductiveInvariant, PTL

\* closeImpl() that returns None has finished its generator, or throwYieldFrom()
\* handed it what looking up throw in the generator's own subiterator raised.
THEOREM CloseFinishes == Spec => []ClosedIsFinished
  <1>1. Inductive => ClosedIsFinished
    BY DEF Inductive
  <1> QED
    BY <1>1, InductiveInvariant, PTL

\* The steps after which nothing is the result of a lookup that raised.
Unmarking ==
    \/ UNCHANGED next \/ next' = Run \/ next' = Aborted
    \/ \E r : next' = Result(r)
    \/ \E g : next' = Send(g)
    \/ \E g, exc : next' = Throw(g, exc) \/ next' = Raise(g, exc)

LEMMA LookupsMark ==
    ASSUME Next
    PROVE  Unmarking \/ ThrowMethodRaises \/ (next.do = "throw" /\ FindYieldFrom(next.gen) \in Iter)
  <1>1. ASSUME NEW g \in Gen, CallSend(g) \/ CallClose(g) \/ \E exc \in Exception : CallThrow(g, exc)
        PROVE  Unmarking
    BY <1>1 DEF CallSend, CallClose, CallThrow, Unmarking
  <1>2. \A r : Fail(r) => Unmarking
    BY DEF Fail, Unmarking
  <1>3. CASE ResumeGenerator \/ SendValueTooEarly \/ ResumeGeneratorWithRaise
    BY <1>2, <1>3 DEF ResumeGenerator, SendValueTooEarly, ResumeGeneratorWithRaise, Unmarking
  <1>4. CASE ThrowImpl
    BY <1>4 DEF ThrowImpl, ThrowOverflows, Unmarking
  <1>5. CASE ThrowMethodFound \/ ThrowMethodMissing \/ CloseReturns \/ CallReturns
    BY <1>5 DEF ThrowMethodFound, ThrowMethodMissing, CloseReturns, CallReturns, Unmarking
  <1>6. \A g, yf, r : Thrown(g, yf, r) => Unmarking
    BY DEF Thrown, Unmarking
  <1>7. CASE ThrowYieldFromReturns \/ ThrowMethodReturns
    BY <1>6, <1>7 DEF ThrowYieldFromReturns, ThrowMethodReturns
  <1>8. /\ \A how, from : Suspend(how, from) => Unmarking
        /\ \A r : Finish(r) => Unmarking
    BY DEF Suspend, Finish, Unmarking
  <1>9. \A exc : Unwind(exc) => Unmarking
    BY <1>8 DEF Unwind, Unmarking
  <1>10. CASE EnterOrLeaveTry \/ Yield \/ Return \/ RaiseInBody
    BY <1>8, <1>9, <1>10 DEF EnterOrLeaveTry, Yield, Return, RaiseInBody, Unmarking
  <1>11. \A y : YieldFrom(y) => Unmarking
    BY DEF YieldFrom, Unmarking
  <1>12. \A r : YieldFromGets(r) => Unmarking
    BY <1>8, <1>9 DEF YieldFromGets, Unmarking
  <1>13. CASE DoYieldFrom \/ IteratorReturns
    BY <1>12, <1>13 DEF DoYieldFrom, IteratorReturns
  <1>14. CASE Stopped
    BY <1>14 DEF Stopped, vars, Unmarking
  <1> QED
    BY <1>1, <1>3, <1>4, <1>5, <1>7, <1>10, <1>11, <1>13, <1>14 DEF Next

\* When generators delegate to generators only, whose throw() is found without
\* running code, closeImpl() that returns None has always finished its generator.
THEOREM CloseFinishesGenerators ==
    ASSUME Iter = {}
    PROVE  Spec => []ClosedIsAlwaysFinished
  <1> DEFINE Unmarked == next.do = "result" => ~next.lookup
  <1>1. Init => Unmarked
    BY StepsOf DEF Init
  <1>2. Unmarked /\ Inductive /\ [Next]_vars => Unmarked'
    <2> SUFFICES ASSUME Unmarked, Inductive, [Next]_vars
                 PROVE  Unmarked'
      OBVIOUS
    <2>1. Unmarking => Unmarked'
      BY DEF Unmarking, Run, Aborted, Result, Send, Throw, Raise
    <2>2. ~ThrowMethodRaises
      <3> SUFFICES ASSUME ThrowMethodRaises PROVE FALSE
        OBVIOUS
      <3>1. Top \in Frames /\ Top.at = "lookup"
        BY InvIsInductive, TopFrame DEF Inv, ThrowMethodRaises, At
      <3> QED
        BY <3>1 DEF Frames
    <2>3. UNCHANGED vars => Unmarking
      BY DEF vars, Unmarking
    <2> QED
      BY <2>1, <2>2, <2>3, LookupsMark
  <1>3. Unmarked /\ Inductive => ClosedIsAlwaysFinished
    BY DEF Inductive, ClosedIsFinished, ClosedIsAlwaysFinished, ClosesQuietly
  <1> QED
    BY <1>1, <1>2, <1>3, InductiveInvariant, PTL DEF Spec
=============================================================================
