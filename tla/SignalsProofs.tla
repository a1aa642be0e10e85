--------------------------- MODULE SignalsProofs ---------------------------
(***************************************************************************)
(* Proofs about signals for every number of signals, every set of other    *)
(* interrupts and every depth of nested callbacks: none that arrived is    *)
(* forgotten, and none waits while Python code runs without the limit of   *)
(* the stack being lowered for it.                                         *)
(***************************************************************************)
EXTENDS Signals, SequenceTheorems, TLAPS

-----------------------------------------------------------------------------
(***************************************************************************)
(* What the three ways of changing the stack leave.                        *)
(***************************************************************************)

\* The running activation is an activation.
LEMMA TopType ==
    ASSUME TypeOK, stack # <<>>
    PROVE  /\ Top \in Activations
           /\ Len(stack) \in Nat \ {0}
           /\ Top = stack[Len(stack)]
           /\ DOMAIN stack = 1..Len(stack)
           /\ Len(stack) \in DOMAIN stack
  BY DEF TypeOK, Top, Last

\* A return leaves the activations below as they are.
LEMMA FrontOf ==
    ASSUME NEW S, NEW q \in Seq(S), q # <<>>
    PROVE  /\ Front(q) \in Seq(S)
           /\ Len(Front(q)) = Len(q) - 1
           /\ DOMAIN Front(q) = 1..(Len(q) - 1)
           /\ \A k \in 1..(Len(q) - 1) : Front(q)[k] = q[k]
  <1>1. Len(q) \in Nat /\ Len(q) >= 1
    OBVIOUS
  <1>2. \A k \in 1..(Len(q) - 1) : q[k] \in S
    BY <1>1, ElementOfSeq
  <1>3. /\ Front(q) \in Seq(S)
        /\ Len(Front(q)) = IF 1 <= Len(q) - 1 THEN (Len(q) - 1) - 1 + 1 ELSE 0
        /\ \A k \in 1..((Len(q) - 1) - 1 + 1) : Front(q)[k] = q[1 + k - 1]
    BY <1>1, <1>2, SubSeqProperties DEF Front
  <1>4. Len(Front(q)) = Len(q) - 1
    <2>1. \A n \in Nat : n >= 1 => (IF 1 <= n - 1 THEN (n - 1) - 1 + 1 ELSE 0) = n - 1
      OBVIOUS
    <2> QED
      BY <2>1, <1>1, <1>3
  <1>5. ASSUME NEW k \in 1..(Len(q) - 1)
        PROVE  Front(q)[k] = q[k]
    BY <1>1, <1>3
  <1>6. DOMAIN Front(q) = 1..(Len(q) - 1)
    BY <1>3, <1>4, LenProperties
  <1> QED
    BY <1>3, <1>4, <1>5, <1>6

\* The activations after a return of the running one.
LEMMA ReturnEffect ==
    ASSUME TypeOK, stack # <<>>, ReturnTop
    PROVE  /\ stack' \in Seq(Activations)
           /\ DOMAIN stack' = 1..(Len(stack) - 1)
           /\ Len(stack') = Len(stack) - 1
           /\ \A k \in DOMAIN stack' : stack'[k] = stack[k]
  BY FrontOf DEF TypeOK, ReturnTop

\* The activations after the running one went on elsewhere.
LEMMA GoEffect ==
    ASSUME TypeOK, stack # <<>>, NEW at, NEW arg, Go(at, arg),
           Activation(at, arg, Top.val) \in Activations
    PROVE  /\ stack' \in Seq(Activations)
           /\ Len(stack') = Len(stack)
           /\ DOMAIN stack' = DOMAIN stack
           /\ \A k \in DOMAIN stack : k # Len(stack) => stack'[k] = stack[k]
           /\ stack'[Len(stack)] = Activation(at, arg, Top.val)
           /\ Top' = Activation(at, arg, Top.val)
  <1> DEFINE new == Activation(at, arg, Top.val)
  <1>1. /\ Front(stack) \in Seq(Activations)
        /\ Len(Front(stack)) = Len(stack) - 1
        /\ \A k \in 1..(Len(stack) - 1) : Front(stack)[k] = stack[k]
    BY FrontOf DEF TypeOK
  <1>2. Len(stack) \in Nat \ {0} /\ DOMAIN stack = 1..Len(stack)
    BY TopType
  <1>3. stack' = Append(Front(stack), new)
    BY DEF Go
  <1> HIDE DEF new
  <1>4. /\ stack' \in Seq(Activations)
        /\ Len(stack') = (Len(stack) - 1) + 1
        /\ \A k \in 1..(Len(stack) - 1) : stack'[k] = Front(stack)[k]
        /\ stack'[(Len(stack) - 1) + 1] = new
    BY <1>1, <1>3, AppendProperties DEF new
  <1>5. Len(stack') = Len(stack) /\ stack'[Len(stack)] = new
    BY <1>2, <1>4
  <1>6. DOMAIN stack' = DOMAIN stack
    BY <1>2, <1>4, <1>5, LenProperties
  <1>7. ASSUME NEW k \in DOMAIN stack, k # Len(stack)
        PROVE  stack'[k] = stack[k]
    BY <1>1, <1>2, <1>4, <1>7
  <1>8. Top' = new
    BY <1>5 DEF Top, Last
  <1> QED
    BY <1>4, <1>5, <1>6, <1>7, <1>8 DEF new

\* A call puts its activation on top.
LEMMA PushEffect ==
    ASSUME NEW q \in Seq(Activations), NEW a \in Activations
    PROVE  /\ Append(q, a) \in Seq(Activations)
           /\ Append(q, a) # <<>>
           /\ Len(Append(q, a)) = Len(q) + 1
           /\ DOMAIN Append(q, a) = DOMAIN q \cup {Len(q) + 1}
           /\ DOMAIN q = 1..Len(q) /\ Len(q) \in Nat
           /\ \A k \in DOMAIN q : Append(q, a)[k] = q[k]
           /\ Append(q, a)[Len(q) + 1] = a
           /\ Last(Append(q, a)) = a
  <1>1. DOMAIN q = 1..Len(q) /\ Len(q) \in Nat
    BY LenProperties
  <1>2. /\ Append(q, a) \in Seq(Activations)
        /\ Append(q, a) # <<>>
        /\ Len(Append(q, a)) = Len(q) + 1
        /\ \A k \in 1..Len(q) : Append(q, a)[k] = q[k]
        /\ Append(q, a)[Len(q) + 1] = a
    BY AppendProperties
  <1>3. DOMAIN Append(q, a) = 1..(Len(q) + 1)
    BY <1>2, LenProperties
  <1>4. 1..(Len(q) + 1) = 1..Len(q) \cup {Len(q) + 1}
    BY <1>1
  <1> QED
    BY <1>1, <1>2, <1>3, <1>4 DEF Last

-----------------------------------------------------------------------------
(***************************************************************************)
(* Types.                                                                  *)
(***************************************************************************)

\* What the members of each kind of activation are.
LEMMA ActivationTypes ==
    ASSUME NEW a \in Activations
    PROVE  /\ a = [at |-> a.at, arg |-> a.arg, val |-> a.val]
           /\ a.at \in At
           /\ a.at \in Clearing => a.arg \in Word /\ a.val \in SUBSET Word
           /\ a.at = "set_flag" => a.arg \in Kinds /\ a.val \in SUBSET Word
           /\ a.at \in {"test_pending", "clear_pending", "next_signal", "in_callback"} =>
                a.arg \in 0..(kNumSignals - 1) /\ a.val = None
           /\ a.at \in {"set_handler", "set_callback"} => a.arg \in Signal /\ a.val \in Installable
  BY DEF Activations, FlagActivations, HandlingActivations, SettingActivations, At, Clearing

\* The same, the other way round.
LEMMA ActivationOf ==
    ASSUME NEW at, NEW arg, NEW val
    PROVE  /\ at \in Clearing /\ arg \in Word /\ val \in SUBSET Word
                => Activation(at, arg, val) \in Activations
           /\ at = "set_flag" /\ arg \in Kinds /\ val \in SUBSET Word
                => Activation(at, arg, val) \in Activations
           /\ at \in {"test_pending", "clear_pending", "next_signal", "in_callback"}
              /\ arg \in 0..(kNumSignals - 1) /\ val = None
                => Activation(at, arg, val) \in Activations
           /\ at \in {"set_handler", "set_callback"} /\ arg \in Signal /\ val \in Installable
                => Activation(at, arg, val) \in Activations
  BY DEF Activations, FlagActivations, HandlingActivations, SettingActivations, Clearing, Activation


\* handlePendingSignals begins with the clearing of kSignal above the test.
LEMMA HandleEffect ==
    ASSUME TypeOK, NEW below \in Seq(Activations), HandlePendingSignals(below)
    PROVE  /\ stack' \in Seq(Activations)
           /\ stack' # <<>>
           /\ DOMAIN below = 1..Len(below) /\ Len(below) \in Nat
           /\ Len(stack') = Len(below) + 2
           /\ DOMAIN stack' = DOMAIN below \cup {Len(below) + 1, Len(below) + 2}
           /\ \A k \in DOMAIN below : stack'[k] = below[k]
           /\ stack'[Len(below) + 1] = Activation("test_pending", 0, None)
           /\ stack'[Len(below) + 2] = Activation("clear_flag", kSignal, flags)
           /\ Top' = Activation("clear_flag", kSignal, flags)
  <1> DEFINE test == Activation("test_pending", 0, None)
             clear == Activation("clear_flag", kSignal, flags)
             middle == Append(below, test)
  <1>1. test \in Activations
    BY ConstantsOK, ActivationOf
  <1>2. clear \in Activations
    BY ActivationOf DEF TypeOK, Word, Clearing
  <1>3. stack' = Append(middle, clear)
    BY DEF HandlePendingSignals, ClearInterrupt
  <1> HIDE DEF test, clear
  <1>4. /\ middle \in Seq(Activations)
        /\ DOMAIN middle = DOMAIN below \cup {Len(below) + 1}
        /\ DOMAIN below = 1..Len(below) /\ Len(below) \in Nat
        /\ Len(middle) = Len(below) + 1
        /\ \A k \in DOMAIN below : middle[k] = below[k]
        /\ middle[Len(below) + 1] = test
    BY <1>1, PushEffect
  <1> HIDE DEF middle
  <1>5. /\ stack' \in Seq(Activations)
        /\ stack' # <<>>
        /\ Len(stack') = Len(middle) + 1
        /\ DOMAIN stack' = DOMAIN middle \cup {Len(middle) + 1}
        /\ \A k \in DOMAIN middle : stack'[k] = middle[k]
        /\ stack'[Len(middle) + 1] = clear
        /\ Last(stack') = clear
    BY <1>2, <1>3, <1>4, PushEffect
  <1>6. Len(middle) + 1 = Len(below) + 2
    BY <1>4
  <1> QED
    BY <1>4, <1>5, <1>6 DEF Top, test, clear

-----------------------------------------------------------------------------
(***************************************************************************)
(* What a change of the stack keeps.                                       *)
(***************************************************************************)

\* The callback's place in a loop from which signal s will still be seen.
Looping == {"next_signal", "in_callback"}
Seen(s) == \E k \in DOMAIN stack : stack[k].at \in Looping /\ stack[k].arg < s

\* After a return, nothing is about to set a callback, and what a loop that did
\* not return would see, it still sees.
LEMMA ReturnKeeps ==
    ASSUME TypeOK, stack # <<>>, ReturnTop, SetCallbackOnTop, ClearingLooks
    PROVE  /\ SetCallbackOnTop'
           /\ ~Is("set_callback")'
           /\ ClearingLooks'
           /\ \A s : Top.at \notin Looping /\ Seen(s) => Seen(s)'
  <1>1. /\ DOMAIN stack' = 1..(Len(stack) - 1)
        /\ Len(stack') = Len(stack) - 1
        /\ \A k \in DOMAIN stack' : stack'[k] = stack[k]
    BY ReturnEffect
  <1>2. /\ Len(stack) \in Nat \ {0}
        /\ DOMAIN stack = 1..Len(stack)
        /\ Top = stack[Len(stack)]
    BY TopType
  <1>3. \A k \in DOMAIN stack' : k \in DOMAIN stack /\ k # Len(stack)
    BY <1>1, <1>2
  <1>4. \A k \in DOMAIN stack' : stack'[k].at # "set_callback"
    BY <1>1, <1>3 DEF SetCallbackOnTop
  <1>5. ~Is("set_callback")'
    <2>1. stack' # <<>> => Len(stack') \in DOMAIN stack'
      BY ReturnEffect, LenProperties, EmptySeq
    <2> QED
      BY <2>1, <1>4 DEF Is, Top, Last
  <1>6. ClearingLooks'
    <2>1. \A k \in DOMAIN stack' : k > 1 => k - 1 \in DOMAIN stack'
      BY <1>1, <1>2
    <2> QED
      BY <1>1, <1>3, <2>1 DEF ClearingLooks
  <1>7. ASSUME NEW s, Top.at \notin Looping, Seen(s)
        PROVE  Seen(s)'
    <2>1. PICK k \in DOMAIN stack : stack[k].at \in Looping /\ stack[k].arg < s
      BY <1>7 DEF Seen
    <2>2. k # Len(stack)
      BY <2>1, <1>2, <1>7
    <2>3. k \in DOMAIN stack'
      BY <2>2, <1>1, <1>2
    <2> QED
      BY <2>1, <2>3, <1>1 DEF Seen
  <1> QED
    BY <1>4, <1>5, <1>6, <1>7 DEF SetCallbackOnTop

\* After the running activation went on, the same holds unless it is the one
\* that sets a callback now.
LEMMA GoKeeps ==
    ASSUME TypeOK, stack # <<>>, NEW at, NEW arg, Go(at, arg),
           Activation(at, arg, Top.val) \in Activations,
           SetCallbackOnTop, ClearingLooks,
           at \in Clearing /\ arg = kSignal => Top.at \in Clearing /\ Top.arg = kSignal
    PROVE  /\ SetCallbackOnTop'
           /\ Is("set_callback")' <=> at = "set_callback"
           /\ ClearingLooks'
           /\ \A s : Top.at \notin Looping /\ Seen(s) => Seen(s)'
           /\ \A s : at \in Looping /\ arg < s => Seen(s)'
  <1>1. /\ Len(stack') = Len(stack)
        /\ DOMAIN stack' = DOMAIN stack
        /\ \A k \in DOMAIN stack : k # Len(stack) => stack'[k] = stack[k]
        /\ stack'[Len(stack)] = Activation(at, arg, Top.val)
        /\ Top' = Activation(at, arg, Top.val)
    BY GoEffect
  <1>2. /\ Len(stack) \in Nat \ {0}
        /\ DOMAIN stack = 1..Len(stack)
        /\ Len(stack) \in DOMAIN stack
        /\ Top = stack[Len(stack)]
    BY TopType
  <1>3. /\ Activation(at, arg, Top.val).at = at
        /\ Activation(at, arg, Top.val).arg = arg
    BY DEF Activation
  <1>4. SetCallbackOnTop'
    BY <1>1 DEF SetCallbackOnTop
  <1>5. stack' # <<>>
    BY <1>1, <1>2
  <1>6. Is("set_callback")' <=> at = "set_callback"
    BY <1>1, <1>3, <1>5 DEF Is
  <1>7. ASSUME NEW k \in DOMAIN stack', stack'[k].at \in Clearing, stack'[k].arg = kSignal
        PROVE  k > 1 /\ stack'[k - 1].at = "test_pending"
    <2>1. stack[k].at \in Clearing /\ stack[k].arg = kSignal
      BY <1>1, <1>2, <1>3, <1>7
    <2>2. k > 1 /\ stack[k - 1].at = "test_pending"
      BY <2>1, <1>1, <1>7 DEF ClearingLooks
    <2>3. k - 1 \in DOMAIN stack /\ k - 1 # Len(stack)
      BY <2>2, <1>1, <1>2, <1>7
    <2> QED
      BY <2>2, <2>3, <1>1
  <1>8. ASSUME NEW s, Top.at \notin Looping, Seen(s)
        PROVE  Seen(s)'
    <2>1. PICK k \in DOMAIN stack : stack[k].at \in Looping /\ stack[k].arg < s
      BY <1>8 DEF Seen
    <2>2. k # Len(stack)
      BY <2>1, <1>2, <1>8
    <2> QED
      BY <2>1, <2>2, <1>1 DEF Seen
  <1>9. ASSUME NEW s, at \in Looping, arg < s
        PROVE  Seen(s)'
    BY <1>1, <1>2, <1>3, <1>9 DEF Seen
  <1> QED
    BY <1>4, <1>6, <1>7, <1>8, <1>9 DEF ClearingLooks

\* Python code that calls is not about to set a callback, and what is put above
\* it leaves it as it is.
LEMMA CallerIsPython ==
    ASSUME TypeOK, SetCallbackOnTop, MayCall
    PROVE  /\ \A k \in DOMAIN stack : stack[k].at # "set_callback"
           /\ ~Is("set_callback")
           /\ ~AboutToLook
  <1>1. ~Is("set_callback")
    BY DEF MayCall, InPython, Is
  <1>2. ~AboutToLook
    BY DEF MayCall, InPython, AboutToLook, Clearing
  <1>3. ASSUME NEW k \in DOMAIN stack, stack[k].at = "set_callback"
        PROVE  FALSE
    <2>1. k = Len(stack)
      BY <1>3 DEF SetCallbackOnTop
    <2>2. stack # <<>>
      BY <1>3
    <2> QED
      BY <1>1, <1>3, <2>1, <2>2 DEF Is, Top, Last
  <1> QED
    BY <1>1, <1>2, <1>3

\* A call of something that is not handlePendingSignals.
LEMMA CallKeeps ==
    ASSUME TypeOK, SetCallbackOnTop, ClearingLooks, MayCall,
           NEW a \in Activations, stack' = Append(stack, a),
           a.at # "set_callback", ~(a.at \in Clearing /\ a.arg = kSignal)
    PROVE  /\ stack' \in Seq(Activations)
           /\ SetCallbackOnTop'
           /\ ~Is("set_callback")'
           /\ ClearingLooks'
           /\ \A s : Seen(s) => Seen(s)'
  <1>1. /\ stack' \in Seq(Activations)
        /\ DOMAIN stack' = DOMAIN stack \cup {Len(stack) + 1}
        /\ DOMAIN stack = 1..Len(stack) /\ Len(stack) \in Nat
        /\ \A k \in DOMAIN stack : stack'[k] = stack[k]
        /\ stack'[Len(stack) + 1] = a
        /\ Top' = a
    BY PushEffect DEF TypeOK, Top
  <1>2. \A k \in DOMAIN stack' : stack'[k].at # "set_callback"
    BY <1>1, CallerIsPython
  <1>3. ~Is("set_callback")'
    BY <1>1 DEF Is
  <1>4. ASSUME NEW k \in DOMAIN stack', stack'[k].at \in Clearing, stack'[k].arg = kSignal
        PROVE  k > 1 /\ stack'[k - 1].at = "test_pending"
    <2>1. k \in DOMAIN stack
      BY <1>1, <1>4
    <2>2. k > 1 /\ stack[k - 1].at = "test_pending"
      BY <2>1, <1>1, <1>4 DEF ClearingLooks
    <2> QED
      BY <2>1, <2>2, <1>1
  <1>5. \A s : Seen(s) => Seen(s)'
    BY <1>1 DEF Seen
  <1> QED
    BY <1>1, <1>2, <1>3, <1>4, <1>5 DEF SetCallbackOnTop, ClearingLooks

\* A call of handlePendingSignals, from where the stack is below.
LEMMA HandleKeeps ==
    ASSUME TypeOK, NEW below \in Seq(Activations), HandlePendingSignals(below),
           \A k \in DOMAIN stack : k \in DOMAIN below /\ below[k] = stack[k],
           \A k \in DOMAIN below :
               /\ below[k].at # "set_callback"
               /\ below[k].at \in Clearing /\ below[k].arg = kSignal =>
                    k > 1 /\ below[k - 1].at = "test_pending"
    PROVE  /\ stack' \in Seq(Activations)
           /\ SetCallbackOnTop'
           /\ ~Is("set_callback")'
           /\ ClearingLooks'
           /\ AboutToLook'
           /\ \A s : Seen(s) => Seen(s)'
  <1>1. /\ stack' \in Seq(Activations)
        /\ stack' # <<>>
        /\ DOMAIN below = 1..Len(below) /\ Len(below) \in Nat
        /\ DOMAIN stack' = DOMAIN below \cup {Len(below) + 1, Len(below) + 2}
        /\ \A k \in DOMAIN below : stack'[k] = below[k]
        /\ stack'[Len(below) + 1] = Activation("test_pending", 0, None)
        /\ stack'[Len(below) + 2] = Activation("clear_flag", kSignal, flags)
        /\ Top' = Activation("clear_flag", kSignal, flags)
    BY HandleEffect
  <1>2. /\ Activation("test_pending", 0, None).at = "test_pending"
        /\ Activation("clear_flag", kSignal, flags).at = "clear_flag"
        /\ Activation("clear_flag", kSignal, flags).arg = kSignal
    BY DEF Activation
  <1>3. \A k \in DOMAIN stack' : stack'[k].at # "set_callback"
    BY <1>1, <1>2
  <1>4. ~Is("set_callback")' /\ AboutToLook'
    BY <1>1, <1>2 DEF Is, AboutToLook, Clearing
  <1>5. ASSUME NEW k \in DOMAIN stack', stack'[k].at \in Clearing, stack'[k].arg = kSignal
        PROVE  k > 1 /\ stack'[k - 1].at = "test_pending"
    <2>1. CASE k \in DOMAIN below
      <3>1. k > 1 /\ below[k - 1].at = "test_pending"
        BY <2>1, <1>1, <1>5
      <3>2. k - 1 \in DOMAIN below
        BY <2>1, <3>1, <1>1
      <3> QED
        BY <3>1, <3>2, <1>1
    <2>2. CASE k = Len(below) + 1
      BY <2>2, <1>1, <1>2, <1>5 DEF Clearing
    <2>3. CASE k = Len(below) + 2
      <3>1. k > 1 /\ k - 1 = Len(below) + 1
        BY <2>3, <1>1
      <3> QED
        BY <3>1, <1>1, <1>2
    <2> QED
      BY <2>1, <2>2, <2>3, <1>1
  <1>6. \A s : Seen(s) => Seen(s)'
    BY <1>1 DEF Seen
  <1> QED
    BY <1>1, <1>3, <1>4, <1>5, <1>6 DEF SetCallbackOnTop, ClearingLooks

\* A call from Python code straight to handlePendingSignals.
LEMMA HandleFromCode ==
    ASSUME TypeOK, SetCallbackOnTop, ClearingLooks, MayCall, HandlePendingSignals(stack)
    PROVE  /\ stack' \in Seq(Activations)
           /\ SetCallbackOnTop'
           /\ ~Is("set_callback")'
           /\ ClearingLooks'
           /\ AboutToLook'
           /\ \A s : Seen(s) => Seen(s)'
  <1>1. stack \in Seq(Activations)
    BY DEF TypeOK
  <1>2. \A k \in DOMAIN stack :
            /\ stack[k].at # "set_callback"
            /\ stack[k].at \in Clearing /\ stack[k].arg = kSignal =>
                 k > 1 /\ stack[k - 1].at = "test_pending"
    BY CallerIsPython DEF ClearingLooks
  <1> QED
    BY <1>1, <1>2, HandleKeeps

-----------------------------------------------------------------------------
(***************************************************************************)
(* The inductive invariant.                                                *)
(***************************************************************************)

\* What is not seen any more is announced by is_signal_pending_.
SeenOrPending == \A s \in Signal : pending[s] => signalPending \/ Seen(s)

LEMMA SeenIsNotForgotten == SeenOrPending <=> NoSignalForgotten
  BY DEF SeenOrPending, Seen, NoSignalForgotten, Looping

LEMMA InitInductive == Init => Inductive
  <1> SUFFICES ASSUME Init PROVE Inductive
    OBVIOUS
  <1> USE DEF Init
  <1>1. TypeOK
    <2>1. callbacks \in [Signal -> {Default, Function}]
      OBVIOUS
    <2>2. stack \in Seq(Activations)
      BY EmptySeq
    <2> QED
      BY <2>1, <2>2 DEF TypeOK
  <1>2. DOMAIN stack = {} /\ ~Is("set_callback")
    BY DEF Is
  <1>3. NoSignalForgotten
    BY DEF NoSignalForgotten
  <1> QED
    BY <1>1, <1>2, <1>3 DEF Inductive, SetCallbackOnTop, TablesAgree, ClearingLooks, InterruptKept

\* When the clearing of kSignal returns, is_signal_pending_ is looked at.
LEMMA ClearingReturnsToTest ==
    ASSUME TypeOK, ClearingLooks, stack # <<>>, ReturnTop,
           Top.at \in Clearing, Top.arg = kSignal
    PROVE  AboutToLook'
  <1>1. /\ Len(stack) \in Nat
        /\ Len(stack) \in DOMAIN stack
        /\ Top = stack[Len(stack)]
    BY TopType
  <1>2. Len(stack) > 1 /\ stack[Len(stack) - 1].at = "test_pending"
    BY <1>1 DEF ClearingLooks
  <1>3. /\ DOMAIN stack' = 1..(Len(stack) - 1)
        /\ Len(stack') = Len(stack) - 1
        /\ \A k \in DOMAIN stack' : stack'[k] = stack[k]
    BY ReturnEffect
  <1>4. Len(stack') \in DOMAIN stack' /\ stack' # <<>>
    BY <1>1, <1>2, <1>3
  <1>5. Top'.at = "test_pending"
    BY <1>2, <1>3, <1>4 DEF Top, Last
  <1> QED
    BY <1>4, <1>5 DEF AboutToLook

\* clearInterrupt() and interrupt().
LEMMA FlagSteps ==
    Inductive /\ (ClearFlag \/ TestFlags \/ RaiseLimit \/ SetFlag) => Inductive'
  <1> SUFFICES ASSUME Inductive, ClearFlag \/ TestFlags \/ RaiseLimit \/ SetFlag
               PROVE  Inductive'
    OBVIOUS
  <1>1. /\ stack # <<>>
        /\ Top.at \in Clearing \cup {"set_flag"}
        /\ Top.at \notin Looping /\ Top.at # "set_callback"
    BY DEF ClearFlag, TestFlags, RaiseLimit, SetFlag, Is, Clearing, Looping
  <1>2. Top.arg \in Word /\ Top.val \in SUBSET Word
    BY <1>1, TopType, ActivationTypes DEF Inductive, Word
  <1>3. /\ TypeOK /\ SetCallbackOnTop /\ TablesAgree /\ ClearingLooks
        /\ SeenOrPending /\ InterruptKept
    BY SeenIsNotForgotten DEF Inductive
  <1>4. handlers = callbacks
    BY <1>1, <1>3 DEF TablesAgree, Is
  \* The tables and what is pending stay as they are.
  <1>5. ASSUME stack' \in Seq(Activations), flags' \subseteq Word, limitLowered' \in BOOLEAN,
               overlooked' \in BOOLEAN, UNCHANGED runtimeVars,
               SetCallbackOnTop', ~Is("set_callback")', ClearingLooks',
               \A s : Seen(s) => Seen(s)',
               InterruptKept'
        PROVE  Inductive'
    <2>1. TypeOK'
      BY <1>3, <1>5 DEF TypeOK, runtimeVars
    <2>2. TablesAgree'
      BY <1>4, <1>5 DEF TablesAgree, runtimeVars
    <2>3. SeenOrPending'
      BY <1>3, <1>5 DEF SeenOrPending, runtimeVars
    <2>4. NoSignalForgotten'
      BY <2>3, SeenIsNotForgotten, PTL
    <2> QED
      BY <1>5, <2>1, <2>2, <2>4 DEF Inductive
  <1>6. CASE ClearFlag
    <2> DEFINE written == Top.val \ {Top.arg}
    <2>1. /\ Go("test_flags", Top.arg)
          /\ Top.at = "clear_flag"
          /\ flags' = written
          /\ overlooked' = (overlooked \/ Dropped(written))
          /\ limitLowered' = limitLowered /\ UNCHANGED runtimeVars
      BY <1>6 DEF ClearFlag, Is
    <2>2. Activation("test_flags", Top.arg, Top.val) \in Activations
      BY <1>2, ActivationOf DEF Clearing
    <2>3. /\ stack' \in Seq(Activations) /\ stack' # <<>>
          /\ Top' = Activation("test_flags", Top.arg, Top.val)
      <3>1. Len(stack') # 0
        BY <2>1, <2>2, <1>1, <1>3, GoEffect, TopType
      <3> QED
        BY <3>1, <2>1, <2>2, <1>1, <1>3, GoEffect
    <2>4. /\ SetCallbackOnTop' /\ ~Is("set_callback")' /\ ClearingLooks'
          /\ \A s : Seen(s) => Seen(s)'
      BY <2>1, <2>2, <1>1, <1>3, GoKeeps DEF Clearing
    <2>5. InterruptKept'
      <3>1. CASE Top.arg = kSignal
        BY <3>1, <2>3 DEF InterruptKept, AboutToLook, Clearing, Activation
      <3>2. CASE Top.arg # kSignal
        <4>1. ~AboutToLook
          BY <3>2, <2>1 DEF AboutToLook, Clearing
        <4>2. signalPending => (kSignal \in flags /\ limitLowered) \/ overlooked
          BY <4>1, <1>3 DEF InterruptKept
        <4>3. kSignal \in flags => kSignal \in flags' \/ overlooked'
          BY <2>1, <3>2 DEF Dropped
        <4> QED
          BY <4>2, <4>3, <2>1 DEF InterruptKept, runtimeVars
      <3> QED
        BY <3>1, <3>2
    <2>6. flags' \subseteq Word /\ overlooked' \in BOOLEAN /\ limitLowered' \in BOOLEAN
      BY <2>1, <1>2, <1>3 DEF TypeOK, Dropped
    <2> QED
      BY <2>1, <2>3, <2>4, <2>5, <2>6, <1>5
  <1>7. CASE TestFlags
    <2>1. /\ Top.at = "test_flags" /\ UNCHANGED <<runtimeVars, threadVars, overlooked>>
          /\ IF flags = {} THEN Go("raise_limit", Top.arg) ELSE ReturnTop
      BY <1>7 DEF TestFlags, Is
    <2>2. /\ UNCHANGED runtimeVars
          /\ flags' = flags /\ limitLowered' = limitLowered /\ overlooked' = overlooked
          /\ signalPending' = signalPending
      BY <2>1 DEF runtimeVars, threadVars
    <2>3. flags' \subseteq Word /\ overlooked' \in BOOLEAN /\ limitLowered' \in BOOLEAN
      BY <2>2, <1>3 DEF TypeOK
    <2>4. CASE flags = {}
      <3>1. Go("raise_limit", Top.arg)
        BY <2>1, <2>4
      <3>2. Activation("raise_limit", Top.arg, Top.val) \in Activations
        BY <1>2, ActivationOf DEF Clearing
      <3>3. /\ stack' \in Seq(Activations) /\ Len(stack') # 0
            /\ Top' = Activation("raise_limit", Top.arg, Top.val)
        BY <3>1, <3>2, <1>1, <1>3, GoEffect, TopType
      <3>4. /\ SetCallbackOnTop' /\ ~Is("set_callback")' /\ ClearingLooks'
            /\ \A s : Seen(s) => Seen(s)'
        BY <3>1, <3>2, <2>1, <1>1, <1>3, GoKeeps DEF Clearing
      <3>5. InterruptKept'
        <4>1. CASE Top.arg = kSignal
          <5>1. stack' # <<>>
            BY <3>3
          <5> QED
            BY <4>1, <5>1, <3>3 DEF InterruptKept, AboutToLook, Clearing, Activation
        <4>2. CASE Top.arg # kSignal
          BY <4>2, <1>3, <2>1, <2>2, <2>4 DEF InterruptKept, AboutToLook, Clearing
        <4> QED
          BY <4>1, <4>2
      <3> QED
        BY <2>2, <2>3, <3>3, <3>4, <3>5, <1>5
    <2>5. CASE flags # {}
      <3>1. ReturnTop
        BY <2>1, <2>5
      <3>2. stack' \in Seq(Activations)
        BY <3>1, <1>1, <1>3, ReturnEffect
      <3>3. /\ SetCallbackOnTop' /\ ~Is("set_callback")' /\ ClearingLooks'
            /\ \A s : Seen(s) => Seen(s)'
        BY <3>1, <1>1, <1>3, ReturnKeeps
      <3>4. InterruptKept'
        <4>1. CASE Top.arg = kSignal
          BY <4>1, <3>1, <2>1, <1>1, <1>3, ClearingReturnsToTest DEF InterruptKept, Clearing
        <4>2. CASE Top.arg # kSignal
          BY <4>2, <1>3, <2>1, <2>2 DEF InterruptKept, AboutToLook, Clearing
        <4> QED
          BY <4>1, <4>2
      <3> QED
        BY <2>2, <2>3, <3>2, <3>3, <3>4, <1>5
    <2> QED
      BY <2>4, <2>5
  <1>8. CASE RaiseLimit
    <2>1. /\ Top.at = "raise_limit" /\ ReturnTop
          /\ UNCHANGED runtimeVars /\ flags' = flags /\ limitLowered' = FALSE
          /\ overlooked' = (overlooked \/ (kSignal \in flags /\ Top.arg # kSignal))
      BY <1>8 DEF RaiseLimit, Is
    <2>2. stack' \in Seq(Activations)
      BY <2>1, <1>1, <1>3, ReturnEffect
    <2>3. /\ SetCallbackOnTop' /\ ~Is("set_callback")' /\ ClearingLooks'
          /\ \A s : Seen(s) => Seen(s)'
      BY <2>1, <1>1, <1>3, ReturnKeeps
    <2>4. InterruptKept'
      <3>1. CASE Top.arg = kSignal
        BY <3>1, <2>1, <1>1, <1>3, ClearingReturnsToTest DEF InterruptKept, Clearing
      <3>2. CASE Top.arg # kSignal
        BY <3>2, <1>3, <2>1 DEF InterruptKept, AboutToLook, Clearing, runtimeVars
      <3> QED
        BY <3>1, <3>2
    <2>5. flags' \subseteq Word /\ overlooked' \in BOOLEAN /\ limitLowered' \in BOOLEAN
      BY <2>1, <1>3 DEF TypeOK
    <2> QED
      BY <2>1, <2>2, <2>3, <2>4, <2>5, <1>5
  <1>9. CASE SetFlag
    <2> DEFINE written == Top.val \cup {Top.arg}
    <2>1. /\ Top.at = "set_flag" /\ ReturnTop
          /\ UNCHANGED runtimeVars /\ flags' = written /\ limitLowered' = TRUE
          /\ overlooked' = (overlooked \/ Dropped(written))
      BY <1>9 DEF SetFlag, Is
    <2>2. stack' \in Seq(Activations)
      BY <2>1, <1>1, <1>3, ReturnEffect
    <2>3. /\ SetCallbackOnTop' /\ ~Is("set_callback")' /\ ClearingLooks'
          /\ \A s : Seen(s) => Seen(s)'
      BY <2>1, <1>1, <1>3, ReturnKeeps
    <2>4. Top.arg # kSignal
      BY <2>1, <1>1, <1>3, TopType, ActivationTypes, ConstantsOK
    <2>5. InterruptKept'
      <3>1. signalPending => kSignal \in flags \/ overlooked
        BY <2>1, <1>3 DEF InterruptKept, AboutToLook, Clearing
      <3>2. kSignal \in flags => kSignal \in flags' \/ overlooked'
        BY <2>1, <2>4 DEF Dropped
      <3> QED
        BY <3>1, <3>2, <2>1 DEF InterruptKept, runtimeVars
    <2>6. flags' \subseteq Word /\ overlooked' \in BOOLEAN /\ limitLowered' \in BOOLEAN
      BY <2>1, <1>2, <1>3 DEF TypeOK, Dropped
    <2> QED
      BY <2>1, <2>2, <2>3, <2>5, <2>6, <1>5
  <1> QED
    BY <1>6, <1>7, <1>8, <1>9

\* What an activation of handlePendingSignals holds.
LEMMA HandlingTop ==
    ASSUME TypeOK, stack # <<>>,
           Top.at \in {"test_pending", "clear_pending", "next_signal", "in_callback"}
    PROVE  Top.arg \in 0..(kNumSignals - 1) /\ Top.val = None
  BY TopType, ActivationTypes

\* The test and the clearing of is_signal_pending_.
LEMMA PendingSteps == Inductive /\ (TestPending \/ ClearPending) => Inductive'
  <1> SUFFICES ASSUME Inductive, TestPending \/ ClearPending PROVE Inductive'
    OBVIOUS
  <1>1. /\ TypeOK /\ SetCallbackOnTop /\ TablesAgree /\ ClearingLooks
        /\ SeenOrPending /\ InterruptKept
    BY SeenIsNotForgotten DEF Inductive
  <1>2. /\ stack # <<>>
        /\ Top.at \in {"test_pending", "clear_pending"} /\ Top.at \notin Looping
    BY DEF TestPending, ClearPending, Is, Looping
  <1>3. Top.val = None /\ 0 \in 0..(kNumSignals - 1)
    BY <1>1, <1>2, HandlingTop, ConstantsOK
  <1>4. handlers = callbacks
    BY <1>1, <1>2 DEF TablesAgree, Is
  <1>5. CASE TestPending
    <2>1. /\ UNCHANGED <<runtimeVars, threadVars, overlooked>>
          /\ IF signalPending THEN Go("clear_pending", 0) ELSE ReturnTop
      BY <1>5 DEF TestPending
    <2>2. /\ stack' \in Seq(Activations) /\ SetCallbackOnTop' /\ ~Is("set_callback")'
          /\ ClearingLooks' /\ InterruptKept'
          /\ \A s : Seen(s) => Seen(s)'
      <3>1. CASE signalPending
        <4>1. Go("clear_pending", 0)
          BY <2>1, <3>1
        <4>2. Activation("clear_pending", 0, Top.val) \in Activations
          BY <1>3, ActivationOf
        <4>3. /\ stack' \in Seq(Activations) /\ Len(stack') # 0
              /\ Top' = Activation("clear_pending", 0, Top.val)
          BY <4>1, <4>2, <1>1, <1>2, GoEffect, TopType
        <4>4. /\ SetCallbackOnTop' /\ ~Is("set_callback")' /\ ClearingLooks'
              /\ \A s : Seen(s) => Seen(s)'
          BY <4>1, <4>2, <1>1, <1>2, GoKeeps DEF Clearing
        <4>5. AboutToLook'
          <5>1. stack' # <<>>
            BY <4>3
          <5> QED
            BY <5>1, <4>3 DEF AboutToLook, Activation
        <4> QED
          BY <4>3, <4>4, <4>5 DEF InterruptKept
      <3>2. CASE ~signalPending
        <4>1. ReturnTop
          BY <2>1, <3>2
        <4>2. stack' \in Seq(Activations)
          BY <4>1, <1>1, <1>2, ReturnEffect
        <4>3. /\ SetCallbackOnTop' /\ ~Is("set_callback")' /\ ClearingLooks'
              /\ \A s : Seen(s) => Seen(s)'
          BY <4>1, <1>1, <1>2, ReturnKeeps
        <4>4. InterruptKept'
          BY <2>1, <3>2 DEF InterruptKept, runtimeVars
        <4> QED
          BY <4>2, <4>3, <4>4
      <3> QED
        BY <3>1, <3>2
    <2>3. TypeOK' /\ TablesAgree' /\ SeenOrPending'
      BY <2>1, <2>2, <1>1, <1>4
      DEF TypeOK, TablesAgree, SeenOrPending, runtimeVars, threadVars
    <2>4. NoSignalForgotten'
      BY <2>3, SeenIsNotForgotten, PTL
    <2> QED
      BY <2>2, <2>3, <2>4 DEF Inductive
  <1>6. CASE ClearPending
    <2>1. /\ signalPending' = FALSE /\ overlooked' = FALSE /\ Go("next_signal", 0)
          /\ UNCHANGED <<pending, callbacks, handlers, threadVars>>
      BY <1>6 DEF ClearPending
    <2>2. Activation("next_signal", 0, Top.val) \in Activations
      BY <1>3, ActivationOf
    <2>3. stack' \in Seq(Activations)
      BY <2>1, <2>2, <1>1, <1>2, GoEffect
    <2>4. /\ SetCallbackOnTop' /\ ~Is("set_callback")' /\ ClearingLooks'
          /\ \A s : 0 < s => Seen(s)'
      BY <2>1, <2>2, <1>1, <1>2, GoKeeps DEF Clearing, Looping
    <2>5. TypeOK' /\ TablesAgree' /\ InterruptKept'
      BY <2>1, <2>3, <2>4, <1>1, <1>4 DEF TypeOK, TablesAgree, InterruptKept, threadVars
    <2>6. SeenOrPending'
      BY <2>4 DEF SeenOrPending, Signal
    <2>7. NoSignalForgotten'
      BY <2>6, SeenIsNotForgotten, PTL
    <2> QED
      BY <2>3, <2>4, <2>5, <2>7 DEF Inductive
  <1> QED
    BY <1>5, <1>6

\* The loop of handlePendingSignals: it passes no pending signal without calling
\* its callback, and what arrives meanwhile lowers the limit again.
LEMMA LoopSteps == Inductive /\ (NextSignal \/ CallbackReturns) => Inductive'
  <1> SUFFICES ASSUME Inductive, NextSignal \/ CallbackReturns PROVE Inductive'
    OBVIOUS
  <1>1. /\ TypeOK /\ SetCallbackOnTop /\ TablesAgree /\ ClearingLooks
        /\ SeenOrPending /\ InterruptKept
    BY SeenIsNotForgotten DEF Inductive
  <1>2. /\ stack # <<>> /\ Top.at \in Looping
    BY DEF NextSignal, CallbackReturns, Is, Looping
  <1>3. Top.val = None /\ Top.arg \in 0..(kNumSignals - 1)
    BY <1>1, <1>2, HandlingTop DEF Looping
  <1>4. handlers = callbacks
    BY <1>1, <1>2 DEF TablesAgree, Is, Looping
  <1>5. signalPending => (kSignal \in flags /\ limitLowered) \/ overlooked
    BY <1>1, <1>2 DEF InterruptKept, AboutToLook, Looping, Clearing
  <1>6. /\ UNCHANGED <<signalPending, callbacks, handlers, threadVars, overlooked>>
        /\ pending' \in [Signal -> BOOLEAN]
    BY <1>1 DEF NextSignal, CallbackReturns, runtimeVars, TypeOK
  \* The activations below are as they were.
  <1>7. \A s : Seen(s) => Top.arg < s \/ \E k \in DOMAIN stack :
                /\ k # Len(stack) /\ stack[k].at \in Looping /\ stack[k].arg < s
    BY <1>1, <1>2, TopType DEF Seen
  <1>8. ASSUME stack' \in Seq(Activations), SetCallbackOnTop', ~Is("set_callback")',
               ClearingLooks', SeenOrPending'
        PROVE  Inductive'
    <2>1. TypeOK' /\ TablesAgree' /\ InterruptKept'
      BY <1>1, <1>4, <1>5, <1>6, <1>8 DEF TypeOK, TablesAgree, InterruptKept, threadVars
    <2>2. NoSignalForgotten'
      BY <1>8, SeenIsNotForgotten, PTL
    <2> QED
      BY <1>8, <2>1, <2>2 DEF Inductive
  <1>9. ASSUME NEW at \in Looping, NEW arg \in 0..(kNumSignals - 1), Go(at, arg),
               \A s \in Signal : pending'[s] => pending[s] /\ (Top.arg < s => arg < s)
        PROVE  Inductive'
    <2>1. Activation(at, arg, Top.val) \in Activations
      BY <1>3, ActivationOf DEF Looping
    <2>2. /\ stack' \in Seq(Activations)
          /\ DOMAIN stack' = DOMAIN stack
          /\ \A k \in DOMAIN stack : k # Len(stack) => stack'[k] = stack[k]
      BY <2>1, <1>1, <1>2, <1>9, GoEffect
    <2>3. /\ SetCallbackOnTop' /\ ~Is("set_callback")' /\ ClearingLooks'
          /\ \A s : arg < s => Seen(s)'
      BY <2>1, <1>1, <1>2, <1>9, GoKeeps DEF Clearing, Looping
    <2>4. ASSUME NEW s \in Signal, pending'[s], ~signalPending'
          PROVE  Seen(s)'
      <3>1. Seen(s) /\ (Top.arg < s => arg < s)
        BY <2>4, <1>1, <1>6, <1>9 DEF SeenOrPending
      <3>2. CASE Top.arg < s
        BY <3>1, <3>2, <2>3
      <3>3. CASE ~(Top.arg < s)
        <4>1. PICK k \in DOMAIN stack :
                /\ k # Len(stack) /\ stack[k].at \in Looping /\ stack[k].arg < s
          BY <3>1, <3>3, <1>7
        <4> QED
          BY <4>1, <2>2 DEF Seen
      <3> QED
        BY <3>2, <3>3
    <2> QED
      BY <2>2, <2>3, <2>4, <1>8 DEF SeenOrPending
  <1>10. CASE CallbackReturns
    <2>1. Go("next_signal", Top.arg) /\ pending' = pending
      BY <1>10 DEF CallbackReturns, runtimeVars
    <2> QED
      BY <2>1, <1>3, <1>9 DEF Looping
  <1>11. CASE NextSignal
    <2> DEFINE later == {s \in Signal : s > Top.arg /\ pending[s]}
    <2>1. CASE later = {} /\ ReturnTop /\ UNCHANGED pending
      <3>1. /\ stack' \in Seq(Activations)
            /\ DOMAIN stack' = 1..(Len(stack) - 1)
            /\ \A k \in DOMAIN stack' : stack'[k] = stack[k]
        BY <2>1, <1>1, <1>2, ReturnEffect
      <3>2. SetCallbackOnTop' /\ ~Is("set_callback")' /\ ClearingLooks'
        BY <2>1, <1>1, <1>2, ReturnKeeps
      <3>3. ASSUME NEW s \in Signal, pending'[s], ~signalPending'
            PROVE  Seen(s)'
        <4>1. Seen(s) /\ ~(Top.arg < s)
          BY <3>3, <2>1, <1>1, <1>3, <1>6 DEF SeenOrPending, Signal
        <4>2. PICK k \in DOMAIN stack :
                /\ k # Len(stack) /\ stack[k].at \in Looping /\ stack[k].arg < s
          BY <4>1, <1>7
        <4>3. k \in DOMAIN stack'
          BY <4>2, <3>1, <1>1, <1>2, TopType
        <4> QED
          BY <4>2, <4>3, <3>1 DEF Seen
      <3> QED
        BY <3>1, <3>2, <3>3, <1>8 DEF SeenOrPending
    <2>2. CASE \E s \in later :
                /\ \A other \in later : s <= other
                /\ Go("in_callback", s)
                /\ pending' = [pending EXCEPT ![s] = FALSE]
      <3>1. PICK s \in later :
                /\ \A other \in later : s <= other
                /\ Go("in_callback", s)
                /\ pending' = [pending EXCEPT ![s] = FALSE]
        BY <2>2
      <3>2. s \in 0..(kNumSignals - 1)
        BY ConstantsOK DEF Signal
      <3>3. ASSUME NEW u \in Signal, pending'[u]
            PROVE  pending[u] /\ (Top.arg < u => s < u)
        <4>1. pending[u] /\ u # s
          BY <3>1, <3>3, <1>1 DEF TypeOK
        <4>2. Top.arg < u => s <= u
          BY <4>1, <3>1, <1>3 DEF Signal
        <4> QED
          BY <4>1, <4>2, <3>2, <1>3 DEF Signal
      <3> QED
        BY <3>1, <3>2, <3>3, <1>9 DEF Looping
    <2> QED
      BY <2>1, <2>2, <1>11 DEF NextSignal
  <1> QED
    BY <1>10, <1>11

\* The exception of a callback: is_signal_pending_ is set again.
LEMMA RaiseStep == Inductive /\ CallbackRaises => Inductive'
  <1> SUFFICES ASSUME Inductive, CallbackRaises PROVE Inductive'
    OBVIOUS
  <1>1. TypeOK /\ SetCallbackOnTop /\ TablesAgree /\ ClearingLooks
    BY DEF Inductive
  <1>2. /\ stack # <<>> /\ Top.at = "in_callback"
        /\ signalPending' = TRUE /\ overlooked' = TRUE
        /\ UNCHANGED <<pending, callbacks, handlers, threadVars>>
    BY DEF CallbackRaises, Is
  <1>3. /\ Len(stack) \in Nat \ {0} /\ stack \in Seq(Activations)
        /\ DOMAIN stack = 1..Len(stack)
    BY <1>1, <1>2, TopType DEF TypeOK
  <1>4. /\ Front(stack) \in Seq(Activations)
        /\ Len(Front(stack)) = Len(stack) - 1
        /\ DOMAIN Front(stack) = 1..(Len(stack) - 1)
        /\ \A k \in 1..(Len(stack) - 1) : Front(stack)[k] = stack[k]
    BY <1>2, <1>3, FrontOf
  <1>5. \E n \in 0..(Len(stack) - 1) :
            /\ stack' \in Seq(Activations)
            /\ DOMAIN stack' = 1..n /\ Len(stack') = n
            /\ \A k \in 1..n : stack'[k] = stack[k]
    <2>1. CASE stack' = Front(stack)
      <3>1. Len(stack) - 1 \in 0..(Len(stack) - 1)
        BY <1>3
      <3>2. /\ stack' \in Seq(Activations)
            /\ Len(stack') = Len(stack) - 1
            /\ DOMAIN stack' = 1..(Len(stack) - 1)
            /\ \A k \in 1..(Len(stack) - 1) : stack'[k] = stack[k]
        BY <2>1, <1>4
      <3> QED
        BY <3>1, <3>2
    <2>2. CASE stack' = Front(Front(stack)) /\ Len(stack) > 1
      <3>1. Front(stack) # <<>>
        <4>1. Len(Front(stack)) # 0
          BY <2>2, <1>3, <1>4
        <4> QED
          BY <4>1
      <3>2. /\ stack' \in Seq(Activations)
            /\ Len(stack') = Len(Front(stack)) - 1
            /\ DOMAIN stack' = 1..(Len(Front(stack)) - 1)
            /\ \A k \in 1..(Len(Front(stack)) - 1) : stack'[k] = Front(stack)[k]
        BY <2>2, <3>1, <1>4, FrontOf
      <3>3. Len(Front(stack)) - 1 \in 0..(Len(stack) - 1)
        BY <2>2, <1>3, <1>4
      <3>4. \A k \in 1..(Len(Front(stack)) - 1) : k \in 1..(Len(stack) - 1)
        BY <1>3, <1>4
      <3> QED
        BY <3>2, <3>3, <3>4, <1>4
    <2> QED
      BY <2>1, <2>2 DEF CallbackRaises
  <1>6. PICK n \in 0..(Len(stack) - 1) :
            /\ stack' \in Seq(Activations)
            /\ DOMAIN stack' = 1..n /\ Len(stack') = n
            /\ \A k \in 1..n : stack'[k] = stack[k]
    BY <1>5
  <1>7. \A k \in DOMAIN stack' : stack'[k].at # "set_callback"
    BY <1>1, <1>3, <1>6 DEF SetCallbackOnTop
  <1>8. ~Is("set_callback")'
    <2>1. stack' # <<>> => n \in DOMAIN stack'
      BY <1>6, EmptySeq
    <2> QED
      BY <2>1, <1>6, <1>7 DEF Is, Top, Last
  <1>9. ASSUME NEW k \in DOMAIN stack', stack'[k].at \in Clearing, stack'[k].arg = kSignal
        PROVE  k > 1 /\ stack'[k - 1].at = "test_pending"
    <2>1. k \in DOMAIN stack /\ stack[k] = stack'[k]
      BY <1>3, <1>6
    <2>2. k > 1 /\ stack[k - 1].at = "test_pending"
      BY <2>1, <1>1, <1>9 DEF ClearingLooks
    <2>3. k - 1 \in 1..n
      BY <2>2, <1>6
    <2> QED
      BY <2>2, <2>3, <1>6
  <1>10. handlers = callbacks
    BY <1>1, <1>2 DEF TablesAgree, Is
  <1>11. TypeOK' /\ TablesAgree'
    BY <1>1, <1>2, <1>6, <1>8, <1>10 DEF TypeOK, TablesAgree, threadVars
  <1>12. NoSignalForgotten'
    BY <1>2 DEF NoSignalForgotten
  <1>13. InterruptKept'
    BY <1>2 DEF InterruptKept
  <1> QED
    BY <1>7, <1>9, <1>11, <1>12, <1>13 DEF Inductive, SetCallbackOnTop, ClearingLooks

\* The two changes of signal().
LEMMA SettingSteps == Inductive /\ (SetHandler \/ SetCallback) => Inductive'
  <1> SUFFICES ASSUME Inductive, SetHandler \/ SetCallback PROVE Inductive'
    OBVIOUS
  <1>1. /\ TypeOK /\ SetCallbackOnTop /\ TablesAgree /\ ClearingLooks
        /\ SeenOrPending /\ InterruptKept
    BY SeenIsNotForgotten DEF Inductive
  <1>2. /\ stack # <<>> /\ Top.at \in {"set_handler", "set_callback"}
        /\ UNCHANGED <<pending, signalPending, threadVars, overlooked>>
        /\ Top.at \notin Looping
    BY DEF SetHandler, SetCallback, Is, Looping
  <1>3. /\ Top.arg \in Signal /\ Top.val \in Installable
        /\ Top.val \in {Default, Function}
    BY <1>1, <1>2, TopType, ActivationTypes, ConstantsOK
  <1>4. signalPending => (kSignal \in flags /\ limitLowered) \/ overlooked
    BY <1>1, <1>2 DEF InterruptKept, AboutToLook, Clearing
  <1>5. ASSUME stack' \in Seq(Activations), SetCallbackOnTop', ClearingLooks', TablesAgree',
               \A s : Seen(s) => Seen(s)',
               callbacks' \in [Signal -> {Default, Function}],
               handlers' \in [Signal -> {Default, Function}]
        PROVE  Inductive'
    <2>1. TypeOK' /\ InterruptKept' /\ SeenOrPending'
      BY <1>1, <1>2, <1>4, <1>5 DEF TypeOK, InterruptKept, SeenOrPending, threadVars
    <2>2. NoSignalForgotten'
      BY <2>1, SeenIsNotForgotten, PTL
    <2> QED
      BY <1>5, <2>1, <2>2 DEF Inductive
  <1>6. CASE SetHandler
    <2>1. /\ Top.at = "set_handler"
          /\ handlers' = [handlers EXCEPT ![Top.arg] = Top.val]
          /\ Go("set_callback", Top.arg)
          /\ UNCHANGED callbacks
      BY <1>6 DEF SetHandler, Is
    <2>2. Activation("set_callback", Top.arg, Top.val) \in Activations
      BY <1>3, ActivationOf
    <2>3. /\ stack' \in Seq(Activations)
          /\ Top' = Activation("set_callback", Top.arg, Top.val)
      BY <2>1, <2>2, <1>1, <1>2, GoEffect
    <2>4. /\ SetCallbackOnTop' /\ Is("set_callback")' /\ ClearingLooks'
          /\ \A s : Seen(s) => Seen(s)'
      BY <2>1, <2>2, <1>1, <1>2, GoKeeps DEF Clearing
    <2>5. Top'.arg = Top.arg /\ Top'.val = Top.val
      BY <2>3 DEF Activation
    <2>6. handlers = callbacks
      BY <2>1, <1>1 DEF TablesAgree, Is
    <2>7. TablesAgree'
      BY <2>1, <2>4, <2>5, <2>6 DEF TablesAgree
    <2>8. /\ callbacks' \in [Signal -> {Default, Function}]
          /\ handlers' \in [Signal -> {Default, Function}]
      BY <2>1, <1>1, <1>3 DEF TypeOK
    <2> QED
      BY <2>3, <2>4, <2>7, <2>8, <1>5
  <1>7. CASE SetCallback
    <2>1. /\ Is("set_callback") /\ ReturnTop
          /\ callbacks' = [callbacks EXCEPT ![Top.arg] = Top.val]
          /\ UNCHANGED handlers
      BY <1>7 DEF SetCallback
    <2>2. stack' \in Seq(Activations)
      BY <2>1, <1>1, <1>2, ReturnEffect
    <2>3. /\ SetCallbackOnTop' /\ ~Is("set_callback")' /\ ClearingLooks'
          /\ \A s : Seen(s) => Seen(s)'
      BY <2>1, <1>1, <1>2, ReturnKeeps
    <2>4. TablesAgree'
      BY <2>1, <2>3, <1>1 DEF TablesAgree
    <2>5. /\ callbacks' \in [Signal -> {Default, Function}]
          /\ handlers' \in [Signal -> {Default, Function}]
      BY <2>1, <1>1, <1>3 DEF TypeOK
    <2> QED
      BY <2>2, <2>3, <2>4, <2>5, <1>5
  <1> QED
    BY <1>6, <1>7

\* What the program calls.
LEMMA CallSteps ==
    ASSUME Inductive,
           \/ PushFrame \/ CheckSignals
           \/ \E s \in Signal, cb \in Installable : CallSignal(s, cb)
           \/ \E kind \in Kinds : Interrupt(kind) \/ TakeBackInterrupt(kind)
    PROVE  Inductive'
  <1>1. /\ TypeOK /\ SetCallbackOnTop /\ TablesAgree /\ ClearingLooks
        /\ SeenOrPending /\ InterruptKept
    BY SeenIsNotForgotten DEF Inductive
  <1>2. MayCall /\ UNCHANGED <<runtimeVars, threadVars, overlooked>>
    BY DEF PushFrame, CheckSignals, CallSignal, Interrupt, TakeBackInterrupt
  <1>3. signalPending => (kSignal \in flags /\ limitLowered) \/ overlooked
    BY <1>1, <1>2, CallerIsPython DEF InterruptKept
  <1>4. handlers = callbacks
    BY <1>1, <1>2, CallerIsPython DEF TablesAgree
  <1>5. flags \in SUBSET Word
    BY <1>1 DEF TypeOK
  <1>6. ASSUME stack' \in Seq(Activations), SetCallbackOnTop', ~Is("set_callback")',
               ClearingLooks', \A s : Seen(s) => Seen(s)'
        PROVE  Inductive'
    <2>1. TypeOK' /\ TablesAgree' /\ InterruptKept' /\ SeenOrPending'
      BY <1>1, <1>2, <1>3, <1>4, <1>6
      DEF TypeOK, TablesAgree, InterruptKept, SeenOrPending, runtimeVars, threadVars
    <2>2. NoSignalForgotten'
      BY <2>1, SeenIsNotForgotten, PTL
    <2> QED
      BY <1>6, <2>1, <2>2 DEF Inductive
  <1>7. CASE PushFrame \/ CheckSignals
    <2>1. HandlePendingSignals(stack)
      BY <1>7 DEF PushFrame, CheckSignals
    <2> QED
      BY <2>1, <1>1, <1>2, <1>6, HandleFromCode
  <1>8. ASSUME NEW s \in Signal, NEW cb \in Installable, CallSignal(s, cb)
        PROVE  Inductive'
    <2> DEFINE set == Activation("set_handler", s, cb)
               below == Append(stack, set)
    <2>1. set \in Activations
      BY ActivationOf
    <2>2. HandlePendingSignals(below)
      BY <1>8 DEF CallSignal
    <2>3. set.at = "set_handler"
      BY DEF Activation
    <2> HIDE DEF set
    <2>4. /\ below \in Seq(Activations)
          /\ DOMAIN below = DOMAIN stack \cup {Len(stack) + 1}
          /\ DOMAIN stack = 1..Len(stack) /\ Len(stack) \in Nat
          /\ \A k \in DOMAIN stack : below[k] = stack[k]
          /\ below[Len(stack) + 1] = set
      BY <2>1, <1>1, PushEffect DEF TypeOK
    <2> HIDE DEF below
    <2>5. ASSUME NEW k \in DOMAIN below
          PROVE  /\ below[k].at # "set_callback"
                 /\ below[k].at \in Clearing /\ below[k].arg = kSignal =>
                      k > 1 /\ below[k - 1].at = "test_pending"
      <3>1. CASE k = Len(stack) + 1
        BY <3>1, <2>3, <2>4 DEF Clearing
      <3>2. CASE k \in DOMAIN stack
        <4>1. below[k] = stack[k] /\ stack[k].at # "set_callback"
          BY <3>2, <2>4, <1>1, <1>2, CallerIsPython
        <4>2. k > 1 => k - 1 \in DOMAIN stack
          BY <3>2, <2>4
        <4> QED
          BY <3>2, <4>1, <4>2, <2>4, <1>1 DEF ClearingLooks
      <3> QED
        BY <3>1, <3>2, <2>4
    <2>6. \A k \in DOMAIN stack : k \in DOMAIN below /\ below[k] = stack[k]
      BY <2>4
    <2> QED
      BY <2>2, <2>4, <2>5, <2>6, <1>1, <1>6, HandleKeeps
  <1>9. ASSUME NEW kind \in Kinds, Interrupt(kind) \/ TakeBackInterrupt(kind)
        PROVE  Inductive'
    <2>1. PICK at \in {"set_flag", "clear_flag"} :
                stack' = Append(stack, Activation(at, kind, flags))
      BY <1>9 DEF Interrupt, TakeBackInterrupt, ClearInterrupt
    <2>2. Activation(at, kind, flags) \in Activations
      BY <1>5, ActivationOf DEF Word, Clearing
    <2>3. /\ Activation(at, kind, flags).at # "set_callback"
          /\ Activation(at, kind, flags).arg # kSignal
      BY ConstantsOK DEF Activation
    <2> QED
      BY <2>1, <2>2, <2>3, <1>1, <1>2, <1>6, CallKeeps
  <1> QED
    BY <1>7, <1>8, <1>9

\* The handler of a signal, at any time.
LEMMA ArrivalStep ==
    ASSUME Inductive, NEW s \in Signal, SignalArrives(s)
    PROVE  Inductive'
  <1>1. /\ TypeOK /\ SetCallbackOnTop /\ TablesAgree /\ ClearingLooks
    BY DEF Inductive
  <1>2. /\ UNCHANGED <<callbacks, handlers, stack>>
        /\ signalPending' = TRUE /\ limitLowered' = TRUE /\ overlooked' = FALSE
        /\ flags' = flags \cup {kSignal}
        /\ pending' = [pending EXCEPT ![s] = TRUE]
    BY DEF SignalArrives
  <1>3. TypeOK'
    BY <1>1, <1>2 DEF TypeOK, Word
  <1>4. SetCallbackOnTop' /\ TablesAgree' /\ ClearingLooks'
    BY <1>1, <1>2 DEF SetCallbackOnTop, TablesAgree, ClearingLooks, Is, Top
  <1>5. NoSignalForgotten' /\ InterruptKept'
    BY <1>2 DEF NoSignalForgotten, InterruptKept
  <1> QED
    BY <1>3, <1>4, <1>5 DEF Inductive

LEMMA NextInductive == Inductive /\ [Next]_vars => Inductive'
  <1> SUFFICES ASSUME Inductive, [Next]_vars PROVE Inductive'
    OBVIOUS
  <1>1. CASE \E s \in Signal : SignalArrives(s)
    BY <1>1, ArrivalStep
  <1>2. CASE Step
    BY <1>2, FlagSteps, PendingSteps, LoopSteps, SettingSteps DEF Step
  <1>3. CASE CallbackEnds
    BY <1>3, LoopSteps, RaiseStep DEF CallbackEnds
  <1>4. CASE \/ PushFrame \/ CheckSignals
             \/ \E s \in Signal, cb \in Installable : CallSignal(s, cb)
             \/ \E kind \in Kinds : Interrupt(kind) \/ TakeBackInterrupt(kind)
    BY <1>4, CallSteps
  <1>5. CASE UNCHANGED vars
    BY <1>5
    DEF vars, runtimeVars, threadVars, Inductive, TypeOK, SetCallbackOnTop, TablesAgree,
        ClearingLooks, NoSignalForgotten, InterruptKept, AboutToLook, Is, Top
  <1> QED
    BY <1>1, <1>2, <1>3, <1>4, <1>5 DEF Next

-----------------------------------------------------------------------------
(***************************************************************************)
(* Theorems.                                                               *)
(***************************************************************************)

\* In every reachable state the flags, the tables and the activations are what
\* handleSignal() and handlePendingSignals() rely on.
THEOREM InductiveInvariant == Spec => []Inductive
  <1>1. Init => Inductive
    BY InitInductive
  <1>2. Inductive /\ [Next]_vars => Inductive'
    BY NextInductive
  <1> QED
    BY <1>1, <1>2, PTL DEF Spec

\* A signal marked as pending is announced by is_signal_pending_, or is ahead of
\* a loop of handlePendingSignals, however callbacks nest and raise.
THEOREM SignalsNotForgotten == Spec => []NoSignalForgotten
  <1>1. Inductive => NoSignalForgotten
    BY DEF Inductive
  <1> QED
    BY <1>1, InductiveInvariant, PTL

\* Python code that runs while is_signal_pending_ is set takes the slow path at
\* its next frame, unless since the last arrival a callback raised
\* (handlePendingSignals) or the flag of another interrupt was changed at the
\* instant of the signal (interrupt, clearInterrupt).
THEOREM InterruptsDelivered == Spec => []PendingInterrupts
  <1>1. Inductive => PendingInterrupts
    BY DEF Inductive, InterruptKept, PendingInterrupts, InPython, AboutToLook, Clearing
  <1> QED
    BY <1>1, InductiveInvariant, PTL

\* handlePendingSignals calls only what is callable, unless the program reset
\* the signal after it arrived.
THEOREM CallablesCalled == Spec => OnlyCallablesCalled
  <1>1. ASSUME Inductive, NEW s \in Signal, NextSignal
        PROVE  callbacks[s] = Function \/ handlers[s] = Default
    <2>1. handlers = callbacks
      BY <1>1 DEF Inductive, TablesAgree, NextSignal, Is
    <2> QED
      BY <2>1, <1>1 DEF Inductive, TypeOK
  <1>2. Inductive /\ [Next]_vars =>
            [ \A s \in Signal :
                NextSignal /\ pending[s] /\ ~pending'[s] =>
                    callbacks[s] = Function \/ handlers[s] = Default ]_vars
    BY <1>1
  <1> QED
    BY <1>2, InductiveInvariant, PTL DEF Spec, OnlyCallablesCalled

\* Python code, in the terms of the flags only.
NextFrameNotices == signalPending /\ InPython => kSignal \in flags /\ limitLowered

\* Where nothing else interrupts the thread, so that no profiling is switched on or
\* off, and no callback raises, Python code that runs while is_signal_pending_ is
\* set always takes the slow path of Thread::pushCallFrame() next.
THEOREM InterruptsNotLost ==
    ASSUME Kinds = {}
    PROVE  Spec /\ [][~CallbackRaises]_vars => []NextFrameNotices
  <1>1. Init => ~overlooked
    BY DEF Init
  <1>2. Inductive /\ ~overlooked /\ [Next]_vars /\ [~CallbackRaises]_vars => ~overlooked'
    <2> SUFFICES ASSUME Inductive, ~overlooked, [Next]_vars, [~CallbackRaises]_vars
                 PROVE  ~overlooked'
      OBVIOUS
    <2>1. ASSUME NEW at \in {"clear_flag", "raise_limit", "set_flag"}, Is(at)
          PROVE  Top.arg = kSignal
      BY <2>1, TopType DEF Inductive, Is, Activations, FlagActivations, HandlingActivations,
         SettingActivations, Word
    <2>2. CASE ClearFlag \/ RaiseLimit \/ SetFlag
      BY <2>1, <2>2 DEF ClearFlag, RaiseLimit, SetFlag, Dropped
    <2>3. CASE \/ TestFlags \/ TestPending \/ ClearPending \/ NextSignal \/ SetHandler \/ SetCallback
              \/ CallbackReturns \/ PushFrame \/ CheckSignals
      BY <2>3 DEF TestFlags, TestPending, ClearPending, NextSignal, SetHandler, SetCallback,
         CallbackReturns, PushFrame, CheckSignals
    <2>4. CASE \/ \E s \in Signal : SignalArrives(s)
              \/ \E s \in Signal, cb \in Installable : CallSignal(s, cb)
              \/ \E kind \in Kinds : Interrupt(kind) \/ TakeBackInterrupt(kind)
      BY <2>4 DEF SignalArrives, CallSignal, Interrupt, TakeBackInterrupt
    <2>5. CASE UNCHANGED vars
      BY <2>5 DEF vars
    <2> QED
      BY <2>2, <2>3, <2>4, <2>5 DEF Next, Step, CallbackEnds
  <1>3. Inductive /\ ~overlooked => NextFrameNotices
    BY DEF Inductive, InterruptKept, NextFrameNotices, InPython, AboutToLook, Clearing
  <1> QED
    BY <1>1, <1>2, <1>3, InductiveInvariant, PTL DEF Spec

\* A signal that is pending still has its handler.
Handled == \A s \in Signal : pending[s] => handlers[s] = Function

\* In a program that installs callables only and never SIG_DFL, the callback of a
\* signal that handlePendingSignals() takes is callable, without exception.
THEOREM CallablesAlwaysCalled ==
    ASSUME Default \notin Installable
    PROVE  Spec => [][ \A s \in Signal : NextSignal /\ pending[s] /\ ~pending'[s] =>
                          callbacks[s] = Function ]_vars
  <1>1. Init => Handled
    BY DEF Init, Handled
  <1>2. Inductive /\ Handled /\ [Next]_vars => Handled'
    <2> SUFFICES ASSUME Inductive, Handled, [Next]_vars
                 PROVE  Handled'
      OBVIOUS
    <2>1. CASE \E s \in Signal : SignalArrives(s)
      BY <2>1 DEF SignalArrives, Handled, Inductive, TypeOK
    <2>2. CASE SetHandler
      <3>1. Top.val = Function
        BY <2>2, TopType, ConstantsOK DEF SetHandler, Inductive, Is, Activations,
           FlagActivations, HandlingActivations, SettingActivations
      <3> QED
        BY <2>2, <3>1 DEF SetHandler, Handled, Inductive, TypeOK
    <2>3. CASE NextSignal
      BY <2>3 DEF NextSignal, Handled, Inductive, TypeOK
    <2>4. CASE \/ ClearFlag \/ TestFlags \/ RaiseLimit \/ SetFlag
              \/ TestPending \/ ClearPending \/ SetCallback \/ CallbackEnds
      BY <2>4 DEF ClearFlag, TestFlags, RaiseLimit, SetFlag, TestPending, ClearPending,
         SetCallback, CallbackEnds, CallbackReturns, CallbackRaises, runtimeVars, Handled
    <2>5. CASE PushFrame \/ CheckSignals
      BY <2>5 DEF PushFrame, CheckSignals, runtimeVars, Handled
    <2>6. ASSUME NEW s \in Signal, NEW cb \in Installable, CallSignal(s, cb)
          PROVE  Handled'
      BY <2>6 DEF CallSignal, runtimeVars, Handled
    <2>7. ASSUME NEW kind \in Kinds, Interrupt(kind) \/ TakeBackInterrupt(kind)
          PROVE  Handled'
      BY <2>7 DEF Interrupt, TakeBackInterrupt, runtimeVars, Handled
    <2>8. CASE Step
      BY <2>2, <2>3, <2>4, <2>8 DEF Step
    <2>9. CASE UNCHANGED vars
      BY <2>9 DEF vars, runtimeVars, Handled
    <2> QED
      BY <2>1, <2>4, <2>5, <2>6, <2>7, <2>8, <2>9 DEF Next
  <1>3. Inductive /\ Handled /\ [Next]_vars =>
            [ \A s \in Signal : NextSignal /\ pending[s] /\ ~pending'[s] =>
                 callbacks[s] = Function ]_vars
    BY DEF Inductive, TablesAgree, NextSignal, Is, Handled
  <1> QED
    BY <1>1, <1>2, <1>3, InductiveInvariant, PTL DEF Spec
=============================================================================
