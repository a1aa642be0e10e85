----------------------------- MODULE Generators -----------------------------
(***************************************************************************)
(* Generators and coroutines of one thread: resumption, throw(), close()   *)
(* and delegation by YIELD_FROM (generator-builtins.cpp, interpreter.cpp). *)
(*                                                                         *)
(* A generator's code is arbitrary: whenever it runs it may start or leave *)
(* a try block, resume, throw into or close any generator, its own         *)
(* callers included, delegate, yield, return or raise.  The same holds for *)
(* the code of user-defined iterators and for the code outside generators. *)
(***************************************************************************)
EXTENDS Integers, Sequences, FiniteSets

CONSTANTS
    Gen,        \* generators and coroutines
    Coroutine,  \* those of them that are coroutines
    Iter,       \* user-defined iterators that code may delegate to
    None,
    Base,       \* the exception state of the thread itself
    MaxDepth    \* bound: nested activations; the thread's stack has no room for more

ASSUME GeneratorsAssumption ==
    /\ Coroutine \subseteq Gen
    /\ Gen \cap Iter = {} /\ None \notin Gen \cup Iter
    /\ Base \notin Gen \cup {None}
    /\ MaxDepth \in Nat \ {0}

VARIABLES
    pc,       \* virtualPC of each GeneratorFrame: "from" is a YIELD_FROM
    sub,      \* top of the saved value stack at a YIELD_FROM: the subiterator
    try,      \* whether the saved block stack has a try block
    running,  \* GeneratorBase::running
    prev,     \* ExceptionState::previous of each generator
    caught,   \* Thread::caughtExceptionState
    stack,    \* C++ and interpreter activations, the last one on top
    next      \* what happens next: code runs, a call is made or a result returned

vars == <<pc, sub, try, running, prev, caught, stack, next>>
saved == <<pc, sub, try>>

Exception == {"GeneratorExit", "StopIteration", "Error"}

Run == [do |-> "run"]
Aborted == [do |-> "abort"]
Send(g) == [do |-> "send", gen |-> g]
Throw(g, exc) == [do |-> "throw", gen |-> g, exc |-> exc]
Raise(g, exc) == [do |-> "raise", gen |-> g, exc |-> exc]
Result(r) == [do |-> "result", is |-> r, lookup |-> FALSE]

\* What throw() gives when looking up the method in the subiterator raised: the
\* mark tells ClosedIsFinished so, and no action reads it.
LookupRaised(exc) == [do |-> "result", is |-> exc, lookup |-> TRUE]

Body(g, from, inTry) == [at |-> "body", gen |-> g, from |-> from, inTry |-> inTry]
Lookup(g, yf, exc) == [at |-> "lookup", gen |-> g, from |-> yf, exc |-> exc]
Throwing(g, yf) == [at |-> "throw", gen |-> g, from |-> yf]
Closing(g) == [at |-> "close", gen |-> g, from |-> None]

Top == stack[Len(stack)]
At(kind) == stack # <<>> /\ Top.at = kind
Below == SubSeq(stack, 1, Len(stack) - 1)
Push(a) == stack' = Append(stack, a)
Replace(a) == stack' = Append(Below, a)
StackFull == Len(stack) >= MaxDepth

Init ==
    /\ pc = [g \in Gen |-> "start"]
    /\ sub = [g \in Gen |-> None]
    /\ try = [g \in Gen |-> FALSE]
    /\ running = [g \in Gen |-> FALSE]
    /\ prev = [g \in Gen |-> None]
    /\ caught = Base
    /\ stack = <<>>
    /\ next = Run

-----------------------------------------------------------------------------
(* Resumption *)

\* The generator's frame, exception state and running flag become active.
Resume(g, from, inTry) ==
    /\ Push(Body(g, from, inTry))
    /\ prev' = [prev EXCEPT ![g] = caught] /\ caught' = g
    /\ running' = [running EXCEPT ![g] = TRUE]

\* ... and are taken back when execute() returns.
Leave(g) ==
    /\ stack' = Below
    /\ caught' = prev[g] /\ prev' = [prev EXCEPT ![g] = None]
    /\ running' = [running EXCEPT ![g] = FALSE]

Fail(exc) == next' = Result(exc) /\ UNCHANGED <<saved, running, prev, caught, stack>>

\* resumeGenerator(): a suspended YIELD_FROM sends on to its subiterator.
ResumeGenerator ==
    /\ next.do = "send"
    /\ LET g == next.gen
       IN  IF running[g] THEN Fail("Error")
           ELSE IF pc[g] = "finished"
           THEN Fail(IF g \in Coroutine THEN "Error" ELSE "StopIteration")
           ELSE IF StackFull THEN Fail("Error")
           ELSE /\ Resume(g, IF pc[g] = "from" THEN sub[g] ELSE None, try[g])
                /\ next' = IF pc[g] = "from" /\ sub[g] \in Gen THEN Send(sub[g]) ELSE Run
                /\ UNCHANGED saved

\* A value cannot be sent to a generator that has not started.
SendValueTooEarly ==
    /\ next.do = "send"
    /\ ~running[next.gen] /\ pc[next.gen] = "start"
    /\ Fail("Error")

\* Mutant of ResumeGeneratorWithRaise: the exception state of a generator that
\* does not catch the exception stays the thread's.
ResumeGeneratorWithRaiseKeepsState ==
    /\ next.do = "raise"
    /\ LET g == next.gen
       IN  IF running[g] \/ StackFull \/ (g \in Coroutine /\ pc[g] = "finished")
           THEN Fail("Error")
           ELSE IF try[g]
           THEN Resume(g, None, FALSE) /\ next' = Run /\ UNCHANGED saved
           ELSE /\ pc' = [pc EXCEPT ![g] = "finished"]
                /\ next' = Result(next.exc)
                /\ prev' = [prev EXCEPT ![g] = caught] /\ caught' = g
                /\ UNCHANGED <<sub, try, running, stack>>

\* resumeGeneratorWithRaise(): unwind() runs the handler of the saved try block,
\* also when the generator is a finished one; without a try block the exception
\* leaves the generator, which is finished.
ResumeGeneratorWithRaise ==
    /\ next.do = "raise"
    /\ LET g == next.gen
       IN  IF running[g] \/ StackFull \/ (g \in Coroutine /\ pc[g] = "finished")
           THEN Fail("Error")
           ELSE IF try[g]
           THEN Resume(g, None, FALSE) /\ next' = Run /\ UNCHANGED saved
           ELSE /\ pc' = [pc EXCEPT ![g] = "finished"]
                /\ next' = Result(next.exc)
                /\ UNCHANGED <<sub, try, running, prev, caught, stack>>

-----------------------------------------------------------------------------
(* throw() and close() *)

\* findYieldFrom().
FindYieldFrom(g) == IF ~running[g] /\ pc[g] = "from" THEN sub[g] ELSE None

\* The subiterator is popped and the PC moved past the YIELD_FROM.
EndYieldFrom(g) ==
    /\ pc' = [pc EXCEPT ![g] = "yield"] /\ sub' = [sub EXCEPT ![g] = None]
    /\ UNCHANGED try

\* With no room on the stack the call of the subiterator's throw() raises, and its
\* lookup in a user-defined iterator may raise before, or find no method.
ThrowOverflows(g, yf, exc) ==
    /\ \/ EndYieldFrom(g) /\ next' = Raise(g, "Error")
       \/ yf \in Iter /\ next' \in {LookupRaised("Error"), Raise(g, exc)} /\ UNCHANGED saved
    /\ UNCHANGED <<running, stack>>

\* Mutant of ThrowImpl: a delegating generator can be resumed meanwhile.
ThrowImplNotRunning ==
    /\ next.do = "throw"
    /\ LET g == next.gen
           yf == FindYieldFrom(g)
       IN  /\ \/ yf = None /\ next' = Raise(g, next.exc) /\ UNCHANGED <<saved, stack, running>>
              \/ yf # None /\ StackFull /\ ThrowOverflows(g, yf, next.exc)
              \/ /\ yf \in Gen /\ ~StackFull
                 /\ next' = Throw(yf, next.exc) /\ Push(Throwing(g, yf))
                 /\ UNCHANGED <<saved, running>>
              \/ /\ yf \in Iter /\ ~StackFull
                 /\ next' = Run /\ Push(Lookup(g, yf, next.exc))
                 /\ UNCHANGED <<saved, running>>
           /\ UNCHANGED <<prev, caught>>

\* throwImpl(): throwDoRaise(), or throwYieldFrom() up to the call of yf.throw();
\* looking it up in a user-defined iterator runs code.
ThrowImpl ==
    /\ next.do = "throw"
    /\ LET g == next.gen
           yf == FindYieldFrom(g)
       IN  /\ \/ yf = None /\ next' = Raise(g, next.exc) /\ UNCHANGED <<saved, stack, running>>
              \/ yf # None /\ StackFull /\ ThrowOverflows(g, yf, next.exc)
              \/ /\ yf \in Gen /\ ~StackFull
                 /\ running' = [running EXCEPT ![g] = TRUE]
                 /\ next' = Throw(yf, next.exc) /\ Push(Throwing(g, yf)) /\ UNCHANGED saved
              \/ /\ yf \in Iter /\ ~StackFull
                 /\ next' = Run /\ Push(Lookup(g, yf, next.exc))
                 /\ UNCHANGED <<saved, running>>
           /\ UNCHANGED <<prev, caught>>

\* The lookup found the method, which is called; or nothing, and the exception
\* is thrown into the generator itself; or it raised anything else, which
\* throw() forwards.
ThrowMethodFound ==
    /\ next = Run /\ At("lookup")
    /\ running' = [running EXCEPT ![Top.gen] = TRUE]
    /\ Replace(Throwing(Top.gen, Top.from))
    /\ UNCHANGED <<saved, prev, caught, next>>

ThrowMethodMissing ==
    /\ next = Run /\ At("lookup")
    /\ stack' = Below /\ next' = Raise(Top.gen, Top.exc)
    /\ UNCHANGED <<saved, running, prev, caught>>

ThrowMethodRaises ==
    /\ next = Run /\ At("lookup")
    /\ stack' = Below /\ \E exc \in Exception : next' = LookupRaised(exc)
    /\ UNCHANGED <<saved, running, prev, caught>>

\* Mutant of ThrowYieldFromReturns: what the subiterator raises is not raised at
\* the YIELD_FROM of its parent.
ThrowYieldFromReturnsError ==
    /\ next.do = "result" /\ At("throw") /\ Top.from \in Gen
    /\ stack' = Below /\ running' = [running EXCEPT ![Top.gen] = FALSE]
    /\ UNCHANGED <<saved, next, prev, caught>>

\* throwYieldFrom() after yf.throw(): a value is yielded; otherwise YIELD_FROM is
\* finished, with the subiterator's value or with the exception.  The DCHECK that
\* the subiterator is still there aborts the process.
Thrown(g, yf, r) ==
    /\ stack' = Below /\ running' = [running EXCEPT ![g] = FALSE]
    /\ IF r = "yield" THEN next' = Result(r) /\ UNCHANGED saved
       ELSE IF pc[g] # "from" \/ sub[g] # yf THEN next' = Aborted /\ UNCHANGED saved
       ELSE EndYieldFrom(g) /\ next' = IF r = "StopIteration" THEN Send(g) ELSE Raise(g, r)
    /\ UNCHANGED <<prev, caught>>

ThrowYieldFromReturns ==
    /\ next.do = "result" /\ At("throw") /\ Top.from \in Gen
    /\ Thrown(Top.gen, Top.from, next.is)

\* The throw() of a user-defined iterator returns or raises.
ThrowMethodReturns ==
    /\ next = Run /\ At("throw") /\ Top.from \in Iter
    /\ \E r \in Exception \cup {"yield"} : Thrown(Top.gen, Top.from, r)

\* closeImpl() around throwImpl(): whether it returns None or raises, the code
\* that called it goes on.
CloseReturns ==
    /\ next.do = "result" /\ At("close")
    /\ stack' = Below /\ next' = Run
    /\ UNCHANGED <<saved, running, prev, caught>>

-----------------------------------------------------------------------------
(* Code *)

\* Code of the thread, of a generator or of a user-defined iterator runs.
CodeRuns == next = Run /\ ~StackFull

CallSend(g) == CodeRuns /\ next' = Send(g) /\ UNCHANGED <<saved, running, prev, caught, stack>>

CallThrow(g, exc) ==
    CodeRuns /\ next' = Throw(g, exc) /\ UNCHANGED <<saved, running, prev, caught, stack>>

CallClose(g) ==
    /\ CodeRuns /\ pc[g] # "finished"
    /\ Push(Closing(g)) /\ next' = Throw(g, "GeneratorExit")
    /\ UNCHANGED <<saved, running, prev, caught>>

\* The code that made the call goes on: the generator yielded or raised, and a
\* caller that does not catch the exception raises it.
CallReturns ==
    /\ next.do = "result"
    /\ stack # <<>> => Top.from \in Iter \/ (Top.at = "body" /\ Top.from = None)
    /\ next' = Run
    /\ UNCHANGED <<saved, running, prev, caught, stack>>

\* The body of the generator on top runs.
InBody == next = Run /\ At("body") /\ Top.from = None

EnterOrLeaveTry ==
    /\ InBody
    /\ Replace(Body(Top.gen, None, ~Top.inTry))
    /\ UNCHANGED <<saved, running, prev, caught, next>>

\* execute() returns from a yield: popFrameToGeneratorFrame() saves the frame.
Suspend(how, from) ==
    LET g == Top.gen
    IN  /\ Leave(g)
        /\ pc' = [pc EXCEPT ![g] = how] /\ sub' = [sub EXCEPT ![g] = from]
        /\ try' = [try EXCEPT ![g] = Top.inTry]
        /\ next' = Result("yield")

Yield == InBody /\ Suspend("yield", None)

\* The generator returned or raised: its saved frame is as it was at the last
\* yield but for the PC.
Finish(r) ==
    /\ Leave(Top.gen)
    /\ pc' = [pc EXCEPT ![Top.gen] = "finished"]
    /\ next' = Result(r)
    /\ UNCHANGED <<sub, try>>

Return == InBody /\ Finish("StopIteration")

\* unwind() in the body: the handler of a try block, or the end of the generator.
\* A StopIteration that leaves it becomes a RuntimeError.
Unwind(exc) ==
    IF Top.inTry
    THEN /\ Replace(Body(Top.gen, None, FALSE)) /\ next' = Run
         /\ UNCHANGED <<saved, running, prev, caught>>
    ELSE Finish(IF exc = "StopIteration" THEN "Error" ELSE exc)

RaiseInBody == InBody /\ \E exc \in Exception : Unwind(exc)

\* GET_YIELD_FROM_ITER or GET_AWAITABLE, and the first YIELD_FROM.
YieldFrom(y) ==
    /\ InBody
    /\ y \in Coroutine => FindYieldFrom(y) = None
    /\ Replace(Body(Top.gen, y, Top.inTry))
    /\ next' = IF y \in Gen THEN Send(y) ELSE Run
    /\ UNCHANGED <<saved, running, prev, caught>>

\* doYieldFrom() with the result of the subiterator.
YieldFromGets(r) ==
    \/ r = "yield" /\ Suspend("from", Top.from)
    \/ /\ r = "StopIteration"
       /\ Replace(Body(Top.gen, None, Top.inTry)) /\ next' = Run
       /\ UNCHANGED <<saved, running, prev, caught>>
    \/ r \in {"GeneratorExit", "Error"} /\ Unwind(r)

DoYieldFrom ==
    /\ next.do = "result" /\ At("body") /\ Top.from \in Gen
    /\ YieldFromGets(next.is)

\* __next__() or send() of a user-defined iterator returns or raises.
IteratorReturns ==
    /\ next = Run /\ At("body") /\ Top.from \in Iter
    /\ \E r \in Exception \cup {"yield"} : YieldFromGets(r)

Stopped == next = Aborted /\ UNCHANGED vars

-----------------------------------------------------------------------------

Next ==
    \/ \E g \in Gen : \/ CallSend(g) \/ CallClose(g)
                      \/ \E exc \in Exception : CallThrow(g, exc)
    \/ ResumeGenerator \/ SendValueTooEarly \/ ResumeGeneratorWithRaise
    \/ ThrowImpl \/ ThrowMethodFound \/ ThrowMethodMissing \/ ThrowMethodRaises
    \/ ThrowYieldFromReturns \/ ThrowMethodReturns \/ CloseReturns
    \/ CallReturns \/ EnterOrLeaveTry \/ Yield \/ Return \/ RaiseInBody
    \/ \E y \in Gen \cup Iter : YieldFrom(y)
    \/ DoYieldFrom \/ IteratorReturns \/ Stopped

Spec == Init /\ [][Next]_vars

-----------------------------------------------------------------------------
(* Properties *)

\* Whose code or delegated throw() an activation is.
ActiveIn(activations, g) ==
    {i \in DOMAIN activations :
        activations[i].gen = g /\ activations[i].at \in {"body", "throw"}}

\* A generator is marked as running exactly while its body or a throw() that it
\* delegates is active, and no generator is ever entered twice.
RunningMeansActive ==
    \A g \in Gen : /\ Cardinality(ActiveIn(stack, g)) <= 1
                   /\ running[g] <=> ActiveIn(stack, g) # {}

\* The exception state that is the thread's below activation n of a stack: that
\* of the innermost generator whose code is active there, or the thread's own.
StateBelow(activations, n, state) ==
    \/ state = Base /\ \A j \in 1..(n - 1) : activations[j].at # "body"
    \/ \E i \in 1..(n - 1) : /\ activations[i].at = "body" /\ activations[i].gen = state
                             /\ \A j \in (i + 1)..(n - 1) : activations[j].at # "body"

Bodies == {i \in DOMAIN stack : stack[i].at = "body"}

\* The chain of exception states from the thread's current one on is that of
\* the active generators, in their order, and that of no other: what except:
\* and sys.exc_info() see is never the state of a suspended generator.
CaughtStatesFollowStack ==
    /\ StateBelow(stack, Len(stack) + 1, caught)
    /\ \A i \in Bodies : StateBelow(stack, i, prev[stack[i].gen])
    /\ \A g \in Gen : prev[g] # None => \E i \in Bodies : stack[i].gen = g

\* close() is about to swallow the exception of throw() and to return None.
ClosesQuietly ==
    next.do = "result" /\ At("close") /\ next.is \in {"GeneratorExit", "StopIteration"}

\* close() returns without an exception only when the generator is finished,
\* whatever generators and iterators the exception was delegated through, but in
\* one case: throw() was looked up in the subiterator of the generator itself and
\* the lookup raised the exception that close() takes for the generator's own.
ClosedIsFinished == ClosesQuietly => pc[Top.gen] = "finished" \/ next.lookup

\* Without that case it is false of the code: closeImpl() swallows a GeneratorExit
\* or StopIteration of the lookup, and the generator stays suspended.
ClosedIsAlwaysFinished == ClosesQuietly => pc[Top.gen] = "finished"

\* Who is called when a result is awaited: code that runs awaits none.
Awaits(a) == a.at = "close" \/ (a.at \in {"body", "throw"} /\ a.from \in Gen)
Awaited(a) == IF a.at = "close" THEN a.gen ELSE a.from

\* An activation that awaits a result is below an activation of the generator
\* awaited, or is on top and that generator is called or has answered.
AwaitedIsAbove ==
    \A i \in 1..(Len(stack) - 1) : Awaits(stack[i]) =>
        stack[i + 1].gen = Awaited(stack[i]) /\ stack[i + 1].at # "close"

AwaitedIsCalled ==
    stack # <<>> /\ Awaits(Top) =>
        /\ next.do # "run"
        /\ next.do \in {"send", "throw", "raise"} => next.gen = Awaited(Top)

\* While throw is looked up in the subiterator of a generator, that generator
\* can only be entered above the lookup.
LookupBelowActivations ==
    \A i, j \in DOMAIN stack :
        /\ stack[i].at = "lookup"
        /\ stack[j].at \in {"body", "throw"} /\ stack[j].gen = stack[i].gen
        => i < j

\* Activations and calls are well formed.
Frames ==
    [at : {"body"}, gen : Gen, from : Gen \cup Iter \cup {None}, inTry : BOOLEAN]
        \cup [at : {"lookup"}, gen : Gen, from : Iter, exc : Exception]
        \cup [at : {"throw"}, gen : Gen, from : Gen \cup Iter]
        \cup [at : {"close"}, gen : Gen, from : {None}]
Steps ==
    [do : {"run", "abort"}] \cup [do : {"send"}, gen : Gen]
        \cup [do : {"throw", "raise"}, gen : Gen, exc : Exception]
        \cup [do : {"result"}, is : Exception \cup {"yield"}, lookup : BOOLEAN]

TypeOK ==
    /\ pc \in [Gen -> {"start", "yield", "from", "finished"}]
    /\ sub \in [Gen -> Gen \cup Iter \cup {None}]
    /\ try \in [Gen -> BOOLEAN]
    /\ running \in [Gen -> BOOLEAN]
    /\ prev \in [Gen -> Gen \cup {Base, None}]
    /\ caught \in Gen \cup {Base}
    /\ stack \in Seq(Frames)
    /\ next \in Steps

\* The conjunction of what every step relies on and keeps.
Inductive ==
    /\ TypeOK
    /\ RunningMeansActive
    /\ LookupBelowActivations
    /\ CaughtStatesFollowStack
    /\ AwaitedIsAbove
    /\ AwaitedIsCalled
    /\ ClosedIsFinished

\* The DCHECK of throwYieldFrom(): the subiterator whose throw() raised is still
\* the one that the generator delegates to.
SubiteratorStays == next # Aborted

\* A finished generator never runs again.
FinishedForGood ==
    \A i \in DOMAIN stack : stack[i].at = "body" => pc[stack[i].gen] # "finished"
=============================================================================
