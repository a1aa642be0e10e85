------------------------------ MODULE Signals ------------------------------
(***************************************************************************)
(* Delivery of operating system signals to callbacks of the program        *)
(* (runtime/runtime.cpp, thread.cpp, under-signal-module.cpp).             *)
(*                                                                         *)
(* handleSignal() runs between any two instructions of the main thread. It *)
(* marks the signal as pending and lowers the stack limit, so that the next*)
(* push of a frame takes the slow path and runs the callbacks.             *)
(***************************************************************************)
EXTENDS Integers, Sequences, FiniteSets, SequencesExt

CONSTANTS
    kNumSignals,     \* signals are numbered from 1
    Installable,     \* what the program passes to signal()
    Kinds,           \* other interrupts that it asks for and takes back
    MaxDepth,        \* bound: no call when this many activations are there
    None

Signal == 1..(kNumSignals - 1)

\* kDefaultHandler and a callable; the handler of the system and handleSignal
Default == "default"
Function == "function"

\* Kinds of interrupts; Thread::kProfile stands for kReinitInterpreter too.
kSignal == "signal"

ASSUME ConstantsOK ==
    /\ kNumSignals \in Nat \ {0, 1}
    /\ Installable \subseteq {Default, Function}
    /\ kSignal \notin Kinds
    /\ MaxDepth \in Nat

VARIABLES
    pending,        \* OS::pending_signals_: the signals that arrived
    signalPending,  \* is_signal_pending_
    flags,          \* interrupt_flags_ of the main thread
    limitLowered,   \* limit_ = end_, the slow path of pushing a frame
    callbacks,      \* signal_callbacks_
    handlers,       \* what the operating system does with a signal
    stack,          \* activations, the running one last; empty in plain code
    overlooked      \* history: since the last signal the interpreter lost the
                    \* interrupt of it, in one of the two known ways

runtimeVars == <<pending, signalPending, callbacks, handlers>>
threadVars == <<flags, limitLowered>>
vars == <<runtimeVars, threadVars, stack, overlooked>>

-----------------------------------------------------------------------------
(* Activations [at, arg, val]: at is where the activation is. *)

At == {"clear_flag", "test_flags", "raise_limit", \* clearInterrupt(arg)
       "set_flag",                         \* interrupt(arg)
       "test_pending", "clear_pending",    \* handlePendingSignals
       "next_signal",                      \* its loop, arg the signal seen last
       "in_callback",                      \* the callback of signal arg is running
       "set_handler", "set_callback"}      \* signal(arg, val)

Activation(at, arg, val) == [at |-> at, arg |-> arg, val |-> val]

Top == Last(stack)
Is(at) == stack # <<>> /\ Top.at = at

\* The running activation goes on at another place, or returns.
Go(at, arg) == stack' = Append(Front(stack), Activation(at, arg, Top.val))
ReturnTop == stack' = Front(stack)

\* Python code runs in plain code and in callbacks; it may call.
InPython == stack # <<>> => Top.at = "in_callback"
MayCall == InPython /\ Len(stack) < MaxDepth

\* Mutant of Init: SIG_DFL is not recorded, the entries stay None.
InitWithoutDefaults ==
    /\ pending = [s \in Signal |-> FALSE]
    /\ signalPending = FALSE
    /\ flags = {}
    /\ limitLowered = FALSE
    /\ callbacks = [s \in Signal |-> IF s = 1 THEN Function ELSE None]
    /\ handlers = [s \in Signal |-> IF s = 1 THEN Function ELSE Default]
    /\ stack = <<>>
    /\ overlooked = FALSE

Init ==
    /\ pending = [s \in Signal |-> FALSE]
    /\ signalPending = FALSE
    /\ flags = {}
    /\ limitLowered = FALSE
    /\ callbacks = [s \in Signal |-> IF s = 1 THEN Function ELSE Default]
    /\ handlers = callbacks
    /\ stack = <<>>
    /\ overlooked = FALSE

-----------------------------------------------------------------------------
(* handleSignal, whatever the main thread is doing *)

\* Mutant of SignalArrives: interrupt() does not lower a limit whose flag is set.
SignalArrivesFlagOnly(s) ==
    /\ handlers[s] = Function
    /\ pending' = [pending EXCEPT ![s] = TRUE]
    /\ signalPending' = TRUE
    /\ flags' = flags \cup {kSignal}
    /\ limitLowered' = (limitLowered \/ flags = {})
    /\ overlooked' = FALSE
    /\ UNCHANGED <<callbacks, handlers, stack>>

SignalArrives(s) ==
    /\ handlers[s] = Function
    /\ pending' = [pending EXCEPT ![s] = TRUE]
    /\ signalPending' = TRUE
    /\ flags' = flags \cup {kSignal}
    /\ limitLowered' = TRUE
    /\ overlooked' = FALSE
    /\ UNCHANGED <<callbacks, handlers, stack>>

-----------------------------------------------------------------------------
(* The interrupt flags of the main thread. They are plain memory: both      *)
(* functions read them, then write them, and the handler may run between.   *)

ClearInterrupt(kind, below) == stack' = Append(below, Activation("clear_flag", kind, flags))

\* What the write drops is lost, but for a clear of kSignal: who does that looks
\* at is_signal_pending_ next.
Dropped(written) == kSignal \in flags \ written /\ Top.arg # kSignal

ClearFlag ==
    LET written == Top.val \ {Top.arg}
    IN  /\ Is("clear_flag")
        /\ flags' = written
        /\ overlooked' = (overlooked \/ Dropped(written))
        /\ Go("test_flags", Top.arg)
        /\ UNCHANGED <<runtimeVars, limitLowered>>

TestFlags ==
    /\ Is("test_flags")
    /\ IF flags = {} THEN Go("raise_limit", Top.arg) ELSE ReturnTop
    /\ UNCHANGED <<runtimeVars, threadVars, overlooked>>

RaiseLimit ==
    /\ Is("raise_limit")
    /\ limitLowered' = FALSE
    /\ overlooked' = (overlooked \/ (kSignal \in flags /\ Top.arg # kSignal))
    /\ ReturnTop
    /\ UNCHANGED <<runtimeVars, flags>>

\* enableProfiling() and disableProfiling()
Interrupt(kind) ==
    /\ MayCall
    /\ stack' = Append(stack, Activation("set_flag", kind, flags))
    /\ UNCHANGED <<runtimeVars, threadVars, overlooked>>

SetFlag ==
    LET written == Top.val \cup {Top.arg}
    IN  /\ Is("set_flag")
        /\ flags' = written
        /\ limitLowered' = TRUE
        /\ overlooked' = (overlooked \/ Dropped(written))
        /\ ReturnTop
        /\ UNCHANGED runtimeVars

TakeBackInterrupt(kind) ==
    /\ MayCall
    /\ ClearInterrupt(kind, stack)
    /\ UNCHANGED <<runtimeVars, threadVars, overlooked>>

-----------------------------------------------------------------------------
(* handlePendingSignals *)

\* Mutant of HandlePendingSignals: clearInterrupt(kSignal) comes after the loop.
HandlePendingSignalsClearsLast(below) ==
    stack' = below \o <<Activation("clear_flag", kSignal, flags),
                        Activation("test_pending", 0, None)>>

\* It begins with clearInterrupt(kSignal).
HandlePendingSignals(below) ==
    ClearInterrupt(kSignal, Append(below, Activation("test_pending", 0, None)))

\* The push of a frame with a lowered limit, handleInterrupt.
PushFrame ==
    /\ MayCall /\ limitLowered /\ kSignal \in flags
    /\ HandlePendingSignals(stack)
    /\ UNCHANGED <<runtimeVars, threadVars, overlooked>>

\* PyErr_CheckSignals and the blocking calls that end with EINTR
CheckSignals ==
    /\ MayCall
    /\ HandlePendingSignals(stack)
    /\ UNCHANGED <<runtimeVars, threadVars, overlooked>>

TestPending ==
    /\ Is("test_pending")
    /\ IF signalPending THEN Go("clear_pending", 0) ELSE ReturnTop
    /\ UNCHANGED <<runtimeVars, threadVars, overlooked>>

ClearPending ==
    /\ Is("clear_pending")
    /\ signalPending' = FALSE
    /\ overlooked' = FALSE
    /\ Go("next_signal", 0)
    /\ UNCHANGED <<pending, callbacks, handlers, threadVars>>

\* Mutant of NextSignal: is_signal_pending_ is cleared after the loop.
NextSignalClearsAtEnd ==
    LET later == {s \in Signal : s > Top.arg /\ pending[s]}
    IN  /\ Is("next_signal")
        /\ \/ /\ later = {} /\ ReturnTop
              /\ signalPending' = FALSE /\ UNCHANGED pending
           \/ \E s \in later :
                /\ \A other \in later : s <= other
                /\ Go("in_callback", s)
                /\ pending' = [pending EXCEPT ![s] = FALSE]
                /\ UNCHANGED signalPending
        /\ UNCHANGED <<callbacks, handlers, threadVars, overlooked>>

\* The loop passes over the signals that are not pending; the callback of the
\* next one that is starts.
NextSignal ==
    LET later == {s \in Signal : s > Top.arg /\ pending[s]}
    IN  /\ Is("next_signal")
        /\ \/ later = {} /\ ReturnTop /\ UNCHANGED pending
           \/ \E s \in later :
                /\ \A other \in later : s <= other
                /\ Go("in_callback", s)
                /\ pending' = [pending EXCEPT ![s] = FALSE]
        /\ UNCHANGED <<signalPending, callbacks, handlers, threadVars, overlooked>>

CallbackReturns ==
    /\ Is("in_callback")
    /\ Go("next_signal", Top.arg)
    /\ UNCHANGED <<runtimeVars, threadVars, overlooked>>

\* The exception leaves handlePendingSignals and the signal() that called it.
CallbackRaises ==
    /\ Is("in_callback")
    /\ signalPending' = TRUE
    /\ overlooked' = TRUE
    /\ stack' = IF Len(stack) > 1 /\ stack[Len(stack) - 1].at = "set_handler"
                THEN Front(Front(stack)) ELSE Front(stack)
    /\ UNCHANGED <<pending, callbacks, handlers, threadVars>>

-----------------------------------------------------------------------------
(* signal(s, cb) handles what is pending, then changes the handler of the    *)
(* system, then the callback.                                                *)

CallSignal(s, cb) ==
    /\ MayCall
    /\ HandlePendingSignals(Append(stack, Activation("set_handler", s, cb)))
    /\ UNCHANGED <<runtimeVars, threadVars, overlooked>>

\* Mutant of SetHandler: what is pending is handled between the two changes.
SetHandlerThenHandle ==
    /\ Is("set_handler")
    /\ handlers' = [handlers EXCEPT ![Top.arg] = Top.val]
    /\ HandlePendingSignals(Append(Front(stack), [Top EXCEPT !.at = "set_callback"]))
    /\ UNCHANGED <<pending, signalPending, callbacks, threadVars, overlooked>>

SetHandler ==
    /\ Is("set_handler")
    /\ handlers' = [handlers EXCEPT ![Top.arg] = Top.val]
    /\ Go("set_callback", Top.arg)
    /\ UNCHANGED <<pending, signalPending, callbacks, threadVars, overlooked>>

SetCallback ==
    /\ Is("set_callback")
    /\ callbacks' = [callbacks EXCEPT ![Top.arg] = Top.val]
    /\ ReturnTop
    /\ UNCHANGED <<pending, signalPending, handlers, threadVars, overlooked>>

Step ==
    \/ ClearFlag \/ TestFlags \/ RaiseLimit \/ SetFlag
    \/ TestPending \/ ClearPending \/ NextSignal \/ SetHandler \/ SetCallback

CallbackEnds == CallbackReturns \/ CallbackRaises

Next ==
    \/ \E s \in Signal : SignalArrives(s)
    \/ Step
    \/ CallbackEnds
    \/ PushFrame
    \/ CheckSignals
    \/ \E s \in Signal, cb \in Installable : CallSignal(s, cb)
    \/ \E kind \in Kinds : Interrupt(kind) \/ TakeBackInterrupt(kind)

Spec == Init /\ [][Next]_vars

\* The main thread runs; each callback ends, and the code below it pushes frames,
\* however often it calls something else in between.
Fairness ==
    /\ WF_vars(Step)
    /\ \A depth \in 1..(MaxDepth + 2) : SF_vars(Len(stack) = depth /\ CallbackEnds)
    /\ \A depth \in 0..(MaxDepth - 1) : SF_vars(Len(stack) = depth /\ PushFrame)

FairSpec == Spec /\ Fairness

-----------------------------------------------------------------------------
(* Properties *)

\* What the activations of each function hold.
Word == Kinds \cup {kSignal}
FlagActivations ==
    [at : {"clear_flag", "test_flags", "raise_limit"}, arg : Word, val : SUBSET Word]
        \cup [at : {"set_flag"}, arg : Kinds, val : SUBSET Word]
HandlingActivations ==
    [at : {"test_pending", "clear_pending", "next_signal", "in_callback"},
     arg : 0..(kNumSignals - 1), val : {None}]
SettingActivations == [at : {"set_handler", "set_callback"}, arg : Signal, val : Installable]
Activations == FlagActivations \cup HandlingActivations \cup SettingActivations

\* Flags, callbacks and activations are well formed.
TypeOK ==
    /\ pending \in [Signal -> BOOLEAN]
    /\ signalPending \in BOOLEAN /\ limitLowered \in BOOLEAN
    /\ flags \subseteq Word
    /\ callbacks \in [Signal -> {Default, Function}]
    /\ handlers \in [Signal -> {Default, Function}]
    /\ overlooked \in BOOLEAN
    /\ stack \in Seq(Activations)

\* A signal that arrived is not forgotten: is_signal_pending_ tells of it, or a
\* loop of handlePendingSignals has not passed it yet.
NoSignalForgotten ==
    \A s \in Signal : pending[s] =>
        \/ signalPending
        \/ \E k \in DOMAIN stack :
              stack[k].at \in {"next_signal", "in_callback"} /\ stack[k].arg < s

\* While is_signal_pending_ is set and Python code runs, the next frame is pushed
\* the slow way; the exceptions are the interrupts that are lost when a callback
\* raises, and when the flag of another interrupt is changed.
PendingInterrupts ==
    signalPending /\ InPython => (kSignal \in flags /\ limitLowered) \/ overlooked

\* The handler of the system and the callback of a signal differ only between
\* the two changes of signal(), and nothing is called between them.
SetCallbackOnTop == \A k \in DOMAIN stack : stack[k].at = "set_callback" => k = Len(stack)

TablesAgree ==
    handlers = IF Is("set_callback") THEN [callbacks EXCEPT ![Top.arg] = Top.val]
               ELSE callbacks

\* Who clears kSignal looks at is_signal_pending_ next.
Clearing == {"clear_flag", "test_flags", "raise_limit"}
ClearingLooks ==
    \A k \in DOMAIN stack :
        stack[k].at \in Clearing /\ stack[k].arg = kSignal =>
            k > 1 /\ stack[k - 1].at = "test_pending"

\* Wherever the thread is, a pending signal lowers the limit, or the thread is
\* about to look for it.
AboutToLook ==
    /\ stack # <<>>
    /\ \/ Top.at \in {"test_pending", "clear_pending"}
       \/ Top.at \in Clearing /\ Top.arg = kSignal

InterruptKept ==
    signalPending => AboutToLook \/ (kSignal \in flags /\ limitLowered) \/ overlooked

\* The conjunction of what every step relies on and keeps.
Inductive ==
    /\ TypeOK
    /\ SetCallbackOnTop
    /\ TablesAgree
    /\ ClearingLooks
    /\ NoSignalForgotten
    /\ InterruptKept

\* A callback of a signal that handlePendingSignals calls is callable, unless the
\* program reset the signal after it arrived: the handler of the system and the
\* callback change in two steps, and no signal is handled between them.
OnlyCallablesCalled ==
    [][ \A s \in Signal :
            NextSignal /\ pending[s] /\ ~pending'[s] =>
                callbacks[s] = Function \/ handlers[s] = Default ]_vars

\* A signal that arrived gets its callback called, with the same exceptions.
SignalHandled == \A s \in Signal : pending[s] ~> ~pending[s] \/ overlooked
=============================================================================
