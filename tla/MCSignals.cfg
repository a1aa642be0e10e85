SPECIFICATION FairSpec
CONSTANTS
  None = None
  kNumSignals = 3
  Installable = {"function", "default"}
  Kinds = {"profile"}
  MaxDepth = 2
INVARIANTS
  Inductive
  NoSignalForgotten
  PendingInterrupts
PROPERTIES
  OnlyCallablesCalled
  SignalHandled
