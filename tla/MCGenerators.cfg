SPECIFICATION Spec
CONSTANTS
  None = None
  Base = Base
  Gen = {g1, c1}
  Coroutine = {c1}
  Iter = {it1}
  MaxDepth = 4
INVARIANTS
  RunningMeansActive
  CaughtStatesFollowStack
  ClosedIsFinished
