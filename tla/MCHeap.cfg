SPECIFICATION Spec
CONSTANTS
  None = None
  o1 = o1
  c1 = c1
  l1 = l1
  h1 = h1
  h2 = h2
  o2 = o2
  w1 = w1
  w2 = w2
  x1 = x1
  x2 = x2
  Obj = {o1, c1, l1, h1, h2, o2, w1, w2}
  Code = {c1}
  WeakRef = {w1, w2}
  Proxy = {}
  Layouts = {l1}
  Instances = {o1}
  TheLayout = l1
  LayoutOf <- MCLayoutOf
  Wrapped = {h1, h2}
  Together <- HeapOrHandlesOrWeakRefs
  CanImmortalize = TRUE
  MaxRefs <- MCMaxRefs
  MaxRefcnt = 2
  MaxDepth = 2
SYMMETRY MCSymmetry
INVARIANTS
  TypeOK
  NoDangling
  CollectorInvariant
  LayoutKept
  NoStalePointer
  HandlesOK
PROPERTIES
  WeakRefClearedOnlyIfDead
  BorrowedHandleKept
  GarbageReclaimed
