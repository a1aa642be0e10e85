SPECIFICATION Spec
CONSTANTS
  None = None
  o1 = o1
  c1 = c1
  l1 = l1
  h1 = h1
  h2 = h2
  o2 = o2
  w1 = w1
  w2 = w2
  x1 = x1
  x2 = x2
  Obj = {x1, o2, w1}
  Code = {}
  WeakRef = {w1}
  Proxy = {x1}
  Layouts = {}
  Instances = {}
  TheLayout = None
  LayoutOf <- MCLayoutOf
  Wrapped = {}
  Together <- Everything
  CanImmortalize = FALSE
  MaxRefs <- MCMaxRefs
  MaxRefcnt = 2
  MaxDepth = 1
INVARIANTS
  LastReferenceIsTheRuntimes
