SPECIFICATION Spec
CONSTANTS
  None = None
  A = A
  B = B
  P = P
  T = T
  U = U
  C = C
  f = f
  g = g
  m = m
  p = p
  item = item
  add = add
  radd = radd
  iadd = iadd
  lt = lt
  gt = gt
  a = a
  b = b
  getter = getter
  SetAttr = SetAttr
  Type = {A, B}
  Mro <- ChainMro
  Name = {add, radd, iadd, lt, gt, p, item, SetAttr}
  Fun = {f, g}
  Method = {a, b}
  Property = {getter}
  Programs <- ChainPrograms
  MaxCalls = 1
  UpdatesInCalls = FALSE
  kIcEntriesPerPolyCache = 2
INVARIANTS
  WellFormed
  CachesCoherent
  DependentsTracked
