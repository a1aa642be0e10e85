SPECIFICATION Spec
CONSTANTS
  None = None
  A = A
  B = B
  P = P
  T = T
  U = U
  C = C
  f = f
  g = g
  m = m
  p = p
  item = item
  add = add
  radd = radd
  iadd = iadd
  lt = lt
  gt = gt
  a = a
  b = b
  getter = getter
  SetAttr = SetAttr
  Type = {P, T, U, C}
  Mro <- DiamondMro
  Name = {m, SetAttr}
  Fun = {f}
  Method = {a, b}
  Property = {getter}
  Programs <- DiamondCalls
  MaxCalls = 0
  UpdatesInCalls = FALSE
  kIcEntriesPerPolyCache = 2
INVARIANTS
  CachesCoherent
