SPECIFICATION Spec
CONSTANTS
  None = None
  k1 = k1
  k1e = k1e
  k2 = k2
  k3 = k3
  Key = {k1, k1e, k2, k3}
  Class <- MCClass
  Hash <- MCHash
  Value = {v1, v2}
  Nested = {"get"}
  MaxCalls = 2
  MaxIndices = 8
  kInitialDictIndicesLength = 4
  kPerturbShifts = 2
SYMMETRY MCSymmetry
INVARIANTS
  WellFormed
PROPERTIES
  ImplementsOrderedDict
