SPECIFICATION Spec
CONSTANTS
  None = None
  M1 = M1
  M2 = M2
  f = f
  g = g
  h = h
  x = x
  y = y
  z = z
  UserModule = {M1, M2}
  Builtins = Builtins
  Name = {x}
  Fun = {f, g, h}
  ModuleOf <- MCModuleOf
  NameIndex <- MCNameIndex
  Loads <- ReadersLoads
  Stores <- WriterStores
  AttrName <- ReaderAttr
  Value = {v1, v2}
  InitialBuiltin = v1
  Droppable = {f}
  RemovesUnbound = FALSE
  kByteValues = 256
INVARIANTS
  WellFormed
  GlobalsCoherent
  CachedOpcodesFilled
  ModuleAttributesCoherent
