\* Two mounts, one file; requests may be lost or time out after the server applied them, and broadcasts may be dropped.
CONSTANTS
  m1 = m1  m2 = m2  k1 = k1  a1 = a1  a2 = a2  x1 = x1
  e = e  d1 = d1  d2 = d2
  Mounts <- MCMounts
  Keys <- MCKeys
  Attrs <- MCAttrs
  XVals <- MCXVals
  Data <- MCData
  Empty = e
  NoX = NoX
  NoKey = NoKey
  Unset = Unset
  NoEntry = NoEntry
  MaxVersion = 3
  Faults = {"lost", "bcast", "timeout"}
SYMMETRY MCSymmetry
SPECIFICATION Spec
INVARIANT TypeOK
INVARIANT VersionNotAhead
INVARIANT CleanNodeMatchesStore
PROPERTY StoreRefinesRegister
