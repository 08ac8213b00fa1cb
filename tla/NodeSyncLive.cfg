\* Liveness of invalidation: two mounts, one file, two contents, no
\* symmetry; lost requests and blob failures, reliable broadcasts.
CONSTANTS
  m1 = m1  m2 = m2  k1 = k1  a1 = a1  a2 = a2  x1 = x1
  e = e  d1 = d1  d2 = d2
  Mounts <- MCMounts
  Keys <- MCKeys
  Attrs <- MCAttrs
  XVals <- MCXVals
  Data <- MCData2
  Empty = e
  NoX = NoX
  NoKey = NoKey
  Unset = Unset
  NoEntry = NoEntry
  MaxVersion = 3
  Faults = {"blob", "lost"}
SPECIFICATION Spec
PROPERTY EventualInvalidation
