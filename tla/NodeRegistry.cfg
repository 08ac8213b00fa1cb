\* Two names, two file keys; this mount creates, unlinks and renames; other mounts create, update, unlink and rename files.
CONSTANTS
  n1 = n1  n2 = n2  r0 = r0  k1 = k1  k2 = k2  k3 = k3
  Names <- MCNames
  RootKey = r0
  FileKeys <- MCFileKeys2
  NoKey = NoKey
  NoObj = NoObj
  MaxObjs = 9
  ChanCap = 2
  MaxVersion = 2
  RemoteOps = {"create", "update", "unlink", "rename"}
SPECIFICATION Spec
INVARIANT TypeOK
INVARIANT ListingMatchesStore
PROPERTY RegisteredEventuallyFresh
