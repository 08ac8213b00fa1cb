\* Two names, three file keys; other mounts also unlink and rename files.
CONSTANTS
  n1 = n1  n2 = n2  r0 = r0  k1 = k1  k2 = k2  k3 = k3
  Names <- MCNames
  RootKey = r0
  FileKeys <- MCFileKeys
  NoKey = NoKey
  NoObj = NoObj
  MaxObjs = 9
  ChanCap = 2
  MaxVersion = 2
  RemoteOps = {"create", "update", "unlink", "rename"}
SPECIFICATION Spec
PROPERTY ChildEventuallyFresh
