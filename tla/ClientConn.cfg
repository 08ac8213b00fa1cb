\* Sender and reader, up to two disruptions, three connection identities (reused once garbage); no symmetry under liveness.
CONSTANTS
  s = s  r = r  c1 = c1  c2 = c2  c3 = c3  c4 = c4  c5 = c5  c6 = c6
  Sender = s
  Reader = r
  ConnIds <- MCConnIds3
  NoConn = NoConn
  MaxDisruptions = 2
SPECIFICATION Spec
INVARIANT TypeOK
INVARIANT NoLeakedConn
PROPERTY BrokenEventuallyClosed
