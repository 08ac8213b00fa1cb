\* Two putters and an observer, no auth.
CONSTANTS
  c1 = c1  c2 = c2  c3 = c3  k1 = k1  v1 = v1
  Conns <- MCConns
  Keys <- MCKeys
  Values <- MCValues
  Versions = {1, 2}
  NoEntry = NoEntry
  NoConn = NoConn
  NoMsg = NoMsg
  NoKey = NoKey
  NoValue = NoValue
  AuthRequired = FALSE
  MaxReqs = 1
SYMMETRY MCSymmetry
SPECIFICATION Spec
CHECK_DEADLOCK FALSE
INVARIANT BroadcastOrder
