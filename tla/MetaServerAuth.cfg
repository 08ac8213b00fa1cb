\* Two clients, two requests each, auth required; no symmetry under liveness.
CONSTANTS
  c1 = c1  c2 = c2  c3 = c3  k1 = k1  v1 = v1
  Conns <- MCConns2
  Keys <- MCKeys
  Values <- MCValues
  Versions = {1}
  NoEntry = NoEntry
  NoConn = NoConn
  NoMsg = NoMsg
  NoKey = NoKey
  NoValue = NoValue
  AuthRequired = TRUE
  MaxReqs = 2

SPECIFICATION Spec
CHECK_DEADLOCK FALSE
INVARIANT TypeOK
INVARIANT RepliesMatchRequests
INVARIANT BroadcastsAreOthersPuts
PROPERTY BroadcastVisibility
