SPECIFICATION SignedInFairSpec
CONSTANTS
  Person = {ann, bob}
  Conn = {k1, k2}
  Family = family
  Room = {}
  Text = {m1}
  NoConn = noConn
  Nobody = nobody
  MaxLog = 1
  LinkCap = 8
  PersistMayFail = FALSE
  Kinds = {"send"}
  MaxPosts = 1
  MaxUp = 1
  MaxQueued = 0
  MaxOut = 1
  MaxAsks = 0
  MaxBreaks = 1
PROPERTIES StayingConnectedCatchesUp AlwaysReconnects DeadLinkIsReaped
CHECK_DEADLOCK FALSE
