SPECIFICATION SignedInSpec
CONSTANTS
  Person = {ann, bob}
  Conn = {k1, k2, k3}
  Family = family
  Room = {}
  Text = {m1}
  NoConn = noConn
  Nobody = nobody
  MaxLog = 2
  LinkCap = 8
  PersistMayFail = FALSE
  Kinds = {"send"}
  MaxPosts = 0
  MaxUp = 1
  MaxQueued = 0
  MaxOut = 1
  MaxAsks = 0
  MaxBreaks = 1
SYMMETRY Symmetry
INVARIANTS ConnectedIsOnline
CHECK_DEADLOCK FALSE
