SPECIFICATION Spec
CONSTANTS
  Person = {ann, bob}
  Conn = {k1, k2}
  Family = family
  Room = {}
  Text = {hi}
  NoConn = noConn
  Nobody = nobody
  MaxLog = 1
  LinkCap = 1
  PersistMayFail = FALSE
  Kinds = {"send"}
  MaxPosts = 2
  MaxUp = 1
  MaxQueued = 0
SYMMETRY Symmetry
INVARIANTS TypeOK LogContiguous PushesAreLive AtMostOneCopy ToldIsDurable
CHECK_DEADLOCK FALSE
