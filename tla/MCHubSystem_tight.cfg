SPECIFICATION SignedInSpec
CONSTANTS
  Person = {ann, bob}
  Conn = {k1, k2}
  Family = family
  Room = {r1}
  Text = {m1}
  NoConn = noConn
  Nobody = nobody
  MaxLog = 1
  LinkCap = 1
  PersistMayFail = FALSE
  Kinds = {"send", "create_room", "open_dm"}
  MaxPosts = 1
  MaxUp = 1
  MaxQueued = 0
  MaxOut = 1
  MaxAsks = 1
  MaxBreaks = 0
SYMMETRY Symmetry
INVARIANTS OnlyMembersReceive
CHECK_DEADLOCK FALSE
