SPECIFICATION Spec
CONSTANTS
  Person = {ann}
  Conn = {k1}
  Family = family
  Room = {r1}
  Text = {hi}
  NoConn = noConn
  Nobody = nobody
  MaxLog = 1
  LinkCap = 1
  PersistMayFail = FALSE
  Kinds = {"send", "hello", "ack", "open_dm", "create_room"}
  MaxPosts = 2
  MaxUp = 1
  MaxQueued = 0
PROPERTIES AckedStaysAcked HistoryImmutable
CHECK_DEADLOCK FALSE
