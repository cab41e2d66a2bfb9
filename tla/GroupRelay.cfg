CONSTANTS
  Member = {a, b}
  Talker = {a}
  a = a
  b = b
  MaxTexts = 3
  MaxSkip = 1
  MaxSkippedStore = 1
  LastIteration = 9
  OutCap = 1
  LinkCap = 2
SPECIFICATION Spec
INVARIANTS TypeOK OldTextsStayClosed InSenderOrder TextsAccounted
PROPERTIES KeysArrive LeaversLeaveRoster
CHECK_DEADLOCK FALSE
