SPECIFICATION Spec
CONSTANTS
  Alice = alice
  Bob = bob
  NoKey = noKey
  MaxSkip = 2
  MaxSkipStore = 3
  ChainEnd = 3
  MaxSent = 6
INVARIANTS TypeOK NoAddressTwice OpenedAtMostOnce NoReuse GapsAreBridged SpentKeysAreGone
CHECK_DEADLOCK FALSE
