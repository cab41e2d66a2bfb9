CONSTANTS
  Host = host
  Dialer = {d1, d2, mute}
  Silent = {mute}
  Word = {w1, w2}
  Anyone = anyone
  Nobody = nobody
  MaxDials = 2
  OutCap = 1
  FrameCap = 1
  MaxFrames = 1
SPECIFICATION FairSpec
INVARIANTS TypeOK Authenticated
PROPERTIES ListenerMovesOn AgreedPeersTalk EndsTogether
CHECK_DEADLOCK FALSE
