SPECIFICATION SyncSpec
CONSTANTS
  a = a
  b = b
  NoMsg = NoMsg
  Msg <- MCMsg
  Senders <- OneSends
  NFrames = 2
  CountMod = 4
  MaxResets = 2
  OverlapResets = FALSE
SYMMETRY MsgSymmetry
INVARIANTS
  TypeOK
  NoFrameRace
  CheckStable
  NeverOverFull
  NoLostWakeup
PROPERTIES
  ClearedUnused
  ImplementsFifo
