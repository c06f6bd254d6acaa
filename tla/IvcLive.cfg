SPECIFICATION FairSpec
CONSTANTS
  a = a
  b = b
  NoMsg = NoMsg
  Msg <- MCOneMsg
  Senders <- OneSends
  NFrames = 1
  CountMod = 2
  MaxResets = 2
  OverlapResets = FALSE
PROPERTIES
  ResetCompletes
  HeadRead
