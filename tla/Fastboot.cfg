SPECIFICATION Spec
CONSTANTS
  BlockUnits = 2
  Start <- MCStart
  Size <- MCSize
  LocalBuffer = 1
  SlotParts <- MCSlotParts
  ImageUnits <- MCImageUnits
  BctSlot = 4
  BootBlock = 8
  PlatformSpec = "here"
  ProductionMode = 1
  Images <- MCImages
  MaxDownload = 8
  MaxCmds = 3
  MaxFaults = 1
CHECK_DEADLOCK FALSE
INVARIANTS
  TypeOK
  OkayMeansDone
  
  UpdateOrdered
  
PROPERTIES
  CommandAnswered
