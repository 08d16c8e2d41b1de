SPECIFICATION FairSpec
CONSTANTS
  fw1 = fw1
  fw2 = fw2
  bytecode = bytecode
  Torn = Torn
  None = None
  Firmware <- MCFirmware
  Other <- MCOther
  Releases <- MCGoodReleases
  Slices = 2
  MaxPublish = 1
  MaxFaults = 0
  MaxResets = 0
PROPERTY EveryUpdateApplied
