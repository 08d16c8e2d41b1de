SPECIFICATION FairSpec
CONSTANTS
  fw1 = fw1
  fw2 = fw2
  bytecode = bytecode
  Torn = Torn
  None = None
  Firmware <- MCFirmware
  Other <- MCOther
  Releases <- MCReleases
  Slices = 2
  MaxPublish = 2
  MaxFaults = 1
  MaxResets = 2
INVARIANT SlotsSafe
PROPERTIES Verified Updates
