SPECIFICATION FairSpec
CONSTANTS
  Configs <- MCConfigs
  Wrap = 26
  MaxRun = 2
  MaxDelay = 1
  Readings = {0, 1, 2, 3, 4, 5, 6}
INVARIANT TriggersReady
PROPERTIES FiresOnChange OnTime
