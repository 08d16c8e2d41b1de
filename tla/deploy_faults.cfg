SPECIFICATION FairSpec
CONSTANTS
  plain = plain
  full = full
  oversized = oversized
  Deployer = {boot, ble}
  Boot = boot
  Program <- MCProgram
  HasConstants <- MCHasConsts
  Oversized <- MCOversized
  Pipelines <- MCPipelines
  MaxPipelines = 2
  Task = {t1}
  None = None
  Garbage = Garbage
  Overlap = FALSE
  Faults <- MCFaults
INVARIANTS LoadWhileStopped
PROPERTIES DeploymentEnds
