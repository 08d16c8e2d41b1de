SPECIFICATION Spec
CONSTANTS
  plain = plain
  full = full
  oversized = oversized
  Deployer = {boot, ble, wifi}
  Boot = boot
  Program <- MCProgram
  HasConstants <- MCHasConsts
  Oversized <- MCOversized
  Pipelines <- MCPipelines
  MaxPipelines = 2
  Task = {t1, t2}
  None = None
  Garbage = Garbage
  Overlap = FALSE
  Faults <- MCFaultFree
INVARIANTS Isolated SuccessLasts
PROPERTY ImplementsSlot
