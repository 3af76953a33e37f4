SPECIFICATION Spec
CONSTANTS
  Files = {f}
  Surfs = {s}
  Levels <- MCLevels
  LodLimit = 1
  Jobs = {a, b}
  Viewer = viewer
  MaxLoads = 3
  MaxFaults = 1
  None = None
CHECK_DEADLOCK FALSE
INVARIANTS AbortIsPrivate LeashHolds NoForeignAnswer
PROPERTIES EveryLoadEnds
