SPECIFICATION Spec
CONSTANTS
  Entry = {"p0", "p1", "a"}
  Assembly = {"a"}
  File <- MCFile
  Cid = {"c1", "c2"}
  Package <- MCPackage
  Chord <- MCChord
  Zooms <- MCZooms
  Broken = {}
  MaxEvents = 4
  MaxFaults = 1
  None = None
INVARIANTS
  NeverTakenForFiner
  PickingFollowsComposition
PROPERTIES
  ShowsSelection
  LodSettles
CHECK_DEADLOCK FALSE
