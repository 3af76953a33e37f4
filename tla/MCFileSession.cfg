SPECIFICATION Spec
CONSTANTS
  Files = {a, b}
  None = None
  MaxVersion = 2
  MaxEdits = 2
  MaxEvents = 6
CHECK_DEADLOCK FALSE
INVARIANTS NoMixing  UrlIsSelection
PROPERTIES EndsSaved
