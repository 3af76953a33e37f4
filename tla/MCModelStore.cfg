CONSTANTS
    b1 = b1
    b2 = b2
    Builders = {b1, b2}
    Kinds = {"step", "mesh", "drawing"}
    MaxEdits = 1
    MaxKills = 1
    EditedUnhashed = {"lazy"}
SPECIFICATION StoreSpec
INVARIANTS
    RecordHasTree
    GateTellsTruth
PROPERTIES
    StaleNeverReplacesCurrent
    SettlesCurrent
CHECK_DEADLOCK FALSE
