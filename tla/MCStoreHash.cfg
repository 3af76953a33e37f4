CONSTANTS
    b1 = b1
    b2 = b2
    Builders = {b1, b2}
    Kinds = {"step"}
    MaxEdits = 1
    MaxKills = 0
    EditedUnhashed = {"script", "helper", "lazy"}
SPECIFICATION StoreSpec
INVARIANTS
    GateTellsTruth
CHECK_DEADLOCK FALSE
