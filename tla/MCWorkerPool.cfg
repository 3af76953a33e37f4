CONSTANTS
    Workers = {w1, w2, w3, w4, w5}
    Models = {gear}
    NoModel = none
    Requests = {r1, r2, r3}
    Spares = 1
    RecycleAfter = 2
    MaxMishaps = 1
SPECIFICATION PoolSpec
INVARIANTS
    NoWorkerShared
    JobKeepsItsWorker
    SparesWithinSize
CHECK_DEADLOCK FALSE
PROPERTIES
    ReserveRefills
