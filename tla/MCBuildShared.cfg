CONSTANTS
    top = top
    sub = sub
    leaf = leaf
    loop = loop
    left = left
    right = right
    Models = {left, right, leaf}
    Children <- SharedChildren
    HelperFrom <- LeafHelper
    Roots = {left, right}
    Limit = 2
    MaxRequests = 2
    MaxJobs = 4
    MaxEdits = 1
    Faulty = {leaf}
    Unspawnable = {leaf}
SPECIFICATION Spec
INVARIANTS
    KernelWorkHasSlot
    OneBuildPerKey
    AnswersRequest
    GateSeesGraph
CHECK_DEADLOCK FALSE
