CONSTANTS
    top = top
    sub = sub
    leaf = leaf
    loop = loop
    left = left
    right = right
    Models = {top, sub, leaf, loop}
    Children <- TreeChildren
    HelperFrom <- NoHelper
    Roots = {top, loop}
    Limit = 1
    MaxRequests = 1
    MaxJobs = 4
    MaxEdits = 0
    Faulty = {sub, leaf}
    Unspawnable = {}
SPECIFICATION Spec
INVARIANTS
    NoBuildAwaitsItself
PROPERTIES
    EveryRequestAnswered
CHECK_DEADLOCK FALSE
