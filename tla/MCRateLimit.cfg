SPECIFICATION FairSpec
CONSTANTS
    k1 = k1
    None = None
    Keys = {k1}
    Requests = {r1, r2, r3, r4}
    KeyOf <- MCKeyOf
    Limit <- MCLimit
    LastMinute = 1
CHECK_DEADLOCK FALSE
INVARIANTS
    TypeOK
    OrderedRequestsStayWithinLimit
    LimitedOnlyWhenFull
PROPERTIES
    NoGrantAfterDisable
    EveryRequestIsAnswered
