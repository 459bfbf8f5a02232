SPECIFICATION FairSpec
CONSTANTS
    request = request
    stream1 = stream1
    stream2 = stream2
    Calls = {request, stream1, stream2}
    Streams = {stream1, stream2}
    MaxConcurrency = 1
    MaxAttempts = 2
    MaxRedirects = 1
INVARIANTS
    TypeOK
    PermitsBalanced
    RequestsAreBounded
    GivesUpAfterMaxAttempts
PROPERTIES
    EveryCallEnds
CHECK_DEADLOCK FALSE
