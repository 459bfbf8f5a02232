SPECIFICATION FairSpec
CONSTANTS
    None = None
    s1 = s1
    s2 = s2
    other = other
    Requests = {s1, s2, other}
    Submissions = {s1, s2}
    PoolSize = 1
INVARIANTS
    TypeOK
    ConnectionsBalanced
    AnswerIsComplete
    ButtonIsEnabledAgain
PROPERTIES
    EverySubmissionEnds
