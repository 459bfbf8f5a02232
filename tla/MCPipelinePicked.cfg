SPECIFICATION FairSpec
CONSTANTS
    v1 = v1
    v2 = v2
    a1 = a1
    None = None
    Tenders = {t1}
    Versions = {v1, v2}
    Attachments = {a1}
    Listed <- MCListed
    Workers = {w1}
    Slots = {s1, s2}
    MaxDeliver = 2
    RepublishLimit = 1
    MaxItems = 1
    Faults <- AllFaults
    MaxFaults = 2
PROPERTIES
    OnlyCrawlerReopens
    PendingIsPicked
