SPECIFICATION FairSpec
CONSTANTS
    None = None
    Tender = tender
    Ingest = ingest
    a1 = a1
    a2 = a2
    First = First
    Second = Second
    Texts <- MCTexts
    Title <- MCTitle
    Description <- MCDescription
    Metadata <- MCMetadata
    Listed <- MCListed
    Indexers = {w1}
    Attachments = {a1, a2}
    Versions <- MCVersions
    Histories <- MCHistories
    Format <- MCFormat
    Pages <- MCPages
    MaxChars = 8
    OverlapChars = 2
    BatchSize = 2
    MaxFaults = 1
INVARIANTS
    TypeOK
    TenderTextIsCovered
    
    ChunksAreStorable
    
PROPERTIES
    ImplementsLifecycle
    IndexConverges
CHECK_DEADLOCK FALSE
