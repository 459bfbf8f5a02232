SPECIFICATION SourceSpec
CONSTANTS
    None = None
    Size = 7
    Malformed <- MCMalformed
    Refusals <- MCRefusals
    PageSize = 2
    MaxItems = 3
    MaxFaults = 3
    Sources <- MCSources
    Tenders = {"A", "B", "C"}
    Urls <- MCUrls
    Bare = {"v"}
    Upper <- MCUpper
    Largest = 200
PROPERTIES
    OneRecordStopsNoOther
