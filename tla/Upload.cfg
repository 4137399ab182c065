CONSTANTS
    Requests = {r1}
    TotalChunks = 3
    Indices = {0, 1, 2}
    MaxInFlight = 1
    Careful = TRUE
    MaxDiskFaults = 2
SPECIFICATION UploadFairSpec
INVARIANT UploadTypeOK
PROPERTIES WholeWhenComplete CompletedInTheEnd
