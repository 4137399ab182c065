CONSTANTS
    Calls = {u1, u2}
    Given = {report}
    Random = {n1, n2, n3}
    Stored = {n1}
    MaxChunks = 2
    Uploads <- SomeUploads
    MaxFaults = 1
SPECIFICATION FairSpec
INVARIANT TypeOK
PROPERTIES ResolvedWhole UploadsSettle
\* Every upload may be over.
CHECK_DEADLOCK FALSE
