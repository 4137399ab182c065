CONSTANTS
    k1 = k1
    k2 = k2
    own = own
    Unset = Unset
    Keys = {k1, k2}
    Published <- Rotation
    Sources = {"network", "file"}
    Fetches = {f1, f2}
    MaxTries = 2
    MaxFaults = 2
    Requests = {r1}
    Calls <- AllCalls
    AllowedClientHosts = {own}
    MaxUpload = 2
    MaxLate = 1
SPECIFICATION RepliedSpec
INVARIANTS TypeOK GaugeBalanced
PROPERTIES RevokedRefused KeysConverge Answered
\* initKeySets() may have failed, and a client may make no more requests.
CHECK_DEADLOCK FALSE
