CONSTANTS
    password = password
    key = key
    token = token
    Order <- ThreeSecrets
    Files <- OneFile
    Vars <- EnvVars
    NameVar <- Names
    LoadVar <- Targets
    FallbackVar <- Targets
    Preset = {"TOKEN"}
    FallbackToEnv = TRUE
    Missing = {token}
    Inits = {i1}
    Reloads = {r1}
    MaxVersion = 2
    MaxFaults = 2
SPECIFICATION FairSpec
INVARIANTS TypeOK CleanStop ResultIsTrue
PROPERTIES ServedThroughout LoadIsFresh
\* Once all calls have settled nothing more is to happen.
CHECK_DEADLOCK FALSE
