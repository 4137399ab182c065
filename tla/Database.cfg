CONSTANTS
    own = own
    other = other
    MaxClients = 2
    MaxFaults = 1
    Calls = {own, other}
    Own = {own}
    Configs <- Deployments
    Executed <- Before
    Stamped <- Rows
    Builds <- SomeBuilds
SPECIFICATION Spec
INVARIANT TypeOK
PROPERTIES MigratedWhenResolved StoppedMeansClosed
