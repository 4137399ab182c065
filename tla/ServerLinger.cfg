CONSTANTS
    redis = redis
    sql = sql
    flush = flush
    report = report
    PubSub = PubSub
    SecretManager = SecretManager
    InitCallbacks <- TwoInits
    ShutdownCallbacks <- OneStop
    SyncCallbacks = TRUE
    UseSecretManager = FALSE
    FetchKeys = FALSE
    UseWebSocket = TRUE
    Jobs = {}
    Requests = {}
    Scrapes = {}
    Sockets = {ws1}
    Callers = {}
    Signals = {TERM}
    CanCrash = FALSE
SPECIFICATION FairSpec
PROPERTY HardTerminates
\* The process may have ended, or init() may have failed.
CHECK_DEADLOCK FALSE
