CONSTANTS
    redis = redis
    sql = sql
    flush = flush
    report = report
    PubSub = PubSub
    SecretManager = SecretManager
    InitCallbacks <- TwoInits
    ShutdownCallbacks <- TwoStops
    SyncCallbacks = TRUE
    UseSecretManager = FALSE
    FetchKeys = FALSE
    UseWebSocket = TRUE
    Jobs = {job1}
    Requests = {req1}
    Scrapes = {}
    Sockets = {ws1}
    Callers = {host}
    Signals = {TERM}
    CanCrash = FALSE
SPECIFICATION CooperativeSpec
INVARIANT StoppedLeavesNothing
PROPERTY StopSettles
\* The process may have ended, or init() may have failed.
CHECK_DEADLOCK FALSE
