CONSTANTS
    redis = redis
    sql = sql
    flush = flush
    report = report
    PubSub = PubSub
    SecretManager = SecretManager
    InitCallbacks <- TwoInits
    ShutdownCallbacks <- OneStop
    SyncCallbacks = FALSE
    UseSecretManager = TRUE
    FetchKeys = TRUE
    UseWebSocket = TRUE
    Jobs = {job1}
    Requests = {req1}
    Scrapes = {scrape1}
    Sockets = {ws1}
    Callers = {}
    Signals = {TERM, INT}
    CanCrash = TRUE
SPECIFICATION CooperativeSpec
INVARIANTS TypeOK DrainedBeforeRelease GracefulExit
PROPERTIES Graceful SignalEndsProcess
\* The process may have ended, or init() may have failed.
CHECK_DEADLOCK FALSE
