CONSTANTS
    t1 = t1
    s1 = s1
    m1 = m1
    p1 = p1
    Topics = {t1}
    Subscriptions = {s1}
    Handlers = {h1, h2}
    Options <- AllOptions
    Messages = {m1}
    SubOf <- OneSub
    Kind <- Kinds
    Slots = {k1, k2}
    NoSlot = NoSlot
    Outgoing = {p1}
    TopicOf <- OneTopic
    MaxAttempts = 2
    SkipValidation = FALSE
    MaxFaults = 2
SPECIFICATION FairSpec
INVARIANTS TypeOK ConsumesOnlyValidated FlushedBeforeClose
PROPERTIES Reliable EventuallyAcked
\* A process that failed to start or was shut down may do nothing more.
CHECK_DEADLOCK FALSE
