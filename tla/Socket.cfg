CONSTANTS
    ann = ann
    bob = bob
    web = web
    admin = admin
    chat = chat
    news = news
    m1 = m1
    m2 = m2
    NoUser = NoUser
    Tokens <- SomeTokens
    Handlers <- SomeHandlers
    Messages = {m1, m2}
    TypeOf <- SomeTypes
    Accepts <- AcceptOwn
    DefaultAudience = web
    Lead = 1
    MaxDelay = 10
    MaxTime = 5
    MaxVerifying = 1
SPECIFICATION FairSpec
INVARIANTS TypeOK AuthenticatedWhileValid
PROPERTIES AuthRequired RemindedBeforeExpiry VanishedPeerDropped
\* The connection may be closed and everything over.
CHECK_DEADLOCK FALSE
