---------------------------- MODULE SocketClient ----------------------------
(***************************************************************************)
(* One WebSocket connection as SocketClient.ts and MessageHandler.ts run   *)
(* it: authentication and its two timers, the routing of messages through  *)
(* the handlers, the ping interval, and the close event.                   *)
(*                                                                         *)
(* node runs all microtasks before the next event: verifying a token       *)
(* (jsonwebtoken resolves at once) and passing a handler of another type   *)
(* take microtasks only, so timers, pings and the close event wait for     *)
(* them (Settled); further messages of the same network read do not.       *)
(* sendMessage and the init, auth and shutdown callbacks change nothing of *)
(* the client; only the reminder's sendMessage is kept.  Time counts       *)
(* minutes, and timers fire on time.                                       *)
(***************************************************************************)
EXTENDS Integers, Sequences, FiniteSets

CONSTANTS
    Tokens,          \* records [user, exp, aud, good]; good: signed, for us
    NoUser,          \* sub is undefined
    Handlers,        \* a sequence of records [type, authenticated]
    Messages,        \* data messages, each received at most once (a bound)
    TypeOf,          \* [Messages -> types]
    Accepts,         \* pairs <<i, m>>: the validator of handler i accepts m
    DefaultAudience, \* DEFAULT_MESSAGE_AUDIENCE
    Lead,            \* how long before expiration the reminder is sent
    MaxDelay,        \* longest delay of setTimeout (2^31 - 1 ms)
    MaxTime,         \* bound: last instant of the clock
    MaxVerifying     \* bound: authenticate messages in one network read

Users     == {t.user : t \in Tokens} \cup {NoUser}
Audiences == UNION {t.aud : t \in Tokens} \cup {DefaultAudience}
Index     == DOMAIN Handlers
NoToken   == [user |-> NoUser, exp |-> 0, aud |-> {}, good |-> FALSE]

ASSUME SocketAssumption ==
    /\ Tokens \subseteq [user : Users, exp : Nat, aud : SUBSET Audiences, good : BOOLEAN]
    /\ Handlers \in Seq([type : {h.type : h \in {Handlers[i] : i \in Index}},
                         authenticated : BOOLEAN])
    /\ Accepts \subseteq Index \X Messages
    /\ DOMAIN TypeOf = Messages
    /\ {Lead, MaxDelay, MaxTime, MaxVerifying} \subseteq Nat

VARIABLES
    now,           \* the clock
    ws,            \* the socket: "open", "terminated", "closed"
    registered,    \* is the client in SocketClient.socketClients
    peer,          \* does the other end still answer (external)
    isAlive,       \* the flag of the ping interval
    pinging,       \* is the ping interval armed
    authenticated,
    user,          \* userId (deviceId and tokenId go with it)
    audience,
    timers,        \* armed timers, records [kind, at]
    verifying,     \* tokens between jwtVerify's call and its continuation
    task,          \* where the processing of each message is
    ran,           \* history: pairs <<i, m>>, handler i was called with m
    latest,        \* history: the last token accepted
    reminded       \* history: was the reminder sent for that token

timeVars == <<now, peer>>
pingVars == <<ws, registered, isAlive, pinging>>
authVars == <<authenticated, user, audience, timers, verifying, latest, reminded>>
msgVars  == <<task, ran>>
vars == <<timeVars, pingVars, authVars, msgVars>>

Timers == [kind : {"renew", "expire"}, at : Nat]

TypeOK ==
    /\ now \in 0..MaxTime /\ peer \in BOOLEAN
    /\ ws \in {"open", "terminated", "closed"}
    /\ registered \in BOOLEAN /\ isAlive \in BOOLEAN /\ pinging \in BOOLEAN
    /\ authenticated \in BOOLEAN /\ user \in Users /\ audience \subseteq Audiences
    /\ timers \subseteq Timers
    /\ verifying \in Seq(Tokens) /\ Len(verifying) <= MaxVerifying
    /\ task \in [Messages -> [pc : {"new", "between", "inHandler", "done", "rejected"},
                              at : 0..(Len(Handlers) + 1)]]
    /\ ran \subseteq Index \X Messages
    /\ latest \in Tokens \cup {NoToken} /\ reminded \in BOOLEAN

Init ==
    /\ now = 0 /\ peer = TRUE
    /\ ws = "open" /\ registered = TRUE /\ isAlive = TRUE /\ pinging = TRUE
    /\ authenticated = FALSE /\ user = NoUser /\ audience = {}
    /\ timers = {} /\ verifying = <<>>
    /\ task = [m \in Messages |-> [pc |-> "new", at |-> 0]]
    /\ ran = {}
    /\ latest = NoToken /\ reminded = FALSE

Receiving == ws = "open" /\ peer
Settled   == verifying = <<>> /\ \A m \in Messages : task[m].pc # "between"
Due(t)    == t.at <= now

-----------------------------------------------------------------------------
(* Authentication *)

\* authenticate(), up to the await of jwtVerify; a message without a token
\* is answered with an error and changes nothing.
ReceiveToken(tok) ==
    /\ Receiving /\ Len(verifying) < MaxVerifying
    /\ verifying' = Append(verifying, tok)
    /\ UNCHANGED <<timeVars, pingVars, authenticated, user, audience, timers,
                   latest, reminded, msgVars>>

Verified(tok) == tok.good /\ tok.exp > now

\* setTimeout: a negative delay fires at once, and so does one too long.
FiresAt(delay) == IF delay < 0 \/ delay > MaxDelay THEN now ELSE now + delay

\* Mutant: the reminder is armed for one minute after the expiration.
LateTimers(tok) == {[kind |-> "renew",  at |-> FiresAt(tok.exp - now + Lead)],
                    [kind |-> "expire", at |-> FiresAt(tok.exp - now)]}

TokenTimers(tok) == {[kind |-> "renew",  at |-> FiresAt(tok.exp - now - Lead)],
                     [kind |-> "expire", at |-> FiresAt(tok.exp - now)]}

\* The data of the first token stay; a token without a user sets them again.
SetUserData(tok) ==
    IF user # NoUser THEN UNCHANGED <<user, audience>>
                     ELSE user' = tok.user /\ audience' = tok.aud

Acceptable(tok) == Verified(tok) /\ user \in {NoUser, tok.user}

\* Mutant: the timers of the previous token are not cleared.
AcceptUncleared(tok) ==
    /\ SetUserData(tok)
    /\ authenticated' = TRUE
    /\ timers' = timers \cup TokenTimers(tok)
    /\ latest' = tok /\ reminded' = FALSE

Accept(tok) ==
    /\ SetUserData(tok)
    /\ authenticated' = TRUE
    /\ timers' = TokenTimers(tok)
    /\ latest' = tok /\ reminded' = FALSE

\* The continuation after jwtVerify; a refused token only sends an error.
TokenVerified ==
    /\ verifying # <<>>
    /\ verifying' = Tail(verifying)
    /\ IF Acceptable(Head(verifying))
       THEN Accept(Head(verifying))
       ELSE UNCHANGED <<authenticated, user, audience, timers, latest, reminded>>
    /\ UNCHANGED <<timeVars, pingVars, msgVars>>

\* sendMessage reaches the client.
Sends(aud) == authenticated /\ aud \in audience

Fires(t) == t \in timers /\ Due(t) /\ Settled /\ timers' = timers \ {t}

RenewTimer(t) ==
    /\ t.kind = "renew" /\ Fires(t)
    /\ reminded' = (reminded \/ Sends(DefaultAudience))
    /\ UNCHANGED <<timeVars, pingVars, authenticated, user, audience, verifying,
                   latest, msgVars>>

\* Timers fire in the order of their deadlines.
ExpireTimer(t) ==
    /\ t.kind = "expire" /\ Fires(t)
    /\ \A r \in timers : r.kind = "renew" => r.at > t.at
    /\ authenticated' = FALSE
    /\ UNCHANGED <<timeVars, pingVars, user, audience, verifying, latest,
                   reminded, msgVars>>

-----------------------------------------------------------------------------
(* Messages *)

\* Mutant: having a user once is enough.
AllowedByUser(i) == Handlers[i].authenticated => user # NoUser

Allowed(i) == Handlers[i].authenticated => authenticated

\* The loop of handleMessage arrives at handler i: MessageHandler.handle up
\* to its await.  A payload its validator refuses ends the loop.
Enter(m, i) ==
    IF i \notin Index
    THEN task' = [task EXCEPT ![m] = [pc |-> "done", at |-> i]] /\ UNCHANGED ran
    ELSE IF <<i, m>> \notin Accepts
    THEN task' = [task EXCEPT ![m] = [pc |-> "rejected", at |-> i]] /\ UNCHANGED ran
    ELSE IF Handlers[i].type = TypeOf[m] /\ Allowed(i)
    THEN /\ task' = [task EXCEPT ![m] = [pc |-> "inHandler", at |-> i]]
         /\ ran' = ran \cup {<<i, m>>}
    ELSE task' = [task EXCEPT ![m] = [pc |-> "between", at |-> i]] /\ UNCHANGED ran

ReceiveMessage(m) ==
    /\ Receiving /\ task[m].pc = "new"
    /\ Enter(m, 1)
    /\ UNCHANGED <<timeVars, pingVars, authVars>>

\* Mutant: the loop goes on after its end.
NextUnended(m) ==
    /\ task[m].pc # "new"
    /\ Enter(m, task[m].at + 1)
    /\ UNCHANGED <<timeVars, pingVars, authVars>>

\* handle() of one handler has resolved: the loop goes on.
NextHandler(m) ==
    /\ task[m].pc \in {"between", "inHandler"}
    /\ Enter(m, task[m].at + 1)
    /\ UNCHANGED <<timeVars, pingVars, authVars>>

HandlerFails(m) ==
    /\ task[m].pc = "inHandler"
    /\ task' = [task EXCEPT ![m].pc = "rejected"]
    /\ UNCHANGED <<timeVars, pingVars, authVars, ran>>

-----------------------------------------------------------------------------
(* Liveness of the connection *)

\* Mutant: the interval pings without looking for an answer.
PingOnly ==
    /\ pinging /\ Settled
    /\ isAlive' = FALSE
    /\ UNCHANGED <<timeVars, ws, registered, pinging, authVars, msgVars>>

PingInterval ==
    /\ pinging /\ Settled
    /\ IF isAlive THEN isAlive' = FALSE /\ UNCHANGED ws
                  ELSE ws' = "terminated" /\ UNCHANGED isAlive
    /\ UNCHANGED <<timeVars, registered, pinging, authVars, msgVars>>

Pong ==
    /\ Receiving /\ Settled /\ ~isAlive
    /\ isAlive' = TRUE
    /\ UNCHANGED <<timeVars, ws, registered, pinging, authVars, msgVars>>

\* The close event: deregistered, every timer cleared.
HandleClose ==
    /\ ws' = "closed" /\ registered' = FALSE /\ pinging' = FALSE
    /\ timers' = {}
    /\ UNCHANGED <<timeVars, isAlive, authenticated, user, audience, verifying,
                   latest, reminded, msgVars>>

\* The peer closes, or the socket was terminated.
Close == Settled /\ (Receiving \/ ws = "terminated") /\ HandleClose

\* The peer vanishes without closing.
PeerVanishes == /\ peer /\ peer' = FALSE
                /\ UNCHANGED <<now, pingVars, authVars, msgVars>>

Tick == /\ now < MaxTime /\ Settled /\ ~\E t \in timers : Due(t)
        /\ now' = now + 1
        /\ UNCHANGED <<peer, pingVars, authVars, msgVars>>

Next ==
    \/ \E tok \in Tokens : ReceiveToken(tok)
    \/ TokenVerified
    \/ \E t \in timers : RenewTimer(t) \/ ExpireTimer(t)
    \/ \E m \in Messages : ReceiveMessage(m) \/ NextHandler(m) \/ HandlerFails(m)
    \/ PingInterval \/ Pong \/ Close \/ PeerVanishes \/ Tick

Spec == Init /\ [][Next]_vars

\* The event loop runs its microtasks and timers, and reports a close.
Fairness ==
    /\ WF_vars(TokenVerified)
    /\ \A m \in Messages :
           WF_vars(NextHandler(m) /\ task[m].pc = "between")
    /\ WF_vars(PingInterval)
    /\ WF_vars(ws = "terminated" /\ Close)

FairSpec == Spec /\ Fairness

-----------------------------------------------------------------------------
(* Properties *)

\* SocketClient.ts:292: while the socket is open, the client is authenticated
\* exactly as long as the latest token it was accepted with is valid, and as the
\* user of that token: neither the timers of an earlier token nor one that is
\* refused, such as one of another user, change that.
AuthenticatedWhileValid ==
    ws = "open" /\ latest.exp <= MaxDelay =>
        /\ authenticated => now <= latest.exp /\ user = latest.user
        /\ now < latest.exp => authenticated

\* MessageHandler.ts:68: a handler that requires authentication is entered
\* only while the client is authenticated and its token valid, wherever the
\* loop over the handlers was suspended.  Only while the socket is open: the
\* close event clears the expiration timer and leaves the flag set, so a loop
\* suspended in a handler goes on as authenticated for good.
AuthRequired ==
    [][\A i \in Index, m \in Messages :
         <<i, m>> \in ran' \ ran /\ Handlers[i].authenticated =>
             authenticated /\ (ws = "open" => now <= latest.exp)]_vars

\* README.md:555: authentication that expires was preceded by a reminder,
\* if the client listens to the default audience.
RemindedBeforeExpiry ==
    [][authenticated /\ ~authenticated' =>
         reminded \/ DefaultAudience \notin audience]_vars

\* SocketClient.ts:149: a peer that vanished is deregistered in the end, and
\* no timer of it is left, whatever authentication was under way.
VanishedPeerDropped == ~peer ~> ~registered /\ timers = {} /\ ~pinging /\ verifying = <<>>


=============================================================================
