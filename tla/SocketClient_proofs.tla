------------------------- MODULE SocketClient_proofs -------------------------
(***************************************************************************)
(* Proofs about SocketClient, for any tokens, handlers, messages and       *)
(* lengths of time: a client is authenticated exactly as long as its       *)
(* latest token is valid, handlers that require it are entered only then,  *)
(* and it is reminded before its authentication expires.                   *)
(***************************************************************************)
EXTENDS SocketClient, TLAPS

\* The timers are those of the latest token, and none is overdue.
Timed ==
    /\ \A t \in timers : t.at >= now
    /\ ws = "open" /\ authenticated =>
         \E t \in timers : t.kind = "expire" /\ t.at <= latest.exp
    /\ latest.exp <= MaxDelay =>
         /\ \A t \in timers : t.kind = "expire" => t.at = latest.exp
         /\ now < latest.exp => authenticated

\* A loop that is suspended stands at a handler.
AtHandler == \A m \in Messages : task[m].pc \in {"between", "inHandler"} => task[m].at \in Index

\* After the close event nothing is left that could change the client.
Over == ws = "closed" => timers = {} /\ verifying = <<>> /\ ~pinging

SocketInv == TypeOK /\ user = latest.user /\ Timed /\ AtHandler /\ Over

\* A reminder that was not sent is armed, and fires before the expiration.
WillRemind ==
    authenticated /\ ws # "closed" =>
        \/ reminded \/ DefaultAudience \notin audience
        \/ \E r \in timers : r.kind = "renew" /\ \A t \in timers : t.kind = "expire" => r.at <= t.at

-----------------------------------------------------------------------------

\* The assumption, as the proofs use it.
LEMMA Assumed ==
    /\ Lead \in Nat /\ MaxDelay \in Nat /\ MaxTime \in Nat /\ MaxVerifying \in Nat
    /\ \A tok \in Tokens : tok.exp \in Nat /\ tok.user \in Users /\ tok.aud \subseteq Audiences
    /\ Len(Handlers) \in Nat /\ Index = 1..Len(Handlers)
  BY SocketAssumption DEF Index

\* setTimeout fires no earlier than now, and no later than asked for.
LEMMA FiresInTime ==
    ASSUME now \in Nat, NEW delay \in Int
    PROVE  /\ FiresAt(delay) \in Nat /\ FiresAt(delay) >= now
           /\ delay >= 0 => FiresAt(delay) <= now + delay
           /\ delay \in 0..MaxDelay => FiresAt(delay) = now + delay
  BY Assumed DEF FiresAt

\* A new connection has no token.
LEMMA InitSocket == Init => SocketInv
  <1> SUFFICES ASSUME Init PROVE SocketInv
    OBVIOUS
  <1>1. task \in [Messages -> [pc : {"new", "between", "inHandler", "done", "rejected"},
                              at : 0..(Len(Handlers) + 1)]]
    BY Assumed DEF Init
  <1>2. verifying \in Seq(Tokens) /\ Len(verifying) <= MaxVerifying
    BY Assumed DEF Init
  <1>3. TypeOK
    <2>1. NoUser \in Users /\ 0 \in 0..MaxTime
      BY Assumed DEF Users
    <2> QED
      BY <1>1, <1>2, <2>1 DEF Init, TypeOK
  <1>4. user = latest.user
    BY DEF Init, NoToken
  <1>5. Timed
    BY DEF Init, Timed, NoToken
  <1>6. AtHandler /\ Over
    BY DEF Init, AtHandler, Over
  <1> QED
    BY <1>3, <1>4, <1>5, <1>6 DEF SocketInv

\* authenticate() and what follows jwtVerify.
LEMMA AuthenticationKeeps ==
    ASSUME SocketInv, TokenVerified \/ \E tok \in Tokens : ReceiveToken(tok)
    PROVE  SocketInv'
  <1> USE DEF SocketInv, timeVars, pingVars, msgVars
  <1>1. ASSUME NEW tok \in Tokens, ReceiveToken(tok) PROVE SocketInv'
    <2>1. verifying \in Seq(Tokens) /\ Len(verifying) < MaxVerifying
          /\ verifying' = Append(verifying, tok)
      BY <1>1 DEF ReceiveToken, TypeOK
    <2>2. verifying' \in Seq(Tokens) /\ Len(verifying') <= MaxVerifying
      BY <2>1, Assumed
    <2>3. TypeOK'
      BY <1>1, <2>2 DEF ReceiveToken, TypeOK
    <2>4. Timed' /\ AtHandler' /\ (user = latest.user)'
      BY <1>1 DEF ReceiveToken, Timed, AtHandler
    <2>5. Over'
      BY <1>1 DEF ReceiveToken, Receiving, Over
    <2> QED
      BY <2>3, <2>4, <2>5
  <1>2. CASE TokenVerified
    <2> DEFINE tok == Head(verifying)
    <2>1. /\ verifying \in Seq(Tokens) /\ verifying # <<>> /\ Len(verifying) \in Nat
          /\ verifying' = Tail(verifying)
          /\ UNCHANGED <<now, peer, ws, registered, isAlive, pinging, task, ran>>
      BY <1>2 DEF TokenVerified, TypeOK
    <2>2. tok \in Tokens /\ verifying' \in Seq(Tokens) /\ Len(verifying') <= MaxVerifying
      BY <2>1, Assumed DEF TypeOK
    <2>3. AtHandler' /\ Over'
      BY <2>1 DEF AtHandler, Over
    <2>4. CASE ~Acceptable(tok)
      <3>1. UNCHANGED <<authenticated, user, audience, timers, latest, reminded>>
        BY <1>2, <2>4 DEF TokenVerified
      <3> QED
        BY <2>1, <2>2, <2>3, <3>1 DEF TypeOK, Timed
    <2>5. CASE Acceptable(tok)
      <3>1. /\ authenticated' = TRUE /\ timers' = TokenTimers(tok)
            /\ latest' = tok /\ reminded' = FALSE /\ SetUserData(tok)
        BY <1>2, <2>5 DEF TokenVerified, Accept
      <3>2. user \in {NoUser, tok.user} /\ tok.exp > now
        BY <2>5 DEF Acceptable, Verified
      <3> HIDE DEF tok
      <3>3. /\ user' = tok.user /\ user' \in Users /\ audience' \subseteq Audiences
        BY <2>2, <3>1, <3>2, Assumed DEF SetUserData, TypeOK
      <3>4. now \in Nat /\ tok.exp \in Nat /\ tok.exp - now \in Int /\ tok.exp - now - Lead \in Int
        BY <2>2, Assumed DEF TypeOK
      <3>5. timers' = {[kind |-> "renew",  at |-> FiresAt(tok.exp - now - Lead)],
                       [kind |-> "expire", at |-> FiresAt(tok.exp - now)]}
        BY <3>1 DEF TokenTimers
      <3>6. /\ FiresAt(tok.exp - now - Lead) \in Nat /\ FiresAt(tok.exp - now - Lead) >= now
            /\ FiresAt(tok.exp - now) \in Nat /\ FiresAt(tok.exp - now) >= now
            /\ FiresAt(tok.exp - now) <= tok.exp
            /\ tok.exp <= MaxDelay => FiresAt(tok.exp - now) = tok.exp
        <4>1. tok.exp - now >= 0 /\ now + (tok.exp - now) = tok.exp
          BY <3>2, <3>4
        <4>2. tok.exp <= MaxDelay => tok.exp - now \in 0..MaxDelay
          BY <3>4, <4>1, Assumed
        <4> QED
          BY <3>4, <4>1, <4>2, FiresInTime
      <3>7. TypeOK'
        <4>1. timers' \subseteq Timers
          BY <3>5, <3>6 DEF Timers
        <4> QED
          BY <2>1, <2>2, <3>1, <3>3, <4>1 DEF TypeOK
      <3>8. Timed'
        BY <2>1, <3>1, <3>5, <3>6 DEF Timed
      <3> QED
        BY <2>3, <3>1, <3>3, <3>7, <3>8
    <2> QED
      BY <2>4, <2>5
  <1> QED
    BY <1>1, <1>2

\* The timers of the token, and the clock, which passes none of them.
LEMMA TimeKeeps ==
    ASSUME SocketInv, Tick \/ \E t \in timers : RenewTimer(t) \/ ExpireTimer(t)
    PROVE  SocketInv'
  <1> USE DEF SocketInv, timeVars, pingVars, msgVars, authVars
  <1>0. /\ now \in Nat /\ latest.exp \in Nat
        /\ \A t \in timers : t.at \in Nat /\ t.kind \in {"renew", "expire"}
    BY Assumed DEF TypeOK, NoToken, Timers
  <1>1. ASSUME NEW t \in timers, RenewTimer(t) PROVE SocketInv'
    <2>1. /\ t.kind = "renew" /\ timers' = timers \ {t} /\ reminded' \in BOOLEAN
          /\ UNCHANGED <<now, peer, ws, registered, isAlive, pinging, authenticated, user, audience,
                         verifying, latest, task, ran>>
      BY <1>1 DEF RenewTimer, Fires, Sends, TypeOK
    <2>2. TypeOK'
      BY <2>1 DEF TypeOK
    <2>3. Timed'
      BY <2>1 DEF Timed
    <2> QED
      BY <2>1, <2>2, <2>3 DEF AtHandler, Over
  <1>2. ASSUME NEW t \in timers, ExpireTimer(t) PROVE SocketInv'
    <2>1. /\ t.kind = "expire" /\ t.at <= now /\ timers' \subseteq timers /\ authenticated' = FALSE
          /\ UNCHANGED <<now, peer, ws, registered, isAlive, pinging, user, audience, verifying,
                         latest, reminded, task, ran>>
      BY <1>2 DEF ExpireTimer, Fires, Due
    <2>2. TypeOK'
      BY <2>1 DEF TypeOK
    <2>3. ASSUME latest.exp <= MaxDelay PROVE ~(now < latest.exp)
      <3>1. t.at = latest.exp
        BY <2>1, <2>3 DEF Timed
      <3> QED
        BY <1>0, <2>1, <3>1
    <2>4. Timed'
      BY <2>1, <2>3 DEF Timed
    <2> QED
      BY <2>1, <2>2, <2>4 DEF AtHandler, Over
  <1>3. CASE Tick
    <2>1. /\ now' = now + 1 /\ now < MaxTime
          /\ \A t \in timers : ~(t.at <= now)
          /\ UNCHANGED <<peer, ws, registered, isAlive, pinging, authenticated, user, audience,
                         timers, verifying, latest, reminded, task, ran>>
      BY <1>3 DEF Tick, Due
    <2>2. TypeOK'
      <3>1. now' \in 0..MaxTime
        BY <1>0, <2>1, Assumed
      <3> QED
        BY <2>1, <3>1 DEF TypeOK
    <2>3. \A t \in timers : t.at >= now'
      BY <1>0, <2>1
    <2>4. now' < latest.exp => now < latest.exp
      BY <1>0, <2>1
    <2>5. Timed'
      BY <2>1, <2>3, <2>4 DEF Timed
    <2>6. user' = latest'.user /\ AtHandler' /\ Over'
      BY <2>1 DEF AtHandler, Over
    <2> QED
      BY <2>2, <2>5, <2>6
  <1> QED
    BY <1>1, <1>2, <1>3

\* Entering a handler moves the loop of one message only.
LEMMA EnterKeeps ==
    ASSUME SocketInv, NEW m \in Messages, NEW i \in 1..(Len(Handlers) + 1), Enter(m, i),
           UNCHANGED <<timeVars, pingVars, authVars>>
    PROVE  SocketInv'
  <1>1. PICK pc \in {"done", "rejected", "inHandler", "between"} :
          /\ task' = [task EXCEPT ![m] = [pc |-> pc, at |-> i]]
          /\ pc \in {"inHandler", "between"} => i \in Index
          /\ ran' = ran \/ (i \in Index /\ ran' = ran \cup {<<i, m>>})
    BY DEF Enter
  <1>2. TypeOK'
    <2>1. i \in 0..(Len(Handlers) + 1)
      BY Assumed
    <2> QED
      BY <1>1, <2>1 DEF SocketInv, TypeOK, timeVars, pingVars, authVars
  <1>3. AtHandler'
    BY <1>1 DEF SocketInv, TypeOK, AtHandler
  <1> QED
    BY <1>2, <1>3 DEF SocketInv, Timed, Over, timeVars, pingVars, authVars

\* Messages and their handlers.
LEMMA MessagesKeep ==
    ASSUME SocketInv, NEW m \in Messages, ReceiveMessage(m) \/ NextHandler(m) \/ HandlerFails(m)
    PROVE  SocketInv'
  <1>1. CASE ReceiveMessage(m)
    <2>1. 1 \in 1..(Len(Handlers) + 1)
      BY Assumed
    <2> QED
      BY <1>1, <2>1, EnterKeeps DEF ReceiveMessage
  <1>2. CASE NextHandler(m)
    <2>1. task[m].at + 1 \in 1..(Len(Handlers) + 1)
      BY <1>2, Assumed DEF NextHandler, SocketInv, AtHandler
    <2> QED
      BY <1>2, <2>1, EnterKeeps DEF NextHandler
  <1>3. CASE HandlerFails(m)
    <2>1. TypeOK'
      BY <1>3 DEF HandlerFails, SocketInv, TypeOK, timeVars, pingVars, authVars
    <2>2. AtHandler'
      BY <1>3 DEF HandlerFails, SocketInv, TypeOK, AtHandler
    <2> QED
      BY <1>3, <2>1, <2>2 DEF HandlerFails, SocketInv, Timed, Over, timeVars, pingVars, authVars
  <1> QED
    BY <1>1, <1>2, <1>3

\* The ping interval, and the close event.
LEMMA ConnectionKeeps ==
    ASSUME SocketInv, PingInterval \/ Pong \/ Close \/ PeerVanishes
    PROVE  SocketInv'
  <1> USE DEF SocketInv, timeVars, pingVars, msgVars, authVars
  <1>1. CASE PingInterval
    BY <1>1 DEF PingInterval, TypeOK, Timed, AtHandler, Over
  <1>2. CASE Pong
    BY <1>2 DEF Pong, TypeOK, Timed, AtHandler, Over
  <1>3. CASE PeerVanishes
    BY <1>3 DEF PeerVanishes, TypeOK, Timed, AtHandler, Over
  <1>4. CASE Close
    BY <1>4 DEF Close, Settled, HandleClose, TypeOK, Timed, AtHandler, Over
  <1> QED
    BY <1>1, <1>2, <1>3, <1>4

\* Every step keeps SocketInv.
LEMMA StepKeeps == SocketInv /\ [Next]_vars => SocketInv'
  <1> SUFFICES ASSUME SocketInv, [Next]_vars PROVE SocketInv'
    OBVIOUS
  <1>1. CASE UNCHANGED vars
    BY <1>1 DEF vars, timeVars, pingVars, authVars, msgVars, SocketInv, TypeOK, Timed, AtHandler, Over
  <1> QED
    BY <1>1, AuthenticationKeeps, TimeKeeps, MessagesKeep, ConnectionKeeps DEF Next

\* While SocketInv holds, an open client that is authenticated has a valid token.
LEMMA ValidToken ==
    SocketInv => (ws = "open" /\ authenticated => now <= latest.exp)
  BY Assumed DEF SocketInv, Timed, TypeOK, Timers, NoToken

\* Every state of a client is well typed.
THEOREM TypeCorrect == Spec => []TypeOK
  <1>1. SocketInv => TypeOK
    BY DEF SocketInv
  <1> QED
    BY <1>1, InitSocket, StepKeeps, PTL DEF Spec

\* While its socket is open, a client is authenticated exactly as long as the
\* latest token it was accepted with is valid, and as the user of that token.
THEOREM AuthenticatedExactly == Spec => []AuthenticatedWhileValid
  <1>1. SocketInv => AuthenticatedWhileValid
    BY ValidToken DEF SocketInv, Timed, AuthenticatedWhileValid
  <1> QED
    BY <1>1, InitSocket, StepKeeps, PTL DEF Spec

\* A handler that requires authentication is entered only while the client is
\* authenticated with a valid token.
THEOREM HandlersGuarded == Spec => AuthRequired
  <1>1. SocketInv /\ [Next]_vars =>
          [\A i \in Index, m \in Messages :
             <<i, m>> \in ran' \ ran /\ Handlers[i].authenticated =>
                 authenticated /\ (ws = "open" => now <= latest.exp)]_vars
    <2> SUFFICES ASSUME SocketInv, Next, NEW i \in Index, NEW m \in Messages,
                        <<i, m>> \in ran' \ ran, Handlers[i].authenticated
                 PROVE  authenticated /\ (ws = "open" => now <= latest.exp)
      BY DEF vars
    <2>1. PICK n \in Messages : ReceiveMessage(n) \/ NextHandler(n)
      BY DEF Next, ReceiveToken, TokenVerified, RenewTimer, ExpireTimer, HandlerFails, PingInterval, Pong,
             Close, HandleClose, PeerVanishes, Tick, msgVars
    <2>2. PICK k : Enter(n, k)
      BY <2>1 DEF ReceiveMessage, NextHandler
    <2>3. k = i /\ Allowed(k)
      BY <2>2 DEF Enter
    <2> QED
      BY <2>3, ValidToken DEF Allowed
  <1> QED
    BY <1>1, InitSocket, StepKeeps, PTL DEF Spec, AuthRequired

-----------------------------------------------------------------------------

\* setTimeout can wait for the expiration of every token.
ShortLived == \A tok \in Tokens : tok.exp <= MaxDelay

\* While the timers can wait, a reminder that was not sent stays armed.
LEMMA ReminderKept ==
    ASSUME ShortLived, SocketInv, WillRemind, [Next]_vars
    PROVE  WillRemind'
  <1> USE DEF SocketInv
  <1>1. CASE UNCHANGED <<ws, authenticated, audience, timers, reminded>>
    BY <1>1 DEF WillRemind
  <1>2. ASSUME TokenVerified, Acceptable(Head(verifying)) PROVE WillRemind'
    <2> DEFINE tok == Head(verifying)
    <2>1. tok \in Tokens /\ timers' = TokenTimers(tok) /\ tok.exp > now
      BY <1>2 DEF TokenVerified, Accept, Acceptable, Verified, TypeOK
    <2> HIDE DEF tok
    <2>2. now \in Nat /\ tok.exp \in Nat /\ tok.exp <= MaxDelay
      BY <2>1, Assumed DEF TypeOK, ShortLived
    <2>3. FiresAt(tok.exp - now) = tok.exp
      <3>1. tok.exp - now \in 0..MaxDelay /\ now + (tok.exp - now) = tok.exp
        BY <2>1, <2>2, Assumed
      <3> QED
        BY <2>2, <3>1, FiresInTime
    <2>4. FiresAt(tok.exp - now - Lead) <= tok.exp
      BY <2>1, <2>2, Assumed DEF FiresAt
    <2> DEFINE r == [kind |-> "renew", at |-> FiresAt(tok.exp - now - Lead)]
    <2>5. r \in timers' /\ r.kind = "renew" /\ r.at <= tok.exp
      BY <2>1, <2>4 DEF TokenTimers
    <2>6. \A t \in timers' : t.kind = "expire" => t.at = tok.exp
      BY <2>1, <2>3 DEF TokenTimers
    <2> HIDE DEF r
    <2> QED
      BY <2>5, <2>6 DEF WillRemind
  <1>3. ASSUME NEW t \in timers, RenewTimer(t) PROVE WillRemind'
    BY <1>3 DEF RenewTimer, Sends, WillRemind
  <1>4. ASSUME NEW t \in timers, ExpireTimer(t) PROVE WillRemind'
    BY <1>4 DEF ExpireTimer, WillRemind
  <1>5. CASE PingInterval
    BY <1>5 DEF PingInterval, authVars, WillRemind, Over
  <1>6. CASE Close
    BY <1>6 DEF Close, HandleClose, WillRemind
  <1> QED
    BY <1>1, <1>2, <1>3, <1>4, <1>5, <1>6
       DEF Next, ReceiveToken, TokenVerified, ReceiveMessage, NextHandler, HandlerFails, Pong,
           PeerVanishes, Tick, vars, timeVars, pingVars, authVars, msgVars

\* A client that listens to the default audience was reminded before its
\* authentication expires, if setTimeout can wait for the expiration.
THEOREM RemindedInTime ==
    ASSUME ShortLived
    PROVE  Spec => RemindedBeforeExpiry
  <1>1. Init => WillRemind
    BY DEF Init, WillRemind
  <1>2. SocketInv /\ WillRemind /\ [Next]_vars => WillRemind'
    BY ReminderKept
  <1>3. SocketInv /\ WillRemind /\ [Next]_vars =>
          [authenticated /\ ~authenticated' => reminded \/ DefaultAudience \notin audience]_vars
    <2> SUFFICES ASSUME SocketInv, WillRemind, Next, authenticated, ~authenticated'
                 PROVE  reminded \/ DefaultAudience \notin audience
      OBVIOUS
    <2>1. PICK t \in timers : ExpireTimer(t)
      BY DEF Next, ReceiveToken, TokenVerified, Accept, RenewTimer, ReceiveMessage, NextHandler,
             HandlerFails, PingInterval, Pong, Close, HandleClose, PeerVanishes, Tick, authVars
    <2>2. t.kind = "expire" /\ \A r \in timers : r.kind = "renew" => r.at > t.at
      BY <2>1 DEF ExpireTimer
    <2>3. ws # "closed"
      BY <2>1 DEF SocketInv, Over
    <2>4. \A r \in timers : r.at \in Int
      BY DEF SocketInv, TypeOK, Timers
    <2> QED
      BY <2>2, <2>3, <2>4 DEF WillRemind
  <1> QED
    BY <1>1, <1>2, <1>3, InitSocket, StepKeeps, PTL DEF Spec, RemindedBeforeExpiry

=============================================================================
