------------------------------ MODULE Requests ------------------------------
(***************************************************************************)
(* Requests through the middleware of the server and the chain that        *)
(* Endpoint.register() builds: body parsing, metrics, authentication,      *)
(* validation or file upload, the middleware of the host, the handler, and *)
(* what express does when one of them fails.  Tokens are verified with the *)
(* keys of KeySet.                                                         *)
(*                                                                         *)
(* One action is one middleware, two for one that calls a service, and the *)
(* client may leave between any two.  A verdict on a request is computed   *)
(* from a record that says what the request carries.  Signatures are       *)
(* external: a credential is genuine or it is not.  Status codes are left  *)
(* out, so an answer of the handler and one of the error middleware look   *)
(* alike.  Express is external: next(err) goes to the error middleware,    *)
(* and when that throws, because the answer was already sent, the          *)
(* connection is destroyed.                                                *)
(***************************************************************************)
EXTENDS KeySet, FiniteSets

CONSTANTS
    Requests,            \* bound: requests handled at once
    Calls,               \* the requests clients make
    AllowedClientHosts,  \* ALLOWED_CLIENT_HOSTS
    Unset,               \* an option that is not given
    MaxUpload,           \* UPLOAD_MAX_SIZE
    MaxLate              \* bound: late registrations before requests stop arriving

HostMiddleware == {"userResolver", "checkPermission", "verificationToken"}
Users == [id : Nat, permitted : BOOLEAN]

ASSUME RequestsAssumption ==
    /\ IsFiniteSet(Requests) /\ Calls # {}
    /\ \A call \in Calls : call.user \in Users /\ call.config.middleware \in Seq(HostMiddleware)

VARIABLES
    req,    \* the requests
    gauge,  \* http_requests_in_flight
    late    \* registrations of requestMetrics for a response already closed

vars == <<keyVars, req, gauge, late>>

-----------------------------------------------------------------------------
(* Endpoints and requests *)

\* The constructor: file or files is the list, which may be empty; multiPartFile
\* is not kept.
Endpoint(config) ==
    [authType |-> config.authType, acceptInvalid |-> config.acceptInvalid,
     whitelist |-> config.whitelist, isGithub |-> config.isGithub,
     files |-> IF config.file # Unset THEN {config.file} ELSE config.files,
     multiPartFile |-> FALSE, middleware |-> config.middleware]

\* register(): what a request of the endpoint goes through.
Register(e) ==
    <<"requestMetrics">>
    \o (IF e.authType = "none" THEN <<>> ELSE <<"auth">>)
    \o (IF e.files # Unset THEN <<"fileUploader">> ELSE <<>>)
    \o (IF e.multiPartFile THEN <<"multiPartFileUploader">> ELSE <<>>)
    \o (IF e.files = Unset /\ ~e.multiPartFile THEN <<"validate">> ELSE <<>>)
    \o e.middleware \o <<"handler">>

\* The default middleware and that of the host come first, fourOhFour where no
\* endpoint matches.  What only reads or logs is left out.
Chain(call) ==
    <<"bodyParser", "requestMetrics", "globalMiddleware">>
    \o (IF call.routed THEN Register(Endpoint(call.config)) ELSE <<"fourOhFour">>)

-----------------------------------------------------------------------------
(* Verdicts *)

\* A token needs a known key, a signature of that key, and valid claims.
AuthJwt(c) == c.bearer /\ c.kid \in keySet /\ c.genuine

AuthStatic(c) == c.bearer /\ c.genuine

AuthHmac(e, c) == (IF e.isGithub THEN c.header ELSE c.payload) = "matches"

AuthTls(e, c) ==
    LET whitelist == IF e.whitelist = Unset THEN AllowedClientHosts ELSE e.whitelist
    IN  c.authorized /\ (whitelist = {} \/ c.subjects \cap whitelist # {})

Accepts(e, c) ==
    CASE e.authType = "jwt"    -> AuthJwt(c)
      [] e.authType = "static" -> AuthStatic(c)
      [] e.authType = "hmac"   -> AuthHmac(e, c)
      [] e.authType = "tls"    -> AuthTls(e, c)

\* fileUploader: multer's limit, the validator, required files, type and size.
FilesAccepted(e, call) ==
    /\ \A f \in call.files : f.size <= MaxUpload
    /\ call.valid
    /\ \A o \in e.files : o.required => \E f \in call.files : f.key = o.key
    /\ \A f \in call.files, o \in e.files : f.key = o.key => f.mime \in o.mimeTypes /\ f.size <= o.maxSize

\* verificationToken: the token, its action, its subject and the one-time
\* password.  A subject is only compared when both sides have one.
VerificationAccepted(c, user) ==
    /\ c.verification.genuine /\ c.verification.action = "this" /\ c.verification.otp = "matches"
    /\ user.id # 0 /\ c.verification.sub # 0 => user.id = c.verification.sub

-----------------------------------------------------------------------------
NoUser == [id |-> 0, permitted |-> FALSE]

Idle == [pc |-> "idle", call |-> CHOOSE c \in Calls : TRUE, at |-> 1, user |-> NoUser,
         verified |-> FALSE, sent |-> FALSE, closed |-> FALSE, metered |-> 0]

TypeOK ==
    /\ KeyTypeOK
    /\ req \in [Requests ->
         [pc : {"idle", "chain", "asking", "over"}, call : Calls, at : Nat \ {0},
          user : Users, verified : BOOLEAN,
          sent : BOOLEAN, closed : BOOLEAN, metered : 0..2]]
    /\ \A r \in Requests : req[r].pc = "chain" => req[r].at <= Len(Chain(req[r].call))
    /\ gauge \in Nat /\ late \in Nat

Init ==
    /\ KeyInit
    /\ req = [r \in Requests |-> Idle] /\ gauge = 0 /\ late = 0

At(r, middleware) ==
    req[r].pc = "chain" /\ Chain(req[r].call)[req[r].at] = middleware

Called(r) == Endpoint(req[r].call.config)

\* next(): the middleware after this one.
Proceed(r) == req' = [req EXCEPT ![r].at = @ + 1] /\ UNCHANGED <<gauge, late>>

\* A request that is over and closed makes room for another.
Forget(state) == IF state.pc = "over" /\ state.closed THEN Idle ELSE state

Leave(r, sent) ==
    /\ req' = [req EXCEPT ![r] = Forget([req[r] EXCEPT !.pc = "over", !.sent = sent])]
    /\ UNCHANGED <<gauge, late>>

\* The response is sent and the chain is left.
Answer(r) == Leave(r, TRUE)

\* Mutant: every listener counts the request as done.
CleanupTwice(r, state) ==
    /\ gauge' = gauge - req[r].metered
    /\ req' = [req EXCEPT ![r] = Forget(state)]
    /\ UNCHANGED late

\* cleanup() of both registrations of requestMetrics, whatever comes first.
Cleanup(r, state) ==
    /\ gauge' = gauge - req[r].metered
    /\ req' = [req EXCEPT ![r] = Forget([state EXCEPT !.metered = 0])]
    /\ UNCHANGED late

\* Mutant: the error is caught and next() is not called.
FailSilently(r) == Leave(r, req[r].sent)

\* next(err): the error middleware answers, or express ends the connection.
Fail(r) ==
    \/ ~req[r].sent /\ Answer(r)
    \/ /\ req[r].sent
       /\ Cleanup(r, [req[r] EXCEPT !.pc = "over", !.closed = TRUE])

-----------------------------------------------------------------------------
(* A request and its middleware *)

Arrive(r, call) ==
    /\ req[r].pc = "idle" /\ interval = "armed" /\ late < MaxLate
    /\ req' = [req EXCEPT ![r] = [Idle EXCEPT !.pc = "chain", !.call = call]]
    /\ UNCHANGED <<gauge, late, keyVars>>

\* External: express.json() and express.urlencoded() wait for the body.
BodyParser(r) == At(r, "bodyParser") /\ (Proceed(r) \/ Fail(r)) /\ UNCHANGED keyVars

\* Counts the request, and listens for finish and close: events that a
\* response already closed has behind it, so that nothing counts down.
RequestMetrics(r) ==
    /\ At(r, "requestMetrics")
    /\ gauge' = gauge + 1
    /\ IF req[r].closed
       THEN late' = late + 1 /\ req' = [req EXCEPT ![r].at = @ + 1]
       ELSE late' = late /\ req' = [req EXCEPT ![r].at = @ + 1, ![r].metered = @ + 1]
    /\ UNCHANGED keyVars

\* The host's: it passes the request on, answers it or fails, in its own time.
GlobalMiddleware(r) ==
    /\ At(r, "globalMiddleware")
    /\ Proceed(r) \/ Answer(r) \/ Fail(r)
    /\ UNCHANGED keyVars

FourOhFour(r) == At(r, "fourOhFour") /\ Answer(r) /\ UNCHANGED keyVars

\* With acceptInvalid a failed authentication is only reported.
Auth(r) ==
    /\ At(r, "auth")
    /\ \/ /\ Accepts(Called(r), req[r].call)
          /\ req' = [req EXCEPT ![r].at = @ + 1, ![r].verified = TRUE,
                       ![r].user = IF Called(r).authType = "jwt" THEN req[r].call.user ELSE @]
          /\ UNCHANGED <<gauge, late>>
       \/ ~Accepts(Called(r), req[r].call) /\ Called(r).acceptInvalid /\ Proceed(r)
       \/ ~Accepts(Called(r), req[r].call) /\ ~Called(r).acceptInvalid /\ Fail(r)
    /\ UNCHANGED keyVars

Validate(r) ==
    /\ At(r, "validate")
    /\ IF req[r].call.valid THEN Proceed(r) ELSE Fail(r)
    /\ UNCHANGED keyVars

FileUploader(r) ==
    /\ At(r, "fileUploader")
    /\ IF FilesAccepted(Called(r), req[r].call) THEN Proceed(r) ELSE Fail(r)
    /\ UNCHANGED keyVars

\* 403 is sent by the middleware itself.
CheckPermission(r) ==
    /\ At(r, "checkPermission")
    /\ IF req[r].user.permitted THEN Proceed(r) ELSE Answer(r)
    /\ UNCHANGED keyVars

\* Without an id or USER_SERVICE_URL the request fails, else the user service
\* is called, with no timeout.
UserResolver(r) ==
    /\ At(r, "userResolver")
    /\ \/ /\ req[r].user.id # 0
          /\ req' = [req EXCEPT ![r].pc = "asking"]
          /\ UNCHANGED <<gauge, late>>
       \/ Fail(r)
    /\ UNCHANGED keyVars

\* What the service answers overrides the token; its failure, after the retries
\* of request(), fails the request.
UserServiceAnswers(r) ==
    /\ req[r].pc = "asking"
    /\ \/ \E permitted \in BOOLEAN :
             /\ req' = [req EXCEPT ![r].pc = "chain", ![r].at = @ + 1, ![r].user.permitted = permitted]
             /\ UNCHANGED <<gauge, late>>
       \/ Fail(r)
    /\ UNCHANGED keyVars

VerificationToken(r) ==
    /\ At(r, "verificationToken")
    /\ IF VerificationAccepted(req[r].call, req[r].user) THEN Proceed(r) ELSE Fail(r)
    /\ UNCHANGED keyVars

\* The host's handler sends its response, and returns or throws, also after it.
HandlerSends(r) ==
    /\ At(r, "handler") /\ ~req[r].sent
    /\ req' = [req EXCEPT ![r].sent = TRUE]
    /\ UNCHANGED <<gauge, late, keyVars>>

\* Mutant: next() is called after the handler.
HandlerGoesOn(r) ==
    /\ At(r, "handler") /\ req[r].sent
    /\ Proceed(r)
    /\ UNCHANGED keyVars

HandlerReturns(r) ==
    /\ At(r, "handler") /\ req[r].sent
    /\ Leave(r, TRUE)
    /\ UNCHANGED keyVars

HandlerThrows(r) == At(r, "handler") /\ Fail(r) /\ UNCHANGED keyVars

\* External: finish and close of the response.
Finish(r) ==
    /\ req[r].sent /\ ~req[r].closed /\ req[r].metered # 0
    /\ Cleanup(r, req[r])
    /\ UNCHANGED keyVars

Close(r) ==
    /\ req[r].pc # "idle" /\ ~req[r].closed
    /\ Cleanup(r, [req[r] EXCEPT !.closed = TRUE])
    /\ UNCHANGED keyVars

Step(r) ==
    \/ BodyParser(r) \/ RequestMetrics(r) \/ GlobalMiddleware(r) \/ FourOhFour(r)
    \/ Auth(r) \/ Validate(r) \/ FileUploader(r) \/ CheckPermission(r)
    \/ UserResolver(r) \/ VerificationToken(r)
    \/ HandlerSends(r) \/ HandlerReturns(r) \/ HandlerThrows(r)

Next ==
    \/ \E r \in Requests :
         \/ Step(r) \/ UserServiceAnswers(r) \/ Finish(r) \/ Close(r)
         \/ \E call \in Calls : Arrive(r, call)
    \/ KeyNext /\ UNCHANGED <<req, gauge, late>>

Spec == Init /\ [][Next]_vars

\* A body arrives or node times the request out, the middleware and the
\* handlers of the host end, and responses are flushed.
FairSpec ==
    /\ Spec
    /\ KeyFairness
    /\ \A r \in Requests : WF_vars(Step(r)) /\ WF_vars(Finish(r))

\* An assumption about the user service, which nothing in the code enforces:
\* request() sets no timeout.
UserServiceReplies == \A r \in Requests : WF_vars(UserServiceAnswers(r))

RepliedSpec == FairSpec /\ UserServiceReplies

-----------------------------------------------------------------------------
(* Properties *)

\* The gauge of requestMetrics counts each request in flight that has passed a
\* registration of it, at least once, and when none is open it holds nothing
\* but the late registrations: those made for a client that left while its
\* body was parsed or the middleware of the host ran.  Only they make the gauge
\* drift; finish, close and a destroyed connection each count down once for
\* each other registration.
Metered(r) == \E i \in 1..(req[r].at - 1) : Chain(req[r].call)[i] = "requestMetrics"
InFlight == {r \in Requests : req[r].pc \in {"chain", "asking"} /\ Metered(r) /\ ~req[r].sent /\ ~req[r].closed}
Open == {r \in Requests : req[r].pc # "idle" /\ ~req[r].closed}

GaugeBalanced ==
    /\ gauge >= late + Cardinality(InFlight)
    /\ Open = {} => gauge = late

\* A token is only accepted with a key that was published when the last
\* refresh that no other overlapped began, or later: replacing the key set
\* revokes the keys it no longer holds.
RevokedRefused ==
    [][\A r \in Requests :
         /\ ~req[r].verified /\ req'[r].verified
         /\ Called(r).authType = "jwt"
         => \E v \in floor..served : req[r].call.kid \in Published[v]]_vars

\* An older key set stored after a newer one, or a refresh that failed, does
\* not last: until shutdownKeySets() the process gets to know what is published.
KeysConverge ==
    <>[](initPc = "done" /\ interval # "cleared" => keySet = Published[served])

\* Every request is answered, whichever middleware ends it, unless its client
\* has left.  Checked under UserServiceReplies: userResolver waits for the user
\* service for ever.
Answered ==
    \A r \in Requests : req[r].pc \in {"chain", "asking"} ~> req[r].sent \/ req[r].closed

=============================================================================
