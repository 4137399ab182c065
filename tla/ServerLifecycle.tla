-------------------------- MODULE ServerLifecycle --------------------------
(***************************************************************************)
(* The life of a Server (src/entities/Server/Server.ts) and of the         *)
(* LifecycleController it drives: init(), the signal handlers, any number  *)
(* of overlapping shutdown() calls, cron jobs, and the HTTP and WebSocket  *)
(* connections whose presence decides how far a shutdown can go.           *)
(*                                                                         *)
(* One action is what runs between two awaits.  External, modelled from    *)
(* the way the code uses it: a callback or an instance's shutdown() ends   *)
(* at any time, well or not; http.Server.close() stops listening at once,  *)
(* drops the connections that are idle at that moment (node 19 and later)  *)
(* and calls back when no connection of that server is left, upgraded      *)
(* WebSocket connections included; a connection kept alive after its       *)
(* response stays as long as its client wants, for keepAliveTimeout is 0;  *)
(* a signal without a listener kills the process.  An init callback stands *)
(* for the client it opens (Redis, Sequelize, ...): on success that        *)
(* instance is running and registered.                                     *)
(***************************************************************************)
EXTENDS Naturals, Sequences, Functions, FiniteSets

CONSTANTS
    InitCallbacks,      \* config.initCallbacks, a sequence
    ShutdownCallbacks,  \* config.shutdownCallbacks, a sequence
    SyncCallbacks,      \* config.syncCallbacks
    PubSub,             \* the PubSub singleton, registered by PubSub.init
    SecretManager,      \* the SecretManager singleton
    UseSecretManager,   \* config.secretManager is given
    FetchKeys,          \* NODE_ENV # test and not auth.noFetch
    UseWebSocket,       \* config.webSocket is given
    Jobs,               \* config.cron
    Requests,           \* HTTP connections to the main server
    Scrapes,            \* HTTP connections to the secondary server
    Sockets,            \* WebSocket clients
    Callers,            \* direct calls of shutdown() by the host program
    Signals,            \* signals sent to the process (a bound), each of
                        \* which may make the handler call shutdown()
    CanCrash            \* may an uncaught error reach the global handlers

InitSet     == Range(InitCallbacks)
ShutdownSet == Range(ShutdownCallbacks)
Instances   == InitSet \cup {PubSub, SecretManager}
Http        == {"main", "secondary"}
Conns       == Requests \cup Scrapes \cup Sockets
Threads     == Callers \cup Signals

ASSUME LifecycleAssumption ==
    /\ InitCallbacks \in Seq(InitSet) /\ ShutdownCallbacks \in Seq(ShutdownSet)
    /\ {SyncCallbacks, UseSecretManager, FetchKeys, UseWebSocket, CanCrash}
         \subseteq BOOLEAN
    /\ PubSub \notin InitSet /\ SecretManager \notin InitSet
    /\ PubSub # SecretManager
    /\ Callers \cap Signals = {}
    /\ Requests \cap Scrapes = {} /\ Requests \cap Sockets = {}
    /\ Scrapes \cap Sockets = {}

VARIABLES
    initPc,         \* the await of init() that is pending
    cbInit,         \* state of each init callback
    handlers,       \* are the signal listeners installed
    watchers,       \* are the TLS file watchers open
    keyTimers,      \* is the KeySet refresh timer armed
    listening,      \* http.Server.listening
    conn,           \* state of each connection: "open" has a request under
                    \* way or is a WebSocket, "idle" is kept alive, "closing"
                    \* was told to close
    wss,            \* the WebSocketServer: "open", "closing", "closed"
    registered,     \* runningInstances
    instance,       \* state of each instance
    job,            \* state of each cron job
    aborted,        \* abortController.signal.aborted
    isShuttingDown, \* the flag of handleSignal
    sent,           \* signals sent so far
    stop,           \* the await of each shutdown() call that is pending
    waits,          \* the HTTP servers each call is waiting for
    cbStop,         \* state of the shutdown callbacks of each call
    pending,        \* instance shutdowns each call is waiting for
    dying,          \* an uncaught error has armed the exit(1) timer
    exit            \* how the process ended: "none", "0", "1", "killed"

startVars == <<initPc, cbInit, handlers, watchers, keyTimers>>
netVars   == <<listening, conn, wss>>
entVars   == <<registered, instance>>
jobVars   == <<job, aborted>>
sigVars   == <<isShuttingDown, sent>>
stopVars  == <<stop, waits, cbStop, pending>>
procVars  == <<dying, exit>>
vars == <<startVars, netVars, entVars, jobVars, sigVars, stopVars, procVars>>

InitStages == {"created", "secrets", "keys", "callbacks", "pubsub", "listen",
               "running", "unwatched", "stuck", "failed"}
StopStages == {"idle", "draining", "wsWait", "wsClose", "callbacks",
               "entities", "done", "failed"}
CallbackStates == {"idle", "pending", "done", "failed"}

TypeOK ==
    /\ initPc \in InitStages
    /\ cbInit \in [InitSet -> CallbackStates]
    /\ handlers \in BOOLEAN /\ watchers \in BOOLEAN /\ keyTimers \in BOOLEAN
    /\ listening \in [Http -> BOOLEAN]
    /\ conn \in [Conns -> {"new", "open", "idle", "closing", "gone"}]
    /\ wss \in {"open", "closing", "closed"}
    /\ registered \subseteq Instances
    /\ \A i \in registered : instance[i] # "absent"
    /\ instance \in [Instances -> {"absent", "running", "stopping", "stopped",
                                   "failed"}]
    /\ job \in [Jobs -> {"none", "running", "waiting", "ended", "failed"}]
    /\ aborted \in BOOLEAN /\ isShuttingDown \in BOOLEAN
    /\ sent \subseteq Signals
    /\ stop \in [Threads -> StopStages]
    /\ waits \in [Threads -> SUBSET Http]
    /\ cbStop \in [Threads -> [ShutdownSet -> CallbackStates]]
    /\ pending \in [Threads -> SUBSET Instances]
    /\ dying \in BOOLEAN
    /\ exit \in {"none", "0", "1", "killed"}

Init ==
    /\ initPc = "created"
    /\ cbInit = [c \in InitSet |-> "idle"]
    /\ handlers = FALSE /\ watchers = FALSE /\ keyTimers = FALSE
    /\ listening = [s \in Http |-> FALSE]
    /\ conn = [x \in Conns |-> "new"]
    /\ wss = "open"
    /\ registered = {}
    /\ instance = [i \in Instances |-> "absent"]
    /\ job = [j \in Jobs |-> "none"]
    /\ aborted = FALSE
    /\ isShuttingDown = FALSE
    /\ sent = {}
    /\ stop = [t \in Threads |-> "idle"]
    /\ waits = [t \in Threads |-> {}]
    /\ cbStop = [t \in Threads |-> [c \in ShutdownSet |-> "idle"]]
    /\ pending = [t \in Threads |-> {}]
    /\ dying = FALSE
    /\ exit = "none"

Alive == exit = "none"

\* A callback is running: all are at once, or one by one in sync mode.
Runs(seq, state, c) ==
    /\ state[c] = "pending"
    /\ SyncCallbacks => \A i, j \in DOMAIN seq :
                            seq[j] = c /\ i < j => state[seq[i]] = "done"

\* Mutants: an instance registered before it exists, or never.
RegisterUncreated(i) == registered' = registered \cup {i} /\ UNCHANGED instance
RegisterForgotten(i) == /\ instance' = [instance EXCEPT ![i] = "running"]
                        /\ UNCHANGED registered

Register(i) == /\ registered' = registered \cup {i}
               /\ instance' = [instance EXCEPT ![i] = "running"]

Open(x)  == conn[x] \in {"open", "idle", "closing"}
ServerOf(x) == IF x \in Scrapes THEN "secondary" ELSE "main"
Drained(s) == \A x \in Conns : ServerOf(x) = s => ~Open(x)

-----------------------------------------------------------------------------
(* init() *)

\* Move to the next await; the callbacks are all called on the way in.
Proceed(stage) ==
    /\ initPc' = stage
    /\ cbInit' = IF stage = "callbacks" THEN [c \in InitSet |-> "pending"]
                                        ELSE cbInit

AfterSecrets == IF FetchKeys THEN "keys" ELSE "callbacks"

\* The call of init(), up to its first await: SecretManager registers itself
\* before it loads anything.
StartInit ==
    /\ Alive /\ initPc = "created"
    /\ IF UseSecretManager THEN Proceed("secrets") /\ Register(SecretManager)
                           ELSE Proceed(AfterSecrets) /\ UNCHANGED entVars
    /\ UNCHANGED <<handlers, watchers, keyTimers, netVars, jobVars, sigVars,
                   stopVars, procVars>>

SecretsLoaded ==
    /\ Alive /\ initPc = "secrets"
    /\ Proceed(AfterSecrets)
    /\ UNCHANGED <<handlers, watchers, keyTimers, netVars, entVars, jobVars,
                   sigVars, stopVars, procVars>>

KeysFetched ==
    /\ Alive /\ initPc = "keys"
    /\ Proceed("callbacks")
    /\ keyTimers' = TRUE
    /\ UNCHANGED <<handlers, watchers, netVars, entVars, jobVars, sigVars,
                   stopVars, procVars>>

\* An awaited step of init() rejects, and init() with it.
InitStepFails ==
    /\ Alive /\ initPc \in {"secrets", "keys", "pubsub"}
    /\ initPc' = "failed"
    /\ UNCHANGED <<cbInit, handlers, watchers, keyTimers, netVars, entVars,
                   jobVars, sigVars, stopVars, procVars>>

\* In parallel mode a callback may still end after another one failed.
InitCallbackDone(c) ==
    /\ Alive /\ Runs(InitCallbacks, cbInit, c)
    /\ cbInit' = [cbInit EXCEPT ![c] = "done"]
    /\ Register(c)
    /\ UNCHANGED <<initPc, handlers, watchers, keyTimers, netVars, jobVars,
                   sigVars, stopVars, procVars>>

InitCallbackFails(c) ==
    /\ Alive /\ Runs(InitCallbacks, cbInit, c)
    /\ cbInit' = [cbInit EXCEPT ![c] = "failed"]
    /\ initPc' = "failed"
    /\ UNCHANGED <<handlers, watchers, keyTimers, netVars, entVars, jobVars,
                   sigVars, stopVars, procVars>>

InitCallbacksDone ==
    /\ Alive /\ initPc = "callbacks"
    /\ \A c \in InitSet : cbInit[c] = "done"
    /\ Proceed("pubsub")
    /\ UNCHANGED <<handlers, watchers, keyTimers, netVars, entVars, jobVars,
                   sigVars, stopVars, procVars>>

PubSubReady ==
    /\ Alive /\ initPc = "pubsub"
    /\ Proceed("listen")
    /\ Register(PubSub)
    /\ UNCHANGED <<handlers, watchers, keyTimers, netVars, jobVars, sigVars,
                   stopVars, procVars>>

\* Cron jobs start, both servers listen, then the signal listeners and the
\* file watchers are installed.  A port that cannot be bound emits 'error':
\* uncaught, unless the WebSocketServer listens to the main server's errors;
\* either way init() never settles.  fs.watch throws at a file that is not
\* there: init() rejects, with everything up and the earlier files watched.
StartListening(bound) ==
    /\ Alive /\ initPc = "listen"
    /\ job' = [j \in Jobs |-> "running"]
    /\ listening' = [s \in Http |-> s \in bound]
    /\ initPc' \in IF bound = Http THEN {"running", "unwatched"} ELSE {"stuck"}
    /\ handlers' = (bound = Http)
    /\ watchers' \in IF bound = Http THEN {TRUE, initPc' = "running"} ELSE {FALSE}
    /\ dying' = (dying \/ "secondary" \notin bound
                       \/ ("main" \notin bound /\ ~UseWebSocket))
    /\ UNCHANGED <<cbInit, keyTimers, conn, wss, entVars, aborted, sigVars,
                   stopVars, exit>>

-----------------------------------------------------------------------------
(* Connections (external) *)

Connect(x) ==
    /\ Alive /\ conn[x] = "new" /\ listening[ServerOf(x)]
    /\ x \in Sockets => UseWebSocket /\ wss = "open"
    /\ conn' = [conn EXCEPT ![x] = "open"]
    /\ UNCHANGED <<startVars, listening, wss, entVars, jobVars, sigVars,
                   stopVars, procVars>>

Becomes(x, state) ==
    /\ conn' = [conn EXCEPT ![x] = state]
    /\ UNCHANGED <<startVars, listening, wss, entVars, jobVars, sigVars,
                   stopVars, procVars>>

\* A response is sent; the connection is kept, unless client or response say
\* "Connection: close".
RequestServed(x) ==
    /\ Alive /\ x \notin Sockets /\ conn[x] = "open"
    /\ \E state \in {"idle", "gone"} : Becomes(x, state)

\* The next request on a connection that was kept: close() does not refuse it.
RequestAgain(x) == Alive /\ conn[x] = "idle" /\ Becomes(x, "open")

\* A client, or the load balancer, closes a connection of its own accord.
ClientCloses(x) == Alive /\ conn[x] \in {"open", "idle"} /\ Becomes(x, "gone")

\* A WebSocket client answers the close frame of socket.close(), or a
\* connection destroyed by http.Server.close() is gone.
ConnectionCloses(x) == Alive /\ conn[x] = "closing" /\ Becomes(x, "gone")

-----------------------------------------------------------------------------
(* Cron jobs *)

JobStep(j, from, to) ==
    /\ Alive /\ job[j] = from
    /\ job' = [job EXCEPT ![j] = to]
    /\ UNCHANGED <<startVars, netVars, entVars, aborted, sigVars, stopVars,
                   procVars>>

\* The wait for the next run rejects at once when the signal is aborted.
JobFinished(j) == JobStep(j, "running", IF aborted THEN "ended" ELSE "waiting")
JobAgain(j)    == JobStep(j, "waiting", "running")
JobFailed(j)   == JobStep(j, "running", "failed")

-----------------------------------------------------------------------------
(* shutdown(), one activation per thread *)

\* Up to the first await: both servers stop listening and drop what is idle; a
\* server that is not listening is not waited for.
BeginStop(t) ==
    /\ stop[t] = "idle"
    /\ stop' = [stop EXCEPT ![t] = "draining"]
    /\ waits' = [waits EXCEPT ![t] = {s \in Http : listening[s]}]
    /\ listening' = [s \in Http |-> FALSE]
    /\ conn' = [x \in Conns |-> IF conn[x] = "idle" /\ listening[ServerOf(x)]
                                THEN "closing" ELSE conn[x]]
    /\ UNCHANGED <<cbStop, pending, wss>>

StartShutdownCallbacks(t) ==
    /\ stop' = [stop EXCEPT ![t] = "callbacks"]
    /\ cbStop' = [cbStop EXCEPT ![t] = [c \in ShutdownSet |-> "pending"]]
    /\ UNCHANGED <<waits, pending>>

\* Mutant: the close callbacks are not awaited.
HttpNotAwaited(t) ==
    /\ Alive /\ stop[t] = "draining"
    /\ StartShutdownCallbacks(t)
    /\ UNCHANGED <<startVars, netVars, entVars, jobVars, sigVars, procVars>>

\* The close callbacks have come; sockets are asked to close.
HttpClosed(t) ==
    /\ Alive /\ stop[t] = "draining"
    /\ \A s \in waits[t] : Drained(s)
    /\ IF UseWebSocket
       THEN /\ stop' = [stop EXCEPT ![t] = "wsWait"]
            /\ conn' = [x \in Conns |-> IF x \in Sockets /\ conn[x] = "open"
                                        THEN "closing" ELSE conn[x]]
            /\ UNCHANGED <<waits, cbStop, pending>>
       ELSE StartShutdownCallbacks(t) /\ UNCHANGED conn
    /\ UNCHANGED <<startVars, listening, wss, entVars, jobVars, sigVars,
                   procVars>>

\* WEBSOCKET_CLOSE_TIMEOUT is over: terminate what is left, close the
\* WebSocketServer; closing it a second time is an error.
SocketKillTimeout(t) ==
    /\ Alive /\ stop[t] = "wsWait"
    /\ conn' = [x \in Conns |-> IF x \in Sockets /\ Open(x)
                                THEN "gone" ELSE conn[x]]
    /\ IF wss = "closed"
       THEN stop' = [stop EXCEPT ![t] = "failed"] /\ UNCHANGED wss
       ELSE stop' = [stop EXCEPT ![t] = "wsClose"] /\ wss' = "closing"
    /\ UNCHANGED <<startVars, listening, entVars, jobVars, sigVars, waits,
                   cbStop, pending, procVars>>

WssCloses ==
    /\ Alive /\ wss = "closing"
    /\ \A x \in Sockets : ~Open(x)
    /\ wss' = "closed"
    /\ UNCHANGED <<startVars, listening, conn, entVars, jobVars, sigVars,
                   stopVars, procVars>>

WssClosed(t) ==
    /\ Alive /\ stop[t] = "wsClose" /\ wss = "closed"
    /\ StartShutdownCallbacks(t)
    /\ UNCHANGED <<startVars, netVars, entVars, jobVars, sigVars, procVars>>

ShutdownCallbackDone(t, c) ==
    /\ Alive /\ Runs(ShutdownCallbacks, cbStop[t], c)
    /\ cbStop' = [cbStop EXCEPT ![t][c] = "done"]
    /\ UNCHANGED <<startVars, netVars, entVars, jobVars, sigVars, stop, waits,
                   pending, procVars>>

\* Mutant: the rejection of a callback does not reach the promise of shutdown().
CallbackFailureLost(t, c) ==
    /\ Alive /\ Runs(ShutdownCallbacks, cbStop[t], c)
    /\ cbStop' = [cbStop EXCEPT ![t][c] = "failed"]
    /\ UNCHANGED <<startVars, netVars, entVars, jobVars, sigVars, stop, waits,
                   pending, procVars>>

\* shutdown() rejects; in parallel mode the other callbacks still run.
ShutdownCallbackFails(t, c) ==
    /\ Alive /\ Runs(ShutdownCallbacks, cbStop[t], c)
    /\ cbStop' = [cbStop EXCEPT ![t][c] = "failed"]
    /\ stop' = [stop EXCEPT ![t] = "failed"]
    /\ UNCHANGED <<startVars, netVars, entVars, jobVars, sigVars, waits,
                   pending, procVars>>

\* Mutant: the promises of the instances are not awaited.
InstancesNotAwaited(t) ==
    /\ Alive /\ stop[t] = "callbacks"
    /\ \A c \in ShutdownSet : cbStop[t][c] = "done"
    /\ stop' = [stop EXCEPT ![t] = "entities"]
    /\ instance' = [i \in Instances |->
                      IF i \in registered THEN "stopping" ELSE instance[i]]
    /\ UNCHANGED <<startVars, netVars, registered, jobVars, sigVars, waits,
                   cbStop, pending, procVars>>

\* shutdownRunningInstances(), up to its await: every registered instance's
\* shutdown() is called, whatever an earlier call made of it.
ShutdownInstances(t) ==
    /\ Alive /\ stop[t] = "callbacks"
    /\ \A c \in ShutdownSet : cbStop[t][c] = "done"
    /\ stop' = [stop EXCEPT ![t] = "entities"]
    /\ pending' = [pending EXCEPT ![t] = registered]
    /\ instance' = [i \in Instances |->
                      IF i \in registered /\ instance[i] = "running"
                      THEN "stopping" ELSE instance[i]]
    /\ UNCHANGED <<startVars, netVars, registered, jobVars, sigVars, waits,
                   cbStop, procVars>>

InstanceStopped(t, i) ==
    /\ Alive /\ i \in pending[t]
    /\ pending' = [pending EXCEPT ![t] = @ \ {i}]
    /\ instance' = [instance EXCEPT ![i] = "stopped"]
    /\ UNCHANGED <<startVars, netVars, registered, jobVars, sigVars,
                   stop, waits, cbStop, procVars>>

\* Promise.all rejects: the set is not cleared, the others are not awaited.
InstanceStopFails(t, i) ==
    /\ Alive /\ i \in pending[t]
    /\ pending' = [pending EXCEPT ![t] = @ \ {i}]
    /\ instance' = [instance EXCEPT ![i] = IF @ = "stopping" THEN "failed" ELSE @]
    /\ stop' = [stop EXCEPT ![t] = "failed"]
    /\ UNCHANGED <<startVars, netVars, registered, jobVars, sigVars,
                   waits, cbStop, procVars>>

\* runningInstances.clear(), then the synchronous end of shutdown().
FinishStop(t) ==
    /\ Alive /\ stop[t] = "entities" /\ pending[t] = {}
    /\ stop' = [stop EXCEPT ![t] = "done"]
    /\ registered' = {}
    /\ aborted' = TRUE
    /\ job' = [j \in Jobs |-> IF job[j] = "waiting" THEN "ended" ELSE job[j]]
    /\ watchers' = FALSE /\ keyTimers' = FALSE /\ handlers' = FALSE
    /\ UNCHANGED <<initPc, cbInit, netVars, instance, sigVars, waits,
                   cbStop, pending, procVars>>

-----------------------------------------------------------------------------
(* Who calls shutdown(), and how the process ends *)

\* The host program awaits init() before it calls shutdown().
HostStops(t) ==
    /\ Alive /\ initPc \in {"running", "unwatched", "failed"}
    /\ BeginStop(t)
    /\ UNCHANGED <<startVars, entVars, jobVars, sigVars, procVars>>

\* Mutant: handleSignal without its isShuttingDown test.
SignalUnguarded(s) ==
    /\ Alive /\ s \notin sent /\ sent' = sent \cup {s}
    /\ handlers /\ isShuttingDown' = TRUE
    /\ BeginStop(s)
    /\ UNCHANGED <<startVars, entVars, jobVars, procVars>>

Signal(s) ==
    /\ Alive /\ s \notin sent /\ sent' = sent \cup {s}
    /\ \/ /\ ~handlers
          /\ exit' = "killed"
          /\ UNCHANGED <<isShuttingDown, dying, netVars, stopVars>>
       \/ /\ handlers /\ ~isShuttingDown
          /\ isShuttingDown' = TRUE
          /\ BeginStop(s)
          /\ UNCHANGED procVars
       \/ /\ handlers /\ isShuttingDown
          /\ UNCHANGED <<isShuttingDown, netVars, stopVars, procVars>>
    /\ UNCHANGED <<startVars, entVars, jobVars>>

\* Mutant: the rejection of shutdown() is not caught.
ExitWithoutCatch(s) ==
    /\ Alive /\ stop[s] = "done"
    /\ exit' = "0"
    /\ UNCHANGED <<startVars, netVars, entVars, jobVars, sigVars, stopVars,
                   dying>>

\* shutdown().then(exit 0).catch(exit 1)
ExitAfterStop(s) ==
    /\ Alive /\ stop[s] \in {"done", "failed"}
    /\ exit' = IF stop[s] = "done" THEN "0" ELSE "1"
    /\ UNCHANGED <<startVars, netVars, entVars, jobVars, sigVars, stopVars,
                   dying>>

\* An uncaught exception or unhandled rejection arms the exit(1) timer.
UncaughtError ==
    /\ Alive /\ CanCrash /\ initPc # "created" /\ ~dying
    /\ dying' = TRUE
    /\ UNCHANGED <<startVars, netVars, entVars, jobVars, sigVars, stopVars,
                   exit>>

ExitAfterError ==
    /\ Alive /\ dying
    /\ exit' = "1"
    /\ UNCHANGED <<startVars, netVars, entVars, jobVars, sigVars, stopVars,
                   dying>>

InitStep ==
    \/ StartInit \/ SecretsLoaded \/ KeysFetched \/ InitStepFails
    \/ \E c \in InitSet : InitCallbackDone(c) \/ InitCallbackFails(c)
    \/ InitCallbacksDone \/ PubSubReady
    \/ \E bound \in SUBSET Http : StartListening(bound)

StopStep(t) ==
    \/ HttpClosed(t) \/ SocketKillTimeout(t) \/ WssClosed(t)
    \/ \E c \in ShutdownSet :
           ShutdownCallbackDone(t, c) \/ ShutdownCallbackFails(t, c)
    \/ ShutdownInstances(t)
    \/ \E i \in Instances : InstanceStopped(t, i) \/ InstanceStopFails(t, i)
    \/ FinishStop(t)

Next ==
    \/ InitStep
    \/ \E x \in Conns : Connect(x) \/ RequestServed(x) \/ RequestAgain(x)
                        \/ ClientCloses(x) \/ ConnectionCloses(x)
    \/ \E j \in Jobs : JobFinished(j) \/ JobAgain(j) \/ JobFailed(j)
    \/ \E t \in Threads : StopStep(t)
    \/ WssCloses
    \/ \E t \in Callers : HostStops(t)
    \/ \E s \in Signals : Signal(s) \/ ExitAfterStop(s)
    \/ UncaughtError \/ ExitAfterError

Spec == Init /\ [][Next]_vars

-----------------------------------------------------------------------------
(* Fairness: node runs every callback and timer that is due; the callbacks,*)
(* instances and jobs of the host end; requests are answered, and a socket *)
(* asked to close answers.  No timeout of the server ends a connection that*)
(* is kept alive ("this responsibility is delegated to the front-facing    *)
(* load balancer", Server.ts:150), and nothing makes a WebSocket client    *)
(* leave before it is asked to: ClientsLeave is an assumption on the world *)
(* outside, stated on its own.                                             *)

ServerFairness ==
    /\ WF_vars(InitStep)
    /\ \A t \in Threads : WF_vars(StopStep(t))
    /\ \A x \in Conns : WF_vars(RequestServed(x)) /\ WF_vars(ConnectionCloses(x))
    /\ WF_vars(WssCloses)
    /\ \A s \in Signals : WF_vars(ExitAfterStop(s))
    /\ WF_vars(ExitAfterError)

ClientsLeave == \A x \in Conns : WF_vars(ClientCloses(x))

FairSpec == Spec /\ ServerFairness
CooperativeSpec == FairSpec /\ ClientsLeave

-----------------------------------------------------------------------------
(* Properties *)

\* Server.ts:328: an entity (database, cache, Pub/Sub, ...) is shut down only
\* when no request and no socket that could still use it is open.  Holds when
\* shutdown() is only called by the signal handler.
DrainedBeforeRelease ==
    (\E i \in Instances : instance[i] \in {"stopping", "stopped", "failed"})
        => \A x \in Conns : ~Open(x)

\* Why: what is known of init(), of the flag and of a signal's shutdown() at
\* each of their awaits.  Inductive with TypeOK when Callers = {}.
NotDrained(s) == stop[s] \in {"idle", "draining"}

CallbacksOver == initPc \in {"pubsub", "listen", "running", "unwatched", "stuck"} =>
                     \A c \in InitSet : cbInit[c] = "done"
FlagGuards    == /\ ~isShuttingDown => \A s \in Signals : stop[s] = "idle"
                 /\ isShuttingDown => /\ initPc \in {"running", "unwatched"}
                                     /\ \A h \in Http : ~listening[h]
                 /\ handlers => initPc \in {"running", "unwatched"}
                 /\ handlers /\ ~isShuttingDown => \A h \in Http : listening[h]
StopOrder     == \A s \in Signals :
                     /\ stop[s] = "draining" => waits[s] = Http
                     /\ NotDrained(s) => /\ pending[s] = {}
                                         /\ \A c \in ShutdownSet : cbStop[s][c] # "pending"
                     /\ ~NotDrained(s) => \A x \in Conns : ~Open(x)
ReleaseOrder  == (\E i \in Instances : instance[i] \in {"stopping", "stopped", "failed"})
                     => \E s \in Signals : ~NotDrained(s)

DrainInv == TypeOK /\ CallbacksOver /\ FlagGuards /\ StopOrder /\ ReleaseOrder

\* Server.ts:409: once a graceful shutdown has begun, neither exit(0) nor a
\* further signal ends the process before every instance is stopped, every
\* shutdown callback has run and no timer or watcher is left.
Released ==
    /\ registered = {} /\ \A i \in Instances : instance[i] \in {"absent", "stopped"}
    /\ ~watchers /\ ~keyTimers /\ \A j \in Jobs : job[j] # "waiting"
    /\ \E s \in Signals : \A c \in ShutdownSet : cbStop[s][c] = "done"

GracefulExit == isShuttingDown /\ exit \in {"0", "killed"} => Released

\* Server.ts:394: a signal the handler has taken ends the process, provided
\* that every client, or the load balancer for it, closes its connection in
\* the end (ClientsLeave): nothing in the server does.
SignalEndsProcess == isShuttingDown ~> ~Alive

\* Server.ts:328: a shutdown() that resolves leaves no instance running, even
\* after a failed init() and with several calls at once.  Holds in sync mode:
\* in parallel mode a callback may end after the instances were collected.
StoppedLeavesNothing ==
    \A t \in Threads : stop[t] = "done" =>
        \A i \in Instances : instance[i] # "running"

\* Every shutdown() call of the host settles, or the process ends, provided
\* that every client closes its connection in the end (ClientsLeave).
StopSettles ==
    \A t \in Callers : stop[t] # "idle" ~> (stop[t] \in {"done", "failed"} \/ ~Alive)

\* Server.ts:287: "Hard terminate all connections still open after a defined
\* time".  Refuted: shutdown() first awaits the close of the HTTP server,
\* which waits for the upgraded connections.
HardTerminates == isShuttingDown ~> ((\A x \in Sockets : ~Open(x)) \/ ~Alive)

-----------------------------------------------------------------------------
(* Refinement: under signal-only use the server implements GracefulStop.   *)

Phase == IF ~Alive THEN "ended"
         ELSE IF isShuttingDown THEN "draining"
         ELSE IF \E s \in Http : listening[s] THEN "serving" ELSE "starting"

Outcome == IF exit = "0" THEN "clean" ELSE IF Alive THEN "none" ELSE "aborted"

GS == INSTANCE GracefulStop WITH
        Clients <- Conns, Resources <- Instances, phase <- Phase,
        active <- {x \in Conns : Open(x)},
        held <- {i \in Instances : instance[i] \notin {"absent", "stopped"}},
        outcome <- Outcome

Graceful == GS!Spec
=============================================================================
