# Verification of node-server-engine

TLA+ models of node-server-engine (`src/src`, TypeScript), checked with TLC, and
proofs checked with TLAPS.  `PROJECT.json` maps every definition to the lines it
models.

## 1. The system

node-server-engine is a library for backend services.  A host program builds a
`Server` from endpoints, WebSocket handlers, callbacks and cron jobs; the server
initialises the *entities* the host uses (Pub/Sub, Redis, Sequelize,
Elasticsearch, Secret Manager, ...), serves HTTP and WebSocket clients, and
releases everything on a signal.  All of it is one node process: code between two
`await`s is atomic, everything else interleaves.

| Component | State | Operations | Talks to |
|---|---|---|---|
| Server | servers, WebSocketServer, abort controller, `isShuttingDown` | constructor, init, shutdown, signal handlers, cron jobs, TLS watchers | all entities, by LifecycleController |
| LifecycleController | `runningInstances` | register, shutdownRunningInstances | each entity's `shutdown()` |
| SocketClient, MessageHandler | user, audience, `authenticated`, two timers, `isAlive`, list of clients | authenticate, handle messages, ping, close | jwt, the host's handlers |
| PubSub, PushNotification | topics, subscriptions with their handlers | addPublisher, addSubscriber, init, publish, handleMessage, shutdown | Google Pub/Sub, the host's handlers |
| SecretManager | options, client, cache, temporary files | init, reload, fetch, shutdown | Google Secret Manager, `process.env`, disk |
| Redis, Sequelize | one client each | init, shutdown, the proxy of commands | database servers |
| ElasticSearch | one client; the index `migrations` | init, migrate, shutdown | the cluster |
| dbMigration | table `sequelize_meta` | migrate metadata, run pending, roll back | database |
| KeySet, jwt, request | keys, refresh timer | fetch, getKey, verify, retry | key server |
| MultiPartFileUploader | session folders, merged files | receive a chunk, merge | disk |
| Endpoint and middleware | none but the metrics | chain of a request | express, prom-client |
| GoogleCloudStorage, AWSS3, Gemini | none but the upload under way | upload, delete, poll | cloud services |
| Localizator, utilities | a cache, or none | see `PROJECT.json` | |

### What is hard in it

- **Interleaving of shutdowns.** A signal, a second signal, an uncaught error, a
  direct `shutdown()` of the host and the end of an earlier one all meet in
  `Server.shutdown()`, which reads the state of the servers at its first await
  and acts on it later.
- **Timers against messages.** A WebSocket client renews its token while the
  timers of the previous one are due, while handlers are suspended, and while
  the close event is on its way.
- **Delivery.** Pub/Sub delivers a message again when its lease is lost, when a
  handler failed and when the process crashed, also while it is still handled.
- **Files without a lock.** The chunks of an upload are counted in a folder that
  other requests write to and remove; secrets are on disk before they are listed
  for deletion.
- **Migrations of several processes.** Processes of different versions start at
  the same time, crash between a migration and its record, and read an index
  that is behind, or a table that another one is just copying.
- **Clients that are shared.** A client variable is tested before an await and
  cleared after it, by calls of the host and of the LifecycleController.
- **Streams.** The events of a source, of the write stream and of the service
  come in any order, and a promise is settled only once.
- **Partial failure.** Callbacks, entities, handlers and requests fail one at a
  time among others that are pending.

`PROJECT.json` lists these as `hazards`, each at its line with the properties
that cover it or the reason why none does.

### What makes each component correct

| Component | Properties |
|---|---|
| Server, LifecycleController | nothing is released in use; a clean exit has released everything and left no job waiting; a stopped server leaves no instance; a signal ends the process |
| SocketClient, MessageHandler | authenticated exactly as long as the latest token is valid, as its user; protected handlers are entered only when authenticated; a reminder before expiration; a vanished peer is dropped and nothing of it is left |
| PubSub | nothing consumed before validation; at-least-once processing; publishers flushed before the client is closed; every message acknowledged in the end |
| MultiPartFileUploader | complete means whole; a client that goes on is told that it is complete |
| SecretManager | the result is true; loads are fresh; secrets stay available; a clean stop |
| ElasticSearch | initialised means migrated; no migration starts before its predecessors were carried out |
| Redis, Sequelize | once the instances are shut down, what was registered is no longer connected |
| DbMigration | resolved means migrated, whatever raced or crashed; nothing later than the target stays recorded after a rollback; `semverCompare` is an order |
| KeySet, jwt, request | a token is only accepted with a key that is still published; the keys converge to what is published |
| Endpoint, middleware, RequestMetrics | every request is answered once the services it asks have; the gauge of open requests drifts only by what was counted after its client had left |
| GoogleCloudStorage, AWSS3, Gemini | an upload that resolves is whole, within its limit and, under a name of its own, replaces nothing; uploads settle without a temporary file, but for a source nobody hears |

## 2. The modules

Code between two `await`s is one action, with every call it makes that changes
state.  Where a function calls another without awaiting, they are one action.
What is outside of the process (brokers, the disk, database servers, clients)
answers at any time or fails, a bounded number of times.  Wording, logging and
payloads are left out: a message, a token or a secret is a model value or a
small record.

**GracefulStop, ServerLifecycle, MCServer.**  `GracefulStop` says what a server
promises: while it serves, clients come and go and resources are acquired; once it
drains nobody is accepted, resources are released only when no client is left, and
it ends clean only with nothing held.  `ServerLifecycle` is `Server.ts` with
`LifecycleController.ts`: `initPc` is the await `init()` is suspended at, `stop`
the await of each call of `shutdown()` (one thread for each signal and for each
call of the host), `waits`, `cbStop` and `pending` what that call waits for.
`listening`, `conn` and `wss` are node's HTTP servers, connections and the
WebSocketServer, `registered` is `runningInstances`.  `http.Server.close()` is
external: it stops listening at once, drops the connections that are idle then
(node 19 and later) and calls back when no connection of that server is left,
upgraded WebSocket connections included.  A connection whose request is under way
at that moment is kept after the response: the constructor sets
`keepAliveTimeout = 0` (`Server.ts:149-156`), so only the client or the load
balancer ends it (`RequestServed`, `RequestAgain`, `ClientCloses`).  At the end of
`init()` a port may be taken (`stuck`) or `fs.watch` throw (`unwatched`).

**SocketClient, MCSocket.**  One connection.  `timers` holds the reminder and
expiration timers that are armed, `verifying` the token whose verification is
awaited, `task` where the loop over the handlers stands for each message, `ws`,
`peer` and `isAlive` the socket as the process sees it, the other end, and the
flag of the ping interval.  Time is a clock that stops at `MaxTime`; it does not
pass a due timer, as the event loop runs it.  `setTimeout`'s limit is
`MaxDelay`.  `MessageHandler.handle()` is `Enter`.

**AtLeastOnce, PubSub, MCPubSub.**  `AtLeastOnce` says what a consumer promises
for each message.  `PubSub` is the registration of topics, subscriptions and
handlers, the validation with its bounded retries, `handleMessage` for every
concurrent delivery (a slot), publishing and `shutdown()`, together with the
broker: a delivery is made again after a nack, a lost lease or a crash.  A
`flush()` or `close()` that rejects rejects `shutdown()` at once, with the others
still under way and the client open (`stopFailed`); a client whose `close()` rejects
may be closed or not (`unclosed`).  Registration takes place before `init()`.

**MultiPartUpload.**  One session: the parts in the session folder with what is in
them, the folder, the merged file, and each request at its await.  The file
system completes or fails each operation; a crash drops the requests and keeps the
disk.  A request that finds its folder gone when it lists the parts is never
answered (`hung`): `readdir` rejects in a callback nobody awaits
(`multiPartFileUploader.ts:145`), and the server's handler of unhandled rejections
ends the process (`RejectionExits`, `Server.ts:174-180`).  `Careful` is the client
the documentation has in mind: it sends a chunk again when it was not told that it
arrived.

**SecretManager, MCSecrets.**  Each call of `init()` and `reload()` is a call of
`loadSecrets()` at its await, `stop` is the call of `shutdown()`; the value of a
secret is its version, so that old and new can be told apart.  A write of a file that
fails may have created it and written a part of it (`WriteFails`); `kept` are the
files left so, which `tempFiles` does not list, and those whose deletion failed.

**ElasticSearch, MCElastic.**  Processes with the migrations they were deployed
with, each at a request of `init()`, `migrate()` or `shutdown()`, and the index
of the cluster, of which a search only finds what was refreshed.  `Alike` is what
a match query on a file name finds.

**KeySet, Requests, MCRequests.**  `KeySet` is the key set of `jwt.ts` with its
timer; `fetch` holds the fetches of the network at `request()` or its answer, and
`served` which of the published key sets the key server holds.  `Requests` extends
it: `Chain` is what the server registers for every request (the parsing of the body,
`requestMetrics`, the middleware of the host) and then `Register`, the chain
`Endpoint.register()` builds, with `requestMetrics` once more; `req` is where each
request stands in it, and one action is one middleware with its verdict, two for
`userResolver`, which waits for the user service.  The response may be finished and
closed at any time, also before or between the two registrations of
`requestMetrics`: each counts on the gauge, and one that comes after the close is
never counted down (`late`).

**CloudStorage, MCStorage.**  `call` holds the uploads at their await or between
two events of their stream, `bucket` the objects of both stores with who wrote
them and whether they are whole.  A file is a number of chunks, and so is a limit.
The source of an upload to Cloud Storage may fail or close while `file.exists()` is
awaited, before any listener is attached (`unheard`, `closed`).

**EntityClients, DbMigration, MCDatabase.**  `EntityClients` is `Redis.ts` and
`Sequelize.ts` with the set of `LifecycleController.ts`: a client is a number,
`client` the variable, `conn` what is connected, `stop` the calls of `shutdown()`
that await the connection.  `DbMigration` composes it with the migrations that run
over the client, of this process and of another: `rows` are the metadata tables,
`applied` what the schema has, `mig` each call at its query.  A migration is its
place in the order of the file names, and a directory a set of them.  `MCDatabase` also
compares `SemverCompare` with a reference order on all versions with parts up to 1.

## 3. The runs

Every run takes less than two minutes.

| Run | Shows | States |
|---|---|---|
| `server_signal` | two signals, an uncaught error, a cron job, a request, a scrape and a WebSocket client: nothing is released in use, exit 0 means everything is released, the server implements `GracefulStop`, a signal ends it | 105 072 |
| `server_host` | sync mode, a `shutdown()` of the host racing one of a signal, after an `init()` that succeeded or failed | 130 751 |
| `socket` | one client with four tokens of two users, two messages and three handlers | 32 208 |
| `pubsub` | two handlers, two concurrent deliveries, two faults (a crash, a failing handler, flush or close), one outgoing message; the consumer implements `AtLeastOnce` | 34 170 |
| `upload` | three chunks, one request at a time, two faults or crashes | 13 874 |
| `secrets` | an environment secret, a file and a secret that is not found; `init()`, `reload()`, `shutdown()`, rotations, and two calls or writes that fail | 265 593 |
| `elastic` | a process of an old and one of a new version, restarts, two faults or crashes | 30 169 |
| `requests` | every kind of endpoint, valid and invalid credentials, while a key is rotated, fetches overlap and fail, the timer is stopped, and clients leave before, between and after the registrations of the metrics | 361 632 |
| `storage` | two uploads at once to either store or to Gemini, with and without a limit, under given and random names, deletions and a fault | 119 214 |
| `database` | clients of Redis and Sequelize created and shut down by host and lifecycle; two processes that migrate and roll back six kinds of deployment, a fault or a crash | 812 139 |

The remaining two runs refute what a comment and a document say of the code;
they are the findings of section 6.

**Bounds.**  Each bound is a CONSTANT, named as a bound in its module, and is the
smallest at which the interesting case occurs.  Two callbacks and two signals are
enough for an order, a second activation and a race with the end of the first.
Two handlers let one fail and the other not; two slots let a message be handled
twice at once.  Two tokens of one user with different lifetimes give a renewal
in both directions, the third another user, the fourth a bad signature.  Three
chunks have a first, a middle and a last.  Two versions of a secret tell old
from new.  Two processes race, and two faults let a retry fail again.  Two key
sets with different keys tell a rotation, two fetches overlap.  One request at a
time is enough, as requests share only the key set and the gauge.  A limit of one
chunk is passed by the second.  Two clients of an entity tell the one a call of
`shutdown()` has seen from the next.  Three migrations in two directories put a
file that was merged late between two others.  One late registration of
`requestMetrics` is enough to tell the gauge from the requests in flight.  Every
property has a mutant in `PROJECT.json`, a plausible mistake in the code that the
same run finds, which shows that the bounds reach the case the property is about.
The proofs of section 4 need no bounds.

**Fairness.**  A callback or timer that is due is run, by node's event loop: weak
fairness of the step.  A call of an external service settles, with an answer or
an error; the calls concerned are those of the cloud, Elasticsearch and database
clients, which bound or retry them.  `request()` sets no timeout
(`request.ts:11`), so that the user service replies (`userResolver.ts:47`) is an
assumption of its own, `UserServiceReplies`, in `RepliedSpec`, which only `Answered`
needs.  A body that does not arrive is ended by node's request timeout.
Handlers, jobs and callbacks of the host end; this is an assumption on the host.
Requests that reached the server are served.  Nothing makes a WebSocket client leave
before it is asked, or a connection close after its response: that clients or the
load balancer, to which the code delegates all timeouts (`Server.ts:149-150`), close
their connections in the end is a separate assumption, `ClientsLeave` in
`CooperativeSpec`, under which `SignalEndsProcess` and `StopSettles` are checked.
`server_linger` shows what happens without it.  A process that exits after an
unhandled rejection is started again.  The client of an upload goes on
sending each chunk (strong fairness, since it is stopped from sending while its
request is in flight).  The refresh timer of the key set goes off again and again,
and a fetch gets some answer, which for the same lack of a timeout is an assumption
on the key server.  Gemini does not process a file for ever, and a
random name that is free is drawn in the end (strong fairness: both are asked
again and again).  Nothing is fair that a user or a host decides: signals,
calls of `shutdown()` or `reload()`, crashes, faults and new connections.

`CHECK_DEADLOCK FALSE` is set where the program may be over: a process that has
exited, a connection that was closed, a manager that was shut down.

**Restrictions of properties**, each with its reason.

- `DrainedBeforeRelease`, `GracefulExit` and `Graceful` are for signal-only use
  (`Callers = {}`): a call of the host next to a signal finds the servers no longer
  listening and waits for no connection.
- `StoppedLeavesNothing` is checked in sync mode: in parallel mode a callback can
  end after the instances were collected.  The host calls `shutdown()` after
  `init()` has settled.
- `SignalEndsProcess` and `StopSettles` are checked under `ClientsLeave`: with
  `keepAliveTimeout = 0` a connection that was kept after its response, or a
  WebSocket client, holds `http.Server.close()`, and the shutdown, for ever.
- `AuthRequired` reads the clock only while the socket is open: after the close
  event the expiration timer is gone and the flag stays set.
- `AuthenticatedWhileValid` is for tokens below the limit of `setTimeout`.
- `WholeWhenComplete` is for one request in flight; `CleanStop` for a shutdown no
  load overlaps, and for the files a load has written whole: `fs.writeFile` creates
  the file before it can fail, and only what succeeded is listed; `LoadIsFresh` for loads that do not overlap; `ResultIsTrue` for a
  file with a target variable; `InitMeansMigrated` for file names without a common
  term.
- `StoppedMeansClosed` is for entities of which no two shutdowns have overlapped:
  each clears the client variable at its end, and with it a client that an
  `init()` has made in between.
- `MigratedWhenResolved` leaves out a migration whose rollback was cut off before
  its record was removed; the host does not migrate while it rolls back.
  No code writes a version, so the rows have theirs from the start.
- `RevokedRefused` counts from the last fetch that no other fetch overlapped, as an
  older answer may be stored after a newer one; `KeysConverge` says that this does
  not last.
- `UploadsSettle` leaves out two sources of Cloud Storage, for which the upload waits
  for ever: one that closes with neither end nor error, which nobody listens for, and
  one that fails while `file.exists()` is awaited, when nobody listens yet.
- `GaugeBalanced` asks for at least one count of a request in flight that has passed a
  registration of `requestMetrics`, of which there are two, and leaves to the gauge
  the registrations made for a response that was already closed.
- `Answered` is checked under `UserServiceReplies`.
- `InOrder` and `InitMeansMigrated` say nothing of a migration that is run twice:
  that "Executed once per file" does not hold is noted in section 6.

## 4. What is proved

The proofs hold for every value of the constants that satisfies the module's named
assumption: disjoint sets of connections and callers, of topics and subscriptions,
given and random names that differ; sequences of callbacks, handlers or migrations;
finite sets where the code counts them (requests, handlers of a subscription,
migrations, requests of an upload); naturals for times, versions and bounds.  No
proof assumes anything of the order of steps.  What a theorem asks for beyond the
assumption is in its `ASSUME` and named below.

Every theorem follows the same argument: an invariant that holds initially, that
every action keeps, and that implies the property, or, for an action property, that
makes every step from a state with it satisfy the property.

`ServerLifecycle_proofs`:

- `TypeCorrect`: `Spec => []TypeOK`, by one step for each action.
- `NothingReleasedInUse`: with `Callers = {}`, `Spec => []DrainedBeforeRelease`.
  The property is not inductive: a state in which nothing is released and a
  socket is open may be followed by a release if a call of `shutdown()` has gone
  past the drain.  `DrainInv` adds where every call stands: init callbacks are over
  once `init()` is past them (`CallbacksOver`), so none acquires an instance
  later; the flag, the listeners and the listening servers agree (`FlagGuards`),
  so only the first signal starts a shutdown and the servers are listening when it
  does; a shutdown waits for both servers, and past the drain no connection is
  open (`StopOrder`); and only such a shutdown touches an instance
  (`ReleaseOrder`).  Each part has a lemma with one step for each action.
- `ReleasedAtExit`: with `Callers = {}`, `Spec => []GracefulExit`, on top of
  `DrainInv`.  That nothing is held at a clean exit
  rests on what the shutdown had collected long before.  `GraceInv` says that one
  signal at most begins a shutdown (`OneStop`); that until it collects the instances
  every one that was acquired is registered, that it awaits every one that has not
  stopped afterwards, and that nothing is left when it resolves (`Collected`); and
  that the process ends clean only after it (`Ended`).
- `GracefulImplemented`: with `Callers = {}`, `Spec => Graceful`, the refinement of
  `GracefulStop`.  Each
  action of the server is a step of `GracefulStop` or a stutter.  Opening is one
  because the ports are opened after everything is registered (`ListensLast`); that
  a shutdown closes no client itself, and releases with no client left, is
  `DrainInv`; the clean end is `ReleasedAtExit`'s `AllReleased`.
- `NothingLeftRunning`: with `SyncCallbacks`, `Spec => []StoppedLeavesNothing`, for
  any number of calls of the host and of signals, and whether or not `init()`
  succeeded.  `EscapeInv` says that once `init()` has settled no callback of it can
  end any more (`InitQuiet`; in sync mode because the callbacks before the one that
  failed are done and those after it wait for it, the lemma `FailureIsLast`), that
  nobody shuts down before that (`InitSettled`), and that what runs is registered
  until a call collects it (`NoneEscapes`).

`SocketClient_proofs`:

- `TypeCorrect`: `Spec => []TypeOK`; `AuthenticatedExactly`: `Spec =>
  []AuthenticatedWhileValid`; `HandlersGuarded`: `Spec => AuthRequired`.  What the
  flag says depends on timers that were armed by earlier tokens.  `SocketInv` says
  that no timer is overdue, that the expiration timer is that of the latest token,
  and that the flag is set as long as it is armed (`Timed`); that a suspended loop
  stands at a handler (`AtHandler`); and that nothing is left after the close event
  (`Over`).
- `RemindedInTime`: with `ShortLived` (no token outlives the limit of `setTimeout`),
  `Spec => RemindedBeforeExpiry`.  `WillRemind` adds that a reminder which was not
  sent is armed, and not after the expiration.

`PubSub_proofs`:

- `NothingUnvalidated`: `Spec => []ConsumesOnlyValidated`,
  `NothingOwedWhenClosed`: `Spec => []FlushedBeforeClose`, and
  `AtLeastOnceImplemented`: `Spec => Reliable`, the refinement of `AtLeastOnce`,
  all from `PubSubInv`.  `Validated` says that a stream is only open in a phase that
  every check has passed; `Flushing` that what `shutdown()` owes is still batched,
  and for a topic whose flush it awaits, and that nothing is owed once it has failed; `HandledInOrder` that a delivery without an
  error has gone through every handler before the one it is at, which makes the ack
  of the last one a step of `AtLeastOnce`.  Handlers are registered before `init()`,
  so the list of handlers a delivery goes through does not change.
- `TypeCorrect`: `Spec => []TypeOK`.  The theorems before only need the types
  without bounds (`Typed`).  That a delivery is never further than the number of
  handlers rests on no handler being listed twice on a subscription (`Distinct`, in
  `Bounded`), and on a list without repetition being no longer than the set it is
  from (`ChainFits`).

`SecretManager_proofs`, from `SecretInv`: a call only holds a value between its
answer and the next secret (`Holding`); a file on disk is listed, is about to be, is
yet to be deleted, or is what a failed write has left (`Listed`); what is cached is in its variable (`Cached`).

- `TypeCorrect`: `Spec => []TypeOK`; `WrittenAreDeleted`: `Spec => []CleanStop`;
  `StaysServed`: `Spec => ServedThroughout`.
- `ResultsAreTrue`: where the fallback of a secret is read from the variable it is
  loaded to, `Spec => []ResultIsTrue`.
- `LoadsAreFresh`: where no two secrets share a variable (`OwnVariables`), `Spec =>
  LoadIsFresh`.  `AloneFresh` says that a call which nothing overlapped is the only
  one, and that what it has got is no older than what there was when it began.

`ElasticSearch_proofs`:

- `ResolvedMeansMigrated`: with `NoSharedTerm`, `Spec => [](InitMeansMigrated /\
  InOrder)`.  The invariant `MigratedInv` says that a document is only there for a
  migration that was carried out, and that every file behind the loop of a process
  was; `LoopKept` says that others can only add to it, and `OneCallStep`,
  `TurnKeepsLoop` and `PassKeepsLoop` reduce each action to where it leaves its own
  process.  `NoSharedTerm` is needed: the run `elastic_alike` refutes the property
  without it.
- `TypeCorrect`: `Spec => []TypeOK`, and `FoundIsNotRunAgain`: `Spec => NotAgain`, for
  any file names: the part that holds of "Executed once per file", which as it stands
  does not (section 6); no run checks it.  `ElasticInv` says that a process has not decided to run what was
  visible when its `init()` was called, and that nothing was where it found no index
  (`Unseen`); documents only become more.

`Requests_proofs`:

- `TypeCorrect`: `Spec => []TypeOK`, and `GaugeIsBalanced`: `Spec =>
  []GaugeBalanced`.  `RequestInv` says that the gauge is the late registrations and
  the number of requests that are counted, once or twice, and that a request in flight
  that has passed a registration is counted while it is open (`RequestOK`).  Each middleware moves one request (`Moves`), which moves the
  sum by as much as that request's own count.
- `RevokedKeysRefused`: `Spec => RevokedRefused`.  `KeyInv` says that what a fetch
  has got was served after the last one that none overlapped began, that such a
  fetch is the only one (`FetchOK`), and so are the known keys (`Known`).

`CloudStorage_proofs`:

- `TypeCorrect`: `Spec => []TypeOK`, and `ResolvedMeansWhole`: `Spec =>
  ResolvedWhole`.  That an upload resolves with a whole object speaks of one step;
  why it does lies in what the upload counted on the way.  `UploadInv` keeps the
  account: `WellFormed` and `Counted` say how far the stream of an upload that is
  under way has come and that its limit was not passed, `Alone` that nobody else
  draws the random name of an upload that started, and `Untouched` that what lies
  under that name is nothing or the object of this upload.  `OneUpload` reduces a
  step to the upload it moves.
- Of `MultiPartUpload`, which shares no name with `CloudStorage`:
  `UploadTypeCorrect`: `UploadSpec => []UploadTypeOK`, with the addition that nothing
  is written to what a removed folder has left behind; and `CompleteIsWhole`: with
  `Careful` and `MaxInFlight = 1`, `UploadSpec => WholeWhenComplete`, through any
  crashes and failed writes, and for any indices the client sends.  The code counts
  files, so the property rests on none of them being partial when they are counted.
  `WholeInv` says that the request under way is of the only chunk the client is
  unsure of (`OneChunk`), that a part which is not whole is of that chunk and is
  whole once its request has written it (`PartialIsUnsure`), and that a merge has got
  every chunk before the one it is at (`GotInOrder`).

`DbMigration_proofs`:

- `ResolvedMeansMigrated`: `Spec => MigratedWhenResolved`.  A call passes over what
  it finds recorded, so the property rests on the records being true.  `DbInv` says
  that what is recorded was carried out, or was just taken back (`RowsTrue`); that
  everything behind the loop of a call is there (`Progress`); and that no other call
  runs beside a rollback (`Exclusive`, which is the guard on the host).  Where the
  host's model names another table, the rows that are copied from the old one come
  in: they are true as well, since a rollback there does not get past its first
  query.  The last migration of a directory stays there while the next directory is
  run, because every other call only adds.  `OneCall` reduces a step to the call it
  moves.
- `LaterAreRolledBack`: `Spec => LaterRolledBack`: nothing recorded with a version
  after that of `BUILD_ID` is left.  Those of `BUILD_ID` itself stay, against the
  repository's README (section 6); no run checks it.  `RollInv` says of a call of
  `rollbackMigrations()` that whatever is recorded with a later version comes from
  its target on, and that of the directories it is done with nothing from the target
  on is recorded any more (`RollOK`); nobody adds a record meanwhile (`Exclusive`).
  That the target is found rightly is the lemma `CompareIsOrder`: for all versions
  `semverCompare()` says that one is newer exactly when the order of versions does,
  which TLC compares for small ones only.
- `RegisteredAreClosed`: `Spec => StoppedMeansClosed`, of the clients in
  `EntityClients`.  `ClientInv` says that where no two shutdowns have overlapped what
  is connected is the client of the variable or failed to quit, and that at most one
  call is stopping that client (`OneAtATime`); and that what was connected when
  `shutdownRunningInstances()` was called is stopped or being stopped (`Dues`).
- `TypeCorrect`: `Spec => []TypeOK`, from both and from what a call has left to do
  (`CallTyped`).

Every type invariant, safety invariant and safety property of one step the runs
check is proved, and both refinements.  Only model-checked are the liveness
properties, since liveness under fairness and `ENABLED` are out of the prover's
reach: `SignalEndsProcess`, `StopSettles`, `VanishedPeerDropped`, `EventuallyAcked`,
`CompletedInTheEnd`, `KeysConverge`, `Answered` and `UploadsSettle`.  What a
recursive definition computes for every input is out of reach too, since no
installed prover can instantiate the induction theorems of the library; no theorem
rests on one.

## 5. What is not modelled

`PROJECT.json` gives a reason for every component.

- Utilities, errors and entry types have no state, or only format.
- The Localizator refreshes a cache of texts on a timer, the pattern `KeySet` is
  modelled for.
- Mail, push and logging middleware hand over to a library.

Within modelled components: the reload of TLS files by a watcher, and the express
middleware of the server that only reads or logs; the flush of Elasticsearch and the clients of
Sequelize in the test environment, `testRecreateDB()` and `testClearDB()`;
`addModels()`; the commands of Redis, which are those of ioredis; what only reads
from a cloud store, and the creation of its client; keys given as PEM, which never
change, and signing; the paths that `requestMetrics` passes over; the creation of
verification tokens; error middleware of an
endpoint; SecretManager with caching off; registration of Pub/Sub handlers after
`init()`; and a `shutdownRunningInstances()` that overlaps another.

## 6. Findings

Each of the two is a property a run refutes; `PROJECT.json` quotes the document.

- `server_linger`: `shutdown()` awaits `http.Server.close()`, which waits for
  WebSocket connections, before it closes or terminates them.  With a client that
  does not leave, the hard termination the comment promises is never reached.
- `elastic_alike`: the match query on the file name finds the document of another
  file with a term in common, and the new migration is skipped.

Noted without a run, each where the model follows the code and a property is
restricted or a document says otherwise:

- Sockets: a renewal keeps the audience of the first token
  (`SocketClient.ts:344`), documented as that of the latest (`SocketClient.ts:55`).
  `MessageHandler.handle()` runs the validator before it compares the type
  (`MessageHandler.ts:47`).
- Pub/Sub: a handler registered with `first` is appended, not prepended
  (`PubSub.ts:326`).
- Uploads by chunks: chunks sent at the same time are counted while they are still
  written, and the merged file may lack bytes.  The constructor of `Endpoint` does
  not keep `multiPartFile`, so its middleware is never in the chain.
- SecretManager: a secret file whose write ends after `shutdown()` has walked
  through the list stays on disk, and so does what a write that failed half-way has
  left (`SecretManager.ts:235-240`), although the repository's README has `shutdown()`
  delete the temporary files (line 809).
- Metrics: `requestMetrics` is registered by the server (`Server.const.ts:21`) and
  by each endpoint, so a request counts twice; its listeners are attached to the
  response (`requestMetrics.ts:41,67`), and one that was closed before, while the
  body was parsed or the middleware of the host ran, is never counted down: the gauge
  drifts upwards by one for each.
- userResolver: the user service is asked with no timeout (`request.ts:11`,
  `userResolver.ts:47`), so a service that hangs leaves the request unanswered.
- Server: no timeout ends a connection that is kept after its response
  (`Server.ts:149-156`), so one that was in use at `http.Server.close()` may hold
  `shutdown()` as long as its client likes.
- KeySet: of two overlapping fetches the older answer may be stored last;
  `shutdownKeySets()` during the first fetch finds no timer to clear, and the timer
  is started afterwards (`KeySet.ts:74`).
- Sequelize: after a failed `authenticate()` the next `init()` returns as if it
  were connected, and no shutdown closes that client.  Redis: each `init()` that
  makes a client registers a function of its own, a `quit()` that fails drops a
  client that is still connected, and of two overlapping shutdowns the second drops
  a client made in between.
- GoogleCloudStorage: the chunk that passes the limit rejects the promise and does
  not stop the streams, so a truncated object is stored; a source that closes
  silently, or fails while `file.exists()` is awaited (`GoogleCloudStorage.ts:147`,
  an uncaught `error`), leaves the promise pending.
- ElasticSearch: the repository's README says "Executed once per file" (line 1320).
  Two processes that start together both look for the documents before either has
  written one, and both run the file; a process that crashed, or whose request
  failed, between a migration and its document (`ElasticSearch.ts:165-167`) runs it
  again.  A run that refuted this would only repeat the two behaviours that
  `InitMeansMigrated` and `InOrder` are checked under.
- dbMigration: the repository's README says that `rollbackMigrations()` rolls back
  "the current version of the app and after" (line 2279); the comparison is strict
  (`dbMigration.ts:155`), and the migrations of the current version stay.  It rejects with
  more than one directory, as the target is missing in the others; no code stamps
  versions, and nothing adds the model `SequelizeMeta` to the client.
- migrateMetadataTable: the copy goes to `sequelize_meta`, which is not the table
  umzug reads by default; the unquoted name fails on PostgreSQL; an empty old table,
  or a crash between the two statements, ends without a copy; an unset `SQL_TYPE`
  throws although the client has a default for it.

## 7. Plan

1. Done: server lifecycle, sockets, Pub/Sub, uploads, secrets, Elasticsearch
   migrations, in the order of what a failure would cost; then keys and requests,
   cloud storage, database clients and migrations.
2. Left to model, of less weight: the Localizator's timer, the watcher of TLS files.
3. Done: the proofs of section 4.  Left to prove: the safety properties of the
   next components to be modelled.

Runs and properties stay few: a new module replaces a run that shows less, such as
a refutation whose restriction is already stated by a passing run.
