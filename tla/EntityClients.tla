--------------------------- MODULE EntityClients ---------------------------
(***************************************************************************)
(* The clients of Redis.ts and Sequelize.ts in one process, and the set of *)
(* LifecycleController.ts that shuts them down.                            *)
(*                                                                         *)
(* A client is a number for each entity, 0 where the variable is           *)
(* undefined.  ioredis and Sequelize are external: a connection that is    *)
(* asked to quit closes or fails to.  The call of init() that finds a      *)
(* client changes nothing and is left out; the entities' commands are      *)
(* those of their library.                                                 *)
(***************************************************************************)
EXTENDS Naturals

CONSTANTS
    MaxClients,  \* bound: clients of an entity
    MaxFaults    \* bound: crashes, and what fails outside of the process

ASSUME EntityClientsAssumption == MaxClients \in Nat \ {0} /\ MaxFaults \in Nat

VARIABLES
    bound,           \* bound: clients each entity creates in one life of the process
    client,          \* Redis.client and sequelizeClient
    created,         \* the clients made so far
    conn,            \* the clients that are connected, or trying to be
    authenticating,  \* the clients of Sequelize whose init() awaits authenticate()
    registered,      \* the instances of each entity in runningInstances
    stop,            \* the calls of shutdown() that await quit() or close()
    lifecycle,       \* how far shutdownRunningInstances() is
    due,             \* history: what was connected when it was called
    overlapped,      \* history: entities of which two shutdowns have overlapped
    stuck,           \* history: connections that failed to quit
    faults

clientVars == <<bound, client, created, conn, authenticating, registered, stop, lifecycle,
                due, overlapped, stuck, faults>>

Entities == {"redis", "sequelize"}
Origins == {"host", "lifecycle"}
NoStop == [calls |-> 0, target |-> 0]
None == [e \in Entities |-> {}]

ClientTypeOK ==
    /\ bound \in [Entities -> 0..MaxClients]
    /\ client \in [Entities -> 0..MaxClients] /\ created \in [Entities -> 0..MaxClients]
    /\ conn \in [Entities -> SUBSET (1..MaxClients)]
    /\ authenticating \subseteq 1..MaxClients
    /\ registered \in [Entities -> 0..MaxClients] /\ registered["sequelize"] \in 0..1
    /\ stop \in [Entities -> [Origins -> [calls : 0..MaxClients, target : 0..MaxClients]]]
    /\ lifecycle \in {"idle", "waiting", "resolved"}
    /\ due \in [Entities -> SUBSET (1..MaxClients)]
    /\ overlapped \subseteq Entities /\ stuck \in [Entities -> SUBSET (1..MaxClients)]
    /\ faults \in 0..MaxFaults

ClientInit ==
    /\ bound \in [Entities -> 0..MaxClients] /\ faults = 0
    /\ client = [e \in Entities |-> 0] /\ created = [e \in Entities |-> 0]
    /\ conn = None /\ authenticating = {}
    /\ registered = [e \in Entities |-> 0]
    /\ stop = [e \in Entities |-> [o \in Origins |-> NoStop]]
    /\ lifecycle = "idle" /\ due = None /\ overlapped = {} /\ stuck = None

Fault == faults < MaxFaults /\ faults' = faults + 1
Stopping(e) == \E o \in Origins : stop[e][o].calls # 0

-----------------------------------------------------------------------------
(* init() *)

Create(e) ==
    /\ client[e] = 0 /\ created[e] < bound[e]
    /\ client' = [client EXCEPT ![e] = created[e] + 1]
    /\ created' = [created EXCEPT ![e] = @ + 1]
    /\ conn' = [conn EXCEPT ![e] = @ \cup {created[e] + 1}]

\* Redis.init(): every call registers a function of its own.
InitRedis ==
    /\ Create("redis")
    /\ registered' = [registered EXCEPT !["redis"] = @ + 1]
    /\ UNCHANGED <<bound, authenticating, stop, lifecycle, due, overlapped, stuck, faults>>

InitSequelize ==
    /\ Create("sequelize")
    /\ authenticating' = authenticating \cup {client'["sequelize"]}
    /\ UNCHANGED <<bound, registered, stop, lifecycle, due, overlapped, stuck, faults>>

\* Mutant: every init() registers another instance.
AuthenticatedAnew(k) ==
    /\ k \in authenticating /\ authenticating' = authenticating \ {k}
    /\ \/ /\ k \in conn["sequelize"]
          /\ registered' = [registered EXCEPT !["sequelize"] = @ + 1]
          /\ UNCHANGED faults
       \/ Fault /\ UNCHANGED registered
    /\ UNCHANGED <<bound, client, created, conn, stop, lifecycle, due, overlapped, stuck>>

\* sequelize is in the set once; a failure leaves the client unregistered and set.
Authenticated(k) ==
    /\ k \in authenticating /\ authenticating' = authenticating \ {k}
    /\ \/ /\ k \in conn["sequelize"]
          /\ registered' = [registered EXCEPT !["sequelize"] = 1]
          /\ UNCHANGED faults
       \/ /\ k \notin conn["sequelize"]
          /\ UNCHANGED <<registered, faults>>
       \/ Fault /\ UNCHANGED registered
    /\ UNCHANGED <<bound, client, created, conn, stop, lifecycle, due, overlapped, stuck>>

-----------------------------------------------------------------------------
(* shutdown() *)

\* n calls of shutdown() up to their await; without a client there is none.
Stop(e, n) ==
    IF client[e] = 0 \/ n = 0 THEN NoStop ELSE [calls |-> n, target |-> client[e]]

HostStops(e) ==
    /\ client[e] # 0 /\ stop[e]["host"] = NoStop
    /\ stop' = [stop EXCEPT ![e]["host"] = Stop(e, 1)]
    /\ overlapped' = IF Stopping(e) THEN overlapped \cup {e} ELSE overlapped
    /\ UNCHANGED <<bound, client, created, conn, authenticating, registered, lifecycle, due, stuck, faults>>

\* One call goes on: the client variable is cleared, whichever client it holds.
Quit(e, o) ==
    /\ stop[e][o].calls # 0
    /\ LET target == stop[e][o].target
       IN  \/ /\ conn' = [conn EXCEPT ![e] = @ \ {target}]
              /\ UNCHANGED <<stuck, faults>>
           \/ /\ target \in conn[e] /\ Fault
              /\ stuck' = [stuck EXCEPT ![e] = @ \cup {target}]
              /\ UNCHANGED conn
    /\ client' = [client EXCEPT ![e] = 0]
    /\ stop' = [stop EXCEPT ![e][o] =
                  IF @.calls = 1 THEN NoStop ELSE [@ EXCEPT !.calls = stop[e][o].calls - 1]]
    /\ UNCHANGED <<bound, created, authenticating, registered, lifecycle, due, overlapped>>

\* shutdownRunningInstances(), one at a time.
ShutdownRunningInstances ==
    /\ lifecycle # "waiting" /\ lifecycle' = "waiting"
    /\ stop' = [e \in Entities |-> [stop[e] EXCEPT !["lifecycle"] = Stop(e, registered[e])]]
    /\ due' = [e \in Entities |-> IF registered[e] # 0 THEN conn[e] ELSE {}]
    /\ overlapped' = overlapped \cup
         {e \in Entities : client[e] # 0 /\ (registered[e] > 1 \/ (registered[e] = 1 /\ Stopping(e)))}
    /\ UNCHANGED <<bound, client, created, conn, authenticating, registered, stuck, faults>>

\* Mutant: the shutdowns are not awaited.
InstancesDropped ==
    /\ lifecycle = "waiting" /\ lifecycle' = "resolved"
    /\ registered' = [e \in Entities |-> 0]
    /\ due' = None
    /\ UNCHANGED <<bound, client, created, conn, authenticating, stop, overlapped, stuck, faults>>

\* All have ended: the set is cleared, and forgets who has joined it since.
InstancesStopped ==
    /\ lifecycle = "waiting" /\ lifecycle' = "resolved"
    /\ \A e \in Entities : stop[e]["lifecycle"] = NoStop
    /\ registered' = [e \in Entities |-> 0]
    /\ due' = None
    /\ UNCHANGED <<bound, client, created, conn, authenticating, stop, overlapped, stuck, faults>>

\* The process dies and starts again.
CrashClients ==
    /\ Fault
    /\ client' = [e \in Entities |-> 0] /\ created' = [e \in Entities |-> 0]
    /\ conn' = None /\ authenticating' = {}
    /\ registered' = [e \in Entities |-> 0]
    /\ stop' = [e \in Entities |-> [o \in Origins |-> NoStop]]
    /\ lifecycle' = "idle" /\ due' = None /\ overlapped' = {} /\ stuck' = None
    /\ UNCHANGED bound

ClientNext ==
    \/ InitRedis \/ InitSequelize \/ \E k \in 1..MaxClients : Authenticated(k)
    \/ \E e \in Entities : HostStops(e) \/ \E o \in Origins : Quit(e, o)
    \/ ShutdownRunningInstances \/ InstancesStopped

-----------------------------------------------------------------------------
(* Properties *)

\* When shutdownRunningInstances() resolves, nothing of an entity that was
\* registered when it was called is connected any more, except what failed to
\* quit.  Two shutdowns of an entity must not have overlapped: an init() between
\* their ends makes a client that the second one drops.
StoppedMeansClosed ==
    [][lifecycle = "waiting" /\ lifecycle' = "resolved" =>
         \A e \in Entities \ overlapped : due[e] \cap conn[e] \subseteq stuck[e]]_clientVars

=============================================================================
