---------------------------- MODULE ElasticSearch ----------------------------
(***************************************************************************)
(* ElasticSearch.ts: processes of a service, of one or several versions,   *)
(* that initialise against the same cluster and run the migrations they    *)
(* were deployed with.                                                     *)
(*                                                                         *)
(* One action is one request with the code up to the next await.  The      *)
(* cluster is external: a document is found by a search once the index was *)
(* refreshed, and a match query on a file name finds every name that has a *)
(* term in common with it (Alike).  The flush of the test environment is   *)
(* left out.                                                               *)
(***************************************************************************)
EXTENDS Naturals, Sequences, FiniteSets

CONSTANTS
    Procs,     \* processes
    Files,     \* migration files
    Deployed,  \* the files in the migration directory, in order, by process
    Alike,     \* the file names a match query for a name finds
    MaxInits,  \* bound: calls of init() in each process, restarts included
    MaxFaults  \* bound: failing requests and migrations, and crashes

ASSUME ElasticAssumption ==
    /\ Deployed \in [Procs -> Seq(Files)]
    /\ Alike \in [Files -> SUBSET Files] /\ \A f \in Files : f \in Alike[f]
    /\ MaxInits \in Nat /\ MaxFaults \in Nat

VARIABLES
    index,       \* does the index "migrations" exist
    recorded,    \* files with a document in it
    visible,     \* those a search can find
    ran,         \* how often each migration was carried out
    client,      \* client, by process
    registered,  \* is it registered at the LifecycleController
    call,        \* where init(), or shutdown(), is
    inits,
    seen,        \* history: visible when init() was called
    faults

indexVars == <<index, recorded, visible>>
procVars  == <<client, registered, inits, seen>>
vars == <<indexVars, ran, procVars, call, faults>>

Migrating == {"exists", "search", "run", "record"}

TypeOK ==
    /\ index \in BOOLEAN /\ visible \subseteq recorded /\ recorded \subseteq Files
    /\ index <=> recorded # {}
    /\ ran \in [Files -> Nat]
    /\ client \in [Procs -> {"none", "open", "closing"}]
    /\ registered \in [Procs -> BOOLEAN]
    /\ call \in [Procs -> [pc : {"off", "ping", "ready", "failed", "closing"} \cup Migrating,
                           at : Nat, indexExists : BOOLEAN]]
    /\ \A p \in Procs :
         /\ call[p].pc \in {"search", "run", "record"} => call[p].at \in DOMAIN Deployed[p]
         /\ call[p].pc # "off" => client[p] # "none"
         /\ registered[p] => call[p].pc \in {"ready", "closing"}
    /\ inits \in [Procs -> 0..MaxInits] /\ seen \in [Procs -> SUBSET Files]
    /\ faults \in 0..MaxFaults

Off == [pc |-> "off", at |-> 1, indexExists |-> FALSE]

Init ==
    /\ index = FALSE /\ recorded = {} /\ visible = {}
    /\ ran = [f \in Files |-> 0]
    /\ client = [p \in Procs |-> "none"] /\ registered = [p \in Procs |-> FALSE]
    /\ call = [p \in Procs |-> Off]
    /\ inits = [p \in Procs |-> 0] /\ seen = [p \in Procs |-> {}]
    /\ faults = 0

MayFail == faults < MaxFaults /\ faults' = faults + 1
Current(p) == Deployed[p][call[p].at]
Goto(p, pc) == call' = [call EXCEPT ![p].pc = pc]

-----------------------------------------------------------------------------
(* init() and migrate() *)

\* A new client, whatever became of an earlier one, and the ping.
StartInit(p) ==
    /\ call[p].pc \in {"off", "failed"} /\ inits[p] < MaxInits
    /\ client' = [client EXCEPT ![p] = "open"]
    /\ call' = [call EXCEPT ![p] = [Off EXCEPT !.pc = "ping"]]
    /\ inits' = [inits EXCEPT ![p] = @ + 1]
    /\ seen' = [seen EXCEPT ![p] = visible]
    /\ UNCHANGED <<indexVars, ran, registered, faults>>

\* The cluster answers the ping; the directory is read.
Ping(p) ==
    /\ call[p].pc = "ping"
    /\ Goto(p, "exists")
    /\ UNCHANGED <<indexVars, ran, procVars, faults>>

\* Mutant: the loop runs one file too far.
TurnTooFar(p, r) ==
    IF r.at > Len(Deployed[p]) + 1
    THEN /\ call' = [call EXCEPT ![p] = [Off EXCEPT !.pc = "ready"]]
         /\ registered' = [registered EXCEPT ![p] = TRUE]
    ELSE /\ call' = [call EXCEPT ![p] = [r EXCEPT !.pc = IF r.indexExists THEN "search" ELSE "run"]]
         /\ UNCHANGED registered

\* The top of the loop, or its end: init() registers and resolves.
Turn(p, r) ==
    IF r.at > Len(Deployed[p])
    THEN /\ call' = [call EXCEPT ![p] = [Off EXCEPT !.pc = "ready"]]
         /\ registered' = [registered EXCEPT ![p] = TRUE]
    ELSE /\ call' = [call EXCEPT ![p] = [r EXCEPT !.pc = IF r.indexExists THEN "search" ELSE "run"]]
         /\ UNCHANGED registered

\* The index is looked for once, before the loop.
CheckIndex(p) ==
    /\ call[p].pc = "exists"
    /\ Turn(p, [call[p] EXCEPT !.indexExists = index])
    /\ UNCHANGED <<indexVars, ran, client, inits, seen, faults>>

\* A hit means that the migration ran already.
Search(p) ==
    /\ call[p].pc = "search"
    /\ IF Alike[Current(p)] \cap visible # {}
       THEN Turn(p, [call[p] EXCEPT !.at = @ + 1])
       ELSE Goto(p, "run") /\ UNCHANGED registered
    /\ UNCHANGED <<indexVars, ran, client, inits, seen, faults>>

\* Mutant: the migration is started and not awaited.
MigrationUnawaited(p) ==
    /\ call[p].pc = "run"
    /\ Goto(p, "record")
    /\ UNCHANGED <<indexVars, ran, procVars, faults>>

\* migration.migrate(client) resolves.
RunMigration(p) ==
    /\ call[p].pc = "run"
    /\ ran' = [ran EXCEPT ![Current(p)] = @ + 1]
    /\ Goto(p, "record")
    /\ UNCHANGED <<indexVars, procVars, faults>>

Document(f) == index' = TRUE /\ recorded' = recorded \cup {f} /\ UNCHANGED visible

\* Mutant: a failed migration is only reported.
FailureReported(p) ==
    /\ call[p].pc = "run" /\ MayFail
    /\ Turn(p, [call[p] EXCEPT !.at = @ + 1])
    /\ UNCHANGED <<indexVars, ran, client, inits, seen>>

\* client.index(): the migration has run.
Record(p) ==
    /\ call[p].pc = "record"
    /\ Document(Current(p))
    /\ Turn(p, [call[p] EXCEPT !.at = @ + 1])
    /\ UNCHANGED <<ran, client, inits, seen, faults>>

\* The migration rejects: it ran in part, and init() rejects.
MigrationFails(p) ==
    /\ call[p].pc = "run" /\ MayFail
    /\ Goto(p, "failed")
    /\ UNCHANGED <<indexVars, ran, procVars>>

\* A request fails for good, perhaps after it has been carried out.
RequestFails(p) ==
    /\ call[p].pc \in {"ping", "exists", "search", "record"} /\ MayFail
    /\ Goto(p, "failed")
    /\ \/ UNCHANGED indexVars
       \/ call[p].pc = "record" /\ Document(Current(p))
    /\ UNCHANGED <<ran, procVars>>

-----------------------------------------------------------------------------
(* shutdown(), crashes, and the cluster *)

StartShutdown(p) ==
    /\ call[p].pc = "ready" /\ registered[p]
    /\ Goto(p, "closing")
    /\ client' = [client EXCEPT ![p] = "closing"]
    /\ UNCHANGED <<indexVars, ran, registered, inits, seen, faults>>

\* close() has settled, its error is caught; the process ends.
Closed(p) ==
    /\ call[p].pc = "closing"
    /\ call' = [call EXCEPT ![p] = Off]
    /\ client' = [client EXCEPT ![p] = "none"]
    /\ registered' = [registered EXCEPT ![p] = FALSE]
    /\ UNCHANGED <<indexVars, ran, inits, seen, faults>>

Crash(p) ==
    /\ call[p].pc # "off" /\ MayFail
    /\ call' = [call EXCEPT ![p] = Off]
    /\ client' = [client EXCEPT ![p] = "none"]
    /\ registered' = [registered EXCEPT ![p] = FALSE]
    /\ UNCHANGED <<indexVars, ran, inits, seen>>

Refresh ==
    /\ visible # recorded
    /\ visible' = recorded
    /\ UNCHANGED <<index, recorded, ran, procVars, call, faults>>

InitStep(p) ==
    \/ Ping(p) \/ CheckIndex(p) \/ Search(p) \/ RunMigration(p) \/ Record(p)
    \/ MigrationFails(p) \/ RequestFails(p)

Next ==
    \/ \E p \in Procs : StartInit(p) \/ InitStep(p)
                        \/ StartShutdown(p) \/ Closed(p) \/ Crash(p)
    \/ Refresh

Spec == Init /\ [][Next]_vars

\* The cluster answers, and migrations end; the host need not call anything.
FairSpec == Spec /\ \A p \in Procs : WF_vars(InitStep(p)) /\ WF_vars(Closed(p))

-----------------------------------------------------------------------------
(* Properties *)

\* README.md:1284, "Tracks and runs migrations on startup": when init() has
\* resolved, every migration of the deployment was carried out, by this process
\* or another, whatever failed or crashed before.  Refuted where file names
\* have a term in common: the search finds another file's document.
InitMeansMigrated ==
    \A p \in Procs : call[p].pc = "ready" =>
        \A i \in DOMAIN Deployed[p] : ran[Deployed[p][i]] > 0

\* README.md:1321, "Run in alphabetical order": a migration starts only when all
\* before it were carried out, by this process or by others that run them at the
\* same time, fail, crash or were deployed with fewer files.
InOrder ==
    \A p \in Procs : call[p].pc = "run" =>
        \A i \in 1..(call[p].at - 1) : ran[Deployed[p][i]] > 0

\* What ElasticSearch.ts:134-151 gives of README.md:1320, "Executed once per
\* file": a file that could be found when init() was called is not run again by
\* it.  The promise itself does not hold: processes that start together both run
\* a file, and so does one that starts again before the document is there.
NotAgain ==
    [][\A p \in Procs : call[p].pc = "run" /\ call'[p].pc = "record" => Current(p) \notin seen[p]]_vars

=============================================================================
