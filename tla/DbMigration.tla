---------------------------- MODULE DbMigration ----------------------------
(***************************************************************************)
(* Database migrations: runPendingMigrations() and rollbackMigrations() of *)
(* dbMigration.ts with migrateMetadataTable.ts and semverCompare.ts, over  *)
(* the Sequelize client of EntityClients.                                  *)
(*                                                                         *)
(* Several calls run against one database: those of this process, whose    *)
(* client may be shut down under them, and those of other processes.       *)
(* umzug is external: up() reads once which files of a directory are       *)
(* recorded, then carries out and records each of the others in turn;      *)
(* down({ to }) takes back the recorded files from the last to the target. *)
(* It records in the table SequelizeMeta, unless the host has defined a    *)
(* model of that name for another table.  A migration is a number, its     *)
(* place in the order of the names, and a directory a set of them; nobody  *)
(* in the code sets the version of a row, so versions are those that rows  *)
(* have at the start.                                                      *)
(***************************************************************************)
EXTENDS EntityClients, Integers, Sequences, FiniteSets

CONSTANTS
    Calls,     \* bound: calls at once
    Own,       \* those of this process
    Configs,   \* deployments: model, SQL_TYPE, directories, and the bounds of its clients and calls
    Executed,  \* migrations that may have been recorded before
    Stamped,   \* the version of each migration's row
    Builds     \* values of BUILD_ID

Migrations == UNION {UNION {c.paths[i] : i \in DOMAIN c.paths} : c \in Configs}

\* What a version string parses to, "release" without a pre-release tag; a row
\* without a version is Unversioned.
Versions == [major : Nat, minor : Nat, patch : Nat, pre : {"release", "alpha", "beta", "rc"}, preVersion : Nat]
Unversioned == [major |-> 0, minor |-> 0, patch |-> 0, pre |-> "unversioned", preVersion |-> 0]

ASSUME DbMigrationAssumption ==
    /\ Own \subseteq Calls /\ Executed \subseteq SUBSET Migrations
    /\ \A c \in Configs : c.paths \in Seq(SUBSET Nat)
    /\ IsFiniteSet(Migrations)
    /\ Stamped \in [Migrations -> Versions \cup {Unversioned}]
    /\ Builds \subseteq Versions /\ Builds # {}

VARIABLES
    config,
    rows,      \* the tables there are, with the migrations recorded in each
    version,   \* the versions in SequelizeMeta
    applied,   \* the migrations the schema has
    torn,      \* history: taken back, and still recorded
    mig        \* the calls

dbVars == <<config, rows, version, applied, torn, mig>>
vars == <<clientVars, dbVars>>

Idle == [pc |-> "idle", legacy |-> FALSE, copy |-> {}, path |-> 1, todo |-> {},
         build |-> CHOOSE b \in Builds : TRUE, target |-> 0]

First(todo) == CHOOSE m \in todo : \A n \in todo : m <= n
Last(todo)  == CHOOSE m \in todo : \A n \in todo : m >= n

TypeOK ==
    /\ ClientTypeOK
    /\ config \in Configs
    /\ DOMAIN rows \subseteq {"SequelizeMeta", "sequelize_meta"}
    /\ \A t \in DOMAIN rows : rows[t] \subseteq Migrations
    /\ DOMAIN version = Migrations
    /\ applied \subseteq Migrations /\ torn \subseteq Migrations
    /\ \A c \in Calls :
         /\ mig[c].pc \in {"idle", "tables", "create", "select", "insert", "path", "up", "log",
                           "find", "downPath", "down", "unlog", "resolved", "rejected"}
         /\ mig[c].copy \subseteq Migrations
         /\ mig[c].path \in 1..(Len(config.paths) + 1)
         /\ mig[c].todo \subseteq Migrations
         /\ mig[c].pc \in {"up", "log", "down", "unlog"} => mig[c].todo # {}
         /\ mig[c].pc \in {"down", "unlog"} => mig[c].target = First(mig[c].todo)

Init ==
    /\ ClientInit
    /\ config \in Configs /\ bound = config.bound
    /\ \/ rows = [t \in {} |-> {}] /\ applied = {}
       \/ applied \in Executed /\ rows = [t \in {"SequelizeMeta"} |-> applied]
    /\ version = Stamped /\ torn = {}
    /\ mig = [c \in Calls |-> Idle]

-----------------------------------------------------------------------------
(* semverCompare() *)

\* The order of the tests matters: a release is after any pre-release, then rc
\* after beta after alpha, then the number.
ComparePre(v, w) ==
    IF v.pre = "release" /\ w.pre = "release" THEN 0
    ELSE IF w.pre = "release" THEN -1
    ELSE IF v.pre = "release" THEN 1
    ELSE IF v.pre # "rc" /\ w.pre = "rc" THEN -1
    ELSE IF v.pre = "rc" /\ w.pre # "rc" THEN 1
    ELSE IF v.pre # "beta" /\ w.pre = "beta" THEN -1
    ELSE IF v.pre = "beta" /\ w.pre # "beta" THEN 1
    ELSE IF v.preVersion < w.preVersion THEN -1
    ELSE IF v.preVersion > w.preVersion THEN 1 ELSE 0

\* By number, then by pre-release.
SemverCompare(v, w) ==
    CASE v.major < w.major -> -1
      [] v.major > w.major -> 1
      [] v.major = w.major /\ v.minor < w.minor -> -1
      [] v.major = w.major /\ v.minor > w.minor -> 1
      [] <<v.major, v.minor>> = <<w.major, w.minor>> /\ v.patch < w.patch -> -1
      [] <<v.major, v.minor>> = <<w.major, w.minor>> /\ v.patch > w.patch -> 1
      [] OTHER -> ComparePre(v, w)

-----------------------------------------------------------------------------

Settled(c) == mig[c].pc \in {"idle", "resolved", "rejected"}
RollingBack(c) == mig[c].pc \in {"find", "downPath", "down", "unlog"}

Storage == IF config.model = "host" THEN "sequelize_meta" ELSE "SequelizeMeta"
Recorded == IF Storage \in DOMAIN rows THEN rows[Storage] ELSE {}
Record(recorded) == rows' = [t \in DOMAIN rows \cup {Storage} |-> IF t = Storage THEN recorded ELSE rows[t]]

\* The proxy finds a client, and its connection is open.
Connected(c) == c \in Own => client["sequelize"] \in conn["sequelize"]

Go(c, state) == mig' = [mig EXCEPT ![c] = state]
Resolve(c) == Go(c, [Idle EXCEPT !.pc = "resolved"])
Reject(c) == Go(c, [Idle EXCEPT !.pc = "rejected"])

\* Any query, and the function of any migration, may throw.
Throws(c) ==
    /\ ~Settled(c)
    /\ \/ Fault /\ Connected(c)
       \/ ~Connected(c) /\ UNCHANGED faults
    /\ Reject(c)
    /\ UNCHANGED <<bound, client, created, conn, authenticating, registered, stop, lifecycle, due,
                   overlapped, stuck, config, rows, version, applied, torn>>

Query(c, pc) == mig[c].pc = pc /\ Connected(c) /\ UNCHANGED <<clientVars, config>>

-----------------------------------------------------------------------------
(* migrateMetadataTable() *)

\* The host does not migrate while it rolls back.
RunPendingMigrations(c) ==
    /\ c \in config.calls /\ Settled(c) /\ ~\E d \in Calls : RollingBack(d)
    /\ Go(c, [Idle EXCEPT !.pc = "tables"])
    /\ UNCHANGED <<clientVars, config, rows, version, applied, torn>>

\* An SQL_TYPE that is not set throws.
TablesRead(c) ==
    /\ Query(c, "tables")
    /\ \/ "sequelize_meta" \in DOMAIN rows /\ Go(c, [Idle EXCEPT !.pc = "path"])
       \/ /\ "sequelize_meta" \notin DOMAIN rows /\ config.sqlType # "unset"
          /\ Go(c, [Idle EXCEPT !.pc = "create", !.legacy = "SequelizeMeta" \in DOMAIN rows])
       \/ /\ "sequelize_meta" \notin DOMAIN rows /\ config.sqlType = "unset"
          /\ Reject(c)
    /\ UNCHANGED <<rows, version, applied, torn>>

\* Another process may have created it.
CreateTable(c) ==
    /\ Query(c, "create")
    /\ IF "sequelize_meta" \in DOMAIN rows
       THEN Reject(c) /\ UNCHANGED rows
       ELSE /\ rows' = [t \in DOMAIN rows \cup {"sequelize_meta"} |->
                          IF t = "sequelize_meta" THEN {} ELSE rows[t]]
            /\ Go(c, [Idle EXCEPT !.pc = IF mig[c].legacy THEN "select" ELSE "path"])
    /\ UNCHANGED <<version, applied, torn>>

\* The name is not quoted: PostgreSQL looks for sequelizemeta, and finds no table.
SelectLegacy(c) ==
    /\ Query(c, "select")
    /\ IF config.sqlType = "postgres"
       THEN Reject(c)
       ELSE Go(c, [Idle EXCEPT !.pc = "insert", !.copy = rows["SequelizeMeta"]])
    /\ UNCHANGED <<rows, version, applied, torn>>

\* Without values the statement is no SQL; a name that is there cannot be inserted.
InsertRows(c) ==
    /\ Query(c, "insert")
    /\ IF mig[c].copy = {} \/ mig[c].copy \cap rows["sequelize_meta"] # {}
       THEN Reject(c) /\ UNCHANGED rows
       ELSE /\ rows' = [rows EXCEPT !["sequelize_meta"] = @ \cup mig[c].copy]
            /\ Go(c, [Idle EXCEPT !.pc = "path"])
    /\ UNCHANGED <<version, applied, torn>>

-----------------------------------------------------------------------------
(* The loop over the directories *)

NextPath(c) == [mig[c] EXCEPT !.pc = "path", !.path = @ + 1, !.todo = {}]

\* Mutant: the files after the last one recorded are pending.
PendingAfter(path) == {m \in path : \A n \in Recorded : m > n}

Pending(path) == path \ Recorded

\* Umzug's storage creates its table where there is none.
StartPath(c) ==
    /\ Query(c, "path")
    /\ IF mig[c].path > Len(config.paths)
       THEN Resolve(c) /\ UNCHANGED rows
       ELSE LET todo == Pending(config.paths[mig[c].path])
            IN  /\ Record(Recorded)
                /\ Go(c, IF todo = {} THEN NextPath(c)
                         ELSE [mig[c] EXCEPT !.pc = "up", !.todo = todo])
    /\ UNCHANGED <<version, applied, torn>>

\* A migration that was carried out before does nothing, or throws.
Up(c) ==
    /\ Query(c, "up")
    /\ LET m == First(mig[c].todo)
       IN  /\ \/ Go(c, [mig[c] EXCEPT !.pc = "log"])
              \/ m \in applied /\ Reject(c)
           /\ applied' = applied \cup {m}
           /\ torn' = torn \ {m}
    /\ UNCHANGED <<rows, version>>

\* A second row of a name is refused, unless the table has no key for it.
Log(c) ==
    /\ Query(c, "log")
    /\ LET m == First(mig[c].todo)
           rest == mig[c].todo \ {m}
       IN  \/ /\ m \notin Recorded \/ config.model = "package"
              /\ Record(Recorded \cup {m})
              /\ version' = [version EXCEPT ![m] = Unversioned]
              /\ Go(c, IF rest = {} THEN NextPath(c) ELSE [mig[c] EXCEPT !.pc = "up", !.todo = rest])
           \/ /\ m \in Recorded /\ config.model # "package"
              /\ Reject(c)
              /\ UNCHANGED <<rows, version>>
    /\ UNCHANGED <<applied, torn>>

-----------------------------------------------------------------------------
(* rollbackMigrations() *)

RollbackMigrations(c) ==
    /\ c \in config.calls
    /\ \A d \in Calls : Settled(d)
    /\ \E build \in Builds : Go(c, [Idle EXCEPT !.pc = "find", !.build = build])
    /\ UNCHANGED <<clientVars, config, rows, version, applied, torn>>

\* The rows whose version is above BUILD_ID; those without one are passed over.
Above(build) ==
    {m \in rows["SequelizeMeta"] :
       version[m] # Unversioned /\ SemverCompare(version[m], build) = 1}

\* The first by name is the target.  The model SequelizeMeta throws if nobody
\* has added it to the client.
FindTarget(c) ==
    /\ Query(c, "find")
    /\ IF config.model # "package" \/ "SequelizeMeta" \notin DOMAIN rows
       THEN Reject(c)
       ELSE LET above == Above(mig[c].build)
            IN  IF above = {} \/ config.paths = <<>>
                THEN Resolve(c)
                ELSE Go(c, [mig[c] EXCEPT !.pc = "downPath",
                              !.target = First(above)])
    /\ UNCHANGED <<rows, version, applied, torn>>

\* The recorded files of a directory from the target on.
Reverted(path, target) == {m \in path \cap Recorded : m >= target}

\* A target that is no recorded file of the directory throws.
StartDown(c) ==
    /\ Query(c, "downPath")
    /\ IF mig[c].path > Len(config.paths)
       THEN Resolve(c)
       ELSE LET todo == Reverted(config.paths[mig[c].path], mig[c].target)
            IN  IF mig[c].target \in todo
                THEN Go(c, [mig[c] EXCEPT !.pc = "down", !.todo = todo])
                ELSE Reject(c)
    /\ UNCHANGED <<rows, version, applied, torn>>

\* The last one comes first.
Down(c) ==
    /\ Query(c, "down")
    /\ LET m == Last(mig[c].todo)
       IN  /\ applied' = applied \ {m}
           /\ torn' = torn \cup {m}
    /\ Go(c, [mig[c] EXCEPT !.pc = "unlog"])
    /\ UNCHANGED <<rows, version>>

Unlog(c) ==
    /\ Query(c, "unlog")
    /\ LET m == Last(mig[c].todo)
           rest == mig[c].todo \ {m}
       IN  /\ Record(Recorded \ {m})
           /\ torn' = torn \ {m}
           /\ Go(c, IF rest = {} THEN [NextPath(c) EXCEPT !.pc = "downPath"]
                    ELSE [mig[c] EXCEPT !.pc = "down", !.todo = rest])
    /\ UNCHANGED <<version, applied>>

-----------------------------------------------------------------------------

\* The calls of the process are gone; the database and the other processes stay.
Crash ==
    /\ CrashClients
    /\ mig' = [c \in Calls |-> IF c \in Own THEN Idle ELSE mig[c]]
    /\ UNCHANGED <<config, rows, version, applied, torn>>

Next ==
    \/ ClientNext /\ UNCHANGED dbVars
    \/ Crash
    \/ \E c \in Calls :
         \/ RunPendingMigrations(c) \/ TablesRead(c) \/ CreateTable(c) \/ SelectLegacy(c)
         \/ InsertRows(c) \/ StartPath(c) \/ Up(c) \/ Log(c)
         \/ RollbackMigrations(c) \/ FindTarget(c) \/ StartDown(c) \/ Down(c) \/ Unlog(c)
         \/ Throws(c)

Spec == Init /\ [][Next]_vars

-----------------------------------------------------------------------------
(* Properties *)

Files == UNION {config.paths[i] : i \in DOMAIN config.paths}

\* When runPendingMigrations() resolves, every migration of every directory has
\* been carried out, whatever raced, failed or crashed before, except one whose
\* rollback was cut off between the migration and its record.
MigratedWhenResolved ==
    [][\A c \in Calls :
         ~Settled(c) /\ ~RollingBack(c) /\ mig'[c].pc = "resolved"
         => Files \subseteq applied' \cup torn']_vars

\* The order that semverCompare() stands for.
Rank == [alpha |-> 1, beta |-> 2, rc |-> 3]
Newer(v, w) ==
    \/ v.major > w.major
    \/ v.major = w.major /\ v.minor > w.minor
    \/ <<v.major, v.minor>> = <<w.major, w.minor>> /\ v.patch > w.patch
    \/ /\ <<v.major, v.minor, v.patch>> = <<w.major, w.minor, w.patch>>
       /\ \/ v.pre = "release" /\ w.pre # "release"
          \/ v.pre # "release" /\ w.pre # "release" /\ Rank[v.pre] > Rank[w.pre]
          \/ v.pre # "release" /\ v.pre = w.pre /\ v.preVersion > w.preVersion

\* When rollbackMigrations() resolves, no file is recorded any more with a
\* version after BUILD_ID.  README.md:2279 promises more, "the current version
\* of the app and after": dbMigration.ts:155 compares strictly, and files that
\* have the version of BUILD_ID stay.
LaterRolledBack ==
    [][\A c \in Calls :
         RollingBack(c) /\ mig'[c].pc = "resolved"
         => \A m \in Files \cap rows'["SequelizeMeta"] :
              version[m] # Unversioned => ~Newer(version[m], mig[c].build)]_vars

=============================================================================
