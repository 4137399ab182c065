------------------------- MODULE DbMigration_proofs -------------------------
(***************************************************************************)
(* Proofs about DbMigration and EntityClients.  The first, that of         *)
(* MigratedWhenResolved, says that runPendingMigrations()                  *)
(* only resolves when every migration was carried out, with any number of  *)
(* processes, directories and deployments.                                 *)
(*                                                                         *)
(* What is recorded was carried out, or was just taken back (RowsTrue); a  *)
(* call has behind it what it found recorded or carried out itself         *)
(* (Progress); and nothing of this is taken away while it runs, since only *)
(* a rollback takes back and none runs beside it (Exclusive).  The old     *)
(* metadata table matters only where umzug reads the new one, which is     *)
(* where no rollback gets past its query.                                  *)
(*                                                                         *)
(* Then StoppedMeansClosed of the clients, the types, and LaterRolledBack, *)
(* with the lemma that semverCompare() is the order of versions.           *)
(***************************************************************************)
EXTENDS DbMigration, FiniteSetTheorems, WellFoundedInduction, TLAPS

IsState(s) ==
    /\ DOMAIN s = {"pc", "legacy", "copy", "path", "todo", "build", "target"}
    /\ s.path \in Nat \ {0}

\* The old table is only read where it was seen, and stays.
LegacySeen(s) == s.pc = "select" \/ s.legacy => "SequelizeMeta" \in DOMAIN rows

Present == applied \cup torn

Rests(s) == s.pc \in {"idle", "resolved", "rejected"}
Rolls(s) == s.pc \in {"find", "downPath", "down", "unlog"}

RowsTrue ==
    /\ Recorded \subseteq Present
    /\ config.model # "package" =>
         /\ \A t \in DOMAIN rows : rows[t] \subseteq Present
         /\ \A c \in Calls : mig[c].copy \subseteq Present

Progress(s, present) ==
    s.pc \in {"path", "up", "log"} =>
        /\ \A i \in DOMAIN config.paths : i < s.path => config.paths[i] \subseteq present
        /\ s.pc \in {"up", "log"} =>
             s.path \in DOMAIN config.paths /\ config.paths[s.path] \subseteq present \cup s.todo
        /\ s.pc = "log" => First(s.todo) \in present

Exclusive ==
    \A c \in Calls : Rolls(mig[c]) =>
        /\ \A d \in Calls \ {c} : Rests(mig[d])
        /\ mig[c].pc # "find" => config.model = "package"

DbInv ==
    /\ config \in Configs
    /\ mig = [c \in Calls |-> mig[c]] /\ \A c \in Calls : IsState(mig[c]) /\ LegacySeen(mig[c])
    /\ RowsTrue
    /\ \A c \in Calls : Progress(mig[c], Present)
    /\ Exclusive

-----------------------------------------------------------------------------

\* A call starts from a state with nothing copied and at the first directory.
LEMMA IdleState == IsState(Idle) /\ Idle.pc = "idle" /\ Idle.path = 1 /\ Idle.copy = {} /\ ~Idle.legacy
  BY DEF Idle, IsState

\* What a step of one call to the state s must keep.
Keeps(c, s) ==
    /\ IsState(s) /\ Go(c, s) /\ UNCHANGED config
    /\ DOMAIN rows \subseteq DOMAIN rows' /\ LegacySeen(s)
    /\ Recorded' \subseteq Present'
    /\ config.model # "package" =>
         /\ \A t \in DOMAIN rows' : rows'[t] \subseteq Present'
         /\ s.copy \subseteq Present'
    /\ Present \subseteq Present' \/ (Rolls(mig[c]) /\ config.model = "package")
    /\ Progress(s, Present')
    /\ Rolls(s) => /\ \A d \in Calls \ {c} : Rests(mig[d])
                   /\ s.pc # "find" => config.model = "package"
    /\ Rolls(s) \/ Rests(s) \/ \A d \in Calls \ {c} : ~Rolls(mig[d])

\* One call moves and the others stay: what its new state keeps is enough.
LEMMA OneCall ==
    ASSUME DbInv, NEW c \in Calls, NEW s, Keeps(c, s)
    PROVE  DbInv'
  <1> USE DEF DbInv, Keeps
  <1>1. mig' = [d \in Calls |-> IF d = c THEN s ELSE mig[d]]
    BY DEF Go
  <1>2. mig' = [d \in Calls |-> mig'[d]] /\ \A d \in Calls : IsState(mig'[d])
    BY <1>1
  <1>6. \A d \in Calls : LegacySeen(mig[d])'
    BY <1>1 DEF LegacySeen
  <1>3. RowsTrue'
    BY <1>1 DEF RowsTrue
  <1>4. ASSUME NEW d \in Calls PROVE Progress(mig[d], Present)'
    <2>1. CASE d = c
      BY <1>1, <2>1 DEF Progress
    <2>2. CASE d # c /\ Present \subseteq Present'
      <3>1. Progress(mig[d], Present) /\ mig'[d] = mig[d]
        BY <1>1, <2>2
      <3> QED
        BY <2>2, <3>1 DEF Progress
    <2>3. CASE d # c /\ Rolls(mig[c])
      <3>1. Rests(mig'[d])
        BY <1>1, <2>3 DEF Exclusive
      <3> QED
        BY <3>1 DEF Progress, Rests
    <2> QED
      BY <2>1, <2>2, <2>3
  <1>5. Exclusive'
    <2>1. ASSUME NEW d \in Calls, Rolls(mig'[d])
          PROVE  /\ \A e \in Calls \ {d} : Rests(mig'[e])
                 /\ mig'[d].pc # "find" => config.model = "package"
      <3>1. CASE d = c
        BY <1>1, <2>1, <3>1
      <3>2. CASE d # c
        <4>1. Rolls(mig[d]) /\ mig'[d] = mig[d]
          BY <1>1, <2>1, <3>2
        <4>2. Rests(s)
          BY <4>1, <3>2 DEF Rests, Rolls
        <4> QED
          BY <1>1, <3>2, <4>1, <4>2 DEF Exclusive
      <3> QED
        BY <3>1, <3>2
    <2> QED
      BY <2>1 DEF Exclusive, Rolls, Rests
  <1> QED
    BY <1>2, <1>3, <1>4, <1>5, <1>6

\* A step that reads only.
LEMMA LocalStep ==
    ASSUME DbInv, NEW c \in Calls, NEW s, IsState(s), Go(c, s),
           UNCHANGED <<config, rows, applied, torn>>, LegacySeen(s),
           config.model # "package" => s.copy \subseteq Present,
           Progress(s, Present),
           Rolls(s) => /\ \A d \in Calls \ {c} : Rests(mig[d])
                       /\ s.pc # "find" => config.model = "package",
           Rolls(s) \/ Rests(s) \/ \A d \in Calls \ {c} : ~Rolls(mig[d])
    PROVE  DbInv'
  <1>1. Present' = Present /\ Recorded' = Recorded
    BY DEF Present, Recorded, Storage
  <1>2. /\ Recorded' \subseteq Present'
        /\ config.model # "package" =>
             /\ \A t \in DOMAIN rows' : rows'[t] \subseteq Present'
             /\ s.copy \subseteq Present'
    BY <1>1 DEF DbInv, RowsTrue
  <1>3. DOMAIN rows \subseteq DOMAIN rows' /\ UNCHANGED config /\ Present \subseteq Present'
    BY <1>1
  <1>4. Progress(s, Present')
    BY <1>1 DEF Progress
  <1> QED
    BY <1>2, <1>3, <1>4, OneCall DEF Keeps

\* A call that ends, or throws.
LEMMA CallEnds ==
    ASSUME DbInv, NEW c \in Calls, Resolve(c) \/ Reject(c), UNCHANGED <<config, rows>>,
           Present \subseteq Present'
    PROVE  DbInv'
  <1>1. PICK pc \in {"resolved", "rejected"} : Go(c, [Idle EXCEPT !.pc = pc])
    BY DEF Resolve, Reject
  <1> DEFINE s == [Idle EXCEPT !.pc = pc]
  <1>2. IsState(s) /\ s.pc = pc /\ s.copy = {} /\ ~s.legacy
    BY DEF Idle, IsState
  <1>3. /\ Go(c, s) /\ Recorded' = Recorded /\ DOMAIN rows \subseteq DOMAIN rows' /\ UNCHANGED config
        /\ Present \subseteq Present' \/ (Rolls(mig[c]) /\ config.model = "package")
    BY <1>1 DEF Recorded, Storage
  <1> HIDE DEF s
  <1>4. Rests(s) /\ ~Rolls(s) /\ LegacySeen(s) /\ Progress(s, Present')
    BY <1>2 DEF Rests, Rolls, LegacySeen, Progress
  <1>5. /\ Recorded' \subseteq Present'
        /\ config.model # "package" =>
             /\ \A t \in DOMAIN rows' : rows'[t] \subseteq Present'
             /\ s.copy \subseteq Present'
    BY <1>2, <1>3 DEF DbInv, RowsTrue
  <1> QED
    BY <1>2, <1>3, <1>4, <1>5, OneCall DEF Keeps

\* No rollback beside a call that is under way.
LEMMA ActiveAlone ==
    ASSUME DbInv, NEW c \in Calls, ~Rests(mig[c])
    PROVE  \A d \in Calls \ {c} : ~Rolls(mig[d])
  BY DEF DbInv, Exclusive

\* Directories are counted from 1.
LEMMA PathsIndexed ==
    ASSUME DbInv
    PROVE  /\ config.paths \in Seq(SUBSET Nat)
           /\ DOMAIN config.paths = 1..Len(config.paths) /\ Len(config.paths) \in Nat
  BY DbMigrationAssumption DEF DbInv

\* migrateMetadataTable().
LEMMA TableKeeps ==
    ASSUME DbInv, NEW c \in Calls,
           \/ RunPendingMigrations(c) \/ TablesRead(c) \/ CreateTable(c) \/ SelectLegacy(c)
           \/ InsertRows(c)
    PROVE  DbInv'
  <1>0. RowsTrue /\ IsState(mig[c]) /\ LegacySeen(mig[c])
    BY DEF DbInv
  <1>1. ASSUME NEW pc \in {"tables", "create", "select", "insert", "path"}, NEW s,
               s.pc = pc, s.path = 1
        PROVE  \A present : Progress(s, present) /\ ~Rolls(s) /\ ~Rests(s)
    BY <1>1, PathsIndexed DEF Progress, Rolls, Rests
  <1>2. CASE RunPendingMigrations(c)
    <2> DEFINE s == [Idle EXCEPT !.pc = "tables"]
    <2>1. IsState(s) /\ s.pc = "tables" /\ s.path = 1 /\ s.copy = {} /\ ~s.legacy
      BY DEF Idle, IsState
    <2>2. Go(c, s) /\ UNCHANGED <<config, rows, applied, torn>>
      BY <1>2 DEF RunPendingMigrations
    <2>3. \A d \in Calls \ {c} : ~Rolls(mig[d])
      BY <1>2 DEF RunPendingMigrations, RollingBack, Rolls
    <2> HIDE DEF s
    <2> QED
      BY <1>1, <2>1, <2>2, <2>3, LocalStep DEF LegacySeen
  <1>3. CASE TablesRead(c)
    <2>1. ASSUME Go(c, [Idle EXCEPT !.pc = "create", !.legacy = "SequelizeMeta" \in DOMAIN rows])
          PROVE  DbInv'
      <3> DEFINE s == [Idle EXCEPT !.pc = "create", !.legacy = "SequelizeMeta" \in DOMAIN rows]
      <3>1. /\ IsState(s) /\ s.pc = "create" /\ s.path = 1 /\ s.copy = {}
            /\ s.legacy = ("SequelizeMeta" \in DOMAIN rows)
        BY DEF Idle, IsState
      <3>2. Go(c, s) /\ UNCHANGED <<config, rows, applied, torn>>
        BY <1>3, <2>1 DEF TablesRead, Query
      <3>3. ~Rests(mig[c])
        BY <1>3 DEF TablesRead, Query, Rests
      <3> HIDE DEF s
      <3>4. Progress(s, Present) /\ ~Rolls(s) /\ LegacySeen(s)
        BY <1>1, <2>1, <3>1 DEF LegacySeen
      <3> QED
        BY <3>1, <3>2, <3>3, <3>4, LocalStep, ActiveAlone
    <2>2. ASSUME Go(c, [Idle EXCEPT !.pc = "path"]) PROVE DbInv'
      <3> DEFINE s == [Idle EXCEPT !.pc = "path"]
      <3>1. IsState(s) /\ s.pc = "path" /\ s.path = 1 /\ s.copy = {} /\ ~s.legacy
        BY DEF Idle, IsState
      <3>2. Go(c, s) /\ UNCHANGED <<config, rows, applied, torn>>
        BY <1>3, <2>2 DEF TablesRead, Query
      <3>3. ~Rests(mig[c])
        BY <1>3 DEF TablesRead, Query, Rests
      <3> HIDE DEF s
      <3>4. Progress(s, Present) /\ ~Rolls(s) /\ LegacySeen(s)
        BY <1>1, <3>1 DEF LegacySeen
      <3> QED
        BY <3>1, <3>2, <3>3, <3>4, LocalStep, ActiveAlone
    <2>3. CASE Reject(c)
      BY <1>3, <2>3, CallEnds DEF TablesRead, Query, Present
    <2> QED
      BY <1>3, <2>1, <2>2, <2>3 DEF TablesRead, Query
  <1>4. CASE CreateTable(c)
    <2>1. CASE Reject(c) /\ UNCHANGED rows
      BY <1>4, <2>1, CallEnds DEF CreateTable, Query, Present
    <2>2. ASSUME NEW pc \in {"select", "path"}, pc = "select" => mig[c].legacy,
                 Go(c, [Idle EXCEPT !.pc = pc]),
                 rows' = [t \in DOMAIN rows \cup {"sequelize_meta"} |->
                            IF t = "sequelize_meta" THEN {} ELSE rows[t]]
          PROVE  DbInv'
      <3> DEFINE s == [Idle EXCEPT !.pc = pc]
      <3>1. IsState(s) /\ s.pc = pc /\ s.path = 1 /\ s.copy = {} /\ ~s.legacy
        BY DEF Idle, IsState
      <3>2. Go(c, s) /\ UNCHANGED <<config, applied, torn>> /\ ~Rests(mig[c])
        BY <1>4, <2>2 DEF CreateTable, Query, Rests
      <3> HIDE DEF s
      <3>3. Progress(s, Present') /\ ~Rolls(s) /\ LegacySeen(s)
        BY <1>0, <1>1, <2>2, <3>1 DEF LegacySeen
      <3>4. /\ DOMAIN rows \subseteq DOMAIN rows' /\ Recorded' \subseteq Recorded /\ Present' = Present
            /\ \A t \in DOMAIN rows' : rows'[t] = {} \/ (t \in DOMAIN rows /\ rows'[t] = rows[t])
        BY <2>2, <3>2 DEF Recorded, Storage, Present
      <3>5. Keeps(c, s)
        BY <1>0, <3>1, <3>2, <3>3, <3>4, ActiveAlone DEF Keeps, RowsTrue
      <3> QED
        BY <3>5, OneCall
    <2> QED
      BY <1>4, <2>1, <2>2 DEF CreateTable
  <1>5. CASE SelectLegacy(c)
    <2>1. CASE Reject(c)
      BY <1>5, <2>1, CallEnds DEF SelectLegacy, Query, Present
    <2>2. CASE Go(c, [Idle EXCEPT !.pc = "insert", !.copy = rows["SequelizeMeta"]])
      <3> DEFINE s == [Idle EXCEPT !.pc = "insert", !.copy = rows["SequelizeMeta"]]
      <3>1. /\ IsState(s) /\ s.pc = "insert" /\ s.path = 1 /\ s.copy = rows["SequelizeMeta"]
            /\ ~s.legacy
        BY DEF Idle, IsState
      <3>2. Go(c, s) /\ UNCHANGED <<config, rows, applied, torn>> /\ ~Rests(mig[c])
        BY <1>5, <2>2 DEF SelectLegacy, Query, Rests
      <3> HIDE DEF s
      <3>3. Progress(s, Present) /\ ~Rolls(s) /\ LegacySeen(s)
        BY <1>1, <3>1 DEF LegacySeen
      <3>4. config.model # "package" => s.copy \subseteq Present
        BY <1>0, <1>5, <3>1 DEF SelectLegacy, Query, LegacySeen, RowsTrue
      <3> QED
        BY <3>1, <3>2, <3>3, <3>4, LocalStep, ActiveAlone
    <2> QED
      BY <1>5, <2>1, <2>2 DEF SelectLegacy
  <1>6. CASE InsertRows(c)
    <2>1. CASE Reject(c) /\ UNCHANGED rows
      BY <1>6, <2>1, CallEnds DEF InsertRows, Query, Present
    <2>2. CASE /\ rows' = [rows EXCEPT !["sequelize_meta"] = @ \cup mig[c].copy]
               /\ Go(c, [Idle EXCEPT !.pc = "path"])
      <3> DEFINE s == [Idle EXCEPT !.pc = "path"]
      <3>1. IsState(s) /\ s.pc = "path" /\ s.path = 1 /\ s.copy = {} /\ ~s.legacy
        BY DEF Idle, IsState
      <3>2. Go(c, s) /\ UNCHANGED <<config, applied, torn>> /\ ~Rests(mig[c])
        BY <1>6, <2>2 DEF InsertRows, Query, Rests
      <3> HIDE DEF s
      <3>3. Progress(s, Present') /\ ~Rolls(s) /\ LegacySeen(s)
        BY <1>1, <3>1 DEF LegacySeen
      <3>4. /\ DOMAIN rows' = DOMAIN rows /\ Present' = Present
            /\ \A t \in DOMAIN rows : rows'[t] \subseteq rows[t] \cup mig[c].copy
            /\ config.model # "host" => Recorded' = Recorded
        BY <2>2, <3>2 DEF Recorded, Storage, Present
      <3>5. config.model # "package" => \A t \in DOMAIN rows' : rows'[t] \subseteq Present'
        BY <1>0, <3>4 DEF RowsTrue
      <3>6. Recorded' \subseteq Present'
        BY <1>0, <3>2, <3>4, <3>5 DEF RowsTrue, Recorded, Storage
      <3>7. Keeps(c, s)
        BY <3>1, <3>2, <3>3, <3>4, <3>5, <3>6, ActiveAlone DEF Keeps
      <3> QED
        BY <3>7, OneCall
    <2> QED
      BY <1>6, <2>1, <2>2 DEF InsertRows
  <1> QED
    BY <1>2, <1>3, <1>4, <1>5, <1>6

\* What Record() leaves.
LEMMA RecordLeaves ==
    ASSUME NEW recorded, Record(recorded), UNCHANGED config
    PROVE  /\ Recorded' = recorded /\ DOMAIN rows \subseteq DOMAIN rows'
           /\ \A t \in DOMAIN rows' : rows'[t] = recorded \/ (t \in DOMAIN rows /\ rows'[t] = rows[t])
  <1>1. Storage' = Storage
    BY DEF Storage
  <1> QED
    BY <1>1 DEF Record, Recorded

\* A step inside the loop, which records at most what was carried out.
LEMMA LoopStep ==
    ASSUME DbInv, NEW c \in Calls, mig[c].pc \in {"path", "up", "log"},
           NEW s, IsState(s), Go(c, s), UNCHANGED config,
           s.pc \in {"path", "up", "log"}, s.copy = mig[c].copy, s.legacy = mig[c].legacy,
           Present \subseteq Present', Progress(s, Present'),
           NEW recorded, recorded \subseteq Present', UNCHANGED rows \/ Record(recorded)
    PROVE  DbInv'
  <1>1. RowsTrue /\ LegacySeen(mig[c]) /\ (\A d \in Calls \ {c} : ~Rolls(mig[d])) /\ ~Rolls(s)
    BY ActiveAlone DEF DbInv, Rests, Rolls
  <1>2. /\ Recorded' \subseteq Recorded \cup recorded /\ DOMAIN rows \subseteq DOMAIN rows'
        /\ \A t \in DOMAIN rows' : rows'[t] = recorded \/ (t \in DOMAIN rows /\ rows'[t] = rows[t])
    <2>1. CASE UNCHANGED rows
      BY <2>1 DEF Recorded, Storage
    <2>2. CASE Record(recorded)
      BY <2>2, RecordLeaves
    <2> QED
      BY <2>1, <2>2
  <1>3. LegacySeen(s)
    BY <1>1 DEF LegacySeen
  <1>4. /\ Recorded' \subseteq Present'
        /\ config.model # "package" =>
             /\ \A t \in DOMAIN rows' : rows'[t] \subseteq Present'
             /\ s.copy \subseteq Present'
    BY <1>1, <1>2 DEF RowsTrue
  <1> QED
    BY <1>1, <1>2, <1>3, <1>4, OneCall DEF Keeps

\* The next directory, when all of this one is there.
LEMMA PathDone ==
    ASSUME DbInv, NEW c \in Calls, mig[c].pc \in {"path", "up", "log"}, NEW present,
           Present \subseteq present, mig[c].path \in DOMAIN config.paths,
           config.paths[mig[c].path] \subseteq present
    PROVE  /\ IsState(NextPath(c)) /\ Progress(NextPath(c), present)
           /\ NextPath(c).pc = "path" /\ NextPath(c).copy = mig[c].copy
           /\ NextPath(c).legacy = mig[c].legacy
  <1>1. IsState(mig[c]) /\ Progress(mig[c], Present)
    BY DEF DbInv
  <1> DEFINE s == NextPath(c)
  <1>2. /\ IsState(s) /\ s.pc = "path" /\ s.path = mig[c].path + 1
        /\ s.copy = mig[c].copy /\ s.legacy = mig[c].legacy
    BY <1>1 DEF NextPath, IsState
  <1> HIDE DEF s
  <1>3. \A i \in DOMAIN config.paths : i < s.path => config.paths[i] \subseteq present
    <2> SUFFICES ASSUME NEW i \in DOMAIN config.paths, i < s.path
                 PROVE  config.paths[i] \subseteq present
      OBVIOUS
    <2>1. i \in Nat /\ mig[c].path \in Nat
      BY <1>1, PathsIndexed DEF IsState
    <2>2. i < mig[c].path \/ i = mig[c].path
      BY <1>2, <2>1
    <2> QED
      BY <1>1, <2>2 DEF Progress
  <1> QED
    BY <1>2, <1>3 DEF Progress, s

\* The loop of runPendingMigrations().
LEMMA LoopKeeps ==
    ASSUME DbInv, NEW c \in Calls, StartPath(c) \/ Up(c) \/ Log(c)
    PROVE  DbInv'
  <1>0. /\ RowsTrue /\ IsState(mig[c]) /\ Progress(mig[c], Present)
        /\ mig[c].pc \in {"path", "up", "log"}
    BY DEF DbInv, StartPath, Up, Log, Query
  <1> DEFINE here == config.paths[mig[c].path]
  <1>1. CASE StartPath(c)
    <2>1. CASE mig[c].path > Len(config.paths)
      BY <1>1, <2>1, CallEnds DEF StartPath, Query, Present
    <2>2. CASE ~(mig[c].path > Len(config.paths))
      <3> DEFINE todo == Pending(here)
      <3>1. /\ Record(Recorded) /\ UNCHANGED <<config, applied, torn>>
            /\ Go(c, IF todo = {} THEN NextPath(c) ELSE [mig[c] EXCEPT !.pc = "up", !.todo = todo])
        BY <1>1, <2>2 DEF StartPath, Query
      <3>2. Present' = Present /\ Recorded \subseteq Present
        BY <1>0, <3>1 DEF Present, RowsTrue
      <3>3. here \subseteq Present \cup todo
        BY <3>2 DEF Pending
      <3>4. mig[c].path \in DOMAIN config.paths
        BY <1>0, <2>2, PathsIndexed DEF IsState
      <3>5. CASE todo = {}
        <4>1. Go(c, NextPath(c)) /\ here \subseteq Present /\ Present \subseteq Present
              /\ Present \subseteq Present' /\ UNCHANGED config
          BY <3>1, <3>2, <3>3, <3>5
        <4>2. /\ IsState(NextPath(c)) /\ Progress(NextPath(c), Present)
              /\ NextPath(c).pc = "path" /\ NextPath(c).copy = mig[c].copy
              /\ NextPath(c).legacy = mig[c].legacy
          BY <1>0, <3>4, <4>1, PathDone
        <4>3. Progress(NextPath(c), Present')
          BY <3>2, <4>2
        <4> QED
          BY <1>0, <3>1, <3>2, <4>1, <4>2, <4>3, LoopStep
      <3>6. CASE todo # {}
        <4> DEFINE s == [mig[c] EXCEPT !.pc = "up", !.todo = todo]
        <4>1. /\ IsState(s) /\ s.pc = "up" /\ s.todo = todo /\ s.path = mig[c].path
              /\ s.copy = mig[c].copy /\ s.legacy = mig[c].legacy
          BY <1>0 DEF IsState
        <4>2. Go(c, s)
          BY <3>1, <3>6
        <4> HIDE DEF s
        <4>3. Progress(s, Present')
          BY <1>0, <3>2, <3>3, <3>4, <4>1 DEF Progress
        <4> QED
          BY <1>0, <3>1, <3>2, <4>1, <4>2, <4>3, LoopStep
      <3> QED
        BY <3>5, <3>6
    <2> QED
      BY <2>1, <2>2
  <1>2. CASE Up(c)
    <2> DEFINE m == First(mig[c].todo)
    <2>1. /\ applied' = applied \cup {m} /\ torn' = torn \ {m} /\ UNCHANGED <<config, rows>>
          /\ mig[c].pc = "up"
      BY <1>2 DEF Up, Query
    <2>2. Present' = Present \cup {m}
      BY <2>1 DEF Present
    <2>3. CASE Reject(c)
      BY <2>1, <2>2, <2>3, CallEnds
    <2>4. CASE Go(c, [mig[c] EXCEPT !.pc = "log"])
      <3> DEFINE s == [mig[c] EXCEPT !.pc = "log"]
      <3>1. /\ IsState(s) /\ s.pc = "log" /\ s.todo = mig[c].todo /\ s.path = mig[c].path
            /\ s.copy = mig[c].copy /\ s.legacy = mig[c].legacy
        BY <1>0 DEF IsState
      <3>2. Go(c, s)
        BY <2>4
      <3> HIDE DEF s
      <3>3. Progress(s, Present')
        BY <1>0, <2>1, <2>2, <3>1 DEF Progress
      <3> HIDE DEF m
      <3> QED
        BY <1>0, <2>1, <2>2, <3>1, <3>2, <3>3, LoopStep
    <2> QED
      BY <1>2, <2>3, <2>4 DEF Up
  <1>3. CASE Log(c)
    <2> DEFINE m == First(mig[c].todo)
               rest == mig[c].todo \ {m}
    <2>1. UNCHANGED <<config, applied, torn>> /\ mig[c].pc = "log"
      BY <1>3 DEF Log, Query
    <2>2. Present' = Present /\ m \in Present /\ Recorded \subseteq Present
      BY <1>0, <2>1 DEF Present, Progress, RowsTrue
    <2>3. /\ mig[c].path \in DOMAIN config.paths
          /\ here \subseteq Present \cup rest
      BY <1>0, <2>1, <2>2 DEF Progress
    <2>4. CASE Reject(c) /\ UNCHANGED rows
      BY <2>1, <2>2, <2>4, CallEnds
    <2>5. CASE Record(Recorded \cup {m}) /\ rest = {} /\ Go(c, NextPath(c))
      <3>1. /\ IsState(NextPath(c)) /\ Progress(NextPath(c), Present)
            /\ NextPath(c).pc = "path" /\ NextPath(c).copy = mig[c].copy
            /\ NextPath(c).legacy = mig[c].legacy
        BY <1>0, <2>3, <2>5, PathDone
      <3>2. Progress(NextPath(c), Present')
        BY <2>2, <3>1
      <3>3. Recorded \cup {m} \subseteq Present' /\ Present \subseteq Present'
        BY <2>2
      <3> HIDE DEF m
      <3> QED
        BY <1>0, <2>1, <2>5, <3>1, <3>2, <3>3, LoopStep
    <2>6. CASE Record(Recorded \cup {m}) /\ Go(c, [mig[c] EXCEPT !.pc = "up", !.todo = rest])
      <3> DEFINE s == [mig[c] EXCEPT !.pc = "up", !.todo = rest]
      <3>1. /\ IsState(s) /\ s.pc = "up" /\ s.todo = rest /\ s.path = mig[c].path
            /\ s.copy = mig[c].copy /\ s.legacy = mig[c].legacy
        BY <1>0 DEF IsState
      <3>2. Go(c, s)
        BY <2>6
      <3> HIDE DEF s
      <3>3. Progress(s, Present')
        BY <1>0, <2>1, <2>2, <2>3, <3>1 DEF Progress
      <3>4. Recorded \cup {m} \subseteq Present' /\ Present \subseteq Present'
        BY <2>2
      <3> HIDE DEF m
      <3> QED
        BY <1>0, <2>1, <2>6, <3>1, <3>2, <3>3, <3>4, LoopStep
    <2> QED
      BY <1>3, <2>4, <2>5, <2>6 DEF Log
  <1> QED
    BY <1>1, <1>2, <1>3

\* A step of a rollback, beside which no other call runs.
LEMMA RollStep ==
    ASSUME DbInv, NEW c \in Calls, Rolls(mig[c]), config.model = "package",
           NEW s, IsState(s), Rolls(s), Go(c, s), UNCHANGED config, s.legacy = mig[c].legacy,
           DOMAIN rows \subseteq DOMAIN rows', Recorded' \subseteq Present'
    PROVE  DbInv'
  <1>1. LegacySeen(s) /\ Progress(s, Present')
    BY DEF DbInv, LegacySeen, Rolls, Progress
  <1>2. \A d \in Calls \ {c} : Rests(mig[d])
    BY DEF DbInv, Exclusive
  <1> QED
    BY <1>1, <1>2, OneCall DEF Keeps

\* rollbackMigrations().
LEMMA RollbackKeeps ==
    ASSUME DbInv, NEW c \in Calls,
           RollbackMigrations(c) \/ FindTarget(c) \/ StartDown(c) \/ Down(c) \/ Unlog(c)
    PROVE  DbInv'
  <1>0. RowsTrue /\ IsState(mig[c])
    BY DEF DbInv
  <1>1. CASE RollbackMigrations(c)
    <2>1. PICK build \in Builds : Go(c, [Idle EXCEPT !.pc = "find", !.build = build])
      BY <1>1 DEF RollbackMigrations
    <2> DEFINE s == [Idle EXCEPT !.pc = "find", !.build = build]
    <2>2. IsState(s) /\ s.pc = "find" /\ s.copy = {} /\ ~s.legacy
      BY DEF Idle, IsState
    <2>3. /\ Go(c, s) /\ UNCHANGED <<config, rows, applied, torn>>
          /\ \A d \in Calls : Rests(mig[d])
      BY <1>1, <2>1 DEF RollbackMigrations, Settled, Rests
    <2> HIDE DEF s
    <2>4. LegacySeen(s) /\ Progress(s, Present) /\ Rolls(s)
      BY <2>2 DEF LegacySeen, Progress, Rolls
    <2> QED
      BY <2>2, <2>3, <2>4, LocalStep
  <1>2. CASE FindTarget(c)
    <2>1. mig[c].pc = "find" /\ UNCHANGED <<config, rows, applied, torn>>
      BY <1>2 DEF FindTarget, Query
    <2>2. CASE Resolve(c) \/ Reject(c)
      BY <2>1, <2>2, CallEnds DEF Present
    <2>3. ASSUME NEW target, config.model = "package",
                 Go(c, [mig[c] EXCEPT !.pc = "downPath", !.target = target])
          PROVE  DbInv'
      <3> DEFINE s == [mig[c] EXCEPT !.pc = "downPath", !.target = target]
      <3>1. IsState(s) /\ s.pc = "downPath" /\ s.legacy = mig[c].legacy /\ Go(c, s)
        BY <1>0, <2>3 DEF IsState
      <3> HIDE DEF s
      <3>2. Rolls(mig[c]) /\ Rolls(s) /\ Recorded' \subseteq Present'
        BY <1>0, <2>1, <3>1 DEF Rolls, RowsTrue, Recorded, Storage, Present
      <3> QED
        BY <2>1, <2>3, <3>1, <3>2, RollStep
    <2> QED
      BY <1>2, <2>2, <2>3 DEF FindTarget
  <1>3. ASSUME mig[c].pc \in {"downPath", "down", "unlog"}
        PROVE  Rolls(mig[c]) /\ config.model = "package"
    BY <1>3 DEF Rolls, DbInv, Exclusive
  <1>4. CASE StartDown(c)
    <2>1. mig[c].pc = "downPath" /\ UNCHANGED <<config, rows, applied, torn>>
      BY <1>4 DEF StartDown, Query
    <2>2. CASE Resolve(c) \/ Reject(c)
      BY <2>1, <2>2, CallEnds DEF Present
    <2>3. ASSUME NEW todo, Go(c, [mig[c] EXCEPT !.pc = "down", !.todo = todo])
          PROVE  DbInv'
      <3> DEFINE s == [mig[c] EXCEPT !.pc = "down", !.todo = todo]
      <3>1. IsState(s) /\ s.pc = "down" /\ s.legacy = mig[c].legacy /\ Go(c, s)
        BY <1>0, <2>3 DEF IsState
      <3> HIDE DEF s
      <3>2. Rolls(s) /\ Recorded' \subseteq Present'
        BY <1>0, <2>1, <3>1 DEF Rolls, RowsTrue, Recorded, Storage, Present
      <3> QED
        BY <1>3, <2>1, <3>1, <3>2, RollStep
    <2> QED
      BY <1>4, <2>2, <2>3 DEF StartDown
  <1>5. CASE Down(c)
    <2> DEFINE s == [mig[c] EXCEPT !.pc = "unlog"]
    <2>1. IsState(s) /\ s.pc = "unlog" /\ s.legacy = mig[c].legacy
      BY <1>0 DEF IsState
    <2>2. mig[c].pc = "down" /\ UNCHANGED <<config, rows>> /\ Go(c, s) /\ Present \subseteq Present'
      BY <1>5 DEF Down, Query, Present
    <2> HIDE DEF s
    <2>3. Rolls(s) /\ Recorded' \subseteq Present'
      BY <1>0, <2>1, <2>2 DEF Rolls, RowsTrue, Recorded, Storage
    <2> QED
      BY <1>3, <2>1, <2>2, <2>3, RollStep
  <1>6. CASE Unlog(c)
    <2> DEFINE m == Last(mig[c].todo)
    <2>1. /\ mig[c].pc = "unlog" /\ UNCHANGED <<config, applied>> /\ Record(Recorded \ {m})
          /\ torn' = torn \ {m}
      BY <1>6 DEF Unlog, Query
    <2>2. DOMAIN rows \subseteq DOMAIN rows' /\ Recorded' \subseteq Present'
      BY <1>0, <2>1, RecordLeaves DEF RowsTrue, Present
    <2>3. ASSUME NEW s, IsState(s), Rolls(s), s.legacy = mig[c].legacy, Go(c, s)
          PROVE  DbInv'
      BY <1>3, <2>1, <2>2, <2>3, RollStep
    <2>4. CASE Go(c, [NextPath(c) EXCEPT !.pc = "downPath"])
      <3> DEFINE s == [NextPath(c) EXCEPT !.pc = "downPath"]
      <3>1. IsState(s) /\ s.pc = "downPath" /\ s.legacy = mig[c].legacy
        BY <1>0 DEF IsState, NextPath
      <3>2. Go(c, s)
        BY <2>4
      <3> HIDE DEF s
      <3> QED
        BY <2>3, <3>1, <3>2 DEF Rolls
    <2>5. ASSUME NEW rest, Go(c, [mig[c] EXCEPT !.pc = "down", !.todo = rest])
          PROVE  DbInv'
      <3> DEFINE s == [mig[c] EXCEPT !.pc = "down", !.todo = rest]
      <3>1. IsState(s) /\ s.pc = "down" /\ s.legacy = mig[c].legacy
        BY <1>0 DEF IsState
      <3>2. Go(c, s)
        BY <2>5
      <3> HIDE DEF s
      <3> QED
        BY <2>3, <3>1, <3>2 DEF Rolls
    <2> QED
      BY <1>6, <2>4, <2>5 DEF Unlog
  <1> QED
    BY <1>1, <1>2, <1>4, <1>5, <1>6

-----------------------------------------------------------------------------

\* At the start what is recorded was carried out, and no call runs.
LEMMA InitKeeps == Init => DbInv
  <1> SUFFICES ASSUME Init PROVE DbInv
    OBVIOUS
  <1>1. \A c \in Calls : mig[c] = Idle
    BY DEF Init
  <1>2. \A c \in Calls : IsState(mig[c]) /\ LegacySeen(mig[c]) /\ Progress(mig[c], Present)
    BY <1>1, IdleState DEF LegacySeen, Progress
  <1>3. RowsTrue
    <2>1. \A t \in DOMAIN rows : rows[t] = applied
      BY DEF Init
    <2> QED
      BY <1>1, <2>1, IdleState DEF RowsTrue, Recorded, Present
  <1>4. Exclusive
    BY <1>1, IdleState DEF Exclusive, Rolls
  <1> QED
    BY <1>2, <1>3, <1>4 DEF DbInv, Init

\* A crash ends calls and leaves the database.
LEMMA CrashKeeps ==
    ASSUME DbInv, Crash
    PROVE  DbInv'
  <1>1. \A c \in Calls : mig'[c] = Idle \/ mig'[c] = mig[c]
    BY DEF Crash
  <1>2. UNCHANGED <<config, rows>> /\ Present' = Present /\ Recorded' = Recorded
    BY DEF Crash, Present, Recorded, Storage
  <1>3. \A c \in Calls : IsState(mig'[c]) /\ LegacySeen(mig[c])' /\ Progress(mig[c], Present)'
    BY <1>1, <1>2, IdleState DEF DbInv, LegacySeen, Progress
  <1>4. RowsTrue'
    BY <1>1, <1>2, IdleState DEF DbInv, RowsTrue
  <1>5. Exclusive'
    BY <1>1, <1>2, IdleState DEF DbInv, Exclusive, Rolls, Rests
  <1> QED
    BY <1>2, <1>3, <1>4, <1>5 DEF DbInv, Crash

\* Every step keeps DbInv.
LEMMA NextKeeps == DbInv /\ [Next]_vars => DbInv'
  <1> SUFFICES ASSUME DbInv, [Next]_vars PROVE DbInv'
    OBVIOUS
  <1>1. CASE UNCHANGED dbVars
    BY <1>1 DEF dbVars, DbInv, RowsTrue, Recorded, Storage, Present, Exclusive, LegacySeen, Progress
  <1>2. ASSUME NEW c \in Calls, Throws(c) PROVE DbInv'
    BY <1>2, CallEnds DEF Throws, Present
  <1> QED
    BY <1>1, <1>2, CrashKeeps, TableKeeps, LoopKeeps, RollbackKeeps DEF Next, vars

\* Only the end of its loop resolves a call of runPendingMigrations().
LEMMA ResolvesAtEnd ==
    ASSUME DbInv, NEW d \in Calls,
           \/ RunPendingMigrations(d) \/ TablesRead(d) \/ CreateTable(d) \/ SelectLegacy(d)
           \/ InsertRows(d) \/ StartPath(d) \/ Up(d) \/ Log(d) \/ RollbackMigrations(d)
           \/ FindTarget(d) \/ StartDown(d) \/ Down(d) \/ Unlog(d) \/ Throws(d)
    PROVE  \E s : /\ Go(d, s)
                  /\ s.pc = "resolved" =>
                       \/ Rolls(mig[d])
                       \/ /\ mig[d].pc = "path" /\ mig[d].path > Len(config.paths)
                          /\ UNCHANGED <<config, applied, torn>>
  <1> DEFINE Other == \E s : Go(d, s) /\ s.pc # "resolved"
  <1>0. IsState(mig[d])
    BY DEF DbInv
  <1>1. Reject(d) => Other
    <2>1. [Idle EXCEPT !.pc = "rejected"].pc # "resolved"
      BY DEF Idle
    <2> QED
      BY <2>1 DEF Reject
  <1>2. CASE RunPendingMigrations(d) \/ TablesRead(d) \/ CreateTable(d) \/ SelectLegacy(d) \/ InsertRows(d)
    <2>1. ASSUME NEW pc \in {"tables", "create", "select", "insert", "path"},
                 NEW legacy, NEW copy,
                 \/ Go(d, [Idle EXCEPT !.pc = pc])
                 \/ Go(d, [Idle EXCEPT !.pc = pc, !.legacy = legacy])
                 \/ Go(d, [Idle EXCEPT !.pc = pc, !.copy = copy])
          PROVE  Other
      <3>1. /\ [Idle EXCEPT !.pc = pc].pc # "resolved"
            /\ [Idle EXCEPT !.pc = pc, !.legacy = legacy].pc # "resolved"
            /\ [Idle EXCEPT !.pc = pc, !.copy = copy].pc # "resolved"
        BY DEF Idle
      <3> QED
        BY <2>1, <3>1
    <2> HIDE DEF Other
    <2>2. RunPendingMigrations(d) => Other
      BY <2>1 DEF RunPendingMigrations
    <2>3. TablesRead(d) => Other
      BY <1>1, <2>1 DEF TablesRead
    <2>4. CreateTable(d) => Other
      BY <1>1, <2>1 DEF CreateTable
    <2>5. SelectLegacy(d) => Other
      BY <1>1, <2>1 DEF SelectLegacy
    <2>6. InsertRows(d) => Other
      BY <1>1, <2>1 DEF InsertRows
    <2>7. Other
      BY <1>2, <2>2, <2>3, <2>4, <2>5, <2>6
    <2> QED
      BY <2>7 DEF Other
  <1>3. ASSUME NEW todo
        PROVE  /\ NextPath(d).pc # "resolved"
               /\ [mig[d] EXCEPT !.pc = "up", !.todo = todo].pc # "resolved"
               /\ [mig[d] EXCEPT !.pc = "log"].pc # "resolved"
    BY <1>0 DEF IsState, NextPath
  <1>4. CASE StartPath(d)
    <2>1. CASE Resolve(d) /\ mig[d].path > Len(config.paths)
      BY <1>4, <2>1 DEF StartPath, Query, Resolve
    <2>2. ASSUME NEW todo, Go(d, IF todo = {} THEN NextPath(d)
                                 ELSE [mig[d] EXCEPT !.pc = "up", !.todo = todo])
          PROVE  Other
      BY <1>3, <2>2
    <2> HIDE DEF Other
    <2>3. CASE ~(mig[d].path > Len(config.paths))
      <3>1. Other
        BY <1>4, <2>2, <2>3 DEF StartPath
      <3> QED
        BY <3>1 DEF Other
    <2> QED
      BY <1>4, <2>1, <2>3 DEF StartPath
  <1>5. CASE Up(d) \/ Log(d)
    BY <1>1, <1>3, <1>5 DEF Up, Log
  <1>6. CASE RollbackMigrations(d)
    <2>1. \A build : [Idle EXCEPT !.pc = "find", !.build = build].pc # "resolved"
      BY DEF Idle
    <2> QED
      BY <1>6, <2>1 DEF RollbackMigrations
  <1>7. CASE FindTarget(d) \/ StartDown(d) \/ Down(d) \/ Unlog(d)
    <2>1. Rolls(mig[d])
      BY <1>7 DEF FindTarget, StartDown, Down, Unlog, Query, Rolls
    <2>2. \E s : Go(d, s)
      BY <1>7 DEF FindTarget, StartDown, Down, Unlog, Resolve, Reject
    <2> QED
      BY <2>1, <2>2
  <1>8. CASE Throws(d)
    BY <1>1, <1>8 DEF Throws
  <1> QED
    BY <1>2, <1>4, <1>5, <1>6, <1>7, <1>8

\* A step that resolves a call of runPendingMigrations() finds every migration there.
LEMMA ResolvesMigrated ==
    ASSUME DbInv, [Next]_vars, NEW c \in Calls,
           ~Settled(c), ~RollingBack(c), mig'[c].pc = "resolved"
    PROVE  Files \subseteq applied' \cup torn'
  <1>1. ASSUME NEW d \in Calls, NEW s, Go(d, s),
               s.pc = "resolved" =>
                 \/ Rolls(mig[d])
                 \/ /\ mig[d].pc = "path" /\ mig[d].path > Len(config.paths)
                    /\ UNCHANGED <<config, applied, torn>>
        PROVE  Files \subseteq applied' \cup torn'
    <2>1. mig'[c] = IF c = d THEN s ELSE mig[c]
      BY <1>1 DEF Go, DbInv
    <2>2. mig'[c] # mig[c]
      BY DEF Settled
    <2>3. c = d /\ s.pc = "resolved"
      BY <2>1, <2>2
    <2>4. /\ mig[c].pc = "path" /\ mig[c].path > Len(config.paths)
          /\ UNCHANGED <<config, applied, torn>>
      BY <1>1, <2>3 DEF Rolls, RollingBack
    <2>5. \A i \in DOMAIN config.paths : i < mig[c].path
      BY <2>4, PathsIndexed DEF DbInv, IsState
    <2>6. \A i \in DOMAIN config.paths : config.paths[i] \subseteq Present
      BY <2>4, <2>5 DEF DbInv, Progress
    <2> QED
      BY <2>4, <2>6 DEF Files, Present
  <1>2. CASE UNCHANGED dbVars \/ Crash
    <2>1. mig'[c] = mig[c] \/ mig'[c] = Idle
      BY <1>2 DEF dbVars, Crash
    <2> QED
      BY <2>1, IdleState DEF Settled
  <1> QED
    BY <1>1, <1>2, ResolvesAtEnd DEF Next, vars

\* When runPendingMigrations() resolves, every migration of every directory has
\* been carried out, or was taken back by a rollback that was cut off before
\* its record, however the calls of the processes interleave, fail or crash.
THEOREM ResolvedMeansMigrated == Spec => MigratedWhenResolved
  <1>1. DbInv /\ [Next]_vars =>
          \A c \in Calls :
            ~Settled(c) /\ ~RollingBack(c) /\ mig'[c].pc = "resolved"
            => Files \subseteq applied' \cup torn'
    BY ResolvesMigrated
  <1> QED
    BY <1>1, InitKeeps, NextKeeps, PTL DEF Spec, MigratedWhenResolved

-----------------------------------------------------------------------------
(* The clients of the entities, of EntityClients *)

Calling(e, o) == stop[e][o].calls # 0

\* Where no two shutdowns have overlapped, a client that is connected is the
\* one of the variable, or failed to quit; one call at most is stopping, and
\* it is stopping that client.
OneAtATime ==
    \A e \in Entities \ overlapped :
        /\ conn[e] \subseteq stuck[e] \cup {client[e]}
        /\ \A o \in Origins : Calling(e, o) =>
             /\ stop[e][o] = [calls |-> 1, target |-> client[e]] /\ client[e] # 0
             /\ \A p \in Origins \ {o} : ~Calling(e, p)

\* What was connected when shutdownRunningInstances() was called, and has not
\* quit, is being stopped.
Dues ==
    \A e \in Entities :
        /\ due[e] \cup conn[e] \subseteq 1..created[e] /\ client[e] <= created[e]
        /\ registered["redis"] <= created["redis"]
        /\ lifecycle = "waiting" /\ e \notin overlapped =>
             due[e] \cap conn[e] \subseteq
               stuck[e] \cup (IF Calling(e, "lifecycle") THEN {stop[e]["lifecycle"].target} ELSE {})

ClientInv == ClientTypeOK /\ OneAtATime /\ Dues

Stops == [calls : 0..MaxClients, target : 0..MaxClients]

\* At the start there is no client.
LEMMA ClientsInit == ClientInit => ClientInv
  <1> SUFFICES ASSUME ClientInit PROVE ClientInv
    OBVIOUS
  <1>1. MaxClients \in Nat \ {0} /\ MaxFaults \in Nat
    BY EntityClientsAssumption
  <1>2. NoStop \in Stops /\ NoStop.calls = 0
    BY <1>1 DEF NoStop, Stops
  <1>3. stop \in [Entities -> [Origins -> Stops]]
    BY <1>2 DEF ClientInit
  <1>4. ClientTypeOK
    BY <1>1, <1>3 DEF ClientInit, ClientTypeOK, None, Stops, Entities
  <1>5. OneAtATime
    BY <1>2 DEF ClientInit, OneAtATime, Calling, None
  <1>6. Dues
    BY DEF ClientInit, Dues, None, Entities
  <1> QED
    BY <1>4, <1>5, <1>6 DEF ClientInv

\* The types, with the numbers of calls apart.
LEMMA ClientNumbers ==
    ASSUME ClientInv
    PROVE  /\ MaxClients \in Nat \ {0} /\ MaxFaults \in Nat
           /\ client \in [Entities -> 0..MaxClients] /\ created \in [Entities -> 0..MaxClients]
           /\ conn \in [Entities -> SUBSET (1..MaxClients)]
           /\ due \in [Entities -> SUBSET (1..MaxClients)]
           /\ stuck \in [Entities -> SUBSET (1..MaxClients)]
           /\ registered \in [Entities -> 0..MaxClients] /\ registered["sequelize"] \in 0..1
           /\ stop \in [Entities -> [Origins -> Stops]]
           /\ bound \in [Entities -> 0..MaxClients]
           /\ faults \in 0..MaxFaults
  BY EntityClientsAssumption DEF ClientInv, ClientTypeOK, Stops

\* A new client is not among those that are due.
LEMMA CreateKeeps ==
    ASSUME ClientInv, NEW e \in Entities, Create(e), registered' \in [Entities -> 0..MaxClients],
           registered'["sequelize"] \in 0..1, registered'["redis"] <= created'["redis"],
           authenticating' \subseteq 1..MaxClients,
           UNCHANGED <<bound, stop, lifecycle, due, overlapped, stuck, faults>>
    PROVE  ClientInv'
  <1> DEFINE k == created[e] + 1
  <1>1. client[e] = 0 /\ k \in 1..MaxClients
    BY ClientNumbers DEF Create
  <1>2. client' = [client EXCEPT ![e] = k] /\ created' = [created EXCEPT ![e] = k]
        /\ conn' = [conn EXCEPT ![e] = @ \cup {k}]
    BY DEF Create
  <1>3. created[e] \in Nat /\ k = created[e] + 1
    BY ClientNumbers
  <1> HIDE DEF k
  <1>4. ClientTypeOK'
    BY <1>1, <1>2, ClientNumbers DEF ClientTypeOK, ClientInv
  <1>5. OneAtATime'
    <2> SUFFICES ASSUME NEW x \in Entities \ overlapped
                 PROVE  /\ conn'[x] \subseteq stuck[x] \cup {client'[x]}
                        /\ \A o \in Origins : Calling(x, o) =>
                             /\ stop[x][o] = [calls |-> 1, target |-> client'[x]] /\ client'[x] # 0
                             /\ \A p \in Origins \ {o} : ~Calling(x, p)
      BY DEF OneAtATime, Calling
    <2>1. CASE x = e
      <3>1. client[x] = 0 /\ client'[x] = k /\ conn'[x] = conn[x] \cup {k} /\ 0 \notin conn[x]
        BY <1>1, <1>2, <2>1, ClientNumbers
      <3> QED
        BY <3>1 DEF ClientInv, OneAtATime
    <2>2. CASE x # e
      <3>1. client'[x] = client[x] /\ conn'[x] = conn[x]
        BY <1>2, <2>2, ClientNumbers
      <3> QED
        BY <3>1 DEF ClientInv, OneAtATime
    <2> QED
      BY <2>1, <2>2
  <1>6. Dues'
    <2> SUFFICES ASSUME NEW x \in Entities
                 PROVE  /\ due[x] \cup conn'[x] \subseteq 1..created'[x] /\ client'[x] <= created'[x]
                        /\ lifecycle = "waiting" /\ x \notin overlapped =>
                             due[x] \cap conn'[x] \subseteq
                               stuck[x] \cup (IF Calling(x, "lifecycle") THEN {stop[x]["lifecycle"].target} ELSE {})
      BY DEF Dues, Calling
    <2>1. CASE x = e
      <3>1. client'[x] = k /\ created'[x] = k /\ conn'[x] = conn[x] \cup {k}
        BY <1>2, <2>1, ClientNumbers
      <3>2. due[x] \cup conn[x] \subseteq 1..created[x] /\ k \notin due[x] /\ k \in 1..k /\ 1..created[x] \subseteq 1..k
        BY <1>3, <2>1 DEF ClientInv, Dues
      <3>3. due[x] \cap conn'[x] = due[x] \cap conn[x] /\ due[x] \cup conn'[x] \subseteq 1..created'[x]
        BY <3>1, <3>2
      <3> QED
        BY <1>3, <3>1, <3>3 DEF ClientInv, Dues
    <2>2. CASE x # e
      <3>1. client'[x] = client[x] /\ conn'[x] = conn[x] /\ created'[x] = created[x]
        BY <1>2, <2>2, ClientNumbers
      <3> QED
        BY <3>1 DEF ClientInv, Dues
    <2> QED
      BY <2>1, <2>2
  <1> QED
    BY <1>4, <1>5, <1>6 DEF ClientInv

\* Sequelize has authenticated, or has not.
LEMMA AuthenticatedKeeps ==
    ASSUME ClientInv, NEW k \in 1..MaxClients, Authenticated(k)
    PROVE  ClientInv'
  <1>1. registered' = registered \/ registered' = [registered EXCEPT !["sequelize"] = 1]
    BY DEF Authenticated
  <1>2. registered' \in [Entities -> 0..MaxClients] /\ registered'["sequelize"] \in 0..1
        /\ registered'["redis"] = registered["redis"]
    BY <1>1, ClientNumbers DEF Entities
  <1>3. faults' \in 0..MaxFaults
    BY ClientNumbers DEF Authenticated, Fault
  <1>4. /\ authenticating' \subseteq authenticating
        /\ UNCHANGED <<bound, client, created, conn, stop, lifecycle, due, overlapped, stuck>>
    BY DEF Authenticated
  <1> QED
    BY <1>2, <1>3, <1>4 DEF ClientInv, ClientTypeOK, OneAtATime, Dues, Calling

\* A second shutdown overlaps the one there is.
LEMMA HostStopsKeeps ==
    ASSUME ClientInv, NEW e \in Entities, HostStops(e)
    PROVE  ClientInv'
  <1> DEFINE call == [calls |-> 1, target |-> client[e]]
  <1>1. call \in Stops /\ call.calls = 1 /\ call = Stop(e, 1)
    BY ClientNumbers DEF Stops, HostStops, Stop
  <1>2. stop' = [stop EXCEPT ![e]["host"] = call]
    BY <1>1 DEF HostStops
  <1>3. UNCHANGED <<bound, client, created, conn, authenticating, registered, lifecycle, due, stuck, faults>>
        /\ client[e] # 0 /\ ~Calling(e, "host")
        /\ overlapped' = IF Stopping(e) THEN overlapped \cup {e} ELSE overlapped
    BY DEF HostStops, Calling, NoStop
  <1>4. call = [calls |-> 1, target |-> client[e]]
    OBVIOUS
  <1> HIDE DEF call
  <1>5. stop' \in [Entities -> [Origins -> Stops]] /\ overlapped' \subseteq Entities
    BY <1>1, <1>2, <1>3, ClientNumbers DEF Origins, ClientInv, ClientTypeOK
  <1>6. ClientTypeOK'
    BY <1>3, <1>5 DEF ClientInv, ClientTypeOK, Stops
  <1>7. \A x \in Entities, o \in Origins :
            stop'[x][o] = IF x = e /\ o = "host" THEN call ELSE stop[x][o]
    BY <1>2, ClientNumbers
  <1>8. ASSUME NEW x \in Entities \ overlapped'
        PROVE  /\ conn[x] \subseteq stuck[x] \cup {client[x]}
               /\ \A o \in Origins : Calling(x, o)' =>
                    /\ stop'[x][o] = [calls |-> 1, target |-> client[x]] /\ client[x] # 0
                    /\ \A p \in Origins \ {o} : ~Calling(x, p)'
    <2>1. x \in Entities \ overlapped
      BY <1>3
    <2>2. CASE x = e
      <3>1. \A o \in Origins : ~Calling(x, o)
        BY <1>3, <2>2 DEF Stopping, Calling
      <3> QED
        BY <1>3, <1>4, <1>7, <2>1, <2>2, <3>1 DEF ClientInv, OneAtATime, Calling
    <2>3. CASE x # e
      BY <1>7, <2>1, <2>3 DEF ClientInv, OneAtATime, Calling
    <2> QED
      BY <2>2, <2>3
  <1>9. OneAtATime'
    BY <1>3, <1>8 DEF OneAtATime
  <1>10. Dues'
    <2>1. \A x \in Entities : stop'[x]["lifecycle"] = stop[x]["lifecycle"] /\ (x \notin overlapped' => x \notin overlapped)
      BY <1>3, <1>7 DEF Origins
    <2> QED
      BY <1>3, <2>1 DEF ClientInv, Dues, Calling
  <1> QED
    BY <1>6, <1>9, <1>10 DEF ClientInv

\* The only call that is stopping a client clears the variable that holds it.
LEMMA QuitKeeps ==
    ASSUME ClientInv, NEW e \in Entities, NEW o \in Origins, Quit(e, o)
    PROVE  ClientInv'
  <1> DEFINE call == stop[e][o]
             left == IF call.calls = 1 THEN NoStop ELSE [call EXCEPT !.calls = call.calls - 1]
             target == call.target
  <1>1. call \in Stops /\ call.calls # 0 /\ Calling(e, o)
    BY ClientNumbers DEF Quit, Calling
  <1>2. left \in Stops /\ (call.calls = 1 => left.calls = 0)
    <2>1. CASE call.calls = 1
      BY <2>1, ClientNumbers DEF NoStop, Stops
    <2>2. CASE call.calls # 1
      <3> DEFINE n == call.calls - 1
      <3> HIDE DEF n
      <3>3. call.calls \in 0..MaxClients /\ n = call.calls - 1 /\ MaxClients \in Nat
        BY <1>1, ClientNumbers DEF Stops, n
      <3> HIDE DEF call
      <3>1. n \in 0..MaxClients
        BY <1>1, <3>3
      <3>2. left = [call EXCEPT !.calls = n]
        BY <2>2 DEF n
      <3>4. [call EXCEPT !.calls = n] \in Stops
        BY <1>1, <3>1 DEF Stops
      <3> QED
        BY <2>2, <3>2, <3>4
    <2> QED
      BY <2>1, <2>2
  <1>3. stop' = [stop EXCEPT ![e][o] = left]
    BY DEF Quit
  <1>4. /\ client' = [client EXCEPT ![e] = 0]
        /\ UNCHANGED <<bound, created, authenticating, registered, lifecycle, due, overlapped>>
        /\ \/ conn' = [conn EXCEPT ![e] = @ \ {target}] /\ UNCHANGED <<stuck, faults>>
           \/ /\ target \in conn[e] /\ Fault /\ UNCHANGED conn
              /\ stuck' = [stuck EXCEPT ![e] = @ \cup {target}]
    BY DEF Quit
  <1> HIDE DEF left, target
  <1>5. \A x \in Entities, p \in Origins :
            stop'[x][p] = IF x = e /\ p = o THEN left ELSE stop[x][p]
    BY <1>3, ClientNumbers
  <1>6. stop' \in [Entities -> [Origins -> Stops]]
    BY <1>2, <1>3, ClientNumbers
  <1>7. /\ conn' \in [Entities -> SUBSET (1..MaxClients)] /\ stuck' \in [Entities -> SUBSET (1..MaxClients)]
        /\ client' \in [Entities -> 0..MaxClients] /\ faults' \in 0..MaxFaults
    <2>1. faults' \in 0..MaxFaults
      BY <1>4, ClientNumbers DEF Fault
    <2>2. conn[e] \in SUBSET (1..MaxClients) /\ stuck[e] \in SUBSET (1..MaxClients) /\ 0 \in 0..MaxClients
      BY ClientNumbers
    <2>3. target \in conn[e] => stuck[e] \cup {target} \in SUBSET (1..MaxClients)
      BY <2>2
    <2>4. conn[e] \ {target} \in SUBSET (1..MaxClients)
      BY <2>2
    <2>5. client' \in [Entities -> 0..MaxClients]
      BY <1>4, <2>2, ClientNumbers
    <2>6. conn' \in [Entities -> SUBSET (1..MaxClients)]
      BY <1>4, <2>4, ClientNumbers
    <2>7. stuck' \in [Entities -> SUBSET (1..MaxClients)]
      BY <1>4, <2>3, ClientNumbers
    <2> QED
      BY <2>1, <2>5, <2>6, <2>7
  <1>8. ClientTypeOK'
    BY <1>4, <1>6, <1>7 DEF ClientInv, ClientTypeOK, Stops
  <1>9. /\ \A x \in Entities \ {e} : conn'[x] = conn[x] /\ stuck'[x] = stuck[x] /\ client'[x] = client[x]
        /\ client'[e] = 0 /\ conn'[e] \subseteq conn[e] /\ stuck[e] \subseteq stuck'[e]
        /\ conn'[e] \ stuck'[e] \subseteq (conn[e] \ stuck[e]) \ {target}
    BY <1>4, ClientNumbers
  <1>10. OneAtATime'
    <2> SUFFICES ASSUME NEW x \in Entities \ overlapped
                 PROVE  /\ conn'[x] \subseteq stuck'[x] \cup {client'[x]}
                        /\ \A p \in Origins : Calling(x, p)' =>
                             /\ stop'[x][p] = [calls |-> 1, target |-> client'[x]] /\ client'[x] # 0
                             /\ \A q \in Origins \ {p} : ~Calling(x, q)'
      BY <1>4 DEF OneAtATime
    <2>1. CASE x = e
      <3>1. call.calls = 1 /\ target = client[e] /\ \A p \in Origins \ {o} : ~Calling(e, p)
        <4>1. stop[e][o] = [calls |-> 1, target |-> client[e]] /\ \A p \in Origins \ {o} : ~Calling(e, p)
          BY <1>1, <2>1 DEF ClientInv, OneAtATime
        <4> QED
          BY <4>1 DEF target
      <3>2. \A p \in Origins : ~Calling(e, p)'
        BY <1>2, <1>5, <3>1 DEF Calling
      <3>3. conn'[e] \subseteq stuck'[e]
        BY <1>9, <2>1, <3>1 DEF ClientInv, OneAtATime
      <3> QED
        BY <2>1, <3>2, <3>3
    <2>2. CASE x # e
      BY <1>5, <1>9, <2>2 DEF ClientInv, OneAtATime, Calling
    <2> QED
      BY <2>1, <2>2
  <1>11. Dues'
    <2> SUFFICES ASSUME NEW x \in Entities
                 PROVE  /\ due[x] \cup conn'[x] \subseteq 1..created[x] /\ client'[x] <= created[x]
                        /\ lifecycle = "waiting" /\ x \notin overlapped =>
                             due[x] \cap conn'[x] \subseteq stuck'[x] \cup
                               (IF Calling(x, "lifecycle")' THEN {stop'[x]["lifecycle"].target} ELSE {})
      BY <1>4 DEF Dues, ClientInv
    <2>1. CASE x = e
      <3>1. due[x] \cup conn'[x] \subseteq 1..created[x] /\ client'[x] <= created[x]
        BY <1>9, <2>1, ClientNumbers DEF ClientInv, Dues
      <3>2. ASSUME lifecycle = "waiting", x \notin overlapped
            PROVE  conn'[x] \subseteq stuck'[x]
        <4>1. target = client[e]
          <5>1. stop[e][o] = [calls |-> 1, target |-> client[e]]
            BY <1>1, <2>1, <3>2 DEF ClientInv, OneAtATime
          <5> QED
            BY <5>1 DEF target
        <4> QED
          BY <1>9, <2>1, <3>2, <4>1 DEF ClientInv, OneAtATime
      <3> QED
        BY <3>1, <3>2
    <2>2. CASE x # e
      <3>1. stop'[x]["lifecycle"] = stop[x]["lifecycle"]
        BY <1>5, <2>2 DEF Origins
      <3> QED
        BY <1>9, <2>2, <3>1 DEF ClientInv, Dues, Calling
    <2> QED
      BY <2>1, <2>2
  <1> QED
    BY <1>8, <1>10, <1>11 DEF ClientInv

\* shutdownRunningInstances() stops the client of each entity that is registered.
LEMMA ShutdownKeeps ==
    ASSUME ClientInv, ShutdownRunningInstances
    PROVE  ClientInv'
  <1>1. ASSUME NEW e \in Entities
        PROVE  /\ Stop(e, registered[e]) \in Stops
               /\ client[e] = 0 \/ registered[e] = 0 => Stop(e, registered[e]) = NoStop
               /\ client[e] # 0 /\ registered[e] # 0 =>
                    Stop(e, registered[e]) = [calls |-> registered[e], target |-> client[e]]
               /\ NoStop \in Stops /\ NoStop.calls = 0
    BY ClientNumbers DEF Stop, Stops, NoStop
  <1>2. stop' = [e \in Entities |-> [stop[e] EXCEPT !["lifecycle"] = Stop(e, registered[e])]]
    BY DEF ShutdownRunningInstances
  <1>3. \A e \in Entities, o \in Origins :
           stop'[e][o] = IF o = "lifecycle" THEN Stop(e, registered[e]) ELSE stop[e][o]
    BY <1>2, ClientNumbers DEF Origins
  <1>4. stop' \in [Entities -> [Origins -> Stops]]
    BY <1>1, <1>2, ClientNumbers DEF Origins
  <1>5. /\ UNCHANGED <<bound, client, created, conn, authenticating, registered, stuck, faults>>
        /\ lifecycle' = "waiting"
        /\ due' = [e \in Entities |-> IF registered[e] # 0 THEN conn[e] ELSE {}]
        /\ \A e \in Entities \ overlapped' :
             /\ e \notin overlapped
             /\ client[e] # 0 => registered[e] <= 1 /\ (registered[e] = 1 => ~Stopping(e))
    BY ClientNumbers DEF ShutdownRunningInstances
  <1>6. overlapped' \subseteq Entities
    BY DEF ShutdownRunningInstances, ClientInv, ClientTypeOK
  <1>7. ClientTypeOK'
    BY <1>4, <1>5, <1>6, ClientNumbers DEF ClientInv, ClientTypeOK, Stops
  <1>8. ASSUME NEW e \in Entities \ overlapped', NEW o \in Origins, Calling(e, o)'
        PROVE  /\ stop'[e][o] = [calls |-> 1, target |-> client[e]] /\ client[e] # 0
               /\ \A p \in Origins \ {o} : ~Calling(e, p)'
    <2>1. e \in Entities \ overlapped /\ registered[e] \in Nat
      BY <1>5, ClientNumbers
    <2>2. CASE o = "lifecycle"
      <3>1. client[e] # 0 /\ registered[e] # 0
        BY <1>1, <1>3, <1>8, <2>2 DEF Calling
      <3>2. registered[e] = 1 /\ ~Stopping(e)
        BY <1>5, <2>1, <3>1
      <3>3. stop'[e][o] = [calls |-> 1, target |-> client[e]]
        BY <1>1, <1>3, <2>2, <3>1, <3>2
      <3>4. \A p \in Origins \ {o} : ~Calling(e, p)'
        BY <1>3, <2>2, <3>2 DEF Stopping, Calling
      <3> QED
        BY <3>1, <3>3, <3>4
    <2>3. CASE o # "lifecycle"
      <3>1. Calling(e, o) /\ stop'[e][o] = stop[e][o]
        BY <1>3, <1>8, <2>3 DEF Calling
      <3>2. client[e] # 0 /\ stop[e][o] = [calls |-> 1, target |-> client[e]]
            /\ \A p \in Origins \ {o} : ~Calling(e, p)
        BY <2>1, <3>1 DEF ClientInv, OneAtATime
      <3>3. registered[e] = 0
        BY <1>5, <2>1, <3>1, <3>2 DEF Stopping, Calling
      <3>4. \A p \in Origins \ {o} : ~Calling(e, p)'
        BY <1>1, <1>3, <3>2, <3>3 DEF Calling
      <3> QED
        BY <3>1, <3>2, <3>4
    <2> QED
      BY <2>2, <2>3
  <1>9. OneAtATime'
    BY <1>5, <1>8 DEF ClientInv, OneAtATime
  <1>10. ASSUME NEW e \in Entities \ overlapped'
         PROVE  due'[e] \cap conn[e] \subseteq stuck[e] \cup
                  (IF Calling(e, "lifecycle")' THEN {stop'[e]["lifecycle"].target} ELSE {})
    <2>1. conn[e] \subseteq stuck[e] \cup {client[e]} /\ 0 \notin conn[e]
      <3>1. e \in Entities \ overlapped
        BY <1>5
      <3>2. conn[e] \subseteq 1..MaxClients
        BY ClientNumbers
      <3>3. conn[e] \subseteq stuck[e] \cup {client[e]}
        BY <3>1 DEF ClientInv, OneAtATime
      <3>4. 0 \notin 1..MaxClients
        BY ClientNumbers
      <3> QED
        BY <3>2, <3>3, <3>4
    <2>2. CASE client[e] = 0 \/ registered[e] = 0
      BY <1>5, <2>1, <2>2
    <2>3. CASE client[e] # 0 /\ registered[e] # 0
      <3>1. stop'[e]["lifecycle"] = [calls |-> registered[e], target |-> client[e]]
        BY <1>1, <1>3, <2>3 DEF Origins
      <3>2. Calling(e, "lifecycle")' /\ stop'[e]["lifecycle"].target = client[e]
        BY <2>3, <3>1 DEF Calling
      <3> QED
        BY <2>1, <3>2
    <2> QED
      BY <2>2, <2>3
  <1>11. Dues'
    <2>1. \A e \in Entities : due'[e] \subseteq conn[e]
      BY <1>5
    <2> QED
      BY <1>5, <1>10, <2>1 DEF ClientInv, Dues
  <1> QED
    BY <1>7, <1>9, <1>11 DEF ClientInv

\* Every step of the clients, also one that a query that fails counts.
LEMMA ClientsStep ==
    ASSUME ClientInv,
           \/ ClientNext \/ CrashClients \/ UNCHANGED clientVars
           \/ /\ Fault
              /\ UNCHANGED <<bound, client, created, conn, authenticating, registered, stop,
                             lifecycle, due, overlapped, stuck>>
    PROVE  ClientInv'
  <1>1. CASE InitRedis
    <2>1. created["redis"] < bound["redis"] /\ registered["redis"] <= created["redis"]
          /\ registered["redis"] \in Nat /\ created["redis"] \in Nat /\ bound["redis"] \in 0..MaxClients
      BY <1>1, ClientNumbers DEF InitRedis, Create, ClientInv, Dues, Entities
    <2>2. /\ registered' = [registered EXCEPT !["redis"] = @ + 1] /\ created' = [created EXCEPT !["redis"] = @ + 1]
          /\ UNCHANGED <<bound, authenticating, stop, lifecycle, due, overlapped, stuck, faults>>
      BY <1>1 DEF InitRedis, Create
    <2>3. registered["redis"] + 1 \in 0..MaxClients /\ registered["redis"] + 1 <= created["redis"] + 1
      BY <2>1, ClientNumbers
    <2>4. registered' \in [Entities -> 0..MaxClients] /\ registered'["sequelize"] \in 0..1
          /\ registered'["redis"] <= created'["redis"]
      BY <2>2, <2>3, ClientNumbers DEF Entities
    <2>5. authenticating' \subseteq 1..MaxClients
      BY <2>2 DEF ClientInv, ClientTypeOK
    <2> QED
      BY <1>1, <2>2, <2>4, <2>5, CreateKeeps DEF InitRedis, Entities
  <1>2. CASE InitSequelize
    <2>1. client'["sequelize"] = created["sequelize"] + 1 /\ created["sequelize"] + 1 \in 1..MaxClients
      BY <1>2, ClientNumbers DEF InitSequelize, Create, Entities
    <2>2. authenticating' \subseteq 1..MaxClients
      BY <1>2, <2>1 DEF InitSequelize, ClientInv, ClientTypeOK
    <2>3. registered'["redis"] <= created'["redis"] /\ registered' = registered
      BY <1>2, ClientNumbers DEF InitSequelize, Create, ClientInv, Dues, Entities
    <2> QED
      BY <1>2, <2>2, <2>3, CreateKeeps, ClientNumbers DEF InitSequelize, Entities
  <1>3. CASE \E k \in 1..MaxClients : Authenticated(k)
    BY <1>3, AuthenticatedKeeps
  <1>4. CASE \E e \in Entities : HostStops(e) \/ \E o \in Origins : Quit(e, o)
    BY <1>4, HostStopsKeeps, QuitKeeps
  <1>5. CASE ShutdownRunningInstances
    BY <1>5, ShutdownKeeps
  <1>6. CASE InstancesStopped
    <2>1. /\ registered' = [e \in Entities |-> 0] /\ due' = [e \in Entities |-> {}] /\ lifecycle' = "resolved"
          /\ UNCHANGED <<bound, client, created, conn, authenticating, stop, overlapped, stuck, faults>>
      BY <1>6 DEF InstancesStopped, None
    <2>2. registered' \in [Entities -> 0..MaxClients] /\ registered'["sequelize"] = 0 /\ registered'["redis"] = 0
      BY <2>1, ClientNumbers DEF Entities
    <2>3. created["redis"] \in Nat
      BY ClientNumbers DEF Entities
    <2>4. ClientTypeOK'
      BY <2>1, <2>2 DEF ClientInv, ClientTypeOK
    <2>5. OneAtATime'
      BY <2>1 DEF ClientInv, OneAtATime, Calling
    <2>6. Dues'
      BY <2>1, <2>2, <2>3 DEF ClientInv, Dues
    <2> QED
      BY <2>4, <2>5, <2>6 DEF ClientInv
  <1>7. CASE CrashClients
    <2>1. /\ client' = [e \in Entities |-> 0] /\ created' = [e \in Entities |-> 0]
          /\ conn' = [e \in Entities |-> {}] /\ authenticating' = {} /\ bound' = bound
          /\ registered' = [e \in Entities |-> 0] /\ stop' = [e \in Entities |-> [o \in Origins |-> NoStop]]
          /\ lifecycle' = "idle" /\ due' = [e \in Entities |-> {}] /\ overlapped' = {}
          /\ stuck' = [e \in Entities |-> {}] /\ faults' \in 0..MaxFaults
      BY <1>7, ClientNumbers DEF CrashClients, Fault, None
    <2>2. NoStop \in Stops /\ NoStop.calls = 0 /\ 0 \in 0..MaxClients
      BY ClientNumbers DEF NoStop, Stops
    <2>3. stop' \in [Entities -> [Origins -> Stops]] /\ \A e \in Entities, o \in Origins : ~Calling(e, o)'
      BY <2>1, <2>2 DEF Calling
    <2>4. ClientTypeOK'
      BY <2>1, <2>2, <2>3, ClientNumbers DEF ClientTypeOK, Stops, Entities
    <2>5. OneAtATime'
      BY <2>1, <2>3 DEF OneAtATime
    <2>6. Dues'
      BY <2>1 DEF Dues, Entities
    <2> QED
      BY <2>4, <2>5, <2>6 DEF ClientInv
  <1>8. CASE UNCHANGED clientVars
    BY <1>8 DEF clientVars, ClientInv, ClientTypeOK, OneAtATime, Dues, Calling
  <1>9. CASE Fault /\ UNCHANGED <<bound, client, created, conn, authenticating, registered, stop,
                                   lifecycle, due, overlapped, stuck>>
    <2>1. faults' \in 0..MaxFaults
      BY <1>9, ClientNumbers DEF Fault
    <2> QED
      BY <1>9, <2>1 DEF ClientInv, ClientTypeOK, OneAtATime, Dues, Calling
  <1> QED
    BY <1>1, <1>2, <1>3, <1>4, <1>5, <1>6, <1>7, <1>8, <1>9 DEF ClientNext

\* What the migrations do to the clients: they are used, and may fail.
LEMMA ClientsNext == ClientInv /\ [Next]_vars => ClientInv'
  <1> SUFFICES ASSUME ClientInv, [Next]_vars PROVE ClientInv'
    OBVIOUS
  <1>1. ASSUME NEW c \in Calls, Throws(c)
        PROVE  \/ UNCHANGED clientVars
               \/ /\ Fault
                  /\ UNCHANGED <<bound, client, created, conn, authenticating, registered, stop,
                                 lifecycle, due, overlapped, stuck>>
    BY <1>1 DEF Throws, clientVars
  <1>2. ASSUME NEW c \in Calls,
               \/ RunPendingMigrations(c) \/ TablesRead(c) \/ CreateTable(c) \/ SelectLegacy(c)
               \/ InsertRows(c) \/ StartPath(c) \/ Up(c) \/ Log(c)
               \/ RollbackMigrations(c) \/ FindTarget(c) \/ StartDown(c) \/ Down(c) \/ Unlog(c)
        PROVE  UNCHANGED clientVars
    BY <1>2 DEF RunPendingMigrations, TablesRead, CreateTable, SelectLegacy, InsertRows, StartPath, Up, Log,
       RollbackMigrations, FindTarget, StartDown, Down, Unlog, Query
  <1> QED
    BY <1>1, <1>2, ClientsStep DEF Next, Crash, vars

\* StoppedMeansClosed: when shutdownRunningInstances() resolves, an entity that
\* was registered has no connection left of those it was called for, for any
\* number of clients, calls of init() and shutdown(), failures and crashes,
\* unless two shutdowns of the entity overlapped.
THEOREM RegisteredAreClosed == Spec => StoppedMeansClosed
  <1> DEFINE Closed == lifecycle = "waiting" /\ lifecycle' = "resolved" =>
                \A e \in Entities \ overlapped : due[e] \cap conn[e] \subseteq stuck[e]
  <1>1. ASSUME ClientInv, [Next]_vars PROVE Closed
    <2> SUFFICES ASSUME lifecycle = "waiting", lifecycle' = "resolved", NEW e \in Entities \ overlapped
                 PROVE  due[e] \cap conn[e] \subseteq stuck[e]
      OBVIOUS
    <2>1. InstancesStopped
      <3>1. lifecycle' # lifecycle
        OBVIOUS
      <3>2. ~UNCHANGED vars /\ ~\E c \in Calls : Throws(c)
        BY <3>1 DEF vars, clientVars, Throws
      <3>3. ~\E c \in Calls : RunPendingMigrations(c) \/ TablesRead(c) \/ CreateTable(c) \/ SelectLegacy(c)
               \/ InsertRows(c) \/ StartPath(c) \/ Up(c) \/ Log(c)
               \/ RollbackMigrations(c) \/ FindTarget(c) \/ StartDown(c) \/ Down(c) \/ Unlog(c)
        BY <3>1 DEF clientVars, RunPendingMigrations, TablesRead, CreateTable, SelectLegacy, InsertRows,
           StartPath, Up, Log, RollbackMigrations, FindTarget, StartDown, Down, Unlog, Query
      <3>4. ~Crash /\ ~InitRedis /\ ~InitSequelize /\ ~ShutdownRunningInstances
        BY DEF Crash, CrashClients, InitRedis, InitSequelize, ShutdownRunningInstances
      <3>5. /\ ~\E k \in 1..MaxClients : Authenticated(k)
            /\ ~\E x \in Entities : HostStops(x) \/ \E o \in Origins : Quit(x, o)
        BY <3>1 DEF Authenticated, HostStops, Quit
      <3> QED
        BY <1>1, <3>2, <3>3, <3>4, <3>5 DEF Next, ClientNext
    <2>2. ~Calling(e, "lifecycle")
      BY <2>1 DEF InstancesStopped, Calling, NoStop
    <2> QED
      BY <1>1, <2>2 DEF ClientInv, Dues
  <1>2. ClientInv /\ [Next]_vars => ClientInv' /\ [Closed]_clientVars
    BY <1>1, ClientsNext
  <1>3. Init => ClientInv
    BY ClientsInit DEF Init
  <1> QED
    BY <1>2, <1>3, PTL DEF Spec, StoppedMeansClosed

-----------------------------------------------------------------------------
(* The first and the last of some migrations *)

\* A migration is a number.
LEMMA MigrationNumbers == Migrations \subseteq Nat
  <1> SUFFICES ASSUME NEW c \in Configs, NEW i \in DOMAIN c.paths PROVE c.paths[i] \subseteq Nat
    BY DEF Migrations
  <1>1. c.paths \in Seq(SUBSET Nat)
    BY DbMigrationAssumption
  <1> QED
    BY <1>1

\* Every set of migrations has a first one, and First is that one.
LEMMA FirstIsLeast ==
    ASSUME NEW todo \in SUBSET Migrations, todo # {}
    PROVE  First(todo) \in todo /\ \A n \in todo : First(todo) <= n
  <1>1. todo \subseteq Nat
    BY MigrationNumbers
  <1>2. PICK m \in todo : \A n \in todo : <<n, m>> \notin OpToRel(<, Nat)
    BY <1>1, NatLessThanWellFounded, WFMin
  <1>3. ASSUME NEW n \in todo, ~(m <= n) PROVE FALSE
    <2>1. n \in Nat /\ m \in Nat /\ n < m
      BY <1>1, <1>3
    <2>2. <<n, m>> \in OpToRel(<, Nat)
      BY <2>1 DEF OpToRel
    <2> QED
      BY <1>2, <2>2
  <1> QED
    BY <1>3 DEF First

\* There are finitely many, so that Last is the last one.
LEMMA LastIsGreatest ==
    ASSUME NEW todo \in SUBSET Migrations, todo # {}
    PROVE  Last(todo) \in todo /\ \A n \in todo : n <= Last(todo)
  <1>1. IsFiniteSet(todo)
    BY DbMigrationAssumption, FS_Subset
  <1>2. todo \subseteq Nat
    BY MigrationNumbers
  <1> DEFINE from(m) == {n \in todo : m <= n}
             family == {from(m) : m \in todo}
  <1>3. family \subseteq FiniteSubsetsOf(todo) /\ family # {}
    <2>1. \A m \in todo : from(m) \subseteq todo /\ IsFiniteSet(from(m))
      BY <1>1, FS_Subset
    <2> QED
      BY <2>1 DEF FiniteSubsetsOf
  <1>4. PICK least \in family : \A t \in family : <<t, least>> \notin StrictSubsetOrdering(todo)
    BY <1>3, FS_StrictSubsetOrderingWellFounded, WFMin
  <1>5. PICK m \in todo : least = from(m)
    OBVIOUS
  <1>6. ASSUME NEW n \in todo, ~(n <= m) PROVE FALSE
    <2>1. n \in Nat /\ m \in Nat /\ m < n
      BY <1>2, <1>6
    <2>2. from(n) \subseteq from(m)
      <3> SUFFICES ASSUME NEW k \in todo, n <= k PROVE m <= k
        OBVIOUS
      <3>1. k \in Nat
        BY <1>2
      <3> QED
        BY <2>1, <3>1
    <2>3. m \in from(m) /\ m \notin from(n)
      BY <2>1
    <2>4. from(n) \in family /\ from(n) \in SUBSET todo /\ from(m) \in SUBSET todo
      OBVIOUS
    <2>5. <<from(n), from(m)>> \in StrictSubsetOrdering(todo)
      BY <2>4, <2>2, <2>3 DEF StrictSubsetOrdering
    <2> QED
      BY <1>4, <1>5, <2>4, <2>5
  <1>7. \A n \in todo : m >= n
    BY <1>2, <1>6
  <1> QED
    BY <1>2, <1>7 DEF Last

-----------------------------------------------------------------------------
(* Types *)

Pcs == {"idle", "tables", "create", "select", "insert", "path", "up", "log",
        "find", "downPath", "down", "unlog", "resolved", "rejected"}

DbTyped ==
    /\ DOMAIN rows \subseteq {"SequelizeMeta", "sequelize_meta"}
    /\ \A t \in DOMAIN rows : rows[t] \subseteq Migrations
    /\ version \in [Migrations -> Versions \cup {Unversioned}]
    /\ applied \subseteq Migrations /\ torn \subseteq Migrations

CallTyped(s) ==
    /\ s.pc \in Pcs /\ s.copy \subseteq Migrations /\ s.todo \subseteq Migrations
    /\ s.path \in 1..(Len(config.paths) + 1) /\ s.build \in Builds
    /\ s.pc \in {"up", "log", "down", "unlog"} => s.todo # {} /\ s.path <= Len(config.paths)
    /\ s.pc \in {"down", "unlog"} => s.target = First(s.todo)

TypeInv == DbInv /\ ClientInv /\ DbTyped /\ \A c \in Calls : CallTyped(mig[c])

\* One call takes a step.
LEMMA TypedCall ==
    ASSUME TypeInv, DbInv', ClientInv', NEW c \in Calls, NEW s, Go(c, s), CallTyped(s), DbTyped', UNCHANGED config
    PROVE  TypeInv'
  <1>1. \A d \in Calls : mig'[d] = IF d = c THEN s ELSE mig[d]
    BY DEF Go, TypeInv, DbInv
  <1>2. \A d \in Calls : CallTyped(mig[d])'
    BY <1>1 DEF TypeInv, CallTyped
  <1> QED
    BY <1>2 DEF TypeInv

\* A call that begins, ends or throws.
LEMMA FreshCall ==
    ASSUME TypeInv, NEW pc \in Pcs \ {"up", "log", "down", "unlog"}, NEW legacy, NEW build \in Builds,
           NEW copy \in SUBSET Migrations, NEW s,
           \/ s = [Idle EXCEPT !.pc = pc]
           \/ s = [Idle EXCEPT !.pc = pc, !.legacy = legacy]
           \/ s = [Idle EXCEPT !.pc = pc, !.copy = copy]
           \/ s = [Idle EXCEPT !.pc = pc, !.build = build]
    PROVE  CallTyped(s)
  <1>1. (CHOOSE b \in Builds : TRUE) \in Builds
    BY DbMigrationAssumption
  <1>2. Len(config.paths) \in Nat /\ 1 \in 1..(Len(config.paths) + 1)
    BY PathsIndexed DEF TypeInv
  <1>3. s.pc = pc /\ s.copy \subseteq Migrations /\ s.todo = {} /\ s.path = 1 /\ s.build \in Builds
    BY <1>1 DEF Idle
  <1> QED
    BY <1>2, <1>3 DEF CallTyped

\* The next directory.
LEMMA NextPathTyped ==
    ASSUME TypeInv, NEW c \in Calls, mig[c].path <= Len(config.paths), NEW pc \in {"path", "downPath"}
    PROVE  LET s == [NextPath(c) EXCEPT !.pc = pc]
           IN  /\ CallTyped(s) /\ s.pc = pc /\ s.path = mig[c].path + 1
               /\ s.target = mig[c].target /\ s.build = mig[c].build
               /\ NextPath(c) = [NextPath(c) EXCEPT !.pc = "path"]
  <1> DEFINE path == mig[c].path + 1
             s == [NextPath(c) EXCEPT !.pc = pc]
  <1>1. IsState(mig[c]) /\ CallTyped(mig[c]) /\ Len(config.paths) \in Nat
    BY PathsIndexed DEF TypeInv, DbInv
  <1>2. path \in 1..(Len(config.paths) + 1)
    BY <1>1 DEF CallTyped
  <1>3. NextPath(c) = [mig[c] EXCEPT !.pc = "path", !.path = path, !.todo = {}]
    BY DEF NextPath
  <1>4. NextPath(c) = [NextPath(c) EXCEPT !.pc = "path"]
    BY <1>1 DEF NextPath, IsState
  <1> HIDE DEF path
  <1>5. /\ s.pc = pc /\ s.path = path /\ s.todo = {} /\ s.copy = mig[c].copy
        /\ s.target = mig[c].target /\ s.build = mig[c].build
    BY <1>1, <1>3 DEF IsState
  <1> HIDE DEF s
  <1>6. CallTyped(s)
    BY <1>1, <1>2, <1>5 DEF CallTyped, Pcs
  <1> QED
    BY <1>4, <1>5, <1>6 DEF path, s

\* A step within a directory.
LEMMA SamePathTyped ==
    ASSUME TypeInv, NEW c \in Calls, NEW pc \in Pcs, NEW todo \in SUBSET Migrations,
           pc \in {"up", "log", "down", "unlog"} => todo # {} /\ mig[c].path <= Len(config.paths),
           pc \in {"down", "unlog"} => mig[c].target = First(todo)
    PROVE  LET s == [mig[c] EXCEPT !.pc = pc, !.todo = todo]
           IN  /\ CallTyped(s) /\ s.pc = pc /\ s.todo = todo /\ s.path = mig[c].path
               /\ s.target = mig[c].target /\ s.build = mig[c].build
               /\ todo = mig[c].todo => [mig[c] EXCEPT !.pc = pc] = s
  <1> DEFINE s == [mig[c] EXCEPT !.pc = pc, !.todo = todo]
  <1>1. IsState(mig[c]) /\ CallTyped(mig[c])
    BY DEF TypeInv, DbInv
  <1>2. /\ s.pc = pc /\ s.todo = todo /\ s.path = mig[c].path /\ s.copy = mig[c].copy
        /\ s.target = mig[c].target /\ s.build = mig[c].build
    BY <1>1 DEF IsState
  <1>3. todo = mig[c].todo => [mig[c] EXCEPT !.pc = pc] = s
    BY <1>1 DEF IsState
  <1> HIDE DEF s
  <1>4. CallTyped(s)
    BY <1>1, <1>2 DEF CallTyped
  <1> QED
    BY <1>2, <1>3, <1>4 DEF s

\* What the storage of umzug records are migrations.
LEMMA RecordTyped ==
    ASSUME TypeInv, NEW recorded, Record(recorded)
    PROVE  /\ DOMAIN rows' \subseteq {"SequelizeMeta", "sequelize_meta"}
           /\ recorded \subseteq Migrations => \A t \in DOMAIN rows' : rows'[t] \subseteq Migrations
           /\ Recorded \subseteq Migrations
  BY DEF Record, Storage, Recorded, TypeInv, DbTyped

\* The step of a call to s, and what it leaves of the database.
Typed(c) == DbTyped' /\ UNCHANGED config /\ \E s : Go(c, s) /\ CallTyped(s)

\* A call that is rejected or resolved.
LEMMA EndTyped ==
    ASSUME TypeInv, NEW c \in Calls, Resolve(c) \/ Reject(c)
    PROVE  \E s : Go(c, s) /\ CallTyped(s)
  <1>1. PICK pc \in {"resolved", "rejected"} : Go(c, [Idle EXCEPT !.pc = pc])
    BY DEF Resolve, Reject
  <1>2. PICK build \in Builds : TRUE
    BY DbMigrationAssumption
  <1> DEFINE s == [Idle EXCEPT !.pc = pc]
  <1>3. pc \in Pcs \ {"up", "log", "down", "unlog"} /\ {} \in SUBSET Migrations
    BY DEF Pcs
  <1>4. s = [Idle EXCEPT !.pc = pc]
    OBVIOUS
  <1> HIDE DEF s
  <1>5. CallTyped(s)
    BY <1>2, <1>3, <1>4, FreshCall
  <1> QED
    BY <1>1, <1>4, <1>5

\* migrateMetadataTable().
LEMMA TableTyped ==
    ASSUME TypeInv, NEW c \in Calls,
           \/ RunPendingMigrations(c) \/ TablesRead(c) \/ CreateTable(c) \/ SelectLegacy(c)
           \/ InsertRows(c)
    PROVE  Typed(c)
  <1>1. PICK build \in Builds : TRUE
    BY DbMigrationAssumption
  <1>2. DbTyped /\ CallTyped(mig[c]) /\ LegacySeen(mig[c])
    BY DEF TypeInv, DbInv
  <1>3. ASSUME NEW pc \in {"tables", "create", "select", "insert", "path"}, NEW legacy,
               NEW copy \in SUBSET Migrations,
               \/ Go(c, [Idle EXCEPT !.pc = pc])
               \/ Go(c, [Idle EXCEPT !.pc = pc, !.legacy = legacy])
               \/ Go(c, [Idle EXCEPT !.pc = pc, !.copy = copy])
        PROVE  \E s : Go(c, s) /\ CallTyped(s)
    <2>1. pc \in Pcs \ {"up", "log", "down", "unlog"}
      BY DEF Pcs
    <2>2. /\ CallTyped([Idle EXCEPT !.pc = pc]) /\ CallTyped([Idle EXCEPT !.pc = pc, !.legacy = legacy])
          /\ CallTyped([Idle EXCEPT !.pc = pc, !.copy = copy])
      BY <1>1, <2>1, FreshCall
    <2> QED
      BY <1>3, <2>2
  <1>4. UNCHANGED <<config, version, applied, torn>>
    BY DEF RunPendingMigrations, TablesRead, CreateTable, SelectLegacy, InsertRows, Query
  <1>5. ASSUME UNCHANGED rows \/ \A t \in DOMAIN rows' : rows'[t] \subseteq Migrations /\ t \in {"SequelizeMeta", "sequelize_meta"}
        PROVE  DbTyped'
    BY <1>2, <1>4, <1>5 DEF DbTyped
  <1> DEFINE Step == \E s : Go(c, s) /\ CallTyped(s)
  <1>6. Resolve(c) \/ Reject(c) => Step
    BY EndTyped
  <1>7. {} \in SUBSET Migrations
    OBVIOUS
  <1> SUFFICES DbTyped' /\ Step
    BY <1>4 DEF Typed
  <1> HIDE DEF Step
  <1>8. CASE RunPendingMigrations(c)
    BY <1>3, <1>5, <1>7, <1>8 DEF RunPendingMigrations, Step
  <1>9. CASE TablesRead(c)
    <2>1. ASSUME NEW legacy, Go(c, [Idle EXCEPT !.pc = "create", !.legacy = legacy])
                             \/ Go(c, [Idle EXCEPT !.pc = "path"])
          PROVE  Step
      BY <1>3, <1>7, <2>1 DEF Step
    <2>2. Step
      BY <1>6, <1>9, <2>1 DEF TablesRead
    <2> QED
      BY <1>5, <1>9, <2>2 DEF TablesRead
  <1>10. CASE CreateTable(c)
    <2>1. CASE Reject(c) /\ UNCHANGED rows
      BY <1>5, <1>6, <2>1
    <2>2. ASSUME NEW pc \in {"select", "path"}, Go(c, [Idle EXCEPT !.pc = pc]),
                 rows' = [t \in DOMAIN rows \cup {"sequelize_meta"} |->
                            IF t = "sequelize_meta" THEN {} ELSE rows[t]]
          PROVE  DbTyped' /\ Step
      <3>1. Step
        BY <1>3, <1>7, <2>2 DEF Step
      <3>2. DbTyped'
        BY <1>2, <1>5, <2>2 DEF DbTyped
      <3> QED
        BY <3>1, <3>2
    <2> QED
      BY <1>10, <2>1, <2>2 DEF CreateTable
  <1>11. CASE SelectLegacy(c)
    <2>1. rows["SequelizeMeta"] \in SUBSET Migrations
      BY <1>2, <1>11 DEF SelectLegacy, Query, LegacySeen, DbTyped
    <2>2. Go(c, [Idle EXCEPT !.pc = "insert", !.copy = rows["SequelizeMeta"]]) => Step
      BY <1>3, <2>1 DEF Step
    <2> QED
      BY <1>5, <1>6, <1>11, <2>2 DEF SelectLegacy
  <1>12. CASE InsertRows(c)
    <2>1. CASE Reject(c) /\ UNCHANGED rows
      BY <1>5, <1>6, <2>1
    <2>2. CASE /\ rows' = [rows EXCEPT !["sequelize_meta"] = @ \cup mig[c].copy]
               /\ Go(c, [Idle EXCEPT !.pc = "path"])
      <3>1. Step
        BY <1>3, <1>7, <2>2 DEF Step
      <3>2. mig[c].copy \subseteq Migrations
        BY <1>2 DEF CallTyped
      <3>3. DbTyped'
        BY <1>2, <1>5, <2>2, <3>2 DEF DbTyped
      <3> QED
        BY <3>1, <3>3
    <2> QED
      BY <1>12, <2>1, <2>2 DEF InsertRows
  <1> QED
    BY <1>8, <1>9, <1>10, <1>11, <1>12

\* A directory of the deployment holds migrations.
LEMMA PathFiles ==
    ASSUME TypeInv, NEW i \in 1..Len(config.paths)
    PROVE  config.paths[i] \subseteq Migrations
  BY PathsIndexed DEF TypeInv, DbInv, Migrations

\* The loop of runPendingMigrations().
LEMMA LoopTyped ==
    ASSUME TypeInv, NEW c \in Calls, StartPath(c) \/ Up(c) \/ Log(c)
    PROVE  Typed(c)
  <1>1. DbTyped /\ CallTyped(mig[c]) /\ UNCHANGED config
    BY DEF TypeInv, StartPath, Up, Log, Query
  <1> DEFINE Step == \E s : Go(c, s) /\ CallTyped(s)
  <1>2. Resolve(c) \/ Reject(c) => Step
    BY EndTyped
  <1>3. {"path", "up", "log"} \subseteq Pcs
    BY DEF Pcs
  <1> SUFFICES DbTyped' /\ Step
    BY <1>1 DEF Typed
  <1> HIDE DEF Step
  <1>4. CASE StartPath(c)
    <2>1. CASE mig[c].path > Len(config.paths)
      BY <1>1, <1>2, <1>4, <2>1 DEF StartPath, DbTyped
    <2>2. CASE ~(mig[c].path > Len(config.paths))
      <3> DEFINE todo == Pending(config.paths[mig[c].path])
      <3>1. mig[c].path \in 1..Len(config.paths) /\ mig[c].path <= Len(config.paths)
        BY <1>1, <2>2, PathsIndexed DEF CallTyped, TypeInv
      <3>2. todo \in SUBSET Migrations
        BY <3>1, PathFiles DEF Pending
      <3>3. /\ Record(Recorded) /\ UNCHANGED <<version, applied, torn>>
            /\ Go(c, IF todo = {} THEN NextPath(c) ELSE [mig[c] EXCEPT !.pc = "up", !.todo = todo])
        BY <1>4, <2>2 DEF StartPath
      <3> HIDE DEF todo
      <3>4. DbTyped'
        BY <1>1, <3>3, RecordTyped DEF DbTyped
      <3>5. CASE todo = {}
        <4>1. CallTyped(NextPath(c))
          BY <3>1, NextPathTyped
        <4> QED
          BY <3>3, <3>4, <3>5, <4>1 DEF Step
      <3>6. CASE todo # {}
        <4>1. CallTyped([mig[c] EXCEPT !.pc = "up", !.todo = todo])
          BY <1>3, <3>1, <3>2, <3>6, SamePathTyped
        <4> QED
          BY <3>3, <3>4, <3>6, <4>1 DEF Step
      <3> QED
        BY <3>5, <3>6
    <2> QED
      BY <2>1, <2>2
  <1>5. CASE Up(c)
    <2>1. mig[c].pc = "up" /\ mig[c].todo \in SUBSET Migrations /\ mig[c].todo # {}
          /\ mig[c].path <= Len(config.paths)
      BY <1>1, <1>5 DEF Up, Query, CallTyped
    <2>2. First(mig[c].todo) \in Migrations
      BY <2>1, FirstIsLeast
    <2>3. DbTyped'
      BY <1>1, <1>5, <2>2 DEF Up, DbTyped
    <2>4. CallTyped([mig[c] EXCEPT !.pc = "log"])
      <3> DEFINE todo == mig[c].todo
      <3>1. todo = mig[c].todo /\ todo \in SUBSET Migrations
        BY <2>1
      <3> HIDE DEF todo
      <3>2. CallTyped([mig[c] EXCEPT !.pc = "log", !.todo = todo])
            /\ [mig[c] EXCEPT !.pc = "log"] = [mig[c] EXCEPT !.pc = "log", !.todo = todo]
        BY <1>3, <2>1, <3>1, SamePathTyped
      <3> QED
        BY <3>2
    <2> QED
      BY <1>2, <1>5, <2>3, <2>4 DEF Up, Step
  <1>6. CASE Log(c)
    <2> DEFINE m == First(mig[c].todo)
               rest == mig[c].todo \ {m}
    <2>1. mig[c].pc = "log" /\ mig[c].todo \in SUBSET Migrations /\ mig[c].todo # {}
          /\ mig[c].path <= Len(config.paths)
      BY <1>1, <1>6 DEF Log, Query, CallTyped
    <2>2. m \in Migrations /\ rest \in SUBSET Migrations
      BY <2>1, FirstIsLeast
    <2>3. CASE Reject(c) /\ UNCHANGED <<rows, version>>
      BY <1>1, <1>2, <1>6, <2>3 DEF Log, DbTyped
    <2>4. CASE /\ Record(Recorded \cup {m}) /\ version' = [version EXCEPT ![m] = Unversioned]
               /\ Go(c, IF rest = {} THEN NextPath(c) ELSE [mig[c] EXCEPT !.pc = "up", !.todo = rest])
      <3> HIDE DEF rest, m
      <3>1. DbTyped'
        <4>1. UNCHANGED <<applied, torn>>
          BY <1>6 DEF Log
        <4>2. version' \in [Migrations -> Versions \cup {Unversioned}]
          BY <1>1, <2>4 DEF DbTyped
        <4> QED
          BY <1>1, <2>2, <2>4, <4>1, <4>2, RecordTyped DEF DbTyped
      <3>2. CASE rest = {}
        <4>1. CallTyped(NextPath(c))
          BY <2>1, NextPathTyped
        <4> QED
          BY <2>4, <3>1, <3>2, <4>1 DEF Step
      <3>3. CASE rest # {}
        <4>1. CallTyped([mig[c] EXCEPT !.pc = "up", !.todo = rest])
          BY <1>3, <2>1, <2>2, <3>3, SamePathTyped
        <4> QED
          BY <2>4, <3>1, <3>3, <4>1 DEF Step
      <3> QED
        BY <3>2, <3>3
    <2> QED
      BY <1>6, <2>3, <2>4 DEF Log
  <1> QED
    BY <1>4, <1>5, <1>6

\* Without the last one, the first one stays.
LEMMA FirstOfRest ==
    ASSUME NEW todo \in SUBSET Migrations, todo # {}, todo \ {Last(todo)} # {}
    PROVE  First(todo \ {Last(todo)}) = First(todo)
  <1> DEFINE rest == todo \ {Last(todo)}
  <1>1. todo \subseteq Nat
    BY MigrationNumbers
  <1>2. First(todo) \in todo /\ (\A n \in todo : First(todo) <= n)
        /\ Last(todo) \in todo /\ (\A n \in todo : n <= Last(todo))
    BY FirstIsLeast, LastIsGreatest
  <1>3. First(todo) # Last(todo)
    <2> SUFFICES ASSUME First(todo) = Last(todo), NEW n \in rest PROVE FALSE
      OBVIOUS
    <2>1. n <= Last(todo) /\ Last(todo) <= n /\ n \in Nat /\ Last(todo) \in Nat
      BY <1>1, <1>2
    <2> QED
      BY <2>1
  <1>4. rest \in SUBSET Migrations /\ rest # {}
    OBVIOUS
  <1>5. First(rest) \in rest /\ \A n \in rest : First(rest) <= n
    BY <1>4, FirstIsLeast
  <1>6. First(rest) <= First(todo) /\ First(todo) <= First(rest)
    BY <1>2, <1>3, <1>5
  <1>7. First(rest) \in Nat /\ First(todo) \in Nat
    BY <1>1, <1>2, <1>5
  <1> QED
    BY <1>6, <1>7

\* A set in which nothing comes before m has m as its first.
LEMMA FirstIs ==
    ASSUME NEW todo \in SUBSET Migrations, NEW m \in todo, \A n \in todo : n >= m
    PROVE  First(todo) = m
  <1>1. First(todo) \in todo /\ First(todo) <= m
    BY FirstIsLeast
  <1>2. First(todo) \in Nat /\ m \in Nat /\ First(todo) >= m
    BY <1>1, MigrationNumbers
  <1> QED
    BY <1>1, <1>2

\* rollbackMigrations().
LEMMA RollbackTyped ==
    ASSUME TypeInv, NEW c \in Calls,
           RollbackMigrations(c) \/ FindTarget(c) \/ StartDown(c) \/ Down(c) \/ Unlog(c)
    PROVE  Typed(c)
  <1>1. DbTyped /\ CallTyped(mig[c]) /\ UNCHANGED config /\ IsState(mig[c])
    BY DEF TypeInv, DbInv, RollbackMigrations, FindTarget, StartDown, Down, Unlog, Query
  <1> DEFINE Step == \E s : Go(c, s) /\ CallTyped(s)
  <1>2. Resolve(c) \/ Reject(c) => Step
    BY EndTyped
  <1>3. {"find", "downPath", "down", "unlog"} \subseteq Pcs
    BY DEF Pcs
  <1> SUFFICES DbTyped' /\ Step
    BY <1>1 DEF Typed
  <1> HIDE DEF Step
  <1>4. CASE RollbackMigrations(c)
    <2>1. PICK build \in Builds : Go(c, [Idle EXCEPT !.pc = "find", !.build = build])
      BY <1>4 DEF RollbackMigrations
    <2>2. "find" \in Pcs \ {"up", "log", "down", "unlog"} /\ {} \in SUBSET Migrations
      BY <1>3
    <2>3. CallTyped([Idle EXCEPT !.pc = "find", !.build = build])
      BY <2>2, FreshCall
    <2> QED
      BY <1>1, <1>4, <2>1, <2>3 DEF RollbackMigrations, DbTyped, Step
  <1>5. CASE FindTarget(c)
    <2>1. DbTyped'
      BY <1>1, <1>5 DEF FindTarget, DbTyped
    <2>2. ASSUME NEW target, Go(c, [mig[c] EXCEPT !.pc = "downPath", !.target = target])
          PROVE  Step
      <3> DEFINE s == [mig[c] EXCEPT !.pc = "downPath", !.target = target]
      <3>1. /\ s.pc = "downPath" /\ s.copy = mig[c].copy /\ s.todo = mig[c].todo /\ s.path = mig[c].path
            /\ s.build = mig[c].build
        BY <1>1 DEF IsState
      <3> HIDE DEF s
      <3>2. CallTyped(s)
        BY <1>1, <1>3, <3>1 DEF CallTyped
      <3> QED
        BY <2>2, <3>2 DEF s, Step
    <2> QED
      BY <1>2, <1>5, <2>1, <2>2 DEF FindTarget
  <1>6. CASE StartDown(c)
    <2>1. DbTyped'
      BY <1>1, <1>6 DEF StartDown, DbTyped
    <2>2. CASE Resolve(c) \/ Reject(c)
      BY <1>2, <2>1, <2>2
    <2>3. CASE ~(mig[c].path > Len(config.paths)) /\ ~(Resolve(c) \/ Reject(c))
      <3> DEFINE todo == Reverted(config.paths[mig[c].path], mig[c].target)
      <3>1. mig[c].path \in 1..Len(config.paths) /\ mig[c].path <= Len(config.paths)
        BY <1>1, <2>3, PathsIndexed DEF CallTyped, TypeInv
      <3>2. todo \in SUBSET Migrations /\ \A n \in todo : n >= mig[c].target
        BY <3>1, PathFiles DEF Reverted
      <3>3. mig[c].target \in todo /\ Go(c, [mig[c] EXCEPT !.pc = "down", !.todo = todo])
        BY <1>6, <2>3 DEF StartDown
      <3> HIDE DEF todo
      <3>4. mig[c].target = First(todo)
        BY <3>2, <3>3, FirstIs
      <3>5. CallTyped([mig[c] EXCEPT !.pc = "down", !.todo = todo])
        BY <1>3, <3>1, <3>2, <3>3, <3>4, SamePathTyped
      <3> QED
        BY <2>1, <3>3, <3>5 DEF Step
    <2> QED
      BY <1>6, <2>2, <2>3 DEF StartDown
  <1>7. CASE Down(c)
    <2>1. mig[c].pc = "down" /\ mig[c].todo \in SUBSET Migrations /\ mig[c].todo # {}
          /\ mig[c].path <= Len(config.paths) /\ mig[c].target = First(mig[c].todo)
      BY <1>1, <1>7 DEF Down, Query, CallTyped
    <2>2. Last(mig[c].todo) \in Migrations
      BY <2>1, LastIsGreatest
    <2>3. DbTyped'
      BY <1>1, <1>7, <2>2 DEF Down, DbTyped
    <2>4. CallTyped([mig[c] EXCEPT !.pc = "unlog"])
      <3> DEFINE todo == mig[c].todo
      <3>1. todo = mig[c].todo /\ todo \in SUBSET Migrations
        BY <2>1
      <3> HIDE DEF todo
      <3>2. CallTyped([mig[c] EXCEPT !.pc = "unlog", !.todo = todo])
            /\ [mig[c] EXCEPT !.pc = "unlog"] = [mig[c] EXCEPT !.pc = "unlog", !.todo = todo]
        BY <1>3, <2>1, <3>1, SamePathTyped
      <3> QED
        BY <3>2
    <2> QED
      BY <1>7, <2>3, <2>4 DEF Down, Step
  <1>8. CASE Unlog(c)
    <2> DEFINE m == Last(mig[c].todo)
               rest == mig[c].todo \ {m}
    <2>1. mig[c].pc = "unlog" /\ mig[c].todo \in SUBSET Migrations /\ mig[c].todo # {}
          /\ mig[c].path <= Len(config.paths) /\ mig[c].target = First(mig[c].todo)
      BY <1>1, <1>8 DEF Unlog, Query, CallTyped
    <2>2. rest \in SUBSET Migrations /\ (rest # {} => mig[c].target = First(rest))
      BY <2>1, FirstOfRest
    <2>3. /\ Record(Recorded \ {m}) /\ torn' = torn \ {m} /\ UNCHANGED <<version, applied>>
          /\ Go(c, IF rest = {} THEN [NextPath(c) EXCEPT !.pc = "downPath"]
                   ELSE [mig[c] EXCEPT !.pc = "down", !.todo = rest])
      BY <1>8 DEF Unlog
    <2> HIDE DEF m, rest
    <2>4. DbTyped'
      BY <1>1, <2>3, RecordTyped DEF DbTyped
    <2>5. CASE rest = {}
      <3>1. CallTyped([NextPath(c) EXCEPT !.pc = "downPath"])
        BY <2>1, NextPathTyped
      <3> QED
        BY <2>3, <2>4, <2>5, <3>1 DEF Step
    <2>6. CASE rest # {}
      <3>1. CallTyped([mig[c] EXCEPT !.pc = "down", !.todo = rest])
        BY <1>3, <2>1, <2>2, <2>6, SamePathTyped
      <3> QED
        BY <2>3, <2>4, <2>6, <3>1 DEF Step
    <2> QED
      BY <2>5, <2>6
  <1> QED
    BY <1>4, <1>5, <1>6, <1>7, <1>8

\* Every step keeps the types.
LEMMA TypeNext == TypeInv /\ [Next]_vars => TypeInv'
  <1> SUFFICES ASSUME TypeInv, [Next]_vars PROVE TypeInv'
    OBVIOUS
  <1>1. DbInv' /\ ClientInv'
    BY NextKeeps, ClientsNext DEF TypeInv
  <1>2. ASSUME NEW c \in Calls, Typed(c) PROVE TypeInv'
    BY <1>1, <1>2, TypedCall DEF Typed
  <1>3. ASSUME NEW c \in Calls, Throws(c) PROVE TypeInv'
    <2>1. DbTyped' /\ UNCHANGED config /\ Reject(c)
      BY <1>3 DEF Throws, TypeInv, DbTyped
    <2> QED
      BY <1>2, <2>1, EndTyped DEF Typed
  <1>4. CASE UNCHANGED dbVars
    BY <1>1, <1>4 DEF dbVars, TypeInv, DbTyped, CallTyped
  <1>5. CASE Crash
    <2>1. CallTyped(Idle)
      <3>1. (CHOOSE b \in Builds : TRUE) \in Builds
        BY DbMigrationAssumption
      <3>2. Len(config.paths) \in Nat
        BY PathsIndexed DEF TypeInv
      <3> QED
        BY <3>1, <3>2 DEF Idle, CallTyped, Pcs
    <2>2. /\ \A c \in Calls : mig'[c] = Idle \/ mig'[c] = mig[c]
          /\ UNCHANGED <<config, rows, version, applied, torn>>
      BY <1>5 DEF Crash
    <2>3. \A c \in Calls : CallTyped(mig[c])'
      BY <2>1, <2>2 DEF TypeInv, CallTyped
    <2> QED
      BY <1>1, <2>2, <2>3 DEF TypeInv, DbTyped
  <1> QED
    BY <1>2, <1>3, <1>4, <1>5, TableTyped, LoopTyped, RollbackTyped DEF Next, vars

\* At the start.
LEMMA TypeInit == Init => TypeInv
  <1> SUFFICES ASSUME Init PROVE TypeInv
    OBVIOUS
  <1>1. DbInv /\ ClientInv
    BY InitKeeps, ClientsInit DEF Init
  <1>2. DbTyped
    <2>1. Executed \subseteq SUBSET Migrations /\ Stamped \in [Migrations -> Versions \cup {Unversioned}]
      BY DbMigrationAssumption
    <2> QED
      BY <2>1 DEF Init, DbTyped
  <1>3. CallTyped(Idle)
    <2>1. (CHOOSE b \in Builds : TRUE) \in Builds
      BY DbMigrationAssumption
    <2>2. Len(config.paths) \in Nat
      BY <1>1, PathsIndexed
    <2> QED
      BY <2>1, <2>2 DEF Idle, CallTyped, Pcs
  <1> QED
    BY <1>1, <1>2, <1>3 DEF TypeInv, Init

\* TypeOK of DbMigration: a call is within the directories of its deployment,
\* and a rollback takes back nothing before its target.
THEOREM TypeCorrect == Spec => []TypeOK
  <1>1. TypeInv => TypeOK
    BY DEF TypeInv, DbInv, ClientInv, DbTyped, CallTyped, TypeOK, Pcs
  <1> QED
    BY <1>1, TypeInit, TypeNext, PTL DEF Spec

-----------------------------------------------------------------------------
(* What a rollback takes back *)

\* semverCompare() orders the versions that parse (semverCompare.ts:38-61).
LEMMA CompareIsOrder ==
    ASSUME NEW v \in Versions, NEW w \in Versions
    PROVE  SemverCompare(v, w) = 1 <=> Newer(v, w)
  <1>1. /\ v.major \in Nat /\ v.minor \in Nat /\ v.patch \in Nat /\ v.preVersion \in Nat
        /\ w.major \in Nat /\ w.minor \in Nat /\ w.patch \in Nat /\ w.preVersion \in Nat
        /\ v.pre \in {"release", "alpha", "beta", "rc"} /\ w.pre \in {"release", "alpha", "beta", "rc"}
    BY DEF Versions
  <1>2. Rank["alpha"] = 1 /\ Rank["beta"] = 2 /\ Rank["rc"] = 3
    BY DEF Rank
  <1>3. CASE v.major # w.major
    BY <1>1, <1>3 DEF SemverCompare, Newer
  <1>4. CASE v.major = w.major /\ v.minor # w.minor
    BY <1>1, <1>4 DEF SemverCompare, Newer
  <1>5. CASE v.major = w.major /\ v.minor = w.minor /\ v.patch # w.patch
    BY <1>1, <1>5 DEF SemverCompare, Newer
  <1>6. CASE v.major = w.major /\ v.minor = w.minor /\ v.patch = w.patch
    <2>1. CASE v.pre = "release" \/ w.pre = "release"
      BY <1>1, <1>6, <2>1 DEF SemverCompare, ComparePre, Newer
    <2>2. CASE v.pre # "release" /\ w.pre # "release" /\ v.pre # w.pre
      BY <1>1, <1>2, <1>6, <2>2 DEF SemverCompare, ComparePre, Newer
    <2>3. CASE v.pre # "release" /\ v.pre = w.pre
      BY <1>1, <1>2, <1>6, <2>3 DEF SemverCompare, ComparePre, Newer
    <2> QED
      BY <2>1, <2>2, <2>3
  <1> QED
    BY <1>3, <1>4, <1>5, <1>6

\* A row that BUILD_ID is older than.
Late(m, build) == version[m] # Unversioned /\ Newer(version[m], build)

Rows == rows["SequelizeMeta"]

\* What is late comes from the target on, and from the target on nothing is
\* recorded any more of the directories that are done.
RollOK(s) ==
    /\ s.pc = "find" => s.path = 1
    /\ s.pc \in {"downPath", "down", "unlog"} =>
         /\ "SequelizeMeta" \in DOMAIN rows
         /\ \A m \in Rows : Late(m, s.build) => m >= s.target
         /\ \A i \in 1..Len(config.paths) : i < s.path =>
              \A m \in config.paths[i] \cap Rows : ~(m >= s.target)
         /\ s.pc \in {"down", "unlog"} =>
              \A m \in config.paths[s.path] \cap Rows : m >= s.target => m \in s.todo

RollInv == TypeInv /\ \A c \in Calls : RollOK(mig[c])

\* When a rollback resolves, nothing late is left.
Done(c) ==
    RollingBack(c) /\ mig'[c].pc = "resolved"
    => \A m \in Files \cap rows'["SequelizeMeta"] : version[m] # Unversioned => ~Newer(version[m], mig[c].build)

\* A step of the rollback c, after which it is one still.
LEMMA RollMoves ==
    ASSUME RollInv, TypeInv', NEW c \in Calls, Rolls(mig[c]), Rolls(mig'[c]), RollOK(mig[c])',
           \A d \in Calls \ {c} : mig'[d] = mig[d]
    PROVE  RollInv' /\ \A d \in Calls : Done(d)
  <1>1. \A d \in Calls \ {c} : Rests(mig[d])
    BY DEF RollInv, TypeInv, DbInv, Exclusive
  <1>2. \A d \in Calls : RollOK(mig[d])'
    <2> SUFFICES ASSUME NEW d \in Calls, d # c PROVE RollOK(mig[d])'
      OBVIOUS
    <2>1. mig'[d] = mig[d] /\ Rests(mig[d])
      BY <1>1
    <2> QED
      BY <2>1 DEF RollOK, Rests
  <1>3. \A d \in Calls : Done(d)
    BY <1>1 DEF Done, RollingBack, Rests, Rolls
  <1> QED
    BY <1>2, <1>3 DEF RollInv

\* Any step without a rollback, or of no call.
LEMMA NoRoll ==
    ASSUME RollInv, TypeInv', \A c \in Calls : ~Rolls(mig[c]),
           \A c \in Calls : Rolls(mig'[c]) => mig'[c].pc = "find" /\ mig'[c].path = 1
    PROVE  RollInv' /\ \A d \in Calls : Done(d)
  BY DEF RollInv, RollOK, Done, Rolls, RollingBack

\* The database stays, and calls stay or are gone.
LEMMA CallsStay ==
    ASSUME RollInv, TypeInv', UNCHANGED <<config, rows, version>>,
           \A c \in Calls : mig'[c] = mig[c] \/ mig'[c].pc \in {"idle", "rejected"}
    PROVE  RollInv' /\ \A d \in Calls : Done(d)
  BY DEF RollInv, RollOK, Late, Rows, Done, RollingBack

\* The step that resolves a call of rollbackMigrations(), and those before it.
LEMMA RollStepKeeps ==
    ASSUME RollInv, TypeInv', NEW c \in Calls, FindTarget(c) \/ StartDown(c) \/ Down(c) \/ Unlog(c)
    PROVE  RollInv' /\ \A d \in Calls : Done(d)
  <1>1. /\ TypeInv /\ IsState(mig[c]) /\ CallTyped(mig[c]) /\ DbTyped /\ RollOK(mig[c]) /\ Rolls(mig[c])
        /\ UNCHANGED <<config, version>>
    BY DEF RollInv, TypeInv, DbInv, FindTarget, StartDown, Down, Unlog, Query, Rolls
  <1>2. /\ \A d \in Calls \ {c} : Rests(mig[d])
        /\ mig[c].pc # "find" => config.model = "package"
    BY <1>1 DEF TypeInv, DbInv, Exclusive
  <1>3. DOMAIN config.paths = 1..Len(config.paths) /\ Len(config.paths) \in Nat
    BY PathsIndexed DEF RollInv, TypeInv
  <1>4. ASSUME UNCHANGED rows, Reject(c) PROVE RollInv' /\ \A d \in Calls : Done(d)
    <2>1. mig'[c].pc = "rejected" /\ \A d \in Calls \ {c} : mig'[d] = mig[d]
      BY <1>4 DEF Reject, Go, RollInv, TypeInv, DbInv, Idle
    <2> QED
      BY <1>1, <1>4, <2>1, CallsStay
  <1>5. ASSUME UNCHANGED rows, Resolve(c), \A m \in Files \cap Rows : ~Late(m, mig[c].build)
        PROVE  RollInv' /\ \A d \in Calls : Done(d)
    <2>1. mig'[c].pc = "resolved" /\ \A d \in Calls \ {c} : mig'[d] = mig[d]
      BY <1>5 DEF Resolve, Go, RollInv, TypeInv, DbInv, Idle
    <2>2. \A d \in Calls : RollOK(mig[d])'
      <3> SUFFICES ASSUME NEW d \in Calls, d # c PROVE RollOK(mig[d])'
        BY <2>1 DEF RollOK
      <3> QED
        BY <1>2, <2>1 DEF RollOK, Rests
    <2>3. \A d \in Calls : Done(d)
      BY <1>2, <1>5, <2>1 DEF Done, RollingBack, Rests, Late, Rows
    <2> QED
      BY <2>2, <2>3 DEF RollInv
  <1>6. CASE FindTarget(c)
    <2> DEFINE above == Above(mig[c].build)
    <2>1. mig[c].pc = "find" /\ UNCHANGED rows
      BY <1>6 DEF FindTarget, Query
    <2>2. CASE Reject(c)
      BY <1>4, <2>1, <2>2
    <2>3. CASE ~Reject(c)
      <3>1. "SequelizeMeta" \in DOMAIN rows /\ above \in SUBSET Migrations /\ mig[c].build \in Versions
        BY <1>1, <1>6, <2>3, DbMigrationAssumption DEF FindTarget, Above, DbTyped, CallTyped
      <3>2. \A m \in Rows : Late(m, mig[c].build) => m \in above
        <4> SUFFICES ASSUME NEW m \in Rows, Late(m, mig[c].build) PROVE m \in above
          OBVIOUS
        <4>1. m \in Migrations /\ version[m] \in Versions
          BY <1>1, <3>1 DEF DbTyped, Rows, Late
        <4> QED
          BY <3>1, <4>1, CompareIsOrder DEF Above, Rows, Late
      <3>3. CASE Resolve(c) /\ (above = {} \/ config.paths = <<>>)
        <4>1. config.paths = <<>> => Files = {}
          BY <1>3 DEF Files
        <4> HIDE DEF above
        <4> QED
          BY <1>5, <2>1, <3>2, <3>3, <4>1
      <3>4. CASE above # {} /\ Go(c, [mig[c] EXCEPT !.pc = "downPath", !.target = First(above)])
        <4> DEFINE target == First(above)
                   s == [mig[c] EXCEPT !.pc = "downPath", !.target = target]
        <4>1. /\ s.pc = "downPath" /\ s.target = target /\ s.path = mig[c].path /\ s.build = mig[c].build
          BY <1>1 DEF IsState
        <4>2. target \in Nat /\ \A m \in above : m \in Nat /\ target <= m
          BY <3>1, <3>4, FirstIsLeast, MigrationNumbers
        <4>3. mig'[c] = s /\ \A d \in Calls \ {c} : mig'[d] = mig[d]
          BY <3>4 DEF Go, RollInv, TypeInv, DbInv
        <4> HIDE DEF s, target, above
        <4>4. mig[c].path = 1
          BY <1>1, <2>1 DEF RollOK
        <4>5. RollOK(mig[c])'
          BY <1>1, <1>3, <2>1, <3>1, <3>2, <4>1, <4>2, <4>3, <4>4 DEF RollOK, Late, Rows
        <4> QED
          BY <1>1, <4>1, <4>3, <4>5, RollMoves DEF Rolls
      <3> QED
        BY <1>6, <2>3, <3>3, <3>4 DEF FindTarget
    <2> QED
      BY <2>2, <2>3
  <1>7. config.model = "package" => Storage = "SequelizeMeta"
    BY DEF Storage
  <1>8. CASE StartDown(c)
    <2> DEFINE todo == Reverted(config.paths[mig[c].path], mig[c].target)
               s == [mig[c] EXCEPT !.pc = "down", !.todo = todo]
    <2>1. mig[c].pc = "downPath" /\ UNCHANGED rows /\ config.model = "package"
      BY <1>2, <1>8 DEF StartDown, Query
    <2>2. /\ "SequelizeMeta" \in DOMAIN rows /\ Recorded = Rows
          /\ mig[c].path \in 1..(Len(config.paths) + 1)
      BY <1>1, <1>7, <2>1 DEF RollOK, Recorded, Rows, CallTyped
    <2>3. CASE mig[c].path > Len(config.paths)
      <3>1. ASSUME NEW m \in Files \cap Rows PROVE ~Late(m, mig[c].build)
        <4>1. PICK i \in DOMAIN config.paths : m \in config.paths[i]
          BY <3>1 DEF Files
        <4>2. i \in 1..Len(config.paths) /\ i < mig[c].path
          BY <1>3, <2>2, <2>3
        <4> QED
          BY <1>1, <2>1, <3>1, <4>1, <4>2 DEF RollOK
      <3>2. Resolve(c)
        BY <1>8, <2>3 DEF StartDown
      <3> QED
        BY <1>5, <2>1, <3>1, <3>2
    <2>4. CASE ~(mig[c].path > Len(config.paths)) /\ Reject(c)
      BY <1>4, <2>1, <2>4
    <2>5. CASE ~(mig[c].path > Len(config.paths)) /\ Go(c, s)
      <3>1. s.pc = "down" /\ s.todo = todo /\ s.target = mig[c].target /\ s.path = mig[c].path /\ s.build = mig[c].build
        BY <1>1 DEF IsState
      <3>2. \A m \in config.paths[mig[c].path] \cap Rows : m >= mig[c].target => m \in todo
        BY <2>2 DEF Reverted
      <3>3. mig'[c] = s /\ \A d \in Calls \ {c} : mig'[d] = mig[d]
        BY <2>5 DEF Go, RollInv, TypeInv, DbInv
      <3> HIDE DEF s, todo
      <3>4. RollOK(mig[c])'
        BY <1>1, <2>1, <3>1, <3>2, <3>3 DEF RollOK, Late, Rows
      <3> QED
        BY <1>1, <3>1, <3>3, <3>4, RollMoves DEF Rolls
    <2> QED
      BY <1>8, <2>3, <2>4, <2>5 DEF StartDown
  <1>9. CASE Down(c)
    <2> DEFINE s == [mig[c] EXCEPT !.pc = "unlog"]
    <2>1. /\ mig[c].pc = "down" /\ UNCHANGED rows
          /\ mig'[c] = s /\ \A d \in Calls \ {c} : mig'[d] = mig[d]
      BY <1>9 DEF Down, Query, Go, RollInv, TypeInv, DbInv
    <2>2. s.pc = "unlog" /\ s.todo = mig[c].todo /\ s.target = mig[c].target /\ s.path = mig[c].path /\ s.build = mig[c].build
      BY <1>1 DEF IsState
    <2> HIDE DEF s
    <2>3. RollOK(mig[c])'
      BY <1>1, <2>1, <2>2 DEF RollOK, Late, Rows
    <2> QED
      BY <1>1, <2>1, <2>2, <2>3, RollMoves DEF Rolls
  <1>10. CASE Unlog(c)
    <2> DEFINE last == Last(mig[c].todo)
               rest == mig[c].todo \ {last}
    <2>1. mig[c].pc = "unlog" /\ config.model = "package" /\ Record(Recorded \ {last})
      BY <1>2, <1>10 DEF Unlog, Query
    <2>2. /\ "SequelizeMeta" \in DOMAIN rows /\ Recorded = Rows
          /\ mig[c].path \in 1..Len(config.paths) /\ Len(config.paths) \in Nat
      BY <1>1, <1>3, <1>7, <2>1 DEF RollOK, Recorded, Rows, CallTyped
    <2>3. "SequelizeMeta" \in DOMAIN rows' /\ Rows' = Rows \ {last}
      BY <1>7, <2>1, <2>2 DEF Record, Rows
    <2>4. \A m \in config.paths[mig[c].path] \cap Rows' : m >= mig[c].target => m \in rest
      BY <1>1, <2>1, <2>3 DEF RollOK
    <2>5. \A m \in Rows' : m \in Rows /\ (Late(m, mig[c].build) => m >= mig[c].target)
      BY <1>1, <2>1, <2>3 DEF RollOK
    <2> HIDE DEF last, rest
    <2>6. CASE rest = {} /\ Go(c, [NextPath(c) EXCEPT !.pc = "downPath"])
      <3> DEFINE s == [NextPath(c) EXCEPT !.pc = "downPath"]
      <3>1. s.pc = "downPath" /\ s.path = mig[c].path + 1 /\ s.target = mig[c].target /\ s.build = mig[c].build
        BY <1>1 DEF IsState, NextPath
      <3>2. mig'[c] = s /\ \A d \in Calls \ {c} : mig'[d] = mig[d]
        BY <2>6 DEF Go, RollInv, TypeInv, DbInv
      <3> HIDE DEF s
      <3>3. ASSUME NEW i \in 1..Len(config.paths), i < s.path, NEW m \in config.paths[i] \cap Rows'
            PROVE  ~(m >= s.target)
        <4>1. CASE i = mig[c].path
          BY <2>4, <2>6, <3>1, <3>3, <4>1
        <4>2. CASE i # mig[c].path
          <5>1. i < mig[c].path /\ m \in Rows
            BY <2>2, <2>5, <3>1, <3>3, <4>2
          <5> QED
            BY <1>1, <2>1, <3>1, <3>3, <5>1 DEF RollOK
        <4> QED
          BY <4>1, <4>2
      <3>4. \A m \in Rows' : Late(m, s.build) => m >= s.target
        BY <2>5, <3>1
      <3>5. RollOK(mig[c])'
        BY <1>1, <2>3, <3>1, <3>2, <3>3, <3>4 DEF RollOK, Late
      <3> QED
        BY <1>1, <3>1, <3>2, <3>5, RollMoves DEF Rolls
    <2>7. CASE rest # {} /\ Go(c, [mig[c] EXCEPT !.pc = "down", !.todo = rest])
      <3> DEFINE s == [mig[c] EXCEPT !.pc = "down", !.todo = rest]
      <3>1. s.pc = "down" /\ s.todo = rest /\ s.path = mig[c].path /\ s.target = mig[c].target /\ s.build = mig[c].build
        BY <1>1 DEF IsState
      <3>2. mig'[c] = s /\ \A d \in Calls \ {c} : mig'[d] = mig[d]
        BY <2>7 DEF Go, RollInv, TypeInv, DbInv
      <3> HIDE DEF s
      <3>3. \A i \in 1..Len(config.paths) : i < s.path => \A m \in config.paths[i] \cap Rows' : ~(m >= s.target)
        BY <1>1, <2>1, <2>5, <3>1 DEF RollOK
      <3>4. \A m \in Rows' : Late(m, s.build) => m >= s.target
        BY <2>5, <3>1
      <3>5. RollOK(mig[c])'
        BY <1>1, <2>3, <2>4, <3>1, <3>2, <3>3, <3>4 DEF RollOK, Late
      <3> QED
        BY <1>1, <3>1, <3>2, <3>5, RollMoves DEF Rolls
    <2> QED
      BY <1>10, <2>6, <2>7 DEF Unlog, last, rest
  <1> QED
    BY <1>6, <1>8, <1>9, <1>10

\* Every step.
LEMMA RollNext == RollInv /\ [Next]_vars => RollInv' /\ \A c \in Calls : Done(c)
  <1> SUFFICES ASSUME RollInv, [Next]_vars PROVE RollInv' /\ \A c \in Calls : Done(c)
    OBVIOUS
  <1>0. TypeInv'
    BY TypeNext DEF RollInv
  <1>1. CASE UNCHANGED vars \/ (ClientNext /\ UNCHANGED dbVars)
    <2>1. UNCHANGED <<config, rows, version, mig>>
      BY <1>1 DEF vars, dbVars
    <2> QED
      BY <1>0, <2>1, CallsStay
  <1>2. CASE Crash
    <2>1. UNCHANGED <<config, rows, version>> /\ \A c \in Calls : mig'[c] = mig[c] \/ mig'[c].pc = "idle"
      BY <1>2, IdleState DEF Crash
    <2> QED
      BY <1>0, <2>1, CallsStay
  <1>3. ASSUME NEW c \in Calls, Throws(c) PROVE RollInv' /\ \A d \in Calls : Done(d)
    <2>1. UNCHANGED <<config, rows, version>> /\ Reject(c)
      BY <1>3 DEF Throws
    <2>2. \A d \in Calls : mig'[d] = mig[d] \/ mig'[d].pc = "rejected"
      BY <2>1 DEF Reject, Go, RollInv, TypeInv, DbInv, Idle
    <2> QED
      BY <1>0, <2>1, <2>2, CallsStay
  <1>4. ASSUME NEW c \in Calls, FindTarget(c) \/ StartDown(c) \/ Down(c) \/ Unlog(c)
        PROVE  RollInv' /\ \A d \in Calls : Done(d)
    BY <1>0, <1>4, RollStepKeeps
  <1>5. ASSUME NEW c \in Calls,
               \/ RunPendingMigrations(c) \/ TablesRead(c) \/ CreateTable(c) \/ SelectLegacy(c)
               \/ InsertRows(c) \/ StartPath(c) \/ Up(c) \/ Log(c) \/ RollbackMigrations(c)
        PROVE  RollInv' /\ \A d \in Calls : Done(d)
    <2>1. \A d \in Calls : ~Rolls(mig[d])
      <3>1. \/ mig[c].pc \in {"tables", "create", "select", "insert", "path", "up", "log"}
            \/ \A d \in Calls : ~RollingBack(d)
        BY <1>5 DEF RunPendingMigrations, TablesRead, CreateTable, SelectLegacy, InsertRows, StartPath,
                    Up, Log, RollbackMigrations, Query, Settled, RollingBack
      <3> QED
        BY <3>1 DEF RollInv, TypeInv, DbInv, Exclusive, Rolls, Rests, RollingBack
    <2>2. Rolls(mig'[c]) => mig'[c].pc = "find" /\ mig'[c].path = 1
      <3>1. IsState(mig[c]) /\ mig = [d \in Calls |-> mig[d]] /\ IsState(Idle)
        BY IdleState DEF RollInv, TypeInv, DbInv
      <3>2. \A s : Go(c, s) => mig'[c] = s
        BY <3>1 DEF Go
      <3>3. CASE RunPendingMigrations(c) \/ TablesRead(c) \/ CreateTable(c)
        BY <3>2, <3>3 DEF RunPendingMigrations, TablesRead, CreateTable, Resolve, Reject, Idle, Rolls
      <3>4. CASE SelectLegacy(c) \/ InsertRows(c)
        BY <3>2, <3>4 DEF SelectLegacy, InsertRows, Reject, Idle, Rolls
      <3>5. CASE StartPath(c)
        BY <3>1, <3>2, <3>5 DEF StartPath, Resolve, Idle, Rolls, NextPath, IsState
      <3>6. CASE Up(c)
        BY <3>1, <3>2, <3>6 DEF Up, Reject, Idle, Rolls, IsState
      <3>7. CASE Log(c)
        BY <3>1, <3>2, <3>7 DEF Log, Reject, Idle, Rolls, NextPath, IsState
      <3>8. CASE RollbackMigrations(c)
        BY <3>2, <3>8 DEF RollbackMigrations, Idle
      <3> QED
        BY <1>5, <3>3, <3>4, <3>5, <3>6, <3>7, <3>8
    <2>3. \A d \in Calls : Rolls(mig'[d]) => mig'[d].pc = "find" /\ mig'[d].path = 1
      <3>1. \A d \in Calls \ {c} : mig'[d] = mig[d]
        BY <1>5 DEF RunPendingMigrations, TablesRead, CreateTable, SelectLegacy, InsertRows, StartPath,
                    Up, Log, RollbackMigrations, Resolve, Reject, Go, RollInv, TypeInv, DbInv
      <3> QED
        BY <2>1, <2>2, <3>1
    <2> QED
      BY <1>0, <2>1, <2>3, NoRoll
  <1> QED
    BY <1>1, <1>2, <1>3, <1>4, <1>5 DEF Next

\* When rollbackMigrations() resolves, no file of the directories is recorded
\* any more with a version after BUILD_ID (dbMigration.ts:155).  Those with the
\* version of BUILD_ID, which README.md:2279 says go too, stay.
THEOREM LaterAreRolledBack == Spec => LaterRolledBack
  <1>1. Init => RollInv
    <2>1. Init => \A c \in Calls : mig[c] = Idle
      BY DEF Init
    <2> QED
      BY <2>1, TypeInit, IdleState DEF RollInv, RollOK
  <1>2. RollInv /\ [Next]_vars => RollInv'
    BY RollNext
  <1>3. RollInv /\ [Next]_vars =>
          [\A c \in Calls :
             RollingBack(c) /\ mig'[c].pc = "resolved"
             => \A m \in Files \cap rows'["SequelizeMeta"] :
                  version[m] # Unversioned => ~Newer(version[m], mig[c].build)]_vars
    BY RollNext DEF Done
  <1> QED
    BY <1>1, <1>2, <1>3, PTL DEF Spec, LaterRolledBack

=============================================================================
