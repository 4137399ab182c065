------------------------ MODULE ElasticSearch_proofs ------------------------
(***************************************************************************)
(* Proofs about ElasticSearch for any number of processes and migrations:  *)
(* where no two file names share a term, an init() that resolved means     *)
(* that every migration of its deployment was carried out; and, for any    *)
(* names, what could be found as run is not run again.                     *)
(***************************************************************************)
EXTENDS ElasticSearch, TLAPS

Before(p, n) == \A i \in 1..n : i <= Len(Deployed[p]) => ran[Deployed[p][i]] > 0

\* Where a process is in the loop, and what was carried out by then.
LoopAt(p, c) ==
    /\ c.pc \in {"search", "run", "record"} =>
           c.at \in DOMAIN Deployed[p] /\ Before(p, c.at - 1)
    /\ c.pc = "record" => ran[Deployed[p][c.at]] > 0
    /\ c.pc \in {"ping", "exists"} => c.at = 1
    /\ c.pc = "ready" => Before(p, Len(Deployed[p]))

Calls == [pc : {"off", "ping", "ready", "failed", "closing"} \cup Migrating,
          at : Nat, indexExists : BOOLEAN]

Shape == /\ index \in BOOLEAN /\ visible \subseteq recorded /\ recorded \subseteq Files
         /\ ran \in [Files -> Nat] /\ call \in [Procs -> Calls]

\* Why: a document is written after its migration, and the loop only passes a
\* file it ran or found the document of.
MigratedInv == /\ Shape
               /\ \A f \in recorded : ran[f] > 0
               /\ \A p \in Procs : LoopAt(p, call[p])

NoSharedTerm == \A f \in Files : Alike[f] = {f}

-----------------------------------------------------------------------------
(* The loop of one process *)

\* Migrations are not undone.
LEMMA BeforeKept ==
    ASSUME NEW p \in Procs, NEW n \in Nat, Before(p, n),
           ran \in [Files -> Nat], ran' \in [Files -> Nat],
           \A f \in Files : ran'[f] >= ran[f]
    PROVE  Before(p, n)'
  <1>1. Deployed[p] \in Seq(Files)
    BY ElasticAssumption
  <1>2. \A i \in 1..n : i <= Len(Deployed[p]) => Deployed[p][i] \in Files
    BY <1>1
  <1> QED
    BY <1>2 DEF Before

\* What is true of a process's loop stays true while others run migrations.
LEMMA LoopKept ==
    ASSUME NEW p \in Procs, NEW c \in Calls, LoopAt(p, c),
           ran \in [Files -> Nat], ran' \in [Files -> Nat],
           \A f \in Files : ran'[f] >= ran[f]
    PROVE  LoopAt(p, c)'
  <1>1. Deployed[p] \in Seq(Files)
    BY ElasticAssumption
  <1>2. \A n \in Nat : Before(p, n) => Before(p, n)'
    BY BeforeKept
  <1>3. c.at - 1 \in Nat \/ c.at \notin DOMAIN Deployed[p]
    BY <1>1 DEF Calls
  <1> QED
    BY <1>1, <1>2, <1>3, SMTT(20) DEF LoopAt, Calls

\* A step of one process keeps the invariant if the process is where the loop
\* allows it to be, and documents only follow migrations.
LEMMA OneCallStep ==
    ASSUME MigratedInv, NEW p \in Procs, NEW c \in Calls,
           call' = [call EXCEPT ![p] = c], LoopAt(p, c)',
           index' \in BOOLEAN, visible' \subseteq recorded', recorded' \subseteq Files,
           ran' \in [Files -> Nat], \A f \in Files : ran'[f] >= ran[f],
           \A f \in recorded' : ran'[f] > 0
    PROVE  MigratedInv'
  <1>1. Shape'
    BY DEF MigratedInv, Shape
  <1>2. \A q \in Procs : LoopAt(q, call[q])'
    <2>1. TAKE q \in Procs
    <2>2. CASE q = p
      BY <2>2 DEF MigratedInv, Shape, LoopAt, Before
    <2>3. CASE q # p
      <3>1. PICK k \in Calls : k = call[q]
        BY DEF MigratedInv, Shape
      <3>2. call'[q] = k /\ LoopAt(q, k)
        BY <2>3, <3>1 DEF MigratedInv, Shape
      <3>3. LoopAt(q, k)'
        BY <3>2, LoopKept DEF MigratedInv, Shape
      <3> QED
        BY <3>2, <3>3 DEF LoopAt, Before
    <2> QED
      BY <2>2, <2>3
  <1> QED
    BY <1>1, <1>2 DEF MigratedInv

-----------------------------------------------------------------------------
(* Going on in the loop *)

\* A file that was carried out extends what is behind the loop.
LEMMA OneMoreBehind ==
    ASSUME NEW p \in Procs, NEW n \in DOMAIN Deployed[p],
           Before(p, n - 1), ran[Deployed[p][n]] > 0
    PROVE  Before(p, n)
  <1>1. Deployed[p] \in Seq(Files)
    BY ElasticAssumption
  <1> QED
    BY <1>1 DEF Before

\* Where Turn leaves a process whose files before r.at were carried out.
LEMMA TurnKeepsLoop ==
    ASSUME NEW p \in Procs, NEW r \in Calls, r.at >= 1, Before(p, r.at - 1),
           Turn(p, r), ran' = ran
    PROVE  \E c \in Calls : call' = [call EXCEPT ![p] = c] /\ LoopAt(p, c)'
  <1>1. Deployed[p] \in Seq(Files)
    BY ElasticAssumption
  <1>2. CASE r.at > Len(Deployed[p])
    <2> DEFINE c == [pc |-> "ready", at |-> 1, indexExists |-> FALSE]
    <2>1. c \in Calls /\ call' = [call EXCEPT ![p] = c]
      BY <1>2 DEF Turn, Off, Calls
    <2>2. Before(p, Len(Deployed[p]))'
      BY <1>1, <1>2 DEF Before, Calls
    <2>3. LoopAt(p, c)'
      BY <2>2 DEF LoopAt, Before
    <2> QED
      BY <2>1, <2>3
  <1>3. CASE ~(r.at > Len(Deployed[p]))
    <2> DEFINE c == [r EXCEPT !.pc = IF r.indexExists THEN "search" ELSE "run"]
    <2>1. c \in Calls /\ call' = [call EXCEPT ![p] = c]
      BY <1>3 DEF Turn, Calls, Migrating
    <2>2. c.at = r.at /\ c.pc \in {"search", "run"}
      BY DEF Calls
    <2>3. r.at \in DOMAIN Deployed[p]
      BY <1>1, <1>3 DEF Calls
    <2>4. LoopAt(p, c)'
      BY <2>2, <2>3 DEF LoopAt, Before
    <2> QED
      BY <2>1, <2>4
  <1> QED
    BY <1>2, <1>3

\* The same, for an action that passes a file which was carried out.
LEMMA PassKeepsLoop ==
    ASSUME MigratedInv, NEW p \in Procs, call[p].pc \in {"search", "record"},
           ran[Current(p)] > 0, ran' = ran,
           Turn(p, [call[p] EXCEPT !.at = @ + 1])
    PROVE  \E c \in Calls : call' = [call EXCEPT ![p] = c] /\ LoopAt(p, c)'
  <1> DEFINE r == [call[p] EXCEPT !.at = @ + 1]
  <1>1. call[p] \in Calls /\ LoopAt(p, call[p])
    BY DEF MigratedInv, Shape
  <1>2. r \in Calls /\ r.at = call[p].at + 1 /\ r.at - 1 = call[p].at /\ r.at >= 1
    BY <1>1 DEF Calls
  <1>3. call[p].at \in DOMAIN Deployed[p] /\ Before(p, call[p].at - 1)
    BY <1>1 DEF LoopAt
  <1>4. Before(p, r.at - 1)
    BY <1>2, <1>3, OneMoreBehind DEF Current
  <1> HIDE DEF r
  <1>5. Turn(p, r)
    BY DEF r
  <1> QED
    BY <1>2, <1>4, <1>5, TurnKeepsLoop

-----------------------------------------------------------------------------
(* The invariant *)

LEMMA MigratedInit == Init => MigratedInv
  <1> SUFFICES ASSUME Init PROVE MigratedInv
    OBVIOUS
  <1>1. Shape
    BY DEF Init, Shape, Calls, Off
  <1>2. \A p \in Procs : LoopAt(p, call[p])
    BY DEF Init, LoopAt, Off
  <1> QED
    BY <1>1, <1>2 DEF MigratedInv, Init

LEMMA MigratedStep ==
    ASSUME NoSharedTerm, MigratedInv, [Next]_vars
    PROVE  MigratedInv'
  <1> DEFINE Documented == /\ index' \in BOOLEAN /\ visible' \subseteq recorded'
                           /\ recorded' \subseteq Files
                           /\ ran' \in [Files -> Nat]
                           /\ \A f \in Files : ran'[f] >= ran[f]
                           /\ \A f \in recorded' : ran'[f] > 0
  <1>0. ASSUME UNCHANGED <<indexVars, ran>> PROVE Documented
    BY <1>0 DEF MigratedInv, Shape, indexVars
  <1>1. ASSUME NEW p \in Procs, Documented, NEW c \in Calls,
               call' = [call EXCEPT ![p] = c], LoopAt(p, c)'
        PROVE  MigratedInv'
    BY <1>1, OneCallStep
  <1>2. ASSUME UNCHANGED <<index, ran, call>>, visible' \subseteq recorded', recorded' = recorded
        PROVE  MigratedInv'
    <2>1. Shape' /\ \A f \in recorded' : ran'[f] > 0
      BY <1>2 DEF MigratedInv, Shape
    <2>2. \A p \in Procs : LoopAt(p, call[p])'
      BY <1>2 DEF MigratedInv, LoopAt, Before
    <2> QED
      BY <2>1, <2>2 DEF MigratedInv
  <1>3. ASSUME NEW p \in Procs, NEW c \in Calls, call' = [call EXCEPT ![p] = c],
               \/ c.pc \in {"off", "failed", "closing"}
               \/ c.pc \in {"ping", "exists"} /\ c.at = 1
        PROVE  LoopAt(p, c)'
    BY <1>3 DEF LoopAt
  <1>4. \A p \in Procs : call[p] \in Calls /\ LoopAt(p, call[p])
    BY DEF MigratedInv, Shape
  <1>5. ASSUME NEW p \in Procs, NEW s \in {"failed", "closing"},
               Goto(p, s), Documented
        PROVE  MigratedInv'
    <2>1. PICK c \in Calls : c.pc = s /\ call' = [call EXCEPT ![p] = c]
      BY <1>4, <1>5 DEF Calls, Goto
    <2>2. LoopAt(p, c)'
      BY <1>3, <2>1
    <2> QED
      BY <1>1, <1>5, <2>1, <2>2
  <1>6. ASSUME NEW p \in Procs, StartInit(p) PROVE MigratedInv'
    <2>1. PICK c \in Calls :
            c.pc = "ping" /\ c.at = 1 /\ call' = [call EXCEPT ![p] = c]
      BY <1>6 DEF Calls, Off, StartInit
    <2>2. UNCHANGED <<indexVars, ran>>
      BY <1>6 DEF StartInit
    <2> QED
      BY <1>0, <1>1, <1>3, <2>1, <2>2
  <1>7. ASSUME NEW p \in Procs, Ping(p) PROVE MigratedInv'
    <2>1. PICK c \in Calls :
            c.pc = "exists" /\ c.at = 1 /\ call' = [call EXCEPT ![p] = c]
      BY <1>4, <1>7 DEF Calls, Ping, LoopAt, Migrating, Goto
    <2>2. UNCHANGED <<indexVars, ran>>
      BY <1>7 DEF Ping
    <2> QED
      BY <1>0, <1>1, <1>3, <2>1, <2>2
  <1>8. ASSUME NEW p \in Procs, CheckIndex(p) PROVE MigratedInv'
    <2>1. UNCHANGED <<indexVars, ran>>
      BY <1>8 DEF CheckIndex
    <2>2. PICK r \in Calls : r.at = 1 /\ Turn(p, r)
      <3> DEFINE r == [call[p] EXCEPT !.indexExists = index]
      <3>1. r \in Calls /\ r.at = 1
        BY <1>4, <1>8 DEF CheckIndex, LoopAt, Calls, MigratedInv, Shape
      <3>2. Turn(p, r)
        BY <1>8 DEF CheckIndex
      <3> QED
        BY <3>1, <3>2
    <2>3. Before(p, r.at - 1)
      BY <2>2 DEF Before
    <2>4. PICK c \in Calls : call' = [call EXCEPT ![p] = c] /\ LoopAt(p, c)'
      BY <2>1, <2>2, <2>3, TurnKeepsLoop
    <2> QED
      BY <1>0, <1>1, <2>1, <2>4
  <1>9. ASSUME NEW p \in Procs, call[p].pc = "search" \/ call[p].pc = "record"
        PROVE  /\ Current(p) \in Files
               /\ call[p].at \in DOMAIN Deployed[p] /\ Before(p, call[p].at - 1)
    <2>1. Deployed[p] \in Seq(Files)
      BY ElasticAssumption
    <2> QED
      BY <1>4, <1>9, <2>1 DEF LoopAt, Current
  <1>10. ASSUME NEW p \in Procs, Search(p) PROVE MigratedInv'
    <2>1. UNCHANGED <<indexVars, ran>> /\ call[p].pc = "search"
      BY <1>10 DEF Search
    <2>2. CASE Alike[Current(p)] \cap visible # {}
      <3>1. ran[Current(p)] > 0
        BY <1>9, <2>1, <2>2 DEF NoSharedTerm, MigratedInv, Shape
      <3>2. PICK c \in Calls : call' = [call EXCEPT ![p] = c] /\ LoopAt(p, c)'
        BY <1>10, <2>1, <2>2, <3>1, PassKeepsLoop DEF Search
      <3> QED
        BY <1>0, <1>1, <2>1, <3>2
    <2>3. CASE ~(Alike[Current(p)] \cap visible # {})
      <3>1. PICK c \in Calls :
              c.pc = "run" /\ c.at = call[p].at /\ call' = [call EXCEPT ![p] = c]
        BY <1>4, <1>10, <2>3 DEF Search, Goto, Calls, Migrating
      <3>2. LoopAt(p, c)'
        BY <1>9, <2>1, <3>1 DEF LoopAt, Before
      <3> QED
        BY <1>0, <1>1, <2>1, <3>1, <3>2
    <2> QED
      BY <2>2, <2>3
  <1>11. ASSUME NEW p \in Procs, RunMigration(p) PROVE MigratedInv'
    <2>1. Deployed[p] \in Seq(Files)
      BY ElasticAssumption
    <2>2. /\ call[p].pc = "run" /\ call[p].at \in DOMAIN Deployed[p]
          /\ Before(p, call[p].at - 1) /\ Current(p) \in Files
      BY <1>4, <1>11, <2>1 DEF RunMigration, LoopAt, Current
    <2>3. /\ UNCHANGED indexVars
          /\ ran' = [ran EXCEPT ![Current(p)] = @ + 1]
          /\ Goto(p, "record")
      BY <1>11 DEF RunMigration
    <2>4. /\ ran' \in [Files -> Nat] /\ ran'[Current(p)] > 0
          /\ \A f \in Files : ran'[f] >= ran[f]
      BY <2>2, <2>3 DEF MigratedInv, Shape
    <2>5. Documented
      BY <2>3, <2>4 DEF MigratedInv, Shape, indexVars
    <2>6. PICK c \in Calls :
            c.pc = "record" /\ c.at = call[p].at /\ call' = [call EXCEPT ![p] = c]
      BY <1>4, <2>3 DEF Goto, Calls, Migrating
    <2>7. Before(p, c.at - 1)'
      <3>1. c.at - 1 \in Nat
        BY <2>1, <2>2, <2>6
      <3> QED
        BY <2>2, <2>4, <2>6, <3>1, BeforeKept DEF MigratedInv, Shape
    <2>8. LoopAt(p, c)'
      BY <2>2, <2>4, <2>6, <2>7 DEF LoopAt, Current, Before
    <2> QED
      BY <1>1, <2>5, <2>6, <2>8
  <1>12. ASSUME NEW p \in Procs, call[p].pc = "record", Document(Current(p)), ran' = ran
         PROVE  Documented /\ ran[Current(p)] > 0
    <2>1. ran[Current(p)] > 0
      BY <1>4, <1>12 DEF LoopAt, Current
    <2> QED
      BY <1>9, <1>12, <2>1 DEF Document, MigratedInv, Shape
  <1>13. ASSUME NEW p \in Procs, Record(p) PROVE MigratedInv'
    <2>1. /\ call[p].pc = "record" /\ Document(Current(p)) /\ ran' = ran
          /\ Turn(p, [call[p] EXCEPT !.at = @ + 1])
      BY <1>13 DEF Record
    <2>2. Documented /\ ran[Current(p)] > 0
      BY <1>12, <2>1
    <2>3. PICK c \in Calls : call' = [call EXCEPT ![p] = c] /\ LoopAt(p, c)'
      BY <2>1, <2>2, PassKeepsLoop
    <2> QED
      BY <1>1, <2>2, <2>3
  <1>14. ASSUME NEW p \in Procs, MigrationFails(p) PROVE MigratedInv'
    BY <1>0, <1>5, <1>14 DEF MigrationFails
  <1>15. ASSUME NEW p \in Procs, RequestFails(p) PROVE MigratedInv'
    <2>1. Goto(p, "failed") /\ ran' = ran
      BY <1>15 DEF RequestFails
    <2>2. CASE UNCHANGED indexVars
      BY <1>0, <1>5, <2>1, <2>2
    <2>3. CASE call[p].pc = "record" /\ Document(Current(p))
      BY <1>5, <1>12, <2>1, <2>3
    <2> QED
      BY <1>15, <2>2, <2>3 DEF RequestFails
  <1>16. ASSUME NEW p \in Procs, StartShutdown(p) PROVE MigratedInv'
    BY <1>0, <1>5, <1>16 DEF StartShutdown
  <1>17. ASSUME NEW p \in Procs, Closed(p) \/ Crash(p) PROVE MigratedInv'
    <2>1. PICK c \in Calls : c.pc = "off" /\ call' = [call EXCEPT ![p] = c]
      BY <1>17 DEF Off, Calls, Closed, Crash
    <2>2. UNCHANGED <<indexVars, ran>>
      BY <1>17 DEF Closed, Crash
    <2> QED
      BY <1>0, <1>1, <1>3, <2>1, <2>2
  <1>18. ASSUME Refresh PROVE MigratedInv'
    BY <1>2, <1>18 DEF Refresh, procVars
  <1>19. ASSUME UNCHANGED vars PROVE MigratedInv'
    BY <1>2, <1>19 DEF vars, indexVars, MigratedInv, Shape
  <1> QED
    BY <1>6, <1>7, <1>8, <1>10, <1>11, <1>13, <1>14, <1>15, <1>16, <1>17, <1>18, <1>19
       DEF Next, InitStep

\* MigratedInv says where the loop is; the properties read it off.
LEMMA MigratedInvImplies == MigratedInv => InitMeansMigrated /\ InOrder
  <1> SUFFICES ASSUME MigratedInv PROVE InitMeansMigrated /\ InOrder
    OBVIOUS
  <1>1. \A p \in Procs : Deployed[p] \in Seq(Files)
    BY ElasticAssumption
  <1>2. \A p \in Procs : call[p] \in Calls /\ LoopAt(p, call[p])
    BY DEF MigratedInv, Shape
  <1>3. InitMeansMigrated
    BY <1>1, <1>2 DEF InitMeansMigrated, LoopAt, Before
  <1>4. InOrder
    BY <1>1, <1>2 DEF InOrder, LoopAt, Before, Calls
  <1> QED
    BY <1>3, <1>4

\* Where no two file names share a term, a process whose init() resolved finds
\* every migration of its deployment carried out, and each ran after all before
\* it, for any number of processes, versions, failures and crashes.
THEOREM ResolvedMeansMigrated ==
    ASSUME NoSharedTerm
    PROVE  Spec => [](InitMeansMigrated /\ InOrder)
  <1>1. MigratedInv /\ [Next]_vars => MigratedInv'
    BY MigratedStep
  <1> QED
    BY MigratedInit, <1>1, MigratedInvImplies, PTL DEF Spec

-----------------------------------------------------------------------------
(* Types, and what a process need not run again: for any file names *)

\* What init() could find when it was called, it has not decided to run: seen is
\* what was visible, and where the index was missing nothing was.
Unseen(p, c) ==
    /\ seen[p] \subseteq visible
    /\ c.pc = "search" => c.indexExists
    /\ c.pc \in {"run", "record"} /\ ~c.indexExists => seen[p] = {}
    /\ c.pc = "run" => Deployed[p][c.at] \notin seen[p]

ElasticInv == /\ TypeOK
              /\ \A p \in Procs : call[p].at >= 1 /\ Unseen(p, call[p])

\* The step of one process: the others do not see it, and documents stay.
LEMMA OneProcess ==
    ASSUME ElasticInv, NEW p \in Procs, NEW c \in Calls, call' = [call EXCEPT ![p] = c],
           c.at >= 1, Unseen(p, call[p])',
           c.pc \in {"search", "run", "record"} => c.at \in DOMAIN Deployed[p],
           c.pc # "off" => client'[p] # "none",
           registered'[p] => c.pc \in {"ready", "closing"},
           \/ UNCHANGED indexVars
           \/ index' = TRUE /\ visible' = visible /\ \E f \in Files : recorded' = recorded \cup {f},
           ran' \in [Files -> Nat], client' \in [Procs -> {"none", "open", "closing"}],
           registered' \in [Procs -> BOOLEAN], inits' \in [Procs -> 0..MaxInits],
           seen' \in [Procs -> SUBSET Files], faults' \in 0..MaxFaults,
           \A q \in Procs \ {p} : client'[q] = client[q] /\ registered'[q] = registered[q] /\ seen'[q] = seen[q]
    PROVE  ElasticInv'
  <1>1. call' \in [Procs -> Calls] /\ \A q \in Procs : call'[q] = IF q = p THEN c ELSE call[q]
    BY DEF ElasticInv, TypeOK, Calls
  <1>2. /\ index' \in BOOLEAN /\ visible' \subseteq recorded' /\ recorded' \subseteq Files
        /\ (index' <=> recorded' # {}) /\ visible' = visible
    <2>1. CASE UNCHANGED indexVars
      BY <2>1 DEF ElasticInv, TypeOK, indexVars
    <2>2. CASE index' = TRUE /\ visible' = visible /\ \E f \in Files : recorded' = recorded \cup {f}
      <3>1. visible \subseteq recorded /\ recorded \subseteq Files
        BY DEF ElasticInv, TypeOK
      <3>2. recorded' # {} /\ index' = TRUE
        BY <2>2
      <3> QED
        BY <2>2, <3>1, <3>2
    <2> QED
      BY <2>1, <2>2
  <1>3. \A q \in Procs : call'[q].at >= 1 /\ Unseen(q, call[q])'
    BY <1>1, <1>2 DEF ElasticInv, Unseen
  <1>4. \A q \in Procs :
          /\ call'[q].pc \in {"search", "run", "record"} => call'[q].at \in DOMAIN Deployed[q]
          /\ call'[q].pc # "off" => client'[q] # "none"
          /\ registered'[q] => call'[q].pc \in {"ready", "closing"}
    BY <1>1 DEF ElasticInv, TypeOK
  <1> QED
    BY <1>1, <1>2, <1>3, <1>4 DEF ElasticInv, TypeOK, Calls

\* Where the loop leaves a process that goes on with r.
LEMMA TurnUnseen ==
    ASSUME ElasticInv, NEW p \in Procs, NEW r \in Calls, r.at >= 1, Turn(p, r), call[p].pc \in {"exists", "search", "record"},
           ~r.indexExists => seen[p] = {},
           \/ UNCHANGED indexVars
           \/ index' = TRUE /\ visible' = visible /\ \E f \in Files : recorded' = recorded \cup {f},
           UNCHANGED <<ran, client, inits, seen, faults>>
    PROVE  ElasticInv'
  <1>1. /\ Deployed[p] \in Seq(Files) /\ visible' = visible /\ seen[p] \subseteq visible
        /\ client[p] # "none" /\ registered \in [Procs -> BOOLEAN]
    BY ElasticAssumption DEF ElasticInv, TypeOK, Unseen, indexVars
  <1>2. CASE r.at > Len(Deployed[p])
    <2> DEFINE c == [Off EXCEPT !.pc = "ready"]
    <2>1. c \in Calls /\ c.pc = "ready" /\ c.at = 1 /\ c.at >= 1
      <3>1. c \in Calls /\ c.pc = "ready" /\ c.at = 1
        BY DEF Off, Calls
      <3> HIDE DEF c
      <3> QED
        BY <3>1
    <2>2. call' = [call EXCEPT ![p] = c] /\ registered' = [registered EXCEPT ![p] = TRUE]
      BY <1>2 DEF Turn
    <2> HIDE DEF c
    <2>3. Unseen(p, call[p])'
      BY <1>1, <2>1, <2>2 DEF Unseen, ElasticInv, TypeOK
    <2>4. registered' \in [Procs -> BOOLEAN] /\ \A q \in Procs \ {p} : registered'[q] = registered[q]
      BY <1>1, <2>2
    <2>5. /\ ran' \in [Files -> Nat] /\ client' \in [Procs -> {"none", "open", "closing"}]
          /\ inits' \in [Procs -> 0..MaxInits] /\ seen' \in [Procs -> SUBSET Files] /\ faults' \in 0..MaxFaults
          /\ client'[p] # "none" /\ \A q \in Procs \ {p} : client'[q] = client[q] /\ seen'[q] = seen[q]
      BY <1>1 DEF ElasticInv, TypeOK
    <2> QED
      BY <2>1, <2>2, <2>3, <2>4, <2>5, OneProcess
  <1>3. CASE ~(r.at > Len(Deployed[p]))
    <2> DEFINE c == [r EXCEPT !.pc = IF r.indexExists THEN "search" ELSE "run"]
    <2>1. /\ c \in Calls /\ c.at = r.at /\ c.indexExists = r.indexExists
          /\ c.pc = IF r.indexExists THEN "search" ELSE "run"
      BY DEF Calls, Migrating
    <2>2. call' = [call EXCEPT ![p] = c] /\ registered' = registered
      BY <1>3 DEF Turn
    <2> HIDE DEF c
    <2>3. r.at \in DOMAIN Deployed[p]
      BY <1>1, <1>3 DEF Calls
    <2>4. Unseen(p, call[p])'
      BY <1>1, <2>1, <2>2 DEF Unseen, ElasticInv, TypeOK
    <2>5. ~registered[p]
      BY DEF ElasticInv, TypeOK
    <2> QED
      BY <1>1, <2>1, <2>2, <2>3, <2>4, <2>5, OneProcess DEF ElasticInv, TypeOK
  <1> QED
    BY <1>2, <1>3

\* What a process that moves is, in any case.
LEMMA ProcessFacts ==
    ASSUME ElasticInv, NEW p \in Procs
    PROVE  /\ call[p] \in Calls /\ call[p].at >= 1 /\ Unseen(p, call[p])
           /\ call[p].pc \in {"search", "run", "record"} => call[p].at \in DOMAIN Deployed[p] /\ Current(p) \in Files
           /\ call[p].pc # "off" => client[p] # "none"
           /\ registered[p] => call[p].pc \in {"ready", "closing"}
           /\ \A pc : LET c == [call[p] EXCEPT !.pc = pc]
                      IN  /\ c.pc = pc /\ c.at = call[p].at /\ c.indexExists = call[p].indexExists
                          /\ pc \in {"failed", "closing", "off", "ready"} \cup Migrating => c \in Calls
  <1>1. Deployed[p] \in Seq(Files)
    BY ElasticAssumption
  <1>2. call[p] \in Calls /\ call[p].at >= 1 /\ Unseen(p, call[p])
    BY DEF ElasticInv, TypeOK, Calls
  <1>3. call[p].pc \in {"search", "run", "record"} => call[p].at \in DOMAIN Deployed[p] /\ Current(p) \in Files
    BY <1>1 DEF ElasticInv, TypeOK, Current
  <1>4. /\ call[p].pc # "off" => client[p] # "none"
        /\ registered[p] => call[p].pc \in {"ready", "closing"}
    BY DEF ElasticInv, TypeOK
  <1>5. ASSUME NEW pc
        PROVE  LET c == [call[p] EXCEPT !.pc = pc]
               IN  /\ c.pc = pc /\ c.at = call[p].at /\ c.indexExists = call[p].indexExists
                   /\ pc \in {"failed", "closing", "off", "ready"} \cup Migrating => c \in Calls
    BY <1>2 DEF Calls
  <1> QED
    BY <1>2, <1>3, <1>4, <1>5

\* A request that is answered, and a migration that ends, while the process
\* stays in init() and is not registered yet.
LEMMA InitStepTyped ==
    ASSUME ElasticInv, NEW p \in Procs, InitStep(p)
    PROVE  ElasticInv'
  <1>1. /\ call[p] \in Calls /\ call[p].at >= 1 /\ Unseen(p, call[p])
        /\ call[p].pc \in {"search", "run", "record"} => call[p].at \in DOMAIN Deployed[p] /\ Current(p) \in Files
        /\ call[p].pc # "off" => client[p] # "none"
        /\ registered[p] => call[p].pc \in {"ready", "closing"}
    BY ProcessFacts
  <1>2. /\ ran \in [Files -> Nat] /\ client \in [Procs -> {"none", "open", "closing"}]
        /\ registered \in [Procs -> BOOLEAN] /\ inits \in [Procs -> 0..MaxInits]
        /\ seen \in [Procs -> SUBSET Files] /\ faults \in 0..MaxFaults
    BY DEF ElasticInv, TypeOK
  <1>3. ASSUME NEW pc \in {"exists", "run", "record", "failed"}, Goto(p, pc),
               UNCHANGED <<client, registered, inits, seen>>, call[p].pc \in Migrating \cup {"ping"},
               pc = "record" => call[p].pc = "run",
               pc = "run" => call[p].pc = "search" /\ Current(p) \notin visible,
               \/ UNCHANGED indexVars
               \/ index' = TRUE /\ visible' = visible /\ \E f \in Files : recorded' = recorded \cup {f},
               ran' \in [Files -> Nat], faults' \in 0..MaxFaults
        PROVE  ElasticInv'
    <2> DEFINE c == [call[p] EXCEPT !.pc = pc]
    <2>1. c \in Calls /\ c.pc = pc /\ c.at = call[p].at /\ c.indexExists = call[p].indexExists
      BY ProcessFacts DEF Migrating
    <2>2. call' = [call EXCEPT ![p] = c]
      BY <1>3 DEF Goto, ElasticInv, TypeOK
    <2> HIDE DEF c
    <2>3. visible' = visible
      BY <1>3 DEF indexVars
    <2>4. Unseen(p, call[p])'
      BY <1>1, <1>3, <2>1, <2>2, <2>3 DEF Unseen, Current, ElasticInv, TypeOK
    <2>5. ~registered[p] /\ client[p] # "none"
      BY <1>1, <1>3 DEF Migrating
    <2>6. pc \in {"run", "record"} => call[p].at \in DOMAIN Deployed[p]
      BY <1>1, <1>3
    <2> QED
      BY <1>1, <1>2, <1>3, <2>1, <2>2, <2>4, <2>5, <2>6, OneProcess
  <1>4. MayFail => faults' \in 0..MaxFaults
    BY <1>2, ElasticAssumption DEF MayFail
  <1>5. ASSUME Document(Current(p)), call[p].pc = "record"
        PROVE  index' = TRUE /\ visible' = visible /\ \E f \in Files : recorded' = recorded \cup {f}
    BY <1>1, <1>5 DEF Document
  <1>6. CASE Ping(p)
    BY <1>2, <1>3, <1>6 DEF Ping, procVars
  <1>7. CASE CheckIndex(p)
    <2> DEFINE r == [call[p] EXCEPT !.indexExists = index]
    <2>1. r \in Calls /\ r.at = call[p].at /\ r.indexExists = index
      BY <1>1 DEF Calls, ElasticInv, TypeOK
    <2>2. ~index => seen[p] = {}
      BY <1>1 DEF ElasticInv, TypeOK, Unseen
    <2>3. Turn(p, r) /\ call[p].pc = "exists" /\ UNCHANGED <<indexVars, ran, client, inits, seen, faults>>
      BY <1>7 DEF CheckIndex
    <2> HIDE DEF r
    <2> QED
      BY <1>1, <2>1, <2>2, <2>3, TurnUnseen
  <1>8. ASSUME NEW r, r = [call[p] EXCEPT !.at = @ + 1], call[p].pc \in {"search", "record"}
        PROVE  r \in Calls /\ r.at >= 1 /\ (~r.indexExists => seen[p] = {})
    BY <1>1, <1>8 DEF Calls, Unseen
  <1>9. CASE Search(p)
    <2>1. call[p].pc = "search" /\ UNCHANGED <<indexVars, ran, client, inits, seen, faults>>
      BY <1>9 DEF Search
    <2>2. CASE Alike[Current(p)] \cap visible # {}
      BY <1>8, <1>9, <2>1, <2>2, TurnUnseen DEF Search
    <2>3. CASE Alike[Current(p)] \cap visible = {}
      <3>1. Current(p) \notin visible
        BY <1>1, <2>1, <2>3, ElasticAssumption
      <3> QED
        BY <1>2, <1>3, <1>9, <2>1, <2>3, <3>1 DEF Search, Migrating
    <2> QED
      BY <2>2, <2>3
  <1>10. CASE RunMigration(p)
    <2>1. ran' \in [Files -> Nat]
      BY <1>1, <1>2, <1>10 DEF RunMigration
    <2> QED
      BY <1>2, <1>3, <1>10, <2>1 DEF RunMigration, Migrating, procVars
  <1>11. CASE Record(p)
    <2>1. call[p].pc = "record" /\ Document(Current(p)) /\ UNCHANGED <<ran, client, inits, seen, faults>>
      BY <1>11 DEF Record
    <2> QED
      BY <1>5, <1>8, <1>11, <2>1, TurnUnseen DEF Record
  <1>12. CASE MigrationFails(p)
    BY <1>2, <1>3, <1>4, <1>12 DEF MigrationFails, Migrating, procVars
  <1>13. CASE RequestFails(p)
    BY <1>2, <1>3, <1>4, <1>5, <1>13 DEF RequestFails, Migrating, procVars
  <1> QED
    BY <1>6, <1>7, <1>9, <1>10, <1>11, <1>12, <1>13 DEF InitStep

\* Every step.
LEMMA ElasticNext == ElasticInv /\ [Next]_vars => ElasticInv'
  <1> SUFFICES ASSUME ElasticInv, [Next]_vars PROVE ElasticInv'
    OBVIOUS
  <1>1. /\ ran \in [Files -> Nat] /\ client \in [Procs -> {"none", "open", "closing"}]
        /\ registered \in [Procs -> BOOLEAN] /\ inits \in [Procs -> 0..MaxInits]
        /\ seen \in [Procs -> SUBSET Files] /\ faults \in 0..MaxFaults
        /\ visible \subseteq Files
    BY DEF ElasticInv, TypeOK
  <1>2. ASSUME NEW p \in Procs, StartInit(p) PROVE ElasticInv'
    <2> DEFINE c == [Off EXCEPT !.pc = "ping"]
    <2>1. c \in Calls /\ c.pc = "ping" /\ c.at = 1 /\ c.at >= 1
      <3>1. c \in Calls /\ c.pc = "ping" /\ c.at = 1
        BY DEF Off, Calls
      <3> HIDE DEF c
      <3> QED
        BY <3>1
    <2>2. /\ call' = [call EXCEPT ![p] = c] /\ client' = [client EXCEPT ![p] = "open"]
          /\ inits' = [inits EXCEPT ![p] = @ + 1] /\ inits[p] < MaxInits
          /\ seen' = [seen EXCEPT ![p] = visible] /\ UNCHANGED <<indexVars, ran, registered, faults>>
          /\ call[p].pc \in {"off", "failed"}
      BY <1>2 DEF StartInit
    <2> HIDE DEF c
    <2>3. Unseen(p, call[p])' /\ ~registered[p]
      BY <1>1, <2>1, <2>2, ProcessFacts DEF Unseen, indexVars, ElasticInv, TypeOK
    <2>4. inits' \in [Procs -> 0..MaxInits] /\ seen' \in [Procs -> SUBSET Files]
      BY <1>1, <2>2, ElasticAssumption
    <2>5. /\ client' \in [Procs -> {"none", "open", "closing"}] /\ client'[p] # "none"
          /\ \A q \in Procs \ {p} : client'[q] = client[q] /\ registered'[q] = registered[q] /\ seen'[q] = seen[q]
      BY <1>1, <2>2
    <2>6. ~registered'[p]
      BY <2>2, <2>3
    <2> QED
      BY <1>1, <2>1, <2>2, <2>3, <2>4, <2>5, <2>6, OneProcess
  <1>3. ASSUME NEW p \in Procs, StartShutdown(p) PROVE ElasticInv'
    <2> DEFINE c == [call[p] EXCEPT !.pc = "closing"]
    <2>1. c \in Calls /\ c.pc = "closing" /\ c.at = call[p].at /\ call[p].at >= 1 /\ Unseen(p, call[p])
      BY ProcessFacts
    <2>2. /\ call' = [call EXCEPT ![p] = c] /\ client' = [client EXCEPT ![p] = "closing"]
          /\ UNCHANGED <<indexVars, ran, registered, inits, seen, faults>>
      BY <1>3 DEF StartShutdown, Goto, ElasticInv, TypeOK
    <2> HIDE DEF c
    <2>3. Unseen(p, call[p])'
      BY <2>1, <2>2 DEF Unseen, indexVars, ElasticInv, TypeOK
    <2> QED
      BY <1>1, <2>1, <2>2, <2>3, OneProcess
  <1>4. ASSUME NEW p \in Procs, Closed(p) \/ Crash(p) PROVE ElasticInv'
    <2>1. Off \in Calls /\ Off.pc = "off" /\ Off.at = 1 /\ Off.at >= 1
      BY DEF Off, Calls
    <2>2. /\ call' = [call EXCEPT ![p] = Off] /\ client' = [client EXCEPT ![p] = "none"]
          /\ registered' = [registered EXCEPT ![p] = FALSE] /\ UNCHANGED <<indexVars, ran, inits, seen>>
          /\ faults' \in 0..MaxFaults
      BY <1>1, <1>4, ElasticAssumption DEF Closed, Crash, MayFail
    <2>3. Unseen(p, call[p])'
      BY <2>1, <2>2, ProcessFacts DEF Unseen, indexVars, ElasticInv, TypeOK
    <2>4. /\ client' \in [Procs -> {"none", "open", "closing"}] /\ registered' \in [Procs -> BOOLEAN]
          /\ ~registered'[p]
          /\ \A q \in Procs \ {p} : client'[q] = client[q] /\ registered'[q] = registered[q] /\ seen'[q] = seen[q]
      BY <1>1, <2>2
    <2> QED
      BY <1>1, <2>1, <2>2, <2>3, <2>4, OneProcess
  <1>5. CASE Refresh
    <2>1. /\ visible \subseteq visible' /\ visible' = recorded
          /\ UNCHANGED <<index, recorded, ran, client, registered, inits, seen, call, faults>>
      BY <1>5 DEF Refresh, procVars, ElasticInv, TypeOK
    <2>2. \A p \in Procs : Unseen(p, call[p])'
      BY <2>1 DEF ElasticInv, Unseen
    <2> QED
      BY <2>1, <2>2 DEF ElasticInv, TypeOK
  <1>6. CASE UNCHANGED vars
    <2>1. UNCHANGED <<index, recorded, visible, ran, client, registered, inits, seen, call, faults>>
      BY <1>6 DEF vars, indexVars, procVars
    <2>2. \A p \in Procs : Unseen(p, call[p])'
      BY <2>1 DEF ElasticInv, Unseen
    <2> QED
      BY <2>1, <2>2 DEF ElasticInv, TypeOK
  <1> QED
    BY <1>2, <1>3, <1>4, <1>5, <1>6, InitStepTyped DEF Next

\* At the start every process is off and the index is missing.
LEMMA ElasticInit == Init => ElasticInv
  <1> SUFFICES ASSUME Init PROVE ElasticInv
    OBVIOUS
  <1>1. Off \in Calls /\ Off.pc = "off" /\ Off.at = 1 /\ Off.at >= 1
    BY DEF Off, Calls
  <1>2. TypeOK
    <2>1. index \in BOOLEAN /\ (index <=> recorded # {})
      BY DEF Init
    <2>2. client \in [Procs -> {"none", "open", "closing"}] /\ registered \in [Procs -> BOOLEAN]
      BY DEF Init
    <2>3. inits \in [Procs -> 0..MaxInits] /\ seen \in [Procs -> SUBSET Files] /\ faults \in 0..MaxFaults
      BY ElasticAssumption DEF Init
    <2>4. /\ call \in [Procs -> Calls] /\ visible \subseteq recorded /\ recorded \subseteq Files
          /\ ran \in [Files -> Nat]
      BY <1>1 DEF Init
    <2>5. \A p \in Procs : call[p].pc = "off" /\ ~registered[p]
      BY <1>1 DEF Init
    <2> QED
      BY <2>1, <2>2, <2>3, <2>4, <2>5 DEF TypeOK, Calls
  <1> QED
    BY <1>1, <1>2 DEF Init, ElasticInv, Unseen

\* Every state of the processes and of the index is well typed: a process in its
\* loop is at a file of its deployment, with a client, and registered only when
\* its init() has resolved (ElasticSearch.ts:133).
THEOREM TypeCorrect == Spec => []TypeOK
  <1>1. ElasticInv => TypeOK
    BY DEF ElasticInv
  <1> QED
    BY ElasticInit, ElasticNext, <1>1, PTL DEF Spec

\* What a process could find as run when init() was called it does not run again,
\* whatever other processes write, run and find meanwhile, and whatever the names
\* of the files (ElasticSearch.ts:144).  This is less than README.md:1320 says.
THEOREM FoundIsNotRunAgain == Spec => NotAgain
  <1>1. ElasticInv /\ [Next]_vars =>
          [\A p \in Procs : call[p].pc = "run" /\ call'[p].pc = "record" => Current(p) \notin seen[p]]_vars
    BY DEF ElasticInv, Unseen, Current
  <1> QED
    BY ElasticInit, ElasticNext, <1>1, PTL DEF Spec, NotAgain
=============================================================================
