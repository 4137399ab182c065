--------------------------- MODULE MultiPartUpload ---------------------------
(***************************************************************************)
(* One upload session of multiPartFileUploader.ts: requests that each      *)
(* bring a chunk, the session folder on disk, the merge into the final     *)
(* file, and a process that may crash and start over with what the disk    *)
(* holds.                                                                  *)
(*                                                                         *)
(* One action is one file system operation with the code up to the next.   *)
(* A request that multer, the validator or the field and size checks turn  *)
(* away touches nothing and is left out.  fs.remove of a folder counts as  *)
(* one step; the open of the final file is carried out before the reads    *)
(* that are queued behind it.  The client is external: it has at most      *)
(* MaxInFlight requests under way, and a careful one sends a chunk whose   *)
(* request was not answered well again before any other.                   *)
(***************************************************************************)
EXTENDS Naturals, FiniteSets

CONSTANTS
    Requests,     \* bound: requests handled at once
    TotalChunks,  \* totalChunks, the same in every request of the session
    Indices,      \* the chunkIndex values the client sends
    MaxInFlight,  \* requests the client has under way at once
    Careful,      \* does the client send unanswered chunks again first
    MaxDiskFaults \* bound: crashes and failing writes

Chunks == 0..(TotalChunks - 1)

ASSUME UploadAssumption ==
    /\ IsFiniteSet(Requests) /\ TotalChunks \in Nat \ {0}
    /\ MaxInFlight \in Nat /\ MaxDiskFaults \in Nat
    /\ Chunks \subseteq Indices /\ Indices \subseteq Nat
    /\ Careful \in BOOLEAN

VARIABLES
    folder,    \* does the session folder exist
    part,      \* the part files in it
    final,     \* the merged file
    req,       \* where each request is
    removing,  \* parts whose fs.remove is under way, awaited by nobody
    dropping,  \* the same of the folder, after a merge that failed
    unsure,    \* chunks the client has no good answer for since it sent them
    diskFaults

diskVars == <<folder, part, final, removing, dropping>>
uploadVars == <<diskVars, req, unsure, diskFaults>>

Idle == [pc |-> "idle", chunk |-> 0, fd |-> FALSE, at |-> 0, got |-> {}, answer |-> "none"]

UploadTypeOK ==
    /\ folder \in BOOLEAN
    /\ part \in [Indices -> {"none", "partial", "whole"}]
    /\ ~folder => \A i \in Indices : part[i] = "none"
    /\ final \in {"absent", "empty", "whole", "wrong"}
    /\ req \in [Requests ->
         [pc : {"idle", "open", "write", "list", "create", "read", "merge", "sweep", "clean",
                "hung"},
          chunk : Indices, fd : BOOLEAN, at : Chunks, got : SUBSET Chunks,
          answer : {"none", "pending", "complete", "error"}]]
    /\ removing \subseteq Chunks /\ unsure \subseteq Indices
    /\ dropping \in BOOLEAN /\ diskFaults \in 0..MaxDiskFaults

UploadInit ==
    /\ folder = FALSE /\ part = [i \in Indices |-> "none"] /\ final = "absent"
    /\ req = [r \in Requests |-> Idle]
    /\ removing = {} /\ dropping = FALSE /\ unsure = {}
    /\ diskFaults = 0

MayFail == diskFaults < MaxDiskFaults /\ diskFaults' = diskFaults + 1
InFlight == {r \in Requests : req[r].pc # "idle"}
Listed == {i \in Indices : part[i] # "none"}

Goto(r, pc) == req' = [req EXCEPT ![r].pc = pc]

\* next() is called: the client is sure of the chunk if the answer is good.
Answer(r, a) ==
    /\ req' = [req EXCEPT ![r] = [Idle EXCEPT !.answer = a]]
    /\ unsure' = IF a = "error" THEN unsure ELSE unsure \ {req[r].chunk}

\* The files are unlinked; what is still written to them goes nowhere.
Unlink(files, next) ==
    /\ part' = [i \in Indices |-> IF i \in files THEN "none" ELSE part[i]]
    /\ req' = [q \in Requests |->
                 IF next[q].chunk \in files THEN [next[q] EXCEPT !.fd = FALSE] ELSE next[q]]

-----------------------------------------------------------------------------
(* A chunk arrives *)

\* Up to the await of writeFile: the session folder is made sure of.
Receive(r, i) ==
    /\ req[r].pc = "idle" /\ Cardinality(InFlight) < MaxInFlight
    /\ Careful /\ unsure # {} => i \in unsure
    /\ folder' = TRUE
    /\ req' = [req EXCEPT ![r] = [Idle EXCEPT !.pc = "open", !.chunk = i]]
    /\ unsure' = unsure \cup {i}
    /\ UNCHANGED <<part, final, removing, dropping, diskFaults>>

\* writeFile opens and truncates the part; the folder may be gone by now.
OpenPart(r) ==
    /\ req[r].pc = "open"
    /\ IF folder
       THEN /\ part' = [part EXCEPT ![req[r].chunk] = "partial"]
            /\ req' = [req EXCEPT ![r].pc = "write", ![r].fd = TRUE]
            /\ UNCHANGED unsure
       ELSE Answer(r, "error") /\ UNCHANGED part
    /\ UNCHANGED <<folder, final, removing, dropping, diskFaults>>

\* writeFile is done: the part is whole unless another request is writing it.
WritePart(r) ==
    /\ req[r].pc = "write"
    /\ req' = [req EXCEPT ![r].pc = "list", ![r].fd = FALSE]
    /\ part' = IF req[r].fd /\ \A q \in Requests \ {r} : ~(req[q].fd /\ req[q].chunk = req[r].chunk)
               THEN [part EXCEPT ![req[r].chunk] = "whole"] ELSE part
    /\ UNCHANGED <<folder, final, removing, dropping, unsure, diskFaults>>

WriteFails(r) ==
    /\ req[r].pc = "write" /\ MayFail
    /\ Answer(r, "error")
    /\ UNCHANGED diskVars

\* Mutant: the number is compared one too high.
ListTooMany(r) ==
    /\ req[r].pc = "list" /\ folder
    /\ IF Cardinality(Listed) = TotalChunks + 1
       THEN Goto(r, "create") /\ UNCHANGED unsure
       ELSE Answer(r, "pending")
    /\ UNCHANGED <<diskVars, diskFaults>>

\* readdir: the number of files decides.  When the folder is gone the
\* callback of multer rejects: nobody handles that, and nothing is answered.
List(r) ==
    /\ req[r].pc = "list"
    /\ \/ /\ folder
          /\ IF Cardinality(Listed) = TotalChunks
             THEN Goto(r, "create") /\ UNCHANGED unsure
             ELSE Answer(r, "pending")
       \/ ~folder /\ Goto(r, "hung") /\ UNCHANGED unsure
    /\ UNCHANGED <<diskVars, diskFaults>>

-----------------------------------------------------------------------------
(* mergeChunks() *)

CreateFinal(r) ==
    /\ req[r].pc = "create"
    /\ final' = "empty"
    /\ Goto(r, "read")
    /\ UNCHANGED <<folder, part, removing, dropping, unsure, diskFaults>>

\* Mutants: the loop runs one chunk too far, or one too short.
ReadTooFar(r) ==
    /\ req[r].pc = "read"
    /\ IF part[req[r].at] = "none" THEN Goto(r, "clean") ELSE req' = [req EXCEPT ![r].at = @ + 1]
    /\ UNCHANGED <<diskVars, unsure, diskFaults>>
ReadTooFew(r) ==
    /\ req[r].pc = "read" /\ part[req[r].at] # "none"
    /\ IF req[r].at + 2 \in Chunks
       THEN /\ req' = [req EXCEPT ![r].at = @ + 1, ![r].got = @ \cup {req[r].at}]
            /\ UNCHANGED removing
       ELSE /\ req' = [req EXCEPT ![r].pc = "merge", ![r].got = @ \cup {req[r].at}]
            /\ removing' = removing \cup Chunks
    /\ UNCHANGED <<folder, part, final, dropping, unsure, diskFaults>>

\* The parts are read one after the other.  After the last one, all are
\* written to the stream and their removal is started.
ReadPart(r) ==
    /\ req[r].pc = "read"
    /\ LET k == req[r].at
           read == [req[r] EXCEPT !.got = IF part[k] = "whole" THEN @ \cup {k} ELSE @]
       IN IF part[k] = "none"
          THEN Goto(r, "clean") /\ UNCHANGED removing
          ELSE IF k + 1 \in Chunks
          THEN req' = [req EXCEPT ![r] = [read EXCEPT !.at = k + 1]] /\ UNCHANGED removing
          ELSE /\ req' = [req EXCEPT ![r] = [read EXCEPT !.pc = "merge"]]
               /\ removing' = removing \cup Chunks
    /\ UNCHANGED <<folder, part, final, dropping, unsure, diskFaults>>

PartRemoved(i) ==
    /\ i \in removing
    /\ removing' = removing \ {i}
    /\ Unlink({i}, req)
    /\ UNCHANGED <<folder, final, dropping, unsure, diskFaults>>

Merged(r) == IF req[r].got = Chunks THEN "whole" ELSE "wrong"

\* The stream has finished.
Finish(r) ==
    /\ req[r].pc = "merge"
    /\ final' = Merged(r)
    /\ Goto(r, "sweep")
    /\ UNCHANGED <<folder, part, removing, dropping, unsure, diskFaults>>

\* The stream fails, and the folder is removed without waiting for it.
FinishFails(r) ==
    /\ req[r].pc = "merge" /\ MayFail
    /\ final' = "wrong"
    /\ dropping' = TRUE
    /\ Answer(r, "error")
    /\ UNCHANGED <<folder, part, removing>>

\* That removal is done, whoever uses the folder by now.
FolderDropped ==
    /\ dropping
    /\ dropping' = FALSE /\ folder' = FALSE
    /\ Unlink(Indices, req)
    /\ UNCHANGED <<final, removing, unsure, diskFaults>>

\* The folder is removed: the request completes, or fails for the part that
\* could not be read.
RemoveFolder(r) ==
    /\ req[r].pc \in {"sweep", "clean"}
    /\ folder' = FALSE
    /\ Unlink(Indices, [req EXCEPT ![r] =
                [Idle EXCEPT !.answer = IF req[r].pc = "sweep" THEN "complete" ELSE "error"]])
    /\ unsure' = IF req[r].pc = "sweep" THEN unsure \ {req[r].chunk} ELSE unsure
    /\ UNCHANGED <<final, removing, dropping, diskFaults>>

Sweeping == dropping \/ \E r \in Requests : req[r].pc \in {"sweep", "clean"}

\* The process dies and starts over, and no answer is sent; the disk stays as
\* it is, a folder that was being removed with some of its parts.
Die ==
    /\ req' = [r \in Requests |-> Idle]
    /\ removing' = {} /\ dropping' = FALSE
    /\ final' = IF \E r \in Requests : req[r].pc = "merge" THEN "wrong" ELSE final
    /\ \E gone \in SUBSET (IF Sweeping THEN Indices ELSE {}) :
           part' = [i \in Indices |-> IF i \in gone THEN "none" ELSE part[i]]
    /\ UNCHANGED <<folder, unsure>>

Crash == MayFail /\ Die

\* The server exits a second after a rejection that nobody handled.
RejectionExits ==
    /\ \E r \in Requests : req[r].pc = "hung"
    /\ Die
    /\ UNCHANGED diskFaults

Handle(r) ==
    \/ OpenPart(r) \/ WritePart(r) \/ WriteFails(r) \/ List(r)
    \/ CreateFinal(r) \/ ReadPart(r) \/ Finish(r) \/ FinishFails(r)
    \/ RemoveFolder(r)

UploadNext ==
    \/ \E r \in Requests : (\E i \in Indices : Receive(r, i)) \/ Handle(r)
    \/ \E i \in Chunks : PartRemoved(i)
    \/ FolderDropped \/ Crash \/ RejectionExits

UploadSpec == UploadInit /\ [][UploadNext]_uploadVars

\* node completes file operations and the exit; the process is started again;
\* the client goes on sending each chunk.
UploadFairSpec ==
    /\ UploadSpec
    /\ \A r \in Requests : WF_uploadVars(Handle(r))
    /\ WF_uploadVars(FolderDropped) /\ WF_uploadVars(RejectionExits)
    /\ \A i \in Chunks : WF_uploadVars(PartRemoved(i))
    /\ \A i \in Chunks : SF_uploadVars(\E r \in Requests : Receive(r, i))

-----------------------------------------------------------------------------
(* Properties *)

\* README.md:416, "Once all chunks are uploaded, they are merged into a single
\* file": when a request answers that the upload is complete, the file holds
\* every chunk, whole.  Holds for a careful client with one request at a time,
\* through crashes and failed writes; two at a time count chunks that are
\* still written.
WholeWhenComplete ==
    [][\A r \in Requests :
         req[r].answer # "complete" /\ req'[r].answer = "complete" => final' = "whole"]_uploadVars

\* multiPartFileUploader.ts:164: a client that goes on sending every chunk of a
\* session is told in the end that it is complete, whatever crashed before.
CompletedInTheEnd == []<>(\E r \in Requests : req[r].answer = "complete")
=============================================================================
