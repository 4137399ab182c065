---------------------------- MODULE CloudStorage ----------------------------
(***************************************************************************)
(* Uploads to cloud services: upload() of GoogleCloudStorage.ts, which     *)
(* writes the chunks of a stream as they come, upload() of AWSS3.ts, which *)
(* collects them first, and geminiFileUpload(), which goes through a       *)
(* temporary file and polls the service, behind its middleware.            *)
(*                                                                         *)
(* A file is its number of chunks, of one size each.  The services, the    *)
(* source of a stream and the disk are external: they answer or fail at    *)
(* any time, the source also while a free name is looked for and nobody    *)
(* listens to it yet.  A source may also close without an end or an error, *)
(* as a stream that is destroyed does.                                     *)
(***************************************************************************)
EXTENDS Naturals

CONSTANTS
    Calls,      \* bound: uploads
    Given,      \* paths of a fileName the host gives
    Random,     \* paths that generateFileDestination() makes up
    Stored,     \* paths that hold an object at the start
    MaxChunks,  \* bound: chunks of a file
    Uploads,    \* size and limit (maxSize; 0 where there is none) of an upload, in chunks
    MaxFaults   \* bound: what fails outside of the process

ASSUME CloudStorageAssumption ==
    /\ Given \cap Random = {} /\ Random # {} /\ Stored \subseteq Given \cup Random
    /\ Uploads \subseteq (0..MaxChunks) \X (0..MaxChunks)
    /\ MaxChunks \in Nat /\ MaxFaults \in Nat

VARIABLES
    bucket,  \* for each store and path, the object or NoObject
    call,    \* the uploads
    faults

vars == <<bucket, call, faults>>

Stores == {"gcs", "s3"}
Object(c, whole) == [by |-> {c}, whole |-> whole]
Earlier  == [by |-> {}, whole |-> TRUE]
NoObject == [by |-> {}, whole |-> FALSE]

\* replaced is history: whether the object took the place of another.
New == [kind |-> "none", pc |-> "idle", path |-> CHOOSE n \in Random : TRUE, limit |-> 0,
        size |-> 0, received |-> 0, written |-> 0, source |-> "open",
        result |-> "pending", temp |-> "none", replaced |-> FALSE]

UploadStates ==
    [kind : Stores \cup {"gemini", "none"},
     pc : {"idle", "exists", "streaming", "ending", "finished", "collecting", "sending",
           "uploading", "polling", "sleeping", "over"},
     path : Given \cup Random, limit : 0..MaxChunks, size : 0..MaxChunks,
     received : 0..MaxChunks, written : 0..MaxChunks,
     source : {"open", "ended", "failed", "unheard", "closed"},
     result : {"pending", "resolved", "rejected", "failure"},
     temp : {"none", "there", "stuck"}, replaced : BOOLEAN]

TypeOK ==
    /\ bucket \in [Stores -> [Given \cup Random -> [by : SUBSET Calls, whole : BOOLEAN]]]
    /\ call \in [Calls -> UploadStates]
    /\ \A c \in Calls :
         /\ call[c].written <= call[c].received /\ call[c].received <= call[c].size
         /\ call[c].pc \in {"ending", "finished", "sending"} => call[c].received = call[c].size
    /\ faults \in 0..MaxFaults

Init ==
    /\ bucket = [store \in Stores |->
                   [path \in Given \cup Random |-> IF path \in Stored THEN Earlier ELSE NoObject]]
    /\ call = [c \in Calls |-> New]
    /\ faults = 0

Fault == faults < MaxFaults /\ faults' = faults + 1
At(c, kind, pc) == call[c].kind = kind /\ call[c].pc = pc

\* A promise is settled once.
Settle(c, result) == IF call[c].result = "pending" THEN result ELSE call[c].result

\* The promise is settled and nothing more will come: what was local is gone.
Over(c, result) ==
    call' = [call EXCEPT ![c] = [New EXCEPT !.kind = call[c].kind, !.pc = "over",
                                   !.result = Settle(c, result)]]

\* A random name may be one of the past, never one an upload has just drawn.
Destinations(c) == Random \ {call[d].path : d \in {e \in Calls \ {c} : call[e].kind \in Stores /\ call[e].pc # "over"}}

Put(c, store) ==
    LET path == call[c].path
    IN  bucket' = [bucket EXCEPT ![store][path] = Object(c, call[c].written = call[c].size)]

TooLarge(c) == call[c].limit # 0 /\ call[c].received + 1 > call[c].limit

-----------------------------------------------------------------------------
(* GoogleCloudStorage.upload() *)

GcsUpload(c, size, limit) ==
    /\ call[c].pc = "idle"
    /\ \/ \E path \in Given :
            call' = [call EXCEPT ![c] = [New EXCEPT !.kind = "gcs", !.pc = "streaming",
                                           !.path = path, !.size = size, !.limit = limit]]
       \/ \E path \in Destinations(c) :
            call' = [call EXCEPT ![c] = [New EXCEPT !.kind = "gcs", !.pc = "exists",
                                           !.path = path, !.size = size, !.limit = limit]]
    /\ UNCHANGED <<bucket, faults>>

\* The service says whether the name is taken; if so, another one is drawn.
Exists(c) ==
    /\ At(c, "gcs", "exists")
    /\ \/ /\ bucket["gcs"][call[c].path] = NoObject
          /\ call' = [call EXCEPT ![c].pc = "streaming"]
          /\ UNCHANGED faults
       \/ /\ bucket["gcs"][call[c].path] # NoObject
          /\ \E path \in Destinations(c) : call' = [call EXCEPT ![c].path = path]
          /\ UNCHANGED faults
       \/ /\ Fault
          /\ Over(c, "rejected")
    /\ UNCHANGED bucket

\* Mutant: the chunk too many is dropped, and nothing is said.
GcsDataSkipped(c) ==
    /\ At(c, "gcs", "streaming") /\ call[c].source = "open" /\ call[c].received < call[c].size
    /\ call' = [call EXCEPT ![c].received = @ + 1,
                            ![c].written = IF TooLarge(c) THEN @ ELSE @ + 1]
    /\ UNCHANGED <<bucket, faults>>

\* The chunk that passes the limit rejects and is dropped, as are those after
\* it; the stream is neither stopped nor destroyed.
GcsData(c) ==
    /\ At(c, "gcs", "streaming") /\ call[c].source = "open" /\ call[c].received < call[c].size
    /\ call' = [call EXCEPT ![c].received = @ + 1,
                            ![c].written = IF TooLarge(c) THEN @ ELSE @ + 1,
                            ![c].result = IF TooLarge(c) THEN Settle(c, "rejected") ELSE @]
    /\ UNCHANGED <<bucket, faults>>

\* The end of the source ends the write stream, also after a rejection.
GcsEnd(c) ==
    /\ At(c, "gcs", "streaming") /\ call[c].source = "open" /\ call[c].received = call[c].size
    /\ call' = [call EXCEPT ![c].source = "ended", ![c].pc = "ending"]
    /\ UNCHANGED <<bucket, faults>>

\* The write stream is left open.  While a name is looked for there is no
\* listener yet: the error is an uncaught exception, and what remains of the
\* process, if it does, never hears of it.
GcsSourceFails(c) ==
    /\ call[c].kind = "gcs" /\ call[c].source = "open" /\ Fault
    /\ \/ /\ call[c].pc = "streaming"
          /\ call' = [call EXCEPT ![c].source = "failed", ![c].result = Settle(c, "rejected")]
       \/ /\ call[c].pc = "exists"
          /\ call' = [call EXCEPT ![c].source = "unheard"]
    /\ UNCHANGED bucket

\* Nobody listens for close, at any time.
GcsSourceCloses(c) ==
    /\ call[c].kind = "gcs" /\ call[c].pc \in {"exists", "streaming"}
    /\ call[c].source = "open" /\ Fault
    /\ call' = [call EXCEPT ![c].source = "closed"]
    /\ UNCHANGED bucket

GcsWriteFails(c) ==
    /\ call[c].kind = "gcs" /\ call[c].pc \in {"streaming", "ending"} /\ Fault
    /\ Over(c, "rejected")
    /\ UNCHANGED bucket

\* finish: what was written is the object now.
GcsFinish(c) ==
    /\ At(c, "gcs", "ending")
    /\ Put(c, "gcs")
    /\ call' = [call EXCEPT ![c].pc = "finished",
                            ![c].replaced = bucket["gcs"][call[c].path] # NoObject]
    /\ UNCHANGED faults

\* getMetadata() answers, or fails, as it does when the object is deleted.
GcsMetadata(c) ==
    /\ At(c, "gcs", "finished")
    /\ \/ /\ bucket["gcs"][call[c].path] # NoObject
          /\ Over(c, "resolved")
          /\ UNCHANGED faults
       \/ /\ bucket["gcs"][call[c].path] = NoObject
          /\ Over(c, "rejected")
          /\ UNCHANGED faults
       \/ /\ Fault
          /\ Over(c, "rejected")
    /\ UNCHANGED bucket

GcsDelete(path) ==
    /\ bucket["gcs"][path] # NoObject
    /\ bucket' = [bucket EXCEPT !["gcs"][path] = NoObject]
    /\ UNCHANGED <<call, faults>>

-----------------------------------------------------------------------------
(* AWSS3.upload() *)

\* A random name is not looked up.
S3Upload(c, size, limit) ==
    /\ call[c].pc = "idle"
    /\ \E path \in Given \cup Destinations(c) :
         call' = [call EXCEPT ![c] = [New EXCEPT !.kind = "s3", !.pc = "collecting",
                                        !.path = path, !.size = size, !.limit = limit]]
    /\ UNCHANGED <<bucket, faults>>

\* Mutant: the chunks are only counted where there is a limit.
S3DataUncounted(c) ==
    /\ At(c, "s3", "collecting") /\ call[c].received < call[c].size
    /\ IF TooLarge(c)
       THEN Over(c, "rejected")
       ELSE call' = [call EXCEPT ![c].received = IF call[c].limit = 0 THEN @ ELSE @ + 1,
                                 ![c].written = @ + 1]
    /\ UNCHANGED <<bucket, faults>>

\* The chunk that passes the limit ends the loop, which destroys the source.
S3Data(c) ==
    /\ At(c, "s3", "collecting") /\ call[c].received < call[c].size
    /\ IF TooLarge(c)
       THEN Over(c, "rejected")
       ELSE call' = [call EXCEPT ![c].received = @ + 1, ![c].written = @ + 1]
    /\ UNCHANGED <<bucket, faults>>

S3End(c) ==
    /\ At(c, "s3", "collecting") /\ call[c].received = call[c].size
    /\ call' = [call EXCEPT ![c].source = "ended", ![c].pc = "sending"]
    /\ UNCHANGED <<bucket, faults>>

\* An error and a close alike end the loop.
S3SourceFails(c) ==
    /\ At(c, "s3", "collecting") /\ Fault
    /\ Over(c, "rejected")
    /\ UNCHANGED bucket

\* One PutObject; when it fails, the object may be there all the same.
S3Send(c) ==
    /\ At(c, "s3", "sending")
    /\ \/ /\ Put(c, "s3")
          /\ Over(c, "resolved")
          /\ UNCHANGED faults
       \/ /\ Fault
          /\ Put(c, "s3") \/ UNCHANGED bucket
          /\ Over(c, "rejected")

S3Delete(path) ==
    /\ bucket["s3"][path] # NoObject
    /\ bucket' = [bucket EXCEPT !["s3"][path] = NoObject]
    /\ UNCHANGED <<call, faults>>

-----------------------------------------------------------------------------
(* geminiFileUploader and geminiFileUpload() *)

\* Mutant: the temporary file is removed when the upload went well.
FinallyOnSuccess(c, state, result) ==
    /\ call' = [call EXCEPT ![c] = [state EXCEPT !.pc = "over", !.result = result,
                                      !.temp = IF result = "resolved" THEN "none" ELSE @]]
    /\ UNCHANGED <<bucket, faults>>

\* The result is returned, never thrown, and the temporary file removed, if it
\* can be.
Finally(c, state, result) ==
    /\ \/ /\ call' = [call EXCEPT ![c] = [state EXCEPT !.pc = "over", !.result = result,
                                            !.temp = "none"]]
          /\ UNCHANGED faults
       \/ /\ state.temp = "there" /\ Fault
          /\ call' = [call EXCEPT ![c] = [state EXCEPT !.pc = "over", !.result = result,
                                            !.temp = "stuck"]]
    /\ UNCHANGED bucket

\* Without a key or a file the middleware ends with next(error).
GeminiRefused(c) ==
    /\ call[c].pc = "idle"
    /\ call' = [call EXCEPT ![c] = [New EXCEPT !.kind = "gemini", !.pc = "over",
                                      !.result = "rejected"]]
    /\ UNCHANGED <<bucket, faults>>

\* The temporary file is created and written, or one of the two fails.
GeminiUpload(c) ==
    /\ call[c].pc = "idle"
    /\ \/ /\ call' = [call EXCEPT ![c] = [New EXCEPT !.kind = "gemini", !.pc = "uploading",
                                            !.temp = "there"]]
          /\ UNCHANGED <<bucket, faults>>
       \/ \E temp \in {"none", "there"} :
            Finally(c, [New EXCEPT !.kind = "gemini", !.temp = temp], "failure")

GeminiUploaded(c) ==
    /\ At(c, "gemini", "uploading")
    /\ \/ /\ call' = [call EXCEPT ![c].pc = "polling"]
          /\ UNCHANGED <<bucket, faults>>
       \/ Finally(c, call[c], "failure")

\* The service is still at it: ask again in ten seconds.
GeminiProcessing(c) ==
    /\ At(c, "gemini", "polling")
    /\ call' = [call EXCEPT ![c].pc = "sleeping"]
    /\ UNCHANGED <<bucket, faults>>

GeminiWakes(c) ==
    /\ At(c, "gemini", "sleeping")
    /\ call' = [call EXCEPT ![c].pc = "polling"]
    /\ UNCHANGED <<bucket, faults>>

\* ACTIVE, or another state or an error.
GeminiProcessed(c) ==
    /\ At(c, "gemini", "polling")
    /\ \E result \in {"resolved", "failure"} : Finally(c, call[c], result)

-----------------------------------------------------------------------------

Start(c) ==
    \/ \E u \in Uploads : GcsUpload(c, u[1], u[2]) \/ S3Upload(c, u[1], u[2])
    \/ GeminiRefused(c) \/ GeminiUpload(c)

\* What comes next if nothing more fails.
Step(c) ==
    \/ Exists(c) \/ GcsData(c) \/ GcsEnd(c) \/ GcsFinish(c) \/ GcsMetadata(c)
    \/ S3Data(c) \/ S3End(c) \/ S3Send(c)
    \/ GeminiUploaded(c) \/ GeminiWakes(c) \/ GeminiProcessed(c)

Next ==
    \/ \E c \in Calls :
         \/ Start(c) \/ Step(c) \/ GeminiProcessing(c)
         \/ GcsSourceFails(c) \/ GcsSourceCloses(c) \/ GcsWriteFails(c) \/ S3SourceFails(c)
    \/ \E path \in Given \cup Random : GcsDelete(path) \/ S3Delete(path)

Spec == Init /\ [][Next]_vars

\* A source that does not fail delivers its chunks, services answer, a free
\* name is drawn in the end, and the processing of a file does not go on for ever.
FairSpec ==
    /\ Spec
    /\ \A c \in Calls :
         /\ WF_vars(Step(c))
         /\ SF_vars(GeminiProcessed(c))
         /\ SF_vars(Exists(c) /\ bucket["gcs"][call'[c].path] = NoObject)

-----------------------------------------------------------------------------
(* Properties *)

\* An upload that resolves has stored its whole source, which is within the
\* limit.  Under a name of its own it replaced nothing, in Cloud Storage, and
\* the object is still the one it wrote; under a name that was given, another
\* upload may have replaced it.  What was rejected for its size may be stored
\* in part.
ResolvedWhole ==
    [][\A c \in Calls :
         LET path == call[c].path
             object == bucket'[call[c].kind][path]
         IN  /\ call[c].kind \in Stores
             /\ call[c].result = "pending" /\ call'[c].result = "resolved"
             => /\ call[c].limit # 0 => call[c].size <= call[c].limit
                /\ call[c].written = call[c].size
                /\ path \in Random => object = Object(c, TRUE) /\ ~call[c].replaced]_vars

\* Every upload settles, and has removed its temporary file, unless the
\* removal failed.  Two uploads to Cloud Storage are left out, as they wait for
\* ever: one whose source closes without end or error, and one whose source
\* failed, unheard, while a free name was looked for.
UploadsSettle ==
    \A c \in Calls :
        call[c].pc # "idle" ~>
            \/ call[c].result # "pending" /\ call[c].temp # "there"
            \/ call[c].kind = "gcs" /\ call[c].source \in {"closed", "unheard"}

=============================================================================
