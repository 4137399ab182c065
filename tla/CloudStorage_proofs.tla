------------------------ MODULE CloudStorage_proofs ------------------------
(***************************************************************************)
(* Proofs about CloudStorage: its types, and ResolvedWhole, that an upload *)
(* which resolves has stored all of its source.                            *)
(*                                                                         *)
(* ResolvedWhole is a property of one step, from an invariant of all the   *)
(* steps before: a promise that is still pending has written each chunk it *)
(* received and has not passed its limit (Counted); a random path is the   *)
(* path of one upload at a time (Alone), since Destinations leaves out     *)
(* those under way; so what Exists found missing is missing until the      *)
(* upload itself writes it (Untouched).                                    *)
(*                                                                         *)
(* At the end, the same of MultiPartUpload, which shares no name with      *)
(* CloudStorage: its types, and WholeWhenComplete for a careful client     *)
(* with one request at a time.                                             *)
(***************************************************************************)
EXTENDS CloudStorage, MultiPartUpload, FiniteSetTheorems, TLAPS

Live(s) == s.kind \in Stores /\ s.pc # "over"

Counted(s) ==
    Live(s) /\ s.result = "pending" =>
        s.written = s.received /\ (s.limit # 0 => s.received <= s.limit)

WellFormed(s) ==
    /\ s \in UploadStates
    /\ s.written <= s.received /\ s.received <= s.size
    /\ s.pc \in {"ending", "finished", "sending"} => s.received = s.size
    /\ s.pc # "finished" => ~s.replaced
    /\ Counted(s)

Objects == [by : SUBSET Calls, whole : BOOLEAN]
Buckets == [Stores -> [Given \cup Random -> Objects]]

\* What Cloud Storage holds under the random path of an upload of its own.
Untouched(c, s, objects) ==
    s.kind = "gcs" /\ s.path \in Random =>
        /\ s.pc \in {"streaming", "ending"} => objects[s.path] = NoObject
        /\ s.pc = "finished" =>
             /\ objects[s.path] \in {NoObject, Object(c, s.written = s.size)}
             /\ ~s.replaced

Alone ==
    \A c, d \in Calls :
        /\ c # d /\ Live(call[c]) /\ Live(call[d]) /\ call[c].path = call[d].path
        => call[c].path \in Given

UploadInv ==
    /\ bucket \in Buckets /\ call \in [Calls -> UploadStates] /\ faults \in 0..MaxFaults
    /\ \A c \in Calls : WellFormed(call[c])
    /\ Alone
    /\ \A c \in Calls : Untouched(c, call[c], bucket["gcs"])

-----------------------------------------------------------------------------

\* The state a call starts from has the type of a state.
LEMMA NewTyped == New \in UploadStates /\ New.path \in Random
  <1>1. (CHOOSE n \in Random : TRUE) \in Random
    BY CloudStorageAssumption
  <1> QED
    BY <1>1, CloudStorageAssumption DEF New, UploadStates, Stores

\* A call that has not started counts nothing and is not live.
LEMMA NewWellFormed == WellFormed(New) /\ ~Live(New) /\ New.kind = "none"
  <1>1. /\ New.written = 0 /\ New.received = 0 /\ New.size = 0 /\ New.kind = "none"
        /\ New.pc = "idle" /\ New.replaced = FALSE
    BY DEF New
  <1> QED
    BY <1>1, NewTyped DEF WellFormed, Counted, Live, Stores

\* A step of one upload keeps the invariant if the new state is well formed,
\* its path is still its own, and of the objects of Cloud Storage only the one
\* under its path is written.
LEMMA OneUpload ==
    ASSUME UploadInv, NEW c \in Calls, NEW s,
           WellFormed(s), call' = [call EXCEPT ![c] = s],
           Live(s) => \/ s.path \in Given \cup Destinations(c)
                      \/ Live(call[c]) /\ s.path = call[c].path,
           bucket' \in Buckets,
           \A path \in Given \cup Random :
               \/ bucket'["gcs"][path] = bucket["gcs"][path]
               \/ Live(call[c]) /\ path = call[c].path,
           Untouched(c, s, bucket'["gcs"]),
           faults' \in 0..MaxFaults
    PROVE  UploadInv'
  <1> USE DEF UploadInv
  <1>1. call' \in [Calls -> UploadStates] /\ call'[c] = s
    BY DEF WellFormed
  <1>2. \A d \in Calls \ {c} : call'[d] = call[d]
    OBVIOUS
  <1>3. \A d \in Calls : WellFormed(call'[d])
    BY <1>1, <1>2
  <1>4. Alone'
    <2>1. ASSUME NEW d \in Calls \ {c}, Live(s), Live(call[d]), s.path = call[d].path
          PROVE  s.path \in Given
      BY <2>1 DEF Destinations, Alone, Live
    <2> QED
      BY <1>1, <1>2, <2>1 DEF Alone
  <1>5. ASSUME NEW d \in Calls
        PROVE  Untouched(d, call'[d], bucket'["gcs"])
    <2>1. CASE d = c
      BY <2>1, <1>1
    <2>2. CASE d # c
      <3>1. Untouched(d, call[d], bucket["gcs"]) /\ call[d] \in UploadStates
        OBVIOUS
      <3>2. call[d].kind = "gcs" /\ call[d].path \in Random /\ call[d].pc # "over"
            => bucket'["gcs"][call[d].path] = bucket["gcs"][call[d].path]
        BY <2>2, CloudStorageAssumption DEF Alone, Live, Stores
      <3> QED
        BY <2>2, <1>2, <3>1, <3>2 DEF Untouched
    <2> QED
      BY <2>1, <2>2
  <1> QED
    BY <1>1, <1>3, <1>4, <1>5

\* At the start nothing runs and nothing is stored.
LEMMA InitKeeps == Init => UploadInv
  <1> SUFFICES ASSUME Init PROVE UploadInv
    OBVIOUS
  <1> USE DEF Init
  <1>1. bucket \in Buckets
    BY CloudStorageAssumption DEF Buckets, Objects, Earlier, NoObject
  <1>2. \A c \in Calls : call[c] = New
    OBVIOUS
  <1>3. WellFormed(New) /\ ~Live(New) /\ New.kind = "none"
    BY NewWellFormed
  <1>4. call \in [Calls -> UploadStates] /\ faults \in 0..MaxFaults
    BY NewTyped, CloudStorageAssumption
  <1>5. Alone /\ \A c \in Calls : Untouched(c, call[c], bucket["gcs"])
    BY <1>2, <1>3 DEF Alone, Untouched
  <1> QED
    BY <1>1, <1>2, <1>3, <1>4, <1>5 DEF UploadInv

\* An upload that is over has nothing left to say.
LEMMA OverKeeps ==
    ASSUME UploadInv, NEW c \in Calls, NEW result \in {"resolved", "rejected", "failure"},
           Over(c, result), bucket' \in Buckets,
           \A path \in Given \cup Random :
               \/ bucket'["gcs"][path] = bucket["gcs"][path]
               \/ Live(call[c]) /\ path = call[c].path,
           faults' \in 0..MaxFaults
    PROVE  UploadInv'
  <1> DEFINE s == [New EXCEPT !.kind = call[c].kind, !.pc = "over",
                              !.result = Settle(c, result)]
  <1>1. call[c] \in UploadStates
    BY DEF UploadInv
  <1>2. WellFormed(s) /\ ~Live(s) /\ s.pc = "over"
    <2>1. s \in UploadStates
      <3>1. /\ Settle(c, result) \in {"pending", "resolved", "rejected", "failure"}
            /\ call[c].kind \in Stores \cup {"gemini", "none"}
        BY <1>1 DEF Settle, UploadStates
      <3> QED
        BY <3>1, NewTyped DEF UploadStates
    <2>2. /\ s.pc = "over" /\ s.written = 0 /\ s.received = 0 /\ s.size = 0 /\ s.replaced = FALSE
      BY DEF New
    <2> HIDE DEF s
    <2> QED
      BY <2>1, <2>2 DEF WellFormed, Counted, Live
  <1>3. Untouched(c, s, bucket'["gcs"])
    BY <1>2 DEF Untouched
  <1>4. call' = [call EXCEPT ![c] = s]
    BY DEF Over
  <1> HIDE DEF s
  <1> QED
    BY <1>2, <1>3, <1>4, OneUpload

\* The state in which an upload to one of the stores starts.
Begun(kind, pc, path, u) ==
    [New EXCEPT !.kind = kind, !.pc = pc, !.path = path, !.size = u[1], !.limit = u[2]]

\* It has counted nothing yet, whichever store it is for.
LEMMA Started ==
    ASSUME NEW kind \in Stores, NEW pc \in {"exists", "streaming", "collecting"},
           NEW path \in Given \cup Random, NEW u \in Uploads
    PROVE  LET s == Begun(kind, pc, path, u)
           IN  WellFormed(s) /\ s.kind = kind /\ s.pc = pc /\ s.path = path
  <1> DEFINE s == Begun(kind, pc, path, u)
  <1>1. u[1] \in 0..MaxChunks /\ u[2] \in 0..MaxChunks /\ MaxChunks \in Nat
    BY CloudStorageAssumption
  <1>2. s \in UploadStates
    BY <1>1, NewTyped DEF Begun, UploadStates, Stores
  <1>3. /\ s.kind = kind /\ s.pc = pc /\ s.path = path /\ s.size = u[1] /\ s.limit = u[2]
        /\ s.received = 0 /\ s.written = 0 /\ s.replaced = FALSE
    BY DEF Begun, New
  <1> HIDE DEF s
  <1>4. WellFormed(s)
    BY <1>1, <1>2, <1>3 DEF WellFormed, Counted
  <1> QED
    BY <1>3, <1>4 DEF s

\* What an action does to one upload that leaves the objects alone.
LEMMA OneUploadAlone ==
    ASSUME UploadInv, NEW c \in Calls, NEW s,
           WellFormed(s), call' = [call EXCEPT ![c] = s],
           Live(s) => \/ s.path \in Given \cup Destinations(c)
                      \/ Live(call[c]) /\ s.path = call[c].path,
           UNCHANGED bucket,
           Untouched(c, s, bucket["gcs"]),
           faults' \in 0..MaxFaults
    PROVE  UploadInv'
  <1>1. bucket' \in Buckets
    BY DEF UploadInv
  <1> QED
    BY <1>1, OneUpload

\* Steps of an upload to Cloud Storage.
LEMMA GcsKeeps ==
    ASSUME UploadInv, NEW c \in Calls,
           \/ \E u \in Uploads : GcsUpload(c, u[1], u[2])
           \/ Exists(c) \/ GcsData(c) \/ GcsEnd(c) \/ GcsSourceFails(c) \/ GcsSourceCloses(c)
           \/ GcsWriteFails(c) \/ GcsFinish(c) \/ GcsMetadata(c)
    PROVE  UploadInv'
  <1>0. /\ call \in [Calls -> UploadStates] /\ call[c] \in UploadStates
        /\ bucket \in Buckets /\ faults \in 0..MaxFaults /\ MaxFaults \in Nat
        /\ WellFormed(call[c]) /\ Untouched(c, call[c], bucket["gcs"])
    BY CloudStorageAssumption DEF UploadInv
  <1>f. Fault => faults' \in 0..MaxFaults
    BY <1>0 DEF Fault
  <1>1. ASSUME NEW u \in Uploads, GcsUpload(c, u[1], u[2]) PROVE UploadInv'
    <2>1. PICK path \in Given \cup Destinations(c), pc \in {"streaming", "exists"} :
            /\ call' = [call EXCEPT ![c] = Begun("gcs", pc, path, u)]
            /\ pc = "streaming" => path \in Given
      BY <1>1 DEF GcsUpload, Begun
    <2> DEFINE s == Begun("gcs", pc, path, u)
    <2>2. path \in Given \cup Random /\ "gcs" \in Stores
      BY DEF Destinations, Stores
    <2>3. WellFormed(s) /\ s.kind = "gcs" /\ s.pc = pc /\ s.path = path
      BY <2>2, Started
    <2>4. call' = [call EXCEPT ![c] = s] /\ UNCHANGED <<bucket, faults>>
      BY <2>1, <1>1 DEF GcsUpload
    <2> HIDE DEF s
    <2>5. Untouched(c, s, bucket["gcs"])
      BY <2>1, <2>3, CloudStorageAssumption DEF Untouched
    <2> QED
      BY <1>0, <2>3, <2>4, <2>5, OneUploadAlone
  <1>2. CASE Exists(c)
    <2>1. CASE UNCHANGED faults /\ call' = [call EXCEPT ![c].pc = "streaming"]
                 /\ bucket["gcs"][call[c].path] = NoObject
      <3> DEFINE s == [call[c] EXCEPT !.pc = "streaming"]
      <3>1. s \in UploadStates /\ call' = [call EXCEPT ![c] = s]
        BY <1>0, <2>1 DEF UploadStates
      <3>2. /\ s.kind = "gcs" /\ s.pc = "streaming" /\ s.path = call[c].path
            /\ WellFormed(s)
        BY <1>0, <1>2, <3>1 DEF Exists, At, WellFormed, Counted, Live, UploadStates, Stores
      <3>3. Untouched(c, s, bucket["gcs"]) /\ Live(call[c])
        BY <1>2, <2>1, <3>2 DEF Untouched, Exists, At, Live, Stores
      <3> HIDE DEF s
      <3> QED
        BY <1>0, <1>2, <2>1, <3>1, <3>2, <3>3, OneUploadAlone DEF Exists
    <2>2. ASSUME UNCHANGED faults, NEW path \in Destinations(c),
                 call' = [call EXCEPT ![c].path = path]
          PROVE  UploadInv'
      <3> DEFINE s == [call[c] EXCEPT !.path = path]
      <3>1. s \in UploadStates /\ call' = [call EXCEPT ![c] = s]
        BY <1>0, <2>2 DEF UploadStates, Destinations
      <3>2. /\ s.kind = "gcs" /\ s.pc = "exists" /\ s.path = path
            /\ WellFormed(s)
        BY <1>0, <1>2, <3>1 DEF Exists, At, WellFormed, Counted, Live, UploadStates
      <3>3. Untouched(c, s, bucket["gcs"])
        BY <3>2 DEF Untouched
      <3> HIDE DEF s
      <3> QED
        BY <1>0, <1>2, <2>2, <3>1, <3>2, <3>3, OneUploadAlone DEF Exists
    <2>3. CASE Fault /\ Over(c, "rejected")
      BY <1>2, <2>3, <1>0, <1>f, OverKeeps DEF Exists
    <2> QED
      BY <1>2, <2>1, <2>2, <2>3 DEF Exists
  <1>3. CASE GcsData(c)
    <2> DEFINE s == [call[c] EXCEPT !.received = @ + 1,
                                    !.written = IF TooLarge(c) THEN @ ELSE @ + 1,
                                    !.result = IF TooLarge(c) THEN Settle(c, "rejected") ELSE @]
    <2>1. call' = [call EXCEPT ![c] = s] /\ UNCHANGED <<bucket, faults>>
      BY <1>0, <1>3 DEF GcsData
    <2>2. s \in UploadStates
      <3>1. /\ Settle(c, "rejected") \in {"pending", "resolved", "rejected", "failure"}
            /\ call[c].received + 1 \in 0..MaxChunks
            /\ call[c].written + 1 \in 0..MaxChunks
        BY <1>0, <1>3, CloudStorageAssumption DEF GcsData, UploadStates, WellFormed, Settle
      <3> QED
        BY <1>0, <3>1 DEF UploadStates
    <2>3. /\ s.kind = "gcs" /\ s.pc = "streaming" /\ s.path = call[c].path
          /\ s.size = call[c].size /\ s.limit = call[c].limit /\ s.replaced = call[c].replaced
          /\ s.received = call[c].received + 1
          /\ s.written = IF TooLarge(c) THEN call[c].written ELSE call[c].written + 1
          /\ s.result = IF TooLarge(c) THEN Settle(c, "rejected") ELSE call[c].result
      BY <1>0, <1>3 DEF GcsData, At, UploadStates
    <2> HIDE DEF s
    <2>4. WellFormed(s)
      BY <1>0, <1>3, <2>2, <2>3
         DEF GcsData, At, WellFormed, Counted, Live, Settle, TooLarge, UploadStates, Stores
    <2>5. Untouched(c, s, bucket["gcs"]) /\ Live(call[c])
      BY <1>0, <1>3, <2>3 DEF GcsData, At, Untouched, Live, Stores
    <2> QED
      BY <1>0, <2>1, <2>3, <2>4, <2>5, OneUploadAlone
  <1>4. CASE GcsEnd(c)
    <2> DEFINE s == [call[c] EXCEPT !.source = "ended", !.pc = "ending"]
    <2>1. call' = [call EXCEPT ![c] = s] /\ UNCHANGED <<bucket, faults>> /\ s \in UploadStates
      BY <1>0, <1>4 DEF GcsEnd, UploadStates
    <2>2. /\ s.kind = "gcs" /\ s.pc = "ending" /\ s.path = call[c].path
          /\ WellFormed(s)
      BY <1>0, <1>4, <2>1 DEF GcsEnd, At, WellFormed, Counted, Live, UploadStates, Stores
    <2>3. Untouched(c, s, bucket["gcs"]) /\ Live(call[c])
      BY <1>0, <1>4, <2>2 DEF GcsEnd, At, Untouched, Live, Stores
    <2> HIDE DEF s
    <2> QED
      BY <1>0, <2>1, <2>2, <2>3, OneUploadAlone
  <1>5. ASSUME NEW source \in {"failed", "unheard", "closed"}, NEW result \in {call[c].result, "rejected"},
               call[c].kind = "gcs", call[c].pc \in {"exists", "streaming"}, Fault, UNCHANGED bucket,
               call' = [call EXCEPT ![c] = [call[c] EXCEPT !.source = source, !.result = result]]
        PROVE  UploadInv'
    <2> DEFINE s == [call[c] EXCEPT !.source = source, !.result = result]
    <2>1. /\ s \in UploadStates /\ s.kind = "gcs" /\ s.pc = call[c].pc /\ s.path = call[c].path
          /\ s.limit = call[c].limit /\ s.size = call[c].size /\ s.received = call[c].received
          /\ s.written = call[c].written /\ s.replaced = call[c].replaced /\ s.result = result
      BY <1>0, <1>5 DEF UploadStates
    <2>2. call' = [call EXCEPT ![c] = s]
      BY <1>5
    <2> HIDE DEF s
    <2>3. WellFormed(s) /\ Live(call[c])
      BY <1>0, <1>5, <2>1 DEF WellFormed, Counted, Live, Stores
    <2>4. Untouched(c, s, bucket["gcs"])
      BY <1>0, <1>5, <2>1 DEF Untouched
    <2> QED
      BY <1>0, <1>f, <1>5, <2>1, <2>2, <2>3, <2>4, OneUploadAlone
  <1>6. CASE GcsSourceFails(c) \/ GcsSourceCloses(c)
    <2>1. \A source, result :
            [call EXCEPT ![c].source = source, ![c].result = result] =
            [call EXCEPT ![c] = [call[c] EXCEPT !.source = source, !.result = result]]
      BY <1>0
    <2>2. \A source : [call EXCEPT ![c].source = source] =
                      [call EXCEPT ![c] = [call[c] EXCEPT !.source = source, !.result = call[c].result]]
      BY <1>0 DEF UploadStates
    <2>3. CASE GcsSourceFails(c) /\ call[c].pc = "streaming"
      <3>1. Settle(c, "rejected") \in {call[c].result, "rejected"}
        BY DEF Settle
      <3> QED
        BY <1>5, <2>1, <2>3, <3>1 DEF GcsSourceFails
    <2>4. CASE GcsSourceFails(c) /\ call[c].pc = "exists"
      BY <1>5, <2>2, <2>4 DEF GcsSourceFails
    <2>5. CASE GcsSourceCloses(c)
      BY <1>5, <2>2, <2>5 DEF GcsSourceCloses
    <2> QED
      BY <1>6, <2>3, <2>4, <2>5 DEF GcsSourceFails
  <1>7. CASE GcsWriteFails(c)
    BY <1>7, <1>0, <1>f, OverKeeps DEF GcsWriteFails
  <1>8. CASE GcsFinish(c)
    <2> DEFINE path == call[c].path
               s == [call[c] EXCEPT !.pc = "finished",
                                    !.replaced = bucket["gcs"][path] # NoObject]
    <2>1. call' = [call EXCEPT ![c] = s] /\ s \in UploadStates /\ UNCHANGED faults
      BY <1>0, <1>8 DEF GcsFinish, UploadStates
    <2>2. /\ s.kind = "gcs" /\ s.pc = "finished" /\ s.path = path
          /\ s.written = call[c].written /\ s.size = call[c].size
          /\ s.replaced = (bucket["gcs"][path] # NoObject)
          /\ Live(call[c]) /\ call[c].pc = "ending"
      BY <1>0, <1>8 DEF GcsFinish, At, UploadStates, Live, Stores
    <2>3. WellFormed(s)
      BY <1>0, <1>8, <2>1, <2>2 DEF GcsFinish, At, WellFormed, Counted, Live, UploadStates
    <2>4. /\ bucket' = [bucket EXCEPT !["gcs"][path] = Object(c, call[c].written = call[c].size)]
          /\ Object(c, call[c].written = call[c].size) \in Objects
      BY <1>8 DEF GcsFinish, Put, Object, Objects
    <2>5. bucket' \in Buckets /\ path \in Given \cup Random
      BY <1>0, <2>4 DEF Buckets, Stores, UploadStates
    <2>6. \A p \in Given \cup Random : p # path => bucket'["gcs"][p] = bucket["gcs"][p]
      BY <1>0, <2>4 DEF Buckets, Stores
    <2>7. bucket'["gcs"][path] = Object(c, call[c].written = call[c].size)
      BY <1>0, <2>4, <2>5 DEF Buckets, Stores
    <2>8. Untouched(c, s, bucket'["gcs"])
      BY <1>0, <2>2, <2>7, <1>8 DEF Untouched, GcsFinish, At
    <2> HIDE DEF s
    <2> QED
      BY <1>0, <2>1, <2>2, <2>3, <2>5, <2>6, <2>8, OneUpload
  <1>9. CASE GcsMetadata(c)
    <2>1. \/ Over(c, "resolved") /\ UNCHANGED faults
          \/ Over(c, "rejected") /\ (UNCHANGED faults \/ Fault)
      BY <1>9 DEF GcsMetadata
    <2> QED
      BY <1>9, <1>0, <1>f, <2>1, OverKeeps DEF GcsMetadata
  <1> QED
    BY <1>1, <1>2, <1>3, <1>4, <1>5, <1>6, <1>7, <1>8, <1>9

\* Steps of an upload to S3.
LEMMA S3Keeps ==
    ASSUME UploadInv, NEW c \in Calls,
           \/ \E u \in Uploads : S3Upload(c, u[1], u[2])
           \/ S3Data(c) \/ S3End(c) \/ S3SourceFails(c) \/ S3Send(c)
    PROVE  UploadInv'
  <1>0. /\ call \in [Calls -> UploadStates] /\ call[c] \in UploadStates
        /\ bucket \in Buckets /\ faults \in 0..MaxFaults /\ MaxFaults \in Nat
        /\ WellFormed(call[c])
    BY CloudStorageAssumption DEF UploadInv
  <1>f. Fault => faults' \in 0..MaxFaults
    BY <1>0 DEF Fault
  <1>1. ASSUME NEW u \in Uploads, S3Upload(c, u[1], u[2]) PROVE UploadInv'
    <2>1. PICK path \in Given \cup Destinations(c) :
            call' = [call EXCEPT ![c] = Begun("s3", "collecting", path, u)]
      BY <1>1 DEF S3Upload, Begun
    <2> DEFINE s == Begun("s3", "collecting", path, u)
    <2>2. path \in Given \cup Random /\ "s3" \in Stores
      BY DEF Destinations, Stores
    <2>3. WellFormed(s) /\ s.kind = "s3" /\ s.path = path
      BY <2>2, Started
    <2>4. call' = [call EXCEPT ![c] = s] /\ UNCHANGED <<bucket, faults>>
      BY <2>1, <1>1 DEF S3Upload
    <2> HIDE DEF s
    <2>5. Untouched(c, s, bucket["gcs"])
      BY <2>3 DEF Untouched
    <2> QED
      BY <1>0, <2>3, <2>4, <2>5, OneUploadAlone
  <1>2. CASE S3Data(c)
    <2>1. CASE TooLarge(c)
      BY <1>0, <1>2, <2>1, OverKeeps DEF S3Data
    <2>2. CASE ~TooLarge(c)
      <3> DEFINE s == [call[c] EXCEPT !.received = @ + 1, !.written = @ + 1]
      <3>1. call' = [call EXCEPT ![c] = s] /\ UNCHANGED <<bucket, faults>>
        BY <1>0, <1>2, <2>2 DEF S3Data
      <3>2. s \in UploadStates
        <4>1. call[c].received + 1 \in 0..MaxChunks /\ call[c].written + 1 \in 0..MaxChunks
          BY <1>0, <1>2, CloudStorageAssumption DEF S3Data, UploadStates, WellFormed
        <4> QED
          BY <1>0, <4>1 DEF UploadStates
      <3>3. /\ s.kind = "s3" /\ s.pc = "collecting" /\ s.path = call[c].path
            /\ s.size = call[c].size /\ s.limit = call[c].limit /\ s.replaced = call[c].replaced
            /\ s.received = call[c].received + 1 /\ s.written = call[c].written + 1
            /\ s.result = call[c].result
        BY <1>0, <1>2 DEF S3Data, At, UploadStates
      <3> HIDE DEF s
      <3>4. WellFormed(s) /\ Live(call[c])
        BY <1>0, <1>2, <2>2, <3>2, <3>3
           DEF S3Data, At, WellFormed, Counted, Live, TooLarge, UploadStates, Stores
      <3>5. Untouched(c, s, bucket["gcs"])
        BY <3>3 DEF Untouched
      <3> QED
        BY <1>0, <3>1, <3>3, <3>4, <3>5, OneUploadAlone
    <2> QED
      BY <2>1, <2>2
  <1>3. CASE S3End(c)
    <2> DEFINE s == [call[c] EXCEPT !.source = "ended", !.pc = "sending"]
    <2>1. call' = [call EXCEPT ![c] = s] /\ UNCHANGED <<bucket, faults>> /\ s \in UploadStates
      BY <1>0, <1>3 DEF S3End, UploadStates
    <2>2. /\ s.kind = "s3" /\ s.path = call[c].path /\ WellFormed(s) /\ Live(call[c])
      BY <1>0, <1>3, <2>1 DEF S3End, At, WellFormed, Counted, Live, UploadStates, Stores
    <2>3. Untouched(c, s, bucket["gcs"])
      BY <2>2 DEF Untouched
    <2> HIDE DEF s
    <2> QED
      BY <1>0, <2>1, <2>2, <2>3, OneUploadAlone
  <1>4. CASE S3SourceFails(c)
    BY <1>0, <1>f, <1>4, OverKeeps DEF S3SourceFails
  <1>5. CASE S3Send(c)
    <2>1. bucket' \in Buckets /\ bucket'["gcs"] = bucket["gcs"]
      <3>1. CASE UNCHANGED bucket
        BY <1>0, <3>1
      <3>2. CASE Put(c, "s3")
        <4>1. Object(c, call[c].written = call[c].size) \in Objects /\ call[c].path \in Given \cup Random
          BY <1>0 DEF Object, Objects, UploadStates
        <4> QED
          BY <1>0, <3>2, <4>1 DEF Put, Buckets, Stores
      <3> QED
        BY <1>5, <3>1, <3>2 DEF S3Send
    <2>2. \/ Over(c, "resolved") /\ UNCHANGED faults
          \/ Over(c, "rejected") /\ Fault
      BY <1>5 DEF S3Send
    <2> QED
      BY <1>0, <1>f, <2>1, <2>2, OverKeeps
  <1> QED
    BY <1>1, <1>2, <1>3, <1>4, <1>5

\* An upload to Gemini writes no object.
LEMMA GeminiState ==
    ASSUME UploadInv, NEW c \in Calls, NEW s, WellFormed(s), s.kind = "gemini",
           call' = [call EXCEPT ![c] = s], UNCHANGED bucket, faults' \in 0..MaxFaults
    PROVE  UploadInv'
  <1>1. ~Live(s) /\ Untouched(c, s, bucket["gcs"])
    BY DEF Live, Stores, Untouched
  <1> QED
    BY <1>1, OneUploadAlone

\* The end of an upload to Gemini, which deletes its local copy.
LEMMA FinallyKeeps ==
    ASSUME UploadInv, NEW c \in Calls, NEW s, NEW result \in {"resolved", "failure"},
           WellFormed(s), s.kind = "gemini", s.pc # "finished", Finally(c, s, result)
    PROVE  UploadInv'
  <1>1. PICK temp \in {"none", "stuck"} :
          call' = [call EXCEPT ![c] = [s EXCEPT !.pc = "over", !.result = result, !.temp = temp]]
    BY DEF Finally
  <1> DEFINE t == [s EXCEPT !.pc = "over", !.result = result, !.temp = temp]
  <1>2. t \in UploadStates
    BY DEF WellFormed, UploadStates
  <1>3. /\ t.kind = "gemini" /\ t.pc = "over" /\ t.written = s.written /\ t.received = s.received
        /\ t.size = s.size /\ t.replaced = s.replaced
    BY DEF WellFormed, UploadStates
  <1>4. call' = [call EXCEPT ![c] = t]
    BY <1>1
  <1> HIDE DEF t
  <1>5. WellFormed(t)
    BY <1>2, <1>3 DEF WellFormed, Counted, Live
  <1>6. UNCHANGED bucket /\ faults' \in 0..MaxFaults
    BY CloudStorageAssumption DEF UploadInv, Finally, Fault
  <1> QED
    BY <1>3, <1>4, <1>5, <1>6, GeminiState

\* Steps of an upload to Gemini.
LEMMA GeminiKeeps ==
    ASSUME UploadInv, NEW c \in Calls,
           \/ GeminiRefused(c) \/ GeminiUpload(c) \/ GeminiUploaded(c)
           \/ GeminiProcessing(c) \/ GeminiWakes(c) \/ GeminiProcessed(c)
    PROVE  UploadInv'
  <1>0. /\ call \in [Calls -> UploadStates] /\ call[c] \in UploadStates
        /\ faults \in 0..MaxFaults /\ WellFormed(call[c])
    BY DEF UploadInv
  <1>1. ASSUME NEW s \in UploadStates, s.kind = "gemini", ~s.replaced,
               s.pc \notin {"ending", "finished", "sending"},
               s.written = 0, s.received = 0, s.size = 0
        PROVE  WellFormed(s)
    BY <1>1 DEF WellFormed, Counted, Live, Stores
  <1>2. CASE GeminiRefused(c)
    <2> DEFINE s == [New EXCEPT !.kind = "gemini", !.pc = "over", !.result = "rejected"]
    <2>1. s \in UploadStates
      BY NewTyped DEF UploadStates
    <2>2. /\ s.kind = "gemini" /\ ~s.replaced /\ s.pc = "over"
          /\ s.written = 0 /\ s.received = 0 /\ s.size = 0
      BY DEF New
    <2>3. call' = [call EXCEPT ![c] = s] /\ UNCHANGED <<bucket, faults>>
      BY <1>2 DEF GeminiRefused
    <2> HIDE DEF s
    <2> QED
      BY <1>0, <1>1, <2>1, <2>2, <2>3, GeminiState
  <1>3. CASE GeminiUpload(c)
    <2>1. ASSUME call' = [call EXCEPT ![c] = [New EXCEPT !.kind = "gemini", !.pc = "uploading",
                                                         !.temp = "there"]],
                 UNCHANGED <<bucket, faults>>
          PROVE  UploadInv'
      <3> DEFINE s == [New EXCEPT !.kind = "gemini", !.pc = "uploading", !.temp = "there"]
      <3>1. s \in UploadStates
        BY NewTyped DEF UploadStates
      <3>2. /\ s.kind = "gemini" /\ ~s.replaced /\ s.pc = "uploading"
            /\ s.written = 0 /\ s.received = 0 /\ s.size = 0
        BY DEF New
      <3>3. call' = [call EXCEPT ![c] = s]
        BY <2>1
      <3> HIDE DEF s
      <3> QED
        BY <1>0, <1>1, <2>1, <3>1, <3>2, <3>3, GeminiState
    <2>2. ASSUME NEW temp \in {"none", "there"},
                 Finally(c, [New EXCEPT !.kind = "gemini", !.temp = temp], "failure")
          PROVE  UploadInv'
      <3> DEFINE s == [New EXCEPT !.kind = "gemini", !.temp = temp]
      <3>1. s \in UploadStates
        BY NewTyped DEF UploadStates
      <3>2. /\ s.kind = "gemini" /\ ~s.replaced /\ s.pc = "idle"
            /\ s.written = 0 /\ s.received = 0 /\ s.size = 0
        BY DEF New
      <3>3. Finally(c, s, "failure")
        BY <2>2
      <3> HIDE DEF s
      <3> QED
        BY <1>1, <3>1, <3>2, <3>3, FinallyKeeps
    <2> QED
      BY <1>3, <2>1, <2>2 DEF GeminiUpload
  <1>4. ASSUME NEW pc \in {"polling", "sleeping"}, call[c].kind = "gemini",
               call[c].pc # "finished",
               call' = [call EXCEPT ![c].pc = pc], UNCHANGED <<bucket, faults>>
        PROVE  UploadInv'
    <2> DEFINE s == [call[c] EXCEPT !.pc = pc]
    <2>1. s \in UploadStates /\ call' = [call EXCEPT ![c] = s]
      BY <1>0, <1>4 DEF UploadStates
    <2>2. /\ s.kind = "gemini" /\ s.pc = pc /\ s.replaced = call[c].replaced
          /\ s.written = call[c].written /\ s.received = call[c].received /\ s.size = call[c].size
      BY <1>0, <1>4 DEF UploadStates
    <2> HIDE DEF s
    <2>3. WellFormed(s)
      BY <1>0, <1>4, <2>1, <2>2 DEF WellFormed, Counted, Live, Stores
    <2> QED
      BY <1>0, <1>4, <2>1, <2>2, <2>3, GeminiState
  <1>5. CASE GeminiUploaded(c)
    BY <1>0, <1>4, <1>5, FinallyKeeps DEF GeminiUploaded, At
  <1>6. CASE GeminiProcessing(c)
    BY <1>4, <1>6 DEF GeminiProcessing, At
  <1>7. CASE GeminiWakes(c)
    BY <1>4, <1>7 DEF GeminiWakes, At
  <1>8. CASE GeminiProcessed(c)
    BY <1>0, <1>8, FinallyKeeps DEF GeminiProcessed, At
  <1> QED
    BY <1>2, <1>3, <1>5, <1>6, <1>7, <1>8

\* A deletion writes no object.
LEMMA DeleteKeeps ==
    ASSUME UploadInv, NEW path \in Given \cup Random, GcsDelete(path) \/ S3Delete(path)
    PROVE  UploadInv'
  <1>1. bucket \in Buckets /\ NoObject \in Objects
    BY DEF UploadInv, NoObject, Objects
  <1>2. /\ bucket' \in Buckets
        /\ \A p \in Given \cup Random : bucket'["gcs"][p] \in {bucket["gcs"][p], NoObject}
    BY <1>1 DEF GcsDelete, S3Delete, Buckets, Stores
  <1>3. UNCHANGED <<call, faults>>
    BY DEF GcsDelete, S3Delete
  <1>4. ASSUME NEW c \in Calls PROVE Untouched(c, call[c], bucket'["gcs"])
    <2>1. Untouched(c, call[c], bucket["gcs"]) /\ call[c].path \in Given \cup Random
      BY DEF UploadInv, UploadStates
    <2> QED
      BY <1>2, <2>1 DEF Untouched
  <1> QED
    BY <1>2, <1>3, <1>4 DEF UploadInv, Alone

\* Every step keeps UploadInv.
LEMMA NextKeeps == UploadInv /\ [Next]_vars => UploadInv'
  <1> SUFFICES ASSUME UploadInv, [Next]_vars PROVE UploadInv'
    OBVIOUS
  <1>1. ASSUME NEW c \in Calls,
               \/ Start(c) \/ Step(c) \/ GeminiProcessing(c)
               \/ GcsSourceFails(c) \/ GcsSourceCloses(c) \/ GcsWriteFails(c) \/ S3SourceFails(c)
        PROVE  UploadInv'
    <2>1. CASE Start(c)
      BY <2>1, GcsKeeps, S3Keeps, GeminiKeeps DEF Start
    <2>2. CASE Step(c)
      BY <2>2, GcsKeeps, S3Keeps, GeminiKeeps DEF Step
    <2> QED
      BY <1>1, <2>1, <2>2, GcsKeeps, S3Keeps, GeminiKeeps
  <1>2. CASE \E path \in Given \cup Random : GcsDelete(path) \/ S3Delete(path)
    BY <1>2, DeleteKeeps
  <1>3. CASE UNCHANGED vars
    BY <1>3 DEF vars, UploadInv, Alone
  <1> QED
    BY <1>1, <1>2, <1>3 DEF Next

\* A step of an upload that resolves finds the object whole and its own.
LEMMA ResolvesWhole ==
    ASSUME UploadInv, [Next]_vars, NEW c \in Calls, call[c].kind \in Stores,
           call[c].result = "pending", call'[c].result = "resolved"
    PROVE  LET path == call[c].path
               object == bucket'[call[c].kind][path]
           IN  /\ call[c].limit # 0 => call[c].size <= call[c].limit
               /\ call[c].written = call[c].size
               /\ path \in Random => object = Object(c, TRUE) /\ ~call[c].replaced
  <1>0. /\ call \in [Calls -> UploadStates] /\ call[c] \in UploadStates /\ WellFormed(call[c])
        /\ bucket \in Buckets /\ Untouched(c, call[c], bucket["gcs"])
    BY DEF UploadInv
  <1>1. Settle(c, "rejected") # "resolved"
    BY DEF Settle
  <1>2. Over(c, "rejected") => call'[c].result # "resolved"
    BY <1>0, <1>1 DEF Over, New
  <1>3. \/ At(c, "gcs", "finished") /\ bucket["gcs"][call[c].path] # NoObject /\ UNCHANGED bucket
        \/ At(c, "s3", "sending") /\ Put(c, "s3")
    <2>2. PICK d \in Calls :
            \/ Start(d) \/ Step(d) \/ GeminiProcessing(d)
            \/ GcsSourceFails(d) \/ GcsSourceCloses(d) \/ GcsWriteFails(d) \/ S3SourceFails(d)
      <3>1. call'[c] # call[c]
        OBVIOUS
      <3>2. ~\E path \in Given \cup Random : GcsDelete(path) \/ S3Delete(path)
        BY <3>1 DEF GcsDelete, S3Delete
      <3> QED
        BY <3>1, <3>2 DEF Next, vars
    <2>3. d = c
      <3>1. CASE Start(d)
        BY <3>1, <1>0 DEF Start, GcsUpload, S3Upload, GeminiRefused, GeminiUpload, Finally
      <3>2. CASE Exists(d) \/ GcsData(d) \/ GcsEnd(d) \/ GcsFinish(d) \/ GcsMetadata(d)
        BY <3>2, <1>0 DEF Exists, GcsData, GcsEnd, GcsFinish, GcsMetadata, Over
      <3>3. CASE S3Data(d) \/ S3End(d) \/ S3Send(d)
        BY <3>3, <1>0 DEF S3Data, S3End, S3Send, Over
      <3>4. CASE GeminiUploaded(d) \/ GeminiWakes(d) \/ GeminiProcessed(d) \/ GeminiProcessing(d)
        BY <3>4, <1>0 DEF GeminiUploaded, GeminiWakes, GeminiProcessed, GeminiProcessing, Finally
      <3>5. CASE GcsSourceFails(d) \/ GcsSourceCloses(d) \/ GcsWriteFails(d) \/ S3SourceFails(d)
        BY <3>5, <1>0 DEF GcsSourceFails, GcsSourceCloses, GcsWriteFails, S3SourceFails, Over
      <3> QED
        BY <2>2, <3>1, <3>2, <3>3, <3>4, <3>5 DEF Step
    <2>4. CASE Start(c)
      <3>1. ASSUME NEW u \in Uploads, GcsUpload(c, u[1], u[2]) \/ S3Upload(c, u[1], u[2])
            PROVE  FALSE
        BY <3>1, <1>0 DEF GcsUpload, S3Upload, New
      <3>2. CASE GeminiRefused(c)
        BY <3>2, <1>0 DEF GeminiRefused, New
      <3>3. CASE GeminiUpload(c)
        <4>1. CASE call' = [call EXCEPT ![c] = [New EXCEPT !.kind = "gemini", !.pc = "uploading",
                                                           !.temp = "there"]]
          BY <4>1, <1>0 DEF New
        <4>2. ASSUME NEW state \in UploadStates, Finally(c, state, "failure") PROVE FALSE
          <5>1. PICK temp : call' = [call EXCEPT ![c] = [state EXCEPT !.pc = "over", !.result = "failure",
                                                                      !.temp = temp]]
            BY <4>2 DEF Finally
          <5> QED
            BY <5>1, <1>0 DEF UploadStates
        <4>3. \A temp \in {"none", "there"} : [New EXCEPT !.kind = "gemini", !.temp = temp] \in UploadStates
          BY NewTyped DEF UploadStates
        <4> QED
          BY <3>3, <4>1, <4>2, <4>3 DEF GeminiUpload
      <3> QED
        BY <2>4, <3>1, <3>2, <3>3 DEF Start
    <2>5. CASE Exists(c) \/ GcsData(c) \/ GcsEnd(c) \/ GcsFinish(c) \/ GcsMetadata(c)
      <3>1. CASE Exists(c)
        BY <3>1, <1>0, <1>2 DEF Exists, UploadStates
      <3>2. CASE GcsData(c) \/ GcsEnd(c) \/ GcsFinish(c)
        BY <3>2, <1>0, <1>1 DEF GcsData, GcsEnd, GcsFinish, UploadStates
      <3>3. CASE GcsMetadata(c)
        BY <3>3, <1>2 DEF GcsMetadata
      <3> QED
        BY <2>5, <3>1, <3>2, <3>3
    <2>6. CASE S3Data(c) \/ S3End(c) \/ S3Send(c)
      <3>1. CASE S3Data(c) \/ S3End(c)
        BY <3>1, <1>0, <1>2 DEF S3Data, S3End, UploadStates
      <3>2. CASE S3Send(c)
        BY <3>2, <1>2 DEF S3Send
      <3> QED
        BY <2>6, <3>1, <3>2
    <2>7. CASE GeminiUploaded(c) \/ GeminiWakes(c) \/ GeminiProcessed(c) \/ GeminiProcessing(c)
      BY <2>7 DEF GeminiUploaded, GeminiWakes, GeminiProcessed, GeminiProcessing, At, Stores
    <2>8. CASE GcsSourceFails(c) \/ GcsSourceCloses(c) \/ GcsWriteFails(c) \/ S3SourceFails(c)
      BY <2>8, <1>0, <1>1, <1>2 DEF GcsSourceFails, GcsSourceCloses, GcsWriteFails,
         S3SourceFails, UploadStates
    <2> QED
      BY <2>2, <2>3, <2>4, <2>5, <2>6, <2>7, <2>8 DEF Step
  <1>4. CASE At(c, "gcs", "finished") /\ bucket["gcs"][call[c].path] # NoObject /\ UNCHANGED bucket
    BY <1>0, <1>4 DEF At, WellFormed, Counted, Live, Untouched, UploadStates
  <1>5. CASE At(c, "s3", "sending") /\ Put(c, "s3")
    <2>1. call[c].written = call[c].size /\ ~call[c].replaced
          /\ (call[c].limit # 0 => call[c].size <= call[c].limit)
      BY <1>0, <1>5 DEF At, WellFormed, Counted, Live
    <2>2. bucket'["s3"][call[c].path] = Object(c, TRUE)
      BY <1>0, <1>5, <2>1 DEF Put, Buckets, UploadStates, Stores
    <2> QED
      BY <1>5, <2>1, <2>2 DEF At
  <1> QED
    BY <1>3, <1>4, <1>5

-----------------------------------------------------------------------------

\* Every state has the type of TypeOK: no upload, to any of the services, has
\* written more chunks than it received or received more than there are, and
\* the end of a source comes after its last chunk.
THEOREM TypeCorrect == Spec => []TypeOK
  <1>1. UploadInv => TypeOK
    BY DEF UploadInv, TypeOK, WellFormed, Buckets, Objects
  <1> QED
    BY <1>1, InitKeeps, NextKeeps, PTL DEF Spec

\* An upload of GoogleCloudStorage.ts or AWSS3.ts that resolves has stored all
\* of its source, within its limit, and under a random name of its own it has
\* replaced nothing and its object is still there, whatever the other uploads
\* and deletions do meanwhile.
THEOREM ResolvedMeansWhole == Spec => ResolvedWhole
  <1>1. UploadInv /\ [Next]_vars =>
          \A c \in Calls :
             LET path == call[c].path
                 object == bucket'[call[c].kind][path]
             IN  /\ call[c].kind \in Stores
                 /\ call[c].result = "pending" /\ call'[c].result = "resolved"
                 => /\ call[c].limit # 0 => call[c].size <= call[c].limit
                    /\ call[c].written = call[c].size
                    /\ path \in Random => object = Object(c, TRUE) /\ ~call[c].replaced
    BY ResolvesWhole
  <1> QED
    BY <1>1, InitKeeps, NextKeeps, PTL DEF Spec, ResolvedWhole
-----------------------------------------------------------------------------
(* MultiPartUpload, the other way in which a file comes in.                *)

\* The states of a request.
ReqStates ==
    [pc : {"idle", "open", "write", "list", "create", "read", "merge", "sweep", "clean",
           "hung"},
     chunk : Indices, fd : BOOLEAN, at : Chunks, got : SUBSET Chunks,
     answer : {"none", "pending", "complete", "error"}]

\* UploadTypeOK, and nothing is written to what a removed folder has left behind.
UploadTyped ==
    /\ UploadTypeOK
    /\ ~folder => \A r \in Requests : ~req[r].fd

\* A request that is not under way is one of the states.
LEMMA IdleTyped == Idle \in ReqStates /\ 0 \in Chunks /\ 0 \in Indices
<1>1. 0 \in Chunks
  BY UploadAssumption DEF Chunks
<1>2. QED
  BY <1>1, UploadAssumption DEF Idle, ReqStates

\* At the start there is no folder and no request.
LEMMA UploadTypedInit == UploadInit => UploadTyped
<1> SUFFICES ASSUME UploadInit PROVE UploadTyped
  OBVIOUS
<1>1. req \in [Requests -> ReqStates]
  BY IdleTyped DEF UploadInit
<1>2. \A r \in Requests : ~req[r].fd
  BY DEF UploadInit, Idle
<1>3. diskFaults \in 0..MaxDiskFaults
  BY UploadAssumption DEF UploadInit
<1>4. UploadTypeOK
  BY <1>1, <1>3 DEF UploadInit, UploadTypeOK, ReqStates
<1>5. QED
  BY <1>2, <1>4 DEF UploadTyped

\* Unlinking files takes them from the folder, and their handles from those
\* who write to them.
LEMMA UnlinkTyped ==
    ASSUME UploadTyped, NEW files, NEW next \in [Requests -> ReqStates], Unlink(files, next)
    PROVE  /\ part' \in [Indices -> {"none", "partial", "whole"}]
           /\ req' \in [Requests -> ReqStates]
           /\ \A i \in Indices : part'[i] = IF i \in files THEN "none" ELSE part[i]
           /\ \A r \in Requests :
                  req'[r] = IF next[r].chunk \in files THEN [next[r] EXCEPT !.fd = FALSE]
                                                       ELSE next[r]
<1>1. part' \in [Indices -> {"none", "partial", "whole"}]
  BY DEF UploadTyped, UploadTypeOK, Unlink
<1>2. \A r \in Requests : [next[r] EXCEPT !.fd = FALSE] \in ReqStates
  BY DEF ReqStates
<1>3. req' \in [Requests -> ReqStates]
  BY <1>2 DEF Unlink
<1>4. QED
  BY <1>1, <1>3 DEF Unlink

\* Every operation keeps the types.
LEMMA UploadTypedStep == UploadTyped /\ [UploadNext]_uploadVars => UploadTyped'
<1> SUFFICES ASSUME UploadTyped, [UploadNext]_uploadVars PROVE UploadTyped'
  OBVIOUS
<1> DEFINE Disk(f, p, d, s) ==
              /\ f \in BOOLEAN /\ p \in [Indices -> {"none", "partial", "whole"}]
              /\ ~f => \A i \in Indices : p[i] = "none"
              /\ d \subseteq Chunks /\ s \in BOOLEAN
<1>1. /\ folder \in BOOLEAN /\ part \in [Indices -> {"none", "partial", "whole"}]
      /\ ~folder => \A i \in Indices : part[i] = "none"
      /\ final \in {"absent", "empty", "whole", "wrong"}
      /\ req \in [Requests -> ReqStates]
      /\ removing \subseteq Chunks /\ unsure \subseteq Indices
      /\ dropping \in BOOLEAN /\ diskFaults \in 0..MaxDiskFaults
      /\ ~folder => \A r \in Requests : ~req[r].fd
  BY DEF UploadTyped, UploadTypeOK, ReqStates
<1>2. ASSUME /\ folder' \in BOOLEAN /\ part' \in [Indices -> {"none", "partial", "whole"}]
             /\ ~folder' => \A i \in Indices : part'[i] = "none"
             /\ final' \in {"absent", "empty", "whole", "wrong"}
             /\ req' \in [Requests -> ReqStates]
             /\ removing' \subseteq Chunks /\ unsure' \subseteq Indices
             /\ dropping' \in BOOLEAN /\ diskFaults' \in 0..MaxDiskFaults
             /\ ~folder' => \A r \in Requests : ~req'[r].fd
      PROVE  UploadTyped'
  BY <1>2 DEF UploadTyped, UploadTypeOK, ReqStates
<1>3. MayFail => diskFaults' \in 0..MaxDiskFaults
  BY <1>1, UploadAssumption DEF MayFail
<1>4. ASSUME NEW r \in Requests, NEW a \in {"pending", "complete", "error"}, Answer(r, a)
      PROVE  /\ req' \in [Requests -> ReqStates] /\ unsure' \subseteq Indices
             /\ ~folder => \A q \in Requests : ~req'[q].fd
  <2>1. [Idle EXCEPT !.answer = a] \in ReqStates /\ ~[Idle EXCEPT !.answer = a].fd
    BY IdleTyped DEF Idle, ReqStates
  <2>2. QED
    BY <1>1, <1>4, <2>1 DEF Answer
<1>5. ASSUME NEW r \in Requests, NEW p \in {"create", "read", "sweep", "clean", "hung"}, Goto(r, p)
      PROVE  /\ req' \in [Requests -> ReqStates]
             /\ ~folder => \A q \in Requests : ~req'[q].fd
  <2>1. [req[r] EXCEPT !.pc = p] \in ReqStates /\ [req[r] EXCEPT !.pc = p].fd = req[r].fd
    BY <1>1 DEF ReqStates
  <2>2. req' = [req EXCEPT ![r] = [req[r] EXCEPT !.pc = p]]
    BY <1>1, <1>5 DEF Goto
  <2>3. QED
    BY <1>1, <2>1, <2>2
<1>6. ASSUME NEW r \in Requests, NEW i \in Indices, Receive(r, i)
      PROVE  UploadTyped'
  <2>1. [Idle EXCEPT !.pc = "open", !.chunk = i] \in ReqStates
    BY IdleTyped DEF Idle, ReqStates
  <2>2. QED
    BY <1>1, <1>2, <1>6, <2>1 DEF Receive
<1>7. ASSUME NEW r \in Requests, OpenPart(r)
      PROVE  UploadTyped'
  <2>0. req[r] \in ReqStates /\ req[r].chunk \in Indices
    BY <1>1 DEF ReqStates
  <2>1. CASE folder
    <3>1. [req[r] EXCEPT !.pc = "write", !.fd = TRUE] \in ReqStates
      BY <2>0 DEF ReqStates
    <3>2. req' = [req EXCEPT ![r] = [req[r] EXCEPT !.pc = "write", !.fd = TRUE]]
      BY <1>1, <1>7, <2>1 DEF OpenPart
    <3>3. req' \in [Requests -> ReqStates]
      BY <1>1, <3>1, <3>2
    <3>4. QED
      BY <1>1, <1>2, <1>7, <2>0, <2>1, <3>3 DEF OpenPart
  <2>2. CASE ~folder
    <3>1. Answer(r, "error") /\ UNCHANGED <<part, folder, final, removing, dropping, diskFaults>>
      BY <1>7, <2>2 DEF OpenPart
    <3>2. QED
      BY <1>1, <1>2, <1>4, <3>1
  <2>3. QED
    BY <1>1, <2>1, <2>2
<1>8. ASSUME NEW r \in Requests, WritePart(r)
      PROVE  UploadTyped'
  <2>0. req[r] \in ReqStates /\ req[r].chunk \in Indices
    BY <1>1 DEF ReqStates
  <2>1. [req[r] EXCEPT !.pc = "list", !.fd = FALSE] \in ReqStates
    BY <2>0 DEF ReqStates
  <2>2. req' = [req EXCEPT ![r] = [req[r] EXCEPT !.pc = "list", !.fd = FALSE]]
    BY <1>1, <1>8 DEF WritePart
  <2>3. req' \in [Requests -> ReqStates]
    BY <1>1, <2>1, <2>2
  <2>4. ~folder => \A q \in Requests : ~req'[q].fd
    BY <1>1, <2>0, <2>2 DEF ReqStates
  <2>5. /\ part' \in [Indices -> {"none", "partial", "whole"}]
        /\ ~folder => \A i \in Indices : part'[i] = "none"
    BY <1>1, <1>8, <2>0 DEF WritePart
  <2>6. QED
    BY <1>1, <1>2, <1>8, <2>3, <2>4, <2>5 DEF WritePart
<1>9. ASSUME NEW r \in Requests, WriteFails(r)
      PROVE  UploadTyped'
  BY <1>1, <1>2, <1>3, <1>4, <1>9 DEF WriteFails, diskVars
<1>10. ASSUME NEW r \in Requests, List(r)
       PROVE  UploadTyped'
  <2>1. CASE (Goto(r, "create") \/ Goto(r, "hung")) /\ UNCHANGED <<unsure, diskVars, diskFaults>>
    BY <1>1, <1>2, <1>5, <2>1 DEF diskVars
  <2>2. CASE Answer(r, "pending") /\ UNCHANGED <<diskVars, diskFaults>>
    BY <1>1, <1>2, <1>4, <2>2 DEF diskVars
  <2>3. QED
    BY <1>10, <2>1, <2>2 DEF List
<1>11. ASSUME NEW r \in Requests, CreateFinal(r)
       PROVE  UploadTyped'
  BY <1>1, <1>2, <1>5, <1>11 DEF CreateFinal
<1>12. ASSUME NEW r \in Requests, ReadPart(r)
       PROVE  UploadTyped'
  <2> DEFINE k == req[r].at
             read == [req[r] EXCEPT !.got = IF part[k] = "whole" THEN @ \cup {k} ELSE @]
  <2>a. req[r] \in ReqStates /\ k \in Chunks /\ req[r].got \in SUBSET Chunks
    BY <1>1 DEF ReqStates
  <2>b. \A g \in SUBSET Chunks : /\ [req[r] EXCEPT !.got = g] \in ReqStates
                                 /\ [req[r] EXCEPT !.got = g].fd = req[r].fd
    BY <2>a DEF ReqStates
  <2>c. PICK g \in SUBSET Chunks : read = [req[r] EXCEPT !.got = g]
    <3>1. CASE part[k] = "whole"
      <4>1. read = [req[r] EXCEPT !.got = req[r].got \cup {k}]
        BY <3>1, <2>a DEF ReqStates
      <4>2. QED
        BY <2>a, <4>1
    <3>2. CASE part[k] # "whole"
      <4>1. read = [req[r] EXCEPT !.got = req[r].got]
        BY <3>2, <2>a DEF ReqStates
      <4>2. QED
        BY <2>a, <4>1
    <3>3. QED
      BY <3>1, <3>2
  <2>0. req[r] \in ReqStates /\ k \in Chunks /\ read \in ReqStates /\ read.fd = req[r].fd
    BY <2>a, <2>b, <2>c
  <2>1. CASE Goto(r, "clean") /\ UNCHANGED <<removing, folder, part, final, dropping, unsure, diskFaults>>
    BY <1>1, <1>2, <1>5, <2>1
  <2>2. CASE /\ k + 1 \in Chunks
             /\ req' = [req EXCEPT ![r] = [read EXCEPT !.at = k + 1]]
             /\ UNCHANGED <<removing, folder, part, final, dropping, unsure, diskFaults>>
    <3>1. [read EXCEPT !.at = k + 1] \in ReqStates /\ [read EXCEPT !.at = k + 1].fd = req[r].fd
      BY <2>0, <2>2 DEF ReqStates
    <3> HIDE DEF k, read
    <3>2. QED
      BY <1>1, <1>2, <2>2, <3>1
  <2>3. CASE /\ req' = [req EXCEPT ![r] = [read EXCEPT !.pc = "merge"]]
             /\ removing' = removing \cup Chunks
             /\ UNCHANGED <<folder, part, final, dropping, unsure, diskFaults>>
    <3>1. [read EXCEPT !.pc = "merge"] \in ReqStates /\ [read EXCEPT !.pc = "merge"].fd = req[r].fd
      BY <2>0 DEF ReqStates
    <3> HIDE DEF k, read
    <3>2. QED
      BY <1>1, <1>2, <2>3, <3>1
  <2>4. QED
    BY <1>12, <2>1, <2>2, <2>3 DEF ReadPart
<1>13. ASSUME NEW r \in Requests, Finish(r)
       PROVE  UploadTyped'
  BY <1>1, <1>2, <1>5, <1>13 DEF Finish, Merged
<1>14. ASSUME NEW r \in Requests, FinishFails(r)
       PROVE  UploadTyped'
  BY <1>1, <1>2, <1>3, <1>4, <1>14 DEF FinishFails
<1>15. ASSUME NEW r \in Requests, RemoveFolder(r)
       PROVE  UploadTyped'
  <2> DEFINE last == [Idle EXCEPT !.answer = IF req[r].pc = "sweep" THEN "complete" ELSE "error"]
             next == [req EXCEPT ![r] = last]
  <2>1. last \in ReqStates
    BY IdleTyped DEF Idle, ReqStates
  <2>2. next \in [Requests -> ReqStates]
    BY <1>1, <2>1
  <2>3. Unlink(Indices, next)
    BY <1>15 DEF RemoveFolder
  <2> HIDE DEF last, next
  <2>4. /\ part' \in [Indices -> {"none", "partial", "whole"}] /\ req' \in [Requests -> ReqStates]
        /\ \A i \in Indices : part'[i] = "none"
        /\ \A q \in Requests : req'[q] = [next[q] EXCEPT !.fd = FALSE]
    BY <2>2, <2>3, UnlinkTyped DEF ReqStates
  <2>5. \A q \in Requests : ~req'[q].fd
    BY <2>2, <2>4 DEF ReqStates
  <2>6. QED
    BY <1>1, <1>2, <1>15, <2>4, <2>5 DEF RemoveFolder
<1>16. ASSUME NEW i \in Chunks, PartRemoved(i)
       PROVE  UploadTyped'
  <2> DEFINE files == {i}
  <2>1. Unlink(files, req)
    BY <1>16 DEF PartRemoved
  <2> HIDE DEF files
  <2>2. /\ part' \in [Indices -> {"none", "partial", "whole"}] /\ req' \in [Requests -> ReqStates]
        /\ \A j \in Indices : part'[j] = IF j \in files THEN "none" ELSE part[j]
        /\ \A q \in Requests :
               req'[q] = IF req[q].chunk \in files THEN [req[q] EXCEPT !.fd = FALSE] ELSE req[q]
    BY <1>1, <2>1, UnlinkTyped
  <2>3. \A q \in Requests : ~req[q].fd => ~req'[q].fd
    BY <1>1, <2>2 DEF ReqStates
  <2>4. QED
    BY <1>1, <1>2, <1>16, <2>2, <2>3 DEF PartRemoved
<1>17. CASE FolderDropped
  <2>1. /\ part' \in [Indices -> {"none", "partial", "whole"}] /\ req' \in [Requests -> ReqStates]
        /\ \A i \in Indices : part'[i] = "none"
        /\ \A q \in Requests : req'[q] = [req[q] EXCEPT !.fd = FALSE]
    BY <1>1, <1>17, UnlinkTyped DEF FolderDropped, ReqStates
  <2>2. \A q \in Requests : ~req'[q].fd
    BY <1>1, <2>1 DEF ReqStates
  <2>3. QED
    BY <1>1, <1>2, <1>17, <2>1, <2>2 DEF FolderDropped
<1>18. CASE Crash \/ RejectionExits
  <2>0. Die /\ diskFaults' \in 0..MaxDiskFaults
    BY <1>1, <1>3, <1>18 DEF Crash, RejectionExits
  <2>1. req' \in [Requests -> ReqStates] /\ \A q \in Requests : ~req'[q].fd
    BY <2>0, IdleTyped DEF Die, Idle
  <2>2. /\ part' \in [Indices -> {"none", "partial", "whole"}]
        /\ ~folder => \A i \in Indices : part'[i] = "none"
    BY <1>1, <2>0 DEF Die
  <2>3. QED
    BY <1>1, <1>2, <2>0, <2>1, <2>2 DEF Die
<1>19. CASE UNCHANGED uploadVars
  BY <1>1, <1>2, <1>19 DEF uploadVars, diskVars
<1>20. QED
  BY <1>6, <1>7, <1>8, <1>9, <1>10, <1>11, <1>12, <1>13, <1>14, <1>15, <1>16, <1>17, <1>18, <1>19
  DEF UploadNext, Handle

\* Every variable keeps its type; a folder that is gone holds no part.
THEOREM UploadTypeCorrect == UploadSpec => []UploadTypeOK
<1>1. UploadTyped => UploadTypeOK
  BY DEF UploadTyped
<1>2. QED
  BY <1>1, UploadTypedInit, UploadTypedStep, PTL DEF UploadSpec
-----------------------------------------------------------------------------
(* An upload that completes is whole, for a careful client with one request*)
(* at a time.                                                              *)

\* That request is of the only chunk the client is unsure of.
OneChunk ==
    /\ \A i, j \in unsure : i = j
    /\ \A r \in Requests : req[r].pc # "idle" =>
           /\ req[r].chunk \in unsure
           /\ \A q \in Requests \ {r} : req[q].pc = "idle"

\* A part that is not whole is that chunk's, until its request has written it.
PartialIsUnsure ==
    /\ \A i \in Indices : part[i] = "partial" => i \in unsure
    /\ \A r \in Requests :
           /\ req[r].pc = "idle" => ~req[r].fd
           /\ req[r].pc = "write" => req[r].fd \/ part[req[r].chunk] = "none"
           /\ req[r].pc \notin {"idle", "open", "write"} =>
                  \A i \in Indices : part[i] # "partial"

\* A merge has got every chunk before the one it is at.
GotInOrder ==
    \A r \in Requests :
        /\ req[r].pc \in {"open", "write", "list", "create"} =>
               req[r].at = 0 /\ req[r].got = {}
        /\ req[r].pc = "read" => req[r].got = {k \in Chunks : k < req[r].at}
        /\ req[r].pc = "merge" => req[r].got = Chunks
        /\ req[r].pc = "sweep" => final = "whole"

WholeInv == OneChunk /\ PartialIsUnsure /\ GotInOrder

\* At the start the client is unsure of nothing.
LEMMA WholeInit == UploadInit => WholeInv
<1> SUFFICES ASSUME UploadInit PROVE WholeInv
  OBVIOUS
<1>1. \A r \in Requests : req[r].pc = "idle" /\ ~req[r].fd
  BY DEF UploadInit, Idle
<1>2. QED
  BY <1>1 DEF UploadInit, WholeInv, OneChunk, PartialIsUnsure, GotInOrder

\* A step that ends what is under way: what is left partial is still unsure.
LEMMA AllOver ==
    ASSUME WholeInv, \A q \in Requests : req'[q].pc = "idle" /\ ~req'[q].fd,
           unsure' \subseteq unsure,
           \A i \in Indices : part'[i] = "partial" => i \in unsure'
    PROVE  WholeInv'
BY DEF WholeInv, OneChunk, PartialIsUnsure, GotInOrder

\* A step of the one request, from a stage to the next.
LEMMA OneMoves ==
    ASSUME UploadTyped, WholeInv, NEW r \in Requests, req[r].pc # "idle",
           NEW s \in ReqStates, req' = [req EXCEPT ![r] = s], s.chunk = req[r].chunk,
           UNCHANGED unsure,
           \A i \in Indices : part'[i] = "partial" => i \in unsure,
           s.pc # "idle", s.pc = "write" => s.fd \/ part'[s.chunk] = "none",
           s.pc \notin {"idle", "open", "write"} => \A i \in Indices : part'[i] # "partial",
           s.pc \in {"open", "write", "list", "create"} => s.at = 0 /\ s.got = {},
           s.pc = "read" => s.got = {k \in Chunks : k < s.at},
           s.pc = "merge" => s.got = Chunks,
           s.pc = "sweep" => final' = "whole"
    PROVE  WholeInv'
<1>1. req \in [Requests -> ReqStates]
  BY DEF UploadTyped, UploadTypeOK, ReqStates
<1>2. req'[r] = s /\ \A q \in Requests \ {r} : req'[q] = req[q] /\ req[q].pc = "idle"
  BY <1>1 DEF WholeInv, OneChunk
<1>3. OneChunk'
  <2>1. req[r].chunk \in unsure
    BY DEF WholeInv, OneChunk
  <2>2. QED
    BY <1>2, <2>1 DEF WholeInv, OneChunk
<1>4. PartialIsUnsure'
  BY <1>2 DEF WholeInv, PartialIsUnsure
<1>5. GotInOrder'
  BY <1>2 DEF GotInOrder
<1>6. QED
  BY <1>3, <1>4, <1>5 DEF WholeInv

\* Unlinking parts makes none partial, and takes the handle of none that is left.
LEMMA UnlinkKeepsWhole ==
    ASSUME UploadTyped, WholeInv, NEW files, Unlink(files, req), UNCHANGED <<unsure, final>>
    PROVE  WholeInv'
<1>1. req \in [Requests -> ReqStates] /\ part \in [Indices -> {"none", "partial", "whole"}]
  BY DEF UploadTyped, UploadTypeOK, ReqStates
<1>2. /\ \A i \in Indices : part'[i] = IF i \in files THEN "none" ELSE part[i]
      /\ \A r \in Requests :
             req'[r] = IF req[r].chunk \in files THEN [req[r] EXCEPT !.fd = FALSE] ELSE req[r]
  BY <1>1, UnlinkTyped
<1>3. \A r \in Requests :
          /\ req'[r].pc = req[r].pc /\ req'[r].chunk = req[r].chunk
          /\ req'[r].at = req[r].at /\ req'[r].got = req[r].got
          /\ req[r].chunk \in Indices
          /\ req'[r].fd = req[r].fd \/ (~req'[r].fd /\ part'[req[r].chunk] = "none")
  <2> TAKE r \in Requests
  <2>1. req[r] \in ReqStates
    BY <1>1
  <2>2. CASE req[r].chunk \in files
    <3>1. req'[r] = [req[r] EXCEPT !.fd = FALSE]
      BY <1>2, <2>2
    <3>2. part'[req[r].chunk] = "none"
      BY <1>2, <2>1, <2>2 DEF ReqStates
    <3>3. QED
      BY <2>1, <3>1, <3>2 DEF ReqStates
  <2>3. CASE req[r].chunk \notin files
    BY <1>2, <2>1, <2>3 DEF ReqStates
  <2>4. QED
    BY <2>2, <2>3
<1>4. OneChunk'
  BY <1>3 DEF WholeInv, OneChunk
<1>5. PartialIsUnsure'
  <2>1. \A i \in Indices : part'[i] = part[i] \/ part'[i] = "none"
    BY <1>2
  <2>2. \A i \in Indices : part'[i] = "partial" => part[i] = "partial"
    BY <2>1
  <2>3. \A i \in Indices : part[i] = "none" => part'[i] = "none"
    BY <2>1
  <2>4. QED
    BY <1>3, <2>2, <2>3 DEF WholeInv, PartialIsUnsure
<1>6. GotInOrder'
  BY <1>3 DEF WholeInv, GotInOrder
<1>7. QED
  BY <1>4, <1>5, <1>6 DEF WholeInv

\* A chunk is received when nothing else is under way, and while one is
\* unsure only that one.
LEMMA ReceiveKeepsWhole ==
    ASSUME Careful, MaxInFlight = 1, UploadTyped, WholeInv,
           NEW r \in Requests, NEW i \in Indices, Receive(r, i)
    PROVE  WholeInv'
<1>1. req \in [Requests -> ReqStates]
  BY DEF UploadTyped, UploadTypeOK, ReqStates
<1>2. \A q \in Requests : req[q].pc = "idle"
  <2>1. IsFiniteSet(InFlight)
    BY FS_Subset, UploadAssumption DEF InFlight
  <2>2. Cardinality(InFlight) = 0
    BY <2>1, FS_CardinalityType DEF Receive
  <2>3. InFlight = {}
    BY <2>1, <2>2, FS_EmptySet
  <2>4. QED
    BY <2>3 DEF InFlight
<1>3. /\ req'[r] = [Idle EXCEPT !.pc = "open", !.chunk = i]
      /\ \A q \in Requests \ {r} : req'[q] = req[q]
  BY <1>1 DEF Receive
<1>4. /\ req'[r].pc = "open" /\ req'[r].chunk = i
      /\ req'[r].at = 0 /\ req'[r].got = {}
  BY <1>3 DEF Idle
<1>5. unsure' = {i}
  BY DEF Receive, WholeInv, OneChunk
<1>6. OneChunk'
  BY <1>2, <1>3, <1>4, <1>5 DEF OneChunk
<1>7. PartialIsUnsure'
  <2>1. \A j \in Indices : part'[j] = "partial" => j \in unsure'
    BY DEF Receive, WholeInv, PartialIsUnsure
  <2>2. QED
    BY <1>2, <1>3, <1>4, <2>1 DEF WholeInv, PartialIsUnsure
<1>8. GotInOrder'
  BY <1>2, <1>3, <1>4 DEF GotInOrder
<1>9. QED
  BY <1>6, <1>7, <1>8 DEF WholeInv

\* The part is opened, and then whole: nobody else writes it.
LEMMA WriteKeepsWhole ==
    ASSUME UploadTyped, WholeInv, NEW r \in Requests, OpenPart(r) \/ WritePart(r) \/ WriteFails(r)
    PROVE  WholeInv'
<1>1. /\ req \in [Requests -> ReqStates] /\ part \in [Indices -> {"none", "partial", "whole"}]
      /\ req[r] \in ReqStates /\ req[r].chunk \in Indices
  BY DEF UploadTyped, UploadTypeOK, ReqStates
<1>2. req[r].pc # "idle"
  BY DEF OpenPart, WritePart, WriteFails
<1>3. /\ req[r].chunk \in unsure /\ \A q \in Requests \ {r} : req[q].pc = "idle"
      /\ \A i \in Indices : part[i] = "partial" => i = req[r].chunk
  BY <1>2 DEF WholeInv, OneChunk, PartialIsUnsure
<1>4. ASSUME Answer(r, "error"), UNCHANGED part
      PROVE  WholeInv'
  <2>1. \A q \in Requests : req'[q].pc = "idle" /\ ~req'[q].fd
    BY <1>1, <1>3, <1>4 DEF Answer, Idle, WholeInv, PartialIsUnsure
  <2>2. UNCHANGED unsure
    BY <1>4 DEF Answer
  <2>3. QED
    BY <1>4, <2>1, <2>2, AllOver DEF WholeInv, PartialIsUnsure
<1>5. CASE OpenPart(r)
  <2>1. CASE folder
    <3> DEFINE s == [req[r] EXCEPT !.pc = "write", !.fd = TRUE]
    <3>1. s \in ReqStates /\ s.chunk = req[r].chunk /\ s.pc = "write" /\ s.fd
          /\ s.at = req[r].at /\ s.got = req[r].got
      BY <1>1 DEF ReqStates
    <3>2. req' = [req EXCEPT ![r] = s] /\ UNCHANGED unsure
      BY <1>1, <1>5, <2>1 DEF OpenPart
    <3>3. \A i \in Indices : part'[i] = "partial" => i \in unsure
      BY <1>1, <1>3, <1>5, <2>1 DEF OpenPart
    <3>4. req[r].at = 0 /\ req[r].got = {}
      BY <1>5 DEF OpenPart, WholeInv, GotInOrder
    <3> HIDE DEF s
    <3>5. QED
      BY <1>2, <3>1, <3>2, <3>3, <3>4, OneMoves
  <2>2. CASE ~folder
    BY <1>4, <1>5, <2>2 DEF OpenPart
  <2>3. QED
    BY <2>1, <2>2
<1>6. CASE WritePart(r)
  <2> DEFINE s == [req[r] EXCEPT !.pc = "list", !.fd = FALSE]
  <2>1. s \in ReqStates /\ s.chunk = req[r].chunk /\ s.pc = "list"
        /\ s.at = req[r].at /\ s.got = req[r].got
    BY <1>1 DEF ReqStates
  <2>2. req' = [req EXCEPT ![r] = s] /\ UNCHANGED unsure
    BY <1>1, <1>6 DEF WritePart
  <2>3. req[r].at = 0 /\ req[r].got = {}
    BY <1>6 DEF WritePart, WholeInv, GotInOrder
  <2>4. \A i \in Indices : part'[i] # "partial"
    <3>1. CASE req[r].fd
      <4>1. part' = [part EXCEPT ![req[r].chunk] = "whole"]
        BY <1>3, <1>6, <3>1 DEF WritePart, WholeInv, PartialIsUnsure
      <4>2. QED
        BY <1>1, <1>3, <4>1
    <3>2. CASE ~req[r].fd
      <4>1. part[req[r].chunk] = "none" /\ UNCHANGED part
        BY <1>6, <3>2 DEF WritePart, WholeInv, PartialIsUnsure
      <4>2. QED
        BY <1>3, <4>1
    <3>3. QED
      BY <3>1, <3>2
  <2> HIDE DEF s
  <2>5. QED
    BY <1>2, <2>1, <2>2, <2>3, <2>4, OneMoves
<1>7. CASE WriteFails(r)
  BY <1>4, <1>7 DEF WriteFails, diskVars
<1>8. QED
  BY <1>5, <1>6, <1>7

\* The count decides, and the merge reads the parts one after the other: none
\* of them is partial by now, so each one that is there is got.
LEMMA MergeKeepsWhole ==
    ASSUME UploadTyped, WholeInv, NEW r \in Requests, List(r) \/ CreateFinal(r) \/ ReadPart(r)
    PROVE  WholeInv'
<1>1. /\ req \in [Requests -> ReqStates] /\ part \in [Indices -> {"none", "partial", "whole"}]
      /\ req[r] \in ReqStates /\ req[r].at \in Chunks /\ req[r].got \in SUBSET Chunks
  BY DEF UploadTyped, UploadTypeOK, ReqStates
<1>2. req[r].pc \in {"list", "create", "read"}
  BY DEF List, CreateFinal, ReadPart
<1>3. /\ \A q \in Requests \ {r} : req[q].pc = "idle" /\ ~req[q].fd
      /\ \A i \in Indices : part[i] # "partial"
  BY <1>2 DEF WholeInv, OneChunk, PartialIsUnsure
<1>4. ASSUME NEW s \in ReqStates, req' = [req EXCEPT ![r] = s], UNCHANGED <<part, unsure>>,
             s.chunk = req[r].chunk,
             \/ s.pc = "create" /\ s.at = 0 /\ s.got = {}
             \/ s.pc = "read" /\ s.got = {k \in Chunks : k < s.at}
             \/ s.pc = "merge" /\ s.got = Chunks
             \/ s.pc \in {"clean", "hung"}
      PROVE  WholeInv'
  <2>1. \A i \in Indices : part'[i] # "partial"
    BY <1>3, <1>4
  <2>2. s.pc \notin {"idle", "open", "write", "sweep"}
    BY <1>4
  <2>3. QED
    BY <1>2, <1>4, <2>1, <2>2, OneMoves
<1>5. ASSUME NEW p \in {"create", "read", "clean", "hung"}, Goto(r, p),
             UNCHANGED <<part, unsure>>,
             p \in {"create", "read"} => req[r].at = 0 /\ req[r].got = {}
      PROVE  WholeInv'
  <2> DEFINE s == [req[r] EXCEPT !.pc = p]
  <2>1. /\ s \in ReqStates /\ s.pc = p /\ s.chunk = req[r].chunk
        /\ s.at = req[r].at /\ s.got = req[r].got
    BY <1>1 DEF ReqStates
  <2>2. req' = [req EXCEPT ![r] = s]
    BY <1>1, <1>5 DEF Goto
  <2> HIDE DEF s
  <2>3. {k \in Chunks : k < 0} = {}
    BY DEF Chunks
  <2>4. QED
    BY <1>4, <1>5, <2>1, <2>2, <2>3
<1>6. CASE List(r)
  <2>1. CASE (Goto(r, "create") \/ Goto(r, "hung")) /\ UNCHANGED <<unsure, diskVars>>
    BY <1>5, <1>6, <2>1 DEF List, diskVars, WholeInv, GotInOrder
  <2>2. CASE Answer(r, "pending") /\ UNCHANGED diskVars
    <3>1. \A q \in Requests : req'[q].pc = "idle" /\ ~req'[q].fd
      BY <1>1, <1>3, <2>2 DEF Answer, Idle
    <3>2. unsure' \subseteq unsure /\ UNCHANGED part
      BY <2>2 DEF Answer, diskVars
    <3>3. QED
      BY <1>3, <3>1, <3>2, AllOver
  <2>3. QED
    BY <1>6, <2>1, <2>2 DEF List
<1>7. CASE CreateFinal(r)
  BY <1>5, <1>7 DEF CreateFinal, WholeInv, GotInOrder
<1>8. CASE ReadPart(r)
  <2> DEFINE k == req[r].at
             read == [req[r] EXCEPT !.got = req[r].got \cup {k}]
  <2>1. CASE Goto(r, "clean") /\ UNCHANGED <<part, unsure>>
    BY <1>5, <2>1
  <2>2. CASE /\ part[k] # "none" /\ UNCHANGED <<part, unsure>>
             /\ \/ k + 1 \in Chunks /\ req' = [req EXCEPT ![r] = [read EXCEPT !.at = k + 1]]
                \/ k + 1 \notin Chunks /\ req' = [req EXCEPT ![r] = [read EXCEPT !.pc = "merge"]]
    <3>1. req[r].got = {j \in Chunks : j < k} /\ k \in Nat /\ req[r].pc = "read"
      BY <1>1, <1>8 DEF ReadPart, WholeInv, GotInOrder, Chunks
    <3>2. req[r].got \cup {k} = {j \in Chunks : j < k + 1}
      BY <1>1, <3>1 DEF Chunks
    <3>3. CASE k + 1 \in Chunks /\ req' = [req EXCEPT ![r] = [read EXCEPT !.at = k + 1]]
      <4> DEFINE s == [read EXCEPT !.at = k + 1]
      <4>1. /\ s \in ReqStates /\ s.pc = "read" /\ s.chunk = req[r].chunk
            /\ s.at = k + 1 /\ s.got = req[r].got \cup {k}
        BY <1>1, <3>1, <3>3 DEF ReqStates
      <4> HIDE DEF s, read, k
      <4>2. s.got = {j \in Chunks : j < s.at}
        BY <3>2, <4>1
      <4>3. req' = [req EXCEPT ![r] = s]
        BY <3>3 DEF s
      <4>4. QED
        BY <1>4, <2>2, <4>1, <4>2, <4>3
    <3>4. CASE k + 1 \notin Chunks /\ req' = [req EXCEPT ![r] = [read EXCEPT !.pc = "merge"]]
      <4> DEFINE s == [read EXCEPT !.pc = "merge"]
      <4>1. /\ s \in ReqStates /\ s.pc = "merge" /\ s.chunk = req[r].chunk
            /\ s.got = req[r].got \cup {k}
        BY <1>1, <3>1, <3>4 DEF ReqStates
      <4>2. s.got = Chunks
        <5>1. {j \in Chunks : j < k + 1} = Chunks
          BY <1>1, <3>4, UploadAssumption DEF Chunks
        <5>2. QED
          BY <3>2, <4>1, <5>1
      <4> HIDE DEF s, read, k
      <4>3. req' = [req EXCEPT ![r] = s]
        BY <3>4 DEF s
      <4>4. QED
        BY <1>4, <2>2, <4>1, <4>2, <4>3
    <3>5. QED
      BY <2>2, <3>3, <3>4
  <2>3. part[k] = "none" \/ part[k] = "whole"
    BY <1>1, <1>3, UploadAssumption
  <2>4. UNCHANGED <<part, unsure>>
    BY <1>8 DEF ReadPart
  <2>5. CASE part[k] = "none"
    BY <1>8, <2>1, <2>4, <2>5 DEF ReadPart
  <2>6. CASE part[k] = "whole"
    <3>1. [req[r] EXCEPT !.got = IF part[k] = "whole" THEN @ \cup {k} ELSE @] = read
      BY <1>1, <2>6 DEF ReqStates
    <3>2. \/ k + 1 \in Chunks /\ req' = [req EXCEPT ![r] = [read EXCEPT !.at = k + 1]]
          \/ k + 1 \notin Chunks /\ req' = [req EXCEPT ![r] = [read EXCEPT !.pc = "merge"]]
      BY <1>8, <2>6, <3>1 DEF ReadPart
    <3>3. QED
      BY <2>2, <2>4, <2>6, <3>2
  <2>7. QED
    BY <2>3, <2>5, <2>6
<1>9. QED
  BY <1>6, <1>7, <1>8

\* The stream finishes with what was got, and nobody else touches the file
\* until the folder is removed.
LEMMA FinishKeepsWhole ==
    ASSUME UploadTyped, WholeInv, NEW r \in Requests,
           Finish(r) \/ FinishFails(r) \/ RemoveFolder(r)
    PROVE  WholeInv'
<1>1. /\ req \in [Requests -> ReqStates] /\ part \in [Indices -> {"none", "partial", "whole"}]
      /\ req[r] \in ReqStates
  BY DEF UploadTyped, UploadTypeOK, ReqStates
<1>2. req[r].pc \in {"merge", "sweep", "clean"}
  BY DEF Finish, FinishFails, RemoveFolder
<1>3. /\ \A q \in Requests \ {r} : req[q].pc = "idle" /\ ~req[q].fd
      /\ \A i \in Indices : part[i] # "partial"
  BY <1>2 DEF WholeInv, OneChunk, PartialIsUnsure
<1>4. CASE Finish(r)
  <2> DEFINE s == [req[r] EXCEPT !.pc = "sweep"]
  <2>1. s \in ReqStates /\ s.pc = "sweep" /\ s.chunk = req[r].chunk
    BY <1>1 DEF ReqStates
  <2>2. req' = [req EXCEPT ![r] = s] /\ UNCHANGED <<part, unsure>>
    BY <1>1, <1>4 DEF Finish, Goto
  <2>3. final' = "whole"
    BY <1>4 DEF Finish, Merged, WholeInv, GotInOrder
  <2>4. \A i \in Indices : part'[i] # "partial"
    BY <1>3, <2>2
  <2> HIDE DEF s
  <2>5. s.pc \notin {"idle", "open", "write", "list", "create", "read", "merge"}
    BY <2>1
  <2>6. QED
    BY <1>2, <2>1, <2>2, <2>3, <2>4, <2>5, OneMoves
<1>5. CASE FinishFails(r)
  <2>1. \A q \in Requests : req'[q].pc = "idle" /\ ~req'[q].fd
    BY <1>1, <1>3, <1>5 DEF FinishFails, Answer, Idle
  <2>2. UNCHANGED <<part, unsure>>
    BY <1>5 DEF FinishFails, Answer
  <2>3. QED
    BY <1>3, <2>1, <2>2, AllOver
<1>6. CASE RemoveFolder(r)
  <2> DEFINE last == [Idle EXCEPT !.answer = IF req[r].pc = "sweep" THEN "complete" ELSE "error"]
             next == [req EXCEPT ![r] = last]
  <2>1. last \in ReqStates /\ last.pc = "idle"
    BY IdleTyped DEF Idle, ReqStates
  <2>2. Unlink(Indices, next)
    BY <1>6 DEF RemoveFolder
  <2> HIDE DEF last
  <2>3. next \in [Requests -> ReqStates] /\ \A q \in Requests : next[q].pc = "idle"
    BY <1>1, <1>3, <2>1
  <2> HIDE DEF next
  <2>4. /\ \A i \in Indices : part'[i] = "none"
        /\ \A q \in Requests : req'[q] = [next[q] EXCEPT !.fd = FALSE]
    BY <2>2, <2>3, UnlinkTyped DEF ReqStates
  <2>5. \A q \in Requests : req'[q].pc = "idle" /\ ~req'[q].fd
    BY <2>3, <2>4 DEF ReqStates
  <2>6. unsure' \subseteq unsure
    BY <1>6 DEF RemoveFolder
  <2>7. QED
    BY <2>4, <2>5, <2>6, AllOver
<1>7. QED
  BY <1>4, <1>5, <1>6

\* Every operation, crash and failure keeps the upload whole.
LEMMA WholeStep ==
    ASSUME Careful, MaxInFlight = 1, UploadTyped, WholeInv, [UploadNext]_uploadVars
    PROVE  WholeInv'
<1>1. ASSUME NEW r \in Requests, NEW i \in Indices, Receive(r, i)
      PROVE  WholeInv'
  BY <1>1, ReceiveKeepsWhole
<1>2. ASSUME NEW r \in Requests, Handle(r)
      PROVE  WholeInv'
  BY <1>2, WriteKeepsWhole, MergeKeepsWhole, FinishKeepsWhole DEF Handle
<1>3. ASSUME NEW i \in Chunks, PartRemoved(i)
      PROVE  WholeInv'
  BY <1>3, UnlinkKeepsWhole DEF PartRemoved
<1>4. CASE FolderDropped
  BY <1>4, UnlinkKeepsWhole DEF FolderDropped
<1>5. CASE Crash \/ RejectionExits
  <2>0. Die
    BY <1>5 DEF Crash, RejectionExits
  <2>1. \A q \in Requests : req'[q].pc = "idle" /\ ~req'[q].fd
    BY <2>0 DEF Die, Idle
  <2>2. UNCHANGED unsure /\ \A i \in Indices : part'[i] = "partial" => part[i] = "partial"
    BY <2>0 DEF Die
  <2>3. QED
    BY <2>1, <2>2, AllOver DEF WholeInv, PartialIsUnsure
<1>6. CASE UNCHANGED uploadVars
  BY <1>6 DEF uploadVars, diskVars, WholeInv, OneChunk, PartialIsUnsure, GotInOrder
<1>7. QED
  BY <1>1, <1>2, <1>3, <1>4, <1>5, <1>6 DEF UploadNext

\* Only the request that removes the folder after its merge answers that the
\* upload is complete.
LEMMA CompleteWhenSwept ==
    ASSUME UploadTyped, WholeInv, [UploadNext]_uploadVars, NEW r \in Requests,
           req[r].answer # "complete", req'[r].answer = "complete"
    PROVE  final' = "whole"
<1>1. req \in [Requests -> ReqStates]
  BY DEF UploadTyped, UploadTypeOK, ReqStates
<1>2. PICK q \in Requests : RemoveFolder(q)
  <2>1. ASSUME NEW q \in Requests, NEW i \in Indices, Receive(q, i)
        PROVE  FALSE
    BY <1>1, <2>1 DEF Receive, Idle
  <2>2. ASSUME NEW q \in Requests, NEW a \in {"pending", "error"}, Answer(q, a)
        PROVE  FALSE
    BY <1>1, <2>2 DEF Answer, Idle
  <2>3. ASSUME NEW q \in Requests, OpenPart(q) \/ WritePart(q) \/ CreateFinal(q)
                                   \/ Finish(q) \/ ReadPart(q)
        PROVE  FALSE
    <3>0. req[q] \in ReqStates
      BY <1>1
    <3>1. CASE OpenPart(q)
      <4>1. Answer(q, "error") \/ req' = [req EXCEPT ![q] = [req[q] EXCEPT !.pc = "write", !.fd = TRUE]]
        BY <1>1, <3>1 DEF OpenPart
      <4>2. QED
        BY <1>1, <2>2, <3>0, <4>1 DEF ReqStates
    <3>2. CASE WritePart(q)
      <4>1. req' = [req EXCEPT ![q] = [req[q] EXCEPT !.pc = "list", !.fd = FALSE]]
        BY <1>1, <3>2 DEF WritePart
      <4>2. QED
        BY <1>1, <3>0, <4>1 DEF ReqStates
    <3>3. ASSUME NEW p, Goto(q, p)
          PROVE  FALSE
      BY <1>1, <3>0, <3>3 DEF Goto, ReqStates
    <3>4. CASE CreateFinal(q) \/ Finish(q)
      BY <3>3, <3>4 DEF CreateFinal, Finish
    <3>5. CASE ReadPart(q)
      <4> DEFINE k == req[q].at
                 read == [req[q] EXCEPT !.got = IF part[k] = "whole" THEN @ \cup {k} ELSE @]
      <4>1. /\ [read EXCEPT !.at = k + 1].answer = req[q].answer
            /\ [read EXCEPT !.pc = "merge"].answer = req[q].answer
        BY <3>0 DEF ReqStates
      <4>2. \/ Goto(q, "clean")
            \/ req' = [req EXCEPT ![q] = [read EXCEPT !.at = k + 1]]
            \/ req' = [req EXCEPT ![q] = [read EXCEPT !.pc = "merge"]]
        BY <3>5 DEF ReadPart
      <4> HIDE DEF k, read
      <4>3. QED
        BY <1>1, <3>3, <4>1, <4>2
    <3>6. QED
      BY <2>3, <3>1, <3>2, <3>4, <3>5
  <2>4. ASSUME NEW q \in Requests, WriteFails(q) \/ List(q) \/ FinishFails(q)
        PROVE  FALSE
    <3>1. Answer(q, "pending") \/ Answer(q, "error") \/ Goto(q, "create") \/ Goto(q, "hung")
      BY <2>4 DEF WriteFails, List, FinishFails
    <3>2. Goto(q, "create") \/ Goto(q, "hung") => req'[r].answer = req[r].answer
      BY <1>1 DEF Goto, ReqStates
    <3>3. QED
      BY <2>2, <3>1, <3>2
  <2>5. ASSUME NEW files, Unlink(files, req)
        PROVE  FALSE
    <3>1. req'[r] = IF req[r].chunk \in files THEN [req[r] EXCEPT !.fd = FALSE] ELSE req[r]
      BY <1>1, <2>5, UnlinkTyped
    <3>2. QED
      BY <1>1, <3>1 DEF ReqStates
  <2>6. ASSUME Crash \/ RejectionExits \/ UNCHANGED uploadVars
        PROVE  FALSE
    BY <2>6 DEF Crash, RejectionExits, Die, Idle, uploadVars
  <2>7. QED
    BY <2>1, <2>3, <2>4, <2>5, <2>6 DEF UploadNext, Handle, PartRemoved, FolderDropped
<1>3. CASE req[q].pc = "sweep"
  BY <1>2, <1>3 DEF RemoveFolder, WholeInv, GotInOrder
<1>4. CASE req[q].pc # "sweep"
  <2> DEFINE last == [Idle EXCEPT !.answer = "error"]
             next == [req EXCEPT ![q] = last]
  <2>1. last \in ReqStates /\ last.answer = "error"
    BY IdleTyped DEF Idle, ReqStates
  <2>2. Unlink(Indices, next)
    BY <1>2, <1>4 DEF RemoveFolder
  <2> HIDE DEF last
  <2>3. next \in [Requests -> ReqStates] /\ next[r].answer # "complete"
    BY <1>1, <2>1
  <2> HIDE DEF next
  <2>4. req'[r] = IF next[r].chunk \in Indices THEN [next[r] EXCEPT !.fd = FALSE] ELSE next[r]
    BY <2>2, <2>3, UnlinkTyped
  <2>5. QED
    BY <2>3, <2>4 DEF ReqStates
<1>5. QED
  BY <1>3, <1>4

\* For a careful client with one request at a time, through any crashes and
\* failed writes, and whatever indices it sends: a request that answers that
\* the upload is complete leaves every chunk, whole, in the file.
THEOREM CompleteIsWhole ==
    ASSUME Careful, MaxInFlight = 1
    PROVE  UploadSpec => WholeWhenComplete
<1>1. UploadTyped /\ WholeInv /\ [UploadNext]_uploadVars => (UploadTyped /\ WholeInv)'
  BY UploadTypedStep, WholeStep
<1>2. UploadTyped /\ WholeInv /\ [UploadNext]_uploadVars =>
          [\A r \in Requests : req[r].answer # "complete" /\ req'[r].answer = "complete"
                                   => final' = "whole"]_uploadVars
  BY CompleteWhenSwept
<1>3. QED
  BY <1>1, <1>2, UploadTypedInit, WholeInit, PTL DEF UploadSpec, WholeWhenComplete
=============================================================================
