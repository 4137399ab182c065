---------------------------- MODULE SecretManager ----------------------------
(***************************************************************************)
(* SecretManager.ts: init(), reload() and shutdown() of the one manager of *)
(* the process, interleaved at their awaits.                               *)
(*                                                                         *)
(* The value of a secret is its version, 0 for none; an environment        *)
(* variable that holds a path is as old as the file it was set for.        *)
(* Secret Manager rotates secrets as it likes, answers or fails, and does  *)
(* not know some of them.  Caching is on, as by default.  The host calls   *)
(* init() before it shuts down, and reload() whenever it likes.            *)
(***************************************************************************)
EXTENDS Naturals, Sequences, FiniteSets

CONSTANTS
    Order,        \* options.secrets, in order
    Files,        \* the secrets of type "file"
    Vars,         \* environment variables
    NameVar,      \* process.env[name], by secret
    LoadVar,      \* the variable loadSecret() sets
    FallbackVar,  \* the variable the fallback looks at
    Preset,       \* variables the deployment sets
    FallbackToEnv,
    Missing,      \* secrets Secret Manager does not know
    Inits,        \* calls of init(), each made at most once
    Reloads,      \* calls of reload()
    MaxVersion,   \* bound: rotations
    MaxFaults     \* bound: failing calls of Secret Manager and of fs

Secrets == {Order[i] : i \in DOMAIN Order}
Loads   == Inits \cup Reloads

ASSUME SecretAssumption ==
    /\ Order \in Seq(Secrets) /\ Order # <<>>
    /\ \A i, j \in DOMAIN Order : Order[i] = Order[j] => i = j
    /\ Files \subseteq Secrets /\ Missing \subseteq Secrets /\ Preset \subseteq Vars
    /\ {NameVar, LoadVar, FallbackVar} \subseteq [Secrets -> Vars]
    /\ FallbackToEnv \in BOOLEAN
    /\ MaxVersion \in Nat \ {0} /\ MaxFaults \in Nat

VARIABLES
    options,    \* this.options: not set, or what they say
    client,     \* this.client
    cache,      \* this.secretCache
    tempFiles,  \* this.tempFiles: the secrets whose file is listed
    env,        \* process.env
    disk,       \* the files in tempDir
    remote,     \* external: the latest version of each secret
    load,       \* calls of loadSecrets()
    stop,       \* the call of shutdown()
    straddled,  \* history: a load was under way during shutdown()
    kept,       \* history: files left by a write that failed and never
                \* listed, or that could not be deleted
    faults

mgrVars == <<options, client>>
outVars == <<cache, tempFiles, env, disk>>
vars == <<mgrVars, outVars, remote, load, stop, straddled, kept, faults>>

Version == 0..MaxVersion

TypeOK ==
    /\ options \in {"unset", "disabled", "noProject", "on"}
    /\ client \in {"none", "open", "closing"}
    /\ cache \in [Secrets -> Version] /\ disk \in [Secrets -> Version]
    /\ env \in [Vars -> Version] /\ remote \in [Secrets -> Version \ {0}]
    /\ tempFiles \in Seq(Files)
    /\ load \in [Loads ->
         [pc : {"new", "refused", "access", "reply", "write", "written", "done", "failed"},
          at : 1..Len(Order), got : Version, usable : BOOLEAN, alone : BOOLEAN,
          from : [Secrets -> Version],
          out : [Secrets -> {"none", "loaded", "fallback", "failed"}]]]
    /\ stop \in [pc : {"new", "unlink", "close", "done", "failed"}, at : Nat]
    /\ straddled \in BOOLEAN /\ kept \subseteq Files /\ faults \in 0..MaxFaults

None == [s \in Secrets |-> 0]
Idle == [pc |-> "new", at |-> 1, got |-> 0, usable |-> FALSE, alone |-> FALSE,
         from |-> None, out |-> [s \in Secrets |-> "none"]]

Init ==
    /\ options = "unset" /\ client = "none"
    /\ cache = None /\ disk = None /\ tempFiles = <<>>
    /\ env = [v \in Vars |-> IF v \in Preset THEN 1 ELSE 0]
    /\ remote = [s \in Secrets |-> 1]
    /\ load = [l \in Loads |-> Idle]
    /\ stop = [pc |-> "new", at |-> 1]
    /\ straddled = FALSE /\ kept = {} /\ faults = 0

MayFail == faults < MaxFaults /\ faults' = faults + 1
Ended(r, pc) == [Idle EXCEPT !.pc = pc, !.out = r.out]
Busy(l) == load[l].pc \notin {"new", "done", "failed"}
Current(l) == Order[load[l].at]

\* getSecret()
GetSecret(s) == IF cache[s] # 0 THEN cache[s] ELSE env[NameVar[s]]

-----------------------------------------------------------------------------
(* loadSecrets() *)

\* The call of loadSecret(), up to its await: without client or project it
\* rejects.
Called(r) == [r EXCEPT !.pc = IF client = "none" \/ ~r.usable THEN "refused" ELSE "access"]

\* loadSecrets() is called with the options of this moment.
StartLoop(l, usable, ready) ==
    /\ load' = [k \in Loads |->
         IF k = l
         THEN [Idle EXCEPT !.pc = ready, !.usable = usable, !.from = remote,
                           !.alone = \A q \in Loads : ~Busy(q)]
         ELSE [load[k] EXCEPT !.alone = @ /\ ~Busy(k)]]
    /\ straddled' = (straddled \/ stop.pc # "new")

\* Mutant: the loop runs one secret too far.
AdvanceTooFar(l, how) ==
    LET r == [load[l] EXCEPT !.out[Current(l)] = how]
    IN load' = [load EXCEPT ![l] =
                  IF r.at > Len(Order) THEN Ended(r, "done")
                  ELSE Called([r EXCEPT !.at = @ + 1, !.got = 0])]

\* The current secret is dealt with: the next one, or the result.
Advance(l, how) ==
    LET r == [load[l] EXCEPT !.out[Current(l)] = how]
    IN load' = [load EXCEPT ![l] =
                  IF r.at = Len(Order) THEN Ended(r, "done")
                  ELSE Called([r EXCEPT !.at = @ + 1, !.got = 0])]

\* loadSecret() resolved: cache it.
Loaded(l) ==
    /\ cache' = [cache EXCEPT ![Current(l)] = load[l].got]
    /\ Advance(l, "loaded")

\* Mutants: every failure counts as a fallback; the secret is tried again.
FailAsFallback(l) ==
    Advance(l, IF FallbackToEnv THEN "fallback" ELSE "failed")
\* loadSecret() rejected: fall back to the environment, if it has a value.
Fail(l) ==
    Advance(l, IF FallbackToEnv /\ env[FallbackVar[Current(l)]] # 0
               THEN "fallback" ELSE "failed")

Refused(l) ==
    /\ load[l].pc = "refused"
    /\ Fail(l)
    /\ UNCHANGED <<mgrVars, outVars, remote, stop, straddled, kept, faults>>

\* Mutant: a value the process has already is not asked for again.
AccessRemembered(l) ==
    /\ load[l].pc = "access" /\ client = "open" /\ Current(l) \notin Missing
    /\ LET s == Current(l)
           have == env[LoadVar[s]]
       IN load' = [load EXCEPT ![l].pc = "reply", ![l].got = IF have # 0 THEN have ELSE remote[s]]
    /\ UNCHANGED <<mgrVars, outVars, remote, stop, straddled, kept, faults>>

\* Secret Manager reads the latest version; the answer is on its way.
Access(l) ==
    /\ load[l].pc = "access" /\ client = "open" /\ Current(l) \notin Missing
    /\ load' = [load EXCEPT ![l].pc = "reply", ![l].got = remote[Current(l)]]
    /\ UNCHANGED <<mgrVars, outVars, remote, stop, straddled, kept, faults>>

\* NOT_FOUND, no data, a closed client, or any other error.
AccessFails(l) ==
    /\ load[l].pc = "access"
    /\ \/ (Current(l) \in Missing \/ client # "open") /\ UNCHANGED faults
       \/ MayFail
    /\ Fail(l)
    /\ UNCHANGED <<mgrVars, outVars, remote, stop, straddled, kept>>

\* Mutant: an env secret only goes to the cache.
ReplyCachedOnly(l) ==
    /\ load[l].pc = "reply"
    /\ IF Current(l) \in Files
       THEN load' = [load EXCEPT ![l].pc = "write"] /\ UNCHANGED cache
       ELSE Loaded(l)
    /\ UNCHANGED <<mgrVars, tempFiles, env, disk, remote, stop, straddled, kept, faults>>

\* The answer: an env secret is set, a file is to be written.
Reply(l) ==
    /\ load[l].pc = "reply"
    /\ IF Current(l) \in Files
       THEN load' = [load EXCEPT ![l].pc = "write"] /\ UNCHANGED <<env, cache>>
       ELSE /\ env' = [env EXCEPT ![LoadVar[Current(l)]] = load[l].got]
            /\ Loaded(l)
    /\ UNCHANGED <<mgrVars, tempFiles, disk, remote, stop, straddled, kept, faults>>

\* fs.writeFile() on disk.
WriteFile(l) ==
    /\ load[l].pc = "write"
    /\ disk' = [disk EXCEPT ![Current(l)] = load[l].got]
    /\ load' = [load EXCEPT ![l].pc = "written"]
    /\ UNCHANGED <<mgrVars, cache, tempFiles, env, remote, stop, straddled, kept, faults>>

\* writeFile() rejects: the file was not opened, or it is on disk with what
\* could be written of the value, and stays unless an earlier load listed it.
WriteFails(l) ==
    /\ load[l].pc = "write" /\ MayFail
    /\ \/ UNCHANGED <<disk, kept>>
       \/ LET f == Current(l)
          IN /\ disk' = [disk EXCEPT ![f] = load[l].got]
             /\ kept' = kept \cup ({f} \ {tempFiles[i] : i \in DOMAIN tempFiles})
    /\ Fail(l)
    /\ UNCHANGED <<mgrVars, cache, tempFiles, env, remote, stop, straddled>>

\* The promise of writeFile() resolves: only now is the file listed.
Written(l) ==
    /\ load[l].pc = "written"
    /\ tempFiles' = Append(tempFiles, Current(l))
    /\ kept' = kept \ {Current(l)}
    /\ env' = [env EXCEPT ![LoadVar[Current(l)]] = load[l].got]
    /\ Loaded(l)
    /\ UNCHANGED <<mgrVars, disk, remote, stop, straddled, faults>>

-----------------------------------------------------------------------------
(* The calls *)

\* init() of a disabled manager, without a project, or with both.
InitDisabled(l) ==
    /\ load[l].pc = "new" /\ stop.pc = "new"
    /\ options' = "disabled"
    /\ load' = [load EXCEPT ![l].pc = "done"]
    /\ UNCHANGED <<client, outVars, remote, stop, straddled, kept, faults>>
InitUnconfigured(l) ==
    /\ load[l].pc = "new" /\ stop.pc = "new"
    /\ options' = "noProject"
    /\ load' = [load EXCEPT ![l].pc = "failed"]
    /\ UNCHANGED <<client, outVars, remote, stop, straddled, kept, faults>>
StartInit(l) ==
    /\ load[l].pc = "new" /\ stop.pc = "new"
    /\ options' = "on" /\ client' = "open"
    /\ StartLoop(l, TRUE, "access")
    /\ UNCHANGED <<outVars, remote, stop, kept, faults>>

StartReload(l) ==
    /\ load[l].pc = "new" /\ options # "unset"
    /\ cache' = None
    /\ StartLoop(l, options # "noProject",
                 IF client = "none" \/ options = "noProject" THEN "refused" ELSE "access")
    /\ UNCHANGED <<mgrVars, tempFiles, env, disk, remote, stop, kept, faults>>
ReloadUninitialized(l) ==
    /\ load[l].pc = "new" /\ options = "unset"
    /\ load' = [load EXCEPT ![l].pc = "failed"]
    /\ UNCHANGED <<mgrVars, outVars, remote, stop, straddled, kept, faults>>

\* The server's LifecycleController calls shutdown(), once init() registered.
BeginShutdown ==
    /\ stop.pc = "new" /\ client = "open"
    /\ stop' = [stop EXCEPT !.pc = "unlink"]
    /\ straddled' = \E l \in Loads : Busy(l)
    /\ UNCHANGED <<mgrVars, outVars, remote, load, kept, faults>>

\* One turn of the loop over tempFiles, which sees files listed meanwhile; a
\* file that is gone or cannot be deleted is reported.
UnlinkNext ==
    /\ stop.pc = "unlink" /\ stop.at <= Len(tempFiles)
    /\ stop' = [stop EXCEPT !.at = @ + 1]
    /\ LET f == tempFiles[stop.at]
       IN \/ disk' = [disk EXCEPT ![f] = 0] /\ UNCHANGED <<kept, faults>>
          \/ MayFail /\ kept' = kept \cup {f} /\ UNCHANGED disk
    /\ UNCHANGED <<mgrVars, cache, tempFiles, env, remote, load, straddled>>

\* Mutant: the cache is left to the next reload().
EndUnlinkOnly ==
    /\ stop.pc = "unlink" /\ stop.at > Len(tempFiles)
    /\ stop' = [stop EXCEPT !.pc = "close"]
    /\ tempFiles' = <<>> /\ client' = "closing"
    /\ UNCHANGED <<options, cache, env, disk, remote, load, straddled, kept, faults>>

\* After the loop: forget everything, and close the client.
EndUnlink ==
    /\ stop.pc = "unlink" /\ stop.at > Len(tempFiles)
    /\ stop' = [stop EXCEPT !.pc = "close"]
    /\ tempFiles' = <<>> /\ cache' = None /\ client' = "closing"
    /\ UNCHANGED <<options, env, disk, remote, load, straddled, kept, faults>>

Closed ==
    /\ stop.pc = "close"
    /\ \/ /\ stop' = [stop EXCEPT !.pc = "done"]
          /\ client' = "none" /\ options' = "unset"
          /\ UNCHANGED faults
       \/ /\ MayFail
          /\ stop' = [stop EXCEPT !.pc = "failed"]
          /\ UNCHANGED mgrVars
    /\ UNCHANGED <<outVars, remote, load, straddled, kept>>

Rotate(s) ==
    /\ s \notin Missing /\ remote[s] < MaxVersion
    /\ remote' = [remote EXCEPT ![s] = @ + 1]
    /\ UNCHANGED <<mgrVars, outVars, load, stop, straddled, kept, faults>>

LoadStep(l) ==
    \/ Refused(l) \/ Access(l) \/ AccessFails(l) \/ Reply(l)
    \/ WriteFile(l) \/ WriteFails(l) \/ Written(l)
StopStep == UnlinkNext \/ EndUnlink \/ Closed

Next ==
    \/ \E l \in Inits : InitDisabled(l) \/ InitUnconfigured(l) \/ StartInit(l)
    \/ \E l \in Reloads : StartReload(l) \/ ReloadUninitialized(l)
    \/ \E l \in Loads : LoadStep(l)
    \/ BeginShutdown \/ StopStep
    \/ \E s \in Secrets : Rotate(s)

Spec == Init /\ [][Next]_vars

\* Secret Manager and the file system answer.
FairSpec == Spec /\ WF_vars(StopStep) /\ \A l \in Loads : WF_vars(LoadStep(l))

-----------------------------------------------------------------------------
(* Properties *)

\* README.md:809, "Temp files deleted on server shutdown": after a shutdown()
\* during which nothing was loaded, no secret is left in the cache, and every
\* file that a load wrote whole is gone from the disk unless its deletion
\* failed, however often it was loaded, and though a later write to it failed.
\* What the code does leave is a file whose one write failed half way.
CleanStop ==
    stop.pc \in {"close", "done", "failed"} /\ ~straddled =>
        cache = None /\ tempFiles = <<>> /\ \A f \in Files \ kept : disk[f] = 0

\* SecretManager.ts:154: what the result counts as loaded or as a fallback, the
\* application finds in the variable that is meant for it, from then on.
ResultIsTrue ==
    \A l \in Loads : \A s \in Secrets :
        load[l].out[s] \in {"loaded", "fallback"} => env[LoadVar[s]] # 0

\* SecretManager.ts:330: a secret in its own variable that getSecret() has
\* answered stays available, though reload() empties the cache first, a load
\* fails, or the manager is shut down.
ServedThroughout ==
    [][\A s \in Secrets : GetSecret(s) # 0 /\ LoadVar[s] = NameVar[s] => GetSecret(s)' # 0]_vars

\* SecretManager.ts:319, "useful for secret rotation": a load no other one
\* overlapped ends with values as new as they were when it was called.
LoadIsFresh ==
    [][\A l \in Loads : Busy(l) /\ load[l]'.pc = "done" /\ load[l].alone =>
         \A s \in Secrets : load[l]'.out[s] = "loaded" => env'[LoadVar[s]] >= load[l].from[s]]_vars


=============================================================================
