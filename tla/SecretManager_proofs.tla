------------------------ MODULE SecretManager_proofs ------------------------
(***************************************************************************)
(* Proofs about SecretManager, for any secrets, variables, calls,          *)
(* rotations and failures: what a shutdown leaves behind, what the result  *)
(* of a load says, and how old the values are that it ends with.           *)
(***************************************************************************)
EXTENDS SecretManager, TLAPS

Results == {"none", "loaded", "fallback", "failed"}
Records ==
    [pc : {"new", "refused", "access", "reply", "write", "written", "done", "failed"},
     at : 1..Len(Order), got : Version, usable : BOOLEAN, alone : BOOLEAN,
     from : [Secrets -> Version], out : [Secrets -> Results]]

\* A call only has a value between its answer and the next secret, and only
\* writes the files of file secrets.
Holding(r) ==
    /\ r.pc \in {"reply", "write", "written"} => r.got # 0
    /\ r.pc \in {"write", "written"} => Order[r.at] \in Files

\* The secrets file f is yet to be deleted for, or that a call is about to list.
Listing(f) ==
    \/ f \in kept
    \/ \E i \in stop.at..Len(tempFiles) : tempFiles[i] = f
    \/ \E l \in Loads : load[l].pc = "written" /\ Current(l) = f

Listed ==
    /\ stop.at # 0 /\ (stop.pc = "new" => stop.at = 1 /\ ~straddled)
    /\ stop.pc # "new" /\ ~straddled => \A l \in Loads : ~Busy(l)
    /\ stop.pc \in {"new", "unlink"} /\ ~straddled =>
         \A f \in Files : disk[f] # 0 => Listing(f)

\* What is cached is in its variable as well.
Cached == \A s \in Secrets : cache[s] # 0 => env[LoadVar[s]] # 0

SecretInv ==
    /\ TypeOK
    /\ \A l \in Loads : Holding(load[l])
    /\ Listed /\ CleanStop /\ Cached

\* What a call has is not older than what was there when it began.
FreshRecord(r) ==
    /\ \A s \in Secrets : /\ remote[s] >= r.from[s]
                          /\ r.out[s] = "loaded" => env[LoadVar[s]] >= r.from[s]
    /\ r.pc \in {"reply", "write", "written"} => r.got >= r.from[Order[r.at]]

\* A call nothing overlaps is the only one.
AloneFresh ==
    \A l \in Loads : Busy(l) /\ load[l].alone =>
        FreshRecord(load[l]) /\ \A q \in Loads \ {l} : ~Busy(q)

-----------------------------------------------------------------------------

\* A call that is under way is at a secret, which has a variable.
LEMMA AtSecret ==
    ASSUME TypeOK, NEW l \in Loads
    PROVE  /\ load[l] \in Records /\ Current(l) \in Secrets
           /\ LoadVar[Current(l)] \in Vars /\ FallbackVar[Current(l)] \in Vars
  <1>1. load[l] \in Records
    BY DEF TypeOK, Records, Results
  <1>2. load[l].at \in 1..Len(Order) /\ DOMAIN Order = 1..Len(Order)
    BY <1>1, SecretAssumption DEF Records
  <1>3. Current(l) \in Secrets
    BY <1>2 DEF Current, Secrets
  <1>4. LoadVar \in [Secrets -> Vars] /\ FallbackVar \in [Secrets -> Vars]
    BY SecretAssumption
  <1> QED
    BY <1>1, <1>3, <1>4

\* What a call is once a secret is dealt with.
LEMMA AdvanceYields ==
    ASSUME TypeOK, NEW l \in Loads, NEW how \in Results, Advance(l, how)
    PROVE  \E r \in Records :
             /\ load' = [load EXCEPT ![l] = r]
             /\ r.out = [load[l].out EXCEPT ![Current(l)] = how]
             /\ r.pc \in {"done", "refused", "access"}
             /\ r.pc # "done" => r.alone = load[l].alone /\ r.from = load[l].from
  <1> DEFINE r0 == [load[l] EXCEPT !.out[Current(l)] = how]
             r1 == [r0 EXCEPT !.at = @ + 1, !.got = 0]
             r == IF r0.at = Len(Order) THEN Ended(r0, "done") ELSE Called(r1)
  <1>1. load[l] \in Records /\ Current(l) \in Secrets
    BY AtSecret
  <1>2. /\ r0 \in Records /\ r0.out = [load[l].out EXCEPT ![Current(l)] = how]
        /\ r0.alone = load[l].alone /\ r0.from = load[l].from
    BY <1>1 DEF Records, Results
  <1>3. Len(Order) \in Nat /\ 1 \in 1..Len(Order) /\ 0 \in Version
    BY SecretAssumption DEF Version
  <1>0. Advance(l, how) <=> load' = [load EXCEPT ![l] = r]
    BY DEF Advance
  <1> HIDE DEF r0
  <1>4. CASE r0.at = Len(Order)
    <2>1. r = [pc |-> "done", at |-> 1, got |-> 0, usable |-> FALSE, alone |-> FALSE,
               from |-> None, out |-> r0.out]
      BY <1>4 DEF Ended, Idle
    <2>2. None \in [Secrets -> Version]
      BY SecretAssumption DEF None, Version
    <2>3. r \in Records
      <3>1. r0.out \in [Secrets -> Results]
        BY <1>2 DEF Records
      <3> HIDE DEF r
      <3> QED
        BY <1>3, <2>1, <2>2, <3>1 DEF Records
    <2> QED
      BY <1>0, <1>2, <2>1, <2>3
  <1>5. CASE r0.at # Len(Order)
    <2>1. r1 \in Records /\ r1.out = r0.out /\ r1.alone = r0.alone /\ r1.from = r0.from
      <3>1. r0.at \in 1..Len(Order)
        BY <1>2 DEF Records
      <3>2. r0.at + 1 \in 1..Len(Order)
        BY <3>1, <1>3, <1>5
      <3> QED
        BY <1>2, <1>3, <3>2 DEF Records
    <2> HIDE DEF r1
    <2>2. \E pc \in {"refused", "access"} : r = [r1 EXCEPT !.pc = pc]
      BY <1>5 DEF Called
    <2>3. /\ r \in Records /\ r.out = r0.out /\ r.alone = r0.alone /\ r.from = r0.from
          /\ r.pc \in {"refused", "access"}
      <3>1. PICK pc \in {"refused", "access"} : r = [r1 EXCEPT !.pc = pc]
        BY <2>2
      <3> HIDE DEF r
      <3> QED
        BY <1>2, <2>1, <3>1 DEF Records
    <2> QED
      BY <1>0, <1>2, <2>3
  <1> QED
    BY <1>4, <1>5

-----------------------------------------------------------------------------

\* At the start no call has been made and nothing is kept.
LEMMA InitSecret == Init => SecretInv
  <1> SUFFICES ASSUME Init PROVE SecretInv
    OBVIOUS
  <1>1. 0 \in Version /\ 1 \in Version \ {0} /\ 1 \in 1..Len(Order)
    BY SecretAssumption DEF Version
  <1>2. None \in [Secrets -> Version]
    BY <1>1 DEF None
  <1>3. Idle \in Records /\ Idle.pc = "new"
    BY <1>1, <1>2 DEF Idle, Records, Results
  <1>4. load \in [Loads -> Records]
    BY <1>3 DEF Init
  <1>5. tempFiles \in Seq(Files)
    BY DEF Init
  <1>6. env \in [Vars -> Version] /\ remote \in [Secrets -> Version \ {0}]
    BY <1>1 DEF Init
  <1>7. TypeOK
    <2>1. stop \in [pc : {"new", "unlink", "close", "done", "failed"}, at : Nat]
      BY DEF Init
    <2>2. faults \in 0..MaxFaults
      BY SecretAssumption DEF Init
    <2>3. options = "unset" /\ client = "none" /\ cache = None /\ disk = None
          /\ straddled = FALSE /\ kept = {}
      BY DEF Init
    <2> QED
      BY <1>2, <1>4, <1>5, <1>6, <2>1, <2>2, <2>3 DEF TypeOK, Records, Results
  <1>8. \A l \in Loads : Holding(load[l])
    BY <1>3 DEF Init, Holding
  <1>9. Listed /\ CleanStop /\ Cached
    BY SecretAssumption DEF Init, Listed, CleanStop, Cached, None
  <1> QED
    BY <1>7, <1>8, <1>9 DEF SecretInv

\* One call goes on: as it is busy, no shutdown counts on there being none.
LEMMA TurnKeeps ==
    ASSUME SecretInv, NEW l \in Loads, Busy(l), NEW r \in Records, Holding(r),
           load' = [load EXCEPT ![l] = r],
           UNCHANGED <<mgrVars, remote, stop, straddled>>, faults' \in 0..MaxFaults,
           kept' \subseteq Files,
           \A f \in kept : f \in kept' \/ tempFiles' = Append(tempFiles, f),
           cache' \in [Secrets -> Version], disk' \in [Secrets -> Version],
           env' \in [Vars -> Version], Cached',
           \/ tempFiles' = tempFiles
           \/ tempFiles' = Append(tempFiles, Current(l)) /\ Current(l) \in Files,
           load[l].pc = "written" => tempFiles' # tempFiles,
           \A f \in Files : disk'[f] # 0 =>
             disk[f] # 0 \/ f \in kept' \/ (r.pc = "written" /\ Order[r.at] = f)
               \/ (\E i \in DOMAIN tempFiles : tempFiles[i] = f)
    PROVE  SecretInv'
  <1> USE DEF SecretInv, mgrVars
  <1>1. load' \in [Loads -> Records] /\ load'[l] = r /\ \A q \in Loads \ {l} : load'[q] = load[q]
    BY DEF TypeOK, Records, Results
  <1>2. tempFiles' \in Seq(Files) /\ tempFiles \in Seq(Files)
    <2>1. tempFiles \in Seq(Files)
      BY DEF TypeOK
    <2>2. ASSUME NEW f \in Files PROVE Append(tempFiles, f) \in Seq(Files)
      BY <2>1
    <2> QED
      BY <2>1, <2>2
  <1>3. TypeOK'
    BY <1>1, <1>2 DEF TypeOK, Records, Results
  <1>4. \A q \in Loads : Holding(load'[q])
    BY <1>1
  <1>5. stop.pc = "new" \/ straddled
    BY DEF Listed
  <1>6. CleanStop'
    BY <1>5 DEF CleanStop
  <1>7. Listed'
    <2>1. stop.pc # "new" => straddled
      BY <1>5
    <2>2. CASE stop.pc = "new"
      <3>1. ~straddled
        BY <2>2 DEF Listed
      <3>2. ASSUME NEW f \in Files, disk'[f] # 0 PROVE Listing(f)'
        <4>1. CASE r.pc = "written" /\ Order[r.at] = f
          BY <4>1, <1>1 DEF Listing, Current
        <4>2. CASE f \in kept'
          BY <4>2 DEF Listing
        <4>3. CASE disk[f] # 0 \/ \E i \in DOMAIN tempFiles : tempFiles[i] = f
          <5>2. stop.at = 1 /\ stop'.at = 1
            BY <2>2 DEF Listed
          <5>1. Listing(f)
            BY <1>2, <4>3, <5>2, <2>2, <3>1 DEF Listed, Listing
          <5>3. ASSUME NEW i \in stop.at..Len(tempFiles), tempFiles[i] = f PROVE Listing(f)'
            <6>1. i \in 1..Len(tempFiles) /\ i \in stop'.at..Len(tempFiles') /\ tempFiles'[i] = f
              BY <1>2, <5>2, <5>3
            <6> QED
              BY <6>1 DEF Listing
          <5>4. ASSUME NEW q \in Loads, load[q].pc = "written", Current(q) = f PROVE Listing(f)'
            <6>1. q # l => load'[q] = load[q]
              BY <1>1
            <6>2. CASE q = l
              <7>1. tempFiles' = Append(tempFiles, f) /\ f \in Files
                BY <5>4, <6>2
              <7>2. Len(tempFiles') \in stop'.at..Len(tempFiles') /\ tempFiles'[Len(tempFiles')] = f
                BY <7>1, <1>2, <5>2
              <7> QED
                BY <7>2 DEF Listing
            <6> QED
              BY <5>4, <6>1, <6>2 DEF Listing, Current
          <5>5. ASSUME f \in kept, tempFiles' = Append(tempFiles, f) PROVE Listing(f)'
            <6>1. Len(tempFiles') \in stop'.at..Len(tempFiles') /\ tempFiles'[Len(tempFiles')] = f
              BY <5>5, <1>2, <5>2
            <6> QED
              BY <6>1 DEF Listing
          <5> QED
            BY <5>1, <5>3, <5>4, <5>5, <4>2 DEF Listing
        <4> QED
          BY <3>2, <4>1, <4>2, <4>3
      <3> QED
        BY <2>2, <3>1, <3>2 DEF Listed
    <2> QED
      BY <2>1, <2>2 DEF Listed
  <1> QED
    BY <1>3, <1>4, <1>6, <1>7

\* A secret is dealt with by a failure: only the call moves.
LEMMA FailKeeps ==
    ASSUME SecretInv, NEW l \in Loads, Busy(l), load[l].pc # "written", Fail(l),
           faults' \in 0..MaxFaults,
           UNCHANGED <<mgrVars, cache, tempFiles, env, remote, stop, straddled>>,
           \/ UNCHANGED <<disk, kept>>
           \/ /\ disk' = [disk EXCEPT ![Current(l)] = load[l].got]
              /\ kept' = kept \cup ({Current(l)} \ {tempFiles[i] : i \in DOMAIN tempFiles})
              /\ Current(l) \in Files
    PROVE  SecretInv'
  <1>1. TypeOK
    BY DEF SecretInv
  <1>2. \E how \in Results : Advance(l, how)
    BY DEF Fail, Results
  <1>3. PICK r \in Records : load' = [load EXCEPT ![l] = r] /\ r.pc \in {"done", "refused", "access"}
    BY <1>1, <1>2, AdvanceYields
  <1>4. Holding(r)
    BY <1>3 DEF Holding
  <1>5. load[l].got \in Version
    BY <1>1, AtSecret DEF Records
  <1>6. kept' \subseteq Files /\ kept \subseteq kept' /\ disk' \in [Secrets -> Version]
    BY <1>1, <1>5 DEF TypeOK
  <1>7. ASSUME NEW f \in Files, disk'[f] # 0
        PROVE  disk[f] # 0 \/ f \in kept' \/ \E i \in DOMAIN tempFiles : tempFiles[i] = f
    <2>1. CASE disk'[f] = disk[f]
      BY <1>7, <2>1
    <2>2. CASE disk' = [disk EXCEPT ![Current(l)] = load[l].got] /\ disk'[f] # disk[f]
      <3>1. f = Current(l)
        BY <1>1, <2>2 DEF TypeOK
      <3>2. kept' = kept \cup ({f} \ {tempFiles[i] : i \in DOMAIN tempFiles})
        BY <2>2, <3>1
      <3> QED
        BY <3>2
    <2> QED
      BY <2>1, <2>2
  <1>8. /\ env' = env /\ cache' = cache /\ tempFiles' = tempFiles /\ UNCHANGED <<mgrVars, remote, stop, straddled>>
        /\ env \in [Vars -> Version] /\ cache \in [Secrets -> Version]
    BY <1>1 DEF TypeOK
  <1>9. Cached'
    BY <1>8 DEF SecretInv, Cached
  <1>10. \A f \in kept : f \in kept' \/ tempFiles' = Append(tempFiles, f)
    BY <1>6
  <1>11. \A f \in Files : disk'[f] # 0 =>
             disk[f] # 0 \/ f \in kept' \/ (r.pc = "written" /\ Order[r.at] = f)
               \/ (\E i \in DOMAIN tempFiles : tempFiles[i] = f)
    BY <1>7
  <1> QED
    BY <1>3, <1>4, <1>6, <1>8, <1>9, <1>10, <1>11, TurnKeeps

\* loadSecrets() and loadSecret().
LEMMA LoadKeeps ==
    ASSUME SecretInv, NEW l \in Loads, LoadStep(l)
    PROVE  SecretInv'
  <1>1. /\ TypeOK /\ Holding(load[l]) /\ Cached /\ load[l] \in Records
        /\ Current(l) \in Secrets /\ LoadVar[Current(l)] \in Vars
    BY AtSecret DEF SecretInv
  <1>2. /\ cache \in [Secrets -> Version] /\ disk \in [Secrets -> Version]
        /\ env \in [Vars -> Version] /\ remote \in [Secrets -> Version \ {0}]
        /\ faults \in 0..MaxFaults /\ MaxFaults \in Nat /\ load[l].got \in Version
        /\ kept \subseteq Files
    BY <1>1, SecretAssumption DEF TypeOK, Records
  <1>3. ASSUME MayFail PROVE faults' \in 0..MaxFaults
    BY <1>2, <1>3 DEF MayFail
  <1>4. CASE Refused(l)
    BY <1>2, <1>4, FailKeeps DEF Refused, Busy, outVars
  <1>5. CASE AccessFails(l)
    BY <1>2, <1>3, <1>5, FailKeeps DEF AccessFails, Busy, outVars
  <1>6. CASE WriteFails(l)
    <2>1. Current(l) \in Files
      BY <1>1, <1>6 DEF WriteFails, Holding, Current
    <2> QED
      BY <1>3, <1>6, <2>1, FailKeeps DEF WriteFails, Busy
  <1>7. CASE Access(l)
    <2> DEFINE r == [load[l] EXCEPT !.pc = "reply", !.got = remote[Current(l)]]
    <2>1. remote[Current(l)] \in Version /\ remote[Current(l)] # 0
      BY <1>1, <1>2
    <2>2. r \in Records /\ Holding(r) /\ r.pc = "reply"
      BY <1>1, <2>1 DEF Records, Holding
    <2>3. load' = [load EXCEPT ![l] = r] /\ load[l].pc = "access"
      BY <1>7 DEF Access
    <2> HIDE DEF r
    <2> QED
      BY <1>1, <1>2, <1>7, <2>2, <2>3, TurnKeeps DEF Access, Busy, outVars, Cached
  <1>8. CASE WriteFile(l)
    <2> DEFINE r == [load[l] EXCEPT !.pc = "written"]
    <2>1. r \in Records /\ Holding(r) /\ r.pc = "written" /\ r.at = load[l].at
      BY <1>1, <1>8 DEF Records, Holding, WriteFile
    <2>2. load' = [load EXCEPT ![l] = r] /\ load[l].pc = "write"
      BY <1>8 DEF WriteFile
    <2>3. disk' = [disk EXCEPT ![Current(l)] = load[l].got]
      BY <1>8 DEF WriteFile
    <2>4. /\ disk' \in [Secrets -> Version]
          /\ \A f \in Files : disk'[f] # 0 => disk[f] # 0 \/ (r.pc = "written" /\ Order[r.at] = f)
      BY <1>2, <2>1, <2>3, SecretAssumption DEF Current
    <2> HIDE DEF r
    <2> QED
      BY <1>1, <1>2, <1>8, <2>1, <2>2, <2>4, TurnKeeps DEF WriteFile, Busy, Cached
  <1>9. ASSUME Reply(l), Current(l) \in Files PROVE SecretInv'
    <2> DEFINE r == [load[l] EXCEPT !.pc = "write"]
    <2>1. r \in Records /\ Holding(r) /\ r.pc = "write"
      BY <1>1, <1>9 DEF Records, Holding, Reply, Current
    <2>2. load' = [load EXCEPT ![l] = r] /\ load[l].pc = "reply"
      BY <1>9 DEF Reply
    <2> HIDE DEF r
    <2> QED
      BY <1>1, <1>2, <1>9, <2>1, <2>2, TurnKeeps DEF Reply, Busy, Cached
  <1>10. ASSUME env' = [env EXCEPT ![LoadVar[Current(l)]] = load[l].got], Loaded(l), load[l].got # 0,
                Busy(l), UNCHANGED <<mgrVars, disk, remote, stop, straddled, faults>>,
                kept' \subseteq kept, \A f \in kept : f \in kept' \/ tempFiles' = Append(tempFiles, f),
                \/ tempFiles' = tempFiles
                \/ tempFiles' = Append(tempFiles, Current(l)) /\ Current(l) \in Files,
                load[l].pc = "written" => tempFiles' # tempFiles
         PROVE  SecretInv'
    <2>1. Advance(l, "loaded") /\ "loaded" \in Results
      BY <1>10 DEF Loaded, Results
    <2>2. PICK r \in Records : load' = [load EXCEPT ![l] = r] /\ r.pc \in {"done", "refused", "access"}
      BY <1>1, <2>1, AdvanceYields
    <2>3. Holding(r)
      BY <2>2 DEF Holding
    <2>4. cache' = [cache EXCEPT ![Current(l)] = load[l].got]
      BY <1>10 DEF Loaded
    <2>5. cache' \in [Secrets -> Version] /\ env' \in [Vars -> Version]
      BY <1>1, <1>2, <1>10, <2>4
    <2>6. Cached'
      BY <1>1, <1>2, <1>10, <2>4, SecretAssumption DEF Cached
    <2>7. kept' \subseteq Files
      BY <1>2, <1>10
    <2> QED
      BY <1>2, <1>10, <2>2, <2>3, <2>5, <2>6, <2>7, TurnKeeps DEF mgrVars
  <1>11. ASSUME Reply(l), Current(l) \notin Files PROVE SecretInv'
    <2>1. load[l].pc = "reply" /\ load[l].got # 0
      BY <1>1, <1>11 DEF Reply, Holding
    <2> QED
      BY <1>10, <1>11, <2>1 DEF Reply, Busy
  <1>12. CASE Written(l)
    <2>1. load[l].pc = "written" /\ load[l].got # 0 /\ Current(l) \in Files
      BY <1>1, <1>12 DEF Written, Holding, Current
    <2>2. tempFiles' = Append(tempFiles, Current(l)) /\ tempFiles \in Seq(Files)
      BY <1>1, <1>12 DEF Written, TypeOK
    <2>3. tempFiles' # tempFiles
      BY <2>1, <2>2
    <2> QED
      BY <1>10, <1>12, <2>1, <2>2, <2>3 DEF Written, Busy
  <1> QED
    BY <1>4, <1>5, <1>6, <1>7, <1>8, <1>9, <1>11, <1>12 DEF LoadStep

\* init() and reload() only start a call: nothing is listed or written.
LEMMA StartKeeps ==
    ASSUME SecretInv,
           \/ \E l \in Inits : InitDisabled(l) \/ InitUnconfigured(l) \/ StartInit(l)
           \/ \E l \in Reloads : StartReload(l) \/ ReloadUninitialized(l)
    PROVE  SecretInv'
  <1> DEFINE Goes(k) ==
               /\ Holding(load'[k])
               /\ load[k].pc = "written" => load'[k].pc = "written" /\ load'[k].at = load[k].at
               /\ stop.pc # "new" /\ ~straddled' => Busy(k) \/ ~Busy(k)'
             Going == load' \in [Loads -> Records] /\ \A k \in Loads : Goes(k)
  <1>0. load \in [Loads -> Records] /\ remote \in [Secrets -> Version]
    BY DEF SecretInv, TypeOK, Records, Results
  <1>1. ASSUME NEW l \in Loads, NEW pc \in {"done", "failed"}, load[l].pc = "new",
               load' = [load EXCEPT ![l].pc = pc]
        PROVE  Going
    <2> DEFINE r == [load[l] EXCEPT !.pc = pc]
    <2>1. r \in Records /\ Holding(r) /\ r.pc = pc
      BY <1>0 DEF Records, Holding
    <2>2. load' = [load EXCEPT ![l] = r]
      BY <1>1
    <2> HIDE DEF r
    <2>3. load' \in [Loads -> Records] /\ load'[l] = r /\ \A k \in Loads \ {l} : load'[k] = load[k]
      BY <1>0, <2>1, <2>2
    <2>4. ASSUME NEW k \in Loads PROVE Goes(k)
      BY <1>1, <2>1, <2>3 DEF SecretInv, Busy
    <2> QED
      BY <2>3, <2>4
  <1>2. ASSUME NEW l \in Loads, NEW usable \in BOOLEAN, NEW ready \in {"refused", "access"},
               load[l].pc = "new", StartLoop(l, usable, ready), stop' = stop
        PROVE  Going
    <2> DEFINE new == [Idle EXCEPT !.pc = ready, !.usable = usable, !.from = remote,
                                   !.alone = \A q \in Loads : ~Busy(q)]
               other(k) == [load[k] EXCEPT !.alone = @ /\ ~Busy(k)]
    <2>1. 0 \in Version /\ 1 \in 1..Len(Order)
      BY SecretAssumption DEF Version
    <2>2. new \in Records /\ Holding(new)
      BY <1>0, <2>1 DEF Idle, Records, Results, Holding
    <2>3. ASSUME NEW k \in Loads
          PROVE  /\ other(k) \in Records /\ Holding(other(k))
                 /\ other(k).pc = load[k].pc /\ other(k).at = load[k].at
      <3>1. load[k] \in Records /\ Holding(load[k])
        BY <1>0 DEF SecretInv
      <3> QED
        BY <3>1 DEF Records, Holding
    <2>4. load' = [k \in Loads |-> IF k = l THEN new ELSE other(k)]
          /\ straddled' = (straddled \/ stop.pc # "new")
      BY <1>2 DEF StartLoop
    <2> HIDE DEF new, other
    <2>5. load' \in [Loads -> Records]
      BY <2>2, <2>3, <2>4
    <2>6. ASSUME NEW k \in Loads PROVE Goes(k)
      <3>1. load'[k] = IF k = l THEN new ELSE other(k)
        BY <2>4
      <3> QED
        BY <1>2, <2>2, <2>3, <2>4, <3>1
    <2> QED
      BY <2>5, <2>6
  <1>3. ASSUME Going, options' \in {"unset", "disabled", "noProject", "on"}, client' \in {client, "open"},
               cache' = cache \/ cache' = None, straddled' \in BOOLEAN,
               stop.pc # "new" => client' = client,
               stop.pc = "new" => straddled' = straddled, straddled => straddled',
               UNCHANGED <<tempFiles, env, disk, remote, stop, kept, faults>>
        PROVE  SecretInv'
    <2>1. None \in [Secrets -> Version]
      BY SecretAssumption DEF None, Version
    <2>2. TypeOK'
      BY <1>3, <2>1 DEF SecretInv, TypeOK, Records, Results
    <2>3. ASSUME NEW f \in Files, Listing(f) PROVE Listing(f)'
      BY <1>3, <2>3 DEF Listing, Current
    <2>4. Listed'
      BY <1>3, <2>3 DEF SecretInv, Listed
    <2>5. CleanStop' /\ Cached'
      BY <1>3 DEF SecretInv, CleanStop, Cached, None
    <2> QED
      BY <1>3, <2>2, <2>4, <2>5 DEF SecretInv
  <1> HIDE DEF Going
  <1>4. client \in {"none", "open", "closing"} /\ options \in {"unset", "disabled", "noProject", "on"}
        /\ straddled \in BOOLEAN /\ Inits \subseteq Loads /\ Reloads \subseteq Loads
    BY DEF SecretInv, TypeOK, Loads
  <1>5. ASSUME NEW l \in Inits, InitDisabled(l) \/ InitUnconfigured(l) \/ StartInit(l) PROVE SecretInv'
    <2>1. Going
      BY <1>1, <1>2, <1>4, <1>5 DEF InitDisabled, InitUnconfigured, StartInit
    <2> QED
      BY <1>3, <1>4, <1>5, <2>1 DEF InitDisabled, InitUnconfigured, StartInit, StartLoop, outVars
  <1>6. ASSUME NEW l \in Reloads, StartReload(l) \/ ReloadUninitialized(l) PROVE SecretInv'
    <2>1. Going
      BY <1>1, <1>2, <1>4, <1>6 DEF StartReload, ReloadUninitialized
    <2> QED
      BY <1>3, <1>4, <1>6, <2>1 DEF StartReload, ReloadUninitialized, StartLoop, mgrVars, outVars
  <1> QED
    BY <1>5, <1>6

\* shutdown() deletes what is listed, and forgets the rest.
LEMMA StopKeeps == SecretInv /\ (BeginShutdown \/ StopStep) => SecretInv'
  <1> SUFFICES ASSUME SecretInv, BeginShutdown \/ StopStep PROVE SecretInv'
    OBVIOUS
  <1> USE DEF SecretInv, mgrVars, outVars
  <1>1. CASE BeginShutdown
    <2>1. TypeOK'
      BY <1>1 DEF BeginShutdown, TypeOK
    <2>2. Listed'
      BY <1>1 DEF BeginShutdown, Listed, Listing, Busy, Current, TypeOK
    <2>3. CleanStop' /\ Cached' /\ \A l \in Loads : Holding(load'[l])
      BY <1>1 DEF BeginShutdown, CleanStop, Cached, TypeOK
    <2> QED
      BY <2>1, <2>2, <2>3
  <1>2. CASE UnlinkNext
    <2> DEFINE f == tempFiles[stop.at]
    <2>1. /\ stop.at \in Nat \ {0} /\ stop.at \in 1..Len(tempFiles) /\ Len(tempFiles) \in Nat
          /\ tempFiles \in Seq(Files)
      BY <1>2 DEF UnlinkNext, TypeOK, Listed
    <2>2. f \in Files /\ f \in Secrets
      BY <2>1, SecretAssumption
    <2>3. stop' = [stop EXCEPT !.at = @ + 1] /\ stop.pc = "unlink" /\ stop'.at = stop.at + 1
          /\ stop'.pc = "unlink"
      BY <1>2 DEF UnlinkNext, TypeOK
    <2>4. /\ UNCHANGED <<options, client, cache, tempFiles, env, remote, load, straddled>>
          /\ \/ disk' = [disk EXCEPT ![f] = 0] /\ UNCHANGED <<kept, faults>>
             \/ MayFail /\ kept' = kept \cup {f} /\ UNCHANGED disk
      BY <1>2 DEF UnlinkNext
    <2> HIDE DEF f
    <2>5. TypeOK'
      <3>1. stop' \in [pc : {"new", "unlink", "close", "done", "failed"}, at : Nat]
        BY <2>1, <2>3 DEF TypeOK
      <3>2. 0 \in Version /\ MaxFaults \in Nat
        BY SecretAssumption DEF Version
      <3>3. disk' \in [Secrets -> Version] /\ kept' \subseteq Files /\ faults' \in 0..MaxFaults
        BY <2>2, <2>4, <3>2 DEF TypeOK, MayFail
      <3> QED
        BY <2>4, <3>1, <3>3 DEF TypeOK
    <2>6. ASSUME NEW g \in Files, disk'[g] # 0, Listing(g) PROVE Listing(g)'
      <3>1. CASE g = f
        <4>1. f \in kept'
          BY <2>2, <2>4, <2>6, <3>1 DEF TypeOK
        <4> QED
          BY <3>1, <4>1 DEF Listing
      <3>2. CASE g # f
        <4>1. kept \subseteq kept'
          BY <2>4
        <4>2. ASSUME NEW i \in stop.at..Len(tempFiles), tempFiles[i] = g
              PROVE  i \in stop'.at..Len(tempFiles')
          BY <2>1, <2>3, <2>4, <3>2, <4>2 DEF f
        <4> QED
          BY <2>4, <2>6, <4>1, <4>2 DEF Listing, Current
      <3> QED
        BY <3>1, <3>2
    <2>7. \A g \in Files : disk'[g] # 0 => disk[g] # 0
      BY <2>2, <2>4, SecretAssumption DEF TypeOK
    <2>8. Listed'
      BY <2>1, <2>3, <2>4, <2>6, <2>7 DEF Listed, Busy
    <2>9. CleanStop' /\ Cached' /\ \A l \in Loads : Holding(load'[l])
      BY <2>3, <2>4 DEF CleanStop, Cached
    <2> QED
      BY <2>5, <2>8, <2>9
  <1>3. CASE EndUnlink
    <2>0. None \in [Secrets -> Version] /\ <<>> \in Seq(Files)
      BY SecretAssumption DEF None, Version
    <2>1. TypeOK'
      BY <1>3, <2>0 DEF EndUnlink, TypeOK
    <2>2. Listed'
      BY <1>3 DEF EndUnlink, Listed, Busy, TypeOK
    <2>3. ASSUME ~straddled, NEW f \in Files, disk[f] # 0 PROVE f \in kept
      <3>1. Listing(f) /\ stop.at > Len(tempFiles) /\ \A l \in Loads : load[l].pc # "written"
        BY <1>3, <2>3 DEF EndUnlink, Listed, Busy
      <3>2. stop.at \in Nat /\ Len(tempFiles) \in Nat
        BY DEF TypeOK
      <3> QED
        BY <3>1, <3>2 DEF Listing
    <2>4. CleanStop'
      BY <1>3, <2>3 DEF EndUnlink, CleanStop
    <2>5. Cached' /\ \A l \in Loads : Holding(load'[l])
      BY <1>3 DEF EndUnlink, Cached, None
    <2> QED
      BY <2>1, <2>2, <2>4, <2>5
  <1>4. CASE Closed
    <2>1. TypeOK'
      <3>1. MayFail => faults' \in 0..MaxFaults
        BY SecretAssumption DEF MayFail, TypeOK
      <3> QED
        BY <1>4, <3>1 DEF Closed, TypeOK
    <2>2. Listed'
      BY <1>4 DEF Closed, Listed, Busy, TypeOK
    <2>3. CleanStop' /\ Cached' /\ \A l \in Loads : Holding(load'[l])
      BY <1>4 DEF Closed, CleanStop, Cached, TypeOK
    <2> QED
      BY <2>1, <2>2, <2>3
  <1> QED
    BY <1>1, <1>2, <1>3, <1>4 DEF StopStep

\* Every step keeps SecretInv.
LEMMA StepKeeps == SecretInv /\ [Next]_vars => SecretInv'
  <1> SUFFICES ASSUME SecretInv, [Next]_vars PROVE SecretInv'
    OBVIOUS
  <1>1. ASSUME NEW s \in Secrets, Rotate(s) PROVE SecretInv'
    <2>1. remote' \in [Secrets -> Version \ {0}]
      <3>1. remote \in [Secrets -> Version \ {0}]
        BY DEF SecretInv, TypeOK
      <3>2. remote[s] + 1 \in Version \ {0}
        BY <1>1, <3>1, SecretAssumption DEF Rotate, Version
      <3> QED
        BY <1>1, <3>1, <3>2 DEF Rotate
    <2> QED
      BY <1>1, <2>1 DEF Rotate, mgrVars, outVars, SecretInv, TypeOK, Listed, Listing, Busy, Current,
                        CleanStop, Cached
  <1>2. CASE UNCHANGED vars
    BY <1>2 DEF vars, mgrVars, outVars, SecretInv, TypeOK, Listed, Listing, Busy, Current, CleanStop, Cached
  <1> QED
    BY <1>1, <1>2, LoadKeeps, StartKeeps, StopKeeps DEF Next

\* Every state the manager reaches is well typed, and what is listed as a
\* temporary file is the file of a secret.
THEOREM TypeCorrect == Spec => []TypeOK
  <1>1. SecretInv => TypeOK
    BY DEF SecretInv
  <1> QED
    BY <1>1, InitSecret, StepKeeps, PTL DEF Spec

\* After a shutdown() during which nothing was loaded, no secret is left in the
\* cache, and every file that some load wrote whole is gone from the disk unless
\* its deletion failed, though a write to it failed before or after.
THEOREM WrittenAreDeleted == Spec => []CleanStop
  <1>1. SecretInv => CleanStop
    BY DEF SecretInv
  <1> QED
    BY <1>1, InitSecret, StepKeeps, PTL DEF Spec

-----------------------------------------------------------------------------

\* A variable that has a value keeps one, whoever sets it.
LEMMA VariablesKept ==
    ASSUME SecretInv, [Next]_vars
    PROVE  \A v \in Vars : env[v] # 0 => env'[v] # 0
  <1>1. env \in [Vars -> Version]
    BY DEF SecretInv, TypeOK
  <1>2. ASSUME NEW l \in Loads, load[l].pc \in {"reply", "written"},
               env' = [env EXCEPT ![LoadVar[Current(l)]] = load[l].got]
        PROVE  \A v \in Vars : env[v] # 0 => env'[v] # 0
    BY <1>1, <1>2 DEF SecretInv, Holding
  <1>3. ASSUME NEW l \in Loads, LoadStep(l) PROVE \A v \in Vars : env[v] # 0 => env'[v] # 0
    BY <1>2, <1>3 DEF LoadStep, Refused, Access, AccessFails, Reply, WriteFile, WriteFails, Written,
                      Fail, outVars
  <1>4. CASE UNCHANGED env
    BY <1>4
  <1>5. UNCHANGED env \/ \E l \in Loads : LoadStep(l)
    BY DEF Next, InitDisabled, InitUnconfigured, StartInit, StartReload, ReloadUninitialized,
           BeginShutdown, StopStep, UnlinkNext, EndUnlink, Closed, Rotate, outVars, vars
  <1> QED
    BY <1>3, <1>4, <1>5

\* What a step records of a secret: nothing new, or that its variable is set.
LEMMA RecordedTruly ==
    ASSUME SecretInv, [Next]_vars, \A s \in Secrets : FallbackVar[s] = LoadVar[s],
           NEW l \in Loads, NEW s \in Secrets, load'[l].out[s] \in {"loaded", "fallback"}
    PROVE  load[l].out[s] = load'[l].out[s] \/ env'[LoadVar[s]] # 0
  <1>0. load \in [Loads -> Records] /\ TypeOK /\ env \in [Vars -> Version]
    BY DEF SecretInv, TypeOK, Records, Results
  <1>1. ASSUME NEW k \in Loads, LoadStep(k) PROVE load[l].out[s] = load'[l].out[s] \/ env'[LoadVar[s]] # 0
    <2>0. load[k] \in Records /\ Current(k) \in Secrets /\ LoadVar[Current(k)] \in Vars
      BY <1>0, AtSecret
    <2>1. ASSUME NEW how \in Results, Advance(k, how),
                 how \in {"loaded", "fallback"} => env'[LoadVar[Current(k)]] # 0
          PROVE  load[l].out[s] = load'[l].out[s] \/ env'[LoadVar[s]] # 0
      <3>1. PICK r \in Records : load' = [load EXCEPT ![k] = r]
                                 /\ r.out = [load[k].out EXCEPT ![Current(k)] = how]
        BY <1>0, <2>1, AdvanceYields
      <3>2. CASE k = l
        <4>1. load'[l].out = [load[l].out EXCEPT ![Current(l)] = how] /\ load[l].out \in [Secrets -> Results]
          BY <1>0, <2>0, <3>1, <3>2 DEF Records
        <4> QED
          BY <2>1, <3>2, <4>1
      <3>3. CASE k # l
        BY <1>0, <3>1, <3>3
      <3> QED
        BY <3>2, <3>3
    <2>2. CASE Fail(k) /\ UNCHANGED env
      BY <1>0, <2>0, <2>1, <2>2 DEF Fail, Results, outVars
    <2>3. ASSUME Loaded(k), env' = [env EXCEPT ![LoadVar[Current(k)]] = load[k].got],
                 load[k].pc \in {"reply", "written"}
          PROVE  load[l].out[s] = load'[l].out[s] \/ env'[LoadVar[s]] # 0
      <3>1. load[k].got # 0
        BY <2>3 DEF SecretInv, Holding
      <3> QED
        BY <1>0, <2>0, <2>1, <2>3, <3>1 DEF Loaded, Results
    <2>4. ASSUME NEW pc, NEW got,
                 \/ load' = [load EXCEPT ![k].pc = pc, ![k].got = got]
                 \/ load' = [load EXCEPT ![k].pc = pc]
          PROVE  load'[l].out[s] = load[l].out[s]
      <3>1. load[l] \in Records
        BY <1>0
      <3>2. CASE load' = [load EXCEPT ![k].pc = pc]
        BY <1>0, <3>1, <3>2 DEF Records
      <3>3. CASE load' = [load EXCEPT ![k].pc = pc, ![k].got = got]
        <4>1. load'[l] = IF l = k THEN [load[l] EXCEPT !.pc = pc, !.got = got] ELSE load[l]
          BY <1>0, <3>3
        <4> QED
          BY <3>1, <4>1 DEF Records
      <3> QED
        BY <2>4, <3>2, <3>3
    <2>5. CASE Refused(k) \/ AccessFails(k) \/ WriteFails(k)
      BY <2>2, <2>5 DEF Refused, AccessFails, WriteFails, outVars
    <2>6. CASE Access(k)
      <3>1. load' = [load EXCEPT ![k].pc = "reply", ![k].got = remote[Current(k)]]
        BY <2>6 DEF Access
      <3> QED
        BY <2>4, <3>1
    <2>7. CASE Reply(k) \/ Written(k)
      BY <2>3, <2>4, <2>7 DEF Reply, Written
    <2>8. CASE WriteFile(k)
      BY <2>4, <2>8 DEF WriteFile
    <2> QED
      BY <1>1, <2>5, <2>6, <2>7, <2>8 DEF LoadStep
  <1>2. ASSUME NEW k \in Inits \cup Reloads,
               \/ InitDisabled(k) \/ InitUnconfigured(k) \/ StartInit(k)
               \/ StartReload(k) \/ ReloadUninitialized(k)
        PROVE  load[l].out[s] = load'[l].out[s]
    <2>1. ASSUME NEW usable, NEW ready, StartLoop(k, usable, ready) PROVE load[l].out[s] = load'[l].out[s]
      <3>1. CASE k = l
        <4>1. load'[l].out = Idle.out
          BY <2>1, <3>1 DEF StartLoop, Idle
        <4> QED
          BY <4>1 DEF Idle
      <3>2. CASE k # l
        BY <1>0, <2>1, <3>2 DEF StartLoop, Records
      <3> QED
        BY <3>1, <3>2
    <2>2. ASSUME NEW pc, load' = [load EXCEPT ![k].pc = pc] PROVE load[l].out[s] = load'[l].out[s]
      BY <1>0, <2>2 DEF Records
    <2> QED
      BY <1>2, <2>1, <2>2 DEF InitDisabled, InitUnconfigured, StartInit, StartReload, ReloadUninitialized
  <1>3. CASE UNCHANGED load
    BY <1>3
  <1> QED
    BY <1>1, <1>2, <1>3 DEF Next, BeginShutdown, StopStep, UnlinkNext, EndUnlink, Closed, Rotate, vars

\* Where the fallback of every secret looks at the variable its load sets (for a
\* file, where that is given as targetEnvVar), the application finds what the
\* result counts as loaded or as a fallback, from then on.
THEOREM ResultsAreTrue ==
    ASSUME \A s \in Secrets : FallbackVar[s] = LoadVar[s]
    PROVE  Spec => []ResultIsTrue
  <1>1. Init => ResultIsTrue
    BY DEF Init, ResultIsTrue, Idle
  <1>2. SecretInv /\ ResultIsTrue /\ [Next]_vars => ResultIsTrue'
    <2> SUFFICES ASSUME SecretInv, ResultIsTrue, [Next]_vars, NEW l \in Loads, NEW s \in Secrets,
                        load'[l].out[s] \in {"loaded", "fallback"}
                 PROVE  env'[LoadVar[s]] # 0
      BY DEF ResultIsTrue
    <2>1. LoadVar[s] \in Vars
      BY SecretAssumption
    <2> QED
      BY <2>1, RecordedTruly, VariablesKept DEF ResultIsTrue
  <1> QED
    BY <1>1, <1>2, InitSecret, StepKeeps, PTL DEF Spec

\* A secret in its own variable that getSecret() has answered stays available,
\* through reload(), failing loads and shutdown().
THEOREM StaysServed == Spec => ServedThroughout
  <1>1. SecretInv /\ SecretInv' /\ [Next]_vars =>
          [\A s \in Secrets : GetSecret(s) # 0 /\ LoadVar[s] = NameVar[s] => GetSecret(s)' # 0]_vars
    <2> SUFFICES ASSUME SecretInv, SecretInv', [Next]_vars, NEW s \in Secrets,
                        GetSecret(s) # 0, LoadVar[s] = NameVar[s]
                 PROVE  GetSecret(s)' # 0
      OBVIOUS
    <2>1. LoadVar[s] \in Vars
      BY SecretAssumption
    <2>2. env[LoadVar[s]] # 0
      BY DEF SecretInv, Cached, GetSecret
    <2>3. env'[LoadVar[s]] # 0
      BY <2>1, <2>2, VariablesKept
    <2> QED
      BY <2>3 DEF GetSecret
  <1> QED
    BY <1>1, InitSecret, StepKeeps, PTL DEF Spec, ServedThroughout

-----------------------------------------------------------------------------

\* Every secret is loaded into a variable of its own.
OwnVariables == \A s, t \in Secrets : LoadVar[s] = LoadVar[t] => s = t

\* One step of a call that nothing overlaps.
LEMMA TurnFresh ==
    ASSUME SecretInv, AloneFresh, OwnVariables, NEW l \in Loads, load[l].alone, LoadStep(l)
    PROVE  /\ Busy(l) /\ remote' = remote /\ \A q \in Loads \ {l} : load'[q] = load[q]
           /\ \A s \in Secrets : load'[l].out[s] = "loaded" => env'[LoadVar[s]] >= load[l].from[s]
           /\ load'[l].pc # "done" =>
                /\ load'[l].from = load[l].from
                /\ load'[l].pc \in {"reply", "write", "written"} =>
                     load'[l].got >= load'[l].from[Order[load'[l].at]]
  <1> DEFINE Out == \A s \in Secrets : load'[l].out[s] = "loaded" => env'[LoadVar[s]] >= load[l].from[s]
             Rest == load'[l].pc # "done" =>
                       /\ load'[l].from = load[l].from
                       /\ load'[l].pc \in {"reply", "write", "written"} =>
                            load'[l].got >= load'[l].from[Order[load'[l].at]]
             Others == \A q \in Loads \ {l} : load'[q] = load[q]
  <1>0. load \in [Loads -> Records] /\ TypeOK /\ env \in [Vars -> Version] /\ LoadVar \in [Secrets -> Vars]
    BY SecretAssumption DEF SecretInv, TypeOK, Records, Results
  <1>1. load[l] \in Records /\ Current(l) \in Secrets /\ LoadVar[Current(l)] \in Vars
    BY <1>0, AtSecret
  <1>2. Busy(l)
    BY DEF Busy, LoadStep, Refused, Access, AccessFails, Reply, WriteFile, WriteFails, Written
  <1>3. FreshRecord(load[l])
    BY <1>2 DEF AloneFresh
  <1>4. ASSUME NEW how \in Results, Advance(l, how),
               \A s \in Secrets : env[LoadVar[s]] >= load[l].from[s] =>
                                    env'[LoadVar[s]] >= load[l].from[s],
               how = "loaded" => env'[LoadVar[Current(l)]] >= load[l].from[Current(l)]
        PROVE  Out /\ Rest /\ Others
    <2>1. PICK r \in Records : /\ load' = [load EXCEPT ![l] = r]
                               /\ r.out = [load[l].out EXCEPT ![Current(l)] = how]
                               /\ r.pc \in {"done", "refused", "access"}
                               /\ r.pc # "done" => r.alone = load[l].alone /\ r.from = load[l].from
      BY <1>0, <1>4, AdvanceYields
    <2>2. load'[l] = r /\ Others
      BY <1>0, <2>1
    <2>3. Rest
      BY <2>1, <2>2
    <2>4. load[l].out \in [Secrets -> Results]
      BY <1>1 DEF Records
    <2>5. Out
      BY <1>3, <1>4, <2>1, <2>2, <2>4 DEF FreshRecord
    <2> QED
      BY <2>2, <2>3, <2>5
  <1>5. ASSUME Fail(l), UNCHANGED env PROVE Out /\ Rest /\ Others
    BY <1>4, <1>5 DEF Fail, Results, outVars
  <1>6. ASSUME Loaded(l), env' = [env EXCEPT ![LoadVar[Current(l)]] = load[l].got],
               load[l].pc \in {"reply", "written"}
        PROVE  Out /\ Rest /\ Others
    <2>1. load[l].got >= load[l].from[Current(l)]
      BY <1>3, <1>6 DEF FreshRecord, Current
    <2>2. env'[LoadVar[Current(l)]] = load[l].got
      BY <1>0, <1>1, <1>6
    <2>3. \A s \in Secrets : env[LoadVar[s]] >= load[l].from[s] => env'[LoadVar[s]] >= load[l].from[s]
      BY <1>0, <1>1, <1>6, <2>1, <2>2 DEF OwnVariables
    <2> QED
      BY <1>4, <1>6, <2>1, <2>2, <2>3 DEF Loaded, Results
  <1>7. ASSUME NEW r, load' = [load EXCEPT ![l] = r], UNCHANGED env,
               r.out = load[l].out, r.from = load[l].from,
               r.pc \in {"reply", "write", "written"} => r.got >= r.from[Order[r.at]]
        PROVE  Out /\ Rest /\ Others
    BY <1>0, <1>3, <1>7 DEF FreshRecord
  <1>8. CASE Refused(l) \/ AccessFails(l) \/ WriteFails(l)
    BY <1>2, <1>5, <1>8 DEF Refused, AccessFails, WriteFails, outVars
  <1>9. CASE Access(l)
    <2> DEFINE r == [load[l] EXCEPT !.pc = "reply", !.got = remote[Current(l)]]
    <2>1. load' = [load EXCEPT ![l] = r] /\ UNCHANGED <<env, remote>>
      BY <1>9 DEF Access, outVars
    <2>2. r.out = load[l].out /\ r.from = load[l].from /\ r.got = remote[Current(l)] /\ r.at = load[l].at
      BY <1>1 DEF Records
    <2>3. r.got >= r.from[Order[r.at]]
      BY <1>1, <1>3, <2>2 DEF FreshRecord, Current
    <2> HIDE DEF r
    <2> QED
      BY <1>2, <1>7, <2>1, <2>2, <2>3
  <1>10. ASSUME NEW pc \in {"write", "written"}, load' = [load EXCEPT ![l].pc = pc], UNCHANGED env,
                load[l].pc \in {"reply", "write"}
         PROVE  Out /\ Rest /\ Others
    <2> DEFINE r == [load[l] EXCEPT !.pc = pc]
    <2>1. load' = [load EXCEPT ![l] = r]
      BY <1>10
    <2>2. r.out = load[l].out /\ r.from = load[l].from /\ r.got = load[l].got /\ r.at = load[l].at
      BY <1>1 DEF Records
    <2>3. r.got >= r.from[Order[r.at]]
      BY <1>3, <1>10, <2>2 DEF FreshRecord
    <2> HIDE DEF r
    <2> QED
      BY <1>7, <1>10, <2>1, <2>2, <2>3
  <1>11. CASE Reply(l) \/ WriteFile(l) \/ Written(l)
    BY <1>2, <1>6, <1>10, <1>11 DEF Reply, WriteFile, Written
  <1> QED
    BY <1>8, <1>9, <1>11 DEF LoadStep

\* No step makes what a call has older than what was there when it began.
LEMMA FreshKept ==
    ASSUME SecretInv, AloneFresh, OwnVariables, [Next]_vars
    PROVE  AloneFresh'
  <1>0. load \in [Loads -> Records] /\ remote \in [Secrets -> Version \ {0}] /\ Version \subseteq Nat
    BY DEF SecretInv, TypeOK, Records, Results, Version
  <1> SUFFICES ASSUME NEW l \in Loads, Busy(l)', load'[l].alone
               PROVE  FreshRecord(load[l])' /\ \A q \in Loads \ {l} : ~Busy(q)'
    BY DEF AloneFresh
  <1>1. ASSUME NEW k \in Loads, LoadStep(k)
        PROVE  FreshRecord(load[l])' /\ \A q \in Loads \ {l} : ~Busy(q)'
    <2>1. Busy(k)
      BY <1>1 DEF Busy, LoadStep, Refused, Access, AccessFails, Reply, WriteFile, WriteFails, Written
    <2>2. /\ \E r \in Records : load' = [load EXCEPT ![k] = r] /\ (r.pc # "done" => r.alone = load[k].alone)
      <3>1. ASSUME NEW how \in Results, Advance(k, how) PROVE <2>2
        BY <3>1, AdvanceYields DEF SecretInv
      <3>2. ASSUME NEW pc \in {"reply", "write", "written"},
                   \/ load' = [load EXCEPT ![k].pc = pc, ![k].got = remote[Current(k)]]
                   \/ load' = [load EXCEPT ![k].pc = pc]
            PROVE  <2>2
        <4> DEFINE r1 == [load[k] EXCEPT !.pc = pc]
                   r2 == [load[k] EXCEPT !.pc = pc, !.got = remote[Current(k)]]
        <4>1. load[k] \in Records /\ remote[Current(k)] \in Version
          BY <1>0, AtSecret DEF SecretInv
        <4>2. r1 \in Records /\ r2 \in Records /\ r1.alone = load[k].alone /\ r2.alone = load[k].alone
          BY <4>1 DEF Records
        <4>3. load' = [load EXCEPT ![k] = r1] \/ load' = [load EXCEPT ![k] = r2]
          BY <3>2
        <4> HIDE DEF r1, r2
        <4> QED
          BY <4>2, <4>3
      <3> QED
        BY <1>1, <3>1, <3>2 DEF LoadStep, Refused, Access, AccessFails, Reply, WriteFile, WriteFails,
                                Written, Fail, Loaded, Results
    <2>3. CASE k = l
      <3>1. load[l].alone
        BY <1>0, <2>2, <2>3 DEF Busy
      <3>2. \A q \in Loads \ {l} : ~Busy(q)
        BY <2>1, <2>3, <3>1 DEF AloneFresh
      <3>3. FreshRecord(load[l])
        BY <2>1, <2>3, <3>1 DEF AloneFresh
      <3> QED
        BY <1>1, <2>3, <3>1, <3>2, <3>3, TurnFresh DEF FreshRecord, Busy
    <2>4. CASE k # l
      BY <1>0, <2>1, <2>2, <2>4 DEF AloneFresh, Busy
    <2> QED
      BY <2>3, <2>4
  <1>2. ASSUME NEW k \in Loads, NEW usable, NEW ready \in {"refused", "access"}, StartLoop(k, usable, ready),
               UNCHANGED <<remote, env>>
        PROVE  FreshRecord(load[l])' /\ \A q \in Loads \ {l} : ~Busy(q)'
    <2>1. \A q \in Loads \ {k} : /\ load'[q] = [load[q] EXCEPT !.alone = load[q].alone /\ ~Busy(q)]
                                 /\ load[q] \in Records
      BY <1>0, <1>2 DEF StartLoop
    <2>2. \A q \in Loads \ {k} : /\ load'[q].pc = load[q].pc
                                 /\ load'[q].alone = (load[q].alone /\ ~Busy(q))
      BY <2>1 DEF Records
    <2>3. l = k
      BY <2>2 DEF Busy
    <2>4. /\ load'[l].from = remote /\ load'[l].pc = ready /\ load'[l].out = [s \in Secrets |-> "none"]
          /\ \A q \in Loads : ~Busy(q)
      BY <1>2, <2>3 DEF StartLoop, Idle
    <2>5. FreshRecord(load[l])'
      <3>1. \A s \in Secrets : remote'[s] >= load'[l].from[s] /\ load'[l].out[s] # "loaded"
        <4> TAKE s \in Secrets
        <4>1. remote[s] \in Nat
          BY <1>0
        <4> QED
          BY <1>2, <2>4, <4>1
      <3>2. load'[l].pc \notin {"reply", "write", "written"}
        BY <2>4
      <3> QED
        BY <3>1, <3>2 DEF FreshRecord
    <2> QED
      BY <2>2, <2>3, <2>4, <2>5 DEF Busy
  <1>3. ASSUME NEW k \in Loads, load[k].pc = "new", NEW pc \in {"done", "failed"},
               load' = [load EXCEPT ![k].pc = pc], UNCHANGED <<remote, env>>
        PROVE  FreshRecord(load[l])' /\ \A q \in Loads \ {l} : ~Busy(q)'
    <2>1. \A q \in Loads \ {k} : load'[q] = load[q]
      BY <1>0, <1>3
    <2>2. load'[k].pc = pc
      BY <1>0, <1>3 DEF Records
    <2> QED
      BY <1>3, <2>1, <2>2 DEF AloneFresh, FreshRecord, Busy
  <1>4. ASSUME UNCHANGED <<load, env>>, \A s \in Secrets : remote'[s] >= remote[s],
               remote' \in [Secrets -> Nat]
        PROVE  FreshRecord(load[l])' /\ \A q \in Loads \ {l} : ~Busy(q)'
    <2>1. load[l].from \in [Secrets -> Nat]
      BY <1>0 DEF Records
    <2>2. FreshRecord(load[l]) /\ \A q \in Loads \ {l} : ~Busy(q)
      BY <1>4 DEF AloneFresh, Busy
    <2>3. \A s \in Secrets : remote'[s] >= load[l].from[s]
      <3> TAKE s \in Secrets
      <3>1. remote[s] \in Nat /\ remote'[s] \in Nat /\ load[l].from[s] \in Nat
        BY <1>0, <1>4, <2>1
      <3> QED
        BY <1>4, <2>2, <3>1 DEF FreshRecord
    <2> QED
      BY <1>4, <2>2, <2>3 DEF FreshRecord, Busy
  <1>5. ASSUME NEW s \in Secrets, Rotate(s)
        PROVE  FreshRecord(load[l])' /\ \A q \in Loads \ {l} : ~Busy(q)'
    <2>1. remote' = [remote EXCEPT ![s] = @ + 1] /\ UNCHANGED <<load, env>>
      BY <1>5 DEF Rotate, outVars
    <2>2. \A t \in Secrets : remote[t] \in Nat
      BY <1>0
    <2>3. \A t \in Secrets : remote'[t] = IF t = s THEN remote[t] + 1 ELSE remote[t]
      BY <1>0, <2>1
    <2>4. remote' \in [Secrets -> Nat]
      BY <1>0, <2>1, <2>2
    <2> QED
      BY <1>4, <2>1, <2>2, <2>3, <2>4
  <1>6. CASE BeginShutdown \/ StopStep \/ UNCHANGED vars
    <2>1. UNCHANGED <<load, env, remote>>
      BY <1>6 DEF BeginShutdown, StopStep, UnlinkNext, EndUnlink, Closed, outVars, vars
    <2>2. \A s \in Secrets : remote[s] \in Nat
      BY <1>0
    <2> QED
      BY <1>0, <1>4, <2>1, <2>2
  <1>7. ASSUME NEW k \in Inits, InitDisabled(k) \/ InitUnconfigured(k) \/ StartInit(k)
        PROVE  FreshRecord(load[l])' /\ \A q \in Loads \ {l} : ~Busy(q)'
    BY <1>2, <1>3, <1>7 DEF InitDisabled, InitUnconfigured, StartInit, outVars, Loads
  <1>8. ASSUME NEW k \in Reloads, StartReload(k) \/ ReloadUninitialized(k)
        PROVE  FreshRecord(load[l])' /\ \A q \in Loads \ {l} : ~Busy(q)'
    BY <1>2, <1>3, <1>8 DEF StartReload, ReloadUninitialized, outVars, Loads
  <1> QED
    BY <1>1, <1>5, <1>6, <1>7, <1>8 DEF Next

\* Where every secret has a variable of its own, a load that no other one
\* overlapped ends with values as new as they were when it was called.
THEOREM LoadsAreFresh ==
    ASSUME OwnVariables
    PROVE  Spec => LoadIsFresh
  <1>1. Init => AloneFresh
    BY DEF Init, AloneFresh, Busy, Idle
  <1>2. SecretInv /\ AloneFresh /\ [Next]_vars => AloneFresh'
    BY FreshKept
  <1>3. SecretInv /\ AloneFresh /\ [Next]_vars =>
          [\A l \in Loads : Busy(l) /\ load[l]'.pc = "done" /\ load[l].alone =>
             \A s \in Secrets : load[l]'.out[s] = "loaded" => env'[LoadVar[s]] >= load[l].from[s]]_vars
    <2> SUFFICES ASSUME SecretInv, AloneFresh, Next, NEW l \in Loads,
                        Busy(l), load'[l].pc = "done", load[l].alone
                 PROVE  \A s \in Secrets : load'[l].out[s] = "loaded" =>
                                             env'[LoadVar[s]] >= load[l].from[s]
      OBVIOUS
    <2>0. load \in [Loads -> Records]
      BY DEF SecretInv, TypeOK, Records, Results
    <2>1. ASSUME NEW k \in Loads \ {l}, LoadStep(k) PROVE FALSE
      BY <2>1 DEF AloneFresh, Busy, LoadStep, Refused, Access, AccessFails, Reply, WriteFile, WriteFails,
                  Written
    <2>2. ASSUME NEW k \in Loads, NEW usable, NEW ready \in {"refused", "access"}, load[k].pc = "new",
                 StartLoop(k, usable, ready)
          PROVE  FALSE
      <3>1. l # k /\ load'[l] = [load[l] EXCEPT !.alone = load[l].alone /\ ~Busy(l)] /\ load[l] \in Records
        BY <2>0, <2>2 DEF StartLoop, Busy
      <3> QED
        BY <3>1 DEF Busy, Records
    <2>3. ASSUME NEW k \in Loads, NEW pc, load[k].pc = "new", load' = [load EXCEPT ![k].pc = pc]
          PROVE  FALSE
      BY <2>0, <2>3 DEF Busy
    <2>4. ASSUME load' = load PROVE FALSE
      BY <2>4 DEF Busy
    <2>5. LoadStep(l)
      BY <2>1, <2>2, <2>3, <2>4
         DEF Next, InitDisabled, InitUnconfigured, StartInit, StartReload, ReloadUninitialized,
             BeginShutdown, StopStep, UnlinkNext, EndUnlink, Closed, Rotate, Loads
    <2> QED
      BY <2>5, TurnFresh
  <1> QED
    BY <1>1, <1>2, <1>3, InitSecret, StepKeeps, PTL DEF Spec, LoadIsFresh

=============================================================================
