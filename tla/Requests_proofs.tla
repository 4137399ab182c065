--------------------------- MODULE Requests_proofs ---------------------------
(***************************************************************************)
(* Proofs about Requests and KeySet, for any key sets, fetches, endpoints, *)
(* calls and requests at once: a token is only accepted with a key that is *)
(* not revoked, and the gauge of open requests drifts only by the          *)
(* registrations that come after the close of their response.              *)
(***************************************************************************)
EXTENDS Requests, FiniteSetTheorems, TLAPS

FetchStates ==
    [pc : {"none", "request", "answered"}, tries : 0..MaxTries,
     got : 0..Len(Published), since : 0..Len(Published), init : BOOLEAN]

\* A fetch that nothing overlaps is the only one, and what it got was served
\* after it began; what any fetch got was served after the last refresh.
FetchOK(f) ==
    /\ ~Pending(f) => fetch[f] = NoFetch
    /\ Pending(f) => source = "network" /\ (initPc \in {"none", "fetching"} => fetch[f].init)
    /\ fetch[f].pc = "request" => fetch[f].got = 0
    /\ fetch[f].got # 0 => fetch[f].got \in floor..served /\ fetch[f].since <= fetch[f].got
    /\ fetch[f].since # 0 => fetch[f].since <= served /\ \A g \in Fetches \ {f} : ~Pending(g)

\* The known keys are a set that was served since the last refresh began.
Known == keySet = {} \/ \E v \in floor..served : keySet = Published[v]

KeyInv == KeyTypeOK /\ Known /\ \A f \in Fetches : FetchOK(f)

States ==
    [pc : {"idle", "chain", "asking", "over"}, call : Calls, at : Nat \ {0}, user : Users,
     verified : BOOLEAN, sent : BOOLEAN, closed : BOOLEAN, metered : 0..2]

\* A request is counted at most as often as it has passed requestMetrics, at
\* least once while it is in flight, and only while it is open.
RequestOK(s) ==
    /\ s \in States
    /\ s.pc = "chain" => s.at <= Len(Chain(s.call))
    /\ s.pc = "asking" => s.at <= Len(Chain(s.call)) /\ Chain(s.call)[s.at] = "userResolver"
    /\ s.at <= 2 => s.metered = 0
    /\ s.at <= 4 => s.metered <= 1
    /\ s.pc \in {"chain", "asking"} /\ s.at > 2 /\ ~s.sent /\ ~s.closed => s.metered # 0
    /\ s.metered # 0 => s.pc # "idle" /\ ~s.closed

\* How often the requests are counted: once, and some twice.
Counted(q, n) == {r \in Requests : q[r].metered >= n}
Total(q) == Cardinality(Counted(q, 1)) + Cardinality(Counted(q, 2))

RequestInv ==
    /\ req \in [Requests -> States]
    /\ \A r \in Requests : RequestOK(req[r])
    /\ late \in Nat /\ gauge = late + Total(req)

\* The request r becomes s, and the gauge follows, or a late registration.
Moves(r, s) ==
    /\ RequestOK(s) /\ req' = [req EXCEPT ![r] = s]
    /\ late' \in {late, late + 1}
    /\ gauge' = gauge - req[r].metered + s.metered + (late' - late)
    /\ s.verified => req[r].verified \/ Accepts(Called(r), req[r].call)

-----------------------------------------------------------------------------
(* The keys *)

\* At the start nothing is known or fetched.
LEMMA InitKeys == KeyInit => KeyInv
  <1> SUFFICES ASSUME KeyInit PROVE KeyInv
    OBVIOUS
  <1>1. Len(Published) \in Nat \ {0} /\ MaxTries \in Nat \ {0} /\ MaxFaults \in Nat
    BY KeySetAssumption
  <1>2. NoFetch \in FetchStates /\ NoFetch.pc = "none" /\ NoFetch.got = 0 /\ NoFetch.since = 0
    BY <1>1 DEF NoFetch, FetchStates
  <1>3. fetch \in [Fetches -> FetchStates] /\ \A f \in Fetches : fetch[f] = NoFetch
    BY <1>2 DEF KeyInit
  <1>4. KeyTypeOK
    BY <1>1, <1>3 DEF KeyInit, KeyTypeOK, FetchStates
  <1>5. \A f \in Fetches : FetchOK(f)
    BY <1>2, <1>3 DEF FetchOK, Pending
  <1> QED
    BY <1>4, <1>5 DEF KeyInv, Known, KeyInit

\* What KeyInv says of the numbers.
LEMMA KeyNumbers ==
    ASSUME KeyInv
    PROVE  /\ Len(Published) \in Nat \ {0} /\ MaxTries \in Nat \ {0} /\ MaxFaults \in Nat
           /\ served \in 1..Len(Published) /\ served \in Nat /\ floor \in 0..served /\ floor \in Nat
           /\ Published[served] \in SUBSET Keys /\ fetch \in [Fetches -> FetchStates]
           /\ \A v \in 1..Len(Published) : Published[v] \in SUBSET Keys
  <1>1. Len(Published) \in Nat \ {0} /\ \A v \in 1..Len(Published) : Published[v] \in SUBSET Keys
    BY KeySetAssumption
  <1> QED
    BY <1>1, KeySetAssumption DEF KeyInv, KeyTypeOK, FetchStates

\* A fetch begins, and ends being alone for those that are under way.
LEMMA StartFetchKeeps ==
    ASSUME KeyInv, NEW f \in Fetches, NEW init \in BOOLEAN, StartFetch(f, init), source = "network",
           UNCHANGED <<source, served, keySet, interval, floor, faults>>,
           \/ initPc' = "fetching" /\ initPc = "none" /\ init
           \/ initPc' = initPc /\ interval = "armed"
    PROVE  KeyInv'
  <1> DEFINE new == [NoFetch EXCEPT !.pc = "request", !.tries = 1, !.init = init,
                       !.since = IF \E h \in Fetches : Pending(h) THEN 0 ELSE served]
             other(g) == [fetch[g] EXCEPT !.since = 0]
  <1>1. new \in FetchStates /\ new.pc = "request" /\ new.got = 0 /\ new.init = init
        /\ new.since = IF \E h \in Fetches : Pending(h) THEN 0 ELSE served
    <2> DEFINE since == IF \E h \in Fetches : Pending(h) THEN 0 ELSE served
    <2>1. since \in 0..Len(Published) /\ 0 \in 0..Len(Published) /\ 1 \in 0..MaxTries
      BY KeyNumbers
    <2>2. new = [NoFetch EXCEPT !.pc = "request", !.tries = 1, !.init = init, !.since = since]
      OBVIOUS
    <2> HIDE DEF since, new
    <2>3. new \in FetchStates /\ new.pc = "request" /\ new.got = 0 /\ new.init = init /\ new.since = since
      BY <2>1, <2>2 DEF NoFetch, FetchStates
    <2> QED
      BY <2>3 DEF since
  <1>2. ASSUME NEW g \in Fetches
        PROVE  /\ other(g) \in FetchStates /\ other(g).pc = fetch[g].pc /\ other(g).got = fetch[g].got
               /\ other(g).since = 0 /\ other(g).init = fetch[g].init
               /\ fetch[g] = NoFetch => other(g) = NoFetch
    <2>1. fetch[g] \in FetchStates /\ 0 \in 0..Len(Published)
      BY KeyNumbers
    <2> QED
      BY <2>1 DEF FetchStates, NoFetch
  <1>3. fetch' = [g \in Fetches |-> IF g = f THEN new ELSE other(g)] /\ ~Pending(f)
    BY DEF StartFetch
  <1> HIDE DEF new, other
  <1>4. fetch' \in [Fetches -> FetchStates]
    BY <1>1, <1>2, <1>3
  <1>5. KeyTypeOK'
    BY <1>4 DEF KeyInv, KeyTypeOK, FetchStates
  <1>6. ASSUME NEW g \in Fetches PROVE FetchOK(g)'
    <2>1. CASE g = f
      <3>1. fetch'[g] = new
        BY <1>3, <2>1
      <3>2. new.since # 0 => new.since = served /\ \A h \in Fetches : ~Pending(h)
        BY <1>1
      <3>3. \A h \in Fetches \ {f} : ~Pending(h) => ~Pending(h)'
        BY <1>2, <1>3 DEF Pending
      <3> QED
        BY <1>1, <2>1, <3>1, <3>2, <3>3, KeyNumbers DEF FetchOK, Pending, KeyInv, KeyTypeOK
    <2>2. CASE g # f
      <3>1. fetch'[g] = other(g) /\ FetchOK(g)
        BY <1>3, <2>2 DEF KeyInv
      <3>2. fetch[g].got \in Nat
        BY KeyNumbers DEF FetchStates
      <3> QED
        BY <1>2, <3>1, <3>2, KeyNumbers DEF FetchOK, Pending, KeyInv, KeyTypeOK
    <2> QED
      BY <2>1, <2>2
  <1> QED
    BY <1>5, <1>6 DEF KeyInv, Known

\* The promise of a fetch settles, with the keys it stores if there are any.
LEMMA SettleKeeps ==
    ASSUME KeyInv, NEW f \in Fetches, NEW ok \in BOOLEAN, Pending(f), Settle(f, ok),
           UNCHANGED <<source, served>>, faults' \in 0..MaxFaults,
           \/ UNCHANGED <<keySet, floor>>
           \/ /\ ok /\ fetch[f].got # 0 /\ keySet' = Published[fetch[f].got]
              /\ floor' = IF fetch[f].since # 0 THEN fetch[f].since ELSE floor
    PROVE  KeyInv'
  <1>1. /\ fetch[f] \in FetchStates /\ FetchOK(f) /\ NoFetch \in FetchStates
        /\ fetch[f].since \in Nat /\ fetch[f].got \in 0..Len(Published)
    BY KeyNumbers DEF KeyInv, FetchStates, NoFetch
  <1>2. fetch' \in [Fetches -> FetchStates] /\ fetch'[f] = NoFetch
        /\ \A g \in Fetches \ {f} : fetch'[g] = fetch[g]
    BY <1>1, KeyNumbers DEF Settle
  <1>3. ~Pending(f)' /\ \A g \in Fetches \ {f} : Pending(g)' <=> Pending(g)
    BY <1>2 DEF Pending, NoFetch
  <1>4. floor' \in 0..served /\ (floor' # floor => \A g \in Fetches \ {f} : ~Pending(g))
    BY <1>1, KeyNumbers DEF FetchOK
  <1>5. /\ initPc' \in {"none", "fetching", "done", "failed"} /\ interval' \in {"unset", "armed", "cleared"}
        /\ fetch[f].init => initPc' \in {"done", "failed"}
        /\ ~fetch[f].init => UNCHANGED <<initPc, interval>>
    BY DEF Settle, KeyInv, KeyTypeOK
  <1>6. initPc' \in {"none", "fetching"} => ~fetch[f].init /\ initPc = initPc'
    BY <1>5
  <1>7. initPc' \notin {"none", "fetching"}
    BY <1>1, <1>6 DEF FetchOK
  <1>8. keySet' \in SUBSET Keys
    BY <1>1, KeyNumbers DEF KeyInv, KeyTypeOK
  <1>9. KeyTypeOK'
    BY <1>2, <1>4, <1>5, <1>7, <1>8 DEF KeyInv, KeyTypeOK, FetchStates
  <1>10. Known'
    BY <1>1, KeyNumbers DEF KeyInv, Known, FetchOK
  <1>11. ASSUME NEW g \in Fetches PROVE FetchOK(g)'
    <2>1. CASE g = f
      BY <1>2, <1>3, <2>1 DEF FetchOK, NoFetch
    <2>2. CASE g # f
      <3>1. FetchOK(g) /\ fetch'[g] = fetch[g] /\ (Pending(g)' <=> Pending(g))
        BY <1>2, <1>3, <2>2 DEF KeyInv
      <3>2. fetch[g].got # 0 => Pending(g) /\ floor' = floor
        BY <1>4, <2>2, <3>1 DEF FetchOK, NoFetch
      <3> QED
        BY <1>3, <1>7, <3>1, <3>2 DEF FetchOK
    <2> QED
      BY <2>1, <2>2
  <1> QED
    BY <1>9, <1>10, <1>11 DEF KeyInv

\* A request of a fetch is answered or tried again.
LEMMA RequestKeeps ==
    ASSUME KeyInv, NEW f \in Fetches, NEW s \in FetchStates, fetch[f].pc = "request",
           fetch' = [fetch EXCEPT ![f] = s], s.since = fetch[f].since, s.init = fetch[f].init,
           \/ s.pc = "request" /\ s.got = 0
           \/ s.pc = "answered" /\ s.got \in {0, served},
           UNCHANGED <<source, served, keySet, initPc, interval, floor>>, faults' \in 0..MaxFaults
    PROVE  KeyInv'
  <1>1. fetch' \in [Fetches -> FetchStates] /\ fetch'[f] = s
        /\ \A g \in Fetches \ {f} : fetch'[g] = fetch[g]
    BY KeyNumbers
  <1>2. KeyTypeOK'
    BY <1>1 DEF KeyInv, KeyTypeOK, FetchStates
  <1>3. \A g \in Fetches : Pending(g)' <=> Pending(g)
    BY <1>1 DEF Pending
  <1>4. ASSUME NEW g \in Fetches PROVE FetchOK(g)'
    <2>1. FetchOK(g) /\ s.since \in Nat
      BY DEF KeyInv, FetchStates
    <2>2. CASE g = f
      BY <1>1, <1>3, <2>1, <2>2, KeyNumbers DEF FetchOK, Pending
    <2>3. CASE g # f
      BY <1>1, <1>3, <2>1, <2>3 DEF FetchOK
    <2> QED
      BY <2>2, <2>3
  <1> QED
    BY <1>2, <1>4 DEF KeyInv, Known

\* Nothing of the keys changes.
LEMMA KeysStutter == ASSUME KeyInv, UNCHANGED keyVars PROVE KeyInv'
  BY DEF KeyInv, KeyTypeOK, Known, FetchOK, Pending, keyVars

\* A file is read while no fetch is under way.
LEMMA ReadKeeps ==
    ASSUME KeyInv, source = "file", NEW ok \in BOOLEAN, ReadFile(ok), UNCHANGED <<source, served>>,
           initPc' \in {"done", "failed"}, interval' \in {"unset", "armed", "cleared"}
    PROVE  KeyInv'
  <1>1. \A f \in Fetches : ~Pending(f) /\ fetch[f] = NoFetch /\ fetch'[f] = NoFetch
    BY DEF KeyInv, FetchOK, ReadFile
  <1>2. faults' \in 0..MaxFaults /\ floor' \in 0..served
        /\ \/ keySet' = keySet /\ floor' = floor
           \/ keySet' = Published[served] /\ floor' = served
    BY KeyNumbers DEF ReadFile, Fault, KeyInv, KeyTypeOK
  <1>3. KeyTypeOK'
    BY <1>2, KeyNumbers DEF KeyInv, KeyTypeOK, ReadFile
  <1>4. Known'
    BY <1>2, KeyNumbers DEF KeyInv, Known
  <1>5. \A f \in Fetches : FetchOK(f)'
    BY <1>1 DEF FetchOK, Pending, NoFetch
  <1> QED
    BY <1>3, <1>4, <1>5 DEF KeyInv

\* What KeyInv says of the keys holds after each step.
LEMMA KeyStep == KeyInv /\ [KeyNext]_keyVars => KeyInv'
  <1> SUFFICES ASSUME KeyInv, KeyNext PROVE KeyInv'
    BY KeysStutter
  <1>1. Fault => faults' \in 0..MaxFaults
    BY KeyNumbers DEF Fault, KeyInv, KeyTypeOK
  <1>2. faults \in 0..MaxFaults
    BY DEF KeyInv, KeyTypeOK
  <1>3. ASSUME NEW f \in Fetches, InitKeySets(f) PROVE KeyInv'
    <2>1. CASE source = "network"
      BY <1>3, <2>1, StartFetchKeeps DEF InitKeySets
    <2>2. CASE source = "file"
      <3>1. PICK ok \in BOOLEAN :
                ReadFile(ok) /\ initPc' \in {"done", "failed"} /\ interval' \in {"armed", interval}
        BY <1>3, <2>2 DEF InitKeySets
      <3>2. interval' \in {"unset", "armed", "cleared"} /\ UNCHANGED <<source, served>>
        BY <1>3, <3>1 DEF InitKeySets, KeyInv, KeyTypeOK
      <3> QED
        BY <2>2, <3>1, <3>2, ReadKeeps
    <2> QED
      BY <1>3, <2>1, <2>2 DEF InitKeySets
  <1>4. ASSUME NEW f \in Fetches, Refresh(f) PROVE KeyInv'
    <2>1. interval = "armed" /\ UNCHANGED <<source, served, initPc, interval>>
      BY <1>4 DEF Refresh
    <2>2. CASE source = "network"
      BY <1>4, <2>1, <2>2, StartFetchKeeps DEF Refresh
    <2>3. CASE source = "file"
      <3>1. PICK ok \in BOOLEAN : ReadFile(ok)
        BY <1>4, <2>3 DEF Refresh
      <3>2. initPc' \in {"done", "failed"}
        BY <2>1 DEF KeyInv, KeyTypeOK
      <3> QED
        BY <2>1, <2>3, <3>1, <3>2, ReadKeeps
    <2> QED
      BY <1>4, <2>2, <2>3 DEF Refresh
  <1>5. ASSUME NEW f \in Fetches, Serve(f) PROVE KeyInv'
    <2>1. /\ fetch[f] \in FetchStates /\ fetch[f].pc = "request" /\ fetch[f].got = 0
          /\ served \in 0..Len(Published)
      BY <1>5, KeyNumbers DEF Serve, KeyInv, FetchOK
    <2>2. ASSUME NEW got \in {0, served}
          PROVE  LET s == [fetch[f] EXCEPT !.pc = "answered", !.got = got]
                 IN  s \in FetchStates /\ s.pc = "answered" /\ s.got = got
                     /\ s.since = fetch[f].since /\ s.init = fetch[f].init
      BY <2>1, <2>2, KeyNumbers DEF FetchStates
    <2>3. CASE fetch' = [fetch EXCEPT ![f].pc = "answered", ![f].got = served] /\ UNCHANGED faults
      <3> DEFINE s == [fetch[f] EXCEPT !.pc = "answered", !.got = served]
      <3>1. fetch' = [fetch EXCEPT ![f] = s]
        BY <2>3
      <3>2. s \in FetchStates /\ s.pc = "answered" /\ s.got = served
            /\ s.since = fetch[f].since /\ s.init = fetch[f].init
        BY <2>2
      <3> HIDE DEF s
      <3> QED
        BY <1>2, <1>5, <2>1, <2>3, <3>1, <3>2, RequestKeeps DEF Serve
    <2>4. CASE fetch' = [fetch EXCEPT ![f].pc = "answered"] /\ Fault
      <3> DEFINE s == [fetch[f] EXCEPT !.pc = "answered"]
      <3>1. fetch' = [fetch EXCEPT ![f] = s]
        BY <2>4
      <3>2. s \in FetchStates /\ s.pc = "answered" /\ s.got = 0
            /\ s.since = fetch[f].since /\ s.init = fetch[f].init
        BY <2>1 DEF FetchStates
      <3> HIDE DEF s
      <3> QED
        BY <1>1, <1>5, <2>1, <2>4, <3>1, <3>2, RequestKeeps DEF Serve
    <2> QED
      BY <1>5, <2>3, <2>4 DEF Serve
  <1>6. ASSUME NEW f \in Fetches, ConnectionFails(f) PROVE KeyInv'
    <2>1. Pending(f) /\ fetch[f].pc = "request" /\ faults' \in 0..MaxFaults
          /\ UNCHANGED <<source, served, keySet, floor>>
      BY <1>1, <1>6 DEF ConnectionFails, Pending
    <2>2. CASE Settle(f, FALSE)
      BY <2>1, <2>2, SettleKeeps
    <2>3. CASE fetch[f].tries < MaxTries /\ fetch' = [fetch EXCEPT ![f].tries = @ + 1]
               /\ UNCHANGED <<initPc, interval>>
      <3> DEFINE tries == fetch[f].tries + 1
                 s == [fetch[f] EXCEPT !.tries = tries]
      <3>1. fetch[f] \in FetchStates /\ fetch[f].got = 0
        BY <2>1, KeyNumbers DEF KeyInv, FetchOK
      <3>2. fetch' = [fetch EXCEPT ![f] = s]
        BY <2>3
      <3>3. tries \in 0..MaxTries
        BY <2>3, <3>1, KeyNumbers DEF FetchStates
      <3> HIDE DEF tries
      <3>4. s \in FetchStates /\ s.pc = "request" /\ s.got = 0
            /\ s.since = fetch[f].since /\ s.init = fetch[f].init
        BY <2>1, <3>1, <3>3 DEF FetchStates
      <3> HIDE DEF s
      <3> QED
        BY <2>1, <2>3, <3>2, <3>4, RequestKeeps
    <2> QED
      BY <1>6, <2>2, <2>3 DEF ConnectionFails
  <1>7. ASSUME NEW f \in Fetches, RequestRefused(f) PROVE KeyInv'
    BY <1>1, <1>7, SettleKeeps DEF RequestRefused, Pending
  <1>8. ASSUME NEW f \in Fetches, Store(f) PROVE KeyInv'
    <2>1. Pending(f) /\ Settle(f, fetch[f].got # 0) /\ (fetch[f].got # 0) \in BOOLEAN
          /\ faults' \in 0..MaxFaults /\ UNCHANGED <<source, served>>
      BY <1>2, <1>8 DEF Store, Pending
    <2>2. \/ UNCHANGED <<keySet, floor>>
          \/ /\ fetch[f].got # 0 /\ keySet' = Published[fetch[f].got]
             /\ floor' = IF fetch[f].since # 0 THEN fetch[f].since ELSE floor
      BY <1>8 DEF Store
    <2> QED
      BY <2>1, <2>2, SettleKeeps
  <1>9. CASE ShutdownKeySets
    BY <1>9 DEF ShutdownKeySets, KeyInv, KeyTypeOK, Known, FetchOK, Pending
  <1>10. CASE Publish
    <2>1. served' = served + 1 /\ served' \in 1..Len(Published) /\ floor' = floor
          /\ UNCHANGED <<source, keySet, fetch, initPc, interval, faults>>
      BY <1>10, KeyNumbers DEF Publish
    <2>2. floor' \in 0..served' /\ floor..served \subseteq floor'..served' /\ served <= served'
      BY <2>1, KeyNumbers
    <2>3. KeyTypeOK'
      BY <2>1, <2>2 DEF KeyInv, KeyTypeOK
    <2>4. Known'
      BY <2>1, <2>2 DEF KeyInv, Known
    <2>5. ASSUME NEW f \in Fetches PROVE FetchOK(f)'
      <3>1. fetch[f].since \in Nat /\ fetch[f].got \in Nat /\ FetchOK(f)
        BY KeyNumbers DEF KeyInv, FetchStates
      <3> QED
        BY <2>1, <2>2, <3>1, KeyNumbers DEF FetchOK, Pending
    <2> QED
      BY <2>3, <2>4, <2>5 DEF KeyInv
  <1> QED
    BY <1>3, <1>4, <1>5, <1>6, <1>7, <1>8, <1>9, <1>10 DEF KeyNext

-----------------------------------------------------------------------------
(* The chain of middleware *)

Middle == {"auth", "fileUploader", "multiPartFileUploader", "validate"} \cup HostMiddleware
Front(s) ==
    /\ s \in Seq(Middle \cup {"requestMetrics"})
    /\ Len(s) >= 1 /\ s[1] = "requestMetrics" /\ \A i \in 2..Len(s) : s[i] \in Middle

\* Middleware is added behind that of the metrics.
LEMMA Longer == ASSUME NEW s, Front(s), NEW t \in Seq(Middle) PROVE Front(s \o t)
  <1> DEFINE S == Middle \cup {"requestMetrics"}
  <1>1. s \in Seq(S) /\ t \in Seq(S)
    BY DEF Front
  <1> HIDE DEF S
  <1>2. /\ s \o t \in Seq(S) /\ Len(s \o t) = Len(s) + Len(t)
        /\ \A i \in 1..Len(s) : (s \o t)[i] = s[i]
        /\ \A i \in (Len(s) + 1)..(Len(s) + Len(t)) : (s \o t)[i] = t[i - Len(s)]
    BY <1>1
  <1>3. Len(s) \in Nat \ {0} /\ Len(t) \in Nat
    BY <1>1 DEF Front
  <1>4. ASSUME NEW i \in 2..Len(s \o t) PROVE (s \o t)[i] \in Middle
    <2>1. CASE i <= Len(s)
      BY <1>2, <1>3, <2>1 DEF Front
    <2>2. CASE i > Len(s)
      <3>1. i \in (Len(s) + 1)..(Len(s) + Len(t)) /\ i - Len(s) \in 1..Len(t)
        BY <1>2, <1>3, <2>2
      <3> QED
        BY <1>2, <3>1
    <2> QED
      BY <1>3, <2>1, <2>2
  <1>5. (s \o t)[1] = "requestMetrics" /\ Len(s \o t) >= 1
    BY <1>2, <1>3 DEF Front
  <1> QED
    BY <1>2, <1>4, <1>5 DEF Front, S

\* What express runs for a call: the metrics second, and again fourth where an
\* endpoint matches, and what ends the chain last.
LEMMA ChainShape ==
    ASSUME NEW call \in Calls
    PROVE  LET c == Chain(call)
           IN  /\ Len(c) \in Nat /\ DOMAIN c = 1..Len(c) /\ 4 <= Len(c)
               /\ c[2] = "requestMetrics"
               /\ \A i \in 1..Len(c) : c[i] = "requestMetrics" => i = 2 \/ i = 4
               /\ \A i \in 1..Len(c) : c[i] \notin {"handler", "fourOhFour"} => i + 1 <= Len(c)
  <1>1. CASE ~call.routed
    BY <1>1 DEF Chain
  <1>2. CASE call.routed
    <2> DEFINE e == Endpoint(call.config)
               auth == IF e.authType = "none" THEN <<>> ELSE <<"auth">>
               files == IF e.files # Unset THEN <<"fileUploader">> ELSE <<>>
               parts == IF e.multiPartFile THEN <<"multiPartFileUploader">> ELSE <<>>
               valid == IF e.files = Unset /\ ~e.multiPartFile THEN <<"validate">> ELSE <<>>
               front == <<"requestMetrics">> \o auth \o files \o parts \o valid \o e.middleware
    <2>1. auth \in Seq(Middle) /\ files \in Seq(Middle) /\ parts \in Seq(Middle) /\ valid \in Seq(Middle)
      <3>1. \A m \in Middle : <<m>> \in Seq(Middle)
        OBVIOUS
      <3>2. <<>> \in Seq(Middle)
        OBVIOUS
      <3>3. {"auth", "fileUploader", "multiPartFileUploader", "validate"} \subseteq Middle
        BY DEF Middle
      <3>4. \A cond \in BOOLEAN : \A m \in Middle : (IF cond THEN <<>> ELSE <<m>>) \in Seq(Middle)
                                   /\ (IF cond THEN <<m>> ELSE <<>>) \in Seq(Middle)
        BY <3>1, <3>2
      <3> HIDE DEF e
      <3> QED
        BY <3>3, <3>4
    <2>2. e.middleware \in Seq(Middle)
      <3>1. call.config.middleware \in Seq(HostMiddleware) /\ e.middleware = call.config.middleware
        BY RequestsAssumption DEF Endpoint
      <3>2. HostMiddleware \subseteq Middle
        BY DEF Middle
      <3> QED
        BY <3>1, <3>2
    <2>3. Chain(call) = <<"bodyParser", "requestMetrics", "globalMiddleware">> \o (front \o <<"handler">>)
      BY <1>2 DEF Chain, Register
    <2> HIDE DEF auth, files, parts, valid
    <2>4. Front(front)
      <3>1. Front(<<"requestMetrics">>)
        BY DEF Front
      <3> HIDE DEF e
      <3>2. Front(<<"requestMetrics">> \o auth)
        BY <2>1, <3>1, Longer
      <3>3. Front(<<"requestMetrics">> \o auth \o files)
        BY <2>1, <3>2, Longer
      <3>4. Front(<<"requestMetrics">> \o auth \o files \o parts)
        BY <2>1, <3>3, Longer
      <3>5. Front(<<"requestMetrics">> \o auth \o files \o parts \o valid)
        BY <2>1, <3>4, Longer
      <3> QED
        BY <2>2, <3>5, Longer
    <2> HIDE DEF front
    <2> DEFINE c == <<"bodyParser", "requestMetrics", "globalMiddleware">> \o (front \o <<"handler">>)
               n == Len(front)
    <2>5. n \in Nat \ {0} /\ front \in Seq(Middle \cup {"requestMetrics"})
      BY <2>4 DEF Front
    <2>6. Len(c) = n + 4 /\ DOMAIN c = 1..(n + 4)
          /\ c[1] = "bodyParser" /\ c[2] = "requestMetrics" /\ c[3] = "globalMiddleware" /\ c[n + 4] = "handler"
          /\ \A i \in 4..(n + 3) : c[i] = front[i - 3]
      BY <2>5
    <2> HIDE DEF c
    <2>7. \A i \in 5..(n + 3) : c[i] \in Middle
      BY <2>4, <2>5, <2>6 DEF Front
    <2>8. "requestMetrics" \notin Middle /\ "handler" # "requestMetrics"
      BY DEF Middle, HostMiddleware
    <2>9. \A i \in 1..(n + 4) : c[i] = "requestMetrics" => i = 2 \/ i = 4
      BY <2>5, <2>6, <2>7, <2>8
    <2>10. \A i \in 1..(n + 4) : c[i] # "handler" => i + 1 <= n + 4
      BY <2>5, <2>6
    <2> QED
      BY <1>2, <2>3, <2>5, <2>6, <2>9, <2>10 DEF c
  <1> QED
    BY <1>1, <1>2

-----------------------------------------------------------------------------
(* The gauge *)

\* A request is one of those counted often enough, or not, and leaves the
\* others as they are.
LEMMA CountOne ==
    ASSUME IsFiniteSet(Requests), req \in [Requests -> States], NEW r \in Requests, NEW s \in States,
           NEW n \in {1, 2}, req' = [req EXCEPT ![r] = s]
    PROVE  /\ Cardinality(Counted(req, n)) \in Nat /\ Cardinality(Counted(req', n)) \in Nat
           /\ Cardinality(Counted(req', n)) =
                Cardinality(Counted(req, n)) - (IF req[r].metered >= n THEN 1 ELSE 0)
                                             + (IF s.metered >= n THEN 1 ELSE 0)
  <1> DEFINE rest == {x \in Requests \ {r} : req[x].metered >= n}
  <1>1. IsFiniteSet(rest) /\ r \notin rest
    BY FS_Subset, rest \subseteq Requests
  <1>2. Cardinality(rest) \in Nat
    BY <1>1, FS_CardinalityType
  <1>3. Cardinality(rest \cup {r}) = Cardinality(rest) + 1
    BY <1>1, FS_AddElement
  <1>4. req'[r] = s /\ \A x \in Requests \ {r} : req'[x] = req[x]
    OBVIOUS
  <1>5. Counted(req, n) = IF req[r].metered >= n THEN rest \cup {r} ELSE rest
    BY DEF Counted
  <1>6. Counted(req', n) = IF s.metered >= n THEN rest \cup {r} ELSE rest
    BY <1>4 DEF Counted
  <1> HIDE DEF rest
  <1> QED
    BY <1>2, <1>3, <1>5, <1>6

\* The gauge counts each open request as often as requestMetrics has.
LEMMA MovesKeep ==
    ASSUME RequestInv, NEW r \in Requests, NEW s, Moves(r, s)
    PROVE  RequestInv'
  <1>1. IsFiniteSet(Requests) /\ req \in [Requests -> States] /\ s \in States /\ req' = [req EXCEPT ![r] = s]
    BY RequestsAssumption DEF RequestInv, Moves, RequestOK
  <1>2. req[r].metered \in 0..2 /\ s.metered \in 0..2
    BY <1>1 DEF States
  <1>3. gauge = late + Cardinality(Counted(req, 1)) + Cardinality(Counted(req, 2))
        /\ gauge' = gauge - req[r].metered + s.metered + (late' - late)
        /\ late \in Nat /\ late' \in Nat
    <2>1. IsFiniteSet(Counted(req, 1)) /\ IsFiniteSet(Counted(req, 2))
      BY <1>1, FS_Subset DEF Counted
    <2>2. Cardinality(Counted(req, 1)) \in Nat /\ Cardinality(Counted(req, 2)) \in Nat
      BY <2>1, FS_CardinalityType
    <2> QED
      BY <2>2 DEF RequestInv, Moves, Total
  <1>4. gauge' = late' + Cardinality(Counted(req', 1)) + Cardinality(Counted(req', 2))
        /\ Cardinality(Counted(req', 1)) \in Nat /\ Cardinality(Counted(req', 2)) \in Nat
    <2>1. /\ Cardinality(Counted(req, 1)) \in Nat
          /\ Cardinality(Counted(req', 1)) \in Nat
          /\ Cardinality(Counted(req', 1)) =
                Cardinality(Counted(req, 1)) - (IF req[r].metered >= 1 THEN 1 ELSE 0)
                                             + (IF s.metered >= 1 THEN 1 ELSE 0)
      BY <1>1, CountOne
    <2>2. /\ Cardinality(Counted(req, 2)) \in Nat
          /\ Cardinality(Counted(req', 2)) \in Nat
          /\ Cardinality(Counted(req', 2)) =
                Cardinality(Counted(req, 2)) - (IF req[r].metered >= 2 THEN 1 ELSE 0)
                                             + (IF s.metered >= 2 THEN 1 ELSE 0)
      BY <1>1, CountOne
    <2> QED
      BY <1>2, <1>3, <2>1, <2>2
  <1>5. req' \in [Requests -> States] /\ \A x \in Requests : RequestOK(req'[x])
    BY <1>1 DEF RequestInv, Moves
  <1> QED
    BY <1>3, <1>4, <1>5 DEF RequestInv, Total, RequestOK, Counted

-----------------------------------------------------------------------------
(* What becomes of a request *)

\* A request that has not arrived is not counted.
LEMMA IdleOK == Idle \in States /\ Idle.pc = "idle" /\ Idle.metered = 0 /\ Idle.verified = FALSE
                /\ Idle.at = 1 /\ Idle.sent = FALSE /\ Idle.closed = FALSE /\ RequestOK(Idle)
  <1>1. (CHOOSE c \in Calls : TRUE) \in Calls
    BY RequestsAssumption
  <1>2. NoUser \in Users
    BY DEF NoUser, Users
  <1> QED
    BY <1>1, <1>2 DEF Idle, States, RequestOK

\* A request that has left the chain is not counted when it is forgotten.
LEMMA ForgetOK ==
    ASSUME NEW s, RequestOK(s)
    PROVE  /\ RequestOK(Forget(s)) /\ Forget(s).metered = s.metered
           /\ Forget(s).verified => s.verified
           /\ s.metered = 0 => Forget(s).metered = 0
  BY IdleOK DEF RequestOK, States, Forget

\* The gauge never falls below zero.
LEMMA GaugeType == RequestInv => gauge \in Nat
  <1>1. IsFiniteSet(Counted(req, 1)) /\ IsFiniteSet(Counted(req, 2))
    BY RequestsAssumption, FS_Subset DEF Counted
  <1> QED
    BY <1>1, FS_CardinalityType DEF RequestInv, Total

\* A middleware other than the metrics calls the next one, at once or later.
GoesOn(r, s) ==
    /\ req[r].pc \in {"chain", "asking"} /\ req' = [req EXCEPT ![r] = s] /\ UNCHANGED <<gauge, late>>
    /\ Chain(req[r].call)[req[r].at] \notin {"handler", "fourOhFour", "requestMetrics"}
    /\ s.user \in Users /\ s.verified \in BOOLEAN
    /\ s = [req[r] EXCEPT !.pc = "chain", !.at = req[r].at + 1, !.user = s.user, !.verified = s.verified]

\* It leaves a request of which GoesOn holds.
LEMMA ProceedMoves ==
    ASSUME RequestInv, NEW r \in Requests, NEW s, GoesOn(r, s),
           s.verified => req[r].verified \/ Accepts(Called(r), req[r].call)
    PROVE  Moves(r, s)
  <1>1. req[r] \in States /\ RequestOK(req[r]) /\ gauge \in Nat /\ late \in Nat
    BY GaugeType DEF RequestInv
  <1>2. req[r].at \in 1..Len(Chain(req[r].call)) /\ req[r].at \in Nat /\ req[r].call \in Calls
    BY <1>1, ChainShape DEF RequestOK, States, GoesOn
  <1>3. req[r].at + 1 <= Len(Chain(req[r].call)) /\ req[r].at + 1 \in Nat \ {0} /\ req[r].at # 2
    BY <1>2, ChainShape DEF GoesOn
  <1>4. s \in States /\ s.pc = "chain" /\ s.at = req[r].at + 1 /\ s.call = req[r].call
        /\ s.sent = req[r].sent /\ s.closed = req[r].closed /\ s.metered = req[r].metered
    <2> DEFINE at == req[r].at + 1
    <2>1. s = [req[r] EXCEPT !.pc = "chain", !.at = at, !.user = s.user, !.verified = s.verified]
          /\ at \in Nat \ {0} /\ s.user \in Users /\ s.verified \in BOOLEAN
      BY <1>3 DEF GoesOn
    <2> HIDE DEF at
    <2>2. s \in States /\ s.pc = "chain" /\ s.at = at /\ s.call = req[r].call
          /\ s.sent = req[r].sent /\ s.closed = req[r].closed /\ s.metered = req[r].metered
      BY <1>1, <2>1 DEF States
    <2> QED
      BY <2>2 DEF at
  <1>5. RequestOK(s)
    BY <1>1, <1>2, <1>3, <1>4 DEF RequestOK, GoesOn
  <1>6. gauge' = gauge - req[r].metered + s.metered + (late' - late)
    BY <1>1, <1>4 DEF States, GoesOn
  <1> QED
    BY <1>5, <1>6 DEF Moves, GoesOn

\* A step that does no more than that keeps the user and the verdict.
LEMMA PlainProceedMoves ==
    ASSUME RequestInv, NEW r \in Requests, NEW middleware, At(r, middleware),
           middleware \notin {"handler", "fourOhFour", "requestMetrics"}, Proceed(r)
    PROVE  \E s : Moves(r, s)
  <1> DEFINE at == req[r].at + 1
             s == [req[r] EXCEPT !.at = at]
  <1>1. req[r] \in States /\ req[r].pc = "chain" /\ Chain(req[r].call)[req[r].at] = middleware
    BY DEF RequestInv, At
  <1>2. req' = [req EXCEPT ![r] = s] /\ UNCHANGED <<gauge, late>>
    BY DEF Proceed
  <1> HIDE DEF at
  <1>3. s = [req[r] EXCEPT !.pc = "chain", !.at = at, !.user = req[r].user, !.verified = req[r].verified]
        /\ req[r].user \in Users /\ req[r].verified \in BOOLEAN
    BY <1>1 DEF States
  <1> HIDE DEF s
  <1>4. s = [req[r] EXCEPT !.pc = "chain", !.at = req[r].at + 1, !.user = req[r].user,
               !.verified = req[r].verified]
    BY <1>3 DEF at
  <1>5. s.user = req[r].user /\ s.verified = req[r].verified
    BY <1>1, <1>4 DEF States
  <1>6. GoesOn(r, s)
    BY <1>1, <1>2, <1>3, <1>4, <1>5 DEF GoesOn
  <1>7. Moves(r, s)
    BY <1>5, <1>6, ProceedMoves
  <1> QED
    BY <1>7

\* requestMetrics counts a request on an open response once more, and the gauge
\* for good on one that is closed.
LEMMA MetricsMoves ==
    ASSUME RequestInv, NEW r \in Requests, RequestMetrics(r)
    PROVE  \E s : Moves(r, s)
  <1> DEFINE at == req[r].at + 1
             metered == IF req[r].closed THEN req[r].metered ELSE req[r].metered + 1
             s == [req[r] EXCEPT !.at = at, !.metered = metered]
  <1>1. req[r] \in States /\ RequestOK(req[r]) /\ gauge \in Nat /\ late \in Nat
    BY GaugeType DEF RequestInv
  <1>2. req[r].pc = "chain" /\ Chain(req[r].call)[req[r].at] = "requestMetrics" /\ req[r].call \in Calls
        /\ req[r].at \in 1..Len(Chain(req[r].call)) /\ req[r].at \in Nat
    BY <1>1, ChainShape DEF RequestMetrics, At, RequestOK, States
  <1>3. req[r].at \in {2, 4} /\ at <= Len(Chain(req[r].call)) /\ at \in Nat \ {0}
    BY <1>2, ChainShape
  <1>4. req[r].metered \in 0..1 /\ (req[r].at = 2 => req[r].metered = 0)
        /\ (req[r].closed => req[r].metered = 0) /\ req[r].closed \in BOOLEAN
    BY <1>1, <1>3 DEF RequestOK, States
  <1>5. metered \in 0..2 /\ (at <= 4 => metered <= 1) /\ at > 2
        /\ (req[r].closed <=> metered = 0)
    BY <1>3, <1>4
  <1>6. req' = [req EXCEPT ![r] = s]
    <2>1. CASE req[r].closed
      <3>1. req' = [req EXCEPT ![r] = [req[r] EXCEPT !.at = at]]
        BY <2>1 DEF RequestMetrics
      <3>2. [req[r] EXCEPT !.at = at] = s
        <4>1. metered = req[r].metered
          BY <2>1
        <4> HIDE DEF at, metered
        <4> QED
          BY <1>1, <4>1 DEF States
      <3> QED
        BY <3>1, <3>2
    <2>2. CASE ~req[r].closed
      BY <2>2 DEF RequestMetrics
    <2> QED
      BY <2>1, <2>2
  <1>7. late' \in {late, late + 1} /\ gauge' = gauge - req[r].metered + metered + (late' - late)
    BY <1>1, <1>4 DEF RequestMetrics
  <1> HIDE DEF at, metered
  <1>8. s \in States /\ s.pc = "chain" /\ s.at = at /\ s.call = req[r].call /\ s.sent = req[r].sent
        /\ s.closed = req[r].closed /\ s.metered = metered /\ s.verified = req[r].verified
    BY <1>1, <1>2, <1>3, <1>5 DEF States
  <1> HIDE DEF s
  <1>9. RequestOK(s)
    BY <1>3, <1>5, <1>8 DEF RequestOK
  <1> QED
    BY <1>6, <1>7, <1>8, <1>9 DEF Moves

\* The chain is left with an answer, which may have been sent before.
LEMMA AnswerMoves ==
    ASSUME RequestInv, NEW r \in Requests, req[r].pc # "idle", Answer(r)
    PROVE  \E s : Moves(r, s)
  <1> DEFINE t == [req[r] EXCEPT !.pc = "over", !.sent = TRUE]
  <1>1. req[r] \in States /\ RequestOK(req[r]) /\ gauge \in Nat /\ late \in Nat
    BY GaugeType DEF RequestInv
  <1>2. t \in States /\ t.pc = "over" /\ t.at = req[r].at /\ t.metered = req[r].metered /\ t.closed = req[r].closed
        /\ t.verified = req[r].verified
    BY <1>1 DEF States
  <1>3. req' = [req EXCEPT ![r] = Forget(t)] /\ UNCHANGED <<gauge, late>>
    BY DEF Answer, Leave
  <1> HIDE DEF t
  <1>4. RequestOK(t)
    BY <1>1, <1>2 DEF RequestOK
  <1>5. RequestOK(Forget(t)) /\ Forget(t).metered = req[r].metered
        /\ (Forget(t).verified => req[r].verified)
    BY <1>2, <1>4, ForgetOK
  <1>6. gauge' = gauge - req[r].metered + Forget(t).metered + (late' - late)
    BY <1>1, <1>3, <1>5 DEF States
  <1> QED
    BY <1>3, <1>5, <1>6 DEF Moves

\* A request that has been answered or is closed is no longer counted.
LEMMA CleanupMoves ==
    ASSUME RequestInv, NEW r \in Requests, NEW t \in States, Cleanup(r, t),
           t.sent \/ t.closed, t.verified => req[r].verified,
           t.pc = "chain" => t.at <= Len(Chain(t.call)),
           t.pc = "asking" => t.at <= Len(Chain(t.call)) /\ Chain(t.call)[t.at] = "userResolver"
    PROVE  \E s : Moves(r, s)
  <1> DEFINE u == [t EXCEPT !.metered = 0]
  <1>1. u \in States /\ u.pc = t.pc /\ u.at = t.at /\ u.call = t.call /\ u.sent = t.sent
        /\ u.closed = t.closed /\ u.metered = 0 /\ u.verified = t.verified
    BY DEF States
  <1>2. req' = [req EXCEPT ![r] = Forget(u)] /\ gauge' = gauge - req[r].metered /\ late' = late
    BY DEF Cleanup
  <1> HIDE DEF u
  <1>3. RequestOK(u)
    BY <1>1 DEF RequestOK
  <1>4. RequestOK(Forget(u)) /\ Forget(u).metered = 0 /\ (Forget(u).verified => req[r].verified)
    BY <1>1, <1>3, ForgetOK
  <1>5. gauge \in Nat /\ late \in Nat /\ req[r].metered \in 0..2
    BY GaugeType DEF RequestInv, States
  <1>6. gauge' = gauge - req[r].metered + Forget(u).metered + (late' - late)
    BY <1>2, <1>4, <1>5
  <1> QED
    BY <1>2, <1>4, <1>6 DEF Moves

\* What fails is answered by the error middleware or ended by express.
LEMMA FailMoves ==
    ASSUME RequestInv, NEW r \in Requests, req[r].pc # "idle", Fail(r)
    PROVE  \E s : Moves(r, s)
  <1>1. CASE Answer(r)
    BY <1>1, AnswerMoves
  <1>2. CASE Cleanup(r, [req[r] EXCEPT !.pc = "over", !.closed = TRUE])
    <2> DEFINE t == [req[r] EXCEPT !.pc = "over", !.closed = TRUE]
    <2>1. t \in States /\ t.pc = "over" /\ t.closed = TRUE /\ t.verified = req[r].verified
      BY DEF RequestInv, States
    <2>2. Cleanup(r, t)
      BY <1>2
    <2> HIDE DEF t
    <2> QED
      BY <2>1, <2>2, CleanupMoves
  <1> QED
    BY <1>1, <1>2 DEF Fail

-----------------------------------------------------------------------------
(* The actions *)

\* Every action of a request moves it.
LEMMA ActionMoves ==
    ASSUME RequestInv, NEW r \in Requests,
           Step(r) \/ UserServiceAnswers(r) \/ Finish(r) \/ Close(r) \/ \E call \in Calls : Arrive(r, call)
    PROVE  \E s : Moves(r, s)
  <1>1. req[r] \in States /\ RequestOK(req[r]) /\ gauge \in Nat /\ late \in Nat
    BY GaugeType DEF RequestInv
  <1>2. \A m : At(r, m) => req[r].pc # "idle"
    BY DEF At
  <1>3. CASE FourOhFour(r)
    BY <1>2, <1>3, AnswerMoves DEF FourOhFour
  <1>4. CASE Auth(r)
    <2>1. At(r, "auth") /\ req[r].pc = "chain" /\ Chain(req[r].call)[req[r].at] = "auth"
      BY <1>4 DEF Auth, At
    <2>2. CASE Accepts(Called(r), req[r].call) /\ UNCHANGED <<gauge, late>>
               /\ req' = [req EXCEPT ![r].at = @ + 1, ![r].verified = TRUE,
                            ![r].user = IF Called(r).authType = "jwt" THEN req[r].call.user ELSE @]
      <3> DEFINE at == req[r].at + 1
                 user == IF Called(r).authType = "jwt" THEN req[r].call.user ELSE req[r].user
                 s == [req[r] EXCEPT !.at = at, !.user = user, !.verified = TRUE]
      <3>1. user \in Users
        BY <1>1, RequestsAssumption DEF States
      <3>2. req' = [req EXCEPT ![r] = [req[r] EXCEPT !.at = at, !.verified = TRUE, !.user = user]]
        BY <2>2, <1>1 DEF RequestInv
      <3> HIDE DEF user, at
      <3>3. s = [req[r] EXCEPT !.at = at, !.verified = TRUE, !.user = user]
        BY <1>1 DEF States
      <3>4. req' = [req EXCEPT ![r] = s]
        BY <3>2, <3>3
      <3>5. s = [req[r] EXCEPT !.pc = "chain", !.at = req[r].at + 1, !.user = user, !.verified = TRUE]
        BY <1>1, <2>1, <3>1 DEF at, States
      <3> HIDE DEF s
      <3>6. s.user = user /\ s.verified = TRUE
        BY <1>1, <3>5 DEF States
      <3>7. GoesOn(r, s)
        BY <2>1, <2>2, <3>1, <3>4, <3>5, <3>6 DEF GoesOn
      <3>8. Moves(r, s)
        BY <2>2, <3>7, ProceedMoves
      <3> QED
        BY <3>8
    <2>3. CASE Proceed(r)
      BY <2>1, <2>3, PlainProceedMoves
    <2>4. CASE Fail(r)
      BY <1>2, <2>1, <2>4, FailMoves
    <2> QED
      BY <1>4, <2>2, <2>3, <2>4 DEF Auth
  <1>5. CASE Validate(r)
    BY <1>2, <1>5, PlainProceedMoves, FailMoves DEF Validate
  <1>6. CASE FileUploader(r)
    BY <1>2, <1>6, PlainProceedMoves, FailMoves DEF FileUploader
  <1>7. CASE CheckPermission(r)
    BY <1>2, <1>7, PlainProceedMoves, AnswerMoves DEF CheckPermission
  <1>8. CASE UserResolver(r)
    <2>1. At(r, "userResolver")
      BY <1>8 DEF UserResolver
    <2>2. CASE req' = [req EXCEPT ![r].pc = "asking"] /\ UNCHANGED <<gauge, late>>
      <3> DEFINE s == [req[r] EXCEPT !.pc = "asking"]
      <3>1. s \in States /\ s.pc = "asking" /\ s.at = req[r].at /\ s.call = req[r].call /\ s.sent = req[r].sent
            /\ s.closed = req[r].closed /\ s.metered = req[r].metered /\ s.verified = req[r].verified
        BY <1>1 DEF States
      <3>2. req' = [req EXCEPT ![r] = s]
        BY <2>2
      <3> HIDE DEF s
      <3>3. RequestOK(s)
        BY <1>1, <2>1, <3>1 DEF RequestOK, At
      <3>4. gauge' = gauge - req[r].metered + s.metered + (late' - late)
        BY <1>1, <2>2, <3>1 DEF States
      <3> QED
        BY <2>2, <3>1, <3>2, <3>3, <3>4 DEF Moves
    <2>3. CASE Fail(r)
      BY <1>2, <2>1, <2>3, FailMoves
    <2> QED
      BY <1>8, <2>2, <2>3 DEF UserResolver
  <1>16. CASE UserServiceAnswers(r)
    <2>1. req[r].pc = "asking" /\ Chain(req[r].call)[req[r].at] = "userResolver"
      BY <1>1, <1>16 DEF UserServiceAnswers, RequestOK
    <2>2. ASSUME NEW permitted \in BOOLEAN, UNCHANGED <<gauge, late>>,
                 req' = [req EXCEPT ![r].pc = "chain", ![r].at = @ + 1, ![r].user.permitted = permitted]
          PROVE  \E s : Moves(r, s)
      <3> DEFINE at == req[r].at + 1
                 user == [req[r].user EXCEPT !.permitted = permitted]
                 s == [req[r] EXCEPT !.pc = "chain", !.at = at, !.user = user, !.verified = req[r].verified]
      <3>1. user \in Users
        BY <1>1 DEF States, Users
      <3>2. req' = [req EXCEPT ![r] = [req[r] EXCEPT !.pc = "chain", !.at = at, !.user = user]]
        BY <2>2, <1>1 DEF RequestInv
      <3> HIDE DEF user, at
      <3>3. s = [req[r] EXCEPT !.pc = "chain", !.at = at, !.user = user] /\ req[r].verified \in BOOLEAN
        BY <1>1 DEF States
      <3>4. req' = [req EXCEPT ![r] = s]
        BY <3>2, <3>3
      <3>5. s = [req[r] EXCEPT !.pc = "chain", !.at = req[r].at + 1, !.user = user, !.verified = req[r].verified]
        BY DEF at
      <3> HIDE DEF s
      <3>6. s.user = user /\ s.verified = req[r].verified
        BY <1>1, <3>5 DEF States
      <3>7. GoesOn(r, s)
        BY <2>1, <2>2, <3>1, <3>3, <3>4, <3>5, <3>6 DEF GoesOn
      <3>8. Moves(r, s)
        BY <3>6, <3>7, ProceedMoves
      <3> QED
        BY <3>8
    <2>3. CASE Fail(r)
      BY <2>1, <2>3, FailMoves
    <2> QED
      BY <1>16, <2>2, <2>3 DEF UserServiceAnswers
  <1>17. CASE BodyParser(r)
    BY <1>2, <1>17, PlainProceedMoves, FailMoves DEF BodyParser
  <1>18. CASE RequestMetrics(r)
    BY <1>18, MetricsMoves
  <1>19. CASE GlobalMiddleware(r)
    BY <1>2, <1>19, PlainProceedMoves, AnswerMoves, FailMoves DEF GlobalMiddleware
  <1>9. CASE VerificationToken(r)
    BY <1>2, <1>9, PlainProceedMoves, FailMoves DEF VerificationToken
  <1>10. CASE HandlerSends(r)
    <2> DEFINE s == [req[r] EXCEPT !.sent = TRUE]
    <2>1. s \in States /\ s.pc = req[r].pc /\ s.at = req[r].at /\ s.call = req[r].call /\ s.sent = TRUE
          /\ s.closed = req[r].closed /\ s.metered = req[r].metered /\ s.verified = req[r].verified
      BY <1>1 DEF States
    <2>2. req' = [req EXCEPT ![r] = s] /\ UNCHANGED <<gauge, late>>
      BY <1>10 DEF HandlerSends
    <2> HIDE DEF s
    <2>3. RequestOK(s)
      BY <1>1, <2>1 DEF RequestOK
    <2>4. gauge' = gauge - req[r].metered + s.metered + (late' - late)
      BY <1>1, <2>1, <2>2 DEF States
    <2> QED
      BY <2>1, <2>2, <2>3, <2>4 DEF Moves
  <1>11. CASE HandlerReturns(r)
    BY <1>2, <1>11, AnswerMoves DEF HandlerReturns, Answer
  <1>12. CASE HandlerThrows(r)
    BY <1>2, <1>12, FailMoves DEF HandlerThrows
  <1>13. CASE Finish(r)
    BY <1>1, <1>13, CleanupMoves DEF Finish, RequestOK
  <1>14. CASE Close(r)
    <2> DEFINE t == [req[r] EXCEPT !.closed = TRUE]
    <2>1. t \in States /\ t.pc = req[r].pc /\ t.at = req[r].at /\ t.call = req[r].call
          /\ t.closed = TRUE /\ t.verified = req[r].verified
      BY <1>1 DEF States
    <2>2. Cleanup(r, t)
      BY <1>14 DEF Close
    <2> HIDE DEF t
    <2> QED
      BY <1>1, <2>1, <2>2, CleanupMoves DEF RequestOK
  <1>15. ASSUME NEW call \in Calls, Arrive(r, call) PROVE \E s : Moves(r, s)
    <2> DEFINE s == [Idle EXCEPT !.pc = "chain", !.call = call]
    <2>1. req[r].pc = "idle" /\ req' = [req EXCEPT ![r] = s] /\ UNCHANGED <<gauge, late>>
      BY <1>15 DEF Arrive
    <2>2. s \in States /\ s.pc = "chain" /\ s.call = call /\ s.at = 1 /\ s.metered = 0
          /\ s.sent = FALSE /\ s.closed = FALSE /\ s.verified = FALSE
      BY IdleOK DEF States
    <2> HIDE DEF s
    <2>3. RequestOK(s)
      BY <2>2, ChainShape DEF RequestOK
    <2>4. gauge' = gauge - req[r].metered + s.metered + (late' - late)
      BY <1>1, <2>1, <2>2 DEF RequestOK, States
    <2> QED
      BY <2>1, <2>2, <2>3, <2>4 DEF Moves
  <1> QED
    BY <1>3, <1>4, <1>5, <1>6, <1>7, <1>8, <1>9, <1>10, <1>11, <1>12, <1>13, <1>14, <1>15,
       <1>16, <1>17, <1>18, <1>19 DEF Step

\* The keys and the requests: what holds in every state.
Inv == KeyInv /\ RequestInv

\* At the start no request has arrived.
LEMMA InitInv == Init => Inv
  <1> SUFFICES ASSUME Init PROVE Inv
    OBVIOUS
  <1>1. KeyInv
    BY InitKeys DEF Init
  <1>2. req \in [Requests -> States] /\ \A r \in Requests : req[r] = Idle
    BY IdleOK DEF Init
  <1>3. Counted(req, 1) = {} /\ Counted(req, 2) = {}
    BY <1>2, IdleOK DEF Counted
  <1>4. late \in Nat /\ gauge = late + Total(req)
    BY <1>3, FS_EmptySet DEF Total, Init
  <1> QED
    BY <1>1, <1>2, <1>4, IdleOK DEF Inv, RequestInv

\* Either the keys take a step, or one request.
LEMMA Steps ==
    ASSUME Inv, [Next]_vars
    PROVE  \/ [KeyNext]_keyVars /\ UNCHANGED <<req, gauge, late>>
           \/ UNCHANGED keyVars /\ \E r \in Requests : \E s : Moves(r, s)
  <1>1. CASE UNCHANGED vars
    BY <1>1 DEF vars
  <1>2. CASE KeyNext /\ UNCHANGED <<req, gauge, late>>
    BY <1>2
  <1>3. ASSUME NEW r \in Requests,
               Step(r) \/ UserServiceAnswers(r) \/ Finish(r) \/ Close(r) \/ \E call \in Calls : Arrive(r, call)
        PROVE  UNCHANGED keyVars /\ \E s : Moves(r, s)
    <2>1. UNCHANGED keyVars
      BY <1>3 DEF Step, Finish, Close, Arrive, FourOhFour, Auth, Validate, FileUploader, CheckPermission,
         UserResolver, VerificationToken, HandlerSends, HandlerReturns, HandlerThrows,
         UserServiceAnswers, BodyParser, RequestMetrics, GlobalMiddleware
    <2> QED
      BY <1>3, <2>1, ActionMoves DEF Inv
  <1> QED
    BY <1>1, <1>2, <1>3 DEF Next

\* What holds in every state holds after each step.
LEMMA NextInv == Inv /\ [Next]_vars => Inv'
  <1> SUFFICES ASSUME Inv, [Next]_vars PROVE Inv'
    OBVIOUS
  <1>1. CASE [KeyNext]_keyVars /\ UNCHANGED <<req, gauge, late>>
    <2>1. KeyInv'
      BY <1>1, KeyStep DEF Inv
    <2>2. RequestInv'
      BY <1>1 DEF Inv, RequestInv, RequestOK, Total, Counted
    <2> QED
      BY <2>1, <2>2 DEF Inv
  <1>2. ASSUME UNCHANGED keyVars, NEW r \in Requests, NEW s, Moves(r, s) PROVE Inv'
    BY <1>2, KeysStutter, MovesKeep DEF Inv
  <1> QED
    BY <1>1, <1>2, Steps

\* In every state of every behaviour.
LEMMA Invariant == Spec => []Inv
  BY InitInv, NextInv, PTL DEF Spec

-----------------------------------------------------------------------------
(* The theorems *)

\* The gauge is never below zero.
LEMMA TypeOfInv == Inv => TypeOK
  BY GaugeType DEF Inv, KeyInv, RequestInv, RequestOK, TypeOK, States

\* TypeOK of Requests: a request is at a middleware its chain has, and the
\* gauge is never below zero.
THEOREM TypeCorrect == Spec => []TypeOK
  BY Invariant, TypeOfInv, PTL

\* Each request in flight that has passed requestMetrics is counted, and
\* without one that is open only late registrations are.
LEMMA BalanceOfInv == Inv => GaugeBalanced
  <1> SUFFICES ASSUME Inv PROVE GaugeBalanced
    OBVIOUS
  <1>1. InFlight \subseteq Counted(req, 1)
    <2> SUFFICES ASSUME NEW r \in InFlight PROVE r \in Counted(req, 1)
      OBVIOUS
    <2>1. r \in Requests /\ req[r] \in States /\ RequestOK(req[r]) /\ Metered(r)
          /\ req[r].pc \in {"chain", "asking"} /\ ~req[r].sent /\ ~req[r].closed
      BY DEF InFlight, Inv, RequestInv
    <2>2. PICK i \in 1..(req[r].at - 1) : Chain(req[r].call)[i] = "requestMetrics"
      BY <2>1 DEF Metered
    <2>3. req[r].at \in Nat /\ req[r].call \in Calls /\ req[r].at <= Len(Chain(req[r].call))
      BY <2>1 DEF RequestOK, States
    <2>4. i = 2 \/ i = 4
      BY <2>2, <2>3, ChainShape
    <2>5. req[r].at > 2
      BY <2>2, <2>3, <2>4
    <2> QED
      BY <2>1, <2>5 DEF RequestOK, States, Counted
  <1>2. IsFiniteSet(Counted(req, 1)) /\ IsFiniteSet(Counted(req, 2))
    BY RequestsAssumption, FS_Subset DEF Counted
  <1>3. Cardinality(InFlight) <= Cardinality(Counted(req, 1))
        /\ Cardinality(InFlight) \in Nat /\ Cardinality(Counted(req, 1)) \in Nat
        /\ Cardinality(Counted(req, 2)) \in Nat
    BY <1>1, <1>2, FS_Subset, FS_CardinalityType
  <1>4. gauge >= late + Cardinality(InFlight)
    BY <1>3 DEF Inv, RequestInv, Total
  <1>5. ASSUME Open = {} PROVE gauge = late
    <2>1. \A r \in Requests : req[r].metered = 0
      BY <1>5 DEF Inv, RequestInv, RequestOK, Open
    <2>2. Counted(req, 1) = {} /\ Counted(req, 2) = {}
      BY <2>1 DEF Counted
    <2> QED
      BY <2>2, FS_EmptySet DEF Inv, RequestInv, Total
  <1> QED
    BY <1>4, <1>5 DEF GaugeBalanced

\* GaugeBalanced: however finish, close, errors and clients that leave are
\* interleaved with the registrations of requestMetrics, it counts each open
\* request, and never counts down only what it registered after the close.
THEOREM GaugeIsBalanced == Spec => []GaugeBalanced
  BY Invariant, BalanceOfInv, PTL

\* RevokedRefused: with any number of refreshes under way, authMiddleware
\* accepts a token only with a key that was published since the last refresh
\* that none overlapped began.
THEOREM RevokedKeysRefused == Spec => RevokedRefused
  <1> DEFINE Refused ==
        \A r \in Requests :
          /\ ~req[r].verified /\ req'[r].verified
          /\ Called(r).authType = "jwt"
          => \E v \in floor..served : req[r].call.kid \in Published[v]
  <1>1. ASSUME Inv, [Next]_vars PROVE Refused
    <2> SUFFICES ASSUME NEW r \in Requests, ~req[r].verified, req'[r].verified, Called(r).authType = "jwt"
                 PROVE  \E v \in floor..served : req[r].call.kid \in Published[v]
      OBVIOUS
    <2>1. PICK x \in Requests : \E s : Moves(x, s)
      BY <1>1, Steps
    <2>2. PICK s : Moves(x, s)
      BY <2>1
    <2>3. x = r /\ req'[r] = s
      BY <1>1, <2>2 DEF Moves, Inv, RequestInv
    <2>4. Accepts(Called(r), req[r].call)
      BY <2>2, <2>3 DEF Moves
    <2>5. req[r].call.kid \in keySet
      BY <2>4 DEF Accepts, AuthJwt
    <2> QED
      BY <1>1, <2>5 DEF Inv, KeyInv, Known
  <1>2. Inv /\ [Next]_vars => [Refused]_vars
    BY <1>1
  <1> QED
    BY Invariant, <1>2, PTL DEF Spec, RevokedRefused

=============================================================================
