---------------------------- MODULE PubSub_proofs ----------------------------
(***************************************************************************)
(* Proofs about PubSub, for any topics, subscriptions, handlers, messages  *)
(* and concurrent deliveries: nothing is consumed before it is validated,  *)
(* the client is not closed on accepted messages, and the consumer         *)
(* implements AtLeastOnce, whatever fails, is delivered again or crashes.  *)
(***************************************************************************)
EXTENDS PubSub, FiniteSetTheorems, TLAPS

Checks == [step : {"idle", "exists", "permissions", "ok", "failed"},
           attempt : Nat, waiting : BOOLEAN]
Runs == [pc : {"idle", "handling"}, at : Nat, hasError : BOOLEAN, ok : SUBSET Handlers]

Typed ==
    /\ phase \in {"new", "validating", "consuming", "failed",
                 "closing", "cleared", "closed", "stopFailed", "unclosed", "down"}
    /\ topics \subseteq Topics
    /\ chain \in [Subscriptions -> Seq(Handlers)]
    /\ debezium \in [Subscriptions -> BOOLEAN]
    /\ check \in [Resources -> Checks]
    /\ open \subseteq Subscriptions
    /\ acked \subseteq Messages /\ handled \subseteq Messages
    /\ run \in [Messages -> [Slots -> Runs]]
    /\ pub \in [Outgoing -> {"new", "batched", "sent", "refused", "lost"}]
    /\ owed \subseteq Outgoing

Started == phase \in {"consuming", "closing", "cleared", "closed", "stopFailed", "unclosed"}

\* A stream is only open once every validation has ended well.
Validated ==
    /\ open # {} => Started
    /\ open \subseteq Declared
    /\ Started => \A r \in Resources : check[r].step \in {"idle", "ok"}
    /\ (Started \/ phase = "validating") /\ ~SkipValidation =>
         \A r \in topics \cup Declared : check[r].step # "idle"

\* What shutdown() owes is batched for a topic whose flush it awaits.
Flushing ==
    /\ phase \notin {"cleared", "closed", "unclosed"} =>
         \A p \in Outgoing : pub[p] = "batched" => TopicOf[p] \in topics
    /\ phase = "closing" => \A p \in owed : pub[p] = "batched" /\ TopicOf[p] \in closing
    /\ phase # "closing" => owed = {}

\* Where a delivery that is handled stands in its list of handlers.
Going(m, r) ==
    r.pc = "handling" =>
        /\ ~Malformed(m)
        /\ r.at \in 1..Len(chain[SubOf[m]])
        /\ ~r.hasError => \A i \in 1..(r.at - 1) : chain[SubOf[m]][i] \in r.ok

HandledInOrder ==
    /\ phase = "new" => acked = {} /\ \A m \in Messages, k \in Slots : run[m][k].pc = "idle"
    /\ \A m \in Messages, k \in Slots : Going(m, run[m][k])

PubSubInv == Typed /\ Validated /\ Flushing /\ HandledInOrder

-----------------------------------------------------------------------------

\* The states a validation and a delivery start from.
LEMMA IdleTyped ==
    IdleCheck \in Checks /\ IdleRun \in Runs /\ IdleCheck.step = "idle" /\ IdleRun.pc = "idle"
  BY DEF IdleCheck, IdleRun, Checks, Runs

\* At the start nothing is registered, open or under way.
LEMMA InitKeeps == Init => PubSubInv
  <1> SUFFICES ASSUME Init PROVE PubSubInv
    OBVIOUS
  <1>1. Typed
    <2>1. <<>> \in Seq(Handlers)
      OBVIOUS
    <2> QED
      BY <2>1, IdleTyped DEF Init, Typed
  <1>2. Validated
    BY <1>1 DEF Init, Validated, Started, Declared
  <1>3. Flushing
    BY DEF Init, Flushing
  <1>4. HandledInOrder
    BY IdleTyped DEF Init, HandledInOrder, Going
  <1> QED
    BY <1>1, <1>2, <1>3, <1>4 DEF PubSubInv

\* Registration comes before everything else.
LEMMA RegisterKeeps == PubSubInv /\ Register => PubSubInv'
  <1> SUFFICES ASSUME PubSubInv, Register PROVE PubSubInv'
    OBVIOUS
  <1> USE DEF PubSubInv
  <1>1. ASSUME NEW t \in Topics, AddPublisher(t) PROVE PubSubInv'
    <2> USE <1>1 DEF AddPublisher, subVars, pubVars
    <2>1. Typed'
      BY DEF Typed
    <2>2. Validated'
      BY DEF Validated, Started, Declared, Resources
    <2>3. Flushing'
      BY DEF Flushing
    <2>4. HandledInOrder'
      BY DEF HandledInOrder, Going, Malformed
    <2> QED
      BY <2>1, <2>2, <2>3, <2>4
  <1>2. ASSUME NEW s \in Subscriptions, NEW h \in Handlers, NEW o \in Options,
               AddSubscriber(s, h, o[1], o[2])
        PROVE  PubSubInv'
    <2> USE <1>2 DEF AddSubscriber, subVars, pubVars
    <2>1. Typed'
      <3>1. o[1] \in BOOLEAN /\ o[2] \in BOOLEAN
        BY PubSubAssumption
      <3>2. Append(chain[s], h) \in Seq(Handlers) /\ <<h>> \o chain[s] \in Seq(Handlers)
        BY DEF Typed
      <3>3. chain' \in [Subscriptions -> Seq(Handlers)]
        BY <3>2 DEF Typed
      <3>4. debezium' \in [Subscriptions -> BOOLEAN]
        BY <3>1 DEF Typed
      <3> QED
        BY <3>3, <3>4 DEF Typed
    <2>2. Validated'
      BY DEF Validated, Started, Declared, Resources
    <2>3. Flushing'
      BY DEF Flushing
    <2>4. HandledInOrder'
      BY DEF HandledInOrder, Going
    <2> QED
      BY <2>1, <2>2, <2>3, <2>4
  <1> QED
    BY <1>1, <1>2 DEF Register

\* What does not move the deliveries keeps where they stand.
LEMMA DeliveriesKept ==
    ASSUME HandledInOrder, UNCHANGED <<chain, debezium, acked, run>>, phase' # "new"
    PROVE  HandledInOrder'
  BY DEF HandledInOrder, Going, Malformed

\* Steps of init().
LEMMA StartKeeps ==
    PubSubInv /\ (StartInit \/ InitDone \/ \E r \in Resources : Validate(r)) => PubSubInv'
  <1> SUFFICES ASSUME PubSubInv, StartInit \/ InitDone \/ \E r \in Resources : Validate(r)
               PROVE  PubSubInv'
    OBVIOUS
  <1> USE DEF PubSubInv, regVars, subVars, pubVars
  <1>1. CASE StartInit
    <2>1. check' \in [Resources -> Checks]
      <3>1. [IdleCheck EXCEPT !.step = "exists"] \in Checks
        BY IdleTyped DEF Checks
      <3> QED
        BY <1>1, <3>1, IdleTyped DEF StartInit
    <2>2. Typed'
      BY <1>1, <2>1 DEF StartInit, Typed
    <2>3. Validated'
      <3>1. [IdleCheck EXCEPT !.step = "exists"].step = "exists"
        BY DEF IdleCheck
      <3>2. topics \cup Declared \subseteq Resources
        BY DEF Typed, Declared, Resources
      <3> QED
        BY <1>1, <3>1, <3>2 DEF StartInit, Validated, Started, Declared
    <2>4. Flushing'
      BY <1>1 DEF StartInit, Flushing
    <2>5. HandledInOrder'
      BY <1>1, DeliveriesKept DEF StartInit
    <2> QED
      BY <2>2, <2>3, <2>4, <2>5
  <1>2. CASE InitDone
    <2>1. Typed'
      BY <1>2 DEF InitDone, Typed, Declared
    <2>2. Validated'
      BY <1>2 DEF InitDone, Validated, Started, Declared
    <2>3. Flushing'
      BY <1>2 DEF InitDone, Flushing
    <2>4. HandledInOrder'
      BY <1>2, DeliveriesKept DEF InitDone
    <2> QED
      BY <2>1, <2>2, <2>3, <2>4
  <1>3. ASSUME NEW r \in Resources, Validate(r) PROVE PubSubInv'
    <2>1. PICK s \in Checks : s.step # "idle" /\ check' = [check EXCEPT ![r] = s]
      <3>1. check[r] \in Checks
        BY DEF Typed
      <3>2. CASE CheckPasses(r)
        <4> DEFINE s == [IdleCheck EXCEPT !.step = IF check[r].step = "exists" THEN "permissions" ELSE "ok"]
        <4>1. s \in Checks /\ s.step # "idle"
          BY IdleTyped DEF Checks
        <4>2. check' = [check EXCEPT ![r] = s]
          BY <3>2 DEF CheckPasses
        <4> HIDE DEF s
        <4> QED
          BY <4>1, <4>2
      <3>3. CASE CheckFails(r)
        <4> DEFINE s == [check[r] EXCEPT !.step = "failed"]
        <4>1. s \in Checks /\ s.step # "idle"
          BY <3>1 DEF Checks
        <4> QED
          BY <3>3, <4>1 DEF CheckFails
      <3>4. CASE CheckErrs(r)
        <4> DEFINE s == [check[r] EXCEPT !.attempt = @ + 1, !.waiting = TRUE]
        <4>0. check[r].attempt + 1 \in Nat /\ check[r].step # "idle"
          BY <3>1, <3>4 DEF Checks, CheckErrs, Checking
        <4>1. s \in Checks /\ s.step # "idle"
          BY <3>1, <4>0 DEF Checks
        <4>2. check' = [check EXCEPT ![r] = s]
          BY <3>1, <3>4 DEF Checks, CheckErrs, Typed
        <4> QED
          BY <4>1, <4>2
      <3>5. CASE CheckAgain(r)
        <4> DEFINE s == [check[r] EXCEPT !.waiting = FALSE]
        <4>1. s \in Checks /\ s.step # "idle"
          BY <3>1, <3>5 DEF Checks, CheckAgain, Checking
        <4> QED
          BY <3>5, <4>1 DEF CheckAgain
      <3> QED
        BY <1>3, <3>2, <3>3, <3>4, <3>5 DEF Validate
    <2>2. /\ UNCHANGED <<topics, chain, debezium, open, closing, lease, acked, run, handled, pub, owed>>
          /\ phase' = phase \/ (phase = "validating" /\ phase' = "failed")
          /\ check[r].step \in {"exists", "permissions"}
      BY <1>3 DEF Validate, CheckPasses, CheckFails, CheckErrs, CheckAgain, Checking
    <2>3. ~Started
      BY <2>2 DEF Validated
    <2>4. Typed'
      BY <2>1, <2>2 DEF Typed
    <2>5. Validated'
      <3>1. \A q \in Resources : check'[q].step # "idle" \/ check'[q] = check[q]
        BY <2>1 DEF Typed
      <3>2. topics \cup Declared \subseteq Resources
        BY DEF Typed, Declared, Resources
      <3> QED
        BY <2>2, <2>3, <3>1, <3>2 DEF Validated, Started, Declared
    <2>6. Flushing'
      BY <2>2 DEF Flushing
    <2>7. HandledInOrder'
      BY <2>2, <2>3 DEF HandledInOrder, Going, Malformed
    <2> QED
      BY <2>4, <2>5, <2>6, <2>7
  <1> QED
    BY <1>1, <1>2, <1>3

\* A step of the broker or of one delivery.
LEMMA OneDelivery ==
    ASSUME PubSubInv, NEW m \in Messages, NEW k \in Slots, phase # "new",
           UNCHANGED <<phase, topics, chain, debezium, check, open, closing, pub, owed>>,
           acked' \subseteq Messages, handled' \subseteq Messages,
           NEW s \in Runs, Going(m, s), run' = [run EXCEPT ![m][k] = s]
    PROVE  PubSubInv'
  <1> USE DEF PubSubInv
  <1>1. run' \in [Messages -> [Slots -> Runs]]
    BY DEF Typed
  <1>2. \A n \in Messages, l \in Slots :
          run'[n][l] = run[n][l] \/ (n = m /\ run'[n][l] = s)
    BY DEF Typed
  <1>3. Typed'
    BY <1>1 DEF Typed
  <1>4. Validated' /\ Flushing'
    BY DEF Validated, Started, Declared, Flushing
  <1>5. \A n \in Messages, l \in Slots : Going(n, run[n][l])'
    BY <1>2 DEF HandledInOrder, Going, Malformed
  <1> QED
    BY <1>3, <1>4, <1>5 DEF HandledInOrder

\* A handled delivery has its place in the list, and the record of a run.
LEMMA Handler ==
    ASSUME PubSubInv, NEW m \in Messages, NEW k \in Slots, run[m][k].pc = "handling"
    PROVE  /\ run[m][k] \in Runs /\ Going(m, run[m][k])
           /\ chain[SubOf[m]] \in Seq(Handlers) /\ Len(chain[SubOf[m]]) \in Nat
           /\ HandlerAt(m, k) \in Handlers
           /\ phase # "new"
  <1>1. /\ run[m][k] \in Runs /\ Going(m, run[m][k]) /\ chain[SubOf[m]] \in Seq(Handlers)
        /\ phase # "new"
    BY PubSubAssumption DEF PubSubInv, Typed, HandledInOrder
  <1> QED
    BY <1>1 DEF Going, HandlerAt

\* One handler ends with run r: what After() leaves.
LEMMA AfterKeeps ==
    ASSUME PubSubInv, NEW m \in Messages, NEW k \in Slots, run[m][k].pc = "handling",
           NEW r \in Runs, r.pc = "handling", r.at = run[m][k].at,
           ~r.hasError => \A i \in 1..r.at : chain[SubOf[m]][i] \in r.ok,
           After(m, k, r),
           UNCHANGED <<phase, topics, chain, debezium, check, open, closing, pub, owed>>
    PROVE  PubSubInv'
  <1>1. /\ r.at \in 1..Len(chain[SubOf[m]]) /\ ~Malformed(m) /\ phase # "new"
        /\ Len(chain[SubOf[m]]) \in Nat
    BY Handler DEF Going
  <1>2. CASE r.at < Len(chain[SubOf[m]])
    <2> DEFINE s == [r EXCEPT !.at = @ + 1]
    <2>1. s \in Runs /\ s.at = r.at + 1 /\ s.hasError = r.hasError /\ s.ok = r.ok
      BY <1>1 DEF Runs
    <2>2. run' = [run EXCEPT ![m][k] = s] /\ UNCHANGED <<lease, acked, handled>>
      BY <1>2 DEF After, Runs
    <2> HIDE DEF s
    <2>3. Going(m, s)
      BY <1>1, <1>2, <2>1 DEF Going
    <2>4. acked' \subseteq Messages /\ handled' \subseteq Messages
      BY <2>2 DEF PubSubInv, Typed
    <2> QED
      BY <1>1, <2>1, <2>2, <2>3, <2>4, OneDelivery
  <1>3. CASE ~(r.at < Len(chain[SubOf[m]]))
    <2>1. run' = [run EXCEPT ![m][k] = IdleRun]
      BY <1>3 DEF After
    <2>2. acked' \subseteq Messages /\ handled' \subseteq Messages
      BY <1>3 DEF After, Ack, Nack, PubSubInv, Typed
    <2>3. Going(m, IdleRun)
      BY IdleTyped DEF Going
    <2> QED
      BY <1>1, <2>1, <2>2, <2>3, IdleTyped, OneDelivery
  <1> QED
    BY <1>2, <1>3

\* handleMessage(): a delivery starts, and one handler after the other ends.
LEMMA HandlingKeeps ==
    ASSUME PubSubInv, NEW m \in Messages, NEW k \in Slots,
           Deliver(m, k) \/ Handling(m, k) \/ LeaseExpires(m)
    PROVE  PubSubInv'
  <1> USE DEF regVars, pubVars
  <1>1. CASE Deliver(m, k)
    <2>1. /\ SubOf[m] \in open /\ phase # "new"
          /\ chain[SubOf[m]] \in Seq(Handlers) /\ chain[SubOf[m]] # <<>>
      BY <1>1 DEF Deliver, PubSubInv, Validated, Started, Declared, Typed
    <2>2. CASE ~Malformed(m)
      <3> DEFINE s == [IdleRun EXCEPT !.pc = "handling", !.at = 1]
      <3>1. s \in Runs /\ s.at = 1
        BY DEF IdleRun, Runs
      <3>2. run' = [run EXCEPT ![m][k] = s] /\ UNCHANGED <<acked, handled>>
        BY <1>1, <2>2 DEF Deliver
      <3> HIDE DEF s
      <3>3. Going(m, s)
        BY <2>1, <2>2, <3>1 DEF Going
      <3>4. acked' \subseteq Messages /\ handled' \subseteq Messages
        BY <3>2 DEF PubSubInv, Typed
      <3> QED
        BY <1>1, <2>1, <3>1, <3>2, <3>3, <3>4, OneDelivery DEF Deliver
    <2>3. CASE Malformed(m)
      <3>1. /\ acked' = acked \cup {m} /\ UNCHANGED <<lease, run>>
            /\ UNCHANGED <<phase, topics, chain, debezium, check, open, closing, handled, pub, owed>>
        BY <1>1, <2>3 DEF Deliver
      <3>2. HandledInOrder'
        BY <2>1, <3>1 DEF PubSubInv, HandledInOrder, Going, Malformed
      <3>3. Typed' /\ Validated' /\ Flushing'
        BY <3>1 DEF PubSubInv, Typed, Validated, Started, Declared, Flushing
      <3> QED
        BY <3>2, <3>3 DEF PubSubInv
    <2> QED
      BY <2>2, <2>3
  <1>2. CASE HandlerSucceeds(m, k)
    <2> DEFINE r == [run[m][k] EXCEPT !.ok = @ \cup {HandlerAt(m, k)}]
    <2>1. run[m][k].pc = "handling" /\ After(m, k, r)
      BY <1>2 DEF HandlerSucceeds
    <2>2. /\ r \in Runs /\ r.pc = "handling" /\ r.at = run[m][k].at /\ r.hasError = run[m][k].hasError
          /\ r.ok = run[m][k].ok \cup {HandlerAt(m, k)}
      BY <2>1, Handler DEF Runs
    <2> HIDE DEF r
    <2>3. ~r.hasError => \A i \in 1..r.at : chain[SubOf[m]][i] \in r.ok
      BY <2>1, <2>2, Handler DEF Going, HandlerAt
    <2> QED
      BY <1>2, <2>1, <2>2, <2>3, AfterKeeps DEF HandlerSucceeds
  <1>3. CASE HandlerFails(m, k)
    <2> DEFINE r == [run[m][k] EXCEPT !.hasError = TRUE]
    <2>1. run[m][k].pc = "handling" /\ After(m, k, r)
      BY <1>3 DEF HandlerFails
    <2>2. r \in Runs /\ r.pc = "handling" /\ r.at = run[m][k].at /\ r.hasError
      BY <2>1, Handler DEF Runs
    <2> HIDE DEF r
    <2> QED
      BY <1>3, <2>1, <2>2, AfterKeeps DEF HandlerFails
  <1>4. CASE LeaseExpires(m)
    <2>1. UNCHANGED <<phase, topics, chain, debezium, check, open, closing, acked, run, handled, pub, owed>>
      BY <1>4 DEF LeaseExpires
    <2> QED
      BY <2>1 DEF PubSubInv, Typed, Validated, Started, Declared, Flushing, HandledInOrder, Going, Malformed
  <1> QED
    BY <1>1, <1>2, <1>3, <1>4 DEF Handling

\* What is sent is not batched any more, and nothing else changes.
LEMMA SentLeaves ==
    ASSUME NEW t, pub \in [Outgoing -> {"new", "batched", "sent", "refused", "lost"}]
    PROVE  /\ Sent(t) \in [Outgoing -> {"new", "batched", "sent", "refused", "lost"}]
           /\ \A p \in Outgoing : Sent(t)[p] = "batched" => pub[p] = "batched" /\ TopicOf[p] # t
           /\ \A p \in Outgoing : Sent(t)[p] # "batched" => pub[p] # "batched" \/ TopicOf[p] = t
  BY DEF Sent

\* publish() and the timer of the batches.
LEMMA PublishKeeps ==
    ASSUME PubSubInv, (\E p \in Outgoing : Publish(p)) \/ \E t \in Topics : BatchTimer(t)
    PROVE  PubSubInv'
  <1> USE DEF regVars, subVars
  <1>1. UNCHANGED <<phase, topics, chain, debezium, check, open, closing, lease, acked, run, handled>>
    BY DEF Publish, BatchTimer
  <1>2. Validated' /\ HandledInOrder'
    BY <1>1 DEF PubSubInv, Validated, Started, Declared, HandledInOrder, Going, Malformed
  <1>3. ASSUME NEW p \in Outgoing, Publish(p) PROVE PubSubInv'
    <2>1. Typed'
      BY <1>1, <1>3 DEF PubSubInv, Typed, Publish
    <2>2. Flushing'
      BY <1>1, <1>3 DEF PubSubInv, Typed, Flushing, Publish
    <2> QED
      BY <1>2, <2>1, <2>2 DEF PubSubInv
  <1>4. ASSUME NEW t \in Topics, BatchTimer(t) PROVE PubSubInv'
    <2>1. pub' = Sent(t) /\ owed' = {p \in owed : pub'[p] = "batched"}
      BY <1>4 DEF BatchTimer
    <2>2. Typed'
      BY <1>1, <2>1, SentLeaves DEF PubSubInv, Typed
    <2>3. Flushing'
      BY <1>1, <2>1, SentLeaves DEF PubSubInv, Typed, Flushing
    <2> QED
      BY <1>2, <2>2, <2>3 DEF PubSubInv
  <1> QED
    BY <1>3, <1>4

\* shutdown().
LEMMA ShutdownKeeps ==
    ASSUME PubSubInv,
           \/ StartShutdown \/ Clear \/ ClientClosed \/ ClientCloseFails
           \/ \E t \in Topics : TopicFlushed(t) \/ FlushFails(t)
           \/ \E s \in Subscriptions : SubscriptionClosed(s) \/ CloseFails(s)
    PROVE  PubSubInv'
  <1> USE DEF PubSubInv, regVars, subVars, pubVars
  <1>0. /\ UNCHANGED <<chain, debezium, check, acked, run, handled>> /\ open' \subseteq open
        /\ topics' \subseteq topics /\ Started /\ Started'
    BY DEF StartShutdown, Clear, ClientClosed, ClientCloseFails, TopicFlushed, FlushFails,
           SubscriptionClosed, CloseFails, StreamEnds, Rejects, Awaits, Started
  <1>1. HandledInOrder'
    BY <1>0, DeliveriesKept DEF Started
  <1>2. Validated'
    BY <1>0 DEF Validated, Started, Declared
  <1>3. CASE StartShutdown
    <2>1. Typed'
      BY <1>3 DEF StartShutdown, Typed
    <2>2. Flushing'
      BY <1>3 DEF StartShutdown, Flushing
    <2> QED
      BY <1>1, <1>2, <2>1, <2>2
  <1>4. CASE Clear
    <2>1. Typed'
      BY <1>4 DEF Clear, Typed
    <2>2. Flushing'
      BY <1>4 DEF Clear, Flushing
    <2> QED
      BY <1>1, <1>2, <2>1, <2>2
  <1>5. CASE ClientClosed
    <2>1. Typed'
      BY <1>5 DEF ClientClosed, Typed
    <2>2. Flushing'
      BY <1>5 DEF ClientClosed, Flushing
    <2> QED
      BY <1>1, <1>2, <2>1, <2>2
  <1>6. ASSUME NEW t \in Topics, TopicFlushed(t) PROVE PubSubInv'
    <2>1. /\ pub' = Sent(t) /\ owed' = {p \in owed : pub'[p] = "batched"} /\ closing' = closing \ {t}
          /\ UNCHANGED <<phase, topics, chain, debezium, check, open, acked, run, handled>>
      BY <1>6 DEF TopicFlushed, Awaits
    <2>2. Typed'
      BY <2>1, SentLeaves DEF Typed
    <2>3. Flushing'
      BY <2>1, SentLeaves DEF Typed, Flushing
    <2> QED
      BY <1>1, <1>2, <2>2, <2>3
  <1>7. ASSUME NEW s \in Subscriptions, SubscriptionClosed(s) PROVE PubSubInv'
    <2>1. Typed'
      BY <1>7 DEF SubscriptionClosed, StreamEnds, Typed
    <2>2. Flushing'
      BY <1>7, PubSubAssumption DEF SubscriptionClosed, Awaits, Flushing, Typed
    <2> QED
      BY <1>1, <1>2, <2>1, <2>2
  <1>8. CASE ClientCloseFails
    <2>1. Typed'
      BY <1>8 DEF ClientCloseFails, Typed
    <2>2. Flushing'
      BY <1>8 DEF ClientCloseFails, Flushing
    <2> QED
      BY <1>1, <1>2, <2>1, <2>2
  <1>9. ASSUME NEW t \in Topics, FlushFails(t) PROVE PubSubInv'
    <2>1. /\ phase \in {"closing", "stopFailed"} /\ phase' = "stopFailed"
          /\ owed' = {} /\ UNCHANGED <<topics, chain, debezium, check, open, acked, run, handled>>
      BY <1>9 DEF FlushFails, Rejects, Awaits
    <2>2. /\ pub' \in [Outgoing -> {"new", "batched", "sent", "refused", "lost"}]
          /\ \A p \in Outgoing : pub'[p] = "batched" => pub[p] = "batched"
      BY <1>9 DEF FlushFails, Typed
    <2>3. Typed'
      BY <2>1, <2>2 DEF Typed
    <2>4. Flushing'
      BY <2>1, <2>2 DEF Flushing
    <2> QED
      BY <1>1, <1>2, <2>3, <2>4
  <1>10. ASSUME NEW s \in Subscriptions, CloseFails(s) PROVE PubSubInv'
    <2>1. /\ phase \in {"closing", "stopFailed"} /\ phase' = "stopFailed" /\ owed' = {}
          /\ UNCHANGED <<topics, chain, debezium, check, acked, run, handled, pub>>
      BY <1>10 DEF CloseFails, Rejects, Awaits
    <2>2. Typed'
      BY <1>0, <2>1 DEF Typed
    <2>3. Flushing'
      BY <2>1 DEF Flushing
    <2> QED
      BY <1>1, <1>2, <2>2, <2>3
  <1> QED
    BY <1>3, <1>4, <1>5, <1>6, <1>7, <1>8, <1>9, <1>10

\* A crash drops what is in memory.
LEMMA CrashKeeps == PubSubInv /\ Crash => PubSubInv'
  <1> SUFFICES ASSUME PubSubInv, Crash PROVE PubSubInv'
    OBVIOUS
  <1> USE DEF PubSubInv, Crash, regVars
  <1>1. Typed'
    BY IdleTyped DEF Typed
  <1>2. Validated'
    BY DEF Validated, Started, Declared
  <1>3. Flushing'
    BY DEF Flushing
  <1>4. HandledInOrder'
    BY IdleTyped DEF HandledInOrder, Going
  <1> QED
    BY <1>1, <1>2, <1>3, <1>4

\* Every step keeps PubSubInv.
LEMMA NextKeeps == PubSubInv /\ [Next]_vars => PubSubInv'
  <1> SUFFICES ASSUME PubSubInv, [Next]_vars PROVE PubSubInv'
    OBVIOUS
  <1>1. CASE UNCHANGED vars
    BY <1>1 DEF vars, regVars, subVars, pubVars, PubSubInv, Typed, Validated, Started, Declared,
                Flushing, HandledInOrder, Going, Malformed
  <1>2. ASSUME NEW m \in Messages, LeaseExpires(m) PROVE PubSubInv'
    <2>1. UNCHANGED <<phase, regVars, check, open, closing, acked, run, handled, pubVars>>
      BY <1>2 DEF LeaseExpires
    <2> QED
      BY <2>1 DEF regVars, pubVars, PubSubInv, Typed, Validated, Started, Declared, Flushing,
                  HandledInOrder, Going, Malformed
  <1> QED
    BY <1>1, <1>2, RegisterKeeps, StartKeeps, HandlingKeeps, PublishKeeps, ShutdownKeeps, CrashKeeps
       DEF Next

-----------------------------------------------------------------------------

\* No message is consumed before every declared topic and subscription exists
\* and is permitted, and none after a check failed, however the checks and
\* their retries interleave and whatever crashes.
THEOREM NothingUnvalidated == Spec => []ConsumesOnlyValidated
  <1>1. PubSubInv => ConsumesOnlyValidated
    <2>1. Typed => topics \cup Declared \subseteq Resources
      BY DEF Typed, Declared, Resources
    <2> QED
      BY <2>1 DEF PubSubInv, Validated, ConsumesOnlyValidated
  <1> QED
    BY <1>1, InitKeeps, NextKeeps, PTL DEF Spec

\* What was accepted before shutdown() was called has been sent when the client
\* is closed, whatever is published meanwhile.
THEOREM NothingOwedWhenClosed == Spec => []FlushedBeforeClose
  <1>1. PubSubInv => FlushedBeforeClose
    BY DEF PubSubInv, Flushing, FlushedBeforeClose
  <1> QED
    BY <1>1, InitKeeps, NextKeeps, PTL DEF Spec

-----------------------------------------------------------------------------
(* The consumer implements AtLeastOnce. *)

\* The initial states are initial states of AtLeastOnce.
LEMMA InitRefines == Init => ALO!Init
  BY DEF Init, ALO!Init

\* What settles no message is a stutter.
LEMMA Stutters ==
    ASSUME UNCHANGED <<acked, handled>>, acked = {} \/ UNCHANGED debezium
    PROVE  UNCHANGED ALO!aloVars
  BY DEF ALO!aloVars, Malformed

\* A handler that is not the last settles nothing; the last one completes the
\* message if all succeeded and the broker takes the ack.
LEMMA AfterRefines ==
    ASSUME PubSubInv, NEW m \in Messages, NEW k \in Slots, run[m][k].pc = "handling",
           NEW r \in Runs, r.at = run[m][k].at,
           ~r.hasError => \A i \in 1..r.at : chain[SubOf[m]][i] \in r.ok,
           After(m, k, r), UNCHANGED <<chain, debezium>>
    PROVE  [ALO!Next]_(ALO!aloVars)
  <1>1. /\ ~Malformed(m) /\ r.at \in 1..Len(chain[SubOf[m]]) /\ chain[SubOf[m]] \in Seq(Handlers)
        /\ Len(chain[SubOf[m]]) \in Nat
    BY Handler DEF Going
  <1>2. CASE r.at < Len(chain[SubOf[m]])
    BY <1>2, Stutters DEF After
  <1>3. CASE ~(r.at < Len(chain[SubOf[m]]))
    <2>1. handled' = handled \/ handled' = handled \cup {m}
      BY <1>3 DEF After
    <2>2. ~r.hasError => handled' = handled \cup {m}
      BY <1>1, <1>3 DEF After
    <2>3. CASE UNCHANGED acked
      BY <2>1, <2>3, Stutters DEF ALO!Next, ALO!Process, Malformed
    <2>4. CASE acked' = acked \cup {m}
      <3>1. ~r.hasError \/ UNCHANGED acked
        BY <1>3 DEF After, Nack
      <3>2. CASE ~r.hasError
        BY <1>1, <2>2, <2>4, <3>2 DEF ALO!Next, ALO!Complete, Malformed
      <3> QED
        BY <2>3, <3>1, <3>2
    <2> QED
      BY <1>3, <2>3, <2>4 DEF After, Ack, Nack
  <1> QED
    BY <1>2, <1>3

\* Every step is a step of AtLeastOnce or a stutter.
LEMMA NextRefines == PubSubInv /\ [Next]_vars => [ALO!Next]_(ALO!aloVars)
  <1> SUFFICES ASSUME PubSubInv, [Next]_vars PROVE [ALO!Next]_(ALO!aloVars)
    OBVIOUS
  <1> USE DEF regVars, subVars
  <1>1. CASE UNCHANGED vars
    BY <1>1, Stutters DEF vars
  <1>2. CASE Register
    BY <1>2, Stutters DEF Register, AddPublisher, AddSubscriber, PubSubInv, HandledInOrder
  <1>3. ASSUME NEW m \in Messages, NEW k \in Slots, Deliver(m, k)
        PROVE  [ALO!Next]_(ALO!aloVars)
    <2>1. CASE Malformed(m)
      <3>1. acked' = acked \cup {m} /\ UNCHANGED <<handled, debezium>>
        BY <1>3, <2>1 DEF Deliver
      <3> QED
        BY <2>1, <3>1 DEF ALO!Next, ALO!Refuse, Malformed
    <2>2. CASE ~Malformed(m)
      BY <1>3, <2>2, Stutters DEF Deliver
    <2> QED
      BY <2>1, <2>2
  <1>4. ASSUME NEW m \in Messages, NEW k \in Slots, HandlerSucceeds(m, k)
        PROVE  [ALO!Next]_(ALO!aloVars)
    <2> DEFINE r == [run[m][k] EXCEPT !.ok = @ \cup {HandlerAt(m, k)}]
    <2>1. run[m][k].pc = "handling" /\ After(m, k, r) /\ UNCHANGED <<chain, debezium>>
      BY <1>4 DEF HandlerSucceeds
    <2>2. /\ r \in Runs /\ r.at = run[m][k].at /\ r.hasError = run[m][k].hasError
          /\ r.ok = run[m][k].ok \cup {HandlerAt(m, k)}
      BY <2>1, Handler DEF Runs
    <2> HIDE DEF r
    <2>3. ~r.hasError => \A i \in 1..r.at : chain[SubOf[m]][i] \in r.ok
      BY <2>1, <2>2, Handler DEF Going, HandlerAt
    <2> QED
      BY <2>1, <2>2, <2>3, AfterRefines
  <1>5. ASSUME NEW m \in Messages, NEW k \in Slots, HandlerFails(m, k)
        PROVE  [ALO!Next]_(ALO!aloVars)
    <2> DEFINE r == [run[m][k] EXCEPT !.hasError = TRUE]
    <2>1. run[m][k].pc = "handling" /\ After(m, k, r) /\ UNCHANGED <<chain, debezium>>
      BY <1>5 DEF HandlerFails
    <2>2. r \in Runs /\ r.at = run[m][k].at /\ r.hasError
      BY <2>1, Handler DEF Runs
    <2> HIDE DEF r
    <2> QED
      BY <2>1, <2>2, AfterRefines
  <1>6. CASE \/ StartInit \/ InitDone \/ \E r \in Resources : Validate(r)
             \/ \E p \in Outgoing : Publish(p)
             \/ \E t \in Topics : BatchTimer(t) \/ TopicFlushed(t) \/ FlushFails(t)
    <2>1. UNCHANGED <<acked, handled, debezium>>
      BY <1>6 DEF StartInit, InitDone, Validate, CheckPasses, CheckFails, CheckErrs, CheckAgain,
                  Publish, BatchTimer, TopicFlushed, FlushFails, Rejects
    <2> QED
      BY <2>1, Stutters
  <1>7. CASE \/ \E s \in Subscriptions : SubscriptionClosed(s) \/ CloseFails(s)
             \/ \E m \in Messages : LeaseExpires(m)
             \/ StartShutdown \/ Clear \/ ClientClosed \/ ClientCloseFails \/ Crash
    <2>1. UNCHANGED <<acked, handled, debezium>>
      BY <1>7 DEF SubscriptionClosed, CloseFails, Rejects, LeaseExpires, StartShutdown, Clear,
                  ClientClosed, ClientCloseFails, Crash
    <2> QED
      BY <2>1, Stutters
  <1> QED
    BY <1>1, <1>2, <1>3, <1>4, <1>5, <1>6, <1>7 DEF Next, Handling

\* PubSub implements AtLeastOnce: no message leaves its subscription unless it
\* cannot be parsed or all its handlers succeeded in one delivery, across
\* redeliveries, lost acks, shutdown and crashes.
THEOREM AtLeastOnceImplemented == Spec => Reliable
  <1> QED
    BY InitKeeps, NextKeeps, InitRefines, NextRefines, PTL DEF Spec, Reliable, ALO!Spec


-----------------------------------------------------------------------------
(* Types *)

\* No handler is listed twice on a subscription.
Distinct(s) == \A h \in Handlers, i, j \in DOMAIN s : s[i] = h /\ s[j] = h => i = j

\* What the proofs above need no bounds of, and what TypeOK bounds.
Bounded ==
    /\ \A s \in Subscriptions : Distinct(chain[s])
    /\ \A r \in Resources : check[r].attempt \in 1..MaxAttempts
    /\ closing \subseteq Resources
    /\ lease \in [Messages -> Slots \cup {NoSlot}]
    /\ \A m \in Messages, k \in Slots : run[m][k].pc = "idle" => run[m][k].at = 0
    /\ faults \in 0..MaxFaults

\* A list without repetition is no longer than the handlers there are.
LEMMA ChainFits ==
    ASSUME NEW s \in Seq(Handlers), Distinct(s)
    PROVE  Len(s) <= Cardinality(Handlers) /\ Cardinality(Handlers) \in Nat
  <1>1. IsFiniteSet(Handlers) /\ Cardinality(Handlers) \in Nat
    BY PubSubAssumption, FS_CardinalityType
  <1>2. IsFiniteSet(1..Len(s)) /\ Cardinality(1..Len(s)) = Len(s) /\ Len(s) \in Nat
    <2>1. Len(s) \in Nat
      OBVIOUS
    <2> DEFINE n == Len(s)
    <2> HIDE DEF n
    <2>2. IsFiniteSet(1..n) /\ Cardinality(1..n) = n
      BY <2>1, FS_Interval DEF n
    <2> QED
      BY <2>1, <2>2 DEF n
  <1>3. s \in [1..Len(s) -> Handlers]
    OBVIOUS
  <1>4. CASE Cardinality(Handlers) < Cardinality(1..Len(s))
    <2>1. \E i, j \in 1..Len(s) : i # j /\ s[i] = s[j]
      BY <1>1, <1>2, <1>3, <1>4, FS_PigeonHole
    <2> QED
      BY <1>3, <2>1 DEF Distinct
  <1> QED
    BY <1>1, <1>2, <1>4

\* AddSubscriber lists a handler that is listed nowhere.
LEMMA AddedOnce ==
    ASSUME NEW s \in Seq(Handlers), Distinct(s), NEW h \in Handlers, \A i \in DOMAIN s : s[i] # h
    PROVE  Distinct(Append(s, h)) /\ Distinct(<<h>> \o s)
  <1>1. Len(s) \in Nat /\ DOMAIN s = 1..Len(s)
    OBVIOUS
  <1>2. Distinct(Append(s, h))
    <2>1. /\ DOMAIN Append(s, h) = 1..(Len(s) + 1) /\ Append(s, h)[Len(s) + 1] = h
          /\ \A i \in 1..Len(s) : Append(s, h)[i] = s[i]
      OBVIOUS
    <2> DEFINE a == Append(s, h)
    <2> HIDE DEF a
    <2>2. \A i \in 1..(Len(s) + 1) : i \in 1..Len(s) \/ i = Len(s) + 1
      BY <1>1
    <2> QED
      BY <1>1, <2>1, <2>2 DEF Distinct, a
  <1>3. Distinct(<<h>> \o s)
    <2> DEFINE a == <<h>> \o s
    <2>1. DOMAIN a = 1..(Len(s) + 1) /\ a[1] = h /\ \A i \in 2..(Len(s) + 1) : a[i] = s[i - 1]
      BY <1>1
    <2> HIDE DEF a
    <2>2. \A i \in 1..(Len(s) + 1) : i = 1 \/ (i \in 2..(Len(s) + 1) /\ i - 1 \in DOMAIN s)
      BY <1>1
    <2>3. ASSUME NEW g \in Handlers, NEW i \in DOMAIN a, NEW j \in DOMAIN a, a[i] = g, a[j] = g
          PROVE  i = j
      <3>1. CASE i = 1 \/ j = 1
        BY <2>1, <2>2, <2>3, <3>1
      <3>2. CASE i # 1 /\ j # 1
        <4>1. s[i - 1] = g /\ s[j - 1] = g /\ i - 1 \in DOMAIN s /\ j - 1 \in DOMAIN s
          BY <2>1, <2>2, <2>3, <3>2
        <4>2. i - 1 = j - 1
          BY <4>1 DEF Distinct
        <4> QED
          BY <1>1, <2>1, <2>3, <4>2
      <3> QED
        BY <3>1, <3>2
    <2> QED
      BY <2>3 DEF Distinct, a
  <1> QED
    BY <1>2, <1>3

\* The step of a delivery: its list of handlers ends or goes on.
LEMMA RunBounded ==
    ASSUME PubSubInv, Bounded, NEW m \in Messages, NEW k \in Slots, NEW r \in Runs,
           run' = [run EXCEPT ![m][k] = r], r.pc = "idle" => r.at = 0,
           UNCHANGED <<chain, check, closing>>, lease' \in [Messages -> Slots \cup {NoSlot}],
           faults' \in 0..MaxFaults
    PROVE  Bounded'
  <1>1. \A n \in Messages, l \in Slots : run'[n][l] = IF n = m /\ l = k THEN r ELSE run[n][l]
    BY DEF PubSubInv, Typed
  <1> QED
    BY <1>1 DEF Bounded

\* What moves no validation, no delivery and no lease.
LEMMA OthersBounded ==
    ASSUME Bounded, UNCHANGED <<chain, check, lease, run>>, closing' \subseteq Resources, faults' \in 0..MaxFaults
    PROVE  Bounded'
  BY DEF Bounded

\* Every step.
LEMMA BoundedNext == PubSubInv /\ Bounded /\ [Next]_vars => Bounded'
  <1> SUFFICES ASSUME PubSubInv, Bounded, [Next]_vars PROVE Bounded'
    OBVIOUS
  <1>1. /\ topics \cup Declared \subseteq Resources /\ closing \subseteq Resources
        /\ lease \in [Messages -> Slots \cup {NoSlot}] /\ faults \in 0..MaxFaults
        /\ chain \in [Subscriptions -> Seq(Handlers)] /\ check \in [Resources -> Checks]
        /\ run \in [Messages -> [Slots -> Runs]]
    BY DEF PubSubInv, Typed, Bounded, Declared, Resources
  <1>2. MayFail => faults' \in 0..MaxFaults
    BY <1>1, PubSubAssumption DEF MayFail
  <1>3. IdleCheck \in Checks /\ IdleCheck.attempt \in 1..MaxAttempts /\ IdleRun \in Runs /\ IdleRun.at = 0
    BY PubSubAssumption DEF IdleCheck, IdleRun, Checks, Runs
  <1>4. ASSUME NEW s \in Subscriptions, NEW h \in Handlers, NEW first, NEW isDebezium,
               AddSubscriber(s, h, first, isDebezium)
        PROVE  Bounded'
    <2>1. Distinct(chain[s]) /\ chain[s] \in Seq(Handlers) /\ \A i \in DOMAIN chain[s] : chain[s][i] # h
      BY <1>1, <1>4 DEF AddSubscriber, Listed, Bounded
    <2>2. Distinct(Append(chain[s], h)) /\ Distinct(<<h>> \o chain[s])
      BY <2>1, AddedOnce
    <2>3. chain'[s] = Append(chain[s], h) \/ chain'[s] = <<h>> \o chain[s]
      BY <1>1, <1>4 DEF AddSubscriber
    <2>4. \A q \in Subscriptions \ {s} : chain'[q] = chain[q]
      BY <1>1, <1>4 DEF AddSubscriber
    <2>5. \A q \in Subscriptions : Distinct(chain'[q])
      BY <2>2, <2>3, <2>4 DEF Bounded
    <2>6. UNCHANGED <<check, closing, lease, run, faults>>
      BY <1>4 DEF AddSubscriber, subVars
    <2> QED
      BY <2>5, <2>6 DEF Bounded
  <1>5. ASSUME NEW t \in Topics, AddPublisher(t) \/ BatchTimer(t) \/ TopicFlushed(t) PROVE Bounded'
    <2>1. UNCHANGED <<chain, check, lease, run, faults>> /\ closing' \subseteq Resources
      BY <1>1, <1>5 DEF AddPublisher, BatchTimer, TopicFlushed, regVars, subVars
    <2> QED
      BY <1>1, <2>1, OthersBounded
  <1>6. CASE StartInit
    <2>1. \A r \in Resources : check'[r].attempt \in 1..MaxAttempts
      BY <1>3, <1>6 DEF StartInit, IdleCheck
    <2>2. UNCHANGED <<chain, closing, lease, run, faults>>
      BY <1>6 DEF StartInit, regVars, subVars
    <2> QED
      BY <2>1, <2>2 DEF Bounded
  <1>7. ASSUME NEW r \in Resources, Validate(r) PROVE Bounded'
    <2>1. check[r] \in Checks /\ check[r].attempt \in 1..MaxAttempts
      BY <1>1 DEF Bounded
    <2>2. check'[r].attempt \in 1..MaxAttempts
      <3>1. CASE CheckPasses(r)
        BY <1>1, <1>3, <3>1 DEF CheckPasses, IdleCheck
      <3>2. CASE CheckFails(r)
        BY <1>1, <2>1, <3>2 DEF CheckFails, Checks
      <3>3. CASE CheckErrs(r)
        <4>1. check'[r].attempt = check[r].attempt + 1 /\ check[r].attempt < MaxAttempts
          BY <1>1, <3>3 DEF CheckErrs, Checks
        <4> QED
          BY <2>1, <4>1, PubSubAssumption
      <3>4. CASE CheckAgain(r)
        BY <1>1, <2>1, <3>4 DEF CheckAgain, Checks
      <3> QED
        BY <1>7, <3>1, <3>2, <3>3, <3>4 DEF Validate
    <2>3. \A q \in Resources \ {r} : check'[q] = check[q]
      BY <1>1, <1>7 DEF Validate, CheckPasses, CheckFails, CheckErrs, CheckAgain
    <2>4. UNCHANGED <<chain, closing, lease, run, faults>>
      BY <1>7 DEF Validate, CheckPasses, CheckFails, CheckErrs, CheckAgain, regVars, subVars
    <2> QED
      BY <2>2, <2>3, <2>4 DEF Bounded
  <1>8. ASSUME NEW m \in Messages, NEW k \in Slots, Deliver(m, k) PROVE Bounded'
    <2> DEFINE r == [IdleRun EXCEPT !.pc = "handling", !.at = 1]
    <2>1. r \in Runs /\ r.pc = "handling"
      BY DEF IdleRun, Runs
    <2>2. UNCHANGED <<chain, check, closing, faults>>
      BY <1>8 DEF Deliver, regVars
    <2>3. \/ UNCHANGED <<lease, run>>
          \/ lease' = [lease EXCEPT ![m] = k] /\ run' = [run EXCEPT ![m][k] = r]
      BY <1>8 DEF Deliver
    <2> HIDE DEF r
    <2>4. CASE UNCHANGED <<lease, run>>
      BY <2>2, <2>4 DEF Bounded
    <2>5. CASE lease' = [lease EXCEPT ![m] = k] /\ run' = [run EXCEPT ![m][k] = r]
      BY <1>1, <2>1, <2>2, <2>5, RunBounded
    <2> QED
      BY <2>3, <2>4, <2>5
  <1>9. ASSUME NEW m \in Messages, NEW k \in Slots, Handling(m, k) PROVE Bounded'
    <2>1. run[m][k].pc = "handling" /\ UNCHANGED <<chain, check, closing>> /\ faults' \in 0..MaxFaults
      BY <1>1, <1>2, <1>9 DEF Handling, HandlerSucceeds, HandlerFails, regVars
    <2>2. PICK r \in Runs : r.pc = "handling" /\ After(m, k, r)
      <3>1. run[m][k] \in Runs /\ HandlerAt(m, k) \in Handlers
        BY <2>1, Handler DEF HandlerAt
      <3> DEFINE ok == [run[m][k] EXCEPT !.ok = @ \cup {HandlerAt(m, k)}]
                 ko == [run[m][k] EXCEPT !.hasError = TRUE]
      <3>2. ok \in Runs /\ ok.pc = run[m][k].pc /\ ko \in Runs /\ ko.pc = run[m][k].pc
        BY <3>1 DEF Runs
      <3>3. After(m, k, ok) \/ After(m, k, ko)
        BY <1>9 DEF Handling, HandlerSucceeds, HandlerFails
      <3> HIDE DEF ok, ko
      <3> QED
        BY <2>1, <3>2, <3>3
    <2>3. CASE r.at < Len(chain[SubOf[m]])
      <3> DEFINE q == [r EXCEPT !.at = @ + 1]
      <3>1. q \in Runs /\ q.pc = "handling"
        BY <2>2 DEF Runs
      <3>2. run' = [run EXCEPT ![m][k] = q] /\ lease' = lease
        BY <2>2, <2>3 DEF After
      <3> HIDE DEF q
      <3> QED
        BY <1>1, <2>1, <3>1, <3>2, RunBounded
    <2>4. CASE ~(r.at < Len(chain[SubOf[m]]))
      <3>1. run' = [run EXCEPT ![m][k] = IdleRun] /\ (Nack(m, k) \/ Ack(m, k))
        BY <2>2, <2>4 DEF After
      <3>2. lease' \in [Messages -> Slots \cup {NoSlot}]
        BY <1>1, <3>1 DEF Nack, Ack
      <3> QED
        BY <1>3, <2>1, <3>1, <3>2, RunBounded
    <2> QED
      BY <2>3, <2>4
  <1>10. ASSUME NEW m \in Messages, LeaseExpires(m) PROVE Bounded'
    <2>1. UNCHANGED <<chain, check, closing, run>> /\ faults' \in 0..MaxFaults
      BY <1>2, <1>10 DEF LeaseExpires, regVars
    <2>2. lease' \in [Messages -> Slots \cup {NoSlot}]
      BY <1>1, <1>10 DEF LeaseExpires
    <2> QED
      BY <2>1, <2>2 DEF Bounded
  <1>11. ASSUME NEW p \in Outgoing, Publish(p) PROVE Bounded'
    BY <1>1, <1>11, OthersBounded DEF Publish, regVars, subVars
  <1>12. ASSUME NEW s \in Subscriptions, SubscriptionClosed(s) \/ CloseFails(s) PROVE Bounded'
    <2>1. UNCHANGED <<chain, check, run>> /\ faults' \in 0..MaxFaults /\ closing' \subseteq Resources
      BY <1>1, <1>2, <1>12 DEF SubscriptionClosed, CloseFails, Rejects, regVars
    <2>2. lease' \in [Messages -> Slots \cup {NoSlot}]
      BY <1>1, <1>12 DEF SubscriptionClosed, CloseFails, StreamEnds
    <2> QED
      BY <2>1, <2>2 DEF Bounded
  <1>13. CASE InitDone \/ StartShutdown \/ Clear \/ ClientClosed
    <2>1. UNCHANGED <<chain, check, lease, run, faults>> /\ closing' \subseteq Resources
      BY <1>1, <1>13 DEF InitDone, StartShutdown, Clear, ClientClosed, regVars, subVars
    <2> QED
      BY <1>1, <2>1, OthersBounded
  <1>14. ASSUME NEW t \in Topics, FlushFails(t) PROVE Bounded'
    <2>1. UNCHANGED <<chain, check, run, lease>> /\ faults' \in 0..MaxFaults
          /\ closing' \subseteq Resources
      BY <1>1, <1>2, <1>14 DEF FlushFails, Rejects, regVars
    <2> QED
      BY <1>1, <2>1 DEF Bounded
  <1>15. CASE ClientCloseFails
    <2>1. UNCHANGED <<chain, check, run, lease, closing>> /\ faults' \in 0..MaxFaults
      BY <1>2, <1>15 DEF ClientCloseFails, regVars, subVars
    <2> QED
      BY <1>1, <2>1 DEF Bounded
  <1>16. CASE Crash
    <2>1. UNCHANGED chain /\ closing' = {} /\ faults' \in 0..MaxFaults
      BY <1>2, <1>16 DEF Crash, regVars
    <2>2. \A r \in Resources : check'[r] = IdleCheck
      BY <1>16 DEF Crash
    <2>3. \A m \in Messages, k \in Slots : run'[m][k] = IdleRun
      BY <1>16 DEF Crash
    <2>4. lease' \in [Messages -> Slots \cup {NoSlot}]
      BY <1>16 DEF Crash
    <2> QED
      BY <1>3, <2>1, <2>2, <2>3, <2>4 DEF Bounded
  <1>17. CASE UNCHANGED vars
    BY <1>1, <1>17, OthersBounded DEF vars, regVars, subVars
  <1> QED
    BY <1>4, <1>5, <1>6, <1>7, <1>8, <1>9, <1>10, <1>11, <1>12, <1>13, <1>16, <1>17,
       <1>14, <1>15 DEF Next, Register

\* Every state of the consumer and of the broker is well typed: no delivery runs
\* past the handlers there are, and no validation past its attempts.
THEOREM TypeCorrect == Spec => []TypeOK
  <1>1. Init => Bounded
    <2> SUFFICES ASSUME Init PROVE Bounded
      OBVIOUS
    <2>1. IdleCheck.attempt \in 1..MaxAttempts /\ IdleRun.at = 0
      BY PubSubAssumption DEF IdleCheck, IdleRun
    <2>2. \A s \in Subscriptions : chain[s] = <<>>
      BY DEF Init
    <2>3. Distinct(<<>>)
      BY DEF Distinct
    <2> QED
      BY <2>1, <2>2, <2>3, PubSubAssumption DEF Init, Bounded
  <1>2. ASSUME PubSubInv, Bounded PROVE TypeOK
    <2>1. \A m \in Messages, k \in Slots : run[m][k].at \in 0..Cardinality(Handlers)
      <3> SUFFICES ASSUME NEW m \in Messages, NEW k \in Slots
                   PROVE  run[m][k].at \in 0..Cardinality(Handlers)
        OBVIOUS
      <3>1. run[m][k] \in Runs /\ Going(m, run[m][k]) /\ SubOf[m] \in Subscriptions
        BY <1>2, PubSubAssumption DEF PubSubInv, Typed, HandledInOrder
      <3>2. chain[SubOf[m]] \in Seq(Handlers) /\ Distinct(chain[SubOf[m]])
        BY <1>2, <3>1 DEF PubSubInv, Typed, Bounded
      <3>3. Len(chain[SubOf[m]]) <= Cardinality(Handlers) /\ Cardinality(Handlers) \in Nat
        BY <3>2, ChainFits
      <3>4. Len(chain[SubOf[m]]) \in Nat
        BY <3>2
      <3>5. CASE run[m][k].pc = "handling"
        <4>1. run[m][k].at \in 1..Len(chain[SubOf[m]])
          BY <3>1, <3>5 DEF Going
        <4> QED
          BY <3>3, <3>4, <4>1
      <3>6. CASE run[m][k].pc = "idle"
        <4>1. run[m][k].at = 0
          BY <1>2, <3>6 DEF Bounded
        <4> QED
          BY <3>3, <4>1
      <3> QED
        BY <3>1, <3>5, <3>6 DEF Runs
    <2>2. run \in [Messages -> [Slots -> [pc : {"idle", "handling"}, at : 0..Cardinality(Handlers),
                                         hasError : BOOLEAN, ok : SUBSET Handlers]]]
      BY <1>2, <2>1 DEF PubSubInv, Typed, Runs
    <2>3. check \in [Resources -> [step : {"idle", "exists", "permissions", "ok", "failed"},
                                   attempt : 1..MaxAttempts, waiting : BOOLEAN]]
      BY <1>2 DEF PubSubInv, Typed, Checks, Bounded
    <2> QED
      BY <1>2, <2>2, <2>3 DEF PubSubInv, Typed, Bounded, TypeOK
  <1> QED
    BY <1>1, <1>2, InitKeeps, NextKeeps, BoundedNext, PTL DEF Spec
=============================================================================
