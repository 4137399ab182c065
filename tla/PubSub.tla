------------------------------- MODULE PubSub -------------------------------
(***************************************************************************)
(* The PubSub singleton (PubSub.ts, handleMessage.ts): registration of     *)
(* publishers and subscribers, init() with its validation and retries,     *)
(* message handling, publishing, shutdown(), and a process that crashes    *)
(* and starts over.                                                        *)
(*                                                                         *)
(* External, after the use of @google-cloud/pubsub: a subscription leases  *)
(* each message to one delivery at a time and delivers it again when the   *)
(* lease is nacked, expires, or is dropped with the stream; an ack reaches *)
(* the broker only while the stream is open; published messages wait in a  *)
(* batch until a timer or flush() sends them.  README.md requires the host *)
(* to register before init(), and Server.init calls init() once.           *)
(***************************************************************************)
EXTENDS Naturals, Sequences, FiniteSets

CONSTANTS
    Topics, Subscriptions,
    Handlers,        \* each registered at most once on one subscription
    Options,         \* the <<first, isDebezium>> the host uses
    Messages,        \* messages to consume
    SubOf,           \* [Messages -> Subscriptions]
    Kind,            \* [Messages -> {"json", "noDiff", "garbage"}]
    Slots,           \* bound: deliveries of a message handled at once
    NoSlot,          \* no delivery holds the lease
    Outgoing,        \* messages to publish, all to topic TopicOf
    TopicOf,         \* [Outgoing -> Topics]
    MaxAttempts,     \* PUBSUB_INIT_MAX_ATTEMPTS
    SkipValidation,  \* PUBSUB_SKIP_VALIDATION
    MaxFaults        \* bound: errors of handlers and of shutdown(), lost leases, crashes

Resources == Topics \cup Subscriptions

ASSUME PubSubAssumption ==
    /\ Topics \cap Subscriptions = {}
    /\ SubOf \in [Messages -> Subscriptions]
    /\ Kind \in [Messages -> {"json", "noDiff", "garbage"}]
    /\ TopicOf \in [Outgoing -> Topics]
    /\ Options \subseteq BOOLEAN \X BOOLEAN
    /\ NoSlot \notin Slots /\ IsFiniteSet(Handlers)
    /\ MaxAttempts \in Nat \ {0} /\ MaxFaults \in Nat
    /\ SkipValidation \in BOOLEAN

VARIABLES
    phase,      \* "new", "validating", "consuming", "failed", "closing",
                \* "cleared", "closed", "down"; shutdown() rejected with the
                \* maps as they were ("stopFailed") or emptied ("unclosed")
    topics,     \* the keys of topics
    chain,      \* subscriptions[s].handlers, <<>> when s is not a key
    debezium,   \* subscriptions[s].isDebezium
    check,      \* validation of each resource
    open,       \* subscriptions whose message stream is consumed
    closing,    \* resources whose flush() or close() shutdown awaits
    lease,      \* the delivery the broker has leased each message to
    acked,      \* messages the broker will not deliver again
    run,        \* handleMessage for each delivery
    handled,    \* history: messages all handlers succeeded with at once
    pub,        \* state of the outgoing messages
    owed,       \* history: accepted when the shutdown() under way was called,
                \* not sent
    faults

regVars  == <<topics, chain, debezium>>
subVars  == <<lease, acked, run, handled>>
pubVars  == <<pub, owed>>
vars == <<phase, regVars, check, open, closing, subVars, pubVars, faults>>

IdleCheck == [step |-> "idle", attempt |-> 1, waiting |-> FALSE]
IdleRun   == [pc |-> "idle", at |-> 0, hasError |-> FALSE, ok |-> {}]

TypeOK ==
    /\ phase \in {"new", "validating", "consuming", "failed", "closing",
                  "cleared", "closed", "stopFailed", "unclosed", "down"}
    /\ topics \subseteq Topics
    /\ chain \in [Subscriptions -> Seq(Handlers)]
    /\ debezium \in [Subscriptions -> BOOLEAN]
    /\ check \in [Resources -> [step : {"idle", "exists", "permissions", "ok", "failed"},
                                attempt : 1..MaxAttempts, waiting : BOOLEAN]]
    /\ open \subseteq Subscriptions /\ closing \subseteq Resources
    /\ lease \in [Messages -> Slots \cup {NoSlot}]
    /\ acked \subseteq Messages /\ handled \subseteq Messages
    /\ run \in [Messages -> [Slots ->
                  [pc : {"idle", "handling"}, at : 0..Cardinality(Handlers),
                   hasError : BOOLEAN, ok : SUBSET Handlers]]]
    /\ pub \in [Outgoing -> {"new", "batched", "sent", "refused", "lost"}]
    /\ owed \subseteq Outgoing
    /\ faults \in 0..MaxFaults

Init ==
    /\ phase = "new" /\ topics = {}
    /\ chain = [s \in Subscriptions |-> <<>>]
    /\ debezium = [s \in Subscriptions |-> FALSE]
    /\ check = [r \in Resources |-> IdleCheck]
    /\ open = {} /\ closing = {}
    /\ lease = [m \in Messages |-> NoSlot] /\ acked = {}
    /\ run = [m \in Messages |-> [k \in Slots |-> IdleRun]] /\ handled = {}
    /\ pub = [p \in Outgoing |-> "new"] /\ owed = {} /\ faults = 0

Declared == {s \in Subscriptions : chain[s] # <<>>}
Listed(h) == \E s \in Subscriptions : \E i \in DOMAIN chain[s] : chain[s][i] = h
MayFail == faults < MaxFaults /\ faults' = faults + 1

-----------------------------------------------------------------------------
(* Registration *)

AddPublisher(t) ==
    /\ phase = "new"
    /\ topics' = topics \cup {t}
    /\ UNCHANGED <<phase, chain, debezium, check, open, closing,
                   subVars, pubVars, faults>>

\* As in the code: first appends, and the default prepends.
AddSubscriber(s, h, first, isDebezium) ==
    /\ phase = "new" /\ ~Listed(h)
    /\ chain' = [chain EXCEPT ![s] = IF first THEN Append(@, h) ELSE <<h>> \o @]
    /\ debezium' = [debezium EXCEPT ![s] = @ \/ isDebezium]
    /\ UNCHANGED <<phase, topics, check, open, closing, subVars, pubVars, faults>>

-----------------------------------------------------------------------------
(* init() *)

\* After a crash the next process registers the same handlers first.
StartInit ==
    /\ phase \in {"new", "down"}
    /\ phase' = "validating"
    /\ check' = [r \in Resources |->
                   IF r \in topics \cup Declared /\ ~SkipValidation
                   THEN [IdleCheck EXCEPT !.step = "exists"] ELSE IdleCheck]
    /\ UNCHANGED <<regVars, open, closing, subVars, pubVars, faults>>

Checking(r) == check[r].step \in {"exists", "permissions"}

\* A call resolves: on to the permissions, which get attempts of their own.
CheckPasses(r) ==
    /\ Checking(r) /\ ~check[r].waiting
    /\ check' = [check EXCEPT ![r] = [IdleCheck EXCEPT !.step =
                   IF check[r].step = "exists" THEN "permissions" ELSE "ok"]]
    /\ UNCHANGED <<phase, regVars, open, closing, subVars, pubVars, faults>>

\* The resource or the permission is missing, or the error is final; the
\* first failure rejects init(), the other validations run on.
CheckFails(r) ==
    /\ Checking(r) /\ ~check[r].waiting
    /\ check' = [check EXCEPT ![r].step = "failed"]
    /\ phase' = IF phase = "validating" THEN "failed" ELSE phase
    /\ UNCHANGED <<regVars, open, closing, subVars, pubVars, faults>>

\* withRetry: a retryable error, and attempts are left.
CheckErrs(r) ==
    /\ Checking(r) /\ ~check[r].waiting
    /\ check[r].attempt < MaxAttempts
    /\ check' = [check EXCEPT ![r].attempt = @ + 1, ![r].waiting = TRUE]
    /\ UNCHANGED <<phase, regVars, open, closing, subVars, pubVars, faults>>

CheckAgain(r) ==
    /\ Checking(r) /\ check[r].waiting
    /\ check' = [check EXCEPT ![r].waiting = FALSE]
    /\ UNCHANGED <<phase, regVars, open, closing, subVars, pubVars, faults>>

\* Mutant: the validations are started but not awaited.
InitUnawaited ==
    /\ phase = "validating"
    /\ phase' = "consuming" /\ open' = Declared
    /\ UNCHANGED <<regVars, check, closing, subVars, pubVars, faults>>

InitDone ==
    /\ phase = "validating"
    /\ \A r \in Resources : check[r].step \in {"idle", "ok"}
    /\ phase' = "consuming" /\ open' = Declared
    /\ UNCHANGED <<regVars, check, closing, subVars, pubVars, faults>>

-----------------------------------------------------------------------------
(* handleMessage *)

Malformed(m) == \/ Kind[m] = "garbage"
                \/ Kind[m] = "noDiff" /\ debezium[SubOf[m]]

\* The broker takes an ack of the leased delivery; of a delivery whose lease
\* is gone it may take it or not.
Ack(m, k) ==
    \/ SubOf[m] \in open /\ acked' = acked \cup {m}
       /\ lease' = [lease EXCEPT ![m] = NoSlot]
    \/ (SubOf[m] \notin open \/ lease[m] # k) /\ UNCHANGED <<acked, lease>>

Nack(m, k) == /\ lease' = [lease EXCEPT ![m] = IF @ = k THEN NoSlot ELSE @]
              /\ UNCHANGED acked

\* A message is delivered and parsed; one that cannot be is acknowledged.
Deliver(m, k) ==
    /\ SubOf[m] \in open /\ m \notin acked
    /\ lease[m] = NoSlot /\ run[m][k].pc = "idle"
    /\ \/ /\ Malformed(m)
          /\ acked' = acked \cup {m}
          /\ UNCHANGED <<lease, run>>
       \/ /\ ~Malformed(m)
          /\ lease' = [lease EXCEPT ![m] = k]
          /\ run' = [run EXCEPT ![m][k] = [IdleRun EXCEPT !.pc = "handling", !.at = 1]]
          /\ UNCHANGED acked
    /\ UNCHANGED <<phase, regVars, check, open, closing, handled, pubVars, faults>>

HandlerAt(m, k) == chain[SubOf[m]][run[m][k].at]

\* Mutant: the loop counter runs past the last handler.
AfterTooFar(m, k, r) ==
    IF r.at < Len(chain[SubOf[m]])
    THEN /\ run' = [run EXCEPT ![m][k] = [r EXCEPT !.at = @ + 1]]
         /\ UNCHANGED <<lease, acked, handled>>
    ELSE /\ run' = [run EXCEPT ![m][k] = [r EXCEPT !.at = @ + 1, !.pc = "idle"]]
         /\ UNCHANGED <<lease, acked, handled>>

\* Handler r.at of the chain ended with error or not: go on, or settle the
\* message after the last one.
After(m, k, r) ==
    IF r.at < Len(chain[SubOf[m]])
    THEN /\ run' = [run EXCEPT ![m][k] = [r EXCEPT !.at = @ + 1]]
         /\ UNCHANGED <<lease, acked, handled>>
    ELSE /\ run' = [run EXCEPT ![m][k] = IdleRun]
         /\ IF r.hasError THEN Nack(m, k) ELSE Ack(m, k)
         /\ handled' = IF \A i \in DOMAIN chain[SubOf[m]] : chain[SubOf[m]][i] \in r.ok
                       THEN handled \cup {m} ELSE handled

\* Mutant: the outcome of the last handler decides.
LastOutcome(m, k) ==
    /\ run[m][k].pc = "handling"
    /\ After(m, k, [run[m][k] EXCEPT !.ok = @ \cup {HandlerAt(m, k)}, !.hasError = FALSE])
    /\ UNCHANGED <<phase, regVars, check, open, closing, pubVars, faults>>

HandlerSucceeds(m, k) ==
    /\ run[m][k].pc = "handling"
    /\ After(m, k, [run[m][k] EXCEPT !.ok = @ \cup {HandlerAt(m, k)}])
    /\ UNCHANGED <<phase, regVars, check, open, closing, pubVars, faults>>

\* Mutant: an error ends the loop, and nothing is said to the broker.
HandlerThrows(m, k) ==
    /\ run[m][k].pc = "handling" /\ MayFail
    /\ run' = [run EXCEPT ![m][k] = IdleRun]
    /\ UNCHANGED <<phase, regVars, check, open, closing, lease, acked, handled, pubVars>>

HandlerFails(m, k) ==
    /\ run[m][k].pc = "handling" /\ MayFail
    /\ After(m, k, [run[m][k] EXCEPT !.hasError = TRUE])
    /\ UNCHANGED <<phase, regVars, check, open, closing, pubVars>>

LeaseExpires(m) ==
    /\ lease[m] # NoSlot /\ MayFail
    /\ lease' = [lease EXCEPT ![m] = NoSlot]
    /\ UNCHANGED <<phase, regVars, check, open, closing, acked, run, handled, pubVars>>

-----------------------------------------------------------------------------
(* publish() *)

Publish(p) ==
    /\ phase # "down" /\ pub[p] = "new"
    /\ pub' = [pub EXCEPT ![p] = IF TopicOf[p] \in topics THEN "batched" ELSE "refused"]
    /\ UNCHANGED <<phase, regVars, check, open, closing, subVars, owed, faults>>

Sent(t) == [p \in Outgoing |->
              IF TopicOf[p] = t /\ pub[p] = "batched" THEN "sent" ELSE pub[p]]

BatchTimer(t) ==
    /\ phase \notin {"down", "closed"}
    /\ pub' = Sent(t) /\ pub' # pub
    /\ owed' = {p \in owed : pub'[p] = "batched"}
    /\ UNCHANGED <<phase, regVars, check, open, closing, subVars, faults>>

-----------------------------------------------------------------------------
(* shutdown(), called by the LifecycleController once init() is through *)

StartShutdown ==
    /\ phase = "consuming"
    /\ phase' = "closing"
    /\ closing' = topics \cup Declared
    /\ owed' = {p \in Outgoing : pub[p] = "batched"}
    /\ UNCHANGED <<regVars, check, open, subVars, pub, faults>>

\* A call that has rejected stops none of the others.
Awaits(r) == phase \in {"closing", "stopFailed"} /\ r \in closing

TopicFlushed(t) ==
    /\ Awaits(t)
    /\ pub' = Sent(t)
    /\ owed' = {p \in owed : pub'[p] = "batched"}
    /\ closing' = closing \ {t}
    /\ UNCHANGED <<phase, regVars, check, open, subVars, faults>>

\* The stream ends: what it has leased will be delivered elsewhere or later.
StreamEnds(s) ==
    /\ open' = open \ {s}
    /\ lease' = [m \in Messages |-> IF SubOf[m] = s THEN NoSlot ELSE lease[m]]

SubscriptionClosed(s) ==
    /\ Awaits(s)
    /\ closing' = closing \ {s}
    /\ StreamEnds(s)
    /\ UNCHANGED <<phase, regVars, check, acked, run, handled, pubVars, faults>>

\* The first rejection rejects shutdown(): the maps keep their keys and the
\* client stays open.
Rejects(r) ==
    /\ Awaits(r) /\ MayFail
    /\ phase' = "stopFailed" /\ closing' = closing \ {r} /\ owed' = {}
    /\ UNCHANGED <<regVars, check, acked, run, handled>>

\* flush() rejects: some of its messages are sent, the others lost.
FlushFails(t) ==
    /\ Rejects(t)
    /\ \E sent \in SUBSET {p \in Outgoing : TopicOf[p] = t /\ pub[p] = "batched"} :
           pub' = [p \in Outgoing |-> IF p \in sent THEN "sent"
                                     ELSE IF TopicOf[p] = t /\ pub[p] = "batched"
                                     THEN "lost" ELSE pub[p]]
    /\ UNCHANGED <<open, lease>>

\* close() rejects, after the end of the stream or without it.
CloseFails(s) ==
    /\ Rejects(s)
    /\ StreamEnds(s) \/ UNCHANGED <<open, lease>>
    /\ UNCHANGED pub

\* Mutant: flush() and close() are not awaited.
ClearUnawaited ==
    /\ phase = "closing"
    /\ phase' = "cleared" /\ topics' = {} /\ closing' = {}
    /\ UNCHANGED <<chain, debezium, check, open, subVars, pubVars, faults>>

\* The maps are emptied; loops that still run keep their list of handlers.
Clear ==
    /\ phase = "closing" /\ closing = {}
    /\ phase' = "cleared" /\ topics' = {}
    /\ UNCHANGED <<chain, debezium, check, open, closing, subVars, pubVars, faults>>

\* pubSubClient.close(): what is still batched is lost.
ClientClosed ==
    /\ phase = "cleared"
    /\ phase' = "closed"
    /\ pub' = [p \in Outgoing |-> IF pub[p] = "batched" THEN "lost" ELSE pub[p]]
    /\ UNCHANGED <<regVars, check, open, closing, subVars, owed, faults>>

\* pubSubClient.close() rejects, with the maps emptied.
ClientCloseFails ==
    /\ phase = "cleared" /\ MayFail
    /\ phase' = "unclosed"
    /\ UNCHANGED <<regVars, check, open, closing, subVars, pubVars>>

\* The process ends before its maps are emptied; what was in memory is gone.
Crash ==
    /\ phase \in {"validating", "consuming", "failed", "closing", "stopFailed"} /\ MayFail
    /\ phase' = "down" /\ open' = {} /\ closing' = {}
    /\ check' = [r \in Resources |-> IdleCheck]
    /\ lease' = [m \in Messages |-> NoSlot]
    /\ run' = [m \in Messages |-> [k \in Slots |-> IdleRun]]
    /\ pub' = [p \in Outgoing |-> IF pub[p] = "batched" THEN "lost" ELSE pub[p]]
    /\ owed' = {}
    /\ UNCHANGED <<regVars, acked, handled>>

Register == \/ \E t \in Topics : AddPublisher(t)
            \/ \E s \in Subscriptions, h \in Handlers, o \in Options :
                   AddSubscriber(s, h, o[1], o[2])

Validate(r) == CheckPasses(r) \/ CheckFails(r) \/ CheckErrs(r) \/ CheckAgain(r)

Handling(m, k) == HandlerSucceeds(m, k) \/ HandlerFails(m, k)

Next ==
    \/ Register \/ StartInit \/ InitDone
    \/ \E r \in Resources : Validate(r)
    \/ \E m \in Messages, k \in Slots : Deliver(m, k) \/ Handling(m, k)
    \/ \E m \in Messages : LeaseExpires(m)
    \/ \E p \in Outgoing : Publish(p)
    \/ \E t \in Topics : BatchTimer(t) \/ TopicFlushed(t) \/ FlushFails(t)
    \/ \E s \in Subscriptions : SubscriptionClosed(s) \/ CloseFails(s)
    \/ StartShutdown \/ Clear \/ ClientClosed \/ ClientCloseFails \/ Crash

Spec == Init /\ [][Next]_vars

\* Calls to Google Cloud return, handlers end, the broker delivers.
Fairness ==
    /\ WF_vars(StartInit) /\ WF_vars(InitDone)
    /\ \A r \in Resources : WF_vars(Validate(r))
    /\ \A m \in Messages : WF_vars(\E k \in Slots : Deliver(m, k))
    /\ \A m \in Messages, k \in Slots : WF_vars(Handling(m, k))

FairSpec == Spec /\ Fairness

-----------------------------------------------------------------------------
(* Properties *)

\* PubSub.ts:179: no message is consumed before every declared topic and
\* subscription exists and is permitted, and none after a failed check.
ConsumesOnlyValidated ==
    open # {} /\ ~SkipValidation =>
        \A r \in topics \cup Declared : check[r].step = "ok"

\* README.md:1120: what was accepted before shutdown() was called has been
\* sent when the client is closed.
FlushedBeforeClose == phase = "closed" => owed = {}

\* README.md:1127: while the process goes on consuming, every message is
\* acknowledged in the end, if errors, lost leases and crashes are finite.
EventuallyAcked ==
    \A m \in Messages :
        SubOf[m] \in open ~> (m \in acked \/ SubOf[m] \notin open)

\* README.md:1127: no message is acknowledged that a handler failed on,
\* across redeliveries, lost acks, shutdown and crashes.
ALO == INSTANCE AtLeastOnce WITH
         left <- Messages \ acked, processed <- handled,
         refused <- {m \in acked : Malformed(m)}

Reliable == ALO!Spec
=============================================================================
