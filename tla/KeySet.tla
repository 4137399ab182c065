------------------------------- MODULE KeySet -------------------------------
(***************************************************************************)
(* The keys that JWTs are verified with: KeySet.ts, started and stopped by *)
(* initKeySets() and shutdownKeySets() of jwt.ts, with the retries of      *)
(* request.ts.                                                             *)
(*                                                                         *)
(* A key set is the set of its key ids.  The key server (or the host, for  *)
(* a file) is external and publishes the sets of Published one after the   *)
(* other.  A fetch of the network has no timeout, so the next tick of the  *)
(* interval may start another one before it has ended.  A file is read     *)
(* synchronously.  Key sets given as a PEM string never change and are     *)
(* left out, as initKeySets() makes none.                                  *)
(***************************************************************************)
EXTENDS Naturals, Sequences

CONSTANTS
    Keys,       \* the ids of all keys
    Published,  \* the key sets in the order in which they are published
    Sources,    \* where the set may come from: "network", "file"
    Fetches,    \* bound: fetches under way at once
    MaxTries,   \* attempts of request(), 5 in the code
    MaxFaults   \* bound: requests that fail, answers and files that are no key set

ASSUME KeySetAssumption ==
    /\ Published \in Seq(SUBSET Keys) /\ Published # <<>>
    /\ Sources \subseteq {"network", "file"}
    /\ MaxTries \in Nat \ {0} /\ MaxFaults \in Nat

VARIABLES
    source,    \* where this key set is fetched from
    served,    \* which of Published the source holds
    keySet,    \* the keys known to the process
    fetch,     \* the fetches under way; since is what was served when one began,
               \* 0 once another overlaps it
    initPc,    \* how far initKeySets() is
    interval,  \* the refresh timer
    floor,     \* history: what was served when the last refresh began that
               \* succeeded and that no other fetch overlapped
    faults

keyVars == <<source, served, keySet, fetch, initPc, interval, floor, faults>>

NoFetch == [pc |-> "none", tries |-> 0, got |-> 0, since |-> 0, init |-> FALSE]

KeyTypeOK ==
    /\ source \in Sources /\ served \in 1..Len(Published)
    /\ keySet \in SUBSET Keys
    /\ fetch \in [Fetches ->
         [pc : {"none", "request", "answered"}, tries : 0..MaxTries,
          got : 0..Len(Published), since : 0..Len(Published), init : BOOLEAN]]
    /\ initPc \in {"none", "fetching", "done", "failed"}
    /\ interval \in {"unset", "armed", "cleared"}
    /\ initPc \in {"none", "fetching"} => keySet = {} /\ interval = "unset"
    /\ floor \in 0..served /\ faults \in 0..MaxFaults

KeyInit ==
    /\ source \in Sources /\ served = 1 /\ keySet = {}
    /\ fetch = [f \in Fetches |-> NoFetch]
    /\ initPc = "none" /\ interval = "unset" /\ floor = 0 /\ faults = 0

Fault == faults < MaxFaults /\ faults' = faults + 1
Pending(f) == fetch[f].pc # "none"

-----------------------------------------------------------------------------
(* A fetch over the network *)

StartFetch(f, init) ==
    /\ ~Pending(f)
    /\ fetch' = [g \in Fetches |->
         IF g = f
         THEN [NoFetch EXCEPT !.pc = "request", !.tries = 1, !.init = init,
                 !.since = IF \E h \in Fetches : Pending(h) THEN 0 ELSE served]
         ELSE [fetch[g] EXCEPT !.since = 0]]

\* Mutant: a refresh that fails ends the interval.
SettleOnce(f, ok) ==
    /\ fetch' = [fetch EXCEPT ![f] = NoFetch]
    /\ initPc' = IF fetch[f].init THEN (IF ok THEN "done" ELSE "failed") ELSE initPc
    /\ interval' = IF ~ok THEN "unset" ELSE IF fetch[f].init THEN "armed" ELSE interval

\* The promise of fetch() settles.  init() goes on to the timer if it has
\* resolved; the error of a refresh is only reported.
Settle(f, ok) ==
    /\ fetch' = [fetch EXCEPT ![f] = NoFetch]
    /\ IF fetch[f].init
       THEN /\ initPc' = IF ok THEN "done" ELSE "failed"
            /\ interval' = IF ok THEN "armed" ELSE interval
       ELSE UNCHANGED <<initPc, interval>>

\* The key server answers with what it serves now, or with no key set.
Serve(f) ==
    /\ fetch[f].pc = "request"
    /\ \/ /\ fetch' = [fetch EXCEPT ![f].pc = "answered", ![f].got = served]
          /\ UNCHANGED faults
       \/ /\ Fault
          /\ fetch' = [fetch EXCEPT ![f].pc = "answered"]
    /\ UNCHANGED <<source, served, keySet, initPc, interval, floor>>

\* The connection fails: request() tries again, or has tried often enough.
\* Any other error (an answer that is no 200) is not tried again.
ConnectionFails(f) ==
    /\ fetch[f].pc = "request" /\ Fault
    /\ \/ /\ fetch[f].tries < MaxTries
          /\ fetch' = [fetch EXCEPT ![f].tries = @ + 1]
          /\ UNCHANGED <<initPc, interval>>
       \/ fetch[f].tries = MaxTries /\ Settle(f, FALSE)
    /\ UNCHANGED <<source, served, keySet, floor>>

RequestRefused(f) ==
    /\ fetch[f].pc = "request" /\ Fault
    /\ Settle(f, FALSE)
    /\ UNCHANGED <<source, served, keySet, floor>>

\* Mutant: the keys are added to those that are known.
StoreMerged(f) ==
    /\ fetch[f].pc = "answered"
    /\ IF fetch[f].got # 0
       THEN /\ keySet' = keySet \cup Published[fetch[f].got]
            /\ floor' = IF fetch[f].since # 0 THEN fetch[f].since ELSE floor
       ELSE UNCHANGED <<keySet, floor>>
    /\ Settle(f, fetch[f].got # 0)
    /\ UNCHANGED <<source, served, faults>>

\* The answer replaces the known keys, however old it is; an answer of
\* another form throws and leaves them.
Store(f) ==
    /\ fetch[f].pc = "answered"
    /\ IF fetch[f].got # 0
       THEN /\ keySet' = Published[fetch[f].got]
            /\ floor' = IF fetch[f].since # 0 THEN fetch[f].since ELSE floor
       ELSE UNCHANGED <<keySet, floor>>
    /\ Settle(f, fetch[f].got # 0)
    /\ UNCHANGED <<source, served, faults>>

-----------------------------------------------------------------------------
(* initKeySets(), the interval, shutdownKeySets() *)

\* The file is read and stored in one go, or is no key set.
ReadFile(ok) ==
    /\ IF ok THEN keySet' = Published[served] /\ floor' = served /\ UNCHANGED faults
             ELSE Fault /\ UNCHANGED <<keySet, floor>>
    /\ UNCHANGED fetch

InitKeySets(f) ==
    /\ initPc = "none"
    /\ \/ /\ source = "network"
          /\ StartFetch(f, TRUE)
          /\ initPc' = "fetching"
          /\ UNCHANGED <<keySet, interval, floor, faults>>
       \/ /\ source = "file"
          /\ \E ok \in BOOLEAN :
               /\ ReadFile(ok)
               /\ initPc' = IF ok THEN "done" ELSE "failed"
               /\ interval' = IF ok THEN "armed" ELSE interval
    /\ UNCHANGED <<source, served>>

Refresh(f) ==
    /\ interval = "armed"
    /\ \/ /\ source = "network"
          /\ StartFetch(f, FALSE)
          /\ UNCHANGED <<keySet, floor, faults>>
       \/ /\ source = "file"
          /\ \E ok \in BOOLEAN : ReadFile(ok)
    /\ UNCHANGED <<source, served, initPc, interval>>

ShutdownKeySets ==
    /\ interval = "armed"
    /\ interval' = "cleared"
    /\ UNCHANGED <<source, served, keySet, fetch, initPc, floor, faults>>

\* External: the next key set is published.
Publish ==
    /\ served < Len(Published)
    /\ served' = served + 1
    /\ UNCHANGED <<source, keySet, fetch, initPc, interval, floor, faults>>

KeyNext ==
    \/ \E f \in Fetches :
         \/ InitKeySets(f) \/ Refresh(f) \/ Serve(f) \/ ConnectionFails(f)
         \/ RequestRefused(f) \/ Store(f)
    \/ ShutdownKeySets \/ Publish

\* The timer goes off again and again.  That a request of the network ends is an
\* assumption on the key server: request() sets no timeout.
KeyFairness ==
    /\ WF_keyVars(\E f \in Fetches : Refresh(f))
    /\ \A f \in Fetches : WF_keyVars(Serve(f)) /\ WF_keyVars(Store(f))

=============================================================================
