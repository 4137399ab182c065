---------------------------- MODULE GracefulStop ----------------------------
(***************************************************************************)
(* What Server.init() and Server.shutdown() promise together, with nothing *)
(* said of how: resources are acquired before the process serves anyone,   *)
(* they are given back only once it has stopped accepting clients and has  *)
(* none left, and it ends "clean" only when it holds nothing any more.  It *)
(* may also end early ("aborted") in any state.                            *)
(* ServerLifecycle implements this under the signal-only use of the server.*)
(***************************************************************************)

CONSTANTS Clients,    \* HTTP requests and WebSocket connections
          Resources   \* what the LifecycleController shuts down

VARIABLES phase,      \* "starting", "serving", "draining", "ended"
          active,     \* the clients being served
          held,       \* the resources acquired and not given back
          outcome     \* "none", "clean", "aborted"

gsVars == <<phase, active, held, outcome>>

Init == /\ phase = "starting"
        /\ active = {}
        /\ held = {}
        /\ outcome = "none"

Acquire(r) == /\ phase = "starting"
              /\ held' = held \cup {r}
              /\ UNCHANGED <<phase, active, outcome>>

Open == /\ phase = "starting"
        /\ phase' = "serving"
        /\ UNCHANGED <<active, held, outcome>>

Accept(c) == /\ phase = "serving"
             /\ active' = active \cup {c}
             /\ UNCHANGED <<phase, held, outcome>>

Leave(c) == /\ c \in active
            /\ phase # "ended"
            /\ active' = active \ {c}
            /\ UNCHANGED <<phase, held, outcome>>

Drain == /\ phase = "serving"
         /\ phase' = "draining"
         /\ UNCHANGED <<active, held, outcome>>

Release(r) == /\ phase = "draining"
              /\ active = {}
              /\ held' = held \ {r}
              /\ UNCHANGED <<phase, active, outcome>>

EndClean == /\ phase = "draining"
            /\ active = {}
            /\ held = {}
            /\ phase' = "ended"
            /\ outcome' = "clean"
            /\ UNCHANGED <<active, held>>

Abort == /\ phase # "ended"
         /\ phase' = "ended"
         /\ outcome' = "aborted"
         /\ UNCHANGED <<active, held>>

Next == \/ \E r \in Resources : Acquire(r) \/ Release(r)
        \/ \E c \in Clients : Accept(c) \/ Leave(c)
        \/ Open \/ Drain \/ EndClean \/ Abort

Spec == Init /\ [][Next]_gsVars
=============================================================================
