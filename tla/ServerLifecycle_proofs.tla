------------------------ MODULE ServerLifecycle_proofs ------------------------
(***************************************************************************)
(* Proofs about ServerLifecycle, for any callbacks, instances, connections,*)
(* jobs and signals.  TypeOK holds in every use of the server.  When only  *)
(* the signal handler calls shutdown(), nothing is released while a client *)
(* is served, a clean exit has released everything, and the server         *)
(* implements GracefulStop.  With sync callbacks, a shutdown() that        *)
(* resolves leaves no instance running, whoever calls it and how often.    *)
(***************************************************************************)
EXTENDS ServerLifecycle, TLAPS

\* Everything an action leaves unchanged is named by one of these tuples.
LEMMA TypeInit == Init => TypeOK
<1> SUFFICES ASSUME Init PROVE TypeOK
  OBVIOUS
<1> USE DEF Init, CallbackStates
<1>1. [c \in ShutdownSet |-> "idle"] \in [ShutdownSet -> CallbackStates]
  OBVIOUS
<1>2. cbStop \in [Threads -> [ShutdownSet -> CallbackStates]]
  BY <1>1
<1>3. waits \in [Threads -> SUBSET Http] /\ pending \in [Threads -> SUBSET Instances]
  OBVIOUS
<1>4. QED
  BY <1>2, <1>3 DEF TypeOK, InitStages, StopStages

LEMMA TypeStep == TypeOK /\ [Next]_vars => TypeOK'
<1> SUFFICES ASSUME TypeOK, [Next]_vars PROVE TypeOK'
  OBVIOUS
<1> USE LifecycleAssumption DEF TypeOK, InitStages, StopStages, CallbackStates,
      startVars, netVars, entVars, jobVars, sigVars, stopVars, procVars
<1>0. [c \in ShutdownSet |-> "pending"] \in [ShutdownSet -> CallbackStates]
  OBVIOUS
<1>1. CASE StartInit
  <2>1. initPc' \in InitStages /\ cbInit' \in [InitSet -> CallbackStates]
    BY <1>1 DEF StartInit, Proceed, AfterSecrets
  <2>2. /\ registered' \subseteq Instances
        /\ instance' \in [Instances -> {"absent", "running", "stopping",
                                        "stopped", "failed"}]
        /\ \A i \in registered' : instance'[i] # "absent"
    <3>0. SecretManager \in Instances
      BY DEF Instances
    <3>1. CASE UseSecretManager
      <4>1. /\ registered' = registered \cup {SecretManager}
            /\ instance' = [instance EXCEPT ![SecretManager] = "running"]
        BY <1>1, <3>1 DEF StartInit, Register
      <4>2. QED
        BY <3>0, <4>1
    <3>2. CASE ~UseSecretManager
      BY <1>1, <3>2 DEF StartInit
    <3>3. QED
      BY <3>1, <3>2
  <2>3. QED
    BY <1>1, <2>1, <2>2 DEF StartInit
<1>2. CASE SecretsLoaded
  BY <1>2 DEF SecretsLoaded, Proceed, AfterSecrets
<1>3. CASE KeysFetched
  BY <1>3 DEF KeysFetched, Proceed
<1>4. CASE InitStepFails
  BY <1>4 DEF InitStepFails
<1>5. ASSUME NEW c \in InitSet, InitCallbackDone(c)
       PROVE TypeOK'
  BY <1>5 DEF InitCallbackDone, Register, Instances
<1>6. ASSUME NEW c \in InitSet, InitCallbackFails(c)
       PROVE TypeOK'
  BY <1>6 DEF InitCallbackFails
<1>7. CASE InitCallbacksDone
  BY <1>7 DEF InitCallbacksDone, Proceed
<1>8. CASE PubSubReady
  BY <1>8 DEF PubSubReady, Proceed, Register, Instances
<1>9. ASSUME NEW bound \in SUBSET Http, StartListening(bound)
       PROVE TypeOK'
  <2>1. watchers' \in BOOLEAN /\ handlers' \in BOOLEAN /\ dying' \in BOOLEAN
    BY <1>9 DEF StartListening
  <2>2. initPc' \in InitStages /\ listening' \in [Http -> BOOLEAN]
    BY <1>9 DEF StartListening
  <2>3. job' \in [Jobs -> {"none", "running", "waiting", "ended", "failed"}]
    BY <1>9 DEF StartListening
  <2>4. QED
    BY <1>9, <2>1, <2>2, <2>3 DEF StartListening
<1>10. ASSUME NEW x \in Conns, Connect(x)
       PROVE TypeOK'
  BY <1>10 DEF Connect
<1>11. ASSUME NEW x \in Conns, RequestServed(x) \/ RequestAgain(x) \/ ClientCloses(x) \/ ConnectionCloses(x)
       PROVE TypeOK'
  BY <1>11 DEF RequestServed, RequestAgain, ClientCloses, ConnectionCloses, Becomes
<1>12. ASSUME NEW j \in Jobs, JobFinished(j) \/ JobAgain(j) \/ JobFailed(j)
       PROVE TypeOK'
  <2>1. PICK to \in {"waiting", "ended", "running", "failed"} :
             \E from \in {"running", "waiting"} : JobStep(j, from, to)
    BY <1>12 DEF JobFinished, JobAgain, JobFailed
  <2>2. QED
    BY <2>1 DEF JobStep
<1>13. ASSUME NEW t \in Threads, HttpClosed(t)
       PROVE TypeOK'
  <2>1. CASE UseWebSocket
    BY <1>13, <2>1 DEF HttpClosed
  <2>2. CASE ~UseWebSocket
    <3>1. /\ stop' = [stop EXCEPT ![t] = "callbacks"]
          /\ cbStop' = [cbStop EXCEPT ![t] = [c \in ShutdownSet |-> "pending"]]
          /\ UNCHANGED <<waits, pending, conn, startVars, listening, wss,
                         entVars, jobVars, sigVars, procVars>>
      BY <1>13, <2>2 DEF HttpClosed, StartShutdownCallbacks
    <3>2. QED
      BY <1>0, <3>1
  <2>3. QED
    BY <2>1, <2>2
<1>14. ASSUME NEW t \in Threads, SocketKillTimeout(t)
       PROVE TypeOK'
  <2>1. /\ conn' \in [Conns -> {"new", "open", "idle", "closing", "gone"}]
        /\ UNCHANGED <<startVars, listening, entVars, jobVars, sigVars, waits,
                       cbStop, pending, procVars>>
    BY <1>14 DEF SocketKillTimeout
  <2>2. wss' \in {"open", "closing", "closed"}
    BY <1>14 DEF SocketKillTimeout
  <2>3. stop' = [stop EXCEPT ![t] = "failed"] \/ stop' = [stop EXCEPT ![t] = "wsClose"]
    BY <1>14 DEF SocketKillTimeout
  <2>4. stop' \in [Threads -> StopStages]
    BY <2>3
  <2>5. QED
    BY <2>1, <2>2, <2>4
<1>15. ASSUME NEW t \in Threads, WssClosed(t)
       PROVE TypeOK'
  BY <1>0, <1>15 DEF WssClosed, StartShutdownCallbacks
<1>16. ASSUME NEW t \in Threads, NEW c \in ShutdownSet, ShutdownCallbackDone(t, c)
       PROVE TypeOK'
  BY <1>16 DEF ShutdownCallbackDone
<1>17. ASSUME NEW t \in Threads, NEW c \in ShutdownSet, ShutdownCallbackFails(t, c)
       PROVE TypeOK'
  BY <1>17 DEF ShutdownCallbackFails
<1>18. ASSUME NEW t \in Threads, ShutdownInstances(t)
       PROVE TypeOK'
  BY <1>18 DEF ShutdownInstances
<1>19. ASSUME NEW t \in Threads, NEW i \in Instances, InstanceStopped(t, i)
       PROVE TypeOK'
  BY <1>19 DEF InstanceStopped
<1>20. ASSUME NEW t \in Threads, NEW i \in Instances, InstanceStopFails(t, i)
       PROVE TypeOK'
  BY <1>20 DEF InstanceStopFails
<1>21. ASSUME NEW t \in Threads, FinishStop(t)
       PROVE TypeOK'
  BY <1>21 DEF FinishStop
<1>22. CASE WssCloses
  BY <1>22 DEF WssCloses
<1>23. ASSUME NEW t \in Callers, HostStops(t)
       PROVE TypeOK'
  BY <1>23 DEF HostStops, BeginStop, Threads
<1>24. ASSUME NEW s \in Signals, Signal(s)
       PROVE TypeOK'
  <2>1. CASE ~handlers /\ exit' = "killed" /\ UNCHANGED <<isShuttingDown, dying,
                                                       netVars, stopVars>>
    BY <1>24, <2>1 DEF Signal
  <2>2. CASE isShuttingDown' = TRUE /\ BeginStop(s) /\ UNCHANGED procVars
    BY <1>24, <2>2 DEF Signal, BeginStop, Threads
  <2>3. CASE UNCHANGED <<isShuttingDown, netVars, stopVars, procVars>>
    BY <1>24, <2>3 DEF Signal
  <2>4. QED
    BY <1>24, <2>1, <2>2, <2>3 DEF Signal
<1>25. ASSUME NEW s \in Signals, ExitAfterStop(s)
       PROVE TypeOK'
  BY <1>25 DEF ExitAfterStop
<1>26. CASE UncaughtError
  BY <1>26 DEF UncaughtError
<1>27. CASE ExitAfterError
  BY <1>27 DEF ExitAfterError
<1>28. CASE UNCHANGED vars
  BY <1>28 DEF vars
<1>29. QED
  BY <1>1, <1>2, <1>3, <1>4, <1>5, <1>6, <1>7, <1>8, <1>9, <1>10, <1>11, <1>12, <1>13, <1>14,
     <1>15, <1>16, <1>17, <1>18, <1>19, <1>20, <1>21, <1>22, <1>23, <1>24, <1>25, <1>26, <1>27,
     <1>28 
  DEF Next, InitStep, StopStep

\* Every variable keeps its type, and only instances that exist are
\* registered with the LifecycleController.
THEOREM TypeCorrect == Spec => []TypeOK
<1>1. QED
  BY TypeInit, TypeStep, PTL DEF Spec
-----------------------------------------------------------------------------
(* Nothing is released while a client is served. *)

LEMMA DrainInit == Init => DrainInv
<1> SUFFICES ASSUME Init PROVE DrainInv
  OBVIOUS
<1>1. \A s \in Signals : stop[s] = "idle" /\ pending[s] = {}
                        /\ \A c \in ShutdownSet : cbStop[s][c] # "pending"
  BY DEF Init, Threads
<1>2. CallbacksOver /\ FlagGuards /\ ReleaseOrder
  BY <1>1 DEF Init, CallbacksOver, FlagGuards, ReleaseOrder
<1>3. QED
  BY <1>1, <1>2, TypeInit DEF DrainInv, StopOrder, NotDrained

\* No callback of init() is left once init() has gone past them.
LEMMA CallbacksStep ==
    ASSUME Callers = {}, DrainInv, [Next]_vars
    PROVE  CallbacksOver'
<1> USE DEF DrainInv, TypeOK, CallbacksOver,
      startVars, netVars, entVars, jobVars, sigVars, stopVars, procVars
<1>1. CASE StartInit
  BY <1>1 DEF StartInit, Proceed, AfterSecrets, Register
<1>2. CASE SecretsLoaded
  BY <1>2 DEF SecretsLoaded, Proceed, AfterSecrets
<1>3. CASE KeysFetched
  BY <1>3 DEF KeysFetched, Proceed
<1>4. CASE InitStepFails
  BY <1>4 DEF InitStepFails
<1>5. ASSUME NEW c \in InitSet, InitCallbackDone(c)
       PROVE CallbacksOver'
  BY <1>5 DEF InitCallbackDone, Register, Runs
<1>6. ASSUME NEW c \in InitSet, InitCallbackFails(c)
       PROVE CallbacksOver'
  BY <1>6 DEF InitCallbackFails, Runs
<1>7. CASE InitCallbacksDone
  BY <1>7 DEF InitCallbacksDone, Proceed
<1>8. CASE PubSubReady
  BY <1>8 DEF PubSubReady, Proceed, Register
<1>9. ASSUME NEW bound \in SUBSET Http, StartListening(bound)
       PROVE CallbacksOver'
  BY <1>9 DEF StartListening
<1>10. ASSUME NEW x \in Conns, Connect(x)
       PROVE CallbacksOver'
  BY <1>10 DEF Connect, ServerOf, Http
<1>11. ASSUME NEW x \in Conns, RequestServed(x) \/ RequestAgain(x) \/ ClientCloses(x) \/ ConnectionCloses(x)
       PROVE CallbacksOver'
  BY <1>11 DEF RequestServed, RequestAgain, ClientCloses, ConnectionCloses, Becomes
<1>12. ASSUME NEW j \in Jobs, JobFinished(j) \/ JobAgain(j) \/ JobFailed(j)
       PROVE CallbacksOver'
  BY <1>12 DEF JobFinished, JobAgain, JobFailed, JobStep
<1>13. ASSUME NEW t \in Signals, HttpClosed(t)
       PROVE CallbacksOver'
  BY <1>13 DEF HttpClosed, StartShutdownCallbacks, Drained, ServerOf, Http
<1>14. ASSUME NEW t \in Signals, SocketKillTimeout(t)
       PROVE CallbacksOver'
  BY <1>14 DEF SocketKillTimeout
<1>15. ASSUME NEW t \in Signals, WssClosed(t)
       PROVE CallbacksOver'
  BY <1>15 DEF WssClosed, StartShutdownCallbacks
<1>16. ASSUME NEW t \in Signals, NEW c \in ShutdownSet, ShutdownCallbackDone(t, c)
       PROVE CallbacksOver'
  BY <1>16 DEF ShutdownCallbackDone, Runs
<1>17. ASSUME NEW t \in Signals, NEW c \in ShutdownSet, ShutdownCallbackFails(t, c)
       PROVE CallbacksOver'
  BY <1>17 DEF ShutdownCallbackFails, Runs
<1>18. ASSUME NEW t \in Signals, ShutdownInstances(t)
       PROVE CallbacksOver'
  BY <1>18 DEF ShutdownInstances
<1>19. ASSUME NEW t \in Signals, NEW i \in Instances, InstanceStopped(t, i)
       PROVE CallbacksOver'
  BY <1>19 DEF InstanceStopped
<1>20. ASSUME NEW t \in Signals, NEW i \in Instances, InstanceStopFails(t, i)
       PROVE CallbacksOver'
  BY <1>20 DEF InstanceStopFails
<1>21. ASSUME NEW t \in Signals, FinishStop(t)
       PROVE CallbacksOver'
  BY <1>21 DEF FinishStop
<1>22. CASE WssCloses
  BY <1>22 DEF WssCloses
<1>23. ASSUME NEW s \in Signals, Signal(s)
       PROVE CallbacksOver'
  BY <1>23 DEF Signal, BeginStop
<1>24. ASSUME NEW s \in Signals, ExitAfterStop(s)
       PROVE CallbacksOver'
  BY <1>24 DEF ExitAfterStop
<1>25. CASE UncaughtError
  BY <1>25 DEF UncaughtError
<1>26. CASE ExitAfterError
  BY <1>26 DEF ExitAfterError
<1>27. CASE UNCHANGED vars
  BY <1>27 DEF vars
<1>28. QED
  BY <1>1, <1>2, <1>3, <1>4, <1>5, <1>6, <1>7, <1>8, <1>9, <1>10, <1>11, <1>12, <1>13, <1>14,
     <1>15, <1>16, <1>17, <1>18, <1>19, <1>20, <1>21, <1>22, <1>23, <1>24, <1>25, <1>26, <1>27
  DEF Next, InitStep, StopStep, Threads

\* The flag, the listeners and the listening servers agree.
LEMMA FlagStep ==
    ASSUME Callers = {}, DrainInv, [Next]_vars
    PROVE  FlagGuards'
<1> USE DEF DrainInv, TypeOK, CallbacksOver, FlagGuards, StopOrder, NotDrained,
      startVars, netVars, entVars, jobVars, sigVars, stopVars, procVars
<1>1. CASE StartInit
  BY <1>1 DEF StartInit, Proceed, AfterSecrets, Register
<1>2. CASE SecretsLoaded
  BY <1>2 DEF SecretsLoaded, Proceed, AfterSecrets
<1>3. CASE KeysFetched
  BY <1>3 DEF KeysFetched, Proceed
<1>4. CASE InitStepFails
  BY <1>4 DEF InitStepFails
<1>5. ASSUME NEW c \in InitSet, InitCallbackDone(c)
       PROVE FlagGuards'
  BY <1>5 DEF InitCallbackDone, Register, Runs
<1>6. ASSUME NEW c \in InitSet, InitCallbackFails(c)
       PROVE FlagGuards'
  BY <1>6 DEF InitCallbackFails, Runs
<1>7. CASE InitCallbacksDone
  BY <1>7 DEF InitCallbacksDone, Proceed
<1>8. CASE PubSubReady
  BY <1>8 DEF PubSubReady, Proceed, Register
<1>9. ASSUME NEW bound \in SUBSET Http, StartListening(bound)
       PROVE FlagGuards'
  BY <1>9 DEF StartListening
<1>10. ASSUME NEW x \in Conns, Connect(x)
       PROVE FlagGuards'
  BY <1>10 DEF Connect, ServerOf, Http
<1>11. ASSUME NEW x \in Conns, RequestServed(x) \/ RequestAgain(x) \/ ClientCloses(x) \/ ConnectionCloses(x)
       PROVE FlagGuards'
  BY <1>11 DEF RequestServed, RequestAgain, ClientCloses, ConnectionCloses, Becomes
<1>12. ASSUME NEW j \in Jobs, JobFinished(j) \/ JobAgain(j) \/ JobFailed(j)
       PROVE FlagGuards'
  BY <1>12 DEF JobFinished, JobAgain, JobFailed, JobStep
<1>13. ASSUME NEW t \in Signals, HttpClosed(t)
       PROVE FlagGuards'
  BY <1>13 DEF HttpClosed, StartShutdownCallbacks, Drained, ServerOf, Http
<1>14. ASSUME NEW t \in Signals, SocketKillTimeout(t)
       PROVE FlagGuards'
  BY <1>14 DEF SocketKillTimeout
<1>15. ASSUME NEW t \in Signals, WssClosed(t)
       PROVE FlagGuards'
  BY <1>15 DEF WssClosed, StartShutdownCallbacks
<1>16. ASSUME NEW t \in Signals, NEW c \in ShutdownSet, ShutdownCallbackDone(t, c)
       PROVE FlagGuards'
  BY <1>16 DEF ShutdownCallbackDone, Runs
<1>17. ASSUME NEW t \in Signals, NEW c \in ShutdownSet, ShutdownCallbackFails(t, c)
       PROVE FlagGuards'
  BY <1>17 DEF ShutdownCallbackFails, Runs
<1>18. ASSUME NEW t \in Signals, ShutdownInstances(t)
       PROVE FlagGuards'
  BY <1>18 DEF ShutdownInstances
<1>19. ASSUME NEW t \in Signals, NEW i \in Instances, InstanceStopped(t, i)
       PROVE FlagGuards'
  BY <1>19 DEF InstanceStopped
<1>20. ASSUME NEW t \in Signals, NEW i \in Instances, InstanceStopFails(t, i)
       PROVE FlagGuards'
  BY <1>20 DEF InstanceStopFails
<1>21. ASSUME NEW t \in Signals, FinishStop(t)
       PROVE FlagGuards'
  BY <1>21 DEF FinishStop
<1>22. CASE WssCloses
  BY <1>22 DEF WssCloses
<1>23. ASSUME NEW s \in Signals, Signal(s)
       PROVE FlagGuards'
  BY <1>23 DEF Signal, BeginStop
<1>24. ASSUME NEW s \in Signals, ExitAfterStop(s)
       PROVE FlagGuards'
  BY <1>24 DEF ExitAfterStop
<1>25. CASE UncaughtError
  BY <1>25 DEF UncaughtError
<1>26. CASE ExitAfterError
  BY <1>26 DEF ExitAfterError
<1>27. CASE UNCHANGED vars
  BY <1>27 DEF vars
<1>28. QED
  BY <1>1, <1>2, <1>3, <1>4, <1>5, <1>6, <1>7, <1>8, <1>9, <1>10, <1>11, <1>12, <1>13, <1>14,
     <1>15, <1>16, <1>17, <1>18, <1>19, <1>20, <1>21, <1>22, <1>23, <1>24, <1>25, <1>26, <1>27
  DEF Next, InitStep, StopStep, Threads

\* A shutdown() waits for both servers, and nothing connects after that.
LEMMA StopStepOrder ==
    ASSUME Callers = {}, DrainInv, [Next]_vars
    PROVE  StopOrder'
<1> USE DEF DrainInv, TypeOK, FlagGuards, StopOrder, NotDrained, Open,
      startVars, netVars, entVars, jobVars, sigVars, stopVars, procVars
<1>1. CASE StartInit
  BY <1>1 DEF StartInit, Proceed, AfterSecrets, Register
<1>2. CASE SecretsLoaded
  BY <1>2 DEF SecretsLoaded, Proceed, AfterSecrets
<1>3. CASE KeysFetched
  BY <1>3 DEF KeysFetched, Proceed
<1>4. CASE InitStepFails
  BY <1>4 DEF InitStepFails
<1>5. ASSUME NEW c \in InitSet, InitCallbackDone(c)
       PROVE StopOrder'
  BY <1>5 DEF InitCallbackDone, Register, Runs
<1>6. ASSUME NEW c \in InitSet, InitCallbackFails(c)
       PROVE StopOrder'
  BY <1>6 DEF InitCallbackFails, Runs
<1>7. CASE InitCallbacksDone
  BY <1>7 DEF InitCallbacksDone, Proceed
<1>8. CASE PubSubReady
  BY <1>8 DEF PubSubReady, Proceed, Register
<1>9. ASSUME NEW bound \in SUBSET Http, StartListening(bound)
       PROVE StopOrder'
  BY <1>9 DEF StartListening
<1>10. ASSUME NEW x \in Conns, Connect(x)
       PROVE StopOrder'
  BY <1>10 DEF Connect, ServerOf, Http
<1>11. ASSUME NEW x \in Conns, RequestServed(x) \/ RequestAgain(x) \/ ClientCloses(x) \/ ConnectionCloses(x)
       PROVE StopOrder'
  BY <1>11 DEF RequestServed, RequestAgain, ClientCloses, ConnectionCloses, Becomes
<1>12. ASSUME NEW j \in Jobs, JobFinished(j) \/ JobAgain(j) \/ JobFailed(j)
       PROVE StopOrder'
  BY <1>12 DEF JobFinished, JobAgain, JobFailed, JobStep
<1>13. ASSUME NEW t \in Signals, HttpClosed(t)
       PROVE StopOrder'
  <2>1. \A x \in Conns : ~Open(x)
    BY <1>13 DEF HttpClosed, Drained, ServerOf, Http
  <2>2. /\ stop' \in {[stop EXCEPT ![t] = "wsWait"], [stop EXCEPT ![t] = "callbacks"]}
        /\ UNCHANGED <<waits, pending>>
        /\ \A s \in Signals : s # t => cbStop'[s] = cbStop[s]
    BY <1>13 DEF HttpClosed, StartShutdownCallbacks, Threads
  <2>3. \A x \in Conns : ~Open(x)'
    BY <1>13, <2>1 DEF HttpClosed
  <2>4. QED
    BY <2>2, <2>3 DEF Threads
<1>14. ASSUME NEW t \in Signals, SocketKillTimeout(t)
       PROVE StopOrder'
  <2>1. /\ stop' \in {[stop EXCEPT ![t] = "failed"], [stop EXCEPT ![t] = "wsClose"]}
        /\ stop[t] = "wsWait" /\ UNCHANGED <<waits, pending, cbStop>>
    BY <1>14 DEF SocketKillTimeout
  <2>2. \A x \in Conns : ~Open(x) => ~Open(x)'
    BY <1>14 DEF SocketKillTimeout
  <2>3. QED
    BY <2>1, <2>2 DEF Threads
<1>15. ASSUME NEW t \in Signals, WssClosed(t)
       PROVE StopOrder'
  BY <1>15 DEF WssClosed, StartShutdownCallbacks
<1>16. ASSUME NEW t \in Signals, NEW c \in ShutdownSet, ShutdownCallbackDone(t, c)
       PROVE StopOrder'
  BY <1>16 DEF ShutdownCallbackDone, Runs
<1>17. ASSUME NEW t \in Signals, NEW c \in ShutdownSet, ShutdownCallbackFails(t, c)
       PROVE StopOrder'
  BY <1>17 DEF ShutdownCallbackFails, Runs
<1>18. ASSUME NEW t \in Signals, ShutdownInstances(t)
       PROVE StopOrder'
  BY <1>18 DEF ShutdownInstances
<1>19. ASSUME NEW t \in Signals, NEW i \in Instances, InstanceStopped(t, i)
       PROVE StopOrder'
  BY <1>19 DEF InstanceStopped
<1>20. ASSUME NEW t \in Signals, NEW i \in Instances, InstanceStopFails(t, i)
       PROVE StopOrder'
  BY <1>20 DEF InstanceStopFails
<1>21. ASSUME NEW t \in Signals, FinishStop(t)
       PROVE StopOrder'
  BY <1>21 DEF FinishStop
<1>22. CASE WssCloses
  BY <1>22 DEF WssCloses
<1>23. ASSUME NEW s \in Signals, Signal(s)
       PROVE StopOrder'
  <2>1. CASE ~handlers /\ exit' = "killed" /\ UNCHANGED <<isShuttingDown, dying,
                                                       netVars, stopVars>>
    BY <1>23, <2>1 DEF Signal
  <2>2. CASE /\ handlers /\ ~isShuttingDown /\ isShuttingDown' = TRUE
             /\ BeginStop(s) /\ UNCHANGED procVars
    BY <1>23, <2>2 DEF Signal, BeginStop, Threads
  <2>3. CASE UNCHANGED <<isShuttingDown, netVars, stopVars, procVars>>
    BY <1>23, <2>3 DEF Signal
  <2>4. QED
    BY <1>23, <2>1, <2>2, <2>3 DEF Signal
<1>24. ASSUME NEW s \in Signals, ExitAfterStop(s)
       PROVE StopOrder'
  BY <1>24 DEF ExitAfterStop
<1>25. CASE UncaughtError
  BY <1>25 DEF UncaughtError
<1>26. CASE ExitAfterError
  BY <1>26 DEF ExitAfterError
<1>27. CASE UNCHANGED vars
  BY <1>27 DEF vars
<1>28. QED
  BY <1>1, <1>2, <1>3, <1>4, <1>5, <1>6, <1>7, <1>8, <1>9, <1>10, <1>11, <1>12, <1>13, <1>14,
     <1>15, <1>16, <1>17, <1>18, <1>19, <1>20, <1>21, <1>22, <1>23, <1>24, <1>25, <1>26, <1>27
  DEF Next, InitStep, StopStep, Threads

\* Only a shutdown() that is past the drain touches an instance.
LEMMA ReleaseStep ==
    ASSUME Callers = {}, DrainInv, [Next]_vars
    PROVE  ReleaseOrder'
<1> USE DEF DrainInv, TypeOK, StopOrder, ReleaseOrder, NotDrained,
      startVars, netVars, entVars, jobVars, sigVars, stopVars, procVars
<1>1. CASE StartInit
  BY <1>1 DEF StartInit, Proceed, AfterSecrets, Register
<1>2. CASE SecretsLoaded
  BY <1>2 DEF SecretsLoaded, Proceed, AfterSecrets
<1>3. CASE KeysFetched
  BY <1>3 DEF KeysFetched, Proceed
<1>4. CASE InitStepFails
  BY <1>4 DEF InitStepFails
<1>5. ASSUME NEW c \in InitSet, InitCallbackDone(c)
       PROVE ReleaseOrder'
  BY <1>5 DEF InitCallbackDone, Register, Runs
<1>6. ASSUME NEW c \in InitSet, InitCallbackFails(c)
       PROVE ReleaseOrder'
  BY <1>6 DEF InitCallbackFails, Runs
<1>7. CASE InitCallbacksDone
  BY <1>7 DEF InitCallbacksDone, Proceed
<1>8. CASE PubSubReady
  BY <1>8 DEF PubSubReady, Proceed, Register
<1>9. ASSUME NEW bound \in SUBSET Http, StartListening(bound)
       PROVE ReleaseOrder'
  BY <1>9 DEF StartListening
<1>10. ASSUME NEW x \in Conns, Connect(x)
       PROVE ReleaseOrder'
  BY <1>10 DEF Connect, ServerOf, Http
<1>11. ASSUME NEW x \in Conns, RequestServed(x) \/ RequestAgain(x) \/ ClientCloses(x) \/ ConnectionCloses(x)
       PROVE ReleaseOrder'
  BY <1>11 DEF RequestServed, RequestAgain, ClientCloses, ConnectionCloses, Becomes
<1>12. ASSUME NEW j \in Jobs, JobFinished(j) \/ JobAgain(j) \/ JobFailed(j)
       PROVE ReleaseOrder'
  BY <1>12 DEF JobFinished, JobAgain, JobFailed, JobStep
<1>13. ASSUME NEW t \in Signals, HttpClosed(t)
       PROVE ReleaseOrder'
  BY <1>13 DEF HttpClosed, StartShutdownCallbacks, Drained, ServerOf, Http
<1>14. ASSUME NEW t \in Signals, SocketKillTimeout(t)
       PROVE ReleaseOrder'
  BY <1>14 DEF SocketKillTimeout
<1>15. ASSUME NEW t \in Signals, WssClosed(t)
       PROVE ReleaseOrder'
  BY <1>15 DEF WssClosed, StartShutdownCallbacks
<1>16. ASSUME NEW t \in Signals, NEW c \in ShutdownSet, ShutdownCallbackDone(t, c)
       PROVE ReleaseOrder'
  BY <1>16 DEF ShutdownCallbackDone, Runs
<1>17. ASSUME NEW t \in Signals, NEW c \in ShutdownSet, ShutdownCallbackFails(t, c)
       PROVE ReleaseOrder'
  BY <1>17 DEF ShutdownCallbackFails, Runs
<1>18. ASSUME NEW t \in Signals, ShutdownInstances(t)
       PROVE ReleaseOrder'
  BY <1>18 DEF ShutdownInstances
<1>19. ASSUME NEW t \in Signals, NEW i \in Instances, InstanceStopped(t, i)
       PROVE ReleaseOrder'
  BY <1>19 DEF InstanceStopped
<1>20. ASSUME NEW t \in Signals, NEW i \in Instances, InstanceStopFails(t, i)
       PROVE ReleaseOrder'
  BY <1>20 DEF InstanceStopFails
<1>21. ASSUME NEW t \in Signals, FinishStop(t)
       PROVE ReleaseOrder'
  BY <1>21 DEF FinishStop
<1>22. CASE WssCloses
  BY <1>22 DEF WssCloses
<1>23. ASSUME NEW s \in Signals, Signal(s)
       PROVE ReleaseOrder'
  <2>1. CASE ~handlers /\ exit' = "killed" /\ UNCHANGED <<isShuttingDown, dying,
                                                       netVars, stopVars>>
    BY <1>23, <2>1 DEF Signal
  <2>2. CASE /\ handlers /\ ~isShuttingDown /\ isShuttingDown' = TRUE
             /\ BeginStop(s) /\ UNCHANGED procVars
    BY <1>23, <2>2 DEF Signal, BeginStop, Threads
  <2>3. CASE UNCHANGED <<isShuttingDown, netVars, stopVars, procVars>>
    BY <1>23, <2>3 DEF Signal
  <2>4. QED
    BY <1>23, <2>1, <2>2, <2>3 DEF Signal
<1>24. ASSUME NEW s \in Signals, ExitAfterStop(s)
       PROVE ReleaseOrder'
  BY <1>24 DEF ExitAfterStop
<1>25. CASE UncaughtError
  BY <1>25 DEF UncaughtError
<1>26. CASE ExitAfterError
  BY <1>26 DEF ExitAfterError
<1>27. CASE UNCHANGED vars
  BY <1>27 DEF vars
<1>28. QED
  BY <1>1, <1>2, <1>3, <1>4, <1>5, <1>6, <1>7, <1>8, <1>9, <1>10, <1>11, <1>12, <1>13, <1>14,
     <1>15, <1>16, <1>17, <1>18, <1>19, <1>20, <1>21, <1>22, <1>23, <1>24, <1>25, <1>26, <1>27
  DEF Next, InitStep, StopStep, Threads

\* Under signal-only use, an instance is shut down only when no request and
\* no socket is open (Server.ts:251 to 329).
THEOREM NothingReleasedInUse ==
    ASSUME Callers = {} PROVE Spec => []DrainedBeforeRelease
<1>1. DrainInv /\ [Next]_vars => DrainInv'
  BY TypeStep, CallbacksStep, FlagStep, StopStepOrder, ReleaseStep DEF DrainInv
<1>2. DrainInv => DrainedBeforeRelease
  BY DEF DrainInv, StopOrder, ReleaseOrder, DrainedBeforeRelease
<1>3. QED
  BY DrainInit, <1>1, <1>2, PTL DEF Spec

-----------------------------------------------------------------------------
(* A clean exit and the refinement.  DrainInv of ServerLifecycle says who  *)
(* is connected while a shutdown goes on; here comes what that one         *)
(* shutdown has collected and released.                                    *)

\* Before the call has collected the instances.
Early(s) == stop[s] \in {"idle", "draining", "wsWait", "wsClose", "callbacks"}

\* A port is open only when init() is past everything it registers.
ListensLast == (\E h \in Http : listening[h]) => initPc \in {"running", "unwatched", "stuck"}

\* One signal at most has begun a shutdown.
OneStop == \A s, u \in Signals : stop[s] # "idle" /\ stop[u] # "idle" => s = u

\* Every instance that was acquired is registered and runs.
Gathered ==
    \A i \in Instances : instance[i] # "absent" => i \in registered /\ instance[i] = "running"

\* The call awaits every instance that has not stopped.
Awaited(s) ==
    /\ \A c \in ShutdownSet : cbStop[s][c] = "done"
    /\ \A i \in Instances : instance[i] \notin {"absent", "stopped"} => i \in pending[s]

\* Nothing is held when the call resolves.
AllReleased(s) ==
    /\ registered = {} /\ pending[s] = {}
    /\ \A i \in Instances : instance[i] \in {"absent", "stopped"}
    /\ ~watchers /\ ~keyTimers /\ aborted /\ \A j \in Jobs : job[j] # "waiting"
    /\ \A c \in ShutdownSet : cbStop[s][c] = "done"

\* What each call has in hand, by the await it is at.
Collected ==
    /\ (\A s \in Signals : Early(s)) => Gathered
    /\ \A s \in Signals : /\ Early(s) => pending[s] = {}
                          /\ stop[s] = "entities" => Awaited(s)
                          /\ stop[s] = "done" => AllReleased(s)

\* The listeners are gone, and the process ends clean, only after a shutdown.
Ended ==
    isShuttingDown /\ (~handlers \/ exit \in {"0", "killed"}) =>
        \E s \in Signals : stop[s] = "done"

GraceInv == ListensLast /\ OneStop /\ Collected /\ Ended

-----------------------------------------------------------------------------

\* At the start nothing listens, and nobody has begun to stop.
LEMMA GraceInit == Init => GraceInv
  <1> SUFFICES ASSUME Init PROVE GraceInv
    OBVIOUS
  <1>1. \A s \in Signals : stop[s] = "idle" /\ pending[s] = {}
    BY DEF Init, Threads
  <1> QED
    BY <1>1 DEF Init, GraceInv, ListensLast, OneStop, Collected, Gathered, Early, Ended

\* While init() goes on, nobody shuts down.
LEMMA InitAlone ==
    ASSUME DrainInv, InitStep
    PROVE  /\ ~isShuttingDown /\ \A s \in Signals : stop[s] = "idle"
           /\ UNCHANGED <<sigVars, stopVars, exit, aborted>>
           /\ initPc \notin {"running", "unwatched"}
           /\ UNCHANGED entVars \/ \E i \in Instances : Register(i)
           /\ UNCHANGED listening \/ initPc' \in {"running", "unwatched", "stuck"}
  <1> USE DEF DrainInv, FlagGuards, CallbacksOver, sigVars, stopVars, entVars, netVars, jobVars, procVars
  <1>1. initPc \notin {"running", "unwatched"}
    BY DEF InitStep, StartInit, SecretsLoaded, KeysFetched, InitStepFails, InitCallbackDone,
           InitCallbackFails, InitCallbacksDone, PubSubReady, StartListening, Runs
  <1>2. UNCHANGED <<sigVars, stopVars, exit, aborted>>
    BY DEF InitStep, StartInit, SecretsLoaded, KeysFetched, InitStepFails, InitCallbackDone,
           InitCallbackFails, InitCallbacksDone, PubSubReady, StartListening
  <1>3. UNCHANGED entVars \/ \E i \in Instances : Register(i)
    BY DEF InitStep, StartInit, SecretsLoaded, KeysFetched, InitStepFails, InitCallbackDone,
           InitCallbackFails, InitCallbacksDone, PubSubReady, StartListening, Instances
  <1>4. UNCHANGED listening \/ initPc' \in {"running", "unwatched", "stuck"}
    BY DEF InitStep, StartInit, SecretsLoaded, KeysFetched, InitStepFails, InitCallbackDone,
           InitCallbackFails, InitCallbacksDone, PubSubReady, StartListening
  <1> QED
    BY <1>1, <1>2, <1>3, <1>4

\* init() registers what it starts, and listens at its end.
LEMMA InitKeepsGrace ==
    ASSUME DrainInv, GraceInv, InitStep
    PROVE  GraceInv'
  <1>1. /\ ~isShuttingDown' /\ \A s \in Signals : stop'[s] = "idle" /\ pending'[s] = {}
    BY InitAlone DEF sigVars, stopVars, GraceInv, Collected, Early
  <1>2. Gathered /\ Gathered'
    <2>1. Gathered
      BY InitAlone DEF GraceInv, Collected, Early
    <2> QED
      BY <2>1, InitAlone DEF Gathered, Register, entVars, DrainInv, TypeOK
  <1>3. ListensLast'
    <2>1. initPc = "stuck" => initPc' = "stuck"
      BY DEF DrainInv, CallbacksOver, InitStep, StartInit, SecretsLoaded, KeysFetched, InitStepFails,
             InitCallbackDone, InitCallbackFails, InitCallbacksDone, PubSubReady, StartListening, Runs
    <2> QED
      BY <2>1, InitAlone DEF GraceInv, ListensLast
  <1> QED
    BY <1>1, <1>2, <1>3 DEF GraceInv, OneStop, Collected, Early, Ended

\* Connections, jobs, and errors leave the shutdown alone.
LEMMA OthersKeepGrace ==
    ASSUME GraceInv, UNCHANGED <<startVars, listening, entVars, aborted, sigVars, stopVars>>,
           exit' \in {exit, "1"}, aborted => \A j \in Jobs : job[j] # "waiting" => job'[j] # "waiting"
    PROVE  GraceInv'
  BY DEF GraceInv, ListensLast, OneStop, Collected, Early, Gathered, Awaited, AllReleased, Ended,
         startVars, entVars, sigVars, stopVars

\* The one shutdown there is takes a step: what the others must keep is that
\* they never began.
LEMMA OneStopStep ==
    ASSUME Callers = {}, DrainInv, GraceInv, NEW t \in Signals, stop[t] # "idle",
           \A s \in Signals \ {t} : stop'[s] = stop[s] /\ pending'[s] = pending[s],
           stop'[t] # "idle",
           UNCHANGED <<initPc, listening, sigVars, exit>>,
           ~handlers' => ~handlers \/ stop'[t] = "done",
           stop[t] = "done" => stop'[t] = "done",
           Early(t)' => Early(t) /\ pending'[t] = {} /\ UNCHANGED entVars,
           stop'[t] = "entities" => Awaited(t)',
           stop'[t] = "done" => AllReleased(t)'
    PROVE  GraceInv'
  <1>1. \A s \in Signals \ {t} : stop[s] = "idle" /\ stop'[s] = "idle" /\ pending'[s] = {}
    BY DEF GraceInv, OneStop, Collected, Early
  <1>2. ListensLast'
    BY DEF GraceInv, ListensLast
  <1>3. OneStop'
    BY <1>1 DEF OneStop
  <1>4. Early(t)' => Gathered'
    BY <1>1 DEF GraceInv, Collected, Early, Gathered, entVars
  <1>5. Collected'
    BY <1>1, <1>4 DEF Collected, Early
  <1>6. Ended'
    <2>1. (\E s \in Signals : stop[s] = "done") => stop[t] = "done"
      BY <1>1
    <2> QED
      BY <2>1 DEF GraceInv, Ended, sigVars
  <1> QED
    BY <1>2, <1>3, <1>5, <1>6 DEF GraceInv

\* shutdown() from the drain to the instances' shutdown().
LEMMA CollectKeepsGrace ==
    ASSUME Callers = {}, DrainInv, GraceInv, NEW t \in Signals,
           \/ HttpClosed(t) \/ SocketKillTimeout(t) \/ WssClosed(t) \/ ShutdownInstances(t)
    PROVE  GraceInv'
  <1> USE DEF Threads, startVars, netVars, entVars, jobVars, procVars
  <1>1. /\ t \in Threads /\ stop \in [Threads -> StopStages] /\ pending \in [Threads -> SUBSET Instances]
        /\ cbStop \in [Threads -> [ShutdownSet -> CallbackStates]]
    BY DEF DrainInv, TypeOK
  <1>2. CASE HttpClosed(t) \/ SocketKillTimeout(t) \/ WssClosed(t)
    <2>1. /\ stop[t] \in {"draining", "wsWait", "wsClose"}
          /\ UNCHANGED <<startVars, listening, entVars, sigVars, exit, pending>>
          /\ \E stage \in {"wsWait", "wsClose", "callbacks", "failed"} : stop' = [stop EXCEPT ![t] = stage]
      BY <1>2 DEF HttpClosed, SocketKillTimeout, WssClosed, StartShutdownCallbacks
    <2>2. Early(t) /\ pending[t] = {}
      BY <2>1 DEF Early, GraceInv, Collected
    <2>3. stop'[t] \in {"wsWait", "wsClose", "callbacks", "failed"}
          /\ \A s \in Signals \ {t} : stop'[s] = stop[s]
      BY <1>1, <2>1
    <2> QED
      BY <2>1, <2>2, <2>3, OneStopStep
  <1>3. CASE ShutdownInstances(t)
    <2>1. /\ stop[t] = "callbacks" /\ stop' = [stop EXCEPT ![t] = "entities"]
          /\ pending' = [pending EXCEPT ![t] = registered]
          /\ UNCHANGED <<startVars, listening, sigVars, exit, cbStop>>
      BY <1>3 DEF ShutdownInstances
    <2>2. /\ stop'[t] = "entities" /\ pending'[t] = registered
          /\ \A s \in Signals \ {t} : stop'[s] = stop[s] /\ pending'[s] = pending[s]
      BY <1>1, <2>1
    <2>3. Gathered
      <3>1. \A s \in Signals : Early(s)
        BY <2>1 DEF GraceInv, OneStop, Early
      <3> QED
        BY <3>1 DEF GraceInv, Collected
    <2>4. Awaited(t)'
      BY <1>3, <2>2, <2>3 DEF ShutdownInstances, Gathered, Awaited
    <2> QED
      BY <2>1, <2>2, <2>4, OneStopStep DEF Early
  <1> QED
    BY <1>2, <1>3

\* The callbacks of shutdown() end.
LEMMA CallbackKeepsGrace ==
    ASSUME Callers = {}, DrainInv, GraceInv, NEW t \in Signals, NEW c \in ShutdownSet,
           ShutdownCallbackDone(t, c) \/ ShutdownCallbackFails(t, c)
    PROVE  GraceInv'
  <1> USE DEF Threads, startVars, netVars, entVars, jobVars, procVars
  <1>1. /\ t \in Threads /\ stop \in [Threads -> StopStages]
        /\ cbStop \in [Threads -> [ShutdownSet -> CallbackStates]]
    BY DEF DrainInv, TypeOK
  <1>2. /\ cbStop[t][c] = "pending"
        /\ UNCHANGED <<startVars, listening, entVars, sigVars, exit, pending>>
        /\ stop' = stop \/ stop' = [stop EXCEPT ![t] = "failed"]
    BY DEF ShutdownCallbackDone, ShutdownCallbackFails, Runs
  <1>3. stop[t] \notin {"idle", "draining", "entities", "done"}
    BY <1>2 DEF GraceInv, Collected, Awaited, AllReleased, DrainInv, StopOrder, NotDrained
  <1>4. stop'[t] \in {stop[t], "failed"} /\ \A s \in Signals \ {t} : stop'[s] = stop[s]
    BY <1>1, <1>2
  <1>5. Early(t)' => Early(t) /\ pending'[t] = {}
    BY <1>2, <1>4 DEF Early, GraceInv, Collected
  <1> QED
    BY <1>2, <1>3, <1>4, <1>5, OneStopStep

\* The instances end, and shutdown() with them.
LEMMA ReleaseKeepsGrace ==
    ASSUME Callers = {}, DrainInv, GraceInv, NEW t \in Signals,
           FinishStop(t) \/ \E i \in Instances : InstanceStopped(t, i) \/ InstanceStopFails(t, i)
    PROVE  GraceInv'
  <1> USE DEF Threads, startVars, netVars, entVars, jobVars, procVars
  <1>1. /\ t \in Threads /\ stop \in [Threads -> StopStages] /\ pending \in [Threads -> SUBSET Instances]
        /\ instance \in [Instances -> {"absent", "running", "stopping", "stopped", "failed"}]
    BY DEF DrainInv, TypeOK
  <1>2. ASSUME NEW i \in Instances, i \in pending[t]
        PROVE  stop[t] \in {"entities", "failed"}
    BY <1>1, <1>2 DEF GraceInv, Collected, Early, AllReleased, StopStages
  <1>3. ASSUME NEW i \in Instances, InstanceStopped(t, i) PROVE GraceInv'
    <2>1. /\ i \in pending[t] /\ pending' = [pending EXCEPT ![t] = @ \ {i}]
          /\ instance' = [instance EXCEPT ![i] = "stopped"]
          /\ UNCHANGED <<startVars, listening, sigVars, exit, stop, cbStop, registered>>
      BY <1>3 DEF InstanceStopped
    <2>2. /\ pending'[t] = pending[t] \ {i} /\ \A s \in Signals \ {t} : pending'[s] = pending[s]
          /\ stop[t] \in {"entities", "failed"}
      BY <1>1, <1>2, <2>1
    <2>3. stop[t] = "entities" => Awaited(t)'
      BY <1>1, <2>1, <2>2 DEF GraceInv, Collected, Awaited
    <2> QED
      BY <2>1, <2>2, <2>3, OneStopStep DEF Early
  <1>4. ASSUME NEW i \in Instances, InstanceStopFails(t, i) PROVE GraceInv'
    <2>1. /\ i \in pending[t] /\ pending' = [pending EXCEPT ![t] = @ \ {i}]
          /\ stop' = [stop EXCEPT ![t] = "failed"]
          /\ UNCHANGED <<startVars, listening, sigVars, exit>>
      BY <1>4 DEF InstanceStopFails
    <2>2. /\ \A s \in Signals \ {t} : pending'[s] = pending[s] /\ stop'[s] = stop[s]
          /\ stop'[t] = "failed" /\ stop[t] \in {"entities", "failed"}
      BY <1>1, <1>2, <2>1
    <2> QED
      BY <2>1, <2>2, OneStopStep DEF Early
  <1>5. CASE FinishStop(t)
    <2>1. /\ stop[t] = "entities" /\ pending[t] = {} /\ stop' = [stop EXCEPT ![t] = "done"]
          /\ UNCHANGED <<initPc, listening, sigVars, exit, pending, instance, cbStop>>
      BY <1>5 DEF FinishStop
    <2>2. stop'[t] = "done" /\ \A s \in Signals \ {t} : stop'[s] = stop[s]
      BY <1>1, <2>1
    <2>3. Awaited(t)
      BY <2>1 DEF GraceInv, Collected
    <2>4. AllReleased(t)'
      BY <1>5, <2>1, <2>3 DEF FinishStop, AllReleased, Awaited
    <2> QED
      BY <2>1, <2>2, <2>4, OneStopStep DEF Early
  <1> QED
    BY <1>3, <1>4, <1>5

\* A signal begins a shutdown, or ends the process when the listeners are gone.
LEMMA SignalKeepsGrace ==
    ASSUME Callers = {}, DrainInv, GraceInv, NEW s \in Signals, Signal(s)
    PROVE  GraceInv'
  <1> USE DEF Threads, startVars, netVars, entVars, jobVars, stopVars, procVars
  <1>0. UNCHANGED <<startVars, entVars, jobVars>>
    BY DEF Signal
  <1>1. CASE /\ handlers /\ ~isShuttingDown /\ isShuttingDown' = TRUE
             /\ BeginStop(s) /\ UNCHANGED procVars
    <2>1. \A u \in Signals : stop[u] = "idle"
      BY <1>1 DEF DrainInv, FlagGuards
    <2>2. /\ stop' = [stop EXCEPT ![s] = "draining"] /\ UNCHANGED <<cbStop, pending>>
          /\ listening' = [h \in Http |-> FALSE]
      BY <1>1 DEF BeginStop
    <2>3. stop'[s] = "draining" /\ \A u \in Signals \ {s} : stop'[u] = "idle"
      BY <2>1, <2>2 DEF DrainInv, TypeOK
    <2>4. exit = "none"
      BY DEF Signal, Alive
    <2>5. ListensLast' /\ OneStop'
      BY <2>2, <2>3 DEF ListensLast, OneStop
    <2>6. Collected'
      BY <1>0, <2>1, <2>2, <2>3 DEF GraceInv, Collected, Gathered, Early
    <2>7. Ended'
      BY <1>0, <1>1, <2>4 DEF Ended
    <2> QED
      BY <2>5, <2>6, <2>7 DEF GraceInv
  <1>2. CASE ~handlers /\ exit' = "killed" /\ UNCHANGED <<isShuttingDown, dying, netVars, stopVars>>
    BY <1>0, <1>2
       DEF GraceInv, ListensLast, OneStop, Collected, Early, Gathered, Awaited, AllReleased, Ended
  <1>3. CASE UNCHANGED <<isShuttingDown, netVars, stopVars, procVars>>
    BY <1>0, <1>3
       DEF GraceInv, ListensLast, OneStop, Collected, Early, Gathered, Awaited, AllReleased, Ended
  <1> QED
    BY <1>1, <1>2, <1>3 DEF Signal

\* Every step keeps GraceInv while DrainInv holds.
LEMMA GraceStep ==
    ASSUME Callers = {}, DrainInv, GraceInv, [Next]_vars
    PROVE  GraceInv'
  <1> USE DEF startVars, netVars, entVars, jobVars, sigVars, stopVars, procVars
  <1>1. CASE UNCHANGED vars
    BY <1>1, OthersKeepGrace DEF vars
  <1>2. ASSUME NEW x \in Conns, Connect(x) \/ RequestServed(x) \/ RequestAgain(x) \/ ClientCloses(x) \/ ConnectionCloses(x)
        PROVE  GraceInv'
    BY <1>2, OthersKeepGrace DEF Connect, RequestServed, RequestAgain, ClientCloses, ConnectionCloses, Becomes
  <1>3. ASSUME NEW j \in Jobs, JobFinished(j) \/ JobAgain(j) \/ JobFailed(j)
        PROVE  GraceInv'
    <2>1. PICK to \in {"waiting", "ended", "running", "failed"} :
             /\ \E from \in {"running", "waiting"} : JobStep(j, from, to)
             /\ aborted => to # "waiting"
      BY <1>3 DEF JobFinished, JobAgain, JobFailed
    <2>2. job' = [job EXCEPT ![j] = to] /\ DOMAIN job = Jobs
          /\ UNCHANGED <<startVars, netVars, entVars, aborted, sigVars, stopVars, procVars>>
      BY <2>1 DEF JobStep, DrainInv, TypeOK
    <2>3. aborted => \A k \in Jobs : job[k] # "waiting" => job'[k] # "waiting"
      BY <2>1, <2>2
    <2> QED
      BY <2>2, <2>3, OthersKeepGrace
  <1>4. CASE WssCloses \/ UncaughtError \/ ExitAfterError
    BY <1>4, OthersKeepGrace DEF WssCloses, UncaughtError, ExitAfterError
  <1>5. ASSUME NEW s \in Signals, ExitAfterStop(s) PROVE GraceInv'
    <2>1. /\ UNCHANGED <<startVars, netVars, entVars, jobVars, sigVars, stopVars>>
          /\ exit' = IF stop[s] = "done" THEN "0" ELSE "1"
      BY <1>5 DEF ExitAfterStop
    <2> QED
      BY <2>1
         DEF GraceInv, ListensLast, OneStop, Collected, Early, Gathered, Awaited, AllReleased, Ended
  <1>6. ASSUME NEW t \in Signals, StopStep(t) PROVE GraceInv'
    BY <1>6, CollectKeepsGrace, CallbackKeepsGrace, ReleaseKeepsGrace DEF StopStep
  <1> QED
    BY <1>1, <1>2, <1>3, <1>4, <1>5, <1>6, InitKeepsGrace, SignalKeepsGrace DEF Next, Threads

-----------------------------------------------------------------------------

\* DrainInv and GraceInv together are inductive.
LEMMA GraceAlways ==
    ASSUME Callers = {} PROVE Spec => [](DrainInv /\ GraceInv)
  <1>1. DrainInv /\ GraceInv /\ [Next]_vars => (DrainInv /\ GraceInv)'
    BY TypeStep, CallbacksStep, FlagStep, StopStepOrder, ReleaseStep, GraceStep DEF DrainInv
  <1> QED
    BY DrainInit, GraceInit, <1>1, PTL DEF Spec

\* When the process ends by exit(0), or by a signal after a graceful shutdown
\* began, every instance is stopped, every shutdown callback has run, and no
\* timer, watcher or waiting job is left.
THEOREM ReleasedAtExit ==
    ASSUME Callers = {} PROVE Spec => []GracefulExit
  <1>1. DrainInv /\ GraceInv => GracefulExit
    BY DEF GraceInv, Ended, Collected, AllReleased, GracefulExit, Released
  <1> QED
    BY GraceAlways, <1>1, PTL

-----------------------------------------------------------------------------
(* The server implements GracefulStop. *)

\* The initial states are initial states of GracefulStop.
LEMMA InitGraceful == Init => GS!Init
  BY DEF Init, GS!Init, Phase, Outcome, Alive, Open, Http

\* What GracefulStop does not see.
LEMMA Unseen ==
    ASSUME UNCHANGED <<listening, exit, isShuttingDown>>,
           \A x \in Conns : Open(x)' <=> Open(x),
           \A i \in Instances : instance'[i] \in {"absent", "stopped"} <=> instance[i] \in {"absent", "stopped"}
    PROVE  UNCHANGED GS!gsVars
  <1>1. UNCHANGED <<Phase, Outcome>>
    BY DEF Phase, Outcome, Alive
  <1>2. {x \in Conns : Open(x)}' = {x \in Conns : Open(x)}
    OBVIOUS
  <1>3. {i \in Instances : instance[i] \notin {"absent", "stopped"}}'
          = {i \in Instances : instance[i] \notin {"absent", "stopped"}}
    OBVIOUS
  <1> QED
    BY <1>1, <1>2, <1>3 DEF GS!gsVars

\* init() acquires what it registers, and opens when it listens.
LEMMA InitStepGraceful ==
    ASSUME DrainInv, GraceInv, InitStep
    PROVE  [GS!Next]_(GS!gsVars)
  <1> USE DEF entVars, netVars, sigVars, procVars, jobVars
  <1>1. /\ ~isShuttingDown /\ ~isShuttingDown' /\ Alive /\ Alive'
        /\ UNCHANGED <<conn, exit, isShuttingDown>>
    <2>1. Alive /\ UNCHANGED conn
      BY DEF InitStep, StartInit, SecretsLoaded, KeysFetched, InitStepFails, InitCallbackDone,
             InitCallbackFails, InitCallbacksDone, PubSubReady, StartListening
    <2> QED
      BY <2>1, InitAlone DEF Alive
  <1>2. UNCHANGED {x \in Conns : Open(x)} /\ UNCHANGED Outcome
    BY <1>1 DEF Open, Outcome, Alive
  <1>3. CASE UNCHANGED <<entVars, listening>>
    BY <1>1, <1>3, Unseen DEF Open
  <1>4. ASSUME NEW i \in Instances, Register(i), UNCHANGED listening, initPc \notin {"running", "unwatched", "stuck"}
        PROVE  GS!Acquire(i)
    <2>1. Phase = "starting" /\ Phase' = "starting"
      BY <1>1, <1>4 DEF Phase, GraceInv, ListensLast
    <2>2. {j \in Instances : instance[j] \notin {"absent", "stopped"}}'
            = {j \in Instances : instance[j] \notin {"absent", "stopped"}} \cup {i}
      BY <1>4 DEF Register, DrainInv, TypeOK
    <2> QED
      BY <1>2, <2>1, <2>2 DEF GS!Acquire
  <1>5. ASSUME NEW bound \in SUBSET Http, StartListening(bound)
        PROVE  [GS!Next]_(GS!gsVars)
    <2>1. /\ initPc = "listen" /\ listening' = [h \in Http |-> h \in bound] /\ UNCHANGED entVars
      BY <1>5 DEF StartListening
    <2>2. Phase = "starting" /\ \A h \in Http : ~listening[h]
      BY <1>1, <2>1 DEF Phase, GraceInv, ListensLast
    <2>3. CASE bound = {}
      <3>1. UNCHANGED Phase
        BY <1>1, <2>1, <2>2, <2>3 DEF Phase
      <3> QED
        BY <1>2, <2>1, <3>1 DEF GS!gsVars
    <2>4. CASE bound # {}
      <3>1. Phase' = "serving"
        BY <1>1, <2>1, <2>4 DEF Phase
      <3> QED
        BY <1>2, <2>1, <2>2, <3>1 DEF GS!Next, GS!Open
    <2> QED
      BY <2>3, <2>4
  <1>6. \/ UNCHANGED <<entVars, listening>>
        \/ \E bound \in SUBSET Http : StartListening(bound)
        \/ UNCHANGED listening /\ initPc \notin {"running", "unwatched", "stuck"}
           /\ \E i \in Instances : Register(i)
    <2>1. CASE StartInit \/ PubSubReady
      BY <2>1 DEF StartInit, PubSubReady, Instances
    <2>2. ASSUME NEW c \in InitSet, InitCallbackDone(c)
          PROVE  UNCHANGED listening /\ initPc \notin {"running", "unwatched", "stuck"}
                 /\ \E i \in Instances : Register(i)
      BY <2>2 DEF InitCallbackDone, Runs, DrainInv, CallbacksOver, Instances
    <2>3. CASE \/ SecretsLoaded \/ KeysFetched \/ InitStepFails \/ InitCallbacksDone
               \/ \E c \in InitSet : InitCallbackFails(c)
      BY <2>3 DEF SecretsLoaded, KeysFetched, InitStepFails, InitCallbacksDone, InitCallbackFails
    <2> QED
      BY <2>1, <2>2, <2>3 DEF InitStep
  <1> QED
    BY <1>3, <1>4, <1>5, <1>6 DEF GS!Next

\* Clients come while the server listens, and leave one by one.
LEMMA ConnsGraceful ==
    ASSUME DrainInv, NEW x \in Conns,
           Connect(x) \/ RequestServed(x) \/ RequestAgain(x) \/ ClientCloses(x) \/ ConnectionCloses(x)
    PROVE  [GS!Next]_(GS!gsVars)
  <1> USE DEF startVars, entVars, netVars, sigVars, procVars
  <1>1. /\ Alive /\ UNCHANGED <<listening, entVars, sigVars, exit>> /\ DOMAIN conn = Conns
        /\ ServerOf(x) \in Http
    BY DEF Connect, RequestServed, RequestAgain, ClientCloses, ConnectionCloses, Becomes, DrainInv, TypeOK, ServerOf, Http
  <1>2. UNCHANGED <<Phase, Outcome>>
    BY <1>1 DEF Phase, Outcome, Alive
  <1>3. CASE Connect(x)
    <2>1. Phase = "serving"
      BY <1>1, <1>3 DEF Connect, DrainInv, FlagGuards, Phase
    <2>2. {y \in Conns : Open(y)}' = {y \in Conns : Open(y)} \cup {x}
      BY <1>1, <1>3 DEF Connect, Open
    <2> QED
      BY <1>1, <1>2, <2>1, <2>2 DEF GS!Next, GS!Accept
  <1>4. CASE Open(x) /\ conn' = [conn EXCEPT ![x] = "gone"]
    <2>2. {y \in Conns : Open(y)}' = {y \in Conns : Open(y)} \ {x}
      BY <1>1, <1>4 DEF Open
    <2>3. Phase # "ended"
      BY <1>1 DEF Phase
    <2> QED
      BY <1>1, <1>2, <1>4, <2>2, <2>3 DEF GS!Next, GS!Leave
  <1>5. ASSUME NEW state \in {"idle", "open"}, Open(x), conn' = [conn EXCEPT ![x] = state]
        PROVE  [GS!Next]_(GS!gsVars)
    BY <1>1, <1>5, Unseen DEF Open
  <1>6. \/ Connect(x)
        \/ Open(x) /\ \E state \in {"gone", "idle", "open"} : conn' = [conn EXCEPT ![x] = state]
    BY DEF RequestServed, RequestAgain, ClientCloses, ConnectionCloses, Becomes, Open
  <1> QED
    BY <1>3, <1>4, <1>5, <1>6

\* shutdown() closes no connection itself, since none is left when it gets
\* there, and releases one instance after the other.
LEMMA StopGraceful ==
    ASSUME Callers = {}, DrainInv, GraceInv, NEW t \in Signals, StopStep(t)
    PROVE  [GS!Next]_(GS!gsVars)
  <1> USE DEF startVars, entVars, netVars, sigVars, procVars
  <1>1. Alive /\ UNCHANGED <<listening, sigVars, exit>>
    BY DEF StopStep, HttpClosed, SocketKillTimeout, WssClosed, ShutdownCallbackDone,
           ShutdownCallbackFails, ShutdownInstances, InstanceStopped, InstanceStopFails, FinishStop
  <1>2. CASE HttpClosed(t) \/ SocketKillTimeout(t)
    <2>1. UNCHANGED instance
      BY <1>2 DEF HttpClosed, SocketKillTimeout
    <2>2. ASSUME NEW x \in Conns PROVE Open(x)' <=> Open(x)
      <3>1. CASE HttpClosed(t)
        BY <3>1 DEF HttpClosed, Open
      <3>2. CASE SocketKillTimeout(t)
        <4>1. ~Open(x)
          BY <3>2 DEF SocketKillTimeout, DrainInv, StopOrder, NotDrained
        <4> QED
          BY <3>2, <4>1 DEF SocketKillTimeout, Open
      <3> QED
        BY <1>2, <3>1, <3>2
    <2> QED
      BY <1>1, <2>1, <2>2, Unseen
  <1>3. CASE \/ WssClosed(t) \/ FinishStop(t)
             \/ \E c \in ShutdownSet : ShutdownCallbackDone(t, c) \/ ShutdownCallbackFails(t, c)
    <2>1. UNCHANGED <<instance, conn>>
      BY <1>3 DEF WssClosed, FinishStop, ShutdownCallbackDone, ShutdownCallbackFails
    <2> QED
      BY <1>1, <2>1, Unseen DEF Open
  <1>4. CASE ShutdownInstances(t) \/ \E i \in Instances : InstanceStopFails(t, i)
    <2>1. UNCHANGED conn /\ DOMAIN instance = Instances
      BY <1>4 DEF ShutdownInstances, InstanceStopFails, DrainInv, TypeOK
    <2>2. \A i \in Instances : instance'[i] \in {"absent", "stopped"} <=> instance[i] \in {"absent", "stopped"}
      BY <1>4, <2>1 DEF ShutdownInstances, InstanceStopFails
    <2> QED
      BY <1>1, <2>1, <2>2, Unseen DEF Open
  <1>5. ASSUME NEW i \in Instances, InstanceStopped(t, i) PROVE GS!Release(i)
    <2>1. /\ i \in pending[t] /\ instance' = [instance EXCEPT ![i] = "stopped"] /\ UNCHANGED conn
          /\ DOMAIN instance = Instances
      BY <1>5 DEF InstanceStopped, DrainInv, TypeOK
    <2>2. ~NotDrained(t)
      BY <2>1 DEF DrainInv, StopOrder
    <2>3. isShuttingDown /\ {x \in Conns : Open(x)} = {}
      BY <2>2 DEF DrainInv, StopOrder, FlagGuards, NotDrained
    <2>4. Phase = "draining" /\ UNCHANGED <<Phase, Outcome>>
      BY <1>1, <2>3 DEF Phase, Outcome, Alive
    <2>5. UNCHANGED {x \in Conns : Open(x)}
      BY <2>1 DEF Open
    <2>6. {j \in Instances : instance[j] \notin {"absent", "stopped"}}'
            = {j \in Instances : instance[j] \notin {"absent", "stopped"}} \ {i}
      BY <2>1
    <2> QED
      BY <2>3, <2>4, <2>5, <2>6 DEF GS!Release
  <1> QED
    BY <1>2, <1>3, <1>4, <1>5 DEF StopStep, GS!Next

\* A signal begins the drain or aborts; the process ends clean when the
\* shutdown has resolved, and aborts otherwise.
LEMMA EndGraceful ==
    ASSUME Callers = {}, DrainInv, GraceInv,
           ExitAfterError \/ \E s \in Signals : Signal(s) \/ ExitAfterStop(s)
    PROVE  [GS!Next]_(GS!gsVars)
  <1> USE DEF startVars, entVars, netVars, sigVars, procVars
  <1>1. /\ Alive /\ UNCHANGED entVars /\ UNCHANGED {x \in Conns : Open(x)}
        /\ Phase # "ended" /\ Outcome = "none"
    <2>1. Alive /\ UNCHANGED entVars
      BY DEF ExitAfterError, Signal, ExitAfterStop
    <2>2. UNCHANGED conn \/ \E s \in Signals : BeginStop(s)
      BY DEF ExitAfterError, Signal, ExitAfterStop
    <2>3. ASSUME NEW x \in Conns PROVE Open(x)' <=> Open(x)
      BY <2>2 DEF BeginStop, Open
    <2>4. UNCHANGED {x \in Conns : Open(x)}
      BY <2>3
    <2> QED
      BY <2>1, <2>4 DEF Phase, Outcome, Alive
  <1>2. CASE exit' \in {"1", "killed"}
    <2>1. Phase' = "ended" /\ Outcome' = "aborted"
      BY <1>2 DEF Phase, Outcome, Alive
    <2> QED
      BY <1>1, <2>1 DEF GS!Next, GS!Abort
  <1>3. ASSUME NEW s \in Signals, ExitAfterStop(s), stop[s] = "done"
        PROVE  [GS!Next]_(GS!gsVars)
    <2>1. Phase' = "ended" /\ Outcome' = "clean"
      BY <1>3 DEF ExitAfterStop, Phase, Outcome, Alive
    <2>2. isShuttingDown /\ (\A x \in Conns : ~Open(x)) /\ AllReleased(s)
      BY <1>3 DEF DrainInv, FlagGuards, StopOrder, NotDrained, GraceInv, Collected
    <2>3. Phase = "draining"
      BY <1>1, <2>2 DEF Phase
    <2> QED
      BY <1>1, <2>1, <2>2, <2>3 DEF GS!Next, GS!EndClean, AllReleased
  <1>4. ASSUME NEW s \in Signals, Signal(s), exit' \notin {"1", "killed"}
        PROVE  [GS!Next]_(GS!gsVars)
    <2>1. CASE UNCHANGED <<isShuttingDown, netVars, stopVars, procVars>>
      BY <1>1, <2>1, Unseen DEF Open
    <2>2. CASE /\ handlers /\ ~isShuttingDown /\ isShuttingDown' = TRUE
               /\ BeginStop(s) /\ UNCHANGED procVars
      <3>1. Phase = "serving"
        BY <1>1, <2>2 DEF DrainInv, FlagGuards, Phase, Http
      <3>2. Phase' = "draining" /\ UNCHANGED Outcome
        BY <1>1, <2>2 DEF Phase, Outcome, Alive
      <3> QED
        BY <1>1, <3>1, <3>2 DEF GS!Next, GS!Drain
    <2> QED
      BY <1>4, <2>1, <2>2 DEF Signal
  <1> QED
    BY <1>2, <1>3, <1>4 DEF ExitAfterError, ExitAfterStop

\* Every step is a step of GracefulStop or a stutter.
LEMMA NextGraceful ==
    ASSUME Callers = {}, DrainInv, GraceInv, [Next]_vars
    PROVE  [GS!Next]_(GS!gsVars)
  <1> USE DEF startVars, netVars, entVars, jobVars, sigVars, stopVars, procVars
  <1>1. CASE UNCHANGED vars
    BY <1>1, Unseen DEF vars, Open
  <1>2. CASE \/ \E j \in Jobs : JobFinished(j) \/ JobAgain(j) \/ JobFailed(j)
             \/ WssCloses \/ UncaughtError
    BY <1>2, Unseen DEF JobFinished, JobAgain, JobFailed, JobStep, WssCloses, UncaughtError, Open
  <1> QED
    BY <1>1, <1>2, InitStepGraceful, ConnsGraceful, StopGraceful, EndGraceful DEF Next, Threads

\* Under signal-only use the server implements GracefulStop: it accepts nobody
\* once it drains, releases only when nobody is left, and ends clean only with
\* nothing held.
THEOREM GracefulImplemented ==
    ASSUME Callers = {} PROVE Spec => Graceful
  <1>1. DrainInv /\ GraceInv /\ [Next]_vars => [GS!Next]_(GS!gsVars)
    BY NextGraceful
  <1> QED
    BY InitGraceful, GraceAlways, <1>1, PTL DEF Spec, Graceful, GS!Spec
-----------------------------------------------------------------------------
(* What a shutdown() that resolves leaves behind, in sync mode.            *)

\* Before init() reaches its callbacks none has been called, past them all
\* are done, and once it has failed none of them can end any more.
InitQuiet ==
    /\ initPc \in {"created", "secrets", "keys"} =>
           \A c \in InitSet : cbInit[c] = "idle"
    /\ initPc \in {"pubsub", "listen", "running", "unwatched", "stuck"} =>
           \A c \in InitSet : cbInit[c] = "done"
    /\ initPc = "failed" =>
           \A c \in InitSet : ~Runs(InitCallbacks, cbInit, c)

\* Both callers of shutdown() wait for init() to settle; a call that has not
\* begun has called nothing.
InitSettled ==
    /\ handlers => initPc \in {"running", "unwatched"}
    /\ \A t \in Threads :
           IF stop[t] = "idle"
           THEN pending[t] = {} /\ \A c \in ShutdownSet : cbStop[t][c] # "pending"
           ELSE initPc \in {"running", "unwatched", "failed"}

\* A running instance is registered, and none runs once a shutdown() has
\* collected what is registered.
NoneEscapes ==
    /\ \A i \in Instances : instance[i] = "running" => i \in registered
    /\ \A t \in Threads : stop[t] \in {"entities", "done"} =>
           \A i \in Instances : instance[i] # "running"

EscapeInv == InitQuiet /\ InitSettled /\ NoneEscapes

\* At the start nothing has begun.
LEMMA EscapeInit == Init => EscapeInv
<1> SUFFICES ASSUME Init PROVE EscapeInv
  OBVIOUS
<1>1. InitQuiet
  BY DEF Init, InitQuiet
<1>2. InitSettled
  BY DEF Init, InitSettled
<1>3. NoneEscapes
  BY DEF Init, NoneEscapes
<1>4. QED
  BY <1>1, <1>2, <1>3 DEF EscapeInv

\* In sync mode the failure of a callback leaves none that could still run:
\* those before it are done, those after it wait for it.
LEMMA FailureIsLast ==
    ASSUME SyncCallbacks, TypeOK, NEW c \in InitSet, Runs(InitCallbacks, cbInit, c),
           cbInit' = [cbInit EXCEPT ![c] = "failed"]
    PROVE  \A d \in InitSet : ~Runs(InitCallbacks, cbInit, d)'
<1> SUFFICES ASSUME NEW d \in InitSet, Runs(InitCallbacks, cbInit, d)'
             PROVE  FALSE
  OBVIOUS
<1>1. cbInit \in [InitSet -> CallbackStates]
  BY DEF TypeOK
<1>2. cbInit'[c] = "failed" /\ \A e \in InitSet \ {c} : cbInit'[e] = cbInit[e]
  BY <1>1
<1>3. d # c /\ cbInit[d] = "pending"
  BY <1>2 DEF Runs
<1>4. PICK i \in DOMAIN InitCallbacks : InitCallbacks[i] = c
  BY DEF InitSet, Range
<1>5. PICK j \in DOMAIN InitCallbacks : InitCallbacks[j] = d
  BY DEF InitSet, Range
<1>6. i \in Nat /\ j \in Nat
  BY <1>4, <1>5, LifecycleAssumption
<1>7. ~(j < i)
  BY <1>3, <1>4, <1>5 DEF Runs
<1>8. ~(i < j)
  BY <1>2, <1>4, <1>5 DEF Runs
<1>9. QED
  BY <1>3, <1>4, <1>5, <1>6, <1>7, <1>8

\* A step of init() keeps the callbacks in their order; it is taken before
\* init() settles, so while nobody shuts down.
LEMMA InitStepQuiet ==
    ASSUME SyncCallbacks, TypeOK, EscapeInv, InitStep
    PROVE  InitQuiet' /\ initPc \notin {"running", "unwatched", "failed"}
<1> USE DEF EscapeInv, InitQuiet, TypeOK
<1>1. CASE StartInit
  BY <1>1 DEF StartInit, Proceed, AfterSecrets
<1>2. CASE SecretsLoaded
  BY <1>2 DEF SecretsLoaded, Proceed, AfterSecrets
<1>3. CASE KeysFetched
  BY <1>3 DEF KeysFetched, Proceed
<1>4. CASE InitStepFails
  BY <1>4 DEF InitStepFails, Runs
<1>5. ASSUME NEW c \in InitSet, InitCallbackDone(c)
       PROVE InitQuiet' /\ initPc \notin {"running", "unwatched", "failed"}
  <2>1. initPc = "callbacks"
    BY <1>5 DEF InitCallbackDone, Runs, InitStages
  <2>2. initPc' = "callbacks"
    BY <1>5, <2>1 DEF InitCallbackDone
  <2>3. QED
    BY <2>1, <2>2
<1>6. ASSUME NEW c \in InitSet, InitCallbackFails(c)
       PROVE InitQuiet' /\ initPc \notin {"running", "unwatched", "failed"}
  <2>1. initPc = "callbacks"
    BY <1>6 DEF InitCallbackFails, Runs, InitStages
  <2>2. initPc' = "failed"
    BY <1>6 DEF InitCallbackFails
  <2>3. \A d \in InitSet : ~Runs(InitCallbacks, cbInit, d)'
    BY <1>6, FailureIsLast DEF InitCallbackFails
  <2>4. QED
    BY <2>1, <2>2, <2>3
<1>7. CASE InitCallbacksDone
  BY <1>7 DEF InitCallbacksDone, Proceed
<1>8. CASE PubSubReady
  BY <1>8 DEF PubSubReady, Proceed
<1>9. ASSUME NEW bound \in SUBSET Http, StartListening(bound)
       PROVE InitQuiet' /\ initPc \notin {"running", "unwatched", "failed"}
  BY <1>9 DEF StartListening
<1>10. QED
  BY <1>1, <1>2, <1>3, <1>4, <1>5, <1>6, <1>7, <1>8, <1>9 DEF InitStep

\* What init() starts it registers, and nobody has collected anything yet.
LEMMA InitEscape ==
    ASSUME SyncCallbacks, TypeOK, EscapeInv, InitStep
    PROVE  EscapeInv'
<1> USE DEF EscapeInv
<1>1. InitQuiet' /\ initPc \notin {"running", "unwatched", "failed"}
  BY InitStepQuiet
<1>2. (\A t \in Threads : stop[t] = "idle") /\ ~handlers
  BY <1>1 DEF InitSettled
<1>3. UNCHANGED stopVars
  BY DEF InitStep, StartInit, SecretsLoaded, KeysFetched, InitStepFails, InitCallbackDone,
         InitCallbackFails, InitCallbacksDone, PubSubReady, StartListening
<1>4. \A t \in Threads : stop'[t] = "idle"
  BY <1>2, <1>3 DEF stopVars
<1>5. UNCHANGED handlers \/ initPc' \in {"running", "unwatched"} \/ ~handlers'
  BY DEF InitStep, StartInit, SecretsLoaded, KeysFetched, InitStepFails, InitCallbackDone,
         InitCallbackFails, InitCallbacksDone, PubSubReady, StartListening, Http
<1>6. UNCHANGED entVars \/ \E i \in Instances : Register(i)
  BY DEF InitStep, StartInit, SecretsLoaded, KeysFetched, InitStepFails, InitCallbackDone,
         InitCallbackFails, InitCallbacksDone, PubSubReady, StartListening, Instances
<1>7. InitSettled'
  BY <1>2, <1>3, <1>4, <1>5 DEF InitSettled, stopVars
<1>8. \A i \in Instances : instance'[i] = "running" => i \in registered'
  BY <1>6 DEF NoneEscapes, Register, entVars, TypeOK
<1>9. QED
  BY <1>1, <1>4, <1>7, <1>8 DEF NoneEscapes

\* A shutdown() call begins only once init() has settled.
LEMMA BeginEscape ==
    ASSUME TypeOK, EscapeInv, NEW t \in Threads, BeginStop(t),
           initPc \in {"running", "unwatched", "failed"}, UNCHANGED <<startVars, entVars>>
    PROVE  EscapeInv'
<1> USE DEF EscapeInv, startVars, entVars
<1>1. stop' = [stop EXCEPT ![t] = "draining"] /\ UNCHANGED <<cbStop, pending>>
  BY DEF BeginStop
<1>2. InitQuiet'
  BY DEF InitQuiet, Runs
<1>3. InitSettled'
  BY <1>1 DEF InitSettled, TypeOK
<1>4. NoneEscapes'
  BY <1>1 DEF NoneEscapes, TypeOK
<1>5. QED
  BY <1>2, <1>3, <1>4

\* A step of a shutdown() that is not the end of one, nor the collecting of
\* its instances, leaves init() and the registered instances alone.
LEMMA StopStepKinds ==
    ASSUME TypeOK, EscapeInv, NEW t \in Threads, StopStep(t)
    PROVE  /\ stop[t] # "idle" /\ UNCHANGED <<initPc, cbInit>>
           /\ \A u \in Threads \ {t} : /\ stop'[u] = stop[u] /\ pending'[u] = pending[u]
                                       /\ cbStop'[u] = cbStop[u]
           /\ stop'[t] # "idle"
           /\ \/ ShutdownInstances(t)
              \/ FinishStop(t)
              \/ /\ UNCHANGED <<handlers, registered>>
                 /\ \A i \in Instances : instance'[i] = "running" => instance[i] = "running"
                 /\ stop'[t] = stop[t] \/ stop'[t] \notin {"entities", "done"}
<1> DEFINE Goal == /\ stop[t] # "idle" /\ UNCHANGED <<initPc, cbInit>>
                   /\ \A u \in Threads \ {t} :
                          /\ stop'[u] = stop[u] /\ pending'[u] = pending[u]
                          /\ cbStop'[u] = cbStop[u]
                   /\ stop'[t] # "idle"
           Small == /\ UNCHANGED <<handlers, registered>>
                    /\ \A i \in Instances : instance'[i] = "running" => instance[i] = "running"
                    /\ stop'[t] = stop[t] \/ stop'[t] \notin {"entities", "done"}
<1> USE DEF EscapeInv, InitSettled, TypeOK, startVars, entVars
<1>1. CASE HttpClosed(t)
  <2>1. Goal
    BY <1>1 DEF HttpClosed, StartShutdownCallbacks
  <2>2. Small
    BY <1>1 DEF HttpClosed, StartShutdownCallbacks
  <2>3. QED
    BY <2>1, <2>2
<1>2. CASE SocketKillTimeout(t)
  <2>1. Goal
    BY <1>2 DEF SocketKillTimeout
  <2>2. Small
    BY <1>2 DEF SocketKillTimeout
  <2>3. QED
    BY <2>1, <2>2
<1>3. CASE WssClosed(t)
  <2>1. Goal
    BY <1>3 DEF WssClosed, StartShutdownCallbacks
  <2>2. Small
    BY <1>3 DEF WssClosed, StartShutdownCallbacks
  <2>3. QED
    BY <2>1, <2>2
<1>4. ASSUME NEW c \in ShutdownSet, ShutdownCallbackDone(t, c) \/ ShutdownCallbackFails(t, c)
      PROVE  Goal /\ Small
  <2>1. Goal
    BY <1>4 DEF ShutdownCallbackDone, ShutdownCallbackFails, Runs
  <2>2. Small
    BY <1>4 DEF ShutdownCallbackDone, ShutdownCallbackFails
  <2>3. QED
    BY <2>1, <2>2
<1>5. CASE ShutdownInstances(t)
  <2>1. Goal
    BY <1>5 DEF ShutdownInstances
  <2>2. QED
    BY <1>5, <2>1
<1>6. ASSUME NEW i \in Instances, InstanceStopped(t, i) \/ InstanceStopFails(t, i)
      PROVE  Goal /\ Small
  <2>1. Goal
    BY <1>6 DEF InstanceStopped, InstanceStopFails
  <2>2. Small
    BY <1>6 DEF InstanceStopped, InstanceStopFails
  <2>3. QED
    BY <2>1, <2>2
<1>7. CASE FinishStop(t)
  <2>1. Goal
    BY <1>7 DEF FinishStop
  <2>2. QED
    BY <1>7, <2>1
<1>8. QED
  BY <1>1, <1>2, <1>3, <1>4, <1>5, <1>6, <1>7 DEF StopStep

\* A step of a shutdown() starts nothing; the one that collects the instances
\* stops each that runs, since it is registered.
LEMMA StopEscape ==
    ASSUME TypeOK, EscapeInv, NEW t \in Threads, StopStep(t)
    PROVE  EscapeInv'
<1> USE DEF EscapeInv
<1>1. /\ stop[t] # "idle" /\ UNCHANGED <<initPc, cbInit>>
      /\ \A u \in Threads \ {t} : /\ stop'[u] = stop[u] /\ pending'[u] = pending[u]
                                  /\ cbStop'[u] = cbStop[u]
      /\ stop'[t] # "idle"
  BY StopStepKinds
<1>2. InitQuiet'
  BY <1>1 DEF InitQuiet, Runs
<1>3. handlers' => handlers
  BY StopStepKinds DEF ShutdownInstances, FinishStop, startVars
<1>4. InitSettled'
  BY <1>1, <1>3 DEF InitSettled
<1>5. CASE ShutdownInstances(t)
  <2>1. \A i \in Instances : instance'[i] # "running"
    BY <1>5 DEF ShutdownInstances, NoneEscapes, TypeOK
  <2>2. QED
    BY <1>2, <1>4, <2>1 DEF NoneEscapes
<1>6. CASE FinishStop(t)
  <2>1. \A i \in Instances : instance'[i] # "running"
    BY <1>6 DEF FinishStop, NoneEscapes
  <2>2. QED
    BY <1>2, <1>4, <2>1 DEF NoneEscapes
<1>7. CASE /\ UNCHANGED <<handlers, registered>>
           /\ \A i \in Instances : instance'[i] = "running" => instance[i] = "running"
           /\ stop'[t] = stop[t] \/ stop'[t] \notin {"entities", "done"}
  <2>1. NoneEscapes'
    BY <1>1, <1>7 DEF NoneEscapes
  <2>2. QED
    BY <1>2, <1>4, <2>1
<1>8. QED
  BY <1>5, <1>6, <1>7, StopStepKinds

\* Every step keeps what is known of init() and of the running instances.
LEMMA EscapeStep ==
    ASSUME SyncCallbacks, TypeOK, EscapeInv, [Next]_vars
    PROVE  EscapeInv'
<1>1. ASSUME UNCHANGED <<startVars, entVars, stopVars>>
      PROVE  EscapeInv'
  <2>1. InitQuiet' /\ InitSettled'
    BY <1>1 DEF EscapeInv, InitQuiet, InitSettled, Runs, startVars, stopVars
  <2>2. NoneEscapes'
    BY <1>1 DEF EscapeInv, NoneEscapes, entVars, stopVars
  <2>3. QED
    BY <2>1, <2>2 DEF EscapeInv
<1>2. CASE InitStep
  BY <1>2, InitEscape
<1>3. ASSUME NEW x \in Conns, Connect(x) \/ RequestServed(x) \/ RequestAgain(x) \/ ClientCloses(x) \/ ConnectionCloses(x)
      PROVE  EscapeInv'
  BY <1>1, <1>3 DEF Connect, RequestServed, RequestAgain, ClientCloses, ConnectionCloses, Becomes
<1>4. ASSUME NEW j \in Jobs, JobFinished(j) \/ JobAgain(j) \/ JobFailed(j)
      PROVE  EscapeInv'
  BY <1>1, <1>4 DEF JobFinished, JobAgain, JobFailed, JobStep
<1>5. ASSUME NEW t \in Threads, StopStep(t)
      PROVE  EscapeInv'
  BY <1>5, StopEscape
<1>6. ASSUME NEW t \in Callers, HostStops(t)
      PROVE  EscapeInv'
  BY <1>6, BeginEscape DEF HostStops, Threads
<1>7. ASSUME NEW s \in Signals, Signal(s)
      PROVE  EscapeInv'
  <2>1. CASE handlers /\ BeginStop(s)
    BY <1>7, <2>1, BeginEscape DEF Signal, Threads, EscapeInv, InitSettled
  <2>2. CASE UNCHANGED stopVars
    BY <1>1, <1>7, <2>2 DEF Signal
  <2>3. QED
    BY <1>7, <2>1, <2>2 DEF Signal
<1>8. CASE WssCloses \/ UncaughtError \/ ExitAfterError \/ UNCHANGED vars
  BY <1>1, <1>8 DEF WssCloses, UncaughtError, ExitAfterError, vars
<1>9. ASSUME NEW s \in Signals, ExitAfterStop(s)
      PROVE  EscapeInv'
  BY <1>1, <1>9 DEF ExitAfterStop
<1>10. QED
  BY <1>2, <1>3, <1>4, <1>5, <1>6, <1>7, <1>8, <1>9 DEF Next

\* With sync callbacks, whoever calls shutdown(), how often, and whether or
\* not init() succeeded: a shutdown() that resolves leaves no instance running.
THEOREM NothingLeftRunning ==
    ASSUME SyncCallbacks
    PROVE  Spec => []StoppedLeavesNothing
<1>1. TypeOK /\ EscapeInv /\ [Next]_vars => (TypeOK /\ EscapeInv)'
  BY TypeStep, EscapeStep
<1>2. EscapeInv => StoppedLeavesNothing
  BY DEF EscapeInv, NoneEscapes, StoppedLeavesNothing
<1>3. QED
  BY <1>1, <1>2, TypeInit, EscapeInit, PTL DEF Spec
=============================================================================
