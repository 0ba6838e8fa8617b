---------------------------- MODULE RuntimeProofs ----------------------------
(***************************************************************************)
(* What holds of the life of an application for any number of cores and    *)
(* ports.                                                                  *)
(*                                                                         *)
(* The inductive invariant is built in layers: what the loops of the main  *)
(* thread have left (TodoInv), what the devices and the background threads *)
(* are by the phase of the main thread (ServingInv, ThreadInv), and who    *)
(* has the KniTx of a port (KniInv, PlacedInv).                            *)
(***************************************************************************)
EXTENDS Runtime, TLAPS

\* The main thread while background threads may run their tasks.
Serving == {"unpark", "listen", "wait", "shutdown", "join"}
\* Runtime::build, and Runtime::execute up to the stop.
Building == {"eal", "mempools", "cores", "await_core", "ports"}
Starting == {"install", "kni_tx", "start_ports"}
Before   == Building \union Starting \union {"unpark", "listen", "wait"}

\* What a loop has left is of what it is over, and the core that is waited
\* for is one the loop has not left behind.
TodoInv ==
  /\ main \in {"cores", "await_core", "unpark", "shutdown", "join"}
       => todo \subseteq Background
  /\ main \in {"await_core", "join"} => current \in todo
  /\ main \in {"ports", "start_ports", "stop_ports", "drop_ports"}
       => todo \subseteq Port
  /\ main = "kni_tx" => todo \subseteq KniPort

\* EAL and the mempools are there from build on, the ports have been started
\* when the first thread is unparked, and no thread runs before or after.
ServingInv ==
  /\ main \in (Building \ {"eal"}) \union Starting \union Serving => eal = "up"
  /\ main \in (Building \ {"eal", "mempools"}) \union Starting \union Serving
       => pools = "live"
  /\ main = "start_ports" => \A p \in Port \ todo : port[p] = "started"
  /\ main \in Serving => \A p \in Port : port[p] = "started"
  /\ \A c \in Background : thread[c] = "running" => main \in Serving
  /\ main \in {"shutdown", "join"} =>
       \A c \in Background \ todo : thread[c] = "ended"

\* No trigger is sent and no thread ends before the stop; from then on every
\* thread runs until it has ended, and the one that is joined was triggered.
ThreadInv ==
  /\ main \in Before =>
       \A c \in Background :
         trigger[c] \in {"none", "armed"} /\ thread[c] # "ended"
  /\ main = "unpark" => \A c \in Background \ todo : thread[c] = "running"
  /\ main \in {"listen", "wait", "shutdown", "join"} =>
       \A c \in Background : thread[c] \in {"running", "ended"}
  /\ main = "join" => trigger[current] = "sent"

\* A core that has the KniTx of a port is one of the port's cores, and its
\* thread has not ended; batches wait on a channel only as long as a core is
\* there to collect them.
KniInv ==
  \A p \in KniPort :
    /\ main \in Building \union {"build_failed"} => kni_tx[p] \notin Core
    /\ main \in Building \union Starting => chan[p] = 0
    /\ kni_tx[p] \in Core =>
         /\ kni_tx[p] \in PortCores[p]
         /\ kni_tx[p] # Master => thread[kni_tx[p]] # "ended"
    /\ chan[p] > 0 =>
         /\ kni_tx[p] \in Core
         /\ kni_tx[p] # Master => main \in Serving

\* Every port the loop of add_kni_tx_pipelines has left behind has its KniTx.
PlacedInv ==
  /\ main = "kni_tx" =>
       \A p \in KniPort \ todo : kni_tx[p] \in PortCores[p]
  /\ main \in {"start_ports", "unpark", "listen", "wait"} =>
       \A p \in KniPort : kni_tx[p] \in PortCores[p]

\* The thread that shutdown_cores joins has been triggered, and it is running
\* or has ended already: it was not left parked, where it would not see the
\* trigger.
JoinsWhatEnds ==
  main = "join" =>
    trigger[current] = "sent" /\ thread[current] \in {"running", "ended"}

-----------------------------------------------------------------------------
(***************************************************************************)
(* Every step keeps the types and what the loops have left.                *)
(***************************************************************************)
LEMMA TypeStep ==
  ASSUME TypeOK, TodoInv, [Next]_vars
  PROVE  (TypeOK /\ TodoInv)'
<1> USE RuntimeAssumption
        DEF TypeOK, TodoInv, Background, cores, devices, tasks
<1>1. CASE EalInit
  BY <1>1 DEF EalInit, At
<1>2. CASE MempoolsInit
  BY <1>2 DEF MempoolsInit, At
<1>3. CASE SpawnCore
  BY <1>3 DEF SpawnCore
<1>4. CASE CoreReady
  BY <1>4 DEF CoreReady
<1>5. CASE CoresInit
  BY <1>5 DEF CoresInit, Leave, At
<1>6. CASE CreatePort
  BY <1>6 DEF CreatePort, Each
<1>7. CASE PortsInit
  BY <1>7 DEF PortsInit, Leave, At
<1>8. CASE Install
  BY <1>8 DEF Install, Fails
<1>9. CASE AddKniTx
  BY <1>9 DEF AddKniTx, Each
<1>10. CASE KniTxAdded
  BY <1>10 DEF KniTxAdded, Leave, At
<1>11. CASE StartPort
  BY <1>11 DEF StartPort, Each, Fails
<1>12. CASE PortsStarted
  BY <1>12 DEF PortsStarted, Leave, At
<1>13. CASE UnparkCore
  BY <1>13 DEF UnparkCore, Each
<1>14. CASE CoresUnparked
  BY <1>14 DEF CoresUnparked, Leave, At
<1>15. CASE Listen
  BY <1>15 DEF Listen, Fails
<1>16. CASE ShutdownCore
  BY <1>16 DEF ShutdownCore
<1>17. CASE JoinCore
  BY <1>17 DEF JoinCore
<1>18. CASE CoresShutdown
  BY <1>18 DEF CoresShutdown, Leave, At
<1>19. CASE StopPort
  BY <1>19 DEF StopPort, Each
<1>20. CASE Return
  BY <1>20 DEF Return, Leave, At
<1>21. CASE DropPort
  BY <1>21 DEF DropPort, Each
<1>22. CASE PortsDropped
  BY <1>22 DEF PortsDropped, Leave, At
<1>23. CASE DropMempools
  BY <1>23 DEF DropMempools, At
<1>24. CASE EalCleanup
  BY <1>24 DEF EalCleanup, At
<1>25. CASE DropCoreMap
  BY <1>25 DEF DropCoreMap, At, DropTasks
<1>26. CASE BuildFails
  BY <1>26 DEF BuildFails
<1>27. CASE Stop
  BY <1>27 DEF Stop, At
<1>28. ASSUME NEW c \in Background, CorePark(c) PROVE (TypeOK /\ TodoInv)'
  BY <1>28 DEF CorePark
<1>29. ASSUME NEW c \in Background, CoreEnd(c) PROVE (TypeOK /\ TodoInv)'
  BY <1>29 DEF CoreEnd, DropTasks
<1>30. ASSUME NEW p \in KniPort, ForwardToKernel(p) PROVE (TypeOK /\ TodoInv)'
  BY <1>30 DEF ForwardToKernel, Runs
<1>31. ASSUME NEW p \in KniPort, NEW c \in Core, SendToKernel(c, p)
       PROVE  (TypeOK /\ TodoInv)'
  BY <1>31 DEF SendToKernel, Runs
<1>32. CASE UNCHANGED vars
  BY <1>32 DEF vars
<1>33. QED
  BY <1>1, <1>2, <1>3, <1>4, <1>5, <1>6, <1>7, <1>8, <1>9, <1>10, <1>11,
     <1>12, <1>13, <1>14, <1>15, <1>16, <1>17, <1>18, <1>19, <1>20, <1>21,
     <1>22, <1>23, <1>24, <1>25, <1>26, <1>27, <1>28, <1>29, <1>30, <1>31,
     <1>32
     DEF Next, MainThread, Build, Execute, Drop

(***************************************************************************)
(* Every step keeps the devices running while a thread runs, as long as    *)
(* the registration of the signal handlers does not fail.                  *)
(***************************************************************************)
LEMMA ServingStep ==
  ASSUME TypeOK, TodoInv, ServingInv, "signal" \notin MayFail, [Next]_vars
  PROVE  ServingInv'
<1> USE RuntimeAssumption
        DEF TypeOK, TodoInv, ServingInv, Background, Serving, Building,
            Starting, cores, devices, tasks
<1>1. CASE EalInit
  BY <1>1 DEF EalInit, At
<1>2. CASE MempoolsInit
  BY <1>2 DEF MempoolsInit, At
<1>3. CASE SpawnCore
  BY <1>3 DEF SpawnCore
<1>4. CASE CoreReady
  BY <1>4 DEF CoreReady
<1>5. CASE CoresInit
  BY <1>5 DEF CoresInit, Leave, At
<1>6. CASE CreatePort
  BY <1>6 DEF CreatePort, Each
<1>7. CASE PortsInit
  BY <1>7 DEF PortsInit, Leave, At
<1>8. CASE Install
  BY <1>8 DEF Install, Fails
<1>9. CASE AddKniTx
  BY <1>9 DEF AddKniTx, Each
<1>10. CASE KniTxAdded
  BY <1>10 DEF KniTxAdded, Leave, At
<1>11. CASE StartPort
  BY <1>11 DEF StartPort, Each, Fails
<1>12. CASE PortsStarted
  BY <1>12 DEF PortsStarted, Leave, At
<1>13. CASE UnparkCore
  BY <1>13 DEF UnparkCore, Each
<1>14. CASE CoresUnparked
  BY <1>14 DEF CoresUnparked, Leave, At
<1>15. CASE Listen
  BY <1>15 DEF Listen, Fails
<1>16. CASE ShutdownCore
  BY <1>16 DEF ShutdownCore
<1>17. CASE JoinCore
  BY <1>17 DEF JoinCore
<1>18. CASE CoresShutdown
  BY <1>18 DEF CoresShutdown, Leave, At
<1>19. CASE StopPort
  BY <1>19 DEF StopPort, Each
<1>20. CASE Return
  BY <1>20 DEF Return, Leave, At
<1>21. CASE DropPort
  BY <1>21 DEF DropPort, Each
<1>22. CASE PortsDropped
  BY <1>22 DEF PortsDropped, Leave, At
<1>23. CASE DropMempools
  BY <1>23 DEF DropMempools, At
<1>24. CASE EalCleanup
  BY <1>24 DEF EalCleanup, At
<1>25. CASE DropCoreMap
  BY <1>25 DEF DropCoreMap, At, DropTasks
<1>26. CASE BuildFails
  BY <1>26 DEF BuildFails
<1>27. CASE Stop
  BY <1>27 DEF Stop, At
<1>28. ASSUME NEW c \in Background, CorePark(c) PROVE ServingInv'
  BY <1>28 DEF CorePark
<1>29. ASSUME NEW c \in Background, CoreEnd(c) PROVE ServingInv'
  BY <1>29 DEF CoreEnd, DropTasks
<1>30. ASSUME NEW p \in KniPort, ForwardToKernel(p) PROVE ServingInv'
  BY <1>30 DEF ForwardToKernel, Runs
<1>31. ASSUME NEW p \in KniPort, NEW c \in Core, SendToKernel(c, p)
       PROVE  ServingInv'
  BY <1>31 DEF SendToKernel, Runs
<1>32. CASE UNCHANGED vars
  BY <1>32 DEF vars
<1>33. QED
  BY <1>1, <1>2, <1>3, <1>4, <1>5, <1>6, <1>7, <1>8, <1>9, <1>10, <1>11,
     <1>12, <1>13, <1>14, <1>15, <1>16, <1>17, <1>18, <1>19, <1>20, <1>21,
     <1>22, <1>23, <1>24, <1>25, <1>26, <1>27, <1>28, <1>29, <1>30, <1>31,
     <1>32
     DEF Next, MainThread, Build, Execute, Drop

(***************************************************************************)
(* Every step keeps the threads and triggers to their phases.              *)
(***************************************************************************)
LEMMA ThreadStep ==
  ASSUME TypeOK, TodoInv, ThreadInv, [Next]_vars
  PROVE  ThreadInv'
<1> USE RuntimeAssumption
        DEF TypeOK, TodoInv, ThreadInv, Background, Before, Building,
            Starting, cores, devices, tasks
<1>1. CASE EalInit
  BY <1>1 DEF EalInit, At
<1>2. CASE MempoolsInit
  BY <1>2 DEF MempoolsInit, At
<1>3. CASE SpawnCore
  BY <1>3 DEF SpawnCore
<1>4. CASE CoreReady
  BY <1>4 DEF CoreReady
<1>5. CASE CoresInit
  BY <1>5 DEF CoresInit, Leave, At
<1>6. CASE CreatePort
  BY <1>6 DEF CreatePort, Each
<1>7. CASE PortsInit
  BY <1>7 DEF PortsInit, Leave, At
<1>8. CASE Install
  BY <1>8 DEF Install, Fails
<1>9. CASE AddKniTx
  BY <1>9 DEF AddKniTx, Each
<1>10. CASE KniTxAdded
  BY <1>10 DEF KniTxAdded, Leave, At
<1>11. CASE StartPort
  BY <1>11 DEF StartPort, Each, Fails
<1>12. CASE PortsStarted
  BY <1>12 DEF PortsStarted, Leave, At
<1>13. CASE UnparkCore
  BY <1>13 DEF UnparkCore, Each
<1>14. CASE CoresUnparked
  BY <1>14 DEF CoresUnparked, Leave, At
<1>15. CASE Listen
  BY <1>15 DEF Listen, Fails
<1>16. CASE ShutdownCore
  BY <1>16 DEF ShutdownCore
<1>17. CASE JoinCore
  BY <1>17 DEF JoinCore
<1>18. CASE CoresShutdown
  BY <1>18 DEF CoresShutdown, Leave, At
<1>19. CASE StopPort
  BY <1>19 DEF StopPort, Each
<1>20. CASE Return
  BY <1>20 DEF Return, Leave, At
<1>21. CASE DropPort
  BY <1>21 DEF DropPort, Each
<1>22. CASE PortsDropped
  BY <1>22 DEF PortsDropped, Leave, At
<1>23. CASE DropMempools
  BY <1>23 DEF DropMempools, At
<1>24. CASE EalCleanup
  BY <1>24 DEF EalCleanup, At
<1>25. CASE DropCoreMap
  BY <1>25 DEF DropCoreMap, At, DropTasks
<1>26. CASE BuildFails
  BY <1>26 DEF BuildFails
<1>27. CASE Stop
  BY <1>27 DEF Stop, At
<1>28. ASSUME NEW c \in Background, CorePark(c) PROVE ThreadInv'
  BY <1>28 DEF CorePark
<1>29. ASSUME NEW c \in Background, CoreEnd(c) PROVE ThreadInv'
  BY <1>29 DEF CoreEnd, DropTasks
<1>30. ASSUME NEW p \in KniPort, ForwardToKernel(p) PROVE ThreadInv'
  BY <1>30 DEF ForwardToKernel, Runs
<1>31. ASSUME NEW p \in KniPort, NEW c \in Core, SendToKernel(c, p)
       PROVE  ThreadInv'
  BY <1>31 DEF SendToKernel, Runs
<1>32. CASE UNCHANGED vars
  BY <1>32 DEF vars
<1>33. QED
  BY <1>1, <1>2, <1>3, <1>4, <1>5, <1>6, <1>7, <1>8, <1>9, <1>10, <1>11,
     <1>12, <1>13, <1>14, <1>15, <1>16, <1>17, <1>18, <1>19, <1>20, <1>21,
     <1>22, <1>23, <1>24, <1>25, <1>26, <1>27, <1>28, <1>29, <1>30, <1>31,
     <1>32
     DEF Next, MainThread, Build, Execute, Drop

(***************************************************************************)
(* Every step keeps the KniTx of a port on a core that is alive, and the   *)
(* batches on a channel with it.                                           *)
(***************************************************************************)
LEMMA KniStep ==
  ASSUME TypeOK, TodoInv, ServingInv, ThreadInv, KniInv,
         "signal" \notin MayFail, [Next]_vars
  PROVE  KniInv'
<1> USE RuntimeAssumption
        DEF TypeOK, KniInv, Background, Serving, Building, Starting, cores,
            devices, tasks
<1>1. CASE EalInit
  BY <1>1 DEF EalInit, At
<1>2. CASE MempoolsInit
  BY <1>2 DEF MempoolsInit, At
<1>3. CASE SpawnCore
  BY <1>3 DEF SpawnCore
<1>4. CASE CoreReady
  BY <1>4 DEF CoreReady
<1>5. CASE CoresInit
  BY <1>5 DEF CoresInit, Leave, At
<1>6. CASE CreatePort
  BY <1>6 DEF CreatePort, Each
<1>7. CASE PortsInit
  BY <1>7 DEF PortsInit, Leave, At
<1>8. CASE Install
  BY <1>8 DEF Install, Fails, ServingInv
<1>9. CASE AddKniTx
  <2>1. PICK p \in todo : \E c \in PortCores[p] :
                kni_tx' = [q \in KniPort |-> CASE q = p -> c
                             [] q # p /\ kni_tx[q] = c -> "dropped"
                             [] OTHER -> kni_tx[q]]
    BY <1>9 DEF AddKniTx
  <2>2. PICK c \in PortCores[p] :
          kni_tx' = [q \in KniPort |-> CASE q = p -> c
                       [] q # p /\ kni_tx[q] = c -> "dropped"
                       [] OTHER -> kni_tx[q]]
    BY <2>1
  <2>3. /\ main = "kni_tx" /\ main' = "kni_tx"
        /\ thread' = thread /\ chan' = chan
        /\ p \in KniPort /\ c \in Core
        /\ c # Master => thread[c] # "ended"
    BY <1>9 DEF AddKniTx, Each, TodoInv, ThreadInv, Before, Starting
  <2>4. ASSUME NEW q \in KniPort
        PROVE  \/ kni_tx'[q] = c
               \/ kni_tx'[q] = "dropped"
               \/ kni_tx'[q] = kni_tx[q]
    BY <2>2
  <2>5. chan = [q \in KniPort |-> chan[q]]
    OBVIOUS
  <2>6. QED
    BY <2>2, <2>3, <2>4
<1>10. CASE KniTxAdded
  BY <1>10 DEF KniTxAdded, Leave, At
<1>11. CASE StartPort
  BY <1>11 DEF StartPort, Each, Fails
<1>12. CASE PortsStarted
  BY <1>12 DEF PortsStarted, Leave, At
<1>13. CASE UnparkCore
  BY <1>13 DEF UnparkCore, Each
<1>14. CASE CoresUnparked
  BY <1>14 DEF CoresUnparked, Leave, At
<1>15. CASE Listen
  BY <1>15 DEF Listen, Fails
<1>16. CASE ShutdownCore
  BY <1>16 DEF ShutdownCore
<1>17. CASE JoinCore
  BY <1>17 DEF JoinCore
<1>18. CASE CoresShutdown
  BY <1>18 DEF CoresShutdown, Leave, At, ServingInv
<1>19. CASE StopPort
  BY <1>19 DEF StopPort, Each
<1>20. CASE Return
  BY <1>20 DEF Return, Leave, At
<1>21. CASE DropPort
  BY <1>21 DEF DropPort, Each
<1>22. CASE PortsDropped
  BY <1>22 DEF PortsDropped, Leave, At
<1>23. CASE DropMempools
  BY <1>23 DEF DropMempools, At
<1>24. CASE EalCleanup
  BY <1>24 DEF EalCleanup, At
<1>25. CASE DropCoreMap
  BY <1>25 DEF DropCoreMap, At, DropTasks
<1>26. CASE BuildFails
  BY <1>26 DEF BuildFails
<1>27. CASE Stop
  BY <1>27 DEF Stop, At
<1>28. ASSUME NEW c \in Background, CorePark(c) PROVE KniInv'
  BY <1>28 DEF CorePark
<1>29. ASSUME NEW c \in Background, CoreEnd(c) PROVE KniInv'
  BY <1>29 DEF CoreEnd, DropTasks
<1>30. ASSUME NEW p \in KniPort, ForwardToKernel(p) PROVE KniInv'
  BY <1>30 DEF ForwardToKernel, Runs
<1>31. ASSUME NEW p \in KniPort, NEW c \in Core, SendToKernel(c, p)
       PROVE  KniInv'
  BY <1>31 DEF SendToKernel, Runs, ServingInv
<1>32. CASE UNCHANGED vars
  BY <1>32 DEF vars
<1>33. QED
  BY <1>1, <1>2, <1>3, <1>4, <1>5, <1>6, <1>7, <1>8, <1>9, <1>10, <1>11,
     <1>12, <1>13, <1>14, <1>15, <1>16, <1>17, <1>18, <1>19, <1>20, <1>21,
     <1>22, <1>23, <1>24, <1>25, <1>26, <1>27, <1>28, <1>29, <1>30, <1>31,
     <1>32
     DEF Next, MainThread, Build, Execute, Drop

(***************************************************************************)
(* When no two KNI ports share a core, no KniTx displaces another.         *)
(***************************************************************************)
LEMMA PlacedStep ==
  ASSUME TypeOK, TodoInv, ThreadInv, PlacedInv,
         \A p, q \in KniPort :
           p # q => PortCores[p] \intersect PortCores[q] = {},
         [Next]_vars
  PROVE  PlacedInv'
<1> USE RuntimeAssumption
        DEF TypeOK, TodoInv, PlacedInv, Background, cores, devices, tasks
<1>1. CASE EalInit
  BY <1>1 DEF EalInit, At
<1>2. CASE MempoolsInit
  BY <1>2 DEF MempoolsInit, At
<1>3. CASE SpawnCore
  BY <1>3 DEF SpawnCore
<1>4. CASE CoreReady
  BY <1>4 DEF CoreReady
<1>5. CASE CoresInit
  BY <1>5 DEF CoresInit, Leave, At
<1>6. CASE CreatePort
  BY <1>6 DEF CreatePort, Each
<1>7. CASE PortsInit
  BY <1>7 DEF PortsInit, Leave, At
<1>8. CASE Install
  BY <1>8 DEF Install, Fails
<1>9. CASE AddKniTx
  BY <1>9 DEF AddKniTx, Each
<1>10. CASE KniTxAdded
  BY <1>10 DEF KniTxAdded, Leave, At
<1>11. CASE StartPort
  BY <1>11 DEF StartPort, Each, Fails
<1>12. CASE PortsStarted
  BY <1>12 DEF PortsStarted, Leave, At
<1>13. CASE UnparkCore
  BY <1>13 DEF UnparkCore, Each
<1>14. CASE CoresUnparked
  BY <1>14 DEF CoresUnparked, Leave, At
<1>15. CASE Listen
  BY <1>15 DEF Listen, Fails
<1>16. CASE ShutdownCore
  BY <1>16 DEF ShutdownCore
<1>17. CASE JoinCore
  BY <1>17 DEF JoinCore
<1>18. CASE CoresShutdown
  BY <1>18 DEF CoresShutdown, Leave, At
<1>19. CASE StopPort
  BY <1>19 DEF StopPort, Each
<1>20. CASE Return
  BY <1>20 DEF Return, Leave, At
<1>21. CASE DropPort
  BY <1>21 DEF DropPort, Each
<1>22. CASE PortsDropped
  BY <1>22 DEF PortsDropped, Leave, At
<1>23. CASE DropMempools
  BY <1>23 DEF DropMempools, At
<1>24. CASE EalCleanup
  BY <1>24 DEF EalCleanup, At
<1>25. CASE DropCoreMap
  BY <1>25 DEF DropCoreMap, At, DropTasks
<1>26. CASE BuildFails
  BY <1>26 DEF BuildFails
<1>27. CASE Stop
  BY <1>27 DEF Stop, At
<1>28. ASSUME NEW c \in Background, CorePark(c) PROVE PlacedInv'
  BY <1>28 DEF CorePark
<1>29. ASSUME NEW c \in Background, CoreEnd(c) PROVE PlacedInv'
  BY <1>29 DEF CoreEnd, DropTasks, ThreadInv, Before, Building, Starting
<1>30. ASSUME NEW p \in KniPort, ForwardToKernel(p) PROVE PlacedInv'
  BY <1>30 DEF ForwardToKernel, Runs
<1>31. ASSUME NEW p \in KniPort, NEW c \in Core, SendToKernel(c, p)
       PROVE  PlacedInv'
  BY <1>31 DEF SendToKernel, Runs
<1>32. CASE UNCHANGED vars
  BY <1>32 DEF vars
<1>33. QED
  BY <1>1, <1>2, <1>3, <1>4, <1>5, <1>6, <1>7, <1>8, <1>9, <1>10, <1>11,
     <1>12, <1>13, <1>14, <1>15, <1>16, <1>17, <1>18, <1>19, <1>20, <1>21,
     <1>22, <1>23, <1>24, <1>25, <1>26, <1>27, <1>28, <1>29, <1>30, <1>31,
     <1>32
     DEF Next, MainThread, Build, Execute, Drop

-----------------------------------------------------------------------------
(***************************************************************************)
(* Type correctness, for every number of cores and ports.                  *)
(***************************************************************************)
LEMMA TypedTodo == Spec => [](TypeOK /\ TodoInv)
<1>1. Init => TypeOK /\ TodoInv
  BY RuntimeAssumption DEF Init, TypeOK, TodoInv, Background
<1>2. QED
  BY <1>1, TypeStep, PTL DEF Spec

(***************************************************************************)
(* The variables of the life cycle keep their types: main stays a step of  *)
(* the program, every thread and trigger a state of theirs, and no channel *)
(* holds more than its bound or less than nothing.                         *)
(***************************************************************************)
THEOREM TypeCorrect == Spec => []TypeOK
BY TypedTodo, PTL

(***************************************************************************)
(* The threads and the triggers go through their phases together,          *)
(* whatever fails.                                                         *)
(***************************************************************************)
LEMMA Threads == Spec => []ThreadInv
<1>1. Init => ThreadInv
  BY DEF Init, ThreadInv, Before, Building, Starting
<1>2. QED
  BY <1>1, TypedTodo, ThreadStep, PTL DEF Spec

(***************************************************************************)
(* shutdown_cores (runtime/mod.rs) waits only for threads that will see    *)
(* their trigger: the one it joins has been sent the trigger and is        *)
(* running its tasks or has ended.  This is the part of ShutdownCompletes  *)
(* that does not depend on how the threads are scheduled.                  *)
(***************************************************************************)
THEOREM ShutdownJoinsWhatEnds == Spec => []JoinsWhatEnds
<1>1. TypeOK /\ TodoInv /\ ThreadInv => JoinsWhatEnds
  BY DEF TodoInv, ThreadInv, JoinsWhatEnds
<1>2. QED
  BY <1>1, TypedTodo, Threads, PTL

(***************************************************************************)
(* The devices run while a background thread does, unless wait_for_signal  *)
(* fails, which returns from execute with the cores unparked.              *)
(***************************************************************************)
LEMMA DevicesServe ==
  ASSUME "signal" \notin MayFail
  PROVE  Spec => []ServingInv
<1>1. Init => ServingInv
  BY DEF Init, ServingInv, Serving, Building, Starting
<1>2. TypeOK /\ TodoInv /\ ServingInv /\ [Next]_vars => ServingInv'
  BY ServingStep
<1>3. QED
  BY <1>1, <1>2, TypedTodo, PTL DEF Spec

(***************************************************************************)
(* No core runs its tasks on a port that is not started or with a mempool  *)
(* that is not there, for any number of cores and ports, whichever step of *)
(* build or execute fails before the cores are unparked.                   *)
(***************************************************************************)
THEOREM CoresRunOnLiveDevices ==
  ASSUME "signal" \notin MayFail
  PROVE  Spec => []RunsOnLiveDevices
<1>1. ServingInv => RunsOnLiveDevices
  BY DEF ServingInv, RunsOnLiveDevices, Runs, Serving, Building, Starting,
         Background
<1>2. QED
  BY <1>1, DevicesServe, PTL

(***************************************************************************)
(* A port's KniTx is on a core that is alive, and the batches on its       *)
(* channel with it.                                                        *)
(***************************************************************************)
LEMMA KniHeld ==
  ASSUME "signal" \notin MayFail
  PROVE  Spec => []KniInv
<1>1. Init => KniInv
  BY RuntimeAssumption DEF Init, KniInv, Building, Starting
<1>2. TypeOK /\ TodoInv /\ ServingInv /\ ThreadInv /\ KniInv /\ [Next]_vars
        => KniInv'
  BY KniStep
<1>3. QED
  BY <1>1, <1>2, TypedTodo, Threads, DevicesServe, PTL DEF Spec

(***************************************************************************)
(* The packets queued for the kernel are freed before the mempools they    *)
(* came from, as long as no port with a KNI has the master core among its  *)
(* cores, whose tasks are dropped last.                                    *)
(***************************************************************************)
THEOREM PacketsFreedBeforeMempools ==
  ASSUME "signal" \notin MayFail,
         \A p \in KniPort : Master \notin PortCores[p]
  PROVE  Spec => []BuffersReturnedFirst
<1>1. TypeOK /\ ServingInv /\ KniInv => BuffersReturnedFirst
  <2> SUFFICES ASSUME TypeOK, ServingInv, KniInv, pools = "freed",
                      NEW p \in KniPort, chan[p] # 0
               PROVE  FALSE
    BY DEF BuffersReturnedFirst
  <2>1. chan[p] > 0
    BY RuntimeAssumption DEF TypeOK
  <2>2. kni_tx[p] \in PortCores[p] /\ kni_tx[p] # Master
    BY <2>1 DEF KniInv
  <2>3. main \in Serving
    BY <2>1, <2>2 DEF KniInv
  <2>4. QED
    BY <2>3 DEF ServingInv, Serving
<1>2. QED
  BY <1>1, TypedTodo, DevicesServe, KniHeld, PTL

(***************************************************************************)
(* As long as the application runs, the packets that the cores queue for   *)
(* the kernel are collected on one of the cores of their port, when no two *)
(* ports with a KNI share a core.                                          *)
(***************************************************************************)
THEOREM KniTxStaysOnItsPort ==
  ASSUME \A p, q \in KniPort :
           p # q => PortCores[p] \intersect PortCores[q] = {}
  PROVE  Spec => []EveryKniHasItsTx
<1>1. Init => PlacedInv
  BY DEF Init, PlacedInv
<1>2. TypeOK /\ TodoInv /\ ThreadInv /\ PlacedInv /\ [Next]_vars => PlacedInv'
  BY PlacedStep
<1>3. PlacedInv => EveryKniHasItsTx
  BY DEF PlacedInv, EveryKniHasItsTx
<1>4. QED
  BY <1>1, <1>2, <1>3, TypedTodo, Threads, PTL DEF Spec

=============================================================================
