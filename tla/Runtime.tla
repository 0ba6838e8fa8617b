------------------------------- MODULE Runtime -------------------------------
(***************************************************************************)
(* The life of a capsule application: Runtime::build, the installation of  *)
(* the pipelines, Runtime::execute and the drop of the Runtime             *)
(* (runtime/mod.rs), with one thread per background core                   *)
(* (runtime/core_map.rs).                                                  *)
(*                                                                         *)
(* The main thread runs on the master core and its place in the program    *)
(* is `main`.  A background thread parks after its initialisation, runs    *)
(* its tasks once it is unparked and ends when its shutdown trigger fires  *)
(* or is dropped.  The master core runs its tasks only while the main      *)
(* thread waits for the stop.                                              *)
(*                                                                         *)
(* Of the data path only the KNI channels are kept, as the number of       *)
(* batches on them; module PacketPath has the rest.                        *)
(***************************************************************************)
EXTENDS Integers, FiniteSets

CONSTANTS
  Core,       \* all cores of the configuration
  Master,     \* the master core
  Port,       \* the ports
  KniPort,    \* the ports with a KNI
  PortCores,  \* PortCores[p]: the cores assigned to port p
  MayFail,    \* the steps that may return an error in this instance
  ChanMax     \* bound on the batches on a KNI channel

ASSUME RuntimeAssumption ==
  /\ Master \in Core
  /\ Core \intersect {"none", "kni", "dropped"} = {}  \* the marks of kni_tx
  /\ KniPort \subseteq Port
  /\ PortCores \in [Port -> (SUBSET Core) \ {{}}]
  /\ MayFail \subseteq {"build", "install", "start", "signal"}
  /\ ChanMax \in Nat \ {0}

Background == Core \ {Master}

VARIABLES
  main,     \* where the main thread stands
  todo,     \* what its loop has left
  current,  \* the background core it waits for
  thread,   \* thread[c]: the background thread of c
  trigger,  \* trigger[c]: the sending end of c's shutdown channel
  eal, pools,
  port,     \* port[p]: the Ethernet device
  kni_tx,   \* kni_tx[p]: who has the KniTx of p: its Kni, a core, or no one
  chan      \* chan[p]: batches on p's KNI channel

vars == <<main, todo, current, thread, trigger, eal, pools, port, kni_tx, chan>>
cores   == <<thread, trigger>>
devices == <<eal, pools, port>>
tasks   == <<kni_tx, chan>>

Init ==
  /\ main = "eal" /\ todo = {} /\ current = Master
  /\ thread = [c \in Background |-> "none"]
  /\ trigger = [c \in Background |-> "none"]
  /\ eal = "down" /\ pools = "none"
  /\ port = [p \in Port |-> "none"]
  /\ kni_tx = [p \in KniPort |-> "none"]
  /\ chan = [p \in KniPort |-> 0]

\* The main thread is at a step and goes on to the next, whose loop, if it has
\* one, is over `items`.
At(here, next, items) == main = here /\ main' = next /\ todo' = items

\* A loop over todo (a HashMap or a HashSet: in any order) takes its next item,
\* or leaves.
Each(here, x) == main = here /\ x \in todo /\ main' = here /\ todo' = todo \ {x}
Leave(here, next, items) == todo = {} /\ At(here, next, items)

-----------------------------------------------------------------------------
(* Runtime::build *)

EalInit ==
  /\ At("eal", "mempools", {})
  /\ eal' = "up"
  /\ UNCHANGED <<current, cores, pools, port, tasks>>

MempoolsInit ==
  /\ At("mempools", "cores", Background)
  /\ pools' = "live"
  /\ UNCHANGED <<current, cores, eal, port, tasks>>

\* Spawns a background thread and blocks on the channel for its executor.
SpawnCore ==
  /\ main = "cores"
  /\ current' \in todo
  /\ thread' = [thread EXCEPT ![current'] = "init"]
  /\ main' = "await_core"
  /\ UNCHANGED <<todo, trigger, devices, tasks>>

\* The rendezvous in which the thread hands its executor over.
CoreReady ==
  /\ main = "await_core" /\ thread[current] = "init"
  /\ thread' = [thread EXCEPT ![current] = "ready"]
  /\ trigger' = [trigger EXCEPT ![current] = "armed"]
  /\ main' = "cores"
  /\ todo' = todo \ {current}
  /\ UNCHANGED <<current, devices, tasks>>

CoresInit ==
  /\ Leave("cores", "ports", Port)
  /\ UNCHANGED <<current, cores, devices, tasks>>

CreatePort ==
  /\ \E p \in todo :
       /\ Each("ports", p)
       /\ port' = [port EXCEPT ![p] = "created"]
       /\ kni_tx' = [q \in KniPort |-> IF q = p THEN "kni" ELSE kni_tx[q]]
  /\ UNCHANGED <<current, cores, eal, pools, chan>>

PortsInit ==
  /\ Leave("ports", "install", {})
  /\ UNCHANGED <<current, cores, devices, tasks>>

\* An error in build drops its locals, the mempools last: the ports are
\* closed, and a thread that is parked stays so, for it has a sending end of
\* its own channel.  A thread that could not initialise has ended.
BuildFails ==
  /\ "build" \in MayFail
  /\ main \in {"mempools", "cores", "await_core", "ports"}
  /\ main' = "build_failed" /\ todo' = {}
  /\ thread' = [c \in Background |->
                  IF thread[c] = "init" THEN "ended" ELSE thread[c]]
  /\ trigger' = [c \in Background |->
                   IF trigger[c] = "armed" THEN "dropped" ELSE trigger[c]]
  /\ port' = [p \in Port |-> IF port[p] = "created" THEN "closed" ELSE port[p]]
  /\ kni_tx' = [p \in KniPort |-> IF kni_tx[p] = "kni" THEN "dropped" ELSE kni_tx[p]]
  /\ pools' = IF pools = "live" THEN "freed" ELSE pools
  /\ UNCHANGED <<current, eal, chan>>

-----------------------------------------------------------------------------
(* Runtime::execute *)

\* An error: the caller gets it and drops the Runtime.
Fails(step) == step \in MayFail /\ main' = "drop_ports" /\ todo' = Port

\* The pipelines of every port wait as tasks of their cores.
Install ==
  /\ main = "install"
  /\ \/ main' = "kni_tx" /\ todo' = KniPort
     \/ Fails("install")
  /\ UNCHANGED <<current, cores, devices, tasks>>

\* add_kni_tx_pipelines: the KniTx of p goes to one of its cores.  The map is
\* keyed by core: the KniTx that was there is dropped.
AddKniTxToMaster == \* fault: every KniTx goes to the master core
  /\ \E p \in todo :
       /\ Each("kni_tx", p)
       /\ kni_tx' = [kni_tx EXCEPT ![p] = Master]
  /\ UNCHANGED <<current, cores, devices, chan>>

AddKniTx ==
  /\ \E p \in todo :
       /\ Each("kni_tx", p)
       /\ \E c \in PortCores[p] :
            kni_tx' = [q \in KniPort |-> CASE q = p -> c
                        [] q # p /\ kni_tx[q] = c -> "dropped"
                        [] OTHER -> kni_tx[q]]
  /\ UNCHANGED <<current, cores, devices, chan>>

KniTxAdded ==
  /\ Leave("kni_tx", "start_ports", Port)
  /\ UNCHANGED <<current, cores, devices, tasks>>

StartPort ==
  /\ \/ \E p \in todo :
          /\ Each("start_ports", p)
          /\ port' = [port EXCEPT ![p] = "started"]
     \/ main = "start_ports" /\ todo # {} /\ Fails("start") /\ port' = port
  /\ UNCHANGED <<current, cores, eal, pools, tasks>>

PortsStarted ==
  /\ Leave("start_ports", "unpark", Background)
  /\ UNCHANGED <<current, cores, devices, tasks>>

\* The rendezvous on the park channel: it waits for a thread that is still on
\* its way to the receive.
UnparkCore ==
  /\ \E c \in todo :
       /\ Each("unpark", c)
       /\ thread[c] = "parked"
       /\ thread' = [thread EXCEPT ![c] = "running"]
  /\ UNCHANGED <<current, trigger, devices, tasks>>

CoresUnparked ==
  /\ Leave("unpark", "listen", {})
  /\ UNCHANGED <<current, cores, devices, tasks>>

\* wait_for_signal fails when a signal handler cannot be registered.
Listen ==
  /\ main = "listen"
  /\ \/ main' = "wait" /\ todo' = {}
     \/ Fails("signal")
  /\ UNCHANGED <<current, cores, devices, tasks>>

\* The duration is over, or a signal came that on_signal lets through.
Stop ==
  /\ At("wait", "shutdown", Background)
  /\ UNCHANGED <<current, cores, devices, tasks>>

\* shutdown_cores: triggers one core and joins its thread, then the next.
ShutdownUntriggered == \* fault: joins without sending the trigger
  /\ main = "shutdown" /\ current' \in todo
  /\ main' = "join"
  /\ UNCHANGED <<todo, thread, trigger, devices, tasks>>

ShutdownCore ==
  /\ main = "shutdown"
  /\ current' \in todo
  /\ trigger' = [trigger EXCEPT ![current'] = "sent"]
  /\ main' = "join"
  /\ UNCHANGED <<todo, thread, devices, tasks>>

JoinNothing == \* fault: does not wait for the thread
  /\ main = "join"
  /\ main' = "shutdown"
  /\ todo' = todo \ {current}
  /\ UNCHANGED <<current, cores, devices, tasks>>

JoinCore ==
  /\ main = "join"
  /\ thread[current] = "ended"
  /\ main' = "shutdown"
  /\ todo' = todo \ {current}
  /\ UNCHANGED <<current, cores, devices, tasks>>

CoresShutdown ==
  /\ Leave("shutdown", "stop_ports", Port)
  /\ UNCHANGED <<current, cores, devices, tasks>>

StopPort ==
  /\ \E p \in todo :
       /\ Each("stop_ports", p)
       /\ port' = [port EXCEPT ![p] = "stopped"]
  /\ UNCHANGED <<current, cores, eal, pools, tasks>>

\* execute returns and the application drops the Runtime.
Return ==
  /\ Leave("stop_ports", "drop_ports", Port)
  /\ UNCHANGED <<current, cores, devices, tasks>>

-----------------------------------------------------------------------------
(* The drop of the Runtime *)

\* A port's Kni goes with it, and the KniTx that was never taken.
DropPort ==
  /\ \E p \in todo :
       /\ Each("drop_ports", p)
       /\ port' = [port EXCEPT ![p] = "closed"]
       /\ kni_tx' = [q \in KniPort |-> IF q = p /\ kni_tx[q] = "kni"
                                       THEN "dropped" ELSE kni_tx[q]]
  /\ UNCHANGED <<current, cores, eal, pools, chan>>

PortsDropped ==
  /\ Leave("drop_ports", "drop_mempools", {})
  /\ UNCHANGED <<current, cores, devices, tasks>>

DropMempools ==
  /\ At("drop_mempools", "eal_cleanup", {})
  /\ pools' = "freed"
  /\ UNCHANGED <<current, cores, eal, port, tasks>>

\* kni_close and eal_cleanup.
EalCleanup ==
  /\ At("eal_cleanup", "drop_core_map", {})
  /\ eal' = "cleaned"
  /\ UNCHANGED <<current, cores, pools, port, tasks>>

\* A core's tasks are dropped, the batches on the channels they read included.
DropTasks(c) ==
  /\ kni_tx' = [p \in KniPort |-> IF kni_tx[p] = c THEN "dropped" ELSE kni_tx[p]]
  /\ chan' = [p \in KniPort |-> IF kni_tx[p] = c THEN 0 ELSE chan[p]]

\* The field core_map is dropped after Runtime::drop: the tasks of the master
\* core, and the triggers that were never sent.
DropCoreMap ==
  /\ At("drop_core_map", "done", {})
  /\ DropTasks(Master)
  /\ trigger' = [c \in Background |->
                   IF trigger[c] = "armed" THEN "dropped" ELSE trigger[c]]
  /\ UNCHANGED <<current, thread, devices>>

-----------------------------------------------------------------------------
(* The background threads and the tasks *)

CorePark(c) ==
  /\ thread[c] = "ready"
  /\ thread' = [thread EXCEPT ![c] = "parked"]
  /\ UNCHANGED <<main, todo, current, trigger, devices, tasks>>

\* block_on returns when the trigger is sent, and as well when it is dropped.
CoreEndKeepsTasks(c) == \* fault: the tasks of the core are not dropped
  /\ thread[c] = "running" /\ trigger[c] \in {"sent", "dropped"}
  /\ thread' = [thread EXCEPT ![c] = "ended"]
  /\ UNCHANGED <<main, todo, current, trigger, devices, tasks>>

CoreEnd(c) ==
  /\ thread[c] = "running"
  /\ trigger[c] \in {"sent", "dropped"}
  /\ thread' = [thread EXCEPT ![c] = "ended"]
  /\ DropTasks(c)
  /\ UNCHANGED <<main, todo, current, trigger, devices>>

Runs(c) == IF c = Master THEN main = "wait" ELSE thread[c] = "running"

\* A pipeline of c sends a batch to the kernel; it is freed when no one is
\* left to read the channel.
SendToKernel(c, p) ==
  /\ Runs(c) /\ c \in PortCores[p]
  /\ kni_tx[p] \in Core /\ chan[p] < ChanMax
  /\ chan' = [chan EXCEPT ![p] = @ + 1]
  /\ UNCHANGED <<main, todo, current, cores, devices, kni_tx>>

\* The KniTx task of p takes a batch off the channel.
ForwardUnchecked(p) == \* fault: does not wait for a batch
  /\ kni_tx[p] \in Core /\ Runs(kni_tx[p])
  /\ chan' = [chan EXCEPT ![p] = @ - 1]
  /\ UNCHANGED <<main, todo, current, cores, devices, kni_tx>>

ForwardToKernel(p) ==
  /\ kni_tx[p] \in Core /\ Runs(kni_tx[p])
  /\ chan[p] > 0
  /\ chan' = [chan EXCEPT ![p] = @ - 1]
  /\ UNCHANGED <<main, todo, current, cores, devices, kni_tx>>

-----------------------------------------------------------------------------
Build ==
  \/ EalInit \/ MempoolsInit \/ SpawnCore \/ CoreReady \/ CoresInit
  \/ CreatePort \/ PortsInit

Execute ==
  \/ Install \/ AddKniTx \/ KniTxAdded \/ StartPort \/ PortsStarted
  \/ UnparkCore \/ CoresUnparked \/ Listen
  \/ ShutdownCore \/ JoinCore \/ CoresShutdown \/ StopPort \/ Return

Drop == DropPort \/ PortsDropped \/ DropMempools \/ EalCleanup \/ DropCoreMap

MainThread == Build \/ Execute \/ Drop

Next ==
  \/ MainThread \/ BuildFails \/ Stop
  \/ \E c \in Background : CorePark(c) \/ CoreEnd(c)
  \/ \E p \in KniPort : ForwardToKernel(p) \/ \E c \in Core : SendToKernel(c, p)

Spec == Init /\ [][Next]_vars

\* Every thread goes on as long as it can; a core that was triggered gets to
\* poll the trigger between two polls of its tasks.  The stop may never come.
FairSpec ==
  /\ Spec
  /\ WF_vars(MainThread)
  /\ \A c \in Background : WF_vars(CorePark(c)) /\ WF_vars(CoreEnd(c))

-----------------------------------------------------------------------------
(* Properties *)

TypeOK ==
  /\ main \in {"eal", "mempools", "cores", "await_core", "ports", "install",
               "kni_tx", "start_ports", "unpark", "listen", "wait", "shutdown",
               "join", "stop_ports", "drop_ports", "drop_mempools",
               "eal_cleanup", "drop_core_map", "done", "build_failed"}
  /\ todo \in SUBSET (Core \union Port)
  /\ current \in Core
  /\ thread \in [Background -> {"none", "init", "ready", "parked", "running",
                                "ended"}]
  /\ trigger \in [Background -> {"none", "armed", "sent", "dropped"}]
  /\ eal \in {"down", "up", "cleaned"}
  /\ pools \in {"none", "live", "freed"}
  /\ port \in [Port -> {"none", "created", "started", "stopped", "closed"}]
  /\ kni_tx \in [KniPort -> {"none", "kni", "dropped"} \union Core]
  /\ chan \in [KniPort -> 0 .. ChanMax]

\* A core runs its tasks only between the start of the last port and the stop
\* of the first, and with the mempools in place: no pipeline polls a queue of
\* a device that is not running, and none allocates from a freed mempool.
RunsOnLiveDevices ==
  \A c \in Core : Runs(c) =>
    /\ eal = "up" /\ pools = "live"
    /\ \A p \in Port : port[p] = "started"

\* "The default rust drop order is self before fields, which is the wrong
\* order for what EAL needs": a task that holds packets is dropped before the
\* mempools are freed.
BuffersReturnedFirst ==
  pools = "freed" => \A p \in KniPort : chan[p] = 0

\* "Another pipeline will collect these and forward them on": as long as the
\* application runs, the packets a core queues for the kernel are collected by
\* the KniTx of their port, on one of its cores.
EveryKniHasItsTx ==
  main = "wait" => \A p \in KniPort : kni_tx[p] \in PortCores[p]

\* No shutdown blocks: whatever the cores do, execute comes back from the
\* joins and the Runtime is dropped.
ShutdownCompletes == (main = "shutdown") ~> (main = "done")

=============================================================================
