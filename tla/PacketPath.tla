----------------------------- MODULE PacketPath -----------------------------
(***************************************************************************)
(* The multi-core data path of capsule, seen from the packet buffers.      *)
(*                                                                         *)
(* Every core runs one pipeline task, the Send batch of batch/send.rs.  A  *)
(* run of the task receives a burst from the receive queue of the core,    *)
(* gives every packet a disposition, transmits the packets that are still  *)
(* in the batch and returns the dropped ones to a mempool.  Packets for    *)
(* the kernel go over one unbounded channel to the KniTx task of one core. *)
(* The cores run in parallel; what they share are the mempools and the     *)
(* channel.                                                                *)
(*                                                                         *)
(* A packet buffer is a model value and a buffer is wherever the set of    *)
(* that place holds it; the order of packets inside a batch is abstracted  *)
(* (module Pipeline keeps it).  The pipeline's combinators are abstracted  *)
(* to the disposition they give each packet.  The PacketRx of a pipeline   *)
(* is a PortQueue or a KniRx; both are the set rxring.                     *)
(***************************************************************************)
EXTENDS Integers, Sequences, FiniteSets

CONSTANTS
  Mbuf,      \* all packet buffers of all mempools
  Core,      \* the cores, each with one pipeline
  Pool,      \* the mempools, one per socket with a core in use
  Home,      \* Home[m]: the mempool that m was allocated from
  RxPool,    \* RxPool[c]: the mempool of the socket of c's port
  CorePool,  \* CorePool[c]: MEMPOOL, the mempool of the socket of c
  TxKind,    \* TxKind[c]: the PacketTx of c's pipeline, "port" or "kni"
  KniCore,   \* the core that runs the KniTx task
  RingSize,  \* descriptors of a NIC transmit queue
  BurstMax,  \* the largest batch a PacketRx returns: RX_BURST_MAX of a
             \* PortQueue or a KniRx; an mpsc Receiver has no such bound
  U16        \* the number of values of a u16

ASSUME ConstantsAssumption ==
  /\ IsFiniteSet(Mbuf)
  /\ KniCore \in Core
  /\ Home \in [Mbuf -> Pool]
  /\ RxPool \in [Core -> Pool]
  /\ CorePool \in [Core -> Pool]
  /\ TxKind \in [Core -> {"port", "kni"}]
  /\ RingSize \in Nat \ {0}
  /\ BurstMax \in Nat \ {0}
  /\ U16 \in Nat \ {0}

VARIABLES
  free,        \* free[p]: the buffers in mempool p
  rxring,      \* rxring[c]: packets the NIC (or the kernel) has for core c
  phase,       \* phase[c]: where the pipeline task of c stands in Send::run
  batch,       \* batch[c]: received packets that have no disposition yet
  transmit_q,  \* transmit_q[c]: to transmit; later the raw pointers of the loop
  drop_q,      \* drop_q[c]: packets marked as dropped
  txring,      \* txring[c]: packets in the NIC transmit queue of c
  channel,     \* the batches sent on the KNI channel, oldest first
  receiver,    \* whether the receiving end of the channel is alive
  kni_ptrs,    \* the raw pointers KniTx::transmit is sending
  kernel       \* packets the kernel has and has not given back

vars == <<free, rxring, phase, batch, transmit_q, drop_q, txring, channel,
          receiver, kni_ptrs, kernel>>
task == <<phase, batch, transmit_q, drop_q>>
kni  == <<channel, receiver, kni_ptrs, kernel>>

(* A single thread runs the tasks of a core and a task yields only between *)
(* runs: on KniCore, Send::run and KniTx::transmit exclude each other.     *)
SendRuns(c) == phase[c] \in {"pull", "transmit", "reap"}
KniRuns     == kni_ptrs # {}

Init ==
  /\ free = [p \in Pool |-> {m \in Mbuf : Home[m] = p}]
  /\ rxring = [c \in Core |-> {}]
  /\ phase = [c \in Core |-> "idle"]
  /\ batch = [c \in Core |-> {}]
  /\ transmit_q = [c \in Core |-> {}]
  /\ drop_q = [c \in Core |-> {}]
  /\ txring = [c \in Core |-> {}]
  /\ channel = <<>>
  /\ receiver = "open"
  /\ kni_ptrs = {}
  /\ kernel = {}

-----------------------------------------------------------------------------
(* Returning buffers to mempools *)

\* Mbuf::drop, the driver and the kernel: each buffer to its own mempool.
FreeNothing(S) == free \* fault: the buffer has no Drop
FreeToOne(S) ==        \* fault: frees into the mempool of the KniTx core
  [free EXCEPT ![CorePool[KniCore]] = @ \union S]

FreeEach(S) == [p \in Pool |-> free[p] \union {m \in S : Home[m] = p}]

\* mbuf_free_bulk: `pool` is read off the first buffer and never set again,
\* so the buffers of every group go to that one mempool.
FreeVector(S, first) == \* fault: puts the vector in place of its elements
  [free EXCEPT ![Home[first]] = @ \union {S}]

FreeBulk(S, first) == [free EXCEPT ![Home[first]] = @ \union S]

-----------------------------------------------------------------------------
(* The NIC and the kernel *)

NicReceive(c) ==
  \E m \in free[RxPool[c]] :
    /\ free' = [free EXCEPT ![RxPool[c]] = @ \ {m}]
    /\ rxring' = [rxring EXCEPT ![c] = @ \union {m}]
    /\ UNCHANGED <<task, txring, kni>>

NicTransmit(c) ==
  \E m \in txring[c] :
    /\ txring' = [txring EXCEPT ![c] = @ \ {m}]
    /\ free' = FreeEach({m})
    /\ UNCHANGED <<rxring, task, kni>>

KernelConsume ==
  \E m \in kernel :
    /\ kernel' = kernel \ {m}
    /\ free' = FreeEach({m})
    /\ UNCHANGED <<rxring, task, txring, channel, receiver, kni_ptrs>>

-----------------------------------------------------------------------------
(* One run of a pipeline: Send::run on core c *)

\* Poll::replenish: takes what the receive queue has, one burst at most.  A
\* run that finds the queue empty changes nothing and is left out.
ReceiveAll(c, S) == \* fault: the burst is not bounded
  /\ phase[c] = "idle" /\ (c = KniCore => ~KniRuns)
  /\ S # {} /\ S \subseteq rxring[c]
  /\ rxring' = [rxring EXCEPT ![c] = @ \ S]
  /\ batch' = [batch EXCEPT ![c] = S]
  /\ phase' = [phase EXCEPT ![c] = "pull"]
  /\ UNCHANGED <<free, transmit_q, drop_q, txring, kni>>

Receive(c, S) ==
  /\ phase[c] = "idle"
  /\ c = KniCore => ~KniRuns
  /\ S # {} /\ S \subseteq rxring[c]
  /\ Cardinality(S) <= BurstMax
  /\ rxring' = [rxring EXCEPT ![c] = @ \ S]
  /\ batch' = [batch EXCEPT ![c] = S]
  /\ phase' = [phase EXCEPT ![c] = "pull"]
  /\ UNCHANGED <<free, transmit_q, drop_q, txring, kni>>

\* Disposition::Act and Disposition::Drop of packet m.
Act(c, m) ==
  /\ phase[c] = "pull" /\ m \in batch[c]
  /\ batch' = [batch EXCEPT ![c] = @ \ {m}]
  /\ transmit_q' = [transmit_q EXCEPT ![c] = @ \union {m}]
  /\ UNCHANGED <<free, rxring, phase, drop_q, txring, kni>>

Drop(c, m) ==
  /\ phase[c] = "pull" /\ m \in batch[c]
  /\ batch' = [batch EXCEPT ![c] = @ \ {m}]
  /\ drop_q' = [drop_q EXCEPT ![c] = @ \union {m}]
  /\ UNCHANGED <<free, rxring, phase, transmit_q, txring, kni>>

\* Disposition::Abort: the closure's error path drops the packet.
Abort(c, m) ==
  /\ phase[c] = "pull" /\ m \in batch[c]
  /\ batch' = [batch EXCEPT ![c] = @ \ {m}]
  /\ free' = FreeEach({m})
  /\ UNCHANGED <<rxring, phase, transmit_q, drop_q, txring, kni>>

\* Replace: n, allocated from the core's mempool, goes on in the place of m,
\* which is marked as dropped.
Replace(c, m, n) ==
  /\ phase[c] = "pull" /\ m \in batch[c]
  /\ n \in free[CorePool[c]]
  /\ free' = [free EXCEPT ![CorePool[c]] = @ \ {n}]
  /\ batch' = [batch EXCEPT ![c] = (@ \ {m}) \union {n}]
  /\ drop_q' = [drop_q EXCEPT ![c] = @ \union {m}]
  /\ UNCHANGED <<rxring, phase, transmit_q, txring, kni>>

\* Emit over the port's KniTxQueue: a batch of its own on the channel, or
\* back to the mempool when the receiver is gone.
EmitUnchecked(c, m) == \* fault: the error of try_send is ignored
  /\ phase[c] = "pull" /\ m \in batch[c]
  /\ batch' = [batch EXCEPT ![c] = @ \ {m}]
  /\ channel' = Append(channel, {m})
  /\ UNCHANGED <<free, rxring, phase, transmit_q, drop_q, txring, receiver,
                 kni_ptrs, kernel>>

Emit(c, m) ==
  /\ phase[c] = "pull" /\ m \in batch[c]
  /\ batch' = [batch EXCEPT ![c] = @ \ {m}]
  /\ \/ /\ receiver = "open"
        /\ channel' = Append(channel, {m})
        /\ free' = free
     \/ /\ receiver = "closed"
        /\ free' = FreeBulk({m}, m)
        /\ channel' = channel
  /\ UNCHANGED <<rxring, phase, transmit_q, drop_q, txring, receiver,
                 kni_ptrs, kernel>>

\* The batch is exhausted; transmit is called on a non-empty queue only.
EndPullAlways(c) == \* fault: transmits without the test for an empty queue
  /\ phase[c] = "pull" /\ batch[c] = {}
  /\ phase' = [phase EXCEPT ![c] = "transmit"]
  /\ UNCHANGED <<free, rxring, batch, transmit_q, drop_q, txring, kni>>

EndPull(c) ==
  /\ phase[c] = "pull" /\ batch[c] = {}
  /\ phase' = [phase EXCEPT ![c] =
                 IF transmit_q[c] # {} THEN "transmit" ELSE "reap"]
  /\ UNCHANGED <<free, rxring, batch, transmit_q, drop_q, txring, kni>>

\* The number of packets the loop of PortQueue::transmit offers the driver.
ToSend(S) == Cardinality(S) % U16

\* One iteration of the loop that sends S: the rest stays for the next one,
\* unless as many were sent as the loop counted.
TxBurst(c, S) ==
  /\ phase[c] = "transmit" /\ TxKind[c] = "port"
  /\ S # {} /\ S \subseteq transmit_q[c]
  /\ Cardinality(S) <= ToSend(transmit_q[c])
  /\ Cardinality(txring[c] \union S) <= RingSize
  /\ txring' = [txring EXCEPT ![c] = @ \union S]
  /\ \/ /\ Cardinality(S) < ToSend(transmit_q[c])
        /\ transmit_q' = [transmit_q EXCEPT ![c] = @ \ S]
        /\ phase' = phase
     \/ /\ Cardinality(S) = ToSend(transmit_q[c])
        /\ transmit_q' = [transmit_q EXCEPT ![c] = {}]
        /\ phase' = [phase EXCEPT ![c] = "reap"]
  /\ UNCHANGED <<free, rxring, batch, drop_q, kni>>

\* The iteration that sends nothing gives up on all that is left.
TxRetry(c) == \* fault: tries again for ever
  /\ phase[c] = "transmit" /\ TxKind[c] = "port"
  /\ UNCHANGED vars

TxGiveUp(c) ==
  /\ phase[c] = "transmit" /\ TxKind[c] = "port"
  /\ \E first \in transmit_q[c] : free' = FreeBulk(transmit_q[c], first)
  /\ transmit_q' = [transmit_q EXCEPT ![c] = {}]
  /\ phase' = [phase EXCEPT ![c] = "reap"]
  /\ UNCHANGED <<rxring, batch, drop_q, txring, kni>>

\* KniTxQueue::transmit: the whole queue goes on the channel as one batch.
TxChannel(c) ==
  /\ phase[c] = "transmit" /\ TxKind[c] = "kni"
  /\ transmit_q[c] # {}
  /\ \/ /\ receiver = "open"
        /\ channel' = Append(channel, transmit_q[c])
        /\ free' = free
     \/ /\ receiver = "closed"
        /\ \E first \in transmit_q[c] : free' = FreeBulk(transmit_q[c], first)
        /\ channel' = channel
  /\ transmit_q' = [transmit_q EXCEPT ![c] = {}]
  /\ phase' = [phase EXCEPT ![c] = "reap"]
  /\ UNCHANGED <<rxring, batch, drop_q, txring, receiver, kni_ptrs, kernel>>

\* The end of the run: the dropped packets are freed in bulk.
ReapNothing(c) == \* fault: the drop queue is not emptied
  /\ phase[c] = "reap"
  /\ phase' = [phase EXCEPT ![c] = "idle"]
  /\ UNCHANGED <<free, rxring, batch, transmit_q, drop_q, txring, kni>>

Reap(c) ==
  /\ phase[c] = "reap"
  /\ \/ drop_q[c] = {} /\ free' = free
     \/ \E first \in drop_q[c] : free' = FreeBulk(drop_q[c], first)
  /\ drop_q' = [drop_q EXCEPT ![c] = {}]
  /\ phase' = [phase EXCEPT ![c] = "idle"]
  /\ UNCHANGED <<rxring, batch, transmit_q, txring, kni>>

-----------------------------------------------------------------------------
(* The KniTx task on KniCore, and the end of a core *)

KniTake ==
  /\ receiver = "open" /\ ~KniRuns /\ phase[KniCore] = "idle"
  /\ channel # <<>>
  /\ kni_ptrs' = Head(channel)
  /\ channel' = Tail(channel)
  /\ UNCHANGED <<free, rxring, task, txring, receiver, kernel>>

\* One iteration of the loop of KniTx::transmit, whose count is a c_uint.
KniBurst(S) ==
  /\ S # {} /\ S \subseteq kni_ptrs
  /\ kernel' = kernel \union S
  /\ kni_ptrs' = kni_ptrs \ S
  /\ UNCHANGED <<free, rxring, task, txring, channel, receiver>>

KniGiveUp ==
  /\ \E first \in kni_ptrs : free' = FreeBulk(kni_ptrs, first)
  /\ kni_ptrs' = {}
  /\ UNCHANGED <<rxring, task, txring, channel, receiver, kernel>>

\* The shutdown trigger ends the executor of c and drops its tasks; with the
\* KniTx task go the receiver and every batch still on the channel.
StopWithoutDrop(c) == \* fault: the tasks of a stopped core are not dropped
  /\ phase[c] = "idle"
  /\ c = KniCore => ~KniRuns
  /\ phase' = [phase EXCEPT ![c] = "stopped"]
  /\ UNCHANGED <<free, rxring, batch, transmit_q, drop_q, txring, kni>>

CoreStop(c) ==
  /\ phase[c] = "idle"
  /\ c = KniCore => ~KniRuns
  /\ phase' = [phase EXCEPT ![c] = "stopped"]
  /\ IF c = KniCore
     THEN /\ receiver' = "closed"
          /\ channel' = <<>>
          /\ free' = FreeEach(UNION {channel[i] : i \in DOMAIN channel})
     ELSE UNCHANGED <<receiver, channel, free>>
  /\ UNCHANGED <<rxring, batch, transmit_q, drop_q, txring, kni_ptrs, kernel>>

-----------------------------------------------------------------------------
Run(c) ==
  \/ \E S \in SUBSET rxring[c] : Receive(c, S)
  \/ \E m \in batch[c] : \/ Act(c, m) \/ Drop(c, m) \/ Abort(c, m)
                         \/ Emit(c, m)
                         \/ \E n \in free[CorePool[c]] : Replace(c, m, n)
  \/ EndPull(c)
  \/ \E S \in SUBSET transmit_q[c] : TxBurst(c, S)
  \/ TxGiveUp(c)
  \/ TxChannel(c)
  \/ Reap(c)

KniTx == KniTake \/ (\E S \in SUBSET kni_ptrs : KniBurst(S)) \/ KniGiveUp

Next ==
  \/ \E c \in Core : NicReceive(c) \/ NicTransmit(c) \/ Run(c) \/ CoreStop(c)
  \/ KernelConsume
  \/ KniTx

Spec == Init /\ [][Next]_vars

(***************************************************************************)
(* Fairness.  Every core has a thread of its own whose executor polls its  *)
(* tasks in turn: a run that has begun goes on, and the KniTx task gets    *)
(* its turn again and again between the runs of the pipeline next to it.   *)
(* Nothing is assumed of the NIC, the kernel or the shutdown trigger.      *)
(***************************************************************************)
RunStep(c) == SendRuns(c) /\ Run(c)

Fairness ==
  /\ \A c \in Core : WF_vars(RunStep(c))
  /\ SF_vars(KniTake)
  /\ WF_vars(KniRuns /\ KniTx)

FairSpec == Spec /\ Fairness

-----------------------------------------------------------------------------
(* Properties *)

Phase == {"idle", "pull", "transmit", "reap", "stopped"}

\* The type invariant.
TypeOK ==
  /\ free \in [Pool -> SUBSET Mbuf]
  /\ rxring \in [Core -> SUBSET Mbuf]
  /\ phase \in [Core -> Phase]
  /\ batch \in [Core -> SUBSET Mbuf]
  /\ transmit_q \in [Core -> SUBSET Mbuf]
  /\ drop_q \in [Core -> SUBSET Mbuf]
  /\ txring \in [Core -> SUBSET Mbuf]
  /\ channel \in Seq(SUBSET Mbuf)
  /\ receiver \in {"open", "closed"}
  /\ kni_ptrs \in SUBSET Mbuf
  /\ kernel \in SUBSET Mbuf

\* The entries of a collection of sets that have m, tagged with its name.
Entries(name, f, m) == {<<name, i>> : i \in {j \in DOMAIN f : m \in f[j]}}

Places(m) ==
  Entries("free", free, m) \union Entries("rxring", rxring, m)
    \union Entries("batch", batch, m) \union Entries("transmit_q", transmit_q, m)
    \union Entries("drop_q", drop_q, m) \union Entries("txring", txring, m)
    \union Entries("channel", channel, m)
    \union {<<h, 0>> : h \in {k \in {"kni_ptrs", "kernel"} :
                               m \in IF k = "kernel" THEN kernel ELSE kni_ptrs}}

\* No buffer is lost and none has two owners: whatever the cores, the driver,
\* the KNI task and a shutdown do in whatever order, every buffer is in
\* exactly one place, so it is neither leaked nor freed or sent twice.
Conservation == \A m \in Mbuf : \E h \in Places(m) : Places(m) = {h}

\* A mempool holds only buffers of its own, so that what a pool hands out
\* lies in the memory of the pool's socket and its count of free buffers
\* never exceeds its size (mbuf_free_bulk sorts a batch by mempool for this).
PoolHome == \A p \in Pool : \A m \in free[p] : Home[m] = p

\* mempool.used of metrics.rs, "total number of mbufs which have been allocated
\* from the mempool": what stats.rs computes from the free count is the number
\* of the pool's own buffers that are out.
UsedCountsAllocated ==
  \A p \in Pool :
    LET own == {m \in Mbuf : Home[m] = p}
        out == {m \in own : \A q \in Pool : m \notin free[q]}
    IN  Cardinality(own) - Cardinality(free[p]) = Cardinality(out)

\* mbuf_free_bulk asserts that it is given a buffer, and both transmit loops
\* end in it: a loop never starts on nothing, nor does the channel carry an
\* empty batch to KniTx.
NeverTransmitsNothing ==
  /\ \A c \in Core : phase[c] = "transmit" => transmit_q[c] # {}
  /\ \A i \in DOMAIN channel : channel[i] # {}

\* What a pipeline task holds is what its place in Send::run says: between two
\* runs nothing at all, so that the end of the task there (the shutdown of its
\* core) drops no packet with it, and no run starts on leftovers.
HoldsByPhase ==
  \A c \in Core :
    /\ phase[c] # "pull" => batch[c] = {}
    /\ phase[c] \notin {"pull", "transmit"} => transmit_q[c] = {}
    /\ ~SendRuns(c) => drop_q[c] = {}

\* Once the receiver of the KNI channel is gone nothing is left on the
\* channel or with KniTx, and nothing another core sends later gets stuck.
ClosedChannelIsEmpty ==
  receiver = "closed" => channel = <<>> /\ kni_ptrs = {}

\* What PortQueue::transmit is handed never outgrows a receive burst, replaced
\* packets included: the reason why its u16 count does not wrap around.
BurstBound ==
  \A c \in Core : Cardinality(batch[c] \union transmit_q[c]) <= BurstMax

\* A run that has begun ends: the transmit loop sends or gives up.
RunEnds == \A c \in Core : SendRuns(c) ~> ~SendRuns(c)

\* The software never sits on a buffer: it ends up with the NIC, with the
\* kernel or in a mempool, also when its way crosses cores.
InSoftware(m) ==
  \/ \E c \in Core : m \in batch[c] \union transmit_q[c] \union drop_q[c]
  \/ \E i \in DOMAIN channel : m \in channel[i]
  \/ m \in kni_ptrs

BuffersMoveOn == \A m \in Mbuf : InSoftware(m) ~> ~InSoftware(m)

=============================================================================
