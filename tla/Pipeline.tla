------------------------------ MODULE Pipeline ------------------------------
(***************************************************************************)
(* The batch combinators of capsule (capsule/src/batch) as one pipeline:   *)
(* the Send batch pulls packets through a tree of combinators, each of     *)
(* which asks the one above it for the next disposition.                   *)
(*                                                                         *)
(* The calls to Batch::next are explicit: `stack` holds the combinators    *)
(* whose next() is under way, innermost last, and a step is one call, one  *)
(* return or one closure.  Closures are nondeterministic: they may give    *)
(* every packet every outcome their type allows.                           *)
(*                                                                         *)
(* Path, at the end, is module PacketPath with this pipeline as its only   *)
(* core: what that module abstracts to "the batch gets a disposition for   *)
(* every packet" is shown here to be what the combinators do.              *)
(***************************************************************************)
EXTENDS Integers, SequencesExt

CONSTANTS
  Mbuf,      \* the packet buffers
  Node,      \* the combinators of the pipeline
  Kind,      \* Kind[n]: what combinator n is
  Up,        \* Up[n]: the batch n takes its packets from; the GroupBy of a Bridge
  Branches,  \* Branches[n]: the sub batches of a GroupBy
  Catchall,  \* Catchall[n]: the sub batch for packets that match no arm
  Root,      \* the combinator that Send pulls from
  Chain,     \* Chain[n]: n and what it takes its packets through, up to the
             \* Poll, or the Bridge, they come from
  RingSize, BurstMax  \* as in PacketPath

\* The combinators that apply a closure to the packet, and the tags of the
\* dispositions the closure may give; for_each counts as a map, and inspect
\* is the closure that lets everything pass.
Outcomes ==
  [inspect |-> {"act"}, map |-> {"act", "abort"}, filter |-> {"act", "drop"},
   filter_map |-> {"act", "drop", "abort"}]

Kinds == DOMAIN Outcomes \union {"poll", "bridge", "emit", "replace", "group_by"}

ASSUME PipelineAssumption ==
  /\ IsFiniteSet(Mbuf)
  /\ IsFiniteSet(Node)
  /\ Kind \in [Node -> Kinds]
  /\ Up \in [Node -> Node]
  /\ Branches \in [Node -> SUBSET Node]
  /\ \A n \in Node : Kind[n] = "group_by" => Catchall[n] \in Branches[n]
  /\ Root \in Node
  /\ RingSize \in Nat \ {0}
  /\ BurstMax \in Nat \ {0}

Waiting == Kinds \ {"poll", "bridge"}  \* the combinators that have an upstream

\* The combinators that next() of n may call.
Calls(n) ==
  (IF Kind[n] \in Waiting THEN {Up[n]} ELSE {})
    \union (IF Kind[n] = "group_by" THEN Branches[n] ELSE {})

\* A batch is moved into the one that is built on it, so the calls make a tree:
\* none comes back to its caller, and each combinator is on the chain of Send,
\* which begins at a Poll, or of a sub batch, which begins at a Bridge of its
\* GroupBy.
ASSUME TreeAssumption ==
  /\ \A S \in SUBSET Node : S # {} => \E n \in S : Calls(n) \intersect S = {}
  /\ Chain \in [Node -> SUBSET Node]
  /\ \A n \in Node :
       Chain[n] = {n} \union (IF Kind[n] \in Waiting THEN Chain[Up[n]] ELSE {})
  /\ \A a \in Node : \A n \in Chain[a] : Chain[n] \subseteq Chain[a]
  /\ \E n \in Chain[Root] : Kind[n] = "poll"
  /\ \A n \in Chain[Root] : Kind[n] # "bridge"
  /\ \A g \in Node : Kind[g] = "group_by" =>
       /\ Up[g] \notin Branches[g]
       /\ \A b \in Branches[g] :
            /\ \E n \in Chain[b] : Kind[n] = "bridge"
            /\ \A n \in Chain[b] :
                 Kind[n] # "poll" /\ (Kind[n] = "bridge" => Up[n] = g)

VARIABLES
  phase,       \* where Send::run stands
  packets,     \* Poll.packets, oldest first
  stack,       \* the combinators whose next() is under way
  ret,         \* what the last call returned, or Calling
  from,        \* the combinator that returned it
  slot,        \* slot[n]: the original packet a Replace keeps, if any
  bridge,      \* bridge[n]: the packet in the Bridge of a GroupBy, if any
  fanouts,     \* fanouts[n]: what a sub batch of a GroupBy produced
  transmit_q, drop_q, emitted, aborted,  \* the locals of Send::run
  free,        \* the mempool
  rxring,      \* the receive queue, oldest first
  txring,      \* the transmit queue
  channel, kni_ptrs,  \* the KNI channel of the Emits, and KniTx's batch
  rank,        \* rank[m]: the position of m, or of the packet it replaces,
               \* in the received batch (history)
  entered      \* packets received or created in this run (history)

calls   == <<stack, ret, from>>
parts   == <<packets, slot, bridge, fanouts>>
results == <<transmit_q, drop_q, emitted, aborted>>
devices == <<rxring, txring, channel, kni_ptrs>>
history == <<rank, entered>>
vars == <<phase, calls, parts, results, free, devices, history>>

\* Dispositions, Option's None, and the call that has not returned yet.  `pkt`
\* is the packet inside, if the disposition has one.
Act(S)    == [tag |-> "act", pkt |-> S]
DropOf(S) == [tag |-> "drop", pkt |-> S]
Emitted   == [tag |-> "emit", pkt |-> {}]
Aborted   == [tag |-> "abort", pkt |-> {}]
Exhausted == [tag |-> "none", pkt |-> {}]
Calling   == [tag |-> "call", pkt |-> {}]

Init ==
  /\ phase = "idle"
  /\ stack = <<>> /\ ret = Calling /\ from = Root
  /\ packets = <<>>
  /\ slot = [n \in Node |-> {}]
  /\ bridge = [n \in Node |-> {}]
  /\ fanouts = [n \in Node |-> <<>>]
  /\ transmit_q = <<>> /\ drop_q = <<>> /\ emitted = 0 /\ aborted = 0
  /\ free = Mbuf
  /\ rxring = <<>> /\ txring = <<>> /\ channel = <<>> /\ kni_ptrs = {}
  /\ rank = [m \in Mbuf |-> 0] /\ entered = 0

-----------------------------------------------------------------------------
(* Calls and returns *)

Running == phase = "pull" /\ stack # <<>>
Top == Last(stack)

\* The innermost combinator has been called, or has its answer from upstream.
Called(kinds)   == Running /\ Kind[Top] \in kinds /\ ret = Calling
Answered(kinds) ==
  Running /\ Kind[Top] \in kinds /\ ret # Calling /\ from = Up[Top]

Enter(n) == stack' = Append(stack, n) /\ ret' = Calling /\ from' = from
Give(d)  == stack' = Front(stack) /\ ret' = d /\ from' = Top

\* next() of Poll.
PollBack == \* fault: pops the newest packet
  /\ Called({"poll"})
  /\ \/ packets = <<>> /\ Give(Exhausted) /\ packets' = packets
     \/ packets # <<>> /\ Give(Act({Last(packets)})) /\ packets' = Front(packets)
  /\ UNCHANGED <<phase, slot, bridge, fanouts, results, free, devices, history>>

PollNext ==
  /\ Called({"poll"})
  /\ \/ packets = <<>> /\ Give(Exhausted) /\ packets' = packets
     \/ packets # <<>> /\ Give(Act({Head(packets)})) /\ packets' = Tail(packets)
  /\ UNCHANGED <<phase, slot, bridge, fanouts, results, free, devices, history>>

\* next() of a Bridge takes the packet out of the cell.
BridgeUnchecked == \* fault: an Act although the cell is empty
  /\ Called({"bridge"})
  /\ Give(Act(bridge[Up[Top]]))
  /\ bridge' = [bridge EXCEPT ![Up[Top]] = {}]
  /\ UNCHANGED <<phase, packets, slot, fanouts, results, free, devices, history>>

BridgeNext ==
  /\ Called({"bridge"})
  /\ Give(IF bridge[Up[Top]] = {} THEN Exhausted ELSE Act(bridge[Up[Top]]))
  /\ bridge' = [bridge EXCEPT ![Up[Top]] = {}]
  /\ UNCHANGED <<phase, packets, slot, fanouts, results, free, devices, history>>

\* What Replace and GroupBy have in store comes first.
SlotKept == \* fault: the slot is read and not emptied
  /\ Called({"replace"}) /\ slot[Top] # {}
  /\ Give(DropOf(slot[Top]))
  /\ UNCHANGED <<phase, parts, results, free, devices, history>>

SlotNext ==
  /\ Called({"replace"})
  /\ slot[Top] # {}
  /\ Give(DropOf(slot[Top]))
  /\ slot' = [slot EXCEPT ![Top] = {}]
  /\ UNCHANGED <<phase, packets, bridge, fanouts, results, free, devices, history>>

FanoutNext ==
  /\ Called({"group_by"})
  /\ fanouts[Top] # <<>>
  /\ Give(Head(fanouts[Top]))
  /\ fanouts' = [fanouts EXCEPT ![Top] = Tail(@)]
  /\ UNCHANGED <<phase, packets, slot, bridge, results, free, devices, history>>

\* Otherwise a combinator asks upstream.
AskFirst == \* fault: asks upstream while there is something in store
  /\ Called(Waiting)
  /\ Enter(Up[Top])
  /\ UNCHANGED <<phase, parts, results, free, devices, history>>

Ask ==
  /\ Called(Waiting)
  /\ slot[Top] = {} /\ fanouts[Top] = <<>>
  /\ Enter(Up[Top])
  /\ UNCHANGED <<phase, parts, results, free, devices, history>>

\* Disposition::map: only a packet that is still to be processed reaches the
\* combinator; a disposition of another kind, or None, is passed on as it is.
PassOn ==
  /\ Answered(Waiting)
  /\ ret.tag # "act"
  /\ Give(ret)
  /\ UNCHANGED <<phase, parts, results, free, devices, history>>

-----------------------------------------------------------------------------
(* The combinators *)

\* A closure that fails drops the packet, which goes back to the mempool.
ApplySkips == \* fault: a filtered packet ends the batch
  /\ Answered(DOMAIN Outcomes) /\ ret.tag = "act"
  /\ \E tag \in Outcomes[Kind[Top]] :
       \/ tag = "act" /\ Give(ret) /\ free' = free
       \/ tag # "act" /\ Give(Exhausted) /\ free' = free \union ret.pkt
  /\ UNCHANGED <<phase, parts, results, devices, history>>

ApplyToDropped == \* fault: the closure is given dropped packets as well
  /\ Answered(DOMAIN Outcomes) /\ ret.tag \in {"act", "drop"}
  /\ \E tag \in Outcomes[Kind[Top]] \ {"abort"} : Give([ret EXCEPT !.tag = tag])
  /\ UNCHANGED <<phase, parts, results, free, devices, history>>

Apply ==
  /\ Answered(DOMAIN Outcomes)
  /\ ret.tag = "act"
  /\ \E tag \in Outcomes[Kind[Top]] :
       \/ /\ tag = "abort"
          /\ Give(Aborted)
          /\ free' = free \union ret.pkt
       \/ /\ tag # "abort"
          /\ Give([ret EXCEPT !.tag = tag])
          /\ free' = free
  /\ UNCHANGED <<phase, parts, results, devices, history>>

\* Emit transmits the packet in a batch of its own.
Emit ==
  /\ Answered({"emit"})
  /\ ret.tag = "act"
  /\ Give(Emitted)
  /\ channel' = Append(channel, ret.pkt)
  /\ UNCHANGED <<phase, parts, results, free, rxring, txring, kni_ptrs, history>>

\* Replace: the new packet goes on, the original waits in the slot.
Replace ==
  /\ Answered({"replace"})
  /\ ret.tag = "act"
  /\ \/ \E n \in free :
          /\ Give(Act({n}))
          /\ free' = free \ {n}
          /\ slot' = [slot EXCEPT ![Top] = ret.pkt]
          /\ rank' = [rank EXCEPT ![n] = rank[CHOOSE m \in ret.pkt : TRUE]]
          /\ entered' = entered + 1
     \/ /\ Give(Aborted)
        /\ free' = free \union ret.pkt
        /\ UNCHANGED <<slot, rank, entered>>
  /\ UNCHANGED <<phase, packets, bridge, fanouts, results, devices>>

\* GroupBy feeds the packet through the bridge to the sub batch of its key.
\* Cell::set would drop a packet still in the cell.
Split ==
  /\ Answered({"group_by"})
  /\ ret.tag = "act"
  /\ \E b \in Branches[Top] : Enter(b)
  /\ bridge' = [bridge EXCEPT ![Top] = ret.pkt]
  /\ free' = free \union bridge[Top]
  /\ UNCHANGED <<phase, packets, slot, fanouts, results, devices, history>>

FromBranch ==
  Running /\ Kind[Top] = "group_by" /\ ret # Calling /\ from \in Branches[Top]

\* The sub batch is asked until it is exhausted: it may give several
\* dispositions for the one packet.
GatherLast == \* fault: keeps the last disposition only
  /\ FromBranch /\ ret.tag # "none"
  /\ fanouts' = [fanouts EXCEPT ![Top] = <<ret>>]
  /\ Enter(from)
  /\ UNCHANGED <<phase, packets, slot, bridge, results, free, devices, history>>

Gather ==
  /\ FromBranch
  /\ ret.tag # "none"
  /\ fanouts' = [fanouts EXCEPT ![Top] = Append(@, ret)]
  /\ Enter(from)
  /\ UNCHANGED <<phase, packets, slot, bridge, results, free, devices, history>>

\* The first of them is what this call returns; pop_front().unwrap() would
\* panic on an empty queue.
Merge ==
  /\ FromBranch
  /\ ret.tag = "none"
  /\ fanouts[Top] # <<>>
  /\ Give(Head(fanouts[Top]))
  /\ fanouts' = [fanouts EXCEPT ![Top] = Tail(@)]
  /\ UNCHANGED <<phase, packets, slot, bridge, results, free, devices, history>>

-----------------------------------------------------------------------------
(* Send::run *)

\* replenish, which reaches Poll through every combinator, and the first call.
Receive ==
  /\ phase = "idle" /\ kni_ptrs = {}
  /\ \E k \in 1 .. Len(rxring) :
       /\ k <= BurstMax
       /\ packets' = SubSeq(rxring, 1, k)
       /\ rxring' = SubSeq(rxring, k + 1, Len(rxring))
       /\ rank' = [m \in Mbuf |-> IF m \in Range(packets')
                                  THEN CHOOSE i \in 1 .. k : rxring[i] = m
                                  ELSE 0]
       /\ entered' = k
  /\ phase' = "pull"
  /\ emitted' = 0 /\ aborted' = 0
  /\ Enter(Root)
  /\ UNCHANGED <<slot, bridge, fanouts, transmit_q, drop_q, free, txring,
                 channel, kni_ptrs>>

\* Takes the disposition of one packet and asks for the next.
Take ==
  /\ phase = "pull" /\ stack = <<>>
  /\ \/ /\ ret.tag = "act"
        /\ transmit_q' = transmit_q \o SetToSeq(ret.pkt)
        /\ UNCHANGED <<drop_q, emitted, aborted>>
     \/ /\ ret.tag = "drop"
        /\ drop_q' = drop_q \o SetToSeq(ret.pkt)
        /\ UNCHANGED <<transmit_q, emitted, aborted>>
     \/ /\ ret.tag = "emit"
        /\ emitted' = emitted + 1
        /\ UNCHANGED <<transmit_q, drop_q, aborted>>
     \/ /\ ret.tag = "abort"
        /\ aborted' = aborted + 1
        /\ UNCHANGED <<transmit_q, drop_q, emitted>>
  /\ Enter(Root)
  /\ UNCHANGED <<phase, parts, free, devices, history>>

EndPullRetries == \* fault: goes on asking an exhausted batch
  /\ phase = "pull" /\ stack = <<>> /\ ret.tag = "none"
  /\ Enter(Root)
  /\ UNCHANGED <<phase, parts, results, free, devices, history>>

EndPull ==
  /\ phase = "pull" /\ stack = <<>>
  /\ ret.tag = "none"
  /\ ret' = Calling
  /\ phase' = IF transmit_q # <<>> THEN "transmit" ELSE "reap"
  /\ UNCHANGED <<stack, from, parts, results, free, devices, history>>

TxBurst ==
  /\ phase = "transmit"
  /\ \E k \in 1 .. Len(transmit_q) :
       /\ Len(txring) + k <= RingSize
       /\ txring' = txring \o SubSeq(transmit_q, 1, k)
       /\ transmit_q' = SubSeq(transmit_q, k + 1, Len(transmit_q))
       /\ phase' = IF k < Len(transmit_q) THEN "transmit" ELSE "reap"
  /\ UNCHANGED <<calls, parts, drop_q, emitted, aborted, free, rxring, channel,
                 kni_ptrs, history>>

TxGiveUp ==
  /\ phase = "transmit"
  /\ free' = free \union Range(transmit_q)
  /\ transmit_q' = <<>>
  /\ phase' = "reap"
  /\ UNCHANGED <<calls, parts, drop_q, emitted, aborted, devices, history>>

Reap ==
  /\ phase = "reap"
  /\ free' = free \union Range(drop_q)
  /\ drop_q' = <<>>
  /\ phase' = "idle"
  /\ UNCHANGED <<calls, parts, transmit_q, emitted, aborted, devices, history>>

-----------------------------------------------------------------------------
(* The devices *)

NicReceive ==
  \E m \in free :
    /\ free' = free \ {m}
    /\ rxring' = Append(rxring, m)
    /\ UNCHANGED <<phase, calls, parts, results, txring, channel, kni_ptrs,
                   history>>

NicTransmit ==
  /\ txring # <<>>
  /\ free' = free \union {Head(txring)}
  /\ txring' = Tail(txring)
  /\ UNCHANGED <<phase, calls, parts, results, rxring, channel, kni_ptrs, history>>

\* The KniTx task takes a batch between two runs; here the kernel takes none.
KniTake ==
  /\ phase = "idle" /\ kni_ptrs = {} /\ channel # <<>>
  /\ kni_ptrs' = Head(channel)
  /\ channel' = Tail(channel)
  /\ UNCHANGED <<phase, calls, parts, results, free, rxring, txring, history>>

KniGiveUp ==
  /\ kni_ptrs # {}
  /\ free' = free \union kni_ptrs
  /\ kni_ptrs' = {}
  /\ UNCHANGED <<phase, calls, parts, results, rxring, txring, channel, history>>

-----------------------------------------------------------------------------
NextDisposition ==
  \/ PollNext \/ BridgeNext \/ SlotNext \/ FanoutNext \/ Ask \/ PassOn
  \/ Apply \/ Emit \/ Replace \/ Split \/ Gather \/ Merge

RunStep == NextDisposition \/ Take \/ EndPull \/ TxBurst \/ TxGiveUp \/ Reap

Next ==
  \/ Receive \/ RunStep
  \/ NicReceive \/ NicTransmit \/ KniTake \/ KniGiveUp

Spec == Init /\ [][Next]_vars

\* A run is one poll of the future on the core's thread: it does not yield.
FairSpec == Spec /\ WF_vars(RunStep)

-----------------------------------------------------------------------------
(* Properties *)

Option == {{}} \union {{m} : m \in Mbuf}
Disposition ==
  [tag : {"act", "drop"}, pkt : {{m} : m \in Mbuf}]
    \union {Emitted, Aborted, Exhausted, Calling}

\* The type invariant: an Act or a Drop has exactly one packet, a slot and a
\* bridge at most one.
TypeOK ==
  /\ phase \in {"idle", "pull", "transmit", "reap"}
  /\ packets \in Seq(Mbuf)
  /\ stack \in Seq(Node)
  /\ ret \in Disposition
  /\ from \in Node
  /\ slot \in [Node -> Option]
  /\ bridge \in [Node -> Option]
  /\ fanouts \in [Node -> Seq(Disposition)]
  /\ transmit_q \in Seq(Mbuf) /\ drop_q \in Seq(Mbuf)
  /\ emitted \in Nat /\ aborted \in Nat
  /\ free \in SUBSET Mbuf
  /\ rxring \in Seq(Mbuf) /\ txring \in Seq(Mbuf)
  /\ channel \in Seq(SUBSET Mbuf) /\ kni_ptrs \in SUBSET Mbuf
  /\ rank \in [Mbuf -> Nat] /\ entered \in Nat

\* The places a buffer is in, one by one.
InSeq(name, s, m) == {<<name, i>> : i \in {j \in DOMAIN s : s[j] = m}}
Places(m) ==
  InSeq("packets", packets, m) \union InSeq("rxring", rxring, m)
    \union InSeq("txring", txring, m) \union InSeq("transmit_q", transmit_q, m)
    \union InSeq("drop_q", drop_q, m)
    \union {<<"slot", n>> : n \in {k \in Node : m \in slot[k]}}
    \union {<<"bridge", n>> : n \in {k \in Node : m \in bridge[k]}}
    \union (UNION {{<<"fanouts", <<n, i>>>> :
                      i \in {j \in DOMAIN fanouts[n] : m \in fanouts[n][j].pkt}} :
                    n \in Node})
    \union {<<"channel", i>> : i \in {j \in DOMAIN channel : m \in channel[j]}}
    \union {<<"set", s>> : s \in {k \in {"free", "ret", "kni"} :
              m \in CASE k = "free" -> free [] k = "ret" -> ret.pkt
                      [] k = "kni" -> kni_ptrs}}

\* Slots, bridges, fan-out queues and the calls in between hand a packet over
\* and never copy or lose it: each buffer is in exactly one place.
OwnedOnce == \A m \in Mbuf : \E h \in Places(m) : Places(m) = {h}

\* When a run leaves its loop, no combinator has kept a packet or a
\* disposition that the next run would come upon.
NothingLeftBehind ==
  phase # "pull" =>
    /\ packets = <<>> /\ stack = <<>>
    /\ \A n \in Node : slot[n] = {} /\ bridge[n] = {} /\ fanouts[n] = <<>>

\* GroupBy::next unwraps the front of its queue: a sub batch that is exhausted
\* has given at least one disposition for the packet it was fed.
GroupYields == FromBranch /\ ret.tag = "none" => fanouts[Top] # <<>>

\* Packets leave a run in the order in which they came, through whatever
\* groups and replacements, and none gives rise to two.
TransmitInOrder ==
  \A i, j \in DOMAIN transmit_q :
    i < j => rank[transmit_q[i]] < rank[transmit_q[j]]

\* The dispositions still inside the combinators.
Pending ==
  Len(packets)
    + Cardinality({n \in Node : slot[n] # {}})
    + Cardinality({n \in Node : bridge[n] # {}})
    + Cardinality(UNION {{n} \X DOMAIN fanouts[n] : n \in Node})
    + (IF ret.tag \in {"none", "call"} THEN 0 ELSE 1)

\* What the counters processed, dropped and errors are given at the end of the
\* loop adds up to the packets the run received or created.
Accounting ==
  phase = "pull" =>
    entered = Len(transmit_q) + Len(drop_q) + emitted + aborted + Pending

\* "If a packet is unmatched, it will be marked as dropped" (GroupBy): what
\* the sub batch for unmatched packets gives when the pipeline has no catch
\* all arm, that is, when it is the Bridge itself.
UnmatchedDropped ==
  FromBranch /\ from = Catchall[Top] /\ Kind[from] = "bridge"
    => ret.tag \in {"drop", "none"}

\* Every run ends: the loop over next() is finite for every batch.
RunEnds == (phase = "pull") ~> (phase = "idle")

(***************************************************************************)
(* The pipeline implements the data path of module PacketPath.  A packet   *)
(* that is still to be processed is in PacketPath's batch wherever it is   *)
(* in the pipeline, and one that some combinator marked as dropped is in   *)
(* its drop_q.                                                             *)
(***************************************************************************)
InPipeline(tag) ==
  {m \in Mbuf :
     \/ ret.tag = tag /\ m \in ret.pkt
     \/ \E n \in Node : \E i \in DOMAIN fanouts[n] :
          fanouts[n][i].tag = tag /\ m \in fanouts[n][i].pkt}

Path == INSTANCE PacketPath WITH
  Core <- {"core"}, Pool <- {"pool"},
  Home <- [m \in Mbuf |-> "pool"],
  RxPool <- [c \in {"core"} |-> "pool"],
  CorePool <- [c \in {"core"} |-> "pool"],
  TxKind <- [c \in {"core"} |-> "port"],
  KniCore <- "core",
  U16 <- 2 ^ 16,
  free <- [p \in {"pool"} |-> free],
  rxring <- [c \in {"core"} |-> Range(rxring)],
  phase <- [c \in {"core"} |-> phase],
  batch <- [c \in {"core"} |->
              Range(packets) \union InPipeline("act")
                \union UNION {bridge[n] : n \in Node}],
  transmit_q <- [c \in {"core"} |-> Range(transmit_q)],
  drop_q <- [c \in {"core"} |->
               Range(drop_q) \union InPipeline("drop")
                 \union UNION {slot[n] : n \in Node}],
  txring <- [c \in {"core"} |-> Range(txring)],
  receiver <- "open",
  kernel <- {}

PathSpec == Path!Spec

=============================================================================
