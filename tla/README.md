# A formal model of capsule, the packet library of rust-onvm-v2

The repository is an attempt to move openNetVM to Rust. Its core is a copy of
*capsule*, a library for network functions on top of DPDK; a manager for
openNetVM network functions has been begun next to it. This directory holds
TLA+ modules that model the parts of capsule where correctness depends on
order, ownership, concurrency or arithmetic at a boundary, the TLC runs that check them, and theorems
proved with TLAPS.

`capsule/...` below stands for `src/capsule/src/...`.

## 1. Inventory

| Component | Source | State | Operations | Interacts with |
|---|---|---|---|---|
| packet path | `batch/send.rs`, `batch/rxtx.rs`, `dpdk/port.rs`, `dpdk/kni.rs`, `dpdk/mod.rs` | the queues of a run, NIC rings, KNI channel, mempools | receive, transmit, emit, bulk free, KNI transmit | every core; drivers and kernel through DPDK |
| batch combinators | `batch/*.rs` | slot of `Replace`, bridge and fan-out queue of `GroupBy`, packets of `Poll` | `replenish`, `next` | each other, by calls; closures of the application |
| runtime | `runtime/mod.rs`, `runtime/core_map.rs` | cores, threads, park and shutdown channels, ports, mempools | build, add_..., execute, drop | the threads, by channels and joins |
| ports | `dpdk/port.rs` | an Ethernet device and its queues | build, start, stop, close | runtime, pipelines |
| kernel NIC interface | `dpdk/kni.rs` | handles, channel | take_rx, take_tx, transmit, receive | ports, pipelines, one transmit task |
| mempools | `dpdk/mempool.rs`, `dpdk/stats.rs` | free buffers | create, look up by socket, free | buffers, cores (thread local `MEMPOOL`) |
| packet buffers | `dpdk/mbuf.rs` | an array of octets, where the packet begins and how long it is | extend, shrink, resize, truncate, read, write | packet headers |
| packet headers | `packets/**` | a stack of envelopes over one buffer, each with an offset and a pointer it has cached | push, parse, peek, downcast, deparse, reset, remove, setters, truncate, reconcile | packet buffers, checksum |
| neighbor discovery options | `packets/icmp/v6/ndp/**` | options at the end of a message, an iterator's offset | iterate, prepend, append, retain, downcast, set_length | packet buffers; closures of the application |
| checksum | `packets/checksum.rs` | none | pseudo-header sum, compute, incremental update | packet headers |
| network types | `net/**` | a CIDR range and its iterator; MAC addresses | make, contains, network, broadcast, iterate | the application |
| configuration | `config.rs` | none | parse | runtime |
| packet capture, metrics, test support | `pcap.rs`, `metrics.rs`, `testils/**` | files, counters | record | the rest |
| derive macros, bindings | `src/capsule-macros`, `src/capsule-ffi` | none | generated code | the rest |
| openNetVM manager | `src/onvm_mgr` | table of network functions, message ring, ports | start, ready, stop, send message, main loop, init | network functions over shared memory |

What makes each of them hard, and what makes it correct:

* **Packet path.** Cores run in parallel and share mempools and the KNI
  channel; buffers travel as raw pointers without a destructor through two
  transmit loops that may be cut short by a full device; a core may be shut
  down at any point between two runs. Correct means: every buffer has one
  owner at every moment, goes back to the mempool it came from, and leaves
  the software in the end.
* **Batch combinators.** A packet is pulled through a tree of objects each of
  which keeps something between two calls. Correct means: no packet is copied,
  lost, reordered or left behind, none that was already dropped is processed
  again, and the loop ends.
* **Runtime.** Threads start parked, run and end on channels; devices, pools
  and tasks must go up and down in one order although `HashMap`s have none and
  every step may fail. Correct means: tasks run only on started devices and
  live pools, what they hold is returned before the pools are freed, every
  KNI has its transmit task, a shutdown completes.
* **Buffers, headers and options.** Offsets and pointers are cached and the bytes
  under them move; guards on u16 and u8 arithmetic are all that keeps an
  operation inside the packet; the options come from the network with any
  length in them; an error half way takes the buffer with it. Correct means:
  the packet stays in its buffer, every view is where its envelope ends, a write
  to one option is not a write to another, loops end, the buffer is freed once.
* **Checksum.** A header's checksum covers lengths, addresses and data that other
  headers own. Correct means: after `reconcile_all` a receiver accepts the packet,
  and an incremental update keeps a checksum that was right.
* **Network types.** The prefix length 0, the last address of a family, and a size
  that is wider or narrower than an address. Correct means: the accessors agree on
  the range, and the iterator gives exactly that.
* **Manager.** Unfinished, and it does not compile (section 6).

All hazards found while reading are in `PROJECT.json` under `hazards`, each at
its line and with the properties that watch it.

## 2. Modules

| Module | Models | Checked by | Proofs |
|---|---|---|---|
| `PacketPath` | the data path of all cores, by ownership of buffers | `MCPacketPath` | `PacketPathProofs` |
| `Pipeline` | the combinators and `Send::run` of one core, call by call; implements `PacketPath` | `MCPipeline` | `PipelineProofs`, `PipelineDataProofs`, `PipelinePathProofs` |
| `Runtime` | build, execute and drop, with the background threads | `MCRuntime` | `RuntimeProofs` |
| `Mbuf` | the message buffer: an array of cells and the operations that resize, read and write it | through `Ndp` | through `NdpProofs` |
| `Ndp` | the options of an NDP message over `Mbuf`, loop iteration by loop iteration | `MCNdp` | `NdpProofs` |
| `Checksum` | the ones' complement sum and its incremental update, over words of any width | through `Packets` | `PacketsProofs` |
| `Packets` | the stack of header views over one buffer, with `Checksum` | `MCPackets` | `PacketsProofs` |
| `Cidr` | CIDR ranges of either family and their iterator | `MCCidr` | `CidrProofs` |

Some operators stand directly before the definition they vary and are marked
`fault`. They are not part of any specification: each shows a plausible slip
in the code that the properties must notice (listed under `mutants`).

### PacketPath

A buffer is a model value. It is in a mempool (`free`), in a receive queue
(`rxring`), with a pipeline (`batch`, `transmit_q`, `drop_q`), in a NIC
transmit queue (`txring`), on the KNI channel (`channel`), in the loop of
`KniTx::transmit` (`kni_ptrs`) or with the kernel (`kernel`). `phase[c]` is the
place of core `c` in `Send::run`:

| Action | Code |
|---|---|
| `Receive` | `PortQueue::receive`, `KniRx::receive` through `Poll::replenish` |
| `Act`, `Drop`, `Abort`, `Emit`, `Replace` | the dispositions of one packet |
| `EndPull` | the end of the `while let` and the test for an empty queue |
| `TxBurst`, `TxGiveUp` | one iteration of the loop of `PortQueue::transmit` |
| `TxChannel` | `KniTxQueue::transmit` |
| `Reap` | `Mbuf::free_bulk(drop_q)` |
| `KniTake`, `KniBurst`, `KniGiveUp` | the task of `KniTx::into_pipeline` |
| `CoreStop` | the end of a core's executor, which drops its tasks |
| `NicReceive`, `NicTransmit`, `KernelConsume` | external: driver and kernel |

`FreeBulk` is `mbuf_free_bulk` as it is written: `pool` is that of the first
buffer and is never set again, so all buffers of a batch go there.
`FreeEach` is the driver's and `Mbuf::drop`'s free of one buffer.
`ToSend` keeps the cast to `u16`, with `U16` values.

Two tasks share `KniCore`: its pipeline and `KniTx`. The guards on `KniRuns`
and `phase[KniCore]` say that they do not interleave inside a run, because an
executor is single-threaded and `Send::poll` yields between runs only.
Disposition and order of packets inside a batch are abstracted here; module
`Pipeline` has them.

### Pipeline

The combinators form a tree given by the constants `Kind`, `Up`, `Branches`,
`Catchall` and `Root`. `stack` holds the combinators whose `next()` is under
way, `ret` and `from` the last return value. `TreeAssumption` says that they
are a tree, which Rust's moves see to: a combinator takes the batch it is built on by
value, so no batch is under two others or under itself. `Chain[n]` is `n` and what is
upstream of it up to a `Poll` or a bridge; it is a constant because a function that
follows `Up` is a recursion that the prover cannot use, and `NodeChain` in `MCPipeline`
computes it. `PollNext`, `BridgeNext`,
`SlotNext`, `FanoutNext`, `Ask`, `PassOn`, `Apply`, `Emit`, `Replace`, `Split`,
`Gather` and `Merge` are the branches of the `next` methods; `Receive`, `Take`,
`EndPull`, `TxBurst`, `TxGiveUp` and `Reap` are `Send::run`. Closures are
nondeterministic. `rank` and `entered` are history variables. The single core,
mempool and port are enough: what cores share is `PacketPath`'s subject.

`Path == INSTANCE PacketPath WITH ...` maps the state: a packet that is still
to be processed counts as in `batch` wherever it is in the tree, one that is
marked as dropped as in `drop_q`, the rest is taken over with the order
forgotten. `PathSpec` says that every step is a step of `PacketPath` or leaves
its state alone; this justifies the abstraction of `PacketPath` to one step
per disposition.

### Runtime

`main` is the place of the main thread, `todo` what its current loop has left.
The background threads go `init -> ready -> parked -> running -> ended`;
`trigger[c]` is the sending end of the shutdown channel, whose drop ends
`block_on` as well. `port`, `pools` and `eal` are the devices, `kni_tx[p]` the
owner of the one `KniTx` of port `p`, `chan[p]` the number of batches on its
channel. `MayFail` names the steps that may return an error in an instance:
`build` any `?` of `Runtime::build`, `install` those of the `add_` functions,
`start` the start of a port, `signal` the registration of a signal handler.

### Mbuf and Ndp

A buffer is a record: `mem`, the array; `data_len`, which is what the Rust code reads; and
`pkt_len`, which it updates and the driver reads. An operation is a guard (the
`ensure!`s, `CanExtend`) and the buffer it returns (`Extend`), which copies cell by cell
as `ptr::copy` does and takes no notice of a bound.

`Ndp` drives it with the operations on options. A cell is what holds the type and
the length of an option (an octet pair in the code), and `Unit` cells are a unit of the
length field; the length is a value below `Width`, as a u8 is below 256. `Prepend`,
`AppendOption` and `SetLengthOfFirst` are calls that end at once. The three loops are
entered by `Iterate`, `Retain` and `Reconcile` and then take a step per option:

| Action | Code |
|---|---|
| `Prepend`, `AppendOption` | `NdpOptions::prepend`, `append` and `try_push` of the option |
| `SetLengthOfFirst` | `RedirectedHeader::set_length` on what `prepend` returned |
| `NextOption` | `next` of either iterator |
| `SetField` | `downcast` and a setter, in the body of an application's loop |
| `RetainStep` | one round of the `while` in `retain`, with a closure that refuses some types |
| `Reconcile`, `ReconcileStep` | `Redirect::reconcile`, but for the checksum |

The frames received have options of every length, zero and too large included.
`Walk` is what a receiver makes of the options and is what the properties compare with.
u8 products wrap, as they do in a release build; a debug build panics instead.

### Checksum and Packets

In `Packets` the buffer is a sequence of cells, for what is in the array under it is
`Mbuf`'s subject, and a header is one cell with the fields every property needs: what
follows (`next`), addresses, a length, the checksum and one other. So a cell can be taken for
any header, as octets can. `views` are the envelopes, outermost first, each with the
offset and, for a routing header, the number of segments that it has cached. A
message of ICMP is the view of its ICMP header with `msg` set, which is what
the derive macros make of it.

`Parse`, `Peek`, `Downcast`, `Push`, `RemoveHeader`, `RemovePayload`, `Deparse`, `Reset` and
`Drop` are the operations of the trait `Packet`; an operation that takes the envelope and
fails frees the buffer. `SetIp`, `NoChecksum`, `SetSegments`, `SetData` and `TruncateTo` are the
setters that do more than write a field; `SetField` is every one that does not.
`ReconcileAll` reconciles the views from the innermost outwards. `EchoRequest` stands for
the messages that reconcile nothing but the checksum, `TimeExceeded` (IPv4) and
`PacketTooBig` (IPv6) for those that quote a packet and cut it.

Three things a program may do are left out, because nothing holds after them: it sets
`protocol` or `next_header` by hand to what does not follow; it resizes a header that has
views above it, through `envelope_mut`; it calls `remove_payload` on an ICMP message, which
counts its own body as payload. The first is up to the application, the other two leave
a view whose pointer is to bytes that have moved or gone.

### Cidr

One module for both families, which differ in the bits of an address. `SizeBits` is
that of `usize`, between the two as in the code. `asked` (the prefix length that the
range was last asked to have, as it was given) and `given` (what the iterator gave so far) are history variables
that the properties compare the range with. The prefix length 0 gets the mask of a single address in the code
(`Mask`), against the docs (section 4): `RangeAgrees` says of a range made from it (`ZeroAsked`) only that its accessors
agree, and would hold as well if the mask were 0; `LengthAsAsked` says what the docs say.
`And` is `&` and `Pow2` a power of two, written as recursive functions: the prover has neither
the community module `Bitwise` nor `^`. `|` is a sum in `Broadcast`, for the masked address and the
inverted mask have no bit in common.

## 3. Runs

| Run | Instance | Shows |
|---|---|---|
| `packet_path` | 2 cores, 2 sockets, 5 buffers (3 + 2), ring and burst of 2 | `TypeOK`, `Conservation`, `PoolHome`, `NeverTransmitsNothing`, `HoldsByPhase`, `ClosedChannelIsEmpty`, `BurstBound`, `RunEnds`, `BuffersMoveOn` |
| `pipeline` | a tree of 14 combinators, 4 buffers, burst of 2, ring of 1 | `TypeOK`, `OwnedOnce`, `NothingLeftBehind`, `GroupYields`, `TransmitInOrder`, `Accounting`, `PathSpec`, `RunEnds` |
| `runtime` | 4 cores, 2 ports with a KNI, channels of 2 | `TypeOK`, `RunsOnLiveDevices`, `BuffersReturnedFirst`, `EveryKniHasItsTx`, `ShutdownCompletes` |
| `ndp` | `Base` 1, units of 2 cells, lengths below 8, a buffer of 14 cells, 4 calls | `TypeOK`, `InBuffer`, `PushedAmongOthers`, `FieldsInsideOption`, `IterationComplete`, `RetainFilters`, `LoopsEnd`, `RedirectReconciled` |
| `packets` | stacks of 5 views, 15 cells, words of 4 bits, 4 calls | `TypeOK`, `HeadersInPlace`, `FreedOnce`, `ChainKept`, `ReconcileSettles`, `ChecksumCarried`, `ErrorLeavesPacket` |
| `cidr` | families of 3 and of 5 bits, sizes of 4 bits | `TypeOK`, `RangeAgrees`, `IteratorCovers` |
| `mixed_sockets` | as `packet_path`, with both ports on socket 0 | violates `UsedCountsAllocated` |
| `unmatched` | as `pipeline` | violates `UnmatchedDropped` |
| `kni_on_master` | 3 cores, a KNI port that has the master core | violates `BuffersReturnedFirst` |
| `kni_collision` | 3 cores, 2 KNI ports that share a core | violates `EveryKniHasItsTx` |
| `ndp_redirect` | as `ndp` | violates `ReconcileSetsLength` |
| `cidr_zero` | as `cidr` | violates `LengthAsAsked` |

**Bounds.** In `packet_path` one core transmits to its port and the other to
the channel of the first, so all paths cross. A burst of two packets is the
smallest that can be sent in part, split between queues or freed in bulk, and
with rings of two a device fills up; three buffers of a socket allow a burst
and a replacement at once. `U16` is 3, one more than the burst: the smallest
value for which the cast in the transmit loop is exact, so a burst that is not
bounded does wrap. The buffers of a socket are interchangeable, but are no
symmetry set: the run checks liveness, for which that is not sound. The tree of `pipeline` has every kind
of combinator, a `group_by` nested in another, a combinator that produces
two dispositions for one packet (`replace`) inside a sub batch and one
outside, and a sub batch that is the bare bridge; four buffers allow two
packets, each of them replaced. In `runtime` the shutdown of three background
cores happens in all orders; one port has its `KniTx` and another sender on
different cores. `ChanMax` bounds the batches on a channel.

In `ndp` the frames hold up to a few options of several types with lengths from zero to
one that reaches beyond the packet; the buffer fills up within the calls, so a push is
refused; the minimum MTU lies inside the options, so that
truncation cuts one. Four calls are enough to push, set a length, truncate and walk.
In `packets` five views are Ethernet, IPv6, a routing and a fragment header and what they carry.
Words of four bits let every sum of a header carry, more than once; `Room` is met by a
push and by `set_segments`. `Mtus` are 9 and 10 cells and `Ipv6MinMtu` is 10, of 15 that the buffer
has: `truncate` and `reconcile` of an error message cut inside what the message quotes.
`MaxCalls` bounds the calls other than `parse`, which the stack bounds, and `drop`, the last.
In `cidr` all addresses, masks and lengths of both families are tried, the last address and
the ranges too large for a `usize` included.

**Deadlock** is not checked in `packet_path` and `runtime`, where the system
comes to an end: when the cores have stopped and the devices are drained, and
when the Runtime has been dropped; nor in `ndp` and `packets`, where the number of
calls is bounded and a packet may be dropped. It is checked in `pipeline`, where the NIC
can always deliver or send, and in `cidr`.

**Fairness.** `PacketPath`: each core has a thread of its own, so a run that has
begun goes on (`WF` of `RunStep`). `Send::poll` wakes itself and returns
`Pending`, and the executor polls the woken tasks in turn: the `KniTx` task gets
to run between runs again and again, but is not enabled all the time, hence
`SF` of `KniTake`. That a run yields is so taken for granted, here and in the `WF` of `CoreEnd`: if it did not, no
property would show it. Nothing is assumed of the NIC, the kernel or the shutdown:
`BuffersMoveOn` holds although packets may stop arriving, rings stay full
and the kernel takes nothing. `Pipeline`: `WF` of the run. `Runtime`: `WF` of the
main thread and of each background thread; the stop itself (`Stop`) is not fair, and
`ShutdownCompletes` starts from the shutdown. `Ndp`: `WF` of a step of the loop that has been
entered, which the calling thread runs; nothing is assumed of the calls. `LoopsEnd` is
about messages without an option of length zero, for with one the loop does not end.

## 4. What the runs found

* **`mbuf_free_bulk` mixes mempools** (`mixed_sockets`). The variable `pool` is not
  updated when a group of buffers from another mempool begins. It takes a batch
  with buffers of two pools, which arises when a core replaces packets and is not
  on the socket of its port. `PoolHome` holds, and is proved, when cores and ports
  are aligned.
* **Unmatched packets** (`unmatched`). The doc comment of `GroupBy` says they are
  dropped; `compose!` passes them through, as the doc comment of `group_by` says.
* **`KniTx` on the master core** (`kni_on_master`). Its queued packets are freed
  after their mempools: `Runtime::drop` leaves the field `core_map` for the end.
* **Two `KniTx` on one core** (`kni_collision`). A map keyed by core keeps one of
  them; the other kernel interface silently gets no packets.
* **The length of a Redirected Header** (`ndp_redirect`). `Redirect::reconcile` truncates
  the message and then looks for the option. One that was given its length before is now
  longer than the packet, so the iterator answers with an error, the loop ends and
  the length stays. `RedirectReconciled` is what does hold: an option that is whole
  after the truncation gets its length.
* **The prefix length 0** (`cidr_zero`). `new` shifts for the lengths 1 to the bits of the family and has an arm for 0,
  with the mask of all ones in place of none. So 0.0.0.0/0 contains one address and `length()` answers 32, where the docs
  of the trait say that the range is made from the prefix length and that `length` gives it.

Shown in the models by a premise of a property, without a run of their own:

* An option of length zero makes `next` give the same option for ever, and the loops over
  options, that of `Redirect::reconcile` included, never end (`NoEmptyOption` in
  `LoopsEnd`). RFC 4861 has nodes discard such a packet; the constructor accepts it.
* `retain` computes `length() * 8` in a u8, which wraps for 32 units and more (`NoWrap` in
  `RetainFilters`).
* `set_src_ip` and `set_dst_ip` of a UDP packet without a checksum write one, a wrong one
  (the premise `Valid` in `ChecksumCarried`).
* `set_data` of an echo request fails for data of the length it has, and for no data, in
  the latter case after the packet was resized (`SetData`, `ErrorLeavesPacket`).
* An error message is cut at the minimum MTU, and `truncate` cuts at any length, whether or not the headers
  end before it (`HeadersFit`, a premise of the theorems about `Packets`).
* The size of an IPv6 range with 64 host bits or more does not fit a `usize`; `2usize.pow` overflows, and the end of the
  iteration is computed from it (`SizeFits` in `RangeAgrees` and `IteratorCovers`).

A further failure has its step in `Runtime` and no run: when a
signal handler cannot be registered, `execute` returns while the background
cores run, and the drop of the `Runtime` frees the pools under them
(`"signal" \in MayFail` violates `RunsOnLiveDevices`).

## 5. Proofs

`PacketPathProofs` proves, for every number of cores, buffers and mempools, from
`ConstantsAssumption` (types of the constants, finitely many buffers):

| Theorem | States | Further assumption |
|---|---|---|
| `TypeCorrect` | `Spec => []TypeOK` | |
| `TasksHoldByPhase` | `Spec => []HoldsByPhase` | |
| `NothingBehindClosedChannel` | `Spec => []ClosedChannelIsEmpty` | |
| `TransmitsSomething` | `Spec => []NeverTransmitsNothing` | |
| `BuffersConserved` | `Spec => []Conservation` | `BurstMax < U16` |
| `BurstsBounded` | `Spec => []BurstBound` | `BurstMax < U16` |
| `AlignedPoolsStayHome` | `Spec => []PoolHome` | `RxPool = CorePool` |

`Conservation` counts the places a buffer is in and is no good as an induction
hypothesis for the provers. The proof replaces it by `Located`: every buffer
has a place `h` such that, for every kind of place, being there is being at
`h` (`LocatedConserves` shows the two equivalent under `TypeOK`). One lemma per
action (`NicReceiveLocated` to `CoreStopLocated`) gives the place of each buffer
after the step. The invariant needs three companions. `HoldsByPhase`: `Receive`
overwrites `batch[c]`, which loses nothing because it is empty there.
`ClosedChannelIsEmpty`: `CoreStop` empties the channel, and a later `Emit` frees
instead of appending. `BurstBound`: a transmit loop that sent as many packets as
it counted drops its vector, which loses nothing only if the count is the length,
that is, if the length is below `U16` (`LoopSendsAll`); this is where
`BurstMax < U16` is used. The code has it for `PortQueue` and `KniRx`, whose bursts are of 32,
and not for an mpsc `Receiver`, which takes all there is. A `Replace` does not
break the bound, for the original moves to `drop_q`.

`PoolHome` is not inductive either: `FreeBulk` puts a set where the first buffer
belongs. `HomeInv` adds that all a core holds comes from one mempool (`CoreHome`),
and so does every batch on its way to the kernel (`ChannelHome`). The assumption
`RxPool = CorePool` is the configuration the code warns about when it is not met
(`port.rs:557-564`); `mixed_sockets` shows that it is needed.

`NdpProofs` proves, for every size of buffer and headroom, every width of a length and every
set of frames, from `MbufAssumption` and `NdpAssumption` (the headroom lies in the buffer, a
frame received fits, a new option is not longer than a length can say, a Redirected Header is new with one
unit, and the minimum MTU is shorter than a length can say). The last two are the code's: `RedirectedHeader::new` makes
a header of 8 octets with length 1, and the minimum MTU of 1280 is below 8 * 256 octets. With a larger
MTU the length that `reconcile` writes would wrap.

| Theorem | States |
|---|---|
| `TypeCorrect` | `Spec => []TypeOK` |
| `PacketInBuffer` | `Spec => []InBuffer` |
| `FieldsInside` | `Spec => FieldsInsideOption` |
| `PushLeavesOthers` | `Spec => PushedAmongOthers` |
| `IterationGivesAll` | `Spec => IterationComplete` |
| `RetainLeavesAccepted` | `Spec => RetainFilters` |
| `RedirectEnds` | `Spec => RedirectReconciled` |

`TypeOK` and `InBuffer` are not inductive one without the other: that a cell of the packet is
a `Cell` needs the packet to be in the array, and that `SetLength` writes a length needs the
cells to be typed. `IInv` is their conjunction, split into what is said of the buffer
(`Sound`) and of the rest (`ControlOK`); one lemma for each operation of `Mbuf` says that its
guard is enough for it to keep `Sound` (`ExtendSound`, `ShrinkSound`, `TruncateSound`,
`WriteSound`), and the steps of the loops follow from them. `FieldsInside` rests on
`DowncastLongEnough`: the downcast compares two products modulo `Width`, and since the size of
the fields is below `Width`, equality modulo `Width` still makes the option at least as long.

The other four compare the outcome of a loop with `Walk`, what a receiver finds in the message
from an offset on. `Walk` is a recursive function over offsets; `WalkIs` shows that the recursion has a solution
and what its values are, by induction over the distance to the end of the packet, and `WalkTails` that a walk depends
on the cells ahead and not on where they are, so options keep their meaning when an extend or a shrink moves them.
A loop in the middle of its work has read some options and changes others, so its invariant, `Progress`, cannot
speak of the walk of one fixed message. `Leads(b, o, pre)` says that the walk of `b`, *and of every packet that has the
same cells up to `o`*, comes to `o` and has found `pre` by then. It follows at the first option (`LeadsFirst`),
from one option to the next (`LeadsOn`), for any packet that is changed from `o` on only (`LeadsSame`), and at the
end it says what the whole walk found (`LeadsToEnd`). On it rest the three parts of `Progress`:

* `IterProgress`: the walk of the message as it was received leads to the offset, and the options given, by where they
  were, are those in `pre`; the caller's setters have changed nothing from the offset on;
* `RetainProgress`: the walk of what is left leads to the offset with the accepted ones of the options read so far
  (`done`), and the walk of the original is `done` and then what is ahead now, which a removal moved down
  (`ShrinkWalk`). `WithoutEmpty` and `WithoutAppend` give the filter element by element;
* `ReconcileProgress`: the message fits the minimum MTU and the walk leads to the offset without a Redirected Header, so
  the one found next is the first, and with the length it gets the walk ends in it (`SetLengthEnds`).

`RetainLeavesAccepted` has the premise `NoWrap` of its property: an option of `Width` octets or more is
not removed whole (section 4).

**`PipelineProofs`** is about every tree of combinators, every size of burst and rings and
any finite number of buffers, from `PipelineAssumption` (types) and `TreeAssumption`.
`PipelineDataProofs` and `PipelinePathProofs` build on it.

| Theorem | Module | States |
|---|---|---|
| `TypeCorrect` | `PipelineProofs` | `Spec => []TypeOK` |
| `SubBatchesYield` | `PipelineProofs` | `Spec => []GroupYields` |
| `RunsLeaveNothing` | `PipelineProofs` | `Spec => []NothingLeftBehind` |
| `PacketsOwnedOnce` | `PipelineDataProofs` | `Spec => []OwnedOnce` |
| `TransmitsInOrder` | `PipelineDataProofs` | `Spec => []TransmitInOrder` |
| `AccountsBalance` | `PipelineDataProofs` | `Spec => []Accounting` |
| `ImplementsPacketPath` | `PipelinePathProofs` | `BurstMax + 1 < 2^16` implies `Spec => PathSpec` |

That a combinator overwrites nothing depends on what all the others are doing, and this is
what the invariant has to say. `StackInv`: the calls under way are a path down the tree.
`StoreInv`: only a `Replace` has a slot, only a `GroupBy` a queue, and both are empty while
its upstream is asked. `BridgeInv`: there is a packet in a bridge only while a sub batch is
asked. `YieldInv`: the packet that was fed to a sub batch is still under way to the
`GroupBy`; so a sub batch may answer `None` only when there is a disposition in the queue,
which is `GroupYields`, the `unwrap` of `group_by.rs`. `NoneInv`: a combinator that answers
`None` has nothing left, nor has any on its chain. `HeldInv`: what is kept is on the chain of
`Send` or of a sub batch that is being asked; with `NoneInv` it gives `NothingLeftBehind`
when the root answers `None`.

`OwnedOnce` counts, as `Conservation` does, and is replaced by `Located` (every packet is in
one kind of place) and `Distinct` (once in it). `TransmitInOrder` needs `OrderInv`: at most
one packet is between the `Poll` and `Send`, behind all that wait for transmission and ahead of
all that wait in the `Poll`; this holds because a `Poll` is reached only through a whole
chain of waiting combinators (`PathInv`). `BalanceInv` adds to `Accounting` that what is
counted is finite, and `drop_q` is empty between runs.

The refinement maps the calls to `PacketPath`'s state (`Batch`, `Dropped`). A step that
only moves a packet between the combinators is invisible there (`Inside`); every other
step is one of `PacketPath`'s, and the proof finds it for each (`PathSimulated`). It uses the
invariants above: the bridge is empty at a `Split`, the pipeline at the end of a run, and no
packet is counted twice. `CountInv` bounds `transmit_q` by `BurstMax + 1`, through the
different ranks of its packets, so the cast to `u16` in the transmit loop is exact. The
assumption is met with room to spare: a burst of `Poll` is `RX_BURST_MAX`, 32.

**`RuntimeProofs`** is about any finite sets of cores and ports and every assignment of
cores to ports, from `RuntimeAssumption` (types).

| Theorem | States | Further assumption |
|---|---|---|
| `TypeCorrect` | `Spec => []TypeOK` | |
| `ShutdownJoinsWhatEnds` | `Spec => []JoinsWhatEnds` | |
| `CoresRunOnLiveDevices` | `Spec => []RunsOnLiveDevices` | `"signal" \notin MayFail` |
| `PacketsFreedBeforeMempools` | `Spec => []BuffersReturnedFirst` | the same, and no KNI port has the master core |
| `KniTxStaysOnItsPort` | `Spec => []EveryKniHasItsTx` | KNI ports share no core |

The three assumptions are not conveniences: without each there are configurations for which the theorem fails.
When a signal handler cannot be registered the background threads run on (end of section 4), and
`kni_on_master` and `kni_collision` violate the other two. `ServingInv` ties the threads and
the devices to the place of the main thread, `TodoInv` says what its loops have left and
`ThreadInv` who has been triggered. `JoinsWhatEnds` is the safety part of the shutdown: the
main thread joins a thread only after it sent the trigger and the thread was unparked, so
it does not wait for one that sleeps in `Park`. `KniInv` says that batches wait on
a channel only while the core that has its `KniTx` is there, `PlacedInv` that the loop of
`add_kni_tx_pipelines` takes none away again that it has placed.

**`PacketsProofs`** is about words of any width, packets, stacks and
chains of any length, buffers with any room and any MTUs, from `ChecksumAssumption` and `PacketsAssumption`.

| Theorem | States | Further assumption |
|---|---|---|
| `IncrementalUpdate` | `compute_inc` gives a sum that verifies if the old one did | what else is summed is not zero |
| `TypeCorrect` | `Spec => []TypeOK` | `[]HeadersFit` |
| `HeadersStayInPlace` | `Spec => []HeadersInPlace` | `[]HeadersFit` |
| `BufferFreedOnce` | `Spec => []FreedOnce` | |
| `ErrorsLeavePacket` | `Spec => ErrorLeavesPacket` | |
| `ChecksumsCarried` | `Spec => ChecksumCarried` | `[]HeadersFit` |
| `ReconcileLeavesRight` | `Spec => ReconcileSettles` | `[]HeadersFit` |
| `ChainsKept` | `Spec => ChainKept` | `[]HeadersFit` |

The premise `HeadersFit` says that the headers, with the body of a message, are not longer than the
smallest MTU. `truncate`, and `reconcile` of a message that quotes a packet, cut at an MTU and do not look
where the headers end; a program that stacks more headers than that under such a message cuts
one that has a view (with `PacketTooBig` the code panics then, see section 6). All states of `packets`
satisfy it, so there it says nothing new; it is a premise of the theorems because nothing in the code
enforces it for every value of the constants.

`HeadersInPlace` speaks of neighbours, and does not say that a write at one view's offset misses the
header of a view far below. `IInv` is `Linked`, the order of all headers, `Typed`, the bounds on the two
lengths, and the flags. `Typed` and `Linked` take the packet and the views as arguments, so that a lemma can speak of a packet that is half
reconciled. A call changes what is behind the headers (`Behind`), fields that are not part of the structure
(`Agreeing`), or the top of the stack (`NewView`, `Below`); each call is one of these, or several in turn.

The sums are functions by recursion on the naturals (`Folded`) or on a position and a
sequence (`Total`). The library's induction theorems cannot be used, for they have an operator as a
parameter. The proofs use well-founded induction on sets of naturals instead: the numbers for which the claim
fails have a least element (`WFMin`), and there is none. `Natural` and `Complete` state this once. `Folded[n]` is then characterised: it is a word, congruent to
`n` modulo `AllOnes`, and zero only for zero; `IncrementalUpdate` is modular
arithmetic from there.

`ChecksumCarried` and `ReconcileSettles` use `TailSum` and `ValidRest` to split the sum of a packet into the
checksum and the rest. `reconcile_all` is a recursion over the views; `Halfway` is its invariant: what is at or
above a view is settled. What is written below it (`Beneath`) changes none of that, neither
a pseudo header nor the bytes of a sum. The cut of an error message happens while the message itself is
reconciled, and so before anything above it was settled: there is nothing above a message.

`Chain` is what a receiver makes of the extension headers from an offset on. `ChainTails` says that it
depends on nothing but the cells behind the offset, by induction on how much of the packet is left; a push or
a removal keeps the cells behind (`Pushed`, `Removed`), moved by the length of the header, and writes
the next header so that the receiver gets there with the number it would have had.

**`CidrProofs`** is about families with addresses of any number of bits, a `usize` of any number of bits, and
every address, length and netmask, from `CidrAssumption` (all of them have at least one bit).

| Theorem | States |
|---|---|
| `TypeCorrect` | `Spec => []TypeOK` |
| `NetmaskKept` | `with_netmask(a, m)`, if it succeeds, makes the range with the mask `m` |
| `RangesAgree` | `Spec => []RangeAgrees` |
| `IterationCovers` | `Spec => []IteratorCovers` |

The code works on bits and the properties speak of addresses in their order. The lemma between them is `Masked`: `&` with a mask of
ones and then `k` zeros takes off the remainder by `Pow2[k]`. It gives a solution of the recursion of `And` (the
sums over the lowest bits, for such a mask) and shows by induction that it is the only one, from `LowBits`, what one bit adds
to a number, and `MaskBits` and `InvertedBits`, the bits of a mask and of its inverse. `Block` and
`BlockFits` then make the addresses of a range an interval that ends before the address space does.
`netmask_length` compares the zeros at the end with the number of zeros: `NetmaskLength` shows that the ones are then
all those from the lowest one up, since they are a subset of an interval with as many elements, and `NetmaskKept` that only one
address has these bits (`SameBits`). So no mask with a hole passes.

The invariant, `Inv`, is `TypeOK`, `OnesThenZeros` (the mask is of ones, as many as the length says, and then
zeros; this is why `contains` and `broadcast` cannot disagree, and what a mask with a hole would break) and `IterProgress`. The
length is `Kept`: the one asked for, except that it is that of a single address for a range made from the length 0. The
premise `~ZeroAsked` of `RangeAgrees` is where the two are the same. `IterProgress`
adds to `IteratorCovers` where the iteration will end. `end` is computed from the size as a word of the family: for the
default range, that of all addresses, the size wraps to 0 and 0 - 1 to the last address, which is right.

**Model-checked only.** Every invariant and every action property that a passing run checks is stated by
a theorem. Liveness (`RunEnds`, `BuffersMoveOn`, `ShutdownCompletes`, `LoopsEnd`) is beyond the prover, which has
neither fairness nor ENABLED, and stays with TLC.

## 6. Not modelled

* **Generated code.** `bindings_rustdoc.rs` holds more than half of all lines of the
  repository (26211 of 49747): generated bindings to DPDK without behaviour of their own. What is
  assumed of DPDK is in the external actions: a burst call takes a prefix of what it is
  given, a buffer handed over is freed to its own pool some time later or never. With the
  unit tests, doc comments, formatting and the manager set aside, a few thousand lines
  carry behaviour, and those are the ones the map refers to.
* **The openNetVM manager** (`onvm_mgr`, `onvm_mgr_test`). It does not compile: `global.rs:68` has
  `RefCell::(newptr::null_mut())`, and behind it are calls whose arguments are of other types than
  the functions take. Its receive, transmit and wakeup threads are empty functions. A model would be
  one of intentions. If it is finished, three places want attention:
  `onvm_nf_check_status` (`net_funcs.rs:387`) indexes a vector that was given a capacity and
  no elements, `NXT_INSTANCE_ID` (`net_funcs.rs:29`) is a constant, so that its increment is
  lost, and `num_nfs` is decremented and never incremented.
* **Headers:** the fields that no other part of a packet depends on (flags, windows, ports,
  message bodies) are one field `v`; IPv4 and TCP options, which the code does not
  support either; `Flow`; odd octets at the end of a checksum; Ethernet padding, which the
  lengths written by `reconcile` count in; a routing header of more than 127 segments,
  whose u8 lengths wrap; the panic of `PacketTooBig::reconcile` for an envelope whose
  headers are longer than the minimum MTU.
* **Data path:** the counters of the metrics feature except what is counted; the order of packets
  on a NIC ring across queues; `splice`, which is a pipeline that acts on every packet; the mpsc
  `Sender` and `Receiver` as packet sink and source, used in tests; `MempoolMap`.
* **Runtime:** periodic tasks and timers; the reactor and `on_signal`; device configuration;
  `rte_kni_handle_request` and the KNI callbacks.
* **Text:** parsing and printing of addresses, ranges and configuration files. (`MacAddr::from_str`
  skips parts it cannot parse, so seven parts of which one is malformed make an address.)
* Packet capture, test support, attribute macros.

## 7. Plan

1. *(done)* `PacketPath`, `Pipeline`, `Runtime`, their runs, and the safety theorems of
   `PacketPath`.
2. *(done)* `Mbuf` and `Ndp` with the theorems of `NdpProofs`; `Checksum`, `Packets` and `Cidr`.
3. *(done)* The theorems of `RuntimeProofs`, of the three modules about `Pipeline`, refinement included, and of
   `PacketsProofs`.
4. *(done)* The properties of `Ndp` that are stated with `Walk`, and the theorems of `CidrProofs`.
5. `MempoolMap` and its fall-back to any socket, composed with `Runtime`'s build, so that
   `CorePool` and `RxPool` of `PacketPath` are derived and not given.
