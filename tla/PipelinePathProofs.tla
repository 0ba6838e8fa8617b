---------------------- MODULE PipelinePathProofs -------------------------
(***************************************************************************)
(* The combinators implement the data path: Pipeline's Spec implies        *)
(* PacketPath's, with the pipeline as the only core.                       *)
(*                                                                         *)
(* The refinement mapping puts a packet in PacketPath's batch wherever it  *)
(* is in the pipeline and in its drop_q once a combinator has marked it as *)
(* dropped.  Most steps of the combinators move a packet from one of these *)
(* places to another, and the data path does not see them (Inside); the    *)
(* steps that are left are each one step of the data path.  For a few of   *)
(* them this rests on an invariant: the bridge of a GroupBy is empty when  *)
(* a packet is put there (BridgeInv), the combinators are empty when a run *)
(* ends (NothingLeftBehind), no packet is in two places (Owned), and the   *)
(* 16 bits of the transmit count are enough (OrderInv, CountInv).          *)
(***************************************************************************)
EXTENDS PipelineDataProofs

\* The bridge of a GroupBy that is about to split is empty.
LEMMA BridgeIsFree ==
  ASSUME IInv, Split
  PROVE  bridge[Top] = {}
<1>1. Running /\ ~OnBranch(Len(stack)) /\ Top \in Node
  BY NotOnBranch, CallTypes DEF Split, Answered, Running, IInv, TypeOK
<1>2. ASSUME NEW i \in DOMAIN stack, stack[i] = Top, OnBranch(i) PROVE FALSE
  <2>1. PICK l \in DOMAIN stack : l = Len(stack) /\ stack[l] = Top
    BY <1>1, TopIsLast DEF IInv
  <2>2. i < l \/ i = l
    BY <1>1, <2>1, TopIsLast DEF IInv
  <2>3. i = l
    BY <1>2, <2>1, <2>2, NoneTwice DEF IInv
  <2>4. QED
    BY <1>1, <1>2, <2>1, <2>3
<1>3. QED
  BY <1>1, <1>2 DEF IInv, BridgeInv

\* What the mapping makes PacketPath's batch and drop_q of the one core.
Batch ==
  Range(packets) \union InPipeline("act") \union UNION {bridge[n] : n \in Node}
Dropped ==
  Range(drop_q) \union InPipeline("drop") \union UNION {slot[n] : n \in Node}

\* Where a packet is that has the disposition tag: on its way back, or in the queue
\* of a GroupBy.
InRet(tag, m) == ret.tag = tag /\ m \in ret.pkt
InFan(tag, m) ==
  \E n \in Node : \E i \in DOMAIN fanouts[n] :
    fanouts[n][i].tag = tag /\ m \in fanouts[n][i].pkt

\* The two, packet by packet.
Contents ==
  \A m : /\ m \in Batch <=> \/ In(packets, m) \/ InRet("act", m)
                            \/ InFan("act", m) \/ InSome(bridge, m)
         /\ m \in Dropped <=> \/ In(drop_q, m) \/ InRet("drop", m)
                              \/ InFan("drop", m) \/ InSome(slot, m)

\* They have what the mapping gives them, before a step and after it.
LEMMA ContentsMapped == TypeOK => Contents
<1> SUFFICES ASSUME TypeOK, NEW m
             PROVE  /\ m \in Batch <=> \/ In(packets, m) \/ InRet("act", m)
                                       \/ InFan("act", m) \/ InSome(bridge, m)
                    /\ m \in Dropped <=> \/ In(drop_q, m) \/ InRet("drop", m)
                                         \/ InFan("drop", m) \/ InSome(slot, m)
  BY DEF Contents
<1>1. \A s : m \in Range(s) <=> In(s, m)
  BY DEF Range, In
<1>2. \A tag : InRet(tag, m) \/ InFan(tag, m) => m \in Mbuf
  <2>1. \A d \in Disposition : d.pkt \in SUBSET Mbuf
    BY DispositionFacts
  <2>2. ret.pkt \in SUBSET Mbuf
    BY <2>1 DEF TypeOK
  <2>3. \A n \in Node : \A i \in DOMAIN fanouts[n] : fanouts[n][i].pkt \in SUBSET Mbuf
    BY <2>1 DEF TypeOK
  <2>4. QED
    BY <2>2, <2>3 DEF InRet, InFan
<1>3. \A tag : m \in InPipeline(tag) <=> InRet(tag, m) \/ InFan(tag, m)
  BY <1>2 DEF InPipeline, InRet, InFan
<1>4. /\ m \in UNION {bridge[n] : n \in Node} <=> InSome(bridge, m)
      /\ m \in UNION {slot[n] : n \in Node} <=> InSome(slot, m)
  BY DEF InSome
<1>5. QED
  BY <1>1, <1>3, <1>4 DEF Batch, Dropped

\* The same after a step.
LEMMA ContentsAfter == TypeOK' => Contents'
BY ContentsMapped, PTL

-----------------------------------------------------------------------------
(* The steps within the combinators *)

\* What such a step leaves as it was: every packet is still to be processed,
\* or still marked as dropped, and nothing else has changed.
Inside ==
  /\ Batch' = Batch /\ Dropped' = Dropped
  /\ UNCHANGED <<phase, transmit_q, drop_q, free, devices>>

\* Such a step is a stuttering step of the data path.
LEMMA InsidePath == Inside => UNCHANGED Path!vars
BY DEF Inside, devices, Path!vars, Batch, Dropped

\* Whether a step is inside, packet by packet.
LEMMA InsideIf ==
  ASSUME TypeOK, TypeOK', UNCHANGED <<phase, transmit_q, drop_q, free, devices>>,
         \A m :
           /\ In(packets', m) \/ InRet("act", m)' \/ InFan("act", m)'
                \/ InSome(bridge', m)
              <=> In(packets, m) \/ InRet("act", m) \/ InFan("act", m)
                    \/ InSome(bridge, m)
           /\ InRet("drop", m)' \/ InFan("drop", m)' \/ InSome(slot', m)
              <=> InRet("drop", m) \/ InFan("drop", m) \/ InSome(slot, m)
  PROVE  Inside
<1>1. Contents /\ Contents'
  BY ContentsMapped, ContentsAfter
<1>2. \A m : m \in Batch' <=> m \in Batch
  BY <1>1 DEF Contents
<1>3. \A m : m \in Dropped' <=> m \in Dropped
  BY <1>1 DEF Contents
<1>4. QED
  BY <1>2, <1>3 DEF Inside

\* Poll hands the oldest packet down: still to be processed.
LEMMA PollInside ==
  ASSUME TypeOK, TypeOK', PollNext
  PROVE  Inside
<1>1. /\ UNCHANGED <<slot, bridge, fanouts, phase, transmit_q, drop_q, free, devices>>
      /\ ret = Calling /\ packets \in Seq(Mbuf)
  BY DEF PollNext, Called, results, TypeOK
<1>2. \A t, m : /\ InFan(t, m)' <=> InFan(t, m)
                /\ ~InRet("act", m) /\ ~InRet("drop", m)
  BY <1>1 DEF InFan, InRet, Calling
<1>3. CASE packets = <<>>
  <2>1. packets' = packets /\ ret' = Exhausted
    BY <1>3 DEF PollNext, Give
  <2>2. \A m : ~InRet("act", m)' /\ ~InRet("drop", m)'
    BY <2>1 DEF InRet, Exhausted
  <2>3. QED
    BY <1>1, <1>2, <2>1, <2>2, InsideIf
<1>4. CASE packets # <<>>
  <2>1. PICK x : x = Head(packets) /\ ret' = Act({x}) /\ packets' = Tail(packets)
    BY <1>4 DEF PollNext, Give
  <2>2. \A m : In(packets, m) <=> m = x \/ In(packets', m)
    BY <1>1, <1>4, <2>1, TakeHead
  <2>3. \A m : (InRet("act", m)' <=> m = x) /\ ~InRet("drop", m)'
    BY <2>1 DEF InRet, Act
  <2>4. QED
    BY <1>1, <1>2, <2>2, <2>3, InsideIf
<1>5. QED
  BY <1>3, <1>4

\* A Bridge hands its packet on, or says that it has none.
LEMMA BridgeInside ==
  ASSUME TypeOK, TypeOK', BridgeNext
  PROVE  Inside
<1>1. /\ UNCHANGED <<packets, slot, fanouts, phase, transmit_q, drop_q, free, devices>>
      /\ ret = Calling /\ Up[Top] \in Node
      /\ bridge' = [bridge EXCEPT ![Up[Top]] = {}]
      /\ ret' = IF bridge[Up[Top]] = {} THEN Exhausted ELSE Act(bridge[Up[Top]])
  BY CallTypes DEF BridgeNext, Called, results, Give, TypeOK
<1>2. \A t, m : /\ InFan(t, m)' <=> InFan(t, m)
                /\ ~InRet("act", m) /\ ~InRet("drop", m)
  BY <1>1 DEF InFan, InRet, Calling
<1>3. PICK g \in Node : g = Up[Top]
  BY <1>1
<1>4. \A n \in Node : bridge'[n] = IF n = g THEN {} ELSE bridge[n]
  BY <1>1, <1>3 DEF TypeOK
<1>5. \A m : InSome(bridge, m) <=> m \in bridge[g] \/ InSome(bridge', m)
  BY <1>3, <1>4 DEF InSome
<1>6. \A m : (InRet("act", m)' <=> m \in bridge[g]) /\ ~InRet("drop", m)'
  BY <1>1, <1>3 DEF InRet, Act, Exhausted
<1>7. QED
  BY <1>1, <1>2, <1>5, <1>6, InsideIf

\* The original that a Replace kept has been marked as dropped all the while.
LEMMA SlotInside ==
  ASSUME TypeOK, TypeOK', SlotNext
  PROVE  Inside
<1>1. /\ UNCHANGED <<packets, bridge, fanouts, phase, transmit_q, drop_q, free, devices>>
      /\ ret = Calling /\ Top \in Node
      /\ slot' = [slot EXCEPT ![Top] = {}] /\ ret' = DropOf(slot[Top])
  BY CallTypes DEF SlotNext, Called, results, Give, TypeOK
<1>2. \A t, m : /\ InFan(t, m)' <=> InFan(t, m)
                /\ ~InRet("act", m) /\ ~InRet("drop", m)
  BY <1>1 DEF InFan, InRet, Calling
<1>3. PICK g \in Node : g = Top
  BY <1>1
<1>4. \A n \in Node : slot'[n] = IF n = g THEN {} ELSE slot[n]
  BY <1>1, <1>3 DEF TypeOK
<1>5. \A m : InSome(slot, m) <=> m \in slot[g] \/ InSome(slot', m)
  BY <1>3, <1>4 DEF InSome
<1>6. \A m : (InRet("drop", m)' <=> m \in slot[g]) /\ ~InRet("act", m)'
  BY <1>1, <1>3 DEF InRet, DropOf
<1>7. QED
  BY <1>1, <1>2, <1>5, <1>6, InsideIf

\* GroupBy hands on a disposition of its queue.
LEMMA QueueInside ==
  ASSUME TypeOK, TypeOK', FanoutNext \/ Merge
  PROVE  Inside
<1>1. /\ UNCHANGED <<packets, slot, bridge, phase, transmit_q, drop_q, free, devices>>
      /\ ret = Calling \/ ret.tag = "none"
      /\ Top \in Node /\ fanouts[Top] # <<>>
      /\ fanouts' = [fanouts EXCEPT ![Top] = Tail(@)]
      /\ ret' = Head(fanouts[Top])
  BY CallTypes
     DEF FanoutNext, Merge, FromBranch, Called, results, Give, TypeOK
<1>2. \A m : ~InRet("act", m) /\ ~InRet("drop", m)
  BY <1>1 DEF InRet, Calling
<1>3. PICK g \in Node : g = Top
  BY <1>1
<1>4. PICK s \in Seq(Disposition) : s = fanouts[g]
  BY <1>3 DEF TypeOK
<1>5. /\ Len(s) \in Nat \ {0} /\ DOMAIN s = 1 .. Len(s) /\ ret' = s[1]
      /\ DOMAIN Tail(s) = 1 .. Len(s) - 1
      /\ \A i \in 1 .. Len(s) - 1 : Tail(s)[i] = s[i + 1]
  BY <1>1, <1>3, <1>4, HeadTail
<1>6. \A n \in Node : fanouts'[n] = IF n = g THEN Tail(s) ELSE fanouts[n]
  BY <1>1, <1>3, <1>4 DEF TypeOK
<1>7. ASSUME NEW t, NEW m
      PROVE  InFan(t, m) <=> InRet(t, m)' \/ InFan(t, m)'
  <2>1. \A i \in DOMAIN s : i = 1 \/ (i - 1 \in DOMAIN Tail(s) /\ Tail(s)[i - 1] = s[i])
    BY <1>5
  <2>2. \A i \in DOMAIN Tail(s) : i + 1 \in DOMAIN s /\ Tail(s)[i] = s[i + 1]
    BY <1>5
  <2>3. 1 \in DOMAIN s
    BY <1>5
  <2>4. InFan(t, m) => InRet(t, m)' \/ InFan(t, m)'
    <3>1. SUFFICES ASSUME NEW n \in Node, NEW i \in DOMAIN fanouts[n],
                          fanouts[n][i].tag = t, m \in fanouts[n][i].pkt
                   PROVE  InRet(t, m)' \/ InFan(t, m)'
      BY DEF InFan
    <3>2. CASE n = g
      <4>1. i \in DOMAIN s /\ s[i].tag = t /\ m \in s[i].pkt
        BY <1>4, <3>1, <3>2
      <4>2. CASE i = 1
        BY <1>5, <4>1, <4>2 DEF InRet
      <4>3. CASE i # 1
        <5>1. PICK j \in DOMAIN Tail(s) : Tail(s)[j] = s[i]
          BY <2>1, <4>1, <4>3
        <5>2. fanouts'[g] = Tail(s)
          BY <1>3, <1>6
        <5>3. QED
          BY <1>3, <4>1, <5>1, <5>2 DEF InFan
      <4>4. QED
        BY <4>2, <4>3
    <3>3. CASE n # g
      BY <1>6, <3>1, <3>3 DEF InFan
    <3>4. QED
      BY <3>2, <3>3
  <2>5. InFan(t, m)' => InFan(t, m)
    <3>1. SUFFICES ASSUME NEW n \in Node, NEW i \in DOMAIN fanouts'[n],
                          fanouts'[n][i].tag = t, m \in fanouts'[n][i].pkt
                   PROVE  InFan(t, m)
      BY DEF InFan
    <3>2. CASE n = g
      <4>1. i \in DOMAIN Tail(s) /\ Tail(s)[i].tag = t /\ m \in Tail(s)[i].pkt
        BY <1>6, <3>1, <3>2
      <4>2. PICK j \in DOMAIN s : s[j] = Tail(s)[i]
        BY <2>2, <4>1
      <4>3. QED
        BY <1>3, <1>4, <4>1, <4>2 DEF InFan
    <3>3. CASE n # g
      BY <1>6, <3>1, <3>3 DEF InFan
    <3>4. QED
      BY <3>2, <3>3
  <2>6. InRet(t, m)' => InFan(t, m)
    BY <1>3, <1>4, <1>5, <2>3 DEF InFan, InRet
  <2>7. QED
    BY <2>4, <2>5, <2>6
<1>8. \A t, m : InFan(t, m) <=> InRet(t, m)' \/ InFan(t, m)'
  BY <1>7
<1>9. QED
  BY <1>1, <1>2, <1>8, InsideIf

\* A disposition of a sub batch goes to the end of the queue.
LEMMA GatherInside ==
  ASSUME TypeOK, TypeOK', Gather
  PROVE  Inside
<1>1. /\ UNCHANGED <<packets, slot, bridge, phase, transmit_q, drop_q, free, devices>>
      /\ Top \in Node /\ ret' = Calling /\ ret \in Disposition
      /\ fanouts' = [fanouts EXCEPT ![Top] = Append(@, ret)]
  BY CallTypes DEF Gather, FromBranch, results, Enter, TypeOK
<1>2. \A m : ~InRet("act", m)' /\ ~InRet("drop", m)'
  BY <1>1 DEF InRet, Calling
<1>3. PICK g \in Node : g = Top
  BY <1>1
<1>4. PICK s \in Seq(Disposition) : s = fanouts[g]
  BY <1>3 DEF TypeOK
<1>5. /\ \A n \in Node : fanouts'[n] = IF n = g THEN Append(s, ret) ELSE fanouts[n]
      /\ Len(s) \in Nat /\ DOMAIN s = 1 .. Len(s)
      /\ DOMAIN Append(s, ret) = 1 .. Len(s) + 1
      /\ Append(s, ret)[Len(s) + 1] = ret
      /\ \A i \in 1 .. Len(s) : Append(s, ret)[i] = s[i]
  BY <1>1, <1>3, <1>4, AppendFacts DEF TypeOK
<1>6. ASSUME NEW t, NEW m
      PROVE  InFan(t, m)' <=> InRet(t, m) \/ InFan(t, m)
  <2>1. \A i \in DOMAIN Append(s, ret) :
          \/ i \in DOMAIN s /\ Append(s, ret)[i] = s[i]
          \/ Append(s, ret)[i] = ret
    BY <1>5
  <2>2. \A i \in DOMAIN s : i \in DOMAIN Append(s, ret) /\ Append(s, ret)[i] = s[i]
    BY <1>5
  <2>3. \E i \in DOMAIN Append(s, ret) : Append(s, ret)[i] = ret
    BY <1>5
  <2>4. InFan(t, m)' => InRet(t, m) \/ InFan(t, m)
    <3>1. SUFFICES ASSUME NEW n \in Node, NEW i \in DOMAIN fanouts'[n],
                          fanouts'[n][i].tag = t, m \in fanouts'[n][i].pkt
                   PROVE  InRet(t, m) \/ InFan(t, m)
      BY DEF InFan
    <3>2. CASE n = g
      <4>1. fanouts'[n] = Append(s, ret)
        BY <1>5, <3>2
      <4>2. CASE i \in DOMAIN s /\ Append(s, ret)[i] = s[i]
        <5>1. /\ i \in DOMAIN fanouts[g]
              /\ fanouts[g][i].tag = t /\ m \in fanouts[g][i].pkt
          BY <1>4, <3>1, <4>1, <4>2
        <5>2. QED
          BY <1>3, <5>1 DEF InFan
      <4>3. CASE Append(s, ret)[i] = ret
        BY <3>1, <4>1, <4>3 DEF InRet
      <4>4. QED
        BY <2>1, <3>1, <4>1, <4>2, <4>3
    <3>3. CASE n # g
      BY <1>5, <3>1, <3>3 DEF InFan
    <3>4. QED
      BY <3>2, <3>3
  <2>5. InFan(t, m) => InFan(t, m)'
    <3>1. SUFFICES ASSUME NEW n \in Node, NEW i \in DOMAIN fanouts[n],
                          fanouts[n][i].tag = t, m \in fanouts[n][i].pkt
                   PROVE  InFan(t, m)'
      BY DEF InFan
    <3>2. CASE n = g
      <4>1. fanouts[n] = s /\ fanouts'[n] = Append(s, ret)
        BY <1>4, <1>5, <3>2
      <4>2. /\ i \in DOMAIN fanouts'[n]
            /\ fanouts'[n][i].tag = t /\ m \in fanouts'[n][i].pkt
        BY <2>2, <3>1, <4>1
      <4>3. QED
        BY <4>2 DEF InFan
    <3>3. CASE n # g
      BY <1>5, <3>1, <3>3 DEF InFan
    <3>4. QED
      BY <3>2, <3>3
  <2>6. InRet(t, m) => InFan(t, m)'
    BY <1>3, <1>5, <2>3 DEF InFan, InRet
  <2>7. QED
    BY <2>4, <2>5, <2>6
<1>7. \A t, m : InFan(t, m)' <=> InRet(t, m) \/ InFan(t, m)
  BY <1>6
<1>8. QED
  BY <1>1, <1>2, <1>7, InsideIf

\* The packet goes to the bridge, which is empty, so that none is dropped.
LEMMA SplitInside ==
  ASSUME IInv, TypeOK', Split
  PROVE  Inside
<1>1. /\ UNCHANGED <<packets, slot, fanouts, phase, transmit_q, drop_q, devices>>
      /\ ret.tag = "act" /\ ret' = Calling /\ Top \in Node /\ TypeOK
      /\ bridge' = [bridge EXCEPT ![Top] = ret.pkt]
      /\ free' = free \union bridge[Top]
  BY NotOnBranch, CallTypes
     DEF Split, Answered, Running, results, Enter, IInv, TypeOK
<1>2. bridge[Top] = {}
  BY BridgeIsFree
<1>3. \A m : InSome(bridge', m) <=> InSome(bridge, m) \/ m \in ret.pkt
  <2>1. \A n \in Node : bridge'[n] = IF n = Top THEN ret.pkt ELSE bridge[n]
    BY <1>1 DEF TypeOK
  <2>2. QED
    BY <1>1, <1>2, <2>1 DEF InSome
<1>4. \A t, m : /\ InFan(t, m)' <=> InFan(t, m)
                /\ ~InRet("act", m)' /\ ~InRet("drop", m)'
                /\ ~InRet("drop", m) /\ (InRet("act", m) <=> m \in ret.pkt)
  BY <1>1 DEF InFan, InRet, Calling
<1>5. free' = free
  BY <1>1, <1>2
<1>6. QED
  BY <1>1, <1>3, <1>4, <1>5, InsideIf

\* A call, or an answer passed on, moves no packet.
LEMMA PassInside ==
  ASSUME TypeOK, TypeOK', Ask \/ PassOn
  PROVE  Inside
<1>1. /\ UNCHANGED <<packets, slot, bridge, fanouts, phase, transmit_q, drop_q, free, devices>>
      /\ ret' = ret
  BY DEF Ask, PassOn, Called, Enter, Give, parts, results
<1>2. \A t, m : (InFan(t, m)' <=> InFan(t, m)) /\ (InRet(t, m)' <=> InRet(t, m))
  BY <1>1 DEF InFan, InRet
<1>3. QED
  BY <1>1, <1>2, InsideIf

-----------------------------------------------------------------------------
(* The steps that PacketPath knows: what each needs of the mapped state *)

\* There is one mempool, so the buffers go back to where they came from.
LEMMA FreesEach ==
  ASSUME NEW S \in SUBSET Mbuf
  PROVE  Path!FreeEach(S) = [p \in {"pool"} |-> free \union S]
<1>1. {m \in S : [x \in Mbuf |-> "pool"][m] = "pool"} = S
  OBVIOUS
<1>2. QED
  BY <1>1 DEF Path!FreeEach

\* Cardinality is the same in the module that is implemented.
LEMMA SameCardinality == \A S : Path!Cardinality(S) = Cardinality(S)
BY DEF Path!Cardinality, Cardinality, Path!IsFiniteSet, IsFiniteSet

\* Send queues m for transmission.
LEMMA Acts ==
  ASSUME NEW m \in Batch, phase = "pull", Batch' = Batch \ {m},
         Range(transmit_q)' = Range(transmit_q) \union {m}, Dropped' = Dropped,
         UNCHANGED <<phase, free, Range(rxring), Range(txring), channel, kni_ptrs>>
  PROVE  Path!Act("core", m)
BY DEF Path!Act, Path!kni, Batch, Dropped

\* A filter, or an unmatched group, marks m as dropped.
LEMMA Drops ==
  ASSUME NEW m \in Batch, phase = "pull", Batch' = Batch \ {m},
         Dropped' = Dropped \union {m},
         UNCHANGED <<phase, free, Range(rxring), Range(transmit_q), Range(txring),
                     channel, kni_ptrs>>
  PROVE  Path!Drop("core", m)
BY DEF Path!Drop, Path!kni, Batch, Dropped

\* A closure fails on m, which goes back to the mempool.
LEMMA Aborts ==
  ASSUME NEW m \in Batch, m \in Mbuf, phase = "pull", Batch' = Batch \ {m},
         free' = free \union {m}, Dropped' = Dropped,
         UNCHANGED <<phase, Range(rxring), Range(transmit_q), Range(txring),
                     channel, kni_ptrs>>
  PROVE  Path!Abort("core", m)
<1>1. Path!FreeEach({m}) = [p \in {"pool"} |-> free']
  BY FreesEach
<1>2. QED
  BY <1>1 DEF Path!Abort, Path!kni, Batch, Dropped

\* m leaves over the KNI channel.
LEMMA Emits ==
  ASSUME NEW m \in Batch, phase = "pull", Batch' = Batch \ {m},
         channel' = Append(channel, {m}), Dropped' = Dropped,
         UNCHANGED <<phase, free, Range(rxring), Range(transmit_q), Range(txring),
                     kni_ptrs>>
  PROVE  Path!Emit("core", m)
BY DEF Path!Emit, Batch, Dropped

\* n, a new packet, goes on in the place of m.
LEMMA Replaces ==
  ASSUME NEW m \in Batch, NEW n \in free, phase = "pull", free' = free \ {n},
         Batch' = (Batch \ {m}) \union {n}, Dropped' = Dropped \union {m},
         UNCHANGED <<phase, Range(rxring), Range(transmit_q), Range(txring),
                     channel, kni_ptrs>>
  PROVE  Path!Replace("core", m, n)
BY DEF Path!Replace, Path!kni, Batch, Dropped

\* The batch is exhausted.
LEMMA Ends ==
  ASSUME phase = "pull", Batch = {}, Batch' = Batch, Dropped' = Dropped,
         phase' = IF Range(transmit_q) # {} THEN "transmit" ELSE "reap",
         UNCHANGED <<free, Range(rxring), Range(transmit_q), Range(txring),
                     channel, kni_ptrs>>
  PROVE  Path!EndPull("core")
BY DEF Path!EndPull, Path!kni, Batch, Dropped

\* A run begins with the packets S.
LEMMA Receives ==
  ASSUME NEW S \in SUBSET Range(rxring), S # {}, Cardinality(S) <= BurstMax,
         phase = "idle", phase' = "pull", kni_ptrs = {},
         Range(rxring)' = Range(rxring) \ S, Batch' = S, Dropped' = Dropped,
         UNCHANGED <<free, Range(transmit_q), Range(txring), channel, kni_ptrs>>
  PROVE  Path!Receive("core", S)
BY SameCardinality DEF Path!Receive, Path!KniRuns, Path!kni, Batch, Dropped

\* The driver takes the packets S of the transmit queue.
LEMMA Bursts ==
  ASSUME NEW S \in SUBSET Range(transmit_q), S # {}, phase = "transmit",
         Cardinality(S) <= Cardinality(Range(transmit_q)) % (2 ^ 16),
         Cardinality(Range(txring) \union S) <= RingSize,
         Range(txring)' = Range(txring) \union S,
         \/ /\ Cardinality(S) < Cardinality(Range(transmit_q)) % (2 ^ 16)
            /\ Range(transmit_q)' = Range(transmit_q) \ S
            /\ phase' = phase
         \/ /\ Cardinality(S) = Cardinality(Range(transmit_q)) % (2 ^ 16)
            /\ Range(transmit_q)' = {}
            /\ phase' = "reap",
         Batch' = Batch, Dropped' = Dropped,
         UNCHANGED <<free, Range(rxring), channel, kni_ptrs>>
  PROVE  Path!TxBurst("core", S)
BY SameCardinality DEF Path!TxBurst, Path!ToSend, Path!kni, Batch, Dropped

\* The driver takes none, and the whole queue is freed.
LEMMA GivesUp ==
  ASSUME phase = "transmit", phase' = "reap", Range(transmit_q) # {},
         Range(transmit_q) \subseteq Mbuf,
         free' = free \union Range(transmit_q), Range(transmit_q)' = {},
         Batch' = Batch, Dropped' = Dropped,
         UNCHANGED <<Range(rxring), Range(txring), channel, kni_ptrs>>
  PROVE  Path!TxGiveUp("core")
<1>1. PICK first \in Range(transmit_q) : first \in Mbuf
  OBVIOUS
<1>2. QED
  BY <1>1 DEF Path!TxGiveUp, Path!FreeBulk, Path!kni, Batch, Dropped

\* The dropped packets are freed.
LEMMA Reaps ==
  ASSUME phase = "reap", phase' = "idle", Dropped \subseteq Mbuf,
         free' = free \union Dropped, Dropped' = {}, Batch' = Batch,
         UNCHANGED <<Range(rxring), Range(transmit_q), Range(txring), channel,
                     kni_ptrs>>
  PROVE  Path!Reap("core")
<1>1. CASE Dropped = {}
  <2>1. free' = free
    BY <1>1
  <2>2. QED
    BY <1>1, <2>1 DEF Path!Reap, Path!kni, Batch, Dropped
<1>2. CASE Dropped # {}
  <2>1. PICK first \in Dropped : first \in Mbuf
    BY <1>2
  <2>2. QED
    BY <2>1 DEF Path!Reap, Path!FreeBulk, Path!kni, Batch, Dropped
<1>3. QED
  BY <1>1, <1>2

\* The NIC fills a buffer of the mempool.
LEMMA NicReceives ==
  ASSUME NEW m \in free, free' = free \ {m},
         Range(rxring)' = Range(rxring) \union {m},
         Batch' = Batch, Dropped' = Dropped,
         UNCHANGED <<phase, Range(transmit_q), Range(txring), channel, kni_ptrs>>
  PROVE  Path!NicReceive("core")
BY DEF Path!NicReceive, Path!task, Path!kni, Batch, Dropped

\* The NIC has sent m.
LEMMA NicTransmits ==
  ASSUME NEW m \in Range(txring), m \in Mbuf, free' = free \union {m},
         Range(txring)' = Range(txring) \ {m},
         Batch' = Batch, Dropped' = Dropped,
         UNCHANGED <<phase, Range(rxring), Range(transmit_q), channel, kni_ptrs>>
  PROVE  Path!NicTransmit("core")
<1>1. Path!FreeEach({m}) = [p \in {"pool"} |-> free']
  BY FreesEach
<1>2. QED
  BY <1>1 DEF Path!NicTransmit, Path!task, Path!kni, Batch, Dropped

\* The KniTx task takes a batch off the channel.
LEMMA KniTakes ==
  ASSUME KniTake, Batch' = Batch, Dropped' = Dropped
  PROVE  Path!KniTake
BY DEF KniTake, Path!KniTake, Path!KniRuns, Path!task, Batch, Dropped, results

\* The kernel takes none of it.
LEMMA KniGivesUp ==
  ASSUME KniGiveUp, kni_ptrs \subseteq Mbuf, Batch' = Batch, Dropped' = Dropped
  PROVE  Path!KniGiveUp
<1>1. PICK first \in kni_ptrs : first \in Mbuf
  BY DEF KniGiveUp
<1>2. QED
  BY <1>1 DEF KniGiveUp, Path!KniGiveUp, Path!FreeBulk, Path!task, Batch, Dropped,
       results

\* The steps of the one core, and those of its KniTx task, are steps of the
\* abstract program.
LEMMA PathSteps ==
  /\ \A m \in Batch : Path!Act("core", m) \/ Path!Drop("core", m)
       \/ Path!Abort("core", m) \/ Path!Emit("core", m) => Path!Next
  /\ \A m \in Batch, n \in free : Path!Replace("core", m, n) => Path!Next
  /\ Path!EndPull("core") \/ Path!TxGiveUp("core") \/ Path!Reap("core") => Path!Next
  /\ \A S \in SUBSET Range(rxring) : Path!Receive("core", S) => Path!Next
  /\ \A S \in SUBSET Range(transmit_q) : Path!TxBurst("core", S) => Path!Next
  /\ Path!NicReceive("core") \/ Path!NicTransmit("core") => Path!Next
  /\ Path!KniTake \/ Path!KniGiveUp => Path!Next
BY DEF Path!Next, Path!Run, Path!KniTx, Batch

-----------------------------------------------------------------------------
(* Every step maps to a step of PacketPath, or to none *)

\* A queue that holds each buffer once is as long as the set of its buffers.
LEMMA OnceCounts ==
  ASSUME NEW T, NEW s \in Seq(T), Once(s)
  PROVE  IsFiniteSet(Range(s)) /\ Cardinality(Range(s)) = Len(s)
<1>1. Len(s) \in Nat /\ DOMAIN s = 1 .. Len(s) /\ s \in [1 .. Len(s) -> T]
  OBVIOUS
<1>2. s \in [1 .. Len(s) -> Range(s)]
  BY <1>1 DEF Range
<1>3. IsInjective(s)
  BY DEF Once, IsInjective
<1>4. s \in Injection(1 .. Len(s), Range(s))
  BY <1>2, <1>3 DEF Injection
<1>5. s \in Surjection(1 .. Len(s), Range(s))
  BY <1>1, <1>2 DEF Surjection, Range
<1>6. ExistsBijection(1 .. Len(s), Range(s))
  BY <1>4, <1>5 DEF Bijection, ExistsBijection
<1>7. IsFiniteSet(1 .. Len(s)) /\ Cardinality(1 .. Len(s)) = Len(s)
  BY <1>1, FS_Interval
<1>8. QED
  BY <1>6, <1>7, FS_Bijection

\* What is in a queue, and what a queue holds, is the same.
LEMMA RangeIsIn ==
  /\ \A s, m : m \in Range(s) <=> In(s, m)
  /\ \A T : \A s \in Seq(T) : Range(s) \subseteq T /\ (Range(s) = {} <=> s = <<>>)
<1>1. \A s, m : m \in Range(s) <=> In(s, m)
  BY DEF Range, In
<1>2. ASSUME NEW T, NEW s \in Seq(T) PROVE Range(s) \subseteq T
  BY DEF Range
<1>3. ASSUME NEW T, NEW s \in Seq(T) PROVE Range(s) = {} <=> s = <<>>
  <2>1. CASE s = <<>>
    BY <2>1 DEF Range
  <2>2. CASE s # <<>>
    <3>1. 1 \in DOMAIN s
      BY <2>2, <1>3
    <3>2. QED
      BY <3>1, <2>2 DEF Range
  <2>3. QED
    BY <2>1, <2>2
<1>4. QED
  BY <1>1, <1>2, <1>3

\* What the invariants say of the packet that a combinator hands over.
LEMMA Handed ==
  ASSUME IInv, Owned, ret.tag = "act"
  PROVE  \E o \in Mbuf :
           /\ ret.pkt = {o} /\ o \in Batch /\ o \notin free
           /\ ~In(packets, o) /\ ~In(drop_q, o)
           /\ ~InSome(bridge, o) /\ ~InSome(slot, o)
           /\ \A t : ~InFan(t, o)
<1>1. ret \in Disposition /\ TypeOK
  BY DEF IInv, TypeOK
<1>2. PICK o \in Mbuf : ret.pkt = {o}
  BY <1>1, DispositionFacts
<1>3. PICK k : At(o, k)
  BY DEF Owned, Located
<1>4. k = "ret"
  BY <1>2, <1>3 DEF At
<1>5. /\ o \notin free /\ ~In(packets, o) /\ ~In(drop_q, o)
      /\ ~InSome(bridge, o) /\ ~InSome(slot, o) /\ ~InQueue(fanouts, o)
  BY <1>3, <1>4 DEF At
<1>6. \A t : ~InFan(t, o)
  BY <1>5 DEF InFan, InQueue, InPkt
<1>7. o \in Batch
  BY <1>1, <1>2, ContentsMapped DEF Contents, InRet
<1>8. QED
  BY <1>2, <1>5, <1>6, <1>7

\* A step that takes the packet handed over out of the pipeline.
LEMMA HandedOn ==
  ASSUME TypeOK, TypeOK', NEW o \in Mbuf, ret.tag = "act", ret.pkt = {o},
         ~In(packets, o), ~InSome(bridge, o), \A t : ~InFan(t, o),
         UNCHANGED <<packets, bridge, fanouts>>, ret'.tag # "act"
  PROVE  Batch' = Batch \ {o}
<1>1. Contents /\ Contents'
  BY ContentsMapped, ContentsAfter
<1>2. \A m : InFan("act", m)' <=> InFan("act", m)
  BY DEF InFan
<1>3. \A m : ~InRet("act", m)' /\ (InRet("act", m) <=> m = o)
  BY DEF InRet
<1>4. \A m : m \in Batch' <=> m \in Batch /\ m # o
  BY <1>1, <1>2, <1>3 DEF Contents
<1>5. QED
  BY <1>4

\* A step that leaves the packets marked as dropped where they are.
LEMMA DroppedKept ==
  ASSUME TypeOK, TypeOK', ret.tag = "drop" => ret' = ret,
         ret'.tag = "drop" => ret' = ret, UNCHANGED <<drop_q, slot, fanouts>>
  PROVE  Dropped' = Dropped
<1>1. Contents /\ Contents'
  BY ContentsMapped, ContentsAfter
<1>2. \A m : InFan("drop", m)' <=> InFan("drop", m)
  BY DEF InFan
<1>3. \A m : InRet("drop", m)' <=> InRet("drop", m)
  BY DEF InRet
<1>4. \A m : m \in Dropped' <=> m \in Dropped
  BY <1>1, <1>2, <1>3 DEF Contents
<1>5. QED
  BY <1>4

\* A step that marks the packet handed over as dropped.
LEMMA DroppedMore ==
  ASSUME TypeOK, TypeOK', NEW o \in Mbuf, ret.tag # "drop",
         \/ ret'.tag = "drop" /\ ret'.pkt = {o} /\ slot' = slot
         \/ /\ ret'.tag # "drop"
            /\ \A m : InSome(slot', m) <=> InSome(slot, m) \/ m = o,
         UNCHANGED <<drop_q, fanouts>>
  PROVE  Dropped' = Dropped \union {o}
<1>1. Contents /\ Contents'
  BY ContentsMapped, ContentsAfter
<1>2. \A m : InFan("drop", m)' <=> InFan("drop", m)
  BY DEF InFan
<1>3. \A m : ~InRet("drop", m)
  BY DEF InRet
<1>4. \A m : m \in Dropped' <=> m \in Dropped \/ m = o
  <2>1. CASE ret'.tag = "drop" /\ ret'.pkt = {o} /\ slot' = slot
    <3>1. \A m : InRet("drop", m)' <=> m = o
      BY <2>1 DEF InRet
    <3>2. QED
      BY <1>1, <1>2, <1>3, <2>1, <3>1 DEF Contents
  <2>2. CASE /\ ret'.tag # "drop"
             /\ \A m : InSome(slot', m) <=> InSome(slot, m) \/ m = o
    <3>1. \A m : ~InRet("drop", m)'
      BY <2>2 DEF InRet
    <3>2. QED
      BY <1>1, <1>2, <1>3, <2>2, <3>1 DEF Contents
  <2>3. QED
    BY <2>1, <2>2
<1>5. QED
  BY <1>4

\* A closure passes its packet on, drops it or fails.
LEMMA ApplyPath ==
  ASSUME IInv, TypeOK', Owned, Apply
  PROVE  Path!Next \/ Inside
<1>1. /\ UNCHANGED <<packets, slot, bridge, fanouts, phase, transmit_q, drop_q, devices>>
      /\ TypeOK /\ ret \in Disposition /\ ret.tag = "act" /\ phase = "pull"
      /\ Top \in Node /\ Kind[Top] \in DOMAIN Outcomes
  BY CallTypes DEF Apply, Answered, Running, parts, results, IInv, TypeOK
<1>2. PICK o \in Mbuf :
         /\ ret.pkt = {o} /\ o \in Batch /\ o \notin free
         /\ ~In(packets, o) /\ ~In(drop_q, o)
         /\ ~InSome(bridge, o) /\ ~InSome(slot, o)
         /\ \A t : ~InFan(t, o)
  BY <1>1, Handed
<1>3. PICK tag \in Outcomes[Kind[Top]] :
         \/ tag = "abort" /\ Give(Aborted) /\ free' = free \union ret.pkt
         \/ tag # "abort" /\ Give([ret EXCEPT !.tag = tag]) /\ free' = free
  BY DEF Apply
<1>4. tag \in {"act", "drop", "abort"}
  BY <1>1, <1>3, Kindly
<1>5. UNCHANGED <<Range(rxring), Range(transmit_q), Range(txring), channel, kni_ptrs>>
  BY <1>1 DEF devices
<1>6. CASE tag = "abort"
  <2>1. ret'.tag = "abort" /\ free' = free \union {o}
    BY <1>2, <1>3, <1>6, Tags DEF Give
  <2>2. Batch' = Batch \ {o}
    BY <1>1, <1>2, <2>1, HandedOn
  <2>3. Dropped' = Dropped
    BY <1>1, <2>1, DroppedKept
  <2>4. Path!Abort("core", o)
    BY <1>1, <1>2, <1>5, <2>1, <2>2, <2>3, Aborts
  <2>5. QED
    BY <1>2, <2>4, PathSteps
<1>7. CASE tag = "drop"
  <2>1. ret'.tag = "drop" /\ ret'.pkt = {o} /\ free' = free
    BY <1>1, <1>2, <1>3, <1>7, DispositionFacts, Retagged DEF Give, Disposition,
       Emitted, Aborted, Exhausted, Calling
  <2>2. Batch' = Batch \ {o}
    BY <1>1, <1>2, <2>1, HandedOn
  <2>3. Dropped' = Dropped \union {o}
    BY <1>1, <2>1, DroppedMore
  <2>4. Path!Drop("core", o)
    BY <1>1, <1>2, <1>5, <2>1, <2>2, <2>3, Drops
  <2>5. QED
    BY <1>2, <2>4, PathSteps
<1>8. CASE tag = "act"
  <2>1. ret'.tag = "act" /\ ret'.pkt = ret.pkt /\ free' = free
    BY <1>1, <1>3, <1>8 DEF Give, Disposition,
       Emitted, Aborted, Exhausted, Calling
  <2>2. \A t, m : /\ InRet(t, m)' <=> InRet(t, m)
                  /\ InFan(t, m)' <=> InFan(t, m)
    BY <1>1, <2>1 DEF InRet, InFan
  <2>3. QED
    BY <1>1, <2>1, <2>2, InsideIf
<1>9. QED
  BY <1>4, <1>6, <1>7, <1>8

\* Emit sends its packet over the channel.
LEMMA EmitPath ==
  ASSUME IInv, TypeOK', Owned, Emit
  PROVE  Path!Next
<1>1. /\ UNCHANGED <<packets, slot, bridge, fanouts, phase, transmit_q, drop_q,
                     free, rxring, txring, kni_ptrs>>
      /\ TypeOK /\ ret.tag = "act" /\ phase = "pull" /\ ret'.tag = "emit"
      /\ channel' = Append(channel, ret.pkt)
  BY Tags DEF Emit, Answered, Running, Give, parts, results, IInv
<1>2. PICK o \in Mbuf :
         /\ ret.pkt = {o} /\ o \in Batch /\ o \notin free
         /\ ~In(packets, o) /\ ~In(drop_q, o)
         /\ ~InSome(bridge, o) /\ ~InSome(slot, o)
         /\ \A t : ~InFan(t, o)
  BY <1>1, Handed
<1>3. Batch' = Batch \ {o} /\ Dropped' = Dropped
  BY <1>1, <1>2, HandedOn, DroppedKept
<1>4. Path!Emit("core", o)
  BY <1>1, <1>2, <1>3, Emits
<1>5. QED
  BY <1>2, <1>4, PathSteps

\* Replace puts a new packet in the place of its own, or fails.
LEMMA ReplacePath ==
  ASSUME IInv, TypeOK', Owned, Replace
  PROVE  Path!Next
<1>1. /\ UNCHANGED <<packets, bridge, fanouts, phase, transmit_q, drop_q, devices>>
      /\ TypeOK /\ ret.tag = "act" /\ phase = "pull" /\ Top \in Node
      /\ slot[Top] = {}
  <2>1. /\ UNCHANGED <<packets, bridge, fanouts, phase, transmit_q, drop_q, devices>>
        /\ TypeOK /\ ret.tag = "act" /\ phase = "pull" /\ Top \in Node /\ Running
        /\ ret # Calling
    BY CallTypes DEF Replace, Answered, Running, results, IInv, TypeOK
  <2>2. slot[Top] = {}
    BY <2>1, TopIsLast DEF IInv, StoreInv
  <2>3. QED
    BY <2>1, <2>2
<1>2. PICK o \in Mbuf :
         /\ ret.pkt = {o} /\ o \in Batch /\ o \notin free
         /\ ~In(packets, o) /\ ~In(drop_q, o)
         /\ ~InSome(bridge, o) /\ ~InSome(slot, o)
         /\ \A t : ~InFan(t, o)
  BY <1>1, Handed
<1>3. UNCHANGED <<Range(rxring), Range(transmit_q), Range(txring), channel, kni_ptrs>>
  BY <1>1 DEF devices
<1>4. CASE Give(Aborted) /\ free' = free \union ret.pkt /\ UNCHANGED slot
  <2>1. ret'.tag = "abort" /\ free' = free \union {o} /\ slot' = slot
    BY <1>2, <1>4, Tags DEF Give
  <2>2. Batch' = Batch \ {o} /\ Dropped' = Dropped
    BY <1>1, <1>2, <2>1, HandedOn, DroppedKept
  <2>3. Path!Abort("core", o)
    BY <1>1, <1>2, <1>3, <2>1, <2>2, Aborts
  <2>4. QED
    BY <1>2, <2>3, PathSteps
<1>5. ASSUME NEW n \in free, Give(Act({n})), free' = free \ {n},
             slot' = [slot EXCEPT ![Top] = ret.pkt]
      PROVE  Path!Next
  <2>1. ret'.tag = "act" /\ ret'.pkt = {n}
    BY <1>5 DEF Give, Act
  <2>2. Contents /\ Contents'
    BY <1>1, ContentsMapped, ContentsAfter
  <2>3. \A m : /\ InFan("act", m)' <=> InFan("act", m)
               /\ InRet("act", m)' <=> m = n
               /\ InRet("act", m) <=> m = o
    BY <1>1, <1>2, <2>1 DEF InFan, InRet
  <2>4. \A m : m \in Batch' <=> (m \in Batch /\ m # o) \/ m = n
    BY <1>1, <1>2, <2>2, <2>3 DEF Contents
  <2>5. \A k \in Node : slot'[k] = IF k = Top THEN {o} ELSE slot[k]
    BY <1>1, <1>2, <1>5 DEF TypeOK
  <2>6. \A m : InSome(slot', m) <=> InSome(slot, m) \/ m = o
    BY <1>1, <2>5 DEF InSome
  <2>7. Dropped' = Dropped \union {o}
    BY <1>1, <2>1, <2>6, DroppedMore
  <2>8. Batch' = (Batch \ {o}) \union {n}
    BY <2>4
  <2>9. Path!Replace("core", o, n)
    BY <1>1, <1>2, <1>3, <1>5, <2>7, <2>8, Replaces
  <2>10. QED
    BY <1>2, <1>5, <2>9, PathSteps
<1>6. QED
  BY <1>4, <1>5 DEF Replace

\* A disposition that Send takes: only a packet to be processed moves, one
\* marked as dropped is in drop_q in either view.
LEMMA TakePath ==
  ASSUME IInv, TypeOK', Owned, Take
  PROVE  Path!Next \/ UNCHANGED Path!vars
<1>1. /\ UNCHANGED <<packets, slot, bridge, fanouts, phase, free, devices>>
      /\ TypeOK /\ phase = "pull" /\ ret' = Calling /\ ret \in Disposition
  BY DEF Take, Enter, parts, IInv, TypeOK
<1>2. \A t, m : InFan(t, m)' <=> InFan(t, m)
  BY <1>1 DEF InFan
<1>3. \A m : ~InRet("act", m)' /\ ~InRet("drop", m)'
  BY <1>1 DEF InRet, Calling
<1>4. UNCHANGED <<Range(rxring), Range(txring), channel, kni_ptrs>>
  BY <1>1 DEF devices
<1>5. CASE ret.tag = "act"
  <2>1. transmit_q' = transmit_q \o SetToSeq(ret.pkt) /\ drop_q' = drop_q
    BY <1>5 DEF Take
  <2>2. PICK o \in Mbuf :
           /\ ret.pkt = {o} /\ o \in Batch /\ o \notin free
           /\ ~In(packets, o) /\ ~In(drop_q, o)
           /\ ~InSome(bridge, o) /\ ~InSome(slot, o)
           /\ \A t : ~InFan(t, o)
    BY <1>5, Handed
  <2>3. Batch' = Batch \ {o} /\ Dropped' = Dropped
    <3>1. ret'.tag = "call"
      BY <1>1, Tags
    <3>2. QED
      BY <1>1, <1>5, <2>1, <2>2, <3>1, HandedOn, DroppedKept
  <2>4. \A m : In(transmit_q', m) <=> In(transmit_q, m) \/ m \in ret.pkt
    BY <1>1, <1>5, <2>1, AddOne DEF TypeOK
  <2>5. Range(transmit_q)' = Range(transmit_q) \union {o}
    BY <2>2, <2>4, RangeIsIn
  <2>6. Path!Act("core", o)
    BY <1>1, <1>4, <2>2, <2>3, <2>5, Acts
  <2>7. QED
    BY <2>2, <2>6, PathSteps
<1>6. CASE ret.tag # "act"
  <2>1. transmit_q' = transmit_q
    BY <1>6 DEF Take
  <2>2. Contents /\ Contents'
    BY <1>1, ContentsMapped, ContentsAfter
  <2>3. \A m : ~InRet("act", m)
    BY <1>6 DEF InRet
  <2>4. \A m : m \in Batch' <=> m \in Batch
    BY <1>1, <1>2, <1>3, <2>2, <2>3 DEF Contents
  <2>5. \A m : In(drop_q', m) <=> In(drop_q, m) \/ InRet("drop", m)
    <3>1. CASE ret.tag = "drop"
      <4>1. drop_q' = drop_q \o SetToSeq(ret.pkt)
        BY <3>1 DEF Take
      <4>2. QED
        BY <1>1, <3>1, <4>1, AddOne DEF TypeOK, InRet
    <3>2. CASE ret.tag # "drop"
      BY <1>6, <3>2 DEF Take, InRet
    <3>3. QED
      BY <3>1, <3>2
  <2>6. \A m : m \in Dropped' <=> m \in Dropped
    BY <1>1, <1>2, <1>3, <2>2, <2>5 DEF Contents
  <2>7. Batch' = Batch /\ Dropped' = Dropped
    BY <2>4, <2>6
  <2>8. QED
    BY <1>1, <1>4, <2>1, <2>7 DEF Path!vars, devices, Batch, Dropped
<1>7. QED
  BY <1>5, <1>6

\* Nothing is left in the combinators when a run is over or is transmitting.
LEMMA QuietContents ==
  ASSUME IInv, NothingLeftBehind, phase # "pull"
  PROVE  /\ Batch = {} /\ Dropped = Range(drop_q)
         /\ packets = <<>> /\ ret = Calling
         /\ \A t, m : ~InFan(t, m)
         /\ \A m : ~InSome(slot, m) /\ ~InSome(bridge, m)
<1>1. /\ packets = <<>> /\ ret = Calling /\ Contents
      /\ \A n \in Node : slot[n] = {} /\ bridge[n] = {} /\ fanouts[n] = <<>>
  BY ContentsMapped DEF NothingLeftBehind, IInv, StackInv
<1>2. /\ \A t, m : ~InFan(t, m) /\ (t \in {"act", "drop"} => ~InRet(t, m))
      /\ \A m : ~In(packets, m) /\ ~InSome(slot, m) /\ ~InSome(bridge, m)
  BY <1>1 DEF InFan, InRet, In, InSome, Calling
<1>3. \A m : m \notin Batch /\ (m \in Dropped <=> In(drop_q, m))
  BY <1>1, <1>2 DEF Contents
<1>4. QED
  BY <1>1, <1>2, <1>3, RangeIsIn

\* Outside the loop of a run there is no packet to be processed.
NoBatch == phase # "pull" => Batch = {}

\* Before a step,
LEMMA NoBatchLeft == IInv /\ NothingLeftBehind => NoBatch
BY QuietContents DEF NoBatch

\* and after it.
LEMMA NoBatchAfter == IInv' /\ NothingLeftBehind' => NoBatch'
BY NoBatchLeft, PTL

\* The steps of Send that move no packet within the pipeline.
LEMMA BatchKept ==
  ASSUME TypeOK, TypeOK', UNCHANGED <<packets, slot, bridge, fanouts>>,
         \A m : /\ InRet("act", m)' <=> InRet("act", m)
                /\ InRet("drop", m)' <=> InRet("drop", m)
  PROVE  Batch' = Batch /\ (drop_q' = drop_q => Dropped' = Dropped)
<1>1. Contents /\ Contents'
  BY ContentsMapped, ContentsAfter
<1>2. \A t, m : InFan(t, m)' <=> InFan(t, m)
  BY DEF InFan
<1>3. \A m : m \in Batch' <=> m \in Batch
  BY <1>1, <1>2 DEF Contents
<1>4. ASSUME drop_q' = drop_q PROVE \A m : m \in Dropped' <=> m \in Dropped
  BY <1>1, <1>2, <1>4 DEF Contents
<1>5. QED
  BY <1>3, <1>4

\* None ends the loop: no packet is left in any combinator.
LEMMA EndPullPath ==
  ASSUME IInv, IInv', NothingLeftBehind', EndPull
  PROVE  Path!Next
<1>1. /\ UNCHANGED <<packets, slot, bridge, fanouts, transmit_q, drop_q, free, devices>>
      /\ TypeOK /\ TypeOK' /\ phase = "pull" /\ ret.tag = "none" /\ ret' = Calling
      /\ phase' = IF transmit_q # <<>> THEN "transmit" ELSE "reap"
  BY DEF EndPull, parts, results, IInv
<1>2. \A t, m : t \in {"act", "drop"} => ~InRet(t, m)' /\ ~InRet(t, m)
  BY <1>1, Tags DEF InRet
<1>3. Batch' = Batch /\ Dropped' = Dropped
  BY <1>1, <1>2, BatchKept
<1>4. phase' # "pull"
  BY <1>1
<1>5. Batch' = {}
  BY <1>4, NoBatchAfter DEF NoBatch
<1>6. Range(transmit_q) = {} <=> transmit_q = <<>>
  BY <1>1, RangeIsIn DEF TypeOK
<1>7. Path!EndPull("core")
  BY <1>1, <1>3, <1>5, <1>6, Ends DEF devices
<1>8. QED
  BY <1>7, PathSteps

\* A run begins: it finds the combinators empty.
LEMMA ReceivePath ==
  ASSUME IInv, IInv', NothingLeftBehind, Owned, Receive
  PROVE  Path!Next
<1>1. /\ TypeOK /\ TypeOK' /\ phase = "idle" /\ phase' = "pull" /\ kni_ptrs = {}
      /\ UNCHANGED <<slot, bridge, fanouts, transmit_q, drop_q, free, txring,
                     channel, kni_ptrs>>
      /\ ret' = Calling /\ rxring \in Seq(Mbuf)
  BY DEF Receive, Enter, IInv, TypeOK
<1>2. PICK k \in 1 .. Len(rxring) :
         /\ k <= BurstMax
         /\ packets' = SubSeq(rxring, 1, k)
         /\ rxring' = SubSeq(rxring, k + 1, Len(rxring))
  BY DEF Receive
<1>3. Once(rxring)
  BY DEF Owned, Distinct
<1>4. /\ packets' \in Seq(Mbuf) /\ Len(packets') = k /\ packets' # <<>>
  <2>1. packets' \in Seq(Mbuf) /\ Len(packets') = k
    BY <1>1, <1>2, Cut
  <2>2. k # 0
    OBVIOUS
  <2>3. Len(<<>>) = 0
    OBVIOUS
  <2>4. QED
    BY <2>1, <2>2, <2>3
<1>5. /\ Once(packets')
      /\ \A m : In(rxring, m) <=> In(packets', m) \/ In(rxring', m)
      /\ \A m : ~(In(packets', m) /\ In(rxring', m))
  BY <1>1, <1>2, <1>3, CutInTwo
<1>6. PICK S : S = Range(packets')
  OBVIOUS
<1>7. S \subseteq Range(rxring) /\ S # {} /\ Range(rxring)' = Range(rxring) \ S
  BY <1>4, <1>5, <1>6, RangeIsIn
<1>8. Cardinality(S) <= BurstMax
  BY <1>2, <1>4, <1>5, <1>6, OnceCounts
<1>9. /\ Batch = {} /\ Dropped = Range(drop_q)
      /\ packets = <<>> /\ ret = Calling
      /\ \A t, m : ~InFan(t, m)
      /\ \A m : ~InSome(slot, m) /\ ~InSome(bridge, m)
  BY <1>1, QuietContents
<1>10. \A t, m : /\ ~InFan(t, m)'
                 /\ t \in {"act", "drop"} => ~InRet(t, m)' /\ ~InRet(t, m)
  BY <1>1, <1>9, Tags DEF InFan, InRet
<1>11. Contents /\ Contents'
  BY <1>1, ContentsMapped, ContentsAfter
<1>12. \A m : /\ m \in Batch' <=> In(packets', m)
              /\ m \in Dropped' <=> m \in Dropped
  BY <1>1, <1>9, <1>10, <1>11 DEF Contents
<1>13. Batch' = S /\ Dropped' = Dropped
  BY <1>6, <1>12, RangeIsIn
<1>14. Path!Receive("core", S)
  BY <1>1, <1>7, <1>8, <1>13, Receives
<1>15. QED
  BY <1>7, <1>14, PathSteps

-----------------------------------------------------------------------------
(* The count of PortQueue::transmit is 16 bits wide.  It counts the whole    *)
(* queue because the packets of a queue have different places, between 0 and *)
(* BurstMax, in the batch that was received.                                 *)

CountInv ==
  /\ \A m \in Mbuf : rank[m] <= BurstMax
  /\ phase = "transmit" => transmit_q # <<>>

\* A pipeline that has not run has neither.
LEMMA CountInit == Init => CountInv
<1> SUFFICES ASSUME Init PROVE CountInv
  OBVIOUS
<1>1. BurstMax \in Nat
  BY PipelineAssumption
<1>2. QED
  BY <1>1 DEF Init, CountInv

\* No step breaks them.
LEMMA CountStep ==
  ASSUME TypeOK, TypeOK', CountInv, [Next]_vars
  PROVE  CountInv'
<1>1. BurstMax \in Nat
  BY PipelineAssumption
<1>2. \A m \in Mbuf : rank'[m] <= BurstMax
  <2>1. CASE Receive
    <3>1. PICK k \in 1 .. Len(rxring) :
             /\ k <= BurstMax
             /\ packets' = SubSeq(rxring, 1, k)
             /\ rank' = [m \in Mbuf |-> IF m \in Range(packets')
                                        THEN CHOOSE i \in 1 .. k : rxring[i] = m
                                        ELSE 0]
      BY <2>1 DEF Receive
    <3>2. Len(rxring) \in Nat /\ rxring \in Seq(Mbuf)
      BY DEF TypeOK
    <3>3. ASSUME NEW m \in Mbuf, m \in Range(packets')
          PROVE  rank'[m] \in 1 .. k
      <4>1. PICK i \in DOMAIN packets' : packets'[i] = m
        BY <3>3 DEF Range
      <4>2. i \in 1 .. k /\ rxring[i] = m
        BY <3>1, <3>2, <4>1, Cut
      <4>3. (CHOOSE j \in 1 .. k : rxring[j] = m) \in 1 .. k
        BY <4>2
      <4>4. QED
        BY <3>1, <3>3, <4>3
    <3>4. ASSUME NEW m \in Mbuf, m \notin Range(packets')
          PROVE  rank'[m] = 0
      BY <3>1, <3>4
    <3>5. QED
      BY <1>1, <3>1, <3>2, <3>3, <3>4
  <2>2. CASE Replace
    <3>1. CASE rank' = rank
      BY <3>1 DEF CountInv
    <3>2. ASSUME NEW n \in free,
                 rank' = [rank EXCEPT ![n] = rank[CHOOSE m \in ret.pkt : TRUE]]
          PROVE  \A m \in Mbuf : rank'[m] <= BurstMax
      <4>1. ret \in Disposition /\ ret.tag = "act" /\ rank \in [Mbuf -> Nat]
        BY <2>2 DEF Replace, TypeOK
      <4>2. PICK o \in Mbuf : o = CHOOSE m \in ret.pkt : TRUE
        BY <4>1, PacketOf
      <4>3. rank[o] <= BurstMax
        BY DEF CountInv
      <4>4. \A m \in Mbuf : rank'[m] = IF m = n THEN rank[o] ELSE rank[m]
        BY <3>2, <4>1, <4>2
      <4>5. QED
        BY <4>3, <4>4 DEF CountInv
    <3>3. QED
      BY <2>2, <3>1, <3>2 DEF Replace
  <2>3. CASE UNCHANGED rank
    BY <2>3 DEF CountInv
  <2>4. QED
    BY <2>1, <2>2, <2>3
       DEF Next, RunStep, NextDisposition, PollNext, BridgeNext, SlotNext,
           FanoutNext, Ask, PassOn, Apply, Emit, Split, Gather, Merge, Take,
           EndPull, TxBurst, TxGiveUp, Reap, NicReceive, NicTransmit, KniTake,
           KniGiveUp, history, vars
<1>3. phase' = "transmit" => transmit_q' # <<>>
  <2>1. CASE TxBurst
    <3>1. PICK k \in 1 .. Len(transmit_q) :
            /\ transmit_q' = SubSeq(transmit_q, k + 1, Len(transmit_q))
            /\ phase' = IF k < Len(transmit_q) THEN "transmit" ELSE "reap"
      BY <2>1 DEF TxBurst
    <3>2. transmit_q \in Seq(Mbuf) /\ Len(transmit_q) \in Nat
      BY DEF TypeOK
    <3>3. Len(transmit_q') = Len(transmit_q) - k
      BY <3>1, <3>2, Cut
    <3>4. Len(<<>>) = 0
      OBVIOUS
    <3>5. phase' = "transmit" => Len(transmit_q') # 0
      BY <3>1, <3>2, <3>3
    <3>6. QED
      BY <3>4, <3>5
  <2>2. CASE EndPull
    BY <2>2 DEF EndPull, results
  <2>3. CASE phase' # "transmit"
    BY <2>3
  <2>4. CASE UNCHANGED <<phase, transmit_q>>
    BY <2>4 DEF CountInv
  <2>5. CASE Take
    <3>1. phase' = "pull"
      BY <2>5 DEF Take
    <3>2. QED
      BY <3>1
  <2>6. QED
    BY <2>1, <2>2, <2>3, <2>4, <2>5
       DEF Next, RunStep, NextDisposition, PollNext, BridgeNext, SlotNext,
           FanoutNext, Ask, PassOn, Apply, Emit, Replace, Split, Gather, Merge,
           Receive, TxGiveUp, Reap, NicReceive, NicTransmit, KniTake,
           KniGiveUp, results, vars
<1>4. QED
  BY <1>2, <1>3 DEF CountInv

\* No more packets are queued than there are places in a batch.
LEMMA QueueCounted ==
  ASSUME TypeOK, OrderInv, CountInv
  PROVE  Len(transmit_q) <= BurstMax + 1
<1>1. /\ transmit_q \in Seq(Mbuf) /\ Len(transmit_q) \in Nat
      /\ DOMAIN transmit_q = 1 .. Len(transmit_q) /\ BurstMax \in Nat
      /\ rank \in [Mbuf -> Nat]
  BY PipelineAssumption DEF TypeOK
<1> DEFINE f == [i \in 1 .. Len(transmit_q) |-> rank[transmit_q[i]]]
<1>2. \A i \in 1 .. Len(transmit_q) :
        /\ f[i] \in 0 .. BurstMax
        /\ \A j \in 1 .. Len(transmit_q) : i < j => f[i] < f[j]
  <2>1. \A i \in 1 .. Len(transmit_q) : transmit_q[i] \in Mbuf
    BY <1>1
  <2>2. \A i \in 1 .. Len(transmit_q) : f[i] \in 0 .. BurstMax
    BY <1>1, <2>1 DEF CountInv
  <2>3. \A i, j \in 1 .. Len(transmit_q) : i < j => f[i] < f[j]
    BY <1>1 DEF OrderInv
  <2>4. QED
    BY <2>2, <2>3
<1>3. f \in [1 .. Len(transmit_q) -> 0 .. BurstMax]
  BY <1>2
<1> HIDE DEF f
<1>4. IsInjective(f)
  <2>1. DOMAIN f = 1 .. Len(transmit_q)
    BY <1>3
  <2>2. \A i, j \in 1 .. Len(transmit_q) : i # j => f[i] # f[j]
    <3>1. ASSUME NEW i \in 1 .. Len(transmit_q), NEW j \in 1 .. Len(transmit_q),
                 i # j
          PROVE  f[i] # f[j]
      <4>1. f[i] \in 0 .. BurstMax /\ f[j] \in 0 .. BurstMax
        BY <1>2
      <4>2. i < j \/ j < i
        BY <3>1, <1>1
      <4>3. f[i] < f[j] \/ f[j] < f[i]
        BY <1>2, <4>2
      <4>4. QED
        BY <1>1, <4>1, <4>3
    <3>2. QED
      BY <3>1
  <2>3. QED
    BY <2>1, <2>2 DEF IsInjective
<1>5. f \in Injection(1 .. Len(transmit_q), 0 .. BurstMax)
  BY <1>3, <1>4 DEF Injection
<1>6. /\ IsFiniteSet(0 .. BurstMax) /\ Cardinality(0 .. BurstMax) = BurstMax + 1
      /\ Cardinality(1 .. Len(transmit_q)) = Len(transmit_q)
  <2>1. /\ IsFiniteSet(0 .. BurstMax)
        /\ Cardinality(0 .. BurstMax) =
             IF 0 > BurstMax THEN 0 ELSE BurstMax - 0 + 1
    BY <1>1, FS_Interval
  <2>2. Cardinality(1 .. Len(transmit_q)) =
          IF 1 > Len(transmit_q) THEN 0 ELSE Len(transmit_q) - 1 + 1
    BY <1>1, FS_Interval
  <2>3. QED
    BY <1>1, <2>1, <2>2
<1>7. QED
  BY <1>5, <1>6, FS_Injection

-----------------------------------------------------------------------------
(* The steps of Send and of the devices *)

\* A count below the modulus does not wrap.
LEMMA NoWrap ==
  ASSUME NEW k \in Nat, NEW n \in Nat, n < k
  PROVE  n % k = n
OBVIOUS

\* One burst of the driver takes the packets from the front.
LEMMA TxBurstPath ==
  ASSUME IInv, IInv', Owned, OrderInv, CountInv, BurstMax + 1 < 2 ^ 16, TxBurst
  PROVE  Path!Next
<1>1. /\ TypeOK /\ TypeOK' /\ phase = "transmit" /\ transmit_q \in Seq(Mbuf)
      /\ txring \in Seq(Mbuf) /\ Len(transmit_q) \in Nat /\ Len(txring) \in Nat
      /\ UNCHANGED <<packets, slot, bridge, fanouts, ret, drop_q, free, rxring,
                     channel, kni_ptrs>>
  <2>1. TypeOK /\ TypeOK'
    BY DEF IInv
  <2>2. transmit_q \in Seq(Mbuf) /\ txring \in Seq(Mbuf)
    BY <2>1 DEF TypeOK
  <2>3. Len(transmit_q) \in Nat /\ Len(txring) \in Nat
    BY <2>2
  <2>4. /\ phase = "transmit"
        /\ UNCHANGED <<packets, slot, bridge, fanouts, ret, drop_q, free, rxring,
                       channel, kni_ptrs>>
    BY DEF TxBurst, calls, parts
  <2>5. QED
    BY <2>1, <2>2, <2>3, <2>4
<1>2. PICK k \in 1 .. Len(transmit_q) :
         /\ Len(txring) + k <= RingSize
         /\ txring' = txring \o SubSeq(transmit_q, 1, k)
         /\ transmit_q' = SubSeq(transmit_q, k + 1, Len(transmit_q))
         /\ phase' = IF k < Len(transmit_q) THEN "transmit" ELSE "reap"
  BY DEF TxBurst
<1>3. PICK sent \in Seq(Mbuf) : sent = SubSeq(transmit_q, 1, k) /\ Len(sent) = k
  BY <1>1, Cut
<1>4. PICK S : S = Range(sent)
  OBVIOUS
<1>5. Once(transmit_q) /\ Once(txring)
  BY DEF Owned, Distinct
<1>6. /\ Once(sent)
      /\ \A m : In(transmit_q, m) <=> In(sent, m) \/ In(transmit_q', m)
      /\ \A m : ~(In(sent, m) /\ In(transmit_q', m))
  BY <1>1, <1>2, <1>3, <1>5, CutInTwo
<1>7. /\ S \subseteq Range(transmit_q) /\ S \subseteq Mbuf
      /\ Range(transmit_q)' = Range(transmit_q) \ S
  BY <1>4, <1>6, RangeIsIn
<1>8. S # {}
  <2>1. k # 0 /\ Len(<<>>) = 0
    BY <1>1
  <2>2. sent # <<>>
    BY <1>3, <2>1
  <2>3. Range(sent) = {} <=> sent = <<>>
    BY RangeIsIn
  <2>4. QED
    BY <1>4, <2>2, <2>3
<1>9. \A m : ~(In(txring, m) /\ In(sent, m))
  <2>1. ASSUME NEW m, In(txring, m), In(sent, m) PROVE FALSE
    <3>1. m \in Mbuf /\ In(transmit_q, m)
      BY <1>4, <1>6, <1>7, <2>1, RangeIsIn
    <3>2. PICK p : At(m, p)
      BY <3>1 DEF Owned, Located
    <3>3. QED
      BY <2>1, <3>1, <3>2 DEF At
  <2>2. QED
    BY <2>1
<1>10. /\ txring \o sent \in Seq(Mbuf) /\ Len(txring \o sent) = Len(txring) + k
       /\ \A m : In(txring \o sent, m) <=> In(txring, m) \/ In(sent, m)
       /\ Once(txring \o sent)
  <2>1. txring \o sent \in Seq(Mbuf) /\ Len(txring \o sent) = Len(txring) + k
    BY <1>1, <1>3, ConcatFacts
  <2>2. PICK t \in Seq(Mbuf) : t = txring
    BY <1>1
  <2>3. /\ \A m : In(t \o sent, m) <=> In(t, m) \/ In(sent, m)
        /\ Once(t) /\ Once(sent) /\ (\A m : ~(In(t, m) /\ In(sent, m)))
             => Once(t \o sent)
    BY Joined
  <2>4. QED
    BY <1>5, <1>6, <1>9, <2>1, <2>2, <2>3
<1>11. Range(txring)' = Range(txring) \union S
  BY <1>2, <1>3, <1>4, <1>10, RangeIsIn
<1>12. Cardinality(Range(txring) \union S) <= RingSize
  BY <1>2, <1>3, <1>10, <1>11, OnceCounts
<1>13. /\ Cardinality(S) = k
       /\ Cardinality(Range(transmit_q)) = Len(transmit_q)
  BY <1>1, <1>3, <1>4, <1>5, <1>6, OnceCounts
<1>14. Cardinality(Range(transmit_q)) % (2 ^ 16) = Len(transmit_q)
  <2>1. Len(transmit_q) <= BurstMax + 1 /\ BurstMax \in Nat
    BY <1>1, QueueCounted, PipelineAssumption
  <2>2. 2 ^ 16 \in Nat
    OBVIOUS
  <2>3. Len(transmit_q) < 2 ^ 16
    BY <1>1, <2>1, <2>2
  <2>4. Len(transmit_q) % (2 ^ 16) = Len(transmit_q)
    BY <1>1, <2>2, <2>3, NoWrap
  <2>5. QED
    BY <1>13, <2>4
<1>15. Batch' = Batch /\ Dropped' = Dropped
  BY <1>1, BatchKept DEF InRet
<1>16. \/ /\ k < Len(transmit_q)
          /\ Range(transmit_q)' = Range(transmit_q) \ S
          /\ phase' = phase
       \/ /\ k = Len(transmit_q)
          /\ Range(transmit_q)' = {}
          /\ phase' = "reap"
  <2>1. CASE k < Len(transmit_q)
    BY <1>1, <1>2, <1>7, <2>1
  <2>2. CASE k = Len(transmit_q)
    <3>1. transmit_q' \in Seq(Mbuf) /\ Len(transmit_q') = 0
      BY <1>1, <1>2, <2>2, Cut
    <3>2. transmit_q' = <<>>
      BY <3>1
    <3>3. Range(transmit_q') = {}
      BY <3>1, <3>2, RangeIsIn
    <3>4. QED
      BY <1>2, <2>2, <3>3
  <2>3. QED
    BY <1>1, <2>1, <2>2
<1>17. Path!TxBurst("core", S)
  <2>1. Cardinality(S) <= Cardinality(Range(transmit_q)) % (2 ^ 16)
    BY <1>1, <1>13, <1>14
  <2>2. \/ /\ Cardinality(S) < Cardinality(Range(transmit_q)) % (2 ^ 16)
           /\ Range(transmit_q)' = Range(transmit_q) \ S
           /\ phase' = phase
        \/ /\ Cardinality(S) = Cardinality(Range(transmit_q)) % (2 ^ 16)
           /\ Range(transmit_q)' = {}
           /\ phase' = "reap"
    BY <1>13, <1>14, <1>16
  <2>3. QED
    BY <1>1, <1>7, <1>8, <1>11, <1>12, <1>15, <2>1, <2>2, Bursts
<1>18. QED
  BY <1>7, <1>17, PathSteps

\* What the driver refuses is freed.
LEMMA TxGiveUpPath ==
  ASSUME IInv, IInv', CountInv, TxGiveUp
  PROVE  Path!Next
<1>1. /\ TypeOK /\ TypeOK' /\ phase = "transmit" /\ phase' = "reap"
      /\ transmit_q \in Seq(Mbuf) /\ transmit_q # <<>> /\ transmit_q' = <<>>
      /\ free' = free \union Range(transmit_q)
      /\ UNCHANGED <<packets, slot, bridge, fanouts, ret, drop_q, rxring,
                     txring, channel, kni_ptrs>>
  BY DEF TxGiveUp, calls, parts, devices, IInv, TypeOK, CountInv
<1>2. Batch' = Batch /\ Dropped' = Dropped
  BY <1>1, BatchKept DEF InRet
<1>3. /\ Range(transmit_q) \subseteq Mbuf /\ Range(transmit_q) # {}
      /\ Range(transmit_q)' = {}
  BY <1>1, RangeIsIn DEF Range
<1>4. Path!TxGiveUp("core")
  BY <1>1, <1>2, <1>3, GivesUp
<1>5. QED
  BY <1>4, PathSteps

\* The end of a run frees what all its combinators have dropped.
LEMMA ReapPath ==
  ASSUME IInv, IInv', NothingLeftBehind, Reap
  PROVE  Path!Next
<1>1. /\ TypeOK /\ TypeOK' /\ phase = "reap" /\ phase' = "idle"
      /\ drop_q \in Seq(Mbuf) /\ drop_q' = <<>>
      /\ free' = free \union Range(drop_q)
      /\ UNCHANGED <<packets, slot, bridge, fanouts, ret, transmit_q, devices>>
  BY DEF Reap, calls, parts, IInv, TypeOK
<1>2. /\ Batch = {} /\ Dropped = Range(drop_q)
      /\ packets = <<>> /\ ret = Calling
      /\ \A t, m : ~InFan(t, m)
      /\ \A m : ~InSome(slot, m) /\ ~InSome(bridge, m)
  BY <1>1, QuietContents
<1>3. Batch' = Batch
  BY <1>1, BatchKept DEF InRet
<1>4. Contents'
  BY <1>1, ContentsAfter
<1>5. \A m : ~InFan("drop", m)' /\ ~InRet("drop", m)' /\ ~In(drop_q', m)
  <2>1. \A m : InFan("drop", m)' <=> InFan("drop", m)
    BY <1>1 DEF InFan
  <2>2. \A m : ~InRet("drop", m)'
    BY <1>1, <1>2, Tags DEF InRet
  <2>3. \A m : ~In(drop_q', m)
    BY <1>1 DEF In
  <2>4. QED
    BY <1>2, <2>1, <2>2, <2>3
<1>6. Dropped' = {}
  BY <1>1, <1>2, <1>4, <1>5 DEF Contents
<1>7. Dropped \subseteq Mbuf
  BY <1>1, <1>2, RangeIsIn
<1>8. Path!Reap("core")
  BY <1>1, <1>2, <1>3, <1>6, <1>7, Reaps DEF devices
<1>9. QED
  BY <1>8, PathSteps

\* The NIC takes a buffer, or gives one back.
LEMMA NicPath ==
  ASSUME IInv, IInv', Owned, NicReceive \/ NicTransmit
  PROVE  Path!Next
<1>1. /\ TypeOK /\ TypeOK' /\ rxring \in Seq(Mbuf) /\ txring \in Seq(Mbuf)
      /\ free \in SUBSET Mbuf
      /\ UNCHANGED <<packets, slot, bridge, fanouts, ret, phase, transmit_q,
                     drop_q, channel, kni_ptrs>>
  BY DEF NicReceive, NicTransmit, calls, parts, results, IInv, TypeOK
<1>2. Batch' = Batch /\ Dropped' = Dropped
  BY <1>1, BatchKept DEF InRet
<1>3. CASE NicReceive
  <2>1. PICK m \in free : free' = free \ {m} /\ rxring' = Append(rxring, m)
    BY <1>3 DEF NicReceive
  <2>2. \A l : In(rxring', l) <=> In(rxring, l) \/ l = m
    BY <1>1, <2>1, PutLast
  <2>3. Range(rxring)' = Range(rxring) \union {m}
    BY <2>2, RangeIsIn
  <2>4. UNCHANGED txring
    BY <1>3 DEF NicReceive
  <2>5. Path!NicReceive("core")
    BY <1>1, <1>2, <2>1, <2>3, <2>4, NicReceives
  <2>6. QED
    BY <2>5, PathSteps
<1>4. CASE NicTransmit
  <2>1. /\ txring # <<>> /\ free' = free \union {Head(txring)}
        /\ txring' = Tail(txring) /\ rxring' = rxring
    BY <1>4 DEF NicTransmit
  <2>2. PICK m \in Mbuf : m = Head(txring)
    BY <1>1, <2>1, TakeHead
  <2>3. /\ \A l : In(txring, l) <=> l = m \/ In(txring', l)
        /\ ~In(txring', m)
    BY <1>1, <2>1, <2>2, TakeHead DEF Owned, Distinct
  <2>4. m \in Range(txring) /\ Range(txring)' = Range(txring) \ {m}
    BY <2>3, RangeIsIn
  <2>5. Path!NicTransmit("core")
    BY <1>1, <1>2, <2>1, <2>2, <2>4, NicTransmits
  <2>6. QED
    BY <2>5, PathSteps
<1>5. QED
  BY <1>3, <1>4

\* The KniTx task takes a batch, or gives up on it.
LEMMA KniPath ==
  ASSUME IInv, IInv', KniTake \/ KniGiveUp
  PROVE  Path!Next
<1>1. /\ TypeOK /\ TypeOK' /\ kni_ptrs \subseteq Mbuf
      /\ UNCHANGED <<packets, slot, bridge, fanouts, ret, drop_q>>
  BY DEF KniTake, KniGiveUp, calls, parts, results, IInv, TypeOK
<1>2. Batch' = Batch /\ Dropped' = Dropped
  BY <1>1, BatchKept DEF InRet
<1>3. CASE KniTake
  BY <1>2, <1>3, KniTakes, PathSteps
<1>4. CASE KniGiveUp
  BY <1>1, <1>2, <1>4, KniGivesUp, PathSteps
<1>5. QED
  BY <1>3, <1>4

\* What changes nothing leaves the mapped state alone.
LEMMA StutterPath == UNCHANGED vars => UNCHANGED Path!vars
<1> SUFFICES ASSUME UNCHANGED vars PROVE UNCHANGED Path!vars
  OBVIOUS
<1>1. UNCHANGED <<phase, packets, slot, bridge, fanouts, ret, transmit_q, drop_q,
                  free, rxring, txring, channel, kni_ptrs>>
  BY DEF vars, calls, parts, results, devices
<1>2. \A t : InPipeline(t)' = InPipeline(t)
  BY <1>1 DEF InPipeline
<1>3. QED
  BY <1>1, <1>2 DEF Path!vars

\* What the simulation of a step needs to know of the state.
Known == IInv /\ NothingLeftBehind /\ Owned /\ OrderInv /\ CountInv

\* Every step is one of PacketPath's or one it does not see.
LEMMA PathSimulated ==
  ASSUME BurstMax + 1 < 2 ^ 16, Known, Known', [Next]_vars
  PROVE  [Path!Next]_(Path!vars)
<1>1. /\ IInv /\ IInv' /\ NothingLeftBehind /\ NothingLeftBehind' /\ Owned
      /\ OrderInv /\ CountInv /\ TypeOK /\ TypeOK'
  BY DEF Known, IInv
<1>2. CASE NextDisposition
  <2>1. CASE PollNext \/ BridgeNext \/ SlotNext \/ FanoutNext \/ Ask \/ PassOn
             \/ Split \/ Gather \/ Merge
    BY <1>1, <2>1, PollInside, BridgeInside, SlotInside, QueueInside, PassInside,
       SplitInside, GatherInside, InsidePath
  <2>2. CASE Apply \/ Emit \/ Replace
    BY <1>1, <2>2, ApplyPath, EmitPath, ReplacePath, InsidePath
  <2>3. QED
    BY <1>2, <2>1, <2>2 DEF NextDisposition
<1>3. CASE Receive
  BY <1>1, <1>3, ReceivePath
<1>4. CASE Take \/ EndPull
  BY <1>1, <1>4, TakePath, EndPullPath
<1>5. CASE TxBurst \/ TxGiveUp \/ Reap
  BY <1>1, <1>5, TxBurstPath, TxGiveUpPath, ReapPath
<1>6. CASE NicReceive \/ NicTransmit \/ KniTake \/ KniGiveUp
  BY <1>1, <1>6, NicPath, KniPath
<1>7. CASE UNCHANGED vars
  BY <1>7, StutterPath
<1>8. QED
  BY <1>2, <1>3, <1>4, <1>5, <1>6, <1>7 DEF Next, RunStep

\* The mapping takes the initial state to the initial state.
LEMMA InitPath == Init => Path!Init
BY DEF Init, Path!Init, InPipeline, Calling, Range

\* What a step needs of the state holds in every state.
LEMMA KnownHolds == Spec => []Known
<1>1. TypeOK /\ TypeOK' /\ CountInv /\ [Next]_vars => CountInv'
  BY CountStep
<1>2. IInv => TypeOK
  BY DEF IInv
<1>3. IInv /\ NothingLeftBehind /\ Owned /\ [Next]_vars => Owned'
  BY OwnedStep
<1>4. IInv /\ NothingLeftBehind /\ Owned /\ OrderInv /\ CountInv => Known
  BY DEF Known
<1>5. QED
  BY <1>1, <1>2, <1>3, <1>4, InvHolds, RunsLeaveNothing, InitOwned, OrderHolds,
     CountInit, PTL DEF Spec

\* What PacketPath says of a core, that the batch of a run yields one
\* disposition for every packet and one more for each that is replaced, is what
\* the tree of combinators does: every behaviour of Send::run over a pipeline
\* is a behaviour of the data path.
THEOREM ImplementsPacketPath ==
  ASSUME BurstMax + 1 < 2 ^ 16
  PROVE  Spec => PathSpec
<1>1. Known /\ Known' /\ [Next]_vars => [Path!Next]_(Path!vars)
  BY PathSimulated
<1>2. QED
  BY <1>1, InitPath, KnownHolds, PTL DEF Spec, PathSpec, Path!Spec

=============================================================================
