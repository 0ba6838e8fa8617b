-------------------------- MODULE PacketPathProofs --------------------------
(***************************************************************************)
(* What holds of the data path for any number of cores, buffers and        *)
(* mempools.                                                               *)
(***************************************************************************)
EXTENDS PacketPath, FiniteSetTheorems, TLAPS

\* A sequence that grows by an element of its type keeps it.
LEMMA AppendType ==
  ASSUME NEW T, NEW s \in Seq(T), NEW e \in T
  PROVE  Append(s, e) \in Seq(T)
OBVIOUS

\* What Append puts where.
LEMMA AppendFacts ==
  ASSUME NEW T, NEW s \in Seq(T), NEW e \in T
  PROVE  /\ Len(Append(s, e)) = Len(s) + 1
         /\ Append(s, e)[Len(s) + 1] = e
         /\ \A i \in 1 .. Len(s) : Append(s, e)[i] = s[i]
OBVIOUS

\* What Tail leaves.
LEMMA TailFacts ==
  ASSUME NEW T, NEW s \in Seq(T), s # <<>>
  PROVE  /\ Head(s) = s[1]
         /\ Len(s) \in Nat \ {0}
         /\ Len(Tail(s)) = Len(s) - 1
         /\ \A i \in 1 .. Len(s) - 1 : Tail(s)[i] = s[i + 1]
OBVIOUS

\* The empty sequence has every type.
LEMMA EmptyType == ASSUME NEW T PROVE <<>> \in Seq(T)
OBVIOUS

\* A free of buffers one by one gives each mempool buffers.
LEMMA FreeEachType ==
  ASSUME free \in [Pool -> SUBSET Mbuf], NEW S \in SUBSET Mbuf
  PROVE  FreeEach(S) \in [Pool -> SUBSET Mbuf]
BY DEF FreeEach

(***************************************************************************)
(* Type correctness: every variable of the data path keeps its type, for   *)
(* every number of cores, buffers and mempools.                            *)
(***************************************************************************)
THEOREM TypeCorrect == Spec => []TypeOK
<1>1. Init => TypeOK
  BY ConstantsAssumption DEF Init, TypeOK, Phase
<1>2. TypeOK /\ [Next]_vars => TypeOK'
  <2> SUFFICES ASSUME TypeOK, [Next]_vars PROVE TypeOK'
    OBVIOUS
  <2> USE ConstantsAssumption DEF TypeOK, Phase, task, kni
  <2>1. ASSUME NEW c \in Core, NicReceive(c) PROVE TypeOK'
    BY <2>1 DEF NicReceive
  <2>2. ASSUME NEW c \in Core, NicTransmit(c) PROVE TypeOK'
    BY <2>2, FreeEachType DEF NicTransmit
  <2>3. ASSUME NEW c \in Core, NEW S \in SUBSET rxring[c], Receive(c, S)
        PROVE TypeOK'
    BY <2>3 DEF Receive
  <2>4. ASSUME NEW c \in Core, NEW m \in batch[c], Act(c, m) PROVE TypeOK'
    BY <2>4 DEF Act
  <2>5. ASSUME NEW c \in Core, NEW m \in batch[c], Drop(c, m) PROVE TypeOK'
    BY <2>5 DEF Drop
  <2>6. ASSUME NEW c \in Core, NEW m \in batch[c], Abort(c, m) PROVE TypeOK'
    BY <2>6, FreeEachType DEF Abort
  <2>7. ASSUME NEW c \in Core, NEW m \in batch[c], Emit(c, m) PROVE TypeOK'
    <3>1. m \in Mbuf /\ {m} \in SUBSET Mbuf
      OBVIOUS
    <3>2. free' \in [Pool -> SUBSET Mbuf]
      BY <2>7, <3>1 DEF Emit, FreeBulk
    <3>3. channel' \in Seq(SUBSET Mbuf)
      <4>1. Append(channel, {m}) \in Seq(SUBSET Mbuf)
        BY <3>1, AppendType, Zenon
      <4>2. QED
        BY <2>7, <4>1, Zenon DEF Emit
    <3>4. QED
      BY <2>7, <3>2, <3>3 DEF Emit
  <2>8. ASSUME NEW c \in Core, NEW m \in batch[c], NEW n \in free[CorePool[c]],
               Replace(c, m, n)
        PROVE TypeOK'
    BY <2>8 DEF Replace
  <2>9. ASSUME NEW c \in Core, EndPull(c) PROVE TypeOK'
    BY <2>9 DEF EndPull
  <2>10. ASSUME NEW c \in Core, NEW S \in SUBSET transmit_q[c], TxBurst(c, S)
         PROVE TypeOK'
    BY <2>10 DEF TxBurst
  <2>11. ASSUME NEW c \in Core, TxGiveUp(c) PROVE TypeOK'
    BY <2>11 DEF TxGiveUp, FreeBulk
  <2>12. ASSUME NEW c \in Core, TxChannel(c) PROVE TypeOK'
    <3>1. transmit_q[c] \in SUBSET Mbuf
      OBVIOUS
    <3>2. free' \in [Pool -> SUBSET Mbuf]
      BY <2>12, <3>1 DEF TxChannel, FreeBulk
    <3>3. channel' \in Seq(SUBSET Mbuf)
      <4>1. Append(channel, transmit_q[c]) \in Seq(SUBSET Mbuf)
        BY <3>1, AppendType, Zenon
      <4>2. QED
        BY <2>12, <4>1, Zenon DEF TxChannel
    <3>4. QED
      BY <2>12, <3>2, <3>3 DEF TxChannel
  <2>13. ASSUME NEW c \in Core, Reap(c) PROVE TypeOK'
    BY <2>13 DEF Reap, FreeBulk
  <2>14. ASSUME NEW c \in Core, CoreStop(c) PROVE TypeOK'
    <3>1. UNION {channel[i] : i \in DOMAIN channel} \in SUBSET Mbuf
      OBVIOUS
    <3>2. free' \in [Pool -> SUBSET Mbuf]
      BY <2>14, <3>1 DEF CoreStop, FreeEach
    <3>3. channel' \in Seq(SUBSET Mbuf)
      <4>1. <<>> \in Seq(SUBSET Mbuf)
        BY EmptyType
      <4>2. channel' = <<>> \/ channel' = channel
        BY <2>14 DEF CoreStop
      <4>3. channel \in Seq(SUBSET Mbuf)
        BY DEF TypeOK
      <4>4. QED
        BY ONLY <4>1, <4>2, <4>3
    <3>4. QED
      BY <2>14, <3>2, <3>3 DEF CoreStop
  <2>15. CASE KernelConsume
    BY <2>15, FreeEachType DEF KernelConsume
  <2>16. CASE KniTake
    BY <2>16 DEF KniTake
  <2>17. ASSUME NEW S \in SUBSET kni_ptrs, KniBurst(S) PROVE TypeOK'
    BY <2>17 DEF KniBurst
  <2>18. CASE KniGiveUp
    BY <2>18 DEF KniGiveUp, FreeBulk
  <2>19. CASE UNCHANGED vars
    BY <2>19 DEF vars
  <2>20. QED
    BY <2>1, <2>2, <2>3, <2>4, <2>5, <2>6, <2>7, <2>8, <2>9, <2>10, <2>11,
       <2>12, <2>13, <2>14, <2>15, <2>16, <2>17, <2>18, <2>19
       DEF Next, Run, KniTx
<1>3. QED
  BY <1>1, <1>2, PTL DEF Spec

-----------------------------------------------------------------------------
(***************************************************************************)
(* Conservation.  At(m, h) says that h is the one place of m, in a form    *)
(* that a step changes in the entries it touches only.                     *)
(***************************************************************************)
Somewhere(m) ==
  \/ \E p \in Pool : m \in free[p]
  \/ \E c \in Core : \/ m \in rxring[c] \/ m \in batch[c]
                     \/ m \in transmit_q[c] \/ m \in drop_q[c]
                     \/ m \in txring[c]
  \/ \E i \in 1 .. Len(channel) : m \in channel[i]
  \/ m \in kni_ptrs
  \/ m \in kernel

At(m, h) ==
  /\ Somewhere(m)
  /\ \A p \in Pool : m \in free[p] <=> h = <<"free", p>>
  /\ \A c \in Core : m \in rxring[c] <=> h = <<"rxring", c>>
  /\ \A c \in Core : m \in batch[c] <=> h = <<"batch", c>>
  /\ \A c \in Core : m \in transmit_q[c] <=> h = <<"transmit_q", c>>
  /\ \A c \in Core : m \in drop_q[c] <=> h = <<"drop_q", c>>
  /\ \A c \in Core : m \in txring[c] <=> h = <<"txring", c>>
  /\ \A i \in 1 .. Len(channel) : m \in channel[i] <=> h = <<"channel", i>>
  /\ m \in kni_ptrs <=> h = <<"kni_ptrs", 0>>
  /\ m \in kernel <=> h = <<"kernel", 0>>

Located == \A m \in Mbuf : \E h : At(m, h)

\* The places of m in the queues f of one kind.
LEMMA EntriesMember ==
  ASSUME NEW name, NEW f, NEW m, NEW h
  PROVE  h \in Entries(name, f, m)
           <=> \E i \in DOMAIN f : m \in f[i] /\ h = <<name, i>>
BY DEF Entries

\* If there is one such place at most, it says which queue m is in.
LEMMA InEntries ==
  ASSUME NEW name, NEW f, NEW m, NEW h, Entries(name, f, m) \subseteq {h}
  PROVE  \A i \in DOMAIN f : m \in f[i] => h = <<name, i>>
BY DEF Entries

\* Located is Conservation, said in the way the steps need it.
LEMMA LocatedConserves == TypeOK => (Located <=> Conservation)
<1> SUFFICES ASSUME TypeOK, NEW m \in Mbuf
             PROVE  (\E h : At(m, h)) <=> (\E h \in Places(m) : Places(m) = {h})
  BY DEF Located, Conservation
<1>1. ASSUME NEW h, At(m, h) PROVE h \in Places(m) /\ Places(m) = {h}
  BY <1>1 DEF At, Somewhere, Places, Entries, TypeOK
<1>2. ASSUME NEW h \in Places(m), Places(m) = {h} PROVE At(m, h)
  <2>1. \A i \in Pool : m \in free[i] => h = <<"free", i>>
    <3>1. Entries("free", free, m) \subseteq {h}
      BY <1>2 DEF Places
    <3>2. DOMAIN free = Pool
      BY DEF TypeOK
    <3> QED BY <3>1, <3>2, InEntries
  <2>2. \A i \in Core : m \in rxring[i] => h = <<"rxring", i>>
    <3>1. Entries("rxring", rxring, m) \subseteq {h}
      BY <1>2 DEF Places
    <3>2. DOMAIN rxring = Core
      BY DEF TypeOK
    <3> QED BY <3>1, <3>2, InEntries
  <2>3. \A i \in Core : m \in batch[i] => h = <<"batch", i>>
    <3>1. Entries("batch", batch, m) \subseteq {h}
      BY <1>2 DEF Places
    <3>2. DOMAIN batch = Core
      BY DEF TypeOK
    <3> QED BY <3>1, <3>2, InEntries
  <2>4. \A i \in Core : m \in transmit_q[i] => h = <<"transmit_q", i>>
    <3>1. Entries("transmit_q", transmit_q, m) \subseteq {h}
      BY <1>2 DEF Places
    <3>2. DOMAIN transmit_q = Core
      BY DEF TypeOK
    <3> QED BY <3>1, <3>2, InEntries
  <2>5. \A i \in Core : m \in drop_q[i] => h = <<"drop_q", i>>
    <3>1. Entries("drop_q", drop_q, m) \subseteq {h}
      BY <1>2 DEF Places
    <3>2. DOMAIN drop_q = Core
      BY DEF TypeOK
    <3> QED BY <3>1, <3>2, InEntries
  <2>6. \A i \in Core : m \in txring[i] => h = <<"txring", i>>
    <3>1. Entries("txring", txring, m) \subseteq {h}
      BY <1>2 DEF Places
    <3>2. DOMAIN txring = Core
      BY DEF TypeOK
    <3> QED BY <3>1, <3>2, InEntries
  <2>7. \A i \in 1 .. Len(channel) : m \in channel[i] => h = <<"channel", i>>
    <3>1. Entries("channel", channel, m) \subseteq {h}
      BY <1>2 DEF Places
    <3>2. DOMAIN channel = 1 .. Len(channel)
      BY DEF TypeOK
    <3> QED BY <3>1, <3>2, InEntries
  <2>8. /\ m \in kni_ptrs => h = <<"kni_ptrs", 0>>
        /\ m \in kernel => h = <<"kernel", 0>>
    BY <1>2 DEF Places
  <2>9. \/ \E i \in Pool : m \in free[i] /\ h = <<"free", i>>
        \/ \E i \in Core : m \in rxring[i] /\ h = <<"rxring", i>>
        \/ \E i \in Core : m \in batch[i] /\ h = <<"batch", i>>
        \/ \E i \in Core : m \in transmit_q[i] /\ h = <<"transmit_q", i>>
        \/ \E i \in Core : m \in drop_q[i] /\ h = <<"drop_q", i>>
        \/ \E i \in Core : m \in txring[i] /\ h = <<"txring", i>>
        \/ \E i \in 1 .. Len(channel) : m \in channel[i] /\ h = <<"channel", i>>
        \/ m \in kni_ptrs /\ h = <<"kni_ptrs", 0>>
        \/ m \in kernel /\ h = <<"kernel", 0>>
    BY <1>2, EntriesMember DEF Places, TypeOK
  <2>10. Somewhere(m)
    BY <2>9 DEF Somewhere
  <2>11. QED
    BY <2>1, <2>2, <2>3, <2>4, <2>5, <2>6, <2>7, <2>8,
       <2>9, <2>10 DEF At
<1>3. QED
  BY <1>1, <1>2

\* When as many were sent as the loop counted, all were sent.
LEMMA LoopSendsAll ==
  ASSUME TypeOK, BurstBound, BurstMax < U16, NEW c \in Core,
         NEW S \in SUBSET transmit_q[c], Cardinality(S) = ToSend(transmit_q[c])
  PROVE  S = transmit_q[c]
<1>1. /\ IsFiniteSet(batch[c] \union transmit_q[c])
      /\ IsFiniteSet(transmit_q[c])
  BY ConstantsAssumption, FS_Subset DEF TypeOK
<1>2. /\ Cardinality(transmit_q[c]) \in Nat
      /\ Cardinality(transmit_q[c]) <= Cardinality(batch[c] \union transmit_q[c])
      /\ Cardinality(batch[c] \union transmit_q[c]) \in Nat
  BY <1>1, FS_Subset, FS_CardinalityType
<1>3. ToSend(transmit_q[c]) = Cardinality(transmit_q[c])
  <2>1. Cardinality(transmit_q[c]) < U16
    BY <1>2, ConstantsAssumption DEF BurstBound
  <2>2. QED
    BY <1>2, <2>1, ConstantsAssumption DEF ToSend
<1>4. QED
  BY <1>1, <1>3, FS_Subset

\* The NIC fills a buffer: it moves from the mempool to the receive queue.
LEMMA NicReceiveLocated ==
  ASSUME TypeOK, Located, NEW c \in Core, NicReceive(c)
  PROVE  Located'
<1> SUFFICES ASSUME NEW m \in Mbuf, NEW h, At(m, h)
             PROVE  \E g : At(m, g)'
  BY DEF Located
<1>0. PICK x \in free[RxPool[c]] :
        /\ free' = [free EXCEPT ![RxPool[c]] = @ \ {x}]
        /\ rxring' = [rxring EXCEPT ![c] = @ \union {x}]
        /\ UNCHANGED <<task, txring, kni>>
  BY DEF NicReceive
<1>1. CASE m = x
  <2>1. h = <<"free", RxPool[c]>>
    BY <1>0, <1>1, ConstantsAssumption DEF At
  <2>2. \A p \in Pool : m \notin free'[p]
    BY <1>0, <1>1, <2>1, ConstantsAssumption DEF At, TypeOK
  <2>3. \A d \in Core : m \in rxring'[d] <=> <<"rxring", c>> = <<"rxring", d>>
    BY <1>0, <1>1, <2>1 DEF At, TypeOK
  <2>4. At(m, <<"rxring", c>>)'
    BY <1>0, <2>1, <2>2, <2>3 DEF At, Somewhere, task, kni
  <2> QED BY <2>4
<1>2. CASE m # x
  <2>1. At(m, h)'
    BY <1>2, <1>0, ConstantsAssumption
       DEF At, Somewhere, TypeOK, kni, task
  <2> QED BY <2>1
<1> QED BY <1>1, <1>2

\* The NIC has sent a buffer: it goes back to its mempool.
LEMMA NicTransmitLocated ==
  ASSUME TypeOK, Located, NEW c \in Core, NicTransmit(c)
  PROVE  Located'
<1> SUFFICES ASSUME NEW m \in Mbuf, NEW h, At(m, h)
             PROVE  \E g : At(m, g)'
  BY DEF Located
<1>0. PICK x \in txring[c] :
        /\ txring' = [txring EXCEPT ![c] = @ \ {x}]
        /\ free' = FreeEach({x})
        /\ UNCHANGED <<rxring, task, kni>>
  BY DEF NicTransmit
<1>1. CASE m = x
  <2>1. At(m, <<"free", Home[x]>>)'
    BY <1>1, <1>0, ConstantsAssumption
       DEF At, Somewhere, TypeOK, kni, task, FreeEach
  <2> QED BY <2>1
<1>2. CASE m # x
  <2>1. At(m, h)'
    BY <1>2, <1>0, ConstantsAssumption
       DEF At, Somewhere, TypeOK, kni, task, FreeEach
  <2> QED BY <2>1
<1> QED BY <1>1, <1>2

\* The kernel has read a buffer: it goes back to its mempool.
LEMMA KernelConsumeLocated ==
  ASSUME TypeOK, Located, KernelConsume
  PROVE  Located'
<1> SUFFICES ASSUME NEW m \in Mbuf, NEW h, At(m, h)
             PROVE  \E g : At(m, g)'
  BY DEF Located
<1>0. PICK x \in kernel :
        /\ kernel' = kernel \ {x}
        /\ free' = FreeEach({x})
        /\ UNCHANGED <<rxring, task, txring, channel, receiver, kni_ptrs>>
  BY DEF KernelConsume
<1>1. CASE m = x
  <2>1. At(m, <<"free", Home[x]>>)'
    BY <1>1, <1>0, ConstantsAssumption
       DEF At, Somewhere, TypeOK, task, FreeEach
  <2> QED BY <2>1
<1>2. CASE m # x
  <2>1. At(m, h)'
    BY <1>2, <1>0, ConstantsAssumption
       DEF At, Somewhere, TypeOK, task, FreeEach
  <2> QED BY <2>1
<1> QED BY <1>1, <1>2

\* A burst moves to the batch, which was empty.
LEMMA ReceiveLocated ==
  ASSUME TypeOK, Located, HoldsByPhase, NEW c \in Core, NEW S \in SUBSET rxring[c], Receive(c, S)
  PROVE  Located'
<1> SUFFICES ASSUME NEW m \in Mbuf, NEW h, At(m, h)
             PROVE  \E g : At(m, g)'
  BY DEF Located
<1>1. CASE m \in S
  <2>1. At(m, <<"batch", c>>)'
    BY <1>1, ConstantsAssumption
       DEF At, Somewhere, TypeOK, Receive, HoldsByPhase, kni
  <2> QED BY <2>1
<1>2. CASE m \notin S
  <2>1. At(m, h)'
    BY <1>2, ConstantsAssumption
       DEF At, Somewhere, TypeOK, Receive, HoldsByPhase, kni
  <2> QED BY <2>1
<1> QED BY <1>1, <1>2

\* A packet moves to the transmit queue.
LEMMA ActLocated ==
  ASSUME TypeOK, Located, NEW c \in Core, NEW x \in batch[c], Act(c, x)
  PROVE  Located'
<1> SUFFICES ASSUME NEW m \in Mbuf, NEW h, At(m, h)
             PROVE  \E g : At(m, g)'
  BY DEF Located
<1>1. CASE m = x
  <2>1. At(m, <<"transmit_q", c>>)'
    BY <1>1, ConstantsAssumption
       DEF At, Somewhere, TypeOK, Act, kni
  <2> QED BY <2>1
<1>2. CASE m # x
  <2>1. At(m, h)'
    BY <1>2, ConstantsAssumption
       DEF At, Somewhere, TypeOK, Act, kni
  <2> QED BY <2>1
<1> QED BY <1>1, <1>2

\* A packet moves to the drop queue.
LEMMA DropLocated ==
  ASSUME TypeOK, Located, NEW c \in Core, NEW x \in batch[c], Drop(c, x)
  PROVE  Located'
<1> SUFFICES ASSUME NEW m \in Mbuf, NEW h, At(m, h)
             PROVE  \E g : At(m, g)'
  BY DEF Located
<1>1. CASE m = x
  <2>1. At(m, <<"drop_q", c>>)'
    BY <1>1, ConstantsAssumption
       DEF At, Somewhere, TypeOK, Drop, kni
  <2> QED BY <2>1
<1>2. CASE m # x
  <2>1. At(m, h)'
    BY <1>2, ConstantsAssumption
       DEF At, Somewhere, TypeOK, Drop, kni
  <2> QED BY <2>1
<1> QED BY <1>1, <1>2

\* A packet goes back to its mempool.
LEMMA AbortLocated ==
  ASSUME TypeOK, Located, NEW c \in Core, NEW x \in batch[c], Abort(c, x)
  PROVE  Located'
<1> SUFFICES ASSUME NEW m \in Mbuf, NEW h, At(m, h)
             PROVE  \E g : At(m, g)'
  BY DEF Located
<1>1. CASE m = x
  <2>1. At(m, <<"free", Home[x]>>)'
    BY <1>1, ConstantsAssumption
       DEF At, Somewhere, TypeOK, Abort, FreeEach, kni
  <2> QED BY <2>1
<1>2. CASE m # x
  <2>1. At(m, h)'
    BY <1>2, ConstantsAssumption
       DEF At, Somewhere, TypeOK, Abort, FreeEach, kni
  <2> QED BY <2>1
<1> QED BY <1>1, <1>2

\* A buffer leaves the mempool, the packet it replaces is dropped.
LEMMA ReplaceLocated ==
  ASSUME TypeOK, Located, NEW c \in Core, NEW x \in batch[c],
         NEW n \in free[CorePool[c]], Replace(c, x, n)
  PROVE  Located'
<1> SUFFICES ASSUME NEW m \in Mbuf, NEW h, At(m, h)
             PROVE  \E g : At(m, g)'
  BY DEF Located
<1>0. x # n
  <2>1. x \in Mbuf
    BY DEF TypeOK
  <2>2. PICK k : At(x, k)
    BY <2>1 DEF Located
  <2>3. n = x => k = <<"batch", c>> /\ k = <<"free", CorePool[c]>>
    BY <2>2, ConstantsAssumption DEF At
  <2>4. QED
    BY <2>3
<1>1. CASE m = x
  <2>1. At(m, <<"drop_q", c>>)'
    BY <1>0, <1>1, ConstantsAssumption
       DEF At, Somewhere, TypeOK, Replace, kni
  <2> QED BY <2>1
<1>2. CASE m # x /\ m = n
  <2>1. h = <<"free", CorePool[c]>>
    BY <1>2, ConstantsAssumption DEF At
  <2>2. \A p \in Pool : m \notin free'[p]
    BY <1>2, <2>1, ConstantsAssumption DEF At, TypeOK, Replace
  <2>3. \A d \in Core : /\ m \in batch'[d]
                            <=> <<"batch", c>> = <<"batch", d>>
                       /\ m \notin transmit_q'[d] /\ m \notin drop_q'[d]
    BY <1>2, <2>1 DEF At, TypeOK, Replace
  <2>4. At(m, <<"batch", c>>)'
    BY <2>1, <2>2, <2>3 DEF At, Somewhere, Replace, kni
  <2> QED BY <2>4
<1>3. CASE m # x /\ m # n
  <2>1. At(m, h)'
    BY <1>3, ConstantsAssumption
       DEF At, Somewhere, TypeOK, Replace, kni
  <2> QED BY <2>1
<1> QED BY <1>1, <1>2, <1>3

\* A batch S on the channel gives its buffers the last place there and leaves
\* the place of every other buffer alone.
LEMMA ChannelGrows ==
  ASSUME TypeOK, NEW S \in SUBSET Mbuf, channel' = Append(channel, S),
         NEW m \in Mbuf, NEW h, At(m, h)
  PROVE  /\ m \notin S => \A i \in 1 .. Len(channel') :
                             m \in channel'[i] <=> h = <<"channel", i>>
         /\ m \in S /\ (\A i \in 1 .. Len(channel) : h # <<"channel", i>>)
              => \A i \in 1 .. Len(channel') :
                   m \in channel'[i]
                     <=> <<"channel", Len(channel) + 1>> = <<"channel", i>>
         /\ Len(channel') = Len(channel) + 1
         /\ channel'[Len(channel) + 1] = S
         /\ \A i \in 1 .. Len(channel) : channel'[i] = channel[i]
         /\ Len(channel) \in Nat
<1>1. channel \in Seq(SUBSET Mbuf)
  BY DEF TypeOK
<1>2. /\ Len(channel') = Len(channel) + 1
      /\ channel'[Len(channel) + 1] = S
      /\ \A i \in 1 .. Len(channel) : channel'[i] = channel[i]
      /\ Len(channel) \in Nat
  BY <1>1, AppendFacts
<1>3. h # <<"channel", Len(channel) + 1>>
  BY <1>2 DEF At, Somewhere
<1>4. \A i \in 1 .. Len(channel) : m \in channel[i] <=> h = <<"channel", i>>
  BY DEF At
<1>5. QED
  BY <1>2, <1>3, <1>4

\* A packet moves to the channel, or to a mempool if the channel is closed.
LEMMA EmitLocated ==
  ASSUME TypeOK, Located, NEW c \in Core, NEW x \in batch[c], Emit(c, x)
  PROVE  Located'
<1> SUFFICES ASSUME NEW m \in Mbuf, NEW h, At(m, h)
             PROVE  \E g : At(m, g)'
  BY DEF Located
<1>0. x \in Mbuf /\ {x} \in SUBSET Mbuf
  BY DEF TypeOK
<1>1. CASE m = x /\ receiver = "open"
  <2>1. h = <<"batch", c>>
    BY <1>1 DEF At
  <2>2. channel' = Append(channel, {x}) /\ free' = free
    BY <1>1 DEF Emit
  <2>k. PICK k : k = Len(channel) + 1
    OBVIOUS
  <2>a. m \in {x} /\ \A i \in 1 .. Len(channel) : h # <<"channel", i>>
    BY <1>1, <2>1
  <2>b. /\ \A i \in 1 .. Len(channel') :
             m \in channel'[i]
               <=> <<"channel", Len(channel) + 1>> = <<"channel", i>>
        /\ Len(channel') = Len(channel) + 1
        /\ channel'[Len(channel) + 1] = {x}
        /\ Len(channel) \in Nat
    <3>1. channel \in Seq(SUBSET Mbuf)
      BY DEF TypeOK
    <3>2. /\ Len(channel') = Len(channel) + 1
          /\ channel'[Len(channel) + 1] = {x}
          /\ \A i \in 1 .. Len(channel) : channel'[i] = channel[i]
          /\ Len(channel) \in Nat
      BY <1>0, <2>2, <3>1, AppendFacts
    <3>3. \A i \in 1 .. Len(channel) : m \in channel[i] <=> h = <<"channel", i>>
      BY DEF At
    <3>4. QED
      BY <3>2, <3>3, <2>a
  <2>3. /\ \A i \in 1 .. Len(channel') :
             m \in channel'[i]
               <=> <<"channel", k>> = <<"channel", i>>
        /\ k \in 1 .. Len(channel')
        /\ m \in channel'[k]
    BY <2>a, <2>b, <2>k
  <2>4. \A d \in Core : m \notin batch'[d]
    BY <1>1, <2>1 DEF At, TypeOK, Emit
  <2>5. UNCHANGED <<free, rxring, transmit_q, drop_q, txring, kni_ptrs, kernel>>
    BY <2>2 DEF Emit
  <2>6. At(m, <<"channel", k>>)'
    BY <2>1, <2>3, <2>4, <2>5 DEF At, Somewhere
  <2> QED BY <2>6
<1>2. CASE m = x /\ receiver = "closed"
  <2>1. At(m, <<"free", Home[x]>>)'
    BY <1>2, ConstantsAssumption
       DEF At, Somewhere, TypeOK, Emit, FreeBulk
  <2> QED BY <2>1
<1>3. CASE m # x
  <2>1. \A i \in 1 .. Len(channel') : m \in channel'[i] <=> h = <<"channel", i>>
    BY <1>0, <1>3, ChannelGrows DEF Emit, At
  <2>2. \A p \in Pool : m \in free'[p] <=> m \in free[p]
    BY <1>0, <1>3, ConstantsAssumption DEF Emit, FreeBulk, TypeOK
  <2>3. (\E i \in 1 .. Len(channel) : m \in channel[i])
          => \E i \in 1 .. Len(channel') : m \in channel'[i]
    BY <1>0, <1>3, ChannelGrows DEF Emit
  <2>4. At(m, h)'
    BY <1>3, <2>1, <2>2, <2>3 DEF At, Somewhere, TypeOK, Emit
  <2> QED BY <2>4
<1> QED BY <1>1, <1>2, <1>3 DEF TypeOK

\* The end of the loop moves nothing.
LEMMA EndPullLocated ==
  ASSUME TypeOK, Located, NEW c \in Core, EndPull(c)
  PROVE  Located'
<1> SUFFICES ASSUME NEW m \in Mbuf, NEW h, At(m, h)
             PROVE  \E g : At(m, g)'
  BY DEF Located
<1>1. CASE TRUE
  <2>1. At(m, h)'
    BY <1>1, ConstantsAssumption
       DEF At, Somewhere, TypeOK, EndPull, kni
  <2> QED BY <2>1
<1> QED BY <1>1

\* A burst moves to the NIC; the vector that is dropped has nothing left in it.
LEMMA TxBurstLocated ==
  ASSUME TypeOK, Located, BurstBound,
         BurstMax < U16, NEW c \in Core, NEW S \in SUBSET transmit_q[c], TxBurst(c, S)
  PROVE  Located'
<1> SUFFICES ASSUME NEW m \in Mbuf, NEW h, At(m, h)
             PROVE  \E g : At(m, g)'
  BY DEF Located
<1>1. CASE m \in S
  <2>1. At(m, <<"txring", c>>)'
    BY <1>1, LoopSendsAll, ConstantsAssumption
       DEF At, Somewhere, TypeOK, TxBurst, kni
  <2> QED BY <2>1
<1>2. CASE m \notin S
  <2>1. At(m, h)'
    BY <1>2, LoopSendsAll, ConstantsAssumption
       DEF At, Somewhere, TypeOK, TxBurst, kni
  <2> QED BY <2>1
<1> QED BY <1>1, <1>2

\* What the NIC does not take is freed.
LEMMA TxGiveUpLocated ==
  ASSUME TypeOK, Located, NEW c \in Core, TxGiveUp(c)
  PROVE  Located'
<1> SUFFICES ASSUME NEW m \in Mbuf, NEW h, At(m, h)
             PROVE  \E g : At(m, g)'
  BY DEF Located
<1>0. PICK x \in transmit_q[c] : free' = FreeBulk(transmit_q[c], x)
  BY DEF TxGiveUp
<1>1. CASE m \in transmit_q[c]
  <2>1. At(m, <<"free", Home[x]>>)'
    BY <1>1, <1>0, ConstantsAssumption
       DEF At, Somewhere, TypeOK, TxGiveUp, FreeBulk, kni
  <2> QED BY <2>1
<1>2. CASE m \notin transmit_q[c]
  <2>1. At(m, h)'
    BY <1>2, <1>0, ConstantsAssumption
       DEF At, Somewhere, TypeOK, TxGiveUp, FreeBulk, kni
  <2> QED BY <2>1
<1> QED BY <1>1, <1>2

\* The queue moves to the channel, or to a mempool if it is closed.
LEMMA TxChannelLocated ==
  ASSUME TypeOK, Located, NEW c \in Core, TxChannel(c)
  PROVE  Located'
<1> SUFFICES ASSUME NEW m \in Mbuf, NEW h, At(m, h)
             PROVE  \E g : At(m, g)'
  BY DEF Located
<1>0. PICK x \in transmit_q[c] :
        receiver = "closed" => free' = FreeBulk(transmit_q[c], x)
  BY DEF TxChannel
<1>a. transmit_q[c] \in SUBSET Mbuf
  BY DEF TypeOK
<1>1. CASE m \in transmit_q[c] /\ receiver = "open"
  <2>1. h = <<"transmit_q", c>>
    BY <1>1 DEF At
  <2>2. channel' = Append(channel, transmit_q[c]) /\ free' = free
    BY <1>1 DEF TxChannel
  <2>k. PICK k : k = Len(channel) + 1
    OBVIOUS
  <2>3. /\ \A i \in 1 .. Len(channel') :
             m \in channel'[i]
               <=> <<"channel", k>> = <<"channel", i>>
        /\ k \in 1 .. Len(channel')
        /\ m \in channel'[k]
    BY <1>a, <1>1, <2>1, <2>2, <2>k, ChannelGrows
  <2>4. \A d \in Core : m \notin transmit_q'[d]
    BY <1>1, <2>1 DEF At, TypeOK, TxChannel
  <2>5. UNCHANGED <<free, rxring, batch, drop_q, txring, kni_ptrs, kernel>>
    BY <2>2 DEF TxChannel
  <2>6. At(m, <<"channel", k>>)'
    BY <2>1, <2>3, <2>4, <2>5 DEF At, Somewhere
  <2> QED BY <2>6
<1>2. CASE m \in transmit_q[c] /\ receiver = "closed"
  <2>1. At(m, <<"free", Home[x]>>)'
    BY <1>2, <1>0, ConstantsAssumption
       DEF At, Somewhere, TypeOK, TxChannel, FreeBulk, kni
  <2> QED BY <2>1
<1>3. CASE m \notin transmit_q[c]
  <2>1. \A i \in 1 .. Len(channel') : m \in channel'[i] <=> h = <<"channel", i>>
    <3>1. CASE receiver = "open"
      BY <1>a, <1>3, <3>1, ChannelGrows DEF TxChannel
    <3>2. CASE receiver = "closed"
      BY <3>2 DEF TxChannel, At
    <3> QED BY <3>1, <3>2 DEF TypeOK
  <2>2. \A p \in Pool : m \in free'[p] <=> m \in free[p]
    BY <1>a, <1>3, ConstantsAssumption DEF TxChannel, FreeBulk, TypeOK
  <2>3. (\E i \in 1 .. Len(channel) : m \in channel[i])
          => \E i \in 1 .. Len(channel') : m \in channel'[i]
    BY <1>a, <1>3, ChannelGrows DEF TxChannel
  <2>4. At(m, h)'
    BY <1>3, <2>1, <2>2, <2>3 DEF At, Somewhere, TypeOK, TxChannel
  <2> QED BY <2>4
<1> QED BY <1>1, <1>2, <1>3 DEF TypeOK

\* The drop queue is freed.
LEMMA ReapLocated ==
  ASSUME TypeOK, Located, NEW c \in Core, Reap(c)
  PROVE  Located'
<1> SUFFICES ASSUME NEW m \in Mbuf, NEW h, At(m, h)
             PROVE  \E g : At(m, g)'
  BY DEF Located
<1>1. CASE drop_q[c] = {}
  <2>1. free' = free /\ drop_q' = drop_q
    BY <1>1 DEF Reap, TypeOK
  <2>2. At(m, h)'
    BY <2>1 DEF At, Somewhere, Reap, kni
  <2> QED BY <2>2
<1>2. CASE drop_q[c] # {}
  <2>1. PICK x \in drop_q[c] : free' = FreeBulk(drop_q[c], x)
    BY <1>2 DEF Reap
  <2>2. CASE m \in drop_q[c]
    <3>1. At(m, <<"free", Home[x]>>)'
      BY <2>1, <2>2, ConstantsAssumption
         DEF At, Somewhere, TypeOK, Reap, FreeBulk, kni
    <3> QED BY <3>1
  <2>3. CASE m \notin drop_q[c]
    <3>1. At(m, h)'
      BY <2>1, <2>3, ConstantsAssumption
         DEF At, Somewhere, TypeOK, Reap, FreeBulk, kni
    <3> QED BY <3>1
  <2> QED BY <2>2, <2>3
<1> QED BY <1>1, <1>2

\* The oldest batch leaves the channel.
LEMMA KniTakeLocated ==
  ASSUME TypeOK, Located, KniTake
  PROVE  Located'
<1> SUFFICES ASSUME NEW m \in Mbuf, NEW h, At(m, h)
             PROVE  \E g : At(m, g)'
  BY DEF Located
<1>0. /\ Len(channel) \in Nat \ {0}
      /\ kni_ptrs' = channel[1] /\ kni_ptrs = {}
      /\ Len(channel') = Len(channel) - 1
      /\ \A i \in 1 .. Len(channel) - 1 : channel'[i] = channel[i + 1]
  <2>1. channel \in Seq(SUBSET Mbuf) /\ channel # <<>>
    BY DEF KniTake, TypeOK
  <2>2. QED
    BY <2>1, TailFacts DEF KniTake, KniRuns
<1>u. UNCHANGED <<free, rxring, task, txring, receiver, kernel>>
  BY DEF KniTake
<1>1. CASE m \in channel[1]
  <2>1. At(m, <<"kni_ptrs", 0>>)'
    BY <1>0, <1>u, <1>1 DEF At, Somewhere, task
  <2> QED BY <2>1
<1>2. ASSUME NEW k \in 2 .. Len(channel), m \in channel[k]
      PROVE  \E g : At(m, g)'
  <2>1. h = <<"channel", k>>
    BY <1>0, <1>2 DEF At
  <2>2. k - 1 \in 1 .. Len(channel') /\ m \in channel'[k - 1]
    BY <1>0, <1>2
  <2>3. \A i \in 1 .. Len(channel') :
          m \in channel'[i] <=> <<"channel", k - 1>> = <<"channel", i>>
    BY <1>0, <2>1 DEF At
  <2>4. m \notin kni_ptrs'
    BY <1>0, <2>1 DEF At
  <2>5. At(m, <<"channel", k - 1>>)'
    BY <1>u, <2>1, <2>2, <2>3, <2>4 DEF At, Somewhere, task
  <2> QED BY <2>5
<1>3. CASE \A i \in 1 .. Len(channel) : m \notin channel[i]
  <2>1. \A i \in 1 .. Len(channel) : h # <<"channel", i>>
    BY <1>3 DEF At
  <2>2. \A i \in 1 .. Len(channel') :
          m \notin channel'[i] /\ h # <<"channel", i>>
    BY <1>0, <1>3, <2>1
  <2>3. m \notin kni_ptrs' /\ m \notin kni_ptrs
    BY <1>0, <1>3
  <2>4. At(m, h)'
    BY <1>u, <1>3, <2>2, <2>3 DEF At, Somewhere, task
  <2> QED BY <2>4
<1> QED BY <1>0, <1>1, <1>2, <1>3

\* The kernel takes a part of the batch.
LEMMA KniBurstLocated ==
  ASSUME TypeOK, Located, NEW S \in SUBSET kni_ptrs, KniBurst(S)
  PROVE  Located'
<1> SUFFICES ASSUME NEW m \in Mbuf, NEW h, At(m, h)
             PROVE  \E g : At(m, g)'
  BY DEF Located
<1>1. CASE m \in S
  <2>1. At(m, <<"kernel", 0>>)'
    BY <1>1, ConstantsAssumption
       DEF At, Somewhere, TypeOK, KniBurst, task
  <2> QED BY <2>1
<1>2. CASE m \notin S
  <2>1. At(m, h)'
    BY <1>2, ConstantsAssumption
       DEF At, Somewhere, TypeOK, KniBurst, task
  <2> QED BY <2>1
<1> QED BY <1>1, <1>2

\* What the kernel does not take is freed.
LEMMA KniGiveUpLocated ==
  ASSUME TypeOK, Located, KniGiveUp
  PROVE  Located'
<1> SUFFICES ASSUME NEW m \in Mbuf, NEW h, At(m, h)
             PROVE  \E g : At(m, g)'
  BY DEF Located
<1>0. PICK x \in kni_ptrs : free' = FreeBulk(kni_ptrs, x)
  BY DEF KniGiveUp
<1>1. CASE m \in kni_ptrs
  <2>1. At(m, <<"free", Home[x]>>)'
    BY <1>1, <1>0, ConstantsAssumption
       DEF At, Somewhere, TypeOK, KniGiveUp, FreeBulk, task
  <2> QED BY <2>1
<1>2. CASE m \notin kni_ptrs
  <2>1. At(m, h)'
    BY <1>2, <1>0, ConstantsAssumption
       DEF At, Somewhere, TypeOK, KniGiveUp, FreeBulk, task
  <2> QED BY <2>1
<1> QED BY <1>1, <1>2

\* The end of a core empties the channel it received from.
LEMMA CoreStopLocated ==
  ASSUME TypeOK, Located, NEW c \in Core, CoreStop(c)
  PROVE  Located'
<1> SUFFICES ASSUME NEW m \in Mbuf, NEW h, At(m, h)
             PROVE  \E g : At(m, g)'
  BY DEF Located
<1>1. CASE c = KniCore /\ m \in UNION {channel[i] : i \in DOMAIN channel}
  <2>1. At(m, <<"free", Home[m]>>)'
    BY <1>1, ConstantsAssumption
       DEF At, Somewhere, TypeOK, CoreStop, FreeEach
  <2> QED BY <2>1
<1>2. CASE c = KniCore /\ m \notin UNION {channel[i] : i \in DOMAIN channel}
  <2>1. At(m, h)'
    BY <1>2, ConstantsAssumption
       DEF At, Somewhere, TypeOK, CoreStop, FreeEach
  <2> QED BY <2>1
<1>3. CASE c # KniCore
  <2>1. At(m, h)'
    BY <1>3, ConstantsAssumption
       DEF At, Somewhere, TypeOK, CoreStop, FreeEach
  <2> QED BY <2>1
<1> QED BY <1>1, <1>2, <1>3

-----------------------------------------------------------------------------
(* What the tasks hold, and the end of the channel *)

TaskInv == HoldsByPhase /\ ClosedChannelIsEmpty

\* No step breaks what a task holds in each phase.
LEMMA TaskStep == TypeOK /\ TaskInv /\ [Next]_vars => TaskInv'
<1> SUFFICES ASSUME TypeOK, TaskInv, [Next]_vars PROVE TaskInv'
  OBVIOUS
<1> USE DEF TypeOK, TaskInv, Phase, task, kni, KniRuns
<1>1. ASSUME NEW c \in Core, NicReceive(c)
      PROVE  TaskInv'
  BY <1>1 DEF NicReceive, HoldsByPhase, SendRuns, ClosedChannelIsEmpty
<1>2. ASSUME NEW c \in Core, NicTransmit(c)
      PROVE  TaskInv'
  BY <1>2 DEF NicTransmit, HoldsByPhase, SendRuns, ClosedChannelIsEmpty
<1>3. ASSUME NEW c \in Core, NEW S \in SUBSET rxring[c], Receive(c, S)
      PROVE  TaskInv'
  BY <1>3 DEF Receive, HoldsByPhase, SendRuns, ClosedChannelIsEmpty
<1>4. ASSUME NEW c \in Core, NEW m \in batch[c], Act(c, m)
      PROVE  TaskInv'
  BY <1>4 DEF Act, HoldsByPhase, SendRuns, ClosedChannelIsEmpty
<1>5. ASSUME NEW c \in Core, NEW m \in batch[c], Drop(c, m)
      PROVE  TaskInv'
  BY <1>5 DEF Drop, HoldsByPhase, SendRuns, ClosedChannelIsEmpty
<1>6. ASSUME NEW c \in Core, NEW m \in batch[c], Abort(c, m)
      PROVE  TaskInv'
  BY <1>6 DEF Abort, HoldsByPhase, SendRuns, ClosedChannelIsEmpty
<1>7. ASSUME NEW c \in Core, NEW m \in batch[c], Emit(c, m)
      PROVE  TaskInv'
  BY <1>7 DEF Emit, HoldsByPhase, SendRuns, ClosedChannelIsEmpty
<1>8. ASSUME NEW c \in Core, NEW m \in batch[c], NEW n \in free[CorePool[c]],
             Replace(c, m, n)
      PROVE  TaskInv'
  BY <1>8 DEF Replace, HoldsByPhase, SendRuns, ClosedChannelIsEmpty
<1>9. ASSUME NEW c \in Core, EndPull(c)
      PROVE  TaskInv'
  BY <1>9 DEF EndPull, HoldsByPhase, SendRuns, ClosedChannelIsEmpty
<1>10. ASSUME NEW c \in Core, NEW S \in SUBSET transmit_q[c],
             TxBurst(c, S)
      PROVE  TaskInv'
  BY <1>10 DEF TxBurst, HoldsByPhase, SendRuns, ClosedChannelIsEmpty
<1>11. ASSUME NEW c \in Core, TxGiveUp(c)
      PROVE  TaskInv'
  BY <1>11 DEF TxGiveUp, HoldsByPhase, SendRuns, ClosedChannelIsEmpty
<1>12. ASSUME NEW c \in Core, TxChannel(c)
      PROVE  TaskInv'
  BY <1>12 DEF TxChannel, HoldsByPhase, SendRuns, ClosedChannelIsEmpty
<1>13. ASSUME NEW c \in Core, Reap(c)
      PROVE  TaskInv'
  BY <1>13 DEF Reap, HoldsByPhase, SendRuns, ClosedChannelIsEmpty
<1>14. ASSUME NEW c \in Core, CoreStop(c)
      PROVE  TaskInv'
  BY <1>14 DEF CoreStop, HoldsByPhase, SendRuns, ClosedChannelIsEmpty
<1>15. CASE KernelConsume
  BY <1>15 DEF KernelConsume, HoldsByPhase, SendRuns, ClosedChannelIsEmpty
<1>16. CASE KniTake
  BY <1>16 DEF KniTake, HoldsByPhase, SendRuns, ClosedChannelIsEmpty
<1>17. ASSUME NEW S \in SUBSET kni_ptrs, KniBurst(S)
      PROVE  TaskInv'
  BY <1>17 DEF KniBurst, HoldsByPhase, SendRuns, ClosedChannelIsEmpty
<1>18. CASE KniGiveUp
  BY <1>18 DEF KniGiveUp, HoldsByPhase, SendRuns, ClosedChannelIsEmpty
<1>19. CASE UNCHANGED vars
  BY <1>19 DEF vars, HoldsByPhase, SendRuns, ClosedChannelIsEmpty
<1>20. QED
  BY <1>1, <1>2, <1>3, <1>4, <1>5, <1>6, <1>7, <1>8, <1>9, <1>10,
     <1>11, <1>12, <1>13, <1>14, <1>15, <1>16, <1>17, <1>18, <1>19
     DEF Next, Run, KniTx

(***************************************************************************)
(* What the tasks and the KNI channel hold goes by the phase of the tasks  *)
(* and by the receiver: the two conjuncts are one induction.               *)
(***************************************************************************)
LEMMA TasksHold == Spec => []TaskInv
<1>1. Init => TaskInv
  BY DEF Init, TaskInv, HoldsByPhase, ClosedChannelIsEmpty
<1>2. TypeOK /\ TaskInv /\ [Next]_vars => TaskInv'
  BY TaskStep
<1>3. QED
  BY <1>1, <1>2, TypeCorrect, PTL DEF Spec

(***************************************************************************)
(* No pipeline task holds a packet between two runs, and a core that was   *)
(* stopped holds none: Send::run and KniTx (batch/send.rs, kni.rs) empty   *)
(* their vectors on every way out.                                         *)
(***************************************************************************)
THEOREM TasksHoldByPhase == Spec => []HoldsByPhase
BY TasksHold, PTL DEF TaskInv

(***************************************************************************)
(* When the receiver of the KNI channel is dropped with its core, nothing  *)
(* is left on the channel or with KniTx, and nothing another core sends    *)
(* later gets stuck there.                                                 *)
(***************************************************************************)
THEOREM NothingBehindClosedChannel == Spec => []ClosedChannelIsEmpty
BY TasksHold, PTL DEF TaskInv

-----------------------------------------------------------------------------
(* The bound on a batch *)

\* What a run counts is finite.
LEMMA CoreSetsFinite ==
  ASSUME TypeOK, NEW c \in Core
  PROVE  /\ IsFiniteSet(batch[c] \union transmit_q[c])
         /\ Cardinality(batch[c] \union transmit_q[c]) \in Nat
BY ConstantsAssumption, FS_Subset, FS_CardinalityType DEF TypeOK

\* A step that moves packets between the two queues keeps the bound.
LEMMA BurstShrinks ==
  ASSUME TypeOK, BurstBound,
         \A d \in Core : batch'[d] \union transmit_q'[d]
                           \subseteq batch[d] \union transmit_q[d]
  PROVE  BurstBound'
<1> SUFFICES ASSUME NEW d \in Core
             PROVE  Cardinality(batch'[d] \union transmit_q'[d]) <= BurstMax
  BY DEF BurstBound
<1>1. /\ IsFiniteSet(batch'[d] \union transmit_q'[d])
      /\ Cardinality(batch'[d] \union transmit_q'[d])
           <= Cardinality(batch[d] \union transmit_q[d])
  BY CoreSetsFinite, FS_Subset
<1>2. Cardinality(batch'[d] \union transmit_q'[d]) \in Nat
  BY <1>1, FS_CardinalityType
<1>3. QED
  BY <1>1, <1>2, CoreSetsFinite, ConstantsAssumption DEF BurstBound

\* A run begins with a burst and nothing else.
LEMMA BurstReceive ==
  ASSUME TypeOK, TaskInv, BurstBound, NEW c \in Core,
         NEW S \in SUBSET rxring[c], Receive(c, S)
  PROVE  BurstBound'
<1>1. batch'[c] \union transmit_q'[c] = S
  BY DEF Receive, TypeOK, TaskInv, HoldsByPhase
<1>2. \A d \in Core \ {c} : /\ batch'[d] = batch[d]
                            /\ transmit_q'[d] = transmit_q[d]
  BY DEF Receive, TypeOK
<1>3. QED
  BY <1>1, <1>2 DEF Receive, BurstBound

\* The replacement takes the place of the original: the batch does not grow.
LEMMA BurstReplace ==
  ASSUME TypeOK, Located, BurstBound, NEW c \in Core, NEW x \in batch[c],
         NEW n \in free[CorePool[c]], Replace(c, x, n)
  PROVE  BurstBound'
<1> DEFINE U == batch[c] \union transmit_q[c]
<1>1. x \notin transmit_q[c]
  <2>1. x \in Mbuf
    BY DEF TypeOK
  <2>2. PICK k : At(x, k)
    BY <2>1 DEF Located
  <2>3. x \in transmit_q[c] => k = <<"batch", c>> /\ k = <<"transmit_q", c>>
    BY <2>2 DEF At
  <2>4. QED
    BY <2>3
<1>2. batch'[c] \union transmit_q'[c] = (U \ {x}) \union {n}
  BY <1>1 DEF Replace, TypeOK
<1>3. /\ IsFiniteSet(U) /\ Cardinality(U) \in Nat /\ Cardinality(U) <= BurstMax
  BY CoreSetsFinite DEF BurstBound
<1>4. /\ IsFiniteSet(U \ {x})
      /\ Cardinality(U \ {x}) = Cardinality(U) - 1
  BY <1>3, FS_RemoveElement
<1>5. Cardinality((U \ {x}) \union {n}) <= Cardinality(U)
  <2>1. Cardinality((U \ {x}) \union {n})
          = IF n \in U \ {x} THEN Cardinality(U \ {x})
                             ELSE Cardinality(U \ {x}) + 1
    BY <1>4, FS_AddElement
  <2>2. QED
    BY <2>1, <1>3, <1>4
<1>6. Cardinality((U \ {x}) \union {n}) \in Nat
  BY <1>4, FS_AddElement, FS_CardinalityType
<1>7. \A d \in Core \ {c} : /\ batch'[d] = batch[d]
                            /\ transmit_q'[d] = transmit_q[d]
  BY DEF Replace, TypeOK
<1>8. Cardinality(batch'[c] \union transmit_q'[c]) <= BurstMax
  <2>1. Cardinality(U) \in Nat /\ Cardinality(U) <= BurstMax
    BY <1>3
  <2>2. BurstMax \in Nat
    BY ConstantsAssumption
  <2>3. Cardinality((U \ {x}) \union {n}) <= BurstMax
    <3> HIDE DEF U
    <3> QED BY <1>5, <1>6, <2>1, <2>2
  <2>4. QED
    BY <1>2, <2>3
<1>9. QED
  BY <1>7, <1>8 DEF BurstBound

\* No step breaks the bound.
LEMMA BurstStep ==
  ASSUME TypeOK, TaskInv, Located, BurstBound, [Next]_vars
  PROVE  BurstBound'
<1>1. ASSUME NEW c \in Core, NicReceive(c)
      PROVE  BurstBound'
  BY <1>1 DEF NicReceive, task, BurstBound
<1>2. ASSUME NEW c \in Core, NicTransmit(c)
      PROVE  BurstBound'
  BY <1>2 DEF NicTransmit, task, BurstBound
<1>3. ASSUME NEW c \in Core, NEW S \in SUBSET rxring[c], Receive(c, S)
      PROVE  BurstBound'
  BY <1>3, BurstReceive
<1>4. ASSUME NEW c \in Core, NEW m \in batch[c], Act(c, m)
      PROVE  BurstBound'
  <2>1. \A d \in Core : batch'[d] \union transmit_q'[d]
                       \subseteq batch[d] \union transmit_q[d]
    BY <1>4 DEF Act, TypeOK
  <2>2. QED
    BY <2>1, BurstShrinks
<1>5. ASSUME NEW c \in Core, NEW m \in batch[c], Drop(c, m)
      PROVE  BurstBound'
  <2>1. \A d \in Core : batch'[d] \union transmit_q'[d]
                       \subseteq batch[d] \union transmit_q[d]
    BY <1>5 DEF Drop, TypeOK
  <2>2. QED
    BY <2>1, BurstShrinks
<1>6. ASSUME NEW c \in Core, NEW m \in batch[c], Abort(c, m)
      PROVE  BurstBound'
  <2>1. \A d \in Core : batch'[d] \union transmit_q'[d]
                       \subseteq batch[d] \union transmit_q[d]
    BY <1>6 DEF Abort, TypeOK
  <2>2. QED
    BY <2>1, BurstShrinks
<1>7. ASSUME NEW c \in Core, NEW m \in batch[c], Emit(c, m)
      PROVE  BurstBound'
  <2>1. \A d \in Core : batch'[d] \union transmit_q'[d]
                       \subseteq batch[d] \union transmit_q[d]
    BY <1>7 DEF Emit, TypeOK
  <2>2. QED
    BY <2>1, BurstShrinks
<1>8. ASSUME NEW c \in Core, NEW m \in batch[c], NEW n \in free[CorePool[c]],
             Replace(c, m, n)
      PROVE  BurstBound'
  BY <1>8, BurstReplace DEF TypeOK
<1>9. ASSUME NEW c \in Core, EndPull(c)
      PROVE  BurstBound'
  BY <1>9 DEF EndPull, task, BurstBound
<1>10. ASSUME NEW c \in Core, NEW S \in SUBSET transmit_q[c],
             TxBurst(c, S)
      PROVE  BurstBound'
  <2>1. \A d \in Core : batch'[d] \union transmit_q'[d]
                       \subseteq batch[d] \union transmit_q[d]
    BY <1>10 DEF TxBurst, TypeOK
  <2>2. QED
    BY <2>1, BurstShrinks
<1>11. ASSUME NEW c \in Core, TxGiveUp(c)
      PROVE  BurstBound'
  <2>1. \A d \in Core : batch'[d] \union transmit_q'[d]
                       \subseteq batch[d] \union transmit_q[d]
    BY <1>11 DEF TxGiveUp, TypeOK
  <2>2. QED
    BY <2>1, BurstShrinks
<1>12. ASSUME NEW c \in Core, TxChannel(c)
      PROVE  BurstBound'
  <2>1. \A d \in Core : batch'[d] \union transmit_q'[d]
                       \subseteq batch[d] \union transmit_q[d]
    BY <1>12 DEF TxChannel, TypeOK
  <2>2. QED
    BY <2>1, BurstShrinks
<1>13. ASSUME NEW c \in Core, Reap(c)
      PROVE  BurstBound'
  BY <1>13 DEF Reap, task, BurstBound
<1>14. ASSUME NEW c \in Core, CoreStop(c)
      PROVE  BurstBound'
  BY <1>14 DEF CoreStop, task, BurstBound
<1>15. CASE KernelConsume
  BY <1>15 DEF KernelConsume, task, BurstBound
<1>16. CASE KniTake
  BY <1>16 DEF KniTake, task, BurstBound
<1>17. ASSUME NEW S \in SUBSET kni_ptrs, KniBurst(S)
      PROVE  BurstBound'
  BY <1>17 DEF KniBurst, task, BurstBound
<1>18. CASE KniGiveUp
  BY <1>18 DEF KniGiveUp, task, BurstBound
<1>19. CASE UNCHANGED vars
  BY <1>19 DEF vars, task, BurstBound
<1>20. QED
  BY <1>1, <1>2, <1>3, <1>4, <1>5, <1>6, <1>7, <1>8, <1>9, <1>10,
     <1>11, <1>12, <1>13, <1>14, <1>15, <1>16, <1>17, <1>18, <1>19
     DEF Next, Run, KniTx

\* No step loses or copies a buffer.
LEMMA LocatedStep ==
  ASSUME TypeOK, TaskInv, Located, BurstBound, BurstMax < U16, [Next]_vars
  PROVE  Located'
<1>0. HoldsByPhase
  BY DEF TaskInv
<1>1. ASSUME NEW c \in Core, NicReceive(c)
      PROVE  Located'
  BY <1>1, NicReceiveLocated
<1>2. ASSUME NEW c \in Core, NicTransmit(c)
      PROVE  Located'
  BY <1>2, NicTransmitLocated
<1>3. ASSUME NEW c \in Core, NEW S \in SUBSET rxring[c], Receive(c, S)
      PROVE  Located'
  BY <1>3, <1>0, ReceiveLocated
<1>4. ASSUME NEW c \in Core, NEW m \in batch[c], Act(c, m)
      PROVE  Located'
  BY <1>4, ActLocated
<1>5. ASSUME NEW c \in Core, NEW m \in batch[c], Drop(c, m)
      PROVE  Located'
  BY <1>5, DropLocated
<1>6. ASSUME NEW c \in Core, NEW m \in batch[c], Abort(c, m)
      PROVE  Located'
  BY <1>6, AbortLocated
<1>7. ASSUME NEW c \in Core, NEW m \in batch[c], Emit(c, m)
      PROVE  Located'
  BY <1>7, EmitLocated
<1>8. ASSUME NEW c \in Core, NEW m \in batch[c], NEW n \in free[CorePool[c]],
             Replace(c, m, n)
      PROVE  Located'
  BY <1>8, ReplaceLocated
<1>9. ASSUME NEW c \in Core, EndPull(c)
      PROVE  Located'
  BY <1>9, EndPullLocated
<1>10. ASSUME NEW c \in Core, NEW S \in SUBSET transmit_q[c],
             TxBurst(c, S)
      PROVE  Located'
  BY <1>10, TxBurstLocated
<1>11. ASSUME NEW c \in Core, TxGiveUp(c)
      PROVE  Located'
  BY <1>11, TxGiveUpLocated
<1>12. ASSUME NEW c \in Core, TxChannel(c)
      PROVE  Located'
  BY <1>12, TxChannelLocated
<1>13. ASSUME NEW c \in Core, Reap(c)
      PROVE  Located'
  BY <1>13, ReapLocated
<1>14. ASSUME NEW c \in Core, CoreStop(c)
      PROVE  Located'
  BY <1>14, CoreStopLocated
<1>15. CASE KernelConsume
  BY <1>15, KernelConsumeLocated
<1>16. CASE KniTake
  BY <1>16, KniTakeLocated
<1>17. ASSUME NEW S \in SUBSET kni_ptrs, KniBurst(S)
      PROVE  Located'
  BY <1>17, KniBurstLocated
<1>18. CASE KniGiveUp
  BY <1>18, KniGiveUpLocated
<1>19. CASE UNCHANGED vars
  BY <1>19 DEF vars, Located, At, Somewhere
<1>20. QED
  BY <1>1, <1>2, <1>3, <1>4, <1>5, <1>6, <1>7, <1>8, <1>9, <1>10,
     <1>11, <1>12, <1>13, <1>14, <1>15, <1>16, <1>17, <1>18, <1>19
     DEF Next, Run, KniTx

(***************************************************************************)
(* The invariant is Conservation together with what a step needs to keep   *)
(* it: a run starts on empty queues, and the count of the transmit loop    *)
(* does not wrap around.                                                   *)
(***************************************************************************)
IInv == TypeOK /\ TaskInv /\ Conservation /\ BurstBound

(***************************************************************************)
(* The induction behind the two theorems that follow: conservation needs   *)
(* the bound on a burst, for the count of the transmit loop, and the bound *)
(* needs conservation, for a packet that replaces another is not in the    *)
(* batch yet.                                                              *)
(***************************************************************************)
LEMMA InvariantHolds ==
  ASSUME BurstMax < U16
  PROVE  Spec => []IInv
<1>1. Init => IInv
  <2> SUFFICES ASSUME Init PROVE IInv
    OBVIOUS
  <2>1. TypeOK
    BY ConstantsAssumption DEF Init, TypeOK, Phase
  <2>2. TaskInv
    BY DEF Init, TaskInv, HoldsByPhase, ClosedChannelIsEmpty
  <2>3. BurstBound
    BY FS_EmptySet, ConstantsAssumption DEF Init, BurstBound
  <2>4. ASSUME NEW m \in Mbuf PROVE At(m, <<"free", Home[m]>>)
    BY ConstantsAssumption DEF Init, At, Somewhere
  <2>5. Conservation
    BY <2>1, <2>4, LocatedConserves DEF Located
  <2>6. QED
    BY <2>1, <2>2, <2>3, <2>5 DEF IInv
<1>2. IInv /\ TypeOK' /\ [Next]_vars => IInv'
  <2> SUFFICES ASSUME IInv, TypeOK', [Next]_vars PROVE IInv'
    OBVIOUS
  <2>1. Located
    BY LocatedConserves DEF IInv
  <2>2. Located'
    BY <2>1, LocatedStep DEF IInv
  <2>3. Conservation'
    <3>1. TypeOK' => (Located' <=> Conservation')
      BY LocatedConserves, PTL
    <3>2. QED
      BY <2>2, <3>1
  <2>4. BurstBound' /\ TaskInv'
    BY <2>1, BurstStep, TaskStep DEF IInv
  <2>5. QED
    BY <2>3, <2>4 DEF IInv
<1>3. QED
  BY <1>1, <1>2, TypeCorrect, PTL DEF Spec

(***************************************************************************)
(* No interleaving of the cores, the driver, the kernel task and core      *)
(* shutdowns loses a packet buffer or gives it two owners, as long as no   *)
(* receiver hands out a batch of 2^16 packets or more.                     *)
(***************************************************************************)
THEOREM BuffersConserved ==
  ASSUME BurstMax < U16
  PROVE  Spec => []Conservation
BY InvariantHolds, PTL DEF IInv

(***************************************************************************)
(* What PortQueue::transmit is handed is bounded by the receive burst,     *)
(* packets that replace others included, so that its u16 count is exact.   *)
(***************************************************************************)
THEOREM BurstsBounded ==
  ASSUME BurstMax < U16
  PROVE  Spec => []BurstBound
BY InvariantHolds, PTL DEF IInv

-----------------------------------------------------------------------------
(* Every transmit has a packet, and every buffer goes home *)

\* What holds of the batches of a channel and of a new one holds after Append.
LEMMA AppendEach ==
  ASSUME NEW T, NEW s \in Seq(T), NEW e \in T, NEW t,
         t = s \/ t = Append(s, e)
  PROVE  /\ DOMAIN s = 1 .. Len(s)
         /\ DOMAIN t = 1 .. Len(t)
         /\ \A i \in 1 .. Len(t) :
              (i \in 1 .. Len(s) /\ t[i] = s[i]) \/ t[i] = e
<1>1. Len(s) \in Nat /\ DOMAIN s = 1 .. Len(s)
  OBVIOUS
<1>2. CASE t = s
  BY <1>1, <1>2
<1>3. CASE t = Append(s, e)
  <2>1. /\ Len(t) = Len(s) + 1
        /\ t[Len(s) + 1] = e
        /\ \A j \in 1 .. Len(s) : t[j] = s[j]
    BY <1>3, AppendFacts
  <2>2. DOMAIN t = 1 .. Len(t)
    BY <1>3
  <2>3. \A i \in 1 .. Len(t) : i \in 1 .. Len(s) \/ i = Len(s) + 1
    BY <1>1, <2>1
  <2>4. QED
    BY <1>1, <2>1, <2>2, <2>3
<1>4. QED
  BY <1>2, <1>3

\* The same of the channel, whether or not the receiver took the batch.
LEMMA ChannelAfterSend ==
  ASSUME channel \in Seq(SUBSET Mbuf), NEW CONSTANT S \in SUBSET Mbuf,
         channel' = channel \/ channel' = Append(channel, S)
  PROVE  /\ DOMAIN channel = 1 .. Len(channel)
         /\ DOMAIN channel' = 1 .. Len(channel')
         /\ \A i \in 1 .. Len(channel') :
              \/ i \in 1 .. Len(channel) /\ channel'[i] = channel[i]
              \/ channel'[i] = S
BY AppendEach

\* A count that wraps is not larger than the count.
LEMMA RemainderBound ==
  ASSUME NEW n \in Nat, NEW k \in Nat \ {0}
  PROVE  n % k \in Nat /\ n % k <= n
OBVIOUS

\* No step leaves a transmit loop with nothing to send.
LEMMA NonEmptyStep ==
  ASSUME TypeOK, NeverTransmitsNothing, [Next]_vars
  PROVE  NeverTransmitsNothing'
<1> USE DEF TypeOK, task, kni
<1>1. ASSUME NEW c \in Core, NicReceive(c)
      PROVE  NeverTransmitsNothing'
  BY <1>1 DEF NicReceive, NeverTransmitsNothing
<1>2. ASSUME NEW c \in Core, NicTransmit(c)
      PROVE  NeverTransmitsNothing'
  BY <1>2 DEF NicTransmit, NeverTransmitsNothing
<1>3. ASSUME NEW c \in Core, NEW S \in SUBSET rxring[c], Receive(c, S)
      PROVE  NeverTransmitsNothing'
  BY <1>3 DEF Receive, NeverTransmitsNothing
<1>4. ASSUME NEW c \in Core, NEW m \in batch[c], Act(c, m)
      PROVE  NeverTransmitsNothing'
  BY <1>4 DEF Act, NeverTransmitsNothing
<1>5. ASSUME NEW c \in Core, NEW m \in batch[c], Drop(c, m)
      PROVE  NeverTransmitsNothing'
  BY <1>5 DEF Drop, NeverTransmitsNothing
<1>6. ASSUME NEW c \in Core, NEW m \in batch[c], Abort(c, m)
      PROVE  NeverTransmitsNothing'
  BY <1>6 DEF Abort, NeverTransmitsNothing
<1>7. ASSUME NEW c \in Core, NEW m \in batch[c], Emit(c, m)
      PROVE  NeverTransmitsNothing'
  <2>1. /\ {m} \in SUBSET Mbuf /\ {m} # {}
        /\ channel \in Seq(SUBSET Mbuf)
        /\ channel' = channel \/ channel' = Append(channel, {m})
    BY <1>7 DEF Emit
  <2>2. /\ DOMAIN channel = 1 .. Len(channel)
        /\ DOMAIN channel' = 1 .. Len(channel')
        /\ \A i \in 1 .. Len(channel') :
             \/ i \in 1 .. Len(channel) /\ channel'[i] = channel[i]
             \/ channel'[i] = {m}
    BY <2>1, ChannelAfterSend, Zenon
  <2>3. \A i \in 1 .. Len(channel) : channel[i] # {}
    BY <2>2 DEF NeverTransmitsNothing
  <2>4. \A i \in 1 .. Len(channel') : channel'[i] # {}
    BY <2>1, <2>2, <2>3
  <2>5. QED
    BY <1>7, <2>2, <2>4 DEF Emit, NeverTransmitsNothing
<1>8. ASSUME NEW c \in Core, NEW m \in batch[c], NEW n \in free[CorePool[c]],
             Replace(c, m, n)
      PROVE  NeverTransmitsNothing'
  BY <1>8 DEF Replace, NeverTransmitsNothing
<1>9. ASSUME NEW c \in Core, EndPull(c)
      PROVE  NeverTransmitsNothing'
  BY <1>9 DEF EndPull, NeverTransmitsNothing
<1>10. ASSUME NEW c \in Core, NEW S \in SUBSET transmit_q[c],
             TxBurst(c, S)
      PROVE  NeverTransmitsNothing'
  <2>1. IsFiniteSet(transmit_q[c]) /\ Cardinality(transmit_q[c]) \in Nat
    BY ConstantsAssumption, FS_Subset, FS_CardinalityType
  <2>2. ToSend(transmit_q[c]) <= Cardinality(transmit_q[c])
    BY <2>1, ConstantsAssumption, RemainderBound DEF ToSend
  <2>3. Cardinality(S) \in Nat /\ ToSend(transmit_q[c]) \in Nat
    BY <2>1, FS_Subset, FS_CardinalityType, ConstantsAssumption DEF ToSend
  <2>4. Cardinality(S) < ToSend(transmit_q[c]) => transmit_q[c] \ S # {}
    <3>1. transmit_q[c] \ S = {} => S = transmit_q[c]
      OBVIOUS
    <3>2. QED
      BY <2>1, <2>2, <2>3, <3>1
  <2>5. QED
    BY <1>10, <2>4 DEF TxBurst, NeverTransmitsNothing
<1>11. ASSUME NEW c \in Core, TxGiveUp(c)
      PROVE  NeverTransmitsNothing'
  BY <1>11 DEF TxGiveUp, NeverTransmitsNothing
<1>12. ASSUME NEW c \in Core, TxChannel(c)
      PROVE  NeverTransmitsNothing'
  <2>0. PICK S \in SUBSET Mbuf : S = transmit_q[c]
    OBVIOUS
  <2>1. /\ S # {} /\ channel \in Seq(SUBSET Mbuf)
        /\ channel' = channel \/ channel' = Append(channel, S)
    BY <1>12, <2>0 DEF TxChannel
  <2>2. /\ DOMAIN channel = 1 .. Len(channel)
        /\ DOMAIN channel' = 1 .. Len(channel')
        /\ \A i \in 1 .. Len(channel') :
             \/ i \in 1 .. Len(channel) /\ channel'[i] = channel[i]
             \/ channel'[i] = S
    BY <2>0, <2>1, ChannelAfterSend, Zenon
  <2>3. \A i \in 1 .. Len(channel) : channel[i] # {}
    BY <2>2 DEF NeverTransmitsNothing
  <2>4. \A i \in 1 .. Len(channel') : channel'[i] # {}
    BY <2>1, <2>2, <2>3
  <2>5. QED
    BY <1>12, <2>2, <2>4 DEF TxChannel, NeverTransmitsNothing
<1>13. ASSUME NEW c \in Core, Reap(c)
      PROVE  NeverTransmitsNothing'
  BY <1>13 DEF Reap, NeverTransmitsNothing
<1>14. ASSUME NEW c \in Core, CoreStop(c)
      PROVE  NeverTransmitsNothing'
  BY <1>14 DEF CoreStop, NeverTransmitsNothing
<1>15. CASE KernelConsume
  BY <1>15 DEF KernelConsume, NeverTransmitsNothing
<1>16. CASE KniTake
  <2>1. /\ Len(channel) \in Nat \ {0}
        /\ DOMAIN channel' = 1 .. Len(channel) - 1
        /\ \A i \in 1 .. Len(channel) - 1 : channel'[i] = channel[i + 1]
    BY <1>16, TailFacts DEF KniTake
  <2>2. QED
    BY <1>16, <2>1 DEF KniTake, NeverTransmitsNothing
<1>17. ASSUME NEW S \in SUBSET kni_ptrs, KniBurst(S)
      PROVE  NeverTransmitsNothing'
  BY <1>17 DEF KniBurst, NeverTransmitsNothing
<1>18. CASE KniGiveUp
  BY <1>18 DEF KniGiveUp, NeverTransmitsNothing
<1>19. CASE UNCHANGED vars
  BY <1>19 DEF vars, NeverTransmitsNothing
<1>20. QED
  BY <1>1, <1>2, <1>3, <1>4, <1>5, <1>6, <1>7, <1>8, <1>9, <1>10,
     <1>11, <1>12, <1>13, <1>14, <1>15, <1>16, <1>17, <1>18, <1>19
     DEF Next, Run, KniTx

(***************************************************************************)
(* mbuf_free_bulk is never given an empty vector, which it would panic on: *)
(* both transmit loops start on at least one packet.                       *)
(***************************************************************************)
THEOREM TransmitsSomething == Spec => []NeverTransmitsNothing
<1>1. Init => NeverTransmitsNothing
  BY DEF Init, NeverTransmitsNothing
<1>2. TypeOK /\ NeverTransmitsNothing /\ [Next]_vars => NeverTransmitsNothing'
  BY NonEmptyStep
<1>3. QED
  BY <1>1, <1>2, TypeCorrect, PTL DEF Spec

\* All that a core holds comes from its own mempool, and a batch on its way to
\* the kernel from one.
CoreHome ==
  \A c \in Core :
    \A m \in rxring[c] \union batch[c] \union transmit_q[c] \union drop_q[c] :
      Home[m] = CorePool[c]

ChannelHome ==
  /\ \A i \in 1 .. Len(channel) : \A m, n \in channel[i] : Home[m] = Home[n]
  /\ \A m, n \in kni_ptrs : Home[m] = Home[n]

HomeInv == PoolHome /\ CoreHome /\ ChannelHome

\* No step brings buffers of two mempools together.
LEMMA HomeStep ==
  ASSUME TypeOK, HomeInv, RxPool = CorePool, [Next]_vars
  PROVE  HomeInv'
<1>0. PoolHome /\ CoreHome /\ ChannelHome
  BY DEF HomeInv
<1> USE <1>0, ConstantsAssumption DEF TypeOK, task, kni
<1>1. ASSUME NEW c \in Core, NicReceive(c)
      PROVE  HomeInv'
  BY <1>1 DEF NicReceive, HomeInv, CoreHome, ChannelHome, PoolHome
<1>2. ASSUME NEW c \in Core, NicTransmit(c)
      PROVE  HomeInv'
  BY <1>2 DEF NicTransmit, FreeEach, HomeInv, CoreHome, ChannelHome, PoolHome
<1>3. ASSUME NEW c \in Core, NEW S \in SUBSET rxring[c], Receive(c, S)
      PROVE  HomeInv'
  BY <1>3 DEF Receive, HomeInv, CoreHome, ChannelHome, PoolHome
<1>4. ASSUME NEW c \in Core, NEW m \in batch[c], Act(c, m)
      PROVE  HomeInv'
  BY <1>4 DEF Act, HomeInv, CoreHome, ChannelHome, PoolHome
<1>5. ASSUME NEW c \in Core, NEW m \in batch[c], Drop(c, m)
      PROVE  HomeInv'
  BY <1>5 DEF Drop, HomeInv, CoreHome, ChannelHome, PoolHome
<1>6. ASSUME NEW c \in Core, NEW m \in batch[c], Abort(c, m)
      PROVE  HomeInv'
  BY <1>6 DEF Abort, FreeEach, HomeInv, CoreHome, ChannelHome, PoolHome
<1>7. ASSUME NEW c \in Core, NEW m \in batch[c], Emit(c, m)
      PROVE  HomeInv'
  <2>1. {m} \in SUBSET Mbuf /\ channel \in Seq(SUBSET Mbuf)
    OBVIOUS
  <2>2. ChannelHome'
    <3>1. \A x, y \in {m} : Home[x] = Home[y]
      BY DEF CoreHome
    <3>2. channel' = channel \/ channel' = Append(channel, {m})
      BY <1>7 DEF Emit
    <3>3. kni_ptrs' = kni_ptrs
      BY <1>7 DEF Emit
    <3>4. \A i \in 1 .. Len(channel') :
            \/ i \in 1 .. Len(channel) /\ channel'[i] = channel[i]
            \/ channel'[i] = {m}
      BY <2>1, <3>2, ChannelAfterSend, Zenon
    <3>5. QED
      BY <3>1, <3>3, <3>4 DEF ChannelHome
  <2>3. PoolHome'
    BY <1>7, <2>1 DEF Emit, FreeBulk, CoreHome, PoolHome
  <2>4. CoreHome'
    BY <1>7 DEF Emit, CoreHome
  <2>5. QED
    BY <2>2, <2>3, <2>4 DEF HomeInv
<1>8. ASSUME NEW c \in Core, NEW m \in batch[c], NEW n \in free[CorePool[c]],
             Replace(c, m, n)
      PROVE  HomeInv'
  BY <1>8 DEF Replace, HomeInv, CoreHome, ChannelHome, PoolHome
<1>9. ASSUME NEW c \in Core, EndPull(c)
      PROVE  HomeInv'
  BY <1>9 DEF EndPull, HomeInv, CoreHome, ChannelHome, PoolHome
<1>10. ASSUME NEW c \in Core, NEW S \in SUBSET transmit_q[c],
             TxBurst(c, S)
      PROVE  HomeInv'
  BY <1>10 DEF TxBurst, HomeInv, CoreHome, ChannelHome, PoolHome
<1>11. ASSUME NEW c \in Core, TxGiveUp(c)
      PROVE  HomeInv'
  BY <1>11 DEF TxGiveUp, FreeBulk, HomeInv, CoreHome, ChannelHome, PoolHome
<1>12. ASSUME NEW c \in Core, TxChannel(c)
      PROVE  HomeInv'
  <2>1. transmit_q[c] \in SUBSET Mbuf /\ channel \in Seq(SUBSET Mbuf)
    OBVIOUS
  <2>2. ChannelHome'
    <3>0. PICK S \in SUBSET Mbuf : S = transmit_q[c]
      BY <2>1
    <3>1. \A x, y \in S : Home[x] = Home[y]
      BY <3>0 DEF CoreHome
    <3>2. channel' = channel \/ channel' = Append(channel, S)
      BY <1>12, <3>0 DEF TxChannel
    <3>3. kni_ptrs' = kni_ptrs
      BY <1>12 DEF TxChannel
    <3>4. \A i \in 1 .. Len(channel') :
            \/ i \in 1 .. Len(channel) /\ channel'[i] = channel[i]
            \/ channel'[i] = S
      BY <3>0, <2>1, <3>2, ChannelAfterSend, Zenon
    <3>5. QED
      BY <3>1, <3>3, <3>4 DEF ChannelHome
  <2>3. PoolHome'
    BY <1>12, <2>1 DEF TxChannel, FreeBulk, CoreHome, PoolHome
  <2>4. CoreHome'
    BY <1>12 DEF TxChannel, CoreHome
  <2>5. QED
    BY <2>2, <2>3, <2>4 DEF HomeInv
<1>13. ASSUME NEW c \in Core, Reap(c)
      PROVE  HomeInv'
  BY <1>13 DEF Reap, FreeBulk, HomeInv, CoreHome, ChannelHome, PoolHome
<1>14. ASSUME NEW c \in Core, CoreStop(c)
      PROVE  HomeInv'
  BY <1>14 DEF CoreStop, FreeEach, HomeInv, CoreHome, ChannelHome, PoolHome
<1>15. CASE KernelConsume
  BY <1>15 DEF KernelConsume, FreeEach, HomeInv, CoreHome, ChannelHome, PoolHome
<1>16. CASE KniTake
  <2>1. /\ Len(channel) \in Nat \ {0}
        /\ kni_ptrs' = channel[1]
        /\ Len(channel') = Len(channel) - 1
        /\ \A i \in 1 .. Len(channel) - 1 : channel'[i] = channel[i + 1]
    BY <1>16, TailFacts DEF KniTake
  <2>2. ChannelHome'
    <3>1. ASSUME NEW i \in 1 .. Len(channel'), NEW m \in channel'[i],
                 NEW n \in channel'[i]
          PROVE  Home[m] = Home[n]
      <4>1. /\ i \in 1 .. Len(channel) - 1
            /\ i + 1 \in 1 .. Len(channel)
        BY <2>1
      <4>2. m \in channel[i + 1] /\ n \in channel[i + 1]
        BY <2>1, <3>1, <4>1
      <4>3. QED
        BY <1>0, <4>1, <4>2 DEF ChannelHome
    <3>2. \A m, n \in kni_ptrs' : Home[m] = Home[n]
      <4>1. 1 \in 1 .. Len(channel) /\ kni_ptrs' = channel[1]
        BY <2>1
      <4>2. QED
        BY <1>0, <4>1 DEF ChannelHome
    <3>3. QED
      BY <3>1, <3>2 DEF ChannelHome
  <2>3. QED
    BY <1>16, <2>2 DEF KniTake, CoreHome, PoolHome, HomeInv
<1>17. ASSUME NEW S \in SUBSET kni_ptrs, KniBurst(S)
      PROVE  HomeInv'
  BY <1>17 DEF KniBurst, HomeInv, CoreHome, ChannelHome, PoolHome
<1>18. CASE KniGiveUp
  BY <1>18 DEF KniGiveUp, FreeBulk, HomeInv, CoreHome, ChannelHome, PoolHome
<1>19. CASE UNCHANGED vars
  BY <1>19 DEF vars, HomeInv, CoreHome, ChannelHome, PoolHome
<1>20. QED
  BY <1>1, <1>2, <1>3, <1>4, <1>5, <1>6, <1>7, <1>8, <1>9, <1>10,
     <1>11, <1>12, <1>13, <1>14, <1>15, <1>16, <1>17, <1>18, <1>19
     DEF Next, Run, KniTx

(***************************************************************************)
(* When every core is on the socket of its port, mbuf_free_bulk returns    *)
(* every buffer to the mempool it came from, although it looks at the      *)
(* mempool of the first one only.  (With a core on another socket it does  *)
(* not: that is what the run mixed_sockets shows.)                         *)
(***************************************************************************)
THEOREM AlignedPoolsStayHome ==
  ASSUME RxPool = CorePool
  PROVE  Spec => []PoolHome
<1>1. Init => HomeInv
  BY ConstantsAssumption
     DEF Init, HomeInv, PoolHome, CoreHome, ChannelHome
<1>2. TypeOK /\ HomeInv /\ [Next]_vars => HomeInv'
  BY HomeStep
<1>3. QED
  BY <1>1, <1>2, TypeCorrect, PTL DEF Spec, HomeInv

=============================================================================
