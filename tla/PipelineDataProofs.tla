------------------------- MODULE PipelineDataProofs -------------------------
(***************************************************************************)
(* What the combinators do to the packets, for every tree of combinators   *)
(* and any number of packets: each packet is in one place, a run transmits *)
(* in the order in which it received, and its counters add up.             *)
(*                                                                         *)
(* Each of the three has an invariant of its own (Owned, OrderInv with     *)
(* PathInv, BalanceInv) on top of the invariant of module PipelineProofs,  *)
(* which says when a slot, a bridge or a queue is empty: a packet that     *)
(* came upon another one there would be lost.                              *)
(***************************************************************************)
EXTENDS PipelineProofs

-----------------------------------------------------------------------------
(* Ownership.  At(m, k) says that m is in a place of the kind k and in none  *)
(* of another kind, Distinct that it is there once: together they are        *)
(* OwnedOnce, in a form that the steps keep one kind at a time.              *)

In(s, m)    == \E i \in DOMAIN s : s[i] = m
InSet(s, m) == \E i \in DOMAIN s : m \in s[i]
InPkt(s, m) == \E i \in DOMAIN s : m \in s[i].pkt
InSome(f, m) == \E n \in Node : m \in f[n]
InQueue(f, m) == \E n \in Node : InPkt(f[n], m)

Once(s) == \A i, j \in DOMAIN s : s[i] = s[j] => i = j
OnceSet(s) ==
  \A m \in Mbuf : \A i, j \in DOMAIN s : m \in s[i] /\ m \in s[j] => i = j
OncePkt(s) ==
  \A m \in Mbuf : \A i, j \in DOMAIN s :
    m \in s[i].pkt /\ m \in s[j].pkt => i = j

At(m, k) ==
  /\ In(packets, m) <=> k = "packets"
  /\ In(rxring, m) <=> k = "rxring"
  /\ In(txring, m) <=> k = "txring"
  /\ In(transmit_q, m) <=> k = "transmit_q"
  /\ In(drop_q, m) <=> k = "drop_q"
  /\ InSome(slot, m) <=> k = "slot"
  /\ InSome(bridge, m) <=> k = "bridge"
  /\ InQueue(fanouts, m) <=> k = "fanouts"
  /\ InSet(channel, m) <=> k = "channel"
  /\ m \in free <=> k = "free"
  /\ m \in ret.pkt <=> k = "ret"
  /\ m \in kni_ptrs <=> k = "kni"
  /\ k \in {"packets", "rxring", "txring", "transmit_q", "drop_q", "slot",
            "bridge", "fanouts", "channel", "free", "ret", "kni"}

Located == \A m \in Mbuf : \E k : At(m, k)

Distinct ==
  /\ Once(packets) /\ Once(rxring) /\ Once(txring)
  /\ Once(transmit_q) /\ Once(drop_q)
  /\ OnceSet(channel)
  /\ \A m \in Mbuf : \A n, k \in Node :
       /\ m \in slot[n] /\ m \in slot[k] => n = k
       /\ m \in bridge[n] /\ m \in bridge[k] => n = k
       /\ InPkt(fanouts[n], m) /\ InPkt(fanouts[k], m) => n = k
  /\ \A n \in Node : OncePkt(fanouts[n])

Owned == Located /\ Distinct

\* What sequences hold before and after they are taken from or added to.
LEMMA TakeHead ==
  ASSUME NEW T, NEW s \in Seq(T), s # <<>>
  PROVE  /\ Head(s) \in T /\ Tail(s) \in Seq(T)
         /\ \A m : In(s, m) <=> m = Head(s) \/ In(Tail(s), m)
         /\ Once(s) => Once(Tail(s)) /\ ~In(Tail(s), Head(s))
<1>1. /\ Len(s) \in Nat \ {0} /\ DOMAIN s = 1 .. Len(s)
      /\ Head(s) = s[1] /\ Head(s) \in T
      /\ Tail(s) \in Seq(T) /\ DOMAIN Tail(s) = 1 .. Len(s) - 1
      /\ \A i \in 1 .. Len(s) - 1 : Tail(s)[i] = s[i + 1]
  BY HeadTail
<1>2. \A i \in 1 .. Len(s) : i # 1 => i - 1 \in 1 .. Len(s) - 1 /\ Tail(s)[i - 1] = s[i]
  BY <1>1
<1>3. ASSUME NEW m PROVE In(s, m) <=> m = Head(s) \/ In(Tail(s), m)
  <2>1. In(Tail(s), m) => In(s, m)
    BY <1>1 DEF In
  <2>2. In(s, m) => m = Head(s) \/ In(Tail(s), m)
    BY <1>1, <1>2 DEF In
  <2>3. Head(s) = m => In(s, m)
    BY <1>1 DEF In
  <2>4. QED
    BY <2>1, <2>2, <2>3
<1>4. Once(s) => Once(Tail(s)) /\ ~In(Tail(s), Head(s))
  BY <1>1 DEF Once, In
<1>5. QED
  BY <1>1, <1>3, <1>4

\* The same for the batches of the KNI channel.
LEMMA TakeHeadSet ==
  ASSUME NEW s \in Seq(SUBSET Mbuf), s # <<>>
  PROVE  /\ Head(s) \in SUBSET Mbuf /\ Tail(s) \in Seq(SUBSET Mbuf)
         /\ \A m : InSet(s, m) <=> m \in Head(s) \/ InSet(Tail(s), m)
         /\ OnceSet(s) => OnceSet(Tail(s))
         /\ OnceSet(s) => \A m \in Head(s) : ~InSet(Tail(s), m)
<1>1. /\ Len(s) \in Nat \ {0} /\ DOMAIN s = 1 .. Len(s)
      /\ Head(s) = s[1] /\ Head(s) \in SUBSET Mbuf
      /\ Tail(s) \in Seq(SUBSET Mbuf) /\ DOMAIN Tail(s) = 1 .. Len(s) - 1
      /\ \A i \in 1 .. Len(s) - 1 : Tail(s)[i] = s[i + 1]
  BY HeadTail
<1>2. \A i \in 1 .. Len(s) : i # 1 => i - 1 \in 1 .. Len(s) - 1 /\ Tail(s)[i - 1] = s[i]
  BY <1>1
<1>3. ASSUME NEW m PROVE InSet(s, m) <=> m \in Head(s) \/ InSet(Tail(s), m)
  <2>1. InSet(Tail(s), m) => InSet(s, m)
    BY <1>1 DEF InSet
  <2>2. InSet(s, m) => m \in Head(s) \/ InSet(Tail(s), m)
    BY <1>1, <1>2 DEF InSet
  <2>3. m \in Head(s) => InSet(s, m)
    BY <1>1 DEF InSet
  <2>4. QED
    BY <2>1, <2>2, <2>3
<1>4. OnceSet(s) => OnceSet(Tail(s))
  <2> SUFFICES ASSUME OnceSet(s), NEW m \in Mbuf,
                      NEW i \in DOMAIN Tail(s), NEW j \in DOMAIN Tail(s),
                      m \in Tail(s)[i], m \in Tail(s)[j]
               PROVE  i = j
    BY DEF OnceSet
  <2>1. i + 1 \in DOMAIN s /\ j + 1 \in DOMAIN s /\ m \in s[i + 1] /\ m \in s[j + 1]
    BY <1>1
  <2>2. i + 1 = j + 1
    BY <2>1 DEF OnceSet
  <2>3. QED
    BY <1>1, <2>2
<1>5. OnceSet(s) => \A m \in Head(s) : ~InSet(Tail(s), m)
  <2> SUFFICES ASSUME OnceSet(s), NEW m \in Head(s), NEW i \in DOMAIN Tail(s),
                      m \in Tail(s)[i]
               PROVE  FALSE
    BY DEF InSet
  <2>1. i + 1 \in DOMAIN s /\ m \in s[i + 1] /\ m \in s[1] /\ 1 \in DOMAIN s /\ m \in Mbuf
    BY <1>1
  <2>2. i + 1 = 1
    BY <2>1 DEF OnceSet
  <2>3. QED
    BY <1>1, <2>2
<1>6. QED
  BY <1>1, <1>3, <1>4, <1>5

\* The same for the dispositions of a queue.
LEMMA TakeHeadPkt ==
  ASSUME NEW s \in Seq(Disposition), s # <<>>
  PROVE  /\ Head(s) \in Disposition /\ Tail(s) \in Seq(Disposition)
         /\ \A m : InPkt(s, m) <=> m \in Head(s).pkt \/ InPkt(Tail(s), m)
         /\ OncePkt(s) => OncePkt(Tail(s))
         /\ OncePkt(s) => \A m \in Head(s).pkt : ~InPkt(Tail(s), m)
<1>1. /\ Len(s) \in Nat \ {0} /\ DOMAIN s = 1 .. Len(s)
      /\ Head(s) = s[1] /\ Head(s) \in Disposition
      /\ Tail(s) \in Seq(Disposition) /\ DOMAIN Tail(s) = 1 .. Len(s) - 1
      /\ \A i \in 1 .. Len(s) - 1 : Tail(s)[i] = s[i + 1]
  BY HeadTail
<1>2. \A i \in 1 .. Len(s) : i # 1 => i - 1 \in 1 .. Len(s) - 1 /\ Tail(s)[i - 1] = s[i]
  BY <1>1
<1>3. ASSUME NEW m PROVE InPkt(s, m) <=> m \in Head(s).pkt \/ InPkt(Tail(s), m)
  <2>1. InPkt(Tail(s), m) => InPkt(s, m)
    BY <1>1 DEF InPkt
  <2>2. InPkt(s, m) => m \in Head(s).pkt \/ InPkt(Tail(s), m)
    BY <1>1, <1>2 DEF InPkt
  <2>3. m \in Head(s).pkt => InPkt(s, m)
    BY <1>1 DEF InPkt
  <2>4. QED
    BY <2>1, <2>2, <2>3
<1>4. OncePkt(s) => OncePkt(Tail(s))
  <2> SUFFICES ASSUME OncePkt(s), NEW m \in Mbuf,
                      NEW i \in DOMAIN Tail(s), NEW j \in DOMAIN Tail(s),
                      m \in Tail(s)[i].pkt, m \in Tail(s)[j].pkt
               PROVE  i = j
    BY DEF OncePkt
  <2>1. /\ i + 1 \in DOMAIN s /\ j + 1 \in DOMAIN s
        /\ m \in s[i + 1].pkt /\ m \in s[j + 1].pkt
    BY <1>1
  <2>2. i + 1 = j + 1
    BY <2>1 DEF OncePkt
  <2>3. QED
    BY <1>1, <2>2
<1>5. OncePkt(s) => \A m \in Head(s).pkt : ~InPkt(Tail(s), m)
  <2> SUFFICES ASSUME OncePkt(s), NEW m \in Head(s).pkt, NEW i \in DOMAIN Tail(s),
                      m \in Tail(s)[i].pkt
               PROVE  FALSE
    BY DEF InPkt
  <2>0. m \in Mbuf
    BY <1>1, DispositionFacts
  <2>1. /\ i + 1 \in DOMAIN s /\ m \in s[i + 1].pkt
        /\ m \in s[1].pkt /\ 1 \in DOMAIN s
    BY <1>1
  <2>2. i + 1 = 1
    BY <2>0, <2>1 DEF OncePkt
  <2>3. QED
    BY <1>1, <2>2
<1>6. QED
  BY <1>1, <1>3, <1>4, <1>5

\* A packet that goes to the end of a queue it is not in.
LEMMA PutLast ==
  ASSUME NEW T, NEW s \in Seq(T), NEW e \in T
  PROVE  /\ \A m : In(Append(s, e), m) <=> In(s, m) \/ m = e
         /\ Once(s) /\ ~In(s, e) => Once(Append(s, e))
<1>1. /\ Len(s) \in Nat /\ DOMAIN s = 1 .. Len(s)
      /\ DOMAIN Append(s, e) = 1 .. Len(s) + 1
      /\ Append(s, e)[Len(s) + 1] = e
      /\ \A i \in 1 .. Len(s) : Append(s, e)[i] = s[i]
  BY AppendFacts
<1>2. QED
  BY <1>1 DEF In, Once

\* The same for the batches of the KNI channel.
LEMMA PutLastSet ==
  ASSUME NEW s \in Seq(SUBSET Mbuf), NEW e \in SUBSET Mbuf
  PROVE  /\ \A m : InSet(Append(s, e), m) <=> InSet(s, m) \/ m \in e
         /\ OnceSet(s) /\ (\A m \in e : ~InSet(s, m)) => OnceSet(Append(s, e))
<1>1. /\ Len(s) \in Nat /\ DOMAIN s = 1 .. Len(s)
      /\ DOMAIN Append(s, e) = 1 .. Len(s) + 1
      /\ Append(s, e)[Len(s) + 1] = e
      /\ \A i \in 1 .. Len(s) : Append(s, e)[i] = s[i]
  BY AppendFacts
<1>2. \A m : InSet(Append(s, e), m) <=> InSet(s, m) \/ m \in e
  BY <1>1 DEF InSet
<1>3. OnceSet(s) /\ (\A m \in e : ~InSet(s, m)) => OnceSet(Append(s, e))
  BY <1>1 DEF InSet, OnceSet
<1>4. QED
  BY <1>2, <1>3

\* The same for the dispositions of a queue.
LEMMA PutLastPkt ==
  ASSUME NEW s \in Seq(Disposition), NEW e \in Disposition
  PROVE  /\ \A m : InPkt(Append(s, e), m) <=> InPkt(s, m) \/ m \in e.pkt
         /\ OncePkt(s) /\ (\A m \in e.pkt : ~InPkt(s, m))
              => OncePkt(Append(s, e))
<1>1. /\ Len(s) \in Nat /\ DOMAIN s = 1 .. Len(s)
      /\ DOMAIN Append(s, e) = 1 .. Len(s) + 1
      /\ Append(s, e)[Len(s) + 1] = e
      /\ \A i \in 1 .. Len(s) : Append(s, e)[i] = s[i]
  BY AppendFacts
<1>2. \A m : InPkt(Append(s, e), m) <=> InPkt(s, m) \/ m \in e.pkt
  BY <1>1 DEF InPkt
<1>3. OncePkt(s) /\ (\A m \in e.pkt : ~InPkt(s, m)) => OncePkt(Append(s, e))
  BY <1>1 DEF InPkt, OncePkt
<1>4. QED
  BY <1>2, <1>3

\* A queue cut in two has each packet in one of the parts.
LEMMA CutInTwo ==
  ASSUME NEW T, NEW s \in Seq(T), NEW k \in 1 .. Len(s)
  PROVE  /\ \A m : In(s, m) <=> In(SubSeq(s, 1, k), m)
                                  \/ In(SubSeq(s, k + 1, Len(s)), m)
         /\ Once(s) => Once(SubSeq(s, 1, k)) /\ Once(SubSeq(s, k + 1, Len(s)))
         /\ Once(s) => \A m : ~(In(SubSeq(s, 1, k), m)
                                  /\ In(SubSeq(s, k + 1, Len(s)), m))
<1>0. PICK a, b : a = SubSeq(s, 1, k) /\ b = SubSeq(s, k + 1, Len(s))
  OBVIOUS
<1>1. /\ Len(s) \in Nat /\ DOMAIN s = 1 .. Len(s) /\ k \in Nat /\ k <= Len(s)
      /\ DOMAIN a = 1 .. k /\ DOMAIN b = 1 .. Len(s) - k
      /\ \A i \in 1 .. k : a[i] = s[i]
      /\ \A i \in 1 .. Len(s) - k : b[i] = s[k + i]
  BY <1>0, Cut
<1>2. \A i \in DOMAIN a : i \in DOMAIN s /\ i <= k /\ a[i] = s[i]
  BY <1>1
<1>3. \A i \in DOMAIN b : k + i \in DOMAIN s /\ k + i > k /\ b[i] = s[k + i]
  BY <1>1
<1>4. ASSUME NEW i \in DOMAIN s
      PROVE  \/ i \in DOMAIN a /\ a[i] = s[i]
             \/ \E j \in DOMAIN b : b[j] = s[i]
  <2>1. CASE i <= k
    BY <1>1, <2>1
  <2>2. CASE i > k
    <3>1. PICK j \in Int : j = i - k
      BY <1>1
    <3>2. 1 <= j /\ j <= Len(s) - k /\ k + j = i
      <4>1. i \in Nat /\ i <= Len(s) /\ k \in Nat /\ Len(s) \in Nat
        BY <1>1
      <4>2. QED
        BY <4>1, <2>2, <3>1
    <3>3. j \in DOMAIN b
      BY <1>1, <3>1, <3>2
    <3>4. QED
      BY <1>3, <3>2, <3>3
  <2>3. QED
    BY <1>1, <2>1, <2>2
<1>5. ASSUME NEW m PROVE In(s, m) <=> In(a, m) \/ In(b, m)
  <2>1. In(s, m) => In(a, m) \/ In(b, m)
    BY <1>4 DEF In
  <2>2. In(a, m) => In(s, m)
    BY <1>2 DEF In
  <2>3. In(b, m) => In(s, m)
    BY <1>3 DEF In
  <2>4. QED
    BY <2>1, <2>2, <2>3
<1>6. Once(s) => Once(a)
  BY <1>2 DEF Once
<1>7. Once(s) => Once(b)
  <2> SUFFICES ASSUME Once(s), NEW i \in DOMAIN b, NEW j \in DOMAIN b, b[i] = b[j]
               PROVE  i = j
    BY DEF Once
  <2>1. k + i = k + j
    BY <1>3 DEF Once
  <2>2. QED
    BY <1>1, <2>1
<1>8. Once(s) => \A m : ~(In(a, m) /\ In(b, m))
  <2> SUFFICES ASSUME Once(s), NEW i \in DOMAIN a, NEW j \in DOMAIN b, a[i] = b[j]
               PROVE  FALSE
    BY DEF In
  <2>1. i = k + j
    BY <1>2, <1>3 DEF Once
  <2>2. QED
    BY <1>2, <1>3, <2>1
<1>9. QED
  BY <1>0, <1>5, <1>6, <1>7, <1>8

\* Two queues without a common packet, one after the other.
LEMMA Joined ==
  ASSUME NEW T, NEW s \in Seq(T), NEW t \in Seq(T)
  PROVE  /\ \A m : In(s \o t, m) <=> In(s, m) \/ In(t, m)
         /\ Once(s) /\ Once(t) /\ (\A m : ~(In(s, m) /\ In(t, m)))
              => Once(s \o t)
<1>1. PICK u : u = s \o t
  OBVIOUS
<1>2. /\ DOMAIN s = 1 .. Len(s) /\ DOMAIN t = 1 .. Len(t)
      /\ DOMAIN u = 1 .. Len(s) + Len(t)
      /\ Len(s) \in Nat /\ Len(t) \in Nat
      /\ \A i \in 1 .. Len(s) : u[i] = s[i]
      /\ \A i \in 1 .. Len(t) : u[Len(s) + i] = t[i]
  BY <1>1, ConcatFacts
<1>3. \A i \in DOMAIN s : i \in DOMAIN u /\ u[i] = s[i]
  BY <1>2
<1>4. \A i \in DOMAIN t : Len(s) + i \in DOMAIN u /\ u[Len(s) + i] = t[i]
  BY <1>2
<1>5. ASSUME NEW i \in DOMAIN u
      PROVE  \/ i \in DOMAIN s /\ u[i] = s[i]
             \/ \E j \in DOMAIN t : i = Len(s) + j /\ u[i] = t[j]
  <2>1. CASE i <= Len(s)
    BY <1>2, <2>1
  <2>2. CASE i > Len(s)
    <3>1. PICK j \in Int : j = i - Len(s)
      BY <1>2
    <3>2. j \in DOMAIN t /\ Len(s) + j = i
      BY <1>2, <2>2, <3>1
    <3>3. QED
      BY <1>4, <3>2
  <2>3. QED
    BY <1>2, <2>1, <2>2
<1>6. \A m : In(u, m) <=> In(s, m) \/ In(t, m)
  BY <1>3, <1>4, <1>5 DEF In
<1>7. Once(s) /\ Once(t) /\ (\A m : ~(In(s, m) /\ In(t, m))) => Once(u)
  BY <1>5 DEF Once, In
<1>8. QED
  BY <1>1, <1>6, <1>7

\* Nothing moves.
LEMMA Unmoved ==
  ASSUME Owned, ret'.pkt = ret.pkt, UNCHANGED <<parts, transmit_q, drop_q, free, devices>>
  PROVE  Owned'
BY DEF Owned, Located, Distinct, At, parts, devices

\* A packet comes out of the Poll.
LEMMA PollOwned ==
  ASSUME TypeOK, Owned, PollNext
  PROVE  Owned'
<1>1. /\ UNCHANGED <<slot, bridge, fanouts, transmit_q, drop_q, free, devices>>
      /\ ret = Calling
  BY DEF PollNext, Called, results
<1>2. CASE packets = <<>>
  <2>1. ret' = Exhausted /\ packets' = packets
    BY <1>2 DEF PollNext, Give
  <2>2. QED
    BY <1>1, <2>1, Unmoved DEF parts, Exhausted, Calling
<1>3. CASE packets # <<>>
  <2>1. PICK x : /\ x = Head(packets) /\ ret' = Act({x})
                 /\ packets' = Tail(packets)
    BY <1>3 DEF PollNext, Give
  <2>2. /\ \A m : In(packets, m) <=> m = x \/ In(packets', m)
        /\ Once(packets) => Once(packets') /\ ~In(packets', x)
    BY <1>3, <2>1, TakeHead DEF TypeOK
  <2>3. ret.pkt = {} /\ ret'.pkt = {x}
    BY <1>1, <2>1 DEF Calling, Act
  <2>4. ASSUME NEW m \in Mbuf, NEW k, At(m, k)
        PROVE  \E h : At(m, h)'
    <3>1. CASE m = x
      <4>1. At(m, "ret")'
        BY <1>1, <2>2, <2>3, <2>4, <3>1 DEF At, devices, Owned, Distinct
      <4>2. QED
        BY <4>1
    <3>2. CASE m # x
      <4>1. At(m, k)'
        BY <1>1, <2>2, <2>3, <2>4, <3>2 DEF At, devices
      <4>2. QED
        BY <4>1
    <3>3. QED
      BY <3>1, <3>2
  <2>5. Distinct'
    BY <1>1, <2>2 DEF Owned, Distinct, devices
  <2>6. QED
    BY <2>4, <2>5 DEF Owned, Located
<1>4. QED
  BY <1>2, <1>3

\* A packet comes out of a bridge or a slot.
LEMMA BridgeOwned ==
  ASSUME TypeOK, Owned, BridgeNext
  PROVE  Owned'
<1>1. /\ UNCHANGED <<packets, slot, fanouts, transmit_q, drop_q, free, devices>>
      /\ ret = Calling /\ Up[Top] \in Node
      /\ bridge' = [bridge EXCEPT ![Up[Top]] = {}]
      /\ ret' = IF bridge[Up[Top]] = {} THEN Exhausted ELSE Act(bridge[Up[Top]])
  BY CallTypes DEF BridgeNext, Called, results, Give, TypeOK
<1>2. PICK g \in Node : g = Up[Top]
  BY <1>1
<1>3. ret.pkt = {} /\ ret'.pkt = bridge[g]
  BY <1>1, <1>2 DEF Calling, Act, Exhausted
<1>4. \A n \in Node : bridge'[n] = IF n = g THEN {} ELSE bridge[n]
  BY <1>1, <1>2 DEF TypeOK
<1>5. ASSUME NEW m \in Mbuf, NEW k, At(m, k)
      PROVE  \E h : At(m, h)'
  <2>1. InSome(bridge, m) <=> m \in bridge[g] \/ InSome(bridge', m)
    BY <1>2, <1>4 DEF InSome
  <2>2. m \in bridge[g] => ~InSome(bridge', m)
    BY <1>2, <1>4 DEF InSome, Owned, Distinct
  <2>3. CASE m \in bridge[g]
    <3>1. At(m, "ret")'
      BY <1>1, <1>3, <1>5, <2>1, <2>2, <2>3 DEF At, devices
    <3>2. QED
      BY <3>1
  <2>4. CASE m \notin bridge[g]
    <3>1. At(m, k)'
      BY <1>1, <1>3, <1>5, <2>1, <2>4 DEF At, devices
    <3>2. QED
      BY <3>1
  <2>5. QED
    BY <2>3, <2>4
<1>6. Distinct'
  BY <1>1, <1>4 DEF Owned, Distinct, devices
<1>7. QED
  BY <1>5, <1>6 DEF Owned, Located

\* The packet that was replaced comes out of the slot, to be dropped.
LEMMA SlotOwned ==
  ASSUME TypeOK, Owned, SlotNext
  PROVE  Owned'
<1>1. /\ UNCHANGED <<packets, bridge, fanouts, transmit_q, drop_q, free, devices>>
      /\ ret = Calling /\ Top \in Node
      /\ slot' = [slot EXCEPT ![Top] = {}]
      /\ ret' = DropOf(slot[Top])
  BY CallTypes DEF SlotNext, Called, results, Give, TypeOK
<1>2. PICK g \in Node : g = Top
  BY <1>1
<1>3. ret.pkt = {} /\ ret'.pkt = slot[g]
  BY <1>1, <1>2 DEF Calling, DropOf
<1>4. \A n \in Node : slot'[n] = IF n = g THEN {} ELSE slot[n]
  BY <1>1, <1>2 DEF TypeOK
<1>5. ASSUME NEW m \in Mbuf, NEW k, At(m, k)
      PROVE  \E h : At(m, h)'
  <2>1. InSome(slot, m) <=> m \in slot[g] \/ InSome(slot', m)
    BY <1>2, <1>4 DEF InSome
  <2>2. m \in slot[g] => ~InSome(slot', m)
    BY <1>2, <1>4 DEF InSome, Owned, Distinct
  <2>3. CASE m \in slot[g]
    <3>1. At(m, "ret")'
      BY <1>1, <1>3, <1>5, <2>1, <2>2, <2>3 DEF At, devices
    <3>2. QED
      BY <3>1
  <2>4. CASE m \notin slot[g]
    <3>1. At(m, k)'
      BY <1>1, <1>3, <1>5, <2>1, <2>4 DEF At, devices
    <3>2. QED
      BY <3>1
  <2>5. QED
    BY <2>3, <2>4
<1>6. Distinct'
  BY <1>1, <1>4 DEF Owned, Distinct, devices
<1>7. QED
  BY <1>5, <1>6 DEF Owned, Located

\* A disposition comes out of the queue of a GroupBy.
LEMMA QueueOwned ==
  ASSUME TypeOK, Owned, FanoutNext \/ Merge
  PROVE  Owned'
<1>1. /\ UNCHANGED <<packets, slot, bridge, transmit_q, drop_q, free, devices>>
      /\ ret = Calling \/ ret.tag = "none"
      /\ Top \in Node /\ fanouts[Top] # <<>>
      /\ fanouts' = [fanouts EXCEPT ![Top] = Tail(@)]
      /\ ret' = Head(fanouts[Top])
  BY CallTypes
     DEF FanoutNext, Merge, FromBranch, Called, results, Give, TypeOK
<1>2. PICK g \in Node : g = Top
  BY <1>1
<1>3. PICK d : d = Head(fanouts[g])
  OBVIOUS
<1>4. ret.pkt = {} /\ ret'.pkt = d.pkt
  BY <1>1, <1>2, <1>3, DispositionFacts DEF Calling, TypeOK
<1>5. /\ \A m : InPkt(fanouts[g], m)
                  <=> m \in d.pkt \/ InPkt(Tail(fanouts[g]), m)
      /\ OncePkt(fanouts[g]) => OncePkt(Tail(fanouts[g]))
      /\ OncePkt(fanouts[g]) => \A m \in d.pkt : ~InPkt(Tail(fanouts[g]), m)
  BY <1>1, <1>2, <1>3, TakeHeadPkt DEF TypeOK
<1>6. \A n \in Node : fanouts'[n] = IF n = g THEN Tail(fanouts[g]) ELSE fanouts[n]
  BY <1>1, <1>2 DEF TypeOK
<1>7. ASSUME NEW m \in Mbuf, NEW k, At(m, k)
      PROVE  \E h : At(m, h)'
  <2>1. InQueue(fanouts, m) <=> m \in d.pkt \/ InQueue(fanouts', m)
    BY <1>2, <1>5, <1>6 DEF InQueue
  <2>2. m \in d.pkt => ~InQueue(fanouts', m)
    BY <1>2, <1>5, <1>6 DEF InQueue, Owned, Distinct
  <2>3. CASE m \in d.pkt
    <3>1. At(m, "ret")'
      BY <1>1, <1>4, <1>7, <2>1, <2>2, <2>3 DEF At, devices
    <3>2. QED
      BY <3>1
  <2>4. CASE m \notin d.pkt
    <3>1. At(m, k)'
      BY <1>1, <1>4, <1>7, <2>1, <2>4 DEF At, devices
    <3>2. QED
      BY <3>1
  <2>5. QED
    BY <2>3, <2>4
<1>8. Distinct'
  BY <1>1, <1>2, <1>5, <1>6 DEF Owned, Distinct, devices
<1>9. QED
  BY <1>7, <1>8 DEF Owned, Located

\* A closure keeps the packet in the disposition, or gives it back.
LEMMA ApplyOwned ==
  ASSUME TypeOK, Owned, Apply
  PROVE  Owned'
<1>1. /\ UNCHANGED <<parts, transmit_q, drop_q, devices>>
      /\ \E tag \in Outcomes[Kind[Top]] :
           \/ Give(Aborted) /\ free' = free \union ret.pkt
           \/ Give([ret EXCEPT !.tag = tag]) /\ free' = free
  BY DEF Apply, results
<1>2. CASE free' = free /\ \E tag : ret' = [ret EXCEPT !.tag = tag]
  <2>1. ret'.pkt = ret.pkt
    BY <1>2 DEF TypeOK, Disposition, Emitted, Aborted, Exhausted, Calling
  <2>2. QED
    BY <1>1, <1>2, <2>1, Unmoved
<1>3. CASE ret' = Aborted /\ free' = free \union ret.pkt
  <2>1. ret'.pkt = {}
    BY <1>3 DEF Aborted
  <2>2. ASSUME NEW m \in Mbuf, NEW k, At(m, k)
        PROVE  \E h : At(m, h)'
    <3>1. CASE m \in ret.pkt
      <4>1. At(m, "free")'
        BY <1>1, <1>3, <2>1, <2>2, <3>1 DEF At, parts, devices
      <4>2. QED
        BY <4>1
    <3>2. CASE m \notin ret.pkt
      <4>1. At(m, k)'
        BY <1>1, <1>3, <2>1, <2>2, <3>2 DEF At, parts, devices
      <4>2. QED
        BY <4>1
    <3>3. QED
      BY <3>1, <3>2
  <2>3. Distinct'
    BY <1>1 DEF Owned, Distinct, parts, devices
  <2>4. QED
    BY <2>2, <2>3 DEF Owned, Located
<1>4. QED
  BY <1>1, <1>2, <1>3 DEF Give

\* A packet goes to the KNI channel in a batch of its own.
LEMMA EmitOwned ==
  ASSUME TypeOK, Owned, Emit
  PROVE  Owned'
<1>1. /\ UNCHANGED <<parts, transmit_q, drop_q, free, rxring, txring, kni_ptrs>>
      /\ channel' = Append(channel, ret.pkt) /\ ret'.pkt = {}
  BY DEF Emit, results, Give, Emitted
<1>2. channel \in Seq(SUBSET Mbuf) /\ ret.pkt \in SUBSET Mbuf
  BY DispositionFacts DEF TypeOK
<1>3. /\ \A m : InSet(channel', m) <=> InSet(channel, m) \/ m \in ret.pkt
      /\ OnceSet(channel) /\ (\A m \in ret.pkt : ~InSet(channel, m))
           => OnceSet(channel')
  BY <1>1, <1>2, PutLastSet
<1>4. ASSUME NEW m \in Mbuf, NEW k, At(m, k)
      PROVE  \E h : At(m, h)'
  <2>1. CASE m \in ret.pkt
    <3>1. At(m, "channel")'
      BY <1>1, <1>3, <1>4, <2>1 DEF At, parts
    <3>2. QED
      BY <3>1
  <2>2. CASE m \notin ret.pkt
    <3>1. At(m, k)'
      BY <1>1, <1>3, <1>4, <2>2 DEF At, parts
    <3>2. QED
      BY <3>1
  <2>3. QED
    BY <2>1, <2>2
<1>5. Distinct'
  <2>1. \A m \in ret.pkt : ~InSet(channel, m)
    BY <1>2 DEF Owned, Located, At
  <2>2. QED
    BY <1>1, <1>3, <2>1 DEF Owned, Distinct, parts
<1>6. QED
  BY <1>4, <1>5 DEF Owned, Located

\* The original goes to the slot and a new packet into the disposition; or the
\* original is freed.
LEMMA ReplaceOwned ==
  ASSUME TypeOK, StoreInv, Owned, Replace
  PROVE  Owned'
<1>1. /\ UNCHANGED <<packets, bridge, fanouts, transmit_q, drop_q, devices>>
      /\ Top \in Node /\ slot[Top] = {}
  <2>1. Running /\ ret # Calling /\ Top \in Node /\ ~OnBranch(Len(stack))
    BY NotOnBranch, CallTypes DEF Replace, Answered, TypeOK
  <2>2. Len(stack) \in DOMAIN stack /\ Waits(Len(stack)) /\ Top = stack[Len(stack)]
    BY <2>1, TopIsLast
  <2>3. QED
    BY <2>1, <2>2 DEF StoreInv, Replace, results
<1>2. ASSUME NEW x \in free, ret' = Act({x}), free' = free \ {x},
             slot' = [slot EXCEPT ![Top] = ret.pkt]
      PROVE  Owned'
  <2>1. ret'.pkt = {x}
    BY <1>2 DEF Act
  <2>2. \A n \in Node : slot'[n] = IF n = Top THEN ret.pkt ELSE slot[n]
    BY <1>2 DEF TypeOK
  <2>3. ASSUME NEW m \in Mbuf, NEW k, At(m, k)
        PROVE  \E h : At(m, h)'
    <3>1. InSome(slot', m) <=> InSome(slot, m) \/ m \in ret.pkt
      BY <1>1, <2>2 DEF InSome
    <3>2. CASE m \in ret.pkt
      <4>1. At(m, "slot")'
        BY <1>1, <1>2, <2>1, <2>3, <3>1, <3>2 DEF At, devices
      <4>2. QED
        BY <4>1
    <3>3. CASE m = x
      <4>1. At(m, "ret")'
        BY <1>1, <1>2, <2>1, <2>3, <3>1, <3>3 DEF At, devices
      <4>2. QED
        BY <4>1
    <3>4. CASE m # x /\ m \notin ret.pkt
      <4>1. At(m, k)'
        BY <1>1, <1>2, <2>1, <2>3, <3>1, <3>4 DEF At, devices
      <4>2. QED
        BY <4>1
    <3>5. QED
      BY <3>2, <3>3, <3>4
  <2>4. \A m \in Mbuf : m \in ret.pkt => ~InSome(slot, m)
    BY DEF Owned, Located, At
  <2>5. Distinct'
    BY <1>1, <2>2, <2>4 DEF Owned, Distinct, InSome, devices
  <2>6. QED
    BY <2>3, <2>5 DEF Owned, Located
<1>3. ASSUME ret' = Aborted, free' = free \union ret.pkt, slot' = slot
      PROVE  Owned'
  <2>1. ret'.pkt = {}
    BY <1>3 DEF Aborted
  <2>2. ASSUME NEW m \in Mbuf, NEW k, At(m, k)
        PROVE  \E h : At(m, h)'
    <3>1. CASE m \in ret.pkt
      <4>1. At(m, "free")'
        BY <1>1, <1>3, <2>1, <2>2, <3>1 DEF At, devices
      <4>2. QED
        BY <4>1
    <3>2. CASE m \notin ret.pkt
      <4>1. At(m, k)'
        BY <1>1, <1>3, <2>1, <2>2, <3>2 DEF At, devices
      <4>2. QED
        BY <4>1
    <3>3. QED
      BY <3>1, <3>2
  <2>3. Distinct'
    BY <1>1, <1>3 DEF Owned, Distinct, devices
  <2>4. QED
    BY <2>2, <2>3 DEF Owned, Located
<1>4. QED
  BY <1>2, <1>3 DEF Replace, Give

\* The packet goes into the bridge; one that was still there would be freed.
LEMMA SplitOwned ==
  ASSUME TypeOK, Owned, Split
  PROVE  Owned'
<1>1. /\ UNCHANGED <<packets, slot, fanouts, transmit_q, drop_q, devices>>
      /\ Top \in Node /\ ret'.pkt = {}
      /\ bridge' = [bridge EXCEPT ![Top] = ret.pkt]
      /\ free' = free \union bridge[Top]
  BY CallTypes DEF Split, Answered, results, Enter, Calling, TypeOK
<1>2. \A n \in Node : bridge'[n] = IF n = Top THEN ret.pkt ELSE bridge[n]
  BY <1>1 DEF TypeOK
<1>3. ASSUME NEW m \in Mbuf, NEW k, At(m, k)
      PROVE  \E h : At(m, h)'
  <2>1. m \in bridge[Top] => InSome(bridge, m) /\ m \notin ret.pkt
    BY <1>1, <1>3 DEF InSome, At
  <2>2. m \in bridge[Top] => ~InSome(bridge', m)
    BY <1>1, <1>2, <2>1 DEF InSome, Owned, Distinct
  <2>3. m \in ret.pkt => InSome(bridge', m) /\ m \notin bridge[Top]
    BY <1>1, <1>2, <2>1 DEF InSome
  <2>4. m \notin ret.pkt /\ m \notin bridge[Top] =>
          (InSome(bridge', m) <=> InSome(bridge, m))
    BY <1>1, <1>2 DEF InSome
  <2>5. CASE m \in bridge[Top]
    <3>1. At(m, "free")'
      BY <1>1, <1>3, <2>1, <2>2, <2>5 DEF At, devices
    <3>2. QED
      BY <3>1
  <2>6. CASE m \in ret.pkt
    <3>1. At(m, "bridge")'
      BY <1>1, <1>3, <2>3, <2>6 DEF At, devices
    <3>2. QED
      BY <3>1
  <2>7. CASE m \notin ret.pkt /\ m \notin bridge[Top]
    <3>1. At(m, k)'
      BY <1>1, <1>3, <2>4, <2>7 DEF At, devices
    <3>2. QED
      BY <3>1
  <2>8. QED
    BY <2>5, <2>6, <2>7
<1>4. \A m \in Mbuf : m \in ret.pkt => ~InSome(bridge, m)
  BY DEF Owned, Located, At
<1>5. Distinct'
  BY <1>1, <1>2, <1>4 DEF Owned, Distinct, InSome, devices
<1>6. QED
  BY <1>3, <1>5 DEF Owned, Located

\* A disposition goes to the end of the queue of its GroupBy.
LEMMA GatherOwned ==
  ASSUME TypeOK, Owned, Gather
  PROVE  Owned'
<1>1. /\ UNCHANGED <<packets, slot, bridge, transmit_q, drop_q, free, devices>>
      /\ Top \in Node /\ ret'.pkt = {} /\ ret \in Disposition
      /\ fanouts' = [fanouts EXCEPT ![Top] = Append(@, ret)]
  BY CallTypes DEF Gather, FromBranch, results, Enter, Calling, TypeOK
<1>2. \A n \in Node :
        fanouts'[n] = IF n = Top THEN Append(fanouts[Top], ret) ELSE fanouts[n]
  BY <1>1 DEF TypeOK
<1>3. fanouts[Top] \in Seq(Disposition) /\ ret.pkt \in SUBSET Mbuf
  BY <1>1, DispositionFacts DEF TypeOK
<1>4. /\ \A m : InPkt(fanouts'[Top], m) <=> InPkt(fanouts[Top], m) \/ m \in ret.pkt
      /\ OncePkt(fanouts[Top]) /\ (\A m \in ret.pkt : ~InPkt(fanouts[Top], m))
           => OncePkt(fanouts'[Top])
  BY <1>1, <1>2, <1>3, PutLastPkt
<1>5. ASSUME NEW m \in Mbuf, NEW k, At(m, k)
      PROVE  \E h : At(m, h)'
  <2>1. InQueue(fanouts', m) <=> InQueue(fanouts, m) \/ m \in ret.pkt
    BY <1>1, <1>2, <1>4 DEF InQueue
  <2>2. CASE m \in ret.pkt
    <3>1. At(m, "fanouts")'
      BY <1>1, <1>5, <2>1, <2>2 DEF At, devices
    <3>2. QED
      BY <3>1
  <2>3. CASE m \notin ret.pkt
    <3>1. At(m, k)'
      BY <1>1, <1>5, <2>1, <2>3 DEF At, devices
    <3>2. QED
      BY <3>1
  <2>4. QED
    BY <2>2, <2>3
<1>6. \A m \in Mbuf : m \in ret.pkt => ~InQueue(fanouts, m)
  BY DEF Owned, Located, At
<1>7. \A n \in Node : OncePkt(fanouts'[n])
  BY <1>1, <1>2, <1>3, <1>4, <1>6 DEF Owned, Distinct, InQueue
<1>8. \A m \in Mbuf : \A n, k \in Node :
        InPkt(fanouts'[n], m) /\ InPkt(fanouts'[k], m) => n = k
  BY <1>1, <1>2, <1>4, <1>6 DEF Owned, Distinct, InQueue
<1>9. Distinct'
  BY <1>1, <1>7, <1>8 DEF Owned, Distinct, devices
<1>10. QED
  BY <1>5, <1>9 DEF Owned, Located

\* A burst comes from the receive queue into the Poll, which is empty.
LEMMA ReceiveOwned ==
  ASSUME TypeOK, StackInv, NothingLeftBehind, Owned, Receive
  PROVE  Owned'
<1>1. /\ UNCHANGED <<slot, bridge, fanouts, transmit_q, drop_q, free, txring,
                     channel, kni_ptrs>>
      /\ packets = <<>> /\ ret = Calling /\ ret' = Calling
  BY DEF Receive, NothingLeftBehind, StackInv, Enter
<1>2. PICK k \in 1 .. Len(rxring) :
        /\ packets' = SubSeq(rxring, 1, k)
        /\ rxring' = SubSeq(rxring, k + 1, Len(rxring))
  BY DEF Receive
<1>3. /\ \A m : In(rxring, m) <=> In(packets', m) \/ In(rxring', m)
      /\ Once(rxring) => Once(packets') /\ Once(rxring')
      /\ Once(rxring) => \A m : ~(In(packets', m) /\ In(rxring', m))
  <2>1. rxring \in Seq(Mbuf)
    BY DEF TypeOK
  <2>2. QED
    BY ONLY <1>2, <2>1, CutInTwo
<1>4. \A m : ~In(packets, m)
  BY <1>1 DEF In
<1>5. ASSUME NEW m \in Mbuf, NEW h, At(m, h)
      PROVE  \E g : At(m, g)'
  <2>1. CASE In(packets', m)
    <3>1. At(m, "packets")'
      BY <1>1, <1>3, <1>4, <1>5, <2>1 DEF At, Owned, Distinct
    <3>2. QED
      BY <3>1
  <2>2. CASE ~In(packets', m)
    <3>1. At(m, h)'
      BY <1>1, <1>3, <1>4, <1>5, <2>2 DEF At
    <3>2. QED
      BY <3>1
  <2>3. QED
    BY <2>1, <2>2
<1>6. Distinct'
  BY <1>1, <1>3 DEF Owned, Distinct
<1>7. QED
  BY <1>5, <1>6 DEF Owned, Located

\* A disposition that is taken adds its packet, if any, to a queue.
LEMMA AddOne ==
  ASSUME NEW q \in Seq(Mbuf), NEW d \in Disposition, d.tag \in {"act", "drop"}
  PROVE  /\ \A m : In(q \o SetToSeq(d.pkt), m) <=> In(q, m) \/ m \in d.pkt
         /\ Once(q) /\ (\A m \in d.pkt : ~In(q, m)) => Once(q \o SetToSeq(d.pkt))
<1>1. PICK x \in Mbuf : d.pkt = {x}
  BY DispositionFacts
<1>2. SetToSeq(d.pkt) = <<x>>
  BY <1>1, SequenceOfOne
<1>3. <<x>> \in Seq(Mbuf)
  OBVIOUS
<1>4. (\A m : In(<<x>>, m) <=> m = x) /\ Once(<<x>>)
  BY DEF In, Once
<1>5. QED
  BY <1>1, <1>2, <1>3, <1>4, Joined

\* The packet of the disposition taken goes to one of the queues of Send.
LEMMA TakeOwned ==
  ASSUME TypeOK, Owned, Take
  PROVE  Owned'
<1>1. /\ UNCHANGED <<parts, free, devices>> /\ ret'.pkt = {}
      /\ ret \in Disposition
  BY DEF Take, Enter, Calling, TypeOK
<1>2. CASE ret.tag = "act"
  <2>1. transmit_q' = transmit_q \o SetToSeq(ret.pkt) /\ drop_q' = drop_q
    BY <1>2 DEF Take
  <2>2. /\ \A m : In(transmit_q', m) <=> In(transmit_q, m) \/ m \in ret.pkt
        /\ Once(transmit_q) /\ (\A m \in ret.pkt : ~In(transmit_q, m))
             => Once(transmit_q')
    BY <1>1, <1>2, <2>1, AddOne DEF TypeOK
  <2>3. ASSUME NEW m \in Mbuf, NEW k, At(m, k)
        PROVE  \E h : At(m, h)'
    <3>1. CASE m \in ret.pkt
      <4>1. At(m, "transmit_q")'
        BY <1>1, <2>1, <2>2, <2>3, <3>1 DEF At, parts, devices
      <4>2. QED
        BY <4>1
    <3>2. CASE m \notin ret.pkt
      <4>1. At(m, k)'
        BY <1>1, <2>1, <2>2, <2>3, <3>2 DEF At, parts, devices
      <4>2. QED
        BY <4>1
    <3>3. QED
      BY <3>1, <3>2
  <2>4. \A m \in ret.pkt : ~In(transmit_q, m)
    BY <1>1, DispositionFacts DEF Owned, Located, At
  <2>5. Distinct'
    BY <1>1, <2>1, <2>2, <2>4 DEF Owned, Distinct, parts, devices
  <2>6. QED
    BY <2>3, <2>5 DEF Owned, Located
<1>3. CASE ret.tag = "drop"
  <2>1. drop_q' = drop_q \o SetToSeq(ret.pkt) /\ transmit_q' = transmit_q
    BY <1>3 DEF Take
  <2>2. /\ \A m : In(drop_q', m) <=> In(drop_q, m) \/ m \in ret.pkt
        /\ Once(drop_q) /\ (\A m \in ret.pkt : ~In(drop_q, m)) => Once(drop_q')
    BY <1>1, <1>3, <2>1, AddOne DEF TypeOK
  <2>3. ASSUME NEW m \in Mbuf, NEW k, At(m, k)
        PROVE  \E h : At(m, h)'
    <3>1. CASE m \in ret.pkt
      <4>1. At(m, "drop_q")'
        BY <1>1, <2>1, <2>2, <2>3, <3>1 DEF At, parts, devices
      <4>2. QED
        BY <4>1
    <3>2. CASE m \notin ret.pkt
      <4>1. At(m, k)'
        BY <1>1, <2>1, <2>2, <2>3, <3>2 DEF At, parts, devices
      <4>2. QED
        BY <4>1
    <3>3. QED
      BY <3>1, <3>2
  <2>4. \A m \in ret.pkt : ~In(drop_q, m)
    BY <1>1, DispositionFacts DEF Owned, Located, At
  <2>5. Distinct'
    BY <1>1, <2>1, <2>2, <2>4 DEF Owned, Distinct, parts, devices
  <2>6. QED
    BY <2>3, <2>5 DEF Owned, Located
<1>4. CASE ret.tag \in {"emit", "abort"}
  <2>1. ret.pkt = {} /\ UNCHANGED <<transmit_q, drop_q>>
    BY <1>1, <1>4, DispositionFacts DEF Take
  <2>2. QED
    BY <1>1, <2>1, Unmoved
<1>5. QED
  BY <1>2, <1>3, <1>4 DEF Take

\* The driver takes the first k packets of the transmit queue.
LEMMA TxBurstOwned ==
  ASSUME TypeOK, Owned, TxBurst
  PROVE  Owned'
<1>1. UNCHANGED <<calls, parts, drop_q, free, rxring, channel, kni_ptrs>>
  BY DEF TxBurst
<1>2. PICK k \in 1 .. Len(transmit_q) :
        /\ txring' = txring \o SubSeq(transmit_q, 1, k)
        /\ transmit_q' = SubSeq(transmit_q, k + 1, Len(transmit_q))
  BY DEF TxBurst
<1>3. PICK a : a = SubSeq(transmit_q, 1, k)
  OBVIOUS
<1>4. /\ \A m : In(transmit_q, m) <=> In(a, m) \/ In(transmit_q', m)
      /\ Once(transmit_q) => Once(a) /\ Once(transmit_q')
      /\ Once(transmit_q) => \A m : ~(In(a, m) /\ In(transmit_q', m))
  <2>1. transmit_q \in Seq(Mbuf)
    BY DEF TypeOK
  <2>2. QED
    BY ONLY <1>2, <1>3, <2>1, CutInTwo
<1>5. a \in Seq(Mbuf)
  BY <1>3, Cut DEF TypeOK
<1>6. /\ \A m : In(txring', m) <=> In(txring, m) \/ In(a, m)
      /\ Once(txring) /\ Once(a) /\ (\A m : ~(In(txring, m) /\ In(a, m)))
           => Once(txring')
  BY <1>2, <1>3, <1>5, Joined DEF TypeOK
<1>7. \A m : In(a, m) => m \in Mbuf
  BY <1>5 DEF In
<1>8. ASSUME NEW m \in Mbuf, NEW h, At(m, h)
      PROVE  \E g : At(m, g)'
  <2>1. CASE In(a, m)
    <3>1. At(m, "txring")'
      BY <1>1, <1>4, <1>6, <1>8, <2>1
         DEF At, Owned, Distinct, calls, parts
    <3>2. QED
      BY <3>1
  <2>2. CASE ~In(a, m)
    <3>1. At(m, h)'
      BY <1>1, <1>4, <1>6, <1>8, <2>2 DEF At, calls, parts
    <3>2. QED
      BY <3>1
  <2>3. QED
    BY <2>1, <2>2
<1>9. \A m : ~(In(txring, m) /\ In(a, m))
  BY <1>4, <1>7 DEF Owned, Located, At
<1>10. Distinct'
  BY <1>1, <1>4, <1>6, <1>9 DEF Owned, Distinct, calls, parts
<1>11. QED
  BY <1>8, <1>10 DEF Owned, Located

\* A queue goes back to the mempool.
LEMMA GiveBackOwned ==
  ASSUME TypeOK, Owned, TxGiveUp \/ Reap
  PROVE  Owned'
<1>1. \A s, m : m \in Range(s) <=> In(s, m)
  BY DEF Range, In
<1>2. (\A m : ~In(<<>>, m)) /\ Once(<<>>)
  BY DEF In, Once
<1>3. UNCHANGED <<calls, parts, devices>>
  BY DEF TxGiveUp, Reap
<1>4. CASE TxGiveUp
  <2>1. /\ transmit_q' = <<>> /\ drop_q' = drop_q
        /\ free' = free \union Range(transmit_q)
    BY <1>4 DEF TxGiveUp
  <2>2. ASSUME NEW m \in Mbuf, NEW k, At(m, k)
        PROVE  \E h : At(m, h)'
    <3>1. CASE In(transmit_q, m)
      <4>1. At(m, "free")'
        BY <1>1, <1>2, <1>3, <2>1, <2>2, <3>1 DEF At, calls, parts, devices
      <4>2. QED
        BY <4>1
    <3>2. CASE ~In(transmit_q, m)
      <4>1. At(m, k)'
        BY <1>1, <1>2, <1>3, <2>1, <2>2, <3>2 DEF At, calls, parts, devices
      <4>2. QED
        BY <4>1
    <3>3. QED
      BY <3>1, <3>2
  <2>3. Distinct'
    BY <1>2, <1>3, <2>1 DEF Owned, Distinct, calls, parts, devices
  <2>4. QED
    BY <2>2, <2>3 DEF Owned, Located
<1>5. CASE Reap
  <2>1. /\ drop_q' = <<>> /\ transmit_q' = transmit_q
        /\ free' = free \union Range(drop_q)
    BY <1>5 DEF Reap
  <2>2. ASSUME NEW m \in Mbuf, NEW k, At(m, k)
        PROVE  \E h : At(m, h)'
    <3>1. CASE In(drop_q, m)
      <4>1. At(m, "free")'
        BY <1>1, <1>2, <1>3, <2>1, <2>2, <3>1 DEF At, calls, parts, devices
      <4>2. QED
        BY <4>1
    <3>2. CASE ~In(drop_q, m)
      <4>1. At(m, k)'
        BY <1>1, <1>2, <1>3, <2>1, <2>2, <3>2 DEF At, calls, parts, devices
      <4>2. QED
        BY <4>1
    <3>3. QED
      BY <3>1, <3>2
  <2>3. Distinct'
    BY <1>2, <1>3, <2>1 DEF Owned, Distinct, calls, parts, devices
  <2>4. QED
    BY <2>2, <2>3 DEF Owned, Located
<1>6. QED
  BY <1>4, <1>5

\* The devices take a free buffer for a frame, and free one that is sent.
LEMMA NicOwned ==
  ASSUME TypeOK, Owned, NicReceive \/ NicTransmit
  PROVE  Owned'
<1>1. UNCHANGED <<calls, parts, transmit_q, drop_q, channel, kni_ptrs>>
  BY DEF NicReceive, NicTransmit, results
<1>2. CASE NicReceive
  <2>1. PICK x \in free : /\ free' = free \ {x} /\ txring' = txring
                          /\ rxring' = Append(rxring, x)
    BY <1>2 DEF NicReceive
  <2>2. x \in Mbuf
    BY DEF TypeOK
  <2>3. /\ \A m : In(rxring', m) <=> In(rxring, m) \/ m = x
        /\ Once(rxring) /\ ~In(rxring, x) => Once(rxring')
    BY <2>1, <2>2, PutLast DEF TypeOK
  <2>4. ASSUME NEW m \in Mbuf, NEW k, At(m, k)
        PROVE  \E h : At(m, h)'
    <3>1. CASE m = x
      <4>1. At(m, "rxring")'
        BY <1>1, <2>1, <2>3, <2>4, <3>1 DEF At, calls, parts
      <4>2. QED
        BY <4>1
    <3>2. CASE m # x
      <4>1. At(m, k)'
        BY <1>1, <2>1, <2>3, <2>4, <3>2 DEF At, calls, parts
      <4>2. QED
        BY <4>1
    <3>3. QED
      BY <3>1, <3>2
  <2>5. ~In(rxring, x)
    BY <2>2 DEF Owned, Located, At
  <2>6. Distinct'
    BY <1>1, <2>1, <2>3, <2>5 DEF Owned, Distinct, calls, parts
  <2>7. QED
    BY <2>4, <2>6 DEF Owned, Located
<1>3. CASE NicTransmit
  <2>1. PICK x : /\ x = Head(txring) /\ txring' = Tail(txring)
                 /\ free' = free \union {x} /\ rxring' = rxring
    BY <1>3 DEF NicTransmit
  <2>2. /\ \A m : In(txring, m) <=> m = x \/ In(txring', m)
        /\ Once(txring) => Once(txring') /\ ~In(txring', x)
    BY <1>3, <2>1, TakeHead DEF TypeOK, NicTransmit
  <2>3. ASSUME NEW m \in Mbuf, NEW k, At(m, k)
        PROVE  \E h : At(m, h)'
    <3>1. CASE m = x
      <4>1. At(m, "free")'
        BY <1>1, <2>1, <2>2, <2>3, <3>1
           DEF At, Owned, Distinct, calls, parts
      <4>2. QED
        BY <4>1
    <3>2. CASE m # x
      <4>1. At(m, k)'
        BY <1>1, <2>1, <2>2, <2>3, <3>2 DEF At, calls, parts
      <4>2. QED
        BY <4>1
    <3>3. QED
      BY <3>1, <3>2
  <2>4. Distinct'
    BY <1>1, <2>1, <2>2 DEF Owned, Distinct, calls, parts
  <2>5. QED
    BY <2>3, <2>4 DEF Owned, Located
<1>4. QED
  BY <1>2, <1>3

\* KniTx takes a batch of the channel, and frees it.
LEMMA KniOwned ==
  ASSUME TypeOK, Owned, KniTake \/ KniGiveUp
  PROVE  Owned'
<1>1. UNCHANGED <<calls, parts, transmit_q, drop_q, rxring, txring>>
  BY DEF KniTake, KniGiveUp, results
<1>2. CASE KniTake
  <2>1. PICK S : /\ S = Head(channel) /\ channel' = Tail(channel)
                 /\ kni_ptrs = {} /\ kni_ptrs' = S /\ free' = free
    BY <1>2 DEF KniTake
  <2>2. /\ \A m : InSet(channel, m) <=> m \in S \/ InSet(channel', m)
        /\ OnceSet(channel) => OnceSet(channel')
        /\ OnceSet(channel) => \A m \in S : ~InSet(channel', m)
    BY <1>2, <2>1, TakeHeadSet DEF TypeOK, KniTake
  <2>3. ASSUME NEW m \in Mbuf, NEW k, At(m, k)
        PROVE  \E h : At(m, h)'
    <3>1. CASE m \in S
      <4>1. At(m, "kni")'
        BY <1>1, <2>1, <2>2, <2>3, <3>1
           DEF At, Owned, Distinct, calls, parts
      <4>2. QED
        BY <4>1
    <3>2. CASE m \notin S
      <4>1. At(m, k)'
        BY <1>1, <2>1, <2>2, <2>3, <3>2 DEF At, calls, parts
      <4>2. QED
        BY <4>1
    <3>3. QED
      BY <3>1, <3>2
  <2>4. Distinct'
    BY <1>1, <2>2 DEF Owned, Distinct, calls, parts
  <2>5. QED
    BY <2>3, <2>4 DEF Owned, Located
<1>3. CASE KniGiveUp
  <2>1. /\ free' = free \union kni_ptrs /\ kni_ptrs' = {} /\ channel' = channel
    BY <1>3 DEF KniGiveUp
  <2>2. ASSUME NEW m \in Mbuf, NEW k, At(m, k)
        PROVE  \E h : At(m, h)'
    <3>1. CASE m \in kni_ptrs
      <4>1. At(m, "free")'
        BY <1>1, <2>1, <2>2, <3>1 DEF At, calls, parts
      <4>2. QED
        BY <4>1
    <3>2. CASE m \notin kni_ptrs
      <4>1. At(m, k)'
        BY <1>1, <2>1, <2>2, <3>2 DEF At, calls, parts
      <4>2. QED
        BY <4>1
    <3>3. QED
      BY <3>1, <3>2
  <2>3. Distinct'
    BY <1>1, <2>1 DEF Owned, Distinct, calls, parts
  <2>4. QED
    BY <2>2, <2>3 DEF Owned, Located
<1>4. QED
  BY <1>2, <1>3

\* What moves no packet: a call, an answer that is passed on, the end of the
\* loop.
LEMMA UnmovedOwned ==
  ASSUME TypeOK, Owned, Ask \/ PassOn \/ EndPull \/ UNCHANGED vars
  PROVE  Owned'
<1>1. UNCHANGED <<parts, transmit_q, drop_q, free, devices>>
  BY DEF Ask, PassOn, EndPull, results, vars
<1>2. ret'.pkt = ret.pkt
  <2>1. ret \in Disposition
    BY DEF TypeOK
  <2>2. CASE Ask
    BY <2>2 DEF Ask, Called, Enter
  <2>3. CASE PassOn
    BY <2>3 DEF PassOn, Give
  <2>4. CASE EndPull
    BY <2>1, <2>4, DispositionFacts DEF EndPull, Calling
  <2>5. CASE UNCHANGED vars
    BY <2>5 DEF vars, calls
  <2>6. QED
    BY <2>2, <2>3, <2>4, <2>5
<1>3. QED
  BY <1>1, <1>2, Unmoved

\* Every step keeps each packet in one place.
LEMMA OwnedStep ==
  ASSUME IInv, NothingLeftBehind, Owned, [Next]_vars
  PROVE  Owned'
BY PollOwned, BridgeOwned, SlotOwned, QueueOwned, ApplyOwned, EmitOwned,
   ReplaceOwned, SplitOwned, GatherOwned, ReceiveOwned, TakeOwned,
   TxBurstOwned, GiveBackOwned, NicOwned, KniOwned, UnmovedOwned
   DEF IInv, Next, RunStep, NextDisposition

\* At first every packet is in the mempool and nowhere else.
LEMMA InitOwned == Init => Owned
<1> SUFFICES ASSUME Init PROVE Owned
  OBVIOUS
<1>1. \A m : ~In(<<>>, m) /\ ~InSet(<<>>, m) /\ ~InPkt(<<>>, m)
  BY DEF In, InSet, InPkt
<1>2. Once(<<>>) /\ OnceSet(<<>>) /\ OncePkt(<<>>)
  BY DEF Once, OnceSet, OncePkt
<1>3. ASSUME NEW m \in Mbuf PROVE At(m, "free")
  <2>1. ~InSome(slot, m) /\ ~InSome(bridge, m) /\ ~InQueue(fanouts, m)
    BY <1>1 DEF Init, InSome, InQueue
  <2>2. QED
    BY <1>1, <2>1 DEF Init, At, Calling
<1>4. Distinct
  BY <1>1, <1>2 DEF Init, Distinct
<1>5. QED
  BY <1>3, <1>4 DEF Owned, Located

\* The places of a buffer, one kind after the other.
LEMMA PlacesOf ==
  ASSUME NEW m, NEW h
  PROVE  h \in Places(m) <=>
    \/ \E i \in DOMAIN packets : packets[i] = m /\ h = <<"packets", i>>
    \/ \E i \in DOMAIN rxring : rxring[i] = m /\ h = <<"rxring", i>>
    \/ \E i \in DOMAIN txring : txring[i] = m /\ h = <<"txring", i>>
    \/ \E i \in DOMAIN transmit_q : transmit_q[i] = m /\ h = <<"transmit_q", i>>
    \/ \E i \in DOMAIN drop_q : drop_q[i] = m /\ h = <<"drop_q", i>>
    \/ \E n \in Node : m \in slot[n] /\ h = <<"slot", n>>
    \/ \E n \in Node : m \in bridge[n] /\ h = <<"bridge", n>>
    \/ \E n \in Node : \E i \in DOMAIN fanouts[n] :
         m \in fanouts[n][i].pkt /\ h = <<"fanouts", <<n, i>>>>
    \/ \E i \in DOMAIN channel : m \in channel[i] /\ h = <<"channel", i>>
    \/ m \in free /\ h = <<"set", "free">>
    \/ m \in ret.pkt /\ h = <<"set", "ret">>
    \/ m \in kni_ptrs /\ h = <<"set", "kni">>
<1> DEFINE
  F == UNION {{<<"fanouts", <<n, i>>>> :
                 i \in {j \in DOMAIN fanouts[n] : m \in fanouts[n][j].pkt}} :
              n \in Node}
  K == {<<"set", s>> : s \in {k \in {"free", "ret", "kni"} :
          m \in CASE k = "free" -> free [] k = "ret" -> ret.pkt
                  [] k = "kni" -> kni_ptrs}}
  S == {<<"slot", n>> : n \in {k \in Node : m \in slot[k]}}
  B == {<<"bridge", n>> : n \in {k \in Node : m \in bridge[k]}}
  C == {<<"channel", i>> : i \in {j \in DOMAIN channel : m \in channel[j]}}
<1>1. \A name, s : h \in InSeq(name, s, m)
                     <=> \E i \in DOMAIN s : s[i] = m /\ h = <<name, i>>
  BY DEF InSeq
<1>2. h \in F <=> \E n \in Node : \E i \in DOMAIN fanouts[n] :
                    m \in fanouts[n][i].pkt /\ h = <<"fanouts", <<n, i>>>>
  OBVIOUS
<1>3. h \in K <=> \/ m \in free /\ h = <<"set", "free">>
                  \/ m \in ret.pkt /\ h = <<"set", "ret">>
                  \/ m \in kni_ptrs /\ h = <<"set", "kni">>
  OBVIOUS
<1>4. /\ h \in S <=> \E n \in Node : m \in slot[n] /\ h = <<"slot", n>>
      /\ h \in B <=> \E n \in Node : m \in bridge[n] /\ h = <<"bridge", n>>
      /\ h \in C <=> \E i \in DOMAIN channel :
                       m \in channel[i] /\ h = <<"channel", i>>
  OBVIOUS
<1>5. h \in Places(m) <=>
        \/ h \in InSeq("packets", packets, m) \/ h \in InSeq("rxring", rxring, m)
        \/ h \in InSeq("txring", txring, m)
        \/ h \in InSeq("transmit_q", transmit_q, m)
        \/ h \in InSeq("drop_q", drop_q, m)
        \/ h \in S \/ h \in B \/ h \in F \/ h \in C \/ h \in K
  <2>1. Places(m) =
          InSeq("packets", packets, m) \union InSeq("rxring", rxring, m)
            \union InSeq("txring", txring, m)
            \union InSeq("transmit_q", transmit_q, m)
            \union InSeq("drop_q", drop_q, m)
            \union S \union B \union F \union C \union K
    BY Zenon DEF Places
  <2> HIDE DEF F, K, S, B, C
  <2>2. QED
    BY <2>1
<1> HIDE DEF F, K, S, B, C
<1>6. QED
  BY <1>1, <1>2, <1>3, <1>4, <1>5

\* A packet of one kind of place, and once in it, is in one place.
LEMMA OwnedIsOnce == Owned => OwnedOnce
<1> SUFFICES ASSUME Owned, NEW m \in Mbuf
             PROVE  \E h \in Places(m) : Places(m) = {h}
  BY DEF OwnedOnce
<1>1. PICK k : At(m, k)
  BY DEF Owned, Located
<1>2. Distinct
  BY DEF Owned
<1>3. ASSUME NEW h, NEW g, h \in Places(m), g \in Places(m)
      PROVE  h = g
  <2>1. CASE k = "packets"
    <3>1. \E i \in DOMAIN packets : packets[i] = m /\ h = <<"packets", i>>
      BY <1>1, <1>3, <2>1, PlacesOf DEF At, In, InSome, InQueue, InPkt, InSet
    <3>2. \E i \in DOMAIN packets : packets[i] = m /\ g = <<"packets", i>>
      BY <1>1, <1>3, <2>1, PlacesOf DEF At, In, InSome, InQueue, InPkt, InSet
    <3>3. QED
      BY <1>2, <3>1, <3>2 DEF Distinct, Once
  <2>2. CASE k = "rxring"
    <3>1. \E i \in DOMAIN rxring : rxring[i] = m /\ h = <<"rxring", i>>
      BY <1>1, <1>3, <2>2, PlacesOf DEF At, In, InSome, InQueue, InPkt, InSet
    <3>2. \E i \in DOMAIN rxring : rxring[i] = m /\ g = <<"rxring", i>>
      BY <1>1, <1>3, <2>2, PlacesOf DEF At, In, InSome, InQueue, InPkt, InSet
    <3>3. QED
      BY <1>2, <3>1, <3>2 DEF Distinct, Once
  <2>3. CASE k = "txring"
    <3>1. \E i \in DOMAIN txring : txring[i] = m /\ h = <<"txring", i>>
      BY <1>1, <1>3, <2>3, PlacesOf DEF At, In, InSome, InQueue, InPkt, InSet
    <3>2. \E i \in DOMAIN txring : txring[i] = m /\ g = <<"txring", i>>
      BY <1>1, <1>3, <2>3, PlacesOf DEF At, In, InSome, InQueue, InPkt, InSet
    <3>3. QED
      BY <1>2, <3>1, <3>2 DEF Distinct, Once
  <2>4. CASE k = "transmit_q"
    <3>1. \E i \in DOMAIN transmit_q : transmit_q[i] = m /\ h = <<"transmit_q", i>>
      BY <1>1, <1>3, <2>4, PlacesOf DEF At, In, InSome, InQueue, InPkt, InSet
    <3>2. \E i \in DOMAIN transmit_q : transmit_q[i] = m /\ g = <<"transmit_q", i>>
      BY <1>1, <1>3, <2>4, PlacesOf DEF At, In, InSome, InQueue, InPkt, InSet
    <3>3. QED
      BY <1>2, <3>1, <3>2 DEF Distinct, Once
  <2>5. CASE k = "drop_q"
    <3>1. \E i \in DOMAIN drop_q : drop_q[i] = m /\ h = <<"drop_q", i>>
      BY <1>1, <1>3, <2>5, PlacesOf DEF At, In, InSome, InQueue, InPkt, InSet
    <3>2. \E i \in DOMAIN drop_q : drop_q[i] = m /\ g = <<"drop_q", i>>
      BY <1>1, <1>3, <2>5, PlacesOf DEF At, In, InSome, InQueue, InPkt, InSet
    <3>3. QED
      BY <1>2, <3>1, <3>2 DEF Distinct, Once
  <2>6. CASE k = "slot"
    <3>1. \E n \in Node : m \in slot[n] /\ h = <<"slot", n>>
      BY <1>1, <1>3, <2>6, PlacesOf DEF At, In, InSome, InQueue, InPkt, InSet
    <3>2. \E n \in Node : m \in slot[n] /\ g = <<"slot", n>>
      BY <1>1, <1>3, <2>6, PlacesOf DEF At, In, InSome, InQueue, InPkt, InSet
    <3>3. QED
      BY <1>2, <3>1, <3>2 DEF Distinct
  <2>7. CASE k = "bridge"
    <3>1. \E n \in Node : m \in bridge[n] /\ h = <<"bridge", n>>
      BY <1>1, <1>3, <2>7, PlacesOf DEF At, In, InSome, InQueue, InPkt, InSet
    <3>2. \E n \in Node : m \in bridge[n] /\ g = <<"bridge", n>>
      BY <1>1, <1>3, <2>7, PlacesOf DEF At, In, InSome, InQueue, InPkt, InSet
    <3>3. QED
      BY <1>2, <3>1, <3>2 DEF Distinct
  <2>8. CASE k = "fanouts"
    <3>1. PICK n \in Node : \E i \in DOMAIN fanouts[n] :
            m \in fanouts[n][i].pkt /\ h = <<"fanouts", <<n, i>>>>
      BY <1>1, <1>3, <2>8, PlacesOf DEF At, In, InSome, InQueue, InPkt, InSet
    <3>2. PICK l \in Node : \E i \in DOMAIN fanouts[l] :
            m \in fanouts[l][i].pkt /\ g = <<"fanouts", <<l, i>>>>
      BY <1>1, <1>3, <2>8, PlacesOf DEF At, In, InSome, InQueue, InPkt, InSet
    <3>3. n = l
      BY <1>2, <3>1, <3>2 DEF Distinct, InPkt
    <3>4. QED
      BY <1>2, <3>1, <3>2, <3>3 DEF Distinct, OncePkt
  <2>9. CASE k = "channel"
    <3>1. \E i \in DOMAIN channel : m \in channel[i] /\ h = <<"channel", i>>
      BY <1>1, <1>3, <2>9, PlacesOf DEF At, In, InSome, InQueue, InPkt, InSet
    <3>2. \E i \in DOMAIN channel : m \in channel[i] /\ g = <<"channel", i>>
      BY <1>1, <1>3, <2>9, PlacesOf DEF At, In, InSome, InQueue, InPkt, InSet
    <3>3. QED
      BY <1>2, <3>1, <3>2 DEF Distinct, OnceSet
  <2>10. CASE k \in {"free", "ret", "kni"}
    BY <1>1, <1>3, <2>10, PlacesOf DEF At, In, InSome, InQueue, InPkt, InSet
  <2>11. QED
    BY <1>1, <2>1, <2>2, <2>3, <2>4, <2>5,
       <2>6, <2>7, <2>8, <2>9, <2>10 DEF At
<1>4. \E h : h \in Places(m)
  <2>1. \/ In(packets, m) \/ In(rxring, m) \/ In(txring, m)
        \/ In(transmit_q, m) \/ In(drop_q, m)
        \/ InSome(slot, m) \/ InSome(bridge, m) \/ InQueue(fanouts, m)
        \/ InSet(channel, m) \/ m \in free \/ m \in ret.pkt \/ m \in kni_ptrs
    BY <1>1 DEF At
  <2>2. CASE In(packets, m) \/ In(rxring, m) \/ In(txring, m)
    BY <2>2, PlacesOf DEF In
  <2>3. CASE In(transmit_q, m) \/ In(drop_q, m)
    BY <2>3, PlacesOf DEF In
  <2>4. CASE InSome(slot, m) \/ InSome(bridge, m)
    BY <2>4, PlacesOf DEF InSome
  <2>5. CASE InQueue(fanouts, m)
    <3>1. PICK n \in Node : InPkt(fanouts[n], m)
      BY <2>5 DEF InQueue
    <3>2. PICK i \in DOMAIN fanouts[n] : m \in fanouts[n][i].pkt
      BY <3>1 DEF InPkt
    <3>3. PICK h : h = <<"fanouts", <<n, i>>>>
      OBVIOUS
    <3>4. h \in Places(m)
      BY <3>2, <3>3, PlacesOf
    <3>5. QED
      BY <3>4
  <2>6. CASE InSet(channel, m)
    BY <2>6, PlacesOf DEF InSet
  <2>7. CASE m \in free \/ m \in ret.pkt \/ m \in kni_ptrs
    BY <2>7, PlacesOf
  <2>8. QED
    BY <2>1, <2>2, <2>3, <2>4, <2>5, <2>6, <2>7
<1>5. QED
  BY <1>3, <1>4

\* The combinators own every packet between them: whatever is split, replaced,
\* filtered, emitted or aborted, each buffer is in exactly one place.
THEOREM PacketsOwnedOnce == Spec => []OwnedOnce
<1>1. Init => Owned
  BY InitOwned
<1>2. IInv /\ NothingLeftBehind /\ Owned /\ [Next]_vars => Owned'
  BY OwnedStep
<1>3. Owned => OwnedOnce
  BY OwnedIsOnce
<1>4. QED
  BY <1>1, <1>2, <1>3, InvHolds, RunsLeaveNothing, PTL DEF Spec

-----------------------------------------------------------------------------
(* The order.  The calls follow the chain of Send until a GroupBy asks a sub *)
(* batch, so that a Poll is reached only when every combinator of that chain *)
(* waits for it, and then no packet is still to be processed.                *)

PathInv ==
  \A k \in DOMAIN stack :
    \/ \E j \in DOMAIN stack :
         j < k /\ OnBranch(j) /\ stack[k] \in Chain[Asked(j)]
    \/ /\ \A i \in DOMAIN stack : i < k => ~OnBranch(i)
       /\ \A n \in Chain[Root] :
            n \in Chain[stack[k]] \/ \E i \in DOMAIN stack : i < k /\ n = stack[i]

\* m is still to be processed and has left the Poll.
Ahead(m) ==
  \/ ret.tag = "act" /\ m \in ret.pkt
  \/ \E n \in Node : m \in bridge[n]
  \/ \E n \in Node : \E i \in DOMAIN fanouts[n] :
       fanouts[n][i].tag = "act" /\ m \in fanouts[n][i].pkt

\* One packet at a time is ahead of those in the Poll and behind those that
\* Send has for transmission.
OrderInv ==
  /\ phase \in {"idle", "reap"} => transmit_q = <<>>
  /\ \A m, l \in Mbuf : Ahead(m) /\ Ahead(l) => m = l
  /\ \A m \in Mbuf : Ahead(m) =>
       /\ \A i \in DOMAIN transmit_q : rank[transmit_q[i]] < rank[m]
       /\ \A i \in DOMAIN packets : rank[m] < rank[packets[i]]
  /\ \A i \in DOMAIN transmit_q : \A j \in DOMAIN packets :
       rank[transmit_q[i]] < rank[packets[j]]
  /\ \A i, j \in DOMAIN packets : i < j => rank[packets[i]] < rank[packets[j]]
  /\ \A i, j \in DOMAIN transmit_q :
       i < j => rank[transmit_q[i]] < rank[transmit_q[j]]

\* PathInv is kept: calls follow the chain of Send or leave it at a GroupBy.
LEMMA PathStep ==
  ASSUME TypeOK, StackInv, StoreInv, PathInv, [Next]_vars
  PROVE  PathInv'
<1>1. CASE ReturnStep
  BY <1>1, ReturnBelow DEF PathInv
<1>2. CASE AskStep
  <2>1. PICK c \in Node : Asks(c)
    BY <1>2, AskFacts
  <2>2. /\ Len(stack) \in Nat /\ DOMAIN stack = 1 .. Len(stack)
        /\ DOMAIN stack' = 1 .. Len(stack) + 1
        /\ stack'[Len(stack) + 1] = c
        /\ \A i \in DOMAIN stack : stack'[i] = stack[i] /\ stack[i] \in Node
        /\ \A i \in DOMAIN stack : i # Len(stack) =>
             /\ Asked(i)' = Asked(i)
             /\ OnBranch(i)' <=> OnBranch(i)
        /\ stack # <<>> => Len(stack) \in DOMAIN stack
    BY <2>1, AskBelow
  <2>3. ASSUME NEW k \in DOMAIN stack, NEW p \in Node, p = stack'[k]
        PROVE  \/ \E j \in DOMAIN stack' :
                    j < k /\ OnBranch(j)' /\ p \in Chain[Asked(j)']
               \/ /\ \A i \in DOMAIN stack' : i < k => ~OnBranch(i)'
                  /\ \A n \in Chain[Root] :
                       n \in Chain[p] \/ \E i \in DOMAIN stack' : i < k /\ n = stack'[i]
    <3>1. \A i \in DOMAIN stack' : i < k => i \in DOMAIN stack /\ i # Len(stack)
      BY <2>2, <2>3
    <3>2. \A i \in DOMAIN stack : i \in DOMAIN stack'
      BY <2>2
    <3>3. \A i \in DOMAIN stack : i < k => i # Len(stack)
      BY <2>2, <2>3
    <3>4. p = stack[k]
      BY <2>2, <2>3
    <3>5. QED
      BY <2>2, <3>1, <3>2, <3>3, <3>4 DEF PathInv
  <2>4. ASSUME NEW k, k = Len(stack) + 1
        PROVE  \/ \E j \in DOMAIN stack' :
                    j < k /\ OnBranch(j)' /\ c \in Chain[Asked(j)']
               \/ /\ \A i \in DOMAIN stack' : i < k => ~OnBranch(i)'
                  /\ \A n \in Chain[Root] :
                       n \in Chain[c] \/ \E i \in DOMAIN stack' : i < k /\ n = stack'[i]
    <3>1. CASE stack = <<>>
      <4>1. c = Root /\ DOMAIN stack = {}
        BY <2>1, <3>1 DEF Asks
      <4>2. \A i \in DOMAIN stack' : ~(i < k)
        BY <2>2, <2>4, <3>1
      <4>3. QED
        BY <4>1, <4>2
    <3>2. CASE stack # <<>>
      <4>1. PICK l \in DOMAIN stack : l = Len(stack) /\ stack[l] = Top
        BY <2>1, <3>2, AskBelow
      <4>2. /\ Top \in Node /\ c \in Calls(Top) /\ l \in DOMAIN stack' /\ l < k
            /\ Asked(l)' = c /\ stack'[l] = Top
            /\ OnBranch(l)' <=> Kind[Top] = "group_by" /\ c \in Branches[Top]
        <5>1. c \in Calls(Top)
          BY <2>1, <3>2 DEF Asks
        <5>2. l \in DOMAIN stack' /\ l < k
          BY <2>2, <2>4, <4>1
        <5>3. QED
          BY <2>1, <2>2, <4>1, <5>1, <5>2, AskBelow
      <4>3. CASE OnBranch(l)'
        <5>1. c \in Chain[c]
          BY ChainOf
        <5>2. QED
          BY <4>2, <4>3, <5>1
      <4>4. CASE ~OnBranch(l)'
        <5>1. Kind[Top] \in Waiting /\ c = Up[Top]
          BY <4>2, <4>4 DEF Calls
        <5>2. \A i \in DOMAIN stack : i < l => i \in DOMAIN stack' /\ i < k /\ i # Len(stack)
          BY <2>2, <2>4, <4>1
        <5>3. \A i \in DOMAIN stack' : i < k => i = l \/ (i \in DOMAIN stack /\ i < l /\ i # Len(stack))
          BY <2>2, <2>4, <4>1
        <5>4. CASE \E j \in DOMAIN stack :
                     j < l /\ OnBranch(j) /\ Top \in Chain[Asked(j)]
          <6>1. PICK j \in DOMAIN stack :
                  j < l /\ OnBranch(j) /\ Top \in Chain[Asked(j)]
            BY <5>4
          <6>2. Asked(j) \in Node
            BY <2>2, <6>1, Kindly DEF OnBranch
          <6>3. c \in Chain[Asked(j)]
            BY <4>2, <5>1, <6>1, <6>2, ChainOf, TreeAssumption
          <6>4. QED
            BY <2>2, <5>2, <6>1, <6>3
        <5>5. CASE /\ \A i \in DOMAIN stack : i < l => ~OnBranch(i)
                   /\ \A n \in Chain[Root] :
                        \/ n \in Chain[Top]
                        \/ \E i \in DOMAIN stack : i < l /\ n = stack[i]
          <6>1. \A i \in DOMAIN stack' : i < k => ~OnBranch(i)'
            BY <2>2, <4>4, <5>3, <5>5
          <6>2. Chain[Top] = {Top} \union Chain[c]
            BY <4>2, <5>1, ChainOf
          <6>3. \A n \in Chain[Root] :
                  n \in Chain[c] \/ \E i \in DOMAIN stack' : i < k /\ n = stack'[i]
            BY <2>2, <4>2, <5>2, <5>5, <6>2
          <6>4. QED
            BY <6>1, <6>3
        <5>6. QED
          BY <4>1, <5>4, <5>5 DEF PathInv
      <4>5. QED
        BY <4>3, <4>4
    <3>3. QED
      BY <3>1, <3>2
  <2>5. ASSUME NEW k \in DOMAIN stack'
        PROVE  \/ \E j \in DOMAIN stack' :
                    j < k /\ OnBranch(j)' /\ stack'[k] \in Chain[Asked(j)']
               \/ /\ \A i \in DOMAIN stack' : i < k => ~OnBranch(i)'
                  /\ \A n \in Chain[Root] :
                       \/ n \in Chain[stack'[k]]
                       \/ \E i \in DOMAIN stack' : i < k /\ n = stack'[i]
    <3>1. k \in DOMAIN stack \/ k = Len(stack) + 1
      BY <2>2
    <3>2. k \in DOMAIN stack => stack'[k] \in Node
      BY <2>2
    <3>3. QED
      BY <2>2, <2>3, <2>4, <3>1, <3>2
  <2>6. QED
    BY <2>5 DEF PathInv
<1>3. CASE EndPull
  BY <1>3 DEF EndPull, PathInv
<1>4. CASE Aside
  BY <1>4, AsideCalls DEF PathInv
<1>5. QED
  BY <1>1, <1>2, <1>3, <1>4, StepClasses

\* When the Poll is called, nothing that has left it is still to be processed.
LEMMA NoneAhead ==
  ASSUME IInv, PathInv, Called({"poll"}), NEW m
  PROVE  ~Ahead(m)
<1>1. /\ TypeOK /\ Running /\ Kind[Top] = "poll" /\ ret = Calling
      /\ StoreInv /\ BridgeInv /\ HeldInv
  BY DEF IInv, Called
<1>2. PICK l \in DOMAIN stack : /\ l = Len(stack) /\ stack[l] = Top /\ ~Waits(l)
                                /\ DOMAIN stack = 1 .. Len(stack)
                                /\ Len(stack) \in Nat
  BY <1>1, TopIsLast
<1>3. \A j \in DOMAIN stack : OnBranch(j) =>
        Asked(j) \in Node /\ \A n \in Chain[Asked(j)] : Kind[n] # "poll"
  <2>1. \A j \in DOMAIN stack : stack[j] \in Node
    BY <1>1 DEF TypeOK
  <2>2. QED
    BY <2>1, Kindly, TreeAssumption DEF OnBranch
<1>4. /\ \A i \in DOMAIN stack : i < l => ~OnBranch(i)
      /\ \A n \in Chain[Root] :
           n \in Chain[Top] \/ \E i \in DOMAIN stack : i < l /\ n = stack[i]
  BY <1>1, <1>2, <1>3 DEF PathInv
<1>5. \A i \in DOMAIN stack : ~OnBranch(i)
  <2>1. ~OnBranch(l)
    BY <1>2 DEF OnBranch
  <2>2. \A i \in DOMAIN stack : i < l \/ i = l
    BY <1>2
  <2>3. QED
    BY <1>4, <2>1, <2>2
<1>6. \A n \in Node : bridge[n] = {}
  BY <1>1, <1>5 DEF BridgeInv
<1>7. ASSUME NEW n \in Node PROVE fanouts[n] = <<>>
  <2>1. CASE n \in Chain[Root]
    <3>1. Top \in Node /\ Chain[Top] = {Top}
      BY <1>1, CallTypes, ChainOf DEF TypeOK
    <3>2. CASE n = Top
      BY <1>1, <3>1, <3>2 DEF StoreInv
    <3>3. CASE n # Top
      <4>1. PICK i \in DOMAIN stack : i < l /\ n = stack[i]
        BY <1>4, <2>1, <3>1, <3>3
      <4>2. Waits(i)
        BY <1>2, <4>1 DEF Waits
      <4>3. QED
        BY <1>1, <1>5, <4>1, <4>2 DEF StoreInv
    <3>4. QED
      BY <3>2, <3>3
  <2>2. CASE n \notin Chain[Root]
    BY <1>1, <1>5, <2>2 DEF HeldInv, Live
  <2>3. QED
    BY <2>1, <2>2
<1>8. QED
  BY <1>1, <1>6, <1>7 DEF Ahead, Calling

\* A step keeps the order if it moves no packet into the Poll, the queue or
\* among those that are ahead.
LEMMA OrderKept ==
  ASSUME OrderInv, UNCHANGED <<packets, transmit_q, rank>>,
         phase' \in {"idle", "reap"} => transmit_q = <<>>,
         \A m \in Mbuf : Ahead(m)' => Ahead(m)
  PROVE  OrderInv'
BY DEF OrderInv

\* What is returned, fed to a sub batch or gathered was ahead before.
LEMMA AheadBefore ==
  ASSUME TypeOK, NEW m \in Mbuf, Ahead(m)',
         \/ BridgeNext \/ SlotNext \/ FanoutNext \/ Merge \/ Ask \/ PassOn
         \/ Apply \/ Emit \/ Split \/ Gather \/ EndPull \/ Take \/ Aside
  PROVE  Ahead(m)
<1>1. CASE BridgeNext
  <2>1. /\ Up[Top] \in Node /\ fanouts' = fanouts
        /\ bridge' = [bridge EXCEPT ![Up[Top]] = {}]
        /\ ret'.pkt = bridge[Up[Top]]
    BY <1>1, CallTypes
       DEF BridgeNext, Called, TypeOK, Give, Act, Exhausted
  <2>2. QED
    BY <2>1 DEF Ahead, TypeOK
<1>2. CASE SlotNext
  BY <1>2 DEF SlotNext, Give, DropOf, Ahead
<1>3. CASE FanoutNext \/ Merge
  <2>1. /\ Top \in Node /\ fanouts[Top] # <<>> /\ bridge' = bridge
        /\ fanouts' = [fanouts EXCEPT ![Top] = Tail(@)]
        /\ ret' = Head(fanouts[Top])
    BY <1>3, CallTypes
       DEF FanoutNext, Merge, FromBranch, Called, Give, TypeOK
  <2>2. PICK s \in Seq(Disposition) : s = fanouts[Top]
    BY <2>1 DEF TypeOK
  <2>3. /\ ret' = s[1] /\ 1 \in DOMAIN s
        /\ \A i \in DOMAIN Tail(s) : i + 1 \in DOMAIN s /\ Tail(s)[i] = s[i + 1]
    BY <2>1, <2>2, HeadTail
  <2>4. \A n \in Node : fanouts'[n] = IF n = Top THEN Tail(s) ELSE fanouts[n]
    BY <2>1, <2>2 DEF TypeOK
  <2>5. CASE ret'.tag = "act" /\ m \in ret'.pkt
    BY <2>1, <2>2, <2>3, <2>5 DEF Ahead
  <2>6. CASE \E n \in Node : m \in bridge'[n]
    BY <2>1, <2>6 DEF Ahead
  <2>7. ASSUME NEW n \in Node, NEW i \in DOMAIN fanouts'[n],
               fanouts'[n][i].tag = "act" /\ m \in fanouts'[n][i].pkt
        PROVE  Ahead(m)
    <3>1. CASE n = Top
      BY <2>1, <2>2, <2>3, <2>4, <2>7, <3>1 DEF Ahead
    <3>2. CASE n # Top
      BY <2>4, <2>7, <3>2 DEF Ahead
    <3>3. QED
      BY <3>1, <3>2
  <2>8. QED
    BY <2>5, <2>6, <2>7 DEF Ahead
<1>4. CASE Ask \/ EndPull \/ Take
  BY <1>4 DEF Ask, EndPull, Take, Enter, Calling, Ahead, parts
<1>5. CASE PassOn
  BY <1>5 DEF PassOn, Give, Ahead, parts
<1>6. CASE Apply
  <2>1. ret.tag = "act" /\ UNCHANGED parts
    BY <1>6 DEF Apply
  <2>2. ret'.pkt = ret.pkt \/ ret'.pkt = {}
    BY <1>6 DEF Apply, Give, Aborted, TypeOK, Disposition, Emitted,
         Exhausted, Calling
  <2>3. QED
    BY <2>1, <2>2 DEF Ahead, parts
<1>7. CASE Emit
  BY <1>7 DEF Emit, Give, Emitted, Ahead, parts
<1>8. CASE Split
  <2>1. /\ ret.tag = "act" /\ ret' = Calling /\ fanouts' = fanouts
        /\ bridge' = [bridge EXCEPT ![Top] = ret.pkt]
    BY <1>8 DEF Split, Enter
  <2>2. QED
    BY <2>1 DEF Ahead, Calling, TypeOK
<1>9. CASE Gather
  <2>1. /\ Top \in Node /\ ret' = Calling /\ bridge' = bridge /\ ret \in Disposition
        /\ fanouts' = [fanouts EXCEPT ![Top] = Append(@, ret)]
    BY <1>9, CallTypes DEF Gather, FromBranch, Enter, TypeOK
  <2>2. PICK s \in Seq(Disposition) : s = fanouts[Top]
    BY <2>1 DEF TypeOK
  <2>3. \A i \in DOMAIN Append(s, ret) :
          \/ i \in DOMAIN s /\ Append(s, ret)[i] = s[i]
          \/ Append(s, ret)[i] = ret
    BY <2>1, <2>2, AppendFacts
  <2>4. \A n \in Node : fanouts'[n] = IF n = Top THEN Append(s, ret) ELSE fanouts[n]
    BY <2>1, <2>2 DEF TypeOK
  <2>5. CASE \E n \in Node : m \in bridge'[n]
    BY <2>1, <2>5 DEF Ahead
  <2>6. ASSUME NEW n \in Node, NEW i \in DOMAIN fanouts'[n],
               fanouts'[n][i].tag = "act" /\ m \in fanouts'[n][i].pkt
        PROVE  Ahead(m)
    <3>1. CASE n = Top
      BY <2>1, <2>2, <2>3, <2>4, <2>6, <3>1 DEF Ahead
    <3>2. CASE n # Top
      BY <2>4, <2>6, <3>2 DEF Ahead
    <3>3. QED
      BY <3>1, <3>2
  <2>7. QED
    BY <2>1, <2>5, <2>6 DEF Ahead, Calling
<1>10. CASE Aside
  BY <1>10, AsideCalls DEF Ahead
<1>11. QED
  BY <1>1, <1>2, <1>3, <1>4, <1>5, <1>6, <1>7, <1>8, <1>9, <1>10

\* The packet of the disposition at hand is in no bridge and no queue.
LEMMA InHand ==
  ASSUME TypeOK, Owned, ret.tag = "act", NEW x \in Mbuf, x \in ret.pkt
  PROVE  /\ Ahead(x) /\ x \notin free
         /\ \A n \in Node : x \notin bridge[n]
         /\ \A n \in Node : \A i \in DOMAIN fanouts[n] : x \notin fanouts[n][i].pkt
<1>1. PICK k : At(x, k)
  BY DEF Owned, Located
<1>2. x \notin free /\ ~InSome(bridge, x) /\ ~InQueue(fanouts, x)
  BY <1>1 DEF At
<1>3. QED
  BY <1>2 DEF Ahead, InSome, InQueue, InPkt

\* The packet that leaves the Poll is the only one ahead.
LEMMA PollOrder ==
  ASSUME IInv, PathInv, OrderInv, PollNext
  PROVE  OrderInv'
<1>1. /\ UNCHANGED <<slot, bridge, fanouts, transmit_q, rank>>
      /\ phase' = phase /\ phase = "pull" /\ packets \in Seq(Mbuf)
  BY DEF PollNext, Called, Running, results, history, IInv, TypeOK
<1>2. \A m : ~Ahead(m)
  BY NoneAhead DEF PollNext
<1>3. CASE packets = <<>>
  <2>1. ret' = Exhausted /\ packets' = packets
    BY <1>3 DEF PollNext, Give
  <2>2. \A m \in Mbuf : ~Ahead(m)'
    BY <1>1, <1>2, <2>1 DEF Ahead, Exhausted
  <2>3. QED
    BY <1>1, <2>1, <2>2, OrderKept
<1>4. CASE packets # <<>>
  <2>1. PICK x : x = Head(packets) /\ ret' = Act({x}) /\ packets' = Tail(packets)
    BY <1>4 DEF PollNext, Give
  <2>2. /\ x = packets[1] /\ 1 \in DOMAIN packets /\ x \in Mbuf
        /\ \A i \in DOMAIN packets' :
             i + 1 \in DOMAIN packets /\ packets'[i] = packets[i + 1] /\ 1 < i + 1
        /\ \A i, j \in DOMAIN packets' : i < j => i + 1 < j + 1
    BY <1>1, <1>4, <2>1, HeadTail
  <2>3. \A m \in Mbuf : Ahead(m)' => m = x
    BY <1>1, <1>2, <2>1 DEF Ahead, Act
  <2>4. \A i \in DOMAIN transmit_q : rank[transmit_q[i]] < rank[x]
    BY <2>2 DEF OrderInv
  <2>5. \A i \in DOMAIN packets' : rank[x] < rank[packets'[i]]
    BY <2>2 DEF OrderInv
  <2>6. \A i \in DOMAIN transmit_q : \A j \in DOMAIN packets' :
          rank[transmit_q[i]] < rank[packets'[j]]
    BY <2>2 DEF OrderInv
  <2>7. \A i, j \in DOMAIN packets' : i < j => rank[packets'[i]] < rank[packets'[j]]
    BY <2>2 DEF OrderInv
  <2>8. QED
    BY <1>1, <2>3, <2>4, <2>5, <2>6, <2>7 DEF OrderInv
<1>5. QED
  BY <1>3, <1>4

\* The packet that replaces another has its rank, and the other is to be
\* dropped.
LEMMA ReplaceOrder ==
  ASSUME IInv, Owned, OrderInv, Replace
  PROVE  OrderInv'
<1>1. /\ UNCHANGED <<packets, bridge, fanouts, transmit_q, phase>>
      /\ ret.tag = "act" /\ TypeOK /\ ret \in Disposition
      /\ phase = "pull"
  BY DEF Replace, Answered, Running, results, IInv, TypeOK
<1>2. PICK o \in Mbuf : ret.pkt = {o}
  BY <1>1, DispositionFacts
<1>3. CASE ret' = Aborted /\ rank' = rank
  <2>1. \A m \in Mbuf : Ahead(m)' => Ahead(m)
    BY <1>1, <1>3 DEF Ahead, Aborted
  <2>2. QED
    BY <1>1, <1>3, <2>1, OrderKept
<1>4. ASSUME NEW x \in free, ret' = Act({x}),
             rank' = [rank EXCEPT ![x] = rank[CHOOSE m \in ret.pkt : TRUE]]
      PROVE  OrderInv'
  <2>1. x \in Mbuf /\ rank \in [Mbuf -> Nat]
    BY <1>1 DEF TypeOK
  <2>2. (CHOOSE m \in ret.pkt : TRUE) = o
    BY <1>2
  <2>3. rank'[x] = rank[o] /\ \A m \in Mbuf : m # x => rank'[m] = rank[m]
    BY <1>4, <2>1, <2>2
  <2>4. Ahead(o) /\ \A m \in Mbuf : Ahead(m) => m = o
    BY <1>1, <1>2, InHand DEF OrderInv
  <2>5. \A m \in Mbuf : Ahead(m)' => m = x
    <3>1. ASSUME NEW m \in Mbuf, Ahead(m)', m # x PROVE FALSE
      <4>1. \/ \E n \in Node : m \in bridge[n]
            \/ \E n \in Node : \E i \in DOMAIN fanouts[n] :
                 fanouts[n][i].tag = "act" /\ m \in fanouts[n][i].pkt
        BY <1>1, <1>4, <3>1 DEF Ahead, Act
      <4>2. Ahead(m)
        BY <4>1 DEF Ahead
      <4>3. m = o
        BY <2>4, <4>2
      <4>4. QED
        BY <1>1, <1>2, <4>1, <4>3, InHand
    <3>2. QED
      BY <3>1
  <2>6. PICK k : At(x, k)
    BY <2>1 DEF Owned, Located
  <2>7. ~In(transmit_q, x) /\ ~In(packets, x)
    BY <1>4, <2>6 DEF At
  <2>8. /\ \A i \in DOMAIN transmit_q : transmit_q[i] \in Mbuf /\ transmit_q[i] # x
        /\ \A i \in DOMAIN packets : packets[i] \in Mbuf /\ packets[i] # x
    BY <1>1, <2>7 DEF TypeOK, In
  <2>9. /\ \A i \in DOMAIN transmit_q : rank'[transmit_q[i]] < rank'[x]
        /\ \A i \in DOMAIN packets : rank'[x] < rank'[packets[i]]
    BY <2>3, <2>4, <2>8 DEF OrderInv
  <2>10. QED
    BY <1>1, <2>3, <2>5, <2>8, <2>9 DEF OrderInv
<1>5. QED
  BY <1>3, <1>4 DEF Replace, Give

\* The ranks are given in the order of the burst.
LEMMA ReceiveOrder ==
  ASSUME IInv, NothingLeftBehind, Owned, OrderInv, Receive
  PROVE  OrderInv'
<1>1. /\ UNCHANGED <<bridge, fanouts, transmit_q>> /\ phase = "idle"
      /\ phase' = "pull" /\ ret' = Calling /\ rxring \in Seq(Mbuf)
  BY DEF Receive, Enter, IInv, TypeOK
<1>2. transmit_q' = <<>>
  BY <1>1 DEF OrderInv
<1>3. \A m \in Mbuf : ~Ahead(m)'
  BY <1>1 DEF NothingLeftBehind, Ahead, Calling
<1>4. PICK k \in 1 .. Len(rxring) :
        /\ packets' = SubSeq(rxring, 1, k)
        /\ rank' = [m \in Mbuf |-> IF m \in Range(packets')
                                   THEN CHOOSE i \in 1 .. k : rxring[i] = m
                                   ELSE 0]
  BY DEF Receive
<1>5. /\ DOMAIN packets' = 1 .. k /\ k \in Nat /\ k <= Len(rxring)
      /\ \A i \in 1 .. k : packets'[i] = rxring[i]
      /\ 1 .. k \subseteq DOMAIN rxring
      /\ \A i \in 1 .. k : rxring[i] \in Mbuf
  BY <1>1, <1>4, Cut
<1>6. ASSUME NEW i \in 1 .. k PROVE rank'[packets'[i]] = i
  <2>1. packets'[i] \in Mbuf /\ packets'[i] \in Range(packets')
    BY <1>5 DEF Range
  <2>2. rank'[packets'[i]] = CHOOSE j \in 1 .. k : rxring[j] = packets'[i]
    BY <1>4, <2>1
  <2>3. \A j \in 1 .. k : rxring[j] = packets'[i] <=> j = i
    BY <1>5 DEF Owned, Distinct, Once
  <2>4. QED
    BY <2>2, <2>3
<1>7. \A i, j \in DOMAIN packets' : i < j => rank'[packets'[i]] < rank'[packets'[j]]
  BY <1>5, <1>6
<1>8. QED
  BY <1>1, <1>2, <1>3, <1>7 DEF OrderInv

\* The packet taken was the only one ahead, and is now the last for
\* transmission.
LEMMA TakeOrder ==
  ASSUME IInv, Owned, OrderInv, Take
  PROVE  OrderInv'
<1>1. /\ UNCHANGED <<packets, bridge, fanouts, rank, phase>> /\ ret' = Calling
      /\ TypeOK /\ ret \in Disposition /\ transmit_q \in Seq(Mbuf)
      /\ phase = "pull"
  BY DEF Take, Enter, parts, history, IInv, TypeOK
<1>2. CASE ret.tag # "act"
  <2>1. transmit_q' = transmit_q
    BY <1>2 DEF Take
  <2>2. \A m \in Mbuf : Ahead(m)' => Ahead(m)
    BY <1>1 DEF Ahead, Calling
  <2>3. QED
    BY <1>1, <2>1, <2>2, OrderKept
<1>3. CASE ret.tag = "act"
  <2>1. PICK x \in Mbuf : ret.pkt = {x}
    BY <1>1, <1>3, DispositionFacts
  <2>2. transmit_q' = transmit_q \o <<x>>
    BY <1>3, <2>1, SequenceOfOne DEF Take
  <2>3. /\ \A i \in DOMAIN transmit_q' :
             \/ i \in DOMAIN transmit_q /\ transmit_q'[i] = transmit_q[i]
             \/ i = Len(transmit_q) + 1 /\ transmit_q'[i] = x
        /\ DOMAIN transmit_q = 1 .. Len(transmit_q) /\ Len(transmit_q) \in Nat
    BY <1>1, <2>2
  <2>4. Ahead(x) /\ \A m \in Mbuf : Ahead(m) => m = x
    BY <1>1, <1>3, <2>1, InHand DEF OrderInv
  <2>5. \A m \in Mbuf : ~Ahead(m)'
    <3>1. ASSUME NEW m \in Mbuf, Ahead(m)' PROVE FALSE
      <4>1. \/ \E n \in Node : m \in bridge[n]
            \/ \E n \in Node : \E i \in DOMAIN fanouts[n] :
                 fanouts[n][i].tag = "act" /\ m \in fanouts[n][i].pkt
        BY <1>1, <3>1 DEF Ahead, Calling
      <4>2. m = x
        BY <2>4, <4>1 DEF Ahead
      <4>3. QED
        BY <1>1, <1>3, <2>1, <4>1, <4>2, InHand
    <3>2. QED
      BY <3>1
  <2>6. /\ \A i \in DOMAIN transmit_q : rank[transmit_q[i]] < rank[x]
        /\ \A i \in DOMAIN packets : rank[x] < rank[packets[i]]
    BY <2>4 DEF OrderInv
  <2>7. \A i \in DOMAIN transmit_q' : \A j \in DOMAIN packets :
          rank[transmit_q'[i]] < rank[packets[j]]
    BY <2>3, <2>6 DEF OrderInv
  <2>8. \A i, j \in DOMAIN transmit_q' :
          i < j => rank[transmit_q'[i]] < rank[transmit_q'[j]]
    <3>1. ASSUME NEW i \in DOMAIN transmit_q', NEW j \in DOMAIN transmit_q', i < j
          PROVE  rank[transmit_q'[i]] < rank[transmit_q'[j]]
      <4>1. i \in DOMAIN transmit_q /\ transmit_q'[i] = transmit_q[i]
        BY <2>3, <3>1
      <4>2. QED
        BY <2>3, <2>6, <3>1, <4>1 DEF OrderInv
    <3>2. QED
      BY <3>1
  <2>9. QED
    BY <1>1, <2>5, <2>7, <2>8 DEF OrderInv
<1>4. QED
  BY <1>2, <1>3

\* A burst of them leaves the rest in order.
LEMMA TxOrder ==
  ASSUME IInv, OrderInv, TxBurst \/ TxGiveUp
  PROVE  OrderInv'
<1>1. /\ UNCHANGED <<packets, bridge, fanouts, ret, rank>>
      /\ transmit_q \in Seq(Mbuf)
  BY DEF TxBurst, TxGiveUp, calls, parts, history, IInv, TypeOK
<1>2. \A m \in Mbuf : Ahead(m)' => Ahead(m)
  BY <1>1 DEF Ahead
<1>3. CASE TxGiveUp
  <2>1. transmit_q' = <<>>
    BY <1>3 DEF TxGiveUp
  <2>2. QED
    BY <1>1, <1>2, <2>1 DEF OrderInv
<1>4. CASE TxBurst
  <2>1. PICK k \in 1 .. Len(transmit_q) :
          /\ transmit_q' = SubSeq(transmit_q, k + 1, Len(transmit_q))
          /\ phase' = IF k < Len(transmit_q) THEN "transmit" ELSE "reap"
    BY <1>4 DEF TxBurst
  <2>2. /\ Len(transmit_q) \in Nat /\ k \in Nat /\ k <= Len(transmit_q)
        /\ DOMAIN transmit_q = 1 .. Len(transmit_q)
        /\ DOMAIN transmit_q' = 1 .. Len(transmit_q) - k
        /\ transmit_q' \in Seq(Mbuf)
        /\ \A i \in 1 .. Len(transmit_q) - k : transmit_q'[i] = transmit_q[k + i]
    BY <1>1, <2>1, Cut
  <2>3. \A i \in DOMAIN transmit_q' :
          k + i \in DOMAIN transmit_q /\ transmit_q'[i] = transmit_q[k + i]
    BY <2>2
  <2>4. \A i, j \in DOMAIN transmit_q' : i < j => k + i < k + j
    BY <2>2
  <2>5. phase' \in {"idle", "reap"} => transmit_q' = <<>>
    <3>1. phase' \in {"idle", "reap"} => ~(k < Len(transmit_q))
      BY <2>1
    <3>2. ~(k < Len(transmit_q)) => DOMAIN transmit_q' = {}
      BY <2>2
    <3>3. DOMAIN transmit_q' = {} => transmit_q' = <<>>
      BY <2>2
    <3>4. QED
      BY <3>1, <3>2, <3>3
  <2>6. \A m \in Mbuf : Ahead(m)' =>
          /\ \A i \in DOMAIN transmit_q' : rank'[transmit_q'[i]] < rank'[m]
          /\ \A i \in DOMAIN packets : rank'[m] < rank'[packets[i]]
    BY <1>1, <1>2, <2>3 DEF OrderInv
  <2>7. \A i, j \in DOMAIN transmit_q' :
          i < j => rank'[transmit_q'[i]] < rank'[transmit_q'[j]]
    BY <1>1, <2>3, <2>4 DEF OrderInv
  <2>8. QED
    BY <1>1, <1>2, <2>3, <2>5, <2>6, <2>7 DEF OrderInv
<1>5. QED
  BY <1>3, <1>4

\* Every step keeps the order.
LEMMA OrderStep ==
  ASSUME IInv, NothingLeftBehind, Owned, PathInv, OrderInv, [Next]_vars
  PROVE  OrderInv'
<1>1. CASE \/ BridgeNext \/ SlotNext \/ FanoutNext \/ Merge \/ Ask \/ PassOn
           \/ Apply \/ Emit \/ Split \/ Gather \/ EndPull
  <2>1. \A m \in Mbuf : Ahead(m)' => Ahead(m)
    BY <1>1, AheadBefore DEF IInv
  <2>2. /\ UNCHANGED <<packets, transmit_q, rank>>
        /\ phase' \in {"pull", "transmit"} \/ EndPull
    BY <1>1 DEF BridgeNext, SlotNext, FanoutNext, Merge, Ask, PassOn, Apply,
         Emit, Split, Gather, EndPull, Called, Answered, FromBranch, Running,
         parts, results, history
  <2>3. phase' \in {"idle", "reap"} => transmit_q = <<>>
    BY <2>2 DEF EndPull
  <2>4. QED
    BY <2>1, <2>2, <2>3, OrderKept
<1>2. CASE \/ Reap \/ NicReceive \/ NicTransmit \/ KniTake \/ KniGiveUp
           \/ UNCHANGED vars
  <2>1. UNCHANGED <<calls, parts, transmit_q, rank>>
    BY <1>2 DEF Reap, NicReceive, NicTransmit, KniTake, KniGiveUp, vars,
         results, history
  <2>2. phase' = phase \/ Reap
    BY <1>2 DEF NicReceive, NicTransmit, KniTake, KniGiveUp, vars
  <2>3. phase' \in {"idle", "reap"} => transmit_q = <<>>
    BY <2>2 DEF OrderInv, Reap
  <2>4. \A m \in Mbuf : Ahead(m)' => Ahead(m)
    BY <2>1 DEF Ahead, calls, parts
  <2>5. QED
    BY <2>1, <2>3, <2>4, OrderKept DEF parts
<1>3. QED
  BY <1>1, <1>2, PollOrder, ReplaceOrder, ReceiveOrder, TakeOrder, TxOrder
     DEF Next, RunStep, NextDisposition

\* The order holds in every state of the pipeline.
LEMMA OrderHolds == Spec => []OrderInv
<1>1. Init => PathInv /\ OrderInv
  <2> SUFFICES ASSUME Init PROVE PathInv /\ OrderInv
    OBVIOUS
  <2>1. PathInv
    BY DEF Init, PathInv
  <2>2. \A m \in Mbuf : ~Ahead(m)
    BY DEF Init, Ahead, Calling
  <2>3. OrderInv
    BY <2>2 DEF Init, OrderInv
  <2>4. QED
    BY <2>1, <2>3
<1>2. IInv /\ NothingLeftBehind /\ Owned /\ PathInv /\ OrderInv /\ [Next]_vars
        => PathInv' /\ OrderInv'
  BY PathStep, OrderStep DEF IInv
<1>3. Init => Owned
  BY InitOwned
<1>4. IInv /\ NothingLeftBehind /\ Owned /\ [Next]_vars => Owned'
  BY OwnedStep
<1>5. QED
  BY <1>1, <1>2, <1>3, <1>4, InvHolds, RunsLeaveNothing, PTL DEF Spec

\* Packets leave a run in the order in which they came, through whatever
\* groups and replacements, for every tree of combinators and every burst.
THEOREM TransmitsInOrder == Spec => []TransmitInOrder
<1>1. OrderInv => TransmitInOrder
  BY DEF OrderInv, TransmitInOrder
<1>2. QED
  BY <1>1, OrderHolds, PTL

-----------------------------------------------------------------------------
(* Accounting: every step changes the sum by what enters or is taken *)

Slots   == {n \in Node : slot[n] # {}}
Bridges == {n \in Node : bridge[n] # {}}
Queued  == UNION {{n} \X DOMAIN fanouts[n] : n \in Node}
InFlight == IF ret.tag \in {"none", "call"} THEN 0 ELSE 1

BalanceInv ==
  /\ IsFiniteSet(Queued)
  /\ phase = "idle" => drop_q = <<>>
  /\ Accounting

\* The sets that Pending counts are finite, and the sum is one of naturals.
LEMMA Counts ==
  ASSUME TypeOK, IsFiniteSet(Queued)
  PROVE  /\ IsFiniteSet(Slots) /\ IsFiniteSet(Bridges)
         /\ Cardinality(Slots) \in Nat /\ Cardinality(Bridges) \in Nat
         /\ Cardinality(Queued) \in Nat /\ InFlight \in Nat
         /\ Len(packets) \in Nat /\ Len(transmit_q) \in Nat /\ Len(drop_q) \in Nat
         /\ entered \in Nat /\ emitted \in Nat /\ aborted \in Nat
         /\ Pending = Len(packets) + Cardinality(Slots) + Cardinality(Bridges)
                        + Cardinality(Queued) + InFlight
<1>1. IsFiniteSet(Slots) /\ IsFiniteSet(Bridges)
  BY PipelineAssumption, FS_Subset DEF Slots, Bridges
<1>2. /\ Cardinality(Slots) \in Nat /\ Cardinality(Bridges) \in Nat
      /\ Cardinality(Queued) \in Nat
  BY <1>1, FS_CardinalityType
<1>3. Pending = Len(packets) + Cardinality(Slots) + Cardinality(Bridges)
                  + Cardinality(Queued) + InFlight
  BY DEF Pending, Slots, Bridges, Queued, InFlight
<1>4. QED
  BY <1>1, <1>2, <1>3 DEF TypeOK, InFlight

\* The same after a step.
LEMMA CountsAfter ==
  ASSUME TypeOK', IsFiniteSet(Queued')
  PROVE  /\ Pending' = Len(packets') + Cardinality(Slots') + Cardinality(Bridges')
                       + Cardinality(Queued') + InFlight'
         /\ Len(packets') \in Nat /\ Cardinality(Slots') \in Nat
         /\ Cardinality(Bridges') \in Nat /\ Cardinality(Queued') \in Nat
         /\ InFlight' \in Nat /\ entered' \in Nat /\ Pending' \in Nat
<1>1. IsFiniteSet(Slots') /\ IsFiniteSet(Bridges')
  BY PipelineAssumption, FS_Subset DEF Slots, Bridges
<1>2. /\ Cardinality(Slots') \in Nat /\ Cardinality(Bridges') \in Nat
      /\ Cardinality(Queued') \in Nat
  BY <1>1, FS_CardinalityType
<1>3. Pending' = Len(packets') + Cardinality(Slots') + Cardinality(Bridges')
                   + Cardinality(Queued') + InFlight'
  BY DEF Pending, Slots, Bridges, Queued, InFlight
<1>4. Len(packets') \in Nat /\ InFlight' \in Nat /\ entered' \in Nat
  BY DEF TypeOK, InFlight
<1>5. QED
  BY <1>2, <1>3, <1>4

\* The positions in the queues of all GroupBys.
LEMMA QueuedMember ==
  ASSUME NEW p
  PROVE  p \in Queued <=> \E n \in Node : \E i \in DOMAIN fanouts[n] : p = <<n, i>>
BY DEF Queued

\* A queue that loses its first disposition has one position less.
LEMMA QueuedLess ==
  ASSUME TypeOK, IsFiniteSet(Queued), NEW g \in Node, fanouts[g] # <<>>,
         fanouts' = [fanouts EXCEPT ![g] = Tail(@)]
  PROVE  IsFiniteSet(Queued') /\ Cardinality(Queued') = Cardinality(Queued) - 1
<1>1. PICK s \in Seq(Disposition) : s = fanouts[g]
  BY DEF TypeOK
<1>2. /\ \A n \in Node : fanouts'[n] = IF n = g THEN Tail(s) ELSE fanouts[n]
      /\ Len(s) \in Nat \ {0} /\ DOMAIN s = 1 .. Len(s)
      /\ DOMAIN Tail(s) = 1 .. Len(s) - 1
  BY <1>1, HeadTail DEF TypeOK
<1>3. PICK p : p = <<g, Len(s)>>
  OBVIOUS
<1>4. p \in Queued
  BY <1>1, <1>2, <1>3, QueuedMember
<1>5. Queued' = Queued \ {p}
  <2>1. ASSUME NEW q PROVE q \in Queued' <=> q \in Queued /\ q # p
    <3>1. q \in Queued' <=> \E n \in Node : \E i \in DOMAIN fanouts'[n] : q = <<n, i>>
      BY DEF Queued
    <3>2. \A i : i \in DOMAIN Tail(s) <=> i \in DOMAIN s /\ i # Len(s)
      BY <1>2
    <3>3. ASSUME NEW n \in Node, NEW i, q = <<n, i>>
          PROVE  i \in DOMAIN fanouts'[n] <=> i \in DOMAIN fanouts[n] /\ q # p
      BY <1>1, <1>2, <1>3, <3>2, <3>3
    <3>4. QED
      BY <3>1, <3>3, QueuedMember
  <2>2. QED
    BY <2>1
<1>6. QED
  BY <1>4, <1>5, FS_RemoveElement

\* A queue that is given a disposition has one position more.
LEMMA QueuedMore ==
  ASSUME TypeOK, IsFiniteSet(Queued), NEW g \in Node,
         fanouts' = [fanouts EXCEPT ![g] = Append(@, ret)]
  PROVE  IsFiniteSet(Queued') /\ Cardinality(Queued') = Cardinality(Queued) + 1
<1>1. PICK s \in Seq(Disposition) : s = fanouts[g]
  BY DEF TypeOK
<1>2. /\ \A n \in Node : fanouts'[n] = IF n = g THEN Append(s, ret) ELSE fanouts[n]
      /\ Len(s) \in Nat /\ DOMAIN s = 1 .. Len(s)
      /\ DOMAIN Append(s, ret) = 1 .. Len(s) + 1
  BY <1>1, AppendFacts DEF TypeOK
<1>3. PICK p : p = <<g, Len(s) + 1>>
  OBVIOUS
<1>4. p \notin Queued
  BY <1>1, <1>2, <1>3, QueuedMember
<1>5. Queued' = Queued \union {p}
  <2>1. ASSUME NEW q PROVE q \in Queued' <=> q \in Queued \/ q = p
    <3>1. q \in Queued' <=> \E n \in Node : \E i \in DOMAIN fanouts'[n] : q = <<n, i>>
      BY DEF Queued
    <3>2. \A i : i \in DOMAIN Append(s, ret) <=> i \in DOMAIN s \/ i = Len(s) + 1
      BY <1>2
    <3>3. ASSUME NEW n \in Node, NEW i, q = <<n, i>>
          PROVE  i \in DOMAIN fanouts'[n] <=> i \in DOMAIN fanouts[n] \/ q = p
      BY <1>1, <1>2, <1>3, <3>2, <3>3
    <3>4. Len(s) + 1 \in DOMAIN fanouts'[g]
      <4>1. fanouts'[g] = Append(s, ret)
        BY <1>2
      <4>2. Len(s) + 1 \in 1 .. Len(s) + 1
        BY <1>2
      <4>3. QED
        BY <1>2, <4>1, <4>2
    <3>5. QED
      BY <1>3, <3>1, <3>3, <3>4, QueuedMember
  <2>2. QED
    BY <2>1
<1>6. QED
  BY <1>4, <1>5, FS_AddElement

\* A step within a run keeps the account if what is pending grows by what
\* enters.
LEMMA Balanced ==
  ASSUME TypeOK, TypeOK', BalanceInv, IsFiniteSet(Queued'), phase = "pull",
         UNCHANGED <<transmit_q, drop_q, emitted, aborted>>,
         phase' = "pull",
         Len(packets') + Cardinality(Slots') + Cardinality(Bridges')
           + Cardinality(Queued') + InFlight' + entered
         = Len(packets) + Cardinality(Slots) + Cardinality(Bridges)
             + Cardinality(Queued) + InFlight + entered'
  PROVE  BalanceInv'
<1>1. /\ Pending = Len(packets) + Cardinality(Slots) + Cardinality(Bridges)
                   + Cardinality(Queued) + InFlight
      /\ Len(packets) \in Nat /\ Cardinality(Slots) \in Nat
      /\ Cardinality(Bridges) \in Nat /\ Cardinality(Queued) \in Nat
      /\ InFlight \in Nat /\ entered \in Nat
      /\ Len(transmit_q) \in Nat /\ Len(drop_q) \in Nat
      /\ emitted \in Nat /\ aborted \in Nat
  BY Counts DEF BalanceInv
<1>2. /\ Pending' \in Nat /\ entered' \in Nat
      /\ Pending' = Len(packets') + Cardinality(Slots') + Cardinality(Bridges')
                    + Cardinality(Queued') + InFlight'
      /\ Len(packets') \in Nat /\ Cardinality(Slots') \in Nat
      /\ Cardinality(Bridges') \in Nat /\ Cardinality(Queued') \in Nat
      /\ InFlight' \in Nat
  BY CountsAfter
<1>3. entered' = Len(transmit_q) + Len(drop_q) + emitted + aborted + Pending'
  <2>1. entered = Len(transmit_q) + Len(drop_q) + emitted + aborted + Pending
    BY DEF BalanceInv, Accounting
  <2>2. Pending' + entered = Pending + entered'
    BY <1>1, <1>2
  <2>3. Pending \in Nat
    BY <1>1
  <2>4. Pending' \in Nat
    BY <1>2
  <2>5. /\ entered \in Nat /\ entered' \in Nat
        /\ Len(transmit_q) \in Nat /\ Len(drop_q) \in Nat
        /\ emitted \in Nat /\ aborted \in Nat
    BY <1>1, <1>2
  <2>6. QED
    BY ONLY <2>1, <2>2, <2>3, <2>4, <2>5
<1>4. QED
  BY <1>3 DEF BalanceInv, Accounting

\* A packet goes from the Poll to the disposition at hand.
LEMMA PollBalance ==
  ASSUME TypeOK, TypeOK', BalanceInv, PollNext
  PROVE  BalanceInv'
<1>1. /\ UNCHANGED <<slot, bridge, fanouts, transmit_q, drop_q, emitted, aborted,
                     entered>>
      /\ phase = "pull" /\ phase' = "pull" /\ ret = Calling
      /\ packets \in Seq(Mbuf)
  BY DEF PollNext, Called, Running, results, history, TypeOK
<1>2. Slots' = Slots /\ Bridges' = Bridges /\ Queued' = Queued
  BY <1>1 DEF Slots, Bridges, Queued
<1>3. InFlight = 0
  BY <1>1, Tags DEF InFlight
<1>4. Len(packets') + InFlight' = Len(packets) + InFlight
  <2>1. CASE packets = <<>>
    <3>1. packets' = packets /\ InFlight' = 0
      BY <2>1, Tags DEF PollNext, Give, InFlight
    <3>2. QED
      BY <1>3, <3>1
  <2>2. CASE packets # <<>>
    <3>1. packets' = Tail(packets) /\ InFlight' = 1
      BY <2>2, Tags DEF PollNext, Give, InFlight
    <3>2. QED
      BY <1>1, <1>3, <2>2, <3>1, HeadTail
  <2>3. QED
    BY <2>1, <2>2
<1>5. Len(packets) \in Nat /\ Len(packets') \in Nat /\ InFlight' \in Nat
  BY DEF TypeOK, InFlight
<1>6. IsFiniteSet(Queued)
  BY DEF BalanceInv
<1>7. /\ Cardinality(Slots) \in Nat /\ Cardinality(Bridges) \in Nat
      /\ Cardinality(Queued) \in Nat /\ InFlight \in Nat /\ entered \in Nat
  BY <1>6, Counts
<1>8. Len(packets') + Cardinality(Slots) + Cardinality(Bridges)
        + Cardinality(Queued) + InFlight' + entered
      = Len(packets) + Cardinality(Slots) + Cardinality(Bridges)
          + Cardinality(Queued) + InFlight + entered
  <2>1. Len(packets) \in Nat /\ Len(packets') \in Nat /\ InFlight' \in Nat
    BY <1>5
  <2>2. PICK l, m, f, g, s, b, q, e \in Nat :
          /\ l = Len(packets) /\ m = Len(packets') /\ f = InFlight
          /\ g = InFlight' /\ s = Cardinality(Slots)
          /\ b = Cardinality(Bridges) /\ q = Cardinality(Queued)
          /\ e = entered
    BY <1>7, <2>1
  <2>3. m + g = l + f
    BY <1>4, <2>2
  <2>4. m + s + b + q + g + e = l + s + b + q + f + e
    BY ONLY <2>3
  <2>5. QED
    BY <2>2, <2>4
<1>9. QED
  BY <1>1, <1>2, <1>6, <1>8, Balanced

\* A packet comes out of a bridge, a slot or a queue into the disposition.
LEMMA StoreBalance ==
  ASSUME TypeOK, TypeOK', StoreInv, BalanceInv,
         BridgeNext \/ SlotNext \/ FanoutNext \/ Merge
  PROVE  BalanceInv'
<1>1. /\ UNCHANGED <<packets, transmit_q, drop_q, emitted, aborted, entered>>
      /\ phase = "pull" /\ phase' = "pull" /\ InFlight = 0 /\ Top \in Node
      /\ Up[Top] \in Node
  BY CallTypes, Tags
     DEF BridgeNext, SlotNext, FanoutNext, Merge, Called, FromBranch, Running,
         results, history, InFlight, TypeOK
<1>2. IsFiniteSet(Queued)
  BY DEF BalanceInv
<1>3. CASE BridgeNext
  <2>1. UNCHANGED <<slot, fanouts>> /\ bridge' = [bridge EXCEPT ![Up[Top]] = {}]
    BY <1>3 DEF BridgeNext
  <2>2. Slots' = Slots /\ Queued' = Queued
    BY <2>1 DEF Slots, Queued
  <2>3. Bridges' = Bridges \ {Up[Top]}
    BY <1>1, <2>1 DEF Bridges, TypeOK
  <2>4. CASE bridge[Up[Top]] = {}
    <3>1. Bridges' = Bridges
      BY <2>3, <2>4 DEF Bridges
    <3>2. InFlight' = 0
      BY <1>3, <2>4, Tags DEF BridgeNext, Give, InFlight
    <3>3. QED
      BY <1>1, <1>2, <2>2, <3>1, <3>2, Balanced
  <2>5. CASE bridge[Up[Top]] # {}
    <3>0. Up[Top] \in Bridges
      BY <1>1, <2>5 DEF Bridges
    <3>1. Cardinality(Bridges') = Cardinality(Bridges) - 1
      BY <1>2, <2>3, <3>0, Counts, FS_RemoveElement
    <3>2. InFlight' = 1
      BY <1>3, <2>5, Tags DEF BridgeNext, Give, InFlight
    <3>3. QED
      BY <1>1, <1>2, <2>2, <3>1, <3>2, Counts, Balanced
  <2>6. QED
    BY <2>4, <2>5
<1>4. CASE SlotNext
  <2>1. UNCHANGED <<bridge, fanouts>> /\ slot' = [slot EXCEPT ![Top] = {}]
    BY <1>4 DEF SlotNext
  <2>2. Bridges' = Bridges /\ Queued' = Queued
    BY <2>1 DEF Bridges, Queued
  <2>3. Slots' = Slots \ {Top} /\ Top \in Slots
    BY <1>1, <1>4, <2>1 DEF Slots, TypeOK, SlotNext
  <2>4. Cardinality(Slots') = Cardinality(Slots) - 1
    BY <1>2, <2>3, Counts, FS_RemoveElement
  <2>5. InFlight' = 1
    BY <1>4, Tags DEF SlotNext, Give, InFlight
  <2>6. QED
    BY <1>1, <1>2, <2>2, <2>4, <2>5, Counts, Balanced
<1>5. CASE FanoutNext \/ Merge
  <2>1. /\ UNCHANGED <<slot, bridge>> /\ fanouts[Top] # <<>>
        /\ fanouts' = [fanouts EXCEPT ![Top] = Tail(@)]
        /\ ret' = Head(fanouts[Top])
    BY <1>5 DEF FanoutNext, Merge, Give
  <2>2. Bridges' = Bridges /\ Slots' = Slots
    BY <2>1 DEF Bridges, Slots
  <2>3. IsFiniteSet(Queued') /\ Cardinality(Queued') = Cardinality(Queued) - 1
    BY <1>1, <1>2, <2>1, QueuedLess
  <2>4. ret' = fanouts[Top][1] /\ 1 \in DOMAIN fanouts[Top]
    BY <1>1, <2>1, HeadTail DEF TypeOK
  <2>5. InFlight' = 1
    BY <1>1, <2>4 DEF StoreInv, InFlight
  <2>6. QED
    BY <1>1, <1>2, <2>2, <2>3, <2>5, Counts, Balanced
<1>6. QED
  BY <1>3, <1>4, <1>5

\* The disposition at hand is passed on, or becomes another.
LEMMA PassBalance ==
  ASSUME TypeOK, TypeOK', BalanceInv, Ask \/ PassOn \/ Apply \/ Emit
  PROVE  BalanceInv'
<1>1. /\ UNCHANGED <<parts, transmit_q, drop_q, emitted, aborted, entered>>
      /\ phase = "pull" /\ phase' = "pull"
  BY DEF Ask, PassOn, Apply, Emit, Called, Answered, Running, results, history
<1>2. /\ Slots' = Slots /\ Bridges' = Bridges /\ Queued' = Queued
      /\ packets' = packets
  BY <1>1 DEF Slots, Bridges, Queued, parts
<1>3. InFlight' = InFlight
  <2>1. CASE Ask \/ PassOn
    BY <2>1 DEF Ask, Called, Enter, PassOn, Give, InFlight
  <2>2. CASE Emit
    BY <2>2, Tags DEF Emit, Give, InFlight
  <2>3. CASE Apply
    <3>1. PICK tag \in Outcomes[Kind[Top]] :
            \/ tag = "abort" /\ ret' = Aborted
            \/ tag # "abort" /\ ret' = [ret EXCEPT !.tag = tag]
      BY <2>3 DEF Apply, Give
    <3>2. tag \in {"act", "drop", "abort"}
      BY <2>3, <3>1, Kindly DEF Apply, Answered
    <3>3. [ret EXCEPT !.tag = tag].tag = tag
      BY DEF TypeOK, Disposition, Emitted, Aborted, Exhausted, Calling
    <3>4. InFlight' = 1
      BY <3>1, <3>2, <3>3, Tags DEF InFlight
    <3>5. QED
      BY <2>3, <3>4 DEF Apply, InFlight
  <2>4. QED
    BY <2>1, <2>2, <2>3
<1>4. IsFiniteSet(Queued)
  BY DEF BalanceInv
<1>5. QED
  BY <1>1, <1>2, <1>3, <1>4, Balanced

\* The packet created is one more, with the original that waits in the slot.
LEMMA ReplaceBalance ==
  ASSUME TypeOK, TypeOK', StoreInv, BalanceInv, Replace
  PROVE  BalanceInv'
<1>1. /\ UNCHANGED <<packets, bridge, fanouts, transmit_q, drop_q, emitted,
                     aborted>>
      /\ phase = "pull" /\ phase' = "pull" /\ ret.tag = "act"
      /\ Top \in Node /\ slot[Top] = {}
  <2>1. Running /\ ret # Calling /\ Top \in Node /\ ~OnBranch(Len(stack))
    BY NotOnBranch, CallTypes DEF Replace, Answered, TypeOK
  <2>2. Len(stack) \in DOMAIN stack /\ Waits(Len(stack)) /\ Top = stack[Len(stack)]
    BY <2>1, TopIsLast
  <2>3. QED
    BY <2>1, <2>2 DEF StoreInv, Replace, Running, results
<1>2. Bridges' = Bridges /\ Queued' = Queued
  BY <1>1 DEF Bridges, Queued
<1>3. InFlight = 1 /\ InFlight' = 1
  BY <1>1, Tags, Zenon DEF InFlight, Replace, Give
<1>4. IsFiniteSet(Queued)
  BY DEF BalanceInv
<1>5. CASE slot' = [slot EXCEPT ![Top] = ret.pkt] /\ entered' = entered + 1
  <2>1. ret.pkt # {}
    BY <1>1, DispositionFacts DEF TypeOK
  <2>2. Slots' = Slots \union {Top} /\ Top \notin Slots
    BY <1>1, <1>5, <2>1 DEF Slots, TypeOK
  <2>3. Cardinality(Slots') = Cardinality(Slots) + 1
    BY <1>4, <2>2, Counts, FS_AddElement
  <2>4. /\ Cardinality(Slots) \in Nat /\ Cardinality(Bridges) \in Nat
        /\ Cardinality(Queued) \in Nat /\ entered \in Nat
        /\ Len(packets) \in Nat
    BY <1>4, Counts
  <2>5. Len(packets) + Cardinality(Slots') + Cardinality(Bridges)
          + Cardinality(Queued) + InFlight' + entered
        = Len(packets) + Cardinality(Slots) + Cardinality(Bridges)
            + Cardinality(Queued) + InFlight + entered'
    <3>1. /\ Cardinality(Slots') = Cardinality(Slots) + 1
          /\ entered' = entered + 1 /\ InFlight' = InFlight /\ InFlight \in Nat
      BY <1>3, <1>5, <2>3
    <3>2. PICK l, f, s, b, q, e \in Nat :
            /\ l = Len(packets) /\ f = InFlight /\ s = Cardinality(Slots)
            /\ b = Cardinality(Bridges) /\ q = Cardinality(Queued)
            /\ e = entered
      BY <2>4, <3>1
    <3>3. l + (s + 1) + b + q + f + e = l + s + b + q + f + (e + 1)
      OBVIOUS
    <3>4. QED
      BY <3>1, <3>2, <3>3
  <2>6. QED
    BY <1>1, <1>2, <1>4, <2>5, Balanced
<1>6. CASE slot' = slot /\ entered' = entered
  <2>1. Slots' = Slots
    BY <1>6 DEF Slots
  <2>2. QED
    BY <1>1, <1>2, <1>3, <1>4, <1>6, <2>1, Balanced
<1>7. QED
  BY <1>5, <1>6 DEF Replace

\* A packet goes to a sub batch through the bridge, which is empty.
LEMMA SplitBalance ==
  ASSUME IInv, TypeOK', BalanceInv, Split
  PROVE  BalanceInv'
<1>1. /\ UNCHANGED <<packets, slot, fanouts, transmit_q, drop_q, emitted, aborted,
                     entered>>
      /\ phase = "pull" /\ phase' = "pull" /\ ret.tag = "act" /\ ret' = Calling
      /\ bridge' = [bridge EXCEPT ![Top] = ret.pkt] /\ Top \in Node
      /\ Running /\ ~OnBranch(Len(stack)) /\ TypeOK
  BY NotOnBranch, CallTypes
     DEF Split, Answered, Running, results, history, Enter, IInv, TypeOK
<1>2. bridge[Top] = {}
  <2>1. ASSUME NEW i \in DOMAIN stack, stack[i] = Top, OnBranch(i) PROVE FALSE
    <3>1. PICK l \in DOMAIN stack : l = Len(stack) /\ stack[l] = Top
      BY <1>1, TopIsLast
    <3>2. i < l \/ i = l
      BY <1>1, <3>1, TopIsLast
    <3>3. i = l
      BY <1>1, <2>1, <3>1, <3>2, NoneTwice DEF IInv
    <3>4. QED
      BY <1>1, <2>1, <3>1, <3>3
  <2>2. QED
    BY <1>1, <2>1 DEF IInv, BridgeInv
<1>3. ret.pkt # {}
  BY <1>1, DispositionFacts DEF TypeOK
<1>4. Bridges' = Bridges \union {Top} /\ Top \notin Bridges
  BY <1>1, <1>2, <1>3 DEF Bridges, TypeOK
<1>5. Slots' = Slots /\ Queued' = Queued
  BY <1>1 DEF Slots, Queued
<1>6. IsFiniteSet(Queued)
  BY DEF BalanceInv
<1>7. Cardinality(Bridges') = Cardinality(Bridges) + 1
  BY <1>1, <1>4, <1>6, Counts, FS_AddElement
<1>8. InFlight = 1 /\ InFlight' = 0
  BY <1>1, Tags DEF InFlight
<1>9. QED
  BY <1>1, <1>5, <1>6, <1>7, <1>8, Counts, Balanced

\* The disposition at hand goes to a queue.
LEMMA GatherBalance ==
  ASSUME TypeOK, TypeOK', BalanceInv, Gather
  PROVE  BalanceInv'
<1>1. /\ UNCHANGED <<packets, slot, bridge, transmit_q, drop_q, emitted, aborted,
                     entered>>
      /\ phase = "pull" /\ phase' = "pull" /\ ret' = Calling
      /\ ret \in Disposition /\ ret.tag # "none" /\ ret # Calling
      /\ fanouts' = [fanouts EXCEPT ![Top] = Append(@, ret)] /\ Top \in Node
  BY CallTypes
     DEF Gather, FromBranch, Running, results, history, Enter, TypeOK
<1>2. IsFiniteSet(Queued)
  BY DEF BalanceInv
<1>3. IsFiniteSet(Queued') /\ Cardinality(Queued') = Cardinality(Queued) + 1
  BY <1>1, <1>2, QueuedMore
<1>4. Slots' = Slots /\ Bridges' = Bridges
  BY <1>1 DEF Slots, Bridges
<1>5. InFlight = 1 /\ InFlight' = 0
  BY <1>1, DispositionFacts, Tags DEF InFlight
<1>6. QED
  BY <1>1, <1>2, <1>3, <1>4, <1>5, Counts, Balanced

\* The disposition taken goes from those pending to one of the four results.
LEMMA TakeBalance ==
  ASSUME TypeOK, TypeOK', BalanceInv, Take
  PROVE  BalanceInv'
<1>1. /\ UNCHANGED <<packets, slot, bridge, fanouts, entered>>
      /\ phase = "pull" /\ phase' = "pull" /\ ret' = Calling
      /\ ret \in Disposition
      /\ ret.tag \in {"act", "drop", "emit", "abort"}
  BY DEF Take, Enter, parts, history, TypeOK
<1>2. IsFiniteSet(Queued) /\ Queued' = Queued
  BY <1>1 DEF BalanceInv, Queued
<1>3. InFlight = 1 /\ InFlight' = 0
  BY <1>1, Tags DEF InFlight
<1>4. Slots' = Slots /\ Bridges' = Bridges
  BY <1>1 DEF Slots, Bridges
<1>5. Pending = Pending' + 1 /\ Pending' \in Nat
  <2>1. /\ Pending = Len(packets) + Cardinality(Slots) + Cardinality(Bridges)
                       + Cardinality(Queued) + 1
        /\ Len(packets) \in Nat /\ Cardinality(Slots) \in Nat
        /\ Cardinality(Bridges) \in Nat /\ Cardinality(Queued) \in Nat
    BY <1>2, <1>3, Counts
  <2>2. /\ Pending' = Len(packets) + Cardinality(Slots) + Cardinality(Bridges)
                        + Cardinality(Queued) + 0
        /\ Pending' \in Nat
    BY <1>1, <1>2, <1>3, <1>4, CountsAfter
  <2>3. PICK l, s, b, q \in Nat :
          /\ l = Len(packets) /\ s = Cardinality(Slots)
          /\ b = Cardinality(Bridges) /\ q = Cardinality(Queued)
    BY <2>1
  <2>4. l + s + b + q + 1 = (l + s + b + q + 0) + 1
    OBVIOUS
  <2>5. QED
    BY <2>1, <2>2, <2>3, <2>4
<1>6. /\ Len(transmit_q) \in Nat /\ Len(drop_q) \in Nat
      /\ emitted \in Nat /\ aborted \in Nat
      /\ transmit_q \in Seq(Mbuf) /\ drop_q \in Seq(Mbuf)
  BY DEF TypeOK
<1>7. \/ /\ Len(transmit_q') = Len(transmit_q) + 1
         /\ UNCHANGED <<drop_q, emitted, aborted>>
      \/ /\ Len(drop_q') = Len(drop_q) + 1
         /\ UNCHANGED <<transmit_q, emitted, aborted>>
      \/ emitted' = emitted + 1 /\ UNCHANGED <<transmit_q, drop_q, aborted>>
      \/ aborted' = aborted + 1 /\ UNCHANGED <<transmit_q, drop_q, emitted>>
  <2>1. CASE ret.tag \in {"act", "drop"}
    <3>1. PICK x \in Mbuf : ret.pkt = {x}
      BY <1>1, <2>1, DispositionFacts
    <3>2. SetToSeq(ret.pkt) = <<x>>
      BY <3>1, SequenceOfOne
    <3>3. \A s \in Seq(Mbuf) : Len(s \o <<x>>) = Len(s) + 1
      OBVIOUS
    <3>4. QED
      BY <1>6, <2>1, <3>2, <3>3 DEF Take
  <2>2. CASE ret.tag \in {"emit", "abort"}
    BY <2>2 DEF Take
  <2>3. QED
    BY <1>1, <2>1, <2>2
<1>8. entered = Len(transmit_q) + Len(drop_q) + emitted + aborted + Pending
  BY <1>1 DEF BalanceInv, Accounting
<1>9. entered' = Len(transmit_q') + Len(drop_q') + emitted' + aborted' + Pending'
  <2>1. PICK t, d, e, a, p \in Nat :
          /\ t = Len(transmit_q) /\ d = Len(drop_q) /\ e = emitted
          /\ a = aborted /\ p = Pending'
    BY <1>5, <1>6
  <2>2. entered' = t + d + e + a + (p + 1)
    BY <1>1, <1>5, <1>8, <2>1
  <2>3. /\ t + d + e + a + (p + 1) = (t + 1) + d + e + a + p
        /\ t + d + e + a + (p + 1) = t + (d + 1) + e + a + p
        /\ t + d + e + a + (p + 1) = t + d + (e + 1) + a + p
        /\ t + d + e + a + (p + 1) = t + d + e + (a + 1) + p
    OBVIOUS
  <2>4. QED
    BY <1>7, <2>1, <2>2, <2>3
<1>10. QED
  BY <1>1, <1>2, <1>9 DEF BalanceInv, Accounting

\* A run starts with the packets received and nothing else.
LEMMA ReceiveBalance ==
  ASSUME TypeOK, TypeOK', NothingLeftBehind, OrderInv, BalanceInv, Receive
  PROVE  BalanceInv'
<1>1. /\ UNCHANGED <<slot, bridge, fanouts, transmit_q, drop_q>>
      /\ phase = "idle" /\ phase' = "pull" /\ ret' = Calling
      /\ emitted' = 0 /\ aborted' = 0 /\ rxring \in Seq(Mbuf)
  BY DEF Receive, Enter, TypeOK
<1>2. transmit_q' = <<>> /\ drop_q' = <<>>
  BY <1>1 DEF OrderInv, BalanceInv
<1>3. PICK k \in 1 .. Len(rxring) :
        packets' = SubSeq(rxring, 1, k) /\ entered' = k
  BY DEF Receive
<1>4. Len(packets') = entered'
  <2>1. k \in Nat /\ k <= Len(rxring) /\ Len(rxring) \in Nat /\ 1 <= k
    BY <1>1, <1>3
  <2>2. Len(SubSeq(rxring, 1, k)) = k
    BY <1>1, <2>1
  <2>3. QED
    BY <1>3, <2>2
<1>5. Slots' = {} /\ Bridges' = {} /\ Queued' = {}
  <2>1. \A n \in Node : slot'[n] = {} /\ bridge'[n] = {} /\ fanouts'[n] = <<>>
    BY <1>1 DEF NothingLeftBehind
  <2>2. DOMAIN <<>> = {}
    OBVIOUS
  <2>3. QED
    BY <2>1, <2>2 DEF Slots, Bridges, Queued
<1>6. IsFiniteSet(Queued') /\ Cardinality({}) = 0
  BY <1>5, FS_EmptySet
<1>7. InFlight' = 0
  BY <1>1, Tags DEF InFlight
<1>8. Pending' = entered' /\ entered' \in Nat
  <2>1. Pending' = Len(packets') + 0 + 0 + 0 + 0 /\ Len(packets') \in Nat
    BY <1>5, <1>6, <1>7, CountsAfter
  <2>2. QED
    BY <1>4, <2>1
<1>9. entered' = Len(transmit_q') + Len(drop_q') + emitted' + aborted' + Pending'
  <2>1. /\ Len(transmit_q') = 0 /\ Len(drop_q') = 0
        /\ emitted' = 0 /\ aborted' = 0
    BY <1>1, <1>2
  <2>2. PICK p \in Nat : p = Pending' /\ p = entered'
    BY <1>8
  <2>3. p = 0 + 0 + 0 + 0 + p
    OBVIOUS
  <2>4. QED
    BY <2>1, <2>2, <2>3
<1>10. QED
  BY <1>1, <1>6, <1>9 DEF BalanceInv, Accounting

\* Every step keeps the account.
LEMMA BalanceStep ==
  ASSUME IInv, IInv', NothingLeftBehind, OrderInv, BalanceInv, [Next]_vars
  PROVE  BalanceInv'
<1> USE DEF IInv
<1>1. CASE EndPull \/ TxBurst \/ TxGiveUp \/ Reap
  <2>1. fanouts' = fanouts /\ phase' # "pull"
    BY <1>1 DEF EndPull, TxBurst, TxGiveUp, Reap, parts
  <2>2. phase' = "idle" => drop_q' = <<>>
    BY <1>1 DEF EndPull, TxBurst, TxGiveUp, Reap
  <2>3. Queued' = Queued
    BY <2>1 DEF Queued
  <2>4. QED
    BY <2>1, <2>2, <2>3 DEF BalanceInv, Accounting
<1>2. CASE NicReceive \/ NicTransmit \/ KniTake \/ KniGiveUp \/ UNCHANGED vars
  <2>1. UNCHANGED <<phase, calls, parts, results, entered>>
    BY <1>2 DEF NicReceive, NicTransmit, KniTake, KniGiveUp, vars, history
  <2>2. Queued' = Queued /\ Pending' = Pending
    BY <2>1 DEF Queued, Pending, parts, calls
  <2>3. QED
    BY <2>1, <2>2 DEF BalanceInv, Accounting, results
<1>3. QED
  BY <1>1, <1>2, PollBalance, StoreBalance, PassBalance, ReplaceBalance,
     SplitBalance, GatherBalance, TakeBalance, ReceiveBalance
     DEF Next, RunStep, NextDisposition

\* What Send::run counts adds up: at every point of the loop the packets that
\* the run received or created are those it has taken, with the outcome they
\* had, and those that are still in some combinator, a disposition counted once.
THEOREM AccountsBalance == Spec => []Accounting
<1>1. Init => BalanceInv
  <2> SUFFICES ASSUME Init PROVE BalanceInv
    OBVIOUS
  <2>1. Queued = {}
    BY DEF Init, Queued
  <2>2. QED
    BY <2>1, FS_EmptySet DEF Init, BalanceInv, Accounting
<1>2. IInv /\ IInv' /\ NothingLeftBehind /\ OrderInv /\ BalanceInv /\ [Next]_vars
        => BalanceInv'
  BY BalanceStep
<1>3. BalanceInv => Accounting
  BY DEF BalanceInv
<1>4. QED
  BY <1>1, <1>2, <1>3, InvHolds, RunsLeaveNothing, OrderHolds, PTL DEF Spec

=============================================================================
