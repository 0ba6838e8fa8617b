------------------------------ MODULE Packets -------------------------------
(***************************************************************************)
(* The headers of a packet (packets/): a stack of views, each of which     *)
(* owns the one below as its envelope and has cached where its header      *)
(* begins, over one message buffer.                                        *)
(*                                                                         *)
(* The buffer is the sequence of its cells; module Mbuf has the array      *)
(* under it.  A header is one cell, as is a VLAN tag, a segment of a       *)
(* routing header, the body of an ICMP message and a word of payload.  All *)
(* cells have the same fields, so that any cell can be taken for a header, *)
(* as bytes can: `next` is the ether type, the protocol or the ICMP type,  *)
(* `len` a length or last_entry, `ext` hdr_ext_len, and `v` another field: *)
(* the VLAN tags of a frame, segments_left, the address in a segment.      *)
(*                                                                         *)
(* What a program is taken not to do: set a field that names the next      *)
(* protocol by hand, resize a header under another view (envelope_mut      *)
(* gives access to it), and call remove_payload on an ICMP message, whose  *)
(* body counts as payload.  Each leaves a view of bytes that have moved.   *)
(***************************************************************************)
EXTENDS Checksum, SequencesExt

CONSTANTS
  Room,         \* cells from the start of the packet to the end of the buffer
  Addresses,    \* words that stand for an address of either family
  Values,       \* values set in other fields
  Number,       \* Number[p]: the word for what stands in a field `next`
  Ipv6MinMtu, Ipv4MinMtu,
  Mtus,         \* the MTUs a packet is truncated to
  Frames,       \* the packets received
  SegsMax,      \* bound on the segments set in a routing header
  DataMax,      \* bound on the data of an echo request
  ViewsMax,     \* bound on the stack
  MaxCalls      \* bound on the calls other than parse

Ipv6s == {"Ipv6", "Srh", "Fragment"}
Ips == {"Ipv4"} \cup Ipv6s
Extensions == {"Srh", "Fragment"}
Icmps == {"Icmpv4", "Icmpv6"}

\* A message with data of its own and an error, which quotes a packet; the other
\* messages have the same push, parse and reconcile as one of these.
Errors == {"TimeExceeded", "PacketTooBig"}
Messages(k) ==
  IF k = "Icmpv4" THEN {"EchoRequest", "TimeExceeded"} ELSE {"EchoRequest", "PacketTooBig"}

\* The types a view may have for its envelope.
Envelopes(k) ==
  CASE k = "Ethernet" -> {"Mbuf"}
    [] k \in {"Ipv4", "Ipv6"} -> {"Ethernet"}
    [] k \in Extensions \cup {"Icmpv6"} -> Ipv6s
    [] k = "Icmpv4" -> {"Ipv4"}
    [] k \in {"Udp", "Tcp"} -> Ips

\* The types of views: of a protocol, or of a message of ICMP.
Types ==
  ({"Ethernet", "Ipv4", "Ipv6", "Srh", "Fragment", "Udp", "Tcp", "Icmpv4", "Icmpv6"}
     \X {"none"})
  \cup UNION {{k} \X Messages(k) : k \in Icmps}

VARIABLES
  data,     \* the cells of the packet
  views,    \* the views, the outermost header first
  alive,    \* whether the program has the packet
  frees,    \* how often its buffer was freed
  verdict,  \* what the last call returned
  calls

vars == <<data, views, alive, frees, verdict, calls>>

\* A cell.  All numbers are words, as wide as the widest field of a header.
Cell == [next : DOMAIN Number, src : Word, dst : Word, len : Word, ext : Word, csum : Word,
         v : Word]

\* A length fits in its field, as a packet's does in 16 bits, and so does that of
\* the segments that are set.
ASSUME PacketsAssumption ==
  /\ Room \in Nat /\ Room <= Mod /\ Frames \subseteq Seq(Cell)
  /\ \A frame \in Frames : Len(frame) < Room
  /\ {"none", "Ipv4", "Ipv6", "Srh", "Fragment", "Udp", "Tcp", "Icmpv4", "Icmpv6",
      "EchoRequest", "TimeExceeded", "PacketTooBig"} \subseteq DOMAIN Number
  /\ \A p \in DOMAIN Number : Number[p] \in Word
  /\ Addresses \subseteq Word /\ Values \subseteq Word
  /\ SegsMax \in Nat /\ 2 * SegsMax < Mod
  /\ Ipv4MinMtu \in Nat /\ Ipv6MinMtu \in Nat /\ Mtus \subseteq Nat
  /\ DataMax \in Nat /\ ViewsMax \in Nat /\ MaxCalls \in Nat

Blank == [next |-> "none", src |-> 0, dst |-> 0, len |-> 0, ext |-> 0, csum |-> 0, v |-> 0]
Octets == [Blank EXCEPT !.v = 1]

Init ==
  /\ data \in Frames
  /\ views = <<>> /\ alive = TRUE /\ frees = 0 /\ verdict = "ok" /\ calls = 0

-----------------------------------------------------------------------------
(* The buffer: offsets count from 0. *)

At(d, offset) == d[offset + 1]
From(d, offset) == SubSeq(d, offset + 1, Len(d))
CanExtend(d, n) == n > 0 /\ n < Room - Len(d)
Insert(d, offset, cells) == SubSeq(d, 1, offset) \o cells \o From(d, offset)
Delete(d, offset, n) == SubSeq(d, 1, offset) \o From(d, offset + n)
Truncate(d, to_len) == IF to_len < Len(d) THEN SubSeq(d, 1, to_len) ELSE d

-----------------------------------------------------------------------------
(* The views *)

TopKind(vs) == IF vs = <<>> THEN "Mbuf" ELSE Last(vs).k

Tags(cell) == IF cell.v \in {1, 2} THEN cell.v ELSE 0

\* A routing header ends behind the segments that its view has cached.
HeaderLen(d, view) ==
  CASE view.k = "Ethernet" -> 1 + Tags(At(d, view.off))
    [] view.k = "Srh" -> 1 + view.segs
    [] OTHER -> 1

PayloadOffset(d, vs) == IF vs = <<>> THEN 0 ELSE Last(vs).off + HeaderLen(d, Last(vs))

View(d, k, msg, o) ==
  [k |-> k, msg |-> msg, off |-> o, segs |-> IF k = "Srh" THEN At(d, o).len + 1 ELSE 0]

Header(d, view) == At(d, view.off)
NextProtocol(d, vs) == Header(d, Last(vs)).next

SetHeader(d, view, cell) == [d EXCEPT ![view.off + 1] = cell]
SetNext(d, view, k) == [d EXCEPT ![view.off + 1].next = k]

\* A call other than parse, on a packet the program has.
Call == alive /\ calls < MaxCalls /\ calls' = calls + 1
Return(v) == verdict' = v /\ UNCHANGED <<alive, frees>>
Keep(v) == Return(v) /\ UNCHANGED <<data, views>>

\* The buffer goes back to its pool with the last view of it.
Free(v) ==
  /\ data' = <<>> /\ views' = <<>>
  /\ alive' = FALSE /\ frees' = frees + 1 /\ verdict' = v

-----------------------------------------------------------------------------
(* parse, peek and deparse *)

SegmentsFit(d, o) ==
  /\ At(d, o).ext # 0 /\ At(d, o).ext = 2 * (At(d, o).len + 1)
  /\ o + 1 + At(d, o).len + 1 <= Len(d)

CanParse(d, vs, k, msg) ==
  LET o == PayloadOffset(d, vs)
  IN  /\ k # "Ethernet" => NextProtocol(d, vs) = k
      /\ o < Len(d)
      /\ k = "Ethernet" => Len(d) >= 1 + Tags(At(d, o))
      /\ k = "Srh" => SegmentsFit(d, o)
      /\ msg # "none" => At(d, o).next = msg /\ o + 1 < Len(d)

\* A view that cannot be made drops its envelope, and the buffer with it.
Parse(k, msg) ==
  /\ alive /\ Len(views) < ViewsMax /\ TopKind(views) \in Envelopes(k)
  /\ IF CanParse(data, views, k, msg)
     THEN /\ views' = Append(views, View(data, k, msg, PayloadOffset(data, views)))
          /\ Return("ok") /\ UNCHANGED data
     ELSE Free("err")
  /\ UNCHANGED calls

\* Fault: the clone owns the buffer.
PeekOwned(k, msg) ==
  /\ Call /\ TopKind(views) \in Envelopes(k)
  /\ IF CanParse(data, views, k, msg) THEN Keep("ok")
     ELSE frees' = frees + 1 /\ verdict' = "err" /\ UNCHANGED <<data, views, alive>>

\* peek parses a clone, which shares the buffer but does not free it.
Peek(k, msg) ==
  /\ Call /\ TopKind(views) \in Envelopes(k)
  /\ Keep(IF CanParse(data, views, k, msg) THEN "ok" ELSE "err")

\* Icmpv4::downcast and Icmpv6::downcast.
Downcast(msg) ==
  /\ Call /\ TopKind(views) \in Icmps /\ Last(views).msg = "none"
  /\ msg \in Messages(TopKind(views))
  /\ IF CanParse(data, Front(views), TopKind(views), msg)
     THEN /\ views' = [views EXCEPT ![Len(views)].msg = msg]
          /\ Return("ok") /\ UNCHANGED data
     ELSE Free("err")

Deparse ==
  /\ Call /\ views # <<>>
  /\ views' = Front(views) /\ Return("ok") /\ UNCHANGED data

Reset ==
  /\ Call /\ views # <<>>
  /\ views' = <<>> /\ Return("ok") /\ UNCHANGED data

Drop == alive /\ Free("ok") /\ UNCHANGED calls

-----------------------------------------------------------------------------
(* push and remove *)

\* A new header, with the one segment of a routing header or the body of a
\* message.  An extension header takes over what its envelope had next.
New(k, msg, next) ==
  CASE k = "Srh" -> <<[Blank EXCEPT !.next = next, !.ext = 2], Blank>>
    [] k = "Fragment" -> <<[Blank EXCEPT !.next = next]>>
    [] k \in Icmps -> <<[Blank EXCEPT !.next = msg], Blank>>
    [] OTHER -> <<Blank>>

\* An ICMP header without a message cannot be pushed.
Push(k, msg) ==
  /\ Call /\ Len(views) < ViewsMax /\ TopKind(views) \in Envelopes(k)
  /\ LET o == PayloadOffset(data, views)
         new == New(k, msg, IF views = <<>> THEN "none" ELSE NextProtocol(data, views))
         pushed == Insert(data, o, new)
     IN  IF (k \notin Icmps \/ msg # "none") /\ CanExtend(data, Len(new))
         THEN /\ data' = IF views = <<>> THEN pushed ELSE SetNext(pushed, Last(views), k)
              /\ views' = Append(views, View(data', k, msg, o))
              /\ Return("ok")
         ELSE Free("err")

\* Fault: the envelope still announces the header that is gone.
RemoveHeaderPlainly ==
  /\ Call /\ views # <<>>
  /\ data' = Delete(data, Last(views).off, HeaderLen(data, Last(views)))
  /\ views' = Front(views) /\ Return("ok")

\* Only an extension header gives its envelope what it had next itself.
RemoveHeader ==
  /\ Call /\ views # <<>>
  /\ LET top == Last(views)
         rest == Delete(data, top.off, HeaderLen(data, top))
     IN  /\ data' = IF top.k \in Extensions
                    THEN SetNext(rest, Last(Front(views)), NextProtocol(data, views))
                    ELSE rest
         /\ views' = Front(views) /\ Return("ok")

RemovePayload ==
  /\ Call /\ views # <<>> /\ Last(views).msg = "none"
  /\ IF PayloadOffset(data, views) < Len(data)
     THEN /\ data' = Truncate(data, PayloadOffset(data, views))
          /\ Return("ok") /\ UNCHANGED views
     ELSE Keep("err")

-----------------------------------------------------------------------------
(* Addresses: an extension header passes them on to its envelope, but the   *)
(* destination is the first segment of the innermost routing header.        *)

IpView(vs) == vs[CHOOSE i \in DOMAIN vs : vs[i].k \in {"Ipv4", "Ipv6"}]
Srhs(vs) == {i \in DOMAIN vs : vs[i].k = "Srh"}

Src(d, vs) == Header(d, IpView(vs)).src
Dst(d, vs) ==
  IF Srhs(vs) = {} THEN Header(d, IpView(vs)).dst
  ELSE At(d, vs[CHOOSE i \in Srhs(vs) : \A j \in Srhs(vs) : j <= i].off + 1).v

SetSrc(d, vs, a) == [d EXCEPT ![IpView(vs).off + 1].src = a]

\* The views whose set_dst is called: a routing header passes the call on when
\* it has no segments left.
SetsDst(d, vs) ==
  {i \in DOMAIN vs : \A j \in Srhs(vs) : j > i => Header(d, vs[j]).v = 0}

SetDst(d, vs, a) ==
  LET offsets(k) == {vs[i].off : i \in {j \in SetsDst(d, vs) : vs[j].k = k}}
  IN  [c \in DOMAIN d |->
         CASE c - 1 \in offsets("Ipv4") \cup offsets("Ipv6") -> [d[c] EXCEPT !.dst = a]
           [] c - 2 \in offsets("Srh") -> [d[c] EXCEPT !.v = a]
           [] OTHER -> d[c]]

-----------------------------------------------------------------------------
(* Checksums *)

Sum(cell) ==
  cell.src + cell.dst + cell.len + cell.ext + cell.csum + cell.v + Number[cell.next]
Sums(cells) == [i \in DOMAIN cells |-> Sum(cells[i])]

\* The pseudo-header of the view on top; ICMP for IPv4 has none.
PseudoHeaderSum(d, vs) ==
  IF Last(vs).k = "Icmpv4" THEN 0
  ELSE PseudoSum(Src(d, Front(vs)), Dst(d, Front(vs)), Len(d) - Last(vs).off,
                 Number[Last(vs).k])

\* Zero means no checksum to UDP, which has all ones for it.
ForUdp(k, csum) == IF k = "Udp" /\ csum = 0 THEN AllOnes ELSE csum

\* compute_checksum of UDP, TCP and ICMP.
ComputeChecksum(d, vs) ==
  LET o == Last(vs).off
      cleared == [d EXCEPT ![o + 1].csum = 0]
      csum == Compute(PseudoHeaderSum(d, vs), Sums(From(cleared, o)))
  IN  [d EXCEPT ![o + 1].csum = ForUdp(Last(vs).k, csum)]

-----------------------------------------------------------------------------
(* Setters *)

\* A field with no part in the structure of the packet, of any header.
SetField(i, field, w) ==
  /\ Call /\ i \in DOMAIN views /\ views[i].k # "Ethernet"
  /\ field \in IF views[i].k \in {"Ipv4", "Ipv6"} THEN {"v", "src", "dst"} ELSE {"v"}
  /\ data' = SetHeader(data, views[i], [Header(data, views[i]) EXCEPT ![field] = w])
  /\ Return("ok") /\ UNCHANGED views

\* set_src_ip and set_dst_ip of UDP and TCP.  `same` is whether the new address
\* is of the family of the old one.
SetIp(field, same, a) ==
  /\ Call /\ TopKind(views) \in {"Udp", "Tcp"}
  /\ LET ips == Front(views)
         old == IF field = "src" THEN Src(data, ips) ELSE Dst(data, ips)
         set == IF field = "src" THEN SetSrc(data, ips, a) ELSE SetDst(data, ips, a)
         csum == ComputeInc(Header(data, Last(views)).csum, old, a)
     IN  IF same
         THEN /\ data' = [set EXCEPT ![Last(views).off + 1].csum =
                                       ForUdp(TopKind(views), csum)]
              /\ Return("ok") /\ UNCHANGED views
         ELSE Keep("err")

NoChecksum ==
  /\ Call /\ TopKind(views) = "Udp"
  /\ data' = [data EXCEPT ![Last(views).off + 1].csum = 0]
  /\ Return("ok") /\ UNCHANGED views

Replaced(d, view, segments) ==
  LET o == view.off + 1
      written == SubSeq(d, 1, o) \o [i \in DOMAIN segments |-> [Blank EXCEPT !.v = segments[i]]]
                   \o From(d, o + At(d, view.off).len + 1)
  IN  [written EXCEPT ![o].ext = 2 * Len(segments), ![o].len = Len(segments) - 1]

\* Fault: the header is written before the buffer is resized.
SetSegmentsHeaderFirst(i, segments) ==
  /\ Call /\ i \in DOMAIN views /\ views[i].k = "Srh" /\ segments # <<>>
  /\ LET grow == Len(segments) - (Header(data, views[i]).len + 1)
     IN  /\ grow # 0 => i = Len(views)
         /\ IF grow > 0 => CanExtend(data, grow)
            THEN /\ data' = Replaced(data, views[i], segments)
                 /\ views' = [views EXCEPT ![i].segs = Len(segments)]
                 /\ Return("ok")
            ELSE /\ data' = [data EXCEPT ![views[i].off + 1].ext = 2 * Len(segments)]
                 /\ Return("err") /\ UNCHANGED views

\* Fault: the segments of the view stay the old ones.
SetSegmentsUncached(i, segments) ==
  /\ Call /\ i \in DOMAIN views /\ views[i].k = "Srh" /\ segments # <<>>
  /\ LET grow == Len(segments) - (Header(data, views[i]).len + 1)
     IN  /\ grow # 0 => i = Len(views)
         /\ grow > 0 => CanExtend(data, grow)
         /\ data' = Replaced(data, views[i], segments)
         /\ Return("ok") /\ UNCHANGED views

\* The buffer is resized when the number of segments changes.
SetSegments(i, segments) ==
  /\ Call /\ i \in DOMAIN views /\ views[i].k = "Srh"
  /\ LET grow == Len(segments) - (Header(data, views[i]).len + 1)
     IN  /\ grow # 0 => i = Len(views)
         /\ IF segments # <<>> /\ (grow > 0 => CanExtend(data, grow))
            THEN /\ data' = Replaced(data, views[i], segments)
                 /\ views' = [views EXCEPT ![i].segs = Len(segments)]
                 /\ Return("ok")
            ELSE Keep("err")

\* set_data of an echo request: to resize by nothing is an error, as it is to
\* write no data at the end of the buffer.
SetData(n) ==
  /\ Call /\ views # <<>> /\ Last(views).msg = "EchoRequest"
  /\ LET o == Last(views).off + 2
         grow == n - (Len(data) - o)
     IN  IF grow < 0 \/ CanExtend(data, grow)
         THEN /\ data' = SubSeq(data, 1, o) \o [i \in 1 .. n |-> Octets]
              /\ Return(IF n = 0 THEN "err" ELSE "ok") /\ UNCHANGED views
         ELSE Keep("err")

-----------------------------------------------------------------------------
(* truncate and reconcile *)

MinMtu(vs) == IF IpView(vs).k = "Ipv4" THEN Ipv4MinMtu ELSE Ipv6MinMtu

TruncateTo(mtu) ==
  /\ Call /\ TopKind(views) \in Ips
  /\ LET to_len == mtu + IpView(views).off
     IN  IF mtu >= MinMtu(views) /\ to_len < Len(data)
         THEN data' = Truncate(data, to_len) /\ Return("ok") /\ UNCHANGED views
         ELSE Keep("err")

\* An error quotes no more of a packet than fits: so many octets for IPv4, and
\* what keeps the whole packet below the MTU for IPv6.
Cut(d, vs) ==
  CASE Last(vs).msg = "TimeExceeded" -> Truncate(d, Last(vs).off + 2 + Ipv4MinMtu)
    [] Last(vs).msg = "PacketTooBig" -> Truncate(d, IpView(vs).off + Ipv6MinMtu)
    [] OTHER -> d

\* reconcile of the view on top.
Reconciled(d, vs) ==
  LET top == Last(vs)
      len(n) == [d EXCEPT ![top.off + 1].len = n]
      cleared == [Header(len(Len(d) - top.off), top) EXCEPT !.csum = 0]
  IN  CASE top.k = "Ipv4" -> SetHeader(d, top, [cleared EXCEPT !.csum = Compute(0, <<Sum(cleared)>>)])
        [] top.k = "Ipv6" -> len(Len(d) - top.off - 1)
        [] top.k = "Udp" -> ComputeChecksum(len(Len(d) - top.off), vs)
        [] top.k = "Tcp" -> ComputeChecksum(d, vs)
        [] top.k \in Icmps -> ComputeChecksum(Cut(d, vs), vs)
        [] OTHER -> d

\* Fault: the envelopes are reconciled first.
ReconcileAllOutermostFirst ==
  /\ Call /\ views # <<>>
  /\ LET r[i \in 0 .. Len(views)] ==
           IF i = 0 THEN data ELSE Reconciled(r[i - 1], SubSeq(views, 1, i))
     IN  data' = r[Len(views)]
  /\ Return("ok") /\ UNCHANGED views

\* Each view, then its envelope.
ReconcileAll ==
  /\ Call /\ views # <<>>
  /\ LET r[i \in 1 .. Len(views) + 1] ==
           IF i > Len(views) THEN data ELSE Reconciled(r[i + 1], SubSeq(views, 1, i))
     IN  data' = r[1]
  /\ Return("ok") /\ UNCHANGED views

-----------------------------------------------------------------------------
Next ==
  \/ \E t \in Types : Parse(t[1], t[2]) \/ Peek(t[1], t[2]) \/ Push(t[1], t[2])
  \/ \E msg \in Errors \cup {"EchoRequest"} : Downcast(msg)
  \/ Deparse \/ Reset \/ Drop
  \/ RemoveHeader \/ RemovePayload
  \/ \E i \in DOMAIN views, field \in {"v", "src", "dst"}, w \in Values : SetField(i, field, w)
  \/ \E field \in {"src", "dst"}, same \in BOOLEAN, a \in Addresses : SetIp(field, same, a)
  \/ NoChecksum
  \/ \E i \in DOMAIN views, segments \in BoundedSeq(Addresses, SegsMax) : SetSegments(i, segments)
  \/ \E n \in 0 .. DataMax : SetData(n)
  \/ \E mtu \in Mtus : TruncateTo(mtu)
  \/ ReconcileAll

Spec == Init /\ [][Next]_vars

-----------------------------------------------------------------------------
(* What a receiver makes of the packet *)

\* The extension headers from an offset on, told by their own length, and what
\* is behind them.
Chain(d, o, next) ==
  LET from[p \in (0 .. Len(d)) \X DOMAIN Number] ==
        LET n == p[1]
            k == p[2]
            end == n + 1 + IF k = "Srh" THEN At(d, n).ext \div 2 ELSE 0
        IN  IF k \in Extensions /\ n < Len(d) /\ end <= Len(d)
            THEN LET tail == from[<<end, At(d, n).next>>]
                 IN  [tail EXCEPT !.kinds = <<k>> \o @]
            ELSE [kinds |-> <<>>, last |-> k, payload |-> From(d, n)]
  IN  from[<<o, next>>]

\* The chain behind the view on top.
ChainBehind(d, vs) == Chain(d, PayloadOffset(d, vs), NextProtocol(d, vs))

Valid(d, vs) == Verifies(PseudoHeaderSum(d, vs), Sums(From(d, Last(vs).off)))

\* The lengths and checksums of the view on top are those of the packet.
Settled(d, vs) ==
  LET top == Last(vs)
      h == Header(d, top)
  IN  /\ top.k = "Ipv4" => h.len = Len(d) - top.off /\ Verifies(0, <<Sum(h)>>)
      /\ top.k = "Ipv6" => h.len = Len(d) - top.off - 1
      /\ top.k = "Udp" => h.len = Len(d) - top.off /\ h.csum # 0
      /\ top.k \in {"Udp", "Tcp"} \cup Icmps => Valid(d, vs)
      /\ top.msg = "TimeExceeded" => Len(d) - top.off - 2 <= Ipv4MinMtu
      /\ top.msg = "PacketTooBig" => Len(d) - IpView(vs).off <= Ipv6MinMtu

-----------------------------------------------------------------------------
TypeOK ==
  /\ \A i \in DOMAIN data :
       /\ DOMAIN data[i] = DOMAIN Blank
       /\ data[i].next \in DOMAIN Number
       /\ \A f \in DOMAIN Blank \ {"next"} : data[i][f] \in Word
  /\ Len(data) < Room
  /\ \A i \in DOMAIN views :
       /\ <<views[i].k, views[i].msg>> \in Types
       /\ views[i].off \in Nat /\ views[i].segs \in Nat
  /\ Len(views) <= ViewsMax
  /\ alive \in BOOLEAN /\ frees \in Nat
  /\ verdict \in {"ok", "err"} /\ calls \in 0 .. MaxCalls

\* The views agree with the buffer, whatever was pushed, removed or resized
\* under the pointers they have cached: each header begins where its envelope's
\* ends, is of the type its envelope announces and lies in the packet with its
\* segments or its body.
HeadersInPlace ==
  \A i \in DOMAIN views :
    LET view == views[i]
        below == SubSeq(views, 1, i - 1)
        h == Header(data, view)
    IN  /\ TopKind(below) \in Envelopes(view.k)
        /\ view.off = PayloadOffset(data, below)
        /\ view.off + HeaderLen(data, view) <= Len(data)
        /\ below # <<>> => NextProtocol(data, below) = view.k
        /\ view.k = "Srh" => view.segs = h.len + 1 /\ h.ext = 2 * view.segs
        /\ view.msg # "none" => h.next = view.msg /\ view.off + 1 < Len(data)

\* The headers, with the body of a message, are no longer than the smallest MTU.
\* The code takes this for granted: truncate, and reconcile of an error message,
\* cut a packet at an MTU without a look at where the headers end.
HeadersFit ==
  Len(views) > 1 =>
    PayloadOffset(data, views) + (IF Last(views).msg = "none" THEN 0 ELSE 1)
      <= IpView(views).off + MinMtu(views)

\* The buffer is freed once, with the last view of it and not before: an error
\* of parse or push frees it, one of peek does not.
FreedOnce == frees = IF alive THEN 0 ELSE 1

\* An extension header goes into a chain, or out of it, without a change to
\* what a receiver finds behind it.
ChainKept ==
  [][/\ Len(views') = Len(views) + 1 /\ data' # data /\ Last(views').k \in Extensions =>
          ChainBehind(data', views') = ChainBehind(data, views)
     /\ RemoveHeader /\ Last(views).k \in Extensions =>
          ChainBehind(data', views') = ChainBehind(data, views)]_vars

\* reconcile_all leaves every length and checksum right, also when an error
\* message is cut by the reconcile of a view above the lengths.
ReconcileSettles ==
  [][ReconcileAll => \A i \in DOMAIN views' : Settled(data', SubSeq(views', 1, i))]_vars

\* set_src_ip and set_dst_ip keep a checksum right which was, with a routing
\* header as without.
ChecksumCarried ==
  [][\A field \in {"src", "dst"}, a \in Addresses :
       SetIp(field, TRUE, a) /\ Valid(data, views) => Valid(data', views')]_vars

\* A setter that fails has changed nothing, except set_data of no data.
ErrorLeavesPacket ==
  [][verdict' = "err" /\ alive' /\ ~SetData(0) => UNCHANGED <<data, views>>]_vars
=============================================================================
