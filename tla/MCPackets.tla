----------------------------- MODULE MCPackets ------------------------------
(***************************************************************************)
(* A small instance of Packets for TLC: words of 4 bits and buffers of 15  *)
(* cells.                                                                  *)
(***************************************************************************)
EXTENDS Packets

McNumber == [p \in {"none", "Ipv4", "Ipv6", "Srh", "Fragment", "Udp", "Tcp", "Icmpv4", "Icmpv6",
                    "EchoRequest", "TimeExceeded", "PacketTooBig"} |->
  CASE p = "none" -> 0 [] p = "Udp" -> 1 [] p = "Tcp" -> 2 [] p = "Srh" -> 3
    [] p = "Ipv4" -> 4 [] p = "Fragment" -> 5 [] p = "Ipv6" -> 6
    [] p = "Icmpv4" -> 7 [] p = "Icmpv6" -> 8
    [] p = "EchoRequest" -> 9 [] p = "TimeExceeded" -> 10 [] OTHER -> 11]

Eth(next, tags) == <<[Blank EXCEPT !.next = next, !.v = tags]>> \o [i \in 1 .. tags |-> Octets]
Ip(next, len) == <<[Blank EXCEPT !.next = next, !.src = 13, !.dst = 6, !.len = len]>>
Srh(next, ext, segments) ==
  <<[Blank EXCEPT !.next = next, !.ext = ext, !.len = Len(segments) - 1, !.v = Len(segments) - 1]>>
    \o [i \in DOMAIN segments |-> [Blank EXCEPT !.v = segments[i]]]
Fragment(next) == <<[Blank EXCEPT !.next = next]>>
Tcp(csum) == <<[Blank EXCEPT !.v = 5, !.csum = csum]>>
Udp(len, csum) == <<[Blank EXCEPT !.len = len, !.csum = csum]>>
Icmp(msg) == <<[Blank EXCEPT !.next = msg], Octets>>
Payload(n) == [i \in 1 .. n |-> Octets]

\* Packets as they are sent, one that is cut off, and one whose routing header
\* says a length that is not that of its segments.
Regular == {
  Eth("Ipv4", 0) \o Ip("Udp", 4) \o Udp(3, 3) \o Payload(2),
  Eth("Ipv6", 1) \o Ip("Srh", 5) \o Srh("Tcp", 4, <<6, 9>>) \o Tcp(5) \o Payload(1),
  Eth("Ipv6", 0) \o Ip("Fragment", 4) \o Fragment("Srh") \o Srh("Udp", 2, <<13>>) \o Udp(1, 0),
  Eth("Ipv4", 2) \o Ip("Icmpv4", 4) \o Icmp("EchoRequest") \o Payload(1),
  Eth("Ipv6", 0) \o Ip("Tcp", 10) \o Tcp(1) \o Payload(9)}
Broken == {
  <<>>,
  Eth("Ipv4", 2),
  Eth("Ipv6", 0) \o Ip("Srh", 3) \o Srh("Tcp", 2, <<6, 9>>) \o Tcp(0),
  Eth("Ipv6", 0) \o Ip("Srh", 3) \o SubSeq(Srh("Tcp", 4, <<6, 9>>), 1, 2)}
AllFrames == Regular \cup Broken
=============================================================================
