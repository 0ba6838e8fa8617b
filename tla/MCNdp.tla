------------------------------- MODULE MCNdp -------------------------------
(***************************************************************************)
(* Small instances of Ndp for TLC: a unit of two cells, lengths below 8 of *)
(* which 4 wraps a "u8", and a buffer of 14 cells.                         *)
(***************************************************************************)
EXTENDS Ndp

McKind == {"redirected", "mtu", "prefix"}
McUnits == [k \in McKind |-> IF k = "prefix" THEN 2 ELSE 1]
McCell == [t : McKind \cup {"other", "body", "data"}, len : 0 .. 7]

Opt(t, n) == [i \in 1 .. 2 * n |->
  IF i = 1 THEN [t |-> t, len |-> n] ELSE [t |-> "body", len |-> 0]]
\* The length field of the option says n.
Says(opt, n) == [opt EXCEPT ![1].len = n]
Message == <<[t |-> "data", len |-> 0]>>
Payload(n) == [i \in 1 .. n |-> [t |-> "data", len |-> 0]]

\* Messages as a router sends them, and messages whose lengths are wrong.
Regular == {
  Message,
  Message \o Opt("mtu", 1),
  Message \o Opt("other", 1) \o Opt("prefix", 2),
  Message \o Opt("mtu", 1) \o Opt("other", 2) \o Opt("mtu", 1),
  Message \o Opt("redirected", 3),
  Message \o Opt("mtu", 1) \o Opt("redirected", 3)}
Broken == {
  Message \o Opt("prefix", 2) \o Says(Opt("mtu", 1), 0),
  Message \o Says(Opt("prefix", 1), 1) \o Opt("mtu", 1),
  Message \o Opt("mtu", 1) \o Says(Opt("other", 1), 3),
  Message \o Opt("mtu", 1) \o <<[t |-> "other", len |-> 1]>>,
  Message \o Opt("mtu", 1) \o Opt("other", 4),
  Message \o Opt("redirected", 5)}
AllFrames == Regular \cup Broken

\* The packet a router redirects, once the headers of the message are before it.
Redirected == {Message \o Payload(3), Message \o Payload(8)}

McJunk == [t |-> "body", len |-> 0]
McRefusals == {{}, {"mtu"}, {"redirected", "other"}}

=============================================================================
