-------------------------------- MODULE Cidr --------------------------------
(***************************************************************************)
(* CIDR ranges of either family (net/cidr): an address and a netmask, and  *)
(* the iterator over the addresses of a range.  The arithmetic is in the   *)
(* bits of the family, but the size of a range is a usize, which has more  *)
(* bits than an IPv4 address and fewer than an IPv6 one.  Overflow wraps,  *)
(* as in a release build; a debug build panics instead.                    *)
(***************************************************************************)
EXTENDS Integers, FiniteSets, FiniteSetsExt

CONSTANTS
  Families,
  BitsOf,     \* BitsOf[f]: the bits of an address
  SizeBits    \* the bits of a usize

ASSUME CidrAssumption ==
  /\ BitsOf \in [Families -> Nat \ {0}]
  /\ SizeBits \in Nat \ {0}

VARIABLES
  family,
  cidr,     \* the range: address and mask
  asked,    \* the length it was last asked to have (a history variable)
  next,     \* what the iterator gives next, in a set, or the empty set
  end,      \* what it gives last
  given     \* what it gave (a history variable)

vars == <<family, cidr, asked, next, end, given>>

\* Powers of two, as a function because the provers know nothing of ^.
Pow2[n \in Nat] == IF n = 0 THEN 1 ELSE 2 * Pow2[n - 1]

Bits == BitsOf[family]
AddressMod == Pow2[Bits]
Address == 0 .. AddressMod - 1

Bit(w, i) == (w \div Pow2[i]) % 2
Ones(w) == {i \in 0 .. Bits - 1 : Bit(w, i) = 1}

\* v & w, from the lowest bit on.
And(v, w) ==
  LET below[n \in 0 .. Bits] ==
        IF n = 0 THEN 0 ELSE below[n - 1] + Bit(v, n - 1) * Bit(w, n - 1) * Pow2[n - 1]
  IN  below[Bits]

Inverted(w) == AddressMod - 1 - w
LeadingZeros(w) == IF w = 0 THEN Bits ELSE Bits - 1 - Max(Ones(w))
TrailingZeros(w) == IF w = 0 THEN Bits ELSE Min(Ones(w))
CountZeros(w) == Bits - Cardinality(Ones(w))

Network(c) == And(c.mask, c.address)
Broadcast(c) == And(c.mask, c.address) + Inverted(c.mask)
Contains(c, a) == And(c.mask, c.address) = And(c.mask, a)
Length(c) == LeadingZeros(Inverted(c.mask))
Size(c) == Pow2[Bits - Length(c)] % Pow2[SizeBits]

\* A length of zero cannot be shifted for, and gets the mask of a single address.
Mask(length) == IF length = 0 THEN AddressMod - 1 ELSE AddressMod - Pow2[Bits - length]

Default == [address |-> 0, mask |-> 0]

Init ==
  /\ family \in Families
  /\ cidr = Default /\ asked = 0
  /\ next = {} /\ end = 0 /\ given = {}

-----------------------------------------------------------------------------
NewRange(a, length) ==
  /\ length <= Bits
  /\ cidr' = [address |-> a, mask |-> Mask(length)]
  /\ next' = {} /\ end' = 0 /\ given' = {}
  /\ UNCHANGED family

\* A length that is too large is an error.
New(a, length) ==
  /\ NewRange(a, length)
  /\ asked' = length

\* Fault: a hole in the mask is not noticed.
IsNetmaskWithHoles(mask) == LeadingZeros(mask) = 0

\* netmask_length is no error.
IsNetmask(mask) == LeadingZeros(mask) = 0 /\ TrailingZeros(mask) = CountZeros(mask)

WithNetmask(a, mask) ==
  /\ IsNetmask(mask)
  /\ NewRange(a, LeadingZeros(Inverted(mask)))
  /\ asked' = Cardinality(Ones(mask))

\* Fault: the size, and not the size less one, is added.
IterPastEnd ==
  /\ next' = {Network(cidr)} /\ given' = {}
  /\ end' = Network(cidr) + Size(cidr)
  /\ UNCHANGED <<family, cidr, asked>>

Iter ==
  /\ next' = {Network(cidr)} /\ given' = {}
  /\ end' = (Network(cidr) + (Size(cidr) % AddressMod) - 1) % AddressMod
  /\ UNCHANGED <<family, cidr, asked>>

\* Fault: the end is not given.
NextAddressExclusive ==
  \E n \in next :
    /\ given' = given \cup {n}
    /\ next' = IF n + 1 >= end THEN {} ELSE {n + 1}
    /\ UNCHANGED <<family, cidr, asked, end>>

NextAddress ==
  \E n \in next :
    /\ given' = given \cup {n}
    /\ next' = IF n = end THEN {} ELSE {(n + 1) % AddressMod}
    /\ UNCHANGED <<family, cidr, asked, end>>

Next ==
  \/ \E a \in Address, length \in 0 .. Bits + 1 : New(a, length)
  \/ \E a \in Address, mask \in Address : WithNetmask(a, mask)
  \/ Iter
  \/ NextAddress

Spec == Init /\ [][Next]_vars

-----------------------------------------------------------------------------
Contained == {a \in Address : Contains(cidr, a)}
\* The size of the range is that of a usize: a short prefix of IPv6 is too large.
SizeFits == Bits - Length(cidr) < SizeBits
\* The range was made from a length of zero.  The default one was not, and has none.
ZeroAsked == asked = 0 /\ cidr # Default

TypeOK ==
  /\ family \in Families
  /\ cidr \in [address : Address, mask : Address]
  /\ asked \in 0 .. Bits
  /\ next \in {{}} \cup {{a} : a \in Address}
  /\ end \in Address /\ given \subseteq Address

\* contains, network and broadcast agree on what the range is, and so does size.
\* Made from a length or from a netmask it has that length, and is the addresses
\* with its first bits; LengthAsAsked is about the length zero, left out here.
RangeAgrees ==
  /\ Contained = Network(cidr) .. Broadcast(cidr)
  /\ SizeFits => Size(cidr) = Cardinality(Contained)
  /\ ~ZeroAsked =>
       /\ Length(cidr) = asked
       /\ Contained = {a \in Address : a \div Pow2[Bits - asked] = cidr.address \div Pow2[Bits - asked]}

\* What the trait says of every range: new makes "a new CIDR range from a prefix
\* length" (net/cidr/mod.rs:67), and length gives "the CIDR prefix length"
\* (net/cidr/mod.rs:58).  Both implementations break it for the length zero.
LengthAsAsked == Length(cidr) = asked

\* The iterator gives the addresses of the range from the first on, and ends
\* when it has given all of them, at the last address of the family too.
IteratorCovers ==
  SizeFits =>
    /\ \A n \in next : n \in Contained /\ given = Network(cidr) .. n - 1
    /\ next = {} /\ given # {} => given = Contained
=============================================================================
