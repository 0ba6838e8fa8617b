------------------------------ MODULE Checksum ------------------------------
(***************************************************************************)
(* The Internet checksum of packets/checksum.rs over words of WordBits     *)
(* bits: 16 in the code.  Packets are whole words here; the padding of an  *)
(* odd last octet is left out.                                             *)
(***************************************************************************)
EXTENDS Integers, Sequences

CONSTANT WordBits

\* A word of two bits or more.  That a power of two is a natural number is part
\* of the assumption because the provers know nothing of powers.
ASSUME ChecksumAssumption ==
  WordBits \in Nat /\ 2 ^ WordBits \in Nat /\ 2 ^ WordBits > 3

Mod == 2 ^ WordBits
Word == 0 .. Mod - 1
AllOnes == Mod - 1
Not(w) == AllOnes - w

\* A sum is folded until nothing is carried out of the word.
Folded[sum \in Nat] == IF sum < Mod THEN sum ELSE Folded[(sum \div Mod) + (sum % Mod)]

Total(words) ==
  LET sum[i \in 0 .. Len(words)] == IF i = 0 THEN 0 ELSE sum[i - 1] + words[i]
  IN  sum[Len(words)]

\* PseudoHeader::sum; an address is one word.
PseudoSum(src, dst, len, protocol) == Folded[src + dst + len + protocol]

\* Fault: nothing is folded.
ComputeUnfolded(pseudo_header_sum, words) == Not(pseudo_header_sum + Total(words))

Compute(pseudo_header_sum, words) == Not(Folded[pseudo_header_sum + Total(words)])

\* Fault: the carries are not added back.
ComputeIncUnfolded(old, from, to) == Not((Not(old) + Not(from) + to) % Mod)

\* HC' = ~(~HC + ~m + m'), for one word that changes.
ComputeInc(old, from, to) == Not(Folded[Not(old) + Not(from) + to])

\* What a receiver checks: the sum with the checksum in it is -0.
Verifies(pseudo_header_sum, words) == Folded[pseudo_header_sum + Total(words)] = AllOnes
=============================================================================
