----------------------------- MODULE CidrProofs -----------------------------
(***************************************************************************)
(* Proofs about CIDR ranges, for addresses and sizes of any number of bits *)
(* and every address, length and netmask.                                  *)
(*                                                                         *)
(* The code works on bits, the properties speak of addresses in order.     *)
(* The bridge is Masked: with a mask of ones and then k zeros, & takes off *)
(* the remainder by the k-th power of two.  It is shown bit by bit along   *)
(* the recursion of And, from what a bit contributes to a number (LowBits) *)
(* and what the bits of such a mask are (MaskBits).  What is left is       *)
(* arithmetic of blocks of addresses (Block, BlockFits).                   *)
(***************************************************************************)
EXTENDS Cidr, FiniteSetTheorems, TLAPS

\* Induction over a set of natural numbers.
LEMMA Natural ==
  ASSUME NEW T \in SUBSET Nat, 0 \in T, \A n \in T : n + 1 \in T
  PROVE  T = Nat
<1> DEFINE R == {p \in Nat \X Nat : p[1] < p[2]}
<1>1. IsWellFoundedOn(R, Nat)
  BY NatLessThanWellFounded DEF OpToRel
<1>2. \A x, y \in Nat : <<y, x>> \in R <=> y < x
  OBVIOUS
<1> HIDE DEF R
<1>3. ASSUME Nat \ T # {} PROVE FALSE
  <2>1. PICK x \in Nat \ T : \A y \in Nat \ T : ~ (<<y, x>> \in R)
    BY <1>1, <1>3, WFMin
  <2>2. x # 0 /\ x - 1 \in Nat /\ x - 1 < x
    BY <2>1
  <2>3. <<x - 1, x>> \in R
    BY <1>2, <2>2
  <2>4. x - 1 \in T
    BY <2>1, <2>2, <2>3
  <2>5. x - 1 + 1 = x
    BY <2>1
  <2>6. QED
    BY <2>1, <2>4, <2>5
<1>4. QED
  BY <1>3

-----------------------------------------------------------------------------
(* Powers of two *)

\* The recursion of Pow2 has a solution.
LEMMA PowIs ==
  /\ Pow2[0] = 1
  /\ \A n \in Nat : Pow2[n] \in Nat \ {0} /\ Pow2[n + 1] = 2 * Pow2[n]
<1> DEFINE Upto(k, s) == /\ s \in [0 .. k -> Nat \ {0}] /\ s[0] = 1
                         /\ \A i \in 1 .. k : s[i] = 2 * s[i - 1]
           T == {k \in Nat : \E s : Upto(k, s)}
           U(s, t, k) == {j \in Nat : j <= k => s[j] = t[j]}
<1>1. ASSUME NEW k \in Nat, NEW s, NEW t, Upto(k, s), Upto(k, t) PROVE s[k] = t[k]
  <2>1. 0 \in U(s, t, k)
    BY <1>1
  <2>2. ASSUME NEW j \in U(s, t, k) PROVE j + 1 \in U(s, t, k)
    BY <1>1
  <2>3. U(s, t, k) = Nat
    <3>1. U(s, t, k) \in SUBSET Nat
      OBVIOUS
    <3> HIDE DEF U
    <3>2. QED
      BY <2>1, <2>2, <3>1, Natural
  <2>4. k \in U(s, t, k)
    BY <2>3
  <2>5. QED
    BY <2>4
<1>2. 0 \in T
  <2>1. Upto(0, [i \in 0 .. 0 |-> 1])
    OBVIOUS
  <2>2. QED
    BY <2>1
<1>3. ASSUME NEW k \in T PROVE k + 1 \in T
  <2>1. k \in Nat /\ \E s : Upto(k, s)
    OBVIOUS
  <2>2. PICK s : Upto(k, s)
    <3> HIDE DEF Upto
    <3>1. QED
      BY <2>1
  <2> DEFINE r == [i \in 0 .. k + 1 |-> IF i <= k THEN s[i] ELSE 2 * s[k]]
  <2>3. r \in [0 .. k + 1 -> Nat \ {0}] /\ r[0] = 1
    BY <2>1, <2>2
  <2>4. ASSUME NEW i \in 1 .. k + 1 PROVE r[i] = 2 * r[i - 1]
    <3>1. CASE i = k + 1
      BY <2>1, <2>2, <3>1
    <3>2. CASE i <= k
      BY <2>1, <2>2, <3>2
    <3>3. QED
      BY <2>1, <3>1, <3>2
  <2>5. Upto(k + 1, r)
    BY <2>3, <2>4
  <2>6. k + 1 \in Nat
    BY <2>1
  <2> HIDE DEF Upto
  <2>7. QED
    BY <2>5, <2>6
<1>4. T = Nat
  <2> HIDE DEF T
  <2>1. T \in SUBSET Nat
    BY DEF T
  <2>2. QED
    BY <1>2, <1>3, <2>1, Natural
<1> DEFINE S(k) == CHOOSE s : Upto(k, s)
           G == [k \in Nat |-> S(k)[k]]
<1>5. \A k \in Nat : Upto(k, S(k))
  <2> HIDE DEF Upto
  <2>1. QED
    BY <1>4
<1>6. G[0] = 1
  <2>1. Upto(0, S(0))
    BY <1>5
  <2> HIDE DEF S
  <2>2. QED
    BY <2>1
<1>7. \A k \in Nat : G[k] \in Nat \ {0} /\ G[k + 1] = 2 * G[k]
  <2>1. SUFFICES ASSUME NEW k \in Nat PROVE G[k] \in Nat \ {0} /\ G[k + 1] = 2 * G[k]
    OBVIOUS
  <2>2. Upto(k, S(k)) /\ Upto(k + 1, S(k + 1))
    <3>1. k \in Nat /\ k + 1 \in Nat
      OBVIOUS
    <3> HIDE DEF Upto, S
    <3>2. QED
      BY <1>5, <3>1
  <2> HIDE DEF S
  <2> DEFINE r == [i \in 0 .. k |-> S(k + 1)[i]]
  <2>3. Upto(k, r)
    BY <2>2
  <2>4. r[k] = S(k)[k]
    <3> HIDE DEF Upto, r
    <3>1. QED
      BY <1>1, <2>2, <2>3
  <2>5. S(k + 1)[k + 1] = 2 * S(k + 1)[k]
    BY <2>2
  <2>6. S(k)[k] \in Nat \ {0}
    BY <2>2
  <2>7. QED
    BY <2>4, <2>5, <2>6
<1>8. G = [n \in Nat |-> IF n = 0 THEN 1 ELSE 2 * G[n - 1]]
  <2> HIDE DEF S
  <2>1. ASSUME NEW n \in Nat PROVE G[n] = IF n = 0 THEN 1 ELSE 2 * G[n - 1]
    <3>1. CASE n = 0
      BY <1>6, <3>1
    <3>2. CASE n # 0
      <4>1. n - 1 \in Nat /\ (n - 1) + 1 = n
        BY <3>2
      <4> HIDE DEF G
      <4>2. QED
        BY <1>7, <3>2, <4>1
    <3>3. QED
      BY <3>1, <3>2
  <2>2. QED
    BY <2>1
<1>9. Pow2 = [n \in Nat |-> IF n = 0 THEN 1 ELSE 2 * Pow2[n - 1]]
  <2> HIDE DEF G
  <2>1. \E F : F = [n \in Nat |-> IF n = 0 THEN 1 ELSE 2 * F[n - 1]]
    BY <1>8
  <2>2. QED
    BY <2>1 DEF Pow2
<1>10. Pow2[0] = 1 /\ \A n \in Nat : Pow2[n + 1] = 2 * Pow2[n]
  BY <1>9
<1> DEFINE V == {n \in Nat : Pow2[n] \in Nat \ {0}}
<1>11. 0 \in V
  BY <1>10
<1>12. ASSUME NEW n \in V PROVE n + 1 \in V
  BY <1>10
<1>13. V = Nat
  <2> HIDE DEF V
  <2>1. V \in SUBSET Nat
    BY DEF V
  <2>2. QED
    BY <1>11, <1>12, <2>1, Natural
<1>14. QED
  BY <1>10, <1>13

\* The powers of two multiply when their exponents add.
LEMMA PowAdd == \A n, k \in Nat : Pow2[n + k] = Pow2[n] * Pow2[k]
<1> SUFFICES ASSUME NEW n \in Nat PROVE \A k \in Nat : Pow2[n + k] = Pow2[n] * Pow2[k]
  OBVIOUS
<1> DEFINE T == {k \in Nat : Pow2[n + k] = Pow2[n] * Pow2[k]}
<1>1. 0 \in T
  BY PowIs
<1>2. ASSUME NEW k \in T PROVE k + 1 \in T
  <2>1. k \in Nat /\ Pow2[n + k] = Pow2[n] * Pow2[k]
    OBVIOUS
  <2>2. Pow2[(n + k) + 1] = 2 * Pow2[n + k] /\ Pow2[k + 1] = 2 * Pow2[k]
    BY <2>1, PowIs
  <2>3. (n + k) + 1 = n + (k + 1)
    BY <2>1
  <2>4. Pow2[n] \in Nat /\ Pow2[k] \in Nat
    BY <2>1, PowIs
  <2>5. Pow2[n + (k + 1)] = Pow2[n] * Pow2[k + 1]
    BY <2>1, <2>2, <2>3, <2>4
  <2>6. QED
    BY <2>1, <2>5
<1>3. T = Nat
  <2> HIDE DEF T
  <2>1. T \in SUBSET Nat
    BY DEF T
  <2>2. QED
    BY <1>1, <1>2, <2>1, Natural
<1>4. QED
  BY <1>3

\* A power of two is the multiple of a lower one, of half of it when it is higher.
LEMMA PowOrder ==
  ASSUME NEW n \in Nat, NEW k \in 0 .. n
  PROVE  /\ \E m \in Nat \ {0} : Pow2[n] = m * Pow2[k]
         /\ Pow2[n] >= Pow2[k]
         /\ n # k => /\ \E x \in Nat \ {0} : Pow2[n] = (2 * x) * Pow2[k]
                     /\ Pow2[n] > Pow2[k]
<1>1. PICK j \in Nat : n = j + k
  <2>1. n - k \in Nat /\ n = (n - k) + k
    OBVIOUS
  <2>2. QED
    BY <2>1
<1>2. PICK a : a = Pow2[j]
  OBVIOUS
<1>3. PICK b : b = Pow2[k]
  OBVIOUS
<1>4. a \in Nat \ {0} /\ b \in Nat \ {0} /\ Pow2[n] = a * b
  <2>1. k \in Nat
    OBVIOUS
  <2>2. Pow2[j + k] = Pow2[j] * Pow2[k]
    BY <2>1, PowAdd
  <2>3. QED
    BY <1>1, <1>2, <1>3, <2>1, <2>2, PowIs
<1>5. a * b >= b
  BY <1>4
<1>6. ASSUME n # k PROVE \E x \in Nat \ {0} : a = 2 * x
  <2>1. j - 1 \in Nat /\ (j - 1) + 1 = j
    BY <1>1, <1>6
  <2>2. QED
    BY <1>2, <2>1, PowIs
<1>7. ASSUME n # k PROVE a * b > b
  <2>1. a >= 2
    BY <1>6, <1>7
  <2>2. QED
    BY <1>4, <2>1
<1>8. QED
  BY <1>3, <1>4, <1>5, <1>6, <1>7

-----------------------------------------------------------------------------
(* Bits *)

\* Quotient and remainder are those that there are.
LEMMA Quotient ==
  ASSUME NEW d \in Nat \ {0}, NEW q \in Nat, NEW r \in Nat, r < d
  PROVE  (q * d + r) \div d = q /\ (q * d + r) % d = r
<1>1. PICK x \in Nat : x = q * d + r
  OBVIOUS
<1>2. PICK p \in Nat : p = x \div d
  BY <1>1
<1>3. PICK s \in Nat : s = x % d
  BY <1>1
<1>4. x = p * d + s /\ s < d
  BY <1>2, <1>3
<1>5. (p - q) * d = r - s
  BY <1>1, <1>4
<1>6. CASE p = q
  BY <1>1, <1>2, <1>3, <1>5, <1>6
<1>7. CASE p > q
  <2>1. (p - q) * d >= d
    BY <1>7
  <2>2. QED
    BY <1>5, <2>1
<1>8. CASE p < q
  <2>1. (q - p) * d >= d
    BY <1>8
  <2>2. (q - p) * d = s - r
    BY <1>1, <1>4
  <2>3. QED
    BY <1>4, <2>1, <2>2
<1>9. QED
  BY <1>6, <1>7, <1>8

\* And there are some.
LEMMA Division ==
  ASSUME NEW x \in Nat, NEW d \in Nat \ {0}
  PROVE  /\ x \div d \in Nat /\ x % d \in Nat /\ x % d < d
         /\ x = (x \div d) * d + (x % d)
OBVIOUS

\* A number below the divisor is the remainder.
LEMMA Remainder ==
  ASSUME NEW d \in Nat \ {0}, NEW x \in Nat, x < d
  PROVE  x \div d = 0 /\ x % d = x
<1>1. PICK q \in Nat : q = x \div d
  BY Division
<1>2. PICK r \in Nat : r = x % d
  BY Division
<1>3. x = q * d + r
  BY <1>1, <1>2, Division
<1>4. q = 0
  <2>1. CASE q > 0
    <3>1. q * d >= d
      BY <2>1
    <3>2. QED
      BY <1>3, <3>1
  <2>2. QED
    BY <2>1
<1>5. QED
  BY <1>1, <1>2, <1>3, <1>4

\* A bit, with what is above and below it.
LEMMA BitIs ==
  ASSUME NEW w \in Nat, NEW i \in Nat
  PROVE  \E a \in Nat, b \in {0, 1}, r \in Nat :
           /\ b = Bit(w, i) /\ r = w % Pow2[i] /\ r < Pow2[i]
           /\ w = (2 * a + b) * Pow2[i] + r
<1>1. PICK d : d = Pow2[i]
  OBVIOUS
<1>2. d \in Nat \ {0}
  BY <1>1, PowIs
<1>3. PICK q \in Nat : q = w \div d
  BY <1>2, Division
<1>4. PICK r \in Nat : r = w % d
  BY <1>2, Division
<1>5. w = q * d + r /\ r < d
  BY <1>2, <1>3, <1>4, Division
<1>6. PICK a \in Nat : a = q \div 2
  OBVIOUS
<1>7. PICK b \in {0, 1} : b = q % 2
  OBVIOUS
<1>8. q = 2 * a + b
  BY <1>6, <1>7
<1>9. b = Bit(w, i)
  BY <1>1, <1>3, <1>7 DEF Bit
<1>10. QED
  BY <1>1, <1>4, <1>5, <1>8, <1>9

\* The bit of a number that is given by what is above and below the bit.
LEMMA BitOf ==
  ASSUME NEW w \in Nat, NEW i \in Nat, NEW b \in {0, 1},
         \E a, r \in Nat : r < Pow2[i] /\ w = (2 * a + b) * Pow2[i] + r
  PROVE  Bit(w, i) = b
<1>1. PICK a \in Nat, r \in Nat : r < Pow2[i] /\ w = (2 * a + b) * Pow2[i] + r
  OBVIOUS
<1>2. PICK q \in Nat : q = 2 * a + b
  OBVIOUS
<1>3. Pow2[i] \in Nat \ {0}
  BY PowIs
<1>4. (q * Pow2[i] + r) \div Pow2[i] = q
  BY <1>1, <1>3, Quotient
<1>5. q % 2 = b
  BY <1>2
<1>6. QED
  BY <1>1, <1>2, <1>4, <1>5 DEF Bit

\* What is below the next bit.
LEMMA LowBits ==
  ASSUME NEW w \in Nat, NEW n \in Nat
  PROVE  /\ w % Pow2[n + 1] = (w % Pow2[n]) + Bit(w, n) * Pow2[n]
         /\ w % Pow2[n] \in Nat /\ Bit(w, n) \in {0, 1}
<1>1. PICK a \in Nat, b \in {0, 1}, r \in Nat :
        /\ b = Bit(w, n) /\ r = w % Pow2[n] /\ r < Pow2[n]
        /\ w = (2 * a + b) * Pow2[n] + r
  BY BitIs
<1>2. PICK d : d = Pow2[n]
  OBVIOUS
<1>3. d \in Nat \ {0} /\ Pow2[n + 1] = 2 * d
  BY <1>2, PowIs
<1>4. w = (2 * a + b) * d + r /\ r < d
  BY <1>1, <1>2
<1>5. PICK l \in Nat : l = b * d + r
  BY <1>3
<1>6. l < 2 * d
  <2>1. CASE b = 0
    BY <1>3, <1>4, <1>5, <2>1
  <2>2. CASE b = 1
    BY <1>3, <1>4, <1>5, <2>2
  <2>3. QED
    BY <2>1, <2>2
<1>7. w = a * (2 * d) + l
  <2>1. CASE b = 0
    BY <1>3, <1>4, <1>5, <2>1
  <2>2. CASE b = 1
    BY <1>3, <1>4, <1>5, <2>2
  <2>3. QED
    BY <2>1, <2>2
<1>8. 2 * d \in Nat \ {0}
  BY <1>3
<1>9. w % (2 * d) = l
  BY <1>6, <1>7, <1>8, Quotient
<1>10. l = r + b * d
  BY <1>3, <1>5
<1>11. QED
  BY <1>1, <1>2, <1>3, <1>9, <1>10

\* What is needed of the numbers, whatever the family.
LEMMA Numbers ==
  ASSUME family \in Families
  PROVE  /\ Bits \in Nat \ {0} /\ AddressMod \in Nat \ {0} /\ AddressMod = Pow2[Bits]
         /\ Address = 0 .. AddressMod - 1
BY CidrAssumption, PowIs DEF Bits, AddressMod, Address

\* The bits of a mask of ones and then k zeros.
LEMMA MaskBits ==
  ASSUME family \in Families, NEW k \in 0 .. Bits, NEW i \in 0 .. Bits - 1
  PROVE  Bit(AddressMod - Pow2[k], i) = IF i < k THEN 0 ELSE 1
<1>1. Bits \in Nat /\ i \in Nat /\ k \in Nat
  BY Numbers
<1>2. PICK d : d = Pow2[i]
  OBVIOUS
<1>3. d \in Nat \ {0}
  BY <1>1, <1>2, PowIs
<1>4. PICK x \in Nat \ {0} : AddressMod = (2 * x) * d
  <2>1. i \in 0 .. Bits /\ Bits # i
    BY <1>1
  <2>2. \E x \in Nat \ {0} : Pow2[Bits] = (2 * x) * Pow2[i]
    BY <1>1, <2>1, PowOrder
  <2>3. QED
    BY <1>2, <2>2 DEF AddressMod
<1>5. CASE i < k
  <2>1. PICK y \in Nat \ {0} : Pow2[k] = (2 * y) * d
    <3>1. i \in 0 .. k /\ k # i
      BY <1>1, <1>5
    <3>2. \E y \in Nat \ {0} : Pow2[k] = (2 * y) * Pow2[i]
      BY <1>1, <3>1, PowOrder
    <3>3. QED
      BY <1>2, <3>2
  <2>2. (2 * y) * d <= (2 * x) * d
    <3>1. Pow2[Bits] >= Pow2[k]
      BY <1>1, PowOrder
    <3>2. QED
      BY <1>4, <2>1, <3>1 DEF AddressMod
  <2>3. x - y \in Nat
    <3>1. CASE y > x
      <4>1. (y - x) * d >= 1
        BY <1>3, <3>1
      <4>2. QED
        BY <1>3, <2>2, <4>1
    <3>2. QED
      BY <3>1
  <2>4. AddressMod - Pow2[k] = (2 * (x - y) + 0) * d + 0
    BY <1>3, <1>4, <2>1
  <2>5. PICK v \in Nat : v = AddressMod - Pow2[k]
    BY <1>3, <2>3, <2>4
  <2>6. \E a, r \in Nat : r < Pow2[i] /\ v = (2 * a + 0) * Pow2[i] + r
    <3>1. PICK p \in Nat : p = x - y
      BY <2>3
    <3>2. 0 < Pow2[i] /\ v = (2 * p + 0) * Pow2[i] + 0 /\ 0 \in Nat
      BY <1>2, <1>3, <2>4, <2>5, <3>1
    <3> WITNESS p \in Nat, 0 \in Nat
    <3>3. QED
      BY <3>2
  <2>7. Bit(v, i) = 0
    BY <1>1, <2>6, BitOf
  <2>8. QED
    BY <1>5, <2>5, <2>7
<1>6. CASE ~(i < k)
  <2>1. PICK e : e = Pow2[k]
    OBVIOUS
  <2>2. e \in Nat \ {0} /\ e <= d
    <3>1. k \in 0 .. i
      BY <1>1, <1>6
    <3>2. QED
      BY <1>1, <1>2, <2>1, <3>1, PowIs, PowOrder
  <2>3. x - 1 \in Nat /\ d - e \in Nat /\ d - e < d
    BY <1>3, <2>2
  <2>4. AddressMod - e = (2 * (x - 1) + 1) * d + (d - e)
    BY <1>3, <1>4, <2>2
  <2>5. PICK v \in Nat : v = AddressMod - Pow2[k]
    BY <1>3, <2>1, <2>3, <2>4
  <2>6. \E a, r \in Nat : r < Pow2[i] /\ v = (2 * a + 1) * Pow2[i] + r
    BY <1>2, <2>1, <2>3, <2>4, <2>5
  <2>7. Bit(v, i) = 1
    BY <1>1, <2>6, BitOf
  <2>8. QED
    BY <1>6, <2>5, <2>7
<1>7. QED
  BY <1>5, <1>6

\* ! turns every bit over.
LEMMA InvertedBits ==
  ASSUME family \in Families, NEW w \in Address, NEW i \in 0 .. Bits - 1
  PROVE  Inverted(w) \in Address /\ Bit(Inverted(w), i) = 1 - Bit(w, i)
<1>1. Bits \in Nat /\ i \in Nat /\ w \in Nat /\ w < AddressMod /\ AddressMod \in Nat
  BY Numbers
<1>2. PICK d : d = Pow2[i]
  OBVIOUS
<1>3. d \in Nat \ {0}
  BY <1>1, <1>2, PowIs
<1>4. PICK x \in Nat \ {0} : AddressMod = (2 * x) * d
  <2>1. i \in 0 .. Bits /\ Bits # i
    BY <1>1
  <2>2. \E x \in Nat \ {0} : Pow2[Bits] = (2 * x) * Pow2[i]
    BY <1>1, <2>1, PowOrder
  <2>3. QED
    BY <1>2, <2>2 DEF AddressMod
<1>5. PICK a \in Nat, b \in {0, 1}, r \in Nat :
        /\ b = Bit(w, i) /\ r = w % Pow2[i] /\ r < Pow2[i]
        /\ w = (2 * a + b) * Pow2[i] + r
  BY <1>1, BitIs
<1>6. w = (2 * a + b) * d + r /\ r < d
  BY <1>2, <1>5
<1>7. a < x
  <2>1. CASE a >= x
    <3>1. (a - x) * d >= 0 /\ b * d >= 0
      BY <1>3, <2>1
    <3>2. w = (2 * x) * d + 2 * ((a - x) * d) + b * d + r
      BY <1>3, <1>6
    <3>3. QED
      BY <1>1, <1>3, <1>4, <3>1, <3>2
  <2>2. QED
    BY <2>1
<1>8. x - 1 - a \in Nat /\ 1 - b \in {0, 1} /\ d - 1 - r \in Nat /\ d - 1 - r < d
  BY <1>3, <1>6, <1>7
<1>9. Inverted(w) = (2 * (x - 1 - a) + (1 - b)) * d + (d - 1 - r)
  <2>1. CASE b = 0
    BY <1>3, <1>4, <1>6, <2>1 DEF Inverted
  <2>2. CASE b = 1
    BY <1>3, <1>4, <1>6, <2>2 DEF Inverted
  <2>3. QED
    BY <2>1, <2>2
<1>10. Inverted(w) \in Address /\ Address \subseteq Nat
  BY <1>1 DEF Inverted, Address
<1>11. PICK v \in Nat : v = Inverted(w)
  BY <1>10
<1>12. PICK c \in {0, 1} : c = 1 - b
  BY <1>8
<1>13. \E p, q \in Nat : q < Pow2[i] /\ v = (2 * p + c) * Pow2[i] + q
  BY <1>2, <1>8, <1>9, <1>11, <1>12
<1>14. Bit(v, i) = c
  BY <1>1, <1>13, BitOf
<1>15. QED
  BY <1>5, <1>10, <1>11, <1>12, <1>14

\* An address is known by its bits.
LEMMA SameBits ==
  ASSUME family \in Families, NEW v \in Address, NEW w \in Address,
         \A i \in 0 .. Bits - 1 : Bit(v, i) = Bit(w, i)
  PROVE  v = w
<1>1. /\ Bits \in Nat /\ AddressMod = Pow2[Bits] /\ AddressMod \in Nat \ {0}
      /\ v \in Nat /\ v < AddressMod /\ w \in Nat /\ w < AddressMod
  BY Numbers
<1> DEFINE T == {n \in Nat : n <= Bits => v % Pow2[n] = w % Pow2[n]}
<1>2. 0 \in T
  BY <1>1, PowIs
<1>3. ASSUME NEW n \in T PROVE n + 1 \in T
  <2>1. SUFFICES ASSUME n + 1 <= Bits PROVE v % Pow2[n + 1] = w % Pow2[n + 1]
    OBVIOUS
  <2>2. n \in 0 .. Bits - 1 /\ v % Pow2[n] = w % Pow2[n]
    BY <1>1, <2>1
  <2>3. Bit(v, n) = Bit(w, n)
    BY <2>2
  <2>4. /\ v % Pow2[n + 1] = (v % Pow2[n]) + Bit(v, n) * Pow2[n]
        /\ w % Pow2[n + 1] = (w % Pow2[n]) + Bit(w, n) * Pow2[n]
    BY <1>1, LowBits
  <2>5. QED
    BY <2>2, <2>3, <2>4
<1>4. T = Nat
  <2> HIDE DEF T
  <2>1. T \in SUBSET Nat
    BY DEF T
  <2>2. QED
    BY <1>2, <1>3, <2>1, Natural
<1>5. v % AddressMod = w % AddressMod
  <2>1. Bits \in T
    <3> HIDE DEF T
    <3>1. QED
      BY <1>1, <1>4
  <2>2. QED
    BY <1>1, <2>1
<1>6. v % AddressMod = v /\ w % AddressMod = w
  BY <1>1, Remainder
<1>7. QED
  BY <1>5, <1>6

\* An address without a one is zero, and zero is without one.
LEMMA NoOnes ==
  ASSUME family \in Families, NEW w \in Address
  PROVE  w = 0 <=> Ones(w) = {}
<1>1. Bits \in Nat /\ w \in Nat /\ 0 \in Address
  BY Numbers
<1>2. ASSUME NEW i \in 0 .. Bits - 1 PROVE Bit(0, i) = 0 /\ Bit(w, i) \in {0, 1}
  <2>1. i \in Nat /\ Pow2[i] \in Nat \ {0}
    BY <1>1, PowIs
  <2>2. 0 \div Pow2[i] = 0
    BY <2>1, Remainder
  <2>3. QED
    BY <1>1, <2>1, <2>2, LowBits DEF Bit
<1>3. ASSUME w = 0 PROVE Ones(w) = {}
  BY <1>2, <1>3 DEF Ones
<1>4. ASSUME Ones(w) = {} PROVE w = 0
  <2>1. \A i \in 0 .. Bits - 1 : Bit(w, i) = Bit(0, i)
    BY <1>2, <1>4 DEF Ones
  <2>2. QED
    BY <1>1, <2>1, SameBits
<1>5. QED
  BY <1>3, <1>4

\* The zeros that lead when the ones are the lowest t bits.
LEMMA LeadingZerosIs ==
  ASSUME family \in Families, NEW w \in Address, NEW t \in 0 .. Bits, Ones(w) = 0 .. t - 1
  PROVE  LeadingZeros(w) = Bits - t
<1>1. Bits \in Nat /\ t \in Nat
  BY Numbers
<1>2. CASE w = 0
  <2>1. 0 .. t - 1 = {}
    BY <1>2, NoOnes
  <2>2. t = 0
    BY <1>1, <2>1
  <2>3. QED
    BY <1>1, <1>2, <2>2 DEF LeadingZeros
<1>3. CASE w # 0
  <2>1. 0 .. t - 1 # {}
    BY <1>3, NoOnes
  <2>2. t > 0
    BY <1>1, <2>1
  <2>3. Max(0 .. t - 1) = t - 1
    BY <1>1, <2>2 DEF Max
  <2>4. QED
    BY <1>1, <1>3, <2>3 DEF LeadingZeros
<1>4. QED
  BY <1>2, <1>3

\* What & leaves of w for a mask of ones and then k zeros: all but the remainder.
\* The recursion of And has a solution, which this is.
LEMMA Masked ==
  ASSUME family \in Families, NEW k \in 0 .. Bits, NEW w \in Address
  PROVE  And(AddressMod - Pow2[k], w) = w - (w % Pow2[k])
<1> DEFINE v == AddressMod - Pow2[k]
           Step(f) == [n \in 0 .. Bits |->
             IF n = 0 THEN 0 ELSE f[n - 1] + Bit(v, n - 1) * Bit(w, n - 1) * Pow2[n - 1]]
           low(n) == w % Pow2[n]
           G == [n \in 0 .. Bits |-> IF n <= k THEN 0 ELSE low(n) - low(k)]
<1>1. Bits \in Nat /\ k \in Nat /\ k <= Bits /\ w \in Nat /\ w < AddressMod
      /\ AddressMod \in Nat \ {0} /\ AddressMod = Pow2[Bits]
  BY Numbers
<1>2. \A n \in Nat : low(n) \in Nat
  BY <1>1, LowBits
<1>3. ASSUME NEW n \in 0 .. Bits
      PROVE  G[n] = IF n = 0 THEN 0
                    ELSE G[n - 1] + Bit(v, n - 1) * Bit(w, n - 1) * Pow2[n - 1]
  <2>1. CASE n = 0
    BY <1>1, <2>1
  <2>2. CASE n # 0
    <3>1. PICK j \in 0 .. Bits - 1 : n = j + 1
      <4>1. n - 1 \in 0 .. Bits - 1 /\ n = (n - 1) + 1
        BY <1>1, <2>2
      <4>2. QED
        BY <4>1
    <3>2. j \in Nat /\ j \in 0 .. Bits /\ Pow2[j] \in Nat
      BY <1>1, <3>1, PowIs
    <3>3. Bit(v, j) = IF j < k THEN 0 ELSE 1
      BY <3>1, MaskBits
    <3>4. PICK b \in {0, 1} : b = Bit(w, j)
      BY <1>1, <3>2, LowBits
    <3>5. low(n) = low(j) + b * Pow2[j]
      BY <1>1, <3>1, <3>2, <3>4, LowBits
    <3>6. low(n) \in Nat /\ low(j) \in Nat /\ low(k) \in Nat
      BY <1>1, <1>2, <3>1, <3>2
    <3>7. G[n] = IF n <= k THEN 0 ELSE low(n) - low(k)
      OBVIOUS
    <3>8. G[j] = IF j <= k THEN 0 ELSE low(j) - low(k)
      BY <3>2
    <3> HIDE DEF G, low, v
    <3>9. CASE j < k
      <4>1. Bit(v, j) * b * Pow2[j] = 0 /\ G[n] = 0 /\ G[j] = 0
        BY <1>1, <3>1, <3>2, <3>3, <3>7, <3>8, <3>9
      <4>2. QED
        BY <2>2, <3>1, <3>2, <3>4, <4>1
    <3>10. CASE ~(j < k)
      <4>1. Bit(v, j) * b * Pow2[j] = b * Pow2[j]
        BY <3>2, <3>3, <3>10
      <4>2. G[n] = low(n) - low(k)
        BY <1>1, <3>1, <3>2, <3>7, <3>10
      <4>3. G[j] = low(j) - low(k)
        BY <1>1, <3>2, <3>6, <3>8, <3>10
      <4>4. b * Pow2[j] \in Nat
        BY <3>2
      <4>5. G[n] = G[j] + b * Pow2[j]
        BY <3>5, <3>6, <4>2, <4>3, <4>4
      <4>6. QED
        BY <2>2, <3>1, <3>2, <3>4, <4>1, <4>5
    <3>11. QED
      BY <3>9, <3>10
  <2>3. QED
    BY <2>1, <2>2
<1>4. G = Step(G)
  BY <1>3
<1>5. PICK f : f = Step(f) /\ And(v, w) = f[Bits]
  <2> HIDE DEF G, v
  <2>1. \E f : f = Step(f)
    BY <1>4
  <2> DEFINE F == CHOOSE f : f = Step(f)
  <2>2. F = Step(F)
    <3> HIDE DEF Step
    <3>1. QED
      BY <2>1
  <2>3. And(v, w) = F[Bits]
    BY DEF And
  <2> HIDE DEF F
  <2>4. QED
    BY <2>2, <2>3
<1> DEFINE U == {n \in Nat : n <= Bits => f[n] = G[n]}
<1>6. 0 \in U
  <2>1. 0 \in 0 .. Bits
    BY <1>1
  <2>2. f[0] = 0
    BY <1>5, <2>1
  <2>3. G[0] = 0
    BY <1>3, <2>1
  <2>4. QED
    BY <2>2, <2>3
<1>7. ASSUME NEW n \in U PROVE n + 1 \in U
  <2>1. SUFFICES ASSUME n + 1 <= Bits PROVE f[n + 1] = G[n + 1]
    OBVIOUS
  <2>2. n + 1 \in 0 .. Bits /\ n + 1 # 0 /\ (n + 1) - 1 = n /\ f[n] = G[n]
    BY <1>1, <2>1
  <2>3. f[n + 1] = f[n] + Bit(v, n) * Bit(w, n) * Pow2[n]
    <3> HIDE DEF v, G
    <3>1. QED
      BY <1>5, <2>2
  <2>4. G[n + 1] = G[n] + Bit(v, n) * Bit(w, n) * Pow2[n]
    <3> HIDE DEF v, G
    <3>1. QED
      BY <1>3, <2>2
  <2>5. QED
    BY <2>2, <2>3, <2>4
<1>8. U = Nat
  <2> HIDE DEF U
  <2>1. U \in SUBSET Nat
    BY DEF U
  <2>2. QED
    BY <1>6, <1>7, <2>1, Natural
<1>9. f[Bits] = G[Bits]
  <2>1. Bits \in U /\ Bits <= Bits
    <3> HIDE DEF U
    <3>1. QED
      BY <1>1, <1>8
  <2> HIDE DEF G
  <2>2. QED
    BY <2>1
<1>10. low(Bits) = w
  BY <1>1, Remainder
<1>11. G[Bits] = w - low(k)
  <2>1. Bits \in 0 .. Bits
    BY <1>1
  <2>2. CASE Bits <= k
    <3>1. Bits = k
      BY <1>1, <2>2
    <3>2. QED
      BY <1>1, <1>10, <2>1, <2>2, <3>1
  <2>3. CASE ~(Bits <= k)
    BY <1>10, <2>1, <2>3
  <2>4. QED
    BY <2>2, <2>3
<1>12. QED
  BY <1>5, <1>9, <1>11

\* The length of a mask of ones and then k zeros.
LEMMA MaskLength ==
  ASSUME family \in Families, NEW k \in 0 .. Bits
  PROVE  /\ AddressMod - Pow2[k] \in Address
         /\ LeadingZeros(Inverted(AddressMod - Pow2[k])) = Bits - k
<1>1. Bits \in Nat /\ k \in Nat /\ AddressMod \in Nat /\ Address = 0 .. AddressMod - 1
  BY Numbers
<1>2. Pow2[k] \in Nat \ {0} /\ Pow2[k] <= AddressMod
  BY <1>1, PowIs, PowOrder DEF AddressMod
<1>3. PICK m \in Address : m = AddressMod - Pow2[k]
  BY <1>1, <1>2
<1>4. \A i \in 0 .. Bits - 1 : Bit(Inverted(m), i) = IF i < k THEN 1 ELSE 0
  BY <1>3, MaskBits, InvertedBits
<1>5. Ones(Inverted(m)) = 0 .. k - 1
  BY <1>1, <1>4 DEF Ones
<1>6. Inverted(m) \in Address
  BY <1>1 DEF Inverted
<1>7. LeadingZeros(Inverted(m)) = Bits - k
  BY <1>5, <1>6, LeadingZerosIs
<1>8. QED
  BY <1>3, <1>7

\* A set of natural numbers has a least one.
LEMMA Least ==
  ASSUME NEW S \in SUBSET Nat, S # {}
  PROVE  Min(S) \in S /\ \A y \in S : Min(S) <= y
<1>1. ASSUME \A x \in S : \E y \in S : ~(x <= y) PROVE FALSE
  <2> DEFINE T == {n \in Nat : \A y \in S : n < y}
  <2>1. 0 \in T
    BY <1>1
  <2>2. ASSUME NEW n \in T PROVE n + 1 \in T
    <3>1. n + 1 \notin S
      BY <1>1
    <3>2. QED
      BY <3>1
  <2>3. T = Nat
    <3> HIDE DEF T
    <3>1. T \in SUBSET Nat
      BY DEF T
    <3>2. QED
      BY <2>1, <2>2, <3>1, Natural
  <2>4. PICK y \in S : TRUE
    OBVIOUS
  <2>5. y \in T
    BY <2>3
  <2>6. y < y
    BY <2>4, <2>5
  <2>7. QED
    BY <2>4, <2>6
<1>2. QED
  BY <1>1 DEF Min

\* A netmask has a one and all its ones first, and its length is their number.
LEMMA NetmaskLength ==
  ASSUME family \in Families, NEW m \in Address, IsNetmask(m)
  PROVE  /\ Cardinality(Ones(m)) \in 1 .. Bits
         /\ LeadingZeros(Inverted(m)) = Cardinality(Ones(m))
         /\ m = AddressMod - Pow2[Bits - Cardinality(Ones(m))]
<1>1. Bits \in Nat \ {0}
  BY Numbers
<1>2. m # 0
  BY <1>1 DEF IsNetmask, LeadingZeros
<1>3. Ones(m) # {} /\ Ones(m) \subseteq 0 .. Bits - 1
  BY <1>2, NoOnes DEF Ones
<1>4. Ones(m) \in SUBSET Nat
  BY <1>1, <1>3
<1>5. PICK t : t = Min(Ones(m))
  OBVIOUS
<1>6. t \in Ones(m) /\ \A y \in Ones(m) : t <= y
  BY <1>3, <1>4, <1>5, Least
<1>7. t \in 0 .. Bits - 1 /\ t \in Int /\ Bits - 1 \in Int
  BY <1>1, <1>3, <1>6
<1>8. IsFiniteSet(t .. Bits - 1) /\ Cardinality(t .. Bits - 1) = Bits - t
  <2>1. /\ IsFiniteSet(t .. Bits - 1)
        /\ Cardinality(t .. Bits - 1) = IF t > Bits - 1 THEN 0 ELSE (Bits - 1) - t + 1
    BY <1>7, FS_Interval
  <2>2. QED
    BY <1>1, <1>7, <2>1
<1>9. Ones(m) \in SUBSET (t .. Bits - 1)
  BY <1>1, <1>3, <1>6, <1>7
<1>10. /\ IsFiniteSet(Ones(m))
       /\ Cardinality(t .. Bits - 1) = Cardinality(Ones(m)) => t .. Bits - 1 = Ones(m)
  BY <1>8, <1>9, FS_Subset
<1>11. Cardinality(Ones(m)) \in Nat
  BY <1>10, FS_CardinalityType
<1>12. t = Bits - Cardinality(Ones(m))
  BY <1>2, <1>5 DEF IsNetmask, TrailingZeros, CountZeros
<1>13. Ones(m) = t .. Bits - 1
  BY <1>1, <1>7, <1>8, <1>10, <1>11, <1>12
<1>14. \A i \in 0 .. Bits - 1 : Bit(m, i) = 1 <=> i >= t
  BY <1>1, <1>7, <1>13 DEF Ones
<1>15. m \in Nat
  BY Numbers
<1>16. \A i \in 0 .. Bits - 1 : Bit(m, i) \in {0, 1}
  BY <1>1, <1>15, LowBits
<1>17. \A i \in 0 .. Bits - 1 : Bit(Inverted(m), i) = 1 <=> i < t
  <2>1. SUFFICES ASSUME NEW i \in 0 .. Bits - 1 PROVE Bit(Inverted(m), i) = 1 <=> i < t
    OBVIOUS
  <2>2. Bit(Inverted(m), i) = 1 - Bit(m, i)
    BY InvertedBits
  <2>3. QED
    BY <1>1, <1>7, <1>14, <1>16, <2>2
<1>18. Ones(Inverted(m)) = 0 .. t - 1
  BY <1>1, <1>7, <1>17 DEF Ones
<1>19. Inverted(m) \in Address
  BY <1>1, InvertedBits
<1>20. LeadingZeros(Inverted(m)) = Bits - t
  <2>1. t \in 0 .. Bits
    BY <1>1, <1>7
  <2>2. QED
    BY <1>18, <1>19, <2>1, LeadingZerosIs
<1>21. m = AddressMod - Pow2[t]
  <2>1. t \in 0 .. Bits
    BY <1>1, <1>7
  <2>2. PICK v \in Address : v = AddressMod - Pow2[t]
    BY <2>1, MaskLength
  <2>3. \A i \in 0 .. Bits - 1 : Bit(m, i) = Bit(v, i)
    <3>1. SUFFICES ASSUME NEW i \in 0 .. Bits - 1 PROVE Bit(m, i) = Bit(v, i)
      OBVIOUS
    <3>2. Bit(v, i) = IF i < t THEN 0 ELSE 1
      BY <2>1, <2>2, MaskBits
    <3>3. QED
      BY <1>1, <1>7, <1>14, <1>16, <3>2
  <2>4. QED
    BY <2>2, <2>3, SameBits
<1>22. QED
  BY <1>1, <1>7, <1>11, <1>12, <1>20, <1>21

-----------------------------------------------------------------------------
(* Blocks of addresses *)

\* The addresses with the same quotient by p are those from the first one on.
LEMMA Block ==
  ASSUME NEW p \in Nat \ {0}, NEW w \in Nat, NEW a \in Nat
  PROVE  LET first == w - (w % p)
         IN  /\ first \in Nat
             /\ a - (a % p) = first <=> a \in first .. first + p - 1
             /\ a \div p = w \div p <=> a \in first .. first + p - 1
<1>1. PICK q \in Nat : q = w \div p
  BY Division
<1>2. PICK r \in Nat : r = w % p
  BY Division
<1>3. PICK e \in Nat : e = a \div p
  BY Division
<1>4. PICK s \in Nat : s = a % p
  BY Division
<1>5. w = q * p + r /\ a = e * p + s /\ r < p /\ s < p
  BY <1>1, <1>2, <1>3, <1>4, Division
<1>6. q * p \in Nat /\ e * p \in Nat
  OBVIOUS
<1>7. w - r = q * p /\ a - s = e * p
  BY <1>5, <1>6
<1>8. CASE e = q
  <2>1. a \in q * p .. q * p + p - 1
    BY <1>5, <1>6, <1>8
  <2>2. QED
    BY <1>1, <1>2, <1>3, <1>4, <1>6, <1>7, <1>8, <2>1
<1>9. CASE e > q
  <2>1. e * p >= q * p + p
    <3>1. (e - q) * p >= p
      BY <1>9
    <3>2. QED
      BY <3>1
  <2>2. a \notin q * p .. q * p + p - 1 /\ a - s # w - r
    BY <1>5, <1>6, <1>7, <2>1
  <2>3. QED
    BY <1>1, <1>2, <1>3, <1>4, <1>6, <1>7, <1>9, <2>2
<1>10. CASE e < q
  <2>1. e * p + p <= q * p
    <3>1. (q - e) * p >= p
      BY <1>10
    <3>2. QED
      BY <3>1
  <2>2. a \notin q * p .. q * p + p - 1 /\ a - s # w - r
    BY <1>5, <1>6, <1>7, <2>1
  <2>3. QED
    BY <1>1, <1>2, <1>3, <1>4, <1>6, <1>7, <1>10, <2>2
<1>11. QED
  BY <1>8, <1>9, <1>10

\* A block ends before the address space does.
LEMMA BlockFits ==
  ASSUME family \in Families, NEW k \in 0 .. Bits, NEW w \in Address
  PROVE  LET p == Pow2[k]
             first == w - (w % p)
         IN  /\ first \in Nat /\ first + p - 1 \in Address
             /\ p \in Nat \ {0} /\ p <= AddressMod
             /\ p = AddressMod => first = 0
<1>1. Bits \in Nat /\ k \in Nat /\ w \in Nat /\ w < AddressMod
      /\ AddressMod \in Nat \ {0} /\ Address = 0 .. AddressMod - 1
  BY Numbers
<1>2. PICK p \in Nat \ {0} : p = Pow2[k]
  BY <1>1, PowIs
<1>3. PICK m \in Nat \ {0} : AddressMod = m * p
  BY <1>1, <1>2, PowOrder DEF AddressMod
<1>4. p <= AddressMod
  BY <1>1, <1>2, PowOrder DEF AddressMod
<1>5. PICK q \in Nat : q = w \div p
  BY <1>1, Division
<1>6. PICK r \in Nat : r = w % p
  BY <1>1, Division
<1>7. w = q * p + r
  BY <1>1, <1>5, <1>6, Division
<1>8. q * p + p <= m * p
  <2>1. CASE q >= m
    <3>1. (q - m) * p >= 0
      BY <2>1
    <3>2. QED
      BY <1>1, <1>3, <1>7, <3>1
  <2>2. CASE q < m
    <3>1. (m - q) * p >= p
      BY <2>2
    <3>2. QED
      BY <3>1
  <2>3. QED
    BY <2>1, <2>2
<1>9. w - r = q * p /\ q * p \in Nat
  BY <1>7
<1>10. w - r \in Nat /\ (w - r) + p - 1 \in Address
  BY <1>1, <1>3, <1>8, <1>9
<1>11. p = AddressMod => w - r = 0
  BY <1>3, <1>8, <1>9
<1>12. QED
  BY <1>2, <1>4, <1>6, <1>10, <1>11

-----------------------------------------------------------------------------
(* The invariant *)

\* The length that the range has: the one asked for, or all bits in place of zero.
Kept == IF ZeroAsked THEN Bits ELSE asked

\* The addresses of the range by arithmetic, and the first and the last of them.
Span == Pow2[Bits - Kept]
First == cidr.address - (cidr.address % Span)
Last == First + Span - 1

\* The mask is of ones, as many as the length says, and then zeros.
OnesThenZeros == cidr.mask = AddressMod - Span

\* IteratorCovers, with the end that is reached.
IterProgress ==
  SizeFits =>
    /\ \A n \in next : n \in First .. Last /\ given = First .. n - 1 /\ end = Last
    /\ next = {} /\ given # {} => given = First .. Last

Inv == TypeOK /\ OnesThenZeros /\ IterProgress

\* What the functions of a range give while its mask is in order.
LEMMA RangeIs ==
  ASSUME TypeOK, OnesThenZeros
  PROVE  /\ Kept \in 0 .. Bits /\ Span \in Nat \ {0} /\ Span <= AddressMod
         /\ First \in Nat /\ Last \in Address /\ First <= Last
         /\ Span = AddressMod => First = 0
         /\ Network(cidr) = First /\ Broadcast(cidr) = Last /\ Length(cidr) = Kept
         /\ Contained = First .. Last
         /\ Contained = {a \in Address : a \div Span = cidr.address \div Span}
         /\ Size(cidr) \in Nat
         /\ SizeFits => Size(cidr) = Span
<1>0. Kept \in 0 .. Bits
  BY Numbers DEF TypeOK, Kept
<1>1. PICK k \in 0 .. Bits : k = Bits - Kept
  BY <1>0, Numbers DEF TypeOK
<1>2. /\ family \in Families /\ Bits \in Nat /\ AddressMod \in Nat \ {0}
      /\ Address = 0 .. AddressMod - 1 /\ Kept \in 0 .. Bits
  BY <1>0, Numbers DEF TypeOK
<1>3. cidr.address \in Address /\ cidr.mask \in Address
  BY DEF TypeOK
<1>4. Span = Pow2[k]
  BY <1>1 DEF Span
<1>5. /\ First \in Nat /\ Last \in Address /\ Span \in Nat \ {0} /\ Span <= AddressMod
      /\ Span = AddressMod => First = 0
  BY <1>2, <1>3, <1>4, BlockFits DEF First, Last
<1>6. First <= Last
  BY <1>5 DEF Last
<1>7. \A a \in Address : And(cidr.mask, a) = a - (a % Span)
  BY <1>2, <1>4, Masked DEF OnesThenZeros
<1>8. Network(cidr) = First
  BY <1>3, <1>7 DEF Network, First
<1>9. Broadcast(cidr) = Last
  BY <1>2, <1>5, <1>8 DEF Network, Broadcast, Inverted, OnesThenZeros, Last
<1>10. LeadingZeros(Inverted(cidr.mask)) = Bits - k
  BY <1>2, <1>4, MaskLength DEF OnesThenZeros
<1>11. Length(cidr) = Kept
  BY <1>1, <1>2, <1>10 DEF Length
<1>12. \A a \in Address : /\ Contains(cidr, a) <=> a \in First .. Last
                          /\ a \div Span = cidr.address \div Span <=> a \in First .. Last
  <2>1. SUFFICES ASSUME NEW a \in Address
                 PROVE  /\ Contains(cidr, a) <=> a \in First .. Last
                        /\ a \div Span = cidr.address \div Span <=> a \in First .. Last
    OBVIOUS
  <2>2. a \in Nat /\ cidr.address \in Nat
    BY <1>2, <1>3
  <2>3. a - (a % Span) = First <=> a \in First .. Last
    BY <1>5, <2>2, Block DEF First, Last
  <2>4. a \div Span = cidr.address \div Span <=> a \in First .. Last
    BY <1>5, <2>2, Block DEF First, Last
  <2>5. And(cidr.mask, a) = a - (a % Span) /\ And(cidr.mask, cidr.address) = First
    BY <1>3, <1>7 DEF First
  <2>6. QED
    BY <2>3, <2>4, <2>5 DEF Contains
<1>13. First .. Last \subseteq Address
  BY <1>2, <1>5
<1>14. Contained = First .. Last
  BY <1>12, <1>13 DEF Contained
<1>15. Contained = {a \in Address : a \div Span = cidr.address \div Span}
  BY <1>12 DEF Contained
<1>16. SizeBits \in Nat
  BY CidrAssumption
<1>17. Size(cidr) = Span % Pow2[SizeBits]
  BY <1>11 DEF Size, Span
<1>18. PICK z : z = Pow2[SizeBits]
  OBVIOUS
<1>19. z \in Nat \ {0}
  BY <1>16, <1>18, PowIs
<1>20. Size(cidr) \in Nat
  BY <1>5, <1>17, <1>18, <1>19, Division
<1>21. ASSUME SizeFits PROVE Size(cidr) = Span
  <2>1. k \in 0 .. SizeBits /\ k # SizeBits /\ SizeBits # k
    BY <1>1, <1>2, <1>11, <1>16, <1>21 DEF SizeFits
  <2>2. Span < z
    BY <1>4, <1>5, <1>16, <1>18, <1>19, <2>1, PowOrder
  <2>3. Span % z = Span
    BY <1>5, <1>19, <2>2, Remainder
  <2>4. QED
    BY <1>17, <1>18, <2>3
<1>22. QED
  BY <1>0, <1>5, <1>6, <1>8, <1>9, <1>11, <1>14, <1>15, <1>20, <1>21

\* A new range has the mask of its length.
LEMMA NewRangeInv ==
  ASSUME TypeOK, NEW a \in Address, NEW length \in 0 .. Bits, NewRange(a, length),
         asked' = length
  PROVE  Inv'
<1>1. /\ family \in Families /\ Bits \in Nat \ {0} /\ AddressMod \in Nat \ {0}
      /\ Address = 0 .. AddressMod - 1
  BY Numbers DEF TypeOK
<1>2. family' = family /\ next' = {} /\ end' = 0 /\ given' = {}
      /\ cidr' = [address |-> a, mask |-> Mask(length)]
  BY DEF NewRange
<1>3. Bits' = Bits
  BY <1>2 DEF Bits
<1>4. AddressMod' = AddressMod /\ Address' = Address
  BY <1>3 DEF AddressMod, Address
<1>5. /\ Kept' = IF length = 0 THEN Bits ELSE length
      /\ Mask(length) = AddressMod - Pow2[Bits - Kept']
  <2>1. CASE length = 0
    <3>1. Bits - Bits = 0 /\ Bits - 1 \in Nat /\ (Bits - 1) + 1 = Bits
      BY <1>1
    <3>2. Mask(length) = AddressMod - 1
      BY <2>1 DEF Mask
    <3>3. AddressMod - 1 # 0
      <4>1. PICK n \in Nat : n + 1 = Bits
        BY <3>1
      <4>2. Pow2[n + 1] = 2 * Pow2[n] /\ Pow2[n] \in Nat
        BY PowIs
      <4>3. AddressMod = 2 * Pow2[n]
        BY <4>1, <4>2 DEF AddressMod
      <4>4. QED
        BY <4>2, <4>3
    <3>4. cidr' # Default
      BY <1>2, <3>2, <3>3 DEF Default
    <3>5. Kept' = Bits
      BY <1>3, <2>1, <3>4 DEF Kept, ZeroAsked, Default
    <3>6. Pow2[Bits - Kept'] = 1
      BY <3>1, <3>5, PowIs
    <3>7. QED
      BY <2>1, <3>2, <3>5, <3>6
  <2>2. CASE length # 0
    <3>1. Kept' = length
      BY <2>2 DEF Kept, ZeroAsked
    <3>2. QED
      BY <2>2, <3>1 DEF Mask
  <2>3. QED
    BY <2>1, <2>2
<1>6. Bits - Kept' \in 0 .. Bits
  BY <1>1, <1>5
<1>7. Mask(length) \in Address
  BY <1>1, <1>5, <1>6, MaskLength
<1>8. TypeOK'
  BY <1>1, <1>2, <1>3, <1>4, <1>7 DEF TypeOK
<1>9. OnesThenZeros'
  BY <1>2, <1>3, <1>4, <1>5 DEF OnesThenZeros, Span
<1>10. IterProgress'
  BY <1>2 DEF IterProgress
<1>11. QED
  BY <1>8, <1>9, <1>10 DEF Inv

\* The default range is of all addresses.
LEMMA InitInv ==
  ASSUME Init
  PROVE  Inv
<1>1. /\ family \in Families /\ cidr = [address |-> 0, mask |-> 0] /\ asked = 0
      /\ next = {} /\ end = 0 /\ given = {}
  BY DEF Init, Default
<1>2. Bits \in Nat \ {0} /\ AddressMod \in Nat \ {0} /\ Address = 0 .. AddressMod - 1
  BY <1>1, Numbers
<1>3. TypeOK
  BY <1>1, <1>2 DEF TypeOK
<1>4. Kept = 0 /\ Bits - Kept = Bits
  BY <1>1, <1>2 DEF Kept, ZeroAsked, Default
<1>5. OnesThenZeros
  BY <1>1, <1>2, <1>4 DEF OnesThenZeros, Span, AddressMod
<1>6. IterProgress
  BY <1>1 DEF IterProgress
<1>7. QED
  BY <1>3, <1>5, <1>6 DEF Inv

\* While the range stays, so do its addresses.
LEMMA RangeStays ==
  ASSUME UNCHANGED <<family, cidr, asked>>
  PROVE  /\ Bits' = Bits /\ AddressMod' = AddressMod /\ Address' = Address
         /\ First' = First /\ Last' = Last /\ SizeFits' = SizeFits
         /\ OnesThenZeros' = OnesThenZeros
<1>1. Bits' = Bits
  BY DEF Bits
<1>2. AddressMod' = AddressMod /\ Address' = Address
  BY <1>1 DEF AddressMod, Address
<1>3. Span' = Span
  <2>1. Kept' = Kept
    BY <1>1 DEF Kept, ZeroAsked, Default
  <2>2. QED
    BY <1>1, <2>1 DEF Span
<1>4. First' = First
  BY <1>3 DEF First
<1>5. Last' = Last
  BY <1>3, <1>4 DEF Last
<1>6. SizeFits' = SizeFits
  <2>1. \A w : Ones(w)' = Ones(w)
    BY <1>1 DEF Ones, Bit
  <2>2. Inverted(cidr.mask)' = Inverted(cidr.mask)
    BY <1>2 DEF Inverted
  <2>3. LeadingZeros(Inverted(cidr.mask))' = LeadingZeros(Inverted(cidr.mask))
    BY <1>1, <2>1, <2>2 DEF LeadingZeros
  <2>4. QED
    BY <1>1, <2>3 DEF SizeFits, Length
<1>7. OnesThenZeros' = OnesThenZeros
  BY <1>2, <1>3 DEF OnesThenZeros
<1>8. QED
  BY <1>1, <1>2, <1>4, <1>5, <1>6, <1>7

\* The iterator begins with the first address and will end with the last.
LEMMA IterInv ==
  ASSUME Inv, Iter
  PROVE  Inv'
<1>1. TypeOK /\ OnesThenZeros
  BY DEF Inv
<1>2. /\ Span \in Nat \ {0} /\ Span <= AddressMod
      /\ First \in Nat /\ Last \in Address /\ First <= Last
      /\ Span = AddressMod => First = 0
      /\ Network(cidr) = First
      /\ Size(cidr) \in Nat
      /\ SizeFits => Size(cidr) = Span
  BY <1>1, RangeIs
<1>3. AddressMod \in Nat \ {0} /\ Address = 0 .. AddressMod - 1
  BY <1>1, Numbers DEF TypeOK
<1>4. UNCHANGED <<family, cidr, asked>>
  BY DEF Iter
<1>5. next' = {First} /\ given' = {}
      /\ end' = (First + (Size(cidr) % AddressMod) - 1) % AddressMod
  BY <1>2 DEF Iter
<1>6. First \in Address /\ end' \in Address
  <2>1. First \in Address
    BY <1>2, <1>3
  <2>2. PICK s \in Nat : s = Size(cidr) % AddressMod
    BY <1>2, <1>3, Division
  <2>3. First + s - 1 \in Int
    BY <1>2
  <2>4. (First + s - 1) % AddressMod \in Address
    BY <1>3, <2>3
  <2>5. QED
    BY <1>5, <2>1, <2>2, <2>4
<1>7. ASSUME SizeFits PROVE end' = Last
  <2>1. CASE Span = AddressMod
    <3>1. Size(cidr) % AddressMod = 0
      <4>1. AddressMod = 1 * AddressMod + 0 /\ 0 < AddressMod /\ 0 \in Nat /\ 1 \in Nat
        BY <1>3
      <4>2. (1 * AddressMod + 0) % AddressMod = 0
        BY <1>3, <4>1, Quotient
      <4>3. QED
        BY <1>2, <1>7, <2>1, <4>1, <4>2
    <3>2. (0 - 1) % AddressMod = AddressMod - 1
      BY <1>3
    <3>3. QED
      BY <1>2, <1>3, <1>5, <2>1, <3>1, <3>2 DEF Last
  <2>2. CASE Span < AddressMod
    <3>1. Size(cidr) % AddressMod = Span
      BY <1>2, <1>3, <1>7, <2>2, Remainder
    <3>2. Last \in Nat /\ Last < AddressMod
      BY <1>2, <1>3
    <3>3. Last % AddressMod = Last
      BY <1>3, <3>2, Remainder
    <3>4. QED
      BY <1>5, <3>1, <3>3 DEF Last
  <2>3. QED
    BY <1>2, <1>3, <2>1, <2>2
<1>8. TypeOK'
  BY <1>1, <1>4, <1>5, <1>6, RangeStays DEF TypeOK
<1>9. IterProgress'
  <2>1. First .. First - 1 = {} /\ First \in First .. Last
    BY <1>2, <1>3
  <2>2. QED
    BY <1>4, <1>5, <1>7, <2>1, RangeStays DEF IterProgress
<1>10. OnesThenZeros'
  BY <1>1, <1>4, RangeStays
<1>11. QED
  BY <1>8, <1>9, <1>10 DEF Inv

\* It gives one address after the other, and none after the last.
LEMMA NextAddressInv ==
  ASSUME Inv, NextAddress
  PROVE  Inv'
<1>1. TypeOK /\ OnesThenZeros /\ IterProgress
  BY DEF Inv
<1>2. First \in Nat /\ Last \in Address /\ First <= Last
  BY <1>1, RangeIs
<1>3. AddressMod \in Nat \ {0} /\ Address = 0 .. AddressMod - 1
  BY <1>1, Numbers DEF TypeOK
<1>4. PICK n \in next :
        /\ given' = given \cup {n}
        /\ next' = IF n = end THEN {} ELSE {(n + 1) % AddressMod}
        /\ UNCHANGED <<family, cidr, asked, end>>
  BY DEF NextAddress
<1>5. UNCHANGED <<family, cidr, asked>>
  BY <1>4
<1>6. n \in Address /\ given \subseteq Address /\ end \in Address
  BY <1>1 DEF TypeOK
<1>7. (n + 1) % AddressMod \in Address
  BY <1>3, <1>6
<1>8. TypeOK'
  <2>1. next' \in {{}} \cup {{a} : a \in Address}
    BY <1>4, <1>7
  <2>2. given' \subseteq Address
    BY <1>4, <1>6
  <2>3. QED
    BY <1>1, <1>4, <1>5, <1>6, <2>1, <2>2, RangeStays DEF TypeOK
<1>9. IterProgress'
  <2>1. SUFFICES ASSUME SizeFits
                 PROVE  /\ \A m \in next' : /\ m \in First .. Last /\ given' = First .. m - 1
                                            /\ end' = Last
                        /\ next' = {} /\ given' # {} => given' = First .. Last
    BY <1>5, RangeStays DEF IterProgress
  <2>2. n \in First .. Last /\ given = First .. n - 1 /\ end = Last
    BY <1>1, <1>4, <2>1 DEF IterProgress
  <2>3. given' = First .. n
    BY <1>2, <1>3, <1>4, <2>2
  <2>4. CASE n = end
    BY <1>4, <2>2, <2>3, <2>4
  <2>5. CASE n # end
    <3>1. n + 1 \in First .. Last /\ n + 1 \in Nat /\ n + 1 < AddressMod
      BY <1>2, <1>3, <2>2, <2>5
    <3>2. (n + 1) % AddressMod = n + 1
      BY <1>3, <3>1, Remainder
    <3>3. First .. n = First .. (n + 1) - 1
      BY <1>2, <1>3, <2>2
    <3>4. QED
      BY <1>4, <2>2, <2>3, <2>5, <3>1, <3>2, <3>3
  <2>6. QED
    BY <2>4, <2>5
<1>10. OnesThenZeros'
  BY <1>1, <1>5, RangeStays
<1>11. QED
  BY <1>8, <1>9, <1>10 DEF Inv

\* Every step keeps the invariant.
LEMMA NextInv ==
  ASSUME Inv, [Next]_vars
  PROVE  Inv'
<1>1. TypeOK /\ Bits \in Nat
  BY Numbers DEF Inv, TypeOK
<1>2. ASSUME NEW a \in Address, NEW length \in 0 .. Bits + 1, New(a, length) PROVE Inv'
  <2>1. length \in 0 .. Bits
    BY <1>1, <1>2 DEF New, NewRange
  <2>2. NewRange(a, length) /\ asked' = length
    BY <1>2 DEF New
  <2>3. QED
    BY <1>1, <2>1, <2>2, NewRangeInv
<1>3. ASSUME NEW a \in Address, NEW m \in Address, WithNetmask(a, m) PROVE Inv'
  <2>1. /\ IsNetmask(m) /\ NewRange(a, LeadingZeros(Inverted(m)))
        /\ asked' = Cardinality(Ones(m))
    BY <1>3 DEF WithNetmask
  <2>2. PICK length \in 1 .. Bits :
          length = Cardinality(Ones(m)) /\ length = LeadingZeros(Inverted(m))
    BY <1>1, <2>1, NetmaskLength DEF TypeOK
  <2>3. length \in 0 .. Bits
    BY <1>1
  <2>4. NewRange(a, length) /\ asked' = length
    BY <2>1, <2>2
  <2>5. QED
    BY <1>1, <2>3, <2>4, NewRangeInv
<1>4. CASE Iter
  BY <1>4, IterInv
<1>5. CASE NextAddress
  BY <1>5, NextAddressInv
<1>6. CASE UNCHANGED vars
  <2>1. UNCHANGED <<family, cidr, asked, next, end, given>>
    BY <1>6 DEF vars
  <2>2. TypeOK'
    BY <1>1, <2>1, RangeStays DEF TypeOK
  <2>3. IterProgress'
    BY <2>1, RangeStays DEF Inv, IterProgress
  <2>4. OnesThenZeros'
    BY <2>1, RangeStays DEF Inv
  <2>5. QED
    BY <2>2, <2>3, <2>4 DEF Inv
<1>7. QED
  BY <1>2, <1>3, <1>4, <1>5, <1>6 DEF Next

\* The invariant, for families and a usize of any number of bits.
LEMMA Invariant == Spec => []Inv
<1>1. Init => Inv
  BY InitInv
<1>2. Inv /\ [Next]_vars => Inv'
  BY NextInv
<1>3. QED
  BY <1>1, <1>2, PTL DEF Spec

-----------------------------------------------------------------------------
(* Results *)

\* with_netmask takes the length of the netmask and makes the mask anew from the
\* length, and gets back the netmask it was given.
THEOREM NetmaskKept ==
  ASSUME TypeOK, NEW a \in Address, NEW m \in Address, WithNetmask(a, m)
  PROVE  cidr' = [address |-> a, mask |-> m]
<1>1. /\ IsNetmask(m)
      /\ cidr' = [address |-> a, mask |-> Mask(LeadingZeros(Inverted(m)))]
  BY DEF WithNetmask, NewRange
<1>2. Bits \in Nat
  BY Numbers DEF TypeOK
<1>3. /\ Cardinality(Ones(m)) \in 1 .. Bits
      /\ LeadingZeros(Inverted(m)) = Cardinality(Ones(m))
      /\ m = AddressMod - Pow2[Bits - Cardinality(Ones(m))]
  BY <1>1, NetmaskLength DEF TypeOK
<1>4. LeadingZeros(Inverted(m)) # 0
  BY <1>2, <1>3
<1>5. QED
  BY <1>1, <1>3, <1>4 DEF Mask

\* The range and the iterator are of addresses of the family.
THEOREM TypeCorrect == Spec => []TypeOK
<1>1. Inv => TypeOK
  BY DEF Inv
<1>2. QED
  BY <1>1, Invariant, PTL

\* contains, network, broadcast and size agree on the addresses of a range in every
\* family, and made from a netmask, or from a length other than zero, it has that
\* length and is the addresses with its first bits.
THEOREM RangesAgree == Spec => []RangeAgrees
<1>1. ASSUME Inv PROVE RangeAgrees
  <2>1. /\ Span \in Nat \ {0} /\ First \in Nat /\ Last \in Address
        /\ Network(cidr) = First /\ Broadcast(cidr) = Last /\ Length(cidr) = Kept
        /\ Contained = First .. Last
        /\ Contained = {a \in Address : a \div Span = cidr.address \div Span}
        /\ SizeFits => Size(cidr) = Span
    BY <1>1, RangeIs DEF Inv
  <2>2. AddressMod \in Nat \ {0} /\ Address = 0 .. AddressMod - 1
    BY <1>1, Numbers DEF Inv, TypeOK
  <2>3. First \in Int /\ Last \in Int
    BY <2>1, <2>2
  <2>4. Cardinality(First .. Last) = IF First > Last THEN 0 ELSE Last - First + 1
    BY <2>3, FS_Interval
  <2>5. Cardinality(First .. Last) = Span
    BY <2>1, <2>4 DEF Last
  <2>6. ASSUME ~ZeroAsked
        PROVE  /\ Length(cidr) = asked
               /\ Contained = {a \in Address : a \div Pow2[Bits - asked]
                                               = cidr.address \div Pow2[Bits - asked]}
    <3>1. Kept = asked
      BY <2>6 DEF Kept
    <3>2. Span = Pow2[Bits - asked]
      BY <3>1 DEF Span
    <3>3. QED
      BY <2>1, <3>1, <3>2
  <2>7. QED
    BY <2>1, <2>5, <2>6 DEF RangeAgrees
<1>2. QED
  BY <1>1, Invariant, PTL

\* The iterator gives every address of a range whose size is that of a usize once,
\* in order, and ends after the last, at the end of the address space too.
THEOREM IterationCovers == Spec => []IteratorCovers
<1>1. ASSUME Inv PROVE IteratorCovers
  <2>1. Network(cidr) = First /\ Contained = First .. Last
    BY <1>1, RangeIs DEF Inv
  <2>2. IterProgress
    BY <1>1 DEF Inv
  <2>3. QED
    BY <2>1, <2>2 DEF IterProgress, IteratorCovers
<1>2. QED
  BY <1>1, Invariant, PTL
=============================================================================
