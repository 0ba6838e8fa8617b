--------------------------- MODULE PacketsProofs ---------------------------
(***************************************************************************)
(* Proofs about the headers of a packet: that the views stay where their   *)
(* headers are, that the buffer is freed once, that a call that fails      *)
(* changes nothing, that the chain of extension headers loses none but the *)
(* one removed, and that lengths and checksums are right when              *)
(* reconcile_all is done and stay so when an address is set.               *)
(*                                                                         *)
(* HeadersInPlace is not inductive in the form in which it is checked: to  *)
(* show that a write misses a header it takes the order of all headers,    *)
(* not that of two neighbours, and that the cells are cells.  Typed and    *)
(* Linked say this of any packet d and views vs, so that the lemmas can    *)
(* speak of a packet half written, as reconcile_all has between two views. *)
(* Most calls change the packet behind the headers (Behind) or fields of a *)
(* header that are no part of the structure (Agreeing); a view that is put *)
(* on top, or comes off, is NewView and Below.                             *)
(*                                                                         *)
(* First come the sums.  Folding and summing are recursive functions; that *)
(* such a function exists, and what its values are, is shown by induction  *)
(* over a set of natural numbers.  Folding takes a sum to the word that is *)
(* congruent to it modulo all ones, with zero only for zero (Folds); from  *)
(* this follows what compute_inc promises, by arithmetic.                  *)
(***************************************************************************)
EXTENDS Packets, WellFoundedInduction, SequenceTheorems, TLAPS

-----------------------------------------------------------------------------
(* Sums *)

\* Induction over a set of natural numbers.
LEMMA Natural ==
  ASSUME NEW T \in SUBSET Nat, 0 \in T, \A n \in T : n + 1 \in T
  PROVE  T = Nat
<1> DEFINE R == {p \in Nat \X Nat : p[1] < p[2]}
<1>1. IsWellFoundedOn(R, Nat)
  BY NatLessThanWellFounded DEF OpToRel
<1>2. \A x, y \in Nat : <<y, x>> \in R <=> y < x
  OBVIOUS
<1> HIDE DEF R
<1>3. ASSUME Nat \ T # {} PROVE FALSE
  <2>1. PICK x \in Nat \ T : \A y \in Nat \ T : ~ (<<y, x>> \in R)
    BY <1>1, <1>3, WFMin
  <2>2. x # 0 /\ x - 1 \in Nat /\ x - 1 < x
    BY <2>1
  <2>3. <<x - 1, x>> \in R
    BY <1>2, <2>2
  <2>4. x - 1 \in T
    BY <2>1, <2>2, <2>3
  <2>5. x - 1 + 1 = x
    BY <2>1
  <2>6. QED
    BY <2>1, <2>4, <2>5
<1>4. QED
  BY <1>3

\* Complete induction.
LEMMA Complete ==
  ASSUME NEW T \in SUBSET Nat,
         \A n \in Nat : (\A k \in Nat : k < n => k \in T) => n \in T
  PROVE  T = Nat
<1> DEFINE U == {n \in Nat : \A k \in Nat : k < n => k \in T}
<1>1. 0 \in U
  OBVIOUS
<1>2. ASSUME NEW n \in U PROVE n + 1 \in U
  <2>1. n \in T
    OBVIOUS
  <2>2. \A k \in Nat : k < n + 1 => k < n \/ k = n
    OBVIOUS
  <2>3. QED
    BY <2>1, <2>2
<1>3. U = Nat
  <2> HIDE DEF U
  <2>1. U \in SUBSET Nat
    BY DEF U
  <2>2. QED
    BY <1>1, <1>2, <2>1, Natural
<1>4. QED
  BY <1>3

\* What is needed of the numbers, whatever the width of a word.
LEMMA WordFacts ==
  /\ Mod \in Nat /\ Mod > 3 /\ AllOnes \in Nat /\ AllOnes > 2 /\ AllOnes = Mod - 1
  /\ AllOnes \in Word /\ 0 \in Word /\ Word \subseteq Nat
BY ChecksumAssumption DEF Mod, AllOnes, Word

\* What a sum is folded to: it is the sum, but for a multiple of all ones, and
\* zero only for the sum zero.
Folds(n, r) ==
  /\ r \in Word /\ (r = 0 <=> n = 0)
  /\ \E q \in Nat : n = q * AllOnes + r

\* Every sum folds to some word:
LEMMA Euclid == \A n \in Nat : \E r \in Word : Folds(n, r)
<1> DEFINE T == {n \in Nat : \E r \in Word : Folds(n, r)}
<1>1. 0 \in T
  <2>1. 0 = 0 * AllOnes + 0
    BY WordFacts
  <2>2. QED
    BY <2>1, WordFacts DEF Folds
<1>2. ASSUME NEW n \in T PROVE n + 1 \in T
  <2>1. PICK r \in Word, q \in Nat : n = q * AllOnes + r
    BY DEF Folds
  <2>2. CASE r = AllOnes
    <3>1. n + 1 = (q + 1) * AllOnes + 1
      BY <2>1, <2>2, WordFacts
    <3>2. 1 \in Word /\ q + 1 \in Nat /\ n + 1 # 0
      BY WordFacts DEF Word
    <3>3. Folds(n + 1, 1)
      BY <3>1, <3>2 DEF Folds
    <3>4. QED
      BY <3>2, <3>3
  <2>3. CASE r # AllOnes
    <3>1. n + 1 = q * AllOnes + (r + 1)
      BY <2>1, WordFacts
    <3>2. r + 1 \in Word /\ r + 1 # 0
      BY <2>3, WordFacts DEF Word
    <3>3. Folds(n + 1, r + 1)
      BY <3>1, <3>2 DEF Folds
    <3>4. QED
      BY <3>2, <3>3
  <2>4. QED
    BY <2>2, <2>3
<1>3. T = Nat
  <2> HIDE DEF T
  <2>1. T \in SUBSET Nat
    BY DEF T
  <2>2. QED
    BY <1>1, <1>2, <2>1, Natural
<1>4. QED
  BY <1>3

\* and to no other.
LEMMA FoldsOnce ==
  ASSUME NEW n \in Nat, NEW r, NEW s, Folds(n, r), Folds(n, s)
  PROVE  r = s
<1>1. r \in Nat /\ s \in Nat /\ r <= AllOnes /\ s <= AllOnes /\ (r = 0 <=> s = 0)
  BY WordFacts DEF Folds, Word
<1>2. PICK q \in Nat : n = q * AllOnes + r
  BY DEF Folds
<1>3. PICK p \in Nat : n = p * AllOnes + s
  BY DEF Folds
<1>4. (q - p) * AllOnes = s - r
  BY <1>1, <1>2, <1>3, WordFacts
<1>5. CASE q = p
  BY <1>1, <1>2, <1>3, <1>5, WordFacts
<1>6. CASE q > p
  <2>1. (q - p) * AllOnes >= AllOnes
    BY <1>6, WordFacts
  <2>2. QED
    BY <1>1, <1>4, <2>1, WordFacts
<1>7. CASE q < p
  <2>1. (p - q) * AllOnes >= AllOnes
    BY <1>7, WordFacts
  <2>2. (p - q) * AllOnes = r - s
    BY <1>1, <1>2, <1>3, WordFacts
  <2>3. QED
    BY <1>1, <2>1, <2>2, WordFacts
<1>8. QED
  BY <1>5, <1>6, <1>7

\* One round of folding.
LEMMA FoldStep ==
  ASSUME NEW n \in Nat, n >= Mod
  PROVE  LET s == (n \div Mod) + (n % Mod)
         IN  s \in Nat /\ s < n /\ \A r : Folds(s, r) => Folds(n, r)
<1>1. PICK d \in Nat : d = n \div Mod
  BY WordFacts
<1>2. PICK m \in Nat : m = n % Mod
  BY WordFacts
<1>3. n = Mod * d + m /\ m < Mod
  BY <1>1, <1>2, WordFacts
<1>4. d > 0
  BY <1>3, WordFacts
<1>5. n = d * AllOnes + (d + m)
  BY <1>3, WordFacts
<1>6. d * AllOnes > 0
  BY <1>4, WordFacts
<1>7. d + m \in Nat /\ d + m < n /\ d + m # 0 /\ n # 0
  BY <1>4, <1>5, <1>6, WordFacts
<1>8. ASSUME NEW r, Folds(d + m, r) PROVE Folds(n, r)
  <2>1. PICK q \in Nat : d + m = q * AllOnes + r
    BY <1>8 DEF Folds
  <2>2. r \in Nat
    BY <1>8, WordFacts DEF Folds
  <2>3. n = (q + d) * AllOnes + r
    BY <1>5, <2>1, <2>2, WordFacts
  <2>4. QED
    BY <1>7, <1>8, <2>3 DEF Folds
<1>9. QED
  BY <1>1, <1>2, <1>7, <1>8

\* A word is what it folds to.
LEMMA FoldsWord == \A w \in Word : w \in Nat /\ w < Mod /\ Folds(w, w)
<1>1. SUFFICES ASSUME NEW w \in Word PROVE w \in Nat /\ w < Mod /\ Folds(w, w)
  OBVIOUS
<1>2. w \in Nat /\ w < Mod
  BY WordFacts DEF Word
<1>3. w = 0 * AllOnes + w
  BY <1>2, WordFacts
<1>4. QED
  BY <1>2, <1>3 DEF Folds

\* The fold of compute and compute_inc ends, and that is what it comes to.
LEMMA FoldedFolds == \A n \in Nat : Folds(n, Folded[n])
<1> DEFINE Step(F, n) == IF n < Mod THEN n ELSE F[(n \div Mod) + (n % Mod)]
           G == [n \in Nat |-> CHOOSE r \in Word : Folds(n, r)]
<1>1. \A n \in Nat : Folds(n, G[n])
  BY Euclid
<1>2. \A n \in Nat : G[n] = Step(G, n)
  <2> HIDE DEF G
  <2>1. SUFFICES ASSUME NEW n \in Nat PROVE G[n] = Step(G, n)
    OBVIOUS
  <2>2. CASE n < Mod
    <3>1. n \in Word
      BY <2>2, WordFacts DEF Word
    <3>2. QED
      BY <1>1, <2>2, <3>1, FoldsWord, FoldsOnce
  <2>3. CASE ~(n < Mod)
    <3>1. n >= Mod
      BY <2>3, WordFacts
    <3>2. PICK s \in Nat : s = (n \div Mod) + (n % Mod) /\ \A r : Folds(s, r) => Folds(n, r)
      BY <3>1, FoldStep
    <3>3. Folds(n, G[s])
      BY <1>1, <3>2
    <3>4. G[n] = G[s]
      BY <1>1, <3>3, FoldsOnce
    <3>5. QED
      BY <2>3, <3>2, <3>4
  <2>4. QED
    BY <2>2, <2>3
<1>3. G = [n \in Nat |-> Step(G, n)]
  BY <1>2
<1>4. Folded = [n \in Nat |-> Step(Folded, n)]
  <2> HIDE DEF G
  <2>1. \E F : F = [n \in Nat |-> IF n < Mod THEN n ELSE F[(n \div Mod) + (n % Mod)]]
    BY <1>3
  <2>2. QED
    BY <2>1 DEF Folded
<1> DEFINE T == {n \in Nat : Folds(n, Folded[n])}
<1>5. ASSUME NEW n \in Nat, \A k \in Nat : k < n => k \in T
      PROVE  n \in T
  <2>1. CASE n < Mod
    <3>1. n \in Word
      BY <2>1, WordFacts DEF Word
    <3>2. Folded[n] = n
      BY <1>4, <2>1
    <3>3. QED
      BY <3>1, <3>2, FoldsWord
  <2>2. CASE ~(n < Mod)
    <3>1. n >= Mod
      BY <2>2, WordFacts
    <3>2. PICK s \in Nat : /\ s = (n \div Mod) + (n % Mod) /\ s < n
                           /\ \A r : Folds(s, r) => Folds(n, r)
      BY <3>1, FoldStep
    <3>3. Folded[n] = Folded[s]
      BY <1>4, <2>2, <3>2
    <3>4. QED
      BY <1>5, <3>2, <3>3
  <2>3. QED
    BY <2>1, <2>2
<1>6. T = Nat
  <2> HIDE DEF T
  <2>1. T \in SUBSET Nat
    BY DEF T
  <2>2. QED
    BY <1>5, <2>1, Complete
<1>7. QED
  BY <1>6

-----------------------------------------------------------------------------
(* Totals *)

PartialSums(words, s) ==
  /\ s \in [0 .. Len(words) -> Nat] /\ s[0] = 0
  /\ \A i \in 1 .. Len(words) : s[i] = s[i - 1] + words[i]

\* The recursion in Total has a solution.
LEMMA TotalSums ==
  ASSUME NEW words \in Seq(Nat)
  PROVE  \E s : PartialSums(words, s) /\ Total(words) = s[Len(words)]
<1> DEFINE Upto(k, s) ==
             /\ s \in [0 .. k -> Nat] /\ s[0] = 0
             /\ \A i \in 1 .. k : s[i] = s[i - 1] + words[i]
           T == {k \in Nat : k <= Len(words) => \E s : Upto(k, s)}
<1>1. Len(words) \in Nat /\ \A i \in 1 .. Len(words) : words[i] \in Nat
  OBVIOUS
<1>2. 0 \in T
  <2>1. Upto(0, [i \in 0 .. 0 |-> 0])
    OBVIOUS
  <2>2. QED
    BY <2>1
<1>3. ASSUME NEW k \in T PROVE k + 1 \in T
  <2>1. SUFFICES ASSUME k + 1 <= Len(words) PROVE \E s : Upto(k + 1, s)
    <3>1. k + 1 \in Nat
      OBVIOUS
    <3> HIDE DEF Upto
    <3>2. QED
      BY <3>1
  <2>3. k \in Nat /\ k <= Len(words) /\ words[k + 1] \in Nat
    BY <1>1, <2>1
  <2>2. PICK s : Upto(k, s)
    <3> HIDE DEF Upto
    <3>1. QED
      BY <2>3
  <2> DEFINE r == [i \in 0 .. k + 1 |-> IF i <= k THEN s[i] ELSE s[k] + words[k + 1]]
  <2>4. r \in [0 .. k + 1 -> Nat] /\ r[0] = 0
    BY <2>2, <2>3
  <2>5. ASSUME NEW i \in 1 .. k + 1 PROVE r[i] = r[i - 1] + words[i]
    <3>1. CASE i = k + 1
      BY <2>2, <2>3, <3>1
    <3>2. CASE i <= k
      BY <2>2, <2>3, <3>2
    <3>3. QED
      BY <2>3, <3>1, <3>2
  <2>6. QED
    BY <2>4, <2>5
<1>4. T = Nat
  <2> HIDE DEF T
  <2>1. T \in SUBSET Nat
    BY DEF T
  <2>2. QED
    BY <1>2, <1>3, <2>1, Natural
<1>5. PICK s : Upto(Len(words), s)
  <2> HIDE DEF Upto
  <2>1. Len(words) \in T /\ Len(words) <= Len(words)
    BY <1>1, <1>4
  <2>2. QED
    BY <2>1
<1> DEFINE Step(f) == [i \in 0 .. Len(words) |-> IF i = 0 THEN 0 ELSE f[i - 1] + words[i]]
<1>6. s = Step(s)
  BY <1>1, <1>5
<1>7. PICK f : f = Step(f) /\ Total(words) = f[Len(words)]
  BY <1>6 DEF Total
<1> DEFINE U == {k \in Nat : k <= Len(words) => f[k] = s[k]}
<1>8. 0 \in U
  BY <1>1, <1>5, <1>7
<1>9. ASSUME NEW k \in U PROVE k + 1 \in U
  BY <1>1, <1>5, <1>7
<1>10. U = Nat
  <2> HIDE DEF U
  <2>1. U \in SUBSET Nat
    BY DEF U
  <2>2. QED
    BY <1>8, <1>9, <2>1, Natural
<1>11. f[Len(words)] = s[Len(words)]
  BY <1>1, <1>10
<1>12. QED
  BY <1>5, <1>7, <1>11 DEF PartialSums

\* A total is a number.
LEMMA TotalType == \A words \in Seq(Nat) : Total(words) \in Nat
BY TotalSums DEF PartialSums

\* A total changes by what one word does.
LEMMA TotalChange ==
  ASSUME NEW words \in Seq(Nat), NEW other \in Seq(Nat),
         Len(other) = Len(words), NEW k \in 1 .. Len(words),
         \A i \in 1 .. Len(words) : i # k => other[i] = words[i]
  PROVE  Total(other) = Total(words) - words[k] + other[k]
<1>1. PICK s : PartialSums(words, s) /\ Total(words) = s[Len(words)]
  BY TotalSums
<1>2. PICK r : PartialSums(other, r) /\ Total(other) = r[Len(words)]
  BY TotalSums
<1>3. /\ Len(words) \in Nat
      /\ \A i \in 1 .. Len(words) : words[i] \in Nat /\ other[i] \in Nat
      /\ \A i \in 0 .. Len(words) : s[i] \in Nat /\ r[i] \in Nat
  <2>1. Len(words) \in Nat /\ \A i \in 1 .. Len(words) : words[i] \in Nat
    OBVIOUS
  <2>2. \A i \in 1 .. Len(words) : other[i] \in Nat
    OBVIOUS
  <2>3. s \in [0 .. Len(words) -> Nat] /\ r \in [0 .. Len(words) -> Nat]
    BY <1>1, <1>2 DEF PartialSums
  <2>4. QED
    BY <2>1, <2>2, <2>3
<1> DEFINE Holds(n) == r[n] = IF n < k THEN s[n] ELSE s[n] - words[k] + other[k]
           T == {n \in Nat : n <= Len(words) => Holds(n)}
<1>4. 0 \in T
  BY <1>1, <1>2 DEF PartialSums
<1>5. ASSUME NEW n \in T PROVE n + 1 \in T
  <2>1. SUFFICES ASSUME n + 1 <= Len(words) PROVE Holds(n + 1)
    OBVIOUS
  <2>2. /\ n \in Nat /\ n + 1 \in 1 .. Len(words) /\ n \in 0 .. Len(words) /\ Holds(n)
        /\ n + 1 - 1 = n
    BY <1>3, <2>1
  <2>3. s[n + 1] = s[n] + words[n + 1] /\ r[n + 1] = r[n] + other[n + 1]
    BY <1>1, <1>2, <2>2 DEF PartialSums
  <2>4. CASE n + 1 < k
    <3>1. other[n + 1] = words[n + 1] /\ r[n] = s[n]
      BY <2>2, <2>4
    <3>2. r[n + 1] = s[n + 1]
      BY <2>3, <3>1
    <3>3. QED
      BY <2>4, <3>2
  <2>5. CASE n + 1 = k
    <3>1. r[n] = s[n]
      BY <2>2, <2>5
    <3>2. PICK a \in Nat, b \in Nat, c \in Nat : a = s[n] /\ b = words[k] /\ c = other[k]
      BY <1>3, <2>2
    <3>3. r[n + 1] = a + c /\ s[n + 1] = a + b
      BY <2>3, <2>5, <3>1, <3>2
    <3>4. a + c = (a + b) - b + c
      OBVIOUS
    <3>5. QED
      BY <2>5, <3>2, <3>3, <3>4
  <2>6. CASE n + 1 > k
    <3>1. other[n + 1] = words[n + 1]
      BY <2>2, <2>6
    <3>2. r[n] = s[n] - words[k] + other[k]
      BY <2>2, <2>6
    <3>3. /\ s[n] \in Nat /\ r[n] \in Nat /\ words[k] \in Nat /\ other[k] \in Nat
          /\ words[n + 1] \in Nat
      BY <1>3, <2>2
    <3>4. PICK a \in Nat, b \in Nat, c \in Nat, w \in Nat :
            a = s[n] /\ b = words[k] /\ c = other[k] /\ w = words[n + 1]
      BY <3>3
    <3>5. r[n + 1] = (a - b + c) + w
      BY <2>3, <3>1, <3>2, <3>4
    <3>6. s[n + 1] - b + c = (a + w) - b + c
      BY <2>3, <3>4
    <3>7. (a - b + c) + w = (a + w) - b + c
      OBVIOUS
    <3>8. r[n + 1] = s[n + 1] - words[k] + other[k]
      BY <3>4, <3>5, <3>6, <3>7
    <3>9. QED
      BY <2>6, <3>8
  <2>7. QED
    BY <2>2, <2>4, <2>5, <2>6
<1>6. T = Nat
  <2> HIDE DEF T
  <2>1. T \in SUBSET Nat
    BY DEF T
  <2>2. QED
    BY <1>4, <1>5, <2>1, Natural
<1>7. Holds(Len(words))
  BY <1>3, <1>6
<1>8. QED
  BY <1>1, <1>2, <1>3, <1>7

-----------------------------------------------------------------------------
(* Checksums *)

\* Sums that differ by a multiple of all ones fold to the same, if both or none
\* is zero; so what has been folded may be folded again.
LEMMA FoldTwice ==
  ASSUME NEW n \in Nat, NEW k \in Nat
  PROVE  Folded[Folded[n] + k] = Folded[n + k]
<1> DEFINE f == Folded[n]
<1>1. Folds(n, f)
  BY FoldedFolds
<1> HIDE DEF f
<1>2. f \in Nat /\ (f = 0 <=> n = 0)
  BY <1>1, WordFacts DEF Folds
<1>3. PICK q \in Nat : n = q * AllOnes + f
  BY <1>1 DEF Folds
<1>4. Folds(f + k, Folded[f + k])
  BY <1>2, FoldedFolds
<1>5. PICK r : r = Folded[f + k]
  OBVIOUS
<1>6. r \in Word /\ r \in Nat /\ (r = 0 <=> f + k = 0)
  BY <1>4, <1>5, WordFacts DEF Folds
<1>7. PICK p \in Nat : f + k = p * AllOnes + r
  BY <1>4, <1>5 DEF Folds
<1>8. n + k = (p + q) * AllOnes + r
  BY <1>2, <1>3, <1>6, <1>7, WordFacts
<1>9. n + k = 0 <=> r = 0
  BY <1>2, <1>6
<1>10. Folds(n + k, r)
  BY <1>6, <1>8, <1>9 DEF Folds
<1>11. Folds(n + k, Folded[n + k])
  BY FoldedFolds
<1>12. r = Folded[n + k]
  BY <1>10, <1>11, FoldsOnce
<1>13. QED
  BY <1>5, <1>12 DEF f

\* A sum folds to all ones when it is a multiple of it and not zero.
LEMMA AllOnesMultiple ==
  ASSUME NEW n \in Nat
  PROVE  Folded[n] = AllOnes <=> n # 0 /\ \E q \in Nat : n = q * AllOnes
<1>1. Folds(n, Folded[n])
  BY FoldedFolds
<1>2. ASSUME Folded[n] = AllOnes PROVE n # 0 /\ \E q \in Nat : n = q * AllOnes
  <2>1. PICK q \in Nat : n = q * AllOnes + AllOnes
    BY <1>1, <1>2 DEF Folds
  <2>2. n = (q + 1) * AllOnes /\ q + 1 \in Nat
    BY <2>1, WordFacts
  <2>3. n # 0
    BY <1>1, <1>2, WordFacts DEF Folds
  <2>4. QED
    BY <2>2, <2>3
<1>3. ASSUME n # 0, NEW q \in Nat, n = q * AllOnes PROVE Folded[n] = AllOnes
  <2>1. q # 0
    BY <1>3, WordFacts
  <2>2. n = (q - 1) * AllOnes + AllOnes /\ q - 1 \in Nat
    BY <1>3, <2>1, WordFacts
  <2>3. Folds(n, AllOnes)
    <3>1. \E p \in Nat : n = p * AllOnes + AllOnes
      BY <2>2
    <3>2. AllOnes \in Word /\ AllOnes # 0
      BY WordFacts
    <3>3. QED
      BY <1>3, <3>1, <3>2 DEF Folds
  <2>4. QED
    BY <1>1, <2>3, FoldsOnce
<1>4. QED
  BY <1>2, <1>3

\* The complement of a word is one,
LEMMA NotWord == \A w \in Word : Not(w) \in Word
BY WordFacts DEF Not, Word

\* as is what a sum folds to,
LEMMA FoldedWord == \A n \in Nat : Folded[n] \in Word
BY FoldedFolds DEF Folds

\* and so is every checksum.
LEMMA ChecksumWord ==
  /\ \A p \in Nat, words \in Seq(Nat) : Compute(p, words) \in Word
  /\ \A old, from, to \in Word : ComputeInc(old, from, to) \in Word
  /\ \A src, dst, len, protocol \in Nat : PseudoSum(src, dst, len, protocol) \in Word
<1>1. \A p \in Nat, words \in Seq(Nat) : p + Total(words) \in Nat
  BY TotalType
<1>2. \A old, from, to \in Word : Not(old) + Not(from) + to \in Nat
  BY WordFacts DEF Not, Word
<1>3. \A p \in Nat, words \in Seq(Nat) : Compute(p, words) \in Word
  BY <1>1, FoldedWord, NotWord DEF Compute
<1>4. \A old, from, to \in Word : ComputeInc(old, from, to) \in Word
  BY <1>2, FoldedWord, NotWord DEF ComputeInc
<1>5. ASSUME NEW src \in Nat, NEW dst \in Nat, NEW len \in Nat, NEW protocol \in Nat
      PROVE  PseudoSum(src, dst, len, protocol) \in Word
  <2>1. src + dst + len + protocol \in Nat
    OBVIOUS
  <2>2. QED
    BY <2>1, FoldedWord DEF PseudoSum
<1>6. QED
  BY <1>3, <1>4, <1>5

\* compute_inc: a sum that was right with the old word and the old checksum is
\* right with the new ones.  What else is summed up is not zero, as a pseudo
\* header is not, which has a length and a protocol.
THEOREM IncrementalUpdate ==
  ASSUME NEW rest \in Nat \ {0}, NEW old \in Word, NEW from \in Word, NEW to \in Word,
         Folded[rest + old + from] = AllOnes
  PROVE  Folded[rest + ComputeInc(old, from, to) + to] = AllOnes
<1>1. old \in Nat /\ from \in Nat /\ to \in Nat /\ old <= AllOnes /\ from <= AllOnes
  BY WordFacts DEF Word
<1>2. PICK q \in Nat : rest + old + from = q * AllOnes
  BY <1>1, AllOnesMultiple
<1>3. PICK n \in Nat : n = (AllOnes - old) + (AllOnes - from) + to
  BY <1>1, WordFacts
<1>4. PICK h : h = Folded[n]
  OBVIOUS
<1>5. Folds(n, h) /\ h \in Nat /\ h <= AllOnes
  BY <1>4, FoldedFolds, FoldedWord, WordFacts DEF Word
<1>6. PICK p \in Nat : n = p * AllOnes + h
  BY <1>5 DEF Folds
<1>7. ComputeInc(old, from, to) = AllOnes - h
  BY <1>3, <1>4 DEF ComputeInc, Not
<1>8. rest + (AllOnes - h) + to = (q + p - 1) * AllOnes
  BY <1>1, <1>2, <1>3, <1>5, <1>6, WordFacts
<1>9. rest + (AllOnes - h) + to \in Nat /\ rest + (AllOnes - h) + to # 0
  BY <1>1, <1>5, WordFacts
<1>10. q # 0
  BY <1>1, <1>2, WordFacts
<1>11. q + p - 1 \in Nat
  BY <1>10
<1>12. QED
  BY <1>7, <1>8, <1>9, <1>11, AllOnesMultiple

-----------------------------------------------------------------------------
(* The invariant *)

Kinds ==
  {"Ethernet", "Ipv4", "Ipv6", "Srh", "Fragment", "Udp", "Tcp", "Icmpv4", "Icmpv6"}
ViewOf ==
  [k : Kinds, msg : {"none", "EchoRequest", "TimeExceeded", "PacketTooBig"},
   off : Nat, segs : Nat]

\* Only a view of an ICMP header may be one of a message, of those of its kind.
Typed(d, vs) ==
  /\ d \in Seq(Cell) /\ vs \in Seq(ViewOf)
  /\ \A i \in 1 .. Len(vs) :
       vs[i].msg # "none" => vs[i].k \in Icmps /\ vs[i].msg \in Messages(vs[i].k)

End(d, view) == view.off + HeaderLen(d, view)

\* HeadersInPlace with the views by their number, and the headers in order.
LinkedAt(d, vs, i) ==
  LET h == d[vs[i].off + 1]
  IN  /\ End(d, vs[i]) <= Len(d)
      /\ i = 1 => vs[i].k = "Ethernet" /\ vs[i].off = 0
      /\ i > 1 => /\ vs[i - 1].k \in Envelopes(vs[i].k)
                  /\ vs[i].off = End(d, vs[i - 1])
                  /\ d[vs[i - 1].off + 1].next = vs[i].k
      /\ vs[i].k = "Srh" => vs[i].segs = h.len + 1 /\ h.ext = 2 * vs[i].segs
      /\ vs[i].msg # "none" => h.next = vs[i].msg /\ vs[i].off + 1 < Len(d)

Linked(d, vs) ==
  /\ \A i \in 1 .. Len(vs) : LinkedAt(d, vs, i)
  /\ \A i, j \in 1 .. Len(vs) : i < j => End(d, vs[i]) <= vs[j].off

\* What a step has to keep of the packet.
Good ==
  /\ Typed(data, views) /\ Linked(data, views)
  /\ Len(data) < Room /\ Len(views) <= ViewsMax

Flags ==
  /\ alive \in BOOLEAN /\ frees \in Nat /\ verdict \in {"ok", "err"}
  /\ calls \in 0 .. MaxCalls

IInv == Good /\ Flags

-----------------------------------------------------------------------------
(* Sequences *)

\* The last view and those below it.
LEMMA LastFront ==
  ASSUME NEW S, NEW s \in Seq(S), s # <<>>
  PROVE  /\ Len(s) \in Nat \ {0} /\ Last(s) = s[Len(s)] /\ Last(s) \in S
         /\ Front(s) = SubSeq(s, 1, Len(s) - 1)
BY DEF Last, Front

\* The first elements.
LEMMA FirstOf ==
  ASSUME NEW S, NEW s \in Seq(S), NEW n \in 0 .. Len(s)
  PROVE  /\ SubSeq(s, 1, n) \in Seq(S) /\ Len(SubSeq(s, 1, n)) = n
         /\ \A i \in 1 .. n : SubSeq(s, 1, n)[i] = s[i]
<1>1. Len(s) \in Nat /\ \A i \in 1 .. Len(s) : s[i] \in S
  OBVIOUS
<1>2. \A i \in 1 .. n : s[i] \in S
  BY <1>1
<1>3. QED
  BY <1>1, <1>2

\* The elements from a position on.
LEMMA RestOf ==
  ASSUME NEW S, NEW s \in Seq(S), NEW o \in 0 .. Len(s)
  PROVE  /\ From(s, o) \in Seq(S) /\ Len(From(s, o)) = Len(s) - o
         /\ \A i \in 1 .. Len(s) - o : From(s, o)[i] = s[o + i]
<1>1. Len(s) \in Nat /\ \A i \in 1 .. Len(s) : s[i] \in S
  OBVIOUS
<1>2. \A i \in o + 1 .. Len(s) : s[i] \in S
  BY <1>1
<1>3. From(s, o) = SubSeq(s, o + 1, Len(s))
  BY DEF From
<1>4. QED
  BY <1>1, <1>2, <1>3

\* The same elements from a position on.
LEMMA SameRest ==
  ASSUME NEW s \in Seq(Cell), NEW t \in Seq(Cell), NEW o \in 0 .. Len(s), NEW p \in 0 .. Len(t),
         NEW n \in Nat, n = Len(s) - o, n = Len(t) - p, \A i \in 1 .. n : t[p + i] = s[o + i]
  PROVE  From(t, p) = From(s, o)
<1>1. PICK a \in Seq(Cell) : a = From(s, o) /\ Len(a) = n /\ \A i \in 1 .. n : a[i] = s[o + i]
  BY RestOf
<1>2. PICK b \in Seq(Cell) : b = From(t, p) /\ Len(b) = n /\ \A i \in 1 .. n : b[i] = t[p + i]
  <2>1. /\ From(t, p) \in Seq(Cell) /\ Len(From(t, p)) = Len(t) - p
        /\ \A i \in 1 .. Len(t) - p : From(t, p)[i] = t[p + i]
    BY RestOf
  <2>2. QED
    BY <2>1
<1>3. \A i \in 1 .. n : b[i] = a[i]
  BY <1>1, <1>2
<1>4. a = b
  BY <1>1, <1>2, <1>3, SeqEqual
<1>5. QED
  BY <1>1, <1>2, <1>4

\* Two sequences after each other.
LEMMA Joined ==
  ASSUME NEW S, NEW s \in Seq(S), NEW t \in Seq(S)
  PROVE  /\ s \o t \in Seq(S) /\ Len(s \o t) = Len(s) + Len(t)
         /\ \A i \in 1 .. Len(s) : (s \o t)[i] = s[i]
         /\ \A i \in 1 .. Len(t) : (s \o t)[Len(s) + i] = t[i]
<1>1. Len(s) \in Nat /\ Len(t) \in Nat
  OBVIOUS
<1>2. QED
  BY <1>1

\* A cell that is written.
LEMMA Written ==
  ASSUME NEW S, NEW s \in Seq(S), NEW i \in 1 .. Len(s), NEW e \in S
  PROVE  /\ [s EXCEPT ![i] = e] \in Seq(S) /\ Len([s EXCEPT ![i] = e]) = Len(s)
         /\ \A j \in 1 .. Len(s) : [s EXCEPT ![i] = e][j] = IF j = i THEN e ELSE s[j]
<1>1. Len(s) \in Nat /\ \A j \in 1 .. Len(s) : s[j] \in S
  OBVIOUS
<1>2. QED
  BY <1>1

\* An element that is added.
LEMMA Added ==
  ASSUME NEW S, NEW s \in Seq(S), NEW e \in S
  PROVE  /\ Append(s, e) \in Seq(S) /\ Len(Append(s, e)) = Len(s) + 1
         /\ \A i \in 1 .. Len(s) : Append(s, e)[i] = s[i]
         /\ Append(s, e)[Len(s) + 1] = e
OBVIOUS

-----------------------------------------------------------------------------
(* The stack *)

\* What is below what.
LEMMA EnvelopesAre ==
  \A k \in Kinds : \A e :
    e \in Envelopes(k) <=>
      \/ k = "Ethernet" /\ e = "Mbuf"
      \/ k \in {"Ipv4", "Ipv6"} /\ e = "Ethernet"
      \/ k \in {"Srh", "Fragment", "Icmpv6"} /\ e \in {"Ipv6", "Srh", "Fragment"}
      \/ k = "Icmpv4" /\ e = "Ipv4"
      \/ k \in {"Udp", "Tcp"} /\ e \in {"Ipv4", "Ipv6", "Srh", "Fragment"}
BY DEF Kinds, Envelopes, Extensions, Ipv6s, Ips

\* A header has a cell, and those that hold its length.
LEMMA Lengths ==
  ASSUME NEW d, NEW view \in ViewOf
  PROVE  /\ HeaderLen(d, view) \in Nat \ {0}
         /\ view.k = "Srh" => HeaderLen(d, view) = 1 + view.segs
         /\ view.k \notin {"Srh", "Ethernet"} => HeaderLen(d, view) = 1
         /\ view.k = "Ethernet" => HeaderLen(d, view) = 1 + Tags(d[view.off + 1])
         /\ End(d, view) = view.off + HeaderLen(d, view) /\ End(d, view) \in Nat
         /\ view.off \in Nat /\ End(d, view) > view.off
<1>1. \A cell : Tags(cell) \in Nat
  BY DEF Tags
<1>2. view.off \in Nat /\ view.segs \in Nat
  BY DEF ViewOf
<1>3. QED
  BY <1>1, <1>2 DEF HeaderLen, At, End

\* Each header is in the packet.
LEMMA Inside ==
  ASSUME NEW d, NEW vs, Typed(d, vs), Linked(d, vs)
  PROVE  /\ Len(d) \in Nat /\ Len(vs) \in Nat
         /\ \A i \in 1 .. Len(vs) :
              /\ vs[i] \in ViewOf /\ vs[i].off \in Nat
              /\ vs[i].off + 1 \in 1 .. Len(d) /\ d[vs[i].off + 1] \in Cell
              /\ End(d, vs[i]) \in 1 .. Len(d) /\ vs[i].off < End(d, vs[i])
<1>1. Len(d) \in Nat /\ Len(vs) \in Nat /\ \A j \in 1 .. Len(d) : d[j] \in Cell
  BY DEF Typed
<1>2. ASSUME NEW i \in 1 .. Len(vs)
      PROVE  /\ vs[i] \in ViewOf /\ vs[i].off \in Nat
             /\ vs[i].off + 1 \in 1 .. Len(d)
             /\ End(d, vs[i]) \in 1 .. Len(d) /\ vs[i].off < End(d, vs[i])
  <2>1. vs[i] \in ViewOf
    BY DEF Typed
  <2>2. End(d, vs[i]) <= Len(d)
    BY DEF Linked, LinkedAt
  <2>3. QED
    BY <1>1, <2>1, <2>2, Lengths
<1>3. QED
  BY <1>1, <1>2

\* The stack is Ethernet, an IP header, extension headers, and what they carry; a
\* message is the last view.
LEMMA Stack ==
  ASSUME NEW d, NEW vs, Typed(d, vs), Linked(d, vs)
  PROVE  \A i \in 1 .. Len(vs) :
           /\ vs[i].k = "Ethernet" <=> i = 1
           /\ vs[i].k \in {"Ipv4", "Ipv6"} <=> i = 2
           /\ i < Len(vs) => /\ vs[i].k \in {"Ethernet", "Ipv4", "Ipv6", "Srh", "Fragment"}
                             /\ vs[i].msg = "none"
<1>1. Len(vs) \in Nat /\ \A i \in 1 .. Len(vs) : vs[i] \in ViewOf /\ vs[i].k \in Kinds
  BY Inside DEF ViewOf
<1>2. \A i \in 1 .. Len(vs) : i = 1 => vs[i].k = "Ethernet"
  BY DEF Linked, LinkedAt
<1>3. \A i \in 1 .. Len(vs) : i > 1 => vs[i - 1].k \in Envelopes(vs[i].k)
  BY DEF Linked, LinkedAt
<1>4. ASSUME NEW i \in 1 .. Len(vs), vs[i].k = "Ethernet" PROVE i = 1
  <2>1. SUFFICES ASSUME i > 1 PROVE FALSE
    OBVIOUS
  <2>2. i - 1 \in 1 .. Len(vs) /\ vs[i - 1].k = "Mbuf"
    <3>1. vs[i - 1].k \in Envelopes("Ethernet")
      BY <1>3, <1>4, <2>1
    <3>2. "Ethernet" \in Kinds /\ i - 1 \in 1 .. Len(vs)
      BY <1>1, <2>1 DEF Kinds
    <3>3. QED
      BY <3>1, <3>2, EnvelopesAre
  <2>3. QED
    BY <1>1, <2>2 DEF Kinds
<1>5. ASSUME NEW i \in 1 .. Len(vs) PROVE vs[i].k \in {"Ipv4", "Ipv6"} <=> i = 2
  <2>1. ASSUME vs[i].k \in {"Ipv4", "Ipv6"} PROVE i = 2
    <3>1. i # 1
      BY <1>2, <2>1
    <3>2. i - 1 \in 1 .. Len(vs) /\ vs[i - 1].k = "Ethernet"
      BY <1>1, <1>3, <2>1, <3>1, EnvelopesAre
    <3>3. QED
      BY <1>4, <3>2
  <2>2. ASSUME i = 2 PROVE vs[i].k \in {"Ipv4", "Ipv6"}
    <3>1. vs[1].k = "Ethernet" /\ vs[1].k \in Envelopes(vs[2].k) /\ vs[2].k \in Kinds
      BY <1>1, <1>2, <1>3, <2>2
    <3>2. QED
      BY <2>2, <3>1, EnvelopesAre
  <2>3. QED
    BY <2>1, <2>2
<1>6. ASSUME NEW i \in 1 .. Len(vs), i < Len(vs)
      PROVE  /\ vs[i].k \in {"Ethernet", "Ipv4", "Ipv6", "Srh", "Fragment"}
             /\ vs[i].msg = "none"
  <2>1. i + 1 \in 1 .. Len(vs) /\ i + 1 > 1 /\ i + 1 - 1 = i
    BY <1>1, <1>6
  <2>2. vs[i].k \in Envelopes(vs[i + 1].k) /\ vs[i + 1].k \in Kinds /\ vs[i].k \in Kinds
    BY <1>1, <1>3, <2>1
  <2>3. vs[i].k \in {"Ethernet", "Ipv4", "Ipv6", "Srh", "Fragment"}
    BY <2>2, EnvelopesAre DEF Kinds
  <2>4. QED
    BY <2>3 DEF Typed, Icmps
<1>7. QED
  BY <1>2, <1>4, <1>5, <1>6

\* The first views of a stack are one.
LEMMA Prefix ==
  ASSUME NEW d, NEW vs, Typed(d, vs), Linked(d, vs), NEW n \in 0 .. Len(vs)
  PROVE  Typed(d, SubSeq(vs, 1, n)) /\ Linked(d, SubSeq(vs, 1, n))
<1>1. PICK ws : ws = SubSeq(vs, 1, n)
  OBVIOUS
<1>2. /\ ws \in Seq(ViewOf) /\ Len(ws) = n /\ n \in Nat /\ Len(vs) \in Nat
      /\ \A i \in 1 .. n : ws[i] = vs[i] /\ i \in 1 .. Len(vs)
  BY <1>1, FirstOf, Inside DEF Typed
<1>3. Typed(d, ws)
  BY <1>2 DEF Typed
<1>4. ASSUME NEW i \in 1 .. n PROVE LinkedAt(d, ws, i)
  <2>1. LinkedAt(d, vs, i) /\ ws[i] = vs[i] /\ (i > 1 => ws[i - 1] = vs[i - 1])
    BY <1>2 DEF Linked
  <2>2. QED
    BY <2>1 DEF LinkedAt
<1>5. \A i, j \in 1 .. n : i < j => End(d, ws[i]) <= ws[j].off
  BY <1>2 DEF Linked
<1>6. QED
  BY <1>1, <1>2, <1>3, <1>4, <1>5 DEF Linked

\* The IP header of a packet is the second.
LEMMA IpIsSecond ==
  ASSUME NEW d, NEW vs, Typed(d, vs), Linked(d, vs), Len(vs) > 1
  PROVE  2 \in 1 .. Len(vs) /\ IpView(vs) = vs[2]
<1>1. Len(vs) \in Nat /\ DOMAIN vs = 1 .. Len(vs)
  BY DEF Typed
<1>2. \A i \in DOMAIN vs : vs[i].k \in {"Ipv4", "Ipv6"} <=> i = 2
  BY <1>1, Stack
<1>3. QED
  BY <1>1, <1>2 DEF IpView

\* Where the next header begins, and the kind of the view on top.
LEMMA OnTop ==
  ASSUME NEW d, NEW vs, Typed(d, vs), Linked(d, vs)
  PROVE  /\ vs = <<>> => PayloadOffset(d, vs) = 0 /\ TopKind(vs) = "Mbuf"
         /\ vs # <<>> => /\ Len(vs) \in 1 .. Len(vs) /\ Last(vs) = vs[Len(vs)]
                         /\ PayloadOffset(d, vs) = End(d, vs[Len(vs)])
                         /\ TopKind(vs) = vs[Len(vs)].k
         /\ PayloadOffset(d, vs) \in 0 .. Len(d)
         /\ \A i \in 1 .. Len(vs) : End(d, vs[i]) <= PayloadOffset(d, vs)
<1>1. Len(vs) \in Nat /\ Len(d) \in Nat /\ (vs = <<>> <=> Len(vs) = 0)
  BY DEF Typed
<1>2. CASE vs = <<>>
  BY <1>1, <1>2 DEF PayloadOffset, TopKind
<1>3. CASE vs # <<>>
  <2>1. Len(vs) \in 1 .. Len(vs) /\ Last(vs) = vs[Len(vs)]
    BY <1>1, <1>3 DEF Last
  <2>2. PayloadOffset(d, vs) = End(d, vs[Len(vs)]) /\ TopKind(vs) = vs[Len(vs)].k
    BY <1>3, <2>1 DEF PayloadOffset, TopKind, End
  <2>3. End(d, vs[Len(vs)]) \in 1 .. Len(d)
    BY <2>1, Inside
  <2>4. ASSUME NEW i \in 1 .. Len(vs) PROVE End(d, vs[i]) <= End(d, vs[Len(vs)])
    <3>1. CASE i = Len(vs)
      BY <1>1, <2>3, <3>1
    <3>2. CASE i < Len(vs)
      <4>1. End(d, vs[i]) <= vs[Len(vs)].off
        BY <2>1, <3>2 DEF Linked
      <4>2. QED
        BY <2>1, <4>1, Inside
    <3>3. QED
      BY <1>1, <3>1, <3>2
  <2>5. QED
    BY <1>1, <1>3, <2>1, <2>2, <2>3, <2>4
<1>4. QED
  BY <1>2, <1>3

-----------------------------------------------------------------------------
(* What keeps the headers in place *)

\* A header that is where it was, of the same length, and with the same header or
\* body of a message behind it.
Same(d, e, vs, i) ==
  LET g == d[vs[i].off + 1]
      h == e[vs[i].off + 1]
  IN  /\ i < Len(vs) \/ vs[i].msg # "none" => h.next = g.next
      /\ vs[i].k = "Ethernet" => h.v = g.v
      /\ vs[i].k = "Srh" => h.len = g.len /\ h.ext = g.ext

\* A change to the packet that keeps the header of every view, and does not cut
\* one, keeps them in place.
LEMMA Agreeing ==
  ASSUME NEW d, NEW e, NEW vs, Typed(d, vs), Linked(d, vs), e \in Seq(Cell),
         \A i \in 1 .. Len(vs) :
           /\ Same(d, e, vs, i) /\ End(d, vs[i]) <= Len(e)
           /\ vs[i].msg # "none" => vs[i].off + 1 < Len(e)
  PROVE  Typed(e, vs) /\ Linked(e, vs) /\ PayloadOffset(e, vs) = PayloadOffset(d, vs)
<1>1. Typed(e, vs)
  BY DEF Typed
<1>2. ASSUME NEW i \in 1 .. Len(vs) PROVE End(e, vs[i]) = End(d, vs[i])
  <2>1. vs[i] \in ViewOf
    BY DEF Typed
  <2>2. Tags(e[vs[i].off + 1]) = Tags(d[vs[i].off + 1]) \/ vs[i].k # "Ethernet"
    BY DEF Same, Tags
  <2>3. HeaderLen(e, vs[i]) = HeaderLen(d, vs[i])
    BY <2>1, <2>2, Lengths DEF ViewOf
  <2>4. QED
    BY <2>3 DEF End
<1>3. ASSUME NEW i \in 1 .. Len(vs) PROVE LinkedAt(e, vs, i)
  <2>1. LinkedAt(d, vs, i) /\ Same(d, e, vs, i)
    BY DEF Linked
  <2>2. i > 1 => /\ i - 1 \in 1 .. Len(vs) /\ Same(d, e, vs, i - 1) /\ i - 1 < Len(vs)
                 /\ End(e, vs[i - 1]) = End(d, vs[i - 1])
    <3>1. i > 1 => i - 1 \in 1 .. Len(vs) /\ i - 1 < Len(vs)
      BY Inside
    <3>2. QED
      BY <1>2, <3>1
  <2>3. End(e, vs[i]) = End(d, vs[i]) /\ End(d, vs[i]) <= Len(e)
    BY <1>2
  <2>4. QED
    BY <2>1, <2>2, <2>3 DEF LinkedAt, Same
<1>4. \A i, j \in 1 .. Len(vs) : i < j => End(e, vs[i]) <= vs[j].off
  BY <1>2 DEF Linked
<1>5. Linked(e, vs)
  BY <1>3, <1>4 DEF Linked
<1>6. PayloadOffset(e, vs) = PayloadOffset(d, vs)
  <2>1. CASE vs = <<>>
    BY <1>1, <1>5, <2>1, OnTop
  <2>2. CASE vs # <<>>
    BY <1>1, <1>2, <1>5, <2>2, OnTop
  <2>3. QED
    BY <2>1, <2>2
<1>7. QED
  BY <1>1, <1>5, <1>6

\* So does one behind the headers.
LEMMA Behind ==
  ASSUME NEW d, NEW e, NEW vs, Typed(d, vs), Linked(d, vs), e \in Seq(Cell),
         PayloadOffset(d, vs) <= Len(e),
         \A i \in 1 .. PayloadOffset(d, vs) : e[i] = d[i],
         \A i \in 1 .. Len(vs) : vs[i].msg # "none" => vs[i].off + 1 < Len(e)
  PROVE  Typed(e, vs) /\ Linked(e, vs) /\ PayloadOffset(e, vs) = PayloadOffset(d, vs)
<1>1. PICK o \in Nat : o = PayloadOffset(d, vs)
  BY OnTop
<1>2. \A i \in 1 .. o : e[i] = d[i]
  BY <1>1
<1>3. Len(e) \in Nat /\ o <= Len(e)
  BY <1>1
<1>4. ASSUME NEW i \in 1 .. Len(vs)
      PROVE  /\ Same(d, e, vs, i) /\ End(d, vs[i]) <= Len(e)
             /\ vs[i].msg # "none" => vs[i].off + 1 < Len(e)
  <2>1. /\ End(d, vs[i]) \in Nat /\ vs[i].off \in Nat /\ vs[i].off < End(d, vs[i])
        /\ End(d, vs[i]) <= o
    BY <1>1, Inside, OnTop
  <2>2. vs[i].off + 1 \in 1 .. o
    BY <2>1
  <2>3. e[vs[i].off + 1] = d[vs[i].off + 1]
    BY <1>2, <2>2
  <2>4. End(d, vs[i]) <= Len(e)
    BY <1>3, <2>1
  <2>5. QED
    BY <2>3, <2>4 DEF Same
<1>5. QED
  BY <1>4, Agreeing

\* A view of what follows is put on top.
LEMMA NewView ==
  ASSUME NEW d, NEW vs, Typed(d, vs), Linked(d, vs), NEW view \in ViewOf,
         view.msg # "none" => view.k \in Icmps /\ view.msg \in Messages(view.k),
         TopKind(vs) \in Envelopes(view.k), view.off = PayloadOffset(d, vs),
         End(d, view) <= Len(d),
         vs # <<>> => d[Last(vs).off + 1].next = view.k,
         view.k = "Srh" => /\ view.segs = d[view.off + 1].len + 1
                           /\ d[view.off + 1].ext = 2 * view.segs,
         view.msg # "none" => d[view.off + 1].next = view.msg /\ view.off + 1 < Len(d)
  PROVE  Typed(d, Append(vs, view)) /\ Linked(d, Append(vs, view))
<1>1. PICK ws : ws = Append(vs, view)
  OBVIOUS
<1>2. /\ ws \in Seq(ViewOf) /\ Len(ws) = Len(vs) + 1 /\ ws[Len(vs) + 1] = view
      /\ \A i \in 1 .. Len(vs) : ws[i] = vs[i]
      /\ Len(vs) \in Nat
  BY <1>1, Added DEF Typed
<1>3. \A i \in 1 .. Len(ws) : i \in 1 .. Len(vs) \/ i = Len(vs) + 1
  BY <1>2
<1>4. Typed(d, ws)
  BY <1>2, <1>3 DEF Typed
<1>5. ASSUME NEW i \in 1 .. Len(vs) PROVE LinkedAt(d, ws, i)
  <2>1. LinkedAt(d, vs, i) /\ ws[i] = vs[i] /\ (i > 1 => ws[i - 1] = vs[i - 1])
    BY <1>2 DEF Linked
  <2>2. QED
    BY <2>1 DEF LinkedAt
<1>6. LinkedAt(d, ws, Len(vs) + 1)
  <2>1. CASE vs = <<>>
    <3>1. TopKind(vs) = "Mbuf" /\ view.off = 0 /\ Len(vs) = 0 /\ view.k \in Kinds
      BY <2>1, OnTop DEF ViewOf
    <3>2. view.k = "Ethernet"
      BY <3>1, EnvelopesAre
    <3>3. QED
      BY <1>2, <3>1, <3>2 DEF LinkedAt
  <2>2. CASE vs # <<>>
    <3>1. /\ Len(vs) \in 1 .. Len(vs) /\ Last(vs) = vs[Len(vs)]
          /\ view.off = End(d, vs[Len(vs)]) /\ TopKind(vs) = vs[Len(vs)].k
      BY <2>2, OnTop
    <3>2. /\ ws[Len(vs) + 1] = view /\ ws[Len(vs)] = vs[Len(vs)]
          /\ Len(vs) + 1 - 1 = Len(vs) /\ Len(vs) + 1 > 1 /\ Len(vs) + 1 # 1
      BY <1>2, <3>1
    <3>3. QED
      BY <2>2, <3>1, <3>2 DEF LinkedAt
  <2>3. QED
    BY <2>1, <2>2
<1>7. ASSUME NEW i \in 1 .. Len(ws), NEW j \in 1 .. Len(ws), i < j
      PROVE  End(d, ws[i]) <= ws[j].off
  <2>1. i \in 1 .. Len(vs) /\ ws[i] = vs[i]
    BY <1>2, <1>7
  <2>2. CASE j \in 1 .. Len(vs)
    BY <1>2, <1>7, <2>1, <2>2 DEF Linked
  <2>3. CASE j = Len(vs) + 1
    BY <1>2, <2>1, <2>3, OnTop
  <2>4. QED
    BY <1>3, <2>2, <2>3
<1>8. QED
  BY <1>1, <1>2, <1>3, <1>4, <1>5, <1>6, <1>7 DEF Linked

\* The top view of a stack that is not empty, and the stack below.
LEMMA Below ==
  ASSUME NEW d, NEW vs, Typed(d, vs), Linked(d, vs), vs # <<>>
  PROVE  /\ Typed(d, Front(vs)) /\ Linked(d, Front(vs))
         /\ Len(Front(vs)) = Len(vs) - 1 /\ Len(vs) - 1 \in Nat
         /\ \A i \in 1 .. Len(vs) - 1 : Front(vs)[i] = vs[i] /\ i \in 1 .. Len(vs) /\ i < Len(vs)
         /\ PayloadOffset(d, Front(vs)) = Last(vs).off
         /\ TopKind(Front(vs)) \in Envelopes(Last(vs).k)
         /\ Front(vs) # <<>> => /\ d[Last(Front(vs)).off + 1].next = Last(vs).k
                                /\ Last(Front(vs)) = vs[Len(vs) - 1]
<1>1. /\ Len(vs) \in Nat \ {0} /\ Last(vs) = vs[Len(vs)] /\ Len(vs) \in 1 .. Len(vs)
      /\ Front(vs) = SubSeq(vs, 1, Len(vs) - 1) /\ Len(vs) - 1 \in 0 .. Len(vs)
  BY LastFront DEF Typed
<1>2. /\ Len(Front(vs)) = Len(vs) - 1
      /\ \A i \in 1 .. Len(vs) - 1 : Front(vs)[i] = vs[i] /\ i \in 1 .. Len(vs) /\ i < Len(vs)
  <2>1. vs \in Seq(ViewOf)
    BY DEF Typed
  <2>2. PICK n \in 0 .. Len(vs) : n = Len(vs) - 1
    BY <1>1
  <2>3. Len(SubSeq(vs, 1, n)) = n /\ \A i \in 1 .. n : SubSeq(vs, 1, n)[i] = vs[i]
    BY <2>1, FirstOf
  <2>4. \A i \in 1 .. n : i \in 1 .. Len(vs) /\ i < Len(vs)
    BY <1>1, <2>2
  <2>5. QED
    BY <1>1, <2>2, <2>3, <2>4
<1>3. Typed(d, Front(vs)) /\ Linked(d, Front(vs))
  BY <1>1, Prefix
<1>4. LinkedAt(d, vs, Len(vs)) /\ Last(vs).k \in Kinds
  <2>1. Last(vs) \in ViewOf
    BY <1>1, Inside
  <2>2. Last(vs).k \in Kinds
    BY <2>1 DEF ViewOf
  <2>3. QED
    BY <1>1, <2>2 DEF Linked
<1>5. CASE Front(vs) = <<>>
  <2>1. Len(vs) = 1
    <3>1. Len(Front(vs)) = 0
      BY <1>5
    <3>2. QED
      BY <1>1, <1>2, <3>1
  <2>2. Last(vs).k = "Ethernet" /\ Last(vs).off = 0
    BY <1>1, <1>4, <2>1 DEF LinkedAt
  <2>3. PayloadOffset(d, Front(vs)) = 0 /\ TopKind(Front(vs)) = "Mbuf"
    BY <1>3, <1>5, OnTop
  <2>4. "Mbuf" \in Envelopes("Ethernet")
    BY EnvelopesAre DEF Kinds
  <2>5. QED
    BY <1>1, <1>2, <1>3, <1>5, <2>2, <2>3, <2>4
<1>6. CASE Front(vs) # <<>>
  <2>1. Len(vs) - 1 \in 1 .. Len(vs) - 1 /\ Len(vs) > 1
    BY <1>1, <1>2, <1>3, <1>6 DEF Typed
  <2>2. /\ Last(Front(vs)) = vs[Len(vs) - 1] /\ TopKind(Front(vs)) = vs[Len(vs) - 1].k
        /\ PayloadOffset(d, Front(vs)) = End(d, vs[Len(vs) - 1])
    BY <1>2, <1>3, <1>6, <2>1, OnTop
  <2>3. QED
    BY <1>1, <1>2, <1>3, <1>4, <2>1, <2>2 DEF LinkedAt
<1>7. QED
  BY <1>5, <1>6

\* No view below another is of a message.
LEMMA NoneBelow ==
  ASSUME NEW d, NEW vs, Typed(d, vs), Linked(d, vs), vs # <<>>
  PROVE  \A i \in 1 .. Len(Front(vs)) : Front(vs)[i].msg = "none"
<1>1. Len(Front(vs)) = Len(vs) - 1
  BY Below
<1>2. ASSUME NEW i \in 1 .. Len(vs) - 1 PROVE Front(vs)[i].msg = "none"
  <2>1. Front(vs)[i] = vs[i] /\ i \in 1 .. Len(vs) /\ i < Len(vs)
    BY Below
  <2>2. QED
    BY <2>1, Stack
<1>3. QED
  BY <1>1, <1>2

-----------------------------------------------------------------------------
(* The buffer *)

\* Cells are put into a packet.
LEMMA InsertIs ==
  ASSUME NEW d \in Seq(Cell), NEW o \in 0 .. Len(d), NEW new \in Seq(Cell)
  PROVE  /\ Insert(d, o, new) \in Seq(Cell) /\ Len(Insert(d, o, new)) = Len(d) + Len(new)
         /\ \A i \in 1 .. o : Insert(d, o, new)[i] = d[i]
         /\ \A i \in 1 .. Len(new) : Insert(d, o, new)[o + i] = new[i]
         /\ \A i \in 1 .. Len(d) - o : Insert(d, o, new)[o + Len(new) + i] = d[o + i]
<1>1. PICK s \in Seq(Cell) : s = SubSeq(d, 1, o)
  BY FirstOf
<1>2. Len(s) = o /\ \A i \in 1 .. o : s[i] = d[i]
  BY <1>1, FirstOf
<1>3. PICK r \in Seq(Cell) : r = From(d, o)
  BY RestOf
<1>4. Len(r) = Len(d) - o /\ \A i \in 1 .. Len(d) - o : r[i] = d[o + i]
  BY <1>3, RestOf
<1>5. PICK t \in Seq(Cell) : t = s \o new
  BY Joined
<1>6. /\ Len(t) = o + Len(new) /\ \A i \in 1 .. o : t[i] = s[i]
      /\ \A i \in 1 .. Len(new) : t[o + i] = new[i]
  <2>1. /\ Len(t) = Len(s) + Len(new) /\ \A i \in 1 .. Len(s) : t[i] = s[i]
        /\ \A i \in 1 .. Len(new) : t[Len(s) + i] = new[i]
    BY <1>5, Joined
  <2>2. QED
    BY <1>2, <2>1
<1>7. PICK u \in Seq(Cell) : u = t \o r
  BY Joined
<1>8. /\ Len(u) = Len(t) + Len(r) /\ \A i \in 1 .. Len(t) : u[i] = t[i]
      /\ \A i \in 1 .. Len(r) : u[Len(t) + i] = r[i]
  BY <1>7, Joined
<1>9. Insert(d, o, new) = u
  BY <1>1, <1>3, <1>5, <1>7 DEF Insert
<1>10. o \in Nat /\ Len(new) \in Nat /\ Len(d) \in Nat /\ o <= Len(d)
  OBVIOUS
<1>11. \A i \in 1 .. o : u[i] = d[i]
  BY <1>2, <1>6, <1>8, <1>10
<1>12. \A i \in 1 .. Len(new) : u[o + i] = new[i]
  <2>1. \A i \in 1 .. Len(new) : o + i \in 1 .. Len(t)
    BY <1>6, <1>10
  <2>2. QED
    BY <1>6, <1>8, <2>1
<1>13. \A i \in 1 .. Len(d) - o : u[o + Len(new) + i] = d[o + i]
  BY <1>4, <1>6, <1>8
<1>14. Len(u) = Len(d) + Len(new)
  BY <1>4, <1>6, <1>8, <1>10
<1>15. QED
  BY <1>9, <1>11, <1>12, <1>13, <1>14

\* Cells are taken out of it.
LEMMA DeleteIs ==
  ASSUME NEW d \in Seq(Cell), NEW o \in Nat, NEW n \in Nat, o + n <= Len(d)
  PROVE  /\ Delete(d, o, n) \in Seq(Cell) /\ Len(Delete(d, o, n)) = Len(d) - n
         /\ \A i \in 1 .. o : Delete(d, o, n)[i] = d[i]
         /\ \A i \in 1 .. Len(d) - (o + n) : Delete(d, o, n)[o + i] = d[o + n + i]
<1>1. o \in 0 .. Len(d) /\ o + n \in 0 .. Len(d) /\ Len(d) \in Nat
  OBVIOUS
<1>2. PICK s \in Seq(Cell) : s = SubSeq(d, 1, o)
  BY <1>1, FirstOf
<1>3. Len(s) = o /\ \A i \in 1 .. o : s[i] = d[i]
  BY <1>1, <1>2, FirstOf
<1>4. PICK r \in Seq(Cell) : r = From(d, o + n)
  BY <1>1, RestOf
<1>5. /\ Len(r) = Len(d) - (o + n)
      /\ \A i \in 1 .. Len(d) - (o + n) : r[i] = d[o + n + i]
  BY <1>1, <1>4, RestOf
<1>6. PICK u \in Seq(Cell) : u = s \o r
  BY Joined
<1>7. /\ Len(u) = Len(s) + Len(r) /\ \A i \in 1 .. Len(s) : u[i] = s[i]
      /\ \A i \in 1 .. Len(r) : u[Len(s) + i] = r[i]
  BY <1>6, Joined
<1>8. Delete(d, o, n) = u
  BY <1>2, <1>4, <1>6 DEF Delete
<1>9. Len(u) = Len(d) - n
  BY <1>1, <1>3, <1>5, <1>7
<1>10. \A i \in 1 .. o : u[i] = d[i]
  BY <1>3, <1>7
<1>11. \A i \in 1 .. Len(d) - (o + n) : u[o + i] = d[o + n + i]
  BY <1>3, <1>5, <1>7
<1>12. QED
  BY <1>6, <1>8, <1>9, <1>10, <1>11

\* It is cut.
LEMMA TruncateIs ==
  ASSUME NEW d \in Seq(Cell), NEW n \in Nat
  PROVE  /\ Truncate(d, n) \in Seq(Cell)
         /\ Len(Truncate(d, n)) = IF n < Len(d) THEN n ELSE Len(d)
         /\ \A i \in 1 .. Len(Truncate(d, n)) : Truncate(d, n)[i] = d[i]
<1>1. CASE n < Len(d)
  <2>1. n \in 0 .. Len(d) /\ Truncate(d, n) = SubSeq(d, 1, n)
    BY <1>1 DEF Truncate
  <2>2. QED
    BY <1>1, <2>1, FirstOf
<1>2. CASE ~(n < Len(d))
  BY <1>2 DEF Truncate
<1>3. QED
  BY <1>1, <1>2

\* A header is written: it is one cell.
LEMMA SetHeaderIs ==
  ASSUME NEW d \in Seq(Cell), NEW view, view.off + 1 \in 1 .. Len(d), NEW cell \in Cell
  PROVE  /\ SetHeader(d, view, cell) \in Seq(Cell) /\ Len(SetHeader(d, view, cell)) = Len(d)
         /\ \A i \in 1 .. Len(d) :
              SetHeader(d, view, cell)[i] = IF i = view.off + 1 THEN cell ELSE d[i]
BY Written DEF SetHeader

\* Its field that names the next header is written.
LEMMA SetNextIs ==
  ASSUME NEW d \in Seq(Cell), NEW view, view.off + 1 \in 1 .. Len(d), NEW k \in DOMAIN Number
  PROVE  /\ SetNext(d, view, k) \in Seq(Cell) /\ Len(SetNext(d, view, k)) = Len(d)
         /\ \A i \in 1 .. Len(d) : i # view.off + 1 => SetNext(d, view, k)[i] = d[i]
         /\ SetNext(d, view, k)[view.off + 1] = [d[view.off + 1] EXCEPT !.next = k]
<1>1. d[view.off + 1] \in Cell
  OBVIOUS
<1>2. [d[view.off + 1] EXCEPT !.next = k] \in Cell
  BY <1>1 DEF Cell
<1>3. SetNext(d, view, k) = [d EXCEPT ![view.off + 1] = [d[view.off + 1] EXCEPT !.next = k]]
  BY DEF SetNext
<1>4. QED
  BY <1>2, <1>3, Written

\* The cells of new headers.
LEMMA Blanks ==
  /\ ({"none"} \union Kinds \union Errors \union {"EchoRequest"}) \ {"Ethernet"}
       \subseteq DOMAIN Number
  /\ \A next \in DOMAIN Number : [Blank EXCEPT !.next = next] \in Cell
  /\ \A w \in Word : [Blank EXCEPT !.v = w] \in Cell
  /\ Blank \in Cell /\ Octets \in Cell
<1>1. 0 \in Word /\ 1 \in Word
  BY WordFacts DEF Word
<1>2. ({"none"} \union Kinds \union Errors \union {"EchoRequest"}) \ {"Ethernet"}
        \subseteq DOMAIN Number
  <2>1. {"none", "Ipv4", "Ipv6", "Srh", "Fragment", "Udp", "Tcp", "Icmpv4", "Icmpv6",
         "EchoRequest", "TimeExceeded", "PacketTooBig"} \subseteq DOMAIN Number
    BY PacketsAssumption
  <2>2. QED
    BY <2>1 DEF Kinds, Errors
<1>3. "none" \in DOMAIN Number
  BY <1>2
<1>4. Blank \in Cell
  BY <1>1, <1>3 DEF Blank, Cell
<1>5. \A next \in DOMAIN Number : [Blank EXCEPT !.next = next] \in Cell
  BY <1>4 DEF Cell
<1>6. \A w \in Word : [Blank EXCEPT !.v = w] \in Cell
  BY <1>4 DEF Cell
<1>7. Octets \in Cell
  BY <1>1, <1>6 DEF Octets
<1>8. QED
  BY <1>2, <1>4, <1>5, <1>6, <1>7

-----------------------------------------------------------------------------
(* The operations that move views *)

\* A buffer that is freed has no views.
LEMMA FreeGood == ASSUME Good, NEW v, Free(v) PROVE Good'
<1>1. Len(data) \in Nat /\ Len(views) \in Nat /\ ViewsMax \in Nat /\ Room \in Nat
  BY PacketsAssumption, Inside DEF Good
<1>2. Len(data) < Room /\ Len(views) <= ViewsMax
  BY DEF Good
<1>3. data' = <<>> /\ views' = <<>> /\ Len(<<>>) = 0
  BY DEF Free
<1>4. Typed(<<>>, <<>>) /\ Linked(<<>>, <<>>)
  BY DEF Typed, Linked
<1>5. QED
  BY <1>1, <1>2, <1>3, <1>4 DEF Good

\* A call that leaves the packet alone keeps it good.
LEMMA KeepGood == ASSUME Good, UNCHANGED <<data, views>> PROVE Good'
BY DEF Good

\* What can be parsed makes a view that is in its place.
LEMMA Parsed ==
  ASSUME NEW d, NEW vs, Typed(d, vs), Linked(d, vs), NEW k \in Kinds, NEW msg,
         msg # "none" => k \in Icmps /\ msg \in Messages(k),
         TopKind(vs) \in Envelopes(k), CanParse(d, vs, k, msg)
  PROVE  LET view == View(d, k, msg, PayloadOffset(d, vs))
         IN  Typed(d, Append(vs, view)) /\ Linked(d, Append(vs, view))
<1>1. PICK o : o = PayloadOffset(d, vs)
  OBVIOUS
<1>2. PICK view : view = View(d, k, msg, o)
  OBVIOUS
<1>3. o \in Nat /\ o < Len(d) /\ Len(d) \in Nat
  BY <1>1, OnTop, Inside DEF CanParse
<1>4. o + 1 \in 1 .. Len(d) /\ d[o + 1] \in Cell
  BY <1>3 DEF Typed
<1>5. d[o + 1].len \in Nat
  BY <1>4, WordFacts DEF Cell
<1>6. msg \in {"none", "EchoRequest", "TimeExceeded", "PacketTooBig"}
  BY DEF Messages
<1>7. /\ view.k = k /\ view.msg = msg /\ view.off = o
      /\ k = "Srh" => view.segs = d[o + 1].len + 1
      /\ view \in ViewOf
  BY <1>2, <1>3, <1>5, <1>6 DEF View, ViewOf, At
<1>8. End(d, view) <= Len(d)
  <2>1. CASE k = "Ethernet"
    <3>1. vs = <<>>
      <4>1. SUFFICES ASSUME vs # <<>> PROVE FALSE
        OBVIOUS
      <4>2. Len(vs) \in 1 .. Len(vs) /\ TopKind(vs) = vs[Len(vs)].k
        BY <4>1, OnTop
      <4>3. vs[Len(vs)].k \in Kinds
        BY <4>2, Inside DEF ViewOf
      <4>4. "Ethernet" \in Kinds /\ TopKind(vs) \in Envelopes("Ethernet")
        BY <2>1
      <4>5. TopKind(vs) = "Mbuf"
        BY <4>4, EnvelopesAre
      <4>6. QED
        BY <4>2, <4>3, <4>5 DEF Kinds
    <3>2. o = 0
      BY <1>1, <3>1, OnTop
    <3>3. Len(d) >= 1 + Tags(d[o + 1])
      BY <1>1, <2>1 DEF CanParse, At
    <3>4. End(d, view) = o + (1 + Tags(d[o + 1]))
      BY <1>7, <2>1, Lengths
    <3>5. Tags(d[o + 1]) \in Nat
      BY DEF Tags
    <3>6. QED
      BY <1>3, <3>2, <3>3, <3>4, <3>5
  <2>2. CASE k = "Srh"
    <3>1. o + 1 + d[o + 1].len + 1 <= Len(d)
      BY <1>1, <2>2 DEF CanParse, SegmentsFit, At
    <3>2. End(d, view) = o + (1 + (d[o + 1].len + 1))
      BY <1>7, <2>2, Lengths
    <3>3. QED
      BY <1>3, <1>5, <3>1, <3>2
  <2>3. CASE k \notin {"Ethernet", "Srh"}
    <3>1. End(d, view) = o + 1
      BY <1>7, <2>3, Lengths
    <3>2. QED
      BY <1>3, <3>1
  <2>4. QED
    BY <2>1, <2>2, <2>3
<1>9. vs # <<>> => d[Last(vs).off + 1].next = k
  <2>1. SUFFICES ASSUME vs # <<>> PROVE d[Last(vs).off + 1].next = k
    OBVIOUS
  <2>2. TopKind(vs) \in Kinds
    BY <2>1, OnTop, Inside DEF ViewOf
  <2>3. k # "Ethernet"
    BY <2>2, EnvelopesAre DEF Kinds
  <2>4. QED
    BY <2>3 DEF CanParse, NextProtocol, Header, At
<1>10. k = "Srh" => d[o + 1].ext = 2 * view.segs
  BY <1>1, <1>7 DEF CanParse, SegmentsFit, At
<1>11. msg # "none" => d[o + 1].next = msg /\ o + 1 < Len(d)
  BY <1>1 DEF CanParse, At
<1>12. Typed(d, Append(vs, view)) /\ Linked(d, Append(vs, view))
  BY <1>1, <1>7, <1>8, <1>9, <1>10, <1>11, NewView
<1>13. QED
  BY <1>1, <1>2, <1>12

\* parse keeps the packet.
LEMMA ParseGood ==
  ASSUME Good, NEW k \in Kinds, NEW msg,
         msg # "none" => k \in Icmps /\ msg \in Messages(k), Parse(k, msg)
  PROVE  Good'
<1>1. Typed(data, views) /\ Linked(data, views) /\ Len(views) \in Nat
  BY Inside DEF Good
<1>2. CASE CanParse(data, views, k, msg)
  <2>1. PICK view : view = View(data, k, msg, PayloadOffset(data, views))
    OBVIOUS
  <2>2. views' = Append(views, view) /\ data' = data /\ Len(views) < ViewsMax
    BY <1>2, <2>1 DEF Parse
  <2>3. Typed(data, Append(views, view)) /\ Linked(data, Append(views, view))
    BY <1>1, <1>2, <2>1, Parsed DEF Parse
  <2>4. Len(Append(views, view)) = Len(views) + 1
    BY <1>1 DEF Typed
  <2>5. Len(views') <= ViewsMax
    BY <1>1, <2>2, <2>4, PacketsAssumption
  <2>6. QED
    BY <2>2, <2>3, <2>5 DEF Good
<1>3. CASE ~CanParse(data, views, k, msg)
  BY <1>3, FreeGood DEF Parse
<1>4. QED
  BY <1>2, <1>3

\* A view that is turned into one of a message stays where it is.
LEMMA DowncastGood ==
  ASSUME Good, NEW msg, Downcast(msg)
  PROVE  Good'
<1>1. /\ Typed(data, views) /\ Linked(data, views) /\ Len(views) \in Nat
      /\ views # <<>> /\ TopKind(views) \in Icmps /\ msg \in Messages(TopKind(views))
      /\ TopKind(views) = Last(views).k
  <2>1. views # <<>>
    BY DEF Downcast, TopKind, Icmps
  <2>2. QED
    BY <2>1, Inside DEF Good, Downcast, TopKind
<1>2. CASE CanParse(data, Front(views), TopKind(views), msg)
  <2>1. PICK n \in 1 .. Len(views) : n = Len(views) /\ Last(views) = views[n]
    BY <1>1, OnTop
  <2>2. PICK k : k = TopKind(views) /\ k = views[n].k /\ k \in Icmps /\ msg \in Messages(k)
    BY <1>1, <2>1
  <2>3. views[n] \in ViewOf /\ k \in Kinds
    BY <1>1, <2>2, Inside DEF ViewOf
  <2>4. PICK view : view = [views[n] EXCEPT !.msg = msg]
    OBVIOUS
  <2>5. /\ view \in ViewOf /\ view.k = k /\ view.msg = msg /\ view.off = views[n].off
        /\ view.segs = views[n].segs
    BY <2>2, <2>3, <2>4 DEF ViewOf, Messages
  <2>6. views' = [views EXCEPT ![n] = view] /\ data' = data
    BY <1>2, <2>1, <2>4 DEF Downcast
  <2>7. data[view.off + 1].next = msg /\ view.off + 1 < Len(data)
    <3>1. PayloadOffset(data, Front(views)) = view.off
      BY <1>1, <2>1, <2>5, Below
    <3>2. msg # "none"
      BY <2>2 DEF Messages
    <3>3. QED
      BY <1>2, <3>1, <3>2 DEF CanParse, At
  <2>8. /\ views' \in Seq(ViewOf) /\ Len(views') = Len(views)
        /\ \A i \in 1 .. Len(views) : views'[i] = IF i = n THEN view ELSE views[i]
    BY <1>1, <2>5, <2>6, Written DEF Typed
  <2>9. Typed(data, views')
    BY <1>1, <2>2, <2>5, <2>8 DEF Typed
  <2>10. \A i \in 1 .. Len(views) : End(data, views'[i]) = End(data, views[i])
    BY <2>2, <2>5, <2>8 DEF End, HeaderLen
  <2>11. ASSUME NEW i \in 1 .. Len(views) PROVE LinkedAt(data, views', i)
    <3>1. LinkedAt(data, views, i)
      BY <1>1 DEF Linked
    <3>2. /\ views'[i].k = views[i].k /\ views'[i].off = views[i].off
          /\ views'[i].segs = views[i].segs
          /\ i # n => views'[i].msg = views[i].msg
      BY <2>2, <2>5, <2>8
    <3>3. i > 1 => /\ i - 1 \in 1 .. Len(views) /\ views'[i - 1] = views[i - 1]
      BY <1>1, <2>1, <2>8
    <3>4. views'[i].msg # "none" =>
            data[views'[i].off + 1].next = views'[i].msg /\ views'[i].off + 1 < Len(data)
      BY <2>5, <2>7, <2>8, <3>1 DEF LinkedAt
    <3>5. QED
      BY <2>10, <3>1, <3>2, <3>3, <3>4 DEF LinkedAt
  <2>12. \A i, j \in 1 .. Len(views) : i < j => End(data, views'[i]) <= views'[j].off
    BY <1>1, <2>5, <2>8, <2>10 DEF Linked
  <2>13. Linked(data, views')
    BY <2>8, <2>11, <2>12 DEF Linked
  <2>14. QED
    BY <2>6, <2>8, <2>9, <2>13 DEF Good
<1>3. CASE ~CanParse(data, Front(views), TopKind(views), msg)
  BY <1>3, FreeGood DEF Downcast
<1>4. QED
  BY <1>2, <1>3

\* deparse and reset drop views.
LEMMA DeparseGood ==
  ASSUME Good, Deparse \/ Reset
  PROVE  Good'
<1>1. Typed(data, views) /\ Linked(data, views) /\ views # <<>> /\ data' = data
  BY DEF Good, Deparse, Reset
<1>2. CASE Deparse
  <2>1. views' = Front(views)
    BY <1>2 DEF Deparse
  <2>2. /\ Typed(data, Front(views)) /\ Linked(data, Front(views))
        /\ Len(Front(views)) = Len(views) - 1 /\ Len(views) - 1 \in Nat
    BY <1>1, Below
  <2>3. Len(views') <= ViewsMax
    BY <2>1, <2>2, PacketsAssumption DEF Good
  <2>4. QED
    BY <1>1, <2>1, <2>2, <2>3 DEF Good
<1>3. CASE Reset
  <2>1. views' = <<>> /\ Len(<<>>) = 0
    BY <1>3 DEF Reset
  <2>2. Typed(data, <<>>) /\ Linked(data, <<>>)
    BY <1>1 DEF Typed, Linked
  <2>3. QED
    BY <1>1, <2>1, <2>2, PacketsAssumption DEF Good
<1>4. QED
  BY <1>2, <1>3

-----------------------------------------------------------------------------
(* The operations that resize the packet *)

\* The cells of a new header, and that they are a header in its place.
LEMMA NewCells ==
  ASSUME NEW k \in Kinds, NEW msg, msg # "none" => k \in Icmps /\ msg \in Messages(k),
         k \in Icmps => msg # "none", NEW next \in DOMAIN Number
  PROVE  LET new == New(k, msg, next)
         IN  /\ new \in Seq(Cell) /\ Len(new) \in {1, 2}
             /\ k = "Srh" => Len(new) = 2 /\ new[1].len = 0 /\ new[1].ext = 2
             /\ k \in Icmps => Len(new) = 2 /\ new[1].next = msg
             /\ k = "Ethernet" => Tags(new[1]) = 0
<1>1. 2 \in Word
  BY WordFacts DEF Word
<1>2. Blank \in Cell /\ [Blank EXCEPT !.next = next] \in Cell
  BY Blanks
<1>3. CASE k = "Srh"
  <2>1. PICK c : c = [Blank EXCEPT !.next = next, !.ext = 2]
    OBVIOUS
  <2>2. c \in Cell /\ c.len = 0 /\ c.ext = 2
    BY <1>1, <1>2, <2>1 DEF Cell, Blank
  <2>3. New(k, msg, next) = <<c, Blank>> /\ k \notin Icmps
    BY <1>3, <2>1 DEF New, Icmps
  <2>4. <<c, Blank>> \in Seq(Cell) /\ Len(<<c, Blank>>) = 2 /\ <<c, Blank>>[1] = c
    BY <1>2, <2>2
  <2>5. QED
    BY <1>3, <2>2, <2>3, <2>4
<1>4. CASE k \in Icmps
  <2>1. msg \in DOMAIN Number
    BY <1>4, Blanks DEF Messages, Errors
  <2>2. PICK c : c = [Blank EXCEPT !.next = msg]
    OBVIOUS
  <2>3. c \in Cell /\ c.next = msg
    BY <2>1, <2>2, Blanks DEF Blank
  <2>4. New(k, msg, next) = <<c, Blank>>
    BY <1>4, <2>2 DEF New, Icmps
  <2>5. QED
    BY <1>2, <1>4, <2>3, <2>4 DEF Icmps
<1>5. CASE k = "Fragment"
  <2>1. PICK c \in Cell : c = [Blank EXCEPT !.next = next]
    BY <1>2
  <2>2. New(k, msg, next) = <<c>> /\ k \notin Icmps
    BY <1>5, <2>1 DEF New, Icmps
  <2>3. <<c>> \in Seq(Cell) /\ Len(<<c>>) = 1
    BY <2>1
  <2>4. QED
    BY <1>5, <2>2, <2>3
<1>6. CASE k \notin {"Srh", "Fragment"} /\ k \notin Icmps
  <2>1. New(k, msg, next) = <<Blank>>
    BY <1>6 DEF New
  <2>2. Tags(Blank) = 0
    BY DEF Tags, Blank
  <2>3. QED
    BY <1>2, <1>6, <2>1, <2>2
<1>7. QED
  BY <1>3, <1>4, <1>5, <1>6

\* What a header announces.
LEMMA NextIs ==
  ASSUME NEW d, NEW vs, Typed(d, vs), Linked(d, vs)
  PROVE  /\ vs # <<>> => NextProtocol(d, vs) \in DOMAIN Number
         /\ (IF vs = <<>> THEN "none" ELSE NextProtocol(d, vs)) \in DOMAIN Number
<1>1. vs # <<>> => d[Last(vs).off + 1] \in Cell
  BY OnTop, Inside
<1>2. QED
  BY <1>1, Blanks DEF NextProtocol, Header, At, Cell

\* A header that is told what follows it stays in its place, and so do the others.
LEMMA Announced ==
  ASSUME NEW d, NEW vs, Typed(d, vs), Linked(d, vs), vs # <<>>, Last(vs).msg = "none",
         NEW k \in DOMAIN Number
  PROVE  LET e == SetNext(d, Last(vs), k)
         IN  /\ e \in Seq(Cell) /\ Len(e) = Len(d) /\ Typed(e, vs) /\ Linked(e, vs)
             /\ PayloadOffset(e, vs) = PayloadOffset(d, vs)
             /\ e[Last(vs).off + 1].next = k
             /\ \A i \in PayloadOffset(d, vs) + 1 .. Len(d) : e[i] = d[i]
<1>1. PICK n \in 1 .. Len(vs) : n = Len(vs) /\ Last(vs) = vs[n]
  BY OnTop
<1>2. PICK top : top = vs[n]
  OBVIOUS
<1>3. /\ top \in ViewOf /\ top.off \in Nat /\ top.off + 1 \in 1 .. Len(d)
      /\ d[top.off + 1] \in Cell /\ top.off < End(d, top) /\ End(d, top) \in Nat
      /\ End(d, top) = PayloadOffset(d, vs)
  BY <1>1, <1>2, Inside, OnTop
<1>4. PICK e : e = SetNext(d, top, k)
  OBVIOUS
<1>5. d \in Seq(Cell)
  BY DEF Typed
<1>6. /\ e \in Seq(Cell) /\ Len(e) = Len(d)
      /\ \A i \in 1 .. Len(d) : i # top.off + 1 => e[i] = d[i]
      /\ e[top.off + 1] = [d[top.off + 1] EXCEPT !.next = k]
  BY <1>3, <1>4, <1>5, SetNextIs
<1>7. /\ e[top.off + 1].next = k /\ e[top.off + 1].v = d[top.off + 1].v
      /\ e[top.off + 1].len = d[top.off + 1].len
      /\ e[top.off + 1].ext = d[top.off + 1].ext
  BY <1>3, <1>6 DEF Cell
<1>8. ASSUME NEW i \in 1 .. Len(vs)
      PROVE  /\ Same(d, e, vs, i) /\ End(d, vs[i]) <= Len(e)
             /\ vs[i].msg # "none" => vs[i].off + 1 < Len(e)
  <2>1. End(d, vs[i]) <= Len(e) /\ vs[i].off + 1 \in 1 .. Len(d)
    BY <1>6, Inside
  <2>2. vs[i].msg = "none"
    BY <1>1, <1>2, Stack
  <2>3. CASE i = n
    BY <1>1, <1>2, <1>7, <2>1, <2>2, <2>3 DEF Same
  <2>4. CASE i # n
    <3>1. End(d, vs[i]) <= top.off
      BY <1>1, <1>2, <2>4 DEF Linked
    <3>2. vs[i].off + 1 # top.off + 1
      BY <1>3, <3>1, Inside
    <3>3. e[vs[i].off + 1] = d[vs[i].off + 1]
      BY <1>6, <2>1, <3>2
    <3>4. QED
      BY <2>1, <2>2, <3>3 DEF Same
  <2>5. QED
    BY <2>3, <2>4
<1>9. Typed(e, vs) /\ Linked(e, vs) /\ PayloadOffset(e, vs) = PayloadOffset(d, vs)
  BY <1>6, <1>8, Agreeing
<1>10. \A i \in PayloadOffset(d, vs) + 1 .. Len(d) : e[i] = d[i]
  BY <1>3, <1>6
<1>11. QED
  BY <1>1, <1>2, <1>4, <1>6, <1>7, <1>9, <1>10

\* push puts the new header between its envelope and what was behind it.
Pushed(d, vs, k, msg, next) ==
  LET e == Insert(d, PayloadOffset(d, vs), New(k, msg, next))
  IN  IF vs = <<>> THEN e ELSE SetNext(e, Last(vs), k)

\* The headers below stay where they are, the envelope is told what follows it.
LEMMA PushedIs ==
  ASSUME NEW d, NEW vs, Typed(d, vs), Linked(d, vs), NEW k \in Kinds, NEW msg,
         msg # "none" => k \in Icmps /\ msg \in Messages(k), k \in Icmps => msg # "none",
         TopKind(vs) \in Envelopes(k), NEW next \in DOMAIN Number
  PROVE  LET f == Pushed(d, vs, k, msg, next)
             new == New(k, msg, next)
             o == PayloadOffset(d, vs)
         IN  /\ f \in Seq(Cell) /\ Len(f) = Len(d) + Len(new)
             /\ Typed(f, vs) /\ Linked(f, vs)
             /\ PayloadOffset(f, vs) = o /\ f[o + 1] = new[1]
             /\ vs # <<>> => f[Last(vs).off + 1].next = k
             /\ \A i \in 1 .. Len(d) - o : f[o + Len(new) + i] = d[o + i]
<1>1. /\ Len(vs) \in Nat /\ Len(d) \in Nat /\ d \in Seq(Cell)
  BY Inside DEF Typed
<1>2. PICK o \in 0 .. Len(d) : o = PayloadOffset(d, vs)
  BY <1>1, OnTop
<1>3. PICK new : new = New(k, msg, next)
  OBVIOUS
<1>4. new \in Seq(Cell) /\ Len(new) \in {1, 2}
  BY <1>3, NewCells
<1>5. PICK e : e = Insert(d, o, new)
  OBVIOUS
<1>6. /\ e \in Seq(Cell) /\ Len(e) = Len(d) + Len(new)
      /\ \A i \in 1 .. o : e[i] = d[i]
      /\ \A i \in 1 .. Len(new) : e[o + i] = new[i]
      /\ \A i \in 1 .. Len(d) - o : e[o + Len(new) + i] = d[o + i]
  <2>1. LET g == Insert(d, o, new)
        IN  /\ g \in Seq(Cell) /\ Len(g) = Len(d) + Len(new)
            /\ \A i \in 1 .. o : g[i] = d[i]
            /\ \A i \in 1 .. Len(new) : g[o + i] = new[i]
            /\ \A i \in 1 .. Len(d) - o : g[o + Len(new) + i] = d[o + i]
    BY <1>1, <1>4, InsertIs
  <2>2. QED
    BY <1>5, <2>1
<1>7. e[o + 1] = new[1]
  <2>1. 1 \in 1 .. Len(new)
    <3>1. PICK n : n = Len(new)
      OBVIOUS
    <3>2. n \in {1, 2}
      BY <1>4, <3>1
    <3>3. 1 \in 1 .. n
      BY <3>2
    <3>4. QED
      BY <3>1, <3>3
  <2>2. QED
    BY <1>6, <2>1
<1>8. \A i \in 1 .. Len(vs) : vs[i].msg = "none"
  <2>1. ASSUME NEW i \in 1 .. Len(vs), vs[i].msg # "none" PROVE FALSE
    <3>1. i = Len(vs)
      BY <1>1, <2>1, Stack
    <3>2. TopKind(vs) = vs[i].k
      BY <1>1, <2>1, <3>1, OnTop
    <3>3. TopKind(vs) \in Icmps
      BY <2>1, <3>2 DEF Typed
    <3>4. QED
      BY <3>3, EnvelopesAre DEF Icmps
  <2>2. QED
    BY <2>1
<1>9. Typed(e, vs) /\ Linked(e, vs) /\ PayloadOffset(e, vs) = o
  <2>1. o <= Len(e)
    BY <1>1, <1>4, <1>6
  <2>2. QED
    BY <1>2, <1>6, <1>8, <2>1, Behind
<1>10. PICK f : f = Pushed(d, vs, k, msg, next)
  OBVIOUS
<1>11. f = IF vs = <<>> THEN e ELSE SetNext(e, Last(vs), k)
  BY <1>2, <1>3, <1>5, <1>10 DEF Pushed
<1>12. CASE vs = <<>>
  BY <1>2, <1>3, <1>6, <1>7, <1>9, <1>10, <1>11, <1>12
<1>13. CASE vs # <<>>
  <2>1. k \in DOMAIN Number
    <3>1. TopKind(vs) \in Kinds
      BY <1>13, OnTop, Inside DEF ViewOf
    <3>2. k # "Ethernet"
      BY <3>1, EnvelopesAre DEF Kinds
    <3>3. QED
      BY <3>2, Blanks
  <2>2. Last(vs).msg = "none"
    BY <1>8, <1>13, OnTop
  <2>3. /\ f \in Seq(Cell) /\ Len(f) = Len(e) /\ Typed(f, vs) /\ Linked(f, vs)
        /\ PayloadOffset(f, vs) = o /\ f[Last(vs).off + 1].next = k
        /\ \A i \in o + 1 .. Len(e) : f[i] = e[i]
    <3>1. f = SetNext(e, Last(vs), k)
      BY <1>11, <1>13
    <3>2. QED
      <4>1. LET g == SetNext(e, Last(vs), k)
            IN  /\ g \in Seq(Cell) /\ Len(g) = Len(e) /\ Typed(g, vs) /\ Linked(g, vs)
                /\ PayloadOffset(g, vs) = PayloadOffset(e, vs)
                /\ g[Last(vs).off + 1].next = k
                /\ \A i \in PayloadOffset(e, vs) + 1 .. Len(e) : g[i] = e[i]
        BY <1>9, <1>13, <2>1, <2>2, Announced
      <4>2. QED
        BY <1>9, <3>1, <4>1
  <2>4. PICK l \in Nat, m \in Nat :
          l > 0 /\ l = Len(new) /\ o \in Nat /\ m = Len(d) - o /\ Len(e) = o + l + m
    <3>1. Len(new) \in Nat /\ Len(new) > 0
      <4>1. Len(new) = 1 \/ Len(new) = 2
        BY <1>4
      <4>2. QED
        BY <4>1
    <3>2. o \in Nat /\ Len(d) - o \in Nat
      <4>1. Len(d) \in Nat
        BY <1>1
      <4>2. QED
        BY <4>1
    <3>3. Len(e) = o + Len(new) + (Len(d) - o)
      BY <1>1, <1>6, <3>1, <3>2
    <3>4. QED
      BY <3>1, <3>2, <3>3
  <2>5. f[o + 1] = new[1]
    <3>1. o + 1 \in o + 1 .. Len(e)
      BY <2>4
    <3>2. QED
      BY <1>7, <2>3, <3>1
  <2>6. \A i \in 1 .. m : f[o + l + i] = d[o + i]
    <3>1. \A i \in 1 .. m : o + l + i \in o + 1 .. Len(e)
      BY <2>4
    <3>2. QED
      BY <1>6, <2>3, <2>4, <3>1
  <2>7. QED
    BY <1>2, <1>3, <1>6, <1>10, <2>3, <2>4, <2>5, <2>6
<1>14. QED
  BY <1>12, <1>13

\* The view of a header that was pushed is in its place.
LEMMA PushGood ==
  ASSUME Good, NEW k \in Kinds, NEW msg,
         msg # "none" => k \in Icmps /\ msg \in Messages(k), Push(k, msg)
  PROVE  Good'
<1>1. /\ Typed(data, views) /\ Linked(data, views) /\ Len(views) \in Nat
      /\ Len(data) \in Nat /\ data \in Seq(Cell) /\ Room \in Nat
  BY Inside, PacketsAssumption DEF Good, Typed
<1>2. PICK o \in 0 .. Len(data) : o = PayloadOffset(data, views)
  BY <1>1, OnTop
<1>3. PICK next : next = IF views = <<>> THEN "none" ELSE NextProtocol(data, views)
  OBVIOUS
<1>4. next \in DOMAIN Number
  BY <1>1, <1>3, NextIs
<1>5. PICK new : new = New(k, msg, next)
  OBVIOUS
<1>6. TopKind(views) \in Envelopes(k) /\ Len(views) < ViewsMax
  BY DEF Push
<1>7. CASE (k \notin Icmps \/ msg # "none") /\ CanExtend(data, Len(new))
  <2>1. /\ new \in Seq(Cell) /\ Len(new) \in {1, 2}
        /\ k = "Srh" => Len(new) = 2 /\ new[1].len = 0 /\ new[1].ext = 2
        /\ k \in Icmps => Len(new) = 2 /\ new[1].next = msg
        /\ k = "Ethernet" => Tags(new[1]) = 0
    BY <1>4, <1>5, <1>7, NewCells
  <2>2. PICK f : f = Pushed(data, views, k, msg, next)
    OBVIOUS
  <2>3. /\ f \in Seq(Cell) /\ Len(f) = Len(data) + Len(new) /\ Typed(f, views)
        /\ Linked(f, views) /\ PayloadOffset(f, views) = o /\ f[o + 1] = new[1]
        /\ views # <<>> => f[Last(views).off + 1].next = k
    <3>1. LET g == Pushed(data, views, k, msg, next)
              cells == New(k, msg, next)
              p == PayloadOffset(data, views)
          IN  /\ g \in Seq(Cell) /\ Len(g) = Len(data) + Len(cells) /\ Typed(g, views)
              /\ Linked(g, views) /\ PayloadOffset(g, views) = p /\ g[p + 1] = cells[1]
              /\ views # <<>> => g[Last(views).off + 1].next = k
      BY <1>1, <1>4, <1>6, <1>7, PushedIs
    <3>2. QED
      BY <1>2, <1>5, <2>2, <3>1
  <2>4. Len(f) < Room
    BY <1>1, <1>7, <2>1, <2>3 DEF CanExtend
  <2>5. data' = f /\ views' = Append(views, View(f, k, msg, o))
    <3>1. data' = f
      BY <1>2, <1>3, <1>5, <1>7, <2>2 DEF Push, Pushed
    <3>2. views' = Append(views, View(data', k, msg, o))
      BY <1>2, <1>3, <1>5, <1>7 DEF Push
    <3>3. QED
      BY <3>1, <3>2
  <2>6. PICK view : view = View(f, k, msg, o)
    OBVIOUS
  <2>7. /\ view.k = k /\ view.msg = msg /\ view.off = o
        /\ k = "Srh" => view.segs = 1
        /\ view \in ViewOf
    <3>1. msg \in {"none", "EchoRequest", "TimeExceeded", "PacketTooBig"}
      BY DEF Messages
    <3>2. k = "Srh" => f[o + 1].len + 1 = 1
      BY <2>1, <2>3
    <3>3. QED
      BY <2>6, <3>1, <3>2 DEF View, ViewOf, At
  <2>8. End(f, view) <= Len(f)
    <3>1. CASE k = "Srh"
      <4>1. End(f, view) = o + 2
        BY <2>7, <3>1, Lengths
      <4>2. Len(f) = Len(data) + 2
        BY <2>1, <2>3, <3>1
      <4>3. QED
        BY <1>1, <4>1, <4>2
    <3>2. CASE k # "Srh"
      <4>1. Tags(f[o + 1]) = 0 \/ k # "Ethernet"
        BY <2>1, <2>3
      <4>2. HeaderLen(f, view) = 1
        BY <2>7, <3>2, <4>1, Lengths
      <4>3. End(f, view) = o + 1
        BY <2>7, <4>2 DEF End
      <4>4. QED
        BY <1>1, <2>1, <2>3, <4>3
    <3>3. QED
      BY <3>1, <3>2
  <2>9. msg # "none" => f[o + 1].next = msg /\ o + 1 < Len(f)
    <3>1. SUFFICES ASSUME msg # "none" PROVE f[o + 1].next = msg /\ o + 1 < Len(f)
      OBVIOUS
    <3>2. new[1].next = msg /\ Len(f) = Len(data) + 2
      BY <2>1, <2>3, <3>1
    <3>3. QED
      BY <1>1, <2>3, <3>2
  <2>10. k = "Srh" => view.segs = f[o + 1].len + 1 /\ f[o + 1].ext = 2 * view.segs
    BY <2>1, <2>3, <2>7
  <2>11. Typed(f, Append(views, view)) /\ Linked(f, Append(views, view))
    BY <1>6, <2>3, <2>7, <2>8, <2>9, <2>10, NewView
  <2>12. Len(Append(views, view)) = Len(views) + 1
    BY <1>1 DEF Typed
  <2>13. Len(views') <= ViewsMax
    BY <1>1, <1>6, <2>5, <2>6, <2>12, PacketsAssumption
  <2>14. QED
    BY <2>4, <2>5, <2>6, <2>11, <2>13 DEF Good
<1>8. CASE ~((k \notin Icmps \/ msg # "none") /\ CanExtend(data, Len(new)))
  <2>1. Free("err")
    BY <1>3, <1>5, <1>8 DEF Push
  <2>2. QED
    BY <2>1, FreeGood
<1>9. QED
  BY <1>7, <1>8

\* remove takes a header out from behind its envelope's.
Removed(d, vs) ==
  LET top == Last(vs)
      rest == Delete(d, top.off, HeaderLen(d, top))
  IN  IF top.k \in Extensions THEN SetNext(rest, Last(Front(vs)), NextProtocol(d, vs)) ELSE rest

\* The headers below stay where they are, and so does what was behind the header.
LEMMA RemovedIs ==
  ASSUME NEW d, NEW vs, Typed(d, vs), Linked(d, vs), vs # <<>>
  PROVE  LET f == Removed(d, vs)
             o == Last(vs).off
             n == PayloadOffset(d, vs)
         IN  /\ f \in Seq(Cell) /\ Len(f) = Len(d) - (n - o) /\ Len(f) <= Len(d)
             /\ Typed(f, Front(vs)) /\ Linked(f, Front(vs)) /\ PayloadOffset(f, Front(vs)) = o
             /\ Last(vs).k \in Extensions =>
                  NextProtocol(f, Front(vs)) = NextProtocol(d, vs)
             /\ \A i \in 1 .. Len(d) - n : f[o + i] = d[n + i]
<1>1. /\ Len(vs) \in Nat /\ Len(d) \in Nat /\ d \in Seq(Cell)
  BY Inside DEF Typed
<1>2. PICK top : top = Last(vs)
  OBVIOUS
<1>3. top \in ViewOf /\ End(d, top) = PayloadOffset(d, vs) /\ End(d, top) \in 0 .. Len(d)
  BY <1>2, OnTop, Inside
<1>4. PICK o \in Nat, h \in Nat \ {0}, n \in Nat :
        /\ o = top.off /\ h = HeaderLen(d, top) /\ n = o + h /\ n = PayloadOffset(d, vs)
        /\ o + h <= Len(d)
  <2>1. /\ top.off \in Nat /\ HeaderLen(d, top) \in Nat \ {0}
        /\ End(d, top) = top.off + HeaderLen(d, top)
    BY <1>3, Lengths
  <2>2. QED
    BY <1>1, <1>3, <2>1
<1>5. PICK ws : ws = Front(vs)
  OBVIOUS
<1>6. /\ Typed(d, ws) /\ Linked(d, ws) /\ PayloadOffset(d, ws) = o
      /\ TopKind(ws) \in Envelopes(top.k)
  BY <1>2, <1>4, <1>5, Below
<1>7. \A i \in 1 .. Len(ws) : ws[i].msg = "none"
  BY <1>5, NoneBelow
<1>8. PICK e : e = Delete(d, o, h)
  OBVIOUS
<1>9. /\ e \in Seq(Cell) /\ Len(e) = Len(d) - h
      /\ \A i \in 1 .. o : e[i] = d[i]
      /\ \A i \in 1 .. Len(d) - n : e[o + i] = d[n + i]
  <2>1. /\ e \in Seq(Cell) /\ Len(e) = Len(d) - h
        /\ \A i \in 1 .. o : e[i] = d[i]
        /\ \A i \in 1 .. Len(d) - (o + h) : e[o + i] = d[o + h + i]
    <3>1. d \in Seq(Cell) /\ o \in Nat /\ h \in Nat /\ o + h <= Len(d)
      BY <1>1, <1>4
    <3>2. /\ Delete(d, o, h) \in Seq(Cell) /\ Len(Delete(d, o, h)) = Len(d) - h
          /\ \A i \in 1 .. o : Delete(d, o, h)[i] = d[i]
          /\ \A i \in 1 .. Len(d) - (o + h) : Delete(d, o, h)[o + i] = d[o + h + i]
      BY <3>1, DeleteIs
    <3>3. QED
      BY <1>8, <3>2
  <2>2. n = o + h
    BY <1>4
  <2>3. QED
    BY <2>1, <2>2
<1>10. Typed(e, ws) /\ Linked(e, ws) /\ PayloadOffset(e, ws) = o
  <2>1. o <= Len(e)
    BY <1>1, <1>4, <1>9
  <2>2. QED
    BY <1>6, <1>7, <1>9, <2>1, Behind
<1>11. PICK f : f = Removed(d, vs)
  OBVIOUS
<1>12. CASE top.k \in Extensions
  <2>1. PICK next \in DOMAIN Number : next = NextProtocol(d, vs)
    BY NextIs
  <2>2. ws # <<>>
    <3>1. top.k \in Kinds /\ TopKind(ws) # "Mbuf"
      BY <1>6, <1>12, EnvelopesAre DEF Extensions, Kinds
    <3>2. QED
      BY <1>6, <3>1, OnTop
  <2>3. Last(ws).msg = "none"
    BY <1>6, <1>7, <2>2, OnTop
  <2>4. f = SetNext(e, Last(ws), next)
    BY <1>2, <1>4, <1>5, <1>8, <1>11, <1>12, <2>1 DEF Removed
  <2>5. /\ f \in Seq(Cell) /\ Len(f) = Len(e) /\ Typed(f, ws) /\ Linked(f, ws)
        /\ PayloadOffset(f, ws) = o /\ f[Last(ws).off + 1].next = next
        /\ \A i \in o + 1 .. Len(e) : f[i] = e[i]
    BY <1>10, <2>2, <2>3, <2>4, Announced
  <2>6. NextProtocol(f, ws) = next
    BY <2>5 DEF NextProtocol, Header, At
  <2>7. \A i \in 1 .. Len(d) - n : f[o + i] = d[n + i]
    <3>1. \A i \in 1 .. Len(d) - n : o + i \in o + 1 .. Len(e)
      BY <1>1, <1>4, <1>9
    <3>2. QED
      BY <1>9, <2>5, <3>1
  <2>8. Len(f) = Len(d) - (n - o) /\ Len(f) <= Len(d)
    BY <1>1, <1>4, <1>9, <2>5
  <2>9. QED
    BY <1>2, <1>4, <1>5, <1>11, <2>1, <2>5, <2>6, <2>7, <2>8
<1>13. CASE top.k \notin Extensions
  <2>1. f = e
    BY <1>2, <1>4, <1>8, <1>11, <1>13 DEF Removed
  <2>2. Len(e) = Len(d) - (n - o) /\ Len(e) <= Len(d)
    BY <1>1, <1>4, <1>9
  <2>3. QED
    BY <1>2, <1>4, <1>5, <1>9, <1>10, <1>11, <1>13, <2>1, <2>2
<1>14. QED
  BY <1>12, <1>13

\* A header that comes off leaves the others in place.
LEMMA RemoveHeaderGood == ASSUME Good, RemoveHeader PROVE Good'
<1>1. /\ Typed(data, views) /\ Linked(data, views) /\ Len(views) \in Nat
      /\ Len(data) \in Nat /\ Room \in Nat /\ views # <<>>
  BY Inside, PacketsAssumption DEF Good, RemoveHeader
<1>2. PICK f : f = Removed(data, views)
  OBVIOUS
<1>3. data' = f /\ views' = Front(views)
  BY <1>2 DEF RemoveHeader, Removed
<1>4. /\ f \in Seq(Cell) /\ Len(f) <= Len(data)
      /\ Typed(f, Front(views)) /\ Linked(f, Front(views))
  BY <1>1, <1>2, RemovedIs
<1>5. Len(f) < Room
  BY <1>1, <1>4 DEF Good
<1>6. Len(Front(views)) <= ViewsMax
  <2>1. Len(Front(views)) = Len(views) - 1
    BY <1>1, Below
  <2>2. QED
    BY <1>1, <2>1, PacketsAssumption DEF Good
<1>7. QED
  BY <1>3, <1>4, <1>5, <1>6 DEF Good

\* A view that is not one of a message has no message below it either.
LEMMA NoMessages ==
  ASSUME NEW d, NEW vs, Typed(d, vs), Linked(d, vs), vs # <<>>, Last(vs).msg = "none"
  PROVE  \A i \in 1 .. Len(vs) : vs[i].msg = "none"
<1>1. Len(vs) \in Nat /\ Last(vs) = vs[Len(vs)]
  BY Inside, OnTop
<1>2. QED
  BY <1>1, Stack

\* remove_payload cuts the packet behind the header on top.
LEMMA RemovePayloadGood == ASSUME Good, RemovePayload PROVE Good'
<1>1. /\ Typed(data, views) /\ Linked(data, views) /\ Len(data) \in Nat
      /\ data \in Seq(Cell) /\ Room \in Nat
  BY Inside, PacketsAssumption DEF Good, Typed
<1>2. PICK o \in 0 .. Len(data) : o = PayloadOffset(data, views)
  BY <1>1, OnTop
<1>3. CASE o < Len(data)
  <2>1. PICK e : e = Truncate(data, o)
    OBVIOUS
  <2>2. data' = e /\ views' = views
    BY <1>2, <1>3, <2>1 DEF RemovePayload
  <2>3. e \in Seq(Cell) /\ Len(e) = o /\ \A i \in 1 .. o : e[i] = data[i]
    BY <1>1, <1>3, <2>1, TruncateIs
  <2>4. \A i \in 1 .. Len(views) : views[i].msg = "none"
    BY <1>1, NoMessages DEF RemovePayload
  <2>5. Typed(e, views) /\ Linked(e, views)
    BY <1>1, <1>2, <2>3, <2>4, Behind
  <2>6. Len(e) < Room
    BY <1>1, <1>3, <2>3 DEF Good
  <2>7. QED
    BY <2>2, <2>5, <2>6 DEF Good
<1>4. CASE ~(o < Len(data))
  BY <1>2, <1>4, KeepGood DEF RemovePayload, Keep
<1>5. QED
  BY <1>3, <1>4

\* truncate cuts it at an MTU, which is behind the headers if they fit.
LEMMA TruncateGood ==
  ASSUME Good, HeadersFit, NEW mtu \in Mtus, TruncateTo(mtu)
  PROVE  Good'
<1>1. /\ Typed(data, views) /\ Linked(data, views) /\ Len(views) \in Nat
      /\ Len(data) \in Nat /\ data \in Seq(Cell) /\ Room \in Nat /\ mtu \in Nat
      /\ Ipv4MinMtu \in Nat /\ Ipv6MinMtu \in Nat /\ TopKind(views) \in Ips
  BY Inside, PacketsAssumption DEF Good, Typed, TruncateTo
<1>2. views # <<>>
  BY <1>1, OnTop DEF Ips, Ipv6s
<1>3. PICK n \in 1 .. Len(views) :
        n = Len(views) /\ Last(views) = views[n] /\ TopKind(views) = views[n].k
  BY <1>1, <1>2, OnTop
<1>4. Last(views).msg = "none"
  <2>1. views[n].k \notin Icmps
    BY <1>1, <1>3 DEF Ips, Ipv6s, Icmps
  <2>2. QED
    BY <1>1, <1>3, <2>1 DEF Typed
<1>5. Len(views) > 1
  <2>1. views[n].k # "Ethernet"
    BY <1>1, <1>3 DEF Ips, Ipv6s
  <2>2. QED
    BY <1>1, <1>3, <2>1, Stack
<1>6. 2 \in 1 .. Len(views) /\ IpView(views) = views[2]
  BY <1>1, <1>5, IpIsSecond
<1>7. PICK o \in 0 .. Len(data) : o = PayloadOffset(data, views)
  BY <1>1, OnTop
<1>8. PICK to_len : to_len = mtu + IpView(views).off
  OBVIOUS
<1>9. to_len \in Nat /\ MinMtu(views) \in Nat /\ IpView(views).off \in Nat
  BY <1>1, <1>6, <1>8, Inside DEF MinMtu
<1>10. CASE mtu >= MinMtu(views) /\ to_len < Len(data)
  <2>1. o <= IpView(views).off + MinMtu(views)
    BY <1>4, <1>5, <1>7, <1>9 DEF HeadersFit
  <2>2. o <= to_len
    BY <1>1, <1>8, <1>9, <1>10, <2>1
  <2>3. PICK e : e = Truncate(data, to_len)
    OBVIOUS
  <2>4. data' = e /\ views' = views
    BY <1>8, <1>10, <2>3 DEF TruncateTo
  <2>5. e \in Seq(Cell) /\ Len(e) = to_len /\ \A i \in 1 .. to_len : e[i] = data[i]
    BY <1>1, <1>9, <1>10, <2>3, TruncateIs
  <2>6. \A i \in 1 .. o : e[i] = data[i]
    BY <1>9, <2>2, <2>5
  <2>7. \A i \in 1 .. Len(views) : views[i].msg = "none"
    BY <1>1, <1>2, <1>4, NoMessages
  <2>8. Typed(e, views) /\ Linked(e, views)
    BY <1>1, <1>7, <2>2, <2>5, <2>6, <2>7, Behind
  <2>9. Len(e) < Room
    BY <1>1, <1>9, <1>10, <2>5 DEF Good
  <2>10. QED
    BY <2>4, <2>8, <2>9 DEF Good
<1>11. CASE ~(mtu >= MinMtu(views) /\ to_len < Len(data))
  BY <1>8, <1>11, KeepGood DEF TruncateTo, Keep
<1>12. QED
  BY <1>10, <1>11

\* set_data writes behind the body of the message, which stays.
LEMMA SetDataGood == ASSUME Good, NEW n \in Nat, SetData(n) PROVE Good'
<1>1. /\ Typed(data, views) /\ Linked(data, views) /\ Len(views) \in Nat
      /\ Len(data) \in Nat /\ data \in Seq(Cell) /\ Room \in Nat /\ views # <<>>
      /\ Last(views).msg = "EchoRequest" /\ Len(data) < Room
  BY Inside, PacketsAssumption DEF Good, Typed, SetData
<1>2. PICK m \in 1 .. Len(views) :
        m = Len(views) /\ Last(views) = views[m] /\ PayloadOffset(data, views) = End(data, views[m])
  BY <1>1, OnTop
<1>3. PICK o : o = views[m].off + 2
  OBVIOUS
<1>4. o \in 0 .. Len(data) /\ End(data, views[m]) < o /\ End(data, views[m]) \in Nat
  <2>1. views[m].msg = "EchoRequest" /\ views[m].off \in Nat /\ views[m] \in ViewOf
    BY <1>1, <1>2, Inside
  <2>2. views[m].off + 1 < Len(data)
    BY <1>1, <2>1 DEF Linked, LinkedAt
  <2>3. views[m].k \notin {"Srh", "Ethernet"}
    BY <1>1, <2>1 DEF Typed, Icmps
  <2>4. End(data, views[m]) = views[m].off + 1
    BY <2>1, <2>3, Lengths
  <2>5. QED
    BY <1>1, <1>3, <2>1, <2>2, <2>4
<1>5. CASE n < Len(data) - o \/ CanExtend(data, n - (Len(data) - o))
  <2>1. PICK s \in Seq(Cell) : s = SubSeq(data, 1, o)
    BY <1>1, <1>4, FirstOf
  <2>2. Len(s) = o /\ \A i \in 1 .. o : s[i] = data[i]
    BY <1>1, <1>4, <2>1, FirstOf
  <2>3. PICK t : t = [i \in 1 .. n |-> Octets]
    OBVIOUS
  <2>4. t \in Seq(Cell) /\ Len(t) = n
    BY <2>3, Blanks
  <2>5. PICK e : e = s \o t
    OBVIOUS
  <2>6. e \in Seq(Cell) /\ Len(e) = o + n /\ \A i \in 1 .. o : e[i] = data[i]
    BY <2>2, <2>4, <2>5, Joined
  <2>7. data' = e /\ views' = views
    <3>1. n - (Len(data) - o) < 0 \/ CanExtend(data, n - (Len(data) - o))
      BY <1>1, <1>4, <1>5
    <3>2. QED
      BY <1>2, <1>3, <2>1, <2>3, <2>5, <3>1 DEF SetData, Return
  <2>8. ASSUME NEW i \in 1 .. Len(views), views[i].msg # "none"
        PROVE  views[i].off + 1 < Len(e)
    <3>1. i = m
      BY <1>1, <1>2, <2>8, Stack
    <3>2. views[m].off \in Nat
      BY <1>1, Inside
    <3>3. QED
      BY <1>3, <2>6, <3>1, <3>2
  <2>9. Typed(e, views) /\ Linked(e, views)
    <3>1. PayloadOffset(data, views) <= Len(e)
      BY <1>2, <1>4, <2>6
    <3>2. \A i \in 1 .. PayloadOffset(data, views) : e[i] = data[i]
      BY <1>2, <1>4, <2>6
    <3>3. QED
      BY <1>1, <2>6, <2>8, <3>1, <3>2, Behind
  <2>10. Len(e) < Room
    BY <1>1, <1>4, <1>5, <2>6 DEF CanExtend
  <2>11. QED
    BY <2>7, <2>9, <2>10 DEF Good
<1>6. CASE ~(n < Len(data) - o \/ CanExtend(data, n - (Len(data) - o)))
  <2>1. ~(n - (Len(data) - o) < 0 \/ CanExtend(data, n - (Len(data) - o)))
    BY <1>1, <1>4, <1>6
  <2>2. UNCHANGED <<data, views>>
    BY <1>2, <1>3, <2>1 DEF SetData, Keep
  <2>3. QED
    BY <2>2, KeepGood
<1>7. QED
  BY <1>5, <1>6

-----------------------------------------------------------------------------
(* The setters *)

\* Every header has a place of its own.
LEMMA Apart ==
  ASSUME NEW d, NEW vs, Typed(d, vs), Linked(d, vs),
         NEW i \in 1 .. Len(vs), NEW j \in 1 .. Len(vs), vs[i].off = vs[j].off
  PROVE  i = j
<1>1. ASSUME NEW a \in 1 .. Len(vs), NEW b \in 1 .. Len(vs), a < b
      PROVE  vs[a].off # vs[b].off
  <2>1. End(d, vs[a]) <= vs[b].off
    BY <1>1 DEF Linked
  <2>2. vs[a].off < End(d, vs[a]) /\ vs[a].off \in Nat /\ vs[b].off \in Nat
        /\ End(d, vs[a]) \in Nat
    BY Inside
  <2>3. QED
    BY <2>1, <2>2
<1>2. Len(vs) \in Nat
  BY Inside
<1>3. i < j \/ j < i \/ i = j
  BY <1>2
<1>4. QED
  BY <1>1, <1>3

\* A header whose structure is as before.
Alike(view, g, h) ==
  /\ h.next = g.next
  /\ view.k = "Ethernet" => h.v = g.v
  /\ view.k = "Srh" => h.len = g.len /\ h.ext = g.ext

\* It may be written over.
LEMMA HeaderWritten ==
  ASSUME NEW d, NEW vs, Typed(d, vs), Linked(d, vs), NEW n \in 1 .. Len(vs), NEW cell \in Cell,
         Alike(vs[n], d[vs[n].off + 1], cell)
  PROVE  LET e == SetHeader(d, vs[n], cell)
         IN  /\ e \in Seq(Cell) /\ Len(e) = Len(d) /\ Typed(e, vs) /\ Linked(e, vs)
             /\ PayloadOffset(e, vs) = PayloadOffset(d, vs)
<1>1. PICK e : e = SetHeader(d, vs[n], cell)
  OBVIOUS
<1>2. PICK o : o = vs[n].off
  OBVIOUS
<1>3. o \in Nat /\ o + 1 \in 1 .. Len(d) /\ d \in Seq(Cell)
  BY <1>2, Inside DEF Typed
<1>4. /\ e \in Seq(Cell) /\ Len(e) = Len(d)
      /\ \A i \in 1 .. Len(d) : e[i] = IF i = o + 1 THEN cell ELSE d[i]
  <2>1. vs[n].off + 1 \in 1 .. Len(d)
    BY <1>2, <1>3
  <2>2. SetHeader(d, vs[n], cell) \in Seq(Cell) /\ Len(SetHeader(d, vs[n], cell)) = Len(d)
    BY <1>3, <2>1, SetHeaderIs
  <2>3. \A i \in 1 .. Len(d) :
          SetHeader(d, vs[n], cell)[i] = IF i = vs[n].off + 1 THEN cell ELSE d[i]
    BY <1>3, <2>1, SetHeaderIs
  <2>4. QED
    BY <1>1, <1>2, <2>2, <2>3
<1>5. ASSUME NEW i \in 1 .. Len(vs)
      PROVE  /\ Same(d, e, vs, i) /\ End(d, vs[i]) <= Len(e)
             /\ vs[i].msg # "none" => vs[i].off + 1 < Len(e)
  <2>1. End(d, vs[i]) <= Len(e) /\ vs[i].off + 1 \in 1 .. Len(d) /\ vs[i].off \in Nat
    BY <1>4, Inside
  <2>2. vs[i].msg # "none" => vs[i].off + 1 < Len(e)
    BY <1>4 DEF Linked, LinkedAt
  <2>3. CASE i = n
    <3>1. e[vs[i].off + 1] = cell
      BY <1>2, <1>3, <1>4, <2>3
    <3>2. QED
      BY <2>1, <2>2, <2>3, <3>1 DEF Same, Alike
  <2>4. CASE i # n
    <3>1. vs[i].off # o
      BY <1>2, <2>4, Apart
    <3>2. PICK j \in 1 .. Len(d) : j = vs[i].off + 1
      BY <2>1
    <3>3. j # o + 1
      BY <1>3, <2>1, <3>1, <3>2
    <3>4. e[vs[i].off + 1] = d[vs[i].off + 1]
      BY <1>4, <3>2, <3>3
    <3>5. QED
      BY <2>1, <2>2, <3>4 DEF Same
  <2>5. QED
    BY <2>3, <2>4
<1>6. Typed(e, vs) /\ Linked(e, vs) /\ PayloadOffset(e, vs) = PayloadOffset(d, vs)
  BY <1>4, <1>5, Agreeing
<1>7. QED
  BY <1>1, <1>4, <1>6

\* A field of a cell that is set.
LEMMA FieldSet ==
  ASSUME NEW g \in Cell, NEW w \in Word
  PROVE  /\ [g EXCEPT !.src = w] \in Cell /\ [g EXCEPT !.dst = w] \in Cell
         /\ [g EXCEPT !.len = w] \in Cell /\ [g EXCEPT !.ext = w] \in Cell
         /\ [g EXCEPT !.csum = w] \in Cell /\ [g EXCEPT !.v = w] \in Cell
BY DEF Cell

\* A field that is no part of the structure of the packet is set.
LEMMA SetFieldGood ==
  ASSUME Good, NEW i \in DOMAIN views, NEW field \in {"v", "src", "dst"}, NEW w \in Values,
         SetField(i, field, w)
  PROVE  Good'
<1>1. /\ Typed(data, views) /\ Linked(data, views) /\ i \in 1 .. Len(views)
      /\ w \in Word
  BY PacketsAssumption DEF Good, Typed
<1>2. PICK g \in Cell : g = data[views[i].off + 1]
  BY <1>1, Inside
<1>3. PICK cell : cell = [g EXCEPT ![field] = w]
  OBVIOUS
<1>4. cell \in Cell
  BY <1>1, <1>2, <1>3 DEF Cell
<1>5. data' = SetHeader(data, views[i], cell) /\ views' = views
  BY <1>2, <1>3 DEF SetField, Header, At
<1>6. Alike(views[i], g, cell)
  <2>1. cell.next = g.next /\ cell.len = g.len /\ cell.ext = g.ext
    BY <1>2, <1>3 DEF Cell
  <2>2. views[i].k # "Ethernet"
    BY DEF SetField
  <2>3. QED
    BY <2>1, <2>2 DEF Alike
<1>7. Typed(data', views) /\ Linked(data', views) /\ Len(data') = Len(data)
  BY <1>1, <1>2, <1>4, <1>5, <1>6, HeaderWritten
<1>8. QED
  BY <1>5, <1>7 DEF Good

\* The checksum of a header is set.
WithChecksum(d, view, w) == [d EXCEPT ![view.off + 1].csum = w]

\* It is no part of the structure of the packet.
LEMMA ChecksumSet ==
  ASSUME NEW d, NEW vs, Typed(d, vs), Linked(d, vs), NEW n \in 1 .. Len(vs), NEW w \in Word
  PROVE  LET e == WithChecksum(d, vs[n], w)
         IN  /\ e \in Seq(Cell) /\ Len(e) = Len(d) /\ Typed(e, vs) /\ Linked(e, vs)
             /\ PayloadOffset(e, vs) = PayloadOffset(d, vs)
<1>1. PICK g \in Cell : g = d[vs[n].off + 1]
  BY Inside
<1>2. PICK cell : cell = [g EXCEPT !.csum = w]
  OBVIOUS
<1>3. cell \in Cell /\ Alike(vs[n], g, cell)
  <2>1. cell \in Cell
    BY <1>2, FieldSet
  <2>2. cell.next = g.next /\ cell.len = g.len /\ cell.ext = g.ext /\ cell.v = g.v
    BY <1>1, <1>2 DEF Cell
  <2>3. QED
    BY <2>1, <2>2 DEF Alike
<1>4. WithChecksum(d, vs[n], w) = SetHeader(d, vs[n], cell)
  BY <1>1, <1>2 DEF SetHeader, WithChecksum
<1>5. QED
  BY <1>1, <1>3, <1>4, HeaderWritten

\* no_checksum.
LEMMA NoChecksumGood == ASSUME Good, NoChecksum PROVE Good'
<1>1. Typed(data, views) /\ Linked(data, views)
  BY DEF Good
<1>2. views # <<>>
  BY DEF NoChecksum, TopKind
<1>3. PICK n \in 1 .. Len(views) : Last(views) = views[n]
  BY <1>1, <1>2, OnTop
<1>4. PICK e : e = WithChecksum(data, views[n], 0)
  OBVIOUS
<1>5. data' = e /\ views' = views
  BY <1>3, <1>4 DEF NoChecksum, WithChecksum
<1>6. 0 \in Word
  BY WordFacts
<1>7. Typed(e, views) /\ Linked(e, views) /\ Len(e) = Len(data)
  BY <1>1, <1>4, <1>6, ChecksumSet
<1>8. QED
  BY <1>5, <1>7 DEF Good

\* A set of positions has a last one.
LEMMA Largest ==
  ASSUME NEW n \in Nat, NEW S \in SUBSET (1 .. n), S # {}
  PROVE  \E i \in S : \A j \in S : j <= i
<1> DEFINE T == {m \in Nat : (\E i \in S : i >= n - m) => \E i \in S : \A j \in S : j <= i}
<1>1. 0 \in T
  <2>1. ASSUME NEW i \in S, i >= n - 0 PROVE \A j \in S : j <= i
    BY <2>1
  <2>2. QED
    BY <2>1
<1>2. ASSUME NEW m \in T PROVE m + 1 \in T
  <2>1. SUFFICES ASSUME NEW i \in S, i >= n - (m + 1)
                 PROVE  \E k \in S : \A j \in S : j <= k
    OBVIOUS
  <2>2. CASE \E k \in S : k >= n - m
    BY <2>2
  <2>3. CASE ~\E k \in S : k >= n - m
    <3>1. \A j \in S : j <= i
      BY <2>1, <2>3
    <3>2. QED
      BY <3>1
  <2>4. QED
    BY <2>2, <2>3
<1>3. T = Nat
  <2> HIDE DEF T
  <2>1. T \in SUBSET Nat
    BY DEF T
  <2>2. QED
    BY <1>1, <1>2, <2>1, Natural
<1>4. (\E i \in S : i >= n - n) => \E i \in S : \A j \in S : j <= i
  BY <1>3
<1>5. \A i \in S : i >= n - n
  OBVIOUS
<1>6. QED
  BY <1>4, <1>5

\* The addresses of a packet.
LEMMA AddressWord ==
  ASSUME NEW d, NEW vs, Typed(d, vs), Linked(d, vs), Len(vs) > 1
  PROVE  Src(d, vs) \in Word /\ Dst(d, vs) \in Word
<1>1. /\ Len(vs) \in Nat /\ DOMAIN vs = 1 .. Len(vs) /\ Len(d) \in Nat
      /\ \A i \in 1 .. Len(d) : d[i] \in Cell
  BY Inside DEF Typed
<1>2. 2 \in 1 .. Len(vs) /\ IpView(vs) = vs[2]
  BY IpIsSecond
<1>3. d[vs[2].off + 1] \in Cell
  BY <1>2, Inside
<1>4. Src(d, vs) \in Word
  BY <1>2, <1>3 DEF Src, Header, At, Cell
<1>5. CASE Srhs(vs) = {}
  <2>1. Dst(d, vs) \in Word
    BY <1>2, <1>3, <1>5 DEF Dst, Header, At, Cell
  <2>2. QED
    BY <1>4, <2>1
<1>6. CASE Srhs(vs) # {}
  <2>1. PICK i : i = CHOOSE h \in Srhs(vs) : \A j \in Srhs(vs) : j <= h
    OBVIOUS
  <2>2. Srhs(vs) \in SUBSET (1 .. Len(vs))
    BY <1>1 DEF Srhs
  <2>3. i \in Srhs(vs)
    BY <1>1, <1>6, <2>1, <2>2, Largest
  <2>4. i \in 1 .. Len(vs) /\ vs[i].k = "Srh"
    BY <1>1, <2>3 DEF Srhs
  <2>5. vs[i].off + 2 \in 1 .. Len(d)
    <3>1. vs[i] \in ViewOf /\ vs[i].off \in Nat /\ End(d, vs[i]) <= Len(d)
      BY <1>1, <2>4, Inside
    <3>2. End(d, vs[i]) = vs[i].off + (1 + vs[i].segs)
      BY <2>4, <3>1, Lengths
    <3>3. vs[i].segs = d[vs[i].off + 1].len + 1
      BY <2>4 DEF Linked, LinkedAt
    <3>4. d[vs[i].off + 1].len \in Nat
      BY <2>4, Inside, WordFacts DEF Cell
    <3>5. PICK len \in Nat : len = d[vs[i].off + 1].len
      BY <3>4
    <3>6. End(d, vs[i]) = vs[i].off + (1 + (len + 1))
      BY <3>2, <3>3, <3>5
    <3>7. QED
      BY <1>1, <3>1, <3>6
  <2>6. Dst(d, vs) = d[vs[i].off + 2].v
    <3>1. Dst(d, vs) = d[vs[i].off + 1 + 1].v
      BY <1>6, <2>1 DEF Dst, At
    <3>2. vs[i].off \in Nat
      BY <2>4, Inside
    <3>3. vs[i].off + 1 + 1 = vs[i].off + 2
      BY <3>2
    <3>4. QED
      BY <3>1, <3>3
  <2>7. QED
    BY <1>1, <1>4, <2>5, <2>6 DEF Cell
<1>7. QED
  BY <1>5, <1>6

\* The source address is set in the header of the packet.
LEMMA SourceSet ==
  ASSUME NEW d, NEW vs, Typed(d, vs), Linked(d, vs), NEW n \in 1 .. Len(vs), vs[n].k # "Ethernet",
         NEW ws, IpView(ws) = vs[n], NEW a \in Word
  PROVE  LET e == SetSrc(d, ws, a)
         IN  e \in Seq(Cell) /\ Len(e) = Len(d) /\ Typed(e, vs) /\ Linked(e, vs)
<1>1. PICK g \in Cell : g = d[vs[n].off + 1]
  BY Inside
<1>2. PICK cell : cell = [g EXCEPT !.src = a]
  OBVIOUS
<1>3. cell \in Cell /\ Alike(vs[n], g, cell)
  <2>1. cell \in Cell
    BY <1>2, FieldSet
  <2>2. cell.next = g.next /\ cell.len = g.len /\ cell.ext = g.ext
    BY <1>1, <1>2 DEF Cell
  <2>3. QED
    BY <2>1, <2>2 DEF Alike
<1>4. SetSrc(d, ws, a) = SetHeader(d, vs[n], cell)
  BY <1>1, <1>2 DEF SetHeader, SetSrc
<1>5. QED
  BY <1>1, <1>3, <1>4, HeaderWritten

\* The destination is set there or in a segment, which is no part of the structure
\* of the packet.
LEMMA DestinationSet ==
  ASSUME NEW d, NEW vs, Typed(d, vs), Linked(d, vs), NEW ws \in Seq(ViewOf), NEW a \in Word
  PROVE  LET e == SetDst(d, ws, a)
         IN  e \in Seq(Cell) /\ Len(e) = Len(d) /\ Typed(e, vs) /\ Linked(e, vs)
<1> DEFINE Off(k) == {ws[i].off : i \in {j \in SetsDst(d, ws) : ws[j].k = k}}
           A == Off("Ipv4") \cup Off("Ipv6")
           B == Off("Srh")
<1>1. /\ DOMAIN d = 1 .. Len(d) /\ Len(d) \in Nat
      /\ \A i \in 1 .. Len(d) : d[i] \in Cell
  BY DEF Typed
<1>2. PICK e : e = SetDst(d, ws, a)
  OBVIOUS
<1>3. B \subseteq Nat
  <2>1. ASSUME NEW i \in DOMAIN ws PROVE ws[i].off \in Nat
    <3>1. ws[i] \in ViewOf
      OBVIOUS
    <3>2. QED
      BY <3>1 DEF ViewOf
  <2>2. SetsDst(d, ws) \subseteq DOMAIN ws
    BY DEF SetsDst
  <2>3. QED
    BY <2>1, <2>2
<1>4. e = [c \in 1 .. Len(d) |->
             CASE c - 1 \in A -> [d[c] EXCEPT !.dst = a]
               [] c - 2 \in B -> [d[c] EXCEPT !.v = a]
               [] OTHER -> d[c]]
  BY <1>1, <1>2 DEF SetDst
<1> HIDE DEF A, B
<1>5. ASSUME NEW c \in 1 .. Len(d)
      PROVE  /\ e[c] \in Cell /\ e[c].next = d[c].next /\ e[c].len = d[c].len
             /\ e[c].ext = d[c].ext /\ (c = 1 => e[c].v = d[c].v)
  <2>1. d[c] \in Cell
    BY <1>1
  <2>2. CASE c - 1 \in A
    <3>1. \/ e[c] = [d[c] EXCEPT !.dst = a]
          \/ c - 2 \in B /\ e[c] = [d[c] EXCEPT !.v = a]
      BY <1>4, <2>2
    <3>2. c - 2 \in B => c # 1
      BY <1>3
    <3>3. QED
      BY <2>1, <3>1, <3>2 DEF Cell
  <2>3. CASE c - 1 \notin A /\ c - 2 \in B
    <3>1. e[c] = [d[c] EXCEPT !.v = a]
      BY <1>4, <2>3
    <3>2. c # 1
      BY <1>3, <2>3
    <3>3. QED
      BY <2>1, <3>1, <3>2 DEF Cell
  <2>4. CASE c - 1 \notin A /\ c - 2 \notin B
    <3>1. e[c] = d[c]
      BY <1>4, <2>4
    <3>2. QED
      BY <2>1, <3>1
  <2>5. QED
    BY <2>2, <2>3, <2>4
<1>6. e \in Seq(Cell) /\ Len(e) = Len(d)
  <2>1. \A c \in 1 .. Len(d) : e[c] \in Cell
    BY <1>5
  <2>2. e \in [1 .. Len(d) -> Cell]
    BY <1>4, <2>1
  <2>3. QED
    BY <1>1, <2>2
<1>7. ASSUME NEW i \in 1 .. Len(vs)
      PROVE  /\ Same(d, e, vs, i) /\ End(d, vs[i]) <= Len(e)
             /\ vs[i].msg # "none" => vs[i].off + 1 < Len(e)
  <2>1. End(d, vs[i]) <= Len(e) /\ vs[i].off + 1 \in 1 .. Len(d) /\ vs[i].off \in Nat
    BY <1>6, Inside
  <2>2. vs[i].msg # "none" => vs[i].off + 1 < Len(e)
    BY <1>6 DEF Linked, LinkedAt
  <2>3. vs[i].k = "Ethernet" => vs[i].off + 1 = 1
    <3>1. vs[i].k = "Ethernet" => i = 1
      BY Stack
    <3>2. i = 1 => vs[i].off = 0
      BY DEF Linked, LinkedAt
    <3>3. QED
      BY <3>1, <3>2
  <2>4. QED
    BY <1>5, <2>1, <2>2, <2>3 DEF Same
<1>8. Typed(e, vs) /\ Linked(e, vs)
  BY <1>6, <1>7, Agreeing
<1>9. QED
  BY <1>2, <1>6, <1>8

\* set_src_ip and set_dst_ip set an address and a checksum.
LEMMA SetIpGood ==
  ASSUME Good, NEW field \in {"src", "dst"}, NEW same \in BOOLEAN, NEW a \in Addresses,
         SetIp(field, same, a)
  PROVE  Good'
<1>1. Typed(data, views) /\ Linked(data, views) /\ Len(views) \in Nat /\ a \in Word
  BY Inside, PacketsAssumption DEF Good
<1>2. TopKind(views) \in {"Udp", "Tcp"} /\ views # <<>>
  BY DEF SetIp, TopKind
<1>3. PICK n \in 1 .. Len(views) :
        n = Len(views) /\ Last(views) = views[n] /\ TopKind(views) = views[n].k
  BY <1>1, <1>2, OnTop
<1>4. PICK ips : ips = Front(views)
  OBVIOUS
<1>5. /\ Typed(data, ips) /\ Linked(data, ips) /\ Len(ips) = n - 1
      /\ TopKind(ips) \in Envelopes(views[n].k)
  BY <1>1, <1>2, <1>3, <1>4, Below
<1>6. Len(ips) > 1
  <2>1. TopKind(ips) \in {"Ipv4", "Ipv6", "Srh", "Fragment"}
    BY <1>2, <1>3, <1>5, EnvelopesAre DEF Kinds
  <2>2. ips # <<>>
    BY <1>5, <2>1, OnTop
  <2>3. PICK m \in 1 .. Len(ips) : m = Len(ips) /\ TopKind(ips) = ips[m].k
    BY <1>5, <2>2, OnTop
  <2>4. m # 1
    BY <1>5, <2>1, <2>3, Stack
  <2>5. QED
    BY <1>1, <1>5, <2>3, <2>4
<1>7. /\ 2 \in 1 .. Len(views) /\ views[2].k # "Ethernet" /\ IpView(ips) = views[2]
  <2>1. 2 \in 1 .. Len(ips) /\ IpView(ips) = ips[2]
    BY <1>5, <1>6, IpIsSecond
  <2>2. 2 \in 1 .. Len(views) - 1
    <3>1. PICK m \in Nat : m = Len(views) - 1 /\ m = Len(ips)
      BY <1>1, <1>3, <1>5
    <3>2. 2 \in 1 .. m
      BY <2>1, <3>1
    <3>3. QED
      BY <3>1, <3>2
  <2>3. ips[2] = views[2] /\ 2 \in 1 .. Len(views)
    BY <1>1, <1>2, <1>4, <2>2, Below
  <2>4. views[2].k # "Ethernet"
    BY <1>1, <2>3, Stack
  <2>5. QED
    BY <2>1, <2>3, <2>4
<1>8. PICK old : old = IF field = "src" THEN Src(data, ips) ELSE Dst(data, ips)
  OBVIOUS
<1>9. old \in Word
  BY <1>5, <1>6, <1>8, AddressWord
<1>10. PICK set : set = IF field = "src" THEN SetSrc(data, ips, a) ELSE SetDst(data, ips, a)
  OBVIOUS
<1>11. set \in Seq(Cell) /\ Len(set) = Len(data) /\ Typed(set, views) /\ Linked(set, views)
  <2>1. CASE field = "src"
    BY <1>1, <1>7, <1>10, <2>1, SourceSet
  <2>2. CASE field # "src"
    <3>1. ips \in Seq(ViewOf)
      BY <1>5 DEF Typed
    <3>2. QED
      BY <1>1, <1>10, <2>2, <3>1, DestinationSet
  <2>3. QED
    BY <2>1, <2>2
<1>12. PICK csum : csum = ForUdp(TopKind(views), ComputeInc(Header(data, Last(views)).csum, old, a))
  OBVIOUS
<1>13. csum \in Word
  <2>1. data[views[n].off + 1] \in Cell
    BY <1>1, Inside
  <2>2. Header(data, Last(views)).csum \in Word
    BY <1>3, <2>1 DEF Header, At, Cell
  <2>3. ComputeInc(Header(data, Last(views)).csum, old, a) \in Word
    BY <1>1, <1>9, <2>2, ChecksumWord
  <2>4. QED
    BY <1>12, <2>3, WordFacts DEF ForUdp
<1>14. CASE same
  <2>1. PICK e : e = WithChecksum(set, views[n], csum)
    OBVIOUS
  <2>2. data' = e /\ views' = views
    BY <1>3, <1>4, <1>8, <1>10, <1>12, <1>14, <2>1 DEF SetIp, WithChecksum
  <2>3. Typed(e, views) /\ Linked(e, views) /\ Len(e) = Len(data)
    BY <1>11, <1>13, <2>1, ChecksumSet
  <2>4. QED
    BY <2>2, <2>3 DEF Good
<1>15. CASE ~same
  <2>1. UNCHANGED <<data, views>>
    BY <1>15 DEF SetIp, Keep
  <2>2. QED
    BY <2>1, KeepGood
<1>16. QED
  BY <1>14, <1>15

\* Cells between two positions give way to others.
Spliced(d, o, t, p) == SubSeq(d, 1, o) \o t \o From(d, p)

\* What stands where then: those behind have moved.
SplicedInto(w, d, o, p, n) ==
  /\ w \in Seq(Cell) /\ Len(w) = o + n + (Len(d) - p)
  /\ \A i \in 1 .. o : w[i] = d[i]
  /\ \A i \in o + n + 1 .. o + n + (Len(d) - p) : w[i] = d[i - (o + n) + p]

\* Splicing does that.
LEMMA SplicedIs ==
  ASSUME NEW d \in Seq(Cell), NEW o \in Nat, NEW p \in Nat, NEW t \in Seq(Cell), NEW n \in Nat,
         o <= p, p <= Len(d), n = Len(t)
  PROVE  SplicedInto(Spliced(d, o, t, p), d, o, p, n)
<1>1. Len(d) \in Nat /\ o \in 0 .. Len(d) /\ p \in 0 .. Len(d) /\ Len(t) = n
  OBVIOUS
<1>2. PICK s \in Seq(Cell) : s = SubSeq(d, 1, o)
  BY <1>1, FirstOf
<1>3. Len(s) = o /\ \A i \in 1 .. o : s[i] = d[i]
  BY <1>1, <1>2, FirstOf
<1>4. PICK r \in Seq(Cell) : r = From(d, p)
  BY <1>1, RestOf
<1>5. Len(r) = Len(d) - p
  BY <1>1, <1>4, RestOf
<1>6. \A i \in 1 .. Len(d) - p : r[i] = d[p + i]
  BY <1>1, <1>4, RestOf
<1>7. PICK u \in Seq(Cell) : u = s \o t
  BY Joined
<1>8. Len(u) = o + n /\ \A i \in 1 .. o : u[i] = s[i]
  <2>1. Len(u) = Len(s) + Len(t) /\ \A i \in 1 .. Len(s) : u[i] = s[i]
    BY <1>7, Joined
  <2>2. QED
    BY <1>1, <1>3, <2>1
<1>9. PICK w \in Seq(Cell) : w = u \o r
  BY Joined
<1>10. /\ Len(w) = Len(u) + Len(r) /\ \A i \in 1 .. Len(u) : w[i] = u[i]
       /\ \A i \in 1 .. Len(r) : w[Len(u) + i] = r[i]
  BY <1>9, Joined
<1>11. Len(w) = o + n + (Len(d) - p)
  BY <1>5, <1>8, <1>10
<1>12. \A i \in 1 .. o : w[i] = d[i]
  <2>1. \A i \in 1 .. o : i \in 1 .. Len(u)
    BY <1>8
  <2>2. QED
    BY <1>3, <1>8, <1>10, <2>1
<1>13. ASSUME NEW i \in o + n + 1 .. o + n + (Len(d) - p)
       PROVE  w[i] = d[i - (o + n) + p]
  <2>1. PICK j : j = i - (o + n)
    OBVIOUS
  <2>2. j \in 1 .. Len(d) - p /\ i = o + n + j
    BY <1>1, <2>1
  <2>3. w[o + n + j] = r[j]
    BY <1>5, <1>8, <1>10, <2>2
  <2>4. r[j] = d[p + j] /\ p + j = j + p
    BY <1>6, <2>2
  <2>5. QED
    BY <2>1, <2>2, <2>3, <2>4
<1>14. Spliced(d, o, t, p) = w
  BY <1>2, <1>4, <1>7, <1>9 DEF Spliced
<1>15. SplicedInto(w, d, o, p, n)
  BY <1>9, <1>11, <1>12, <1>13 DEF SplicedInto
<1>16. QED
  BY <1>14, <1>15

\* The length that a routing header has for that many segments.
Sized(g, n) == [[g EXCEPT !.ext = 2 * n] EXCEPT !.len = n - 1]

\* Nothing else of the header changes.
LEMMA SizedIs ==
  ASSUME NEW g \in Cell, NEW n \in Nat, n > 0, 2 * n < Mod
  PROVE  /\ Sized(g, n) \in Cell /\ Sized(g, n).next = g.next /\ Sized(g, n).v = g.v
         /\ Sized(g, n).ext = 2 * n /\ Sized(g, n).len + 1 = n
<1>1. 2 * n \in Word /\ n - 1 \in Word
  BY WordFacts DEF Word
<1>2. PICK c : c = Sized(g, n)
  OBVIOUS
<1>3. c \in Cell /\ c.next = g.next /\ c.v = g.v /\ c.ext = 2 * n /\ c.len = n - 1
  BY <1>1, <1>2 DEF Cell, Sized
<1>4. QED
  BY <1>2, <1>3

\* The segments of a routing header, between two positions, give way to others.
Between(d, view, o, p) == o = view.off + 1 /\ p = o + (d[o].len + 1) /\ d[o].len \in Nat
Count(segments, n) == n = Len(segments) /\ n > 0 /\ 2 * n < Mod
Rewrites(d, e, o, p, n) ==
  /\ e \in Seq(Cell) /\ Len(e) = o + n + (Len(d) - p)
  /\ \A i \in 1 .. o - 1 : e[i] = d[i]
  /\ e[o].next = d[o].next /\ e[o].v = d[o].v
  /\ e[o].ext = 2 * n /\ e[o].len + 1 = n
  /\ \A i \in o + n + 1 .. o + n + (Len(d) - p) : e[i] = d[i - (o + n) + p]

\* That is what set_segments writes.
LEMMA ReplacedIs ==
  ASSUME NEW d \in Seq(Cell), NEW view, NEW o \in Nat, NEW p \in Nat,
         Between(d, view, o, p), 0 < o, o <= p, p <= Len(d),
         NEW segments \in Seq(Word), NEW n \in Nat, Count(segments, n)
  PROVE  Rewrites(d, Replaced(d, view, segments), o, p, n)
<1>1. n > 0 /\ 2 * n < Mod /\ Len(d) \in Nat /\ DOMAIN segments = 1 .. n
  BY DEF Count
<1>2. o \in 1 .. Len(d)
  OBVIOUS
<1>3. PICK t : t = [i \in 1 .. n |-> [Blank EXCEPT !.v = segments[i]]]
  OBVIOUS
<1>4. t \in Seq(Cell) /\ Len(t) = n
  <2>1. \A i \in 1 .. n : segments[i] \in Word
    BY <1>1
  <2>2. \A i \in 1 .. n : [Blank EXCEPT !.v = segments[i]] \in Cell
    BY <2>1, Blanks
  <2>3. QED
    BY <1>3, <2>2
<1>5. PICK w : w = Spliced(d, o, t, p)
  OBVIOUS
<1>6. /\ w \in Seq(Cell) /\ Len(w) = o + n + (Len(d) - p)
      /\ \A i \in 1 .. o : w[i] = d[i]
      /\ \A i \in o + n + 1 .. o + n + (Len(d) - p) : w[i] = d[i - (o + n) + p]
  <2>1. SplicedInto(Spliced(d, o, t, p), d, o, p, n)
    BY <1>1, <1>4, SplicedIs
  <2>2. QED
    BY <1>5, <2>1 DEF SplicedInto
<1>7. PICK g \in Cell : g = d[o]
  BY <1>2
<1>8. PICK c : c = Sized(g, n)
  OBVIOUS
<1>9. c \in Cell /\ c.next = g.next /\ c.v = g.v /\ c.ext = 2 * n /\ c.len + 1 = n
  BY <1>1, <1>8, SizedIs
<1>10. o \in 1 .. Len(w) /\ w[o] = g
  BY <1>1, <1>6, <1>7
<1>11. PICK e : e = [w EXCEPT ![o] = c]
  OBVIOUS
<1>12. /\ e \in Seq(Cell) /\ Len(e) = Len(w)
       /\ \A i \in 1 .. Len(w) : e[i] = IF i = o THEN c ELSE w[i]
  BY <1>6, <1>9, <1>10, <1>11, Written
<1>13. Replaced(d, view, segments) = e
  <2>1. view.off + 1 = o
    BY DEF Between
  <2>2. o + At(d, view.off).len + 1 = p
    BY DEF Between, At
  <2>3. Replaced(d, view, segments) = [w EXCEPT ![o].ext = 2 * n, ![o].len = n - 1]
    BY <1>1, <1>3, <1>5, <2>1, <2>2 DEF Replaced, Spliced, Count
  <2>4. [w EXCEPT ![o].ext = 2 * n, ![o].len = n - 1] = e
    BY <1>6, <1>8, <1>10, <1>11 DEF Sized
  <2>5. QED
    BY <2>3, <2>4
<1>14. ASSUME NEW i \in 1 .. o - 1 PROVE e[i] = d[i]
  <2>1. i \in 1 .. o /\ i \in 1 .. Len(w) /\ i # o
    BY <1>1, <1>6
  <2>2. QED
    BY <1>6, <1>12, <2>1
<1>15. ASSUME NEW i \in o + n + 1 .. o + n + (Len(d) - p)
       PROVE  e[i] = d[i - (o + n) + p]
  <2>1. i \in 1 .. Len(w) /\ i # o
    BY <1>1, <1>6
  <2>2. QED
    BY <1>6, <1>12, <2>1
<1>16. e[o] = c
  BY <1>10, <1>12
<1>17. QED
  BY <1>6, <1>7, <1>9, <1>12, <1>13, <1>14, <1>15, <1>16 DEF Rewrites

\* The segments of a routing header are the cells between o and p.
SegmentsAt(d, view, o, p) ==
  /\ Between(d, view, o, p) /\ 0 < o /\ o <= p /\ p <= Len(d)
  /\ End(d, view) = p /\ view.off = o - 1 /\ view.segs = p - o
  /\ d[o].ext = 2 * (p - o) /\ d[o].len + 1 = p - o

\* Where the segments of a routing header are.
LEMMA SegmentsIn ==
  ASSUME NEW d, NEW vs, Typed(d, vs), Linked(d, vs), NEW i \in 1 .. Len(vs), vs[i].k = "Srh"
  PROVE  \E o, p \in Nat : SegmentsAt(d, vs[i], o, p)
<1>1. /\ vs[i] \in ViewOf /\ d[vs[i].off + 1] \in Cell /\ vs[i].off \in Nat
      /\ End(d, vs[i]) <= Len(d) /\ Len(d) \in Nat
  BY Inside
<1>2. vs[i].segs = d[vs[i].off + 1].len + 1 /\ d[vs[i].off + 1].ext = 2 * vs[i].segs
  BY DEF Linked, LinkedAt
<1>3. End(d, vs[i]) = vs[i].off + (1 + vs[i].segs)
  BY <1>1, Lengths
<1>4. PICK off \in Nat : off = vs[i].off
  BY <1>1
<1>5. PICK o \in Nat : o = off + 1
  OBVIOUS
<1>6. PICK len \in Nat : len = d[o].len
  BY <1>1, <1>4, <1>5, WordFacts DEF Cell
<1>7. PICK p \in Nat : p = o + (len + 1)
  OBVIOUS
<1>8. vs[i].segs = len + 1 /\ d[o].ext = 2 * vs[i].segs
  BY <1>2, <1>4, <1>5, <1>6
<1>9. End(d, vs[i]) = off + (1 + (len + 1))
  BY <1>3, <1>4, <1>8
<1>10. End(d, vs[i]) = p
  BY <1>5, <1>7, <1>9
<1>11. Between(d, vs[i], o, p)
  BY <1>4, <1>5, <1>6, <1>7 DEF Between
<1>12. 0 < o /\ o <= p /\ p <= Len(d)
  BY <1>1, <1>5, <1>7, <1>10
<1>13. p - o = len + 1 /\ o - 1 = off
  BY <1>5, <1>7
<1>14. QED
  <2>1. SegmentsAt(d, vs[i], o, p)
    BY <1>4, <1>6, <1>8, <1>10, <1>11, <1>12, <1>13 DEF SegmentsAt
  <2>2. QED
    BY <2>1

\* set_segments resizes the header on top, or writes over as many segments as there were.
LEMMA SetSegmentsGood ==
  ASSUME Good, NEW i \in DOMAIN views, NEW segments \in BoundedSeq(Addresses, SegsMax),
         SetSegments(i, segments)
  PROVE  Good'
<1>1. /\ Typed(data, views) /\ Linked(data, views) /\ Len(views) \in Nat
      /\ Len(data) \in Nat /\ data \in Seq(Cell) /\ Room \in Nat /\ i \in 1 .. Len(views)
      /\ Len(data) < Room /\ Len(views) <= ViewsMax /\ views[i].k = "Srh"
  BY Inside, PacketsAssumption DEF Good, Typed, SetSegments
<1>2. segments \in Seq(Word) /\ 2 * Len(segments) < Mod
  <2>1. PICK m \in 0 .. SegsMax : segments \in [1 .. m -> Addresses]
    BY DEF BoundedSeq, SeqOf
  <2>2. m \in Nat /\ segments \in [1 .. m -> Word]
    BY <2>1, PacketsAssumption
  <2>3. segments \in Seq(Word) /\ Len(segments) = m
    BY <2>2
  <2>4. QED
    BY <2>1, <2>3, PacketsAssumption, WordFacts
<1>3. PICK n \in Nat : n = Len(segments)
  BY <1>2
<1>4. PICK view \in ViewOf : view = views[i] /\ view.off \in Nat
  BY <1>1, Inside
<1>5. PICK o \in Nat, p \in Nat :
        /\ Between(data, view, o, p) /\ 0 < o /\ o <= p /\ p <= Len(data)
        /\ End(data, view) = p /\ view.off = o - 1 /\ view.segs = p - o
        /\ data[o].ext = 2 * (p - o) /\ data[o].len + 1 = p - o
  <2>1. Typed(data, views) /\ Linked(data, views) /\ i \in 1 .. Len(views) /\ views[i].k = "Srh"
    BY <1>1
  <2>2. \E o, p \in Nat : SegmentsAt(data, views[i], o, p)
    BY <2>1, SegmentsIn
  <2>3. PICK o \in Nat, p \in Nat : SegmentsAt(data, views[i], o, p)
    BY <2>2
  <2>4. SegmentsAt(data, view, o, p)
    BY <1>4, <2>3
  <2>5. QED
    BY <2>4 DEF SegmentsAt
<1>6. view.k = "Srh" /\ view.msg = "none" /\ view.off + 1 = o
  BY <1>1, <1>4, <1>5 DEF Typed, Icmps
<1>7. PICK grow : grow = n - (p - o)
  OBVIOUS
<1>8. grow = Len(segments) - (Header(data, views[i]).len + 1)
  BY <1>3, <1>4, <1>5, <1>6, <1>7 DEF Header, At
<1>9. CASE segments # <<>> /\ (grow > 0 => CanExtend(data, grow))
  <2>1. n > 0
    BY <1>2, <1>3, <1>9
  <2>2. PICK e : e = Replaced(data, view, segments)
    OBVIOUS
  <2>3. /\ e \in Seq(Cell) /\ Len(e) = o + n + (Len(data) - p)
        /\ \A c \in 1 .. o - 1 : e[c] = data[c]
        /\ e[o].next = data[o].next /\ e[o].v = data[o].v
        /\ e[o].ext = 2 * n /\ e[o].len + 1 = n
        /\ \A c \in o + n + 1 .. o + n + (Len(data) - p) : e[c] = data[c - (o + n) + p]
    <3>1. Count(segments, n)
      BY <1>2, <1>3, <2>1 DEF Count
    <3>2. Between(data, view, o, p) /\ 0 < o /\ o <= p /\ p <= Len(data)
      BY <1>5
    <3>3. data \in Seq(Cell) /\ segments \in Seq(Word)
      BY <1>1, <1>2
    <3>4. Rewrites(data, e, o, p, n)
      BY <2>2, <3>1, <3>2, <3>3, ReplacedIs
    <3>5. QED
      BY <3>4 DEF Rewrites
  <2>4. Len(e) < Room
    <3>1. Len(e) = Len(data) + grow
      BY <1>1, <1>7, <2>3
    <3>2. grow \in Int
      BY <1>7
    <3>3. QED
      BY <1>1, <1>9, <3>1, <3>2 DEF CanExtend
  <2>5. PICK new : new = [view EXCEPT !.segs = n]
    OBVIOUS
  <2>6. /\ new \in ViewOf /\ new.k = "Srh" /\ new.msg = "none" /\ new.off = view.off
        /\ new.segs = n
    BY <1>6, <2>5 DEF ViewOf
  <2>7. data' = e /\ views' = [views EXCEPT ![i] = new]
    <3>1. data' = Replaced(data, views[i], segments)
      BY <1>8, <1>9 DEF SetSegments
    <3>2. views' = [views EXCEPT ![i].segs = Len(segments)]
      BY <1>8, <1>9 DEF SetSegments
    <3>3. QED
      BY <1>3, <1>4, <2>2, <2>5, <3>1, <3>2
  <2>8. /\ views' \in Seq(ViewOf) /\ Len(views') = Len(views)
        /\ \A j \in 1 .. Len(views) : views'[j] = IF j = i THEN new ELSE views[j]
    BY <1>1, <2>6, <2>7, Written DEF Typed
  <2>9. CASE i = Len(views)
    <3>1. PICK vs : vs = Front(views)
      OBVIOUS
    <3>2. views # <<>> /\ Last(views) = view
      BY <1>1, <1>4, <2>9 DEF Last
    <3>3. /\ Typed(data, vs) /\ Linked(data, vs) /\ Len(vs) = Len(views) - 1
          /\ PayloadOffset(data, vs) = view.off /\ TopKind(vs) \in Envelopes("Srh")
          /\ vs # <<>> => data[Last(vs).off + 1].next = "Srh"
      BY <1>1, <1>6, <3>1, <3>2, Below
    <3>4. \A j \in 1 .. Len(vs) : vs[j].msg = "none"
      BY <1>1, <3>1, <3>2, NoneBelow
    <3>5. view.off <= Len(e) /\ \A c \in 1 .. view.off : e[c] = data[c]
      <4>1. view.off = o - 1 /\ o - 1 <= Len(e)
        BY <1>1, <1>5, <2>3
      <4>2. QED
        BY <2>3, <4>1
    <3>6. Typed(e, vs) /\ Linked(e, vs) /\ PayloadOffset(e, vs) = view.off
      <4>1. PayloadOffset(data, vs) <= Len(e)
        BY <3>3, <3>5
      <4>2. \A c \in 1 .. PayloadOffset(data, vs) : e[c] = data[c]
        BY <3>3, <3>5
      <4>3. Typed(data, vs) /\ Linked(data, vs) /\ e \in Seq(Cell)
        BY <2>3, <3>3
      <4>4. Typed(e, vs) /\ Linked(e, vs) /\ PayloadOffset(e, vs) = PayloadOffset(data, vs)
        BY <3>4, <4>1, <4>2, <4>3, Behind
      <4>5. QED
        BY <3>3, <4>4
    <3>7. vs # <<>> => e[Last(vs).off + 1].next = "Srh"
      <4>1. SUFFICES ASSUME vs # <<>> PROVE e[Last(vs).off + 1].next = "Srh"
        OBVIOUS
      <4>2. PICK j \in 1 .. Len(vs) : Last(vs) = vs[j]
        BY <3>3, <4>1, OnTop
      <4>3. vs[j].off \in Nat /\ vs[j].off < End(data, vs[j]) /\ End(data, vs[j]) \in Nat
            /\ End(data, vs[j]) <= view.off
        BY <3>3, Inside, OnTop
      <4>4. vs[j].off + 1 \in 1 .. view.off
        BY <1>4, <4>3
      <4>5. QED
        BY <3>3, <3>5, <4>1, <4>2, <4>4
    <3>8. End(e, new) <= Len(e)
      <4>1. End(e, new) = view.off + (1 + n)
        BY <2>6, Lengths
      <4>2. QED
        BY <1>1, <1>5, <2>3, <4>1
    <3>9. Typed(e, Append(vs, new)) /\ Linked(e, Append(vs, new))
      <4>1. new.segs = e[new.off + 1].len + 1 /\ e[new.off + 1].ext = 2 * new.segs
        BY <1>6, <2>3, <2>6
      <4>2. QED
        BY <2>6, <3>3, <3>6, <3>7, <3>8, <4>1, NewView
    <3>10. views' = Append(vs, new)
      <4>1. PICK ws : ws = Append(vs, new)
        OBVIOUS
      <4>2. vs \in Seq(ViewOf)
        BY <3>3 DEF Typed
      <4>3. /\ ws \in Seq(ViewOf) /\ Len(ws) = Len(views) /\ ws[Len(views)] = new
            /\ \A j \in 1 .. Len(views) - 1 : ws[j] = vs[j]
        BY <1>1, <2>6, <3>3, <4>1, <4>2, Added
      <4>4. \A j \in 1 .. Len(views) - 1 : vs[j] = views[j]
        <5>1. views # <<>>
          BY <3>2
        <5>2. \A j \in 1 .. Len(views) - 1 : Front(views)[j] = views[j]
          BY <1>1, <5>1, Below
        <5>3. QED
          BY <3>1, <5>2
      <4>5. \A j \in 1 .. Len(views) : views'[j] = ws[j]
        BY <1>1, <2>8, <2>9, <4>3, <4>4
      <4>6. QED
        BY <2>8, <4>1, <4>3, <4>5
    <3>11. QED
      BY <1>1, <2>4, <2>7, <2>8, <3>9, <3>10 DEF Good
  <2>10. CASE i # Len(views)
    <3>1. grow = 0
      BY <1>8, <2>10 DEF SetSegments
    <3>2. n = p - o /\ o + n = p
      BY <1>7, <3>1
    <3>3. new = view
      BY <1>5, <2>5, <3>2 DEF ViewOf
    <3>4. views' = views
      BY <1>1, <1>4, <2>8, <3>3 DEF Typed
    <3>5. Len(e) = Len(data)
      BY <1>1, <2>3, <3>2
    <3>6. ASSUME NEW j \in 1 .. Len(views)
          PROVE  /\ Same(data, e, views, j) /\ End(data, views[j]) <= Len(e)
                 /\ views[j].msg # "none" => views[j].off + 1 < Len(e)
      <4>1. /\ End(data, views[j]) <= Len(e) /\ views[j].off + 1 \in 1 .. Len(data)
            /\ views[j].off \in Nat /\ views[j].off < End(data, views[j])
            /\ End(data, views[j]) \in Nat
        BY <1>1, <3>5, Inside
      <4>2. views[j].msg # "none" => views[j].off + 1 < Len(e)
        BY <1>1, <3>5 DEF Linked, LinkedAt
      <4>3. CASE j = i
        <5>1. e[o].len = data[o].len /\ e[o].ext = data[o].ext
          <6>1. e[o].ext = data[o].ext
            BY <1>5, <2>3, <3>2
          <6>2. data[o].len + 1 = n /\ e[o].len + 1 = n
            BY <1>5, <2>3, <3>2
          <6>3. e[o] \in Cell /\ data[o] \in Cell
            BY <1>1, <1>5, <2>3, <3>5
          <6>4. e[o].len \in Nat /\ data[o].len \in Nat
            BY <6>3, WordFacts DEF Cell
          <6>5. QED
            BY <6>1, <6>2, <6>4
        <5>2. QED
          BY <1>4, <1>6, <2>3, <4>1, <4>2, <4>3, <5>1 DEF Same
      <4>4. CASE j < i
        <5>1. End(data, views[j]) <= view.off
          BY <1>1, <1>4, <4>4 DEF Linked
        <5>2. views[j].off + 1 \in 1 .. o - 1
          BY <1>5, <4>1, <5>1
        <5>3. e[views[j].off + 1] = data[views[j].off + 1]
          BY <2>3, <5>2
        <5>4. QED
          BY <4>1, <4>2, <5>3 DEF Same
      <4>5. CASE i < j
        <5>1. p <= views[j].off
          BY <1>1, <1>4, <1>5, <4>5 DEF Linked
        <5>2. PICK c : c = views[j].off + 1
          OBVIOUS
        <5>3. c \in o + n + 1 .. o + n + (Len(data) - p) /\ c - (o + n) + p = c
          <6>1. PICK len \in Nat : len = Len(data)
            BY <1>1
          <6>2. c \in 1 .. len
            BY <4>1, <5>2, <6>1
          <6>3. p < c /\ o \in Nat /\ p \in Nat
            <7>1. o \in Nat /\ p \in Nat
              BY <1>5
            <7>2. views[j].off \in Nat
              BY <4>1
            <7>3. p < views[j].off + 1
              BY <5>1, <7>1, <7>2
            <7>4. QED
              BY <5>2, <7>1, <7>3
          <6>4. o + n = p
            BY <3>2
          <6>5. c \in o + n + 1 .. o + n + (len - p) /\ c - (o + n) + p = c
            BY <6>2, <6>3, <6>4
          <6>6. QED
            BY <6>1, <6>5
        <5>4. e[c] = data[c]
          BY <2>3, <5>3
        <5>5. e[views[j].off + 1] = data[views[j].off + 1]
          BY <5>2, <5>4
        <5>6. QED
          BY <4>1, <4>2, <5>5 DEF Same
      <4>6. QED
        BY <1>1, <4>3, <4>4, <4>5
    <3>7. Typed(e, views) /\ Linked(e, views)
      BY <1>1, <2>3, <3>6, Agreeing
    <3>8. QED
      BY <1>1, <2>4, <2>7, <3>4, <3>7 DEF Good
  <2>11. QED
    BY <2>9, <2>10
<1>10. CASE ~(segments # <<>> /\ (grow > 0 => CanExtend(data, grow)))
  <2>1. UNCHANGED <<data, views>>
    BY <1>8, <1>10 DEF SetSegments, Keep
  <2>2. QED
    BY <2>1, KeepGood
<1>11. QED
  BY <1>9, <1>10

-----------------------------------------------------------------------------
(* reconcile_all *)

\* The length of a header is set; that of a routing header is part of its structure.
WithLength(d, view, w) == [d EXCEPT ![view.off + 1].len = w]

\* So the length of any other may be set.
LEMMA LengthSet ==
  ASSUME NEW d, NEW vs, Typed(d, vs), Linked(d, vs), NEW n \in 1 .. Len(vs), NEW w \in Word,
         vs[n].k # "Srh"
  PROVE  LET e == WithLength(d, vs[n], w)
         IN  /\ e \in Seq(Cell) /\ Len(e) = Len(d) /\ Typed(e, vs) /\ Linked(e, vs)
             /\ PayloadOffset(e, vs) = PayloadOffset(d, vs)
<1>1. PICK g \in Cell : g = d[vs[n].off + 1]
  BY Inside
<1>2. PICK cell : cell = [g EXCEPT !.len = w]
  OBVIOUS
<1>3. cell \in Cell /\ Alike(vs[n], g, cell)
  <2>1. cell \in Cell
    BY <1>2, FieldSet
  <2>2. cell.next = g.next /\ cell.v = g.v
    BY <1>1, <1>2 DEF Cell
  <2>3. QED
    BY <2>1, <2>2 DEF Alike
<1>4. WithLength(d, vs[n], w) = SetHeader(d, vs[n], cell)
  BY <1>1, <1>2 DEF SetHeader, WithLength
<1>5. QED
  BY <1>1, <1>3, <1>4, HeaderWritten

\* The first n views, and the one on top of them.
LEMMA UpTo ==
  ASSUME NEW d, NEW vs, Typed(d, vs), Linked(d, vs), NEW n \in 1 .. Len(vs)
  PROVE  LET ws == SubSeq(vs, 1, n)
         IN  /\ Typed(d, ws) /\ Linked(d, ws) /\ Len(ws) = n /\ ws # <<>> /\ Last(ws) = vs[n]
             /\ n = Len(vs) => ws = vs
<1>1. PICK ws : ws = SubSeq(vs, 1, n)
  OBVIOUS
<1>2. n \in 0 .. Len(vs) /\ n \in Nat /\ n # 0 /\ Len(vs) \in Nat /\ vs \in Seq(ViewOf)
  BY Inside DEF Typed
<1>3. Typed(d, ws) /\ Linked(d, ws)
  BY <1>1, <1>2, Prefix
<1>4. ws \in Seq(ViewOf) /\ Len(ws) = n /\ \A i \in 1 .. n : ws[i] = vs[i]
  BY <1>1, <1>2, FirstOf
<1>5. ws # <<>>
  BY <1>2, <1>4
<1>6. Last(ws) = vs[n]
  BY <1>2, <1>4 DEF Last
<1>7. n = Len(vs) => ws = vs
  BY <1>2, <1>4
<1>8. QED
  BY <1>1, <1>3, <1>4, <1>5, <1>6, <1>7

\* What has a checksum over a packet has the headers of a packet below it.
Checked == {"Udp", "Tcp", "Icmpv4", "Icmpv6"}

\* The stack below such a view has an IP header.
LEMMA OverIp ==
  ASSUME NEW d, NEW vs, Typed(d, vs), Linked(d, vs), vs # <<>>, Last(vs).k \in Checked
  PROVE  Typed(d, Front(vs)) /\ Linked(d, Front(vs)) /\ Len(Front(vs)) > 1
<1>1. PICK ips : ips = Front(vs)
  OBVIOUS
<1>2. Typed(d, ips) /\ Linked(d, ips) /\ TopKind(ips) \in Envelopes(Last(vs).k)
  BY <1>1, Below
<1>3. TopKind(ips) \in {"Ipv4", "Ipv6", "Srh", "Fragment"}
  <2>1. Last(vs).k \in Kinds
    BY DEF Checked, Kinds
  <2>2. QED
    BY <1>2, <2>1, EnvelopesAre DEF Checked
<1>4. ips # <<>>
  BY <1>2, <1>3, OnTop
<1>5. PICK m \in 1 .. Len(ips) : m = Len(ips) /\ TopKind(ips) = ips[m].k
  BY <1>2, <1>4, OnTop
<1>6. m # 1 /\ Len(ips) \in Nat
  BY <1>2, <1>3, <1>5, Inside, Stack
<1>7. QED
  BY <1>1, <1>2, <1>5, <1>6

\* The sum of a cell, and those of a packet.
LEMMA SumsAre ==
  /\ \A cell \in Cell : Sum(cell) \in Nat
  /\ \A cells \in Seq(Cell) : Sums(cells) \in Seq(Nat)
<1>1. ASSUME NEW cell \in Cell PROVE Sum(cell) \in Nat
  <2>1. /\ cell.src \in Nat /\ cell.dst \in Nat /\ cell.len \in Nat /\ cell.ext \in Nat
        /\ cell.csum \in Nat /\ cell.v \in Nat /\ cell.next \in DOMAIN Number
    BY WordFacts DEF Cell
  <2>2. Number[cell.next] \in Nat
    BY <2>1, PacketsAssumption, WordFacts
  <2>3. QED
    BY <2>1, <2>2 DEF Sum
<1>2. ASSUME NEW cells \in Seq(Cell) PROVE Sums(cells) \in Seq(Nat)
  <2>1. DOMAIN cells = 1 .. Len(cells) /\ Len(cells) \in Nat
        /\ \A i \in 1 .. Len(cells) : cells[i] \in Cell
    OBVIOUS
  <2>2. \A i \in 1 .. Len(cells) : Sum(cells[i]) \in Nat
    BY <1>1, <2>1
  <2>3. QED
    BY <2>1, <2>2 DEF Sums
<1>3. QED
  BY <1>1, <1>2

\* The sum of the pseudo-header is a number.
LEMMA PseudoHeaderSumIs ==
  ASSUME NEW d, NEW vs, Typed(d, vs), Linked(d, vs), vs # <<>>, Last(vs).k \in Checked
  PROVE  PseudoHeaderSum(d, vs) \in Nat
<1>1. CASE Last(vs).k = "Icmpv4"
  BY <1>1 DEF PseudoHeaderSum
<1>2. CASE Last(vs).k # "Icmpv4"
  <2>1. Src(d, Front(vs)) \in Nat /\ Dst(d, Front(vs)) \in Nat
    BY OverIp, AddressWord, WordFacts
  <2>2. Len(d) - Last(vs).off \in Nat
    <3>1. PICK n \in 1 .. Len(vs) : Last(vs) = vs[n]
      BY OnTop
    <3>2. Len(d) \in Nat /\ vs[n].off \in Nat /\ vs[n].off + 1 \in 1 .. Len(d)
      BY Inside
    <3>3. QED
      BY <3>1, <3>2
  <2>3. Number[Last(vs).k] \in Nat
    BY PacketsAssumption, WordFacts DEF Checked
  <2>4. PseudoSum(Src(d, Front(vs)), Dst(d, Front(vs)), Len(d) - Last(vs).off,
                  Number[Last(vs).k]) \in Word
    BY <2>1, <2>2, <2>3, ChecksumWord
  <2>5. QED
    BY <1>2, <2>4, WordFacts DEF PseudoHeaderSum
<1>3. QED
  BY <1>1, <1>2

\* compute_checksum sets the checksum on top to a word.
LEMMA ComputeChecksumIs ==
  ASSUME NEW d, NEW vs, Typed(d, vs), Linked(d, vs), vs # <<>>, Last(vs).k \in Checked
  PROVE  \E w \in Word : ComputeChecksum(d, vs) = WithChecksum(d, Last(vs), w)
<1>1. PICK n \in 1 .. Len(vs) : Last(vs) = vs[n]
  BY OnTop
<1>2. 0 \in Word
  BY WordFacts
<1>3. PICK cleared : cleared = WithChecksum(d, vs[n], 0)
  OBVIOUS
<1>4. cleared \in Seq(Cell) /\ Len(cleared) = Len(d)
  BY <1>2, <1>3, ChecksumSet
<1>5. vs[n].off \in 0 .. Len(cleared)
  BY <1>4, Inside
<1>6. Sums(From(cleared, vs[n].off)) \in Seq(Nat)
  BY <1>4, <1>5, RestOf, SumsAre
<1>7. PICK csum : csum = Compute(PseudoHeaderSum(d, vs), Sums(From(cleared, vs[n].off)))
  OBVIOUS
<1>8. csum \in Word
  BY <1>6, <1>7, PseudoHeaderSumIs, ChecksumWord
<1>9. ForUdp(Last(vs).k, csum) \in Word
  BY <1>8, WordFacts DEF ForUdp
<1>10. ComputeChecksum(d, vs) = WithChecksum(d, Last(vs), ForUdp(Last(vs).k, csum))
  BY <1>1, <1>3, <1>7 DEF ComputeChecksum, WithChecksum
<1>11. QED
  BY <1>9, <1>10
-----------------------------------------------------------------------------
(* Checksums *)

\* A word that makes a sum verify, as compute does, or all ones in the place of zero.
LEMMA Computed ==
  ASSUME NEW n \in Nat, NEW k
  PROVE  Folded[n + ForUdp(k, Not(Folded[n]))] = AllOnes
<1>1. PICK h : h = Folded[n]
  OBVIOUS
<1>2. Folds(n, h) /\ h \in Nat /\ h <= AllOnes
  BY <1>1, FoldedFolds, FoldedWord, WordFacts DEF Word
<1>3. PICK q \in Nat : n = q * AllOnes + h
  BY <1>2 DEF Folds
<1>4. n + (AllOnes - h) = (q + 1) * AllOnes /\ n + (AllOnes - h) \in Nat
  BY <1>2, <1>3, WordFacts
<1>5. n + (AllOnes - h) # 0
  BY <1>2, WordFacts DEF Folds
<1>6. q + 1 \in Nat /\ q + 2 \in Nat
  OBVIOUS
<1>7. Folded[n + (AllOnes - h)] = AllOnes
  BY <1>4, <1>5, <1>6, AllOnesMultiple
<1>8. CASE k = "Udp" /\ AllOnes - h = 0
  <2>1. n + AllOnes = (q + 2) * AllOnes /\ n + AllOnes \in Nat /\ n + AllOnes # 0
    <3>1. h = AllOnes
      BY <1>2, <1>8, WordFacts
    <3>2. n = q * AllOnes + AllOnes
      BY <1>3, <3>1
    <3>3. QED
      BY <3>2, WordFacts
  <2>2. Folded[n + AllOnes] = AllOnes
    BY <1>6, <2>1, AllOnesMultiple
  <2>3. QED
    BY <1>1, <1>8, <2>2 DEF ForUdp, Not
<1>9. CASE ~(k = "Udp" /\ AllOnes - h = 0)
  BY <1>1, <1>7, <1>9 DEF ForUdp, Not
<1>10. QED
  BY <1>8, <1>9

\* The same for an incremental update.
LEMMA Updated ==
  ASSUME NEW rest \in Nat \ {0}, NEW old \in Word, NEW from \in Word, NEW to \in Word, NEW k,
         Folded[rest + old + from] = AllOnes
  PROVE  Folded[rest + ForUdp(k, ComputeInc(old, from, to)) + to] = AllOnes
<1>1. PICK w \in Word : w = ComputeInc(old, from, to)
  BY ChecksumWord
<1>2. Folded[rest + w + to] = AllOnes
  BY <1>1, IncrementalUpdate
<1>3. w \in Nat /\ to \in Nat
  BY WordFacts
<1>4. CASE k = "Udp" /\ w = 0
  <2>1. rest + to \in Nat /\ rest + w + to = rest + to
    BY <1>3, <1>4
  <2>2. PICK q \in Nat : rest + to = q * AllOnes
    BY <1>2, <2>1, AllOnesMultiple
  <2>3. /\ rest + AllOnes + to = (q + 1) * AllOnes /\ q + 1 \in Nat
        /\ rest + AllOnes + to \in Nat /\ rest + AllOnes + to # 0
    BY <1>3, <2>2, WordFacts
  <2>4. Folded[rest + AllOnes + to] = AllOnes
    BY <2>3, AllOnesMultiple
  <2>5. QED
    BY <1>1, <1>4, <2>4 DEF ForUdp
<1>5. CASE ~(k = "Udp" /\ w = 0)
  BY <1>1, <1>2, <1>5 DEF ForUdp
<1>6. QED
  BY <1>4, <1>5

\* A checksum adds to the sum of a header what it is.
LEMMA ChecksumAdds ==
  ASSUME NEW g \in Cell, NEW w \in Word
  PROVE  /\ Sum([g EXCEPT !.csum = 0]) \in Nat
         /\ Sum([g EXCEPT !.csum = w]) = Sum([g EXCEPT !.csum = 0]) + w
<1>1. PICK x \in Cell : x = [g EXCEPT !.csum = 0]
  BY FieldSet, WordFacts
<1>2. PICK y \in Cell : y = [g EXCEPT !.csum = w]
  BY FieldSet
<1>3. x.csum = 0 /\ y.csum = w /\ w \in Nat
  BY <1>1, <1>2, WordFacts DEF Cell
<1>4. /\ y.src = x.src /\ y.dst = x.dst /\ y.len = x.len /\ y.ext = x.ext /\ y.v = x.v
      /\ y.next = x.next
  BY <1>1, <1>2 DEF Cell
<1>5. x.src \in Nat /\ x.dst \in Nat /\ x.len \in Nat /\ x.ext \in Nat /\ x.v \in Nat
  BY WordFacts DEF Cell
<1>6. PICK num \in Nat : num = Number[x.next]
  BY PacketsAssumption, WordFacts DEF Cell
<1>7. PICK m \in Nat : m = x.src + x.dst + x.len + x.ext
  BY <1>5
<1>8. PICK v \in Nat : v = x.v
  BY <1>5
<1>9. Sum(x) = m + 0 + v + num
  BY <1>3, <1>6, <1>7, <1>8 DEF Sum
<1>10. Sum(y) = m + w + v + num
  BY <1>3, <1>4, <1>6, <1>7, <1>8 DEF Sum
<1>11. QED
  BY <1>1, <1>2, <1>3, <1>9, <1>10

\* The sum of what is behind an offset, with a checksum in the header there.
TailSum(d, o, w) == Total(Sums(From([d EXCEPT ![o + 1].csum = w], o)))

\* A checksum adds to it what it is.
LEMMA TailSumIs ==
  ASSUME NEW d \in Seq(Cell), NEW o \in Nat, o + 1 \in 1 .. Len(d), NEW w \in Word
  PROVE  TailSum(d, o, 0) \in Nat /\ TailSum(d, o, w) = TailSum(d, o, 0) + w
<1>1. PICK g \in Cell : g = d[o + 1]
  OBVIOUS
<1>2. PICK x : x = [g EXCEPT !.csum = 0]
  OBVIOUS
<1>3. PICK y : y = [g EXCEPT !.csum = w]
  OBVIOUS
<1>4. x \in Cell /\ y \in Cell
  BY <1>2, <1>3, FieldSet, WordFacts
<1>5. Sum(y) = Sum(x) + w /\ Sum(x) \in Nat /\ w \in Nat
  BY <1>2, <1>3, ChecksumAdds, WordFacts
<1>6. PICK e : e = [d EXCEPT ![o + 1] = x]
  OBVIOUS
<1>7. PICK f : f = [d EXCEPT ![o + 1] = y]
  OBVIOUS
<1>8. /\ e \in Seq(Cell) /\ Len(e) = Len(d)
      /\ \A i \in 1 .. Len(d) : e[i] = IF i = o + 1 THEN x ELSE d[i]
  BY <1>4, <1>6, Written
<1>9. /\ f \in Seq(Cell) /\ Len(f) = Len(d)
      /\ \A i \in 1 .. Len(d) : f[i] = IF i = o + 1 THEN y ELSE d[i]
  BY <1>4, <1>7, Written
<1>10. Len(d) \in Nat /\ o \in 0 .. Len(d) /\ o + 1 <= Len(d)
  OBVIOUS
<1>11. PICK s : s = From(e, o)
  OBVIOUS
<1>12. PICK t : t = From(f, o)
  OBVIOUS
<1>13. /\ s \in Seq(Cell) /\ Len(s) = Len(d) - o
       /\ \A i \in 1 .. Len(d) - o : s[i] = e[o + i]
  <2>1. e \in Seq(Cell) /\ o \in 0 .. Len(e)
    BY <1>8, <1>10, <1>11
  <2>2. /\ s \in Seq(Cell) /\ Len(s) = Len(e) - o
        /\ \A i \in 1 .. Len(e) - o : s[i] = e[o + i]
    BY <2>1, <1>11, RestOf
  <2>3. QED
    BY <2>2, <1>8
<1>14. /\ t \in Seq(Cell) /\ Len(t) = Len(d) - o
       /\ \A i \in 1 .. Len(d) - o : t[i] = f[o + i]
  <2>1. f \in Seq(Cell) /\ o \in 0 .. Len(f)
    BY <1>9, <1>10, <1>12
  <2>2. /\ t \in Seq(Cell) /\ Len(t) = Len(f) - o
        /\ \A i \in 1 .. Len(f) - o : t[i] = f[o + i]
    BY <2>1, <1>12, RestOf
  <2>3. QED
    BY <2>2, <1>9
<1>15. s[1] = x /\ t[1] = y /\ 1 \in 1 .. Len(d) - o
  BY <1>8, <1>9, <1>10, <1>13, <1>14
<1>16. \A i \in 1 .. Len(d) - o : i # 1 => s[i] = t[i]
  <2>1. ASSUME NEW i \in 1 .. Len(d) - o, i # 1 PROVE s[i] = t[i]
    <3>1. o + i \in 1 .. Len(d) /\ o + i # o + 1
      BY <1>10, <2>1
    <3>2. e[o + i] = d[o + i] /\ f[o + i] = d[o + i]
      BY <1>8, <1>9, <3>1
    <3>3. QED
      BY <1>13, <1>14, <3>2
  <2>2. QED
    BY <2>1
<1>17. PICK a : a = Sums(s)
  OBVIOUS
<1>18. PICK b : b = Sums(t)
  OBVIOUS
<1>19. a \in Seq(Nat) /\ b \in Seq(Nat)
  BY <1>13, <1>14, <1>17, <1>18, SumsAre
<1>20. /\ Len(a) = Len(d) - o /\ Len(b) = Len(d) - o
       /\ \A i \in 1 .. Len(d) - o : a[i] = Sum(s[i]) /\ b[i] = Sum(t[i])
  <2>1. DOMAIN s = 1 .. Len(d) - o /\ DOMAIN t = 1 .. Len(d) - o /\ Len(d) - o \in Nat
    BY <1>10, <1>13, <1>14
  <2>2. /\ DOMAIN a = 1 .. Len(d) - o /\ DOMAIN b = 1 .. Len(d) - o
        /\ \A i \in 1 .. Len(d) - o : a[i] = Sum(s[i]) /\ b[i] = Sum(t[i])
    BY <1>17, <1>18, <2>1 DEF Sums
  <2>3. QED
    BY <1>19, <2>1, <2>2
<1>21. a[1] = Sum(x) /\ b[1] = Sum(y)
  BY <1>15, <1>20
<1>22. Total(b) = Total(a) - a[1] + b[1]
  <2>1. \A i \in 1 .. Len(a) : i # 1 => b[i] = a[i]
    BY <1>16, <1>20
  <2>2. 1 \in 1 .. Len(a) /\ Len(b) = Len(a)
    BY <1>15, <1>20
  <2>3. QED
    BY <1>19, <2>1, <2>2, TotalChange
<1>23. Total(a) \in Nat
  BY <1>19, TotalType
<1>24. Total(b) = Total(a) + w
  BY <1>5, <1>21, <1>22, <1>23
<1>25. TailSum(d, o, 0) = Total(a) /\ TailSum(d, o, w) = Total(b)
  BY <1>1, <1>2, <1>3, <1>6, <1>7, <1>11, <1>12, <1>17, <1>18 DEF TailSum
<1>26. QED
  BY <1>23, <1>24, <1>25

\* The sum as it is.
LEMMA TailSumNow ==
  ASSUME NEW d \in Seq(Cell), NEW o \in Nat, o + 1 \in 1 .. Len(d)
  PROVE  /\ d[o + 1].csum \in Word
         /\ Total(Sums(From(d, o))) = TailSum(d, o, 0) + d[o + 1].csum
<1>1. PICK g \in Cell : g = d[o + 1]
  OBVIOUS
<1>2. g.csum \in Word
  BY DEF Cell
<1>3. [d EXCEPT ![o + 1].csum = g.csum] = d
  <2>1. [g EXCEPT !.csum = g.csum] = g
    BY DEF Cell
  <2>2. [d EXCEPT ![o + 1] = g] = d
    BY <1>1
  <2>3. QED
    BY <1>1, <2>1, <2>2
<1>4. TailSum(d, o, g.csum) = Total(Sums(From(d, o)))
  BY <1>3 DEF TailSum
<1>5. QED
  BY <1>1, <1>2, <1>4, TailSumIs

\* It is the same of packets that are alike behind the offset.
LEMMA TailSumSame ==
  ASSUME NEW d \in Seq(Cell), NEW e \in Seq(Cell), Len(e) = Len(d),
         NEW o \in Nat, o + 1 \in 1 .. Len(d), \A i \in o + 1 .. Len(d) : e[i] = d[i]
  PROVE  TailSum(e, o, 0) = TailSum(d, o, 0)
<1>1. PICK g \in Cell : g = d[o + 1] /\ g = e[o + 1]
  <2>1. d[o + 1] \in Cell /\ Len(d) \in Nat /\ o + 1 \in o + 1 .. Len(d)
    OBVIOUS
  <2>2. QED
    BY <2>1
<1>2. PICK c : c = [g EXCEPT !.csum = 0]
  OBVIOUS
<1>3. c \in Cell
  BY <1>2, FieldSet, WordFacts
<1>4. PICK x : x = [d EXCEPT ![o + 1] = c]
  OBVIOUS
<1>5. PICK y : y = [e EXCEPT ![o + 1] = c]
  OBVIOUS
<1>6. /\ Len(x) = Len(d) /\ Len(d) \in Nat
      /\ \A i \in 1 .. Len(d) : x[i] = IF i = o + 1 THEN c ELSE d[i]
  BY <1>3, <1>4, Written
<1>7. Len(y) = Len(d) /\ \A i \in 1 .. Len(e) : y[i] = IF i = o + 1 THEN c ELSE e[i]
  BY <1>3, <1>5, Written
<1>8. \A i \in o + 1 .. Len(d) : x[i] = y[i]
  BY <1>6, <1>7
<1>9. From(x, o) = From(y, o)
  BY <1>6, <1>7, <1>8 DEF From
<1>10. QED
  BY <1>1, <1>2, <1>4, <1>5, <1>9 DEF TailSum

\* The routing header that is nearest to what is carried.
LastSrh(vs) == CHOOSE i \in Srhs(vs) : \A j \in Srhs(vs) : j <= i

\* Where the destination address is, and that it is in the headers.
LEMMA DestinationIs ==
  ASSUME NEW d, NEW vs, Typed(d, vs), Linked(d, vs), Len(vs) > 1
  PROVE  /\ Srhs(vs) = {} => Dst(d, vs) = d[vs[2].off + 1].dst
         /\ Srhs(vs) # {} =>
              /\ LastSrh(vs) \in Srhs(vs) /\ LastSrh(vs) \in 1 .. Len(vs)
              /\ LastSrh(vs) > 2 /\ vs[LastSrh(vs)].k = "Srh"
              /\ \A j \in Srhs(vs) : j <= LastSrh(vs)
              /\ vs[LastSrh(vs)].off + 2 \in 1 .. PayloadOffset(d, vs)
              /\ Dst(d, vs) = d[vs[LastSrh(vs)].off + 2].v
<1>1. Len(vs) \in Nat /\ DOMAIN vs = 1 .. Len(vs) /\ Len(d) \in Nat
  BY Inside DEF Typed
<1>2. IpView(vs) = vs[2]
  BY IpIsSecond
<1>3. ASSUME Srhs(vs) = {} PROVE Dst(d, vs) = d[vs[2].off + 1].dst
  BY <1>2, <1>3 DEF Dst, Header, At
<1>4. ASSUME Srhs(vs) # {}
      PROVE  /\ LastSrh(vs) \in Srhs(vs) /\ LastSrh(vs) \in 1 .. Len(vs)
             /\ LastSrh(vs) > 2 /\ vs[LastSrh(vs)].k = "Srh"
             /\ \A j \in Srhs(vs) : j <= LastSrh(vs)
             /\ vs[LastSrh(vs)].off + 2 \in 1 .. PayloadOffset(d, vs)
             /\ Dst(d, vs) = d[vs[LastSrh(vs)].off + 2].v
  <2>1. PICK i : i = LastSrh(vs)
    OBVIOUS
  <2>2. Srhs(vs) \in SUBSET (1 .. Len(vs))
    BY <1>1 DEF Srhs
  <2>3. \E h \in Srhs(vs) : \A j \in Srhs(vs) : j <= h
    BY <1>1, <1>4, <2>2, Largest
  <2>4. i \in Srhs(vs) /\ \A j \in Srhs(vs) : j <= i
    BY <2>1, <2>3 DEF LastSrh
  <2>5. i \in 1 .. Len(vs) /\ vs[i].k = "Srh"
    BY <1>1, <2>4 DEF Srhs
  <2>6. i > 2
    <3>1. i # 1 /\ i # 2
      BY <2>5, Stack
    <3>2. QED
      BY <1>1, <2>5, <3>1
  <2>7. vs[i].off + 2 \in 1 .. PayloadOffset(d, vs) /\ vs[i].off \in Nat
    <3>1. /\ vs[i] \in ViewOf /\ vs[i].off \in Nat /\ End(d, vs[i]) <= PayloadOffset(d, vs)
          /\ PayloadOffset(d, vs) \in Nat
      BY <1>1, <2>5, Inside, OnTop
    <3>2. \E o, p \in Nat : SegmentsAt(d, vs[i], o, p)
      BY <2>5, SegmentsIn
    <3>3. PICK o \in Nat, p \in Nat : SegmentsAt(d, vs[i], o, p)
      BY <3>2
    <3>4. o = vs[i].off + 1 /\ End(d, vs[i]) = p /\ p = o + (d[o].len + 1) /\ d[o].len \in Nat
      BY <3>3 DEF SegmentsAt, Between
    <3>5. PICK len \in Nat, off \in Nat, top \in Nat :
            len = d[o].len /\ off = vs[i].off /\ top = PayloadOffset(d, vs)
      BY <3>1, <3>4
    <3>6. off + 1 + (len + 1) <= top
      BY <3>1, <3>4, <3>5
    <3>7. off + 2 \in 1 .. top
      BY <3>6
    <3>8. QED
      BY <3>1, <3>5, <3>7
  <2>8. Dst(d, vs) = d[vs[i].off + 1 + 1].v
    BY <1>4, <2>1 DEF Dst, At, LastSrh
  <2>9. vs[i].off + 1 + 1 = vs[i].off + 2
    BY <2>7
  <2>10. QED
    BY <2>1, <2>4, <2>5, <2>6, <2>7, <2>8, <2>9
<1>5. QED
  BY <1>3, <1>4

\* The addresses stay when the fields that hold them do.
LEMMA AddressesStay ==
  ASSUME NEW d, NEW e, NEW vs, Typed(d, vs), Linked(d, vs), Typed(e, vs), Linked(e, vs),
         Len(vs) > 1
  PROVE  /\ (\A c \in 1 .. PayloadOffset(d, vs) : e[c].src = d[c].src) => Src(e, vs) = Src(d, vs)
         /\ (\A c \in 1 .. PayloadOffset(d, vs) : e[c].dst = d[c].dst /\ e[c].v = d[c].v) =>
              Dst(e, vs) = Dst(d, vs)
<1>1. 2 \in 1 .. Len(vs) /\ IpView(vs) = vs[2]
  BY IpIsSecond
<1>2. vs[2].off + 1 \in 1 .. PayloadOffset(d, vs)
  <2>1. /\ vs[2].off \in Nat /\ End(d, vs[2]) \in Nat /\ PayloadOffset(d, vs) \in Nat
        /\ vs[2].off < End(d, vs[2]) /\ End(d, vs[2]) <= PayloadOffset(d, vs)
    BY <1>1, Inside, OnTop
  <2>2. QED
    BY <2>1
<1>3. Src(d, vs) = d[vs[2].off + 1].src /\ Src(e, vs) = e[vs[2].off + 1].src
  BY <1>1 DEF Src, Header, At
<1>4. CASE Srhs(vs) = {}
  <2>1. Dst(d, vs) = d[vs[2].off + 1].dst /\ Dst(e, vs) = e[vs[2].off + 1].dst
    BY <1>4, DestinationIs
  <2>2. QED
    BY <1>2, <1>3, <2>1
<1>5. CASE Srhs(vs) # {}
  <2>1. PICK c \in 1 .. PayloadOffset(d, vs) : c = vs[LastSrh(vs)].off + 2
    BY <1>5, DestinationIs
  <2>2. Dst(d, vs) = d[c].v /\ Dst(e, vs) = e[c].v
    BY <1>5, <2>1, DestinationIs
  <2>3. QED
    BY <1>2, <1>3, <2>2
<1>6. QED
  BY <1>4, <1>5

\* What a receiver of UDP, TCP or ICMP for IPv6 verifies.
LEMMA ValidIs ==
  ASSUME NEW d, NEW vs, Typed(d, vs), Linked(d, vs), vs # <<>>, Last(vs).k \in Checked,
         Last(vs).k # "Icmpv4"
  PROVE  Valid(d, vs) <=>
           Folded[Src(d, Front(vs)) + Dst(d, Front(vs)) + (Len(d) - Last(vs).off)
                    + Number[Last(vs).k] + Total(Sums(From(d, Last(vs).off)))] = AllOnes
<1>1. /\ Src(d, Front(vs)) \in Nat /\ Dst(d, Front(vs)) \in Nat
  BY OverIp, AddressWord, WordFacts
<1>2. /\ Len(d) - Last(vs).off \in Nat /\ Last(vs).off \in 0 .. Len(d)
  <2>1. PICK n \in 1 .. Len(vs) : Last(vs) = vs[n]
    BY OnTop
  <2>2. Len(d) \in Nat /\ vs[n].off \in Nat /\ vs[n].off + 1 \in 1 .. Len(d)
    BY Inside
  <2>3. QED
    BY <2>1, <2>2
<1>3. Number[Last(vs).k] \in Nat
  BY PacketsAssumption, WordFacts DEF Checked
<1>4. PICK n : n = Src(d, Front(vs)) + Dst(d, Front(vs)) + (Len(d) - Last(vs).off)
                     + Number[Last(vs).k]
  OBVIOUS
<1>5. n \in Nat
  <2>1. PICK src \in Nat, dst \in Nat, len \in Nat, k \in Nat :
          /\ src = Src(d, Front(vs)) /\ dst = Dst(d, Front(vs))
          /\ len = Len(d) - Last(vs).off /\ k = Number[Last(vs).k]
    BY <1>1, <1>2, <1>3
  <2>2. src + dst + len + k \in Nat
    OBVIOUS
  <2>3. QED
    BY <1>4, <2>1, <2>2
<1>6. PICK t \in Nat : t = Total(Sums(From(d, Last(vs).off)))
  <2>1. From(d, Last(vs).off) \in Seq(Cell)
    BY <1>2, RestOf DEF Typed
  <2>2. QED
    BY <2>1, SumsAre, TotalType
<1>7. PseudoHeaderSum(d, vs) = Folded[n]
  BY <1>4 DEF PseudoHeaderSum, PseudoSum
<1>8. Valid(d, vs) <=> Folded[Folded[n] + t] = AllOnes
  BY <1>6, <1>7 DEF Valid, Verifies
<1>9. Folded[Folded[n] + t] = Folded[n + t]
  BY <1>5, FoldTwice
<1>10. QED
  BY <1>4, <1>6, <1>8, <1>9

\* A change that keeps the headers in place.
Keeps(d, e, vs) ==
  /\ Typed(e, vs) /\ Linked(e, vs) /\ Len(e) <= Len(d)
  /\ PayloadOffset(e, vs) = PayloadOffset(d, vs)

\* compute_checksum of the first n views is one.
LEMMA ComputeChecksumKeeps ==
  ASSUME NEW d, NEW vs, Typed(d, vs), Linked(d, vs), NEW n \in 1 .. Len(vs), vs[n].k \in Checked
  PROVE  Keeps(d, ComputeChecksum(d, SubSeq(vs, 1, n)), vs)
<1>1. PICK ws : ws = SubSeq(vs, 1, n)
  OBVIOUS
<1>2. Typed(d, ws) /\ Linked(d, ws) /\ ws # <<>> /\ Last(ws) = vs[n]
  BY <1>1, UpTo
<1>3. PICK w \in Word : ComputeChecksum(d, ws) = WithChecksum(d, vs[n], w)
  BY <1>2, ComputeChecksumIs
<1>4. PICK e : e = WithChecksum(d, vs[n], w)
  OBVIOUS
<1>5. /\ Len(e) = Len(d) /\ Typed(e, vs) /\ Linked(e, vs)
      /\ PayloadOffset(e, vs) = PayloadOffset(d, vs)
  BY <1>4, ChecksumSet
<1>6. Keeps(d, e, vs)
  BY <1>5, Inside DEF Keeps
<1>7. QED
  BY <1>1, <1>3, <1>4, <1>6

\* A length fits in its field.
LEMMA LengthWord ==
  ASSUME NEW d, NEW vs, Typed(d, vs), Linked(d, vs), Len(d) < Room, NEW n \in 1 .. Len(vs)
  PROVE  Len(d) - vs[n].off \in Word /\ Len(d) - vs[n].off - 1 \in Word
<1>1. Len(d) \in Nat /\ vs[n].off \in Nat /\ vs[n].off + 1 \in 1 .. Len(d)
  BY Inside
<1>2. Len(d) < Mod /\ Mod \in Nat
  BY <1>1, PacketsAssumption, WordFacts
<1>3. QED
  BY <1>1, <1>2 DEF Word

\* HeadersFit of any packet.
Fits(d, vs) ==
  Len(vs) > 1 =>
    PayloadOffset(d, vs) + (IF Last(vs).msg = "none" THEN 0 ELSE 1)
      <= IpView(vs).off + MinMtu(vs)

\* An ICMP header for IPv6 is in an IPv6 packet.
LEMMA Icmpv6InIpv6 ==
  ASSUME NEW d, NEW vs, Typed(d, vs), Linked(d, vs), vs # <<>>, Last(vs).k = "Icmpv6"
  PROVE  Len(vs) > 1 /\ IpView(vs).off \in Nat /\ MinMtu(vs) = Ipv6MinMtu
<1>1. Last(vs).k \in Checked
  BY DEF Checked
<1>2. /\ Len(Front(vs)) > 1 /\ Len(Front(vs)) = Len(vs) - 1 /\ Len(vs) \in Nat
      /\ Last(vs) = vs[Len(vs)]
  BY <1>1, OverIp, Below, OnTop, Inside
<1>3. Len(vs) > 2
  BY <1>2
<1>4. 2 \in 1 .. Len(vs) /\ IpView(vs) = vs[2]
  BY <1>3, IpIsSecond
<1>5. vs[2].k \in {"Ipv4", "Ipv6"}
  BY <1>4, Stack
<1>6. 3 \in 1 .. Len(vs) /\ vs[2].k \in Envelopes(vs[3].k) /\ vs[3].k \in Kinds
  <2>1. 3 \in 1 .. Len(vs) /\ 3 > 1 /\ 3 - 1 = 2
    BY <1>2, <1>3
  <2>2. LinkedAt(d, vs, 3) /\ vs[3] \in ViewOf
    BY <2>1, Inside DEF Linked
  <2>3. QED
    BY <2>1, <2>2 DEF LinkedAt, ViewOf
<1>7. vs[3].k \in {"Srh", "Fragment", "Icmpv6"}
  <2>1. CASE Len(vs) = 3
    BY <1>2, <2>1
  <2>2. CASE Len(vs) # 3
    <3>1. 3 < Len(vs) /\ 3 # 1 /\ 3 # 2
      BY <1>2, <1>3, <2>2
    <3>2. QED
      BY <1>6, <3>1, Stack
  <2>3. QED
    BY <2>1, <2>2
<1>8. vs[2].k = "Ipv6"
  BY <1>5, <1>6, <1>7, EnvelopesAre
<1>9. QED
  BY <1>2, <1>3, <1>4, <1>8, Inside DEF MinMtu

\* A packet that is cut keeps its headers when they are before the cut.
LEMMA TruncateKeeps ==
  ASSUME NEW d, NEW vs, Typed(d, vs), Linked(d, vs), NEW m \in Nat,
         PayloadOffset(d, vs) < m
  PROVE  Keeps(d, Truncate(d, m), vs)
<1>1. PICK e : e = Truncate(d, m)
  OBVIOUS
<1>2. PICK o \in 0 .. Len(d) : o = PayloadOffset(d, vs)
  BY OnTop
<1>3. d \in Seq(Cell) /\ Len(d) \in Nat
  BY DEF Typed
<1>4. /\ e \in Seq(Cell) /\ Len(e) = IF m < Len(d) THEN m ELSE Len(d)
      /\ \A i \in 1 .. Len(e) : e[i] = d[i]
  BY <1>1, <1>3, TruncateIs
<1>5. o <= Len(e) /\ \A i \in 1 .. o : e[i] = d[i]
  BY <1>2, <1>3, <1>4
<1>6. ASSUME NEW i \in 1 .. Len(vs), vs[i].msg # "none" PROVE vs[i].off + 1 < Len(e)
  <2>1. vs[i].off + 1 < Len(d) /\ vs[i].off \in Nat
    BY <1>6, Inside DEF Linked, LinkedAt
  <2>2. End(d, vs[i]) <= o /\ End(d, vs[i]) \in Nat /\ vs[i].off < End(d, vs[i])
    BY <1>2, Inside, OnTop
  <2>3. QED
    BY <1>2, <1>3, <1>4, <2>1, <2>2
<1>7. Typed(e, vs) /\ Linked(e, vs) /\ PayloadOffset(e, vs) = PayloadOffset(d, vs)
  <2>1. PayloadOffset(d, vs) <= Len(e)
    BY <1>2, <1>5
  <2>2. \A i \in 1 .. PayloadOffset(d, vs) : e[i] = d[i]
    BY <1>2, <1>5
  <2>3. QED
    BY <1>4, <1>6, <2>1, <2>2, Behind
<1>8. Len(e) <= Len(d)
  BY <1>3, <1>4
<1>9. QED
  BY <1>1, <1>7, <1>8 DEF Keeps

\* So does an error message when it is cut.
LEMMA CutKeeps ==
  ASSUME NEW d, NEW vs, Typed(d, vs), Linked(d, vs), Fits(d, vs), NEW n \in 1 .. Len(vs),
         vs[n].k \in Icmps
  PROVE  Keeps(d, Cut(d, SubSeq(vs, 1, n)), vs)
<1>1. PICK ws : ws = SubSeq(vs, 1, n)
  OBVIOUS
<1>2. Last(ws) = vs[n] /\ (n = Len(vs) => ws = vs) /\ Len(vs) \in Nat /\ Len(d) \in Nat
      /\ d \in Seq(Cell)
  BY <1>1, UpTo, Inside DEF Typed
<1>3. Ipv4MinMtu \in Nat /\ Ipv6MinMtu \in Nat
  BY PacketsAssumption
<1>4. CASE vs[n].msg \notin Errors
  <2>1. Cut(d, ws) = d
    BY <1>2, <1>4 DEF Cut, Errors
  <2>2. QED
    BY <1>1, <1>2, <2>1 DEF Keeps
<1>5. CASE vs[n].msg \in Errors
  <2>1. vs[n].msg # "none"
    BY <1>5 DEF Errors
  <2>2. n = Len(vs)
    BY <1>2, <2>1, Stack
  <2>3. vs # <<>> /\ ws = vs /\ Last(vs) = vs[n]
    BY <1>2, <2>2
  <2>4. /\ vs[n].off \in Nat /\ vs[n].off + 1 = PayloadOffset(d, vs)
        /\ vs[n] \in ViewOf
    <3>1. vs[n] \in ViewOf /\ vs[n].off \in Nat /\ vs[n].k \notin {"Srh", "Ethernet"}
      BY Inside DEF Icmps
    <3>2. PayloadOffset(d, vs) = End(d, vs[n])
      BY <2>2, <2>3, OnTop
    <3>3. QED
      BY <3>1, <3>2, Lengths
  <2>5. CASE vs[n].k = "Icmpv4"
    <3>1. PICK m : m = vs[n].off + 2 + Ipv4MinMtu
      OBVIOUS
    <3>2. m \in Nat /\ PayloadOffset(d, vs) < m
      BY <1>3, <2>4, <3>1
    <3>3. Cut(d, ws) = Truncate(d, m)
      <4>1. vs[n].msg = "TimeExceeded"
        BY <1>5, <2>5 DEF Typed, Errors, Messages
      <4>2. QED
        BY <1>2, <3>1, <4>1 DEF Cut
    <3>4. QED
      BY <1>1, <3>2, <3>3, TruncateKeeps
  <2>6. CASE vs[n].k # "Icmpv4"
    <3>1. Last(vs).k = "Icmpv6"
      BY <2>3, <2>6 DEF Icmps
    <3>2. Len(vs) > 1 /\ IpView(vs).off \in Nat /\ MinMtu(vs) = Ipv6MinMtu
      BY <2>3, <3>1, Icmpv6InIpv6
    <3>3. PICK m : m = IpView(vs).off + Ipv6MinMtu
      OBVIOUS
    <3>4. PayloadOffset(d, vs) + 1 <= m
      BY <2>1, <2>3, <3>2, <3>3 DEF Fits
    <3>5. m \in Nat /\ PayloadOffset(d, vs) < m
      BY <1>3, <2>4, <3>2, <3>3, <3>4
    <3>6. Cut(d, ws) = Truncate(d, m)
      <4>1. vs[n].msg = "PacketTooBig"
        BY <1>5, <2>6 DEF Typed, Errors, Messages
      <4>2. QED
        BY <1>2, <2>3, <3>3, <4>1 DEF Cut
    <3>7. QED
      BY <1>1, <3>5, <3>6, TruncateKeeps
  <2>7. QED
    BY <2>5, <2>6
<1>6. QED
  BY <1>4, <1>5

\* The sum of one word.
LEMMA TotalOfOne == \A n \in Nat : Total(<<n>>) = n
<1>1. SUFFICES ASSUME NEW n \in Nat PROVE Total(<<n>>) = n
  OBVIOUS
<1>2. <<n>> \in Seq(Nat) /\ Len(<<n>>) = 1 /\ <<n>>[1] = n
  OBVIOUS
<1>3. PICK s : PartialSums(<<n>>, s) /\ Total(<<n>>) = s[1]
  BY <1>2, TotalSums
<1>4. s[0] = 0 /\ s[1] = s[1 - 1] + n
  BY <1>2, <1>3 DEF PartialSums
<1>5. QED
  BY <1>3, <1>4

\* The header of an IPv4 packet as reconcile writes it: the length is that of the
\* packet and the header verifies.
Ipv4Header(d, view, g, cell) ==
  /\ cell.len = Len(d) - view.off /\ Verifies(0, <<Sum(cell)>>)
  /\ cell.next = g.next /\ cell.src = g.src /\ cell.dst = g.dst /\ cell.v = g.v

\* reconcile does that and nothing else.
LEMMA ReconciledIpv4 ==
  ASSUME NEW d, NEW vs, Typed(d, vs), Linked(d, vs), Len(d) < Room, NEW n \in 1 .. Len(vs),
         vs[n].k = "Ipv4"
  PROVE  \E cell \in Cell :
           /\ Reconciled(d, SubSeq(vs, 1, n)) = SetHeader(d, vs[n], cell)
           /\ Ipv4Header(d, vs[n], d[vs[n].off + 1], cell)
<1>1. PICK ws : ws = SubSeq(vs, 1, n)
  OBVIOUS
<1>2. Last(ws) = vs[n]
  BY <1>1, UpTo
<1>3. PICK g \in Cell : g = d[vs[n].off + 1]
  BY Inside
<1>4. PICK len \in Word : len = Len(d) - vs[n].off
  BY LengthWord
<1>5. PICK f : f = [g EXCEPT !.len = len]
  OBVIOUS
<1>6. f \in Cell
  BY <1>5, FieldSet
<1>7. PICK cleared : cleared = [f EXCEPT !.csum = 0]
  OBVIOUS
<1>8. cleared \in Cell /\ Sum(cleared) \in Nat
  BY <1>6, <1>7, FieldSet, SumsAre, WordFacts
<1>9. PICK csum : csum = Compute(0, <<Sum(cleared)>>)
  OBVIOUS
<1>10. csum \in Word
  <2>1. <<Sum(cleared)>> \in Seq(Nat)
    BY <1>8
  <2>2. QED
    BY <1>9, <2>1, ChecksumWord
<1>11. PICK cell \in Cell : cell = [cleared EXCEPT !.csum = csum]
  BY <1>8, <1>10, FieldSet
<1>12. Ipv4Header(d, vs[n], g, cell)
  <2>1. PICK m \in Nat : m = Sum(cleared)
    BY <1>8
  <2>2. Sum(cell) = m + csum /\ csum \in Nat
    <3>1. cell = [f EXCEPT !.csum = csum]
      BY <1>7, <1>11
    <3>2. QED
      BY <1>6, <1>7, <1>10, <2>1, <3>1, ChecksumAdds, WordFacts
  <2>3. csum = Not(Folded[m])
    <3>1. Total(<<m>>) = m /\ 0 + m = m
      BY TotalOfOne
    <3>2. QED
      BY <1>9, <2>1, <3>1 DEF Compute
  <2>4. Folded[m + csum] = AllOnes
    <3>1. ForUdp("Ipv4", csum) = csum
      BY DEF ForUdp
    <3>2. QED
      BY <2>3, <3>1, Computed
  <2>5. Verifies(0, <<Sum(cell)>>)
    <3>1. PICK x \in Nat : x = m + csum
      BY <2>2
    <3>2. Total(<<x>>) = x /\ 0 + x = x
      BY TotalOfOne
    <3>3. QED
      BY <2>2, <2>4, <3>1, <3>2 DEF Verifies
  <2>6. /\ cell.len = len /\ cell.next = g.next /\ cell.src = g.src /\ cell.dst = g.dst
        /\ cell.v = g.v
    BY <1>5, <1>7, <1>11 DEF Cell
  <2>7. QED
    BY <1>4, <2>5, <2>6 DEF Ipv4Header
<1>13. Reconciled(d, ws) = SetHeader(d, vs[n], cell)
  <2>1. vs[n].off + 1 \in DOMAIN d
    BY Inside DEF Typed
  <2>2. Header([d EXCEPT ![vs[n].off + 1].len = len], vs[n]) = f
    BY <1>3, <1>5, <2>1 DEF Header, At
  <2>3. Header([d EXCEPT ![Last(ws).off + 1].len = Len(d) - Last(ws).off], Last(ws)) = f
    BY <1>2, <1>4, <2>2
  <2>4. Reconciled(d, ws) =
          SetHeader(d, Last(ws), [cleared EXCEPT !.csum = Compute(0, <<Sum(cleared)>>)])
    <3>1. Last(ws).k = "Ipv4"
      BY <1>2
    <3>2. [Header([d EXCEPT ![Last(ws).off + 1].len = Len(d) - Last(ws).off], Last(ws))
             EXCEPT !.csum = 0] = cleared
      BY <1>7, <2>3
    <3> DEFINE h == [Header([d EXCEPT ![Last(ws).off + 1].len = Len(d) - Last(ws).off], Last(ws))
                       EXCEPT !.csum = 0]
    <3>3. Reconciled(d, ws) = SetHeader(d, Last(ws), [h EXCEPT !.csum = Compute(0, <<Sum(h)>>)])
      BY <3>1 DEF Reconciled, Icmps
    <3>4. h = cleared
      BY <3>2
    <3> HIDE DEF h
    <3>5. QED
      BY <3>3, <3>4
  <2>5. QED
    BY <1>2, <1>9, <1>11, <2>4
<1>14. QED
  BY <1>1, <1>3, <1>12, <1>13

\* So the headers are kept.
LEMMA ReconciledIpv4Keeps ==
  ASSUME NEW d, NEW vs, Typed(d, vs), Linked(d, vs), Len(d) < Room, NEW n \in 1 .. Len(vs),
         vs[n].k = "Ipv4"
  PROVE  Keeps(d, Reconciled(d, SubSeq(vs, 1, n)), vs)
<1>1. PICK cell \in Cell :
        /\ Reconciled(d, SubSeq(vs, 1, n)) = SetHeader(d, vs[n], cell)
        /\ Ipv4Header(d, vs[n], d[vs[n].off + 1], cell)
  BY ReconciledIpv4
<1>2. PICK e : e = SetHeader(d, vs[n], cell)
  OBVIOUS
<1>3. Alike(vs[n], d[vs[n].off + 1], cell)
  BY <1>1 DEF Alike, Ipv4Header
<1>4. /\ Len(e) = Len(d) /\ Typed(e, vs) /\ Linked(e, vs)
      /\ PayloadOffset(e, vs) = PayloadOffset(d, vs)
  BY <1>2, <1>3, HeaderWritten
<1>5. Keeps(d, e, vs)
  BY <1>4, Inside DEF Keeps
<1>6. QED
  BY <1>1, <1>2, <1>5

\* One change after another.
LEMMA KeepsTwice ==
  ASSUME NEW d, NEW e, NEW f, NEW vs, Typed(d, vs), Keeps(d, e, vs), Keeps(e, f, vs)
  PROVE  Keeps(d, f, vs)
<1>1. Len(d) \in Nat /\ Len(e) \in Nat /\ Len(f) \in Nat
  BY DEF Keeps, Typed
<1>2. Len(f) <= Len(d)
  BY <1>1 DEF Keeps
<1>3. QED
  BY <1>2 DEF Keeps

\* reconcile of any view keeps the headers of all in place.
LEMMA ReconciledKeeps ==
  ASSUME NEW d, NEW vs, Typed(d, vs), Linked(d, vs), Len(d) < Room, Fits(d, vs),
         NEW n \in 1 .. Len(vs)
  PROVE  Keeps(d, Reconciled(d, SubSeq(vs, 1, n)), vs)
<1>1. PICK ws : ws = SubSeq(vs, 1, n)
  OBVIOUS
<1>2. Last(ws) = vs[n] /\ Len(d) \in Nat
  BY <1>1, UpTo, Inside
<1>3. CASE vs[n].k = "Ipv4"
  BY <1>3, ReconciledIpv4Keeps
<1>4. CASE vs[n].k = "Ipv6"
  <2>1. PICK w \in Word : w = Len(d) - vs[n].off - 1
    BY LengthWord
  <2>2. PICK e : e = WithLength(d, vs[n], w)
    OBVIOUS
  <2>3. /\ Len(e) = Len(d) /\ Typed(e, vs) /\ Linked(e, vs)
        /\ PayloadOffset(e, vs) = PayloadOffset(d, vs)
    BY <1>4, <2>2, LengthSet
  <2>4. Reconciled(d, ws) = e
    BY <1>2, <1>4, <2>1, <2>2 DEF Reconciled, WithLength, Icmps
  <2>5. Keeps(d, e, vs)
    BY <1>2, <2>3 DEF Keeps
  <2>6. QED
    BY <1>1, <2>4, <2>5
<1>5. CASE vs[n].k = "Udp"
  <2>1. PICK w \in Word : w = Len(d) - vs[n].off
    BY LengthWord
  <2>2. PICK e : e = WithLength(d, vs[n], w)
    OBVIOUS
  <2>3. /\ Len(e) = Len(d) /\ Typed(e, vs) /\ Linked(e, vs)
        /\ PayloadOffset(e, vs) = PayloadOffset(d, vs)
    BY <1>5, <2>2, LengthSet
  <2>4. Keeps(d, e, vs)
    BY <1>2, <2>3 DEF Keeps
  <2>5. Reconciled(d, ws) = ComputeChecksum(e, ws)
    BY <1>2, <1>5, <2>1, <2>2 DEF Reconciled, WithLength, Icmps
  <2>6. Keeps(e, ComputeChecksum(e, SubSeq(vs, 1, n)), vs)
    BY <1>5, <2>3, ComputeChecksumKeeps DEF Checked
  <2>7. QED
    BY <1>1, <2>4, <2>5, <2>6, KeepsTwice
<1>6. CASE vs[n].k = "Tcp"
  <2>1. Reconciled(d, ws) = ComputeChecksum(d, ws)
    BY <1>2, <1>6 DEF Reconciled, Icmps
  <2>2. QED
    BY <1>1, <1>6, <2>1, ComputeChecksumKeeps DEF Checked
<1>7. CASE vs[n].k \in Icmps
  <2>1. PICK e : e = Cut(d, ws)
    OBVIOUS
  <2>2. Keeps(d, e, vs)
    BY <1>1, <1>7, <2>1, CutKeeps
  <2>3. Typed(e, vs) /\ Linked(e, vs)
    BY <2>2 DEF Keeps
  <2>4. Reconciled(d, ws) = ComputeChecksum(e, ws)
    BY <1>2, <1>7, <2>1 DEF Reconciled, Icmps
  <2>5. Keeps(e, ComputeChecksum(e, SubSeq(vs, 1, n)), vs)
    BY <1>7, <2>3, ComputeChecksumKeeps DEF Checked, Icmps
  <2>6. QED
    BY <1>1, <2>2, <2>4, <2>5, KeepsTwice
<1>8. CASE vs[n].k \notin {"Ipv4", "Ipv6", "Udp", "Tcp"} \cup Icmps
  <2>1. Reconciled(d, ws) = d
    BY <1>2, <1>8 DEF Reconciled
  <2>2. QED
    BY <1>1, <1>2, <2>1 DEF Keeps
<1>9. QED
  BY <1>3, <1>4, <1>5, <1>6, <1>7, <1>8

\* What reconcile_all makes of the packet, from the view on top to each one.
Reconciling(r, d, vs) ==
  /\ r = [i \in 1 .. Len(vs) + 1 |->
            IF i > Len(vs) THEN d ELSE Reconciled(r[i + 1], SubSeq(vs, 1, i))]

\* The recursion in ReconcileAll has a solution.
LEMMA ReconcilingIs ==
  ASSUME NEW d, NEW vs, Len(vs) \in Nat
  PROVE  \E r : Reconciling(r, d, vs)
<1> DEFINE n == Len(vs)
           Step(e, i) == Reconciled(e, SubSeq(vs, 1, i))
           Solves(k, s) ==
             /\ s = [i \in n + 1 - k .. n + 1 |-> s[i]] /\ s[n + 1] = d
             /\ \A i \in n + 1 - k .. n : s[i] = Step(s[i + 1], i)
           T == {k \in Nat : k <= n => \E s : Solves(k, s)}
<1> HIDE DEF Step
<1>1. 0 \in T
  <2>1. Solves(0, [i \in n + 1 - 0 .. n + 1 |-> d])
    OBVIOUS
  <2>2. QED
    BY <2>1
<1>2. ASSUME NEW k \in T PROVE k + 1 \in T
  <2>1. SUFFICES ASSUME k + 1 <= n PROVE \E s : Solves(k + 1, s)
    <3>1. k + 1 \in Nat
      OBVIOUS
    <3> HIDE DEF Solves
    <3>2. QED
      BY <3>1
  <2>2. k \in Nat /\ k <= n
    BY <2>1
  <2>3. PICK s : Solves(k, s)
    <3> HIDE DEF Solves
    <3>1. QED
      BY <2>2
  <2> DEFINE m == n - k
             t == [i \in n + 1 - (k + 1) .. n + 1 |-> IF i = m THEN Step(s[m + 1], m) ELSE s[i]]
  <2>4. t[n + 1] = d
    BY <2>2, <2>3
  <2>5. ASSUME NEW i \in n + 1 - (k + 1) .. n PROVE t[i] = Step(t[i + 1], i)
    <3>1. CASE i = m
      BY <2>2, <3>1
    <3>2. CASE i # m
      <4>1. i \in n + 1 - k .. n /\ i + 1 # m
        BY <2>2, <3>2
      <4>2. t[i] = s[i] /\ t[i + 1] = s[i + 1]
        BY <2>2, <3>2, <4>1
      <4>3. s[i] = Step(s[i + 1], i)
        BY <2>3, <4>1
      <4>4. QED
        BY <4>2, <4>3
    <3>3. QED
      BY <3>1, <3>2
  <2>6. t = [i \in n + 1 - (k + 1) .. n + 1 |-> t[i]]
    OBVIOUS
  <2> HIDE DEF t
  <2>7. Solves(k + 1, t)
    BY <2>4, <2>5, <2>6
  <2>8. QED
    BY <2>7
<1>3. T = Nat
  <2> HIDE DEF T
  <2>1. T \in SUBSET Nat
    BY DEF T
  <2>2. QED
    BY <1>1, <1>2, <2>1, Natural
<1>4. PICK s : Solves(n, s)
  <2> HIDE DEF Solves
  <2>1. n \in T /\ n <= n
    BY <1>3
  <2>2. QED
    BY <2>1
<1>5. s = [i \in 1 .. n + 1 |-> IF i > n THEN d ELSE Step(s[i + 1], i)]
  <2>1. n + 1 - n = 1
    OBVIOUS
  <2>2. s = [i \in 1 .. n + 1 |-> s[i]]
    BY <1>4, <2>1
  <2>3. \A i \in 1 .. n + 1 : s[i] = IF i > n THEN d ELSE Step(s[i + 1], i)
    BY <1>4, <2>1
  <2>4. QED
    BY <2>2, <2>3
<1>6. QED
  BY <1>5 DEF Reconciling, Step

\* All of it keeps the headers in place.
LEMMA ReconcilingKeeps ==
  ASSUME NEW d, NEW vs, Typed(d, vs), Linked(d, vs), Len(d) < Room, Fits(d, vs),
         NEW r, Reconciling(r, d, vs), Len(vs) > 0
  PROVE  Keeps(d, r[1], vs)
<1> DEFINE n == Len(vs)
           T == {k \in Nat : k <= n => Keeps(d, r[n + 1 - k], vs)}
<1>1. n \in Nat /\ Len(d) \in Nat /\ Room \in Nat
  BY Inside, PacketsAssumption
<1>2. /\ r[n + 1] = d
      /\ \A i \in 1 .. n : r[i] = Reconciled(r[i + 1], SubSeq(vs, 1, i))
  BY <1>1 DEF Reconciling
<1>3. 0 \in T
  <2>1. Keeps(d, d, vs)
    BY <1>1 DEF Keeps
  <2>2. n + 1 - 0 = n + 1
    BY <1>1
  <2>3. QED
    BY <1>2, <2>1, <2>2
<1>4. ASSUME NEW k \in T PROVE k + 1 \in T
  <2>1. SUFFICES ASSUME k + 1 <= n PROVE Keeps(d, r[n + 1 - (k + 1)], vs)
    OBVIOUS
  <2>2. PICK m \in 1 .. n : m = n - k
    <3>1. k \in Nat
      OBVIOUS
    <3> HIDE DEF T
    <3>2. n - k \in 1 .. n
      BY <1>1, <2>1, <3>1
    <3>3. QED
      BY <3>2
  <2>3. PICK e : e = r[m + 1]
    OBVIOUS
  <2>4. Keeps(d, e, vs)
    <3>1. k <= n /\ n + 1 - k = m + 1
      BY <1>1, <2>1, <2>2
    <3>2. QED
      BY <2>3, <3>1
  <2>5. Typed(e, vs) /\ Linked(e, vs) /\ Len(e) < Room
    <3>1. Typed(e, vs) /\ Linked(e, vs) /\ Len(e) <= Len(d)
      BY <2>4 DEF Keeps
    <3>2. Len(e) \in Nat
      BY <3>1 DEF Typed
    <3>3. QED
      BY <1>1, <3>1, <3>2
  <2>6. Fits(e, vs)
    BY <2>4 DEF Fits, Keeps
  <2>7. Keeps(e, r[m], vs)
    BY <1>2, <2>2, <2>3, <2>5, <2>6, ReconciledKeeps
  <2>8. n + 1 - (k + 1) = m
    BY <1>1, <2>1, <2>2
  <2>9. QED
    BY <2>4, <2>7, <2>8, KeepsTwice
<1>5. T = Nat
  <2> HIDE DEF T
  <2>1. T \in SUBSET Nat
    BY DEF T
  <2>2. QED
    BY <1>3, <1>4, <2>1, Natural
<1>6. n \in T /\ n <= n /\ n + 1 - n = 1
  BY <1>1, <1>5
<1>7. QED
  BY <1>6

\* reconcile_all of the packet.
LEMMA ReconcileAllGood == ASSUME Good, HeadersFit, ReconcileAll PROVE Good'
<1>1. /\ Typed(data, views) /\ Linked(data, views) /\ Len(views) \in Nat /\ Len(data) \in Nat
      /\ Room \in Nat /\ Len(data) < Room
  BY Inside, PacketsAssumption DEF Good
<1>2. Len(views) > 0
  BY <1>1 DEF ReconcileAll, Typed
<1>3. Fits(data, views)
  BY DEF HeadersFit, Fits
<1>4. PICK r : Reconciling(r, data, views) /\ data' = r[1]
  <2>1. \E r : Reconciling(r, data, views)
    BY <1>1, ReconcilingIs
  <2>2. QED
    BY <2>1 DEF ReconcileAll, Reconciling
<1>5. Keeps(data, data', views)
  BY <1>1, <1>2, <1>3, <1>4, ReconcilingKeeps
<1>6. Len(data') < Room
  <2>1. Len(data') \in Nat /\ Len(data') <= Len(data)
    BY <1>5 DEF Keeps, Typed
  <2>2. QED
    BY <1>1, <2>1
<1>7. views' = views
  BY DEF ReconcileAll
<1>8. QED
  BY <1>5, <1>6, <1>7 DEF Good, Keeps

\* The source address that is set is the one of the packet, and nothing else changes.
LEMMA SourceChanges ==
  ASSUME NEW d, NEW vs, Typed(d, vs), Linked(d, vs), Len(vs) > 1, NEW a \in Word
  PROVE  LET e == SetSrc(d, vs, a)
         IN  /\ \A c \in 1 .. Len(d) : e[c].dst = d[c].dst /\ e[c].v = d[c].v
             /\ \A c \in PayloadOffset(d, vs) + 1 .. Len(d) : e[c] = d[c]
             /\ Src(e, vs) = a
<1>1. 2 \in 1 .. Len(vs) /\ IpView(vs) = vs[2]
  BY IpIsSecond
<1>2. PICK p : p = vs[2].off + 1
  OBVIOUS
<1>3. /\ d \in Seq(Cell) /\ Len(d) \in Nat /\ p \in 1 .. Len(d) /\ p <= PayloadOffset(d, vs)
      /\ PayloadOffset(d, vs) \in Nat
  <2>1. /\ vs[2].off \in Nat /\ End(d, vs[2]) \in Nat /\ PayloadOffset(d, vs) \in Nat
        /\ vs[2].off < End(d, vs[2]) /\ End(d, vs[2]) <= PayloadOffset(d, vs)
        /\ vs[2].off + 1 \in 1 .. Len(d)
    BY <1>1, Inside, OnTop
  <2>2. QED
    BY <1>2, <2>1 DEF Typed
<1>4. PICK g \in Cell : g = d[p]
  BY <1>3
<1>5. PICK cell : cell = [g EXCEPT !.src = a]
  OBVIOUS
<1>6. cell \in Cell /\ cell.src = a /\ cell.dst = g.dst /\ cell.v = g.v
  BY <1>5, FieldSet DEF Cell
<1>7. PICK e : e = [d EXCEPT ![p] = cell]
  OBVIOUS
<1>8. \A c \in 1 .. Len(d) : e[c] = IF c = p THEN cell ELSE d[c]
  BY <1>3, <1>6, <1>7, Written
<1>9. SetSrc(d, vs, a) = e
  BY <1>1, <1>2, <1>4, <1>5, <1>7 DEF SetSrc
<1>10. Src(e, vs) = a
  BY <1>1, <1>2, <1>3, <1>6, <1>8 DEF Src, Header, At
<1>11. \A c \in 1 .. Len(d) : e[c].dst = d[c].dst /\ e[c].v = d[c].v
  BY <1>4, <1>6, <1>8
<1>12. ASSUME NEW c \in PayloadOffset(d, vs) + 1 .. Len(d) PROVE e[c] = d[c]
  <2>1. c \in 1 .. Len(d) /\ c # p
    BY <1>3
  <2>2. QED
    BY <1>8, <2>1
<1>13. QED
  BY <1>9, <1>10, <1>11, <1>12

\* The destination address that is set is the one of the packet, whether it is in the
\* IP header or in a segment; the source and what is behind the headers stay.
LEMMA DestinationChanges ==
  ASSUME NEW d, NEW vs, Typed(d, vs), Linked(d, vs), Len(vs) > 1, NEW a \in Word
  PROVE  LET e == SetDst(d, vs, a)
         IN  /\ \A c \in 1 .. Len(d) : e[c].src = d[c].src
             /\ \A c \in PayloadOffset(d, vs) + 1 .. Len(d) : e[c] = d[c]
             /\ Dst(e, vs) = a
<1> DEFINE Off(k) == {vs[i].off : i \in {j \in SetsDst(d, vs) : vs[j].k = k}}
           A == Off("Ipv4") \cup Off("Ipv6")
           B == Off("Srh")
<1>1. /\ DOMAIN d = 1 .. Len(d) /\ Len(d) \in Nat /\ DOMAIN vs = 1 .. Len(vs)
      /\ \A i \in 1 .. Len(d) : d[i] \in Cell
  BY DEF Typed
<1>2. PICK e : e = SetDst(d, vs, a)
  OBVIOUS
<1>3. e = [c \in 1 .. Len(d) |->
             CASE c - 1 \in A -> [d[c] EXCEPT !.dst = a]
               [] c - 2 \in B -> [d[c] EXCEPT !.v = a]
               [] OTHER -> d[c]]
  BY <1>1, <1>2 DEF SetDst
<1>4. 2 \in 1 .. Len(vs) /\ IpView(vs) = vs[2] /\ vs[2].k \in {"Ipv4", "Ipv6"}
  BY IpIsSecond, Stack
<1>5. A \subseteq {vs[2].off}
  <2>1. ASSUME NEW i \in SetsDst(d, vs), vs[i].k \in {"Ipv4", "Ipv6"} PROVE i = 2
    <3>1. i \in 1 .. Len(vs)
      BY <1>1 DEF SetsDst
    <3>2. QED
      BY <2>1, <3>1, Stack
  <2>2. QED
    BY <2>1
<1>6. \A x \in B : \E i \in 1 .. Len(vs) : i \in Srhs(vs) /\ vs[i].k = "Srh" /\ x = vs[i].off
  BY <1>1 DEF SetsDst, Srhs
<1>7. 2 \in SetsDst(d, vs) => vs[2].off \in A
  BY <1>4
<1>8. \A i \in 1 .. Len(vs) : i \in SetsDst(d, vs) /\ vs[i].k = "Srh" => vs[i].off \in B
  OBVIOUS
<1>9. Srhs(vs) = {} => B = {}
  BY <1>6
<1> HIDE DEF A, B
<1>10. PICK top \in Nat : top = PayloadOffset(d, vs)
  BY OnTop
<1>11. vs[2].off \in Nat /\ vs[2].off + 1 \in 1 .. Len(d) /\ vs[2].off + 1 <= top
  <2>1. /\ vs[2].off \in Nat /\ End(d, vs[2]) \in Nat
        /\ vs[2].off < End(d, vs[2]) /\ End(d, vs[2]) <= PayloadOffset(d, vs)
        /\ vs[2].off + 1 \in 1 .. Len(d)
    BY <1>4, Inside, OnTop
  <2>2. QED
    BY <1>10, <2>1
<1>12. ASSUME NEW i \in 1 .. Len(vs), vs[i].k = "Srh"
       PROVE  /\ vs[i].off \in Nat /\ vs[i].off + 2 <= top /\ vs[i].off + 2 \in 1 .. Len(d)
              /\ vs[2].off < vs[i].off
  <2>1. /\ vs[i].off \in Nat /\ End(d, vs[i]) <= top /\ End(d, vs[i]) \in 1 .. Len(d)
    BY <1>10, Inside, OnTop
  <2>2. \E o, p \in Nat : SegmentsAt(d, vs[i], o, p)
    BY <1>12, SegmentsIn
  <2>3. PICK o \in Nat, p \in Nat : SegmentsAt(d, vs[i], o, p)
    BY <2>2
  <2>4. PICK len \in Nat : len = d[o].len
    BY <2>3 DEF SegmentsAt, Between
  <2>5. o = vs[i].off + 1 /\ End(d, vs[i]) = p /\ p = o + (len + 1)
    BY <2>3, <2>4 DEF SegmentsAt, Between
  <2>6. vs[i].off + 2 <= p
    BY <2>1, <2>5
  <2>7. i # 1 /\ i # 2
    BY <1>12, Stack
  <2>8. End(d, vs[2]) <= vs[i].off /\ vs[2].off < End(d, vs[2]) /\ End(d, vs[2]) \in Nat
    <3>1. 2 < i
      BY <1>1, <2>7
    <3>2. QED
      BY <1>4, <3>1, Inside DEF Linked
  <2>9. vs[2].off < vs[i].off
    BY <1>11, <2>1, <2>8
  <2>10. QED
    BY <1>1, <2>1, <2>5, <2>6, <2>9
<1>13. ASSUME NEW c \in 1 .. Len(d) PROVE e[c].src = d[c].src
  <2>1. d[c] \in Cell
    BY <1>1
  <2>2. e[c] \in {[d[c] EXCEPT !.dst = a], [d[c] EXCEPT !.v = a], d[c]}
    BY <1>3
  <2>3. QED
    BY <2>1, <2>2 DEF Cell
<1>14. ASSUME NEW c \in PayloadOffset(d, vs) + 1 .. Len(d) PROVE e[c] = d[c]
  <2>1. c \in 1 .. Len(d) /\ top < c
    BY <1>1, <1>10
  <2>2. c - 1 \notin A
    BY <1>5, <1>11, <2>1
  <2>3. c - 2 \notin B
    <3>1. SUFFICES ASSUME c - 2 \in B PROVE FALSE
      OBVIOUS
    <3>2. PICK i \in 1 .. Len(vs) : vs[i].k = "Srh" /\ c - 2 = vs[i].off
      BY <1>6, <3>1
    <3>3. vs[i].off \in Nat /\ vs[i].off + 2 <= top
      BY <1>12, <3>2
    <3>4. QED
      BY <2>1, <3>2, <3>3
  <2>4. QED
    BY <1>3, <2>1, <2>2, <2>3
<1>15. Typed(e, vs) /\ Linked(e, vs)
  <2>1. vs \in Seq(ViewOf)
    BY DEF Typed
  <2>2. QED
    BY <1>2, <2>1, DestinationSet
<1>16. ASSUME Srhs(vs) = {} PROVE Dst(e, vs) = a
  <2>1. PICK c : c = vs[2].off + 1
    OBVIOUS
  <2>2. c \in 1 .. Len(d) /\ c - 1 = vs[2].off
    BY <1>11, <2>1
  <2>3. 2 \in SetsDst(d, vs)
    BY <1>1, <1>4, <1>16 DEF SetsDst
  <2>4. c - 1 \in A /\ B = {}
    BY <1>7, <1>9, <1>16, <2>2, <2>3
  <2>5. e[c] = [d[c] EXCEPT !.dst = a]
    BY <1>3, <2>2, <2>4
  <2>6. e[c].dst = a
    BY <1>1, <2>2, <2>5 DEF Cell
  <2>7. Dst(e, vs) = e[c].dst
    BY <1>15, <1>16, <2>1, DestinationIs
  <2>8. QED
    BY <2>6, <2>7
<1>17. ASSUME Srhs(vs) # {} PROVE Dst(e, vs) = a
  <2>1. PICK i : i = LastSrh(vs)
    OBVIOUS
  <2>2. /\ i \in Srhs(vs) /\ i \in 1 .. Len(vs) /\ vs[i].k = "Srh"
        /\ \A j \in Srhs(vs) : j <= i /\ j \in 1 .. Len(vs)
    <3>1. \A j \in Srhs(vs) : j \in 1 .. Len(vs)
      BY <1>1 DEF Srhs
    <3>2. QED
      BY <1>17, <2>1, <3>1, DestinationIs
  <2>3. i \in SetsDst(d, vs)
    <3>1. ASSUME NEW j \in Srhs(vs) PROVE ~(j > i)
      <4>1. j \in Nat /\ i \in Nat /\ j <= i
        BY <2>2
      <4>2. QED
        BY <4>1
    <3>2. QED
      BY <1>1, <2>2, <3>1 DEF SetsDst
  <2>4. PICK c : c = vs[i].off + 2
    OBVIOUS
  <2>5. c \in 1 .. Len(d) /\ c - 2 = vs[i].off /\ c - 1 # vs[2].off
    BY <1>11, <1>12, <2>2, <2>4
  <2>6. c - 2 \in B /\ c - 1 \notin A
    BY <1>5, <1>8, <2>2, <2>3, <2>5
  <2>7. e[c] = [d[c] EXCEPT !.v = a]
    BY <1>3, <2>5, <2>6
  <2>8. e[c].v = a
    BY <1>1, <2>5, <2>7 DEF Cell
  <2>9. Dst(e, vs) = e[c].v
    BY <1>15, <1>17, <2>1, <2>4, DestinationIs
  <2>10. QED
    BY <2>8, <2>9
<1>18. QED
  BY <1>2, <1>13, <1>14, <1>16, <1>17

\* What is verified is a checksum and the sum of all the rest.
Rest(d, vs) ==
  (Len(d) - Last(vs).off) + Number[Last(vs).k] + TailSum(d, Last(vs).off, 0)

\* The checksum of UDP and TCP verifies when it and the rest sum to all ones.
LEMMA ValidRest ==
  ASSUME NEW d, NEW vs, Typed(d, vs), Linked(d, vs), vs # <<>>, Last(vs).k \in {"Udp", "Tcp"}
  PROVE  /\ Rest(d, vs) \in Nat \ {0} /\ Header(d, Last(vs)).csum \in Word
         /\ Src(d, Front(vs)) \in Word /\ Dst(d, Front(vs)) \in Word
         /\ Valid(d, vs) <=>
              Folded[Rest(d, vs) + Header(d, Last(vs)).csum
                       + Src(d, Front(vs)) + Dst(d, Front(vs))] = AllOnes
<1>1. Last(vs).k \in Checked /\ Last(vs).k # "Icmpv4"
  BY DEF Checked
<1>2. Src(d, Front(vs)) \in Word /\ Dst(d, Front(vs)) \in Word
  BY <1>1, OverIp, AddressWord
<1>3. PICK src \in Nat, dst \in Nat : src = Src(d, Front(vs)) /\ dst = Dst(d, Front(vs))
  BY <1>2, WordFacts
<1>4. PICK o : o = Last(vs).off
  OBVIOUS
<1>5. d \in Seq(Cell) /\ Len(d) \in Nat /\ o \in Nat /\ o + 1 \in 1 .. Len(d)
  <2>1. PICK n \in 1 .. Len(vs) : Last(vs) = vs[n]
    BY OnTop
  <2>2. QED
    BY <1>4, <2>1, Inside DEF Typed
<1>6. PICK len \in Nat \ {0} : len = Len(d) - o
  BY <1>5
<1>7. PICK num \in Nat : num = Number[Last(vs).k]
  BY PacketsAssumption, WordFacts
<1>8. /\ d[o + 1].csum \in Word
      /\ Total(Sums(From(d, o))) = TailSum(d, o, 0) + d[o + 1].csum
  BY <1>5, TailSumNow
<1>9. PICK h \in Nat : h = d[o + 1].csum
  BY <1>8, WordFacts
<1>10. PICK t \in Nat : t = TailSum(d, o, 0)
  BY <1>5, <1>8, TailSumIs
<1>11. Header(d, Last(vs)).csum = h
  BY <1>4, <1>9 DEF Header, At
<1>12. Rest(d, vs) = len + num + t
  BY <1>4, <1>6, <1>7, <1>10 DEF Rest
<1>13. len + num + t \in Nat \ {0}
  OBVIOUS
<1>14. Total(Sums(From(d, o))) = t + h
  BY <1>8, <1>9, <1>10
<1>15. Valid(d, vs) <=> Folded[src + dst + len + num + (t + h)] = AllOnes
  <2>1. Valid(d, vs) <=>
          Folded[Src(d, Front(vs)) + Dst(d, Front(vs)) + (Len(d) - Last(vs).off)
                   + Number[Last(vs).k] + Total(Sums(From(d, Last(vs).off)))] = AllOnes
    BY <1>1, ValidIs
  <2>2. QED
    BY <1>3, <1>4, <1>6, <1>7, <1>14, <2>1
<1>16. src + dst + len + num + (t + h) = (len + num + t) + h + src + dst
  OBVIOUS
<1>17. QED
  BY <1>2, <1>3, <1>8, <1>9, <1>11, <1>12, <1>13, <1>15, <1>16

\* An address is set, and the checksum is changed for it.
LEMMA SetIpCarries ==
  ASSUME Good, NEW field \in {"src", "dst"}, NEW a \in Addresses, SetIp(field, TRUE, a),
         Valid(data, views)
  PROVE  Valid(data', views')
<1>1. Typed(data, views) /\ Linked(data, views) /\ Len(views) \in Nat /\ a \in Word
  BY Inside, PacketsAssumption DEF Good
<1>2. TopKind(views) \in {"Udp", "Tcp"} /\ views # <<>>
  BY DEF SetIp, TopKind
<1>3. PICK n \in 1 .. Len(views) :
        n = Len(views) /\ Last(views) = views[n] /\ TopKind(views) = views[n].k
  BY <1>1, <1>2, OnTop
<1>4. PICK ips : ips = Front(views)
  OBVIOUS
<1>5. PICK top : top = views[n]
  OBVIOUS
<1>6. top = Last(views) /\ top.k = TopKind(views) /\ top.k \in {"Udp", "Tcp"} /\ top.k \in Checked
  BY <1>2, <1>3, <1>5 DEF Checked
<1>7. /\ Typed(data, ips) /\ Linked(data, ips) /\ Len(ips) > 1
      /\ PayloadOffset(data, ips) = top.off
  BY <1>1, <1>2, <1>4, <1>6, Below, OverIp
<1>8. PICK o \in Nat : o = top.off /\ o + 1 \in 1 .. Len(data)
  BY <1>1, <1>5, Inside
<1>9. data \in Seq(Cell) /\ Len(data) \in Nat
  BY <1>1 DEF Typed
<1>10. PICK src \in Word, dst \in Word : src = Src(data, ips) /\ dst = Dst(data, ips)
  BY <1>7, AddressWord
<1>11. PICK old \in Word : old = IF field = "src" THEN src ELSE dst
  OBVIOUS
<1>12. PICK set : set = IF field = "src" THEN SetSrc(data, ips, a) ELSE SetDst(data, ips, a)
  OBVIOUS
<1>13. set \in Seq(Cell) /\ Len(set) = Len(data) /\ Typed(set, views) /\ Linked(set, views)
  <2>1. CASE field = "src"
    <3>1. 2 \in 1 .. Len(ips) /\ IpView(ips) = ips[2]
      BY <1>7, IpIsSecond
    <3>2. 2 \in 1 .. Len(views) /\ ips[2] = views[2]
      <4>1. 2 \in 1 .. Len(Front(views)) /\ Len(Front(views)) = Len(views) - 1
        BY <1>1, <1>2, <1>4, <3>1, Below
      <4>2. 2 \in 1 .. Len(views) - 1
        BY <4>1
      <4>3. \A i \in 1 .. Len(views) - 1 : Front(views)[i] = views[i] /\ i \in 1 .. Len(views)
        BY <1>1, <1>2, Below
      <4>4. QED
        BY <1>4, <4>2, <4>3
    <3>3. views[2].k # "Ethernet"
      <4>1. \A i \in 1 .. Len(views) : views[i].k = "Ethernet" => i = 1
        BY <1>1, Stack
      <4>2. QED
        BY <3>2, <4>1
    <3>4. QED
      BY <1>1, <1>12, <2>1, <3>1, <3>2, <3>3, SourceSet
  <2>2. CASE field # "src"
    <3>1. ips \in Seq(ViewOf)
      BY <1>7 DEF Typed
    <3>2. QED
      BY <1>1, <1>12, <2>2, <3>1, DestinationSet
  <2>3. QED
    BY <2>1, <2>2
<1>14. Typed(set, ips) /\ Linked(set, ips)
  BY <1>2, <1>4, <1>13, Below
<1>15. /\ Src(set, ips) = IF field = "src" THEN a ELSE src
       /\ Dst(set, ips) = IF field = "src" THEN dst ELSE a
       /\ \A c \in o + 1 .. Len(data) : set[c] = data[c]
  <2>1. PayloadOffset(data, ips) = o /\ o <= Len(data)
    BY <1>7, <1>8
  <2>2. \A c \in 1 .. o : c \in 1 .. Len(data)
    BY <1>9, <2>1
  <2>3. CASE field = "src"
    <3>1. /\ \A c \in 1 .. Len(data) : set[c].dst = data[c].dst /\ set[c].v = data[c].v
          /\ \A c \in PayloadOffset(data, ips) + 1 .. Len(data) : set[c] = data[c]
          /\ Src(set, ips) = a
      BY <1>1, <1>7, <1>12, <2>3, SourceChanges
    <3>2. \A c \in 1 .. o : set[c].dst = data[c].dst /\ set[c].v = data[c].v
      BY <2>2, <3>1
    <3>3. Dst(set, ips) = dst
      BY <1>7, <1>10, <1>14, <2>1, <3>2, AddressesStay
    <3>4. QED
      BY <2>1, <2>3, <3>1, <3>3
  <2>4. CASE field # "src"
    <3>1. /\ \A c \in 1 .. Len(data) : set[c].src = data[c].src
          /\ \A c \in PayloadOffset(data, ips) + 1 .. Len(data) : set[c] = data[c]
          /\ Dst(set, ips) = a
      BY <1>1, <1>7, <1>12, <2>4, DestinationChanges
    <3>2. \A c \in 1 .. o : set[c].src = data[c].src
      BY <2>2, <3>1
    <3>3. Src(set, ips) = src
      BY <1>7, <1>10, <1>14, <2>1, <3>2, AddressesStay
    <3>4. QED
      BY <2>1, <2>4, <3>1, <3>3
  <2>5. QED
    BY <2>3, <2>4
<1>16. PICK h \in Word : h = Header(data, top).csum
  BY <1>1, <1>2, <1>6, ValidRest
<1>17. PICK w \in Word : w = ForUdp(top.k, ComputeInc(h, old, a))
  <2>1. ComputeInc(h, old, a) \in Word
    BY <1>1, ChecksumWord
  <2>2. QED
    BY <2>1, WordFacts DEF ForUdp
<1>18. PICK e : e = WithChecksum(set, top, w)
  OBVIOUS
<1>19. data' = e /\ views' = views
  BY <1>4, <1>6, <1>10, <1>11, <1>12, <1>16, <1>17, <1>18 DEF SetIp, WithChecksum
<1>20. Typed(e, views) /\ Linked(e, views) /\ Len(e) = Len(data) /\ e \in Seq(Cell)
  BY <1>5, <1>13, <1>18, ChecksumSet
<1>21. Typed(e, ips) /\ Linked(e, ips)
  BY <1>2, <1>4, <1>20, Below
<1>22. PICK g \in Cell : g = set[o + 1]
  BY <1>8, <1>13
<1>23. PICK cell : cell = [g EXCEPT !.csum = w]
  OBVIOUS
<1>24. cell \in Cell /\ cell.csum = w /\ cell.src = g.src /\ cell.dst = g.dst /\ cell.v = g.v
  BY <1>23, FieldSet DEF Cell
<1>25. e = [set EXCEPT ![o + 1] = cell]
  BY <1>8, <1>18, <1>22, <1>23 DEF WithChecksum
<1>26. \A c \in 1 .. Len(set) : e[c] = IF c = o + 1 THEN cell ELSE set[c]
  BY <1>8, <1>13, <1>24, <1>25, Written
<1>27. Src(e, ips) = Src(set, ips) /\ Dst(e, ips) = Dst(set, ips)
  <2>1. PayloadOffset(set, ips) \in 0 .. Len(set) /\ Len(set) \in Nat
    BY <1>9, <1>13, <1>14, OnTop
  <2>2. \A c \in 1 .. PayloadOffset(set, ips) : c \in 1 .. Len(set)
    BY <2>1
  <2>3. \A c \in 1 .. Len(set) : e[c].src = set[c].src /\ e[c].dst = set[c].dst /\ e[c].v = set[c].v
    BY <1>22, <1>24, <1>26
  <2>4. QED
    BY <1>7, <1>14, <1>21, <2>2, <2>3, AddressesStay
<1>28. Header(e, top).csum = w
  BY <1>8, <1>13, <1>24, <1>26 DEF Header, At
<1>29. TailSum(e, o, 0) = TailSum(data, o, 0)
  <2>1. TailSum(set, o, 0) = TailSum(data, o, 0)
    BY <1>8, <1>9, <1>13, <1>15, TailSumSame
  <2>2. PICK x \in Cell : x = [g EXCEPT !.csum = 0]
    BY FieldSet, WordFacts
  <2>3. [cell EXCEPT !.csum = 0] = x
    BY <1>23, <2>2 DEF Cell
  <2>4. o + 1 \in 1 .. Len(set) /\ e[o + 1] = cell
    BY <1>8, <1>13, <1>26
  <2>5. [e EXCEPT ![o + 1] = x] = [set EXCEPT ![o + 1] = x]
    BY <1>13, <1>25, <2>4
  <2>6. TailSum(e, o, 0) = TailSum(set, o, 0)
    BY <1>22, <2>2, <2>3, <2>4, <2>5 DEF TailSum
  <2>7. QED
    BY <2>1, <2>6
<1>30. PICK rest \in Nat \ {0} : rest = Rest(data, views)
  BY <1>1, <1>2, <1>6, ValidRest
<1>31. Rest(e, views) = rest
  BY <1>6, <1>8, <1>20, <1>29, <1>30 DEF Rest
<1>32. Folded[rest + h + src + dst] = AllOnes
  BY <1>1, <1>2, <1>4, <1>6, <1>10, <1>16, <1>30, ValidRest
<1>33. Valid(e, views) <=> Folded[rest + w + Src(e, ips) + Dst(e, ips)] = AllOnes
  BY <1>2, <1>4, <1>6, <1>20, <1>28, <1>31, ValidRest
<1>34. src \in Nat /\ dst \in Nat /\ a \in Nat /\ h \in Nat /\ w \in Nat
  BY <1>1, WordFacts
<1>35. Folded[rest + w + Src(e, ips) + Dst(e, ips)] = AllOnes
  <2>1. CASE field = "src"
    <3>1. (rest + dst) + h + src = rest + h + src + dst /\ rest + dst \in Nat \ {0}
      BY <1>34
    <3>2. Folded[(rest + dst) + h + src] = AllOnes
      BY <1>32, <3>1
    <3>3. Folded[(rest + dst) + w + a] = AllOnes
      BY <1>1, <1>11, <1>17, <2>1, <3>1, <3>2, Updated
    <3>4. (rest + dst) + w + a = rest + w + a + dst
      BY <1>34
    <3>5. QED
      BY <1>15, <1>27, <2>1, <3>3, <3>4
  <2>2. CASE field # "src"
    <3>1. (rest + src) + h + dst = rest + h + src + dst /\ rest + src \in Nat \ {0}
      BY <1>34
    <3>2. Folded[(rest + src) + h + dst] = AllOnes
      BY <1>32, <3>1
    <3>3. Folded[(rest + src) + w + a] = AllOnes
      BY <1>1, <1>11, <1>17, <2>2, <3>1, <3>2, Updated
    <3>4. (rest + src) + w + a = rest + w + src + a
      BY <1>34
    <3>5. QED
      BY <1>15, <1>27, <2>2, <3>3, <3>4
  <2>3. QED
    BY <2>1, <2>2
<1>36. QED
  BY <1>19, <1>33, <1>35

-----------------------------------------------------------------------------
(* What reconcile_all leaves behind *)

\* The pseudo-header is the same of packets of one length with the same addresses.
LEMMA PseudoStays ==
  ASSUME NEW d, NEW e, NEW vs, Typed(d, vs), Linked(d, vs), Typed(e, vs), Linked(e, vs),
         vs # <<>>, Last(vs).k \in Checked, Len(e) = Len(d),
         \A c \in 1 .. Len(d) : e[c].src = d[c].src /\ e[c].dst = d[c].dst /\ e[c].v = d[c].v
  PROVE  PseudoHeaderSum(e, vs) = PseudoHeaderSum(d, vs)
<1>1. PICK ips : ips = Front(vs)
  OBVIOUS
<1>2. /\ Typed(d, ips) /\ Linked(d, ips) /\ Len(ips) > 1
      /\ Typed(e, ips) /\ Linked(e, ips)
  BY <1>1, OverIp
<1>3. PayloadOffset(d, ips) \in 0 .. Len(d) /\ Len(d) \in Nat
  BY <1>2, OnTop, Inside
<1>4. \A c \in 1 .. PayloadOffset(d, ips) : c \in 1 .. Len(d)
  BY <1>3
<1>5. Src(e, ips) = Src(d, ips) /\ Dst(e, ips) = Dst(d, ips)
  BY <1>2, <1>4, AddressesStay
<1>6. QED
  BY <1>1, <1>5 DEF PseudoHeaderSum

\* A checksum that is computed verifies.
LEMMA ComputedValid ==
  ASSUME NEW d, NEW vs, Typed(d, vs), Linked(d, vs), vs # <<>>, Last(vs).k \in Checked
  PROVE  Valid(ComputeChecksum(d, vs), vs)
<1>1. PICK n \in 1 .. Len(vs) : Last(vs) = vs[n]
  BY OnTop
<1>2. PICK o \in Nat : o = vs[n].off /\ o + 1 \in 1 .. Len(d)
  BY Inside
<1>3. d \in Seq(Cell) /\ Len(d) \in Nat
  BY DEF Typed
<1>4. PICK t \in Nat : t = TailSum(d, o, 0)
  BY <1>2, <1>3, TailSumIs, WordFacts
<1>5. PICK p \in Nat : p = PseudoHeaderSum(d, vs)
  BY PseudoHeaderSumIs
<1>6. PICK w : w = ForUdp(Last(vs).k, Not(Folded[p + t]))
  OBVIOUS
<1>7. w \in Word
  <2>1. Not(Folded[p + t]) \in Word
    BY FoldedWord, NotWord
  <2>2. QED
    BY <1>6, <2>1, WordFacts DEF ForUdp
<1>8. PICK e : e = WithChecksum(d, vs[n], w)
  OBVIOUS
<1>9. ComputeChecksum(d, vs) = e
  BY <1>1, <1>2, <1>4, <1>5, <1>6, <1>8 DEF ComputeChecksum, Compute, TailSum, WithChecksum
<1>10. e \in Seq(Cell) /\ Len(e) = Len(d) /\ Typed(e, vs) /\ Linked(e, vs)
  BY <1>7, <1>8, ChecksumSet
<1>11. PICK g \in Cell : g = d[o + 1]
  BY <1>2, <1>3
<1>12. PICK cell \in Cell : cell = [g EXCEPT !.csum = w]
  BY <1>7, FieldSet
<1>13. cell.src = g.src /\ cell.dst = g.dst /\ cell.v = g.v
  BY <1>12 DEF Cell
<1>14. e = [d EXCEPT ![o + 1] = cell]
  BY <1>2, <1>8, <1>11, <1>12 DEF WithChecksum
<1>15. \A c \in 1 .. Len(d) : e[c] = IF c = o + 1 THEN cell ELSE d[c]
  BY <1>2, <1>3, <1>14, Written
<1>16. \A c \in 1 .. Len(d) : e[c].src = d[c].src /\ e[c].dst = d[c].dst /\ e[c].v = d[c].v
  BY <1>11, <1>13, <1>15
<1>17. PseudoHeaderSum(e, vs) = p
  BY <1>5, <1>10, <1>16, PseudoStays
<1>18. Total(Sums(From(e, o))) = t + w
  <2>1. Total(Sums(From(e, o))) = TailSum(d, o, w)
    BY <1>2, <1>8 DEF TailSum, WithChecksum
  <2>2. QED
    BY <1>2, <1>3, <1>4, <1>7, <2>1, TailSumIs
<1>19. Folded[p + (t + w)] = AllOnes
  <2>1. PICK m \in Nat, x \in Nat : m = p + t /\ x = w
    BY <1>7, WordFacts
  <2>2. Folded[m + x] = AllOnes
    BY <1>6, <2>1, Computed
  <2>3. p + (t + w) = m + x
    BY <2>1
  <2>4. QED
    BY <2>2, <2>3
<1>20. Valid(e, vs)
  BY <1>1, <1>2, <1>17, <1>18, <1>19 DEF Valid, Verifies
<1>21. QED
  BY <1>9, <1>20

\* compute_checksum leaves the other fields of the header, and all other headers.
LEMMA ComputeChecksumWrites ==
  ASSUME NEW d, NEW vs, Typed(d, vs), Linked(d, vs), vs # <<>>, Last(vs).k \in Checked
  PROVE  LET e == ComputeChecksum(d, vs)
         IN  /\ Len(e) = Len(d) /\ Header(e, Last(vs)).len = Header(d, Last(vs)).len
             /\ Last(vs).k = "Udp" => Header(e, Last(vs)).csum # 0
<1>1. PICK n \in 1 .. Len(vs) : Last(vs) = vs[n]
  BY OnTop
<1>2. PICK o \in Nat : o = vs[n].off /\ o + 1 \in 1 .. Len(d)
  BY Inside
<1>3. d \in Seq(Cell) /\ Len(d) \in Nat
  BY DEF Typed
<1>4. PICK w \in Word : ComputeChecksum(d, vs) = WithChecksum(d, vs[n], w)
  BY <1>1, ComputeChecksumIs
<1>5. PICK x : ComputeChecksum(d, vs) = WithChecksum(d, vs[n], ForUdp(Last(vs).k, x))
  BY <1>1 DEF ComputeChecksum, WithChecksum
<1>6. PICK g \in Cell : g = d[o + 1]
  BY <1>2, <1>3
<1>7. ASSUME NEW y PROVE /\ Len(WithChecksum(d, vs[n], y)) = Len(d)
                         /\ Header(WithChecksum(d, vs[n], y), vs[n]) = [g EXCEPT !.csum = y]
  <2>1. WithChecksum(d, vs[n], y) = [d EXCEPT ![o + 1] = [g EXCEPT !.csum = y]]
    BY <1>2, <1>6 DEF WithChecksum
  <2>2. o + 1 \in DOMAIN d
    BY <1>2, <1>3
  <2>3. Len([d EXCEPT ![o + 1] = [g EXCEPT !.csum = y]]) = Len(d)
    BY <1>3
  <2>4. [d EXCEPT ![o + 1] = [g EXCEPT !.csum = y]][o + 1] = [g EXCEPT !.csum = y]
    BY <2>2
  <2>5. QED
    BY <1>2, <2>1, <2>3, <2>4 DEF Header, At
<1>8. PICK e : e = ComputeChecksum(d, vs)
  OBVIOUS
<1>9. Len(e) = Len(d) /\ Header(e, vs[n]).len = Header(d, vs[n]).len
  <2>1. Header(e, vs[n]) = [g EXCEPT !.csum = w] /\ Len(e) = Len(d)
    BY <1>4, <1>7, <1>8
  <2>2. Header(d, vs[n]) = g
    BY <1>2, <1>6 DEF Header, At
  <2>3. QED
    BY <2>1, <2>2 DEF Cell
<1>10. Last(vs).k = "Udp" => Header(e, vs[n]).csum # 0
  <2>1. Header(e, vs[n]) = [g EXCEPT !.csum = ForUdp(Last(vs).k, x)]
    BY <1>5, <1>7, <1>8
  <2>2. Header(e, vs[n]).csum = ForUdp(Last(vs).k, x)
    BY <2>1 DEF Cell
  <2>3. Last(vs).k = "Udp" => ForUdp(Last(vs).k, x) # 0
    BY WordFacts DEF ForUdp
  <2>4. QED
    BY <2>2, <2>3
<1>11. QED
  BY <1>1, <1>8, <1>9, <1>10

\* reconcile of a view leaves its length and checksum right.
LEMMA ReconciledSettles ==
  ASSUME NEW d, NEW vs, Typed(d, vs), Linked(d, vs), Len(d) < Room, Fits(d, vs),
         NEW n \in 1 .. Len(vs)
  PROVE  Settled(Reconciled(d, SubSeq(vs, 1, n)), SubSeq(vs, 1, n))
<1>1. PICK ws : ws = SubSeq(vs, 1, n)
  OBVIOUS
<1>2. PICK top : top = vs[n]
  OBVIOUS
<1>3. /\ Typed(d, ws) /\ Linked(d, ws) /\ ws # <<>> /\ Last(ws) = top /\ Len(d) \in Nat
      /\ top.off \in Nat /\ top.off + 1 \in 1 .. Len(d) /\ d \in Seq(Cell)
      /\ (n = Len(vs) => ws = vs)
  BY <1>1, <1>2, UpTo, Inside DEF Typed
<1>4. top.k \notin Icmps => top.msg = "none"
  BY <1>2 DEF Typed
<1>5. PICK e : e = Reconciled(d, ws)
  OBVIOUS
<1>6. CASE top.k = "Ipv4"
  <2>1. PICK cell \in Cell :
          /\ e = SetHeader(d, top, cell)
          /\ Ipv4Header(d, top, d[top.off + 1], cell)
    BY <1>1, <1>2, <1>5, <1>6, ReconciledIpv4
  <2>2. Len(e) = Len(d) /\ Header(e, top) = cell
    BY <1>3, <2>1, SetHeaderIs DEF Header, At
  <2>3. Settled(e, ws)
    BY <1>3, <1>4, <1>6, <2>1, <2>2 DEF Settled, Ipv4Header, Icmps
  <2>4. QED
    BY <1>1, <1>5, <2>3
<1>7. CASE top.k = "Ipv6"
  <2>1. PICK w \in Word : w = Len(d) - top.off - 1
    BY <1>2, LengthWord
  <2>2. e = WithLength(d, top, w)
    BY <1>3, <1>5, <1>7, <2>1 DEF Reconciled, WithLength, Icmps
  <2>3. Len(e) = Len(d)
    BY <1>2, <1>7, <2>2, LengthSet
  <2>4. Header(e, top).len = w
    <3>1. PICK g \in Cell : g = d[top.off + 1]
      BY <1>3
    <3>2. e[top.off + 1] = [g EXCEPT !.len = w]
      BY <1>3, <2>2, <3>1 DEF WithLength
    <3>3. QED
      BY <3>2 DEF Header, At, Cell
  <2>5. Settled(e, ws)
    BY <1>3, <1>4, <1>7, <2>1, <2>3, <2>4 DEF Settled, Icmps
  <2>6. QED
    BY <1>1, <1>5, <2>5
<1>8. CASE top.k = "Udp"
  <2>1. PICK w \in Word : w = Len(d) - top.off
    BY <1>2, LengthWord
  <2>2. PICK f : f = WithLength(d, top, w)
    OBVIOUS
  <2>3. e = ComputeChecksum(f, ws)
    BY <1>3, <1>5, <1>8, <2>1, <2>2 DEF Reconciled, WithLength, Icmps
  <2>4. Len(f) = Len(d) /\ Typed(f, vs) /\ Linked(f, vs)
    BY <1>2, <1>8, <2>2, LengthSet
  <2>5. Typed(f, ws) /\ Linked(f, ws)
    BY <1>1, <2>4, UpTo
  <2>6. Header(f, top).len = w
    <3>1. PICK g \in Cell : g = d[top.off + 1]
      BY <1>3
    <3>2. f[top.off + 1] = [g EXCEPT !.len = w]
      BY <1>3, <2>2, <3>1 DEF WithLength
    <3>3. QED
      BY <3>2 DEF Header, At, Cell
  <2>7. top.k \in Checked
    BY <1>8 DEF Checked
  <2>8. Len(e) = Len(d) /\ Header(e, top).len = w /\ Header(e, top).csum # 0
    BY <1>3, <1>8, <2>3, <2>4, <2>5, <2>6, <2>7, ComputeChecksumWrites
  <2>9. Valid(e, ws)
    BY <1>3, <2>3, <2>5, <2>7, ComputedValid
  <2>10. Settled(e, ws)
    BY <1>3, <1>4, <1>8, <2>1, <2>8, <2>9 DEF Settled, Icmps
  <2>11. QED
    BY <1>1, <1>5, <2>10
<1>9. CASE top.k = "Tcp"
  <2>1. e = ComputeChecksum(d, ws)
    BY <1>3, <1>5, <1>9 DEF Reconciled, Icmps
  <2>2. Valid(e, ws)
    BY <1>3, <1>9, <2>1, ComputedValid DEF Checked
  <2>3. Settled(e, ws)
    BY <1>3, <1>4, <1>9, <2>2 DEF Settled, Icmps
  <2>4. QED
    BY <1>1, <1>5, <2>3
<1>10. CASE top.k \in Icmps
  <2>1. PICK f : f = Cut(d, ws)
    OBVIOUS
  <2>2. Keeps(d, f, vs)
    BY <1>1, <1>2, <1>10, <2>1, CutKeeps
  <2>3. Typed(f, ws) /\ Linked(f, ws) /\ Len(f) \in Nat
    BY <1>1, <2>2, UpTo, Inside DEF Keeps
  <2>4. e = ComputeChecksum(f, ws)
    BY <1>3, <1>5, <1>10, <2>1 DEF Reconciled, Icmps
  <2>5. top.k \in Checked /\ top.k \notin {"Ipv4", "Ipv6", "Udp", "Tcp"}
    BY <1>10 DEF Checked, Icmps
  <2>6. Len(e) = Len(f)
    BY <1>3, <2>3, <2>4, <2>5, ComputeChecksumWrites
  <2>7. Valid(e, ws)
    BY <1>3, <2>3, <2>4, <2>5, ComputedValid
  <2>8. top.msg = "TimeExceeded" => Len(e) - top.off - 2 <= Ipv4MinMtu
    <3>1. SUFFICES ASSUME top.msg = "TimeExceeded" PROVE Len(f) - top.off - 2 <= Ipv4MinMtu
      BY <2>6
    <3>2. PICK l \in Nat, o \in Nat, mtu \in Nat : l = Len(f) /\ o = top.off /\ mtu = Ipv4MinMtu
      BY <1>3, <2>3, PacketsAssumption
    <3>3. f = Truncate(d, o + 2 + mtu)
      BY <1>3, <2>1, <3>1, <3>2 DEF Cut
    <3>4. o + 2 + mtu \in Nat
      BY <3>2
    <3>5. Len(f) = IF o + 2 + mtu < Len(d) THEN o + 2 + mtu ELSE Len(d)
      BY <1>3, <3>3, <3>4, TruncateIs
    <3>6. l <= o + 2 + mtu
      <4>1. PICK m \in Nat, size \in Nat : m = o + 2 + mtu /\ size = Len(d)
        BY <1>3, <3>4
      <4>2. l = IF m < size THEN m ELSE size
        BY <3>2, <3>5, <4>1
      <4>3. l <= m
        BY <4>1, <4>2
      <4>4. QED
        BY <4>1, <4>3
    <3>7. l - o - 2 <= mtu
      <4>1. l \in Nat /\ o \in Nat /\ mtu \in Nat
        BY <3>2
      <4>2. QED
        BY <3>6, <4>1
    <3>8. QED
      BY <3>2, <3>7
  <2>9. top.msg = "PacketTooBig" => Len(e) - IpView(ws).off <= Ipv6MinMtu
    <3>1. SUFFICES ASSUME top.msg = "PacketTooBig"
                   PROVE  Len(f) - IpView(ws).off <= Ipv6MinMtu
      BY <2>6
    <3>2. PICK ip \in Nat : ip = IpView(ws).off
      <4>1. Last(ws).k = "Icmpv6"
        <5>1. top = vs[n] /\ top.msg # "none"
          BY <1>2, <3>1
        <5>2. top.msg \in Messages(top.k)
          BY <5>1 DEF Typed
        <5>3. top.k # "Icmpv4"
          BY <3>1, <5>2 DEF Messages
        <5>4. QED
          BY <1>3, <1>10, <5>3 DEF Icmps
      <4>2. QED
        BY <1>3, <4>1, Icmpv6InIpv6
    <3>3. PICK m \in Nat : m = ip + Ipv6MinMtu
      BY PacketsAssumption
    <3>4. f = Truncate(d, m)
      BY <1>3, <2>1, <3>1, <3>2, <3>3 DEF Cut
    <3>5. Len(f) = IF m < Len(d) THEN m ELSE Len(d)
      BY <1>3, <3>3, <3>4, TruncateIs
    <3>6. Len(f) <= m
      BY <1>3, <3>3, <3>5
    <3>7. PICK l \in Nat, mtu \in Nat : l = Len(f) /\ mtu = Ipv6MinMtu
      BY <2>3, PacketsAssumption
    <3>8. l - ip <= mtu
      BY <3>3, <3>6, <3>7
    <3>9. QED
      BY <3>2, <3>7, <3>8
  <2>10. Settled(e, ws)
    BY <1>3, <2>5, <2>7, <2>8, <2>9 DEF Settled
  <2>11. QED
    BY <1>1, <1>5, <2>10
<1>11. CASE top.k \notin {"Ipv4", "Ipv6", "Udp", "Tcp"} \cup Icmps
  <2>1. Settled(e, ws)
    BY <1>3, <1>4, <1>11 DEF Settled
  <2>2. QED
    BY <1>1, <1>5, <2>1
<1>12. QED
  BY <1>6, <1>7, <1>8, <1>9, <1>10, <1>11

\* Only lengths and checksums change, and none behind an offset.
Beneath(d, e, o) ==
  /\ Len(e) = Len(d)
  /\ \A c \in 1 .. Len(d) : e[c].src = d[c].src /\ e[c].dst = d[c].dst /\ e[c].v = d[c].v
  /\ \A c \in o + 1 .. Len(d) : e[c] = d[c]

\* reconcile of a view with others above it is such a change.
LEMMA ReconciledBeneath ==
  ASSUME NEW d, NEW vs, Typed(d, vs), Linked(d, vs), Len(d) < Room,
         NEW n \in 1 .. Len(vs), NEW j \in 1 .. Len(vs), n < j
  PROVE  Beneath(d, Reconciled(d, SubSeq(vs, 1, n)), vs[j].off)
<1>1. PICK ws : ws = SubSeq(vs, 1, n)
  OBVIOUS
<1>2. Last(ws) = vs[n] /\ d \in Seq(Cell) /\ Len(d) \in Nat
  BY <1>1, UpTo DEF Typed
<1>3. PICK p \in Nat, o \in Nat : p = vs[n].off + 1 /\ o = vs[j].off
  BY Inside
<1>4. p \in 1 .. Len(d) /\ p <= o
  <2>1. End(d, vs[n]) <= vs[j].off
    BY DEF Linked
  <2>2. /\ vs[n].off \in Nat /\ vs[n].off + 1 \in 1 .. Len(d) /\ End(d, vs[n]) \in Nat
        /\ vs[n].off < End(d, vs[n])
    BY Inside
  <2>3. QED
    BY <1>3, <2>1, <2>2
<1>5. PICK g \in Cell : g = d[p]
  BY <1>2, <1>4
<1>6. ASSUME NEW cell \in Cell, cell.src = g.src, cell.dst = g.dst, cell.v = g.v
      PROVE  Beneath(d, [d EXCEPT ![p] = cell], o)
  <2>1. PICK e : e = [d EXCEPT ![p] = cell]
    OBVIOUS
  <2>2. Len(e) = Len(d) /\ \A c \in 1 .. Len(d) : e[c] = IF c = p THEN cell ELSE d[c]
    BY <1>2, <1>4, <2>1, Written
  <2>3. \A c \in 1 .. Len(d) : e[c].src = d[c].src /\ e[c].dst = d[c].dst /\ e[c].v = d[c].v
    BY <1>5, <1>6, <2>2
  <2>4. \A c \in o + 1 .. Len(d) : c \in 1 .. Len(d) /\ c # p
    BY <1>2, <1>4
  <2>5. QED
    BY <2>1, <2>2, <2>3, <2>4 DEF Beneath
<1>7. vs[n].k \in {"Ethernet", "Ipv4", "Ipv6", "Srh", "Fragment"}
  <2>1. n < Len(vs)
    BY Inside
  <2>2. QED
    BY <2>1, Stack
<1>8. CASE vs[n].k = "Ipv4"
  <2>1. PICK cell \in Cell :
          /\ Reconciled(d, ws) = SetHeader(d, vs[n], cell)
          /\ Ipv4Header(d, vs[n], d[vs[n].off + 1], cell)
    BY <1>1, <1>8, ReconciledIpv4
  <2>2. Reconciled(d, ws) = [d EXCEPT ![p] = cell]
    BY <1>3, <2>1 DEF SetHeader
  <2>3. cell.src = g.src /\ cell.dst = g.dst /\ cell.v = g.v
    BY <1>3, <1>5, <2>1 DEF Ipv4Header
  <2>4. QED
    BY <1>1, <1>3, <1>6, <2>2, <2>3
<1>9. CASE vs[n].k = "Ipv6"
  <2>1. PICK w \in Word : w = Len(d) - vs[n].off - 1
    BY LengthWord
  <2>2. PICK cell \in Cell : cell = [g EXCEPT !.len = w]
    BY FieldSet
  <2>3. Reconciled(d, ws) = [d EXCEPT ![p] = cell]
    <3>1. Reconciled(d, ws) = [d EXCEPT ![p].len = w]
      BY <1>2, <1>3, <1>9, <2>1 DEF Reconciled, Icmps
    <3>2. QED
      BY <1>5, <2>2, <3>1
  <2>4. cell.src = g.src /\ cell.dst = g.dst /\ cell.v = g.v
    BY <2>2 DEF Cell
  <2>5. QED
    BY <1>1, <1>3, <1>6, <2>3, <2>4
<1>10. CASE vs[n].k \in {"Ethernet", "Srh", "Fragment"}
  <2>1. Reconciled(d, ws) = d
    BY <1>2, <1>10 DEF Reconciled, Icmps
  <2>2. QED
    BY <1>1, <2>1 DEF Beneath
<1>11. QED
  BY <1>7, <1>8, <1>9, <1>10

\* What was right of the views above stays right.
LEMMA SettledStays ==
  ASSUME NEW d, NEW e, NEW vs, Typed(d, vs), Linked(d, vs), Typed(e, vs), Linked(e, vs),
         NEW j \in 1 .. Len(vs), Beneath(d, e, vs[j].off), Settled(d, SubSeq(vs, 1, j))
  PROVE  Settled(e, SubSeq(vs, 1, j))
<1>1. PICK ws : ws = SubSeq(vs, 1, j)
  OBVIOUS
<1>2. /\ Typed(d, ws) /\ Linked(d, ws) /\ ws # <<>> /\ Last(ws) = vs[j]
      /\ Typed(e, ws) /\ Linked(e, ws)
  BY <1>1, UpTo
<1>3. PICK o \in Nat : o = vs[j].off /\ o + 1 \in 1 .. Len(d)
  BY Inside
<1>4. Len(e) = Len(d) /\ Len(d) \in Nat
  BY <1>2 DEF Beneath, Typed
<1>5. Header(e, vs[j]) = Header(d, vs[j])
  BY <1>3, <1>4 DEF Beneath, Header, At
<1>6. ASSUME vs[j].k \in {"Udp", "Tcp"} \cup Icmps PROVE Valid(e, ws) = Valid(d, ws)
  <2>1. vs[j].k \in Checked
    BY <1>6 DEF Checked, Icmps
  <2>2. PseudoHeaderSum(e, ws) = PseudoHeaderSum(d, ws)
    BY <1>2, <1>4, <2>1, PseudoStays DEF Beneath
  <2>3. From(e, o) = From(d, o)
    <3>1. \A c \in o + 1 .. Len(d) : e[c] = d[c]
      BY <1>3 DEF Beneath
    <3>2. d \in Seq(Cell) /\ e \in Seq(Cell) /\ o \in 0 .. Len(d)
      BY <1>3, <1>4 DEF Typed
    <3>3. PICK n \in Nat : n = Len(d) - o
      BY <1>4, <3>2
    <3>4. \A i \in 1 .. n : o + i \in o + 1 .. Len(d)
      BY <1>4, <3>3
    <3>5. \A i \in 1 .. n : e[o + i] = d[o + i]
      BY <3>1, <3>4
    <3>6. o \in 0 .. Len(e) /\ n = Len(e) - o
      BY <1>4, <3>2, <3>3
    <3>7. QED
      BY <3>2, <3>3, <3>5, <3>6, SameRest
  <2>4. QED
    BY <1>2, <1>3, <2>2, <2>3 DEF Valid
<1>7. Settled(d, ws)
  BY <1>1
<1>8. Settled(e, ws)
  BY <1>2, <1>4, <1>5, <1>6, <1>7 DEF Settled
<1>9. QED
  BY <1>1, <1>8

\* The packet as it is when the views from the k-th on are reconciled.
Halfway(d, e, vs, k) ==
  Keeps(d, e, vs) /\ \A j \in 1 .. Len(vs) : j >= k => Settled(e, SubSeq(vs, 1, j))

\* All of them are left right.
LEMMA ReconcilingSettles ==
  ASSUME NEW d, NEW vs, Typed(d, vs), Linked(d, vs), Len(d) < Room, Fits(d, vs),
         NEW r, Reconciling(r, d, vs), Len(vs) > 0
  PROVE  Halfway(d, r[1], vs, 1)
<1> DEFINE n == Len(vs)
           T == {k \in Nat : k <= n => Halfway(d, r[n + 1 - k], vs, n + 1 - k)}
<1>1. n \in Nat /\ Len(d) \in Nat /\ Room \in Nat
  BY Inside, PacketsAssumption
<1>2. /\ r[n + 1] = d
      /\ \A i \in 1 .. n : r[i] = Reconciled(r[i + 1], SubSeq(vs, 1, i))
  BY <1>1 DEF Reconciling
<1>3. 0 \in T
  <2>1. Keeps(d, d, vs)
    BY <1>1 DEF Keeps
  <2>2. n + 1 - 0 = n + 1 /\ \A j \in 1 .. n : ~(j >= n + 1)
    BY <1>1
  <2>3. Halfway(d, d, vs, n + 1)
    BY <2>1, <2>2 DEF Halfway
  <2>4. QED
    BY <1>2, <2>2, <2>3
<1>4. ASSUME NEW k \in T PROVE k + 1 \in T
  <2>1. SUFFICES ASSUME k + 1 <= n
                 PROVE  Halfway(d, r[n + 1 - (k + 1)], vs, n + 1 - (k + 1))
    OBVIOUS
  <2>2. PICK m \in 1 .. n : m = n - k
    <3>1. k \in Nat
      OBVIOUS
    <3> HIDE DEF T
    <3>2. n - k \in 1 .. n
      BY <1>1, <2>1, <3>1
    <3>3. QED
      BY <3>2
  <2>3. PICK e : e = r[m + 1]
    OBVIOUS
  <2>4. Halfway(d, e, vs, m + 1)
    <3>1. k <= n /\ n + 1 - k = m + 1
      BY <1>1, <2>1, <2>2
    <3>2. QED
      BY <2>3, <3>1
  <2>5. Typed(e, vs) /\ Linked(e, vs) /\ Len(e) < Room /\ Keeps(d, e, vs)
    <3>1. Typed(e, vs) /\ Linked(e, vs) /\ Len(e) <= Len(d) /\ Keeps(d, e, vs)
      BY <2>4 DEF Halfway, Keeps
    <3>2. Len(e) \in Nat
      BY <3>1 DEF Typed
    <3>3. QED
      BY <1>1, <3>1, <3>2
  <2>6. Fits(e, vs)
    BY <2>5 DEF Fits, Keeps
  <2>7. PICK f : f = Reconciled(e, SubSeq(vs, 1, m))
    OBVIOUS
  <2>8. Keeps(e, f, vs)
    BY <2>2, <2>5, <2>6, <2>7, ReconciledKeeps
  <2>9. Keeps(d, f, vs)
    BY <2>5, <2>8, KeepsTwice
  <2>10. ASSUME NEW j \in 1 .. n, j >= m PROVE Settled(f, SubSeq(vs, 1, j))
    <3>1. CASE j = m
      BY <2>5, <2>6, <2>7, <3>1, ReconciledSettles
    <3>2. CASE j > m
      <4>1. j >= m + 1
        BY <2>2, <3>2
      <4>2. Settled(e, SubSeq(vs, 1, j))
        BY <2>4, <4>1 DEF Halfway
      <4>3. Beneath(e, f, vs[j].off)
        BY <2>2, <2>5, <2>7, <3>2, ReconciledBeneath
      <4>4. Typed(f, vs) /\ Linked(f, vs)
        BY <2>8 DEF Keeps
      <4>5. QED
        BY <2>5, <4>2, <4>3, <4>4, SettledStays
    <3>3. QED
      BY <2>2, <2>10, <3>1, <3>2
  <2>11. Halfway(d, f, vs, m)
    BY <2>9, <2>10 DEF Halfway
  <2>12. n + 1 - (k + 1) = m /\ r[m] = f
    BY <1>1, <1>2, <2>1, <2>2, <2>3, <2>7
  <2>13. QED
    BY <2>11, <2>12
<1>5. T = Nat
  <2> HIDE DEF T
  <2>1. T \in SUBSET Nat
    BY DEF T
  <2>2. QED
    BY <1>3, <1>4, <2>1, Natural
<1>6. n \in T /\ n <= n /\ n + 1 - n = 1
  BY <1>1, <1>5
<1>7. QED
  BY <1>6

\* reconcile_all of the packet.
LEMMA ReconcileAllSettles ==
  ASSUME Good, HeadersFit, ReconcileAll
  PROVE  \A i \in DOMAIN views' : Settled(data', SubSeq(views', 1, i))
<1>1. /\ Typed(data, views) /\ Linked(data, views) /\ Len(views) \in Nat /\ Len(data) < Room
      /\ DOMAIN views = 1 .. Len(views)
  BY Inside DEF Good, Typed
<1>2. Len(views) > 0 /\ views' = views
  BY <1>1 DEF ReconcileAll, Typed
<1>3. Fits(data, views)
  BY DEF HeadersFit, Fits
<1>4. PICK r : Reconciling(r, data, views) /\ data' = r[1]
  <2>1. \E r : Reconciling(r, data, views)
    BY <1>1, ReconcilingIs
  <2>2. QED
    BY <2>1 DEF ReconcileAll, Reconciling
<1>5. Halfway(data, data', views, 1)
  BY <1>1, <1>2, <1>3, <1>4, ReconcilingSettles
<1>6. QED
  BY <1>1, <1>2, <1>5 DEF Halfway
-----------------------------------------------------------------------------
(* Chains of extension headers *)

\* Where a header ends by its own length, and whether it is one of a chain.
Segments(d, n, k) == IF k = "Srh" THEN At(d, n).ext \div 2 ELSE 0
EndOf(d, n, k) == n + 1 + Segments(d, n, k)
InChain(d, n, k) == k \in Extensions /\ n < Len(d) /\ EndOf(d, n, k) <= Len(d)

\* A header before a chain, and the end of one.
Longer(k, tail) == [tail EXCEPT !.kinds = <<k>> \o @]
ChainEnd(d, n, k) == [kinds |-> <<>>, last |-> k, payload |-> From(d, n)]

\* What Chain finds with f for the chains farther on.
Found(f, d, n, k) ==
  IF InChain(d, n, k) THEN Longer(k, f[<<EndOf(d, n, k), At(d, n).next>>])
  ELSE ChainEnd(d, n, k)

\* What it makes of a packet.
Places(d) == (0 .. Len(d)) \X DOMAIN Number
Chaining(f, d) == f = [p \in Places(d) |-> Found(f, d, p[1], p[2])]

\* A header counts its segments.
LEMMA SegmentsAre ==
  ASSUME NEW d \in Seq(Cell), NEW n \in Nat, n < Len(d), NEW k
  PROVE  Segments(d, n, k) \in Nat /\ At(d, n) \in Cell /\ At(d, n).next \in DOMAIN Number
<1>1. n + 1 \in 1 .. Len(d)
  OBVIOUS
<1>2. At(d, n) \in Cell
  BY <1>1 DEF At
<1>3. PICK e \in Nat : e = At(d, n).ext
  BY <1>2, WordFacts DEF Cell
<1>4. e \div 2 \in Nat
  BY <1>3
<1>5. Segments(d, n, k) \in Nat
  BY <1>3, <1>4 DEF Segments
<1>6. QED
  BY <1>2, <1>5 DEF Cell

\* The headers of a chain lie one behind the other.
LEMMA FartherOn ==
  ASSUME NEW d \in Seq(Cell), NEW n \in 0 .. Len(d), NEW k \in DOMAIN Number, InChain(d, n, k)
  PROVE  EndOf(d, n, k) \in n + 1 .. Len(d) /\ At(d, n).next \in DOMAIN Number
<1>1. n \in Nat /\ Len(d) \in Nat /\ n < Len(d)
  BY DEF InChain
<1>2. PICK m \in Nat : m = Segments(d, n, k)
  BY <1>1, SegmentsAre
<1>3. n + 1 + m <= Len(d)
  BY <1>2 DEF InChain, EndOf
<1>4. EndOf(d, n, k) \in n + 1 .. Len(d)
  BY <1>1, <1>2, <1>3 DEF EndOf
<1>5. QED
  BY <1>1, <1>4, SegmentsAre

\* The recursion in Chain has a solution.
LEMMA ChainingIs == ASSUME NEW d \in Seq(Cell) PROVE \E f : Chaining(f, d)
<1> DEFINE N == Len(d)
           P == Places(d)
           Solves(m, f) == \A p \in P : p[1] >= N - m => f[p] = Found(f, d, p[1], p[2])
           T == {m \in Nat : \E f : Solves(m, f)}
<1>1. N \in Nat /\ \A p \in P : p[1] \in 0 .. N /\ p[2] \in DOMAIN Number /\ p = <<p[1], p[2]>>
  BY DEF Places
<1>2. \A n \in 0 .. N, k \in DOMAIN Number : <<n, k>> \in P
  BY DEF Places
<1> HIDE DEF P
<1>3. 0 \in T
  <2> DEFINE f == [p \in P |-> ChainEnd(d, p[1], p[2])]
  <2>1. ASSUME NEW p \in P, p[1] >= N - 0 PROVE f[p] = Found(f, d, p[1], p[2])
    <3>1. ~InChain(d, p[1], p[2])
      BY <1>1, <2>1 DEF InChain
    <3>2. f[p] = ChainEnd(d, p[1], p[2])
      OBVIOUS
    <3> HIDE DEF f
    <3>3. QED
      BY <3>1, <3>2 DEF Found
  <2> HIDE DEF f
  <2>2. Solves(0, f)
    BY <2>1
  <2>3. QED
    BY <2>2
<1>4. ASSUME NEW m \in T PROVE m + 1 \in T
  <2>1. PICK f : Solves(m, f)
    <3> HIDE DEF Solves
    <3>1. QED
      OBVIOUS
  <2>2. m \in Nat
    OBVIOUS
  <2> DEFINE g == [p \in P |-> Found(f, d, p[1], p[2])]
  <2>3. \A p \in P : g[p] = Found(f, d, p[1], p[2])
    OBVIOUS
  <2> HIDE DEF g
  <2>4. \A p \in P : p[1] >= N - m => g[p] = f[p]
    BY <2>1, <2>3
  <2>5. ASSUME NEW p \in P, p[1] >= N - (m + 1)
        PROVE  Found(g, d, p[1], p[2]) = Found(f, d, p[1], p[2])
    <3>1. CASE InChain(d, p[1], p[2])
      <4>1. PICK e \in p[1] + 1 .. N, next \in DOMAIN Number :
              e = EndOf(d, p[1], p[2]) /\ next = At(d, p[1]).next
        BY <1>1, <3>1, FartherOn
      <4>2. PICK q \in P : q = <<e, next>>
        <5>1. e \in 0 .. N
          BY <1>1, <4>1
        <5>2. <<e, next>> \in P
          BY <1>2, <4>1, <5>1
        <5>3. QED
          BY <5>2
      <4>3. q[1] >= N - m
        BY <1>1, <2>2, <2>5, <4>1, <4>2
      <4>4. g[q] = f[q]
        BY <2>4, <4>3
      <4>5. QED
        BY <3>1, <4>1, <4>2, <4>4 DEF Found
    <3>2. CASE ~InChain(d, p[1], p[2])
      BY <3>2 DEF Found
    <3>3. QED
      BY <3>1, <3>2
  <2>6. Solves(m + 1, g)
    BY <2>3, <2>5
  <2>7. QED
    BY <2>2, <2>6
<1>5. T = Nat
  <2> HIDE DEF T
  <2>1. T \in SUBSET Nat
    BY DEF T
  <2>2. QED
    BY <1>3, <1>4, <2>1, Natural
<1>6. PICK f : Solves(N, f)
  <2> HIDE DEF Solves
  <2>1. N \in T
    BY <1>1, <1>5
  <2>2. QED
    BY <2>1
<1>7. \A p \in P : f[p] = Found(f, d, p[1], p[2])
  BY <1>1, <1>6
<1> DEFINE g == [p \in P |-> f[p]]
<1>8. \A p \in P : g[p] = f[p]
  OBVIOUS
<1>9. g = [p \in P |-> g[p]]
  OBVIOUS
<1> HIDE DEF g
<1>10. ASSUME NEW p \in P PROVE g[p] = Found(g, d, p[1], p[2])
  <2>1. CASE InChain(d, p[1], p[2])
    <3>1. PICK e \in p[1] + 1 .. N, next \in DOMAIN Number :
            e = EndOf(d, p[1], p[2]) /\ next = At(d, p[1]).next
      BY <1>1, <2>1, FartherOn
    <3>2. PICK q \in P : q = <<e, next>>
      <4>1. e \in 0 .. N
        BY <1>1, <3>1
      <4>2. <<e, next>> \in P
        BY <1>2, <3>1, <4>1
      <4>3. QED
        BY <4>2
    <3>3. g[q] = f[q]
      BY <1>8
    <3>4. QED
      BY <1>7, <1>8, <2>1, <3>1, <3>2, <3>3 DEF Found
  <2>2. CASE ~InChain(d, p[1], p[2])
    BY <1>7, <1>8, <2>2 DEF Found
  <2>3. QED
    BY <2>1, <2>2
<1>11. g = [p \in P |-> Found(g, d, p[1], p[2])]
  BY <1>9, <1>10
<1>12. QED
  BY <1>11 DEF Chaining, P

\* What Chain makes of a header and of what is behind it.
LEMMA ChainIs ==
  ASSUME NEW d \in Seq(Cell), NEW n \in 0 .. Len(d), NEW k \in DOMAIN Number
  PROVE  Chain(d, n, k) =
           IF InChain(d, n, k) THEN Longer(k, Chain(d, EndOf(d, n, k), At(d, n).next))
           ELSE ChainEnd(d, n, k)
<1> DEFINE f == CHOOSE g : Chaining(g, d)
<1>1. Chaining(f, d)
  BY ChainingIs
<1>2. \A o, next : Chain(d, o, next) = f[<<o, next>>]
  BY DEF Chain, Chaining, Found, InChain, EndOf, Segments, Longer, ChainEnd, Places
<1> HIDE DEF f
<1>3. <<n, k>> \in Places(d)
  BY DEF Places
<1>4. PICK p \in Places(d) : p = <<n, k>>
  BY <1>3
<1>5. p[1] = n /\ p[2] = k
  BY <1>4
<1>6. f[p] = Found(f, d, p[1], p[2])
  BY <1>1 DEF Chaining
<1>7. QED
  BY <1>2, <1>4, <1>5, <1>6 DEF Found

\* Two packets are alike from an offset of each on.
Tails(d, n, e, p) ==
  /\ n \in 0 .. Len(d) /\ p \in 0 .. Len(e) /\ Len(d) - n = Len(e) - p
  /\ \A i \in 1 .. Len(d) - n : d[n + i] = e[p + i]

\* They are alike farther on, too.
LEMMA TailsOn ==
  ASSUME NEW d \in Seq(Cell), NEW e \in Seq(Cell), NEW n, NEW p, Tails(d, n, e, p),
         NEW s \in 0 .. Len(d) - n
  PROVE  Tails(d, n + s, e, p + s)
<1>1. PICK a \in Nat, b \in Nat, m \in Nat :
        /\ a = Len(d) /\ b = Len(e) /\ n \in 0 .. a /\ p \in 0 .. b /\ m = a - n /\ m = b - p
  BY DEF Tails
<1>2. s \in 0 .. m /\ n \in Nat /\ p \in Nat
  BY <1>1
<1>3. n + s \in 0 .. a /\ p + s \in 0 .. b /\ a - (n + s) = m - s /\ b - (p + s) = m - s
  BY <1>1, <1>2
<1>4. ASSUME NEW i \in 1 .. m - s PROVE d[n + s + i] = e[p + s + i]
  <2>1. s + i \in 1 .. m
    BY <1>2
  <2>2. d[n + (s + i)] = e[p + (s + i)]
    BY <1>1, <2>1 DEF Tails
  <2>3. n + (s + i) = n + s + i /\ p + (s + i) = p + s + i
    BY <1>2
  <2>4. QED
    BY <2>2, <2>3
<1>5. QED
  BY <1>1, <1>3, <1>4 DEF Tails

\* What a receiver finds behind a header depends on what is there, not on where it is.
LEMMA ChainTails ==
  ASSUME NEW d \in Seq(Cell), NEW e \in Seq(Cell)
  PROVE  \A n, p, k : Tails(d, n, e, p) /\ k \in DOMAIN Number =>
                        Chain(d, n, k) = Chain(e, p, k)
<1> DEFINE SameFor(m) == \A n, p, k : Tails(d, n, e, p) /\ k \in DOMAIN Number /\ Len(d) - n = m =>
                                        Chain(d, n, k) = Chain(e, p, k)
           T == {m \in Nat : SameFor(m)}
<1>1. ASSUME NEW m \in Nat, \A j \in Nat : j < m => j \in T PROVE m \in T
  <2>1. SUFFICES ASSUME NEW n, NEW p, NEW k \in DOMAIN Number, Tails(d, n, e, p), Len(d) - n = m
                 PROVE  Chain(d, n, k) = Chain(e, p, k)
    OBVIOUS
  <2>2. /\ n \in Nat /\ p \in Nat /\ Len(d) \in Nat /\ Len(e) \in Nat
        /\ Len(d) = n + m /\ Len(e) = p + m /\ n \in 0 .. Len(d) /\ p \in 0 .. Len(e)
    BY <2>1 DEF Tails
  <2>3. m > 0 => At(d, n) = At(e, p)
    BY <2>1, <2>2 DEF Tails, At
  <2>4. m > 0 => \E s \in Nat : EndOf(d, n, k) = n + s /\ EndOf(e, p, k) = p + s
    <3>1. SUFFICES ASSUME m > 0
                   PROVE  \E s \in Nat : EndOf(d, n, k) = n + s /\ EndOf(e, p, k) = p + s
      OBVIOUS
    <3>2. PICK l \in Nat : l = Segments(d, n, k)
      <4>1. n < Len(d)
        BY <2>2, <3>1
      <4>2. QED
        BY <2>2, <4>1, SegmentsAre
    <3>3. l = Segments(e, p, k)
      BY <2>3, <3>1, <3>2 DEF Segments
    <3>4. EndOf(d, n, k) = n + 1 + l /\ EndOf(e, p, k) = p + 1 + l
      BY <3>2, <3>3 DEF EndOf
    <3>5. 1 + l \in Nat /\ n + 1 + l = n + (1 + l) /\ p + 1 + l = p + (1 + l)
      <4>1. n \in Nat /\ p \in Nat /\ l \in Nat
        BY <2>2, <3>2
      <4>2. QED
        BY <4>1
    <3>6. QED
      BY <3>4, <3>5
  <2>5. InChain(d, n, k) <=> InChain(e, p, k)
    <3>1. CASE m > 0
      <4>1. PICK s \in Nat : EndOf(d, n, k) = n + s /\ EndOf(e, p, k) = p + s
        BY <2>4, <3>1
      <4>2. n < Len(d) /\ p < Len(e)
        BY <2>2, <3>1
      <4>3. n + s <= Len(d) <=> p + s <= Len(e)
        BY <2>2, <4>1
      <4>4. QED
        BY <4>1, <4>2, <4>3 DEF InChain
    <3>2. CASE m = 0
      BY <2>2, <3>2 DEF InChain
    <3>3. QED
      BY <2>2, <3>1, <3>2
  <2>6. CASE InChain(d, n, k)
    <3>1. m > 0
      BY <2>2, <2>6 DEF InChain
    <3>2. PICK x \in n + 1 .. Len(d), next \in DOMAIN Number :
            x = EndOf(d, n, k) /\ next = At(d, n).next
      BY <2>2, <2>6, FartherOn
    <3>3. PICK s \in Nat : EndOf(d, n, k) = n + s /\ EndOf(e, p, k) = p + s
      BY <2>4, <3>1
    <3>4. s \in 1 .. m
      BY <2>2, <3>2, <3>3
    <3>5. Tails(d, n + s, e, p + s)
      BY <2>1, <3>4, TailsOn
    <3>6. Len(d) - (n + s) = m - s /\ m - s \in Nat /\ m - s < m
      BY <2>2, <3>4
    <3>7. Chain(d, n + s, next) = Chain(e, p + s, next)
      BY <1>1, <3>5, <3>6
    <3>8. Chain(d, n, k) = Longer(k, Chain(d, n + s, next))
      BY <2>2, <2>6, <3>2, <3>3, ChainIs
    <3>9. Chain(e, p, k) = Longer(k, Chain(e, p + s, next))
      BY <2>2, <2>3, <2>5, <2>6, <3>1, <3>2, <3>3, ChainIs
    <3>10. QED
      BY <3>7, <3>8, <3>9
  <2>7. CASE ~InChain(d, n, k)
    <3>1. ~InChain(e, p, k)
      BY <2>5, <2>7
    <3>2. From(d, n) = From(e, p)
      <4>1. m = Len(d) - n /\ m = Len(e) - p
        BY <2>2
      <4>2. \A i \in 1 .. m : d[n + i] = e[p + i]
        BY <2>1, <4>1 DEF Tails
      <4>3. QED
        BY <2>2, <4>1, <4>2, SameRest
    <3>3. Chain(d, n, k) = ChainEnd(d, n, k) /\ Chain(e, p, k) = ChainEnd(e, p, k)
      BY <2>2, <2>7, <3>1, ChainIs
    <3>4. QED
      BY <3>2, <3>3 DEF ChainEnd
  <2>8. QED
    BY <2>6, <2>7
<1>2. T = Nat
  <2> HIDE DEF T
  <2>1. T \in SUBSET Nat
    BY DEF T
  <2>2. QED
    BY <1>1, <2>1, Complete
<1>3. ASSUME NEW n, NEW p, NEW k \in DOMAIN Number, Tails(d, n, e, p)
      PROVE  Chain(d, n, k) = Chain(e, p, k)
  <2>1. Len(d) - n \in Nat
    BY <1>3 DEF Tails
  <2>2. SameFor(Len(d) - n)
    BY <1>2, <2>1
  <2>3. QED
    BY <1>3, <2>2
<1>4. QED
  BY <1>3

\* A chain that has moved, with the header that announces it.
LEMMA ChainMoved ==
  ASSUME NEW d, NEW vs, Typed(d, vs), Linked(d, vs), vs # <<>>, NEW e \in Seq(Cell), NEW ws,
         NextProtocol(e, ws) = NextProtocol(d, vs),
         Tails(d, PayloadOffset(d, vs), e, PayloadOffset(e, ws))
  PROVE  ChainBehind(e, ws) = ChainBehind(d, vs)
<1>1. PICK next \in DOMAIN Number : next = NextProtocol(d, vs)
  BY NextIs
<1>2. d \in Seq(Cell)
  BY DEF Typed
<1>3. Chain(d, PayloadOffset(d, vs), next) = Chain(e, PayloadOffset(e, ws), next)
  BY <1>1, <1>2, ChainTails
<1>4. QED
  BY <1>1, <1>3 DEF ChainBehind

\* The messages there are views of.
LEMMA TypesAre ==
  ASSUME NEW t \in Types
  PROVE  /\ t = <<t[1], t[2]>> /\ t[1] \in Kinds
         /\ t[2] # "none" => t[1] \in Icmps /\ t[2] \in Messages(t[1])
<1>1. CASE t \in {"Ethernet", "Ipv4", "Ipv6", "Srh", "Fragment", "Udp", "Tcp", "Icmpv4", "Icmpv6"}
                   \X {"none"}
  BY <1>1 DEF Kinds
<1>2. CASE t \in UNION {{k} \X Messages(k) : k \in Icmps}
  <2>1. PICK k \in Icmps : t \in {k} \X Messages(k)
    BY <1>2
  <2>2. k \in Kinds
    BY DEF Kinds, Icmps
  <2>3. QED
    BY <2>1, <2>2
<1>3. QED
  BY <1>1, <1>2 DEF Types

\* An extension header that is pushed takes over what follows.
LEMMA PushKeepsChain ==
  ASSUME Good, NEW k \in Extensions, NEW msg, msg = "none", Push(k, msg), Len(views') # 0
  PROVE  ChainBehind(data', views') = ChainBehind(data, views)
<1>1. /\ Typed(data, views) /\ Linked(data, views) /\ Len(views) \in Nat
      /\ Len(data) \in Nat /\ data \in Seq(Cell)
  BY Inside DEF Good, Typed
<1>2. k \in Kinds /\ k \notin Icmps /\ k # "Ethernet" /\ TopKind(views) \in Envelopes(k)
  BY DEF Extensions, Kinds, Icmps, Push
<1>3. views # <<>>
  BY <1>1, <1>2, OnTop, EnvelopesAre DEF Extensions
<1>4. PICK o \in 0 .. Len(data) : o = PayloadOffset(data, views)
  BY <1>1, OnTop
<1>5. PICK next \in DOMAIN Number : next = NextProtocol(data, views)
  BY <1>1, <1>3, NextIs
<1>6. PICK new : new = New(k, msg, next)
  OBVIOUS
<1>7. /\ new \in Seq(Cell) /\ Len(new) \in {1, 2}
      /\ k = "Srh" => Len(new) = 2 /\ new[1].len = 0
      /\ k # "Srh" => Len(new) = 1
      /\ new[1].next = next
  <2>1. /\ new \in Seq(Cell) /\ Len(new) \in {1, 2}
        /\ k = "Srh" => Len(new) = 2 /\ new[1].len = 0
    BY <1>2, <1>6, NewCells
  <2>2. CASE k = "Srh"
    <3>1. PICK c : c = [Blank EXCEPT !.next = next, !.ext = 2]
      OBVIOUS
    <3>2. new = <<c, Blank>>
      BY <1>2, <1>6, <2>2, <3>1 DEF New, Icmps
    <3>3. new[1] = c
      BY <3>2
    <3>4. c.next = next
      BY <3>1 DEF Blank
    <3>5. QED
      BY <2>1, <2>2, <3>3, <3>4
  <2>3. CASE k # "Srh"
    <3>1. PICK c : c = [Blank EXCEPT !.next = next]
      OBVIOUS
    <3>2. k = "Fragment"
      BY <2>3 DEF Extensions
    <3>3. new = <<c>>
      BY <1>2, <1>6, <3>1, <3>2 DEF New
    <3>4. Len(new) = 1 /\ new[1] = c
      BY <3>3
    <3>5. c.next = next
      BY <3>1 DEF Blank
    <3>6. QED
      BY <2>1, <2>3, <3>4, <3>5
  <2>4. QED
    BY <2>2, <2>3
<1>8. CanExtend(data, Len(new))
  <2>1. SUFFICES ASSUME ~CanExtend(data, Len(new)) PROVE FALSE
    OBVIOUS
  <2>2. Free("err")
    BY <1>3, <1>5, <1>6, <2>1 DEF Push
  <2>3. QED
    BY <2>2 DEF Free
<1>9. PICK f : f = Pushed(data, views, k, msg, next)
  OBVIOUS
<1>10. PICK view : view = View(f, k, msg, o)
  OBVIOUS
<1>11. data' = f /\ views' = Append(views, view)
  <2>1. data' = f
    BY <1>2, <1>3, <1>5, <1>6, <1>8, <1>9 DEF Push, Pushed
  <2>2. views' = Append(views, View(data', k, msg, o))
    BY <1>2, <1>3, <1>4, <1>5, <1>6, <1>8 DEF Push
  <2>3. QED
    BY <1>10, <2>1, <2>2
<1>12. /\ f \in Seq(Cell) /\ Len(f) = Len(data) + Len(new) /\ f[o + 1] = new[1]
       /\ \A i \in 1 .. Len(data) - o : f[o + Len(new) + i] = data[o + i]
  <2>1. /\ Typed(data, views) /\ Linked(data, views) /\ k \in Kinds
        /\ TopKind(views) \in Envelopes(k) /\ k \notin Icmps
    BY <1>1, <1>2
  <2>2. LET g == Pushed(data, views, k, msg, next)
            cells == New(k, msg, next)
            p == PayloadOffset(data, views)
        IN  /\ g \in Seq(Cell) /\ Len(g) = Len(data) + Len(cells) /\ g[p + 1] = cells[1]
            /\ \A i \in 1 .. Len(data) - p : g[p + Len(cells) + i] = data[p + i]
    BY <2>1, PushedIs
  <2>3. QED
    BY <1>4, <1>6, <1>9, <2>2
<1>13. /\ view.k = k /\ view.off = o
       /\ k = "Srh" => view.segs = f[o + 1].len + 1
  BY <1>10 DEF View, At
<1>14. views' # <<>> /\ Last(views') = view
  <2>1. views \in Seq(ViewOf)
    BY <1>1 DEF Typed
  <2>2. QED
    BY <1>11, <2>1 DEF Last
<1>15. NextProtocol(f, views') = next
  BY <1>7, <1>12, <1>13, <1>14 DEF NextProtocol, Header, At
<1>16. PayloadOffset(f, views') = o + Len(new)
  <2>1. CASE k = "Srh"
    <3>1. view.segs = 1
      BY <1>7, <1>12, <1>13, <2>1
    <3>2. HeaderLen(f, view) = 2
      BY <1>13, <2>1, <3>1 DEF HeaderLen
    <3>3. QED
      BY <1>7, <1>13, <1>14, <2>1, <3>2 DEF PayloadOffset
  <2>2. CASE k # "Srh"
    <3>1. HeaderLen(f, view) = 1
      BY <1>2, <1>13, <2>2 DEF HeaderLen
    <3>2. QED
      BY <1>7, <1>13, <1>14, <2>2, <3>1 DEF PayloadOffset
  <2>3. QED
    BY <2>1, <2>2
<1>17. PICK l \in Nat, m \in Nat :
         l = Len(new) /\ o \in Nat /\ m = Len(data) - o /\ Len(data) = o + m
  BY <1>1, <1>7
<1>18. Len(f) = o + l + m
  BY <1>12, <1>17
<1>19. o + l \in 0 .. Len(f) /\ Len(data) - o = Len(f) - (o + l)
  BY <1>17, <1>18
<1>20. Tails(data, o, f, o + l)
  BY <1>12, <1>17, <1>19 DEF Tails
<1>21. Tails(data, PayloadOffset(data, views), f, PayloadOffset(f, views'))
  BY <1>4, <1>16, <1>17, <1>20
<1>22. NextProtocol(f, views') = NextProtocol(data, views)
  BY <1>5, <1>15
<1>23. ChainBehind(f, views') = ChainBehind(data, views)
  BY <1>1, <1>3, <1>12, <1>21, <1>22, ChainMoved
<1>24. QED
  BY <1>11, <1>23

\* An extension header that is removed hands on what followed it.
LEMMA RemoveKeepsChain ==
  ASSUME Good, RemoveHeader, Last(views).k \in Extensions
  PROVE  ChainBehind(data', views') = ChainBehind(data, views)
<1>1. /\ Typed(data, views) /\ Linked(data, views) /\ views # <<>>
      /\ Len(data) \in Nat
  BY Inside DEF Good, RemoveHeader
<1>2. PICK f : f = Removed(data, views)
  OBVIOUS
<1>3. PICK ws : ws = Front(views)
  OBVIOUS
<1>4. data' = f /\ views' = ws
  BY <1>2, <1>3 DEF RemoveHeader, Removed
<1>5. PICK o : o = Last(views).off
  OBVIOUS
<1>6. PICK n \in 0 .. Len(data) : n = PayloadOffset(data, views)
  BY <1>1, OnTop
<1>7. /\ f \in Seq(Cell) /\ Len(f) = Len(data) - (n - o)
      /\ Typed(f, ws) /\ Linked(f, ws) /\ PayloadOffset(f, ws) = o
      /\ NextProtocol(f, ws) = NextProtocol(data, views)
      /\ \A i \in 1 .. Len(data) - n : f[o + i] = data[n + i]
  BY <1>1, <1>2, <1>3, <1>5, <1>6, RemovedIs
<1>8. o \in 0 .. Len(f)
  BY <1>7, OnTop
<1>9. Len(data) - n = Len(f) - o
  BY <1>1, <1>7, <1>8
<1>10. Tails(data, PayloadOffset(data, views), f, PayloadOffset(f, ws))
  BY <1>6, <1>7, <1>8, <1>9 DEF Tails
<1>11. ChainBehind(f, ws) = ChainBehind(data, views)
  BY <1>1, <1>7, <1>10, ChainMoved
<1>12. QED
  BY <1>4, <1>11

\* Only parse, which leaves the packet as it is, and push put a view on top.
LEMMA OnlyPushGrows ==
  ASSUME Good, [Next]_vars, Len(views') = Len(views) + 1, data' # data
  PROVE  \E t \in Types : Push(t[1], t[2])
<1>1. /\ Len(views) \in Nat /\ views \in Seq(ViewOf) /\ Len(<<>>) = 0
  BY Inside DEF Good, Typed
<1>2. Len(views') # Len(views) /\ Len(views') # 0
  BY <1>1
<1>3. UNCHANGED views => FALSE
  BY <1>2
<1>4. \A v : Free(v) => FALSE
  BY <1>1, <1>2 DEF Free
<1>5. \A v : Keep(v) => FALSE
  BY <1>3 DEF Keep
<1>6. views # <<>> /\ views' = Front(views) => FALSE
  <2>1. SUFFICES ASSUME views # <<>>, views' = Front(views) PROVE FALSE
    OBVIOUS
  <2>2. Len(views') = Len(views) - 1
    BY <2>1, Below DEF Good
  <2>3. QED
    BY <1>1, <2>2
<1>7. ASSUME NEW i, NEW view, views' = [views EXCEPT ![i] = view] PROVE FALSE
  <2>1. Len(views') = Len(views)
    BY <1>1, <1>7
  <2>2. QED
    BY <1>2, <2>1
<1>8. ASSUME NEW k, NEW msg, Parse(k, msg) \/ Peek(k, msg) PROVE FALSE
  BY <1>4, <1>5, <1>8 DEF Parse, Peek
<1>9. ASSUME NEW msg, Downcast(msg) PROVE FALSE
  <2>1. \/ views' = [views EXCEPT ![Len(views)].msg = msg]
        \/ Free("err")
    BY <1>9 DEF Downcast
  <2>2. QED
    BY <1>4, <1>7, <2>1
<1>10. Deparse \/ Reset \/ Drop \/ RemoveHeader \/ RemovePayload => FALSE
  BY <1>1, <1>2, <1>3, <1>4, <1>5, <1>6 DEF Deparse, Reset, Drop, RemoveHeader, RemovePayload
<1>11. ASSUME NEW i, NEW field, NEW w, SetField(i, field, w) PROVE FALSE
  BY <1>3, <1>11 DEF SetField
<1>12. ASSUME NEW field, NEW same, NEW a, SetIp(field, same, a) PROVE FALSE
  BY <1>3, <1>5, <1>12 DEF SetIp
<1>13. NoChecksum \/ ReconcileAll => FALSE
  BY <1>3 DEF NoChecksum, ReconcileAll
<1>14. ASSUME NEW i, NEW segments, SetSegments(i, segments) PROVE FALSE
  <2>1. \/ views' = [views EXCEPT ![i].segs = Len(segments)]
        \/ Keep("err")
    BY <1>14 DEF SetSegments
  <2>2. QED
    BY <1>5, <1>7, <2>1
<1>15. ASSUME NEW n, SetData(n) PROVE FALSE
  BY <1>3, <1>5, <1>15 DEF SetData
<1>16. ASSUME NEW mtu, TruncateTo(mtu) PROVE FALSE
  BY <1>3, <1>5, <1>16 DEF TruncateTo
<1>17. CASE UNCHANGED vars
  BY <1>3, <1>17 DEF vars
<1>18. QED
  BY <1>8, <1>9, <1>10, <1>11, <1>12, <1>13, <1>14, <1>15, <1>16, <1>17 DEF Next

\* A chain of extension headers is kept by a step.
LEMMA ChainSteps ==
  ASSUME Good, [Next]_vars
  PROVE  /\ Len(views') = Len(views) + 1 /\ data' # data /\ Last(views').k \in Extensions =>
              ChainBehind(data', views') = ChainBehind(data, views)
         /\ RemoveHeader /\ Last(views).k \in Extensions =>
              ChainBehind(data', views') = ChainBehind(data, views)
<1>1. ASSUME Len(views') = Len(views) + 1, data' # data, Last(views').k \in Extensions
      PROVE  ChainBehind(data', views') = ChainBehind(data, views)
  <2>1. PICK t \in Types : Push(t[1], t[2])
    BY <1>1, OnlyPushGrows
  <2>2. Len(views) \in Nat /\ views \in Seq(ViewOf) /\ Len(views') # 0
    BY <1>1, Inside DEF Good, Typed
  <2>3. \/ Free("err")
        \/ \E o : views' = Append(views, View(data', t[1], t[2], o))
    BY <2>1 DEF Push
  <2>4. \E o : views' = Append(views, View(data', t[1], t[2], o))
    BY <2>2, <2>3 DEF Free
  <2>5. PICK o : views' = Append(views, View(data', t[1], t[2], o))
    BY <2>4
  <2>6. Last(views') = View(data', t[1], t[2], o)
    BY <2>2, <2>5 DEF Last
  <2>7. t[1] \in Extensions
    BY <1>1, <2>6 DEF View
  <2>8. t[2] = "none"
    BY <2>7, TypesAre DEF Extensions, Icmps
  <2>9. QED
    BY <2>1, <2>2, <2>7, <2>8, PushKeepsChain
<1>2. QED
  BY <1>1, RemoveKeepsChain
-----------------------------------------------------------------------------
(* The invariant of the specification *)

\* The packet that is received has no views.
LEMMA InitGood == Init => IInv
<1>1. SUFFICES ASSUME Init PROVE IInv
  OBVIOUS
<1>2. /\ data \in Seq(Cell) /\ Len(data) < Room /\ ViewsMax \in Nat
      /\ 0 \in 0 .. MaxCalls
  BY <1>1, PacketsAssumption DEF Init
<1>3. Typed(data, <<>>) /\ Linked(data, <<>>)
  BY <1>2 DEF Typed, Linked
<1>4. Good
  BY <1>1, <1>2, <1>3 DEF Init, Good
<1>5. Flags
  BY <1>1, <1>2 DEF Init, Flags
<1>6. QED
  BY <1>4, <1>5 DEF IInv

\* Every step keeps the headers in place.
LEMMA NextGood == ASSUME Good, HeadersFit, [Next]_vars PROVE Good'
<1>1. ASSUME NEW t \in Types, Parse(t[1], t[2]) \/ Peek(t[1], t[2]) \/ Push(t[1], t[2])
      PROVE  Good'
  <2>1. /\ t[1] \in Kinds
        /\ t[2] # "none" => t[1] \in Icmps /\ t[2] \in Messages(t[1])
    BY TypesAre
  <2>2. CASE Parse(t[1], t[2])
    BY <2>1, <2>2, ParseGood
  <2>3. CASE Peek(t[1], t[2])
    BY <2>3, KeepGood DEF Peek, Keep
  <2>4. CASE Push(t[1], t[2])
    BY <2>1, <2>4, PushGood
  <2>5. QED
    BY <1>1, <2>2, <2>3, <2>4
<1>2. ASSUME NEW msg, Downcast(msg) PROVE Good'
  BY <1>2, DowncastGood
<1>3. CASE Deparse \/ Reset
  BY <1>3, DeparseGood
<1>4. CASE Drop
  BY <1>4, FreeGood DEF Drop
<1>5. CASE RemoveHeader
  BY <1>5, RemoveHeaderGood
<1>6. CASE RemovePayload
  BY <1>6, RemovePayloadGood
<1>7. ASSUME NEW i \in DOMAIN views, NEW field \in {"v", "src", "dst"}, NEW w \in Values,
             SetField(i, field, w)
      PROVE  Good'
  BY <1>7, SetFieldGood
<1>8. ASSUME NEW field \in {"src", "dst"}, NEW same \in BOOLEAN, NEW a \in Addresses,
             SetIp(field, same, a)
      PROVE  Good'
  BY <1>8, SetIpGood
<1>9. CASE NoChecksum
  BY <1>9, NoChecksumGood
<1>10. ASSUME NEW i \in DOMAIN views, NEW segments \in BoundedSeq(Addresses, SegsMax),
              SetSegments(i, segments)
       PROVE  Good'
  BY <1>10, SetSegmentsGood
<1>11. ASSUME NEW n \in 0 .. DataMax, SetData(n) PROVE Good'
  <2>1. n \in Nat
    BY PacketsAssumption
  <2>2. QED
    BY <1>11, <2>1, SetDataGood
<1>12. ASSUME NEW mtu \in Mtus, TruncateTo(mtu) PROVE Good'
  BY <1>12, TruncateGood
<1>13. CASE ReconcileAll
  BY <1>13, ReconcileAllGood
<1>14. CASE UNCHANGED vars
  BY <1>14, KeepGood DEF vars
<1>15. QED
  BY <1>1, <1>2, <1>3, <1>4, <1>5, <1>6, <1>7, <1>8, <1>9, <1>10, <1>11, <1>12, <1>13, <1>14
     DEF Next

\* What a step does with the buffer and what the call says of it: the buffer is
\* freed with the packet; or both stay, and then the call has succeeded, or it
\* has left the packet alone, or it was set_data of no data.
Freed == alive /\ alive' = FALSE /\ frees' = frees + 1
Kept ==
  /\ UNCHANGED <<alive, frees>>
  /\ verdict' = "ok" \/ UNCHANGED <<data, views>> \/ SetData(0)

\* What a call returns, and that it counts.
Counts ==
  /\ verdict' \in {verdict, "ok", "err"}
  /\ calls' = calls \/ (calls < MaxCalls /\ calls' = calls + 1)

\* Every step has one of the two outcomes.
LEMMA Outcomes == [Next]_vars => (Freed \/ Kept) /\ Counts
<1> SUFFICES ASSUME [Next]_vars PROVE (Freed \/ Kept) /\ Counts
  OBVIOUS
<1>1. \A v : Return(v) /\ v = "ok" => Kept
  BY DEF Return, Kept
<1>2. \A v : Keep(v) => Kept
  BY DEF Keep, Return, Kept
<1>3. \A v : alive /\ Free(v) => Freed
  BY DEF Free, Freed
<1> DEFINE Done ==
             /\ alive /\ \E v \in {"ok", "err"} : Free(v) \/ Keep(v) \/ Return("ok")
             /\ UNCHANGED calls \/ Call
<1>4. Done => (Freed \/ Kept) /\ Counts
  <2>1. Done => Freed \/ Kept
    BY <1>1, <1>2, <1>3
  <2>2. Done => Counts
    BY DEF Counts, Free, Keep, Return, Call
  <2>3. QED
    BY <2>1, <2>2
<1>5. ASSUME NEW k, NEW msg, Parse(k, msg) PROVE Done
  BY <1>5 DEF Parse
<1>6. ASSUME NEW k, NEW msg, Peek(k, msg) PROVE Done
  BY <1>6 DEF Peek, Call
<1>7. ASSUME NEW k, NEW msg, Push(k, msg) PROVE Done
  <2> DEFINE o == PayloadOffset(data, views)
             new == New(k, msg, IF views = <<>> THEN "none" ELSE NextProtocol(data, views))
  <2>1. CASE (k \notin Icmps \/ msg # "none") /\ CanExtend(data, Len(new))
    BY <1>7, <2>1 DEF Push, Call
  <2>2. CASE ~((k \notin Icmps \/ msg # "none") /\ CanExtend(data, Len(new)))
    BY <1>7, <2>2 DEF Push, Call
  <2>3. QED
    BY <2>1, <2>2
<1>8. ASSUME NEW msg, Downcast(msg) PROVE Done
  BY <1>8 DEF Downcast, Call
<1>9. Drop => Done
  BY DEF Drop
<1>10. Deparse \/ Reset \/ RemoveHeader \/ NoChecksum \/ ReconcileAll => Done
  BY DEF Deparse, Reset, RemoveHeader, NoChecksum, ReconcileAll, Call
<1>11. RemovePayload => Done
  BY DEF RemovePayload, Call
<1>12. ASSUME NEW i, NEW field, NEW w, SetField(i, field, w) PROVE Done
  BY <1>12 DEF SetField, Call
<1>13. ASSUME NEW field, NEW same, NEW a, SetIp(field, same, a) PROVE Done
  BY <1>13 DEF SetIp, Call
<1>14. ASSUME NEW i, NEW segments, SetSegments(i, segments) PROVE Done
  BY <1>14 DEF SetSegments, Call
<1>15. ASSUME NEW mtu, TruncateTo(mtu) PROVE Done
  BY <1>15 DEF TruncateTo, Call
<1>16. ASSUME NEW n \in 0 .. DataMax, SetData(n) PROVE Done \/ (Kept /\ Counts)
  <2>1. CASE n = 0
    BY <1>16, <2>1 DEF SetData, Call, Return, Keep, Kept, Counts
  <2>2. CASE n # 0
    BY <1>16, <2>2 DEF SetData, Call
  <2>3. QED
    BY <2>1, <2>2
<1>17. UNCHANGED vars => Kept /\ Counts
  BY DEF vars, Kept, Counts
<1> HIDE DEF Done
<1>18. QED
  BY <1>4, <1>5, <1>6, <1>7, <1>8, <1>9, <1>10, <1>11, <1>12, <1>13, <1>14, <1>15,
     <1>16, <1>17 DEF Next

\* The invariant of every step.
LEMMA NextInv == IInv /\ HeadersFit /\ [Next]_vars => IInv'
<1>1. SUFFICES ASSUME IInv, HeadersFit, [Next]_vars PROVE IInv'
  OBVIOUS
<1>2. Good'
  BY <1>1, NextGood DEF IInv
<1>3. alive' \in BOOLEAN /\ frees' \in Nat
  <2>1. Freed \/ Kept
    BY <1>1, Outcomes
  <2>2. CASE Freed
    <3>1. alive' \in BOOLEAN
      BY <2>2 DEF Freed
    <3>2. frees' \in Nat
      BY <1>1, <2>2 DEF IInv, Flags, Freed
    <3>3. QED
      BY <3>1, <3>2
  <2>3. CASE Kept
    BY <1>1, <2>3 DEF IInv, Flags, Kept
  <2>4. QED
    BY <2>1, <2>2, <2>3
<1>4. verdict' \in {"ok", "err"}
  BY <1>1, Outcomes DEF IInv, Flags, Counts
<1>5. calls' \in 0 .. MaxCalls
  BY <1>1, Outcomes, PacketsAssumption DEF IInv, Flags, Counts
<1>6. QED
  BY <1>2, <1>3, <1>4, <1>5 DEF IInv, Flags

\* It implies that every variable has its type,
LEMMA InvTypes == IInv => TypeOK
<1>1. SUFFICES ASSUME IInv PROVE TypeOK
  OBVIOUS
<1>2. Typed(data, views) /\ Len(data) < Room /\ Len(views) <= ViewsMax
  BY <1>1 DEF IInv, Good
<1>3. ASSUME NEW i \in DOMAIN data
      PROVE  /\ DOMAIN data[i] = DOMAIN Blank
             /\ data[i].next \in DOMAIN Number
             /\ \A f \in DOMAIN Blank \ {"next"} : data[i][f] \in Word
  <2>1. data[i] \in Cell
    BY <1>2 DEF Typed
  <2>2. DOMAIN Blank = {"next", "src", "dst", "len", "ext", "csum", "v"}
    BY DEF Blank
  <2>3. QED
    BY <2>1, <2>2 DEF Cell
<1>4. ASSUME NEW i \in DOMAIN views
      PROVE  /\ <<views[i].k, views[i].msg>> \in Types
             /\ views[i].off \in Nat /\ views[i].segs \in Nat
  <2>1. i \in 1 .. Len(views) /\ views[i] \in ViewOf
    BY <1>2 DEF Typed
  <2>2. views[i].k \in Kinds /\ views[i].off \in Nat /\ views[i].segs \in Nat
    BY <2>1 DEF ViewOf
  <2>3. CASE views[i].msg = "none"
    BY <2>2, <2>3 DEF Types, Kinds
  <2>4. CASE views[i].msg # "none"
    <3>1. views[i].k \in Icmps /\ views[i].msg \in Messages(views[i].k)
      BY <1>2, <2>1, <2>4 DEF Typed
    <3>2. <<views[i].k, views[i].msg>> \in {views[i].k} \X Messages(views[i].k)
      BY <3>1
    <3>3. <<views[i].k, views[i].msg>> \in UNION {{k} \X Messages(k) : k \in Icmps}
      BY <3>1, <3>2
    <3>4. QED
      BY <2>2, <3>3 DEF Types
  <2>5. QED
    BY <2>3, <2>4
<1>5. QED
  BY <1>1, <1>2, <1>3, <1>4 DEF IInv, Flags, TypeOK

\* and that the views agree with the buffer.
LEMMA InvHeaders == IInv => HeadersInPlace
<1>1. SUFFICES ASSUME IInv, NEW i \in DOMAIN views
      PROVE  LET view == views[i]
                 below == SubSeq(views, 1, i - 1)
                 h == Header(data, view)
             IN  /\ TopKind(below) \in Envelopes(view.k)
                 /\ view.off = PayloadOffset(data, below)
                 /\ view.off + HeaderLen(data, view) <= Len(data)
                 /\ below # <<>> => NextProtocol(data, below) = view.k
                 /\ view.k = "Srh" => view.segs = h.len + 1 /\ h.ext = 2 * view.segs
                 /\ view.msg # "none" => h.next = view.msg /\ view.off + 1 < Len(data)
  BY DEF HeadersInPlace
<1>2. /\ Typed(data, views) /\ Linked(data, views) /\ i \in 1 .. Len(views)
      /\ Len(views) \in Nat
  BY <1>1, Inside DEF IInv, Good, Typed
<1>3. LinkedAt(data, views, i) /\ Header(data, views[i]) = data[views[i].off + 1]
  BY <1>2 DEF Linked, Header, At
<1>4. PICK below : below = SubSeq(views, 1, i - 1)
  OBVIOUS
<1>5. /\ TopKind(below) \in Envelopes(views[i].k)
      /\ views[i].off = PayloadOffset(data, below)
      /\ below # <<>> => NextProtocol(data, below) = views[i].k
  <2>1. CASE i = 1
    <3>1. below = <<>> /\ views[i].k = "Ethernet" /\ views[i].off = 0
      BY <1>2, <1>3, <1>4, <2>1 DEF LinkedAt
    <3>2. "Mbuf" \in Envelopes("Ethernet")
      BY EnvelopesAre DEF Kinds
    <3>3. QED
      BY <3>1, <3>2 DEF TopKind, PayloadOffset
  <2>2. CASE i # 1
    <3>1. i - 1 \in 1 .. Len(views) /\ i > 1
      BY <1>2, <2>2
    <3>2. /\ Typed(data, below) /\ Linked(data, below) /\ below # <<>>
          /\ Last(below) = views[i - 1]
      BY <1>2, <1>4, <3>1, UpTo
    <3>3. /\ TopKind(below) = views[i - 1].k /\ PayloadOffset(data, below) = End(data, views[i - 1])
          /\ NextProtocol(data, below) = data[views[i - 1].off + 1].next
      BY <3>2 DEF TopKind, PayloadOffset, End, NextProtocol, Header, At
    <3>4. QED
      BY <1>3, <3>1, <3>3 DEF LinkedAt
  <2>3. QED
    BY <2>1, <2>2
<1>6. QED
  BY <1>3, <1>4, <1>5 DEF LinkedAt, End

-----------------------------------------------------------------------------
(* The theorems *)

\* The invariant holds as long as the headers fit.
LEMMA Invariant == Spec /\ []HeadersFit => []IInv
BY InitGood, NextInv, PTL DEF Spec

\* In a program that keeps its headers within the smallest MTU every variable has
\* its type: no length, checksum or address that a call writes is wider than its
\* field, and the packet never outgrows its buffer.
THEOREM TypeCorrect == Spec /\ []HeadersFit => []TypeOK
BY Invariant, InvTypes, PTL

\* Whatever is pushed, removed, resized, cut and reconciled, in any order and on
\* frames, stacks and segments of any size, the views agree with the buffer.
THEOREM HeadersStayInPlace == Spec /\ []HeadersFit => []HeadersInPlace
BY Invariant, InvHeaders, PTL

\* The buffer is freed once, with the packet: no parse, push or downcast that fails
\* leaves it behind, or frees it a second time.
THEOREM BufferFreedOnce == Spec => []FreedOnce
<1>1. Init => FreedOnce
  BY DEF Init, FreedOnce
<1>2. FreedOnce /\ [Next]_vars => FreedOnce'
  BY Outcomes DEF FreedOnce, Freed, Kept
<1>3. QED
  BY <1>1, <1>2, PTL DEF Spec

\* A call that returns an error and leaves the packet to the program has changed
\* nothing in it, apart from set_data of no data.
THEOREM ErrorsLeavePacket == Spec => ErrorLeavesPacket
<1>1. [Next]_vars =>
        [verdict' = "err" /\ alive' /\ ~SetData(0) => UNCHANGED <<data, views>>]_vars
  BY Outcomes DEF Freed, Kept
<1>2. QED
  BY <1>1, PTL DEF Spec, ErrorLeavesPacket

\* An address that is set leaves a checksum right that was, wherever the address is:
\* in the IP header or, the destination, in a segment of a routing header.
THEOREM ChecksumsCarried == Spec /\ []HeadersFit => ChecksumCarried
<1>1. IInv =>
        [\A field \in {"src", "dst"}, a \in Addresses :
           SetIp(field, TRUE, a) /\ Valid(data, views) => Valid(data', views')]_vars
  BY SetIpCarries DEF IInv
<1>2. QED
  BY <1>1, Invariant, PTL DEF ChecksumCarried

\* reconcile_all leaves the lengths and checksums of all views right, for it goes from the
\* innermost outwards and what it writes in an envelope is in no checksum above, even
\* when it cuts the packet.
THEOREM ReconcileLeavesRight == Spec /\ []HeadersFit => ReconcileSettles
<1>1. IInv /\ HeadersFit =>
        [ReconcileAll => \A i \in DOMAIN views' : Settled(data', SubSeq(views', 1, i))]_vars
  BY ReconcileAllSettles DEF IInv
<1>2. QED
  BY <1>1, Invariant, PTL DEF ReconcileSettles

\* An extension header goes into a chain, or out of it, and a receiver finds the same
\* headers and payload behind it as before.
THEOREM ChainsKept == Spec /\ []HeadersFit => ChainKept
<1>1. IInv /\ [Next]_vars =>
        [/\ Len(views') = Len(views) + 1 /\ data' # data /\ Last(views').k \in Extensions =>
              ChainBehind(data', views') = ChainBehind(data, views)
         /\ RemoveHeader /\ Last(views).k \in Extensions =>
              ChainBehind(data', views') = ChainBehind(data, views)]_vars
  BY ChainSteps DEF IInv
<1>2. QED
  BY <1>1, Invariant, PTL DEF ChainKept, Spec
=============================================================================
