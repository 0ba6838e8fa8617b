----------------------------- MODULE NdpProofs ------------------------------
(***************************************************************************)
(* Theorems of module Ndp, for every size of buffer, of options and of     *)
(* their length field, and every packet received: the packet stays within  *)
(* its buffer, a setter of an option changes no other, and a push, an      *)
(* iteration, retain and Redirect::reconcile do to the options that a      *)
(* receiver finds what they promise.                                       *)
(*                                                                         *)
(* The first invariant is TypeOK /\ InBuffer: a cell of the packet is one  *)
(* of the array only because the packet is within it, and a length read    *)
(* from it is bounded only because the cell is.                            *)
(*                                                                         *)
(* The second, Progress, says how far a loop has come: Leads(b, o, pre)    *)
(* relates its offset to the walk of the whole message, for every packet   *)
(* that has the same cells up to there, so that it survives what retain    *)
(* and reconcile change behind the offset.                                 *)
(***************************************************************************)
EXTENDS Ndp, SequenceTheorems, WellFoundedInduction, TLAPS

\* A buffer as every operation finds and leaves it.
Sound(b) ==
  /\ b \in Buffer
  /\ Headroom + b.data_len <= BufLen
  /\ b.pkt_len = b.data_len

-----------------------------------------------------------------------------
(* Arithmetic *)

\* Products of naturals are naturals.
LEMMA ProductNat == \A x, y \in Nat : x * y \in Nat
  BY SMT

\* A remainder is less than the divisor and no more than what is divided.
LEMMA Remainder ==
  ASSUME NEW x \in Nat, NEW n \in Nat \ {0}
  PROVE  /\ x % n \in 0 .. n - 1
         /\ x % n <= x
  BY SMT

\* What is less than the divisor is its own remainder.
LEMMA SmallRemainder ==
  ASSUME NEW x \in Nat, NEW n \in Nat \ {0}, x < n
  PROVE  x % n = x
  BY SMT

\* A quotient of naturals is a natural.
LEMMA Quotient ==
  ASSUME NEW x \in Nat, NEW n \in Nat \ {0}
  PROVE  x \div n \in Nat
  BY SMT

\* A factor of at least one does not make a product smaller.
LEMMA FactorMonotone ==
  ASSUME NEW x \in Nat, NEW y \in Nat, NEW n \in Nat, x <= y
  PROVE  x * n <= y * n
  BY SMT

-----------------------------------------------------------------------------
(* The message buffer *)

\* A packet that fits is received into a sound buffer.
LEMMA ReceivedSound ==
  ASSUME NEW bytes \in Seq(Cell), NEW junk \in Cell,
         Headroom + Len(bytes) <= BufLen
  PROVE  Sound(Received(bytes, junk))
<1>1. Len(bytes) \in Nat
  OBVIOUS
<1>2. ASSUME NEW a \in 0 .. BufLen - 1, a \in Headroom .. Headroom + Len(bytes) - 1
      PROVE  bytes[a - Headroom + 1] \in Cell
  <2>1. a - Headroom + 1 \in 1 .. Len(bytes)
    BY MbufAssumption, <1>1, <1>2, SMT
  <2> QED
    BY <2>1
<1>3. Received(bytes, junk).mem \in [0 .. BufLen - 1 -> Cell]
  BY <1>2 DEF Received
<1> QED
  BY <1>1, <1>3 DEF Sound, Buffer, Received

\* The guard of extend keeps the packet in the buffer that it makes.
LEMMA ExtendSound ==
  ASSUME NEW b, Sound(b), NEW o \in Nat, NEW len \in Nat,
         CanExtend(b, o, len)
  PROVE  Sound(Extend(b, o, len))
<1>1. /\ b.mem \in [0 .. BufLen - 1 -> Cell]
      /\ b.data_len \in Nat /\ b.pkt_len = b.data_len
      /\ Headroom + b.data_len + len < BufLen
  BY MbufAssumption, SMT DEF Sound, Buffer, CanExtend, Tailroom
<1>2. ASSUME NEW a \in 0 .. BufLen - 1,
             a \in Headroom + o + len .. Headroom + b.data_len + len - 1
      PROVE  b.mem[a - len] \in Cell
  <2>1. a - len \in 0 .. BufLen - 1
    BY MbufAssumption, <1>1, <1>2, SMT
  <2> QED
    BY <1>1, <2>1
<1>3. Extend(b, o, len).mem \in [0 .. BufLen - 1 -> Cell]
  BY <1>1, <1>2 DEF Extend
<1> QED
  BY MbufAssumption, <1>1, <1>3, SMT DEF Sound, Buffer, Extend

\* So does that of shrink, which reads no cell behind the packet.
LEMMA ShrinkSound ==
  ASSUME NEW b, Sound(b), NEW o \in Nat, NEW len \in Nat,
         CanShrink(b, o, len)
  PROVE  Sound(Shrink(b, o, len))
<1>1. /\ b.mem \in [0 .. BufLen - 1 -> Cell]
      /\ b.data_len \in Nat /\ b.pkt_len = b.data_len
      /\ Headroom + b.data_len <= BufLen /\ o + len <= b.data_len
  BY MbufAssumption, SMT DEF Sound, Buffer, CanShrink
<1>2. ASSUME NEW a \in 0 .. BufLen - 1,
             a \in Headroom + o .. Headroom + b.data_len - len - 1
      PROVE  b.mem[a + len] \in Cell
  <2>1. a + len \in 0 .. BufLen - 1
    BY MbufAssumption, <1>1, <1>2, SMT
  <2> QED
    BY <1>1, <2>1
<1>3. Shrink(b, o, len).mem \in [0 .. BufLen - 1 -> Cell]
  BY <1>1, <1>2 DEF Shrink
<1> QED
  BY MbufAssumption, <1>1, <1>3, SMT DEF Sound, Buffer, Shrink

\* And truncate, to no more than there is.
LEMMA TruncateSound ==
  ASSUME NEW b, Sound(b), NEW to_len \in Nat, to_len <= b.data_len
  PROVE  Sound(Truncate(b, to_len)) /\ Truncate(b, to_len).data_len = to_len
<1> DEFINE t == Truncate(b, to_len)
<1>1. b \in Buffer /\ Headroom + b.data_len <= BufLen
  BY DEF Sound
<1>2. t \in Buffer
  BY <1>1 DEF Truncate, Buffer
<1>3. t.data_len = to_len /\ t.pkt_len = to_len
  BY <1>1 DEF Truncate, Buffer
<1>4. b.data_len \in Nat
  BY <1>1 DEF Buffer
<1>5. Headroom + to_len <= BufLen
  BY MbufAssumption, <1>1, <1>4, SMT
<1> QED
  BY <1>2, <1>3, <1>5 DEF Sound

\* A write changes cells and no length.
LEMMA WriteSound ==
  ASSUME NEW b, Sound(b), NEW o \in Nat, NEW cells \in Seq(Cell)
  PROVE  /\ Sound(Write(b, o, cells))
         /\ Write(b, o, cells).data_len = b.data_len
<1>1. /\ b.mem \in [0 .. BufLen - 1 -> Cell]
      /\ b.data_len \in Nat /\ b.pkt_len = b.data_len
      /\ Headroom + b.data_len <= BufLen
  BY DEF Sound, Buffer
<1>2. ASSUME NEW a \in 0 .. BufLen - 1,
             a \in Headroom + o .. Headroom + o + Len(cells) - 1
      PROVE  cells[a - Headroom - o + 1] \in Cell
  <2>1. a - Headroom - o + 1 \in 1 .. Len(cells)
    BY MbufAssumption, <1>2, SMT
  <2> QED
    BY <2>1
<1> DEFINE mem == [a \in 0 .. BufLen - 1 |->
                     IF a \in Headroom + o .. Headroom + o + Len(cells) - 1
                     THEN cells[a - Headroom - o + 1] ELSE b.mem[a]]
<1>3. mem \in [0 .. BufLen - 1 -> Cell]
  BY <1>1, <1>2
<1> DEFINE w == Write(b, o, cells)
<1>4. w = [b EXCEPT !.mem = mem]
  BY DEF Write
<1>5. w \in Buffer /\ w.data_len = b.data_len /\ w.pkt_len = b.pkt_len
  <2> HIDE DEF mem, w
  <2> QED
    BY <1>3, <1>4 DEF Sound, Buffer
<1> QED
  BY <1>1, <1>5 DEF Sound

\* A cell of the packet is one of the array.
LEMMA CellInPacket ==
  ASSUME NEW b, Sound(b), NEW o \in Nat, o < b.data_len
  PROVE  /\ Headroom + o \in 0 .. BufLen - 1
         /\ CellAt(b, o) \in Cell
<1>1. Headroom + o \in 0 .. BufLen - 1
  BY MbufAssumption, SMT DEF Sound, Buffer
<1> QED
  BY <1>1 DEF Sound, Buffer, CellAt

-----------------------------------------------------------------------------
(* The options *)

\* A new option is made of cells.
LEMMA FreshCells ==
  ASSUME NEW k \in Kind
  PROVE  Fresh(k) \in Seq(Cell) /\ Units[k] * Unit \in Nat
<1>1. Units[k] \in 1 .. Width - 1 /\ Unit \in Nat
  BY NdpAssumption
<1>2. Units[k] * Unit \in Nat
  BY <1>1, ProductNat, NdpAssumption, SMT
<1>3. [t |-> k, len |-> Units[k]] \in Cell /\ [t |-> "body", len |-> 0] \in Cell
  <2>1. Units[k] \in 0 .. Width - 1 /\ 0 \in 0 .. 1
    BY <1>1, NdpAssumption, SMT
  <2> QED
    BY <2>1, NdpAssumption
<1> DEFINE n == Units[k] * Unit
<1>4. Fresh(k) \in [1 .. n -> Cell]
  BY <1>3 DEF Fresh
<1>5. Fresh(k) \in Seq(Cell)
  <2> HIDE DEF n
  <2>1. n \in Nat
    BY <1>2 DEF n
  <2> QED
    BY <1>4, <2>1, SeqDef
<1> QED
  BY <1>2, <1>5

\* The length of an option is a value of its field, and it ends somewhere.
LEMMA LengthOfOption ==
  ASSUME NEW b, Sound(b), NEW o \in Nat, o < b.data_len
  PROVE  /\ Length(b, o) \in 0 .. Width - 1
         /\ EndOffset(b, o) \in Nat
<1>1. CellAt(b, o) \in Cell
  BY CellInPacket
<1>2. Length(b, o) \in 0 .. Width - 1
  BY <1>1, NdpAssumption DEF Length
<1>3. Length(b, o) \in Nat /\ Unit \in Nat
  BY <1>2, NdpAssumption, SMT
<1>4. Length(b, o) * Unit \in Nat
  BY <1>3, ProductNat
<1>5. EndOffset(b, o) \in Nat
  <2> DEFINE octets == Length(b, o) * Unit
  <2>1. EndOffset(b, o) = o + octets /\ octets \in Nat
    BY <1>4 DEF EndOffset
  <2> HIDE DEF octets
  <2> QED
    BY <2>1, SMT
<1> QED
  BY <1>2, <1>5

\* set_length trims a packet that has the option in it, and writes its cell.
LEMMA SetLengthSound ==
  ASSUME NEW b, Sound(b), NEW o \in Nat, o < b.data_len
  PROVE  Sound(SetLength(b, o))
<1> DEFINE len == b.data_len - o
           over == len % Unit
           trimmed == IF over > 0 THEN Truncate(b, b.data_len - over) ELSE b
           units == (len \div Unit) % Width
           cell == [CellAt(b, o) EXCEPT !.len = units]
<1>1. b.data_len \in Nat /\ len \in Nat
  BY SMT DEF Sound, Buffer
<1>2. over \in Nat /\ over <= len
  <2> HIDE DEF len
  <2>1. over \in 0 .. Unit - 1 /\ over <= len /\ Unit \in Nat
    BY <1>1, Remainder, NdpAssumption
  <2> HIDE DEF over
  <2> QED
    BY <2>1, SMT
<1>3. Sound(trimmed)
  <2>1. CASE over > 0
    <3>1. b.data_len - over \in Nat /\ b.data_len - over <= b.data_len
      <4> HIDE DEF over
      <4> QED
        BY <1>1, <1>2, SMT
    <3>2. Sound(Truncate(b, b.data_len - over))
      <4> HIDE DEF over
      <4> QED
        BY <3>1, TruncateSound
    <3> QED
      BY <2>1, <3>2
  <2>2. CASE ~(over > 0)
    BY <2>2
  <2> QED
    BY <2>1, <2>2
<1>4. units \in 0 .. Width - 1
  <2> DEFINE q == len \div Unit
  <2>1. q \in Nat
    BY <1>1, Quotient, NdpAssumption
  <2> HIDE DEF q
  <2>2. q % Width \in 0 .. Width - 1
    BY <2>1, Remainder, NdpAssumption
  <2> QED
    BY <2>2 DEF q
<1>5. cell \in Cell
  <2>1. CellAt(b, o) \in Cell
    BY CellInPacket
  <2>2. \A c \in Cell, n \in 0 .. Width - 1 : [c EXCEPT !.len = n] \in Cell
    BY NdpAssumption
  <2> HIDE DEF units
  <2> QED
    BY <1>4, <2>1, <2>2
<1>6. <<cell>> \in Seq(Cell)
  <2> HIDE DEF cell
  <2> QED
    BY <1>5
<1>7. SetLength(b, o) = Write(trimmed, o, <<cell>>)
  BY DEF SetLength
<1> HIDE DEF trimmed, cell
<1> QED
  BY <1>3, <1>6, <1>7, WriteSound

\* The truncation to the minimum MTU keeps the buffer sound.
LEMMA ToMinMtuSound ==
  ASSUME NEW b, Sound(b)
  PROVE  Sound(ToMinMtu(b))
<1>1. CASE CanTruncate(b, MinMtu)
  <2>1. MinMtu \in Nat /\ MinMtu <= b.data_len
    BY <1>1, NdpAssumption, SMT DEF CanTruncate, Sound, Buffer
  <2> QED
    BY <1>1, <2>1, TruncateSound DEF ToMinMtu
<1>2. CASE ~CanTruncate(b, MinMtu)
  BY <1>2 DEF ToMinMtu
<1> QED
  BY <1>1, <1>2

-----------------------------------------------------------------------------
(* The invariant *)

\* What TypeOK says of the loops and the calls.
ControlOK ==
  /\ pc \in {"idle", "iter", "retain", "reconcile"}
  /\ offset \in Nat /\ current \in Nat /\ seen \in SUBSET Nat
  /\ removed \in {{}} \cup Refusals
  /\ was \in Buffer
  /\ verdict \in {"ok", "err"}
  /\ calls \in 0 .. MaxCalls

IInv == Sound(m) /\ ControlOK

\* The invariant is type correctness with the bounds of the packet.
LEMMA IInvIs == IInv <=> TypeOK /\ InBuffer
  BY DEF IInv, Sound, ControlOK, TypeOK, InBuffer

\* A packet as it is received is within its buffer.
LEMMA InitInv == Init => IInv
<1> SUFFICES ASSUME Init PROVE IInv
  OBVIOUS
<1>1. PICK f \in Frames : m = Received(f, Junk)
  BY DEF Init
<1>2. f \in Seq(Cell) /\ Headroom + Len(f) < BufLen /\ Junk \in Cell
  BY NdpAssumption
<1>3. Headroom + Len(f) <= BufLen
  BY <1>2, MbufAssumption, SMT
<1>4. Sound(m)
  BY <1>1, <1>2, <1>3, ReceivedSound
<1>5. Base \in Nat /\ MaxCalls \in Nat
  BY NdpAssumption
<1> QED
  BY <1>4, <1>5, SMT DEF Init, IInv, ControlOK, Sound

\* A call into the options is one more of those there may be.
LEMMA CallCounted ==
  ASSUME ControlOK, Call
  PROVE  calls' \in 0 .. MaxCalls
  BY NdpAssumption, SMT DEF ControlOK, Call

\* A loop that ends leaves the invariant, if the buffer it leaves is sound.
LEMMA FinishInv ==
  ASSUME IInv, NEW b, Sound(b), NEW v \in {"ok", "err"}, Finish(v, b)
  PROVE  IInv'
<1>1. m' = b /\ was' = b /\ b \in Buffer
  BY DEF Finish, Sound
<1>2. Base \in Nat
  BY NdpAssumption
<1>3. Sound(m')
  BY <1>1
<1>4. ControlOK'
  BY <1>1, <1>2 DEF Finish, IInv, ControlOK
<1> QED
  BY <1>3, <1>4 DEF IInv, Sound

\* So does one that begins.
LEMMA BeginInv ==
  ASSUME IInv, NEW b, Sound(b), NEW here \in {"iter", "retain", "reconcile"},
         Begin(here, b), removed' \in {{}} \cup Refusals
  PROVE  IInv'
<1>1. m' = b /\ was' = m /\ m \in Buffer
  BY DEF Begin, IInv, Sound
<1>2. Base \in Nat
  BY NdpAssumption
<1>3. calls' \in 0 .. MaxCalls
  BY CallCounted DEF Begin, IInv
<1>4. ControlOK'
  BY <1>1, <1>2, <1>3 DEF Begin, IInv, ControlOK
<1> QED
  BY <1>1, <1>4 DEF IInv, Sound

\* prepend and append at a place in the packet.
LEMMA PushInv ==
  ASSUME IInv, NEW k \in Kind, NEW at \in Nat, Push(k, at)
  PROVE  IInv'
<1> DEFINE n == Units[k] * Unit
<1>1. Fresh(k) \in Seq(Cell) /\ n \in Nat
  BY FreshCells
<1> HIDE DEF n
<1>2. Sound(m') /\ verdict' \in {"ok", "err"} /\ was' = m'
  <2>1. CASE CanExtend(m, at, n)
    <3>1. Sound(Extend(m, at, n))
      BY <1>1, <2>1, ExtendSound DEF IInv
    <3>2. Sound(Write(Extend(m, at, n), at, Fresh(k)))
      BY <1>1, <3>1, WriteSound
    <3> QED
      BY <2>1, <3>2 DEF Push, n
  <2>2. CASE ~CanExtend(m, at, n)
    BY <2>2 DEF Push, n, IInv
  <2> QED
    BY <2>1, <2>2
<1>3. calls' \in 0 .. MaxCalls
  BY CallCounted DEF Push, IInv
<1>4. ControlOK'
  BY <1>2, <1>3 DEF Push, position, IInv, ControlOK, Sound
<1> QED
  BY <1>2, <1>4 DEF IInv, Sound

\* Every step keeps the packet in its buffer.
LEMMA NextInv == IInv /\ [Next]_vars => IInv'
<1> SUFFICES ASSUME IInv, [Next]_vars PROVE IInv'
  OBVIOUS
<1> USE DEF Sound
<1>1. Sound(m) /\ ControlOK /\ m.data_len \in Nat /\ Base \in Nat
  BY NdpAssumption DEF IInv, Buffer
<1>2. ASSUME NEW k \in Kind, Prepend(k) PROVE IInv'
  BY <1>1, <1>2, PushInv DEF Prepend
<1>3. ASSUME NEW k \in Kind, AppendOption(k) PROVE IInv'
  BY <1>1, <1>3, PushInv DEF AppendOption
<1>4. ASSUME NEW k \in Kind, SetField(k) PROVE IInv'
  <2> DEFINE o == current + Units[k] * Unit - 1
  <2>1. <<[t |-> "body", len |-> 1]>> \in Seq(Cell)
    <3>1. 1 \in 0 .. 1
      BY SMT
    <3> QED
      BY <3>1, NdpAssumption
  <2>2. o \in Nat
    <3>1. Units[k] \in Nat \ {0} /\ Unit \in Nat \ {0} /\ current \in Nat
      BY <1>1, NdpAssumption, SMT DEF ControlOK
    <3>2. 1 * Unit <= Units[k] * Unit /\ Units[k] * Unit \in Nat
      BY <3>1, FactorMonotone, ProductNat, SMT
    <3> QED
      BY <3>1, <3>2, SMT
  <2> HIDE DEF o
  <2>3. Sound(m')
    <3>1. m' = Write(m, o, <<[t |-> "body", len |-> 1]>>)
      BY <1>4 DEF SetField, o
    <3> QED
      BY <1>1, <2>1, <2>2, <3>1, WriteSound
  <2> QED
    BY <1>1, <1>4, <2>3 DEF SetField, position, IInv, ControlOK
<1>5. ASSUME SetLengthOfFirst PROVE IInv'
  <2>1. Base < m.data_len
    BY <1>5 DEF SetLengthOfFirst, IsRedirectedHeader, CanRead
  <2>2. Sound(m')
    BY <1>1, <1>5, <2>1, SetLengthSound DEF SetLengthOfFirst
  <2>3. calls' \in 0 .. MaxCalls
    BY <1>1, <1>5, CallCounted DEF SetLengthOfFirst
  <2> QED
    BY <1>1, <1>5, <2>2, <2>3 DEF SetLengthOfFirst, position, IInv, ControlOK
<1>6. ASSUME Iterate PROVE IInv'
  BY <1>1, <1>6, BeginInv DEF Iterate, ControlOK
<1>7. ASSUME Reconcile PROVE IInv'
  BY <1>1, <1>7, BeginInv, ToMinMtuSound DEF Reconcile, ControlOK
<1>8. ASSUME NEW types \in Refusals, Retain(types) PROVE IInv'
  BY <1>1, <1>8, BeginInv DEF Retain
<1>9. ASSUME NextOption PROVE IInv'
  <2>1. CASE m.data_len > offset /\ IsOption(m, offset) /\ pc = "iter"
             /\ current' = offset /\ seen' = seen \cup {offset}
             /\ offset' = EndOffset(m, offset)
             /\ UNCHANGED <<m, pc, removed, was, verdict, calls>>
    <3>1. EndOffset(m, offset) \in Nat
      BY <1>1, <2>1, LengthOfOption, SMT DEF ControlOK
    <3> QED
      BY <1>1, <2>1, <3>1 DEF IInv, ControlOK
  <2>2. CASE \E v \in {"ok", "err"} : Finish(v, m)
    BY <1>1, <2>2, FinishInv
  <2> QED
    BY <1>9, <2>1, <2>2 DEF NextOption
<1>10. ASSUME RetainStep PROVE IInv'
  <2> DEFINE len == (Length(m, offset) * Unit) % Width
  <2>1. CASE m.data_len > offset /\ offset' = EndOffset(m, offset)
             /\ UNCHANGED <<m, pc, current, seen, removed, was, verdict, calls>>
    <3>1. EndOffset(m, offset) \in Nat
      BY <1>1, <2>1, LengthOfOption, SMT DEF ControlOK
    <3> QED
      BY <1>1, <2>1, <3>1 DEF IInv, ControlOK
  <2>2. CASE \E v \in {"ok", "err"} : Finish(v, m)
    BY <1>1, <2>2, FinishInv
  <2>3. CASE m.data_len > offset /\ CanShrink(m, offset, len) /\ m' = Shrink(m, offset, len)
             /\ UNCHANGED <<pc, position, was, verdict, calls>>
    <3>1. offset \in Nat /\ offset < m.data_len
      BY <1>1, <2>3, SMT DEF ControlOK
    <3>2. len \in Nat
      <4>1. Length(m, offset) \in Nat /\ Unit \in Nat
        BY <1>1, <3>1, LengthOfOption, NdpAssumption, SMT
      <4>2. Length(m, offset) * Unit \in Nat
        BY <4>1, ProductNat
      <4>3. len \in 0 .. Width - 1
        BY <4>2, Remainder, NdpAssumption
      <4> HIDE DEF len
      <4> QED
        BY <4>3, SMT
    <3> HIDE DEF len
    <3>3. Sound(m')
      BY <1>1, <2>3, <3>1, <3>2, ShrinkSound
    <3> QED
      BY <1>1, <2>3, <3>3 DEF position, IInv, ControlOK
  <2> QED
    BY <1>10, <2>1, <2>2, <2>3 DEF RetainStep
<1>11. ASSUME ReconcileStep PROVE IInv'
  <2>1. CASE Finish("ok", m)
    BY <1>1, <2>1, FinishInv
  <2>2. CASE m.data_len > offset /\ Finish("ok", SetLength(m, offset))
    <3>1. offset \in Nat /\ offset < m.data_len
      BY <1>1, <2>2, SMT DEF ControlOK
    <3>2. Sound(SetLength(m, offset))
      BY <1>1, <3>1, SetLengthSound
    <3> QED
      BY <2>2, <3>2, FinishInv
  <2>3. CASE m.data_len > offset /\ offset' = EndOffset(m, offset)
             /\ UNCHANGED <<m, pc, current, seen, removed, was, verdict, calls>>
    <3>1. EndOffset(m, offset) \in Nat
      BY <1>1, <2>3, LengthOfOption, SMT DEF ControlOK
    <3> QED
      BY <1>1, <2>3, <3>1 DEF IInv, ControlOK
  <2> QED
    BY <1>11, <2>1, <2>2, <2>3 DEF ReconcileStep
<1>12. CASE UNCHANGED vars
  BY <1>1, <1>12 DEF vars, IInv, ControlOK
<1> QED
  BY <1>2, <1>3, <1>4, <1>5, <1>6, <1>7, <1>8, <1>9, <1>10, <1>11, <1>12 DEF Next, LoopStep

\* The invariant holds of every behaviour.
LEMMA Invariant == Spec => []IInv
  BY InitInv, NextInv, PTL DEF Spec

\* The variables of the options always have their types: a cell that is read is
\* one of the array, and a length that is read leads to an offset.
THEOREM TypeCorrect == Spec => []TypeOK
<1>1. IInv => TypeOK
  BY IInvIs
<1> QED
  BY <1>1, Invariant, PTL

\* Whatever is pushed into a message, removed from it or truncated, in whatever
\* order and with whatever lengths in the packet, it stays within its buffer and
\* the driver is told one length of it.
THEOREM PacketInBuffer == Spec => []InBuffer
<1>1. IInv => InBuffer
  BY IInvIs
<1> QED
  BY <1>1, Invariant, PTL

-----------------------------------------------------------------------------
(* The setters of an option *)

\* What FieldsInsideOption says of a step.
FieldsStep ==
  pc = "iter" /\ m' # m =>
    /\ m'.data_len = m.data_len
    /\ \A o \in 0 .. m.data_len - 1 :
         CellAt(m', o) # CellAt(m, o) => o \in current .. EndOffset(m, current) - 1

\* An option that passes the check of the downcast is as long as the fields of its
\* kind, though the lengths are compared as u8's that may have wrapped: it is not
\* shorter, because the fields of no kind are as long as that.
LEMMA DowncastLongEnough ==
  ASSUME NEW b, Sound(b), NEW o \in Nat, o < b.data_len, NEW k \in Kind, Downcast(b, o, k)
  PROVE  o + Units[k] * Unit <= EndOffset(b, o)
<1> DEFINE fields == Units[k] * Unit
           octets == Length(b, o) * Unit
<1>1. fields \in Nat /\ fields < Width
  BY FreshCells, NdpAssumption
<1>2. octets \in Nat
  <2>1. Length(b, o) \in Nat /\ Unit \in Nat
    BY LengthOfOption, NdpAssumption, SMT
  <2> QED
    BY <2>1, ProductNat
<1>3. octets % Width = fields % Width
  BY DEF Downcast
<1>4. EndOffset(b, o) = o + octets
  BY DEF EndOffset
<1> HIDE DEF fields, octets
<1>5. fields % Width = fields
  BY <1>1, SmallRemainder, NdpAssumption
<1>6. octets % Width <= octets
  BY <1>2, Remainder, NdpAssumption
<1>7. fields <= octets
  BY <1>3, <1>5, <1>6
<1>8. o + fields <= EndOffset(b, o)
  BY <1>1, <1>2, <1>4, <1>7, SMT
<1> QED
  BY <1>8 DEF fields

\* A write of one cell changes that cell.
LEMMA WriteOne ==
  ASSUME NEW b, Sound(b), NEW at \in Nat, NEW c, NEW o \in Nat, o < b.data_len,
         CellAt(Write(b, at, <<c>>), o) # CellAt(b, o)
  PROVE  o = at
<1>1. Headroom + o \in 0 .. BufLen - 1 /\ Headroom \in Nat
  BY CellInPacket, MbufAssumption, SMT
<1>2. Write(b, at, <<c>>).mem = [a \in 0 .. BufLen - 1 |->
        IF a \in Headroom + at .. Headroom + at + Len(<<c>>) - 1
        THEN <<c>>[a - Headroom - at + 1] ELSE b.mem[a]]
  BY DEF Write, Sound, Buffer
<1>3. Headroom + o \in Headroom + at .. Headroom + at + Len(<<c>>) - 1
  BY <1>1, <1>2 DEF CellAt
<1>4. Len(<<c>>) = 1
  OBVIOUS
<1> QED
  BY <1>1, <1>3, <1>4, SMT

\* A setter of a downcast option changes no cell of another one.
THEOREM FieldsInside == Spec => FieldsInsideOption
<1>1. IInv /\ [Next]_vars => FieldsStep
  <2> SUFFICES ASSUME IInv, [Next]_vars, pc = "iter", m' # m
               PROVE  FieldsStep
    BY DEF FieldsStep
  <2>1. PICK k \in Kind : SetField(k)
    BY DEF Next, LoopStep, Prepend, AppendOption, Push, SetLengthOfFirst, Iterate, Reconcile,
           Retain, Begin, Call, NextOption, Finish, RetainStep, ReconcileStep, vars
  <2> DEFINE at == current + Units[k] * Unit - 1
             c == [t |-> "body", len |-> 1]
  <2>2. m' = Write(m, at, <<c>>) /\ Downcast(m, current, k)
    BY <2>1 DEF SetField
  <2>3. Sound(m) /\ current \in Nat /\ current < m.data_len
    BY <2>2 DEF IInv, ControlOK, Downcast, CanRead
  <2>4. /\ Units[k] * Unit \in Nat /\ Unit <= Units[k] * Unit /\ Unit \in Nat \ {0}
    <3>1. Units[k] \in Nat /\ 1 <= Units[k] /\ Unit \in Nat \ {0}
      BY NdpAssumption, SMT
    <3>2. 1 * Unit <= Units[k] * Unit
      BY <3>1, FactorMonotone
    <3> QED
      BY <3>1, <3>2, FreshCells, SMT
  <2>5. at \in current .. EndOffset(m, current) - 1
    <3>1. current + Units[k] * Unit <= EndOffset(m, current)
      BY <2>2, <2>3, DowncastLongEnough
    <3>2. EndOffset(m, current) \in Nat
      BY <2>3, LengthOfOption
    <3> QED
      BY <2>3, <2>4, <3>1, <3>2, SMT
  <2>6. at \in Nat
    BY <2>3, <2>4, SMT
  <2>7. c \in Cell
    BY NdpAssumption, SMT
  <2> HIDE DEF at, c
  <2>8. m'.data_len = m.data_len
    <3>1. <<c>> \in Seq(Cell)
      BY <2>7
    <3> QED
      BY <2>2, <2>3, <2>6, <3>1, WriteSound
  <2>9. ASSUME NEW o \in 0 .. m.data_len - 1, CellAt(m', o) # CellAt(m, o)
        PROVE  o \in current .. EndOffset(m, current) - 1
    <3>1. o \in Nat /\ o < m.data_len
      BY <2>3, SMT DEF Sound, Buffer
    <3>2. o = at
      BY <2>2, <2>3, <2>6, <2>9, <3>1, WriteOne
    <3> QED
      BY <2>5, <3>2
  <2> QED
    BY <2>8, <2>9 DEF FieldsStep
<1>2. FieldsStep => [pc = "iter" /\ m' # m =>
       /\ m'.data_len = m.data_len
       /\ \A o \in 0 .. m.data_len - 1 :
            CellAt(m', o) # CellAt(m, o) => o \in current .. EndOffset(m, current) - 1]_vars
  BY DEF FieldsStep
<1> QED
  BY <1>1, <1>2, Invariant, PTL DEF Spec, FieldsInsideOption

-----------------------------------------------------------------------------
(* Induction and sequences *)

\* Complete induction over a set of natural numbers.
LEMMA Complete ==
  ASSUME NEW T \in SUBSET Nat,
         \A n \in Nat : (\A k \in Nat : k < n => k \in T) => n \in T
  PROVE  T = Nat
<1> DEFINE R == {p \in Nat \X Nat : p[1] < p[2]}
<1>1. IsWellFoundedOn(R, Nat)
  BY NatLessThanWellFounded DEF OpToRel
<1>2. \A x, y \in Nat : <<y, x>> \in R <=> y < x
  OBVIOUS
<1> HIDE DEF R
<1>3. ASSUME Nat \ T # {} PROVE FALSE
  <2>1. PICK x \in Nat \ T : \A y \in Nat \ T : ~ (<<y, x>> \in R)
    BY <1>1, <1>3, WFMin
  <2>2. \A k \in Nat : k < x => k \in T
    BY <1>2, <2>1
  <2> QED
    BY <2>1, <2>2
<1> QED
  BY <1>3

-----------------------------------------------------------------------------
(* What a receiver makes of the options *)

Option == Seq(Cell)
Message == [opts : Seq(Option), rest : Seq(Cell)]

\* A packet with a message in it.
Good(b) == Sound(b) /\ Base <= b.data_len

\* The walk takes an option, and stops otherwise.
Whole(b, o) == o < b.data_len /\ Length(b, o) > 0 /\ EndOffset(b, o) <= b.data_len
Stop(b, o) == [opts |-> <<>>, rest |-> Slice(b, o, b.data_len)]
Before(opt, tail) == [tail EXCEPT !.opts = <<opt>> \o @]
Found(f, b, o) ==
  IF Whole(b, o) THEN Before(Slice(b, o, EndOffset(b, o)), f[EndOffset(b, o)]) ELSE Stop(b, o)

\* f is the walk of b, from every offset.
Walking(f, b) == f = [o \in Base .. b.data_len |-> Found(f, b, o)]
WalkFrom(b, o) == (CHOOSE f : Walking(f, b))[o]

\* An option lies before the end of the packet.
LEMMA WholeEnds ==
  ASSUME NEW b, Good(b), NEW o \in Base .. b.data_len, Whole(b, o)
  PROVE  /\ EndOffset(b, o) \in o + 1 .. b.data_len
         /\ EndOffset(b, o) \in Base .. b.data_len
<1>1. Base \in Nat /\ b.data_len \in Nat /\ o \in Nat /\ o < b.data_len
  BY NdpAssumption DEF Good, Sound, Buffer, Whole
<1>2. PICK n \in Nat : n = Length(b, o) /\ n > 0
  BY <1>1, LengthOfOption DEF Good, Whole
<1>3. Unit \in Nat /\ Unit > 0
  BY NdpAssumption
<1>4. n * Unit \in Nat /\ n * Unit > 0
  <2>1. 1 * Unit <= n * Unit /\ n * Unit \in Nat
    BY <1>2, <1>3, FactorMonotone, ProductNat
  <2> QED
    BY <1>3, <2>1
<1>5. PICK x \in Nat : x = n * Unit /\ x > 0
  BY <1>4
<1>6. EndOffset(b, o) = o + x
  BY <1>2, <1>5 DEF EndOffset
<1> QED
  BY <1>1, <1>5, <1>6 DEF Whole

\* The recursion in Walk has a solution.
LEMMA WalkingIs == ASSUME NEW b, Good(b) PROVE \E f : Walking(f, b)
<1> DEFINE N == b.data_len
           P == Base .. b.data_len
           Solves(n, f) == \A o \in P : o >= N - n => f[o] = Found(f, b, o)
           T == {n \in Nat : \E f : Solves(n, f)}
<1>1. N \in Nat /\ Base \in Nat
  BY NdpAssumption DEF Good, Sound, Buffer
<1>2. ASSUME NEW n \in Nat, \A k \in Nat : k < n => k \in T PROVE n \in T
  <2>1. PICK f : n > 0 => Solves(n - 1, f)
    <3>1. CASE n > 0
      <4>1. n - 1 \in Nat /\ n - 1 < n
        BY <3>1
      <4>2. n - 1 \in T
        BY <1>2, <4>1
      <4> HIDE DEF Solves
      <4> QED
        BY <4>2
    <3>2. CASE ~(n > 0)
      BY <3>2
    <3> QED
      BY <3>1, <3>2
  <2> DEFINE g == [o \in P |-> Found(f, b, o)]
  <2>2. \A o \in P : g[o] = Found(f, b, o)
    OBVIOUS
  <2> HIDE DEF g
  <2>3. ASSUME NEW o \in P, o >= N - n
        PROVE  Found(g, b, o) = Found(f, b, o)
    <3>1. CASE Whole(b, o)
      <4>1. PICK e \in P : e = EndOffset(b, o) /\ e > o
        <5>1. EndOffset(b, o) \in o + 1 .. b.data_len /\ EndOffset(b, o) \in P
          BY <3>1, WholeEnds
        <5> QED
          BY <1>1, <5>1
      <4>2. n > 0 /\ e >= N - (n - 1)
        BY <1>1, <2>3, <4>1
      <4>3. g[e] = f[e]
        BY <2>1, <2>2, <4>2
      <4> QED
        BY <3>1, <4>1, <4>3 DEF Found
    <3>2. CASE ~Whole(b, o)
      BY <3>2 DEF Found
    <3> QED
      BY <3>1, <3>2
  <2>4. Solves(n, g)
    BY <2>2, <2>3
  <2> QED
    BY <2>4
<1>3. T = Nat
  <2> HIDE DEF T
  <2>1. T \in SUBSET Nat
    BY DEF T
  <2> QED
    BY <1>2, <2>1, Complete
<1>4. PICK f : Solves(N, f)
  <2> HIDE DEF Solves
  <2>1. N \in T
    BY <1>1, <1>3
  <2> QED
    BY <2>1
<1>5. \A o \in P : f[o] = Found(f, b, o)
  BY <1>1, <1>4
<1> DEFINE g == [o \in P |-> f[o]]
<1>6. \A o \in P : g[o] = f[o]
  OBVIOUS
<1>7. g = [o \in P |-> g[o]]
  OBVIOUS
<1> HIDE DEF g
<1>8. ASSUME NEW o \in P PROVE g[o] = Found(g, b, o)
  <2>1. CASE Whole(b, o)
    <3>1. PICK e \in P : e = EndOffset(b, o)
      BY <2>1, WholeEnds
    <3>2. g[e] = f[e]
      BY <1>6
    <3> QED
      BY <1>5, <1>6, <2>1, <3>1, <3>2 DEF Found
  <2>2. CASE ~Whole(b, o)
    BY <1>5, <1>6, <2>2 DEF Found
  <2> QED
    BY <2>1, <2>2
<1>9. g = [o \in P |-> Found(g, b, o)]
  BY <1>7, <1>8
<1> QED
  BY <1>9 DEF Walking

\* What Walk makes of an offset, and of what is behind it.
LEMMA WalkIs ==
  ASSUME NEW b, Good(b)
  PROVE  /\ Walk(b) = WalkFrom(b, Base)
         /\ \A o \in Base .. b.data_len :
              WalkFrom(b, o) =
                IF Whole(b, o)
                THEN Before(Slice(b, o, EndOffset(b, o)), WalkFrom(b, EndOffset(b, o)))
                ELSE Stop(b, o)
<1> DEFINE f == CHOOSE g : Walking(g, b)
<1>1. Walking(f, b)
  BY WalkingIs
<1>2. Walk(b) = f[Base]
  BY DEF Walk, Walking, Found, Whole, Before, Stop
<1>3. \A o : WalkFrom(b, o) = f[o]
  BY DEF WalkFrom
<1> HIDE DEF f
<1>4. \A o \in Base .. b.data_len : f[o] = Found(f, b, o)
  BY <1>1 DEF Walking
<1> QED
  BY <1>2, <1>3, <1>4 DEF Found

\* A slice of the packet.
LEMMA SliceIs ==
  ASSUME NEW b, Good(b), NEW o \in Nat, NEW e \in o .. b.data_len
  PROVE  /\ Slice(b, o, e) \in Seq(Cell) /\ Len(Slice(b, o, e)) = e - o
         /\ \A i \in 1 .. e - o : Slice(b, o, e)[i] = CellAt(b, o + i - 1)
<1>1. b.data_len \in Nat /\ e \in Nat /\ e - o \in Nat
  BY DEF Good, Sound, Buffer
<1>2. PICK n \in Nat : n = e - o
  BY <1>1
<1>3. ASSUME NEW i \in 1 .. n PROVE CellAt(b, o + i - 1) \in Cell
  <2>1. o + i - 1 \in Nat /\ o + i - 1 < b.data_len
    BY <1>1, <1>2
  <2> QED
    BY <2>1, CellInPacket DEF Good
<1>4. Slice(b, o, e) = [i \in 1 .. n |-> CellAt(b, o + i - 1)]
  BY <1>2 DEF Slice
<1>5. Slice(b, o, e) \in [1 .. n -> Cell]
  BY <1>3, <1>4
<1>6. Slice(b, o, e) \in Seq(Cell) /\ Len(Slice(b, o, e)) = n
  BY <1>5
<1> QED
  BY <1>2, <1>4, <1>6

\* A number of cells of two packets, from an offset of each on, are the same.
Alike(b, o, e, p, n) == \A i \in 0 .. n - 1 : CellAt(e, p + i) = CellAt(b, o + i)

\* Slices of the same cells are one.
LEMMA SameSlice ==
  ASSUME NEW b, NEW e, NEW o \in Nat, NEW oe \in Nat, NEW p \in Nat, NEW pe \in Nat,
         o <= oe, oe - o = pe - p, Alike(b, o, e, p, oe - o)
  PROVE  Slice(b, o, oe) = Slice(e, p, pe)
<1>1. PICK n \in Nat : oe - o = n /\ pe - p = n
  OBVIOUS
<1>2. ASSUME NEW i \in 1 .. n PROVE CellAt(b, o + i - 1) = CellAt(e, p + i - 1)
  <2>1. i - 1 \in 0 .. n - 1 /\ o + (i - 1) = o + i - 1 /\ p + (i - 1) = p + i - 1
    BY <1>1
  <2>2. CellAt(e, p + (i - 1)) = CellAt(b, o + (i - 1))
    BY <1>1, <2>1 DEF Alike
  <2> QED
    BY <2>1, <2>2
<1>3. [i \in 1 .. n |-> CellAt(b, o + i - 1)] = [i \in 1 .. n |-> CellAt(e, p + i - 1)]
  BY <1>2
<1> QED
  BY <1>1, <1>3 DEF Slice

\* An option before what is found behind it.
LEMMA BeforeIs ==
  ASSUME NEW w \in Message, NEW opt \in Option
  PROVE  /\ Before(opt, w) = [opts |-> <<opt>> \o w.opts, rest |-> w.rest]
         /\ Before(opt, w) \in Message
<1>1. PICK s \in Seq(Option), r \in Seq(Cell) : w = [opts |-> s, rest |-> r]
  BY DEF Message
<1>2. <<opt>> \o s \in Seq(Option)
  BY ConcatProperties
<1>3. w.opts = s /\ w.rest = r
  BY <1>1
<1>4. PICK x \in Seq(Option) : x = <<opt>> \o s
  BY <1>2
<1>5. Before(opt, w) = [w EXCEPT !.opts = x]
  BY <1>3, <1>4 DEF Before
<1>6. [w EXCEPT !.opts = x] = [opts |-> x, rest |-> r]
  BY <1>1
<1> QED
  BY <1>3, <1>4, <1>5, <1>6 DEF Message

\* It finds options and a rest, from every offset.
LEMMA WalkType ==
  ASSUME NEW b, Good(b), NEW o \in Base .. b.data_len
  PROVE  WalkFrom(b, o) \in Message
<1> DEFINE P(n) == \A p \in Base .. b.data_len : b.data_len - p = n => WalkFrom(b, p) \in Message
           T == {n \in Nat : P(n)}
<1>1. b.data_len \in Nat /\ Base \in Nat
  BY NdpAssumption DEF Good, Sound, Buffer
<1>2. ASSUME NEW n \in Nat, \A k \in Nat : k < n => k \in T PROVE n \in T
  <2>1. SUFFICES ASSUME NEW p \in Base .. b.data_len, b.data_len - p = n
                 PROVE  WalkFrom(b, p) \in Message
    OBVIOUS
  <2>2. p \in Nat
    BY <1>1
  <2>3. CASE Whole(b, p)
    <3>1. PICK e \in Base .. b.data_len : e = EndOffset(b, p) /\ e > p
      <4>1. EndOffset(b, p) \in p + 1 .. b.data_len /\ EndOffset(b, p) \in Base .. b.data_len
        BY <2>3, WholeEnds
      <4> QED
        BY <1>1, <2>2, <4>1
    <3>2. b.data_len - e \in Nat /\ b.data_len - e < n /\ e \in p .. b.data_len
      BY <1>1, <2>1, <2>2, <3>1
    <3>3. WalkFrom(b, e) \in Message
      BY <1>2, <3>2
    <3>4. Slice(b, p, e) \in Option
      BY <2>2, <3>2, SliceIs DEF Option
    <3>5. WalkFrom(b, p) = Before(Slice(b, p, e), WalkFrom(b, e))
      BY <2>3, <3>1, WalkIs
    <3> QED
      BY <3>3, <3>4, <3>5, BeforeIs
  <2>4. CASE ~Whole(b, p)
    <3>1. b.data_len \in p .. b.data_len
      BY <1>1, <2>2
    <3>2. Slice(b, p, b.data_len) \in Seq(Cell)
      BY <2>2, <3>1, SliceIs
    <3>3. Stop(b, p) \in Message
      BY <3>2 DEF Stop, Message
    <3> QED
      BY <2>4, <3>3, WalkIs
  <2> QED
    BY <2>3, <2>4
<1>3. T = Nat
  <2> HIDE DEF T
  <2>1. T \in SUBSET Nat
    BY DEF T
  <2> QED
    BY <1>2, <2>1, Complete
<1>4. b.data_len - o \in Nat
  BY <1>1
<1>5. P(b.data_len - o)
  BY <1>3, <1>4
<1> QED
  BY <1>5

\* From a whole option it goes on behind it.
LEMMA WalkOn ==
  ASSUME NEW b, Good(b), NEW o \in Base .. b.data_len, Whole(b, o)
  PROVE  /\ WalkFrom(b, EndOffset(b, o)) \in Message
         /\ WalkFrom(b, o) =
              [opts |-> <<Slice(b, o, EndOffset(b, o))>> \o WalkFrom(b, EndOffset(b, o)).opts,
               rest |-> WalkFrom(b, EndOffset(b, o)).rest]
<1>1. WalkFrom(b, EndOffset(b, o)) \in Message
  BY WholeEnds, WalkType
<1>2. WalkFrom(b, o) = Before(Slice(b, o, EndOffset(b, o)), WalkFrom(b, EndOffset(b, o)))
  BY WalkIs
<1>3. Slice(b, o, EndOffset(b, o)) \in Option
  <2>1. o \in Nat /\ b.data_len \in Nat
    BY NdpAssumption DEF Good, Sound, Buffer
  <2>2. EndOffset(b, o) \in o + 1 .. b.data_len
    BY WholeEnds
  <2>3. EndOffset(b, o) \in o .. b.data_len
    BY <2>1, <2>2
  <2> QED
    BY <2>1, <2>3, SliceIs DEF Option
<1> QED
  BY <1>1, <1>2, <1>3, BeforeIs

\* And ends where there is none.
LEMMA WalkEnds ==
  ASSUME NEW b, Good(b), NEW o \in Base .. b.data_len, ~Whole(b, o)
  PROVE  /\ WalkFrom(b, o) = Stop(b, o)
         /\ (WalkFrom(b, o).rest = <<>>) = (o = b.data_len)
<1>1. WalkFrom(b, o) = Stop(b, o)
  BY WalkIs
<1>2. o \in Nat /\ b.data_len \in Nat /\ b.data_len \in o .. b.data_len
  BY NdpAssumption DEF Good, Sound, Buffer
<1>3. Slice(b, o, b.data_len) \in Seq(Cell) /\ Len(Slice(b, o, b.data_len)) = b.data_len - o
  BY <1>2, SliceIs
<1>4. (Slice(b, o, b.data_len) = <<>>) <=> (b.data_len - o = 0)
  BY <1>3
<1>5. (Slice(b, o, b.data_len) = <<>>) <=> (o = b.data_len)
  BY <1>2, <1>4
<1> QED
  BY <1>1, <1>5 DEF Stop

\* Two packets are alike from an offset of each on.
Tails(b, o, e, p) ==
  /\ o \in Base .. b.data_len /\ p \in Base .. e.data_len
  /\ b.data_len - o = e.data_len - p
  /\ Alike(b, o, e, p, b.data_len - o)

\* The walk depends on the cells that are ahead of it, not on where they are.
LEMMA WalkTails ==
  ASSUME NEW b, Good(b), NEW e, Good(e), NEW bo, NEW eo, Tails(b, bo, e, eo)
  PROVE  WalkFrom(b, bo) = WalkFrom(e, eo)
<1> DEFINE P(n) == \A o, p : Tails(b, o, e, p) /\ b.data_len - o = n => WalkFrom(b, o) = WalkFrom(e, p)
           T == {n \in Nat : P(n)}
<1>1. b.data_len \in Nat /\ e.data_len \in Nat /\ Base \in Nat
  BY NdpAssumption DEF Good, Sound, Buffer
<1>2. ASSUME NEW n \in Nat, \A k \in Nat : k < n => k \in T PROVE n \in T
  <2>1. SUFFICES ASSUME NEW o, NEW p, Tails(b, o, e, p), b.data_len - o = n
                 PROVE  WalkFrom(b, o) = WalkFrom(e, p)
    OBVIOUS
  <2>2. /\ o \in Nat /\ p \in Nat /\ b.data_len = o + n /\ e.data_len = p + n
        /\ o \in Base .. b.data_len /\ p \in Base .. e.data_len
        /\ \A i \in 0 .. n - 1 : CellAt(e, p + i) = CellAt(b, o + i)
    <3>1. o \in Base .. b.data_len /\ p \in Base .. e.data_len /\ n = e.data_len - p
      BY <2>1 DEF Tails
    <3>2. \A i \in 0 .. n - 1 : CellAt(e, p + i) = CellAt(b, o + i)
      BY <2>1 DEF Tails, Alike
    <3> QED
      BY <1>1, <2>1, <3>1, <3>2
  <2>3. n > 0 => Length(b, o) = Length(e, p)
    <3>1. n > 0 => CellAt(e, p + 0) = CellAt(b, o + 0)
      BY <2>2
    <3>2. p + 0 = p /\ o + 0 = o
      BY <2>2
    <3> QED
      BY <3>1, <3>2 DEF Length
  <2>4. n > 0 => \E x \in Nat : EndOffset(b, o) = o + x /\ EndOffset(e, p) = p + x
    <3>1. SUFFICES ASSUME n > 0
                   PROVE  \E x \in Nat : EndOffset(b, o) = o + x /\ EndOffset(e, p) = p + x
      OBVIOUS
    <3>2. o < b.data_len
      BY <2>2, <3>1
    <3>3. PICK l \in Nat : l = Length(b, o)
      BY <2>2, <3>2, LengthOfOption DEF Good
    <3>4. l * Unit \in Nat
      BY <3>3, ProductNat, NdpAssumption
    <3> QED
      BY <2>3, <3>1, <3>3, <3>4 DEF EndOffset
  <2>5. Whole(b, o) <=> Whole(e, p)
    <3>1. CASE n > 0
      <4>1. PICK x \in Nat : EndOffset(b, o) = o + x /\ EndOffset(e, p) = p + x
        BY <2>4, <3>1
      <4>2. o < b.data_len /\ p < e.data_len /\ (o + x <= b.data_len <=> p + x <= e.data_len)
        BY <2>2, <3>1
      <4> QED
        BY <2>3, <3>1, <4>1, <4>2 DEF Whole
    <3>2. CASE ~(n > 0)
      BY <2>2, <3>2 DEF Whole
    <3> QED
      BY <3>1, <3>2
  <2>6. CASE Whole(b, o)
    <3>1. n > 0
      BY <2>2, <2>6 DEF Whole
    <3>2. PICK x \in Nat : EndOffset(b, o) = o + x /\ EndOffset(e, p) = p + x
      BY <2>4, <3>1
    <3>3. x \in 1 .. n
      <4>1. o + x \in o + 1 .. b.data_len
        BY <2>2, <2>6, <3>2, WholeEnds
      <4> QED
        BY <2>2, <4>1
    <3>4. Tails(b, o + x, e, p + x)
      <4>1. o + x \in Base .. b.data_len /\ p + x \in Base .. e.data_len
        BY <1>1, <2>2, <3>3
      <4>2. b.data_len - (o + x) = n - x /\ e.data_len - (p + x) = n - x
        BY <2>2, <3>3
      <4>3. ASSUME NEW i \in 0 .. n - x - 1
            PROVE  CellAt(e, p + x + i) = CellAt(b, o + x + i)
        <5>1. x + i \in 0 .. n - 1 /\ p + (x + i) = p + x + i /\ o + (x + i) = o + x + i
          BY <2>2, <3>3
        <5>2. CellAt(e, p + (x + i)) = CellAt(b, o + (x + i))
          BY <2>2, <5>1
        <5> QED
          BY <5>1, <5>2
      <4> QED
        BY <4>1, <4>2, <4>3 DEF Tails, Alike
    <3>5. b.data_len - (o + x) = n - x /\ n - x \in Nat /\ n - x < n
      BY <2>2, <3>3
    <3>6. WalkFrom(b, o + x) = WalkFrom(e, p + x)
      BY <1>2, <3>4, <3>5
    <3>7. Slice(b, o, o + x) = Slice(e, p, p + x)
      <4>1. \A i \in 0 .. x - 1 : CellAt(e, p + i) = CellAt(b, o + i)
        BY <2>2, <3>3
      <4>2. PICK oe \in Nat, pe \in Nat : oe = o + x /\ pe = p + x
        BY <2>2
      <4>3. oe - o = x /\ pe - p = x /\ o <= oe
        BY <2>2, <4>2
      <4>4. Alike(b, o, e, p, oe - o)
        BY <4>1, <4>3 DEF Alike
      <4>5. o \in Nat /\ p \in Nat /\ o <= oe /\ oe - o = pe - p
        BY <2>2, <4>3
      <4>6. Slice(b, o, oe) = Slice(e, p, pe)
        BY <4>2, <4>4, <4>5, SameSlice
      <4> QED
        BY <4>2, <4>6
    <3>8. WalkFrom(b, o) = Before(Slice(b, o, o + x), WalkFrom(b, o + x))
      BY <2>2, <2>6, <3>2, WalkIs
    <3>9. WalkFrom(e, p) = Before(Slice(e, p, p + x), WalkFrom(e, p + x))
      BY <2>2, <2>5, <2>6, <3>2, WalkIs
    <3> QED
      BY <3>6, <3>7, <3>8, <3>9
  <2>7. CASE ~Whole(b, o)
    <3>1. Slice(b, o, b.data_len) = Slice(e, p, e.data_len)
      <4>1. b.data_len - o = n /\ e.data_len - p = n /\ o <= b.data_len
        BY <2>2
      <4>2. Alike(b, o, e, p, b.data_len - o)
        BY <2>2, <4>1 DEF Alike
      <4>3. o \in Nat /\ p \in Nat /\ o <= b.data_len /\ b.data_len - o = e.data_len - p
        BY <2>2, <4>1
      <4> QED
        BY <1>1, <4>2, <4>3, SameSlice
    <3>2. WalkFrom(b, o) = Stop(b, o) /\ WalkFrom(e, p) = Stop(e, p)
      BY <2>2, <2>5, <2>7, WalkEnds
    <3> QED
      BY <2>2, <3>1, <3>2 DEF Stop
  <2> QED
    BY <2>6, <2>7
<1>3. T = Nat
  <2> HIDE DEF T
  <2>1. T \in SUBSET Nat
    BY DEF T
  <2> QED
    BY <1>2, <2>1, Complete
<1>4. b.data_len - bo \in Nat
  BY <1>1 DEF Tails
<1>5. P(b.data_len - bo)
  BY <1>3, <1>4
<1> QED
  BY <1>5

-----------------------------------------------------------------------------
(* How far the walk has come *)

SameUntil(b, e, o) == \A c \in Base .. o - 1 : CellAt(e, c) = CellAt(b, c)

\* The walk of b, and of whatever is the same up to there, comes to an offset with
\* the options that it has found before.
Leads(b, o, pre) ==
  /\ o \in Base .. b.data_len /\ pre \in Seq(Option)
  /\ \A e : Good(e) /\ o <= e.data_len /\ SameUntil(b, e, o) =>
       /\ WalkFrom(e, Base).opts = pre \o WalkFrom(e, o).opts
       /\ WalkFrom(e, Base).rest = WalkFrom(e, o).rest

\* The offsets of a packet are numbers.
LEMMA Offsets ==
  ASSUME NEW b, Good(b)
  PROVE  /\ b.data_len \in Nat /\ Base \in Nat /\ Base \in Base .. b.data_len
         /\ \A o \in Base .. b.data_len : o \in Nat /\ o <= b.data_len /\ Base <= o
  BY NdpAssumption DEF Good, Sound, Buffer

\* An element between two sequences.
LEMMA Between ==
  ASSUME NEW s \in Seq(Option), NEW x \in Option, NEW t \in Seq(Option)
  PROVE  s \o (<<x>> \o t) = Append(s, x) \o t
<1>1. <<x>> \o t \in Seq(Option) /\ Len(<<x>> \o t) = 1 + Len(t)
  OBVIOUS
<1>2. Append(s, x) \in Seq(Option) /\ Len(Append(s, x)) = Len(s) + 1
  OBVIOUS
<1>3. /\ s \o (<<x>> \o t) \in Seq(Option) /\ Append(s, x) \o t \in Seq(Option)
      /\ Len(s \o (<<x>> \o t)) = Len(s) + (1 + Len(t))
      /\ Len(Append(s, x) \o t) = Len(s) + 1 + Len(t)
  BY <1>1, <1>2
<1>4. ASSUME NEW i \in 1 .. Len(s) + (1 + Len(t))
      PROVE  (s \o (<<x>> \o t))[i] = (Append(s, x) \o t)[i]
  <2>1. CASE i <= Len(s)
    BY <2>1
  <2>2. CASE i = Len(s) + 1
    BY <2>2
  <2>3. CASE i > Len(s) + 1
    BY <2>3
  <2> QED
    BY <2>1, <2>2, <2>3
<1> QED
  BY <1>3, <1>4, SeqEqual

\* The walk begins with no options.
LEMMA LeadsFirst ==
  ASSUME NEW b, Good(b)
  PROVE  Leads(b, Base, <<>>)
<1>1. ASSUME NEW e, Good(e)
      PROVE  WalkFrom(e, Base).opts = <<>> \o WalkFrom(e, Base).opts
  <2>1. WalkFrom(e, Base) \in Message
    BY <1>1, Offsets, WalkType
  <2>2. WalkFrom(e, Base).opts \in Seq(Option)
    BY <2>1 DEF Message
  <2> QED
    BY <2>2, ConcatEmptySeq
<1>2. <<>> \in Seq(Option)
  OBVIOUS
<1> QED
  BY <1>1, <1>2, Offsets DEF Leads

\* It goes on with a whole option.
LEMMA LeadsOn ==
  ASSUME NEW b, Good(b), NEW o, NEW pre, Leads(b, o, pre), Whole(b, o)
  PROVE  Leads(b, EndOffset(b, o), Append(pre, Slice(b, o, EndOffset(b, o))))
<1>1. o \in Base .. b.data_len /\ pre \in Seq(Option)
  BY DEF Leads
<1>2. PICK x \in Nat : /\ x = EndOffset(b, o) /\ x > o /\ x \in Base .. b.data_len
                       /\ x \in o .. b.data_len /\ o \in Nat /\ Base <= o /\ Base \in Nat
  <2>1. EndOffset(b, o) \in o + 1 .. b.data_len /\ EndOffset(b, o) \in Base .. b.data_len
    BY <1>1, WholeEnds
  <2>2. o \in Nat /\ b.data_len \in Nat /\ Base \in Nat /\ Base <= o
    BY <1>1, Offsets
  <2> QED
    BY <2>1, <2>2
<1>3. PICK opt \in Option : opt = Slice(b, o, x)
  BY <1>2, SliceIs DEF Option
<1>4. Append(pre, opt) \in Seq(Option)
  BY <1>1
<1>5. ASSUME NEW e, Good(e), x <= e.data_len, SameUntil(b, e, x)
      PROVE  /\ WalkFrom(e, Base).opts = Append(pre, opt) \o WalkFrom(e, x).opts
             /\ WalkFrom(e, Base).rest = WalkFrom(e, x).rest
  <2>1. e.data_len \in Nat
    BY <1>5, Offsets
  <2>2. o < e.data_len /\ o \in Base .. e.data_len
    BY <1>2, <1>5, <2>1
  <2>3. SameUntil(b, e, o)
    BY <1>2, <1>5 DEF SameUntil
  <2>4. CellAt(e, o) = CellAt(b, o)
    BY <1>2, <1>5 DEF SameUntil
  <2>5. EndOffset(e, o) = x /\ Whole(e, o)
    BY <1>2, <1>5, <2>2, <2>4 DEF EndOffset, Length, Whole
  <2>6. Slice(e, o, x) = opt
    <3>1. Alike(b, o, e, o, x - o)
      <4>1. ASSUME NEW i \in 0 .. x - o - 1 PROVE CellAt(e, o + i) = CellAt(b, o + i)
        <5>1. o + i \in Base .. x - 1
          BY <1>2
        <5> QED
          BY <1>5, <5>1 DEF SameUntil
      <4> QED
        BY <4>1 DEF Alike
    <3>2. o \in Nat /\ x \in Nat /\ o <= x
      BY <1>2
    <3>3. Slice(b, o, x) = Slice(e, o, x)
      BY <3>1, <3>2, SameSlice
    <3> QED
      BY <1>3, <3>3
  <2>7. /\ WalkFrom(e, x) \in Message
        /\ WalkFrom(e, o) = [opts |-> <<opt>> \o WalkFrom(e, x).opts, rest |-> WalkFrom(e, x).rest]
    BY <1>5, <2>2, <2>5, <2>6, WalkOn
  <2>8. /\ WalkFrom(e, Base).opts = pre \o WalkFrom(e, o).opts
        /\ WalkFrom(e, Base).rest = WalkFrom(e, o).rest
    BY <1>5, <2>2, <2>3 DEF Leads
  <2>9. WalkFrom(e, x).opts \in Seq(Option)
    BY <2>7 DEF Message
  <2>10. pre \o (<<opt>> \o WalkFrom(e, x).opts) = Append(pre, opt) \o WalkFrom(e, x).opts
    <3>1. PICK t \in Seq(Option) : t = WalkFrom(e, x).opts
      BY <2>9
    <3>2. pre \o (<<opt>> \o t) = Append(pre, opt) \o t
      BY <1>1, <1>3, Between
    <3> QED
      BY <3>1, <3>2
  <2>11. WalkFrom(e, o).opts = <<opt>> \o WalkFrom(e, x).opts /\ WalkFrom(e, o).rest = WalkFrom(e, x).rest
    <3>1. PICK s, r : s = <<opt>> \o WalkFrom(e, x).opts /\ r = WalkFrom(e, x).rest
      OBVIOUS
    <3>2. WalkFrom(e, o) = [opts |-> s, rest |-> r]
      BY <2>7, <3>1
    <3> QED
      BY <3>1, <3>2
  <2> QED
    BY <2>8, <2>10, <2>11
<1>6. Leads(b, x, Append(pre, opt))
  BY <1>2, <1>4, <1>5 DEF Leads
<1> QED
  BY <1>2, <1>3, <1>6

\* It depends on nothing behind the offset.
LEMMA LeadsSame ==
  ASSUME NEW b, NEW e, Good(e), NEW o, NEW pre, Leads(b, o, pre),
         o <= e.data_len, SameUntil(b, e, o)
  PROVE  Leads(e, o, pre)
<1>1. o \in Base .. e.data_len /\ pre \in Seq(Option)
  <2>1. o \in Base .. b.data_len
    BY DEF Leads
  <2>2. o \in Int /\ Base <= o
    BY <2>1
  <2>3. e.data_len \in Nat /\ Base \in Nat
    BY Offsets
  <2> QED
    BY <2>2, <2>3 DEF Leads
<1>2. ASSUME NEW f, SameUntil(e, f, o) PROVE SameUntil(b, f, o)
  BY <1>2 DEF SameUntil
<1> QED
  BY <1>1, <1>2 DEF Leads

\* What a receiver makes of the packet: what was found before, and what is found there.
LEMMA LeadsHere ==
  ASSUME NEW b, Good(b), NEW o, NEW pre, Leads(b, o, pre)
  PROVE  /\ WalkFrom(b, o) \in Message /\ Walk(b) \in Message
         /\ Walk(b) = [opts |-> pre \o WalkFrom(b, o).opts, rest |-> WalkFrom(b, o).rest]
<1>1. o \in Base .. b.data_len
  BY DEF Leads
<1>2. o <= b.data_len
  BY <1>1, Offsets
<1>3. SameUntil(b, b, o)
  BY DEF SameUntil
<1>4. /\ WalkFrom(b, Base).opts = pre \o WalkFrom(b, o).opts
      /\ WalkFrom(b, Base).rest = WalkFrom(b, o).rest
  BY <1>2, <1>3 DEF Leads
<1>5. WalkFrom(b, o) \in Message /\ WalkFrom(b, Base) \in Message
  BY <1>1, Offsets, WalkType
<1>6. \A w \in Message : w = [opts |-> w.opts, rest |-> w.rest]
  BY DEF Message
<1>7. Walk(b) = WalkFrom(b, Base)
  BY WalkIs
<1> QED
  BY <1>4, <1>5, <1>6, <1>7

\* What was found before is all, where no whole option is.
LEMMA LeadsToEnd ==
  ASSUME NEW b, Good(b), NEW o, NEW pre, Leads(b, o, pre), ~Whole(b, o)
  PROVE  Walk(b) = [opts |-> pre, rest |-> Slice(b, o, b.data_len)]
<1>1. o \in Base .. b.data_len /\ pre \in Seq(Option)
  BY DEF Leads
<1>2. WalkFrom(b, o) = [opts |-> <<>>, rest |-> Slice(b, o, b.data_len)]
  BY <1>1, WalkEnds DEF Stop
<1>3. pre \o <<>> = pre
  BY <1>1, ConcatEmptySeq
<1>4. WalkFrom(b, o).opts = <<>> /\ WalkFrom(b, o).rest = Slice(b, o, b.data_len)
  BY <1>2
<1>5. Walk(b) = [opts |-> pre \o WalkFrom(b, o).opts, rest |-> WalkFrom(b, o).rest]
  BY LeadsHere
<1> QED
  BY <1>3, <1>4, <1>5

\* The walk comes to an end.
LEMMA SomeEnd ==
  ASSUME NEW b, Good(b)
  PROVE  \E o, pre : Leads(b, o, pre) /\ ~Whole(b, o)
<1> DEFINE P(n) == \A o, pre : Leads(b, o, pre) /\ b.data_len - o = n =>
                     \E q, all : Leads(b, q, all) /\ ~Whole(b, q)
           T == {n \in Nat : P(n)}
<1>1. ASSUME NEW n \in Nat, \A k \in Nat : k < n => k \in T PROVE n \in T
  <2>1. SUFFICES ASSUME NEW o, NEW pre, Leads(b, o, pre), b.data_len - o = n
                 PROVE  \E q, all : Leads(b, q, all) /\ ~Whole(b, q)
    OBVIOUS
  <2>2. CASE Whole(b, o)
    <3>1. o \in Base .. b.data_len
      BY <2>1 DEF Leads
    <3>2. PICK x \in Nat : x = EndOffset(b, o) /\ x > o /\ x <= b.data_len /\ o \in Nat
      <4>1. EndOffset(b, o) \in o + 1 .. b.data_len
        BY <2>2, <3>1, WholeEnds
      <4> QED
        BY <3>1, <4>1, Offsets
    <3>3. PICK more : more = Append(pre, Slice(b, o, x))
      OBVIOUS
    <3>4. Leads(b, x, more)
      BY <2>1, <2>2, <3>2, <3>3, LeadsOn
    <3>5. b.data_len - x \in Nat /\ b.data_len - x < n
      BY <2>1, <3>2, Offsets
    <3>6. P(b.data_len - x)
      BY <1>1, <3>5
    <3> QED
      BY <3>4, <3>6
  <2>3. CASE ~Whole(b, o)
    BY <2>1, <2>3
  <2> QED
    BY <2>2, <2>3
<1>2. T = Nat
  <2> HIDE DEF T
  <2>1. T \in SUBSET Nat
    BY DEF T
  <2> QED
    BY <1>1, <2>1, Complete
<1>3. b.data_len - Base \in Nat
  BY Offsets
<1>4. P(b.data_len - Base)
  BY <1>2, <1>3
<1> QED
  BY <1>4, LeadsFirst

-----------------------------------------------------------------------------
(* The options that retain leaves *)

Keeping(types, opt, s) == IF opt[1].t \in types THEN s ELSE Append(s, opt)

\* f[n] are the first n options without those of the types.
Filtering(f, opts, types) ==
  f = [n \in 0 .. Len(opts) |-> IF n = 0 THEN <<>> ELSE Keeping(types, opts[n], f[n - 1])]

FiltersTo(f, opts, types, l) ==
  \A n \in 0 .. l : f[n] = IF n = 0 THEN <<>> ELSE Keeping(types, opts[n], f[n - 1])

\* The recursion in Without has a solution, up to every length.
LEMMA FilteringUpTo ==
  ASSUME NEW opts \in Seq(Option), NEW types, NEW l \in Nat
  PROVE  \E f : FiltersTo(f, opts, types, l)
<1> DEFINE Step(f, n) == IF n = 0 THEN <<>> ELSE Keeping(types, opts[n], f[n - 1])
           T == {k \in Nat : \E f : \A n \in 0 .. k : f[n] = Step(f, n)}
<1>1. ASSUME NEW k \in Nat, \A j \in Nat : j < k => j \in T PROVE k \in T
  <2>1. PICK f : k > 0 => \A n \in 0 .. k - 1 : f[n] = Step(f, n)
    <3>1. CASE k > 0
      <4>1. k - 1 \in Nat /\ k - 1 < k
        BY <3>1
      <4>2. k - 1 \in T
        BY <1>1, <4>1
      <4> HIDE DEF Step
      <4> QED
        BY <4>2
    <3>2. CASE ~(k > 0)
      BY <3>2
    <3> QED
      BY <3>1, <3>2
  <2> DEFINE g == [n \in 0 .. k |-> Step(f, n)]
  <2>1a. \A n \in 0 .. k : g[n] = Step(f, n)
    OBVIOUS
  <2> HIDE DEF g
  <2>2. ASSUME NEW n \in 0 .. k PROVE g[n] = Step(g, n)
    <3>1. CASE n = 0
      BY <2>1a, <3>1
    <3>2. CASE n # 0
      <4>1. n - 1 \in 0 .. k - 1 /\ n - 1 \in 0 .. k /\ k > 0
        BY <3>2
      <4>2. g[n - 1] = f[n - 1]
        BY <2>1, <2>1a, <4>1
      <4> QED
        BY <2>1a, <3>2, <4>2
    <3> QED
      BY <3>1, <3>2
  <2> HIDE DEF Step
  <2> QED
    BY <2>2
<1>2. T = Nat
  <2> HIDE DEF T
  <2>1. T \in SUBSET Nat
    BY DEF T
  <2> QED
    BY <1>1, <2>1, Complete
<1>3. l \in T
  BY <1>2
<1> QED
  BY <1>3 DEF FiltersTo

\* So Without is the last value of one.
LEMMA WithoutIs ==
  ASSUME NEW opts \in Seq(Option), NEW types
  PROVE  \E f : /\ Without(opts, types) = f[Len(opts)]
                /\ f[0] = <<>>
                /\ \A n \in 1 .. Len(opts) : f[n] = Keeping(types, opts[n], f[n - 1])
<1> DEFINE f == CHOOSE g : Filtering(g, opts, types)
<1>1. Len(opts) \in Nat
  OBVIOUS
<1>2. PICK h : FiltersTo(h, opts, types, Len(opts))
  BY <1>1, FilteringUpTo
<1>3. Filtering([n \in 0 .. Len(opts) |-> h[n]], opts, types)
  <2> DEFINE g == [n \in 0 .. Len(opts) |-> h[n]]
  <2>1. \A n \in 0 .. Len(opts) : g[n] = h[n]
    OBVIOUS
  <2>2. g = [n \in 0 .. Len(opts) |-> g[n]]
    OBVIOUS
  <2> HIDE DEF g
  <2>3. ASSUME NEW n \in 0 .. Len(opts)
        PROVE  g[n] = IF n = 0 THEN <<>> ELSE Keeping(types, opts[n], g[n - 1])
    <3>1. CASE n = 0
      BY <1>2, <2>1, <3>1 DEF FiltersTo
    <3>2. CASE n # 0
      <4>1. n - 1 \in 0 .. Len(opts)
        BY <1>1, <3>2
      <4> QED
        BY <1>2, <2>1, <3>2, <4>1 DEF FiltersTo
    <3> QED
      BY <3>1, <3>2
  <2>4. Filtering(g, opts, types)
    BY <2>2, <2>3 DEF Filtering
  <2> QED
    BY <2>4 DEF g
<1>4. Filtering(f, opts, types)
  BY <1>3
<1>5. Without(opts, types) = f[Len(opts)]
  BY DEF Without, Filtering, Keeping
<1> HIDE DEF f
<1>6. \A n \in 0 .. Len(opts) : f[n] = IF n = 0 THEN <<>> ELSE Keeping(types, opts[n], f[n - 1])
  BY <1>4 DEF Filtering
<1>7. f[0] = <<>> /\ \A n \in 1 .. Len(opts) : f[n] = Keeping(types, opts[n], f[n - 1])
  BY <1>1, <1>6
<1> QED
  BY <1>5, <1>7

\* Nothing is left of nothing.
LEMMA WithoutEmpty == ASSUME NEW types PROVE Without(<<>>, types) = <<>>
<1>1. <<>> \in Seq(Option) /\ Len(<<>>) = 0
  OBVIOUS
<1> QED
  BY <1>1, WithoutIs

\* The last option is left unless it is of one of the types.
LEMMA WithoutAppend ==
  ASSUME NEW opts \in Seq(Option), NEW opt \in Option, NEW types
  PROVE  Without(Append(opts, opt), types) = Keeping(types, opt, Without(opts, types))
<1> DEFINE more == Append(opts, opt)
           l == Len(opts)
<1>1. /\ more \in Seq(Option) /\ Len(more) = l + 1 /\ l \in Nat
      /\ more[l + 1] = opt /\ \A n \in 1 .. l : more[n] = opts[n]
  OBVIOUS
<1> HIDE DEF more, l
<1>2. PICK f : /\ Without(opts, types) = f[l]
               /\ f[0] = <<>>
               /\ \A n \in 1 .. l : f[n] = Keeping(types, opts[n], f[n - 1])
  BY WithoutIs DEF l
<1>3a. PICK g : /\ Without(more, types) = g[Len(more)]
                /\ g[0] = <<>>
                /\ \A n \in 1 .. Len(more) : g[n] = Keeping(types, more[n], g[n - 1])
  <2>1. more \in Seq(Option)
    BY <1>1
  <2>2. \A s \in Seq(Option) :
          \E h : /\ Without(s, types) = h[Len(s)]
                /\ h[0] = <<>>
                /\ \A n \in 1 .. Len(s) : h[n] = Keeping(types, s[n], h[n - 1])
    BY WithoutIs
  <2> QED
    BY <2>1, <2>2
<1>3. /\ Without(more, types) = g[l + 1]
      /\ g[0] = <<>>
      /\ \A n \in 1 .. l + 1 : g[n] = Keeping(types, more[n], g[n - 1])
  BY <1>1, <1>3a
<1> DEFINE T == {k \in Nat : k <= l => g[k] = f[k]}
<1>4. ASSUME NEW k \in Nat, \A j \in Nat : j < k => j \in T PROVE k \in T
  <2>1. SUFFICES ASSUME k <= l PROVE g[k] = f[k]
    OBVIOUS
  <2>2. CASE k = 0
    BY <1>2, <1>3, <2>2
  <2>3. CASE k # 0
    <3>1. k - 1 \in Nat /\ k - 1 < k /\ k - 1 <= l /\ k \in 1 .. l /\ k \in 1 .. l + 1
      BY <1>1, <2>1, <2>3
    <3>2. g[k - 1] = f[k - 1]
      BY <1>4, <3>1
    <3>3. g[k] = Keeping(types, more[k], g[k - 1]) /\ f[k] = Keeping(types, opts[k], f[k - 1])
      BY <1>2, <1>3, <3>1
    <3> QED
      BY <1>1, <3>1, <3>2, <3>3
  <2> QED
    BY <2>2, <2>3
<1>5. T = Nat
  <2> HIDE DEF T
  <2>1. T \in SUBSET Nat
    BY DEF T
  <2> QED
    BY <1>4, <2>1, Complete
<1>6. g[l] = f[l]
  BY <1>1, <1>5
<1>7. g[l + 1] = Keeping(types, more[l + 1], g[l + 1 - 1])
  BY <1>1, <1>3
<1>8. l + 1 - 1 = l
  BY <1>1
<1> QED
  BY <1>1, <1>2, <1>3, <1>6, <1>7, <1>8 DEF more

-----------------------------------------------------------------------------
(* What the operations do to the cells of the packet *)


\* Extend leaves what is before the place, and moves what is behind it.
LEMMA ExtendCells ==
  ASSUME NEW b, Sound(b), NEW at \in Nat, NEW n \in Nat, CanExtend(b, at, n)
  PROVE  /\ Extend(b, at, n).data_len = b.data_len + n
         /\ \A o \in 0 .. at - 1 : CellAt(Extend(b, at, n), o) = CellAt(b, o)
         /\ \A o \in at .. b.data_len - 1 : CellAt(Extend(b, at, n), o + n) = CellAt(b, o)
<1>1. /\ b.data_len \in Nat /\ Headroom \in Nat /\ BufLen \in Nat
      /\ Headroom + b.data_len + n < BufLen /\ at <= b.data_len
  BY MbufAssumption DEF Sound, Buffer, CanExtend, Tailroom
<1>2. \A a \in 0 .. BufLen - 1 : Extend(b, at, n).mem[a] =
        IF a \in Headroom + at + n .. Headroom + b.data_len + n - 1 THEN b.mem[a - n] ELSE b.mem[a]
  BY DEF Extend
<1>3. Extend(b, at, n).data_len = b.data_len + n
  BY DEF Extend
<1>4. ASSUME NEW o \in 0 .. at - 1 PROVE CellAt(Extend(b, at, n), o) = CellAt(b, o)
  <2>1. Headroom + o \in 0 .. BufLen - 1
        /\ ~(Headroom + o \in Headroom + at + n .. Headroom + b.data_len + n - 1)
    BY <1>1
  <2> QED
    BY <1>2, <2>1 DEF CellAt
<1>5. ASSUME NEW o \in at .. b.data_len - 1
      PROVE  CellAt(Extend(b, at, n), o + n) = CellAt(b, o)
  <2>1. Headroom + (o + n) \in 0 .. BufLen - 1 /\ Headroom + (o + n) - n = Headroom + o
        /\ Headroom + (o + n) \in Headroom + at + n .. Headroom + b.data_len + n - 1
    BY <1>1
  <2>2. PICK a \in 0 .. BufLen - 1 : a = Headroom + (o + n)
    BY <2>1
  <2>3. a \in Headroom + at + n .. Headroom + b.data_len + n - 1 /\ a - n = Headroom + o
    BY <1>1, <2>1, <2>2
  <2>4. Extend(b, at, n).mem[a] = b.mem[a - n]
    BY <1>2, <2>3
  <2> QED
    BY <2>2, <2>3, <2>4 DEF CellAt
<1> QED
  BY <1>3, <1>4, <1>5

\* Shrink leaves what is before the place, and moves up what is behind what goes.
LEMMA ShrinkCells ==
  ASSUME NEW b, Sound(b), NEW at \in Nat, NEW n \in Nat, CanShrink(b, at, n)
  PROVE  /\ Shrink(b, at, n).data_len = b.data_len - n
         /\ \A o \in 0 .. at - 1 : CellAt(Shrink(b, at, n), o) = CellAt(b, o)
         /\ \A o \in at .. b.data_len - n - 1 : CellAt(Shrink(b, at, n), o) = CellAt(b, o + n)
<1>1. /\ b.data_len \in Nat /\ Headroom \in Nat /\ BufLen \in Nat
      /\ Headroom + b.data_len <= BufLen /\ at + n <= b.data_len
  BY MbufAssumption DEF Sound, Buffer, CanShrink
<1>2. \A a \in 0 .. BufLen - 1 : Shrink(b, at, n).mem[a] =
        IF a \in Headroom + at .. Headroom + b.data_len - n - 1 THEN b.mem[a + n] ELSE b.mem[a]
  BY DEF Shrink
<1>3. Shrink(b, at, n).data_len = b.data_len - n
  BY DEF Shrink
<1>4. ASSUME NEW o \in 0 .. at - 1 PROVE CellAt(Shrink(b, at, n), o) = CellAt(b, o)
  <2>1. Headroom + o \in 0 .. BufLen - 1
        /\ ~(Headroom + o \in Headroom + at .. Headroom + b.data_len - n - 1)
    BY <1>1
  <2> QED
    BY <1>2, <2>1 DEF CellAt
<1>5. ASSUME NEW o \in at .. b.data_len - n - 1
      PROVE  CellAt(Shrink(b, at, n), o) = CellAt(b, o + n)
  <2>1. Headroom + o \in 0 .. BufLen - 1 /\ Headroom + o + n = Headroom + (o + n)
        /\ Headroom + o \in Headroom + at .. Headroom + b.data_len - n - 1
    BY <1>1
  <2> QED
    BY <1>2, <2>1 DEF CellAt
<1> QED
  BY <1>3, <1>4, <1>5

\* Truncate leaves the cells.
LEMMA TruncateCells ==
  ASSUME NEW b, Sound(b), NEW n, NEW o
  PROVE  CellAt(Truncate(b, n), o) = CellAt(b, o)
  BY DEF Truncate, CellAt, Sound, Buffer

\* Write puts the cells at their place, and leaves the others.
LEMMA WriteCells ==
  ASSUME NEW b, Sound(b), NEW at \in Nat, NEW cells \in Seq(Cell),
         NEW o \in Nat, o < b.data_len
  PROVE  CellAt(Write(b, at, cells), o) =
           IF o \in at .. at + Len(cells) - 1 THEN cells[o - at + 1] ELSE CellAt(b, o)
<1>1. Headroom + o \in 0 .. BufLen - 1 /\ Headroom \in Nat /\ Len(cells) \in Nat
  BY CellInPacket, MbufAssumption
<1>2. Write(b, at, cells).mem = [a \in 0 .. BufLen - 1 |->
        IF a \in Headroom + at .. Headroom + at + Len(cells) - 1
        THEN cells[a - Headroom - at + 1] ELSE b.mem[a]]
  BY DEF Write, Sound, Buffer
<1>3. /\ Headroom + o - Headroom - at + 1 = o - at + 1
      /\ (Headroom + o \in Headroom + at .. Headroom + at + Len(cells) - 1)
           <=> (o \in at .. at + Len(cells) - 1)
  BY <1>1
<1> QED
  BY <1>1, <1>2, <1>3 DEF CellAt

-----------------------------------------------------------------------------
(* The option at an offset *)

\* A whole option: its cells, and its first one.
LEMMA OptionAt ==
  ASSUME NEW b, Good(b), NEW o \in Base .. b.data_len, Whole(b, o)
  PROVE  /\ Slice(b, o, EndOffset(b, o)) \in Option
         /\ Slice(b, o, EndOffset(b, o))[1].t = Type(b, o)
         /\ Len(Slice(b, o, EndOffset(b, o))) = Length(b, o) * Unit
         /\ Length(b, o) * Unit \in Nat
<1>1. o \in Nat /\ o < b.data_len /\ b.data_len \in Nat
  BY Offsets DEF Whole
<1>2. PICK x \in Nat : x = EndOffset(b, o) /\ x > o /\ x \in o .. b.data_len
  <2>1. EndOffset(b, o) \in o + 1 .. b.data_len
    BY WholeEnds
  <2> QED
    BY <1>1, <2>1
<1>3. /\ Slice(b, o, x) \in Seq(Cell) /\ Len(Slice(b, o, x)) = x - o
      /\ \A i \in 1 .. x - o : Slice(b, o, x)[i] = CellAt(b, o + i - 1)
  BY <1>1, <1>2, SliceIs
<1>4. Slice(b, o, x)[1] = CellAt(b, o)
  <2>1. 1 \in 1 .. x - o /\ o + 1 - 1 = o
    BY <1>1, <1>2
  <2> QED
    BY <1>3, <2>1
<1>5. PICK n \in Nat : n = Length(b, o) * Unit
  <2>1. Length(b, o) \in Nat /\ Unit \in Nat
    BY <1>1, LengthOfOption, NdpAssumption DEF Good
  <2> QED
    BY <2>1, ProductNat
<1>6. x = o + n
  BY <1>2, <1>5 DEF EndOffset
<1>7. x - o = n
  BY <1>1, <1>5, <1>6
<1> QED
  BY <1>2, <1>3, <1>4, <1>5, <1>7 DEF Option, Type

\* Where the iterator finds an option it is whole, or it has no length and the
\* iterator does not get on.
LEMMA IsOptionWhole ==
  ASSUME NEW b, Good(b), NEW o \in Base .. b.data_len, o < b.data_len, IsOption(b, o)
  PROVE  /\ Length(b, o) > 0 => Whole(b, o)
         /\ ~(Length(b, o) > 0) => EndOffset(b, o) = o /\ Length(b, o) * Unit = 0 /\ ~Whole(b, o)
<1>1. o \in Nat /\ b.data_len \in Nat /\ Length(b, o) \in Nat /\ EndOffset(b, o) \in Nat
  BY Offsets, LengthOfOption DEF Good
<1>2. EndOffset(b, o) <= b.data_len
  BY <1>1 DEF IsOption
<1>3. ASSUME ~(Length(b, o) > 0)
      PROVE  EndOffset(b, o) = o /\ Length(b, o) * Unit = 0
  <2>1. Length(b, o) = 0 /\ 0 * Unit = 0
    BY <1>1, <1>3, NdpAssumption
  <2>2. EndOffset(b, o) = o + 0
    BY <2>1 DEF EndOffset
  <2> QED
    BY <1>1, <2>1, <2>2
<1> QED
  BY <1>2, <1>3 DEF Whole

\* Where it finds none there is none, but a length.
LEMMA NoOptionThere ==
  ASSUME NEW b, Good(b), NEW o \in Base .. b.data_len, o < b.data_len, ~IsOption(b, o)
  PROVE  ~Whole(b, o) /\ Length(b, o) > 0
<1>1. o \in Nat /\ b.data_len \in Nat /\ Length(b, o) \in Nat /\ EndOffset(b, o) \in Nat
  BY Offsets, LengthOfOption DEF Good
<1>2. EndOffset(b, o) > b.data_len
  BY <1>1 DEF IsOption, CanRead
<1>3. ASSUME ~(Length(b, o) > 0) PROVE FALSE
  <2>1. Length(b, o) = 0 /\ 0 * Unit = 0
    BY <1>1, <1>3, NdpAssumption
  <2>2. EndOffset(b, o) = o + 0
    BY <2>1 DEF EndOffset
  <2> QED
    BY <1>1, <1>2, <2>2
<1>4. ~(EndOffset(b, o) <= b.data_len)
  BY <1>1, <1>2
<1> QED
  BY <1>3, <1>4 DEF Whole

\* An option that is found is one more of those that were.
LEMMA FoundOneMore ==
  ASSUME NEW b, Good(b), NEW o, NEW pre, Leads(b, o, pre), Whole(b, o),
         NEW s \in Seq(Option), NEW opt, opt = Slice(b, o, EndOffset(b, o))
  PROVE  /\ opt \in Option
         /\ WalkFrom(b, EndOffset(b, o)).opts \in Seq(Option)
         /\ s \o WalkFrom(b, o).opts = Append(s, opt) \o WalkFrom(b, EndOffset(b, o)).opts
         /\ WalkFrom(b, o).rest = WalkFrom(b, EndOffset(b, o)).rest
<1>1. o \in Base .. b.data_len
  BY DEF Leads
<1>2. opt \in Option
  BY <1>1, OptionAt
<1>3. /\ WalkFrom(b, EndOffset(b, o)) \in Message
      /\ WalkFrom(b, o) = [opts |-> <<opt>> \o WalkFrom(b, EndOffset(b, o)).opts,
                           rest |-> WalkFrom(b, EndOffset(b, o)).rest]
  BY <1>1, WalkOn
<1>4. PICK t, r : /\ t \in Seq(Option) /\ t = WalkFrom(b, EndOffset(b, o)).opts
                  /\ r = WalkFrom(b, EndOffset(b, o)).rest
  BY <1>3 DEF Message
<1>5. WalkFrom(b, o).opts = <<opt>> \o t /\ WalkFrom(b, o).rest = r
  <2>1. PICK u : u = <<opt>> \o t
    OBVIOUS
  <2>2. WalkFrom(b, o) = [opts |-> u, rest |-> r]
    BY <1>3, <1>4, <2>1
  <2> QED
    BY <2>1, <2>2
<1>6. s \o (<<opt>> \o t) = Append(s, opt) \o t
  BY <1>2, <1>4, Between
<1> QED
  BY <1>2, <1>4, <1>5, <1>6

-----------------------------------------------------------------------------
(* How far a loop has come *)

Elements(s) == {s[i] : i \in 1 .. Len(s)}
SameFrom(b, e, o) == \A c \in o .. b.data_len - 1 : CellAt(e, c) = CellAt(b, c)

\* The options of b that are at some offsets and have a length.
Given(b, S) == {Slice(b, o, EndOffset(b, o)) : o \in {p \in S : Length(b, p) > 0}}

\* The iterator has given what a walk of the message finds up to its offset, and a
\* setter has changed nothing from there on.
IterProgress ==
  /\ m.data_len = was.data_len /\ SameFrom(was, m, offset)
  /\ current \in seen => current < m.data_len /\ EndOffset(m, current) <= offset
  /\ \A o \in seen : o < was.data_len /\ (Length(was, o) > 0 \/ o = offset)
  /\ \E pre : Leads(was, offset, pre) /\ Given(was, seen) = Elements(pre)

\* retain has left what it accepts of the options up to its offset, and all that is
\* from there on.
RetainProgress ==
  NoWrap(was) =>
    \E done \in Seq(Option) :
      /\ Leads(m, offset, Without(done, removed))
      /\ Walk(was) = [opts |-> done \o WalkFrom(m, offset).opts, rest |-> WalkFrom(m, offset).rest]

\* reconcile has found no Redirected Header up to its offset.
ReconcileProgress ==
  /\ m.data_len <= MinMtu
  /\ \E pre : Leads(m, offset, pre) /\ \A i \in 1 .. Len(pre) : pre[i][1].t # "redirected"

Progress ==
  /\ Good(m) /\ Good(was) /\ offset \in Base .. m.data_len
  /\ pc = "idle" => offset = Base
  /\ pc = "iter" => IterProgress
  /\ pc = "retain" => RetainProgress
  /\ pc = "reconcile" => ReconcileProgress

\* The elements of an empty sequence, and of one that is longer by one.
LEMMA ElementsOf ==
  ASSUME NEW s \in Seq(Option), NEW x \in Option
  PROVE  Elements(<<>>) = {} /\ Elements(Append(s, x)) = Elements(s) \cup {x}
<1>1. Elements(<<>>) = {}
  BY DEF Elements
<1>2. PICK n \in Nat : n = Len(s)
  OBVIOUS
<1>3. /\ Len(Append(s, x)) = n + 1 /\ Append(s, x)[n + 1] = x
      /\ \A i \in 1 .. n : Append(s, x)[i] = s[i]
  BY <1>2
<1>4. PICK more : more = Append(s, x)
  OBVIOUS
<1>5. Elements(more) = {more[i] : i \in 1 .. n + 1} /\ Elements(s) = {s[i] : i \in 1 .. n}
  BY <1>2, <1>3, <1>4 DEF Elements
<1>6. \A i \in 1 .. n + 1 : i \in 1 .. n \/ i = n + 1
  BY <1>2
<1>7. \A i \in 1 .. n : i \in 1 .. n + 1
  BY <1>2
<1>8. n + 1 \in 1 .. n + 1
  BY <1>2
<1>9. /\ \A i \in 1 .. n : more[i] = s[i]
      /\ more[n + 1] = x
  BY <1>3, <1>4
<1>10. Elements(more) = Elements(s) \cup {x}
  <2> HIDE DEF Elements
  <2>1. ASSUME NEW y \in Elements(more) PROVE y \in Elements(s) \cup {x}
    <3>1. PICK i \in 1 .. n + 1 : y = more[i]
      BY <1>5, <2>1
    <3> QED
      BY <1>5, <1>6, <1>9, <3>1
  <2>2. ASSUME NEW y \in Elements(s) \cup {x} PROVE y \in Elements(more)
    <3>1. CASE y = x
      BY <1>5, <1>8, <1>9, <3>1
    <3>2. CASE y \in Elements(s)
      <4>1. PICK i \in 1 .. n : y = s[i]
        BY <1>5, <3>2
      <4> QED
        BY <1>5, <1>7, <1>9, <4>1
    <3> QED
      BY <2>2, <3>1, <3>2
  <2> QED
    BY <2>1, <2>2
<1> QED
  BY <1>1, <1>4, <1>10

\* And its options and their first cells.
LEMMA AppendedOptions ==
  ASSUME NEW s \in Seq(Option), NEW x \in Option, x[1].t # "redirected",
         \A i \in 1 .. Len(s) : s[i][1].t # "redirected"
  PROVE  \A i \in 1 .. Len(Append(s, x)) : Append(s, x)[i][1].t # "redirected"
<1>1. PICK n \in Nat : n = Len(s)
  OBVIOUS
<1>2. PICK more : more = Append(s, x)
  OBVIOUS
<1>3. Len(more) = n + 1 /\ more[n + 1] = x /\ \A i \in 1 .. n : more[i] = s[i]
  BY <1>1, <1>2
<1>4. \A i \in 1 .. n + 1 : i \in 1 .. n \/ i = n + 1
  BY <1>1
<1>5. \A i \in 1 .. n + 1 : more[i][1].t # "redirected"
  BY <1>1, <1>3, <1>4
<1> QED
  BY <1>2, <1>3, <1>5

-----------------------------------------------------------------------------
(* The operations on the buffer of a message *)

\* What is divided is the quotient times the divisor, and the remainder.
LEMMA QuotientAndRemainder ==
  ASSUME NEW x \in Nat, NEW n \in Nat \ {0}
  PROVE  x = (x \div n) * n + (x % n)
  BY SMT

\* A new option in the packet, and the others before it and behind it.
LEMMA PushCells ==
  ASSUME NEW b, Sound(b), NEW k \in Kind, NEW at \in Nat, NEW n \in Nat, n = Units[k] * Unit,
         CanExtend(b, at, n), NEW e, e = Write(Extend(b, at, n), at, Fresh(k))
  PROVE  /\ Sound(e) /\ e.data_len = b.data_len + n /\ at <= b.data_len /\ n > 0
         /\ \A o \in 0 .. at - 1 : CellAt(e, o) = CellAt(b, o)
         /\ \A o \in at .. b.data_len - 1 : CellAt(e, o + n) = CellAt(b, o)
         /\ \A i \in 0 .. n - 1 : CellAt(e, at + i) = Fresh(k)[i + 1]
         /\ Fresh(k) \in Seq(Cell) /\ Len(Fresh(k)) = n
<1>1. PICK x : x = Extend(b, at, n)
  OBVIOUS
<1>2. /\ Sound(x) /\ x.data_len = b.data_len + n
      /\ \A o \in 0 .. at - 1 : CellAt(x, o) = CellAt(b, o)
      /\ \A o \in at .. b.data_len - 1 : CellAt(x, o + n) = CellAt(b, o)
  BY <1>1, ExtendSound, ExtendCells
<1>3. b.data_len \in Nat /\ at <= b.data_len /\ n > 0
  BY DEF CanExtend, Sound, Buffer
<1>4. PICK s : s = Fresh(k) /\ s \in Seq(Cell)
  BY FreshCells
<1>5. Len(s) = n
  <2>1. s = [i \in 1 .. n |-> IF i = 1 THEN [t |-> k, len |-> Units[k]] ELSE [t |-> "body", len |-> 0]]
    BY <1>4 DEF Fresh
  <2> QED
    BY <1>4, <2>1
<1>6. e = Write(x, at, s)
  BY <1>1, <1>4
<1>7. Sound(e) /\ e.data_len = b.data_len + n
  BY <1>2, <1>4, <1>6, WriteSound
<1>8. \A o \in Nat : o < b.data_len + n =>
        CellAt(e, o) = IF o \in at .. at + n - 1 THEN s[o - at + 1] ELSE CellAt(x, o)
  BY <1>2, <1>4, <1>5, <1>6, WriteCells
<1>9. \A o \in 0 .. at - 1 : CellAt(e, o) = CellAt(b, o)
  <2>1. ASSUME NEW o \in 0 .. at - 1
        PROVE  o \in Nat /\ o < b.data_len + n /\ ~(o \in at .. at + n - 1)
    BY <1>3
  <2> QED
    BY <1>2, <1>8, <2>1
<1>10. ASSUME NEW o \in at .. b.data_len - 1 PROVE CellAt(e, o + n) = CellAt(b, o)
  <2>1. PICK p : p = o + n /\ p \in Nat /\ p < b.data_len + n /\ ~(p \in at .. at + n - 1)
    BY <1>3
  <2>2. CellAt(x, p) = CellAt(b, o)
    BY <1>2, <2>1
  <2>3. CellAt(e, p) = CellAt(x, p)
    BY <1>8, <2>1
  <2> QED
    BY <2>1, <2>2, <2>3
<1>11. ASSUME NEW i \in 0 .. n - 1 PROVE CellAt(e, at + i) = s[i + 1]
  <2>1. PICK p : p = at + i /\ p \in Nat /\ p < b.data_len + n /\ p \in at .. at + n - 1
                 /\ p - at + 1 = i + 1
    BY <1>3
  <2>2. CellAt(e, p) = s[p - at + 1]
    BY <1>8, <2>1
  <2> QED
    BY <2>1, <2>2
<1> QED
  BY <1>3, <1>4, <1>5, <1>7, <1>9, <1>10, <1>11

\* set_length keeps what is before the option, which takes the rest of the packet in
\* whole units.
LEMMA SetLengthIs ==
  ASSUME NEW b, Good(b), NEW o \in Base .. b.data_len, o + Unit <= b.data_len,
         NEW e, e = SetLength(b, o)
  PROVE  /\ Good(e) /\ o \in Base .. e.data_len /\ o < e.data_len /\ e.data_len <= b.data_len
         /\ SameUntil(b, e, o)
         /\ Type(e, o) = Type(b, o)
         /\ Length(e, o) = ((b.data_len - o) \div Unit) % Width
         /\ e.data_len = o + ((b.data_len - o) \div Unit) * Unit
<1>1. /\ o \in Nat /\ b.data_len \in Nat /\ Base \in Nat /\ Base <= o
      /\ Unit \in Nat \ {0} /\ Width \in Nat \ {0} /\ o < b.data_len
  BY Offsets, NdpAssumption
<1>2. PICK l \in Nat : l = b.data_len - o /\ Unit <= l
  BY <1>1
<1>3. PICK q \in Nat : q = l \div Unit
  BY <1>1, <1>2, Quotient
<1>4. PICK r \in Nat : r = l % Unit /\ r < Unit
  <2>1. l % Unit \in 0 .. Unit - 1
    BY <1>1, Remainder
  <2> QED
    BY <1>1, <2>1
<1>5. PICK d \in Nat : d = q * Unit
  BY <1>1, ProductNat
<1>6. l = d + r
  <2>1. l = (l \div Unit) * Unit + (l % Unit)
    BY <1>1, QuotientAndRemainder
  <2> QED
    BY <1>3, <1>4, <1>5, <2>1
<1>7. d > 0
  BY <1>1, <1>2, <1>4, <1>6
<1>8. PICK cell : cell = [CellAt(b, o) EXCEPT !.len = q % Width]
  OBVIOUS
<1>9. cell \in Cell /\ cell.t = Type(b, o) /\ cell.len = q % Width
  <2>1. CellAt(b, o) \in Cell
    BY <1>1, CellInPacket DEF Good
  <2>2. PICK u \in 0 .. Width - 1 : u = q % Width
    BY <1>1, Remainder
  <2>3. \A c \in Cell, v \in 0 .. Width - 1 : [c EXCEPT !.len = v] \in Cell
    BY NdpAssumption
  <2>4. \A c \in Cell : c = [t |-> c.t, len |-> c.len]
    BY NdpAssumption
  <2>5. PICK c \in Cell : c = CellAt(b, o) /\ c = [t |-> c.t, len |-> c.len]
    BY <2>1, <2>4
  <2>6. cell = [c EXCEPT !.len = u]
    BY <1>8, <2>2, <2>5
  <2>7. cell.t = c.t /\ cell.len = u
    BY <2>5, <2>6
  <2> QED
    BY <2>2, <2>3, <2>5, <2>6, <2>7 DEF Type
<1>10. PICK trimmed : trimmed = IF r > 0 THEN Truncate(b, b.data_len - r) ELSE b
  OBVIOUS
<1>11. Sound(trimmed) /\ trimmed.data_len = o + d /\ \A c : CellAt(trimmed, c) = CellAt(b, c)
  <2>1. CASE r > 0
    <3>1. PICK to \in Nat : to = b.data_len - r /\ to <= b.data_len /\ to = o + d
      BY <1>1, <1>2, <1>6
    <3>2. Sound(Truncate(b, to)) /\ Truncate(b, to).data_len = to
      BY <3>1, TruncateSound DEF Good
    <3>3. \A c : CellAt(Truncate(b, to), c) = CellAt(b, c)
      BY TruncateCells DEF Good
    <3> QED
      BY <1>10, <2>1, <3>1, <3>2, <3>3
  <2>2. CASE ~(r > 0)
    <3>1. b.data_len = o + d
      BY <1>1, <1>2, <1>6, <2>2
    <3> QED
      BY <1>10, <2>2, <3>1 DEF Good
  <2> QED
    BY <2>1, <2>2
<1>12. e = Write(trimmed, o, <<cell>>)
  BY <1>2, <1>3, <1>4, <1>8, <1>10 DEF SetLength
<1>13. PICK s \in Seq(Cell) : s = <<cell>> /\ Len(s) = 1 /\ s[1] = cell
  <2>1. <<cell>> \in Seq(Cell) /\ Len(<<cell>>) = 1 /\ <<cell>>[1] = cell
    BY <1>9
  <2> QED
    BY <2>1
<1>14. Sound(e) /\ e.data_len = o + d
  <2>1. e = Write(trimmed, o, s)
    BY <1>12, <1>13
  <2>2. Sound(Write(trimmed, o, s)) /\ Write(trimmed, o, s).data_len = trimmed.data_len
    BY <1>1, <1>11, WriteSound
  <2> QED
    BY <1>11, <2>1, <2>2
<1>15. \A c \in Nat : c < o + d =>
         CellAt(e, c) = IF c \in o .. o + 1 - 1 THEN s[c - o + 1] ELSE CellAt(trimmed, c)
  <2>1. e = Write(trimmed, o, s) /\ trimmed.data_len = o + d
    BY <1>11, <1>12, <1>13
  <2>2. ASSUME NEW c \in Nat, c < trimmed.data_len
        PROVE  CellAt(Write(trimmed, o, s), c) =
                 IF c \in o .. o + Len(s) - 1 THEN s[c - o + 1] ELSE CellAt(trimmed, c)
    BY <1>1, <1>11, <2>2, WriteCells
  <2> QED
    BY <1>13, <2>1, <2>2
<1>16. CellAt(e, o) = cell
  <2>1. o < o + d /\ o \in o .. o + 1 - 1 /\ o - o + 1 = 1
    BY <1>1, <1>7
  <2> QED
    BY <1>1, <1>13, <1>15, <2>1
<1>17. SameUntil(b, e, o)
  <2>1. ASSUME NEW c \in Base .. o - 1
        PROVE  c \in Nat /\ c < o + d /\ ~(c \in o .. o + 1 - 1)
    BY <1>1, <1>7
  <2>2. ASSUME NEW c \in Base .. o - 1 PROVE CellAt(e, c) = CellAt(b, c)
    BY <1>11, <1>15, <2>1
  <2> QED
    BY <2>2 DEF SameUntil
<1>18. Good(e) /\ o \in Base .. e.data_len /\ o < e.data_len /\ e.data_len <= b.data_len
  BY <1>1, <1>2, <1>6, <1>7, <1>14 DEF Good
<1>19. Type(e, o) = Type(b, o) /\ Length(e, o) = q % Width
  BY <1>9, <1>16 DEF Type, Length
<1> QED
  BY <1>2, <1>3, <1>5, <1>14, <1>17, <1>18, <1>19

\* The truncation to the minimum MTU.
LEMMA ToMinMtuIs ==
  ASSUME NEW b, Good(b)
  PROVE  Good(ToMinMtu(b)) /\ ToMinMtu(b).data_len <= MinMtu
<1>1. b.data_len \in Nat /\ MinMtu \in Nat /\ Base < MinMtu /\ Base \in Nat
  BY Offsets, NdpAssumption
<1>2. CASE CanTruncate(b, MinMtu)
  <2>1. MinMtu <= b.data_len
    BY <1>1, <1>2 DEF CanTruncate
  <2>2. Sound(Truncate(b, MinMtu)) /\ Truncate(b, MinMtu).data_len = MinMtu
    BY <1>1, <2>1, TruncateSound DEF Good
  <2>3. ToMinMtu(b) = Truncate(b, MinMtu)
    BY <1>2 DEF ToMinMtu
  <2> QED
    BY <1>1, <2>2, <2>3 DEF Good
<1>3. CASE ~CanTruncate(b, MinMtu)
  BY <1>1, <1>3 DEF ToMinMtu, CanTruncate
<1> QED
  BY <1>2, <1>3

\* shrink at an offset of a message: the walk goes on as it would have behind what goes.
LEMMA ShrinkWalk ==
  ASSUME NEW b, Good(b), NEW o \in Base .. b.data_len, NEW n \in Nat, CanShrink(b, o, n),
         NEW e, e = Shrink(b, o, n)
  PROVE  /\ Good(e) /\ o \in Base .. e.data_len /\ o <= e.data_len
         /\ SameUntil(b, e, o)
         /\ WalkFrom(e, o) = WalkFrom(b, o + n)
<1>1. /\ o \in Nat /\ b.data_len \in Nat /\ Base \in Nat /\ Base <= o
      /\ o + n <= b.data_len /\ Sound(b)
  BY Offsets DEF CanShrink, Good
<1>2. Sound(e)
  BY <1>1, ShrinkSound
<1>3. /\ e.data_len = b.data_len - n
      /\ \A c \in 0 .. o - 1 : CellAt(e, c) = CellAt(b, c)
      /\ \A c \in o .. b.data_len - n - 1 : CellAt(e, c) = CellAt(b, c + n)
  BY <1>1, ShrinkCells
<1>4. Good(e) /\ o \in Base .. e.data_len /\ o <= e.data_len
  BY <1>1, <1>2, <1>3 DEF Good
<1>5. SameUntil(b, e, o)
  <2>1. \A c \in Base .. o - 1 : c \in 0 .. o - 1
    BY <1>1
  <2> QED
    BY <1>3, <2>1 DEF SameUntil
<1>6. PICK p \in Nat : p = o + n
  BY <1>1
<1>7. Tails(b, p, e, o)
  <2>1. p \in Base .. b.data_len /\ b.data_len - p = e.data_len - o
    BY <1>1, <1>3, <1>6
  <2>2. ASSUME NEW i \in 0 .. b.data_len - p - 1 PROVE CellAt(e, o + i) = CellAt(b, p + i)
    <3>1. PICK c : c = o + i /\ c \in o .. b.data_len - n - 1 /\ c + n = p + i
      BY <1>1, <1>6
    <3> QED
      BY <1>3, <3>1
  <2> QED
    BY <1>4, <2>1, <2>2 DEF Tails, Alike
<1>8. WalkFrom(b, p) = WalkFrom(e, o)
  BY <1>4, <1>7, WalkTails
<1> QED
  BY <1>4, <1>5, <1>6, <1>8

-----------------------------------------------------------------------------
(* Every step keeps the progress of the loops *)

\* Between the calls no loop has progress to keep.
LEMMA IdleProgress ==
  ASSUME pc' = "idle", Good(m'), Good(was'), offset' = Base
  PROVE  Progress'
<1>1. Good(m)' /\ Good(was)' /\ offset' \in Base .. m'.data_len
  BY Offsets DEF Good, Sound
<1> QED
  BY <1>1 DEF Progress

\* A packet as it is received.
LEMMA InitProgress == Init => IInv /\ Progress
<1> SUFFICES ASSUME Init PROVE IInv /\ Progress
  OBVIOUS
<1>1. IInv
  BY InitInv
<1>2. PICK f \in Frames : m = Received(f, Junk)
  BY DEF Init
<1>3. Base <= m.data_len
  BY <1>2, NdpAssumption DEF Received
<1>4. Good(m) /\ was = m /\ pc = "idle" /\ offset = Base
  BY <1>1, <1>3 DEF Init, IInv, Good
<1> QED
  BY <1>1, <1>4, Offsets DEF Progress

\* A loop that ends.
LEMMA FinishProgress ==
  ASSUME NEW b, Good(b), NEW v, Finish(v, b)
  PROVE  Progress'
<1>1. m' = b /\ was' = b /\ pc' = "idle" /\ offset' = Base
  BY DEF Finish
<1> QED
  BY <1>1, Offsets, IdleProgress

\* prepend and append.
LEMMA PushProgress ==
  ASSUME Progress, NEW k \in Kind, NEW at \in Nat, Push(k, at)
  PROVE  Progress'
<1>1. PICK n \in Nat : n = Units[k] * Unit
  BY FreshCells
<1>2. Good(m) /\ m.data_len \in Nat /\ Base \in Nat
  BY Offsets DEF Progress
<1>3. Sound(m') /\ m.data_len <= m'.data_len
  <2>1. CASE CanExtend(m, at, n)
    <3>1. m' = Write(Extend(m, at, n), at, Fresh(k))
      BY <1>1, <2>1 DEF Push
    <3>2. Sound(m') /\ m'.data_len = m.data_len + n
      BY <1>1, <1>2, <2>1, <3>1, PushCells DEF Good
    <3> QED
      BY <1>2, <3>2
  <2>2. CASE ~CanExtend(m, at, n)
    BY <1>1, <1>2, <2>2 DEF Push, Good
  <2> QED
    BY <2>1, <2>2
<1>4. m'.data_len \in Nat
  BY <1>3 DEF Sound, Buffer
<1>5. Good(m')
  BY <1>2, <1>3, <1>4 DEF Good
<1>6. was' = m' /\ offset' = Base /\ pc' = "idle"
  BY DEF Push, Call, position, Progress
<1> QED
  BY <1>5, <1>6, IdleProgress

\* A Redirected Header that can be read has a unit of the packet.
LEMMA RedirectedHeaderThere ==
  ASSUME NEW b, Good(b), NEW o \in Base .. b.data_len
  PROVE  /\ IsRedirectedHeader(b, o) <=> o + Unit <= b.data_len /\ Type(b, o) = "redirected"
         /\ IsRedirectedHeader(b, o) => o < b.data_len
<1>1. o \in Nat /\ b.data_len \in Nat /\ Unit \in Nat \ {0} /\ Units["redirected"] = 1
  BY Offsets, NdpAssumption
<1>2. Units["redirected"] * Unit = Unit
  BY <1>1
<1>3. CanRead(b, o, Unit) <=> o + Unit <= b.data_len
  BY <1>1 DEF CanRead
<1> QED
  BY <1>2, <1>3 DEF IsRedirectedHeader, CanRead

\* set_length on the option at the front.
LEMMA SetLengthProgress ==
  ASSUME Progress, SetLengthOfFirst
  PROVE  Progress'
<1>1. Good(m) /\ Base \in Base .. m.data_len /\ Base \in Nat
  BY Offsets DEF Progress
<1>2. pc' = "idle" /\ m' = SetLength(m, Base) /\ was' = m' /\ IsRedirectedHeader(m, Base)
  BY DEF SetLengthOfFirst, Call
<1>3. Base + Unit <= m.data_len
  BY <1>1, <1>2, RedirectedHeaderThere
<1>4. Good(m') /\ Base \in Base .. m'.data_len
  BY <1>1, <1>2, <1>3, SetLengthIs
<1>5. offset' = Base
  BY DEF SetLengthOfFirst, Call, position, Progress
<1> QED
  BY <1>2, <1>4, <1>5, IdleProgress

-----------------------------------------------------------------------------
(* The iterators *)

\* An iteration that begins.
LEMMA IterateProgress ==
  ASSUME Progress, Iterate
  PROVE  Progress'
<1>1. /\ m' = m /\ was' = m /\ pc' = "iter" /\ offset' = Base /\ current' = Base /\ seen' = {}
      /\ Good(m)
  BY DEF Iterate, Begin, Progress
<1>2. Leads(was', offset', <<>>)
  BY <1>1, LeadsFirst
<1>3. Given(was', seen') = {} /\ Elements(<<>>) = {}
  BY <1>1 DEF Given, Elements
<1>4. SameFrom(was', m', offset')
  BY <1>1 DEF SameFrom
<1>5. IterProgress'
  BY <1>1, <1>2, <1>3, <1>4 DEF IterProgress
<1>6. Good(m)' /\ Good(was)' /\ (offset \in Base .. m.data_len)'
  BY <1>1, Offsets
<1> QED
  BY <1>1, <1>5, <1>6 DEF Progress

\* A setter writes a cell that the iterator has left behind.
LEMMA SetFieldProgress ==
  ASSUME IInv, Progress, NEW k \in Kind, SetField(k)
  PROVE  Progress'
<1>1. /\ pc = "iter" /\ current \in seen /\ Downcast(m, current, k)
      /\ m' = Write(m, current + Units[k] * Unit - 1, <<[t |-> "body", len |-> 1]>>)
      /\ pc' = "iter" /\ was' = was /\ offset' = offset /\ current' = current /\ seen' = seen
  BY DEF SetField, position
<1>2. /\ Good(m) /\ Good(was) /\ offset \in Base .. m.data_len /\ IterProgress
  BY <1>1 DEF Progress
<1>3. /\ Sound(m) /\ current \in Nat /\ current < m.data_len /\ EndOffset(m, current) <= offset
      /\ m.data_len = was.data_len /\ offset \in Nat /\ Base \in Nat /\ m.data_len \in Nat
  BY <1>1, <1>2, Offsets DEF IInv, ControlOK, IterProgress, Good
<1>4. PICK n \in Nat : n = Units[k] * Unit /\ n > 0 /\ (n = 1 => Unit = 1)
  <2>1. PICK u \in Nat, v \in Nat : u = Units[k] /\ v = Unit /\ 1 <= u /\ v > 0
    BY NdpAssumption
  <2>2. 1 * v <= u * v /\ u * v \in Nat
    BY <2>1, FactorMonotone, ProductNat
  <2>3. v <= u * v
    BY <2>1, <2>2
  <2>4. PICK n \in Nat : n = u * v
    BY <2>2
  <2> QED
    BY <2>1, <2>3, <2>4
<1>5. PICK at \in Nat : at = current + n - 1 /\ current <= at /\ (at = current => Unit = 1)
  BY <1>3, <1>4
<1>6. at < EndOffset(m, current) /\ EndOffset(m, current) \in Nat
  <2>1. current + n <= EndOffset(m, current)
    BY <1>1, <1>3, <1>4, DowncastLongEnough
  <2>2. EndOffset(m, current) \in Nat
    BY <1>3, LengthOfOption
  <2> QED
    BY <1>3, <1>4, <1>5, <2>1, <2>2
<1>7. at < offset
  BY <1>3, <1>6
<1>8. PICK cell \in Cell : cell = [t |-> "body", len |-> 1]
  <2>1. 1 \in 0 .. 1
    OBVIOUS
  <2> QED
    BY <2>1, NdpAssumption
<1>9. PICK s \in Seq(Cell) : s = <<cell>> /\ Len(s) = 1 /\ s[1] = cell
  <2>1. <<cell>> \in Seq(Cell) /\ Len(<<cell>>) = 1 /\ <<cell>>[1] = cell
    OBVIOUS
  <2> QED
    BY <2>1
<1>10. m' = Write(m, at, s)
  BY <1>1, <1>4, <1>5, <1>8, <1>9
<1>11. Sound(m') /\ m'.data_len = m.data_len
  BY <1>3, <1>10, WriteSound
<1>12. ASSUME NEW o \in Nat, o < m.data_len
       PROVE  CellAt(m', o) = IF o \in at .. at + Len(s) - 1 THEN s[o - at + 1] ELSE CellAt(m, o)
  BY <1>3, <1>10, <1>12, WriteCells
<1>13. ASSUME NEW o \in Nat, o < m.data_len, o # at PROVE CellAt(m', o) = CellAt(m, o)
  BY <1>9, <1>12, <1>13
<1>14. SameFrom(was', m', offset')
  <2>1. ASSUME NEW o \in offset .. was.data_len - 1 PROVE CellAt(m', o) = CellAt(was, o)
    <3>1. o \in Nat /\ o < m.data_len /\ o # at
      BY <1>3, <1>7
    <3>2. CellAt(m, o) = CellAt(was, o)
      BY <1>2 DEF IterProgress, SameFrom
    <3> QED
      BY <1>13, <3>1, <3>2
  <2> QED
    BY <1>1, <2>1 DEF SameFrom
<1>15. EndOffset(m', current) <= offset
  <2>1. CASE at = current
    <3>1. CellAt(m', current) = cell
      <4>1. current \in at .. at + Len(s) - 1 /\ current - at + 1 = 1
        BY <1>9, <2>1
      <4> QED
        BY <1>3, <1>9, <1>12, <4>1
    <3>2. Length(m', current) = 1 /\ Unit = 1
      BY <1>5, <1>8, <2>1, <3>1 DEF Length
    <3>3. EndOffset(m', current) = current + 1
      BY <3>2 DEF EndOffset
    <3> QED
      BY <1>3, <1>7, <2>1, <3>3
  <2>2. CASE at # current
    <3>1. CellAt(m', current) = CellAt(m, current)
      BY <1>3, <1>13, <2>2
    <3> QED
      BY <1>3, <3>1 DEF EndOffset, Length
  <2> QED
    BY <2>1, <2>2
<1>16. \E pre : Leads(was', offset', pre) /\ Given(was', seen') = Elements(pre)
  BY <1>1, <1>2 DEF IterProgress
<1>17. \A o \in seen' : o < was'.data_len /\ (Length(was', o) > 0 \/ o = offset')
  BY <1>1, <1>2 DEF IterProgress
<1>18. m'.data_len = was'.data_len /\ current' < m'.data_len /\ EndOffset(m', current') <= offset'
  BY <1>1, <1>3, <1>11, <1>15
<1>19. IterProgress'
  BY <1>14, <1>16, <1>17, <1>18 DEF IterProgress
<1>20. Good(m') /\ Good(was') /\ offset' \in Base .. m'.data_len
  BY <1>1, <1>2, <1>11 DEF Good
<1> QED
  BY <1>1, <1>19, <1>20 DEF Progress, Good, Sound

\* An option of the message and of what is left of it.
LEMMA SameOption ==
  ASSUME NEW b, Good(b), NEW e, Good(e), b.data_len = e.data_len,
         NEW o \in Base .. b.data_len, SameFrom(b, e, o), o < b.data_len
  PROVE  /\ Length(e, o) = Length(b, o) /\ EndOffset(e, o) = EndOffset(b, o)
         /\ IsOption(e, o) = IsOption(b, o)
<1>1. o \in o .. b.data_len - 1
  BY Offsets
<1>2. CellAt(e, o) = CellAt(b, o)
  BY <1>1 DEF SameFrom
<1> QED
  BY <1>2 DEF Length, EndOffset, IsOption, CanRead

\* next gives the option at the offset.
LEMMA NextOptionProgress ==
  ASSUME IInv, Progress, pc = "iter", m.data_len > offset, IsOption(m, offset),
         current' = offset, seen' = seen \cup {offset}, offset' = EndOffset(m, offset),
         UNCHANGED <<m, pc, removed, was, verdict, calls>>
  PROVE  Progress'
<1>1. /\ Good(m) /\ Good(was) /\ offset \in Base .. m.data_len /\ IterProgress
      /\ m.data_len = was.data_len /\ SameFrom(was, m, offset)
      /\ m.data_len \in Nat /\ offset \in Nat /\ Base \in Nat /\ offset < m.data_len
  BY Offsets DEF Progress, IterProgress
<1>2. PICK x \in Nat : /\ x = EndOffset(m, offset) /\ x = EndOffset(was, offset)
                       /\ x <= m.data_len /\ offset <= x
  <2>1. EndOffset(m, offset) = EndOffset(was, offset)
    BY <1>1, SameOption
  <2>2. Length(m, offset) \in Nat /\ Unit \in Nat /\ EndOffset(m, offset) \in Nat
    BY <1>1, LengthOfOption, NdpAssumption DEF Good
  <2>3. PICK l \in Nat : l = Length(m, offset) * Unit
    BY <2>2, ProductNat
  <2>4. EndOffset(m, offset) = offset + l
    BY <2>3 DEF EndOffset
  <2>5. EndOffset(m, offset) <= m.data_len
    BY <1>1, <2>2 DEF IsOption
  <2> QED
    BY <1>1, <2>1, <2>2, <2>3, <2>4, <2>5
<1>3. Length(was, offset) = Length(m, offset) /\ IsOption(was, offset) /\ offset < was.data_len
      /\ offset \in Base .. was.data_len /\ Length(was, offset) \in Nat
  <2>1. Length(was, offset) = Length(m, offset) /\ IsOption(was, offset)
    BY <1>1, SameOption
  <2>2. Length(m, offset) \in Nat
    BY <1>1, LengthOfOption DEF Good
  <2> QED
    BY <1>1, <2>1, <2>2
<1>4. SameFrom(was, m, x)
  <2>1. \A c \in x .. was.data_len - 1 : c \in offset .. was.data_len - 1
    BY <1>1, <1>2
  <2> QED
    BY <1>1, <2>1 DEF SameFrom
<1>5. PICK pre : Leads(was, offset, pre) /\ Given(was, seen) = Elements(pre)
  BY <1>1 DEF IterProgress
<1>6. \A o \in seen : o < was.data_len /\ (Length(was, o) > 0 \/ o = offset)
  BY <1>1 DEF IterProgress
<1>7. pre \in Seq(Option)
  BY <1>5 DEF Leads
<1>8. CASE Length(was, offset) > 0
  <2>1. Whole(was, offset)
    BY <1>1, <1>3, <1>8, IsOptionWhole
  <2>2. PICK opt \in Option : opt = Slice(was, offset, x)
    BY <1>2, <1>1, <1>3, <2>1, OptionAt
  <2>3. Leads(was, x, Append(pre, opt))
    BY <1>1, <1>2, <1>5, <2>1, <2>2, LeadsOn
  <2>4. Given(was, seen \cup {offset}) = Given(was, seen) \cup {opt}
    <3>1. {p \in seen \cup {offset} : Length(was, p) > 0}
            = {p \in seen : Length(was, p) > 0} \cup {offset}
      BY <1>8
    <3>2. opt = Slice(was, offset, EndOffset(was, offset))
      BY <1>2, <2>2
    <3> QED
      BY <3>1, <3>2 DEF Given
  <2>5. Given(was, seen \cup {offset}) = Elements(Append(pre, opt))
    BY <1>5, <1>7, <2>2, <2>4, ElementsOf
  <2>6. \A o \in seen \cup {offset} : o < was.data_len /\ (Length(was, o) > 0 \/ o = x)
    BY <1>3, <1>6, <1>8
  <2> QED
    <3>1. m'.data_len = was'.data_len /\ SameFrom(was', m', offset')
      BY <1>1, <1>2, <1>4
    <3>2. current' < m'.data_len /\ EndOffset(m', current') <= offset'
      BY <1>1, <1>2
    <3>3. \E all : Leads(was', offset', all) /\ Given(was', seen') = Elements(all)
      BY <1>2, <2>3, <2>5
    <3>4. \A o \in seen' : o < was'.data_len /\ (Length(was', o) > 0 \/ o = offset')
      BY <1>2, <2>6
    <3>5. IterProgress'
      BY <3>1, <3>2, <3>3, <3>4 DEF IterProgress
    <3>6. Good(m') /\ Good(was') /\ offset' \in Base .. m'.data_len /\ pc' = "iter"
      BY <1>1, <1>2
    <3> QED
      BY <3>5, <3>6 DEF Progress, Good, Sound
<1>9. CASE ~(Length(was, offset) > 0)
  <2>1. x = offset
    BY <1>1, <1>2, <1>3, <1>9, IsOptionWhole
  <2>2. Given(was, seen \cup {offset}) = Given(was, seen)
    <3>1. {p \in seen \cup {offset} : Length(was, p) > 0} = {p \in seen : Length(was, p) > 0}
      BY <1>9
    <3> QED
      BY <3>1 DEF Given
  <2>3. \A o \in seen \cup {offset} : o < was.data_len /\ (Length(was, o) > 0 \/ o = x)
    BY <1>3, <1>6, <2>1
  <2> QED
    <3>1. m'.data_len = was'.data_len /\ SameFrom(was', m', offset')
      BY <1>1, <1>2, <1>4
    <3>2. current' < m'.data_len /\ EndOffset(m', current') <= offset'
      BY <1>1, <1>2
    <3>3. \E all : Leads(was', offset', all) /\ Given(was', seen') = Elements(all)
      BY <1>2, <1>5, <2>1, <2>2
    <3>4. \A o \in seen' : o < was'.data_len /\ (Length(was', o) > 0 \/ o = offset')
      BY <1>2, <2>3
    <3>5. IterProgress'
      BY <3>1, <3>2, <3>3, <3>4 DEF IterProgress
    <3>6. Good(m') /\ Good(was') /\ offset' \in Base .. m'.data_len /\ pc' = "iter"
      BY <1>1, <1>2
    <3> QED
      BY <3>5, <3>6 DEF Progress, Good, Sound
<1> QED
  BY <1>8, <1>9

-----------------------------------------------------------------------------
(* retain *)

\* retain begins with nothing done.
LEMMA RetainBegins ==
  ASSUME Progress, NEW types, Retain(types)
  PROVE  Progress'
<1>1. /\ m' = m /\ was' = m /\ pc' = "retain" /\ offset' = Base
      /\ Good(m)
  BY DEF Retain, Begin, Progress
<1>2. Leads(m, Base, <<>>)
  BY <1>1, LeadsFirst
<1>3. /\ Walk(m) = [opts |-> <<>> \o WalkFrom(m, Base).opts, rest |-> WalkFrom(m, Base).rest]
  BY <1>1, <1>2, LeadsHere
<1>4. <<>> \in Seq(Option) /\ Leads(m, Base, Without(<<>>, removed'))
  BY <1>2, WithoutEmpty
<1>5. \E done \in Seq(Option) :
        /\ Leads(m', offset', Without(done, removed'))
        /\ Walk(was') = [opts |-> done \o WalkFrom(m', offset').opts,
                         rest |-> WalkFrom(m', offset').rest]
  BY <1>1, <1>3, <1>4
<1>6. RetainProgress'
  BY <1>5 DEF RetainProgress
<1>7. Good(m') /\ Good(was') /\ offset' \in Base .. m'.data_len
  BY <1>1, Offsets
<1> QED
  BY <1>1, <1>6, <1>7 DEF Progress, Good, Sound

\* What retain has done so far, in a message where no length wraps.
RetainDone(done) ==
  /\ done \in Seq(Option)
  /\ Leads(m, offset, Without(done, removed))
  /\ Walk(was) = [opts |-> done \o WalkFrom(m, offset).opts, rest |-> WalkFrom(m, offset).rest]

\* Where no option is left it has left what it accepts.
LEMMA RetainAtEnd ==
  ASSUME Progress, NEW done, RetainDone(done), ~Whole(m, offset)
  PROVE  Walk(m) = [Walk(was) EXCEPT !.opts = Without(@, removed)]
<1>1. Good(m) /\ offset \in Base .. m.data_len
  BY DEF Progress
<1>2. Walk(m) = [opts |-> Without(done, removed), rest |-> Slice(m, offset, m.data_len)]
  BY <1>1, LeadsToEnd DEF RetainDone
<1>3. WalkFrom(m, offset) = [opts |-> <<>>, rest |-> Slice(m, offset, m.data_len)]
  BY <1>1, WalkEnds DEF Stop
<1>4. PICK r : r = Slice(m, offset, m.data_len)
  OBVIOUS
<1>5. done \o <<>> = done
  BY ConcatEmptySeq DEF RetainDone
<1>6. WalkFrom(m, offset).opts = <<>> /\ WalkFrom(m, offset).rest = r
  BY <1>3, <1>4
<1>7. Walk(was) = [opts |-> done, rest |-> r]
  BY <1>5, <1>6 DEF RetainDone
<1>8. [Walk(was) EXCEPT !.opts = Without(@, removed)] = [opts |-> Without(done, removed), rest |-> r]
  BY <1>7
<1> QED
  BY <1>2, <1>4, <1>8

\* The option at the offset is one of those of the message as it was.
LEMMA RetainOption ==
  ASSUME Progress, NEW done, RetainDone(done), Whole(m, offset),
         NEW opt, opt = Slice(m, offset, EndOffset(m, offset))
  PROVE  /\ opt \in Option /\ opt[1].t = Type(m, offset)
         /\ Append(done, opt) \in Seq(Option)
         /\ Walk(was) = [opts |-> Append(done, opt) \o WalkFrom(m, EndOffset(m, offset)).opts,
                         rest |-> WalkFrom(m, EndOffset(m, offset)).rest]
         /\ NoWrap(was) => Len(opt) < Width
<1>1. Good(m) /\ offset \in Base .. m.data_len /\ done \in Seq(Option)
  BY DEF Progress, RetainDone
<1>2. Leads(m, offset, Without(done, removed))
  BY DEF RetainDone
<1>3. /\ opt \in Option
      /\ WalkFrom(m, EndOffset(m, offset)).opts \in Seq(Option)
      /\ done \o WalkFrom(m, offset).opts = Append(done, opt) \o WalkFrom(m, EndOffset(m, offset)).opts
      /\ WalkFrom(m, offset).rest = WalkFrom(m, EndOffset(m, offset)).rest
  BY <1>1, <1>2, FoundOneMore
<1>4. opt[1].t = Type(m, offset)
  BY <1>1, OptionAt
<1>5. PICK t, r : t \in Seq(Option) /\ t = WalkFrom(m, EndOffset(m, offset)).opts
                  /\ r = WalkFrom(m, EndOffset(m, offset)).rest
  BY <1>3
<1>6. PICK more \in Seq(Option) : more = Append(done, opt)
  <2>1. done \in Seq(Option) /\ opt \in Option
    BY <1>1, <1>3
  <2>2. Append(done, opt) \in Seq(Option)
    BY <2>1, AppendProperties
  <2> QED
    BY <2>2
<1>7. Walk(was) = [opts |-> more \o t, rest |-> r]
  BY <1>3, <1>5, <1>6 DEF RetainDone
<1>8. ASSUME NoWrap(was) PROVE Len(opt) < Width
  <2>1. PICK i \in Nat : i = Len(done) + 1
    BY <1>1
  <2>2. Len(more) = i /\ more[i] = opt /\ i > 0
    BY <1>1, <1>3, <1>6, <2>1
  <2>3. PICK all : all = more \o t
    OBVIOUS
  <2>4. i \in DOMAIN all /\ all[i] = opt
    <3>1. t \in Seq(Option) /\ more \in Seq(Option) /\ i \in 1 .. Len(more)
      BY <1>5, <1>6, <2>2
    <3>2. all \in Seq(Option) /\ Len(all) = Len(more) + Len(t) /\ all[i] = more[i]
      BY <2>3, <3>1
    <3> QED
      BY <2>2, <3>1, <3>2
  <2>5. Walk(was).opts = all
    BY <1>7, <2>3
  <2> QED
    BY <1>8, <2>4, <2>5 DEF NoWrap
<1> QED
  BY <1>1, <1>3, <1>4, <1>5, <1>6, <1>7, <1>8

\* An option that it accepts, or that has no length, is left where it is.
LEMMA RetainAccepts ==
  ASSUME IInv, Progress, pc = "retain", m.data_len > offset, IsOption(m, offset),
         Type(m, offset) \notin removed, offset' = EndOffset(m, offset),
         UNCHANGED <<m, pc, current, seen, removed, was, verdict, calls>>
  PROVE  Progress'
<1>1. /\ Good(m) /\ Good(was) /\ offset \in Base .. m.data_len /\ RetainProgress
      /\ m.data_len \in Nat /\ offset \in Nat /\ Base \in Nat /\ offset < m.data_len
  BY Offsets DEF Progress
<1>2. CASE Whole(m, offset)
  <2>1. PICK x \in Nat : x = EndOffset(m, offset) /\ x \in Base .. m.data_len
    <3>1. EndOffset(m, offset) \in Base .. m.data_len
      BY <1>1, <1>2, WholeEnds
    <3> QED
      BY <1>1, <3>1
  <2>2. ASSUME NoWrap(was)
        PROVE  \E done \in Seq(Option) :
                 /\ Leads(m, x, Without(done, removed))
                 /\ Walk(was) = [opts |-> done \o WalkFrom(m, x).opts, rest |-> WalkFrom(m, x).rest]
    <3>1. PICK done \in Seq(Option) : RetainDone(done)
      BY <1>1, <2>2 DEF RetainProgress, RetainDone
    <3>2. PICK opt : opt = Slice(m, offset, x)
      OBVIOUS
    <3>3. /\ opt \in Option /\ opt[1].t = Type(m, offset) /\ Append(done, opt) \in Seq(Option)
          /\ Walk(was) = [opts |-> Append(done, opt) \o WalkFrom(m, x).opts,
                          rest |-> WalkFrom(m, x).rest]
      BY <1>2, <2>1, <3>1, <3>2, RetainOption
    <3>4. Leads(m, x, Append(Without(done, removed), opt))
      BY <1>1, <1>2, <2>1, <3>1, <3>2, LeadsOn DEF RetainDone
    <3>5. Without(Append(done, opt), removed) = Append(Without(done, removed), opt)
      BY <3>1, <3>3, WithoutAppend DEF Keeping
    <3> QED
      BY <3>3, <3>4, <3>5
  <2>3. RetainProgress'
    BY <2>1, <2>2 DEF RetainProgress
  <2>4. Good(m') /\ Good(was') /\ offset' \in Base .. m'.data_len /\ pc' = "retain"
    BY <1>1, <2>1
  <2> QED
    BY <2>3, <2>4 DEF Progress, Good, Sound
<1>3. CASE ~Whole(m, offset)
  <2>1. offset' = offset
    BY <1>1, <1>3, IsOptionWhole
  <2>2. RetainProgress'
    BY <1>1, <2>1 DEF RetainProgress
  <2>3. Good(m') /\ Good(was') /\ offset' \in Base .. m'.data_len /\ pc' = "retain"
    BY <1>1, <2>1
  <2> QED
    BY <2>2, <2>3 DEF Progress, Good, Sound
<1> QED
  BY <1>2, <1>3

\* The option that is removed, as long as its length in a u8, when that does not wrap.
LEMMA RefusedLength ==
  ASSUME Progress, m.data_len > offset, NEW done, RetainDone(done), NoWrap(was), Whole(m, offset),
         NEW len, len = (Length(m, offset) * Unit) % Width
  PROVE  len \in Nat /\ len > 0 /\ offset + len = EndOffset(m, offset)
         /\ CanShrink(m, offset, len)
<1>1. /\ Good(m) /\ offset \in Base .. m.data_len
      /\ m.data_len \in Nat /\ offset \in Nat /\ Base \in Nat
  BY Offsets DEF Progress
<1>2. PICK opt : opt = Slice(m, offset, EndOffset(m, offset))
  OBVIOUS
<1>3. Len(opt) < Width
  BY <1>2, RetainOption
<1>4. PICK n \in Nat : n = Length(m, offset) * Unit /\ Len(opt) = n
  BY <1>1, <1>2, OptionAt
<1>5. len = n
  <2>1. n < Width
    BY <1>3, <1>4
  <2>2. n % Width = n
    BY <2>1, SmallRemainder, NdpAssumption
  <2> QED
    BY <1>4, <2>2
<1>6. EndOffset(m, offset) = offset + n
  BY <1>4 DEF EndOffset
<1>7. EndOffset(m, offset) \in offset + 1 .. m.data_len
  BY <1>1, WholeEnds
<1>8. n > 0 /\ offset + n <= m.data_len
  BY <1>1, <1>6, <1>7
<1> QED
  BY <1>5, <1>6, <1>8 DEF CanShrink

\* An option that it refuses goes.
LEMMA RetainRefuses ==
  ASSUME IInv, Progress, pc = "retain", m.data_len > offset, IsOption(m, offset),
         Type(m, offset) \in removed,
         NEW len, len = (Length(m, offset) * Unit) % Width,
         CanShrink(m, offset, len), m' = Shrink(m, offset, len),
         UNCHANGED <<pc, position, was, verdict, calls>>
  PROVE  Progress'
<1>1. /\ Good(m) /\ Good(was) /\ offset \in Base .. m.data_len /\ RetainProgress
      /\ m.data_len \in Nat /\ offset \in Nat /\ Base \in Nat /\ offset < m.data_len
  BY Offsets DEF Progress
<1>2. len \in Nat /\ Length(m, offset) \in Nat
  <2>1. Length(m, offset) \in Nat /\ Unit \in Nat
    BY <1>1, LengthOfOption, NdpAssumption DEF Good
  <2>2. PICK n \in Nat : n = Length(m, offset) * Unit
    BY <2>1, ProductNat
  <2>3. n % Width \in 0 .. Width - 1
    BY Remainder, NdpAssumption
  <2> QED
    BY <2>1, <2>2, <2>3
<1>3. /\ Good(m') /\ offset \in Base .. m'.data_len /\ offset <= m'.data_len
      /\ SameUntil(m, m', offset)
      /\ WalkFrom(m', offset) = WalkFrom(m, offset + len)
  BY <1>1, <1>2, ShrinkWalk
<1>4. Whole(m, offset)
  <2>1. len > 0
    BY DEF CanShrink
  <2>2. ASSUME ~(Length(m, offset) > 0) PROVE FALSE
    <3>1. Length(m, offset) * Unit = 0
      BY <1>1, <2>2, IsOptionWhole
    <3>2. 0 % Width = 0
      BY SmallRemainder, NdpAssumption
    <3> QED
      BY <2>1, <3>1, <3>2
  <2> QED
    BY <1>1, <2>2, IsOptionWhole
<1>5. ASSUME NoWrap(was)
      PROVE  \E done \in Seq(Option) :
               /\ Leads(m', offset, Without(done, removed))
               /\ Walk(was) = [opts |-> done \o WalkFrom(m', offset).opts,
                               rest |-> WalkFrom(m', offset).rest]
  <2>1. PICK done \in Seq(Option) : RetainDone(done)
    BY <1>1, <1>5 DEF RetainProgress, RetainDone
  <2>2. offset + len = EndOffset(m, offset)
    BY <1>4, <1>5, <2>1, RefusedLength
  <2>3. PICK opt : opt = Slice(m, offset, EndOffset(m, offset))
    OBVIOUS
  <2>4. /\ opt \in Option /\ opt[1].t = Type(m, offset) /\ Append(done, opt) \in Seq(Option)
        /\ Walk(was) = [opts |-> Append(done, opt) \o WalkFrom(m, EndOffset(m, offset)).opts,
                        rest |-> WalkFrom(m, EndOffset(m, offset)).rest]
    BY <1>4, <2>1, <2>3, RetainOption
  <2>5. WalkFrom(m', offset) = WalkFrom(m, EndOffset(m, offset))
    BY <1>3, <2>2
  <2>6. Leads(m', offset, Without(done, removed))
    BY <1>3, <2>1, LeadsSame DEF RetainDone
  <2>7. Without(Append(done, opt), removed) = Without(done, removed)
    BY <2>1, <2>4, WithoutAppend DEF Keeping
  <2> QED
    BY <2>4, <2>5, <2>6, <2>7
<1>6. was' = was /\ offset' = offset /\ removed' = removed /\ pc' = "retain"
  BY DEF position
<1>7. RetainProgress'
  BY <1>5, <1>6 DEF RetainProgress
<1>8. Good(m') /\ Good(was') /\ offset' \in Base .. m'.data_len /\ pc' = "retain"
  BY <1>1, <1>3, <1>6
<1> QED
  BY <1>7, <1>8 DEF Progress, Good, Sound

-----------------------------------------------------------------------------
(* Redirect::reconcile *)

\* It begins with a message that fits the minimum MTU.
LEMMA ReconcileBegins ==
  ASSUME Progress, Reconcile
  PROVE  Progress'
<1>1. /\ m' = ToMinMtu(m) /\ was' = m /\ pc' = "reconcile" /\ offset' = Base /\ Good(m)
  BY DEF Reconcile, Begin, Progress
<1>2. Good(m') /\ m'.data_len <= MinMtu
  BY <1>1, ToMinMtuIs
<1>3. Leads(m', offset', <<>>)
  BY <1>1, <1>2, LeadsFirst
<1>4. \A i \in 1 .. Len(<<>>) : <<>>[i][1].t # "redirected"
  OBVIOUS
<1>5. ReconcileProgress'
  BY <1>2, <1>3, <1>4 DEF ReconcileProgress
<1>6. Good(m') /\ Good(was') /\ offset' \in Base .. m'.data_len
  BY <1>1, <1>2, Offsets
<1> QED
  BY <1>1, <1>5, <1>6 DEF Progress, Good, Sound

\* A whole option that is no Redirected Header of a unit is of another type.
LEMMA OtherOption ==
  ASSUME NEW b, Good(b), NEW o \in Base .. b.data_len, Whole(b, o), ~IsRedirectedHeader(b, o)
  PROVE  Type(b, o) # "redirected"
<1>1. o \in Nat /\ b.data_len \in Nat /\ o < b.data_len
  BY Offsets DEF Whole
<1>2. PICK l \in Nat, u \in Nat : l = Length(b, o) /\ l >= 1 /\ u = Unit
  BY <1>1, LengthOfOption, NdpAssumption DEF Good, Whole
<1>3. 1 * u <= l * u /\ l * u \in Nat
  BY <1>2, FactorMonotone, ProductNat
<1>4. PICK n \in Nat : n = l * u /\ u <= n
  BY <1>2, <1>3
<1>5. o + n <= b.data_len
  BY <1>2, <1>4 DEF Whole, EndOffset
<1>6. o + Unit <= b.data_len
  BY <1>1, <1>2, <1>4, <1>5
<1> QED
  BY <1>6, RedirectedHeaderThere

\* It goes on behind an option that is no Redirected Header.
LEMMA ReconcileOn ==
  ASSUME IInv, Progress, pc = "reconcile", m.data_len > offset, IsOption(m, offset),
         ~IsRedirectedHeader(m, offset), offset' = EndOffset(m, offset),
         UNCHANGED <<m, pc, current, seen, removed, was, verdict, calls>>
  PROVE  Progress'
<1>1. /\ Good(m) /\ Good(was) /\ offset \in Base .. m.data_len /\ ReconcileProgress
      /\ m.data_len \in Nat /\ offset \in Nat /\ Base \in Nat /\ offset < m.data_len
  BY Offsets DEF Progress
<1>2. CASE Whole(m, offset)
  <2>1. PICK x \in Nat : x = EndOffset(m, offset) /\ x \in Base .. m.data_len
    <3>1. EndOffset(m, offset) \in Base .. m.data_len
      BY <1>1, <1>2, WholeEnds
    <3> QED
      BY <1>1, <3>1
  <2>2. PICK pre : Leads(m, offset, pre) /\ \A i \in 1 .. Len(pre) : pre[i][1].t # "redirected"
    BY <1>1 DEF ReconcileProgress
  <2>3. PICK opt : opt = Slice(m, offset, x)
    OBVIOUS
  <2>4. opt \in Option /\ opt[1].t # "redirected"
    BY <1>1, <1>2, <2>1, <2>3, OptionAt, OtherOption
  <2>5. pre \in Seq(Option)
    BY <2>2 DEF Leads
  <2>6. Leads(m, x, Append(pre, opt))
    BY <1>1, <1>2, <2>1, <2>2, <2>3, LeadsOn
  <2>7. \A i \in 1 .. Len(Append(pre, opt)) : Append(pre, opt)[i][1].t # "redirected"
    BY <2>2, <2>4, <2>5, AppendedOptions
  <2>8. ReconcileProgress'
    BY <1>1, <2>1, <2>6, <2>7 DEF ReconcileProgress
  <2>9. Good(m') /\ Good(was') /\ offset' \in Base .. m'.data_len /\ pc' = "reconcile"
    BY <1>1, <2>1
  <2> QED
    BY <2>8, <2>9 DEF Progress, Good, Sound
<1>3. CASE ~Whole(m, offset)
  <2>1. offset' = offset
    BY <1>1, <1>3, IsOptionWhole
  <2>2. ReconcileProgress'
    BY <1>1, <2>1 DEF ReconcileProgress
  <2>3. Good(m') /\ Good(was') /\ offset' \in Base .. m'.data_len /\ pc' = "reconcile"
    BY <1>1, <2>1
  <2> QED
    BY <2>2, <2>3 DEF Progress, Good, Sound
<1> QED
  BY <1>2, <1>3

\* A packet that fits the minimum MTU has no more units than the length field counts.
LEMMA UnitsFit ==
  ASSUME NEW l \in Nat, l <= MinMtu, Unit <= l
  PROVE  /\ (l \div Unit) % Width = l \div Unit /\ l \div Unit > 0 /\ l \div Unit \in Nat
<1>1. Unit \in Nat \ {0} /\ Width \in Nat \ {0} /\ MinMtu \in Nat /\ MinMtu < Unit * Width
  BY NdpAssumption
<1>2. PICK q \in Nat : q = l \div Unit
  BY <1>1, Quotient
<1>3. l = q * Unit + (l % Unit) /\ l % Unit \in 0 .. Unit - 1
  BY <1>1, <1>2, QuotientAndRemainder, Remainder
<1>4. PICK d \in Nat : d = q * Unit
  BY <1>1, ProductNat
<1>5. d <= l /\ l - d < Unit
  <2>1. PICK r \in Nat : r = l % Unit /\ r < Unit
    BY <1>1, <1>3
  <2> QED
    BY <1>3, <1>4, <2>1
<1>6. q < Width
  <2>1. SUFFICES ASSUME Width <= q PROVE FALSE
    BY <1>1
  <2>2. Width * Unit <= q * Unit
    BY <1>1, <2>1, FactorMonotone
  <2>3. PICK w \in Nat : w = Unit * Width /\ w = Width * Unit
    BY <1>1, ProductNat
  <2> QED
    BY <1>1, <1>4, <1>5, <2>2, <2>3
<1>7. q % Width = q
  BY <1>1, <1>6, SmallRemainder
<1>8. q > 0
  <2>1. SUFFICES ASSUME q = 0 PROVE FALSE
    BY <1>2
  <2>2. d = 0
    BY <1>1, <1>4, <2>1
  <2> QED
    BY <1>1, <1>5, <2>2
<1> QED
  BY <1>2, <1>7, <1>8

\* The walk of a message whose Redirected Header at the offset has been set to take the
\* rest of it ends there.
LEMMA SetLengthEnds ==
  ASSUME NEW b, Good(b), NEW o, NEW pre, Leads(b, o, pre), b.data_len <= MinMtu,
         IsRedirectedHeader(b, o), NEW e, e = SetLength(b, o)
  PROVE  EndsInRedirected(e) /\ Good(e) /\ e.data_len <= MinMtu
<1>1. o \in Base .. b.data_len /\ pre \in Seq(Option)
  BY DEF Leads
<1>2. /\ o \in Nat /\ b.data_len \in Nat /\ Unit \in Nat \ {0} /\ MinMtu \in Nat
      /\ o + Unit <= b.data_len /\ Type(b, o) = "redirected"
  BY <1>1, Offsets, RedirectedHeaderThere, NdpAssumption
<1>3. PICK l \in Nat : l = b.data_len - o /\ l <= MinMtu /\ Unit <= l
  BY <1>2
<1>4. PICK q \in Nat : q = l \div Unit /\ q % Width = q /\ q > 0
  BY <1>3, UnitsFit
<1>5. /\ Good(e) /\ o \in Base .. e.data_len /\ o < e.data_len /\ e.data_len <= b.data_len
      /\ SameUntil(b, e, o)
      /\ Type(e, o) = Type(b, o)
      /\ Length(e, o) = ((b.data_len - o) \div Unit) % Width
      /\ e.data_len = o + ((b.data_len - o) \div Unit) * Unit
  BY <1>1, <1>2, SetLengthIs
<1>6. Length(e, o) = q /\ e.data_len = o + q * Unit
  BY <1>3, <1>4, <1>5
<1>7. EndOffset(e, o) = e.data_len
  BY <1>6 DEF EndOffset
<1>8. e.data_len \in Nat
  BY <1>5, Offsets
<1>9. Whole(e, o)
  BY <1>4, <1>5, <1>6, <1>7, <1>8 DEF Whole
<1>10. Leads(e, o, pre)
  <2>1. o <= e.data_len
    BY <1>2, <1>5, <1>8
  <2> QED
    BY <1>5, <2>1, LeadsSame
<1>11. PICK opt : opt = Slice(e, o, e.data_len)
  OBVIOUS
<1>12. opt \in Option /\ opt[1].t = "redirected"
  BY <1>2, <1>5, <1>7, <1>9, <1>11, OptionAt
<1>13. Leads(e, e.data_len, Append(pre, opt))
  BY <1>5, <1>7, <1>9, <1>10, <1>11, LeadsOn
<1>14. ~Whole(e, e.data_len)
  BY <1>8 DEF Whole
<1>15. PICK all \in Seq(Option) : all = Append(pre, opt)
  <2>1. Append(pre, opt) \in Seq(Option)
    BY <1>1, <1>12, AppendProperties
  <2> QED
    BY <2>1
<1>16. Walk(e) = [opts |-> all, rest |-> Slice(e, e.data_len, e.data_len)]
  BY <1>5, <1>13, <1>14, <1>15, LeadsToEnd
<1>17. Slice(e, e.data_len, e.data_len) = <<>>
  <2>1. e.data_len \in Base .. e.data_len
    BY <1>13 DEF Leads
  <2>2. /\ WalkFrom(e, e.data_len) = Stop(e, e.data_len)
        /\ (WalkFrom(e, e.data_len).rest = <<>>) = (e.data_len = e.data_len)
    BY <1>5, <1>14, <2>1, WalkEnds
  <2> QED
    BY <2>2 DEF Stop
<1>18. all # <<>> /\ all[Len(all)] = opt
  BY <1>1, <1>12, <1>15
<1>19. Walk(e).rest = <<>> /\ Walk(e).opts = all
  BY <1>16, <1>17
<1>20. EndsInRedirected(e)
  BY <1>12, <1>18, <1>19 DEF EndsInRedirected
<1>21. e.data_len <= MinMtu
  BY <1>2, <1>5, <1>8
<1> QED
  BY <1>5, <1>20, <1>21

-----------------------------------------------------------------------------
(* The progress of the loops holds of every behaviour *)

\* Every step keeps it.
LEMMA NextProgress == IInv /\ Progress /\ [Next]_vars => IInv' /\ Progress'
<1> SUFFICES ASSUME IInv, Progress, [Next]_vars PROVE IInv' /\ Progress'
  OBVIOUS
<1>1. IInv'
  BY NextInv
<1>2. Good(m) /\ offset \in Base .. m.data_len /\ m.data_len \in Nat /\ Base \in Nat
  BY Offsets DEF Progress
<1>3. ASSUME NEW k \in Kind, Prepend(k) \/ AppendOption(k) PROVE Progress'
  BY <1>2, <1>3, PushProgress DEF Prepend, AppendOption
<1>4. ASSUME NEW k \in Kind, SetField(k) PROVE Progress'
  BY <1>4, SetFieldProgress
<1>5. ASSUME SetLengthOfFirst PROVE Progress'
  BY <1>5, SetLengthProgress
<1>6. ASSUME Iterate PROVE Progress'
  BY <1>6, IterateProgress
<1>7. ASSUME Reconcile PROVE Progress'
  BY <1>7, ReconcileBegins
<1>8. ASSUME NEW types \in Refusals, Retain(types) PROVE Progress'
  BY <1>8, RetainBegins
<1>9. ASSUME NextOption PROVE Progress'
  <2>1. CASE \E v : Finish(v, m)
    BY <1>2, <2>1, FinishProgress
  <2>2. CASE m.data_len > offset /\ IsOption(m, offset) /\ pc = "iter"
             /\ current' = offset /\ seen' = seen \cup {offset}
             /\ offset' = EndOffset(m, offset)
             /\ UNCHANGED <<m, pc, removed, was, verdict, calls>>
    BY <2>2, NextOptionProgress
  <2> QED
    BY <1>9, <2>1, <2>2 DEF NextOption
<1>10. ASSUME RetainStep PROVE Progress'
  <2> DEFINE len == (Length(m, offset) * Unit) % Width
  <2>1. CASE \E v : Finish(v, m)
    BY <1>2, <2>1, FinishProgress
  <2>2. CASE pc = "retain" /\ m.data_len > offset /\ IsOption(m, offset)
             /\ Type(m, offset) \notin removed /\ offset' = EndOffset(m, offset)
             /\ UNCHANGED <<m, pc, current, seen, removed, was, verdict, calls>>
    BY <2>2, RetainAccepts
  <2>3. CASE pc = "retain" /\ m.data_len > offset /\ IsOption(m, offset)
             /\ Type(m, offset) \in removed /\ CanShrink(m, offset, len)
             /\ m' = Shrink(m, offset, len)
             /\ UNCHANGED <<pc, position, was, verdict, calls>>
    <3> HIDE DEF len
    <3>1. len = (Length(m, offset) * Unit) % Width
      BY DEF len
    <3> QED
      BY <2>3, <3>1, RetainRefuses
  <2> QED
    BY <1>10, <2>1, <2>2, <2>3 DEF RetainStep
<1>11. ASSUME ReconcileStep PROVE Progress'
  <2>1. CASE Finish("ok", m)
    BY <1>2, <2>1, FinishProgress
  <2>2. CASE pc = "reconcile" /\ IsRedirectedHeader(m, offset) /\ Finish("ok", SetLength(m, offset))
    <3>1. PICK pre : Leads(m, offset, pre) /\ m.data_len <= MinMtu
      BY <2>2 DEF Progress, ReconcileProgress
    <3>2. Good(SetLength(m, offset))
      BY <1>2, <2>2, <3>1, SetLengthEnds
    <3> QED
      BY <2>2, <3>2, FinishProgress
  <2>3. CASE pc = "reconcile" /\ m.data_len > offset /\ IsOption(m, offset)
             /\ ~IsRedirectedHeader(m, offset) /\ offset' = EndOffset(m, offset)
             /\ UNCHANGED <<m, pc, current, seen, removed, was, verdict, calls>>
    BY <2>3, ReconcileOn
  <2> QED
    BY <1>11, <2>1, <2>2, <2>3 DEF ReconcileStep
<1>12. CASE UNCHANGED vars
  <2>1. /\ m' = m /\ pc' = pc /\ offset' = offset /\ current' = current /\ seen' = seen
        /\ removed' = removed /\ was' = was
    BY <1>12 DEF vars
  <2>2. ASSUME IterProgress PROVE IterProgress'
    BY <2>1, <2>2 DEF IterProgress
  <2>3. ASSUME RetainProgress PROVE RetainProgress'
    BY <2>1, <2>3 DEF RetainProgress
  <2>4. ASSUME ReconcileProgress PROVE ReconcileProgress'
    BY <2>1, <2>4 DEF ReconcileProgress
  <2> QED
    BY <1>1, <2>1, <2>2, <2>3, <2>4 DEF Progress, Good, Sound
<1> QED
  BY <1>1, <1>3, <1>4, <1>5, <1>6, <1>7, <1>8, <1>9, <1>10, <1>11, <1>12 DEF Next, LoopStep

\* So every behaviour has it.
LEMMA ProgressInvariant == Spec => [](IInv /\ Progress)
  BY InitProgress, NextProgress, PTL DEF Spec

-----------------------------------------------------------------------------
(* What the loops return *)

\* What IterationComplete says of a step.
IterationStep ==
  pc = "iter" /\ pc' = "idle" =>
    /\ {Slice(was, o, EndOffset(was, o)) : o \in seen}
         = {Walk(was).opts[i] : i \in DOMAIN Walk(was).opts}
    /\ (verdict' = "ok") = (Walk(was).rest = <<>>)

\* What RetainFilters says of a step.
RetainFiltered ==
  pc = "retain" /\ pc' = "idle" /\ NoWrap(was) =>
    Walk(m') = [Walk(was) EXCEPT !.opts = Without(@, removed)]

\* What RedirectReconciled says of a step.
ReconciledStep ==
  pc = "reconcile" /\ pc' = "idle" =>
    /\ m'.data_len <= MinMtu
    /\ HasRedirected(m) => EndsInRedirected(m')

\* Only next, retain's own loop and reconcile's end a loop.
LEMMA LoopEnds ==
  ASSUME [Next]_vars, pc # "idle", pc' = "idle"
  PROVE  NextOption \/ RetainStep \/ ReconcileStep
  BY DEF Next, LoopStep, Prepend, AppendOption, Push, SetLengthOfFirst, Iterate, Reconcile,
         Retain, Begin, Call, SetField, vars

\* An iteration that has come to where no option is has given them all.
LEMMA IterationEnd ==
  ASSUME Progress, pc = "iter",
         m.data_len <= offset \/ (m.data_len > offset /\ ~IsOption(m, offset))
  PROVE  /\ {Slice(was, o, EndOffset(was, o)) : o \in seen}
              = {Walk(was).opts[i] : i \in DOMAIN Walk(was).opts}
         /\ (m.data_len <= offset) = (Walk(was).rest = <<>>)
<1>1. /\ Good(m) /\ Good(was) /\ offset \in Base .. m.data_len /\ IterProgress
      /\ m.data_len = was.data_len /\ SameFrom(was, m, offset)
      /\ m.data_len \in Nat /\ offset \in Nat /\ offset <= m.data_len
  BY Offsets DEF Progress, IterProgress
<1>2. PICK pre : Leads(was, offset, pre) /\ Given(was, seen) = Elements(pre)
  BY <1>1 DEF IterProgress
<1>3. \A o \in seen : o < was.data_len /\ (Length(was, o) > 0 \/ o = offset)
  BY <1>1 DEF IterProgress
<1>4. ~Whole(was, offset) /\ (offset < was.data_len => Length(was, offset) > 0)
  <2>1. CASE offset < was.data_len
    <3>1. ~IsOption(was, offset)
      BY <1>1, <2>1, SameOption
    <3> QED
      BY <1>1, <2>1, <3>1, NoOptionThere
  <2>2. CASE ~(offset < was.data_len)
    BY <2>2 DEF Whole
  <2> QED
    BY <2>1, <2>2
<1>5. \A o \in seen : Length(was, o) > 0
  BY <1>1, <1>3, <1>4
<1>6. Given(was, seen) = {Slice(was, o, EndOffset(was, o)) : o \in seen}
  <2>1. {p \in seen : Length(was, p) > 0} = seen
    BY <1>5
  <2> QED
    BY <2>1 DEF Given
<1>7. pre \in Seq(Option)
  BY <1>2 DEF Leads
<1>8. PICK r : r = Slice(was, offset, was.data_len)
  OBVIOUS
<1>9. Walk(was) = [opts |-> pre, rest |-> r]
  BY <1>1, <1>2, <1>4, <1>8, LeadsToEnd
<1>10. Walk(was).opts = pre /\ Walk(was).rest = r
  BY <1>9
<1>11. Elements(pre) = {pre[i] : i \in DOMAIN pre}
  BY <1>7 DEF Elements
<1>12. (r = <<>>) = (offset = was.data_len)
  <2>1. WalkFrom(was, offset) = Stop(was, offset)
        /\ (WalkFrom(was, offset).rest = <<>>) = (offset = was.data_len)
    BY <1>1, <1>4, WalkEnds
  <2>2. WalkFrom(was, offset).rest = r
    BY <1>8, <2>1 DEF Stop
  <2> QED
    BY <2>1, <2>2
<1>13. (m.data_len <= offset) = (offset = was.data_len)
  BY <1>1
<1> QED
  BY <1>2, <1>6, <1>10, <1>11, <1>12, <1>13

\* An iteration that ends has given every option that a walk of the message finds, whatever
\* fields were set on the way, and it ends in an error exactly when a rest is left.
THEOREM IterationGivesAll == Spec => IterationComplete
<1>1. Progress /\ [Next]_vars => IterationStep
  <2> SUFFICES ASSUME Progress, [Next]_vars, pc = "iter", pc' = "idle"
               PROVE  IterationStep
    BY DEF IterationStep
  <2>1. NextOption
    BY LoopEnds DEF RetainStep, ReconcileStep
  <2>2. \/ m.data_len > offset /\ ~IsOption(m, offset) /\ verdict' = "err"
        \/ m.data_len <= offset /\ verdict' = "ok"
    BY <2>1 DEF NextOption, Finish
  <2>3. m.data_len \in Nat /\ offset \in Nat
    BY Offsets DEF Progress
  <2>4. (verdict' = "ok") = (m.data_len <= offset)
    BY <2>2, <2>3
  <2>5. /\ {Slice(was, o, EndOffset(was, o)) : o \in seen}
             = {Walk(was).opts[i] : i \in DOMAIN Walk(was).opts}
        /\ (m.data_len <= offset) = (Walk(was).rest = <<>>)
    BY <2>2, IterationEnd
  <2> QED
    BY <2>4, <2>5 DEF IterationStep
<1>2. IterationStep =>
        [pc = "iter" /\ pc' = "idle" =>
           /\ {Slice(was, o, EndOffset(was, o)) : o \in seen}
                = {Walk(was).opts[i] : i \in DOMAIN Walk(was).opts}
           /\ (verdict' = "ok") = (Walk(was).rest = <<>>)]_vars
  BY DEF IterationStep
<1> QED
  BY <1>1, <1>2, ProgressInvariant, PTL DEF Spec, IterationComplete

\* retain that ends leaves the options that its closure accepts, in their order, and the
\* rest, as long as no option of the message is so long that its length wraps a u8.
THEOREM RetainLeavesAccepted == Spec => RetainFilters
<1>1. Progress /\ [Next]_vars => RetainFiltered
  <2> SUFFICES ASSUME Progress, [Next]_vars, pc = "retain", pc' = "idle", NoWrap(was)
               PROVE  RetainFiltered
    BY DEF RetainFiltered
  <2>1. RetainStep
    BY LoopEnds DEF NextOption, ReconcileStep
  <2>2. PICK done \in Seq(Option) : RetainDone(done)
    BY DEF Progress, RetainProgress, RetainDone
  <2>3. Good(m) /\ offset \in Base .. m.data_len /\ m.data_len \in Nat /\ offset \in Nat
    BY Offsets DEF Progress
  <2> DEFINE len == (Length(m, offset) * Unit) % Width
  <2>4. /\ m' = m
        /\ \/ m.data_len <= offset
           \/ m.data_len > offset /\ ~IsOption(m, offset)
           \/ m.data_len > offset /\ ~CanShrink(m, offset, len)
    BY <2>1 DEF RetainStep, Finish, position
  <2>5. ~Whole(m, offset)
    <3> DEFINE l == (Length(m, offset) * Unit) % Width
    <3>1. l = len
      OBVIOUS
    <3> HIDE DEF len
    <3>2. CASE m.data_len <= offset
      BY <2>3, <3>2 DEF Whole
    <3>3. CASE m.data_len > offset /\ ~IsOption(m, offset)
      BY <2>3, <3>3, NoOptionThere
    <3>4. CASE m.data_len > offset /\ ~CanShrink(m, offset, len)
      BY <2>2, <3>1, <3>4, RefusedLength
    <3> QED
      BY <2>4, <3>2, <3>3, <3>4
  <2>6. Walk(m) = [Walk(was) EXCEPT !.opts = Without(@, removed)]
    BY <2>2, <2>5, RetainAtEnd
  <2> QED
    BY <2>4, <2>6 DEF RetainFiltered
<1>2. RetainFiltered =>
        [pc = "retain" /\ pc' = "idle" /\ NoWrap(was) =>
           Walk(m') = [Walk(was) EXCEPT !.opts = Without(@, removed)]]_vars
  BY DEF RetainFiltered
<1> QED
  BY <1>1, <1>2, ProgressInvariant, PTL DEF Spec, RetainFilters

\* After reconcile the message fits the minimum MTU, and the walk of a receiver ends in the
\* Redirected Header, if there is one in the message as it was truncated.
THEOREM RedirectEnds == Spec => RedirectReconciled
<1>1. Progress /\ [Next]_vars => ReconciledStep
  <2> SUFFICES ASSUME Progress, [Next]_vars, pc = "reconcile", pc' = "idle"
               PROVE  ReconciledStep
    BY DEF ReconciledStep
  <2>1. ReconcileStep
    BY LoopEnds DEF NextOption, RetainStep
  <2>2. Good(m) /\ offset \in Base .. m.data_len /\ m.data_len <= MinMtu
        /\ m.data_len \in Nat /\ offset \in Nat
    BY Offsets DEF Progress, ReconcileProgress
  <2>3. PICK pre : Leads(m, offset, pre) /\ \A i \in 1 .. Len(pre) : pre[i][1].t # "redirected"
    BY DEF Progress, ReconcileProgress
  <2>4. CASE ~(m.data_len > offset /\ IsOption(m, offset)) /\ m' = m
    <3>1. ~Whole(m, offset)
      <4>1. CASE m.data_len > offset
        BY <2>2, <2>4, <4>1, NoOptionThere
      <4>2. CASE ~(m.data_len > offset)
        BY <2>2, <4>2 DEF Whole
      <4> QED
        BY <4>1, <4>2
    <3>2. PICK r : r = Slice(m, offset, m.data_len)
      OBVIOUS
    <3>3. Walk(m) = [opts |-> pre, rest |-> r]
      BY <2>2, <2>3, <3>1, <3>2, LeadsToEnd
    <3>4. Walk(m).opts = pre /\ pre \in Seq(Option)
      BY <2>3, <3>3 DEF Leads
    <3>5. ~HasRedirected(m)
      BY <2>3, <3>4 DEF HasRedirected
    <3> QED
      BY <2>2, <2>4, <3>5 DEF ReconciledStep
  <2>5. CASE IsRedirectedHeader(m, offset) /\ m' = SetLength(m, offset)
    <3>1. EndsInRedirected(m') /\ m'.data_len <= MinMtu
      BY <2>2, <2>3, <2>5, SetLengthEnds
    <3> QED
      BY <3>1 DEF ReconciledStep
  <2>6. pc' # pc
    OBVIOUS
  <2> QED
    BY <2>1, <2>4, <2>5, <2>6 DEF ReconcileStep, Finish
<1>2. ReconciledStep =>
        [pc = "reconcile" /\ pc' = "idle" =>
           /\ m'.data_len <= MinMtu
           /\ HasRedirected(m) => EndsInRedirected(m')]_vars
  BY DEF ReconciledStep
<1> QED
  BY <1>1, <1>2, ProgressInvariant, PTL DEF Spec, RedirectReconciled

-----------------------------------------------------------------------------
(* A new option among the others *)

\* A new option is whole where it was written.
LEMMA FreshWhole ==
  ASSUME NEW e, Good(e), NEW k \in Kind, NEW at \in Base .. e.data_len,
         NEW n \in Nat, n = Units[k] * Unit, n > 0, at + n <= e.data_len,
         \A i \in 0 .. n - 1 : CellAt(e, at + i) = Fresh(k)[i + 1]
  PROVE  /\ Whole(e, at) /\ EndOffset(e, at) = at + n
         /\ Slice(e, at, at + n) = Fresh(k) /\ Fresh(k) \in Option
<1>1. at \in Nat /\ e.data_len \in Nat
  BY Offsets
<1>2. PICK s : s = Fresh(k) /\ s \in Seq(Cell)
  BY FreshCells
<1>3. s = [i \in 1 .. n |-> IF i = 1 THEN [t |-> k, len |-> Units[k]] ELSE [t |-> "body", len |-> 0]]
  BY <1>2 DEF Fresh
<1>4. Len(s) = n /\ s[1] = [t |-> k, len |-> Units[k]]
  <2>1. 1 \in 1 .. n
    OBVIOUS
  <2> QED
    BY <1>2, <1>3, <2>1
<1>5. CellAt(e, at) = s[1]
  <2>1. 0 \in 0 .. n - 1 /\ at + 0 = at /\ 0 + 1 = 1
    BY <1>1
  <2>2. CellAt(e, at + 0) = Fresh(k)[0 + 1]
    BY <2>1
  <2> QED
    BY <1>2, <2>1, <2>2
<1>6. Length(e, at) = Units[k] /\ Units[k] > 0
  BY <1>4, <1>5, NdpAssumption DEF Length
<1>7. EndOffset(e, at) = at + n
  BY <1>6 DEF EndOffset
<1>8. Whole(e, at)
  BY <1>1, <1>6, <1>7 DEF Whole
<1>9. PICK x \in Nat : x = at + n /\ x - at = n /\ x \in at .. e.data_len
  BY <1>1
<1>10. /\ Slice(e, at, x) \in Seq(Cell) /\ Len(Slice(e, at, x)) = x - at
       /\ \A i \in 1 .. x - at : Slice(e, at, x)[i] = CellAt(e, at + i - 1)
  <2>1. x \in at .. e.data_len
    BY <1>9
  <2> QED
    BY <1>1, <2>1, SliceIs
<1>11. PICK w \in Seq(Cell) : w = Slice(e, at, x) /\ Len(w) = n
                              /\ \A i \in 1 .. n : w[i] = CellAt(e, at + i - 1)
  BY <1>9, <1>10
<1>12. ASSUME NEW i \in 1 .. n PROVE w[i] = s[i]
  <2>1. PICK j \in 0 .. n - 1 : j = i - 1 /\ j + 1 = i /\ at + i - 1 = at + j
    BY <1>1
  <2>2. CellAt(e, at + j) = s[j + 1]
    BY <1>2, <2>1
  <2> QED
    BY <1>11, <2>1, <2>2
<1>13. w = s
  BY <1>2, <1>4, <1>11, <1>12, SeqEqual
<1> QED
  BY <1>2, <1>7, <1>8, <1>9, <1>11, <1>13 DEF Option

\* A push that succeeds.
LEMMA Pushed ==
  ASSUME Progress, NEW k \in Kind, NEW at \in Nat, Push(k, at), verdict' = "ok",
         NEW n \in Nat, n = Units[k] * Unit
  PROVE  CanExtend(m, at, n) /\ m' = Write(Extend(m, at, n), at, Fresh(k)) /\ Good(m)
  BY DEF Push, Progress

\* An option that is prepended is the first, and the others are behind it.
LEMMA PrependFirst ==
  ASSUME Progress, NEW k \in Kind, Prepend(k), verdict' = "ok"
  PROVE  Walk(m') = [Walk(m) EXCEPT !.opts = <<Fresh(k)>> \o @]
<1>1. PICK n \in Nat : n = Units[k] * Unit
  BY FreshCells
<1>2. CanExtend(m, Base, n) /\ m' = Write(Extend(m, Base, n), Base, Fresh(k)) /\ Good(m)
  BY <1>1, Pushed, NdpAssumption DEF Prepend
<1>3. PICK e : e = m'
  OBVIOUS
<1>4. /\ Sound(e) /\ e.data_len = m.data_len + n /\ Base <= m.data_len /\ n > 0
      /\ \A o \in Base .. m.data_len - 1 : CellAt(e, o + n) = CellAt(m, o)
      /\ \A i \in 0 .. n - 1 : CellAt(e, Base + i) = Fresh(k)[i + 1]
  BY <1>1, <1>2, <1>3, PushCells, NdpAssumption DEF Good
<1>5. m.data_len \in Nat /\ Base \in Nat
  BY <1>2, Offsets
<1>6. Good(e) /\ Base \in Base .. e.data_len /\ Base + n <= e.data_len
      /\ Base \in Base .. m.data_len
  BY <1>4, <1>5 DEF Good
<1>7. /\ Whole(e, Base) /\ EndOffset(e, Base) = Base + n
      /\ Slice(e, Base, Base + n) = Fresh(k) /\ Fresh(k) \in Option
  BY <1>1, <1>4, <1>6, FreshWhole
<1>8. PICK p \in Nat : p = Base + n
  BY <1>5
<1>9. Tails(m, Base, e, p)
  <2>1. p \in Base .. e.data_len /\ m.data_len - Base = e.data_len - p
    BY <1>4, <1>5, <1>8
  <2>2. ASSUME NEW i \in 0 .. m.data_len - Base - 1
        PROVE  CellAt(e, p + i) = CellAt(m, Base + i)
    <3>1. PICK o : o = Base + i /\ o \in Base .. m.data_len - 1 /\ o + n = p + i
      BY <1>5, <1>8
    <3> QED
      BY <1>4, <3>1
  <2> QED
    BY <1>6, <2>1, <2>2 DEF Tails, Alike
<1>10. WalkFrom(m, Base) = WalkFrom(e, p)
  BY <1>2, <1>6, <1>9, WalkTails
<1>11. WalkFrom(e, Base) = [opts |-> <<Fresh(k)>> \o WalkFrom(e, p).opts, rest |-> WalkFrom(e, p).rest]
  BY <1>6, <1>7, <1>8, WalkOn
<1>12. Walk(e) = WalkFrom(e, Base) /\ Walk(m) = WalkFrom(m, Base) /\ Walk(m) \in Message
  BY <1>2, <1>6, WalkIs, WalkType
<1>13. PICK t, r : Walk(m) = [opts |-> t, rest |-> r]
  BY <1>12 DEF Message
<1>14. PICK u : u = <<Fresh(k)>> \o t
  OBVIOUS
<1>15. Walk(m).opts = t /\ Walk(m).rest = r
  BY <1>13
<1>16. Walk(e) = [opts |-> u, rest |-> r]
  BY <1>10, <1>11, <1>12, <1>14, <1>15
<1>17. [Walk(m) EXCEPT !.opts = <<Fresh(k)>> \o @] = [opts |-> u, rest |-> r]
  <2>1. <<Fresh(k)>> \o Walk(m).opts = u
    BY <1>14, <1>15
  <2>2. [Walk(m) EXCEPT !.opts = <<Fresh(k)>> \o @] = [Walk(m) EXCEPT !.opts = u]
    BY <2>1
  <2>3. [[opts |-> t, rest |-> r] EXCEPT !.opts = u] = [opts |-> u, rest |-> r]
    OBVIOUS
  <2> QED
    BY <1>13, <2>2, <2>3
<1> QED
  BY <1>3, <1>16, <1>17

\* One that is appended is the last, if nothing was left that is no option.
LEMMA AppendLast ==
  ASSUME Progress, NEW k \in Kind, AppendOption(k), verdict' = "ok", Walk(m).rest = <<>>
  PROVE  Walk(m') = [Walk(m) EXCEPT !.opts = Append(@, Fresh(k))]
<1>1. PICK n \in Nat : n = Units[k] * Unit
  BY FreshCells
<1>2. Good(m)
  BY DEF Progress
<1>3. m.data_len \in Nat /\ Base \in Nat /\ Base <= m.data_len
  BY <1>2, Offsets DEF Good
<1>4. CanExtend(m, m.data_len, n) /\ m' = Write(Extend(m, m.data_len, n), m.data_len, Fresh(k))
  BY <1>1, <1>3, Pushed DEF AppendOption
<1>5. PICK e, q : e = m' /\ q = m.data_len
  OBVIOUS
<1>6. /\ Sound(e) /\ e.data_len = q + n /\ n > 0
      /\ \A o \in 0 .. q - 1 : CellAt(e, o) = CellAt(m, o)
      /\ \A i \in 0 .. n - 1 : CellAt(e, q + i) = Fresh(k)[i + 1]
  BY <1>1, <1>2, <1>3, <1>4, <1>5, PushCells DEF Good
<1>7. /\ q \in Nat /\ Good(e) /\ q \in Base .. e.data_len /\ q <= e.data_len
      /\ q + n <= e.data_len /\ q \in Base .. m.data_len
  BY <1>3, <1>5, <1>6 DEF Good
<1>8. /\ Whole(e, q) /\ EndOffset(e, q) = q + n
      /\ Slice(e, q, q + n) = Fresh(k) /\ Fresh(k) \in Option
  BY <1>1, <1>6, <1>7, FreshWhole
<1>9. PICK p, all : Leads(m, p, all) /\ ~Whole(m, p)
  BY <1>2, SomeEnd
<1>10. p \in Base .. m.data_len /\ all \in Seq(Option)
  BY <1>9 DEF Leads
<1>11. Walk(m) = [opts |-> all, rest |-> Slice(m, p, m.data_len)]
  BY <1>2, <1>9, LeadsToEnd
<1>12. p = q
  <2>1. WalkFrom(m, p) = Stop(m, p) /\ (WalkFrom(m, p).rest = <<>>) = (p = m.data_len)
    BY <1>2, <1>9, <1>10, WalkEnds
  <2>2. WalkFrom(m, p).rest = Slice(m, p, m.data_len)
    BY <2>1 DEF Stop
  <2>3. Walk(m).rest = Slice(m, p, m.data_len)
    BY <1>11
  <2> QED
    BY <1>5, <2>1, <2>2, <2>3
<1>13. SameUntil(m, e, q)
  <2>1. \A o \in Base .. q - 1 : o \in 0 .. q - 1
    BY <1>3, <1>7
  <2> QED
    BY <1>6, <2>1 DEF SameUntil
<1>14. Leads(e, q, all)
  BY <1>7, <1>9, <1>12, <1>13, LeadsSame
<1>15. PICK more \in Seq(Option) : more = Append(all, Fresh(k))
  <2>1. Append(all, Fresh(k)) \in Seq(Option)
    BY <1>8, <1>10, AppendProperties
  <2> QED
    BY <2>1
<1>16. Leads(e, e.data_len, more)
  BY <1>6, <1>7, <1>8, <1>14, <1>15, LeadsOn
<1>17. ~Whole(e, e.data_len)
  BY <1>6, <1>7 DEF Whole
<1>18. Walk(e) = [opts |-> more, rest |-> Slice(e, e.data_len, e.data_len)]
  BY <1>7, <1>16, <1>17, LeadsToEnd
<1>19. Slice(e, e.data_len, e.data_len) = <<>>
  <2>1. e.data_len \in Base .. e.data_len
    BY <1>16 DEF Leads
  <2>2. /\ WalkFrom(e, e.data_len) = Stop(e, e.data_len)
        /\ (WalkFrom(e, e.data_len).rest = <<>>) = (e.data_len = e.data_len)
    BY <1>7, <1>17, <2>1, WalkEnds
  <2> QED
    BY <2>2 DEF Stop
<1>20. Walk(m) = [opts |-> all, rest |-> <<>>]
  <2>1. Walk(m).rest = Slice(m, p, m.data_len)
    BY <1>11
  <2> QED
    BY <1>11, <2>1
<1>21. [Walk(m) EXCEPT !.opts = Append(@, Fresh(k))] = [opts |-> more, rest |-> <<>>]
  BY <1>15, <1>20
<1> QED
  BY <1>5, <1>18, <1>19, <1>21

\* A new option is where it was asked to be, and the options that were there are still
\* there in their order.
THEOREM PushLeavesOthers == Spec => PushedAmongOthers
<1> DEFINE Pushes == \A k \in Kind :
             /\ Prepend(k) /\ verdict' = "ok" =>
                  Walk(m') = [Walk(m) EXCEPT !.opts = <<Fresh(k)>> \o @]
             /\ AppendOption(k) /\ verdict' = "ok" /\ Walk(m).rest = <<>> =>
                  Walk(m') = [Walk(m) EXCEPT !.opts = Append(@, Fresh(k))]
<1>1. Progress => Pushes
  BY PrependFirst, AppendLast
<1>2. Pushes => [Pushes]_vars
  OBVIOUS
<1> QED
  BY <1>1, <1>2, ProgressInvariant, PTL DEF PushedAmongOthers
=============================================================================
