-------------------------------- MODULE Mbuf --------------------------------
(***************************************************************************)
(* The message buffer of dpdk/mbuf.rs: an array of cells of which data_len *)
(* hold the packet, after a headroom that capsule never uses.  A buffer is *)
(* a record, and an operation that resizes or writes it is a guard, its    *)
(* `ensure!`s, and the buffer it returns.                                  *)
(*                                                                         *)
(* `ptr::copy` moves cells of the array, one by one and past every bound   *)
(* if the guard lets it: an index that is not in the array is dropped by   *)
(* the function constructor, which is why InBuffer has to hold.            *)
(***************************************************************************)
EXTENDS Integers, Sequences

CONSTANTS
  BufLen,    \* cells of the array (buf_len)
  Headroom,  \* where the packet begins in it (data_off)
  Cell       \* what a cell holds

ASSUME MbufAssumption ==
  /\ BufLen \in Nat \ {0}
  /\ Headroom \in 0 .. BufLen - 1

Buffer == [mem : [0 .. BufLen - 1 -> Cell], data_len : Nat, pkt_len : Nat]

\* A packet as it is received: `bytes` in the buffer and `junk` elsewhere.
Received(bytes, junk) ==
  [mem |-> [a \in 0 .. BufLen - 1 |->
              IF a \in Headroom .. Headroom + Len(bytes) - 1
              THEN bytes[a - Headroom + 1] ELSE junk],
   data_len |-> Len(bytes),
   pkt_len |-> Len(bytes)]

\* The cell at an offset of the packet, and the packet from one to another.
CellAt(m, offset) == m.mem[Headroom + offset]
Slice(m, from, to) == [i \in 1 .. to - from |-> CellAt(m, from + i - 1)]

Tailroom(m) == BufLen - Headroom - m.data_len

\* Fault: the headroom is forgotten.
CanExtendFromStart(m, offset, len) ==
  len > 0 /\ offset <= m.data_len /\ len < BufLen - m.data_len

CanExtend(m, offset, len) ==
  len > 0 /\ offset <= m.data_len /\ len < Tailroom(m)

\* Fault: a copy from the front, which reads what it has overwritten.
ExtendForwards(m, offset, len) ==
  [mem |-> [a \in 0 .. BufLen - 1 |->
              IF a \in Headroom + offset + len .. Headroom + m.data_len + len - 1
              THEN CellAt(m, offset + ((a - Headroom - offset) % len)) ELSE m.mem[a]],
   data_len |-> m.data_len + len,
   pkt_len  |-> m.pkt_len + len]

\* The cells from offset on move down by len.
Extend(m, offset, len) ==
  [mem |-> [a \in 0 .. BufLen - 1 |->
              IF a \in Headroom + offset + len .. Headroom + m.data_len + len - 1
              THEN m.mem[a - len] ELSE m.mem[a]],
   data_len |-> m.data_len + len,
   pkt_len  |-> m.pkt_len + len]

CanShrink(m, offset, len) == len > 0 /\ offset + len <= m.data_len

\* The cells after the len that go move up.
Shrink(m, offset, len) ==
  [mem |-> [a \in 0 .. BufLen - 1 |->
              IF a \in Headroom + offset .. Headroom + m.data_len - len - 1
              THEN m.mem[a + len] ELSE m.mem[a]],
   data_len |-> m.data_len - len,
   pkt_len  |-> m.pkt_len - len]

CanTruncate(m, to_len) == to_len < m.data_len
Truncate(m, to_len) == [m EXCEPT !.data_len = to_len, !.pkt_len = to_len]

CanRead(m, offset, size) == offset < m.data_len /\ offset + size <= m.data_len

Write(m, offset, cells) ==
  [m EXCEPT !.mem = [a \in 0 .. BufLen - 1 |->
      IF a \in Headroom + offset .. Headroom + offset + Len(cells) - 1
      THEN cells[a - Headroom - offset + 1] ELSE m.mem[a]]]
=============================================================================
