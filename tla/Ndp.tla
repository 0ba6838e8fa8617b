--------------------------------- MODULE Ndp ---------------------------------
(***************************************************************************)
(* The options at the end of an NDP message                                *)
(* (packets/icmp/v6/ndp/mod.rs and ndp/options): the iterators, prepend,   *)
(* append, retain, a downcast option and its setters, the length of the    *)
(* Redirected Header option, and the loop of Redirect::reconcile over the  *)
(* options.  The options are cells of the message buffer (module Mbuf);    *)
(* what is there may have come from the network, with any length in it.    *)
(*                                                                         *)
(* A cell is what holds the type and the length of an option, so a packet  *)
(* whose end cuts a cell in two is left out.                               *)
(***************************************************************************)
EXTENDS Mbuf

CONSTANTS
  Unit,     \* cells in a unit of the length field (8 octets)
  Width,    \* values of the length field, a u8
  Kind,     \* the options of ndp/options
  Units,    \* Units[k]: the length of a new option of kind k
  Base,     \* options_offset of the message
  MinMtu,   \* where an IPv6 packet of the minimum MTU ends (IPV6_MIN_MTU)
  Frames,   \* the packets received
  Junk,     \* what the cells of the buffer hold beyond it
  MaxCalls, \* bound on the calls into the options
  Refusals  \* the sets of types that a closure given to retain may refuse

ASSUME NdpAssumption ==
  /\ Unit \in Nat \ {0} /\ Width \in Nat \ {0}
  /\ "redirected" \in Kind
  /\ Units \in [Kind -> 1 .. Width - 1]
  /\ \A k \in Kind : Units[k] * Unit < Width
  /\ Units["redirected"] = 1
  /\ Base \in Nat /\ MinMtu \in Nat /\ Base < MinMtu /\ MinMtu < Unit * Width
  /\ \A k \in Kind, n \in 0 .. Width - 1 : [t |-> k, len |-> n] \in Cell
  /\ \A n \in 0 .. 1 : [t |-> "body", len |-> n] \in Cell
  /\ \A c \in Cell : c.len \in 0 .. Width - 1 /\ c = [t |-> c.t, len |-> c.len]
  /\ \A c \in Cell, n \in 0 .. Width - 1 : [c EXCEPT !.len = n] \in Cell
  /\ Junk \in Cell
  /\ MaxCalls \in Nat
  /\ \A f \in Frames : /\ f \in Seq(Cell)
                       /\ Base <= Len(f) /\ Headroom + Len(f) < BufLen

VARIABLES
  m,        \* the message buffer
  pc,       \* the loop that runs: "idle", "iter", "retain" or "reconcile"
  offset,   \* where it is
  current,  \* the option the iterator gave last
  seen,     \* the options it gave (for the properties)
  removed,  \* the types that the closure given to retain refuses
  was,      \* the buffer when the loop began (for the properties)
  verdict,  \* what the last call that ended returned: "ok" or "err"
  calls     \* how many there were

vars == <<m, pc, offset, current, seen, removed, was, verdict, calls>>
position == <<offset, current, seen, removed>>

Init ==
  /\ \E f \in Frames : m = Received(f, Junk)
  /\ pc = "idle" /\ offset = Base /\ current = Base /\ seen = {}
  /\ removed = {} /\ was = m /\ verdict = "ok" /\ calls = 0

\* A call into the options of a message no loop runs on.
Call == pc = "idle" /\ calls < MaxCalls /\ calls' = calls + 1

Type(b, o) == CellAt(b, o).t
Length(b, o) == CellAt(b, o).len
EndOffset(b, o) == o + Length(b, o) * Unit

\* Fault: an option that ends with the packet is refused.
IsOptionBeforeEnd(b, o) == CanRead(b, o, 1) /\ b.data_len > EndOffset(b, o)

\* ImmutableNdpOption::new and MutableNdpOption::new succeed.
IsOption(b, o) == CanRead(b, o, 1) /\ b.data_len >= EndOffset(b, o)

-----------------------------------------------------------------------------
(* prepend and append *)

Fresh(k) ==
  [i \in 1 .. Units[k] * Unit |->
     IF i = 1 THEN [t |-> k, len |-> Units[k]] ELSE [t |-> "body", len |-> 0]]

\* T::try_push, the same for every kind but for its fields.
Push(k, at) ==
  /\ Call
  /\ IF CanExtend(m, at, Units[k] * Unit)
     THEN /\ m' = Write(Extend(m, at, Units[k] * Unit), at, Fresh(k))
          /\ verdict' = "ok"
     ELSE m' = m /\ verdict' = "err"
  /\ was' = m'
  /\ UNCHANGED <<pc, position>>

Prepend(k) == Push(k, Base)
AppendOption(k) == Push(k, m.data_len)

-----------------------------------------------------------------------------
(* The Redirected Header option *)

IsRedirectedHeader(b, o) ==
  /\ CanRead(b, o, Units["redirected"] * Unit)
  /\ Type(b, o) = "redirected"

\* Fault: the length in octets.
SetLengthInOctets(b, o) == Write(b, o, <<[CellAt(b, o) EXCEPT !.len = b.data_len - o]>>)

\* Fault: nothing is trimmed.
SetLengthUntrimmed(b, o) ==
  Write(b, o, <<[CellAt(b, o) EXCEPT !.len = ((b.data_len - o) \div Unit) % Width]>>)

\* The option takes the rest of the buffer but for what is no whole unit.
SetLength(b, o) ==
  LET len == b.data_len - o
      trimmed == IF len % Unit > 0 THEN Truncate(b, b.data_len - (len % Unit)) ELSE b
  IN  Write(trimmed, o, <<[CellAt(b, o) EXCEPT !.len = (len \div Unit) % Width]>>)

\* set_length on the option that prepend has just returned.
SetLengthOfFirst ==
  /\ Call /\ IsRedirectedHeader(m, Base)
  /\ m' = SetLength(m, Base)
  /\ verdict' = "ok" /\ was' = m'
  /\ UNCHANGED <<pc, position>>

-----------------------------------------------------------------------------
(* The iterators *)

Begin(here, b) ==
  /\ Call /\ pc' = here
  /\ m' = b /\ was' = m
  /\ offset' = Base /\ current' = Base /\ seen' = {}
  /\ UNCHANGED verdict

Finish(v, b) ==
  /\ pc' = "idle" /\ verdict' = v
  /\ m' = b /\ was' = b
  /\ offset' = Base /\ current' = Base /\ seen' = {} /\ removed' = {}
  /\ UNCHANGED calls

Iterate == Begin("iter", m) /\ UNCHANGED removed

\* Fault: the iterator does not advance.
NextOptionStays ==
  /\ pc = "iter"
  /\ IF m.data_len > offset /\ IsOption(m, offset)
     THEN /\ current' = offset /\ seen' = seen \cup {offset}
          /\ UNCHANGED <<m, pc, offset, removed, was, verdict, calls>>
     ELSE Finish("ok", m)

NextOption ==
  /\ pc = "iter"
  /\ \/ /\ m.data_len > offset /\ IsOption(m, offset)
        /\ current' = offset /\ seen' = seen \cup {offset}
        /\ offset' = EndOffset(m, offset)
        /\ UNCHANGED <<m, pc, removed, was, verdict, calls>>
     \/ m.data_len > offset /\ ~IsOption(m, offset) /\ Finish("err", m)
     \/ m.data_len <= offset /\ Finish("ok", m)

\* Fault: the length is not checked.
DowncastByType(b, o, k) == CanRead(b, o, Units[k] * Unit) /\ Type(b, o) = k

\* The option is as long as the fields of its kind: a product of u8's.
Downcast(b, o, k) ==
  /\ CanRead(b, o, Units[k] * Unit)
  /\ Type(b, o) = k
  /\ (Length(b, o) * Unit) % Width = (Units[k] * Unit) % Width

\* The caller of the iterator downcasts the option and sets a field of it.
SetField(k) ==
  /\ pc = "iter" /\ current \in seen /\ Downcast(m, current, k)
  /\ m' = Write(m, current + Units[k] * Unit - 1, <<[t |-> "body", len |-> 1]>>)
  /\ UNCHANGED <<pc, position, was, verdict, calls>>

-----------------------------------------------------------------------------
(* retain *)

Retain(types) == Begin("retain", m) /\ removed' = types

\* Fault: retain goes on behind where the removed option was.
RetainStepSkips ==
  /\ pc = "retain"
  /\ LET len == (Length(m, offset) * Unit) % Width
         refused == Type(m, offset) \in removed
     IN
     \/ m.data_len <= offset /\ Finish("ok", m)
     \/ m.data_len > offset /\ ~IsOption(m, offset) /\ Finish("err", m)
     \/ /\ m.data_len > offset /\ IsOption(m, offset) /\ ~refused
        /\ offset' = EndOffset(m, offset)
        /\ UNCHANGED <<m, pc, current, seen, removed, was, verdict, calls>>
     \/ /\ m.data_len > offset /\ IsOption(m, offset) /\ refused
        /\ IF CanShrink(m, offset, len)
           THEN /\ m' = Shrink(m, offset, len) /\ offset' = offset + len
                /\ UNCHANGED <<pc, current, seen, removed, was, verdict, calls>>
           ELSE Finish("err", m)

\* `option.length() * 8` is a u8.
RetainStep ==
  /\ pc = "retain"
  /\ LET len == (Length(m, offset) * Unit) % Width
         refused == Type(m, offset) \in removed
     IN
     \/ m.data_len <= offset /\ Finish("ok", m)
     \/ m.data_len > offset /\ ~IsOption(m, offset) /\ Finish("err", m)
     \/ /\ m.data_len > offset /\ IsOption(m, offset) /\ ~refused
        /\ offset' = EndOffset(m, offset)
        /\ UNCHANGED <<m, pc, current, seen, removed, was, verdict, calls>>
     \/ /\ m.data_len > offset /\ IsOption(m, offset) /\ refused
        /\ IF CanShrink(m, offset, len)
           THEN m' = Shrink(m, offset, len) /\ UNCHANGED <<pc, position, was, verdict, calls>>
           ELSE Finish("err", m)

-----------------------------------------------------------------------------
(* Redirect::reconcile *)

ToMinMtu(b) == IF CanTruncate(b, MinMtu) THEN Truncate(b, MinMtu) ELSE b

Reconcile == Begin("reconcile", ToMinMtu(m)) /\ UNCHANGED removed

ReconcileStep ==
  /\ pc = "reconcile"
  /\ LET more == m.data_len > offset /\ IsOption(m, offset)
     IN
     \/ ~more /\ Finish("ok", m)
     \/ more /\ IsRedirectedHeader(m, offset) /\ Finish("ok", SetLength(m, offset))
     \/ /\ more /\ ~IsRedirectedHeader(m, offset)
        /\ offset' = EndOffset(m, offset)
        /\ UNCHANGED <<m, pc, current, seen, removed, was, verdict, calls>>

-----------------------------------------------------------------------------
LoopStep == NextOption \/ RetainStep \/ ReconcileStep

Next ==
  \/ \E k \in Kind : Prepend(k) \/ AppendOption(k) \/ SetField(k)
  \/ SetLengthOfFirst
  \/ Iterate \/ Reconcile
  \/ \E types \in Refusals : Retain(types)
  \/ LoopStep

Spec == Init /\ [][Next]_vars
\* A loop, once entered, is run by the thread that called it.
FairSpec == Spec /\ WF_vars(LoopStep)

-----------------------------------------------------------------------------
(* What a receiver makes of the options: the ones that are whole, from the *)
(* first on, and the rest, from the first that is not or has no length.    *)

Walk(b) ==
  LET from[o \in Base .. b.data_len] ==
        IF o < b.data_len /\ Length(b, o) > 0 /\ EndOffset(b, o) <= b.data_len
        THEN LET tail == from[EndOffset(b, o)]
             IN  [tail EXCEPT !.opts = <<Slice(b, o, EndOffset(b, o))>> \o @]
        ELSE [opts |-> <<>>, rest |-> Slice(b, o, b.data_len)]
  IN  from[Base]

\* The walk stops at no option without a length.
NoEmptyOption(b) == Walk(b).rest = <<>> \/ Walk(b).rest[1].len > 0
\* No option is so long that its length in octets wraps a u8.
NoWrap(b) == \A i \in DOMAIN Walk(b).opts : Len(Walk(b).opts[i]) < Width

HasRedirected(b) == \E i \in DOMAIN Walk(b).opts : Walk(b).opts[i][1].t = "redirected"

\* The options of other types, in their order.
Without(opts, types) ==
  LET upTo[n \in 0 .. Len(opts)] ==
        IF n = 0 THEN <<>>
        ELSE IF opts[n][1].t \in types THEN upTo[n - 1] ELSE Append(upTo[n - 1], opts[n])
  IN  upTo[Len(opts)]

\* The walk ends with a Redirected Header that takes all that is left.
EndsInRedirected(b) ==
  /\ Walk(b).rest = <<>>
  /\ Walk(b).opts # <<>>
  /\ Walk(b).opts[Len(Walk(b).opts)][1].t = "redirected"

-----------------------------------------------------------------------------
TypeOK ==
  /\ m \in Buffer
  /\ pc \in {"idle", "iter", "retain", "reconcile"}
  /\ offset \in Nat /\ current \in Nat /\ seen \in SUBSET Nat
  /\ removed \in {{}} \cup Refusals
  /\ was \in Buffer
  /\ verdict \in {"ok", "err"}
  /\ calls \in 0 .. MaxCalls

\* The packet stays within its buffer, whatever is pushed into it, and the two
\* lengths that the driver reads are the same (extend, shrink and truncate of
\* mbuf.rs, whose arithmetic is in u16).
InBuffer ==
  /\ Headroom + m.data_len <= BufLen
  /\ m.pkt_len = m.data_len

\* A new option is where it was asked to be, and the options that were there
\* are still there in their order.  One appended behind a rest that is no
\* option may be taken for a part of it.
PushedAmongOthers ==
  [][\A k \in Kind :
       /\ Prepend(k) /\ verdict' = "ok" =>
            Walk(m') = [Walk(m) EXCEPT !.opts = <<Fresh(k)>> \o @]
       /\ AppendOption(k) /\ verdict' = "ok" /\ Walk(m).rest = <<>> =>
            Walk(m') = [Walk(m) EXCEPT !.opts = Append(@, Fresh(k))]]_vars

\* A setter of a downcast option changes no cell of another option: the check
\* of the length in the downcast has to keep the fields inside the option.
FieldsInsideOption ==
  [][pc = "iter" /\ m' # m =>
       /\ m'.data_len = m.data_len
       /\ \A o \in 0 .. m.data_len - 1 :
            CellAt(m', o) # CellAt(m, o) => o \in current .. EndOffset(m, current) - 1]_vars

\* An iteration that ends has given every option of the message, and it ends
\* in an error exactly when something is left that is no option.
IterationComplete ==
  [][pc = "iter" /\ pc' = "idle" =>
       /\ {Slice(was, o, EndOffset(was, o)) : o \in seen}
            = {Walk(was).opts[i] : i \in DOMAIN Walk(was).opts}
       /\ (verdict' = "ok") = (Walk(was).rest = <<>>)]_vars

\* retain leaves the options that the closure accepts, in their order, and
\* what is no option, when no length wraps.
RetainFilters ==
  [][pc = "retain" /\ pc' = "idle" /\ NoWrap(was) =>
       Walk(m') = [Walk(was) EXCEPT !.opts = Without(@, removed)]]_vars

\* The loops over the options end when no option has the length zero (and no
\* length wraps): with one, next returns the same option for ever.
LoopsEnd ==
  (pc # "idle" /\ NoEmptyOption(m) /\ NoWrap(m)) ~> (pc = "idle")

\* After Redirect::reconcile the message fits the minimum MTU and a receiver's
\* walk ends in the Redirected Header, if there was one that the loop reaches
\* in the message it has already truncated.
RedirectReconciled ==
  [][pc = "reconcile" /\ pc' = "idle" =>
       /\ m'.data_len <= MinMtu
       /\ HasRedirected(m) => EndsInRedirected(m')]_vars

\* What the documentation of Redirect::reconcile says: "if a RedirectedHeader
\* option is present, the option length is set to account for the original IP
\* header and data" (ndp/redirect.rs).
ReconcileSetsLength ==
  [][pc = "reconcile" /\ pc' = "idle" /\ HasRedirected(was) => EndsInRedirected(m')]_vars
=============================================================================
