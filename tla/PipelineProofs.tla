--------------------------- MODULE PipelineProofs ---------------------------
(***************************************************************************)
(* What holds of the batch combinators for every tree of combinators and   *)
(* any number of packets.                                                  *)
(*                                                                         *)
(* The calls that are under way are the heart of it: StackInv says that    *)
(* the stack is a path down the tree, and the other parts of the invariant *)
(* say what a combinator may keep for itself while it waits (StoreInv),    *)
(* while its sub batches are asked (BridgeInv, YieldInv, HeldInv), and     *)
(* when it has no more to give (NoneInv).                                  *)
(***************************************************************************)
EXTENDS Pipeline, FiniteSetTheorems, TLAPS

\* The combinator at position i of the stack waits for an answer of the one it
\* asked, which is the next on the stack or the one that has just returned.
Waits(i) == i < Len(stack) \/ ret # Calling
Asked(i) == IF i < Len(stack) THEN stack[i + 1] ELSE from

\* It is a GroupBy that waits for one of its sub batches.
OnBranch(i) ==
  Waits(i) /\ Kind[stack[i]] = "group_by" /\ Asked(i) \in Branches[stack[i]]

\* Calls go down the tree, from the root; between two runs there are none.
StackInv ==
  /\ phase # "pull" => stack = <<>> /\ ret = Calling
  /\ phase = "pull" /\ stack = <<>> => ret # Calling /\ from = Root
  /\ stack # <<>> => stack[1] = Root
  /\ \A i \in DOMAIN stack : Waits(i) => Asked(i) \in Calls(stack[i])

\* Only a Replace has a slot and only a GroupBy has a queue, of dispositions.
StoreInv ==
  /\ \A n \in Node : slot[n] # {} => Kind[n] = "replace"
  /\ \A n \in Node : fanouts[n] # <<>> => Kind[n] = "group_by"
  /\ \A n \in Node : \A i \in DOMAIN fanouts[n] :
       fanouts[n][i].tag \notin {"none", "call"}
  /\ \A i \in DOMAIN stack : Waits(i) =>
       /\ slot[stack[i]] = {}
       /\ ~OnBranch(i) => fanouts[stack[i]] = <<>>

\* A packet is in a bridge only while a sub batch of the GroupBy is asked.
BridgeInv ==
  \A n \in Node : bridge[n] # {} =>
    \E i \in DOMAIN stack : stack[i] = n /\ OnBranch(i)

\* The packet a sub batch was fed has come out of it, waits in the bridge, or
\* is further down: in a disposition that is returned, or fed to a sub batch
\* of another GroupBy.
YieldInv ==
  \A i \in DOMAIN stack : OnBranch(i) =>
    \/ fanouts[stack[i]] # <<>>
    \/ bridge[stack[i]] # {}
    \/ ret.tag \notin {"none", "call"}
    \/ \E j \in DOMAIN stack : i < j /\ OnBranch(j)

\* A combinator that answers None has nothing left, nor has any above it.
NoneInv ==
  ret.tag = "none" =>
    \A n \in Chain[from] :
      /\ slot[n] = {} /\ fanouts[n] = <<>>
      /\ Kind[n] = "poll" => packets = <<>>
      /\ Kind[n] = "bridge" => bridge[Up[n]] = {}

\* A combinator keeps something only if it is on the chain of Send or of a sub
\* batch that is being asked, and so are the calls.
Live(n, k) ==
  \/ n \in Chain[Root]
  \/ \E i \in DOMAIN stack : i < k /\ OnBranch(i) /\ n \in Chain[Asked(i)]

HeldInv ==
  /\ \A n \in Node : slot[n] # {} \/ fanouts[n] # <<>> => Live(n, Len(stack) + 1)
  /\ \A k \in DOMAIN stack : Live(stack[k], k)

-----------------------------------------------------------------------------
(* Sequences *)

\* The innermost call, and the calls below it.
LEMMA LastFront ==
  ASSUME NEW T, NEW s \in Seq(T), s # <<>>
  PROVE  /\ Len(s) \in Nat \ {0}
         /\ Last(s) = s[Len(s)] /\ Last(s) \in T
         /\ Front(s) \in Seq(T) /\ Len(Front(s)) = Len(s) - 1
         /\ \A i \in 1 .. Len(s) - 1 : Front(s)[i] = s[i]
BY DEF Last, Front

\* The head is the first element, the tail the others.
LEMMA HeadTail ==
  ASSUME NEW T, NEW s \in Seq(T), s # <<>>
  PROVE  /\ Len(s) \in Nat \ {0}
         /\ Head(s) = s[1] /\ Head(s) \in T
         /\ Tail(s) \in Seq(T) /\ Len(Tail(s)) = Len(s) - 1
         /\ \A i \in 1 .. Len(s) - 1 : Tail(s)[i] = s[i + 1]
OBVIOUS

\* What Append makes of a sequence, element by element.
LEMMA AppendFacts ==
  ASSUME NEW T, NEW s \in Seq(T), NEW e \in T
  PROVE  /\ Append(s, e) \in Seq(T)
         /\ Len(s) \in Nat /\ Len(Append(s, e)) = Len(s) + 1
         /\ Append(s, e)[Len(s) + 1] = e
         /\ \A i \in 1 .. Len(s) : Append(s, e)[i] = s[i]
OBVIOUS

\* A burst takes the first k elements and leaves the others.
LEMMA Cut ==
  ASSUME NEW T, NEW s \in Seq(T), NEW k \in 1 .. Len(s)
  PROVE  /\ SubSeq(s, 1, k) \in Seq(T) /\ Len(SubSeq(s, 1, k)) = k
         /\ \A i \in 1 .. k : SubSeq(s, 1, k)[i] = s[i]
         /\ SubSeq(s, k + 1, Len(s)) \in Seq(T)
         /\ Len(SubSeq(s, k + 1, Len(s))) = Len(s) - k
         /\ \A i \in 1 .. Len(s) - k : SubSeq(s, k + 1, Len(s))[i] = s[k + i]
<1>1. /\ SubSeq(s, 1, k) \in Seq(T) /\ Len(SubSeq(s, 1, k)) = k
      /\ \A i \in 1 .. k : SubSeq(s, 1, k)[i] = s[i]
  OBVIOUS
<1>2. /\ SubSeq(s, k + 1, Len(s)) \in Seq(T)
      /\ Len(SubSeq(s, k + 1, Len(s))) = Len(s) - k
      /\ \A i \in 1 .. Len(s) - k : SubSeq(s, k + 1, Len(s))[i] = s[k + i]
  OBVIOUS
<1>3. QED
  BY <1>1, <1>2

\* What concatenation makes of two sequences, element by element.
LEMMA ConcatFacts ==
  ASSUME NEW T, NEW s \in Seq(T), NEW t \in Seq(T)
  PROVE  /\ s \o t \in Seq(T) /\ Len(s \o t) = Len(s) + Len(t)
         /\ Len(s) \in Nat /\ Len(t) \in Nat
         /\ \A i \in 1 .. Len(s) : (s \o t)[i] = s[i]
         /\ \A i \in 1 .. Len(t) : (s \o t)[Len(s) + i] = t[i]
OBVIOUS

\* A disposition has one packet; it makes a sequence of one.
LEMMA SequenceOfOne ==
  ASSUME NEW T, NEW m \in T
  PROVE  SetToSeq({m}) = <<m>>
<1>1. Cardinality({m}) = 1
  BY FS_Singleton
<1>2. ASSUME NEW f \in [1 .. 1 -> {m}] PROVE f = <<m>>
  OBVIOUS
<1>3. <<m>> \in [1 .. 1 -> {m}] /\ IsInjective(<<m>>)
  BY DEF IsInjective
<1>4. SetToSeq({m}) \in [1 .. 1 -> {m}]
  BY <1>1, <1>3 DEF SetToSeq
<1>5. QED
  BY <1>2, <1>4

-----------------------------------------------------------------------------
(* Type correctness *)

\* A disposition has one packet if it is an Act or a Drop and none otherwise.
LEMMA DispositionFacts ==
  ASSUME NEW d \in Disposition
  PROVE  /\ d.tag \in {"act", "drop", "emit", "abort", "none", "call"}
         /\ d.pkt \in SUBSET Mbuf
         /\ d.tag \in {"act", "drop"} => \E m \in Mbuf : d.pkt = {m}
         /\ d.tag \notin {"act", "drop"} => d.pkt = {}
         /\ d.tag = "none" <=> d = Exhausted
         /\ d.tag = "call" <=> d = Calling
BY DEF Disposition, Emitted, Aborted, Exhausted, Calling

\* The dispositions that the combinators make are dispositions.
LEMMA Dispositions ==
  /\ Exhausted \in Disposition /\ Aborted \in Disposition
  /\ Emitted \in Disposition /\ Calling \in Disposition
  /\ \A m \in Mbuf : Act({m}) \in Disposition /\ DropOf({m}) \in Disposition
BY DEF Disposition, Emitted, Aborted, Exhausted, Calling, Act, DropOf

\* What a closure makes of an Act that it does not abort.
LEMMA Retagged ==
  ASSUME NEW d \in Disposition, d.tag = "act", NEW tag \in {"act", "drop"}
  PROVE  [d EXCEPT !.tag = tag] \in Disposition
BY DEF Disposition, Emitted, Aborted, Exhausted, Calling

\* The packet of an Act, for the position that a replacement inherits.
LEMMA PacketOf ==
  ASSUME NEW d \in Disposition, d.tag = "act"
  PROVE  (CHOOSE m \in d.pkt : TRUE) \in Mbuf
<1>1. PICK m \in Mbuf : d.pkt = {m}
  BY DispositionFacts
<1>2. QED
  BY <1>1

\* An option is a set of packets, of one if it is not empty.
LEMMA OptionFacts ==
  ASSUME NEW o \in Option
  PROVE  o \in SUBSET Mbuf /\ (o # {} => \E m \in Mbuf : o = {m})
BY DEF Option

\* The assumptions on the tree, combinator by combinator.
LEMMA Kindly ==
  /\ \A n \in Node : Kind[n] \in Kinds /\ Up[n] \in Node
                     /\ Branches[n] \in SUBSET Node
  /\ Root \in Node
  /\ \A k \in DOMAIN Outcomes : Outcomes[k] \subseteq {"act", "drop", "abort"}
BY PipelineAssumption DEF Outcomes

\* The combinator at work is one of the pipeline, and what it returns to is
\* what is left of the stack.
LEMMA CallTypes ==
  ASSUME stack \in Seq(Node), from \in Node
  PROVE  /\ Running => Top \in Node /\ Up[Top] \in Node
         /\ \A d : Running /\ Give(d)
              => stack' \in Seq(Node) /\ ret' = d /\ from' \in Node
         /\ \A n \in Node : Enter(n)
              => stack' \in Seq(Node) /\ ret' = Calling /\ from' \in Node
BY LastFront, AppendFacts, Kindly DEF Running, Top, Give, Enter

CallsOK == phase \in {"idle", "pull", "transmit", "reap"}
           /\ stack \in Seq(Node) /\ ret \in Disposition /\ from \in Node
PartsOK == packets \in Seq(Mbuf) /\ slot \in [Node -> Option]
           /\ bridge \in [Node -> Option] /\ fanouts \in [Node -> Seq(Disposition)]
RestOK ==
  /\ transmit_q \in Seq(Mbuf) /\ drop_q \in Seq(Mbuf)
  /\ emitted \in Nat /\ aborted \in Nat
  /\ free \in SUBSET Mbuf
  /\ rxring \in Seq(Mbuf) /\ txring \in Seq(Mbuf)
  /\ channel \in Seq(SUBSET Mbuf) /\ kni_ptrs \in SUBSET Mbuf
  /\ rank \in [Mbuf -> Nat] /\ entered \in Nat

\* A step keeps the types of the calls: the stack, what is returned, by whom.
LEMMA CallsTyped ==
  ASSUME TypeOK, [Next]_vars
  PROVE  CallsOK'
<1> USE DEF TypeOK, CallsOK
<1> USE CallTypes

<1>1. CASE PollNext
  <2>1. \/ Running /\ Give(Exhausted)
        \/ Running /\ packets # <<>> /\ Give(Act({Head(packets)}))
    BY <1>1, Zenon DEF PollNext, Called
  <2>2. packets # <<>> => Act({Head(packets)}) \in Disposition
    BY HeadTail, Dispositions
  <2>3. ret' \in Disposition
    BY <2>1, <2>2, Dispositions DEF Give
  <2>4. QED
    BY <1>1, <2>1, <2>3 DEF PollNext
<1>2. CASE BridgeNext
  <2>1. bridge[Up[Top]] = {} \/ Act(bridge[Up[Top]]) \in Disposition
    BY <1>2, Dispositions, OptionFacts DEF BridgeNext, Called
  <2>2. ret' \in Disposition
    BY <1>2, <2>1, Dispositions DEF BridgeNext, Give
  <2>3. QED
    BY <1>2, <2>2 DEF BridgeNext, Called
<1>3. CASE SlotNext
  <2>1. DropOf(slot[Top]) \in Disposition
    BY <1>3, Dispositions, OptionFacts DEF SlotNext, Called
  <2>2. QED
    BY <1>3, <2>1 DEF SlotNext, Called
<1>4. CASE FanoutNext
  BY <1>4, HeadTail
     DEF FanoutNext, Called, calls, parts, results, devices, history
<1>5. CASE Ask
  BY <1>5, Dispositions
     DEF Ask, Called, calls, parts, results, devices, history
<1>6. CASE PassOn
  BY <1>6 DEF PassOn, Answered, calls, parts, results, devices, history
<1>7. CASE Apply
  <2>1. PICK tag \in Outcomes[Kind[Top]] :
          \/ tag = "abort" /\ Give(Aborted)
          \/ tag # "abort" /\ Give([ret EXCEPT !.tag = tag])
    BY <1>7 DEF Apply
  <2>2. tag \in {"act", "drop", "abort"} /\ Running /\ ret.tag = "act"
    BY <1>7, Kindly DEF Apply, Answered
  <2>3. tag # "abort" => [ret EXCEPT !.tag = tag] \in Disposition
    BY <2>2, Retagged
  <2>4. ret' \in Disposition
    BY <2>1, <2>3, Dispositions DEF Give
  <2>5. stack' \in Seq(Node) /\ from' \in Node
    BY <2>1, <2>2
  <2>6. QED
    BY <1>7, <2>4, <2>5 DEF Apply
<1>8. CASE Emit
  BY <1>8, Dispositions
     DEF Emit, Answered, calls, parts, results, devices, history
<1>9. CASE Replace
  <2>1. Running /\ (Give(Aborted) \/ \E n \in free : Give(Act({n})))
    BY <1>9 DEF Replace, Answered
  <2>2. ret' \in Disposition
    BY <2>1, Dispositions DEF Give
  <2>3. stack' \in Seq(Node) /\ from' \in Node
    BY <2>1
  <2>4. QED
    BY <1>9, <2>2, <2>3 DEF Replace
<1>10. CASE Split
  BY <1>10, Dispositions, Kindly
     DEF Split, Answered, calls, parts, results, devices, history
<1>11. CASE Gather
  BY <1>11, Dispositions
     DEF Gather, FromBranch, calls, parts, results, devices, history
<1>12. CASE Merge
  BY <1>12, HeadTail
     DEF Merge, FromBranch, Running, calls, parts, results, devices,
         history
<1>13. CASE Take
  BY <1>13, Dispositions, Kindly
     DEF Take, calls, parts, results, devices, history
<1>14. CASE EndPull
  BY <1>14, Dispositions DEF EndPull, calls, parts, results, devices, history
<1>15. CASE Receive
  BY <1>15, Dispositions, Kindly
     DEF Receive, calls, parts, results, devices, history
<1>16. CASE TxBurst
  BY <1>16 DEF TxBurst, calls, parts, results, devices, history
<1>17. CASE TxGiveUp
  BY <1>17 DEF TxGiveUp, calls, parts, results, devices, history
<1>18. CASE Reap
  BY <1>18 DEF Reap, calls, parts, results, devices, history
<1>19. CASE NicReceive
  BY <1>19 DEF NicReceive, calls, parts, results, devices, history
<1>20. CASE NicTransmit
  BY <1>20 DEF NicTransmit, calls, parts, results, devices, history
<1>21. CASE KniTake
  BY <1>21 DEF KniTake, calls, parts, results, devices, history
<1>22. CASE KniGiveUp
  BY <1>22 DEF KniGiveUp, calls, parts, results, devices, history
<1>23. CASE UNCHANGED vars
  BY <1>23 DEF vars, calls, parts, results, devices, history
<1>24. QED
  BY <1>1, <1>2, <1>3, <1>4, <1>5, <1>6, <1>7, <1>8, <1>9, <1>10, <1>11,
     <1>12, <1>13, <1>14, <1>15, <1>16, <1>17, <1>18, <1>19, <1>20, <1>21,
     <1>22, <1>23
     DEF Next, RunStep, NextDisposition

\* A step keeps the types of what the combinators keep.
LEMMA PartsTyped ==
  ASSUME TypeOK, [Next]_vars
  PROVE  PartsOK'
<1> USE DEF TypeOK, PartsOK
<1> USE CallTypes

<1>1. CASE PollNext
  BY <1>1, HeadTail
     DEF PollNext, Called, calls, parts, results, devices, history
<1>2. CASE BridgeNext
  BY <1>2, Dispositions
     DEF BridgeNext, Called, Option, calls, parts, results, devices,
         history
<1>3. CASE SlotNext
  BY <1>3
     DEF SlotNext, Called, Option, calls, parts, results, devices,
         history
<1>4. CASE FanoutNext
  BY <1>4, HeadTail
     DEF FanoutNext, Called, calls, parts, results, devices, history
<1>5. CASE Ask
  BY <1>5 DEF Ask, Called, calls, parts, results, devices, history
<1>6. CASE PassOn
  BY <1>6 DEF PassOn, Answered, calls, parts, results, devices, history
<1>7. CASE Apply
  BY <1>7 DEF Apply, Answered, calls, parts, results, devices, history
<1>8. CASE Emit
  BY <1>8 DEF Emit, Answered, calls, parts, results, devices, history
<1>9. CASE Replace
  <2>1. ret.pkt \in Option /\ Top \in Node
    BY <1>9, DispositionFacts DEF Replace, Answered, Option
  <2>2. slot' = [slot EXCEPT ![Top] = ret.pkt] \/ slot' = slot
    BY <1>9 DEF Replace
  <2>3. slot' \in [Node -> Option]
    BY <2>1, <2>2
  <2>4. QED
    BY <1>9, <2>3 DEF Replace
<1>10. CASE Split
  BY <1>10, DispositionFacts
     DEF Split, Answered, Option, calls, parts, results, devices,
         history
<1>11. CASE Gather
  BY <1>11, AppendFacts
     DEF Gather, FromBranch, Running, calls, parts, results, devices,
         history
<1>12. CASE Merge
  BY <1>12, HeadTail
     DEF Merge, FromBranch, Running, calls, parts, results, devices,
         history
<1>13. CASE Take
  BY <1>13 DEF Take, calls, parts, results, devices, history
<1>14. CASE EndPull
  BY <1>14 DEF EndPull, calls, parts, results, devices, history
<1>15. CASE Receive
  BY <1>15, Cut DEF Receive, calls, parts, results, devices, history
<1>16. CASE TxBurst
  BY <1>16 DEF TxBurst, calls, parts, results, devices, history
<1>17. CASE TxGiveUp
  BY <1>17 DEF TxGiveUp, calls, parts, results, devices, history
<1>18. CASE Reap
  BY <1>18 DEF Reap, calls, parts, results, devices, history
<1>19. CASE NicReceive
  BY <1>19 DEF NicReceive, calls, parts, results, devices, history
<1>20. CASE NicTransmit
  BY <1>20 DEF NicTransmit, calls, parts, results, devices, history
<1>21. CASE KniTake
  BY <1>21 DEF KniTake, calls, parts, results, devices, history
<1>22. CASE KniGiveUp
  BY <1>22 DEF KniGiveUp, calls, parts, results, devices, history
<1>23. CASE UNCHANGED vars
  BY <1>23 DEF vars, calls, parts, results, devices, history
<1>24. QED
  BY <1>1, <1>2, <1>3, <1>4, <1>5, <1>6, <1>7, <1>8, <1>9, <1>10, <1>11,
     <1>12, <1>13, <1>14, <1>15, <1>16, <1>17, <1>18, <1>19, <1>20, <1>21,
     <1>22, <1>23
     DEF Next, RunStep, NextDisposition

\* A step keeps the types of the queues of Send and of the devices.
LEMMA RestTyped ==
  ASSUME TypeOK, [Next]_vars
  PROVE  RestOK'
<1> USE DEF TypeOK, RestOK

<1>1. CASE PollNext
  BY <1>1 DEF PollNext, Called, calls, parts, results, devices, history
<1>2. CASE BridgeNext
  BY <1>2 DEF BridgeNext, Called, calls, parts, results, devices, history
<1>3. CASE SlotNext
  BY <1>3 DEF SlotNext, Called, calls, parts, results, devices, history
<1>4. CASE FanoutNext
  BY <1>4 DEF FanoutNext, Called, calls, parts, results, devices, history
<1>5. CASE Ask
  BY <1>5 DEF Ask, Called, calls, parts, results, devices, history
<1>6. CASE PassOn
  BY <1>6 DEF PassOn, Answered, calls, parts, results, devices, history
<1>7. CASE Apply
  BY <1>7, DispositionFacts
     DEF Apply, Answered, calls, parts, results, devices, history
<1>8. CASE Emit
  BY <1>8, DispositionFacts, AppendFacts
     DEF Emit, Answered, calls, parts, results, devices, history
<1>9. CASE Replace
  <2>1. ret.tag = "act" /\ ret.pkt \in SUBSET Mbuf
    BY <1>9, DispositionFacts DEF Replace
  <2>2. (CHOOSE m \in ret.pkt : TRUE) \in Mbuf
    BY <2>1, PacketOf
  <2>3. free' \in SUBSET Mbuf /\ entered' \in Nat
    <3>1. \/ (\E n \in free : free' = free \ {n}) /\ entered' = entered + 1
          \/ free' = free \union ret.pkt /\ entered' = entered
      BY <1>9, Zenon DEF Replace
    <3>2. QED
      BY <2>1, <3>1
  <2>4. rank' \in [Mbuf -> Nat]
    BY <1>9, <2>2 DEF Replace
  <2>5. QED
    BY <1>9, <2>3, <2>4 DEF Replace, results, devices
<1>10. CASE Split
  BY <1>10, DispositionFacts, OptionFacts, CallTypes
     DEF Split, Answered, calls, parts, results, devices, history
<1>11. CASE Gather
  BY <1>11 DEF Gather, FromBranch, calls, parts, results, devices, history
<1>12. CASE Merge
  BY <1>12 DEF Merge, FromBranch, calls, parts, results, devices, history
<1>13. CASE Take
  <2>1. ret.tag \in {"act", "drop"} => SetToSeq(ret.pkt) \in Seq(Mbuf)
    <3> SUFFICES ASSUME ret.tag \in {"act", "drop"}
                 PROVE  SetToSeq(ret.pkt) \in Seq(Mbuf)
      OBVIOUS
    <3>1. PICK m \in Mbuf : ret.pkt = {m}
      BY DispositionFacts
    <3>2. <<m>> \in Seq(Mbuf)
      OBVIOUS
    <3>3. QED
      BY <3>1, <3>2, SequenceOfOne
  <2>2. transmit_q' \in Seq(Mbuf) /\ drop_q' \in Seq(Mbuf)
    <3>1. \/ ret.tag = "act" /\ transmit_q' = transmit_q \o SetToSeq(ret.pkt)
                           /\ drop_q' = drop_q
          \/ ret.tag = "drop" /\ drop_q' = drop_q \o SetToSeq(ret.pkt)
                            /\ transmit_q' = transmit_q
          \/ transmit_q' = transmit_q /\ drop_q' = drop_q
      BY <1>13 DEF Take
    <3>2. ret.tag \in {"act", "drop"} =>
            /\ transmit_q \o SetToSeq(ret.pkt) \in Seq(Mbuf)
            /\ drop_q \o SetToSeq(ret.pkt) \in Seq(Mbuf)
      BY <2>1, ConcatFacts
    <3>3. QED
      BY <3>1, <3>2
  <2>3. emitted' \in Nat /\ aborted' \in Nat
    BY <1>13 DEF Take
  <2>4. QED
    BY <1>13, <2>2, <2>3 DEF Take, devices, history
<1>14. CASE EndPull
  BY <1>14 DEF EndPull, calls, parts, results, devices, history
<1>15. CASE Receive
  <2>1. PICK k \in 1 .. Len(rxring) :
          /\ packets' = SubSeq(rxring, 1, k)
          /\ rxring' = SubSeq(rxring, k + 1, Len(rxring))
          /\ rank' = [m \in Mbuf |-> IF m \in Range(packets')
                                     THEN CHOOSE i \in 1 .. k : rxring[i] = m
                                     ELSE 0]
          /\ entered' = k
    BY <1>15 DEF Receive
  <2>2. rxring' \in Seq(Mbuf) /\ entered' \in Nat
    BY <2>1, Cut
  <2>3. ASSUME NEW m \in Range(packets')
        PROVE  (CHOOSE i \in 1 .. k : rxring[i] = m) \in Nat
    <3>1. \E i \in 1 .. k : rxring[i] = m
      BY <2>1, <2>3, Cut DEF Range
    <3>2. 1 .. k \subseteq Nat
      OBVIOUS
    <3>3. (CHOOSE i \in 1 .. k : rxring[i] = m) \in 1 .. k
      BY <3>1, Zenon
    <3>4. QED
      BY <3>2, <3>3
  <2>4. rank' \in [Mbuf -> Nat]
    BY <2>1, <2>3
  <2>5. QED
    BY <1>15, <2>2, <2>4 DEF Receive
<1>16. CASE TxBurst
  <2>1. PICK k \in 1 .. Len(transmit_q) :
          /\ txring' = txring \o SubSeq(transmit_q, 1, k)
          /\ transmit_q' = SubSeq(transmit_q, k + 1, Len(transmit_q))
    BY <1>16 DEF TxBurst
  <2>2. SubSeq(transmit_q, 1, k) \in Seq(Mbuf) /\ transmit_q' \in Seq(Mbuf)
    BY <2>1, Cut
  <2>3. txring' \in Seq(Mbuf)
    BY <2>1, <2>2, ConcatFacts
  <2>4. QED
    BY <1>16, <2>2, <2>3 DEF TxBurst, history
<1>17. CASE TxGiveUp
  BY <1>17 DEF TxGiveUp, Range, calls, parts, results, devices, history
<1>18. CASE Reap
  BY <1>18 DEF Reap, Range, calls, parts, results, devices, history
<1>19. CASE NicReceive
  BY <1>19, AppendFacts
     DEF NicReceive, calls, parts, results, devices, history
<1>20. CASE NicTransmit
  BY <1>20, HeadTail DEF NicTransmit, calls, parts, results, devices, history
<1>21. CASE KniTake
  BY <1>21, HeadTail DEF KniTake, calls, parts, results, devices, history
<1>22. CASE KniGiveUp
  BY <1>22 DEF KniGiveUp, calls, parts, results, devices, history
<1>23. CASE UNCHANGED vars
  BY <1>23 DEF vars, calls, parts, results, devices, history
<1>24. QED
  BY <1>1, <1>2, <1>3, <1>4, <1>5, <1>6, <1>7, <1>8, <1>9, <1>10, <1>11,
     <1>12, <1>13, <1>14, <1>15, <1>16, <1>17, <1>18, <1>19, <1>20, <1>21,
     <1>22, <1>23
     DEF Next, RunStep, NextDisposition

\* A step keeps every type.
LEMMA TypeStep == TypeOK /\ [Next]_vars => TypeOK'
BY CallsTyped, PartsTyped, RestTyped DEF TypeOK, CallsOK, PartsOK, RestOK

-----------------------------------------------------------------------------
(* Calls and returns *)

\* The top of the stack is its last element; it waits unless it has just been
\* called.
LEMMA TopIsLast ==
  ASSUME TypeOK, Running
  PROVE  /\ Len(stack) \in Nat \ {0} /\ Len(stack) \in DOMAIN stack
         /\ DOMAIN stack = 1 .. Len(stack) /\ Top = stack[Len(stack)]
         /\ ret # Calling => Waits(Len(stack)) /\ Asked(Len(stack)) = from
         /\ ret = Calling => ~Waits(Len(stack))
<1>1. stack \in Seq(Node) /\ stack # <<>>
  BY DEF TypeOK, Running
<1>2. /\ Len(stack) \in Nat \ {0} /\ Len(stack) \in DOMAIN stack
      /\ DOMAIN stack = 1 .. Len(stack) /\ Top = stack[Len(stack)]
  <2>1. Len(stack) \in Nat \ {0} /\ Last(stack) = stack[Len(stack)]
    BY <1>1, LastFront
  <2>2. DOMAIN stack = 1 .. Len(stack)
    BY <1>1
  <2>3. QED
    BY <2>1, <2>2 DEF Top
<1>3. ~(Len(stack) < Len(stack))
  BY <1>2
<1>4. QED
  BY <1>2, <1>3 DEF Waits, Asked

\* A call: those that waited still do, for the same answer, and the caller
\* waits for the combinator it has called.
LEMMA Push ==
  ASSUME TypeOK, NEW n \in Node, Enter(n)
  PROVE  /\ Len(stack) \in Nat /\ Len(stack') = Len(stack) + 1
         /\ DOMAIN stack = 1 .. Len(stack)
         /\ DOMAIN stack' = 1 .. Len(stack) + 1
         /\ \A i \in 1 .. Len(stack) : stack'[i] = stack[i]
         /\ stack'[Len(stack) + 1] = n
         /\ \A i \in 1 .. Len(stack) : Waits(i)'
         /\ \A i \in DOMAIN stack' : i = Len(stack) + 1 => ~Waits(i)'
         /\ \A i \in DOMAIN stack : i = Len(stack) => Asked(i)' = n
         /\ \A i \in 1 .. Len(stack) - 1 : Waits(i) /\ Asked(i)' = Asked(i)
<1>1. /\ Len(stack) \in Nat /\ Len(stack') = Len(stack) + 1
      /\ stack' \in Seq(Node) /\ stack'[Len(stack) + 1] = n
      /\ \A i \in 1 .. Len(stack) : stack'[i] = stack[i]
  BY AppendFacts DEF Enter, TypeOK
<1>2. ret' = Calling
  BY DEF Enter
<1>3. DOMAIN stack = 1 .. Len(stack) /\ DOMAIN stack' = 1 .. Len(stack) + 1
  BY <1>1 DEF TypeOK
<1>4. \A i \in DOMAIN stack : i = Len(stack) => Asked(i)' = n
  BY <1>1, <1>3 DEF Asked
<1>5. \A i \in 1 .. Len(stack) - 1 : Asked(i)' = Asked(i)
  BY <1>1 DEF Asked
<1>6. QED
  BY <1>1, <1>2, <1>3, <1>4, <1>5 DEF Waits

\* A return: those that waited still do, for the same answer; the caller, if
\* there is one, has it.
LEMMA Pop ==
  ASSUME TypeOK, Running, NEW d, Give(d), d # Calling
  PROVE  /\ Len(stack) \in Nat \ {0} /\ Len(stack') = Len(stack) - 1
         /\ DOMAIN stack = 1 .. Len(stack)
         /\ DOMAIN stack' = 1 .. Len(stack) - 1
         /\ \A i \in 1 .. Len(stack) - 1 :
              /\ stack'[i] = stack[i]
              /\ Waits(i) /\ Waits(i)' /\ Asked(i)' = Asked(i)
<1>1. /\ Len(stack) \in Nat \ {0} /\ Len(stack') = Len(stack) - 1
      /\ stack' \in Seq(Node)
      /\ \A i \in 1 .. Len(stack) - 1 : stack'[i] = stack[i]
  BY LastFront DEF Give, Running, TypeOK
<1>2. ret' = d /\ from' = stack[Len(stack)]
  BY LastFront DEF Give, Running, TypeOK, Top
<1>3. DOMAIN stack = 1 .. Len(stack) /\ DOMAIN stack' = 1 .. Len(stack) - 1
  BY <1>1 DEF TypeOK
<1>4. \A i \in 1 .. Len(stack) - 1 : Asked(i)' = Asked(i)
  BY <1>1, <1>2 DEF Asked
<1>5. QED
  BY <1>1, <1>2, <1>3, <1>4 DEF Waits

\* What a GroupBy waits for is the same as long as it waits.
LEMMA PushBranches ==
  ASSUME TypeOK, NEW n \in Node, Enter(n)
  PROVE  /\ \A i \in 1 .. Len(stack) - 1 : OnBranch(i)' <=> OnBranch(i)
         /\ \A i \in DOMAIN stack : i = Len(stack) =>
              (OnBranch(i)' <=> Kind[stack[i]] = "group_by"
                                  /\ n \in Branches[stack[i]])
         /\ \A i \in DOMAIN stack' : i = Len(stack) + 1 => ~OnBranch(i)'
BY Push DEF OnBranch

\* A return leaves the sub batches asked below it as they were.
LEMMA PopBranches ==
  ASSUME TypeOK, Running, NEW d, Give(d), d # Calling
  PROVE  \A i \in 1 .. Len(stack) - 1 : OnBranch(i)' <=> OnBranch(i)
BY Pop DEF OnBranch

\* No combinator is called twice at a time, for calls never come back.
LEMMA NoneTwice ==
  ASSUME TypeOK, StackInv, NEW i \in DOMAIN stack, NEW j \in DOMAIN stack, i < j
  PROVE  stack[i] # stack[j]
<1> SUFFICES ASSUME stack[i] = stack[j] PROVE FALSE
  OBVIOUS
<1> DEFINE S == {stack[k] : k \in i .. j - 1}
<1>1. DOMAIN stack = 1 .. Len(stack) /\ Len(stack) \in Nat
  BY DEF TypeOK
<1>2. S \in SUBSET Node /\ S # {}
  <2>1. i \in i .. j - 1 /\ i .. j - 1 \subseteq DOMAIN stack
    BY <1>1
  <2>2. stack[i] \in S
    BY <2>1
  <2>3. \A k \in DOMAIN stack : stack[k] \in Node
    BY <1>1 DEF TypeOK
  <2>4. QED
    BY <2>1, <2>2, <2>3
<1>3. PICK n \in S : Calls(n) \intersect S = {}
  BY <1>2, TreeAssumption
<1>4. PICK k \in i .. j - 1 : n = stack[k]
  BY <1>3
<1>5. stack[k + 1] \in S
  <2>1. CASE k + 1 = j
    BY <2>1, <1>1
  <2>2. CASE k + 1 # j
    BY <2>2, <1>1
  <2>3. QED
    BY <2>1, <2>2
<1>6. stack[k + 1] \in Calls(stack[k])
  BY <1>1 DEF StackInv, Waits, Asked
<1>7. QED
  BY <1>3, <1>4, <1>5, <1>6

-----------------------------------------------------------------------------
(* The steps by what they do to the calls *)

ReturnStep ==
  \/ PollNext \/ BridgeNext \/ SlotNext \/ FanoutNext \/ PassOn
  \/ Apply \/ Emit \/ Replace \/ Merge
AskStep == Ask \/ Split \/ Gather \/ Take \/ Receive

Returns(d) == Running /\ Give(d) /\ d # Calling /\ phase' = "pull"
Asks(n) ==
  /\ Enter(n) /\ phase' = "pull"
  /\ stack = <<>> => n = Root
  /\ stack # <<>> => Running /\ n \in Calls(Top)

\* Steps that have nothing to do with the calls: the devices and the queues of
\* Send::run.
Aside == UNCHANGED <<calls, parts>> /\ (phase' = "pull" <=> phase = "pull")

\* A step of the pipeline returns, asks, ends the loop or leaves the calls alone.
LEMMA StepClasses ==
  ASSUME [Next]_vars
  PROVE  ReturnStep \/ AskStep \/ EndPull \/ Aside
<1>1. CASE RunStep
  BY <1>1 DEF RunStep, NextDisposition, ReturnStep, AskStep, Aside,
       TxBurst, TxGiveUp, Reap
<1>2. CASE NicReceive \/ NicTransmit \/ KniTake \/ KniGiveUp
  BY <1>2 DEF NicReceive, NicTransmit, KniTake, KniGiveUp, Aside
<1>3. CASE UNCHANGED vars
  BY <1>3 DEF vars, Aside
<1>4. QED
  BY <1>1, <1>2, <1>3 DEF Next, AskStep

\* A combinator that is called, or has its answer from upstream, does not wait
\* for a sub batch.
LEMMA NotOnBranch ==
  ASSUME TypeOK, NEW kinds, Called(kinds) \/ Answered(kinds)
  PROVE  Running /\ ~OnBranch(Len(stack))
<1>1. Running /\ (ret = Calling \/ from = Up[Top])
  BY DEF Called, Answered
<1>2. CASE ret = Calling
  BY <1>1, <1>2, TopIsLast DEF OnBranch
<1>3. CASE ret # Calling /\ from = Up[Top]
  <2>1. Asked(Len(stack)) = Up[Top] /\ stack[Len(stack)] = Top /\ Top \in Node
    BY <1>1, <1>3, TopIsLast, CallTypes DEF TypeOK
  <2>2. Kind[Top] = "group_by" => Up[Top] \notin Branches[Top]
    BY <2>1, TreeAssumption
  <2>3. QED
    BY <1>1, <2>1, <2>2 DEF OnBranch
<1>4. QED
  BY <1>1, <1>2, <1>3

\* The tags of the dispositions that have no packet, and of those that have one.
LEMMA Tags ==
  /\ Exhausted.tag = "none" /\ Calling.tag = "call"
  /\ Emitted.tag = "emit" /\ Aborted.tag = "abort"
  /\ Exhausted # Calling /\ Emitted # Calling /\ Aborted # Calling
  /\ \A S : /\ Act(S).tag = "act" /\ DropOf(S).tag = "drop"
            /\ Act(S) # Calling /\ DropOf(S) # Calling
BY DEF Act, DropOf, Emitted, Aborted, Exhausted, Calling

\* Every return, with what it returns: None comes from a Poll or a Bridge that
\* has nothing, or is passed on.
LEMMA ReturnFacts ==
  ASSUME TypeOK, StoreInv, ReturnStep
  PROVE  \E d : /\ Returns(d)
                /\ d.tag # "call"
                /\ d.tag = "none" => PollNext \/ BridgeNext \/ PassOn
<1> USE Tags DEF Returns
<1>1. CASE PollNext
  BY <1>1, Zenon DEF PollNext, Called, Running
<1>2. CASE BridgeNext
  <2> DEFINE d == IF bridge[Up[Top]] = {} THEN Exhausted
                                          ELSE Act(bridge[Up[Top]])
  <2>1. Running /\ Give(d) /\ phase' = "pull"
    BY <1>2 DEF BridgeNext, Called, Running
  <2>2. d # Calling /\ d.tag # "call"
    OBVIOUS
  <2>3. QED
    BY <1>2, <2>1, <2>2
<1>3. CASE SlotNext
  BY <1>3 DEF SlotNext, Called, Running
<1>4. CASE FanoutNext \/ Merge
  <2>1. Running /\ Give(Head(fanouts[Top])) /\ phase' = "pull" /\ fanouts[Top] # <<>>
    BY <1>4 DEF FanoutNext, Called, Merge, FromBranch, Running
  <2>2. Top \in Node
    BY <2>1, CallTypes DEF TypeOK
  <2>3. fanouts[Top] \in Seq(Disposition)
    BY <2>2 DEF TypeOK
  <2>4. Head(fanouts[Top]) = fanouts[Top][1] /\ 1 \in DOMAIN fanouts[Top]
    BY <2>1, <2>3, HeadTail
  <2>5. Head(fanouts[Top]).tag \notin {"none", "call"}
    BY <2>2, <2>4 DEF StoreInv
  <2>6. QED
    BY <2>1, <2>5
<1>5. CASE PassOn
  BY <1>5, DispositionFacts DEF PassOn, Answered, Running, TypeOK
<1>6. CASE Apply
  <2>1. PICK tag \in Outcomes[Kind[Top]] :
          \/ tag = "abort" /\ Give(Aborted)
          \/ tag # "abort" /\ Give([ret EXCEPT !.tag = tag])
    BY <1>6 DEF Apply
  <2>2. tag \in {"act", "drop", "abort"} /\ Running /\ phase' = "pull"
    BY <1>6, Kindly DEF Apply, Answered, Running
  <2>3. [ret EXCEPT !.tag = tag].tag = tag
    BY DEF TypeOK, Disposition, Emitted, Aborted, Exhausted, Calling
  <2>4. [ret EXCEPT !.tag = tag] # Calling
    BY <2>2, <2>3
  <2>5. QED
    BY <2>1, <2>2, <2>3, <2>4
<1>7. CASE Emit
  BY <1>7 DEF Emit, Answered, Running
<1>8. CASE Replace
  BY <1>8, Zenon DEF Replace, Answered, Running
<1>9. QED
  BY <1>1, <1>2, <1>3, <1>4, <1>5, <1>6, <1>7, <1>8 DEF ReturnStep

\* Every call goes to a combinator that the caller may call.
LEMMA AskFacts ==
  ASSUME TypeOK, StackInv, AskStep
  PROVE  \E n \in Node : Asks(n)
<1>1. CASE Ask
  <2>1. Running /\ Top \in Node /\ Kind[Top] \in Waiting /\ Enter(Up[Top])
        /\ phase' = "pull"
    BY <1>1, CallTypes DEF Ask, Called, TypeOK, Running
  <2>2. Up[Top] \in Node /\ Up[Top] \in Calls(Top)
    BY <2>1, Kindly DEF Calls
  <2>3. QED
    BY <2>1, <2>2 DEF Asks, Running
<1>2. CASE Split \/ Gather
  <2>1. Running /\ Top \in Node /\ Kind[Top] = "group_by" /\ phase' = "pull"
        /\ \E b \in Branches[Top] : Enter(b)
    BY <1>2, CallTypes DEF Split, Gather, Answered, FromBranch, TypeOK, Running
  <2>2. PICK b \in Branches[Top] : Enter(b)
    BY <2>1
  <2>3. b \in Node /\ b \in Calls(Top)
    BY <2>1, Kindly DEF Calls
  <2>4. QED
    BY <2>1, <2>2, <2>3 DEF Asks, Running
<1>3. CASE Take \/ Receive
  BY <1>3, Kindly DEF Take, Receive, Asks, StackInv
<1>4. QED
  BY <1>1, <1>2, <1>3 DEF AskStep

-----------------------------------------------------------------------------
(* The stack is a path down the tree *)

\* A return takes one call off the path.
LEMMA ReturnKeepsStack ==
  ASSUME TypeOK, StackInv, NEW d, Returns(d)
  PROVE  StackInv'
<1>1. Running /\ Give(d) /\ d # Calling
  BY DEF Returns
<1>2. /\ Len(stack) \in Nat \ {0} /\ Len(stack') = Len(stack) - 1
      /\ DOMAIN stack = 1 .. Len(stack)
      /\ DOMAIN stack' = 1 .. Len(stack) - 1
      /\ \A i \in 1 .. Len(stack) - 1 :
           /\ stack'[i] = stack[i]
           /\ Waits(i) /\ Waits(i)' /\ Asked(i)' = Asked(i)
  BY <1>1, Pop
<1>3. phase' = "pull" /\ ret' = d /\ from' = stack[Len(stack)]
  BY <1>1, TopIsLast DEF Returns, Give
<1>4. stack' \in Seq(Node)
  BY <1>1, CallTypes DEF TypeOK
<1>5. stack' = <<>> => from' = Root
  <2>1. stack' = <<>> => Len(stack) = 1
    BY <1>2
  <2>2. QED
    BY <1>1, <1>3, <2>1 DEF StackInv, Running
<1>6. stack' # <<>> => stack'[1] = Root
  <2>1. stack' # <<>> => 1 \in 1 .. Len(stack) - 1
    BY <1>2, <1>4
  <2>2. QED
    BY <1>1, <1>2, <2>1 DEF StackInv, Running
<1>7. \A i \in DOMAIN stack' : Asked(i)' \in Calls(stack'[i])
  BY <1>2 DEF StackInv
<1>8. QED
  BY <1>1, <1>3, <1>5, <1>6, <1>7 DEF StackInv, Calls

\* A call goes one step further down the tree.
LEMMA AskKeepsStack ==
  ASSUME TypeOK, StackInv, NEW n \in Node, Asks(n)
  PROVE  StackInv'
<1>1. /\ Len(stack) \in Nat /\ Len(stack') = Len(stack) + 1
      /\ DOMAIN stack = 1 .. Len(stack)
      /\ DOMAIN stack' = 1 .. Len(stack) + 1
      /\ \A i \in 1 .. Len(stack) : stack'[i] = stack[i]
      /\ stack'[Len(stack) + 1] = n
      /\ \A i \in DOMAIN stack' : i = Len(stack) + 1 => ~Waits(i)'
      /\ \A i \in DOMAIN stack : i = Len(stack) => Asked(i)' = n
      /\ \A i \in 1 .. Len(stack) - 1 : Waits(i) /\ Asked(i)' = Asked(i)
  BY Push DEF Asks
<1>2. phase' = "pull" /\ stack' # <<>>
  BY <1>1 DEF Asks
<1>3. stack'[1] = Root
  <2>1. CASE stack = <<>>
    BY <2>1, <1>1 DEF Asks
  <2>2. CASE stack # <<>>
    <3>1. 1 \in 1 .. Len(stack)
      BY <2>2, <1>1 DEF TypeOK
    <3>2. QED
      BY <2>2, <3>1, <1>1 DEF StackInv
  <2>3. QED
    BY <2>1, <2>2
<1>4. ASSUME NEW i \in DOMAIN stack', Waits(i)'
      PROVE  Asked(i)' \in Calls(stack'[i])
  <2>1. i \in 1 .. Len(stack)
    BY <1>1, <1>4
  <2>2. CASE i = Len(stack)
    <3>1. stack # <<>> /\ Top = stack[i]
      BY <2>1, <2>2, TopIsLast DEF Asks
    <3>2. QED
      BY <3>1, <2>1, <2>2, <1>1 DEF Asks
  <2>3. CASE i # Len(stack)
    <3>1. i \in 1 .. Len(stack) - 1
      BY <2>1, <2>3, <1>1
    <3>2. QED
      BY <3>1, <2>1, <1>1 DEF StackInv
  <2>4. QED
    BY <2>2, <2>3
<1>5. QED
  BY <1>2, <1>3, <1>4 DEF StackInv, Calls

\* What does not touch the calls leaves them as they were.
LEMMA AsideCalls ==
  ASSUME Aside
  PROVE  /\ stack' = stack /\ ret' = ret /\ from' = from
         /\ packets' = packets /\ slot' = slot /\ bridge' = bridge
         /\ fanouts' = fanouts
         /\ \A i : /\ Waits(i)' <=> Waits(i)
                   /\ Asked(i)' = Asked(i)
                   /\ OnBranch(i)' <=> OnBranch(i)
<1>1. /\ stack' = stack /\ ret' = ret /\ from' = from
      /\ packets' = packets /\ slot' = slot /\ bridge' = bridge
      /\ fanouts' = fanouts
  BY DEF Aside, calls, parts
<1>2. \A i : (Waits(i)' <=> Waits(i)) /\ Asked(i)' = Asked(i)
  BY <1>1 DEF Waits, Asked
<1>3. \A i : OnBranch(i)' <=> OnBranch(i)
  BY <1>1, <1>2 DEF OnBranch
<1>4. QED
  BY <1>1, <1>2, <1>3

\* Every step keeps the calls on a path down the tree.
LEMMA StackStep ==
  ASSUME TypeOK, StoreInv, StackInv, [Next]_vars
  PROVE  StackInv'
<1>1. CASE ReturnStep
  BY <1>1, ReturnFacts, ReturnKeepsStack
<1>2. CASE AskStep
  BY <1>2, AskFacts, AskKeepsStack
<1>3. CASE EndPull
  <2>1. stack' = <<>> /\ ret' = Calling /\ phase' # "pull"
    BY <1>3 DEF EndPull
  <2>2. QED
    BY <2>1 DEF StackInv
<1>4. CASE Aside
  BY <1>4, AsideCalls DEF StackInv, Aside, Calls
<1>5. QED
  BY <1>1, <1>2, <1>3, <1>4, StepClasses

-----------------------------------------------------------------------------
(* What the combinators keep *)

\* A return changes what is kept by the combinator that returns only, and does
\* not fill a bridge.
LEMMA ReturnParts ==
  ASSUME TypeOK, ReturnStep
  PROVE  /\ \A n \in Node : n # Top => slot'[n] = slot[n]
                                       /\ fanouts'[n] = fanouts[n]
         /\ \A n \in Node : bridge'[n] # {} => bridge'[n] = bridge[n]
<1> USE DEF parts
<1>1. Top \in Node
  BY ReturnFacts, CallTypes DEF ReturnStep, TypeOK, PollNext, BridgeNext,
     SlotNext, FanoutNext, PassOn, Apply, Emit, Replace, Merge, Called,
     Answered, FromBranch
<1>2. CASE PollNext \/ PassOn \/ Apply \/ Emit
  BY <1>2 DEF PollNext, PassOn, Apply, Emit
<1>3. CASE BridgeNext
  BY <1>1, <1>3 DEF BridgeNext, TypeOK
<1>4. CASE SlotNext \/ Replace
  BY <1>1, <1>4 DEF SlotNext, Replace, TypeOK
<1>5. CASE FanoutNext \/ Merge
  BY <1>1, <1>5 DEF FanoutNext, Merge, TypeOK
<1>6. QED
  BY <1>2, <1>3, <1>4, <1>5 DEF ReturnStep

\* A call changes no slot; it may fill the queue or the bridge of the caller.
LEMMA AskParts ==
  ASSUME TypeOK, AskStep
  PROVE  /\ slot' = slot
         /\ \A n \in Node : fanouts'[n] # fanouts[n] => Gather /\ n = Top
         /\ \A n \in Node : bridge'[n] # bridge[n] => Split /\ n = Top
<1> USE DEF parts
<1>1. CASE Ask \/ Take
  BY <1>1 DEF Ask, Take
<1>2. CASE Receive
  BY <1>2 DEF Receive
<1>3. CASE Split
  BY <1>3 DEF Split, TypeOK
<1>4. CASE Gather
  BY <1>4 DEF Gather, TypeOK
<1>5. QED
  BY <1>1, <1>2, <1>3, <1>4 DEF AskStep

\* Slots belong to Replace, queues to GroupBy, and a queue holds dispositions
\* of packets.
StoreKinds ==
  /\ \A n \in Node : slot[n] # {} => Kind[n] = "replace"
  /\ \A n \in Node : fanouts[n] # <<>> => Kind[n] = "group_by"
  /\ \A n \in Node : \A i \in DOMAIN fanouts[n] :
       fanouts[n][i].tag \notin {"none", "call"}

\* A queue without its first disposition is still a queue of dispositions.
LEMMA QueueTail ==
  ASSUME TypeOK, StoreKinds, Running, fanouts[Top] # <<>>,
         fanouts' = [fanouts EXCEPT ![Top] = Tail(@)], slot' = slot
  PROVE  StoreKinds'
<1>1. Top \in Node /\ fanouts[Top] \in Seq(Disposition)
  BY CallTypes DEF TypeOK
<1>2. /\ DOMAIN fanouts[Top] = 1 .. Len(fanouts[Top])
      /\ DOMAIN Tail(fanouts[Top]) = 1 .. Len(fanouts[Top]) - 1
      /\ Len(fanouts[Top]) \in Nat
      /\ \A i \in 1 .. Len(fanouts[Top]) - 1 :
           Tail(fanouts[Top])[i] = fanouts[Top][i + 1]
  BY <1>1, HeadTail
<1>3. \A i \in DOMAIN Tail(fanouts[Top]) :
        Tail(fanouts[Top])[i].tag \notin {"none", "call"}
  <2>1. ASSUME NEW i \in DOMAIN Tail(fanouts[Top])
        PROVE  Tail(fanouts[Top])[i].tag \notin {"none", "call"}
    <3>1. i + 1 \in DOMAIN fanouts[Top]
          /\ Tail(fanouts[Top])[i] = fanouts[Top][i + 1]
      BY <1>2
    <3>2. QED
      BY <1>1, <3>1 DEF StoreKinds
  <2>2. QED
    BY <2>1
<1>4. \A n \in Node : fanouts'[n] = IF n = Top THEN Tail(fanouts[Top]) ELSE fanouts[n]
  BY DEF TypeOK
<1>5. QED
  BY <1>1, <1>3, <1>4 DEF StoreKinds

\* A step keeps slots with Replace and queues with GroupBy.
LEMMA StoreKindsStep ==
  ASSUME TypeOK, StoreKinds, [Next]_vars
  PROVE  StoreKinds'
<1>1. CASE slot' = slot /\ fanouts' = fanouts
  BY <1>1 DEF StoreKinds
<1>2. CASE SlotNext
  BY <1>2 DEF SlotNext, StoreKinds, TypeOK, parts
<1>3. CASE FanoutNext \/ Merge
  BY <1>3, QueueTail DEF FanoutNext, Merge, Called, FromBranch, Running
<1>4. CASE Replace
  <2>1. fanouts' = fanouts /\ Kind[Top] = "replace"
        /\ (slot' = slot \/ slot' = [slot EXCEPT ![Top] = ret.pkt])
    BY <1>4 DEF Replace, Answered
  <2>2. QED
    BY <2>1 DEF StoreKinds, TypeOK
<1>5. CASE Gather
  <2>1. /\ Running /\ Kind[Top] = "group_by" /\ slot' = slot
        /\ fanouts' = [fanouts EXCEPT ![Top] = Append(@, ret)]
        /\ ret.tag \notin {"none", "call"} /\ ret \in Disposition
    BY <1>5, DispositionFacts DEF Gather, FromBranch, TypeOK
  <2>2. Top \in Node /\ fanouts[Top] \in Seq(Disposition)
    BY <2>1, CallTypes DEF TypeOK
  <2>3. /\ DOMAIN fanouts[Top] = 1 .. Len(fanouts[Top])
        /\ Len(fanouts[Top]) \in Nat
        /\ DOMAIN Append(fanouts[Top], ret) = 1 .. Len(fanouts[Top]) + 1
        /\ Append(fanouts[Top], ret)[Len(fanouts[Top]) + 1] = ret
        /\ \A i \in 1 .. Len(fanouts[Top]) :
             Append(fanouts[Top], ret)[i] = fanouts[Top][i]
    BY <2>1, <2>2, AppendFacts
  <2>4. \A i \in DOMAIN Append(fanouts[Top], ret) :
          Append(fanouts[Top], ret)[i].tag \notin {"none", "call"}
    <3>1. ASSUME NEW i \in DOMAIN Append(fanouts[Top], ret)
          PROVE  Append(fanouts[Top], ret)[i].tag \notin {"none", "call"}
      <4>1. i \in DOMAIN fanouts[Top] \/ i = Len(fanouts[Top]) + 1
        BY <2>3
      <4>2. QED
        BY <4>1, <2>1, <2>2, <2>3 DEF StoreKinds
    <3>2. QED
      BY <3>1
  <2>5. \A n \in Node :
          fanouts'[n] = IF n = Top THEN Append(fanouts[Top], ret) ELSE fanouts[n]
    BY <2>1 DEF TypeOK
  <2>6. QED
    BY <2>1, <2>4, <2>5 DEF StoreKinds
<1>6. QED
  BY <1>1, <1>2, <1>3, <1>4, <1>5
     DEF Next, RunStep, NextDisposition, vars, parts, PollNext, BridgeNext, Ask,
         PassOn, Apply, Emit, Split, Take, EndPull, Receive, TxBurst, TxGiveUp,
         Reap, NicReceive, NicTransmit, KniTake, KniGiveUp

\* A combinator that waits has an empty slot, and an empty queue if it waits
\* for what is above it.
StoreWaits ==
  \A i \in DOMAIN stack : Waits(i) =>
    /\ slot[stack[i]] = {}
    /\ ~OnBranch(i) => fanouts[stack[i]] = <<>>

\* Below the top, a return leaves things as they are.
LEMMA ReturnBelow ==
  ASSUME TypeOK, StackInv, StoreInv, ReturnStep
  PROVE  /\ Len(stack) \in Nat \ {0} /\ Top = stack[Len(stack)] /\ Running
         /\ DOMAIN stack = 1 .. Len(stack)
         /\ DOMAIN stack' = 1 .. Len(stack) - 1
         /\ Len(stack') = Len(stack) - 1
         /\ from' = Top /\ ret' # Calling /\ ret'.tag # "call"
         /\ \A i \in DOMAIN stack' :
              /\ i \in DOMAIN stack /\ stack'[i] = stack[i] /\ stack[i] # Top
              /\ stack[i] \in Node
              /\ Waits(i) /\ Waits(i)' /\ Asked(i)' = Asked(i)
              /\ OnBranch(i)' <=> OnBranch(i)
<1>1. PICK d : Returns(d) /\ d.tag # "call"
  BY ReturnFacts
<1>2. Running /\ Give(d) /\ d # Calling
  BY <1>1 DEF Returns
<1>3. /\ Len(stack) \in Nat \ {0} /\ Len(stack') = Len(stack) - 1
      /\ DOMAIN stack = 1 .. Len(stack)
      /\ DOMAIN stack' = 1 .. Len(stack) - 1
      /\ \A i \in 1 .. Len(stack) - 1 :
           /\ stack'[i] = stack[i]
           /\ Waits(i) /\ Waits(i)' /\ Asked(i)' = Asked(i)
  BY <1>2, Pop
<1>4. \A i \in 1 .. Len(stack) - 1 : OnBranch(i)' <=> OnBranch(i)
  BY <1>2, PopBranches
<1>5. Top = stack[Len(stack)]
  BY <1>2, TopIsLast
<1>6. \A i \in 1 .. Len(stack) - 1 :
        i \in DOMAIN stack /\ stack[i] # Top /\ stack[i] \in Node
  <2>1. ASSUME NEW i \in 1 .. Len(stack) - 1
        PROVE  i \in DOMAIN stack /\ stack[i] # Top /\ stack[i] \in Node
    <3>1. i \in DOMAIN stack /\ Len(stack) \in DOMAIN stack /\ i < Len(stack)
      BY <1>3
    <3>2. stack[i] # stack[Len(stack)]
      BY <3>1, NoneTwice
    <3>3. QED
      BY <1>5, <3>1, <3>2 DEF TypeOK
  <2>2. QED
    BY <2>1
<1>7. from' = Top /\ ret' # Calling /\ ret'.tag # "call"
  BY <1>1, <1>2 DEF Give
<1>8. QED
  BY <1>2, <1>3, <1>4, <1>5, <1>6, <1>7

\* Below the caller, a call leaves things as they are.
LEMMA AskBelow ==
  ASSUME TypeOK, StackInv, NEW n \in Node, Asks(n)
  PROVE  /\ Len(stack) \in Nat
         /\ DOMAIN stack = 1 .. Len(stack)
         /\ DOMAIN stack' = 1 .. Len(stack) + 1
         /\ Len(stack') = Len(stack) + 1
         /\ ret' = Calling /\ stack'[Len(stack) + 1] = n
         /\ stack # <<>> => Top = stack[Len(stack)] /\ Running
                            /\ Len(stack) \in DOMAIN stack
         /\ \A i \in DOMAIN stack' : i = Len(stack) + 1 =>
              ~Waits(i)' /\ ~OnBranch(i)'
         /\ \A i \in DOMAIN stack : i = Len(stack) =>
              /\ stack'[i] = stack[i] /\ stack[i] = Top
              /\ stack[i] \in Node
              /\ Waits(i)' /\ Asked(i)' = n
              /\ OnBranch(i)' <=> Kind[Top] = "group_by" /\ n \in Branches[Top]
         /\ \A i \in DOMAIN stack : i # Len(stack) =>
              /\ stack'[i] = stack[i] /\ stack[i] # Top
              /\ stack[i] \in Node
              /\ Waits(i) /\ Waits(i)' /\ Asked(i)' = Asked(i)
              /\ OnBranch(i)' <=> OnBranch(i)
<1>1. /\ Len(stack) \in Nat /\ Len(stack') = Len(stack) + 1
      /\ DOMAIN stack = 1 .. Len(stack)
      /\ DOMAIN stack' = 1 .. Len(stack) + 1
      /\ \A i \in 1 .. Len(stack) : stack'[i] = stack[i]
      /\ stack'[Len(stack) + 1] = n
      /\ \A i \in 1 .. Len(stack) : Waits(i)'
      /\ \A i \in DOMAIN stack' : i = Len(stack) + 1 => ~Waits(i)'
      /\ \A i \in DOMAIN stack : i = Len(stack) => Asked(i)' = n
      /\ \A i \in 1 .. Len(stack) - 1 : Waits(i) /\ Asked(i)' = Asked(i)
  BY Push DEF Asks
<1>2. /\ \A i \in 1 .. Len(stack) - 1 : OnBranch(i)' <=> OnBranch(i)
      /\ \A i \in DOMAIN stack : i = Len(stack) =>
           (OnBranch(i)' <=> Kind[stack[i]] = "group_by"
                               /\ n \in Branches[stack[i]])
      /\ \A i \in DOMAIN stack' : i = Len(stack) + 1 => ~OnBranch(i)'
  BY PushBranches DEF Asks
<1>3. stack # <<>> => Top = stack[Len(stack)] /\ Running
                      /\ Len(stack) \in DOMAIN stack
  BY TopIsLast DEF Asks
<1>4. ret' = Calling
  BY DEF Asks, Enter
<1>5. \A i \in DOMAIN stack : i # Len(stack) =>
        i \in 1 .. Len(stack) - 1 /\ stack[i] # Top
  <2>1. ASSUME NEW i \in DOMAIN stack, i # Len(stack)
        PROVE  i \in 1 .. Len(stack) - 1 /\ stack[i] # Top
    <3>1. i \in 1 .. Len(stack) - 1 /\ stack # <<>>
      BY <1>1, <2>1
    <3>2. stack[i] # stack[Len(stack)]
      BY <1>3, <3>1, NoneTwice
    <3>3. QED
      BY <1>3, <3>1, <3>2
  <2>2. QED
    BY <2>1
<1>6. \A i \in DOMAIN stack : stack[i] \in Node /\ stack # <<>>
  BY <1>1 DEF TypeOK
<1>7. QED
  BY <1>1, <1>2, <1>3, <1>4, <1>5, <1>6

\* A combinator that waits has an empty slot, and a queue only while a sub batch
\* is asked.
LEMMA StoreWaitsStep ==
  ASSUME TypeOK, StackInv, StoreInv, [Next]_vars
  PROVE  StoreWaits'
<1> USE DEF StoreWaits
<1>0. StoreWaits
  BY DEF StoreInv
<1>1. CASE ReturnStep
  BY <1>0, <1>1, ReturnBelow, ReturnParts
<1>2. CASE AskStep
  <2>1. PICK n \in Node : Asks(n)
    BY <1>2, AskFacts
  <2>2. slot' = slot /\ \A k \in Node : fanouts'[k] # fanouts[k] => Gather /\ k = Top
    BY <1>2, AskParts
  <2>3. ASSUME NEW i \in DOMAIN stack', Waits(i)'
        PROVE  slot'[stack'[i]] = {} /\ (~OnBranch(i)' => fanouts'[stack'[i]] = <<>>)
    <3>1. i \in DOMAIN stack
      BY <2>1, <2>3, AskBelow
    <3>2. CASE i # Len(stack)
      BY <1>0, <2>1, <2>2, <3>1, <3>2, AskBelow
    <3>3. CASE i = Len(stack)
      <4>1. stack'[i] = Top /\ Top \in Node /\ Running /\ stack[i] = Top
            /\ (OnBranch(i)' <=> Kind[Top] = "group_by" /\ n \in Branches[Top])
        BY <2>1, <3>1, <3>3, AskBelow
      <4>2. CASE Ask
        BY <2>2, <4>1, <4>2 DEF Ask, parts
      <4>3. CASE Split \/ Gather
        <5>1. Waits(i) /\ Kind[Top] = "group_by"
          BY <3>3, <4>1, <4>3, TopIsLast DEF Split, Gather, Answered, FromBranch
        <5>2. n \in Branches[Top]
          <6>1. \E b \in Branches[Top] : Enter(b)
            BY <4>3 DEF Split, Gather, FromBranch
          <6>2. PICK b \in Branches[Top] : Enter(b)
            BY <6>1
          <6>3. b \in Node
            BY <4>1, Kindly
          <6>4. b = n
            BY <2>1, <6>2, <6>3, Push DEF Asks
          <6>5. QED
            BY <6>4
        <5>3. QED
          BY <1>0, <2>2, <3>1, <4>1, <5>1, <5>2
      <4>4. CASE Take \/ Receive
        BY <3>1, <4>4, <4>1 DEF Take, Receive, StackInv, Running
      <4>5. QED
        BY <1>2, <4>2, <4>3, <4>4 DEF AskStep
    <3>4. QED
      BY <3>2, <3>3
  <2>4. QED
    BY <2>3
<1>3. CASE EndPull
  BY <1>3 DEF EndPull
<1>4. CASE Aside
  BY <1>0, <1>4, AsideCalls
<1>5. QED
  BY <1>1, <1>2, <1>3, <1>4, StepClasses

\* StoreInv is kept: its two parts together.
LEMMA StoreStep ==
  ASSUME TypeOK, StackInv, StoreInv, [Next]_vars
  PROVE  StoreInv'
BY StoreKindsStep, StoreWaitsStep DEF StoreInv, StoreKinds, StoreWaits

-----------------------------------------------------------------------------
(* The bridges *)

\* When a sub batch has answered None, the bridge of its GroupBy is empty.
LEMMA BranchExhausted ==
  ASSUME TypeOK, NoneInv, FromBranch, ret.tag = "none"
  PROVE  /\ bridge[Top] = {}
         /\ \A n \in Chain[from] : slot[n] = {} /\ fanouts[n] = <<>>
<1>1. Top \in Node /\ Kind[Top] = "group_by" /\ from \in Branches[Top]
  BY CallTypes DEF TypeOK, FromBranch
<1>2. PICK n \in Chain[from] : Kind[n] = "bridge"
  BY <1>1, TreeAssumption
<1>3. Up[n] = Top
  BY <1>1, <1>2, TreeAssumption
<1>4. QED
  BY <1>2, <1>3 DEF NoneInv

\* A return that is not that of a GroupBy for a sub batch does not end the wait
\* for one.
LEMMA ReturnNotOnBranch ==
  ASSUME TypeOK, ReturnStep, ~Merge
  PROVE  ~OnBranch(Len(stack))
BY NotOnBranch DEF ReturnStep, PollNext, BridgeNext, SlotNext, FanoutNext,
   PassOn, Apply, Emit, Replace

\* The caller waited for a sub batch before a call only if it gathers.
LEMMA AskOnBranch ==
  ASSUME TypeOK, StackInv, AskStep, NEW i \in DOMAIN stack, OnBranch(i),
         i = Len(stack)
  PROVE  Gather
<1>1. ~Ask /\ ~Split
  BY NotOnBranch DEF Ask, Split
<1>2. stack # <<>>
  BY DEF TypeOK
<1>3. ~Take /\ ~Receive
  BY <1>2 DEF Take, Receive, StackInv
<1>4. QED
  BY <1>1, <1>3 DEF AskStep

\* What the caller waits for after a call.
LEMMA AskBranch ==
  ASSUME TypeOK, StackInv, Split \/ Gather
  PROVE  \E n \in Branches[Top] : n \in Node /\ Asks(n) /\ (Gather => n = from)
<1>1. Running /\ Top \in Node /\ Kind[Top] = "group_by" /\ phase' = "pull"
  BY CallTypes DEF Split, Gather, Answered, FromBranch, TypeOK, Running
<1>2. PICK b \in Branches[Top] : Enter(b) /\ (Gather => b = from)
  BY DEF Split, Gather, FromBranch
<1>3. b \in Node /\ b \in Calls(Top)
  BY <1>1, Kindly DEF Calls
<1>4. QED
  BY <1>1, <1>2, <1>3 DEF Asks, Running

\* BridgeInv is kept: a GroupBy stops asking when the bridge is empty.
LEMMA BridgeStep ==
  ASSUME TypeOK, StackInv, StoreInv, NoneInv, BridgeInv, [Next]_vars
  PROVE  BridgeInv'
<1>1. CASE ReturnStep
  <2>1. ASSUME NEW n \in Node, bridge'[n] # {}
        PROVE  \E i \in DOMAIN stack' : stack'[i] = n /\ OnBranch(i)'
    <3>1. PICK i \in DOMAIN stack : stack[i] = n /\ OnBranch(i)
      BY <1>1, <2>1, ReturnParts DEF BridgeInv
    <3>2. i # Len(stack)
      <4>1. CASE Merge
        <5>1. bridge'[Top] = {}
          BY <4>1, BranchExhausted DEF Merge
        <5>2. QED
          BY <1>1, <2>1, <3>1, <5>1, ReturnBelow
      <4>2. CASE ~Merge
        BY <1>1, <3>1, <4>2, ReturnNotOnBranch
      <4>3. QED
        BY <4>1, <4>2
    <3>3. i \in DOMAIN stack'
      BY <1>1, <3>2, ReturnBelow
    <3>4. QED
      BY <1>1, <3>1, <3>3, ReturnBelow
  <2>2. QED
    BY <2>1 DEF BridgeInv
<1>2. CASE AskStep
  <2>1. ASSUME NEW n \in Node, bridge'[n] # {}
        PROVE  \E i \in DOMAIN stack' : stack'[i] = n /\ OnBranch(i)'
    <3>1. CASE (Split \/ Gather) /\ n = Top
      <4>1. PICK b \in Node : b \in Branches[Top] /\ Asks(b)
        BY <3>1, AskBranch
      <4>2. stack # <<>> /\ Kind[Top] = "group_by"
        BY <3>1 DEF Split, Gather, Answered, FromBranch, Running
      <4>3. /\ Len(stack) \in DOMAIN stack /\ Len(stack) \in DOMAIN stack'
            /\ \A i \in DOMAIN stack : i = Len(stack) =>
                 stack'[i] = Top /\ OnBranch(i)'
        BY <4>1, <4>2, AskBelow
      <4>4. QED
        BY <3>1, <4>3
    <3>2. CASE ~((Split \/ Gather) /\ n = Top)
      <4>1. bridge[n] # {}
        BY <1>2, <2>1, <3>2, AskParts
      <4>2. PICK i \in DOMAIN stack : stack[i] = n /\ OnBranch(i)
        BY <4>1 DEF BridgeInv
      <4>3. PICK b \in Node : Asks(b)
        BY <1>2, AskFacts
      <4>4. i # Len(stack)
        BY <1>2, <3>2, <4>2, <4>3, AskOnBranch, AskBelow
      <4>5. QED
        BY <4>2, <4>3, <4>4, AskBelow
    <3>3. QED
      BY <3>1, <3>2
  <2>2. QED
    BY <2>1 DEF BridgeInv
<1>3. CASE EndPull
  BY <1>3 DEF EndPull, BridgeInv, parts
<1>4. CASE Aside
  BY <1>4, AsideCalls DEF BridgeInv
<1>5. QED
  BY <1>1, <1>2, <1>3, <1>4, StepClasses

-----------------------------------------------------------------------------
(* A sub batch yields *)

\* The queue of a combinator below the top is as it was, and its bridge too
\* unless a Bridge has just returned its packet.
LEMMA YieldStep ==
  ASSUME TypeOK, StackInv, StoreInv, NoneInv, YieldInv, [Next]_vars
  PROVE  YieldInv'
<1>1. CASE ReturnStep
  <2>1. ASSUME NEW i \in DOMAIN stack', OnBranch(i)'
        PROVE  \/ fanouts'[stack'[i]] # <<>>
               \/ bridge'[stack'[i]] # {}
               \/ ret'.tag \notin {"none", "call"}
               \/ \E j \in DOMAIN stack' : i < j /\ OnBranch(j)'
    <3>1. CASE ret'.tag # "none"
      BY <1>1, <3>1, ReturnBelow
    <3>2. CASE ret'.tag = "none"
      <4>1. PollNext \/ BridgeNext \/ PassOn
        <5>1. PICK d : Returns(d) /\ (d.tag = "none" => PollNext \/ BridgeNext \/ PassOn)
          BY <1>1, ReturnFacts
        <5>2. ret' = d
          BY <5>1 DEF Returns, Give
        <5>3. QED
          BY <3>2, <5>1, <5>2
      <4>2. fanouts' = fanouts /\ bridge' = bridge
        <5>1. CASE PollNext \/ PassOn
          BY <5>1 DEF PollNext, PassOn, parts
        <5>2. CASE BridgeNext
          <6>1. bridge[Up[Top]] = {}
            BY <3>2, <5>2, Tags DEF BridgeNext, Give
          <6>2. bridge' = [bridge EXCEPT ![Up[Top]] = {}] /\ fanouts' = fanouts
            BY <5>2 DEF BridgeNext
          <6>3. QED
            BY <6>1, <6>2 DEF TypeOK
        <5>3. QED
          BY <4>1, <5>1, <5>2
      <4>3. i \in DOMAIN stack /\ OnBranch(i) /\ stack'[i] = stack[i]
        BY <1>1, <2>1, ReturnBelow
      <4>4. ret.tag \in {"none", "call"}
        <5>1. CASE PollNext \/ BridgeNext
          BY <5>1, Tags DEF PollNext, BridgeNext, Called
        <5>2. CASE PassOn
          BY <3>2, <5>2 DEF PassOn, Give
        <5>3. QED
          BY <4>1, <5>1, <5>2
      <4>5. ASSUME NEW j \in DOMAIN stack, i < j, OnBranch(j)
            PROVE  j \in DOMAIN stack' /\ OnBranch(j)'
        <5>1. ~OnBranch(Len(stack))
          BY <4>1, NotOnBranch DEF PollNext, BridgeNext, PassOn
        <5>2. j # Len(stack)
          BY <4>5, <5>1
        <5>3. j \in DOMAIN stack'
          BY <1>1, <4>5, <5>2, ReturnBelow
        <5>4. QED
          BY <1>1, <4>5, <5>3, ReturnBelow
      <4>6. QED
        BY <4>2, <4>3, <4>4, <4>5 DEF YieldInv
    <3>3. QED
      BY <3>1, <3>2
  <2>2. QED
    BY <2>1 DEF YieldInv
<1>2. CASE AskStep
  <2>1. PICK n \in Node : Asks(n)
    BY <1>2, AskFacts
  <2>2. ASSUME NEW i \in DOMAIN stack', OnBranch(i)'
        PROVE  \/ fanouts'[stack'[i]] # <<>>
               \/ bridge'[stack'[i]] # {}
               \/ \E j \in DOMAIN stack' : i < j /\ OnBranch(j)'
    <3>1. i \in DOMAIN stack
      BY <2>1, <2>2, AskBelow
    <3>2. CASE Split \/ Gather
      <4>1. PICK b \in Node : b \in Branches[Top] /\ Asks(b)
        BY <3>2, AskBranch
      <4>2. Kind[Top] = "group_by" /\ Running /\ Top \in Node
        BY <3>2, CallTypes DEF Split, Gather, Answered, FromBranch, TypeOK
      <4>3. /\ Len(stack) \in DOMAIN stack /\ Len(stack) \in DOMAIN stack'
            /\ \A j \in DOMAIN stack : j = Len(stack) =>
                 stack'[j] = Top /\ OnBranch(j)'
        BY <3>1, <4>1, <4>2, AskBelow DEF Running
      <4>4. CASE i = Len(stack)
        <5>1. CASE Split
          <6>1. bridge'[Top] = ret.pkt /\ ret.tag = "act" /\ ret \in Disposition
            BY <4>2, <5>1 DEF Split, TypeOK
          <6>2. bridge'[Top] # {}
            BY <6>1, DispositionFacts
          <6>3. QED
            BY <4>3, <4>4, <6>2
        <5>2. CASE Gather
          <6>1. fanouts'[Top] = Append(fanouts[Top], ret)
                /\ fanouts[Top] \in Seq(Disposition) /\ ret \in Disposition
            BY <4>2, <5>2 DEF Gather, TypeOK
          <6>2. fanouts'[Top] # <<>>
            BY <6>1, AppendFacts
          <6>3. QED
            BY <4>3, <4>4, <6>2
        <5>3. QED
          BY <3>2, <5>1, <5>2
      <4>5. CASE i # Len(stack)
        <5>1. i < Len(stack)
          BY <3>1, <4>1, <4>5, AskBelow
        <5>2. QED
          BY <4>3, <5>1
      <4>6. QED
        BY <4>4, <4>5
    <3>3. CASE Ask
      <4>1. /\ Running /\ Top \in Node /\ ret = Calling
            /\ Enter(Up[Top]) /\ Up[Top] \in Node
            /\ fanouts' = fanouts /\ bridge' = bridge
        BY <3>3, CallTypes DEF Ask, Called, TypeOK, parts
      <4>2. n = Up[Top]
        BY <2>1, <4>1, Push DEF Asks
      <4>3. ~OnBranch(Len(stack))
        BY <3>3, NotOnBranch DEF Ask
      <4>4. i # Len(stack)
        <5>1. Kind[Top] = "group_by" => n \notin Branches[Top]
          BY <4>1, <4>2, TreeAssumption
        <5>2. QED
          BY <2>1, <2>2, <3>1, <5>1, AskBelow
      <4>5. OnBranch(i) /\ stack'[i] = stack[i] /\ stack[i] \in Node
        BY <2>1, <2>2, <3>1, <4>4, AskBelow
      <4>6. \A j \in DOMAIN stack : OnBranch(j) => j \in DOMAIN stack' /\ OnBranch(j)'
        <5>1. ASSUME NEW j \in DOMAIN stack, OnBranch(j)
              PROVE  j \in DOMAIN stack' /\ OnBranch(j)'
          <6>1. j # Len(stack)
            BY <4>3, <5>1
          <6>2. j \in DOMAIN stack'
            BY <2>1, AskBelow
          <6>3. QED
            BY <2>1, <5>1, <6>1, <6>2, AskBelow
        <5>2. QED
          BY <5>1
      <4>7. QED
        BY <3>1, <4>1, <4>5, <4>6, Tags DEF YieldInv
    <3>4. CASE Take \/ Receive
      BY <3>1, <3>4 DEF Take, Receive, StackInv
    <3>5. QED
      BY <1>2, <3>2, <3>3, <3>4 DEF AskStep
  <2>3. QED
    BY <2>2 DEF YieldInv
<1>3. CASE EndPull
  BY <1>3 DEF EndPull, YieldInv
<1>4. CASE Aside
  BY <1>4, AsideCalls DEF YieldInv
<1>5. QED
  BY <1>1, <1>2, <1>3, <1>4, StepClasses

-----------------------------------------------------------------------------
(* A combinator that is exhausted is empty *)

\* A chain, one combinator at a time.
LEMMA ChainOf ==
  ASSUME NEW n \in Node
  PROVE  /\ Kind[n] \in {"poll", "bridge"} => Chain[n] = {n}
         /\ Kind[n] \in Waiting => Chain[n] = {n} \union Chain[Up[n]]
         /\ n \in Chain[n] /\ Chain[n] \in SUBSET Node
<1>1. /\ Chain[n] = {n} \union (IF Kind[n] \in Waiting THEN Chain[Up[n]] ELSE {})
      /\ Chain[n] \in SUBSET Node
  BY TreeAssumption
<1>2. Kind[n] \in {"poll", "bridge"} => Kind[n] \notin Waiting
  BY DEF Waiting
<1>3. QED
  BY <1>1, <1>2

\* NoneInv is kept: None is passed down from a Poll or a Bridge that is empty.
LEMMA NoneStep ==
  ASSUME TypeOK, StackInv, StoreInv, NoneInv, [Next]_vars
  PROVE  NoneInv'
<1>1. CASE ReturnStep
  <2> SUFFICES ASSUME ret'.tag = "none", NEW n \in Chain[from']
               PROVE  /\ slot'[n] = {} /\ fanouts'[n] = <<>>
                      /\ Kind[n] = "poll" => packets' = <<>>
                      /\ Kind[n] = "bridge" => bridge'[Up[n]] = {}
    BY DEF NoneInv
  <2>1. PollNext \/ BridgeNext \/ PassOn
    <3>1. PICK d : Returns(d) /\ (d.tag = "none" => PollNext \/ BridgeNext \/ PassOn)
      BY <1>1, ReturnFacts
    <3>2. ret' = d
      BY <3>1 DEF Returns, Give
    <3>3. QED
      BY <3>1, <3>2
  <2>2. from' = Top /\ Top \in Node /\ Running
    BY <1>1, ReturnBelow, CallTypes DEF TypeOK
  <2>3. CASE PollNext
    <3>1. n = Top /\ Kind[Top] = "poll"
      BY <2>2, <2>3, ChainOf DEF PollNext, Called
    <3>2. slot[Top] = {} /\ fanouts[Top] = <<>>
      BY <2>2, <3>1 DEF StoreInv
    <3>3. packets' = <<>>
      BY <2>3, Tags DEF PollNext, Give
    <3>4. QED
      BY <2>3, <3>1, <3>2, <3>3 DEF PollNext
  <2>4. CASE BridgeNext
    <3>1. n = Top /\ Kind[Top] = "bridge"
      BY <2>2, <2>4, ChainOf DEF BridgeNext, Called
    <3>2. slot[Top] = {} /\ fanouts[Top] = <<>>
      BY <2>2, <3>1 DEF StoreInv
    <3>3. bridge'[Up[Top]] = {}
      BY <2>2, <2>4, CallTypes DEF BridgeNext, TypeOK
    <3>4. QED
      BY <2>4, <3>1, <3>2, <3>3 DEF BridgeNext
  <2>5. CASE PassOn
    <3>1. /\ Kind[Top] \in Waiting /\ from = Up[Top] /\ ret.tag = "none"
          /\ ret # Calling /\ parts' = parts
      BY <2>5 DEF PassOn, Answered, Give
    <3>2. n = Top \/ n \in Chain[from]
      BY <2>2, <3>1, ChainOf
    <3>3. slot[Top] = {} /\ fanouts[Top] = <<>>
      <4>1. Waits(Len(stack)) /\ stack[Len(stack)] = Top /\ Len(stack) \in DOMAIN stack
        BY <2>2, <3>1, TopIsLast
      <4>2. ~OnBranch(Len(stack))
        BY <2>5, NotOnBranch DEF PassOn
      <4>3. QED
        BY <4>1, <4>2 DEF StoreInv
    <3>4. Kind[Top] \notin {"poll", "bridge"}
      BY <3>1 DEF Waiting
    <3>5. QED
      BY <3>1, <3>2, <3>3, <3>4 DEF NoneInv, parts
  <2>6. QED
    BY <2>1, <2>3, <2>4, <2>5
<1>2. CASE AskStep
  <2>1. PICK n \in Node : Asks(n)
    BY <1>2, AskFacts
  <2>2. ret' = Calling
    BY <2>1 DEF Asks, Enter
  <2>3. QED
    BY <2>2, Tags DEF NoneInv
<1>3. CASE EndPull
  BY <1>3, Tags DEF EndPull, NoneInv
<1>4. CASE Aside
  BY <1>4, AsideCalls DEF NoneInv
<1>5. QED
  BY <1>1, <1>2, <1>3, <1>4, StepClasses

-----------------------------------------------------------------------------
(* What is kept is kept by a combinator that will be asked again *)

\* What is above a combinator on a live chain is on it too.
LEMMA LiveAbove ==
  ASSUME StackInv, TypeOK, NEW n \in Node, NEW k, Live(n, k), Kind[n] \in Waiting
  PROVE  Live(Up[n], k)
<1>1. ASSUME NEW a \in Node, n \in Chain[a] PROVE Up[n] \in Chain[a]
  <2>1. Up[n] \in Chain[n] /\ Chain[n] \subseteq Chain[a]
    <3>1. Up[n] \in Node
      BY Kindly
    <3>2. Up[n] \in Chain[Up[n]]
      BY <3>1, ChainOf
    <3>3. QED
      BY <1>1, <3>2, ChainOf, TreeAssumption
  <2>2. QED
    BY <2>1
<1>2. \A i \in DOMAIN stack : OnBranch(i) => Asked(i) \in Node
  <2>1. ASSUME NEW i \in DOMAIN stack, OnBranch(i) PROVE Asked(i) \in Node
    <3>1. stack[i] \in Node
      BY DEF TypeOK
    <3>2. QED
      BY <2>1, <3>1, Kindly DEF OnBranch
  <2>2. QED
    BY <2>1
<1>3. Root \in Node
  BY Kindly
<1>4. QED
  BY <1>1, <1>2, <1>3 DEF Live

\* HeldInv is kept: what is stored is stored by a combinator on a live chain.
LEMMA HeldStep ==
  ASSUME TypeOK, StackInv, StoreInv, NoneInv, HeldInv, [Next]_vars
  PROVE  HeldInv'
<1>1. CASE ReturnStep
  <2>1. \A n \in Node : \A k \in Nat : k <= Len(stack) /\ Live(n, k) => Live(n, k)'
    <3>1. ASSUME NEW n \in Node, NEW k \in Nat, k <= Len(stack), Live(n, k)
          PROVE  Live(n, k)'
      <4>1. CASE n \in Chain[Root]
        BY <4>1 DEF Live
      <4>2. ASSUME NEW i \in DOMAIN stack, i < k, OnBranch(i), n \in Chain[Asked(i)]
            PROVE  Live(n, k)'
        <5>1. i \in DOMAIN stack'
          BY <1>1, <3>1, <4>2, ReturnBelow
        <5>2. OnBranch(i)' /\ Asked(i)' = Asked(i)
          BY <1>1, <4>2, <5>1, ReturnBelow
        <5>3. QED
          BY <4>2, <5>1, <5>2 DEF Live
      <4>3. QED
        BY <3>1, <4>1, <4>2 DEF Live
    <3>2. QED
      BY <3>1
  <2>2. /\ Len(stack) \in Nat \ {0} /\ DOMAIN stack = 1 .. Len(stack)
        /\ DOMAIN stack' = 1 .. Len(stack) - 1 /\ Len(stack') = Len(stack) - 1
        /\ Top = stack[Len(stack)] /\ Top \in Node
        /\ \A i \in DOMAIN stack' : stack'[i] = stack[i] /\ stack[i] \in Node
    BY <1>1, ReturnBelow, CallTypes DEF TypeOK
  <2>3. ASSUME NEW k \in DOMAIN stack', NEW n \in Node, n = stack'[k]
        PROVE  Live(n, k)'
    <3>1. n = stack[k] /\ Live(n, k) /\ k \in Nat /\ k <= Len(stack)
      BY <2>2, <2>3 DEF HeldInv
    <3>2. QED
      BY <2>1, <3>1
  <2>4. ASSUME NEW n \in Node, slot'[n] # {} \/ fanouts'[n] # <<>>,
               NEW k \in Nat, k = Len(stack)
        PROVE  Live(n, k)'
    <3>1. Live(n, Len(stack))
      <4>1. CASE n = Top
        BY <2>2, <4>1 DEF HeldInv
      <4>2. CASE n # Top
        <5>1. slot[n] # {} \/ fanouts[n] # <<>>
          BY <1>1, <2>4, <4>2, ReturnParts
        <5>2. Live(n, Len(stack) + 1)
          BY <5>1 DEF HeldInv
        <5>3. ASSUME OnBranch(Len(stack)), n \in Chain[Asked(Len(stack))]
              PROVE  FALSE
          <6>1. Merge
            BY <1>1, <5>3, ReturnNotOnBranch
          <6>2. Asked(Len(stack)) = from /\ FromBranch /\ ret.tag = "none"
            BY <6>1, TopIsLast DEF Merge, FromBranch
          <6>3. QED
            BY <5>1, <5>3, <6>2, BranchExhausted
        <5>4. QED
          BY <2>2, <5>2, <5>3 DEF Live
      <4>3. QED
        BY <4>1, <4>2
    <3>2. QED
      BY <2>1, <2>2, <2>4, <3>1
  <2>5. \A k \in DOMAIN stack' : stack'[k] \in Node
    BY <2>2
  <2>6. ASSUME NEW n \in Node, slot'[n] # {} \/ fanouts'[n] # <<>>
        PROVE  Live(n, Len(stack) + 1)'
    <3>1. PICK k \in Nat : k = Len(stack)
      BY <2>2
    <3>2. Live(n, k)'
      BY <2>4, <2>6, <3>1
    <3>3. Len(stack') + 1 = k
      BY <2>2, <3>1
    <3>4. QED
      BY <3>2, <3>3 DEF Live
  <2>7. \A k \in DOMAIN stack' : Live(stack[k], k)'
    BY <2>2, <2>3, <2>5 DEF Live
  <2>8. QED
    BY <2>6, <2>7 DEF HeldInv
<1>2. CASE AskStep
  <2>1. PICK c \in Node : Asks(c)
    BY <1>2, AskFacts
  <2>2. /\ Len(stack) \in Nat /\ DOMAIN stack = 1 .. Len(stack)
        /\ DOMAIN stack' = 1 .. Len(stack) + 1 /\ Len(stack') = Len(stack) + 1
        /\ stack'[Len(stack) + 1] = c
        /\ \A i \in DOMAIN stack : stack'[i] = stack[i] /\ stack[i] \in Node
    BY <2>1, AskBelow
  <2>3. ASSUME NEW i \in DOMAIN stack, OnBranch(i)
        PROVE  i \in DOMAIN stack' /\ OnBranch(i)' /\ Asked(i)' = Asked(i)
    <3>1. CASE i # Len(stack)
      BY <2>1, <2>2, <2>3, <3>1, AskBelow
    <3>2. CASE i = Len(stack)
      <4>1. Gather
        BY <1>2, <2>3, <3>2, AskOnBranch
      <4>2. PICK b \in Branches[Top] : b \in Node /\ Asks(b) /\ b = from
        BY <4>1, AskBranch
      <4>3. Kind[Top] = "group_by" /\ Running /\ ret # Calling
        BY <4>1 DEF Gather, FromBranch
      <4>4. Asked(i) = from
        BY <3>2, <4>3, TopIsLast
      <4>5. QED
        BY <2>2, <3>2, <4>2, <4>3, <4>4, AskBelow
    <3>3. QED
      BY <3>1, <3>2
  <2>4. ASSUME NEW n, NEW k, Live(n, k) PROVE Live(n, k)'
    BY <2>3, <2>4 DEF Live
  <2>5. ASSUME NEW n, NEW k \in Nat, NEW j \in Nat, Live(n, k)', k <= j
        PROVE  Live(n, j)'
    BY <2>2, <2>5 DEF Live
  <2>6. ASSUME NEW n \in Node, slot'[n] # {} \/ fanouts'[n] # <<>>,
               NEW k \in Nat, k = Len(stack) + 2
        PROVE  Live(n, k)'
    <3>1. CASE slot[n] # {} \/ fanouts[n] # <<>>
      <4>1. PICK j \in Nat : j = Len(stack) + 1
        BY <2>2
      <4>2. Live(n, j)
        BY <3>1, <4>1 DEF HeldInv
      <4>3. QED
        BY <2>2, <2>4, <2>5, <2>6, <4>1, <4>2
    <3>2. CASE ~(slot[n] # {} \/ fanouts[n] # <<>>)
      <4>1. Gather /\ n = Top
        BY <1>2, <2>6, <3>2, AskParts
      <4>2. Running
        BY <4>1 DEF Gather, FromBranch
      <4>3. PICK j \in DOMAIN stack : j = Len(stack) /\ stack[j] = Top
        BY <4>2, TopIsLast
      <4>4. Live(n, j)
        BY <4>1, <4>3 DEF HeldInv
      <4>5. QED
        BY <2>2, <2>4, <2>5, <2>6, <4>3, <4>4
    <3>3. QED
      BY <3>1, <3>2
  <2>7. ASSUME NEW k \in DOMAIN stack', NEW n \in Node, n = stack'[k]
        PROVE  Live(n, k)'
    <3>1. CASE k \in DOMAIN stack
      BY <2>2, <2>4, <2>7, <3>1 DEF HeldInv
    <3>2. CASE k \notin DOMAIN stack
      <4>1. k = Len(stack) + 1 /\ n = c
        BY <2>2, <2>7, <3>2
      <4>2. CASE stack = <<>>
        <5>1. n = Root
          BY <2>1, <4>1, <4>2 DEF Asks
        <5>2. QED
          BY <5>1, ChainOf, Kindly DEF Live
      <4>3. CASE stack # <<>>
        <5>1. PICK j \in DOMAIN stack : j = Len(stack) /\ stack[j] = Top
          BY <2>1, <4>3, AskBelow
        <5>2. Top \in Node /\ Live(Top, j) /\ c \in Calls(Top)
          BY <2>1, <2>2, <4>3, <5>1 DEF HeldInv, Asks
        <5>3. CASE Kind[Top] \in Waiting /\ c = Up[Top]
          <6>1. Live(c, j)
            BY <5>2, <5>3, LiveAbove
          <6>2. QED
            BY <2>2, <2>4, <2>5, <4>1, <5>1, <6>1
        <5>4. CASE Kind[Top] = "group_by" /\ c \in Branches[Top]
          <6>1. OnBranch(j)' /\ Asked(j)' = c /\ j \in DOMAIN stack'
            BY <2>1, <2>2, <5>1, <5>4, AskBelow
          <6>2. c \in Chain[c] /\ j < k
            BY <2>2, <4>1, <5>1, ChainOf
          <6>3. QED
            BY <4>1, <6>1, <6>2 DEF Live
        <5>5. QED
          BY <5>2, <5>3, <5>4 DEF Calls
      <4>4. QED
        BY <4>2, <4>3
    <3>3. QED
      BY <3>1, <3>2
  <2>8. \A k \in DOMAIN stack' : stack'[k] \in Node
    BY <2>2
  <2>9. \A n \in Node : slot'[n] # {} \/ fanouts'[n] # <<>> => Live(n, Len(stack) + 1)'
    BY <2>2, <2>6 DEF Live
  <2>10. \A k \in DOMAIN stack' : Live(stack[k], k)'
    BY <2>2, <2>7, <2>8 DEF Live
  <2>11. QED
    BY <2>9, <2>10 DEF HeldInv
<1>3. CASE EndPull
  BY <1>3 DEF EndPull, HeldInv, Live, parts
<1>4. CASE Aside
  BY <1>4, AsideCalls DEF HeldInv, Live
<1>5. QED
  BY <1>1, <1>2, <1>3, <1>4, StepClasses

-----------------------------------------------------------------------------
(* The invariant *)

IInv ==
  /\ TypeOK /\ StackInv /\ StoreInv /\ BridgeInv /\ YieldInv
  /\ NoneInv /\ HeldInv

\* The initial values have their types.
LEMMA InitTypes == Init => TypeOK
<1> SUFFICES ASSUME Init PROVE TypeOK
  OBVIOUS
<1>1. \A T : <<>> \in Seq(T)
  OBVIOUS
<1>2. Calling \in Disposition /\ {} \in Option
  BY Dispositions DEF Option
<1>3. Root \in Node
  BY Kindly
<1>4. QED
  BY <1>1, <1>2, <1>3 DEF Init, TypeOK

\* No call is under way at first, and nothing is kept.
LEMMA InitInv == Init => IInv
<1> SUFFICES ASSUME Init PROVE IInv
  OBVIOUS
<1>1. /\ stack = <<>> /\ ret = Calling /\ phase = "idle"
      /\ \A n \in Node : slot[n] = {} /\ bridge[n] = {} /\ fanouts[n] = <<>>
  BY DEF Init
<1>2. StackInv
  BY <1>1 DEF StackInv
<1>3. StoreInv /\ BridgeInv /\ YieldInv
  BY <1>1 DEF StoreInv, BridgeInv, YieldInv
<1>4. NoneInv /\ HeldInv
  BY <1>1, Tags DEF NoneInv, HeldInv
<1>5. QED
  BY <1>2, <1>3, <1>4, InitTypes DEF IInv

\* The parts of the invariant are kept together: StoreInv needs StackInv, for
\* no combinator is called twice; BridgeInv, YieldInv and HeldInv need NoneInv,
\* for a GroupBy stops asking a sub batch when it answers None.
LEMMA StepInv == IInv /\ [Next]_vars => IInv'
BY TypeStep, StackStep, StoreStep, BridgeStep, YieldStep, NoneStep, HeldStep
   DEF IInv

\* The invariant holds in every state of the pipeline.
LEMMA InvHolds == Spec => []IInv
<1>1. Init => IInv
  BY InitInv
<1>2. IInv /\ [Next]_vars => IInv'
  BY StepInv
<1>3. QED
  BY <1>1, <1>2, PTL DEF Spec

\* Every packet has a combinator, a disposition or a queue of the types that
\* batch/mod.rs gives them: an Act or a Drop has exactly one packet.
THEOREM TypeCorrect == Spec => []TypeOK
<1>1. IInv => TypeOK
  BY DEF IInv
<1>2. QED
  BY <1>1, InvHolds, PTL

\* GroupBy::next never unwraps an empty queue: however the sub batches are
\* built and whatever their closures do, one that is exhausted has given a
\* disposition for the packet it was fed.
THEOREM SubBatchesYield == Spec => []GroupYields
<1>1. IInv => GroupYields
  <2> SUFFICES ASSUME IInv, FromBranch, ret.tag = "none"
               PROVE  fanouts[Top] # <<>>
    BY DEF GroupYields
  <2>1. TypeOK /\ Running /\ YieldInv /\ NoneInv
    BY DEF IInv, FromBranch
  <2>2. /\ Len(stack) \in DOMAIN stack /\ DOMAIN stack = 1 .. Len(stack)
        /\ Len(stack) \in Nat /\ Top = stack[Len(stack)]
        /\ Waits(Len(stack)) /\ Asked(Len(stack)) = from
    BY <2>1, TopIsLast DEF FromBranch
  <2>3. PICK i \in DOMAIN stack : i = Len(stack)
    BY <2>2
  <2>4. OnBranch(i)
    BY <2>2, <2>3 DEF OnBranch, FromBranch
  <2>5. ~ \E j \in DOMAIN stack : i < j /\ OnBranch(j)
    BY <2>2, <2>3
  <2>6. bridge[Top] = {}
    BY <2>1, BranchExhausted
  <2>7. QED
    BY <2>1, <2>2, <2>3, <2>4, <2>5, <2>6 DEF YieldInv
<1>2. QED
  BY <1>1, InvHolds, PTL

\* At the end of a run nothing is left: the Root answers None, and by then
\* everything on its chain is empty and no sub batch is being asked.
LEMMA NothingLeftStep ==
  ASSUME IInv, NothingLeftBehind, [Next]_vars
  PROVE  NothingLeftBehind'
<1> USE DEF IInv
<1>1. CASE ReturnStep
  <2>1. phase' = "pull"
    BY <1>1, ReturnFacts DEF Returns
  <2>2. QED
    BY <2>1 DEF NothingLeftBehind
<1>2. CASE AskStep
  <2>1. phase' = "pull"
    BY <1>2, AskFacts DEF Asks
  <2>2. QED
    BY <2>1 DEF NothingLeftBehind
<1>3. CASE EndPull
  <2>1. /\ stack = <<>> /\ ret.tag = "none" /\ from = Root
        /\ UNCHANGED <<stack, parts>>
    BY <1>3 DEF EndPull, StackInv
  <2>2. Len(stack) + 1 = 1 /\ DOMAIN stack = {}
    BY <2>1
  <2>3. \A n \in Node : bridge[n] = {}
    BY <2>2 DEF BridgeInv
  <2>4. \A n \in Node : slot[n] # {} \/ fanouts[n] # <<>> => n \in Chain[Root]
    BY <2>2 DEF HeldInv, Live
  <2>5. \A n \in Node : slot[n] = {} /\ fanouts[n] = <<>>
    BY <2>1, <2>4 DEF NoneInv
  <2>6. packets = <<>>
    BY <2>1, TreeAssumption DEF NoneInv
  <2>7. QED
    BY <2>1, <2>3, <2>5, <2>6 DEF NothingLeftBehind, parts
<1>4. CASE Aside
  BY <1>4, AsideCalls DEF NothingLeftBehind, Aside
<1>5. QED
  BY <1>1, <1>2, <1>3, <1>4, StepClasses

\* No combinator keeps a packet or a disposition from one run of the pipeline
\* to the next.
THEOREM RunsLeaveNothing == Spec => []NothingLeftBehind
<1>1. Init => NothingLeftBehind
  BY DEF Init, NothingLeftBehind
<1>2. IInv /\ NothingLeftBehind /\ [Next]_vars => NothingLeftBehind'
  BY NothingLeftStep
<1>3. QED
  BY <1>1, <1>2, InvHolds, PTL DEF Spec

=============================================================================
