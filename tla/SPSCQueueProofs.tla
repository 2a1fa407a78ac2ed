-------------------------- MODULE SPSCQueueProofs --------------------------
(***************************************************************************)
(* Proofs about SPSCQueue, for every Capacity > 0 and every set of items.  *)
(***************************************************************************)
EXTENDS SPSCQueue, SequenceTheorems, TLAPS

(***************************************************************************)
(* Arithmetic of the ring.                                                 *)
(***************************************************************************)

\* Masking the incremented index wraps it to 0 at the end of the buffer.
LEMMA SuccValue ==
  ASSUME NEW i \in Index
  PROVE  Succ(i) = IF i = Capacity - 1 THEN 0 ELSE i + 1
<1>1. CASE i = Capacity - 1
  BY <1>1, CapacityAssumption DEF Index, Succ
<1>2. CASE i # Capacity - 1
  BY <1>2, CapacityAssumption DEF Index, Succ
<1>3. QED BY <1>1, <1>2

\* Masking the difference of two indexes counts the slots between them, across
\* the wrap-around too.
LEMMA DistanceValue ==
  ASSUME NEW a \in Index, NEW b \in Index
  PROVE  Distance(a, b) = IF a <= b THEN b - a ELSE b - a + Capacity
<1>1. CASE a <= b
  <2>1. b - a \in 0 .. Capacity - 1
    BY <1>1, CapacityAssumption DEF Index
  <2>2. QED BY <2>1, <1>1, CapacityAssumption DEF Distance, Index
<1>2. CASE ~(a <= b)
  <2>1. b - a \in -Capacity .. -1
    BY <1>2, CapacityAssumption DEF Index
  <2>2. QED BY <2>1, <1>2, CapacityAssumption DEF Distance, Index
<1>3. QED BY <1>1, <1>2

\* Indexes, their successors and their distances stay below the capacity.
LEMMA IndexFacts ==
  /\ Index \subseteq Int
  /\ \A i \in Index : 0 <= i /\ i < Capacity /\ Succ(i) \in Index
  /\ \A a, b \in Index : Distance(a, b) \in 0 .. Capacity - 1
  BY SuccValue, DistanceValue, CapacityAssumption DEF Index

\* The distance tells the indexes apart, and is 0 from an index to itself only.
LEMMA DistanceInjective ==
  ASSUME NEW a \in Index, NEW b \in Index, NEW c \in Index
  PROVE  /\ Distance(a, b) = Distance(a, c) <=> b = c
         /\ Distance(b, a) = Distance(c, a) <=> b = c
         /\ Distance(a, b) = 0 <=> a = b
  BY DistanceValue, CapacityAssumption DEF Index

\* Two ways that follow each other add up, less a lap when they go round.
LEMMA DistanceSum ==
  ASSUME NEW a \in Index, NEW b \in Index, NEW c \in Index
  PROVE  Distance(a, b) + Distance(b, c)
           = IF Distance(a, b) <= Distance(a, c) THEN Distance(a, c)
             ELSE Distance(a, c) + Capacity
  BY DistanceValue, CapacityAssumption DEF Index

\* What an increment of the tail does to a distance.
LEMMA DistanceToSucc ==
  ASSUME NEW a \in Index, NEW b \in Index
  PROVE  Distance(a, Succ(b))
           = IF Distance(a, b) = Capacity - 1 THEN 0 ELSE Distance(a, b) + 1
<1>1. Succ(b) \in Index
  BY IndexFacts
<1>2. /\ Distance(a, b) = IF a <= b THEN b - a ELSE b - a + Capacity
      /\ Distance(a, Succ(b)) = IF a <= Succ(b) THEN Succ(b) - a ELSE Succ(b) - a + Capacity
  BY <1>1, DistanceValue
<1>3. Succ(b) = IF b = Capacity - 1 THEN 0 ELSE b + 1
  BY SuccValue
<1>4. QED BY <1>1, <1>2, <1>3, CapacityAssumption DEF Index

\* The check of try_push: the slot after the next one is not the head.
LEMMA NotFull ==
  ASSUME NEW h \in Index, NEW t \in Index, Succ(t) # h
  PROVE  Distance(h, t) < Capacity - 1
<1>1. Succ(t) \in Index
  BY IndexFacts
<1>2. Distance(h, Succ(t)) # 0
  BY <1>1, DistanceValue, CapacityAssumption DEF Index
<1>3. Distance(h, t) # Capacity - 1
  BY <1>2, DistanceToSucc
<1>4. QED BY <1>3, IndexFacts, CapacityAssumption

\* What an increment of the head does to a distance.
LEMMA DistanceFromSucc ==
  ASSUME NEW a \in Index, NEW b \in Index
  PROVE  Distance(Succ(a), b)
           = IF a = b THEN Capacity - 1 ELSE Distance(a, b) - 1
<1>1. Succ(a) \in Index
  BY IndexFacts
<1>2. /\ Distance(a, b) = IF a <= b THEN b - a ELSE b - a + Capacity
      /\ Distance(Succ(a), b) = IF Succ(a) <= b THEN b - Succ(a) ELSE b - Succ(a) + Capacity
  BY <1>1, DistanceValue
<1>3. Succ(a) = IF a = Capacity - 1 THEN 0 ELSE a + 1
  BY SuccValue
<1>4. QED BY <1>1, <1>2, <1>3, CapacityAssumption DEF Index

(***************************************************************************)
(* Types.                                                                  *)
(***************************************************************************)

\* Type correctness.  popped never shows a moved-from slot: for that, the item
\* that a pop is about to return has to be a real item, so the types come with
\* the invariant below; here only the part that stands alone.
IndexesOK == /\ head_ \in Index /\ tail_ \in Index
             /\ headSeen \in Index /\ tailSeen \in Index
             /\ buffer_ \in [Index -> Items \cup {Empty}]
             /\ pushPc \in {"idle", "write", "publish"}
             /\ popPc \in {"idle", "move", "publish"}
             /\ pushItem \in Items \cup {Empty}
             /\ popItem \in Items \cup {Empty}
             /\ accepted \in BOOLEAN

(***************************************************************************)
(* The inductive invariant.                                                *)
(***************************************************************************)

\* Going round the ring from what the producer knows of the head one meets the
\* head, what the consumer knows of the tail and the tail, in this order and
\* within one lap.
RingOrder == /\ Distance(headSeen, head_) + Distance(head_, tail_)
                  = Distance(headSeen, tail_)
             /\ Distance(head_, tailSeen) + Distance(tailSeen, tail_)
                  = Distance(head_, tail_)

\* What the threads found when they checked stays true until they publish.
PushRoom == pushPc # "idle" => Distance(headSeen, tail_) < Capacity - 1
PopRoom == popPc # "idle" => Distance(head_, tailSeen) > 0

\* The slots from the head to the tail hold items, all others are empty; the
\* slots that the threads are working on are the exceptions.
SlotsOK ==
  \A i \in Index :
    LET full == \/ Distance(head_, i) < Distance(head_, tail_) /\ ~(i = head_ /\ popPc = "publish")
                \/ i = tail_ /\ pushPc = "publish"
    IN  IF full THEN buffer_[i] \in Items ELSE buffer_[i] = Empty

InHand == /\ IF pushPc = "idle" THEN pushItem = Empty ELSE pushItem \in Items
          /\ IF popPc = "publish" THEN popItem \in Items ELSE popItem = Empty
          /\ pushPc = "publish" => buffer_[tail_] = pushItem
          /\ popped \in Items \cup {NullOpt}

IInv == IndexesOK /\ RingOrder /\ PushRoom /\ PopRoom /\ SlotsOK /\ InHand

\* An empty ring, of which both threads know the indexes.
LEMMA InitIInv == Init => IInv
<1> SUFFICES ASSUME Init PROVE IInv
  OBVIOUS
<1>1. 0 \in Index
  BY CapacityAssumption DEF Index
<1>2. Distance(0, 0) = 0
  BY <1>1, DistanceValue
<1>3. IndexesOK /\ PushRoom /\ PopRoom
  BY <1>1 DEF Init, IndexesOK, PushRoom, PopRoom
<1>4. RingOrder
  BY <1>2 DEF Init, RingOrder
<1>5. SlotsOK
  BY <1>1, <1>2, IndexFacts DEF Init, SlotsOK
<1>6. InHand
  BY <1>1 DEF Init, InHand
<1>7. QED BY <1>3, <1>4, <1>5, <1>6 DEF IInv

\* Every step of try_push and try_pop, and every store that becomes visible, keeps it.
LEMMA NextIInv == IInv /\ [Next]_vars => IInv'
<1> SUFFICES ASSUME IInv, [Next]_vars PROVE IInv'
  OBVIOUS
<1> USE CapacityAssumption, IndexFacts, DistanceInjective
<1> USE DEF IInv
<1>1. CASE PushFull
  BY <1>1 DEF PushFull, consumerVars, IndexesOK, RingOrder, PushRoom, PopRoom, SlotsOK, InHand
<1>2. ASSUME NEW item \in Items, PushCheck(item) PROVE IInv'
  <2> USE <1>2 DEF PushCheck, consumerVars
  <2>1. IndexesOK' /\ RingOrder' /\ PopRoom'
    BY DEF IndexesOK, RingOrder, PopRoom
  <2>2. PushRoom'
    <3>1. headSeen \in Index /\ tail_ \in Index /\ Succ(tail_) # headSeen
      BY DEF IndexesOK
    <3>2. QED BY <3>1, NotFull DEF PushRoom
  <2>3. SlotsOK'
    BY DEF IndexesOK, SlotsOK
  <2>4. InHand'
    BY DEF IndexesOK, InHand
  <2>5. QED BY <2>1, <2>2, <2>3, <2>4
<1>3. CASE PushWrite
  <2> USE <1>3 DEF PushWrite, consumerVars
  <2>1. IndexesOK' /\ RingOrder' /\ PushRoom' /\ PopRoom'
    BY DEF IndexesOK, RingOrder, PushRoom, PopRoom
  <2>2. SlotsOK'
    BY DEF IndexesOK, SlotsOK, InHand
  <2>3. InHand'
    BY DEF IndexesOK, InHand
  <2>4. QED BY <2>1, <2>2, <2>3
<1>4. CASE PushPublish
  <2> USE <1>4 DEF PushPublish, consumerVars
  <2>1. IndexesOK'
    BY DEF IndexesOK
  <2>2. /\ Distance(headSeen, tail_') = Distance(headSeen, tail_) + 1
        /\ Distance(head_, tail_') = Distance(head_, tail_) + 1
        /\ Distance(tailSeen, tail_') = Distance(tailSeen, tail_) + 1
    BY DistanceToSucc DEF IndexesOK, RingOrder, PushRoom
  <2>3. RingOrder' /\ PushRoom' /\ PopRoom'
    BY <2>2 DEF IndexesOK, RingOrder, PushRoom, PopRoom
  <2>4. SlotsOK'
    <3> SUFFICES ASSUME NEW i \in Index
                 PROVE  IF Distance(head_, i) < Distance(head_, tail_) + 1
                             /\ ~(i = head_ /\ popPc = "publish")
                        THEN buffer_[i] \in Items ELSE buffer_[i] = Empty
      BY <2>2 DEF SlotsOK
    <3>1. i = tail_ <=> Distance(head_, i) = Distance(head_, tail_)
      BY DEF IndexesOK
    <3>2. i = tail_ /\ i = head_ => popPc # "publish"
      BY DEF IndexesOK, RingOrder, PopRoom
    <3>3. QED BY <3>1, <3>2 DEF IndexesOK, SlotsOK
  <2>5. InHand'
    BY DEF IndexesOK, InHand
  <2>6. QED BY <2>1, <2>3, <2>4, <2>5
<1>5. CASE PopEmpty
  BY <1>5 DEF PopEmpty, producerVars, IndexesOK, RingOrder, PushRoom, PopRoom, SlotsOK, InHand
<1>6. CASE PopCheck
  <2> USE <1>6 DEF PopCheck, producerVars
  <2>1. IndexesOK' /\ RingOrder' /\ PushRoom' /\ InHand'
    BY DEF IndexesOK, RingOrder, PushRoom, InHand
  <2>2. PopRoom'
    BY DEF IndexesOK, PopRoom
  <2>3. SlotsOK'
    BY DEF IndexesOK, SlotsOK
  <2>4. QED BY <2>1, <2>2, <2>3
<1>7. CASE PopMove
  <2> USE <1>7 DEF PopMove, producerVars
  <2>1. IndexesOK' /\ RingOrder' /\ PushRoom' /\ PopRoom'
    BY DEF IndexesOK, RingOrder, PushRoom, PopRoom
  <2>2. head_ # tail_
    BY DEF IndexesOK, RingOrder, PopRoom
  <2>3. SlotsOK'
    BY <2>2 DEF IndexesOK, SlotsOK
  <2>4. InHand'
    BY <2>2 DEF IndexesOK, SlotsOK, InHand
  <2>5. QED BY <2>1, <2>3, <2>4
<1>8. CASE PopPublish
  <2> USE <1>8 DEF PopPublish, producerVars
  <2>1. IndexesOK'
    BY DEF IndexesOK
  <2>2. head_ # tailSeen /\ head_ # tail_
    BY DEF IndexesOK, RingOrder, PopRoom
  <2>3. /\ Distance(headSeen, head_') = Distance(headSeen, head_) + 1
        /\ Distance(head_', tail_) = Distance(head_, tail_) - 1
        /\ Distance(head_', tailSeen) = Distance(head_, tailSeen) - 1
    BY <2>2, DistanceToSucc, DistanceFromSucc DEF IndexesOK, RingOrder, PopRoom
  <2>4. RingOrder' /\ PushRoom' /\ PopRoom'
    BY <2>3 DEF IndexesOK, RingOrder, PushRoom, PopRoom
  <2>a. SlotsOK'
    <3> SUFFICES ASSUME NEW i \in Index
                 PROVE  IF \/ Distance(head_', i) < Distance(head_, tail_) - 1
                           \/ i = tail_ /\ pushPc = "publish"
                        THEN buffer_[i] \in Items ELSE buffer_[i] = Empty
      BY <2>3 DEF SlotsOK
    <3>1. CASE i = head_
      <4>1. Distance(head_', i) = Capacity - 1
        BY <3>1, DistanceFromSucc DEF IndexesOK
      <4>2. QED BY <3>1, <4>1, <2>2 DEF IndexesOK, SlotsOK
    <3>2. CASE i # head_
      <4>1. Distance(head_', i) = Distance(head_, i) - 1
        BY <3>2, DistanceFromSucc DEF IndexesOK
      <4>2. QED BY <3>2, <4>1 DEF IndexesOK, SlotsOK
    <3>3. QED BY <3>1, <3>2
  <2>5. InHand'
    BY DEF IndexesOK, InHand
  <2>6. QED BY <2>1, <2>4, <2>a, <2>5
<1>9. CASE HeadVisible
  <2>1. PICK i \in Index : /\ Distance(headSeen, i) <= Distance(headSeen, head_)
                          /\ headSeen' = i
    BY <1>9 DEF HeadVisible
  <2>2. UNCHANGED <<producerVars, consumerVars, buffer_, tailSeen>>
    BY <1>9 DEF HeadVisible
  <2> USE <2>1, <2>2 DEF producerVars, consumerVars
  <2>3. IndexesOK' /\ PopRoom' /\ SlotsOK' /\ InHand'
    BY DEF IndexesOK, PopRoom, SlotsOK, InHand
  <2>4. /\ Distance(i, head_) = Distance(headSeen, head_) - Distance(headSeen, i)
        /\ Distance(i, tail_) = Distance(headSeen, tail_) - Distance(headSeen, i)
    <3>1. /\ head_ \in Index /\ tail_ \in Index /\ headSeen \in Index
          /\ Distance(headSeen, i) <= Distance(headSeen, tail_)
      BY DEF IndexesOK, RingOrder
    <3>2. /\ Distance(headSeen, i) + Distance(i, head_) = Distance(headSeen, head_)
          /\ Distance(headSeen, i) + Distance(i, tail_) = Distance(headSeen, tail_)
      BY <3>1, DistanceSum
    <3>3. QED BY <3>1, <3>2
  <2>5. RingOrder' /\ PushRoom'
    BY <2>4 DEF IndexesOK, RingOrder, PushRoom
  <2>6. QED BY <2>3, <2>5
<1>10. CASE TailVisible
  <2>1. PICK i \in Index : /\ 0 < Distance(tailSeen, i)
                          /\ Distance(tailSeen, i) <= Distance(tailSeen, tail_)
                          /\ tailSeen' = i
    BY <1>10 DEF TailVisible
  <2>2. UNCHANGED <<producerVars, consumerVars, buffer_, headSeen>>
    BY <1>10 DEF TailVisible
  <2> USE <2>1, <2>2 DEF producerVars, consumerVars
  <2>3. IndexesOK' /\ PushRoom' /\ SlotsOK' /\ InHand'
    BY DEF IndexesOK, PushRoom, SlotsOK, InHand
  <2>4. Distance(i, tail_) = Distance(tailSeen, tail_) - Distance(tailSeen, i)
    BY DistanceSum DEF IndexesOK
  <2>5. Distance(head_, i) = Distance(head_, tailSeen) + Distance(tailSeen, i)
    <3>1. head_ \in Index /\ tail_ \in Index /\ tailSeen \in Index
      BY DEF IndexesOK
    <3>2. \/ Distance(head_, tailSeen) + Distance(tailSeen, i) = Distance(head_, i)
          \/ Distance(head_, tailSeen) + Distance(tailSeen, i) = Distance(head_, i) + Capacity
      BY <3>1, DistanceSum
    <3>3. QED BY <3>1, <3>2, <2>4 DEF RingOrder
  <2>6. RingOrder' /\ PopRoom'
    BY <2>4, <2>5 DEF IndexesOK, RingOrder, PopRoom
  <2>7. QED BY <2>3, <2>6
<1>11. CASE UNCHANGED vars
  BY <1>11 DEF vars, IndexesOK, RingOrder, PushRoom, PopRoom, SlotsOK, InHand
<1>12. QED
  BY <1>1, <1>2, <1>3, <1>4, <1>5, <1>6, <1>7, <1>8, <1>9, <1>10, <1>11
  DEF Next, Push, Pop

\* The inductive invariant holds throughout.
LEMMA Invariance == Spec => []IInv
  BY InitIInv, NextIInv, PTL DEF Spec

(***************************************************************************)
(* The properties that TLC checks for a small buffer, for every buffer.    *)
(***************************************************************************)

\* Every index stays inside the array, and try_pop never returns a slot that
\* holds no item.
THEOREM TypeCorrect == Spec => []TypeOK
<1>1. IInv => TypeOK
  BY DEF IInv, IndexesOK, InHand, TypeOK
<1>2. QED BY <1>1, Invariance, PTL

\* try_push never assigns the slot that try_pop is moving from: from the check
\* on, the consumer has an item ahead of it and the producer a free slot.
THEOREM RaceFree == Spec => []NoDataRace
<1>1. IInv => NoDataRace
  BY IndexFacts, DistanceInjective
     DEF IInv, IndexesOK, RingOrder, PopRoom, NoDataRace
<1>2. QED BY <1>1, Invariance, PTL

\* try_push never assigns a slot that holds an item nobody has taken.
THEOREM KeepsUnread == Spec => []NoOverwrite
<1>1. IInv => NoOverwrite
  BY IndexFacts DEF IInv, IndexesOK, SlotsOK, NoOverwrite
<1>2. QED BY <1>1, Invariance, PTL

\* size_approx() is at most the size for the consumer, at least the size for
\* the producer, however late the stores become visible.
THEOREM SizeBounds == Spec => []SizeApproxSafe
<1>1. IInv => SizeApproxSafe
  BY IndexFacts, CapacityAssumption
     DEF IInv, IndexesOK, RingOrder, SizeApproxSafe, Size, ProducerSizeApprox, ConsumerSizeApprox
<1>2. QED BY <1>1, Invariance, PTL

(***************************************************************************)
(* The ring buffer implements BoundedFIFO.                                 *)
(***************************************************************************)

\* The slot k places after h is at distance k from it.
LEMMA SlotAt ==
  ASSUME NEW h \in Index, NEW k \in 0 .. Capacity - 1
  PROVE  /\ (h + k) % Capacity \in Index
         /\ Distance(h, (h + k) % Capacity) = k
<1>1. (h + k) % Capacity = IF h + k < Capacity THEN h + k ELSE h + k - Capacity
  <2>1. CASE h + k < Capacity
    BY <2>1, CapacityAssumption DEF Index
  <2>2. CASE ~(h + k < Capacity)
    BY <2>2, CapacityAssumption DEF Index
  <2>3. QED BY <2>1, <2>2
<1>2. (h + k) % Capacity \in Index
  BY <1>1, CapacityAssumption DEF Index
<1>3. QED BY <1>1, <1>2, DistanceValue, CapacityAssumption DEF Index

\* Moving the head on by one moves every place on by one.
LEMMA SlotFromSucc ==
  ASSUME NEW h \in Index, NEW k \in 0 .. Capacity - 2
  PROVE  (Succ(h) + k) % Capacity = (h + k + 1) % Capacity
<1>1. CASE h = Capacity - 1
  <2>1. Succ(h) + k = k
    BY <1>1, SuccValue, CapacityAssumption
  <2>2. (h + k + 1) % Capacity = k
    BY <1>1, CapacityAssumption
  <2>3. QED BY <2>1, <2>2, CapacityAssumption
<1>2. CASE h # Capacity - 1
  BY <1>2, SuccValue, CapacityAssumption DEF Index
<1>3. QED BY <1>1, <1>2

\* The queued items are a sequence of Size items.
LEMMA ContentsSeq ==
  IInv => /\ Size \in 0 .. Capacity - 1
          /\ Contents \in Seq(Items \cup {Empty})
          /\ Len(Contents) = Size
          /\ DOMAIN Contents = 1 .. Size
<1> SUFFICES ASSUME IInv
             PROVE  /\ Size \in 0 .. Capacity - 1
                    /\ Contents \in Seq(Items \cup {Empty})
                    /\ Len(Contents) = Size
                    /\ DOMAIN Contents = 1 .. Size
  OBVIOUS
<1>1. Size \in 0 .. Capacity - 1
  BY IndexFacts DEF IInv, IndexesOK, Size
<1>2. ASSUME NEW i \in 1 .. Size
      PROVE  (head_ + i - 1) % Capacity \in Index
  <2>1. i - 1 \in 0 .. Capacity - 1 /\ head_ + i - 1 = head_ + (i - 1) /\ head_ \in Index
    BY <1>1, CapacityAssumption DEF IInv, IndexesOK, Index
  <2>2. QED BY <2>1, SlotAt
<1>3. Contents \in [1 .. Size -> Items \cup {Empty}]
  BY <1>2 DEF Contents, IInv, IndexesOK
<1>4. QED BY <1>1, <1>3, CapacityAssumption

\* The constructed queue is an empty FIFO queue with all its credits.
LEMMA InitRefines == Init => FIFO!Init
<1> SUFFICES ASSUME Init PROVE FIFO!Init
  OBVIOUS
<1>1. 0 \in Index /\ Distance(0, 0) = 0
  BY CapacityAssumption, DistanceValue DEF Index
<1>2. Size = 0 /\ ProducerSizeApprox = 0 /\ ConsumerSizeApprox = 0
  BY <1>1 DEF Init, Size, ProducerSizeApprox, ConsumerSizeApprox
<1>3. Contents = << >>
  BY <1>2 DEF Contents
<1>4. QED BY <1>2, <1>3, CapacityAssumption DEF Init, FIFO!Init

\* The place of the i-th queued item, and that it is not the slot at the tail.
LEMMA Places ==
  ASSUME IInv, NEW i \in 1 .. Size
  PROVE  /\ (head_ + i - 1) % Capacity \in Index
         /\ Distance(head_, (head_ + i - 1) % Capacity) = i - 1
         /\ (head_ + i - 1) % Capacity # tail_
         /\ i # 1 => (head_ + i - 1) % Capacity # head_
<1>1. /\ i - 1 \in 0 .. Capacity - 1 /\ head_ + i - 1 = head_ + (i - 1)
      /\ head_ \in Index /\ tail_ \in Index
  <2>1. Size \in 0 .. Capacity - 1 /\ head_ \in Index /\ tail_ \in Index
    BY ContentsSeq DEF IInv, IndexesOK
  <2>2. QED BY <2>1, CapacityAssumption DEF Index
<1>2. /\ (head_ + i - 1) % Capacity \in Index
      /\ Distance(head_, (head_ + i - 1) % Capacity) = i - 1
  BY <1>1, SlotAt
<1>3. QED BY <1>1, <1>2, DistanceInjective DEF Size

\* What it takes for a sequence to be another one with an item at its end ...
LEMMA AppendIs ==
  ASSUME NEW S, NEW s \in Seq(S), NEW e \in S, NEW t \in Seq(S),
         Len(t) = Len(s) + 1,
         \A i \in 1 .. Len(s) : t[i] = s[i],
         t[Len(s) + 1] = e
  PROVE  t = Append(s, e)
<1>1. ASSUME NEW i \in 1 .. Len(t) PROVE t[i] = Append(s, e)[i]
  BY AppendProperties
<1>2. QED BY <1>1, AppendProperties, SeqEqual

\* ... or another one without its first item.
LEMMA TailIs ==
  ASSUME NEW S, NEW s \in Seq(S), Len(s) > 0, NEW t \in Seq(S),
         Len(t) = Len(s) - 1,
         \A i \in 1 .. Len(t) : t[i] = s[i + 1]
  PROVE  t = Tail(s)
<1>1. s # << >>
  OBVIOUS
<1>2. QED BY <1>1, HeadTailProperties, SeqEqual

\* A step that changes nothing the threads of the FIFO queue can see.
LEMMA Stutter ==
  ASSUME Contents' = Contents,
         UNCHANGED <<head_, tail_, headSeen, tailSeen, accepted, popped>>
  PROVE  UNCHANGED FIFO!vars
  BY DEF FIFO!vars, ProducerSizeApprox, ConsumerSizeApprox

\* Every step of the ring buffer is a step of the FIFO queue or leaves it alone:
\* try_push appends where it stores tail_, try_pop takes where it stores head_.
LEMMA NextRefines ==
  ASSUME IInv, IInv', [Next]_vars
  PROVE  [FIFO!Next]_FIFO!vars
<1>0. /\ head_ \in Index /\ tail_ \in Index /\ headSeen \in Index /\ tailSeen \in Index
      /\ buffer_ \in [Index -> Items \cup {Empty}]
      /\ Size \in 0 .. Capacity - 1 /\ Capacity \in Nat \ {0}
      /\ ProducerSizeApprox \in 0 .. Capacity - 1
      /\ ConsumerSizeApprox \in 0 .. Capacity - 1
      /\ Len(Contents) = Size
      /\ Contents \in Seq(Items \cup {Empty})
  BY CapacityAssumption, IndexFacts, ContentsSeq
     DEF IInv, IndexesOK, Size, ProducerSizeApprox, ConsumerSizeApprox
<1>r. /\ Distance(headSeen, head_) + Size = ProducerSizeApprox
      /\ ConsumerSizeApprox + Distance(tailSeen, tail_) = Size
      /\ Distance(headSeen, head_) \in 0 .. Capacity - 1
      /\ Distance(tailSeen, tail_) \in 0 .. Capacity - 1
      /\ pushPc # "idle" => ProducerSizeApprox < Capacity - 1
      /\ popPc # "idle" => ConsumerSizeApprox > 0
  BY <1>0, IndexFacts DEF IInv, RingOrder, PushRoom, PopRoom, Size, ProducerSizeApprox, ConsumerSizeApprox
<1>p. (/\ Size \in 0 .. Capacity - 1
       /\ Contents \in Seq(Items \cup {Empty})
       /\ Len(Contents) = Size
       /\ DOMAIN Contents = 1 .. Size)'
  BY ContentsSeq, PTL
<1>1. CASE PushFull
  <2>1. ProducerSizeApprox = Capacity - 1
    BY <1>1, <1>0, DistanceToSucc, DistanceInjective, CapacityAssumption, IndexFacts
       DEF PushFull, ProducerSizeApprox
  <2>2. Contents' = Contents
    BY <1>1 DEF PushFull, consumerVars, Contents, Size
  <2>3. FIFO!Refuse
    BY <1>1, <2>1, <2>2, <1>0
       DEF PushFull, consumerVars, FIFO!Refuse, ProducerSizeApprox, ConsumerSizeApprox
  <2>4. QED BY <2>3 DEF FIFO!Next
<1>2. ASSUME NEW item \in Items, PushCheck(item) PROVE UNCHANGED FIFO!vars
  <2>1. Contents' = Contents
    BY <1>2 DEF PushCheck, consumerVars, Contents, Size
  <2>2. QED BY <1>2, <2>1, Stutter DEF PushCheck, consumerVars
<1>3. CASE PushWrite
  <2>1. ASSUME NEW i \in 1 .. Size
        PROVE  buffer_'[(head_ + i - 1) % Capacity] = buffer_[(head_ + i - 1) % Capacity]
    BY <1>3, <1>0, Places DEF PushWrite
  <2>2. Contents' = Contents
    BY <1>3, <2>1 DEF PushWrite, consumerVars, Contents, Size
  <2>3. QED BY <1>3, <2>2, Stutter DEF PushWrite, consumerVars
<1>4. CASE PushPublish
  <2>1. /\ ProducerSizeApprox' = ProducerSizeApprox + 1
        /\ Size' = Size + 1
        /\ ConsumerSizeApprox' = ConsumerSizeApprox
    <3>1. Size < Capacity - 1 /\ ProducerSizeApprox < Capacity - 1
      BY <1>4, <1>0, <1>r DEF PushPublish
    <3>2. QED
      BY <1>4, <1>0, <3>1, DistanceToSucc
         DEF PushPublish, consumerVars, Size, ProducerSizeApprox, ConsumerSizeApprox
  <2>a. /\ pushItem \in Items /\ buffer_[tail_] = pushItem
        /\ Size = 0 => popPc # "publish"
    BY <1>4, <1>0, <1>r DEF PushPublish, IInv, InHand
  <2>2. (head_ + (Size + 1) - 1) % Capacity = tail_
    <3>1. head_ + (Size + 1) - 1 = head_ + Size
      BY <1>0 DEF Index
    <3>2. /\ (head_ + Size) % Capacity \in Index
          /\ Distance(head_, (head_ + Size) % Capacity) = Distance(head_, tail_)
      BY <1>0, SlotAt DEF Size
    <3>3. QED BY <1>0, <3>1, <3>2, DistanceInjective
  <2>3. Contents' = Append(Contents, pushItem)
    <3>1. Contents' = [i \in 1 .. Size + 1 |->
                         IF i = 1 /\ popPc = "publish" THEN popItem
                         ELSE buffer_[(head_ + i - 1) % Capacity]]
      BY <1>4, <2>1 DEF PushPublish, consumerVars, Contents
    <3>2. Contents'[Size + 1] = pushItem
      BY <1>0, <3>1, <2>a, <2>2
    <3>3. ASSUME NEW i \in 1 .. Size PROVE Contents'[i] = Contents[i]
      <4>1. i \in 1 .. Size + 1
        BY <1>0
      <4>2. QED BY <4>1, <3>1 DEF Contents
    <3>4. QED BY <3>2, <3>3, <1>0, <1>p, <2>1, <2>a, AppendIs
  <2>4. FIFO!Push(pushItem)
    <3>1. Capacity - 1 - ProducerSizeApprox > 0
      BY <1>4, <1>0, <1>r DEF PushPublish
    <3>2. Capacity - 1 - ProducerSizeApprox' = Capacity - 1 - ProducerSizeApprox - 1
      BY <1>0, <2>1
    <3>3. QED BY <1>4, <2>1, <2>3, <3>1, <3>2 DEF PushPublish, consumerVars, FIFO!Push
  <2>5. QED BY <2>a, <2>4 DEF FIFO!Next
<1>5. CASE PopEmpty
  <2>1. ConsumerSizeApprox = 0
    BY <1>5, <1>0, DistanceInjective DEF PopEmpty, ConsumerSizeApprox
  <2>2. Contents' = Contents
    BY <1>5 DEF PopEmpty, producerVars, Contents, Size
  <2>3. FIFO!PopNothing
    BY <1>5, <2>1, <2>2, <1>0
       DEF PopEmpty, producerVars, FIFO!PopNothing, ProducerSizeApprox, ConsumerSizeApprox
  <2>4. QED BY <2>3 DEF FIFO!Next
<1>6. CASE PopCheck
  <2>1. Contents' = Contents
    BY <1>6 DEF PopCheck, producerVars, Contents, Size
  <2>2. QED BY <1>6, <2>1, Stutter DEF PopCheck, producerVars
<1>7. CASE PopMove
  <2>1. ASSUME NEW i \in 1 .. Size, i # 1
        PROVE  buffer_'[(head_ + i - 1) % Capacity] = buffer_[(head_ + i - 1) % Capacity]
    BY <1>7, <2>1, <1>0, Places DEF PopMove
  <2>2. (head_ + 1 - 1) % Capacity = head_
    BY <1>0 DEF Index
  <2>3. Contents' = Contents
    BY <1>7, <2>1, <2>2 DEF PopMove, producerVars, Contents, Size
  <2>4. QED BY <1>7, <2>3, Stutter DEF PopMove, producerVars
<1>8. CASE PopPublish
  <2>1. /\ ConsumerSizeApprox > 0 /\ Size > 0
        /\ head_ # tail_ /\ head_ # tailSeen
    <3>1. ConsumerSizeApprox > 0 /\ Size > 0
      BY <1>8, <1>0, <1>r DEF PopPublish
    <3>2. QED BY <3>1, <1>0, DistanceInjective DEF Size, ConsumerSizeApprox
  <2>2. /\ ConsumerSizeApprox' = ConsumerSizeApprox - 1
        /\ Size' = Size - 1
        /\ ProducerSizeApprox' = ProducerSizeApprox
    BY <1>8, <1>0, <2>1, DistanceFromSucc
       DEF PopPublish, producerVars, Size, ConsumerSizeApprox, ProducerSizeApprox
  <2>3. Contents' = Tail(Contents)
    <3>1. Contents' = [i \in 1 .. Size - 1 |-> buffer_[(Succ(head_) + i - 1) % Capacity]]
      BY <1>8, <2>2 DEF PopPublish, producerVars, Contents
    <3>3. ASSUME NEW i \in 1 .. Size - 1
          PROVE  buffer_[(Succ(head_) + i - 1) % Capacity] = Contents[i + 1]
      <4>1. i - 1 \in 0 .. Capacity - 2 /\ i + 1 \in 1 .. Size /\ i + 1 # 1
        BY <1>0
      <4>2. /\ Succ(head_) + (i - 1) = Succ(head_) + i - 1
            /\ head_ + (i - 1) + 1 = head_ + (i + 1) - 1
        BY <1>0, IndexFacts DEF Index
      <4>3. (Succ(head_) + i - 1) % Capacity = (head_ + (i + 1) - 1) % Capacity
        BY <1>0, <4>1, <4>2, SlotFromSucc
      <4>4. QED BY <4>1, <4>3 DEF Contents
    <3>4. QED BY <3>1, <3>3, <1>0, <1>p, <2>1, <2>2, TailIs
  <2>4. Head(Contents) = popItem
    BY <1>8, <1>0, <2>1, ContentsSeq DEF PopPublish, Contents
  <2>5. FIFO!Pop
    BY <1>8, <2>1, <2>2, <2>3, <2>4 DEF PopPublish, producerVars, FIFO!Pop
  <2>6. QED BY <2>5 DEF FIFO!Next
<1>9. CASE HeadVisible
  <2>1. PICK i \in Index : /\ 0 < Distance(headSeen, i)
                          /\ Distance(headSeen, i) <= Distance(headSeen, head_)
                          /\ headSeen' = i
    BY <1>9 DEF HeadVisible
  <2>2. UNCHANGED <<producerVars, consumerVars, buffer_, tailSeen>>
    BY <1>9 DEF HeadVisible
  <2>3. Contents' = Contents /\ Len(Contents) = Distance(head_, tail_)
    BY <2>2, <1>0 DEF producerVars, consumerVars, Contents, Size
  <2>4. /\ ProducerSizeApprox' < ProducerSizeApprox /\ Size <= ProducerSizeApprox'
        /\ ProducerSizeApprox' \in 0 .. Capacity - 1
        /\ ConsumerSizeApprox' = ConsumerSizeApprox
    <3>1. /\ ProducerSizeApprox' = Distance(i, tail_)
          /\ ConsumerSizeApprox' = ConsumerSizeApprox
          /\ Distance(i, tail_) \in 0 .. Capacity - 1
          /\ Distance(headSeen, i) \in 0 .. Capacity - 1
      BY <1>0, <2>1, <2>2, IndexFacts DEF producerVars, consumerVars, ProducerSizeApprox, ConsumerSizeApprox
    <3>2. Distance(headSeen, i) <= ProducerSizeApprox
      BY <1>0, <1>r, <2>1, <3>1
    <3>3. Distance(headSeen, i) + Distance(i, tail_) = ProducerSizeApprox
      BY <1>0, <3>2, DistanceSum DEF ProducerSizeApprox
    <3>4. QED BY <1>0, <1>r, <2>1, <3>1, <3>3
  <2>5. FIFO!Grant
    <3>1. Capacity - 1 - ProducerSizeApprox' \in
            Capacity - 1 - ProducerSizeApprox + 1 .. Capacity - 1 - Len(Contents)
      <4>1. \A c, p, q, n \in Int : q < p /\ n <= q => c - q \in c - p + 1 .. c - n
        OBVIOUS
      <4>2. /\ Capacity - 1 \in Int /\ ProducerSizeApprox \in Int
            /\ ProducerSizeApprox' \in Int /\ Len(Contents) \in Int
            /\ Len(Contents) <= ProducerSizeApprox'
        BY <1>0, <2>4
      <4>3. QED BY <4>1, <4>2, <2>4
    <3>2. QED BY <3>1, <2>2, <2>3, <2>4 DEF producerVars, consumerVars, FIFO!Grant
  <2>6. QED BY <2>5 DEF FIFO!Next
<1>10. CASE TailVisible
  <2>1. PICK i \in Index : /\ 0 < Distance(tailSeen, i)
                          /\ Distance(tailSeen, i) <= Distance(tailSeen, tail_)
                          /\ tailSeen' = i
    BY <1>10 DEF TailVisible
  <2>2. UNCHANGED <<producerVars, consumerVars, buffer_, headSeen>>
    BY <1>10 DEF TailVisible
  <2>3. Contents' = Contents /\ Len(Contents) = Distance(head_, tail_)
    BY <2>2, <1>0 DEF producerVars, consumerVars, Contents, Size
  <2>4. /\ ConsumerSizeApprox < ConsumerSizeApprox' /\ ConsumerSizeApprox' <= Size
        /\ ConsumerSizeApprox' \in 0 .. Capacity - 1
        /\ ProducerSizeApprox' = ProducerSizeApprox
    <3>1. /\ ConsumerSizeApprox' = Distance(head_, i)
          /\ ProducerSizeApprox' = ProducerSizeApprox
          /\ Distance(head_, i) \in 0 .. Capacity - 1
          /\ Distance(tailSeen, i) \in 0 .. Capacity - 1
          /\ Distance(i, tail_) \in 0 .. Capacity - 1
      BY <1>0, <2>1, <2>2, IndexFacts DEF producerVars, consumerVars, ProducerSizeApprox, ConsumerSizeApprox
    <3>2. Distance(tailSeen, i) + Distance(i, tail_) = Distance(tailSeen, tail_)
      BY <1>0, <2>1, DistanceSum
    <3>3. Distance(head_, i) + Distance(i, tail_) = Size
      BY <2>1, <2>2 DEF IInv, IndexesOK, RingOrder, producerVars, consumerVars, Size
    <3>4. QED BY <1>0, <1>r, <2>1, <3>1, <3>2, <3>3
  <2>5. FIFO!Offer
    <3>1. ConsumerSizeApprox' \in ConsumerSizeApprox + 1 .. Len(Contents)
      BY <1>0, <2>4
    <3>2. QED BY <3>1, <2>2, <2>3, <2>4 DEF producerVars, consumerVars, FIFO!Offer
  <2>6. QED BY <2>5 DEF FIFO!Next
<1>11. CASE UNCHANGED vars
  <2>1. Contents' = Contents
    BY <1>11 DEF vars, Contents, Size
  <2>2. QED BY <1>11, <2>1, Stutter DEF vars
<1>12. QED
  BY <1>1, <1>2, <1>3, <1>4, <1>5, <1>6, <1>7, <1>8, <1>9, <1>10, <1>11
  DEF Next, Push, Pop

\* The ring buffer implements the flow-controlled FIFO queue, whatever its
\* capacity: no item is lost, duplicated or reordered, a push is refused only for
\* want of room the producer knows of and a pop only for want of items the
\* consumer knows of.
THEOREM Refinement == Spec => ImplementsFIFO
<1>1. IInv /\ IInv' /\ [Next]_vars => [FIFO!Next]_FIFO!vars
  BY NextRefines
<1>2. QED BY <1>1, InitRefines, Invariance, PTL DEF Spec, ImplementsFIFO, FIFO!Spec
=============================================================================
