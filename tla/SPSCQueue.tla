----------------------------- MODULE SPSCQueue -----------------------------
(***************************************************************************)
(* SPSCQueue<T, Capacity> of include/spsc_queue.h: the lock-free ring      *)
(* buffer between the receiver thread (producer, try_push) and the main    *)
(* thread (consumer, try_pop).                                             *)
(*                                                                         *)
(* Every access another thread can observe is a step of its own: the       *)
(* acquire load of the other thread's index, the access to the slot, the   *)
(* release store of the own index.  The relaxed load of the own index is   *)
(* part of the step that follows it: no other thread writes that index.    *)
(*                                                                         *)
(* The release stores reach the other thread late.  head_ and tail_ are    *)
(* the latest values in modification order; headSeen and tailSeen are the  *)
(* values that an acquire load of the other thread returns.  They follow   *)
(* the latest values in order, possibly skipping some (coherence of a      *)
(* single atomic), at times of the machine's choosing.                     *)
(*                                                                         *)
(* "& kMask" is "% Capacity": the static_assert makes Capacity a power of  *)
(* two (the module MCSPSCQueue has TLC compare the two).                   *)
(***************************************************************************)
EXTENDS Integers, Sequences

CONSTANTS Capacity,   \* number of slots
          Items,      \* what is queued
          NullOpt,    \* std::nullopt
          Empty       \* a default-constructed or moved-from slot

ASSUME CapacityAssumption == Capacity \in Nat \ {0}
ASSUME ItemsAssumption == NullOpt \notin Items /\ Empty \notin Items

VARIABLES
  head_,      \* index of the oldest item, stored by the consumer
  tail_,      \* index of the next free slot, stored by the producer
  buffer_,    \* the slots
  headSeen,   \* what the producer's acquire load of head_ returns
  tailSeen,   \* what the consumer's acquire load of tail_ returns
  pushPc,     \* where the producer is in try_push
  pushItem,   \* the item of the try_push in progress
  accepted,   \* what the last try_push returned
  popPc,      \* where the consumer is in try_pop
  popItem,    \* the local "item" of the try_pop in progress
  popped      \* what the last try_pop returned

producerVars == <<tail_, pushPc, pushItem, accepted>>
consumerVars == <<head_, popPc, popItem, popped>>
vars == <<head_, tail_, buffer_, headSeen, tailSeen,
          pushPc, pushItem, accepted, popPc, popItem, popped>>

Index == 0 .. Capacity - 1

\* Mutant: the mask is forgotten.
SuccUnmasked(i) == i + 1

\* (i + 1) & kMask
Succ(i) == (i + 1) % Capacity

\* (b - a) & kMask: how many steps forward lead from index a to index b.
Distance(a, b) == (b - a) % Capacity

Init == /\ head_ = 0 /\ tail_ = 0
        /\ buffer_ = [i \in Index |-> Empty]
        /\ headSeen = 0 /\ tailSeen = 0
        /\ pushPc = "idle" /\ pushItem = Empty /\ accepted = TRUE
        /\ popPc = "idle" /\ popItem = Empty /\ popped = NullOpt

-----------------------------------------------------------------------------
(* Producer: try_push *)

\* The queue looks full: return false.
PushFull == /\ pushPc = "idle"
            /\ Succ(tail_) = headSeen
            /\ accepted' = FALSE
            /\ UNCHANGED <<tail_, pushPc, pushItem, buffer_, headSeen, tailSeen, consumerVars>>

\* Mutant: the full test is forgotten.
PushCheckUntested(item) == /\ pushPc = "idle"
                           /\ pushPc' = "write"
                           /\ pushItem' = item
                           /\ UNCHANGED <<tail_, accepted, buffer_, headSeen, tailSeen, consumerVars>>

\* There is room for the item.
PushCheck(item) == /\ pushPc = "idle"
                   /\ Succ(tail_) # headSeen
                   /\ pushPc' = "write"
                   /\ pushItem' = item
                   /\ UNCHANGED <<tail_, accepted, buffer_, headSeen, tailSeen, consumerVars>>

\* Mutant: the item goes to the slot of the next index.
PushWriteNext == /\ pushPc = "write"
                 /\ buffer_' = [buffer_ EXCEPT ![Succ(tail_)] = pushItem]
                 /\ pushPc' = "publish"
                 /\ UNCHANGED <<tail_, pushItem, accepted, headSeen, tailSeen, consumerVars>>

PushWrite == /\ pushPc = "write"
             /\ buffer_' = [buffer_ EXCEPT ![tail_] = pushItem]
             /\ pushPc' = "publish"
             /\ UNCHANGED <<tail_, pushItem, accepted, headSeen, tailSeen, consumerVars>>

PushPublish == /\ pushPc = "publish"
               /\ tail_' = Succ(tail_)
               /\ pushPc' = "idle"
               /\ pushItem' = Empty
               /\ accepted' = TRUE
               /\ UNCHANGED <<buffer_, headSeen, tailSeen, consumerVars>>

-----------------------------------------------------------------------------
(* Consumer: try_pop *)

\* The queue looks empty: return std::nullopt.
PopEmpty == /\ popPc = "idle"
            /\ head_ = tailSeen
            /\ popped' = NullOpt
            /\ UNCHANGED <<producerVars, buffer_, headSeen, tailSeen, head_, popPc, popItem>>

\* Mutant: the empty test is forgotten.
PopCheckUntested == /\ popPc = "idle"
                    /\ popPc' = "move"
                    /\ UNCHANGED <<producerVars, buffer_, headSeen, tailSeen, head_, popItem, popped>>

\* Mutant: the last item is taken for the empty slot.
PopCheckOffByOne == /\ popPc = "idle"
                    /\ Distance(head_, tailSeen) > 1
                    /\ popPc' = "move"
                    /\ UNCHANGED <<producerVars, buffer_, headSeen, tailSeen, head_, popItem, popped>>

PopCheck == /\ popPc = "idle"
            /\ head_ # tailSeen
            /\ popPc' = "move"
            /\ UNCHANGED <<producerVars, buffer_, headSeen, tailSeen, head_, popItem, popped>>

\* The move leaves a valid but valueless T in the slot.
PopMove == /\ popPc = "move"
           /\ popItem' = buffer_[head_]
           /\ buffer_' = [buffer_ EXCEPT ![head_] = Empty]
           /\ popPc' = "publish"
           /\ UNCHANGED <<producerVars, headSeen, tailSeen, head_, popped>>

PopPublish == /\ popPc = "publish"
              /\ head_' = Succ(head_)
              /\ popped' = popItem
              /\ popItem' = Empty
              /\ popPc' = "idle"
              /\ UNCHANGED <<producerVars, buffer_, headSeen, tailSeen>>

-----------------------------------------------------------------------------
(* Memory: a release store becomes visible to the other thread's acquire load *)

HeadVisible == /\ \E i \in Index :
                    /\ 0 < Distance(headSeen, i)
                    /\ Distance(headSeen, i) <= Distance(headSeen, head_)
                    /\ headSeen' = i
               /\ UNCHANGED <<producerVars, consumerVars, buffer_, tailSeen>>

TailVisible == /\ \E i \in Index :
                    /\ 0 < Distance(tailSeen, i)
                    /\ Distance(tailSeen, i) <= Distance(tailSeen, tail_)
                    /\ tailSeen' = i
               /\ UNCHANGED <<producerVars, consumerVars, buffer_, headSeen>>

-----------------------------------------------------------------------------
Push == PushFull \/ (\E item \in Items : PushCheck(item)) \/ PushWrite \/ PushPublish
Pop == PopEmpty \/ PopCheck \/ PopMove \/ PopPublish
Next == Push \/ Pop \/ HeadVisible \/ TailVisible

(***************************************************************************)
(* A call that was begun is finished, a store becomes visible in finite    *)
(* time ([intro.progress]), and the consumer keeps polling: spin_receive   *)
(* loops over try_pop.  Nobody has to call try_push.                       *)
(***************************************************************************)
Fairness == /\ WF_vars(PushWrite) /\ WF_vars(PushPublish)
            /\ WF_vars(PopCheck) /\ WF_vars(PopMove) /\ WF_vars(PopPublish)
            /\ WF_vars(HeadVisible) /\ WF_vars(TailVisible)

Spec == Init /\ [][Next]_vars
FairSpec == Spec /\ Fairness

-----------------------------------------------------------------------------
(* Properties *)

TypeOK == /\ head_ \in Index /\ tail_ \in Index
          /\ headSeen \in Index /\ tailSeen \in Index
          /\ buffer_ \in [Index -> Items \cup {Empty}]
          /\ pushPc \in {"idle", "write", "publish"}
          /\ pushItem \in Items \cup {Empty}
          /\ accepted \in BOOLEAN
          /\ popPc \in {"idle", "move", "publish"}
          /\ popItem \in Items \cup {Empty}
          /\ popped \in Items \cup {NullOpt}

\* (tail - head) & kMask as each side computes it: its own index is exact,
\* the other one is what its acquire load returns.
ProducerSizeApprox == Distance(headSeen, tail_)
ConsumerSizeApprox == Distance(head_, tailSeen)

\* The number of published items.
Size == Distance(head_, tail_)

\* The unsynchronised accesses to the slots never conflict: the producer is
\* never about to assign the slot that the consumer is about to move from
\* (buffer_[tail] = ... in try_push against std::move(buffer_[head]) in try_pop).
NoDataRace == ~(pushPc = "write" /\ popPc = "move" /\ tail_ = head_)

\* The producer never assigns a slot whose item was not taken yet: try_push
\* reserves one slot, so no unread message is lost to wrap-around.
NoOverwrite == pushPc = "write" => buffer_[tail_] = Empty

\* size_approx() errs to the safe side on both threads: the consumer never
\* counts an item that is not there, the producer never counts a slot as free
\* that is not.
SizeApproxSafe == ConsumerSizeApprox <= Size /\ Size <= ProducerSizeApprox

\* The queue in the words of BoundedFIFO.  While try_pop holds the oldest item
\* in its local variable, it is still the oldest item of the queue.
Contents == [i \in 1 .. Size |->
               IF i = 1 /\ popPc = "publish" THEN popItem
               ELSE buffer_[(head_ + i - 1) % Capacity]]

FIFO == INSTANCE BoundedFIFO
          WITH MaxItems <- Capacity - 1,
               items <- Contents,
               credit <- Capacity - 1 - ProducerSizeApprox,
               offered <- ConsumerSizeApprox

\* The ring buffer implements the flow-controlled FIFO queue: items leave in the
\* order they came, each once, and a thread is refused only for what it has not
\* been told yet.
ImplementsFIFO == FIFO!Spec

\* It is fair like that queue: what was pushed is offered to try_pop and popped in
\* the end when the consumer keeps polling, and room that was made is found by
\* try_push in the end.
FIFOIsFair == FIFO!Fairness
=============================================================================
