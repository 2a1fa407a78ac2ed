---------------------------- MODULE BoundedFIFO ----------------------------
(***************************************************************************)
(* What a single-producer single-consumer queue promises its two threads.  *)
(* There is one sequence of items, never longer than MaxItems, that the    *)
(* producer appends to and the consumer takes the oldest item from.        *)
(*                                                                         *)
(* The two threads learn of each other's progress with a delay, so the     *)
(* promise is one of flow control.  The producer holds credits: it is      *)
(* refused only when it has none, and an item that was taken comes back to *)
(* it as a credit some time later.  The consumer holds offers: it is told  *)
(* "empty" only when it has none, and an item that was pushed is offered   *)
(* to it some time later.                                                  *)
(***************************************************************************)
EXTENDS Naturals, Sequences

CONSTANTS Items,      \* what is queued
          MaxItems,   \* how many items the queue holds at most
          NullOpt     \* what an unsuccessful pop returns

VARIABLES items,      \* the queued items, oldest first
          credit,     \* how many more items the producer knows it can push
          offered,    \* how many items the consumer knows it can pop
          accepted,   \* what the last push returned
          popped      \* what the last pop returned

vars == <<items, credit, offered, accepted, popped>>

Init == /\ items = << >>
        /\ credit = MaxItems
        /\ offered = 0
        /\ accepted = TRUE
        /\ popped = NullOpt

Push(item) == /\ credit > 0
              /\ items' = Append(items, item)
              /\ credit' = credit - 1
              /\ accepted' = TRUE
              /\ UNCHANGED <<offered, popped>>

Refuse == /\ credit = 0
          /\ accepted' = FALSE
          /\ UNCHANGED <<items, credit, offered, popped>>

Pop == /\ offered > 0
       /\ popped' = Head(items)
       /\ items' = Tail(items)
       /\ offered' = offered - 1
       /\ UNCHANGED <<credit, accepted>>

PopNothing == /\ offered = 0
              /\ popped' = NullOpt
              /\ UNCHANGED <<items, credit, offered, accepted>>

\* The producer learns that items were taken.
Grant == /\ \E c \in credit + 1 .. MaxItems - Len(items) : credit' = c
         /\ UNCHANGED <<items, offered, accepted, popped>>

\* The consumer learns that items were pushed.
Offer == /\ \E n \in offered + 1 .. Len(items) : offered' = n
         /\ UNCHANGED <<items, credit, accepted, popped>>

Next == \/ \E item \in Items : Push(item)
        \/ Refuse \/ Pop \/ PopNothing \/ Grant \/ Offer

Spec == Init /\ [][Next]_vars

\* News travels in finite time and the consumer keeps asking.
Fairness == WF_vars(Grant) /\ WF_vars(Offer) /\ WF_vars(Pop)

FairSpec == Spec /\ Fairness
=============================================================================
