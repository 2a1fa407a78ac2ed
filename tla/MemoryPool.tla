---------------------------- MODULE MemoryPool -----------------------------
(***************************************************************************)
(* MemoryPool<BlockSize, NumBlocks> and PoolPtr of include/memory_pool.h.  *)
(*                                                                         *)
(* The free list has no storage of its own: the first word of a free block *)
(* is the link to the next one, and the same word is the user's while the  *)
(* block is allocated.  mem holds that word of every block.                *)
(*                                                                         *)
(* A pool is used by one thread: an action is a whole call.  A block is a  *)
(* pair of its pool and its number, which stands for an address: blocks do *)
(* not overlap.                                                            *)
(***************************************************************************)
EXTENDS Naturals, FiniteSets

CONSTANTS Pools,       \* the MemoryPool objects
          NumBlocks,
          Handles,     \* the PoolPtr objects
          Null,        \* nullptr
          Data         \* what a user writes over a link

ASSUME NumBlocksAssumption == NumBlocks \in Nat \ {0}
ASSUME PoolsAssumption ==
  Null \notin Pools \X (1 .. NumBlocks) /\ Data \notin Pools \X (1 .. NumBlocks) \cup {Null}

Blocks == Pools \X (1 .. NumBlocks)

VARIABLES
  free_head_, free_count_,   \* of each pool
  mem,                       \* the first word of each block
  ptr,                       \* of each handle: [alive, pool_, ptr_]
  raw,                       \* blocks that were released from a handle
  aborted                    \* an assertion has failed

vars == <<free_head_, free_count_, mem, ptr, raw, aborted>>
poolVars == <<free_head_, free_count_, mem>>

\* A handle that does not exist (its pool_ means nothing).
NoHandle == [alive |-> FALSE, pool_ |-> Null, ptr_ |-> Null]
Handle(p, b) == [alive |-> TRUE, pool_ |-> p, ptr_ |-> b]

\* The constructor links the blocks in ascending order.
Init == /\ free_head_ = [p \in Pools |-> <<p, 1>>]
        /\ free_count_ = [p \in Pools |-> NumBlocks]
        /\ mem = [b \in Blocks |-> IF b[2] = NumBlocks THEN Null ELSE <<b[1], b[2] + 1>>]
        /\ ptr = [h \in Handles |-> NoHandle]
        /\ raw = {}
        /\ aborted = FALSE

-----------------------------------------------------------------------------
(* The pool *)

owns(p, b) == b[1] = p

\* What is read through a pointer; anything but a block is garbage.
Word(b) == IF b \in Blocks THEN mem[b] ELSE Data

\* allocate() returns the old free_head_[p].
allocate(p) == IF free_head_[p] = Null THEN UNCHANGED poolVars
               ELSE /\ free_head_' = [free_head_ EXCEPT ![p] = Word(@)]
                    /\ free_count_' = [free_count_ EXCEPT ![p] = @ - 1]
                    /\ UNCHANGED mem

\* Mutant: the block is not linked to the old head.
DeallocateUnlinked(p, b) ==
  IF b = Null THEN UNCHANGED <<poolVars, aborted>>
  ELSE IF ~owns(p, b) THEN aborted' = TRUE /\ UNCHANGED poolVars
  ELSE /\ free_head_' = [free_head_ EXCEPT ![p] = b]
       /\ free_count_' = [free_count_ EXCEPT ![p] = @ + 1]
       /\ UNCHANGED <<mem, aborted>>

deallocate(p, b) ==
  IF b = Null THEN UNCHANGED <<poolVars, aborted>>
  ELSE IF ~owns(p, b) THEN aborted' = TRUE /\ UNCHANGED poolVars
  ELSE /\ mem' = [mem EXCEPT ![b] = free_head_[p]]
       /\ free_head_' = [free_head_ EXCEPT ![p] = b]
       /\ free_count_' = [free_count_ EXCEPT ![p] = @ + 1]
       /\ UNCHANGED aborted

-----------------------------------------------------------------------------
(* PoolPtr and its user *)

\* PoolPtr(pool)
Construct(h, p) == /\ ~aborted /\ ~ptr[h].alive
                   /\ allocate(p)
                   /\ ptr' = [ptr EXCEPT ![h] = Handle(p, free_head_[p])]
                   /\ UNCHANGED <<raw, aborted>>

\* ~PoolPtr()
Destruct(h) == /\ ~aborted /\ ptr[h].alive
               /\ deallocate(ptr[h].pool_, ptr[h].ptr_)
               /\ ptr' = [ptr EXCEPT ![h] = NoHandle]
               /\ UNCHANGED raw

\* Mutant: the source keeps its pointer.
MoveConstructCopy(h, other) == /\ ~aborted /\ ~ptr[h].alive /\ ptr[other].alive
                               /\ ptr' = [ptr EXCEPT ![h] = ptr[other]]
                               /\ UNCHANGED <<poolVars, raw, aborted>>

\* PoolPtr(PoolPtr&& other)
MoveConstruct(h, other) == /\ ~aborted /\ ~ptr[h].alive /\ ptr[other].alive
                           /\ ptr' = [ptr EXCEPT ![h] = ptr[other], ![other].ptr_ = Null]
                           /\ UNCHANGED <<poolVars, raw, aborted>>

\* operator=(PoolPtr&& other): pool_ is a reference and stays what it was.
MoveAssign(h, other) ==
  /\ ~aborted /\ ptr[h].alive /\ ptr[other].alive
  /\ IF h = other THEN UNCHANGED <<poolVars, ptr, aborted>>
     ELSE /\ deallocate(ptr[h].pool_, ptr[h].ptr_)
          /\ ptr' = [ptr EXCEPT ![h].ptr_ = ptr[other].ptr_, ![other].ptr_ = Null]
  /\ UNCHANGED raw

\* release(): the caller becomes the owner.
Release(h) == /\ ~aborted /\ ptr[h].alive /\ ptr[h].ptr_ # Null
              /\ raw' = raw \cup {ptr[h].ptr_}
              /\ ptr' = [ptr EXCEPT ![h].ptr_ = Null]
              /\ UNCHANGED <<poolVars, aborted>>

\* pool.deallocate(p) of a released block, by its own pool.
DeallocateRaw(b) == /\ ~aborted /\ b \in raw
                    /\ deallocate(b[1], b)
                    /\ raw' = raw \ {b}
                    /\ UNCHANGED ptr

\* The user writes to the block (the memcpy of the "bench" command).
Write(b) == /\ ~aborted
            /\ b \in raw \/ \E h \in Handles : ptr[h].ptr_ = b
            /\ mem' = [mem EXCEPT ![b] = Data]
            /\ UNCHANGED <<free_head_, free_count_, ptr, raw, aborted>>

Aborted == aborted /\ UNCHANGED vars

Next == \/ \E h \in Handles : \/ \E p \in Pools : Construct(h, p)
                              \/ Destruct(h) \/ Release(h)
                              \/ \E other \in Handles : MoveConstruct(h, other) \/ MoveAssign(h, other)
        \/ \E b \in Blocks : DeallocateRaw(b) \/ Write(b)
        \/ Aborted

Spec == Init /\ [][Next]_vars

-----------------------------------------------------------------------------
(* Properties *)

Pointers == Blocks \cup {Null, Data}

TypeOK == /\ free_head_ \in [Pools -> Pointers]
          /\ free_count_ \in [Pools -> 0 .. NumBlocks]
          /\ mem \in [Blocks -> Pointers]
          /\ \A h \in Handles : \/ ptr[h] = NoHandle
                                \/ ptr[h] \in [alive : {TRUE}, pool_ : Pools, ptr_ : Blocks \cup {Null}]
          /\ raw \subseteq Blocks
          /\ aborted \in BOOLEAN

Owners(b) == {h \in Handles : ptr[h].ptr_ = b}

\* A block is never handed out twice: it has one owner, a PoolPtr or whoever
\* released it, whatever was moved, assigned and released.
NoSharedBlock == \A b \in Blocks : Cardinality(Owners(b)) + (IF b \in raw THEN 1 ELSE 0) <= 1

\* The n-th block of the free list of p, counting from 0.
FreeBlock(p) == [n \in 0 .. NumBlocks |->
  LET nth[m \in 0 .. NumBlocks] == IF m = 0 THEN free_head_[p] ELSE Word(nth[m - 1])
  IN  nth[n]]

\* Following the links visits free_count_ different blocks and ends in nullptr,
\* and these are the blocks of the pool that nobody owns: no block is lost, the
\* user's data is never taken for a link, and allocate() fails only when all
\* blocks are out.
FreeListExact ==
  ~aborted =>
    \A p \in Pools :
      LET n == free_count_[p]
          onList == {FreeBlock(p)[m] : m \in 0 .. n - 1}
      IN  /\ FreeBlock(p)[n] = Null
          /\ Cardinality(onList) = n
          /\ onList = {b \in Blocks : b[1] = p /\ Owners(b) = {} /\ b \notin raw}
=============================================================================
