-------------------------- MODULE MemoryPoolProofs --------------------------
(***************************************************************************)
(* Proofs about MemoryPool, for any pools, any number of blocks and any    *)
(* handles.                                                                *)
(*                                                                         *)
(* The free list is threaded through the free blocks, so FreeListExact,    *)
(* which follows the links, is not inductive by itself: the invariant says *)
(* that there is a sequence of blocks that the links run through.  An      *)
(* allocate() takes its first element, a deallocate() puts one in front,   *)
(* and a write reaches none of its elements.  That the definition of       *)
(* FreeListExact finds this sequence is proved by induction on the links   *)
(* (LinksFollowed).                                                        *)
(***************************************************************************)
EXTENDS MemoryPool, FiniteSetTheorems, WellFoundedInduction, TLAPS

-----------------------------------------------------------------------------
(* The inductive invariant *)

\* What a handle can be.
Ptrs == {NoHandle} \cup [alive : {TRUE}, pool_ : Pools, ptr_ : Blocks \cup {Null}]

\* TypeOK in two parts, what the pools keep and what their users keep.  That
\* free_count_ is bounded follows from the free list.
PoolTypes == /\ free_head_ \in [Pools -> Pointers]
             /\ free_count_ \in [Pools -> Nat]
             /\ mem \in [Blocks -> Pointers]
             /\ aborted \in BOOLEAN
UserTypes == ptr \in [Handles -> Ptrs] /\ raw \subseteq Blocks

\* A block has one owner, a handle or whoever released it.
Sole == /\ \A h, g \in Handles : h # g /\ ptr[h].ptr_ = ptr[g].ptr_ => ptr[h].ptr_ = Null
        /\ \A h \in Handles : ptr[h].ptr_ \notin raw

\* Nobody owns b.
Free(b) == b \notin raw /\ \A h \in Handles : ptr[h].ptr_ # b

\* f[0], ..., f[n - 1] are the blocks of p that nobody owns, each once, in the order
\* of the links, which end in nullptr.
IsFreeList(p, f, n) ==
  /\ f[0] = free_head_[p] /\ f[n] = Null
  /\ \A m \in 0 .. n - 1 : /\ f[m] \in Blocks /\ f[m][1] = p /\ Free(f[m])
                           /\ f[m + 1] = mem[f[m]]
  /\ \A m, l \in 0 .. n - 1 : f[m] = f[l] => m = l
  /\ \A b \in Blocks : b[1] = p /\ Free(b) => \E m \in 0 .. n - 1 : f[m] = b

\* The free list of a pool has free_count_ blocks.
Lists == \A p \in Pools : \E f : IsFreeList(p, f, free_count_[p])

\* After a failed assertion a block may be neither owned nor free.
IInv == PoolTypes /\ UserTypes /\ Sole /\ (~aborted => Lists)

-----------------------------------------------------------------------------
(* Blocks, handles and free lists *)

\* Blocks are pairs, and neither nullptr nor data.
LEMMA BlockFacts == /\ Null \notin Blocks /\ Data \notin Blocks /\ Data # Null
                    /\ \A b \in Blocks : /\ b[1] \in Pools /\ b[2] \in 1 .. NumBlocks
                                         /\ b = <<b[1], b[2]>>
                    /\ \A p \in Pools, i \in 1 .. NumBlocks : <<p, i>> \in Blocks
  BY PoolsAssumption DEF Blocks

\* What allocate() finds at free_head_: nothing left, or a block nobody owns.
LEMMA HeadOfList ==
  ASSUME PoolTypes, Lists, NEW p \in Pools
  PROVE  \/ free_count_[p] = 0 /\ free_head_[p] = Null
         \/ /\ free_count_[p] - 1 \in Nat
            /\ free_head_[p] \in Blocks /\ free_head_[p][1] = p /\ Free(free_head_[p])
<1>1. PICK f : IsFreeList(p, f, free_count_[p])
  BY DEF Lists
<1> DEFINE n == free_count_[p]
<1>2. n \in Nat BY DEF PoolTypes
<1> HIDE DEF n
<1>3. CASE n = 0
  BY <1>1, <1>3 DEF n, IsFreeList
<1>4. CASE n # 0
  <2>1. 0 \in 0 .. n - 1 /\ n - 1 \in Nat BY <1>2, <1>4
  <2> QED BY <1>1, <2>1 DEF n, IsFreeList
<1> QED BY <1>3, <1>4

\* What a handle that exists, or does not, looks like.
LEMMA HandleFacts ==
  ASSUME UserTypes, NEW h \in Handles
  PROVE  /\ ptr[h].ptr_ \in Blocks \cup {Null}
         /\ ~ptr[h].alive => ptr[h] = NoHandle /\ ptr[h].ptr_ = Null
         /\ ptr[h].alive => /\ ptr[h].pool_ \in Pools /\ ~Free(ptr[h].ptr_)
                            /\ ptr[h] = Handle(ptr[h].pool_, ptr[h].ptr_)
<1>1. CASE ptr[h] = NoHandle
  BY <1>1 DEF NoHandle
<1>2. CASE ptr[h] \in [alive : {TRUE}, pool_ : Pools, ptr_ : Blocks \cup {Null}]
  BY <1>2 DEF Free, Handle
<1> QED BY <1>1, <1>2 DEF UserTypes, Ptrs

\* A handle to a block or to nothing is a handle.
LEMMA HandleType ==
  ASSUME NEW p \in Pools, NEW b \in Blocks \cup {Null}
  PROVE  Handle(p, b) \in Ptrs
  BY DEF Handle, Ptrs

\* Assigning to ptr_ leaves the reference to the pool as it is.
LEMMA HandleUpdate ==
  ASSUME NEW p, NEW b, NEW c
  PROVE  [Handle(p, b) EXCEPT !.ptr_ = c] = Handle(p, c)
<1>1. PICK r : r = [Handle(p, b) EXCEPT !.ptr_ = c]
  OBVIOUS
<1>2. r \in [alive : {TRUE}, pool_ : {p}, ptr_ : {c}]
  BY <1>1 DEF Handle
<1>3. r = Handle(p, c)
  BY <1>2 DEF Handle
<1> QED BY <1>1, <1>3

\* allocate() takes the first block off the list of its pool, and leaves the others.
LEMMA AllocateList ==
  ASSUME PoolTypes, PoolTypes', Lists, NEW p \in Pools, free_head_[p] # Null, allocate(p),
         \A b \in Blocks : Free(b)' <=> Free(b) /\ b # free_head_[p]
  PROVE  Lists'
<1> SUFFICES ASSUME NEW q \in Pools PROVE \E f : IsFreeList(q, f, free_count_[q])'
  BY DEF Lists
<1>1. PICK n \in Nat : n = free_count_[q]
  BY DEF PoolTypes
<1>2. PICK f : IsFreeList(q, f, n)
  BY <1>1 DEF Lists
<1>3. /\ free_head_[p] \in Blocks /\ free_head_[p][1] = p /\ Free(free_head_[p])
      /\ free_count_[p] - 1 \in Nat
  BY HeadOfList
<1>4. /\ free_head_' = [free_head_ EXCEPT ![p] = mem[free_head_[p]]]
      /\ free_count_' = [free_count_ EXCEPT ![p] = @ - 1]
      /\ mem' = mem
  BY <1>3 DEF allocate, Word
<1>5. CASE q # p
  <2>1. free_head_'[q] = free_head_[q] /\ free_count_'[q] = n
    BY <1>1, <1>4, <1>5 DEF PoolTypes
  <2>2. \A b \in Blocks : b[1] = q => (Free(b)' <=> Free(b))
    BY <1>3, <1>5
  <2>3. IsFreeList(q, f, free_count_[q])'
    BY <1>2, <1>4, <2>1, <2>2 DEF IsFreeList
  <2> QED BY <2>3
<1>6. CASE q = p
  <2>1. PICK g : g = [m \in 0 .. n - 1 |-> f[m + 1]]
    OBVIOUS
  <2>2. free_head_'[q] = mem[free_head_[q]] /\ free_count_'[q] = n - 1 /\ n - 1 \in Nat
    BY <1>1, <1>3, <1>4, <1>6 DEF PoolTypes
  <2>3. \A m \in 0 .. n - 1 : g[m] = f[m + 1]
    BY <2>1
  <2>4. g[0] = free_head_'[q] /\ g[n - 1] = Null
    <3>1. 0 \in 0 .. n - 1 /\ n - 1 \in 0 .. n - 1 /\ 0 + 1 = 1 /\ (n - 1) + 1 = n
      BY <1>1, <2>2
    <3> QED BY <1>2, <2>2, <2>3, <3>1 DEF IsFreeList
  <2>5. ASSUME NEW m \in 0 .. (n - 1) - 1
        PROVE  /\ g[m] \in Blocks /\ g[m][1] = q /\ Free(g[m])'
               /\ g[m + 1] = mem'[g[m]]
    <3>1. /\ m + 1 \in 0 .. n - 1 /\ m \in 0 .. n - 1 /\ 0 \in 0 .. n - 1 /\ m + 1 # 0
      BY <1>1, <2>2
    <3>2. g[m] = f[m + 1] /\ g[m + 1] = f[(m + 1) + 1]
      BY <2>3, <3>1
    <3>3. f[m + 1] # free_head_[p]
      BY <1>2, <1>6, <3>1 DEF IsFreeList
    <3> QED BY <1>2, <1>4, <3>1, <3>2, <3>3 DEF IsFreeList
  <2>6. ASSUME NEW m \in 0 .. (n - 1) - 1, NEW l \in 0 .. (n - 1) - 1, g[m] = g[l]
        PROVE  m = l
    <3>1. m + 1 \in 0 .. n - 1 /\ l + 1 \in 0 .. n - 1 /\ m \in 0 .. n - 1 /\ l \in 0 .. n - 1
      BY <1>1, <2>2
    <3>2. m + 1 = l + 1
      BY <1>2, <2>3, <2>6, <3>1 DEF IsFreeList
    <3> QED BY <3>2
  <2>7. ASSUME NEW b \in Blocks, b[1] = q, Free(b)'
        PROVE  \E m \in 0 .. (n - 1) - 1 : g[m] = b
    <3>1. PICK m \in 0 .. n - 1 : f[m] = b
      BY <1>2, <2>7 DEF IsFreeList
    <3>2. m # 0
      BY <1>2, <1>6, <2>7, <3>1 DEF IsFreeList
    <3>3. m - 1 \in 0 .. (n - 1) - 1 /\ m - 1 \in 0 .. n - 1 /\ (m - 1) + 1 = m
      BY <1>1, <3>1, <3>2
    <3> QED BY <2>3, <3>1, <3>3
  <2>8. IsFreeList(q, g, free_count_[q])'
    BY <2>2, <2>4, <2>5, <2>6, <2>7 DEF IsFreeList
  <2> QED BY <2>8
<1> QED BY <1>5, <1>6

\* deallocate() puts the block in front of the list of its pool.
LEMMA DeallocateList ==
  ASSUME PoolTypes, PoolTypes', Lists, NEW p \in Pools, NEW b \in Blocks, b[1] = p, ~Free(b),
         deallocate(p, b),
         \A c \in Blocks : Free(c)' <=> Free(c) \/ c = b
  PROVE  Lists'
<1> SUFFICES ASSUME NEW q \in Pools PROVE \E f : IsFreeList(q, f, free_count_[q])'
  BY DEF Lists
<1>1. PICK n \in Nat : n = free_count_[q]
  BY DEF PoolTypes
<1>2. PICK f : IsFreeList(q, f, n)
  BY <1>1 DEF Lists
<1>3. /\ free_head_' = [free_head_ EXCEPT ![p] = b]
      /\ free_count_' = [free_count_ EXCEPT ![p] = @ + 1]
      /\ mem' = [mem EXCEPT ![b] = free_head_[p]]
  BY BlockFacts DEF deallocate, owns
<1>4. \A c \in Blocks : Free(c) => mem'[c] = mem[c]
  BY <1>3 DEF PoolTypes
<1>5. CASE q # p
  <2>1. free_head_'[q] = free_head_[q] /\ free_count_'[q] = n
    BY <1>1, <1>3, <1>5 DEF PoolTypes
  <2>2. \A c \in Blocks : c[1] = q => (Free(c)' <=> Free(c))
    BY <1>5
  <2>3. IsFreeList(q, f, free_count_[q])'
    BY <1>2, <1>4, <2>1, <2>2 DEF IsFreeList
  <2> QED BY <2>3
<1>6. CASE q = p
  <2>1. PICK g : g = [m \in 0 .. n + 1 |-> IF m = 0 THEN b ELSE f[m - 1]]
    OBVIOUS
  <2>2. free_head_'[q] = b /\ free_count_'[q] = n + 1 /\ mem'[b] = free_head_[q]
    BY <1>1, <1>3, <1>6 DEF PoolTypes
  <2>3. g[0] = b /\ \A m \in 1 .. n + 1 : g[m] = f[m - 1]
    BY <2>1
  <2>4. g[0] = free_head_'[q] /\ g[n + 1] = Null
    <3>1. n + 1 \in 1 .. n + 1 /\ (n + 1) - 1 = n
      BY <1>1
    <3> QED BY <1>2, <2>2, <2>3, <3>1 DEF IsFreeList
  <2>5. ASSUME NEW m \in 0 .. (n + 1) - 1
        PROVE  /\ g[m] \in Blocks /\ g[m][1] = q /\ Free(g[m])'
               /\ g[m + 1] = mem'[g[m]]
    <3>1. m + 1 \in 1 .. n + 1 /\ (m + 1) - 1 = m
      BY <1>1
    <3>2. g[m + 1] = f[m]
      BY <2>3, <3>1
    <3>3. CASE m = 0
      BY <1>2, <1>6, <2>2, <2>3, <3>2, <3>3 DEF IsFreeList
    <3>4. CASE m # 0
      <4>1. m \in 1 .. n + 1 /\ m - 1 \in 0 .. n - 1 /\ (m - 1) + 1 = m
        BY <1>1, <3>4
      <4>2. g[m] = f[m - 1]
        BY <2>3, <4>1
      <4> QED BY <1>2, <1>4, <3>2, <4>1, <4>2 DEF IsFreeList
    <3> QED BY <3>3, <3>4
  <2>6. ASSUME NEW m \in 0 .. (n + 1) - 1, NEW l \in 0 .. (n + 1) - 1, g[m] = g[l]
        PROVE  m = l
    <3>1. \A i \in 0 .. (n + 1) - 1 : i # 0 => i \in 1 .. n + 1 /\ i - 1 \in 0 .. n - 1
      BY <1>1
    <3>2. \A i \in 0 .. (n + 1) - 1 : i # 0 => g[i] = f[i - 1] /\ g[i] # b
      BY <1>2, <2>3, <3>1 DEF IsFreeList
    <3>3. CASE m = 0 \/ l = 0
      BY <2>3, <2>6, <3>2, <3>3
    <3>4. CASE m # 0 /\ l # 0
      <4>1. f[m - 1] = f[l - 1] /\ m - 1 \in 0 .. n - 1 /\ l - 1 \in 0 .. n - 1
        BY <2>6, <3>1, <3>2, <3>4
      <4>2. m - 1 = l - 1
        BY <1>2, <4>1 DEF IsFreeList
      <4> QED BY <4>2
    <3> QED BY <3>3, <3>4
  <2>7. ASSUME NEW c \in Blocks, c[1] = q, Free(c)'
        PROVE  \E m \in 0 .. (n + 1) - 1 : g[m] = c
    <3>1. CASE c = b
      <4>1. 0 \in 0 .. (n + 1) - 1
        BY <1>1
      <4> QED BY <2>3, <3>1, <4>1
    <3>2. CASE c # b
      <4>1. PICK m \in 0 .. n - 1 : f[m] = c
        BY <1>2, <2>7, <3>2 DEF IsFreeList
      <4>2. m + 1 \in 0 .. (n + 1) - 1 /\ m + 1 \in 1 .. n + 1 /\ (m + 1) - 1 = m
        BY <1>1
      <4> QED BY <2>3, <4>1, <4>2
    <3> QED BY <3>1, <3>2
  <2>8. IsFreeList(q, g, free_count_[q])'
    BY <2>2, <2>4, <2>5, <2>6, <2>7 DEF IsFreeList
  <2> QED BY <2>8
<1> QED BY <1>5, <1>6

\* What neither changes an owner nor writes to a free block leaves the lists alone.
LEMMA KeepLists ==
  ASSUME Lists, UNCHANGED <<free_head_, free_count_>>,
         \A b \in Blocks : (Free(b)' <=> Free(b)) /\ (Free(b) => mem'[b] = mem[b])
  PROVE  Lists'
<1> SUFFICES ASSUME NEW q \in Pools PROVE \E f : IsFreeList(q, f, free_count_[q])'
  BY DEF Lists
<1>1. PICK f : IsFreeList(q, f, free_count_[q])
  BY DEF Lists
<1>2. IsFreeList(q, f, free_count_[q])'
  BY <1>1 DEF IsFreeList
<1> QED BY <1>2

\* deallocate() keeps the types, whether the assertion holds or not.
LEMMA DeallocateTypes ==
  ASSUME PoolTypes, NEW p \in Pools, NEW b \in Blocks \cup {Null}, deallocate(p, b)
  PROVE  PoolTypes'
<1>1. CASE b = Null \/ ~owns(p, b)
  BY <1>1 DEF PoolTypes, deallocate, poolVars
<1>2. CASE b # Null /\ owns(p, b)
  <2>1. /\ b \in Pointers /\ b \in Blocks
        /\ free_head_[p] \in Pointers /\ free_count_[p] + 1 \in Nat
    BY <1>2 DEF PoolTypes, Pointers
  <2> QED BY <1>2, <2>1 DEF PoolTypes, deallocate
<1> QED BY <1>1, <1>2

\* So does allocate(): the word it takes for a link is one, and the count is not 0.
LEMMA AllocateTypes ==
  ASSUME PoolTypes, Lists, NEW p \in Pools, allocate(p), UNCHANGED aborted
  PROVE  PoolTypes'
<1>1. CASE free_head_[p] = Null
  BY <1>1 DEF PoolTypes, allocate, poolVars
<1>2. CASE free_head_[p] # Null
  <2>1. /\ free_head_[p] \in Blocks /\ free_count_[p] - 1 \in Nat
    BY <1>2, HeadOfList
  <2>2. Word(free_head_[p]) \in Pointers
    BY <2>1 DEF Word, PoolTypes
  <2> QED BY <1>2, <2>1, <2>2 DEF PoolTypes, allocate
<1> QED BY <1>1, <1>2

-----------------------------------------------------------------------------
(* Every step keeps the invariant *)

\* PoolPtr(pool)
LEMMA ConstructStep ==
  ASSUME IInv, NEW h \in Handles, NEW p \in Pools, Construct(h, p)
  PROVE  IInv'
<1> DEFINE b == free_head_[p]
<1>1. Lists /\ ~aborted
  BY DEF IInv, Construct
<1>2. b \in Blocks \cup {Null} /\ (b # Null => b \in Blocks /\ Free(b))
  BY <1>1, HeadOfList DEF IInv
<1>3. ptr[h] = NoHandle /\ ptr[h].ptr_ = Null
  BY HandleFacts DEF IInv, Construct
<1>4. /\ ptr' = [ptr EXCEPT ![h] = Handle(p, b)]
      /\ raw' = raw /\ aborted' = aborted /\ allocate(p)
  BY DEF Construct
<1>5. \A g \in Handles : ptr'[g].ptr_ = IF g = h THEN b ELSE ptr[g].ptr_
  BY <1>4 DEF IInv, UserTypes, Handle
<1>6. PoolTypes'
  BY <1>1, <1>4, AllocateTypes DEF IInv
<1>7. UserTypes'
  <2>1. Handle(p, b) \in Ptrs
    BY <1>2, HandleType
  <2> QED BY <1>4, <2>1 DEF IInv, UserTypes
<1>8. Sole'
  BY <1>2, <1>4, <1>5, BlockFacts DEF IInv, Sole, Free, UserTypes
<1>9. \A c \in Blocks : Free(c)' <=> Free(c) /\ c # b
  BY <1>3, <1>4, <1>5, BlockFacts DEF Free
<1>10. Lists'
  <2>1. CASE b = Null
    <3>1. UNCHANGED poolVars
      BY <1>4, <2>1 DEF allocate
    <3> QED BY <1>1, <1>9, <2>1, <3>1, KeepLists, BlockFacts DEF poolVars
  <2>2. CASE b # Null
    BY <1>1, <1>4, <1>6, <1>9, <2>2, AllocateList DEF IInv
  <2> QED BY <2>1, <2>2
<1> QED BY <1>6, <1>7, <1>8, <1>10 DEF IInv

\* A block is given back: to its own pool, where it joins the list, or to another one,
\* where the assertion fails.
LEMMA GivenBack ==
  ASSUME PoolTypes, Lists, ~aborted,
         NEW p \in Pools, NEW b \in Blocks \cup {Null}, deallocate(p, b), ~Free(b),
         \A c \in Blocks : Free(c)' <=> Free(c) \/ c = b
  PROVE  PoolTypes' /\ (~aborted' => Lists')
<1>1. PoolTypes'
  BY DeallocateTypes
<1>2. CASE b = Null
  BY <1>1, <1>2, KeepLists, BlockFacts DEF deallocate, poolVars
<1>3. CASE b # Null /\ b[1] # p
  BY <1>1, <1>3 DEF deallocate, owns
<1>4. CASE b # Null /\ b[1] = p
  BY <1>1, <1>4, DeallocateList
<1> QED BY <1>1, <1>2, <1>3, <1>4

\* ~PoolPtr()
LEMMA DestructStep ==
  ASSUME IInv, NEW h \in Handles, Destruct(h)
  PROVE  IInv'
<1> DEFINE b == ptr[h].ptr_
<1>1. /\ ptr[h].alive /\ ptr' = [ptr EXCEPT ![h] = NoHandle] /\ raw' = raw
      /\ deallocate(ptr[h].pool_, b) /\ ~aborted
  BY DEF Destruct
<1>2. ptr[h].pool_ \in Pools /\ b \in Blocks \cup {Null} /\ ~Free(b)
  BY <1>1, HandleFacts DEF IInv
<1>3. \A g \in Handles : ptr'[g].ptr_ = IF g = h THEN Null ELSE ptr[g].ptr_
  BY <1>1 DEF IInv, UserTypes, NoHandle
<1>4. UserTypes'
  BY <1>1 DEF IInv, UserTypes, Ptrs
<1>5. Sole'
  BY <1>1, <1>3, BlockFacts DEF IInv, Sole, UserTypes
<1>6. \A c \in Blocks : Free(c)' <=> Free(c) \/ c = b
  BY <1>1, <1>3, BlockFacts DEF IInv, Free, Sole, UserTypes
<1> QED BY <1>1, <1>2, <1>4, <1>5, <1>6, GivenBack DEF IInv

\* PoolPtr(PoolPtr&& other)
LEMMA MoveConstructStep ==
  ASSUME IInv, NEW h \in Handles, NEW other \in Handles, MoveConstruct(h, other)
  PROVE  IInv'
<1>1. /\ ~ptr[h].alive /\ ptr[other].alive /\ h # other
      /\ ptr' = [ptr EXCEPT ![h] = ptr[other], ![other].ptr_ = Null]
      /\ UNCHANGED <<free_head_, free_count_, mem, raw, aborted>> /\ ~aborted
  BY DEF MoveConstruct, poolVars
<1>2. ptr[h] = NoHandle /\ ptr[h].ptr_ = Null
  BY <1>1, HandleFacts DEF IInv
<1>3. PICK q \in Pools, b \in Blocks \cup {Null} :
        ptr[other] = Handle(q, b) /\ ptr[other].ptr_ = b
  BY <1>1, HandleFacts DEF IInv
<1>4. ptr'[h] = Handle(q, b) /\ ptr'[other] = Handle(q, Null)
      /\ \A g \in Handles \ {h, other} : ptr'[g] = ptr[g]
  <2>1. /\ ptr'[h] = ptr[other] /\ ptr'[other] = [ptr[other] EXCEPT !.ptr_ = Null]
        /\ \A g \in Handles \ {h, other} : ptr'[g] = ptr[g]
    BY <1>1 DEF IInv, UserTypes
  <2> QED BY <1>3, <2>1, HandleUpdate
<1>5. \A g \in Handles : ptr'[g].ptr_ = IF g = h THEN ptr[other].ptr_
                                        ELSE IF g = other THEN Null ELSE ptr[g].ptr_
  BY <1>3, <1>4 DEF Handle
<1>6. UserTypes'
  BY <1>3, <1>1, <1>4, HandleType DEF IInv, UserTypes
<1>7. Sole'
  BY <1>1, <1>5, BlockFacts DEF IInv, Sole, UserTypes
<1>8. \A c \in Blocks : Free(c)' <=> Free(c)
  BY <1>1, <1>2, <1>5, BlockFacts DEF Free
<1> QED BY <1>1, <1>6, <1>7, <1>8, KeepLists DEF IInv, PoolTypes

\* operator=(PoolPtr&& other)
LEMMA MoveAssignStep ==
  ASSUME IInv, NEW h \in Handles, NEW other \in Handles, h # other, MoveAssign(h, other)
  PROVE  IInv'
<1> DEFINE b == ptr[h].ptr_
<1>1. /\ ptr[h].alive /\ ptr[other].alive /\ raw' = raw /\ ~aborted
      /\ deallocate(ptr[h].pool_, b)
      /\ ptr' = [ptr EXCEPT ![h].ptr_ = ptr[other].ptr_, ![other].ptr_ = Null]
  BY DEF MoveAssign
<1>2. ptr[h].pool_ \in Pools /\ b \in Blocks \cup {Null} /\ ~Free(b)
  BY <1>1, HandleFacts DEF IInv
<1>3. PICK p \in Pools, q \in Pools, c \in Blocks \cup {Null} :
        ptr[h] = Handle(p, b) /\ ptr[other] = Handle(q, c) /\ ptr[other].ptr_ = c
  BY <1>1, HandleFacts DEF IInv
<1>4. ptr'[h] = Handle(p, c) /\ ptr'[other] = Handle(q, Null)
      /\ \A g \in Handles \ {h, other} : ptr'[g] = ptr[g]
  <2>1. /\ ptr'[h] = [ptr[h] EXCEPT !.ptr_ = ptr[other].ptr_]
        /\ ptr'[other] = [ptr[other] EXCEPT !.ptr_ = Null]
        /\ \A g \in Handles \ {h, other} : ptr'[g] = ptr[g]
    BY <1>1 DEF IInv, UserTypes
  <2> QED BY <1>3, <2>1, HandleUpdate
<1>5. \A g \in Handles : ptr'[g].ptr_ = IF g = h THEN ptr[other].ptr_
                                        ELSE IF g = other THEN Null ELSE ptr[g].ptr_
  BY <1>3, <1>4 DEF Handle
<1>6. UserTypes'
  BY <1>3, <1>1, <1>4, HandleType DEF IInv, UserTypes
<1>7. Sole'
  BY <1>1, <1>5, BlockFacts DEF IInv, Sole, UserTypes
<1>8. \A d \in Blocks : Free(d)' <=> Free(d) \/ d = b
  BY <1>1, <1>5, BlockFacts DEF IInv, Free, Sole, UserTypes
<1> QED BY <1>1, <1>2, <1>6, <1>7, <1>8, GivenBack DEF IInv

\* release()
LEMMA ReleaseStep ==
  ASSUME IInv, NEW h \in Handles, Release(h)
  PROVE  IInv'
<1>1. /\ ptr[h].alive /\ ptr[h].ptr_ # Null /\ raw' = raw \cup {ptr[h].ptr_} /\ ~aborted
      /\ ptr' = [ptr EXCEPT ![h].ptr_ = Null]
      /\ UNCHANGED <<free_head_, free_count_, mem, aborted>>
  BY DEF Release, poolVars
<1>2. ptr[h].ptr_ \in Blocks
  BY <1>1, HandleFacts DEF IInv
<1>3. PICK p \in Pools, b \in Blocks \cup {Null} : ptr[h] = Handle(p, b)
  BY <1>1, HandleFacts DEF IInv
<1>4. ptr'[h] = Handle(p, Null) /\ \A g \in Handles \ {h} : ptr'[g] = ptr[g]
  <2>1. ptr'[h] = [ptr[h] EXCEPT !.ptr_ = Null] /\ \A g \in Handles \ {h} : ptr'[g] = ptr[g]
    BY <1>1 DEF IInv, UserTypes
  <2> QED BY <1>3, <2>1, HandleUpdate
<1>5. \A g \in Handles : ptr'[g].ptr_ = IF g = h THEN Null ELSE ptr[g].ptr_
  BY <1>4 DEF Handle
<1>6. UserTypes'
  BY <1>1, <1>2, <1>4, HandleType DEF IInv, UserTypes
<1>7. Sole'
  BY <1>1, <1>2, <1>5, BlockFacts DEF IInv, Sole, UserTypes
<1>8. \A c \in Blocks : Free(c)' <=> Free(c)
  BY <1>1, <1>2, <1>5, BlockFacts DEF Free
<1> QED BY <1>1, <1>6, <1>7, <1>8, KeepLists DEF IInv, PoolTypes

\* deallocate() of a released block
LEMMA DeallocateRawStep ==
  ASSUME IInv, NEW b \in Blocks, DeallocateRaw(b)
  PROVE  IInv'
<1>1. b \in raw /\ deallocate(b[1], b) /\ raw' = raw \ {b} /\ ptr' = ptr /\ ~aborted
  BY DEF DeallocateRaw
<1>2. b[1] \in Pools /\ ~Free(b)
  BY <1>1, BlockFacts DEF Free
<1>3. UserTypes' /\ Sole'
  BY <1>1 DEF IInv, UserTypes, Sole
<1>4. \A c \in Blocks : Free(c)' <=> Free(c) \/ c = b
  BY <1>1 DEF IInv, Free, Sole
<1> QED BY <1>1, <1>2, <1>3, <1>4, GivenBack DEF IInv

\* The word that is written over was nobody's link.
LEMMA WriteStep ==
  ASSUME IInv, NEW b \in Blocks, Write(b)
  PROVE  IInv'
<1>1. /\ mem' = [mem EXCEPT ![b] = Data] /\ ~aborted /\ ~Free(b)
      /\ UNCHANGED <<free_head_, free_count_, ptr, raw, aborted>>
  BY DEF Write, Free
<1>2. PoolTypes' /\ UserTypes' /\ Sole'
  BY <1>1 DEF IInv, PoolTypes, UserTypes, Sole, Pointers
<1>3. \A c \in Blocks : (Free(c)' <=> Free(c)) /\ (Free(c) => mem'[c] = mem[c])
  BY <1>1 DEF IInv, PoolTypes, Free
<1> QED BY <1>1, <1>2, <1>3, KeepLists DEF IInv

\* Every step of the pools and their users.
LEMMA IInvStep == ASSUME IInv, [Next]_vars PROVE IInv'
<1>1. ASSUME NEW h \in Handles, NEW other \in Handles, MoveAssign(h, other) PROVE IInv'
  <2>1. CASE h = other
    <3>1. UNCHANGED vars
      BY <1>1, <2>1 DEF MoveAssign, poolVars, vars
    <3> QED BY <3>1 DEF vars, IInv, PoolTypes, UserTypes, Sole, Lists, IsFreeList, Free
  <2>2. CASE h # other
    BY <1>1, <2>2, MoveAssignStep
  <2> QED BY <2>1, <2>2
<1>2. CASE UNCHANGED vars
  BY <1>2 DEF vars, IInv, PoolTypes, UserTypes, Sole, Lists, IsFreeList, Free
<1> QED
  BY <1>1, <1>2, ConstructStep, DestructStep, ReleaseStep, MoveConstructStep,
     DeallocateRawStep, WriteStep DEF Next, Aborted

-----------------------------------------------------------------------------
(* What the links say *)

\* A free list is no longer than its pool has blocks.
LEMMA ListFits ==
  ASSUME NEW p \in Pools, NEW n \in Nat, NEW f, IsFreeList(p, f, n)
  PROVE  n <= NumBlocks
<1> SUFFICES ASSUME n > NumBlocks PROVE FALSE
  BY NumBlocksAssumption
<1> DEFINE number == [m \in 0 .. n - 1 |-> f[m][2]]
<1>1. number \in [0 .. n - 1 -> 1 .. NumBlocks]
  BY BlockFacts DEF IsFreeList
<1>2. /\ IsFiniteSet(0 .. n - 1) /\ Cardinality(0 .. n - 1) = n
      /\ IsFiniteSet(1 .. NumBlocks) /\ Cardinality(1 .. NumBlocks) = NumBlocks
  <2>1. /\ 0 \in Int /\ 1 \in Int /\ n \in Int /\ n - 1 \in Int /\ n # 0
        /\ NumBlocks \in Int /\ NumBlocks # 0
    BY NumBlocksAssumption
  <2>2. /\ IsFiniteSet(0 .. n - 1)
        /\ Cardinality(0 .. n - 1) = IF 0 > n - 1 THEN 0 ELSE (n - 1) - 0 + 1
    BY <2>1, FS_Interval
  <2>3. /\ IsFiniteSet(1 .. NumBlocks)
        /\ Cardinality(1 .. NumBlocks) = IF 1 > NumBlocks THEN 0 ELSE NumBlocks - 1 + 1
    BY <2>1, FS_Interval
  <2>4. /\ ~(0 > n - 1) /\ (n - 1) - 0 + 1 = n
        /\ ~(1 > NumBlocks) /\ NumBlocks - 1 + 1 = NumBlocks
    BY <2>1, NumBlocksAssumption
  <2> QED BY <2>2, <2>3, <2>4
<1>3. PICK x, y \in 0 .. n - 1 : x # y /\ number[x] = number[y]
  <2>1. Cardinality(1 .. NumBlocks) < Cardinality(0 .. n - 1)
    BY <1>2, NumBlocksAssumption
  <2> HIDE DEF number
  <2> QED BY <1>1, <1>2, <2>1, FS_PigeonHole
<1>4. f[x] = <<p, number[x]>> /\ f[y] = <<p, number[y]>>
  BY BlockFacts DEF IsFreeList
<1> QED BY <1>3, <1>4 DEF IsFreeList

\* Induction over the natural numbers, for a set.
LEMMA NatSetInduction ==
  ASSUME NEW S, 0 \in S, \A n \in Nat : n \in S => n + 1 \in S
  PROVE  \A n \in Nat : n \in S
<1> DEFINE T == Nat \ S
<1> SUFFICES ASSUME T # {} PROVE FALSE
  OBVIOUS
<1>1. PICK x \in T : \A y \in T : ~(<<y, x>> \in OpToRel(<, Nat))
  BY NatLessThanWellFounded, WFMin, T \subseteq Nat
<1>2. x - 1 \in Nat /\ x - 1 < x /\ (x - 1) + 1 = x
  BY x \in Nat, x # 0
<1>3. x - 1 \in T
  BY <1>2
<1>4. <<x - 1, x>> \in OpToRel(<, Nat)
  BY <1>2 DEF OpToRel
<1> QED BY <1>1, <1>3, <1>4

\* The recursive function that follows the links runs through the free list.
LEMMA LinksFollowed ==
  ASSUME NEW p \in Pools, NEW n \in Nat, NEW f, IsFreeList(p, f, n)
  PROVE  \A m \in 0 .. n : FreeBlock(p)[m] = f[m]
<1> DEFINE D == 0 .. NumBlocks
           Follows(g) == g = [m \in D |-> IF m = 0 THEN free_head_[p] ELSE Word(g[m - 1])]
           nth == CHOOSE g : Follows(g)
<1>1. n <= NumBlocks
  BY ListFits
<1>2. \E g : Follows(g)
  <2> DEFINE g == [m \in D |-> IF m <= n THEN f[m] ELSE Data]
  <2>1. ASSUME NEW m \in D PROVE g[m] = IF m = 0 THEN free_head_[p] ELSE Word(g[m - 1])
    <3>1. CASE m = 0
      BY <3>1 DEF IsFreeList
    <3>2. CASE m # 0 /\ m <= n
      <4>1. m - 1 \in 0 .. n - 1 /\ (m - 1) + 1 = m /\ m - 1 \in D /\ m - 1 <= n
        BY <1>1, <3>2, NumBlocksAssumption
      <4>2. g[m - 1] = f[m - 1] /\ g[m] = f[m]
        BY <3>2, <4>1
      <4> QED BY <3>2, <4>1, <4>2 DEF IsFreeList, Word
    <3>3. CASE m # 0 /\ ~(m <= n)
      <4>1. m - 1 \in D /\ g[m] = Data
        BY <3>3, NumBlocksAssumption
      <4>2. g[m - 1] \in {Null, Data}
        <5>1. CASE m - 1 <= n
          <6>1. m - 1 = n
            BY <3>3, <5>1, NumBlocksAssumption
          <6> QED BY <4>1, <5>1, <6>1 DEF IsFreeList
        <5>2. CASE ~(m - 1 <= n)
          BY <4>1, <5>2
        <5> QED BY <5>1, <5>2
      <4> QED BY <3>3, <4>1, <4>2, BlockFacts DEF Word
    <3> QED BY <3>1, <3>2, <3>3
  <2>2. Follows(g)
    BY <2>1
  <2> QED BY <2>2
<1>3. Follows(nth)
  BY <1>2
<1>4. FreeBlock(p) = [m \in D |-> nth[m]]
  BY DEF FreeBlock
<1> HIDE DEF nth
<1>5. \A m \in D : nth[m] = IF m = 0 THEN free_head_[p] ELSE Word(nth[m - 1])
  BY <1>3
<1> DEFINE S == {m \in Nat : m <= n => nth[m] = f[m]}
<1>6. 0 \in S
  BY <1>5, NumBlocksAssumption DEF IsFreeList
<1>7. ASSUME NEW m \in Nat, m \in S PROVE m + 1 \in S
  <2> SUFFICES ASSUME m + 1 <= n PROVE nth[m + 1] = f[m + 1]
    OBVIOUS
  <2>1. m + 1 \in D /\ m + 1 # 0 /\ (m + 1) - 1 = m /\ m \in 0 .. n - 1 /\ m <= n
    BY <1>1, NumBlocksAssumption
  <2>2. nth[m + 1] = Word(nth[m])
    BY <1>5, <2>1
  <2>3. nth[m] = f[m]
    BY <1>7, <2>1
  <2> QED BY <2>1, <2>2, <2>3 DEF IsFreeList, Word
<1>8. \A m \in Nat : m \in S
  <2> HIDE DEF S
  <2> QED BY <1>6, <1>7, NatSetInduction
<1> QED BY <1>1, <1>4, <1>8, NumBlocksAssumption

-----------------------------------------------------------------------------
(* The theorems *)

\* The constructor links all the blocks of its pool, in ascending order.
LEMMA IInvInit == ASSUME Init PROVE IInv
<1>1. PoolTypes
  <2>1. ASSUME NEW b \in Blocks, b[2] # NumBlocks PROVE <<b[1], b[2] + 1>> \in Blocks
    <3>1. b[1] \in Pools /\ b[2] \in 1 .. NumBlocks
      BY BlockFacts
    <3>2. b[2] + 1 \in 1 .. NumBlocks
      BY <2>1, <3>1, NumBlocksAssumption
    <3> QED BY <3>1, <3>2, BlockFacts
  <2>2. \A p \in Pools : <<p, 1>> \in Blocks
    BY BlockFacts, NumBlocksAssumption
  <2> QED BY <2>1, <2>2, NumBlocksAssumption DEF Init, PoolTypes, Pointers
<1>2. UserTypes /\ Sole
  BY DEF Init, UserTypes, Sole, Ptrs, NoHandle
<1>3. \A b \in Blocks : Free(b)
  BY BlockFacts DEF Init, Free, NoHandle
<1>4. ASSUME NEW p \in Pools PROVE \E f : IsFreeList(p, f, free_count_[p])
  <2>1. PICK n \in Nat \ {0} : n = NumBlocks
    BY NumBlocksAssumption
  <2>2. PICK f : f = [m \in 0 .. n |-> IF m = n THEN Null ELSE <<p, m + 1>>]
    OBVIOUS
  <2>3. free_count_[p] = n /\ f[0] = free_head_[p] /\ f[n] = Null
    BY <2>1, <2>2 DEF Init
  <2>4. ASSUME NEW m \in 0 .. n - 1
        PROVE  /\ f[m] = <<p, m + 1>> /\ f[m] \in Blocks /\ f[m][1] = p /\ f[m][2] = m + 1
               /\ Free(f[m]) /\ f[m + 1] = mem[f[m]]
    <3>1. m + 1 \in 1 .. n /\ m \in 0 .. n /\ m # n /\ m + 1 \in 0 .. n
      OBVIOUS
    <3>2. f[m] = <<p, m + 1>> /\ f[m] \in Blocks
      BY <2>1, <2>2, <3>1, BlockFacts
    <3>3. f[m][1] = p /\ f[m][2] = m + 1
      BY <3>2
    <3>4. f[m + 1] = IF m + 1 = n THEN Null ELSE <<p, (m + 1) + 1>>
      BY <2>2, <3>1
    <3>5. mem[f[m]] = IF m + 1 = n THEN Null ELSE <<p, (m + 1) + 1>>
      BY <2>1, <3>2, <3>3 DEF Init
    <3> QED BY <1>3, <3>2, <3>3, <3>4, <3>5
  <2>5. ASSUME NEW m \in 0 .. n - 1, NEW l \in 0 .. n - 1, f[m] = f[l] PROVE m = l
    <3>1. m + 1 = l + 1
      BY <2>4, <2>5
    <3> QED BY <3>1
  <2>6. ASSUME NEW b \in Blocks, b[1] = p PROVE \E m \in 0 .. n - 1 : f[m] = b
    <3>1. b[2] \in 1 .. n /\ b = <<p, b[2]>>
      BY <2>1, <2>6, BlockFacts
    <3>2. b[2] - 1 \in 0 .. n - 1 /\ (b[2] - 1) + 1 = b[2]
      BY <3>1
    <3> QED BY <2>4, <3>1, <3>2
  <2> QED BY <2>3, <2>4, <2>5, <2>6 DEF IsFreeList
<1> QED BY <1>1, <1>2, <1>4 DEF IInv, Lists

\* The invariant holds in every reachable state of the pools of memory_pool.h.
THEOREM Invariance == Spec => []IInv
<1>1. Init => IInv
  BY IInvInit
<1>2. IInv /\ [Next]_vars => IInv'
  BY IInvStep
<1> QED BY <1>1, <1>2, PTL DEF Spec

\* Every variable has its type.  In particular the pointers of a PoolPtr are blocks,
\* and free_count_, an unsigned number that is counted down without a test, stays
\* between 0 and NumBlocks.
THEOREM TypeCorrect == Spec => []TypeOK
<1> DEFINE Counted == \A p \in Pools : free_count_[p] <= NumBlocks
<1>1. Init => Counted
  BY NumBlocksAssumption DEF Init
<1>2. IInv /\ Counted /\ [Next]_vars => Counted' \/ ~aborted'
  <2> SUFFICES ASSUME IInv, Counted, [Next]_vars, aborted'
               PROVE  Counted'
    BY DEF IInv, PoolTypes
  <2>1. UNCHANGED free_count_
    BY DEF Next, vars, poolVars, Construct, Destruct, Release, MoveConstruct, MoveAssign,
           DeallocateRaw, Write, Aborted, deallocate
  <2> QED BY <2>1
<1>3. IInv /\ ~aborted => Counted
  BY ListFits DEF IInv, Lists, PoolTypes
<1>4. IInv /\ Counted => TypeOK
  <2> SUFFICES ASSUME IInv, Counted PROVE TypeOK
    OBVIOUS
  <2>1. free_count_ \in [Pools -> 0 .. NumBlocks]
    BY NumBlocksAssumption DEF IInv, PoolTypes
  <2> QED BY <2>1 DEF TypeOK, IInv, PoolTypes, UserTypes, Ptrs
<1> QED BY <1>1, <1>2, <1>3, <1>4, Invariance, PTL DEF Spec

\* However PoolPtr objects are constructed, moved, assigned, released and destroyed,
\* no block of memory_pool.h ever has two owners.
THEOREM SoleOwner == Spec => []NoSharedBlock
<1>1. IInv => NoSharedBlock
  <2> SUFFICES ASSUME IInv, NEW b \in Blocks
               PROVE  Cardinality(Owners(b)) + (IF b \in raw THEN 1 ELSE 0) <= 1
    BY DEF NoSharedBlock
  <2>1. CASE Owners(b) = {}
    BY <2>1, FS_EmptySet
  <2>2. CASE Owners(b) # {}
    <3>1. PICK h \in Handles : ptr[h].ptr_ = b
      BY <2>2 DEF Owners
    <3>2. Owners(b) = {h} /\ b \notin raw
      BY <3>1, BlockFacts DEF IInv, Sole, Owners
    <3>3. Cardinality({h}) = 1
      BY FS_Singleton
    <3> QED BY <3>2, <3>3
  <2> QED BY <2>1, <2>2
<1> QED BY <1>1, Invariance, PTL

\* The free list of memory_pool.h, read by following the links, holds the blocks that
\* nobody owns, each once, and free_count_ is their number: no block is lost, and no
\* data that a user wrote is followed as a link.
THEOREM FreeListIsExact == Spec => []FreeListExact
<1>1. IInv => FreeListExact
  <2> SUFFICES ASSUME IInv, ~aborted, NEW p \in Pools
               PROVE  LET n == free_count_[p]
                          onList == {FreeBlock(p)[m] : m \in 0 .. n - 1}
                      IN  /\ FreeBlock(p)[n] = Null
                          /\ Cardinality(onList) = n
                          /\ onList = {b \in Blocks :
                                         b[1] = p /\ Owners(b) = {} /\ b \notin raw}
    BY DEF FreeListExact
  <2>1. PICK n \in Nat : n = free_count_[p]
    BY DEF IInv, PoolTypes
  <2>2. PICK f : IsFreeList(p, f, n)
    BY <2>1 DEF IInv, Lists
  <2>3. \A m \in 0 .. n : FreeBlock(p)[m] = f[m]
    BY <2>2, LinksFollowed
  <2> DEFINE onList == {FreeBlock(p)[m] : m \in 0 .. n - 1}
  <2>4. onList = {f[m] : m \in 0 .. n - 1} /\ FreeBlock(p)[n] = f[n]
    BY <2>3
  <2> HIDE DEF onList
  <2>5. Cardinality(onList) = n
    <3>1. PICK g : g = [i \in 1 .. n |-> f[i - 1]]
      OBVIOUS
    <3>2. g \in [1 .. n -> onList]
      BY <2>4, <3>1
    <3>3. ASSUME NEW i \in 1 .. n, NEW j \in 1 .. n, g[i] = g[j] PROVE i = j
      <4>1. i - 1 \in 0 .. n - 1 /\ j - 1 \in 0 .. n - 1 /\ f[i - 1] = f[j - 1]
        BY <3>1, <3>3
      <4>2. i - 1 = j - 1
        BY <2>2, <4>1 DEF IsFreeList
      <4> QED BY <4>2
    <3>4. ASSUME NEW b \in onList PROVE \E i \in 1 .. n : g[i] = b
      <4>1. PICK m \in 0 .. n - 1 : b = f[m]
        BY <2>4
      <4>2. m + 1 \in 1 .. n /\ (m + 1) - 1 = m
        OBVIOUS
      <4> QED BY <3>1, <4>1, <4>2
    <3>5. g \in Bijection(1 .. n, onList)
      BY <3>2, <3>3, <3>4 DEF Bijection, Injection, Surjection, IsInjective
    <3> QED BY <3>5, FS_CountingElements DEF ExistsBijection
  <2>6. onList = {b \in Blocks : b[1] = p /\ Owners(b) = {} /\ b \notin raw}
    BY <2>2, <2>4 DEF IsFreeList, Owners, Free
  <2>7. FreeBlock(p)[n] = Null
    BY <2>2, <2>4 DEF IsFreeList
  <2> QED BY <2>1, <2>5, <2>6, <2>7 DEF onList
<1> QED BY <1>1, Invariance, PTL

-----------------------------------------------------------------------------
(* The assertion of deallocate() *)

\* A handle that holds a block refers to the pool of the block.
Home == \A h \in Handles : ptr[h].ptr_ # Null => owns(ptr[h].pool_, ptr[h].ptr_)

\* The step assigns a handle to another one of the same pool only.
WithinPool == \A h, other \in Handles : MoveAssign(h, other) => ptr[h].pool_ = ptr[other].pool_

\* Assignments within a pool keep every block with its pool, and no assertion fails.
LEMMA HomeStep ==
  ASSUME IInv, Home, ~aborted, [Next]_vars, [WithinPool]_vars
  PROVE  Home' /\ ~aborted'
<1> USE DEF IInv
<1>1. ASSUME NEW h \in Handles, NEW p \in Pools, Construct(h, p) PROVE Home' /\ ~aborted'
  <2>1. ptr' = [ptr EXCEPT ![h] = Handle(p, free_head_[p])] /\ ~aborted'
    BY <1>1 DEF Construct
  <2>2. free_head_[p] # Null => owns(p, free_head_[p])
    BY HeadOfList DEF owns
  <2>3. ptr'[h] = Handle(p, free_head_[p]) /\ \A g \in Handles : g # h => ptr'[g] = ptr[g]
    BY <2>1 DEF UserTypes
  <2> QED BY <2>1, <2>2, <2>3 DEF Home, Handle, owns
<1>2. ASSUME NEW h \in Handles, Destruct(h) PROVE Home' /\ ~aborted'
  <2>1. ptr' = [ptr EXCEPT ![h] = NoHandle] /\ deallocate(ptr[h].pool_, ptr[h].ptr_)
    BY <1>2 DEF Destruct
  <2>2. ~aborted'
    BY <2>1 DEF deallocate, Home
  <2>3. ptr'[h].ptr_ = Null /\ \A g \in Handles : g # h => ptr'[g] = ptr[g]
    BY <2>1 DEF UserTypes, NoHandle
  <2> QED BY <2>2, <2>3 DEF Home, owns
<1>3. ASSUME NEW h \in Handles, Release(h) PROVE Home' /\ ~aborted'
  <2>1. ptr' = [ptr EXCEPT ![h].ptr_ = Null] /\ ~aborted' /\ ptr[h].alive
    BY <1>3 DEF Release
  <2>2. ptr'[h] = Handle(ptr[h].pool_, Null) /\ \A g \in Handles : g # h => ptr'[g] = ptr[g]
    BY <2>1, HandleFacts, HandleUpdate DEF UserTypes
  <2> QED BY <2>1, <2>2 DEF Home, Handle, owns
<1>4. ASSUME NEW h \in Handles, NEW other \in Handles, MoveConstruct(h, other)
      PROVE  Home' /\ ~aborted'
  <2>1. /\ ptr' = [ptr EXCEPT ![h] = ptr[other], ![other].ptr_ = Null] /\ ~aborted'
        /\ ptr[other].alive /\ h # other
    BY <1>4 DEF MoveConstruct
  <2>2. ptr'[h] = ptr[other] /\ \A g \in Handles : g # h /\ g # other => ptr'[g] = ptr[g]
    BY <2>1 DEF UserTypes
  <2>3. ptr'[other] = [ptr[other] EXCEPT !.ptr_ = Null]
    BY <2>1 DEF UserTypes
  <2>4. ptr[other] = Handle(ptr[other].pool_, ptr[other].ptr_)
    BY <2>1, HandleFacts
  <2>5. ptr'[other] = Handle(ptr[other].pool_, Null)
    BY <2>3, <2>4, HandleUpdate
  <2>6. ptr'[other].ptr_ = Null
    BY <2>5 DEF Handle
  <2>7. ASSUME NEW g \in Handles, ptr'[g].ptr_ # Null
        PROVE  owns(ptr'[g].pool_, ptr'[g].ptr_)
    <3>1. CASE g = h
      BY <2>2, <2>7, <3>1 DEF Home
    <3>2. CASE g # h
      BY <2>2, <2>6, <2>7, <3>2 DEF Home
    <3> QED BY <3>1, <3>2
  <2> QED BY <2>1, <2>7 DEF Home, owns
<1>5. ASSUME NEW h \in Handles, NEW other \in Handles, MoveAssign(h, other)
      PROVE  Home' /\ ~aborted'
  <2>1. CASE h = other
    BY <1>5, <2>1 DEF MoveAssign, Home, owns
  <2>2. CASE h # other
    <3>1. /\ ptr' = [ptr EXCEPT ![h].ptr_ = ptr[other].ptr_, ![other].ptr_ = Null]
          /\ ptr[h].alive /\ ptr[other].alive /\ deallocate(ptr[h].pool_, ptr[h].ptr_)
      BY <1>5, <2>2 DEF MoveAssign
    <3>2. ~aborted'
      BY <3>1 DEF deallocate, Home
    <3>3. CASE UNCHANGED vars
      BY <3>3 DEF vars, Home, owns
    <3>4. CASE ~UNCHANGED vars
      <4>1. ptr[h].pool_ = ptr[other].pool_
        BY <1>5, <3>4 DEF WithinPool
      <4>2. ptr'[h] = [ptr[h] EXCEPT !.ptr_ = ptr[other].ptr_]
        BY <2>2, <3>1 DEF UserTypes
      <4>3. ptr'[other] = [ptr[other] EXCEPT !.ptr_ = Null]
        BY <2>2, <3>1 DEF UserTypes
      <4>4. /\ ptr'[h] = Handle(ptr[other].pool_, ptr[other].ptr_)
            /\ ptr'[other] = Handle(ptr[other].pool_, Null)
        <5>1. /\ ptr[h] = Handle(ptr[h].pool_, ptr[h].ptr_)
              /\ ptr[other] = Handle(ptr[other].pool_, ptr[other].ptr_)
          BY <3>1, HandleFacts
        <5> QED BY <4>1, <4>2, <4>3, <5>1, HandleUpdate
      <4>5. \A g \in Handles : g # h /\ g # other => ptr'[g] = ptr[g]
        BY <3>1 DEF UserTypes
      <4> QED BY <3>2, <4>4, <4>5 DEF Home, Handle, owns
    <3> QED BY <3>2, <3>3, <3>4
  <2> QED BY <2>1, <2>2
<1>6. ASSUME NEW b \in Blocks, DeallocateRaw(b) \/ Write(b) PROVE Home' /\ ~aborted'
  BY <1>6 DEF DeallocateRaw, Write, deallocate, owns, Home
<1>7. CASE Aborted \/ UNCHANGED vars
  BY <1>7 DEF Aborted, vars, Home, owns
<1> QED BY <1>1, <1>2, <1>3, <1>4, <1>5, <1>6, <1>7 DEF Next

\* The assertion of MemoryPool::deallocate() fails only after a PoolPtr was assigned to a
\* PoolPtr of another pool: operator=(PoolPtr&&) moves the pointer and cannot move the
\* reference pool_.  Everything else, moves by construction included, keeps a block with
\* its pool.
THEOREM AssertionHolds == Spec /\ [][WithinPool]_vars => []~aborted
<1>1. Init => Home /\ ~aborted
  BY DEF Init, Home, NoHandle
<1>2. /\ IInv /\ Home /\ ~aborted /\ [Next]_vars /\ [WithinPool]_vars
      => Home' /\ ~aborted'
  BY HomeStep
<1> QED BY <1>1, <1>2, Invariance, PTL DEF Spec

\* With one pool, as in the "bench" command of main.cpp, it never fails.
THEOREM OnePoolNeverAborts ==
  ASSUME \A p, q \in Pools : p = q
  PROVE  Spec => []~aborted
<1>1. IInv => WithinPool
  BY HandleFacts DEF IInv, WithinPool, MoveAssign
<1>2. []IInv => [][WithinPool]_vars
  BY <1>1, PTL
<1> QED BY <1>2, Invariance, AssertionHolds, PTL
=============================================================================
