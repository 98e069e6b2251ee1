----------------------------- MODULE HeapBlocks -----------------------------
(***************************************************************************)
(* The allocator of malloclab/src/mm-2017-19651.c seen as a tiling of the  *)
(* heap by blocks: boundary tags and free lists are abstracted to the      *)
(* blocks they describe, and find_fit to the choice of any free block that *)
(* is large enough.  Splitting, merging, extending and the cases of        *)
(* realloc are those of the code.                                          *)
(*                                                                         *)
(* Addresses and block sizes are in double words (DSIZE bytes); requests   *)
(* are in bytes.  A block's tags take one double word.                     *)
(***************************************************************************)
EXTENDS Integers

CONSTANTS
  LIMIT,       \* end of the simulated memory (MAX_HEAP / DSIZE)
  BASE,        \* first block, after the list array and the prologue
  CHUNK,       \* CHUNKSIZE / DSIZE
  DCHUNK,      \* DCHUNKSIZE / DSIZE
  MINPLACE,    \* MINSIZE / DSIZE
  Requests     \* request sizes in bytes

ASSUME HeapBlocksAssumption ==
  /\ {LIMIT, BASE, CHUNK, DCHUNK} \subseteq Nat \ {0}
  /\ MINPLACE \in Nat
  /\ CHUNK >= 2 /\ DCHUNK >= 2 /\ BASE + CHUNK <= LIMIT
  /\ Requests \subseteq Nat \ {0}

VARIABLES
  size,        \* size[a] > 0 iff a block starts at a
  used,        \* the allocated bit of the block at a
  req,         \* bytes the client asked for at a, 0 if not allocated
  brk          \* address of the epilogue: the blocks tile BASE .. brk - 1

vars == <<size, used, req, brk>>

Addr == 0 .. LIMIT
-----------------------------------------------------------------------------
IsBlock(sz, a)      == a \in Addr /\ sz[a] > 0
IsFree(sz, us, a)   == IsBlock(sz, a) /\ ~us[a]
PrevFree(sz, us, b) == {p \in Addr : IsFree(sz, us, p) /\ p + sz[p] = b}

\* Mutant: no room for the tags.
adjusted_NoTags(n) == IF n <= 16 THEN 3 ELSE (n + 7) \div 8

(* ALIGN of a request, and the block size mm_malloc derives from it. *)
Align(n)    == (n + 7) \div 8
adjusted(n) == IF n <= 16 THEN 3 ELSE Align(n) + 1

Put(f, a, v)    == [f EXCEPT ![a] = v]
Join(sz, a)     == Put(Put(sz, a, sz[a] + sz[a + sz[a]]), a + sz[a], 0)
\* Mutant: the tags of the second half are counted twice.
Split_Loses(sz, a, n) == Put(Put(sz, a, n), a + n, sz[a] - n - 1)

Split(sz, a, n) == Put(Put(sz, a, n), a + n, sz[a] - n)

(* Merge the free block b with the free block after it, then with the one  *)
(* before it, which is where the merged block then starts.                 *)
JoinNext(sz, us, b) == IF IsFree(sz, us, b + sz[b]) THEN Join(sz, b) ELSE sz
MergedAt(sz, us, b) ==
  IF PrevFree(sz, us, b) = {} THEN b ELSE CHOOSE p \in PrevFree(sz, us, b) : TRUE
JoinPrev(sz, us, b) ==
  IF PrevFree(sz, us, b) = {} THEN sz ELSE Join(sz, MergedAt(sz, us, b))
\* Mutant: only the next block is looked at.
coalesce_NextOnly(sz, us, b) == JoinNext(sz, us, b)

coalesce(sz, us, b) == JoinPrev(JoinNext(sz, us, b), us, b)

(* Where a block of asize goes in the free block b, and what b becomes. *)
placeAt(sz, b, asize) ==
  IF sz[b] - asize < 2 \/ asize > MINPLACE THEN b ELSE b + (sz[b] - asize)
place(sz, b, asize) ==
  IF sz[b] - asize < 2 THEN sz
  ELSE Split(sz, b, IF asize > MINPLACE THEN asize ELSE sz[b] - asize)

(* Give back what realloc does not need of block b. *)
trim(sz, us, b, asize) ==
  IF sz[b] - 1 - asize > 1
  THEN coalesce(Split(sz, b, asize + 1), us, b + (asize + 1)) ELSE sz
-----------------------------------------------------------------------------
Init ==
  /\ size = [a \in Addr |-> 0]
  /\ used = [a \in Addr |-> FALSE]
  /\ req = [a \in Addr |-> 0]
  /\ brk = BASE

mm_init ==
  /\ size' = [a \in Addr |-> IF a = BASE THEN CHUNK ELSE 0]
  /\ used' = [a \in Addr |-> FALSE]
  /\ req' = [a \in Addr |-> 0]
  /\ brk' = BASE + CHUNK

(* Allocate asize double words for n bytes in the free block b of sz. *)
Take(sz, b, asize, n) ==
  LET p == placeAt(sz, b, asize)
  IN  /\ size' = place(sz, b, asize)
      /\ used' = Put(used, p, TRUE)
      /\ req' = Put(req, p, n)

Fits(asize) == {b \in Addr : IsFree(size, used, b) /\ size[b] >= asize}

malloc_fit(n) ==
  /\ brk > BASE
  /\ \E b \in Fits(adjusted(n)) : Take(size, b, adjusted(n), n)
  /\ UNCHANGED brk

(* extend_heap: a new free block at brk, merged with a free last block. *)
extendsize(n) == IF adjusted(n) > DCHUNK THEN adjusted(n) ELSE DCHUNK
Extended(n)   == Put(size, brk, extendsize(n))
LastFree(n)   == MergedAt(Extended(n), used, brk)

\* Mutant: mem_sbrk does not check the limit.
malloc_extend_NoLimit(n) ==
  /\ brk > BASE
  /\ Fits(adjusted(n)) = {}
  /\ Take(JoinPrev(Extended(n), used, brk), LastFree(n), adjusted(n), n)
  /\ brk' = brk + extendsize(n)

malloc_extend(n) ==
  /\ brk > BASE
  /\ Fits(adjusted(n)) = {}
  /\ brk + extendsize(n) <= LIMIT
  /\ Take(JoinPrev(Extended(n), used, brk), LastFree(n), adjusted(n), n)
  /\ brk' = brk + extendsize(n)

mm_free(b) ==
  /\ used[b]
  /\ LET us == Put(used, b, FALSE)
     IN  used' = us /\ size' = coalesce(size, us, b)
  /\ req' = Put(req, b, 0)
  /\ UNCHANGED brk

(* realloc that leaves the block where and as it is. *)
realloc_same(b, n) ==
  /\ used[b]
  /\ Align(n) <= size[b] - 1
  /\ (size[b] - 1) - Align(n) <= 1
  /\ req' = Put(req, b, n)
  /\ UNCHANGED <<size, used, brk>>

realloc_shrink(b, n) ==
  /\ used[b]
  /\ (size[b] - 1) - Align(n) > 1
  /\ size' = trim(size, used, b, Align(n))
  /\ req' = Put(req, b, n)
  /\ UNCHANGED <<used, brk>>

(* The free block before b is large enough: the payload moves there. *)
realloc_prev(b, n) ==
  /\ used[b]
  /\ Align(n) > size[b] - 1
  /\ \E p \in PrevFree(size, used, b) :
       LET us == Put(Put(used, b, FALSE), p, TRUE)
       IN  /\ size[p] + size[b] - 1 >= Align(n)
           /\ size' = trim(Join(size, p), us, p, Align(n))
           /\ used' = us
           /\ req' = Put(Put(req, b, 0), p, n)
  /\ UNCHANGED brk

(* No free block before b, and the free one after it is large enough. *)
realloc_next(b, n) ==
  /\ used[b]
  /\ Align(n) > size[b] - 1
  /\ PrevFree(size, used, b) = {}
  /\ IsFree(size, used, b + size[b])
  /\ size[b + size[b]] + size[b] - 1 >= Align(n)
  /\ size' = trim(Join(size, b), used, b, Align(n))
  /\ req' = Put(req, b, n)
  /\ UNCHANGED <<used, brk>>

(* The block before is too small, but with the one after it fits. *)
realloc_both(b, n) ==
  /\ used[b]
  /\ Align(n) > size[b] - 1
  /\ IsFree(size, used, b + size[b])
  /\ \E p \in PrevFree(size, used, b) :
       LET us == Put(Put(used, b, FALSE), p, TRUE)
       IN  /\ size[p] + size[b] - 1 < Align(n)
           /\ size[p] + size[b] + size[b + size[b]] - 1 >= Align(n)
           /\ size' = trim(Join(Join(size, b), p), us, p, Align(n))
           /\ used' = us
           /\ req' = Put(Put(req, b, 0), p, n)
  /\ UNCHANGED brk

(* realloc by mm_malloc, copy and mm_free. *)
CannotGrow(b, n) ==
  /\ Align(n) > size[b] - 1
  /\ LET nxt == IF IsFree(size, used, b + size[b]) THEN size[b + size[b]] ELSE 0
         prv == PrevFree(size, used, b)
     IN  /\ prv = {} => size[b] - 1 + nxt < Align(n)
         /\ \A p \in prv : size[b] - 1 + size[p] + nxt < Align(n)

(* mm_malloc took the free block f of sz: b is then freed. *)
Swap(sz, f, b, asize, n) ==
  LET p  == placeAt(sz, f, asize)
      us == Put(Put(used, p, TRUE), b, FALSE)
  IN  /\ size' = coalesce(place(sz, f, asize), us, b)
      /\ used' = us
      /\ req' = Put(Put(req, p, n), b, 0)

realloc_move(b, n) ==
  /\ used[b]
  /\ CannotGrow(b, n)
  /\ \/ /\ \E f \in Fits(adjusted(n)) : Swap(size, f, b, adjusted(n), n)
        /\ UNCHANGED brk
     \/ /\ Fits(adjusted(n)) = {}
        /\ brk + extendsize(n) <= LIMIT
        /\ Swap(JoinPrev(Extended(n), used, brk), LastFree(n), b, adjusted(n), n)
        /\ brk' = brk + extendsize(n)

mm_malloc(n) == malloc_fit(n) \/ malloc_extend(n)

mm_realloc(b, n) ==
  \/ realloc_same(b, n)
  \/ realloc_shrink(b, n)
  \/ realloc_prev(b, n)
  \/ realloc_next(b, n)
  \/ realloc_both(b, n)
  \/ realloc_move(b, n)

Next ==
  \/ mm_init
  \/ \E n \in Requests : mm_malloc(n)
  \/ \E b \in Addr : mm_free(b)
  \/ \E b \in Addr, n \in Requests : mm_realloc(b, n)

Spec == Init /\ [][Next]_vars
-----------------------------------------------------------------------------
(* Every variable has its type: in particular the heap never grows past    *)
(* the simulated memory.                                                   *)
TypeOK ==
  /\ size \in [Addr -> Nat]
  /\ used \in [Addr -> BOOLEAN]
  /\ req \in [Addr -> Nat]
  /\ brk \in Addr

(* The blocks cover BASE .. brk - 1 exactly once: every block lies inside  *)
(* the heap, ends where the next begins or at the epilogue, and no two     *)
(* overlap.  This is what NEXT_BLKP and PREV_BLKP rely on.                 *)
Tiling ==
  /\ brk > BASE => size[BASE] > 0
  /\ \A a \in Addr : size[a] > 0 =>
       /\ BASE <= a /\ a + size[a] <= brk
       /\ a + size[a] = brk \/ size[a + size[a]] > 0
  /\ \A a, c \in Addr : size[a] > 0 /\ size[c] > 0 /\ a < c => a + size[a] <= c

(* A block holds two list pointers besides its tags when it is freed. *)
MinBlock == \A a \in Addr : size[a] > 0 => size[a] >= 2

(* coalesce leaves no two free blocks next to each other. *)
Coalesced ==
  \A a \in Addr : IsFree(size, used, a) => ~IsFree(size, used, a + size[a])

(* An allocated block has room for the bytes requested, whatever sequence  *)
(* of reallocs it went through, and only allocated blocks are owed any.    *)
Capacity ==
  \A a \in Addr : /\ used[a] => size[a] > 0 /\ req[a] > 0 /\ 8 * (size[a] - 1) >= req[a]
                  /\ ~used[a] => req[a] = 0
=============================================================================
