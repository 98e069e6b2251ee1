--------------------------------- MODULE Mm ---------------------------------
(***************************************************************************)
(* The segregated-list allocator of malloclab/src/mm-2017-19651.c on top   *)
(* of the simulated sbrk of malloclab/src/memlib.c, at the level of 32-bit *)
(* words (the Makefile builds with -m32).                                  *)
(*                                                                         *)
(* A heap is a record: mem is the simulated memory, one integer per word,  *)
(* and brk is mem_brk.  Addresses are byte offsets from mem_start_brk.     *)
(* Boundary tags, free-list pointers and client data all live in mem, and  *)
(* nothing is ever erased, so a tag read through a wrong address gives     *)
(* whatever the program would have read there.                             *)
(*                                                                         *)
(* Every C function is an operator from heaps to heaps.  A function that   *)
(* also returns a pointer yields [h |-> heap, p |-> pointer].              *)
(***************************************************************************)
EXTENDS Integers, SequencesExt

CONSTANTS
  MAX_HEAP,    \* bytes of simulated memory (config.h: 20 MB)
  CHUNKSIZE,   \* bytes of the initial free block (64)
  DCHUNKSIZE,  \* least number of bytes mm_malloc extends the heap by (4096)
  MINSIZE,     \* blocks above this size are placed at the front (200)
  SEG_SIZE     \* number of segregated lists (24)

WSIZE == 4
DSIZE == 8
NULL  == 0     \* no block lies at offset 0: the segregated lists do
FAIL  == -1    \* (void * )-1

\* The list array keeps the blocks double-word aligned only if its length is even.
\* The last line says what a power is, which the provers do not know.
ASSUME MmAssumption ==
  /\ {MAX_HEAP, CHUNKSIZE, DCHUNKSIZE, SEG_SIZE} \subseteq Nat \ {0}
  /\ MINSIZE \in Nat
  /\ MAX_HEAP % WSIZE = 0 /\ CHUNKSIZE % DSIZE = 0 /\ CHUNKSIZE >= 2 * DSIZE
  /\ DCHUNKSIZE % DSIZE = 0 /\ SEG_SIZE % 2 = 0
  /\ 2^0 = 1 /\ \A i \in 0 .. SEG_SIZE : 2^(i + 1) = 2 * 2^i

ALIGN(size) == ((size + (DSIZE - 1)) \div DSIZE) * DSIZE
PACK(size, alloc) == size + alloc
-----------------------------------------------------------------------------
(* Words, tags and block pointers. *)

GET(h, p)      == h.mem[p \div WSIZE]
PUT(h, p, val) == [h EXCEPT !.mem[p \div WSIZE] = val]

GET_SIZE(h, p)  == (GET(h, p) \div DSIZE) * DSIZE
GET_ALLOC(h, p) == GET(h, p) % 2

HDRP(bp)         == bp - WSIZE
GET_BLK_SIZE(h, bp) == GET_SIZE(h, HDRP(bp))
FTRP(h, bp)      == bp + GET_BLK_SIZE(h, bp) - DSIZE
NEXT_BLKP(h, bp) == bp + GET_BLK_SIZE(h, bp)
PREV_BLKP(h, bp) == bp - GET_SIZE(h, bp - DSIZE)

PutFooter(h, bp, size, alloc) == PUT(h, FTRP(h, bp), PACK(size, alloc))

(* A header, then the footer at the place the new header implies. *)
PutTags(h, bp, size, alloc) ==
  PutFooter(PUT(h, HDRP(bp), PACK(size, alloc)), bp, size, alloc)

\* Mutant: the length is taken for a number of words.
CopyWords_Short(h, dst, src, n) ==
  LET off == (dst - src) \div WSIZE
  IN  [h EXCEPT !.mem = [w \in DOMAIN @ |->
         IF w \in (dst \div WSIZE) .. ((dst + n \div WSIZE) \div WSIZE - 1)
         THEN @[w - off] ELSE @[w]]]

(* memmove and memcpy of n bytes between word-aligned addresses. *)
CopyWords(h, dst, src, n) ==
  LET off == (dst - src) \div WSIZE
  IN  [h EXCEPT !.mem = [w \in DOMAIN @ |->
         IF w \in (dst \div WSIZE) .. ((dst + n) \div WSIZE - 1)
         THEN @[w - off] ELSE @[w]]]
-----------------------------------------------------------------------------
(* memlib.c *)

mem_sbrk(h, incr) ==
  IF incr < 0 \/ h.brk + incr > MAX_HEAP
  THEN [h |-> h, p |-> FAIL]
  ELSE [h |-> [h EXCEPT !.brk = @ + incr], p |-> h.brk]

\* Mutant: the heap of the pass before stays below the new one.
mem_reset_brk_Kept(h) == h

mem_reset_brk(h) == [h EXCEPT !.brk = 0]
mem_heap_lo      == 0
mem_heap_hi(h)   == h.brk - 1
-----------------------------------------------------------------------------
(* The segregated lists: an array of list heads at offset 0; a free block  *)
(* keeps its list pointers in its first two payload words.                 *)

GET_SEG_LIST_PTR(h, idx)      == GET(h, idx * WSIZE)
SET_SEG_LIST_PTR(h, idx, val) == PUT(h, idx * WSIZE, val)
SEG_PREV_BLKP(h, bp)    == GET(h, bp)
SEG_NEXT_BLKP(h, bp)    == GET(h, bp + WSIZE)
SetSegPrev(h, bp, val)  == PUT(h, bp, val)
SetSegNext(h, bp, val)  == PUT(h, bp + WSIZE, val)

(* The blocks of the list that continues at bp, and the NULL at its end.   *)
(* There are never more blocks than STEPS.                                 *)
STEPS == MAX_HEAP \div (2 * DSIZE)
List(h, bp) ==
  LET from[k \in 0 .. STEPS] ==
        [b \in Int |-> IF k = 0 \/ b = NULL THEN <<b>>
                       ELSE <<b>> \o from[k - 1][SEG_PREV_BLKP(h, b)]]
  IN  from[STEPS][bp]

(* The loop that halves a size until it is at most 1 or the last list is   *)
(* reached, and what is then left of the size.                             *)
SegIndex(size) ==
  Min({SEG_SIZE - 1} \cup {i \in 0 .. (SEG_SIZE - 1) : size \div 2^i <= 1})
SegKey(size) == size \div 2^SegIndex(size)

(* The two blocks of the list that one of the given key belongs between. *)
SegSearch(h, bp, key) ==
  LET at == List(h, bp)
      k  == Min({i \in DOMAIN at : at[i] = NULL \/ key <= GET_BLK_SIZE(h, at[i])})
  IN  [prev |-> IF k = 1 THEN NULL ELSE at[k - 1], curr |-> at[k]]

(* Where the search for the place of a block of the given size ends. *)
SegPlace(h, size) ==
  SegSearch(h, GET_SEG_LIST_PTR(h, SegIndex(size)), SegKey(size))

(* The pointers of bp to its neighbours, and the two pointers to bp. *)
LinkOut(h, bp, at)   == SetSegPrev(SetSegNext(h, bp, at.prev), bp, at.curr)
LinkCurr(h, bp, at)  == IF at.curr # NULL THEN SetSegNext(h, at.curr, bp) ELSE h
LinkPrev(h, bp, at, idx) == IF at.prev # NULL THEN SetSegPrev(h, at.prev, bp)
                                              ELSE SET_SEG_LIST_PTR(h, idx, bp)
Linked(h, bp, at, idx) == LinkPrev(LinkCurr(LinkOut(h, bp, at), bp, at), bp, at, idx)

\* Mutant: the block that was first keeps NULL as its next pointer.
LinkedOneWay(h, bp, at, idx) == LinkPrev(LinkOut(h, bp, at), bp, at, idx)
add_seglist_OneWay(h, bp, blk_size) ==
  LinkedOneWay(h, bp, SegPlace(h, blk_size), SegIndex(blk_size))

add_seglist(h, bp, blk_size) ==
  Linked(h, bp, SegPlace(h, blk_size), SegIndex(blk_size))

(* The pointers that led to bp, whose neighbours in its list are prev and  *)
(* next, lead past it.                                                     *)
UnlinkNext(h, bp, prev, next) ==
  IF next = NULL THEN SET_SEG_LIST_PTR(h, SegIndex(GET_BLK_SIZE(h, bp)), prev)
                 ELSE SetSegPrev(h, next, prev)
UnlinkPrev(h, prev, next) == IF prev # NULL THEN SetSegNext(h, prev, next) ELSE h

remove_seglist(h, bp) ==
  UnlinkPrev(UnlinkNext(h, bp, SEG_PREV_BLKP(h, bp), SEG_NEXT_BLKP(h, bp)),
             SEG_PREV_BLKP(h, bp), SEG_NEXT_BLKP(h, bp))

init_seglist(h) ==
  [mem_sbrk(h, SEG_SIZE * WSIZE).h EXCEPT
     !.mem = [w \in DOMAIN @ |-> IF w < SEG_SIZE THEN NULL ELSE @[w]]]
-----------------------------------------------------------------------------
(* Merging a free block, already listed, with its free neighbours: both    *)
(* leave their lists, hdr and ftr get the tags of the union, which is      *)
(* listed at bp.  The addresses are those of the heap before the merge.    *)
Merged(h, bp, hdr, ftr, size) ==
  [h |-> add_seglist(PUT(PUT(h, hdr, PACK(size, 0)), ftr, PACK(size, 0)), bp, size),
   p |-> bp]

MergeNext(h, bp, next, size) ==
  Merged(remove_seglist(remove_seglist(h, bp), next), bp, HDRP(bp), bp + size - DSIZE, size)

MergePrev(h, bp, prev, size) ==
  Merged(remove_seglist(remove_seglist(h, bp), prev), prev, HDRP(prev), FTRP(h, bp), size)

MergeBoth(h, bp, prev, next, size) ==
  Merged(remove_seglist(remove_seglist(remove_seglist(h, bp), prev), next),
         prev, HDRP(prev), FTRP(h, next), size)

CoalesceWith(h, bp, prev, next, size) ==
  LET prev_alloc == GET_ALLOC(h, HDRP(prev)) = 1
      next_alloc == GET_ALLOC(h, HDRP(next)) = 1
  IN
  CASE prev_alloc /\ next_alloc -> [h |-> h, p |-> bp]
    [] prev_alloc /\ ~next_alloc ->
         MergeNext(h, bp, next, size + GET_BLK_SIZE(h, next))
    [] ~prev_alloc /\ next_alloc ->
         MergePrev(h, bp, prev, size + GET_BLK_SIZE(h, prev))
    [] OTHER ->
         MergeBoth(h, bp, prev, next,
                   size + GET_BLK_SIZE(h, prev) + GET_SIZE(h, FTRP(h, next)))

coalesce(h, bp) ==
  CoalesceWith(h, bp, PREV_BLKP(h, bp), NEXT_BLKP(h, bp), GET_BLK_SIZE(h, bp))

(* The new area, behind the old epilogue, becomes a listed free block with *)
(* a new epilogue behind it.                                               *)
PutEpilogue(h, bp) == PUT(h, HDRP(NEXT_BLKP(h, bp)), PACK(0, 1))

ExtendBy(s, size) ==
  IF s.p = FAIL THEN [h |-> s.h, p |-> NULL]
  ELSE coalesce(add_seglist(PutEpilogue(PutTags(s.h, s.p, size, 0), s.p), s.p, size), s.p)

extend_heap(h, words) ==
  LET size == IF words % 2 = 1 THEN (words + 1) * WSIZE ELSE words * WSIZE
  IN  ExtendBy(mem_sbrk(h, size), size)

\* Mutant: only the first block of a list is considered.
FirstFit_HeadOnly(h, asize, bp) ==
  IF bp = NULL THEN NULL ELSE IF asize > GET_BLK_SIZE(h, bp) THEN NULL ELSE bp

(* The first block of a list that is large enough, NULL if there is none. *)
FirstFit(h, asize, bp) ==
  LET at   == List(h, bp)
      fits == {k \in DOMAIN at : at[k] # NULL /\ asize <= GET_BLK_SIZE(h, at[k])}
  IN  IF fits = {} THEN NULL ELSE at[Min(fits)]

(* The first list with such a block, from the one for asize on.  The guard *)
(* is index > SEG_SIZE, so the word after the list array is read too.      *)
find_fit(h, asize) ==
  LET fit(i) == FirstFit(h, asize, GET_SEG_LIST_PTR(h, i))
      fits   == {i \in 0 .. SEG_SIZE : asize \div 2^i <= 1 /\ fit(i) # NULL}
  IN  IF fits = {} THEN NULL ELSE fit(Min(fits))

(* The unlisted block at bp becomes two, one of them allocated. *)
Split(h, bp, first, fAlloc, second, sAlloc) ==
  PutTags(PutTags(h, bp, first, fAlloc), bp + first, second, sAlloc)

PlaceIn(h, bp, asize, csize) ==
  LET padding == csize - asize
  IN
  CASE padding < 2 * DSIZE -> [h |-> PutTags(h, bp, csize, 1), p |-> bp]
    [] padding >= 2 * DSIZE /\ asize > MINSIZE ->
         [h |-> add_seglist(Split(h, bp, asize, 1, padding, 0), bp + asize, padding),
          p |-> bp]
    [] OTHER ->
         [h |-> add_seglist(Split(h, bp, padding, 0, asize, 1), bp, padding),
          p |-> bp + padding]

place(h, bp, asize) ==
  PlaceIn(remove_seglist(h, bp), bp, asize, GET_BLK_SIZE(h, bp))
-----------------------------------------------------------------------------
(* The four entry points.  mm_init yields p = 0 on success, FAIL otherwise. *)

Prologue(h, base) ==
  [h EXCEPT !.mem[base \div WSIZE]     = 0,
            !.mem[base \div WSIZE + 1] = PACK(DSIZE, 1),
            !.mem[base \div WSIZE + 2] = PACK(DSIZE, 1),
            !.mem[base \div WSIZE + 3] = PACK(0, 1)]

InitStatus(e) == [h |-> e.h, p |-> IF e.p = NULL THEN FAIL ELSE 0]

InitIn(s) ==
  IF s.p = FAIL THEN s
  ELSE InitStatus(extend_heap(Prologue(s.h, s.p), CHUNKSIZE \div WSIZE))

mm_init(h) == InitIn(mem_sbrk(init_seglist(h), 4 * WSIZE))

(* The block pointer of the prologue, where heap_ptr ends up. *)
heap_ptr == SEG_SIZE * WSIZE + 2 * WSIZE

adjusted(size) == IF size <= 2 * DSIZE THEN 3 * DSIZE ELSE ALIGN(size + DSIZE)

PlaceIfAny(e, asize) == IF e.p = NULL THEN e ELSE place(e.h, e.p, asize)

MallocAt(h, fit, asize) ==
  IF fit # NULL THEN place(h, fit, asize)
  ELSE PlaceIfAny(extend_heap(h, (IF asize > DCHUNKSIZE THEN asize ELSE DCHUNKSIZE)
                                   \div WSIZE), asize)

mm_malloc(h, size) ==
  IF size = 0 THEN [h |-> h, p |-> NULL]
  ELSE MallocAt(h, find_fit(h, adjusted(size)), adjusted(size))

\* Mutant: the freed block is not merged with its neighbours.
mm_free_NoCoalesce(h, bp) ==
  LET size == GET_BLK_SIZE(h, bp)
  IN  add_seglist(PutTags(h, bp, size, 0), bp, size)

(* The block of the given size at bp becomes free. *)
Release(h, bp, size) ==
  coalesce(add_seglist(PutTags(h, bp, size, 0), bp, size), bp).h

mm_free(h, bp) == Release(h, bp, GET_BLK_SIZE(h, bp))

(* The resized block at bp keeps asize bytes of payload out of room: the   *)
(* tail, if a block fits there, is released.                               *)
NewSize(room, asize) == IF room - asize > DSIZE THEN asize + DSIZE ELSE room + DSIZE

ReturnPadding(h, bp, padding) ==
  IF padding > DSIZE THEN Release(h, NEXT_BLKP(h, bp), padding) ELSE h

Stay(h, bp, asize, room) ==
  [h |-> ReturnPadding(PutTags(h, bp, NewSize(room, asize), 1), bp, room - asize),
   p |-> bp]

(* The same with the payload of ptr, n bytes, moved down to bp first. *)
Move(h, bp, ptr, n, asize, room) ==
  [h |-> ReturnPadding(
           PutFooter(CopyWords(PUT(h, HDRP(bp), PACK(NewSize(room, asize), 1)), bp, ptr, n),
                     bp, NewSize(room, asize), 1),
           bp, room - asize),
   p |-> bp]

(* Allocate, copy and free: what is left when the neighbours do not help. *)
CopyOver(fresh, ptr, n) ==
  IF fresh.p = NULL THEN [h |-> fresh.h, p |-> NULL]
  ELSE [h |-> mm_free(CopyWords(fresh.h, fresh.p, ptr, n), ptr), p |-> fresh.p]

\* Mutant: the block takes in the free one behind it, large enough or not.
Grow_Unchecked(h, ptr, size, prev, next) ==
  IF GET_ALLOC(h, HDRP(prev)) = 1 /\ GET_ALLOC(h, HDRP(next)) = 0
  THEN Stay(remove_seglist(h, next), ptr, ALIGN(size),
            GET_BLK_SIZE(h, ptr) - DSIZE + GET_BLK_SIZE(h, next))
  ELSE CopyOver(mm_malloc(h, size), ptr, GET_BLK_SIZE(h, ptr))

Grow(h, ptr, size, prev, next) ==
  LET asize    == ALIGN(size)
      csize    == GET_BLK_SIZE(h, ptr) - DSIZE
      nsize    == GET_BLK_SIZE(h, next)
      psize    == GET_BLK_SIZE(h, prev)
      nextFree == GET_ALLOC(h, HDRP(next)) = 0
      prevFree == GET_ALLOC(h, HDRP(prev)) = 0
  IN
  CASE prevFree /\ psize + csize >= asize ->
         Move(remove_seglist(h, prev), prev, ptr, csize + DSIZE, asize, csize + psize)
    [] ~prevFree /\ nextFree /\ nsize + csize >= asize ->
         Stay(remove_seglist(h, next), ptr, asize, csize + nsize)
    [] prevFree /\ nextFree /\ psize + csize < asize /\ psize + nsize + csize >= asize ->
         Move(remove_seglist(remove_seglist(h, next), prev), prev, ptr, csize + DSIZE,
              asize, csize + psize + nsize)
    [] OTHER -> CopyOver(mm_malloc(h, size), ptr, csize + DSIZE)

mm_realloc(h, ptr, size) ==
  LET csize == GET_BLK_SIZE(h, ptr) - DSIZE
      asize == ALIGN(size)
  IN
  CASE ptr = NULL -> mm_malloc(h, size)
    [] ptr # NULL /\ size = 0 -> [h |-> mm_free(h, ptr), p |-> ptr]
    [] ptr # NULL /\ size > 0 /\ asize <= csize ->
         IF csize - asize <= DSIZE THEN [h |-> h, p |-> ptr]
         ELSE Stay(h, ptr, asize, csize)
    [] OTHER -> Grow(h, ptr, size, PREV_BLKP(h, ptr), NEXT_BLKP(h, ptr))
-----------------------------------------------------------------------------
(* The blocks from bp to the epilogue, as NEXT_BLKP finds them. *)
BlocksFrom(h, bp) ==
  LET from[k \in 0 .. STEPS] ==
        [b \in Int |-> IF k = 0 \/ GET_BLK_SIZE(h, b) = 0 THEN {}
                       ELSE {b} \cup from[k - 1][NEXT_BLKP(h, b)]]
  IN  from[STEPS][bp]

(* The blocks of the list that continues at bp, FAIL among them if it does *)
(* not end.                                                                *)
ListFrom(h, bp) ==
  LET at == List(h, bp)
  IN  (Range(at) \ {NULL}) \cup (IF at[Len(at)] = NULL THEN {} ELSE {FAIL})

(* TRUE iff mm_check() returns 0.  The allocated bit of a listed block is  *)
(* read from its first payload word, and the last test compares a header   *)
(* address with the footer address of the same block.                      *)
mm_check(h) ==
  /\ \A b \in BlocksFrom(h, heap_ptr) :
       /\ GET_ALLOC(h, HDRP(b)) = GET_ALLOC(h, FTRP(h, b))
       /\ GET_BLK_SIZE(h, b) = GET_SIZE(h, FTRP(h, b))
  /\ \A idx \in 0 .. (SEG_SIZE - 1) :
       \A b \in ListFrom(h, GET_SEG_LIST_PTR(h, idx)) :
         /\ b \in mem_heap_lo .. mem_heap_hi(h)
         /\ GET_ALLOC(h, b) = 0
         /\ GET_BLK_SIZE(h, b) = GET_SIZE(h, FTRP(h, b))
         /\ b % DSIZE = 0
         /\ SEG_PREV_BLKP(h, b) # NULL => HDRP(b) - FTRP(h, b) # DSIZE
=============================================================================
