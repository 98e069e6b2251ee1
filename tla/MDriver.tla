------------------------------- MODULE MDriver -------------------------------
(***************************************************************************)
(* malloclab/src/mdriver.c driving the allocator of Mm.  eval_mm_valid     *)
(* runs a trace of alloc, realloc and free requests, keeps the range list  *)
(* of live payloads, fills every payload with a byte derived from its      *)
(* index, and checks each pointer the allocator returns.  eval_mm_util and *)
(* eval_mm_speed then run the same trace again, on memory that still holds *)
(* everything that the pass before has left there.                         *)
(*                                                                         *)
(* A trace is chosen step by step: any request on any index, as long as a  *)
(* free or realloc names an allocated block and an alloc does not.  Client *)
(* data is written and compared a word at a time (a payload never shares a *)
(* word with a tag).                                                       *)
(***************************************************************************)
EXTENDS Mm

CONSTANTS
  Indices,     \* block numbers a trace may use
  Sizes,       \* request sizes, in bytes
  Junk,        \* words that fresh memory from malloc(MAX_HEAP) may hold
  NUM_OPS,     \* num_ops of a trace
  NUM_TRACES,  \* traces run one after the other on the same memory
  PASSES       \* bound on the passes: 1 eval_mm_valid, 2 eval_mm_util, 3 eval_mm_speed

VARIABLES
  heap,        \* the simulated memory and mem_brk
  blocks,      \* trace->blocks, NULL for an index that is not allocated
  block_sizes, \* trace->block_sizes
  ranges,      \* the range list: a set of [lo, hi]
  opnum,       \* i, the requests interpreted so far
  ops,         \* trace->ops, as far as it has been chosen
  tracenum,    \* traces started so far
  max_total_size,  \* the high water mark that eval_mm_util returns
  result       \* "setup", "run", the pass completed, or the error that ended it

vars == <<heap, blocks, block_sizes, ranges, opnum, ops, tracenum, max_total_size, result>>

\* A request of 0 bytes trips assert(size > 0) in add_range.
ASSUME MDriverAssumption ==
  /\ Indices \subseteq 0 .. 255
  /\ Sizes \subseteq Nat \ {0}
  /\ Junk \subseteq Nat /\ Junk # {}
  /\ {NUM_OPS, NUM_TRACES, PASSES} \subseteq Nat
  /\ MAX_HEAP >= SEG_SIZE * WSIZE + 4 * WSIZE + CHUNKSIZE

Errors == {"mm_init failed", "mm_malloc failed", "mm_realloc failed",
           "bad range", "data not preserved"}
-----------------------------------------------------------------------------
(* The word, as a signed number, that memset(p, index & 0xFF, size) leaves *)
(* in memory, and the words of a payload of size bytes.                    *)
Fill(index) == LET byte == index % 256
               IN  IF byte < 128 THEN byte * 16843009 ELSE (byte - 255) * 16843009 - 1
PayloadWords(p, size) == (p \div WSIZE) .. ((p + size - 1) \div WSIZE)

memset(h, p, index, size) ==
  [h EXCEPT !.mem = [w \in DOMAIN @ |->
                       IF w \in PayloadWords(p, size) THEN Fill(index) ELSE @[w]]]

Filled(h, p, index, size) ==
  \A w \in PayloadWords(p, size) : h.mem[w] = Fill(index)

(* newp[j] != (index & 0xFF): char is signed, so that a byte of 128 or     *)
(* more is compared as a negative number.                                  *)
Char(byte) == IF byte >= 128 THEN byte - 256 ELSE byte
Preserved(h, p, index, size) ==
  \A w \in PayloadWords(p, size) :
    \E byte \in 0 .. 255 : h.mem[w] = Fill(byte) /\ Char(byte) = index % 256

(* What add_range accepts: aligned, inside the heap, and neither end of it *)
(* inside a range of rs.                                                   *)
add_range(h, rs, lo, size) ==
  LET hi == lo + size - 1
  IN  /\ lo % DSIZE = 0
      /\ lo >= mem_heap_lo /\ lo <= mem_heap_hi(h)
      /\ hi >= mem_heap_lo /\ hi <= mem_heap_hi(h)
      /\ \A r \in rs : ~(lo \in r.lo .. r.hi) /\ ~(hi \in r.lo .. r.hi)

remove_range(rs, lo) == {r \in rs : r.lo # lo}
-----------------------------------------------------------------------------
(* malloc(MAX_HEAP) returns memory with arbitrary contents. *)
Init ==
  /\ \E junk \in Junk :
       heap = [mem |-> [w \in 0 .. (MAX_HEAP \div WSIZE - 1) |-> junk], brk |-> 0]
  /\ blocks = [x \in Indices |-> NULL]
  /\ block_sizes = [x \in Indices |-> 0]
  /\ ranges = {}
  /\ opnum = 0 /\ ops = <<>> /\ tracenum = 0 /\ max_total_size = 0
  /\ result = "setup"

(* The head of eval_mm_valid: a new trace on the old memory, once main is  *)
(* done with the trace before.                                             *)
Begin(m) ==
  /\ heap' = m.h
  /\ result' = IF m.p = FAIL THEN "mm_init failed" ELSE "run"

StartTrace ==
  /\ result \in {"setup", "speed"} \cup Errors
  /\ tracenum < NUM_TRACES
  /\ Begin(mm_init(mem_reset_brk(heap)))
  /\ ranges' = {}
  /\ blocks' = [x \in Indices |-> NULL]
  /\ block_sizes' = [x \in Indices |-> 0]
  /\ opnum' = 0
  /\ ops' = <<>>
  /\ tracenum' = tracenum + 1
  /\ UNCHANGED max_total_size

Request == result = "run" /\ opnum < NUM_OPS

(* A request of the trace, as read_trace stores it. *)
Op(type, index, size) == [type |-> type, index |-> index, size |-> size]

(* Accept the block at p for index x: remember its range, fill it. *)
Remember(h, rs, x, p, size) ==
  /\ heap' = memset(h, p, x, size)
  /\ ranges' = rs \cup {[lo |-> p, hi |-> p + size - 1]}
  /\ blocks' = [blocks EXCEPT ![x] = p]
  /\ block_sizes' = [block_sizes EXCEPT ![x] = size]
  /\ opnum' = opnum + 1
  /\ UNCHANGED <<tracenum, max_total_size, result>>

GiveUp(h, rs, error) ==
  /\ heap' = h
  /\ ranges' = rs
  /\ result' = error
  /\ UNCHANGED <<blocks, block_sizes, opnum, tracenum, max_total_size>>

(* What the driver does with the heap and the pointer m that it gets back. *)
Allocated(x, size, m) ==
  CASE m.p = NULL -> GiveUp(m.h, ranges, "mm_malloc failed")
    [] m.p # NULL /\ ~add_range(m.h, ranges, m.p, size) -> GiveUp(m.h, ranges, "bad range")
    [] OTHER -> Remember(m.h, ranges, x, m.p, size)

Alloc(x, size) ==
  /\ Request
  /\ blocks[x] = NULL
  /\ ops' = Append(ops, Op("alloc", x, size))
  /\ Allocated(x, size, mm_malloc(heap, size))

Reallocated(x, size, m, rs, oldsize) ==
  CASE m.p = NULL -> GiveUp(m.h, ranges, "mm_realloc failed")
    [] m.p # NULL /\ ~add_range(m.h, rs, m.p, size) -> GiveUp(m.h, rs, "bad range")
    [] m.p # NULL /\ add_range(m.h, rs, m.p, size)
                  /\ ~Preserved(m.h, m.p, x, oldsize) ->
         GiveUp(m.h, rs \cup {[lo |-> m.p, hi |-> m.p + size - 1]}, "data not preserved")
    [] OTHER -> Remember(m.h, rs, x, m.p, size)

Realloc(x, size) ==
  /\ Request
  /\ blocks[x] # NULL
  /\ ops' = Append(ops, Op("realloc", x, size))
  /\ Reallocated(x, size, mm_realloc(heap, blocks[x], size),
                 remove_range(ranges, blocks[x]),
                 IF size < block_sizes[x] THEN size ELSE block_sizes[x])

(* The driver leaves blocks[index] dangling; no well-formed trace uses it  *)
(* again, which NULL records here.                                         *)
Free(x) ==
  /\ Request
  /\ blocks[x] # NULL
  /\ ranges' = remove_range(ranges, blocks[x])
  /\ heap' = mm_free(heap, blocks[x])
  /\ blocks' = [blocks EXCEPT ![x] = NULL]
  /\ opnum' = opnum + 1
  /\ ops' = Append(ops, Op("free", x, 0))
  /\ UNCHANGED <<block_sizes, tracenum, max_total_size, result>>

FinishTrace ==
  /\ result = "run" /\ opnum = NUM_OPS
  /\ result' = "valid"
  /\ UNCHANGED <<heap, blocks, block_sizes, ranges, opnum, ops, tracenum, max_total_size>>
-----------------------------------------------------------------------------
(* The later passes run the whole trace in one step.  The state of a pass: *)
(* the heap, the trace's two arrays, the size of all allocated blocks and  *)
(* its maximum, and whether app_error has ended the program.               *)

Counted(r, size) ==
  [r EXCEPT !.total = @ + size, !.max = IF r.total + size > @ THEN r.total + size ELSE @]

Got(r, op, m) ==
  IF m.p = NULL THEN [r EXCEPT !.h = m.h, !.failed = TRUE]
  ELSE [Counted(r, op.size - (IF op.type = "alloc" THEN 0 ELSE r.sizes[op.index]))
          EXCEPT !.h = m.h, !.blocks[op.index] = m.p, !.sizes[op.index] = op.size]

\* Mutant: total_size stays when a block is freed.
Dropped_NoSize(r, x) == [r EXCEPT !.h = mm_free(@, r.blocks[x]), !.blocks[x] = NULL]

Dropped(r, x) ==
  [r EXCEPT !.h = mm_free(@, r.blocks[x]), !.blocks[x] = NULL, !.total = @ - r.sizes[x]]

Replayed(r, op) ==
  CASE r.failed -> r
    [] ~r.failed /\ op.type = "alloc" -> Got(r, op, mm_malloc(r.h, op.size))
    [] ~r.failed /\ op.type = "realloc" ->
         Got(r, op, mm_realloc(r.h, r.blocks[op.index], op.size))
    [] OTHER -> Dropped(r, op.index)

Restarted(m) ==
  [h |-> m.h, failed |-> m.p = FAIL, blocks |-> blocks, sizes |-> block_sizes,
   total |-> 0, max |-> 0]

Pass ==
  LET after[n \in 0 .. Len(ops)] ==
        IF n = 0 THEN Restarted(mm_init(mem_reset_brk(heap)))
        ELSE Replayed(after[n - 1], ops[n])
  IN  after[Len(ops)]

PassEnds(r, name) ==
  /\ heap' = r.h
  /\ blocks' = r.blocks
  /\ block_sizes' = r.sizes
  /\ max_total_size' = IF name = "util" THEN r.max ELSE max_total_size
  /\ result' = IF r.failed THEN "app_error" ELSE name
  /\ UNCHANGED <<ranges, opnum, ops, tracenum>>

eval_mm_util == PASSES >= 2 /\ result = "valid" /\ PassEnds(Pass, "util")

(* fsecs measures the pass as often as the K-best scheme wants.  It leaves *)
(* block_sizes alone, which Pass sets to what they are already.            *)
eval_mm_speed == PASSES >= 3 /\ result \in {"util", "speed"} /\ PassEnds(Pass, "speed")

Next ==
  \/ StartTrace
  \/ \E x \in Indices, size \in Sizes : Alloc(x, size)
  \/ \E x \in Indices, size \in Sizes : Realloc(x, size)
  \/ \E x \in Indices : Free(x)
  \/ FinishTrace
  \/ eval_mm_util
  \/ eval_mm_speed

Spec == Init /\ [][Next]_vars
-----------------------------------------------------------------------------
(* Properties. *)

Started == tracenum > 0
Live    == {x \in Indices : blocks[x] # NULL}
Blocks  == BlocksFrom(heap, NEXT_BLKP(heap, heap_ptr))
FreeBlocks == {b \in Blocks : GET_ALLOC(heap, HDRP(b)) = 0}

(* eval_mm_valid finds no fault with the allocator on any trace: the only  *)
(* way a trace fails is that mm_malloc runs out of simulated memory.       *)
DriverFindsNoFault ==
  result \notin {"mm_init failed", "bad range", "data not preserved"}

(* Stronger than what the driver looks at: no request ever disturbs a byte *)
(* of another live payload, be it by a tag, a list pointer or a copy.      *)
LiveDataIntact ==
  \A x \in Live : result = "run" => Filled(heap, blocks[x], x, block_sizes[x])

(* Every free block is on the list of its size class, once, and nothing    *)
(* else is on a list; the two pointers of neighbours agree, and the next   *)
(* pointer of a head is NULL, which is how remove_seglist recognises it.   *)
(* mm_check, the allocator's own checker, sees no more than that.          *)
FreeListsExact ==
  Started =>
    /\ \A idx \in 0 .. (SEG_SIZE - 1) :
         ListFrom(heap, GET_SEG_LIST_PTR(heap, idx))
           = {b \in FreeBlocks : SegIndex(GET_BLK_SIZE(heap, b)) = idx}
    /\ \A b \in FreeBlocks :
         /\ SEG_PREV_BLKP(heap, b) # NULL =>
              SEG_NEXT_BLKP(heap, SEG_PREV_BLKP(heap, b)) = b
         /\ SEG_NEXT_BLKP(heap, b) = NULL <=>
              GET_SEG_LIST_PTR(heap, SegIndex(GET_BLK_SIZE(heap, b))) = b
    /\ mm_check(heap)

(* find_fit gives up only when no free block is large enough, although it  *)
(* starts at the list of the request's own size class.                     *)
FitIsComplete ==
  Started => \A n \in Sizes :
    find_fit(heap, adjusted(n)) = NULL =>
      \A b \in FreeBlocks : GET_BLK_SIZE(heap, b) < adjusted(n)

(* What a trace does depends on the trace alone: although nothing is ever  *)
(* erased, the second and every later pass of a valid trace succeeds too,  *)
(* places the blocks where eval_mm_valid has seen them, and needs the same *)
(* heap, so that the figures reported are those of the heap that was       *)
(* checked.                                                                *)
ReplayRepeats ==
  [][result' \in {"util", "speed", "app_error"} =>
       /\ result' # "app_error"
       /\ blocks' = blocks /\ block_sizes' = block_sizes
       /\ heap'.brk = heap.brk]_vars

(* The utilization, hwm / heapsize, is a fraction: even the high water     *)
(* mark of the payloads never exceeds the heap, although brk is read only  *)
(* at the end.                                                             *)
UtilIsAFraction == result = "util" => max_total_size <= heap.brk

(* The word-level allocator implements the block-level one: the tags in    *)
(* memory always describe a state of HeapBlocks and every request maps to  *)
(* one of its actions.                                                     *)
DW(a) == a \div DSIZE
Table(F(_, _)) == LET bs == IF Started THEN Blocks ELSE {}
                  IN  [a \in 0 .. DW(MAX_HEAP) |-> F(a * DSIZE, a * DSIZE \in bs)] @@ <<>>
SizeAt(bp, isBlock) == IF isBlock THEN DW(GET_BLK_SIZE(heap, bp)) ELSE 0
UsedAt(bp, isBlock) == isBlock /\ GET_ALLOC(heap, HDRP(bp)) = 1
ReqAt(bp, isBlock)  == IF \E x \in Live : blocks[x] = bp
                       THEN block_sizes[CHOOSE x \in Live : blocks[x] = bp] ELSE 0

Abstract == INSTANCE HeapBlocks WITH
  LIMIT <- DW(MAX_HEAP), BASE <- DW(heap_ptr + DSIZE), CHUNK <- DW(CHUNKSIZE),
  DCHUNK <- DW(DCHUNKSIZE), MINPLACE <- DW(MINSIZE), Requests <- Sizes,
  brk  <- IF Started THEN DW(heap.brk) ELSE DW(heap_ptr + DSIZE),
  size <- Table(SizeAt), used <- Table(UsedAt), req <- Table(ReqAt)

ImplementsHeapBlocks == Abstract!Spec
=============================================================================
