------------------------------ MODULE MemTrace ------------------------------
(***************************************************************************)
(* The memory tracers of linklab/handout, part1 to part3: libraries that   *)
(* stand in front of malloc, calloc, realloc and free.  Part 1 counts the  *)
(* calls and bytes; parts 2 and 3 also keep the list of                    *)
(* linklab/handout/utils/memlist.c of every block they have seen.          *)
(*                                                                         *)
(* The list is the sequence of its items after the dummy element.  libc's  *)
(* allocator is the table of the blocks that are really allocated: it may  *)
(* hand out an address again once it is free, and may run out of memory.   *)
(* A client of part 1 or 2 passes allocated blocks or NULL, as C allows;   *)
(* part 3 is made for clients that free and realloc anything.              *)
(***************************************************************************)
EXTENDS Integers, SequencesExt

CONSTANTS
  Parts,       \* which of the three libraries are explored
  Ptrs,        \* addresses libc hands out
  Sizes,       \* request sizes
  MAXCALLS,    \* bound on the number of allocating calls
  MAXBELOW     \* bound on how far below 0 part 2 lets a count go

ASSUME MemTraceAssumption ==
  /\ Parts \subseteq 1 .. 3
  /\ {Ptrs, Sizes} \subseteq SUBSET (Nat \ {0}) /\ IsFiniteSet(Ptrs)
  /\ MAXCALLS \in Nat /\ MAXBELOW \in Nat

VARIABLES
  part,        \* the library that is loaded
  blocks,      \* libc: the size of each allocated block, 0 if it is free
  list,        \* the items [ptr, size, cnt]
  n_calls,     \* n_malloc + n_calloc + n_realloc
  n_allocb,
  n_freeb,
  ended        \* "no", or how the process ended

vars == <<part, blocks, list, n_calls, n_allocb, n_freeb, ended>>

NULL == 0
-----------------------------------------------------------------------------
(* memlist.c *)

Item(ptr, size, cnt) == [ptr |-> ptr, size |-> size, cnt |-> cnt]

(* The scan for the first item whose address is not below ptr. *)
At(l, ptr) == SelectInSeq(l, LAMBDA i : i.ptr >= ptr)

\* Mutant: an address that comes back keeps the size it had.
alloc_OldSize(l, ptr, size) ==
  LET at == At(l, ptr)
  IN  CASE at = 0 -> Append(l, Item(ptr, size, 1))
        [] at # 0 /\ l[at].ptr = ptr -> [l EXCEPT ![at].cnt = @ + 1]
        [] OTHER -> InsertAt(l, at, Item(ptr, size, 1))

\* Mutant: the count of an address that comes back stays 0.
alloc_OldCount(l, ptr, size) ==
  LET at == At(l, ptr)
  IN  CASE at = 0 -> Append(l, Item(ptr, size, 1))
        [] at # 0 /\ l[at].ptr = ptr -> [l EXCEPT ![at].size = size]
        [] OTHER -> InsertAt(l, at, Item(ptr, size, 1))

\* Mutant: new items go to the end of the list.
alloc_Last(l, ptr, size) ==
  LET at == At(l, ptr)
  IN  IF at # 0 /\ l[at].ptr = ptr THEN [l EXCEPT ![at] = Item(ptr, size, @.cnt + 1)]
                                   ELSE Append(l, Item(ptr, size, 1))

alloc(l, ptr, size) ==
  LET at == At(l, ptr)
  IN  CASE at = 0 -> Append(l, Item(ptr, size, 1))
        [] at # 0 /\ l[at].ptr = ptr -> [l EXCEPT ![at] = Item(ptr, size, @.cnt + 1)]
        [] OTHER -> InsertAt(l, at, Item(ptr, size, 1))

dealloc(l, ptr) ==
  LET at == SelectInSeq(l, LAMBDA i : i.ptr = ptr)
  IN  IF at = 0 THEN l ELSE [l EXCEPT ![at].cnt = @ - 1]

(* The position of the item, or 0. *)
find(l, ptr) == IF At(l, ptr) # 0 /\ l[At(l, ptr)].ptr = ptr THEN At(l, ptr) ELSE 0
-----------------------------------------------------------------------------
(* libc: the blocks after a call that returns new. *)
LibcMalloc(new, size) ==
  \/ new = NULL /\ UNCHANGED blocks
  \/ new \in Ptrs /\ blocks[new] = 0 /\ blocks' = [blocks EXCEPT ![new] = size]

LibcRealloc(ptr, new, size) ==
  \/ ptr = NULL /\ LibcMalloc(new, size)
  \/ ptr # NULL /\ new = NULL /\ UNCHANGED blocks
  \/ ptr # NULL /\ new \in Ptrs /\ (new = ptr \/ blocks[new] = 0)
     /\ blocks' = [blocks EXCEPT ![ptr] = 0, ![new] = size]

(* Freeing a block that is not allocated corrupts the heap. *)
LibcFree(ptr) ==
  /\ blocks' = IF ptr = NULL THEN blocks ELSE [blocks EXCEPT ![ptr] = 0]
  /\ ended' = IF ptr # NULL /\ blocks[ptr] = 0 THEN "heap corrupted" ELSE ended

(* What the client passes to free and realloc. *)
Args == {NULL} \cup {p \in Ptrs : part \in {1, 2} => blocks[p] > 0}
-----------------------------------------------------------------------------
(* init, the constructor. *)
Init ==
  /\ part \in Parts
  /\ blocks = [p \in Ptrs |-> 0]
  /\ list = <<>>
  /\ n_calls = 0 /\ n_allocb = 0 /\ n_freeb = 0
  /\ ended = "no"

(* The counters of k calls in a row, nested in one another, for size. *)
Counted(k, size) ==
  /\ ended = "no"
  /\ n_calls + k <= MAXCALLS
  /\ n_calls' = n_calls + k
  /\ n_allocb' = n_allocb + k * size

Allocating(size) == Counted(1, size)

(* The list once libc has returned new to malloc or calloc. *)
Listed(new, size) == IF part = 1 THEN list ELSE alloc(list, new, size)

malloc(size) ==
  /\ Allocating(size)
  /\ \E new \in Ptrs \cup {NULL} : LibcMalloc(new, size) /\ list' = Listed(new, size)
  /\ UNCHANGED <<part, n_freeb, ended>>

calloc(nmemb, size) ==
  /\ Allocating(nmemb * size)
  /\ \E new \in Ptrs \cup {NULL} :
       LibcMalloc(new, nmemb * size) /\ list' = Listed(new, nmemb * size)
  /\ UNCHANGED <<part, n_freeb, ended>>

Abort(how) == ended' = how /\ UNCHANGED <<list, n_freeb>>

(* The end of realloc, once libc has been called for the listed block ptr. *)
Moved(ptr, new, size) ==
  /\ n_freeb' = n_freeb + list[find(list, ptr)].size
  /\ list' = alloc(dealloc(list, ptr), new, size)

Freed(ptr) ==
  /\ n_freeb' = n_freeb + list[find(list, ptr)].size
  /\ list' = dealloc(list, ptr)
  /\ LibcFree(ptr)

realloc_part1(ptr, size) ==
  /\ part = 1
  /\ Allocating(size)
  /\ \E new \in Ptrs \cup {NULL} : LibcRealloc(ptr, new, size)
  /\ UNCHANGED <<part, list, n_freeb, ended>>

free_part1(ptr) ==
  /\ part = 1 /\ ended = "no"
  /\ LibcFree(ptr)
  /\ UNCHANGED <<part, list, n_calls, n_allocb, n_freeb>>

(* Part 2 reads the item that find returns without a NULL check; realloc   *)
(* has already called libc by then.                                        *)
realloc_part2(ptr, size) ==
  /\ part = 2 /\ UNCHANGED part
  /\ Allocating(size)
  /\ \E new \in Ptrs \cup {NULL} :
       /\ LibcRealloc(ptr, new, size)
       /\ \/ find(list, ptr) = 0 /\ Abort("segfault")
          \/ find(list, ptr) # 0 /\ Moved(ptr, new, size) /\ UNCHANGED ended

free_part2(ptr) ==
  /\ part = 2 /\ ended = "no"
  /\ \/ find(list, ptr) = 0 /\ Abort("segfault") /\ UNCHANGED blocks
     \/ find(list, ptr) # 0 /\ list[find(list, ptr)].cnt > -MAXBELOW /\ Freed(ptr)
  /\ UNCHANGED <<part, n_calls, n_allocb>>

\* Mutant: a count of 0 is accepted.
Allocated_Once(ptr) == find(list, ptr) # 0

(* Part 3 looks first whether the list says that ptr is allocated. *)
Allocated(ptr) == find(list, ptr) # 0 /\ list[find(list, ptr)].cnt > 0

(* Where part 3 means libc's realloc(NULL, size) it calls itself, which    *)
(* returns only if NULL is on the list.                                    *)
realloc_part3(ptr, size) ==
  LET p == IF Allocated(ptr) THEN ptr ELSE NULL
  IN  /\ part = 3 /\ UNCHANGED part
      /\ Counted(IF p = ptr THEN 1 ELSE 2, size)
      /\ \/ ~Allocated(p) /\ Abort("endless recursion") /\ UNCHANGED blocks
         \/ /\ Allocated(p)
            /\ \E new \in Ptrs \cup {NULL} : LibcRealloc(p, new, size) /\ Moved(p, new, size)
            /\ ended' = IF p # NULL /\ blocks[p] = 0 THEN "heap corrupted" ELSE ended

free_part3(ptr) ==
  /\ part = 3 /\ ended = "no"
  /\ \/ /\ ptr = NULL \/ ~Allocated(ptr)
        /\ UNCHANGED <<blocks, list, n_freeb, ended>>
     \/ /\ ptr # NULL /\ Allocated(ptr)
        /\ Freed(ptr)
  /\ UNCHANGED <<part, n_calls, n_allocb>>

(* fini, the destructor: it logs the items that are not freed, then frees  *)
(* the list.                                                               *)
Reported == {[ptr |-> i.ptr, size |-> i.size] : i \in {j \in Range(list) : j.cnt # 0}}

fini ==
  /\ ended = "no"
  /\ ended' = "stopped"
  /\ list' = <<>>
  /\ UNCHANGED <<part, blocks, n_calls, n_allocb, n_freeb>>

Next ==
  \/ \E size \in Sizes : malloc(size)
  \/ \E nmemb \in 1 .. 2, size \in Sizes : calloc(nmemb, size)
  \/ \E ptr \in Args, size \in Sizes :
       realloc_part1(ptr, size) \/ realloc_part2(ptr, size) \/ realloc_part3(ptr, size)
  \/ \E ptr \in Args : free_part1(ptr) \/ free_part2(ptr) \/ free_part3(ptr)
  \/ fini

Spec == Init /\ [][Next]_vars
-----------------------------------------------------------------------------
(* A call that failed has left the block NULL on the list, for good. *)
Failed == find(list, NULL) # 0

(* "Non-deallocated memory blocks": what fini logs are exactly the blocks  *)
(* that are still allocated, each with its size, although addresses are    *)
(* reused and freed blocks stay on the list.  Once libc has run out of     *)
(* memory this is lost.                                                    *)
ReportIsExact ==
  part # 1 /\ ended = "no" /\ ~Failed =>
    Reported = {[ptr |-> p, size |-> blocks[p]] : p \in {q \in Ptrs : blocks[q] > 0}}

(* find stops at the first larger address and still finds every item: the  *)
(* list stays sorted, and no address is on it twice.                       *)
FindIsComplete == \A k \in DOMAIN list : find(list, list[k].ptr) = k

(* The bytes of the blocks that libc has handed out. *)
LiveBytes == FoldFunctionOnSet(+, 0, blocks, Ptrs)

(* The statistics balance: what is still allocated is never more than      *)
(* allocated_total, whatever fails and whatever the client passes, and in  *)
(* parts 2 and 3 it is allocated_total less freed_total as long as libc    *)
(* does not fail.                                                          *)
BytesBalance ==
  /\ LiveBytes <= n_allocb
  /\ part # 1 /\ ended = "no" /\ ~Failed => n_allocb - n_freeb = LiveBytes

(* Whatever the client frees, and whatever fails, libc is only ever asked  *)
(* to free or realloc a block that is allocated.                           *)
LibcIsSafe == ended # "heap corrupted"
=============================================================================
