---------------------------- MODULE MDriverProofs ----------------------------
(***************************************************************************)
(* The word-level allocator keeps its heap in order and its clients' data  *)
(* untouched, for every heap size, every trace and whatever fresh memory   *)
(* holds.                                                                  *)
(*                                                                         *)
(* A table g says what the words of a heap mean.  Its unit is the double   *)
(* word, so that block b starts at address 8 * b, and 0 stands for NULL:   *)
(*   B   the blocks               hi  the end of the heap                  *)
(*   sz  their sizes              L   the blocks that are on a list        *)
(*   al  their allocated bits     pv, nx  the list pointers of a block     *)
(*   hd  the heads of the lists   rk  falls along every list               *)
(*                                                                         *)
(* Two heaps with one table answer every call alike; the lemmas about      *)
(* mm_malloc, mm_realloc and mm_free speak of two heaps h and k for this   *)
(* reason. It is what makes a second pass of a trace repeat the first.     *)
(* Keeps(h, g, h2, g2, S) says that a step from h to h2 keeps the          *)
(* allocated blocks of S: their place, their size, and every word of their *)
(* payloads. In turn come the words and tags; the lists (remove_seglist,   *)
(* add_seglist); blocks that change (coalesce, extend_heap, place); the    *)
(* three requests and mm_init; what mm_check and the specification read;   *)
(* the driver, with its passes; and the theorems.                          *)
(***************************************************************************)
EXTENDS MDriver, FiniteSetTheorems, SequenceTheorems, WellFoundedInduction, TLAPS

(* The words of the memory, the indices of the lists, and where the blocks *)
(* begin: behind the list heads, the padding and the prologue.             *)
Words == 0 .. (MAX_HEAP \div WSIZE - 1)
Idx   == 0 .. (SEG_SIZE - 1)
Lo    == SEG_SIZE \div 2 + 2

(* The list that a block of t double words belongs to. *)
Class(t) == SegIndex(8 * t)

Tables == [B : SUBSET Nat, sz : [Nat -> Nat], al : [Nat -> {0, 1}], hi : Nat, L : SUBSET Nat,
          pv : [Nat -> Nat], nx : [Nat -> Nat], hd : [Idx -> Nat], rk : [Nat -> Nat]]

(* The blocks lie one behind the other from Lo to the end of the heap. *)
Tiled(g) ==
  /\ Lo <= g.hi
  /\ Lo \in g.B \cup {g.hi}
  /\ \A b \in g.B : Lo <= b /\ g.sz[b] >= 2 /\ b + g.sz[b] <= g.hi
  /\ \A b \in g.B : b + g.sz[b] \in g.B \cup {g.hi}
  /\ \A b \in g.B \cup {g.hi} : b = Lo \/ \E c \in g.B : c + g.sz[c] = b
  /\ \A b, c \in g.B : b < c => b + g.sz[b] <= c

(* Listed blocks are free, and on the list of their size, linked both ways. *)
Listed(g) ==
  /\ g.L \subseteq g.B
  /\ \A b \in g.L : g.al[b] = 0
  /\ \A b \in g.L : g.pv[b] # 0 =>
       /\ g.pv[b] \in g.L /\ g.nx[g.pv[b]] = b
       /\ Class(g.sz[g.pv[b]]) = Class(g.sz[b]) /\ g.rk[g.pv[b]] < g.rk[b]
  /\ \A b \in g.L : g.nx[b] # 0 =>
       g.nx[b] \in g.L /\ g.pv[g.nx[b]] = b /\ Class(g.sz[g.nx[b]]) = Class(g.sz[b])
  /\ \A b \in g.L : g.nx[b] = 0 => g.hd[Class(g.sz[b])] = b
  /\ \A i \in Idx : g.hd[i] # 0 => g.hd[i] \in g.L /\ Class(g.sz[g.hd[i]]) = i /\ g.nx[g.hd[i]] = 0

(* The words of the heap say so. *)
Tags(m, g) ==
  /\ \A b \in g.B : /\ m[2 * b - 1] = 8 * g.sz[b] + g.al[b]
                    /\ m[2 * (b + g.sz[b]) - 2] = 8 * g.sz[b] + g.al[b]
  /\ m[SEG_SIZE] = 0 /\ m[2 * Lo - 3] = 9 /\ m[2 * Lo - 2] = 9 /\ m[2 * g.hi - 1] = 1

Links(m, g) ==
  /\ \A b \in g.L : m[2 * b] = 8 * g.pv[b] /\ m[2 * b + 1] = 8 * g.nx[b]
  /\ \A i \in Idx : m[i] = 8 * g.hd[i]

Heap(h, brk) == h = [mem |-> h.mem, brk |-> brk] /\ h.mem \in [Words -> Int]

OK(h, g) ==
  /\ g \in Tables /\ Heap(h, 8 * g.hi) /\ 8 * g.hi <= MAX_HEAP
  /\ Tiled(g) /\ Listed(g) /\ Tags(h.mem, g) /\ Links(h.mem, g)

(* Every free block is listed. *)
Full(g) == \A b \in g.B : g.al[b] = 0 => b \in g.L
Used(g) == {b \in g.B : g.al[b] = 1}

(* The blocks of S are allocated all the while, and so is their data. *)
Keeps(h, g, h2, g2, S) ==
  \A b \in S : /\ b \in g.B /\ b \in g2.B /\ g.al[b] = 1 /\ g2.al[b] = 1 /\ g2.sz[b] = g.sz[b]
               /\ \A w \in (2 * b) .. (2 * (b + g.sz[b]) - 3) : h2.mem[w] = h.mem[w]

-----------------------------------------------------------------------------
(* The sizes of the program, in double words. *)
LEMMA Sizes8 ==
  /\ SEG_SIZE \in Nat \ {0} /\ MAX_HEAP \in Nat /\ Lo \in Nat /\ 2 * Lo = SEG_SIZE + 4 /\ Lo >= 3
  /\ 8 * Lo = SEG_SIZE * 4 + 16 /\ heap_ptr = 8 * (Lo - 1)
<1>1. SEG_SIZE \in Nat \ {0} /\ MAX_HEAP \in Nat /\ SEG_SIZE % 2 = 0
  BY MmAssumption
<1> QED BY <1>1 DEF Lo, heap_ptr, WSIZE

(* Words and addresses. *)
LEMMA WordAt ==
  ASSUME NEW d \in Int
  PROVE  /\ (8 * d) \div 4 = 2 * d /\ (8 * d + 4) \div 4 = 2 * d + 1 /\ (8 * d - 4) \div 4 = 2 * d - 1
         /\ (8 * d - 8) \div 4 = 2 * d - 2
  OBVIOUS

(* A word that ends inside the heap's maximum is one of its words. *)
LEMMA IsWord ==
  ASSUME NEW w \in Nat, 4 * w < MAX_HEAP
  PROVE  w \in Words
<1>1. MAX_HEAP \in Nat /\ MAX_HEAP % 4 = 0
  BY MmAssumption DEF WSIZE
<1> QED BY <1>1 DEF Words, WSIZE

(* A tag holds a size and a bit. *)
LEMMA TagIs ==
  ASSUME NEW t \in Nat, NEW a \in {0, 1}
  PROVE  ((8 * t + a) \div 8) * 8 = 8 * t /\ (8 * t + a) % 2 = a
  OBVIOUS

(* What GET_SIZE and the macros built on it (GET_BLK_SIZE, GET_ALLOC,      *)
(* NEXT_BLKP, PREV_BLKP, FTRP) make of a tag 8 * t + a.                    *)
LEMMA Reads ==
  ASSUME NEW h, NEW d \in Nat, NEW t \in Nat, NEW a \in {0, 1}
  PROVE  /\ h.mem[2 * d - 1] = 8 * t + a =>
              /\ GET_BLK_SIZE(h, 8 * d) = 8 * t /\ GET_ALLOC(h, HDRP(8 * d)) = a
              /\ NEXT_BLKP(h, 8 * d) = 8 * (d + t) /\ FTRP(h, 8 * d) = 8 * (d + t) - 8
         /\ h.mem[2 * d - 2] = 8 * t + a =>
              GET_SIZE(h, 8 * d - 8) = 8 * t /\ PREV_BLKP(h, 8 * d) = 8 * (d - t)
<1>1. GET(h, HDRP(8 * d)) = h.mem[2 * d - 1] /\ GET(h, 8 * d - 8) = h.mem[2 * d - 2]
  BY WordAt DEF GET, HDRP, WSIZE
<1>2. ((8 * t + a) \div 8) * 8 = 8 * t /\ (8 * t + a) % 2 = a
  BY TagIs
<1>3. ASSUME h.mem[2 * d - 1] = 8 * t + a
      PROVE  GET_BLK_SIZE(h, 8 * d) = 8 * t /\ GET_ALLOC(h, HDRP(8 * d)) = a
  BY <1>1, <1>2, <1>3 DEF GET_BLK_SIZE, GET_SIZE, GET_ALLOC, DSIZE
<1>4. ASSUME h.mem[2 * d - 1] = 8 * t + a
      PROVE  NEXT_BLKP(h, 8 * d) = 8 * (d + t) /\ FTRP(h, 8 * d) = 8 * (d + t) - 8
  BY <1>3, <1>4 DEF NEXT_BLKP, FTRP, DSIZE
<1>5. ASSUME h.mem[2 * d - 2] = 8 * t + a
      PROVE  GET_SIZE(h, 8 * d - 8) = 8 * t /\ PREV_BLKP(h, 8 * d) = 8 * (d - t)
  <2>1. GET_SIZE(h, 8 * d - 8) = 8 * t
    BY <1>1, <1>2, <1>5 DEF GET_SIZE, DSIZE
  <2> QED BY <2>1 DEF PREV_BLKP, DSIZE
<1> QED BY <1>3, <1>4, <1>5

(* Writing a word. *)
Set(h, w, v) == [h EXCEPT !.mem = [h.mem EXCEPT ![w] = v]]

(* Set changes one word and leaves brk and the others. *)
LEMMA SetIs ==
  ASSUME NEW h, NEW brk, Heap(h, brk), NEW w \in Words, NEW v \in Int
  PROVE  /\ Heap(Set(h, w, v), brk) /\ Set(h, w, v).mem[w] = v
         /\ \A x \in Words : x # w => Set(h, w, v).mem[x] = h.mem[x]
<1>1. Set(h, w, v) = [mem |-> [h.mem EXCEPT ![w] = v], brk |-> brk]
  BY DEF Heap, Set
<1>2. Set(h, w, v).mem = [h.mem EXCEPT ![w] = v]
  BY <1>1
<1> QED BY <1>1, <1>2 DEF Heap

(* What it does to a heap. *)
Wrote(h, h2, brk, w, v) ==
  Heap(h2, brk) /\ h2.mem[w] = v /\ \A x \in Words : x # w => h2.mem[x] = h.mem[x]

(* So Set is a write in the sense of Wrote. *)
LEMMA SetWrites ==
  ASSUME NEW h, NEW brk, Heap(h, brk), NEW w \in Words, NEW v \in Int, NEW h2, h2 = Set(h, w, v)
  PROVE  Wrote(h, h2, brk, w, v)
  BY SetIs DEF Wrote

(* PUT at a byte address is Set at its word. *)
LEMMA PutIsSet ==
  ASSUME NEW h, NEW brk, Heap(h, brk), NEW p, NEW w, p \div 4 = w, NEW v
  PROVE  PUT(h, p, v) = Set(h, w, v)
  BY DEF PUT, Set, WSIZE

-----------------------------------------------------------------------------
(* A non-empty set of numbers has a least one. *)
LEMMA LeastNat ==
  ASSUME NEW S, S \subseteq Nat, S # {}
  PROVE  \E x \in S : \A y \in S : x <= y
<1> DEFINE R == OpToRel(<, Nat)
<1>1. PICK x \in S : \A y \in S : ~(<<y, x>> \in R)
  BY NatLessThanWellFounded, WFMin
<1>a. R = {ss \in Nat \X Nat : ss[1] < ss[2]}
  BY Zenon DEF OpToRel
<1> HIDE DEF R
<1>3. \A y \in S : x <= y
  <2> SUFFICES ASSUME NEW y \in S, y < x PROVE FALSE
    OBVIOUS
  <2>1. <<y, x>> \in R
    BY <1>a
  <2> QED BY <1>1, <2>1
<1> QED BY <1>3

(* Min finds it. *)
LEMMA MinIs ==
  ASSUME NEW S, S \subseteq Nat, S # {}
  PROVE  Min(S) \in S /\ \A y \in S : Min(S) <= y
  BY LeastNat, Zenon DEF Min

(* Every size has a list: the first one that halving leads to, or the last. *)
LEMMA ClassIs ==
  ASSUME NEW t \in Nat
  PROVE  Class(t) \in Idx /\ SegIndex(8 * t) = Class(t)
<1> DEFINE S == {SEG_SIZE - 1} \cup {i \in 0 .. (SEG_SIZE - 1) : (8 * t) \div 2^i <= 1}
<1>1. S \subseteq Idx /\ S # {} /\ Idx \subseteq Nat
  BY Sizes8 DEF Idx
<1>2. Class(t) = Min(S)
  BY DEF Class, SegIndex
<1> HIDE DEF S
<1>3. Min(S) \in S
  BY <1>1, MinIs
<1> QED BY <1>1, <1>2, <1>3 DEF Class

(* What the fields of a table are. *)
LEMMA Fields ==
  ASSUME NEW g \in Tables
  PROVE  /\ g.B \subseteq Nat /\ g.L \subseteq Nat /\ g.hi \in Nat
         /\ g.sz \in [Nat -> Nat] /\ g.al \in [Nat -> {0, 1}] /\ g.pv \in [Nat -> Nat]
         /\ g.nx \in [Nat -> Nat] /\ g.hd \in [Idx -> Nat] /\ g.rk \in [Nat -> Nat]
  BY DEF Tables

(* The words of a block are words of the memory. *)
LEMMA BlockWords ==
  ASSUME NEW g \in Tables, Tiled(g), 8 * g.hi <= MAX_HEAP, NEW b \in g.B
  PROVE  /\ b \in Nat /\ g.sz[b] \in Nat /\ b >= Lo /\ Lo >= 3 /\ g.sz[b] >= 2 /\ b + g.sz[b] <= g.hi /\ g.hi \in Nat
         /\ Lo \in Nat /\ g.al[b] \in {0, 1}
         /\ \A w \in Int : 0 <= w /\ w <= 2 * (b + g.sz[b]) - 1 => w \in Words
<1>1. /\ b \in Nat /\ g.sz[b] \in Nat /\ b >= Lo /\ Lo >= 3 /\ g.sz[b] >= 2 /\ b + g.sz[b] <= g.hi /\ g.hi \in Nat
      /\ Lo \in Nat /\ g.al[b] \in {0, 1} /\ MAX_HEAP \in Nat
  BY Fields, Sizes8 DEF Tiled
<1>2. ASSUME NEW w \in Int, 0 <= w, w <= 2 * (b + g.sz[b]) - 1
      PROVE  w \in Words
  <2>1. w \in Nat /\ 4 * w < MAX_HEAP
    BY <1>1, <1>2
  <2> QED BY <2>1, IsWord
<1> QED BY <1>1, <1>2

(* The first list word of a free block is no word of a tag, nor of an      *)
(* allocated block.                                                        *)
LinkWord(g, w) == w \in Idx \/ \E c \in g.B : g.al[c] = 0 /\ w \in {2 * c, 2 * c + 1}

(* A word that holds a list pointer is no tag, no fence of the heap and no *)
(* payload: the lists can be rewired without touching either.              *)
LEMMA LinkWordsApart ==
  ASSUME NEW g \in Tables, Tiled(g), 8 * g.hi <= MAX_HEAP, NEW w \in Int, LinkWord(g, w)
  PROVE  /\ w \notin {SEG_SIZE, 2 * Lo - 3, 2 * Lo - 2, 2 * g.hi - 1}
         /\ \A b \in g.B : /\ w # 2 * b - 1 /\ w # 2 * (b + g.sz[b]) - 2
                           /\ g.al[b] = 1 => w \notin (2 * b) .. (2 * (b + g.sz[b]) - 3)
<1>0. SEG_SIZE \in Nat /\ Lo \in Nat /\ 2 * Lo = SEG_SIZE + 4 /\ g.hi \in Nat /\ Lo <= g.hi
  BY Sizes8, Fields DEF Tiled
<1>1. CASE w \in Idx
  <2>1. w < SEG_SIZE
    BY <1>0, <1>1 DEF Idx
  <2>2. ASSUME NEW b \in g.B
        PROVE  b \in Nat /\ g.sz[b] \in Nat /\ b >= Lo
    BY BlockWords
  <2> QED BY <1>0, <2>1, <2>2
<1>2. CASE w \notin Idx
  <2>1. PICK c \in g.B : g.al[c] = 0 /\ w \in {2 * c, 2 * c + 1}
    BY <1>2 DEF LinkWord
  <2>2. c \in Nat /\ g.sz[c] \in Nat /\ c >= Lo /\ g.sz[c] >= 2 /\ c + g.sz[c] <= g.hi
    BY BlockWords
  <2>3. ASSUME NEW b \in g.B
        PROVE  /\ w # 2 * b - 1 /\ w # 2 * (b + g.sz[b]) - 2
               /\ g.al[b] = 1 => w \notin (2 * b) .. (2 * (b + g.sz[b]) - 3)
    <3>1. b \in Nat /\ g.sz[b] \in Nat /\ g.sz[b] >= 2
      BY BlockWords
    <3>2. CASE b = c
      BY <2>1, <2>2, <3>1, <3>2
    <3>3. CASE b < c
      <4>1. b + g.sz[b] <= c
        BY <3>3 DEF Tiled
      <4> QED BY <2>1, <2>2, <3>1, <4>1
    <3>4. CASE c < b
      <4>1. c + g.sz[c] <= b
        BY <3>4 DEF Tiled
      <4> QED BY <2>1, <2>2, <3>1, <4>1
    <3> QED BY <2>2, <3>1, <3>2, <3>3, <3>4
  <2>4. w \notin {SEG_SIZE, 2 * Lo - 3, 2 * Lo - 2, 2 * g.hi - 1}
    BY <1>0, <2>1, <2>2
  <2> QED BY <2>3, <2>4
<1> QED BY <1>1, <1>2

(* Writes to the list words leave the tags and the clients' data alone. *)
LEMMA OnlyLinks ==
  ASSUME NEW h, NEW g, OK(h, g), NEW h2, NEW g2,
         g2.B = g.B, g2.sz = g.sz, g2.al = g.al, g2.hi = g.hi,
         \A w \in Words : ~LinkWord(g, w) => h2.mem[w] = h.mem[w]
  PROVE  Tiled(g2) /\ Tags(h2.mem, g2) /\ Keeps(h, g, h2, g2, Used(g))
<1>0. g \in Tables /\ Tiled(g) /\ 8 * g.hi <= MAX_HEAP /\ Tags(h.mem, g)
  BY DEF OK
<1>1. Tiled(g2)
  BY <1>0 DEF Tiled
<1>2. ASSUME NEW b \in g.B
      PROVE  /\ h2.mem[2 * b - 1] = h.mem[2 * b - 1]
             /\ h2.mem[2 * (b + g.sz[b]) - 2] = h.mem[2 * (b + g.sz[b]) - 2]
             /\ g.al[b] = 1 => \A w \in (2 * b) .. (2 * (b + g.sz[b]) - 3) : h2.mem[w] = h.mem[w]
  <2>1. /\ b \in Nat /\ g.sz[b] \in Nat /\ b >= 3 /\ g.sz[b] >= 2
        /\ \A w \in Int : 0 <= w /\ w <= 2 * (b + g.sz[b]) - 1 => w \in Words
    BY <1>0, BlockWords
  <2>2. 2 * b - 1 \in Words /\ 2 * (b + g.sz[b]) - 2 \in Words /\ 2 * b - 1 \in Int /\ 2 * (b + g.sz[b]) - 2 \in Int
    BY <2>1
  <2>3. ~LinkWord(g, 2 * b - 1) /\ ~LinkWord(g, 2 * (b + g.sz[b]) - 2)
    BY <1>0, <2>2, LinkWordsApart
  <2>4. ASSUME NEW w \in (2 * b) .. (2 * (b + g.sz[b]) - 3), g.al[b] = 1
        PROVE  h2.mem[w] = h.mem[w]
    <3>1. w \in Int /\ w \in Words
      BY <2>1
    <3>2. ~LinkWord(g, w)
      BY <1>0, <3>1, <2>4, LinkWordsApart
    <3> QED BY <3>1, <3>2
  <2> QED BY <2>2, <2>3, <2>4
<1>3. ASSUME NEW w \in {SEG_SIZE, 2 * Lo - 3, 2 * Lo - 2, 2 * g.hi - 1}
      PROVE  h2.mem[w] = h.mem[w]
  <2>1. w \in Int /\ w \in Nat /\ 4 * w < MAX_HEAP
    BY <1>0, Sizes8, Fields DEF Tiled
  <2> QED BY <1>0, <2>1, IsWord, LinkWordsApart
<1>4. Tags(h2.mem, g2)
  BY <1>0, <1>2, <1>3 DEF Tags
<1>5. Keeps(h, g, h2, g2, Used(g))
  BY <1>2 DEF Keeps, Used
<1> QED BY <1>1, <1>4, <1>5

-----------------------------------------------------------------------------
(* The table when b has left its list. *)
Unlisted(g, b) ==
  [B  |-> g.B, sz |-> g.sz, al |-> g.al, hi |-> g.hi, rk |-> g.rk,
   L  |-> g.L \ {b},
   pv |-> [x \in Nat |-> IF x = g.nx[b] THEN g.pv[b] ELSE g.pv[x]],
   nx |-> [x \in Nat |-> IF x = g.pv[b] THEN g.nx[b] ELSE g.nx[x]],
   hd |-> [i \in Idx |-> IF g.nx[b] = 0 /\ i = Class(g.sz[b]) THEN g.pv[b] ELSE g.hd[i]]]

(* What its fields are. *)
Unlists(g, b, u) ==
  /\ u \in Tables /\ u.B = g.B /\ u.sz = g.sz /\ u.al = g.al /\ u.hi = g.hi /\ u.rk = g.rk
  /\ u.L = g.L \ {b}
  /\ \A x \in Nat : u.pv[x] = IF x = g.nx[b] THEN g.pv[b] ELSE g.pv[x]
  /\ \A x \in Nat : u.nx[x] = IF x = g.pv[b] THEN g.nx[b] ELSE g.nx[x]
  /\ \A i \in Idx : u.hd[i] = IF g.nx[b] = 0 /\ i = Class(g.sz[b]) THEN g.pv[b] ELSE g.hd[i]

(* Unlisted is such a table. *)
LEMMA UnlistedIs ==
  ASSUME NEW g \in Tables, NEW b \in Nat
  PROVE  Unlists(g, b, Unlisted(g, b))
<1>1. g.pv[b] \in Nat /\ g.nx[b] \in Nat
  BY Fields
<1>3. Unlisted(g, b) \in Tables
  BY <1>1, Fields DEF Tables, Unlisted
<1> QED BY <1>3 DEF Unlisted, Unlists

(* The lists are as they should be when it has. *)
LEMMA UnlistedLists ==
  ASSUME NEW g \in Tables, Tiled(g), Listed(g), NEW b \in g.L
  PROVE  Listed(Unlisted(g, b))
<1>u. PICK u : u = Unlisted(g, b)
  OBVIOUS
<1>0. b \in Nat /\ g.pv[b] \in Nat /\ g.nx[b] \in Nat /\ g.L \subseteq Nat /\ g.L \subseteq g.B
  BY Fields DEF Listed
<1>1. /\ u.B = g.B /\ u.sz = g.sz /\ u.al = g.al /\ u.hi = g.hi /\ u.rk = g.rk
      /\ u.L = g.L \ {b}
      /\ \A x \in Nat : u.pv[x] = IF x = g.nx[b] THEN g.pv[b] ELSE g.pv[x]
      /\ \A x \in Nat : u.nx[x] = IF x = g.pv[b] THEN g.nx[b] ELSE g.nx[x]
      /\ \A i \in Idx : u.hd[i] = IF g.nx[b] = 0 /\ i = Class(g.sz[b]) THEN g.pv[b] ELSE g.hd[i]
  <2>1. Unlists(g, b, u)
    BY <1>0, <1>u, UnlistedIs
  <2> QED BY <2>1 DEF Unlists
<1>z. 0 \notin g.L
  BY Sizes8 DEF Tiled, Listed
<1>n. g.nx[b] # 0 => g.nx[b] \in g.L /\ g.pv[g.nx[b]] = b /\ Class(g.sz[g.nx[b]]) = Class(g.sz[b])
                     /\ g.rk[b] < g.rk[g.nx[b]]
  <2>1. g.nx[b] # 0 => g.nx[b] \in g.L /\ g.pv[g.nx[b]] = b /\ Class(g.sz[g.nx[b]]) = Class(g.sz[b])
    BY <1>0 DEF Listed
  <2>2. ASSUME NEW c \in g.L, g.pv[c] = b PROVE g.rk[b] < g.rk[c]
    BY <1>z, <2>2 DEF Listed
  <2> QED BY <2>1, <2>2
<1>p. g.pv[b] # 0 => g.pv[b] \in g.L /\ g.nx[g.pv[b]] = b /\ Class(g.sz[g.pv[b]]) = Class(g.sz[b])
                     /\ g.rk[g.pv[b]] < g.rk[b]
  BY <1>0 DEF Listed
<1>r. g.rk \in [Nat -> Nat]
  BY Fields
<1>c. Class(g.sz[b]) \in Idx
  BY <1>0, Fields, ClassIs
<1>2. ASSUME NEW c \in u.L
      PROVE  /\ c \in u.B /\ u.al[c] = 0
             /\ u.pv[c] # 0 => /\ u.pv[c] \in u.L /\ u.nx[u.pv[c]] = c
                               /\ Class(u.sz[u.pv[c]]) = Class(u.sz[c]) /\ u.rk[u.pv[c]] < u.rk[c]
             /\ u.nx[c] # 0 => u.nx[c] \in u.L /\ u.pv[u.nx[c]] = c /\ Class(u.sz[u.nx[c]]) = Class(u.sz[c])
             /\ u.nx[c] = 0 => u.hd[Class(u.sz[c])] = c
  <2>1. c \in g.L /\ c # b /\ c \in Nat /\ g.pv[c] \in Nat /\ g.nx[c] \in Nat
    BY <1>0, <1>1, Fields
  <2>2. c \in u.B /\ u.al[c] = 0
    BY <1>0, <1>1, <2>1 DEF Listed
  <2>3. g.pv[c] # 0 => g.pv[c] \in g.L /\ g.nx[g.pv[c]] = c /\ Class(g.sz[g.pv[c]]) = Class(g.sz[c])
                       /\ g.rk[g.pv[c]] < g.rk[c]
    BY <2>1 DEF Listed
  <2>4. g.nx[c] # 0 => g.nx[c] \in g.L /\ g.pv[g.nx[c]] = c /\ Class(g.sz[g.nx[c]]) = Class(g.sz[c])
    BY <2>1 DEF Listed
  <2>5. g.nx[c] = 0 => g.hd[Class(g.sz[c])] = c
    BY <2>1 DEF Listed
  <2>6. ASSUME u.pv[c] # 0
        PROVE  /\ u.pv[c] \in u.L /\ u.nx[u.pv[c]] = c
               /\ Class(u.sz[u.pv[c]]) = Class(u.sz[c]) /\ u.rk[u.pv[c]] < u.rk[c]
    <3>1. CASE c = g.nx[b]
      <4>1. u.pv[c] = g.pv[b]
        BY <1>1, <2>1, <3>1
      <4>2. c # 0
        BY <1>z, <2>1
      <4>3. g.rk[b] < g.rk[c] /\ g.rk[g.pv[b]] < g.rk[b] /\ g.pv[b] \in g.L
        BY <1>n, <1>p, <2>6, <3>1, <4>1, <4>2
      <4>4. g.rk[g.pv[b]] < g.rk[c]
        BY <4>3, <1>r, <1>0, <2>1
      <4>5. g.pv[b] # b
        BY <4>3, <1>r, <1>0
      <4>6. u.nx[g.pv[b]] = c
        BY <1>0, <1>1, <3>1
      <4> QED BY <1>1, <1>n, <1>p, <2>6, <3>1, <4>1, <4>2, <4>3, <4>4, <4>5, <4>6
    <3>2. CASE c # g.nx[b]
      <4>1. u.pv[c] = g.pv[c]
        BY <1>1, <2>1, <3>2
      <4>2. g.pv[c] # b
        BY <2>3, <2>6, <4>1, <3>2
      <4>3. g.pv[c] # g.pv[b]
        BY <1>p, <2>1, <2>3, <2>6, <4>1
      <4> QED BY <1>1, <2>1, <2>3, <2>6, <4>1, <4>2, <4>3
    <3> QED BY <3>1, <3>2
  <2>7. ASSUME u.nx[c] # 0
        PROVE  u.nx[c] \in u.L /\ u.pv[u.nx[c]] = c /\ Class(u.sz[u.nx[c]]) = Class(u.sz[c])
    <3>1. CASE c = g.pv[b]
      <4>1. u.nx[c] = g.nx[b]
        BY <1>1, <2>1, <3>1
      <4>2. c # 0
        BY <1>z, <2>1
      <4>3. g.nx[b] # b
        BY <1>n, <1>r, <1>0, <2>7, <4>1
      <4> QED BY <1>0, <1>1, <1>n, <1>p, <2>7, <3>1, <4>1, <4>2, <4>3
    <3>2. CASE c # g.pv[b]
      <4>1. u.nx[c] = g.nx[c]
        BY <1>1, <2>1, <3>2
      <4>2. g.nx[c] # b
        BY <2>4, <2>7, <4>1, <3>2
      <4>3. g.nx[c] # g.nx[b]
        BY <1>n, <2>1, <2>4, <2>7, <4>1
      <4> QED BY <1>1, <2>1, <2>4, <2>7, <4>1, <4>2, <4>3
    <3> QED BY <3>1, <3>2
  <2>8. ASSUME u.nx[c] = 0
        PROVE  u.hd[Class(u.sz[c])] = c
    <3>0. Class(g.sz[c]) \in Idx
      BY <2>1, Fields, ClassIs
    <3>1. CASE c = g.pv[b]
      <4>1. g.nx[b] = 0
        BY <1>1, <2>1, <2>8, <3>1
      <4>2. c # 0
        BY <1>z, <2>1
      <4> QED BY <1>1, <1>p, <3>0, <3>1, <4>1, <4>2
    <3>2. CASE c # g.pv[b]
      <4>1. g.nx[c] = 0
        BY <1>1, <2>1, <2>8, <3>2
      <4>2. ~(g.nx[b] = 0 /\ Class(g.sz[c]) = Class(g.sz[b]))
        BY <2>1, <2>5, <4>1 DEF Listed
      <4> QED BY <1>1, <2>5, <3>0, <4>1, <4>2
    <3> QED BY <3>1, <3>2
  <2> QED BY <2>2, <2>6, <2>7, <2>8
<1>3. ASSUME NEW i \in Idx, u.hd[i] # 0
      PROVE  u.hd[i] \in u.L /\ Class(u.sz[u.hd[i]]) = i /\ u.nx[u.hd[i]] = 0
  <2>1. CASE g.nx[b] = 0 /\ i = Class(g.sz[b])
    <3>1. u.hd[i] = g.pv[b] /\ g.pv[b] # 0
      BY <1>1, <1>3, <2>1
    <3>2. g.pv[b] # b
      BY <1>p, <3>1, <1>r, <1>0
    <3> QED BY <1>0, <1>1, <1>p, <2>1, <3>1, <3>2
  <2>2. CASE ~(g.nx[b] = 0 /\ i = Class(g.sz[b]))
    <3>1. u.hd[i] = g.hd[i]
      BY <1>1, <2>2
    <3>2. g.hd[i] \in g.L /\ Class(g.sz[g.hd[i]]) = i /\ g.nx[g.hd[i]] = 0
      BY <1>3, <3>1 DEF Listed
    <3>3. g.hd[i] # b
      BY <2>2, <3>2
    <3>4. g.hd[i] # g.pv[b]
      BY <1>p, <1>z, <1>0, <3>2
    <3> QED BY <1>0, <1>1, <3>1, <3>2, <3>3, <3>4
  <2> QED BY <2>1, <2>2
<1>4. Listed(u)
  BY <1>2, <1>3 DEF Listed
<1> QED BY <1>u, <1>4

-----------------------------------------------------------------------------
(* What a listed block says of itself. *)
LEMMA ReadLinks ==
  ASSUME NEW h, NEW g, OK(h, g), NEW b \in g.L
  PROVE  /\ SEG_PREV_BLKP(h, 8 * b) = 8 * g.pv[b] /\ SEG_NEXT_BLKP(h, 8 * b) = 8 * g.nx[b]
         /\ b \in g.B /\ b \in Nat /\ g.pv[b] \in Nat /\ g.nx[b] \in Nat
<1>1. b \in g.B /\ b \in Nat /\ g.pv[b] \in Nat /\ g.nx[b] \in Nat
  BY Fields DEF OK, Listed
<1>2. GET(h, 8 * b) = h.mem[2 * b] /\ GET(h, 8 * b + WSIZE) = h.mem[2 * b + 1]
  BY <1>1, WordAt DEF GET, WSIZE
<1>3. h.mem[2 * b] = 8 * g.pv[b] /\ h.mem[2 * b + 1] = 8 * g.nx[b]
  BY DEF OK, Links
<1> QED BY <1>1, <1>2, <1>3 DEF SEG_PREV_BLKP, SEG_NEXT_BLKP

(* What any block says of itself. *)
LEMMA ReadTags ==
  ASSUME NEW h, NEW g, OK(h, g), NEW b \in g.B
  PROVE  /\ GET_BLK_SIZE(h, 8 * b) = 8 * g.sz[b] /\ GET_ALLOC(h, HDRP(8 * b)) = g.al[b]
         /\ NEXT_BLKP(h, 8 * b) = 8 * (b + g.sz[b]) /\ FTRP(h, 8 * b) = 8 * (b + g.sz[b]) - 8
         /\ GET_SIZE(h, FTRP(h, 8 * b)) = 8 * g.sz[b] /\ PREV_BLKP(h, 8 * (b + g.sz[b])) = 8 * b
         /\ GET_ALLOC(h, FTRP(h, 8 * b)) = g.al[b]
         /\ b \in Nat /\ g.sz[b] \in Nat /\ g.sz[b] >= 2 /\ b >= Lo
<1>0. g \in Tables /\ Tiled(g) /\ 8 * g.hi <= MAX_HEAP /\ Tags(h.mem, g)
  BY DEF OK
<1>1. b \in Nat /\ g.sz[b] \in Nat /\ g.sz[b] >= 2 /\ g.al[b] \in {0, 1} /\ b >= Lo
  BY <1>0, BlockWords
<1>2. PICK t \in Nat : t = g.sz[b]
  BY <1>1
<1>3. PICK a \in {0, 1} : a = g.al[b]
  BY <1>1
<1>4. h.mem[2 * b - 1] = 8 * t + a /\ h.mem[2 * (b + t) - 2] = 8 * t + a
  BY <1>0, <1>2, <1>3 DEF Tags
<1>5. /\ GET_BLK_SIZE(h, 8 * b) = 8 * t /\ GET_ALLOC(h, HDRP(8 * b)) = a
      /\ NEXT_BLKP(h, 8 * b) = 8 * (b + t) /\ FTRP(h, 8 * b) = 8 * (b + t) - 8
  BY <1>1, <1>4, Reads
<1>6. PICK e \in Nat : e = b + t
  BY <1>1
<1>7. GET_SIZE(h, 8 * e - 8) = 8 * t /\ PREV_BLKP(h, 8 * e) = 8 * (e - t)
  BY <1>4, <1>6, Reads
<1>8. GET(h, 8 * e - 8) = h.mem[2 * e - 2]
  BY WordAt DEF GET, WSIZE
<1>9. GET_ALLOC(h, 8 * e - 8) = a
  BY <1>4, <1>6, <1>8, TagIs DEF GET_ALLOC
<1>10. e - t = b
  BY <1>1, <1>6
<1> QED BY <1>1, <1>2, <1>3, <1>5, <1>6, <1>7, <1>9, <1>10

(* Two words are written, or one if b is the last of its list. *)
UnlinkWord(g, b) == IF g.nx[b] = 0 THEN Class(g.sz[b]) ELSE 2 * g.nx[b]

(* remove_seglist is at most two writes: the word that led to b, and the   *)
(* back pointer of the block behind it.                                    *)
LEMMA RemoveIs ==
  ASSUME NEW h, NEW g, OK(h, g), NEW b \in g.L
  PROVE  remove_seglist(h, 8 * b) =
           IF g.pv[b] # 0
           THEN Set(Set(h, UnlinkWord(g, b), 8 * g.pv[b]), 2 * g.pv[b] + 1, 8 * g.nx[b])
           ELSE Set(h, UnlinkWord(g, b), 8 * g.pv[b])
<1>1. /\ SEG_PREV_BLKP(h, 8 * b) = 8 * g.pv[b] /\ SEG_NEXT_BLKP(h, 8 * b) = 8 * g.nx[b]
      /\ b \in g.B /\ b \in Nat /\ g.pv[b] \in Nat /\ g.nx[b] \in Nat
  BY ReadLinks
<1>2. GET_BLK_SIZE(h, 8 * b) = 8 * g.sz[b] /\ g.sz[b] \in Nat
  BY <1>1, ReadTags
<1>3. PICK p \in Nat : p = g.pv[b]
  BY <1>1
<1>4. PICK n \in Nat : n = g.nx[b]
  BY <1>1
<1>5. PICK i \in Idx : i = Class(g.sz[b]) /\ i = SegIndex(8 * g.sz[b])
  BY <1>2, ClassIs
<1>6. i \in Int
  BY <1>5, Sizes8 DEF Idx
<1>7. UnlinkNext(h, 8 * b, 8 * p, 8 * n) = Set(h, UnlinkWord(g, b), 8 * p)
  <2>1. CASE n = 0
    <3>1. (i * WSIZE) \div 4 = i
      BY <1>6 DEF WSIZE
    <3>2. UnlinkNext(h, 8 * b, 8 * p, 8 * n) = PUT(h, i * WSIZE, 8 * p)
      BY <2>1, <1>2, <1>5 DEF UnlinkNext, SET_SEG_LIST_PTR, NULL
    <3>3. PUT(h, i * WSIZE, 8 * p) = Set(h, i, 8 * p)
      BY <3>1 DEF PUT, Set, WSIZE
    <3> QED BY <2>1, <1>4, <1>5, <3>2, <3>3 DEF UnlinkWord
  <2>2. CASE n # 0
    <3>1. UnlinkNext(h, 8 * b, 8 * p, 8 * n) = PUT(h, 8 * n, 8 * p)
      BY <2>2 DEF UnlinkNext, SetSegPrev, NULL
    <3>2. PUT(h, 8 * n, 8 * p) = Set(h, 2 * n, 8 * p)
      BY WordAt DEF PUT, Set, WSIZE
    <3> QED BY <2>2, <1>4, <3>1, <3>2 DEF UnlinkWord
  <2> QED BY <2>1, <2>2
<1>8. PICK k : k = Set(h, UnlinkWord(g, b), 8 * p)
  OBVIOUS
<1>9. UnlinkPrev(k, 8 * p, 8 * n) = IF p # 0 THEN Set(k, 2 * p + 1, 8 * n) ELSE k
  <2>1. PUT(k, 8 * p + WSIZE, 8 * n) = Set(k, 2 * p + 1, 8 * n)
    BY WordAt DEF PUT, Set, WSIZE
  <2> QED BY <2>1 DEF UnlinkPrev, SetSegNext, NULL
<1> QED BY <1>1, <1>3, <1>4, <1>7, <1>8, <1>9 DEF remove_seglist

(* The words after it. *)
LEMMA RemoveWords ==
  ASSUME NEW h, NEW g, OK(h, g), NEW b \in g.L
  PROVE  /\ Heap(remove_seglist(h, 8 * b), 8 * g.hi)
         /\ UnlinkWord(g, b) \in Words /\ LinkWord(g, UnlinkWord(g, b))
         /\ g.pv[b] # 0 => 2 * g.pv[b] + 1 \in Words /\ LinkWord(g, 2 * g.pv[b] + 1)
         /\ \A w \in Words : remove_seglist(h, 8 * b).mem[w] =
              IF g.pv[b] # 0 /\ w = 2 * g.pv[b] + 1 THEN 8 * g.nx[b]
              ELSE IF w = UnlinkWord(g, b) THEN 8 * g.pv[b] ELSE h.mem[w]
<1>0. g \in Tables /\ Tiled(g) /\ 8 * g.hi <= MAX_HEAP /\ Listed(g) /\ Heap(h, 8 * g.hi)
  BY DEF OK
<1>1. b \in g.B /\ b \in Nat /\ g.pv[b] \in Nat /\ g.nx[b] \in Nat /\ g.sz[b] \in Nat
  BY ReadLinks, ReadTags
<1>2. ASSUME NEW c \in g.L PROVE 2 * c \in Words /\ 2 * c + 1 \in Words /\ LinkWord(g, 2 * c) /\ LinkWord(g, 2 * c + 1)
  <2>1. c \in g.B /\ g.al[c] = 0
    BY <1>0 DEF Listed
  <2>2. c \in Nat /\ g.sz[c] >= 2 /\ g.sz[c] \in Nat
        /\ \A w \in Int : 0 <= w /\ w <= 2 * (c + g.sz[c]) - 1 => w \in Words
    BY <1>0, <2>1, BlockWords
  <2>3. 2 * c \in Words /\ 2 * c + 1 \in Words
    BY <2>2
  <2> QED BY <2>1, <2>3 DEF LinkWord
<1>3. g.pv[b] # 0 => g.pv[b] \in g.L
  BY <1>0 DEF Listed
<1>4. g.nx[b] # 0 => g.nx[b] \in g.L
  BY <1>0 DEF Listed
<1>5. Idx \subseteq Words
  <2> SUFFICES ASSUME NEW i \in Idx PROVE i \in Words
    OBVIOUS
  <2>1. i \in Nat /\ 4 * i < MAX_HEAP
    BY <1>0, Sizes8, Fields DEF Idx, Tiled
  <2> QED BY <2>1, IsWord
<1>6. UnlinkWord(g, b) \in Words /\ LinkWord(g, UnlinkWord(g, b))
  <2>1. Class(g.sz[b]) \in Idx
    BY <1>1, ClassIs
  <2> QED BY <1>2, <1>4, <1>5, <2>1 DEF UnlinkWord, LinkWord
<1>7. PICK w1 \in Words : w1 = UnlinkWord(g, b)
  BY <1>6
<1>v. PICK v \in Int : v = 8 * g.pv[b]
  BY <1>1
<1>8. PICK k : k = Set(h, w1, v)
  OBVIOUS
<1>9. /\ Heap(k, 8 * g.hi) /\ k.mem[w1] = v
      /\ \A x \in Words : x # w1 => k.mem[x] = h.mem[x]
  BY <1>0, <1>8, SetIs
<1>10. CASE g.pv[b] = 0
  <2>1. remove_seglist(h, 8 * b) = k
    BY <1>7, <1>8, <1>v, <1>10, RemoveIs
  <2> QED BY <1>6, <1>7, <1>v, <1>9, <1>10, <2>1
<1>11. CASE g.pv[b] # 0
  <2>1. PICK w2 \in Words : w2 = 2 * g.pv[b] + 1
    BY <1>2, <1>3, <1>11
  <2>v. PICK n \in Int : n = 8 * g.nx[b]
    BY <1>1
  <2>2. PICK l : l = Set(k, w2, n)
    OBVIOUS
  <2>3. remove_seglist(h, 8 * b) = l
    BY <1>7, <1>8, <1>v, <1>11, <2>1, <2>2, <2>v, RemoveIs
  <2>4. /\ Heap(l, 8 * g.hi) /\ l.mem[w2] = n
        /\ \A x \in Words : x # w2 => l.mem[x] = k.mem[x]
    BY <1>9, <2>2, SetIs
  <2>5. \A w \in Words : l.mem[w] = IF w = w2 THEN 8 * g.nx[b] ELSE IF w = w1 THEN 8 * g.pv[b] ELSE h.mem[w]
    BY <1>9, <1>v, <2>4, <2>v
  <2> QED BY <1>2, <1>3, <1>6, <1>7, <1>11, <2>1, <2>3, <2>4, <2>5
<1> QED BY <1>10, <1>11

(* remove_seglist takes a listed block off its list and does nothing else. *)
LEMMA Unlist ==
  ASSUME NEW h, NEW g, OK(h, g), NEW b \in g.L
  PROVE  /\ OK(remove_seglist(h, 8 * b), Unlisted(g, b))
         /\ Keeps(h, g, remove_seglist(h, 8 * b), Unlisted(g, b), Used(g))
<1>0. g \in Tables /\ Tiled(g) /\ 8 * g.hi <= MAX_HEAP /\ Listed(g) /\ Links(h.mem, g)
  BY DEF OK
<1>1. b \in g.B /\ b \in Nat /\ g.pv[b] \in Nat /\ g.nx[b] \in Nat /\ g.sz[b] \in Nat
  BY ReadLinks, ReadTags
<1>u. PICK u : u = Unlisted(g, b)
  OBVIOUS
<1>k. PICK k : k = remove_seglist(h, 8 * b)
  OBVIOUS
<1>2. Unlists(g, b, u)
  BY <1>0, <1>1, <1>u, UnlistedIs
<1>3. Listed(u)
  BY <1>0, <1>u, UnlistedLists
<1>4. /\ Heap(k, 8 * g.hi) /\ LinkWord(g, UnlinkWord(g, b))
      /\ g.pv[b] # 0 => LinkWord(g, 2 * g.pv[b] + 1)
      /\ \A w \in Words : k.mem[w] =
           IF g.pv[b] # 0 /\ w = 2 * g.pv[b] + 1 THEN 8 * g.nx[b]
           ELSE IF w = UnlinkWord(g, b) THEN 8 * g.pv[b] ELSE h.mem[w]
  BY <1>k, RemoveWords
<1>5. Tiled(u) /\ Tags(k.mem, u) /\ Keeps(h, g, k, u, Used(g))
  <2>1. \A w \in Words : ~LinkWord(g, w) => k.mem[w] = h.mem[w]
    BY <1>4
  <2>2. u.B = g.B /\ u.sz = g.sz /\ u.al = g.al /\ u.hi = g.hi
    BY <1>2 DEF Unlists
  <2> QED BY <2>1, <2>2, OnlyLinks
<1>6. Links(k.mem, u)
  <2>0. Class(g.sz[b]) \in Idx /\ SEG_SIZE \in Nat /\ 2 * Lo = SEG_SIZE + 4 /\ Lo \in Nat
    BY <1>1, ClassIs, Sizes8
  <2>a. ASSUME NEW c \in g.L PROVE c \in Nat /\ c >= Lo /\ 2 * c \in Words /\ 2 * c + 1 \in Words
    <3>1. c \in g.B
      BY <1>0 DEF Listed
    <3>2. c \in Nat /\ c >= Lo /\ g.sz[c] >= 2 /\ g.sz[c] \in Nat
          /\ \A w \in Int : 0 <= w /\ w <= 2 * (c + g.sz[c]) - 1 => w \in Words
      BY <1>0, <3>1, BlockWords
    <3> QED BY <3>2
  <2>b. g.nx[b] # 0 => g.nx[b] \in g.L
    BY <1>0 DEF Listed
  <2>c. g.pv[b] # 0 => g.pv[b] \in g.L
    BY <1>0 DEF Listed
  <2>1. ASSUME NEW c \in u.L PROVE k.mem[2 * c] = 8 * u.pv[c] /\ k.mem[2 * c + 1] = 8 * u.nx[c]
    <3>1. c \in g.L /\ c \in Nat /\ c >= Lo /\ 2 * c \in Words /\ 2 * c + 1 \in Words
      BY <2>a, <1>2 DEF Unlists
    <3>2. h.mem[2 * c] = 8 * g.pv[c] /\ h.mem[2 * c + 1] = 8 * g.nx[c]
      BY <1>0, <3>1 DEF Links
    <3>3. u.pv[c] = (IF c = g.nx[b] THEN g.pv[b] ELSE g.pv[c]) /\ u.nx[c] = (IF c = g.pv[b] THEN g.nx[b] ELSE g.nx[c])
      BY <1>2, <3>1 DEF Unlists
    <3>4. 2 * c # 2 * g.pv[b] + 1
      BY <1>1, <3>1
    <3>5. 2 * c = UnlinkWord(g, b) <=> c = g.nx[b]
      <4>1. CASE g.nx[b] = 0
        <5>1. UnlinkWord(g, b) < SEG_SIZE /\ UnlinkWord(g, b) \in Int
          BY <2>0, <4>1 DEF UnlinkWord, Idx
        <5> QED BY <2>0, <3>1, <4>1, <5>1, Sizes8
      <4>2. CASE g.nx[b] # 0
        BY <1>1, <3>1, <4>2 DEF UnlinkWord
      <4> QED BY <4>1, <4>2
    <3>6. 2 * c + 1 # UnlinkWord(g, b)
      <4>1. CASE g.nx[b] = 0
        <5>1. UnlinkWord(g, b) < SEG_SIZE /\ UnlinkWord(g, b) \in Int
          BY <2>0, <4>1 DEF UnlinkWord, Idx
        <5> QED BY <2>0, <3>1, <4>1, <5>1
      <4>2. CASE g.nx[b] # 0
        BY <1>1, <3>1, <4>2 DEF UnlinkWord
      <4> QED BY <4>1, <4>2
    <3>7. 2 * c + 1 = 2 * g.pv[b] + 1 <=> c = g.pv[b]
      BY <1>1, <3>1
    <3>8. c # 0
      BY <3>1, Sizes8
    <3>9. k.mem[2 * c] = 8 * u.pv[c]
      BY <1>4, <3>1, <3>2, <3>3, <3>4, <3>5
    <3>10. k.mem[2 * c + 1] = 8 * u.nx[c]
      BY <1>4, <3>1, <3>2, <3>3, <3>6, <3>7, <3>8
    <3> QED BY <3>9, <3>10
  <2>2. ASSUME NEW i \in Idx PROVE k.mem[i] = 8 * u.hd[i]
    <3>1. i \in Nat /\ i < SEG_SIZE
      BY <2>0 DEF Idx
    <3>2. i \in Words
      <4>1. 4 * i < MAX_HEAP
        BY <1>0, <3>1, Sizes8, Fields DEF Tiled
      <4> QED BY <3>1, <4>1, IsWord
    <3>3. h.mem[i] = 8 * g.hd[i]
      BY <1>0 DEF Links
    <3>4. u.hd[i] = IF g.nx[b] = 0 /\ i = Class(g.sz[b]) THEN g.pv[b] ELSE g.hd[i]
      BY <1>2 DEF Unlists
    <3>5. ~(g.pv[b] # 0 /\ i = 2 * g.pv[b] + 1)
      BY <1>1, <2>0, <2>a, <2>c, <3>1
    <3>6. i = UnlinkWord(g, b) <=> (g.nx[b] = 0 /\ i = Class(g.sz[b]))
      <4>1. CASE g.nx[b] = 0
        BY <4>1 DEF UnlinkWord
      <4>2. CASE g.nx[b] # 0
        BY <1>1, <2>0, <2>a, <2>b, <3>1, <4>2 DEF UnlinkWord
      <4> QED BY <4>1, <4>2
    <3> QED BY <1>4, <3>2, <3>3, <3>4, <3>5, <3>6
  <2> QED BY <2>1, <2>2 DEF Links
<1>7. OK(k, u)
  <2>1. u \in Tables /\ u.hi = g.hi
    BY <1>2 DEF Unlists
  <2> QED BY <2>1, <1>0, <1>3, <1>4, <1>5, <1>6 DEF OK
<1> QED BY <1>5, <1>7, <1>u, <1>k

-----------------------------------------------------------------------------
(* List is a recursive function; one exists for any number of steps.       *)
ListStep(h, f, k) ==
  [b \in Int |-> IF k = 0 \/ b = NULL THEN <<b>> ELSE <<b>> \o f[k - 1][SEG_PREV_BLKP(h, b)]]

(* The function exists for every number of steps. *)
LEMMA ListExists ==
  ASSUME NEW h, NEW n \in Nat
  PROVE  \E f : f = [i \in 0 .. n |-> ListStep(h, f, i)]
<1> DEFINE Bad == {k \in Nat : ~\E f : f = [i \in 0 .. k |-> ListStep(h, f, i)]}
<1>1. ASSUME Bad # {} PROVE FALSE
  <2>1. PICK k \in Bad : \A y \in Bad : k <= y
    <3> HIDE DEF Bad
    <3>1. Bad \subseteq Nat
      BY DEF Bad
    <3> QED BY <1>1, <3>1, LeastNat
  <2>2. k # 0
    <3> SUFFICES ASSUME k = 0 PROVE FALSE
      OBVIOUS
    <3> DEFINE f == [i \in 0 .. 0 |-> [b \in Int |-> <<b>>]]
    <3>1. f = [i \in 0 .. 0 |-> ListStep(h, f, i)]
      BY DEF ListStep
    <3> QED BY <2>1, <3>1
  <2>3. k \in Nat /\ k - 1 \in Nat /\ k - 1 \notin Bad
    BY <2>1, <2>2
  <2>4. PICK q : q = [i \in 0 .. (k - 1) |-> ListStep(h, q, i)]
    BY <2>3
  <2> DEFINE r == [i \in 0 .. k |-> IF i = k THEN ListStep(h, q, k) ELSE q[i]]
  <2>5. \A i \in 0 .. k : r[i] = ListStep(h, r, i)
    <3> SUFFICES ASSUME NEW i \in 0 .. k PROVE r[i] = ListStep(h, r, i)
      OBVIOUS
    <3>1. i # 0 => r[i - 1] = q[i - 1]
      BY <2>3
    <3>2. ListStep(h, r, i) = ListStep(h, q, i)
      BY <3>1 DEF ListStep
    <3>3. CASE i = k
      BY <3>2, <3>3
    <3>4. CASE i # k
      <4>1. i \in 0 .. (k - 1)
        BY <2>3, <3>4
      <4>2. q[i] = ListStep(h, q, i)
        BY <2>4, <4>1
      <4> QED BY <3>2, <3>4, <4>2
    <3> QED BY <3>3, <3>4
  <2>6. r = [i \in 0 .. k |-> ListStep(h, r, i)]
    <3> DEFINE e == [i \in 0 .. k |-> ListStep(h, r, i)]
    <3>1. e = [i \in 0 .. k |-> r[i]]
      BY <2>5
    <3> QED BY <3>1
  <2> QED BY <2>1, <2>6
<1> QED BY <1>1

(* The bound of a walk, as many steps as the heap can have blocks. *)
LEMMA StepsIs == STEPS \in Nat /\ STEPS = MAX_HEAP \div 16
  BY Sizes8 DEF STEPS, DSIZE

(* List is the recursion it is written as. *)
LEMMA ListFunction ==
  ASSUME NEW h
  PROVE  \E f : /\ \A bp : List(h, bp) = f[STEPS][bp]
                /\ \A n \in 0 .. STEPS : \A b \in Int :
                     /\ n = 0 \/ b = 0 => f[n][b] = <<b>>
                     /\ n # 0 /\ b # 0 => f[n][b] = <<b>> \o f[n - 1][SEG_PREV_BLKP(h, b)]
<1> DEFINE f == CHOOSE f : f = [k \in 0 .. STEPS |-> [b \in Int |->
                  IF k = 0 \/ b = NULL THEN <<b>> ELSE <<b>> \o f[k - 1][SEG_PREV_BLKP(h, b)]]]
<1>1. \A bp : List(h, bp) = f[STEPS][bp]
  BY DEF List
<1>2. \E q : q = [i \in 0 .. STEPS |-> ListStep(h, q, i)]
  BY ListExists, StepsIs
<1>3. f = [i \in 0 .. STEPS |-> ListStep(h, f, i)]
  BY <1>2 DEF ListStep
<1> HIDE DEF f
<1>4. \A k \in 0 .. STEPS : f[k] = ListStep(h, f, k)
  BY <1>3
<1>5. ASSUME NEW n \in 0 .. STEPS, NEW b \in Int
      PROVE  /\ n = 0 \/ b = 0 => f[n][b] = <<b>>
             /\ n # 0 /\ b # 0 => f[n][b] = <<b>> \o f[n - 1][SEG_PREV_BLKP(h, b)]
  <2>1. f[n] = ListStep(h, f, n)
    BY <1>4
  <2> QED BY <2>1, Zenon DEF ListStep, NULL
<1> QED BY <1>1, <1>5

(* A block in front of a list. *)
LEMMA ConsIs ==
  ASSUME NEW b \in Int, NEW s \in Seq(Int)
  PROVE  /\ <<b>> \o s \in Seq(Int) /\ Len(<<b>> \o s) = Len(s) + 1 /\ (<<b>> \o s)[1] = b
         /\ \A j \in 1 .. Len(s) : (<<b>> \o s)[j + 1] = s[j]
<1>1. <<b>> \in Seq(Int) /\ Len(<<b>>) = 1 /\ <<b>>[1] = b /\ Len(s) \in Nat
  OBVIOUS
<1>2. /\ <<b>> \o s \in Seq(Int) /\ Len(<<b>> \o s) = Len(<<b>>) + Len(s)
      /\ \A i \in 1 .. Len(<<b>>) + Len(s) : (<<b>> \o s)[i] = IF i <= Len(<<b>>) THEN <<b>>[i] ELSE s[i - Len(<<b>>)]
  BY <1>1, ConcatProperties
<1>3. (<<b>> \o s)[1] = b
  BY <1>1, <1>2
<1>4. ASSUME NEW j \in 1 .. Len(s) PROVE (<<b>> \o s)[j + 1] = s[j]
  <2>1. j + 1 \in 1 .. Len(<<b>>) + Len(s) /\ ~(j + 1 <= Len(<<b>>)) /\ j + 1 - Len(<<b>>) = j
    BY <1>1
  <2> QED BY <1>2, <2>1
<1> QED BY <1>1, <1>2, <1>3, <1>4

(* Where a list pointer may lead. *)
Spots(g) == {0} \cup {8 * c : c \in g.L}

(* A piece of a list: s leads from b along the previous pointers, to the   *)
(* end of the list or over k blocks.                                       *)
Chain(g, s, b, k) ==
  /\ s \in Seq(Int) /\ Len(s) \in 1 .. (k + 1) /\ s[1] = b
  /\ \A j \in 1 .. Len(s) : s[j] \in Spots(g)
  /\ \A j \in 1 .. (Len(s) - 1) : s[j] # 0 /\ \A c \in g.L : s[j] = 8 * c => s[j + 1] = 8 * g.pv[c]
  /\ s[Len(s)] = 0 \/ Len(s) = k + 1

(* A chain may end at NULL, or when the steps run out. *)
LEMMA ChainOne ==
  ASSUME NEW g, NEW b \in Int, b \in Spots(g), NEW k \in Nat, k = 0 \/ b = 0
  PROVE  Chain(g, <<b>>, b, k)
<1>1. <<b>> \in Seq(Int) /\ Len(<<b>>) = 1 /\ <<b>>[1] = b
  OBVIOUS
<1>2. PICK s : s = <<b>>
  OBVIOUS
<1>3. Chain(g, s, b, k)
  BY <1>1, <1>2 DEF Chain
<1> QED BY <1>2, <1>3

(* A listed block in front of a chain makes a chain. *)
LEMMA ChainCons ==
  ASSUME NEW g \in Tables, 0 \notin g.L, NEW c \in g.L, NEW k \in Nat \ {0},
         NEW s, Chain(g, s, 8 * g.pv[c], k - 1)
  PROVE  Chain(g, <<8 * c>> \o s, 8 * c, k)
<1>0. c \in Nat /\ g.L \subseteq Nat /\ g.pv \in [Nat -> Nat]
  BY Fields
<1>b. PICK b \in Int : b = 8 * c
  BY <1>0
<1>1. s \in Seq(Int) /\ Len(s) \in Nat
  BY DEF Chain
<1>2. PICK t : t = <<b>> \o s
  OBVIOUS
<1>3. t \in Seq(Int) /\ Len(t) = Len(s) + 1 /\ t[1] = b /\ \A j \in 1 .. Len(s) : t[j + 1] = s[j]
  BY <1>1, <1>2, ConsIs
<1>4. Len(s) \in 1 .. k /\ s[1] = 8 * g.pv[c]
  BY DEF Chain
<1>5. ASSUME NEW j \in 1 .. Len(t) PROVE t[j] \in Spots(g)
  <2>1. CASE j = 1
    BY <1>b, <1>3, <2>1 DEF Spots
  <2>2. CASE j # 1
    <3>1. j - 1 \in 1 .. Len(s) /\ (j - 1) + 1 = j
      BY <1>1, <1>3, <2>2
    <3>2. s[j - 1] \in Spots(g)
      BY <3>1 DEF Chain
    <3> QED BY <1>3, <3>1, <3>2
  <2> QED BY <2>1, <2>2
<1>6. ASSUME NEW j \in 1 .. (Len(t) - 1)
      PROVE  t[j] # 0 /\ \A d \in g.L : t[j] = 8 * d => t[j + 1] = 8 * g.pv[d]
  <2>1. CASE j = 1
    <3>1. t[j] = 8 * c /\ t[j + 1] = 8 * g.pv[c]
      BY <1>b, <1>1, <1>3, <1>4, <2>1
    <3>2. c # 0
      BY Zenon
    <3>3. ASSUME NEW d \in g.L, 8 * c = 8 * d PROVE d = c
      <4>1. d \in Nat
        BY <1>0
      <4> QED BY <1>0, <3>3, <4>1
    <3>4. 8 * c # 0
      BY <1>0, <3>2
    <3> QED BY <3>1, <3>3, <3>4
  <2>2. CASE j # 1
    <3>1. j - 1 \in 1 .. (Len(s) - 1) /\ (j - 1) + 1 = j /\ j \in 1 .. Len(s) /\ j - 1 \in 1 .. Len(s)
      BY <1>1, <1>3, <2>2
    <3>2. s[j - 1] # 0 /\ \A d \in g.L : s[j - 1] = 8 * d => s[j - 1 + 1] = 8 * g.pv[d]
      BY <3>1 DEF Chain
    <3>3. t[j] = s[j - 1] /\ t[j + 1] = s[j]
      BY <1>3, <3>1
    <3> QED BY <3>1, <3>2, <3>3
  <2> QED BY <2>1, <2>2
<1>7. t[Len(t)] = 0 \/ Len(t) = k + 1
  <2>1. t[Len(t)] = s[Len(s)]
    BY <1>1, <1>3, <1>4
  <2>2. s[Len(s)] = 0 \/ Len(s) = k - 1 + 1
    BY DEF Chain
  <2> QED BY <1>1, <1>3, <2>1, <2>2
<1>8. Len(t) \in 1 .. (k + 1)
  BY <1>1, <1>3, <1>4
<1>9. Chain(g, t, b, k)
  BY <1>3, <1>5, <1>6, <1>7, <1>8 DEF Chain
<1> QED BY <1>b, <1>2, <1>9

(* No block lies at 0, and where a listed block points a block is listed,  *)
(* or nothing.                                                             *)
LEMMA SpotsIs ==
  ASSUME NEW h, NEW g, OK(h, g)
  PROVE  /\ g \in Tables /\ 0 \notin g.L /\ Spots(g) \subseteq Int
         /\ \A c \in g.L : /\ 8 * c \in Spots(g) /\ SEG_PREV_BLKP(h, 8 * c) = 8 * g.pv[c]
                           /\ 8 * g.pv[c] \in Spots(g) /\ 8 * c # 0
         /\ \A i \in Idx : 8 * g.hd[i] \in Spots(g) /\ g.hd[i] \in Nat
<1>0. g \in Tables /\ Tiled(g) /\ Listed(g)
  BY DEF OK
<1>1. g.L \subseteq Nat /\ g.hd \in [Idx -> Nat]
  BY <1>0, Fields
<1>2. 0 \notin g.L
  BY <1>0, Sizes8 DEF Tiled, Listed
<1>3. ASSUME NEW c \in g.L
      PROVE  /\ 8 * c \in Spots(g) /\ SEG_PREV_BLKP(h, 8 * c) = 8 * g.pv[c]
             /\ 8 * g.pv[c] \in Spots(g) /\ 8 * c # 0
  <2>1. SEG_PREV_BLKP(h, 8 * c) = 8 * g.pv[c] /\ c \in Nat /\ g.pv[c] \in Nat
    BY ReadLinks
  <2>2. g.pv[c] # 0 => g.pv[c] \in g.L
    BY <1>0 DEF Listed
  <2> QED BY <1>2, <2>1, <2>2 DEF Spots
<1>4. ASSUME NEW i \in Idx PROVE 8 * g.hd[i] \in Spots(g) /\ g.hd[i] \in Nat
  <2>1. g.hd[i] # 0 => g.hd[i] \in g.L
    BY <1>0 DEF Listed
  <2> QED BY <1>1, <2>1 DEF Spots
<1>5. Spots(g) \subseteq Int
  BY <1>1 DEF Spots
<1> QED BY <1>0, <1>2, <1>3, <1>4, <1>5

(* List walks along it; and two heaps with the same table have the same    *)
(* lists.                                                                  *)
LEMMA ListIs ==
  ASSUME NEW h, NEW k, NEW g, OK(h, g), OK(k, g), NEW b \in Spots(g)
  PROVE  Chain(g, List(h, b), b, STEPS) /\ List(k, b) = List(h, b)
<1>1. PICK f : /\ \A bp : List(h, bp) = f[STEPS][bp]
               /\ \A n \in 0 .. STEPS : \A s \in Int :
                    /\ n = 0 \/ s = 0 => f[n][s] = <<s>>
                    /\ n # 0 /\ s # 0 => f[n][s] = <<s>> \o f[n - 1][SEG_PREV_BLKP(h, s)]
  BY ListFunction
<1>2. PICK e : /\ \A bp : List(k, bp) = e[STEPS][bp]
               /\ \A n \in 0 .. STEPS : \A s \in Int :
                    /\ n = 0 \/ s = 0 => e[n][s] = <<s>>
                    /\ n # 0 /\ s # 0 => e[n][s] = <<s>> \o e[n - 1][SEG_PREV_BLKP(k, s)]
  BY ListFunction
<1>s. /\ g \in Tables /\ 0 \notin g.L /\ Spots(g) \subseteq Int
      /\ \A c \in g.L : /\ 8 * c \in Spots(g) /\ SEG_PREV_BLKP(h, 8 * c) = 8 * g.pv[c]
                        /\ 8 * g.pv[c] \in Spots(g) /\ 8 * c # 0 /\ SEG_PREV_BLKP(k, 8 * c) = 8 * g.pv[c]
  BY SpotsIs
<1> DEFINE Good(n) == \A s \in Spots(g) : Chain(g, f[n][s], s, n) /\ e[n][s] = f[n][s]
           Bad == {n \in 0 .. STEPS : ~Good(n)}
<1>3. ASSUME NEW n \in 0 .. STEPS, NEW s \in Spots(g), n = 0 \/ s = 0
      PROVE  f[n][s] = <<s>> /\ e[n][s] = <<s>>
  BY <1>1, <1>2, <1>3, <1>s
<1>4. ASSUME NEW n \in 0 .. STEPS, NEW c \in g.L, n # 0
      PROVE  /\ f[n][8 * c] = <<8 * c>> \o f[n - 1][8 * g.pv[c]]
             /\ e[n][8 * c] = <<8 * c>> \o e[n - 1][8 * g.pv[c]]
  <2>1. 8 * c \in Int /\ 8 * c # 0
    BY <1>s
  <2>2. PICK x \in Int : x = 8 * c
    BY <2>1
  <2>3. x # 0 /\ SEG_PREV_BLKP(h, x) = 8 * g.pv[c] /\ SEG_PREV_BLKP(k, x) = 8 * g.pv[c]
    BY <2>1, <2>2, <1>s
  <2>4. f[n][x] = <<x>> \o f[n - 1][8 * g.pv[c]] /\ e[n][x] = <<x>> \o e[n - 1][8 * g.pv[c]]
    BY <1>1, <1>2, <2>3, <1>4
  <2> QED BY <2>2, <2>4
<1>5. ASSUME Bad # {} PROVE FALSE
  <2>1. PICK n \in Bad : \A y \in Bad : n <= y
    <3> HIDE DEF Bad
    <3>1. Bad \subseteq Nat
      BY StepsIs DEF Bad
    <3> QED BY <1>5, <3>1, LeastNat
  <2>2. n \in 0 .. STEPS /\ ~Good(n)
    BY <2>1
  <2>3. n # 0 => n - 1 \in 0 .. STEPS /\ Good(n - 1)
    BY <2>1, <2>2, StepsIs
  <2>4. PICK s \in Spots(g) : ~(Chain(g, f[n][s], s, n) /\ e[n][s] = f[n][s])
    BY <2>2
  <2>5. n \in Nat /\ s \in Int
    BY <2>2, <2>4, <1>s
  <2>6. CASE n = 0 \/ s = 0
    BY <1>3, <2>2, <2>4, <2>5, <2>6, ChainOne
  <2>7. CASE n # 0 /\ s # 0
    <3>1. PICK c \in g.L : s = 8 * c
      BY <2>4, <2>7 DEF Spots
    <3>2. Chain(g, f[n - 1][8 * g.pv[c]], 8 * g.pv[c], n - 1) /\ e[n - 1][8 * g.pv[c]] = f[n - 1][8 * g.pv[c]]
      BY <1>s, <2>3, <2>7, <3>1
    <3>3. PICK t : t = f[n - 1][8 * g.pv[c]]
      OBVIOUS
    <3>4. Chain(g, <<8 * c>> \o t, 8 * c, n)
      BY <1>s, <2>5, <2>7, <3>2, <3>3, ChainCons
    <3> QED BY <1>4, <2>2, <2>4, <2>7, <3>1, <3>2, <3>3, <3>4
  <2> QED BY <2>6, <2>7
<1>6. Good(STEPS)
  BY <1>5, StepsIs
<1> QED BY <1>1, <1>2, <1>6

-----------------------------------------------------------------------------
(* The block that a list pointer leads to. *)
LEMMA SpotIs ==
  ASSUME NEW g \in Tables, NEW x \in Spots(g), x # 0
  PROVE  x \div 8 \in g.L /\ x = 8 * (x \div 8) /\ x \div 8 \in Nat
<1>1. PICK c \in g.L : x = 8 * c
  BY DEF Spots
<1>2. c \in Nat
  BY Fields
<1>3. x \div 8 = c
  BY <1>1, <1>2
<1> QED BY <1>1, <1>2, <1>3

(* Along a list the rank falls and the size class stays. *)
LEMMA ChainFalls ==
  ASSUME NEW g \in Tables, Listed(g), NEW b, NEW k \in Nat, NEW s, Chain(g, s, b, k),
         NEW i \in 1 .. Len(s), NEW j \in 1 .. Len(s), i < j, s[j] # 0
  PROVE  /\ g.rk[s[j] \div 8] < g.rk[s[i] \div 8]
         /\ Class(g.sz[s[j] \div 8]) = Class(g.sz[s[i] \div 8])
<1> DEFINE Good(n) == s[n] # 0 => /\ g.rk[s[n] \div 8] < g.rk[s[i] \div 8]
                                  /\ Class(g.sz[s[n] \div 8]) = Class(g.sz[s[i] \div 8])
           Bad == {n \in (i + 1) .. Len(s) : ~Good(n)}
<1> HIDE DEF Good, Bad
<1>a. Len(s) \in Nat /\ s \in Seq(Int)
  BY DEF Chain
<1>b. \A c \in Nat : g.rk[c] \in Nat
  BY Fields
<1>0. Len(s) \in Nat /\ i \in Nat /\ i >= 1 /\ j \in Nat
  BY <1>a
<1>1. ASSUME NEW n \in 1 .. (Len(s) - 1), s[n + 1] # 0
      PROVE  /\ s[n] # 0 /\ g.rk[s[n + 1] \div 8] < g.rk[s[n] \div 8]
             /\ Class(g.sz[s[n + 1] \div 8]) = Class(g.sz[s[n] \div 8])
             /\ s[n] \div 8 \in Nat /\ s[n + 1] \div 8 \in Nat
  <2>1. s[n] # 0 /\ \A c \in g.L : s[n] = 8 * c => s[n + 1] = 8 * g.pv[c]
    BY DEF Chain
  <2>2. n \in 1 .. Len(s) /\ n + 1 \in 1 .. Len(s)
    BY <1>0
  <2>3. s[n] \in Spots(g) /\ s[n + 1] \in Spots(g)
    BY <2>2 DEF Chain
  <2>4. PICK c \in g.L : s[n] = 8 * c /\ c = s[n] \div 8
    BY <2>1, <2>3, SpotIs
  <2>5. PICK d \in g.L : s[n + 1] = 8 * d /\ d = s[n + 1] \div 8
    BY <1>1, <2>3, SpotIs
  <2>6. c \in Nat /\ d \in Nat /\ g.pv[c] \in Nat
    BY Fields
  <2>7. g.pv[c] = d /\ d # 0
    BY <1>1, <2>1, <2>4, <2>5, <2>6
  <2>8. Class(g.sz[d]) = Class(g.sz[c]) /\ g.rk[d] < g.rk[c]
    BY <2>7 DEF Listed
  <2> QED BY <2>1, <2>4, <2>5, <2>6, <2>8
<1>2. ASSUME Bad # {} PROVE FALSE
  <2>1. PICK n \in Bad : \A y \in Bad : n <= y
    <3>1. Bad \subseteq Nat
      BY <1>0 DEF Bad
    <3> QED BY <1>2, <3>1, LeastNat
  <2>a. n \in (i + 1) .. Len(s) /\ ~Good(n)
    BY <2>1 DEF Bad
  <2>2. n \in Nat /\ n >= i + 1 /\ n <= Len(s) /\ n - 1 \in 1 .. (Len(s) - 1) /\ (n - 1) + 1 = n
    BY <1>0, <2>a
  <2>3. /\ s[n - 1] # 0 /\ g.rk[s[n] \div 8] < g.rk[s[n - 1] \div 8] /\ s[n] # 0
        /\ Class(g.sz[s[n] \div 8]) = Class(g.sz[s[n - 1] \div 8])
        /\ s[n - 1] \div 8 \in Nat /\ s[n] \div 8 \in Nat
    <3>1. s[n] # 0
      BY <2>a DEF Good
    <3> QED BY <1>1, <2>2, <3>1
  <2>4. CASE n = i + 1
    <3>1. n - 1 = i
      BY <1>0, <2>4
    <3> QED BY <2>a, <2>3, <3>1 DEF Good
  <2>5. CASE n # i + 1
    <3>1. n - 1 \in (i + 1) .. Len(s)
      BY <1>0, <2>2, <2>5
    <3>2. n - 1 \notin Bad
      BY <1>0, <2>1, <2>2
    <3>3. Good(n - 1)
      BY <3>1, <3>2 DEF Bad
    <3>4. /\ g.rk[s[n - 1] \div 8] < g.rk[s[i] \div 8]
          /\ Class(g.sz[s[n - 1] \div 8]) = Class(g.sz[s[i] \div 8])
      BY <2>3, <3>3 DEF Good
    <3>5. s[i] \div 8 \in Nat
      <4>1. i \in 1 .. (Len(s) - 1)
        BY <1>0
      <4>2. s[i] # 0 /\ s[i] \in Spots(g)
        BY <4>1 DEF Chain
      <4> QED BY <4>2, SpotIs
    <3>6. g.rk[s[n] \div 8] < g.rk[s[i] \div 8]
      <4>1. PICK x \in Nat, y \in Nat, z \in Nat : x = g.rk[s[n] \div 8] /\ y = g.rk[s[n - 1] \div 8] /\ z = g.rk[s[i] \div 8]
        BY <1>b, <2>3, <3>5
      <4>2. x < y /\ y < z
        BY <2>3, <3>4, <4>1
      <4>3. x < z
        BY <4>2
      <4> QED BY <4>1, <4>3
    <3> QED BY <2>a, <2>3, <3>4, <3>6 DEF Good
  <2> QED BY <2>4, <2>5
<1>3. j \in (i + 1) .. Len(s)
  BY <1>0
<1> QED BY <1>2, <1>3 DEF Bad, Good

(* A list ends: there are not more than STEPS blocks, and a list passes    *)
(* none of them twice.                                                     *)
LEMMA ListEnds ==
  ASSUME NEW g \in Tables, Tiled(g), Listed(g), 8 * g.hi <= MAX_HEAP,
         NEW b, NEW s, Chain(g, s, b, STEPS)
  PROVE  s[Len(s)] = 0
<1> SUFFICES ASSUME s[Len(s)] # 0 PROVE FALSE
  OBVIOUS
<1>0. STEPS \in Nat /\ STEPS = MAX_HEAP \div 16 /\ MAX_HEAP \in Nat
  BY StepsIs, Sizes8
<1>1. Len(s) = STEPS + 1 /\ s \in Seq(Int)
  BY DEF Chain
<1>2. ASSUME NEW j \in 1 .. (STEPS + 1)
      PROVE  s[j] \div 8 \in g.L /\ s[j] \div 8 \in Nat /\ s[j] = 8 * (s[j] \div 8) /\ s[j] # 0
  <2>1. s[j] \in Spots(g)
    BY <1>1 DEF Chain
  <2>2. s[j] # 0
    <3>1. CASE j = STEPS + 1
      BY <1>1, <3>1
    <3>2. CASE j # STEPS + 1
      <4>1. j \in 1 .. (Len(s) - 1)
        BY <1>0, <1>1, <3>2
      <4> QED BY <4>1 DEF Chain
    <3> QED BY <3>1, <3>2
  <2> QED BY <2>1, <2>2, SpotIs
<1> DEFINE half == [j \in 1 .. (STEPS + 1) |-> (s[j] \div 8) \div 2]
<1>3. ASSUME NEW c \in g.L
      PROVE  c \in g.B /\ c \in Nat /\ c \div 2 \in 1 .. STEPS
  <2>1. c \in g.B
    BY DEF Listed
  <2>2. c \in Nat /\ g.sz[c] \in Nat /\ g.sz[c] >= 2 /\ c + g.sz[c] <= g.hi /\ g.hi \in Nat /\ c >= 2
    BY <2>1, BlockWords
  <2>3. 8 * c + 16 <= MAX_HEAP
    BY <1>0, <2>2
  <2>4. c \div 2 >= 1 /\ c \div 2 <= STEPS /\ c \div 2 \in Int
    BY <1>0, <2>2, <2>3
  <2> QED BY <1>0, <2>1, <2>2, <2>4
<1>4. half \in [1 .. (STEPS + 1) -> 1 .. STEPS]
  BY <1>2, <1>3
<1>5. /\ IsFiniteSet(1 .. (STEPS + 1)) /\ Cardinality(1 .. (STEPS + 1)) = STEPS + 1
      /\ IsFiniteSet(1 .. STEPS) /\ Cardinality(1 .. STEPS) = STEPS
  <2>1. Cardinality(1 .. (STEPS + 1)) = (IF 1 > STEPS + 1 THEN 0 ELSE STEPS + 1 - 1 + 1) /\ IsFiniteSet(1 .. (STEPS + 1))
    BY <1>0, FS_Interval
  <2>2. Cardinality(1 .. STEPS) = (IF 1 > STEPS THEN 0 ELSE STEPS - 1 + 1) /\ IsFiniteSet(1 .. STEPS)
    BY <1>0, FS_Interval
  <2> QED BY <1>0, <2>1, <2>2
<1>6. \E i, j \in 1 .. (STEPS + 1) : i # j /\ half[i] = half[j]
  <2> HIDE DEF half
  <2>1. Cardinality(1 .. STEPS) < Cardinality(1 .. (STEPS + 1))
    BY <1>0, <1>5
  <2> QED BY <1>4, <1>5, <2>1, FS_PigeonHole
<1>7. PICK i \in 1 .. (STEPS + 1), j \in 1 .. (STEPS + 1) : i < j /\ half[i] = half[j]
  BY <1>0, <1>6
<1>8. PICK c \in g.L : c = s[i] \div 8
  BY <1>2
<1>9. PICK d \in g.L : d = s[j] \div 8
  BY <1>2
<1>a. c \in Nat /\ d \in Nat /\ g.rk[c] \in Nat
  BY Fields
<1>b. i \in 1 .. Len(s) /\ j \in 1 .. Len(s) /\ i < j /\ s[j] # 0
  BY <1>1, <1>2, <1>7
<1>10. g.rk[d] < g.rk[c] /\ c \in Nat /\ d \in Nat /\ g.rk[c] \in Nat
  BY <1>0, <1>a, <1>b, <1>8, <1>9, ChainFalls
<1>11. c # d
  BY <1>10
<1>12. c \div 2 = d \div 2
  BY <1>7, <1>8, <1>9
<1>13. c \in g.B /\ d \in g.B /\ g.sz[c] \in Nat /\ g.sz[d] \in Nat /\ g.sz[c] >= 2 /\ g.sz[d] >= 2
  BY <1>3, BlockWords
<1>14. c < d => c + g.sz[c] <= d
  BY <1>13 DEF Tiled
<1>15. d < c => d + g.sz[d] <= c
  BY <1>13 DEF Tiled
<1>16. c + 2 <= d \/ d + 2 <= c
  BY <1>a, <1>11, <1>13, <1>14, <1>15
<1> QED BY <1>a, <1>12, <1>16

-----------------------------------------------------------------------------
(* Neighbours p and c in list i, 0 for an end of it. *)
Place(g, i, p, c) ==
  /\ p \in Nat /\ c \in Nat
  /\ p = 0 => g.hd[i] = c
  /\ p # 0 => p \in g.L /\ Class(g.sz[p]) = i /\ g.pv[p] = c
  /\ c # 0 => c \in g.L /\ Class(g.sz[c]) = i /\ g.nx[c] = p

(* The blocks of a list. *)
LEMMA ListBlocks ==
  ASSUME NEW h, NEW g, OK(h, g), NEW i \in Idx, NEW s, s = List(h, 8 * g.hd[i])
  PROVE  /\ s \in Seq(Int) /\ Len(s) \in Nat /\ Len(s) >= 1 /\ s[1] = 8 * g.hd[i] /\ s[Len(s)] = 0
         /\ \A j \in 1 .. Len(s) : s[j] # 0 =>
              /\ s[j] \div 8 \in g.L /\ s[j] = 8 * (s[j] \div 8) /\ s[j] \div 8 \in Nat
              /\ Class(g.sz[s[j] \div 8]) = i
         /\ \A j \in 1 .. (Len(s) - 1) : s[j] # 0 /\ s[j + 1] = 8 * g.pv[s[j] \div 8]
<1>0. g \in Tables /\ Tiled(g) /\ Listed(g) /\ 8 * g.hi <= MAX_HEAP
  BY DEF OK
<1>1. 8 * g.hd[i] \in Spots(g) /\ g.hd[i] \in Nat
  BY SpotsIs
<1>2. Chain(g, s, 8 * g.hd[i], STEPS)
  BY <1>1, ListIs
<1>3. s \in Seq(Int) /\ Len(s) \in Nat /\ Len(s) >= 1 /\ s[1] = 8 * g.hd[i]
  BY <1>2, StepsIs DEF Chain
<1>4. s[Len(s)] = 0
  BY <1>0, <1>2, ListEnds
<1>5. ASSUME NEW j \in 1 .. Len(s), s[j] # 0
      PROVE  /\ s[j] \div 8 \in g.L /\ s[j] = 8 * (s[j] \div 8) /\ s[j] \div 8 \in Nat
             /\ Class(g.sz[s[j] \div 8]) = i
  <2>1. s[j] \in Spots(g)
    BY <1>2 DEF Chain
  <2>2. s[j] \div 8 \in g.L /\ s[j] = 8 * (s[j] \div 8) /\ s[j] \div 8 \in Nat
    BY <1>0, <1>5, <2>1, SpotIs
  <2>3. s[1] # 0
    <3>1. CASE j = 1
      BY <1>5, <3>1
    <3>2. CASE j # 1
      <4>1. 1 \in 1 .. (Len(s) - 1)
        BY <1>3, <3>2
      <4> QED BY <1>2, <4>1 DEF Chain
    <3> QED BY <3>1, <3>2
  <2>4. g.hd[i] # 0 /\ s[1] \div 8 = g.hd[i]
    BY <1>1, <1>3, <2>3
  <2>5. Class(g.sz[s[1] \div 8]) = i
    BY <1>0, <2>4 DEF Listed
  <2>6. CASE j = 1
    BY <2>2, <2>5, <2>6
  <2>7. CASE j # 1
    <3>1. 1 \in 1 .. Len(s) /\ 1 < j
      BY <1>3, <2>7
    <3>2. Class(g.sz[s[j] \div 8]) = Class(g.sz[s[1] \div 8])
      BY <1>0, <1>2, <1>5, <3>1, ChainFalls, StepsIs
    <3> QED BY <2>2, <2>5, <3>2
  <2> QED BY <2>6, <2>7
<1>6. ASSUME NEW j \in 1 .. (Len(s) - 1)
      PROVE  s[j] # 0 /\ s[j + 1] = 8 * g.pv[s[j] \div 8]
  <2>1. s[j] # 0 /\ \A c \in g.L : s[j] = 8 * c => s[j + 1] = 8 * g.pv[c]
    BY <1>2 DEF Chain
  <2>2. s[j] \div 8 \in g.L /\ s[j] = 8 * (s[j] \div 8)
    BY <1>3, <1>5, <2>1
  <2> QED BY <2>1, <2>2
<1> QED BY <1>3, <1>4, <1>5, <1>6

Finds(h, k, g, i, key) ==
  \E p, c \in Nat : /\ SegSearch(h, 8 * g.hd[i], key) = [prev |-> 8 * p, curr |-> 8 * c]
                    /\ SegSearch(k, 8 * g.hd[i], key) = [prev |-> 8 * p, curr |-> 8 * c]
                    /\ Place(g, i, p, c)

(* The search for the place of a block ends between two neighbours, and at *)
(* the same place in every heap with that table.                           *)
LEMMA SearchIs ==
  ASSUME NEW h, NEW k, NEW g, OK(h, g), OK(k, g), NEW i \in Idx, NEW key
  PROVE  Finds(h, k, g, i, key)
<1>0. g \in Tables /\ Listed(g)
  BY DEF OK
<1>h. g.hd[i] \in Nat /\ 8 * g.hd[i] \in Spots(g)
  BY SpotsIs
<1>s. PICK s : s = List(h, 8 * g.hd[i])
  OBVIOUS
<1>t. s = List(k, 8 * g.hd[i])
  BY <1>s, <1>h, ListIs
<1>1. /\ s \in Seq(Int) /\ Len(s) \in Nat /\ Len(s) >= 1 /\ s[1] = 8 * g.hd[i] /\ s[Len(s)] = 0
      /\ \A j \in 1 .. Len(s) : s[j] # 0 =>
           /\ s[j] \div 8 \in g.L /\ s[j] = 8 * (s[j] \div 8) /\ s[j] \div 8 \in Nat
           /\ Class(g.sz[s[j] \div 8]) = i
      /\ \A j \in 1 .. (Len(s) - 1) : s[j] # 0 /\ s[j + 1] = 8 * g.pv[s[j] \div 8]
  BY <1>s, ListBlocks
<1>2. DOMAIN s = 1 .. Len(s)
  BY <1>1
<1> DEFINE S == {j \in DOMAIN s : s[j] = NULL \/ key <= GET_BLK_SIZE(h, s[j])}
           T == {j \in DOMAIN s : s[j] = NULL \/ key <= GET_BLK_SIZE(k, s[j])}
<1>3. ASSUME NEW j \in 1 .. Len(s), s[j] # 0
      PROVE  GET_BLK_SIZE(h, s[j]) = GET_BLK_SIZE(k, s[j])
  <2>1. PICK d \in g.L : s[j] = 8 * d
    BY <1>1, <1>3
  <2>2. d \in g.B
    BY ReadLinks
  <2> QED BY <2>1, <2>2, ReadTags
<1>4. S = T
  BY <1>2, <1>3 DEF NULL
<1>5. S \subseteq Nat /\ S # {} /\ S \subseteq 1 .. Len(s)
  <2>1. Len(s) \in S
    BY <1>1, <1>2 DEF NULL
  <2> QED BY <1>2, <2>1
<1>6. SegSearch(h, 8 * g.hd[i], key) = [prev |-> IF Min(S) = 1 THEN NULL ELSE s[Min(S) - 1], curr |-> s[Min(S)]]
  BY <1>s DEF SegSearch
<1>7. SegSearch(k, 8 * g.hd[i], key) = [prev |-> IF Min(T) = 1 THEN NULL ELSE s[Min(T) - 1], curr |-> s[Min(T)]]
  BY <1>t DEF SegSearch
<1> HIDE DEF S, T
<1>8. PICK j \in S : j = Min(S)
  BY <1>5, MinIs
<1>9. SegSearch(k, 8 * g.hd[i], key) = SegSearch(h, 8 * g.hd[i], key)
  BY <1>4, <1>6, <1>7
<1>10. SegSearch(h, 8 * g.hd[i], key) = [prev |-> IF j = 1 THEN 0 ELSE s[j - 1], curr |-> s[j]]
  BY <1>6, <1>8 DEF NULL
<1>11. j \in 1 .. Len(s) /\ j \in Nat
  BY <1>5
<1>12. CASE j = 1
  <2>1. SegSearch(h, 8 * g.hd[i], key) = [prev |-> 8 * 0, curr |-> 8 * g.hd[i]]
    BY <1>1, <1>10, <1>12
  <2>2. Place(g, i, 0, g.hd[i])
    BY <1>0, <1>h DEF Place, Listed
  <2> QED BY <1>h, <1>9, <2>1, <2>2 DEF Finds
<1>13. CASE j # 1
  <2>1. j - 1 \in 1 .. (Len(s) - 1) /\ (j - 1) + 1 = j /\ j - 1 \in 1 .. Len(s)
    BY <1>1, <1>11, <1>13
  <2>2. PICK p \in g.L : p = s[j - 1] \div 8 /\ s[j - 1] = 8 * p /\ p \in Nat /\ Class(g.sz[p]) = i
    BY <1>1, <2>1
  <2>3. s[j] = 8 * g.pv[p]
    BY <1>1, <2>1, <2>2
  <2>4. PICK c \in Nat : c = g.pv[p]
    BY <1>0, <2>2, Fields
  <2>5. p # 0
    <3>1. 0 \notin g.L
      BY SpotsIs
    <3> QED BY <2>2, <3>1, Zenon
  <2>6. c # 0 => c \in g.L /\ Class(g.sz[c]) = i /\ g.nx[c] = p
    BY <1>0, <2>2, <2>4 DEF Listed
  <2>7. Place(g, i, p, c)
    BY <2>2, <2>4, <2>5, <2>6 DEF Place
  <2>8. SegSearch(h, 8 * g.hd[i], key) = [prev |-> 8 * p, curr |-> 8 * c]
    BY <1>10, <1>13, <2>2, <2>3, <2>4
  <2> QED BY <1>9, <2>2, <2>4, <2>7, <2>8 DEF Finds
<1> QED BY <1>12, <1>13

(* The table when b is listed between p and c. *)
Enlisted(g, b, p, c) ==
  [B  |-> g.B, sz |-> g.sz, al |-> g.al, hi |-> g.hi,
   L  |-> g.L \cup {b},
   pv |-> [x \in Nat |-> IF x = b THEN c ELSE IF x = p THEN b ELSE g.pv[x]],
   nx |-> [x \in Nat |-> IF x = b THEN p ELSE IF x = c THEN b ELSE g.nx[x]],
   hd |-> [i \in Idx |-> IF p = 0 /\ i = Class(g.sz[b]) THEN b ELSE g.hd[i]],
   rk |-> [x \in Nat |-> IF x = b THEN (IF c = 0 THEN 0 ELSE 2 * g.rk[c] + 2) ELSE 2 * g.rk[x] + 1]]

(* What its fields are. *)
Enlists(g, b, p, c, u) ==
  /\ u \in Tables /\ u.B = g.B /\ u.sz = g.sz /\ u.al = g.al /\ u.hi = g.hi
  /\ u.L = g.L \cup {b}
  /\ \A x \in Nat : u.pv[x] = IF x = b THEN c ELSE IF x = p THEN b ELSE g.pv[x]
  /\ \A x \in Nat : u.nx[x] = IF x = b THEN p ELSE IF x = c THEN b ELSE g.nx[x]
  /\ \A i \in Idx : u.hd[i] = IF p = 0 /\ i = Class(g.sz[b]) THEN b ELSE g.hd[i]
  /\ u.rk[b] = IF c = 0 THEN 0 ELSE 2 * g.rk[c] + 2
  /\ \A x \in Nat : x # b => u.rk[x] = 2 * g.rk[x] + 1

(* Enlisted is such a table. *)
LEMMA EnlistedIs ==
  ASSUME NEW g \in Tables, NEW b \in Nat, NEW p \in Nat, NEW c \in Nat
  PROVE  Enlists(g, b, p, c, Enlisted(g, b, p, c))
<1>1. \A x \in Nat : g.rk[x] \in Nat /\ g.pv[x] \in Nat /\ g.nx[x] \in Nat
  BY Fields
<1>2. \A i \in Idx : g.hd[i] \in Nat
  BY Fields
<1>3. g.L \cup {b} \in SUBSET Nat
  BY Fields
<1>4. [x \in Nat |-> IF x = b THEN c ELSE IF x = p THEN b ELSE g.pv[x]] \in [Nat -> Nat]
  BY <1>1
<1>5. [x \in Nat |-> IF x = b THEN p ELSE IF x = c THEN b ELSE g.nx[x]] \in [Nat -> Nat]
  BY <1>1
<1>6. [i \in Idx |-> IF p = 0 /\ i = Class(g.sz[b]) THEN b ELSE g.hd[i]] \in [Idx -> Nat]
  BY <1>2
<1>7. [x \in Nat |-> IF x = b THEN (IF c = 0 THEN 0 ELSE 2 * g.rk[c] + 2) ELSE 2 * g.rk[x] + 1] \in [Nat -> Nat]
  BY <1>1
<1>8. Enlisted(g, b, p, c) \in Tables
  BY <1>3, <1>4, <1>5, <1>6, <1>7, Fields DEF Tables, Enlisted
<1> QED BY <1>8 DEF Enlisted, Enlists

(* The lists are as they should be when it is. *)
LEMMA EnlistedLists ==
  ASSUME NEW g \in Tables, Tiled(g), Listed(g), NEW b \in g.B, b \notin g.L, g.al[b] = 0,
         NEW p, NEW c, Place(g, Class(g.sz[b]), p, c)
  PROVE  Listed(Enlisted(g, b, p, c))
<1>u. PICK u : u = Enlisted(g, b, p, c)
  OBVIOUS
<1>0. b \in Nat /\ g.L \subseteq Nat /\ g.L \subseteq g.B /\ p \in Nat /\ c \in Nat
  BY Fields DEF Listed, Place
<1>1. Enlists(g, b, p, c, u)
  BY <1>0, <1>u, EnlistedIs
<1>z. 0 \notin g.L /\ b # 0
  BY Sizes8 DEF Tiled, Listed
<1>c. Class(g.sz[b]) \in Idx
  BY <1>0, Fields, ClassIs
<1>r. \A x \in Nat : g.rk[x] \in Nat
  BY Fields
<1>p. p # 0 => p \in g.L /\ p # b /\ Class(g.sz[p]) = Class(g.sz[b]) /\ g.pv[p] = c
  BY DEF Place
<1>q. c # 0 => c \in g.L /\ c # b /\ Class(g.sz[c]) = Class(g.sz[b]) /\ g.nx[c] = p
  BY DEF Place
<1>s. p # 0 /\ c # 0 => g.rk[c] < g.rk[p]
  BY <1>p DEF Listed
<1>t. p = c => p = 0 /\ c = 0
  <2> SUFFICES ASSUME p = c, p # 0 PROVE FALSE
    OBVIOUS
  <2>1. g.rk[c] < g.rk[p] /\ g.rk[p] \in Nat
    BY <1>s, <1>r, <1>0
  <2> QED BY <2>1
<1>2. ASSUME NEW d \in u.L
      PROVE  /\ d \in u.B /\ u.al[d] = 0
             /\ u.pv[d] # 0 => /\ u.pv[d] \in u.L /\ u.nx[u.pv[d]] = d
                               /\ Class(u.sz[u.pv[d]]) = Class(u.sz[d]) /\ u.rk[u.pv[d]] < u.rk[d]
             /\ u.nx[d] # 0 => u.nx[d] \in u.L /\ u.pv[u.nx[d]] = d /\ Class(u.sz[u.nx[d]]) = Class(u.sz[d])
             /\ u.nx[d] = 0 => u.hd[Class(u.sz[d])] = d
  <2>1. CASE d = b
    <3>1. u.pv[b] = c /\ u.nx[b] = p /\ u.B = g.B /\ u.al = g.al /\ u.sz = g.sz /\ u.L = g.L \cup {b}
      BY <1>0, <1>1 DEF Enlists
    <3>2. ASSUME c # 0
          PROVE  c \in u.L /\ u.nx[c] = b /\ Class(u.sz[c]) = Class(u.sz[b]) /\ u.rk[c] < u.rk[b]
      <4>1. u.nx[c] = b
        BY <1>0, <1>1, <1>q, <3>2 DEF Enlists
      <4>2. u.rk[c] = 2 * g.rk[c] + 1 /\ u.rk[b] = 2 * g.rk[c] + 2 /\ g.rk[c] \in Nat
        BY <1>0, <1>1, <1>q, <1>r, <3>2 DEF Enlists
      <4>3. u.rk[c] < u.rk[b]
        BY <4>2
      <4> QED BY <1>q, <3>1, <3>2, <4>1, <4>3
    <3>3. ASSUME p # 0
          PROVE  p \in u.L /\ u.pv[p] = b /\ Class(u.sz[p]) = Class(u.sz[b])
      <4>1. u.pv[p] = b
        BY <1>0, <1>1, <1>p, <3>3 DEF Enlists
      <4> QED BY <1>p, <3>1, <3>3, <4>1
    <3>4. ASSUME p = 0 PROVE u.hd[Class(u.sz[b])] = b
      BY <1>1, <1>c, <3>4 DEF Enlists
    <3> QED BY <2>1, <3>1, <3>2, <3>3, <3>4
  <2>2. CASE d # b
    <3>0. d \in g.L /\ d \in Nat /\ u.B = g.B /\ u.al = g.al /\ u.sz = g.sz /\ u.L = g.L \cup {b} /\ d # 0
      BY <1>0, <1>1, <1>z, <2>2 DEF Enlists
    <3>1. d \in u.B /\ u.al[d] = 0
      BY <3>0 DEF Listed
    <3>2. u.pv[d] = (IF d = p THEN b ELSE g.pv[d]) /\ u.nx[d] = (IF d = c THEN b ELSE g.nx[d])
      BY <1>1, <2>2, <3>0 DEF Enlists
    <3>3. g.pv[d] \in Nat /\ g.nx[d] \in Nat /\ g.rk[d] \in Nat
      BY <3>0, Fields
    <3>4. ASSUME u.pv[d] # 0
          PROVE  /\ u.pv[d] \in u.L /\ u.nx[u.pv[d]] = d
                 /\ Class(u.sz[u.pv[d]]) = Class(u.sz[d]) /\ u.rk[u.pv[d]] < u.rk[d]
      <4>1. CASE d = p
        <5>1. u.pv[d] = b /\ u.nx[b] = p /\ p # 0
          BY <1>0, <1>1, <3>0, <3>2, <4>1 DEF Enlists
        <5>2. u.rk[d] = 2 * g.rk[d] + 1
          BY <1>1, <2>2, <3>0 DEF Enlists
        <5>3. u.rk[b] < u.rk[d]
          <6>1. CASE c = 0
            <7>1. u.rk[b] = 0
              BY <1>1, <6>1 DEF Enlists
            <7> QED BY <3>3, <5>2, <7>1
          <6>2. CASE c # 0
            <7>1. u.rk[b] = 2 * g.rk[c] + 2 /\ g.rk[c] \in Nat /\ g.rk[c] < g.rk[d]
              BY <1>0, <1>1, <1>r, <1>s, <4>1, <5>1, <6>2 DEF Enlists
            <7> QED BY <3>3, <5>2, <7>1
          <6> QED BY <6>1, <6>2
        <5> QED BY <1>p, <3>0, <4>1, <5>1, <5>3
      <4>2. CASE d # p
        <5>1. u.pv[d] = g.pv[d] /\ g.pv[d] # 0
          BY <3>2, <3>4, <4>2
        <5>2. g.pv[d] \in g.L /\ g.nx[g.pv[d]] = d /\ Class(g.sz[g.pv[d]]) = Class(g.sz[d]) /\ g.rk[g.pv[d]] < g.rk[d]
          BY <3>0, <5>1 DEF Listed
        <5>3. g.pv[d] # c /\ g.pv[d] # b
          BY <1>q, <5>1, <5>2, <4>2
        <5>4. u.nx[g.pv[d]] = d
          BY <1>1, <3>3, <5>2, <5>3 DEF Enlists
        <5>5. u.rk[g.pv[d]] = 2 * g.rk[g.pv[d]] + 1 /\ u.rk[d] = 2 * g.rk[d] + 1 /\ g.rk[g.pv[d]] \in Nat
          BY <1>1, <1>r, <2>2, <3>0, <3>3, <5>3 DEF Enlists
        <5>6. u.rk[g.pv[d]] < u.rk[d]
          BY <3>3, <5>2, <5>5
        <5> QED BY <3>0, <5>1, <5>2, <5>4, <5>6
      <4> QED BY <4>1, <4>2
    <3>5. ASSUME u.nx[d] # 0
          PROVE  u.nx[d] \in u.L /\ u.pv[u.nx[d]] = d /\ Class(u.sz[u.nx[d]]) = Class(u.sz[d])
      <4>1. CASE d = c
        <5>1. u.nx[d] = b /\ u.pv[b] = c /\ c # 0
          BY <1>0, <1>1, <3>0, <3>2, <4>1 DEF Enlists
        <5> QED BY <1>q, <3>0, <4>1, <5>1
      <4>2. CASE d # c
        <5>1. u.nx[d] = g.nx[d] /\ g.nx[d] # 0
          BY <3>2, <3>5, <4>2
        <5>2. g.nx[d] \in g.L /\ g.pv[g.nx[d]] = d /\ Class(g.sz[g.nx[d]]) = Class(g.sz[d])
          BY <3>0, <5>1 DEF Listed
        <5>3. g.nx[d] # p /\ g.nx[d] # b
          BY <1>p, <5>1, <5>2, <4>2
        <5>4. u.pv[g.nx[d]] = d
          BY <1>1, <3>3, <5>2, <5>3 DEF Enlists
        <5> QED BY <3>0, <5>1, <5>2, <5>4
      <4> QED BY <4>1, <4>2
    <3>6. ASSUME u.nx[d] = 0 PROVE u.hd[Class(u.sz[d])] = d
      <4>1. d # c /\ g.nx[d] = 0
        BY <1>z, <3>2, <3>6
      <4>2. g.hd[Class(g.sz[d])] = d /\ Class(g.sz[d]) \in Idx
        BY <3>0, <4>1, Fields, ClassIs DEF Listed
      <4>3. ~(p = 0 /\ Class(g.sz[d]) = Class(g.sz[b]))
        <5> SUFFICES ASSUME p = 0, Class(g.sz[d]) = Class(g.sz[b]) PROVE FALSE
          OBVIOUS
        <5>1. g.hd[Class(g.sz[b])] = c
          BY DEF Place
        <5> QED BY <4>1, <4>2, <5>1
      <4> QED BY <1>1, <3>0, <4>2, <4>3 DEF Enlists
    <3> QED BY <3>1, <3>4, <3>5, <3>6
  <2> QED BY <2>1, <2>2
<1>3. ASSUME NEW i \in Idx, u.hd[i] # 0
      PROVE  u.hd[i] \in u.L /\ Class(u.sz[u.hd[i]]) = i /\ u.nx[u.hd[i]] = 0
  <2>0. u.sz = g.sz /\ u.L = g.L \cup {b}
    BY <1>1 DEF Enlists
  <2>1. CASE p = 0 /\ i = Class(g.sz[b])
    <3>1. u.hd[i] = b /\ u.nx[b] = 0
      BY <1>0, <1>1, <2>1 DEF Enlists
    <3> QED BY <2>0, <2>1, <3>1
  <2>2. CASE ~(p = 0 /\ i = Class(g.sz[b]))
    <3>1. u.hd[i] = g.hd[i]
      BY <1>1, <2>2 DEF Enlists
    <3>2. g.hd[i] \in g.L /\ Class(g.sz[g.hd[i]]) = i /\ g.nx[g.hd[i]] = 0 /\ g.hd[i] \in Nat
      BY <1>0, <1>3, <3>1 DEF Listed
    <3>3. g.hd[i] # c
      BY <1>q, <1>z, <2>2, <3>2
    <3>4. u.nx[g.hd[i]] = 0
      BY <1>1, <3>2, <3>3 DEF Enlists
    <3> QED BY <2>0, <3>1, <3>2, <3>4
  <2> QED BY <2>1, <2>2
<1>4. Listed(u)
  BY <1>2, <1>3 DEF Listed
<1> QED BY <1>u, <1>4

-----------------------------------------------------------------------------
(* The word that leads to b from its list. *)
LinkInWord(g, b, p) == IF p = 0 THEN Class(g.sz[b]) ELSE 2 * p

(* add_seglist is the writes of the four cases of the C function: the      *)
(* links of b, and of the neighbours it has.                               *)
LEMMA AddIs ==
  ASSUME NEW h, NEW g, OK(h, g), NEW b \in g.B, NEW p, NEW c, Place(g, Class(g.sz[b]), p, c),
         SegPlace(h, 8 * g.sz[b]) = [prev |-> 8 * p, curr |-> 8 * c]
  PROVE  add_seglist(h, 8 * b, 8 * g.sz[b]) =
           LET o == Set(Set(h, 2 * b + 1, 8 * p), 2 * b, 8 * c)
           IN  Set(IF c # 0 THEN Set(o, 2 * c + 1, 8 * b) ELSE o, LinkInWord(g, b, p), 8 * b)
<1>0. b \in Nat /\ g.sz[b] \in Nat /\ p \in Nat /\ c \in Nat
  BY ReadTags DEF Place
<1>1. PICK at : at = [prev |-> 8 * p, curr |-> 8 * c]
  OBVIOUS
<1>2. at.prev = 8 * p /\ at.curr = 8 * c
  BY <1>1
<1>3. PICK i \in Idx : i = Class(g.sz[b]) /\ i = SegIndex(8 * g.sz[b])
  BY <1>0, ClassIs
<1>i. i \in Int
  BY <1>3, Sizes8 DEF Idx
<1>4. add_seglist(h, 8 * b, 8 * g.sz[b]) = Linked(h, 8 * b, at, i)
  BY <1>1, <1>3 DEF add_seglist
<1>5. PICK o : o = Set(Set(h, 2 * b + 1, 8 * p), 2 * b, 8 * c)
  OBVIOUS
<1>6. LinkOut(h, 8 * b, at) = o
  <2>1. PUT(h, 8 * b + WSIZE, 8 * p) = Set(h, 2 * b + 1, 8 * p)
    BY <1>0, WordAt DEF PUT, Set, WSIZE
  <2>2. \A q : PUT(q, 8 * b, 8 * c) = Set(q, 2 * b, 8 * c)
    BY <1>0, WordAt DEF PUT, Set, WSIZE
  <2> QED BY <1>2, <1>5, <2>1, <2>2 DEF LinkOut, SetSegPrev, SetSegNext
<1>7. PICK l : l = IF c # 0 THEN Set(o, 2 * c + 1, 8 * b) ELSE o
  OBVIOUS
<1>8. LinkCurr(o, 8 * b, at) = l
  <2>1. PUT(o, 8 * c + WSIZE, 8 * b) = Set(o, 2 * c + 1, 8 * b)
    BY <1>0, WordAt DEF PUT, Set, WSIZE
  <2>2. 8 * c = 0 <=> c = 0
    BY <1>0
  <2> QED BY <1>2, <1>7, <2>1, <2>2 DEF LinkCurr, SetSegNext, NULL
<1>9. LinkPrev(l, 8 * b, at, i) = Set(l, LinkInWord(g, b, p), 8 * b)
  <2>1. PUT(l, 8 * p, 8 * b) = Set(l, 2 * p, 8 * b)
    BY <1>0, WordAt DEF PUT, Set, WSIZE
  <2>2. (i * WSIZE) \div 4 = i
    BY <1>i DEF WSIZE
  <2>3. PUT(l, i * WSIZE, 8 * b) = Set(l, i, 8 * b)
    BY <2>2 DEF PUT, Set, WSIZE
  <2>4. 8 * p = 0 <=> p = 0
    BY <1>0
  <2> QED BY <1>2, <1>3, <2>1, <2>3, <2>4 DEF LinkPrev, SetSegPrev, SET_SEG_LIST_PTR, LinkInWord, NULL
<1> QED BY <1>4, <1>5, <1>6, <1>7, <1>8, <1>9 DEF Linked

(* The list words of a free block. *)
LEMMA FreeWords ==
  ASSUME NEW g \in Tables, Tiled(g), 8 * g.hi <= MAX_HEAP, NEW b \in g.B, g.al[b] = 0
  PROVE  /\ b \in Nat /\ b >= Lo /\ 2 * b \in Words /\ 2 * b + 1 \in Words
         /\ LinkWord(g, 2 * b) /\ LinkWord(g, 2 * b + 1)
<1>1. b \in Nat /\ b >= Lo /\ g.sz[b] >= 2 /\ g.sz[b] \in Nat
      /\ \A w \in Int : 0 <= w /\ w <= 2 * (b + g.sz[b]) - 1 => w \in Words
  BY BlockWords
<1>2. 2 * b \in Words /\ 2 * b + 1 \in Words
  BY <1>1
<1> QED BY <1>1, <1>2 DEF LinkWord

(* The words of the array of list heads lie below the prologue. *)
LEMMA IdxWords ==
  ASSUME NEW g \in Tables, Tiled(g), 8 * g.hi <= MAX_HEAP, NEW i \in Idx
  PROVE  i \in Nat /\ i \in Words /\ LinkWord(g, i) /\ i < 2 * Lo - 4
<1>1. i \in Nat /\ 4 * i < MAX_HEAP /\ i < 2 * Lo - 4
  BY Sizes8, Fields DEF Idx, Tiled
<1> QED BY <1>1, IsWord DEF LinkWord

(* The words after it. *)
LEMMA AddWords ==
  ASSUME NEW h, NEW g, OK(h, g), NEW b \in g.B, b \notin g.L, g.al[b] = 0,
         NEW p, NEW c, Place(g, Class(g.sz[b]), p, c),
         SegPlace(h, 8 * g.sz[b]) = [prev |-> 8 * p, curr |-> 8 * c],
         NEW k, k = add_seglist(h, 8 * b, 8 * g.sz[b])
  PROVE  /\ Heap(k, 8 * g.hi) /\ LinkWord(g, LinkInWord(g, b, p))
         /\ \A w \in Words : k.mem[w] =
              IF w = LinkInWord(g, b, p) THEN 8 * b
              ELSE IF c # 0 /\ w = 2 * c + 1 THEN 8 * b
              ELSE IF w = 2 * b THEN 8 * c ELSE IF w = 2 * b + 1 THEN 8 * p ELSE h.mem[w]
<1>0. g \in Tables /\ Tiled(g) /\ 8 * g.hi <= MAX_HEAP /\ Listed(g) /\ Heap(h, 8 * g.hi)
  BY DEF OK
<1>1. p \in Nat /\ c \in Nat /\ (p # 0 => p \in g.L) /\ (c # 0 => c \in g.L)
  BY DEF Place
<1>2. ASSUME NEW d \in g.L PROVE d \in g.B /\ g.al[d] = 0
  BY <1>0 DEF Listed
<1>3. b \in Nat /\ 2 * b \in Words /\ 2 * b + 1 \in Words /\ g.sz[b] \in Nat
  BY <1>0, FreeWords, ReadTags
<1>4. c # 0 => 2 * c + 1 \in Words
  BY <1>0, <1>1, <1>2, FreeWords
<1>5. LinkInWord(g, b, p) \in Words /\ LinkWord(g, LinkInWord(g, b, p))
  <2>1. CASE p = 0
    BY <1>0, <1>3, <2>1, ClassIs, IdxWords DEF LinkInWord
  <2>2. CASE p # 0
    BY <1>0, <1>1, <1>2, <2>2, FreeWords DEF LinkInWord
  <2> QED BY <2>1, <2>2
<1>p. PICK vp \in Int, vc \in Int, vb \in Int : vp = 8 * p /\ vc = 8 * c /\ vb = 8 * b
  BY <1>1, <1>3
<1>x. PICK x1 \in Words, x2 \in Words : x1 = 2 * b + 1 /\ x2 = 2 * b
  BY <1>3
<1>6. PICK h1 : h1 = Set(h, x1, vp)
  OBVIOUS
<1>7. Heap(h1, 8 * g.hi) /\ h1.mem[x1] = vp /\ \A w \in Words : w # x1 => h1.mem[w] = h.mem[w]
  <2>1. Wrote(h, h1, 8 * g.hi, x1, vp)
    BY <1>0, <1>6, SetWrites
  <2> QED BY <2>1 DEF Wrote
<1>8. PICK h2 : h2 = Set(h1, x2, vc)
  OBVIOUS
<1>9. Heap(h2, 8 * g.hi) /\ h2.mem[x2] = vc /\ \A w \in Words : w # x2 => h2.mem[w] = h1.mem[w]
  <2>1. Wrote(h1, h2, 8 * g.hi, x2, vc)
    BY <1>7, <1>8, SetWrites
  <2> QED BY <2>1 DEF Wrote
<1>10. PICK h3 : h3 = IF c # 0 THEN Set(h2, 2 * c + 1, vb) ELSE h2
  OBVIOUS
<1>11. Heap(h3, 8 * g.hi) /\ \A w \in Words : h3.mem[w] = IF c # 0 /\ w = 2 * c + 1 THEN vb ELSE h2.mem[w]
  <2>1. CASE c = 0
    BY <1>9, <1>10, <2>1
  <2>2. CASE c # 0
    <3>1. PICK x3 \in Words : x3 = 2 * c + 1
      BY <1>4, <2>2
    <3>2. h3 = Set(h2, x3, vb)
      BY <1>10, <2>2, <3>1
    <3>3. Heap(h3, 8 * g.hi) /\ h3.mem[x3] = vb /\ \A w \in Words : w # x3 => h3.mem[w] = h2.mem[w]
      <4>1. Wrote(h2, h3, 8 * g.hi, x3, vb)
        BY <1>9, <3>2, SetWrites
      <4> QED BY <4>1 DEF Wrote
    <3> QED BY <2>2, <3>1, <3>3
  <2> QED BY <2>1, <2>2
<1>12. PICK x4 \in Words : x4 = LinkInWord(g, b, p)
  BY <1>5
<1>13. k = Set(h3, x4, vb)
  BY <1>p, <1>x, <1>6, <1>8, <1>10, <1>12, AddIs
<1>14. Heap(k, 8 * g.hi) /\ k.mem[x4] = vb /\ \A w \in Words : w # x4 => k.mem[w] = h3.mem[w]
  <2>1. Wrote(h3, k, 8 * g.hi, x4, vb)
    BY <1>11, <1>13, SetWrites
  <2> QED BY <2>1 DEF Wrote
<1>15. ASSUME NEW w \in Words
       PROVE  k.mem[w] = IF w = x4 THEN vb ELSE IF c # 0 /\ w = 2 * c + 1 THEN vb
                         ELSE IF w = x2 THEN vc ELSE IF w = x1 THEN vp ELSE h.mem[w]
  BY <1>7, <1>9, <1>11, <1>14
<1> QED BY <1>5, <1>p, <1>x, <1>12, <1>14, <1>15

(* Adding a free block to its list, at the place that the walk of          *)
(* add_seglist found, leaves a heap in order and all allocated blocks as   *)
(* they were.                                                              *)
LEMMA EnlistOne ==
  ASSUME NEW h, NEW g, OK(h, g), NEW b \in g.B, b \notin g.L, g.al[b] = 0,
         NEW p, NEW c, Place(g, Class(g.sz[b]), p, c),
         SegPlace(h, 8 * g.sz[b]) = [prev |-> 8 * p, curr |-> 8 * c],
         NEW k, k = add_seglist(h, 8 * b, 8 * g.sz[b]), NEW u, u = Enlisted(g, b, p, c)
  PROVE  OK(k, u) /\ Keeps(h, g, k, u, Used(g))
<1>0. g \in Tables /\ Tiled(g) /\ 8 * g.hi <= MAX_HEAP /\ Listed(g) /\ Links(h.mem, g)
  BY DEF OK
<1>1. p \in Nat /\ c \in Nat /\ (p # 0 => p \in g.L) /\ (c # 0 => c \in g.L)
  BY DEF Place
<1>2. ASSUME NEW d \in g.L PROVE d \in g.B /\ g.al[d] = 0
  BY <1>0 DEF Listed
<1>3. b \in Nat /\ g.sz[b] \in Nat /\ Class(g.sz[b]) \in Idx
  BY ReadTags, ClassIs
<1>4. Enlists(g, b, p, c, u)
  BY <1>0, <1>1, <1>3, EnlistedIs
<1>5. Listed(u)
  BY <1>0, EnlistedLists
<1>6. /\ Heap(k, 8 * g.hi) /\ LinkWord(g, LinkInWord(g, b, p))
      /\ \A w \in Words : k.mem[w] =
           IF w = LinkInWord(g, b, p) THEN 8 * b
           ELSE IF c # 0 /\ w = 2 * c + 1 THEN 8 * b
           ELSE IF w = 2 * b THEN 8 * c ELSE IF w = 2 * b + 1 THEN 8 * p ELSE h.mem[w]
  BY AddWords
<1>7. Tiled(u) /\ Tags(k.mem, u) /\ Keeps(h, g, k, u, Used(g))
  <2>1. LinkWord(g, 2 * b) /\ LinkWord(g, 2 * b + 1) /\ (c # 0 => LinkWord(g, 2 * c + 1))
    BY <1>0, <1>1, <1>2, FreeWords
  <2>2. \A w \in Words : ~LinkWord(g, w) => k.mem[w] = h.mem[w]
    BY <1>6, <2>1
  <2>3. u.B = g.B /\ u.sz = g.sz /\ u.al = g.al /\ u.hi = g.hi
    BY <1>4 DEF Enlists
  <2> QED BY <2>2, <2>3, OnlyLinks
<1>8. Links(k.mem, u)
  <2>a. ASSUME NEW d \in g.L \cup {b}
        PROVE  d \in Nat /\ d >= Lo /\ d # 0 /\ 2 * d \in Words /\ 2 * d + 1 \in Words
    BY <1>0, <1>2, FreeWords, Sizes8
  <2>b. \A i \in Idx : i \in Nat /\ i \in Words /\ i < 2 * Lo - 4
    BY <1>0, IdxWords
  <2>c. Lo \in Nat
    BY Sizes8
  <2>d. p # b /\ c # b
    BY <1>1, <2>a
  <2>1. ASSUME NEW d \in u.L PROVE k.mem[2 * d] = 8 * u.pv[d] /\ k.mem[2 * d + 1] = 8 * u.nx[d]
    <3>1. d \in g.L \cup {b} /\ d \in Nat /\ d >= Lo /\ d # 0 /\ 2 * d \in Words /\ 2 * d + 1 \in Words
      BY <2>a, <1>4 DEF Enlists
    <3>2. d # b => h.mem[2 * d] = 8 * g.pv[d] /\ h.mem[2 * d + 1] = 8 * g.nx[d]
      BY <1>0, <3>1 DEF Links
    <3>3. /\ u.pv[d] = IF d = b THEN c ELSE IF d = p THEN b ELSE g.pv[d]
          /\ u.nx[d] = IF d = b THEN p ELSE IF d = c THEN b ELSE g.nx[d]
      BY <1>4, <3>1 DEF Enlists
    <3>4. 2 * d = LinkInWord(g, b, p) <=> d = p
      <4>1. CASE p = 0
        BY <1>3, <2>b, <2>c, <3>1, <4>1 DEF LinkInWord
      <4>2. CASE p # 0
        BY <1>1, <3>1, <4>2 DEF LinkInWord
      <4> QED BY <4>1, <4>2
    <3>5. 2 * d + 1 # LinkInWord(g, b, p)
      <4>1. CASE p = 0
        BY <1>3, <2>b, <2>c, <3>1, <4>1 DEF LinkInWord
      <4>2. CASE p # 0
        BY <1>1, <3>1, <4>2 DEF LinkInWord
      <4> QED BY <4>1, <4>2
    <3>6. /\ 2 * d # 2 * c + 1 /\ 2 * d # 2 * b + 1 /\ 2 * d + 1 # 2 * b
          /\ 2 * d = 2 * b <=> d = b
          /\ 2 * d + 1 = 2 * b + 1 <=> d = b
          /\ 2 * d + 1 = 2 * c + 1 <=> d = c
      BY <1>1, <1>3, <3>1
    <3>7. k.mem[2 * d] = IF d = p THEN 8 * b ELSE IF d = b THEN 8 * c ELSE h.mem[2 * d]
      BY <1>6, <3>1, <3>4, <3>6
    <3>8. k.mem[2 * d + 1] = IF d = c THEN 8 * b ELSE IF d = b THEN 8 * p ELSE h.mem[2 * d + 1]
      BY <1>6, <3>1, <3>5, <3>6
    <3> QED BY <2>d, <3>2, <3>3, <3>7, <3>8
  <2>2. ASSUME NEW i \in Idx PROVE k.mem[i] = 8 * u.hd[i]
    <3>1. i \in Nat /\ i \in Words /\ i < 2 * Lo - 4
      BY <2>b
    <3>2. h.mem[i] = 8 * g.hd[i]
      BY <1>0 DEF Links
    <3>3. u.hd[i] = IF p = 0 /\ i = Class(g.sz[b]) THEN b ELSE g.hd[i]
      BY <1>4 DEF Enlists
    <3>4. i # 2 * b /\ i # 2 * b + 1
      BY <2>a, <2>c, <3>1
    <3>5. c # 0 => i # 2 * c + 1
      BY <1>1, <2>a, <2>c, <3>1
    <3>6. i = LinkInWord(g, b, p) <=> (p = 0 /\ i = Class(g.sz[b]))
      <4>1. CASE p = 0
        BY <4>1 DEF LinkInWord
      <4>2. CASE p # 0
        BY <1>1, <2>a, <2>c, <3>1, <4>2 DEF LinkInWord
      <4> QED BY <4>1, <4>2
    <3> QED BY <1>6, <3>1, <3>2, <3>3, <3>4, <3>5, <3>6
  <2> QED BY <2>1, <2>2 DEF Links
<1>9. u \in Tables /\ u.hi = g.hi
  BY <1>4 DEF Enlists
<1> QED BY <1>0, <1>5, <1>6, <1>7, <1>8, <1>9 DEF OK

(* add_seglist puts a free block on the list of its size, at the same      *)
(* place in every heap with that table, and does nothing else.             *)
LEMMA Enlist ==
  ASSUME NEW h, NEW k, NEW g, OK(h, g), OK(k, g), NEW b \in g.B, b \notin g.L, g.al[b] = 0
  PROVE  \E u : /\ OK(add_seglist(h, 8 * b, 8 * g.sz[b]), u)
                /\ OK(add_seglist(k, 8 * b, 8 * g.sz[b]), u)
                /\ Keeps(h, g, add_seglist(h, 8 * b, 8 * g.sz[b]), u, Used(g))
                /\ u.B = g.B /\ u.sz = g.sz /\ u.al = g.al /\ u.hi = g.hi /\ u.L = g.L \cup {b}
<1>0. g \in Tables /\ Tiled(g) /\ 8 * g.hi <= MAX_HEAP
  BY DEF OK
<1>1. g.sz[b] \in Nat /\ b \in Nat
  BY ReadTags
<1>2. PICK i \in Idx : i = Class(g.sz[b]) /\ i = SegIndex(8 * g.sz[b])
  BY <1>1, ClassIs
<1>3. ASSUME NEW q, OK(q, g)
      PROVE  SegPlace(q, 8 * g.sz[b]) = SegSearch(q, 8 * g.hd[i], SegKey(8 * g.sz[b]))
  <2>1. i \in Int /\ (i * WSIZE) \div 4 = i
    BY <1>0, <1>2, IdxWords DEF WSIZE
  <2>2. q.mem[i] = 8 * g.hd[i]
    BY <1>3 DEF OK, Links
  <2>3. GET_SEG_LIST_PTR(q, i) = 8 * g.hd[i]
    BY <2>1, <2>2 DEF GET_SEG_LIST_PTR, GET, WSIZE
  <2> QED BY <1>2, <2>3 DEF SegPlace
<1>4. PICK key : key = SegKey(8 * g.sz[b])
  OBVIOUS
<1>5. PICK p \in Nat, c \in Nat :
        /\ SegSearch(h, 8 * g.hd[i], key) = [prev |-> 8 * p, curr |-> 8 * c]
        /\ SegSearch(k, 8 * g.hd[i], key) = [prev |-> 8 * p, curr |-> 8 * c]
        /\ Place(g, i, p, c)
  <2>1. Finds(h, k, g, i, key)
    BY SearchIs
  <2> QED BY <2>1 DEF Finds
<1>6. PICK u : u = Enlisted(g, b, p, c)
  OBVIOUS
<1>7. /\ SegPlace(h, 8 * g.sz[b]) = [prev |-> 8 * p, curr |-> 8 * c]
      /\ SegPlace(k, 8 * g.sz[b]) = [prev |-> 8 * p, curr |-> 8 * c]
      /\ Place(g, Class(g.sz[b]), p, c)
  BY <1>2, <1>3, <1>4, <1>5
<1>8. OK(add_seglist(h, 8 * b, 8 * g.sz[b]), u) /\ Keeps(h, g, add_seglist(h, 8 * b, 8 * g.sz[b]), u, Used(g))
  BY <1>6, <1>7, EnlistOne
<1>9. OK(add_seglist(k, 8 * b, 8 * g.sz[b]), u)
  BY <1>6, <1>7, EnlistOne
<1>10. Enlists(g, b, p, c, u)
  BY <1>0, <1>1, <1>6, EnlistedIs
<1>11. u.B = g.B /\ u.sz = g.sz /\ u.al = g.al /\ u.hi = g.hi /\ u.L = g.L \cup {b}
  BY <1>10 DEF Enlists
<1> QED BY <1>8, <1>9, <1>11

-----------------------------------------------------------------------------
(* The table when the blocks of N, with sizes s and bits a, take the place *)
(* of the blocks between u and v, none of which is on a list.  The area    *)
(* may also lie behind the end of the heap, and e is the end afterwards.   *)
Between(g, u, v) == {b \in g.B : u <= b /\ b < v}

Retiled(g, N, s, a, u, v, e) ==
  [B  |-> (g.B \ Between(g, u, v)) \cup N, sz |-> s, al |-> a, hi |-> e,
   L  |-> g.L, pv |-> g.pv, nx |-> g.nx, hd |-> g.hd, rk |-> g.rk]

(* The blocks of N fill the area from u to v. *)
Fills(N, s, u, v) ==
  /\ N \subseteq Nat /\ u \in Nat /\ v \in Nat /\ u < v /\ u \in N
  /\ \A b \in N : u <= b /\ s[b] >= 2 /\ b + s[b] <= v /\ b + s[b] \in N \cup {v}
  /\ \A b \in N \cup {v} : b = u \/ \E c \in N : c + s[c] = b
  /\ \A b, c \in N : b < c => b + s[b] <= c

Area(g, N, s, a, u, v, e) ==
  /\ Fills(N, s, u, v)
  /\ s \in [Nat -> Nat] /\ a \in [Nat -> {0, 1}] /\ e \in Nat /\ 8 * e <= MAX_HEAP
  /\ \A b \in Nat : b \notin N => s[b] = g.sz[b] /\ a[b] = g.al[b]
  /\ \A b \in g.L : ~(u <= b /\ b < v)
  /\ \/ u \in g.B /\ v \in g.B \cup {g.hi} /\ e = g.hi
     \/ u = g.hi /\ v = e

(* What the fields of the retiled table are. *)
LEMMA RetiledIs ==
  ASSUME NEW g \in Tables, NEW N, NEW s, NEW a, NEW u, NEW v, NEW e, Area(g, N, s, a, u, v, e),
         NEW q, q = Retiled(g, N, s, a, u, v, e)
  PROVE  /\ q \in Tables
         /\ q.B = (g.B \ Between(g, u, v)) \cup N /\ q.sz = s /\ q.al = a /\ q.hi = e
         /\ q.L = g.L /\ q.pv = g.pv /\ q.nx = g.nx /\ q.hd = g.hd /\ q.rk = g.rk
<1>1. (g.B \ Between(g, u, v)) \cup N \in SUBSET Nat
  BY Fields DEF Area, Fills, Between
<1>2. q \in Tables
  BY <1>1, Fields DEF Tables, Retiled, Area
<1> QED BY <1>2 DEF Retiled

(* The heap before, as far as the new blocks are concerned. *)
LEMMA AroundArea ==
  ASSUME NEW g \in Tables, Tiled(g), NEW N, NEW s, NEW a, NEW u, NEW v, NEW e, Area(g, N, s, a, u, v, e)
  PROVE  /\ u \in Nat /\ v \in Nat /\ e \in Nat /\ g.hi \in Nat /\ Lo \in Nat /\ u < v
         /\ Lo <= u /\ v <= e /\ g.hi <= e
         /\ \A b \in g.B \ Between(g, u, v) :
              /\ b \in Nat /\ g.sz[b] \in Nat /\ s[b] = g.sz[b] /\ a[b] = g.al[b] /\ b \notin N
              /\ g.sz[b] >= 2 /\ b >= Lo /\ b + g.sz[b] <= e
              /\ b + g.sz[b] <= u \/ v <= b
         /\ \A b \in N : b \in Nat /\ s[b] \in Nat /\ s[b] >= 2 /\ b >= u /\ b + s[b] <= v
<1>1. u \in Nat /\ v \in Nat /\ e \in Nat /\ g.hi \in Nat /\ Lo \in Nat /\ u < v
  BY Fields, Sizes8 DEF Area, Fills
<1>2. Lo <= u /\ v <= e /\ g.hi <= e
  <2>1. CASE u \in g.B /\ v \in g.B \cup {g.hi} /\ e = g.hi
    <3>1. v <= e
      <4>1. CASE v \in g.B
        <5>1. v + g.sz[v] <= g.hi /\ g.sz[v] \in Nat
          BY <1>1, <4>1, Fields DEF Tiled
        <5> QED BY <1>1, <2>1, <5>1
      <4>2. CASE v = g.hi
        BY <1>1, <2>1, <4>2
      <4> QED BY <2>1, <4>1, <4>2
    <3> QED BY <1>1, <2>1, <3>1 DEF Tiled
  <2>2. CASE u = g.hi /\ v = e
    BY <1>1, <2>2 DEF Tiled
  <2> QED BY <2>1, <2>2 DEF Area
<1>3. ASSUME NEW b \in g.B \ Between(g, u, v)
      PROVE  /\ b \in Nat /\ g.sz[b] \in Nat /\ s[b] = g.sz[b] /\ a[b] = g.al[b] /\ b \notin N
             /\ g.sz[b] >= 2 /\ b >= Lo /\ b + g.sz[b] <= e
             /\ b + g.sz[b] <= u \/ v <= b
  <2>1. b \in g.B /\ b \in Nat /\ g.sz[b] \in Nat /\ g.sz[b] >= 2 /\ b >= Lo /\ b + g.sz[b] <= g.hi
    BY Fields DEF Tiled
  <2>2. b < u \/ v <= b
    BY <1>1, <2>1 DEF Between
  <2>3. b \notin N
    <3>1. b \in N => u <= b /\ s[b] >= 2 /\ b + s[b] <= v /\ s[b] \in Nat
      BY <2>1 DEF Area, Fills
    <3> QED BY <1>1, <2>1, <2>2, <3>1
  <2>4. s[b] = g.sz[b] /\ a[b] = g.al[b]
    BY <2>1, <2>3 DEF Area
  <2>5. b < u => b + g.sz[b] <= u
    <3>1. CASE u \in g.B
      BY <2>1, <3>1 DEF Tiled
    <3>2. CASE u = g.hi
      BY <2>1, <3>2
    <3> QED BY <3>1, <3>2 DEF Area
  <2> QED BY <1>1, <1>2, <2>1, <2>2, <2>3, <2>4, <2>5
<1>4. ASSUME NEW b \in N
      PROVE  b \in Nat /\ s[b] \in Nat /\ s[b] >= 2 /\ b >= u /\ b + s[b] <= v
  <2>1. b \in Nat /\ s[b] \in Nat
    BY DEF Area, Fills
  <2> QED BY <1>1, <2>1 DEF Area, Fills
<1> QED BY <1>1, <1>2, <1>3, <1>4

(* The new blocks lie one behind the other, too. *)
LEMMA RetiledTiles ==
  ASSUME NEW g \in Tables, Tiled(g), NEW N, NEW s, NEW a, NEW u, NEW v, NEW e, Area(g, N, s, a, u, v, e),
         NEW q, q = Retiled(g, N, s, a, u, v, e)
  PROVE  Tiled(q)
<1> DEFINE R == g.B \ Between(g, u, v)
<1>0. q.B = R \cup N /\ q.sz = s /\ q.hi = e
  BY RetiledIs
<1>1. /\ u \in Nat /\ v \in Nat /\ e \in Nat /\ g.hi \in Nat /\ Lo \in Nat /\ u < v
      /\ Lo <= u /\ v <= e /\ g.hi <= e
      /\ \A b \in R :
           /\ b \in Nat /\ g.sz[b] \in Nat /\ s[b] = g.sz[b] /\ b \notin N
           /\ g.sz[b] >= 2 /\ b >= Lo /\ b + g.sz[b] <= e
           /\ b + g.sz[b] <= u \/ v <= b
      /\ \A b \in N : b \in Nat /\ s[b] \in Nat /\ s[b] >= 2 /\ b >= u /\ b + s[b] <= v
  BY AroundArea
<1>2. /\ u \in N /\ \A b \in N : b + s[b] \in N \cup {v}
      /\ \A b \in N \cup {v} : b = u \/ \E c \in N : c + s[c] = b
      /\ \A b, c \in N : b < c => b + s[b] <= c
  BY DEF Area, Fills
<1>3. \/ u \in g.B /\ v \in g.B \cup {g.hi} /\ e = g.hi
      \/ u = g.hi /\ v = e
  BY DEF Area
<1>4. ASSUME NEW b \in g.B
      PROVE  b \in Nat /\ b >= Lo /\ b < g.hi /\ (b \in R \/ (u <= b /\ b < v)) /\ (b < u \/ v <= b => b \in R)
             /\ g.sz[b] \in Nat /\ g.sz[b] >= 2 /\ b + g.sz[b] <= g.hi
  <2>1. b \in Nat /\ b >= Lo /\ g.sz[b] \in Nat /\ g.sz[b] >= 2 /\ b + g.sz[b] <= g.hi
    BY Fields DEF Tiled
  <2> QED BY <1>1, <2>1 DEF Between
<1>5. v \in R \cup {e}
  BY <1>1, <1>3, <1>4
<1>6. \E c \in N : c + s[c] = v
  BY <1>1, <1>2
<1>7. R \subseteq g.B
  OBVIOUS
<1> HIDE DEF R
<1>a. Lo \in R \cup N \cup {e}
  <2>1. CASE Lo \in g.B
    BY <1>1, <1>2, <1>4, <2>1
  <2>2. CASE Lo \notin g.B
    <3>1. Lo = g.hi
      BY <2>2 DEF Tiled
    <3> QED BY <1>1, <1>2, <1>3, <1>4, <3>1
  <2> QED BY <2>1, <2>2
<1>b. \A b \in R \cup N : Lo <= b /\ s[b] >= 2 /\ b + s[b] <= e
  BY <1>1
<1>c. ASSUME NEW b \in R \cup N PROVE b + s[b] \in R \cup N \cup {e}
  <2>1. CASE b \in N
    BY <1>2, <1>5, <2>1
  <2>2. CASE b \in R
    <3>1. PICK x \in Nat : x = b + s[b] /\ x = b + g.sz[b]
      BY <1>1, <2>2
    <3>2. x \in g.B \cup {g.hi}
      BY <1>7, <2>2, <3>1 DEF Tiled
    <3>3. x <= u \/ (v <= b /\ v < x)
      BY <1>1, <2>2, <3>1
    <3>4. CASE x \in g.B
      BY <1>1, <1>2, <1>4, <3>1, <3>3, <3>4
    <3>5. CASE x = g.hi
      <4>1. CASE x <= u
        <5>1. u = g.hi
          BY <1>1, <1>3, <1>4, <3>5, <4>1
        <5> QED BY <1>2, <3>1, <3>5, <5>1
      <4>2. CASE v < x
        BY <1>1, <1>3, <3>1, <3>5, <4>2
      <4> QED BY <3>3, <4>1, <4>2
    <3> QED BY <3>2, <3>4, <3>5
  <2> QED BY <2>1, <2>2
<1>d. ASSUME NEW b \in R \cup N \cup {e}, b # Lo PROVE \E c \in R \cup N : c + s[c] = b
  <2>0. ASSUME NEW x \in g.B \cup {g.hi}, x # Lo, x <= u \/ v < x
        PROVE  \E c \in R : c + s[c] = x
    <3>1. PICK c \in g.B : c + g.sz[c] = x
      BY <2>0 DEF Tiled
    <3>2. c \in Nat /\ g.sz[c] \in Nat /\ g.sz[c] >= 2 /\ x \in Nat
      BY <1>4, <3>1
    <3>3. c \in R
      <4>1. CASE x <= u
        BY <1>1, <1>4, <3>1, <3>2, <4>1
      <4>2. CASE v < x
        <5> SUFFICES ASSUME c < v PROVE FALSE
          BY <1>1, <1>4, <3>2
        <5>1. CASE v \in g.B
          <6>1. c + g.sz[c] <= v
            BY <5>1 DEF Tiled
          <6> QED BY <1>1, <3>1, <3>2, <4>2, <6>1
        <5>2. CASE v \notin g.B
          <6>1. v >= g.hi
            BY <1>1, <1>3, <5>2
          <6>2. x <= g.hi
            BY <1>4, <3>1
          <6> QED BY <1>1, <3>2, <4>2, <6>1, <6>2
        <5> QED BY <5>1, <5>2
      <4> QED BY <2>0, <4>1, <4>2
    <3>4. s[c] = g.sz[c]
      BY <1>1, <3>3
    <3> QED BY <3>1, <3>3, <3>4
  <2>1. CASE b = u
    <3>1. u \in g.B \cup {g.hi}
      BY <1>3
    <3> QED BY <1>1, <1>d, <2>0, <2>1, <3>1
  <2>2. CASE b = v
    BY <1>6, <2>2
  <2>3. CASE b \in N /\ b # u
    BY <1>2, <2>3
  <2>4. CASE b \in R /\ b # u /\ b # v
    <3>1. b \in g.B /\ (b <= u \/ v < b)
      BY <1>1, <1>7, <2>4
    <3> QED BY <1>d, <2>0, <3>1
  <2>5. CASE b = e /\ b # v
    <3>1. e = g.hi /\ v < e
      BY <1>1, <1>3, <2>5
    <3> QED BY <1>d, <2>0, <2>5, <3>1
  <2> QED BY <1>d, <2>1, <2>2, <2>3, <2>4, <2>5
<1>e. ASSUME NEW b \in R \cup N, NEW c \in R \cup N, b < c PROVE b + s[b] <= c
  <2>1. CASE b \in R /\ c \in R
    <3>1. b + g.sz[b] <= c
      BY <1>7, <1>e, <2>1 DEF Tiled
    <3> QED BY <1>1, <2>1, <3>1
  <2>2. CASE b \in N /\ c \in N
    BY <1>2, <1>e, <2>2
  <2>3. CASE b \in R /\ c \in N
    BY <1>1, <1>e, <2>3
  <2>4. CASE b \in N /\ c \in R
    BY <1>1, <1>e, <2>4
  <2> QED BY <2>1, <2>2, <2>3, <2>4
<1>f. Lo <= e
  BY <1>1
<1> QED BY <1>0, <1>a, <1>b, <1>c, <1>d, <1>e, <1>f DEF Tiled

-----------------------------------------------------------------------------
(* The lists do not notice. *)
LEMMA RetiledLists ==
  ASSUME NEW g \in Tables, Tiled(g), Listed(g), NEW N, NEW s, NEW a, NEW u, NEW v, NEW e,
         Area(g, N, s, a, u, v, e), NEW q, q = Retiled(g, N, s, a, u, v, e)
  PROVE  Listed(q) /\ \A b \in g.L : b \in g.B \ Between(g, u, v)
<1>0. /\ q.B = (g.B \ Between(g, u, v)) \cup N /\ q.sz = s /\ q.al = a
      /\ q.L = g.L /\ q.pv = g.pv /\ q.nx = g.nx /\ q.hd = g.hd /\ q.rk = g.rk
  BY RetiledIs
<1>1. ASSUME NEW b \in g.L
      PROVE  b \in g.B \ Between(g, u, v) /\ s[b] = g.sz[b] /\ a[b] = g.al[b]
  <2>1. b \in g.B \ Between(g, u, v)
    BY DEF Listed, Area, Between
  <2> QED BY <2>1, AroundArea
<1>2. \A b \in g.L : b \in q.B /\ q.al[b] = 0
  BY <1>0, <1>1 DEF Listed
<1>3. \A b \in g.L : g.pv[b] # 0 =>
       /\ g.pv[b] \in g.L /\ g.nx[g.pv[b]] = b
       /\ Class(s[g.pv[b]]) = Class(s[b]) /\ g.rk[g.pv[b]] < g.rk[b]
  BY <1>1 DEF Listed
<1>4. \A b \in g.L : g.nx[b] # 0 =>
       g.nx[b] \in g.L /\ g.pv[g.nx[b]] = b /\ Class(s[g.nx[b]]) = Class(s[b])
  BY <1>1 DEF Listed
<1>5. \A b \in g.L : g.nx[b] = 0 => g.hd[Class(s[b])] = b
  BY <1>1 DEF Listed
<1>6. \A i \in Idx : g.hd[i] # 0 => g.hd[i] \in g.L /\ Class(s[g.hd[i]]) = i /\ g.nx[g.hd[i]] = 0
  BY <1>1 DEF Listed
<1>7. Listed(q)
  BY <1>0, <1>2, <1>3, <1>4, <1>5, <1>6 DEF Listed
<1> QED BY <1>1, <1>7

(* The words of the area are rewritten and the others left alone. *)
Rewrites(h, h2, N, s, a, u, v, e) ==
  /\ Heap(h2, 8 * e) /\ h2.mem[2 * e - 1] = 1
  /\ \A w \in Words : w < 2 * u - 1 \/ (w > 2 * v - 2 /\ w # 2 * e - 1) => h2.mem[w] = h.mem[w]
  /\ \A b \in N : h2.mem[2 * b - 1] = 8 * s[b] + a[b] /\ h2.mem[2 * (b + s[b]) - 2] = 8 * s[b] + a[b]

(* Whatever writes the tags of new blocks over an area of unlisted blocks  *)
(* leaves a heap in order, with the allocated blocks outside untouched.    *)
LEMMA Retile ==
  ASSUME NEW h, NEW g, OK(h, g), NEW N, NEW s, NEW a, NEW u, NEW v, NEW e,
         Area(g, N, s, a, u, v, e), NEW h2, Rewrites(h, h2, N, s, a, u, v, e),
         NEW q, q = Retiled(g, N, s, a, u, v, e)
  PROVE  OK(h2, q) /\ Keeps(h, g, h2, q, Used(g) \ Between(g, u, v))
<1>0. g \in Tables /\ Tiled(g) /\ 8 * g.hi <= MAX_HEAP /\ Listed(g) /\ Tags(h.mem, g) /\ Links(h.mem, g)
  BY DEF OK
<1>1. /\ q \in Tables
      /\ q.B = (g.B \ Between(g, u, v)) \cup N /\ q.sz = s /\ q.al = a /\ q.hi = e
      /\ q.L = g.L /\ q.pv = g.pv /\ q.nx = g.nx /\ q.hd = g.hd
  BY <1>0, RetiledIs
<1>2. /\ u \in Nat /\ v \in Nat /\ e \in Nat /\ g.hi \in Nat /\ Lo \in Nat /\ u < v
      /\ Lo <= u /\ v <= e /\ g.hi <= e
      /\ \A b \in g.B \ Between(g, u, v) :
           /\ b \in Nat /\ g.sz[b] \in Nat /\ s[b] = g.sz[b] /\ a[b] = g.al[b] /\ b \notin N
           /\ g.sz[b] >= 2 /\ b >= Lo /\ b + g.sz[b] <= e
           /\ b + g.sz[b] <= u \/ v <= b
  BY <1>0, AroundArea
<1>3. 8 * e <= MAX_HEAP
  BY DEF Area
<1>4. ASSUME NEW w \in Nat, w < 2 * u - 1 \/ (w > 2 * v - 2 /\ w < 2 * e - 1)
      PROVE  w \in Words /\ h2.mem[w] = h.mem[w]
  <2>1. 4 * w < MAX_HEAP /\ w # 2 * e - 1
    BY <1>2, <1>3, <1>4, Sizes8
  <2>2. w \in Words
    BY <2>1, IsWord
  <2> QED BY <1>4, <2>1, <2>2 DEF Rewrites
<1>5. ASSUME NEW b \in g.B \ Between(g, u, v), NEW w \in Nat, w >= 2 * b - 1, w <= 2 * (b + g.sz[b]) - 2
      PROVE  h2.mem[w] = h.mem[w]
  <2>1. b \in Nat /\ g.sz[b] \in Nat /\ b + g.sz[b] <= e /\ (b + g.sz[b] <= u \/ v <= b)
    BY <1>2
  <2>2. w < 2 * u - 1 \/ (w > 2 * v - 2 /\ w < 2 * e - 1)
    BY <1>2, <1>5, <2>1
  <2> QED BY <1>4, <2>2
<1>6. Tags(h2.mem, q)
  <2>1. ASSUME NEW b \in q.B
        PROVE  h2.mem[2 * b - 1] = 8 * s[b] + a[b] /\ h2.mem[2 * (b + s[b]) - 2] = 8 * s[b] + a[b]
    <3>1. CASE b \in N
      BY <3>1 DEF Rewrites
    <3>2. CASE b \notin N
      <4>1. b \in g.B \ Between(g, u, v)
        BY <1>1, <3>2
      <4>2. b \in Nat /\ g.sz[b] \in Nat /\ s[b] = g.sz[b] /\ a[b] = g.al[b] /\ b >= 3 /\ g.sz[b] >= 2
        BY <1>2, <4>1, Sizes8
      <4>3. h.mem[2 * b - 1] = 8 * g.sz[b] + g.al[b] /\ h.mem[2 * (b + g.sz[b]) - 2] = 8 * g.sz[b] + g.al[b]
        BY <1>0, <4>1 DEF Tags
      <4>4. PICK x \in Nat, y \in Nat : x = 2 * b - 1 /\ y = 2 * (b + g.sz[b]) - 2
        BY <4>2
      <4>5. x >= 2 * b - 1 /\ x <= 2 * (b + g.sz[b]) - 2 /\ y >= 2 * b - 1 /\ y <= 2 * (b + g.sz[b]) - 2
        BY <4>2, <4>4
      <4>6. h2.mem[x] = h.mem[x] /\ h2.mem[y] = h.mem[y]
        BY <1>5, <4>1, <4>5
      <4> QED BY <4>2, <4>3, <4>4, <4>6
    <3> QED BY <3>1, <3>2
  <2>2. ASSUME NEW w \in {SEG_SIZE, 2 * Lo - 3, 2 * Lo - 2}
        PROVE  h2.mem[w] = h.mem[w]
    <3>1. w \in Nat /\ w < 2 * u - 1
      BY <1>2, Sizes8
    <3> QED BY <1>4, <3>1
  <2>3. h2.mem[2 * e - 1] = 1
    BY DEF Rewrites
  <2> QED BY <1>0, <1>1, <2>1, <2>2, <2>3 DEF Tags
<1>7. Links(h2.mem, q)
  <2>1. ASSUME NEW b \in g.L PROVE h2.mem[2 * b] = h.mem[2 * b] /\ h2.mem[2 * b + 1] = h.mem[2 * b + 1]
    <3>1. b \in g.B \ Between(g, u, v)
      BY <1>0, RetiledLists
    <3>2. b \in Nat /\ g.sz[b] \in Nat /\ g.sz[b] >= 2
      BY <1>2, <3>1
    <3>3. PICK x \in Nat, y \in Nat : x = 2 * b /\ y = 2 * b + 1
      BY <3>2
    <3>4. x >= 2 * b - 1 /\ x <= 2 * (b + g.sz[b]) - 2 /\ y >= 2 * b - 1 /\ y <= 2 * (b + g.sz[b]) - 2
      BY <3>2, <3>3
    <3>5. h2.mem[x] = h.mem[x] /\ h2.mem[y] = h.mem[y]
      BY <1>5, <3>1, <3>4
    <3> QED BY <3>3, <3>5
  <2>2. ASSUME NEW i \in Idx PROVE h2.mem[i] = h.mem[i]
    <3>1. i \in Nat /\ i < 2 * u - 1
      BY <1>0, <1>2, IdxWords
    <3> QED BY <1>4, <3>1
  <2> QED BY <1>0, <1>1, <2>1, <2>2 DEF Links
<1>8. Tiled(q) /\ Listed(q)
  BY <1>0, RetiledTiles, RetiledLists
<1>9. OK(h2, q)
  <2>1. Heap(h2, 8 * e)
    BY DEF Rewrites
  <2> QED BY <1>1, <1>3, <1>6, <1>7, <1>8, <2>1 DEF OK
<1>10. Keeps(h, g, h2, q, Used(g) \ Between(g, u, v))
  <2> SUFFICES ASSUME NEW b \in Used(g) \ Between(g, u, v)
               PROVE  /\ b \in g.B /\ b \in q.B /\ g.al[b] = 1 /\ q.al[b] = 1 /\ q.sz[b] = g.sz[b]
                      /\ \A w \in (2 * b) .. (2 * (b + g.sz[b]) - 3) : h2.mem[w] = h.mem[w]
    BY DEF Keeps
  <2>1. b \in g.B \ Between(g, u, v) /\ g.al[b] = 1
    BY DEF Used
  <2>2. b \in Nat /\ g.sz[b] \in Nat /\ s[b] = g.sz[b] /\ a[b] = g.al[b]
    BY <1>2, <2>1
  <2>3. ASSUME NEW w \in (2 * b) .. (2 * (b + g.sz[b]) - 3) PROVE h2.mem[w] = h.mem[w]
    <3>1. w \in Nat /\ w >= 2 * b - 1 /\ w <= 2 * (b + g.sz[b]) - 2
      BY <2>2
    <3> QED BY <1>5, <2>1, <3>1
  <2> QED BY <1>1, <2>1, <2>2, <2>3
<1> QED BY <1>9, <1>10

(* A longer way keeps what both of its halves keep. *)
LEMMA KeepsOn ==
  ASSUME NEW h1, NEW g1, NEW h2, NEW g2, NEW h3, NEW g3, NEW S, NEW T,
         Keeps(h1, g1, h2, g2, S), Keeps(h2, g2, h3, g3, T), S \subseteq T
  PROVE  Keeps(h1, g1, h3, g3, S)
<1> SUFFICES ASSUME NEW b \in S
             PROVE  /\ b \in g1.B /\ b \in g3.B /\ g1.al[b] = 1 /\ g3.al[b] = 1 /\ g3.sz[b] = g1.sz[b]
                    /\ \A w \in (2 * b) .. (2 * (b + g1.sz[b]) - 3) : h3.mem[w] = h1.mem[w]
  BY DEF Keeps
<1>1. /\ b \in g1.B /\ b \in g2.B /\ g1.al[b] = 1 /\ g2.al[b] = 1 /\ g2.sz[b] = g1.sz[b]
      /\ \A w \in (2 * b) .. (2 * (b + g1.sz[b]) - 3) : h2.mem[w] = h1.mem[w]
  BY DEF Keeps
<1>2. /\ b \in g3.B /\ g3.al[b] = 1 /\ g3.sz[b] = g2.sz[b]
      /\ \A w \in (2 * b) .. (2 * (b + g2.sz[b]) - 3) : h3.mem[w] = h2.mem[w]
  BY DEF Keeps
<1> QED BY <1>1, <1>2

-----------------------------------------------------------------------------
(* PutTags writes the two tags of a block. *)
TagsPut(h, k, brk, d, t, a) ==
  /\ Heap(k, brk) /\ k.mem[2 * d - 1] = 8 * t + a /\ k.mem[2 * (d + t) - 2] = 8 * t + a
  /\ \A w \in Words : w # 2 * d - 1 /\ w # 2 * (d + t) - 2 => k.mem[w] = h.mem[w]

(* Two words, whoever writes them. *)
LEMMA TwoWrites ==
  ASSUME NEW h, NEW brk, Heap(h, brk), NEW d \in Nat, d >= 1, NEW t \in Nat, t >= 2, NEW a \in {0, 1},
         8 * (d + t) <= MAX_HEAP,
         NEW k, k = Set(Set(h, 2 * d - 1, 8 * t + a), 2 * (d + t) - 2, 8 * t + a)
  PROVE  TagsPut(h, k, brk, d, t, a)
<1>1. PICK x \in Nat, y \in Nat : x = 2 * d - 1 /\ y = 2 * (d + t) - 2
  OBVIOUS
<1>2. x \in Words /\ y \in Words /\ x # y
  <2>1. 4 * x < MAX_HEAP /\ 4 * y < MAX_HEAP /\ x # y
    BY <1>1, Sizes8
  <2> QED BY <2>1, IsWord
<1>3. PICK c \in Int : c = 8 * t + a
  OBVIOUS
<1>4. PICK h1 : h1 = Set(h, x, c)
  OBVIOUS
<1>5. Wrote(h, h1, brk, x, c)
  BY <1>2, <1>4, SetWrites
<1>6. Heap(h1, brk)
  BY <1>5 DEF Wrote
<1>7. k = Set(h1, y, c)
  BY <1>1, <1>3, <1>4
<1>8. Wrote(h1, k, brk, y, c)
  BY <1>2, <1>6, <1>7, SetWrites
<1>9. Heap(k, brk) /\ k.mem[x] = c /\ k.mem[y] = c /\ \A w \in Words : w # x /\ w # y => k.mem[w] = h.mem[w]
  BY <1>2, <1>5, <1>8 DEF Wrote
<1> QED BY <1>1, <1>3, <1>9 DEF TagsPut

(* The two PUTs for header and footer do so. *)
LEMMA PutTagsPut ==
  ASSUME NEW h, NEW brk, Heap(h, brk), NEW d \in Nat, d >= 1, NEW t \in Nat, t >= 2, NEW a \in {0, 1},
         8 * (d + t) <= MAX_HEAP
  PROVE  TagsPut(h, PutTags(h, 8 * d, 8 * t, a), brk, d, t, a)
<1>1. PICK h1 : h1 = Set(h, 2 * d - 1, 8 * t + a)
  OBVIOUS
<1>2. PUT(h, HDRP(8 * d), PACK(8 * t, a)) = h1
  BY <1>1, WordAt DEF PUT, HDRP, PACK, Set, WSIZE
<1>3. PICK x \in Words : x = 2 * d - 1
  <2>1. PICK x \in Nat : x = 2 * d - 1
    OBVIOUS
  <2>2. 4 * x < MAX_HEAP
    BY <2>1, Sizes8
  <2> QED BY <2>1, <2>2, IsWord
<1>4. PICK c \in Int : c = 8 * t + a
  OBVIOUS
<1>5. Wrote(h, h1, brk, x, c)
  BY <1>1, <1>3, <1>4, SetWrites
<1>6. h1.mem[2 * d - 1] = 8 * t + a
  BY <1>3, <1>4, <1>5 DEF Wrote
<1>7. FTRP(h1, 8 * d) = 8 * (d + t) - 8
  BY <1>6, Reads
<1>8. PICK e \in Nat : e = d + t
  OBVIOUS
<1>9. PUT(h1, 8 * e - 8, PACK(8 * t, a)) = Set(h1, 2 * e - 2, 8 * t + a)
  BY WordAt DEF PUT, PACK, Set, WSIZE
<1>10. PutTags(h, 8 * d, 8 * t, a) = Set(h1, 2 * (d + t) - 2, 8 * t + a)
  BY <1>2, <1>7, <1>8, <1>9 DEF PutTags, PutFooter
<1> QED BY <1>1, <1>10, TwoWrites

(* An area becomes one block. *)
One(g, u, v, x) ==
  Retiled(g, {u}, [b \in Nat |-> IF b = u THEN v - u ELSE g.sz[b]],
          [b \in Nat |-> IF b = u THEN x ELSE g.al[b]], u, v, g.hi)

(* It may, if none of its blocks is on a list. *)
Clear(g, u, v) ==
  /\ u \in g.B /\ v \in g.B \cup {g.hi} /\ u < v /\ \A b \in g.L : ~(u <= b /\ b < v)

(* A clear area is at least a minimal block, and inside the heap. *)
LEMMA ClearIs ==
  ASSUME NEW g \in Tables, Tiled(g), NEW u, NEW v, Clear(g, u, v)
  PROVE  /\ u \in Nat /\ v \in Nat /\ g.hi \in Nat /\ v >= u + 2 /\ v <= g.hi /\ u >= Lo /\ Lo >= 3 /\ Lo \in Nat
         /\ u + g.sz[u] <= v /\ g.sz[u] \in Nat /\ g.sz[u] >= 2
<1>1. u \in Nat /\ g.hi \in Nat /\ g.sz[u] \in Nat /\ g.sz[u] >= 2 /\ u >= Lo /\ Lo >= 3 /\ Lo \in Nat /\ u + g.sz[u] <= g.hi
  BY Fields, Sizes8 DEF Tiled, Clear
<1>2. v \in Nat /\ v <= g.hi
  <2>1. CASE v \in g.B
    <3>1. v \in Nat /\ g.sz[v] \in Nat /\ v + g.sz[v] <= g.hi
      BY <2>1, Fields DEF Tiled
    <3> QED BY <1>1, <3>1
  <2>2. CASE v = g.hi
    BY <1>1, <2>2
  <2> QED BY <2>1, <2>2 DEF Clear
<1>3. u + g.sz[u] <= v
  BY <1>1, <1>2 DEF Tiled, Clear
<1> QED BY <1>1, <1>2, <1>3

(* What its fields are then. *)
Joins(g, u, v, x, q) ==
  /\ q.B = (g.B \ Between(g, u, v)) \cup {u} /\ q.sz[u] = v - u /\ q.al[u] = x /\ q.hi = g.hi /\ q.L = g.L
  /\ \A b \in Nat : b # u => q.sz[b] = g.sz[b] /\ q.al[b] = g.al[b]

(* The tags of one block over a clear area make the area that block. *)
LEMMA OneBlock ==
  ASSUME NEW h, NEW g, OK(h, g), NEW u, NEW v, Clear(g, u, v), NEW x \in {0, 1},
         NEW h2, TagsPut(h, h2, 8 * g.hi, u, v - u, x), NEW q, q = One(g, u, v, x)
  PROVE  OK(h2, q) /\ Keeps(h, g, h2, q, Used(g) \ Between(g, u, v)) /\ Joins(g, u, v, x, q)
<1>0. g \in Tables /\ Tiled(g) /\ 8 * g.hi <= MAX_HEAP /\ Tags(h.mem, g) /\ Heap(h, 8 * g.hi)
  BY DEF OK
<1>1. u \in Nat /\ v \in Nat /\ g.hi \in Nat /\ v >= u + 2 /\ v <= g.hi /\ u >= Lo /\ Lo >= 3 /\ Lo \in Nat
  BY <1>0, ClearIs
<1>s. PICK s : s = [b \in Nat |-> IF b = u THEN v - u ELSE g.sz[b]]
  OBVIOUS
<1>a. PICK a : a = [b \in Nat |-> IF b = u THEN x ELSE g.al[b]]
  OBVIOUS
<1>2. s \in [Nat -> Nat] /\ a \in [Nat -> {0, 1}] /\ s[u] = v - u /\ a[u] = x
      /\ \A b \in Nat : b # u => s[b] = g.sz[b] /\ a[b] = g.al[b]
  <2>1. \A b \in Nat : g.sz[b] \in Nat /\ g.al[b] \in {0, 1}
    BY <1>0, Fields
  <2>2. v - u \in Nat
    BY <1>1
  <2> QED BY <1>1, <1>s, <1>a, <2>1, <2>2
<1>3. Fills({u}, s, u, v)
  <2>1. u + s[u] = v /\ s[u] >= 2
    BY <1>1, <1>2
  <2> QED BY <1>1, <2>1 DEF Fills
<1>4. Area(g, {u}, s, a, u, v, g.hi)
  BY <1>0, <1>1, <1>2, <1>3 DEF Area, Clear
<1>5. q = Retiled(g, {u}, s, a, u, v, g.hi)
  BY <1>s, <1>a DEF One
<1>6. Rewrites(h, h2, {u}, s, a, u, v, g.hi)
  <2>1. /\ Heap(h2, 8 * g.hi) /\ h2.mem[2 * u - 1] = 8 * (v - u) + x /\ h2.mem[2 * (u + (v - u)) - 2] = 8 * (v - u) + x
        /\ \A w \in Words : w # 2 * u - 1 /\ w # 2 * (u + (v - u)) - 2 => h2.mem[w] = h.mem[w]
    BY DEF TagsPut
  <2>2. 2 * (u + (v - u)) - 2 = 2 * v - 2
    BY <1>1
  <2>3. h2.mem[2 * g.hi - 1] = 1
    <3>1. PICK z \in Nat : z = 2 * g.hi - 1
      BY <1>1
    <3>2. z \in Words
      <4>1. 4 * z < MAX_HEAP
        BY <1>0, <1>1, <3>1, Sizes8
      <4> QED BY <4>1, IsWord
    <3>3. z # 2 * u - 1 /\ z # 2 * v - 2
      BY <1>1, <3>1
    <3>4. h.mem[z] = 1
      BY <1>0, <3>1 DEF Tags
    <3> QED BY <2>1, <2>2, <3>1, <3>2, <3>3, <3>4
  <2>4. ASSUME NEW w \in Words, w < 2 * u - 1 \/ (w > 2 * v - 2 /\ w # 2 * g.hi - 1) PROVE h2.mem[w] = h.mem[w]
    <3>1. w \in Int
      BY Sizes8 DEF Words, WSIZE
    <3> QED BY <1>1, <2>1, <2>2, <2>4, <3>1
  <2> QED BY <1>2, <2>1, <2>3, <2>4 DEF Rewrites
<1>7. OK(h2, q) /\ Keeps(h, g, h2, q, Used(g) \ Between(g, u, v))
  BY <1>4, <1>5, <1>6, Retile
<1>8. q.B = (g.B \ Between(g, u, v)) \cup {u} /\ q.sz = s /\ q.al = a /\ q.hi = g.hi /\ q.L = g.L
  BY <1>0, <1>4, <1>5, RetiledIs
<1>9. Joins(g, u, v, x, q)
  BY <1>2, <1>8 DEF Joins
<1> QED BY <1>7, <1>9

-----------------------------------------------------------------------------
(* What is kept is allocated. *)
LEMMA KeepsUsed ==
  ASSUME NEW h, NEW g, NEW h2, NEW g2, NEW S, Keeps(h, g, h2, g2, S)
  PROVE  S \subseteq Used(g) /\ S \subseteq Used(g2)
  BY DEF Keeps, Used

(* Two heaps come to h2 and k2, both with the table g2 in which every free *)
(* block is listed, and the first keeps the allocated blocks of S.         *)
Comes(h, g, h2, k2, g2, S) ==
  OK(h2, g2) /\ OK(k2, g2) /\ Full(g2) /\ Keeps(h, g, h2, g2, S)

(* The unlisted free blocks of an area are merged to one listed block. *)
LEMMA MergeArea ==
  ASSUME NEW h, NEW k, NEW g, OK(h, g), OK(k, g), NEW u, NEW v, Clear(g, u, v),
         \A b \in g.B : u <= b /\ b < v => g.al[b] = 0,
         \A b \in g.B : g.al[b] = 0 /\ ~(u <= b /\ b < v) => b \in g.L
  PROVE  /\ Merged(h, 8 * u, 8 * u - 4, 8 * v - 8, 8 * (v - u)).p = 8 * u
         /\ \E g2 : /\ Comes(h, g, Merged(h, 8 * u, 8 * u - 4, 8 * v - 8, 8 * (v - u)).h,
                             Merged(k, 8 * u, 8 * u - 4, 8 * v - 8, 8 * (v - u)).h, g2, Used(g))
                    /\ u \in g2.L /\ g2.sz[u] = v - u /\ g2.hi = g.hi
<1>0. g \in Tables /\ Tiled(g) /\ 8 * g.hi <= MAX_HEAP
  BY DEF OK
<1>1. u \in Nat /\ v \in Nat /\ g.hi \in Nat /\ v >= u + 2 /\ v <= g.hi /\ u >= 3 /\ g.hi \in Nat
  BY <1>0, ClearIs
<1>2. PICK t \in Nat : t = v - u
  BY <1>1
<1> DEFINE P(q) == PUT(PUT(q, 8 * u - 4, PACK(8 * t, 0)), 8 * v - 8, PACK(8 * t, 0))
<1>3. ASSUME NEW q, OK(q, g)
      PROVE  TagsPut(q, P(q), 8 * g.hi, u, v - u, 0)
  <2>1. P(q) = Set(Set(q, 2 * u - 1, 8 * t + 0), 2 * (u + t) - 2, 8 * t + 0)
    <3>1. PUT(q, 8 * u - 4, PACK(8 * t, 0)) = Set(q, 2 * u - 1, 8 * t + 0)
      BY <1>1, WordAt DEF PUT, PACK, Set, WSIZE
    <3>2. \A r : PUT(r, 8 * v - 8, PACK(8 * t, 0)) = Set(r, 2 * v - 2, 8 * t + 0)
      BY <1>1, WordAt DEF PUT, PACK, Set, WSIZE
    <3>3. 2 * (u + t) - 2 = 2 * v - 2
      BY <1>1, <1>2
    <3> QED BY <3>1, <3>2, <3>3
  <2>2. Heap(q, 8 * g.hi) /\ 8 * (u + t) <= MAX_HEAP /\ t >= 2
    BY <1>0, <1>1, <1>2, <1>3, Sizes8 DEF OK
  <2> HIDE DEF P
  <2>3. TagsPut(q, P(q), 8 * g.hi, u, t, 0)
    BY <1>1, <2>1, <2>2, TwoWrites
  <2> QED BY <1>2, <2>3
<1>4. \A q : /\ Merged(q, 8 * u, 8 * u - 4, 8 * v - 8, 8 * (v - u)).h = add_seglist(P(q), 8 * u, 8 * t)
             /\ Merged(q, 8 * u, 8 * u - 4, 8 * v - 8, 8 * (v - u)).p = 8 * u
  BY <1>2 DEF Merged
<1> HIDE DEF P
<1>5. PICK o : o = One(g, u, v, 0)
  OBVIOUS
<1>h. PICK h1 : h1 = P(h)
  OBVIOUS
<1>k. PICK k1 : k1 = P(k)
  OBVIOUS
<1>6h. TagsPut(h, h1, 8 * g.hi, u, v - u, 0)
  BY <1>3, <1>h
<1>6k. TagsPut(k, k1, 8 * g.hi, u, v - u, 0)
  BY <1>3, <1>k
<1>6a. OK(k1, o)
  BY <1>5, <1>6k, OneBlock
<1>6. /\ OK(h1, o) /\ Keeps(h, g, h1, o, Used(g) \ Between(g, u, v))
      /\ o.B = (g.B \ Between(g, u, v)) \cup {u} /\ o.sz[u] = v - u /\ o.al[u] = 0 /\ o.hi = g.hi /\ o.L = g.L
      /\ \A b \in Nat : b # u => o.sz[b] = g.sz[b] /\ o.al[b] = g.al[b]
  <2>1. OK(h1, o) /\ Keeps(h, g, h1, o, Used(g) \ Between(g, u, v)) /\ Joins(g, u, v, 0, o)
    BY <1>5, <1>6h, OneBlock
  <2> QED BY <2>1 DEF Joins
<1>7. Used(g) \ Between(g, u, v) = Used(g)
  BY DEF Used, Between
<1>8. u \in o.B /\ u \notin o.L /\ o.al[u] = 0 /\ o.sz[u] = t
  BY <1>1, <1>2, <1>6 DEF Clear
<1>H. PICK h2 : h2 = add_seglist(h1, 8 * u, 8 * o.sz[u])
  OBVIOUS
<1>K. PICK k2 : k2 = add_seglist(k1, 8 * u, 8 * o.sz[u])
  OBVIOUS
<1>9. PICK g2 : /\ OK(h2, g2) /\ OK(k2, g2) /\ Keeps(h1, o, h2, g2, Used(o))
                /\ g2.B = o.B /\ g2.sz = o.sz /\ g2.al = o.al /\ g2.hi = o.hi /\ g2.L = o.L \cup {u}
  BY <1>6, <1>6a, <1>8, <1>H, <1>K, Enlist
<1>10. Full(g2)
  <2> SUFFICES ASSUME NEW b \in o.B, o.al[b] = 0, b # u PROVE b \in g.L
    BY <1>6, <1>9 DEF Full
  <2>1. b \in g.B /\ ~(u <= b /\ b < v) /\ b \in Nat
    BY <1>0, <1>6, Fields DEF Between
  <2> QED BY <1>6, <2>1
<1>11. Keeps(h, g, h2, g2, Used(g))
  <2>1. Used(g) \subseteq Used(o) /\ Keeps(h, g, h1, o, Used(g))
    BY <1>6, <1>7, KeepsUsed
  <2> QED BY <1>9, <2>1, KeepsOn
<1>12. u \in g2.L /\ g2.sz[u] = v - u /\ g2.hi = g.hi
  BY <1>6, <1>9
<1>13. Comes(h, g, h2, k2, g2, Used(g))
  BY <1>9, <1>10, <1>11 DEF Comes
<1>14. /\ Merged(h, 8 * u, 8 * u - 4, 8 * v - 8, 8 * (v - u)).h = h2
       /\ Merged(k, 8 * u, 8 * u - 4, 8 * v - 8, 8 * (v - u)).h = k2
  BY <1>4, <1>8, <1>h, <1>k, <1>H, <1>K
<1> QED BY <1>4, <1>12, <1>13, <1>14

(* Taking two blocks off their lists, or three. *)
Off(g, g2, S) == g2.B = g.B /\ g2.sz = g.sz /\ g2.al = g.al /\ g2.hi = g.hi /\ g2.L = g.L \ S

(* remove_seglist of a listed block, in two heaps with one table. *)
LEMMA UnlistPair ==
  ASSUME NEW h, NEW k, NEW g, OK(h, g), OK(k, g), NEW x \in g.L
  PROVE  \E g2 : /\ OK(remove_seglist(h, 8 * x), g2) /\ OK(remove_seglist(k, 8 * x), g2)
                 /\ Off(g, g2, {x}) /\ Keeps(h, g, remove_seglist(h, 8 * x), g2, Used(g))
<1>1. g \in Tables /\ x \in Nat
  BY ReadLinks DEF OK
<1>2. PICK g2 : g2 = Unlisted(g, x)
  OBVIOUS
<1>3. Unlists(g, x, g2)
  BY <1>1, <1>2, UnlistedIs
<1>4. Off(g, g2, {x})
  BY <1>3 DEF Unlists, Off
<1>5. OK(remove_seglist(h, 8 * x), g2) /\ OK(remove_seglist(k, 8 * x), g2)
      /\ Keeps(h, g, remove_seglist(h, 8 * x), g2, Used(g))
  BY <1>2, Unlist
<1> QED BY <1>4, <1>5

(* Two blocks off their lists, as in case 2 and 3 of coalesce. *)
LEMMA UnlistTwo ==
  ASSUME NEW h, NEW k, NEW g, OK(h, g), OK(k, g), NEW x \in g.L, NEW y \in g.L, x # y,
         NEW h2, h2 = remove_seglist(remove_seglist(h, 8 * x), 8 * y),
         NEW k2, k2 = remove_seglist(remove_seglist(k, 8 * x), 8 * y)
  PROVE  \E g2 : /\ OK(h2, g2) /\ OK(k2, g2) /\ Off(g, g2, {x, y}) /\ Keeps(h, g, h2, g2, Used(g))
<1>a. PICK h1 : h1 = remove_seglist(h, 8 * x)
  OBVIOUS
<1>b. PICK k1 : k1 = remove_seglist(k, 8 * x)
  OBVIOUS
<1>1. PICK g1 : /\ OK(h1, g1) /\ OK(k1, g1) /\ Off(g, g1, {x}) /\ Keeps(h, g, h1, g1, Used(g))
  BY <1>a, <1>b, UnlistPair
<1>2. y \in g1.L
  BY <1>1 DEF Off
<1>3. PICK g2 : /\ OK(h2, g2) /\ OK(k2, g2) /\ Off(g1, g2, {y}) /\ Keeps(h1, g1, h2, g2, Used(g1))
  BY <1>a, <1>b, <1>1, <1>2, UnlistPair
<1>4. Off(g, g2, {x, y})
  BY <1>1, <1>3 DEF Off
<1>5. Keeps(h, g, h2, g2, Used(g))
  BY <1>1, <1>3, KeepsUsed, KeepsOn
<1> QED BY <1>3, <1>4, <1>5

(* Three blocks off their lists, as in case 4 of coalesce. *)
LEMMA UnlistThree ==
  ASSUME NEW h, NEW k, NEW g, OK(h, g), OK(k, g), NEW x \in g.L, NEW y \in g.L, NEW z \in g.L,
         x # y, x # z, y # z,
         NEW h2, h2 = remove_seglist(remove_seglist(remove_seglist(h, 8 * x), 8 * y), 8 * z),
         NEW k2, k2 = remove_seglist(remove_seglist(remove_seglist(k, 8 * x), 8 * y), 8 * z)
  PROVE  \E g2 : /\ OK(h2, g2) /\ OK(k2, g2) /\ Off(g, g2, {x, y, z}) /\ Keeps(h, g, h2, g2, Used(g))
<1>a. PICK h1 : h1 = remove_seglist(remove_seglist(h, 8 * x), 8 * y)
  OBVIOUS
<1>b. PICK k1 : k1 = remove_seglist(remove_seglist(k, 8 * x), 8 * y)
  OBVIOUS
<1>1. PICK g1 : /\ OK(h1, g1) /\ OK(k1, g1) /\ Off(g, g1, {x, y}) /\ Keeps(h, g, h1, g1, Used(g))
  BY <1>a, <1>b, UnlistTwo
<1>2. z \in g1.L
  BY <1>1 DEF Off
<1>3. PICK g2 : /\ OK(h2, g2) /\ OK(k2, g2) /\ Off(g1, g2, {z}) /\ Keeps(h1, g1, h2, g2, Used(g1))
  BY <1>a, <1>b, <1>1, <1>2, UnlistPair
<1>4. Off(g, g2, {x, y, z})
  BY <1>1, <1>3 DEF Off
<1>5. Keeps(h, g, h2, g2, Used(g))
  BY <1>1, <1>3, KeepsUsed, KeepsOn
<1> QED BY <1>3, <1>4, <1>5

-----------------------------------------------------------------------------
(* The neighbours of a block: the one in front, or the prologue, and the   *)
(* one behind, or the epilogue.                                            *)
LEMMA ReadNext ==
  ASSUME NEW h, NEW g, OK(h, g), NEW b \in g.B
  PROVE  /\ NEXT_BLKP(h, 8 * b) = 8 * (b + g.sz[b])
         /\ b + g.sz[b] \in g.B =>
              /\ GET_ALLOC(h, HDRP(8 * (b + g.sz[b]))) = g.al[b + g.sz[b]]
              /\ GET_BLK_SIZE(h, 8 * (b + g.sz[b])) = 8 * g.sz[b + g.sz[b]]
         /\ b + g.sz[b] \notin g.B =>
              /\ GET_ALLOC(h, HDRP(8 * (b + g.sz[b]))) = 1
              /\ GET_BLK_SIZE(h, 8 * (b + g.sz[b])) = 0
<1>1. NEXT_BLKP(h, 8 * b) = 8 * (b + g.sz[b]) /\ b \in Nat /\ g.sz[b] \in Nat
  BY ReadTags
<1>2. b + g.sz[b] \in g.B =>
              /\ GET_ALLOC(h, HDRP(8 * (b + g.sz[b]))) = g.al[b + g.sz[b]]
              /\ GET_BLK_SIZE(h, 8 * (b + g.sz[b])) = 8 * g.sz[b + g.sz[b]]
  BY ReadTags
<1>3. ASSUME b + g.sz[b] \notin g.B
      PROVE  /\ GET_ALLOC(h, HDRP(8 * (b + g.sz[b]))) = 1
             /\ GET_BLK_SIZE(h, 8 * (b + g.sz[b])) = 0
  <2>1. b + g.sz[b] = g.hi
    BY <1>3 DEF OK, Tiled
  <2>2. PICK d \in Nat : d = g.hi
    BY <1>1, <2>1
  <2>3. h.mem[2 * d - 1] = 8 * 0 + 1
    BY <2>2 DEF OK, Tags
  <2>4. GET_BLK_SIZE(h, 8 * d) = 8 * 0 /\ GET_ALLOC(h, HDRP(8 * d)) = 1
    BY <2>3, Reads
  <2> QED BY <2>1, <2>2, <2>4
<1> QED BY <1>1, <1>2, <1>3

(* PREV_BLKP finds the block in front by its footer, or the prologue. *)
LEMMA ReadPrev ==
  ASSUME NEW h, NEW g, OK(h, g), NEW b \in g.B
  PROVE  /\ \A p \in g.B : p + g.sz[p] = b =>
              /\ PREV_BLKP(h, 8 * b) = 8 * p /\ GET_ALLOC(h, HDRP(8 * p)) = g.al[p]
              /\ GET_BLK_SIZE(h, 8 * p) = 8 * g.sz[p]
         /\ (\A p \in g.B : p + g.sz[p] # b) =>
              /\ b = Lo /\ PREV_BLKP(h, 8 * b) = 8 * (Lo - 1)
              /\ GET_ALLOC(h, HDRP(8 * (Lo - 1))) = 1
<1>1. ASSUME NEW p \in g.B, p + g.sz[p] = b
      PROVE  /\ PREV_BLKP(h, 8 * b) = 8 * p /\ GET_ALLOC(h, HDRP(8 * p)) = g.al[p]
             /\ GET_BLK_SIZE(h, 8 * p) = 8 * g.sz[p]
  BY <1>1, ReadTags
<1>2. ASSUME \A p \in g.B : p + g.sz[p] # b
      PROVE  /\ b = Lo /\ PREV_BLKP(h, 8 * b) = 8 * (Lo - 1)
             /\ GET_ALLOC(h, HDRP(8 * (Lo - 1))) = 1
  <2>1. b = Lo
    BY <1>2 DEF OK, Tiled
  <2>2. Lo \in Nat /\ Lo >= 3
    BY Sizes8
  <2>3. PICK d \in Nat : d = Lo - 1
    BY <2>2
  <2>4. h.mem[2 * Lo - 2] = 8 * 1 + 1 /\ h.mem[2 * d - 1] = 8 * 1 + 1
    <3>1. 2 * d - 1 = 2 * Lo - 3
      BY <2>2, <2>3
    <3> QED BY <3>1 DEF OK, Tags
  <2>5. PREV_BLKP(h, 8 * Lo) = 8 * (Lo - 1)
    <3>1. PICK l \in Nat : l = Lo
      BY <2>2
    <3>2. h.mem[2 * l - 2] = 8 * 1 + 1
      BY <2>4, <3>1
    <3>3. PREV_BLKP(h, 8 * l) = 8 * (l - 1)
      BY <3>2, Reads
    <3> QED BY <3>1, <3>3
  <2>6. GET_ALLOC(h, HDRP(8 * d)) = 1
    BY <2>4, Reads
  <2> QED BY <2>1, <2>3, <2>5, <2>6
<1> QED BY <1>1, <1>2

-----------------------------------------------------------------------------
(* coalesce: the neighbours that are free. *)
IsPrev(g, b, p) == p \in g.B /\ p + g.sz[p] = b /\ g.al[p] = 0
IsNext(g, b, n) == n \in g.B /\ n = b + g.sz[b] /\ g.al[n] = 0

(* What the function reads there. *)
LEMMA CoalesceReads ==
  ASSUME NEW h, NEW g, OK(h, g), NEW b \in g.B
  PROVE  /\ GET_BLK_SIZE(h, 8 * b) = 8 * g.sz[b] /\ FTRP(h, 8 * b) = 8 * (b + g.sz[b]) - 8
         /\ \A p : IsPrev(g, b, p) =>
              /\ PREV_BLKP(h, 8 * b) = 8 * p /\ GET_ALLOC(h, HDRP(PREV_BLKP(h, 8 * b))) = 0
              /\ GET_BLK_SIZE(h, 8 * p) = 8 * g.sz[p]
         /\ \A n : IsNext(g, b, n) =>
              /\ NEXT_BLKP(h, 8 * b) = 8 * n /\ GET_ALLOC(h, HDRP(NEXT_BLKP(h, 8 * b))) = 0
              /\ GET_BLK_SIZE(h, 8 * n) = 8 * g.sz[n] /\ FTRP(h, 8 * n) = 8 * (n + g.sz[n]) - 8
              /\ GET_SIZE(h, FTRP(h, 8 * n)) = 8 * g.sz[n]
         /\ (~ \E p : IsPrev(g, b, p)) => GET_ALLOC(h, HDRP(PREV_BLKP(h, 8 * b))) = 1
         /\ (~ \E n : IsNext(g, b, n)) => GET_ALLOC(h, HDRP(NEXT_BLKP(h, 8 * b))) = 1
<1>0. g \in Tables /\ Tiled(g)
  BY DEF OK
<1>1. GET_BLK_SIZE(h, 8 * b) = 8 * g.sz[b] /\ FTRP(h, 8 * b) = 8 * (b + g.sz[b]) - 8
  BY ReadTags
<1>2. ASSUME NEW p, IsPrev(g, b, p)
      PROVE  /\ PREV_BLKP(h, 8 * b) = 8 * p /\ GET_ALLOC(h, HDRP(PREV_BLKP(h, 8 * b))) = 0
             /\ GET_BLK_SIZE(h, 8 * p) = 8 * g.sz[p]
  <2>1. p \in g.B /\ p + g.sz[p] = b /\ g.al[p] = 0
    BY <1>2 DEF IsPrev
  <2>2. PREV_BLKP(h, 8 * b) = 8 * p /\ GET_ALLOC(h, HDRP(8 * p)) = g.al[p] /\ GET_BLK_SIZE(h, 8 * p) = 8 * g.sz[p]
    BY <2>1, ReadPrev
  <2> QED BY <2>1, <2>2
<1>3. ASSUME NEW n, IsNext(g, b, n)
      PROVE  /\ NEXT_BLKP(h, 8 * b) = 8 * n /\ GET_ALLOC(h, HDRP(NEXT_BLKP(h, 8 * b))) = 0
             /\ GET_BLK_SIZE(h, 8 * n) = 8 * g.sz[n] /\ FTRP(h, 8 * n) = 8 * (n + g.sz[n]) - 8
             /\ GET_SIZE(h, FTRP(h, 8 * n)) = 8 * g.sz[n]
  <2>1. n \in g.B /\ n = b + g.sz[b] /\ g.al[n] = 0
    BY <1>3 DEF IsNext
  <2>2. NEXT_BLKP(h, 8 * b) = 8 * n
    BY <2>1, ReadNext
  <2>3. /\ GET_ALLOC(h, HDRP(8 * n)) = g.al[n] /\ GET_BLK_SIZE(h, 8 * n) = 8 * g.sz[n]
        /\ FTRP(h, 8 * n) = 8 * (n + g.sz[n]) - 8 /\ GET_SIZE(h, FTRP(h, 8 * n)) = 8 * g.sz[n]
    BY <2>1, ReadTags
  <2> QED BY <2>1, <2>2, <2>3
<1>4. ASSUME ~ \E p : IsPrev(g, b, p)
      PROVE  GET_ALLOC(h, HDRP(PREV_BLKP(h, 8 * b))) = 1
  <2>1. CASE \E p \in g.B : p + g.sz[p] = b
    <3>1. PICK p \in g.B : p + g.sz[p] = b
      BY <2>1
    <3>2. PREV_BLKP(h, 8 * b) = 8 * p /\ GET_ALLOC(h, HDRP(8 * p)) = g.al[p]
      BY <3>1, ReadPrev
    <3>3. g.al[p] # 0 /\ g.al[p] \in {0, 1}
      BY <1>0, <1>4, <3>1, Fields DEF IsPrev
    <3> QED BY <3>2, <3>3
  <2>2. CASE \A p \in g.B : p + g.sz[p] # b
    BY <2>2, ReadPrev
  <2> QED BY <2>1, <2>2
<1>5. ASSUME ~ \E n : IsNext(g, b, n)
      PROVE  GET_ALLOC(h, HDRP(NEXT_BLKP(h, 8 * b))) = 1
  <2>1. PICK n : n = b + g.sz[b]
    OBVIOUS
  <2>2. NEXT_BLKP(h, 8 * b) = 8 * n
    BY <2>1, ReadNext
  <2>3. CASE n \in g.B
    <3>1. GET_ALLOC(h, HDRP(8 * n)) = g.al[n]
      BY <2>3, ReadTags
    <3>2. g.al[n] # 0 /\ g.al[n] \in {0, 1}
      BY <1>0, <1>5, <2>1, <2>3, Fields DEF IsNext
    <3> QED BY <2>2, <3>1, <3>2
  <2>4. CASE n \notin g.B
    BY <2>1, <2>2, <2>4, ReadNext
  <2> QED BY <2>3, <2>4
<1> QED BY <1>1, <1>2, <1>3, <1>4, <1>5

(* The merge of the area from u to v. *)
Merger(h, u, v) == Merged(h, 8 * u, 8 * u - 4, 8 * v - 8, 8 * (v - u))

(* What it does then, as one merge of an area. *)
Coalescing(h, g, b) ==
  /\ (~ \E p : IsPrev(g, b, p)) /\ (~ \E n : IsNext(g, b, n)) => coalesce(h, 8 * b) = [h |-> h, p |-> 8 * b]
  /\ \A n : (~ \E p : IsPrev(g, b, p)) /\ IsNext(g, b, n) =>
       coalesce(h, 8 * b) =
         Merger(remove_seglist(remove_seglist(h, 8 * b), 8 * n), b, n + g.sz[n])
  /\ \A p : IsPrev(g, b, p) /\ (~ \E n : IsNext(g, b, n)) =>
       coalesce(h, 8 * b) =
         Merger(remove_seglist(remove_seglist(h, 8 * b), 8 * p), p, b + g.sz[b])
  /\ \A p, n : IsPrev(g, b, p) /\ IsNext(g, b, n) =>
       coalesce(h, 8 * b) =
         Merger(remove_seglist(remove_seglist(remove_seglist(h, 8 * b), 8 * p), 8 * n), p, n + g.sz[n])

(* The four cases of coalesce are these. *)
LEMMA CoalesceIs ==
  ASSUME NEW h, NEW g, OK(h, g), NEW b \in g.B
  PROVE  Coalescing(h, g, b)
<1>0. g \in Tables /\ Tiled(g)
  BY DEF OK
<1>1. PICK prev : prev = PREV_BLKP(h, 8 * b)
  OBVIOUS
<1>2. PICK next : next = NEXT_BLKP(h, 8 * b)
  OBVIOUS
<1>3. coalesce(h, 8 * b) = CoalesceWith(h, 8 * b, prev, next, 8 * g.sz[b])
  BY <1>1, <1>2, CoalesceReads DEF coalesce
<1>t. b \in Nat /\ g.sz[b] \in Nat /\ \A x \in g.B : x \in Nat /\ g.sz[x] \in Nat
  BY <1>0, Fields
<1>4. ASSUME ~ \E p : IsPrev(g, b, p), ~ \E n : IsNext(g, b, n)
      PROVE  coalesce(h, 8 * b) = [h |-> h, p |-> 8 * b]
  <2>1. GET_ALLOC(h, HDRP(prev)) = 1 /\ GET_ALLOC(h, HDRP(next)) = 1
    BY <1>1, <1>2, <1>4, CoalesceReads
  <2> QED BY <1>3, <2>1 DEF CoalesceWith
<1>5. ASSUME NEW n, ~ \E p : IsPrev(g, b, p), IsNext(g, b, n)
      PROVE  coalesce(h, 8 * b) =
                Merger(remove_seglist(remove_seglist(h, 8 * b), 8 * n), b, n + g.sz[n])
  <2>1. GET_ALLOC(h, HDRP(prev)) = 1 /\ GET_ALLOC(h, HDRP(next)) = 0 /\ next = 8 * n /\ GET_BLK_SIZE(h, 8 * n) = 8 * g.sz[n]
    BY <1>1, <1>2, <1>5, CoalesceReads
  <2>2. n \in Nat /\ g.sz[n] \in Nat /\ n = b + g.sz[b]
    BY <1>5, <1>t DEF IsNext
  <2>3. coalesce(h, 8 * b) = MergeNext(h, 8 * b, 8 * n, 8 * g.sz[b] + 8 * g.sz[n])
    BY <1>3, <2>1 DEF CoalesceWith
  <2>4. 8 * g.sz[b] + 8 * g.sz[n] = 8 * ((n + g.sz[n]) - b) /\ HDRP(8 * b) = 8 * b - 4
        /\ 8 * b + 8 * ((n + g.sz[n]) - b) - DSIZE = 8 * (n + g.sz[n]) - 8
    BY <1>t, <2>2 DEF HDRP, WSIZE, DSIZE
  <2> QED BY <2>3, <2>4 DEF Merger, MergeNext
<1>6. ASSUME NEW p, IsPrev(g, b, p), ~ \E n : IsNext(g, b, n)
      PROVE  coalesce(h, 8 * b) =
                Merger(remove_seglist(remove_seglist(h, 8 * b), 8 * p), p, b + g.sz[b])
  <2>1. GET_ALLOC(h, HDRP(prev)) = 0 /\ GET_ALLOC(h, HDRP(next)) = 1 /\ prev = 8 * p /\ GET_BLK_SIZE(h, 8 * p) = 8 * g.sz[p]
        /\ FTRP(h, 8 * b) = 8 * (b + g.sz[b]) - 8
    BY <1>1, <1>2, <1>6, CoalesceReads
  <2>2. p \in Nat /\ g.sz[p] \in Nat /\ b = p + g.sz[p]
    BY <1>6, <1>t DEF IsPrev
  <2>3. coalesce(h, 8 * b) = MergePrev(h, 8 * b, 8 * p, 8 * g.sz[b] + 8 * g.sz[p])
    BY <1>3, <2>1 DEF CoalesceWith
  <2>4. 8 * g.sz[b] + 8 * g.sz[p] = 8 * ((b + g.sz[b]) - p) /\ HDRP(8 * p) = 8 * p - 4
    BY <1>t, <2>2 DEF HDRP, WSIZE, DSIZE
  <2> QED BY <2>1, <2>3, <2>4 DEF Merger, MergePrev
<1>7. ASSUME NEW p, NEW n, IsPrev(g, b, p), IsNext(g, b, n)
      PROVE  coalesce(h, 8 * b) =
                Merger(remove_seglist(remove_seglist(remove_seglist(h, 8 * b), 8 * p), 8 * n), p, n + g.sz[n])
  <2>1. GET_ALLOC(h, HDRP(prev)) = 0 /\ GET_ALLOC(h, HDRP(next)) = 0 /\ prev = 8 * p /\ GET_BLK_SIZE(h, 8 * p) = 8 * g.sz[p]
    BY <1>1, <1>2, <1>7, CoalesceReads
  <2>1b. next = 8 * n /\ FTRP(h, 8 * n) = 8 * (n + g.sz[n]) - 8 /\ GET_SIZE(h, FTRP(h, 8 * n)) = 8 * g.sz[n]
    BY <1>2, <1>7, CoalesceReads
  <2>2. p \in Nat /\ g.sz[p] \in Nat /\ b = p + g.sz[p]
    BY <1>7, <1>t DEF IsPrev
  <2>2b. n \in Nat /\ g.sz[n] \in Nat /\ n = b + g.sz[b]
    BY <1>7, <1>t DEF IsNext
  <2>3. coalesce(h, 8 * b) = MergeBoth(h, 8 * b, 8 * p, 8 * n, 8 * g.sz[b] + 8 * g.sz[p] + 8 * g.sz[n])
    BY <1>3, <2>1, <2>1b DEF CoalesceWith
  <2>4. 8 * g.sz[b] + 8 * g.sz[p] + 8 * g.sz[n] = 8 * ((n + g.sz[n]) - p) /\ HDRP(8 * p) = 8 * p - 4
    <3>1. PICK x \in Nat, y \in Nat, z \in Nat : x = g.sz[b] /\ y = g.sz[p] /\ z = g.sz[n]
      BY <1>t, <2>2, <2>2b
    <3>2. n = (p + y) + x
      BY <2>2, <2>2b, <3>1
    <3>3. 8 * x + 8 * y + 8 * z = 8 * ((n + z) - p) /\ HDRP(8 * p) = 8 * p - 4
      BY <2>2, <3>2 DEF HDRP, WSIZE
    <3> QED BY <3>1, <3>3
  <2> QED BY <2>1b, <2>3, <2>4 DEF Merger, MergeBoth
<1> QED BY <1>4, <1>5, <1>6, <1>7 DEF Coalescing

(* A block has nothing inside. *)
LEMMA Inside ==
  ASSUME NEW g \in Tables, Tiled(g), NEW x \in g.B, NEW c \in g.B, x <= c, c < x + g.sz[x]
  PROVE  c = x
<1>1. x \in Nat /\ c \in Nat /\ g.sz[x] \in Nat
  BY Fields
<1> QED BY <1>1 DEF Tiled

(* What coalescing comes to: a listed block at least as large. *)
Coalesced(h, k, g, b) ==
  \E g2, u : /\ Comes(h, g, coalesce(h, 8 * b).h, coalesce(k, 8 * b).h, g2, Used(g))
             /\ coalesce(h, 8 * b).p = 8 * u /\ coalesce(k, 8 * b).p = 8 * u
             /\ u \in g2.L /\ g2.sz[u] >= g.sz[b] /\ g2.hi = g.hi

(* The blocks of S are those from u to v. *)
Makes(g, S, u, v) == \A c \in g.B : u <= c /\ c < v <=> c \in S

(* The blocks of S, all listed, make up the area from u to v: they are     *)
(* taken off their lists and merged.                                       *)
LEMMA MergeOff ==
  ASSUME NEW h, NEW k, NEW g, OK(h, g), OK(k, g), Full(g), NEW S, S \subseteq g.L,
         NEW h1, NEW k1, NEW g1, OK(h1, g1), OK(k1, g1), Off(g, g1, S), Keeps(h, g, h1, g1, Used(g)),
         NEW u, NEW v, u \in S, v \in g.B \cup {g.hi}, u < v,
         Makes(g, S, u, v),
         NEW hm, hm = Merger(h1, u, v),
         NEW km, km = Merger(k1, u, v)
  PROVE  /\ hm.p = 8 * u /\ km.p = 8 * u
         /\ \E g2 : Comes(h, g, hm.h, km.h, g2, Used(g)) /\ u \in g2.L /\ g2.sz[u] = v - u /\ g2.hi = g.hi
<1>0. g \in Tables /\ Listed(g) /\ g1.B = g.B /\ g1.sz = g.sz /\ g1.al = g.al /\ g1.hi = g.hi /\ g1.L = g.L \ S
  BY DEF OK, Off
<1>1. g.L \subseteq g.B /\ \A b \in g.L : g.al[b] = 0
  BY <1>0 DEF Listed
<1>2. Clear(g1, u, v)
  BY <1>0, <1>1 DEF Clear, Makes
<1>3. \A c \in g1.B : u <= c /\ c < v => g1.al[c] = 0
  BY <1>0, <1>1 DEF Makes
<1>4. \A c \in g1.B : g1.al[c] = 0 /\ ~(u <= c /\ c < v) => c \in g1.L
  BY <1>0, <1>1 DEF Full, Makes
<1>5. /\ hm.p = 8 * u
      /\ \E g2 : Comes(h1, g1, hm.h, km.h, g2, Used(g1)) /\ u \in g2.L /\ g2.sz[u] = v - u /\ g2.hi = g1.hi
  BY <1>2, <1>3, <1>4, MergeArea DEF Merger
<1>6. km.p = 8 * u
  BY <1>2, <1>3, <1>4, MergeArea DEF Merger
<1>7. PICK g2 : Comes(h1, g1, hm.h, km.h, g2, Used(g1)) /\ u \in g2.L /\ g2.sz[u] = v - u /\ g2.hi = g1.hi
  BY <1>5
<1>8. Used(g1) = Used(g)
  BY <1>0 DEF Used
<1>9. Comes(h, g, hm.h, km.h, g2, Used(g))
  <2>1. OK(hm.h, g2) /\ OK(km.h, g2) /\ Full(g2) /\ Keeps(h1, g1, hm.h, g2, Used(g))
    BY <1>7, <1>8 DEF Comes
  <2>2. Keeps(h, g, hm.h, g2, Used(g))
    BY <2>1, KeepsOn
  <2> QED BY <2>1, <2>2 DEF Comes
<1> QED BY <1>0, <1>5, <1>6, <1>7, <1>9

(* coalesce makes one listed block of a listed block and the free blocks   *)
(* beside it, and every free block stays listed.                           *)
LEMMA Coalesce ==
  ASSUME NEW h, NEW k, NEW g, OK(h, g), OK(k, g), Full(g), NEW b \in g.L
  PROVE  Coalesced(h, k, g, b)
<1>0. g \in Tables /\ Tiled(g) /\ Listed(g) /\ b \in g.B
  BY DEF OK, Listed
<1>c. Coalescing(h, g, b) /\ Coalescing(k, g, b)
  BY <1>0, CoalesceIs
<1>t. b \in Nat /\ g.sz[b] \in Nat /\ g.sz[b] >= 2 /\ b + g.sz[b] \in g.B \cup {g.hi}
      /\ \A x \in g.B : x \in Nat /\ g.sz[x] \in Nat /\ g.sz[x] >= 2 /\ x + g.sz[x] \in g.B \cup {g.hi}
  BY <1>0, Fields DEF Tiled
<1>h. PICK hm : hm = coalesce(h, 8 * b)
  OBVIOUS
<1>k. PICK km : km = coalesce(k, 8 * b)
  OBVIOUS
<1> SUFFICES \E g2, u : /\ Comes(h, g, hm.h, km.h, g2, Used(g)) /\ hm.p = 8 * u /\ km.p = 8 * u
                        /\ u \in g2.L /\ g2.sz[u] >= g.sz[b] /\ g2.hi = g.hi
  BY <1>h, <1>k DEF Coalesced
<1>1. CASE (~ \E p : IsPrev(g, b, p)) /\ (~ \E n : IsNext(g, b, n))
  <2>1. hm = [h |-> h, p |-> 8 * b] /\ km = [h |-> k, p |-> 8 * b]
    BY <1>c, <1>1, <1>h, <1>k DEF Coalescing
  <2>2. Keeps(h, g, h, g, Used(g))
    BY DEF Keeps, Used
  <2>3. Comes(h, g, h, k, g, Used(g))
    BY <2>2 DEF Comes
  <2>4. hm.h = h /\ km.h = k /\ hm.p = 8 * b /\ km.p = 8 * b
    BY <2>1
  <2>5. g.sz[b] >= g.sz[b]
    BY <1>t
  <2> QED BY <2>3, <2>4, <2>5
<1>2. ASSUME NEW n, ~ \E p : IsPrev(g, b, p), IsNext(g, b, n)
      PROVE  \E g2, u : /\ Comes(h, g, hm.h, km.h, g2, Used(g)) /\ hm.p = 8 * u /\ km.p = 8 * u
                        /\ u \in g2.L /\ g2.sz[u] >= g.sz[b] /\ g2.hi = g.hi
  <2>1. PICK h1 : h1 = remove_seglist(remove_seglist(h, 8 * b), 8 * n)
    OBVIOUS
  <2>2. PICK k1 : k1 = remove_seglist(remove_seglist(k, 8 * b), 8 * n)
    OBVIOUS
  <2>3. n \in g.B /\ n \in Nat /\ n = b + g.sz[b] /\ g.al[n] = 0 /\ n \in g.L /\ n # b /\ g.sz[n] \in Nat /\ g.sz[n] >= 2
    BY <1>2, <1>t DEF IsNext, Full
  <2>4. PICK v \in Nat : v = n + g.sz[n]
    BY <2>3
  <2>5. v \in g.B \cup {g.hi} /\ b < v /\ v - b >= g.sz[b]
    BY <1>t, <2>3, <2>4
  <2>6. PICK g1 : OK(h1, g1) /\ OK(k1, g1) /\ Off(g, g1, {b, n}) /\ Keeps(h, g, h1, g1, Used(g))
    BY <2>1, <2>2, <2>3, UnlistTwo
  <2>7. ASSUME NEW c \in g.B PROVE b <= c /\ c < v <=> c \in {b, n}
    <3>1. c \in Nat
      BY <1>t
    <3>2. ASSUME b <= c, c < v PROVE c \in {b, n}
      <4>1. CASE c < n
        BY <1>0, <2>3, <3>1, <3>2, <4>1, Inside
      <4>2. CASE c >= n
        BY <1>0, <2>3, <2>4, <3>1, <3>2, <4>2, Inside
      <4> QED BY <2>3, <3>1, <4>1, <4>2
    <3> QED BY <1>t, <2>3, <2>4, <3>1, <3>2
  <2>8. /\ hm = Merger(h1, b, v)
        /\ km = Merger(k1, b, v)
    <3>1. coalesce(h, 8 * b) = Merger(remove_seglist(remove_seglist(h, 8 * b), 8 * n), b, n + g.sz[n])
      BY <1>c, <1>2 DEF Coalescing
    <3>2. coalesce(k, 8 * b) = Merger(remove_seglist(remove_seglist(k, 8 * b), 8 * n), b, n + g.sz[n])
      BY <1>c, <1>2 DEF Coalescing
    <3> QED BY <1>h, <1>k, <2>1, <2>2, <2>4, <3>1, <3>2
  <2>s. PICK S : S = {b, n}
    OBVIOUS
  <2>9. S \subseteq g.L /\ b \in S /\ Makes(g, S, b, v) /\ Off(g, g1, S)
    BY <2>3, <2>6, <2>7, <2>s DEF Makes
  <2>10. /\ hm.p = 8 * b /\ km.p = 8 * b
         /\ \E g2 : Comes(h, g, hm.h, km.h, g2, Used(g)) /\ b \in g2.L /\ g2.sz[b] = v - b /\ g2.hi = g.hi
    BY <2>5, <2>6, <2>8, <2>9, MergeOff
  <2> QED BY <2>5, <2>10
<1>3. ASSUME NEW p, IsPrev(g, b, p), ~ \E n : IsNext(g, b, n)
      PROVE  \E g2, u : /\ Comes(h, g, hm.h, km.h, g2, Used(g)) /\ hm.p = 8 * u /\ km.p = 8 * u
                        /\ u \in g2.L /\ g2.sz[u] >= g.sz[b] /\ g2.hi = g.hi
  <2>1. PICK h1 : h1 = remove_seglist(remove_seglist(h, 8 * b), 8 * p)
    OBVIOUS
  <2>2. PICK k1 : k1 = remove_seglist(remove_seglist(k, 8 * b), 8 * p)
    OBVIOUS
  <2>3. p \in g.B /\ p \in Nat /\ b = p + g.sz[p] /\ g.al[p] = 0 /\ p \in g.L /\ p # b /\ g.sz[p] \in Nat /\ g.sz[p] >= 2
    BY <1>3, <1>t DEF IsPrev, Full
  <2>4. PICK v \in Nat : v = b + g.sz[b]
    BY <1>t
  <2>5. v \in g.B \cup {g.hi} /\ p < v /\ v - p >= g.sz[b]
    BY <1>t, <2>3, <2>4
  <2>6. PICK g1 : OK(h1, g1) /\ OK(k1, g1) /\ Off(g, g1, {b, p}) /\ Keeps(h, g, h1, g1, Used(g))
    BY <2>1, <2>2, <2>3, UnlistTwo
  <2>7. ASSUME NEW c \in g.B PROVE p <= c /\ c < v <=> c \in {b, p}
    <3>1. c \in Nat
      BY <1>t
    <3>2. ASSUME p <= c, c < v PROVE c \in {b, p}
      <4>1. CASE c < b
        BY <1>0, <2>3, <3>1, <3>2, <4>1, Inside
      <4>2. CASE c >= b
        BY <1>0, <2>3, <2>4, <3>1, <3>2, <4>2, Inside
      <4> QED BY <1>t, <3>1, <4>1, <4>2
    <3> QED BY <1>t, <2>3, <2>4, <3>1, <3>2
  <2>8. /\ hm = Merger(h1, p, v)
        /\ km = Merger(k1, p, v)
    <3>1. coalesce(h, 8 * b) = Merger(remove_seglist(remove_seglist(h, 8 * b), 8 * p), p, b + g.sz[b])
      BY <1>c, <1>3 DEF Coalescing
    <3>2. coalesce(k, 8 * b) = Merger(remove_seglist(remove_seglist(k, 8 * b), 8 * p), p, b + g.sz[b])
      BY <1>c, <1>3 DEF Coalescing
    <3> QED BY <1>h, <1>k, <2>1, <2>2, <2>4, <3>1, <3>2
  <2>s. PICK S : S = {b, p}
    OBVIOUS
  <2>9. S \subseteq g.L /\ p \in S /\ Makes(g, S, p, v) /\ Off(g, g1, S)
    BY <2>3, <2>6, <2>7, <2>s DEF Makes
  <2>10. /\ hm.p = 8 * p /\ km.p = 8 * p
         /\ \E g2 : Comes(h, g, hm.h, km.h, g2, Used(g)) /\ p \in g2.L /\ g2.sz[p] = v - p /\ g2.hi = g.hi
    BY <2>5, <2>6, <2>8, <2>9, MergeOff
  <2> QED BY <2>5, <2>10
<1>4. ASSUME NEW p, NEW n, IsPrev(g, b, p), IsNext(g, b, n)
      PROVE  \E g2, u : /\ Comes(h, g, hm.h, km.h, g2, Used(g)) /\ hm.p = 8 * u /\ km.p = 8 * u
                        /\ u \in g2.L /\ g2.sz[u] >= g.sz[b] /\ g2.hi = g.hi
  <2>1. PICK h1 : h1 = remove_seglist(remove_seglist(remove_seglist(h, 8 * b), 8 * p), 8 * n)
    OBVIOUS
  <2>2. PICK k1 : k1 = remove_seglist(remove_seglist(remove_seglist(k, 8 * b), 8 * p), 8 * n)
    OBVIOUS
  <2>3. p \in g.B /\ p \in Nat /\ b = p + g.sz[p] /\ g.al[p] = 0 /\ p \in g.L /\ p # b /\ g.sz[p] \in Nat /\ g.sz[p] >= 2
    BY <1>4, <1>t DEF IsPrev, Full
  <2>3n. n \in g.B /\ n \in Nat /\ n = b + g.sz[b] /\ g.al[n] = 0 /\ n \in g.L /\ n # b /\ g.sz[n] \in Nat /\ g.sz[n] >= 2
    BY <1>4, <1>t DEF IsNext, Full
  <2>4. PICK v \in Nat : v = n + g.sz[n]
    BY <2>3n
  <2>5. v \in g.B \cup {g.hi} /\ p < v /\ v - p >= g.sz[b] /\ p # n
    BY <1>t, <2>3, <2>3n, <2>4
  <2>6. PICK g1 : OK(h1, g1) /\ OK(k1, g1) /\ Off(g, g1, {b, p, n}) /\ Keeps(h, g, h1, g1, Used(g))
    BY <2>1, <2>2, <2>3, <2>3n, <2>5, UnlistThree
  <2>7. ASSUME NEW c \in g.B PROVE p <= c /\ c < v <=> c \in {b, p, n}
    <3>1. c \in Nat
      BY <1>t
    <3>2. ASSUME p <= c, c < v PROVE c \in {b, p, n}
      <4>1. CASE c < b
        BY <1>0, <2>3, <3>1, <3>2, <4>1, Inside
      <4>2. CASE c >= b /\ c < n
        BY <1>0, <2>3n, <3>1, <3>2, <4>2, Inside
      <4>3. CASE c >= n
        BY <1>0, <2>3n, <2>4, <3>1, <3>2, <4>3, Inside
      <4> QED BY <1>t, <2>3n, <3>1, <4>1, <4>2, <4>3
    <3> QED BY <1>t, <2>3, <2>3n, <2>4, <3>1, <3>2
  <2>8. /\ hm = Merger(h1, p, v)
        /\ km = Merger(k1, p, v)
    <3>1. coalesce(h, 8 * b) = Merger(remove_seglist(remove_seglist(remove_seglist(h, 8 * b), 8 * p), 8 * n), p, n + g.sz[n])
      BY <1>c, <1>4 DEF Coalescing
    <3>2. coalesce(k, 8 * b) = Merger(remove_seglist(remove_seglist(remove_seglist(k, 8 * b), 8 * p), 8 * n), p, n + g.sz[n])
      BY <1>c, <1>4 DEF Coalescing
    <3> QED BY <1>h, <1>k, <2>1, <2>2, <2>4, <3>1, <3>2
  <2>s. PICK S : S = {b, p, n}
    OBVIOUS
  <2>9. S \subseteq g.L /\ p \in S /\ Makes(g, S, p, v) /\ Off(g, g1, S)
    BY <2>3, <2>3n, <2>6, <2>7, <2>s DEF Makes
  <2>10. /\ hm.p = 8 * p /\ km.p = 8 * p
         /\ \E g2 : Comes(h, g, hm.h, km.h, g2, Used(g)) /\ p \in g2.L /\ g2.sz[p] = v - p /\ g2.hi = g.hi
    BY <2>5, <2>6, <2>8, <2>9, MergeOff
  <2> QED BY <2>5, <2>10
<1> QED BY <1>1, <1>2, <1>3, <1>4

-----------------------------------------------------------------------------
(* A block is listed and merged with what is free around it. *)
Lister(h, b, t) == coalesce(add_seglist(h, 8 * b, 8 * t), 8 * b)

FullBut(g, b) == \A c \in g.B : g.al[c] = 0 => c \in g.L \/ c = b

Frees(h, g, hc, kc, S, t, g2, u) ==
  /\ Comes(h, g, hc.h, kc.h, g2, S) /\ hc.p = 8 * u /\ kc.p = 8 * u
  /\ u \in g2.L /\ g2.sz[u] >= t /\ g2.hi = g.hi

(* add_seglist and coalesce: a free block that was on no list is listed. *)
LEMMA FreeUp ==
  ASSUME NEW h, NEW k, NEW g, OK(h, g), OK(k, g), NEW b \in g.B, b \notin g.L, g.al[b] = 0,
         FullBut(g, b), NEW t, t = g.sz[b]
  PROVE  \E g2, u : Frees(h, g, Lister(h, b, t), Lister(k, b, t), Used(g), t, g2, u)
<1>h. PICK h1 : h1 = add_seglist(h, 8 * b, 8 * g.sz[b])
  OBVIOUS
<1>k. PICK k1 : k1 = add_seglist(k, 8 * b, 8 * g.sz[b])
  OBVIOUS
<1>1. PICK g1 : /\ OK(h1, g1) /\ OK(k1, g1) /\ Keeps(h, g, h1, g1, Used(g))
                /\ g1.B = g.B /\ g1.sz = g.sz /\ g1.al = g.al /\ g1.hi = g.hi /\ g1.L = g.L \cup {b}
  BY <1>h, <1>k, Enlist
<1>2. Full(g1) /\ b \in g1.L /\ Used(g1) = Used(g)
  BY <1>1 DEF Full, FullBut, Used
<1>3. Coalesced(h1, k1, g1, b)
  BY <1>1, <1>2, Coalesce
<1>4. Lister(h, b, t) = coalesce(h1, 8 * b) /\ Lister(k, b, t) = coalesce(k1, 8 * b)
  BY <1>h, <1>k DEF Lister
<1>5. PICK hc : hc = Lister(h, b, t)
  OBVIOUS
<1>6. PICK kc : kc = Lister(k, b, t)
  OBVIOUS
<1>7. PICK g2, u : /\ Comes(h1, g1, hc.h, kc.h, g2, Used(g1)) /\ hc.p = 8 * u /\ kc.p = 8 * u
                   /\ u \in g2.L /\ g2.sz[u] >= g1.sz[b] /\ g2.hi = g1.hi
  BY <1>3, <1>4, <1>5, <1>6 DEF Coalesced
<1>8. Keeps(h1, g1, hc.h, g2, Used(g)) /\ OK(hc.h, g2) /\ OK(kc.h, g2) /\ Full(g2)
  BY <1>2, <1>7 DEF Comes
<1>9. Keeps(h, g, hc.h, g2, Used(g))
  BY <1>1, <1>8, KeepsOn
<1>10. Comes(h, g, hc.h, kc.h, g2, Used(g))
  BY <1>8, <1>9 DEF Comes
<1>11. Frees(h, g, hc, kc, Used(g), t, g2, u)
  BY <1>1, <1>7, <1>10 DEF Frees
<1> QED BY <1>5, <1>6, <1>11

(* A way that keeps less. *)
LEMMA KeepsLess ==
  ASSUME NEW h, NEW g, NEW h2, NEW g2, NEW S, Keeps(h, g, h2, g2, S), NEW T, T \subseteq S
  PROVE  Keeps(h, g, h2, g2, T)
  BY DEF Keeps

(* The same from an earlier heap, whose allocated blocks were kept until   *)
(* then.                                                                   *)
LEMMA FreesOn ==
  ASSUME NEW h, NEW g, NEW h1, NEW g1, NEW S, Keeps(h, g, h1, g1, S), g1.hi = g.hi,
         NEW hc, NEW kc, NEW t, NEW g2, NEW u, Frees(h1, g1, hc, kc, Used(g1), t, g2, u)
  PROVE  Frees(h, g, hc, kc, S, t, g2, u)
<1>1. /\ Comes(h1, g1, hc.h, kc.h, g2, Used(g1)) /\ hc.p = 8 * u /\ kc.p = 8 * u
      /\ u \in g2.L /\ g2.sz[u] >= t /\ g2.hi = g1.hi
  BY DEF Frees
<1>2. OK(hc.h, g2) /\ OK(kc.h, g2) /\ Full(g2) /\ Keeps(h1, g1, hc.h, g2, Used(g1))
  BY <1>1 DEF Comes
<1>3. S \subseteq Used(g1)
  BY KeepsUsed
<1>4. Keeps(h, g, hc.h, g2, S)
  BY <1>2, <1>3, KeepsOn
<1>5. Comes(h, g, hc.h, kc.h, g2, S)
  BY <1>2, <1>4 DEF Comes
<1> QED BY <1>1, <1>5 DEF Frees

(* A block alone is an area, if it is not listed. *)
LEMMA BlockClear ==
  ASSUME NEW g \in Tables, Tiled(g), Listed(g), NEW b \in g.B, b \notin g.L
  PROVE  /\ Clear(g, b, b + g.sz[b]) /\ Between(g, b, b + g.sz[b]) = {b}
         /\ b \in Nat /\ g.sz[b] \in Nat /\ g.sz[b] >= 2
<1>1. b \in Nat /\ g.sz[b] \in Nat /\ g.sz[b] >= 2 /\ b + g.sz[b] \in g.B \cup {g.hi}
  BY Fields DEF Tiled
<1>2. \A c \in g.B : b <= c /\ c < b + g.sz[b] => c = b
  BY Inside
<1>3. g.L \subseteq g.B
  BY DEF Listed
<1>4. \A c \in g.L : ~(b <= c /\ c < b + g.sz[b])
  BY <1>2, <1>3
<1>5. Between(g, b, b + g.sz[b]) = {b}
  <2>1. b <= b /\ b < b + g.sz[b]
    BY <1>1
  <2> QED BY <1>2, <2>1 DEF Between
<1> QED BY <1>1, <1>4, <1>5 DEF Clear

(* An allocated block is freed. *)
Freeing(h, k, g, b) ==
  \E g2 : Comes(h, g, mm_free(h, 8 * b), mm_free(k, 8 * b), g2, Used(g) \ {b}) /\ g2.hi = g.hi

(* mm_free of an allocated block: the block is free and listed, and the    *)
(* other allocated blocks keep their place, size and content.              *)
LEMMA MmFree ==
  ASSUME NEW h, NEW k, NEW g, OK(h, g), OK(k, g), Full(g), NEW b \in Used(g)
  PROVE  Freeing(h, k, g, b)
<1>0. g \in Tables /\ Tiled(g) /\ Listed(g) /\ 8 * g.hi <= MAX_HEAP /\ b \in g.B /\ g.al[b] = 1 /\ b \notin g.L
  BY DEF OK, Used, Listed
<1>1. /\ Clear(g, b, b + g.sz[b]) /\ Between(g, b, b + g.sz[b]) = {b}
      /\ b \in Nat /\ g.sz[b] \in Nat /\ g.sz[b] >= 2
  BY <1>0, BlockClear
<1>t. PICK t \in Nat : t = g.sz[b] /\ t >= 2
  BY <1>1
<1>v. PICK v \in Nat : v = b + t
  BY <1>1
<1>2. v = b + g.sz[b] /\ t = g.sz[b] /\ v - b = t /\ t >= 2 /\ v = b + t
  BY <1>1, <1>t, <1>v
<1>h. PICK h1 : h1 = PutTags(h, 8 * b, 8 * t, 0)
  OBVIOUS
<1>k. PICK k1 : k1 = PutTags(k, 8 * b, 8 * t, 0)
  OBVIOUS
<1>3. b >= 1 /\ 8 * (b + t) <= MAX_HEAP
  BY <1>0, <1>1, <1>2, ClearIs, Sizes8
<1>4. TagsPut(h, h1, 8 * g.hi, b, v - b, 0)
  <2>1. Heap(h, 8 * g.hi)
    BY DEF OK
  <2>2. TagsPut(h, h1, 8 * g.hi, b, t, 0)
    BY <1>1, <1>2, <1>h, <1>3, <2>1, PutTagsPut
  <2> QED BY <1>2, <2>2
<1>5. TagsPut(k, k1, 8 * g.hi, b, v - b, 0)
  <2>1. Heap(k, 8 * g.hi)
    BY DEF OK
  <2>2. TagsPut(k, k1, 8 * g.hi, b, t, 0)
    BY <1>1, <1>2, <1>k, <1>3, <2>1, PutTagsPut
  <2> QED BY <1>2, <2>2
<1>6. PICK o : o = One(g, b, v, 0)
  OBVIOUS
<1>7. OK(h1, o) /\ Keeps(h, g, h1, o, Used(g) \ {b}) /\ Joins(g, b, v, 0, o)
  <2>1. Clear(g, b, v) /\ Between(g, b, v) = {b}
    BY <1>1, <1>2
  <2> QED BY <1>4, <1>6, <2>1, OneBlock
<1>8. OK(k1, o)
  <2>1. Clear(g, b, v)
    BY <1>1, <1>2
  <2> QED BY <1>5, <1>6, <2>1, OneBlock
<1>9. b \in o.B /\ b \notin o.L /\ o.al[b] = 0 /\ t = o.sz[b] /\ o.hi = g.hi
  BY <1>0, <1>2, <1>7 DEF Joins
<1>10. FullBut(o, b)
  <2> SUFFICES ASSUME NEW c \in o.B, o.al[c] = 0, c # b PROVE c \in o.L
    BY DEF FullBut
  <2>1. c \in g.B /\ c \in Nat /\ o.al[c] = g.al[c]
    BY <1>0, <1>7, Fields DEF Joins
  <2> QED BY <1>7, <2>1 DEF Joins, Full
<1>11. PICK g2, u : Frees(h1, o, Lister(h1, b, t), Lister(k1, b, t), Used(o), t, g2, u)
  BY <1>7, <1>8, <1>9, <1>10, FreeUp
<1>12. Frees(h, g, Lister(h1, b, t), Lister(k1, b, t), Used(g) \ {b}, t, g2, u)
  BY <1>7, <1>9, <1>11, FreesOn
<1>13. mm_free(h, 8 * b) = Lister(h1, b, t).h /\ mm_free(k, 8 * b) = Lister(k1, b, t).h
  <2>1. GET_BLK_SIZE(h, 8 * b) = 8 * t /\ GET_BLK_SIZE(k, 8 * b) = 8 * t
    BY <1>0, <1>2, ReadTags
  <2> QED BY <1>h, <1>k, <2>1 DEF mm_free, Release, Lister
<1> QED BY <1>12, <1>13 DEF Frees, Freeing

-----------------------------------------------------------------------------
(* An area gets new tags, and its other words anything. *)
Outside(h, h2, u, v) == \A w \in Words : w < 2 * u - 1 \/ w > 2 * v - 2 => h2.mem[w] = h.mem[w]
Tagged(h, d, t, a)   == h.mem[2 * d - 1] = 8 * t + a /\ h.mem[2 * (d + t) - 2] = 8 * t + a

(* Retile for an area that starts at a block and does not move the end. *)
LEMMA Reblock ==
  ASSUME NEW h, NEW g, OK(h, g), NEW N, NEW s, NEW a, NEW u, NEW v, Area(g, N, s, a, u, v, g.hi), u \in g.B,
         NEW h2, Heap(h2, 8 * g.hi), Outside(h, h2, u, v), \A b \in N : Tagged(h2, b, s[b], a[b]),
         NEW q, q = Retiled(g, N, s, a, u, v, g.hi)
  PROVE  OK(h2, q) /\ Keeps(h, g, h2, q, Used(g) \ Between(g, u, v))
<1>0. g \in Tables /\ Tiled(g) /\ 8 * g.hi <= MAX_HEAP /\ Tags(h.mem, g)
  BY DEF OK
<1>1. u \in Nat /\ v \in Nat /\ g.hi \in Nat /\ Lo \in Nat /\ u < v /\ Lo <= u /\ v <= g.hi /\ Lo >= 3
  BY <1>0, AroundArea, Sizes8
<1>2. h2.mem[2 * g.hi - 1] = 1
  <2>1. PICK z \in Nat : z = 2 * g.hi - 1
    BY <1>1
  <2>2. 4 * z < MAX_HEAP
    BY <1>0, <1>1, <2>1, Sizes8
  <2>3. z \in Words /\ z > 2 * v - 2
    BY <1>1, <2>1, <2>2, IsWord
  <2>4. h.mem[z] = 1
    BY <1>0, <2>1 DEF Tags
  <2> QED BY <2>1, <2>3, <2>4 DEF Outside
<1>3. Rewrites(h, h2, N, s, a, u, v, g.hi)
  BY <1>2 DEF Rewrites, Outside, Tagged
<1> QED BY <1>3, Retile

(* An area becomes one block, whatever is written inside it. *)
LEMMA OneBlockBy ==
  ASSUME NEW h, NEW g, OK(h, g), NEW u, NEW v, Clear(g, u, v), NEW x \in {0, 1},
         NEW h2, Heap(h2, 8 * g.hi), Outside(h, h2, u, v), Tagged(h2, u, v - u, x),
         NEW q, q = One(g, u, v, x)
  PROVE  OK(h2, q) /\ Keeps(h, g, h2, q, Used(g) \ Between(g, u, v)) /\ Joins(g, u, v, x, q)
<1>0. g \in Tables /\ Tiled(g) /\ 8 * g.hi <= MAX_HEAP
  BY DEF OK
<1>1. u \in Nat /\ v \in Nat /\ g.hi \in Nat /\ v >= u + 2
  BY <1>0, ClearIs
<1>s. PICK s : s = [b \in Nat |-> IF b = u THEN v - u ELSE g.sz[b]]
  OBVIOUS
<1>a. PICK a : a = [b \in Nat |-> IF b = u THEN x ELSE g.al[b]]
  OBVIOUS
<1>2. s \in [Nat -> Nat] /\ a \in [Nat -> {0, 1}] /\ s[u] = v - u /\ a[u] = x
      /\ \A b \in Nat : b # u => s[b] = g.sz[b] /\ a[b] = g.al[b]
  <2>1. \A b \in Nat : g.sz[b] \in Nat /\ g.al[b] \in {0, 1}
    BY <1>0, Fields
  <2>2. v - u \in Nat
    BY <1>1
  <2> QED BY <1>1, <1>s, <1>a, <2>1, <2>2
<1>3. Fills({u}, s, u, v)
  <2>1. u + s[u] = v /\ s[u] >= 2
    BY <1>1, <1>2
  <2> QED BY <1>1, <2>1 DEF Fills
<1>4. Area(g, {u}, s, a, u, v, g.hi)
  BY <1>0, <1>1, <1>2, <1>3 DEF Area, Clear
<1>5. q = Retiled(g, {u}, s, a, u, v, g.hi)
  BY <1>s, <1>a DEF One
<1>6. \A b \in {u} : Tagged(h2, b, s[b], a[b])
  BY <1>2
<1>7. OK(h2, q) /\ Keeps(h, g, h2, q, Used(g) \ Between(g, u, v))
  <2>1. u \in g.B
    BY DEF Clear
  <2> QED BY <1>4, <1>5, <1>6, <2>1, Reblock
<1>8. q.B = (g.B \ Between(g, u, v)) \cup {u} /\ q.sz = s /\ q.al = a /\ q.hi = g.hi /\ q.L = g.L
  BY <1>0, <1>4, <1>5, RetiledIs
<1>9. Joins(g, u, v, x, q)
  BY <1>2, <1>8 DEF Joins
<1> QED BY <1>7, <1>9

(* An area becomes two blocks, the second from m on. *)
Two(g, u, m, v, x, y) ==
  Retiled(g, {u, m}, [b \in Nat |-> IF b = u THEN m - u ELSE IF b = m THEN v - m ELSE g.sz[b]],
          [b \in Nat |-> IF b = u THEN x ELSE IF b = m THEN y ELSE g.al[b]], u, v, g.hi)

Splits(g, u, m, v, x, y, q) ==
  /\ q.B = (g.B \ Between(g, u, v)) \cup {u, m} /\ q.hi = g.hi /\ q.L = g.L
  /\ q.sz[u] = m - u /\ q.al[u] = x /\ q.sz[m] = v - m /\ q.al[m] = y
  /\ \A b \in Nat : b # u /\ b # m => q.sz[b] = g.sz[b] /\ q.al[b] = g.al[b]

(* An area becomes two blocks, whatever is written inside it. *)
LEMMA TwoBlocks ==
  ASSUME NEW h, NEW g, OK(h, g), NEW u, NEW v, Clear(g, u, v), NEW m \in Nat, m >= u + 2, v >= m + 2,
         NEW x \in {0, 1}, NEW y \in {0, 1},
         NEW h2, Heap(h2, 8 * g.hi), Outside(h, h2, u, v), Tagged(h2, u, m - u, x), Tagged(h2, m, v - m, y),
         NEW q, q = Two(g, u, m, v, x, y)
  PROVE  OK(h2, q) /\ Keeps(h, g, h2, q, Used(g) \ Between(g, u, v)) /\ Splits(g, u, m, v, x, y, q)
<1>0. g \in Tables /\ Tiled(g) /\ 8 * g.hi <= MAX_HEAP
  BY DEF OK
<1>1. u \in Nat /\ v \in Nat /\ g.hi \in Nat /\ u < m /\ m < v /\ u # m
  BY <1>0, ClearIs
<1>s. PICK s : s = [b \in Nat |-> IF b = u THEN m - u ELSE IF b = m THEN v - m ELSE g.sz[b]]
  OBVIOUS
<1>a. PICK a : a = [b \in Nat |-> IF b = u THEN x ELSE IF b = m THEN y ELSE g.al[b]]
  OBVIOUS
<1>2. s \in [Nat -> Nat] /\ a \in [Nat -> {0, 1}] /\ s[u] = m - u /\ a[u] = x /\ s[m] = v - m /\ a[m] = y
      /\ \A b \in Nat : b # u /\ b # m => s[b] = g.sz[b] /\ a[b] = g.al[b]
  <2>1. \A b \in Nat : g.sz[b] \in Nat /\ g.al[b] \in {0, 1}
    BY <1>0, Fields
  <2>2. m - u \in Nat /\ v - m \in Nat
    BY <1>1
  <2> QED BY <1>1, <1>s, <1>a, <2>1, <2>2
<1>3. Fills({u, m}, s, u, v)
  <2>1. u + s[u] = m /\ s[u] >= 2 /\ m + s[m] = v /\ s[m] >= 2
    BY <1>1, <1>2
  <2> QED BY <1>1, <2>1 DEF Fills
<1>4. Area(g, {u, m}, s, a, u, v, g.hi)
  BY <1>0, <1>1, <1>2, <1>3 DEF Area, Clear
<1>5. q = Retiled(g, {u, m}, s, a, u, v, g.hi)
  BY <1>s, <1>a DEF Two
<1>6. \A b \in {u, m} : Tagged(h2, b, s[b], a[b])
  BY <1>2
<1>7. OK(h2, q) /\ Keeps(h, g, h2, q, Used(g) \ Between(g, u, v))
  <2>1. u \in g.B
    BY DEF Clear
  <2> QED BY <1>4, <1>5, <1>6, <2>1, Reblock
<1>8. q.B = (g.B \ Between(g, u, v)) \cup {u, m} /\ q.sz = s /\ q.al = a /\ q.hi = g.hi /\ q.L = g.L
  BY <1>0, <1>4, <1>5, RetiledIs
<1>9. Splits(g, u, m, v, x, y, q)
  BY <1>2, <1>8 DEF Splits
<1> QED BY <1>7, <1>9

-----------------------------------------------------------------------------
(* The heap grows by x double words, which become one block. *)
Grown(g, x) ==
  Retiled(g, {g.hi}, [b \in Nat |-> IF b = g.hi THEN x ELSE g.sz[b]],
          [b \in Nat |-> IF b = g.hi THEN 0 ELSE g.al[b]], g.hi, g.hi + x, g.hi + x)

Grows(g, x, q) ==
  /\ q.B = g.B \cup {g.hi} /\ q.hi = g.hi + x /\ q.L = g.L /\ q.sz[g.hi] = x /\ q.al[g.hi] = 0
  /\ \A b \in Nat : b # g.hi => q.sz[b] = g.sz[b] /\ q.al[b] = g.al[b]

(* Its words: tags for the area, and the epilogue behind. *)
Extends(h, h2, d, x) ==
  /\ Heap(h2, 8 * (d + x)) /\ Tagged(h2, d, x, 0) /\ h2.mem[2 * (d + x) - 1] = 1
  /\ \A w \in Words : w < 2 * d - 1 \/ w > 2 * (d + x) - 1 => h2.mem[w] = h.mem[w]

(* The table of a heap that mem_sbrk and the new epilogue made longer. *)
LEMMA GrownBlock ==
  ASSUME NEW h, NEW g, OK(h, g), NEW x \in Nat, x >= 2, 8 * (g.hi + x) <= MAX_HEAP,
         NEW h2, Extends(h, h2, g.hi, x), NEW q, q = Grown(g, x)
  PROVE  OK(h2, q) /\ Keeps(h, g, h2, q, Used(g)) /\ Grows(g, x, q) /\ g.hi \notin g.B
<1>0. g \in Tables /\ Tiled(g) /\ Listed(g) /\ 8 * g.hi <= MAX_HEAP
  BY DEF OK
<1>1. PICK u \in Nat : u = g.hi
  BY <1>0, Fields
<1>2. PICK v \in Nat : v = u + x
  OBVIOUS
<1>b. \A b \in g.B : b \in Nat /\ g.sz[b] \in Nat /\ g.sz[b] >= 2 /\ b < u
  BY <1>0, <1>1, Fields DEF Tiled
<1>s. PICK s : s = [b \in Nat |-> IF b = u THEN x ELSE g.sz[b]]
  OBVIOUS
<1>a. PICK a : a = [b \in Nat |-> IF b = u THEN 0 ELSE g.al[b]]
  OBVIOUS
<1>3. s \in [Nat -> Nat] /\ a \in [Nat -> {0, 1}] /\ s[u] = x /\ a[u] = 0
      /\ \A b \in Nat : b # u => s[b] = g.sz[b] /\ a[b] = g.al[b]
  <2>1. \A b \in Nat : g.sz[b] \in Nat /\ g.al[b] \in {0, 1}
    BY <1>0, Fields
  <2> QED BY <1>s, <1>a, <2>1
<1>4. Fills({u}, s, u, v)
  <2>1. u + s[u] = v /\ s[u] >= 2 /\ u < v
    BY <1>2, <1>3
  <2> QED BY <1>1, <2>1 DEF Fills
<1>5. Between(g, u, v) = {} /\ \A b \in g.L : ~(u <= b /\ b < v)
  <2>1. \A b \in g.B : ~(u <= b)
    BY <1>b
  <2>2. g.L \subseteq g.B
    BY <1>0 DEF Listed
  <2> QED BY <2>1, <2>2 DEF Between
<1>6. Area(g, {u}, s, a, u, v, v)
  <2>1. 8 * v <= MAX_HEAP
    BY <1>1, <1>2
  <2> QED BY <1>0, <1>1, <1>3, <1>4, <1>5, <2>1 DEF Area
<1>7. q = Retiled(g, {u}, s, a, u, v, v)
  BY <1>1, <1>2, <1>s, <1>a DEF Grown
<1>8. Rewrites(h, h2, {u}, s, a, u, v, v)
  <2>1. /\ Heap(h2, 8 * v) /\ Tagged(h2, u, x, 0) /\ h2.mem[2 * v - 1] = 1
        /\ \A w \in Words : w < 2 * u - 1 \/ w > 2 * v - 1 => h2.mem[w] = h.mem[w]
    BY <1>1, <1>2 DEF Extends
  <2>2. ASSUME NEW w \in Words, w < 2 * u - 1 \/ (w > 2 * v - 2 /\ w # 2 * v - 1) PROVE h2.mem[w] = h.mem[w]
    <3>1. w \in Int
      BY Sizes8 DEF Words, WSIZE
    <3>2. w < 2 * u - 1 \/ w > 2 * v - 1
      BY <2>2, <3>1
    <3> QED BY <2>1, <3>2
  <2>3. h2.mem[2 * u - 1] = 8 * s[u] + a[u] /\ h2.mem[2 * (u + s[u]) - 2] = 8 * s[u] + a[u]
    BY <1>3, <2>1 DEF Tagged
  <2> QED BY <2>1, <2>2, <2>3 DEF Rewrites
<1>9. OK(h2, q) /\ Keeps(h, g, h2, q, Used(g))
  BY <1>5, <1>6, <1>7, <1>8, Retile
<1>10. q.B = g.B \cup {u} /\ q.sz = s /\ q.al = a /\ q.hi = v /\ q.L = g.L
  BY <1>0, <1>5, <1>6, <1>7, RetiledIs
<1>11. Grows(g, x, q)
  BY <1>1, <1>2, <1>3, <1>10 DEF Grows
<1> QED BY <1>1, <1>b, <1>9, <1>11

(* extend_heap fails beyond the maximum, and else writes the tags of the   *)
(* new block and lists it.                                                 *)
LEMMA ExtendIs ==
  ASSUME NEW h, NEW g, OK(h, g), NEW x \in Nat, x >= 2
  PROVE  /\ 8 * (g.hi + x) > MAX_HEAP => extend_heap(h, 2 * x) = [h |-> h, p |-> NULL]
         /\ 8 * (g.hi + x) <= MAX_HEAP =>
              \E h2 : Extends(h, h2, g.hi, x) /\ extend_heap(h, 2 * x) = Lister(h2, g.hi, x)
<1>0. g \in Tables /\ Tiled(g) /\ Heap(h, 8 * g.hi)
  BY DEF OK
<1>1. PICK d \in Nat : d = g.hi
  BY <1>0, Fields
<1>2. d >= 3 /\ MAX_HEAP \in Nat
  BY <1>0, <1>1, Sizes8 DEF Tiled
<1>3. extend_heap(h, 2 * x) = ExtendBy(mem_sbrk(h, 8 * x), 8 * x)
  <2>1. (2 * x) % 2 = 0 /\ (2 * x) * 4 = 8 * x
    OBVIOUS
  <2> QED BY <2>1 DEF extend_heap, WSIZE
<1>4. h.brk = 8 * d /\ h = [mem |-> h.mem, brk |-> 8 * d] /\ h.mem \in [Words -> Int]
  BY <1>0, <1>1 DEF Heap
<1>5. ASSUME 8 * (d + x) > MAX_HEAP PROVE extend_heap(h, 2 * x) = [h |-> h, p |-> NULL]
  <2>1. h.brk + 8 * x > MAX_HEAP
    BY <1>4, <1>5
  <2>2. mem_sbrk(h, 8 * x) = [h |-> h, p |-> FAIL]
    BY <2>1 DEF mem_sbrk
  <2> QED BY <1>3, <2>2 DEF ExtendBy
<1>6. ASSUME 8 * (d + x) <= MAX_HEAP
      PROVE  \E h2 : Extends(h, h2, d, x) /\ extend_heap(h, 2 * x) = Lister(h2, d, x)
  <2>1. PICK h0 : h0 = [h EXCEPT !.brk = @ + 8 * x]
    OBVIOUS
  <2>2. h0 = [mem |-> h.mem, brk |-> 8 * (d + x)] /\ h0.mem = h.mem
    <3>1. h.brk + 8 * x = 8 * (d + x)
      BY <1>4
    <3>2. h0 = [mem |-> h.mem, brk |-> 8 * (d + x)]
      BY <1>4, <2>1, <3>1
    <3> QED BY <3>2
  <2>3. mem_sbrk(h, 8 * x) = [h |-> h0, p |-> 8 * d]
    <3>1. ~(8 * x < 0 \/ h.brk + 8 * x > MAX_HEAP)
      BY <1>2, <1>4, <1>6
    <3> QED BY <1>4, <2>1, <3>1 DEF mem_sbrk
  <2>4. Heap(h0, 8 * (d + x))
    BY <1>4, <2>2 DEF Heap
  <2>5. PICK h1 : h1 = PutTags(h0, 8 * d, 8 * x, 0)
    OBVIOUS
  <2>6. TagsPut(h0, h1, 8 * (d + x), d, x, 0)
    BY <1>2, <1>6, <2>4, <2>5, PutTagsPut
  <2>7. NEXT_BLKP(h1, 8 * d) = 8 * (d + x)
    <3>1. PICK a \in {0, 1} : a = 0
      OBVIOUS
    <3>2. h1.mem[2 * d - 1] = 8 * x + a
      BY <2>6, <3>1 DEF TagsPut
    <3> QED BY <3>2, Reads
  <2>8. PICK z \in Words : z = 2 * (d + x) - 1
    <3>1. PICK z \in Nat : z = 2 * (d + x) - 1
      BY <1>2
    <3>2. 4 * z < MAX_HEAP
      BY <1>2, <1>6, <3>1
    <3> QED BY <3>1, <3>2, IsWord
  <2>9. PICK h2 : h2 = Set(h1, z, 1)
    OBVIOUS
  <2>10. PutEpilogue(h1, 8 * d) = h2
    <3>1. PICK e \in Nat : e = d + x
      OBVIOUS
    <3>2. PUT(h1, 8 * e - 4, 1) = Set(h1, 2 * e - 1, 1)
      BY WordAt DEF PUT, Set, WSIZE
    <3>3. PACK(0, 1) = 1
      BY DEF PACK
    <3> QED BY <2>7, <2>8, <2>9, <3>1, <3>2, <3>3 DEF PutEpilogue, HDRP, WSIZE
  <2>11. Wrote(h1, h2, 8 * (d + x), z, 1)
    <3>1. Heap(h1, 8 * (d + x))
      BY <2>6 DEF TagsPut
    <3> QED BY <2>9, <3>1, SetWrites
  <2>12. Extends(h, h2, d, x)
    <3>1. /\ Heap(h2, 8 * (d + x)) /\ h2.mem[2 * (d + x) - 1] = 1
          /\ \A w \in Words : w # 2 * (d + x) - 1 => h2.mem[w] = h1.mem[w]
      BY <2>8, <2>11 DEF Wrote
    <3>2. Tagged(h1, d, x, 0) /\ \A w \in Words : w # 2 * d - 1 /\ w # 2 * (d + x) - 2 => h1.mem[w] = h.mem[w]
      BY <2>2, <2>6 DEF TagsPut, Tagged
    <3>3. 2 * d - 1 \in Words /\ 2 * (d + x) - 2 \in Words
      <4>1. PICK y \in Nat, w \in Nat : y = 2 * d - 1 /\ w = 2 * (d + x) - 2
        BY <1>2
      <4>2. 4 * y < MAX_HEAP /\ 4 * w < MAX_HEAP
        BY <1>2, <1>6, <4>1
      <4>3. y \in Words /\ w \in Words
        BY <4>2, IsWord
      <4> QED BY <4>1, <4>3
    <3>4. 2 * d - 1 # 2 * (d + x) - 1 /\ 2 * (d + x) - 2 # 2 * (d + x) - 1
      OBVIOUS
    <3>5. Tagged(h2, d, x, 0)
      BY <3>1, <3>2, <3>3, <3>4 DEF Tagged
    <3>6. ASSUME NEW w \in Words, w < 2 * d - 1 \/ w > 2 * (d + x) - 1 PROVE h2.mem[w] = h.mem[w]
      <4>1. w \in Int
        BY Sizes8 DEF Words, WSIZE
      <4>2. w # 2 * d - 1 /\ w # 2 * (d + x) - 2 /\ w # 2 * (d + x) - 1
        BY <3>6, <4>1
      <4> QED BY <3>1, <3>2, <4>2
    <3> QED BY <3>1, <3>5, <3>6 DEF Extends
  <2>13. extend_heap(h, 2 * x) = Lister(h2, d, x)
    <3>1. 8 * d # FAIL
      BY <1>2 DEF FAIL
    <3> QED BY <1>3, <2>3, <2>5, <2>10, <3>1 DEF ExtendBy, Lister
  <2> QED BY <2>12, <2>13
<1> QED BY <1>1, <1>5, <1>6

(* The heap is extended, or there is no room left. *)
Extending(h, k, g, x) ==
  \/ /\ 8 * (g.hi + x) > MAX_HEAP
     /\ extend_heap(h, 2 * x) = [h |-> h, p |-> NULL] /\ extend_heap(k, 2 * x) = [h |-> k, p |-> NULL]
  \/ \E g2, u : /\ Comes(h, g, extend_heap(h, 2 * x).h, extend_heap(k, 2 * x).h, g2, Used(g))
                /\ extend_heap(h, 2 * x).p = 8 * u /\ extend_heap(k, 2 * x).p = 8 * u
                /\ u \in g2.L /\ g2.sz[u] >= x /\ g2.hi = g.hi + x

(* extend_heap leaves a heap in order, or the heap it found. *)
LEMMA ExtendHeap ==
  ASSUME NEW h, NEW k, NEW g, OK(h, g), OK(k, g), Full(g), NEW x \in Nat, x >= 2
  PROVE  Extending(h, k, g, x)
<1>0. g \in Tables /\ Tiled(g) /\ Listed(g) /\ g.hi \in Nat /\ MAX_HEAP \in Nat
  BY Fields, Sizes8 DEF OK
<1>1. CASE 8 * (g.hi + x) > MAX_HEAP
  BY <1>1, ExtendIs DEF Extending
<1>2. CASE 8 * (g.hi + x) <= MAX_HEAP
  <2>1. PICK h1 : Extends(h, h1, g.hi, x) /\ extend_heap(h, 2 * x) = Lister(h1, g.hi, x)
    BY <1>2, ExtendIs
  <2>2. PICK k1 : Extends(k, k1, g.hi, x) /\ extend_heap(k, 2 * x) = Lister(k1, g.hi, x)
    BY <1>2, ExtendIs
  <2>3. PICK q : q = Grown(g, x)
    OBVIOUS
  <2>4. OK(h1, q) /\ Keeps(h, g, h1, q, Used(g)) /\ Grows(g, x, q) /\ g.hi \notin g.B
    BY <1>2, <2>1, <2>3, GrownBlock
  <2>5. OK(k1, q)
    BY <1>2, <2>2, <2>3, GrownBlock
  <2>6. g.hi \in q.B /\ q.al[g.hi] = 0 /\ x = q.sz[g.hi] /\ q.hi = g.hi + x
    BY <2>4 DEF Grows
  <2>7. g.hi \notin q.L
    BY <1>0, <2>4 DEF Grows, Listed
  <2>8. FullBut(q, g.hi)
    <3> SUFFICES ASSUME NEW c \in q.B, q.al[c] = 0, c # g.hi PROVE c \in q.L
      BY DEF FullBut
    <3>1. c \in g.B /\ c \in Nat /\ q.al[c] = g.al[c]
      BY <1>0, <2>4, Fields DEF Grows
    <3> QED BY <2>4, <3>1 DEF Grows, Full
  <2>9. PICK hc : hc = extend_heap(h, 2 * x)
    OBVIOUS
  <2>10. PICK kc : kc = extend_heap(k, 2 * x)
    OBVIOUS
  <2>11. PICK g2, u : Frees(h1, q, hc, kc, Used(q), x, g2, u)
    BY <2>1, <2>2, <2>4, <2>5, <2>6, <2>7, <2>8, <2>9, <2>10, FreeUp
  <2>12. /\ Comes(h1, q, hc.h, kc.h, g2, Used(q)) /\ hc.p = 8 * u /\ kc.p = 8 * u
         /\ u \in g2.L /\ g2.sz[u] >= x /\ g2.hi = q.hi
    BY <2>11 DEF Frees
  <2>13. Comes(h, g, hc.h, kc.h, g2, Used(g))
    <3>1. OK(hc.h, g2) /\ OK(kc.h, g2) /\ Full(g2) /\ Keeps(h1, q, hc.h, g2, Used(q))
      BY <2>12 DEF Comes
    <3>2. Used(g) \subseteq Used(q)
      BY <2>4, KeepsUsed
    <3>3. Keeps(h, g, hc.h, g2, Used(g))
      BY <2>4, <3>1, <3>2, KeepsOn
    <3> QED BY <3>1, <3>3 DEF Comes
  <2>14. \E g3, w : /\ Comes(h, g, hc.h, kc.h, g3, Used(g)) /\ hc.p = 8 * w /\ kc.p = 8 * w
                    /\ w \in g3.L /\ g3.sz[w] >= x /\ g3.hi = g.hi + x
    BY <2>6, <2>12, <2>13
  <2> QED BY <2>9, <2>10, <2>14 DEF Extending
<1> QED BY <1>0, <1>1, <1>2

-----------------------------------------------------------------------------
(* A list holds all the listed blocks of its class. *)
Lists(g, i, s) ==
  /\ s \in Seq(Int) /\ Len(s) \in Nat /\ Len(s) >= 1 /\ s[1] = 8 * g.hd[i] /\ s[Len(s)] = 0
  /\ \A j \in 1 .. Len(s) : s[j] # 0 => \E b \in g.L : s[j] = 8 * b /\ Class(g.sz[b]) = i
  /\ \A j \in 1 .. (Len(s) - 1) : s[j] # 0 /\ \A b \in g.L : s[j] = 8 * b => s[j + 1] = 8 * g.pv[b]

(* List, from a head on, is the list of that class, in both heaps. *)
LEMMA ListOf ==
  ASSUME NEW h, NEW k, NEW g, OK(h, g), OK(k, g), NEW i \in Idx
  PROVE  Lists(g, i, List(h, 8 * g.hd[i])) /\ List(k, 8 * g.hd[i]) = List(h, 8 * g.hd[i])
<1>0. g \in Tables
  BY DEF OK
<1>1. 8 * g.hd[i] \in Spots(g)
  BY SpotsIs
<1>2. List(k, 8 * g.hd[i]) = List(h, 8 * g.hd[i])
  BY <1>1, ListIs
<1>3. PICK s : s = List(h, 8 * g.hd[i])
  OBVIOUS
<1>4. /\ s \in Seq(Int) /\ Len(s) \in Nat /\ Len(s) >= 1 /\ s[1] = 8 * g.hd[i] /\ s[Len(s)] = 0
      /\ \A j \in 1 .. Len(s) : s[j] # 0 =>
           /\ s[j] \div 8 \in g.L /\ s[j] = 8 * (s[j] \div 8) /\ s[j] \div 8 \in Nat
           /\ Class(g.sz[s[j] \div 8]) = i
      /\ \A j \in 1 .. (Len(s) - 1) : s[j] # 0 /\ s[j + 1] = 8 * g.pv[s[j] \div 8]
  BY <1>3, ListBlocks
<1>5. \A j \in 1 .. Len(s) : s[j] # 0 => \E b \in g.L : s[j] = 8 * b /\ Class(g.sz[b]) = i
  BY <1>4
<1>6. ASSUME NEW j \in 1 .. (Len(s) - 1), NEW b \in g.L, s[j] = 8 * b
      PROVE  s[j + 1] = 8 * g.pv[b]
  <2>1. b \in Nat
    BY <1>0, Fields
  <2>2. (8 * b) \div 8 = b
    BY <2>1
  <2> QED BY <1>4, <1>6, <2>2
<1> QED BY <1>2, <1>3, <1>4, <1>5, <1>6 DEF Lists

(* The blocks that come before b on the way from the head. *)
Ahead(g, b) == {c \in g.L : g.rk[c] > g.rk[b]}

(* Ahead is finite, so that one can count down along a list. *)
LEMMA AheadFinite ==
  ASSUME NEW g \in Tables, Tiled(g), Listed(g), NEW b
  PROVE  IsFiniteSet(Ahead(g, b)) /\ Cardinality(Ahead(g, b)) \in Nat
<1>1. PICK n \in Nat : n = g.hi
  BY Fields
<1>2. Ahead(g, b) \subseteq 0 .. n
  <2> SUFFICES ASSUME NEW c \in g.L PROVE c \in 0 .. n
    BY DEF Ahead
  <2>1. c \in g.B /\ c \in Nat /\ g.sz[c] \in Nat
    BY Fields DEF Listed
  <2>2. c + g.sz[c] <= g.hi
    BY <2>1 DEF Tiled
  <2> QED BY <1>1, <2>1, <2>2
<1>3. IsFiniteSet(0 .. n)
  BY FS_Interval
<1> QED BY <1>2, <1>3, FS_Subset, FS_CardinalityType

(* No listed block is missed: a walk from the head of its class reaches    *)
(* it.                                                                     *)
LEMMA ListAll ==
  ASSUME NEW g \in Tables, Tiled(g), Listed(g), NEW i \in Idx, NEW s, Lists(g, i, s)
  PROVE  \A b \in g.L : Class(g.sz[b]) = i => \E j \in 1 .. Len(s) : s[j] = 8 * b
<1> DEFINE On(b) == \E j \in 1 .. Len(s) : s[j] = 8 * b
           Bad == {b \in g.L : Class(g.sz[b]) = i /\ ~On(b)}
           Far == {Cardinality(Ahead(g, b)) : b \in Bad}
<1> SUFFICES ASSUME Bad # {} PROVE FALSE
  OBVIOUS
<1>0. Len(s) \in Nat /\ Len(s) >= 1 /\ s[1] = 8 * g.hd[i] /\ s[Len(s)] = 0
  BY DEF Lists
<1>1. Far \subseteq Nat /\ Far # {}
  BY AheadFinite
<1>2. PICK x \in Far : \A y \in Far : x <= y
  BY <1>1, LeastNat
<1>3. PICK b \in Bad : x = Cardinality(Ahead(g, b))
  OBVIOUS
<1>4. b \in g.L /\ Class(g.sz[b]) = i /\ ~On(b) /\ b \in Nat
  BY Fields
<1>5. g.nx[b] # 0
  <2> SUFFICES ASSUME g.nx[b] = 0 PROVE FALSE
    OBVIOUS
  <2>1. s[1] = 8 * b /\ 1 \in 1 .. Len(s)
    BY <1>0, <1>4 DEF Listed
  <2> QED BY <1>4, <2>1
<1>6. PICK n : n = g.nx[b]
  OBVIOUS
<1>7. n \in g.L /\ g.pv[n] = b /\ Class(g.sz[n]) = i /\ n \in Nat /\ n # 0
  BY <1>4, <1>5, <1>6, Fields DEF Listed
<1>8. g.rk[b] < g.rk[n] /\ g.rk[b] \in Nat /\ g.rk[n] \in Nat
  <2>1. b # 0
    <3>1. b \in g.B
      BY <1>4 DEF Listed
    <3>2. b >= Lo /\ Lo >= 3 /\ Lo \in Nat
      BY <3>1, Sizes8 DEF Tiled
    <3> QED BY <1>4, <3>2
  <2>2. g.rk[g.pv[n]] < g.rk[n]
    BY <1>7, <2>1 DEF Listed
  <2> QED BY <1>4, <1>7, <2>2, Fields
<1>9. Cardinality(Ahead(g, n)) < Cardinality(Ahead(g, b))
  <2>1. Ahead(g, n) \subseteq Ahead(g, b)
    <3> SUFFICES ASSUME NEW c \in g.L, g.rk[c] > g.rk[n] PROVE g.rk[c] > g.rk[b]
      BY DEF Ahead
    <3>1. g.rk[c] \in Nat
      BY Fields
    <3> QED BY <1>8, <3>1
  <2>2. n \in Ahead(g, b) /\ n \notin Ahead(g, n)
    BY <1>7, <1>8 DEF Ahead
  <2>3. Ahead(g, n) # Ahead(g, b)
    BY <2>2
  <2> QED BY <2>1, <2>3, AheadFinite, FS_Subset
<1>10. On(n)
  <2> SUFFICES ASSUME n \in Bad PROVE FALSE
    BY <1>7
  <2>1. Cardinality(Ahead(g, n)) \in Far
    OBVIOUS
  <2>2. x <= Cardinality(Ahead(g, n))
    BY <1>2, <2>1
  <2> QED BY <1>3, <1>9, <2>2, AheadFinite
<1>11. PICK j \in 1 .. Len(s) : s[j] = 8 * n
  BY <1>10
<1>12. j \in 1 .. (Len(s) - 1)
  BY <1>0, <1>7, <1>11
<1>13. s[j + 1] = 8 * b
  BY <1>7, <1>11, <1>12 DEF Lists
<1>14. j + 1 \in 1 .. Len(s)
  BY <1>0, <1>12
<1> QED BY <1>4, <1>13, <1>14

-----------------------------------------------------------------------------
(* FirstFit finds the same block in both heaps, and one if there is one. *)
Fit(g, i, n, x) ==
  \/ x = 0 /\ \A b \in g.L : Class(g.sz[b]) = i => 8 * g.sz[b] < n
  \/ \E b \in g.L : x = 8 * b /\ 8 * g.sz[b] >= n

(* FirstFit returns a listed block that is large enough, the same in both  *)
(* heaps, and NULL only if the list has none.                              *)
LEMMA FirstFitIs ==
  ASSUME NEW h, NEW k, NEW g, OK(h, g), OK(k, g), NEW i \in Idx, NEW n \in Nat
  PROVE  /\ Fit(g, i, n, FirstFit(h, n, 8 * g.hd[i]))
         /\ FirstFit(k, n, 8 * g.hd[i]) = FirstFit(h, n, 8 * g.hd[i])
<1>0. g \in Tables /\ Tiled(g) /\ Listed(g)
  BY DEF OK
<1>1. PICK s : s = List(h, 8 * g.hd[i])
  OBVIOUS
<1>2. Lists(g, i, s) /\ List(k, 8 * g.hd[i]) = s
  BY <1>1, ListOf
<1>3. PICK fits : fits = {j \in 1 .. Len(s) : s[j] # 0 /\ n <= GET_BLK_SIZE(h, s[j])}
  OBVIOUS
<1>4. ASSUME NEW j \in 1 .. Len(s), s[j] # 0
      PROVE  \E b \in g.L : s[j] = 8 * b /\ GET_BLK_SIZE(h, s[j]) = 8 * g.sz[b]
                                          /\ GET_BLK_SIZE(k, s[j]) = 8 * g.sz[b]
  <2>1. PICK b \in g.L : s[j] = 8 * b
    BY <1>2, <1>4 DEF Lists
  <2>2. b \in g.B
    BY <1>0 DEF Listed
  <2> QED BY <2>1, <2>2, ReadTags
<1>5. DOMAIN s = 1 .. Len(s) /\ Len(s) \in Nat
  BY <1>2 DEF Lists
<1>6. fits = {j \in 1 .. Len(s) : s[j] # 0 /\ n <= GET_BLK_SIZE(k, s[j])}
  BY <1>3, <1>4
<1>7. FirstFit(h, n, 8 * g.hd[i]) = IF fits = {} THEN 0 ELSE s[Min(fits)]
  BY <1>1, <1>3, <1>5 DEF FirstFit, NULL
<1>8. FirstFit(k, n, 8 * g.hd[i]) = IF fits = {} THEN 0 ELSE s[Min(fits)]
  BY <1>2, <1>6, <1>5 DEF FirstFit, NULL
<1>9. CASE fits = {}
  <2>1. ASSUME NEW b \in g.L, Class(g.sz[b]) = i PROVE 8 * g.sz[b] < n
    <3>1. PICK j \in 1 .. Len(s) : s[j] = 8 * b
      BY <1>0, <1>2, <2>1, ListAll
    <3>2. b \in g.B /\ b \in Nat /\ g.sz[b] \in Nat
      BY <1>0, Fields DEF Listed
    <3>3. b # 0
      BY <1>0, <3>2, Sizes8 DEF Tiled
    <3>4. GET_BLK_SIZE(h, 8 * b) = 8 * g.sz[b]
      BY <3>2, ReadTags
    <3>5. 8 * b # 0
      BY <3>2, <3>3
    <3>6. ~(n <= 8 * g.sz[b])
      BY <1>3, <1>9, <3>1, <3>4, <3>5
    <3> QED BY <3>2, <3>6
  <2> QED BY <1>7, <1>8, <1>9, <2>1 DEF Fit
<1>10. CASE fits # {}
  <2>1. Min(fits) \in fits
    <3>1. fits \subseteq Nat
      BY <1>3, <1>5
    <3> QED BY <1>10, <3>1, MinIs
  <2>2. PICK j \in 1 .. Len(s) : j = Min(fits) /\ s[j] # 0 /\ n <= GET_BLK_SIZE(h, s[j])
    BY <1>3, <2>1
  <2>3. PICK b \in g.L : s[j] = 8 * b /\ GET_BLK_SIZE(h, s[j]) = 8 * g.sz[b]
    BY <1>4, <2>2
  <2>4. 8 * g.sz[b] >= n
    <3>1. g.sz[b] \in Nat
      BY <1>0, Fields
    <3> QED BY <2>2, <2>3, <3>1
  <2> QED BY <1>7, <1>8, <1>10, <2>2, <2>3, <2>4 DEF Fit
<1> QED BY <1>9, <1>10

-----------------------------------------------------------------------------
(* The powers of two that separate the classes are positive. *)
LEMMA PowIs ==
  ASSUME NEW i \in 0 .. SEG_SIZE
  PROVE  2^i \in Nat \ {0}
<1> DEFINE Bad == {n \in 0 .. SEG_SIZE : ~(2^n \in Nat \ {0})}
<1> SUFFICES ASSUME Bad # {} PROVE FALSE
  OBVIOUS
<1>0. SEG_SIZE \in Nat
  BY Sizes8
<1>1. Bad \subseteq Nat
  BY <1>0
<1>2. PICK n \in Bad : \A m \in Bad : n <= m
  BY <1>1, LeastNat
<1>3. n # 0
  <2> SUFFICES ASSUME n = 0 PROVE FALSE
    OBVIOUS
  <2>1. 2^0 = 1
    BY MmAssumption
  <2>2. 2^n = 1
    BY <2>1
  <2>3. ~(2^n \in Nat \ {0})
    OBVIOUS
  <2> QED BY <2>2, <2>3
<1>4. n - 1 \in 0 .. SEG_SIZE /\ n - 1 \notin Bad
  BY <1>0, <1>2, <1>3
<1>5. 2^(n - 1) \in Nat \ {0}
  BY <1>4
<1>6. 2^((n - 1) + 1) = 2 * 2^(n - 1)
  BY <1>4, MmAssumption
<1>7. (n - 1) + 1 = n
  BY <1>0
<1> QED BY <1>5, <1>6, <1>7

(* A quotient of at most 1. *)
LEMMA AtMostOne ==
  ASSUME NEW a \in Nat, NEW p \in Nat \ {0}
  PROVE  a \div p <= 1 <=> a < 2 * p
<1>1. PICK q \in Int : q = a \div p
  OBVIOUS
<1>2. PICK r \in Int : r = a % p
  OBVIOUS
<1>3. a = p * q + r /\ 0 <= r /\ r < p
  BY <1>1, <1>2
<1>4. q <= 1 => a < 2 * p
  BY <1>3
<1>5. a < 2 * p => q <= 1
  BY <1>3
<1> QED BY <1>1, <1>4, <1>5

(* Every block at least as large as a request is on a list that find_fit   *)
(* looks at.                                                               *)
LEMMA ClassLooked ==
  ASSUME NEW t \in Nat, NEW n \in Nat, n <= 8 * t, n < 2^SEG_SIZE
  PROVE  n \div 2^Class(t) <= 1
<1>0. SEG_SIZE \in Nat \ {0}
  BY Sizes8
<1>1. PICK c \in Idx : c = Class(t)
  BY ClassIs
<1>2. PICK p \in Nat \ {0} : p = 2^c
  <2>1. c \in 0 .. SEG_SIZE
    BY <1>0 DEF Idx
  <2> QED BY <2>1, PowIs
<1>3. PICK S : S = {SEG_SIZE - 1} \cup {i \in 0 .. (SEG_SIZE - 1) : (8 * t) \div 2^i <= 1}
  OBVIOUS
<1>4. c \in S
  <2>1. S \subseteq Nat /\ S # {}
    BY <1>0, <1>3
  <2>2. c = Min(S)
    BY <1>1, <1>3 DEF Class, SegIndex
  <2> QED BY <2>1, <2>2, MinIs
<1>5. CASE (8 * t) \div 2^c <= 1
  <2>1. 8 * t < 2 * p
    BY <1>2, <1>5, AtMostOne
  <2>2. n < 2 * p
    BY <2>1
  <2> QED BY <1>1, <1>2, <2>2, AtMostOne
<1>6. CASE c = SEG_SIZE - 1
  <2>1. 2^SEG_SIZE = 2 * p
    <3>1. c \in 0 .. SEG_SIZE /\ c + 1 = SEG_SIZE
      BY <1>0, <1>6
    <3>2. 2^(c + 1) = 2 * 2^c
      BY <3>1, MmAssumption
    <3> QED BY <1>2, <3>1, <3>2
  <2>2. n < 2 * p
    BY <2>1
  <2> QED BY <1>1, <1>2, <2>2, AtMostOne
<1> QED BY <1>3, <1>4, <1>5, <1>6

(* The word after the list array is no list. *)
LEMMA NoList ==
  ASSUME NEW h, NEW g, OK(h, g), NEW n
  PROVE  FirstFit(h, n, 0) = 0 /\ GET_SEG_LIST_PTR(h, SEG_SIZE) = 0
<1>0. 0 \in Spots(g)
  BY DEF Spots
<1>1. PICK s : s = List(h, 0)
  OBVIOUS
<1>2. Chain(g, s, 0, STEPS)
  BY <1>0, <1>1, ListIs
<1>3. Len(s) = 1 /\ s[1] = 0 /\ DOMAIN s = 1 .. Len(s)
  <2>1. s \in Seq(Int) /\ Len(s) \in 1 .. (STEPS + 1) /\ s[1] = 0
        /\ \A j \in 1 .. (Len(s) - 1) : s[j] # 0
    BY <1>2 DEF Chain
  <2>2. Len(s) \in Nat /\ Len(s) >= 1
    BY <2>1, StepsIs
  <2>3. ~(1 \in 1 .. (Len(s) - 1))
    BY <2>1
  <2>4. Len(s) = 1
    BY <2>2, <2>3
  <2>5. DOMAIN s = 1 .. Len(s)
    BY <2>1
  <2> QED BY <2>1, <2>4, <2>5
<1>4. {j \in DOMAIN s : s[j] # 0 /\ n <= GET_BLK_SIZE(h, s[j])} = {}
  BY <1>3
<1>5. FirstFit(h, n, 0) = 0
  BY <1>1, <1>4 DEF FirstFit, NULL
<1>6. GET_SEG_LIST_PTR(h, SEG_SIZE) = h.mem[SEG_SIZE]
  <2>1. SEG_SIZE \in Nat
    BY Sizes8
  <2>2. (SEG_SIZE * 4) \div 4 = SEG_SIZE
    BY <2>1
  <2> QED BY <2>2 DEF GET_SEG_LIST_PTR, GET, WSIZE
<1> QED BY <1>5, <1>6 DEF OK, Tags

(* What GET_SEG_LIST_PTR reads. *)
LEMMA HeadIs ==
  ASSUME NEW h, NEW g, OK(h, g), NEW i \in Idx
  PROVE  GET_SEG_LIST_PTR(h, i) = 8 * g.hd[i]
<1>1. i \in Nat
  BY Sizes8 DEF Idx
<1>2. (i * 4) \div 4 = i
  BY <1>1
<1> QED BY <1>2 DEF GET_SEG_LIST_PTR, GET, WSIZE, OK, Links

(* find_fit finds the same block in both heaps, and one if there is one. *)
Fitting(h, k, g, n) ==
  /\ find_fit(k, n) = find_fit(h, n)
  /\ \/ find_fit(h, n) = NULL /\ (n < 2^SEG_SIZE => \A b \in g.L : 8 * g.sz[b] < n)
     \/ \E b \in g.L : find_fit(h, n) = 8 * b /\ 8 * g.sz[b] >= n

(* find_fit returns a listed block of the size asked for, the same in both *)
(* heaps; if it returns NULL, no list it searches has one.                 *)
LEMMA FindFit ==
  ASSUME NEW h, NEW k, NEW g, OK(h, g), OK(k, g), NEW n \in Nat
  PROVE  Fitting(h, k, g, n)
<1>0. g \in Tables /\ Tiled(g) /\ Listed(g) /\ SEG_SIZE \in Nat \ {0}
  BY Sizes8 DEF OK
<1> DEFINE fh(i) == FirstFit(h, n, GET_SEG_LIST_PTR(h, i))
           fk(i) == FirstFit(k, n, GET_SEG_LIST_PTR(k, i))
<1>1. \A i \in Idx : Fit(g, i, n, fh(i)) /\ fk(i) = fh(i)
  <2> SUFFICES ASSUME NEW i \in Idx PROVE Fit(g, i, n, fh(i)) /\ fk(i) = fh(i)
    OBVIOUS
  <2>1. GET_SEG_LIST_PTR(h, i) = 8 * g.hd[i] /\ GET_SEG_LIST_PTR(k, i) = 8 * g.hd[i]
    BY HeadIs
  <2> QED BY <2>1, FirstFitIs
<1>2. fh(SEG_SIZE) = 0 /\ fk(SEG_SIZE) = 0
  BY NoList
<1>3. \A i \in 0 .. SEG_SIZE : i \in Idx \/ i = SEG_SIZE
  BY <1>0 DEF Idx
<1>4. PICK fits : fits = {i \in 0 .. SEG_SIZE : n \div 2^i <= 1 /\ fh(i) # NULL}
  OBVIOUS
<1>5. fits = {i \in 0 .. SEG_SIZE : n \div 2^i <= 1 /\ fk(i) # NULL}
  <2>1. \A i \in 0 .. SEG_SIZE : fk(i) = fh(i)
    BY <1>1, <1>2, <1>3
  <2> HIDE DEF fh, fk
  <2> QED BY <1>4, <2>1
<1>6. fits \subseteq Idx
  <2> HIDE DEF fh, fk
  <2> QED BY <1>2, <1>3, <1>4 DEF NULL
<1>7. find_fit(h, n) = IF fits = {} THEN NULL ELSE fh(Min(fits))
  BY <1>4 DEF find_fit
<1>8. find_fit(k, n) = IF fits = {} THEN NULL ELSE fk(Min(fits))
  BY <1>5 DEF find_fit
<1> HIDE DEF fh, fk
<1>9. CASE fits = {}
  <2> SUFFICES ASSUME n < 2^SEG_SIZE, NEW b \in g.L PROVE 8 * g.sz[b] < n
    BY <1>7, <1>8, <1>9 DEF Fitting
  <2>1. PICK t \in Nat : t = g.sz[b]
    BY <1>0, Fields
  <2> SUFFICES ASSUME n <= 8 * t PROVE FALSE
    BY <2>1
  <2>2. PICK c \in Idx : c = Class(t)
    BY ClassIs
  <2>3. n \div 2^c <= 1
    BY <2>2, ClassLooked
  <2>4. fh(c) = 0
    <3>1. c \in 0 .. SEG_SIZE
      BY <1>0 DEF Idx
    <3> QED BY <1>4, <1>9, <2>3, <3>1 DEF NULL
  <2>5. Fit(g, c, n, 0)
    BY <1>1, <2>4
  <2>6. ASSUME NEW x \in g.L, 0 = 8 * x PROVE FALSE
    <3>1. x \in g.B /\ x \in Nat
      BY <1>0, Fields DEF Listed
    <3>2. x >= Lo
      BY <1>0, <3>1 DEF Tiled
    <3> QED BY <2>6, <3>1, <3>2, Sizes8
  <2>7. 8 * t < n
    BY <2>1, <2>2, <2>5, <2>6 DEF Fit
  <2> QED BY <2>7
<1>10. CASE fits # {}
  <2>1. fits \subseteq Nat
    BY <1>0, <1>6 DEF Idx
  <2>2. PICK i \in fits : i = Min(fits)
    BY <1>10, <2>1, MinIs
  <2>3. i \in Idx /\ fh(i) # 0
    BY <1>4, <1>6, <2>2 DEF NULL
  <2>4. Fit(g, i, n, fh(i)) /\ fk(i) = fh(i)
    BY <1>1, <2>3
  <2>5. find_fit(h, n) = fh(i) /\ find_fit(k, n) = fh(i)
    BY <1>7, <1>8, <1>10, <2>2, <2>4
  <2>6. \E b \in g.L : fh(i) = 8 * b /\ 8 * g.sz[b] >= n
    BY <2>3, <2>4 DEF Fit
  <2> QED BY <2>5, <2>6 DEF Fitting
<1> QED BY <1>9, <1>10

-----------------------------------------------------------------------------
(* Split writes the tags of two blocks. *)
LEMMA SplitWords ==
  ASSUME NEW h, NEW brk, Heap(h, brk), NEW u \in Nat, u >= 1, NEW m \in Nat, m >= u + 2, NEW v \in Nat, v >= m + 2,
         8 * v <= MAX_HEAP, NEW x \in {0, 1}, NEW y \in {0, 1},
         NEW k, k = Split(h, 8 * u, 8 * (m - u), x, 8 * (v - m), y)
  PROVE  Heap(k, brk) /\ Outside(h, k, u, v) /\ Tagged(k, u, m - u, x) /\ Tagged(k, m, v - m, y)
<1>1. PICK t \in Nat : t = m - u
  OBVIOUS
<1>2. PICK r \in Nat : r = v - m
  OBVIOUS
<1>3. t >= 2 /\ r >= 2 /\ m = u + t /\ v = m + r /\ MAX_HEAP \in Nat
  BY <1>1, <1>2, Sizes8
<1>4. PICK o : o = PutTags(h, 8 * u, 8 * t, x)
  OBVIOUS
<1>5. TagsPut(h, o, brk, u, t, x)
  <2>1. 8 * (u + t) <= MAX_HEAP
    BY <1>3
  <2> QED BY <1>3, <1>4, <2>1, PutTagsPut
<1>6. k = PutTags(o, 8 * m, 8 * r, y)
  <2>1. 8 * u + 8 * t = 8 * m
    BY <1>3
  <2> QED BY <1>1, <1>2, <1>4, <2>1 DEF Split
<1>7. TagsPut(o, k, brk, m, r, y)
  <2>1. 8 * (m + r) <= MAX_HEAP /\ m >= 1
    BY <1>3
  <2>2. Heap(o, brk)
    BY <1>5 DEF TagsPut
  <2> QED BY <1>3, <1>6, <2>1, <2>2, PutTagsPut
<1>8. /\ Heap(o, brk) /\ o.mem[2 * u - 1] = 8 * t + x /\ o.mem[2 * m - 2] = 8 * t + x
      /\ \A w \in Words : w # 2 * u - 1 /\ w # 2 * m - 2 => o.mem[w] = h.mem[w]
  BY <1>3, <1>5 DEF TagsPut
<1>9. /\ Heap(k, brk) /\ k.mem[2 * m - 1] = 8 * r + y /\ k.mem[2 * v - 2] = 8 * r + y
      /\ \A w \in Words : w # 2 * m - 1 /\ w # 2 * v - 2 => k.mem[w] = o.mem[w]
  BY <1>3, <1>7 DEF TagsPut
<1>10. PICK e \in Words, f \in Words : e = 2 * u - 1 /\ f = 2 * m - 2
  <2>1. PICK e \in Nat, f \in Nat : e = 2 * u - 1 /\ f = 2 * m - 2
    BY <1>3
  <2>2. 4 * e < MAX_HEAP /\ 4 * f < MAX_HEAP
    BY <1>3, <2>1
  <2>3. e \in Words /\ f \in Words
    BY <2>2, IsWord
  <2> QED BY <2>1, <2>3
<1>11. k.mem[e] = 8 * t + x /\ k.mem[f] = 8 * t + x
  <2>1. e # 2 * m - 1 /\ e # 2 * v - 2 /\ f # 2 * m - 1 /\ f # 2 * v - 2
    BY <1>3, <1>10
  <2>2. k.mem[e] = o.mem[e] /\ k.mem[f] = o.mem[f]
    BY <1>9, <2>1
  <2> QED BY <1>8, <1>10, <2>2
<1>12. Outside(h, k, u, v)
  <2> SUFFICES ASSUME NEW w \in Words, w < 2 * u - 1 \/ w > 2 * v - 2 PROVE k.mem[w] = h.mem[w]
    BY DEF Outside
  <2>1. w \in Int
    BY Sizes8 DEF Words, WSIZE
  <2>2. w # 2 * u - 1 /\ w # 2 * m - 2 /\ w # 2 * m - 1 /\ w # 2 * v - 2
    BY <1>3, <2>1
  <2> QED BY <1>8, <1>9, <2>2
<1>13. Tagged(k, u, t, x)
  BY <1>3, <1>10, <1>11 DEF Tagged
<1>14. Tagged(k, m, r, y)
  BY <1>3, <1>9 DEF Tagged
<1> QED BY <1>1, <1>2, <1>9, <1>12, <1>13, <1>14

Halved(h, g, u, m, v, x, y, h2, q) ==
  OK(h2, q) /\ Keeps(h, g, h2, q, Used(g) \ Between(g, u, v)) /\ Splits(g, u, m, v, x, y, q)

(* Split leaves a heap in order with two blocks in the area. *)
LEMMA SplitIs ==
  ASSUME NEW h, NEW g, OK(h, g), NEW u, NEW v, Clear(g, u, v), NEW m \in Nat, m >= u + 2, v >= m + 2,
         NEW x \in {0, 1}, NEW y \in {0, 1}, NEW h2, h2 = Split(h, 8 * u, 8 * (m - u), x, 8 * (v - m), y),
         NEW q, q = Two(g, u, m, v, x, y)
  PROVE  Halved(h, g, u, m, v, x, y, h2, q)
<1>0. g \in Tables /\ Tiled(g) /\ 8 * g.hi <= MAX_HEAP /\ Heap(h, 8 * g.hi) /\ MAX_HEAP \in Nat
  BY Sizes8 DEF OK
<1>1. u \in Nat /\ v \in Nat /\ u >= 1 /\ 8 * v <= MAX_HEAP
  <2>1. u \in Nat /\ v \in Nat /\ g.hi \in Nat /\ v <= g.hi /\ u >= Lo /\ Lo >= 3 /\ Lo \in Nat
    BY <1>0, ClearIs
  <2> QED BY <1>0, <2>1
<1>2. Heap(h2, 8 * g.hi) /\ Outside(h, h2, u, v) /\ Tagged(h2, u, m - u, x) /\ Tagged(h2, m, v - m, y)
  BY <1>0, <1>1, SplitWords
<1> QED BY <1>2, TwoBlocks DEF Halved

(* One more block is listed. *)
EnlistsIn(h, k, g, b, h2, k2) ==
  \E u : /\ OK(h2, u) /\ OK(k2, u) /\ Keeps(h, g, h2, u, Used(g))
         /\ u.B = g.B /\ u.sz = g.sz /\ u.al = g.al /\ u.hi = g.hi /\ u.L = g.L \cup {b}

(* add_seglist in two heaps with one table. *)
LEMMA EnlistIn ==
  ASSUME NEW h, NEW k, NEW g, OK(h, g), OK(k, g), NEW b \in g.B, b \notin g.L, g.al[b] = 0, NEW t, t = g.sz[b],
         NEW h2, h2 = add_seglist(h, 8 * b, 8 * t), NEW k2, k2 = add_seglist(k, 8 * b, 8 * t)
  PROVE  EnlistsIn(h, k, g, b, h2, k2)
  BY Enlist DEF EnlistsIn

-----------------------------------------------------------------------------
(* A listed block, or a part of it, is allocated. *)
Serves(h, g, hp, kp, n, g2, d) ==
  /\ Comes(h, g, hp.h, kp.h, g2, Used(g)) /\ hp.p = 8 * d /\ kp.p = 8 * d
  /\ d \in Used(g2) /\ d \notin Used(g) /\ g2.sz[d] >= n

Served(h, k, g, hp, kp, n) == \E g2, d : Serves(h, g, hp, kp, n, g2, d) /\ g2.hi = g.hi

(* The block itself, once it is off its list. *)
Taken(h, g, b, t, h1, k1, g1) ==
  /\ OK(h1, g1) /\ OK(k1, g1) /\ Off(g, g1, {b}) /\ Keeps(h, g, h1, g1, Used(g))
  /\ Clear(g1, b, b + t) /\ Between(g1, b, b + t) = {b} /\ Used(g1) \ {b} = Used(g)
  /\ g1.sz[b] = t /\ b \in Nat /\ t \in Nat /\ t >= 2 /\ b \notin Used(g) /\ b \in g.B
  /\ \A m \in Nat : b < m /\ m < b + t => m \notin g.B

(* remove_seglist of the block that find_fit returned, and the tags that   *)
(* place reads then.                                                       *)
LEMMA PlaceReads ==
  ASSUME NEW h, NEW k, NEW g, OK(h, g), OK(k, g), NEW b \in g.L, NEW h1, h1 = remove_seglist(h, 8 * b),
         NEW k1, k1 = remove_seglist(k, 8 * b), NEW t, t = g.sz[b]
  PROVE  \E g1 : Taken(h, g, b, t, h1, k1, g1)
<1>0. g \in Tables /\ Tiled(g) /\ Listed(g)
  BY DEF OK
<1>1. PICK g1 : /\ OK(h1, g1) /\ OK(k1, g1) /\ Off(g, g1, {b}) /\ Keeps(h, g, h1, g1, Used(g))
  BY UnlistPair
<1>2. b \in g1.B /\ b \notin g1.L /\ t = g1.sz[b] /\ g1.B = g.B /\ g1.al = g.al /\ b \in g.B /\ g.al[b] = 0
  BY <1>0, <1>1 DEF Off, Listed
<1>3. g1 \in Tables /\ Tiled(g1) /\ Listed(g1)
  BY <1>1 DEF OK
<1>4. /\ Clear(g1, b, b + t) /\ Between(g1, b, b + t) = {b}
      /\ b \in Nat /\ t \in Nat /\ t >= 2
  BY <1>2, <1>3, BlockClear
<1>5. b \notin Used(g) /\ Used(g1) \ {b} = Used(g)
  BY <1>2 DEF Used
<1>6. ASSUME NEW m \in Nat, b < m, m < b + t, m \in g.B PROVE FALSE
  <2>0. b <= m /\ m < b + g.sz[b]
    BY <1>4, <1>6
  <2>1. m = b
    BY <1>0, <1>2, <1>6, <2>0, Inside
  <2> QED BY <1>4, <1>6, <2>1
<1> QED BY <1>1, <1>2, <1>4, <1>5, <1>6 DEF Taken

(* place without a split: the whole block is allocated. *)
LEMMA Place1 ==
  ASSUME NEW h, NEW k, NEW g, Full(g), NEW b, NEW t, NEW h1, NEW k1, NEW g1, Taken(h, g, b, t, h1, k1, g1),
         NEW hp, hp = [h |-> PutTags(h1, 8 * b, 8 * t, 1), p |-> 8 * b],
         NEW kp, kp = [h |-> PutTags(k1, 8 * b, 8 * t, 1), p |-> 8 * b],
         NEW n \in Nat, t >= n
  PROVE  Served(h, k, g, hp, kp, n)
<1>0. /\ OK(h1, g1) /\ OK(k1, g1) /\ Off(g, g1, {b}) /\ Keeps(h, g, h1, g1, Used(g))
      /\ Clear(g1, b, b + t) /\ Between(g1, b, b + t) = {b} /\ Used(g1) \ {b} = Used(g)
      /\ b \in Nat /\ t \in Nat /\ t >= 2 /\ b \notin Used(g)
  BY DEF Taken
<1>1. g1 \in Tables /\ Tiled(g1) /\ 8 * g1.hi <= MAX_HEAP /\ Heap(h1, 8 * g1.hi) /\ Heap(k1, 8 * g1.hi) /\ MAX_HEAP \in Nat
  BY <1>0, Sizes8 DEF OK
<1>2. b >= 1 /\ 8 * (b + t) <= MAX_HEAP
  <2>1. b >= Lo /\ Lo >= 3 /\ Lo \in Nat /\ b + t <= g1.hi /\ g1.hi \in Nat
    BY <1>0, <1>1, ClearIs
  <2> QED BY <1>0, <1>1, <2>1
<1>3. PICK v \in Nat : v = b + t
  BY <1>0
<1>4. v - b = t
  BY <1>0, <1>3
<1>h. PICK h2 : h2 = PutTags(h1, 8 * b, 8 * t, 1)
  OBVIOUS
<1>k. PICK k2 : k2 = PutTags(k1, 8 * b, 8 * t, 1)
  OBVIOUS
<1>5. TagsPut(h1, h2, 8 * g1.hi, b, v - b, 1) /\ TagsPut(k1, k2, 8 * g1.hi, b, v - b, 1)
  BY <1>0, <1>1, <1>2, <1>4, <1>h, <1>k, PutTagsPut
<1>6. PICK q : q = One(g1, b, v, 1)
  OBVIOUS
<1>7. Clear(g1, b, v) /\ Between(g1, b, v) = {b}
  BY <1>0, <1>3
<1>8. OK(h2, q) /\ Keeps(h1, g1, h2, q, Used(g1) \ {b}) /\ Joins(g1, b, v, 1, q)
  BY <1>0, <1>5, <1>6, <1>7, OneBlock
<1>9. OK(k2, q)
  BY <1>0, <1>5, <1>6, <1>7, OneBlock
<1>10. Full(q)
  <2> SUFFICES ASSUME NEW c \in q.B, q.al[c] = 0 PROVE c \in q.L
    BY DEF Full
  <2>1. c # b
    BY <1>8 DEF Joins
  <2>2. c \in g1.B /\ c \in Nat
    BY <1>1, <1>8, <2>1, Fields DEF Joins
  <2>3. g1.al[c] = 0 /\ c \in g.B /\ g.al[c] = 0
    BY <1>0, <1>8, <2>1, <2>2 DEF Joins, Off
  <2> QED BY <1>0, <1>8, <2>1, <2>3 DEF Full, Joins, Off
<1>11. Keeps(h, g, h2, q, Used(g))
  BY <1>0, <1>8, KeepsOn
<1>12. b \in Used(q) /\ q.sz[b] >= n /\ q.hi = g.hi
  BY <1>0, <1>4, <1>8 DEF Joins, Used, Off
<1>13. hp.h = h2 /\ kp.h = k2 /\ hp.p = 8 * b /\ kp.p = 8 * b
  BY <1>h, <1>k
<1>14. Comes(h, g, h2, k2, q, Used(g))
  BY <1>8, <1>9, <1>10, <1>11 DEF Comes
<1>15. Serves(h, g, hp, kp, n, q, b)
  BY <1>0, <1>12, <1>13, <1>14 DEF Serves
<1> QED BY <1>12, <1>15 DEF Served

(* In two parts, one of which is listed again: x and y are the bits of the *)
(* parts, d the allocated one and c the other.                             *)
Parts(b, m, v, x, y, d, c, r, n) ==
  \/ x = 1 /\ y = 0 /\ d = b /\ c = m /\ r = v - m /\ n <= m - b
  \/ x = 0 /\ y = 1 /\ d = m /\ c = b /\ r = m - b /\ n <= v - m

Parted(h, b, m, v, x, y, d, c, r) ==
  [h |-> add_seglist(Split(h, 8 * b, 8 * (m - b), x, 8 * (v - m), y), 8 * c, 8 * r), p |-> 8 * d]

(* place with a split, of either end: one part is allocated and the other  *)
(* is listed.                                                              *)
LEMMA Place2 ==
  ASSUME NEW h, NEW k, NEW g, Full(g), NEW b, NEW t, NEW h1, NEW k1, NEW g1, Taken(h, g, b, t, h1, k1, g1),
         NEW m \in Nat, m >= b + 2, NEW v \in Nat, v = b + t, v >= m + 2, NEW x \in {0, 1}, NEW y \in {0, 1},
         NEW d, NEW c, NEW r, NEW n \in Nat, Parts(b, m, v, x, y, d, c, r, n),
         NEW hp, hp = Parted(h1, b, m, v, x, y, d, c, r),
         NEW kp, kp = Parted(k1, b, m, v, x, y, d, c, r)
  PROVE  Served(h, k, g, hp, kp, n)
<1>0. /\ OK(h1, g1) /\ OK(k1, g1) /\ Off(g, g1, {b}) /\ Keeps(h, g, h1, g1, Used(g))
      /\ Clear(g1, b, b + t) /\ Between(g1, b, b + t) = {b} /\ Used(g1) \ {b} = Used(g)
      /\ b \in Nat /\ t \in Nat /\ t >= 2 /\ b \notin Used(g) /\ b \in g.B
      /\ \A w \in Nat : b < w /\ w < b + t => w \notin g.B
  BY DEF Taken
<1>1. g1 \in Tables /\ Tiled(g1) /\ Listed(g1)
  BY <1>0 DEF OK
<1>h. PICK h2 : h2 = Split(h1, 8 * b, 8 * (m - b), x, 8 * (v - m), y)
  OBVIOUS
<1>k. PICK k2 : k2 = Split(k1, 8 * b, 8 * (m - b), x, 8 * (v - m), y)
  OBVIOUS
<1>6. PICK q : q = Two(g1, b, m, v, x, y)
  OBVIOUS
<1>7. Clear(g1, b, v) /\ Between(g1, b, v) = {b}
  BY <1>0
<1>8. OK(h2, q) /\ Keeps(h1, g1, h2, q, Used(g1) \ {b}) /\ Splits(g1, b, m, v, x, y, q)
  <2>1. Halved(h1, g1, b, m, v, x, y, h2, q)
    BY <1>0, <1>6, <1>7, <1>h, SplitIs
  <2> QED BY <1>7, <2>1 DEF Halved
<1>9. OK(k2, q)
  <2>1. Halved(k1, g1, b, m, v, x, y, k2, q)
    BY <1>0, <1>6, <1>7, <1>k, SplitIs
  <2> QED BY <2>1 DEF Halved
<1>10. /\ q.B = (g1.B \ {b}) \cup {b, m} /\ q.hi = g1.hi /\ q.L = g1.L
       /\ q.sz[b] = m - b /\ q.al[b] = x /\ q.sz[m] = v - m /\ q.al[m] = y
       /\ \A w \in Nat : w # b /\ w # m => q.sz[w] = g1.sz[w] /\ q.al[w] = g1.al[w]
  BY <1>7, <1>8 DEF Splits
<1>11. m # b /\ m \notin g.B /\ m < b + t
  BY <1>0
<1>12. g1.B = g.B /\ g1.al = g.al /\ g1.L = g.L \ {b} /\ g1.hi = g.hi /\ g.L \subseteq g.B
  <2>1. g1.B = g.B /\ g1.al = g.al /\ g1.L = g.L \ {b} /\ g1.hi = g.hi
    BY <1>0 DEF Off
  <2>2. g1.L \subseteq g1.B
    BY <1>1 DEF Listed
  <2> QED BY <1>0, <2>1, <2>2
<1>13. c \in q.B /\ c \notin q.L /\ q.al[c] = 0 /\ r = q.sz[c] /\ d \in q.B /\ q.al[d] = 1 /\ d # c /\ q.sz[d] >= n
  BY <1>0, <1>10, <1>11, <1>12 DEF Parts
<1>14. PICK h3 : h3 = add_seglist(h2, 8 * c, 8 * r)
  OBVIOUS
<1>15. PICK k3 : k3 = add_seglist(k2, 8 * c, 8 * r)
  OBVIOUS
<1>16. EnlistsIn(h2, k2, q, c, h3, k3)
  BY <1>8, <1>9, <1>13, <1>14, <1>15, EnlistIn
<1>17. PICK z : /\ OK(h3, z) /\ OK(k3, z) /\ Keeps(h2, q, h3, z, Used(q))
                /\ z.B = q.B /\ z.sz = q.sz /\ z.al = q.al /\ z.hi = q.hi /\ z.L = q.L \cup {c}
  BY <1>16 DEF EnlistsIn
<1>18. Full(z)
  <2> SUFFICES ASSUME NEW w \in z.B, z.al[w] = 0, w # c PROVE w \in g.L /\ w # b
    BY <1>10, <1>12, <1>17 DEF Full
  <2>1. w # b /\ w # m
    BY <1>10, <1>13, <1>17 DEF Parts
  <2>2. w \in g.B /\ w \in Nat
    BY <1>1, <1>10, <1>12, <1>17, <2>1, Fields
  <2>3. g.al[w] = 0
    BY <1>10, <1>12, <1>17, <2>1, <2>2
  <2> QED BY <2>1, <2>2, <2>3 DEF Full
<1>19. Keeps(h, g, h3, z, Used(g))
  <2>1. Keeps(h, g, h2, q, Used(g)) /\ Used(g) \subseteq Used(q)
    BY <1>0, <1>8, KeepsOn, KeepsUsed
  <2> QED BY <1>17, <2>1, KeepsOn
<1>20. hp.h = h3 /\ kp.h = k3 /\ hp.p = 8 * d /\ kp.p = 8 * d
  BY <1>h, <1>k, <1>14, <1>15 DEF Parted
<1>21. d \in Used(z) /\ d \notin Used(g) /\ z.sz[d] >= n /\ z.hi = g.hi
  BY <1>0, <1>10, <1>11, <1>12, <1>13, <1>17 DEF Used, Parts
<1>22. Comes(h, g, h3, k3, z, Used(g))
  BY <1>17, <1>18, <1>19 DEF Comes
<1>23. Serves(h, g, hp, kp, n, z, d)
  BY <1>20, <1>21, <1>22 DEF Serves
<1> QED BY <1>21, <1>23 DEF Served

(* place *)
LEMMA PlaceIs ==
  ASSUME NEW h, NEW k, NEW g, OK(h, g), OK(k, g), Full(g), NEW b \in g.L, NEW n \in Nat, n >= 3, g.sz[b] >= n
  PROVE  Served(h, k, g, place(h, 8 * b, 8 * n), place(k, 8 * b, 8 * n), n)
<1>h. PICK h1 : h1 = remove_seglist(h, 8 * b)
  OBVIOUS
<1>k. PICK k1 : k1 = remove_seglist(k, 8 * b)
  OBVIOUS
<1>t. PICK t : t = g.sz[b]
  OBVIOUS
<1>1. PICK g1 : Taken(h, g, b, t, h1, k1, g1)
  BY <1>h, <1>k, <1>t, PlaceReads
<1>2. b \in Nat /\ t \in Nat /\ t >= 2 /\ b \in g.B /\ t >= n
  BY <1>1, <1>t DEF Taken
<1>3. place(h, 8 * b, 8 * n) = PlaceIn(h1, 8 * b, 8 * n, 8 * t) /\ place(k, 8 * b, 8 * n) = PlaceIn(k1, 8 * b, 8 * n, 8 * t)
  <2>1. GET_BLK_SIZE(h, 8 * b) = 8 * t /\ GET_BLK_SIZE(k, 8 * b) = 8 * t
    BY <1>2, <1>t, ReadTags
  <2> QED BY <1>h, <1>k, <2>1 DEF place
<1>p. PICK hp : hp = place(h, 8 * b, 8 * n)
  OBVIOUS
<1>q. PICK kp : kp = place(k, 8 * b, 8 * n)
  OBVIOUS
<1>m. MINSIZE \in Nat
  BY MmAssumption
<1>4. CASE 8 * t - 8 * n < 16
  <2>1. \A q : PlaceIn(q, 8 * b, 8 * n, 8 * t) = [h |-> PutTags(q, 8 * b, 8 * t, 1), p |-> 8 * b]
    BY <1>2, <1>4, <1>m DEF PlaceIn, DSIZE
  <2>2. hp = [h |-> PutTags(h1, 8 * b, 8 * t, 1), p |-> 8 * b] /\ kp = [h |-> PutTags(k1, 8 * b, 8 * t, 1), p |-> 8 * b]
    BY <1>3, <1>p, <1>q, <2>1
  <2>3. Served(h, k, g, hp, kp, n)
    BY <1>1, <1>2, <2>2, Place1
  <2> QED BY <1>p, <1>q, <2>3
<1>5. CASE 8 * t - 8 * n >= 16 /\ 8 * n > MINSIZE
  <2>1. \A q : PlaceIn(q, 8 * b, 8 * n, 8 * t) =
                 [h |-> add_seglist(Split(q, 8 * b, 8 * n, 1, 8 * t - 8 * n, 0), 8 * b + 8 * n, 8 * t - 8 * n), p |-> 8 * b]
    BY <1>2, <1>5, <1>m DEF PlaceIn, DSIZE
  <2>2. PICK m \in Nat : m = b + n
    BY <1>2
  <2>3. PICK v \in Nat : v = b + t
    BY <1>2
  <2>4. m >= b + 2 /\ v >= m + 2 /\ 8 * n = 8 * (m - b) /\ 8 * t - 8 * n = 8 * (v - m) /\ 8 * b + 8 * n = 8 * m /\ m # b
        /\ m - b = n
    BY <1>2, <1>5, <2>2, <2>3
  <2>5. PICK r : r = v - m
    OBVIOUS
  <2>x. PICK x \in {0, 1}, y \in {0, 1} : x = 1 /\ y = 0
    OBVIOUS
  <2>6. hp = Parted(h1, b, m, v, x, y, b, m, r) /\ kp = Parted(k1, b, m, v, x, y, b, m, r)
    BY <1>3, <1>p, <1>q, <2>1, <2>4, <2>5, <2>x DEF Parted
  <2>7. Parts(b, m, v, x, y, b, m, r, n)
    BY <1>2, <2>4, <2>5, <2>x DEF Parts
  <2>9. Served(h, k, g, hp, kp, n)
    <3>1. m >= b + 2 /\ v >= m + 2
      BY <2>4
    <3> QED BY <1>1, <2>3, <2>6, <2>7, <3>1, Place2
  <2> QED BY <1>p, <1>q, <2>9
<1>6. CASE 8 * t - 8 * n >= 16 /\ ~(8 * n > MINSIZE)
  <2>1. \A q : PlaceIn(q, 8 * b, 8 * n, 8 * t) =
                 [h |-> add_seglist(Split(q, 8 * b, 8 * t - 8 * n, 0, 8 * n, 1), 8 * b, 8 * t - 8 * n),
                  p |-> 8 * b + (8 * t - 8 * n)]
    BY <1>2, <1>6, <1>m DEF PlaceIn, DSIZE
  <2>2. PICK m \in Nat : m = b + (t - n)
    BY <1>2
  <2>3. PICK v \in Nat : v = b + t
    BY <1>2
  <2>4. m >= b + 2 /\ v >= m + 2 /\ 8 * n = 8 * (v - m) /\ 8 * t - 8 * n = 8 * (m - b) /\ 8 * b + (8 * t - 8 * n) = 8 * m
        /\ m # b /\ v - m = n
    BY <1>2, <1>6, <2>2, <2>3
  <2>5. PICK r : r = m - b
    OBVIOUS
  <2>x. PICK x \in {0, 1}, y \in {0, 1} : x = 0 /\ y = 1
    OBVIOUS
  <2>6. hp = Parted(h1, b, m, v, x, y, m, b, r) /\ kp = Parted(k1, b, m, v, x, y, m, b, r)
    BY <1>3, <1>p, <1>q, <2>1, <2>4, <2>5, <2>x DEF Parted
  <2>7. Parts(b, m, v, x, y, m, b, r, n)
    BY <1>2, <2>4, <2>5, <2>x DEF Parts
  <2>9. Served(h, k, g, hp, kp, n)
    <3>1. m >= b + 2 /\ v >= m + 2
      BY <2>4
    <3> QED BY <1>1, <2>3, <2>6, <2>7, <3>1, Place2
  <2> QED BY <1>p, <1>q, <2>9
<1>7. 8 * t - 8 * n < 16 \/ 8 * t - 8 * n >= 16
  BY <1>2
<1> QED BY <1>4, <1>5, <1>6, <1>7

-----------------------------------------------------------------------------
(* The block size for a request. *)
LEMMA AdjustedIs ==
  ASSUME NEW size \in Nat, size >= 1
  PROVE  \E n \in Nat : adjusted(size) = 8 * n /\ n >= 3 /\ 8 * (n - 1) >= size
<1>1. CASE size <= 16
  <2>1. adjusted(size) = 8 * 3
    BY <1>1 DEF adjusted, DSIZE
  <2> QED BY <1>1, <2>1
<1>2. CASE ~(size <= 16)
  <2>1. PICK n \in Nat : n = (size + 15) \div 8
    OBVIOUS
  <2>2. adjusted(size) = 8 * n
    BY <1>2, <2>1 DEF adjusted, ALIGN, DSIZE
  <2>3. n >= 3 /\ 8 * (n - 1) >= size
    BY <1>2, <2>1
  <2> QED BY <2>2, <2>3
<1> QED BY <1>1, <1>2

(* Nothing happens. *)
LEMMA ComesNowhere ==
  ASSUME NEW h, NEW k, NEW g, OK(h, g), OK(k, g), Full(g)
  PROVE  Comes(h, g, h, k, g, Used(g))
  BY DEF Comes, Keeps, Used

(* One step after the other. *)
LEMMA ComesOn ==
  ASSUME NEW h, NEW g, NEW h1, NEW k1, NEW g1, NEW S, Comes(h, g, h1, k1, g1, S),
         NEW h2, NEW k2, NEW g2, Comes(h1, g1, h2, k2, g2, Used(g1))
  PROVE  Comes(h, g, h2, k2, g2, S)
<1>1. Keeps(h, g, h1, g1, S) /\ OK(h2, g2) /\ OK(k2, g2) /\ Full(g2) /\ Keeps(h1, g1, h2, g2, Used(g1))
  BY DEF Comes
<1>2. Keeps(h, g, h2, g2, S)
  BY <1>1, KeepsUsed, KeepsOn
<1> QED BY <1>1, <1>2 DEF Comes

Mallocs(h, k, g, size, hm, km) ==
  \E g2 : /\ Comes(h, g, hm.h, km.h, g2, Used(g)) /\ hm.p = km.p /\ g2.hi >= g.hi
          /\ \/ hm.p = NULL
             \/ \E d : hm.p = 8 * d /\ d \in Used(g2) /\ d \notin Used(g) /\ 8 * (g2.sz[d] - 1) >= size

(* What find_fit and place return is what mm_malloc promises. *)
LEMMA ServedMallocs ==
  ASSUME NEW h, NEW k, NEW g, NEW g1, NEW h1, NEW k1, Comes(h, g, h1, k1, g1, Used(g)), NEW hp, NEW kp, NEW n \in Nat, NEW size \in Nat,
         8 * (n - 1) >= size, g1.hi >= g.hi, Served(h1, k1, g1, hp, kp, n)
  PROVE  Mallocs(h, k, g, size, hp, kp)
<1>1. PICK g2, d : Serves(h1, g1, hp, kp, n, g2, d) /\ g2.hi = g1.hi
  BY DEF Served
<1>2. /\ Comes(h1, g1, hp.h, kp.h, g2, Used(g1)) /\ hp.p = 8 * d /\ kp.p = 8 * d
      /\ d \in Used(g2) /\ d \notin Used(g1) /\ g2.sz[d] >= n
  BY <1>1 DEF Serves
<1>3. Comes(h, g, hp.h, kp.h, g2, Used(g))
  BY <1>2, ComesOn
<1>4. d \notin Used(g)
  <2>1. Keeps(h, g, h1, g1, Used(g))
    BY DEF Comes
  <2> QED BY <1>2, <2>1, KeepsUsed
<1>5. 8 * (g2.sz[d] - 1) >= size
  <2>1. g2.sz[d] \in Nat
    BY <1>2, Fields DEF Comes, OK, Used
  <2> QED BY <1>2, <2>1
<1>6. g2.hi >= g.hi
  BY <1>1
<1> QED BY <1>2, <1>3, <1>4, <1>5, <1>6 DEF Mallocs

(* mm_malloc of a positive size: NULL, or a block that was not allocated,  *)
(* is large enough for the request, and leaves the allocated blocks as     *)
(* they were. The answer depends on the table and on nothing else in the   *)
(* heap.                                                                   *)
LEMMA MmMalloc ==
  ASSUME NEW h, NEW k, NEW g, OK(h, g), OK(k, g), Full(g), NEW size \in Nat, size >= 1
  PROVE  Mallocs(h, k, g, size, mm_malloc(h, size), mm_malloc(k, size))
<1>0. g \in Tables /\ Tiled(g) /\ Listed(g)
  BY DEF OK
<1>1. PICK n \in Nat : adjusted(size) = 8 * n /\ n >= 3 /\ 8 * (n - 1) >= size
  BY AdjustedIs
<1>2. PICK fit : fit = find_fit(h, 8 * n)
  OBVIOUS
<1>3. /\ find_fit(k, 8 * n) = fit
      /\ \/ fit = NULL
         \/ \E b \in g.L : fit = 8 * b /\ 8 * g.sz[b] >= 8 * n
  <2>1. Fitting(h, k, g, 8 * n)
    <3>1. 8 * n \in Nat
      OBVIOUS
    <3> QED BY <3>1, FindFit
  <2> QED BY <1>2, <2>1 DEF Fitting
<1>4. mm_malloc(h, size) = MallocAt(h, fit, 8 * n) /\ mm_malloc(k, size) = MallocAt(k, fit, 8 * n)
  BY <1>1, <1>2, <1>3 DEF mm_malloc
<1>h. PICK hm : hm = mm_malloc(h, size)
  OBVIOUS
<1>k. PICK km : km = mm_malloc(k, size)
  OBVIOUS
<1> SUFFICES Mallocs(h, k, g, size, hm, km)
  BY <1>h, <1>k
<1>c. Comes(h, g, h, k, g, Used(g))
  BY ComesNowhere
<1>g. g.hi \in Nat /\ g.hi >= g.hi
  BY <1>0, Fields
<1>5. CASE fit # NULL
  <2>1. PICK b \in g.L : fit = 8 * b /\ 8 * g.sz[b] >= 8 * n
    BY <1>3, <1>5
  <2>2. g.sz[b] >= n
    <3>1. g.sz[b] \in Nat
      BY <1>0, Fields
    <3> QED BY <2>1, <3>1
  <2>3. Served(h, k, g, place(h, 8 * b, 8 * n), place(k, 8 * b, 8 * n), n)
    BY <1>1, <2>2, PlaceIs
  <2>4. hm = place(h, 8 * b, 8 * n) /\ km = place(k, 8 * b, 8 * n)
    BY <1>4, <1>5, <1>h, <1>k, <2>1 DEF MallocAt
  <2>5. Served(h, k, g, hm, km, n)
    BY <2>3, <2>4
  <2> QED BY <1>1, <1>c, <1>g, <2>5, ServedMallocs
<1>6. CASE fit = NULL
  <2>1. PICK D \in Nat : DCHUNKSIZE = 8 * D
    <3>1. DCHUNKSIZE \in Nat /\ DCHUNKSIZE % 8 = 0
      BY MmAssumption DEF DSIZE
    <3>2. DCHUNKSIZE = 8 * (DCHUNKSIZE \div 8) /\ DCHUNKSIZE \div 8 \in Nat
      BY <3>1
    <3> QED BY <3>2
  <2>2. PICK x \in Nat : x = IF n > D THEN n ELSE D
    OBVIOUS
  <2>3. x >= 2 /\ x >= n /\ (IF 8 * n > DCHUNKSIZE THEN 8 * n ELSE DCHUNKSIZE) = 8 * x
    BY <1>1, <2>1, <2>2
  <2>4. (8 * x) \div WSIZE = 2 * x
    BY DEF WSIZE
  <2>5. PICK he : he = extend_heap(h, 2 * x)
    OBVIOUS
  <2>6. PICK ke : ke = extend_heap(k, 2 * x)
    OBVIOUS
  <2>7. hm = PlaceIfAny(he, 8 * n) /\ km = PlaceIfAny(ke, 8 * n)
    BY <1>4, <1>6, <1>h, <1>k, <2>3, <2>4, <2>5, <2>6 DEF MallocAt
  <2>8. Extending(h, k, g, x)
    BY <2>3, ExtendHeap
  <2>9. CASE he = [h |-> h, p |-> NULL] /\ ke = [h |-> k, p |-> NULL]
    <3>1. hm.h = h /\ km.h = k /\ hm.p = NULL /\ km.p = NULL
      BY <2>7, <2>9 DEF PlaceIfAny
    <3> QED BY <1>c, <1>g, <3>1 DEF Mallocs
  <2>10. CASE \E g2, u : /\ Comes(h, g, he.h, ke.h, g2, Used(g)) /\ he.p = 8 * u /\ ke.p = 8 * u
                         /\ u \in g2.L /\ g2.sz[u] >= x /\ g2.hi = g.hi + x
    <3>1. PICK g2, u : /\ Comes(h, g, he.h, ke.h, g2, Used(g)) /\ he.p = 8 * u /\ ke.p = 8 * u
                       /\ u \in g2.L /\ g2.sz[u] >= x /\ g2.hi = g.hi + x
      BY <2>10
    <3>2. OK(he.h, g2) /\ OK(ke.h, g2) /\ Full(g2)
      BY <3>1 DEF Comes
    <3>3. u \in Nat /\ g2.sz[u] \in Nat /\ u >= 3
      <4>1. g2 \in Tables /\ Tiled(g2) /\ Listed(g2)
        BY <3>2 DEF OK
      <4>2. u \in g2.B /\ u \in Nat /\ g2.sz[u] \in Nat
        BY <3>1, <4>1, Fields DEF Listed
      <4>3. u >= Lo
        BY <4>1, <4>2 DEF Tiled
      <4> QED BY <4>2, <4>3, Sizes8
    <3>4. g2.sz[u] >= n
      BY <2>3, <3>1, <3>3
    <3>5. PICK h1 : h1 = he.h
      OBVIOUS
    <3>6. PICK k1 : k1 = ke.h
      OBVIOUS
    <3>7. hm = place(h1, 8 * u, 8 * n) /\ km = place(k1, 8 * u, 8 * n)
      <4>1. 8 * u # NULL
        BY <3>3 DEF NULL
      <4> QED BY <2>7, <3>1, <3>5, <3>6, <4>1 DEF PlaceIfAny
    <3>8. OK(h1, g2) /\ OK(k1, g2) /\ Full(g2) /\ Comes(h, g, h1, k1, g2, Used(g))
      BY <3>1, <3>2, <3>5, <3>6
    <3>9. Served(h1, k1, g2, place(h1, 8 * u, 8 * n), place(k1, 8 * u, 8 * n), n)
      BY <1>1, <3>1, <3>4, <3>8, PlaceIs
    <3>10. Served(h1, k1, g2, hm, km, n)
      BY <3>7, <3>9
    <3>11. g2.hi >= g.hi
      BY <1>g, <3>1
    <3> QED BY <1>1, <3>8, <3>10, <3>11, ServedMallocs
  <2> QED BY <2>5, <2>6, <2>8, <2>9, <2>10 DEF Extending
<1> QED BY <1>5, <1>6

-----------------------------------------------------------------------------
(* Data is written into an allocated block. *)
Writes(h, h2, brk, d, t) ==
  Heap(h2, brk) /\ \A w \in Words : w \notin (2 * d) .. (2 * (d + t) - 3) => h2.mem[w] = h.mem[w]

(* Writes to the payload of an allocated block harm no other block. *)
LEMMA PayloadWritten ==
  ASSUME NEW h, NEW g, OK(h, g), NEW d \in Used(g), NEW h2, Writes(h, h2, 8 * g.hi, d, g.sz[d])
  PROVE  OK(h2, g) /\ Keeps(h, g, h2, g, Used(g) \ {d})
<1>0. g \in Tables /\ Tiled(g) /\ Listed(g) /\ 8 * g.hi <= MAX_HEAP /\ Tags(h.mem, g) /\ Links(h.mem, g) /\ d \in g.B
      /\ g.al[d] = 1 /\ MAX_HEAP \in Nat
  BY Sizes8 DEF OK, Used
<1>1. d \in Nat /\ g.sz[d] \in Nat /\ g.sz[d] >= 2 /\ d + g.sz[d] <= g.hi /\ g.hi \in Nat /\ d >= Lo /\ Lo \in Nat /\ Lo >= 3
  BY <1>0, BlockWords
<1>2. /\ Heap(h2, 8 * g.hi)
      /\ \A w \in Words : w \notin (2 * d) .. (2 * (d + g.sz[d]) - 3) => h2.mem[w] = h.mem[w]
  BY DEF Writes
<1>3. ASSUME NEW b \in g.B, b # d, NEW w \in Nat, w >= 2 * b - 1, w <= 2 * (b + g.sz[b]) - 2
      PROVE  h2.mem[w] = h.mem[w]
  <2>1. b \in Nat /\ g.sz[b] \in Nat /\ b + g.sz[b] <= g.hi
    BY <1>0, BlockWords
  <2>2. (b < d => b + g.sz[b] <= d) /\ (d < b => d + g.sz[d] <= b)
    BY <1>0 DEF Tiled
  <2>3. w \notin (2 * d) .. (2 * (d + g.sz[d]) - 3)
    BY <1>1, <1>3, <2>1, <2>2
  <2>4. w \in Words
    <3>1. 4 * w < MAX_HEAP
      BY <1>0, <1>1, <1>3, <2>1
    <3> QED BY <3>1, IsWord
  <2> QED BY <1>2, <2>3, <2>4
<1>4. ASSUME NEW b \in g.B
      PROVE  /\ h2.mem[2 * b - 1] = 8 * g.sz[b] + g.al[b]
             /\ h2.mem[2 * (b + g.sz[b]) - 2] = 8 * g.sz[b] + g.al[b]
  <2>1. b \in Nat /\ g.sz[b] \in Nat /\ b + g.sz[b] <= g.hi /\ g.sz[b] >= 2 /\ b >= 3
    BY <1>0, <1>1, BlockWords
  <2>2. h.mem[2 * b - 1] = 8 * g.sz[b] + g.al[b] /\ h.mem[2 * (b + g.sz[b]) - 2] = 8 * g.sz[b] + g.al[b]
    BY <1>0 DEF Tags
  <2>t. PICK t \in Nat : t = g.sz[b]
    BY <2>1
  <2>x. PICK x \in Nat : x = 2 * b - 1
    BY <2>1
  <2>y. PICK y \in Nat : y = 2 * (b + t) - 2
    BY <2>1, <2>t
  <2>3. x = 2 * b - 1 /\ y = 2 * (b + g.sz[b]) - 2
    BY <2>t, <2>x, <2>y
  <2>4. CASE b # d
    <3>1. x >= 2 * b - 1 /\ x <= 2 * (b + g.sz[b]) - 2 /\ y >= 2 * b - 1 /\ y <= 2 * (b + g.sz[b]) - 2
      BY <2>1, <2>3
    <3>2. h2.mem[x] = h.mem[x] /\ h2.mem[y] = h.mem[y]
      BY <1>3, <2>4, <3>1
    <3> QED BY <2>2, <2>3, <3>2
  <2>5. CASE b = d
    <3>1. x \notin (2 * d) .. (2 * (d + g.sz[d]) - 3) /\ y \notin (2 * d) .. (2 * (d + g.sz[d]) - 3)
      BY <2>1, <2>3, <2>5
    <3>2. 4 * x < MAX_HEAP /\ 4 * y < MAX_HEAP
      BY <1>0, <1>1, <2>1, <2>3
    <3>3. x \in Words /\ y \in Words
      BY <3>2, IsWord
    <3> QED BY <1>2, <2>2, <2>3, <3>1, <3>3
  <2> QED BY <2>4, <2>5
<1>5. ASSUME NEW w \in Nat, w < 2 * Lo - 1 \/ (w = 2 * g.hi - 1) PROVE h2.mem[w] = h.mem[w]
  <2>1. 4 * w < MAX_HEAP
    BY <1>0, <1>1, <1>5
  <2>2. w \in Words
    BY <2>1, IsWord
  <2>3. w \notin (2 * d) .. (2 * (d + g.sz[d]) - 3)
    BY <1>1, <1>5
  <2> QED BY <1>2, <2>2, <2>3
<1>6. Tags(h2.mem, g)
  <2>1. ASSUME NEW w \in {SEG_SIZE, 2 * Lo - 3, 2 * Lo - 2} PROVE h2.mem[w] = h.mem[w]
    <3>1. w \in Nat /\ w < 2 * Lo - 1
      BY <1>1, Sizes8
    <3> QED BY <1>5, <3>1
  <2>2. h2.mem[2 * g.hi - 1] = h.mem[2 * g.hi - 1]
    <3>1. PICK z \in Nat : z = 2 * g.hi - 1
      BY <1>1
    <3> QED BY <1>5, <3>1
  <2> QED BY <1>0, <1>4, <2>1, <2>2 DEF Tags
<1>7. Links(h2.mem, g)
  <2>1. ASSUME NEW b \in g.L PROVE h2.mem[2 * b] = h.mem[2 * b] /\ h2.mem[2 * b + 1] = h.mem[2 * b + 1]
    <3>1. b \in g.B /\ b # d
      BY <1>0 DEF Listed
    <3>2. b \in Nat /\ g.sz[b] \in Nat /\ g.sz[b] >= 2
      BY <1>0, <3>1, BlockWords
    <3>3. PICK x \in Nat, y \in Nat : x = 2 * b /\ y = 2 * b + 1
      BY <3>2
    <3>4. x >= 2 * b - 1 /\ x <= 2 * (b + g.sz[b]) - 2 /\ y >= 2 * b - 1 /\ y <= 2 * (b + g.sz[b]) - 2
      BY <3>2, <3>3
    <3>5. h2.mem[x] = h.mem[x] /\ h2.mem[y] = h.mem[y]
      BY <1>3, <3>1, <3>4
    <3> QED BY <3>3, <3>5
  <2>2. ASSUME NEW i \in Idx PROVE h2.mem[i] = h.mem[i]
    <3>1. i \in Nat /\ i < 2 * Lo - 1
      BY <1>0, <1>1, IdxWords
    <3> QED BY <1>5, <3>1
  <2> QED BY <1>0, <2>1, <2>2 DEF Links
<1>8. OK(h2, g)
  BY <1>0, <1>2, <1>6, <1>7 DEF OK
<1>9. Keeps(h, g, h2, g, Used(g) \ {d})
  <2> SUFFICES ASSUME NEW b \in g.B, b # d, g.al[b] = 1, NEW w \in (2 * b) .. (2 * (b + g.sz[b]) - 3)
               PROVE  h2.mem[w] = h.mem[w]
    BY DEF Keeps, Used
  <2>1. b \in Nat /\ g.sz[b] \in Nat
    BY <1>0, BlockWords
  <2>2. w \in Nat /\ w >= 2 * b - 1 /\ w <= 2 * (b + g.sz[b]) - 2
    BY <2>1
  <2> QED BY <1>3, <2>2
<1> QED BY <1>8, <1>9

-----------------------------------------------------------------------------
(* The area from u to v becomes an allocated block of t double words, and  *)
(* what is left of it is released.  The data of h2 stays where it is.      *)
FullOut(g, u, v) == \A b \in g.B : g.al[b] = 0 /\ ~(u <= b /\ b < v) => b \in g.L

Resized(h, g, h2, hc, kc, u, v, t) ==
  \E g2 : /\ Comes(h, g, hc, kc, g2, Used(g) \ Between(g, u, v))
          /\ u \in Used(g2) /\ g2.sz[u] = t /\ g2.hi = g.hi
          /\ \A w \in (2 * u) .. (2 * (u + t) - 3) : hc.mem[w] = h2.mem[w]

(* The area becomes one allocated block. *)
LEMMA ResizeOne ==
  ASSUME NEW h, NEW k, NEW g, OK(h, g), OK(k, g), NEW u, NEW v, Clear(g, u, v), FullOut(g, u, v),
         NEW h2, Heap(h2, 8 * g.hi), Outside(h, h2, u, v), Tagged(h2, u, v - u, 1),
         NEW k2, Heap(k2, 8 * g.hi), Outside(k, k2, u, v), Tagged(k2, u, v - u, 1)
  PROVE  Resized(h, g, h2, h2, k2, u, v, v - u)
<1>0. g \in Tables
  BY DEF OK
<1>1. PICK q : q = One(g, u, v, 1)
  OBVIOUS
<1>2. OK(h2, q) /\ Keeps(h, g, h2, q, Used(g) \ Between(g, u, v)) /\ Joins(g, u, v, 1, q)
  BY <1>1, OneBlockBy
<1>3. OK(k2, q)
  BY <1>1, OneBlockBy
<1>4. Full(q)
  <2> SUFFICES ASSUME NEW b \in q.B, q.al[b] = 0 PROVE b \in q.L
    BY DEF Full
  <2>1. b # u
    BY <1>2 DEF Joins
  <2>2. b \in g.B /\ ~(u <= b /\ b < v) /\ b \in Nat
    BY <1>0, <1>2, <2>1, Fields DEF Joins, Between
  <2>3. g.al[b] = 0
    BY <1>2, <2>1, <2>2 DEF Joins
  <2> QED BY <1>2, <2>2, <2>3 DEF FullOut, Joins
<1>5. Comes(h, g, h2, k2, q, Used(g) \ Between(g, u, v))
  BY <1>2, <1>3, <1>4 DEF Comes
<1>6. u \in Used(q) /\ q.sz[u] = v - u /\ q.hi = g.hi
  BY <1>2 DEF Joins, Used
<1> QED BY <1>5, <1>6 DEF Resized

(* The area becomes an allocated block and a free one, which is coalesced  *)
(* and listed.                                                             *)
LEMMA ResizeTwo ==
  ASSUME NEW h, NEW k, NEW g, OK(h, g), OK(k, g), NEW u, NEW v, Clear(g, u, v), FullOut(g, u, v),
         NEW m \in Nat, m >= u + 2, v >= m + 2,
         NEW h2, Heap(h2, 8 * g.hi), Outside(h, h2, u, v), Tagged(h2, u, m - u, 1), Tagged(h2, m, v - m, 0),
         NEW k2, Heap(k2, 8 * g.hi), Outside(k, k2, u, v), Tagged(k2, u, m - u, 1), Tagged(k2, m, v - m, 0)
  PROVE  Resized(h, g, h2, Lister(h2, m, v - m).h, Lister(k2, m, v - m).h, u, v, m - u)
<1>0. g \in Tables /\ Tiled(g) /\ Listed(g)
  BY DEF OK
<1>u. u \in Nat /\ v \in Nat /\ u \in g.B /\ g.L \subseteq g.B
  BY <1>0, ClearIs DEF Clear, Listed
<1>1. PICK q : q = Two(g, u, m, v, 1, 0)
  OBVIOUS
<1>x. PICK x \in {0, 1}, y \in {0, 1} : x = 1 /\ y = 0
  OBVIOUS
<1>2. OK(h2, q) /\ Keeps(h, g, h2, q, Used(g) \ Between(g, u, v)) /\ Splits(g, u, m, v, x, y, q)
  <2>1. Tagged(h2, u, m - u, x) /\ Tagged(h2, m, v - m, y) /\ q = Two(g, u, m, v, x, y)
    BY <1>1, <1>x
  <2> QED BY <2>1, TwoBlocks
<1>3. OK(k2, q)
  <2>1. Tagged(k2, u, m - u, x) /\ Tagged(k2, m, v - m, y) /\ q = Two(g, u, m, v, x, y)
    BY <1>1, <1>x
  <2> QED BY <2>1, TwoBlocks
<1>4. /\ q.B = (g.B \ Between(g, u, v)) \cup {u, m} /\ q.hi = g.hi /\ q.L = g.L
      /\ q.sz[u] = m - u /\ q.al[u] = 1 /\ q.sz[m] = v - m /\ q.al[m] = 0
      /\ \A b \in Nat : b # u /\ b # m => q.sz[b] = g.sz[b] /\ q.al[b] = g.al[b]
  BY <1>2, <1>x DEF Splits
<1>5. m \in q.B /\ m \notin q.L /\ q.al[m] = 0
  <2>1. m \notin g.L
    <3>1. u <= m /\ m < v
      BY <1>u
    <3> QED BY <3>1 DEF Clear
  <2> QED BY <1>4, <2>1
<1>6. FullBut(q, m)
  <2> SUFFICES ASSUME NEW b \in q.B, q.al[b] = 0, b # m PROVE b \in q.L
    BY DEF FullBut
  <2>1. b # u
    BY <1>4
  <2>2. b \in g.B /\ ~(u <= b /\ b < v) /\ b \in Nat
    BY <1>0, <1>4, <2>1, Fields DEF Between
  <2>3. g.al[b] = 0
    BY <1>4, <2>1, <2>2
  <2> QED BY <1>4, <2>2, <2>3 DEF FullOut
<1>7. PICK t \in Nat : t = v - m
  BY <1>u
<1>8. PICK hc : hc = Lister(h2, m, t)
  OBVIOUS
<1>9. PICK kc : kc = Lister(k2, m, t)
  OBVIOUS
<1>10. PICK g2, e : Frees(h2, q, hc, kc, Used(q), t, g2, e)
  <2>1. t = q.sz[m]
    BY <1>4, <1>7
  <2> QED BY <1>2, <1>3, <1>5, <1>6, <1>8, <1>9, <2>1, FreeUp
<1>11. Comes(h2, q, hc.h, kc.h, g2, Used(q))
  BY <1>10 DEF Frees
<1>12. Comes(h, g, hc.h, kc.h, g2, Used(g) \ Between(g, u, v))
  <2>1. OK(hc.h, g2) /\ OK(kc.h, g2) /\ Full(g2) /\ Keeps(h2, q, hc.h, g2, Used(q))
    BY <1>11 DEF Comes
  <2>2. Used(g) \ Between(g, u, v) \subseteq Used(q)
    BY <1>2, KeepsUsed
  <2>3. Keeps(h, g, hc.h, g2, Used(g) \ Between(g, u, v))
    BY <1>2, <2>1, <2>2, KeepsOn
  <2> QED BY <2>1, <2>3 DEF Comes
<1>13. u \in Used(q)
  BY <1>4 DEF Used
<1>14. /\ u \in Used(g2) /\ g2.sz[u] = q.sz[u]
       /\ \A w \in (2 * u) .. (2 * (u + q.sz[u]) - 3) : hc.h.mem[w] = h2.mem[w]
  BY <1>11, <1>13 DEF Comes, Keeps, Used
<1>16. g2.hi = g.hi
  BY <1>4, <1>10 DEF Frees
<1>15. Resized(h, g, h2, hc.h, kc.h, u, v, m - u)
  BY <1>4, <1>12, <1>14, <1>16 DEF Resized
<1> QED BY <1>7, <1>8, <1>9, <1>15

-----------------------------------------------------------------------------
(* The size that a resized block gets, in double words: r of room, a of    *)
(* payload.                                                                *)
Sized(r, a) == IF r - a >= 2 THEN a + 1 ELSE r + 1

(* The size that mm_realloc gives the block: the payload and the tags, and *)
(* all the room when the rest could not be a block.                        *)
LEMMA NewSizeIs ==
  ASSUME NEW r \in Nat, NEW a \in Nat, a <= r
  PROVE  NewSize(8 * r, 8 * a) = 8 * Sized(r, a) /\ Sized(r, a) \in Nat /\ Sized(r, a) >= a + 1 /\ Sized(r, a) <= r + 1
  BY DEF NewSize, Sized, DSIZE

(* The area from u to v has been laid out with a block of t at its start.  *)
Laid(h, h2, brk, u, v, t) == Heap(h2, brk) /\ Outside(h, h2, u, v) /\ Tagged(h2, u, t, 1)

Rest(h2, u, r, a) == ReturnPadding(h2, 8 * u, 8 * (r - a))

(* Tags behind the block leave it alone. *)
LaidTwo(h, h2, h3, brk, u, m, v) ==
  /\ Heap(h3, brk) /\ Outside(h, h3, u, v) /\ Tagged(h3, u, m - u, 1) /\ Tagged(h3, m, v - m, 0)
  /\ \A w \in (2 * u) .. (2 * (u + (m - u)) - 3) : h3.mem[w] = h2.mem[w]

(* The words of the two blocks that the area is cut into. *)
LEMMA RestWords ==
  ASSUME NEW h, NEW brk, NEW u \in Nat, u >= 1, NEW v \in Nat, 8 * v <= MAX_HEAP, NEW m \in Nat, m >= u + 2, v >= m + 2,
         NEW h2, Laid(h, h2, brk, u, v, m - u), NEW h3, h3 = PutTags(h2, 8 * m, 8 * (v - m), 0)
  PROVE  LaidTwo(h, h2, h3, brk, u, m, v)
<1>0. Heap(h2, brk) /\ Outside(h, h2, u, v) /\ Tagged(h2, u, m - u, 1)
  BY DEF Laid
<1>1. PICK r \in Nat : r = v - m
  OBVIOUS
<1>2. r >= 2 /\ v = m + r /\ MAX_HEAP \in Nat /\ m >= 1
  BY <1>1, Sizes8
<1>3. TagsPut(h2, h3, brk, m, r, 0)
  <2>1. 8 * (m + r) <= MAX_HEAP
    BY <1>2
  <2>2. PICK x \in {0, 1} : x = 0
    OBVIOUS
  <2>3. h3 = PutTags(h2, 8 * m, 8 * r, x)
    BY <1>1, <2>2
  <2>4. TagsPut(h2, PutTags(h2, 8 * m, 8 * r, x), brk, m, r, x)
    BY <1>0, <1>2, <2>1, PutTagsPut
  <2> QED BY <2>2, <2>3, <2>4
<1>4. /\ Heap(h3, brk) /\ h3.mem[2 * m - 1] = 8 * r + 0 /\ h3.mem[2 * (m + r) - 2] = 8 * r + 0
      /\ \A w \in Words : w # 2 * m - 1 /\ w # 2 * (m + r) - 2 => h3.mem[w] = h2.mem[w]
  BY <1>3 DEF TagsPut
<1>5. ASSUME NEW w \in Nat, w <= 2 * m - 2 PROVE h3.mem[w] = h2.mem[w]
  <2>1. w # 2 * m - 1 /\ w # 2 * (m + r) - 2 /\ 4 * w < MAX_HEAP
    BY <1>2, <1>5
  <2>2. w \in Words
    BY <2>1, IsWord
  <2> QED BY <1>4, <2>1, <2>2
<1>6. Outside(h, h3, u, v)
  <2> SUFFICES ASSUME NEW w \in Words, w < 2 * u - 1 \/ w > 2 * v - 2 PROVE h3.mem[w] = h.mem[w]
    BY DEF Outside
  <2>1. w \in Int
    BY Sizes8 DEF Words, WSIZE
  <2>2. w # 2 * m - 1 /\ w # 2 * (m + r) - 2
    BY <1>2, <2>1
  <2> QED BY <1>0, <1>4, <2>2 DEF Outside
<1>7. Tagged(h3, u, m - u, 1)
  <2>1. PICK t \in Nat : t = m - u
    OBVIOUS
  <2>2. PICK e \in Nat, f \in Nat : e = 2 * u - 1 /\ f = 2 * (u + t) - 2
    BY <2>1
  <2>3. e <= 2 * m - 2 /\ f <= 2 * m - 2
    BY <2>1, <2>2
  <2>4. h3.mem[e] = h2.mem[e] /\ h3.mem[f] = h2.mem[f]
    BY <1>5, <2>3
  <2> QED BY <1>0, <2>1, <2>2, <2>4 DEF Tagged
<1>8. Tagged(h3, m, v - m, 0)
  BY <1>1, <1>4 DEF Tagged
<1>9. ASSUME NEW w \in (2 * u) .. (2 * (u + (m - u)) - 3) PROVE h3.mem[w] = h2.mem[w]
  <2>1. w \in Nat /\ w <= 2 * m - 2
    OBVIOUS
  <2> QED BY <1>5, <2>1
<1> QED BY <1>4, <1>6, <1>7, <1>8, <1>9 DEF LaidTwo

(* ReturnPadding releases what the block does not need. *)
LEMMA RestIs ==
  ASSUME NEW h2, NEW u \in Nat, NEW r \in Nat, NEW a \in Nat, a <= r, Tagged(h2, u, Sized(r, a), 1)
  PROVE  /\ r - a < 2 => Rest(h2, u, r, a) = h2
         /\ r - a >= 2 => Rest(h2, u, r, a) =
              Lister(PutTags(h2, 8 * (u + a + 1), 8 * (r - a), 0), u + a + 1, r - a).h
<1>1. ASSUME r - a < 2 PROVE Rest(h2, u, r, a) = h2
  BY <1>1 DEF Rest, ReturnPadding, DSIZE
<1>2. ASSUME r - a >= 2
      PROVE  Rest(h2, u, r, a) = Lister(PutTags(h2, 8 * (u + a + 1), 8 * (r - a), 0), u + a + 1, r - a).h
  <2>1. PICK t \in Nat : t = a + 1 /\ t = Sized(r, a)
    BY <1>2 DEF Sized
  <2>2. PICK x \in {0, 1} : x = 1
    OBVIOUS
  <2>3. h2.mem[2 * u - 1] = 8 * t + x
    BY <2>1, <2>2 DEF Tagged
  <2>4. NEXT_BLKP(h2, 8 * u) = 8 * (u + t)
    BY <2>3, Reads
  <2>5. 8 * (u + t) = 8 * (u + a + 1)
    BY <2>1
  <2>6. Rest(h2, u, r, a) = Release(h2, 8 * (u + a + 1), 8 * (r - a))
    <3>1. 8 * (r - a) > 8
      BY <1>2
    <3> QED BY <2>4, <2>5, <3>1 DEF Rest, ReturnPadding, DSIZE
  <2> QED BY <2>6 DEF Release, Lister
<1> QED BY <1>1, <1>2

(* A laid out area, cut if there is enough left: the heap is in order. *)
LEMMA Shrunk ==
  ASSUME NEW h, NEW k, NEW g, OK(h, g), OK(k, g), NEW u, NEW v, Clear(g, u, v), FullOut(g, u, v),
         NEW r \in Nat, NEW a \in Nat, a >= 1, a <= r, v = u + r + 1,
         NEW h2, Laid(h, h2, 8 * g.hi, u, v, Sized(r, a)), NEW k2, Laid(k, k2, 8 * g.hi, u, v, Sized(r, a))
  PROVE  Resized(h, g, h2, Rest(h2, u, r, a), Rest(k2, u, r, a), u, v, Sized(r, a))
<1>0. g \in Tables /\ Tiled(g) /\ 8 * g.hi <= MAX_HEAP /\ MAX_HEAP \in Nat
  BY Sizes8 DEF OK
<1>1. u \in Nat /\ v \in Nat /\ u >= 1 /\ 8 * v <= MAX_HEAP
  <2>1. u \in Nat /\ v \in Nat /\ g.hi \in Nat /\ v <= g.hi /\ u >= Lo /\ Lo >= 3 /\ Lo \in Nat
    BY <1>0, ClearIs
  <2> QED BY <1>0, <2>1
<1>2. /\ Heap(h2, 8 * g.hi) /\ Outside(h, h2, u, v) /\ Tagged(h2, u, Sized(r, a), 1)
      /\ Heap(k2, 8 * g.hi) /\ Outside(k, k2, u, v) /\ Tagged(k2, u, Sized(r, a), 1)
  BY DEF Laid
<1>3. CASE r - a < 2
  <2>1. Sized(r, a) = v - u
    BY <1>1, <1>3 DEF Sized
  <2>2. Rest(h2, u, r, a) = h2 /\ Rest(k2, u, r, a) = k2
    BY <1>1, <1>2, <1>3, RestIs
  <2>3. Resized(h, g, h2, h2, k2, u, v, v - u)
    <3>1. Tagged(h2, u, v - u, 1) /\ Tagged(k2, u, v - u, 1)
      BY <1>2, <2>1
    <3> QED BY <1>2, <3>1, ResizeOne
  <2> QED BY <2>1, <2>2, <2>3
<1>4. CASE r - a >= 2
  <2>1. PICK m \in Nat : m = u + a + 1
    BY <1>1
  <2>2. m >= u + 2 /\ v >= m + 2 /\ Sized(r, a) = m - u /\ r - a = v - m
    BY <1>1, <1>4, <2>1 DEF Sized
  <2>3. PICK h3 : h3 = PutTags(h2, 8 * m, 8 * (v - m), 0)
    OBVIOUS
  <2>4. PICK k3 : k3 = PutTags(k2, 8 * m, 8 * (v - m), 0)
    OBVIOUS
  <2>5. Rest(h2, u, r, a) = Lister(h3, m, v - m).h /\ Rest(k2, u, r, a) = Lister(k3, m, v - m).h
    BY <1>1, <1>2, <1>4, <2>1, <2>2, <2>3, <2>4, RestIs
  <2>6. Laid(h, h2, 8 * g.hi, u, v, m - u) /\ Laid(k, k2, 8 * g.hi, u, v, m - u)
    BY <2>2
  <2>x. m >= u + 2 /\ v >= m + 2
    BY <2>2
  <2>7. /\ Heap(h3, 8 * g.hi) /\ Outside(h, h3, u, v) /\ Tagged(h3, u, m - u, 1) /\ Tagged(h3, m, v - m, 0)
        /\ \A w \in (2 * u) .. (2 * (u + (m - u)) - 3) : h3.mem[w] = h2.mem[w]
    <3>1. LaidTwo(h, h2, h3, 8 * g.hi, u, m, v)
      BY <1>1, <2>3, <2>6, <2>x, RestWords
    <3> QED BY <3>1 DEF LaidTwo
  <2>8. Heap(k3, 8 * g.hi) /\ Outside(k, k3, u, v) /\ Tagged(k3, u, m - u, 1) /\ Tagged(k3, m, v - m, 0)
    <3>1. LaidTwo(k, k2, k3, 8 * g.hi, u, m, v)
      BY <1>1, <2>4, <2>6, <2>x, RestWords
    <3> QED BY <3>1 DEF LaidTwo
  <2>9. Resized(h, g, h3, Lister(h3, m, v - m).h, Lister(k3, m, v - m).h, u, v, m - u)
    BY <2>7, <2>8, <2>x, ResizeTwo
  <2>10. Resized(h, g, h2, Lister(h3, m, v - m).h, Lister(k3, m, v - m).h, u, v, m - u)
    BY <2>7, <2>9 DEF Resized
  <2> QED BY <2>2, <2>5, <2>10
<1> QED BY <1>3, <1>4

-----------------------------------------------------------------------------
(* What a successful mm_realloc comes to, and an unsuccessful one.         *)
Reallocated_(h, g, b, size, hm, g2, d) ==
  /\ hm.p = 8 * d /\ d \in Used(g2) /\ d \notin Used(g) \ {b} /\ 8 * (g2.sz[d] - 1) >= size
  /\ \A j \in Nat : 4 * j < size /\ j < 2 * (g.sz[b] - 1) => hm.h.mem[2 * d + j] = h.mem[2 * b + j]

Reallocs(h, g, b, size, hm, km) ==
  \E g2 : /\ Comes(h, g, hm.h, km.h, g2, Used(g) \ {b}) /\ hm.p = km.p /\ g2.hi >= g.hi
          /\ hm.p = NULL \/ \E d : Reallocated_(h, g, b, size, hm, g2, d)

(* The blocks of S are off their lists, which leaves an area of b and them *)
(* from u to v.  The block of a double words at u holds what b held.       *)
Prepared(h, k, g, b, S, h1, k1, g1, u, v) ==
  /\ S \subseteq g.L /\ OK(h1, g1) /\ OK(k1, g1) /\ Off(g, g1, S) /\ Keeps(h, g, h1, g1, Used(g))
  /\ u \in S \cup {b} /\ v \in g.B \cup {g.hi} /\ u < v /\ Makes(g, S \cup {b}, u, v)

Carries(h1, h2, g, b, u, a) ==
  \A j \in Nat : j < 2 * a /\ j < 2 * (g.sz[b] - 1) => h2.mem[2 * u + j] = h1.mem[2 * b + j]

Emptied(g, b, g1, u, v) ==
  /\ Clear(g1, u, v) /\ FullOut(g1, u, v) /\ Used(g1) \ Between(g1, u, v) = Used(g) \ {b} /\ g1.hi = g.hi
  /\ Used(g1) = Used(g) /\ u \notin Used(g) \ {b}

(* In that area nothing is allocated but b, so it can be laid out anew. *)
LEMMA PreparedArea ==
  ASSUME NEW h, NEW k, NEW g, OK(h, g), Full(g), NEW b \in Used(g), NEW S, NEW h1, NEW k1, NEW g1, NEW u, NEW v,
         Prepared(h, k, g, b, S, h1, k1, g1, u, v)
  PROVE  Emptied(g, b, g1, u, v)
<1>0. /\ S \subseteq g.L /\ OK(h1, g1) /\ Off(g, g1, S)
      /\ u \in S \cup {b} /\ v \in g.B \cup {g.hi} /\ u < v
      /\ \A c \in g.B : u <= c /\ c < v <=> c \in S \cup {b}
  BY DEF Prepared, Makes
<1>1. /\ g1.B = g.B /\ g1.sz = g.sz /\ g1.al = g.al /\ g1.hi = g.hi /\ g1.L = g.L \ S
      /\ g.L \subseteq g.B /\ \A c \in g.L : g.al[c] = 0
  BY <1>0 DEF Off, OK, Listed
<1>2. b \in g.B /\ g.al[b] = 1 /\ b \notin g.L
  BY <1>1 DEF Used
<1>3. Clear(g1, u, v)
  <2>1. \A c \in g1.L : ~(u <= c /\ c < v)
    BY <1>0, <1>1, <1>2
  <2> QED BY <1>0, <1>1, <1>2, <2>1 DEF Clear
<1>4. FullOut(g1, u, v)
  <2> SUFFICES ASSUME NEW c \in g1.B, g1.al[c] = 0, ~(u <= c /\ c < v) PROVE c \in g1.L
    BY DEF FullOut
  <2>1. c \in g.B /\ g.al[c] = 0
    BY <1>1
  <2>2. c \in g.L /\ c \notin S
    BY <1>0, <2>1 DEF Full
  <2> QED BY <1>1, <2>2
<1>5. Used(g1) = Used(g)
  BY <1>1 DEF Used
<1>6. Used(g) \ Between(g1, u, v) = Used(g) \ {b}
  <2>1. ASSUME NEW c \in Used(g) PROVE c \in Between(g1, u, v) <=> c = b
    <3>1. c \in g.B /\ c \notin S
      BY <1>0, <1>1 DEF Used
    <3> QED BY <1>0, <1>1, <3>1 DEF Between
  <2> QED BY <2>1
<1>7. u \notin Used(g) \ {b}
  BY <1>0, <1>1 DEF Used
<1> QED BY <1>1, <1>3, <1>4, <1>5, <1>6, <1>7 DEF Emptied

(* Data that was carried to the start of the area is in the block that     *)
(* mm_realloc returns.                                                     *)
LEMMA Regrown ==
  ASSUME NEW h, NEW k, NEW g, OK(h, g), Full(g), NEW b \in Used(g), NEW S, NEW h1, NEW k1, NEW g1, NEW u, NEW v,
         Prepared(h, k, g, b, S, h1, k1, g1, u, v), NEW size \in Nat,
         NEW r \in Nat, NEW a \in Nat, a >= 1, a <= r, v = u + r + 1, size <= 8 * a,
         NEW h2, Laid(h1, h2, 8 * g.hi, u, v, Sized(r, a)), NEW k2, Laid(k1, k2, 8 * g.hi, u, v, Sized(r, a)),
         Carries(h1, h2, g, b, u, a),
         NEW hm, hm = [h |-> Rest(h2, u, r, a), p |-> 8 * u], NEW km, km = [h |-> Rest(k2, u, r, a), p |-> 8 * u]
  PROVE  Reallocs(h, g, b, size, hm, km)
<1>1. /\ Clear(g1, u, v) /\ FullOut(g1, u, v) /\ Used(g1) \ Between(g1, u, v) = Used(g) \ {b} /\ g1.hi = g.hi
      /\ Used(g1) = Used(g) /\ u \notin Used(g) \ {b}
  <2>1. Emptied(g, b, g1, u, v)
    BY PreparedArea
  <2> QED BY <2>1 DEF Emptied
<1>2. OK(h1, g1) /\ OK(k1, g1) /\ Keeps(h, g, h1, g1, Used(g))
  BY DEF Prepared
<1>3. PICK t : t = Sized(r, a)
  OBVIOUS
<1>4. t \in Nat /\ t >= a + 1
  BY <1>3, NewSizeIs
<1>5. Resized(h1, g1, h2, hm.h, km.h, u, v, t)
  <2>1. Laid(h1, h2, 8 * g1.hi, u, v, Sized(r, a)) /\ Laid(k1, k2, 8 * g1.hi, u, v, Sized(r, a))
    BY <1>1
  <2>2. Resized(h1, g1, h2, Rest(h2, u, r, a), Rest(k2, u, r, a), u, v, Sized(r, a))
    BY <1>1, <1>2, <2>1, Shrunk
  <2> QED BY <1>3, <2>2
<1>6. PICK g2 : /\ Comes(h1, g1, hm.h, km.h, g2, Used(g) \ {b})
                /\ u \in Used(g2) /\ g2.sz[u] = t /\ g2.hi = g1.hi
                /\ \A w \in (2 * u) .. (2 * (u + t) - 3) : hm.h.mem[w] = h2.mem[w]
  BY <1>1, <1>5 DEF Resized
<1>7. Comes(h, g, hm.h, km.h, g2, Used(g) \ {b})
  <2>1. OK(hm.h, g2) /\ OK(km.h, g2) /\ Full(g2) /\ Keeps(h1, g1, hm.h, g2, Used(g) \ {b})
    BY <1>6 DEF Comes
  <2>2. Keeps(h, g, h1, g1, Used(g) \ {b})
    BY <1>2, KeepsLess
  <2>3. Keeps(h, g, hm.h, g2, Used(g) \ {b})
    BY <2>1, <2>2, KeepsOn
  <2> QED BY <2>1, <2>3 DEF Comes
<1>8. u \in Nat
  BY <1>1, <1>2, ClearIs DEF OK
<1>9. ASSUME NEW j \in Nat, 4 * j < size, j < 2 * (g.sz[b] - 1) PROVE hm.h.mem[2 * u + j] = h.mem[2 * b + j]
  <2>1. j < 2 * a
    BY <1>9
  <2>2. h2.mem[2 * u + j] = h1.mem[2 * b + j]
    BY <1>9, <2>1 DEF Carries
  <2>3. 2 * u + j \in (2 * u) .. (2 * (u + t) - 3)
    BY <1>4, <1>8, <2>1
  <2>4. hm.h.mem[2 * u + j] = h2.mem[2 * u + j]
    BY <1>6, <2>3
  <2>5. h1.mem[2 * b + j] = h.mem[2 * b + j]
    <3>1. b \in Nat /\ g.sz[b] \in Nat
      <4>1. b \in g.B /\ g \in Tables
        BY DEF Used, OK
      <4> QED BY <4>1, Fields
    <3>2. 2 * b + j \in (2 * b) .. (2 * (b + g.sz[b]) - 3)
      BY <1>9, <3>1
    <3> QED BY <1>2, <3>2 DEF Keeps
  <2> QED BY <2>2, <2>4, <2>5
<1>10. hm.p = 8 * u /\ km.p = 8 * u /\ 8 * (g2.sz[u] - 1) >= size
  BY <1>4, <1>6
<1>11. Reallocated_(h, g, b, size, hm, g2, u)
  BY <1>1, <1>6, <1>9, <1>10 DEF Reallocated_
<1>12. g2.hi >= g.hi
  <2>1. g.hi \in Nat
    BY Fields DEF OK
  <2> QED BY <1>1, <1>6, <2>1
<1> QED BY <1>7, <1>10, <1>11, <1>12 DEF Reallocs

-----------------------------------------------------------------------------
(* The data stays, and the block takes in the area behind it. *)
LEMMA StayIs ==
  ASSUME NEW h, NEW k, NEW g, OK(h, g), Full(g), NEW b \in Used(g), NEW S, NEW h1, NEW k1, NEW g1, NEW v,
         Prepared(h, k, g, b, S, h1, k1, g1, b, v), NEW size \in Nat,
         NEW r \in Nat, NEW a \in Nat, a >= 1, a <= r, v = b + r + 1, size <= 8 * a
  PROVE  Reallocs(h, g, b, size, Stay(h1, 8 * b, 8 * a, 8 * r), Stay(k1, 8 * b, 8 * a, 8 * r))
<1>1. Emptied(g, b, g1, b, v) /\ OK(h1, g1) /\ OK(k1, g1)
  BY PreparedArea DEF Prepared
<1>2. Clear(g1, b, v) /\ g1 \in Tables /\ Tiled(g1) /\ 8 * g1.hi <= MAX_HEAP /\ g1.hi = g.hi /\ MAX_HEAP \in Nat
      /\ Heap(h1, 8 * g.hi) /\ Heap(k1, 8 * g.hi)
  BY <1>1, Sizes8 DEF Emptied, OK
<1>3. b \in Nat /\ b >= 1 /\ v <= g.hi /\ v \in Nat /\ g.hi \in Nat
  <2>1. b \in Nat /\ v \in Nat /\ g1.hi \in Nat /\ v <= g1.hi /\ b >= Lo /\ Lo >= 3 /\ Lo \in Nat
    BY <1>2, ClearIs
  <2> QED BY <1>2, <2>1
<1>4. PICK t \in Nat : t = Sized(r, a) /\ NewSize(8 * r, 8 * a) = 8 * t /\ t >= 2 /\ t <= r + 1
  <2>1. PICK t : t = Sized(r, a)
    OBVIOUS
  <2>2. NewSize(8 * r, 8 * a) = 8 * t /\ t \in Nat /\ t >= a + 1 /\ t <= r + 1
    BY <2>1, NewSizeIs
  <2> QED BY <2>1, <2>2
<1>h. PICK h2 : h2 = PutTags(h1, 8 * b, 8 * t, 1)
  OBVIOUS
<1>k. PICK k2 : k2 = PutTags(k1, 8 * b, 8 * t, 1)
  OBVIOUS
<1>5. ASSUME NEW x, Heap(x, 8 * g.hi), NEW x2, x2 = PutTags(x, 8 * b, 8 * t, 1)
      PROVE  Laid(x, x2, 8 * g.hi, b, v, t) /\ \A w \in Words : w # 2 * b - 1 /\ w # 2 * (b + t) - 2 => x2.mem[w] = x.mem[w]
  <2>1. 8 * (b + t) <= MAX_HEAP
    BY <1>2, <1>3, <1>4
  <2>2. PICK e \in {0, 1} : e = 1
    OBVIOUS
  <2>3. x2 = PutTags(x, 8 * b, 8 * t, e)
    BY <1>5, <2>2
  <2>4. TagsPut(x, PutTags(x, 8 * b, 8 * t, e), 8 * g.hi, b, t, e)
    <3>1. t >= 2
      BY <1>4
    <3> QED BY <1>3, <1>5, <2>1, <3>1, PutTagsPut
  <2>5. /\ Heap(x2, 8 * g.hi) /\ x2.mem[2 * b - 1] = 8 * t + 1 /\ x2.mem[2 * (b + t) - 2] = 8 * t + 1
        /\ \A w \in Words : w # 2 * b - 1 /\ w # 2 * (b + t) - 2 => x2.mem[w] = x.mem[w]
    BY <2>2, <2>3, <2>4 DEF TagsPut
  <2>6. Outside(x, x2, b, v)
    <3> SUFFICES ASSUME NEW w \in Words, w < 2 * b - 1 \/ w > 2 * v - 2 PROVE x2.mem[w] = x.mem[w]
      BY DEF Outside
    <3>1. w \in Int
      BY Sizes8 DEF Words, WSIZE
    <3>2. w # 2 * b - 1 /\ w # 2 * (b + t) - 2
      BY <1>3, <1>4, <3>1
    <3> QED BY <2>5, <3>2
  <2> QED BY <2>5, <2>6 DEF Laid, Tagged
<1>6. Laid(h1, h2, 8 * g.hi, b, v, t) /\ \A w \in Words : w # 2 * b - 1 /\ w # 2 * (b + t) - 2 => h2.mem[w] = h1.mem[w]
  BY <1>2, <1>5, <1>h
<1>7. Laid(k1, k2, 8 * g.hi, b, v, t)
  BY <1>2, <1>5, <1>k
<1>8. Carries(h1, h2, g, b, b, a)
  <2> SUFFICES ASSUME NEW j \in Nat, j < 2 * a PROVE h2.mem[2 * b + j] = h1.mem[2 * b + j]
    BY DEF Carries
  <2>0. t >= a + 1
    BY <1>4, NewSizeIs
  <2>1. PICK w \in Nat : w = 2 * b + j
    BY <1>3
  <2>2. w # 2 * b - 1 /\ w # 2 * (b + t) - 2 /\ 4 * w < MAX_HEAP
    BY <1>2, <1>3, <1>4, <2>0, <2>1
  <2>3. w \in Words
    BY <2>2, IsWord
  <2> QED BY <1>6, <2>1, <2>2, <2>3
<1>9. PICK hm : hm = [h |-> Rest(h2, b, r, a), p |-> 8 * b]
  OBVIOUS
<1>10. PICK km : km = [h |-> Rest(k2, b, r, a), p |-> 8 * b]
  OBVIOUS
<1>11. Reallocs(h, g, b, size, hm, km)
  <2>1. Laid(h1, h2, 8 * g.hi, b, v, Sized(r, a)) /\ Laid(k1, k2, 8 * g.hi, b, v, Sized(r, a))
    BY <1>4, <1>6, <1>7
  <2> QED BY <1>8, <1>9, <1>10, <2>1, Regrown
<1>12. Stay(h1, 8 * b, 8 * a, 8 * r) = hm /\ Stay(k1, 8 * b, 8 * a, 8 * r) = km
  <2>1. 8 * r - 8 * a = 8 * (r - a)
    OBVIOUS
  <2> QED BY <1>4, <1>9, <1>10, <1>h, <1>k, <2>1 DEF Stay, Rest
<1> QED BY <1>11, <1>12

-----------------------------------------------------------------------------
(* memmove and memcpy of whole double words. *)
Copies(h, h2, brk, d, s, c) ==
  /\ Heap(h2, brk)
  /\ \A w \in Words : h2.mem[w] = IF w \in (2 * d) .. (2 * (d + c) - 1) THEN h.mem[w - 2 * (d - s)] ELSE h.mem[w]

(* The words arrive in order, even if the areas overlap: each is read from *)
(* the heap as it was before.                                              *)
LEMMA CopyIs ==
  ASSUME NEW h, NEW brk, Heap(h, brk), NEW d \in Nat, NEW s \in Nat, NEW c \in Nat, 8 * (s + c) <= MAX_HEAP
  PROVE  Copies(h, CopyWords(h, 8 * d, 8 * s, 8 * c), brk, d, s, c)
<1>1. h = [mem |-> h.mem, brk |-> brk] /\ h.mem \in [Words -> Int] /\ DOMAIN h.mem = Words
  BY DEF Heap
<1>2. (8 * d - 8 * s) \div 4 = 2 * (d - s) /\ (8 * d) \div 4 = 2 * d /\ (8 * d + 8 * c) \div 4 = 2 * (d + c)
  OBVIOUS
<1>3. PICK m : m = [w \in Words |-> IF w \in (2 * d) .. (2 * (d + c) - 1) THEN h.mem[w - 2 * (d - s)] ELSE h.mem[w]]
  OBVIOUS
<1>4. CopyWords(h, 8 * d, 8 * s, 8 * c) = [h EXCEPT !.mem = m]
  BY <1>1, <1>2, <1>3 DEF CopyWords, WSIZE
<1>5. [h EXCEPT !.mem = m] = [mem |-> m, brk |-> brk]
  BY <1>1
<1>6. m \in [Words -> Int]
  <2> SUFFICES ASSUME NEW w \in Words, w \in (2 * d) .. (2 * (d + c) - 1) PROVE w - 2 * (d - s) \in Words
    BY <1>1, <1>3
  <2>1. PICK x \in Nat : x = w - 2 * (d - s) /\ x <= 2 * (s + c) - 1
    OBVIOUS
  <2>2. 4 * x < MAX_HEAP
    BY <2>1, Sizes8
  <2> QED BY <2>1, <2>2, IsWord
<1> QED BY <1>3, <1>4, <1>5, <1>6 DEF Copies, Heap

-----------------------------------------------------------------------------
(* The data moves down to u: header, data and footer are written. *)
Shifted(h, u, b, c, t) ==
  PutFooter(CopyWords(PUT(h, HDRP(8 * u), PACK(8 * t, 1)), 8 * u, 8 * b, 8 * c), 8 * u, 8 * t, 1)

Shifts(h, h2, brk, u, b, c, t, v) ==
  Laid(h, h2, brk, u, v, t) /\ \A j \in Nat : j < 2 * (t - 1) /\ j < 2 * c => h2.mem[2 * u + j] = h.mem[2 * b + j]

(* Header, data, footer, in the order of the C code: the data arrive, and  *)
(* nothing outside the area is written.                                    *)
LEMMA ShiftWords ==
  ASSUME NEW h, NEW brk, Heap(h, brk), NEW u \in Nat, u >= 1, NEW b \in Nat, u < b, NEW c \in Nat, c >= 2,
         NEW t \in Nat, t >= 2, NEW v \in Nat, u + t <= v, b + c <= v, 8 * v <= MAX_HEAP
  PROVE  Shifts(h, Shifted(h, u, b, c, t), brk, u, b, c, t, v)
<1>0. MAX_HEAP \in Nat
  BY Sizes8
<1>1. PICK e \in Words : e = 2 * u - 1
  <2>1. PICK e \in Nat : e = 2 * u - 1
    OBVIOUS
  <2>2. 4 * e < MAX_HEAP
    BY <1>0, <2>1
  <2> QED BY <2>1, <2>2, IsWord
<1>2. PICK f \in Words : f = 2 * (u + t) - 2
  <2>1. PICK f \in Nat : f = 2 * (u + t) - 2
    OBVIOUS
  <2>2. 4 * f < MAX_HEAP
    BY <1>0, <2>1
  <2> QED BY <2>1, <2>2, IsWord
<1>3. PICK h1 : h1 = PUT(h, HDRP(8 * u), PACK(8 * t, 1))
  OBVIOUS
<1>4. Wrote(h, h1, brk, e, 8 * t + 1)
  <2>1. HDRP(8 * u) \div 4 = e /\ PACK(8 * t, 1) = 8 * t + 1 /\ 8 * t + 1 \in Int
    BY <1>1, WordAt DEF HDRP, PACK, WSIZE
  <2>2. h1 = Set(h, e, 8 * t + 1)
    BY <1>3, <2>1, PutIsSet
  <2> QED BY <2>1, <2>2, SetWrites
<1>5. PICK h2 : h2 = CopyWords(h1, 8 * u, 8 * b, 8 * c)
  OBVIOUS
<1>6. Copies(h1, h2, brk, u, b, c)
  <2>1. 8 * (b + c) <= MAX_HEAP
    BY <1>0
  <2>2. Heap(h1, brk)
    BY <1>4 DEF Wrote
  <2> QED BY <1>5, <2>1, <2>2, CopyIs
<1>7. h2.mem[e] = 8 * t + 1
  <2>1. e \notin (2 * u) .. (2 * (u + c) - 1)
    BY <1>1
  <2> QED BY <1>4, <1>6, <2>1 DEF Copies, Wrote
<1>8. PICK h3 : h3 = PutFooter(h2, 8 * u, 8 * t, 1)
  OBVIOUS
<1>9. Wrote(h2, h3, brk, f, 8 * t + 1)
  <2>1. PICK x \in {0, 1} : x = 1
    OBVIOUS
  <2>2. h2.mem[2 * u - 1] = 8 * t + x
    BY <1>1, <1>7, <2>1
  <2>3. FTRP(h2, 8 * u) = 8 * (u + t) - 8
    BY <2>2, Reads
  <2>4. (8 * (u + t) - 8) \div 4 = f
    BY <1>2
  <2>5. PACK(8 * t, 1) = 8 * t + 1 /\ 8 * t + 1 \in Int
    BY DEF PACK
  <2>6. Heap(h2, brk)
    BY <1>6 DEF Copies
  <2>7. h3 = Set(h2, f, 8 * t + 1)
    BY <1>8, <2>3, <2>4, <2>5, <2>6, PutIsSet DEF PutFooter
  <2> QED BY <2>5, <2>6, <2>7, SetWrites
<1>10. Heap(h3, brk) /\ h3.mem[f] = 8 * t + 1 /\ \A w \in Words : w # f => h3.mem[w] = h2.mem[w]
  BY <1>9 DEF Wrote
<1>11. \A w \in Words : h2.mem[w] = IF w \in (2 * u) .. (2 * (u + c) - 1) THEN h1.mem[w - 2 * (u - b)] ELSE h1.mem[w]
  BY <1>6 DEF Copies
<1>12. \A w \in Words : w # e => h1.mem[w] = h.mem[w]
  BY <1>4 DEF Wrote
<1>13. Outside(h, h3, u, v)
  <2> SUFFICES ASSUME NEW w \in Words, w < 2 * u - 1 \/ w > 2 * v - 2 PROVE h3.mem[w] = h.mem[w]
    BY DEF Outside
  <2>1. w \in Int
    BY Sizes8 DEF Words, WSIZE
  <2>2. w # e /\ w # f /\ w \notin (2 * u) .. (2 * (u + c) - 1)
    BY <1>1, <1>2, <2>1
  <2> QED BY <1>10, <1>11, <1>12, <2>2
<1>14. Tagged(h3, u, t, 1)
  <2>1. e # f
    BY <1>1, <1>2
  <2>2. h3.mem[e] = 8 * t + 1
    BY <1>7, <1>10, <2>1
  <2> QED BY <1>1, <1>2, <1>10, <2>2 DEF Tagged
<1>15. ASSUME NEW j \in Nat, j < 2 * (t - 1), j < 2 * c PROVE h3.mem[2 * u + j] = h.mem[2 * b + j]
  <2>1. PICK w \in Nat : w = 2 * u + j
    OBVIOUS
  <2>2. PICK y \in Nat : y = 2 * b + j
    OBVIOUS
  <2>3. 4 * w < MAX_HEAP /\ 4 * y < MAX_HEAP
    BY <1>0, <1>15, <2>1, <2>2
  <2>4. w \in Words /\ y \in Words
    BY <2>3, IsWord
  <2>5. w # f /\ w \in (2 * u) .. (2 * (u + c) - 1) /\ w - 2 * (u - b) = y /\ y # e
    BY <1>1, <1>2, <1>15, <2>1, <2>2
  <2>6. h3.mem[w] = h2.mem[w] /\ h2.mem[w] = h1.mem[y] /\ h1.mem[y] = h.mem[y]
    BY <1>10, <1>11, <1>12, <2>4, <2>5
  <2> QED BY <2>1, <2>2, <2>6
<1>16. Shifted(h, u, b, c, t) = h3
  BY <1>3, <1>5, <1>8 DEF Shifted
<1> QED BY <1>10, <1>13, <1>14, <1>15, <1>16 DEF Shifts, Laid

(* mm_realloc into the free block in front keeps the data. *)
LEMMA MoveIs ==
  ASSUME NEW h, NEW k, NEW g, OK(h, g), Full(g), NEW b \in Used(g), NEW S, NEW h1, NEW k1, NEW g1, NEW u, NEW v,
         Prepared(h, k, g, b, S, h1, k1, g1, u, v), u < b, b + g.sz[b] <= v, NEW size \in Nat, NEW c, c = g.sz[b],
         NEW r \in Nat, NEW a \in Nat, a >= 1, a <= r, v = u + r + 1, size <= 8 * a
  PROVE  Reallocs(h, g, b, size, Move(h1, 8 * u, 8 * b, 8 * c, 8 * a, 8 * r), Move(k1, 8 * u, 8 * b, 8 * c, 8 * a, 8 * r))
<1>1. Emptied(g, b, g1, u, v) /\ OK(h1, g1) /\ OK(k1, g1)
  BY PreparedArea DEF Prepared
<1>2. Clear(g1, u, v) /\ g1 \in Tables /\ Tiled(g1) /\ 8 * g1.hi <= MAX_HEAP /\ g1.hi = g.hi /\ MAX_HEAP \in Nat
      /\ Heap(h1, 8 * g.hi) /\ Heap(k1, 8 * g.hi)
  BY <1>1, Sizes8 DEF Emptied, OK
<1>3. u \in Nat /\ u >= 1 /\ v <= g.hi /\ v \in Nat /\ g.hi \in Nat /\ 8 * v <= MAX_HEAP
  <2>1. u \in Nat /\ v \in Nat /\ g1.hi \in Nat /\ v <= g1.hi /\ u >= Lo /\ Lo >= 3 /\ Lo \in Nat
    BY <1>2, ClearIs
  <2> QED BY <1>2, <2>1
<1>b. b \in Nat /\ c \in Nat /\ c >= 2 /\ b + c <= v
  <2>1. b \in g.B /\ g \in Tables /\ Tiled(g) /\ 8 * g.hi <= MAX_HEAP
    BY DEF Used, OK
  <2> QED BY <2>1, BlockWords
<1>4. PICK t \in Nat : t = Sized(r, a) /\ NewSize(8 * r, 8 * a) = 8 * t /\ t >= 2 /\ t <= r + 1 /\ t >= a + 1
  <2>1. PICK t : t = Sized(r, a)
    OBVIOUS
  <2>2. NewSize(8 * r, 8 * a) = 8 * t /\ t \in Nat /\ t >= a + 1 /\ t <= r + 1
    BY <2>1, NewSizeIs
  <2> QED BY <2>1, <2>2
<1>t. t >= 2 /\ u + t <= v
  BY <1>3, <1>4
<1>h. PICK h2 : h2 = Shifted(h1, u, b, c, t)
  OBVIOUS
<1>k. PICK k2 : k2 = Shifted(k1, u, b, c, t)
  OBVIOUS
<1>5. Shifts(h1, h2, 8 * g.hi, u, b, c, t, v)
  BY <1>2, <1>3, <1>b, <1>t, <1>h, ShiftWords
<1>6. Shifts(k1, k2, 8 * g.hi, u, b, c, t, v)
  BY <1>2, <1>3, <1>b, <1>t, <1>k, ShiftWords
<1>8. Carries(h1, h2, g, b, u, a)
  <2> SUFFICES ASSUME NEW j \in Nat, j < 2 * a, j < 2 * (c - 1) PROVE h2.mem[2 * u + j] = h1.mem[2 * b + j]
    BY DEF Carries
  <2>1. j < 2 * (t - 1) /\ j < 2 * c
    BY <1>b, <1>4
  <2> QED BY <1>5, <2>1 DEF Shifts
<1>9. PICK hm : hm = [h |-> Rest(h2, u, r, a), p |-> 8 * u]
  OBVIOUS
<1>10. PICK km : km = [h |-> Rest(k2, u, r, a), p |-> 8 * u]
  OBVIOUS
<1>11. Reallocs(h, g, b, size, hm, km)
  <2>1. Laid(h1, h2, 8 * g.hi, u, v, Sized(r, a)) /\ Laid(k1, k2, 8 * g.hi, u, v, Sized(r, a))
    BY <1>4, <1>5, <1>6 DEF Shifts
  <2> QED BY <1>8, <1>9, <1>10, <2>1, Regrown
<1>12. Move(h1, 8 * u, 8 * b, 8 * c, 8 * a, 8 * r) = hm /\ Move(k1, 8 * u, 8 * b, 8 * c, 8 * a, 8 * r) = km
  <2>1. 8 * r - 8 * a = 8 * (r - a)
    OBVIOUS
  <2> QED BY <1>4, <1>9, <1>10, <1>h, <1>k, <2>1 DEF Move, Rest, Shifted
<1> QED BY <1>11, <1>12

-----------------------------------------------------------------------------
(* A block that is used does not lie at 0. *)
LEMMA UsedIs ==
  ASSUME NEW h, NEW g, OK(h, g), NEW b \in Used(g)
  PROVE  /\ g \in Tables /\ Tiled(g) /\ b \in g.B /\ b \in Nat /\ b >= 3 /\ g.sz[b] \in Nat /\ g.sz[b] >= 2
         /\ b + g.sz[b] <= g.hi /\ g.hi \in Nat /\ 8 * g.hi <= MAX_HEAP /\ MAX_HEAP \in Nat /\ 8 * b # NULL
<1>1. g \in Tables /\ Tiled(g) /\ 8 * g.hi <= MAX_HEAP /\ b \in g.B
  BY DEF OK, Used
<1>2. /\ b \in Nat /\ g.sz[b] \in Nat /\ b >= Lo /\ Lo >= 3 /\ g.sz[b] >= 2 /\ b + g.sz[b] <= g.hi /\ g.hi \in Nat
      /\ Lo \in Nat
  BY <1>1, BlockWords
<1> QED BY <1>1, <1>2, Sizes8 DEF NULL

(* The copy fits into the new block. *)
CopyFits(h, h2, g, b, d, c) ==
  /\ Writes(h, h2, 8 * g.hi, d, g.sz[d])
  /\ \A j \in Nat : j < 2 * c => h2.mem[2 * d + j] = h.mem[2 * b + j]

(* memcpy into another block fits there, and touches nothing else. *)
LEMMA CopyWrites ==
  ASSUME NEW h, NEW g, OK(h, g), NEW b \in Used(g), NEW d \in Used(g), NEW c \in Nat, b + c <= g.hi, c + 1 <= g.sz[d],
         NEW h2, h2 = CopyWords(h, 8 * d, 8 * b, 8 * c)
  PROVE  CopyFits(h, h2, g, b, d, c)
<1>1. /\ b \in Nat /\ d \in Nat /\ g.sz[d] \in Nat /\ d + g.sz[d] <= g.hi /\ g.hi \in Nat /\ 8 * g.hi <= MAX_HEAP /\ MAX_HEAP \in Nat
  BY UsedIs
<1>2. Copies(h, h2, 8 * g.hi, d, b, c)
  <2>1. 8 * (b + c) <= MAX_HEAP /\ Heap(h, 8 * g.hi)
    BY <1>1 DEF OK
  <2> QED BY <1>1, <2>1, CopyIs
<1>3. Writes(h, h2, 8 * g.hi, d, g.sz[d])
  <2> SUFFICES ASSUME NEW w \in Words, w \notin (2 * d) .. (2 * (d + g.sz[d]) - 3) PROVE h2.mem[w] = h.mem[w]
    BY <1>2 DEF Writes, Copies
  <2>1. w \notin (2 * d) .. (2 * (d + c) - 1)
    <3>1. w \in Int
      BY Sizes8 DEF Words, WSIZE
    <3>2. PICK t \in Nat : t = g.sz[d]
      BY <1>1
    <3> QED BY <1>1, <3>1, <3>2
  <2> QED BY <1>2, <2>1 DEF Copies
<1>4. ASSUME NEW j \in Nat, j < 2 * c PROVE h2.mem[2 * d + j] = h.mem[2 * b + j]
  <2>1. PICK w \in Nat : w = 2 * d + j
    BY <1>1
  <2>t. PICK t \in Nat : t = g.sz[d]
    BY <1>1
  <2>2. 4 * w < MAX_HEAP
    BY <1>1, <1>4, <2>1, <2>t
  <2>3. w \in Words
    BY <2>2, IsWord
  <2>4. w \in (2 * d) .. (2 * (d + c) - 1) /\ w - 2 * (d - b) = 2 * b + j
    BY <1>1, <1>4, <2>1
  <2> QED BY <1>2, <2>1, <2>3, <2>4 DEF Copies
<1> QED BY <1>3, <1>4 DEF CopyFits

(* mm_realloc by mm_malloc, memcpy and mm_free keeps the data. *)
LEMMA CopyOverIs ==
  ASSUME NEW h, NEW k, NEW g, OK(h, g), NEW b \in Used(g), NEW size \in Nat, NEW c, c = g.sz[b], size > 8 * (c - 1),
         NEW hn, NEW kn, Mallocs(h, k, g, size, hn, kn)
  PROVE  Reallocs(h, g, b, size, CopyOver(hn, 8 * b, 8 * c), CopyOver(kn, 8 * b, 8 * c))
<1>1. PICK g1 : /\ Comes(h, g, hn.h, kn.h, g1, Used(g)) /\ hn.p = kn.p /\ g1.hi >= g.hi
                /\ \/ hn.p = NULL
                   \/ \E d : hn.p = 8 * d /\ d \in Used(g1) /\ d \notin Used(g) /\ 8 * (g1.sz[d] - 1) >= size
  BY DEF Mallocs
<1>2. OK(hn.h, g1) /\ OK(kn.h, g1) /\ Full(g1) /\ Keeps(h, g, hn.h, g1, Used(g))
  BY <1>1 DEF Comes
<1>p. PICK hm : hm = CopyOver(hn, 8 * b, 8 * c)
  OBVIOUS
<1>q. PICK km : km = CopyOver(kn, 8 * b, 8 * c)
  OBVIOUS
<1>3. CASE hn.p = NULL
  <2>1. hm = [h |-> hn.h, p |-> NULL] /\ km = [h |-> kn.h, p |-> NULL]
    BY <1>1, <1>3, <1>p, <1>q DEF CopyOver
  <2>2. Keeps(h, g, hn.h, g1, Used(g) \ {b})
    BY <1>2, KeepsLess
  <2>3. Comes(h, g, hm.h, km.h, g1, Used(g) \ {b}) /\ hm.p = km.p /\ hm.p = NULL
    BY <1>2, <2>1, <2>2 DEF Comes
  <2>4. Reallocs(h, g, b, size, hm, km)
    BY <1>1, <2>3 DEF Reallocs
  <2> QED BY <1>p, <1>q, <2>4
<1>4. CASE hn.p # NULL
  <2>1. PICK d : hn.p = 8 * d /\ d \in Used(g1) /\ d \notin Used(g) /\ 8 * (g1.sz[d] - 1) >= size
    BY <1>1, <1>4
  <2>h. PICK h2 : h2 = CopyWords(hn.h, 8 * d, 8 * b, 8 * c)
    OBVIOUS
  <2>k. PICK k2 : k2 = CopyWords(kn.h, 8 * d, 8 * b, 8 * c)
    OBVIOUS
  <2>2. hm = [h |-> mm_free(h2, 8 * b), p |-> 8 * d] /\ km = [h |-> mm_free(k2, 8 * b), p |-> 8 * d]
    BY <1>1, <1>4, <1>p, <1>q, <2>1, <2>h, <2>k DEF CopyOver
  <2>3. b \in Used(g1) /\ g1.sz[b] = c /\ b # d /\ b \in Nat /\ c \in Nat /\ c >= 2
    BY <1>2, <2>1, UsedIs DEF Keeps, Used
  <2>4. b + c <= g1.hi /\ d \in Nat /\ g1.sz[d] \in Nat /\ c + 1 <= g1.sz[d]
    <3>1. b + c <= g1.hi /\ d \in Nat /\ g1.sz[d] \in Nat
      BY <1>2, <2>1, <2>3, UsedIs
    <3>2. PICK t \in Nat : t = g1.sz[d]
      BY <3>1
    <3>3. 8 * (t - 1) > 8 * (c - 1)
      BY <2>1, <2>3, <3>2
    <3>4. c + 1 <= t
      BY <2>3, <3>3
    <3> QED BY <3>1, <3>2, <3>4
  <2>5. /\ Writes(hn.h, h2, 8 * g1.hi, d, g1.sz[d])
        /\ \A j \in Nat : j < 2 * c => h2.mem[2 * d + j] = hn.h.mem[2 * b + j]
    <3>1. c + 1 <= g1.sz[d] /\ b + c <= g1.hi
      BY <2>4
    <3>2. CopyFits(hn.h, h2, g1, b, d, c)
      BY <1>2, <2>1, <2>3, <2>h, <3>1, CopyWrites
    <3> QED BY <3>2 DEF CopyFits
  <2>6. Writes(kn.h, k2, 8 * g1.hi, d, g1.sz[d])
    <3>1. c + 1 <= g1.sz[d] /\ b + c <= g1.hi
      BY <2>4
    <3>2. CopyFits(kn.h, k2, g1, b, d, c)
      BY <1>2, <2>1, <2>3, <2>k, <3>1, CopyWrites
    <3> QED BY <3>2 DEF CopyFits
  <2>7. OK(h2, g1) /\ Keeps(hn.h, g1, h2, g1, Used(g1) \ {d})
    BY <1>2, <2>1, <2>5, PayloadWritten
  <2>8. OK(k2, g1)
    BY <1>2, <2>1, <2>6, PayloadWritten
  <2>9. Freeing(h2, k2, g1, b)
    BY <1>2, <2>3, <2>7, <2>8, MmFree
  <2>10. PICK g2 : Comes(h2, g1, mm_free(h2, 8 * b), mm_free(k2, 8 * b), g2, Used(g1) \ {b}) /\ g2.hi = g1.hi
    BY <2>9 DEF Freeing
  <2>11. OK(hm.h, g2) /\ OK(km.h, g2) /\ Full(g2) /\ Keeps(h2, g1, hm.h, g2, Used(g1) \ {b})
    BY <2>2, <2>10 DEF Comes
  <2>12. Keeps(h, g, hm.h, g2, Used(g) \ {b})
    <3>1. Keeps(h, g, hn.h, g1, Used(g) \ {b})
      BY <1>2, KeepsLess
    <3>2. Used(g) \subseteq Used(g1)
      BY <1>2, KeepsUsed
    <3>3. Used(g) \ {b} \subseteq Used(g1) \ {d} /\ Used(g) \ {b} \subseteq Used(g1) \ {b}
      BY <2>1, <3>2
    <3>4. Keeps(h, g, h2, g1, Used(g) \ {b})
      BY <2>7, <3>1, <3>3, KeepsOn
    <3> QED BY <2>11, <3>3, <3>4, KeepsOn
  <2>13. d \in Used(g2) /\ g2.sz[d] = g1.sz[d] /\ \A w \in (2 * d) .. (2 * (d + g1.sz[d]) - 3) : hm.h.mem[w] = h2.mem[w]
    <3>1. d \in Used(g1) \ {b}
      BY <2>1, <2>3
    <3> QED BY <2>11, <3>1 DEF Keeps, Used
  <2>14. ASSUME NEW j \in Nat, 4 * j < size, j < 2 * (g.sz[b] - 1) PROVE hm.h.mem[2 * d + j] = h.mem[2 * b + j]
    <3>1. j < 2 * c
      BY <2>3, <2>14
    <3>2. 2 * d + j \in (2 * d) .. (2 * (d + g1.sz[d]) - 3)
      <4>1. PICK t \in Nat : t = g1.sz[d]
        BY <2>4
      <4> QED BY <2>3, <2>4, <2>14, <4>1
    <3>3. 2 * b + j \in (2 * b) .. (2 * (b + g.sz[b]) - 3)
      BY <2>3, <2>14
    <3>4. hm.h.mem[2 * d + j] = h2.mem[2 * d + j] /\ h2.mem[2 * d + j] = hn.h.mem[2 * b + j]
      BY <2>5, <2>13, <3>1, <3>2
    <3>5. hn.h.mem[2 * b + j] = h.mem[2 * b + j]
      BY <1>2, <3>3 DEF Keeps
    <3> QED BY <3>4, <3>5
  <2>15. Reallocated_(h, g, b, size, hm, g2, d)
    BY <2>1, <2>2, <2>13, <2>14 DEF Reallocated_
  <2>16. Comes(h, g, hm.h, km.h, g2, Used(g) \ {b}) /\ hm.p = km.p
    BY <2>2, <2>11, <2>12 DEF Comes
  <2>17. Reallocs(h, g, b, size, hm, km)
    BY <1>1, <2>10, <2>15, <2>16 DEF Reallocs
  <2> QED BY <1>p, <1>q, <2>17
<1> QED BY <1>3, <1>4

-----------------------------------------------------------------------------
(* A request in double words. *)
LEMMA AlignIs ==
  ASSUME NEW size \in Nat, size >= 1
  PROVE  \E a \in Nat : ALIGN(size) = 8 * a /\ a >= 1 /\ size <= 8 * a /\ size > 8 * (a - 1)
<1>1. PICK a : a = (size + 7) \div 8
  OBVIOUS
<1>2. a \in Nat /\ a >= 1 /\ size <= 8 * a /\ size > 8 * (a - 1) /\ a * 8 = 8 * a
  BY <1>1
<1> QED BY <1>1, <1>2 DEF ALIGN, DSIZE

(* Where the data may go, in a heap whose block b has c double words. *)
GrowsPrev(g, b, c, a, p) == IsPrev(g, b, p) /\ g.sz[p] + c - 1 >= a
GrowsNext(g, b, c, a, n) == (~ \E p : IsPrev(g, b, p)) /\ IsNext(g, b, n) /\ g.sz[n] + c - 1 >= a
GrowsBoth(g, b, c, a, p, n) ==
  IsPrev(g, b, p) /\ IsNext(g, b, n) /\ g.sz[p] + c - 1 < a /\ g.sz[p] + g.sz[n] + c - 1 >= a

(* What Grow does then. *)
Growing(h, g, b, size, a, c, m) ==
  /\ \A p : GrowsPrev(g, b, c, a, p) =>
       m = Move(remove_seglist(h, 8 * p), 8 * p, 8 * b, 8 * c, 8 * a, 8 * (g.sz[p] + c - 1))
  /\ \A n : GrowsNext(g, b, c, a, n) =>
       m = Stay(remove_seglist(h, 8 * n), 8 * b, 8 * a, 8 * (g.sz[n] + c - 1))
  /\ \A p, n : GrowsBoth(g, b, c, a, p, n) =>
       m = Move(remove_seglist(remove_seglist(h, 8 * n), 8 * p), 8 * p, 8 * b, 8 * c, 8 * a,
                8 * (g.sz[p] + g.sz[n] + c - 1))
  /\ (\A p : ~GrowsPrev(g, b, c, a, p)) /\ (\A n : ~GrowsNext(g, b, c, a, n)) /\ (\A p, n : ~GrowsBoth(g, b, c, a, p, n)) =>
       m = CopyOver(mm_malloc(h, size), 8 * b, 8 * c)

(* The cases of mm_realloc for a block that must grow are these. *)
LEMMA GrowIs ==
  ASSUME NEW h, NEW g, OK(h, g), NEW b \in Used(g), NEW c, c = g.sz[b], NEW size, NEW a \in Nat, ALIGN(size) = 8 * a
  PROVE  Growing(h, g, b, size, a, c, Grow(h, 8 * b, size, PREV_BLKP(h, 8 * b), NEXT_BLKP(h, 8 * b)))
<1>0. b \in g.B /\ b \in Nat /\ c \in Nat /\ c >= 2 /\ g \in Tables
  BY UsedIs
<1>1. PICK prev : prev = PREV_BLKP(h, 8 * b)
  OBVIOUS
<1>2. PICK next : next = NEXT_BLKP(h, 8 * b)
  OBVIOUS
<1>3. PICK m : m = Grow(h, 8 * b, size, prev, next)
  OBVIOUS
<1>4. GET_BLK_SIZE(h, 8 * b) = 8 * c /\ 8 * c - 8 = 8 * (c - 1) /\ 8 * (c - 1) + 8 = 8 * c
  BY <1>0, CoalesceReads
<1>5. PICK fp : fp = GET_ALLOC(h, HDRP(prev))
  OBVIOUS
<1>6. PICK fn : fn = GET_ALLOC(h, HDRP(next))
  OBVIOUS
<1>7. PICK ps : ps = GET_BLK_SIZE(h, prev)
  OBVIOUS
<1>8. PICK ns : ns = GET_BLK_SIZE(h, next)
  OBVIOUS
<1>9. m = CASE fp = 0 /\ ps + 8 * (c - 1) >= 8 * a ->
                 Move(remove_seglist(h, prev), prev, 8 * b, 8 * c, 8 * a, 8 * (c - 1) + ps)
            [] fp # 0 /\ fn = 0 /\ ns + 8 * (c - 1) >= 8 * a ->
                 Stay(remove_seglist(h, next), 8 * b, 8 * a, 8 * (c - 1) + ns)
            [] fp = 0 /\ fn = 0 /\ ps + 8 * (c - 1) < 8 * a /\ ps + ns + 8 * (c - 1) >= 8 * a ->
                 Move(remove_seglist(remove_seglist(h, next), prev), prev, 8 * b, 8 * c,
                      8 * a, 8 * (c - 1) + ps + ns)
            [] OTHER -> CopyOver(mm_malloc(h, size), 8 * b, 8 * c)
  BY <1>3, <1>4, <1>5, <1>6, <1>7, <1>8 DEF Grow, DSIZE
<1>10. ASSUME NEW p, IsPrev(g, b, p)
       PROVE  prev = 8 * p /\ fp = 0 /\ ps = 8 * g.sz[p] /\ g.sz[p] \in Nat
  <2>1. /\ PREV_BLKP(h, 8 * b) = 8 * p /\ GET_ALLOC(h, HDRP(PREV_BLKP(h, 8 * b))) = 0
        /\ GET_BLK_SIZE(h, 8 * p) = 8 * g.sz[p]
    BY <1>0, <1>10, CoalesceReads
  <2>2. p \in Nat /\ g.sz[p] \in Nat
    BY <1>0, <1>10, Fields DEF IsPrev
  <2> QED BY <1>1, <1>5, <1>7, <2>1, <2>2
<1>11. ASSUME NEW n, IsNext(g, b, n)
       PROVE  next = 8 * n /\ fn = 0 /\ ns = 8 * g.sz[n] /\ g.sz[n] \in Nat
  <2>1. /\ NEXT_BLKP(h, 8 * b) = 8 * n /\ GET_ALLOC(h, HDRP(NEXT_BLKP(h, 8 * b))) = 0
        /\ GET_BLK_SIZE(h, 8 * n) = 8 * g.sz[n]
    BY <1>0, <1>11, CoalesceReads
  <2>2. n \in Nat /\ g.sz[n] \in Nat
    BY <1>0, <1>11, Fields DEF IsNext
  <2> QED BY <1>2, <1>6, <1>8, <2>1, <2>2
<1>12. (~ \E p : IsPrev(g, b, p)) => fp # 0
  BY <1>0, <1>1, <1>5, CoalesceReads
<1>13. (~ \E n : IsNext(g, b, n)) => fn # 0
  BY <1>0, <1>2, <1>6, CoalesceReads
<1>14. ASSUME NEW p, GrowsPrev(g, b, c, a, p)
       PROVE  m = Move(remove_seglist(h, 8 * p), 8 * p, 8 * b, 8 * c, 8 * a, 8 * (g.sz[p] + c - 1))
  <2>1. PICK s \in Nat : s = g.sz[p] /\ prev = 8 * p /\ fp = 0 /\ ps = 8 * s /\ s + c - 1 >= a
    BY <1>10, <1>14 DEF GrowsPrev
  <2>2. ps + 8 * (c - 1) >= 8 * a /\ 8 * (c - 1) + ps = 8 * (s + c - 1)
    BY <1>0, <2>1
  <2>3. m = Move(remove_seglist(h, prev), prev, 8 * b, 8 * c, 8 * a, 8 * (c - 1) + ps)
    <3>1. fp = 0 /\ ps + 8 * (c - 1) >= 8 * a
      BY <2>1, <2>2
    <3>2. ~(fp # 0 /\ fn = 0 /\ ns + 8 * (c - 1) >= 8 * a)
      BY <3>1
    <3>3. ~(fp = 0 /\ fn = 0 /\ ps + 8 * (c - 1) < 8 * a /\ ps + ns + 8 * (c - 1) >= 8 * a)
      BY <1>0, <2>1, <2>2
    <3> QED BY <1>9, <3>1, <3>2, <3>3
  <2> QED BY <2>1, <2>2, <2>3
<1>15. ASSUME NEW n, GrowsNext(g, b, c, a, n)
       PROVE  m = Stay(remove_seglist(h, 8 * n), 8 * b, 8 * a, 8 * (g.sz[n] + c - 1))
  <2>1. PICK s \in Nat : s = g.sz[n] /\ next = 8 * n /\ fp # 0 /\ fn = 0 /\ ns = 8 * s /\ s + c - 1 >= a
    BY <1>11, <1>12, <1>15 DEF GrowsNext
  <2>2. ns + 8 * (c - 1) >= 8 * a /\ 8 * (c - 1) + ns = 8 * (s + c - 1)
    BY <1>0, <2>1
  <2>3. m = Stay(remove_seglist(h, next), 8 * b, 8 * a, 8 * (c - 1) + ns)
    BY <1>9, <2>1, <2>2
  <2> QED BY <2>1, <2>2, <2>3
<1>16. ASSUME NEW p, NEW n, GrowsBoth(g, b, c, a, p, n)
       PROVE  m = Move(remove_seglist(remove_seglist(h, 8 * n), 8 * p), 8 * p, 8 * b, 8 * c, 8 * a,
                       8 * (g.sz[p] + g.sz[n] + c - 1))
  <2>1. PICK s \in Nat : s = g.sz[p] /\ prev = 8 * p /\ fp = 0 /\ ps = 8 * s
    BY <1>10, <1>16 DEF GrowsBoth
  <2>2. PICK t \in Nat : t = g.sz[n] /\ next = 8 * n /\ fn = 0 /\ ns = 8 * t
    BY <1>11, <1>16 DEF GrowsBoth
  <2>3. s + c - 1 < a /\ s + t + c - 1 >= a
    BY <1>16, <2>1, <2>2 DEF GrowsBoth
  <2>4. /\ ~(ps + 8 * (c - 1) >= 8 * a) /\ ps + 8 * (c - 1) < 8 * a /\ ps + ns + 8 * (c - 1) >= 8 * a
        /\ 8 * (c - 1) + ps + ns = 8 * (s + t + c - 1)
    BY <1>0, <2>1, <2>2, <2>3
  <2>5. m = Move(remove_seglist(remove_seglist(h, next), prev), prev, 8 * b, 8 * c, 8 * a, 8 * (c - 1) + ps + ns)
    BY <1>9, <2>1, <2>2, <2>4
  <2> QED BY <2>1, <2>2, <2>4, <2>5
<1>17. ASSUME \A p : ~GrowsPrev(g, b, c, a, p), \A n : ~GrowsNext(g, b, c, a, n), \A p, n : ~GrowsBoth(g, b, c, a, p, n)
       PROVE  m = CopyOver(mm_malloc(h, size), 8 * b, 8 * c)
  <2>1. ~(fp = 0 /\ ps + 8 * (c - 1) >= 8 * a)
    <3> SUFFICES ASSUME fp = 0 PROVE ~(ps + 8 * (c - 1) >= 8 * a)
      OBVIOUS
    <3>1. PICK p : IsPrev(g, b, p)
      BY <1>12
    <3>2. PICK s \in Nat : s = g.sz[p] /\ ps = 8 * s
      BY <1>10, <3>1
    <3>3. ~(s + c - 1 >= a)
      BY <1>17, <3>1, <3>2 DEF GrowsPrev
    <3> QED BY <1>0, <3>2, <3>3
  <2>2. ~(fp # 0 /\ fn = 0 /\ ns + 8 * (c - 1) >= 8 * a)
    <3> SUFFICES ASSUME fp # 0, fn = 0 PROVE ~(ns + 8 * (c - 1) >= 8 * a)
      OBVIOUS
    <3>1. PICK n : IsNext(g, b, n)
      BY <1>13
    <3>2. ~ \E p : IsPrev(g, b, p)
      BY <1>10
    <3>3. PICK s \in Nat : s = g.sz[n] /\ ns = 8 * s
      BY <1>11, <3>1
    <3>4. ~(s + c - 1 >= a)
      BY <1>17, <3>1, <3>2, <3>3 DEF GrowsNext
    <3> QED BY <1>0, <3>3, <3>4
  <2>3. ~(fp = 0 /\ fn = 0 /\ ps + 8 * (c - 1) < 8 * a /\ ps + ns + 8 * (c - 1) >= 8 * a)
    <3> SUFFICES ASSUME fp = 0, fn = 0, ps + 8 * (c - 1) < 8 * a PROVE ~(ps + ns + 8 * (c - 1) >= 8 * a)
      OBVIOUS
    <3>1. PICK p, n : IsPrev(g, b, p) /\ IsNext(g, b, n)
      BY <1>12, <1>13
    <3>2. PICK s \in Nat : s = g.sz[p] /\ ps = 8 * s
      BY <1>10, <3>1
    <3>3. PICK t \in Nat : t = g.sz[n] /\ ns = 8 * t
      BY <1>11, <3>1
    <3>4. s + c - 1 < a
      BY <1>0, <3>2
    <3>5. ~(s + t + c - 1 >= a)
      BY <1>17, <3>1, <3>2, <3>3, <3>4 DEF GrowsBoth
    <3> QED BY <1>0, <3>2, <3>3, <3>5
  <2> QED BY <1>9, <2>1, <2>2, <2>3
<1>18. Growing(h, g, b, size, a, c, m)
  BY <1>14, <1>15, <1>16, <1>17 DEF Growing
<1> QED BY <1>1, <1>2, <1>3, <1>18

-----------------------------------------------------------------------------
(* The areas that a block can grow into. *)
LEMMA PrepareNone ==
  ASSUME NEW h, NEW k, NEW g, OK(h, g), OK(k, g), NEW b \in Used(g), NEW v, v = b + g.sz[b]
  PROVE  Prepared(h, k, g, b, {}, h, k, g, b, v)
<1>1. g \in Tables /\ Tiled(g) /\ b \in g.B /\ b \in Nat /\ g.sz[b] \in Nat /\ g.sz[b] >= 2
  BY UsedIs
<1>2. Makes(g, {} \cup {b}, b, v)
  <2> SUFFICES ASSUME NEW c \in g.B PROVE b <= c /\ c < v <=> c = b
    BY DEF Makes
  <2>1. c \in Nat
    BY <1>1, Fields
  <2>2. b <= c /\ c < v => c = b
    BY <1>1, Inside
  <2> QED BY <1>1, <2>1, <2>2
<1>3. b < v /\ v \in g.B \cup {g.hi}
  BY <1>1 DEF Tiled
<1>4. Off(g, g, {}) /\ Keeps(h, g, h, g, Used(g))
  BY DEF Off, Keeps, Used
<1> QED BY <1>2, <1>3, <1>4 DEF Prepared

(* Only the block in front is free. *)
LEMMA PreparePrev ==
  ASSUME NEW h, NEW k, NEW g, OK(h, g), OK(k, g), Full(g), NEW b \in Used(g), NEW p, IsPrev(g, b, p),
         NEW v, v = b + g.sz[b], NEW h1, h1 = remove_seglist(h, 8 * p), NEW k1, k1 = remove_seglist(k, 8 * p)
  PROVE  p < b /\ \E g1 : Prepared(h, k, g, b, {p}, h1, k1, g1, p, v)
<1>1. g \in Tables /\ Tiled(g) /\ b \in g.B /\ b \in Nat /\ g.sz[b] \in Nat /\ g.sz[b] >= 2
  BY UsedIs
<1>2. p \in g.B /\ p + g.sz[p] = b /\ p \in g.L /\ p \in Nat /\ g.sz[p] \in Nat /\ g.sz[p] >= 2
  BY <1>1, Fields DEF IsPrev, Full, Tiled
<1>3. PICK g1 : OK(h1, g1) /\ OK(k1, g1) /\ Off(g, g1, {p}) /\ Keeps(h, g, h1, g1, Used(g))
  BY <1>2, UnlistPair
<1>4. Makes(g, {p} \cup {b}, p, v)
  <2> SUFFICES ASSUME NEW c \in g.B PROVE p <= c /\ c < v <=> c = p \/ c = b
    BY DEF Makes
  <2>1. c \in Nat
    BY <1>1, Fields
  <2>2. p <= c /\ c < b => c = p
    BY <1>1, <1>2, Inside
  <2>3. b <= c /\ c < v => c = b
    BY <1>1, Inside
  <2>4. b < v /\ v \in Nat /\ p < b
    BY <1>1, <1>2
  <2> QED BY <1>1, <1>2, <2>1, <2>2, <2>3, <2>4
<1>5. p < v /\ v \in g.B \cup {g.hi} /\ p < b
  BY <1>1, <1>2 DEF Tiled
<1>6. Prepared(h, k, g, b, {p}, h1, k1, g1, p, v)
  BY <1>2, <1>3, <1>4, <1>5 DEF Prepared
<1> QED BY <1>5, <1>6

(* Only the block behind is free. *)
LEMMA PrepareNext ==
  ASSUME NEW h, NEW k, NEW g, OK(h, g), OK(k, g), Full(g), NEW b \in Used(g), NEW n, IsNext(g, b, n),
         NEW v, v = n + g.sz[n], NEW h1, h1 = remove_seglist(h, 8 * n), NEW k1, k1 = remove_seglist(k, 8 * n)
  PROVE  \E g1 : Prepared(h, k, g, b, {n}, h1, k1, g1, b, v)
<1>1. g \in Tables /\ Tiled(g) /\ b \in g.B /\ b \in Nat /\ g.sz[b] \in Nat /\ g.sz[b] >= 2
  BY UsedIs
<1>2. n \in g.B /\ n = b + g.sz[b] /\ n \in g.L /\ n \in Nat /\ g.sz[n] \in Nat /\ g.sz[n] >= 2
  BY <1>1, Fields DEF IsNext, Full, Tiled
<1>3. PICK g1 : OK(h1, g1) /\ OK(k1, g1) /\ Off(g, g1, {n}) /\ Keeps(h, g, h1, g1, Used(g))
  BY <1>2, UnlistPair
<1>4. Makes(g, {n} \cup {b}, b, v)
  <2> SUFFICES ASSUME NEW c \in g.B PROVE b <= c /\ c < v <=> c = n \/ c = b
    BY DEF Makes
  <2>1. c \in Nat
    BY <1>1, Fields
  <2>2. b <= c /\ c < n => c = b
    BY <1>1, <1>2, Inside
  <2>3. n <= c /\ c < v => c = n
    BY <1>1, <1>2, Inside
  <2>4. n < v /\ v \in Nat /\ b < n
    BY <1>1, <1>2
  <2> QED BY <1>1, <1>2, <2>1, <2>2, <2>3, <2>4
<1>5. b < v /\ v \in g.B \cup {g.hi}
  BY <1>1, <1>2 DEF Tiled
<1>6. Prepared(h, k, g, b, {n}, h1, k1, g1, b, v)
  BY <1>2, <1>3, <1>4, <1>5 DEF Prepared
<1> QED BY <1>6

(* Both neighbours are free. *)
LEMMA PrepareBoth ==
  ASSUME NEW h, NEW k, NEW g, OK(h, g), OK(k, g), Full(g), NEW b \in Used(g), NEW p, IsPrev(g, b, p), NEW n, IsNext(g, b, n),
         NEW v, v = n + g.sz[n], NEW h1, h1 = remove_seglist(remove_seglist(h, 8 * n), 8 * p),
         NEW k1, k1 = remove_seglist(remove_seglist(k, 8 * n), 8 * p)
  PROVE  p < b /\ \E g1 : Prepared(h, k, g, b, {n, p}, h1, k1, g1, p, v)
<1>1. g \in Tables /\ Tiled(g) /\ b \in g.B /\ b \in Nat /\ g.sz[b] \in Nat /\ g.sz[b] >= 2
  BY UsedIs
<1>2. n \in g.B /\ n = b + g.sz[b] /\ n \in g.L /\ n \in Nat /\ g.sz[n] \in Nat /\ g.sz[n] >= 2
  BY <1>1, Fields DEF IsNext, Full, Tiled
<1>p. p \in g.B /\ p + g.sz[p] = b /\ p \in g.L /\ p \in Nat /\ g.sz[p] \in Nat /\ g.sz[p] >= 2
  BY <1>1, Fields DEF IsPrev, Full, Tiled
<1>x. n # p
  BY <1>1, <1>2, <1>p
<1>3. PICK g1 : OK(h1, g1) /\ OK(k1, g1) /\ Off(g, g1, {n, p}) /\ Keeps(h, g, h1, g1, Used(g))
  BY <1>2, <1>p, <1>x, UnlistTwo
<1>4. Makes(g, {n, p} \cup {b}, p, v)
  <2> SUFFICES ASSUME NEW c \in g.B PROVE p <= c /\ c < v <=> c = n \/ c = p \/ c = b
    BY DEF Makes
  <2>1. c \in Nat
    BY <1>1, Fields
  <2>2. b <= c /\ c < n => c = b
    BY <1>1, <1>2, Inside
  <2>3. n <= c /\ c < v => c = n
    BY <1>1, <1>2, Inside
  <2>4. p <= c /\ c < b => c = p
    BY <1>1, <1>p, Inside
  <2>5. n < v /\ v \in Nat /\ b < n /\ p < b
    BY <1>1, <1>2, <1>p
  <2> QED BY <1>1, <1>2, <1>p, <2>1, <2>2, <2>3, <2>4, <2>5
<1>5. p < b /\ p < v /\ v \in g.B \cup {g.hi}
  BY <1>1, <1>2, <1>p DEF Tiled
<1>6. Prepared(h, k, g, b, {n, p}, h1, k1, g1, p, v)
  BY <1>2, <1>p, <1>3, <1>4, <1>5 DEF Prepared
<1> QED BY <1>5, <1>6

-----------------------------------------------------------------------------
(* The block grows, or its data moves. *)
LEMMA GrowReallocs ==
  ASSUME NEW h, NEW k, NEW g, OK(h, g), OK(k, g), Full(g), NEW b \in Used(g), NEW c, c = g.sz[b],
         NEW size \in Nat, size >= 1, size > 8 * (c - 1), NEW a \in Nat, a >= 1, size <= 8 * a,
         NEW hm, Growing(h, g, b, size, a, c, hm), NEW km, Growing(k, g, b, size, a, c, km)
  PROVE  Reallocs(h, g, b, size, hm, km)
<1>0. /\ g \in Tables /\ Tiled(g) /\ b \in g.B /\ b \in Nat /\ c \in Nat /\ c >= 2
  BY UsedIs
<1>s. \A x \in g.B : x \in Nat /\ g.sz[x] \in Nat /\ g.sz[x] >= 2
  BY <1>0, Fields DEF Tiled
<1>1. CASE \E p : GrowsPrev(g, b, c, a, p)
  <2>1. PICK p : GrowsPrev(g, b, c, a, p)
    BY <1>1
  <2>2. IsPrev(g, b, p) /\ g.sz[p] + c - 1 >= a /\ p \in Nat /\ p + g.sz[p] = b
    BY <1>s, <2>1 DEF GrowsPrev, IsPrev
  <2>s. PICK s \in Nat : s = g.sz[p] /\ s >= 2
    BY <1>s, <2>2 DEF IsPrev
  <2>r. PICK r \in Nat : r = s + c - 1
    BY <1>0, <2>s
  <2>v. PICK v \in Nat : v = b + c
    BY <1>0
  <2>3. PICK h1 : h1 = remove_seglist(h, 8 * p)
    OBVIOUS
  <2>4. PICK k1 : k1 = remove_seglist(k, 8 * p)
    OBVIOUS
  <2>5. p < b /\ \E g1 : Prepared(h, k, g, b, {p}, h1, k1, g1, p, v)
    BY <2>2, <2>3, <2>4, <2>v, PreparePrev
  <2>6. PICK g1 : Prepared(h, k, g, b, {p}, h1, k1, g1, p, v)
    BY <2>5
  <2>7. a <= r /\ v = p + r + 1
    BY <1>0, <2>2, <2>s, <2>r, <2>v
  <2>8. hm = Move(h1, 8 * p, 8 * b, 8 * c, 8 * a, 8 * r) /\ km = Move(k1, 8 * p, 8 * b, 8 * c, 8 * a, 8 * r)
    BY <2>1, <2>3, <2>4, <2>s, <2>r DEF Growing
  <2>9. Reallocs(h, g, b, size, Move(h1, 8 * p, 8 * b, 8 * c, 8 * a, 8 * r), Move(k1, 8 * p, 8 * b, 8 * c, 8 * a, 8 * r))
    <3>1. b + g.sz[b] <= v
      BY <1>0, <2>v
    <3> QED BY <2>5, <2>6, <2>7, <3>1, MoveIs
  <2> QED BY <2>8, <2>9
<1>2. CASE \E n : GrowsNext(g, b, c, a, n)
  <2>1. PICK n : GrowsNext(g, b, c, a, n)
    BY <1>2
  <2>2. IsNext(g, b, n) /\ g.sz[n] + c - 1 >= a /\ n \in Nat /\ n = b + c
    BY <1>s, <2>1 DEF GrowsNext, IsNext
  <2>s. PICK s \in Nat : s = g.sz[n] /\ s >= 2
    BY <1>s, <2>2 DEF IsNext
  <2>r. PICK r \in Nat : r = s + c - 1
    BY <1>0, <2>s
  <2>v. PICK v \in Nat : v = n + s
    BY <2>2
  <2>3. PICK h1 : h1 = remove_seglist(h, 8 * n)
    OBVIOUS
  <2>4. PICK k1 : k1 = remove_seglist(k, 8 * n)
    OBVIOUS
  <2>6. PICK g1 : Prepared(h, k, g, b, {n}, h1, k1, g1, b, v)
    BY <2>2, <2>3, <2>4, <2>s, <2>v, PrepareNext
  <2>7. a <= r /\ v = b + r + 1
    BY <1>0, <2>2, <2>s, <2>r, <2>v
  <2>8. hm = Stay(h1, 8 * b, 8 * a, 8 * r) /\ km = Stay(k1, 8 * b, 8 * a, 8 * r)
    BY <2>1, <2>3, <2>4, <2>s, <2>r DEF Growing
  <2>9. Reallocs(h, g, b, size, Stay(h1, 8 * b, 8 * a, 8 * r), Stay(k1, 8 * b, 8 * a, 8 * r))
    BY <2>6, <2>7, StayIs
  <2> QED BY <2>8, <2>9
<1>3. CASE \E p, n : GrowsBoth(g, b, c, a, p, n)
  <2>1. PICK p, n : GrowsBoth(g, b, c, a, p, n)
    BY <1>3
  <2>2. IsNext(g, b, n) /\ IsPrev(g, b, p) /\ g.sz[p] + g.sz[n] + c - 1 >= a /\ n \in Nat /\ n = b + c
        /\ p \in Nat /\ p + g.sz[p] = b
    BY <1>s, <2>1 DEF GrowsBoth, IsNext, IsPrev
  <2>s. PICK s \in Nat : s = g.sz[n] /\ s >= 2
    BY <1>s, <2>2 DEF IsNext
  <2>t. PICK t \in Nat : t = g.sz[p] /\ t >= 2
    BY <1>s, <2>2 DEF IsPrev
  <2>r. PICK r \in Nat : r = t + s + c - 1
    BY <1>0, <2>s, <2>t
  <2>v. PICK v \in Nat : v = n + s
    BY <2>2
  <2>3. PICK h1 : h1 = remove_seglist(remove_seglist(h, 8 * n), 8 * p)
    OBVIOUS
  <2>4. PICK k1 : k1 = remove_seglist(remove_seglist(k, 8 * n), 8 * p)
    OBVIOUS
  <2>5. p < b /\ \E g1 : Prepared(h, k, g, b, {n, p}, h1, k1, g1, p, v)
    BY <2>2, <2>3, <2>4, <2>s, <2>v, PrepareBoth
  <2>6. PICK g1 : Prepared(h, k, g, b, {n, p}, h1, k1, g1, p, v)
    BY <2>5
  <2>7. a <= r /\ v = p + r + 1
    BY <1>0, <2>2, <2>s, <2>t, <2>r, <2>v
  <2>8. hm = Move(h1, 8 * p, 8 * b, 8 * c, 8 * a, 8 * r) /\ km = Move(k1, 8 * p, 8 * b, 8 * c, 8 * a, 8 * r)
    BY <2>1, <2>3, <2>4, <2>s, <2>t, <2>r DEF Growing
  <2>9. Reallocs(h, g, b, size, Move(h1, 8 * p, 8 * b, 8 * c, 8 * a, 8 * r), Move(k1, 8 * p, 8 * b, 8 * c, 8 * a, 8 * r))
    <3>1. b + g.sz[b] <= v
      BY <1>0, <2>2, <2>s, <2>v
    <3> QED BY <2>5, <2>6, <2>7, <3>1, MoveIs
  <2> QED BY <2>8, <2>9
<1>4. CASE /\ ~ \E p : GrowsPrev(g, b, c, a, p)
           /\ ~ \E n : GrowsNext(g, b, c, a, n)
           /\ ~ \E p, n : GrowsBoth(g, b, c, a, p, n)
  <2>1. hm = CopyOver(mm_malloc(h, size), 8 * b, 8 * c) /\ km = CopyOver(mm_malloc(k, size), 8 * b, 8 * c)
    BY <1>4 DEF Growing
  <2>2. PICK hn : hn = mm_malloc(h, size)
    OBVIOUS
  <2>3. PICK kn : kn = mm_malloc(k, size)
    OBVIOUS
  <2>4. Mallocs(h, k, g, size, hn, kn)
    BY <2>2, <2>3, MmMalloc
  <2>5. Reallocs(h, g, b, size, CopyOver(hn, 8 * b, 8 * c), CopyOver(kn, 8 * b, 8 * c))
    BY <2>4, CopyOverIs
  <2> QED BY <2>1, <2>2, <2>3, <2>5
<1> QED BY <1>1, <1>2, <1>3, <1>4

(* mm_realloc of an allocated block to a positive size: NULL and a heap in *)
(* order with b as it was, or a block that holds the old data up to the    *)
(* smaller of the sizes. The other allocated blocks stay as they were.     *)
LEMMA MmRealloc ==
  ASSUME NEW h, NEW k, NEW g, OK(h, g), OK(k, g), Full(g), NEW b \in Used(g), NEW size \in Nat, size >= 1
  PROVE  Reallocs(h, g, b, size, mm_realloc(h, 8 * b, size), mm_realloc(k, 8 * b, size))
<1>0. /\ g \in Tables /\ Tiled(g) /\ b \in g.B /\ b \in Nat /\ 8 * b # NULL
  BY UsedIs
<1>c. PICK c \in Nat : c = g.sz[b] /\ c >= 2
  BY UsedIs
<1>a. PICK a \in Nat : ALIGN(size) = 8 * a /\ a >= 1 /\ size <= 8 * a /\ size > 8 * (a - 1)
  BY AlignIs
<1>z. size # 0 /\ size > 0
  OBVIOUS
<1>1. GET_BLK_SIZE(h, 8 * b) - DSIZE = 8 * (c - 1) /\ GET_BLK_SIZE(k, 8 * b) - DSIZE = 8 * (c - 1)
  <2>1. GET_BLK_SIZE(h, 8 * b) = 8 * c /\ GET_BLK_SIZE(k, 8 * b) = 8 * c
    BY <1>0, <1>c, ReadTags
  <2> QED BY <2>1 DEF DSIZE
<1>h. PICK hm : hm = mm_realloc(h, 8 * b, size)
  OBVIOUS
<1>k. PICK km : km = mm_realloc(k, 8 * b, size)
  OBVIOUS
<1>2. CASE a <= c - 1 /\ (c - 1) - a < 2
  <2>1. 8 * a <= 8 * (c - 1) /\ 8 * (c - 1) - 8 * a <= DSIZE
    BY <1>2 DEF DSIZE
  <2>2. hm = [h |-> h, p |-> 8 * b] /\ km = [h |-> k, p |-> 8 * b]
    BY <1>0, <1>z, <1>a, <1>1, <1>h, <1>k, <2>1 DEF mm_realloc
  <2>3. Comes(h, g, h, k, g, Used(g) \ {b})
    BY DEF Comes, Keeps, Used
  <2>4. 8 * (g.sz[b] - 1) >= size
    BY <1>a, <1>c, <1>2
  <2>5. Reallocated_(h, g, b, size, hm, g, b)
    BY <2>2, <2>4 DEF Reallocated_
  <2>6. hm.h = h /\ km.h = k /\ hm.p = km.p /\ g.hi >= g.hi
    BY <1>0, <2>2, Fields
  <2>7. Reallocs(h, g, b, size, hm, km)
    BY <2>3, <2>5, <2>6 DEF Reallocs
  <2> QED BY <1>h, <1>k, <2>7
<1>3. CASE a <= c - 1 /\ ~((c - 1) - a < 2)
  <2>1. 8 * a <= 8 * (c - 1) /\ ~(8 * (c - 1) - 8 * a <= DSIZE)
    BY <1>3 DEF DSIZE
  <2>r. PICK r \in Nat : r = c - 1
    BY <1>c
  <2>2. hm = Stay(h, 8 * b, 8 * a, 8 * r) /\ km = Stay(k, 8 * b, 8 * a, 8 * r)
    BY <1>0, <1>z, <1>a, <1>1, <1>h, <1>k, <2>1, <2>r DEF mm_realloc
  <2>v. PICK v \in Nat : v = b + c
    BY <1>0
  <2>3. Prepared(h, k, g, b, {}, h, k, g, b, v)
    BY <1>c, <2>v, PrepareNone
  <2>4. a <= r /\ v = b + r + 1
    BY <1>0, <1>c, <1>3, <2>r, <2>v
  <2>5. Reallocs(h, g, b, size, Stay(h, 8 * b, 8 * a, 8 * r), Stay(k, 8 * b, 8 * a, 8 * r))
    BY <1>a, <2>3, <2>4, StayIs
  <2> QED BY <1>h, <1>k, <2>2, <2>5
<1>4. CASE ~(a <= c - 1)
  <2>1. ~(8 * a <= 8 * (c - 1))
    BY <1>4
  <2>2. /\ hm = Grow(h, 8 * b, size, PREV_BLKP(h, 8 * b), NEXT_BLKP(h, 8 * b))
        /\ km = Grow(k, 8 * b, size, PREV_BLKP(k, 8 * b), NEXT_BLKP(k, 8 * b))
    BY <1>0, <1>z, <1>a, <1>1, <1>h, <1>k, <2>1 DEF mm_realloc
  <2>3. Growing(h, g, b, size, a, c, hm) /\ Growing(k, g, b, size, a, c, km)
    BY <1>a, <1>c, <2>2, GrowIs
  <2>4. size > 8 * (c - 1)
    BY <1>a, <1>4, <1>c
  <2>5. Reallocs(h, g, b, size, hm, km)
    BY <1>a, <1>c, <2>3, <2>4, GrowReallocs
  <2> QED BY <1>h, <1>k, <2>5
<1> QED BY <1>2, <1>3, <1>4

-----------------------------------------------------------------------------
(* The empty heap of mm_init: a list array and the prologue. *)
Empty ==
  [B |-> {}, sz |-> [b \in Nat |-> 0], al |-> [b \in Nat |-> 0], hi |-> Lo, L |-> {},
   pv |-> [b \in Nat |-> 0], nx |-> [b \in Nat |-> 0], hd |-> [i \in Idx |-> 0], rk |-> [b \in Nat |-> 0]]

(* Its fields. *)
LEMMA EmptyIs ==
  /\ Empty \in Tables /\ Tiled(Empty) /\ Listed(Empty) /\ Full(Empty) /\ Used(Empty) = {}
  /\ Empty.B = {} /\ Empty.hi = Lo /\ Empty.L = {} /\ \A i \in Idx : Empty.hd[i] = 0
<1>1. Lo \in Nat
  BY Sizes8
<1>2. /\ Empty.B = {} /\ Empty.hi = Lo /\ Empty.L = {} /\ Empty.hd = [i \in Idx |-> 0]
  BY DEF Empty
<1>3. Empty \in Tables
  BY <1>1 DEF Empty, Tables
<1>4. Tiled(Empty) /\ Listed(Empty) /\ Full(Empty) /\ Used(Empty) = {}
  BY <1>1, <1>2 DEF Tiled, Listed, Full, Used
<1> QED BY <1>2, <1>3, <1>4

(* The two calls of mem_sbrk and what is written then. *)
Prologued(h) == Prologue([init_seglist(h) EXCEPT !.brk = 4 * SEG_SIZE + 16], 4 * SEG_SIZE)

(* mm_init is the prologue, the epilogue and extend_heap. *)
LEMMA PrologueIs ==
  ASSUME NEW h, Heap(h, 0)
  PROVE  OK(Prologued(h), Empty) /\ mm_init(h) = InitStatus(extend_heap(Prologued(h), CHUNKSIZE \div 4))
<1>0. /\ SEG_SIZE \in Nat \ {0} /\ MAX_HEAP \in Nat /\ CHUNKSIZE \in Nat /\ CHUNKSIZE > 0
      /\ MAX_HEAP >= SEG_SIZE * 4 + 16 + CHUNKSIZE /\ 2 * Lo = SEG_SIZE + 4 /\ Lo \in Nat
  BY Sizes8, MmAssumption, MDriverAssumption DEF WSIZE
<1>1. h = [mem |-> h.mem, brk |-> 0] /\ h.mem \in [Words -> Int] /\ DOMAIN h.mem = Words /\ h.brk = 0
  BY DEF Heap
<1>2. PICK m : m = [w \in Words |-> IF w < SEG_SIZE THEN 0 ELSE h.mem[w]]
  OBVIOUS
<1>3. init_seglist(h) = [mem |-> m, brk |-> 4 * SEG_SIZE]
  <2>1. mem_sbrk(h, SEG_SIZE * WSIZE).h = [mem |-> h.mem, brk |-> 4 * SEG_SIZE]
    <3>1. ~(SEG_SIZE * WSIZE < 0 \/ h.brk + SEG_SIZE * WSIZE > MAX_HEAP) /\ h.brk + SEG_SIZE * WSIZE = 4 * SEG_SIZE
      BY <1>0, <1>1 DEF WSIZE
    <3>2. mem_sbrk(h, SEG_SIZE * WSIZE).h = [h EXCEPT !.brk = 4 * SEG_SIZE]
      BY <3>1 DEF mem_sbrk
    <3> QED BY <1>1, <3>2
  <2> QED BY <1>1, <1>2, <2>1 DEF init_seglist, NULL
<1>4. PICK s : s = [mem |-> m, brk |-> 4 * SEG_SIZE + 16]
  OBVIOUS
<1>5. mem_sbrk(init_seglist(h), 4 * WSIZE) = [h |-> s, p |-> 4 * SEG_SIZE]
  <2>1. ~(4 * WSIZE < 0 \/ 4 * SEG_SIZE + 4 * WSIZE > MAX_HEAP) /\ 4 * SEG_SIZE + 4 * WSIZE = 4 * SEG_SIZE + 16
    BY <1>0 DEF WSIZE
  <2> QED BY <1>3, <1>4, <2>1 DEF mem_sbrk
<1>6. Prologued(h) = Prologue(s, 4 * SEG_SIZE)
  BY <1>3, <1>4 DEF Prologued
<1>7. mm_init(h) = InitStatus(extend_heap(Prologued(h), CHUNKSIZE \div 4))
  <2>1. 4 * SEG_SIZE # FAIL
    BY <1>0 DEF FAIL
  <2> QED BY <1>5, <1>6, <2>1 DEF mm_init, InitIn, WSIZE
<1>8. PICK e : e = SEG_SIZE
  OBVIOUS
<1>9. e \in Words /\ e + 1 \in Words /\ e + 2 \in Words /\ e + 3 \in Words
  <2>1. 4 * e < MAX_HEAP /\ 4 * (e + 1) < MAX_HEAP /\ 4 * (e + 2) < MAX_HEAP /\ 4 * (e + 3) < MAX_HEAP /\ e \in Nat
    BY <1>0, <1>8
  <2> QED BY <2>1, IsWord
<1>12. m \in [Words -> Int] /\ DOMAIN m = Words
  BY <1>1, <1>2
<1>a. PICK ma : ma = [m EXCEPT ![e] = 0]
  OBVIOUS
<1>b. PICK mb : mb = [ma EXCEPT ![e + 1] = 9]
  OBVIOUS
<1>c. PICK mc : mc = [mb EXCEPT ![e + 2] = 9]
  OBVIOUS
<1>10. PICK m2 : m2 = [mc EXCEPT ![e + 3] = 1]
  OBVIOUS
<1>13. ma \in [Words -> Int] /\ mb \in [Words -> Int] /\ mc \in [Words -> Int] /\ m2 \in [Words -> Int]
  <2>1. ma \in [Words -> Int]
    BY <1>9, <1>12, <1>a
  <2>2. mb \in [Words -> Int]
    BY <1>9, <1>b, <2>1
  <2>3. mc \in [Words -> Int]
    BY <1>9, <1>c, <2>2
  <2>4. m2 \in [Words -> Int]
    BY <1>9, <1>10, <2>3
  <2> QED BY <2>1, <2>2, <2>3, <2>4
<1>11. Prologued(h) = [mem |-> m2, brk |-> 4 * SEG_SIZE + 16]
  <2>1. (4 * SEG_SIZE) \div WSIZE = e
    BY <1>0, <1>8 DEF WSIZE
  <2>2. PACK(DSIZE, 1) = 9 /\ PACK(0, 1) = 1
    BY DEF PACK, DSIZE
  <2>3. Prologue(s, 4 * SEG_SIZE) =
          [s EXCEPT !.mem[e] = 0, !.mem[e + 1] = 9, !.mem[e + 2] = 9, !.mem[e + 3] = 1]
    BY <2>1, <2>2 DEF Prologue
  <2>4. [s EXCEPT !.mem[e] = 0, !.mem[e + 1] = 9, !.mem[e + 2] = 9, !.mem[e + 3] = 1]
          = [mem |-> m2, brk |-> 4 * SEG_SIZE + 16]
    <3>1. PICK sa : sa = [s EXCEPT !.mem[e] = 0]
      OBVIOUS
    <3>2. PICK sb : sb = [sa EXCEPT !.mem[e + 1] = 9]
      OBVIOUS
    <3>3. PICK sc : sc = [sb EXCEPT !.mem[e + 2] = 9]
      OBVIOUS
    <3>4. sa = [mem |-> ma, brk |-> 4 * SEG_SIZE + 16]
      BY <1>4, <1>a, <3>1
    <3>5. sb = [mem |-> mb, brk |-> 4 * SEG_SIZE + 16]
      BY <1>b, <3>2, <3>4
    <3>6. sc = [mem |-> mc, brk |-> 4 * SEG_SIZE + 16]
      BY <1>c, <3>3, <3>5
    <3>7. [sc EXCEPT !.mem[e + 3] = 1] = [mem |-> m2, brk |-> 4 * SEG_SIZE + 16]
      BY <1>10, <3>6
    <3> QED BY <3>1, <3>2, <3>3, <3>7, Zenon
  <2> QED BY <1>6, <2>3, <2>4
<1>14. /\ m2[e] = 0 /\ m2[e + 1] = 9 /\ m2[e + 2] = 9 /\ m2[e + 3] = 1
       /\ \A w \in Words : w # e /\ w # e + 1 /\ w # e + 2 /\ w # e + 3 => m2[w] = m[w]
  BY <1>0, <1>8, <1>9, <1>a, <1>b, <1>c, <1>10, <1>12, <1>13
<1>15. Heap(Prologued(h), 8 * Lo) /\ 8 * Lo <= MAX_HEAP
  <2>1. 4 * SEG_SIZE + 16 = 8 * Lo /\ 8 * Lo <= MAX_HEAP
    BY <1>0
  <2> QED BY <1>11, <1>13, <2>1 DEF Heap
<1>16. Tags(Prologued(h).mem, Empty)
  <2>1. 2 * Lo - 3 = e + 1 /\ 2 * Lo - 2 = e + 2 /\ 2 * Lo - 1 = e + 3
    BY <1>0, <1>8
  <2> QED BY <1>8, <1>11, <1>14, <2>1, EmptyIs DEF Tags
<1>17. Links(Prologued(h).mem, Empty)
  <2> SUFFICES ASSUME NEW i \in Idx PROVE m2[i] = 0
    BY <1>11, EmptyIs DEF Links
  <2>1. i \in Nat /\ i < e /\ 4 * i < MAX_HEAP
    BY <1>0, <1>8 DEF Idx
  <2>2. i \in Words
    BY <2>1, IsWord
  <2>3. i # e /\ i # e + 1 /\ i # e + 2 /\ i # e + 3
    BY <1>0, <1>8, <2>1
  <2> QED BY <1>2, <1>8, <1>14, <2>1, <2>2, <2>3
<1>18. OK(Prologued(h), Empty)
  BY <1>15, <1>16, <1>17, EmptyIs DEF OK
<1> QED BY <1>7, <1>18

(* mm_init sets up a heap, the same one whatever the memory held. *)
Inits(hm, km) ==
  hm.p = 0 /\ km.p = 0 /\ \E g : OK(hm.h, g) /\ OK(km.h, g) /\ Full(g)

(* mm_init on a fresh heap leaves a heap in order, whatever the memory     *)
(* held before, and the same answers from then on.                         *)
LEMMA MmInit ==
  ASSUME NEW h, NEW k, Heap(h, 0), Heap(k, 0)
  PROVE  Inits(mm_init(h), mm_init(k))
<1>1. PICK x \in Nat : x >= 2 /\ CHUNKSIZE \div 4 = 2 * x /\ 8 * x = CHUNKSIZE
  <2>1. CHUNKSIZE \in Nat /\ CHUNKSIZE % 8 = 0 /\ CHUNKSIZE >= 16
    BY MmAssumption DEF DSIZE
  <2>2. PICK x : x = CHUNKSIZE \div 8
    OBVIOUS
  <2> QED BY <2>1, <2>2
<1>h. PICK h1 : h1 = Prologued(h)
  OBVIOUS
<1>k. PICK k1 : k1 = Prologued(k)
  OBVIOUS
<1>2. OK(h1, Empty) /\ mm_init(h) = InitStatus(extend_heap(h1, 2 * x))
  BY <1>1, <1>h, PrologueIs
<1>3. OK(k1, Empty) /\ mm_init(k) = InitStatus(extend_heap(k1, 2 * x))
  BY <1>1, <1>k, PrologueIs
<1>4. Extending(h1, k1, Empty, x)
  BY <1>1, <1>2, <1>3, EmptyIs, ExtendHeap
<1>5. ~(8 * (Empty.hi + x) > MAX_HEAP)
  <2>1. MAX_HEAP >= SEG_SIZE * 4 + 16 + CHUNKSIZE /\ SEG_SIZE \in Nat /\ MAX_HEAP \in Nat /\ 2 * Lo = SEG_SIZE + 4 /\ Lo \in Nat
    BY Sizes8, MDriverAssumption DEF WSIZE
  <2> QED BY <1>1, <2>1, EmptyIs
<1>6. PICK hc : hc = extend_heap(h1, 2 * x)
  OBVIOUS
<1>7. PICK kc : kc = extend_heap(k1, 2 * x)
  OBVIOUS
<1>8. PICK g2, u : /\ Comes(h1, Empty, hc.h, kc.h, g2, Used(Empty)) /\ hc.p = 8 * u /\ kc.p = 8 * u /\ u \in g2.L
  BY <1>4, <1>5, <1>6, <1>7 DEF Extending
<1>9. OK(hc.h, g2) /\ OK(kc.h, g2) /\ Full(g2)
  BY <1>8 DEF Comes
<1>10. 8 * u # NULL
  <2>1. 0 \notin g2.L /\ u \in Nat
    BY <1>8, <1>9, SpotsIs, Fields DEF OK
  <2>2. u # 0
    BY <1>8, <2>1
  <2> QED BY <2>1, <2>2 DEF NULL
<1>11. mm_init(h) = [h |-> hc.h, p |-> 0] /\ mm_init(k) = [h |-> kc.h, p |-> 0]
  BY <1>2, <1>3, <1>6, <1>7, <1>8, <1>10 DEF InitStatus
<1> QED BY <1>9, <1>11 DEF Inits

-----------------------------------------------------------------------------
(* BlocksFrom is a recursive function, too. *)
WalkStep(h, f, k) ==
  [b \in Int |-> IF k = 0 \/ GET_BLK_SIZE(h, b) = 0 THEN {} ELSE {b} \cup f[k - 1][NEXT_BLKP(h, b)]]

(* The function exists for every number of steps. *)
LEMMA WalkExists ==
  ASSUME NEW h, NEW n \in Nat
  PROVE  \E f : f = [i \in 0 .. n |-> WalkStep(h, f, i)]
<1> DEFINE Bad == {k \in Nat : ~\E f : f = [i \in 0 .. k |-> WalkStep(h, f, i)]}
<1>1. ASSUME Bad # {} PROVE FALSE
  <2>1. PICK k \in Bad : \A y \in Bad : k <= y
    <3> HIDE DEF Bad
    <3>1. Bad \subseteq Nat
      BY DEF Bad
    <3> QED BY <1>1, <3>1, LeastNat
  <2>2. k # 0
    <3> SUFFICES ASSUME k = 0 PROVE FALSE
      OBVIOUS
    <3> DEFINE f == [i \in 0 .. 0 |-> [b \in Int |-> {}]]
    <3>1. f = [i \in 0 .. 0 |-> WalkStep(h, f, i)]
      BY DEF WalkStep
    <3> QED BY <2>1, <3>1
  <2>3. k \in Nat /\ k - 1 \in Nat /\ k - 1 \notin Bad
    BY <2>1, <2>2
  <2>4. PICK q : q = [i \in 0 .. (k - 1) |-> WalkStep(h, q, i)]
    BY <2>3
  <2> DEFINE r == [i \in 0 .. k |-> IF i = k THEN WalkStep(h, q, k) ELSE q[i]]
  <2>5. \A i \in 0 .. k : r[i] = WalkStep(h, r, i)
    <3> SUFFICES ASSUME NEW i \in 0 .. k PROVE r[i] = WalkStep(h, r, i)
      OBVIOUS
    <3>1. i # 0 => r[i - 1] = q[i - 1]
      BY <2>3
    <3>2. WalkStep(h, r, i) = WalkStep(h, q, i)
      BY <3>1 DEF WalkStep
    <3>3. CASE i = k
      BY <3>2, <3>3
    <3>4. CASE i # k
      <4>1. i \in 0 .. (k - 1)
        BY <2>3, <3>4
      <4>2. q[i] = WalkStep(h, q, i)
        BY <2>4, <4>1
      <4> QED BY <3>2, <3>4, <4>2
    <3> QED BY <3>3, <3>4
  <2>6. r = [i \in 0 .. k |-> WalkStep(h, r, i)]
    <3> DEFINE e == [i \in 0 .. k |-> WalkStep(h, r, i)]
    <3>1. e = [i \in 0 .. k |-> r[i]]
      BY <2>5
    <3> QED BY <3>1
  <2> QED BY <2>1, <2>6
<1> QED BY <1>1

(* BlocksFrom is the recursion it is written as. *)
LEMMA WalkFunction ==
  ASSUME NEW h
  PROVE  \E f : /\ \A bp : BlocksFrom(h, bp) = f[STEPS][bp]
                /\ \A n \in 0 .. STEPS : \A b \in Int :
                     /\ n = 0 \/ GET_BLK_SIZE(h, b) = 0 => f[n][b] = {}
                     /\ n # 0 /\ GET_BLK_SIZE(h, b) # 0 => f[n][b] = {b} \cup f[n - 1][NEXT_BLKP(h, b)]
<1> DEFINE f == CHOOSE f : f = [k \in 0 .. STEPS |-> [b \in Int |->
                  IF k = 0 \/ GET_BLK_SIZE(h, b) = 0 THEN {} ELSE {b} \cup f[k - 1][NEXT_BLKP(h, b)]]]
<1>1. \A bp : BlocksFrom(h, bp) = f[STEPS][bp]
  BY DEF BlocksFrom
<1>2. \E q : q = [i \in 0 .. STEPS |-> WalkStep(h, q, i)]
  BY WalkExists, StepsIs
<1>3. f = [i \in 0 .. STEPS |-> WalkStep(h, f, i)]
  BY <1>2 DEF WalkStep
<1> HIDE DEF f
<1>4. \A k \in 0 .. STEPS : f[k] = WalkStep(h, f, k)
  BY <1>3
<1>5. ASSUME NEW n \in 0 .. STEPS, NEW b \in Int
      PROVE  /\ n = 0 \/ GET_BLK_SIZE(h, b) = 0 => f[n][b] = {}
             /\ n # 0 /\ GET_BLK_SIZE(h, b) # 0 => f[n][b] = {b} \cup f[n - 1][NEXT_BLKP(h, b)]
  <2>1. f[n] = WalkStep(h, f, n)
    BY <1>4
  <2> QED BY <2>1, Zenon DEF WalkStep
<1> QED BY <1>1, <1>5

(* The walk finds the blocks from b on, and ends at the epilogue. *)
BlocksAt(g, b) == {8 * c : c \in {x \in g.B : b <= x}}

(* The walk of mm_check stops at the epilogue, and not before. *)
LEMMA WalkEnd ==
  ASSUME NEW h, NEW g, OK(h, g)
  PROVE  /\ GET_BLK_SIZE(h, 8 * g.hi) = 0 /\ BlocksAt(g, g.hi) = {}
         /\ \A b \in g.B : /\ GET_BLK_SIZE(h, 8 * b) # 0
                           /\ BlocksAt(g, b) = {8 * b} \cup BlocksAt(g, b + g.sz[b])
<1>0. g \in Tables /\ Tiled(g) /\ Tags(h.mem, g)
  BY DEF OK
<1>1. g.hi \in Nat /\ \A b \in g.B : b \in Nat /\ g.sz[b] \in Nat /\ g.sz[b] >= 2 /\ b + g.sz[b] <= g.hi
  BY <1>0, Fields DEF Tiled
<1>2. GET_BLK_SIZE(h, 8 * g.hi) = 0
  <2>1. PICK x \in {0, 1}, t \in Nat : x = 1 /\ t = 0
    OBVIOUS
  <2>2. h.mem[2 * g.hi - 1] = 8 * t + x
    BY <1>0, <2>1 DEF Tags
  <2>3. PICK d \in Nat : d = g.hi
    BY <1>1
  <2>4. h.mem[2 * d - 1] = 8 * t + x
    BY <2>2, <2>3
  <2>5. GET_BLK_SIZE(h, 8 * d) = 8 * t
    BY <2>4, Reads
  <2> QED BY <2>1, <2>3, <2>5
<1>3. BlocksAt(g, g.hi) = {}
  BY <1>1 DEF BlocksAt
<1>4. ASSUME NEW b \in g.B
      PROVE  GET_BLK_SIZE(h, 8 * b) # 0 /\ BlocksAt(g, b) = {8 * b} \cup BlocksAt(g, b + g.sz[b])
  <2>1. GET_BLK_SIZE(h, 8 * b) = 8 * g.sz[b] /\ g.sz[b] \in Nat /\ g.sz[b] >= 2 /\ b \in Nat
    BY <1>1, ReadTags
  <2>2. \A c \in g.B : b <= c <=> c = b \/ b + g.sz[b] <= c
    <3> SUFFICES ASSUME NEW c \in g.B PROVE b <= c <=> c = b \/ b + g.sz[b] <= c
      OBVIOUS
    <3>1. c \in Nat /\ (b < c => b + g.sz[b] <= c)
      BY <1>0, <1>1 DEF Tiled
    <3> QED BY <2>1, <3>1
  <2>3. BlocksAt(g, b) = {8 * b} \cup BlocksAt(g, b + g.sz[b])
    BY <2>2 DEF BlocksAt
  <2> QED BY <2>1, <2>3
<1> QED BY <1>2, <1>3, <1>4

(* With as many steps as there is room for blocks it finds them all. *)
LEMMA WalkIs ==
  ASSUME NEW h, NEW g, OK(h, g), NEW f,
         \A n \in 0 .. STEPS : \A b \in Int :
           /\ n = 0 \/ GET_BLK_SIZE(h, b) = 0 => f[n][b] = {}
           /\ n # 0 /\ GET_BLK_SIZE(h, b) # 0 => f[n][b] = {b} \cup f[n - 1][NEXT_BLKP(h, b)],
         NEW n \in 0 .. STEPS, NEW b \in g.B \cup {g.hi}, g.hi - b <= 2 * n
  PROVE  f[n][8 * b] = BlocksAt(g, b)
<1> DEFINE Bad == {k \in 0 .. STEPS : \E c \in g.B \cup {g.hi} : g.hi - c <= 2 * k /\ f[k][8 * c] # BlocksAt(g, c)}
<1>0. g \in Tables /\ Tiled(g) /\ STEPS \in Nat
  BY StepsIs DEF OK
<1>1. g.hi \in Nat /\ \A c \in g.B : c \in Nat /\ g.sz[c] \in Nat /\ g.sz[c] >= 2 /\ c + g.sz[c] <= g.hi /\ c + g.sz[c] \in g.B \cup {g.hi}
  BY <1>0, Fields DEF Tiled
<1>2. ASSUME Bad # {} PROVE FALSE
  <2>1. PICK k \in Bad : \A y \in Bad : k <= y
    <3> HIDE DEF Bad
    <3>1. Bad \subseteq Nat
      BY <1>0 DEF Bad
    <3> QED BY <1>2, <3>1, LeastNat
  <2>2. PICK c \in g.B \cup {g.hi} : g.hi - c <= 2 * k /\ f[k][8 * c] # BlocksAt(g, c)
    BY <2>1
  <2>3. k \in 0 .. STEPS /\ k \in Nat /\ c \in Nat /\ 8 * c \in Int
    BY <1>0, <1>1, <2>1
  <2>4. CASE c = g.hi
    BY <2>2, <2>3, <2>4, WalkEnd
  <2>5. CASE c \in g.B
    <3>1. PICK t \in Nat : t = g.sz[c] /\ t >= 2 /\ c + t <= g.hi /\ c + t \in g.B \cup {g.hi}
      BY <1>1, <2>5
    <3>2. k # 0 /\ k - 1 \in 0 .. STEPS /\ g.hi - (c + t) <= 2 * (k - 1)
      BY <1>0, <1>1, <2>2, <2>3, <3>1
    <3>3. NEXT_BLKP(h, 8 * c) = 8 * (c + t)
      BY <2>5, <3>1, ReadTags
    <3>4. f[k][8 * c] = {8 * c} \cup f[k - 1][8 * (c + t)]
      BY <2>3, <2>5, <3>2, <3>3, WalkEnd
    <3>5. k - 1 \notin Bad
      BY <2>1, <2>3
    <3>6. f[k - 1][8 * (c + t)] = BlocksAt(g, c + t)
      BY <3>1, <3>2, <3>5
    <3>7. BlocksAt(g, c) = {8 * c} \cup BlocksAt(g, c + t)
      BY <2>5, <3>1, WalkEnd
    <3> QED BY <2>2, <3>4, <3>6, <3>7
  <2> QED BY <2>2, <2>4, <2>5
<1>3. n \notin Bad
  BY <1>2
<1> QED BY <1>3

(* BlocksFrom finds all blocks; the prologue before them, if it starts     *)
(* there.                                                                  *)
LEMMA BlocksAre ==
  ASSUME NEW h, NEW g, OK(h, g)
  PROVE  /\ NEXT_BLKP(h, heap_ptr) = 8 * Lo
         /\ BlocksFrom(h, 8 * Lo) = {8 * b : b \in g.B}
         /\ BlocksFrom(h, heap_ptr) = {heap_ptr} \cup {8 * b : b \in g.B}
<1>0. g \in Tables /\ Tiled(g) /\ Tags(h.mem, g) /\ 8 * g.hi <= MAX_HEAP
  BY DEF OK
<1>1. MAX_HEAP \in Nat /\ Lo \in Nat /\ Lo >= 3 /\ g.hi \in Nat /\ Lo <= g.hi /\ heap_ptr = 8 * (Lo - 1)
      /\ \A b \in g.B : b \in Nat /\ Lo <= b
  BY <1>0, Sizes8, Fields DEF Tiled
<1>2. Lo \in g.B \cup {g.hi}
  BY <1>0 DEF Tiled
<1>3. STEPS \in Nat /\ g.hi - Lo <= 2 * (STEPS - 1) /\ STEPS # 0
  <2>1. STEPS = MAX_HEAP \div 16
    BY StepsIs
  <2> QED BY <1>0, <1>1, <2>1
<1>4. BlocksAt(g, Lo) = {8 * b : b \in g.B}
  BY <1>1 DEF BlocksAt
<1>5. PICK f : /\ \A bp : BlocksFrom(h, bp) = f[STEPS][bp]
               /\ \A n \in 0 .. STEPS : \A b \in Int :
                    /\ n = 0 \/ GET_BLK_SIZE(h, b) = 0 => f[n][b] = {}
                    /\ n # 0 /\ GET_BLK_SIZE(h, b) # 0 => f[n][b] = {b} \cup f[n - 1][NEXT_BLKP(h, b)]
  BY WalkFunction
<1>6. PICK d \in Nat : d = Lo - 1
  BY <1>1
<1>7. GET_BLK_SIZE(h, 8 * d) = 8 /\ NEXT_BLKP(h, 8 * d) = 8 * Lo
  <2>1. PICK x \in {0, 1}, t \in Nat : x = 1 /\ t = 1
    OBVIOUS
  <2>2. 2 * d - 1 = 2 * Lo - 3
    BY <1>1, <1>6
  <2>3. h.mem[2 * d - 1] = 8 * t + x
    BY <1>0, <2>1, <2>2 DEF Tags
  <2>4. GET_BLK_SIZE(h, 8 * d) = 8 * t /\ NEXT_BLKP(h, 8 * d) = 8 * (d + t)
    BY <2>3, Reads
  <2> QED BY <1>1, <1>6, <2>1, <2>4
<1>8. f[STEPS][8 * Lo] = BlocksAt(g, Lo)
  <2>1. g.hi - Lo <= 2 * STEPS /\ STEPS \in 0 .. STEPS
    BY <1>1, <1>3
  <2> QED BY <1>2, <1>5, <2>1, WalkIs
<1>9. f[STEPS - 1][8 * Lo] = BlocksAt(g, Lo)
  <2>1. PICK m \in 0 .. STEPS : m = STEPS - 1
    BY <1>3
  <2>2. g.hi - Lo <= 2 * m
    BY <1>3, <2>1
  <2>3. f[m][8 * Lo] = BlocksAt(g, Lo)
    BY <1>2, <1>5, <2>2, WalkIs
  <2> QED BY <2>1, <2>3
<1>10. f[STEPS][8 * d] = {8 * d} \cup f[STEPS - 1][8 * Lo]
  <2>1. STEPS \in 0 .. STEPS /\ 8 * d \in Int /\ GET_BLK_SIZE(h, 8 * d) # 0
    BY <1>3, <1>7
  <2> QED BY <1>3, <1>5, <1>7, <2>1
<1> QED BY <1>1, <1>4, <1>5, <1>6, <1>7, <1>8, <1>9, <1>10

-----------------------------------------------------------------------------
(* The blocks on a list, as ListFrom collects them. *)
OnList(g, i) == {8 * b : b \in {c \in g.L : Class(g.sz[c]) = i}}

(* What the specification reads off a list is the list of the table. *)
LEMMA ListFromIs ==
  ASSUME NEW h, NEW g, OK(h, g), NEW i \in Idx
  PROVE  ListFrom(h, GET_SEG_LIST_PTR(h, i)) = OnList(g, i)
<1>0. g \in Tables /\ Tiled(g) /\ Listed(g)
  BY DEF OK
<1>1. PICK s : s = List(h, 8 * g.hd[i])
  OBVIOUS
<1>2. Lists(g, i, s)
  BY <1>1, ListOf
<1>3. /\ DOMAIN s = 1 .. Len(s) /\ Len(s) \in Nat /\ s[Len(s)] = 0
      /\ \A j \in 1 .. Len(s) : s[j] # 0 => \E b \in g.L : s[j] = 8 * b /\ Class(g.sz[b]) = i
  BY <1>2 DEF Lists
<1>4. \A b \in g.L : Class(g.sz[b]) = i => \E j \in 1 .. Len(s) : s[j] = 8 * b
  BY <1>0, <1>2, ListAll
<1>5. \A b \in g.L : 8 * b # 0
  <2> SUFFICES ASSUME NEW b \in g.L PROVE 8 * b # 0
    OBVIOUS
  <2>1. b \in g.B /\ b \in Nat
    BY <1>0, Fields DEF Listed
  <2>2. b >= Lo /\ Lo >= 3 /\ Lo \in Nat
    BY <1>0, <2>1, Sizes8 DEF Tiled
  <2> QED BY <2>1, <2>2
<1>6. ListFrom(h, GET_SEG_LIST_PTR(h, i)) = Range(s) \ {0}
  <2>1. GET_SEG_LIST_PTR(h, i) = 8 * g.hd[i]
    BY HeadIs
  <2> QED BY <1>1, <1>3, <2>1 DEF ListFrom, NULL
<1>7. Range(s) = {s[j] : j \in 1 .. Len(s)}
  BY <1>3 DEF Range
<1>8. ASSUME NEW x \in Range(s) \ {0} PROVE x \in OnList(g, i)
  BY <1>3, <1>7, <1>8 DEF OnList
<1>9. ASSUME NEW x \in OnList(g, i) PROVE x \in Range(s) \ {0}
  <2>1. PICK b \in g.L : x = 8 * b /\ Class(g.sz[b]) = i
    BY DEF OnList
  <2> QED BY <1>4, <1>5, <1>7, <2>1
<1> QED BY <1>6, <1>8, <1>9

(* The free blocks of the heap are the listed ones. *)
FreeIn(h) == {b \in BlocksFrom(h, NEXT_BLKP(h, heap_ptr)) : GET_ALLOC(h, HDRP(b)) = 0}

(* The free blocks of the heap are the listed ones. *)
LEMMA FreeAre ==
  ASSUME NEW h, NEW g, OK(h, g), Full(g)
  PROVE  FreeIn(h) = {8 * b : b \in g.L}
<1>1. BlocksFrom(h, NEXT_BLKP(h, heap_ptr)) = {8 * b : b \in g.B}
  BY BlocksAre
<1>2. \A b \in g.B : GET_ALLOC(h, HDRP(8 * b)) = g.al[b]
  BY ReadTags
<1>3. g.L \subseteq g.B /\ \A b \in g.B : g.al[b] = 0 <=> b \in g.L
  BY DEF OK, Listed, Full
<1> QED BY <1>1, <1>2, <1>3 DEF FreeIn

(* Every list holds the free blocks of its class, and its links agree. *)
ListsHold(h) ==
  /\ \A idx \in Idx :
       ListFrom(h, GET_SEG_LIST_PTR(h, idx)) = {b \in FreeIn(h) : SegIndex(GET_BLK_SIZE(h, b)) = idx}
  /\ \A b \in FreeIn(h) :
       /\ SEG_PREV_BLKP(h, b) # NULL => SEG_NEXT_BLKP(h, SEG_PREV_BLKP(h, b)) = b
       /\ SEG_NEXT_BLKP(h, b) = NULL <=> GET_SEG_LIST_PTR(h, SegIndex(GET_BLK_SIZE(h, b))) = b

(* Each free block is on the list of its size, once, and nothing else is. *)
LEMMA ListsAreExact ==
  ASSUME NEW h, NEW g, OK(h, g), Full(g)
  PROVE  ListsHold(h)
<1>0. g \in Tables /\ Tiled(g) /\ Listed(g) /\ g.L \subseteq g.B
  BY DEF OK, Listed
<1>1. FreeIn(h) = {8 * b : b \in g.L}
  BY FreeAre
<1>2. \A b \in g.L : SegIndex(GET_BLK_SIZE(h, 8 * b)) = Class(g.sz[b]) /\ Class(g.sz[b]) \in Idx
  <2> SUFFICES ASSUME NEW b \in g.L
               PROVE  SegIndex(GET_BLK_SIZE(h, 8 * b)) = Class(g.sz[b]) /\ Class(g.sz[b]) \in Idx
    OBVIOUS
  <2>1. GET_BLK_SIZE(h, 8 * b) = 8 * g.sz[b] /\ g.sz[b] \in Nat
    BY <1>0, ReadTags
  <2> QED BY <2>1, ClassIs
<1>3. ASSUME NEW idx \in Idx
      PROVE  ListFrom(h, GET_SEG_LIST_PTR(h, idx)) = {b \in FreeIn(h) : SegIndex(GET_BLK_SIZE(h, b)) = idx}
  <2>1. ListFrom(h, GET_SEG_LIST_PTR(h, idx)) = OnList(g, idx)
    BY ListFromIs
  <2>2. OnList(g, idx) = {b \in FreeIn(h) : SegIndex(GET_BLK_SIZE(h, b)) = idx}
    BY <1>1, <1>2 DEF OnList
  <2> QED BY <2>1, <2>2
<1>4. ASSUME NEW x \in FreeIn(h)
      PROVE  /\ SEG_PREV_BLKP(h, x) # NULL => SEG_NEXT_BLKP(h, SEG_PREV_BLKP(h, x)) = x
             /\ SEG_NEXT_BLKP(h, x) = NULL <=> GET_SEG_LIST_PTR(h, SegIndex(GET_BLK_SIZE(h, x))) = x
  <2>1. PICK b \in g.L : x = 8 * b
    BY <1>1, <1>4
  <2>2. /\ SEG_PREV_BLKP(h, 8 * b) = 8 * g.pv[b] /\ SEG_NEXT_BLKP(h, 8 * b) = 8 * g.nx[b]
        /\ b \in Nat /\ g.pv[b] \in Nat /\ g.nx[b] \in Nat
    BY ReadLinks
  <2>3. GET_SEG_LIST_PTR(h, Class(g.sz[b])) = 8 * g.hd[Class(g.sz[b])] /\ g.hd[Class(g.sz[b])] \in Nat
    BY <1>0, <1>2, HeadIs, Fields
  <2>4. b # 0
    BY <1>0, <2>2, Sizes8 DEF Tiled
  <2>5. SEG_PREV_BLKP(h, x) # NULL => SEG_NEXT_BLKP(h, SEG_PREV_BLKP(h, x)) = x
    <3> SUFFICES ASSUME SEG_PREV_BLKP(h, x) # NULL PROVE SEG_NEXT_BLKP(h, SEG_PREV_BLKP(h, x)) = x
      OBVIOUS
    <3>1. PICK p \in Nat : p = g.pv[b]
      BY <2>2
    <3>2. p # 0
      BY <2>1, <2>2, <3>1 DEF NULL
    <3>3. p \in g.L /\ g.nx[p] = b
      BY <1>0, <3>1, <3>2 DEF Listed
    <3>4. SEG_NEXT_BLKP(h, 8 * p) = 8 * b
      BY <3>3, ReadLinks
    <3> QED BY <2>1, <2>2, <3>1, <3>4
  <2>6. g.nx[b] = 0 <=> g.hd[Class(g.sz[b])] = b
    <3>1. g.nx[b] = 0 => g.hd[Class(g.sz[b])] = b
      BY <1>0 DEF Listed
    <3>2. g.hd[Class(g.sz[b])] = b => g.nx[b] = 0
      BY <1>0, <1>2, <2>4 DEF Listed
    <3> QED BY <3>1, <3>2
  <2>7. SEG_NEXT_BLKP(h, x) = NULL <=> GET_SEG_LIST_PTR(h, SegIndex(GET_BLK_SIZE(h, x))) = x
    <3>1. SegIndex(GET_BLK_SIZE(h, 8 * b)) = Class(g.sz[b])
      BY <1>2
    <3>2. GET_SEG_LIST_PTR(h, SegIndex(GET_BLK_SIZE(h, x))) = 8 * g.hd[Class(g.sz[b])]
      BY <2>1, <2>3, <3>1
    <3>3. PICK d \in Nat : d = g.hd[Class(g.sz[b])]
      BY <2>3
    <3>4. PICK n \in Nat : n = g.nx[b]
      BY <2>2
    <3>5. n = 0 <=> d = b
      BY <2>6, <3>3, <3>4
    <3> QED BY <2>1, <2>2, <3>2, <3>3, <3>4, <3>5 DEF NULL
  <2> QED BY <2>5, <2>7
<1> QED BY <1>3, <1>4 DEF ListsHold

-----------------------------------------------------------------------------
(* mm_check finds nothing to complain of. *)
TagsAgree(h, b) ==
  GET_ALLOC(h, HDRP(b)) = GET_ALLOC(h, FTRP(h, b)) /\ GET_BLK_SIZE(h, b) = GET_SIZE(h, FTRP(h, b))

(* The tags of the prologue agree. *)
LEMMA PrologueAgrees ==
  ASSUME NEW h, NEW g, OK(h, g)
  PROVE  TagsAgree(h, heap_ptr)
<1>1. Lo \in Nat /\ Lo >= 3 /\ heap_ptr = 8 * (Lo - 1)
  BY Sizes8
<1>2. PICK d \in Nat : d = Lo - 1
  BY <1>1
<1>3. PICK x \in {0, 1}, t \in Nat : x = 1 /\ t = 1
  OBVIOUS
<1>4. 2 * d - 1 = 2 * Lo - 3 /\ 2 * d = 2 * Lo - 2
  BY <1>1, <1>2
<1>5. h.mem[2 * d - 1] = 8 * t + x /\ h.mem[2 * d] = 8 * t + x
  BY <1>3, <1>4 DEF OK, Tags
<1>6. GET_BLK_SIZE(h, 8 * d) = 8 * t /\ GET_ALLOC(h, HDRP(8 * d)) = x /\ FTRP(h, 8 * d) = 8 * (d + t) - 8
  BY <1>5, Reads
<1>7. FTRP(h, 8 * d) = 8 * d
  BY <1>3, <1>6
<1>8. GET(h, 8 * d) = h.mem[2 * d]
  BY WordAt DEF GET, WSIZE
<1>9. GET_SIZE(h, 8 * d) = 8 * t /\ GET_ALLOC(h, 8 * d) = x
  BY <1>5, <1>8, TagIs DEF GET_SIZE, GET_ALLOC, DSIZE
<1> QED BY <1>1, <1>2, <1>6, <1>7, <1>9 DEF TagsAgree

(* What mm_check asks of a listed block. *)
LEMMA ListedPasses ==
  ASSUME NEW h, NEW g, OK(h, g), NEW c \in g.L
  PROVE  /\ 8 * c \in mem_heap_lo .. mem_heap_hi(h) /\ GET_ALLOC(h, 8 * c) = 0
         /\ TagsAgree(h, 8 * c) /\ (8 * c) % DSIZE = 0
         /\ HDRP(8 * c) - FTRP(h, 8 * c) # DSIZE
<1>0. g \in Tables /\ Tiled(g) /\ Listed(g) /\ c \in g.B /\ 8 * g.hi <= MAX_HEAP
  BY DEF OK, Listed
<1>1. PICK b \in Nat : b = c
  BY <1>0, Fields
<1>2. PICK t \in Nat : t = g.sz[b] /\ t >= 2 /\ b + t <= g.hi /\ g.hi \in Nat
  BY <1>0, <1>1, BlockWords
<1>3. h.brk = 8 * g.hi
  BY DEF OK, Heap
<1>4. 8 * b \in mem_heap_lo .. mem_heap_hi(h)
  BY <1>1, <1>2, <1>3 DEF mem_heap_lo, mem_heap_hi
<1>5. GET_ALLOC(h, 8 * b) = 0
  <2>1. GET(h, 8 * b) = h.mem[2 * b]
    BY WordAt DEF GET, WSIZE
  <2>2. PICK p \in Nat : p = g.pv[b]
    BY <1>0, <1>1, Fields
  <2>3. h.mem[2 * b] = 8 * p
    BY <1>1, <2>2 DEF OK, Links
  <2> QED BY <2>1, <2>3 DEF GET_ALLOC
<1>6. TagsAgree(h, 8 * b)
  BY <1>0, <1>1, ReadTags DEF TagsAgree
<1>7. HDRP(8 * b) - FTRP(h, 8 * b) # DSIZE
  <2>1. FTRP(h, 8 * b) = 8 * (b + t) - 8
    BY <1>0, <1>1, <1>2, ReadTags
  <2> QED BY <1>2, <2>1 DEF HDRP, WSIZE, DSIZE
<1>8. (8 * b) % DSIZE = 0
  BY DEF DSIZE
<1> QED BY <1>1, <1>4, <1>5, <1>6, <1>7, <1>8

(* mm_check finds nothing to complain of. *)
LEMMA CheckPasses ==
  ASSUME NEW h, NEW g, OK(h, g)
  PROVE  mm_check(h)
<1>1. BlocksFrom(h, heap_ptr) = {heap_ptr} \cup {8 * b : b \in g.B}
  BY BlocksAre
<1>2. \A b \in g.B : TagsAgree(h, 8 * b)
  BY ReadTags DEF TagsAgree
<1>3. \A x \in BlocksFrom(h, heap_ptr) : TagsAgree(h, x)
  BY <1>1, <1>2, PrologueAgrees
<1>4. \A idx \in Idx : ListFrom(h, GET_SEG_LIST_PTR(h, idx)) = OnList(g, idx)
  BY ListFromIs
<1>5. ASSUME NEW idx \in Idx, NEW x \in ListFrom(h, GET_SEG_LIST_PTR(h, idx))
      PROVE  /\ x \in mem_heap_lo .. mem_heap_hi(h) /\ GET_ALLOC(h, x) = 0
             /\ TagsAgree(h, x) /\ x % DSIZE = 0 /\ HDRP(x) - FTRP(h, x) # DSIZE
  <2>1. PICK c \in g.L : x = 8 * c
    BY <1>4, <1>5 DEF OnList
  <2> QED BY <2>1, ListedPasses
<1> QED BY <1>3, <1>5 DEF mm_check, TagsAgree, Idx

-----------------------------------------------------------------------------
(* The two properties of the free lists, of any heap with a table. *)
LEMMA ExactLists ==
  ASSUME NEW g, OK(heap, g), Full(g)
  PROVE  FreeListsExact
<1>1. FreeBlocks = FreeIn(heap)
  BY DEF FreeBlocks, Blocks, FreeIn
<1>2. ListsHold(heap) /\ mm_check(heap)
  BY ListsAreExact, CheckPasses
<1> QED BY <1>1, <1>2 DEF ListsHold, FreeListsExact, Idx

(* The lists hold every block that a request could be placed in.  The last *)
(* list takes everything that SEG_SIZE halvings leave larger, and find_fit *)
(* does not look there for a request that large.                           *)
RequestsFit == \A n \in Sizes : adjusted(n) < 2^SEG_SIZE

(* If no request is larger than the search of find_fit reaches, it misses  *)
(* no block that would do.                                                 *)
LEMMA CompleteFit ==
  ASSUME NEW g, OK(heap, g), Full(g), RequestsFit
  PROVE  FitIsComplete
<1>1. FreeBlocks = {8 * b : b \in g.L}
  <2>1. FreeBlocks = FreeIn(heap)
    BY DEF FreeBlocks, Blocks, FreeIn
  <2> QED BY <2>1, FreeAre
<1>2. ASSUME NEW size \in Sizes, find_fit(heap, adjusted(size)) = NULL, NEW b \in g.L
      PROVE  GET_BLK_SIZE(heap, 8 * b) < adjusted(size)
  <2>1. size \in Nat /\ size >= 1
    BY MDriverAssumption
  <2>2. PICK m \in Nat : adjusted(size) = 8 * m
    BY <2>1, AdjustedIs
  <2>3. PICK n \in Nat : n = 8 * m
    OBVIOUS
  <2>4. Fitting(heap, heap, g, n)
    BY <2>3, FindFit
  <2>5. find_fit(heap, n) = NULL /\ n < 2^SEG_SIZE
    BY <1>2, <2>2, <2>3 DEF RequestsFit
  <2>6. ASSUME NEW c \in g.L, NULL = 8 * c PROVE FALSE
    <3>1. c \in g.B /\ c \in Nat
      BY Fields DEF OK, Listed
    <3>2. c >= Lo
      BY <3>1 DEF OK, Tiled
    <3> QED BY <2>6, <3>1, <3>2, Sizes8 DEF NULL
  <2>7. 8 * g.sz[b] < n
    BY <2>4, <2>5, <2>6 DEF Fitting
  <2>8. GET_BLK_SIZE(heap, 8 * b) = 8 * g.sz[b]
    <3>1. b \in g.B
      BY DEF OK, Listed
    <3> QED BY <3>1, ReadTags
  <2> QED BY <2>2, <2>3, <2>7, <2>8
<1> QED BY <1>1, <1>2 DEF FitIsComplete

-----------------------------------------------------------------------------
(* The payload of a block holds size bytes. *)
Holds(g, b, size) == size \in Nat /\ size >= 1 /\ size <= 8 * (g.sz[b] - 1)

(* The words of a payload are words of its block, between the tags. *)
LEMMA PayloadIs ==
  ASSUME NEW h, NEW g, OK(h, g), NEW b \in Used(g), NEW size, Holds(g, b, size)
  PROVE  /\ PayloadWords(8 * b, size) = (2 * b) .. (2 * b + (size - 1) \div 4)
         /\ 2 * b + (size - 1) \div 4 <= 2 * (b + g.sz[b]) - 3
<1>1. PICK t \in Nat : t = g.sz[b] /\ t >= 2
  BY UsedIs
<1>2. b \in Nat
  BY UsedIs
<1>3. PICK s \in Nat : s = size /\ s >= 1 /\ s <= 8 * (t - 1)
  BY <1>1 DEF Holds
<1>4. PICK q \in Int : q = (s - 1) \div 4
  BY <1>3
<1>5. (8 * b) \div 4 = 2 * b
  BY <1>2
<1>6. (8 * b + s - 1) \div 4 = 2 * b + q
  BY <1>2, <1>3, <1>4
<1>7. q <= 2 * (t - 1) - 1
  BY <1>1, <1>3, <1>4
<1>8. 2 * b + q <= 2 * (b + t) - 3
  BY <1>1, <1>2, <1>7
<1> QED BY <1>1, <1>3, <1>4, <1>5, <1>6, <1>8 DEF PayloadWords, WSIZE

(* The byte that the driver fills a block with. *)
LEMMA FillIs == \A x \in Indices : Fill(x) \in Int /\ x \in 0 .. 255
  BY MDriverAssumption DEF Fill

(* Filling it changes no other word. *)
LEMMA MemsetIs ==
  ASSUME NEW h, NEW g, OK(h, g), NEW b \in Used(g), NEW size, Holds(g, b, size), NEW x \in Indices
  PROVE  /\ OK(memset(h, 8 * b, x, size), g)
         /\ Keeps(h, g, memset(h, 8 * b, x, size), g, Used(g) \ {b})
         /\ Filled(memset(h, 8 * b, x, size), 8 * b, x, size)
<1>1. PICK P : P = PayloadWords(8 * b, size)
  OBVIOUS
<1>2. /\ b \in Nat /\ g.sz[b] \in Nat /\ g.sz[b] >= 2 /\ b + g.sz[b] <= g.hi /\ g.hi \in Nat /\ 8 * g.hi <= MAX_HEAP
      /\ MAX_HEAP \in Nat
  BY UsedIs
<1>3. P \subseteq (2 * b) .. (2 * (b + g.sz[b]) - 3)
  <2>1. PICK q \in Int : q = (size - 1) \div 4
    BY DEF Holds
  <2>2. P = (2 * b) .. (2 * b + q) /\ 2 * b + q <= 2 * (b + g.sz[b]) - 3
    BY <1>1, <2>1, PayloadIs
  <2> QED BY <1>2, <2>1, <2>2
<1>4. P \subseteq Words
  <2> SUFFICES ASSUME NEW w \in P PROVE w \in Words
    OBVIOUS
  <2>1. w \in Nat /\ 4 * w < MAX_HEAP
    BY <1>2, <1>3
  <2> QED BY <2>1, IsWord
<1>5. h = [mem |-> h.mem, brk |-> 8 * g.hi] /\ h.mem \in [Words -> Int] /\ DOMAIN h.mem = Words
  BY DEF OK, Heap
<1>6. PICK v \in Int : v = Fill(x)
  BY FillIs
<1>7. PICK h2 : h2 = memset(h, 8 * b, x, size)
  OBVIOUS
<1>8. h2 = [mem |-> [w \in Words |-> IF w \in P THEN v ELSE h.mem[w]], brk |-> 8 * g.hi]
  BY <1>1, <1>5, <1>6, <1>7 DEF memset
<1>9. h2.mem = [w \in Words |-> IF w \in P THEN v ELSE h.mem[w]]
  BY <1>8
<1>10. Heap(h2, 8 * g.hi)
  BY <1>5, <1>8, <1>9 DEF Heap
<1>11. Filled(h2, 8 * b, x, size)
  BY <1>1, <1>4, <1>6, <1>9 DEF Filled
<1>12. Writes(h, h2, 8 * g.hi, b, g.sz[b])
  BY <1>3, <1>9, <1>10 DEF Writes
<1> QED BY <1>7, <1>11, <1>12, PayloadWritten

(* What is kept stays filled. *)
LEMMA FilledOn ==
  ASSUME NEW h, NEW g, OK(h, g), NEW h2, NEW g2, NEW S, Keeps(h, g, h2, g2, S), NEW b \in S,
         NEW size, Holds(g, b, size), NEW x, Filled(h, 8 * b, x, size)
  PROVE  Filled(h2, 8 * b, x, size) /\ Holds(g2, b, size) /\ b \in Used(g2)
<1>0. S \subseteq Used(g) /\ S \subseteq Used(g2)
  BY KeepsUsed
<1>1. b \in Used(g) /\ b \in Used(g2) /\ g2.sz[b] = g.sz[b]
  BY <1>0 DEF Keeps
<1>2. b \in Nat /\ g.sz[b] \in Nat /\ g.sz[b] >= 2
  BY <1>1, UsedIs
<1>3. PICK q \in Int : q = (size - 1) \div 4
  BY DEF Holds
<1>4. PayloadWords(8 * b, size) = (2 * b) .. (2 * b + q) /\ 2 * b + q <= 2 * (b + g.sz[b]) - 3
  BY <1>1, <1>3, PayloadIs
<1>5. PayloadWords(8 * b, size) \subseteq (2 * b) .. (2 * (b + g.sz[b]) - 3)
  <2>1. PICK e \in Int : e = 2 * (b + g.sz[b]) - 3
    BY <1>2
  <2>2. (2 * b) .. (2 * b + q) \subseteq (2 * b) .. e
    BY <1>2, <1>3, <1>4, <2>1
  <2> QED BY <1>4, <2>1, <2>2
<1>6. \A w \in (2 * b) .. (2 * (b + g.sz[b]) - 3) : h2.mem[w] = h.mem[w]
  BY DEF Keeps
<1>7. Filled(h2, 8 * b, x, size)
  BY <1>5, <1>6 DEF Filled
<1> QED BY <1>1, <1>7 DEF Holds

(* A copied payload is filled as far as it goes. *)
LEMMA FilledOver ==
  ASSUME NEW h, NEW g, OK(h, g), NEW b \in Used(g), NEW old, Holds(g, b, old), NEW x \in Indices, Filled(h, 8 * b, x, old),
         NEW hm, NEW g2, OK(hm.h, g2), NEW size \in Nat, size >= 1, NEW d, Reallocated_(h, g, b, size, hm, g2, d),
         NEW n \in Nat, n >= 1, n <= old, n <= size
  PROVE  Filled(hm.h, 8 * d, x, n)
<1>1. b \in Nat /\ g.sz[b] \in Nat /\ g.sz[b] >= 2
  BY UsedIs
<1>2. /\ d \in Used(g2) /\ 8 * (g2.sz[d] - 1) >= size
      /\ \A j \in Nat : 4 * j < size /\ j < 2 * (g.sz[b] - 1) => hm.h.mem[2 * d + j] = h.mem[2 * b + j]
  BY DEF Reallocated_
<1>3. d \in Nat /\ g2.sz[d] \in Nat
  BY <1>2, UsedIs
<1>4. old \in Nat /\ old >= 1 /\ old <= 8 * (g.sz[b] - 1)
  BY DEF Holds
<1>5. Holds(g2, d, n)
  BY <1>2, <1>3 DEF Holds
<1>6. PICK q \in Int : q = (n - 1) \div 4
  OBVIOUS
<1>7. PayloadWords(8 * d, n) = (2 * d) .. (2 * d + q)
  BY <1>2, <1>5, <1>6, PayloadIs
<1>8. PICK r \in Int : r = (old - 1) \div 4
  BY <1>4
<1>9. PayloadWords(8 * b, old) = (2 * b) .. (2 * b + r)
  BY <1>8, PayloadIs
<1>10. ASSUME NEW w \in PayloadWords(8 * d, n) PROVE hm.h.mem[w] = Fill(x)
  <2>1. PICK j \in Nat : w = 2 * d + j /\ j <= q
    <3>1. w \in Int /\ 2 * d <= w /\ w <= 2 * d + q
      BY <1>3, <1>6, <1>7
    <3>2. w - 2 * d \in Nat /\ w = 2 * d + (w - 2 * d) /\ w - 2 * d <= q
      BY <1>3, <1>6, <3>1
    <3> QED BY <3>2
  <2>2. 4 * j < size /\ 4 * j < old /\ j <= r
    BY <1>4, <1>6, <1>8, <2>1
  <2>3. j < 2 * (g.sz[b] - 1)
    BY <1>1, <1>4, <2>2
  <2>4. hm.h.mem[2 * d + j] = h.mem[2 * b + j]
    BY <1>2, <2>2, <2>3
  <2>5. 2 * b + j \in PayloadWords(8 * b, old)
    BY <1>1, <1>8, <1>9, <2>1, <2>2
  <2>6. h.mem[2 * b + j] = Fill(x)
    BY <2>5 DEF Filled
  <2> QED BY <2>1, <2>4, <2>6
<1> QED BY <1>10 DEF Filled

-----------------------------------------------------------------------------
(* The driver's arrays and the blocks they stand for. *)
LiveAt(g, bs, ss) ==
  /\ bs \in [Indices -> Int] /\ ss \in [Indices -> Nat]
  /\ \A x \in Indices : bs[x] # NULL => \E b \in Used(g) : bs[x] = 8 * b /\ Holds(g, b, ss[x])
  /\ \A x, y \in Indices : bs[x] # NULL /\ bs[x] = bs[y] => x = y

AllFilled(h, bs, ss) == \A x \in Indices : bs[x] # NULL => Filled(h, bs[x], x, ss[x])

RangesOf(bs, ss) == {[lo |-> bs[x], hi |-> bs[x] + ss[x] - 1] : x \in {y \in Indices : bs[y] # NULL}}

(* The arrays stand for blocks of S. *)
Within(bs, S) == \A x \in Indices : bs[x] # NULL => \E b \in S : bs[x] = 8 * b

(* Live addresses are allocated blocks. *)
LEMMA WithinUsed ==
  ASSUME NEW g, NEW bs, NEW ss, LiveAt(g, bs, ss)
  PROVE  Within(bs, Used(g))
  BY DEF LiveAt, Within

(* If a step keeps the live blocks they stay live. *)
LEMMA LiveKeeps ==
  ASSUME NEW h, NEW g, OK(h, g), NEW bs, NEW ss, LiveAt(g, bs, ss),
         NEW h2, NEW g2, NEW S, Keeps(h, g, h2, g2, S), Within(bs, S)
  PROVE  LiveAt(g2, bs, ss)
<1>0. S \subseteq Used(g) /\ S \subseteq Used(g2) /\ \A b \in S : g2.sz[b] = g.sz[b]
  BY KeepsUsed DEF Keeps
<1>1. ASSUME NEW x \in Indices, bs[x] # NULL
      PROVE  \E b \in Used(g2) : bs[x] = 8 * b /\ Holds(g2, b, ss[x])
  <2>1. PICK b \in S : bs[x] = 8 * b
    BY <1>1 DEF Within
  <2>2. PICK c \in Used(g) : bs[x] = 8 * c /\ Holds(g, c, ss[x])
    BY <1>1 DEF LiveAt
  <2>3. b \in Nat /\ c \in Nat
    BY <1>0, <2>1, UsedIs
  <2>4. b = c
    BY <2>1, <2>2, <2>3
  <2>5. Holds(g2, b, ss[x])
    BY <1>0, <2>2, <2>4 DEF Holds
  <2> QED BY <1>0, <2>1, <2>5
<1> QED BY <1>1 DEF LiveAt

(* If a step keeps the live blocks their bytes stay. *)
LEMMA FilledKeeps ==
  ASSUME NEW h, NEW g, OK(h, g), NEW bs, NEW ss, LiveAt(g, bs, ss), AllFilled(h, bs, ss),
         NEW h2, NEW g2, NEW S, Keeps(h, g, h2, g2, S), Within(bs, S)
  PROVE  AllFilled(h2, bs, ss)
<1>0. S \subseteq Used(g)
  BY KeepsUsed
<1>1. ASSUME NEW x \in Indices, bs[x] # NULL
      PROVE  Filled(h2, bs[x], x, ss[x])
  <2>1. PICK b \in S : bs[x] = 8 * b
    BY <1>1 DEF Within
  <2>2. PICK c \in Used(g) : bs[x] = 8 * c /\ Holds(g, c, ss[x])
    BY <1>1 DEF LiveAt
  <2>3. b \in Nat /\ c \in Nat
    BY <1>0, <2>1, UsedIs
  <2>4. b = c
    BY <2>1, <2>2, <2>3
  <2>5. Filled(h, 8 * b, x, ss[x])
    BY <1>1, <2>1 DEF AllFilled
  <2>6. PICK n : n = ss[x]
    OBVIOUS
  <2>7. Filled(h2, 8 * b, x, n)
    BY <2>2, <2>4, <2>5, <2>6, FilledOn
  <2> QED BY <2>1, <2>6, <2>7
<1> QED BY <1>1 DEF AllFilled

(* An index is given up. *)
RangeLeaves(bs, ss, x, bs1) == RangesOf(bs1, ss) = remove_range(RangesOf(bs, ss), bs[x])

(* A pointer less, by free or on the way of realloc. *)
LEMMA DropIs ==
  ASSUME NEW g, NEW bs, NEW ss, LiveAt(g, bs, ss), NEW x \in Indices, NEW b \in Used(g), bs[x] = 8 * b,
         8 * b # NULL, NEW bs1, bs1 = [bs EXCEPT ![x] = NULL]
  PROVE  /\ LiveAt(g, bs1, ss) /\ Within(bs1, Used(g) \ {b})
         /\ RangeLeaves(bs, ss, x, bs1)
         /\ \A h : AllFilled(h, bs, ss) => AllFilled(h, bs1, ss)
<1>0. bs \in [Indices -> Int] /\ NULL \in Int
  BY DEF LiveAt, NULL
<1>1. /\ bs1 \in [Indices -> Int] /\ bs1[x] = NULL
      /\ \A y \in Indices : y # x => bs1[y] = bs[y]
  BY <1>0
<1>2. \A y \in Indices : y # x /\ bs[y] # NULL => bs[y] # bs[x]
  BY DEF LiveAt
<1>3. LiveAt(g, bs1, ss)
  BY <1>1 DEF LiveAt
<1>4. Within(bs1, Used(g) \ {b})
  <2> SUFFICES ASSUME NEW y \in Indices, bs1[y] # NULL PROVE \E c \in Used(g) \ {b} : bs1[y] = 8 * c
    BY DEF Within
  <2>1. y # x /\ bs1[y] = bs[y]
    BY <1>1
  <2>2. PICK c \in Used(g) : bs[y] = 8 * c
    BY <2>1 DEF LiveAt
  <2>3. c # b
    BY <1>2, <2>1, <2>2
  <2> QED BY <2>1, <2>2, <2>3
<1>5. RangeLeaves(bs, ss, x, bs1)
  <2> DEFINE r(y) == [lo |-> bs[y], hi |-> bs[y] + ss[y] - 1]
             r1(y) == [lo |-> bs1[y], hi |-> bs1[y] + ss[y] - 1]
  <2>1. RangesOf(bs, ss) = {r(y) : y \in {z \in Indices : bs[z] # NULL}}
    BY DEF RangesOf
  <2>2. RangesOf(bs1, ss) = {r1(y) : y \in {z \in Indices : bs1[z] # NULL}}
    BY DEF RangesOf
  <2>3. \A y \in Indices : r(y).lo = bs[y] /\ (y # x => r1(y) = r(y))
    BY <1>1
  <2> HIDE DEF r, r1
  <2>4. ASSUME NEW e \in RangesOf(bs1, ss) PROVE e \in RangesOf(bs, ss) /\ e.lo # bs[x]
    <3>1. PICK y \in Indices : bs1[y] # NULL /\ e = r1(y)
      BY <2>2
    <3>2. y # x /\ bs1[y] = bs[y]
      BY <1>1, <3>1
    <3> QED BY <1>2, <2>1, <2>3, <3>1, <3>2
  <2>5. ASSUME NEW e \in RangesOf(bs, ss), e.lo # bs[x] PROVE e \in RangesOf(bs1, ss)
    <3>1. PICK y \in Indices : bs[y] # NULL /\ e = r(y)
      BY <2>1
    <3>2. y # x /\ bs1[y] = bs[y]
      BY <1>1, <2>3, <2>5, <3>1
    <3> QED BY <2>2, <2>3, <3>1, <3>2
  <2> QED BY <2>4, <2>5 DEF remove_range, RangeLeaves
<1>6. ASSUME NEW h, AllFilled(h, bs, ss) PROVE AllFilled(h, bs1, ss)
  BY <1>1, <1>6 DEF AllFilled
<1> QED BY <1>3, <1>4, <1>5, <1>6

(* The ranges of the driver do not get in the way of another block. *)
LEMMA RangeFits ==
  ASSUME NEW h, NEW g, OK(h, g), NEW bs, NEW ss, LiveAt(g, bs, ss), NEW d \in Used(g), Within(bs, Used(g) \ {d}),
         NEW size, Holds(g, d, size)
  PROVE  add_range(h, RangesOf(bs, ss), 8 * d, size)
<1>1. PICK t \in Nat : t = g.sz[d] /\ t >= 2
  BY UsedIs
<1>2. d \in Nat /\ d >= 3 /\ d + t <= g.hi /\ g.hi \in Nat /\ g \in Tables /\ Tiled(g) /\ d \in g.B
  BY <1>1, UsedIs
<1>3. PICK s \in Nat : s = size /\ s >= 1 /\ s <= 8 * (t - 1)
  BY <1>1 DEF Holds
<1>4. h.brk = 8 * g.hi
  BY DEF OK, Heap
<1>5. (8 * d) % 8 = 0 /\ 8 * d + s - 1 < 8 * (d + t)
  BY <1>1, <1>2, <1>3
<1>6. ASSUME NEW r \in RangesOf(bs, ss)
      PROVE  ~(8 * d \in r.lo .. r.hi) /\ ~(8 * d + s - 1 \in r.lo .. r.hi)
  <2>1. PICK x \in Indices : bs[x] # NULL /\ r = [lo |-> bs[x], hi |-> bs[x] + ss[x] - 1]
    BY DEF RangesOf
  <2>2. PICK c \in Used(g) \ {d} : bs[x] = 8 * c
    BY <2>1 DEF Within
  <2>3. PICK a \in Used(g) : bs[x] = 8 * a /\ Holds(g, a, ss[x])
    BY <2>1 DEF LiveAt
  <2>4. c \in Nat /\ a \in Nat /\ c \in g.B
    BY <2>2, <2>3, UsedIs
  <2>5. a = c
    BY <2>2, <2>3, <2>4
  <2>6. PICK u \in Nat : u = g.sz[c] /\ u >= 2
    BY <2>2, UsedIs
  <2>7. PICK n \in Nat : n = ss[x] /\ n >= 1 /\ n <= 8 * (u - 1)
    BY <2>3, <2>5, <2>6 DEF Holds
  <2>8. (c < d => c + u <= d) /\ (d < c => d + t <= c)
    BY <1>1, <1>2, <2>4, <2>6 DEF Tiled
  <2>9. r.lo = 8 * c /\ r.hi = 8 * c + n - 1
    BY <2>1, <2>2, <2>7
  <2>10. c # d
    BY <2>2
  <2>11. CASE c < d
    <3>1. 8 * c + n - 1 < 8 * d
      BY <1>2, <2>4, <2>6, <2>7, <2>8, <2>11
    <3> QED BY <1>2, <1>3, <2>4, <2>7, <2>9, <3>1
  <2>12. CASE d < c
    <3>1. 8 * d + s - 1 < 8 * c
      BY <1>1, <1>2, <1>5, <2>4, <2>8, <2>12
    <3> QED BY <1>2, <1>3, <2>4, <2>7, <2>9, <3>1
  <2> QED BY <1>2, <2>4, <2>10, <2>11, <2>12
<1>7. 8 * d >= 0 /\ 8 * d <= 8 * g.hi - 1 /\ 8 * d + s - 1 >= 0 /\ 8 * d + s - 1 <= 8 * g.hi - 1
  BY <1>1, <1>2, <1>3, <1>5
<1> QED BY <1>3, <1>4, <1>5, <1>6, <1>7 DEF add_range, mem_heap_lo, mem_heap_hi, DSIZE

-----------------------------------------------------------------------------
(* An index is given a block. *)
Put(bs, ss, x, p, size, bs2, ss2) ==
  bs2 = [bs EXCEPT ![x] = p] /\ ss2 = [ss EXCEPT ![x] = size]

(* A pointer more. *)
LEMMA PutIs ==
  ASSUME NEW g, NEW bs, NEW ss, LiveAt(g, bs, ss), NEW x \in Indices, bs[x] = NULL, NEW d \in Used(g), Used(g) \subseteq Nat, 8 * d # NULL,
         Within(bs, Used(g) \ {d}), NEW size, Holds(g, d, size), NEW bs2, NEW ss2, Put(bs, ss, x, 8 * d, size, bs2, ss2)
  PROVE  /\ LiveAt(g, bs2, ss2)
         /\ RangesOf(bs2, ss2) = RangesOf(bs, ss) \cup {[lo |-> 8 * d, hi |-> 8 * d + size - 1]}
<1>0. bs \in [Indices -> Int] /\ ss \in [Indices -> Nat] /\ size \in Nat /\ 8 * d \in Int
  BY DEF LiveAt, Holds
<1>1. /\ bs2 \in [Indices -> Int] /\ ss2 \in [Indices -> Nat] /\ bs2[x] = 8 * d /\ ss2[x] = size
      /\ \A y \in Indices : y # x => bs2[y] = bs[y] /\ ss2[y] = ss[y]
  BY <1>0 DEF Put
<1>2. \A y \in Indices : bs[y] # 8 * d
  <2> SUFFICES ASSUME NEW y \in Indices, bs[y] = 8 * d PROVE FALSE
    OBVIOUS
  <2>1. PICK c \in Used(g) \ {d} : bs[y] = 8 * c
    BY DEF Within
  <2>3. c \in Nat /\ d \in Nat /\ c # d
    BY <2>1
  <2> QED BY <2>1, <2>3
<1>3. LiveAt(g, bs2, ss2)
  <2>1. ASSUME NEW y \in Indices, bs2[y] # NULL PROVE \E b \in Used(g) : bs2[y] = 8 * b /\ Holds(g, b, ss2[y])
    <3>1. CASE y = x
      BY <1>1, <3>1
    <3>2. CASE y # x
      BY <1>1, <2>1, <3>2 DEF LiveAt
    <3> QED BY <3>1, <3>2
  <2>2. ASSUME NEW y \in Indices, NEW z \in Indices, bs2[y] # NULL, bs2[y] = bs2[z] PROVE y = z
    <3>1. CASE y = x \/ z = x
      BY <1>1, <1>2, <2>2, <3>1
    <3>2. CASE y # x /\ z # x
      BY <1>1, <2>2, <3>2 DEF LiveAt
    <3> QED BY <3>1, <3>2
  <2> QED BY <1>1, <2>1, <2>2 DEF LiveAt
<1>4. RangesOf(bs2, ss2) = RangesOf(bs, ss) \cup {[lo |-> 8 * d, hi |-> 8 * d + size - 1]}
  <2> DEFINE r(y) == [lo |-> bs[y], hi |-> bs[y] + ss[y] - 1]
             r2(y) == [lo |-> bs2[y], hi |-> bs2[y] + ss2[y] - 1]
             e == [lo |-> 8 * d, hi |-> 8 * d + size - 1]
  <2>1. RangesOf(bs, ss) = {r(y) : y \in {z \in Indices : bs[z] # NULL}}
    BY DEF RangesOf
  <2>2. RangesOf(bs2, ss2) = {r2(y) : y \in {z \in Indices : bs2[z] # NULL}}
    BY DEF RangesOf
  <2>3. r2(x) = e /\ \A y \in Indices : y # x => r2(y) = r(y)
    BY <1>1
  <2> HIDE DEF r, r2, e
  <2>4. RangesOf(bs2, ss2) \subseteq RangesOf(bs, ss) \cup {e}
    BY <1>1, <2>1, <2>2, <2>3
  <2>5. e \in RangesOf(bs2, ss2)
    BY <1>1, <2>2, <2>3
  <2>6. ASSUME NEW y \in Indices, bs[y] # NULL PROVE r(y) \in RangesOf(bs2, ss2)
    <3>1. y # x
      BY <2>6
    <3> QED BY <1>1, <2>2, <2>3, <2>6, <3>1
  <2>7. RangesOf(bs, ss) \subseteq RangesOf(bs2, ss2)
    BY <2>1, <2>6
  <2>8. RangesOf(bs2, ss2) = RangesOf(bs, ss) \cup {e}
    BY <2>4, <2>5, <2>7
  <2> QED BY <2>8 DEF e
<1> QED BY <1>3, <1>4

(* The block is filled; the others stay filled. *)
LEMMA FillUp ==
  ASSUME NEW h, NEW g, OK(h, g), NEW bs, NEW ss, LiveAt(g, bs, ss), NEW x \in Indices, bs[x] = NULL, NEW d \in Used(g),
         Within(bs, Used(g) \ {d}), NEW size, Holds(g, d, size), NEW bs2, NEW ss2, Put(bs, ss, x, 8 * d, size, bs2, ss2),
         AllFilled(h, bs, ss)
  PROVE  AllFilled(memset(h, 8 * d, x, size), bs2, ss2)
<1>1. PICK h2 : h2 = memset(h, 8 * d, x, size)
  OBVIOUS
<1>2. Keeps(h, g, h2, g, Used(g) \ {d}) /\ Filled(h2, 8 * d, x, size)
  BY <1>1, MemsetIs
<1>3. AllFilled(h2, bs, ss)
  BY <1>2, FilledKeeps
<1>4. bs \in [Indices -> Int] /\ ss \in [Indices -> Nat]
  BY DEF LiveAt
<1>5. bs2[x] = 8 * d /\ ss2[x] = size /\ \A y \in Indices : y # x => bs2[y] = bs[y] /\ ss2[y] = ss[y]
  BY <1>4 DEF Put
<1>6. ASSUME NEW y \in Indices, bs2[y] # NULL PROVE Filled(h2, bs2[y], y, ss2[y])
  <2>1. CASE y = x
    BY <1>2, <1>5, <2>1
  <2>2. CASE y # x
    BY <1>3, <1>5, <1>6, <2>2 DEF AllFilled
  <2> QED BY <2>1, <2>2
<1> QED BY <1>1, <1>6 DEF AllFilled

-----------------------------------------------------------------------------
(* Two heaps with the same table, and the driver's arrays. *)
Paired(h, k, g, bs, ss) == OK(h, g) /\ OK(k, g) /\ Full(g) /\ LiveAt(g, bs, ss)

(* What the driver gets back: a block that no index stands for, or none.   *)
Given(g2, bs, size, p) ==
  p = NULL \/ \E d \in Used(g2) : p = 8 * d /\ Within(bs, Used(g2) \ {d}) /\ Holds(g2, d, size)

Provided(h, g, bs, ss, size, hm, km) ==
  /\ hm.p = km.p
  /\ \E g2 : /\ Paired(hm.h, km.h, g2, bs, ss) /\ g2.hi >= g.hi /\ Given(g2, bs, size, hm.p)
             /\ AllFilled(h, bs, ss) => AllFilled(hm.h, bs, ss)

(* A new block is a payload that overlaps no live one. *)
LEMMA GivenIs ==
  ASSUME NEW h, NEW g2, OK(h, g2), NEW bs, NEW S, S \subseteq Used(g2), Within(bs, S), NEW d \in Used(g2), d \notin S,
         NEW size \in Nat, size >= 1, 8 * (g2.sz[d] - 1) >= size
  PROVE  Given(g2, bs, size, 8 * d)
<1>1. Within(bs, Used(g2) \ {d})
  BY DEF Within
<1>2. g2.sz[d] \in Nat
  BY UsedIs
<1>3. Holds(g2, d, size)
  BY <1>2 DEF Holds
<1> QED BY <1>1, <1>3 DEF Given

(* mm_malloc, as the driver sees it. *)
LEMMA MallocProvides ==
  ASSUME NEW h, NEW k, NEW g, NEW bs, NEW ss, Paired(h, k, g, bs, ss), NEW size \in Nat, size >= 1
  PROVE  Provided(h, g, bs, ss, size, mm_malloc(h, size), mm_malloc(k, size))
<1>0. OK(h, g) /\ OK(k, g) /\ Full(g) /\ LiveAt(g, bs, ss)
  BY DEF Paired
<1>h. PICK hm : hm = mm_malloc(h, size)
  OBVIOUS
<1>k. PICK km : km = mm_malloc(k, size)
  OBVIOUS
<1>1. Mallocs(h, k, g, size, hm, km)
  BY <1>0, <1>h, <1>k, MmMalloc
<1>2. PICK g2 : /\ Comes(h, g, hm.h, km.h, g2, Used(g)) /\ hm.p = km.p /\ g2.hi >= g.hi
                /\ \/ hm.p = NULL
                   \/ \E d : hm.p = 8 * d /\ d \in Used(g2) /\ d \notin Used(g) /\ 8 * (g2.sz[d] - 1) >= size
  BY <1>1 DEF Mallocs
<1>3. OK(hm.h, g2) /\ OK(km.h, g2) /\ Full(g2) /\ Keeps(h, g, hm.h, g2, Used(g))
  BY <1>2 DEF Comes
<1>4. Within(bs, Used(g)) /\ Used(g) \subseteq Used(g2)
  BY <1>0, <1>3, WithinUsed, KeepsUsed
<1>5. LiveAt(g2, bs, ss)
  BY <1>0, <1>3, <1>4, LiveKeeps
<1>6. AllFilled(h, bs, ss) => AllFilled(hm.h, bs, ss)
  BY <1>0, <1>3, <1>4, FilledKeeps
<1>7. Given(g2, bs, size, hm.p)
  <2>1. CASE hm.p = NULL
    BY <2>1 DEF Given
  <2>2. CASE hm.p # NULL
    <3>1. PICK d : hm.p = 8 * d /\ d \in Used(g2) /\ d \notin Used(g) /\ 8 * (g2.sz[d] - 1) >= size
      BY <1>2, <2>2
    <3> QED BY <1>3, <1>4, <3>1, GivenIs
  <2> QED BY <2>1, <2>2
<1>8. Paired(hm.h, km.h, g2, bs, ss)
  BY <1>3, <1>5 DEF Paired
<1> QED BY <1>2, <1>6, <1>7, <1>8, <1>h, <1>k DEF Provided

(* bs1 is bs without the index x. *)
Without(bs, x, bs1) == bs1 = [bs EXCEPT ![x] = NULL]

(* The copied part of a payload. *)
Copied(h, bs, ss, x, size, hm) ==
  AllFilled(h, bs, ss) /\ hm.p # NULL => Filled(hm.h, hm.p, x, IF size < ss[x] THEN size ELSE ss[x])

(* mm_realloc, as the driver sees it: the block, and the old data. *)
LEMMA ReallocProvides ==
  ASSUME NEW h, NEW k, NEW g, NEW bs, NEW ss, Paired(h, k, g, bs, ss), NEW size \in Nat, size >= 1,
         NEW x \in Indices, bs[x] # NULL, NEW bs1, Without(bs, x, bs1)
  PROVE  /\ Provided(h, g, bs1, ss, size, mm_realloc(h, bs[x], size), mm_realloc(k, bs[x], size))
         /\ Copied(h, bs, ss, x, size, mm_realloc(h, bs[x], size))
<1>0. OK(h, g) /\ OK(k, g) /\ Full(g) /\ LiveAt(g, bs, ss)
  BY DEF Paired
<1>b. PICK b \in Used(g) : bs[x] = 8 * b /\ Holds(g, b, ss[x])
  BY <1>0 DEF LiveAt
<1>h. PICK hm : hm = mm_realloc(h, 8 * b, size)
  OBVIOUS
<1>k. PICK km : km = mm_realloc(k, 8 * b, size)
  OBVIOUS
<1>1. Reallocs(h, g, b, size, hm, km)
  BY <1>0, <1>h, <1>k, MmRealloc
<1>2. PICK g2 : /\ Comes(h, g, hm.h, km.h, g2, Used(g) \ {b}) /\ hm.p = km.p /\ g2.hi >= g.hi
                /\ hm.p = NULL \/ \E d : Reallocated_(h, g, b, size, hm, g2, d)
  BY <1>1 DEF Reallocs
<1>3. OK(hm.h, g2) /\ OK(km.h, g2) /\ Full(g2) /\ Keeps(h, g, hm.h, g2, Used(g) \ {b})
  BY <1>2 DEF Comes
<1>4. /\ LiveAt(g, bs1, ss) /\ Within(bs1, Used(g) \ {b})
      /\ \A q : AllFilled(q, bs, ss) => AllFilled(q, bs1, ss)
  <2>1. 8 * b # NULL
    BY <1>b
  <2>2. bs1 = [bs EXCEPT ![x] = NULL]
    BY DEF Without
  <2> QED BY <1>0, <1>b, <2>1, <2>2, DropIs
<1>5. Used(g) \ {b} \subseteq Used(g2)
  BY <1>3, KeepsUsed
<1>6. LiveAt(g2, bs1, ss)
  BY <1>0, <1>3, <1>4, LiveKeeps
<1>7. AllFilled(h, bs1, ss) => AllFilled(hm.h, bs1, ss)
  BY <1>0, <1>3, <1>4, FilledKeeps
<1>8. ASSUME hm.p # NULL
      PROVE  Given(g2, bs1, size, hm.p) /\ Copied(h, bs, ss, x, size, hm)
  <2>1. PICK d : Reallocated_(h, g, b, size, hm, g2, d)
    BY <1>2, <1>8
  <2>2. hm.p = 8 * d /\ d \in Used(g2) /\ d \notin Used(g) \ {b} /\ 8 * (g2.sz[d] - 1) >= size
    BY <2>1 DEF Reallocated_
  <2>3. Given(g2, bs1, size, hm.p)
    <3>1. PICK S : S = Used(g) \ {b}
      OBVIOUS
    <3>2. Given(g2, bs1, size, 8 * d)
      BY <1>3, <1>4, <1>5, <2>2, <3>1, GivenIs
    <3> QED BY <2>2, <3>2
  <2>4. ASSUME AllFilled(h, bs, ss)
        PROVE  Filled(hm.h, hm.p, x, IF size < ss[x] THEN size ELSE ss[x])
    <3>1. PICK old \in Nat : old = ss[x] /\ Holds(g, b, old) /\ old >= 1
      BY <1>b DEF Holds
    <3>2. Filled(h, 8 * b, x, old)
      BY <1>b, <2>4, <3>1 DEF AllFilled
    <3>3. PICK n \in Nat : n = (IF size < old THEN size ELSE old) /\ n >= 1 /\ n <= old /\ n <= size
      BY <3>1
    <3>4. Filled(hm.h, 8 * d, x, n)
      BY <1>0, <1>3, <2>1, <3>1, <3>2, <3>3, FilledOver
    <3> QED BY <2>2, <3>1, <3>3, <3>4
  <2> QED BY <2>3, <2>4 DEF Copied
<1>9. Given(g2, bs1, size, hm.p) /\ Copied(h, bs, ss, x, size, hm)
  <2>1. CASE hm.p = NULL
    BY <2>1 DEF Given, Copied
  <2>2. CASE hm.p # NULL
    BY <1>8, <2>2
  <2> QED BY <2>1, <2>2
<1>10. Paired(hm.h, km.h, g2, bs1, ss)
  BY <1>3, <1>6 DEF Paired
<1>11. Provided(h, g, bs1, ss, size, hm, km)
  BY <1>2, <1>7, <1>9, <1>10 DEF Provided
<1> QED BY <1>9, <1>11, <1>b, <1>h, <1>k

(* A block is freed. *)
Freed(h, g, bs, ss, h2, k2) ==
  \E g2 : /\ Paired(h2, k2, g2, bs, ss) /\ g2.hi = g.hi
          /\ AllFilled(h, bs, ss) => AllFilled(h2, bs, ss)

(* mm_free, as the driver sees it. *)
LEMMA FreeProvides ==
  ASSUME NEW h, NEW k, NEW g, NEW bs, NEW ss, Paired(h, k, g, bs, ss),
         NEW x \in Indices, bs[x] # NULL, NEW bs1, Without(bs, x, bs1)
  PROVE  Freed(h, g, bs1, ss, mm_free(h, bs[x]), mm_free(k, bs[x]))
<1>0. OK(h, g) /\ OK(k, g) /\ Full(g) /\ LiveAt(g, bs, ss)
  BY DEF Paired
<1>b. PICK b \in Used(g) : bs[x] = 8 * b /\ Holds(g, b, ss[x])
  BY <1>0 DEF LiveAt
<1>1. Freeing(h, k, g, b)
  BY <1>0, MmFree
<1>h. PICK h2 : h2 = mm_free(h, 8 * b)
  OBVIOUS
<1>k. PICK k2 : k2 = mm_free(k, 8 * b)
  OBVIOUS
<1>2. PICK g2 : Comes(h, g, h2, k2, g2, Used(g) \ {b}) /\ g2.hi = g.hi
  BY <1>1, <1>h, <1>k DEF Freeing
<1>3. OK(h2, g2) /\ OK(k2, g2) /\ Full(g2) /\ Keeps(h, g, h2, g2, Used(g) \ {b})
  BY <1>2 DEF Comes
<1>4. LiveAt(g, bs1, ss) /\ Within(bs1, Used(g) \ {b})
  <2>1. 8 * b # NULL
    BY <1>b
  <2>2. bs1 = [bs EXCEPT ![x] = NULL]
    BY DEF Without
  <2> QED BY <1>0, <1>b, <2>1, <2>2, DropIs
<1>5. LiveAt(g2, bs1, ss)
  BY <1>0, <1>3, <1>4, LiveKeeps
<1>6. AllFilled(h, bs1, ss) => AllFilled(h2, bs1, ss)
  BY <1>0, <1>3, <1>4, FilledKeeps
<1> QED BY <1>2, <1>3, <1>5, <1>6, <1>b, <1>h, <1>k DEF Freed, Paired

-----------------------------------------------------------------------------
(* The bytes of all payloads. *)
Bytes(bs, ss) == {y \in Nat : \E x \in Indices : bs[x] # NULL /\ bs[x] <= y /\ y < bs[x] + ss[x]}

(* The live bytes are not more than the heap has. *)
LEMMA BytesIn ==
  ASSUME NEW h, NEW g, OK(h, g), NEW bs, NEW ss, LiveAt(g, bs, ss)
  PROVE  /\ IsFiniteSet(Bytes(bs, ss)) /\ Cardinality(Bytes(bs, ss)) \in Nat
         /\ Cardinality(Bytes(bs, ss)) <= 8 * g.hi
<1>1. PICK n \in Nat : n = g.hi
  BY Fields DEF OK
<1>2. ASSUME NEW y \in Bytes(bs, ss) PROVE y \in 1 .. (8 * n)
  <2>1. PICK x \in Indices : y \in Nat /\ bs[x] # NULL /\ bs[x] <= y /\ y < bs[x] + ss[x]
    BY DEF Bytes
  <2>2. PICK b \in Used(g) : bs[x] = 8 * b /\ Holds(g, b, ss[x])
    BY <2>1 DEF LiveAt
  <2>3. PICK t \in Nat : t = g.sz[b] /\ t >= 2
    BY <2>2, UsedIs
  <2>4. b \in Nat /\ b >= 3 /\ b + t <= n
    BY <1>1, <2>2, <2>3, UsedIs
  <2>5. PICK s \in Nat : s = ss[x] /\ s <= 8 * (t - 1)
    BY <2>2, <2>3 DEF Holds
  <2>6. y < 8 * (b + t)
    BY <2>1, <2>2, <2>3, <2>4, <2>5
  <2> QED BY <1>1, <2>1, <2>2, <2>3, <2>4, <2>6
<1>3. IsFiniteSet(1 .. (8 * n)) /\ Cardinality(1 .. (8 * n)) = 8 * n
  <2>1. PICK m \in Nat : m = 8 * n
    OBVIOUS
  <2>2. IsFiniteSet(1 .. m) /\ Cardinality(1 .. m) = m
    BY FS_Interval
  <2> QED BY <2>1, <2>2
<1>4. Bytes(bs, ss) \subseteq 1 .. (8 * n)
  BY <1>2
<1>5. IsFiniteSet(Bytes(bs, ss)) /\ Cardinality(Bytes(bs, ss)) <= Cardinality(1 .. (8 * n))
  BY <1>3, <1>4, FS_Subset
<1> QED BY <1>1, <1>3, <1>5, FS_CardinalityType

(* An index counts as much as its payload is long. *)
LEMMA BytesWithout ==
  ASSUME NEW h, NEW g, OK(h, g), NEW bs, NEW ss, LiveAt(g, bs, ss), NEW x \in Indices, bs[x] # NULL,
         NEW bs1, Without(bs, x, bs1)
  PROVE  Cardinality(Bytes(bs, ss)) = Cardinality(Bytes(bs1, ss)) + ss[x]
<1>b. PICK b \in Used(g) : bs[x] = 8 * b /\ Holds(g, b, ss[x])
  BY DEF LiveAt
<1>t. PICK t \in Nat : t = g.sz[b] /\ t >= 2
  BY UsedIs
<1>s. PICK s \in Nat : s = ss[x] /\ s >= 1 /\ s <= 8 * (t - 1)
  BY <1>b, <1>t DEF Holds
<1>0. b \in Nat /\ b >= 3 /\ b \in g.B /\ Tiled(g)
  BY UsedIs
<1>1. LiveAt(g, bs1, ss) /\ Within(bs1, Used(g) \ {b})
  <2>1. 8 * b # NULL /\ bs1 = [bs EXCEPT ![x] = NULL]
    BY <1>b DEF Without
  <2> QED BY <1>b, <2>1, DropIs
<1>2. bs1[x] = NULL /\ \A y \in Indices : y # x => bs1[y] = bs[y]
  BY DEF Without, LiveAt
<1>3. PICK I : I = (8 * b) .. (8 * b + s - 1)
  OBVIOUS
<1>4. IsFiniteSet(I) /\ Cardinality(I) = s
  <2>1. PICK u \in Int, v \in Int : u = 8 * b /\ v = 8 * b + s - 1
    BY <1>0
  <2>2. IsFiniteSet(u .. v) /\ Cardinality(u .. v) = IF u > v THEN 0 ELSE v - u + 1
    BY FS_Interval
  <2> QED BY <1>0, <1>s, <1>3, <2>1, <2>2
<1>5. ASSUME NEW w \in Bytes(bs, ss) PROVE w \in Bytes(bs1, ss) \cup I
  <2>1. PICK y \in Indices : w \in Nat /\ bs[y] # NULL /\ bs[y] <= w /\ w < bs[y] + ss[y]
    BY DEF Bytes
  <2>2. CASE y = x
    BY <1>0, <1>b, <1>s, <1>3, <2>1, <2>2
  <2>3. CASE y # x
    BY <1>2, <2>1, <2>3 DEF Bytes
  <2> QED BY <2>2, <2>3
<1>6. ASSUME NEW w \in Bytes(bs1, ss) PROVE w \in Bytes(bs, ss) /\ w \notin I
  <2>1. PICK y \in Indices : w \in Nat /\ bs1[y] # NULL /\ bs1[y] <= w /\ w < bs1[y] + ss[y]
    BY DEF Bytes
  <2>2. y # x /\ bs1[y] = bs[y]
    BY <1>2, <2>1
  <2>3. PICK c \in Used(g) \ {b} : bs1[y] = 8 * c
    BY <1>1, <2>1 DEF Within
  <2>4. PICK a \in Used(g) : bs1[y] = 8 * a /\ Holds(g, a, ss[y])
    BY <1>1, <2>1 DEF LiveAt
  <2>5. c \in Nat /\ a \in Nat /\ c \in g.B
    BY <2>3, <2>4, UsedIs
  <2>6. a = c
    BY <2>3, <2>4, <2>5
  <2>7. PICK u \in Nat : u = g.sz[c] /\ u >= 2
    BY <2>3, UsedIs
  <2>8. PICK n \in Nat : n = ss[y] /\ n >= 1 /\ n <= 8 * (u - 1)
    BY <2>4, <2>6, <2>7 DEF Holds
  <2>9. (c < b => c + u <= b) /\ (b < c => b + t <= c)
    BY <1>0, <1>t, <2>5, <2>7 DEF Tiled
  <2>10. c < b \/ b < c
    BY <1>0, <2>3, <2>5
  <2>11. w < 8 * b \/ w > 8 * b + s - 1
    BY <1>0, <1>s, <1>t, <2>1, <2>3, <2>5, <2>7, <2>8, <2>9, <2>10
  <2>12. w \notin I
    BY <1>0, <1>s, <1>3, <2>1, <2>11
  <2> QED BY <2>1, <2>2, <2>12 DEF Bytes
<1>7. ASSUME NEW w \in I PROVE w \in Bytes(bs, ss)
  BY <1>0, <1>b, <1>s, <1>3 DEF Bytes
<1>8. Bytes(bs, ss) = Bytes(bs1, ss) \cup I /\ Bytes(bs1, ss) \cap I = {}
  BY <1>5, <1>6, <1>7
<1>9. IsFiniteSet(Bytes(bs1, ss)) /\ Cardinality(Bytes(bs1, ss)) \in Nat
  BY <1>1, BytesIn
<1>10. Cardinality(Bytes(bs1, ss) \cup I) = Cardinality(Bytes(bs1, ss)) + Cardinality(I) - Cardinality(Bytes(bs1, ss) \cap I)
  BY <1>4, <1>9, FS_Union
<1>11. Cardinality({}) = 0
  BY FS_EmptySet
<1>12. PICK n \in Nat : n = Cardinality(Bytes(bs1, ss))
  BY <1>9
<1>13. Cardinality(Bytes(bs, ss)) = n + s - 0
  BY <1>4, <1>8, <1>10, <1>11, <1>12
<1> QED BY <1>s, <1>12, <1>13

Longer(bs, ss, bs2, ss2, size) == Cardinality(Bytes(bs2, ss2)) = Cardinality(Bytes(bs, ss)) + size

(* A block of size bytes adds as many. *)
LEMMA BytesPut ==
  ASSUME NEW h, NEW g, OK(h, g), NEW bs, NEW ss, NEW bs2, NEW ss2, NEW x \in Indices, NEW p, p # NULL, NEW size,
         LiveAt(g, bs, ss), LiveAt(g, bs2, ss2), bs[x] = NULL, Put(bs, ss, x, p, size, bs2, ss2)
  PROVE  Longer(bs, ss, bs2, ss2, size)
<1>1. /\ bs \in [Indices -> Int] /\ ss \in [Indices -> Nat]
      /\ bs2 = [bs EXCEPT ![x] = p] /\ ss2 = [ss EXCEPT ![x] = size]
  BY DEF LiveAt, Put
<1>2. Without(bs2, x, bs)
  BY <1>1 DEF Without
<1>3. bs2[x] = p /\ ss2[x] = size /\ \A y \in Indices : y # x => bs2[y] = bs[y] /\ ss2[y] = ss[y]
  BY <1>1
<1>4. Cardinality(Bytes(bs2, ss2)) = Cardinality(Bytes(bs, ss2)) + ss2[x]
  BY <1>2, <1>3, BytesWithout
<1>5. Bytes(bs, ss2) = Bytes(bs, ss)
  BY <1>3 DEF Bytes
<1> QED BY <1>3, <1>4, <1>5 DEF Longer

-----------------------------------------------------------------------------
(* A pass over the requests os, on memory m and with arrays b0 and s0.     *)
Begun(m, b0, s0) ==
  [h |-> mm_init([mem |-> m, brk |-> 0]).h, failed |-> mm_init([mem |-> m, brk |-> 0]).p = FAIL,
   blocks |-> b0, sizes |-> s0, total |-> 0, max |-> 0]

Replays(m, b0, s0, os, r) ==
  \E f : /\ f[0] = Begun(m, b0, s0) /\ r = f[Len(os)]
         /\ \A n \in 1 .. Len(os) : f[n] = Replayed(f[n - 1], os[n])

(* The empty trace. *)
LEMMA ReplaysNone ==
  ASSUME NEW m, NEW b0, NEW s0, NEW r, Replays(m, b0, s0, <<>>, r)
  PROVE  r = Begun(m, b0, s0)
  BY DEF Replays

(* One operation more. *)
LEMMA ReplaysMore ==
  ASSUME NEW S, NEW os \in Seq(S), NEW o \in S, NEW m, NEW b0, NEW s0, NEW r, Replays(m, b0, s0, Append(os, o), r)
  PROVE  \E q : Replays(m, b0, s0, os, q) /\ r = Replayed(q, o)
<1>1. PICK f : /\ f[0] = Begun(m, b0, s0) /\ r = f[Len(Append(os, o))]
               /\ \A n \in 1 .. Len(Append(os, o)) : f[n] = Replayed(f[n - 1], Append(os, o)[n])
  BY DEF Replays
<1>2. PICK c \in Nat : c = Len(os)
  OBVIOUS
<1>3. Len(Append(os, o)) = c + 1 /\ Append(os, o)[c + 1] = o /\ \A n \in 1 .. c : Append(os, o)[n] = os[n]
  BY <1>2
<1>4. \A n \in 1 .. c : n \in 1 .. (c + 1)
  OBVIOUS
<1>5. \A n \in 1 .. c : f[n] = Replayed(f[n - 1], os[n])
  BY <1>1, <1>3, <1>4
<1>6. Replays(m, b0, s0, os, f[c])
  BY <1>1, <1>2, <1>5 DEF Replays
<1>7. c + 1 \in 1 .. (c + 1) /\ (c + 1) - 1 = c
  OBVIOUS
<1>8. f[c + 1] = Replayed(f[c], o)
  BY <1>1, <1>3, <1>7
<1>9. r = f[c + 1]
  BY <1>1, <1>3
<1> QED BY <1>6, <1>8, <1>9

-----------------------------------------------------------------------------
(* Pass is such a pass. *)
PassStep(start, f, n) == IF n = 0 THEN start ELSE Replayed(f[n - 1], ops[n])

(* The function of a pass exists for every trace. *)
LEMMA PassExists ==
  ASSUME NEW start, NEW n \in Nat
  PROVE  \E f : f = [i \in 0 .. n |-> PassStep(start, f, i)]
<1> DEFINE Bad == {k \in Nat : ~\E f : f = [i \in 0 .. k |-> PassStep(start, f, i)]}
<1>1. ASSUME Bad # {} PROVE FALSE
  <2>1. PICK k \in Bad : \A y \in Bad : k <= y
    <3> HIDE DEF Bad
    <3>1. Bad \subseteq Nat
      BY DEF Bad
    <3> QED BY <1>1, <3>1, LeastNat
  <2>2. k # 0
    <3> SUFFICES ASSUME k = 0 PROVE FALSE
      OBVIOUS
    <3> DEFINE f == [i \in 0 .. 0 |-> start]
    <3>1. f = [i \in 0 .. 0 |-> PassStep(start, f, i)]
      BY DEF PassStep
    <3> QED BY <2>1, <3>1
  <2>3. k \in Nat /\ k - 1 \in Nat /\ k - 1 \notin Bad
    BY <2>1, <2>2
  <2>4. PICK q : q = [i \in 0 .. (k - 1) |-> PassStep(start, q, i)]
    BY <2>3
  <2> DEFINE r == [i \in 0 .. k |-> IF i = k THEN PassStep(start, q, k) ELSE q[i]]
  <2>5. \A i \in 0 .. k : r[i] = PassStep(start, r, i)
    <3> SUFFICES ASSUME NEW i \in 0 .. k PROVE r[i] = PassStep(start, r, i)
      OBVIOUS
    <3>1. i # 0 => r[i - 1] = q[i - 1]
      BY <2>3
    <3>2. PassStep(start, r, i) = PassStep(start, q, i)
      BY <3>1 DEF PassStep
    <3>3. CASE i = k
      BY <3>2, <3>3
    <3>4. CASE i # k
      <4>1. i \in 0 .. (k - 1)
        BY <2>3, <3>4
      <4>2. q[i] = PassStep(start, q, i)
        BY <2>4, <4>1
      <4> QED BY <3>2, <3>4, <4>2
    <3> QED BY <3>3, <3>4
  <2>6. r = [i \in 0 .. k |-> PassStep(start, r, i)]
    <3> DEFINE e == [i \in 0 .. k |-> PassStep(start, r, i)]
    <3>1. e = [i \in 0 .. k |-> r[i]]
      BY <2>5
    <3> QED BY <3>1
  <2> QED BY <2>1, <2>6
<1> QED BY <1>1

(* The pass of the model is the replay, operation by operation. *)
LEMMA PassReplays ==
  ASSUME NEW brk, Heap(heap, brk), Len(ops) \in Nat
  PROVE  Replays(heap.mem, blocks, block_sizes, ops, Pass)
<1>1. mem_reset_brk(heap) = [mem |-> heap.mem, brk |-> 0]
  BY DEF Heap, mem_reset_brk
<1>2. PICK start : start = Restarted(mm_init(mem_reset_brk(heap)))
  OBVIOUS
<1>3. start = Begun(heap.mem, blocks, block_sizes)
  BY <1>1, <1>2 DEF Restarted, Begun
<1>4. PICK c \in Nat : c = Len(ops)
  OBVIOUS
<1> DEFINE f == CHOOSE after : after = [n \in 0 .. Len(ops) |->
                  IF n = 0 THEN Restarted(mm_init(mem_reset_brk(heap))) ELSE Replayed(after[n - 1], ops[n])]
<1>5. Pass = f[Len(ops)]
  BY DEF Pass
<1>6. \E q : q = [n \in 0 .. c |-> PassStep(start, q, n)]
  BY PassExists
<1>7. f = [n \in 0 .. c |-> PassStep(start, f, n)]
  BY <1>2, <1>4, <1>6 DEF PassStep
<1> HIDE DEF f
<1>8. f[0] = start
  BY <1>7 DEF PassStep
<1>9. ASSUME NEW n \in 1 .. c PROVE f[n] = Replayed(f[n - 1], ops[n])
  <2>1. n \in 0 .. c /\ n # 0
    BY <1>4
  <2>2. f[n] = PassStep(start, f, n)
    BY <1>7, <2>1
  <2> QED BY <2>1, <2>2 DEF PassStep
<1> QED BY <1>3, <1>4, <1>5, <1>8, <1>9 DEF Replays

-----------------------------------------------------------------------------
(* The state of a pass. *)
PassRecord(r) ==
  /\ r = [h |-> r.h, failed |-> r.failed, blocks |-> r.blocks, sizes |-> r.sizes, total |-> r.total, max |-> r.max]
  /\ r.blocks \in [Indices -> Int] /\ r.sizes \in [Indices -> Nat] /\ r.total \in Int /\ r.max \in Int

(* What a request adds to the size of all payloads. *)
Added(r, op) == op.size - (IF op.type = "alloc" THEN 0 ELSE r.sizes[op.index])

Gets(r, x, size, add, m, q) ==
  /\ PassRecord(q) /\ q.h = m.h /\ q.failed = r.failed
  /\ q.blocks = [r.blocks EXCEPT ![x] = m.p] /\ q.sizes = [r.sizes EXCEPT ![x] = size]
  /\ q.total = r.total + add /\ q.max = IF r.total + add > r.max THEN r.total + add ELSE r.max

(* The fields of a pass after a block was returned. *)
LEMMA GotIs ==
  ASSUME NEW r, PassRecord(r), NEW op, NEW x \in Indices, op.index = x, NEW size \in Nat, op.size = size,
         NEW add \in Int, Added(r, op) = add, NEW m, m.p # NULL, m.p \in Int
  PROVE  Gets(r, x, size, add, m, Got(r, op, m))
<1>1. PICK q : q = Got(r, op, m)
  OBVIOUS
<1>2. PICK p \in Int : p = m.p /\ p # NULL
  OBVIOUS
<1>3. PICK c : c = Counted(r, add)
  OBVIOUS
<1>4. PICK t \in Int : t = r.total + add
  BY DEF PassRecord
<1>5. PICK u \in Int : u = IF t > r.max THEN t ELSE r.max
  BY DEF PassRecord
<1>6. c = [h |-> r.h, failed |-> r.failed, blocks |-> r.blocks, sizes |-> r.sizes, total |-> t, max |-> u]
  BY <1>3, <1>4, <1>5 DEF Counted, PassRecord
<1>7. q = [c EXCEPT !.h = m.h, !.blocks[x] = p, !.sizes[x] = size]
  BY <1>1, <1>2, <1>3 DEF Got, Added
<1>8. q = [h |-> m.h, failed |-> r.failed, blocks |-> [r.blocks EXCEPT ![x] = p],
           sizes |-> [r.sizes EXCEPT ![x] = size], total |-> t, max |-> u]
  BY <1>6, <1>7
<1>9. [r.blocks EXCEPT ![x] = p] \in [Indices -> Int] /\ [r.sizes EXCEPT ![x] = size] \in [Indices -> Nat]
  BY DEF PassRecord
<1>10. PassRecord(q)
  BY <1>8, <1>9 DEF PassRecord
<1> QED BY <1>1, <1>2, <1>4, <1>5, <1>8, <1>10 DEF Gets

Drops(r, x, q) ==
  /\ PassRecord(q) /\ q.h = mm_free(r.h, r.blocks[x]) /\ q.failed = r.failed
  /\ q.blocks = [r.blocks EXCEPT ![x] = NULL] /\ q.sizes = r.sizes
  /\ q.total = r.total - r.sizes[x] /\ q.max = r.max

(* The fields of a pass after a block was freed. *)
LEMMA DroppedIs ==
  ASSUME NEW r, PassRecord(r), NEW x \in Indices
  PROVE  Drops(r, x, Dropped(r, x))
<1>1. PICK q : q = Dropped(r, x)
  OBVIOUS
<1>2. PICK n \in Int : n = NULL
  BY DEF NULL
<1>3. q = [h |-> mm_free(r.h, r.blocks[x]), failed |-> r.failed, blocks |-> [r.blocks EXCEPT ![x] = n],
           sizes |-> r.sizes, total |-> r.total - r.sizes[x], max |-> r.max]
  BY <1>1, <1>2 DEF Dropped, PassRecord
<1>4. [r.blocks EXCEPT ![x] = n] \in [Indices -> Int] /\ r.total - r.sizes[x] \in Int
  BY DEF PassRecord
<1>5. PassRecord(q)
  BY <1>3, <1>4 DEF PassRecord
<1> QED BY <1>1, <1>2, <1>3, <1>5 DEF Drops

-----------------------------------------------------------------------------
(* An index has in the pass what it has in the trace, or what it had       *)
(* before the pass if the trace has not used it yet.                       *)
MatchAt(y, bs, ss, b0, s0, r) ==
  \/ r.blocks[y] = bs[y] /\ r.sizes[y] = ss[y]
  \/ bs[y] = NULL /\ ss[y] = 0 /\ r.blocks[y] = b0[y] /\ r.sizes[y] = s0[y]

Counts(g, bs, ss, r) ==
  r.total = Cardinality(Bytes(bs, ss)) /\ r.max \in Nat /\ r.max <= 8 * g.hi

(* The trace and a pass over it have come to heaps with the same table. *)
Twin(h, bs, ss, b0, s0, r) ==
  /\ PassRecord(r) /\ r.failed = FALSE
  /\ \A y \in Indices : MatchAt(y, bs, ss, b0, s0, r)
  /\ \E g : Paired(h, r.h, g, bs, ss) /\ Counts(g, bs, ss, r)

(* If the answers of the allocator are the same in both heaps, the pass    *)
(* and the first run agree afterwards.                                     *)
LEMMA TwinPut ==
  ASSUME NEW h, NEW g, g.hi \in Nat, NEW bs, NEW ss, NEW b0, NEW s0, NEW r, PassRecord(r), r.failed = FALSE,
         NEW x \in Indices, bs[x] = NULL, \A y \in Indices : y # x => MatchAt(y, bs, ss, b0, s0, r),
         r.max \in Nat, r.max <= 8 * g.hi, NEW size \in Nat,
         NEW hm, NEW km, Provided(h, g, bs, ss, size, hm, km), hm.p # NULL,
         NEW op, op.index = x, op.size = size, NEW add \in Int, Added(r, op) = add,
         r.total + add = Cardinality(Bytes(bs, ss)) + size,
         NEW bs2, NEW ss2, Put(bs, ss, x, hm.p, size, bs2, ss2)
  PROVE  Twin(memset(hm.h, hm.p, x, size), bs2, ss2, b0, s0, Got(r, op, km))
<1>1. PICK g2 : Paired(hm.h, km.h, g2, bs, ss) /\ g2.hi >= g.hi /\ Given(g2, bs, size, hm.p) /\ hm.p = km.p
  BY DEF Provided
<1>2. PICK d \in Used(g2) : hm.p = 8 * d /\ Within(bs, Used(g2) \ {d}) /\ Holds(g2, d, size)
  BY <1>1 DEF Given
<1>3. OK(hm.h, g2) /\ OK(km.h, g2) /\ Full(g2) /\ LiveAt(g2, bs, ss)
  BY <1>1 DEF Paired
<1>4. d \in Nat /\ 8 * d # NULL /\ Used(g2) \subseteq Nat /\ g2.hi \in Nat
  <2>1. \A c \in Used(g2) : c \in Nat
    BY <1>3, UsedIs
  <2> QED BY <1>2, <1>3, <2>1, UsedIs
<1>5. Put(bs, ss, x, 8 * d, size, bs2, ss2)
  BY <1>2
<1>6. LiveAt(g2, bs2, ss2)
  BY <1>2, <1>3, <1>4, <1>5, PutIs
<1>7. PICK h2 : h2 = memset(hm.h, 8 * d, x, size)
  OBVIOUS
<1>8. OK(h2, g2)
  BY <1>2, <1>3, <1>7, MemsetIs
<1>9. Paired(h2, km.h, g2, bs2, ss2)
  BY <1>3, <1>6, <1>8 DEF Paired
<1>10. PICK q : q = Got(r, op, km)
  OBVIOUS
<1>11. Gets(r, x, size, add, km, q)
  <2>1. km.p # NULL /\ km.p \in Int
    BY <1>1, <1>2, <1>4
  <2> QED BY <1>10, <2>1, GotIs
<1>12. /\ PassRecord(q) /\ q.h = km.h /\ q.failed = FALSE
       /\ q.blocks = [r.blocks EXCEPT ![x] = km.p] /\ q.sizes = [r.sizes EXCEPT ![x] = size]
       /\ q.total = r.total + add /\ q.max = IF r.total + add > r.max THEN r.total + add ELSE r.max
  BY <1>11 DEF Gets
<1>13. ASSUME NEW y \in Indices PROVE MatchAt(y, bs2, ss2, b0, s0, q)
  <2>1. /\ bs2 = [bs EXCEPT ![x] = hm.p] /\ ss2 = [ss EXCEPT ![x] = size]
        /\ bs \in [Indices -> Int] /\ ss \in [Indices -> Nat]
        /\ r.blocks \in [Indices -> Int] /\ r.sizes \in [Indices -> Nat]
    BY <1>3 DEF Put, LiveAt, PassRecord
  <2>2. CASE y = x
    <3>1. bs2[y] = hm.p /\ ss2[y] = size /\ q.blocks[y] = hm.p /\ q.sizes[y] = size
      BY <1>1, <1>12, <2>1, <2>2
    <3> QED BY <3>1 DEF MatchAt
  <2>3. CASE y # x
    <3>1. bs2[y] = bs[y] /\ ss2[y] = ss[y] /\ q.blocks[y] = r.blocks[y] /\ q.sizes[y] = r.sizes[y]
      BY <1>12, <2>1, <2>3
    <3>2. MatchAt(y, bs, ss, b0, s0, r)
      BY <2>3
    <3> QED BY <3>1, <3>2 DEF MatchAt
  <2> QED BY <2>2, <2>3
<1>14. Counts(g2, bs2, ss2, q)
  <2>1. PICK n \in Nat : n = Cardinality(Bytes(bs2, ss2)) /\ n <= 8 * g2.hi
    BY <1>6, <1>8, BytesIn
  <2>2. n = Cardinality(Bytes(bs, ss)) + size
    <3>1. PICK p : p = 8 * d
      OBVIOUS
    <3>2. p # NULL /\ Put(bs, ss, x, p, size, bs2, ss2)
      BY <1>4, <1>5, <3>1
    <3>3. LiveAt(g2, bs, ss) /\ OK(h2, g2)
      BY <1>3, <1>8
    <3>4. Longer(bs, ss, bs2, ss2, size)
      BY <1>6, <3>2, <3>3, BytesPut
    <3> QED BY <2>1, <3>4 DEF Longer
  <2>3. q.total = n
    BY <1>12, <2>2
  <2>4. q.max \in Nat /\ q.max <= 8 * g2.hi
    <3>1. r.max <= 8 * g2.hi
      BY <1>1, <1>4
    <3> QED BY <1>12, <2>1, <2>2, <3>1
  <2> QED BY <2>1, <2>3, <2>4 DEF Counts
<1>15. Twin(h2, bs2, ss2, b0, s0, q)
  BY <1>9, <1>12, <1>13, <1>14 DEF Twin
<1> QED BY <1>2, <1>7, <1>10, <1>15

-----------------------------------------------------------------------------
(* One request, in the trace and in the pass. *)
LEMMA ReplayedIs ==
  ASSUME NEW r, r.failed = FALSE, NEW x, NEW size
  PROVE  /\ Replayed(r, Op("alloc", x, size)) = Got(r, Op("alloc", x, size), mm_malloc(r.h, size))
         /\ Replayed(r, Op("realloc", x, size)) = Got(r, Op("realloc", x, size), mm_realloc(r.h, r.blocks[x], size))
         /\ Replayed(r, Op("free", x, size)) = Dropped(r, x)
<1>1. ~r.failed
  OBVIOUS
<1>2. ASSUME NEW o, o.type = "alloc" PROVE Replayed(r, o) = Got(r, o, mm_malloc(r.h, o.size))
  BY <1>1, <1>2 DEF Replayed
<1>3. ASSUME NEW o, o.type = "realloc" PROVE Replayed(r, o) = Got(r, o, mm_realloc(r.h, r.blocks[o.index], o.size))
  BY <1>1, <1>3 DEF Replayed
<1>4. ASSUME NEW o, o.type = "free" PROVE Replayed(r, o) = Dropped(r, o.index)
  BY <1>1, <1>4 DEF Replayed
<1>5. ASSUME NEW t PROVE Op(t, x, size).type = t /\ Op(t, x, size).index = x /\ Op(t, x, size).size = size
  BY DEF Op
<1> QED BY <1>2, <1>3, <1>4, <1>5

(* mm_malloc in the first run and in the pass. *)
LEMMA TwinAlloc ==
  ASSUME NEW h, NEW bs, NEW ss, NEW b0, NEW s0, NEW r, Twin(h, bs, ss, b0, s0, r),
         NEW x \in Indices, bs[x] = NULL, NEW size \in Nat, size >= 1,
         NEW hm, hm = mm_malloc(h, size), hm.p # NULL,
         NEW bs2, NEW ss2, Put(bs, ss, x, hm.p, size, bs2, ss2)
  PROVE  Twin(memset(hm.h, hm.p, x, size), bs2, ss2, b0, s0, Replayed(r, Op("alloc", x, size)))
<1>1. PICK g : Paired(h, r.h, g, bs, ss) /\ Counts(g, bs, ss, r)
  BY DEF Twin
<1>2. PassRecord(r) /\ r.failed = FALSE /\ \A y \in Indices : MatchAt(y, bs, ss, b0, s0, r)
  BY DEF Twin
<1>k. PICK km : km = mm_malloc(r.h, size)
  OBVIOUS
<1>3. Provided(h, g, bs, ss, size, hm, km)
  BY <1>1, <1>k, MallocProvides
<1>4. g.hi \in Nat /\ r.max \in Nat /\ r.max <= 8 * g.hi /\ r.total = Cardinality(Bytes(bs, ss))
  BY <1>1, Fields DEF Paired, OK, Counts
<1>5. PICK op : op = Op("alloc", x, size)
  OBVIOUS
<1>6. op.index = x /\ op.size = size /\ Added(r, op) = size
  BY <1>5 DEF Op, Added
<1>7. r.total + size = Cardinality(Bytes(bs, ss)) + size
  BY <1>4
<1>8. size \in Int
  OBVIOUS
<1>9. \A y \in Indices : y # x => MatchAt(y, bs, ss, b0, s0, r)
  BY <1>2
<1>10. Twin(memset(hm.h, hm.p, x, size), bs2, ss2, b0, s0, Got(r, op, km))
  BY <1>2, <1>3, <1>4, <1>6, <1>7, <1>8, <1>9, TwinPut
<1>11. Replayed(r, op) = Got(r, op, km)
  BY <1>2, <1>5, <1>k, ReplayedIs
<1> QED BY <1>5, <1>10, <1>11

(* What the trace has of a live index, the pass has too. *)
LEMMA LiveMatch ==
  ASSUME NEW x, NEW bs, NEW ss, NEW b0, NEW s0, NEW r, MatchAt(x, bs, ss, b0, s0, r), bs[x] # NULL
  PROVE  r.blocks[x] = bs[x] /\ r.sizes[x] = ss[x]
  BY DEF MatchAt

(* Agreement but for the pointer that is let go. *)
LEMMA MatchWithout ==
  ASSUME NEW x \in Indices, NEW bs \in [Indices -> Int], NEW bs1, Without(bs, x, bs1), NEW ss, NEW b0, NEW s0, NEW r,
         \A y \in Indices : MatchAt(y, bs, ss, b0, s0, r)
  PROVE  \A y \in Indices : y # x => MatchAt(y, bs1, ss, b0, s0, r)
<1>1. \A y \in Indices : y # x => bs1[y] = bs[y]
  BY DEF Without
<1> QED BY <1>1 DEF MatchAt

(* mm_realloc in the first run and in the pass. *)
LEMMA TwinRealloc ==
  ASSUME NEW h, NEW bs, NEW ss, NEW b0, NEW s0, NEW r, Twin(h, bs, ss, b0, s0, r),
         NEW x \in Indices, bs[x] # NULL, NEW size \in Nat, size >= 1,
         NEW hm, hm = mm_realloc(h, bs[x], size), hm.p # NULL,
         NEW bs2, NEW ss2, Put(bs, ss, x, hm.p, size, bs2, ss2)
  PROVE  Twin(memset(hm.h, hm.p, x, size), bs2, ss2, b0, s0, Replayed(r, Op("realloc", x, size)))
<1>1. PICK g : Paired(h, r.h, g, bs, ss) /\ Counts(g, bs, ss, r)
  BY DEF Twin
<1>2. PassRecord(r) /\ r.failed = FALSE /\ \A y \in Indices : MatchAt(y, bs, ss, b0, s0, r)
  BY DEF Twin
<1>3. r.blocks[x] = bs[x] /\ r.sizes[x] = ss[x]
  BY <1>2, LiveMatch
<1>k. PICK km : km = mm_realloc(r.h, bs[x], size)
  OBVIOUS
<1>4. PICK bs1 : Without(bs, x, bs1)
  BY DEF Without
<1>5. Provided(h, g, bs1, ss, size, hm, km)
  BY <1>1, <1>4, <1>k, ReallocProvides
<1>6. g.hi \in Nat /\ r.max \in Nat /\ r.max <= 8 * g.hi /\ r.total = Cardinality(Bytes(bs, ss))
  BY <1>1, Fields DEF Paired, OK, Counts
<1>7. bs \in [Indices -> Int] /\ ss \in [Indices -> Nat] /\ OK(h, g) /\ LiveAt(g, bs, ss)
  BY <1>1 DEF Paired, LiveAt
<1>8. bs1[x] = NULL /\ Put(bs1, ss, x, hm.p, size, bs2, ss2)
  BY <1>4, <1>7 DEF Without, Put
<1>9. PICK add \in Int : add = size - ss[x]
  BY <1>7
<1>10. PICK op : op = Op("realloc", x, size)
  OBVIOUS
<1>11. op.index = x /\ op.size = size /\ Added(r, op) = add
  BY <1>3, <1>9, <1>10 DEF Op, Added
<1>12. r.total + add = Cardinality(Bytes(bs1, ss)) + size
  <2>1. Cardinality(Bytes(bs, ss)) = Cardinality(Bytes(bs1, ss)) + ss[x]
    BY <1>4, <1>7, BytesWithout
  <2>2. PICK g2 : Paired(hm.h, km.h, g2, bs1, ss)
    BY <1>5 DEF Provided
  <2>3. Cardinality(Bytes(bs1, ss)) \in Nat
    <3>1. OK(hm.h, g2) /\ LiveAt(g2, bs1, ss)
      BY <2>2 DEF Paired
    <3> QED BY <3>1, BytesIn
  <2> QED BY <1>6, <1>7, <1>9, <2>1, <2>3
<1>13. \A y \in Indices : y # x => MatchAt(y, bs1, ss, b0, s0, r)
  BY <1>2, <1>4, <1>7, MatchWithout
<1>14. Twin(memset(hm.h, hm.p, x, size), bs2, ss2, b0, s0, Got(r, op, km))
  BY <1>2, <1>5, <1>6, <1>8, <1>11, <1>12, <1>13, TwinPut
<1>15. Replayed(r, op) = Got(r, op, km)
  <2>1. Replayed(r, op) = Got(r, op, mm_realloc(r.h, r.blocks[x], size))
    BY <1>2, <1>10, ReplayedIs
  <2> QED BY <1>3, <1>k, <2>1
<1> QED BY <1>10, <1>14, <1>15

(* mm_free in the first run and in the pass. *)
LEMMA TwinFree ==
  ASSUME NEW h, NEW bs, NEW ss, NEW b0, NEW s0, NEW r, Twin(h, bs, ss, b0, s0, r),
         NEW x \in Indices, bs[x] # NULL, NEW bs1, Without(bs, x, bs1), NEW size
  PROVE  Twin(mm_free(h, bs[x]), bs1, ss, b0, s0, Replayed(r, Op("free", x, size)))
<1>1. PICK g : Paired(h, r.h, g, bs, ss) /\ Counts(g, bs, ss, r)
  BY DEF Twin
<1>2. PassRecord(r) /\ r.failed = FALSE /\ \A y \in Indices : MatchAt(y, bs, ss, b0, s0, r)
  BY DEF Twin
<1>3. r.blocks[x] = bs[x] /\ r.sizes[x] = ss[x]
  BY <1>2, LiveMatch
<1>4. PICK q : q = Replayed(r, Op("free", x, size))
  OBVIOUS
<1>5. q = Dropped(r, x)
  BY <1>2, <1>4, ReplayedIs
<1>6. Drops(r, x, q)
  BY <1>2, <1>5, DroppedIs
<1>7. /\ PassRecord(q) /\ q.h = mm_free(r.h, bs[x]) /\ q.failed = FALSE
      /\ q.blocks = [r.blocks EXCEPT ![x] = NULL] /\ q.sizes = r.sizes
      /\ q.total = r.total - ss[x] /\ q.max = r.max
  BY <1>2, <1>3, <1>6 DEF Drops
<1>h. PICK h2 : h2 = mm_free(h, bs[x])
  OBVIOUS
<1>8. Freed(h, g, bs1, ss, h2, q.h)
  BY <1>1, <1>7, <1>h, FreeProvides
<1>9. PICK g2 : Paired(h2, q.h, g2, bs1, ss) /\ g2.hi = g.hi
  BY <1>8 DEF Freed
<1>10. bs \in [Indices -> Int] /\ ss \in [Indices -> Nat] /\ OK(h, g) /\ LiveAt(g, bs, ss)
  BY <1>1 DEF Paired, LiveAt
<1>11. ASSUME NEW y \in Indices PROVE MatchAt(y, bs1, ss, b0, s0, q)
  <2>1. r.blocks \in [Indices -> Int]
    BY <1>2 DEF PassRecord
  <2>2. CASE y = x
    <3>1. bs1[y] = NULL /\ q.blocks[y] = NULL /\ q.sizes[y] = ss[y]
      BY <1>3, <1>7, <1>10, <2>1, <2>2 DEF Without
    <3> QED BY <3>1 DEF MatchAt
  <2>3. CASE y # x
    <3>1. MatchAt(y, bs1, ss, b0, s0, r)
      BY <1>2, <1>10, <2>3, MatchWithout
    <3>2. q.blocks[y] = r.blocks[y] /\ q.sizes[y] = r.sizes[y]
      BY <1>7, <2>1, <2>3
    <3> QED BY <3>1, <3>2 DEF MatchAt
  <2> QED BY <2>2, <2>3
<1>12. Counts(g2, bs1, ss, q)
  <2>1. Cardinality(Bytes(bs, ss)) = Cardinality(Bytes(bs1, ss)) + ss[x]
    BY <1>10, BytesWithout
  <2>2. Cardinality(Bytes(bs1, ss)) \in Nat
    <3>1. OK(h2, g2) /\ LiveAt(g2, bs1, ss)
      BY <1>9 DEF Paired
    <3> QED BY <3>1, BytesIn
  <2>3. q.total = Cardinality(Bytes(bs1, ss))
    <3>1. r.total = Cardinality(Bytes(bs, ss)) /\ ss[x] \in Nat
      BY <1>1, <1>10 DEF Counts
    <3> QED BY <1>7, <2>1, <2>2, <3>1
  <2> QED BY <1>1, <1>7, <1>9, <2>3 DEF Counts
<1>13. Twin(h2, bs1, ss, b0, s0, q)
  BY <1>7, <1>9, <1>11, <1>12 DEF Twin
<1> QED BY <1>4, <1>13, <1>h

-----------------------------------------------------------------------------
(* An index is given up, with its range. *)
LEMMA DropRange ==
  ASSUME NEW h, NEW g, OK(h, g), NEW bs, NEW ss, LiveAt(g, bs, ss), AllFilled(h, bs, ss), NEW x \in Indices, bs[x] # NULL,
         NEW bs1, Without(bs, x, bs1), NEW rs, rs = RangesOf(bs, ss)
  PROVE  AllFilled(h, bs1, ss) /\ RangesOf(bs1, ss) = remove_range(rs, bs[x])
<1>1. PICK b \in Used(g) : bs[x] = 8 * b
  BY DEF LiveAt
<1>2. 8 * b # NULL /\ bs1 = [bs EXCEPT ![x] = NULL]
  BY <1>1 DEF Without
<1>3. RangeLeaves(bs, ss, x, bs1)
  BY <1>1, <1>2, DropIs
<1>4. AllFilled(h, bs1, ss)
  <2>1. bs \in [Indices -> Int]
    BY DEF LiveAt
  <2>2. bs1[x] = NULL /\ \A y \in Indices : y # x => bs1[y] = bs[y]
    BY <1>2, <2>1
  <2> QED BY <2>2 DEF AllFilled
<1>5. RangesOf(bs1, ss) = remove_range(rs, bs[x])
  BY <1>3 DEF RangeLeaves
<1> QED BY <1>4, <1>5

(* The arrays, the data and the ranges of a running trace. *)
Sound(h, bs, ss, rs) ==
  \E g : Paired(h, h, g, bs, ss) /\ AllFilled(h, bs, ss) /\ rs = RangesOf(bs, ss)

Kept(h) == \E g : OK(h, g) /\ Full(g)

Accepts(hm, rs, x, size, bs2, ss2) ==
  /\ add_range(hm.h, rs, hm.p, size)
  /\ Sound(memset(hm.h, hm.p, x, size), bs2, ss2, rs \cup {[lo |-> hm.p, hi |-> hm.p + size - 1]})

(* The checks of eval_mm_valid pass for what the allocator provides:       *)
(* add_range accepts the block, and its bytes can be set.                  *)
LEMMA SoundPut ==
  ASSUME NEW h, NEW g, NEW bs, NEW ss, NEW x \in Indices, bs[x] = NULL, AllFilled(h, bs, ss), NEW size \in Nat,
         NEW hm, NEW km, Provided(h, g, bs, ss, size, hm, km), hm.p # NULL,
         NEW bs2, NEW ss2, Put(bs, ss, x, hm.p, size, bs2, ss2), NEW rs, rs = RangesOf(bs, ss)
  PROVE  Accepts(hm, rs, x, size, bs2, ss2)
<1>1. PICK g2 : /\ Paired(hm.h, km.h, g2, bs, ss) /\ g2.hi >= g.hi /\ Given(g2, bs, size, hm.p) /\ hm.p = km.p
                /\ AllFilled(h, bs, ss) => AllFilled(hm.h, bs, ss)
  BY DEF Provided
<1>2. PICK d \in Used(g2) : hm.p = 8 * d /\ Within(bs, Used(g2) \ {d}) /\ Holds(g2, d, size)
  BY <1>1 DEF Given
<1>3. OK(hm.h, g2) /\ Full(g2) /\ LiveAt(g2, bs, ss) /\ AllFilled(hm.h, bs, ss)
  BY <1>1 DEF Paired
<1>4. d \in Nat /\ 8 * d # NULL /\ Used(g2) \subseteq Nat
  <2>1. \A c \in Used(g2) : c \in Nat
    BY <1>3, UsedIs
  <2> QED BY <1>2, <1>3, <2>1, UsedIs
<1>5. Put(bs, ss, x, 8 * d, size, bs2, ss2)
  BY <1>2
<1>6. LiveAt(g2, bs2, ss2) /\ RangesOf(bs2, ss2) = rs \cup {[lo |-> 8 * d, hi |-> 8 * d + size - 1]}
  BY <1>2, <1>3, <1>4, <1>5, PutIs
<1>7. PICK h2 : h2 = memset(hm.h, 8 * d, x, size)
  OBVIOUS
<1>8. OK(h2, g2)
  BY <1>2, <1>3, <1>7, MemsetIs
<1>9. AllFilled(h2, bs2, ss2)
  <2>1. PICK h1 : h1 = hm.h
    OBVIOUS
  <2> QED BY <1>2, <1>3, <1>5, <1>7, <2>1, FillUp
<1>10. add_range(hm.h, rs, 8 * d, size)
  BY <1>2, <1>3, RangeFits
<1>11. Paired(h2, h2, g2, bs2, ss2)
  BY <1>3, <1>6, <1>8 DEF Paired
<1>12. Sound(h2, bs2, ss2, rs \cup {[lo |-> 8 * d, hi |-> 8 * d + size - 1]})
  BY <1>6, <1>9, <1>11 DEF Sound
<1> QED BY <1>2, <1>7, <1>10, <1>12 DEF Accepts

(* The heap of an answer is in order. *)
LEMMA ProvidedKept ==
  ASSUME NEW h, NEW g, NEW bs, NEW ss, NEW size, NEW hm, NEW km, Provided(h, g, bs, ss, size, hm, km)
  PROVE  Kept(hm.h)
  BY DEF Provided, Paired, Kept

(* An answer of mm_malloc passes eval_mm_valid. *)
LEMMA SoundAlloc ==
  ASSUME NEW h, NEW bs, NEW ss, NEW rs, Sound(h, bs, ss, rs), NEW x \in Indices, bs[x] = NULL, NEW size \in Nat, size >= 1,
         NEW hm, hm = mm_malloc(h, size), NEW bs2, NEW ss2, Put(bs, ss, x, hm.p, size, bs2, ss2)
  PROVE  Kept(hm.h) /\ (hm.p # NULL => Accepts(hm, rs, x, size, bs2, ss2))
<1>1. PICK g : Paired(h, h, g, bs, ss) /\ AllFilled(h, bs, ss) /\ rs = RangesOf(bs, ss)
  BY DEF Sound
<1>2. Provided(h, g, bs, ss, size, hm, hm)
  BY <1>1, MallocProvides
<1> QED BY <1>1, <1>2, ProvidedKept, SoundPut

(* realloc: the old range is gone before the new one is added. *)
LEMMA SoundRealloc ==
  ASSUME NEW h, NEW bs, NEW ss, NEW rs, Sound(h, bs, ss, rs), NEW x \in Indices, bs[x] # NULL, NEW size \in Nat, size >= 1,
         NEW hm, hm = mm_realloc(h, bs[x], size), NEW bs2, NEW ss2, Put(bs, ss, x, hm.p, size, bs2, ss2)
  PROVE  /\ Kept(hm.h)
         /\ hm.p # NULL =>
              /\ Accepts(hm, remove_range(rs, bs[x]), x, size, bs2, ss2)
              /\ Filled(hm.h, hm.p, x, IF size < ss[x] THEN size ELSE ss[x])
<1>1. PICK g : Paired(h, h, g, bs, ss) /\ AllFilled(h, bs, ss) /\ rs = RangesOf(bs, ss)
  BY DEF Sound
<1>2. PICK bs1 : Without(bs, x, bs1)
  BY DEF Without
<1>3. Provided(h, g, bs1, ss, size, hm, hm) /\ Copied(h, bs, ss, x, size, hm)
  BY <1>1, <1>2, ReallocProvides
<1>4. OK(h, g) /\ LiveAt(g, bs, ss) /\ bs \in [Indices -> Int] /\ ss \in [Indices -> Nat]
  BY <1>1 DEF Paired, LiveAt
<1>5. AllFilled(h, bs1, ss) /\ RangesOf(bs1, ss) = remove_range(rs, bs[x])
  BY <1>1, <1>2, <1>4, DropRange
<1>6. bs1[x] = NULL /\ Put(bs1, ss, x, hm.p, size, bs2, ss2)
  BY <1>2, <1>4 DEF Without, Put
<1>7. PICK rs1 : rs1 = remove_range(rs, bs[x])
  OBVIOUS
<1>8. hm.p # NULL => Accepts(hm, rs1, x, size, bs2, ss2)
  BY <1>3, <1>5, <1>6, <1>7, SoundPut
<1>9. hm.p # NULL => Filled(hm.h, hm.p, x, IF size < ss[x] THEN size ELSE ss[x])
  BY <1>1, <1>3 DEF Copied
<1>10. Kept(hm.h)
  BY <1>3, ProvidedKept
<1> QED BY <1>7, <1>8, <1>9, <1>10

(* mm_free leaves what eval_mm_valid relies on. *)
LEMMA SoundFree ==
  ASSUME NEW h, NEW bs, NEW ss, NEW rs, Sound(h, bs, ss, rs), NEW x \in Indices, bs[x] # NULL, NEW bs1, Without(bs, x, bs1)
  PROVE  Kept(mm_free(h, bs[x])) /\ Sound(mm_free(h, bs[x]), bs1, ss, remove_range(rs, bs[x]))
<1>1. PICK g : Paired(h, h, g, bs, ss) /\ AllFilled(h, bs, ss) /\ rs = RangesOf(bs, ss)
  BY DEF Sound
<1>2. PICK h2 : h2 = mm_free(h, bs[x])
  OBVIOUS
<1>3. Freed(h, g, bs1, ss, h2, h2)
  BY <1>1, <1>2, FreeProvides
<1>4. PICK g2 : Paired(h2, h2, g2, bs1, ss) /\ (AllFilled(h, bs1, ss) => AllFilled(h2, bs1, ss))
  BY <1>3 DEF Freed
<1>5. AllFilled(h, bs1, ss) /\ RangesOf(bs1, ss) = remove_range(rs, bs[x])
  <2>1. LiveAt(g, bs, ss) /\ OK(h, g)
    BY <1>1 DEF Paired
  <2> QED BY <1>1, <2>1, DropRange
<1>6. Kept(h2)
  BY <1>4 DEF Paired, Kept
<1>7. Sound(h2, bs1, ss, remove_range(rs, bs[x]))
  BY <1>4, <1>5 DEF Sound
<1> QED BY <1>2, <1>6, <1>7

-----------------------------------------------------------------------------
(* While a trace runs, every pass over the requests so far, on whatever    *)
(* memory and with whatever arrays, comes to a heap with the same table.   *)
(* Once it is complete, every pass succeeds, places the blocks where they  *)
(* are already and ends with the same heap size.                           *)
Twins(h, bs, ss, os) ==
  \A m \in [Words -> Int], b0 \in [Indices -> Int], s0 \in [Indices -> Nat] :
    \A r : Replays(m, b0, s0, os, r) => Twin(h, bs, ss, b0, s0, r)

Repeat(brk, bs, ss, b0, s0, r) ==
  /\ PassRecord(r) /\ r.failed = FALSE /\ r.h.brk = brk /\ Kept(r.h)
  /\ \A y \in Indices : MatchAt(y, bs, ss, b0, s0, r)

Repeats(brk, bs, ss, os) ==
  \A m \in [Words -> Int], b0 \in [Indices -> Int], s0 \in [Indices -> Nat] :
    \A r : Replays(m, b0, s0, os, r) => Repeat(brk, bs, ss, b0, s0, r)

Asked == [type : {"alloc", "realloc", "free"}, index : Indices, size : Nat]

DriverTypes ==
  /\ blocks \in [Indices -> Int] /\ block_sizes \in [Indices -> Nat]
  /\ ops \in Seq(Asked) /\ tracenum \in Nat
  /\ \E brk : Heap(heap, brk)

NoFault ==
  /\ result \notin {"mm_init failed", "bad range", "app_error"}
  /\ result = "data not preserved" => \E x \in Indices : x >= 128

DriverInv ==
  /\ DriverTypes /\ NoFault
  /\ result # "setup" => Started
  /\ Started => Kept(heap)
  /\ result = "run" => Sound(heap, blocks, block_sizes, ranges)
  /\ result \in {"run", "valid"} => Twins(heap, blocks, block_sizes, ops)
  /\ result \in {"util", "speed"} => Repeats(heap.brk, blocks, block_sizes, ops)
  /\ result = "util" => max_total_size <= heap.brk

(* Before the first trace there is nothing to show. *)
LEMMA DriverInit == Init => DriverInv
<1> SUFFICES ASSUME Init PROVE DriverInv
  OBVIOUS
<1>1. PICK junk \in Junk : heap = [mem |-> [w \in 0 .. (MAX_HEAP \div WSIZE - 1) |-> junk], brk |-> 0]
  BY DEF Init
<1>2. junk \in Int
  BY MDriverAssumption
<1>3. Heap(heap, 0)
  BY <1>1, <1>2 DEF Heap, Words
<1>4. /\ blocks = [x \in Indices |-> NULL] /\ block_sizes = [x \in Indices |-> 0]
      /\ ops = <<>> /\ tracenum = 0 /\ result = "setup"
  BY DEF Init
<1>5. DriverTypes
  BY <1>3, <1>4 DEF DriverTypes, NULL
<1> QED BY <1>4, <1>5 DEF DriverInv, NoFault, Started

-----------------------------------------------------------------------------
(* No block is live when a trace starts. *)
LEMMA NothingLive ==
  ASSUME NEW g, NEW bs, NEW ss, bs = [x \in Indices |-> NULL], ss = [x \in Indices |-> 0]
  PROVE  LiveAt(g, bs, ss) /\ (\A h : AllFilled(h, bs, ss)) /\ RangesOf(bs, ss) = {} /\ Cardinality(Bytes(bs, ss)) = 0
<1>1. \A x \in Indices : bs[x] = NULL
  OBVIOUS
<1>2. bs \in [Indices -> Int] /\ ss \in [Indices -> Nat]
  BY DEF NULL
<1>3. Bytes(bs, ss) = {}
  BY <1>1 DEF Bytes
<1>4. Cardinality(Bytes(bs, ss)) = 0
  BY <1>3, FS_EmptySet
<1> QED BY <1>1, <1>2, <1>4 DEF LiveAt, AllFilled, RangesOf

(* Nor when a pass starts, whatever the memory held before. *)
LEMMA TwinBegun ==
  ASSUME NEW h, Heap(h, 0), NEW m \in [Words -> Int], NEW b0 \in [Indices -> Int], NEW s0 \in [Indices -> Nat],
         NEW bs, NEW ss, bs = [x \in Indices |-> NULL], ss = [x \in Indices |-> 0],
         NEW r, r = Begun(m, b0, s0)
  PROVE  Twin(mm_init(h).h, bs, ss, b0, s0, r)
<1>1. PICK k : k = [mem |-> m, brk |-> 0]
  OBVIOUS
<1>2. Heap(k, 0)
  BY <1>1 DEF Heap
<1>3. PICK hm : hm = mm_init(h)
  OBVIOUS
<1>4. PICK km : km = mm_init(k)
  OBVIOUS
<1>5. Inits(hm, km)
  BY <1>2, <1>3, <1>4, MmInit
<1>6. PICK g : OK(hm.h, g) /\ OK(km.h, g) /\ Full(g)
  BY <1>5 DEF Inits
<1>7. km.p # FAIL
  BY <1>5 DEF Inits, FAIL
<1>8. r = [h |-> km.h, failed |-> FALSE, blocks |-> b0, sizes |-> s0, total |-> 0, max |-> 0]
  BY <1>1, <1>4, <1>7 DEF Begun
<1>9. PassRecord(r) /\ r.failed = FALSE
  BY <1>8 DEF PassRecord
<1>10. \A y \in Indices : MatchAt(y, bs, ss, b0, s0, r)
  BY <1>8 DEF MatchAt
<1>11. Paired(hm.h, r.h, g, bs, ss)
  BY <1>6, <1>8, NothingLive DEF Paired
<1>12. Counts(g, bs, ss, r)
  <2>1. Cardinality(Bytes(bs, ss)) = 0 /\ g.hi \in Nat
    BY <1>6, NothingLive, Fields DEF OK
  <2> QED BY <1>8, <2>1 DEF Counts
<1> QED BY <1>3, <1>9, <1>10, <1>11, <1>12 DEF Twin

(* StartTrace: mem_reset_brk and mm_init. *)
LEMMA StartKeeps ==
  ASSUME DriverInv, StartTrace
  PROVE  DriverInv'
<1>1. PICK brk : Heap(heap, brk)
  BY DEF DriverInv, DriverTypes
<1>2. PICK h : h = mem_reset_brk(heap)
  OBVIOUS
<1>3. Heap(h, 0)
  BY <1>1, <1>2 DEF Heap, mem_reset_brk
<1>4. PICK hm : hm = mm_init(h)
  OBVIOUS
<1>5. Inits(hm, hm)
  BY <1>3, <1>4, MmInit
<1>6. PICK g : OK(hm.h, g) /\ Full(g)
  BY <1>5 DEF Inits
<1>7. hm.p # FAIL
  BY <1>5 DEF Inits, FAIL
<1>8. /\ heap' = hm.h /\ result' = "run" /\ ranges' = {} /\ ops' = <<>> /\ tracenum' = tracenum + 1
      /\ blocks' = [x \in Indices |-> NULL] /\ block_sizes' = [x \in Indices |-> 0]
  BY <1>2, <1>4, <1>7 DEF StartTrace, Begin
<1>9. tracenum \in Nat
  BY DEF DriverInv, DriverTypes
<1>10. DriverTypes'
  <2>1. \E e : Heap(heap', e)
    BY <1>6, <1>8 DEF OK
  <2> QED BY <1>8, <1>9, <2>1 DEF DriverTypes, NULL
<1>11. Kept(heap')
  BY <1>6, <1>8 DEF Kept
<1>12. Sound(heap', blocks', block_sizes', ranges')
  <2>1. /\ LiveAt(g, blocks', block_sizes') /\ (\A q : AllFilled(q, blocks', block_sizes'))
        /\ RangesOf(blocks', block_sizes') = {}
    BY <1>8, NothingLive
  <2>2. Paired(heap', heap', g, blocks', block_sizes')
    BY <1>6, <1>8, <2>1 DEF Paired
  <2> QED BY <1>8, <2>1, <2>2 DEF Sound
<1>13. Twins(heap', blocks', block_sizes', ops')
  <2> SUFFICES ASSUME NEW m \in [Words -> Int], NEW b0 \in [Indices -> Int], NEW s0 \in [Indices -> Nat], NEW r,
                      Replays(m, b0, s0, ops', r)
               PROVE  Twin(heap', blocks', block_sizes', b0, s0, r)
    BY DEF Twins
  <2>1. r = Begun(m, b0, s0)
    BY <1>8, ReplaysNone
  <2>2. PICK bs : bs = blocks'
    OBVIOUS
  <2>3. PICK ss : ss = block_sizes'
    OBVIOUS
  <2>4. Twin(hm.h, bs, ss, b0, s0, r)
    BY <1>3, <1>4, <1>8, <2>1, <2>2, <2>3, TwinBegun
  <2> QED BY <1>8, <2>2, <2>3, <2>4
<1>14. Started'
  BY <1>8, <1>9 DEF Started
<1>15. NoFault'
  BY <1>8 DEF NoFault
<1>16. result' \notin {"util", "speed"} /\ result' # "util"
  BY <1>8
<1> QED BY <1>10, <1>11, <1>12, <1>13, <1>14, <1>15, <1>16, Zenon DEF DriverInv

-----------------------------------------------------------------------------
(* The two ways a request can end, and what has to be shown of each.       *)
LEMMA AskedMore ==
  ASSUME NEW s \in Seq(Asked), NEW op \in Asked
  PROVE  Append(s, op) \in Seq(Asked)
  OBVIOUS

(* A failed call ends the trace with the heap in order. *)
LEMMA GivenUp ==
  ASSUME DriverInv, result = "run", NEW h, Kept(h), NEW rs, NEW error, GiveUp(h, rs, error),
         error \in {"mm_malloc failed", "mm_realloc failed"} \/ (error = "data not preserved" /\ \E x \in Indices : x >= 128),
         NEW op \in Asked, ops' = Append(ops, op)
  PROVE  DriverInv'
<1>1. heap' = h /\ result' = error /\ UNCHANGED <<blocks, block_sizes, opnum, tracenum, max_total_size>>
  BY DEF GiveUp
<1>2. DriverTypes'
  <2>1. \E brk : Heap(h, brk)
    BY DEF Kept, OK
  <2>2. ops' \in Seq(Asked)
    <3>1. ops \in Seq(Asked)
      BY DEF DriverInv, DriverTypes
    <3>2. Append(ops, op) \in Seq(Asked)
      BY <3>1, AskedMore
    <3> QED BY <3>2
  <2> QED BY <1>1, <2>1, <2>2 DEF DriverInv, DriverTypes
<1>3. NoFault'
  BY <1>1 DEF NoFault
<1>4. Started' /\ Kept(heap')
  BY <1>1 DEF DriverInv, Started
<1>5. result' \notin {"run", "valid", "util", "speed"} /\ result' # "run" /\ result' \notin {"run", "valid"}
      /\ result' \notin {"util", "speed"} /\ result' # "util"
  BY <1>1
<1> QED BY <1>2, <1>3, <1>4, <1>5, Zenon DEF DriverInv

(* What the driver remembers of a successful call. *)
LEMMA Remembered ==
  ASSUME DriverInv, result = "run", NEW h, NEW p, NEW rs, NEW x \in Indices, NEW size \in Nat, Remember(h, rs, x, p, size),
         NEW op \in Asked, ops' = Append(ops, op),
         NEW r, r = [lo |-> p, hi |-> p + size - 1],
         Sound(memset(h, p, x, size), blocks', block_sizes', rs \cup {r}),
         Twins(memset(h, p, x, size), blocks', block_sizes', ops')
  PROVE  DriverInv'
<1>1. /\ heap' = memset(h, p, x, size) /\ ranges' = rs \cup {r}
      /\ UNCHANGED <<tracenum, max_total_size, result>>
  BY DEF Remember
<1>2. Sound(heap', blocks', block_sizes', ranges') /\ Twins(heap', blocks', block_sizes', ops')
  BY <1>1
<1>3. PICK g : Paired(heap', heap', g, blocks', block_sizes')
  BY <1>2 DEF Sound
<1>4. OK(heap', g) /\ Full(g) /\ LiveAt(g, blocks', block_sizes')
  BY <1>3 DEF Paired
<1>5. Kept(heap')
  BY <1>4 DEF Kept
<1>6. DriverTypes'
  <2>1. \E brk : Heap(heap', brk)
    BY <1>4 DEF OK
  <2>2. ops' \in Seq(Asked) /\ tracenum' \in Nat
    BY <1>1 DEF DriverInv, DriverTypes
  <2>3. blocks' \in [Indices -> Int] /\ block_sizes' \in [Indices -> Nat]
    BY <1>4 DEF LiveAt
  <2> QED BY <2>1, <2>2, <2>3 DEF DriverTypes
<1>7. Started' /\ NoFault'
  BY <1>1 DEF DriverInv, Started, NoFault
<1>8. result' = "run" /\ result' \notin {"util", "speed"} /\ result' # "util"
  BY <1>1
<1> QED BY <1>2, <1>5, <1>6, <1>7, <1>8, Zenon DEF DriverInv

(* An operation of a trace. *)
LEMMA OpIs ==
  ASSUME NEW x \in Indices, NEW size \in Nat, NEW t \in {"alloc", "realloc", "free"}
  PROVE  Op(t, x, size) \in Asked
  BY DEF Op, Asked

(* Every pass has a last request. *)
LEMMA TwinsOn ==
  ASSUME NEW h, NEW bs, NEW ss, NEW S, NEW os \in Seq(S), Twins(h, bs, ss, os), NEW op \in S, NEW h2, NEW bs2, NEW ss2,
         \A b0, s0, r : Twin(h, bs, ss, b0, s0, r) => Twin(h2, bs2, ss2, b0, s0, Replayed(r, op))
  PROVE  Twins(h2, bs2, ss2, Append(os, op))
<1> SUFFICES ASSUME NEW m \in [Words -> Int], NEW b0 \in [Indices -> Int], NEW s0 \in [Indices -> Nat], NEW r,
                    Replays(m, b0, s0, Append(os, op), r)
             PROVE  Twin(h2, bs2, ss2, b0, s0, r)
  BY DEF Twins
<1>1. PICK q : Replays(m, b0, s0, os, q) /\ r = Replayed(q, op)
  BY ReplaysMore
<1>2. Twin(h, bs, ss, b0, s0, q)
  BY <1>1 DEF Twins
<1> QED BY <1>1, <1>2

(* Alloc keeps the invariant. *)
LEMMA AllocKeeps ==
  ASSUME DriverInv, NEW x \in Indices, NEW size \in Sizes, Alloc(x, size)
  PROVE  DriverInv'
<1>0. size \in Nat /\ size >= 1
  BY MDriverAssumption
<1>1. /\ result = "run" /\ blocks[x] = NULL /\ ops' = Append(ops, Op("alloc", x, size))
      /\ Allocated(x, size, mm_malloc(heap, size))
  BY DEF Alloc, Request
<1>2. /\ Sound(heap, blocks, block_sizes, ranges) /\ Twins(heap, blocks, block_sizes, ops)
      /\ ops \in Seq(Asked)
  BY <1>1 DEF DriverInv, DriverTypes
<1>3. PICK hm : hm = mm_malloc(heap, size)
  OBVIOUS
<1>4. PICK bs2 : bs2 = [blocks EXCEPT ![x] = hm.p]
  OBVIOUS
<1>5. PICK ss2 : ss2 = [block_sizes EXCEPT ![x] = size]
  OBVIOUS
<1>6. Put(blocks, block_sizes, x, hm.p, size, bs2, ss2)
  BY <1>4, <1>5 DEF Put
<1>7. Kept(hm.h) /\ (hm.p # NULL => Accepts(hm, ranges, x, size, bs2, ss2))
  BY <1>0, <1>1, <1>2, <1>3, <1>6, SoundAlloc
<1>a. Op("alloc", x, size) \in Asked
  BY <1>0, OpIs
<1>8. PICK op \in Asked : op = Op("alloc", x, size)
  BY <1>a
<1>9. CASE hm.p = NULL
  <2>1. GiveUp(hm.h, ranges, "mm_malloc failed")
    BY <1>1, <1>3, <1>9 DEF Allocated
  <2> QED BY <1>1, <1>7, <1>8, <2>1, GivenUp
<1>10. CASE hm.p # NULL
  <2>1. Accepts(hm, ranges, x, size, bs2, ss2)
    BY <1>7, <1>10
  <2>2. Remember(hm.h, ranges, x, hm.p, size)
    <3>1. add_range(hm.h, ranges, hm.p, size)
      BY <2>1 DEF Accepts
    <3> QED BY <1>1, <1>3, <1>10, <3>1, Zenon DEF Allocated
  <2>3. blocks' = bs2 /\ block_sizes' = ss2
    BY <1>4, <1>5, <2>2 DEF Remember
  <2>4. PICK r : r = [lo |-> hm.p, hi |-> hm.p + size - 1]
    OBVIOUS
  <2>5. Sound(memset(hm.h, hm.p, x, size), blocks', block_sizes', ranges \cup {r})
    BY <2>1, <2>3, <2>4 DEF Accepts
  <2>6. Twins(memset(hm.h, hm.p, x, size), bs2, ss2, Append(ops, op))
    <3>1. ASSUME NEW b0, NEW s0, NEW q, Twin(heap, blocks, block_sizes, b0, s0, q)
          PROVE  Twin(memset(hm.h, hm.p, x, size), bs2, ss2, b0, s0, Replayed(q, op))
      BY <1>0, <1>1, <1>3, <1>6, <1>8, <1>10, <3>1, TwinAlloc
    <3> QED BY <1>2, <3>1, TwinsOn
  <2>7. Twins(memset(hm.h, hm.p, x, size), blocks', block_sizes', ops')
    BY <1>1, <1>8, <2>3, <2>6
  <2> QED BY <1>0, <1>1, <1>8, <2>2, <2>4, <2>5, <2>7, Remembered
<1> QED BY <1>9, <1>10

-----------------------------------------------------------------------------
(* A comparison with the index as an unsigned byte succeeds below 128.     *)
LEMMA PreservedIs ==
  ASSUME NEW h, NEW p, NEW x \in Indices, x < 128, NEW n, Filled(h, p, x, n)
  PROVE  Preserved(h, p, x, n)
<1>1. x \in 0 .. 255 /\ x \in Nat
  BY MDriverAssumption
<1>2. Char(x) = x /\ x % 256 = x
  BY <1>1 DEF Char
<1> QED BY <1>1, <1>2 DEF Preserved, Filled

(* Realloc keeps the invariant. *)
LEMMA ReallocKeeps ==
  ASSUME DriverInv, NEW x \in Indices, NEW size \in Sizes, Realloc(x, size)
  PROVE  DriverInv'
<1>0. size \in Nat /\ size >= 1
  BY MDriverAssumption
<1>s. PICK rs : rs = remove_range(ranges, blocks[x])
  OBVIOUS
<1>n. PICK n : n = IF size < block_sizes[x] THEN size ELSE block_sizes[x]
  OBVIOUS
<1>1. /\ result = "run" /\ blocks[x] # NULL /\ ops' = Append(ops, Op("realloc", x, size))
      /\ Reallocated(x, size, mm_realloc(heap, blocks[x], size), rs, n)
  BY <1>s, <1>n DEF Realloc, Request
<1>2. /\ Sound(heap, blocks, block_sizes, ranges) /\ Twins(heap, blocks, block_sizes, ops)
      /\ ops \in Seq(Asked)
  BY <1>1 DEF DriverInv, DriverTypes
<1>3. PICK hm : hm = mm_realloc(heap, blocks[x], size)
  OBVIOUS
<1>4. PICK bs2 : bs2 = [blocks EXCEPT ![x] = hm.p]
  OBVIOUS
<1>5. PICK ss2 : ss2 = [block_sizes EXCEPT ![x] = size]
  OBVIOUS
<1>6. Put(blocks, block_sizes, x, hm.p, size, bs2, ss2)
  BY <1>4, <1>5 DEF Put
<1>7. Kept(hm.h) /\ (hm.p # NULL => Accepts(hm, rs, x, size, bs2, ss2) /\ Filled(hm.h, hm.p, x, n))
  BY <1>0, <1>1, <1>2, <1>3, <1>6, <1>s, <1>n, SoundRealloc
<1>a. Op("realloc", x, size) \in Asked
  BY <1>0, OpIs
<1>8. PICK op \in Asked : op = Op("realloc", x, size)
  BY <1>a
<1>9. CASE hm.p = NULL
  <2>1. GiveUp(hm.h, ranges, "mm_realloc failed")
    BY <1>1, <1>3, <1>9 DEF Reallocated
  <2> QED BY <1>1, <1>7, <1>8, <2>1, GivenUp
<1>10. CASE hm.p # NULL
  <2>1. Accepts(hm, rs, x, size, bs2, ss2) /\ Filled(hm.h, hm.p, x, n)
    BY <1>7, <1>10
  <2>2. add_range(hm.h, rs, hm.p, size)
    BY <2>1 DEF Accepts
  <2>3. CASE ~Preserved(hm.h, hm.p, x, n)
    <3>1. PICK r : r = [lo |-> hm.p, hi |-> hm.p + size - 1]
      OBVIOUS
    <3>2. GiveUp(hm.h, rs \cup {r}, "data not preserved")
      BY <1>1, <1>3, <1>10, <2>2, <2>3, <3>1, Zenon DEF Reallocated
    <3>3. \E y \in Indices : y >= 128
      <4>1. ~(x < 128)
        BY <2>1, <2>3, PreservedIs
      <4>2. x \in Nat
        BY MDriverAssumption
      <4> QED BY <4>1, <4>2
    <3> QED BY <1>1, <1>7, <1>8, <3>2, <3>3, GivenUp
  <2>4. CASE Preserved(hm.h, hm.p, x, n)
    <3>1. Remember(hm.h, rs, x, hm.p, size)
      BY <1>1, <1>3, <1>10, <2>2, <2>4, Zenon DEF Reallocated
    <3>2. blocks' = bs2 /\ block_sizes' = ss2
      BY <1>4, <1>5, <3>1 DEF Remember
    <3>3. PICK r : r = [lo |-> hm.p, hi |-> hm.p + size - 1]
      OBVIOUS
    <3>4. Sound(memset(hm.h, hm.p, x, size), blocks', block_sizes', rs \cup {r})
      BY <2>1, <3>2, <3>3 DEF Accepts
    <3>5. Twins(memset(hm.h, hm.p, x, size), bs2, ss2, Append(ops, op))
      <4>1. ASSUME NEW b0, NEW s0, NEW q, Twin(heap, blocks, block_sizes, b0, s0, q)
            PROVE  Twin(memset(hm.h, hm.p, x, size), bs2, ss2, b0, s0, Replayed(q, op))
        BY <1>0, <1>1, <1>3, <1>6, <1>8, <1>10, <4>1, TwinRealloc
      <4> QED BY <1>2, <4>1, TwinsOn
    <3>6. Twins(memset(hm.h, hm.p, x, size), blocks', block_sizes', ops')
      BY <1>1, <1>8, <3>2, <3>5
    <3> QED BY <1>0, <1>1, <1>8, <3>1, <3>3, <3>4, <3>6, Remembered
  <2> QED BY <2>3, <2>4
<1> QED BY <1>9, <1>10

(* Free keeps the invariant. *)
LEMMA FreeKeeps ==
  ASSUME DriverInv, NEW x \in Indices, Free(x)
  PROVE  DriverInv'
<1>1. /\ result = "run" /\ blocks[x] # NULL /\ ops' = Append(ops, Op("free", x, 0))
      /\ heap' = mm_free(heap, blocks[x]) /\ ranges' = remove_range(ranges, blocks[x])
      /\ blocks' = [blocks EXCEPT ![x] = NULL] /\ UNCHANGED <<block_sizes, tracenum, max_total_size, result>>
  BY DEF Free, Request
<1>2. /\ Sound(heap, blocks, block_sizes, ranges) /\ Twins(heap, blocks, block_sizes, ops)
      /\ ops \in Seq(Asked)
  BY <1>1 DEF DriverInv, DriverTypes
<1>3. PICK bs1 : bs1 = blocks' /\ Without(blocks, x, bs1)
  BY <1>1 DEF Without
<1>4. PICK h2 : h2 = mm_free(heap, blocks[x])
  OBVIOUS
<1>5. Kept(h2) /\ Sound(h2, bs1, block_sizes, remove_range(ranges, blocks[x]))
  BY <1>1, <1>2, <1>3, <1>4, SoundFree
<1>a. Op("free", x, 0) \in Asked
  BY OpIs
<1>6. PICK op \in Asked : op = Op("free", x, 0)
  BY <1>a
<1>7. Twins(h2, bs1, block_sizes, Append(ops, op))
  <2>1. ASSUME NEW b0, NEW s0, NEW q, Twin(heap, blocks, block_sizes, b0, s0, q)
        PROVE  Twin(h2, bs1, block_sizes, b0, s0, Replayed(q, op))
    BY <1>1, <1>3, <1>4, <1>6, <2>1, TwinFree
  <2> QED BY <1>2, <2>1, TwinsOn
<1>8. Sound(heap', blocks', block_sizes', ranges') /\ Kept(heap')
  BY <1>1, <1>3, <1>4, <1>5
<1>9. Twins(heap', blocks', block_sizes', ops')
  BY <1>1, <1>3, <1>4, <1>6, <1>7
<1>10. DriverTypes'
  <2>1. PICK g : Paired(heap', heap', g, blocks', block_sizes')
    BY <1>8 DEF Sound
  <2>2. OK(heap', g) /\ LiveAt(g, blocks', block_sizes')
    BY <2>1 DEF Paired
  <2>3. \E brk : Heap(heap', brk)
    BY <2>2 DEF OK
  <2>4. ops' \in Seq(Asked) /\ tracenum' \in Nat
    <3>1. Append(ops, op) \in Seq(Asked)
      BY <1>2, AskedMore
    <3> QED BY <1>1, <1>6, <3>1 DEF DriverInv, DriverTypes
  <2>5. blocks' \in [Indices -> Int] /\ block_sizes' \in [Indices -> Nat]
    BY <2>2 DEF LiveAt
  <2> QED BY <2>3, <2>4, <2>5 DEF DriverTypes
<1>11. Started' /\ NoFault'
  BY <1>1 DEF DriverInv, Started, NoFault
<1>12. result' = "run" /\ result' \notin {"util", "speed"} /\ result' # "util"
  BY <1>1
<1> QED BY <1>8, <1>9, <1>10, <1>11, <1>12, Zenon DEF DriverInv

(* FinishTrace keeps the invariant. *)
LEMMA FinishKeeps ==
  ASSUME DriverInv, FinishTrace
  PROVE  DriverInv'
<1>1. /\ result = "run" /\ result' = "valid"
      /\ UNCHANGED <<heap, blocks, block_sizes, ranges, opnum, ops, tracenum, max_total_size>>
  BY DEF FinishTrace
<1>2. DriverTypes' /\ Started' /\ NoFault'
  BY <1>1 DEF DriverInv, DriverTypes, Started, NoFault
<1>3. Kept(heap') /\ Twins(heap', blocks', block_sizes', ops')
  BY <1>1 DEF DriverInv
<1>4. result' # "run" /\ result' \notin {"util", "speed"} /\ result' # "util"
  BY <1>1
<1> QED BY <1>2, <1>3, <1>4, Zenon DEF DriverInv

-----------------------------------------------------------------------------
(* A later pass. *)
LEMMA TwinRepeats ==
  ASSUME NEW h, NEW bs, NEW ss, NEW b0, NEW s0, NEW r, Twin(h, bs, ss, b0, s0, r)
  PROVE  Repeat(h.brk, bs, ss, b0, s0, r) /\ r.max <= h.brk
<1>1. PICK g : Paired(h, r.h, g, bs, ss) /\ Counts(g, bs, ss, r)
  BY DEF Twin
<1>2. OK(h, g) /\ OK(r.h, g) /\ Full(g)
  BY <1>1 DEF Paired
<1>3. h.brk = 8 * g.hi
  BY <1>2 DEF OK, Heap
<1>4. PICK k : k = r.h
  OBVIOUS
<1>5. k.brk = 8 * g.hi
  BY <1>2, <1>4 DEF OK, Heap
<1>6. Kept(r.h)
  BY <1>2 DEF Kept
<1>7. r.max <= h.brk
  BY <1>1, <1>3 DEF Counts
<1> QED BY <1>3, <1>4, <1>5, <1>6, <1>7 DEF Twin, Repeat

(* A pass that starts from what the last one left. *)
LEMMA SameAgain ==
  ASSUME NEW brk, NEW bs \in [Indices -> Int], NEW ss \in [Indices -> Nat], NEW r, Repeat(brk, bs, ss, bs, ss, r)
  PROVE  r.blocks = bs /\ r.sizes = ss
<1>1. r.blocks \in [Indices -> Int] /\ r.sizes \in [Indices -> Nat]
  BY DEF Repeat, PassRecord
<1>2. \A y \in Indices : r.blocks[y] = bs[y] /\ r.sizes[y] = ss[y]
  BY DEF Repeat, MatchAt
<1> QED BY <1>1, <1>2

Passing == result \in {"valid", "util", "speed"}

(* Since every pass is a twin of the first run, it repeats it. *)
LEMMA TwinsRepeat ==
  ASSUME DriverInv, Passing
  PROVE  Repeats(heap.brk, blocks, block_sizes, ops)
<1>1. CASE result = "valid"
  <2>1. Twins(heap, blocks, block_sizes, ops)
    BY <1>1 DEF DriverInv
  <2> QED BY <2>1, TwinRepeats DEF Twins, Repeats
<1>2. CASE result \in {"util", "speed"}
  BY <1>2 DEF DriverInv
<1> QED BY <1>1, <1>2 DEF Passing

(* A pass returns to the heap's size and to the pointers of the first run. *)
LEMMA PassIs ==
  ASSUME DriverInv
  PROVE  /\ Passing => Repeat(heap.brk, blocks, block_sizes, blocks, block_sizes, Pass)
         /\ result = "valid" => Pass.max <= heap.brk
<1>1. /\ blocks \in [Indices -> Int] /\ block_sizes \in [Indices -> Nat]
      /\ ops \in Seq(Asked)
  BY DEF DriverInv, DriverTypes
<1>2. PICK brk : Heap(heap, brk)
  BY DEF DriverInv, DriverTypes
<1>3. PICK r : r = Pass
  OBVIOUS
<1>4. Len(ops) \in Nat /\ heap.mem \in [Words -> Int]
  BY <1>1, <1>2 DEF Heap
<1>5. Replays(heap.mem, blocks, block_sizes, ops, r)
  BY <1>2, <1>3, <1>4, PassReplays
<1>6. ASSUME Passing PROVE Repeat(heap.brk, blocks, block_sizes, blocks, block_sizes, r)
  <2>1. Repeats(heap.brk, blocks, block_sizes, ops)
    BY <1>6, TwinsRepeat
  <2> QED BY <1>1, <1>4, <1>5, <2>1 DEF Repeats
<1>7. ASSUME result = "valid" PROVE r.max <= heap.brk
  <2>1. Twins(heap, blocks, block_sizes, ops)
    BY <1>7 DEF DriverInv
  <2>2. Twin(heap, blocks, block_sizes, blocks, block_sizes, r)
    BY <1>1, <1>4, <1>5, <2>1 DEF Twins
  <2> QED BY <2>2, TwinRepeats
<1> QED BY <1>3, <1>6, <1>7

(* What a pass leaves as it was. *)
Repeated(name) ==
  /\ result' = name /\ blocks' = blocks /\ block_sizes' = block_sizes /\ heap'.brk = heap.brk
  /\ ops' = ops /\ tracenum' = tracenum /\ Kept(heap')

(* And this is what ReplayRepeats asks of its end. *)
LEMMA PassRepeats ==
  ASSUME DriverInv, Passing, NEW name, PassEnds(Pass, name)
  PROVE  Repeated(name)
<1>1. PICK r : r = Pass
  OBVIOUS
<1>2. Repeat(heap.brk, blocks, block_sizes, blocks, block_sizes, r)
  BY <1>1, PassIs
<1>3. r.failed = FALSE /\ r.h.brk = heap.brk /\ Kept(r.h)
  BY <1>2 DEF Repeat
<1>4. r.blocks = blocks /\ r.sizes = block_sizes
  <2>1. blocks \in [Indices -> Int] /\ block_sizes \in [Indices -> Nat]
    BY DEF DriverInv, DriverTypes
  <2> QED BY <1>2, <2>1, SameAgain
<1>5. /\ heap' = r.h /\ blocks' = r.blocks /\ block_sizes' = r.sizes
      /\ result' = IF r.failed THEN "app_error" ELSE name
      /\ UNCHANGED <<ranges, opnum, ops, tracenum>>
  BY <1>1 DEF PassEnds
<1>6. result' = name
  BY <1>3, <1>5
<1> QED BY <1>3, <1>4, <1>5, <1>6 DEF Repeated

(* The end of a pass keeps the invariant. *)
LEMMA PassKeeps ==
  ASSUME DriverInv, Passing, NEW name \in {"util", "speed"}, Repeated(name),
         name = "util" => max_total_size' <= heap.brk
  PROVE  DriverInv'
<1>1. /\ result' = name /\ blocks' = blocks /\ block_sizes' = block_sizes /\ heap'.brk = heap.brk
      /\ ops' = ops /\ tracenum' = tracenum /\ Kept(heap')
  BY DEF Repeated
<1>2. DriverTypes'
  <2>1. \E brk : Heap(heap', brk)
    BY <1>1 DEF Kept, OK
  <2> QED BY <1>1, <2>1 DEF DriverInv, DriverTypes
<1>3. Repeats(heap.brk, blocks, block_sizes, ops)
  BY TwinsRepeat
<1>4. Repeats(heap'.brk, blocks', block_sizes', ops')
  BY <1>1, <1>3
<1>5. Started'
  BY <1>1 DEF DriverInv, Started, Passing
<1>6. NoFault' /\ result' # "run" /\ result' \notin {"run", "valid"}
  BY <1>1 DEF NoFault
<1>7. result' = "util" => max_total_size' <= heap'.brk
  BY <1>1
<1> QED BY <1>1, <1>2, <1>4, <1>5, <1>6, <1>7, Zenon DEF DriverInv

(* eval_mm_util keeps the invariant, and repeats the trace. *)
LEMMA UtilKeeps ==
  ASSUME DriverInv, eval_mm_util
  PROVE  DriverInv' /\ Repeated("util")
<1>1. result = "valid" /\ PassEnds(Pass, "util")
  BY DEF eval_mm_util
<1>2. Passing
  BY <1>1 DEF Passing
<1>3. Repeated("util")
  BY <1>1, <1>2, PassRepeats
<1>4. max_total_size' <= heap.brk
  <2>1. max_total_size' = Pass.max
    BY <1>1 DEF PassEnds
  <2>2. Pass.max <= heap.brk
    BY <1>1, PassIs
  <2> QED BY <2>1, <2>2
<1> QED BY <1>2, <1>3, <1>4, PassKeeps

(* eval_mm_speed keeps the invariant, and repeats the trace. *)
LEMMA SpeedKeeps ==
  ASSUME DriverInv, eval_mm_speed
  PROVE  DriverInv' /\ Repeated("speed")
<1>1. Passing /\ PassEnds(Pass, "speed")
  BY DEF eval_mm_speed, Passing
<1>2. Repeated("speed")
  BY <1>1, PassRepeats
<1> QED BY <1>1, <1>2, PassKeeps

-----------------------------------------------------------------------------
(* Every step keeps the invariant. *)
LEMMA DriverNext ==
  ASSUME DriverInv, [Next]_vars
  PROVE  DriverInv'
<1>1. CASE StartTrace
  BY <1>1, StartKeeps
<1>2. ASSUME NEW x \in Indices, NEW size \in Sizes, Alloc(x, size) PROVE DriverInv'
  BY <1>2, AllocKeeps
<1>3. ASSUME NEW x \in Indices, NEW size \in Sizes, Realloc(x, size) PROVE DriverInv'
  BY <1>3, ReallocKeeps
<1>4. ASSUME NEW x \in Indices, Free(x) PROVE DriverInv'
  BY <1>4, FreeKeeps
<1>5. CASE FinishTrace
  BY <1>5, FinishKeeps
<1>6. CASE eval_mm_util
  BY <1>6, UtilKeeps
<1>7. CASE eval_mm_speed
  BY <1>7, SpeedKeeps
<1>8. CASE UNCHANGED vars
  <2>1. heap' = heap /\ blocks' = blocks /\ block_sizes' = block_sizes /\ ranges' = ranges /\ ops' = ops
        /\ tracenum' = tracenum /\ max_total_size' = max_total_size /\ result' = result
    BY <1>8 DEF vars
  <2> QED BY <2>1 DEF DriverInv, DriverTypes, NoFault, Started
<1> QED BY <1>1, <1>2, <1>3, <1>4, <1>5, <1>6, <1>7, <1>8 DEF Next

(* The inductive invariant of the driver and the allocator together holds  *)
(* in every state: the heap is in order, every live block is an allocated  *)
(* block filled as the driver filled it, and a further pass of the trace,  *)
(* over whatever memory, will answer as the first did.                     *)
THEOREM DriverInvariant == Spec => []DriverInv
BY DriverInit, DriverNext, PTL DEF Spec

(* On no trace does eval_mm_valid see mm_init fail, a block that is        *)
(* misaligned, outside the heap or over another, or data that mm_realloc   *)
(* lost. The driver writes the index of a block as a byte and reads it     *)
(* back as a signed char, so the blocks are numbered up to 127; a block of *)
(* a higher index would be reported although its data is there.            *)
THEOREM DriverFaultless == Indices \subseteq 0 .. 127 => (Spec => []DriverFindsNoFault)
<1> SUFFICES ASSUME Indices \subseteq 0 .. 127 PROVE Spec => []DriverFindsNoFault
  OBVIOUS
<1>1. DriverInv => DriverFindsNoFault
  <2>1. \A x \in Indices : x \in Nat /\ ~(x >= 128)
    OBVIOUS
  <2>2. NoFault => result # "data not preserved"
    BY <2>1 DEF NoFault
  <2>3. NoFault => result \notin {"mm_init failed", "bad range"}
    BY DEF NoFault
  <2> QED BY <2>2, <2>3 DEF DriverInv, DriverFindsNoFault
<1> QED BY <1>1, DriverInvariant, PTL

(* As long as a block is live, no step of mm_malloc, mm_free, mm_realloc,  *)
(* coalesce or place changes a byte of it.                                 *)
THEOREM DataStaysIntact == Spec => []LiveDataIntact
<1>1. DriverInv => LiveDataIntact
  BY DEF DriverInv, Sound, AllFilled, LiveDataIntact, Live
<1> QED BY <1>1, DriverInvariant, PTL

(* Between two calls the segregated lists hold the free blocks, each once  *)
(* and in the list of its size, with links that agree in both directions,  *)
(* and mm_check finds nothing wrong.                                       *)
THEOREM ListsStayExact == Spec => []FreeListsExact
<1>1. DriverInv => FreeListsExact
  <2> SUFFICES ASSUME DriverInv PROVE FreeListsExact
    OBVIOUS
  <2>1. CASE ~Started
    BY <2>1 DEF FreeListsExact
  <2>2. CASE Started
    BY <2>2, ExactLists DEF DriverInv, Kept
  <2> QED BY <2>1, <2>2
<1> QED BY <1>1, DriverInvariant, PTL

(* When find_fit returns NULL no free block would have done, so the heap   *)
(* is never extended in vain. RequestsFit is needed: find_fit compares a   *)
(* request with the list of an index only when that many halvings leave at *)
(* most 1, so that it compares one of 2^SEG_SIZE bytes or more with no     *)
(* list, although the last list holds blocks as large.                     *)
THEOREM FitsAreFound == RequestsFit => (Spec => []FitIsComplete)
<1> SUFFICES ASSUME RequestsFit PROVE Spec => []FitIsComplete
  OBVIOUS
<1>1. DriverInv => FitIsComplete
  <2> SUFFICES ASSUME DriverInv PROVE FitIsComplete
    OBVIOUS
  <2>1. CASE ~Started
    BY <2>1 DEF FitIsComplete
  <2>2. CASE Started
    BY <2>2, CompleteFit DEF DriverInv, Kept
  <2> QED BY <2>1, <2>2
<1> QED BY <1>1, DriverInvariant, PTL

(* What eval_mm_util divides is not more than the heap's size, so the      *)
(* utilization that the driver prints is at most 1.                        *)
THEOREM UtilizationIsAFraction == Spec => []UtilIsAFraction
<1>1. DriverInv => UtilIsAFraction
  BY DEF DriverInv, UtilIsAFraction
<1> QED BY <1>1, DriverInvariant, PTL

(* eval_mm_util and eval_mm_speed replay a trace with the same pointers,   *)
(* sizes and heap size as eval_mm_valid saw, although they start with the  *)
(* memory that it left.                                                    *)
THEOREM PassesRepeat == Spec => ReplayRepeats
<1> DEFINE Same == /\ result' # "app_error" /\ blocks' = blocks /\ block_sizes' = block_sizes
                   /\ heap'.brk = heap.brk
           Step == result' \in {"util", "speed", "app_error"} => Same
<1>1. DriverInv /\ [Next]_vars => [Step]_vars
  <2> SUFFICES ASSUME DriverInv, Next, result' \in {"util", "speed", "app_error"} PROVE Same
    OBVIOUS
  <2>1. CASE StartTrace
    BY <2>1 DEF StartTrace, Begin
  <2>2. ASSUME NEW x \in Indices, NEW size \in Sizes, Alloc(x, size) PROVE FALSE
    <3>1. result = "run"
      BY <2>2 DEF Alloc, Request
    <3> QED BY <2>2, <3>1 DEF Alloc, Allocated, GiveUp, Remember
  <2>3. ASSUME NEW x \in Indices, NEW size \in Sizes, Realloc(x, size) PROVE FALSE
    <3>1. result = "run"
      BY <2>3 DEF Realloc, Request
    <3> QED BY <2>3, <3>1 DEF Realloc, Reallocated, GiveUp, Remember
  <2>4. ASSUME NEW x \in Indices, Free(x) PROVE FALSE
    BY <2>4 DEF Free, Request
  <2>5. CASE FinishTrace
    BY <2>5 DEF FinishTrace
  <2>6. CASE eval_mm_util
    BY <2>6, UtilKeeps DEF Repeated
  <2>7. CASE eval_mm_speed
    BY <2>7, SpeedKeeps DEF Repeated
  <2> QED BY <2>1, <2>2, <2>3, <2>4, <2>5, <2>6, <2>7 DEF Next
<1> QED BY <1>1, DriverInvariant, PTL DEF Spec, ReplayRepeats

=============================================================================
