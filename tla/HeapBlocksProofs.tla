-------------------------- MODULE HeapBlocksProofs --------------------------
(***************************************************************************)
(* Proofs about HeapBlocks, for heaps, chunks and requests of any size.    *)
(*                                                                         *)
(* Each step of the allocator is a composition of Join, Split and Put, so  *)
(* the lemmas say what these do to any tiling and the theorem only has to  *)
(* put them together, action by action.                                    *)
(***************************************************************************)
EXTENDS HeapBlocks, TLAPS

(* Tiling and MinBlock of an arbitrary block table sz that ends at bk. *)
Tiles(sz, bk) ==
  /\ sz \in [Addr -> Nat]
  /\ bk \in Addr
  /\ bk > BASE => sz[BASE] > 0
  /\ \A a \in Addr : sz[a] > 0 =>
       /\ BASE <= a /\ 2 <= sz[a] /\ a + sz[a] <= bk
       /\ a + sz[a] = bk \/ sz[a + sz[a]] > 0
  /\ \A a, c \in Addr : sz[a] > 0 /\ sz[c] > 0 /\ a < c => a + sz[a] <= c

(* Coalesced for any table, and with x exempt as one of two free           *)
(* neighbours.                                                             *)
NoFreePair(sz, us) ==
  \A a \in Addr : IsFree(sz, us, a) => ~IsFree(sz, us, a + sz[a])
CoalescedExcept(sz, us, x) ==
  \A a \in Addr : IsFree(sz, us, a) /\ IsFree(sz, us, a + sz[a])
                    => a = x \/ a + sz[a] = x

(* Allocated blocks outside X have the same size in r as in sz. *)
Keeps(r, sz, us, X) == \A x \in Addr \ X : us[x] => r[x] = sz[x]

(* Allocated bits are set at blocks only. *)
Marks(sz, us) ==
  /\ us \in [Addr -> BOOLEAN]
  /\ \A a \in Addr : us[a] => sz[a] > 0
-----------------------------------------------------------------------------
(* What a tiling says about one block, and about two. *)
LEMMA BlockFacts ==
  ASSUME NEW sz, NEW bk, Tiles(sz, bk), NEW a \in Addr, sz[a] > 0
  PROVE  /\ sz \in [Addr -> Nat] /\ bk \in Nat /\ bk <= LIMIT /\ a \in Nat
         /\ BASE \in Nat /\ LIMIT \in Nat
         /\ sz[a] \in Nat /\ 2 <= sz[a] /\ BASE <= a /\ a + sz[a] <= bk
         /\ a + sz[a] \in Addr
         /\ a + sz[a] = bk \/ sz[a + sz[a]] > 0
<1>1. /\ LIMIT \in Nat /\ BASE \in Nat /\ a \in Nat /\ bk \in Nat /\ bk <= LIMIT
      /\ sz \in [Addr -> Nat]
  BY HeapBlocksAssumption DEF Tiles, Addr
<1>2. /\ 2 <= sz[a] /\ BASE <= a /\ a + sz[a] <= bk /\ sz[a] \in Nat
      /\ a + sz[a] = bk \/ sz[a + sz[a]] > 0
  BY DEF Tiles
<1> QED BY <1>1, <1>2 DEF Addr

(* Two blocks never overlap. *)
LEMMA Disjoint ==
  ASSUME NEW sz, NEW bk, Tiles(sz, bk), NEW a \in Addr, NEW c \in Addr,
         sz[a] > 0, sz[c] > 0, a < c
  PROVE  a + sz[a] <= c
BY DEF Tiles

(* Merging a block with its successor keeps the tiling. *)
LEMMA JoinTiles ==
  ASSUME NEW sz, NEW bk, Tiles(sz, bk), NEW a \in Addr, sz[a] > 0,
         IsBlock(sz, a + sz[a])
  PROVE  /\ Tiles(Join(sz, a), bk)
         /\ Join(sz, a)[a] = sz[a] + sz[a + sz[a]]
         /\ Join(sz, a)[a + sz[a]] = 0
         /\ \A c \in Addr \ {a, a + sz[a]} : Join(sz, a)[c] = sz[c]
<1> DEFINE n == a + sz[a]
           J == Join(sz, a)
<1>0. /\ LIMIT \in Nat /\ BASE \in Nat /\ Addr \subseteq Nat
      /\ sz \in [Addr -> Nat] /\ n \in Addr /\ sz[n] > 0 /\ n # a
      /\ bk \in Addr
  BY HeapBlocksAssumption DEF Addr, Tiles, IsBlock
<1>a. /\ a \in Nat /\ sz[a] \in Nat /\ 2 <= sz[a] /\ BASE <= a
      /\ n \in Nat /\ sz[n] \in Nat /\ 2 <= sz[n]
      /\ n + sz[n] \in Addr /\ n + sz[n] <= bk
      /\ n + sz[n] = bk \/ sz[n + sz[n]] > 0
  BY <1>0, BlockFacts
<1>1. /\ J \in [Addr -> Nat]
      /\ J[a] = sz[a] + sz[n]
      /\ J[n] = 0
      /\ \A c \in Addr \ {a, n} : J[c] = sz[c]
  BY <1>0 DEF Join, Put
<1> HIDE DEF J
<1>2. \A c \in Addr : J[c] > 0 => c # n /\ sz[c] > 0
  BY <1>0, <1>1
<1>3. bk > BASE => J[BASE] > 0
  <2>1. BASE \in Addr /\ BASE # n
    BY <1>0, BlockFacts DEF Addr
  <2> QED BY <1>0, <1>1, <2>1 DEF Tiles
<1>4. ASSUME NEW c \in Addr, J[c] > 0
      PROVE  /\ BASE <= c /\ 2 <= J[c] /\ c + J[c] <= bk
             /\ c + J[c] = bk \/ J[c + J[c]] > 0
  <2>1. CASE c = a
    <3>1. n + sz[n] # a /\ n + sz[n] # n /\ c + J[c] = n + sz[n] /\ 2 <= J[c]
      BY <1>a, <1>1, <2>1
    <3>2. n + sz[n] = bk \/ J[n + sz[n]] > 0
      BY <1>a, <1>1, <3>1
    <3> QED BY <1>a, <2>1, <3>1, <3>2
  <2>2. CASE c # a
    <3>1. c # n /\ J[c] = sz[c] /\ sz[c] > 0
      BY <1>1, <1>2, <1>4, <2>2
    <3>2. BASE <= c /\ 2 <= sz[c] /\ c + sz[c] <= bk /\ (c + sz[c] = bk \/ sz[c + sz[c]] > 0)
      BY <3>1 DEF Tiles
    <3>3. c + sz[c] \in Addr /\ c + sz[c] # n
      <4>1. c + sz[c] \in Addr /\ c \in Nat /\ sz[c] \in Nat
        BY <3>1, BlockFacts
      <4>2. c < a => c + sz[c] <= a
        BY <1>0, <3>1, Disjoint
      <4>3. a < c => n <= c
        BY <1>0, <3>1, Disjoint
      <4> QED BY <1>a, <2>2, <3>2, <4>1, <4>2, <4>3
    <3>4. c + sz[c] = bk \/ J[c + sz[c]] > 0
      BY <1>0, <1>1, <3>2, <3>3
    <3> QED BY <3>1, <3>2, <3>4
  <2> QED BY <2>1, <2>2
<1>5. ASSUME NEW c \in Addr, NEW d \in Addr, J[c] > 0, J[d] > 0, c < d
      PROVE  c + J[c] <= d
  <2>1. sz[c] > 0 /\ sz[d] > 0 /\ c # n /\ d # n /\ c \in Nat /\ d \in Nat
    BY <1>0, <1>2, <1>5
  <2>2. c + sz[c] <= d
    BY <1>5, <2>1, Disjoint
  <2>3. CASE c = a
    <3>1. n < d
      BY <1>a, <2>1, <2>2, <2>3
    <3>2. n + sz[n] <= d
      BY <1>0, <2>1, <3>1, Disjoint
    <3> QED BY <1>a, <1>1, <2>3, <3>2
  <2>4. CASE c # a
    BY <1>1, <2>1, <2>2, <2>4
  <2> QED BY <2>3, <2>4
<1>6. Tiles(J, bk)
  BY <1>0, <1>1, <1>3, <1>4, <1>5 DEF Tiles
<1> QED BY <1>1, <1>6 DEF J

(* Cutting a block in two, each of at least two double words, keeps it. *)
LEMMA SplitTiles ==
  ASSUME NEW sz, NEW bk, Tiles(sz, bk), NEW a \in Addr, NEW n \in Nat,
         2 <= n, n + 2 <= sz[a]
  PROVE  /\ a + n \in Addr
         /\ Tiles(Split(sz, a, n), bk)
         /\ Split(sz, a, n)[a] = n
         /\ Split(sz, a, n)[a + n] = sz[a] - n
         /\ sz[a + n] = 0
         /\ \A c \in Addr \ {a, a + n} : Split(sz, a, n)[c] = sz[c]
<1> DEFINE m == a + n
           S == Split(sz, a, n)
<1>0. /\ LIMIT \in Nat /\ BASE \in Nat /\ Addr \subseteq Nat
      /\ sz \in [Addr -> Nat] /\ bk \in Addr /\ a \in Nat /\ sz[a] \in Nat
  BY HeapBlocksAssumption DEF Addr, Tiles
<1>a. /\ sz[a] > 0 /\ BASE <= a /\ a + sz[a] <= bk /\ a + sz[a] \in Addr
      /\ a + sz[a] = bk \/ sz[a + sz[a]] > 0
  BY <1>0, BlockFacts
<1>1. m \in Addr /\ m # a /\ m \in Nat
  BY <1>0, <1>a DEF Addr
<1>2. /\ S \in [Addr -> Nat]
      /\ S[a] = n /\ S[m] = sz[a] - n
      /\ \A c \in Addr \ {a, m} : S[c] = sz[c]
  BY <1>0, <1>1 DEF Split, Put
<1>3. \A c \in Addr : sz[c] > 0 => c <= a \/ a + sz[a] <= c
  BY <1>0, <1>a, Disjoint
<1>4. sz[m] = 0
  BY <1>0, <1>1, <1>3
<1> HIDE DEF S
<1>5. ASSUME NEW c \in Addr, S[c] > 0
      PROVE  /\ BASE <= c /\ 2 <= S[c] /\ c + S[c] <= bk
             /\ c + S[c] = bk \/ S[c + S[c]] > 0
  <2>1. CASE c = a
    BY <1>0, <1>a, <1>1, <1>2, <2>1
  <2>2. CASE c = m
    <3>1. c + S[c] = a + sz[a] /\ a + sz[a] # m /\ a + sz[a] # a
      BY <1>0, <1>1, <1>2, <2>2
    <3>2. a + sz[a] = bk \/ S[a + sz[a]] > 0
      BY <1>a, <1>2, <3>1
    <3> QED BY <1>0, <1>a, <1>1, <1>2, <2>2, <3>1, <3>2
  <2>3. CASE c # a /\ c # m
    <3>1. S[c] = sz[c] /\ sz[c] > 0
      BY <1>2, <1>5, <2>3
    <3>2. BASE <= c /\ 2 <= sz[c] /\ c + sz[c] <= bk /\ (c + sz[c] = bk \/ sz[c + sz[c]] > 0)
      BY <3>1 DEF Tiles
    <3>3. c + sz[c] \in Addr /\ c + sz[c] \in Nat
      BY <1>0, <3>2 DEF Addr
    <3>4. c + sz[c] = bk \/ S[c + sz[c]] > 0
      BY <1>0, <1>1, <1>2, <1>4, <3>2, <3>3
    <3> QED BY <3>1, <3>2, <3>4
  <2> QED BY <2>1, <2>2, <2>3
<1>6. ASSUME NEW c \in Addr, NEW d \in Addr, S[c] > 0, S[d] > 0, c < d
      PROVE  c + S[c] <= d
  <2>1. c \in Nat /\ d \in Nat
    BY <1>0
  <2>2. CASE c # m /\ d # m
    <3>1. sz[c] > 0 /\ sz[d] > 0
      BY <1>0, <1>a, <1>2, <1>6, <2>2
    <3>2. c + sz[c] <= d /\ sz[c] \in Nat
      BY <1>0, <1>6, <3>1, Disjoint
    <3> QED BY <1>0, <1>2, <2>1, <2>2, <3>2
  <2>3. CASE c = m
    <3>1. d # m /\ d # a /\ sz[d] > 0
      BY <1>0, <1>1, <1>2, <1>6, <2>1, <2>3
    <3> QED BY <1>0, <1>1, <1>2, <1>3, <1>6, <2>1, <2>3, <3>1
  <2>4. CASE d = m
    <3>1. CASE c = a
      BY <1>0, <1>2, <2>4, <3>1
    <3>2. CASE c # a
      <4>1. c # m /\ sz[c] > 0 /\ S[c] = sz[c]
        BY <1>2, <1>6, <2>1, <2>4, <3>2
      <4>2. c < a
        BY <1>0, <1>1, <1>3, <1>6, <2>1, <2>4, <3>2, <4>1
      <4>3. c + sz[c] <= a
        BY <1>a, <4>1, <4>2, Disjoint
      <4> QED BY <1>0, <2>1, <2>4, <4>1, <4>3
    <3> QED BY <3>1, <3>2
  <2> QED BY <2>2, <2>3, <2>4
<1>7. bk > BASE => S[BASE] > 0
  <2>1. BASE \in Addr /\ BASE # m
    BY <1>0, <1>a, <1>1 DEF Addr
  <2> QED BY <1>0, <1>2, <2>1 DEF Tiles
<1>8. Tiles(S, bk)
  BY <1>0, <1>2, <1>5, <1>6, <1>7 DEF Tiles
<1> QED BY <1>1, <1>2, <1>4, <1>8 DEF S
-----------------------------------------------------------------------------
(* Merging forward leaves b's successor allocated, and allocated blocks as *)
(* they were.                                                              *)
LEMMA JoinNextOK ==
  ASSUME NEW sz, NEW bk, NEW us, Tiles(sz, bk), Marks(sz, us),
         NEW b \in Addr, IsFree(sz, us, b), CoalescedExcept(sz, us, b)
  PROVE  LET r == JoinNext(sz, us, b) IN
         /\ Tiles(r, bk)
         /\ IsFree(r, us, b)
         /\ ~IsFree(r, us, b + r[b])
         /\ CoalescedExcept(r, us, b)
         /\ Keeps(r, sz, us, {})
<1> DEFINE n == b + sz[b]
           J == Join(sz, b)
<1>1. CASE ~IsFree(sz, us, n)
  BY <1>1 DEF JoinNext, Keeps
<1>2. CASE IsFree(sz, us, n)
  <2>1. /\ IsBlock(sz, n) /\ sz[b] > 0 /\ ~us[n] /\ ~us[b] /\ n \in Addr
        /\ us \in [Addr -> BOOLEAN] /\ sz[n] > 0
    BY <1>2 DEF IsFree, IsBlock, Marks
  <2>2. /\ Tiles(J, bk) /\ J[b] = sz[b] + sz[n] /\ J[n] = 0
        /\ \A c \in Addr \ {b, n} : J[c] = sz[c]
    BY <2>1, JoinTiles
  <2>3. /\ sz[b] \in Nat /\ sz[n] \in Nat /\ b \in Nat /\ n \in Nat
        /\ 2 <= sz[b] /\ 2 <= sz[n] /\ n + sz[n] \in Addr /\ b + J[b] = n + sz[n]
    BY <2>1, <2>2, BlockFacts
  <2> HIDE DEF J
  <2>4. IsFree(J, us, b)
    BY <2>1, <2>2, <2>3 DEF IsFree, IsBlock
  <2>5. ~IsFree(J, us, b + J[b])
    <3>1. ~IsFree(sz, us, n + sz[n])
      BY <1>2, <2>1, <2>3 DEF CoalescedExcept
    <3>2. n + sz[n] # b /\ n + sz[n] # n
      BY <2>3
    <3>3. J[n + sz[n]] = sz[n + sz[n]]
      BY <2>2, <2>3, <3>2
    <3> QED BY <2>3, <3>1, <3>3 DEF IsFree, IsBlock
  <2>6. CoalescedExcept(J, us, b)
    <3> SUFFICES ASSUME NEW a \in Addr, IsFree(J, us, a), IsFree(J, us, a + J[a]),
                        a # b, a + J[a] # b
                 PROVE  FALSE
      BY DEF CoalescedExcept
    <3>1. a # n /\ a + J[a] # n /\ J[a] = sz[a] /\ J[a + J[a]] = sz[a + J[a]]
      BY <2>2 DEF IsFree, IsBlock
    <3> QED BY <3>1 DEF CoalescedExcept, IsFree, IsBlock
  <2>7. Keeps(J, sz, us, {})
    BY <2>1, <2>2 DEF Keeps
  <2> QED BY <1>2, <2>2, <2>4, <2>5, <2>6, <2>7 DEF JoinNext, J
<1> QED BY <1>1, <1>2

(* Merging backward then leaves no two free neighbours at all. *)
LEMMA JoinPrevOK ==
  ASSUME NEW sz, NEW bk, NEW us, Tiles(sz, bk), Marks(sz, us),
         NEW b \in Addr, IsFree(sz, us, b), CoalescedExcept(sz, us, b),
         ~IsFree(sz, us, b + sz[b])
  PROVE  LET r == JoinPrev(sz, us, b)
             p == MergedAt(sz, us, b) IN
         /\ Tiles(r, bk)
         /\ NoFreePair(r, us)
         /\ p \in Addr /\ IsFree(r, us, p) /\ r[p] >= sz[b]
         /\ Keeps(r, sz, us, {})
<1> DEFINE p == MergedAt(sz, us, b)
           J == Join(sz, p)
<1>0. sz[b] \in Nat /\ b \in Nat /\ sz[b] > 0 /\ us \in [Addr -> BOOLEAN] /\ ~us[b]
  BY BlockFacts DEF IsFree, IsBlock, Marks
<1>1. CASE PrevFree(sz, us, b) = {}
  <2>1. NoFreePair(sz, us)
    <3> SUFFICES ASSUME NEW a \in Addr, IsFree(sz, us, a), IsFree(sz, us, a + sz[a])
                 PROVE  FALSE
      BY DEF NoFreePair
    <3>1. a # b
      OBVIOUS
    <3>2. a + sz[a] = b
      BY <3>1 DEF CoalescedExcept
    <3> QED BY <1>1, <3>2 DEF PrevFree
  <2> QED BY <1>0, <1>1, <2>1 DEF JoinPrev, MergedAt, Keeps
<1>2. CASE PrevFree(sz, us, b) # {}
  <2>1. p \in PrevFree(sz, us, b)
    BY <1>2 DEF MergedAt
  <2>2. p \in Addr /\ IsFree(sz, us, p) /\ p + sz[p] = b /\ sz[p] > 0 /\ ~us[p]
    BY <2>1 DEF PrevFree, IsFree, IsBlock
  <2>3. /\ Tiles(J, bk) /\ J[p] = sz[p] + sz[b] /\ J[b] = 0
        /\ \A c \in Addr \ {p, b} : J[c] = sz[c]
    BY <1>0, <2>2, JoinTiles DEF IsBlock
  <2>a. sz[p] \in Nat /\ p \in Nat /\ 2 <= sz[p]
    BY <2>2, BlockFacts
  <2>4. p # b /\ p + J[p] = b + sz[b] /\ b + sz[b] # p /\ b + sz[b] # b
    BY <1>0, <2>a, <2>2, <2>3
  <2> HIDE DEF J, p
  <2>5. IsFree(J, us, p) /\ J[p] >= sz[b]
    BY <1>0, <2>a, <2>2, <2>3, <2>4 DEF IsFree, IsBlock
  <2>6. NoFreePair(J, us)
    <3> SUFFICES ASSUME NEW a \in Addr, IsFree(J, us, a), IsFree(J, us, a + J[a])
                 PROVE  FALSE
      BY DEF NoFreePair
    <3>1. CASE a = p
      <4>1. b + sz[b] \in Addr /\ J[b + sz[b]] = sz[b + sz[b]]
        BY <2>3, <2>4, <3>1 DEF IsFree, IsBlock
      <4> QED BY <2>4, <3>1, <4>1 DEF IsFree, IsBlock
    <3>2. CASE a # p
      <4>1. a # b /\ a + J[a] # b /\ J[a] = sz[a]
        BY <2>3, <3>2 DEF IsFree, IsBlock
      <4>2. CASE a + J[a] = p
        <5>1. IsFree(sz, us, a) /\ IsFree(sz, us, a + sz[a])
          BY <2>2, <4>1, <4>2 DEF IsFree, IsBlock
        <5> QED BY <4>1, <4>2, <5>1 DEF CoalescedExcept
      <4>3. CASE a + J[a] # p
        <5>1. IsFree(sz, us, a) /\ IsFree(sz, us, a + sz[a])
          BY <2>3, <4>1, <4>3 DEF IsFree, IsBlock
        <5> QED BY <4>1, <5>1 DEF CoalescedExcept
      <4> QED BY <4>2, <4>3
    <3> QED BY <3>1, <3>2
  <2>7. Keeps(J, sz, us, {})
    BY <1>0, <2>2, <2>3 DEF Keeps
  <2>8. JoinPrev(sz, us, b) = J
    BY <1>2 DEF JoinPrev, J, p
  <2> QED BY <2>2, <2>3, <2>5, <2>6, <2>7, <2>8 DEF p
<1> QED BY <1>1, <1>2

(* coalesce(bp): wherever the new free block is, the heap is tiled, fully  *)
(* merged, and every allocated block has kept its size.                    *)
LEMMA CoalesceOK ==
  ASSUME NEW sz, NEW bk, NEW us, Tiles(sz, bk), Marks(sz, us),
         NEW b \in Addr, IsFree(sz, us, b), CoalescedExcept(sz, us, b)
  PROVE  LET r == coalesce(sz, us, b) IN
         /\ Tiles(r, bk)
         /\ NoFreePair(r, us)
         /\ Keeps(r, sz, us, {})
<1> DEFINE f == JoinNext(sz, us, b)
<1>1. /\ Tiles(f, bk) /\ IsFree(f, us, b) /\ ~IsFree(f, us, b + f[b])
      /\ CoalescedExcept(f, us, b)
      /\ Keeps(f, sz, us, {})
  BY JoinNextOK
<1> HIDE DEF f
<1>2. Marks(f, us)
  BY <1>1 DEF Marks, Keeps
<1>3. /\ Tiles(JoinPrev(f, us, b), bk)
      /\ NoFreePair(JoinPrev(f, us, b), us)
      /\ Keeps(JoinPrev(f, us, b), f, us, {})
  BY <1>1, <1>2, JoinPrevOK
<1> QED BY <1>1, <1>3 DEF coalesce, f, Keeps
-----------------------------------------------------------------------------
(* The sizes the allocator computes from a request. *)
LEMMA SizesOK ==
  ASSUME NEW n \in Requests
  PROVE  /\ n \in Nat /\ n > 0
         /\ Align(n) \in Nat /\ 1 <= Align(n) /\ n <= 8 * Align(n)
         /\ adjusted(n) \in Nat /\ 3 <= adjusted(n) /\ n <= 8 * (adjusted(n) - 1)
<1>1. n \in Nat /\ n > 0
  BY HeapBlocksAssumption
<1>2. Align(n) \in Nat /\ 1 <= Align(n) /\ n <= 8 * Align(n) /\ (n > 16 => 3 <= Align(n))
  BY <1>1 DEF Align
<1> QED BY <1>1, <1>2 DEF adjusted

(* place(bp, asize): the block handed out is fresh and large enough, the   *)
(* remainder stays free between allocated blocks.                          *)
LEMMA PlaceOK ==
  ASSUME NEW sz, NEW bk, NEW us, Tiles(sz, bk), Marks(sz, us), NoFreePair(sz, us),
         NEW b \in Addr, IsFree(sz, us, b), NEW asize \in Nat, 3 <= asize, asize <= sz[b]
  PROVE  LET r == place(sz, b, asize)
             p == placeAt(sz, b, asize)
             u == Put(us, p, TRUE) IN
         /\ Tiles(r, bk) /\ Marks(r, u) /\ NoFreePair(r, u)
         /\ p \in Addr /\ ~us[p] /\ r[p] >= asize
         /\ Keeps(r, sz, us, {})
<1> DEFINE p == placeAt(sz, b, asize)
           r == place(sz, b, asize)
           u == Put(us, p, TRUE)
<1>0. /\ sz[b] > 0 /\ us \in [Addr -> BOOLEAN] /\ ~us[b]
      /\ \A a \in Addr : us[a] => sz[a] > 0
  BY DEF IsFree, IsBlock, Marks
<1>a. sz[b] \in Nat /\ b \in Nat
  BY <1>0, BlockFacts
<1>1. CASE sz[b] - asize < 2
  <2>1. p = b /\ r = sz
    BY <1>1 DEF place, placeAt
  <2>2. u \in [Addr -> BOOLEAN] /\ u[b] /\ \A x \in Addr \ {b} : u[x] = us[x]
    BY <1>0, <2>1 DEF Put
  <2> HIDE DEF u, p, r
  <2>3. Marks(sz, u)
    BY <1>0, <2>2 DEF Marks
  <2>4. NoFreePair(sz, u)
    BY <2>2 DEF NoFreePair, IsFree, IsBlock
  <2> QED BY <1>0, <1>a, <2>1, <2>3, <2>4 DEF u, p, r, Keeps
<1>2. CASE sz[b] - asize >= 2
  <2> DEFINE k == IF asize > MINPLACE THEN asize ELSE sz[b] - asize
             m == b + k
  <2>1. k \in Nat /\ 2 <= k /\ k + 2 <= sz[b] /\ r = Split(sz, b, k)
    BY <1>a, <1>2 DEF place
  <2>2. /\ m \in Addr /\ Tiles(r, bk) /\ r[b] = k /\ r[m] = sz[b] - k /\ sz[m] = 0
        /\ \A c \in Addr \ {b, m} : r[c] = sz[c]
    BY <2>1, SplitTiles
  <2>3. /\ m # b /\ m + r[m] = b + sz[b] /\ b + sz[b] # b /\ b + sz[b] # m
        /\ r[b] > 0 /\ r[m] > 0 /\ b + r[b] = m
    BY <1>a, <2>1, <2>2
  <2>4. p = IF asize > MINPLACE THEN b ELSE m
    BY <1>a, <1>2 DEF placeAt
  <2>5. p \in {b, m} /\ p \in Addr /\ r[p] >= asize
    BY <1>a, <2>2, <2>4
  <2>6. ~us[m] /\ ~us[p]
    BY <1>0, <2>2, <2>5
  <2>7. u \in [Addr -> BOOLEAN] /\ u[p] /\ \A x \in Addr \ {p} : u[x] = us[x]
    BY <1>0, <2>5 DEF Put
  <2> HIDE DEF u, p, r, k, m
  <2>8. Marks(r, u)
    <3> SUFFICES ASSUME NEW a \in Addr, u[a] PROVE r[a] > 0
      BY <2>7 DEF Marks
    <3>1. CASE a \in {b, m}
      BY <2>3, <3>1
    <3>2. CASE a \notin {b, m}
      BY <1>0, <2>2, <2>5, <2>7, <3>2
    <3> QED BY <3>1, <3>2
  <2>9. NoFreePair(r, u)
    <3> SUFFICES ASSUME NEW a \in Addr, IsFree(r, u, a), IsFree(r, u, a + r[a])
                 PROVE  FALSE
      BY DEF NoFreePair
    <3>0. a \in Addr /\ r[a] > 0 /\ ~u[a] /\ a # p
          /\ a + r[a] \in Addr /\ r[a + r[a]] > 0 /\ ~u[a + r[a]] /\ a + r[a] # p
      BY <2>7 DEF IsFree, IsBlock
    <3>1. CASE a = b
      BY <2>3, <2>5, <3>0, <3>1
    <3>2. CASE a = m
      <4>1. a + r[a] = b + sz[b] /\ r[b + sz[b]] = sz[b + sz[b]]
        BY <2>2, <2>3, <3>0, <3>2
      <4>2. IsFree(sz, us, b + sz[b])
        BY <2>7, <3>0, <4>1 DEF IsFree, IsBlock
      <4> QED BY <4>2 DEF NoFreePair
    <3>3. CASE a # b /\ a # m
      <4>1. r[a] = sz[a] /\ ~us[a] /\ IsFree(sz, us, a)
        BY <2>2, <2>7, <3>0, <3>3 DEF IsFree, IsBlock
      <4>2. a + r[a] # m
        <5>1. CASE p = m
          BY <3>0, <5>1
        <5>2. CASE p = b
          BY <4>1, <2>2, <2>3, <1>a, <1>0, <2>1, BlockFacts, Disjoint, <3>0, <3>3, <5>2
        <5> QED BY <2>5, <5>1, <5>2
      <4>3. sz[a + r[a]] > 0 /\ ~us[a + r[a]]
        BY <1>0, <2>2, <2>7, <3>0, <4>2
      <4> QED BY <3>0, <4>1, <4>3 DEF NoFreePair, IsFree, IsBlock
    <3> QED BY <3>1, <3>2, <3>3
  <2>10. Keeps(r, sz, us, {})
    BY <1>0, <2>2, <2>6 DEF Keeps
  <2> QED BY <2>2, <2>5, <2>6, <2>8, <2>9, <2>10 DEF u, p, r
<1>3. sz[b] - asize < 2 \/ sz[b] - asize >= 2
  BY <1>a
<1> QED BY <1>1, <1>2, <1>3

(* The tail mm_realloc returns: the block keeps at least what it needs.    *)
LEMMA TrimOK ==
  ASSUME NEW sz, NEW bk, NEW us, Tiles(sz, bk), Marks(sz, us), NoFreePair(sz, us),
         NEW b \in Addr, us[b], NEW asize \in Nat, 1 <= asize, asize + 1 <= sz[b]
  PROVE  LET r == trim(sz, us, b, asize) IN
         /\ Tiles(r, bk) /\ Marks(r, us) /\ NoFreePair(r, us)
         /\ r[b] >= asize + 1
         /\ Keeps(r, sz, us, {b})
<1> DEFINE r == trim(sz, us, b, asize)
           m == b + (asize + 1)
           S == Split(sz, b, asize + 1)
<1>0. us \in [Addr -> BOOLEAN] /\ sz[b] > 0 /\ \A a \in Addr : us[a] => sz[a] > 0
  BY DEF Marks
<1>a. sz[b] \in Nat /\ b \in Nat /\ 2 <= sz[b]
  BY <1>0, BlockFacts
<1>1. CASE ~(sz[b] - 1 - asize > 1)
  BY <1>a, <1>1 DEF trim, Keeps
<1>2. CASE sz[b] - 1 - asize > 1
  <2>0. asize + 1 \in Nat /\ 2 <= asize + 1 /\ (asize + 1) + 2 <= sz[b]
    BY <1>a, <1>2
  <2>1. /\ m \in Addr /\ Tiles(S, bk) /\ S[b] = asize + 1 /\ S[m] = sz[b] - (asize + 1)
        /\ sz[m] = 0 /\ \A c \in Addr \ {b, m} : S[c] = sz[c]
    BY <2>0, SplitTiles
  <2>2. m # b /\ S[m] > 0 /\ S[b] > 0 /\ ~us[m]
    BY <1>0, <1>a, <2>0, <2>1
  <2> HIDE DEF S, m, r
  <2>3. Marks(S, us)
    BY <1>0, <2>1, <2>2 DEF Marks
  <2>4. IsFree(S, us, m)
    BY <2>1, <2>2 DEF IsFree, IsBlock
  <2>5. CoalescedExcept(S, us, m)
    <3> SUFFICES ASSUME NEW a \in Addr, IsFree(S, us, a), IsFree(S, us, a + S[a]),
                        a # m, a + S[a] # m
                 PROVE  FALSE
      BY DEF CoalescedExcept
    <3>1. a # b /\ a + S[a] # b /\ S[a] = sz[a] /\ S[a + S[a]] = sz[a + S[a]]
      BY <2>1 DEF IsFree, IsBlock
    <3> QED BY <3>1 DEF NoFreePair, IsFree, IsBlock
  <2>6. r = coalesce(S, us, m)
    BY <1>2 DEF trim, r, S, m
  <2>7. /\ Tiles(r, bk) /\ NoFreePair(r, us)
        /\ Keeps(r, S, us, {})
    BY <2>1, <2>3, <2>4, <2>5, <2>6, CoalesceOK
  <2>8. \A x \in Addr : us[x] => r[x] > 0
    BY <2>3, <2>7 DEF Marks, Keeps
  <2>9. Keeps(r, sz, us, {b})
    BY <2>1, <2>2, <2>7 DEF Keeps
  <2>10. r[b] >= asize + 1
    BY <1>a, <2>0, <2>1, <2>7 DEF Keeps
  <2> QED BY <1>0, <2>7, <2>8, <2>9, <2>10 DEF Marks, r
<1> QED BY <1>1, <1>2

(* Freeing an allocated block. *)
LEMMA ReleaseOK ==
  ASSUME NEW sz, NEW bk, NEW us, Tiles(sz, bk), Marks(sz, us), NoFreePair(sz, us),
         NEW b \in Addr, us[b]
  PROVE  LET u == Put(us, b, FALSE)
             r == coalesce(sz, u, b) IN
         /\ Tiles(r, bk) /\ Marks(r, u) /\ NoFreePair(r, u)
         /\ Keeps(r, sz, u, {})
<1> DEFINE u == Put(us, b, FALSE)
           r == coalesce(sz, u, b)
<1>1. /\ u \in [Addr -> BOOLEAN] /\ ~u[b] /\ sz[b] > 0
      /\ \A x \in Addr \ {b} : u[x] = us[x]
      /\ \A a \in Addr : u[a] => sz[a] > 0
  BY DEF Put, Marks
<1> HIDE DEF u
<1>2. Marks(sz, u) /\ IsFree(sz, u, b)
  BY <1>1 DEF Marks, IsFree, IsBlock
<1>3. CoalescedExcept(sz, u, b)
  BY <1>1 DEF CoalescedExcept, NoFreePair, IsFree, IsBlock
<1>4. /\ Tiles(r, bk) /\ NoFreePair(r, u)
      /\ Keeps(r, sz, u, {})
  BY <1>2, <1>3, CoalesceOK
<1> HIDE DEF r
<1>5. Marks(r, u)
  BY <1>1, <1>4 DEF Marks, Keeps
<1> QED BY <1>4, <1>5 DEF r, u

(* Merging an allocated block b into the free block p before it. *)
LEMMA AbsorbPrevOK ==
  ASSUME NEW sz, NEW bk, NEW us, Tiles(sz, bk), Marks(sz, us), NoFreePair(sz, us),
         NEW b \in Addr, us[b], NEW p \in PrevFree(sz, us, b)
  PROVE  LET u == Put(Put(us, b, FALSE), p, TRUE)
             r == Join(sz, p) IN
         /\ Tiles(r, bk) /\ Marks(r, u) /\ NoFreePair(r, u)
         /\ p \in Addr /\ p # b /\ ~us[p] /\ r[p] = sz[p] + sz[b]
         /\ \A x \in Addr \ {p} : u[x] => us[x] /\ r[x] = sz[x] /\ x # b
<1> DEFINE u == Put(Put(us, b, FALSE), p, TRUE)
           r == Join(sz, p)
<1>1. /\ p \in Addr /\ sz[p] > 0 /\ ~us[p] /\ p + sz[p] = b /\ p # b
      /\ us \in [Addr -> BOOLEAN] /\ sz[b] > 0 /\ \A a \in Addr : us[a] => sz[a] > 0
  BY DEF PrevFree, IsFree, IsBlock, Marks
<1>2. /\ Tiles(r, bk) /\ r[p] = sz[p] + sz[b] /\ r[b] = 0
      /\ \A c \in Addr \ {p, b} : r[c] = sz[c]
  BY <1>1, JoinTiles DEF IsBlock
<1>3. /\ u \in [Addr -> BOOLEAN] /\ u[p] /\ ~u[b]
      /\ \A x \in Addr \ {p, b} : u[x] = us[x]
  BY <1>1 DEF Put
<1>4. r[p] > 0
  BY <1>1, <1>2, BlockFacts
<1> HIDE DEF u, r
<1>5. Marks(r, u)
  BY <1>1, <1>2, <1>3, <1>4 DEF Marks
<1>6. NoFreePair(r, u)
  <2> SUFFICES ASSUME NEW a \in Addr, IsFree(r, u, a), IsFree(r, u, a + r[a])
               PROVE  FALSE
    BY DEF NoFreePair
  <2>1. a \notin {p, b} /\ a + r[a] \notin {p, b} /\ a + r[a] \in Addr
    BY <1>2, <1>3 DEF IsFree, IsBlock
  <2>2. r[a] = sz[a] /\ r[a + r[a]] = sz[a + sz[a]] /\ ~us[a] /\ ~us[a + sz[a]]
    BY <1>2, <1>3, <2>1 DEF IsFree, IsBlock
  <2> QED BY <2>1, <2>2 DEF NoFreePair, IsFree, IsBlock
<1> QED BY <1>1, <1>2, <1>3, <1>5, <1>6 DEF u, r

(* Merging the free block after it into an allocated block b. *)
LEMMA AbsorbNextOK ==
  ASSUME NEW sz, NEW bk, NEW us, Tiles(sz, bk), Marks(sz, us), NoFreePair(sz, us),
         NEW b \in Addr, us[b], NEW n, n = b + sz[b], IsFree(sz, us, n)
  PROVE  LET r == Join(sz, b) IN
         /\ Tiles(r, bk) /\ Marks(r, us) /\ NoFreePair(r, us)
         /\ r[b] = sz[b] + sz[n]
         /\ Keeps(r, sz, us, {b})
         /\ PrevFree(r, us, b) = PrevFree(sz, us, b)
         /\ \A p \in PrevFree(sz, us, b) : r[p] = sz[p]
<1> DEFINE r == Join(sz, b)
<1>1. /\ us \in [Addr -> BOOLEAN] /\ sz[b] > 0 /\ \A a \in Addr : us[a] => sz[a] > 0
      /\ n \in Addr /\ sz[n] > 0 /\ ~us[n]
  BY DEF IsFree, IsBlock, Marks
<1>2. /\ Tiles(r, bk) /\ r[b] = sz[b] + sz[n] /\ r[n] = 0
      /\ \A c \in Addr \ {b, n} : r[c] = sz[c]
  BY <1>1, JoinTiles DEF IsBlock
<1>3. r[b] > 0 /\ sz[b] \in Nat /\ sz[n] \in Nat /\ n \in Nat /\ b \in Nat
  BY <1>1, <1>2, BlockFacts
<1> HIDE DEF r
<1>4. Marks(r, us)
  BY <1>1, <1>2, <1>3 DEF Marks
<1>5. NoFreePair(r, us)
  <2> SUFFICES ASSUME NEW a \in Addr, IsFree(r, us, a), IsFree(r, us, a + r[a])
               PROVE  FALSE
    BY DEF NoFreePair
  <2>1. a \notin {b, n} /\ a + r[a] \notin {b, n} /\ a + r[a] \in Addr
    BY <1>2 DEF IsFree, IsBlock
  <2>2. r[a] = sz[a] /\ r[a + r[a]] = sz[a + sz[a]]
    BY <1>2, <2>1
  <2> QED BY <2>1, <2>2 DEF NoFreePair, IsFree, IsBlock
<1>6. Keeps(r, sz, us, {b})
  BY <1>1, <1>2 DEF Keeps
<1>7. ASSUME NEW p \in Addr PROVE p \in PrevFree(r, us, b) <=> p \in PrevFree(sz, us, b)
  <2>1. CASE p = n
    <3>1. p \notin PrevFree(r, us, b)
      BY <1>2, <2>1 DEF PrevFree, IsFree, IsBlock
    <3>2. p + sz[p] # b
      BY <1>1, <1>3, <2>1
    <3> QED BY <3>1, <3>2 DEF PrevFree
  <2>2. CASE p = b
    BY <2>2 DEF PrevFree, IsFree
  <2>3. CASE p # n /\ p # b
    BY <1>2, <2>3 DEF PrevFree, IsFree, IsBlock
  <2> QED BY <2>1, <2>2, <2>3
<1>8. PrevFree(r, us, b) = PrevFree(sz, us, b)
  BY <1>7 DEF PrevFree
<1>9. \A p \in PrevFree(sz, us, b) : r[p] = sz[p]
  <2> TAKE p \in PrevFree(sz, us, b)
  <2>1. p \in PrevFree(r, us, b)
    BY <1>8
  <2>2. p \in Addr /\ r[p] > 0 /\ ~us[p]
    BY <2>1 DEF PrevFree, IsFree, IsBlock
  <2> QED BY <1>2, <2>2
<1> QED BY <1>2, <1>4, <1>5, <1>6, <1>8, <1>9 DEF r

(* extend_heap: a new free block of e double words at the epilogue, merged *)
(* with a free last block.                                                 *)
LEMMA ExtendOK ==
  ASSUME NEW sz, NEW bk, NEW us, Tiles(sz, bk), Marks(sz, us), NoFreePair(sz, us),
         bk > BASE, NEW e \in Nat, 2 <= e, bk + e <= LIMIT
  PROVE  LET x == Put(sz, bk, e)
             r == JoinPrev(x, us, bk)
             p == MergedAt(x, us, bk) IN
         /\ Tiles(r, bk + e) /\ Marks(r, us) /\ NoFreePair(r, us)
         /\ p \in Addr /\ IsFree(r, us, p) /\ r[p] >= e
         /\ Keeps(r, sz, us, {})
<1> DEFINE x == Put(sz, bk, e)
           r == JoinPrev(x, us, bk)
           p == MergedAt(x, us, bk)
<1>0. /\ LIMIT \in Nat /\ BASE \in Nat /\ Addr \subseteq Nat
      /\ sz \in [Addr -> Nat] /\ bk \in Addr /\ bk \in Nat /\ bk + e \in Addr
      /\ us \in [Addr -> BOOLEAN] /\ \A a \in Addr : us[a] => sz[a] > 0
  BY HeapBlocksAssumption DEF Addr, Tiles, Marks
<1>1. \A a \in Addr : sz[a] > 0 => a < bk
  <2> SUFFICES ASSUME NEW a \in Addr, sz[a] > 0 PROVE a < bk
    OBVIOUS
  <2> QED BY BlockFacts
<1>2. sz[bk] = 0 /\ sz[bk + e] = 0
  BY <1>0, <1>1
<1>3. /\ x \in [Addr -> Nat] /\ x[bk] = e /\ \A c \in Addr \ {bk} : x[c] = sz[c]
  BY <1>0 DEF Put
<1> HIDE DEF x
<1>4. Tiles(x, bk + e)
  <2>1. x[BASE] > 0
    BY <1>0, <1>3 DEF Tiles, Addr
  <2>2. ASSUME NEW a \in Addr, x[a] > 0
        PROVE  /\ BASE <= a /\ 2 <= x[a] /\ a + x[a] <= bk + e
               /\ a + x[a] = bk + e \/ x[a + x[a]] > 0
    <3>1. CASE a = bk
      BY <1>0, <1>3, <3>1
    <3>2. CASE a # bk
      <4>1. x[a] = sz[a] /\ sz[a] > 0
        BY <1>3, <2>2, <3>2
      <4>2. /\ BASE <= a /\ 2 <= sz[a] /\ a + sz[a] <= bk /\ a \in Nat /\ sz[a] \in Nat
            /\ a + sz[a] \in Addr /\ (a + sz[a] = bk \/ sz[a + sz[a]] > 0)
        BY <4>1, BlockFacts
      <4>3. x[a + sz[a]] > 0
        BY <1>0, <1>3, <4>2
      <4> QED BY <1>0, <4>1, <4>2, <4>3
    <3> QED BY <3>1, <3>2
  <2>3. ASSUME NEW a \in Addr, NEW c \in Addr, x[a] > 0, x[c] > 0, a < c
        PROVE  a + x[a] <= c
    <3>1. CASE a = bk
      BY <1>0, <1>1, <1>3, <2>3, <3>1
    <3>2. CASE a # bk
      <4>1. x[a] = sz[a] /\ sz[a] > 0 /\ a + sz[a] <= bk
        BY <1>3, <2>3, <3>2, BlockFacts
      <4>2. CASE c = bk
        BY <4>1, <4>2
      <4>3. CASE c # bk
        BY <1>3, <2>3, <4>1, <4>3, Disjoint
      <4> QED BY <4>2, <4>3
    <3> QED BY <3>1, <3>2
  <2> QED BY <1>0, <1>3, <2>1, <2>2, <2>3 DEF Tiles
<1>5. Marks(x, us)
  BY <1>0, <1>3 DEF Marks
<1>6. IsFree(x, us, bk) /\ ~IsFree(x, us, bk + x[bk])
  BY <1>0, <1>2, <1>3 DEF IsFree, IsBlock
<1>7. CoalescedExcept(x, us, bk)
  BY <1>3 DEF CoalescedExcept, NoFreePair, IsFree, IsBlock
<1>8. /\ Tiles(r, bk + e) /\ NoFreePair(r, us)
      /\ p \in Addr /\ IsFree(r, us, p) /\ r[p] >= x[bk]
      /\ Keeps(r, x, us, {})
  BY <1>0, <1>4, <1>5, <1>6, <1>7, JoinPrevOK
<1> HIDE DEF r, p
<1>9. Keeps(r, sz, us, {})
  BY <1>0, <1>2, <1>3, <1>8 DEF Keeps
<1>10. Marks(r, us)
  BY <1>0, <1>9 DEF Marks, Keeps
<1> QED BY <1>3, <1>8, <1>9, <1>10 DEF r, p, x
-----------------------------------------------------------------------------
(* The inductive invariant: all the properties together, because merging   *)
(* relies on the tiling, the tiling on the least block size, and a free on *)
(* the allocated bits lying at blocks.                                     *)
IInv ==
  /\ Tiles(size, brk)
  /\ Marks(size, used)
  /\ NoFreePair(size, used)
  /\ req \in [Addr -> Nat]
  /\ Capacity

(* The inductive invariant implies the four properties. *)
LEMMA IInvImplies ==
  IInv => TypeOK /\ Tiling /\ MinBlock /\ Coalesced /\ Capacity
BY DEF IInv, Tiles, Marks, NoFreePair, TypeOK, Tiling, MinBlock, Coalesced

(* Taking a block from a table that agrees with the old one on allocated   *)
(* blocks.                                                                 *)
LEMMA TakeOK ==
  ASSUME IInv, NEW sz, Tiles(sz, brk'), Marks(sz, used), NoFreePair(sz, used),
         Keeps(sz, size, used, {}),
         NEW b \in Addr, IsFree(sz, used, b),
         NEW n \in Nat, n > 0, NEW asize \in Nat, 3 <= asize, n <= 8 * (asize - 1),
         asize <= sz[b], Take(sz, b, asize, n)
  PROVE  IInv'
<1> DEFINE p == placeAt(sz, b, asize)
<1>2. size' = place(sz, b, asize) /\ used' = Put(used, p, TRUE) /\ req' = Put(req, p, n)
  BY DEF Take
<1>3. /\ Tiles(size', brk') /\ Marks(size', used') /\ NoFreePair(size', used')
      /\ p \in Addr /\ ~used[p] /\ size'[p] >= asize
      /\ Keeps(size', sz, used, {})
  BY <1>2, PlaceOK
<1> HIDE DEF p
<1>4. used \in [Addr -> BOOLEAN] /\ req \in [Addr -> Nat] /\ size' \in [Addr -> Nat]
  BY <1>3 DEF IInv, Marks, Tiles
<1>5. /\ req' \in [Addr -> Nat] /\ req'[p] = n /\ used'[p]
      /\ \A x \in Addr \ {p} : req'[x] = req[x] /\ used'[x] = used[x]
  BY <1>2, <1>3, <1>4 DEF Put
<1>6. Capacity'
  <2> SUFFICES ASSUME NEW a \in Addr
               PROVE  /\ used'[a] => size'[a] > 0 /\ req'[a] > 0 /\ 8 * (size'[a] - 1) >= req'[a]
                      /\ ~used'[a] => req'[a] = 0
    BY DEF Capacity
  <2>1. CASE a = p
    <3>1. size'[p] \in Nat
      BY <1>3, <1>4
    <3> QED BY <1>3, <1>5, <2>1, <3>1
  <2>2. CASE a # p
    BY <1>3, <1>5, <2>2 DEF IInv, Capacity, Keeps
  <2> QED BY <2>1, <2>2
<1> QED BY <1>3, <1>5, <1>6 DEF IInv

(* mm_realloc by mm_malloc, copy and mm_free, likewise. *)
LEMMA SwapOK ==
  ASSUME IInv, NEW sz, Tiles(sz, brk'), Marks(sz, used), NoFreePair(sz, used),
         Keeps(sz, size, used, {}),
         NEW f \in Addr, IsFree(sz, used, f), NEW b \in Addr, used[b],
         NEW n \in Nat, n > 0, NEW asize \in Nat, 3 <= asize, n <= 8 * (asize - 1),
         asize <= sz[f], Swap(sz, f, b, asize, n)
  PROVE  IInv'
<1> DEFINE p == placeAt(sz, f, asize)
           u == Put(used, p, TRUE)
           r == place(sz, f, asize)
<1>2. /\ size' = coalesce(r, Put(u, b, FALSE), b) /\ used' = Put(u, b, FALSE)
      /\ req' = Put(Put(req, p, n), b, 0)
  BY DEF Swap
<1>3. /\ Tiles(r, brk') /\ Marks(r, u) /\ NoFreePair(r, u)
      /\ p \in Addr /\ ~used[p] /\ r[p] >= asize
      /\ Keeps(r, sz, used, {})
  BY PlaceOK
<1>4. /\ used \in [Addr -> BOOLEAN] /\ req \in [Addr -> Nat] /\ p # b
  BY <1>3 DEF IInv, Marks
<1>5. u[b] /\ u[p] /\ \A x \in Addr \ {p} : u[x] = used[x]
  BY <1>3, <1>4 DEF Put
<1>a. u \in [Addr -> BOOLEAN]
  BY <1>3, <1>4 DEF Put
<1> HIDE DEF p, u, r
<1>6. /\ Tiles(size', brk') /\ Marks(size', used') /\ NoFreePair(size', used')
      /\ Keeps(size', r, used', {})
  BY <1>2, <1>3, <1>5, ReleaseOK
<1>7. /\ ~used'[b] /\ used'[p] /\ \A x \in Addr \ {p, b} : used'[x] = used[x]
      /\ req' \in [Addr -> Nat] /\ req'[b] = 0 /\ req'[p] = n
      /\ \A x \in Addr \ {p, b} : req'[x] = req[x]
  BY <1>2, <1>3, <1>4, <1>5, <1>a DEF Put
<1>8. Capacity'
  <2> SUFFICES ASSUME NEW a \in Addr
               PROVE  /\ used'[a] => size'[a] > 0 /\ req'[a] > 0 /\ 8 * (size'[a] - 1) >= req'[a]
                      /\ ~used'[a] => req'[a] = 0
    BY DEF Capacity
  <2>1. CASE a = p
    <3>1. size'[p] \in Nat /\ size'[p] >= asize
      BY <1>3, <1>6, <1>7 DEF Tiles, Keeps
    <3> QED BY <1>7, <2>1, <3>1
  <2>2. CASE a = b
    BY <1>7, <2>2
  <2>3. CASE a # p /\ a # b
    BY <1>3, <1>6, <1>7, <2>3 DEF IInv, Capacity, Keeps
  <2> QED BY <2>1, <2>2, <2>3
<1> QED BY <1>6, <1>7, <1>8 DEF IInv

(* An in-place realloc: block c, allocated in us, gets n bytes, after b    *)
(* has lent its table entry to c (b = c when the block does not move).     *)
LEMMA ResizeOK ==
  ASSUME IInv, NEW sz, NEW us, Tiles(sz, brk), Marks(sz, us), NoFreePair(sz, us),
         NEW c \in Addr, us[c], NEW b \in Addr,
         NEW asize \in Nat, 1 <= asize, asize + 1 <= sz[c],
         NEW n \in Nat, n > 0, n <= 8 * asize,
         Keeps(sz, size, us, {c}),
         \A x \in Addr \ {b, c} : us[x] = used[x],
         b # c => ~us[b],
         size' = trim(sz, us, c, asize), used' = us, brk' = brk,
         req' = [x \in Addr |-> IF x = c THEN n ELSE IF x = b THEN 0 ELSE req[x]]
  PROVE  IInv'
<1>1. /\ Tiles(size', brk') /\ Marks(size', used') /\ NoFreePair(size', used')
      /\ size'[c] >= asize + 1 /\ Keeps(size', sz, used', {c})
  BY TrimOK
<1>2. req \in [Addr -> Nat] /\ size' \in [Addr -> Nat]
  BY <1>1 DEF IInv, Tiles
<1>3. req' \in [Addr -> Nat] /\ req'[c] = n
      /\ (b # c => req'[b] = 0) /\ \A x \in Addr \ {b, c} : req'[x] = req[x]
  BY <1>2
<1>4. Capacity'
  <2> SUFFICES ASSUME NEW a \in Addr
               PROVE  /\ used'[a] => size'[a] > 0 /\ req'[a] > 0 /\ 8 * (size'[a] - 1) >= req'[a]
                      /\ ~used'[a] => req'[a] = 0
    BY DEF Capacity
  <2>1. CASE a = c
    <3>1. size'[c] \in Nat
      BY <1>2
    <3> QED BY <1>1, <1>3, <2>1, <3>1
  <2>2. CASE a # c /\ a = b
    BY <1>3, <2>2
  <2>3. CASE a # c /\ a # b
    <3>1. used'[a] = used[a] /\ req'[a] = req[a] /\ (used'[a] => size'[a] = size[a])
      BY <1>1, <1>3, <2>3 DEF Keeps
    <3> QED BY <3>1 DEF IInv, Capacity
  <2> QED BY <2>1, <2>2, <2>3
<1> QED BY <1>1, <1>3, <1>4 DEF IInv

(* The empty heap satisfies the invariant. *)
LEMMA InitOK == Init => IInv
<1> SUFFICES ASSUME Init PROVE IInv
  OBVIOUS
<1>1. LIMIT \in Nat /\ BASE \in Nat /\ BASE \in Addr
  BY HeapBlocksAssumption DEF Addr
<1> QED BY <1>1 DEF Init, IInv, Tiles, Marks, NoFreePair, IsFree, IsBlock, Capacity, Addr

(* mm_init makes a heap of one free block. *)
LEMMA mm_initOK == ASSUME mm_init PROVE IInv'
<1>1. /\ LIMIT \in Nat /\ BASE \in Nat /\ CHUNK \in Nat /\ 2 <= CHUNK
      /\ BASE \in Addr /\ BASE + CHUNK \in Addr /\ BASE + CHUNK # BASE
  BY HeapBlocksAssumption DEF Addr
<1>2. /\ size' \in [Addr -> Nat] /\ size'[BASE] = CHUNK /\ brk' = BASE + CHUNK
      /\ \A a \in Addr \ {BASE} : size'[a] = 0
      /\ used' = [a \in Addr |-> FALSE] /\ req' = [a \in Addr |-> 0]
  BY <1>1 DEF mm_init
<1>3. Tiles(size', brk')
  BY <1>1, <1>2 DEF Tiles
<1>4. Marks(size', used') /\ NoFreePair(size', used')
  BY <1>1, <1>2 DEF Marks, NoFreePair, IsFree, IsBlock
<1>5. Capacity' /\ req' \in [Addr -> Nat]
  BY <1>2 DEF Capacity
<1> QED BY <1>3, <1>4, <1>5 DEF IInv

(* extend_heap as mm_malloc calls it. *)
LEMMA ExtendedOK ==
  ASSUME IInv, brk > BASE, NEW n \in Requests, brk + extendsize(n) <= LIMIT,
         brk' = brk + extendsize(n)
  PROVE  LET r == JoinPrev(Extended(n), used, brk)
             p == LastFree(n) IN
         /\ Tiles(r, brk') /\ Marks(r, used) /\ NoFreePair(r, used)
         /\ p \in Addr /\ IsFree(r, used, p) /\ adjusted(n) <= r[p]
         /\ Keeps(r, size, used, {})
<1> DEFINE e == extendsize(n)
<1>1. e \in Nat /\ 2 <= e /\ adjusted(n) <= e /\ adjusted(n) \in Nat
  BY SizesOK, HeapBlocksAssumption DEF extendsize
<1> HIDE DEF e
<1>2. Tiles(size, brk) /\ Marks(size, used) /\ NoFreePair(size, used)
  BY DEF IInv
<1> DEFINE r == JoinPrev(Put(size, brk, e), used, brk)
           p == MergedAt(Put(size, brk, e), used, brk)
<1>3. /\ Tiles(r, brk + e) /\ Marks(r, used) /\ NoFreePair(r, used)
      /\ p \in Addr /\ IsFree(r, used, p) /\ r[p] >= e
      /\ Keeps(r, size, used, {})
  BY <1>1, <1>2, ExtendOK DEF e
<1>4. r = JoinPrev(Extended(n), used, brk) /\ p = LastFree(n)
  BY DEF Extended, LastFree, e
<1> HIDE DEF r, p
<1>5. r[p] \in Nat
  BY <1>3 DEF Tiles
<1>6. adjusted(n) <= r[p]
  BY <1>1, <1>3, <1>5
<1> QED BY <1>3, <1>4, <1>6 DEF e

(* mm_malloc, from a fit or by extending the heap. *)
LEMMA mm_mallocOK == ASSUME IInv, NEW n \in Requests, mm_malloc(n) PROVE IInv'
<1>1. /\ n \in Nat /\ n > 0 /\ adjusted(n) \in Nat /\ 3 <= adjusted(n)
      /\ n <= 8 * (adjusted(n) - 1)
  BY SizesOK
<1>2. Tiles(size, brk) /\ Marks(size, used) /\ NoFreePair(size, used)
  BY DEF IInv
<1>3. CASE malloc_fit(n)
  <2>1. PICK b \in Fits(adjusted(n)) : Take(size, b, adjusted(n), n)
    BY <1>3 DEF malloc_fit
  <2>2. b \in Addr /\ IsFree(size, used, b) /\ adjusted(n) <= size[b]
    <3>1. b \in Addr /\ IsFree(size, used, b) /\ size[b] >= adjusted(n)
      BY DEF Fits
    <3> QED BY <1>1, <1>2, <3>1 DEF Tiles
  <2>3. brk' = brk /\ Keeps(size, size, used, {})
    BY <1>3 DEF malloc_fit, Keeps
  <2> QED BY <1>1, <1>2, <2>1, <2>2, <2>3, TakeOK
<1>4. CASE malloc_extend(n)
  <2> DEFINE r == JoinPrev(Extended(n), used, brk)
             p == LastFree(n)
  <2>1. /\ Tiles(r, brk') /\ Marks(r, used) /\ NoFreePair(r, used)
        /\ p \in Addr /\ IsFree(r, used, p) /\ adjusted(n) <= r[p]
        /\ Keeps(r, size, used, {})
    BY <1>4, ExtendedOK DEF malloc_extend
  <2>2. Take(r, p, adjusted(n), n)
    BY <1>4 DEF malloc_extend
  <2> QED BY <1>1, <2>1, <2>2, TakeOK
<1> QED BY <1>3, <1>4 DEF mm_malloc

(* mm_free and its coalesce. *)
LEMMA mm_freeOK == ASSUME IInv, NEW b \in Addr, mm_free(b) PROVE IInv'
<1>1. /\ used[b] /\ used' = Put(used, b, FALSE) /\ size' = coalesce(size, Put(used, b, FALSE), b)
      /\ req' = Put(req, b, 0) /\ brk' = brk
  BY DEF mm_free
<1>2. Tiles(size, brk) /\ Marks(size, used) /\ NoFreePair(size, used)
  BY DEF IInv
<1>3. /\ Tiles(size', brk') /\ Marks(size', used') /\ NoFreePair(size', used')
      /\ Keeps(size', size, used', {})
  BY <1>1, <1>2, ReleaseOK
<1>4. used \in [Addr -> BOOLEAN] /\ req \in [Addr -> Nat]
  BY DEF IInv, Marks
<1>5. /\ ~used'[b] /\ \A x \in Addr \ {b} : used'[x] = used[x]
      /\ req' \in [Addr -> Nat] /\ req'[b] = 0 /\ \A x \in Addr \ {b} : req'[x] = req[x]
  BY <1>1, <1>4 DEF Put
<1>6. Capacity'
  <2> SUFFICES ASSUME NEW a \in Addr
               PROVE  /\ used'[a] => size'[a] > 0 /\ req'[a] > 0 /\ 8 * (size'[a] - 1) >= req'[a]
                      /\ ~used'[a] => req'[a] = 0
    BY DEF Capacity
  <2>1. CASE a = b
    BY <1>5, <2>1
  <2>2. CASE a # b
    <3>1. used'[a] = used[a] /\ req'[a] = req[a] /\ (used'[a] => size'[a] = size[a])
      BY <1>3, <1>5, <2>2 DEF Keeps
    <3> QED BY <3>1 DEF IInv, Capacity
  <2> QED BY <2>1, <2>2
<1> QED BY <1>3, <1>5, <1>6 DEF IInv

(* mm_realloc, one step for each of its six cases. *)
LEMMA mm_reallocOK ==
  ASSUME IInv, NEW b \in Addr, NEW n \in Requests, mm_realloc(b, n) PROVE IInv'
<1>1. n \in Nat /\ n > 0 /\ Align(n) \in Nat /\ 1 <= Align(n) /\ n <= 8 * Align(n)
  BY SizesOK
<1>2. /\ Tiles(size, brk) /\ Marks(size, used) /\ NoFreePair(size, used)
      /\ used \in [Addr -> BOOLEAN] /\ req \in [Addr -> Nat] /\ size \in [Addr -> Nat]
  BY DEF IInv, Tiles, Marks
<1>3. used[b] /\ size[b] \in Nat /\ size[b] > 0
  BY <1>2 DEF mm_realloc, realloc_same, realloc_shrink, realloc_prev, realloc_next,
              realloc_both, realloc_move, Marks
<1>4. Keeps(size, size, used, {b})
  BY DEF Keeps
<1>5. CASE realloc_same(b, n)
  <2>1. /\ Align(n) <= size[b] - 1 /\ size' = size /\ used' = used /\ brk' = brk
        /\ req' = Put(req, b, n)
    BY <1>5 DEF realloc_same
  <2>2. req' \in [Addr -> Nat] /\ req'[b] = n /\ \A x \in Addr \ {b} : req'[x] = req[x]
    BY <1>1, <1>2, <2>1 DEF Put
  <2>3. Capacity'
    <3> SUFFICES ASSUME NEW a \in Addr
                 PROVE  /\ used[a] => size[a] > 0 /\ req'[a] > 0 /\ 8 * (size[a] - 1) >= req'[a]
                        /\ ~used[a] => req'[a] = 0
      BY <2>1 DEF Capacity
    <3>1. CASE a = b
      BY <1>1, <1>3, <2>1, <2>2, <3>1
    <3>2. CASE a # b
      BY <2>2, <3>2 DEF IInv, Capacity
    <3> QED BY <3>1, <3>2
  <2> QED BY <1>2, <2>1, <2>2, <2>3 DEF IInv
<1>6. CASE realloc_shrink(b, n)
  <2>1. /\ (size[b] - 1) - Align(n) > 1 /\ size' = trim(size, used, b, Align(n))
        /\ used' = used /\ brk' = brk
        /\ req' = [x \in Addr |-> IF x = b THEN n ELSE IF x = b THEN 0 ELSE req[x]]
    BY <1>2, <1>6 DEF realloc_shrink, Put
  <2>2. Align(n) + 1 <= size[b]
    BY <1>1, <1>3, <2>1
  <2> QED BY <1>1, <1>2, <1>3, <1>4, <2>1, <2>2, ResizeOK
<1>7. CASE realloc_prev(b, n)
  <2>1. PICK p \in PrevFree(size, used, b) :
          LET us == Put(Put(used, b, FALSE), p, TRUE)
          IN  /\ size[p] + size[b] - 1 >= Align(n)
              /\ size' = trim(Join(size, p), us, p, Align(n))
              /\ used' = us
              /\ req' = Put(Put(req, b, 0), p, n)
    BY <1>7 DEF realloc_prev
  <2> DEFINE us == Put(Put(used, b, FALSE), p, TRUE)
             J == Join(size, p)
  <2>2. /\ Tiles(J, brk) /\ Marks(J, us) /\ NoFreePair(J, us)
        /\ p \in Addr /\ p # b /\ ~used[p] /\ J[p] = size[p] + size[b]
        /\ \A x \in Addr \ {p} : us[x] => used[x] /\ J[x] = size[x] /\ x # b
    BY <1>2, <1>3, AbsorbPrevOK
  <2>3. /\ size' = trim(J, us, p, Align(n)) /\ used' = us /\ brk' = brk
        /\ req' = [x \in Addr |-> IF x = p THEN n ELSE IF x = b THEN 0 ELSE req[x]]
    BY <1>2, <1>7, <2>1, <2>2 DEF realloc_prev, Put
  <2>4. us[p] /\ ~us[b] /\ \A x \in Addr \ {b, p} : us[x] = used[x]
    BY <1>2, <2>2 DEF Put
  <2>5. Align(n) + 1 <= J[p]
    <3>1. size[p] \in Nat
      BY <1>2, <2>2
    <3> QED BY <1>1, <1>3, <2>1, <2>2, <3>1
  <2>6. Keeps(J, size, us, {p})
    BY <2>2 DEF Keeps
  <2> HIDE DEF us, J
  <2> QED BY <1>1, <2>2, <2>3, <2>4, <2>5, <2>6, ResizeOK
<1>8. CASE realloc_next(b, n)
  <2> DEFINE J == Join(size, b)
  <2>1. /\ IsFree(size, used, b + size[b]) /\ size[b + size[b]] + size[b] - 1 >= Align(n)
        /\ size' = trim(J, used, b, Align(n)) /\ used' = used /\ brk' = brk
        /\ req' = [x \in Addr |-> IF x = b THEN n ELSE IF x = b THEN 0 ELSE req[x]]
    BY <1>2, <1>8 DEF realloc_next, Put
  <2>2. /\ Tiles(J, brk) /\ Marks(J, used) /\ NoFreePair(J, used)
        /\ J[b] = size[b] + size[b + size[b]] /\ Keeps(J, size, used, {b})
    BY <1>2, <1>3, <2>1, AbsorbNextOK
  <2>3. Align(n) + 1 <= J[b]
    <3>1. size[b + size[b]] \in Nat
      BY <1>2, <2>1 DEF IsFree, IsBlock
    <3> QED BY <1>1, <1>3, <2>1, <2>2, <3>1
  <2> HIDE DEF J
  <2> QED BY <1>1, <1>3, <2>1, <2>2, <2>3, ResizeOK
<1>9. CASE realloc_both(b, n)
  <2>1. IsFree(size, used, b + size[b]) /\ brk' = brk
    BY <1>9 DEF realloc_both
  <2>2. PICK p \in PrevFree(size, used, b) :
          LET us == Put(Put(used, b, FALSE), p, TRUE)
          IN  /\ size[p] + size[b] + size[b + size[b]] - 1 >= Align(n)
              /\ size' = trim(Join(Join(size, b), p), us, p, Align(n))
              /\ used' = us
              /\ req' = Put(Put(req, b, 0), p, n)
    BY <1>9 DEF realloc_both
  <2> DEFINE us == Put(Put(used, b, FALSE), p, TRUE)
             K == Join(size, b)
             J == Join(K, p)
  <2>3. /\ Tiles(K, brk) /\ Marks(K, used) /\ NoFreePair(K, used)
        /\ K[b] = size[b] + size[b + size[b]] /\ Keeps(K, size, used, {b})
        /\ PrevFree(K, used, b) = PrevFree(size, used, b) /\ K[p] = size[p]
    BY <1>2, <1>3, <2>1, AbsorbNextOK
  <2> HIDE DEF K
  <2>4. /\ Tiles(J, brk) /\ Marks(J, us) /\ NoFreePair(J, us)
        /\ p \in Addr /\ p # b /\ ~used[p] /\ J[p] = K[p] + K[b]
        /\ \A x \in Addr \ {p} : us[x] => used[x] /\ J[x] = K[x] /\ x # b
    BY <1>3, <2>3, AbsorbPrevOK
  <2>5. /\ size' = trim(J, us, p, Align(n)) /\ used' = us
        /\ req' = [x \in Addr |-> IF x = p THEN n ELSE IF x = b THEN 0 ELSE req[x]]
    BY <1>2, <2>2, <2>4 DEF Put, K
  <2>6. us[p] /\ ~us[b] /\ \A x \in Addr \ {b, p} : us[x] = used[x]
    BY <1>2, <2>4 DEF Put
  <2>7. Align(n) + 1 <= J[p]
    <3>1. size[p] \in Nat /\ size[b + size[b]] \in Nat
      BY <1>2, <2>1, <2>4 DEF IsFree, IsBlock
    <3> QED BY <1>1, <1>3, <2>2, <2>3, <2>4, <3>1
  <2>8. Keeps(J, size, us, {p})
    BY <2>3, <2>4 DEF Keeps
  <2> HIDE DEF us, J
  <2> QED BY <1>1, <2>1, <2>4, <2>5, <2>6, <2>7, <2>8, ResizeOK
<1>10. CASE realloc_move(b, n)
  <2>1. adjusted(n) \in Nat /\ 3 <= adjusted(n) /\ n <= 8 * (adjusted(n) - 1)
    BY SizesOK
  <2>2. CASE \E f \in Fits(adjusted(n)) : Swap(size, f, b, adjusted(n), n) /\ brk' = brk
    <3>1. PICK f \in Fits(adjusted(n)) : Swap(size, f, b, adjusted(n), n) /\ brk' = brk
      BY <2>2
    <3>2. f \in Addr /\ IsFree(size, used, f) /\ size[f] >= adjusted(n)
      BY DEF Fits
    <3>3. adjusted(n) <= size[f] /\ Keeps(size, size, used, {})
      BY <1>2, <2>1, <3>2 DEF Keeps
    <3> QED BY <1>1, <1>2, <1>3, <2>1, <3>1, <3>2, <3>3, SwapOK
  <2>3. CASE /\ brk + extendsize(n) <= LIMIT
             /\ Swap(JoinPrev(Extended(n), used, brk), LastFree(n), b, adjusted(n), n)
             /\ brk' = brk + extendsize(n)
    <3> DEFINE r == JoinPrev(Extended(n), used, brk)
               p == LastFree(n)
    <3>0. brk > BASE
      BY <1>2, <1>3, BlockFacts
    <3>1. /\ Tiles(r, brk') /\ Marks(r, used) /\ NoFreePair(r, used)
          /\ p \in Addr /\ IsFree(r, used, p) /\ adjusted(n) <= r[p]
          /\ Keeps(r, size, used, {})
      BY <2>3, <3>0, ExtendedOK
    <3>2. Swap(r, p, b, adjusted(n), n)
      BY <2>3
    <3> HIDE DEF r, p
    <3> QED BY <1>1, <1>3, <2>1, <3>1, <3>2, SwapOK
  <2> QED BY <1>10, <2>2, <2>3 DEF realloc_move
<1> QED BY <1>5, <1>6, <1>7, <1>8, <1>9, <1>10 DEF mm_realloc

(* Every request keeps the invariant. *)
LEMMA Induction == IInv /\ [Next]_vars => IInv'
<1> SUFFICES ASSUME IInv, [Next]_vars PROVE IInv'
  OBVIOUS
<1>1. CASE mm_init
  BY <1>1, mm_initOK
<1>2. CASE \E n \in Requests : mm_malloc(n)
  BY <1>2, mm_mallocOK
<1>3. CASE \E b \in Addr : mm_free(b)
  BY <1>3, mm_freeOK
<1>4. CASE \E b \in Addr, n \in Requests : mm_realloc(b, n)
  BY <1>4, mm_reallocOK
<1>5. CASE UNCHANGED vars
  BY <1>5 DEF vars, IInv, Tiles, Marks, NoFreePair, IsFree, IsBlock, Capacity
<1> QED BY <1>1, <1>2, <1>3, <1>4, <1>5 DEF Next

(* Tiling, marks, merging and capacity together are inductive. *)
THEOREM InductiveInvariant == Spec => []IInv
BY InitOK, Induction, PTL DEF Spec

(* The tables the allocator keeps are always well typed. *)
THEOREM TypeCorrect == Spec => []TypeOK
BY InductiveInvariant, IInvImplies, PTL

(* For every heap size, chunk sizes and requests, after any sequence of    *)
(* mm_malloc, mm_free and mm_realloc the blocks tile the heap, so that     *)
(* NEXT_BLKP and PREV_BLKP always land on a block or on the epilogue.      *)
THEOREM HeapStaysTiled == Spec => [](Tiling /\ MinBlock)
BY InductiveInvariant, IInvImplies, PTL

(* coalesce is complete: it is called often enough, and merges enough,     *)
(* that two free blocks are never adjacent.                                *)
THEOREM HeapStaysCoalesced == Spec => []Coalesced
BY InductiveInvariant, IInvImplies, PTL

(* Every allocated block holds the bytes its owner last asked for.         *)
THEOREM RequestsHaveRoom == Spec => []Capacity
BY InductiveInvariant, IInvImplies, PTL
=============================================================================
