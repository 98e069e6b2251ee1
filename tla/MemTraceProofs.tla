--------------------------- MODULE MemTraceProofs ---------------------------
(***************************************************************************)
(* What parts 1 to 3 of the memory tracer promise, for any set of          *)
(* addresses and sizes and any number of calls.                            *)
(*                                                                         *)
(* memlist is a sorted list, but what the tracers need of it is a table:   *)
(* whether an address is on it, and with which size and count.  The first  *)
(* part shows what alloc and dealloc do to that table (and that they keep  *)
(* the list sorted, without which find would miss items); the second part  *)
(* relates the table to the blocks that libc has really handed out.  The   *)
(* last part adds up the sizes of those blocks.                            *)
(***************************************************************************)
EXTENDS MemTrace, FiniteSetTheorems, WellFoundedInduction, TLAPS

(* Min of a set of naturals, by the well-foundedness of <. *)
LEMMA MinIsLeast ==
  ASSUME NEW S, S \subseteq Nat, S # {}
  PROVE  Min(S) \in S /\ \A j \in S : Min(S) <= j
<1> DEFINE R == OpToRel(<, Nat)
<1>1. \E x \in S : \A y \in S : ~(<<y, x>> \in R)
  BY NatLessThanWellFounded, WFMin
<1>2. PICK x \in S : \A y \in S : ~(<<y, x>> \in R)
  BY <1>1
<1>a. R = {ss \in Nat \X Nat : ss[1] < ss[2]}
  BY Zenon DEF OpToRel
<1> HIDE DEF R
<1>3. \A y \in S : x <= y
  <2> SUFFICES ASSUME NEW y \in S, y < x PROVE FALSE
    OBVIOUS
  <2>1. <<y, x>> \in R
    BY <1>a
  <2> QED BY <1>2, <2>1
<1> QED BY <1>3 DEF Min

(* memlist's items, and the order find relies on. *)
Items == [ptr : Ptrs \cup {NULL}, size : Nat, cnt : Int]

Sorted(l) == \A j, k \in DOMAIN l : j < k => l[j].ptr < l[k].ptr

IsList(l) == l \in Seq(Items) /\ Sorted(l)

(* Addresses and sizes are positive numbers: NULL is none of them. *)
LEMMA PtrsAreNat ==
  Ptrs \subseteq Nat \ {0} /\ Ptrs \cup {NULL} \subseteq Nat /\ NULL = 0 /\ Sizes \subseteq Nat \ {0}
BY MemTraceAssumption DEF NULL

(* The types of an item's fields. *)
LEMMA ItemFacts ==
  \A i \in Items : i.ptr \in Ptrs \cup {NULL} /\ i.ptr \in Nat /\ i.size \in Nat /\ i.cnt \in Int
<1>1. \A i \in Items : i.ptr \in Ptrs \cup {NULL} /\ i.size \in Nat /\ i.cnt \in Int
  BY DEF Items
<1>2. Ptrs \cup {NULL} \subseteq Nat
  BY PtrsAreNat
<1> QED BY <1>1, <1>2

(* The scan stops at the first item whose address is not below ptr. *)
LEMMA AtOK ==
  ASSUME NEW l \in Seq(Items), NEW ptr
  PROVE  /\ At(l, ptr) \in 0 .. Len(l)
         /\ At(l, ptr) = 0 => \A k \in 1 .. Len(l) : ~(l[k].ptr >= ptr)
         /\ At(l, ptr) # 0 => /\ l[At(l, ptr)].ptr >= ptr
                              /\ \A k \in 1 .. (At(l, ptr) - 1) : ~(l[k].ptr >= ptr)
<1> DEFINE I == {i \in 1 .. Len(l) : l[i].ptr >= ptr}
<1>1. At(l, ptr) = IF I # {} THEN Min(I) ELSE 0
  BY DEF At, SelectInSeq
<1>2. Len(l) \in Nat
  OBVIOUS
<1>3. I \subseteq Nat
  BY <1>2
<1>4. CASE I = {}
  BY <1>1, <1>2, <1>4
<1>5. CASE I # {}
  <2>1. At(l, ptr) \in I /\ \A j \in I : At(l, ptr) <= j
    <3> HIDE DEF I
    <3> QED BY <1>1, <1>3, <1>5, MinIsLeast
  <2> QED BY <1>2, <2>1
<1> QED BY <1>4, <1>5

(* In a sorted list find returns the only position of an address. *)
LEMMA FindOK ==
  ASSUME NEW l, IsList(l), NEW ptr \in Ptrs \cup {NULL}
  PROVE  /\ find(l, ptr) \in 0 .. Len(l)
         /\ \A k \in 1 .. Len(l) : l[k].ptr = ptr <=> k = find(l, ptr)
<1>1. l \in Seq(Items) /\ ptr \in Nat /\ Len(l) \in Nat /\ DOMAIN l = 1 .. Len(l)
  BY PtrsAreNat DEF IsList
<1>2. \A k \in 1 .. Len(l) : l[k].ptr \in Nat
  <2>1. \A k \in 1 .. Len(l) : l[k] \in Items
    BY <1>1
  <2> QED BY <2>1, ItemFacts
<1>3. \A j, k \in 1 .. Len(l) : j < k => l[j].ptr < l[k].ptr
  BY <1>1 DEF IsList, Sorted
<1>4. \A k \in 1 .. Len(l) : l[k].ptr = ptr => k = At(l, ptr)
  <2> SUFFICES ASSUME NEW k \in 1 .. Len(l), l[k].ptr = ptr PROVE k = At(l, ptr)
    OBVIOUS
  <2>1. At(l, ptr) \in 1 .. Len(l) /\ l[At(l, ptr)].ptr >= ptr
    BY <1>1, <1>2, AtOK
  <2>2. ~(k < At(l, ptr))
    BY <1>1, <1>2, <2>1, AtOK
  <2>3. ~(At(l, ptr) < k)
    BY <1>1, <1>2, <1>3, <2>1
  <2> QED BY <1>1, <2>1, <2>2, <2>3
<1>5. At(l, ptr) \in 0 .. Len(l)
  BY <1>1, AtOK
<1> QED BY <1>1, <1>4, <1>5 DEF find

(* The items of a list, without their order. *)
LEMMA RangeOK ==
  ASSUME NEW l \in Seq(Items)
  PROVE  Range(l) = {l[k] : k \in 1 .. Len(l)} /\ Range(l) \subseteq Items
BY DEF Range

(* The items of the other addresses, and how often ptr is allocated. *)
Without(l, ptr) == {i \in Range(l) : i.ptr # ptr}

Count(l, ptr) == IF find(l, ptr) = 0 THEN 0 ELSE l[find(l, ptr)].cnt

(* A change of the item at position k. *)
LEMMA ReplaceOK ==
  ASSUME NEW l, IsList(l), NEW k \in 1 .. Len(l), NEW i \in Items, i.ptr = l[k].ptr,
         NEW m, m = [l EXCEPT ![k] = i]
  PROVE  IsList(m) /\ Range(m) = Without(l, i.ptr) \cup {i}
<1>1. l \in Seq(Items) /\ DOMAIN l = 1 .. Len(l) /\ Sorted(l)
  BY DEF IsList
<1>2. m \in Seq(Items) /\ Len(m) = Len(l) /\ DOMAIN m = 1 .. Len(l)
  BY <1>1
<1>3. \A j \in 1 .. Len(l) : m[j] = IF j = k THEN i ELSE l[j]
  BY <1>1
<1>4. Sorted(m)
  BY <1>1, <1>2, <1>3 DEF Sorted
<1>5. \A j \in 1 .. Len(l) : l[j].ptr \in Nat
  <2>1. \A j \in 1 .. Len(l) : l[j] \in Items
    BY <1>1
  <2> QED BY <2>1, ItemFacts
<1>6. \A j \in 1 .. Len(l) : j # k => l[j].ptr # i.ptr
  BY <1>1, <1>5 DEF Sorted
<1>7. Range(l) = {l[j] : j \in 1 .. Len(l)} /\ Range(m) = {m[j] : j \in 1 .. Len(l)}
  BY <1>1, <1>2 DEF Range
<1>8. Range(m) = Without(l, i.ptr) \cup {i}
  <2>1. ASSUME NEW x \in Range(m) PROVE x \in Without(l, i.ptr) \cup {i}
    <3>1. PICK j \in 1 .. Len(l) : x = m[j]
      BY <1>7
    <3>2. CASE j = k
      BY <1>3, <3>1, <3>2
    <3>3. CASE j # k
      <4>1. x = l[j] /\ l[j].ptr # i.ptr
        BY <1>3, <1>6, <3>1, <3>3
      <4>2. l[j] \in Range(l)
        BY <1>7
      <4> QED BY <4>1, <4>2 DEF Without
    <3> QED BY <3>2, <3>3
  <2>2. ASSUME NEW x \in Without(l, i.ptr) PROVE x \in Range(m)
    <3>1. PICK j \in 1 .. Len(l) : x = l[j] /\ l[j].ptr # i.ptr
      BY <1>7 DEF Without
    <3>2. m[j] = x
      BY <1>3, <3>1
    <3> QED BY <1>7, <3>2
  <2>3. i \in Range(m)
    BY <1>3, <1>7
  <2> QED BY <2>1, <2>2, <2>3
<1> QED BY <1>2, <1>4, <1>8 DEF IsList

(* memlist's dealloc takes the position of ptr in any order of the list. *)
LEMMA ScanOK ==
  ASSUME NEW l, IsList(l), NEW ptr \in Ptrs \cup {NULL}
  PROVE  SelectInSeq(l, LAMBDA i : i.ptr = ptr) = find(l, ptr)
<1> DEFINE I == {i \in 1 .. Len(l) : l[i].ptr = ptr}
<1>1. SelectInSeq(l, LAMBDA i : i.ptr = ptr) = IF I # {} THEN Min(I) ELSE 0
  BY DEF SelectInSeq
<1>2. Len(l) \in Nat
  BY DEF IsList
<1>3. I \subseteq Nat
  BY <1>2
<1>4. I # {} => Min(I) \in I
  <2> HIDE DEF I
  <2> QED BY <1>3, MinIsLeast
<1>5. \A k \in 1 .. Len(l) : l[k].ptr = ptr <=> k = find(l, ptr)
  BY FindOK
<1>6. find(l, ptr) \in 0 .. Len(l)
  BY FindOK
<1> QED BY <1>1, <1>2, <1>4, <1>5, <1>6

(* dealloc takes 1 from the count of the item of ptr. *)
LEMMA DeallocOK ==
  ASSUME NEW l, IsList(l), NEW ptr \in Ptrs \cup {NULL}
  PROVE  /\ IsList(dealloc(l, ptr))
         /\ find(l, ptr) = 0 => dealloc(l, ptr) = l
         /\ find(l, ptr) # 0 =>
              Range(dealloc(l, ptr)) =
                Without(l, ptr) \cup {Item(ptr, l[find(l, ptr)].size, Count(l, ptr) - 1)}
<1> DEFINE at == find(l, ptr)
<1>1. dealloc(l, ptr) = IF at = 0 THEN l ELSE [l EXCEPT ![at].cnt = @ - 1]
  BY ScanOK DEF dealloc
<1>2. at \in 0 .. Len(l) /\ (at # 0 => l[at].ptr = ptr) /\ Len(l) \in Nat
  BY FindOK DEF IsList
<1> HIDE DEF at
<1>3. CASE at = 0
  BY <1>1, <1>3 DEF at
<1>4. CASE at # 0
  <2>1. at \in 1 .. Len(l)
    BY <1>2, <1>4
  <2>2. l[at] \in Items
    BY <2>1 DEF IsList
  <2> DEFINE i == Item(ptr, l[at].size, l[at].cnt - 1)
  <2>3. i \in Items /\ i.ptr = l[at].ptr
    BY <1>2, <1>4, <2>2 DEF Items, Item
  <2>4. [l[at] EXCEPT !.cnt = @ - 1] = i
    BY <1>2, <1>4, <2>2 DEF Items, Item
  <2>5. dealloc(l, ptr) = [l EXCEPT ![at] = i]
    BY <1>1, <1>4, <2>1, <2>4 DEF IsList
  <2> HIDE DEF i
  <2>6. IsList(dealloc(l, ptr)) /\ Range(dealloc(l, ptr)) = Without(l, ptr) \cup {i}
    BY <1>2, <1>4, <2>1, <2>3, <2>5, ReplaceOK
  <2> QED BY <1>4, <2>6 DEF Count, at, i
<1> QED BY <1>3, <1>4

(* A new item in front of the first larger address. *)
LEMMA InsertOK ==
  ASSUME NEW l, IsList(l), NEW i \in Items, NEW k \in 1 .. (Len(l) + 1),
         \A j \in 1 .. Len(l) : IF j < k THEN l[j].ptr < i.ptr ELSE i.ptr < l[j].ptr,
         NEW m \in Seq(Items), Len(m) = Len(l) + 1,
         \A j \in 1 .. (Len(l) + 1) : m[j] = IF j < k THEN l[j] ELSE IF j = k THEN i ELSE l[j - 1]
  PROVE  IsList(m) /\ Range(m) = Without(l, i.ptr) \cup {i}
<1>1. l \in Seq(Items) /\ Len(l) \in Nat /\ DOMAIN l = 1 .. Len(l) /\ DOMAIN m = 1 .. (Len(l) + 1)
  BY DEF IsList
<1>2. \A j \in 1 .. Len(l) : l[j].ptr \in Nat
  BY <1>1, ItemFacts
<1>3. i.ptr \in Nat
  BY ItemFacts
<1>4. \A j, h \in 1 .. Len(l) : j < h => l[j].ptr < l[h].ptr
  BY <1>1 DEF IsList, Sorted
<1>5. Sorted(m)
  <2> SUFFICES ASSUME NEW a \in 1 .. (Len(l) + 1), NEW b \in 1 .. (Len(l) + 1), a < b
               PROVE  m[a].ptr < m[b].ptr
    BY <1>1 DEF Sorted
  <2>1. CASE b < k
    BY <1>1, <1>4, <2>1
  <2>2. CASE b = k
    BY <1>1, <2>2
  <2>3. CASE b > k /\ a < k
    <3>1. m[a] = l[a] /\ m[b] = l[b - 1] /\ a \in 1 .. Len(l) /\ b - 1 \in 1 .. Len(l)
      BY <1>1, <2>3
    <3>2. l[a].ptr < i.ptr /\ i.ptr < l[b - 1].ptr
      BY <1>1, <2>3, <3>1
    <3> QED BY <1>2, <1>3, <3>1, <3>2
  <2>4. CASE b > k /\ a = k
    BY <1>1, <2>4
  <2>5. CASE b > k /\ a > k
    BY <1>1, <1>4, <2>5
  <2> QED BY <1>1, <2>1, <2>2, <2>3, <2>4, <2>5
<1>6. Range(l) = {l[j] : j \in 1 .. Len(l)} /\ Range(m) = {m[j] : j \in 1 .. (Len(l) + 1)}
  BY <1>1 DEF Range
<1>7. \A j \in 1 .. Len(l) : l[j].ptr # i.ptr
  BY <1>2, <1>3
<1>8. ASSUME NEW x \in Range(m) PROVE x \in Without(l, i.ptr) \cup {i}
  <2>1. PICK j \in 1 .. (Len(l) + 1) : x = m[j]
    BY <1>6
  <2>2. CASE j = k
    BY <1>1, <2>1, <2>2
  <2>3. CASE j # k
    <3>1. PICK h \in 1 .. Len(l) : x = l[h]
      BY <1>1, <2>1, <2>3
    <3> QED BY <1>6, <1>7, <3>1 DEF Without
  <2> QED BY <2>2, <2>3
<1>9. ASSUME NEW x \in Range(l) PROVE x \in Range(m)
  <2>1. PICK j \in 1 .. Len(l) : x = l[j]
    BY <1>6
  <2>2. CASE j < k
    BY <1>1, <1>6, <2>1, <2>2
  <2>3. CASE j >= k
    <3>1. j + 1 \in 1 .. (Len(l) + 1) /\ m[j + 1] = l[j]
      BY <1>1, <2>3
    <3> QED BY <1>6, <2>1, <3>1
  <2> QED BY <1>1, <2>2, <2>3
<1>10. i \in Range(m)
  BY <1>1, <1>6
<1>11. Range(m) = Without(l, i.ptr) \cup {i}
  BY <1>8, <1>9, <1>10 DEF Without
<1> QED BY <1>5, <1>11 DEF IsList

(* alloc adds 1 to the count of ptr, with the size of the new block. *)
LEMMA AllocOK ==
  ASSUME NEW l, IsList(l), NEW ptr \in Ptrs \cup {NULL}, NEW size \in Nat
  PROVE  /\ IsList(alloc(l, ptr, size))
         /\ Range(alloc(l, ptr, size)) = Without(l, ptr) \cup {Item(ptr, size, Count(l, ptr) + 1)}
<1> DEFINE at == At(l, ptr)
           m == alloc(l, ptr, size)
<1>1. l \in Seq(Items) /\ Len(l) \in Nat /\ DOMAIN l = 1 .. Len(l) /\ ptr \in Nat
  BY PtrsAreNat DEF IsList
<1>2. /\ at \in 0 .. Len(l)
      /\ at = 0 => \A k \in 1 .. Len(l) : ~(l[k].ptr >= ptr)
      /\ at # 0 => l[at].ptr >= ptr /\ \A k \in 1 .. (at - 1) : ~(l[k].ptr >= ptr)
  BY <1>1, AtOK
<1>3. \A j \in 1 .. Len(l) : l[j].ptr \in Nat
  BY <1>1, ItemFacts
<1>4. m = CASE at = 0 -> Append(l, Item(ptr, size, 1))
            [] at # 0 /\ l[at].ptr = ptr -> [l EXCEPT ![at] = Item(ptr, size, @.cnt + 1)]
            [] OTHER -> InsertAt(l, at, Item(ptr, size, 1))
  BY DEF alloc
<1>5. find(l, ptr) = IF at # 0 /\ l[at].ptr = ptr THEN at ELSE 0
  BY DEF find
<1>6. \A c \in Int : Item(ptr, size, c) \in Items /\ Item(ptr, size, c).ptr = ptr
  BY DEF Item, Items
<1> HIDE DEF at, m
<1>7. CASE at # 0 /\ l[at].ptr = ptr
  <2>1. at \in 1 .. Len(l) /\ l[at].cnt \in Int
    BY <1>1, <1>2, <1>7, ItemFacts
  <2>2. m = [l EXCEPT ![at] = Item(ptr, size, l[at].cnt + 1)]
    BY <1>4, <1>7
  <2>3. IsList(m) /\ Range(m) = Without(l, ptr) \cup {Item(ptr, size, l[at].cnt + 1)}
    <3> DEFINE i == Item(ptr, size, l[at].cnt + 1)
    <3>1. i \in Items /\ i.ptr = l[at].ptr /\ i.ptr = ptr
      BY <1>6, <1>7, <2>1
    <3> HIDE DEF i
    <3>2. m = [l EXCEPT ![at] = i]
      BY <2>2 DEF i
    <3>3. IsList(m) /\ Range(m) = Without(l, i.ptr) \cup {i}
      BY <2>1, <3>1, <3>2, ReplaceOK
    <3> QED BY <3>1, <3>3 DEF i
  <2> QED BY <1>5, <1>7, <2>3 DEF Count, m
<1>8. CASE ~(at # 0 /\ l[at].ptr = ptr)
  <2> DEFINE i == Item(ptr, size, 1)
  <2>1. i \in Items /\ i.ptr = ptr
    BY <1>6
  <2> HIDE DEF i
  <2>2. Count(l, ptr) + 1 = 1
    BY <1>5, <1>8 DEF Count
  <2>3. SUFFICES IsList(m) /\ Range(m) = Without(l, i.ptr) \cup {i}
    BY <2>1, <2>2 DEF i, m
  <2>4. CASE at = 0
    <3>1. m = Append(l, i)
      BY <1>4, <2>4 DEF i
    <3>2. /\ m \in Seq(Items) /\ Len(m) = Len(l) + 1
          /\ \A j \in 1 .. (Len(l) + 1) : m[j] = IF j < Len(l) + 1 THEN l[j]
                                                 ELSE IF j = Len(l) + 1 THEN i ELSE l[j - 1]
      BY <1>1, <2>1, <3>1
    <3>3. \A j \in 1 .. Len(l) : l[j].ptr < i.ptr
      BY <1>1, <1>2, <1>3, <2>1, <2>4
    <3>4. \A j \in 1 .. Len(l) : IF j < Len(l) + 1 THEN l[j].ptr < i.ptr ELSE i.ptr < l[j].ptr
      BY <1>1, <3>3
    <3>5. Len(l) + 1 \in 1 .. (Len(l) + 1)
      BY <1>1
    <3> QED BY <2>1, <3>2, <3>4, <3>5, InsertOK
  <2>5. CASE at # 0
    <3>1. at \in 1 .. Len(l) /\ at \in 1 .. (Len(l) + 1)
      BY <1>1, <1>2, <2>5
    <3>2. m = SubSeq(l, 1, at - 1) \o <<i>> \o SubSeq(l, at, Len(l))
      BY <1>4, <1>8, <2>5 DEF InsertAt, i
    <3>3. /\ m \in Seq(Items) /\ Len(m) = Len(l) + 1
          /\ \A j \in 1 .. (Len(l) + 1) : m[j] = IF j < at THEN l[j]
                                                 ELSE IF j = at THEN i ELSE l[j - 1]
      <4> DEFINE a == SubSeq(l, 1, at - 1)
                 b == SubSeq(l, at, Len(l))
      <4>1. a \in Seq(Items) /\ Len(a) = at - 1 /\ \A j \in 1 .. (at - 1) : a[j] = l[j]
        BY <1>1, <3>1
      <4>2. b \in Seq(Items) /\ Len(b) = Len(l) - at + 1 /\ \A j \in 1 .. (Len(l) - at + 1) : b[j] = l[at + j - 1]
        BY <1>1, <3>1
      <4> HIDE DEF a, b
      <4>3. m = (a \o <<i>>) \o b
        BY <3>2 DEF a, b
      <4>4. /\ a \o <<i>> \in Seq(Items) /\ Len(a \o <<i>>) = at
            /\ \A j \in 1 .. at : (a \o <<i>>)[j] = IF j < at THEN l[j] ELSE i
        BY <2>1, <3>1, <4>1
      <4> DEFINE c == a \o <<i>>
      <4> HIDE DEF c
      <4>5. m = c \o b /\ c \in Seq(Items) /\ Len(c) = at /\ \A j \in 1 .. at : c[j] = IF j < at THEN l[j] ELSE i
        BY <4>3, <4>4 DEF c
      <4>6. m \in Seq(Items) /\ Len(m) = Len(l) + 1
        <5>0. m = c \o b /\ c \in Seq(Items) /\ b \in Seq(Items)
          BY <4>2, <4>5
        <5>1. m \in Seq(Items) /\ Len(m) = Len(c) + Len(b)
          BY ONLY <5>0
        <5> QED BY <1>1, <3>1, <4>2, <4>5, <5>1
      <4>7. \A j \in 1 .. (Len(l) + 1) : m[j] = IF j <= at THEN c[j] ELSE b[j - at]
        BY <1>1, <3>1, <4>2, <4>5
      <4>8. \A j \in 1 .. (Len(l) + 1) : j > at => b[j - at] = l[j - 1]
        BY <1>1, <3>1, <4>2
      <4> QED BY <1>1, <3>1, <4>5, <4>6, <4>7, <4>8
    <3>4. \A j \in 1 .. Len(l) : IF j < at THEN l[j].ptr < i.ptr ELSE i.ptr < l[j].ptr
      <4>1. \A j, h \in 1 .. Len(l) : j < h => l[j].ptr < l[h].ptr
        BY <1>1 DEF IsList, Sorted
      <4>2. l[at].ptr > i.ptr
        BY <1>1, <1>2, <1>3, <1>8, <2>1, <2>5, <3>1
      <4>3. \A j \in 1 .. Len(l) : j >= at => l[at].ptr <= l[j].ptr
        BY <1>1, <1>3, <3>1, <4>1
      <4> QED BY <1>1, <1>2, <1>3, <2>1, <3>1, <4>2, <4>3
    <3> QED BY <2>1, <3>1, <3>3, <3>4, InsertOK
  <2> QED BY <2>4, <2>5
<1> QED BY <1>7, <1>8

(* The list as a table: whether q is on it, and with which size. *)
On(l, q) == find(l, q) # 0

Size(l, q) == IF On(l, q) THEN l[find(l, q)].size ELSE 0

(* The addresses that can be on the list: NULL after a call that failed. *)
Known == Ptrs \cup {NULL}

(* The items of a list are the rows of its table. *)
LEMMA TableOK ==
  ASSUME NEW l, IsList(l)
  PROVE  /\ \A q \in Known : On(l, q) => Item(q, Size(l, q), Count(l, q)) \in Range(l)
         /\ \A i \in Range(l) : /\ i.ptr \in Known /\ On(l, i.ptr)
                                /\ i.size = Size(l, i.ptr) /\ i.cnt = Count(l, i.ptr)
         /\ \A q \in Known : Size(l, q) \in Nat /\ Count(l, q) \in Int
<1>1. l \in Seq(Items) /\ Len(l) \in Nat /\ \A k \in 1 .. Len(l) : l[k] \in Items
  BY DEF IsList
<1>2. Range(l) = {l[k] : k \in 1 .. Len(l)}
  BY <1>1, RangeOK
<1>3. \A q \in Known : /\ find(l, q) \in 0 .. Len(l)
                       /\ \A k \in 1 .. Len(l) : l[k].ptr = q <=> k = find(l, q)
  BY FindOK DEF Known
<1>4. ASSUME NEW q \in Known, On(l, q)
      PROVE  /\ Item(q, Size(l, q), Count(l, q)) \in Range(l)
             /\ Size(l, q) \in Nat /\ Count(l, q) \in Int
  <2> DEFINE k == find(l, q)
  <2>1. k \in 1 .. Len(l) /\ l[k].ptr = q
    BY <1>1, <1>3, <1>4 DEF On
  <2>2. Size(l, q) = l[k].size /\ Count(l, q) = l[k].cnt
    BY <1>4 DEF Size, Count, On
  <2> HIDE DEF k
  <2>3. l[k] \in Items
    BY <1>1, <2>1
  <2>4. l[k] = Item(q, Size(l, q), Count(l, q))
    BY <2>1, <2>2, <2>3 DEF Items, Item
  <2>5. l[k] \in Range(l)
    BY <1>2, <2>1
  <2> QED BY <2>2, <2>3, <2>4, <2>5, ItemFacts
<1>5. ASSUME NEW q \in Known, ~On(l, q) PROVE Size(l, q) \in Nat /\ Count(l, q) \in Int
  BY <1>5 DEF Size, Count, On
<1>6. ASSUME NEW i \in Range(l)
      PROVE  /\ i.ptr \in Known /\ On(l, i.ptr)
             /\ i.size = Size(l, i.ptr) /\ i.cnt = Count(l, i.ptr)
  <2>1. PICK k \in 1 .. Len(l) : i = l[k]
    BY <1>2
  <2>2. i \in Items /\ i.ptr \in Known
    BY <1>1, <2>1, ItemFacts DEF Known
  <2>3. k = find(l, i.ptr)
    BY <1>3, <2>1, <2>2
  <2>4. k # 0
    BY <1>1
  <2> QED BY <2>1, <2>2, <2>3, <2>4 DEF On, Size, Count
<1> QED BY <1>4, <1>5, <1>6

(* A list in which only the item of p has changed. *)
LEMMA SetTable ==
  ASSUME NEW l, IsList(l), NEW m, IsList(m), NEW p \in Known, NEW s \in Nat, NEW c \in Int,
         Range(m) = Without(l, p) \cup {Item(p, s, c)}, NEW q \in Known
  PROVE  /\ On(m, q) <=> q = p \/ On(l, q)
         /\ Count(m, q) = IF q = p THEN c ELSE Count(l, q)
         /\ Size(m, q) = IF q = p THEN s ELSE Size(l, q)
<1>1. Item(p, s, c).ptr = p /\ Item(p, s, c).size = s /\ Item(p, s, c).cnt = c
  BY DEF Item
<1>2. CASE q = p
  BY <1>1, <1>2, TableOK
<1>3. CASE q # p /\ On(l, q)
  <2> DEFINE i == Item(q, Size(l, q), Count(l, q))
  <2>1. i.ptr = q /\ i.size = Size(l, q) /\ i.cnt = Count(l, q)
    BY DEF Item
  <2>2. i \in Range(l)
    BY <1>3, TableOK
  <2> HIDE DEF i
  <2>3. i \in Range(m)
    BY <1>3, <2>1, <2>2 DEF Without
  <2>4. On(m, q) /\ i.size = Size(m, q) /\ i.cnt = Count(m, q)
    BY <2>1, <2>3, TableOK
  <2> QED BY <1>3, <2>1, <2>4
<1>4. CASE q # p /\ ~On(l, q)
  <2>1. ~On(m, q)
    <3> SUFFICES ASSUME On(m, q) PROVE FALSE
      OBVIOUS
    <3> DEFINE i == Item(q, Size(m, q), Count(m, q))
    <3>1. i.ptr = q /\ i \in Range(m)
      <4>1. i.ptr = q
        BY DEF Item
      <4> QED BY <4>1, TableOK
    <3> HIDE DEF i
    <3>2. i \in Range(l)
      BY <1>1, <1>4, <3>1 DEF Without
    <3> QED BY <1>4, <3>1, <3>2, TableOK
  <2> QED BY <1>4, <2>1 DEF On, Size, Count
<1> QED BY <1>2, <1>3, <1>4

(* What alloc does to the table. *)
LEMMA AllocTable ==
  ASSUME NEW l, IsList(l), NEW p \in Known, NEW s \in Nat, NEW m, m = alloc(l, p, s)
  PROVE  /\ IsList(m)
         /\ \A q \in Known : /\ On(m, q) <=> q = p \/ On(l, q)
                             /\ Count(m, q) = IF q = p THEN Count(l, p) + 1 ELSE Count(l, q)
                             /\ Size(m, q) = IF q = p THEN s ELSE Size(l, q)
<1>1. IsList(m) /\ Range(m) = Without(l, p) \cup {Item(p, s, Count(l, p) + 1)}
  BY AllocOK DEF Known
<1>2. Count(l, p) + 1 \in Int
  BY TableOK
<1> QED BY <1>1, <1>2, SetTable

(* What dealloc does to the table. *)
LEMMA DeallocTable ==
  ASSUME NEW l, IsList(l), NEW p \in Known, On(l, p), NEW m, m = dealloc(l, p)
  PROVE  /\ IsList(m)
         /\ \A q \in Known : /\ On(m, q) <=> On(l, q)
                             /\ Count(m, q) = IF q = p THEN Count(l, p) - 1 ELSE Count(l, q)
                             /\ Size(m, q) = Size(l, q)
<1>1. IsList(m) /\ Range(m) = Without(l, p) \cup {Item(p, Size(l, p), Count(l, p) - 1)}
  BY DeallocOK DEF Known, On, Size
<1>2. Count(l, p) - 1 \in Int /\ Size(l, p) \in Nat
  BY TableOK
<1> QED BY <1>1, <1>2, SetTable

(* What realloc does to the table: the old block goes, the new one comes. *)
LEMMA MovedTable ==
  ASSUME NEW l, IsList(l), NEW p \in Known, On(l, p), NEW new \in Known, NEW s \in Nat,
         NEW m, m = alloc(dealloc(l, p), new, s)
  PROVE  /\ IsList(m)
         /\ \A q \in Known : /\ On(m, q) <=> q = new \/ On(l, q)
                             /\ new = p => Count(m, q) = Count(l, q)
                             /\ new # p => Count(m, q) = IF q = p THEN Count(l, p) - 1 
                                                       ELSE IF q = new THEN Count(l, new) + 1
                                                       ELSE Count(l, q)
                             /\ Size(m, q) = IF q = new THEN s ELSE Size(l, q)
<1> DEFINE d == dealloc(l, p)
<1>1. /\ IsList(d)
      /\ \A q \in Known : /\ On(d, q) <=> On(l, q)
                          /\ Count(d, q) = IF q = p THEN Count(l, p) - 1 ELSE Count(l, q)
                          /\ Size(d, q) = Size(l, q)
  BY DeallocTable
<1>2. m = alloc(d, new, s)
  OBVIOUS
<1> HIDE DEF d
<1>3. /\ IsList(m)
      /\ \A q \in Known : /\ On(m, q) <=> q = new \/ On(d, q)
                          /\ Count(m, q) = IF q = new THEN Count(d, new) + 1 ELSE Count(d, q)
                          /\ Size(m, q) = IF q = new THEN s ELSE Size(d, q)
  BY <1>1, <1>2, AllocTable
<1>4. \A q \in Known : Count(l, q) \in Int
  BY TableOK
<1> QED BY <1>1, <1>3, <1>4

(* The state's types; part 1 keeps no list. *)
Typed ==
  /\ part \in 1 .. 3
  /\ blocks \in [Ptrs -> Nat]
  /\ IsList(list)
  /\ part = 1 => list = <<>>

(* In part 3 a count is 0 or 1, and 1 only for a block libc has handed out:  *)
(* what the list says about a pointer can be trusted even after a failure,   *)
(* when a block that could not be moved has dropped off the count.           *)
Vouches ==
  part = 3 /\ ended = "no" =>
    \A p \in Ptrs : Count(list, p) = 0 \/ (Count(list, p) = 1 /\ blocks[p] > 0)

(* As long as no call has failed, counts and sizes are those of libc. *)
Exact ==
  part # 1 /\ ended = "no" /\ ~On(list, NULL) =>
    \A p \in Ptrs : /\ Count(list, p) = IF blocks[p] > 0 THEN 1 ELSE 0
                    /\ blocks[p] > 0 => Size(list, p) = blocks[p]

IInv == Typed /\ Vouches /\ Exact /\ LibcIsSafe

-----------------------------------------------------------------------------
(* NULL is not an address libc hands out. *)
LEMMA NullIsNoPtr == NULL \notin Ptrs /\ Ptrs \subseteq Known /\ NULL \in Known
BY PtrsAreNat DEF Known

(* Nothing is on the empty list. *)
LEMMA EmptyTable == IsList(<<>>) /\ \A q \in Known : ~On(<<>>, q) /\ Count(<<>>, q) = 0
<1>1. IsList(<<>>)
  BY DEF IsList, Sorted
<1>2. \A q \in Known : find(<<>>, q) \in 0 .. Len(<<>>)
  BY <1>1, FindOK DEF Known
<1>3. \A q \in Known : find(<<>>, q) = 0
  BY <1>2
<1> QED BY <1>1, <1>3 DEF On, Count

(* The constructor establishes the invariant. *)
LEMMA InitIInv == Init => IInv
<1> SUFFICES ASSUME Init PROVE IInv
  OBVIOUS
<1>1. Typed
  BY EmptyTable, MemTraceAssumption DEF Init, Typed
<1>2. Vouches /\ Exact
  BY EmptyTable, NullIsNoPtr DEF Init, Vouches, Exact
<1> QED BY <1>1, <1>2 DEF Init, IInv, LibcIsSafe

(* libc keeps the process alive as long as the block is allocated. *)
LEMMA SafeFree ==
  ASSUME NEW ptr, LibcFree(ptr), ptr = NULL \/ blocks[ptr] # 0
  PROVE  ended' = ended
<1>1. ended' = IF ptr # NULL /\ blocks[ptr] = 0 THEN "heap corrupted" ELSE ended
  BY Zenon DEF LibcFree
<1> QED BY ONLY <1>1, ptr = NULL \/ blocks[ptr] # 0, Zenon

(* malloc and calloc: a new block, on the list from part 2 on. *)
LEMMA ListedKeeps ==
  ASSUME IInv, NEW size \in Nat \ {0}, NEW new \in Known, LibcMalloc(new, size),
         list' = Listed(new, size), UNCHANGED <<part, ended>>
  PROVE  IInv'
<1>1. Typed /\ Vouches /\ Exact /\ LibcIsSafe
  BY DEF IInv
<1>2. /\ blocks' \in [Ptrs -> Nat]
      /\ new = NULL => blocks' = blocks
      /\ new # NULL => /\ new \in Ptrs /\ blocks[new] = 0
                      /\ \A p \in Ptrs : blocks'[p] = IF p = new THEN size ELSE blocks[p]
  BY <1>1, NullIsNoPtr DEF Typed, LibcMalloc
<1>3. LibcIsSafe'
  BY <1>1 DEF LibcIsSafe
<1>4. CASE part = 1
  <2>1. list' = list
    BY <1>4 DEF Listed
  <2> QED BY <1>1, <1>2, <1>3, <1>4, <2>1 DEF IInv, Typed, Vouches, Exact
<1>5. CASE part # 1
  <2>1. list' = alloc(list, new, size)
    BY <1>5 DEF Listed
  <2>2. IsList(list) /\ part \in 1 .. 3
    BY <1>1 DEF Typed
  <2>3. /\ IsList(list')
        /\ \A q \in Known : /\ On(list', q) <=> q = new \/ On(list, q)
                            /\ Count(list', q) = IF q = new THEN Count(list, new) + 1 ELSE Count(list, q)
                            /\ Size(list', q) = IF q = new THEN size ELSE Size(list, q)
    BY <2>1, <2>2, AllocTable
  <2>4. Typed'
    BY <1>2, <1>5, <2>2, <2>3 DEF Typed
  <2>5. \A p \in Ptrs : Count(list, p) \in Int /\ blocks[p] \in Nat
    BY <1>1, <2>2, TableOK, NullIsNoPtr DEF Typed
  <2>6. Vouches'
    BY <1>1, <1>2, <2>3, <2>5, NullIsNoPtr DEF Vouches
  <2>7. Exact'
    BY <1>1, <1>2, <2>3, <2>5, NullIsNoPtr DEF Exact
  <2> QED BY <1>3, <2>4, <2>6, <2>7 DEF IInv
<1> QED BY <1>4, <1>5

(* realloc of a listed block, in parts 2 and 3. *)
LEMMA MovedKeeps ==
  ASSUME IInv, part # 1, ended = "no", NEW size \in Nat \ {0}, NEW ptr \in Known, NEW new \in Known,
         On(list, ptr), part = 3 => Count(list, ptr) > 0, part = 2 /\ ptr # NULL => blocks[ptr] > 0,
         LibcRealloc(ptr, new, size), Moved(ptr, new, size), UNCHANGED part,
         ended' = ended \/ (part = 3 /\ ptr # NULL /\ blocks[ptr] = 0)
  PROVE  IInv'
<1>1. Typed /\ Vouches /\ Exact /\ LibcIsSafe
  BY DEF IInv
<1>2. IsList(list) /\ part \in 1 .. 3
  BY <1>1 DEF Typed
<1>3. /\ IsList(list')
      /\ \A q \in Known : /\ On(list', q) <=> q = new \/ On(list, q)
                          /\ new = ptr => Count(list', q) = Count(list, q)
                          /\ new # ptr => Count(list', q) = IF q = ptr THEN Count(list, ptr) - 1
                                                         ELSE IF q = new THEN Count(list, new) + 1
                                                         ELSE Count(list, q)
                          /\ Size(list', q) = IF q = new THEN size ELSE Size(list, q)
  BY <1>2, MovedTable DEF Moved
<1>4. \A p \in Known : Count(list, p) \in Int
  BY <1>2, TableOK
<1>5. \A p \in Ptrs : blocks[p] \in Nat /\ p # NULL /\ p \in Known
  BY <1>1, NullIsNoPtr DEF Typed
<1>6. ended' = "no"
  <2> SUFFICES ASSUME part = 3, ptr # NULL, blocks[ptr] = 0 PROVE FALSE
    OBVIOUS
  <2>1. ptr \in Ptrs
    BY DEF Known
  <2> QED BY <1>1, <1>4, <1>5, <2>1 DEF Vouches
<1>7. LibcIsSafe'
  BY <1>6 DEF LibcIsSafe
<1>8. ptr = NULL \/ ptr \in Ptrs
  BY DEF Known
<1>9. CASE new = NULL
  <2>1. blocks' = blocks
    BY <1>9, NullIsNoPtr DEF LibcRealloc, LibcMalloc
  <2>2. Typed'
    BY <1>1, <1>2, <1>3, <2>1 DEF Typed
  <2>3. Vouches'
    <3> SUFFICES ASSUME part = 3, NEW p \in Ptrs
                 PROVE  Count(list', p) = 0 \/ (Count(list', p) = 1 /\ blocks[p] > 0)
      BY <2>1 DEF Vouches
    <3>1. Count(list, p) = 0 \/ (Count(list, p) = 1 /\ blocks[p] > 0)
      BY <1>1 DEF Vouches
    <3> QED BY <1>3, <1>4, <1>5, <1>9, <3>1
  <2>4. On(list', NULL)
    BY <1>3, <1>9, NullIsNoPtr
  <2> QED BY <1>7, <2>2, <2>3, <2>4 DEF IInv, Exact
<1>10. CASE new # NULL
  <2>1. new \in Ptrs /\ (new = ptr \/ blocks[new] = 0)
    BY <1>10 DEF LibcRealloc, LibcMalloc, Known
  <2>2. /\ blocks' \in [Ptrs -> Nat]
        /\ \A p \in Ptrs : blocks'[p] = IF p = new THEN size ELSE IF p = ptr THEN 0 ELSE blocks[p]
    <3>1. CASE ptr = NULL
      BY <1>1, <1>5, <1>10, <2>1, <3>1 DEF LibcRealloc, LibcMalloc, Typed
    <3>2. CASE ptr # NULL
      BY <1>1, <1>5, <1>8, <1>10, <2>1, <3>2 DEF LibcRealloc, LibcMalloc, Typed
    <3> QED BY <3>1, <3>2
  <2>3. Typed'
    BY <1>2, <1>3, <2>2 DEF Typed
  <2>4. Vouches'
    <3> SUFFICES ASSUME part = 3, NEW p \in Ptrs
                 PROVE  Count(list', p) = 0 \/ (Count(list', p) = 1 /\ blocks'[p] > 0)
      BY DEF Vouches
    <3>1. \A q \in Ptrs : Count(list, q) = 0 \/ (Count(list, q) = 1 /\ blocks[q] > 0)
      BY <1>1 DEF Vouches
    <3>2. new # ptr => Count(list, new) = 0
      BY <1>5, <2>1, <3>1
    <3>3. p = new => Count(list', p) = 1
      BY <1>3, <1>4, <1>5, <2>1, <3>1, <3>2
    <3>4. p # new /\ p = ptr => Count(list', p) = 0
      BY <1>3, <1>4, <1>5, <3>1
    <3>5. p # new /\ p # ptr => Count(list', p) = Count(list, p)
      BY <1>3, <1>5
    <3> QED BY <1>5, <2>1, <2>2, <3>1, <3>3, <3>4, <3>5
  <2>5. Exact'
    <3> SUFFICES ASSUME ~On(list', NULL), NEW p \in Ptrs
                 PROVE  /\ Count(list', p) = IF blocks'[p] > 0 THEN 1 ELSE 0
                        /\ blocks'[p] > 0 => Size(list', p) = blocks'[p]
      BY DEF Exact
    <3>1. ~On(list, NULL)
      BY <1>3, NullIsNoPtr
    <3>2. \A q \in Ptrs : /\ Count(list, q) = IF blocks[q] > 0 THEN 1 ELSE 0
                          /\ blocks[q] > 0 => Size(list, q) = blocks[q]
      BY <1>1, <3>1 DEF Exact
    <3>3. ptr \in Ptrs
      BY <1>8, <3>1
    <3>4. blocks[ptr] > 0
      BY <1>2, <1>4, <1>5, <3>2, <3>3
    <3>5. CASE p = new
      BY <1>3, <1>4, <1>5, <2>1, <2>2, <3>2, <3>4, <3>5
    <3>6. CASE p # new /\ p = ptr
      BY <1>3, <1>4, <1>5, <2>2, <3>2, <3>4, <3>6
    <3>7. CASE p # new /\ p # ptr
      BY <1>3, <1>4, <1>5, <2>2, <3>2, <3>7
    <3> QED BY <3>5, <3>6, <3>7
  <2> QED BY <1>7, <2>3, <2>4, <2>5 DEF IInv
<1> QED BY <1>9, <1>10

(* free of a listed block, in parts 2 and 3. *)
LEMMA FreedKeeps ==
  ASSUME IInv, part # 1, ended = "no", NEW ptr \in Known, On(list, ptr),
         part = 3 => ptr # NULL /\ Count(list, ptr) > 0, part = 2 /\ ptr # NULL => blocks[ptr] > 0,
         Freed(ptr), UNCHANGED part
  PROVE  IInv'
<1>1. Typed /\ Vouches /\ Exact /\ LibcIsSafe
  BY DEF IInv
<1>2. IsList(list) /\ part \in 1 .. 3
  BY <1>1 DEF Typed
<1>3. /\ IsList(list')
      /\ \A q \in Known : /\ On(list', q) <=> On(list, q)
                          /\ Count(list', q) = IF q = ptr THEN Count(list, ptr) - 1 ELSE Count(list, q)
                          /\ Size(list', q) = Size(list, q)
  BY <1>2, DeallocTable DEF Freed
<1>4. \A p \in Known : Count(list, p) \in Int
  BY <1>2, TableOK
<1>5. \A p \in Ptrs : blocks[p] \in Nat /\ p # NULL /\ p \in Known
  BY <1>1, NullIsNoPtr DEF Typed
<1>6. ptr = NULL \/ ptr \in Ptrs
  BY DEF Known
<1>7. ptr # NULL => blocks[ptr] > 0
  BY <1>1, <1>2, <1>4, <1>5, <1>6 DEF Vouches
<1>8. ended' = "no"
  BY <1>5, <1>6, <1>7, SafeFree DEF Freed
<1>9. /\ blocks' \in [Ptrs -> Nat]
      /\ \A p \in Ptrs : blocks'[p] = IF p = ptr THEN 0 ELSE blocks[p]
  BY <1>1, <1>5, <1>6 DEF Freed, LibcFree, Typed
<1>10. Typed'
  BY <1>2, <1>3, <1>9 DEF Typed
<1>11. Vouches'
  BY <1>1, <1>3, <1>4, <1>5, <1>8, <1>9 DEF Vouches
<1>12. Exact'
  <2> SUFFICES ASSUME ~On(list', NULL), NEW p \in Ptrs
               PROVE  /\ Count(list', p) = IF blocks'[p] > 0 THEN 1 ELSE 0
                      /\ blocks'[p] > 0 => Size(list', p) = blocks'[p]
    BY DEF Exact
  <2>1. ~On(list, NULL)
    BY <1>3, NullIsNoPtr
  <2>2. /\ Count(list, p) = IF blocks[p] > 0 THEN 1 ELSE 0
        /\ blocks[p] > 0 => Size(list, p) = blocks[p]
    BY <1>1, <2>1 DEF Exact
  <2>3. ptr # NULL
    BY <2>1
  <2> QED BY <1>3, <1>4, <1>5, <1>7, <1>9, <2>2, <2>3
<1> QED BY <1>8, <1>10, <1>11, <1>12 DEF IInv, LibcIsSafe

(* A process that has ended for another reason. *)
LEMMA EndedKeeps ==
  ASSUME IInv, ended' # "no", LibcIsSafe', UNCHANGED part, blocks' \in [Ptrs -> Nat],
         list' = list \/ list' = <<>>
  PROVE  IInv'
<1>1. Typed'
  BY EmptyTable DEF IInv, Typed
<1> QED BY <1>1 DEF IInv, Vouches, Exact

(* Every call of the client, and fini, keep the invariant. *)
LEMMA NextIInv == IInv /\ [Next]_vars => IInv'
<1> SUFFICES ASSUME IInv, [Next]_vars PROVE IInv'
  OBVIOUS
<1>1. Typed /\ Vouches /\ Exact /\ LibcIsSafe
  BY DEF IInv
<1>2. Sizes \subseteq Nat \ {0} /\ Args \subseteq Known /\ Known = Ptrs \cup {NULL}
  BY PtrsAreNat DEF Args, Known
<1>3. blocks \in [Ptrs -> Nat] /\ part \in 1 .. 3
  BY <1>1 DEF Typed
<1>4. ASSUME NEW size \in Sizes, malloc(size) PROVE IInv'
  BY <1>2, <1>4, ListedKeeps DEF malloc
<1>5. ASSUME NEW nmemb \in 1 .. 2, NEW size \in Sizes, calloc(nmemb, size) PROVE IInv'
  <2>1. nmemb * size \in Nat \ {0}
    <3>1. size \in Nat \ {0} /\ (nmemb = 1 \/ nmemb = 2)
      BY <1>2
    <3> QED BY <3>1
  <2> QED BY <1>2, <1>5, <2>1, ListedKeeps DEF calloc
<1>6. ASSUME NEW ptr \in Args, NEW size \in Sizes, NEW new \in Known, LibcRealloc(ptr, new, size)
      PROVE  blocks' \in [Ptrs -> Nat]
  BY <1>2, <1>3, <1>6 DEF LibcRealloc, LibcMalloc
<1>7. ASSUME NEW ptr \in Args, NEW size \in Sizes, realloc_part1(ptr, size) PROVE IInv'
  <2>1. blocks' \in [Ptrs -> Nat]
    BY <1>2, <1>6, <1>7 DEF realloc_part1
  <2>2. part = 1 /\ UNCHANGED <<part, list, ended>>
    BY <1>7 DEF realloc_part1
  <2>3. Typed'
    BY <1>1, <2>1, <2>2 DEF Typed
  <2>4. Vouches' /\ Exact'
    BY <2>2 DEF Vouches, Exact
  <2> QED BY <1>1, <2>2, <2>3, <2>4 DEF IInv, LibcIsSafe
<1>8. ASSUME NEW ptr \in Args, part = 2, ptr # NULL PROVE blocks[ptr] > 0
  BY <1>8 DEF Args
<1>9. ASSUME NEW ptr \in Args, NEW size \in Sizes, realloc_part2(ptr, size) PROVE IInv'
  <2>1. PICK new \in Known :
          /\ LibcRealloc(ptr, new, size)
          /\ \/ find(list, ptr) = 0 /\ Abort("segfault")
             \/ find(list, ptr) # 0 /\ Moved(ptr, new, size) /\ UNCHANGED ended
    BY <1>2, <1>9 DEF realloc_part2
  <2>2. part = 2 /\ part' = part /\ ended = "no"
    BY <1>9 DEF realloc_part2, Allocating, Counted
  <2>3. CASE Abort("segfault")
    BY <1>6, <2>1, <2>2, <2>3, EndedKeeps DEF Abort, LibcIsSafe
  <2>4. CASE find(list, ptr) # 0 /\ Moved(ptr, new, size) /\ UNCHANGED ended
    BY <1>2, <1>8, <2>1, <2>2, <2>4, MovedKeeps DEF On
  <2> QED BY <2>1, <2>3, <2>4
<1>10. ASSUME NEW ptr \in Known, Allocated(ptr) PROVE On(list, ptr) /\ Count(list, ptr) > 0
  BY <1>10 DEF Allocated, On, Count
<1>11. ASSUME NEW ptr \in Args, NEW size \in Sizes, realloc_part3(ptr, size) PROVE IInv'
  <2> DEFINE p == IF Allocated(ptr) THEN ptr ELSE NULL
  <2>1. part = 3 /\ part' = part /\ ended = "no"
    BY <1>11 DEF realloc_part3, Counted
  <2>2. \/ Abort("endless recursion") /\ UNCHANGED blocks
        \/ /\ Allocated(p)
           /\ \E new \in Ptrs \cup {NULL} : LibcRealloc(p, new, size) /\ Moved(p, new, size)
           /\ ended' = IF p # NULL /\ blocks[p] = 0 THEN "heap corrupted" ELSE ended
    BY <1>11 DEF realloc_part3
  <2>3. p \in Known
    BY <1>2, NullIsNoPtr
  <2> HIDE DEF p
  <2>4. CASE Abort("endless recursion") /\ UNCHANGED blocks
    BY <1>3, <2>1, <2>4, EndedKeeps DEF Abort, LibcIsSafe
  <2>5. CASE /\ Allocated(p)
             /\ \E new \in Ptrs \cup {NULL} : LibcRealloc(p, new, size) /\ Moved(p, new, size)
             /\ ended' = IF p # NULL /\ blocks[p] = 0 THEN "heap corrupted" ELSE ended
    <3>1. PICK new \in Known : LibcRealloc(p, new, size) /\ Moved(p, new, size)
      BY <1>2, <2>5
    <3>2. On(list, p) /\ Count(list, p) > 0
      BY <1>10, <2>3, <2>5
    <3>3. size \in Nat \ {0}
      BY <1>2
    <3>4. ended' = ended \/ (p # NULL /\ blocks[p] = 0)
      BY <2>5, Zenon
    <3> QED BY <2>1, <2>3, <3>1, <3>2, <3>3, <3>4, MovedKeeps
  <2> QED BY <2>2, <2>4, <2>5
<1>12. ASSUME NEW ptr \in Args, free_part1(ptr) PROVE IInv'
  <2>0. LibcFree(ptr) /\ (ptr = NULL \/ (ptr \in Ptrs /\ blocks[ptr] > 0))
    BY <1>12 DEF free_part1, Args
  <2>1. blocks' \in [Ptrs -> Nat]
    BY <1>3, <2>0 DEF LibcFree
  <2>2. ended' = ended
    BY <1>3, <2>0, SafeFree
  <2> QED BY <1>1, <1>12, <2>1, <2>2 DEF free_part1, IInv, Typed, Vouches, Exact, LibcIsSafe
<1>13. ASSUME NEW ptr \in Args, free_part2(ptr) PROVE IInv'
  <2>1. part = 2 /\ part' = part /\ ended = "no"
    BY <1>13 DEF free_part2
  <2>2. CASE find(list, ptr) = 0
    BY <1>3, <1>13, <2>1, <2>2, EndedKeeps DEF free_part2, Abort, LibcIsSafe
  <2>3. CASE find(list, ptr) # 0
    BY <1>2, <1>8, <1>13, <2>1, <2>3, FreedKeeps DEF free_part2, On
  <2> QED BY <2>2, <2>3
<1>14. ASSUME NEW ptr \in Args, free_part3(ptr) PROVE IInv'
  <2>1. part = 3 /\ part' = part /\ ended = "no"
    BY <1>14 DEF free_part3
  <2>2. CASE UNCHANGED <<blocks, list, n_freeb, ended>>
    BY <1>1, <2>1, <2>2 DEF IInv, Typed, Vouches, Exact, LibcIsSafe
  <2>3. CASE ptr # NULL /\ Allocated(ptr) /\ Freed(ptr)
    BY <1>2, <1>10, <2>1, <2>3, FreedKeeps
  <2> QED BY <1>14, <2>2, <2>3 DEF free_part3
<1>15. CASE fini
  BY <1>3, <1>15, EndedKeeps DEF fini, LibcIsSafe
<1>16. CASE UNCHANGED vars
  BY <1>1, <1>16 DEF vars, IInv, Typed, Vouches, Exact, LibcIsSafe
<1> QED BY <1>4, <1>5, <1>7, <1>9, <1>11, <1>12, <1>13, <1>14, <1>15, <1>16 DEF Next

(* The counts of the list never claim a block that libc has not handed out,    *)
(* and are exact as long as no call has failed.                                *)
THEOREM MemTraceInv == Spec => []IInv
<1>1. Init => IInv
  BY InitIInv
<1>2. IInv /\ [Next]_vars => IInv'
  BY NextIInv
<1> QED BY <1>1, <1>2, PTL DEF Spec

(* Whatever the client of part 3 frees and reallocs, and whatever fails, libc   *)
(* is only asked to free or realloc a block that is allocated; so with the      *)
(* clients of parts 1 and 2, who pass blocks that are.                          *)
THEOREM LibcStaysSafe == Spec => []LibcIsSafe
<1>1. IInv => LibcIsSafe
  BY DEF IInv
<1> QED BY <1>1, MemTraceInv, PTL

(* find, which stops at the first larger address, finds every item: memlist's   *)
(* alloc keeps the list sorted and no address is on it twice.                   *)
THEOREM FindFindsAll == Spec => []FindIsComplete
<1>1. IInv => FindIsComplete
  <2> SUFFICES ASSUME IInv, NEW k \in DOMAIN list PROVE find(list, list[k].ptr) = k
    BY DEF FindIsComplete
  <2>1. IsList(list) /\ list \in Seq(Items) /\ DOMAIN list = 1 .. Len(list)
    BY DEF IInv, Typed, IsList
  <2>2. list[k].ptr \in Known
    BY <2>1, ItemFacts DEF Known
  <2> QED BY <2>1, <2>2, FindOK DEF Known
<1> QED BY <1>1, MemTraceInv, PTL

(* As long as libc has not failed, what fini of parts 2 and 3 would log is      *)
(* exactly the set of blocks that are still allocated, with their sizes.        *)
THEOREM ReportsAreExact == Spec => []ReportIsExact
<1>1. IInv => ReportIsExact
  <2> SUFFICES ASSUME IInv, part # 1, ended = "no", ~On(list, NULL)
               PROVE  Reported = {[ptr |-> p, size |-> blocks[p]] : p \in {q \in Ptrs : blocks[q] > 0}}
    BY DEF ReportIsExact, Failed, On
  <2>1. IsList(list) /\ blocks \in [Ptrs -> Nat]
    BY DEF IInv, Typed
  <2>2. \A p \in Ptrs : /\ Count(list, p) = IF blocks[p] > 0 THEN 1 ELSE 0
                        /\ blocks[p] > 0 => Size(list, p) = blocks[p]
    BY DEF IInv, Exact
  <2>3. ASSUME NEW i \in Range(list), i.cnt # 0
        PROVE  i.ptr \in Ptrs /\ blocks[i.ptr] > 0 /\ i.size = blocks[i.ptr]
    <3>1. i.ptr \in Known /\ On(list, i.ptr) /\ i.size = Size(list, i.ptr) /\ i.cnt = Count(list, i.ptr)
      BY <2>1, TableOK
    <3>2. i.ptr \in Ptrs
      BY <3>1 DEF Known
    <3> QED BY <2>2, <2>3, <3>1, <3>2
  <2>4. ASSUME NEW p \in Ptrs, blocks[p] > 0
        PROVE  \E i \in Range(list) : i.cnt # 0 /\ i.ptr = p /\ i.size = blocks[p]
    <3>1. Count(list, p) = 1 /\ Size(list, p) = blocks[p]
      BY <2>2, <2>4
    <3>2. On(list, p)
      BY <3>1 DEF On, Count
    <3>3. Item(p, blocks[p], 1) \in Range(list)
      BY <2>1, <3>1, <3>2, TableOK DEF Known
    <3> QED BY <3>3 DEF Item
  <2> DEFINE R == {[ptr |-> i.ptr, size |-> i.size] : i \in {j \in Range(list) : j.cnt # 0}}
             B == {[ptr |-> p, size |-> blocks[p]] : p \in {q \in Ptrs : blocks[q] > 0}}
  <2>5. ASSUME NEW x \in R PROVE x \in B
    <3>1. PICK i \in Range(list) : i.cnt # 0 /\ x = [ptr |-> i.ptr, size |-> i.size]
      OBVIOUS
    <3>2. i.ptr \in Ptrs /\ blocks[i.ptr] > 0 /\ i.size = blocks[i.ptr]
      BY <2>3, <3>1
    <3> QED BY <3>1, <3>2
  <2>6. ASSUME NEW x \in B PROVE x \in R
    <3>1. PICK p \in Ptrs : blocks[p] > 0 /\ x = [ptr |-> p, size |-> blocks[p]]
      OBVIOUS
    <3>2. PICK i \in Range(list) : i.cnt # 0 /\ i.ptr = p /\ i.size = blocks[p]
      BY <2>4, <3>1
    <3> QED BY <3>1, <3>2
  <2> QED BY <2>5, <2>6 DEF Reported
<1> QED BY <1>1, MemTraceInv, PTL
-----------------------------------------------------------------------------
(* Induction over finite sets: of the sets with a fault there is one that  *)
(* has it no longer without any one of its elements.                       *)
LEMMA SmallestSet ==
  ASSUME NEW S, IsFiniteSet(S), NEW Bad, Bad \subseteq SUBSET S, Bad # {}
  PROVE  \E T \in Bad : \A x \in T : T \ {x} \notin Bad
<1> DEFINE K == {k \in Nat : \E T \in Bad : Cardinality(T) = k}
<1>1. \A T \in Bad : IsFiniteSet(T) /\ Cardinality(T) \in Nat
  BY FS_Subset, FS_CardinalityType
<1>2. K # {} /\ K \subseteq Nat
  BY <1>1
<1>3. PICK k \in K : \A y \in K : k <= y
  <2> HIDE DEF K
  <2> QED BY <1>2, MinIsLeast
<1>4. PICK T \in Bad : Cardinality(T) = k
  BY <1>3
<1>5. ASSUME NEW x \in T, T \ {x} \in Bad PROVE FALSE
  <2>1. Cardinality(T \ {x}) = Cardinality(T) - 1
    BY <1>1, FS_RemoveElement
  <2>2. Cardinality(T \ {x}) \in K
    BY <1>1, <1>5
  <2>3. k \in Nat
    OBVIOUS
  <2> HIDE DEF K
  <2> QED BY <1>3, <1>4, <2>1, <2>2, <2>3
<1> QED BY <1>4, <1>5

-----------------------------------------------------------------------------
(* The sum of the sizes of some blocks. *)
Total(w, S) == FoldFunctionOnSet(+, 0, w, S)

(* The fold adds one block to the sum of the others: a recursive function  *)
(* of sets of blocks.                                                      *)
SumStep(w, f, s) == IF s = {} THEN 0 ELSE w[CHOOSE x \in s : TRUE] + f[s \ {CHOOSE x \in s : TRUE}]
SumFun(w, f, S) == f = [s \in SUBSET S |-> SumStep(w, f, s)]

(* That function exists, by induction over the number of blocks. *)
LEMMA SumExists ==
  ASSUME NEW w, NEW S, IsFiniteSet(S)
  PROVE  \E f : SumFun(w, f, S)
<1> DEFINE Upto(k) == {s \in SUBSET S : Cardinality(s) <= k}
           Good(k) == \E f : f = [s \in Upto(k) |-> SumStep(w, f, s)]
           Bad == {k \in Nat : ~Good(k)}
<1>0. \A s \in SUBSET S : IsFiniteSet(s) /\ Cardinality(s) \in Nat /\ Cardinality(s) <= Cardinality(S)
  BY FS_Subset, FS_CardinalityType
<1>1. ASSUME Bad # {} PROVE FALSE
  <2>1. PICK k \in Bad : \A y \in Bad : k <= y
    <3> HIDE DEF Bad
    <3>1. Bad \subseteq Nat
      BY DEF Bad
    <3> QED BY <1>1, <3>1, MinIsLeast
  <2>2. k # 0
    <3> SUFFICES ASSUME k = 0 PROVE FALSE
      OBVIOUS
    <3>1. \A s \in Upto(0) : s = {}
      BY <1>0, FS_EmptySet
    <3> DEFINE f == [s \in Upto(0) |-> 0]
    <3>2. \A s \in Upto(0) : SumStep(w, f, s) = 0
      BY <3>1 DEF SumStep
    <3>3. f = [s \in Upto(0) |-> SumStep(w, f, s)]
      BY <3>2
    <3> QED BY <2>1, <3>3
  <2>3. k \in Nat /\ k - 1 \in Nat /\ k - 1 \notin Bad
    <3>1. k \in Nat
      BY <2>1
    <3> HIDE DEF Bad
    <3> QED BY <2>1, <2>2, <3>1
  <2>4. PICK g : g = [s \in Upto(k - 1) |-> SumStep(w, g, s)]
    BY <2>3
  <2> DEFINE h == [s \in Upto(k) |-> IF Cardinality(s) = k THEN SumStep(w, g, s) ELSE g[s]]
  <2>5. ASSUME NEW s \in Upto(k) PROVE h[s] = SumStep(w, h, s)
    <3> DEFINE x == CHOOSE x \in s : TRUE
               r == s \ {x}
    <3>1. s # {} => h[r] = g[r]
      <4> SUFFICES ASSUME s # {} PROVE h[r] = g[r]
        OBVIOUS
      <4>1. x \in s
        OBVIOUS
      <4>2. Cardinality(r) = Cardinality(s) - 1 /\ r \in SUBSET S
        BY <1>0, <4>1, FS_RemoveElement
      <4> HIDE DEF r
      <4>3. Cardinality(r) # k /\ r \in Upto(k)
        BY <1>0, <2>3, <4>2
      <4> QED BY <4>3
    <3> HIDE DEF h
    <3>2. SumStep(w, h, s) = SumStep(w, g, s)
      BY <3>1 DEF SumStep
    <3>3. CASE Cardinality(s) = k
      BY <3>2, <3>3 DEF h
    <3>4. CASE Cardinality(s) # k
      <4>1. s \in Upto(k - 1)
        BY <1>0, <2>3, <3>4
      <4>2. g[s] = SumStep(w, g, s)
        BY <2>4, <4>1
      <4> QED BY <3>2, <3>4, <4>2 DEF h
    <3> QED BY <3>3, <3>4
  <2>6. h = [s \in Upto(k) |-> SumStep(w, h, s)]
    <3> DEFINE e == [s \in Upto(k) |-> SumStep(w, h, s)]
    <3>0. h = [s \in Upto(k) |-> h[s]]
      OBVIOUS
    <3> HIDE DEF h
    <3>1. e = [s \in Upto(k) |-> h[s]]
      BY <2>5
    <3> QED BY <3>0, <3>1
  <2>7. Good(k)
    <3> HIDE DEF h
    <3> QED BY <2>6
  <2> HIDE DEF Good
  <2> QED BY <2>1, <2>7
<1>2. Good(Cardinality(S))
  <2>1. Cardinality(S) \in Nat
    BY FS_CardinalityType
  <2> HIDE DEF Good
  <2> QED BY <1>1, <2>1
<1>3. Upto(Cardinality(S)) = SUBSET S
  BY <1>0
<1> QED BY <1>2, <1>3 DEF SumFun

(* What it computes of a set. *)
LEMMA SumIs ==
  ASSUME NEW w, NEW S, IsFiniteSet(S)
  PROVE  \E f : SumFun(w, f, S) /\ Total(w, S) = f[S]
<1> DEFINE f == CHOOSE f : f = [s \in SUBSET S |->
                  IF s = {} THEN 0 ELSE w[CHOOSE x \in s : TRUE] + f[s \ {CHOOSE x \in s : TRUE}]]
<1>1. Total(w, S) = f[S]
  BY DEF Total, FoldFunctionOnSet, MapThenFoldSet
<1>2. SumFun(w, f, S)
  <2>1. PICK g : SumFun(w, g, S)
    BY SumExists
  <2>2. g = [s \in SUBSET S |->
              IF s = {} THEN 0 ELSE w[CHOOSE x \in s : TRUE] + g[s \ {CHOOSE x \in s : TRUE}]]
    BY <2>1 DEF SumFun, SumStep
  <2>3. f = [s \in SUBSET S |->
              IF s = {} THEN 0 ELSE w[CHOOSE x \in s : TRUE] + f[s \ {CHOOSE x \in s : TRUE}]]
    BY <2>2
  <2> HIDE DEF f
  <2> QED BY <2>3 DEF SumFun, SumStep
<1> QED BY <1>1, <1>2

(* It depends on the sizes of the blocks of the set alone. *)
LEMMA SumAgrees ==
  ASSUME NEW w, NEW v, NEW S, NEW T, IsFiniteSet(S), NEW f, NEW g, SumFun(w, f, S), SumFun(v, g, T),
         S \subseteq T, \A i \in S : w[i] = v[i]
  PROVE  \A s \in SUBSET S : f[s] = g[s]
<1> DEFINE Bad == {s \in SUBSET S : f[s] # g[s]}
<1>1. ASSUME Bad # {} PROVE FALSE
  <2>1. PICK s \in Bad : \A x \in s : s \ {x} \notin Bad
    <3>1. Bad \subseteq SUBSET S
      OBVIOUS
    <3> HIDE DEF Bad
    <3> QED BY <1>1, <3>1, SmallestSet
  <2> DEFINE x == CHOOSE x \in s : TRUE
             r == s \ {x}
  <2>2. f[s] = SumStep(w, f, s) /\ g[s] = SumStep(v, g, s)
    BY DEF SumFun
  <2>3. s # {}
    BY <2>2 DEF SumStep
  <2>4. x \in s /\ r \in SUBSET S /\ f[r] = g[r]
    BY <2>1, <2>3
  <2>5. SumStep(w, f, s) = w[x] + f[r] /\ SumStep(v, g, s) = v[x] + g[r]
    BY <2>3 DEF SumStep
  <2> QED BY <2>1, <2>2, <2>4, <2>5
<1> QED BY <1>1

(* A sum of sizes is a size. *)
LEMMA SumType ==
  ASSUME NEW w, NEW S, IsFiniteSet(S), NEW f, SumFun(w, f, S), \A i \in S : w[i] \in Nat
  PROVE  \A s \in SUBSET S : f[s] \in Nat
<1> DEFINE Bad == {s \in SUBSET S : f[s] \notin Nat}
<1>1. ASSUME Bad # {} PROVE FALSE
  <2>1. PICK s \in Bad : \A x \in s : s \ {x} \notin Bad
    <3>1. Bad \subseteq SUBSET S
      OBVIOUS
    <3> HIDE DEF Bad
    <3> QED BY <1>1, <3>1, SmallestSet
  <2> DEFINE x == CHOOSE x \in s : TRUE
             r == s \ {x}
  <2>2. f[s] = SumStep(w, f, s)
    BY DEF SumFun
  <2>3. s # {}
    BY <2>2 DEF SumStep
  <2>4. x \in s /\ r \in SUBSET S /\ f[r] \in Nat
    BY <2>1, <2>3
  <2>5. SumStep(w, f, s) = w[x] + f[r]
    BY <2>3 DEF SumStep
  <2> QED BY <2>1, <2>2, <2>4, <2>5
<1> QED BY <1>1

(* Any block can be the one that is added last. *)
LEMMA SumAnyOrder ==
  ASSUME NEW w, NEW S, IsFiniteSet(S), NEW f, SumFun(w, f, S), \A i \in S : w[i] \in Nat
  PROVE  \A s \in SUBSET S : \A y \in s : f[s] = w[y] + f[s \ {y}]
<1> DEFINE Bad == {s \in SUBSET S : \E y \in s : f[s] # w[y] + f[s \ {y}]}
<1>1. ASSUME Bad # {} PROVE FALSE
  <2>1. PICK s \in Bad : \A x \in s : s \ {x} \notin Bad
    <3>1. Bad \subseteq SUBSET S
      OBVIOUS
    <3> HIDE DEF Bad
    <3> QED BY <1>1, <3>1, SmallestSet
  <2>a. PICK y \in s : f[s] # w[y] + f[s \ {y}]
    OBVIOUS
  <2> DEFINE x == CHOOSE x \in s : TRUE
             r == s \ {x}
             q == s \ {y}
  <2>2. f[s] = w[x] + f[r] /\ x \in s
    BY DEF SumFun, SumStep
  <2>3. x # y
    BY <2>a, <2>2
  <2>4. y \in r /\ x \in q /\ r \in SUBSET S /\ q \in SUBSET S /\ r \notin Bad /\ q \notin Bad
    BY <2>1, <2>2, <2>3
  <2>5. f[r] = w[y] + f[r \ {y}] /\ f[q] = w[x] + f[q \ {x}]
    BY <2>4
  <2>6. r \ {y} = q \ {x} /\ f[r \ {y}] \in Nat /\ w[x] \in Nat /\ w[y] \in Nat
    BY <2>2, <2>4, SumType
  <2>7. f[s] # w[y] + f[q]
    BY <2>a
  <2> HIDE DEF x, r, q
  <2>8. PICK n \in Nat : n = f[r \ {y}] /\ n = f[q \ {x}]
    BY <2>6
  <2>9. f[r] = w[y] + n /\ f[q] = w[x] + n
    BY <2>5, <2>8
  <2> HIDE DEF Bad
  <2> QED BY <2>2, <2>6, <2>7, <2>9
<1> QED BY <1>1

(* It is a number of bytes. *)
LEMMA SumNat ==
  ASSUME NEW w, NEW S, IsFiniteSet(S), \A i \in S : w[i] \in Nat
  PROVE  Total(w, S) \in Nat
<1>1. PICK f : SumFun(w, f, S) /\ Total(w, S) = f[S]
  BY SumIs
<1> QED BY <1>1, SumType

(* What is not in the set does not count. *)
LEMMA SumSame ==
  ASSUME NEW w, NEW v, NEW S, IsFiniteSet(S), \A i \in S : w[i] = v[i]
  PROVE  Total(w, S) = Total(v, S)
<1>1. PICK f : SumFun(w, f, S) /\ Total(w, S) = f[S]
  BY SumIs
<1>2. PICK g : SumFun(v, g, S) /\ Total(v, S) = g[S]
  BY SumIs
<1>3. \A s \in SUBSET S : f[s] = g[s]
  BY <1>1, <1>2, SumAgrees
<1> QED BY <1>1, <1>2, <1>3

(* A block counts once. *)
LEMMA SumRemove ==
  ASSUME NEW w, NEW S, IsFiniteSet(S), \A i \in S : w[i] \in Nat, NEW x \in S
  PROVE  Total(w, S) = w[x] + Total(w, S \ {x})
<1>0. IsFiniteSet(S \ {x})
  BY FS_RemoveElement
<1>1. PICK f : SumFun(w, f, S) /\ Total(w, S) = f[S]
  BY SumIs
<1>2. PICK g : SumFun(w, g, S \ {x}) /\ Total(w, S \ {x}) = g[S \ {x}]
  BY <1>0, SumIs
<1>3. g[S \ {x}] = f[S \ {x}]
  <2>1. S \ {x} \in SUBSET (S \ {x}) /\ S \ {x} \subseteq S /\ \A i \in S \ {x} : w[i] = w[i]
    OBVIOUS
  <2> QED BY <1>0, <1>1, <1>2, <2>1, SumAgrees
<1>4. f[S] = w[x] + f[S \ {x}]
  BY <1>1, SumAnyOrder
<1> QED BY <1>1, <1>2, <1>3, <1>4

(* A block that changes its size changes the total by as much. *)
LEMMA TotalUpdate ==
  ASSUME NEW S, IsFiniteSet(S), NEW b \in [S -> Nat], NEW p \in S,
         NEW c \in [S -> Nat], \A i \in S \ {p} : c[i] = b[i]
  PROVE  /\ Total(b, S) \in Nat /\ Total(c, S) \in Nat
         /\ Total(b, S) >= b[p]
         /\ Total(c, S) = Total(b, S) - b[p] + c[p]
<1>1. \A i \in S : b[i] \in Nat /\ c[i] \in Nat
  OBVIOUS
<1>2. IsFiniteSet(S \ {p})
  BY FS_RemoveElement
<1>3. Total(b, S) = b[p] + Total(b, S \ {p}) /\ Total(c, S) = c[p] + Total(c, S \ {p})
  BY <1>1, SumRemove
<1>4. Total(c, S \ {p}) = Total(b, S \ {p})
  BY <1>1, <1>2, SumSame
<1>5. Total(b, S \ {p}) \in Nat /\ Total(b, S) \in Nat /\ Total(c, S) \in Nat
  <2>1. \A i \in S \ {p} : b[i] \in Nat
    BY <1>1
  <2>2. Total(b, S \ {p}) \in Nat
    BY <1>2, <2>1, SumNat
  <2> QED BY <1>1, <2>2, SumNat
<1>6. b[p] \in Nat /\ c[p] \in Nat
  BY <1>1
<1> QED BY <1>1, <1>3, <1>4, <1>5, <1>6

-----------------------------------------------------------------------------
(* Nothing adds up to nothing. *)
LEMMA SumZero ==
  ASSUME NEW w, NEW S, IsFiniteSet(S), \A i \in S : w[i] = 0
  PROVE  Total(w, S) = 0
<1>1. PICK f : SumFun(w, f, S) /\ Total(w, S) = f[S]
  BY SumIs
<1> DEFINE Bad == {s \in SUBSET S : f[s] # 0}
<1>2. ASSUME Bad # {} PROVE FALSE
  <2>1. PICK s \in Bad : \A x \in s : s \ {x} \notin Bad
    <3>1. Bad \subseteq SUBSET S
      OBVIOUS
    <3> HIDE DEF Bad
    <3> QED BY <1>2, <3>1, SmallestSet
  <2> DEFINE x == CHOOSE x \in s : TRUE
             r == s \ {x}
  <2>2. f[s] = SumStep(w, f, s)
    BY <1>1 DEF SumFun
  <2>3. s # {}
    BY <2>2 DEF SumStep
  <2>4. x \in s /\ r \in SUBSET S /\ f[r] = 0
    BY <2>1, <2>3
  <2>5. SumStep(w, f, s) = w[x] + f[r]
    BY <2>3 DEF SumStep
  <2> QED BY <2>1, <2>2, <2>4, <2>5
<1> QED BY <1>1, <1>2

(* The bytes of the blocks as such a total. *)
LEMMA LiveIs == LiveBytes = Total(blocks, Ptrs) /\ LiveBytes' = Total(blocks', Ptrs)
<1>1. LiveBytes = Total(blocks, Ptrs)
  BY DEF LiveBytes, Total, FoldFunctionOnSet, MapThenFoldSet
<1>2. LiveBytes' = Total(blocks', Ptrs)
  BY DEF LiveBytes, Total, FoldFunctionOnSet, MapThenFoldSet
<1> QED BY <1>1, <1>2

(* It is the same as long as the blocks are. *)
LEMMA LiveSame == blocks' = blocks => LiveBytes' = LiveBytes
BY LiveIs

(* The bytes of the blocks once libc has returned new to malloc. *)
LEMMA MallocBytes ==
  ASSUME blocks \in [Ptrs -> Nat], NEW size \in Nat, NEW new \in Known, LibcMalloc(new, size)
  PROVE  /\ LiveBytes \in Nat
         /\ new = NULL => LiveBytes' = LiveBytes
         /\ new # NULL => LiveBytes' = LiveBytes + size
<1>1. IsFiniteSet(Ptrs) /\ NULL \notin Ptrs
  BY MemTraceAssumption, NullIsNoPtr
<1>2. LiveBytes = Total(blocks, Ptrs) /\ LiveBytes' = Total(blocks', Ptrs)
  BY LiveIs
<1>3. Total(blocks, Ptrs) \in Nat
  BY <1>1, SumNat
<1>4. CASE new = NULL
  <2>1. blocks' = blocks
    BY <1>1, <1>4 DEF LibcMalloc
  <2> QED BY <1>2, <1>3, <1>4, <2>1
<1>5. CASE new # NULL
  <2>1. new \in Ptrs /\ blocks[new] = 0 /\ blocks' = [blocks EXCEPT ![new] = size]
    BY <1>5 DEF LibcMalloc
  <2>2. /\ new \in Ptrs /\ blocks' \in [Ptrs -> Nat] /\ blocks'[new] = size
        /\ \A i \in Ptrs \ {new} : blocks'[i] = blocks[i]
    BY <2>1
  <2>3. Total(blocks', Ptrs) = Total(blocks, Ptrs) - blocks[new] + blocks'[new]
    BY <1>1, <2>2, TotalUpdate
  <2> QED BY <1>2, <1>3, <1>5, <2>1, <2>2, <2>3
<1> QED BY <1>4, <1>5

(* And once it has returned new to realloc. *)
Bytes(ptr) == IF ptr = NULL THEN 0 ELSE blocks[ptr]

LEMMA ReallocBytes ==
  ASSUME blocks \in [Ptrs -> Nat], NEW size \in Nat, NEW ptr \in Known, NEW new \in Known,
         LibcRealloc(ptr, new, size)
  PROVE  /\ LiveBytes \in Nat /\ Bytes(ptr) \in 0 .. LiveBytes
         /\ new = NULL => LiveBytes' = LiveBytes
         /\ new # NULL => LiveBytes' = LiveBytes - Bytes(ptr) + size
<1>1. IsFiniteSet(Ptrs) /\ NULL \notin Ptrs
  BY MemTraceAssumption, NullIsNoPtr
<1>2. LiveBytes = Total(blocks, Ptrs) /\ LiveBytes' = Total(blocks', Ptrs)
  BY LiveIs
<1>3. Total(blocks, Ptrs) \in Nat
  BY <1>1, SumNat
<1>4. CASE ptr = NULL
  <2>1. LibcMalloc(new, size)
    BY <1>4 DEF LibcRealloc
  <2> QED BY <1>2, <1>3, <1>4, <2>1, MallocBytes DEF Bytes
<1>5. CASE ptr # NULL
  <2>1. ptr \in Ptrs /\ Bytes(ptr) = blocks[ptr]
    BY <1>5 DEF Known, Bytes
  <2> DEFINE c == [blocks EXCEPT ![ptr] = 0]
  <2>2. /\ Total(blocks, Ptrs) >= blocks[ptr] /\ Total(c, Ptrs) \in Nat
        /\ Total(c, Ptrs) = Total(blocks, Ptrs) - blocks[ptr] + 0
    <3>1. c \in [Ptrs -> Nat] /\ c[ptr] = 0 /\ \A i \in Ptrs \ {ptr} : c[i] = blocks[i]
      BY <2>1
    <3> HIDE DEF c
    <3> QED BY <1>1, <2>1, <3>1, TotalUpdate
  <2>3. CASE new = NULL
    <3>1. blocks' = blocks
      BY <1>1, <1>5, <2>3 DEF LibcRealloc
    <3> QED BY <1>2, <1>3, <2>1, <2>2, <2>3, <3>1
  <2>4. CASE new # NULL
    <3>1. new \in Ptrs /\ blocks' = [c EXCEPT ![new] = size] /\ c[new] = 0 /\ c \in [Ptrs -> Nat]
      BY <1>5, <2>1, <2>4 DEF LibcRealloc
    <3> HIDE DEF c
    <3>2. /\ new \in Ptrs /\ c \in [Ptrs -> Nat] /\ blocks' \in [Ptrs -> Nat] /\ blocks'[new] = size
          /\ \A i \in Ptrs \ {new} : blocks'[i] = c[i]
      BY <3>1
    <3>3. Total(blocks', Ptrs) = Total(c, Ptrs) - c[new] + blocks'[new]
      BY <1>1, <3>2, TotalUpdate
    <3> QED BY <1>2, <1>3, <2>1, <2>2, <2>4, <3>1, <3>2, <3>3
  <2> QED BY <2>3, <2>4
<1> QED BY <1>4, <1>5

(* And once it has freed ptr. *)
LEMMA FreeBytes ==
  ASSUME blocks \in [Ptrs -> Nat], NEW ptr \in Known, LibcFree(ptr)
  PROVE  LiveBytes \in Nat /\ Bytes(ptr) \in 0 .. LiveBytes /\ LiveBytes' = LiveBytes - Bytes(ptr)
<1>1. IsFiniteSet(Ptrs) /\ NULL \notin Ptrs
  BY MemTraceAssumption, NullIsNoPtr
<1>2. LiveBytes = Total(blocks, Ptrs) /\ LiveBytes' = Total(blocks', Ptrs)
  BY LiveIs
<1>3. Total(blocks, Ptrs) \in Nat
  BY <1>1, SumNat
<1>4. CASE ptr = NULL
  BY <1>2, <1>3, <1>4 DEF LibcFree, Bytes
<1>5. CASE ptr # NULL
  <2>1. ptr \in Ptrs /\ Bytes(ptr) = blocks[ptr] /\ blocks' = [blocks EXCEPT ![ptr] = 0]
    BY <1>5 DEF Known, Bytes, LibcFree
  <2>2. /\ ptr \in Ptrs /\ blocks' \in [Ptrs -> Nat] /\ blocks'[ptr] = 0
        /\ \A i \in Ptrs \ {ptr} : blocks'[i] = blocks[i]
    BY <2>1
  <2>3. Total(blocks, Ptrs) >= blocks[ptr] /\ Total(blocks', Ptrs) = Total(blocks, Ptrs) - blocks[ptr] + 0
    BY <1>1, <2>2, TotalUpdate
  <2> QED BY <1>2, <1>3, <2>1, <2>3
<1> QED BY <1>4, <1>5

(* The counters are numbers of bytes, and they balance. *)
BytesOK == n_allocb \in Nat /\ n_freeb \in Nat /\ BytesBalance

(* A call of realloc for a listed block. *)
LEMMA MovedBytes ==
  ASSUME IInv, BytesOK, part # 1, ended = "no", NEW size \in Nat \ {0}, NEW ptr \in Known, NEW new \in Known,
         On(list, ptr), part = 3 => Count(list, ptr) > 0, part = 2 /\ ptr # NULL => blocks[ptr] > 0,
         LibcRealloc(ptr, new, size), Moved(ptr, new, size), UNCHANGED part,
         NEW n \in Nat, n_allocb' = n_allocb + n, n >= size, ptr # NULL => n = size
  PROVE  BytesOK'
<1>1. IsList(list) /\ blocks \in [Ptrs -> Nat]
  BY DEF IInv, Typed
<1>2. \A p \in Known : Size(list, p) \in Nat /\ Count(list, p) \in Int
  BY <1>1, TableOK
<1>3. n_freeb' = n_freeb + Size(list, ptr) /\ \A q \in Known : On(list', q) <=> q = new \/ On(list, q)
  <2>1. list' = alloc(dealloc(list, ptr), new, size) /\ n_freeb' = n_freeb + Size(list, ptr)
    BY DEF Moved, On, Size
  <2> QED BY <1>1, <2>1, MovedTable
<1>4. /\ LiveBytes \in Nat /\ Bytes(ptr) \in 0 .. LiveBytes
      /\ new = NULL => LiveBytes' = LiveBytes
      /\ new # NULL => LiveBytes' = LiveBytes - Bytes(ptr) + size
  BY <1>1, ReallocBytes
<1>5. n_allocb \in Nat /\ n_freeb \in Nat /\ LiveBytes <= n_allocb
  BY DEF BytesOK, BytesBalance
<1>7. n_allocb' \in Nat /\ n_freeb' \in Nat /\ LiveBytes' <= n_allocb'
  BY <1>2, <1>3, <1>4, <1>5
<1>8. ASSUME ~Failed' PROVE n_allocb' - n_freeb' = LiveBytes'
  <2>1. ~On(list', NULL)
    BY <1>8 DEF Failed, On
  <2>2. new # NULL /\ ~On(list, NULL) /\ ptr # NULL /\ ptr \in Ptrs
    BY <1>3, <2>1, NullIsNoPtr DEF Known
  <2>3. Count(list, ptr) = (IF blocks[ptr] > 0 THEN 1 ELSE 0) /\ (blocks[ptr] > 0 => Size(list, ptr) = blocks[ptr])
    BY <2>2 DEF IInv, Exact
  <2>4. Size(list, ptr) = Bytes(ptr)
    BY <1>1, <1>2, <2>2, <2>3 DEF Bytes, IInv, Typed
  <2>5. n_allocb - n_freeb = LiveBytes
    BY <2>2 DEF BytesOK, BytesBalance, Failed, On
  <2> QED BY <1>2, <1>3, <1>4, <1>5, <2>2, <2>4, <2>5
<1> QED BY <1>7, <1>8 DEF BytesOK, BytesBalance

(* free of a listed block. *)
LEMMA FreedBytes ==
  ASSUME IInv, BytesOK, part # 1, ended = "no", NEW ptr \in Known, On(list, ptr),
         part = 3 => ptr # NULL /\ Count(list, ptr) > 0, part = 2 /\ ptr # NULL => blocks[ptr] > 0,
         Freed(ptr), UNCHANGED <<part, n_allocb>>
  PROVE  BytesOK'
<1>1. IsList(list) /\ blocks \in [Ptrs -> Nat]
  BY DEF IInv, Typed
<1>2. \A p \in Known : Size(list, p) \in Nat /\ Count(list, p) \in Int
  BY <1>1, TableOK
<1>3. n_freeb' = n_freeb + Size(list, ptr) /\ \A q \in Known : On(list', q) <=> On(list, q)
  BY <1>1, DeallocTable DEF Freed, On, Size
<1>4. LiveBytes \in Nat /\ Bytes(ptr) \in 0 .. LiveBytes /\ LiveBytes' = LiveBytes - Bytes(ptr)
  BY <1>1, FreeBytes DEF Freed
<1>5. n_allocb \in Nat /\ n_freeb \in Nat /\ LiveBytes <= n_allocb
  BY DEF BytesOK, BytesBalance
<1>7. n_allocb' \in Nat /\ n_freeb' \in Nat /\ LiveBytes' <= n_allocb'
  BY <1>2, <1>3, <1>4, <1>5
<1>8. ASSUME ~Failed' PROVE n_allocb' - n_freeb' = LiveBytes'
  <2>1. ~On(list', NULL)
    BY <1>8 DEF Failed, On
  <2>2. ~On(list, NULL) /\ ptr # NULL /\ ptr \in Ptrs
    BY <1>3, <2>1, NullIsNoPtr DEF Known
  <2>3. Count(list, ptr) = (IF blocks[ptr] > 0 THEN 1 ELSE 0) /\ (blocks[ptr] > 0 => Size(list, ptr) = blocks[ptr])
    BY <2>2 DEF IInv, Exact
  <2>4. Size(list, ptr) = Bytes(ptr)
    BY <1>1, <1>2, <2>2, <2>3 DEF Bytes, IInv, Typed
  <2>5. n_allocb - n_freeb = LiveBytes
    BY <2>2 DEF BytesOK, BytesBalance, Failed, On
  <2> QED BY <1>2, <1>3, <1>4, <1>5, <2>4, <2>5
<1> QED BY <1>7, <1>8 DEF BytesOK, BytesBalance

(* malloc and calloc. *)
LEMMA ListedBytes ==
  ASSUME IInv, BytesOK, NEW size \in Nat \ {0}, Allocating(size), UNCHANGED <<part, n_freeb, ended>>,
         \E new \in Ptrs \cup {NULL} : LibcMalloc(new, size) /\ list' = Listed(new, size)
  PROVE  BytesOK'
<1>1. IsList(list) /\ blocks \in [Ptrs -> Nat] /\ part \in 1 .. 3
  BY DEF IInv, Typed
<1>2. PICK new \in Known : LibcMalloc(new, size) /\ list' = Listed(new, size)
  BY DEF Known
<1>3. n_allocb' = n_allocb + size
  BY DEF Allocating, Counted, BytesOK
<1>4. /\ LiveBytes \in Nat
      /\ new = NULL => LiveBytes' = LiveBytes
      /\ new # NULL => LiveBytes' = LiveBytes + size
  BY <1>1, <1>2, MallocBytes
<1>5. n_allocb \in Nat /\ n_freeb \in Nat /\ LiveBytes <= n_allocb
  BY DEF BytesOK, BytesBalance
<1>6. n_allocb' \in Nat /\ n_freeb' \in Nat /\ LiveBytes' <= n_allocb'
  BY <1>3, <1>4, <1>5
<1>7. ASSUME part # 1, ended = "no", ~Failed' PROVE n_allocb' - n_freeb' = LiveBytes'
  <2>1. ~On(list', NULL)
    BY <1>7 DEF Failed, On
  <2>2. \A q \in Known : On(list', q) <=> q = new \/ On(list, q)
    BY <1>1, <1>2, <1>7, AllocTable DEF Listed
  <2>3. new # NULL /\ ~On(list, NULL)
    BY <2>1, <2>2, NullIsNoPtr
  <2>4. n_allocb - n_freeb = LiveBytes
    BY <1>7, <2>3 DEF BytesOK, BytesBalance, Failed, On
  <2> QED BY <1>3, <1>4, <1>5, <2>3, <2>4
<1> QED BY <1>6, <1>7 DEF BytesOK, BytesBalance

(* Every call of the client, and fini, keep the balance. *)
LEMMA NextBytes == IInv /\ BytesOK /\ [Next]_vars => BytesOK'
<1> SUFFICES ASSUME IInv, BytesOK, [Next]_vars PROVE BytesOK'
  OBVIOUS
<1>2. Sizes \subseteq Nat \ {0} /\ Args \subseteq Known /\ Known = Ptrs \cup {NULL}
  BY PtrsAreNat DEF Args, Known
<1>3. blocks \in [Ptrs -> Nat] /\ part \in 1 .. 3 /\ Vouches
  BY DEF IInv, Typed
<1>a. n_allocb \in Nat /\ n_freeb \in Nat /\ LiveBytes <= n_allocb
  BY DEF BytesOK, BytesBalance
<1>4. ASSUME NEW size \in Sizes, malloc(size) PROVE BytesOK'
  BY <1>2, <1>4, ListedBytes DEF malloc
<1>5. ASSUME NEW nmemb \in 1 .. 2, NEW size \in Sizes, calloc(nmemb, size) PROVE BytesOK'
  <2>1. nmemb * size \in Nat \ {0}
    <3>1. size \in Nat \ {0} /\ (nmemb = 1 \/ nmemb = 2)
      BY <1>2
    <3> QED BY <3>1
  <2> QED BY <1>2, <1>5, <2>1, ListedBytes DEF calloc
<1>6. ASSUME NEW ptr \in Args, NEW size \in Sizes, NEW new \in Known, LibcRealloc(ptr, new, size)
      PROVE  LiveBytes \in Nat /\ LiveBytes' \in Nat /\ LiveBytes' <= LiveBytes + size
  <2>1. size \in Nat /\ ptr \in Known
    BY <1>2
  <2>2. /\ LiveBytes \in Nat /\ Bytes(ptr) \in 0 .. LiveBytes
        /\ new = NULL => LiveBytes' = LiveBytes
        /\ new # NULL => LiveBytes' = LiveBytes - Bytes(ptr) + size
    BY <1>3, <1>6, <2>1, ReallocBytes
  <2> QED BY <2>1, <2>2
<1>7. ASSUME NEW ptr \in Args, NEW size \in Sizes, realloc_part1(ptr, size) PROVE BytesOK'
  <2>1. PICK new \in Known : LibcRealloc(ptr, new, size)
    BY <1>2, <1>7 DEF realloc_part1
  <2>2. part = 1 /\ part' = 1 /\ n_allocb' = n_allocb + 1 * size /\ n_freeb' = n_freeb /\ size \in Nat
    BY <1>2, <1>7 DEF realloc_part1, Allocating, Counted
  <2>3. LiveBytes \in Nat /\ LiveBytes' \in Nat /\ LiveBytes' <= LiveBytes + size
    BY <1>6, <2>1
  <2> QED BY <1>a, <2>2, <2>3 DEF BytesOK, BytesBalance
<1>8. ASSUME NEW ptr \in Args, part = 2, ptr # NULL PROVE blocks[ptr] > 0
  BY <1>8 DEF Args
<1>9. ASSUME NEW ptr \in Args, NEW size \in Sizes, realloc_part2(ptr, size) PROVE BytesOK'
  <2>1. PICK new \in Known :
          /\ LibcRealloc(ptr, new, size)
          /\ \/ find(list, ptr) = 0 /\ Abort("segfault")
             \/ find(list, ptr) # 0 /\ Moved(ptr, new, size) /\ UNCHANGED ended
    BY <1>2, <1>9 DEF realloc_part2
  <2>2. part = 2 /\ part' = part /\ ended = "no" /\ n_allocb' = n_allocb + 1 * size /\ size \in Nat \ {0}
    BY <1>2, <1>9 DEF realloc_part2, Allocating, Counted
  <2>3. CASE Abort("segfault")
    <3>1. ended' # "no" /\ n_freeb' = n_freeb
      BY <2>3 DEF Abort
    <3>2. LiveBytes \in Nat /\ LiveBytes' \in Nat /\ LiveBytes' <= LiveBytes + size
      BY <1>6, <2>1
    <3> QED BY <1>a, <2>2, <3>1, <3>2 DEF BytesOK, BytesBalance
  <2>4. CASE find(list, ptr) # 0 /\ Moved(ptr, new, size) /\ UNCHANGED ended
    <3>1. size \in Nat /\ n_allocb' = n_allocb + size /\ size >= size
      BY <1>a, <2>2
    <3> QED BY <1>2, <1>8, <2>1, <2>2, <2>4, <3>1, MovedBytes DEF On
  <2> QED BY <2>1, <2>3, <2>4
<1>10. ASSUME NEW ptr \in Known, Allocated(ptr) PROVE On(list, ptr) /\ Count(list, ptr) > 0
  BY <1>10 DEF Allocated, On, Count
<1>11. ASSUME NEW ptr \in Args, NEW size \in Sizes, realloc_part3(ptr, size) PROVE BytesOK'
  <2> DEFINE p == IF Allocated(ptr) THEN ptr ELSE NULL
  <2>0. PICK n \in Nat : n_allocb' = n_allocb + n /\ n >= size /\ (p = ptr => n = size)
    <3>1. n_allocb' = n_allocb + (IF p = ptr THEN 1 ELSE 2) * size
      BY <1>11 DEF realloc_part3, Counted
    <3>2. CASE p = ptr
      <4>1. n_allocb' = n_allocb + size /\ size \in Nat
        BY <1>2, <1>a, <3>1, <3>2
      <4> QED BY <4>1
    <3>3. CASE p # ptr
      <4>1. n_allocb' = n_allocb + 2 * size /\ 2 * size \in Nat /\ 2 * size >= size
        BY <1>2, <1>a, <3>1, <3>3
      <4> QED BY <3>3, <4>1
    <3> QED BY <3>2, <3>3
  <2>1. part = 3 /\ part' = part /\ ended = "no" /\ size \in Nat \ {0}
    BY <1>2, <1>11 DEF realloc_part3, Counted
  <2>2. \/ Abort("endless recursion") /\ UNCHANGED blocks
        \/ /\ Allocated(p)
           /\ \E new \in Ptrs \cup {NULL} : LibcRealloc(p, new, size) /\ Moved(p, new, size)
    BY <1>11 DEF realloc_part3
  <2>3. p \in Known /\ (p # NULL => n = size)
    BY <1>2, <2>0, NullIsNoPtr
  <2> HIDE DEF p
  <2>4. CASE Abort("endless recursion") /\ UNCHANGED blocks
    <3>1. ended' # "no" /\ n_freeb' = n_freeb /\ LiveBytes' = LiveBytes
      BY <2>4, LiveSame DEF Abort
    <3>2. LiveBytes \in Nat
      <4>1. LiveBytes = Total(blocks, Ptrs)
        BY LiveIs
      <4> QED BY <1>3, <4>1, SumNat, MemTraceAssumption
    <3>3. n_allocb' \in Nat /\ n_allocb <= n_allocb'
      BY <1>a, <2>0
    <3>4. LiveBytes' <= n_allocb'
      BY <1>a, <3>1, <3>2, <3>3
    <3>5. n_freeb' \in Nat
      BY <1>a, <3>1
    <3> QED BY <3>1, <3>3, <3>4, <3>5 DEF BytesOK, BytesBalance
  <2>5. CASE /\ Allocated(p)
             /\ \E new \in Ptrs \cup {NULL} : LibcRealloc(p, new, size) /\ Moved(p, new, size)
    <3>1. PICK new \in Known : LibcRealloc(p, new, size) /\ Moved(p, new, size)
      BY <1>2, <2>5
    <3>2. On(list, p) /\ Count(list, p) > 0
      BY <1>10, <2>3, <2>5
    <3>3. /\ part # 1 /\ ended = "no" /\ part' = part /\ part # 2
          /\ n_allocb' = n_allocb + n /\ n >= size /\ (p # NULL => n = size)
      BY <2>0, <2>1, <2>3
    <3> QED BY <2>1, <2>3, <3>1, <3>2, <3>3, MovedBytes
  <2> QED BY <2>2, <2>4, <2>5
<1>12. ASSUME NEW ptr \in Args, free_part1(ptr) PROVE BytesOK'
  <2>1. LibcFree(ptr) /\ part = 1 /\ UNCHANGED <<part, n_allocb, n_freeb>>
    BY <1>12 DEF free_part1
  <2>2. LiveBytes \in Nat /\ Bytes(ptr) \in 0 .. LiveBytes /\ LiveBytes' = LiveBytes - Bytes(ptr)
    BY <1>2, <1>3, <2>1, FreeBytes
  <2> QED BY <1>a, <2>1, <2>2 DEF BytesOK, BytesBalance
<1>13. ASSUME NEW ptr \in Args, free_part2(ptr) PROVE BytesOK'
  <2>1. part = 2 /\ part' = part /\ ended = "no" /\ n_allocb' = n_allocb
    BY <1>13 DEF free_part2
  <2>2. CASE find(list, ptr) = 0
    <3>1. ended' # "no" /\ n_freeb' = n_freeb /\ LiveBytes' = LiveBytes
      BY <1>13, <2>2, LiveSame DEF free_part2, Abort
    <3> QED BY <1>a, <2>1, <3>1 DEF BytesOK, BytesBalance
  <2>3. CASE find(list, ptr) # 0
    BY <1>2, <1>8, <1>13, <2>1, <2>3, FreedBytes DEF free_part2, On
  <2> QED BY <2>2, <2>3
<1>14. ASSUME NEW ptr \in Args, free_part3(ptr) PROVE BytesOK'
  <2>1. part = 3 /\ part' = part /\ ended = "no" /\ n_allocb' = n_allocb
    BY <1>14 DEF free_part3
  <2>2. CASE UNCHANGED <<blocks, list, n_freeb, ended>>
    BY <2>1, <2>2, LiveSame DEF BytesOK, BytesBalance, Failed
  <2>3. CASE ptr # NULL /\ Allocated(ptr) /\ Freed(ptr)
    BY <1>2, <1>10, <2>1, <2>3, FreedBytes
  <2> QED BY <1>14, <2>2, <2>3 DEF free_part3
<1>15. CASE fini
  <2>1. ended' # "no" /\ LiveBytes' = LiveBytes /\ UNCHANGED <<n_allocb, n_freeb>>
    BY <1>15, LiveSame DEF fini
  <2> QED BY <1>a, <2>1 DEF BytesOK, BytesBalance
<1>16. CASE UNCHANGED vars
  BY <1>16, LiveSame DEF vars, BytesOK, BytesBalance, Failed
<1> QED BY <1>4, <1>5, <1>7, <1>9, <1>11, <1>12, <1>13, <1>14, <1>15, <1>16 DEF Next

(* The statistics that fini logs balance: what libc has handed out is never     *)
(* more than allocated_total, and in parts 2 and 3, until libc fails, it is     *)
(* allocated_total less freed_total.                                            *)
THEOREM BytesDoBalance == Spec => []BytesBalance
<1>1. Init => BytesOK
  <2> SUFFICES ASSUME Init PROVE BytesOK
    OBVIOUS
  <2>1. \A i \in Ptrs : blocks[i] = 0
    BY DEF Init
  <2>2. Total(blocks, Ptrs) = 0
    BY <2>1, SumZero, MemTraceAssumption
  <2>3. LiveBytes = 0
    BY <2>2, LiveIs
  <2> QED BY <2>3 DEF Init, BytesOK, BytesBalance
<1>2. IInv /\ BytesOK /\ [Next]_vars => BytesOK'
  BY NextBytes
<1>3. BytesOK => BytesBalance
  BY DEF BytesOK
<1> QED BY <1>1, <1>2, <1>3, MemTraceInv, PTL DEF Spec
=============================================================================
