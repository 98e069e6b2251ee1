----------------------------- MODULE CsimProofs -----------------------------
(***************************************************************************)
(* The counters of csim.c account for its lines, and csim.c implements the *)
(* cache with least-recently-used replacement, for every shape of cache,   *)
(* every trace, and the traces of the functions of trans.c.  Those         *)
(* functions transpose, by a logic of loads and stores.                    *)
(***************************************************************************)
EXTENDS Trans, FiniteSetTheorems, FunctionTheorems, WellFoundedInduction, TLAPS

(* Lines of the cache, and accesses of a function. *)
LineType == [valid : BOOLEAN, lru_counter : Int, tag : Int]
AccessType == [id : {"L", "S"}, mat : {"A", "B", "marker"}, row : Int, col : Int,
               r : 0 .. 9 \cup {NULL}, when : {"always", "set", "is_diagonal"}]

(* The cache has a shape, and the lines of that shape. *)
Shaped ==
  /\ opt.E \in Nat \ {0}
  /\ \A n \in {opt.s, opt.b, opt.b + opt.s} : 2^n \in Int /\ 2^n > 0
  /\ cache \in [SetIds -> [Lines -> LineType]]
  /\ misses \in Int /\ evictions \in Int

(* LinesAreAccountedFor is inductive with the shape of the cache.  That an *)
(* address falls into a set takes that it is a number, which is so because *)
(* the functions of trans.c compute their indices from loop variables.     *)
CsimInv ==
  /\ Shaped
  /\ job \in Jobs \cup {NULL}
  /\ pc \in Nat \ {0}
  /\ LinesAreAccountedFor
-----------------------------------------------------------------------------
(* A set of naturals has a least element. *)
LEMMA LeastNat ==
  ASSUME NEW S, S \subseteq Nat, S # {}
  PROVE  \E x \in S : \A y \in S : x <= y
<1> DEFINE R == OpToRel(<, Nat)
<1>1. PICK x \in S : \A y \in S : ~(<<y, x>> \in R)
  BY NatLessThanWellFounded, WFMin
<1>a. R = {ss \in Nat \X Nat : ss[1] < ss[2]}
  BY Zenon DEF OpToRel
<1> HIDE DEF R
<1>3. \A y \in S : x <= y
  <2> SUFFICES ASSUME NEW y \in S, y < x PROVE FALSE
    OBVIOUS
  <2>1. <<y, x>> \in R
    BY <1>a
  <2> QED BY <1>1, <2>1
<1> QED BY <1>3

(* FlattenSeq joins sequences by a recursive function, which exists, by    *)
(* induction over how many there are, and whose values are sequences.      *)
FlattenStep(s, f, i) == IF i = 1 THEN s[i] ELSE f[i - 1] \o s[i]

(* There is such a function for any number of sequences. *)
LEMMA FlattenExists ==
  ASSUME NEW s, NEW n \in Nat
  PROVE  \E f : f = [i \in 1 .. n |-> FlattenStep(s, f, i)]
<1> DEFINE Bad == {k \in Nat : ~\E f : f = [i \in 1 .. k |-> FlattenStep(s, f, i)]}
<1>1. ASSUME Bad # {} PROVE FALSE
  <2>1. PICK k \in Bad : \A y \in Bad : k <= y
    <3> HIDE DEF Bad
    <3>1. Bad \subseteq Nat
      BY DEF Bad
    <3> QED BY <1>1, <3>1, LeastNat
  <2>2. k # 0
    <3> SUFFICES ASSUME k = 0 PROVE FALSE
      OBVIOUS
    <3> DEFINE f == [i \in {} |-> 0]
    <3>1. f = [i \in 1 .. 0 |-> FlattenStep(s, f, i)]
      OBVIOUS
    <3> QED BY <2>1, <3>1
  <2>3. k \in Nat /\ k - 1 \in Nat /\ k - 1 \notin Bad
    BY <2>1, <2>2
  <2>4. PICK g : g = [i \in 1 .. (k - 1) |-> FlattenStep(s, g, i)]
    BY <2>3
  <2> DEFINE h == [i \in 1 .. k |-> IF i = k THEN FlattenStep(s, g, k) ELSE g[i]]
  <2>5. \A i \in 1 .. k : h[i] = FlattenStep(s, h, i)
    <3> SUFFICES ASSUME NEW i \in 1 .. k PROVE h[i] = FlattenStep(s, h, i)
      OBVIOUS
    <3>1. i # 1 => h[i - 1] = g[i - 1]
      BY <2>3
    <3>2. FlattenStep(s, h, i) = FlattenStep(s, g, i)
      BY <3>1 DEF FlattenStep
    <3>3. CASE i = k
      BY <3>2, <3>3
    <3>4. CASE i # k
      <4>1. i \in 1 .. (k - 1)
        BY <2>3, <3>4
      <4>2. g[i] = FlattenStep(s, g, i)
        BY <2>4, <4>1
      <4> QED BY <3>2, <3>4, <4>2
    <3> QED BY <3>3, <3>4
  <2>6. h = [i \in 1 .. k |-> FlattenStep(s, h, i)]
    <3> DEFINE e == [i \in 1 .. k |-> FlattenStep(s, h, i)]
    <3>1. e = [i \in 1 .. k |-> h[i]]
      BY <2>5
    <3> QED BY <3>1
  <2> QED BY <2>1, <2>6
<1> QED BY <1>1

(* And its values are sequences over the same set. *)
LEMMA FlattenOK ==
  ASSUME NEW S, NEW s \in Seq(Seq(S))
  PROVE  FlattenSeq(s) \in Seq(S)
<1>1. CASE Len(s) = 0
  <2>1. s = <<>>
    BY <1>1
  <2> QED BY <1>1, <2>1 DEF FlattenSeq
<1>2. CASE Len(s) # 0
  <2> DEFINE f == CHOOSE f : f = [i \in 1 .. Len(s) |-> IF i = 1 THEN s[i] ELSE f[i - 1] \o s[i]]
  <2>1. FlattenSeq(s) = f[Len(s)]
    BY <1>2 DEF FlattenSeq
  <2>2. \E g : g = [i \in 1 .. Len(s) |-> FlattenStep(s, g, i)]
    <3>1. Len(s) \in Nat
      OBVIOUS
    <3> QED BY <3>1, FlattenExists
  <2>3. f = [i \in 1 .. Len(s) |-> IF i = 1 THEN s[i] ELSE f[i - 1] \o s[i]]
    BY <2>2 DEF FlattenStep
  <2> HIDE DEF f
  <2> DEFINE Bad == {k \in 1 .. Len(s) : f[k] \notin Seq(S)}
  <2>4. ASSUME Bad # {} PROVE FALSE
    <3>1. PICK k \in Bad : \A y \in Bad : k <= y
      <4>1. Bad \subseteq Nat
        OBVIOUS
      <4> HIDE DEF Bad
      <4> QED BY <2>4, <4>1, LeastNat
    <3>2. k \in 1 .. Len(s) /\ s[k] \in Seq(S) /\ f[k] \notin Seq(S)
      OBVIOUS
    <3>3. f[k] = IF k = 1 THEN s[k] ELSE f[k - 1] \o s[k]
      BY <2>3, <3>2
    <3>4. k # 1 /\ k - 1 \in 1 .. Len(s)
      BY <3>2, <3>3
    <3>5. k - 1 \notin Bad
      BY <3>1, <3>2
    <3>6. f[k - 1] \in Seq(S)
      BY <3>4, <3>5
    <3> QED BY <3>2, <3>3, <3>4, <3>6
  <2>5. Len(s) \in 1 .. Len(s)
    BY <1>2
  <2> QED BY <2>1, <2>4, <2>5
<1> QED BY <1>1, <1>2
-----------------------------------------------------------------------------
(* The number of lines in use. *)
InUse == {l \in SetIds \X Lines : cache[l[1]][l[2]].valid}

(* There are finitely many. *)
LEMMA InUseFinite ==
  ASSUME Shaped
  PROVE  IsFiniteSet(InUse) /\ Cardinality(InUse) \in Nat
<1>1. IsFiniteSet(SetIds)
  <2>1. 2^opt.s - 1 \in Int
    BY DEF Shaped
  <2> QED BY <2>1, FS_Interval DEF SetIds
<1>2. IsFiniteSet(Lines)
  <2>1. opt.E \in Int
    BY DEF Shaped
  <2> QED BY <2>1, FS_Interval DEF Lines
<1>3. IsFiniteSet(SetIds \X Lines)
  BY <1>1, <1>2, FS_Product
<1>4. InUse \in SUBSET (SetIds \X Lines)
  BY DEF InUse
<1>5. IsFiniteSet(InUse)
  BY <1>3, <1>4, FS_Subset
<1> QED BY <1>5, FS_CardinalityType

(* Every address falls into a set, and its tag is a number. *)
LEMMA AddressOK ==
  ASSUME Shaped, NEW addr \in Int
  PROVE  set(addr) \in SetIds /\ tag(addr) \in Int
<1> DEFINE p == 2^opt.b
           q == 2^opt.s
           r == 2^(opt.b + opt.s)
<1>1. p \in Int /\ p > 0 /\ q \in Int /\ q > 0 /\ r \in Int /\ r > 0
  BY DEF Shaped
<1>2. set(addr) = (addr \div p) % q /\ tag(addr) = addr \div r /\ SetIds = 0 .. (q - 1)
  BY DEF set, tag, SetIds
<1> HIDE DEF p, q, r
<1>3. addr \div p \in Int /\ addr \div r \in Int
  BY <1>1
<1>4. (addr \div p) % q \in 0 .. (q - 1)
  BY <1>1, <1>3
<1> QED BY <1>2, <1>3, <1>4

(* The loop finds the first empty line of a set that has one. *)
LEMMA FirstEmpty ==
  ASSUME Shaped, NEW row, Empty(row) # {}
  PROVE  FirstOf(Empty(row)) \in Empty(row)
<1>1. Empty(row) \subseteq Nat
  BY DEF Empty, Lines, Shaped
<1>2. \E i \in Empty(row) : \A j \in Empty(row) : i <= j
  BY <1>1, LeastNat
<1> QED BY <1>2 DEF FirstOf

(* A new row of lines as good as the old one keeps the shape. *)
LEMMA NewRow ==
  ASSUME Shaped, NEW k \in SetIds, NEW row \in [Lines -> LineType],
         cache' = [cache EXCEPT ![k] = row], UNCHANGED opt,
         misses' \in Int, evictions' \in Int
  PROVE  /\ Shaped' /\ cache'[k] = row
         /\ \A j \in SetIds : j # k => cache'[j] = cache[j]
         /\ SetIds' = SetIds /\ Lines' = Lines
<1>1. SetIds' = SetIds /\ Lines' = Lines
  BY DEF SetIds, Lines
<1>2. cache' \in [SetIds -> [Lines -> LineType]]
  BY DEF Shaped
<1>3. Shaped'
  BY <1>1, <1>2 DEF Shaped
<1> QED BY <1>1, <1>3 DEF Shaped

(* A row with the same lines in use leaves InUse as it is. *)
LEMMA SameInUse ==
  ASSUME Shaped, NEW k \in SetIds, NEW row \in [Lines -> LineType],
         cache' = [cache EXCEPT ![k] = row], UNCHANGED opt,
         misses' \in Int, evictions' \in Int,
         \A i \in Lines : row[i].valid = cache[k][i].valid
  PROVE  Shaped' /\ InUse' = InUse
<1>1. /\ Shaped' /\ cache'[k] = row
      /\ \A j \in SetIds : j # k => cache'[j] = cache[j]
      /\ SetIds' = SetIds /\ Lines' = Lines
  BY NewRow
<1>2. \A j \in SetIds, i \in Lines : cache'[j][i].valid = cache[j][i].valid
  BY <1>1
<1>3. InUse' = {l \in SetIds \X Lines : cache'[l[1]][l[2]].valid}
  BY <1>1 DEF InUse
<1>4. \A l \in SetIds \X Lines : cache'[l[1]][l[2]].valid = cache[l[1]][l[2]].valid
  BY <1>2
<1> QED BY <1>1, <1>3, <1>4 DEF InUse

(* A row with one more line in use adds it. *)
LEMMA OneMoreInUse ==
  ASSUME Shaped, NEW k \in SetIds, NEW row \in [Lines -> LineType],
         cache' = [cache EXCEPT ![k] = row], UNCHANGED opt,
         misses' \in Int, evictions' \in Int,
         NEW e \in Lines, ~cache[k][e].valid, row[e].valid,
         \A i \in Lines : i # e => row[i].valid = cache[k][i].valid
  PROVE  Shaped' /\ Cardinality(InUse') = Cardinality(InUse) + 1
<1>1. /\ Shaped' /\ cache'[k] = row
      /\ \A j \in SetIds : j # k => cache'[j] = cache[j]
      /\ SetIds' = SetIds /\ Lines' = Lines
  BY NewRow
<1>2. \A j \in SetIds, i \in Lines : <<j, i>> # <<k, e>> => cache'[j][i].valid = cache[j][i].valid
  BY <1>1
<1>3. InUse' = {l \in SetIds \X Lines : cache'[l[1]][l[2]].valid}
  BY <1>1 DEF InUse
<1>4. \A l \in SetIds \X Lines : l # <<k, e>> => cache'[l[1]][l[2]].valid = cache[l[1]][l[2]].valid
  BY <1>2
<1>5. <<k, e>> \in InUse' /\ <<k, e>> \notin InUse
  BY <1>1, <1>3 DEF InUse
<1>6. InUse' = InUse \cup {<<k, e>>}
  BY <1>3, <1>4, <1>5 DEF InUse
<1> QED BY <1>1, <1>5, <1>6, InUseFinite, FS_AddElement
-----------------------------------------------------------------------------
(* A hit resets the age of the line and leaves the lines in use. *)
LEMMA HitOK ==
  ASSUME Shaped, LinesAreAccountedFor, NEW id, NEW addr \in Int, Hit(id, addr)
  PROVE  Shaped' /\ LinesAreAccountedFor'
<1> DEFINE row == cache[set(addr)]
           new == HitRow(row, tag(addr))
<1>1. set(addr) \in SetIds /\ row \in [Lines -> LineType]
  BY AddressOK DEF Shaped
<1>2. cache' = [cache EXCEPT ![set(addr)] = new] /\ UNCHANGED <<opt, misses, evictions>>
  BY DEF Hit, Record
<1> HIDE DEF row
<1>3. new \in [Lines -> LineType]
  BY <1>1 DEF HitRow, Aged, LineType
<1>4. \A i \in Lines : new[i].valid = row[i].valid
  BY <1>1 DEF HitRow, Aged, LineType
<1>5. misses' \in Int /\ evictions' \in Int
  BY <1>2 DEF Shaped
<1> HIDE DEF new
<1>6. Shaped' /\ InUse' = InUse
  BY <1>1, <1>2, <1>3, <1>4, <1>5, SameInUse DEF row
<1> QED BY <1>2, <1>6 DEF LinesAreAccountedFor, InUse

(* A miss with an empty line fills the first one. *)
LEMMA FillOK ==
  ASSUME Shaped, LinesAreAccountedFor, NEW id, NEW addr \in Int, Fill(id, addr)
  PROVE  Shaped' /\ LinesAreAccountedFor'
<1> DEFINE row == cache[set(addr)]
           new == FillRow(row, tag(addr))
           e   == FirstOf(Empty(row))
<1>1. set(addr) \in SetIds /\ row \in [Lines -> LineType] /\ tag(addr) \in Int
  BY AddressOK DEF Shaped
<1>2. /\ cache' = [cache EXCEPT ![set(addr)] = new] /\ UNCHANGED <<opt, evictions>>
      /\ misses' = misses + 1 /\ Empty(row) # {}
  BY DEF Fill, Record
<1> HIDE DEF row
<1>3. e \in Lines /\ ~row[e].valid
  <2>1. e \in Empty(row)
    BY <1>2, FirstEmpty
  <2> QED BY <2>1 DEF Empty
<1>4. new = [i \in Lines |-> IF i = e THEN Filled(tag(addr))
                             ELSE IF i < e THEN Aged(row[i]) ELSE row[i]]
  BY DEF FillRow
<1> HIDE DEF new, e
<1>5. new \in [Lines -> LineType]
  <2>1. Filled(tag(addr)) \in LineType
    BY <1>1 DEF Filled, LineType
  <2>2. \A i \in Lines : row[i] \in LineType /\ Aged(row[i]) \in LineType
    BY <1>1 DEF Aged, LineType
  <2> QED BY <1>4, <2>1, <2>2
<1>6. new[e].valid /\ \A i \in Lines : i # e => new[i].valid = row[i].valid
  BY <1>1, <1>3, <1>4 DEF Filled, Aged, LineType
<1>7. misses' \in Int /\ evictions' \in Int
  BY <1>2 DEF Shaped
<1>8. Shaped' /\ Cardinality(InUse') = Cardinality(InUse) + 1
  BY <1>1, <1>2, <1>3, <1>5, <1>6, <1>7, OneMoreInUse DEF row
<1>9. misses - evictions = Cardinality(InUse)
  BY DEF LinesAreAccountedFor, InUse
<1>10. misses' - evictions' = Cardinality(InUse')
  <2>1. misses \in Int /\ evictions \in Int
    BY DEF Shaped
  <2> QED BY <1>2, <1>8, <1>9, <2>1
<1> QED BY <1>8, <1>10 DEF LinesAreAccountedFor, InUse

(* A miss without one replaces a line, and all lines stay in use. *)
LEMMA EvictOK ==
  ASSUME Shaped, LinesAreAccountedFor, NEW id, NEW addr \in Int, Evict(id, addr)
  PROVE  Shaped' /\ LinesAreAccountedFor'
<1> DEFINE row == cache[set(addr)]
           new == EvictRow(row, tag(addr))
           v   == lru_index(row)
<1>1. set(addr) \in SetIds /\ row \in [Lines -> LineType] /\ tag(addr) \in Int
  BY AddressOK DEF Shaped
<1>2. /\ cache' = [cache EXCEPT ![set(addr)] = new] /\ UNCHANGED opt
      /\ misses' = misses + 1 /\ evictions' = evictions + 1 /\ Empty(row) = {}
  BY DEF Evict, Record
<1> HIDE DEF row
<1>3. \A i \in Lines : row[i].valid
  BY <1>2 DEF Empty
<1>4. new = [i \in Lines |-> IF i = v THEN Filled(tag(addr)) ELSE Aged(row[i])]
  BY DEF EvictRow
<1> HIDE DEF new, v
<1>5. new \in [Lines -> LineType]
  <2>1. Filled(tag(addr)) \in LineType
    BY <1>1 DEF Filled, LineType
  <2>2. \A i \in Lines : row[i] \in LineType /\ Aged(row[i]) \in LineType
    BY <1>1 DEF Aged, LineType
  <2> QED BY <1>4, <2>1, <2>2
<1>6. \A i \in Lines : new[i].valid
  BY <1>1, <1>3, <1>4 DEF Filled, Aged, LineType
<1>7. misses \in Int /\ evictions \in Int /\ misses' \in Int /\ evictions' \in Int
  BY <1>2 DEF Shaped
<1>8. \A i \in Lines : new[i].valid = row[i].valid
  <2>1. \A i \in Lines : new[i].valid \in BOOLEAN /\ row[i].valid \in BOOLEAN
    BY <1>1, <1>5 DEF LineType
  <2> QED BY <1>3, <1>6, <2>1
<1>9. Shaped' /\ InUse' = InUse
  BY <1>1, <1>2, <1>5, <1>7, <1>8, SameInUse DEF row
<1>10. misses - evictions = Cardinality(InUse)
  BY DEF LinesAreAccountedFor, InUse
<1>11. misses' - evictions' = Cardinality(InUse')
  BY <1>2, <1>7, <1>9, <1>10
<1> QED BY <1>9, <1>11 DEF LinesAreAccountedFor, InUse

(* A record with id L, S or M. *)
LEMMA AccessOK ==
  ASSUME Shaped, LinesAreAccountedFor, NEW id, NEW addr \in Int, Access(id, addr)
  PROVE  Shaped' /\ LinesAreAccountedFor'
  BY HitOK, FillOK, EvictOK DEF Access
-----------------------------------------------------------------------------
(* A loop whose body yields accesses yields accesses.  This is stated of   *)
(* FlattenSeq, since For takes its body as an operator.                    *)
LEMMA LoopOK ==
  ASSUME NEW m \in Int, NEW s \in [1 .. m -> Seq(AccessType)]
  PROVE  FlattenSeq(s) \in Seq(AccessType)
<1>1. s \in Seq(Seq(AccessType))
  <2>1. CASE m \in Nat
    BY <2>1
  <2>2. CASE m \notin Nat
    <3>1. 1 .. m = 1 .. 0
      BY <2>2
    <3>2. s \in [1 .. 0 -> Seq(AccessType)]
      BY <3>1
    <3> QED BY <3>2
  <2> QED BY <2>1, <2>2
<1> QED BY <1>1, FlattenOK

(* Loads and stores are accesses. *)
LEMMA LoadStoreOK ==
  ASSUME NEW row \in Int, NEW col \in Int, NEW r \in 0 .. 9
  PROVE  /\ \A mat \in {"A", "B"} : Load(mat, row, col, r) \in AccessType
         /\ Store(row, col, r) \in AccessType
  BY DEF Load, Store, AccessType

(* As are those of a copy of one element to another place. *)
LEMMA CopyOK ==
  ASSUME NEW row \in Int, NEW col \in Int, NEW x \in Int, NEW y \in Int, NEW r \in 0 .. 9
  PROVE  <<Load("A", row, col, r), Store(x, y, r)>> \in Seq(AccessType)
<1>1. Load("A", row, col, r) \in AccessType /\ Store(x, y, r) \in AccessType
  BY LoadStoreOK
<1> QED BY <1>1

(* The functions of trans.c, loop by loop from the inside. *)
LEMMA transOK ==
  ASSUME NEW M \in Int, NEW N \in Int
  PROVE  trans(M, N) \in Seq(AccessType)
<1> DEFINE Body(i, j) == <<Load("A", i, j, 9), Store(j, i, 9)>>
           Row(i)     == For(0, M, 1, LAMBDA j : Body(i, j))
           All        == For(0, N, 1, LAMBDA i : Row(i))
<1>1. \A i, j \in Int : Body(i, j) \in Seq(AccessType)
  BY CopyOK
<1>2. ASSUME NEW i \in Int PROVE Row(i) \in Seq(AccessType)
  <2> DEFINE m == (M - 0 + 1 - 1) \div 1
             s == [n \in 1 .. m |-> Body(i, 0 + (n - 1) * 1)]
  <2>1. Row(i) = FlattenSeq(s)
    BY DEF For
  <2> HIDE DEF Body
  <2>2. m \in Int /\ s \in [1 .. m -> Seq(AccessType)]
    BY <1>1
  <2> HIDE DEF m, s
  <2> QED BY <2>1, <2>2, LoopOK
<1>3. All \in Seq(AccessType)
  <2> DEFINE m == (N - 0 + 1 - 1) \div 1
             s == [n \in 1 .. m |-> Row(0 + (n - 1) * 1)]
  <2>1. All = FlattenSeq(s)
    BY DEF For
  <2> HIDE DEF Row
  <2>2. m \in Int /\ s \in [1 .. m -> Seq(AccessType)]
    BY <1>2
  <2> HIDE DEF m, s
  <2> QED BY <2>1, <2>2, LoopOK
<1> QED BY <1>3 DEF trans

(* A row whose element on the diagonal is stored last. *)
LEMMA DiagonalLastOK ==
  ASSUME NEW k \in Int, NEW lo \in Int, NEW hi \in Int
  PROVE  DiagonalLast(k, lo, hi) \in Seq(AccessType)
<1> DEFINE Body(l) == IF k # l THEN <<Load("A", k, l, 0), Store(l, k, 0)>>
                      ELSE <<[Load("A", k, l, 9) EXCEPT !.when = "set"]>>
           Row     == For(lo, hi, 1, LAMBDA l : Body(l))
           last    == [Store(k, k, 9) EXCEPT !.when = "is_diagonal"]
<1>1. ASSUME NEW l \in Int PROVE Body(l) \in Seq(AccessType)
  <2>1. [Load("A", k, l, 9) EXCEPT !.when = "set"] \in AccessType
    BY DEF Load, AccessType
  <2>2. <<Load("A", k, l, 0), Store(l, k, 0)>> \in Seq(AccessType)
    BY CopyOK
  <2> QED BY <2>1, <2>2
<1>2. Row \in Seq(AccessType)
  <2> DEFINE m == (hi - lo + 1 - 1) \div 1
             s == [n \in 1 .. m |-> Body(lo + (n - 1) * 1)]
  <2>1. Row = FlattenSeq(s)
    BY DEF For
  <2> HIDE DEF Body
  <2>2. m \in Int /\ s \in [1 .. m -> Seq(AccessType)]
    BY <1>1
  <2> HIDE DEF m, s
  <2> QED BY <2>1, <2>2, LoopOK
<1>3. last \in AccessType
  BY DEF Store, AccessType
<1>4. DiagonalLast(k, lo, hi) = Row \o <<last>>
  BY DEF DiagonalLast
<1> HIDE DEF Row, last
<1> QED BY <1>2, <1>3, <1>4

(* The accesses of trans_32_32. *)
LEMMA trans_32_32OK ==
  ASSUME NEW M \in Int, NEW N \in Int
  PROVE  trans_32_32(M, N) \in Seq(AccessType)
<1> DEFINE Body(k, j)  == DiagonalLast(k, j, j + BLOCK_SIZE)
           Block(i, j) == For(i, i + BLOCK_SIZE, 1, LAMBDA k : Body(k, j))
           Row(i)      == For(0, M, BLOCK_SIZE, LAMBDA j : Block(i, j))
           All         == For(0, N, BLOCK_SIZE, LAMBDA i : Row(i))
<1>0. BLOCK_SIZE \in Int /\ BLOCK_SIZE > 0
  BY DEF BLOCK_SIZE
<1>1. \A k, j \in Int : Body(k, j) \in Seq(AccessType)
  BY <1>0, DiagonalLastOK
<1>2. ASSUME NEW i \in Int, NEW j \in Int PROVE Block(i, j) \in Seq(AccessType)
  <2> DEFINE m == ((i + BLOCK_SIZE) - i + 1 - 1) \div 1
             s == [n \in 1 .. m |-> Body(i + (n - 1) * 1, j)]
  <2>1. Block(i, j) = FlattenSeq(s)
    BY DEF For
  <2> HIDE DEF Body
  <2>2. m \in Int /\ s \in [1 .. m -> Seq(AccessType)]
    BY <1>0, <1>1
  <2> HIDE DEF m, s
  <2> QED BY <2>1, <2>2, LoopOK
<1>3. ASSUME NEW i \in Int PROVE Row(i) \in Seq(AccessType)
  <2> DEFINE m == (M - 0 + BLOCK_SIZE - 1) \div BLOCK_SIZE
             s == [n \in 1 .. m |-> Block(i, 0 + (n - 1) * BLOCK_SIZE)]
  <2>1. Row(i) = FlattenSeq(s)
    BY DEF For
  <2> HIDE DEF Block
  <2>2. m \in Int /\ s \in [1 .. m -> Seq(AccessType)]
    BY <1>0, <1>2
  <2> HIDE DEF m, s
  <2> QED BY <2>1, <2>2, LoopOK
<1>4. All \in Seq(AccessType)
  <2> DEFINE m == (N - 0 + BLOCK_SIZE - 1) \div BLOCK_SIZE
             s == [n \in 1 .. m |-> Row(0 + (n - 1) * BLOCK_SIZE)]
  <2>1. All = FlattenSeq(s)
    BY DEF For
  <2> HIDE DEF Row
  <2>2. m \in Int /\ s \in [1 .. m -> Seq(AccessType)]
    BY <1>0, <1>3
  <2> HIDE DEF m, s
  <2> QED BY <2>1, <2>2, LoopOK
<1> QED BY <1>4 DEF trans_32_32

(* Four loads or stores in a row. *)
LEMMA FourOK ==
  ASSUME NEW s, s = [x \in 1 .. HALF |-> s[x]], \A x \in 1 .. HALF : s[x] \in AccessType
  PROVE  s \in Seq(AccessType)
<1>1. HALF \in Nat
  BY DEF HALF, BLOCK_SIZE
<1>2. s \in [1 .. HALF -> AccessType]
  OBVIOUS
<1> QED BY <1>1, <1>2

(* The right top of a block. *)
LEMMA RightTopOK ==
  ASSUME NEW i \in Int, NEW j \in Int
  PROVE  RightTop(i, j) \in Seq(AccessType)
<1> DEFINE Loads(k)  == [x \in 1 .. HALF |-> Load("A", k, j + HALF + x - 1, x)]
           Stores(k) == [x \in 1 .. HALF |-> Store(j + x - 1, k + HALF, x)]
           Body(k)   == Loads(k) \o Stores(k)
           All       == For(i, i + HALF, 1, LAMBDA k : Body(k))
<1>0. HALF = 4
  BY DEF HALF, BLOCK_SIZE
<1>1. ASSUME NEW k \in Int PROVE Body(k) \in Seq(AccessType)
  <2>1. ASSUME NEW x \in 1 .. HALF PROVE Loads(k)[x] \in AccessType /\ Stores(k)[x] \in AccessType
    <3>1. x \in 0 .. 9 /\ j + HALF + x - 1 \in Int /\ j + x - 1 \in Int /\ k + HALF \in Int
      BY <1>0
    <3>2. Load("A", k, j + HALF + x - 1, x) \in AccessType /\ Store(j + x - 1, k + HALF, x) \in AccessType
      BY <3>1, LoadStoreOK
    <3> QED BY <3>2
  <2> DEFINE a == Loads(k)
             b == Stores(k)
  <2>2. a = [x \in 1 .. HALF |-> a[x]] /\ b = [x \in 1 .. HALF |-> b[x]]
    OBVIOUS
  <2> HIDE DEF Loads, Stores
  <2>3. a \in Seq(AccessType) /\ b \in Seq(AccessType)
    <3> HIDE DEF a, b
    <3>1. \A x \in 1 .. HALF : a[x] \in AccessType /\ b[x] \in AccessType
      BY <2>1 DEF a, b
    <3> QED BY <2>2, <3>1, FourOK
  <2> QED BY <2>3
<1>2. All \in Seq(AccessType)
  <2> DEFINE m == ((i + HALF) - i + 1 - 1) \div 1
             s == [n \in 1 .. m |-> Body(i + (n - 1) * 1)]
  <2>1. All = FlattenSeq(s)
    BY DEF For
  <2> HIDE DEF Body
  <2>2. m \in Int /\ s \in [1 .. m -> Seq(AccessType)]
    BY <1>0, <1>1
  <2> HIDE DEF m, s
  <2> QED BY <2>1, <2>2, LoopOK
<1> QED BY <1>2 DEF RightTop

(* The left bottom of a block. *)
LEMMA LeftBottomOK ==
  ASSUME NEW i \in Int, NEW j \in Int
  PROVE  LeftBottom(i, j) \in Seq(AccessType)
<1> DEFINE P(l) == [x \in 1 .. HALF |-> Load("B", l, i + HALF + x - 1, x)]
           Q(l) == [x \in 1 .. HALF |-> Load("A", i + HALF + x - 1, l, HALF + x)]
           R(l) == [x \in 1 .. HALF |-> Store(l, i + HALF + x - 1, HALF + x)]
           T(l) == [x \in 1 .. HALF |-> Store(l + HALF, i + x - 1, x)]
           Body(l) == P(l) \o Q(l) \o R(l) \o T(l)
           All  == For(j, j + HALF, 1, LAMBDA l : Body(l))
<1>0. HALF = 4
  BY DEF HALF, BLOCK_SIZE
<1>1. ASSUME NEW l \in Int PROVE Body(l) \in Seq(AccessType)
  <2>0. ASSUME NEW x \in 1 .. HALF
        PROVE  /\ x \in 0 .. 9 /\ HALF + x \in 0 .. 9
               /\ i + HALF + x - 1 \in Int /\ i + x - 1 \in Int /\ l + HALF \in Int
    BY <1>0
  <2>1. ASSUME NEW x \in 1 .. HALF PROVE P(l)[x] \in AccessType /\ Q(l)[x] \in AccessType
    <3>1. /\ Load("B", l, i + HALF + x - 1, x) \in AccessType
          /\ Load("A", i + HALF + x - 1, l, HALF + x) \in AccessType
      BY <2>0, LoadStoreOK
    <3> QED BY <3>1
  <2>2. ASSUME NEW x \in 1 .. HALF PROVE R(l)[x] \in AccessType /\ T(l)[x] \in AccessType
    <3>1. /\ Store(l, i + HALF + x - 1, HALF + x) \in AccessType
          /\ Store(l + HALF, i + x - 1, x) \in AccessType
      BY <2>0, LoadStoreOK
    <3> QED BY <3>1
  <2> DEFINE p == P(l)
             q == Q(l)
             r == R(l)
             t == T(l)
  <2>3. /\ p = [x \in 1 .. HALF |-> p[x]] /\ q = [x \in 1 .. HALF |-> q[x]]
        /\ r = [x \in 1 .. HALF |-> r[x]] /\ t = [x \in 1 .. HALF |-> t[x]]
    OBVIOUS
  <2> HIDE DEF P, Q, R, T
  <2>4. /\ p \in Seq(AccessType) /\ q \in Seq(AccessType)
        /\ r \in Seq(AccessType) /\ t \in Seq(AccessType)
    <3> HIDE DEF p, q, r, t
    <3>1. /\ \A x \in 1 .. HALF : p[x] \in AccessType /\ q[x] \in AccessType
          /\ \A x \in 1 .. HALF : r[x] \in AccessType /\ t[x] \in AccessType
      BY <2>1, <2>2 DEF p, q, r, t
    <3> QED BY <2>3, <3>1, FourOK
  <2> QED BY <2>4
<1>2. All \in Seq(AccessType)
  <2> DEFINE m == ((j + HALF) - j + 1 - 1) \div 1
             s == [n \in 1 .. m |-> Body(j + (n - 1) * 1)]
  <2>1. All = FlattenSeq(s)
    BY DEF For
  <2> HIDE DEF Body
  <2>2. m \in Int /\ s \in [1 .. m -> Seq(AccessType)]
    BY <1>0, <1>1
  <2> HIDE DEF m, s
  <2> QED BY <2>1, <2>2, LoopOK
<1> QED BY <1>2 DEF LeftBottom

(* The accesses of trans_64_64. *)
LEMMA trans_64_64OK ==
  ASSUME NEW M \in Int, NEW N \in Int
  PROVE  trans_64_64(M, N) \in Seq(AccessType)
<1> DEFINE Top(k, j)   == DiagonalLast(k, j, j + HALF)
           Low(k, j)   == DiagonalLast(k, j + HALF, j + BLOCK_SIZE)
           Upper(i, j) == For(i, i + HALF, 1, LAMBDA k : Top(k, j))
           Lower(i, j) == For(i + HALF, i + BLOCK_SIZE, 1, LAMBDA k : Low(k, j))
           Block(i, j) == Upper(i, j) \o RightTop(i, j) \o LeftBottom(i, j) \o Lower(i, j)
           Row(i)      == For(0, N, BLOCK_SIZE, LAMBDA j : Block(i, j))
           All         == For(0, M, BLOCK_SIZE, LAMBDA i : Row(i))
<1>0. BLOCK_SIZE \in Int /\ BLOCK_SIZE > 0 /\ HALF \in Int
  BY DEF BLOCK_SIZE, HALF
<1>1. \A k, j \in Int : Top(k, j) \in Seq(AccessType) /\ Low(k, j) \in Seq(AccessType)
  BY <1>0, DiagonalLastOK
<1>2. ASSUME NEW i \in Int, NEW j \in Int PROVE Upper(i, j) \in Seq(AccessType)
  <2> DEFINE m == ((i + HALF) - i + 1 - 1) \div 1
             s == [n \in 1 .. m |-> Top(i + (n - 1) * 1, j)]
  <2>1. Upper(i, j) = FlattenSeq(s)
    BY DEF For
  <2> HIDE DEF Top, Low
  <2>2. m \in Int /\ s \in [1 .. m -> Seq(AccessType)]
    BY <1>0, <1>1
  <2> HIDE DEF m, s
  <2> QED BY <2>1, <2>2, LoopOK
<1>3. ASSUME NEW i \in Int, NEW j \in Int PROVE Lower(i, j) \in Seq(AccessType)
  <2> DEFINE m == ((i + BLOCK_SIZE) - (i + HALF) + 1 - 1) \div 1
             s == [n \in 1 .. m |-> Low(i + HALF + (n - 1) * 1, j)]
  <2>1. Lower(i, j) = FlattenSeq(s)
    BY DEF For
  <2> HIDE DEF Top, Low
  <2>2. m \in Int /\ s \in [1 .. m -> Seq(AccessType)]
    BY <1>0, <1>1
  <2> HIDE DEF m, s
  <2> QED BY <2>1, <2>2, LoopOK
<1>4. ASSUME NEW i \in Int, NEW j \in Int PROVE Block(i, j) \in Seq(AccessType)
  <2> HIDE DEF Upper, Lower
  <2>1. Upper(i, j) \in Seq(AccessType) /\ Lower(i, j) \in Seq(AccessType)
    BY <1>2, <1>3
  <2>2. RightTop(i, j) \in Seq(AccessType) /\ LeftBottom(i, j) \in Seq(AccessType)
    BY RightTopOK, LeftBottomOK
  <2> QED BY <2>1, <2>2
<1>5. ASSUME NEW i \in Int PROVE Row(i) \in Seq(AccessType)
  <2> DEFINE m == (N - 0 + BLOCK_SIZE - 1) \div BLOCK_SIZE
             s == [n \in 1 .. m |-> Block(i, 0 + (n - 1) * BLOCK_SIZE)]
  <2>1. Row(i) = FlattenSeq(s)
    BY DEF For
  <2> HIDE DEF Block
  <2>2. m \in Int /\ s \in [1 .. m -> Seq(AccessType)]
    BY <1>0, <1>4
  <2> HIDE DEF m, s
  <2> QED BY <2>1, <2>2, LoopOK
<1>6. All \in Seq(AccessType)
  <2> DEFINE m == (M - 0 + BLOCK_SIZE - 1) \div BLOCK_SIZE
             s == [n \in 1 .. m |-> Row(0 + (n - 1) * BLOCK_SIZE)]
  <2>1. All = FlattenSeq(s)
    BY DEF For
  <2> HIDE DEF Row
  <2>2. m \in Int /\ s \in [1 .. m -> Seq(AccessType)]
    BY <1>0, <1>5
  <2> HIDE DEF m, s
  <2> QED BY <2>1, <2>2, LoopOK
<1> QED BY <1>6 DEF trans_64_64

(* The accesses of trans_61_67. *)
LEMMA trans_61_67OK ==
  ASSUME NEW M \in Int, NEW N \in Int
  PROVE  trans_61_67(M, N) \in Seq(AccessType)
<1> DEFINE Body(k, l)  == <<Load("A", l, k, 0), Store(k, l, 0)>>
           Col(i, k)   == For(i, min(i + BLOCK_SIZE, N), 1, LAMBDA l : Body(k, l))
           Block(i, j) == For(j, min(j + BLOCK_SIZE, M), 1, LAMBDA k : Col(i, k))
           Row(i)      == For(0, M, BLOCK_SIZE, LAMBDA j : Block(i, j))
           All         == For(0, N, BLOCK_SIZE, LAMBDA i : Row(i))
<1>0. /\ BLOCK_SIZE \in Int /\ BLOCK_SIZE > 0
      /\ \A x, y \in Int : min(x, y) \in Int
  BY DEF BLOCK_SIZE, min
<1>1. ASSUME NEW k \in Int, NEW l \in Int PROVE Body(k, l) \in Seq(AccessType)
  <2>1. Load("A", l, k, 0) \in AccessType /\ Store(k, l, 0) \in AccessType
    BY LoadStoreOK
  <2> QED BY <2>1
<1>2. ASSUME NEW i \in Int, NEW k \in Int PROVE Col(i, k) \in Seq(AccessType)
  <2> DEFINE m == (min(i + BLOCK_SIZE, N) - i + 1 - 1) \div 1
             s == [n \in 1 .. m |-> Body(k, i + (n - 1) * 1)]
  <2>1. Col(i, k) = FlattenSeq(s)
    BY DEF For
  <2> HIDE DEF Body
  <2>2. m \in Int /\ s \in [1 .. m -> Seq(AccessType)]
    <3>1. min(i + BLOCK_SIZE, N) \in Int
      BY <1>0
    <3>2. m \in Int
      BY <3>1
    <3> HIDE DEF m
    <3> QED BY <3>2, <1>1
  <2> HIDE DEF m, s
  <2> QED BY <2>1, <2>2, LoopOK
<1>3. ASSUME NEW i \in Int, NEW j \in Int PROVE Block(i, j) \in Seq(AccessType)
  <2> DEFINE m == (min(j + BLOCK_SIZE, M) - j + 1 - 1) \div 1
             s == [n \in 1 .. m |-> Col(i, j + (n - 1) * 1)]
  <2>1. Block(i, j) = FlattenSeq(s)
    BY DEF For
  <2> HIDE DEF Col
  <2>2. m \in Int /\ s \in [1 .. m -> Seq(AccessType)]
    <3>1. min(j + BLOCK_SIZE, M) \in Int
      BY <1>0
    <3>2. m \in Int
      BY <3>1
    <3> HIDE DEF m
    <3> QED BY <3>2, <1>2
  <2> HIDE DEF m, s
  <2> QED BY <2>1, <2>2, LoopOK
<1>4. ASSUME NEW i \in Int PROVE Row(i) \in Seq(AccessType)
  <2> DEFINE m == (M - 0 + BLOCK_SIZE - 1) \div BLOCK_SIZE
             s == [n \in 1 .. m |-> Block(i, 0 + (n - 1) * BLOCK_SIZE)]
  <2>1. Row(i) = FlattenSeq(s)
    BY DEF For
  <2> HIDE DEF Block
  <2>2. m \in Int /\ s \in [1 .. m -> Seq(AccessType)]
    BY <1>0, <1>3
  <2> HIDE DEF m, s
  <2> QED BY <2>1, <2>2, LoopOK
<1>5. All \in Seq(AccessType)
  <2> DEFINE m == (N - 0 + BLOCK_SIZE - 1) \div BLOCK_SIZE
             s == [n \in 1 .. m |-> Row(0 + (n - 1) * BLOCK_SIZE)]
  <2>1. All = FlattenSeq(s)
    BY DEF For
  <2> HIDE DEF Row
  <2>2. m \in Int /\ s \in [1 .. m -> Seq(AccessType)]
    BY <1>0, <1>4
  <2> HIDE DEF m, s
  <2> QED BY <2>1, <2>2, LoopOK
<1> QED BY <1>5 DEF trans_61_67

(* A job is a sequence of accesses between two markers. *)
LEMMA FuncListOK ==
  ASSUME NEW j \in Jobs
  PROVE  func_list[j] \in Seq(AccessType)
<1> DEFINE s == IF j.F = 0 THEN transpose_submit(j.M, j.N) ELSE trans(j.M, j.N)
<1>1. j.M \in Int /\ j.N \in Int
  BY TransAssumption
<1>2. transpose_submit(j.M, j.N) \in Seq(AccessType)
  BY <1>1, trans_32_32OK, trans_64_64OK, trans_61_67OK DEF transpose_submit
<1>3. s \in Seq(AccessType)
  BY <1>1, <1>2, transOK
<1>4. Marker(0) \in AccessType /\ Marker(1) \in AccessType
  BY DEF Marker, AccessType
<1>5. func_list[j] = <<Marker(0)>> \o s \o <<Marker(1)>>
  BY DEF func_list
<1> HIDE DEF s
<1> QED BY <1>3, <1>4, <1>5

(* What a function accesses has an address. *)
LEMMA AtOK ==
  ASSUME CsimInv, Running
  PROVE  Address(At) \in Int
<1>1. job \in Jobs /\ pc \in 1 .. Len(func_list[job])
  BY FuncListOK DEF CsimInv, Running
<1>2. func_list[job] \in Seq(AccessType)
  BY <1>1, FuncListOK
<1>3. At \in AccessType
  BY <1>1, <1>2 DEF At
<1>4. job.M \in Int /\ job.N \in Int
  <2>1. job.M \in 1 .. 256 /\ job.N \in 1 .. 256
    BY <1>1, TransAssumption
  <2> QED BY <2>1
<1>5. At.mat \in {"A", "B", "marker"} /\ At.row \in Int /\ At.col \in Int
  BY <1>3 DEF AccessType
<1>6. At.row * job.M \in Int /\ At.row * job.N \in Int
  BY <1>4, <1>5
<1> HIDE DEF CsimInv
<1> QED BY <1>5, <1>6 DEF Address
-----------------------------------------------------------------------------
(* Fresh memory holds no line in use. *)
LEMMA CsimInitOK == TransInit => CsimInv
<1> SUFFICES ASSUME TransInit PROVE CsimInv
  OBVIOUS
<1>1. /\ opt.E \in Nat \ {0}
      /\ \A n \in {opt.s, opt.b, opt.b + opt.s} : 2^n \in Int /\ 2^n > 0
  <2>1. CASE job = NULL
    <3>1. opt \in Options
      BY <2>1 DEF TransInit, CsimInit
    <3>2. opt.s \in Nat /\ opt.b \in Nat /\ opt.b + opt.s \in Nat
      BY <3>1, CsimAssumption
    <3>3. \A n \in Nat : 2^n \in Int
      OBVIOUS
    <3> QED BY <3>1, <3>2, <3>3, CsimAssumption
  <2>2. CASE job # NULL
    <3>1. opt = [s |-> 5, E |-> 1, b |-> 5]
      BY <2>2 DEF TransInit, CsimInit
    <3>2. opt.s = 5 /\ opt.E = 1 /\ opt.b = 5 /\ opt.b + opt.s = 10
      BY <3>1
    <3>3. 2^5 = 32 /\ 2^10 = 1024
      OBVIOUS
    <3> QED BY <3>2, <3>3
  <2> QED BY <2>1, <2>2
<1>2. cache \in [SetIds -> [Lines -> Fresh]] /\ misses = 0 /\ evictions = 0
  BY DEF TransInit, CsimInit
<1>3. \A f \in Fresh : f \in LineType /\ ~f.valid
  <2> SUFFICES ASSUME NEW f \in Fresh PROVE f \in LineType /\ ~f.valid
    OBVIOUS
  <2>1. f \in [valid : BOOLEAN, lru_counter : Int, tag : Nat] /\ ~f.valid
    BY CsimAssumption
  <2>2. f \in LineType
    BY <2>1 DEF LineType
  <2> QED BY <2>1, <2>2
<1>4. Shaped
  BY <1>1, <1>2, <1>3 DEF Shaped
<1>5. \A k \in SetIds, i \in Lines : ~cache[k][i].valid
  BY <1>2, <1>3
<1>6. InUse = {}
  BY <1>5 DEF InUse
<1>7. LinesAreAccountedFor
  BY <1>2, <1>6, FS_EmptySet DEF LinesAreAccountedFor, InUse
<1> QED BY <1>4, <1>7 DEF CsimInv, TransInit

(* A step that leaves the simulator alone. *)
LEMMA CsimSame ==
  ASSUME Shaped, LinesAreAccountedFor, UNCHANGED <<opt, cache, misses, evictions>>
  PROVE  Shaped' /\ LinesAreAccountedFor'
  BY DEF Shaped, LinesAreAccountedFor, SetIds, Lines

(* Every record of a trace keeps the account. *)
LEMMA CsimNextOK == CsimInv /\ [TransNext]_vars => CsimInv'
<1> SUFFICES ASSUME CsimInv, [TransNext]_vars PROVE CsimInv'
  OBVIOUS
<1>0. Shaped /\ LinesAreAccountedFor
  BY DEF CsimInv
<1>1. CASE job = NULL /\ AnyRecord /\ UNCHANGED transVars
  <2>1. CASE Skip
    <3>1. Shaped' /\ LinesAreAccountedFor'
      BY <1>0, <2>1, CsimSame DEF Skip, Record
    <3> QED BY <1>1, <3>1 DEF CsimInv, transVars
  <2>2. ASSUME NEW id \in {"L", "S", "M"}, NEW addr \in Addrs, Access(id, addr) PROVE CsimInv'
    <3>1. addr \in Int
      BY CsimAssumption
    <3>2. Shaped' /\ LinesAreAccountedFor'
      BY <1>0, <2>2, <3>1, AccessOK
    <3> QED BY <1>1, <3>2 DEF CsimInv, transVars
  <2> QED BY <1>1, <2>1, <2>2 DEF AnyRecord
<1>2. CASE DoLoad
  <2>1. Address(At) \in Int /\ Access("L", Address(At))
    BY <1>2, AtOK DEF DoLoad
  <2>2. Shaped' /\ LinesAreAccountedFor'
    BY <1>0, <2>1, AccessOK
  <2> QED BY <1>2, <2>2 DEF CsimInv, DoLoad
<1>3. CASE DoStore
  <2>1. Address(At) \in Int /\ Access("S", Address(At))
    BY <1>3, AtOK DEF DoStore
  <2>2. Shaped' /\ LinesAreAccountedFor'
    BY <1>0, <2>1, AccessOK
  <2> QED BY <1>3, <2>2 DEF CsimInv, DoStore
<1>4. CASE NoStore
  <2>1. Shaped' /\ LinesAreAccountedFor'
    BY <1>0, <1>4, CsimSame DEF NoStore, csimVars
  <2> QED BY <1>4, <2>1 DEF CsimInv, NoStore
<1>5. CASE Evaluate
  <2>1. Shaped' /\ LinesAreAccountedFor'
    BY <1>0, <1>5, CsimSame DEF Evaluate, csimVars
  <2> QED BY <1>5, <2>1 DEF CsimInv, Evaluate
<1>6. CASE UNCHANGED vars
  <2>1. Shaped' /\ LinesAreAccountedFor'
    BY <1>0, <1>6, CsimSame DEF vars, csimVars
  <2> QED BY <1>6, <2>1 DEF CsimInv, vars, transVars
<1> QED BY <1>1, <1>2, <1>3, <1>4, <1>5, <1>6 DEF TransNext

(* The inductive invariant. *)
THEOREM CsimInvariant == Spec => []CsimInv
  BY CsimInitOK, CsimNextOK, PTL DEF Spec

(* Whatever the trace and the shape of the cache, the misses that csim     *)
(* prints exceed its evictions by the lines it has in use: no line is      *)
(* filled or replaced without being counted, once.                         *)
THEOREM CountersMatchLines == Spec => []LinesAreAccountedFor
<1>1. CsimInv => LinesAreAccountedFor
  BY DEF CsimInv
<1> QED BY CsimInvariant, <1>1, PTL
-----------------------------------------------------------------------------
(* The lines of a set in the order of their last use. *)
Ordered(row, s) ==
  /\ s \in Seq(Lines)
  /\ \A k \in 1 .. Len(s) : row[s[k]].valid
  /\ \A i \in Lines : row[i].valid => \E k \in 1 .. Len(s) : s[k] = i
  /\ \A j, k \in 1 .. Len(s) : j < k => row[s[j]].lru_counter < row[s[k]].lru_counter

(* The valid lines come first, their tags differ, and so do their ages.    *)
RowOK(row) ==
  /\ \A i \in Lines : row[i].valid => row[i].lru_counter >= 0
  /\ \A i, j \in Lines : row[j].valid /\ i < j => row[i].valid
  /\ \A i, j \in Lines : row[i].valid /\ row[j].valid /\ row[i].tag = row[j].tag => i = j
  /\ \E s : Ordered(row, s)

Used(row) == {i \in Lines : row[i].valid}

(* An order lists every line in use once. *)
LEMMA OrderedCounts ==
  ASSUME NEW row \in [Lines -> LineType], NEW s, Ordered(row, s)
  PROVE  /\ Len(s) \in Nat /\ s \in [1 .. Len(s) -> Used(row)]
         /\ \A j, k \in 1 .. Len(s) : s[j] = s[k] => j = k
         /\ IsFiniteSet(Used(row)) /\ Cardinality(Used(row)) = Len(s)
<1>1. Len(s) \in Nat /\ s \in [1 .. Len(s) -> Lines]
  BY DEF Ordered
<1>2. s \in [1 .. Len(s) -> Used(row)]
  BY <1>1 DEF Ordered, Used
<1>3. \A j, k \in 1 .. Len(s) : s[j] = s[k] => j = k
  <2> SUFFICES ASSUME NEW j \in 1 .. Len(s), NEW k \in 1 .. Len(s), s[j] = s[k], j < k PROVE FALSE
    BY <1>1
  <2>1. row[s[j]].lru_counter < row[s[k]].lru_counter
    BY DEF Ordered
  <2>2. row[s[j]].lru_counter \in Int
    BY <1>1 DEF LineType
  <2> QED BY <2>1, <2>2
<1>4. \A i \in Used(row) : \E k \in 1 .. Len(s) : s[k] = i
  BY DEF Ordered, Used
<1>5. ExistsBijection(1 .. Len(s), Used(row))
  BY <1>2, <1>3, <1>4, Fun_IsBij, Fun_ExistsBij DEF ExistsBijection, Bijection, Injection, Surjection, IsInjective
<1>6. IsFiniteSet(Used(row)) /\ Cardinality(Used(row)) = Len(s)
  BY <1>1, <1>5, FS_CountingElements, FS_NatBijection
<1> QED BY <1>1, <1>2, <1>3, <1>6

(* As many lines are younger than a line as come before it. *)
LEMMA OrderedRank ==
  ASSUME NEW row \in [Lines -> LineType], NEW s, Ordered(row, s), NEW k \in 1 .. Len(s)
  PROVE  Cardinality({j \in Used(row) : row[j].lru_counter < row[s[k]].lru_counter}) = k - 1
<1> DEFINE R == {j \in Used(row) : row[j].lru_counter < row[s[k]].lru_counter}
           f == [m \in 1 .. (k - 1) |-> s[m]]
<1>1. /\ Len(s) \in Nat /\ \A m \in 1 .. Len(s) : s[m] \in Used(row) /\ row[s[m]].lru_counter \in Int
      /\ \A m, n \in 1 .. Len(s) : s[m] = s[n] => m = n
  <2>1. /\ Len(s) \in Nat /\ s \in [1 .. Len(s) -> Used(row)]
        /\ \A m, n \in 1 .. Len(s) : s[m] = s[n] => m = n
    BY OrderedCounts
  <2>2. \A m \in 1 .. Len(s) : s[m] \in Lines
    BY <2>1 DEF Used
  <2> QED BY <2>1, <2>2 DEF LineType
<1>2. k - 1 \in Nat /\ 1 .. (k - 1) \subseteq 1 .. Len(s) /\ \A m \in 1 .. Len(s) : m \in 1 .. (k - 1) <=> m < k
  BY <1>1
<1>3. ASSUME NEW m \in 1 .. (k - 1) PROVE s[m] \in R
  <2>1. m \in 1 .. Len(s) /\ m < k
    BY <1>2
  <2> QED BY <1>1, <2>1 DEF Ordered
<1>4. ASSUME NEW j \in R PROVE \E m \in 1 .. (k - 1) : s[m] = j
  <2>1. PICK m \in 1 .. Len(s) : s[m] = j
    BY DEF Ordered, Used
  <2>2. row[s[m]].lru_counter < row[s[k]].lru_counter
    BY <2>1
  <2>3. ASSUME k < m PROVE FALSE
    <3>1. row[s[k]].lru_counter < row[s[m]].lru_counter
      BY <2>3 DEF Ordered
    <3> QED BY <1>1, <2>2, <3>1
  <2>4. k # m
    BY <1>1, <2>2
  <2>5. m < k
    BY <1>1, <2>3, <2>4
  <2> QED BY <1>2, <2>1, <2>5
<1> HIDE DEF R
<1>5. f \in [1 .. (k - 1) -> R] /\ \A m, n \in 1 .. (k - 1) : f[m] = f[n] => m = n
  BY <1>1, <1>2, <1>3
<1>6. \A j \in R : \E m \in 1 .. (k - 1) : f[m] = j
  BY <1>4
<1> HIDE DEF f
<1>7. ExistsBijection(1 .. (k - 1), R)
  BY <1>5, <1>6 DEF ExistsBijection, Bijection, Injection, Surjection, IsInjective
<1>8. Cardinality(R) = k - 1
  BY <1>2, <1>7, FS_CountingElements
<1> QED BY <1>8 DEF R

(* So the refinement mapping lists the tags in that order. *)
LEMMA RecencyIs ==
  ASSUME NEW row \in [Lines -> LineType], NEW s, Ordered(row, s)
  PROVE  Recency(row) = [k \in 1 .. Len(s) |-> row[s[k]].tag]
<1> DEFINE Newer(i) == Cardinality({j \in Used(row) : row[j].lru_counter < row[i].lru_counter})
           Nth(k) == CHOOSE i \in Used(row) : Newer(i) = k - 1
<1>1. /\ Len(s) \in Nat /\ s \in [1 .. Len(s) -> Used(row)] /\ Cardinality(Used(row)) = Len(s)
  BY OrderedCounts
<1>2. Recency(row) = [k \in 1 .. Len(s) |-> row[Nth(k)].tag]
  BY <1>1 DEF Recency, Used
<1>3. ASSUME NEW k \in 1 .. Len(s) PROVE Newer(s[k]) = k - 1
  BY OrderedRank
<1> HIDE DEF Newer
<1>4. ASSUME NEW k \in 1 .. Len(s) PROVE Nth(k) = s[k]
  <2>1. s[k] \in Used(row) /\ Newer(s[k]) = k - 1
    BY <1>1, <1>3
  <2>2. Nth(k) \in Used(row) /\ Newer(Nth(k)) = k - 1
    BY <2>1
  <2> HIDE DEF Nth
  <2>3. PICK m \in 1 .. Len(s) : s[m] = Nth(k)
    BY <2>2 DEF Ordered, Used
  <2>4. Newer(s[m]) = m - 1
    BY <1>3
  <2>5. m = k
    BY <1>1, <2>2, <2>3, <2>4
  <2> QED BY <2>3, <2>5
<1> HIDE DEF Nth
<1> QED BY <1>2, <1>4

(* Moving one entry of an order to the front. *)
Front1(s, p) == [k \in 1 .. Len(s) |-> IF k = 1 THEN s[p] ELSE IF k <= p THEN s[k - 1] ELSE s[k]]

(* If one line gets the age 0 and all others grow older, that line moves   *)
(* to the front.                                                           *)
LEMMA Promoted ==
  ASSUME NEW row \in [Lines -> LineType], NEW new \in [Lines -> LineType],
         NEW s, Ordered(row, s), NEW p \in 1 .. Len(s),
         \A i \in Lines : new[i].valid = row[i].valid,
         \A i \in Lines : row[i].valid => row[i].lru_counter >= 0,
         new[s[p]].lru_counter = 0,
         \A i \in Lines : row[i].valid /\ i # s[p] => new[i].lru_counter = row[i].lru_counter + 1
  PROVE  Ordered(new, Front1(s, p)) /\ Len(Front1(s, p)) = Len(s)
<1> DEFINE u == Front1(s, p)
<1>1. /\ Len(s) \in Nat /\ s \in [1 .. Len(s) -> Lines] /\ p \in Nat
      /\ \A k \in 1 .. Len(s) : s[k] \in Lines /\ row[s[k]].valid
      /\ \A j, k \in 1 .. Len(s) : s[j] = s[k] => j = k
  <2>1. Len(s) \in Nat /\ \A j, k \in 1 .. Len(s) : s[j] = s[k] => j = k
    BY OrderedCounts
  <2> QED BY <2>1 DEF Ordered
<1> DEFINE q(k) == IF k = 1 THEN p ELSE IF k <= p THEN k - 1 ELSE k
<1>2. \A k \in 1 .. Len(s) : q(k) \in 1 .. Len(s)
  BY <1>1
<1>3. u = [k \in 1 .. Len(s) |-> s[q(k)]]
  <2>1. u = [k \in 1 .. Len(s) |-> IF k = 1 THEN s[p] ELSE IF k <= p THEN s[k - 1] ELSE s[k]]
    BY DEF Front1
  <2>2. \A k \in 1 .. Len(s) : u[k] = s[q(k)]
    BY <2>1
  <2> HIDE DEF u, q
  <2> QED BY <2>1, <2>2
<1>4. \A k \in 1 .. Len(s) : k # 1 => q(k) # p
  BY <1>1
<1>5. \A j, k \in 1 .. Len(s) : j # 1 /\ j < k => q(j) < q(k)
  BY <1>1
<1>6. \A k \in 1 .. Len(s) : \E j \in 1 .. Len(s) : q(j) = k
  <2> SUFFICES ASSUME NEW k \in 1 .. Len(s) PROVE \E j \in 1 .. Len(s) : q(j) = k
    OBVIOUS
  <2>1. CASE k = p
    <3>1. 1 \in 1 .. Len(s) /\ q(1) = k
      BY <1>1, <2>1
    <3> QED BY <3>1
  <2>2. CASE k < p
    <3>1. k + 1 \in 1 .. Len(s) /\ q(k + 1) = k
      BY <1>1, <2>2
    <3> QED BY <3>1
  <2>3. CASE k > p
    <3>1. q(k) = k
      BY <1>1, <2>3
    <3> QED BY <3>1
  <2> QED BY <1>1, <2>1, <2>2, <2>3
<1>7. q(1) = p
  OBVIOUS
<1> HIDE DEF q, u
<1>8. u \in Seq(Lines) /\ Len(u) = Len(s)
  BY <1>1, <1>2, <1>3
<1>9. \A k \in 1 .. Len(u) : u[k] = s[q(k)] /\ new[u[k]].valid
  BY <1>1, <1>2, <1>3, <1>8
<1>10. \A i \in Lines : new[i].valid => \E k \in 1 .. Len(u) : u[k] = i
  <2> SUFFICES ASSUME NEW i \in Lines, new[i].valid PROVE \E k \in 1 .. Len(u) : u[k] = i
    OBVIOUS
  <2>1. PICK k \in 1 .. Len(s) : s[k] = i
    BY DEF Ordered
  <2>2. PICK j \in 1 .. Len(s) : q(j) = k
    BY <1>6
  <2> QED BY <1>8, <1>9, <2>1, <2>2
<1>11. ASSUME NEW j \in 1 .. Len(u), NEW k \in 1 .. Len(u), j < k
       PROVE  new[u[j]].lru_counter < new[u[k]].lru_counter
  <2>1. k # 1 /\ j \in 1 .. Len(s) /\ k \in 1 .. Len(s)
    BY <1>1, <1>8, <1>11
  <2>2. q(k) # p /\ q(k) \in 1 .. Len(s) /\ s[q(k)] # s[p]
    BY <1>1, <1>2, <1>4, <2>1
  <2>3. /\ s[q(k)] \in Lines /\ row[s[q(k)]].valid /\ new[s[q(k)]].lru_counter = row[s[q(k)]].lru_counter + 1
        /\ row[s[q(k)]].lru_counter >= 0 /\ row[s[q(k)]].lru_counter \in Int
    BY <1>1, <2>2 DEF LineType
  <2>4. CASE j = 1
    BY <1>7, <1>9, <2>3, <2>4
  <2>5. CASE j # 1
    <3>1. q(j) < q(k) /\ q(j) \in 1 .. Len(s) /\ s[q(j)] # s[p]
      BY <1>1, <1>2, <1>4, <1>5, <1>11, <2>1, <2>5
    <3>2. /\ s[q(j)] \in Lines /\ new[s[q(j)]].lru_counter = row[s[q(j)]].lru_counter + 1
          /\ row[s[q(j)]].lru_counter \in Int
      BY <1>1, <3>1 DEF LineType
    <3>3. row[s[q(j)]].lru_counter < row[s[q(k)]].lru_counter
      BY <2>2, <3>1 DEF Ordered
    <3>4. u[j] = s[q(j)] /\ u[k] = s[q(k)]
      BY <1>9
    <3> QED BY <2>3, <3>2, <3>3, <3>4
  <2> QED BY <2>4, <2>5
<1>12. Ordered(new, u)
  BY <1>8, <1>9, <1>10, <1>11 DEF Ordered
<1> QED BY <1>8, <1>12 DEF u

(* A line that was empty gets the age 0. *)
LEMMA Added ==
  ASSUME NEW row \in [Lines -> LineType], NEW new \in [Lines -> LineType],
         NEW s, Ordered(row, s), NEW e \in Lines, ~row[e].valid,
         \A i \in Lines : new[i].valid <=> row[i].valid \/ i = e,
         \A i \in Lines : row[i].valid => row[i].lru_counter >= 0,
         new[e].lru_counter = 0,
         \A i \in Lines : row[i].valid => new[i].lru_counter = row[i].lru_counter + 1
  PROVE  Ordered(new, <<e>> \o s)
<1> DEFINE u == <<e>> \o s
<1>1. /\ Len(s) \in Nat /\ s \in Seq(Lines)
      /\ \A k \in 1 .. Len(s) : s[k] \in Lines /\ row[s[k]].valid
  BY DEF Ordered
<1>2. /\ u \in Seq(Lines) /\ Len(u) = Len(s) + 1 /\ u[1] = e
      /\ \A k \in 2 .. Len(u) : k - 1 \in 1 .. Len(s) /\ u[k] = s[k - 1]
      /\ \A k \in 1 .. Len(s) : k + 1 \in 1 .. Len(u) /\ u[k + 1] = s[k]
  BY <1>1
<1> HIDE DEF u
<1>3. \A k \in 1 .. Len(u) : new[u[k]].valid
  <2> SUFFICES ASSUME NEW k \in 1 .. Len(u) PROVE new[u[k]].valid
    OBVIOUS
  <2>1. CASE k = 1
    BY <1>2, <2>1
  <2>2. CASE k # 1
    <3>1. k \in 2 .. Len(u)
      BY <1>1, <1>2, <2>2
    <3> QED BY <1>1, <1>2, <3>1
  <2> QED BY <2>1, <2>2
<1>4. \A i \in Lines : new[i].valid => \E k \in 1 .. Len(u) : u[k] = i
  <2> SUFFICES ASSUME NEW i \in Lines, new[i].valid PROVE \E k \in 1 .. Len(u) : u[k] = i
    OBVIOUS
  <2>1. CASE i = e
    BY <1>1, <1>2, <2>1
  <2>2. CASE i # e
    <3>1. PICK k \in 1 .. Len(s) : s[k] = i
      BY <2>2 DEF Ordered
    <3> QED BY <1>2, <3>1
  <2> QED BY <2>1, <2>2
<1>5. ASSUME NEW j \in 1 .. Len(u), NEW k \in 1 .. Len(u), j < k
      PROVE  new[u[j]].lru_counter < new[u[k]].lru_counter
  <2>1. k - 1 \in 1 .. Len(s) /\ u[k] = s[k - 1]
    BY <1>1, <1>2, <1>5
  <2>2. /\ new[s[k - 1]].lru_counter = row[s[k - 1]].lru_counter + 1 /\ row[s[k - 1]].lru_counter >= 0
        /\ row[s[k - 1]].lru_counter \in Int
    BY <1>1, <2>1 DEF LineType
  <2>3. CASE j = 1
    BY <1>2, <2>1, <2>2, <2>3
  <2>4. CASE j # 1
    <3>1. j - 1 \in 1 .. Len(s) /\ u[j] = s[j - 1]
      BY <1>1, <1>2, <2>4
    <3>2. new[s[j - 1]].lru_counter = row[s[j - 1]].lru_counter + 1 /\ row[s[j - 1]].lru_counter \in Int
      BY <1>1, <3>1 DEF LineType
    <3>3. row[s[j - 1]].lru_counter < row[s[k - 1]].lru_counter
      BY <1>5, <2>1, <3>1 DEF Ordered
    <3> QED BY <2>1, <2>2, <3>1, <3>2, <3>3
  <2> QED BY <2>3, <2>4
<1>6. Ordered(new, u)
  BY <1>2, <1>3, <1>4, <1>5 DEF Ordered
<1> QED BY <1>6 DEF u

(* The tags in the new order. *)
Tags(row, s) == [k \in 1 .. Len(s) |-> row[s[k]].tag]

(* Moving an entry to the front of the order does so with its tag. *)
LEMMA PromotedTags ==
  ASSUME NEW row \in [Lines -> LineType], NEW s, Ordered(row, s), NEW p \in 1 .. Len(s)
  PROVE  Tags(row, Front1(s, p)) = <<row[s[p]].tag>> \o RemoveAt(Tags(row, s), p)
<1>1. Len(s) \in Nat /\ p \in Nat /\ \A k \in 1 .. Len(s) : s[k] \in Lines /\ row[s[k]].tag \in Int
  BY DEF Ordered, LineType
<1> DEFINE r == Tags(row, s)
           u == Front1(s, p)
           a == SubSeq(r, 1, p - 1)
           b == SubSeq(r, p + 1, Len(r))
<1>2. r \in Seq(Int) /\ Len(r) = Len(s) /\ \A k \in 1 .. Len(s) : r[k] = row[s[k]].tag
  BY <1>1 DEF Tags
<1>3. Len(u) = Len(s) /\ \A k \in 1 .. Len(s) : u[k] = IF k = 1 THEN s[p] ELSE IF k <= p THEN s[k - 1] ELSE s[k]
  BY <1>1 DEF Front1
<1> HIDE DEF r, u
<1>4. a \in Seq(Int) /\ Len(a) = p - 1 /\ \A k \in 1 .. (p - 1) : a[k] = r[k]
  BY <1>1, <1>2
<1>5. b \in Seq(Int) /\ Len(b) = Len(s) - p /\ \A k \in 1 .. (Len(s) - p) : b[k] = r[p + k]
  BY <1>1, <1>2
<1>6. RemoveAt(r, p) = a \o b
  BY DEF RemoveAt
<1> HIDE DEF a, b
<1> DEFINE c == <<row[s[p]].tag>> \o (a \o b)
<1>7. c \in Seq(Int) /\ Len(c) = Len(s)
  <2>1. a \o b \in Seq(Int) /\ Len(a \o b) = Len(s) - 1
    <3>0. a \in Seq(Int) /\ b \in Seq(Int)
      BY <1>4, <1>5
    <3>1. a \o b \in Seq(Int) /\ Len(a \o b) = Len(a) + Len(b)
      BY <3>0
    <3>2. (p - 1) + (Len(s) - p) = Len(s) - 1
      BY <1>1
    <3> QED BY <1>4, <1>5, <3>1, <3>2
  <2>2. <<row[s[p]].tag>> \in Seq(Int) /\ Len(<<row[s[p]].tag>>) = 1
    BY <1>1
  <2> QED BY <1>1, <2>1, <2>2
<1>8. ASSUME NEW k \in 1 .. Len(s) PROVE c[k] = row[u[k]].tag
  <2>1. CASE k = 1
    BY <1>1, <1>3, <1>4, <1>5, <2>1
  <2>2. CASE k # 1 /\ k <= p
    <3>1. c[k] = a[k - 1]
      BY <1>1, <1>4, <1>5, <2>2
    <3>2. a[k - 1] = r[k - 1] /\ k - 1 \in 1 .. Len(s)
      BY <1>1, <1>4, <2>2
    <3> QED BY <1>2, <1>3, <2>2, <3>1, <3>2
  <2>3. CASE k > p
    <3>1. c[k] = b[k - p]
      <4>1. (a \o b)[k - 1] = b[k - p]
        BY <1>1, <1>4, <1>5, <2>3
      <4>2. c[k] = (a \o b)[k - 1]
        BY <1>1, <1>4, <1>5, <2>3
      <4> QED BY <4>1, <4>2
    <3>2. b[k - p] = r[k]
      <4>1. k - p \in 1 .. (Len(s) - p) /\ p + (k - p) = k
        BY <1>1, <2>3
      <4> QED BY <1>5, <4>1
    <3>3. u[k] = s[k]
      BY <1>1, <1>3, <2>3
    <3> QED BY <1>2, <3>1, <3>2, <3>3
  <2> HIDE DEF c
  <2> QED BY <1>1, <2>1, <2>2, <2>3
<1>9. c = [k \in 1 .. Len(s) |-> row[u[k]].tag]
  <2> DEFINE d == [k \in 1 .. Len(s) |-> row[u[k]].tag]
  <2>1. DOMAIN c = 1 .. Len(s)
    BY <1>1, <1>7
  <2>2. c = [k \in 1 .. Len(s) |-> c[k]]
    BY <1>7, <2>1
  <2> HIDE DEF c
  <2>3. d = [k \in 1 .. Len(s) |-> c[k]]
    BY <1>8
  <2> QED BY <2>2, <2>3
<1>10. Tags(row, u) = c
  BY <1>3, <1>9 DEF Tags
<1>11. c = <<row[s[p]].tag>> \o RemoveAt(Tags(row, s), p)
  BY <1>6 DEF r
<1> QED BY <1>10, <1>11 DEF u

(* The mapping needs no more of a row than an order and the tags. *)
LEMMA RecencyTags ==
  ASSUME NEW row \in [Lines -> LineType], NEW s, Ordered(row, s)
  PROVE  Recency(row) = Tags(row, s)
  BY RecencyIs DEF Tags

(* The tags of two rows that agree on them. *)
LEMMA SameTags ==
  ASSUME NEW row, NEW new, NEW s, \A k \in 1 .. Len(s) : new[s[k]].tag = row[s[k]].tag
  PROVE  Tags(new, s) = Tags(row, s)
  BY DEF Tags

(* A hit moves the tag to the front. *)
LEMMA HitRecency ==
  ASSUME NEW row \in [Lines -> LineType], RowOK(row), NEW t \in Int, IsHit(row, t)
  PROVE  /\ RowOK(HitRow(row, t)) /\ Cardinality(Matches(row, t)) = 1
         /\ Contains(Recency(row), t)
         /\ Recency(HitRow(row, t)) = <<t>> \o RemoveFirst(Recency(row), t)
<1> DEFINE new == HitRow(row, t)
<1>1. PICK m \in Lines : row[m].valid /\ row[m].tag = t /\ m \in Matches(row, t)
  BY DEF IsHit, Matches
<1>2. Matches(row, t) = {m}
  BY <1>1 DEF Matches, RowOK
<1>3. Cardinality(Matches(row, t)) = 1
  BY <1>2, FS_Singleton
<1>4. PICK s : Ordered(row, s)
  BY DEF RowOK
<1>5. PICK p \in 1 .. Len(s) : s[p] = m
  BY <1>1, <1>4 DEF Ordered
<1>6. /\ new \in [Lines -> LineType]
      /\ \A i \in Lines : new[i].valid = row[i].valid /\ new[i].tag = row[i].tag
      /\ new[m].lru_counter = 0
      /\ \A i \in Lines : row[i].valid /\ i # m => new[i].lru_counter = row[i].lru_counter + 1
  <2>1. new = [i \in Lines |-> IF i = m THEN [row[i] EXCEPT !.lru_counter = 0]
                               ELSE IF row[i].valid THEN Aged(row[i]) ELSE row[i]]
    BY <1>2 DEF HitRow
  <2>2. \A i \in Lines : /\ row[i] \in LineType
                         /\ [row[i] EXCEPT !.lru_counter = 0] \in LineType /\ Aged(row[i]) \in LineType
    BY DEF Aged, LineType
  <2>3. new \in [Lines -> LineType]
    BY <2>1, <2>2
  <2>4. ASSUME NEW i \in Lines
        PROVE  /\ new[i].valid = row[i].valid /\ new[i].tag = row[i].tag
               /\ i = m => new[i].lru_counter = 0
               /\ row[i].valid /\ i # m => new[i].lru_counter = row[i].lru_counter + 1
    <3>1. new[i] = IF i = m THEN [row[i] EXCEPT !.lru_counter = 0]
                   ELSE IF row[i].valid THEN Aged(row[i]) ELSE row[i]
      BY <2>1
    <3>2. row[i] \in LineType
      OBVIOUS
    <3> HIDE DEF new
    <3> QED BY <3>1, <3>2 DEF Aged, LineType
  <2> HIDE DEF new
  <2> QED BY <1>1, <2>3, <2>4
<1> HIDE DEF new
<1>7. Ordered(new, Front1(s, p)) /\ Len(Front1(s, p)) = Len(s)
  BY <1>4, <1>5, <1>6, Promoted DEF RowOK
<1>8. RowOK(new)
  <2>1. \A i \in Lines : new[i].valid => new[i].lru_counter >= 0
    <3> SUFFICES ASSUME NEW i \in Lines, row[i].valid PROVE new[i].lru_counter >= 0
      BY <1>6
    <3>1. row[i].lru_counter >= 0 /\ row[i].lru_counter \in Int
      BY DEF RowOK, LineType
    <3> QED BY <1>6, <3>1
  <2>2. \A i, j \in Lines : new[j].valid /\ i < j => new[i].valid
    BY <1>6 DEF RowOK
  <2>3. \A i, j \in Lines : new[i].valid /\ new[j].valid /\ new[i].tag = new[j].tag => i = j
    BY <1>6 DEF RowOK
  <2> QED BY <1>7, <2>1, <2>2, <2>3 DEF RowOK
<1> DEFINE r == Recency(row)
<1>9. /\ r = Tags(row, s) /\ Len(r) = Len(s) /\ r[p] = t
      /\ \A k \in 1 .. Len(s) : r[k] = t => k = p
  <2>1. r = Tags(row, s)
    BY <1>4, RecencyTags
  <2>2. Len(s) \in Nat /\ \A k \in 1 .. Len(s) : s[k] \in Lines /\ row[s[k]].valid
    BY <1>4 DEF Ordered
  <2>3. Len(r) = Len(s) /\ \A k \in 1 .. Len(s) : r[k] = row[s[k]].tag
    BY <2>1, <2>2 DEF Tags
  <2>4. ASSUME NEW k \in 1 .. Len(s), r[k] = t PROVE k = p
    <3>1. s[k] = m
      BY <1>1, <2>2, <2>3, <2>4 DEF RowOK
    <3> QED BY <1>4, <1>5, <3>1, OrderedCounts
  <2> QED BY <1>1, <1>5, <2>1, <2>3, <2>4
<1> HIDE DEF r
<1>10. RemoveFirst(r, t) = RemoveAt(r, p)
  <2>1. {i \in 1 .. Len(r) : r[i] = t} = {p}
    BY <1>9
  <2>2. Min({p}) = p
    <3>1. p \in Int
      BY <1>4, OrderedCounts
    <3> QED BY <3>1 DEF Min
  <2>3. SelectInSeq(r, LAMBDA v : v = t) = p
    BY <2>1, <2>2 DEF SelectInSeq
  <2> QED BY <1>9, <2>3 DEF RemoveFirst
<1>11. Contains(r, t)
  BY <1>9 DEF Contains
<1>12. Recency(new) = Tags(new, Front1(s, p))
  BY <1>6, <1>7, RecencyTags
<1>13. Tags(new, Front1(s, p)) = Tags(row, Front1(s, p))
  <2>1. \A k \in 1 .. Len(Front1(s, p)) : Front1(s, p)[k] \in Lines
    BY <1>7 DEF Ordered
  <2> QED BY <1>6, <2>1, SameTags
<1>14. Tags(row, Front1(s, p)) = <<t>> \o RemoveAt(Tags(row, s), p)
  BY <1>1, <1>4, <1>5, PromotedTags
<1> QED BY <1>3, <1>8, <1>9, <1>10, <1>11, <1>12, <1>13, <1>14 DEF new, r

(* After a miss no line in use has the tag: a line after an empty one is   *)
(* not in use, so that the loop has looked at all lines that are.          *)
LEMMA MissMeansAbsent ==
  ASSUME NEW row \in [Lines -> LineType], RowOK(row), NEW t, ~IsHit(row, t), opt.E \in Nat
  PROVE  /\ \A i \in Lines : row[i].valid => row[i].tag # t
         /\ ~Contains(Recency(row), t)
<1>1. ASSUME NEW i \in Lines, row[i].valid, row[i].tag = t PROVE FALSE
  <2>1. i \in Matches(row, t)
    BY <1>1 DEF Matches
  <2>2. PICK j \in Empty(row) : ~(j > i)
    BY <2>1 DEF IsHit
  <2>3. j \in Lines /\ ~row[j].valid /\ j # i
    BY <1>1, <2>2 DEF Empty
  <2>4. j < i
    BY <2>2, <2>3 DEF Lines
  <2> QED BY <1>1, <2>3, <2>4 DEF RowOK
<1>2. PICK s : Ordered(row, s)
  BY DEF RowOK
<1>3. Recency(row) = Tags(row, s)
  BY <1>2, RecencyTags
<1>4. /\ Len(s) \in Nat
      /\ \A k \in 1 .. Len(s) : s[k] \in Lines /\ row[s[k]].valid
  BY <1>2 DEF Ordered
<1>5. ASSUME NEW k \in 1 .. Len(Recency(row)), Recency(row)[k] = t PROVE FALSE
  <2>1. k \in 1 .. Len(s) /\ Recency(row)[k] = row[s[k]].tag
    BY <1>3, <1>4, <1>5 DEF Tags
  <2> QED BY <1>1, <1>4, <1>5, <2>1
<1> QED BY <1>1, <1>5 DEF Contains

(* How many tags there are tells whether a line is empty. *)
LEMMA RecencyLen ==
  ASSUME NEW row \in [Lines -> LineType], NEW s, Ordered(row, s), opt.E \in Nat
  PROVE  /\ Len(Recency(row)) = Len(s)
         /\ Empty(row) = {} <=> Len(s) = opt.E
<1>1. Len(s) \in Nat /\ IsFiniteSet(Used(row)) /\ Cardinality(Used(row)) = Len(s)
  BY OrderedCounts
<1>2. Len(Recency(row)) = Len(s)
  BY <1>1, RecencyTags DEF Tags
<1>3. IsFiniteSet(Lines) /\ Cardinality(Lines) = opt.E
  <2>1. 1 \in Int /\ opt.E \in Int
    OBVIOUS
  <2>2. IsFiniteSet(1 .. opt.E) /\ Cardinality(1 .. opt.E) = IF 1 > opt.E THEN 0 ELSE opt.E - 1 + 1
    BY <2>1, FS_Interval
  <2> QED BY <2>2 DEF Lines
<1>4. Used(row) \in SUBSET Lines
  BY DEF Used
<1>5. Used(row) = Lines <=> Len(s) = opt.E
  BY <1>1, <1>3, <1>4, FS_Subset
<1>6. Used(row) = Lines <=> Empty(row) = {}
  BY DEF Used, Empty
<1> QED BY <1>2, <1>5, <1>6

(* Filling an empty line puts the tag in front. *)
LEMMA FillRecency ==
  ASSUME Shaped, NEW row \in [Lines -> LineType], RowOK(row), NEW t \in Int, ~IsHit(row, t), Empty(row) # {}
  PROVE  /\ RowOK(FillRow(row, t)) /\ Len(Recency(row)) # opt.E
         /\ ~Contains(Recency(row), t)
         /\ Recency(FillRow(row, t)) = <<t>> \o Recency(row)
<1> DEFINE new == FillRow(row, t)
           e   == FirstOf(Empty(row))
<1>0. opt.E \in Nat
  BY DEF Shaped
<1>1. e \in Lines /\ ~row[e].valid /\ \A j \in Empty(row) : e <= j
  <2>1. Empty(row) \subseteq Nat
    BY <1>0 DEF Empty, Lines
  <2>2. \E i \in Empty(row) : \A j \in Empty(row) : i <= j
    BY <2>1, LeastNat
  <2>3. e \in Empty(row) /\ \A j \in Empty(row) : e <= j
    BY <2>2 DEF FirstOf
  <2> HIDE DEF e
  <2> QED BY <2>3 DEF Empty
<1>2. PICK s : Ordered(row, s)
  BY DEF RowOK
<1>3. new = [i \in Lines |-> IF i = e THEN Filled(t) ELSE IF i < e THEN Aged(row[i]) ELSE row[i]]
  BY DEF FillRow
<1> HIDE DEF new, e
<1>4. \A i \in Lines : i # e => (i < e <=> row[i].valid)
  <2> SUFFICES ASSUME NEW i \in Lines, i # e PROVE i < e <=> row[i].valid
    OBVIOUS
  <2>0. i \in Int /\ e \in Int
    BY <1>0, <1>1 DEF Lines
  <2>1. ASSUME i < e PROVE row[i].valid
    <3>1. i \notin Empty(row)
      BY <1>1, <2>0, <2>1
    <3> QED BY <3>1 DEF Empty
  <2>2. ASSUME row[i].valid, ~(i < e) PROVE FALSE
    <3>1. e < i
      BY <2>0, <2>2
    <3> QED BY <1>1, <2>2, <3>1 DEF RowOK
  <2> QED BY <2>1, <2>2
<1>5. /\ new \in [Lines -> LineType] /\ new[e].valid /\ new[e].lru_counter = 0 /\ new[e].tag = t
      /\ \A i \in Lines : i # e => new[i].valid = row[i].valid /\ new[i].tag = row[i].tag
      /\ \A i \in Lines : row[i].valid => new[i].lru_counter = row[i].lru_counter + 1
  <2>1. Filled(t) \in LineType /\ \A i \in Lines : row[i] \in LineType /\ Aged(row[i]) \in LineType
    BY DEF Aged, Filled, LineType
  <2>2. new \in [Lines -> LineType]
    BY <1>3, <2>1
  <2>3. new[e] = Filled(t)
    BY <1>1, <1>3
  <2>4. new[e].valid /\ new[e].lru_counter = 0 /\ new[e].tag = t
    BY <2>3 DEF Filled
  <2>5. ASSUME NEW i \in Lines, i # e
        PROVE  /\ new[i].valid = row[i].valid /\ new[i].tag = row[i].tag
               /\ row[i].valid => new[i].lru_counter = row[i].lru_counter + 1
    <3>1. new[i] = IF row[i].valid THEN Aged(row[i]) ELSE row[i]
      BY <1>3, <1>4, <2>5
    <3>2. row[i] \in LineType
      OBVIOUS
    <3> QED BY <3>1, <3>2 DEF Aged, LineType
  <2> QED BY <1>1, <2>2, <2>4, <2>5
<1>6. Ordered(new, <<e>> \o s)
  <2>1. \A i \in Lines : new[i].valid <=> row[i].valid \/ i = e
    <3> SUFFICES ASSUME NEW i \in Lines PROVE new[i].valid <=> row[i].valid \/ i = e
      OBVIOUS
    <3>1. new[i].valid \in BOOLEAN /\ row[i].valid \in BOOLEAN
      BY <1>5 DEF LineType
    <3> QED BY <1>5, <3>1
  <2> QED BY <1>1, <1>2, <1>5, <2>1, Added DEF RowOK
<1>7. (\A i \in Lines : row[i].valid => row[i].tag # t) /\ ~Contains(Recency(row), t)
  BY <1>0, MissMeansAbsent
<1>8. RowOK(new)
  <2>1. \A i \in Lines : new[i].valid => new[i].lru_counter >= 0
    <3> SUFFICES ASSUME NEW i \in Lines, i # e, row[i].valid PROVE new[i].lru_counter >= 0
      BY <1>5
    <3>1. row[i].lru_counter >= 0 /\ row[i].lru_counter \in Int
      BY DEF RowOK, LineType
    <3> QED BY <1>5, <3>1
  <2>2. ASSUME NEW i \in Lines, NEW j \in Lines, new[j].valid, i < j PROVE new[i].valid
    <3>1. CASE i = e
      BY <1>5, <3>1
    <3>2. CASE i # e /\ j # e
      BY <1>5, <2>2, <3>2 DEF RowOK
    <3>3. CASE i # e /\ j = e
      BY <1>4, <1>5, <2>2, <3>3
    <3> QED BY <3>1, <3>2, <3>3
  <2>3. \A i, j \in Lines : new[i].valid /\ new[j].valid /\ new[i].tag = new[j].tag => i = j
    BY <1>5, <1>7 DEF RowOK
  <2> QED BY <1>6, <2>1, <2>2, <2>3 DEF RowOK
<1>9. Recency(row) = Tags(row, s) /\ Recency(new) = Tags(new, <<e>> \o s)
  BY <1>2, <1>5, <1>6, RecencyTags
<1>10. Tags(new, <<e>> \o s) = <<t>> \o Tags(row, s)
  <2>1. /\ Len(s) \in Nat /\ s \in Seq(Lines)
        /\ \A k \in 1 .. Len(s) : s[k] \in Lines /\ s[k] # e /\ new[s[k]].tag = row[s[k]].tag
    BY <1>1, <1>2, <1>5 DEF Ordered
  <2> DEFINE u == <<e>> \o s
             r == Tags(row, s)
             c == <<t>> \o r
  <2>2. Len(u) = Len(s) + 1 /\ u[1] = e /\ \A k \in 2 .. (Len(s) + 1) : u[k] = s[k - 1]
    BY <1>1, <2>1
  <2>3. r \in Seq(Int) /\ Len(r) = Len(s) /\ \A k \in 1 .. Len(s) : r[k] = row[s[k]].tag
    <3>1. \A k \in 1 .. Len(s) : row[s[k]].tag \in Int
      BY <2>1 DEF LineType
    <3> QED BY <2>1, <3>1 DEF Tags
  <2> HIDE DEF u, r
  <2>4. /\ c \in Seq(Int) /\ Len(c) = Len(s) + 1 /\ c[1] = t
        /\ \A k \in 2 .. (Len(s) + 1) : c[k] = r[k - 1]
    BY <2>1, <2>3
  <2> HIDE DEF c
  <2>5. ASSUME NEW k \in 1 .. (Len(s) + 1) PROVE c[k] = new[u[k]].tag
    <3>1. CASE k = 1
      BY <1>5, <2>2, <2>4, <3>1
    <3>2. CASE k # 1
      <4>1. k \in 2 .. (Len(s) + 1) /\ k - 1 \in 1 .. Len(s)
        BY <2>1, <3>2
      <4>2. c[k] = r[k - 1] /\ r[k - 1] = row[s[k - 1]].tag
        BY <2>3, <2>4, <4>1
      <4>3. u[k] = s[k - 1]
        BY <2>2, <4>1
      <4>4. new[s[k - 1]].tag = row[s[k - 1]].tag
        BY <2>1, <4>1
      <4> QED BY <4>2, <4>3, <4>4
    <3> QED BY <3>1, <3>2
  <2>6. Tags(new, u) = [k \in 1 .. (Len(s) + 1) |-> c[k]]
    BY <2>2, <2>5 DEF Tags
  <2>7. c = [k \in 1 .. (Len(s) + 1) |-> c[k]]
    BY <2>1, <2>4
  <2> QED BY <2>6, <2>7 DEF u, c, r
<1>11. Len(Recency(row)) # opt.E
  BY <1>0, <1>2, RecencyLen
<1> QED BY <1>7, <1>8, <1>9, <1>10, <1>11 DEF new

(* In a full set the victim is the last of the order. *)
LEMMA EvictRecency ==
  ASSUME Shaped, NEW row \in [Lines -> LineType], RowOK(row), NEW t \in Int, ~IsHit(row, t), Empty(row) = {}
  PROVE  /\ RowOK(EvictRow(row, t)) /\ Len(Recency(row)) = opt.E
         /\ ~Contains(Recency(row), t)
         /\ Recency(EvictRow(row, t)) = <<t>> \o Front(Recency(row))
<1> DEFINE new == EvictRow(row, t)
<1>0. opt.E \in Nat \ {0}
  BY DEF Shaped
<1>1. PICK s : Ordered(row, s)
  BY DEF RowOK
<1>2. Len(s) = opt.E /\ Len(Recency(row)) = opt.E
  BY <1>0, <1>1, RecencyLen
<1> DEFINE p == opt.E
           v == s[p]
<1>3. p \in 1 .. Len(s) /\ v \in Lines /\ \A i \in Lines : row[i].valid /\ row[i].lru_counter >= 0 /\ row[i].lru_counter \in Int
  <2>1. \A i \in Lines : row[i].valid
    BY DEF Empty
  <2>2. p \in 1 .. Len(s)
    BY <1>0, <1>2
  <2>3. v \in Lines
    BY <1>1, <2>2 DEF Ordered
  <2>4. ASSUME NEW i \in Lines PROVE row[i].lru_counter >= 0 /\ row[i].lru_counter \in Int
    <3>1. row[i] \in LineType
      OBVIOUS
    <3> QED BY <2>1, <3>1 DEF RowOK, LineType
  <2> HIDE DEF p, v
  <2> QED BY <2>1, <2>2, <2>3, <2>4
<1>4. \A i \in Lines : i # v => row[i].lru_counter < row[v].lru_counter
  <2> SUFFICES ASSUME NEW i \in Lines, i # v PROVE row[i].lru_counter < row[v].lru_counter
    OBVIOUS
  <2>1. PICK k \in 1 .. Len(s) : s[k] = i
    BY <1>1, <1>3 DEF Ordered
  <2>2. k < p
    BY <1>0, <1>2, <2>1
  <2> QED BY <1>1, <1>3, <2>1, <2>2 DEF Ordered
<1>5. lru_index(row) = v
  <2> DEFINE oldest == {i \in Lines : /\ row[i].lru_counter + 1 > -1
                                      /\ \A j \in Lines : row[j].lru_counter <= row[i].lru_counter}
  <2> HIDE DEF v, p
  <2>1. v \in oldest
    BY <1>3, <1>4
  <2>2. \A i \in oldest : i = v
    BY <1>3, <1>4
  <2>3. oldest = {v}
    BY <2>1, <2>2
  <2>4. FirstOf({v}) = v
    <3>1. v \in Int
      BY <1>0, <1>3 DEF Lines
    <3> QED BY <3>1 DEF FirstOf
  <2> QED BY <2>3, <2>4 DEF lru_index
<1>6. new = [i \in Lines |-> IF i = v THEN Filled(t) ELSE Aged(row[i])]
  BY <1>5 DEF EvictRow
<1>a. v = s[p] /\ p = opt.E
  OBVIOUS
<1> HIDE DEF new, v, p
<1>7. /\ new \in [Lines -> LineType] /\ new[v].lru_counter = 0 /\ new[v].tag = t
      /\ \A i \in Lines : new[i].valid
      /\ \A i \in Lines : i # v => new[i].lru_counter = row[i].lru_counter + 1 /\ new[i].tag = row[i].tag
  <2>1. Filled(t) \in LineType /\ \A i \in Lines : row[i] \in LineType /\ Aged(row[i]) \in LineType
    BY DEF Aged, Filled, LineType
  <2>2. new \in [Lines -> LineType]
    BY <1>6, <2>1
  <2>3. new[v] = Filled(t) /\ \A i \in Lines : i # v => new[i] = Aged(row[i])
    BY <1>3, <1>6
  <2>4. new[v].valid /\ new[v].lru_counter = 0 /\ new[v].tag = t
    BY <2>3 DEF Filled
  <2>5. ASSUME NEW i \in Lines, i # v
        PROVE  new[i].valid /\ new[i].lru_counter = row[i].lru_counter + 1 /\ new[i].tag = row[i].tag
    <3>1. new[i] = Aged(row[i]) /\ row[i] \in LineType /\ row[i].valid
      BY <1>3, <2>3, <2>5
    <3> QED BY <3>1 DEF Aged, LineType
  <2> QED BY <2>2, <2>4, <2>5
<1>8. Ordered(new, Front1(s, p)) /\ Len(Front1(s, p)) = Len(s)
  <2>1. \A i \in Lines : new[i].valid = row[i].valid
    <3>1. \A i \in Lines : new[i].valid \in BOOLEAN /\ row[i].valid \in BOOLEAN
      BY <1>7 DEF LineType
    <3> QED BY <1>3, <1>7, <3>1
  <2>2. new[s[p]].lru_counter = 0 /\ \A i \in Lines : row[i].valid /\ i # s[p] => new[i].lru_counter = row[i].lru_counter + 1
    BY <1>7, <1>a
  <2> QED BY <1>1, <1>3, <1>7, <2>1, <2>2, Promoted
<1>9. (\A i \in Lines : row[i].tag # t) /\ ~Contains(Recency(row), t)
  BY <1>0, <1>3, MissMeansAbsent
<1>10. RowOK(new)
  <2>1. \A i \in Lines : new[i].lru_counter >= 0
    <3> SUFFICES ASSUME NEW i \in Lines PROVE new[i].lru_counter >= 0
      OBVIOUS
    <3>1. row[i].lru_counter >= 0 /\ row[i].lru_counter \in Int
      BY <1>3
    <3> QED BY <1>7, <3>1
  <2>2. \A i, j \in Lines : new[i].tag = new[j].tag => i = j
    BY <1>3, <1>7, <1>9 DEF RowOK
  <2> QED BY <1>7, <1>8, <2>1, <2>2 DEF RowOK
<1> DEFINE u == Front1(s, p)
           r == Recency(row)
<1>11. r = Tags(row, s) /\ Recency(new) = Tags(new, u)
  BY <1>1, <1>7, <1>8, RecencyTags
<1>12. /\ Len(s) \in Nat /\ s \in Seq(Lines) /\ \A j, k \in 1 .. Len(s) : s[j] = s[k] => j = k
  BY <1>1, OrderedCounts DEF Ordered
<1>13. Tags(new, u) = <<t>> \o Front(r)
  <2>1. Len(u) = Len(s) /\ \A k \in 1 .. Len(s) : u[k] = IF k = 1 THEN v ELSE s[k - 1]
    <3>1. Len(u) = Len(s) /\ u = [k \in 1 .. Len(s) |-> IF k = 1 THEN s[p] ELSE IF k <= p THEN s[k - 1] ELSE s[k]]
      BY <1>8 DEF Front1
    <3>2. \A k \in 1 .. Len(s) : k <= p
      BY <1>2, <1>12, <1>a
    <3> HIDE DEF u
    <3> QED BY <1>a, <3>1, <3>2
  <2>2. r \in Seq(Int) /\ Len(r) = Len(s) /\ \A k \in 1 .. Len(s) : r[k] = row[s[k]].tag
    <3>1. \A k \in 1 .. Len(s) : row[s[k]].tag \in Int
      BY <1>12 DEF LineType
    <3> QED BY <1>11, <1>12, <3>1 DEF Tags
  <2> HIDE DEF u, r
  <2> DEFINE f == Front(r)
             c == <<t>> \o f
  <2>3. f \in Seq(Int) /\ Len(f) = Len(s) - 1 /\ \A k \in 1 .. (Len(s) - 1) : f[k] = r[k]
    BY <1>0, <1>2, <1>12, <2>2 DEF Front
  <2> HIDE DEF f
  <2>4. c \in Seq(Int) /\ Len(c) = Len(s) /\ c[1] = t /\ \A k \in 2 .. Len(s) : c[k] = f[k - 1]
    BY <1>12, <2>3
  <2> HIDE DEF c
  <2>5. ASSUME NEW k \in 1 .. Len(s) PROVE c[k] = new[u[k]].tag
    <3>1. CASE k = 1
      BY <1>7, <2>1, <2>4, <3>1
    <3>2. CASE k # 1
      <4>1. k \in 2 .. Len(s) /\ k - 1 \in 1 .. (Len(s) - 1) /\ k - 1 \in 1 .. Len(s) /\ k - 1 # p
        BY <1>2, <1>12, <1>a, <3>2
      <4>2. s[k - 1] # v /\ s[k - 1] \in Lines
        BY <1>3, <1>12, <1>a, <4>1
      <4>3. c[k] = row[s[k - 1]].tag /\ u[k] = s[k - 1]
        BY <2>1, <2>2, <2>3, <2>4, <3>2, <4>1
      <4> QED BY <1>7, <4>2, <4>3
    <3> QED BY <3>1, <3>2
  <2>6. Tags(new, u) = [k \in 1 .. Len(s) |-> c[k]]
    BY <2>1, <2>5 DEF Tags
  <2>7. c = [k \in 1 .. Len(s) |-> c[k]]
    BY <1>12, <2>4
  <2> QED BY <2>6, <2>7 DEF c, f
<1> QED BY <1>2, <1>9, <1>10, <1>11, <1>13 DEF new, r

(* The simulator's sets are ordered, each by the ages of its lines. *)
RowsOK == \A k \in SetIds : RowOK(cache[k])
LruInv == CsimInv /\ RowsOK

(* The mapping, as a function of the lines there are. *)
RecencyOf(lines, row) ==
  LET inUse == {i \in lines : row[i].valid}
      newer(i) == {j \in inUse : row[j].lru_counter < row[i].lru_counter}
  IN  [k \in 1 .. Cardinality(inUse) |->
         row[CHOOSE i \in inUse : Cardinality(newer(i)) = k - 1].tag]

Mapped == [k \in SetIds |-> Recency(cache[k])]

(* The mapping depends on the shape of the cache and its lines only. *)
LEMMA MappedSame ==
  ASSUME UNCHANGED <<opt, cache>>
  PROVE  UNCHANGED <<Mapped, RowsOK>>
<1>1. SetIds' = SetIds /\ Lines' = Lines /\ cache' = cache
  BY DEF SetIds, Lines
<1>2. Mapped' = [k \in SetIds' |-> RecencyOf(Lines', cache'[k])]
  BY DEF Mapped, Recency, RecencyOf
<1>3. Mapped = [k \in SetIds |-> RecencyOf(Lines, cache[k])]
  BY DEF Mapped, Recency, RecencyOf
<1>4. RowsOK' = RowsOK
  BY <1>1 DEF RowsOK, RowOK, Ordered
<1> QED BY <1>1, <1>2, <1>3, <1>4

(* A new row in one set. *)
LEMMA MappedNew ==
  ASSUME Shaped, RowsOK, NEW k \in SetIds, NEW row \in [Lines -> LineType],
         cache' = [cache EXCEPT ![k] = row], UNCHANGED opt,
         misses' \in Int, evictions' \in Int, RowOK(row)
  PROVE  /\ RowsOK' /\ DOMAIN Mapped = SetIds /\ Mapped[k] = Recency(cache[k])
         /\ Mapped' = [Mapped EXCEPT ![k] = Recency(row)] /\ Mapped'[k] = Recency(row)
<1>1. /\ cache'[k] = row
      /\ \A j \in SetIds : j # k => cache'[j] = cache[j]
      /\ SetIds' = SetIds /\ Lines' = Lines
  BY NewRow
<1>2. Mapped' = [j \in SetIds' |-> RecencyOf(Lines', cache'[j])]
  BY DEF Mapped, Recency, RecencyOf
<1>3. Mapped = [j \in SetIds |-> RecencyOf(Lines, cache[j])]
  BY DEF Mapped, Recency, RecencyOf
<1>4. Recency(row) = RecencyOf(Lines, row) /\ Recency(cache[k]) = RecencyOf(Lines, cache[k])
  BY DEF Recency, RecencyOf
<1>5. ASSUME NEW j \in SetIds PROVE RowOK(cache[j])'
  <2>1. RowOK(cache'[j])
    BY <1>1 DEF RowsOK
  <2> QED BY <1>1, <2>1 DEF RowOK, Ordered
<1>6. RowsOK'
  BY <1>1, <1>5 DEF RowsOK
<1>7. Mapped' = [j \in SetIds |-> RecencyOf(Lines, cache'[j])]
  BY <1>1, <1>2
<1>8. Mapped' = [Mapped EXCEPT ![k] = RecencyOf(Lines, row)]
  BY <1>1, <1>3, <1>7
<1> QED BY <1>3, <1>4, <1>6, <1>7, <1>8, <1>1

(* The mapped steps of the abstract cache, as the simulator takes them. *)
LruHit(k, t, n) ==
  /\ Contains(Mapped[k], t)
  /\ Mapped' = [Mapped EXCEPT ![k] = <<t>> \o RemoveFirst(Mapped[k], t)]
  /\ hits' = hits + n
  /\ UNCHANGED <<misses, evictions>>

LruMiss(k, t, n) ==
  /\ ~Contains(Mapped[k], t)
  /\ Mapped' = [Mapped EXCEPT ![k] = <<t>> \o (IF Len(Mapped[k]) = opt.E THEN Front(Mapped[k]) ELSE Mapped[k])]
  /\ hits' = hits + (n - 1)
  /\ misses' = misses + 1
  /\ evictions' = evictions + (IF Len(Mapped[k]) = opt.E THEN 1 ELSE 0)

LruStep ==
  \E k \in SetIds, n \in {1, 2} :
    Mapped'[k] # <<>> /\ (LruHit(k, Head(Mapped'[k]), n) \/ LruMiss(k, Head(Mapped'[k]), n))

(* LruCache has the operators on sequences through its instance. *)
LEMMA LruOperators ==
  ASSUME NEW s, NEW e
  PROVE  /\ Lru!Contains(s, e) = Contains(s, e)
         /\ Lru!RemoveFirst(s, e) = RemoveFirst(s, e)
         /\ Lru!Front(s) = Front(s)
<1>1. Lru!Contains(s, e) = Contains(s, e)
  BY DEF Lru!Contains, Contains
<1>2. Lru!Front(s) = Front(s)
  BY DEF Lru!Front, Front
<1>3. Lru!RemoveFirst(s, e) = RemoveFirst(s, e)
  BY DEF Lru!RemoveFirst, RemoveFirst, Lru!RemoveAt, RemoveAt, Lru!SelectInSeq, SelectInSeq, Lru!Min, Min
<1> QED BY <1>1, <1>2, <1>3

(* Each of them is a step of LruCache. *)
LEMMA LruStepIsNext ==
  ASSUME Shaped, LruStep, UNCHANGED opt
  PROVE  Lru!Next
<1>1. DOMAIN Mapped = SetIds
  BY DEF Mapped
<1>2. PICK k \in SetIds, n \in {1, 2} :
        Mapped'[k] # <<>> /\ (LruHit(k, Head(Mapped'[k]), n) \/ LruMiss(k, Head(Mapped'[k]), n))
  BY DEF LruStep
<1>3. Lru!Access(k, Head(Mapped'[k]), n)
  <2> DEFINE t == Head(Mapped'[k])
             old == Mapped[k]
  <2>1. LruHit(k, t, n) \/ LruMiss(k, t, n)
    BY <1>2
  <2>2. Lru!Contains(old, t) = Contains(old, t) /\ Lru!RemoveFirst(old, t) = RemoveFirst(old, t) /\ Lru!Front(old) = Front(old)
    BY LruOperators
  <2>3. CASE LruHit(k, t, n)
    <3>1. /\ Lru!Contains(old, t)
          /\ Mapped' = [Mapped EXCEPT ![k] = <<t>> \o Lru!RemoveFirst(old, t)]
          /\ hits' = hits + n
          /\ UNCHANGED <<misses, evictions>>
      BY <2>2, <2>3, Zenon DEF LruHit
    <3> QED BY <3>1, Zenon DEF Lru!Access, Mapped
  <2>4. CASE LruMiss(k, t, n)
    <3>1. /\ ~Lru!Contains(old, t)
          /\ Mapped' = [Mapped EXCEPT ![k] = <<t>> \o (IF Len(old) = opt.E THEN Lru!Front(old) ELSE old)]
          /\ hits' = hits + (n - 1)
          /\ misses' = misses + 1
          /\ evictions' = evictions + (IF Len(old) = opt.E THEN 1 ELSE 0)
      BY <2>2, <2>4, Zenon DEF LruMiss
    <3> QED BY <3>1, Zenon DEF Lru!Access, Mapped
  <2> QED BY <2>1, <2>3, <2>4
<1>4. opt.E' = opt.E
  OBVIOUS
<1> QED BY <1>1, <1>2, <1>3, <1>4, Zenon DEF Lru!Next, Mapped
-----------------------------------------------------------------------------
(* The mapping yields sequences, and so does removing a tag. *)
LEMMA RecencySeq ==
  ASSUME NEW row \in [Lines -> LineType], RowOK(row)
  PROVE  Recency(row) \in Seq(Int)
<1>1. PICK s : Ordered(row, s)
  BY DEF RowOK
<1>2. Recency(row) = Tags(row, s)
  BY <1>1, RecencyTags
<1>3. Len(s) \in Nat /\ \A k \in 1 .. Len(s) : row[s[k]].tag \in Int
  BY <1>1 DEF Ordered, LineType
<1> QED BY <1>2, <1>3 DEF Tags

(* An occurrence of a tag is cut out. *)
LEMMA RemoveFirstSeq ==
  ASSUME NEW r \in Seq(Int), NEW t, Contains(r, t)
  PROVE  RemoveFirst(r, t) \in Seq(Int)
<1> DEFINE I == {i \in 1 .. Len(r) : r[i] = t}
           p == Min(I)
<1>1. I \subseteq Nat /\ I # {}
  BY DEF Contains
<1>2. p \in 1 .. Len(r)
  <2>1. \E x \in I : \A y \in I : x <= y
    <3> HIDE DEF I
    <3> QED BY <1>1, LeastNat
  <2>2. p \in I
    <3> HIDE DEF I
    <3> QED BY <2>1 DEF Min
  <2> QED BY <2>2
<1>3. RemoveFirst(r, t) = SubSeq(r, 1, p - 1) \o SubSeq(r, p + 1, Len(r))
  BY <1>1 DEF RemoveFirst, RemoveAt, SelectInSeq
<1> HIDE DEF p, I
<1>4. SubSeq(r, 1, p - 1) \in Seq(Int) /\ SubSeq(r, p + 1, Len(r)) \in Seq(Int)
  BY <1>2
<1> QED BY <1>3, <1>4

(* What is put in front is the head. *)
LEMMA HeadFirst ==
  ASSUME NEW t \in Int, NEW r \in Seq(Int)
  PROVE  <<t>> \o r # <<>> /\ Head(<<t>> \o r) = t
  OBVIOUS

(* A hit, of which a modify is two. *)
LEMMA HitIsLru ==
  ASSUME Shaped, RowsOK, NEW id, NEW addr \in Int, Hit(id, addr)
  PROVE  RowsOK' /\ Lru!Next
<1> DEFINE k == set(addr)
           t == tag(addr)
           row == cache[k]
           new == HitRow(row, t)
           n == 1 + Extra(id)
<1>1. k \in SetIds /\ t \in Int /\ row \in [Lines -> LineType] /\ RowOK(row)
  BY AddressOK DEF Shaped, RowsOK
<1>2. /\ IsHit(row, t) /\ cache' = [cache EXCEPT ![k] = new]
      /\ hits' = hits + Cardinality(Matches(row, t)) * n
      /\ UNCHANGED <<opt, misses, evictions>>
  BY DEF Hit, Record
<1>3. n \in {1, 2}
  BY DEF Extra
<1> HIDE DEF n, k, t, row
<1>4. /\ RowOK(new) /\ Cardinality(Matches(row, t)) = 1
      /\ Contains(Recency(row), t)
      /\ Recency(new) = <<t>> \o RemoveFirst(Recency(row), t)
  BY <1>1, <1>2, HitRecency
<1>5. new \in [Lines -> LineType]
  BY <1>1 DEF HitRow, Aged, LineType
<1>6. misses' \in Int /\ evictions' \in Int
  BY <1>2 DEF Shaped
<1> HIDE DEF new
<1>7. /\ RowsOK' /\ DOMAIN Mapped = SetIds /\ Mapped[k] = Recency(row)
      /\ Mapped' = [Mapped EXCEPT ![k] = Recency(new)] /\ Mapped'[k] = Recency(new)
  BY <1>1, <1>2, <1>4, <1>5, <1>6, MappedNew DEF row
<1>8. hits' = hits + n
  <2>1. 1 * n = n
    BY <1>3
  <2> QED BY <1>2, <1>4, <2>1
<1>9. Mapped'[k] # <<>> /\ Head(Mapped'[k]) = t
  <2>1. RemoveFirst(Recency(row), t) \in Seq(Int)
    BY <1>1, <1>4, RecencySeq, RemoveFirstSeq
  <2> QED BY <1>1, <1>4, <1>7, <2>1, HeadFirst
<1>10. LruHit(k, t, n)
  BY <1>2, <1>4, <1>7, <1>8 DEF LruHit
<1>11. LruStep
  BY <1>1, <1>3, <1>9, <1>10 DEF LruStep
<1> QED BY <1>2, <1>7, <1>11, LruStepIsNext

(* A miss that fills an empty line. *)
LEMMA FillIsLru ==
  ASSUME Shaped, RowsOK, NEW id, NEW addr \in Int, Fill(id, addr)
  PROVE  RowsOK' /\ Lru!Next
<1> DEFINE k == set(addr)
           t == tag(addr)
           row == cache[k]
           new == FillRow(row, t)
           n == 1 + Extra(id)
<1>1. k \in SetIds /\ t \in Int /\ row \in [Lines -> LineType] /\ RowOK(row)
  BY AddressOK DEF Shaped, RowsOK
<1>2. /\ ~IsHit(row, t) /\ Empty(row) # {} /\ cache' = [cache EXCEPT ![k] = new]
      /\ hits' = hits + Extra(id) /\ misses' = misses + 1
      /\ UNCHANGED <<opt, evictions>>
  BY DEF Fill, Record
<1>3. n \in {1, 2} /\ n - 1 = Extra(id)
  BY DEF Extra
<1> HIDE DEF n, k, t, row
<1>4. /\ RowOK(new) /\ Len(Recency(row)) # opt.E
      /\ ~Contains(Recency(row), t)
      /\ Recency(new) = <<t>> \o Recency(row)
  BY <1>1, <1>2, FillRecency
<1>5. new \in [Lines -> LineType]
  <2>1. Filled(t) \in LineType /\ \A i \in Lines : row[i] \in LineType /\ Aged(row[i]) \in LineType
    BY <1>1 DEF Filled, Aged, LineType
  <2> QED BY <2>1 DEF FillRow
<1>6. misses' \in Int /\ evictions' \in Int /\ evictions' = evictions + 0
  BY <1>2 DEF Shaped
<1> HIDE DEF new
<1>7. /\ RowsOK' /\ DOMAIN Mapped = SetIds /\ Mapped[k] = Recency(row)
      /\ Mapped' = [Mapped EXCEPT ![k] = Recency(new)] /\ Mapped'[k] = Recency(new)
  BY <1>1, <1>2, <1>4, <1>5, <1>6, MappedNew DEF row
<1>9. Mapped'[k] # <<>> /\ Head(Mapped'[k]) = t
  <2>1. Recency(row) \in Seq(Int)
    BY <1>1, RecencySeq
  <2> QED BY <1>1, <1>4, <1>7, <2>1, HeadFirst
<1>10. LruMiss(k, t, n)
  <2>1. hits' = hits + (n - 1)
    BY <1>2, <1>3
  <2>2. Mapped' = [Mapped EXCEPT ![k] = <<t>> \o Mapped[k]]
    BY <1>4, <1>7
  <2> QED BY <1>2, <1>4, <1>6, <1>7, <2>1, <2>2 DEF LruMiss
<1>11. LruStep
  BY <1>1, <1>3, <1>9, <1>10 DEF LruStep
<1> QED BY <1>2, <1>7, <1>11, LruStepIsNext

(* A miss that replaces the least recently used line. *)
LEMMA EvictIsLru ==
  ASSUME Shaped, RowsOK, NEW id, NEW addr \in Int, Evict(id, addr)
  PROVE  RowsOK' /\ Lru!Next
<1> DEFINE k == set(addr)
           t == tag(addr)
           row == cache[k]
           new == EvictRow(row, t)
           n == 1 + Extra(id)
<1>1. k \in SetIds /\ t \in Int /\ row \in [Lines -> LineType] /\ RowOK(row)
  BY AddressOK DEF Shaped, RowsOK
<1>2. /\ ~IsHit(row, t) /\ Empty(row) = {} /\ cache' = [cache EXCEPT ![k] = new]
      /\ hits' = hits + Extra(id) /\ misses' = misses + 1 /\ evictions' = evictions + 1
      /\ UNCHANGED opt
  BY DEF Evict, Record
<1>3. n \in {1, 2} /\ n - 1 = Extra(id)
  BY DEF Extra
<1> HIDE DEF n, k, t, row
<1>4. /\ RowOK(new) /\ Len(Recency(row)) = opt.E
      /\ ~Contains(Recency(row), t)
      /\ Recency(new) = <<t>> \o Front(Recency(row))
  BY <1>1, <1>2, EvictRecency
<1>5. new \in [Lines -> LineType]
  <2>1. Filled(t) \in LineType /\ \A i \in Lines : Aged(row[i]) \in LineType
    BY <1>1 DEF Filled, Aged, LineType
  <2> QED BY <2>1 DEF EvictRow
<1>6. misses' \in Int /\ evictions' \in Int
  BY <1>2 DEF Shaped
<1> HIDE DEF new
<1>7. /\ RowsOK' /\ DOMAIN Mapped = SetIds /\ Mapped[k] = Recency(row)
      /\ Mapped' = [Mapped EXCEPT ![k] = Recency(new)] /\ Mapped'[k] = Recency(new)
  BY <1>1, <1>2, <1>4, <1>5, <1>6, MappedNew DEF row
<1>9. Mapped'[k] # <<>> /\ Head(Mapped'[k]) = t
  <2>1. Recency(row) \in Seq(Int)
    BY <1>1, RecencySeq
  <2>2. Len(Recency(row)) \in Nat \ {0}
    BY <1>4 DEF Shaped
  <2>3. Front(Recency(row)) \in Seq(Int)
    BY <2>1, <2>2 DEF Front
  <2> QED BY <1>1, <1>4, <1>7, <2>3, HeadFirst
<1>10. LruMiss(k, t, n)
  <2>1. hits' = hits + (n - 1)
    BY <1>2, <1>3
  <2>2. Mapped' = [Mapped EXCEPT ![k] = <<t>> \o Front(Mapped[k])]
    BY <1>4, <1>7
  <2> QED BY <1>2, <1>4, <1>7, <2>1, <2>2 DEF LruMiss
<1>11. LruStep
  BY <1>1, <1>3, <1>9, <1>10 DEF LruStep
<1> QED BY <1>2, <1>7, <1>11, LruStepIsNext

(* A record with id L, S or M. *)
LEMMA AccessIsLru ==
  ASSUME Shaped, RowsOK, NEW id, NEW addr \in Int, Access(id, addr)
  PROVE  RowsOK' /\ Lru!Next
  BY HitIsLru, FillIsLru, EvictIsLru DEF Access

(* A step that leaves the simulator alone. *)
LEMMA SameIsLru ==
  ASSUME RowsOK, UNCHANGED <<opt, cache, hits, misses, evictions>>
  PROVE  RowsOK' /\ UNCHANGED Lru!vars
<1>1. UNCHANGED <<Mapped, RowsOK>>
  BY MappedSame
<1> QED BY <1>1, Zenon DEF Lru!vars, Mapped

(* Fresh memory is an empty cache. *)
LEMMA LruInitOK == TransInit => LruInv /\ Lru!Init
<1> SUFFICES ASSUME TransInit PROVE LruInv /\ Lru!Init
  OBVIOUS
<1>1. CsimInv
  BY CsimInitOK
<1>2. /\ opt.E \in Nat \ {0} /\ cache \in [SetIds -> [Lines -> Fresh]]
      /\ cache \in [SetIds -> [Lines -> LineType]]
      /\ hits = 0 /\ misses = 0 /\ evictions = 0
  BY <1>1 DEF TransInit, CsimInit, CsimInv, Shaped
<1>3. ASSUME NEW k \in SetIds PROVE RowOK(cache[k]) /\ Recency(cache[k]) = <<>>
  <2> DEFINE row == cache[k]
  <2>1. row \in [Lines -> LineType] /\ \A i \in Lines : ~row[i].valid
    BY <1>2, CsimAssumption
  <2> HIDE DEF row
  <2>2. Ordered(row, <<>>)
    BY <2>1 DEF Ordered
  <2>3. RowOK(row)
    BY <2>1, <2>2 DEF RowOK
  <2>4. Recency(row) = [j \in 1 .. Len(<<>>) |-> row[<<>>[j]].tag]
    BY <2>1, <2>2, RecencyIs
  <2>5. Recency(row) = <<>>
    BY <2>4
  <2> QED BY <2>3, <2>5 DEF row
<1>4. RowsOK
  BY <1>3 DEF RowsOK
<1>5. DOMAIN Mapped = SetIds /\ \A k \in SetIds : Mapped[k] = <<>>
  BY <1>3 DEF Mapped
<1>6. Lru!Init
  BY <1>2, <1>5 DEF Lru!Init, Mapped
<1> QED BY <1>1, <1>4, <1>6 DEF LruInv

(* Every step of the simulator is one of the abstract cache, or leaves the *)
(* abstract cache as it is.                                                *)
LEMMA LruNextOK == LruInv /\ [TransNext]_vars => LruInv' /\ [Lru!Next]_(Lru!vars)
<1> SUFFICES ASSUME LruInv, [TransNext]_vars PROVE LruInv' /\ [Lru!Next]_(Lru!vars)
  OBVIOUS
<1>0. CsimInv /\ CsimInv' /\ Shaped /\ RowsOK
  BY CsimNextOK DEF LruInv, CsimInv
<1> SUFFICES RowsOK' /\ (Lru!Next \/ UNCHANGED Lru!vars)
  BY <1>0 DEF LruInv
<1>1. CASE job = NULL /\ AnyRecord /\ UNCHANGED transVars
  <2>1. CASE Skip
    BY <1>0, <2>1, SameIsLru DEF Skip, Record
  <2>2. ASSUME NEW id \in {"L", "S", "M"}, NEW addr \in Addrs, Access(id, addr) PROVE RowsOK' /\ Lru!Next
    <3>1. addr \in Int
      BY CsimAssumption
    <3> QED BY <1>0, <2>2, <3>1, AccessIsLru
  <2> QED BY <1>1, <2>1, <2>2 DEF AnyRecord
<1>2. CASE DoLoad
  <2>1. Address(At) \in Int /\ Access("L", Address(At))
    BY <1>0, <1>2, AtOK DEF DoLoad
  <2> QED BY <1>0, <2>1, AccessIsLru
<1>3. CASE DoStore
  <2>1. Address(At) \in Int /\ Access("S", Address(At))
    BY <1>0, <1>3, AtOK DEF DoStore
  <2> QED BY <1>0, <2>1, AccessIsLru
<1>4. CASE NoStore
  BY <1>0, <1>4, SameIsLru DEF NoStore, csimVars
<1>5. CASE Evaluate
  BY <1>0, <1>5, SameIsLru DEF Evaluate, csimVars
<1>6. CASE UNCHANGED vars
  BY <1>0, <1>6, SameIsLru DEF vars, csimVars
<1> QED BY <1>1, <1>2, <1>3, <1>4, <1>5, <1>6 DEF TransNext

(* The simulator implements the cache with least-recently-used replacement *)
(* for every shape, every trace, and whatever fresh memory holds: the ages *)
(* order the lines of a set by last use, so that the line a miss replaces  *)
(* is the one whose last use is longest ago, and hits, misses and          *)
(* evictions are counted as that cache has them.                           *)
THEOREM CsimIsLru == Spec => ImplementsLru
<1>1. TransInit => LruInv /\ Lru!Init
  BY LruInitOK
<1>2. LruInv /\ [TransNext]_vars => LruInv' /\ [Lru!Next]_(Lru!vars)
  BY LruNextOK
<1> QED BY <1>1, <1>2, PTL DEF Spec, ImplementsLru, Lru!Spec
-----------------------------------------------------------------------------
(* The functions of trans.c as programs: what an access does to B, to the  *)
(* registers and to is_diagonal, and a logic for sequences of accesses.    *)
Val == Int \cup {NULL}

Machine(M, N) == [B : [0 .. (M * N - 1) -> Val], reg : [0 .. 9 -> Val], d : BOOLEAN]

AccessIn(M, N) ==
  {a \in AccessType :
     \/ a.mat = "marker" /\ a.id = "S" /\ a.when = "always"
     \/ a.mat = "A" /\ a.id = "L" /\ a.r \in 0 .. 9 /\ a.row \in 0 .. (N - 1) /\ a.col \in 0 .. (M - 1)
     \/ a.mat = "B" /\ a.r \in 0 .. 9 /\ a.row \in 0 .. (M - 1) /\ a.col \in 0 .. (N - 1)}

NewReg(z, r, v, d)   == [B |-> z.B, d |-> d, reg |-> [z.reg EXCEPT ![r] = v]]
NewPlace(z, p, v, d) == [B |-> [z.B EXCEPT ![p] = v], d |-> d, reg |-> z.reg]

Exec(M, N, a, z) ==
  IF a.id = "L"
  THEN NewReg(z, a.r, IF a.mat = "A" THEN a.row * M + a.col ELSE z.B[a.row * N + a.col],
              a.when = "set" \/ z.d)
  ELSE IF a.mat = "B" /\ (a.when = "is_diagonal" => z.d)
  THEN NewPlace(z, a.row * N + a.col, z.reg[a.r], a.when = "always" /\ z.d)
  ELSE z

(* Every run of the accesses s from a state of P ends in one of Q, and s   *)
(* stays within the matrices.                                              *)
Triple(M, N, s, P, Q) ==
  /\ s \in Seq(AccessIn(M, N))
  /\ \A h : (\A p \in 1 .. Len(s) : h[p] = Exec(M, N, s[p], h[p - 1])) /\ h[0] \in P => h[Len(s)] \in Q

(* One access after the other. *)
LEMMA SeqTriple ==
  ASSUME NEW M, NEW N, NEW m \in Nat, NEW s \in [1 .. m -> AccessIn(M, N)], NEW I,
         \A n \in 1 .. m : \A z \in I[n - 1] : Exec(M, N, s[n], z) \in I[n]
  PROVE  Triple(M, N, s, I[0], I[m])
<1>1. s \in Seq(AccessIn(M, N)) /\ Len(s) = m
  OBVIOUS
<1>2. ASSUME NEW h, \A p \in 1 .. Len(s) : h[p] = Exec(M, N, s[p], h[p - 1]), h[0] \in I[0]
      PROVE  h[Len(s)] \in I[m]
  <2> DEFINE Bad == {k \in 0 .. m : h[k] \notin I[k]}
  <2>1. ASSUME Bad # {} PROVE FALSE
    <3>1. PICK k \in Bad : \A y \in Bad : k <= y
      <4>1. Bad \subseteq Nat
        OBVIOUS
      <4> HIDE DEF Bad
      <4> QED BY <2>1, <4>1, LeastNat
    <3>2. k \in 0 .. m /\ h[k] \notin I[k] /\ k # 0
      BY <1>2
    <3>3. k - 1 \in 0 .. m /\ k - 1 \notin Bad /\ k \in 1 .. m
      BY <3>1, <3>2
    <3>4. h[k - 1] \in I[k - 1]
      BY <3>3
    <3>5. h[k] = Exec(M, N, s[k], h[k - 1])
      BY <1>1, <1>2, <3>3
    <3> QED BY <3>2, <3>3, <3>4, <3>5
  <2>2. m \in 0 .. m
    OBVIOUS
  <2> QED BY <1>1, <2>1, <2>2
<1> QED BY <1>1, <1>2 DEF Triple

(* A single access. *)
LEMMA OneTriple ==
  ASSUME NEW M, NEW N, NEW a \in AccessIn(M, N), NEW P, NEW Q,
         \A z \in P : Exec(M, N, a, z) \in Q
  PROVE  Triple(M, N, <<a>>, P, Q)
<1>1. <<a>> \in Seq(AccessIn(M, N)) /\ Len(<<a>>) = 1 /\ <<a>>[1] = a
  OBVIOUS
<1>2. ASSUME NEW h, \A p \in 1 .. Len(<<a>>) : h[p] = Exec(M, N, <<a>>[p], h[p - 1]), h[0] \in P
      PROVE  h[Len(<<a>>)] \in Q
  <2>1. h[1] = Exec(M, N, a, h[0])
    <3>1. h[1] = Exec(M, N, <<a>>[1], h[1 - 1])
      BY <1>1, <1>2
    <3> QED BY <1>1, <3>1
  <2> QED BY <1>1, <1>2, <2>1
<1> QED BY <1>1, <1>2 DEF Triple

(* Two of them. *)
LEMMA TwoTriple ==
  ASSUME NEW M, NEW N, NEW a \in AccessIn(M, N), NEW b \in AccessIn(M, N), NEW P, NEW Q, NEW R,
         \A z \in P : Exec(M, N, a, z) \in Q, \A z \in Q : Exec(M, N, b, z) \in R
  PROVE  Triple(M, N, <<a, b>>, P, R)
<1> DEFINE s == <<a, b>>
<1>1. s \in Seq(AccessIn(M, N)) /\ Len(s) = 2 /\ s[1] = a /\ s[2] = b
  OBVIOUS
<1> HIDE DEF s
<1>2. ASSUME NEW h, \A p \in 1 .. Len(s) : h[p] = Exec(M, N, s[p], h[p - 1]), h[0] \in P
      PROVE  h[Len(s)] \in R
  <2>1. h[1] = Exec(M, N, s[1], h[1 - 1]) /\ h[2] = Exec(M, N, s[2], h[2 - 1])
    BY <1>1, <1>2
  <2>2. h[1] \in Q
    BY <1>1, <1>2, <2>1
  <2> QED BY <1>1, <2>1, <2>2
<1> QED BY <1>1, <1>2 DEF Triple, s

(* Two programs in a row. *)
LEMMA ConcatTriple ==
  ASSUME NEW M, NEW N, NEW s, NEW t, NEW P, NEW Q, NEW R,
         Triple(M, N, s, P, Q), Triple(M, N, t, Q, R)
  PROVE  Triple(M, N, s \o t, P, R)
<1> DEFINE u == s \o t
<1>1. s \in Seq(AccessIn(M, N)) /\ t \in Seq(AccessIn(M, N))
  BY DEF Triple
<1>2. /\ u \in Seq(AccessIn(M, N)) /\ Len(u) = Len(s) + Len(t) /\ Len(s) \in Nat /\ Len(t) \in Nat
      /\ \A p \in 1 .. Len(s) : p \in 1 .. Len(u) /\ u[p] = s[p]
      /\ \A p \in 1 .. Len(t) : Len(s) + p \in 1 .. Len(u) /\ u[Len(s) + p] = t[p]
  BY <1>1
<1> HIDE DEF u
<1>3. ASSUME NEW h, \A p \in 1 .. Len(u) : h[p] = Exec(M, N, u[p], h[p - 1]), h[0] \in P
      PROVE  h[Len(u)] \in R
  <2>1. h[Len(s)] \in Q
    <3>1. \A p \in 1 .. Len(s) : h[p] = Exec(M, N, s[p], h[p - 1])
      BY <1>2, <1>3
    <3> QED BY <1>3, <3>1 DEF Triple
  <2> DEFINE g == [p \in 0 .. Len(t) |-> h[Len(s) + p]]
  <2>2. ASSUME NEW p \in 1 .. Len(t) PROVE g[p] = Exec(M, N, t[p], g[p - 1])
    <3>1. h[Len(s) + p] = Exec(M, N, u[Len(s) + p], h[(Len(s) + p) - 1])
      BY <1>2, <1>3
    <3>2. (Len(s) + p) - 1 = Len(s) + (p - 1) /\ p - 1 \in 0 .. Len(t) /\ p \in 0 .. Len(t)
      BY <1>2
    <3> QED BY <1>2, <3>1, <3>2
  <2>3. g[0] = h[Len(s)] /\ g[Len(t)] = h[Len(u)]
    BY <1>2
  <2> HIDE DEF g
  <2> QED BY <2>1, <2>2, <2>3 DEF Triple
<1> QED BY <1>2, <1>3 DEF Triple, u

(* Weaker before, stronger after. *)
LEMMA Consequence ==
  ASSUME NEW M, NEW N, NEW s, NEW P, NEW Q, NEW PP, NEW QQ,
         Triple(M, N, s, P, Q), PP \subseteq P, Q \subseteq QQ
  PROVE  Triple(M, N, s, PP, QQ)
  BY DEF Triple

(* A loop, with the states before each of its rounds. *)
LEMMA LoopTriple ==
  ASSUME NEW M, NEW N, NEW m \in Nat, NEW s, s = [n \in 1 .. m |-> s[n]], NEW I,
         \A n \in 1 .. m : Triple(M, N, s[n], I[n - 1], I[n])
  PROVE  Triple(M, N, FlattenSeq(s), I[0], I[m])
<1>0. s \in Seq(Seq(AccessIn(M, N))) /\ Len(s) = m
  <2>1. \A n \in 1 .. m : s[n] \in Seq(AccessIn(M, N))
    BY DEF Triple
  <2>2. s \in [1 .. m -> Seq(AccessIn(M, N))]
    BY <2>1
  <2> QED BY <2>2
<1>1. CASE m = 0
  <2>1. s = <<>>
    BY <1>0, <1>1
  <2>2. FlattenSeq(s) = <<>>
    BY <1>0, <1>1, <2>1 DEF FlattenSeq
  <2>3. Triple(M, N, <<>>, I[0], I[0])
    BY DEF Triple
  <2> QED BY <1>1, <2>2, <2>3
<1>2. CASE m # 0
  <2> DEFINE f == CHOOSE f : f = [i \in 1 .. Len(s) |-> IF i = 1 THEN s[i] ELSE f[i - 1] \o s[i]]
  <2>1. FlattenSeq(s) = f[Len(s)]
    BY <1>0, <1>2 DEF FlattenSeq
  <2>2. \E g : g = [i \in 1 .. Len(s) |-> FlattenStep(s, g, i)]
    <3>1. Len(s) \in Nat
      BY <1>0
    <3> QED BY <3>1, FlattenExists
  <2>3. f = [i \in 1 .. Len(s) |-> IF i = 1 THEN s[i] ELSE f[i - 1] \o s[i]]
    BY <2>2 DEF FlattenStep
  <2> HIDE DEF f
  <2> DEFINE Bad == {k \in 1 .. m : ~Triple(M, N, f[k], I[0], I[k])}
  <2>4. ASSUME Bad # {} PROVE FALSE
    <3>1. PICK k \in Bad : \A y \in Bad : k <= y
      <4>1. Bad \subseteq Nat
        OBVIOUS
      <4> HIDE DEF Bad
      <4> QED BY <2>4, <4>1, LeastNat
    <3>2. k \in 1 .. m /\ ~Triple(M, N, f[k], I[0], I[k])
      OBVIOUS
    <3>3. f[k] = IF k = 1 THEN s[k] ELSE f[k - 1] \o s[k]
      BY <1>0, <2>3, <3>2
    <3>4. Triple(M, N, s[k], I[k - 1], I[k])
      BY <3>2
    <3>5. k # 1
      <4>1. k = 1 => k - 1 = 0
        OBVIOUS
      <4> QED BY <3>2, <3>3, <3>4, <4>1
    <3>6. k - 1 \in 1 .. m /\ k - 1 \notin Bad
      BY <3>1, <3>2, <3>5
    <3>7. Triple(M, N, f[k - 1], I[0], I[k - 1])
      BY <3>6
    <3> HIDE DEF Bad
    <3>8. Triple(M, N, f[k - 1] \o s[k], I[0], I[k])
      BY <3>4, <3>7, ConcatTriple
    <3> QED BY <3>2, <3>3, <3>5, <3>8
  <2>5. m \in 1 .. m
    BY <1>2
  <2> QED BY <1>0, <2>1, <2>4, <2>5
<1> QED BY <1>1, <1>2
-----------------------------------------------------------------------------
(* What is known of a state: of places of B (row, column), and of          *)
(* registers, that they hold an element of A (row, column), and whether    *)
(* is_diagonal is set.                                                     *)
Places(M, N) == (0 .. (M - 1)) \X (0 .. (N - 1)) \X Int \X Int
Holders == (0 .. 9) \X Int \X Int

Known(M, N, F, R, x) ==
  {z \in Machine(M, N) :
     /\ \A f \in F : z.B[f[1] * N + f[2]] = f[3] * M + f[4]
     /\ \A g \in R : z.reg[g[1]] = g[2] * M + g[3]
     /\ x = "on" => z.d
     /\ x = "off" => ~z.d}

(* What is known after a register, or a place, got an element of A. *)
Loaded(R, RR, r, i, j) == \A g \in RR : g = <<r, i, j>> \/ (g \in R /\ g[1] # r)
Stored(F, FF, row, col, i, j) ==
  \A f \in FF : f = <<row, col, i, j>> \/ (f \in F /\ (f[1] # row \/ f[2] # col))

(* No two places of B are one. *)
LEMMA Positions ==
  ASSUME NEW M \in Nat \ {0}, NEW N \in Nat \ {0}, NEW row \in 0 .. (M - 1), NEW col \in 0 .. (N - 1)
  PROVE  /\ row * N + col \in 0 .. (M * N - 1)
         /\ \A x \in 0 .. (M - 1), y \in 0 .. (N - 1) : x * N + y = row * N + col => x = row /\ y = col
<1>1. \A a, b \in Nat : a < b => a * N + N <= b * N /\ a * N \in Nat /\ b * N \in Nat
  <2> SUFFICES ASSUME NEW a \in Nat, NEW b \in Nat, a < b
               PROVE  a * N + N <= b * N /\ a * N \in Nat /\ b * N \in Nat
    OBVIOUS
  <2>1. PICK c \in Nat : b = (a + 1) + c
    <3>1. b - (a + 1) \in Nat /\ b = (a + 1) + (b - (a + 1))
      OBVIOUS
    <3> QED BY <3>1
  <2>2. b * N = (a * N + N) + c * N
    BY <2>1
  <2>3. c * N \in Nat /\ a * N \in Nat /\ b * N \in Nat
    OBVIOUS
  <2> QED BY <2>2, <2>3
<1>2. row * N + col \in 0 .. (M * N - 1)
  <2>1. row \in Nat /\ row < M /\ col \in Nat /\ col < N
    OBVIOUS
  <2>2. row * N + N <= M * N /\ row * N \in Nat /\ M * N \in Nat
    BY <1>1, <2>1
  <2> QED BY <2>1, <2>2
<1>3. ASSUME NEW x \in 0 .. (M - 1), NEW y \in 0 .. (N - 1), x * N + y = row * N + col PROVE x = row /\ y = col
  <2>1. x \in Nat /\ row \in Nat /\ y \in Nat /\ col \in Nat /\ y < N /\ col < N
    OBVIOUS
  <2>2. ASSUME x < row PROVE FALSE
    <3>1. x * N + N <= row * N /\ x * N \in Nat /\ row * N \in Nat
      BY <1>1, <2>1, <2>2
    <3> QED BY <1>3, <2>1, <3>1
  <2>3. ASSUME row < x PROVE FALSE
    <3>1. row * N + N <= x * N /\ x * N \in Nat /\ row * N \in Nat
      BY <1>1, <2>1, <2>3
    <3> QED BY <1>3, <2>1, <3>1
  <2>4. x = row
    BY <2>1, <2>2, <2>3
  <2>5. row * N \in Nat
    BY <2>1
  <2> QED BY <1>3, <2>1, <2>4, <2>5
<1> QED BY <1>2, <1>3

(* A register gets an element of A. *)
LEMMA RegisterKnown ==
  ASSUME NEW M \in Nat \ {0}, NEW N \in Nat \ {0}, NEW F, NEW R, NEW x, NEW z \in Known(M, N, F, R, x),
         NEW r \in 0 .. 9, NEW i \in Int, NEW j \in Int, NEW RR \in SUBSET Holders,
         Loaded(R, RR, r, i, j),
         NEW d \in BOOLEAN, NEW y, y = "on" => d, y = "off" => ~d
  PROVE  NewReg(z, r, i * M + j, d) \in Known(M, N, F, RR, y)
<1> DEFINE v == i * M + j
           w == [B |-> z.B, d |-> d, reg |-> [z.reg EXCEPT ![r] = v]]
<1>0. v \in Val
  BY DEF Val
<1> HIDE DEF v
<1>1. z \in Machine(M, N)
  BY DEF Known
<1>2. z.reg \in [0 .. 9 -> Val] /\ z.B \in [0 .. (M * N - 1) -> Val]
  BY <1>1 DEF Machine
<1>3. w.B = z.B /\ w.d = d /\ w.reg = [z.reg EXCEPT ![r] = v]
  OBVIOUS
<1>4. w \in Machine(M, N)
  <2>1. [z.reg EXCEPT ![r] = v] \in [0 .. 9 -> Val]
    BY <1>0, <1>2
  <2> QED BY <1>2, <2>1 DEF Machine
<1> HIDE DEF w
<1>5. ASSUME NEW g \in RR PROVE w.reg[g[1]] = g[2] * M + g[3]
  <2>1. CASE g = <<r, i, j>>
    <3>1. g[1] = r /\ g[2] = i /\ g[3] = j
      BY <2>1
    <3> QED BY <1>2, <1>3, <3>1 DEF v
  <2>2. CASE g \in R /\ g[1] # r
    <3>1. g[1] \in 0 .. 9
      BY DEF Holders
    <3>2. w.reg[g[1]] = z.reg[g[1]]
      BY <1>2, <1>3, <2>2, <3>1
    <3> QED BY <2>2, <3>2 DEF Known
  <2> QED BY <2>1, <2>2 DEF Loaded
<1>6. \A f \in F : w.B[f[1] * N + f[2]] = f[3] * M + f[4]
  BY <1>3 DEF Known
<1>7. (y = "on" => w.d) /\ (y = "off" => ~w.d)
  BY <1>3
<1> QED BY <1>4, <1>5, <1>6, <1>7 DEF Known, NewReg, w, v

(* A load from A. *)
LEMMA LoadA ==
  ASSUME NEW M \in Nat \ {0}, NEW N \in Nat \ {0}, NEW row \in 0 .. (N - 1), NEW col \in 0 .. (M - 1),
         NEW r \in 0 .. 9, NEW F, NEW R, NEW RR \in SUBSET Holders, NEW x,
         Loaded(R, RR, r, row, col)
  PROVE  /\ Load("A", row, col, r) \in AccessIn(M, N)
         /\ \A z \in Known(M, N, F, R, x) : Exec(M, N, Load("A", row, col, r), z) \in Known(M, N, F, RR, x)
<1> DEFINE a == Load("A", row, col, r)
<1>1. /\ a.id = "L" /\ a.mat = "A" /\ a.row = row /\ a.col = col /\ a.r = r /\ a.when = "always"
      /\ a \in AccessIn(M, N)
  BY DEF Load, AccessIn, AccessType
<1> HIDE DEF a
<1>2. ASSUME NEW z \in Known(M, N, F, R, x) PROVE Exec(M, N, a, z) \in Known(M, N, F, RR, x)
  <2>1. z.d \in BOOLEAN /\ (x = "on" => z.d) /\ (x = "off" => ~z.d)
    BY DEF Known, Machine
  <2>2. (a.when = "set" \/ z.d) = z.d
    BY <1>1, <2>1
  <2>3. Exec(M, N, a, z) = NewReg(z, r, row * M + col, z.d)
    BY <1>1, <2>2 DEF Exec
  <2>4. row \in Int /\ col \in Int
    OBVIOUS
  <2>5. NewReg(z, r, row * M + col, z.d) \in Known(M, N, F, RR, x)
    BY <2>1, <2>4, RegisterKnown, Zenon
  <2> QED BY <2>3, <2>5
<1> QED BY <1>1, <1>2 DEF a

(* The load of the element on the diagonal. *)
LEMMA LoadDiagonal ==
  ASSUME NEW M \in Nat \ {0}, NEW N \in Nat \ {0}, NEW row \in 0 .. (N - 1), NEW col \in 0 .. (M - 1),
         NEW r \in 0 .. 9, NEW F, NEW R, NEW RR \in SUBSET Holders, NEW x,
         Loaded(R, RR, r, row, col)
  PROVE  /\ [Load("A", row, col, r) EXCEPT !.when = "set"] \in AccessIn(M, N)
         /\ \A z \in Known(M, N, F, R, x) :
              Exec(M, N, [Load("A", row, col, r) EXCEPT !.when = "set"], z) \in Known(M, N, F, RR, "on")
<1> DEFINE a == [Load("A", row, col, r) EXCEPT !.when = "set"]
<1>1. /\ a.id = "L" /\ a.mat = "A" /\ a.row = row /\ a.col = col /\ a.r = r /\ a.when = "set"
      /\ a \in AccessIn(M, N)
  BY DEF Load, AccessIn, AccessType
<1> HIDE DEF a
<1>2. ASSUME NEW z \in Known(M, N, F, R, x) PROVE Exec(M, N, a, z) \in Known(M, N, F, RR, "on")
  <2>1. Exec(M, N, a, z) = NewReg(z, r, row * M + col, TRUE)
    BY <1>1 DEF Exec
  <2>2. "on" = "off" => ~TRUE
    OBVIOUS
  <2>3. row \in Int /\ col \in Int /\ TRUE \in BOOLEAN
    OBVIOUS
  <2>5. NewReg(z, r, row * M + col, TRUE) \in Known(M, N, F, RR, "on")
    BY <2>2, <2>3, RegisterKnown, Zenon
  <2> QED BY <2>1, <2>5
<1> QED BY <1>1, <1>2 DEF a

(* A load from a place of B that is known. *)
LEMMA LoadB ==
  ASSUME NEW M \in Nat \ {0}, NEW N \in Nat \ {0}, NEW row \in 0 .. (M - 1), NEW col \in 0 .. (N - 1),
         NEW r \in 0 .. 9, NEW F, NEW R, NEW RR \in SUBSET Holders, NEW x, NEW i \in Int, NEW j \in Int,
         <<row, col, i, j>> \in F,
         Loaded(R, RR, r, i, j)
  PROVE  /\ Load("B", row, col, r) \in AccessIn(M, N)
         /\ \A z \in Known(M, N, F, R, x) : Exec(M, N, Load("B", row, col, r), z) \in Known(M, N, F, RR, x)
<1> DEFINE a == Load("B", row, col, r)
<1>1. /\ a.id = "L" /\ a.mat = "B" /\ a.row = row /\ a.col = col /\ a.r = r /\ a.when = "always"
      /\ a \in AccessIn(M, N)
  BY DEF Load, AccessIn, AccessType
<1> HIDE DEF a
<1>2. ASSUME NEW z \in Known(M, N, F, R, x) PROVE Exec(M, N, a, z) \in Known(M, N, F, RR, x)
  <2>1. z.d \in BOOLEAN /\ (x = "on" => z.d) /\ (x = "off" => ~z.d)
    BY DEF Known, Machine
  <2>2. (a.when = "set" \/ z.d) = z.d
    BY <1>1, <2>1
  <2>3. z.B[row * N + col] = i * M + j
    <3> DEFINE f == <<row, col, i, j>>
    <3>1. z.B[f[1] * N + f[2]] = f[3] * M + f[4]
      BY DEF Known
    <3> QED BY <3>1
  <2>4. Exec(M, N, a, z) = NewReg(z, r, i * M + j, z.d)
    BY <1>1, <2>2, <2>3 DEF Exec
  <2>5. NewReg(z, r, i * M + j, z.d) \in Known(M, N, F, RR, x)
    BY <2>1, RegisterKnown, Zenon
  <2> QED BY <2>4, <2>5
<1> QED BY <1>1, <1>2 DEF a

(* A place of B gets what a register holds. *)
LEMMA PlaceKnown ==
  ASSUME NEW M \in Nat \ {0}, NEW N \in Nat \ {0}, NEW F, NEW R, NEW x, NEW z \in Known(M, N, F, R, x),
         NEW row \in 0 .. (M - 1), NEW col \in 0 .. (N - 1), NEW r \in 0 .. 9,
         NEW i \in Int, NEW j \in Int, <<r, i, j>> \in R, NEW FF \in SUBSET Places(M, N),
         Stored(F, FF, row, col, i, j),
         NEW d \in BOOLEAN, NEW y, y = "on" => d, y = "off" => ~d
  PROVE  NewPlace(z, row * N + col, z.reg[r], d) \in Known(M, N, FF, R, y)
<1> DEFINE v == i * M + j
           p == row * N + col
           w == [B |-> [z.B EXCEPT ![p] = z.reg[r]], d |-> d, reg |-> z.reg]
<1>0. v \in Val /\ z.reg[r] = v
  <2> DEFINE g == <<r, i, j>>
  <2>1. z.reg[g[1]] = g[2] * M + g[3]
    BY DEF Known
  <2>2. z.reg[r] = i * M + j
    BY <2>1
  <2> QED BY <2>2 DEF Val
<1> HIDE DEF v
<1>1. z \in Machine(M, N)
  BY DEF Known
<1>2. z.reg \in [0 .. 9 -> Val] /\ z.B \in [0 .. (M * N - 1) -> Val]
  BY <1>1 DEF Machine
<1>3. w.B = [z.B EXCEPT ![p] = v] /\ w.d = d /\ w.reg = z.reg
  BY <1>0
<1>4. p \in 0 .. (M * N - 1)
  BY Positions
<1>a. p = row * N + col
  OBVIOUS
<1> HIDE DEF p
<1>5. w \in Machine(M, N)
  <2>1. [z.B EXCEPT ![p] = z.reg[r]] \in [0 .. (M * N - 1) -> Val]
    BY <1>0, <1>2
  <2> QED BY <1>2, <2>1 DEF Machine
<1> HIDE DEF w
<1>6. ASSUME NEW f \in FF PROVE w.B[f[1] * N + f[2]] = f[3] * M + f[4]
  <2>1. CASE f = <<row, col, i, j>>
    <3>1. f[1] = row /\ f[2] = col /\ f[3] = i /\ f[4] = j
      BY <2>1
    <3> QED BY <1>2, <1>3, <1>4, <1>a, <3>1 DEF v
  <2>2. CASE f \in F /\ (f[1] # row \/ f[2] # col)
    <3>1. f[1] \in 0 .. (M - 1) /\ f[2] \in 0 .. (N - 1)
      BY DEF Places
    <3> DEFINE q == f[1] * N + f[2]
    <3>2. q # p /\ q \in 0 .. (M * N - 1)
      <4>1. PICK fx \in 0 .. (M - 1), fy \in 0 .. (N - 1) : fx = f[1] /\ fy = f[2]
        BY <3>1
      <4>2. fx * N + fy \in 0 .. (M * N - 1)
        BY Positions
      <4>3. fx * N + fy = row * N + col => fx = row /\ fy = col
        BY Positions
      <4> QED BY <1>a, <2>2, <4>1, <4>2, <4>3
    <3>3. z.B[q] = f[3] * M + f[4]
      BY <2>2 DEF Known
    <3> HIDE DEF q
    <3>4. w.B[q] = z.B[q]
      BY <1>2, <1>3, <3>2
    <3> QED BY <3>3, <3>4 DEF q
  <2> QED BY <2>1, <2>2 DEF Stored
<1>7. \A g \in R : w.reg[g[1]] = g[2] * M + g[3]
  BY <1>3 DEF Known
<1>8. (y = "on" => w.d) /\ (y = "off" => ~w.d)
  BY <1>3
<1> QED BY <1>5, <1>6, <1>7, <1>8 DEF Known, NewPlace, w, p

(* A store to B. *)
LEMMA StoreB ==
  ASSUME NEW M \in Nat \ {0}, NEW N \in Nat \ {0}, NEW row \in 0 .. (M - 1), NEW col \in 0 .. (N - 1),
         NEW r \in 0 .. 9, NEW F, NEW R, NEW FF \in SUBSET Places(M, N), NEW x, NEW i \in Int, NEW j \in Int,
         <<r, i, j>> \in R,
         Stored(F, FF, row, col, i, j)
  PROVE  /\ Store(row, col, r) \in AccessIn(M, N)
         /\ \A z \in Known(M, N, F, R, x) : Exec(M, N, Store(row, col, r), z) \in Known(M, N, FF, R, x)
<1> DEFINE a == Store(row, col, r)
<1>1. /\ a.id = "S" /\ a.mat = "B" /\ a.row = row /\ a.col = col /\ a.r = r /\ a.when = "always"
      /\ a \in AccessIn(M, N)
  BY DEF Store, AccessIn, AccessType
<1> HIDE DEF a
<1>2. ASSUME NEW z \in Known(M, N, F, R, x) PROVE Exec(M, N, a, z) \in Known(M, N, FF, R, x)
  <2>1. z.d \in BOOLEAN /\ (x = "on" => z.d) /\ (x = "off" => ~z.d)
    BY DEF Known, Machine
  <2>2. (a.when = "always" /\ z.d) = z.d
    BY <1>1, <2>1
  <2>3. Exec(M, N, a, z) = NewPlace(z, row * N + col, z.reg[r], z.d)
    BY <1>1, <2>2 DEF Exec
  <2>4. NewPlace(z, row * N + col, z.reg[r], z.d) \in Known(M, N, FF, R, x)
    BY <2>1, PlaceKnown, Zenon
  <2> QED BY <2>3, <2>4
<1> QED BY <1>1, <1>2 DEF a

(* The store of the element on the diagonal, if it is pending. *)
LEMMA StoreDiagonal ==
  ASSUME NEW M \in Nat \ {0}, NEW N \in Nat \ {0}, NEW row \in 0 .. (M - 1), NEW col \in 0 .. (N - 1),
         NEW r \in 0 .. 9, NEW F, NEW R, NEW FF \in SUBSET Places(M, N), NEW i \in Int, NEW j \in Int,
         <<r, i, j>> \in R,
         Stored(F, FF, row, col, i, j)
  PROVE  /\ [Store(row, col, r) EXCEPT !.when = "is_diagonal"] \in AccessIn(M, N)
         /\ \A z \in Known(M, N, F, R, "on") :
              Exec(M, N, [Store(row, col, r) EXCEPT !.when = "is_diagonal"], z) \in Known(M, N, FF, R, "off")
<1> DEFINE a == [Store(row, col, r) EXCEPT !.when = "is_diagonal"]
<1>1. /\ a.id = "S" /\ a.mat = "B" /\ a.row = row /\ a.col = col /\ a.r = r /\ a.when = "is_diagonal"
      /\ a \in AccessIn(M, N)
  BY DEF Store, AccessIn, AccessType
<1> HIDE DEF a
<1>2. ASSUME NEW z \in Known(M, N, F, R, "on") PROVE Exec(M, N, a, z) \in Known(M, N, FF, R, "off")
  <2>1. z.d
    BY DEF Known
  <2>2. Exec(M, N, a, z) = NewPlace(z, row * N + col, z.reg[r], FALSE)
    BY <1>1, <2>1 DEF Exec
  <2>3. "off" = "on" => FALSE
    OBVIOUS
  <2>4. NewPlace(z, row * N + col, z.reg[r], FALSE) \in Known(M, N, FF, R, "off")
    BY <2>3, PlaceKnown, Zenon
  <2> QED BY <2>2, <2>4
<1> QED BY <1>1, <1>2 DEF a

(* And if it is not. *)
LEMMA StoreNothing ==
  ASSUME NEW M, NEW N, NEW row \in 0 .. (M - 1), NEW col \in 0 .. (N - 1),
         NEW r \in 0 .. 9, NEW F, NEW R
  PROVE  /\ [Store(row, col, r) EXCEPT !.when = "is_diagonal"] \in AccessIn(M, N)
         /\ \A z \in Known(M, N, F, R, "off") :
              Exec(M, N, [Store(row, col, r) EXCEPT !.when = "is_diagonal"], z) \in Known(M, N, F, R, "off")
<1> DEFINE a == [Store(row, col, r) EXCEPT !.when = "is_diagonal"]
<1>1. a.id = "S" /\ a.when = "is_diagonal" /\ a \in AccessIn(M, N)
  BY DEF Store, AccessIn, AccessType
<1> HIDE DEF a
<1>2. ASSUME NEW z \in Known(M, N, F, R, "off") PROVE Exec(M, N, a, z) \in Known(M, N, F, R, "off")
  <2>1. ~z.d
    BY DEF Known
  <2>2. Exec(M, N, a, z) = z
    BY <1>1, <2>1 DEF Exec
  <2> QED BY <2>2
<1> QED BY <1>1, <1>2 DEF a
-----------------------------------------------------------------------------
(* Elements of A, what is known of B once they are copied, and what it     *)
(* means that a program copies them: whatever was copied before still is.  *)
Cells(M, N) == (0 .. (N - 1)) \X (0 .. (M - 1))
Done(C)     == {<<c[2], c[1], c[1], c[2]>> : c \in C}

Copies(M, N, s, C, x, y) ==
  \A D \in SUBSET Cells(M, N) :
    Triple(M, N, s, Known(M, N, Done(D), {}, x), Known(M, N, Done(D \cup C), {}, y))

(* Less is known of more states. *)
LEMMA KnownLess ==
  ASSUME NEW M, NEW N, NEW F, NEW R, NEW FF \in SUBSET F, NEW RR \in SUBSET R, NEW x, NEW y,
         y \in {"any", x}
  PROVE  Known(M, N, F, R, x) \subseteq Known(M, N, FF, RR, y)
<1> SUFFICES ASSUME NEW z \in Known(M, N, F, R, x) PROVE z \in Known(M, N, FF, RR, y)
  OBVIOUS
<1>1. /\ z \in Machine(M, N)
      /\ \A f \in FF : z.B[f[1] * N + f[2]] = f[3] * M + f[4]
      /\ \A g \in RR : z.reg[g[1]] = g[2] * M + g[3]
      /\ (x = "on" => z.d) /\ (x = "off" => ~z.d)
  BY DEF Known
<1>2. (y = "on" => z.d) /\ (y = "off" => ~z.d)
  BY <1>1
<1> QED BY <1>1, <1>2 DEF Known

(* What is copied is a place of B with an element of A. *)
LEMMA DoneOK ==
  ASSUME NEW M \in Nat \ {0}, NEW N \in Nat \ {0}, NEW D \in SUBSET Cells(M, N)
  PROVE  Done(D) \in SUBSET Places(M, N)
<1> SUFFICES ASSUME NEW f \in Done(D) PROVE f \in Places(M, N)
  OBVIOUS
<1>1. PICK c \in D : f = <<c[2], c[1], c[1], c[2]>>
  BY DEF Done
<1>2. c[1] \in 0 .. (N - 1) /\ c[2] \in 0 .. (M - 1)
  BY DEF Cells
<1>3. c[1] \in Int /\ c[2] \in Int
  BY <1>2
<1> QED BY <1>1, <1>2, <1>3 DEF Places

(* More cells are done, more is known. *)
LEMMA DoneMore ==
  ASSUME NEW C, NEW D, C \subseteq D
  PROVE  Done(C) \in SUBSET Done(D)
  BY DEF Done

(* Storing one cell leaves the others. *)
LEMMA DoneStored ==
  ASSUME NEW M \in Nat \ {0}, NEW N \in Nat \ {0}, NEW D \in SUBSET Cells(M, N),
         NEW row \in 0 .. (N - 1), NEW col \in 0 .. (M - 1)
  PROVE  Stored(Done(D), Done(D \cup {<<row, col>>}), col, row, row, col)
<1> SUFFICES ASSUME NEW f \in Done(D \cup {<<row, col>>})
             PROVE  f = <<col, row, row, col>> \/ (f \in Done(D) /\ (f[1] # col \/ f[2] # row))
  BY DEF Stored
<1>1. PICK c \in D \cup {<<row, col>>} : f = <<c[2], c[1], c[1], c[2]>>
  BY DEF Done
<1>2. CASE c = <<row, col>>
  BY <1>1, <1>2
<1>3. CASE c \in D /\ c # <<row, col>>
  <2>1. c = <<c[1], c[2]>>
    BY <1>3 DEF Cells
  <2>2. c[1] # row \/ c[2] # col
    BY <1>3, <2>1
  <2>3. f[1] = c[2] /\ f[2] = c[1]
    BY <1>1
  <2>4. f \in Done(D)
    BY <1>1, <1>3 DEF Done
  <2> QED BY <2>2, <2>3, <2>4
<1> QED BY <1>1, <1>2, <1>3

(* A load from A and the store of what it loaded. *)
LEMMA CopyTriple ==
  ASSUME NEW M \in Nat \ {0}, NEW N \in Nat \ {0}, NEW row \in 0 .. (N - 1), NEW col \in 0 .. (M - 1),
         NEW r \in 0 .. 9, NEW x, NEW F, NEW R \in SUBSET Holders, NEW FF \in SUBSET Places(M, N),
         \A g \in R : g[1] # r,
         Stored(F, FF, col, row, row, col)
  PROVE  Triple(M, N, <<Load("A", row, col, r), Store(col, row, r)>>, Known(M, N, F, R, x), Known(M, N, FF, R, x))
<1> DEFINE RR == R \cup {<<r, row, col>>}
           a == Load("A", row, col, r)
           b == Store(col, row, r)
<1>0. row \in Int /\ col \in Int
  OBVIOUS
<1>1. RR \in SUBSET Holders /\ Loaded(R, RR, r, row, col) /\ <<r, row, col>> \in RR /\ R \in SUBSET RR
  BY <1>0 DEF Holders, Loaded
<1> HIDE DEF RR
<1>2. a \in AccessIn(M, N) /\ \A z \in Known(M, N, F, R, x) : Exec(M, N, a, z) \in Known(M, N, F, RR, x)
  BY <1>1, LoadA
<1>3. b \in AccessIn(M, N) /\ \A z \in Known(M, N, F, RR, x) : Exec(M, N, b, z) \in Known(M, N, FF, RR, x)
  BY <1>0, <1>1, StoreB
<1> HIDE DEF a, b
<1>7. Triple(M, N, <<a, b>>, Known(M, N, F, R, x), Known(M, N, FF, RR, x))
  BY <1>2, <1>3, TwoTriple
<1>8. Known(M, N, FF, RR, x) \subseteq Known(M, N, FF, R, x)
  BY <1>1, KnownLess
<1>9. Triple(M, N, <<a, b>>, Known(M, N, F, R, x), Known(M, N, FF, R, x))
  BY <1>7, <1>8, Consequence
<1> QED BY <1>9 DEF a, b

(* It copies one cell. *)
LEMMA PairCopies ==
  ASSUME NEW M \in Nat \ {0}, NEW N \in Nat \ {0}, NEW row \in 0 .. (N - 1), NEW col \in 0 .. (M - 1),
         NEW r \in 0 .. 9, NEW x
  PROVE  Copies(M, N, <<Load("A", row, col, r), Store(col, row, r)>>, {<<row, col>>}, x, x)
<1> SUFFICES ASSUME NEW D \in SUBSET Cells(M, N)
             PROVE  Triple(M, N, <<Load("A", row, col, r), Store(col, row, r)>>,
                           Known(M, N, Done(D), {}, x), Known(M, N, Done(D \cup {<<row, col>>}), {}, x))
  BY DEF Copies
<1>1. D \cup {<<row, col>>} \in SUBSET Cells(M, N)
  BY DEF Cells
<1>2. Done(D \cup {<<row, col>>}) \in SUBSET Places(M, N)
  BY <1>1, DoneOK
<1>3. Stored(Done(D), Done(D \cup {<<row, col>>}), col, row, row, col)
  BY DoneStored
<1>4. {} \in SUBSET Holders /\ \A g \in {} : g[1] # r
  OBVIOUS
<1> QED BY <1>2, <1>3, <1>4, CopyTriple

(* A loop copies what its rounds copy. *)
LEMMA LoopCopies ==
  ASSUME NEW M, NEW N, NEW m \in Nat, NEW s, s = [n \in 1 .. m |-> s[n]],
         NEW C \in [1 .. m -> SUBSET Cells(M, N)], NEW x,
         \A n \in 1 .. m : Copies(M, N, s[n], C[n], x[n - 1], x[n]),
         NEW E, \A c \in E : \E n \in 1 .. m : c \in C[n]
  PROVE  Copies(M, N, FlattenSeq(s), E, x[0], x[m])
<1> SUFFICES ASSUME NEW D \in SUBSET Cells(M, N)
             PROVE  Triple(M, N, FlattenSeq(s), Known(M, N, Done(D), {}, x[0]), Known(M, N, Done(D \cup E), {}, x[m]))
  BY DEF Copies
<1> DEFINE G(n) == D \cup {c \in Cells(M, N) : \E k \in 1 .. n : c \in C[k]}
           I    == [n \in 0 .. m |-> Known(M, N, Done(G(n)), {}, x[n])]
<1>1. \A n \in 0 .. m : G(n) \in SUBSET Cells(M, N)
  OBVIOUS
<1>2. ASSUME NEW n \in 1 .. m PROVE G(n) = G(n - 1) \cup C[n] /\ n - 1 \in 0 .. m /\ n \in 0 .. m
  <2>1. C[n] \subseteq Cells(M, N)
    OBVIOUS
  <2>2. \A k : k \in 1 .. n <=> k \in 1 .. (n - 1) \/ k = n
    OBVIOUS
  <2>3. n - 1 \in 0 .. m /\ n \in 0 .. m
    OBVIOUS
  <2> QED BY <2>1, <2>2, <2>3
<1>3. G(0) = D
  OBVIOUS
<1>4. D \cup E \subseteq G(m)
  OBVIOUS
<1> HIDE DEF G
<1>5. ASSUME NEW n \in 1 .. m PROVE Triple(M, N, s[n], I[n - 1], I[n])
  <2>1. Copies(M, N, s[n], C[n], x[n - 1], x[n]) /\ G(n - 1) \in SUBSET Cells(M, N)
    BY <1>1, <1>2
  <2>2. Triple(M, N, s[n], Known(M, N, Done(G(n - 1)), {}, x[n - 1]), Known(M, N, Done(G(n - 1) \cup C[n]), {}, x[n]))
    BY <2>1 DEF Copies
  <2>3. I[n - 1] = Known(M, N, Done(G(n - 1)), {}, x[n - 1]) /\ I[n] = Known(M, N, Done(G(n)), {}, x[n])
    BY <1>2
  <2> QED BY <1>2, <2>2, <2>3
<1>6. I[0] = Known(M, N, Done(D), {}, x[0]) /\ I[m] = Known(M, N, Done(G(m)), {}, x[m])
  BY <1>3
<1> HIDE DEF I
<1>7. Triple(M, N, FlattenSeq(s), I[0], I[m])
  BY <1>5, LoopTriple
<1>8. I[m] \subseteq Known(M, N, Done(D \cup E), {}, x[m])
  <2>1. Done(D \cup E) \in SUBSET Done(G(m)) /\ {} \in SUBSET {}
    BY <1>4, DoneMore
  <2>2. x[m] \in {"any", x[m]}
    OBVIOUS
  <2>3. Known(M, N, Done(G(m)), {}, x[m]) \subseteq Known(M, N, Done(D \cup E), {}, x[m])
    BY <2>1, <2>2, KnownLess, Zenon
  <2> QED BY <1>6, <2>3
<1>9. Known(M, N, Done(D), {}, x[0]) \subseteq I[0]
  BY <1>6
<1> QED BY <1>7, <1>8, <1>9 DEF Triple

(* A loop whose rounds leave is_diagonal alone, or leave it cleared. *)
LEMMA SteadyCopies ==
  ASSUME NEW M, NEW N, NEW m \in Nat, NEW s, s = [n \in 1 .. m |-> s[n]],
         NEW C \in [1 .. m -> SUBSET Cells(M, N)], NEW x,
         \A n \in 1 .. m : Copies(M, N, s[n], C[n], x, x),
         NEW E, \A c \in E : \E n \in 1 .. m : c \in C[n]
  PROVE  Copies(M, N, FlattenSeq(s), E, x, x)
<1> DEFINE y == [n \in 0 .. m |-> x]
<1>1. \A n \in 1 .. m : y[n - 1] = x /\ y[n] = x
  OBVIOUS
<1>2. y[0] = x /\ y[m] = x
  OBVIOUS
<1> HIDE DEF y
<1>3. \A n \in 1 .. m : Copies(M, N, s[n], C[n], y[n - 1], y[n])
  BY <1>1
<1>4. Copies(M, N, FlattenSeq(s), E, y[0], y[m])
  BY <1>3, LoopCopies
<1> QED BY <1>2, <1>4

(* The rounds of a loop over all indices, and of one over blocks of them.  *)
LEMMA Rounds ==
  ASSUME NEW lo \in Int, NEW hi \in Int, lo <= hi
  PROVE  LET m == (hi - lo + 1 - 1) \div 1 IN
         /\ m \in Nat /\ m = hi - lo
         /\ \A n \in 1 .. m : lo + (n - 1) * 1 = lo + (n - 1) /\ lo + (n - 1) \in lo .. (hi - 1)
         /\ \A c \in lo .. (hi - 1) : \E n \in 1 .. m : c = lo + (n - 1) * 1
<1> DEFINE m == (hi - lo + 1 - 1) \div 1
<1>1. m = hi - lo
  OBVIOUS
<1> HIDE DEF m
<1>2. m \in Nat
  BY <1>1
<1>3. \A n \in 1 .. m : lo + (n - 1) * 1 = lo + (n - 1) /\ lo + (n - 1) \in lo .. (hi - 1)
  BY <1>1
<1>4. ASSUME NEW c \in lo .. (hi - 1) PROVE \E n \in 1 .. m : c = lo + (n - 1) * 1
  <2>1. (c - lo) + 1 \in 1 .. m /\ c = lo + (((c - lo) + 1) - 1) * 1
    BY <1>1
  <2> QED BY <2>1
<1> QED BY <1>1, <1>2, <1>3, <1>4 DEF m

(* Every index is in a block. *)
LEMMA BlockRounds ==
  ASSUME NEW hi \in Nat
  PROVE  LET m == (hi - 0 + BLOCK_SIZE - 1) \div BLOCK_SIZE IN
         /\ m \in Nat
         /\ \A n \in 1 .. m : 0 + (n - 1) * BLOCK_SIZE \in 0 .. (hi - 1)
         /\ \A c \in 0 .. (hi - 1) : \E n \in 1 .. m : 0 + (n - 1) * BLOCK_SIZE <= c /\ c < 0 + (n - 1) * BLOCK_SIZE + BLOCK_SIZE
<1> DEFINE m == (hi - 0 + BLOCK_SIZE - 1) \div BLOCK_SIZE
<1>1. BLOCK_SIZE = 8
  BY DEF BLOCK_SIZE
<1>2. m = (hi + 7) \div 8
  BY <1>1
<1> HIDE DEF m
<1>3. m \in Nat
  BY <1>2
<1>4. ASSUME NEW n \in 1 .. m PROVE 0 + (n - 1) * BLOCK_SIZE \in 0 .. (hi - 1)
  BY <1>1, <1>2, <1>3
<1>5. ASSUME NEW c \in 0 .. (hi - 1)
      PROVE  \E n \in 1 .. m : 0 + (n - 1) * BLOCK_SIZE <= c /\ c < 0 + (n - 1) * BLOCK_SIZE + BLOCK_SIZE
  <2> DEFINE n == (c \div 8) + 1
  <2>1. n \in 1 .. m
    BY <1>2
  <2>2. 0 + (n - 1) * 8 <= c /\ c < 0 + (n - 1) * 8 + 8
    OBVIOUS
  <2> QED BY <1>1, <2>1, <2>2
<1> QED BY <1>3, <1>4, <1>5 DEF m

(* The plain function copies every cell. *)
LEMMA transCopies ==
  ASSUME NEW M \in Nat \ {0}, NEW N \in Nat \ {0}
  PROVE  Copies(M, N, trans(M, N), Cells(M, N), "any", "any")
<1> DEFINE Body(i, j) == <<Load("A", i, j, 9), Store(j, i, 9)>>
           Row(i)     == For(0, M, 1, LAMBDA j : Body(i, j))
           All        == For(0, N, 1, LAMBDA i : Row(i))
           Line(i)    == {i} \X (0 .. (M - 1))
<1>1. ASSUME NEW i \in 0 .. (N - 1), NEW j \in 0 .. (M - 1)
      PROVE  Copies(M, N, Body(i, j), {<<i, j>>}, "any", "any")
  <2>1. 9 \in 0 .. 9
    OBVIOUS
  <2> QED BY <2>1, PairCopies, Zenon
<1>2. ASSUME NEW i \in 0 .. (N - 1) PROVE Copies(M, N, Row(i), Line(i), "any", "any")
  <2> DEFINE m == (M - 0 + 1 - 1) \div 1
             s == [n \in 1 .. m |-> Body(i, 0 + (n - 1) * 1)]
             C == [n \in 1 .. m |-> {<<i, 0 + (n - 1) * 1>>}]
  <2>1. Row(i) = FlattenSeq(s)
    BY DEF For
  <2>2. /\ m \in Nat
        /\ \A n \in 1 .. m : 0 + (n - 1) * 1 \in 0 .. (M - 1)
        /\ \A c \in 0 .. (M - 1) : \E n \in 1 .. m : c = 0 + (n - 1) * 1
    <3>1. 0 \in Int /\ M \in Int /\ 0 <= M
      OBVIOUS
    <3>2. /\ m \in Nat
          /\ \A n \in 1 .. m : 0 + (n - 1) * 1 = 0 + (n - 1) /\ 0 + (n - 1) \in 0 .. (M - 1)
          /\ \A c \in 0 .. (M - 1) : \E n \in 1 .. m : c = 0 + (n - 1) * 1
      BY <3>1, Rounds
    <3> QED BY <3>2
  <2> HIDE DEF m, Body
  <2>3. C \in [1 .. m -> SUBSET Cells(M, N)]
    BY <2>2 DEF Cells
  <2>4. \A n \in 1 .. m : Copies(M, N, s[n], C[n], "any", "any")
    BY <1>1, <2>2
  <2>5. \A c \in Line(i) : \E n \in 1 .. m : c \in C[n]
    BY <2>2
  <2>6. s = [n \in 1 .. m |-> s[n]]
    OBVIOUS
  <2> HIDE DEF s, C, Line
  <2>7. Copies(M, N, FlattenSeq(s), Line(i), "any", "any")
    BY <2>2, <2>3, <2>4, <2>5, <2>6, SteadyCopies, Zenon
  <2> QED BY <2>1, <2>7
<1>3. Copies(M, N, All, Cells(M, N), "any", "any")
  <2> DEFINE m == (N - 0 + 1 - 1) \div 1
             s == [n \in 1 .. m |-> Row(0 + (n - 1) * 1)]
             C == [n \in 1 .. m |-> Line(0 + (n - 1) * 1)]
  <2>1. All = FlattenSeq(s)
    BY DEF For
  <2>2. /\ m \in Nat
        /\ \A n \in 1 .. m : 0 + (n - 1) * 1 \in 0 .. (N - 1)
        /\ \A c \in 0 .. (N - 1) : \E n \in 1 .. m : c = 0 + (n - 1) * 1
    <3>1. 0 \in Int /\ N \in Int /\ 0 <= N
      OBVIOUS
    <3>2. /\ m \in Nat
          /\ \A n \in 1 .. m : 0 + (n - 1) * 1 = 0 + (n - 1) /\ 0 + (n - 1) \in 0 .. (N - 1)
          /\ \A c \in 0 .. (N - 1) : \E n \in 1 .. m : c = 0 + (n - 1) * 1
      BY <3>1, Rounds
    <3> QED BY <3>2
  <2> HIDE DEF m, Row
  <2>3. C \in [1 .. m -> SUBSET Cells(M, N)]
    BY <2>2 DEF Cells
  <2>4. \A n \in 1 .. m : Copies(M, N, s[n], C[n], "any", "any")
    BY <1>2, <2>2
  <2>5. ASSUME NEW c \in Cells(M, N) PROVE \E n \in 1 .. m : c \in C[n]
    <3>1. c = <<c[1], c[2]>> /\ c[1] \in 0 .. (N - 1) /\ c[2] \in 0 .. (M - 1)
      BY DEF Cells
    <3>2. PICK n \in 1 .. m : c[1] = 0 + (n - 1) * 1
      BY <2>2, <3>1
    <3>3. c \in Line(0 + (n - 1) * 1)
      BY <3>1, <3>2
    <3> QED BY <3>3
  <2>6. s = [n \in 1 .. m |-> s[n]]
    OBVIOUS
  <2> HIDE DEF s, C
  <2>7. Copies(M, N, FlattenSeq(s), Cells(M, N), "any", "any")
    BY <2>2, <2>3, <2>4, <2>5, <2>6, SteadyCopies, Zenon
  <2> QED BY <2>1, <2>7
<1> QED BY <1>3 DEF trans

(* So does trans_61_67, whatever the size. *)
LEMMA trans_61_67Copies ==
  ASSUME NEW M \in Nat \ {0}, NEW N \in Nat \ {0}
  PROVE  Copies(M, N, trans_61_67(M, N), Cells(M, N), "any", "any")
<1> DEFINE Body(k, l)  == <<Load("A", l, k, 0), Store(k, l, 0)>>
           Col(i, k)   == For(i, min(i + BLOCK_SIZE, N), 1, LAMBDA l : Body(k, l))
           Block(i, j) == For(j, min(j + BLOCK_SIZE, M), 1, LAMBDA k : Col(i, k))
           Row(i)      == For(0, M, BLOCK_SIZE, LAMBDA j : Block(i, j))
           All         == For(0, N, BLOCK_SIZE, LAMBDA i : Row(i))
           ColC(i, k)   == {c \in Cells(M, N) : i <= c[1] /\ c[1] < i + BLOCK_SIZE /\ c[2] = k}
           BlockC(i, j) == {c \in Cells(M, N) : i <= c[1] /\ c[1] < i + BLOCK_SIZE /\ j <= c[2] /\ c[2] < j + BLOCK_SIZE}
           RowC(i)      == {c \in Cells(M, N) : i <= c[1] /\ c[1] < i + BLOCK_SIZE}
<1>0. BLOCK_SIZE = 8
  BY DEF BLOCK_SIZE
<1>a. \A c \in Cells(M, N) : c = <<c[1], c[2]>> /\ c[1] \in 0 .. (N - 1) /\ c[2] \in 0 .. (M - 1)
  BY DEF Cells
<1>1. ASSUME NEW k \in 0 .. (M - 1), NEW l \in 0 .. (N - 1)
      PROVE  Copies(M, N, Body(k, l), {<<l, k>>}, "any", "any")
  <2>1. 0 \in 0 .. 9
    OBVIOUS
  <2> QED BY <2>1, PairCopies, Zenon
<1>2. ASSUME NEW i \in 0 .. (N - 1), NEW k \in 0 .. (M - 1) PROVE Copies(M, N, Col(i, k), ColC(i, k), "any", "any")
  <2> DEFINE hi == min(i + BLOCK_SIZE, N)
             m == (hi - i + 1 - 1) \div 1
             s == [n \in 1 .. m |-> Body(k, i + (n - 1) * 1)]
             C == [n \in 1 .. m |-> {<<i + (n - 1) * 1, k>>}]
  <2>1. Col(i, k) = FlattenSeq(s)
    BY DEF For
  <2>0. i \in Int /\ hi \in Int /\ i <= hi /\ hi <= N /\ \A c \in 0 .. (N - 1) : c < hi <=> c < i + BLOCK_SIZE
    BY <1>0 DEF min
  <2> HIDE DEF hi
  <2>2. /\ m \in Nat
        /\ \A n \in 1 .. m : i + (n - 1) * 1 \in 0 .. (N - 1)
        /\ \A c \in i .. (hi - 1) : \E n \in 1 .. m : c = i + (n - 1) * 1
    <3>2. /\ m \in Nat
          /\ \A n \in 1 .. m : i + (n - 1) * 1 = i + (n - 1) /\ i + (n - 1) \in i .. (hi - 1)
          /\ \A c \in i .. (hi - 1) : \E n \in 1 .. m : c = i + (n - 1) * 1
      BY <2>0, Rounds
    <3> QED BY <2>0, <3>2
  <2> HIDE DEF m, Body
  <2>3. C \in [1 .. m -> SUBSET Cells(M, N)]
    BY <2>2 DEF Cells
  <2>4. \A n \in 1 .. m : Copies(M, N, s[n], C[n], "any", "any")
    BY <1>1, <2>2
  <2>5. ASSUME NEW c \in ColC(i, k) PROVE \E n \in 1 .. m : c \in C[n]
    <3>1. c = <<c[1], k>> /\ c[1] \in i .. (hi - 1)
      BY <1>a, <2>0
    <3>2. PICK n \in 1 .. m : c[1] = i + (n - 1) * 1
      BY <2>2, <3>1
    <3> QED BY <3>1, <3>2
  <2>6. s = [n \in 1 .. m |-> s[n]]
    OBVIOUS
  <2> HIDE DEF s, C, ColC
  <2>7. Copies(M, N, FlattenSeq(s), ColC(i, k), "any", "any")
    BY <2>2, <2>3, <2>4, <2>5, <2>6, SteadyCopies, Zenon
  <2> QED BY <2>1, <2>7
<1>3. ASSUME NEW i \in 0 .. (N - 1), NEW j \in 0 .. (M - 1) PROVE Copies(M, N, Block(i, j), BlockC(i, j), "any", "any")
  <2> DEFINE hi == min(j + BLOCK_SIZE, M)
             m == (hi - j + 1 - 1) \div 1
             s == [n \in 1 .. m |-> Col(i, j + (n - 1) * 1)]
             C == [n \in 1 .. m |-> ColC(i, j + (n - 1) * 1)]
  <2>1. Block(i, j) = FlattenSeq(s)
    BY DEF For
  <2>0. j \in Int /\ hi \in Int /\ j <= hi /\ hi <= M /\ \A c \in 0 .. (M - 1) : c < hi <=> c < j + BLOCK_SIZE
    BY <1>0 DEF min
  <2> HIDE DEF hi
  <2>2. /\ m \in Nat
        /\ \A n \in 1 .. m : j + (n - 1) * 1 \in 0 .. (M - 1)
        /\ \A c \in j .. (hi - 1) : \E n \in 1 .. m : c = j + (n - 1) * 1
    <3>2. /\ m \in Nat
          /\ \A n \in 1 .. m : j + (n - 1) * 1 = j + (n - 1) /\ j + (n - 1) \in j .. (hi - 1)
          /\ \A c \in j .. (hi - 1) : \E n \in 1 .. m : c = j + (n - 1) * 1
      BY <2>0, Rounds
    <3> QED BY <2>0, <3>2
  <2> HIDE DEF m, Col
  <2>3. C \in [1 .. m -> SUBSET Cells(M, N)]
    OBVIOUS
  <2>4. \A n \in 1 .. m : Copies(M, N, s[n], C[n], "any", "any")
    <3> HIDE DEF ColC
    <3> QED BY <1>2, <2>2
  <2>5. ASSUME NEW c \in BlockC(i, j) PROVE \E n \in 1 .. m : c \in C[n]
    <3>1. c[2] \in j .. (hi - 1)
      BY <1>a, <2>0
    <3>2. PICK n \in 1 .. m : c[2] = j + (n - 1) * 1
      BY <2>2, <3>1
    <3>3. c \in ColC(i, j + (n - 1) * 1)
      BY <3>2
    <3> QED BY <3>3
  <2>6. s = [n \in 1 .. m |-> s[n]]
    OBVIOUS
  <2> HIDE DEF s, C, BlockC
  <2>7. Copies(M, N, FlattenSeq(s), BlockC(i, j), "any", "any")
    BY <2>2, <2>3, <2>4, <2>5, <2>6, SteadyCopies, Zenon
  <2> QED BY <2>1, <2>7
<1>4. ASSUME NEW i \in 0 .. (N - 1) PROVE Copies(M, N, Row(i), RowC(i), "any", "any")
  <2> DEFINE m == (M - 0 + BLOCK_SIZE - 1) \div BLOCK_SIZE
             s == [n \in 1 .. m |-> Block(i, 0 + (n - 1) * BLOCK_SIZE)]
             C == [n \in 1 .. m |-> BlockC(i, 0 + (n - 1) * BLOCK_SIZE)]
  <2>1. Row(i) = FlattenSeq(s)
    BY DEF For
  <2>2. /\ m \in Nat
        /\ \A n \in 1 .. m : 0 + (n - 1) * BLOCK_SIZE \in 0 .. (M - 1)
        /\ \A c \in 0 .. (M - 1) : \E n \in 1 .. m : 0 + (n - 1) * BLOCK_SIZE <= c /\ c < 0 + (n - 1) * BLOCK_SIZE + BLOCK_SIZE
    BY BlockRounds
  <2> HIDE DEF m, Block
  <2>3. C \in [1 .. m -> SUBSET Cells(M, N)]
    OBVIOUS
  <2>4. \A n \in 1 .. m : Copies(M, N, s[n], C[n], "any", "any")
    <3> HIDE DEF BlockC
    <3> QED BY <1>3, <2>2
  <2>5. ASSUME NEW c \in RowC(i) PROVE \E n \in 1 .. m : c \in C[n]
    <3>1. c[2] \in 0 .. (M - 1)
      BY <1>a
    <3>2. PICK n \in 1 .. m : 0 + (n - 1) * BLOCK_SIZE <= c[2] /\ c[2] < 0 + (n - 1) * BLOCK_SIZE + BLOCK_SIZE
      BY <2>2, <3>1
    <3>3. c \in BlockC(i, 0 + (n - 1) * BLOCK_SIZE)
      BY <3>2
    <3> QED BY <3>3
  <2>6. s = [n \in 1 .. m |-> s[n]]
    OBVIOUS
  <2> HIDE DEF s, C, RowC
  <2>7. Copies(M, N, FlattenSeq(s), RowC(i), "any", "any")
    BY <2>2, <2>3, <2>4, <2>5, <2>6, SteadyCopies, Zenon
  <2> QED BY <2>1, <2>7
<1>5. Copies(M, N, All, Cells(M, N), "any", "any")
  <2> DEFINE m == (N - 0 + BLOCK_SIZE - 1) \div BLOCK_SIZE
             s == [n \in 1 .. m |-> Row(0 + (n - 1) * BLOCK_SIZE)]
             C == [n \in 1 .. m |-> RowC(0 + (n - 1) * BLOCK_SIZE)]
  <2>1. All = FlattenSeq(s)
    BY DEF For
  <2>2. /\ m \in Nat
        /\ \A n \in 1 .. m : 0 + (n - 1) * BLOCK_SIZE \in 0 .. (N - 1)
        /\ \A c \in 0 .. (N - 1) : \E n \in 1 .. m : 0 + (n - 1) * BLOCK_SIZE <= c /\ c < 0 + (n - 1) * BLOCK_SIZE + BLOCK_SIZE
    BY BlockRounds
  <2> HIDE DEF m, Row
  <2>3. C \in [1 .. m -> SUBSET Cells(M, N)]
    OBVIOUS
  <2>4. \A n \in 1 .. m : Copies(M, N, s[n], C[n], "any", "any")
    <3> HIDE DEF RowC
    <3> QED BY <1>4, <2>2
  <2>5. ASSUME NEW c \in Cells(M, N) PROVE \E n \in 1 .. m : c \in C[n]
    <3>1. c[1] \in 0 .. (N - 1)
      BY <1>a
    <3>2. PICK n \in 1 .. m : 0 + (n - 1) * BLOCK_SIZE <= c[1] /\ c[1] < 0 + (n - 1) * BLOCK_SIZE + BLOCK_SIZE
      BY <2>2, <3>1
    <3>3. c \in RowC(0 + (n - 1) * BLOCK_SIZE)
      BY <3>2
    <3> QED BY <3>3
  <2>6. s = [n \in 1 .. m |-> s[n]]
    OBVIOUS
  <2> HIDE DEF s, C
  <2>7. Copies(M, N, FlattenSeq(s), Cells(M, N), "any", "any")
    BY <2>2, <2>3, <2>4, <2>5, <2>6, SteadyCopies, Zenon
  <2> QED BY <2>1, <2>7
<1> QED BY <1>5 DEF trans_61_67
-----------------------------------------------------------------------------
(* Part of a row of A. *)
Part(M, N, k, lo, hi) == {c \in Cells(M, N) : c[1] = k /\ lo <= c[2] /\ c[2] < hi}

(* A row without an element on the diagonal, if is_diagonal is cleared. *)
LEMMA OffDiagonal ==
  ASSUME NEW M \in Nat \ {0}, NEW N \in Nat \ {0}, NEW k \in 0 .. (N - 1), k \in 0 .. (M - 1),
         NEW lo \in Nat, NEW hi \in Nat, lo <= hi, hi <= M, k \notin lo .. (hi - 1)
  PROVE  Copies(M, N, DiagonalLast(k, lo, hi), Part(M, N, k, lo, hi), "off", "off")
<1> DEFINE Body(l) == IF k # l THEN <<Load("A", k, l, 0), Store(l, k, 0)>>
                      ELSE <<[Load("A", k, l, 9) EXCEPT !.when = "set"]>>
           Row     == For(lo, hi, 1, LAMBDA l : Body(l))
           last    == [Store(k, k, 9) EXCEPT !.when = "is_diagonal"]
           E       == Part(M, N, k, lo, hi)
<1>1. ASSUME NEW l \in lo .. (hi - 1) PROVE l \in 0 .. (M - 1) /\ Copies(M, N, Body(l), {<<k, l>>}, "off", "off")
  <2>1. 0 \in 0 .. 9 /\ l \in 0 .. (M - 1) /\ k # l
    OBVIOUS
  <2>2. Copies(M, N, <<Load("A", k, l, 0), Store(l, k, 0)>>, {<<k, l>>}, "off", "off")
    BY <2>1, PairCopies, Zenon
  <2> QED BY <2>1, <2>2
<1>2. Copies(M, N, Row, E, "off", "off")
  <2> DEFINE m == (hi - lo + 1 - 1) \div 1
             s == [n \in 1 .. m |-> Body(lo + (n - 1) * 1)]
             C == [n \in 1 .. m |-> {<<k, lo + (n - 1) * 1>>}]
  <2>1. Row = FlattenSeq(s)
    BY DEF For
  <2>2. /\ m \in Nat
        /\ \A n \in 1 .. m : lo + (n - 1) * 1 \in lo .. (hi - 1)
        /\ \A c \in lo .. (hi - 1) : \E n \in 1 .. m : c = lo + (n - 1) * 1
    <3>1. lo \in Int /\ hi \in Int
      OBVIOUS
    <3>2. /\ m \in Nat
          /\ \A n \in 1 .. m : lo + (n - 1) * 1 = lo + (n - 1) /\ lo + (n - 1) \in lo .. (hi - 1)
          /\ \A c \in lo .. (hi - 1) : \E n \in 1 .. m : c = lo + (n - 1) * 1
      BY <3>1, Rounds
    <3> QED BY <3>2
  <2> HIDE DEF m, Body
  <2>3. C \in [1 .. m -> SUBSET Cells(M, N)]
    BY <1>1, <2>2 DEF Cells
  <2>4. \A n \in 1 .. m : Copies(M, N, s[n], C[n], "off", "off")
    BY <1>1, <2>2
  <2>5. ASSUME NEW c \in E PROVE \E n \in 1 .. m : c \in C[n]
    <3>1. c = <<k, c[2]>> /\ c[2] \in lo .. (hi - 1)
      BY DEF Part, Cells
    <3>2. PICK n \in 1 .. m : c[2] = lo + (n - 1) * 1
      BY <2>2, <3>1
    <3> QED BY <3>1, <3>2
  <2>6. s = [n \in 1 .. m |-> s[n]]
    OBVIOUS
  <2> HIDE DEF s, C, E
  <2>7. Copies(M, N, FlattenSeq(s), E, "off", "off")
    BY <2>2, <2>3, <2>4, <2>5, <2>6, SteadyCopies, Zenon
  <2> QED BY <2>1, <2>7
<1>3. DiagonalLast(k, lo, hi) = Row \o <<last>>
  BY DEF DiagonalLast
<1> HIDE DEF Row, E
<1>4. ASSUME NEW D \in SUBSET Cells(M, N)
      PROVE  Triple(M, N, Row \o <<last>>, Known(M, N, Done(D), {}, "off"), Known(M, N, Done(D \cup E), {}, "off"))
  <2> DEFINE P == Known(M, N, Done(D), {}, "off")
             Q == Known(M, N, Done(D \cup E), {}, "off")
  <2>1. Triple(M, N, Row, P, Q)
    BY <1>2 DEF Copies
  <2>2. last \in AccessIn(M, N) /\ \A z \in Q : Exec(M, N, last, z) \in Q
    <3>1. 9 \in 0 .. 9
      OBVIOUS
    <3> QED BY <3>1, StoreNothing
  <2> HIDE DEF P, Q, last
  <2>3. Triple(M, N, <<last>>, Q, Q)
    BY <2>2, OneTriple
  <2>4. Triple(M, N, Row \o <<last>>, P, Q)
    BY <2>1, <2>3, ConcatTriple
  <2> QED BY <2>4 DEF P, Q
<1> QED BY <1>3, <1>4 DEF Copies, E

(* A row with one, whatever is_diagonal was before. *)
LEMMA OnDiagonal ==
  ASSUME NEW M \in Nat \ {0}, NEW N \in Nat \ {0}, NEW k \in 0 .. (N - 1), k \in 0 .. (M - 1),
         NEW lo \in Nat, NEW hi \in Nat, lo <= hi, hi <= M, k \in lo .. (hi - 1)
  PROVE  Copies(M, N, DiagonalLast(k, lo, hi), Part(M, N, k, lo, hi), "any", "off")
<1> DEFINE Body(l) == IF k # l THEN <<Load("A", k, l, 0), Store(l, k, 0)>>
                      ELSE <<[Load("A", k, l, 9) EXCEPT !.when = "set"]>>
           Row     == For(lo, hi, 1, LAMBDA l : Body(l))
           last    == [Store(k, k, 9) EXCEPT !.when = "is_diagonal"]
           E       == Part(M, N, k, lo, hi)
           tmp     == {<<9, k, k>>}
<1>0. tmp \in SUBSET Holders /\ <<9, k, k>> \in tmp /\ \A g \in tmp : g[1] # 0
  BY DEF Holders
<1> HIDE DEF tmp
<1> SUFFICES ASSUME NEW D \in SUBSET Cells(M, N)
             PROVE  Triple(M, N, DiagonalLast(k, lo, hi),
                           Known(M, N, Done(D), {}, "any"), Known(M, N, Done(D \cup E), {}, "off"))
  BY DEF Copies
<1> DEFINE L(l) == D \cup {c \in Cells(M, N) : c[1] = k /\ lo <= c[2] /\ c[2] < l /\ c[2] # k}
<1>1. ASSUME NEW l \in lo .. (hi - 1)
      PROVE  /\ l \in 0 .. (M - 1) /\ L(l) \in SUBSET Cells(M, N) /\ L(l + 1) \in SUBSET Cells(M, N)
             /\ k # l => L(l + 1) = L(l) \cup {<<k, l>>}
             /\ k = l => L(l + 1) = L(l)
  <2>1. l \in 0 .. (M - 1)
    OBVIOUS
  <2>2. ASSUME NEW c \in Cells(M, N) PROVE c = <<c[1], c[2]>> /\ (c[2] < l + 1 <=> c[2] < l \/ c[2] = l)
    BY DEF Cells
  <2>3. <<k, l>> \in Cells(M, N) /\ <<k, l>>[1] = k /\ <<k, l>>[2] = l
    BY <2>1 DEF Cells
  <2>4. ASSUME k # l PROVE L(l + 1) = L(l) \cup {<<k, l>>}
    <3>1. L(l + 1) \subseteq L(l) \cup {<<k, l>>}
      BY <2>2
    <3>2. L(l) \cup {<<k, l>>} \subseteq L(l + 1)
      BY <2>2, <2>3, <2>4
    <3> QED BY <3>1, <3>2
  <2>5. ASSUME k = l PROVE L(l + 1) = L(l)
    BY <2>2, <2>5
  <2> QED BY <2>1, <2>4, <2>5
<1>2. L(lo) = D
  <2>1. \A c \in Cells(M, N) : ~(lo <= c[2] /\ c[2] < lo)
    BY DEF Cells
  <2> QED BY <2>1
<1>3. L(hi) \in SUBSET Cells(M, N) /\ D \cup E \subseteq L(hi) \cup {<<k, k>>}
  <2>1. ASSUME NEW c \in E PROVE c \in L(hi) \/ c = <<k, k>>
    BY DEF Part, Cells
  <2> QED BY <2>1
<1> HIDE DEF L, E
<1> DEFINE S(l) == IF l <= k THEN Known(M, N, Done(L(l)), {}, "any") ELSE Known(M, N, Done(L(l)), tmp, "on")
<1>4. ASSUME NEW l \in lo .. (hi - 1) PROVE Triple(M, N, Body(l), S(l), S(l + 1))
  <2>0. 0 \in 0 .. 9 /\ 9 \in 0 .. 9 /\ l \in 0 .. (M - 1) /\ L(l) \in SUBSET Cells(M, N) /\ L(l + 1) \in SUBSET Cells(M, N)
    BY <1>1
  <2>a. Done(L(l + 1)) \in SUBSET Places(M, N)
    BY <2>0, DoneOK
  <2>b. ASSUME k # l PROVE Stored(Done(L(l)), Done(L(l + 1)), l, k, k, l)
    <3>1. Stored(Done(L(l)), Done(L(l) \cup {<<k, l>>}), l, k, k, l)
      BY <2>0, DoneStored
    <3> QED BY <1>1, <2>b, <3>1
  <2>1. CASE l < k
    <3>1. Body(l) = <<Load("A", k, l, 0), Store(l, k, 0)>> /\ k # l
      BY <2>1
    <3>2. S(l) = Known(M, N, Done(L(l)), {}, "any") /\ S(l + 1) = Known(M, N, Done(L(l + 1)), {}, "any")
      BY <2>1
    <3>3. {} \in SUBSET Holders /\ \A g \in {} : g[1] # 0
      OBVIOUS
    <3>4. Triple(M, N, <<Load("A", k, l, 0), Store(l, k, 0)>>, Known(M, N, Done(L(l)), {}, "any"), Known(M, N, Done(L(l + 1)), {}, "any"))
      BY <2>0, <2>a, <2>b, <3>1, <3>3, CopyTriple, Zenon
    <3> QED BY <3>1, <3>2, <3>4
  <2>2. CASE l > k
    <3>1. Body(l) = <<Load("A", k, l, 0), Store(l, k, 0)>> /\ k # l
      BY <2>2
    <3>2. S(l) = Known(M, N, Done(L(l)), tmp, "on") /\ S(l + 1) = Known(M, N, Done(L(l + 1)), tmp, "on")
      BY <2>2
    <3>4. Triple(M, N, <<Load("A", k, l, 0), Store(l, k, 0)>>, Known(M, N, Done(L(l)), tmp, "on"), Known(M, N, Done(L(l + 1)), tmp, "on"))
      BY <1>0, <2>0, <2>a, <2>b, <3>1, CopyTriple, Zenon
    <3> QED BY <3>1, <3>2, <3>4
  <2>3. CASE l = k
    <3> DEFINE a == [Load("A", k, l, 9) EXCEPT !.when = "set"]
               P == Known(M, N, Done(L(l)), {}, "any")
               Q == Known(M, N, Done(L(l)), tmp, "on")
    <3>1. Body(l) = <<a>>
      BY <2>3
    <3>2. S(l) = P /\ S(l + 1) = Q
      BY <1>1, <2>3
    <3>3. Loaded({}, tmp, 9, k, l)
      BY <2>3 DEF Loaded, tmp
    <3>4. a \in AccessIn(M, N) /\ \A z \in P : Exec(M, N, a, z) \in Q
      BY <1>0, <2>0, <3>3, LoadDiagonal
    <3> HIDE DEF a, P, Q
    <3>5. Triple(M, N, <<a>>, P, Q)
      BY <3>4, OneTriple
    <3> QED BY <3>1, <3>2, <3>5
  <2> QED BY <2>1, <2>2, <2>3
<1>5. Triple(M, N, Row, S(lo), S(hi))
  <2> DEFINE m == (hi - lo + 1 - 1) \div 1
             s == [n \in 1 .. m |-> Body(lo + (n - 1) * 1)]
             I == [n \in 0 .. m |-> S(lo + n)]
  <2>1. Row = FlattenSeq(s)
    BY DEF For
  <2>2. /\ m \in Nat /\ m = hi - lo
        /\ \A n \in 1 .. m : lo + (n - 1) * 1 = lo + (n - 1) /\ lo + (n - 1) \in lo .. (hi - 1)
    <3>1. lo \in Int /\ hi \in Int
      OBVIOUS
    <3> QED BY <3>1, Rounds
  <2> HIDE DEF m, Body, S
  <2>3. ASSUME NEW n \in 1 .. m PROVE Triple(M, N, s[n], I[n - 1], I[n])
    <3> DEFINE l == lo + (n - 1)
    <3>1. l \in lo .. (hi - 1) /\ s[n] = Body(l)
      BY <2>2
    <3>2. I[n - 1] = S(l) /\ lo + n = l + 1 /\ I[n] = S(lo + n)
      <4>1. n - 1 \in 0 .. m /\ n \in 0 .. m /\ lo + n = l + 1
        BY <2>2
      <4> QED BY <4>1
    <3> HIDE DEF l, I, s
    <3> QED BY <1>4, <3>1, <3>2
  <2>4. s = [n \in 1 .. m |-> s[n]]
    OBVIOUS
  <2>5. I[0] = S(lo + 0) /\ I[m] = S(lo + m) /\ lo + 0 = lo /\ lo + m = hi
    BY <2>2
  <2> HIDE DEF s, I
  <2>6. Triple(M, N, FlattenSeq(s), I[0], I[m])
    BY <2>2, <2>3, <2>4, LoopTriple
  <2> QED BY <2>1, <2>5, <2>6
<1>6. S(lo) = Known(M, N, Done(D), {}, "any") /\ S(hi) = Known(M, N, Done(L(hi)), tmp, "on")
  BY <1>2
<1>7. DiagonalLast(k, lo, hi) = Row \o <<last>>
  BY DEF DiagonalLast
<1> DEFINE G == L(hi) \cup {<<k, k>>}
<1>8. last \in AccessIn(M, N) /\ \A z \in Known(M, N, Done(L(hi)), tmp, "on") : Exec(M, N, last, z) \in Known(M, N, Done(G), tmp, "off")
  <2>1. 9 \in 0 .. 9 /\ k \in Int
    OBVIOUS
  <2>2. G \in SUBSET Cells(M, N)
    BY <1>3 DEF Cells
  <2>3. Done(G) \in SUBSET Places(M, N)
    BY <2>2, DoneOK
  <2>4. Stored(Done(L(hi)), Done(G), k, k, k, k)
    BY <1>3, DoneStored
  <2> HIDE DEF G
  <2> QED BY <1>0, <2>1, <2>3, <2>4, StoreDiagonal
<1> HIDE DEF Row, last, S
<1>9. Triple(M, N, <<last>>, S(hi), Known(M, N, Done(G), tmp, "off"))
  BY <1>6, <1>8, OneTriple
<1>10. Triple(M, N, Row \o <<last>>, S(lo), Known(M, N, Done(G), tmp, "off"))
  BY <1>5, <1>9, ConcatTriple
<1>11. Known(M, N, Done(G), tmp, "off") \subseteq Known(M, N, Done(D \cup E), {}, "off")
  <2>1. Done(D \cup E) \in SUBSET Done(G) /\ {} \in SUBSET tmp /\ "off" \in {"any", "off"}
    BY <1>3, DoneMore
  <2> QED BY <2>1, KnownLess, Zenon
<1> QED BY <1>6, <1>7, <1>10, <1>11 DEF Triple

(* A program that needs nothing of is_diagonal does not need it cleared. *)
LEMMA CopiesAny ==
  ASSUME NEW M, NEW N, NEW s, NEW C, NEW y, Copies(M, N, s, C, "any", y), NEW x
  PROVE  Copies(M, N, s, C, x, y)
<1> SUFFICES ASSUME NEW D \in SUBSET Cells(M, N)
             PROVE  Triple(M, N, s, Known(M, N, Done(D), {}, x), Known(M, N, Done(D \cup C), {}, y))
  BY DEF Copies
<1>1. Triple(M, N, s, Known(M, N, Done(D), {}, "any"), Known(M, N, Done(D \cup C), {}, y))
  BY DEF Copies
<1>2. Done(D) \in SUBSET Done(D) /\ {} \in SUBSET {} /\ "any" \in {"any", x}
  OBVIOUS
<1>3. Known(M, N, Done(D), {}, x) \subseteq Known(M, N, Done(D), {}, "any")
  BY <1>2, KnownLess, Zenon
<1> QED BY <1>1, <1>3 DEF Triple

(* A loop whose rounds clear is_diagonal. *)
LEMMA ClearedCopies ==
  ASSUME NEW M, NEW N, NEW m \in Nat \ {0}, NEW s, s = [n \in 1 .. m |-> s[n]],
         NEW C \in [1 .. m -> SUBSET Cells(M, N)], NEW x,
         Copies(M, N, s[1], C[1], x, "off"),
         \A n \in 1 .. m : Copies(M, N, s[n], C[n], "off", "off"),
         NEW E, \A c \in E : \E n \in 1 .. m : c \in C[n]
  PROVE  Copies(M, N, FlattenSeq(s), E, x, "off")
<1> DEFINE y == [n \in 0 .. m |-> IF n = 0 THEN x ELSE "off"]
<1>1. y[0] = x /\ y[m] = "off" /\ m \in Nat
  OBVIOUS
<1>2. ASSUME NEW n \in 1 .. m PROVE Copies(M, N, s[n], C[n], y[n - 1], y[n])
  <2>1. y[n] = "off"
    OBVIOUS
  <2>2. CASE n = 1
    <3>1. y[n - 1] = x
      BY <2>2
    <3> HIDE DEF y
    <3> QED BY <2>1, <2>2, <3>1
  <2>3. CASE n # 1
    <3>1. y[n - 1] = "off"
      BY <2>3
    <3> HIDE DEF y
    <3> QED BY <2>1, <3>1
  <2> QED BY <2>2, <2>3
<1> HIDE DEF y
<1>3. Copies(M, N, FlattenSeq(s), E, y[0], y[m])
  BY <1>1, <1>2, LoopCopies
<1> QED BY <1>1, <1>3

(* What ClearedCopies needs, in one formula. *)
ClearedLoop(M, N, m, s, C, E, x) ==
  /\ m \in Nat \ {0} /\ s = [n \in 1 .. m |-> s[n]] /\ C \in [1 .. m -> SUBSET Cells(M, N)]
  /\ Copies(M, N, s[1], C[1], x, "off")
  /\ \A n \in 1 .. m : Copies(M, N, s[n], C[n], "off", "off")
  /\ \A c \in E : \E n \in 1 .. m : c \in C[n]

(* Such a loop copies what its rounds copy. *)
LEMMA ClearedLoopCopies ==
  ASSUME NEW M, NEW N, NEW m, NEW s, NEW C, NEW E, NEW x, ClearedLoop(M, N, m, s, C, E, x)
  PROVE  Copies(M, N, FlattenSeq(s), E, x, "off")
  BY ClearedCopies, Zenon DEF ClearedLoop

(* A row: is_diagonal has to be cleared before it, unless it sets it. *)
LEMMA DiagonalLastCopies ==
  ASSUME NEW M \in Nat \ {0}, NEW N \in Nat \ {0}, NEW k \in 0 .. (N - 1), k \in 0 .. (M - 1),
         NEW lo \in Nat, NEW hi \in Nat, lo <= hi, hi <= M, NEW x, x = "off" \/ k \in lo .. (hi - 1)
  PROVE  Copies(M, N, DiagonalLast(k, lo, hi), Part(M, N, k, lo, hi), x, "off")
<1>1. CASE k \in lo .. (hi - 1)
  <2>1. Copies(M, N, DiagonalLast(k, lo, hi), Part(M, N, k, lo, hi), "any", "off")
    BY <1>1, OnDiagonal
  <2> QED BY <2>1, CopiesAny, Zenon
<1>2. CASE k \notin lo .. (hi - 1)
  <2>1. Copies(M, N, DiagonalLast(k, lo, hi), Part(M, N, k, lo, hi), "off", "off")
    BY <1>2, OffDiagonal
  <2> QED BY <1>2, <2>1
<1> QED BY <1>1, <1>2

(* A part of a square matrix. *)
Box(N, i, bottom, lo, hi) == {c \in Cells(N, N) : i <= c[1] /\ c[1] < bottom /\ lo <= c[2] /\ c[2] < hi}

(* The rows of a part, one after the other. *)
Rows(i, bottom, lo, hi) == For(i, bottom, 1, LAMBDA k : DiagonalLast(k, lo, hi))

(* They copy the part. *)
LEMMA SquareCopies ==
  ASSUME NEW N \in Nat \ {0}, NEW i \in Nat, NEW bottom \in Nat, i < bottom, bottom <= N,
         NEW lo \in Nat, NEW hi \in Nat, lo <= hi, hi <= N, NEW x, x = "off" \/ i \in lo .. (hi - 1)
  PROVE  Copies(N, N, Rows(i, bottom, lo, hi), Box(N, i, bottom, lo, hi), x, "off")
<1> DEFINE m == (bottom - i + 1 - 1) \div 1
           s == [n \in 1 .. m |-> DiagonalLast(i + (n - 1) * 1, lo, hi)]
           C == [n \in 1 .. m |-> Part(N, N, i + (n - 1) * 1, lo, hi)]
           E == Box(N, i, bottom, lo, hi)
<1>1. /\ m \in Nat \ {0}
      /\ \A n \in 1 .. m : i + (n - 1) * 1 \in i .. (bottom - 1)
      /\ \A c \in i .. (bottom - 1) : \E n \in 1 .. m : c = i + (n - 1) * 1
  <2>1. i \in Int /\ bottom \in Int /\ i <= bottom
    OBVIOUS
  <2>2. /\ m \in Nat /\ m = bottom - i
        /\ \A n \in 1 .. m : i + (n - 1) * 1 = i + (n - 1) /\ i + (n - 1) \in i .. (bottom - 1)
        /\ \A c \in i .. (bottom - 1) : \E n \in 1 .. m : c = i + (n - 1) * 1
    BY <2>1, Rounds
  <2> HIDE DEF m
  <2> QED BY <2>2
<1>a. s = [n \in 1 .. m |-> s[n]] /\ \A n \in 1 .. m : s[n] = DiagonalLast(i + (n - 1) * 1, lo, hi)
  OBVIOUS
<1>b. Rows(i, bottom, lo, hi) = FlattenSeq(s)
  BY DEF For, Rows
<1> HIDE DEF m, s
<1>2. C \in [1 .. m -> SUBSET Cells(N, N)]
  BY DEF Part
<1>3. ASSUME NEW n \in 1 .. m, NEW y, y = "off" \/ i + (n - 1) * 1 \in lo .. (hi - 1)
      PROVE  Copies(N, N, s[n], C[n], y, "off")
  <2> DEFINE k == i + (n - 1) * 1
  <2>1. k \in 0 .. (N - 1)
    <3>1. k \in i .. (bottom - 1)
      BY <1>1
    <3> QED BY <3>1
  <2>2. s[n] = DiagonalLast(k, lo, hi) /\ C[n] = Part(N, N, k, lo, hi)
    BY <1>a
  <2>3. y = "off" \/ k \in lo .. (hi - 1)
    BY <1>3
  <2> HIDE DEF k, C
  <2>4. Copies(N, N, DiagonalLast(k, lo, hi), Part(N, N, k, lo, hi), y, "off")
    BY <2>1, <2>3, DiagonalLastCopies, Zenon
  <2> QED BY <2>2, <2>4
<1>4. Copies(N, N, s[1], C[1], x, "off")
  <2>1. 1 \in 1 .. m /\ i + (1 - 1) * 1 = i
    BY <1>1
  <2> HIDE DEF C
  <2> QED BY <1>3, <2>1
<1>5. \A n \in 1 .. m : Copies(N, N, s[n], C[n], "off", "off")
  <2> HIDE DEF C
  <2> QED BY <1>3
<1>6. ASSUME NEW c \in E PROVE \E n \in 1 .. m : c \in C[n]
  <2>1. c \in Cells(N, N) /\ c[1] \in i .. (bottom - 1) /\ lo <= c[2] /\ c[2] < hi
    BY DEF Cells, Box
  <2>2. PICK n \in 1 .. m : c[1] = i + (n - 1) * 1
    BY <1>1, <2>1
  <2>3. c \in Part(N, N, i + (n - 1) * 1, lo, hi)
    BY <2>1, <2>2 DEF Part
  <2> QED BY <2>3
<1> HIDE DEF C, E
<1>7. Copies(N, N, FlattenSeq(s), E, x, "off")
  BY <1>1, <1>a, <1>2, <1>4, <1>5, <1>6, ClearedCopies, Zenon
<1> QED BY <1>7, <1>b DEF E

(* A block of a square matrix. *)
BlockAt(N, i, j) == Box(N, i, i + BLOCK_SIZE, j, j + BLOCK_SIZE)

(* The blocks of the two sizes that are multiples of BLOCK_SIZE. *)
LEMMA ExactRounds ==
  ASSUME NEW N \in {32, 64}
  PROVE  LET m == (N - 0 + BLOCK_SIZE - 1) \div BLOCK_SIZE IN
         /\ m \in Nat \ {0}
         /\ \A n \in 1 .. m : 0 + (n - 1) * BLOCK_SIZE \in Nat /\ 0 + (n - 1) * BLOCK_SIZE + BLOCK_SIZE <= N
         /\ \A c \in 0 .. (N - 1) : \E n \in 1 .. m : 0 + (n - 1) * BLOCK_SIZE <= c /\ c < 0 + (n - 1) * BLOCK_SIZE + BLOCK_SIZE
<1> DEFINE m == (N - 0 + BLOCK_SIZE - 1) \div BLOCK_SIZE
<1>1. BLOCK_SIZE = 8
  BY DEF BLOCK_SIZE
<1>2. m = (N + 7) \div 8
  BY <1>1
<1>3. \A c \in 0 .. (N - 1) : \E n \in 1 .. m : 0 + (n - 1) * BLOCK_SIZE <= c /\ c < 0 + (n - 1) * BLOCK_SIZE + BLOCK_SIZE
  <2>1. N \in Nat
    OBVIOUS
  <2> QED BY <2>1, BlockRounds
<1> HIDE DEF m
<1>4. m \in Nat \ {0}
  BY <1>2
<1>5. \A n \in 1 .. m : 0 + (n - 1) * BLOCK_SIZE \in Nat /\ 0 + (n - 1) * BLOCK_SIZE + BLOCK_SIZE <= N
  <2>1. N = 32 => m = 4
    BY <1>2
  <2>2. N = 64 => m = 8
    BY <1>2
  <2> QED BY <1>1, <2>1, <2>2
<1> QED BY <1>3, <1>4, <1>5 DEF m

(* A function that goes through the blocks: where the n-th ones begin, what *)
(* it does, and when all the blocks are copied, for which is_diagonal has   *)
(* to be cleared except in a block on the diagonal.                         *)
Blocks(N) == (N - 0 + BLOCK_SIZE - 1) \div BLOCK_SIZE
Corner(n) == 0 + (n - 1) * BLOCK_SIZE
Grid(N, t) == FlattenSeq([n \in 1 .. Blocks(N) |-> FlattenSeq([q \in 1 .. Blocks(N) |-> t[n][q]])])
BlockCopies(N, t, n, q, x) == Copies(N, N, t[n][q], BlockAt(N, Corner(n), Corner(q)), x, "off")
BlocksCopied(N, t) ==
  \A n, q \in 1 .. Blocks(N) : BlockCopies(N, t, n, q, "off") /\ (n = q => BlockCopies(N, t, n, q, "any"))

(* Such a function copies every cell. *)
LEMMA BlocksCopy ==
  ASSUME NEW N \in {32, 64}, NEW t, BlocksCopied(N, t)
  PROVE  Copies(N, N, Grid(N, t), Cells(N, N), "any", "off")
<1>0. PICK m : m = Blocks(N)
  OBVIOUS
<1> DEFINE at(n) == Corner(n)
           s == [n \in 1 .. m |-> FlattenSeq([q \in 1 .. m |-> t[n][q]])]
           RowC(n) == {c \in Cells(N, N) : at(n) <= c[1] /\ c[1] < at(n) + BLOCK_SIZE}
<1>1. m \in Nat \ {0} /\ \A c \in 0 .. (N - 1) : \E n \in 1 .. m : at(n) <= c /\ c < at(n) + BLOCK_SIZE
  BY <1>0, ExactRounds DEF Blocks, Corner
<1>2. \A n, q \in 1 .. m : \A x \in {"any", "off"} : x = "off" \/ n = q => Copies(N, N, t[n][q], BlockAt(N, at(n), at(q)), x, "off")
  BY <1>0 DEF BlocksCopied, BlockCopies
<1>3. \A c \in Cells(N, N) : c[1] \in 0 .. (N - 1) /\ c[2] \in 0 .. (N - 1)
  BY DEF Cells
<1>s. \A n \in 1 .. m : s[n] = FlattenSeq([q \in 1 .. m |-> t[n][q]])
  OBVIOUS
<1>8. s = [n \in 1 .. m |-> s[n]]
  OBVIOUS
<1>9. Grid(N, t) = FlattenSeq(s)
  BY <1>0 DEF Grid
<1> HIDE DEF at, s
<1>4. ASSUME NEW n \in 1 .. m, NEW x \in {"any", "off"}, x = "off" \/ n = 1
      PROVE  Copies(N, N, s[n], RowC(n), x, "off")
  <2> DEFINE C == [q \in 1 .. m |-> BlockAt(N, at(n), at(q))]
             u == [q \in 1 .. m |-> t[n][q]]
             E == RowC(n)
  <2>0. u = [q \in 1 .. m |-> u[q]]
    OBVIOUS
  <2>a. s[n] = FlattenSeq(u)
    BY <1>s
  <2>b. m \in Nat \ {0}
    BY <1>1
  <2>1. C \in [1 .. m -> SUBSET Cells(N, N)]
    BY DEF BlockAt, Box
  <2>2. Copies(N, N, u[1], C[1], x, "off")
    <3>1. 1 \in 1 .. m /\ (x = "off" \/ n = 1)
      BY <1>1, <1>4
    <3>2. Copies(N, N, t[n][1], BlockAt(N, at(n), at(1)), x, "off")
      BY <1>2, <3>1
    <3>3. u[1] = t[n][1] /\ C[1] = BlockAt(N, at(n), at(1))
      BY <3>1
    <3> HIDE DEF u, C
    <3> QED BY <3>2, <3>3
  <2>3. \A q \in 1 .. m : Copies(N, N, u[q], C[q], "off", "off")
    BY <1>2
  <2>4. ASSUME NEW c \in E PROVE \E q \in 1 .. m : c \in C[q]
    <3>1. PICK q \in 1 .. m : at(q) <= c[2] /\ c[2] < at(q) + BLOCK_SIZE
      BY <1>1, <1>3
    <3>2. c \in BlockAt(N, at(n), at(q))
      BY <3>1 DEF BlockAt, Box
    <3> QED BY <3>2
  <2> HIDE DEF C, u, E
  <2>c. ClearedLoop(N, N, m, u, C, E, x)
    BY <2>b, <2>0, <2>1, <2>2, <2>3, <2>4, Zenon DEF ClearedLoop
  <2>5. Copies(N, N, FlattenSeq(u), E, x, "off")
    BY <2>c, ClearedLoopCopies
  <2> QED BY <2>a, <2>5 DEF E
<1> DEFINE C == [n \in 1 .. m |-> RowC(n)]
<1>5. C \in [1 .. m -> SUBSET Cells(N, N)]
  OBVIOUS
<1>6. Copies(N, N, s[1], C[1], "any", "off") /\ \A n \in 1 .. m : Copies(N, N, s[n], C[n], "off", "off")
  <2>1. 1 \in 1 .. m
    BY <1>1
  <2> HIDE DEF RowC
  <2> QED BY <1>4, <2>1
<1>7. ASSUME NEW c \in Cells(N, N) PROVE \E n \in 1 .. m : c \in C[n]
  <2>1. PICK n \in 1 .. m : at(n) <= c[1] /\ c[1] < at(n) + BLOCK_SIZE
    BY <1>1, <1>3
  <2>2. c \in RowC(n)
    BY <2>1
  <2> QED BY <2>2
<1> HIDE DEF C
<1>10. m \in Nat \ {0}
  BY <1>1
<1>c. ClearedLoop(N, N, m, s, C, Cells(N, N), "any")
  BY <1>10, <1>5, <1>6, <1>7, <1>8, Zenon DEF ClearedLoop
<1>11. Copies(N, N, FlattenSeq(s), Cells(N, N), "any", "off")
  BY <1>c, ClearedLoopCopies
<1> QED BY <1>9, <1>11

(* The corner of a block. *)
LEMMA Corners ==
  ASSUME NEW N \in {32, 64}, NEW n \in 1 .. Blocks(N)
  PROVE  Corner(n) \in Nat /\ Corner(n) + BLOCK_SIZE <= N
BY ExactRounds DEF Blocks, Corner

(* trans_32_32 copies every cell of a square of its size. *)
LEMMA trans_32_32Copies ==
  ASSUME NEW N, N = 32
  PROVE  Copies(N, N, trans_32_32(N, N), Cells(N, N), "any", "off")
<1> DEFINE Block(i, j) == Rows(i, i + BLOCK_SIZE, j, j + BLOCK_SIZE)
           m == Blocks(N)
           t == [n \in 1 .. m |-> [q \in 1 .. m |-> Block(Corner(n), Corner(q))]]
<1>0. N \in {32, 64} /\ N \in Nat \ {0} /\ BLOCK_SIZE = 8
  BY DEF BLOCK_SIZE
<1>1. \A n, q \in 1 .. m : t[n][q] = Block(Corner(n), Corner(q))
  OBVIOUS
<1>2. trans_32_32(N, N) = Grid(N, t)
  <2>1. trans_32_32(N, N) = FlattenSeq([n \in 1 .. m |-> FlattenSeq([q \in 1 .. m |-> Block(Corner(n), Corner(q))])])
    BY DEF trans_32_32, For, Rows, Blocks, Corner
  <2> HIDE DEF m, Block, t
  <2> QED BY <1>1, <2>1 DEF Grid, m
<1>3. ASSUME NEW i \in Nat, NEW j \in Nat, i + BLOCK_SIZE <= N, j + BLOCK_SIZE <= N, NEW x, x = "off" \/ i = j
      PROVE  Copies(N, N, Block(i, j), BlockAt(N, i, j), x, "off")
  <2>1. PICK bottom, hi : bottom = i + BLOCK_SIZE /\ hi = j + BLOCK_SIZE
    OBVIOUS
  <2>2. bottom \in Nat /\ i < bottom /\ bottom <= N /\ hi \in Nat /\ j <= hi /\ hi <= N
          /\ (x = "off" \/ i \in j .. (hi - 1))
    BY <1>0, <1>3, <2>1
  <2>3. Copies(N, N, Rows(i, bottom, j, hi), Box(N, i, bottom, j, hi), x, "off")
    BY <1>0, <2>2, SquareCopies, Zenon
  <2> QED BY <2>1, <2>3 DEF BlockAt
<1>4. ASSUME NEW n \in 1 .. m, NEW q \in 1 .. m, NEW x, x = "off" \/ n = q
      PROVE  BlockCopies(N, t, n, q, x)
  <2>1. Corner(n) \in Nat /\ Corner(n) + BLOCK_SIZE <= N /\ Corner(q) \in Nat /\ Corner(q) + BLOCK_SIZE <= N
    BY <1>0, Corners
  <2>2. x = "off" \/ Corner(n) = Corner(q)
    BY <1>4
  <2> HIDE DEF Block, t, m
  <2> QED BY <1>1, <1>3, <2>1, <2>2 DEF BlockCopies
<1> HIDE DEF t
<1>5. BlocksCopied(N, t)
  BY <1>4 DEF BlocksCopied
<1>6. Copies(N, N, Grid(N, t), Cells(N, N), "any", "off")
  BY <1>0, <1>5, BlocksCopy, Zenon
<1> QED BY <1>2, <1>6
-----------------------------------------------------------------------------
(* An access that brings an element of A, wherever it takes it from, into a *)
(* register, and what a row of registers holds.                             *)
Brings(M, N, F, y, a, r, i, j) ==
  /\ a \in AccessIn(M, N)
  /\ \A R, RR \in SUBSET Holders : Loaded(R, RR, r, i, j) =>
       \A z \in Known(M, N, F, R, y) : Exec(M, N, a, z) \in Known(M, N, F, RR, y)
Held(m, r, i, j) == {<<r[x], i[x], j[x]>> : x \in 1 .. m}

(* Loads of different registers, beside those that R tells of. *)
Loads(M, N, F, y, m, s, r, i, j, R) ==
  /\ m \in Nat /\ s = [x \in 1 .. m |-> s[x]]
  /\ r \in [1 .. m -> 0 .. 9] /\ i \in [1 .. m -> Int] /\ j \in [1 .. m -> Int]
  /\ \A p, q \in 1 .. m : r[p] = r[q] => p = q
  /\ \A x \in 1 .. m : Brings(M, N, F, y, s[x], r[x], i[x], j[x])
  /\ R \in SUBSET Holders /\ \A g \in R : \A x \in 1 .. m : g[1] # r[x]

(* Several of them, one after the other. *)
LEMMA LoadsTriple ==
  ASSUME NEW M, NEW N, NEW m, NEW s, NEW r, NEW i, NEW j, NEW F, NEW y, NEW R, Loads(M, N, F, y, m, s, r, i, j, R)
  PROVE  Triple(M, N, s, Known(M, N, F, R, y), Known(M, N, F, R \cup Held(m, r, i, j), y))
<1> USE DEF Loads
<1> DEFINE RR(n) == R \cup Held(n, r, i, j)
           I     == [n \in 0 .. m |-> Known(M, N, F, RR(n), y)]
<1>1. \A n \in 0 .. m : RR(n) \in SUBSET Holders
  BY DEF Held, Holders
<1>2. ASSUME NEW n \in 1 .. m PROVE Loaded(RR(n - 1), RR(n), r[n], i[n], j[n])
  <2> SUFFICES ASSUME NEW g \in RR(n), g # <<r[n], i[n], j[n]>> PROVE g \in RR(n - 1) /\ g[1] # r[n]
    BY DEF Loaded
  <2>1. CASE g \in R
    BY <2>1
  <2>2. CASE g \in Held(n, r, i, j)
    <3>1. PICK x \in 1 .. n : g = <<r[x], i[x], j[x]>>
      BY <2>2 DEF Held
    <3>2. x # n /\ x \in 1 .. (n - 1) /\ x \in 1 .. m
      BY <3>1
    <3>3. g \in Held(n - 1, r, i, j)
      BY <3>1, <3>2 DEF Held
    <3>4. g[1] = r[x]
      BY <3>1
    <3> QED BY <3>2, <3>3, <3>4
  <2> QED BY <2>1, <2>2
<1>3. RR(0) = R
  BY DEF Held
<1> HIDE DEF RR
<1>4. ASSUME NEW n \in 1 .. m, NEW z \in I[n - 1] PROVE Exec(M, N, s[n], z) \in I[n]
  <2>1. n - 1 \in 0 .. m /\ n \in 0 .. m
    OBVIOUS
  <2>2. I[n - 1] = Known(M, N, F, RR(n - 1), y) /\ I[n] = Known(M, N, F, RR(n), y)
    BY <2>1
  <2>3. Loaded(RR(n - 1), RR(n), r[n], i[n], j[n]) /\ RR(n - 1) \in SUBSET Holders /\ RR(n) \in SUBSET Holders
    BY <1>1, <1>2, <2>1
  <2>4. Brings(M, N, F, y, s[n], r[n], i[n], j[n])
    OBVIOUS
  <2> HIDE DEF I, Loads
  <2> QED BY <2>2, <2>3, <2>4 DEF Brings
<1>5. s \in [1 .. m -> AccessIn(M, N)]
  BY DEF Brings
<1>6. I[0] = Known(M, N, F, R, y) /\ I[m] = Known(M, N, F, RR(m), y)
  BY <1>3
<1> HIDE DEF I
<1>7. Triple(M, N, s, I[0], I[m])
  BY <1>4, <1>5, SeqTriple
<1> QED BY <1>6, <1>7 DEF RR

(* A load from A brings its element, *)
LEMMA BringsA ==
  ASSUME NEW M \in Nat \ {0}, NEW N \in Nat \ {0}, NEW row \in 0 .. (N - 1), NEW col \in 0 .. (M - 1),
         NEW r \in 0 .. 9, NEW F, NEW y
  PROVE  Brings(M, N, F, y, Load("A", row, col, r), r, row, col)
<1>1. ASSUME NEW R \in SUBSET Holders, NEW RR \in SUBSET Holders, Loaded(R, RR, r, row, col)
      PROVE  \A z \in Known(M, N, F, R, y) : Exec(M, N, Load("A", row, col, r), z) \in Known(M, N, F, RR, y)
  BY <1>1, LoadA
<1>2. Load("A", row, col, r) \in AccessIn(M, N)
  <2>1. {} \in SUBSET Holders /\ Loaded({}, {}, r, row, col)
    BY DEF Loaded
  <2> QED BY <2>1, LoadA
<1> QED BY <1>1, <1>2 DEF Brings

(* and a load from B the one that is known to be there. *)
LEMMA BringsB ==
  ASSUME NEW M \in Nat \ {0}, NEW N \in Nat \ {0}, NEW row \in 0 .. (M - 1), NEW col \in 0 .. (N - 1),
         NEW r \in 0 .. 9, NEW F, NEW y, NEW i \in Int, NEW j \in Int, <<row, col, i, j>> \in F
  PROVE  Brings(M, N, F, y, Load("B", row, col, r), r, i, j)
<1>1. ASSUME NEW R \in SUBSET Holders, NEW RR \in SUBSET Holders, Loaded(R, RR, r, i, j)
      PROVE  /\ Load("B", row, col, r) \in AccessIn(M, N)
             /\ \A z \in Known(M, N, F, R, y) : Exec(M, N, Load("B", row, col, r), z) \in Known(M, N, F, RR, y)
  BY <1>1, LoadB
<1>2. Load("B", row, col, r) \in AccessIn(M, N)
  <2>1. {} \in SUBSET Holders /\ Loaded({}, {}, r, i, j)
    BY DEF Loaded
  <2> QED BY <2>1, <1>1
<1> QED BY <1>1, <1>2 DEF Brings

(* What is known of B after several stores, of what is known before them. *)
Written(m, row, col, i, j) == {<<row[x], col[x], i[x], j[x]>> : x \in 1 .. m}
Kept(F, m, row, col)       == {f \in F : \A x \in 1 .. m : f[1] # row[x] \/ f[2] # col[x]}

(* Stores to different places, of what registers hold. *)
Stores(M, N, m, s, row, col, r, i, j, R) ==
  /\ m \in Nat /\ s = [x \in 1 .. m |-> s[x]]
  /\ row \in [1 .. m -> 0 .. (M - 1)] /\ col \in [1 .. m -> 0 .. (N - 1)] /\ r \in [1 .. m -> 0 .. 9]
  /\ \A x \in 1 .. m : s[x] = Store(row[x], col[x], r[x])
  /\ \A p, q \in 1 .. m : row[p] = row[q] /\ col[p] = col[q] => p = q
  /\ i \in [1 .. m -> Int] /\ j \in [1 .. m -> Int]
  /\ \A x \in 1 .. m : <<r[x], i[x], j[x]>> \in R

(* Several of them, one after the other. *)
LEMMA StoresTriple ==
  ASSUME NEW M \in Nat \ {0}, NEW N \in Nat \ {0}, NEW m, NEW s, NEW row, NEW col, NEW r, NEW i, NEW j, NEW R,
         Stores(M, N, m, s, row, col, r, i, j, R), NEW F \in SUBSET Places(M, N), NEW y
  PROVE  Triple(M, N, s, Known(M, N, F, R, y), Known(M, N, Kept(F, m, row, col) \cup Written(m, row, col, i, j), R, y))
<1> USE DEF Stores
<1> DEFINE FF(n) == Kept(F, n, row, col) \cup Written(n, row, col, i, j)
           I     == [n \in 0 .. m |-> Known(M, N, FF(n), R, y)]
<1>1. ASSUME NEW n \in 0 .. m PROVE FF(n) \in SUBSET Places(M, N)
  <2>1. Kept(F, n, row, col) \subseteq Places(M, N)
    BY DEF Kept
  <2>2. \A x \in 1 .. n : <<row[x], col[x], i[x], j[x]>> \in Places(M, N)
    BY DEF Places
  <2> QED BY <2>1, <2>2 DEF Written
<1>2. ASSUME NEW n \in 1 .. m PROVE Stored(FF(n - 1), FF(n), row[n], col[n], i[n], j[n])
  <2> SUFFICES ASSUME NEW f \in FF(n), f # <<row[n], col[n], i[n], j[n]>>
               PROVE  f \in FF(n - 1) /\ (f[1] # row[n] \/ f[2] # col[n])
    BY DEF Stored
  <2>1. CASE f \in Kept(F, n, row, col)
    <3>1. f \in F /\ \A x \in 1 .. n : f[1] # row[x] \/ f[2] # col[x]
      BY <2>1 DEF Kept
    <3>2. f \in Kept(F, n - 1, row, col)
      BY <3>1 DEF Kept
    <3>3. n \in 1 .. n
      OBVIOUS
    <3> QED BY <3>1, <3>2, <3>3, Zenon
  <2>2. CASE f \in Written(n, row, col, i, j)
    <3>1. PICK x \in 1 .. n : f = <<row[x], col[x], i[x], j[x]>>
      BY <2>2 DEF Written
    <3>a. x # n
      BY <3>1
    <3>2. x # n /\ x \in 1 .. (n - 1) /\ x \in 1 .. m
      BY <3>a
    <3>3. f \in Written(n - 1, row, col, i, j)
      BY <3>1, <3>2 DEF Written
    <3>4. f[1] = row[x] /\ f[2] = col[x]
      BY <3>1
    <3>5. row[x] # row[n] \/ col[x] # col[n]
      BY <3>2
    <3> QED BY <3>3, <3>4, <3>5, Zenon
  <2> QED BY <2>1, <2>2
<1>3. F = FF(0)
  BY DEF Kept, Written
<1> HIDE DEF FF
<1>a. ASSUME NEW n \in 1 .. m
      PROVE  /\ Store(row[n], col[n], r[n]) \in AccessIn(M, N)
             /\ \A z \in Known(M, N, FF(n - 1), R, y) : Exec(M, N, Store(row[n], col[n], r[n]), z) \in Known(M, N, FF(n), R, y)
  <2>1. Stored(FF(n - 1), FF(n), row[n], col[n], i[n], j[n]) /\ FF(n) \in SUBSET Places(M, N)
    BY <1>1, <1>2
  <2>2. row[n] \in 0 .. (M - 1) /\ col[n] \in 0 .. (N - 1) /\ r[n] \in 0 .. 9 /\ i[n] \in Int /\ j[n] \in Int
          /\ <<r[n], i[n], j[n]>> \in R
    OBVIOUS
  <2> QED BY <2>1, <2>2, StoreB
<1>4. ASSUME NEW n \in 1 .. m, NEW z \in I[n - 1] PROVE Exec(M, N, s[n], z) \in I[n]
  <2>1. n - 1 \in 0 .. m /\ n \in 0 .. m
    OBVIOUS
  <2>2. I[n - 1] = Known(M, N, FF(n - 1), R, y) /\ I[n] = Known(M, N, FF(n), R, y)
    BY <2>1
  <2> HIDE DEF I
  <2> QED BY <1>a, <2>2
<1>5. s \in [1 .. m -> AccessIn(M, N)]
  BY <1>a
<1>6. I[0] = Known(M, N, F, R, y) /\ I[m] = Known(M, N, FF(m), R, y)
  BY <1>3
<1> HIDE DEF I
<1>7. Triple(M, N, s, I[0], I[m])
  BY <1>4, <1>5, SeqTriple
<1> QED BY <1>6, <1>7 DEF FF

(* What the right top of a block of B holds, before row k of A, of the      *)
(* right top of the block of A.                                             *)
Scratch(N, i, j, k) ==
  {f \in Places(N, N) : j <= f[1] /\ f[1] < j + HALF /\ i + HALF <= f[2] /\ f[2] < k + HALF
                          /\ f[3] = f[2] - HALF /\ f[4] = f[1] + HALF}
Outside(F, i, j) ==
  \A f \in F : ~(j <= f[1] /\ f[1] < j + HALF /\ i + HALF <= f[2] /\ f[2] < i + BLOCK_SIZE)

(* A row of the right top. *)
RightTopRow(j, k) ==
  [x \in 1 .. HALF |-> Load("A", k, j + HALF + x - 1, x)] \o [x \in 1 .. HALF |-> Store(j + x - 1, k + HALF, x)]

(* What it does. *)
LEMMA RightTopRowTriple ==
  ASSUME NEW N \in Nat \ {0}, NEW i \in Nat, NEW j \in Nat, i + BLOCK_SIZE <= N, j + BLOCK_SIZE <= N,
         NEW F \in SUBSET Places(N, N), Outside(F, i, j), NEW y, NEW k \in i .. (i + HALF - 1)
  PROVE  Triple(N, N, RightTopRow(j, k), Known(N, N, F \cup Scratch(N, i, j, k), {}, y),
                                         Known(N, N, F \cup Scratch(N, i, j, k + 1), {}, y))
<1>0. HALF = 4 /\ BLOCK_SIZE = 8 /\ HALF \in Nat
  BY DEF HALF, BLOCK_SIZE
<1> DEFINE H   == 1 .. HALF
           r   == [x \in H |-> x]
           ai  == [x \in H |-> k]
           aj  == [x \in H |-> j + HALF + x - 1]
           row == [x \in H |-> j + x - 1]
           col == [x \in H |-> k + HALF]
           s   == [x \in H |-> Load("A", k, j + HALF + x - 1, x)]
           t   == [x \in H |-> Store(j + x - 1, k + HALF, x)]
           G   == F \cup Scratch(N, i, j, k)
           GG  == F \cup Scratch(N, i, j, k + 1)
           R   == {} \cup Held(HALF, r, ai, aj)
<1>1. /\ r \in [1 .. HALF -> 0 .. 9] /\ ai \in [1 .. HALF -> Int] /\ aj \in [1 .. HALF -> Int]
      /\ \A p, q \in 1 .. HALF : r[p] = r[q] => p = q
      /\ row \in [1 .. HALF -> 0 .. (N - 1)] /\ col \in [1 .. HALF -> 0 .. (N - 1)]
      /\ \A p, q \in 1 .. HALF : row[p] = row[q] /\ col[p] = col[q] => p = q
      /\ \A x \in H : r[x] = x /\ ai[x] = k /\ aj[x] = j + HALF + x - 1 /\ row[x] = j + x - 1 /\ col[x] = k + HALF
      /\ \A x \in H : ai[x] \in 0 .. (N - 1) /\ aj[x] \in 0 .. (N - 1)
  BY <1>0
<1>2. s = [x \in 1 .. HALF |-> s[x]] /\ t = [x \in 1 .. HALF |-> t[x]]
  OBVIOUS
<1>3. \A x \in 1 .. HALF : s[x] = Load("A", ai[x], aj[x], r[x])
  OBVIOUS
<1>a. \A x \in 1 .. HALF : t[x] = Store(row[x], col[x], r[x])
  OBVIOUS
<1>4. G \in SUBSET Places(N, N) /\ GG \in SUBSET Places(N, N)
  BY DEF Scratch
<1>5. {} \in SUBSET Holders /\ \A g \in {} : \A x \in 1 .. HALF : g[1] # r[x]
  OBVIOUS
<1>6. \A x \in 1 .. HALF : <<r[x], ai[x], aj[x]>> \in R
  BY DEF Held
<1>7. RightTopRow(j, k) = s \o t
  BY DEF RightTopRow
<1>8. GG \subseteq Kept(G, HALF, row, col) \cup Written(HALF, row, col, ai, aj)
  <2> SUFFICES ASSUME NEW f \in GG PROVE f \in Kept(G, HALF, row, col) \/ f \in Written(HALF, row, col, ai, aj)
    OBVIOUS
  <2>a. f \in Places(N, N)
    BY <1>4
  <2>0. f = <<f[1], f[2], f[3], f[4]>> /\ f[1] \in 0 .. (N - 1) /\ f[2] \in 0 .. (N - 1) /\ f[3] \in Int /\ f[4] \in Int
    BY <2>a DEF Places
  <2>1. CASE f \in F
    <3>1. ~(j <= f[1] /\ f[1] < j + HALF /\ i + HALF <= f[2] /\ f[2] < i + BLOCK_SIZE)
      BY <2>1 DEF Outside
    <3>2. \A x \in 1 .. HALF : f[1] # row[x] \/ f[2] # col[x]
      BY <1>0, <1>1, <2>0, <3>1
    <3>3. f \in G
      BY <2>1
    <3> QED BY <3>2, <3>3 DEF Kept
  <2>2. CASE f \in Scratch(N, i, j, k + 1)
    <3>1. j <= f[1] /\ f[1] < j + HALF /\ i + HALF <= f[2] /\ f[2] < k + 1 + HALF /\ f[3] = f[2] - HALF /\ f[4] = f[1] + HALF
      BY <2>2 DEF Scratch
    <3>2. CASE f[2] < k + HALF
      <4>1. f \in G
        BY <2>a, <3>1, <3>2 DEF Scratch
      <4>2. \A x \in 1 .. HALF : f[2] # col[x]
        BY <1>0, <1>1, <2>0, <3>2
      <4> QED BY <4>1, <4>2 DEF Kept
    <3>3. CASE f[2] = k + HALF
      <4>1. PICK x : x = f[1] - j + 1
        OBVIOUS
      <4>2. x \in 1 .. HALF /\ f[1] = j + x - 1 /\ f[3] = k /\ f[4] = j + HALF + x - 1
        BY <1>0, <2>0, <3>1, <3>3, <4>1
      <4>3. f = <<row[x], col[x], ai[x], aj[x]>>
        BY <1>1, <2>0, <3>3, <4>2
      <4> QED BY <4>2, <4>3 DEF Written
    <3> QED BY <1>0, <2>0, <3>1, <3>2, <3>3
  <2> QED BY <2>1, <2>2
<1> HIDE DEF H, r, ai, aj, row, col, s, t, G, GG
<1>9. ASSUME NEW x \in 1 .. HALF PROVE Brings(N, N, G, y, s[x], r[x], ai[x], aj[x])
  <2>1. ai[x] \in 0 .. (N - 1) /\ aj[x] \in 0 .. (N - 1) /\ r[x] \in 0 .. 9
    BY <1>1 DEF H
  <2> QED BY <1>3, <2>1, BringsA
<1>10. Triple(N, N, s, Known(N, N, G, {}, y), Known(N, N, G, R, y))
  <2>1. Loads(N, N, G, y, HALF, s, r, ai, aj, {})
    BY <1>0, <1>1, <1>2, <1>5, <1>9, Zenon DEF Loads
  <2> QED BY <2>1, LoadsTriple
<1> HIDE DEF R
<1>b. Stores(N, N, HALF, t, row, col, r, ai, aj, R)
  BY <1>0, <1>1, <1>2, <1>a, <1>6, Zenon DEF Stores
<1>11. Triple(N, N, t, Known(N, N, G, R, y), Known(N, N, Kept(G, HALF, row, col) \cup Written(HALF, row, col, ai, aj), R, y))
  BY <1>b, <1>4, StoresTriple
<1>12. Triple(N, N, s \o t, Known(N, N, G, {}, y), Known(N, N, Kept(G, HALF, row, col) \cup Written(HALF, row, col, ai, aj), R, y))
  BY <1>10, <1>11, ConcatTriple
<1>13. Known(N, N, Kept(G, HALF, row, col) \cup Written(HALF, row, col, ai, aj), R, y) \subseteq Known(N, N, GG, {}, y)
  <2>1. GG \in SUBSET (Kept(G, HALF, row, col) \cup Written(HALF, row, col, ai, aj)) /\ {} \in SUBSET R /\ y \in {"any", y}
    BY <1>8
  <2> QED BY <2>1, KnownLess, Zenon
<1>14. Triple(N, N, s \o t, Known(N, N, G, {}, y), Known(N, N, GG, {}, y))
  BY <1>12, <1>13 DEF Triple
<1> QED BY <1>7, <1>14 DEF G, GG

(* The right top of a block of A is kept in the right top of the one of B. *)
LEMMA RightTopTriple ==
  ASSUME NEW N \in Nat \ {0}, NEW i \in Nat, NEW j \in Nat, i + BLOCK_SIZE <= N, j + BLOCK_SIZE <= N,
         NEW F \in SUBSET Places(N, N), Outside(F, i, j), NEW y
  PROVE  Triple(N, N, RightTop(i, j), Known(N, N, F, {}, y), Known(N, N, F \cup Scratch(N, i, j, i + HALF), {}, y))
<1>0. HALF = 4 /\ BLOCK_SIZE = 8 /\ HALF \in Nat
  BY DEF HALF, BLOCK_SIZE
<1> DEFINE K(k) == Known(N, N, F \cup Scratch(N, i, j, k), {}, y)
           m == ((i + HALF) - i + 1 - 1) \div 1
           s == [n \in 1 .. m |-> RightTopRow(j, i + (n - 1) * 1)]
           I == [n \in 0 .. m |-> K(i + n)]
<1>1. RightTop(i, j) = FlattenSeq(s)
  BY DEF RightTop, For, RightTopRow
<1>2. m = HALF /\ m \in Nat
  BY <1>0
<1> HIDE DEF m
<1>3. ASSUME NEW k \in i .. (i + HALF - 1) PROVE Triple(N, N, RightTopRow(j, k), K(k), K(k + 1))
  BY RightTopRowTriple
<1>4. K(i) = Known(N, N, F, {}, y)
  <2>1. Scratch(N, i, j, i) = {}
    BY <1>0 DEF Scratch, Places
  <2> QED BY <2>1
<1> HIDE DEF K
<1>5. ASSUME NEW n \in 1 .. m PROVE Triple(N, N, s[n], I[n - 1], I[n])
  <2>1. PICK k : k = i + (n - 1) * 1
    OBVIOUS
  <2>2. k \in i .. (i + HALF - 1) /\ n - 1 \in 0 .. m /\ n \in 0 .. m /\ i + (n - 1) = k /\ i + n = k + 1
    BY <1>2, <2>1
  <2>3. s[n] = RightTopRow(j, k) /\ I[n - 1] = K(k) /\ I[n] = K(k + 1)
    BY <2>1, <2>2
  <2> HIDE DEF s, I
  <2> QED BY <1>3, <2>2, <2>3
<1>6. s = [n \in 1 .. m |-> s[n]]
  OBVIOUS
<1>7. I[0] = K(i) /\ I[m] = K(i + HALF)
  <2>1. 0 \in 0 .. m /\ m \in 0 .. m /\ i + 0 = i /\ i + m = i + HALF
    BY <1>2
  <2> QED BY <2>1
<1> HIDE DEF s, I
<1>8. Triple(N, N, FlattenSeq(s), I[0], I[m])
  BY <1>2, <1>5, <1>6, LoopTriple
<1> QED BY <1>1, <1>4, <1>7, <1>8 DEF K

(* What of the block is in its place before column l: of the left bottom of *)
(* A, and of the right top, which waits in B until then.                    *)
MovedCells(N, i, j, l) ==
  Box(N, i + HALF, i + BLOCK_SIZE, j, l) \cup Box(N, i, i + HALF, j + HALF, l + HALF)
Waiting(N, i, j, l) == {f \in Scratch(N, i, j, i + HALF) : l <= f[1]}
Apart(F, i, j) ==
  \A f \in F : /\ ~(j <= f[1] /\ f[1] < j + HALF /\ i + HALF <= f[2] /\ f[2] < i + BLOCK_SIZE)
               /\ ~(j + HALF <= f[1] /\ f[1] < j + BLOCK_SIZE /\ i <= f[2] /\ f[2] < i + HALF)

(* A column of the left bottom. *)
LeftBottomColumn(i, l) ==
  [x \in 1 .. HALF |-> Load("B", l, i + HALF + x - 1, x)]
    \o [x \in 1 .. HALF |-> Load("A", i + HALF + x - 1, l, HALF + x)]
    \o [x \in 1 .. HALF |-> Store(l, i + HALF + x - 1, HALF + x)]
    \o [x \in 1 .. HALF |-> Store(l + HALF, i + x - 1, x)]

(* What it does. *)
LEMMA LeftBottomColumnTriple ==
  ASSUME NEW N \in Nat \ {0}, NEW i \in Nat, NEW j \in Nat, i + BLOCK_SIZE <= N, j + BLOCK_SIZE <= N,
         NEW F \in SUBSET Places(N, N), Apart(F, i, j), NEW y, NEW l \in j .. (j + HALF - 1)
  PROVE  Triple(N, N, LeftBottomColumn(i, l),
                Known(N, N, F \cup Waiting(N, i, j, l) \cup Done(MovedCells(N, i, j, l)), {}, y),
                Known(N, N, F \cup Waiting(N, i, j, l + 1) \cup Done(MovedCells(N, i, j, l + 1)), {}, y))
<1>0. HALF = 4 /\ BLOCK_SIZE = 8 /\ HALF \in Nat
  BY DEF HALF, BLOCK_SIZE
<1> DEFINE H   == 1 .. HALF
           \* the registers, the elements of A and the places of the two halves
           r1  == [x \in H |-> x]
           i1  == [x \in H |-> i + x - 1]
           j1  == [x \in H |-> l + HALF]
           r2  == [x \in H |-> HALF + x]
           i2  == [x \in H |-> i + HALF + x - 1]
           j2  == [x \in H |-> l]
           s1  == [x \in H |-> Load("B", l, i + HALF + x - 1, x)]
           s2  == [x \in H |-> Load("A", i + HALF + x - 1, l, HALF + x)]
           s3  == [x \in H |-> Store(l, i + HALF + x - 1, HALF + x)]
           s4  == [x \in H |-> Store(l + HALF, i + x - 1, x)]
           G   == F \cup Waiting(N, i, j, l) \cup Done(MovedCells(N, i, j, l))
           GG  == F \cup Waiting(N, i, j, l + 1) \cup Done(MovedCells(N, i, j, l + 1))
           R1  == {} \cup Held(HALF, r1, i1, j1)
           R2  == R1 \cup Held(HALF, r2, i2, j2)
           G1  == Kept(G, HALF, j2, i2) \cup Written(HALF, j2, i2, i2, j2)
           G2  == Kept(G1, HALF, j1, i1) \cup Written(HALF, j1, i1, i1, j1)
<1>1. /\ r1 \in [1 .. HALF -> 0 .. 9] /\ r2 \in [1 .. HALF -> 0 .. 9]
      /\ \A p, q \in 1 .. HALF : r1[p] = r1[q] => p = q
      /\ \A p, q \in 1 .. HALF : r2[p] = r2[q] => p = q
      /\ \A p, q \in 1 .. HALF : r1[p] # r2[q]
  BY <1>0
<1>2. /\ i1 \in [1 .. HALF -> 0 .. (N - 1)] /\ j1 \in [1 .. HALF -> 0 .. (N - 1)]
      /\ i2 \in [1 .. HALF -> 0 .. (N - 1)] /\ j2 \in [1 .. HALF -> 0 .. (N - 1)]
  BY <1>0
<1>3. /\ i1 \in [1 .. HALF -> Int] /\ j1 \in [1 .. HALF -> Int]
      /\ i2 \in [1 .. HALF -> Int] /\ j2 \in [1 .. HALF -> Int]
  BY <1>0
<1>4. /\ \A p, q \in 1 .. HALF : j1[p] = j1[q] /\ i1[p] = i1[q] => p = q
      /\ \A p, q \in 1 .. HALF : j2[p] = j2[q] /\ i2[p] = i2[q] => p = q
  BY <1>0
<1>5. \A x \in 1 .. HALF : /\ r1[x] = x /\ i1[x] = i + x - 1 /\ j1[x] = l + HALF
                           /\ r2[x] = HALF + x /\ i2[x] = i + HALF + x - 1 /\ j2[x] = l
  OBVIOUS
<1>6. /\ s1 = [x \in 1 .. HALF |-> s1[x]] /\ s2 = [x \in 1 .. HALF |-> s2[x]]
      /\ s3 = [x \in 1 .. HALF |-> s3[x]] /\ s4 = [x \in 1 .. HALF |-> s4[x]]
  OBVIOUS
<1>7. \A x \in 1 .. HALF : /\ s1[x] = Load("B", j2[x], i2[x], r1[x])
                           /\ s2[x] = Load("A", i2[x], j2[x], r2[x])
  OBVIOUS
<1>8. \A x \in 1 .. HALF : s3[x] = Store(j2[x], i2[x], r2[x])
  OBVIOUS
<1>9. \A x \in 1 .. HALF : s4[x] = Store(j1[x], i1[x], r1[x])
  OBVIOUS
<1>10. LeftBottomColumn(i, l) = ((s1 \o s2) \o s3) \o s4
  BY DEF LeftBottomColumn
<1>11. /\ R1 = Held(HALF, r1, i1, j1) /\ \A x \in 1 .. HALF : <<r1[x], i1[x], j1[x]>> \in R1
       /\ R1 \subseteq R2 /\ \A x \in 1 .. HALF : <<r2[x], i2[x], j2[x]>> \in R2
  BY DEF Held
<1> HIDE DEF r1, i1, j1, r2, i2, j2
<1>12. /\ R1 \in SUBSET Holders /\ \A g \in R1 : \A x \in 1 .. HALF : g[1] # r2[x]
       /\ {} \in SUBSET Holders /\ \A g \in {} : \A x \in 1 .. HALF : g[1] # r1[x]
  <2> HIDE DEF R1
  <2> SUFFICES ASSUME NEW g \in R1 PROVE g \in Holders /\ \A x \in 1 .. HALF : g[1] # r2[x]
    OBVIOUS
  <2>1. PICK x \in 1 .. HALF : g = <<r1[x], i1[x], j1[x]>>
    BY <1>11 DEF Held
  <2>2. r1[x] \in 0 .. 9 /\ i1[x] \in Int /\ j1[x] \in Int /\ g[1] = r1[x]
    BY <1>1, <1>3, <2>1
  <2> QED BY <1>1, <2>1, <2>2 DEF Holders
<1>13. MovedCells(N, i, j, l) \in SUBSET Cells(N, N) /\ MovedCells(N, i, j, l + 1) \in SUBSET Cells(N, N)
  BY DEF MovedCells, Box
<1>14. G \in SUBSET Places(N, N) /\ GG \in SUBSET Places(N, N)
  <2>1. Done(MovedCells(N, i, j, l)) \in SUBSET Places(N, N) /\ Done(MovedCells(N, i, j, l + 1)) \in SUBSET Places(N, N)
    BY <1>13, DoneOK
  <2> QED BY <2>1 DEF Waiting, Scratch
<1>15. G1 \in SUBSET Places(N, N)
  <2>1. Kept(G, HALF, j2, i2) \subseteq Places(N, N)
    BY <1>14 DEF Kept
  <2>2. \A x \in 1 .. HALF : <<j2[x], i2[x], i2[x], j2[x]>> \in Places(N, N)
    BY <1>2, <1>3 DEF Places
  <2> QED BY <2>1, <2>2 DEF Written
<1>16. \A x \in 1 .. HALF : <<j2[x], i2[x], i1[x], j1[x]>> \in G
  <2> SUFFICES ASSUME NEW x \in 1 .. HALF PROVE <<j2[x], i2[x], i1[x], j1[x]>> \in Waiting(N, i, j, l)
    OBVIOUS
  <2>1. PICK f : f = <<j2[x], i2[x], i1[x], j1[x]>>
    OBVIOUS
  <2>2. f[1] = l /\ f[2] = i + HALF + x - 1 /\ f[3] = i + x - 1 /\ f[4] = l + HALF
    BY <1>5, <2>1
  <2>3. f \in Places(N, N)
    BY <1>2, <1>3, <2>1 DEF Places
  <2>4. j <= f[1] /\ f[1] < j + HALF /\ i + HALF <= f[2] /\ f[2] < i + HALF + HALF
          /\ f[3] = f[2] - HALF /\ f[4] = f[1] + HALF /\ l <= f[1]
    BY <1>0, <2>2
  <2>5. f \in Scratch(N, i, j, i + HALF)
    BY <2>3, <2>4 DEF Scratch
  <2> QED BY <2>1, <2>4, <2>5 DEF Waiting
<1> HIDE DEF H, s1, s2, s3, s4, G, GG, R1
<1>17. ASSUME NEW x \in 1 .. HALF
       PROVE  Brings(N, N, G, y, s1[x], r1[x], i1[x], j1[x]) /\ Brings(N, N, G, y, s2[x], r2[x], i2[x], j2[x])
  <2>1. i1[x] \in Int /\ j1[x] \in Int /\ r1[x] \in 0 .. 9 /\ r2[x] \in 0 .. 9
    BY <1>1, <1>3
  <2>2. i2[x] \in 0 .. (N - 1) /\ j2[x] \in 0 .. (N - 1)
    BY <1>2
  <2>3. Brings(N, N, G, y, Load("B", j2[x], i2[x], r1[x]), r1[x], i1[x], j1[x])
    BY <1>16, <2>1, <2>2, BringsB
  <2>4. Brings(N, N, G, y, Load("A", i2[x], j2[x], r2[x]), r2[x], i2[x], j2[x])
    BY <2>1, <2>2, BringsA
  <2> QED BY <1>7, <2>3, <2>4
<1>18. Triple(N, N, s1, Known(N, N, G, {}, y), Known(N, N, G, R1, y))
  <2>1. Triple(N, N, s1, Known(N, N, G, {}, y), Known(N, N, G, {} \cup Held(HALF, r1, i1, j1), y))
    <3>1. Loads(N, N, G, y, HALF, s1, r1, i1, j1, {})
      BY <1>0, <1>1, <1>3, <1>6, <1>12, <1>17, Zenon DEF Loads
    <3> QED BY <3>1, LoadsTriple
  <2> QED BY <2>1 DEF R1
<1>19. Triple(N, N, s2, Known(N, N, G, R1, y), Known(N, N, G, R2, y))
  <2>1. Loads(N, N, G, y, HALF, s2, r2, i2, j2, R1)
    BY <1>0, <1>1, <1>3, <1>6, <1>12, <1>17, Zenon DEF Loads
  <2> QED BY <2>1, LoadsTriple
<1> HIDE DEF R2
<1>20. Stores(N, N, HALF, s3, j2, i2, r2, i2, j2, R2)
  BY <1>0, <1>1, <1>2, <1>3, <1>4, <1>6, <1>8, <1>11, Zenon DEF Stores
<1>21. Stores(N, N, HALF, s4, j1, i1, r1, i1, j1, R2)
  <2>1. \A x \in 1 .. HALF : <<r1[x], i1[x], j1[x]>> \in R2
    BY <1>11
  <2> QED BY <1>0, <1>1, <1>2, <1>3, <1>4, <1>6, <1>9, <2>1, Zenon DEF Stores
<1>22. Triple(N, N, s3, Known(N, N, G, R2, y), Known(N, N, G1, R2, y))
  BY <1>14, <1>20, StoresTriple
<1>23. Triple(N, N, s4, Known(N, N, G1, R2, y), Known(N, N, G2, R2, y))
  <2> HIDE DEF G1
  <2> QED BY <1>15, <1>21, StoresTriple
<1>24. GG \subseteq G2
  <2> SUFFICES ASSUME NEW f \in GG PROVE f \in G2
    OBVIOUS
  <2>0. f \in Places(N, N) /\ f = <<f[1], f[2], f[3], f[4]>> /\ f[1] \in 0 .. (N - 1) /\ f[2] \in 0 .. (N - 1) /\ f[3] \in Int /\ f[4] \in Int
    BY <1>14 DEF Places
  <2>1. ASSUME f \in G, f[1] # l, f[1] # l + HALF \/ f[2] < i \/ i + HALF <= f[2] PROVE f \in G2
    <3>1. \A x \in 1 .. HALF : f[1] # j2[x]
      BY <1>5, <2>1
    <3>2. \A x \in 1 .. HALF : f[1] # j1[x] \/ f[2] # i1[x]
      BY <1>0, <1>5, <2>0, <2>1
    <3>3. f \in G1
      BY <2>1, <3>1 DEF Kept
    <3> QED BY <3>2, <3>3 DEF Kept
  <2>a. ASSUME f \in G, f[1] = l, f[2] < i + HALF \/ i + BLOCK_SIZE <= f[2] PROVE f \in G2
    <3>1. \A x \in 1 .. HALF : f[2] # i2[x]
      BY <1>0, <1>5, <2>0, <2>a
    <3>2. \A x \in 1 .. HALF : f[1] # j1[x]
      BY <1>0, <1>5, <2>0, <2>a
    <3>3. f \in G1
      BY <2>a, <3>1 DEF Kept
    <3> QED BY <3>2, <3>3 DEF Kept
  <2>2. CASE f \in F
    <3>1. f \in G
      BY <2>2 DEF G
    <3>2. /\ ~(j <= f[1] /\ f[1] < j + HALF /\ i + HALF <= f[2] /\ f[2] < i + BLOCK_SIZE)
          /\ ~(j + HALF <= f[1] /\ f[1] < j + BLOCK_SIZE /\ i <= f[2] /\ f[2] < i + HALF)
      BY <2>2 DEF Apart
    <3>3. f[1] = l => f[2] < i + HALF \/ i + BLOCK_SIZE <= f[2]
      BY <1>0, <2>0, <3>2
    <3>4. f[1] = l + HALF => f[2] < i \/ i + HALF <= f[2]
      BY <1>0, <2>0, <3>2
    <3> QED BY <2>1, <2>a, <3>1, <3>3, <3>4
  <2>3. CASE f \in Waiting(N, i, j, l + 1)
    <3>1. f \in Scratch(N, i, j, i + HALF) /\ l + 1 <= f[1] /\ j <= f[1] /\ f[1] < j + HALF
      BY <2>3 DEF Waiting, Scratch
    <3>2. l <= f[1] /\ f[1] # l /\ f[1] # l + HALF
      BY <1>0, <2>0, <3>1
    <3>3. f \in G
      BY <3>1, <3>2 DEF Waiting, G
    <3> QED BY <2>1, <3>2, <3>3
  <2>4. CASE f \in Done(MovedCells(N, i, j, l + 1))
    <3>1. PICK c \in MovedCells(N, i, j, l + 1) : f = <<c[2], c[1], c[1], c[2]>>
      BY <2>4 DEF Done
    <3>2. c \in Cells(N, N) /\ c = <<c[1], c[2]>> /\ c[1] \in 0 .. (N - 1) /\ c[2] \in 0 .. (N - 1)
            /\ f[1] = c[2] /\ f[2] = c[1]
      BY <1>13, <3>1 DEF Cells
    <3>3. CASE c \in MovedCells(N, i, j, l)
      <4>1. f \in G
        BY <3>1, <3>3 DEF G, Done
      <4>2. \/ i + HALF <= c[1] /\ c[1] < i + BLOCK_SIZE /\ j <= c[2] /\ c[2] < l
            \/ i <= c[1] /\ c[1] < i + HALF /\ j + HALF <= c[2] /\ c[2] < l + HALF
        BY <3>3 DEF MovedCells, Box
      <4>3. f[1] # l /\ f[1] # l + HALF
        BY <1>0, <3>2, <4>2
      <4> QED BY <2>1, <4>1, <4>3
    <3>4. CASE c \notin MovedCells(N, i, j, l)
      <4>1. \/ i + HALF <= c[1] /\ c[1] < i + BLOCK_SIZE /\ j <= c[2] /\ c[2] < l + 1
            \/ i <= c[1] /\ c[1] < i + HALF /\ j + HALF <= c[2] /\ c[2] < l + 1 + HALF
        BY <3>1 DEF MovedCells, Box
      <4>2. /\ ~(i + HALF <= c[1] /\ c[1] < i + BLOCK_SIZE /\ j <= c[2] /\ c[2] < l)
            /\ ~(i <= c[1] /\ c[1] < i + HALF /\ j + HALF <= c[2] /\ c[2] < l + HALF)
        BY <3>2, <3>4 DEF MovedCells, Box
      <4>3. CASE i + HALF <= c[1] /\ c[1] < i + BLOCK_SIZE /\ c[2] = l
        <5>1. PICK x : x = c[1] - (i + HALF) + 1
          OBVIOUS
        <5>2. x \in 1 .. HALF /\ c[1] = i + HALF + x - 1
          BY <1>0, <3>2, <4>3, <5>1
        <5>3. f = <<j2[x], i2[x], i2[x], j2[x]>>
          BY <1>5, <3>1, <4>3, <5>2
        <5>4. f \in G1
          BY <5>2, <5>3 DEF Written
        <5>5. \A p \in 1 .. HALF : f[1] # j1[p]
          BY <1>0, <1>5, <3>2, <4>3
        <5> QED BY <5>4, <5>5 DEF Kept
      <4>4. CASE i <= c[1] /\ c[1] < i + HALF /\ c[2] = l + HALF
        <5>1. PICK x : x = c[1] - i + 1
          OBVIOUS
        <5>2. x \in 1 .. HALF /\ c[1] = i + x - 1
          BY <1>0, <3>2, <4>4, <5>1
        <5>3. f = <<j1[x], i1[x], i1[x], j1[x]>>
          BY <1>5, <3>1, <4>4, <5>2
        <5> QED BY <5>2, <5>3 DEF Written
      <4>5. \/ i + HALF <= c[1] /\ c[1] < i + BLOCK_SIZE /\ c[2] = l
            \/ i <= c[1] /\ c[1] < i + HALF /\ c[2] = l + HALF
        BY <1>0, <3>2, <4>1, <4>2
      <4> QED BY <4>3, <4>4, <4>5
    <3> QED BY <3>3, <3>4
  <2> QED BY <2>2, <2>3, <2>4 DEF GG
<1> HIDE DEF G1, G2
<1>25. Triple(N, N, s1 \o s2, Known(N, N, G, {}, y), Known(N, N, G, R2, y))
  BY <1>18, <1>19, ConcatTriple
<1>26. Triple(N, N, (s1 \o s2) \o s3, Known(N, N, G, {}, y), Known(N, N, G1, R2, y))
  BY <1>22, <1>25, ConcatTriple
<1>27. Triple(N, N, ((s1 \o s2) \o s3) \o s4, Known(N, N, G, {}, y), Known(N, N, G2, R2, y))
  BY <1>23, <1>26, ConcatTriple
<1>28. Known(N, N, G2, R2, y) \subseteq Known(N, N, GG, {}, y)
  <2>1. GG \in SUBSET G2 /\ {} \in SUBSET R2 /\ y \in {"any", y}
    BY <1>24
  <2> QED BY <2>1, KnownLess, Zenon
<1>29. Triple(N, N, LeftBottomColumn(i, l), Known(N, N, G, {}, y), Known(N, N, GG, {}, y))
  BY <1>10, <1>27, <1>28 DEF Triple
<1> QED BY <1>29 DEF G, GG

(* The left bottom of a block, and what waits for it, get into their places. *)
LEMMA LeftBottomTriple ==
  ASSUME NEW N \in Nat \ {0}, NEW i \in Nat, NEW j \in Nat, i + BLOCK_SIZE <= N, j + BLOCK_SIZE <= N,
         NEW F \in SUBSET Places(N, N), Apart(F, i, j), NEW y
  PROVE  Triple(N, N, LeftBottom(i, j), Known(N, N, F \cup Scratch(N, i, j, i + HALF), {}, y),
                Known(N, N, F \cup Done(MovedCells(N, i, j, j + HALF)), {}, y))
<1>0. HALF = 4 /\ BLOCK_SIZE = 8 /\ HALF \in Nat
  BY DEF HALF, BLOCK_SIZE
<1> DEFINE K(l) == Known(N, N, F \cup Waiting(N, i, j, l) \cup Done(MovedCells(N, i, j, l)), {}, y)
           m == ((j + HALF) - j + 1 - 1) \div 1
           s == [n \in 1 .. m |-> LeftBottomColumn(i, j + (n - 1) * 1)]
           I == [n \in 0 .. m |-> K(j + n)]
<1>1. LeftBottom(i, j) = FlattenSeq(s)
  BY DEF LeftBottom, For, LeftBottomColumn
<1>2. m = HALF /\ m \in Nat
  BY <1>0
<1> HIDE DEF m
<1>3. ASSUME NEW l \in j .. (j + HALF - 1) PROVE Triple(N, N, LeftBottomColumn(i, l), K(l), K(l + 1))
  BY LeftBottomColumnTriple
<1>4. K(j) = Known(N, N, F \cup Scratch(N, i, j, i + HALF), {}, y)
  <2>1. Waiting(N, i, j, j) = Scratch(N, i, j, i + HALF)
    BY DEF Waiting, Scratch
  <2>2. MovedCells(N, i, j, j) = {}
    BY <1>0 DEF MovedCells, Box, Cells
  <2>3. Done(MovedCells(N, i, j, j)) = {}
    BY <2>2 DEF Done
  <2> QED BY <2>1, <2>3
<1>a. K(j + HALF) = Known(N, N, F \cup Done(MovedCells(N, i, j, j + HALF)), {}, y)
  <2>1. \A f \in Scratch(N, i, j, i + HALF) : f[1] \in Int /\ f[1] < j + HALF
    BY DEF Scratch, Places
  <2>2. Waiting(N, i, j, j + HALF) = {}
    BY <1>0, <2>1 DEF Waiting
  <2> QED BY <2>2
<1> HIDE DEF K
<1>5. ASSUME NEW n \in 1 .. m PROVE Triple(N, N, s[n], I[n - 1], I[n])
  <2>1. PICK l : l = j + (n - 1) * 1
    OBVIOUS
  <2>2. l \in j .. (j + HALF - 1) /\ n - 1 \in 0 .. m /\ n \in 0 .. m /\ j + (n - 1) = l /\ j + n = l + 1
    BY <1>2, <2>1
  <2>3. s[n] = LeftBottomColumn(i, l) /\ I[n - 1] = K(l) /\ I[n] = K(l + 1)
    BY <2>1, <2>2
  <2> HIDE DEF s, I
  <2> QED BY <1>3, <2>2, <2>3
<1>6. s = [n \in 1 .. m |-> s[n]]
  OBVIOUS
<1>7. I[0] = K(j) /\ I[m] = K(j + HALF)
  <2>1. 0 \in 0 .. m /\ m \in 0 .. m /\ j + 0 = j /\ j + m = j + HALF
    BY <1>2
  <2> QED BY <2>1
<1> HIDE DEF s, I
<1>8. Triple(N, N, FlattenSeq(s), I[0], I[m])
  BY <1>2, <1>5, <1>6, LoopTriple
<1> QED BY <1>1, <1>4, <1>7, <1>8, <1>a

(* A block of trans_64_64. *)
Block64(i, j) ==
  Rows(i, i + HALF, j, j + HALF) \o RightTop(i, j) \o LeftBottom(i, j)
    \o Rows(i + HALF, i + BLOCK_SIZE, j + HALF, j + BLOCK_SIZE)

(* It copies the block, though it uses places of it on the way. *)
LEMMA Block64Copies ==
  ASSUME NEW N \in Nat \ {0}, NEW i \in Nat, NEW j \in Nat, i + BLOCK_SIZE <= N, j + BLOCK_SIZE <= N,
         NEW x, x = "off" \/ i = j
  PROVE  Copies(N, N, Block64(i, j), BlockAt(N, i, j), x, "off")
<1>0. HALF = 4 /\ BLOCK_SIZE = 8 /\ HALF \in Nat
  BY DEF HALF, BLOCK_SIZE
<1>1. PICK i4, j4, i8, j8 : i4 = i + HALF /\ j4 = j + HALF /\ i8 = i + BLOCK_SIZE /\ j8 = j + BLOCK_SIZE
  OBVIOUS
<1>2. /\ i4 \in Nat /\ i8 \in Nat /\ j4 \in Nat /\ j8 \in Nat
      /\ i < i4 /\ i4 < i8 /\ i4 <= N /\ i8 <= N /\ j <= j4 /\ j4 <= j8 /\ j4 <= N /\ j8 <= N
      /\ (x = "off" \/ i \in j .. (j4 - 1))
  BY <1>0, <1>1
<1> DEFINE s1 == Rows(i, i4, j, j4)
           s4 == Rows(i4, i8, j4, j8)
           C1 == Box(N, i, i4, j, j4)
           C4 == Box(N, i4, i8, j4, j8)
           CM == MovedCells(N, i, j, j4)
<1>3. Copies(N, N, s1, C1, x, "off")
  BY <1>2, SquareCopies, Zenon
<1>4. Copies(N, N, s4, C4, "off", "off")
  BY <1>2, SquareCopies, Zenon
<1> SUFFICES ASSUME NEW D \in SUBSET Cells(N, N)
             PROVE  Triple(N, N, Block64(i, j), Known(N, N, Done(D), {}, x), Known(N, N, Done(D \cup BlockAt(N, i, j)), {}, "off"))
  BY DEF Copies
<1> DEFINE D1 == (D \ BlockAt(N, i, j)) \cup C1
           F  == Done(D1)
           D2 == D1 \cup CM
           P  == Known(N, N, Done(D), {}, x)
           Q1 == Known(N, N, F, {}, "off")
           Q2 == Known(N, N, F \cup Scratch(N, i, j, i + HALF), {}, "off")
           Q3 == Known(N, N, F \cup Done(CM), {}, "off")
           Q4 == Known(N, N, Done(D2 \cup C4), {}, "off")
           Q  == Known(N, N, Done(D \cup BlockAt(N, i, j)), {}, "off")
<1>5. Block64(i, j) = ((s1 \o RightTop(i, j)) \o LeftBottom(i, j)) \o s4
  BY <1>1 DEF Block64
<1>6. D1 \in SUBSET Cells(N, N) /\ D2 \in SUBSET Cells(N, N)
  BY DEF Box, MovedCells
<1>7. Triple(N, N, s1, P, Q1)
  <2>1. Triple(N, N, s1, Known(N, N, Done(D), {}, x), Known(N, N, Done(D \cup C1), {}, "off"))
    BY <1>3 DEF Copies
  <2>2. D1 \subseteq D \cup C1
    OBVIOUS
  <2> HIDE DEF D1, C1, s1
  <2>3. Done(D1) \in SUBSET Done(D \cup C1) /\ {} \in SUBSET {} /\ "off" \in {"any", "off"}
    BY <2>2, DoneMore
  <2>4. Known(N, N, Done(D \cup C1), {}, "off") \subseteq Known(N, N, Done(D1), {}, "off")
    BY <2>3, KnownLess, Zenon
  <2> QED BY <2>1, <2>4 DEF Triple
<1>8. F \in SUBSET Places(N, N)
  BY <1>6, DoneOK
<1>9. Apart(F, i, j) /\ Outside(F, i, j)
  <2> SUFFICES ASSUME NEW f \in F
               PROVE  /\ ~(j <= f[1] /\ f[1] < j + HALF /\ i + HALF <= f[2] /\ f[2] < i + BLOCK_SIZE)
                      /\ ~(j + HALF <= f[1] /\ f[1] < j + BLOCK_SIZE /\ i <= f[2] /\ f[2] < i + HALF)
    BY DEF Apart, Outside
  <2>1. PICK c \in D1 : f = <<c[2], c[1], c[1], c[2]>>
    BY DEF Done
  <2>2. f[1] = c[2] /\ f[2] = c[1] /\ c[1] \in Int /\ c[2] \in Int
    BY <1>6, <2>1 DEF Cells
  <2>3. CASE c \in C1
    <3>1. i <= c[1] /\ c[1] < i4 /\ j <= c[2] /\ c[2] < j4
      BY <2>3 DEF Box
    <3> QED BY <1>0, <1>1, <2>2, <3>1
  <2>4. CASE c \in D \ BlockAt(N, i, j)
    <3>1. ~(i <= c[1] /\ c[1] < i + BLOCK_SIZE /\ j <= c[2] /\ c[2] < j + BLOCK_SIZE)
      BY <2>4 DEF BlockAt, Box
    <3> QED BY <1>0, <2>2, <3>1
  <2> QED BY <2>3, <2>4
<1> HIDE DEF F
<1>10. Triple(N, N, RightTop(i, j), Q1, Q2)
  BY <1>8, <1>9, RightTopTriple, Zenon
<1>11. Triple(N, N, LeftBottom(i, j), Q2, Q3)
  <2>1. Triple(N, N, LeftBottom(i, j), Q2, Known(N, N, F \cup Done(MovedCells(N, i, j, j + HALF)), {}, "off"))
    BY <1>8, <1>9, LeftBottomTriple, Zenon
  <2> QED BY <1>1, <2>1
<1>12. Triple(N, N, s4, Q3, Q4)
  <2>1. Triple(N, N, s4, Known(N, N, Done(D2), {}, "off"), Known(N, N, Done(D2 \cup C4), {}, "off"))
    BY <1>4, <1>6 DEF Copies
  <2>2. Done(D1 \cup CM) = Done(D1) \cup Done(CM)
    <3> HIDE DEF D1, CM
    <3> QED BY DEF Done
  <2> QED BY <2>1, <2>2 DEF F
<1>13. Q4 \subseteq Q
  <2>1. D \cup BlockAt(N, i, j) \subseteq D2 \cup C4
    <3> SUFFICES ASSUME NEW c \in BlockAt(N, i, j) PROVE c \in C1 \/ c \in CM \/ c \in C4
      OBVIOUS
    <3>1. c \in Cells(N, N) /\ i <= c[1] /\ c[1] < i8 /\ j <= c[2] /\ c[2] < j8 /\ c[1] \in Int /\ c[2] \in Int
      BY <1>1 DEF BlockAt, Box, Cells
    <3>2. CASE c[1] < i4 /\ c[2] < j4
      BY <3>1, <3>2 DEF Box
    <3>3. CASE c[1] >= i4 /\ c[2] >= j4
      BY <3>1, <3>3 DEF Box
    <3>4. CASE c[1] >= i4 /\ c[2] < j4
      BY <1>1, <3>1, <3>4 DEF Box, MovedCells
    <3>5. CASE c[1] < i4 /\ c[2] >= j4
      <4>1. c[2] < j4 + HALF
        BY <1>0, <1>1, <3>1
      <4> QED BY <1>1, <3>1, <3>5, <4>1 DEF Box, MovedCells
    <3> QED BY <1>2, <3>1, <3>2, <3>3, <3>4, <3>5
  <2> HIDE DEF D2, C4
  <2>2. PICK U, V : U = Done(D \cup BlockAt(N, i, j)) /\ V = Done(D2 \cup C4)
    OBVIOUS
  <2>3. U \in SUBSET V /\ {} \in SUBSET {} /\ "off" \in {"any", "off"}
    BY <2>1, <2>2, DoneMore
  <2>4. Known(N, N, V, {}, "off") \subseteq Known(N, N, U, {}, "off")
    BY <2>3, KnownLess, Zenon
  <2> QED BY <2>2, <2>4
<1> HIDE DEF s1, s4, P, Q1, Q2, Q3, Q4, Q
<1>14. Triple(N, N, s1 \o RightTop(i, j), P, Q2)
  BY <1>7, <1>10, ConcatTriple
<1>15. Triple(N, N, (s1 \o RightTop(i, j)) \o LeftBottom(i, j), P, Q3)
  BY <1>11, <1>14, ConcatTriple
<1>16. Triple(N, N, ((s1 \o RightTop(i, j)) \o LeftBottom(i, j)) \o s4, P, Q4)
  BY <1>12, <1>15, ConcatTriple
<1>17. Triple(N, N, Block64(i, j), P, Q)
  BY <1>5, <1>13, <1>16 DEF Triple
<1> QED BY <1>17 DEF P, Q

(* trans_64_64 copies every cell of a square of its size. *)
LEMMA trans_64_64Copies ==
  ASSUME NEW N, N = 64
  PROVE  Copies(N, N, trans_64_64(N, N), Cells(N, N), "any", "off")
<1> DEFINE m == Blocks(N)
           t == [n \in 1 .. m |-> [q \in 1 .. m |-> Block64(Corner(n), Corner(q))]]
<1>0. N \in {32, 64} /\ N \in Nat \ {0} /\ BLOCK_SIZE = 8
  BY DEF BLOCK_SIZE
<1>1. \A n, q \in 1 .. m : t[n][q] = Block64(Corner(n), Corner(q))
  OBVIOUS
<1>2. trans_64_64(N, N) = Grid(N, t)
  <2>1. trans_64_64(N, N) = FlattenSeq([n \in 1 .. m |-> FlattenSeq([q \in 1 .. m |-> Block64(Corner(n), Corner(q))])])
    BY DEF trans_64_64, For, Rows, Blocks, Corner, Block64
  <2> HIDE DEF m, t
  <2> QED BY <1>1, <2>1 DEF Grid, m
<1>4. ASSUME NEW n \in 1 .. m, NEW q \in 1 .. m, NEW x, x = "off" \/ n = q
      PROVE  BlockCopies(N, t, n, q, x)
  <2>1. Corner(n) \in Nat /\ Corner(n) + BLOCK_SIZE <= N /\ Corner(q) \in Nat /\ Corner(q) + BLOCK_SIZE <= N
    BY <1>0, Corners
  <2>2. x = "off" \/ Corner(n) = Corner(q)
    BY <1>4
  <2> HIDE DEF t, m
  <2>3. Copies(N, N, Block64(Corner(n), Corner(q)), BlockAt(N, Corner(n), Corner(q)), x, "off")
    BY <1>0, <2>1, <2>2, Block64Copies, Zenon
  <2> QED BY <1>1, <2>3 DEF BlockCopies
<1> HIDE DEF t
<1>5. BlocksCopied(N, t)
  BY <1>4 DEF BlocksCopied
<1>6. Copies(N, N, Grid(N, t), Cells(N, N), "any", "off")
  BY <1>0, <1>5, BlocksCopy, Zenon
<1> QED BY <1>2, <1>6
-----------------------------------------------------------------------------
(* A marker does nothing to the matrices. *)
LEMMA MarkerTriple ==
  ASSUME NEW M, NEW N, NEW P, NEW n \in {0, 1}
  PROVE  Triple(M, N, <<Marker(n)>>, P, P)
<1> DEFINE a == Marker(n)
<1>1. a.id = "S" /\ a.mat = "marker" /\ a \in AccessIn(M, N)
  BY DEF Marker, AccessIn, AccessType
<1> HIDE DEF a
<1>2. \A z \in P : Exec(M, N, a, z) \in P
  BY <1>1 DEF Exec
<1>3. Triple(M, N, <<a>>, P, P)
  BY <1>1, <1>2, OneTriple
<1> QED BY <1>3 DEF a

(* What a function does between its markers. *)
Submitted(j) == IF j.F = 0 THEN transpose_submit(j.M, j.N) ELSE trans(j.M, j.N)
Start(M, N)  == Known(M, N, {}, {}, "any")
Right(M, N)  == Known(M, N, Done(Cells(M, N)), {}, "any")
Square(j)    == j.F = 0 /\ j.M \in {32, 64} => j.N = j.M

(* A function that copies every cell transposes, whatever B, the registers *)
(* and is_diagonal hold at first.                                          *)
LEMMA CopiesAll ==
  ASSUME NEW M, NEW N, NEW s, NEW y, Copies(M, N, s, Cells(M, N), "any", y)
  PROVE  Triple(M, N, s, Start(M, N), Right(M, N))
<1>1. {} \in SUBSET Cells(M, N) /\ {} \cup Cells(M, N) = Cells(M, N) /\ Done({}) = {}
  BY DEF Done
<1>2. Triple(M, N, s, Known(M, N, Done({}), {}, "any"), Known(M, N, Done({} \cup Cells(M, N)), {}, y))
  BY <1>1 DEF Copies
<1>3. PICK F : F = Done(Cells(M, N))
  OBVIOUS
<1>4. F \in SUBSET F /\ {} \in SUBSET {} /\ "any" \in {"any", y}
  OBVIOUS
<1>5. Known(M, N, F, {}, y) \subseteq Known(M, N, F, {}, "any")
  BY <1>4, KnownLess, Zenon
<1>6. Triple(M, N, s, Known(M, N, {}, {}, "any"), Known(M, N, F, {}, y))
  BY <1>1, <1>2, <1>3
<1> QED BY <1>3, <1>5, <1>6 DEF Triple, Start, Right

(* Between the markers. *)
LEMMA SubmittedOK ==
  ASSUME NEW j \in Jobs, Square(j)
  PROVE  /\ Submitted(j) \in Seq(AccessIn(j.M, j.N))
         /\ (j.F = 0 => j.M \in {32, 64, 61}) => Triple(j.M, j.N, Submitted(j), Start(j.M, j.N), Right(j.M, j.N))
<1>0. PICK M, N : M = j.M /\ N = j.N
  OBVIOUS
<1>1. M \in Nat \ {0} /\ N \in Nat \ {0} /\ j.F \in {0, 1}
  <2>1. j.M \in 1 .. 256 /\ j.N \in 1 .. 256 /\ j.F \in {0, 1}
    BY TransAssumption
  <2> QED BY <1>0, <2>1
<1>2. CASE j.F = 1
  <2>1. Submitted(j) = trans(M, N)
    BY <1>0, <1>2 DEF Submitted
  <2>2. Copies(M, N, trans(M, N), Cells(M, N), "any", "any")
    BY <1>1, transCopies
  <2>3. Triple(M, N, trans(M, N), Start(M, N), Right(M, N))
    BY <2>2, CopiesAll, Zenon
  <2> QED BY <1>0, <2>1, <2>3 DEF Triple
<1>3. CASE j.F = 0 /\ M = 61
  <2>1. Submitted(j) = trans_61_67(M, N)
    BY <1>0, <1>3 DEF Submitted, transpose_submit
  <2>2. Copies(M, N, trans_61_67(M, N), Cells(M, N), "any", "any")
    BY <1>1, trans_61_67Copies
  <2>3. Triple(M, N, trans_61_67(M, N), Start(M, N), Right(M, N))
    BY <2>2, CopiesAll, Zenon
  <2> QED BY <1>0, <2>1, <2>3 DEF Triple
<1>4. CASE j.F = 0 /\ M = 32
  <2>0. N = M
    BY <1>0, <1>4 DEF Square
  <2>1. Submitted(j) = trans_32_32(N, N)
    BY <1>0, <1>4, <2>0 DEF Submitted, transpose_submit
  <2>2. Copies(N, N, trans_32_32(N, N), Cells(N, N), "any", "off")
    BY <1>4, <2>0, trans_32_32Copies
  <2>3. Triple(N, N, trans_32_32(N, N), Start(N, N), Right(N, N))
    BY <2>2, CopiesAll, Zenon
  <2> QED BY <1>0, <2>0, <2>1, <2>3 DEF Triple
<1>5. CASE j.F = 0 /\ M = 64
  <2>0. N = M
    BY <1>0, <1>5 DEF Square
  <2>1. Submitted(j) = trans_64_64(N, N)
    BY <1>0, <1>5, <2>0 DEF Submitted, transpose_submit
  <2>2. Copies(N, N, trans_64_64(N, N), Cells(N, N), "any", "off")
    BY <1>5, <2>0, trans_64_64Copies
  <2>3. Triple(N, N, trans_64_64(N, N), Start(N, N), Right(N, N))
    BY <2>2, CopiesAll, Zenon
  <2> QED BY <1>0, <2>0, <2>1, <2>3 DEF Triple
<1>6. CASE j.F = 0 /\ M \notin {32, 64, 61}
  <2>1. Submitted(j) = <<>>
    BY <1>0, <1>6 DEF Submitted, transpose_submit
  <2> QED BY <1>0, <1>6, <2>1
<1> QED BY <1>1, <1>2, <1>3, <1>4, <1>5, <1>6

(* With them. *)
LEMMA FunctionOK ==
  ASSUME NEW j \in Jobs, Square(j)
  PROVE  /\ func_list[j] \in Seq(AccessIn(j.M, j.N))
         /\ (j.F = 0 => j.M \in {32, 64, 61}) => Triple(j.M, j.N, func_list[j], Start(j.M, j.N), Right(j.M, j.N))
<1>0. PICK M, N, s : M = j.M /\ N = j.N /\ s = Submitted(j)
  OBVIOUS
<1>1. func_list[j] = (<<Marker(0)>> \o s) \o <<Marker(1)>>
  BY <1>0 DEF func_list, Submitted
<1>2. s \in Seq(AccessIn(M, N)) /\ ((j.F = 0 => j.M \in {32, 64, 61}) => Triple(M, N, s, Start(M, N), Right(M, N)))
  BY <1>0, SubmittedOK
<1>3. Triple(M, N, <<Marker(0)>>, Start(M, N), Start(M, N)) /\ Triple(M, N, <<Marker(1)>>, Right(M, N), Right(M, N))
  BY MarkerTriple
<1>4. func_list[j] \in Seq(AccessIn(M, N))
  <2>1. <<Marker(0)>> \in Seq(AccessIn(M, N)) /\ <<Marker(1)>> \in Seq(AccessIn(M, N))
    BY <1>3 DEF Triple
  <2> QED BY <1>1, <1>2, <2>1
<1>5. ASSUME j.F = 0 => j.M \in {32, 64, 61} PROVE Triple(M, N, func_list[j], Start(M, N), Right(M, N))
  <2>1. Triple(M, N, <<Marker(0)>> \o s, Start(M, N), Right(M, N))
    BY <1>2, <1>3, <1>5, ConcatTriple
  <2>2. Triple(M, N, (<<Marker(0)>> \o s) \o <<Marker(1)>>, Start(M, N), Right(M, N))
    BY <1>3, <2>1, ConcatTriple
  <2> QED BY <1>1, <2>2
<1> QED BY <1>0, <1>4, <1>5
-----------------------------------------------------------------------------
(* The state of the program, and how many accesses it has made. *)
Now  == [B |-> B, d |-> is_diagonal, reg |-> reg]
Made == IF pc <= Len(func_list[job]) THEN pc - 1 ELSE Len(func_list[job])

(* A run of the first n accesses of job j, from where tracegen starts it. *)
RunOf(h, j, n, z) ==
  /\ h[0] \in Start(j.M, j.N)
  /\ \A p \in 1 .. n : h[p] = Exec(j.M, j.N, func_list[j][p], h[p - 1])
  /\ h[n] = z

(* The inductive invariant of the transposes: the state is the one that    *)
(* the accesses made so far lead to.                                       *)
RunInv ==
  /\ job \in Jobs \cup {NULL}
  /\ pc \in Nat \ {0}
  /\ is_diagonal \in BOOLEAN
  /\ job # NULL => \E h : RunOf(h, job, Made, Now)

(* A run goes on with the next access. *)
LEMMA RunStep ==
  ASSUME NEW j, NEW n \in Nat, NEW h, NEW z, RunOf(h, j, n, z)
  PROVE  \E g : RunOf(g, j, n + 1, Exec(j.M, j.N, func_list[j][n + 1], z))
<1> DEFINE e == Exec(j.M, j.N, func_list[j][n + 1], z)
           g == [p \in 0 .. (n + 1) |-> IF p = n + 1 THEN e ELSE h[p]]
<1>1. \A p \in 0 .. n : g[p] = h[p]
  OBVIOUS
<1>2. g[n + 1] = e
  OBVIOUS
<1>3. 0 \in 0 .. n /\ n \in 0 .. n
  OBVIOUS
<1>4. e = Exec(j.M, j.N, func_list[j][n + 1], z)
  OBVIOUS
<1> HIDE DEF g, e
<1>5. ASSUME NEW p \in 1 .. (n + 1) PROVE g[p] = Exec(j.M, j.N, func_list[j][p], g[p - 1])
  <2>1. CASE p \in 1 .. n
    <3>1. p \in 0 .. n /\ p - 1 \in 0 .. n
      BY <2>1
    <3>2. h[p] = Exec(j.M, j.N, func_list[j][p], h[p - 1])
      BY <2>1 DEF RunOf
    <3> QED BY <1>1, <3>1, <3>2
  <2>2. CASE p = n + 1
    <3>1. p - 1 = n /\ g[n] = h[n]
      BY <1>1, <1>3, <2>2
    <3>2. h[n] = z
      BY DEF RunOf
    <3> QED BY <1>2, <1>4, <2>2, <3>1, <3>2
  <2> QED BY <2>1, <2>2
<1>6. RunOf(g, j, n + 1, e)
  BY <1>1, <1>2, <1>3, <1>5 DEF RunOf
<1> QED BY <1>4, <1>6

(* tracegen starts with no element of A in B. *)
LEMMA RunInitOK == TransInit => RunInv
<1> SUFFICES ASSUME TransInit PROVE RunInv
  OBVIOUS
<1>1. job \in Jobs \cup {NULL} /\ pc = 1 /\ is_diagonal \in BOOLEAN
  BY DEF TransInit
<1>2. ASSUME job # NULL PROVE \E h : RunOf(h, job, Made, Now)
  <2>1. job \in Jobs /\ func_list[job] \in Seq(AccessType)
    BY <1>1, <1>2, FuncListOK
  <2>2. Made = 0
    BY <1>1, <2>1 DEF Made
  <2>3. Now \in Start(job.M, job.N)
    <3>1. B = [x \in 0 .. (job.M * job.N - 1) |-> -1] /\ reg = [r \in 0 .. 9 |-> NULL]
      BY <1>2 DEF TransInit
    <3>2. B \in [0 .. (job.M * job.N - 1) -> Val] /\ reg \in [0 .. 9 -> Val]
      BY <3>1 DEF Val
    <3>3. Now \in Machine(job.M, job.N)
      BY <1>1, <3>2 DEF Machine, Now
    <3> QED BY <3>3 DEF Start, Known
  <2>4. PICK h : h = [p \in {0} |-> Now]
    OBVIOUS
  <2>5. h[0] = Now
    BY <2>4
  <2>6. RunOf(h, job, 0, Now)
    BY <2>3, <2>5 DEF RunOf
  <2> QED BY <2>2, <2>6
<1> QED BY <1>1, <1>2 DEF RunInv

(* Every step of the program is the one of the logic. *)
LEMMA RunNextOK ==
  ASSUME \A j \in Jobs : Square(j)
  PROVE  RunInv /\ [TransNext]_vars => RunInv'
<1> SUFFICES ASSUME RunInv, [TransNext]_vars PROVE RunInv'
  OBVIOUS
<1>0. /\ job \in Jobs \cup {NULL} /\ pc \in Nat \ {0} /\ is_diagonal \in BOOLEAN
      /\ job # NULL => \E h : RunOf(h, job, Made, Now)
  BY DEF RunInv
<1>1. CASE UNCHANGED transVars
  <2>1. job' = job /\ pc' = pc /\ is_diagonal' = is_diagonal /\ B' = B /\ reg' = reg
    BY <1>1 DEF transVars
  <2>2. Made' = Made /\ Now' = Now
    BY <2>1 DEF Made, Now
  <2> QED BY <1>0, <2>1, <2>2 DEF RunInv
<1>2. ASSUME Running, job' = job, pc' = pc + 1, is_diagonal' \in BOOLEAN, Now' = Exec(job.M, job.N, At, Now)
      PROVE  RunInv'
  <2>1. job \in Jobs /\ job # NULL
    BY <1>0, <1>2 DEF Running
  <2>2. func_list[job] \in Seq(AccessType)
    BY <2>1, FuncListOK
  <2>3. PICK n : n = Made
    OBVIOUS
  <2>4. n = pc - 1 /\ n \in Nat /\ n + 1 = pc /\ Made' = n + 1
    <3>1. Len(func_list[job]) \in Nat /\ pc <= Len(func_list[job])
      BY <1>2, <2>2 DEF Running
    <3>2. n = pc - 1
      BY <2>3, <3>1 DEF Made
    <3>3. Made' = IF pc + 1 <= Len(func_list[job]) THEN pc' - 1 ELSE Len(func_list[job])
      BY <1>2 DEF Made
    <3> QED BY <1>0, <1>2, <3>1, <3>2, <3>3
  <2>5. PICK h : RunOf(h, job, n, Now)
    BY <1>0, <2>1, <2>3
  <2>6. PICK g : RunOf(g, job, n + 1, Exec(job.M, job.N, func_list[job][n + 1], Now))
    BY <2>4, <2>5, RunStep
  <2>7. RunOf(g, job, n + 1, Now')
    BY <1>2, <2>4, <2>6 DEF At
  <2>8. (\E h2 : RunOf(h2, job, Made, Now))'
    <3>1. RunOf(g, job', Made', Now')
      BY <1>2, <2>4, <2>7
    <3> QED BY <3>1
  <2> QED BY <1>0, <1>2, <2>8 DEF RunInv
<1>3. ASSUME Running PROVE At \in AccessIn(job.M, job.N)
  <2>1. job \in Jobs /\ Square(job)
    BY <1>0, <1>3 DEF Running
  <2>2. func_list[job] \in Seq(AccessIn(job.M, job.N))
    BY <2>1, FunctionOK
  <2>3. pc \in 1 .. Len(func_list[job])
    BY <1>0, <1>3, <2>2 DEF Running
  <2> QED BY <2>2, <2>3 DEF At
<1>a. Now.B = B /\ Now.reg = reg /\ Now.d = is_diagonal
  BY DEF Now
<1>4. CASE DoLoad
  <2>1. /\ Running /\ At.id = "L" /\ job' = job /\ pc' = pc + 1 /\ B' = B
        /\ reg' = [reg EXCEPT ![At.r] = Value(At)] /\ is_diagonal' = (At.when = "set" \/ is_diagonal)
    BY <1>4 DEF DoLoad
  <2>2. Value(At) = IF At.mat = "A" THEN At.row * job.M + At.col ELSE Now.B[At.row * job.N + At.col]
    BY <1>a DEF Value, A
  <2>3. Now' = [B |-> B', d |-> is_diagonal', reg |-> reg']
    BY DEF Now
  <2>4. Now' = NewReg(Now, At.r, Value(At), At.when = "set" \/ Now.d)
    BY <1>a, <2>1, <2>3 DEF NewReg
  <2>5. Now' = Exec(job.M, job.N, At, Now)
    BY <2>1, <2>2, <2>4 DEF Exec
  <2>6. is_diagonal' \in BOOLEAN
    BY <2>1
  <2> QED BY <1>2, <2>1, <2>5, <2>6
<1>5. CASE DoStore
  <2>1. /\ Running /\ At.id = "S" /\ Doing(At) /\ job' = job /\ pc' = pc + 1 /\ reg' = reg
        /\ B' = IF At.mat = "B" THEN [B EXCEPT ![At.row * job.N + At.col] = reg[At.r]] ELSE B
        /\ is_diagonal' = (At.when = "always" /\ is_diagonal)
    BY <1>5 DEF DoStore
  <2>2. At \in AccessIn(job.M, job.N)
    BY <1>3, <2>1
  <2>3. Now' = [B |-> B', d |-> is_diagonal', reg |-> reg']
    BY DEF Now
  <2>4. ASSUME At.mat = "B" PROVE Now' = Exec(job.M, job.N, At, Now)
    <3>1. Now' = NewPlace(Now, At.row * job.N + At.col, Now.reg[At.r], At.when = "always" /\ Now.d)
      BY <1>a, <2>1, <2>3, <2>4 DEF NewPlace
    <3>2. At.when = "is_diagonal" => Now.d
      BY <1>a, <2>1 DEF Doing
    <3> QED BY <2>1, <2>4, <3>1, <3>2 DEF Exec
  <2>5. ASSUME At.mat # "B" PROVE Now' = Exec(job.M, job.N, At, Now)
    <3>1. At.when = "always"
      BY <2>1, <2>2, <2>5 DEF AccessIn
    <3>2. B' = B /\ is_diagonal' = is_diagonal
      BY <1>0, <2>1, <2>5, <3>1
    <3>3. Now' = Now
      BY <2>1, <2>3, <3>2 DEF Now
    <3> QED BY <2>1, <2>5, <3>3 DEF Exec
  <2>6. Now' = Exec(job.M, job.N, At, Now)
    BY <2>4, <2>5
  <2>7. is_diagonal' \in BOOLEAN
    BY <2>1
  <2> QED BY <1>2, <2>1, <2>6, <2>7, Zenon
<1>6. CASE NoStore
  <2>1. /\ Running /\ At.id = "S" /\ ~Doing(At) /\ job' = job /\ pc' = pc + 1 /\ reg' = reg /\ B' = B
        /\ is_diagonal' = is_diagonal
    BY <1>6 DEF NoStore
  <2>2. At.when = "is_diagonal" /\ ~Now.d
    BY <1>a, <2>1 DEF Doing
  <2>3. Now' = Now
    BY <2>1 DEF Now
  <2>4. Now' = Exec(job.M, job.N, At, Now)
    <3>1. At.id # "L" /\ ~(At.when = "is_diagonal" => Now.d)
      BY <2>1, <2>2
    <3>2. Exec(job.M, job.N, At, Now) = Now
      BY <3>1, Zenon DEF Exec
    <3> QED BY <2>3, <3>2
  <2>5. is_diagonal' \in BOOLEAN
    BY <1>0, <2>1
  <2> QED BY <1>2, <2>1, <2>4, <2>5, Zenon
<1>7. CASE Evaluate
  <2>1. /\ job # NULL /\ pc = Len(func_list[job]) + 1 /\ pc' = pc + 1
        /\ job' = job /\ B' = B /\ reg' = reg /\ is_diagonal' = is_diagonal
    BY <1>7 DEF Evaluate
  <2>2. func_list[job] \in Seq(AccessType)
    BY <1>0, <2>1, FuncListOK
  <2>3. Len(func_list[job]) \in Nat
    BY <2>2
  <2>4. Made = Len(func_list[job]) /\ Made' = Len(func_list[job]) /\ Now' = Now
    BY <2>1, <2>3 DEF Made, Now
  <2> QED BY <1>0, <2>1, <2>4 DEF RunInv
<1>8. CASE TransNext
  BY <1>1, <1>4, <1>5, <1>6, <1>7, <1>8 DEF TransNext
<1>9. CASE UNCHANGED vars
  BY <1>1, <1>9 DEF vars
<1> QED BY <1>8, <1>9

(* Where the run ends, every element of A is in its place. *)
LEMMA RunIsRight ==
  ASSUME \A j \in Jobs : Square(j)
  PROVE  RunInv => TransposesAreRight
<1> SUFFICES ASSUME RunInv PROVE TransposesAreRight
  OBVIOUS
<1>0. /\ job \in Jobs \cup {NULL} /\ pc \in Nat \ {0}
      /\ job # NULL => \E h : RunOf(h, job, Made, Now)
  BY DEF RunInv
<1>1. ASSUME Running PROVE InBounds(At)
  <2>1. job \in Jobs /\ Square(job) /\ job.M \in 1 .. 256 /\ job.N \in 1 .. 256
    BY <1>0, <1>1, TransAssumption DEF Running
  <2>2. func_list[job] \in Seq(AccessIn(job.M, job.N))
    BY <2>1, FunctionOK
  <2>3. pc \in 1 .. Len(func_list[job])
    BY <1>0, <1>1, <2>2 DEF Running
  <2>4. At \in AccessIn(job.M, job.N)
    BY <2>2, <2>3 DEF At
  <2>5. \/ At.mat = "marker"
        \/ At.mat = "A" /\ At.row \in 0 .. (job.N - 1) /\ At.col \in 0 .. (job.M - 1)
        \/ At.mat = "B" /\ At.row \in 0 .. (job.M - 1) /\ At.col \in 0 .. (job.N - 1)
    BY <2>4 DEF AccessIn
  <2>6. \A n \in 1 .. 256 : \A x \in 0 .. (n - 1) : x < n
    OBVIOUS
  <2> QED BY <2>1, <2>5, <2>6, Zenon DEF InBounds
<1>2. ASSUME job # NULL, pc > Len(func_list[job]), job.F = 0 => \E f \in FullScore : f.M = job.M /\ f.N = job.N
      PROVE  validate
  <2>1. job \in Jobs /\ Square(job) /\ job.M \in 1 .. 256 /\ job.N \in 1 .. 256
    BY <1>0, <1>2, TransAssumption
  <2>2. job.F = 0 => job.M \in {32, 64, 61}
    BY <1>2 DEF FullScore
  <2>3. Triple(job.M, job.N, func_list[job], Start(job.M, job.N), Right(job.M, job.N))
    BY <2>1, <2>2, FunctionOK
  <2>4. Made = Len(func_list[job])
    <3>1. func_list[job] \in Seq(AccessType)
      BY <2>1, FuncListOK
    <3>2. Len(func_list[job]) \in Nat
      BY <3>1
    <3> QED BY <1>0, <1>2, <3>2 DEF Made
  <2>5. PICK h : RunOf(h, job, Len(func_list[job]), Now)
    BY <1>0, <1>2, <2>4
  <2>6. Now \in Right(job.M, job.N)
    BY <2>3, <2>5 DEF Triple, RunOf
  <2>7. Now.B = B
    BY DEF Now
  <2>8. ASSUME NEW i \in 0 .. (job.N - 1), NEW j \in 0 .. (job.M - 1) PROVE B[j * job.N + i] = A(i, j)
    <3>1. PICK c : c = <<i, j>>
      OBVIOUS
    <3>2. c \in Cells(job.M, job.N) /\ c[1] = i /\ c[2] = j
      BY <3>1 DEF Cells
    <3>3. PICK f : f = <<j, i, i, j>>
      OBVIOUS
    <3>4. f \in Done(Cells(job.M, job.N))
      BY <3>2, <3>3 DEF Done
    <3>5. Now.B[f[1] * job.N + f[2]] = f[3] * job.M + f[4]
      BY <2>6, <3>4 DEF Right, Known
    <3>6. f[1] = j /\ f[2] = i /\ f[3] = i /\ f[4] = j
      BY <3>3
    <3> QED BY <2>7, <3>5, <3>6 DEF A
  <2> QED BY <2>8 DEF validate
<1> QED BY <1>1, <1>2 DEF TransposesAreRight

(* For every size that it is meant for, whatever B, the registers and      *)
(* is_diagonal hold at first, the submission transposes, though it keeps   *)
(* parts of A in B on the way; trans transposes for every size, and no     *)
(* access is outside of the matrices.  The sizes 32 and 64 are meant for   *)
(* square matrices, and tracegen is to be called with such.                *)
THEOREM FunctionsTranspose ==
  (\A j \in Jobs : j.F = 0 /\ j.M \in {32, 64} => j.N = j.M) => (Spec => []TransposesAreRight)
<1> SUFFICES ASSUME \A j \in Jobs : j.F = 0 /\ j.M \in {32, 64} => j.N = j.M PROVE Spec => []TransposesAreRight
  OBVIOUS
<1>1. \A j \in Jobs : Square(j)
  BY DEF Square
<1>2. RunInv /\ [TransNext]_vars => RunInv'
  BY <1>1, RunNextOK
<1>3. RunInv => TransposesAreRight
  BY <1>1, RunIsRight
<1> QED BY <1>2, <1>3, RunInitOK, PTL DEF Spec
=============================================================================
