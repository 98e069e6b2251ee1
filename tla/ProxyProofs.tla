---------------------------- MODULE ProxyProofs ----------------------------
(***************************************************************************)
(* What is proved about the proxy, for any number of connections, requests *)
(* and replies, of the behaviours in which no two connections overlap.     *)
(* main starts a thread for each, and once two of them overlap none of     *)
(* this holds, since no lock guards the lists and cache_volume:            *)
(* ProxyRaces.cfg shows it.  The invariant Inv relates the step that *)
(* a thread has come to with the shared lists, the bytes counted in        *)
(* cache_volume and the order of the access times; every action is shown   *)
(* to preserve it.  Sums over sets of items are recursive functions, whose *)
(* existence and laws come first, by least counterexamples.                *)
(***************************************************************************)
EXTENDS Proxy, FiniteSetTheorems, WellFoundedInduction, TLAPS

(* A set of naturals has a least element. *)
LEMMA LeastNat ==
  ASSUME NEW S, S \subseteq Nat, S # {}
  PROVE  \E x \in S : \A y \in S : x <= y
<1> DEFINE R == OpToRel(<, Nat)
<1>1. PICK x \in S : \A y \in S : ~(<<y, x>> \in R)
  BY NatLessThanWellFounded, WFMin
<1>a. R = {ss \in Nat \X Nat : ss[1] < ss[2]}
  BY Zenon DEF OpToRel
<1> HIDE DEF R
<1>3. \A y \in S : x <= y
  <2> SUFFICES ASSUME NEW y \in S, y < x PROVE FALSE
    OBVIOUS
  <2>1. <<y, x>> \in R
    BY <1>a
  <2> QED BY <1>1, <2>1
<1> QED BY <1>3

(* Sets that are not all empty of a fault have one that loses it with any  *)
(* of its elements.                                                        *)
LEMMA SmallestSet ==
  ASSUME NEW S, IsFiniteSet(S), NEW Bad, Bad \subseteq SUBSET S, Bad # {}
  PROVE  \E T \in Bad : \A x \in T : T \ {x} \notin Bad
<1> DEFINE K == {k \in Nat : \E T \in Bad : Cardinality(T) = k}
<1>1. \A T \in Bad : IsFiniteSet(T) /\ Cardinality(T) \in Nat
  BY FS_Subset, FS_CardinalityType
<1>2. K # {} /\ K \subseteq Nat
  BY <1>1
<1>3. PICK k \in K : \A y \in K : k <= y
  <2> HIDE DEF K
  <2> QED BY <1>2, LeastNat
<1>4. PICK T \in Bad : Cardinality(T) = k
  BY <1>3
<1>5. ASSUME NEW x \in T, T \ {x} \in Bad PROVE FALSE
  <2>1. Cardinality(T \ {x}) = Cardinality(T) - 1
    BY <1>1, FS_RemoveElement
  <2>2. Cardinality(T \ {x}) \in K
    BY <1>1, <1>5
  <2>3. k \in Nat
    OBVIOUS
  <2> HIDE DEF K
  <2> QED BY <1>3, <1>4, <2>1, <2>2, <2>3
<1> QED BY <1>4, <1>5

-----------------------------------------------------------------------------
(* The sum of the sizes of some items. *)
SizeSum(w, S) == MapThenSumSet(LAMBDA i : w[i].size, S)

(* MapThenSumSet adds one item to the sum of the others: a recursive       *)
(* function of sets of items.                                              *)
SumStep(w, f, s) == IF s = {} THEN 0 ELSE w[CHOOSE x \in s : TRUE].size + f[s \ {CHOOSE x \in s : TRUE}]
SumFun(w, f, S) == f = [s \in SUBSET S |-> SumStep(w, f, s)]

(* That function exists, by induction over the number of items. *)
LEMMA SumExists ==
  ASSUME NEW w, NEW S, IsFiniteSet(S)
  PROVE  \E f : SumFun(w, f, S)
<1> DEFINE Upto(k) == {s \in SUBSET S : Cardinality(s) <= k}
           Good(k) == \E f : f = [s \in Upto(k) |-> SumStep(w, f, s)]
           Bad == {k \in Nat : ~Good(k)}
<1>0. \A s \in SUBSET S : IsFiniteSet(s) /\ Cardinality(s) \in Nat /\ Cardinality(s) <= Cardinality(S)
  BY FS_Subset, FS_CardinalityType
<1>1. ASSUME Bad # {} PROVE FALSE
  <2>1. PICK k \in Bad : \A y \in Bad : k <= y
    <3> HIDE DEF Bad
    <3>1. Bad \subseteq Nat
      BY DEF Bad
    <3> QED BY <1>1, <3>1, LeastNat
  <2>2. k # 0
    <3> SUFFICES ASSUME k = 0 PROVE FALSE
      OBVIOUS
    <3>1. \A s \in Upto(0) : s = {}
      BY <1>0, FS_EmptySet
    <3> DEFINE f == [s \in Upto(0) |-> 0]
    <3>2. \A s \in Upto(0) : SumStep(w, f, s) = 0
      BY <3>1 DEF SumStep
    <3>3. f = [s \in Upto(0) |-> SumStep(w, f, s)]
      BY <3>2
    <3> QED BY <2>1, <3>3
  <2>3. k \in Nat /\ k - 1 \in Nat /\ k - 1 \notin Bad
    <3>1. k \in Nat
      BY <2>1
    <3> HIDE DEF Bad
    <3> QED BY <2>1, <2>2, <3>1
  <2>4. PICK g : g = [s \in Upto(k - 1) |-> SumStep(w, g, s)]
    BY <2>3
  <2> DEFINE h == [s \in Upto(k) |-> IF Cardinality(s) = k THEN SumStep(w, g, s) ELSE g[s]]
  <2>5. ASSUME NEW s \in Upto(k) PROVE h[s] = SumStep(w, h, s)
    <3> DEFINE x == CHOOSE x \in s : TRUE
               r == s \ {x}
    <3>1. s # {} => h[r] = g[r]
      <4> SUFFICES ASSUME s # {} PROVE h[r] = g[r]
        OBVIOUS
      <4>1. x \in s
        OBVIOUS
      <4>2. Cardinality(r) = Cardinality(s) - 1 /\ r \in SUBSET S
        BY <1>0, <4>1, FS_RemoveElement
      <4> HIDE DEF r
      <4>3. Cardinality(r) # k /\ r \in Upto(k)
        BY <1>0, <2>3, <4>2
      <4> QED BY <4>3
    <3> HIDE DEF h
    <3>2. SumStep(w, h, s) = SumStep(w, g, s)
      BY <3>1 DEF SumStep
    <3>3. CASE Cardinality(s) = k
      BY <3>2, <3>3 DEF h
    <3>4. CASE Cardinality(s) # k
      <4>1. s \in Upto(k - 1)
        BY <1>0, <2>3, <3>4
      <4>2. g[s] = SumStep(w, g, s)
        BY <2>4, <4>1
      <4> QED BY <3>2, <3>4, <4>2 DEF h
    <3> QED BY <3>3, <3>4
  <2>6. h = [s \in Upto(k) |-> SumStep(w, h, s)]
    <3> DEFINE e == [s \in Upto(k) |-> SumStep(w, h, s)]
    <3>0. h = [s \in Upto(k) |-> h[s]]
      OBVIOUS
    <3> HIDE DEF h
    <3>1. e = [s \in Upto(k) |-> h[s]]
      BY <2>5
    <3> QED BY <3>0, <3>1
  <2>7. Good(k)
    <3> HIDE DEF h
    <3> QED BY <2>6
  <2> HIDE DEF Good
  <2> QED BY <2>1, <2>7
<1>2. Good(Cardinality(S))
  <2>1. Cardinality(S) \in Nat
    BY FS_CardinalityType
  <2> HIDE DEF Good
  <2> QED BY <1>1, <2>1
<1>3. Upto(Cardinality(S)) = SUBSET S
  BY <1>0
<1> QED BY <1>2, <1>3 DEF SumFun

(* What it computes of a set. *)
LEMMA SumIs ==
  ASSUME NEW w, NEW S, IsFiniteSet(S)
  PROVE  \E f : SumFun(w, f, S) /\ SizeSum(w, S) = f[S]
<1> DEFINE f == CHOOSE f : f = [s \in SUBSET S |->
                  IF s = {} THEN 0 ELSE w[CHOOSE x \in s : TRUE].size + f[s \ {CHOOSE x \in s : TRUE}]]
<1>1. SizeSum(w, S) = f[S]
  BY DEF SizeSum, MapThenSumSet, MapThenFoldSet
<1>2. SumFun(w, f, S)
  <2>1. PICK g : SumFun(w, g, S)
    BY SumExists
  <2>2. g = [s \in SUBSET S |->
              IF s = {} THEN 0 ELSE w[CHOOSE x \in s : TRUE].size + g[s \ {CHOOSE x \in s : TRUE}]]
    BY <2>1 DEF SumFun, SumStep
  <2>3. f = [s \in SUBSET S |->
              IF s = {} THEN 0 ELSE w[CHOOSE x \in s : TRUE].size + f[s \ {CHOOSE x \in s : TRUE}]]
    BY <2>2
  <2> HIDE DEF f
  <2> QED BY <2>3 DEF SumFun, SumStep
<1> QED BY <1>1, <1>2

(* It depends on the sizes of the items of the set alone. *)
LEMMA SumAgrees ==
  ASSUME NEW w, NEW v, NEW S, NEW T, IsFiniteSet(S), NEW f, NEW g, SumFun(w, f, S), SumFun(v, g, T),
         S \subseteq T, \A i \in S : w[i].size = v[i].size
  PROVE  \A s \in SUBSET S : f[s] = g[s]
<1> DEFINE Bad == {s \in SUBSET S : f[s] # g[s]}
<1>1. ASSUME Bad # {} PROVE FALSE
  <2>1. PICK s \in Bad : \A x \in s : s \ {x} \notin Bad
    <3>1. Bad \subseteq SUBSET S
      OBVIOUS
    <3> HIDE DEF Bad
    <3> QED BY <1>1, <3>1, SmallestSet
  <2> DEFINE x == CHOOSE x \in s : TRUE
             r == s \ {x}
  <2>2. f[s] = SumStep(w, f, s) /\ g[s] = SumStep(v, g, s)
    BY DEF SumFun
  <2>3. s # {}
    BY <2>2 DEF SumStep
  <2>4. x \in s /\ r \in SUBSET S /\ f[r] = g[r]
    BY <2>1, <2>3
  <2>5. SumStep(w, f, s) = w[x].size + f[r] /\ SumStep(v, g, s) = v[x].size + g[r]
    BY <2>3 DEF SumStep
  <2> QED BY <2>1, <2>2, <2>4, <2>5
<1> QED BY <1>1

(* A sum of sizes is a size. *)
LEMMA SumType ==
  ASSUME NEW w, NEW S, IsFiniteSet(S), NEW f, SumFun(w, f, S), \A i \in S : w[i].size \in Nat
  PROVE  \A s \in SUBSET S : f[s] \in Nat
<1> DEFINE Bad == {s \in SUBSET S : f[s] \notin Nat}
<1>1. ASSUME Bad # {} PROVE FALSE
  <2>1. PICK s \in Bad : \A x \in s : s \ {x} \notin Bad
    <3>1. Bad \subseteq SUBSET S
      OBVIOUS
    <3> HIDE DEF Bad
    <3> QED BY <1>1, <3>1, SmallestSet
  <2> DEFINE x == CHOOSE x \in s : TRUE
             r == s \ {x}
  <2>2. f[s] = SumStep(w, f, s)
    BY DEF SumFun
  <2>3. s # {}
    BY <2>2 DEF SumStep
  <2>4. x \in s /\ r \in SUBSET S /\ f[r] \in Nat
    BY <2>1, <2>3
  <2>5. SumStep(w, f, s) = w[x].size + f[r]
    BY <2>3 DEF SumStep
  <2> QED BY <2>1, <2>2, <2>4, <2>5
<1> QED BY <1>1

(* Any item can be the one that is added last. *)
LEMMA SumAnyOrder ==
  ASSUME NEW w, NEW S, IsFiniteSet(S), NEW f, SumFun(w, f, S), \A i \in S : w[i].size \in Nat
  PROVE  \A s \in SUBSET S : \A y \in s : f[s] = w[y].size + f[s \ {y}]
<1> DEFINE Bad == {s \in SUBSET S : \E y \in s : f[s] # w[y].size + f[s \ {y}]}
<1>1. ASSUME Bad # {} PROVE FALSE
  <2>1. PICK s \in Bad : \A x \in s : s \ {x} \notin Bad
    <3>1. Bad \subseteq SUBSET S
      OBVIOUS
    <3> HIDE DEF Bad
    <3> QED BY <1>1, <3>1, SmallestSet
  <2>a. PICK y \in s : f[s] # w[y].size + f[s \ {y}]
    OBVIOUS
  <2> DEFINE x == CHOOSE x \in s : TRUE
             r == s \ {x}
             q == s \ {y}
  <2>2. f[s] = w[x].size + f[r] /\ x \in s
    BY DEF SumFun, SumStep
  <2>3. x # y
    BY <2>a, <2>2
  <2>4. y \in r /\ x \in q /\ r \in SUBSET S /\ q \in SUBSET S /\ r \notin Bad /\ q \notin Bad
    BY <2>1, <2>2, <2>3
  <2>5. f[r] = w[y].size + f[r \ {y}] /\ f[q] = w[x].size + f[q \ {x}]
    BY <2>4
  <2>6. r \ {y} = q \ {x} /\ f[r \ {y}] \in Nat /\ w[x].size \in Nat /\ w[y].size \in Nat
    BY <2>2, <2>4, SumType
  <2>7. f[s] # w[y].size + f[q]
    BY <2>a
  <2> HIDE DEF x, r, q
  <2>8. PICK n \in Nat : n = f[r \ {y}] /\ n = f[q \ {x}]
    BY <2>6
  <2>9. f[r] = w[y].size + n /\ f[q] = w[x].size + n
    BY <2>5, <2>8
  <2> HIDE DEF Bad
  <2> QED BY <2>2, <2>6, <2>7, <2>9
<1> QED BY <1>1

(* The laws of the sum that the proofs below use. *)
LEMMA SumEmpty == ASSUME NEW w PROVE SizeSum(w, {}) = 0
<1>1. PICK f : SumFun(w, f, {}) /\ SizeSum(w, {}) = f[{}]
  BY SumIs, FS_EmptySet
<1> QED BY <1>1 DEF SumFun, SumStep

(* It is a number of bytes. *)
LEMMA SumNat ==
  ASSUME NEW w, NEW S, IsFiniteSet(S), \A i \in S : w[i].size \in Nat
  PROVE  SizeSum(w, S) \in Nat
<1>1. PICK f : SumFun(w, f, S) /\ SizeSum(w, S) = f[S]
  BY SumIs
<1> QED BY <1>1, SumType

(* What is not in the set does not count. *)
LEMMA SumSame ==
  ASSUME NEW w, NEW v, NEW S, IsFiniteSet(S), \A i \in S : w[i].size = v[i].size
  PROVE  SizeSum(w, S) = SizeSum(v, S)
<1>1. PICK f : SumFun(w, f, S) /\ SizeSum(w, S) = f[S]
  BY SumIs
<1>2. PICK g : SumFun(v, g, S) /\ SizeSum(v, S) = g[S]
  BY SumIs
<1>3. \A s \in SUBSET S : f[s] = g[s]
  BY <1>1, <1>2, SumAgrees
<1> QED BY <1>1, <1>2, <1>3

(* An item counts once. *)
LEMMA SumRemove ==
  ASSUME NEW w, NEW S, IsFiniteSet(S), \A i \in S : w[i].size \in Nat, NEW x \in S
  PROVE  SizeSum(w, S) = w[x].size + SizeSum(w, S \ {x})
<1>0. IsFiniteSet(S \ {x})
  BY FS_RemoveElement
<1>1. PICK f : SumFun(w, f, S) /\ SizeSum(w, S) = f[S]
  BY SumIs
<1>2. PICK g : SumFun(w, g, S \ {x}) /\ SizeSum(w, S \ {x}) = g[S \ {x}]
  BY <1>0, SumIs
<1>3. g[S \ {x}] = f[S \ {x}]
  <2>1. S \ {x} \in SUBSET (S \ {x}) /\ S \ {x} \subseteq S /\ \A i \in S \ {x} : w[i].size = w[i].size
    OBVIOUS
  <2> QED BY <1>0, <1>1, <1>2, <2>1, SumAgrees
<1>4. f[S] = w[x].size + f[S \ {x}]
  BY <1>1, SumAnyOrder
<1> QED BY <1>1, <1>2, <1>3, <1>4

(* The values of the variables. *)
Headers == [by : Nat, name : Text, data : Text, nth : Nat]
Answers == [host : Text, path : Text, size : Nat, text : BOOLEAN, whole : BOOLEAN]
Items   == [hostname : Text, path : Text, size : Nat, data : Answers \cup {NULL}, access_time : Nat]

(* Where a thread is: it builds its header list; it has not found its key in *)
(* the cache.                                                                *)
Heading == {"read", "insert", "link", "init"}
Early   == {"none", "search"} \cup Heading
Missed  == {"send", "store", "delete", "subtract", "linkitem", "fill", "add"}

Locals == [pc : Early \cup Missed \cup {"hit", "closed"}, req : Requests \cup {NULL}, lines : Seq(Text),
           next : Text, name : Text, last : Headers \cup Threads \cup {NULL}, header_host : Text,
           target : Threads \cup {NULL}, eviction : Threads \cup {NULL}, volume : Int,
           reply : Answers \cup {NULL}]

Typed ==
  /\ headers \in Seq(Headers) /\ cache \in Seq(Threads)
  /\ item \in [Threads -> Items]
  /\ cache_volume \in 0 .. MAX_CACHE_SIZE /\ clock \in Nat
  /\ thread \in [Threads -> Locals]

(* One connection after the other. *)
InTurn ==
  \A t, u \in Threads : u < t /\ thread[t].pc # "none" => thread[u].pc = "closed"

Distinct(list) == \A j, k \in 1 .. Len(list) : list[j] = list[k] => j = k

(* The place of a name in Defaults, which init_header goes through. *)
Place(name) == IF name = "Host" THEN 1 ELSE IF name = "User-Agent" THEN 2
               ELSE IF name = "Connection" THEN 3 ELSE IF name = "Proxy-Connection" THEN 4 ELSE 5
Names == {"Host", "User-Agent", "Connection", "Proxy-Connection", "done"}

Mine(t) == {h \in Range(headers) : h.by = t}

(* No header is on the list twice, so that linking one behind the last      *)
(* loses none.                                                              *)
ListOK ==
  /\ Distinct(headers)
  /\ \A h \in Range(headers) : h.by \in Threads /\ thread[h.by].pc # "none"
  /\ \A t \in Threads :
       LET th == thread[t]
       IN  /\ th.pc \in {"none", "read"} => th.next = ""
           /\ th.pc = "read" => \A h \in Mine(t) : h.nth > Len(th.lines)
           /\ th.pc = "init" => th.next \in Names /\ \A h \in Mine(t) : h.nth = 0 => Place(h.name) < Place(th.next)
           /\ th.pc \in {"insert", "link"} /\ th.next = "" => \A h \in Mine(t) : h.nth > Len(th.lines) + 1
           /\ th.pc \in {"insert", "link"} /\ th.next # "" =>
                /\ {th.name, th.next} \subseteq Names /\ Place(th.next) = Place(th.name) + 1
                /\ \A h \in Mine(t) : h.nth = 0 => Place(h.name) < Place(th.name)
           /\ th.pc = "link" => th.last = LastOf(headers)

(* From where init_header has seen to it, there is a Host header. *)
HostOK ==
  \A t \in Threads :
    \/ thread[t].pc = "search"
    \/ thread[t].pc = "init" /\ thread[t].next # "Host"
    \/ thread[t].pc \in {"insert", "link"} /\ thread[t].next # "" /\ thread[t].name # "Host"
    => \E h \in Range(headers) : h.name = "Host"

(* What a thread knows of its request and its answer. *)
AnswerOK ==
  \A t \in Threads :
    LET th == thread[t]
    IN  /\ th.pc # "none" => th.req \in Requests
        /\ th.pc \in Early \cup Missed => th.target = NULL
        /\ th.target # NULL => th.target < t
        /\ th.pc \in Missed \ {"send"} =>
             /\ th.reply \in Answers /\ th.reply.path = th.req.path
             /\ th.reply.host = th.req.hostname /\ th.reply.whole
             /\ th.reply.size <= MAX_OBJECT_SIZE
        /\ th.pc = "closed" => th.reply \in Answers

(* The items on the list are those of connections that have stored their   *)
(* answer, or are about to.                                                *)
CacheOK ==
  /\ Distinct(cache)
  /\ \A i \in Range(cache) :
       /\ thread[i].pc \in {"fill", "add", "closed"}
       /\ thread[i].pc # "fill" =>
            /\ thread[i].reply \in Answers /\ item[i].path = thread[i].reply.path
            /\ item[i].path # ""
            /\ item[i].data = [thread[i].reply EXCEPT !.whole = thread[i].reply.text]
  /\ \A t \in Threads :
       LET th == thread[t]
       IN  /\ th.pc \notin {"add", "closed"} => item[t] = NoItem
           /\ th.pc \in {"fill", "add"} => t \in Range(cache)
           /\ th.pc \in Missed \ {"add"} =>
                \A i \in Range(cache) \ {t} : item[i].path # th.req.path \/ item[i].hostname # th.header_host
           /\ th.pc = "hit" =>
                th.target \in Range(cache) /\ item[th.target].path = th.req.path
           /\ th.pc = "delete" => th.eviction \in Range(cache)
           /\ th.pc = "linkitem" => th.last = LastOf(cache)

(* How far cache_volume is from the bytes in the cache while it changes. *)
VolumeOK ==
  /\ (\A t \in Threads : thread[t].pc \notin {"subtract", "add"}) => cache_volume = SizeSum(item, Range(cache))
  /\ \A t \in Threads :
       LET th == thread[t]
       IN  /\ th.pc = "subtract" =>
                /\ th.volume = cache_volume /\ th.eviction \in Threads \ Range(cache)
                /\ cache_volume = SizeSum(item, Range(cache)) + item[th.eviction].size
           /\ th.pc = "add" =>
                /\ th.volume = cache_volume
                /\ SizeSum(item, Range(cache)) = cache_volume + th.reply.size
           /\ th.pc \in {"linkitem", "fill", "add"} => cache_volume + th.reply.size <= MAX_CACHE_SIZE

(* The items whose time is up to date. *)
Settled == {i \in Range(cache) : /\ thread[i].pc = "closed"
                                 /\ \A t \in Threads : thread[t].pc = "hit" => thread[t].target # i}

(* update_time orders the items by their last use, as far as clock() tells. *)
TimeOK ==
  /\ \A i \in Settled : item[i].access_time <= clock
  /\ \A i, j \in Settled : item[i].access_time < item[j].access_time => LastUse(i) <= LastUse(j)

Inv == /\ Typed /\ InTurn /\ ListOK /\ HostOK /\ AnswerOK /\ CacheOK /\ VolumeOK /\ TimeOK
       /\ KeysAreDistinct /\ VictimIsLeastRecent /\ RepliesAreRelayed
-----------------------------------------------------------------------------
(* The first position of a sequence whose element passes a test. *)
LEMMA MinOK ==
  ASSUME NEW I, I \subseteq Nat, I # {}
  PROVE  Min(I) \in I /\ \A j \in I : Min(I) <= j
BY LeastNat DEF Min

(* The elements of a list. *)
LEMMA RangeOK ==
  ASSUME NEW S, NEW s \in Seq(S)
  PROVE  /\ Range(s) = {s[k] : k \in 1 .. Len(s)} /\ Range(s) \subseteq S /\ Len(s) \in Nat
         /\ \A e : Contains(s, e) <=> e \in Range(s)
         /\ s = <<>> <=> Range(s) = {}
<1>1. Len(s) \in Nat /\ DOMAIN s = 1 .. Len(s)
  OBVIOUS
<1>2. Range(s) = {s[k] : k \in 1 .. Len(s)}
  BY <1>1 DEF Range
<1>3. Range(s) \subseteq S
  BY <1>2
<1>4. \A e : Contains(s, e) <=> e \in Range(s)
  BY <1>2 DEF Contains
<1>5. s = <<>> => Range(s) = {}
  BY <1>2
<1>6. s # <<>> => Range(s) # {}
  <2> SUFFICES ASSUME s # <<>> PROVE s[1] \in Range(s)
    OBVIOUS
  <2>1. 1 \in 1 .. Len(s)
    BY <1>1
  <2> QED BY <1>2, <2>1
<1> QED BY <1>1, <1>2, <1>3, <1>4, <1>5, <1>6

(* In a list without repetition an element has one position. *)
Places(s, e) == {i \in 1 .. Len(s) : s[i] = e}

(* It is the one that a walk along the list finds. *)
LEMMA PlaceOf ==
  ASSUME NEW S, NEW s \in Seq(S), Distinct(s), NEW k \in 1 .. Len(s), NEW e, e = s[k]
  PROVE  Places(s, e) # {} /\ Min(Places(s, e)) = k
<1>1. Places(s, e) = {k}
  BY DEF Distinct, Places
<1>2. {k} \subseteq Nat
  OBVIOUS
<1>3. Min({k}) = k
  BY <1>2, MinOK
<1> QED BY <1>1, <1>3

(* An item that is linked behind the last one is at the end of the list. *)
LEMMA AppendedOK ==
  ASSUME NEW S, NULL \notin S, NEW s \in Seq(S), Distinct(s), NEW x \in S, x \notin Range(s),
         NEW m, m = Appended(s, LastOf(s), x)
  PROVE  m \in Seq(S) /\ Distinct(m) /\ Range(m) = Range(s) \cup {x}
<1>1. Len(s) \in Nat
  OBVIOUS
<1>2. m = Append(s, x)
  <2>1. CASE s = <<>>
    <3>1. LastOf(s) = NULL
      BY <2>1 DEF LastOf
    <3>2. m = <<x>>
      BY <3>1 DEF Appended
    <3> QED BY <2>1, <3>2
  <2>2. CASE s # <<>>
    <3> DEFINE n == Len(s)
               last == s[n]
    <3>1. n \in 1 .. Len(s)
      BY <1>1, <2>2
    <3>2. LastOf(s) = last
      BY <2>2 DEF LastOf, Last
    <3>3. last # NULL /\ Contains(s, last)
      BY <3>1 DEF Contains
    <3>4. Places(s, last) # {} /\ Min(Places(s, last)) = n
      BY <3>1, PlaceOf
    <3> HIDE DEF last, n
    <3>5. m = SubSeq(s, 1, n) \o <<x>>
      BY <3>2, <3>3, <3>4 DEF Appended, SelectInSeq, Places
    <3>6. SubSeq(s, 1, n) = s
      BY DEF n
    <3>7. m = s \o <<x>>
      BY <3>5, <3>6
    <3> QED BY ONLY <3>7, s \in Seq(S), x \in S
  <2> QED BY <2>1, <2>2
<1>3. m \in Seq(S) /\ Len(m) = Len(s) + 1
  BY <1>2
<1>4. \A k \in 1 .. (Len(s) + 1) : m[k] = IF k = Len(s) + 1 THEN x ELSE s[k]
  BY <1>1, <1>2
<1>5. Range(s) = {s[k] : k \in 1 .. Len(s)} /\ Range(m) = {m[k] : k \in 1 .. Len(m)}
  BY <1>3, RangeOK
<1>6. Distinct(m)
  <2> SUFFICES ASSUME NEW j \in 1 .. (Len(s) + 1), NEW k \in 1 .. (Len(s) + 1), m[j] = m[k], j # k PROVE FALSE
    BY <1>3 DEF Distinct
  <2>1. \A i \in 1 .. Len(s) : s[i] # x
    BY <1>5
  <2>2. CASE j = Len(s) + 1
    BY <1>1, <1>4, <2>1, <2>2
  <2>3. CASE k = Len(s) + 1
    BY <1>1, <1>4, <2>1, <2>3
  <2>4. CASE j # Len(s) + 1 /\ k # Len(s) + 1
    BY <1>1, <1>4, <2>4 DEF Distinct
  <2> QED BY <2>2, <2>3, <2>4
<1>7. Range(m) = Range(s) \cup {x}
  <2>1. ASSUME NEW e \in Range(m) PROVE e \in Range(s) \cup {x}
    BY <1>1, <1>3, <1>4, <1>5
  <2>2. ASSUME NEW e \in Range(s) PROVE e \in Range(m)
    <3>1. PICK k \in 1 .. Len(s) : e = s[k]
      BY <1>5
    <3>2. k \in 1 .. Len(m) /\ m[k] = e
      BY <1>1, <1>3, <1>4, <3>1
    <3> QED BY <1>5, <3>2
  <2>3. x \in Range(m)
    <3>1. Len(s) + 1 \in 1 .. Len(m) /\ m[Len(s) + 1] = x
      BY <1>1, <1>3, <1>4
    <3> QED BY <1>5, <3>1
  <2> QED BY <2>1, <2>2, <2>3
<1> QED BY <1>3, <1>6, <1>7

(* delete_cache unlinks the item, and no other. *)
LEMMA RemovedOK ==
  ASSUME NEW S, NEW s \in Seq(S), Distinct(s), NEW e, e \in Range(s), NEW m, m = RemoveFirst(s, e)
  PROVE  m \in Seq(S) /\ Distinct(m) /\ Range(m) = Range(s) \ {e}
<1>1. Len(s) \in Nat /\ Range(s) = {s[k] : k \in 1 .. Len(s)}
  BY RangeOK
<1>2. PICK n \in 1 .. Len(s) : e = s[n]
  BY <1>1
<1>3. Places(s, e) # {} /\ Min(Places(s, e)) = n
  BY <1>2, PlaceOf
<1>4. m = SubSeq(s, 1, n - 1) \o SubSeq(s, n + 1, Len(s))
  BY <1>2, <1>3 DEF RemoveFirst, RemoveAt, SelectInSeq, Places
<1> DEFINE a == SubSeq(s, 1, n - 1)
           b == SubSeq(s, n + 1, Len(s))
<1>5. a \in Seq(S) /\ Len(a) = n - 1 /\ \A k \in 1 .. (n - 1) : a[k] = s[k]
  BY <1>1
<1>6. b \in Seq(S) /\ Len(b) = Len(s) - n /\ \A k \in 1 .. (Len(s) - n) : b[k] = s[n + k]
  BY <1>1
<1> HIDE DEF a, b
<1>7. m = a \o b
  BY <1>4 DEF a, b
<1>8. m \in Seq(S) /\ Len(m) = Len(a) + Len(b)
  <2>1. a \in Seq(S) /\ b \in Seq(S) /\ m = a \o b
    BY <1>5, <1>6, <1>7
  <2> QED BY ONLY <2>1
<1>9. \A k \in 1 .. (Len(s) - 1) : m[k] = IF k < n THEN s[k] ELSE s[k + 1]
  <2> SUFFICES ASSUME NEW k \in 1 .. (Len(s) - 1) PROVE m[k] = IF k < n THEN s[k] ELSE s[k + 1]
    OBVIOUS
  <2>1. m[k] = IF k <= Len(a) THEN a[k] ELSE b[k - Len(a)]
    <3>1. k \in 1 .. (Len(a) + Len(b))
      BY <1>1, <1>5, <1>6
    <3> QED BY ONLY <1>5, <1>6, <1>7, <3>1
  <2>2. CASE k < n
    BY <1>1, <1>5, <2>1, <2>2
  <2>3. CASE k >= n
    <3>1. k - (n - 1) \in 1 .. (Len(s) - n) /\ n + (k - (n - 1)) = k + 1
      BY <1>1, <2>3
    <3>2. b[k - (n - 1)] = s[k + 1]
      BY <1>6, <3>1
    <3> QED BY <1>1, <1>5, <2>1, <2>3, <3>2
  <2> QED BY <1>1, <2>2, <2>3
<1>10. Len(m) = Len(s) - 1 /\ Range(m) = {m[k] : k \in 1 .. (Len(s) - 1)}
  <2>1. Len(m) = Len(s) - 1
    BY <1>1, <1>5, <1>6, <1>8
  <2>2. Range(m) = {m[k] : k \in 1 .. Len(m)}
    BY <1>8, RangeOK
  <2> QED BY <2>1, <2>2
<1>11. Distinct(m)
  <2> SUFFICES ASSUME NEW j \in 1 .. (Len(s) - 1), NEW k \in 1 .. (Len(s) - 1), m[j] = m[k], j # k PROVE FALSE
    BY <1>10 DEF Distinct
  <2>1. PICK j1 \in 1 .. Len(s) : m[j] = s[j1] /\ j1 = IF j < n THEN j ELSE j + 1
    BY <1>1, <1>9
  <2>2. PICK k1 \in 1 .. Len(s) : m[k] = s[k1] /\ k1 = IF k < n THEN k ELSE k + 1
    BY <1>1, <1>9
  <2>3. j1 # k1
    <3>1. j \in Nat /\ k \in Nat /\ n \in Nat
      BY <1>1
    <3> QED BY <2>1, <2>2, <3>1
  <2> QED BY <2>1, <2>2, <2>3 DEF Distinct
<1>12. ASSUME NEW x \in Range(m) PROVE x \in Range(s) \ {e}
  <2>1. PICK k \in 1 .. (Len(s) - 1) : x = m[k]
    BY <1>10
  <2>2. PICK k1 \in 1 .. Len(s) : x = s[k1] /\ k1 # n
    BY <1>1, <1>9, <2>1
  <2> QED BY <1>1, <1>2, <2>2 DEF Distinct
<1>13. ASSUME NEW x \in Range(s) \ {e} PROVE x \in Range(m)
  <2>1. PICK k \in 1 .. Len(s) : x = s[k] /\ k # n
    BY <1>1, <1>2
  <2>2. PICK k1 \in 1 .. (Len(s) - 1) : m[k1] = x
    <3>1. CASE k < n
      BY <1>1, <1>9, <2>1, <3>1
    <3>2. CASE k > n
      <4>1. k - 1 \in 1 .. (Len(s) - 1) /\ ~(k - 1 < n) /\ (k - 1) + 1 = k
        BY <1>1, <3>2
      <4>2. m[k - 1] = s[k]
        BY <1>9, <4>1
      <4> QED BY <2>1, <4>1, <4>2
    <3> QED BY <1>1, <2>1, <3>1, <3>2
  <2> QED BY <1>10, <2>2
<1> QED BY <1>8, <1>11, <1>12, <1>13

(* The constants. *)
LEMMA ThreadsOK ==
  /\ N \in Nat /\ Threads = 1 .. N /\ Threads \subseteq Nat /\ IsFiniteSet(Threads)
  /\ NULL \notin Threads /\ NULL \notin Headers
<1>1. N \in Nat
  BY ProxyAssumption
<1>2. Threads = 1 .. N /\ Threads \subseteq Nat
  BY <1>1 DEF Threads
<1>3. IsFiniteSet(Threads)
  BY <1>1, <1>2, FS_Interval
<1>4. NULL \notin Nat /\ NULL \notin Headers
  BY ProxyAssumption DEF Headers
<1> QED BY <1>1, <1>2, <1>3, <1>4

(* What a step of thread t leaves alone. *)
Others(t) == \A u \in Threads \ {t} : thread'[u] = thread[u]

(* A thread's record has its fields, with their types. *)
LEMMA LocalsOK ==
  ASSUME NEW r \in Locals
  PROVE  /\ r.pc \in Early \cup Missed \cup {"hit", "closed"} /\ r.req \in Requests \cup {NULL}
         /\ r.lines \in Seq(Text) /\ r.next \in Text /\ r.name \in Text
         /\ r.last \in Headers \cup Threads \cup {NULL} /\ r.header_host \in Text
         /\ r.target \in Threads \cup {NULL} /\ r.eviction \in Threads \cup {NULL} /\ r.volume \in Int
         /\ r.reply \in Answers \cup {NULL}
BY DEF Locals

(* A thread writes its own locals only. *)
LEMMA Writes ==
  ASSUME Typed, NEW t \in Threads, NEW n \in Locals, thread' = [thread EXCEPT ![t] = n]
  PROVE  thread' \in [Threads -> Locals] /\ thread'[t] = n /\ Others(t) 
BY DEF Typed, Others

(* A thread that is at work is alone: those before it are done, those after *)
(* it not accepted.                                                         *)
LEMMA Alone ==
  ASSUME Typed, InTurn, NEW t \in Threads, thread[t].pc \notin {"none", "closed"}
  PROVE  /\ \A u \in Threads \ {t} : thread[u].pc = IF u < t THEN "closed" ELSE "none"
         /\ \A u \in Threads \ {t} : thread[u].pc \in {"none", "closed"}
<1> SUFFICES ASSUME NEW u \in Threads \ {t}
             PROVE  /\ thread[u].pc = IF u < t THEN "closed" ELSE "none"
                    /\ thread[u].pc \in {"none", "closed"}
  OBVIOUS
<1>1. u \in Int /\ t \in Int /\ u # t
  BY DEF Threads
<1>2. CASE u < t
  BY <1>2 DEF InTurn
<1>3. CASE t < u
  BY <1>1, <1>3 DEF InTurn
<1> QED BY <1>1, <1>2, <1>3

(* Its steps do not disturb the order. *)
LEMMA TurnKeeps ==
  ASSUME Typed, InTurn, NEW t \in Threads, thread[t].pc \notin {"none", "closed"}, Others(t)
  PROVE  InTurn'
<1> SUFFICES ASSUME NEW v \in Threads, NEW u \in Threads, u < v, thread'[v].pc # "none"
             PROVE  thread'[u].pc = "closed"
  BY DEF InTurn
<1>0. u \in Int /\ v \in Int /\ t \in Int
  BY DEF Threads
<1>1. CASE v = t
  <2>1. thread'[u] = thread[u]
    BY <1>0, <1>1 DEF Others
  <2> QED BY <1>1, <2>1 DEF InTurn
<1>2. CASE v # t
  <2>1. thread'[v] = thread[v] /\ thread[v].pc # "none"
    BY <1>2 DEF Others
  <2>2. v < t
    BY <1>0, <1>2, <2>1, Alone
  <2>3. u # t
    BY <1>0, <2>2
  <2> QED BY <2>1, <2>3 DEF InTurn, Others
<1> QED BY <1>1, <1>2

(* What ListOK and HostOK say of one thread. *)
ListOf(t, th) ==
  /\ th.pc \in {"none", "read"} => th.next = ""
  /\ th.pc = "read" => \A h \in Mine(t) : h.nth > Len(th.lines)
  /\ th.pc = "init" => th.next \in Names /\ \A h \in Mine(t) : h.nth = 0 => Place(h.name) < Place(th.next)
  /\ th.pc \in {"insert", "link"} /\ th.next = "" => \A h \in Mine(t) : h.nth > Len(th.lines) + 1
  /\ th.pc \in {"insert", "link"} /\ th.next # "" =>
       /\ {th.name, th.next} \subseteq Names /\ Place(th.next) = Place(th.name) + 1
       /\ \A h \in Mine(t) : h.nth = 0 => Place(h.name) < Place(th.name)
  /\ th.pc = "link" => th.last = LastOf(headers)

HostOf(th) ==
  \/ th.pc = "search"
  \/ th.pc = "init" /\ th.next # "Host"
  \/ th.pc \in {"insert", "link"} /\ th.next # "" /\ th.name # "Host"
  => \E h \in Range(headers) : h.name = "Host"

(* The two invariants say it of every thread. *)
LEMMA ListIs ==
  /\ ListOK <=> /\ Distinct(headers)
                /\ \A h \in Range(headers) : h.by \in Threads /\ thread[h.by].pc # "none"
                /\ \A t \in Threads : ListOf(t, thread[t])
  /\ HostOK <=> \A t \in Threads : HostOf(thread[t])
BY DEF ListOK, HostOK, ListOf, HostOf

(* A step that does not change the list. *)
LEMMA ListKeeps ==
  ASSUME ListOK, HostOK, NEW t \in Threads, thread'[t].pc # "none", Others(t), headers' = headers,
         ListOf(t, thread'[t]), HostOf(thread'[t])
  PROVE  ListOK' /\ HostOK'
<1>1. \A u \in Threads : Mine(u)' = Mine(u)
  BY DEF Mine
<1>2. Distinct(headers')
  BY DEF ListOK
<1>3. ASSUME NEW h \in Range(headers') PROVE h.by \in Threads /\ thread'[h.by].pc # "none"
  <2>1. h.by \in Threads /\ thread[h.by].pc # "none"
    BY DEF ListOK
  <2> QED BY <2>1 DEF Others
<1>4. ASSUME NEW u \in Threads PROVE ListOf(u, thread'[u]) /\ HostOf(thread'[u])
  <2>1. CASE u = t
    BY <2>1
  <2>2. CASE u # t
    <3>1. thread'[u] = thread[u]
      BY <2>2 DEF Others
    <3> QED BY <3>1, ListIs
  <2> QED BY <2>1, <2>2
<1>5. ListOK'
  <2>1. \A u \in Threads : ListOf(u, thread'[u])
    BY <1>4
  <2> QED BY <1>1, <1>2, <1>3, <2>1 DEF ListOK, ListOf
<1>6. HostOK'
  <2>1. \A u \in Threads : HostOf(thread'[u])
    BY <1>4
  <2> QED BY <2>1 DEF HostOK, HostOf
<1> QED BY <1>5, <1>6

(* LastUse is a largest element. *)
LEMMA LastUseOK ==
  ASSUME Typed, NEW i \in Threads
  PROVE  /\ LastUse(i) \in Threads /\ i <= LastUse(i)
         /\ LastUse(i) = i \/ thread[LastUse(i)].target = i
         /\ \A u \in Threads : thread[u].target = i => u <= LastUse(i)
<1> DEFINE S == {i} \cup {u \in Threads : thread[u].target = i}
           B == {b \in Nat : \A u \in S : u <= b}
<1>0. S \subseteq Threads /\ Threads \subseteq Nat /\ N \in Nat /\ Threads = 1 .. N /\ i \in S
  BY ThreadsOK
<1>1. N \in B
  BY <1>0
<1>2. PICK b \in B : \A c \in B : b <= c
  <2>1. B \subseteq Nat /\ B # {}
    BY <1>1
  <2> HIDE DEF B
  <2> QED BY <2>1, LeastNat
<1>3. b \in S
  <2> SUFFICES ASSUME b \notin S PROVE FALSE
    OBVIOUS
  <2>1. b \in Nat /\ \A u \in S : u <= b /\ u \in Nat /\ u # b
    BY <1>0, <1>2
  <2>2. i >= 1 /\ i \in Nat /\ i <= b
    BY <1>0, <2>1
  <2> HIDE DEF S
  <2>3. b - 1 \in B
    BY <2>1, <2>2
  <2> HIDE DEF B
  <2> QED BY <1>2, <2>1, <2>3
<1>4. \A u \in S : b >= u
  BY <1>0, <1>2
<1>5. LastUse(i) = Max(S)
  BY DEF LastUse
<1> HIDE DEF B, S
<1>6. Max(S) \in S /\ \A u \in S : Max(S) >= u
  BY <1>3, <1>4 DEF Max
<1> QED BY <1>0, <1>5, <1>6 DEF S

(* And the same as long as no thread finds its key. *)
LEMMA LastUseSame ==
  ASSUME \A u \in Threads : thread'[u].target = thread[u].target, NEW i
  PROVE  LastUse(i)' = LastUse(i)
BY DEF LastUse

(* The part of the invariant that is about answers and the cache. *)
CacheInv == AnswerOK /\ CacheOK /\ VolumeOK /\ TimeOK /\ KeysAreDistinct /\ VictimIsLeastRecent /\ RepliesAreRelayed

(* What AnswerOK says of one thread. *)
AnswerOf(t, th) ==
  /\ th.pc # "none" => th.req \in Requests
  /\ th.pc \in Early \cup Missed => th.target = NULL
  /\ th.target # NULL => th.target < t
  /\ th.pc \in Missed \ {"send"} =>
       /\ th.reply \in Answers /\ th.reply.path = th.req.path
       /\ th.reply.host = th.req.hostname /\ th.reply.whole
       /\ th.reply.size <= MAX_OBJECT_SIZE
  /\ th.pc = "closed" => th.reply \in Answers

(* It is preserved if it holds of the thread that takes the step. *)
LEMMA AnswerKeeps ==
  ASSUME AnswerOK, NEW t \in Threads, Others(t), AnswerOf(t, thread'[t])
  PROVE  AnswerOK'
<1>1. \A u \in Threads : AnswerOf(u, thread[u])
  BY DEF AnswerOK, AnswerOf
<1>2. \A u \in Threads : AnswerOf(u, thread'[u])
  <2> SUFFICES ASSUME NEW u \in Threads PROVE AnswerOf(u, thread'[u])
    OBVIOUS
  <2>1. CASE u = t
    BY <2>1
  <2>2. CASE u # t
    <3>1. thread'[u] = thread[u]
      BY <2>2 DEF Others
    <3> QED BY <1>1, <3>1
  <2> QED BY <2>1, <2>2
<1> QED BY <1>2 DEF AnswerOK, AnswerOf

(* So is RepliesAreRelayed, as long as t does not reopen a connection and   *)
(* leaves alone the answers that others got.                                *)
ReplyOf(th) ==
  /\ th.reply.path = th.req.path
  /\ th.target = NULL => th.reply.host = th.req.hostname /\ th.reply.whole
  /\ th.target # NULL => th.reply = [thread[th.target].reply EXCEPT !.whole = th.reply.text]

(* A step keeps the answers right if the one that it gives is. *)
LEMMA RepliesKeep ==
  ASSUME Typed, AnswerOK, RepliesAreRelayed, InTurn, NEW t \in Threads, Others(t), thread[t].pc # "closed",
         thread'[t].pc = "closed" => ReplyOf(thread'[t]),
         thread'[t] \in Locals, thread'[t].target # NULL => thread'[t].target < t
  PROVE  RepliesAreRelayed'
<1>0. t \in Nat /\ NULL \notin Threads /\ Threads \subseteq Nat
  BY ThreadsOK
<1> SUFFICES ASSUME NEW u \in Threads, thread'[u].pc = "closed"
             PROVE  /\ thread'[u].reply.path = thread'[u].req.path
                    /\ thread'[u].target = NULL => thread'[u].reply.host = thread'[u].req.hostname /\ thread'[u].reply.whole
                    /\ thread'[u].target # NULL =>
                         thread'[u].reply = [thread'[thread'[u].target].reply EXCEPT !.whole = thread'[u].reply.text]
  BY DEF RepliesAreRelayed
<1>1. CASE u = t
  <2>1. ReplyOf(thread'[t])
    BY <1>1
  <2>2. ASSUME thread'[t].target \in Threads PROVE thread'[thread'[t].target] = thread[thread'[t].target]
    <3>1. thread'[t].target < t
      BY <1>0, <2>2
    <3>0. \A a, b \in Nat : a < b => a # b
      OBVIOUS
    <3>a. t \in Nat /\ thread'[t].target \in Nat
      BY <1>0, <2>2
    <3>2. thread'[t].target # t
      BY ONLY <3>0, <3>1, <3>a
    <3> QED BY <2>2, <3>2 DEF Others
  <2>3. CASE thread'[t].target \in Threads
    BY <1>1, <2>1, <2>2, <2>3, <1>0 DEF ReplyOf
  <2>4. CASE thread'[t].target = NULL
    BY <1>1, <2>1, <2>4 DEF ReplyOf
  <2>5. thread'[t].target \in Threads \cup {NULL}
    BY LocalsOK
  <2> QED BY <2>3, <2>4, <2>5
<1>2. CASE u # t
  <2>1. thread'[u] = thread[u] /\ thread[u].pc = "closed"
    BY <1>2 DEF Others
  <2>2. ReplyOf(thread[u])
    BY <2>1 DEF RepliesAreRelayed, ReplyOf
  <2>3. thread[u] \in Locals
    BY DEF Typed
  <2>4. thread[u].target \in Threads \cup {NULL}
    BY <2>3, LocalsOK
  <2>5. thread[u].target # NULL => thread'[thread[u].target] = thread[thread[u].target]
    <3> SUFFICES ASSUME thread[u].target \in Threads, thread[u].target # NULL PROVE thread[u].target # t
      BY <2>4 DEF Others
    <3>1. thread[u].target < u
      BY DEF AnswerOK
    <3> QED BY <1>0, <2>1, <3>1 DEF InTurn
  <2> QED BY <2>1, <2>2, <2>5 DEF ReplyOf
<1> QED BY <1>1, <1>2

(* What CacheOK says of one thread, and of one item. *)
CacheOf(t, th) ==
  /\ th.pc \notin {"add", "closed"} => item[t] = NoItem
  /\ th.pc \in {"fill", "add"} => t \in Range(cache)
  /\ th.pc \in Missed \ {"add"} =>
       \A i \in Range(cache) \ {t} : item[i].path # th.req.path \/ item[i].hostname # th.header_host
  /\ th.pc = "hit" =>
       th.target \in Range(cache) /\ item[th.target].path = th.req.path
  /\ th.pc = "delete" => th.eviction \in Range(cache)
  /\ th.pc = "linkitem" => th.last = LastOf(cache)

ItemOf(i, th) ==
  /\ th.pc \in {"fill", "add", "closed"}
  /\ th.pc # "fill" =>
       /\ th.reply \in Answers /\ item[i].path = th.reply.path
       /\ item[i].path # ""
       /\ item[i].data = [th.reply EXCEPT !.whole = th.reply.text]

(* CacheOK says it of all of them. *)
LEMMA CacheIs ==
  CacheOK <=> /\ Distinct(cache) /\ \A i \in Range(cache) : ItemOf(i, thread[i])
              /\ \A t \in Threads : CacheOf(t, thread[t])
BY DEF CacheOK, ItemOf, CacheOf

(* What VolumeOK says of one thread. *)
VolumeOf(t, th) ==
  /\ th.pc = "subtract" =>
       /\ th.volume = cache_volume /\ th.eviction \in Threads \ Range(cache)
       /\ cache_volume = SizeSum(item, Range(cache)) + item[th.eviction].size
  /\ th.pc = "add" =>
       /\ th.volume = cache_volume
       /\ SizeSum(item, Range(cache)) = cache_volume + th.reply.size
  /\ th.pc \in {"linkitem", "fill", "add"} => cache_volume + th.reply.size <= MAX_CACHE_SIZE

(* VolumeOK, thread by thread. *)
LEMMA VolumeIs ==
  VolumeOK <=> /\ (\A t \in Threads : thread[t].pc \notin {"subtract", "add"}) =>
                    cache_volume = SizeSum(item, Range(cache))
               /\ \A t \in Threads : VolumeOf(t, thread[t])
BY DEF VolumeOK, VolumeOf

(* A thread that is at work leaves the facts about the others alone if it   *)
(* leaves the cache alone.                                                  *)
LEMMA StillCache ==
  ASSUME Typed, InTurn, CacheOK, NEW t \in Threads, thread[t].pc \notin {"closed"}, Others(t),
         UNCHANGED <<cache, item>>, CacheOf(t, thread'[t]), t \in Range(cache) => ItemOf(t, thread'[t])
  PROVE  CacheOK'
<1>1. Distinct(cache') /\ Range(cache') = Range(cache)
  BY DEF CacheOK
<1>2. \A i \in Range(cache) : ItemOf(i, thread[i])
  BY CacheIs
<1>3. \A u \in Threads : CacheOf(u, thread[u])
  BY CacheIs
<1>4. cache \in Seq(Threads)
  BY DEF Typed
<1>5. Range(cache) \subseteq Threads
  BY <1>4, RangeOK
<1>6. ASSUME NEW i \in Range(cache) PROVE ItemOf(i, thread'[i])
  <2>1. CASE i = t
    BY <2>1
  <2>2. CASE i # t
    <3>1. thread'[i] = thread[i]
      BY <1>5, <2>2 DEF Others
    <3> QED BY <1>2, <3>1
  <2> QED BY <2>1, <2>2
<1>7. ASSUME NEW u \in Threads PROVE CacheOf(u, thread'[u])
  <2>1. CASE u = t
    BY <2>1
  <2>2. CASE u # t
    <3>1. thread'[u] = thread[u]
      BY <2>2 DEF Others
    <3> QED BY <1>3, <3>1
  <2> QED BY <2>1, <2>2
<1>8. \A i \in Range(cache) : ItemOf(i, thread[i])'
  BY <1>6 DEF ItemOf
<1>9. \A u \in Threads : CacheOf(u, thread[u])'
  BY <1>1, <1>7 DEF CacheOf
<1> QED BY <1>1, <1>8, <1>9 DEF CacheOK, ItemOf, CacheOf

(* Nor does it change the volume, unless it is changing it. *)
LEMMA StillVolume ==
  ASSUME Typed, InTurn, VolumeOK, NEW t \in Threads, thread[t].pc \notin {"subtract", "add"}, Others(t),
         \A u \in Threads \ {t} : thread[u].pc \in {"none", "closed"},
         cache_volume' = cache_volume, Range(cache') = Range(cache), item' = item,
         thread'[t].pc \notin {"subtract", "add"},
         thread'[t].pc \in {"linkitem", "fill"} => cache_volume + thread'[t].reply.size <= MAX_CACHE_SIZE
  PROVE  VolumeOK'
<1>1. cache_volume = SizeSum(item, Range(cache))
  <2>1. \A u \in Threads : thread[u].pc \notin {"subtract", "add"}
    OBVIOUS
  <2> QED BY <2>1, VolumeIs
<1>2. cache_volume' = SizeSum(item', Range(cache'))
  BY <1>1
<1>3. ASSUME NEW u \in Threads PROVE VolumeOf(u, thread[u])'
  <2>1. CASE u = t
    BY <2>1 DEF VolumeOf
  <2>2. CASE u # t
    <3>1. thread'[u] = thread[u] /\ thread[u].pc \in {"none", "closed"}
      BY <2>2 DEF Others
    <3> QED BY <3>1 DEF VolumeOf
  <2> QED BY <2>1, <2>2
<1> QED BY <1>2, <1>3 DEF VolumeOK, VolumeOf

(* Nor the order of the items, unless it uses one. *)
LEMMA StillTime ==
  ASSUME Typed, TimeOK, NEW t \in Threads, thread[t].pc \notin {"hit", "closed"}, Others(t),
         thread'[t].pc # "hit", thread'[t].target = thread[t].target, clock' = clock,
         \A i \in Range(cache) \ {t} : item'[i] = item[i],
         Range(cache') \subseteq Range(cache) \cup {t}, t \in Range(cache') => thread'[t].pc # "closed"
  PROVE  TimeOK'
<1>1. \A u \in Threads : thread'[u].target = thread[u].target
  BY DEF Others
<1>2. \A i \in Settled' : i \in Settled /\ item'[i] = item[i]
  <2> SUFFICES ASSUME NEW i \in Range(cache'), thread'[i].pc = "closed",
                      \A u \in Threads : thread'[u].pc = "hit" => thread'[u].target # i
               PROVE  i \in Settled /\ item'[i] = item[i]
    BY DEF Settled
  <2>1. i # t /\ i \in Range(cache)
    OBVIOUS
  <2>2. cache \in Seq(Threads)
    BY DEF Typed
  <2>3. i \in Threads
    BY <2>1, <2>2, RangeOK
  <2>4. thread[i].pc = "closed"
    BY <2>1, <2>3 DEF Others
  <2>5. \A u \in Threads : thread[u].pc = "hit" => thread[u].target # i
    BY DEF Others
  <2> QED BY <2>1, <2>4, <2>5 DEF Settled
<1>3. \A i : LastUse(i)' = LastUse(i)
  BY <1>1, LastUseSame
<1>4. ASSUME NEW i \in Settled' PROVE item'[i].access_time <= clock'
  BY <1>2 DEF TimeOK
<1>5. ASSUME NEW i \in Settled', NEW j \in Settled', item'[i].access_time < item'[j].access_time
      PROVE  LastUse(i)' <= LastUse(j)'
  BY <1>2, <1>3, <1>5 DEF TimeOK
<1> QED BY <1>4, <1>5 DEF TimeOK

(* Nor the victim, unless it chooses one. *)
LEMMA StillVictim ==
  ASSUME Typed, NEW t \in Threads, Others(t), \A u \in Threads \ {t} : thread[u].pc \in {"none", "closed"},
         thread'[t].pc # "delete"
  PROVE  VictimIsLeastRecent'
<1> SUFFICES ASSUME NEW u \in Threads, thread'[u].pc = "delete" PROVE FALSE
  BY DEF VictimIsLeastRecent
<1> QED BY DEF Others

(* While a thread is at work the others are not. *)
Only(t) == \A u \in Threads \ {t} : thread[u].pc \in {"none", "closed"}

(* The header list is built without touching the cache. *)
LEMMA EarlyKeeps ==
  ASSUME Inv, NEW t \in Threads, Only(t), thread[t].pc \in Early, thread'[t].pc \in Early \ {"none"},
         thread'[t].req \in Requests, thread'[t].target = thread[t].target, Others(t),
         thread'[t] \in Locals, UNCHANGED <<cache, item, cache_volume, clock>>
  PROVE  CacheInv'
<1>1. thread[t].target = NULL
  BY DEF Inv, AnswerOK
<1>2. AnswerOK'
  <2>1. AnswerOf(t, thread'[t])
    BY <1>1 DEF AnswerOf, Early, Missed, Heading
  <2> QED BY <2>1, AnswerKeeps DEF Inv
<1>3. RepliesAreRelayed'
  <2>1. thread[t].pc # "closed" /\ thread'[t].pc # "closed"
    BY DEF Early, Heading
  <2> QED BY <1>1, <2>1, RepliesKeep DEF Inv
<1>4. CacheOK'
  <2>1. CacheOf(t, thread[t]) /\ (t \in Range(cache) => ItemOf(t, thread[t]))
    BY CacheIs DEF Inv
  <2>2. t \notin Range(cache)
    BY <2>1 DEF ItemOf, Early, Heading
  <2>3. CacheOf(t, thread'[t])
    BY <2>1 DEF CacheOf, Early, Heading, Missed
  <2>4. thread[t].pc \notin {"closed"}
    BY DEF Early, Heading
  <2> QED BY <2>2, <2>3, <2>4, StillCache DEF Inv
<1>5. thread[t].pc \notin {"subtract", "add", "hit", "closed"}
  BY DEF Early, Heading
<1>6. thread'[t].pc \notin {"subtract", "add", "hit", "closed", "linkitem", "fill", "delete"}
  BY DEF Early, Heading
<1>7. VolumeOK'
  BY <1>5, <1>6, StillVolume DEF Inv, Only
<1>8. TimeOK'
  BY <1>5, <1>6, StillTime DEF Inv
<1>9. VictimIsLeastRecent'
  BY <1>6, StillVictim DEF Inv, Only
<1>10. KeysAreDistinct'
  BY DEF Inv, KeysAreDistinct
<1> QED BY <1>2, <1>3, <1>4, <1>7, <1>8, <1>9, <1>10 DEF CacheInv

(* So a step that reads it is right if it is right about the list. *)
LEMMA HeadingKeeps ==
  ASSUME Inv, NEW t \in Threads, thread[t].pc \in Early \ {"none"}, thread'[t].pc \in Early \ {"none"},
         thread'[t].req = thread[t].req, thread'[t].target = thread[t].target, Others(t),
         thread' \in [Threads -> Locals], UNCHANGED <<headers, cache, item, cache_volume, clock>>,
         ListOf(t, thread'[t]), HostOf(thread'[t])
  PROVE  Inv'
<1>1. thread[t].pc \notin {"none", "closed"}
  BY DEF Early, Heading
<1>2. Only(t)
  BY <1>1, Alone DEF Inv, Only
<1>3. thread'[t].req \in Requests /\ thread'[t] \in Locals
  BY <1>1 DEF Inv, AnswerOK
<1>4. CacheInv'
  BY <1>2, <1>3, EarlyKeeps
<1>5. InTurn'
  BY <1>1, TurnKeeps DEF Inv
<1>6. ListOK' /\ HostOK'
  BY ListKeeps DEF Inv
<1>7. Typed'
  BY DEF Inv, Typed
<1> QED BY <1>4, <1>5, <1>6, <1>7 DEF Inv, CacheInv

-----------------------------------------------------------------------------
(* The invariant holds before the first connection. *)
LEMMA InitOK == Init => Inv
<1> SUFFICES ASSUME Init PROVE Inv
  OBVIOUS
<1>1. NoItem \in Items /\ NoThread \in Locals
  <2>a. "none" \in Early
    BY DEF Early
  <2>b. <<>> \in Seq(Text)
    OBVIOUS
  <2>c. "" \in Text /\ 0 \in Int /\ 0 \in Nat
    BY DEF Text
  <2>1. "none" \in Early /\ <<>> \in Seq(Text) /\ "" \in Text /\ 0 \in Int /\ 0 \in Nat
    BY <2>a, <2>b, <2>c
  <2>2. NoThread \in Locals
    BY <2>1 DEF NoThread, Locals
  <2>3. NoItem \in Items
    BY <2>1 DEF NoItem, Items
  <2> QED BY <2>2, <2>3
<1>2. \A t \in Threads : thread[t] = NoThread /\ thread[t].pc = "none" /\ thread[t].target = NULL /\ thread[t].next = ""
  BY DEF Init, NoThread
<1>3. Typed
  <2>1. headers \in Seq(Headers) /\ cache \in Seq(Threads)
    BY DEF Init
  <2>2. item \in [Threads -> Items] /\ thread \in [Threads -> Locals]
    BY <1>1 DEF Init
  <2>3. cache_volume \in 0 .. MAX_CACHE_SIZE /\ clock \in Nat
    <3>1. MAX_CACHE_SIZE \in Nat
      BY ProxyAssumption
    <3> QED BY <3>1 DEF Init
  <2> QED BY <2>1, <2>2, <2>3 DEF Typed
<1>4. Range(headers) = {} /\ Range(cache) = {} /\ Len(headers) = 0 /\ Len(cache) = 0
  <2>1. headers = <<>> /\ cache = <<>>
    BY DEF Init
  <2> QED BY <2>1 DEF Range
<1>5. InTurn
  BY <1>2 DEF InTurn
<1>6. Distinct(headers) /\ Distinct(cache)
  BY <1>4 DEF Distinct
<1>7. ListOK
  BY <1>2, <1>4, <1>6 DEF ListOK
<1>8. HostOK
  BY <1>2 DEF HostOK
<1>9. AnswerOK
  BY <1>2 DEF AnswerOK, Missed
<1>10. CacheOK
  <2>1. \A t \in Threads : CacheOf(t, thread[t])
    BY <1>2 DEF CacheOf, Missed, Init
  <2> QED BY <1>4, <1>6, <2>1, CacheIs
<1>11. VolumeOK
  <2>1. cache_volume = SizeSum(item, Range(cache))
    BY <1>4, SumEmpty DEF Init
  <2>2. \A t \in Threads : VolumeOf(t, thread[t])
    BY <1>2 DEF VolumeOf
  <2> QED BY <2>1, <2>2, VolumeIs
<1>12. TimeOK
  BY <1>4 DEF TimeOK, Settled
<1>13. KeysAreDistinct /\ VictimIsLeastRecent /\ RepliesAreRelayed
  BY <1>2, <1>4 DEF KeysAreDistinct, VictimIsLeastRecent, RepliesAreRelayed
<1> QED BY <1>3, <1>5, <1>7, <1>8, <1>9, <1>10, <1>11, <1>12, <1>13 DEF Inv

(* One connection at a time: a thread that starts is alone. *)
LEMMA AcceptOK ==
  ASSUME Inv, OneAtATime', NEW t \in Threads, NEW r \in Requests, Accept(t, r)
  PROVE  Inv'
<1>0. t \in Nat /\ N \in Nat /\ Threads = 1 .. N
  BY ThreadsOK
<1>1. thread[t].pc = "none" /\ thread[t] \in Locals
  BY DEF Accept, At, Inv, Typed
<1> DEFINE n == [thread[t] EXCEPT !.pc = "read", !.req = r, !.lines = r.lines]
<1>4. n \in Locals /\ n.pc = "read" /\ n.req = r /\ n.target = thread[t].target /\ n.next = thread[t].next
  BY <1>1, ProxyAssumption DEF Locals, Early, Heading
<1>5. thread' = [thread EXCEPT ![t] = n]
  BY DEF Accept
<1> HIDE DEF n
<1>6. thread' \in [Threads -> Locals] /\ thread'[t] = n /\ Others(t)
  BY <1>4, <1>5, Writes DEF Inv
<1>2. \A u \in Threads \ {t} : ~Busy(u)
  <2> SUFFICES ASSUME NEW u \in Threads \ {t}, Busy(u) PROVE FALSE
    OBVIOUS
  <2> DEFINE B == {v \in Threads : thread'[v].pc \notin {"none", "closed"}}
  <2>1. t \in B /\ u \in B
    BY <1>4, <1>6 DEF Busy, Others
  <2>2. IsFiniteSet(B) /\ IsFiniteSet({t}) /\ IsFiniteSet({t, u})
    BY ThreadsOK, FS_Subset, FS_Singleton, FS_AddElement
  <2>3. Cardinality(B) <= 1
    BY DEF OneAtATime, Busy
  <2>4. Cardinality({t, u}) = 2
    <3>1. Cardinality({t} \cup {u}) = Cardinality({t}) + 1 /\ Cardinality({t}) = 1
      BY <2>2, FS_Singleton, FS_AddElement
    <3>2. {t, u} = {t} \cup {u}
      OBVIOUS
    <3> QED BY <3>1, <3>2
  <2> HIDE DEF B
  <2>5. {t, u} \subseteq B
    BY <2>1
  <2>6. Cardinality({t, u}) <= Cardinality(B) /\ Cardinality(B) \in Nat
    BY <2>2, <2>5, FS_Subset, FS_CardinalityType
  <2> QED BY <2>3, <2>4, <2>6
<1>3. Only(t)
  BY <1>2 DEF Only, Busy
<1>7. UNCHANGED <<headers, cache, item, cache_volume, clock>>
  BY DEF Accept
<1>8. CacheInv'
  <2>1. thread[t].pc \in Early /\ thread'[t].pc \in Early \ {"none"} /\ thread'[t].req \in Requests
        /\ thread'[t].target = thread[t].target /\ thread'[t] \in Locals
    BY <1>1, <1>4, <1>6 DEF Early, Heading
  <2> QED BY <1>3, <1>6, <1>7, <2>1, EarlyKeeps
<1>9. ListOK' /\ HostOK'
  <2>1. ListOf(t, thread[t])
    BY ListIs DEF Inv
  <2>2. Mine(t) = {}
    BY <1>1 DEF Mine, Inv, ListOK
  <2>3. ListOf(t, n) /\ HostOf(n) /\ n.pc # "none"
    BY <1>1, <1>4, <2>1, <2>2 DEF ListOf, HostOf
  <2> QED BY <1>6, <1>7, <2>3, ListKeeps DEF Inv
<1>10. InTurn'
  <2> SUFFICES ASSUME NEW v \in Threads, NEW u \in Threads, u < v, thread'[v].pc # "none"
               PROVE  thread'[u].pc = "closed"
    BY DEF InTurn
  <2>0. u \in Int /\ v \in Int /\ t \in Int
    BY <1>0
  <2>1. CASE v = t
    <3>1. u # t /\ u \in 1 .. (t - 1)
      BY <1>0, <2>0, <2>1
    <3>2. thread[u].pc # "none"
      BY <3>1 DEF Accept
    <3> QED BY <1>3, <1>6, <3>1, <3>2 DEF Others, Only
  <2>2. CASE v # t
    <3>1. thread'[v] = thread[v]
      BY <1>6, <2>2 DEF Others
    <3>2. thread[u].pc = "closed"
      BY <3>1 DEF Inv, InTurn
    <3>3. u # t
      BY <1>1, <3>2
    <3> QED BY <1>6, <3>2, <3>3 DEF Others
  <2> QED BY <2>1, <2>2
<1>11. Typed'
  BY <1>6, <1>7 DEF Inv, Typed
<1> QED BY <1>8, <1>9, <1>10, <1>11 DEF Inv, CacheInv

(* The headers that this connection sent are numbered downwards. *)
LEMMA ReadLineOK ==
  ASSUME Inv, NEW t \in Threads, ReadLine(t)
  PROVE  Inv'
<1>1. thread[t].pc = "read" /\ thread[t] \in Locals /\ ListOf(t, thread[t])
  BY ListIs DEF ReadLine, At, Inv, Typed
<1>2. UNCHANGED <<headers, cache, item, cache_volume, clock>>
  BY DEF ReadLine
<1>3. thread[t].pc \in Early \ {"none"}
  BY <1>1 DEF Early, Heading
<1>4. thread[t].next = "" /\ \A h \in Mine(t) : h.nth > Len(thread[t].lines)
  BY <1>1 DEF ListOf
<1>5. \A h \in Mine(t) : h.nth \in Nat
  <2>1. headers \in Seq(Headers)
    BY DEF Inv, Typed
  <2>2. Range(headers) \subseteq Headers
    BY <2>1, RangeOK
  <2> QED BY <2>2 DEF Mine, Headers
<1> DEFINE lines == thread[t].lines
<1>6. lines \in Seq(Text)
  BY <1>1, LocalsOK
<1>7. ASSUME NEW n \in Locals, thread' = [thread EXCEPT ![t] = n], n.pc \in Early \ {"none"},
             n.req = thread[t].req, n.target = thread[t].target, ListOf(t, n), HostOf(n)
      PROVE  Inv'
  <2>1. thread' \in [Threads -> Locals] /\ thread'[t] = n /\ Others(t)
    BY <1>7, Writes DEF Inv
  <2> QED BY <1>2, <1>3, <1>7, <2>1, HeadingKeeps
<1>8. CASE lines = <<>> /\ thread' = [thread EXCEPT ![t].pc = "init", ![t].next = "Host"]
  <2> DEFINE n == [thread[t] EXCEPT !.pc = "init", !.next = "Host"]
  <2>a. "Host" \in Text
    BY DEF Text
  <2>b. n \in Locals
    BY <1>1, <2>a DEF Locals, Early, Heading
  <2>c. n.pc = "init" /\ n.next = "Host" /\ n.req = thread[t].req /\ n.target = thread[t].target
    BY <1>1 DEF Locals
  <2>1. n \in Locals /\ n.pc = "init" /\ n.next = "Host" /\ n.req = thread[t].req /\ n.target = thread[t].target
    BY <2>b, <2>c
  <2>2. thread' = [thread EXCEPT ![t] = n]
    BY <1>8
  <2> HIDE DEF n
  <2>3. \A h \in Mine(t) : h.nth # 0
    <3>1. Len(thread[t].lines) = 0
      BY <1>8
    <3> SUFFICES ASSUME NEW h \in Mine(t) PROVE h.nth # 0
      OBVIOUS
    <3>2. h.nth \in Nat /\ h.nth > 0
      BY <1>4, <1>5, <3>1
    <3> QED BY ONLY <3>2
  <2>4. ListOf(t, n) /\ HostOf(n)
    BY <2>1, <2>3 DEF ListOf, HostOf, Names
  <2>5. n.pc \in Early \ {"none"}
    BY <2>1 DEF Early, Heading
  <2> QED BY <1>7, <2>1, <2>2, <2>4, <2>5
<1>9. CASE lines # <<>>
  <2>0. Tail(lines) \in Seq(Text) /\ Len(lines) = Len(Tail(lines)) + 1 /\ Len(Tail(lines)) \in Nat
        /\ Head(lines) \in Text
    <3> HIDE DEF lines
    <3> QED BY ONLY <1>6, <1>9
  <2>1. \A h \in Mine(t) : h.nth > Len(Tail(lines)) + 1 /\ h.nth > Len(Tail(lines))
    <3> SUFFICES ASSUME NEW h \in Mine(t) PROVE h.nth > Len(Tail(lines)) + 1 /\ h.nth > Len(Tail(lines))
      OBVIOUS
    <3>1. h.nth \in Nat /\ h.nth > Len(lines)
      BY <1>4, <1>5
    <3> HIDE DEF lines
    <3> QED BY ONLY <2>0, <3>1
  <2>2. CASE thread' = [thread EXCEPT ![t].lines = Tail(lines)]
    <3> DEFINE n == [thread[t] EXCEPT !.lines = Tail(lines)]
    <3>1. n \in Locals /\ n.pc = "read" /\ n.next = "" /\ n.req = thread[t].req /\ n.target = thread[t].target
          /\ n.lines = Tail(lines)
      BY <1>1, <1>4, <2>0 DEF Locals
    <3>2. thread' = [thread EXCEPT ![t] = n]
      BY <2>2
    <3> HIDE DEF n
    <3>4. ListOf(t, n) /\ HostOf(n)
      BY <2>1, <3>1 DEF ListOf, HostOf
    <3>5. n.pc \in Early \ {"none"}
      BY <3>1 DEF Early, Heading
    <3> QED BY <1>7, <3>1, <3>2, <3>4, <3>5
  <2>3. CASE thread' = [thread EXCEPT ![t].pc = "insert", ![t].lines = Tail(lines), ![t].name = Head(lines)]
    <3> DEFINE n == [thread[t] EXCEPT !.pc = "insert", !.lines = Tail(lines), !.name = Head(lines)]
    <3>1. n \in Locals /\ n.pc = "insert" /\ n.next = "" /\ n.req = thread[t].req /\ n.target = thread[t].target
          /\ n.lines = Tail(lines)
      BY <1>1, <1>4, <2>0 DEF Locals, Early, Heading
    <3>2. thread' = [thread EXCEPT ![t] = n]
      BY <2>3
    <3> HIDE DEF n
    <3>4. ListOf(t, n) /\ HostOf(n)
      BY <2>1, <3>1 DEF ListOf, HostOf
    <3>5. n.pc \in Early \ {"none"}
      BY <3>1 DEF Early, Heading
    <3> QED BY <1>7, <3>1, <3>2, <3>4, <3>5
  <2> QED BY <1>9, <2>2, <2>3 DEF ReadLine
<1> QED BY <1>8, <1>9 DEF ReadLine

(* insert_header remembers the last header. *)
LEMMA FindLastOK ==
  ASSUME Inv, NEW t \in Threads, FindLast(t)
  PROVE  Inv'
<1>1. thread[t].pc = "insert" /\ thread[t] \in Locals /\ ListOf(t, thread[t]) /\ HostOf(thread[t])
  BY ListIs DEF FindLast, At, Inv, Typed
<1>2. UNCHANGED <<headers, cache, item, cache_volume, clock>>
  BY DEF FindLast
<1>3. LastOf(headers) \in Headers \cup {NULL}
  <2>1. headers \in Seq(Headers)
    BY DEF Inv, Typed
  <2> QED BY <2>1 DEF LastOf, Last
<1> DEFINE n == [thread[t] EXCEPT !.pc = "link", !.last = LastOf(headers)]
<1>4. n \in Locals /\ n.pc = "link" /\ n.last = LastOf(headers)
  BY <1>1, <1>3 DEF Locals, Early, Heading
<1>5. n.next = thread[t].next /\ n.name = thread[t].name /\ n.lines = thread[t].lines
      /\ n.req = thread[t].req /\ n.target = thread[t].target
  BY <1>1 DEF Locals
<1>6. thread' = [thread EXCEPT ![t] = n]
  BY DEF FindLast
<1> HIDE DEF n
<1>7. thread' \in [Threads -> Locals] /\ thread'[t] = n /\ Others(t)
  BY <1>4, <1>6, Writes DEF Inv
<1>8. ListOf(t, n)
  BY <1>1, <1>4, <1>5 DEF ListOf
<1>9. HostOf(n)
  BY <1>1, <1>4, <1>5 DEF HostOf
<1>10. thread[t].pc \in Early \ {"none"} /\ n.pc \in Early \ {"none"}
  BY <1>1, <1>4 DEF Early, Heading
<1> QED BY <1>2, <1>5, <1>7, <1>8, <1>9, <1>10, HeadingKeeps

(* get_header_by_key finds a header whenever there is one. *)
LEMMA KeyOK ==
  ASSUME Typed, NEW name
  PROVE  /\ get_header_by_key(name) # {} <=> \E h \in Range(headers) : h.name = name
         /\ \A h \in get_header_by_key(name) : h \in Range(headers) /\ h.name = name
<1> DEFINE I == {i \in 1 .. Len(headers) : headers[i].name = name}
<1>1. headers \in Seq(Headers)
  BY DEF Typed
<1>2. Range(headers) = {headers[k] : k \in 1 .. Len(headers)}
  BY <1>1, RangeOK
<1>3. I \subseteq Nat
  OBVIOUS
<1>4. get_header_by_key(name) = LET k == IF I # {} THEN Min(I) ELSE 0 IN IF k = 0 THEN {} ELSE {headers[k]}
  BY DEF get_header_by_key, SelectInSeq
<1>5. CASE I = {}
  <2>1. get_header_by_key(name) = {}
    BY <1>4, <1>5
  <2> QED BY <1>2, <1>5, <2>1
<1>6. CASE I # {}
  <2>1. Min(I) \in I
    <3> HIDE DEF I
    <3> QED BY <1>3, <1>6, MinOK
  <2>2. PICK k \in 1 .. Len(headers) : k = Min(I) /\ headers[k].name = name
    BY <2>1
  <2>3. k # 0
    OBVIOUS
  <2> HIDE DEF I
  <2>4. get_header_by_key(name) = {headers[k]}
    BY <1>4, <1>6, <2>2, <2>3
  <2> QED BY <1>2, <2>2, <2>4
<1> QED BY <1>5, <1>6

(* init_header goes through the names in their order. *)
LEMMA AfterOK ==
  ASSUME NEW name \in Names \ {"done"}
  PROVE  After(name) \in Names /\ Place(After(name)) = Place(name) + 1
<1> DEFINE I(x) == {i \in 1 .. Len(Defaults) : Defaults[i] = x}
<1>0. Len(Defaults) = 4 /\ Defaults[1] = "Host" /\ Defaults[2] = "User-Agent" /\ Defaults[3] = "Connection"
      /\ Defaults[4] = "Proxy-Connection"
  BY DEF Defaults
<1>1. After(name) = LET k == IF I(name) # {} THEN Min(I(name)) ELSE 0
                    IN  IF k = Len(Defaults) THEN "done" ELSE Defaults[k + 1]
  BY DEF After, SelectInSeq
<1>2. \A k \in Nat : Min({k}) = k
  <2> SUFFICES ASSUME NEW k \in Nat PROVE Min({k}) = k
    OBVIOUS
  <2>1. {k} \subseteq Nat /\ {k} # {}
    OBVIOUS
  <2>2. Min({k}) \in {k}
    BY <2>1, MinOK
  <2> QED BY <2>2
<1>3. I("Host") = {1} /\ I("User-Agent") = {2} /\ I("Connection") = {3} /\ I("Proxy-Connection") = {4}
  BY <1>0
<1> HIDE DEF I
<1>4. Place("Host") = 1 /\ Place("User-Agent") = 2 /\ Place("Connection") = 3 /\ Place("Proxy-Connection") = 4
      /\ Place("done") = 5
  BY DEF Place
<1>5. CASE name = "Host"
  <2>1. After(name) = "User-Agent"
    BY <1>0, <1>1, <1>2, <1>3, <1>5
  <2> QED BY <1>4, <1>5, <2>1 DEF Names
<1>6. CASE name = "User-Agent"
  <2>1. After(name) = "Connection"
    BY <1>0, <1>1, <1>2, <1>3, <1>6
  <2> QED BY <1>4, <1>6, <2>1 DEF Names
<1>7. CASE name = "Connection"
  <2>1. After(name) = "Proxy-Connection"
    BY <1>0, <1>1, <1>2, <1>3, <1>7
  <2> QED BY <1>4, <1>7, <2>1 DEF Names
<1>8. CASE name = "Proxy-Connection"
  <2>1. After(name) = "done"
    BY <1>0, <1>1, <1>2, <1>3, <1>8
  <2> QED BY <1>4, <1>8, <2>1 DEF Names
<1> QED BY <1>5, <1>6, <1>7, <1>8 DEF Names

(* The names are strings, and none is empty. *)
LEMMA NamesOK ==
  /\ Names \subseteq Text /\ "" \notin Names
  /\ \A x \in Names : Place(x) \in Nat /\ (x # "Host" => Place(x) > 1)
<1>1. Names \subseteq Text
  BY DEF Names, Text
<1>2. "" \notin Names
  BY DEF Names
<1>3. \A x : Place(x) \in Nat
  BY DEF Place
<1>4. \A x \in Names : x # "Host" => Place(x) > 1
  BY DEF Place, Names
<1> QED BY <1>1, <1>2, <1>3, <1>4

(* init_header adds what is missing, and Host first. *)
LEMMA InitHeaderOK ==
  ASSUME Inv, NEW t \in Threads, InitHeader(t)
  PROVE  Inv'
<1>1. thread[t].pc = "init" /\ thread[t] \in Locals /\ ListOf(t, thread[t]) /\ HostOf(thread[t])
  BY ListIs DEF InitHeader, At, Inv, Typed
<1>2. UNCHANGED <<headers, cache, item, cache_volume, clock>>
  BY DEF InitHeader
<1> DEFINE name == thread[t].next
           HasHost == \E h \in Range(headers) : h.name = "Host"
<1>3. name \in Names /\ \A h \in Mine(t) : h.nth = 0 => Place(h.name) < Place(name)
  BY <1>1 DEF ListOf
<1>4. name # "Host" => HasHost
  BY <1>1 DEF HostOf
<1>5. thread[t].pc \in Early \ {"none"}
  BY <1>1 DEF Early, Heading
<1>6. ASSUME NEW n \in Locals, thread' = [thread EXCEPT ![t] = n], n.pc \in Early \ {"none"},
             n.req = thread[t].req, n.target = thread[t].target, ListOf(t, n), HostOf(n)
      PROVE  Inv'
  <2>1. thread' \in [Threads -> Locals] /\ thread'[t] = n /\ Others(t)
    BY <1>6, Writes DEF Inv
  <2> QED BY <1>2, <1>5, <1>6, <2>1, HeadingKeeps
<1>7. CASE name = "done" /\ thread' = [thread EXCEPT ![t].pc = "search"]
  <2> DEFINE n == [thread[t] EXCEPT !.pc = "search"]
  <2>1. n \in Locals /\ n.pc = "search" /\ n.req = thread[t].req /\ n.target = thread[t].target
    BY <1>1 DEF Locals, Early
  <2>2. thread' = [thread EXCEPT ![t] = n]
    BY <1>7
  <2> HIDE DEF n
  <2>3. ListOf(t, n)
    BY <2>1 DEF ListOf
  <2>4. HostOf(n)
    BY <1>4, <1>7 DEF HostOf
  <2>5. n.pc \in Early \ {"none"}
    BY <2>1 DEF Early, Heading
  <2> QED BY <1>6, <2>1, <2>2, <2>3, <2>4, <2>5
<1>8. CASE name # "done"
  <2> DEFINE after == After(name)
  <2>0. after \in Names /\ Place(after) = Place(name) + 1 /\ after \in Text /\ name \in Text
    BY <1>3, <1>8, AfterOK, NamesOK
  <2> HIDE DEF after
  <2>1. CASE get_header_by_key(name) # {} /\ thread' = [thread EXCEPT ![t].next = after]
    <3> DEFINE n == [thread[t] EXCEPT !.next = after]
    <3>1. n \in Locals /\ n.pc = "init" /\ n.req = thread[t].req /\ n.target = thread[t].target /\ n.next = after
      BY <1>1, <2>0 DEF Locals
    <3>2. thread' = [thread EXCEPT ![t] = n]
      BY <2>1
    <3> HIDE DEF n
    <3>3. \A h \in Mine(t) : h.nth = 0 => Place(h.name) < Place(after)
      <4> SUFFICES ASSUME NEW h \in Mine(t), h.nth = 0 PROVE Place(h.name) < Place(after)
        OBVIOUS
      <4>1. Place(h.name) < Place(name)
        BY <1>3
      <4>2. \A x : Place(x) \in Nat
        BY DEF Place
      <4> QED BY <2>0, <4>1, <4>2
    <3>4. ListOf(t, n)
      BY <2>0, <3>1, <3>3 DEF ListOf
    <3>5. HasHost
      <4>1. \E h \in Range(headers) : h.name = name
        BY <2>1, KeyOK DEF Inv
      <4> QED BY <1>4, <4>1
    <3>6. HostOf(n)
      BY <3>5 DEF HostOf
    <3>7. n.pc \in Early \ {"none"}
      BY <3>1 DEF Early, Heading
    <3> QED BY <1>6, <3>1, <3>2, <3>4, <3>6, <3>7
  <2>2. CASE thread' = [thread EXCEPT ![t].pc = "insert", ![t].name = name, ![t].next = after]
    <3> DEFINE n == [thread[t] EXCEPT !.pc = "insert", !.name = name, !.next = after]
    <3>1. n \in Locals
      BY <1>1, <2>0 DEF Locals, Early, Heading
    <3>2. n.pc = "insert" /\ n.req = thread[t].req /\ n.target = thread[t].target /\ n.next = after /\ n.name = name
      BY <1>1 DEF Locals
    <3>3. thread' = [thread EXCEPT ![t] = n]
      BY <2>2
    <3> HIDE DEF n
    <3>4. ListOf(t, n)
      BY <1>3, <2>0, <3>2, NamesOK DEF ListOf
    <3>5. HostOf(n)
      BY <1>4, <3>2 DEF HostOf
    <3>6. n.pc \in Early \ {"none"}
      BY <3>2 DEF Early, Heading
    <3> QED BY <1>6, <3>1, <3>2, <3>3, <3>4, <3>5, <3>6
  <2> QED BY <1>8, <2>1, <2>2 DEF InitHeader, after
<1> QED BY <1>7, <1>8 DEF InitHeader, Goto

(* Linking a header behind the last one loses none. *)
LEMMA LinkOK ==
  ASSUME Inv, NEW t \in Threads, Link(t)
  PROVE  Inv'
<1>1. thread[t].pc = "link" /\ thread[t] \in Locals /\ ListOf(t, thread[t]) /\ HostOf(thread[t])
  BY ListIs DEF Link, At, Inv, Typed
<1>2. UNCHANGED <<cache, item, cache_volume, clock>>
  BY DEF Link
<1>3. thread[t].next \in Text /\ thread[t].name \in Text /\ thread[t].lines \in Seq(Text) /\ Len(thread[t].lines) \in Nat
  BY <1>1, LocalsOK
<1>4. Only(t)
  BY <1>1, Alone DEF Inv, Only
<1>5. thread[t].req \in Requests /\ thread[t].req.hostname \in Text
  <2>1. thread[t].req \in Requests
    BY <1>1 DEF Inv, AnswerOK
  <2> QED BY <2>1, ProxyAssumption
<1> DEFINE m == IF thread[t].next = "" THEN Len(thread[t].lines) + 1 ELSE 0
<1>6. m \in Nat
  <2>1. CASE thread[t].next = ""
    <3>1. m = Len(thread[t].lines) + 1
      BY <2>1
    <3> HIDE DEF m
    <3> QED BY <1>3, <3>1
  <2>2. CASE thread[t].next # ""
    BY <2>2
  <2> QED BY <2>1, <2>2
<1> DEFINE x == NewHeader(t)
<1>7. x.by = t /\ x.name = thread[t].name /\ x.nth = m /\ x \in Headers
  <2>1. t \in Nat
    BY ThreadsOK
  <2>2. x = [by |-> t, name |-> thread[t].name, data |-> thread[t].req.hostname, nth |-> m]
    BY DEF NewHeader
  <2> HIDE DEF m, x
  <2> QED BY <1>3, <1>5, <1>6, <2>1, <2>2 DEF Headers
<1>8. headers \in Seq(Headers) /\ Distinct(headers) /\ Range(headers) \subseteq Headers
  <2>1. headers \in Seq(Headers) /\ Distinct(headers)
    BY DEF Inv, Typed, ListOK
  <2> QED BY <2>1, RangeOK
<1>p. \A y : Place(y) \in Nat
  BY DEF Place
<1>9. x \notin Range(headers)
  <2> SUFFICES ASSUME x \in Range(headers) PROVE FALSE
    OBVIOUS
  <2>1. x \in Mine(t)
    BY <1>7 DEF Mine
  <2> HIDE DEF x
  <2>2. CASE thread[t].next = ""
    <3>1. x.nth > Len(thread[t].lines) + 1
      BY <1>1, <2>1, <2>2 DEF ListOf
    <3>2. x.nth = Len(thread[t].lines) + 1
      BY <1>7, <2>2
    <3> QED BY <1>3, <3>1, <3>2
  <2>3. CASE thread[t].next # ""
    <3>1. x.nth = 0
      BY <1>7, <2>3
    <3>2. Place(x.name) < Place(thread[t].name)
      BY <1>1, <2>1, <2>3, <3>1 DEF ListOf
    <3>3. Place(x.name) = Place(thread[t].name) /\ Place(x.name) \in Nat
      BY <1>7, <1>p
    <3> QED BY ONLY <3>2, <3>3
  <2> QED BY <2>2, <2>3
<1>10. headers' = Appended(headers, LastOf(headers), x)
  BY <1>1 DEF Link, ListOf
<1> HIDE DEF x
<1>11. headers' \in Seq(Headers) /\ Distinct(headers') /\ Range(headers') = Range(headers) \cup {x}
  <2>1. NULL \notin Headers
    BY ThreadsOK
  <2>2. PICK hs : hs = Appended(headers, LastOf(headers), x)
    OBVIOUS
  <2>3. x \in Headers
    BY <1>7
  <2>4. hs \in Seq(Headers) /\ Distinct(hs) /\ Range(hs) = Range(headers) \cup {x}
    BY <1>8, <1>9, <2>1, <2>2, <2>3, AppendedOK
  <2> QED BY <1>10, <2>2, <2>4
<1> DEFINE pc == IF thread[t].next = "" THEN "read" ELSE "init"
           n == [thread[t] EXCEPT !.pc = pc]
<1>12. n \in Locals
  BY <1>1 DEF Locals, Early, Heading
<1>13. n.pc = pc /\ n.next = thread[t].next /\ n.name = thread[t].name /\ n.lines = thread[t].lines
       /\ n.req = thread[t].req /\ n.target = thread[t].target
  BY <1>1 DEF Locals
<1>14. thread' = [thread EXCEPT ![t] = n]
  BY DEF Link, Goto
<1> HIDE DEF n
<1>15. thread' \in [Threads -> Locals] /\ thread'[t] = n /\ Others(t)
  BY <1>12, <1>14, Writes DEF Inv
<1>16. n.pc \in Early \ {"none"} /\ thread[t].pc \in Early
  BY <1>1, <1>13 DEF Early, Heading
<1>17. CacheInv'
  BY <1>2, <1>4, <1>5, <1>12, <1>13, <1>15, <1>16, EarlyKeeps
<1>18. InTurn'
  <2>1. thread[t].pc \notin {"none", "closed"}
    BY <1>1
  <2> QED BY <1>15, <2>1, TurnKeeps DEF Inv
<1>19. Typed'
  BY <1>2, <1>11, <1>15 DEF Inv, Typed
<1>20. Mine(t)' = Mine(t) \cup {x} /\ \A u \in Threads \ {t} : Mine(u)' = Mine(u)
  BY <1>7, <1>11 DEF Mine
<1>21. ListOf(t, thread[t])'
  <2>1. CASE thread[t].next = ""
    <3>1. n.pc = "read" /\ n.next = ""
      BY <1>13, <2>1
    <3>2. ASSUME NEW h \in Mine(t)' PROVE h.nth > Len(n.lines)
      <4>1. CASE h = x
        <5>1. h.nth = Len(thread[t].lines) + 1
          BY <1>7, <2>1, <4>1
        <5>2. n.lines = thread[t].lines /\ Len(thread[t].lines) \in Nat
          BY <1>3, <1>13
        <5> QED BY ONLY <5>1, <5>2
      <4>2. CASE h \in Mine(t)
        <5>1. h.nth > Len(thread[t].lines) + 1
          BY <1>1, <2>1, <4>2 DEF ListOf
        <5>2. h.nth \in Nat
          BY <1>8, <4>2 DEF Mine, Headers
        <5>3. n.lines = thread[t].lines /\ Len(thread[t].lines) \in Nat
          BY <1>3, <1>13
        <5> QED BY ONLY <5>1, <5>2, <5>3
      <4> QED BY <1>20, <4>1, <4>2
    <3> QED BY <1>15, <3>1, <3>2 DEF ListOf
  <2>2. CASE thread[t].next # ""
    <3>1. n.pc = "init"
      BY <1>13, <2>2
    <3>2. {thread[t].name, thread[t].next} \subseteq Names /\ Place(thread[t].next) = Place(thread[t].name) + 1
      BY <1>1, <2>2 DEF ListOf
    <3>3. ASSUME NEW h \in Mine(t)', h.nth = 0 PROVE Place(h.name) < Place(n.next)
      <4>1. CASE h = x
        <5>1. h.name = thread[t].name /\ n.next = thread[t].next
          BY <1>7, <1>13, <4>1
        <5> QED BY ONLY <1>p, <3>2, <5>1
      <4>2. CASE h \in Mine(t)
        <5>1. Place(h.name) < Place(thread[t].name)
          BY <1>1, <2>2, <3>3, <4>2 DEF ListOf
        <5>2. n.next = thread[t].next
          BY <1>13
        <5> QED BY ONLY <1>p, <3>2, <5>1, <5>2
      <4> QED BY <1>20, <4>1, <4>2
    <3> QED BY <1>13, <1>15, <3>1, <3>2, <3>3 DEF ListOf
  <2> QED BY <2>1, <2>2
<1>22. ListOK'
  <2>1. ASSUME NEW u \in Threads PROVE ListOf(u, thread[u])'
    <3>1. CASE u = t
      BY <1>21, <3>1
    <3>2. CASE u # t
      <4>1. thread'[u] = thread[u] /\ thread[u].pc \in {"none", "closed"} /\ ListOf(u, thread[u])
        BY <1>4, <1>15, <3>2, ListIs DEF Others, Only, Inv
      <4> QED BY <4>1 DEF ListOf
    <3> QED BY <3>1, <3>2
  <2>2. ASSUME NEW h \in Range(headers') PROVE h.by \in Threads /\ thread'[h.by].pc # "none"
    <3>1. thread'[t].pc # "none"
      BY <1>15, <1>16
    <3>2. CASE h = x
      BY <1>7, <3>1, <3>2
    <3>3. CASE h \in Range(headers)
      <4>1. h.by \in Threads /\ thread[h.by].pc # "none"
        BY <3>3 DEF Inv, ListOK
      <4> QED BY <1>15, <3>1, <4>1 DEF Others
    <3> QED BY <1>11, <3>2, <3>3
  <2> QED BY <1>11, <2>1, <2>2 DEF ListOK, ListOf
<1>23. HostOK'
  <2>1. ASSUME NEW u \in Threads PROVE HostOf(thread[u])'
    <3>1. CASE u = t
      <4> SUFFICES ASSUME thread[t].next # "", thread[t].next # "Host"
                   PROVE  \E h \in Range(headers') : h.name = "Host"
        BY <1>13, <1>15, <3>1 DEF HostOf
      <4>1. CASE thread[t].name = "Host"
        BY <1>7, <1>11, <4>1
      <4>2. CASE thread[t].name # "Host"
        BY <1>1, <1>11, <4>2 DEF HostOf
      <4> QED BY <4>1, <4>2
    <3>2. CASE u # t
      BY <1>4, <1>15, <3>2 DEF Others, Only, HostOf
    <3> QED BY <3>1, <3>2
  <2> QED BY <2>1 DEF HostOK, HostOf
<1> QED BY <1>17, <1>18, <1>19, <1>22, <1>23 DEF Inv, CacheInv

(* search_cache finds an item whenever there is one for that key. *)
LEMMA SearchFinds ==
  ASSUME Typed, NEW path, NEW host
  PROVE  /\ search_cache(path, host) # {} <=> \E i \in Range(cache) : item[i].path = path /\ item[i].hostname = host
         /\ \A i \in search_cache(path, host) : i \in Range(cache) /\ item[i].path = path
<1> DEFINE I == {k \in 1 .. Len(cache) : item[cache[k]].path = path /\ item[cache[k]].hostname = host}
<1>1. cache \in Seq(Threads)
  BY DEF Typed
<1>2. Range(cache) = {cache[k] : k \in 1 .. Len(cache)}
  BY <1>1, RangeOK
<1>3. I \subseteq Nat
  OBVIOUS
<1>4. search_cache(path, host) = LET k == IF I # {} THEN Min(I) ELSE 0 IN IF k = 0 THEN {} ELSE {cache[k]}
  BY DEF search_cache, SelectInSeq
<1>5. CASE I = {}
  <2>1. search_cache(path, host) = {}
    BY <1>4, <1>5
  <2> QED BY <1>2, <1>5, <2>1
<1>6. CASE I # {}
  <2>1. Min(I) \in I
    <3> HIDE DEF I
    <3> QED BY <1>3, <1>6, MinOK
  <2>2. PICK k \in 1 .. Len(cache) : k = Min(I) /\ item[cache[k]].path = path /\ item[cache[k]].hostname = host
    BY <2>1
  <2>3. k # 0
    OBVIOUS
  <2> HIDE DEF I
  <2>4. search_cache(path, host) = {cache[k]}
    BY <1>4, <1>6, <2>2, <2>3
  <2> QED BY <1>2, <2>2, <2>4
<1> QED BY <1>5, <1>6

(* The list of items. *)
LEMMA CacheList ==
  ASSUME Inv
  PROVE  /\ cache \in Seq(Threads) /\ Range(cache) \subseteq Threads /\ IsFiniteSet(Range(cache))
         /\ \A i \in Threads : item[i] \in Items /\ item[i].size \in Nat /\ item[i].access_time \in Nat
         /\ \A i \in Range(cache) : ItemOf(i, thread[i]) /\ item[i].size \in Nat
         /\ \A t \in Threads : CacheOf(t, thread[t])
         /\ \A t \in Threads : thread[t] \in Locals
<1>1. cache \in Seq(Threads) /\ item \in [Threads -> Items] /\ thread \in [Threads -> Locals]
  BY DEF Inv, Typed
<1>2. Range(cache) \subseteq Threads
  BY <1>1, RangeOK
<1>3. IsFiniteSet(Range(cache))
  BY <1>2, ThreadsOK, FS_Subset
<1>4. \A i \in Threads : item[i] \in Items /\ item[i].size \in Nat /\ item[i].access_time \in Nat
  BY <1>1 DEF Items
<1>5. CacheOK
  BY DEF Inv
<1> QED BY <1>1, <1>2, <1>3, <1>4, <1>5, CacheIs

(* The steps from Search on do not use the list of headers. *)
LEMMA RestKeeps ==
  ASSUME Inv, NEW t \in Threads, thread[t].pc \notin {"none", "closed"}, Others(t), headers' = headers,
         thread'[t].pc \notin Heading \cup {"none", "search"}
  PROVE  InTurn' /\ ListOK' /\ HostOK' /\ Only(t)
<1>1. InTurn'
  BY TurnKeeps DEF Inv
<1>2. ListOf(t, thread'[t]) /\ HostOf(thread'[t])
  BY DEF ListOf, HostOf, Heading
<1>3. ListOK' /\ HostOK'
  BY <1>2, ListKeeps DEF Inv
<1>4. Only(t)
  BY Alone DEF Inv, Only
<1> QED BY <1>1, <1>3, <1>4

(* An item that is on the list is not that of a thread that has not linked *)
(* its own, and its maker is done.                                         *)
LEMMA Listed ==
  ASSUME Inv, NEW t \in Threads, thread[t].pc \notin {"none", "closed", "fill", "add"}
  PROVE  /\ t \notin Range(cache)
         /\ \A i \in Range(cache) : i \in Threads /\ i < t /\ thread[i].pc = "closed"
<1>1. t \notin Range(cache)
  BY CacheList DEF ItemOf
<1>2. ASSUME NEW i \in Range(cache) PROVE i \in Threads /\ i < t /\ thread[i].pc = "closed"
  <2>1. i \in Threads \ {t} /\ thread[i].pc \in {"fill", "add", "closed"}
    BY <1>1, CacheList DEF ItemOf
  <2>2. thread[i].pc = IF i < t THEN "closed" ELSE "none"
    BY <2>1, Alone DEF Inv
  <2> QED BY <2>1, <2>2
<1> QED BY <1>1, <1>2

(* LastUse depends on who has found the item. *)
LEMMA LastUseAlike ==
  ASSUME NEW i, \A u \in Threads : thread'[u].target = i <=> thread[u].target = i
  PROVE  LastUse(i)' = LastUse(i)
<1>1. {u \in Threads : thread'[u].target = i} = {u \in Threads : thread[u].target = i}
  OBVIOUS
<1>2. LastUse(i)' = Max({i} \cup {u \in Threads : thread'[u].target = i})
  BY DEF LastUse
<1> QED BY <1>1, <1>2 DEF LastUse

(* server_handler finds a Host header, and the item of its key or none. *)
LEMMA SearchOK ==
  ASSUME Inv, NEW t \in Threads, Search(t)
  PROVE  Inv'
<1>1. thread[t].pc = "search" /\ thread[t] \in Locals /\ HostOf(thread[t]) /\ thread[t].target = NULL
      /\ thread[t].req \in Requests
  BY ListIs DEF Search, At, Inv, Typed, AnswerOK, Early
<1>2. UNCHANGED <<headers, cache, item, cache_volume, clock>>
  BY DEF Search
<1> DEFINE hosts == get_header_by_key("Host")
           host  == IF hosts = {} THEN "" ELSE (CHOOSE h \in hosts : TRUE).data
           found == search_cache(thread[t].req.path, host)
<1>3. hosts # {} /\ host \in Text
  <2>1. \E h \in Range(headers) : h.name = "Host"
    BY <1>1 DEF HostOf
  <2>2. hosts # {} /\ hosts \subseteq Range(headers)
    BY <2>1, KeyOK DEF Inv
  <2>3. headers \in Seq(Headers)
    BY DEF Inv, Typed
  <2>4. Range(headers) \subseteq Headers
    BY <2>3, RangeOK
  <2> HIDE DEF hosts
  <2>5. (CHOOSE h \in hosts : TRUE) \in Headers
    BY <2>2, <2>4
  <2>6. \A h \in Headers : h.data \in Text
    BY DEF Headers
  <2> QED BY <2>2, <2>5, <2>6
<1> HIDE DEF host
<1>4. /\ found # {} <=> \E i \in Range(cache) : item[i].path = thread[t].req.path /\ item[i].hostname = host
      /\ \A i \in found : i \in Range(cache) /\ item[i].path = thread[t].req.path
  BY SearchFinds DEF Inv
<1>5. t \notin Range(cache) /\ (\A i \in Range(cache) : i \in Threads /\ i < t /\ thread[i].pc = "closed")
  BY <1>1, Listed
<1>6. CacheOf(t, thread[t])
  BY CacheList
<1>7. ASSUME NEW n \in Locals, thread' = [thread EXCEPT ![t] = n], n.pc \in {"hit", "send"}, n.req = thread[t].req,
             n.target = NULL \/ n.target < t, AnswerOf(t, n), CacheOf(t, n), 
             thread'[t] = n /\ Others(t) => TimeOK'
      PROVE  Inv'
  <2>1. thread' \in [Threads -> Locals] /\ thread'[t] = n /\ Others(t)
    BY <1>7, Writes DEF Inv
  <2>2. InTurn' /\ ListOK' /\ HostOK' /\ Only(t)
    BY <1>1, <1>2, <1>7, <2>1, RestKeeps DEF Heading
  <2>3. Typed'
    BY <1>2, <2>1 DEF Inv, Typed
  <2>4. AnswerOK'
    BY <1>7, <2>1, AnswerKeeps DEF Inv
  <2>5. RepliesAreRelayed'
    BY <1>1, <1>7, <2>1, RepliesKeep DEF Inv
  <2>6. CacheOK'
    BY <1>1, <1>2, <1>5, <1>7, <2>1, StillCache DEF Inv
  <2>7. VolumeOK'
    BY <1>1, <1>2, <1>7, <2>1, <2>2, StillVolume DEF Inv, Only
  <2>8. VictimIsLeastRecent'
    BY <1>7, <2>1, <2>2, StillVictim DEF Inv, Only
  <2>9. KeysAreDistinct'
    BY <1>2 DEF Inv, KeysAreDistinct
  <2>10. TimeOK'
    BY <1>7, <2>1
  <2> QED BY <2>2, <2>3, <2>4, <2>5, <2>6, <2>7, <2>8, <2>9, <2>10 DEF Inv
<1>8. CASE found = {}
  <2> DEFINE n == [thread[t] EXCEPT !.pc = "send", !.target = NULL, !.header_host = host]
  <2>1. n \in Locals
    BY <1>1, <1>3 DEF Locals, Missed
  <2>2. n.pc = "send" /\ n.target = NULL /\ n.header_host = host /\ n.req = thread[t].req
    BY <1>1 DEF Locals
  <2>3. thread' = [thread EXCEPT ![t] = n]
    BY <1>3, <1>8 DEF Search, host
  <2> HIDE DEF n
  <2>4. AnswerOf(t, n)
    BY <1>1, <2>2 DEF AnswerOf, Missed, Early
  <2>5. CacheOf(t, n)
    BY <1>1, <1>4, <1>6, <1>8, <2>2 DEF CacheOf
  <2>6. thread'[t] = n /\ Others(t) => TimeOK'
    BY <1>1, <1>2, <1>5, <2>2, StillTime DEF Inv
  <2> QED BY <1>7, <2>1, <2>2, <2>3, <2>4, <2>5, <2>6
<1>9. CASE found # {}
  <2> DEFINE i == CHOOSE i \in found : TRUE
             n == [thread[t] EXCEPT !.pc = "hit", !.target = i, !.header_host = host]
  <2>0. i \in Range(cache) /\ item[i].path = thread[t].req.path
    BY <1>4, <1>9
  <2>1. i \in Threads /\ i < t /\ thread[i].pc = "closed"
    BY <1>5, <2>0
  <2>2. thread' = [thread EXCEPT ![t] = n]
    BY <1>3, <1>9 DEF Search, host
  <2> HIDE DEF i
  <2>3. n \in Locals
    BY <1>1, <1>3, <2>1 DEF Locals
  <2>4. n.pc = "hit" /\ n.target = i /\ n.header_host = host /\ n.req = thread[t].req
    BY <1>1 DEF Locals
  <2> HIDE DEF n
  <2>5. AnswerOf(t, n)
    BY <1>1, <2>1, <2>4 DEF AnswerOf, Missed, Early, Heading
  <2>6. CacheOf(t, n)
    BY <1>1, <1>6, <2>0, <2>4 DEF CacheOf, Missed
  <2>7. ASSUME thread'[t] = n, Others(t) PROVE TimeOK'
    <3>1. \A j \in Settled' : j \in Settled /\ j # i
      <4> SUFFICES ASSUME NEW j \in Range(cache), thread'[j].pc = "closed",
                          \A u \in Threads : thread'[u].pc = "hit" => thread'[u].target # j
                   PROVE  j \in Settled /\ j # i
        BY <1>2 DEF Settled
      <4>1. j # t /\ j # i /\ j \in Threads
        BY <1>5, <2>4, <2>7
      <4>2. thread[j].pc = "closed"
        BY <2>7, <4>1 DEF Others
      <4>3. \A u \in Threads : thread[u].pc = "hit" => thread[u].target # j
        BY <1>1, <2>7 DEF Others
      <4> QED BY <4>1, <4>2, <4>3 DEF Settled
    <3>2. \A j \in Settled' : LastUse(j)' = LastUse(j)
      <4> SUFFICES ASSUME NEW j \in Settled' PROVE LastUse(j)' = LastUse(j)
        OBVIOUS
      <4>1. j # NULL /\ j # i
        <5>1. j \in Range(cache)
          BY <3>1 DEF Settled
        <5> QED BY <1>5, <3>1, <5>1, ThreadsOK
      <4>2. \A u \in Threads : thread'[u].target = j <=> thread[u].target = j
        BY <1>1, <2>4, <2>7, <4>1 DEF Others
      <4> QED BY <4>2, LastUseAlike
    <3> QED BY <1>2, <3>1, <3>2 DEF Inv, TimeOK
  <2>8. thread'[t] = n /\ Others(t) => TimeOK'
    BY <2>7
  <2>9. n.target = NULL \/ n.target < t
    BY <2>1, <2>4
  <2> QED BY <1>7, <2>2, <2>3, <2>4, <2>5, <2>6, <2>8, <2>9
<1> QED BY <1>8, <1>9

(* A change of the cache is right if it is right for the thread that makes *)
(* it: the others are done, or have not begun.                             *)
LEMMA CacheChange ==
  ASSUME NEW t \in Threads, Only(t), Others(t), Distinct(cache'),
         \A i \in Range(cache') : ItemOf(i, thread[i])',
         \A u \in Threads \ {t} : thread[u].pc = "none" => item'[u] = NoItem, CacheOf(t, thread[t])'
  PROVE  CacheOK'
<1>1. ASSUME NEW u \in Threads PROVE CacheOf(u, thread[u])'
  <2>1. CASE u = t
    BY <2>1
  <2>2. CASE u # t
    <3>1. thread'[u] = thread[u] /\ thread[u].pc \in {"none", "closed"}
      BY <2>2 DEF Others, Only
    <3> QED BY <2>2, <3>1 DEF CacheOf, Missed
  <2> QED BY <2>1, <2>2
<1> QED BY <1>1 DEF CacheOK, ItemOf, CacheOf

(* And so is one of the volume. *)
LEMMA VolumeChange ==
  ASSUME NEW t \in Threads, Only(t), Others(t),
         thread'[t].pc \notin {"subtract", "add"} => cache_volume' = SizeSum(item', Range(cache')),
         VolumeOf(t, thread[t])'
  PROVE  VolumeOK'
<1>1. ASSUME NEW u \in Threads PROVE VolumeOf(u, thread[u])'
  <2>1. CASE u = t
    BY <2>1
  <2>2. CASE u # t
    <3>1. thread'[u] = thread[u] /\ thread[u].pc \in {"none", "closed"}
      BY <2>2 DEF Others, Only
    <3> QED BY <3>1 DEF VolumeOf
  <2> QED BY <2>1, <2>2
<1> QED BY <1>1 DEF VolumeOK, VolumeOf

(* While no thread changes the volume it is the sum of the sizes. *)
LEMMA VolumeNow ==
  ASSUME Inv, NEW t \in Threads, Only(t), thread[t].pc \notin {"subtract", "add"}
  PROVE  cache_volume = SizeSum(item, Range(cache))
<1>1. \A u \in Threads : thread[u].pc \notin {"subtract", "add"}
  BY DEF Only
<1> QED BY <1>1, VolumeIs DEF Inv

(* A thread that uses item i, its own or the one it has found, makes it the *)
(* one that was used last.                                                  *)
LEMMA TouchTime ==
  ASSUME Inv, NEW t \in Threads, Only(t), Others(t), thread[t].pc \in {"hit", "add"},
         thread'[t].pc = "closed", thread'[t].target = thread[t].target, cache' = cache, clock' \in {clock, clock + 1},
         NEW i \in Range(cache), thread[t].pc = "add" => i = t, thread[t].pc = "hit" => i = thread[t].target,
         item'[i].access_time = clock',
         \A j \in Threads \ {i} : item'[j].access_time = item[j].access_time
  PROVE  TimeOK'
<1>0. clock \in Nat /\ t \in Nat /\ i \in Threads /\ Threads \subseteq Nat
  BY CacheList, ThreadsOK DEF Inv, Typed
<1>1. \A u \in Threads : thread'[u].target = thread[u].target
  BY DEF Others
<1>2. \A j : LastUse(j)' = LastUse(j)
  BY <1>1, LastUseSame
<1>3. ASSUME NEW j \in Settled', j # i PROVE j \in Settled /\ j \in Threads /\ j # t
  <2>1. j \in Range(cache) /\ thread'[j].pc = "closed"
    BY DEF Settled
  <2>2. j \in Threads
    BY <2>1, CacheList
  <2>3. j # t
    <3>1. CASE thread[t].pc = "add"
      BY <1>3, <3>1
    <3>2. CASE thread[t].pc = "hit"
      <4>1. t \notin Range(cache)
        BY <3>2, Listed
      <4> QED BY <2>1, <4>1
    <3> QED BY <3>1, <3>2
  <2>4. thread[j].pc = "closed"
    BY <2>1, <2>2, <2>3 DEF Others
  <2>5. \A u \in Threads : thread[u].pc = "hit" => thread[u].target # j
    BY <1>3 DEF Only
  <2> QED BY <2>1, <2>2, <2>3, <2>4, <2>5 DEF Settled
<1>4. \A u \in Threads : thread[u].pc = "closed" => u < t
  <2> SUFFICES ASSUME NEW u \in Threads, thread[u].pc = "closed" PROVE u < t
    OBVIOUS
  <2>1. u \in Threads \ {t} /\ thread[t].pc \notin {"none", "closed"}
    OBVIOUS
  <2>2. thread[u].pc = IF u < t THEN "closed" ELSE "none"
    BY <2>1, Alone DEF Inv
  <2> QED BY <2>2
<1>5. ASSUME NEW j \in Settled', j # i PROVE LastUse(j) \in Nat /\ LastUse(j) <= t
  <2>1. j \in Threads /\ j # t /\ thread[j].pc = "closed"
    BY <1>3, <1>5 DEF Settled
  <2>2. LastUse(j) \in Threads /\ (LastUse(j) = j \/ thread[LastUse(j)].target = j)
    BY <2>1, LastUseOK DEF Inv
  <2>3. CASE LastUse(j) = j
    BY <1>0, <1>4, <2>1, <2>2, <2>3
  <2>4. CASE thread[LastUse(j)].target = j /\ LastUse(j) # t
    <3>1. thread[LastUse(j)].pc \in {"none", "closed"}
      BY <2>2, <2>4 DEF Only
    <3>2. j # NULL
      BY <2>1, ThreadsOK
    <3>3. thread[LastUse(j)].pc # "none"
      BY <2>2, <2>4, <3>2 DEF Inv, AnswerOK, Early
    <3>4. LastUse(j) < t
      BY <1>4, <2>2, <3>1, <3>3
    <3>5. LastUse(j) \in Nat /\ t \in Nat
      BY <1>0, <2>2
    <3> QED BY ONLY <3>4, <3>5
  <2>5. CASE LastUse(j) = t
    BY <1>0, <2>5
  <2> QED BY <2>2, <2>3, <2>4, <2>5
<1>6. LastUse(i) \in Nat /\ t <= LastUse(i)
  <2>1. LastUse(i) \in Threads /\ i <= LastUse(i) /\ \A u \in Threads : thread[u].target = i => u <= LastUse(i)
    BY <1>0, LastUseOK DEF Inv
  <2> QED BY <1>0, <2>1
<1>7. ASSUME NEW j \in Settled', j # i PROVE item'[j].access_time \in Nat /\ item'[j].access_time <= clock
  <2>1. j \in Settled /\ j \in Threads
    BY <1>3, <1>7
  <2>2. item'[j].access_time = item[j].access_time /\ item[j].access_time \in Nat
    BY <1>7, <2>1, CacheList
  <2>3. item[j].access_time <= clock
    BY <2>1 DEF Inv, TimeOK
  <2> QED BY <2>2, <2>3
<1>8. ASSUME NEW j \in Settled' PROVE item'[j].access_time <= clock'
  <2>1. CASE j = i
    BY <1>0, <2>1
  <2>2. CASE j # i
    <3>1. item'[j].access_time \in Nat /\ item'[j].access_time <= clock
      BY <1>7, <2>2
    <3> QED BY <1>0, <3>1
  <2> QED BY <2>1, <2>2
<1>9. ASSUME NEW j \in Settled', NEW k \in Settled', item'[j].access_time < item'[k].access_time
      PROVE  LastUse(j)' <= LastUse(k)'
  <2>1. CASE j = i /\ k = i
    BY <1>2, <1>6, <2>1
  <2>2. CASE j = i /\ k # i
    <3>1. item'[k].access_time \in Nat /\ item'[k].access_time <= clock /\ item'[j].access_time = clock'
      BY <1>7, <2>2
    <3> QED BY <1>0, <1>9, <3>1
  <2>3. CASE j # i /\ k = i
    <3>1. LastUse(j) \in Nat /\ LastUse(j) <= t /\ LastUse(j)' = LastUse(j) /\ LastUse(k)' = LastUse(i)
      BY <1>2, <1>5, <2>3
    <3> QED BY <1>0, <1>6, <3>1
  <2>4. CASE j # i /\ k # i
    <3>1. j \in Settled /\ k \in Settled /\ j \in Threads /\ k \in Threads
      BY <1>3, <2>4
    <3>2. item[j].access_time < item[k].access_time
      BY <1>9, <2>4, <3>1
    <3> QED BY <1>2, <3>1, <3>2 DEF Inv, TimeOK
  <2> QED BY <2>1, <2>2, <2>3, <2>4
<1> QED BY <1>8, <1>9 DEF TimeOK

(* A hit answers from the item and makes it the one used last. *)
LEMMA HitOK ==
  ASSUME Inv, NEW t \in Threads, Hit(t)
  PROVE  Inv'
<1> DEFINE i == thread[t].target
<1>1. thread[t].pc = "hit" /\ thread[t] \in Locals
  BY DEF Hit, At, Inv, Typed
<1>2. UNCHANGED <<headers, cache, cache_volume>> /\ clock' \in {clock, clock + 1}
      /\ item' = [item EXCEPT ![i].access_time = clock']
  BY DEF Hit
<1>3. i \in Range(cache) /\ item[i].path = thread[t].req.path
  BY <1>1, CacheList DEF CacheOf
<1>4. t \notin Range(cache) /\ (\A j \in Range(cache) : j \in Threads /\ j < t /\ thread[j].pc = "closed")
  BY <1>1, Listed
<1>5. i \in Threads /\ i < t /\ thread[i].pc = "closed" /\ i # NULL
  BY <1>3, <1>4, ThreadsOK
<1>6. /\ thread[i].reply \in Answers /\ item[i].path = thread[i].reply.path
      /\ item[i].data = [thread[i].reply EXCEPT !.whole = thread[i].reply.text]
  BY <1>3, <1>5, CacheList DEF ItemOf
<1> DEFINE d == item[i].data
<1>7. d \in Answers /\ d.path = thread[t].req.path /\ d.text = thread[i].reply.text
  BY <1>3, <1>6 DEF Answers
<1>8. clock \in Nat /\ item \in [Threads -> Items]
  BY DEF Inv, Typed
<1> HIDE DEF i, d
<1>9. item' \in [Threads -> Items] /\ item'[i].access_time = clock'
      /\ \A j \in Threads \ {i} : item'[j] = item[j]
  BY <1>2, <1>5, <1>8 DEF Items
<1>10. \A j \in Threads : item'[j].path = item[j].path /\ item'[j].hostname = item[j].hostname
                          /\ item'[j].size = item[j].size /\ item'[j].data = item[j].data
  BY <1>2, <1>5, <1>8 DEF Items
<1> DEFINE n == [thread[t] EXCEPT !.pc = "closed", !.reply = d]
<1>11. n \in Locals /\ n.pc = "closed" /\ n.reply = d /\ n.req = thread[t].req /\ n.target = i
  BY <1>1, <1>7 DEF Locals, i
<1>12. thread' = [thread EXCEPT ![t] = n]
  BY DEF Hit, i, d
<1> HIDE DEF n
<1>13. thread' \in [Threads -> Locals] /\ thread'[t] = n /\ Others(t)
  BY <1>11, <1>12, Writes DEF Inv
<1>14. InTurn' /\ ListOK' /\ HostOK' /\ Only(t)
  BY <1>1, <1>2, <1>11, <1>13, RestKeeps DEF Heading
<1>15. Typed'
  BY <1>2, <1>8, <1>9, <1>13 DEF Inv, Typed
<1>16. AnswerOK'
  <2>1. AnswerOf(t, thread[t])
    BY DEF Inv, AnswerOK, AnswerOf
  <2>2. AnswerOf(t, n)
    BY <1>1, <1>5, <1>7, <1>11, <2>1 DEF AnswerOf, Early, Heading, Missed
  <2> QED BY <1>13, <2>2, AnswerKeeps DEF Inv
<1>17. RepliesAreRelayed'
  <2>1. n.reply = [thread[n.target].reply EXCEPT !.whole = n.reply.text]
    BY <1>6, <1>7, <1>11 DEF d
  <2>2. ReplyOf(n)
    BY <1>5, <1>7, <1>11, <2>1 DEF ReplyOf
  <2> QED BY <1>1, <1>5, <1>11, <1>13, <2>2, RepliesKeep DEF Inv
<1>18. CacheOK'
  <2>1. Distinct(cache') /\ Range(cache') = Range(cache)
    BY <1>2 DEF Inv, CacheOK
  <2>2. ASSUME NEW j \in Range(cache') PROVE ItemOf(j, thread[j])'
    <3>1. j \in Threads /\ j # t /\ ItemOf(j, thread[j])
      BY <1>4, <2>1, CacheList
    <3>2. thread'[j] = thread[j]
      BY <1>13, <3>1 DEF Others
    <3> QED BY <1>10, <3>1, <3>2 DEF ItemOf
  <2>3. ASSUME NEW u \in Threads \ {t}, thread[u].pc = "none" PROVE item'[u] = NoItem
    <3>1. CacheOf(u, thread[u]) /\ u # i
      BY <1>5, <2>3, CacheList
    <3> QED BY <1>9, <2>3, <3>1 DEF CacheOf
  <2>4. CacheOf(t, thread[t])'
    BY <1>11, <1>13 DEF CacheOf, Missed
  <2> QED BY <1>13, <1>14, <2>1, <2>2, <2>3, <2>4, CacheChange
<1>19. VolumeOK'
  <2>1. cache_volume = SizeSum(item, Range(cache))
    BY <1>1, <1>14, VolumeNow
  <2>2. \A j \in Range(cache) : item[j].size = item'[j].size
    BY <1>4, <1>10
  <2>3. SizeSum(item, Range(cache)) = SizeSum(item', Range(cache))
    <3>1. PICK v : v = item'
      OBVIOUS
    <3>2. SizeSum(item, Range(cache)) = SizeSum(v, Range(cache))
      BY <2>2, <3>1, CacheList, SumSame
    <3> QED BY <3>1, <3>2
  <2>4. cache_volume' = SizeSum(item', Range(cache'))
    BY <1>2, <2>1, <2>3
  <2>5. VolumeOf(t, thread[t])'
    BY <1>11, <1>13 DEF VolumeOf
  <2> QED BY <1>13, <1>14, <2>4, <2>5, VolumeChange
<1>20. TimeOK'
  <2>1. thread[t].target = i
    BY DEF i
  <2>2. \A j \in Threads \ {i} : item'[j].access_time = item[j].access_time
    BY <1>9
  <2>3. cache' = cache /\ clock' \in {clock, clock + 1}
    BY <1>2
  <2> QED BY <1>1, <1>3, <1>9, <1>11, <1>13, <1>14, <2>1, <2>2, <2>3, TouchTime
<1>21. KeysAreDistinct'
  <2>1. \A j \in Range(cache) : item'[j].path = item[j].path /\ item'[j].hostname = item[j].hostname
    BY <1>4, <1>10
  <2>2. Range(cache') = Range(cache)
    BY <1>2
  <2> QED BY <2>1, <2>2 DEF Inv, KeysAreDistinct
<1>22. VictimIsLeastRecent'
  BY <1>11, <1>13, <1>14, StillVictim DEF Inv, Only
<1> QED BY <1>14, <1>15, <1>16, <1>17, <1>18, <1>19, <1>20, <1>21, <1>22 DEF Inv

(* A step of a thread that has missed and leaves the cache alone. *)
LEMMA MissedKeeps ==
  ASSUME Inv, NEW t \in Threads, thread[t].pc \in {"send", "store"}, NEW n \in Locals,
         thread' = [thread EXCEPT ![t] = n], UNCHANGED <<headers, cache, item, cache_volume, clock>>,
         n.pc \in {"store", "delete", "linkitem", "closed"}, n.target = NULL, AnswerOf(t, n),
         n.pc = "closed" => ReplyOf(n), CacheOf(t, n),
         n.pc = "linkitem" => cache_volume + n.reply.size <= MAX_CACHE_SIZE,
         thread'[t] = n /\ Others(t) => VictimIsLeastRecent'
  PROVE  Inv'
<1>1. thread' \in [Threads -> Locals] /\ thread'[t] = n /\ Others(t)
  BY Writes DEF Inv
<1>2. InTurn' /\ ListOK' /\ HostOK' /\ Only(t)
  BY <1>1, RestKeeps DEF Heading
<1>3. Typed'
  BY <1>1 DEF Inv, Typed
<1>4. AnswerOK'
  BY <1>1, AnswerKeeps DEF Inv
<1>5. RepliesAreRelayed'
  BY <1>1, RepliesKeep DEF Inv
<1>6. t \notin Range(cache)
  BY Listed
<1>7. CacheOK'
  BY <1>1, <1>6, StillCache DEF Inv
<1>8. VolumeOK'
  BY <1>1, <1>2, StillVolume DEF Inv, Only
<1>9. KeysAreDistinct'
  BY DEF Inv, KeysAreDistinct
<1>10. TimeOK'
  <2>1. thread[t].target = NULL
    BY DEF Inv, AnswerOK, Missed
  <2> QED BY <1>1, <1>6, <2>1, StillTime DEF Inv
<1> QED BY <1>1, <1>2, <1>3, <1>4, <1>5, <1>7, <1>8, <1>9, <1>10 DEF Inv

(* send_request relays the reply, and keeps a small one for the cache. *)
LEMMA SendOK ==
  ASSUME Inv, NEW t \in Threads, NEW r \in Replies, Send(t, r)
  PROVE  Inv'
<1>1. thread[t].pc = "send" /\ thread[t] \in Locals /\ thread[t].target = NULL /\ thread[t].req \in Requests
      /\ CacheOf(t, thread[t])
  BY CacheList DEF Send, At, Inv, Typed, AnswerOK, Missed
<1>2. thread[t].req.hostname \in Text /\ thread[t].req.path \in Text /\ r.size \in Nat /\ r.text \in BOOLEAN
  BY <1>1, ProxyAssumption
<1> DEFINE a == [host |-> thread[t].req.hostname, path |-> thread[t].req.path,
                 size |-> r.size, text |-> r.text, whole |-> TRUE]
<1>3. a \in Answers /\ a.path = thread[t].req.path /\ a.host = thread[t].req.hostname /\ a.size = r.size /\ a.whole
  BY <1>2 DEF Answers
<1>4. thread' = [thread EXCEPT ![t].pc = IF r.size <= MAX_OBJECT_SIZE THEN "store" ELSE "closed", ![t].reply = a]
  BY DEF Send
<1>5. UNCHANGED <<headers, cache, item, cache_volume, clock>>
  BY DEF Send
<1> HIDE DEF a
<1>6. PICK pc : pc = IF r.size <= MAX_OBJECT_SIZE THEN "store" ELSE "closed"
  OBVIOUS
<1> DEFINE n == [thread[t] EXCEPT !.pc = pc, !.reply = a]
<1>7. pc \in {"store", "closed"} /\ (pc = "store" => r.size <= MAX_OBJECT_SIZE)
  BY <1>6
<1>8. n \in Locals
  BY <1>1, <1>3, <1>7 DEF Locals, Missed
<1>9. n.pc = pc /\ n.reply = a /\ n.req = thread[t].req /\ n.target = NULL /\ n.header_host = thread[t].header_host
  BY <1>1 DEF Locals
<1>10. thread' = [thread EXCEPT ![t] = n]
  BY <1>4, <1>6
<1> HIDE DEF n
<1>11. AnswerOf(t, n)
  BY <1>1, <1>3, <1>7, <1>9 DEF AnswerOf, Missed
<1>12. ReplyOf(n)
  BY <1>3, <1>9 DEF ReplyOf
<1>13. CacheOf(t, n)
  BY <1>1, <1>7, <1>9 DEF CacheOf, Missed
<1>14. thread'[t] = n /\ Others(t) => VictimIsLeastRecent'
  <2> SUFFICES ASSUME thread'[t] = n, Others(t) PROVE VictimIsLeastRecent'
    OBVIOUS
  <2>1. Only(t)
    BY <1>1, Alone DEF Inv, Only
  <2> QED BY <1>7, <1>9, <2>1, StillVictim DEF Inv, Only
<1> QED BY <1>1, <1>5, <1>7, <1>8, <1>9, <1>10, <1>11, <1>12, <1>13, <1>14, MissedKeeps

(* create_cache remembers the last item. *)
LEMMA CreateOK ==
  ASSUME Inv, NEW t \in Threads, create_cache(t)
  PROVE  Inv'
<1>1. thread[t].pc = "store" /\ thread[t] \in Locals /\ thread[t].target = NULL /\ thread[t].req \in Requests
      /\ CacheOf(t, thread[t])
  BY CacheList DEF create_cache, At, Inv, Typed, AnswerOK, Missed
<1>2. AnswerOf(t, thread[t])
  BY DEF Inv, AnswerOK, AnswerOf
<1>3. UNCHANGED <<headers, cache, item, cache_volume, clock>> /\ cache_volume + thread[t].reply.size <= MAX_CACHE_SIZE
  BY DEF create_cache
<1>4. LastOf(cache) \in Threads \cup {NULL}
  <2>1. cache \in Seq(Threads)
    BY CacheList
  <2> QED BY <2>1 DEF LastOf, Last
<1> DEFINE n == [thread[t] EXCEPT !.pc = "linkitem", !.last = LastOf(cache)]
<1>5. n \in Locals
  BY <1>1, <1>4 DEF Locals, Missed
<1>6. n.pc = "linkitem" /\ n.last = LastOf(cache) /\ n.reply = thread[t].reply /\ n.req = thread[t].req
      /\ n.target = NULL /\ n.header_host = thread[t].header_host
  BY <1>1 DEF Locals
<1>7. thread' = [thread EXCEPT ![t] = n]
  BY DEF create_cache
<1> HIDE DEF n
<1>8. AnswerOf(t, n)
  BY <1>1, <1>2, <1>6 DEF AnswerOf, Missed
<1>9. CacheOf(t, n)
  BY <1>1, <1>6 DEF CacheOf, Missed
<1>10. thread'[t] = n /\ Others(t) => VictimIsLeastRecent'
  <2> SUFFICES ASSUME thread'[t] = n, Others(t) PROVE VictimIsLeastRecent'
    OBVIOUS
  <2>1. Only(t)
    BY <1>1, Alone DEF Inv, Only
  <2> QED BY <1>6, <2>1, StillVictim DEF Inv, Only
<1> QED BY <1>1, <1>3, <1>5, <1>6, <1>7, <1>8, <1>9, <1>10, MissedKeeps

(* An item is evicted only if there is one. *)
LEMMA FullIsNotEmpty ==
  ASSUME Inv, NEW t \in Threads, thread[t].pc = "store", cache_volume + thread[t].reply.size > MAX_CACHE_SIZE
  PROVE  cache # <<>>
<1> SUFFICES ASSUME cache = <<>> PROVE FALSE
  OBVIOUS
<1>1. Range(cache) = {}
  BY DEF Range
<1>2. Only(t)
  BY Alone DEF Inv, Only
<1>3. cache_volume = 0
  BY <1>1, <1>2, VolumeNow, SumEmpty
<1>4. thread[t].reply \in Answers /\ thread[t].reply.size <= MAX_OBJECT_SIZE
  BY DEF Inv, AnswerOK, Missed
<1>5. thread[t].reply.size \in Nat
  BY <1>4 DEF Answers
<1>6. MAX_OBJECT_SIZE \in Nat /\ MAX_CACHE_SIZE \in Nat /\ MAX_OBJECT_SIZE <= MAX_CACHE_SIZE
  BY ProxyAssumption
<1>7. cache_volume + thread[t].reply.size > MAX_CACHE_SIZE
  OBVIOUS
<1> QED BY ONLY <1>3, <1>4, <1>5, <1>6, <1>7

(* LRU is the first of the items with the least time. *)
LEMMA LeastRecent ==
  ASSUME Inv, cache # <<>>
  PROVE  LRU \in Range(cache) /\ \A j \in Range(cache) : item[LRU].access_time <= item[j].access_time
<1> DEFINE I == {k \in 1 .. Len(cache) : \A j \in Range(cache) : item[cache[k]].access_time <= item[j].access_time}
           T == {item[j].access_time : j \in Range(cache)}
<1>1. cache \in Seq(Threads) /\ Range(cache) \subseteq Threads
      /\ \A i \in Threads : item[i].access_time \in Nat
  BY CacheList
<1>2. Range(cache) = {cache[k] : k \in 1 .. Len(cache)} /\ Range(cache) # {}
  BY <1>1, RangeOK
<1>3. PICK x \in T : \A y \in T : x <= y
  <2>1. T \subseteq Nat /\ T # {}
    BY <1>1, <1>2
  <2> HIDE DEF T
  <2> QED BY <2>1, LeastNat
<1>4. PICK k \in 1 .. Len(cache) : x = item[cache[k]].access_time
  BY <1>2, <1>3
<1>5. k \in I
  BY <1>3, <1>4
<1>6. Min(I) \in I
  <2>1. I \subseteq Nat /\ I # {}
    BY <1>5
  <2> HIDE DEF I
  <2> QED BY <2>1, MinOK
<1>7. LRU = cache[IF I # {} THEN Min(I) ELSE 0]
  BY DEF LRU, SelectInSeq
<1>8. LRU = cache[Min(I)]
  <2> HIDE DEF I
  <2> QED BY <1>5, <1>7
<1>9. PICK m \in 1 .. Len(cache) : m = Min(I) /\ \A j \in Range(cache) : item[cache[m]].access_time <= item[j].access_time
  BY <1>6
<1> HIDE DEF I
<1> QED BY <1>2, <1>8, <1>9

(* The victim is on the list, and none was used longer ago. *)
LEMMA ChooseVictimOK ==
  ASSUME Inv, NEW t \in Threads, ChooseVictim(t)
  PROVE  Inv'
<1>1. thread[t].pc = "store" /\ thread[t] \in Locals /\ thread[t].target = NULL /\ thread[t].req \in Requests
      /\ CacheOf(t, thread[t])
  BY CacheList DEF ChooseVictim, At, Inv, Typed, AnswerOK, Missed
<1>2. AnswerOf(t, thread[t])
  BY DEF Inv, AnswerOK, AnswerOf
<1>3. UNCHANGED <<headers, cache, item, cache_volume, clock>> /\ cache_volume + thread[t].reply.size > MAX_CACHE_SIZE
  BY DEF ChooseVictim
<1>4. cache # <<>>
  BY <1>1, <1>3, FullIsNotEmpty
<1>5. LRU \in Range(cache) /\ \A j \in Range(cache) : item[LRU].access_time <= item[j].access_time
  BY <1>4, LeastRecent
<1>6. LRU \in Threads
  BY <1>5, CacheList
<1> DEFINE n == [thread[t] EXCEPT !.pc = "delete", !.eviction = LRU]
<1>7. n \in Locals
  BY <1>1, <1>6 DEF Locals, Missed
<1>8. n.pc = "delete" /\ n.eviction = LRU /\ n.reply = thread[t].reply /\ n.req = thread[t].req
      /\ n.target = NULL /\ n.header_host = thread[t].header_host
  BY <1>1 DEF Locals
<1>9. thread' = [thread EXCEPT ![t] = n]
  BY <1>4 DEF ChooseVictim
<1> HIDE DEF n
<1>10. AnswerOf(t, n)
  BY <1>1, <1>2, <1>8 DEF AnswerOf, Missed
<1>11. CacheOf(t, n)
  BY <1>1, <1>5, <1>8 DEF CacheOf, Missed
<1>12. ASSUME thread'[t] = n, Others(t) PROVE VictimIsLeastRecent'
  <2>1. Only(t)
    BY <1>1, Alone DEF Inv, Only
  <2>2. \A i \in Range(cache) : i \in Settled
    <3>1. \A i \in Range(cache) : thread[i].pc = "closed"
      BY <1>1, Listed
    <3>2. \A u \in Threads : thread[u].pc # "hit"
      BY <1>1, <2>1 DEF Only
    <3> QED BY <3>1, <3>2 DEF Settled
  <2>3. \A i \in Range(cache) :
          LastUse(LRU) <= LastUse(i) \/ item[LRU].access_time = item[i].access_time
    <3> SUFFICES ASSUME NEW i \in Range(cache), item[LRU].access_time # item[i].access_time
                 PROVE  LastUse(LRU) <= LastUse(i)
      OBVIOUS
    <3>1. item[LRU].access_time \in Nat /\ item[i].access_time \in Nat
      BY <1>5, CacheList
    <3>2. item[LRU].access_time < item[i].access_time
      BY <1>5, <3>1
    <3> QED BY <1>5, <2>2, <3>2 DEF Inv, TimeOK
  <2>4. \A i : LastUse(i)' = LastUse(i)
    <3>1. \A u \in Threads : thread'[u].target = thread[u].target
      BY <1>1, <1>8, <1>12 DEF Others
    <3> QED BY <3>1, LastUseSame
  <2>5. \A u \in Threads : thread'[u].pc = "delete" => u = t
    BY <1>12, <2>1 DEF Only, Others
  <2> SUFFICES ASSUME NEW i \in Range(cache) 
               PROVE  \/ LastUse(thread[t].eviction)' <= LastUse(i)'
                      \/ item[thread'[t].eviction].access_time = item[i].access_time
    BY <1>3, <2>5 DEF VictimIsLeastRecent
  <2>6. thread'[t].eviction = LRU
    BY <1>8, <1>12
  <2>7. LastUse(thread[t].eviction)' = LastUse(LRU)
    <3>1. PICK e : e = LRU
      OBVIOUS
    <3>2. LastUse(thread[t].eviction)' = LastUse(e)'
      BY <2>6, <3>1 DEF LastUse
    <3> QED BY <2>4, <3>1, <3>2
  <2> QED BY <2>3, <2>4, <2>6, <2>7
<1>13. thread'[t] = n /\ Others(t) => VictimIsLeastRecent'
  BY <1>12
<1> QED BY <1>1, <1>3, <1>7, <1>8, <1>9, <1>10, <1>11, <1>13, MissedKeeps

(* A step that changes the cache, but neither finds a key nor uses an item. *)
LEMMA ChangeKeeps ==
  ASSUME Inv, NEW t \in Threads, thread[t].pc \in {"delete", "subtract", "linkitem", "fill"}, NEW n \in Locals,
         thread' = [thread EXCEPT ![t] = n], UNCHANGED <<headers, clock>>,
         n.pc \in {"store", "subtract", "fill", "add"}, n.req = thread[t].req, n.reply = thread[t].reply,
         n.target = thread[t].target,
         cache' \in Seq(Threads), Distinct(cache'), item' \in [Threads -> Items], cache_volume' \in 0 .. MAX_CACHE_SIZE,
         Range(cache') \subseteq Range(cache) \cup {t}, \A i \in Range(cache) \ {t} : item'[i] = item[i],
         \A u \in Threads \ {t} : thread[u].pc = "none" => item'[u] = NoItem,
         thread'[t] = n => /\ CacheOf(t, thread[t])' /\ VolumeOf(t, thread[t])'
                           /\ t \in Range(cache') => ItemOf(t, thread[t])',
         n.pc \notin {"subtract", "add"} => cache_volume' = SizeSum(item', Range(cache')),
         KeysAreDistinct'
  PROVE  Inv'
<1>1. thread' \in [Threads -> Locals] /\ thread'[t] = n /\ Others(t)
  BY Writes DEF Inv
<1>2. InTurn' /\ ListOK' /\ HostOK' /\ Only(t)
  BY <1>1, RestKeeps DEF Heading
<1>3. Typed'
  BY <1>1 DEF Inv, Typed
<1>4. thread[t].target = NULL
  BY DEF Inv, AnswerOK, Missed
<1>5. AnswerOf(t, thread[t])
  BY DEF Inv, AnswerOK, AnswerOf
<1>6. AnswerOf(t, n)
  BY <1>4, <1>5 DEF AnswerOf, Missed
<1>7. AnswerOK'
  BY <1>1, <1>6, AnswerKeeps DEF Inv
<1>8. RepliesAreRelayed'
  BY <1>1, <1>4, RepliesKeep DEF Inv
<1>9. CacheOK'
  <2>1. ASSUME NEW i \in Range(cache') PROVE ItemOf(i, thread[i])'
    <3>1. CASE i = t
      BY <1>1, <3>1
    <3>2. CASE i # t
      <4>1. i \in Range(cache) /\ i \in Threads /\ ItemOf(i, thread[i])
        BY <3>2, CacheList
      <4>2. thread'[i] = thread[i] /\ item'[i] = item[i]
        BY <1>1, <3>2, <4>1 DEF Others
      <4> QED BY <4>1, <4>2 DEF ItemOf
    <3> QED BY <3>1, <3>2
  <2> QED BY <1>1, <1>2, <2>1, CacheChange
<1>10. VolumeOK'
  BY <1>1, <1>2, VolumeChange
<1>11. TimeOK'
  BY <1>1, StillTime DEF Inv
<1>12. VictimIsLeastRecent'
  BY <1>1, <1>2, StillVictim DEF Inv, Only
<1> QED BY <1>2, <1>3, <1>7, <1>8, <1>9, <1>10, <1>11, <1>12 DEF Inv

(* delete_cache unlinks it; its bytes still count. *)
LEMMA DeleteOK ==
  ASSUME Inv, NEW t \in Threads, delete_cache(t)
  PROVE  Inv'
<1> DEFINE e == thread[t].eviction
<1>1. thread[t].pc = "delete" /\ thread[t] \in Locals /\ CacheOf(t, thread[t])
  BY CacheList DEF delete_cache, At, Inv, Typed
<1>2. UNCHANGED <<headers, item, cache_volume, clock>> /\ cache' = RemoveFirst(cache, e)
  BY DEF delete_cache
<1>3. e \in Range(cache) /\ Range(cache) \subseteq Threads /\ cache \in Seq(Threads) /\ Distinct(cache)
  BY <1>1, CacheList DEF CacheOf, Inv, CacheOK
<1>4. Contains(cache, e)
  BY <1>3, RangeOK
<1>5. cache' \in Seq(Threads) /\ Distinct(cache') /\ Range(cache') = Range(cache) \ {e}
  <2> HIDE DEF e
  <2>1. PICK m : m = RemoveFirst(cache, e)
    OBVIOUS
  <2>2. m \in Seq(Threads) /\ Distinct(m) /\ Range(m) = Range(cache) \ {e}
    BY <1>3, <2>1, RemovedOK
  <2> QED BY <1>2, <2>1, <2>2
<1>6. item \in [Threads -> Items] /\ cache_volume \in 0 .. MAX_CACHE_SIZE /\ cache_volume \in Int
  <2>1. MAX_CACHE_SIZE \in Nat
    BY ProxyAssumption
  <2> QED BY <2>1 DEF Inv, Typed
<1> DEFINE n == [thread[t] EXCEPT !.pc = "subtract", !.volume = cache_volume]
<1>7. n \in Locals
  BY <1>1, <1>6 DEF Locals, Missed
<1>8. n.pc = "subtract" /\ n.volume = cache_volume /\ n.reply = thread[t].reply /\ n.req = thread[t].req
      /\ n.target = thread[t].target /\ n.header_host = thread[t].header_host /\ n.eviction = e
  BY <1>1 DEF Locals
<1>9. thread' = [thread EXCEPT ![t] = n]
  BY <1>4 DEF delete_cache
<1> HIDE DEF n, e
<1>10. t \notin Range(cache) /\ Only(t)
  BY <1>1, Listed, Alone DEF Inv, Only
<1>11. cache_volume = SizeSum(item, Range(cache') ) + item[e].size
  <2>1. cache_volume = SizeSum(item, Range(cache))
    BY <1>1, <1>10, VolumeNow
  <2>2. SizeSum(item, Range(cache)) = item[e].size + SizeSum(item, Range(cache) \ {e})
    <3>1. e \in Range(cache) /\ IsFiniteSet(Range(cache)) /\ \A i \in Range(cache) : item[i].size \in Nat
      BY <1>3, CacheList
    <3> QED BY <3>1, SumRemove
  <2>3. SizeSum(item, Range(cache) \ {e}) \in Nat
    <3>1. IsFiniteSet(Range(cache) \ {e}) /\ \A i \in Range(cache) \ {e} : item[i].size \in Nat
      BY CacheList, FS_RemoveElement, <1>3
    <3> QED BY <3>1, SumNat
  <2>4. item[e].size \in Nat
    BY <1>3, CacheList
  <2> QED BY <1>5, <2>1, <2>2, <2>3, <2>4
<1>12. ASSUME thread'[t] = n PROVE CacheOf(t, thread[t])' /\ VolumeOf(t, thread[t])'
  <2>1. CacheOf(t, thread[t])'
    BY <1>1, <1>2, <1>5, <1>8, <1>12 DEF CacheOf, Missed
  <2>2. e \in Threads \ Range(cache')
    BY <1>3, <1>5
  <2>3. VolumeOf(t, thread[t])'
    BY <1>2, <1>8, <1>11, <1>12, <2>2 DEF VolumeOf
  <2> QED BY <2>1, <2>3
<1>13. KeysAreDistinct'
  BY <1>2, <1>5 DEF Inv, KeysAreDistinct
<1>14. \A u \in Threads \ {t} : thread[u].pc = "none" => item'[u] = NoItem
  BY <1>2, CacheList DEF CacheOf
<1>15. /\ thread'[t] = n => CacheOf(t, thread[t])' /\ VolumeOf(t, thread[t])' /\ (t \in Range(cache') => ItemOf(t, thread[t])')
       /\ Range(cache') \subseteq Range(cache) \cup {t} /\ \A i \in Range(cache) \ {t} : item'[i] = item[i]
       /\ item' \in [Threads -> Items] /\ cache_volume' \in 0 .. MAX_CACHE_SIZE /\ UNCHANGED <<headers, clock>>
  BY <1>2, <1>5, <1>6, <1>10, <1>12
<1> QED BY <1>1, <1>5, <1>7, <1>8, <1>9, <1>13, <1>14, <1>15, ChangeKeeps

(* They are subtracted before it is freed. *)
LEMMA SubtractOK ==
  ASSUME Inv, NEW t \in Threads, Subtract(t)
  PROVE  Inv'
<1> DEFINE e == thread[t].eviction
<1>1. thread[t].pc = "subtract" /\ thread[t] \in Locals /\ CacheOf(t, thread[t]) /\ VolumeOf(t, thread[t])
  BY CacheList, VolumeIs DEF Subtract, At, Inv, Typed
<1>2. UNCHANGED <<headers, cache, clock>> /\ cache_volume' = thread[t].volume - item[e].size
      /\ item' = [item EXCEPT ![e] = NoItem]
  BY DEF Subtract
<1>3. /\ thread[t].volume = cache_volume /\ e \in Threads \ Range(cache)
      /\ cache_volume = SizeSum(item, Range(cache)) + item[e].size
  BY <1>1 DEF VolumeOf
<1>4. item[e].size \in Nat /\ SizeSum(item, Range(cache)) \in Nat /\ item \in [Threads -> Items]
      /\ cache_volume \in 0 .. MAX_CACHE_SIZE /\ MAX_CACHE_SIZE \in Nat
  <2>1. IsFiniteSet(Range(cache)) /\ \A i \in Range(cache) : item[i].size \in Nat
    BY CacheList
  <2>2. SizeSum(item, Range(cache)) \in Nat
    BY <2>1, SumNat
  <2> QED BY <1>3, <2>2, CacheList, ProxyAssumption DEF Inv, Typed
<1> DEFINE n == [thread[t] EXCEPT !.pc = "store"]
<1>7. n \in Locals
  BY <1>1 DEF Locals, Missed
<1>8. n.pc = "store" /\ n.reply = thread[t].reply /\ n.req = thread[t].req
      /\ n.target = thread[t].target /\ n.header_host = thread[t].header_host
  BY <1>1 DEF Locals
<1>9. thread' = [thread EXCEPT ![t] = n]
  BY DEF Subtract, Goto
<1> HIDE DEF n, e
<1>10. t \notin Range(cache) /\ Only(t)
  BY <1>1, Listed, Alone DEF Inv, Only
<1>11. cache_volume' = SizeSum(item, Range(cache)) /\ cache_volume' \in 0 .. MAX_CACHE_SIZE
  <2>1. PICK v \in Nat : v = SizeSum(item, Range(cache))
    BY <1>4
  <2>2. cache_volume = v + item[e].size /\ cache_volume' = cache_volume - item[e].size
    BY <1>2, <1>3, <2>1
  <2>3. cache_volume' = v /\ v <= MAX_CACHE_SIZE
    BY <1>4, <2>2
  <2> QED BY <1>4, <2>1, <2>3
<1>12. item' \in [Threads -> Items] /\ item'[e] = NoItem /\ \A i \in Threads \ {e} : item'[i] = item[i]
  <2>1. NoItem \in Items
    <3>1. "" \in Text /\ 0 \in Nat
      BY DEF Text
    <3> QED BY <3>1 DEF NoItem, Items
  <2> QED BY <1>2, <1>3, <1>4, <2>1
<1>13. \A i \in Range(cache) : i # e /\ i \in Threads /\ item'[i] = item[i]
  BY <1>3, <1>12, CacheList
<1>14. cache_volume' = SizeSum(item', Range(cache'))
  <2>1. PICK v : v = item'
    OBVIOUS
  <2>2. \A i \in Range(cache) : item[i].size = v[i].size
    BY <1>13, <2>1
  <2>3. SizeSum(item, Range(cache)) = SizeSum(v, Range(cache))
    BY <2>2, CacheList, SumSame
  <2> QED BY <1>2, <1>11, <2>1, <2>3
<1>15. ASSUME thread'[t] = n PROVE CacheOf(t, thread[t])' /\ VolumeOf(t, thread[t])'
  <2>1. item'[t] = NoItem
    BY <1>1, <1>12 DEF CacheOf
  <2>2. CacheOf(t, thread[t])'
    BY <1>1, <1>2, <1>8, <1>13, <1>15, <2>1 DEF CacheOf, Missed
  <2>3. VolumeOf(t, thread[t])'
    BY <1>8, <1>15 DEF VolumeOf
  <2> QED BY <2>2, <2>3
<1>16. KeysAreDistinct'
  BY <1>2, <1>13 DEF Inv, KeysAreDistinct
<1>17. \A u \in Threads \ {t} : thread[u].pc = "none" => item'[u] = NoItem
  BY <1>12, CacheList DEF CacheOf
<1>18. /\ thread'[t] = n => CacheOf(t, thread[t])' /\ VolumeOf(t, thread[t])' /\ (t \in Range(cache') => ItemOf(t, thread[t])')
       /\ Range(cache') \subseteq Range(cache) \cup {t} /\ \A i \in Range(cache) \ {t} : item'[i] = item[i]
       /\ UNCHANGED <<headers, clock>> /\ cache' \in Seq(Threads) /\ Distinct(cache')
  BY <1>2, <1>10, <1>13, <1>15, CacheList DEF Inv, CacheOK
<1> QED BY <1>1, <1>7, <1>8, <1>9, <1>11, <1>12, <1>14, <1>16, <1>17, <1>18, ChangeKeeps

(* The new item is linked empty: no bytes, and no key. *)
LEMMA LinkItemOK ==
  ASSUME Inv, NEW t \in Threads, LinkItem(t)
  PROVE  Inv'
<1>1. thread[t].pc = "linkitem" /\ thread[t] \in Locals /\ CacheOf(t, thread[t]) /\ VolumeOf(t, thread[t])
  BY CacheList, VolumeIs DEF LinkItem, At, Inv, Typed
<1>2. UNCHANGED <<headers, item, cache_volume, clock>> /\ cache' = Appended(cache, LastOf(cache), t)
  BY <1>1 DEF LinkItem, CacheOf
<1>3. t \notin Range(cache) /\ Only(t) /\ (\A i \in Range(cache) : thread[i].pc = "closed")
  BY <1>1, Listed, Alone DEF Inv, Only
<1>4. cache' \in Seq(Threads) /\ Distinct(cache') /\ Range(cache') = Range(cache) \cup {t}
  <2>1. PICK m : m = Appended(cache, LastOf(cache), t)
    OBVIOUS
  <2>2. cache \in Seq(Threads) /\ Distinct(cache) /\ NULL \notin Threads
    BY CacheList, ThreadsOK DEF Inv, CacheOK
  <2>3. m \in Seq(Threads) /\ Distinct(m) /\ Range(m) = Range(cache) \cup {t}
    BY <1>3, <2>1, <2>2, AppendedOK
  <2> QED BY <1>2, <2>1, <2>3
<1>5. item[t] = NoItem /\ item[t].size = 0 /\ item[t].path = ""
  <2>1. item[t] = NoItem
    BY <1>1 DEF CacheOf
  <2>2. NoItem.size = 0 /\ NoItem.path = ""
    BY DEF NoItem
  <2> QED BY <2>1, <2>2
<1> DEFINE n == [thread[t] EXCEPT !.pc = "fill"]
<1>7. n \in Locals
  BY <1>1 DEF Locals, Missed
<1>8. n.pc = "fill" /\ n.reply = thread[t].reply /\ n.req = thread[t].req
      /\ n.target = thread[t].target /\ n.header_host = thread[t].header_host
  BY <1>1 DEF Locals
<1>9. thread' = [thread EXCEPT ![t] = n]
  BY DEF LinkItem, Goto
<1> HIDE DEF n
<1>10. cache_volume' = SizeSum(item', Range(cache'))
  <2>1. cache_volume = SizeSum(item, Range(cache))
    BY <1>1, <1>3, VolumeNow
  <2> DEFINE S == Range(cache) \cup {t}
  <2>2. IsFiniteSet(S) /\ (\A i \in S : item[i].size \in Nat) /\ t \in S /\ S \ {t} = Range(cache)
    BY <1>3, CacheList, FS_AddElement
  <2> HIDE DEF S
  <2>3. SizeSum(item, S) = item[t].size + SizeSum(item, S \ {t})
    BY <2>2, SumRemove
  <2>4. SizeSum(item, S \ {t}) = SizeSum(item, Range(cache)) /\ SizeSum(item, Range(cache)) \in Nat
    <3>1. IsFiniteSet(Range(cache)) /\ \A i \in Range(cache) : item[i].size \in Nat
      BY CacheList
    <3> QED BY <2>2, <3>1, SumNat
  <2>5. SizeSum(item, S) = SizeSum(item, Range(cache))
    <3>1. item[t].size = 0
      BY <1>5
    <3> QED BY ONLY <2>3, <2>4, <3>1
  <2>6. item' = item /\ Range(cache') = S /\ cache_volume' = cache_volume
    BY <1>2, <1>4 DEF S
  <2> QED BY <2>1, <2>5, <2>6
<1>11. ASSUME thread'[t] = n
       PROVE  CacheOf(t, thread[t])' /\ VolumeOf(t, thread[t])' /\ ItemOf(t, thread[t])'
  <2>1. CacheOf(t, thread[t])'
    BY <1>1, <1>2, <1>4, <1>5, <1>8, <1>11 DEF CacheOf, Missed
  <2>2. VolumeOf(t, thread[t])'
    BY <1>1, <1>2, <1>8, <1>11 DEF VolumeOf
  <2>3. ItemOf(t, thread[t])'
    BY <1>8, <1>11 DEF ItemOf
  <2> QED BY <2>1, <2>2, <2>3
<1>12. KeysAreDistinct'
  <2>1. \A i \in Range(cache) : item[i].path # ""
    BY <1>3, CacheList DEF ItemOf
  <2> SUFFICES ASSUME NEW i \in Range(cache) \cup {t}, NEW j \in Range(cache) \cup {t},
                      item[i].path = item[j].path, item[i].hostname = item[j].hostname
               PROVE  i = j
    BY <1>2, <1>4 DEF KeysAreDistinct
  <2>2. CASE i = t \/ j = t
    BY <1>5, <2>1, <2>2
  <2>3. CASE i # t /\ j # t
    BY <2>3 DEF Inv, KeysAreDistinct
  <2> QED BY <2>2, <2>3
<1>13. \A u \in Threads \ {t} : thread[u].pc = "none" => item'[u] = NoItem
  BY <1>2, CacheList DEF CacheOf
<1>14. /\ thread'[t] = n => CacheOf(t, thread[t])' /\ VolumeOf(t, thread[t])' /\ (t \in Range(cache') => ItemOf(t, thread[t])')
       /\ Range(cache') \subseteq Range(cache) \cup {t} /\ \A i \in Range(cache) \ {t} : item'[i] = item[i]
       /\ UNCHANGED <<headers, clock>>
  BY <1>2, <1>4, <1>11
<1>15. item' \in [Threads -> Items] /\ cache_volume' \in 0 .. MAX_CACHE_SIZE
  BY <1>2 DEF Inv, Typed
<1> QED BY <1>1, <1>4, <1>7, <1>8, <1>9, <1>10, <1>12, <1>13, <1>14, <1>15, ChangeKeeps

(* It is filled with the key that search_cache did not find. *)
LEMMA FillOK ==
  ASSUME Inv, NEW t \in Threads, Fill(t)
  PROVE  Inv'
<1> DEFINE r == thread[t].reply
           d == [r EXCEPT !.whole = r.text]
           x == [hostname |-> thread[t].header_host, path |-> thread[t].req.path, size |-> r.size,
                 data |-> d, access_time |-> 0]
<1>1. thread[t].pc = "fill" /\ thread[t] \in Locals /\ CacheOf(t, thread[t]) /\ VolumeOf(t, thread[t])
  BY CacheList, VolumeIs DEF Fill, At, Inv, Typed
<1>2. UNCHANGED <<headers, cache, cache_volume, clock>> /\ item' = [item EXCEPT ![t] = x]
  BY DEF Fill
<1>3. t \in Range(cache) /\ item[t] = NoItem /\ item[t].size = 0
  <2>1. t \in Range(cache) /\ item[t] = NoItem
    BY <1>1 DEF CacheOf
  <2>2. NoItem.size = 0
    BY DEF NoItem
  <2> QED BY <2>1, <2>2
<1>4. r \in Answers /\ r.path = thread[t].req.path /\ thread[t].req \in Requests
  BY <1>1 DEF Inv, AnswerOK, Missed
<1>5. thread[t].req.path \in Text /\ thread[t].req.path # "" /\ thread[t].header_host \in Text
  BY <1>1, <1>4, LocalsOK, ProxyAssumption
<1>6. d \in Answers /\ r.size \in Nat
  BY <1>4 DEF Answers
<1> HIDE DEF d
<1>7. x \in Items /\ x.hostname = thread[t].header_host /\ x.path = thread[t].req.path /\ x.size = r.size /\ x.data = d
  BY <1>5, <1>6 DEF Items
<1> HIDE DEF x
<1>8. item' \in [Threads -> Items] /\ item'[t] = x /\ \A i \in Threads \ {t} : item'[i] = item[i]
  BY <1>2, <1>7 DEF Inv, Typed
<1>9. cache_volume \in 0 .. MAX_CACHE_SIZE /\ MAX_CACHE_SIZE \in Nat /\ cache_volume \in Int
  <2>1. MAX_CACHE_SIZE \in Nat
    BY ProxyAssumption
  <2> QED BY <2>1 DEF Inv, Typed
<1> DEFINE n == [thread[t] EXCEPT !.pc = "add", !.volume = cache_volume]
<1>10. n \in Locals
  BY <1>1, <1>9 DEF Locals, Missed
<1>11. n.pc = "add" /\ n.reply = thread[t].reply /\ n.req = thread[t].req /\ n.volume = cache_volume
      /\ n.target = thread[t].target /\ n.header_host = thread[t].header_host
  BY <1>1 DEF Locals
<1>12. thread' = [thread EXCEPT ![t] = n]
  BY DEF Fill
<1> HIDE DEF n
<1>13. Only(t)
  BY <1>1, Alone DEF Inv, Only
<1>14. SizeSum(item', Range(cache')) = cache_volume' + r.size
  <2> DEFINE S == Range(cache)
             R == S \ {t}
  <2>1. cache_volume = SizeSum(item, S)
    BY <1>1, <1>13, VolumeNow
  <2>2. IsFiniteSet(S) /\ t \in S /\ (\A i \in S : item[i].size \in Nat) /\ S \subseteq Threads
    BY <1>3, CacheList
  <2>3. IsFiniteSet(R) /\ R \subseteq Threads \ {t}
    BY <2>2, FS_RemoveElement
  <2> HIDE DEF S
  <2>4. SizeSum(item, S) = item[t].size + SizeSum(item, R)
    BY <2>2, SumRemove
  <2>5. PICK v : v = item'
    OBVIOUS
  <2>6. v[t].size = r.size /\ \A i \in R : item[i].size = v[i].size
    BY <1>7, <1>8, <2>3, <2>5
  <2>7. \A i \in S : v[i].size \in Nat
    BY <1>6, <2>2, <2>6
  <2>8. SizeSum(v, S) = v[t].size + SizeSum(v, R)
    BY <2>2, <2>7, SumRemove
  <2> HIDE DEF R
  <2>9. SizeSum(item, R) = SizeSum(v, R)
    BY <2>3, <2>6, SumSame
  <2>10. SizeSum(item, R) \in Nat
    <3>1. \A i \in R : item[i].size \in Nat
      BY <2>2 DEF R
    <3> QED BY <2>3, <3>1, SumNat
  <2>11. SizeSum(v, S) = cache_volume + r.size
    <3>1. item[t].size = 0 /\ r.size \in Nat /\ v[t].size = r.size
      BY <1>3, <1>6, <2>6
    <3> QED BY ONLY <2>1, <2>4, <2>8, <2>9, <2>10, <3>1
  <2> QED BY <1>2, <2>5, <2>11 DEF S
<1>15. ASSUME thread'[t] = n
       PROVE  CacheOf(t, thread[t])' /\ VolumeOf(t, thread[t])' /\ ItemOf(t, thread[t])'
  <2>1. CacheOf(t, thread[t])'
    BY <1>2, <1>3, <1>11, <1>15 DEF CacheOf, Missed
  <2>2. VolumeOf(t, thread[t])'
    BY <1>1, <1>2, <1>11, <1>14, <1>15 DEF VolumeOf
  <2>3. ItemOf(t, thread[t])'
    BY <1>4, <1>5, <1>7, <1>8, <1>11, <1>15 DEF ItemOf, d
  <2> QED BY <2>1, <2>2, <2>3
<1>16. KeysAreDistinct'
  <2>1. \A i \in Range(cache) \ {t} : /\ item'[i] = item[i]
                                      /\ item[i].path # thread[t].req.path \/ item[i].hostname # thread[t].header_host
    BY <1>1, <1>8, CacheList DEF CacheOf, Missed
  <2>2. item'[t].path = thread[t].req.path /\ item'[t].hostname = thread[t].header_host /\ Range(cache') = Range(cache)
    BY <1>2, <1>7, <1>8
  <2> SUFFICES ASSUME NEW i \in Range(cache), NEW j \in Range(cache),
                      item'[i].path = item'[j].path, item'[i].hostname = item'[j].hostname
               PROVE  i = j
    BY <2>2 DEF KeysAreDistinct
  <2>3. CASE i = t \/ j = t
    BY <2>1, <2>2, <2>3
  <2>4. CASE i # t /\ j # t
    <3>1. item'[i] = item[i] /\ item'[j] = item[j]
      BY <2>1, <2>4
    <3> QED BY <3>1 DEF Inv, KeysAreDistinct
  <2> QED BY <2>3, <2>4
<1>17. \A u \in Threads \ {t} : thread[u].pc = "none" => item'[u] = NoItem
  BY <1>8, CacheList DEF CacheOf
<1>18. /\ thread'[t] = n => CacheOf(t, thread[t])' /\ VolumeOf(t, thread[t])' /\ (t \in Range(cache') => ItemOf(t, thread[t])')
       /\ Range(cache') \subseteq Range(cache) \cup {t} /\ \A i \in Range(cache) \ {t} : item'[i] = item[i]
       /\ UNCHANGED <<headers, clock>> /\ cache' \in Seq(Threads) /\ Distinct(cache')
       /\ cache_volume' \in 0 .. MAX_CACHE_SIZE
  BY <1>2, <1>8, <1>9, <1>15, CacheList DEF Inv, CacheOK
<1> QED BY <1>1, <1>8, <1>10, <1>11, <1>12, <1>16, <1>17, <1>18, ChangeKeeps

(* Its bytes are counted, and it becomes the one used last. *)
LEMMA AddOK ==
  ASSUME Inv, NEW t \in Threads, Add(t)
  PROVE  Inv'
<1>1. thread[t].pc = "add" /\ thread[t] \in Locals /\ CacheOf(t, thread[t]) /\ VolumeOf(t, thread[t])
      /\ AnswerOf(t, thread[t])
  BY CacheList, VolumeIs DEF Add, At, Inv, Typed, AnswerOK, AnswerOf
<1>2. UNCHANGED <<headers, cache>> /\ clock' \in {clock, clock + 1} /\ cache_volume' = thread[t].volume + thread[t].reply.size
      /\ item' = [item EXCEPT ![t].access_time = clock']
  BY DEF Add
<1>3. t \in Range(cache) /\ thread[t].target = NULL
  BY <1>1 DEF CacheOf, AnswerOf, Missed
<1>4. cache_volume' = SizeSum(item, Range(cache)) /\ cache_volume' \in 0 .. MAX_CACHE_SIZE
  <2>1. thread[t].volume = cache_volume /\ SizeSum(item, Range(cache)) = cache_volume + thread[t].reply.size
        /\ cache_volume + thread[t].reply.size <= MAX_CACHE_SIZE
    BY <1>1 DEF VolumeOf
  <2>2. thread[t].reply.size \in Nat
    BY <1>1 DEF AnswerOf, Missed, Answers
  <2>3. cache_volume \in 0 .. MAX_CACHE_SIZE /\ MAX_CACHE_SIZE \in Nat
    BY ProxyAssumption DEF Inv, Typed
  <2> QED BY <1>2, <2>1, <2>2, <2>3
<1>5. clock \in Nat /\ item \in [Threads -> Items]
  BY DEF Inv, Typed
<1>6. item' \in [Threads -> Items] /\ item'[t].access_time = clock'
      /\ \A j \in Threads \ {t} : item'[j] = item[j]
  BY <1>2, <1>5 DEF Items
<1>7. \A j \in Threads : item'[j].path = item[j].path /\ item'[j].hostname = item[j].hostname
                         /\ item'[j].size = item[j].size /\ item'[j].data = item[j].data
  BY <1>2, <1>5 DEF Items
<1> DEFINE n == [thread[t] EXCEPT !.pc = "closed"]
<1>8. n \in Locals
  BY <1>1 DEF Locals
<1>9. n.pc = "closed" /\ n.reply = thread[t].reply /\ n.req = thread[t].req /\ n.target = thread[t].target
  BY <1>1 DEF Locals
<1>10. thread' = [thread EXCEPT ![t] = n]
  BY DEF Add, Goto
<1> HIDE DEF n
<1>11. thread' \in [Threads -> Locals] /\ thread'[t] = n /\ Others(t)
  BY <1>8, <1>10, Writes DEF Inv
<1>12. InTurn' /\ ListOK' /\ HostOK' /\ Only(t)
  BY <1>1, <1>2, <1>9, <1>11, RestKeeps DEF Heading
<1>13. Typed'
  BY <1>2, <1>4, <1>5, <1>6, <1>11 DEF Inv, Typed
<1>14. AnswerOK'
  <2>1. AnswerOf(t, n)
    BY <1>1, <1>3, <1>9 DEF AnswerOf, Missed, Early, Heading
  <2> QED BY <1>11, <2>1, AnswerKeeps DEF Inv
<1>15. RepliesAreRelayed'
  <2>1. ReplyOf(n)
    BY <1>1, <1>3, <1>9 DEF ReplyOf, AnswerOf, Missed
  <2> QED BY <1>1, <1>3, <1>9, <1>11, <2>1, RepliesKeep DEF Inv
<1>16. Range(cache') = Range(cache) /\ Range(cache) \subseteq Threads /\ Distinct(cache')
  BY <1>2, CacheList DEF Inv, CacheOK
<1>17. CacheOK'
  <2>1. ASSUME NEW j \in Range(cache') PROVE ItemOf(j, thread[j])'
    <3>1. j \in Threads /\ ItemOf(j, thread[j])
      BY <1>16, CacheList
    <3>2. CASE j = t
      BY <1>1, <1>7, <1>9, <1>11, <3>1, <3>2 DEF ItemOf
    <3>3. CASE j # t
      <4>1. thread'[j] = thread[j]
        BY <1>11, <3>1, <3>3 DEF Others
      <4> QED BY <1>7, <3>1, <4>1 DEF ItemOf
    <3> QED BY <3>2, <3>3
  <2>2. \A u \in Threads \ {t} : thread[u].pc = "none" => item'[u] = NoItem
    BY <1>6, CacheList DEF CacheOf
  <2>3. CacheOf(t, thread[t])'
    BY <1>9, <1>11 DEF CacheOf, Missed
  <2> QED BY <1>11, <1>12, <1>16, <2>1, <2>2, <2>3, CacheChange
<1>18. VolumeOK'
  <2>1. PICK v : v = item'
    OBVIOUS
  <2>2. \A j \in Range(cache) : item[j].size = v[j].size
    BY <1>7, <1>16, <2>1
  <2>3. SizeSum(item, Range(cache)) = SizeSum(v, Range(cache))
    BY <2>2, CacheList, SumSame
  <2>4. cache_volume' = SizeSum(item', Range(cache'))
    BY <1>4, <1>16, <2>1, <2>3
  <2>5. VolumeOf(t, thread[t])'
    BY <1>9, <1>11 DEF VolumeOf
  <2> QED BY <1>11, <1>12, <2>4, <2>5, VolumeChange
<1>19. TimeOK'
  <2>1. \A j \in Threads \ {t} : item'[j].access_time = item[j].access_time
    BY <1>6
  <2>2. cache' = cache /\ clock' \in {clock, clock + 1}
    BY <1>2
  <2> QED BY <1>1, <1>3, <1>6, <1>9, <1>11, <1>12, <2>1, <2>2, TouchTime
<1>20. KeysAreDistinct'
  BY <1>7, <1>16 DEF Inv, KeysAreDistinct
<1>21. VictimIsLeastRecent'
  BY <1>9, <1>11, <1>12, StillVictim DEF Inv, Only
<1> QED BY <1>12, <1>13, <1>14, <1>15, <1>17, <1>18, <1>19, <1>20, <1>21 DEF Inv

(* In a behaviour without overlapping connections: the invariant that the  *)
(* theorems below rest on.  It says how far a thread has come with each of *)
(* the shared lists and counters, and what it knows of them there.         *)
THEOREM ProxyInv == Spec /\ []OneAtATime => []Inv
<1>1. ASSUME Inv, OneAtATime', [Next]_vars PROVE Inv'
  <2>1. CASE UNCHANGED vars
    <3>1. headers' = headers /\ cache' = cache /\ item' = item /\ cache_volume' = cache_volume /\ clock' = clock
          /\ thread' = thread
      BY <2>1 DEF vars
    <3>2. Typed' /\ InTurn' /\ HostOK' /\ AnswerOK' /\ RepliesAreRelayed' /\ KeysAreDistinct'
      BY <1>1, <3>1 DEF Inv, Typed, InTurn, HostOK, AnswerOK, RepliesAreRelayed, KeysAreDistinct
    <3>3. ListOK'
      BY <1>1, <3>1 DEF Inv, ListOK, Mine
    <3>4. CacheOK'
      BY <1>1, <3>1 DEF Inv, CacheOK
    <3>5. VolumeOK'
      BY <1>1, <3>1 DEF Inv, VolumeOK
    <3>6. TimeOK' /\ VictimIsLeastRecent'
      <4>1. \A i : LastUse(i)' = LastUse(i)
        BY <3>1, LastUseSame
      <4>2. Settled' = Settled
        BY <3>1 DEF Settled
      <4>3. TimeOK'
        BY <1>1, <3>1, <4>1, <4>2 DEF Inv, TimeOK
      <4>4. \A t \in Threads : LastUse(thread[t].eviction)' = LastUse(thread[t].eviction)
        BY <3>1 DEF LastUse
      <4>5. VictimIsLeastRecent'
        BY <1>1, <3>1, <4>1, <4>4 DEF Inv, VictimIsLeastRecent
      <4> QED BY <4>3, <4>5
    <3> QED BY <3>2, <3>3, <3>4, <3>5, <3>6 DEF Inv
  <2>2. ASSUME NEW t \in Threads, NEW r \in Requests, Accept(t, r) PROVE Inv'
    BY <1>1, <2>2, AcceptOK
  <2>3. ASSUME NEW t \in Threads, Step(t) PROVE Inv'
    <3>1. CASE ReadLine(t)
      BY <1>1, <3>1, ReadLineOK
    <3>2. CASE FindLast(t)
      BY <1>1, <3>2, FindLastOK
    <3>3. CASE Link(t)
      BY <1>1, <3>3, LinkOK
    <3>4. CASE InitHeader(t)
      BY <1>1, <3>4, InitHeaderOK
    <3>5. CASE Search(t)
      BY <1>1, <3>5, SearchOK
    <3>6. CASE Hit(t)
      BY <1>1, <3>6, HitOK
    <3>7. CASE \E r \in Replies : Send(t, r)
      BY <1>1, <3>7, SendOK
    <3>8. CASE ChooseVictim(t)
      BY <1>1, <3>8, ChooseVictimOK
    <3>9. CASE delete_cache(t)
      BY <1>1, <3>9, DeleteOK
    <3>10. CASE Subtract(t)
      BY <1>1, <3>10, SubtractOK
    <3>11. CASE create_cache(t)
      BY <1>1, <3>11, CreateOK
    <3>12. CASE LinkItem(t)
      BY <1>1, <3>12, LinkItemOK
    <3>13. CASE Fill(t)
      BY <1>1, <3>13, FillOK
    <3>14. CASE Add(t)
      BY <1>1, <3>14, AddOK
    <3> QED BY <2>3, <3>1, <3>2, <3>3, <3>4, <3>5, <3>6, <3>7, <3>8, <3>9, <3>10, <3>11, <3>12, <3>13, <3>14
            DEF Step
  <2> QED BY <1>1, <2>1, <2>2, <2>3 DEF Next
<1> QED BY InitOK, <1>1, PTL DEF Spec

(* As long as connections do not overlap, cache_volume, which a thread     *)
(* updates in a read and a write, is between connections the number of     *)
(* bytes in the cache, and MAX_CACHE_SIZE is never exceeded, whatever the  *)
(* sizes of the replies and the number of connections.                     *)
THEOREM VolumeStaysExact == Spec /\ []OneAtATime => []VolumeIsExact
<1>1. ASSUME Inv PROVE VolumeIsExact
  <2>1. cache_volume \in 0 .. MAX_CACHE_SIZE
    BY <1>1 DEF Inv, Typed
  <2>2. ASSUME \A t \in Threads : ~Busy(t) PROVE cache_volume = SizeSum(item, Range(cache))
    BY <1>1, <2>2 DEF Inv, VolumeOK, Busy
  <2> QED BY <2>1, <2>2 DEF VolumeIsExact, SizeSum
<1> QED BY ProxyInv, <1>1, PTL

(* As long as connections do not overlap, no response is cached twice: a   *)
(* thread stores its key only after search_cache has not found it, and no  *)
(* other has stored it since.                                              *)
THEOREM KeysStayDistinct == Spec /\ []OneAtATime => []KeysAreDistinct
<1>1. Inv => KeysAreDistinct
  BY DEF Inv
<1> QED BY ProxyInv, <1>1, PTL

(* As long as connections do not overlap, the item that delete_cache       *)
(* evicts is the one whose last use is the longest ago, but for uses at    *)
(* the same clock(): access_time orders the items as their last uses do.   *)
THEOREM VictimStaysLeastRecent == Spec /\ []OneAtATime => []VictimIsLeastRecent
<1>1. Inv => VictimIsLeastRecent
  BY DEF Inv
<1> QED BY ProxyInv, <1>1, PTL

(* As long as connections do not overlap, a client gets the whole reply of *)
(* its server, or what the cache kept of the reply that an earlier client  *)
(* got for the same path.                                                  *)
THEOREM RepliesStayRelayed == Spec /\ []OneAtATime => []RepliesAreRelayed
<1>1. Inv => RepliesAreRelayed
  BY DEF Inv
<1> QED BY ProxyInv, <1>1, PTL
=============================================================================
