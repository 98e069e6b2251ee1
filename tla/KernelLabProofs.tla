-------------------------- MODULE KernelLabProofs --------------------------
(***************************************************************************)
(* ptree shows a branch of the process tree although the tree changes      *)
(* while the handler climbs it, and paddr translates the address it is     *)
(* asked for, for any number of tasks and calls.                           *)
(***************************************************************************)
EXTENDS KernelLab, FiniteSetTheorems, WellFoundedInduction, TLAPS

(* Process ids are given out in order, and but for the idle task a parent  *)
(* is older than its children, alive and on record.  This holds again      *)
(* after an exit because the new parent is init.                           *)
Born(n) == {pair[2] : pair \in parents} = 1 .. n

TasksOK ==
  /\ real_parent \in [Pids -> Pids \cup {NULL}]
  /\ \A p \in {0, 1, 2} : real_parent[p] = 0
  /\ \E n \in Pids : n >= 2 /\ Born(n) /\ \A q \in Pids : q > n => real_parent[q] = NULL
  /\ \A q \in Live \ {0} : /\ real_parent[q] \in Live /\ real_parent[q] < q
                           /\ <<real_parent[q], q>> \in parents

(* A piece of a branch: everyone is younger than, and at some time was a   *)
(* child of, the one before.                                               *)
IsPiece(s) ==
  /\ s \in Seq(Pids)
  /\ \A k \in 1 .. (Len(s) - 1) : <<s[k], s[k + 1]>> \in parents
  /\ \A j, k \in 1 .. Len(s) : j < k => s[j] < s[k]

(* Halfway up the tree the result is the piece below curr, unless the walk *)
(* has got to the idle task, which it never leaves.                        *)
WalkOK ==
  writer.at = "walk" /\ curr # 0 =>
    /\ curr \in Pids
    /\ IsPiece(result)
    /\ result = <<>> => curr = writer.pid
    /\ result # <<>> => /\ curr < result[1] /\ <<curr, result[1]>> \in parents
                        /\ result[Len(result)] = writer.pid

(* Otherwise it is that of the last write which found its task. *)
ShownOK ==
  ptLoaded /\ writer.at \in {"user", "find"} =>
    \/ last = NULL /\ result = NULL
    \/ /\ last \in Pids /\ IsPiece(result) /\ result # <<>>
       /\ result[1] = 1 /\ result[Len(result)] = last

WriterOK ==
  /\ writer.at \in {"user", "find", "walk", "broken"}
  /\ writer.at # "user" => ptLoaded /\ writer.pid \in Pids
  /\ tmp_buffers \in Int /\ failed \in Int
  /\ tmp_buffers = failed + IF writer.at = "user" THEN 0 ELSE 1

IInv == TasksOK /\ WalkOK /\ ShownOK /\ WriterOK
-----------------------------------------------------------------------------
(* Process ids are numbers, init's among them, and NULL is none. *)
LEMMA PidFacts == Pids \subseteq Nat /\ {0, 1, 2} \subseteq Pids /\ NULL \notin Pids /\ MAXPID \in Nat
BY TasksAssumption DEF Pids

LEMMA PidsAreNat == \A p \in Pids : p \in Nat
BY TasksAssumption DEF Pids

(* No task has been forked yet. *)
LEMMA InitIInv == Init => IInv
<1> SUFFICES ASSUME Init PROVE IInv
  OBVIOUS
<1>1. TasksOK
  <2>1. /\ real_parent = [p \in Pids |-> IF p \in {0, 1, 2} THEN 0 ELSE NULL]
        /\ parents = {<<0, 1>>, <<0, 2>>}
    BY DEF Init, TasksInit, INIT, KTHREADD
  <2>2. Born(2)
    <3>1. <<0, 1>>[2] = 1 /\ <<0, 2>>[2] = 2
      OBVIOUS
    <3>2. {pair[2] : pair \in parents} = {1, 2}
      BY <2>1, <3>1
    <3>3. 1 .. 2 = {1, 2}
      OBVIOUS
    <3> QED BY <3>2, <3>3 DEF Born
  <2>3. Live = {0, 1, 2}
    BY <2>1, PidFacts DEF Live
  <2>4. real_parent \in [Pids -> Pids \cup {NULL}]
    BY <2>1, PidFacts
  <2>5. \A p \in {0, 1, 2} : real_parent[p] = 0
    BY <2>1, PidFacts
  <2>6. \A q \in Pids : q > 2 => real_parent[q] = NULL
    BY <2>1, PidFacts
  <2>7. \A q \in Live \ {0} : real_parent[q] \in Live /\ real_parent[q] < q /\ <<real_parent[q], q>> \in parents
    BY <2>1, <2>3, <2>5
  <2> QED BY <2>2, <2>4, <2>5, <2>6, <2>7, PidFacts DEF TasksOK
<1>2. writer = Idle(0) /\ ptLoaded = FALSE /\ tmp_buffers = 0 /\ failed = 0
  BY DEF Init, PtreeInit
<1>3. writer.at = "user"
  BY <1>2 DEF Idle
<1> QED BY <1>1, <1>2, <1>3 DEF IInv, WalkOK, ShownOK, WriterOK

(* A new task gets the next process id. *)
LEMMA ForkKeeps ==
  ASSUME TasksOK, NEW p \in Pids, Fork(p)
  PROVE  TasksOK' /\ parents \subseteq parents' /\ Live \subseteq Live'
<1>1. PICK q \in Pids :
        /\ p \in Live /\ q = Cardinality({pair[2] : pair \in parents}) + 1
        /\ real_parent' = [real_parent EXCEPT ![q] = p]
        /\ parents' = parents \cup {<<p, q>>}
  BY DEF Fork
<1>2. PICK n \in Pids : n >= 2 /\ Born(n) /\ \A r \in Pids : r > n => real_parent[r] = NULL
  BY DEF TasksOK
<1>3. q = n + 1
  <2>1. n \in Nat /\ n >= 2
    BY <1>2 DEF Pids
  <2>2. q = Cardinality(1 .. n) + 1
    BY <1>1, <1>2 DEF Born
  <2>3. Cardinality(1 .. n) = IF 1 > n THEN 0 ELSE n - 1 + 1
    BY <2>1, FS_Interval
  <2> QED BY <2>1, <2>2, <2>3
<1>4. n \in Nat /\ n >= 2 /\ q \in Nat /\ q > 2 /\ real_parent[q] = NULL
  BY <1>1, <1>2, <1>3 DEF Pids
<1>5. real_parent \in [Pids -> Pids \cup {NULL}] /\ \A r \in {0, 1, 2} : real_parent[r] = 0
  BY DEF TasksOK
<1>6. \A r \in Pids : real_parent'[r] = IF r = q THEN p ELSE real_parent[r]
  BY <1>1, <1>5
<1>7. Live' = Live \cup {q}
  BY <1>1, <1>6, PidFacts DEF Live
<1>8. p < q
  <2>1. ~(p > n)
    BY <1>1, <1>2 DEF Live
  <2> QED BY <1>3, <1>4, <2>1, PidFacts
<1>9. {pair[2] : pair \in parents'} = {pair[2] : pair \in parents} \cup {q}
  <2>1. \A x \in parents' : x \in parents \/ x = <<p, q>>
    BY <1>1
  <2>2. <<p, q>> \in parents' /\ <<p, q>>[2] = q /\ parents \subseteq parents'
    BY <1>1
  <2>3. q \in {pair[2] : pair \in parents'}
    BY <2>2
  <2>4. \A x \in parents' : x[2] \in {pair[2] : pair \in parents} \cup {q}
    BY <2>1, <2>2
  <2> QED BY <2>2, <2>3, <2>4
<1>10. Born(q)'
  <2>1. 1 .. q = (1 .. n) \cup {q}
    BY <1>3, <1>4
  <2> QED BY <1>2, <1>9, <2>1 DEF Born
<1>11. \A r \in Pids : r > q => real_parent'[r] = NULL
  BY <1>2, <1>3, <1>4, <1>6, PidFacts
<1>12. ASSUME NEW r \in Live' \ {0}
       PROVE  real_parent'[r] \in Live' /\ real_parent'[r] < r /\ <<real_parent'[r], r>> \in parents'
  <2>1. CASE r = q
    BY <1>1, <1>6, <1>7, <1>8, <2>1
  <2>2. CASE r # q
    <3>1. r \in Live \ {0} /\ r \in Pids
      BY <1>7, <2>2 DEF Live
    <3> QED BY <1>1, <1>6, <1>7, <2>2, <3>1 DEF TasksOK
  <2> QED BY <2>1, <2>2
<1>13. real_parent' \in [Pids -> Pids \cup {NULL}] /\ \A r \in {0, 1, 2} : real_parent'[r] = 0
  BY <1>1, <1>4, <1>5, <1>6, PidFacts
<1>14. TasksOK'
  BY <1>1, <1>4, <1>10, <1>11, <1>12, <1>13 DEF TasksOK
<1> QED BY <1>1, <1>7, <1>14

(* The children of a task that ends go to init, which is older. *)
LEMMA ExitKeeps ==
  ASSUME TasksOK, NEW p \in Pids, Exit(p)
  PROVE  TasksOK' /\ parents \subseteq parents' /\ Live \ {p} \subseteq Live'
<1> DEFINE children == {q \in Live : real_parent[q] = p}
<1>1. /\ p \in Live \ {0, 1, 2}
      /\ real_parent' = [q \in Pids |-> IF q = p THEN NULL ELSE IF q \in children THEN 1 ELSE real_parent[q]]
      /\ parents' = parents \cup {<<1, q>> : q \in children}
  BY DEF Exit, INIT, KTHREADD
<1>2. real_parent \in [Pids -> Pids \cup {NULL}] /\ \A r \in {0, 1, 2} : real_parent[r] = 0
  BY DEF TasksOK
<1>3. {0, 1, 2} \subseteq Live /\ {0, 1, 2} \cap children = {}
  BY <1>1, <1>2, PidFacts DEF Live
<1>4. children \subseteq Live \ {0, 1, 2}
  BY <1>3
<1>5. \A q \in Pids : real_parent'[q] = IF q = p THEN NULL ELSE IF q \in children THEN 1 ELSE real_parent[q]
  BY <1>1
<1>6. \A q \in children : real_parent[q] = p
  OBVIOUS
<1>7. \A q \in Live : q \notin children => real_parent[q] # p
  OBVIOUS
<1> HIDE DEF children
<1>8. Live' = Live \ {p}
  BY <1>4, <1>5, PidFacts DEF Live
<1>9. real_parent' \in [Pids -> Pids \cup {NULL}] /\ \A r \in {0, 1, 2} : real_parent'[r] = 0
  BY <1>1, <1>2, <1>3, <1>5, PidFacts
<1>10. {pair[2] : pair \in parents'} = {pair[2] : pair \in parents}
  <2>1. \A q \in children : <<real_parent[q], q>> \in parents
    BY <1>4 DEF TasksOK
  <2>2. \A q \in children : q \in {pair[2] : pair \in parents}
    <3> SUFFICES ASSUME NEW q \in children PROVE \E pair \in parents : q = pair[2]
      OBVIOUS
    <3> QED BY <2>1
  <2>3. ASSUME NEW x \in parents' PROVE x[2] \in {pair[2] : pair \in parents}
    <3>1. CASE x \in parents
      BY <3>1
    <3>2. CASE x \in {<<1, q>> : q \in children}
      BY <2>2, <3>2
    <3> QED BY <1>1, <3>1, <3>2
  <2> QED BY <1>1, <2>3
<1>11. \E n \in Pids : n >= 2 /\ Born(n)' /\ \A q \in Pids : q > n => real_parent'[q] = NULL
  <2>1. PICK n \in Pids : n >= 2 /\ Born(n) /\ \A r \in Pids : r > n => real_parent[r] = NULL
    BY DEF TasksOK
  <2>2. \A q \in Pids : q > n => real_parent'[q] = NULL
    BY <1>4, <1>5, <2>1 DEF Live
  <2> QED BY <1>10, <2>1, <2>2 DEF Born
<1>12. ASSUME NEW q \in Live' \ {0}
       PROVE  real_parent'[q] \in Live' /\ real_parent'[q] < q /\ <<real_parent'[q], q>> \in parents'
  <2>1. q \in Live \ {0} /\ q # p /\ q \in Pids
    BY <1>8 DEF Live
  <2>2. real_parent[q] \in Live /\ real_parent[q] < q /\ <<real_parent[q], q>> \in parents
    BY <2>1 DEF TasksOK
  <2>3. CASE q \in children
    <3>1. real_parent'[q] = 1 /\ 1 < q
      BY <1>4, <1>5, <2>1, <2>3, PidFacts DEF Pids
    <3> QED BY <1>1, <1>3, <1>8, <2>3, <3>1
  <2>4. CASE q \notin children
    BY <1>1, <1>5, <1>7, <1>8, <2>1, <2>2, <2>4
  <2> QED BY <2>3, <2>4
<1>13. TasksOK'
  BY <1>9, <1>11, <1>12 DEF TasksOK
<1> QED BY <1>1, <1>8, <1>13

(* A new task, or one that ends behind the handler's back, does not        *)
(* disturb the piece of the branch.                                        *)
LEMMA TreeKeeps ==
  ASSUME IInv, TasksOK', parents \subseteq parents', UNCHANGED ptree
  PROVE  IInv'
<1>1. UNCHANGED <<ptLoaded, result, curr, writer, tmp_buffers, failed, last>>
  BY DEF ptree
<1>2. ASSUME IsPiece(result) PROVE IsPiece(result)'
  BY <1>1, <1>2 DEF IsPiece
<1>3. WalkOK'
  BY <1>1, <1>2 DEF IInv, WalkOK
<1>4. ShownOK'
  BY <1>1, <1>2 DEF IInv, ShownOK
<1>5. WriterOK'
  BY <1>1 DEF IInv, WriterOK
<1> QED BY <1>3, <1>4, <1>5 DEF IInv

(* The steps of paddr leave tasks and ptree alone. *)
LEMMA PaddrLeavesTasks ==
  ASSUME PaddrNext
  PROVE  UNCHANGED <<real_parent, parents>>
BY DEF PaddrNext, PaddrStep, FindPage, Answer, paddr_init, paddr_exit, Close, CopyInFails, Open, CopyIn, kernel

(* A line in front of the others. *)
LEMMA PieceGrows ==
  ASSUME NEW s, IsPiece(s), NEW c \in Pids, s # <<>> => c < s[1] /\ <<c, s[1]>> \in parents,
         NEW t, t = <<c>> \o s
  PROVE  /\ IsPiece(t) /\ t # <<>> /\ t[1] = c
         /\ t[Len(t)] = IF s = <<>> THEN c ELSE s[Len(s)]
<1>1. s \in Seq(Pids) /\ Len(s) \in Nat
  BY DEF IsPiece
<1>2. /\ t \in Seq(Pids) /\ Len(t) = Len(s) + 1 /\ t[1] = c
      /\ \A k \in 2 .. (Len(s) + 1) : t[k] = s[k - 1]
  BY <1>1
<1>3. \A k \in 1 .. Len(s) : s[k] \in Pids
  BY <1>1
<1>4. s = <<>> <=> Len(s) = 0
  BY <1>1
<1>5. ASSUME NEW k \in 1 .. (Len(t) - 1) PROVE <<t[k], t[k + 1]>> \in parents
  <2>1. CASE k = 1
    <3>1. Len(s) # 0 /\ t[2] = s[1]
      BY <1>1, <1>2, <2>1
    <3>2. t[k] = c /\ t[k + 1] = t[2]
      BY <1>2, <2>1
    <3> QED BY <1>4, <3>1, <3>2
  <2>2. CASE k # 1
    <3>1. t[k] = s[k - 1] /\ t[k + 1] = s[k] /\ k - 1 \in 1 .. (Len(s) - 1)
      BY <1>1, <1>2, <2>2
    <3>2. <<s[k - 1], s[(k - 1) + 1]>> \in parents
      BY <3>1 DEF IsPiece
    <3>3. (k - 1) + 1 = k
      BY <1>1, <1>2
    <3> QED BY <3>1, <3>2, <3>3
  <2> QED BY <2>1, <2>2
<1>6. ASSUME NEW j \in 1 .. Len(t), NEW k \in 1 .. Len(t), j < k PROVE t[j] < t[k]
  <2>1. k - 1 \in 1 .. Len(s) /\ t[k] = s[k - 1]
    BY <1>1, <1>2, <1>6
  <2>2. CASE j = 1
    <3>1. c < s[1]
      BY <1>1, <1>4, <2>1
    <3>2. s[1] = s[k - 1] \/ s[1] < s[k - 1]
      <4>1. CASE k - 1 = 1
        BY <4>1
      <4>2. CASE k - 1 # 1
        <5>1. 1 \in 1 .. Len(s) /\ 1 < k - 1
          BY <1>1, <2>1, <4>2
        <5> QED BY <2>1, <5>1 DEF IsPiece
      <4> QED BY <4>1, <4>2
    <3>3. s[1] \in Nat /\ s[k - 1] \in Nat /\ c \in Nat
      <4>1. 1 \in 1 .. Len(s)
        BY <1>1, <2>1
      <4> QED BY <1>3, <2>1, <4>1, PidsAreNat
    <3> QED BY <1>2, <2>1, <2>2, <3>1, <3>2, <3>3
  <2>3. CASE j # 1
    <3>1. j - 1 \in 1 .. Len(s) /\ t[j] = s[j - 1] /\ j - 1 < k - 1
      BY <1>1, <1>2, <1>6, <2>3
    <3> QED BY <2>1, <3>1 DEF IsPiece
  <2> QED BY <2>2, <2>3
<1>7. IsPiece(t)
  BY <1>2, <1>5, <1>6 DEF IsPiece
<1>8. t[Len(t)] = IF s = <<>> THEN c ELSE s[Len(s)]
  BY <1>1, <1>2, <1>4
<1> QED BY <1>1, <1>2, <1>7, <1>8

LEMMA WalkUpKeeps ==
  ASSUME IInv, WalkUp
  PROVE  IInv'
<1>1. /\ writer.at = "walk" /\ result' = <<curr>> \o result /\ curr \in Live
      /\ UNCHANGED <<real_parent, parents, ptLoaded, failed>>
  BY DEF WalkUp, LeavesItsMemory, kernel
<1>2. curr # 0 =>
        /\ IsPiece(result)
        /\ result = <<>> => curr = writer.pid
        /\ result # <<>> => /\ curr < result[1] /\ <<curr, result[1]>> \in parents
                            /\ result[Len(result)] = writer.pid
  BY <1>1 DEF IInv, WalkOK
<1>3. curr \in Pids
  BY <1>1 DEF Live
<1>4. curr # 0 => /\ IsPiece(result') /\ result' # <<>> /\ result'[1] = curr
                  /\ result'[Len(result')] = writer.pid
  <2> SUFFICES ASSUME curr # 0
               PROVE  /\ IsPiece(result') /\ result' # <<>> /\ result'[1] = curr
                      /\ result'[Len(result')] = writer.pid
    OBVIOUS
  <2>1. /\ IsPiece(result') /\ result' # <<>> /\ result'[1] = curr
        /\ result'[Len(result')] = IF result = <<>> THEN curr ELSE result[Len(result)]
    <3>1. result # <<>> => curr < result[1] /\ <<curr, result[1]>> \in parents
      BY <1>2
    <3>2. IsPiece(result) /\ result' = <<curr>> \o result
      BY <1>1, <1>2
    <3> QED BY <1>3, <3>1, <3>2, PieceGrows
  <2> QED BY <1>2, <2>1
<1>5. curr # 0 => IsPiece(result)'
  BY <1>1, <1>4 DEF IsPiece
<1>6. TasksOK'
  BY <1>1 DEF IInv, TasksOK, Born, Live
<1>7. ptLoaded /\ writer.pid \in Pids /\ tmp_buffers \in Int /\ failed \in Int /\ tmp_buffers = failed + 1
  BY <1>1 DEF IInv, WriterOK
<1>8. CASE curr = 1
  <2>1. writer' = Idle(1) /\ tmp_buffers' = tmp_buffers - 1 /\ last' = writer.pid
    BY <1>8 DEF WalkUp, INIT
  <2>2. writer'.at = "user"
    BY <2>1 DEF Idle
  <2>3. ShownOK'
    BY <1>4, <1>5, <1>7, <1>8, <2>1 DEF ShownOK
  <2> QED BY <1>1, <1>6, <1>7, <2>1, <2>2, <2>3 DEF IInv, WalkOK, WriterOK
<1>9. CASE curr # 1
  <2>1. curr' = real_parent[curr] /\ UNCHANGED <<writer, tmp_buffers>>
    BY <1>9 DEF WalkUp, INIT
  <2>2. curr = 0 => curr' = 0
    BY <2>1 DEF IInv, TasksOK
  <2>3. curr # 0 => real_parent[curr] \in Live /\ real_parent[curr] < curr /\ <<real_parent[curr], curr>> \in parents
    BY <1>1 DEF IInv, TasksOK
  <2>4. WalkOK'
    BY <1>1, <1>4, <1>5, <2>1, <2>2, <2>3 DEF WalkOK, Live
  <2> QED BY <1>1, <1>6, <1>7, <2>1, <2>4 DEF IInv, ShownOK, WriterOK
<1> QED BY <1>8, <1>9

(* The other steps of the handler, and insmod and rmmod. *)
LEMMA PtreeKeeps ==
  ASSUME IInv, PtreeNext
  PROVE  IInv'
<1>1. TasksOK /\ WalkOK /\ ShownOK /\ WriterOK
  BY DEF IInv
<1>2. ASSUME UNCHANGED <<real_parent, parents>> PROVE TasksOK' /\ Live' = Live
  BY <1>1, <1>2 DEF TasksOK, Born, Live
<1>3. ASSUME UNCHANGED <<parents, result>>, IsPiece(result) PROVE IsPiece(result)'
  BY <1>3 DEF IsPiece
<1>4. CASE ptree_init
  <2>1. ~ptLoaded /\ UNCHANGED <<real_parent, parents, curr, writer, tmp_buffers, failed>>
    BY <1>4 DEF ptree_init
  <2>2. writer.at = "user"
    BY <1>1, <2>1 DEF WriterOK
  <2>3. ptLoaded' => last' = NULL /\ result' = NULL
    BY <1>4, <2>1 DEF ptree_init
  <2> QED BY <1>1, <1>2, <2>1, <2>2, <2>3 DEF IInv, WalkOK, ShownOK, WriterOK
<1>5. CASE ptree_exit
  <2>1. /\ writer.at = "user" /\ ptLoaded' = FALSE
        /\ UNCHANGED <<real_parent, parents, curr, writer, tmp_buffers, failed>>
    BY <1>5 DEF ptree_exit
  <2> QED BY <1>1, <1>2, <2>1 DEF IInv, WalkOK, ShownOK, WriterOK
<1>6. ASSUME NEW pid \in Pids, CopyPid(pid) PROVE IInv'
  <2>1. /\ writer.at = "user" /\ ptLoaded /\ tmp_buffers' = tmp_buffers + 1
        /\ writer' = [writer EXCEPT !.at = "find", !.pid = pid]
        /\ UNCHANGED <<real_parent, parents, ptLoaded, result, failed, last>>
    BY <1>6 DEF CopyPid, kernel
  <2>2. writer'.at = "find" /\ writer'.pid = pid
    BY <1>1, <2>1
  <2>3. ShownOK'
    BY <1>1, <1>3, <2>1, <2>2 DEF ShownOK
  <2> QED BY <1>1, <1>2, <2>1, <2>2, <2>3 DEF IInv, WalkOK, WriterOK
<1>7. CASE CopyFails
  <2>1. /\ writer.at = "user" /\ tmp_buffers' = tmp_buffers + 1 /\ failed' = failed + 1
        /\ writer' = Idle(-EFAULT)
        /\ UNCHANGED <<real_parent, parents, ptLoaded, result, last>>
    BY <1>7 DEF CopyFails, kernel
  <2>2. writer'.at = "user"
    BY <2>1 DEF Idle
  <2>3. ShownOK'
    BY <1>1, <1>3, <2>1, <2>2 DEF ShownOK
  <2> QED BY <1>1, <1>2, <2>1, <2>2, <2>3 DEF IInv, WalkOK, WriterOK
<1>8. CASE FindTask
  <2>1. writer.at = "find" /\ UNCHANGED <<real_parent, parents, ptLoaded, tmp_buffers, last>>
    BY <1>8 DEF FindTask, kernel
  <2>2. CASE Found(writer.pid)
    <3>1. /\ curr' = writer.pid /\ writer' = [writer EXCEPT !.at = "walk"]
          /\ failed' = failed /\ result' = <<>>
      BY <1>8, <2>2 DEF FindTask
    <3>2. writer'.at = "walk" /\ writer'.pid = writer.pid
      BY <1>1, <2>1, <3>1
    <3>3. IsPiece(result)'
      BY <3>1 DEF IsPiece
    <3>4. WalkOK'
      BY <1>2, <2>1, <2>2, <3>1, <3>2, <3>3 DEF WalkOK, Found, Live
    <3> QED BY <1>1, <1>2, <2>1, <3>1, <3>2, <3>4 DEF IInv, ShownOK, WriterOK
  <2>3. CASE ~Found(writer.pid)
    <3>1. writer' = Idle(-EINVAL) /\ failed' = failed + 1 /\ result' = result
      BY <1>8, <2>3 DEF FindTask
    <3>2. writer'.at = "user"
      BY <3>1 DEF Idle
    <3>3. ShownOK'
      BY <1>1, <1>3, <2>1, <3>1, <3>2 DEF ShownOK
    <3> QED BY <1>1, <1>2, <2>1, <3>1, <3>2, <3>3 DEF IInv, WalkOK, WriterOK
  <2> QED BY <2>2, <2>3
<1>9. CASE Breaks
  <2>1. /\ writer.at = "walk" /\ writer' = [writer EXCEPT !.at = "broken"]
        /\ UNCHANGED <<real_parent, parents, ptLoaded, result, tmp_buffers, failed, last>>
    BY <1>9 DEF Breaks, kernel
  <2>2. writer'.at = "broken" /\ writer'.pid = writer.pid
    BY <1>1, <2>1
  <2> QED BY <1>1, <1>2, <2>1, <2>2 DEF IInv, WalkOK, ShownOK, WriterOK
<1> QED BY <1>4, <1>5, <1>6, <1>7, <1>8, <1>9, WalkUpKeeps DEF PtreeNext, PtreeStep

(* The invariant holds whatever the tasks do between two steps. *)
THEOREM KernelLabInv == Spec => []IInv
<1>1. IInv /\ [Next]_vars => IInv'
  <2> SUFFICES ASSUME IInv, [Next]_vars PROVE IInv'
    OBVIOUS
  <2>1. TasksOK
    BY DEF IInv
  <2>2. ASSUME UNCHANGED <<real_parent, parents, ptree>> PROVE IInv'
    <3>1. TasksOK' /\ Live' = Live
      BY <2>1, <2>2 DEF TasksOK, Born, Live
    <3> QED BY <2>2, <3>1, TreeKeeps DEF IInv, WalkOK
  <2>3. CASE PaddrNext /\ UNCHANGED ptree
    BY <2>2, <2>3, PaddrLeavesTasks
  <2>4. CASE Exits
    <3>1. PICK p \in Pids : Exit(p) /\ UNCHANGED ptree
      BY <2>4 DEF Exits
    <3>2. TasksOK' /\ parents \subseteq parents' /\ Live \ {p} \subseteq Live'
      BY <2>1, <3>1, ExitKeeps
    <3> QED BY <3>1, <3>2, TreeKeeps DEF IInv, WalkOK
  <2>5. CASE Forks
    <3>1. PICK p \in Pids : Fork(p) /\ UNCHANGED ptree
      BY <2>5 DEF Forks
    <3>2. TasksOK' /\ parents \subseteq parents' /\ Live \subseteq Live'
      BY <2>1, <3>1, ForkKeeps
    <3> QED BY <3>1, <3>2, TreeKeeps DEF IInv, WalkOK
  <2>6. CASE UNCHANGED vars
    BY <2>2, <2>6 DEF vars, kernel
  <2> QED BY <2>3, <2>4, <2>5, <2>6, PtreeKeeps DEF Next
<1> QED BY <1>1, InitIInv, PTL DEF Spec

(* Between two writes ptree/ptree shows the branch of the last pid that    *)
(* was found, from init down, each a child of the one before when it was   *)
(* looked at and nobody twice; failed writes leak their tmp_buffer and     *)
(* nothing else.                                                           *)
THEOREM PtreeShowsTheBranch == Spec => []BranchIsLineage
<1>1. IInv => BranchIsLineage
  <2> SUFFICES ASSUME IInv, writer.at = "user"
               PROVE  /\ tmp_buffers = failed
                      /\ ptLoaded =>
                           IF last = NULL THEN result = NULL
                           ELSE /\ result[1] = INIT /\ result[Len(result)] = last
                                /\ \A k \in 1 .. (Len(result) - 1) : <<result[k], result[k + 1]>> \in parents
                                /\ \A j, k \in 1 .. Len(result) : j # k => result[j] # result[k]
    BY DEF BranchIsLineage
  <2>1. tmp_buffers = failed
    BY DEF IInv, WriterOK
  <2>2. ASSUME ptLoaded, last = NULL PROVE result = NULL
    BY <2>2, PidFacts DEF IInv, ShownOK
  <2>3. ASSUME ptLoaded, last # NULL
        PROVE  IsPiece(result) /\ result[1] = 1 /\ result[Len(result)] = last
    BY <2>3 DEF IInv, ShownOK
  <2>4. ASSUME IsPiece(result)
        PROVE  \A j, k \in 1 .. Len(result) : j # k => result[j] # result[k]
    <3>1. result \in Seq(Pids)
      BY <2>4 DEF IsPiece
    <3>2. Len(result) \in Nat /\ \A k \in 1 .. Len(result) : result[k] \in Pids
      BY <3>1
    <3>3. \A j, k \in 1 .. Len(result) : j < k => result[j] < result[k]
      BY <2>4 DEF IsPiece
    <3> QED BY <3>2, <3>3, PidsAreNat
  <2> QED BY <2>1, <2>2, <2>3, <2>4 DEF IsPiece, INIT
<1> QED BY <1>1, KernelLabInv, PTL
-----------------------------------------------------------------------------
(* A set of naturals has a least element. *)
LEMMA LeastNat ==
  ASSUME NEW S, S \subseteq Nat, S # {}
  PROVE  \E x \in S : \A y \in S : x <= y
<1> DEFINE R == OpToRel(<, Nat)
<1>1. PICK x \in S : \A y \in S : ~(<<y, x>> \in R)
  BY NatLessThanWellFounded, WFMin
<1>a. R = {ss \in Nat \X Nat : ss[1] < ss[2]}
  BY Zenon DEF OpToRel
<1> HIDE DEF R
<1>3. \A y \in S : x <= y
  <2> SUFFICES ASSUME NEW y \in S, y < x PROVE FALSE
    OBVIOUS
  <2>1. <<y, x>> \in R
    BY <1>a
  <2> QED BY <1>1, <2>1
<1> QED BY <1>3

(* Sum and the loop of Power are recursive functions; one exists for any   *)
(* number of steps, or there would be a least number for which none does.  *)
SumStep(t, f, i)  == IF i = 0 THEN 0 ELSE f[i - 1] + t[i - 1]
LoopStep(l, f, i) == IF i = 0 THEN l ELSE Round(f[i - 1])

(* A sum has a function of its partial sums. *)
LEMMA SumExists ==
  ASSUME NEW t, NEW n \in Nat
  PROVE  \E f : f = [i \in 0 .. n |-> SumStep(t, f, i)]
<1> DEFINE Bad == {k \in Nat : ~\E f : f = [i \in 0 .. k |-> SumStep(t, f, i)]}
<1>1. ASSUME Bad # {} PROVE FALSE
  <2>1. PICK k \in Bad : \A y \in Bad : k <= y
    <3> HIDE DEF Bad
    <3>1. Bad \subseteq Nat
      BY DEF Bad
    <3> QED BY <1>1, <3>1, LeastNat
  <2>2. k # 0
    <3> SUFFICES ASSUME k = 0 PROVE FALSE
      OBVIOUS
    <3> DEFINE f == [i \in 0 .. 0 |-> 0]
    <3>1. f = [i \in 0 .. 0 |-> SumStep(t, f, i)]
      BY DEF SumStep
    <3> QED BY <2>1, <3>1
  <2>3. k \in Nat /\ k - 1 \in Nat /\ k - 1 \notin Bad
    BY <2>1, <2>2
  <2>4. PICK g : g = [i \in 0 .. (k - 1) |-> SumStep(t, g, i)]
    BY <2>3
  <2> DEFINE h == [i \in 0 .. k |-> IF i = k THEN SumStep(t, g, k) ELSE g[i]]
  <2>5. \A i \in 0 .. k : h[i] = SumStep(t, h, i)
    <3> SUFFICES ASSUME NEW i \in 0 .. k PROVE h[i] = SumStep(t, h, i)
      OBVIOUS
    <3>1. i # 0 => h[i - 1] = g[i - 1]
      BY <2>3
    <3>2. SumStep(t, h, i) = SumStep(t, g, i)
      BY <3>1 DEF SumStep
    <3>3. CASE i = k
      BY <3>2, <3>3
    <3>4. CASE i # k
      <4>1. i \in 0 .. (k - 1)
        BY <2>3, <3>4
      <4>2. g[i] = SumStep(t, g, i)
        BY <2>4, <4>1
      <4> QED BY <3>2, <3>4, <4>2
    <3> QED BY <3>3, <3>4
  <2>6. h = [i \in 0 .. k |-> SumStep(t, h, i)]
    <3> DEFINE e == [i \in 0 .. k |-> SumStep(t, h, i)]
    <3>1. e = [i \in 0 .. k |-> h[i]]
      BY <2>5
    <3> QED BY <3>1
  <2> QED BY <2>1, <2>6
<1> QED BY <1>1

(* The loop has a function of its states, by the same argument. *)
LEMMA LoopExists ==
  ASSUME NEW l, NEW n \in Nat
  PROVE  \E f : f = [i \in 0 .. n |-> LoopStep(l, f, i)]
<1> DEFINE Bad == {k \in Nat : ~\E f : f = [i \in 0 .. k |-> LoopStep(l, f, i)]}
<1>1. ASSUME Bad # {} PROVE FALSE
  <2>1. PICK k \in Bad : \A y \in Bad : k <= y
    <3> HIDE DEF Bad
    <3>1. Bad \subseteq Nat
      BY DEF Bad
    <3> QED BY <1>1, <3>1, LeastNat
  <2>2. k # 0
    <3> SUFFICES ASSUME k = 0 PROVE FALSE
      OBVIOUS
    <3> DEFINE f == [i \in 0 .. 0 |-> l]
    <3>1. f = [i \in 0 .. 0 |-> LoopStep(l, f, i)]
      BY DEF LoopStep
    <3> QED BY <2>1, <3>1
  <2>3. k \in Nat /\ k - 1 \in Nat /\ k - 1 \notin Bad
    BY <2>1, <2>2
  <2>4. PICK g : g = [i \in 0 .. (k - 1) |-> LoopStep(l, g, i)]
    BY <2>3
  <2> DEFINE h == [i \in 0 .. k |-> IF i = k THEN LoopStep(l, g, k) ELSE g[i]]
  <2>5. \A i \in 0 .. k : h[i] = LoopStep(l, h, i)
    <3> SUFFICES ASSUME NEW i \in 0 .. k PROVE h[i] = LoopStep(l, h, i)
      OBVIOUS
    <3>1. i # 0 => h[i - 1] = g[i - 1]
      BY <2>3
    <3>2. LoopStep(l, h, i) = LoopStep(l, g, i)
      BY <3>1 DEF LoopStep
    <3>3. CASE i = k
      BY <3>2, <3>3
    <3>4. CASE i # k
      <4>1. i \in 0 .. (k - 1)
        BY <2>3, <3>4
      <4>2. g[i] = LoopStep(l, g, i)
        BY <2>4, <4>1
      <4> QED BY <3>2, <3>4, <4>2
    <3> QED BY <3>3, <3>4
  <2>6. h = [i \in 0 .. k |-> LoopStep(l, h, i)]
    <3> DEFINE e == [i \in 0 .. k |-> LoopStep(l, h, i)]
    <3>1. e = [i \in 0 .. k |-> h[i]]
      BY <2>5
    <3> QED BY <3>1
  <2> QED BY <2>1, <2>6
<1> QED BY <1>1

(* A sum of no terms, and of one more. *)
LEMMA SumIs ==
  ASSUME NEW t, NEW n \in Nat
  PROVE  \E f : /\ Sum(t, n) = f[n] /\ f[0] = 0
                /\ \A i \in 1 .. n : f[i] = f[i - 1] + t[i - 1]
<1> DEFINE f == CHOOSE f : f = [i \in 0 .. n |-> IF i = 0 THEN 0 ELSE f[i - 1] + t[i - 1]]
<1>1. Sum(t, n) = f[n]
  BY DEF Sum
<1>2. \E g : g = [i \in 0 .. n |-> SumStep(t, g, i)]
  BY SumExists
<1>3. f = [i \in 0 .. n |-> IF i = 0 THEN 0 ELSE f[i - 1] + t[i - 1]]
  BY <1>2 DEF SumStep
<1> HIDE DEF f
<1>4. f[0] = 0 /\ \A i \in 1 .. n : f[i] = f[i - 1] + t[i - 1]
  BY <1>3
<1> QED BY <1>1, <1>4

(* The state of the loop after each of its rounds. *)
LEMMA PowerIs ==
  ASSUME NEW n \in Nat
  PROVE  \E f : /\ Power(n) = f[n].ret /\ f[0] = [ret |-> 1, divisor |-> n, mul |-> BASE]
                /\ \A i \in 1 .. n : f[i] = Round(f[i - 1])
<1> DEFINE l == [ret |-> 1, divisor |-> n, mul |-> BASE]
           f == CHOOSE f : f = [i \in 0 .. n |-> IF i = 0 THEN l ELSE Round(f[i - 1])]
<1>1. Power(n) = f[n].ret
  BY DEF Power
<1> HIDE DEF l
<1>2. \E g : g = [i \in 0 .. n |-> LoopStep(l, g, i)]
  BY LoopExists
<1>3. f = [i \in 0 .. n |-> IF i = 0 THEN l ELSE Round(f[i - 1])]
  BY <1>2 DEF LoopStep
<1> HIDE DEF f
<1>4. f[0] = l /\ \A i \in 1 .. n : f[i] = Round(f[i - 1])
  BY <1>3
<1> QED BY <1>1, <1>4 DEF l
-----------------------------------------------------------------------------
(* Division with remainder, and that there is only one. *)
LEMMA Divided ==
  ASSUME NEW a \in Nat, NEW b \in Nat \ {0}
  PROVE  a = b * (a \div b) + (a % b) /\ a % b \in 0 .. (b - 1) /\ a \div b \in Nat
  OBVIOUS

(* Two divisions with remainder of one number are the same. *)
LEMMA SameQuotient ==
  ASSUME NEW b \in Nat \ {0}, NEW x \in Nat, NEW y \in 0 .. (b - 1),
         NEW u \in Nat, NEW v \in 0 .. (b - 1), b * x + y = b * u + v
  PROVE  x = u /\ y = v
<1>1. ASSUME NEW p \in Nat, NEW q \in Nat, p < q PROVE b * p + b <= b * q
  <2>1. PICK d \in Nat : q = p + 1 + d
    <3>1. q - p - 1 \in Nat /\ q = p + 1 + (q - p - 1)
      BY <1>1
    <3> QED BY <3>1
  <2>2. b * q = b * p + b + b * d
    BY <2>1
  <2>3. b * d \in Nat /\ b * p \in Nat /\ b * q \in Nat
    OBVIOUS
  <2> QED BY <2>2, <2>3
<1>2. ~(x < u)
  BY <1>1
<1>3. ~(u < x)
  BY <1>1
<1> QED BY <1>2, <1>3

(* So whatever divides like a quotient and a remainder is them. *)
LEMMA QuotientIs ==
  ASSUME NEW b \in Nat \ {0}, NEW x \in Nat, NEW y \in 0 .. (b - 1), NEW a \in Nat, a = b * x + y
  PROVE  a \div b = x /\ a % b = y
<1>1. a = b * (a \div b) + (a % b) /\ a % b \in 0 .. (b - 1) /\ a \div b \in Nat
  BY Divided
<1>2. b * (a \div b) + (a % b) = b * x + y
  BY <1>1
<1> QED BY <1>1, <1>2, SameQuotient

(* One digit more of a number: w is the weight of the digit. *)
LEMMA OneDigit ==
  ASSUME NEW a \in Nat, NEW w \in Nat \ {0}, NEW b \in Nat \ {0}
  PROVE  w * (a \div w) = (b * w) * (a \div (b * w)) + ((a \div w) % b) * w
<1>1. PICK q, r : q = a \div w /\ r = a % w
  OBVIOUS
<1>2. a = w * q + r /\ r \in 0 .. (w - 1) /\ q \in Nat
  BY <1>1, Divided
<1>3. PICK x, y : x = q \div b /\ y = q % b
  OBVIOUS
<1>4. q = b * x + y /\ y \in 0 .. (b - 1) /\ x \in Nat
  BY <1>2, <1>3, Divided
<1>5. b * w \in Nat \ {0} /\ w * y \in Nat /\ w * (b - 1) \in Nat
  BY <1>4
<1>6. w * y <= w * (b - 1) /\ w * (b - 1) = b * w - w
  BY <1>4
<1>7. w * y + r \in 0 .. (b * w - 1)
  BY <1>2, <1>5, <1>6
<1>8. w * q = (b * w) * x + w * y
  BY <1>2, <1>4
<1>9. a = (b * w) * x + (w * y + r)
  BY <1>2, <1>4, <1>5, <1>8
<1>10. a \div (b * w) = x
  BY <1>4, <1>5, <1>7, <1>9, QuotientIs
<1>11. w * q = (b * w) * x + y * w
  BY <1>2, <1>4, <1>8
<1> QED BY <1>1, <1>3, <1>10, <1>11

(* The powers of BASE. *)
W(i) == BASE^i

(* They are positive, and each is BASE times the one before. *)
LEMMA Weights ==
  /\ HALF \in Nat \ {0, 1} /\ BASE = HALF * HALF /\ BASE \in Nat \ {0, 1}
  /\ W(0) = 1 /\ \A i \in 0 .. 7 : W(i + 1) = BASE * W(i)
  /\ \A i \in 0 .. 8 : W(i) \in Nat \ {0}
<1>1. HALF \in Nat \ {0, 1} /\ BASE = HALF * HALF
  BY PaddrAssumption DEF BASE
<1>2. BASE \in Nat \ {0, 1}
  <2>1. HALF * HALF >= HALF
    BY <1>1
  <2>2. HALF * HALF \in Nat
    BY <1>1
  <2> QED BY <1>1, <2>1, <2>2
<1>3. W(0) = 1 /\ \A i \in 0 .. 7 : W(i + 1) = BASE * W(i)
  BY PaddrAssumption DEF W
<1> HIDE DEF BASE
<1>4. ASSUME NEW i \in 0 .. 7, W(i) \in Nat \ {0} PROVE W(i + 1) \in Nat \ {0}
  BY <1>2, <1>3, <1>4
<1>5. W(0) \in Nat \ {0}
  BY <1>3
<1>6. W(1) \in Nat \ {0} BY <1>4, <1>5
<1>7. W(2) \in Nat \ {0} BY <1>4, <1>6
<1>8. W(3) \in Nat \ {0} BY <1>4, <1>7
<1>9. W(4) \in Nat \ {0} BY <1>4, <1>8
<1>10. W(5) \in Nat \ {0} BY <1>4, <1>9
<1>11. W(6) \in Nat \ {0} BY <1>4, <1>10
<1>12. W(7) \in Nat \ {0} BY <1>4, <1>11
<1>13. W(8) \in Nat \ {0} BY <1>4, <1>12
<1>14. \A i \in 0 .. 8 : W(i) \in Nat \ {0}
  <2> SUFFICES ASSUME NEW i \in 0 .. 8 PROVE W(i) \in Nat \ {0}
    OBVIOUS
  <2>1. i = 0 \/ i = 1 \/ i = 2 \/ i = 3 \/ i = 4 \/ i = 5 \/ i = 6 \/ i = 7 \/ i = 8
    OBVIOUS
  <2> QED BY <1>5, <1>6, <1>7, <1>8, <1>9, <1>10, <1>11, <1>12, <1>13, <2>1
<1> QED BY <1>1, <1>2, <1>3, <1>14

(* The lower digits and the rest of a number of at most six digits. *)
LEMMA SixDigits ==
  ASSUME NEW q \in Nat, q < W(6)
  PROVE  /\ \A j \in 0 .. 5 : Digit(q, j) \in 0 .. (BASE - 1)
         /\ q = Digit(q, 0) * W(0) + Digit(q, 1) * W(1) + Digit(q, 2) * W(2) + Digit(q, 3) * W(3)
                 + Digit(q, 4) * W(4) + Digit(q, 5) * W(5)
<1> DEFINE D(j) == Digit(q, j)
           R(j) == W(j) * (q \div W(j))
<1>1. \A j \in 0 .. 6 : q \div W(j) \in Nat
  <2> SUFFICES ASSUME NEW j \in 0 .. 6 PROVE q \div W(j) \in Nat
    OBVIOUS
  <2>1. W(j) \in Nat \ {0}
    BY Weights
  <2> QED BY <2>1, Divided
<1>2. \A j \in 0 .. 5 : D(j) \in 0 .. (BASE - 1) /\ D(j) = (q \div W(j)) % BASE
  <2> SUFFICES ASSUME NEW j \in 0 .. 5 PROVE D(j) \in 0 .. (BASE - 1) /\ D(j) = (q \div W(j)) % BASE
    OBVIOUS
  <2>1. q \div W(j) \in Nat /\ BASE \in Nat \ {0}
    BY <1>1, Weights
  <2>2. D(j) = (q \div W(j)) % BASE
    BY DEF Digit, W
  <2> HIDE DEF D
  <2> QED BY <2>1, <2>2, Divided
<1>3. \A j \in 0 .. 5 : R(j) = R(j + 1) + D(j) * W(j)
  <2> SUFFICES ASSUME NEW j \in 0 .. 5 PROVE R(j) = R(j + 1) + D(j) * W(j)
    OBVIOUS
  <2>1. W(j + 1) = BASE * W(j) /\ W(j) \in Nat \ {0} /\ BASE \in Nat \ {0}
    BY Weights
  <2>2. D(j) = (q \div W(j)) % BASE
    BY <1>2
  <2> HIDE DEF D
  <2>3. W(j) * (q \div W(j)) = (BASE * W(j)) * (q \div (BASE * W(j))) + ((q \div W(j)) % BASE) * W(j)
    BY <2>1, OneDigit
  <2> QED BY <2>1, <2>2, <2>3
<1>4. R(0) = q /\ R(6) = 0
  <2>1. W(0) = 1 /\ W(6) \in Nat \ {0}
    BY Weights
  <2>2. q = W(6) * 0 + q /\ q \in 0 .. (W(6) - 1)
    BY <2>1
  <2>3. q \div W(6) = 0
    BY <2>1, <2>2, QuotientIs
  <2> QED BY <2>1, <2>3
<1>5. \A j \in 0 .. 5 : D(j) * W(j) \in Nat
  <2> SUFFICES ASSUME NEW j \in 0 .. 5 PROVE D(j) * W(j) \in Nat
    OBVIOUS
  <2>1. D(j) \in Nat /\ W(j) \in Nat
    BY <1>2, Weights
  <2> HIDE DEF D
  <2> QED BY <2>1
<1>6. \A j \in 0 .. 6 : R(j) \in Nat
  <2> SUFFICES ASSUME NEW j \in 0 .. 6 PROVE R(j) \in Nat
    OBVIOUS
  <2>1. q \div W(j) \in Nat /\ W(j) \in Nat
    BY <1>1, Weights
  <2> QED BY <2>1
<1> HIDE DEF D, R
<1>7. /\ R(0) = R(1) + D(0) * W(0) /\ R(1) = R(2) + D(1) * W(1) /\ R(2) = R(3) + D(2) * W(2)
      /\ R(3) = R(4) + D(3) * W(3) /\ R(4) = R(5) + D(4) * W(4) /\ R(5) = R(6) + D(5) * W(5)
  BY <1>3
<1>8. q = D(0) * W(0) + D(1) * W(1) + D(2) * W(2) + D(3) * W(3) + D(4) * W(4) + D(5) * W(5)
  <2>1. PICK d0, d1, d2, d3, d4, d5 :
          /\ d0 = D(0) * W(0) /\ d1 = D(1) * W(1) /\ d2 = D(2) * W(2)
          /\ d3 = D(3) * W(3) /\ d4 = D(4) * W(4) /\ d5 = D(5) * W(5)
    OBVIOUS
  <2>2. {d0, d1, d2, d3, d4, d5} \subseteq Nat
    BY <1>5, <2>1
  <2>3. q = d0 + d1 + d2 + d3 + d4 + d5
    BY <1>4, <1>6, <1>7, <2>1, <2>2
  <2> QED BY <2>1, <2>3
<1> QED BY <1>2, <1>8 DEF D

(* The loop computes the powers: mul is BASE, its square, and so on. *)
LEMMA SmallPowers ==
  /\ W(0) = 1 /\ W(1) = BASE /\ BASE * BASE = W(2) /\ BASE * W(2) = W(3)
  /\ W(2) * W(2) = W(4) /\ BASE * W(4) = W(5)
  /\ \A i \in 0 .. 5 : W(i) % W(8) = W(i)
<1>1. /\ BASE \in Nat \ {0, 1} /\ W(0) = 1 /\ W(1) = BASE * W(0) /\ W(2) = BASE * W(1) /\ W(3) = BASE * W(2)
      /\ W(4) = BASE * W(3) /\ W(5) = BASE * W(4) /\ W(6) = BASE * W(5) /\ W(7) = BASE * W(6) /\ W(8) = BASE * W(7)
  BY Weights
<1>2. /\ W(1) = BASE /\ W(2) = BASE * BASE /\ W(3) = BASE * (BASE * BASE)
  BY <1>1
<1>3. W(4) = BASE * (BASE * (BASE * BASE))
  BY <1>1, <1>2
<1>4. W(2) * W(2) = W(4)
  BY <1>1, <1>2, <1>3
<1>5. \A i \in 0 .. 7 : W(i) < W(i + 1)
  <2> SUFFICES ASSUME NEW i \in 0 .. 7 PROVE W(i) < W(i + 1)
    OBVIOUS
  <2>1. W(i + 1) = BASE * W(i) /\ W(i) \in Nat \ {0} /\ BASE \in Nat /\ BASE >= 2
    BY Weights
  <2>2. BASE * W(i) >= 2 * W(i)
    BY <2>1
  <2> QED BY <2>1, <2>2
<1>6. W(0) < W(1) /\ W(1) < W(2) /\ W(2) < W(3) /\ W(3) < W(4) /\ W(4) < W(5) /\ W(5) < W(6) /\ W(6) < W(7) /\ W(7) < W(8)
  BY <1>5
<1>7. \A i \in 0 .. 5 : W(i) < W(8)
  <2>1. {W(0), W(1), W(2), W(3), W(4), W(5), W(6), W(7), W(8)} \subseteq Nat
    BY Weights
  <2> SUFFICES ASSUME NEW i \in 0 .. 5 PROVE W(i) < W(8)
    OBVIOUS
  <2>2. i = 0 \/ i = 1 \/ i = 2 \/ i = 3 \/ i = 4 \/ i = 5
    OBVIOUS
  <2> QED BY <1>6, <2>1, <2>2
<1>8. ASSUME NEW i \in 0 .. 5 PROVE W(i) % W(8) = W(i)
  <2>1. W(i) \in Nat /\ W(8) \in Nat \ {0} /\ W(i) < W(8)
    BY <1>7, Weights
  <2>2. W(i) = W(8) * 0 + W(i) /\ W(i) \in 0 .. (W(8) - 1)
    BY <2>1
  <2> QED BY <2>1, <2>2, QuotientIs
<1> QED BY <1>1, <1>2, <1>4, <1>8

(* A round of the loop, by what it does to the three variables. *)
LEMMA RoundIs ==
  ASSUME NEW r, NEW d \in Nat, NEW m
  PROVE  LET l == [ret |-> r, divisor |-> d, mul |-> m]
         IN  /\ d = 0 => Round(l) = l
             /\ d # 0 /\ d % 2 = 1 =>
                  Round(l) = [ret |-> (r * m) % W(8), divisor |-> d \div 2, mul |-> (m * m) % W(8)]
             /\ d # 0 /\ d % 2 # 1 =>
                  Round(l) = [ret |-> r, divisor |-> d \div 2, mul |-> (m * m) % W(8)]
  BY DEF Round, W

(* Power(i) is BASE to the i for the six bytes it is used for. *)
LEMMA PowersRight == \A i \in 0 .. 5 : Power(i) = W(i)
<1> DEFINE L(r, d, m) == [ret |-> r, divisor |-> d, mul |-> m]
<1>0. /\ W(0) = 1 /\ W(1) = BASE /\ BASE * BASE = W(2) /\ BASE * W(2) = W(3)
      /\ W(2) * W(2) = W(4) /\ BASE * W(4) = W(5)
      /\ W(1) % W(8) = W(1) /\ W(2) % W(8) = W(2) /\ W(3) % W(8) = W(3) /\ W(4) % W(8) = W(4) /\ W(5) % W(8) = W(5)
  BY SmallPowers
<1>1. BASE \in Nat /\ 1 * BASE = BASE /\ 1 * W(2) = W(2) /\ 1 * W(4) = W(4)
  BY Weights
<1>2. \A d \in Nat : \A r, m :
        /\ d = 0 => Round(L(r, d, m)) = L(r, d, m)
        /\ d # 0 /\ d % 2 = 1 => Round(L(r, d, m)) = L((r * m) % W(8), d \div 2, (m * m) % W(8))
        /\ d # 0 /\ d % 2 # 1 => Round(L(r, d, m)) = L(r, d \div 2, (m * m) % W(8))
  BY RoundIs
<1> HIDE DEF L
<1>3. \A r, m : /\ Round(L(r, 0, m)) = L(r, 0, m)
                /\ Round(L(r, 1, m)) = L((r * m) % W(8), 0, (m * m) % W(8))
                /\ Round(L(r, 2, m)) = L(r, 1, (m * m) % W(8))
                /\ Round(L(r, 3, m)) = L((r * m) % W(8), 1, (m * m) % W(8))
                /\ Round(L(r, 4, m)) = L(r, 2, (m * m) % W(8))
                /\ Round(L(r, 5, m)) = L((r * m) % W(8), 2, (m * m) % W(8))
  BY <1>2
<1>4. \A r, d, m : L(r, d, m).ret = r
  BY DEF L
<1>5. ASSUME NEW n \in 0 .. 5
      PROVE  \E f : /\ Power(n) = f[n].ret /\ f[0] = L(1, n, BASE)
                    /\ \A i \in 1 .. n : f[i] = Round(f[i - 1])
  BY PowerIs DEF L
<1>6. Power(0) = W(0)
  <2>1. PICK f : Power(0) = f[0].ret /\ f[0] = L(1, 0, BASE)
    BY <1>5
  <2> QED BY <1>0, <1>4, <2>1
<1>7. Power(1) = W(1)
  <2>1. PICK f : Power(1) = f[1].ret /\ f[0] = L(1, 1, BASE) /\ \A i \in 1 .. 1 : f[i] = Round(f[i - 1])
    BY <1>5
  <2>2. f[1] = Round(f[0])
    BY <2>1
  <2>3. f[1] = L((1 * BASE) % W(8), 0, (BASE * BASE) % W(8))
    BY <1>3, <2>1, <2>2
  <2> QED BY <1>0, <1>1, <1>4, <2>1, <2>3
<1>8. Power(2) = W(2)
  <2>1. PICK f : Power(2) = f[2].ret /\ f[0] = L(1, 2, BASE) /\ \A i \in 1 .. 2 : f[i] = Round(f[i - 1])
    BY <1>5
  <2>2. f[1] = Round(f[0]) /\ f[2] = Round(f[1])
    BY <2>1
  <2>3. f[1] = L(1, 1, W(2))
    BY <1>0, <1>3, <2>1, <2>2
  <2>4. f[2] = L((1 * W(2)) % W(8), 0, (W(2) * W(2)) % W(8))
    BY <1>3, <2>2, <2>3
  <2> QED BY <1>0, <1>1, <1>4, <2>1, <2>4
<1>9. Power(3) = W(3)
  <2>1. PICK f : Power(3) = f[3].ret /\ f[0] = L(1, 3, BASE) /\ \A i \in 1 .. 3 : f[i] = Round(f[i - 1])
    BY <1>5
  <2>2. f[1] = Round(f[0]) /\ f[2] = Round(f[1]) /\ f[3] = Round(f[2])
    BY <2>1
  <2>3. f[1] = L((1 * BASE) % W(8), 1, (BASE * BASE) % W(8))
    BY <1>3, <2>1, <2>2
  <2>4. f[1] = L(BASE, 1, W(2))
    BY <1>0, <1>1, <2>3
  <2>5. f[2] = L((BASE * W(2)) % W(8), 0, (W(2) * W(2)) % W(8))
    BY <1>3, <2>2, <2>4
  <2>6. f[3] = f[2]
    BY <1>3, <2>2, <2>5
  <2> QED BY <1>0, <1>4, <2>1, <2>5, <2>6
<1>10. Power(4) = W(4)
  <2>1. PICK f : Power(4) = f[4].ret /\ f[0] = L(1, 4, BASE) /\ \A i \in 1 .. 4 : f[i] = Round(f[i - 1])
    BY <1>5
  <2>2. f[1] = Round(f[0]) /\ f[2] = Round(f[1]) /\ f[3] = Round(f[2]) /\ f[4] = Round(f[3])
    BY <2>1
  <2>3. f[1] = L(1, 2, W(2))
    BY <1>0, <1>3, <2>1, <2>2
  <2>4. f[2] = L(1, 1, W(4))
    BY <1>0, <1>3, <2>2, <2>3
  <2>5. f[3] = L((1 * W(4)) % W(8), 0, (W(4) * W(4)) % W(8))
    BY <1>3, <2>2, <2>4
  <2>6. f[4] = f[3]
    BY <1>3, <2>2, <2>5
  <2> QED BY <1>0, <1>1, <1>4, <2>1, <2>5, <2>6
<1>11. Power(5) = W(5)
  <2>1. PICK f : Power(5) = f[5].ret /\ f[0] = L(1, 5, BASE) /\ \A i \in 1 .. 5 : f[i] = Round(f[i - 1])
    BY <1>5
  <2>2. f[1] = Round(f[0]) /\ f[2] = Round(f[1]) /\ f[3] = Round(f[2]) /\ f[4] = Round(f[3]) /\ f[5] = Round(f[4])
    BY <2>1
  <2>3. f[1] = L((1 * BASE) % W(8), 2, (BASE * BASE) % W(8))
    BY <1>3, <2>1, <2>2
  <2>4. f[1] = L(BASE, 2, W(2))
    BY <1>0, <1>1, <2>3
  <2>5. f[2] = L(BASE, 1, W(4))
    BY <1>0, <1>3, <2>2, <2>4
  <2>6. f[3] = L((BASE * W(4)) % W(8), 0, (W(4) * W(4)) % W(8))
    BY <1>3, <2>2, <2>5
  <2>7. f[4] = f[3] /\ f[5] = f[3]
    BY <1>3, <2>2, <2>6
  <2> QED BY <1>0, <1>4, <2>1, <2>6, <2>7
<1> SUFFICES ASSUME NEW i \in 0 .. 5 PROVE Power(i) = W(i)
  OBVIOUS
<1>12. i = 0 \/ i = 1 \/ i = 2 \/ i = 3 \/ i = 4 \/ i = 5
  OBVIOUS
<1> QED BY <1>6, <1>7, <1>8, <1>9, <1>10, <1>11, <1>12
-----------------------------------------------------------------------------
(* A sum of six terms, and one of eight. *)
LEMMA Sum6 ==
  ASSUME NEW t
  PROVE  Sum(t, 6) = 0 + t[0] + t[1] + t[2] + t[3] + t[4] + t[5]
<1>1. PICK f : Sum(t, 6) = f[6] /\ f[0] = 0 /\ \A i \in 1 .. 6 : f[i] = f[i - 1] + t[i - 1]
  BY SumIs
<1>2. /\ f[1] = f[0] + t[0] /\ f[2] = f[1] + t[1] /\ f[3] = f[2] + t[2] /\ f[4] = f[3] + t[3]
      /\ f[5] = f[4] + t[4] /\ f[6] = f[5] + t[5]
  BY <1>1
<1> QED BY <1>1, <1>2

LEMMA Sum8 ==
  ASSUME NEW t
  PROVE  Sum(t, 8) = 0 + t[0] + t[1] + t[2] + t[3] + t[4] + t[5] + t[6] + t[7]
<1>1. PICK f : Sum(t, 8) = f[8] /\ f[0] = 0 /\ \A i \in 1 .. 8 : f[i] = f[i - 1] + t[i - 1]
  BY SumIs
<1>2. /\ f[1] = f[0] + t[0] /\ f[2] = f[1] + t[1] /\ f[3] = f[2] + t[2] /\ f[4] = f[3] + t[3]
      /\ f[5] = f[4] + t[4] /\ f[6] = f[5] + t[5] /\ f[7] = f[6] + t[6] /\ f[8] = f[7] + t[7]
  BY <1>1
<1> QED BY <1>1, <1>2

(* A number of eight bytes. *)
LEMMA EightBytes ==
  ASSUME NEW b, NEW lo \in Nat
  PROVE  Number(b, lo, 8) = 0 + b[lo] * W(0) + b[lo + 1] * W(1) + b[lo + 2] * W(2) + b[lo + 3] * W(3)
           + b[lo + 4] * W(4) + b[lo + 5] * W(5) + b[lo + 6] * W(6) + b[lo + 7] * W(7)
<1> DEFINE t == [i \in 0 .. 7 |-> b[lo + i] * BASE^i]
<1>1. Number(b, lo, 8) = Sum(t, 8)
  BY DEF Number
<1>2. /\ t[0] = b[lo] * W(0) /\ t[1] = b[lo + 1] * W(1) /\ t[2] = b[lo + 2] * W(2) /\ t[3] = b[lo + 3] * W(3)
      /\ t[4] = b[lo + 4] * W(4) /\ t[5] = b[lo + 5] * W(5) /\ t[6] = b[lo + 6] * W(6) /\ t[7] = b[lo + 7] * W(7)
  BY DEF W
<1> HIDE DEF t
<1> QED BY <1>1, <1>2, Sum8

(* The address that read_output computes is the number in the packet, if   *)
(* that has six bytes.                                                     *)
LEMMA VaddrIs ==
  ASSUME NEW b, \A i \in 8 .. 15 : b[i] \in Nat, b[14] = 0, b[15] = 0
  PROVE  Vaddr(b) = Number(b, 8, 8)
<1> DEFINE t == [i \in 0 .. 5 |-> b[8 + i] * Power(i)]
<1>1. Vaddr(b) = Sum(t, 6)
  BY DEF Vaddr
<1>2. /\ t[0] = b[8] * W(0) /\ t[1] = b[9] * W(1) /\ t[2] = b[10] * W(2) /\ t[3] = b[11] * W(3)
      /\ t[4] = b[12] * W(4) /\ t[5] = b[13] * W(5)
  BY PowersRight
<1> HIDE DEF t
<1>3. Vaddr(b) = 0 + b[8] * W(0) + b[9] * W(1) + b[10] * W(2) + b[11] * W(3) + b[12] * W(4) + b[13] * W(5)
  BY <1>1, <1>2, Sum6
<1>4. Number(b, 8, 8) = 0 + b[8] * W(0) + b[9] * W(1) + b[10] * W(2) + b[11] * W(3)
        + b[12] * W(4) + b[13] * W(5) + b[14] * W(6) + b[15] * W(7)
  BY EightBytes
<1>5. b[14] * W(6) = 0 /\ b[15] * W(7) = 0
  BY Weights
<1>6. /\ b[8] * W(0) \in Nat /\ b[9] * W(1) \in Nat /\ b[10] * W(2) \in Nat /\ b[11] * W(3) \in Nat
      /\ b[12] * W(4) \in Nat /\ b[13] * W(5) \in Nat
  BY Weights
<1> QED BY <1>3, <1>4, <1>5, <1>6

(* Two buffers with the same bytes have the same pid. *)
LEMMA SamePid ==
  ASSUME NEW b, NEW c, \A i \in 0 .. 3 : b[i] = c[i]
  PROVE  Number(b, 0, 4) = Number(c, 0, 4)
<1>1. [i \in 0 .. (4 - 1) |-> b[0 + i] * BASE^i] = [i \in 0 .. (4 - 1) |-> c[0 + i] * BASE^i]
  OBVIOUS
<1> QED BY <1>1 DEF Number

(* The address, as the packet has it and as read_output computes it. *)
LEMMA SameVaddr ==
  ASSUME NEW b, NEW c, \A i \in 8 .. 15 : b[i] = c[i]
  PROVE  Number(b, 8, 8) = Number(c, 8, 8) /\ Vaddr(b) = Vaddr(c)
<1>1. [i \in 0 .. (8 - 1) |-> b[8 + i] * BASE^i] = [i \in 0 .. (8 - 1) |-> c[8 + i] * BASE^i]
  OBVIOUS
<1>2. [i \in 0 .. 5 |-> b[8 + i] * Power(i)] = [i \in 0 .. 5 |-> c[8 + i] * Power(i)]
  OBVIOUS
<1> QED BY <1>1, <1>2 DEF Number, Vaddr

(* A weight with a common factor taken out. *)
LEMMA Regroup ==
  ASSUME NEW x \in Nat, NEW q \in Nat, NEW w \in Nat
  PROVE  x * (q * w) = q * (x * w)
  OBVIOUS

(* The two lowest of eight bytes, and the number that is above them. *)
Above(b, lo) == b[lo + 2] + b[lo + 3] * W(1) + b[lo + 4] * W(2) + b[lo + 5] * W(3) + b[lo + 6] * W(4) + b[lo + 7] * W(5)

(* The number in eight bytes, split after the second. *)
LEMMA TwoBytes ==
  ASSUME NEW b, NEW lo \in Nat, \A i \in 0 .. 7 : b[lo + i] \in Nat
  PROVE  /\ Above(b, lo) \in Nat
         /\ Number(b, lo, 8) = b[lo] + BASE * b[lo + 1] + (BASE * BASE) * Above(b, lo)
<1>2. /\ HALF \in Nat \ {0} /\ BASE = HALF * HALF /\ BASE \in Nat \ {0} /\ PAGE = BASE * HALF
      /\ W(0) = 1 /\ W(1) = BASE * W(0) /\ W(2) = BASE * W(1) /\ W(3) = BASE * W(2)
      /\ W(4) = BASE * W(3) /\ W(5) = BASE * W(4) /\ W(6) = BASE * W(5) /\ W(7) = BASE * W(6)
      /\ \A i \in 0 .. 8 : W(i) \in Nat
  BY Weights DEF PAGE
<1>3. Number(b, lo, 8) = 0 + b[lo] * W(0) + b[lo + 1] * W(1) + b[lo + 2] * W(2) + b[lo + 3] * W(3)
        + b[lo + 4] * W(4) + b[lo + 5] * W(5) + b[lo + 6] * W(6) + b[lo + 7] * W(7)
  BY EightBytes
<1> DEFINE rest == b[lo + 2] + b[lo + 3] * W(1) + b[lo + 4] * W(2) + b[lo + 5] * W(3) + b[lo + 6] * W(4) + b[lo + 7] * W(5)
<1>4. rest \in Nat
  <2>1. /\ b[lo + 3] * W(1) \in Nat /\ b[lo + 4] * W(2) \in Nat /\ b[lo + 5] * W(3) \in Nat /\ b[lo + 6] * W(4) \in Nat
        /\ b[lo + 7] * W(5) \in Nat /\ b[lo + 2] \in Nat
    BY <1>2
  <2> QED BY <2>1
<1>5. W(1) = BASE /\ \A i \in 0 .. 5 : W(i + 2) = (BASE * BASE) * W(i)
  <2>1. \A i \in 0 .. 7 : W(i + 1) = BASE * W(i)
    BY Weights
  <2>2. ASSUME NEW i \in 0 .. 5 PROVE W(i + 2) = (BASE * BASE) * W(i)
    <3>1. W(i + 1) = BASE * W(i) /\ W((i + 1) + 1) = BASE * W(i + 1) /\ (i + 1) + 1 = i + 2 /\ W(i) \in Nat
      BY <1>2, <2>1
    <3>2. W(i + 2) = BASE * (BASE * W(i))
      BY <3>1
    <3> QED BY <1>2, <3>1, <3>2
  <2> QED BY <1>2, <2>2
<1>6. Number(b, lo, 8) = b[lo] + BASE * b[lo + 1] + (BASE * BASE) * rest
  <2>1. /\ W(2) = (BASE * BASE) * 1 /\ W(3) = (BASE * BASE) * W(1) /\ W(4) = (BASE * BASE) * W(2)
        /\ W(5) = (BASE * BASE) * W(3) /\ W(6) = (BASE * BASE) * W(4) /\ W(7) = (BASE * BASE) * W(5)
    BY <1>2, <1>5
  <2>2. PICK Q : Q = BASE * BASE
    OBVIOUS
  <2>3. Q \in Nat
    BY <1>2, <2>2
  <2>4. /\ b[lo + 2] * W(2) = Q * b[lo + 2] /\ b[lo + 3] * W(3) = Q * (b[lo + 3] * W(1)) /\ b[lo + 4] * W(4) = Q * (b[lo + 4] * W(2))
        /\ b[lo + 5] * W(5) = Q * (b[lo + 5] * W(3)) /\ b[lo + 6] * W(6) = Q * (b[lo + 6] * W(4))
        /\ b[lo + 7] * W(7) = Q * (b[lo + 7] * W(5))
    <3>1. /\ b[lo + 2] \in Nat /\ b[lo + 3] \in Nat /\ b[lo + 4] \in Nat /\ b[lo + 5] \in Nat /\ b[lo + 6] \in Nat /\ b[lo + 7] \in Nat
          /\ W(1) \in Nat /\ W(2) \in Nat /\ W(3) \in Nat /\ W(4) \in Nat /\ W(5) \in Nat
      BY <1>2
    <3>2. b[lo + 2] * W(2) = Q * (b[lo + 2] * 1) /\ b[lo + 2] * 1 = b[lo + 2]
      BY <2>1, <2>2, <2>3, <3>1, Regroup
    <3>3. b[lo + 3] * W(3) = Q * (b[lo + 3] * W(1)) /\ b[lo + 4] * W(4) = Q * (b[lo + 4] * W(2))
      BY <2>1, <2>2, <2>3, <3>1, Regroup
    <3>4. b[lo + 5] * W(5) = Q * (b[lo + 5] * W(3)) /\ b[lo + 6] * W(6) = Q * (b[lo + 6] * W(4))
      BY <2>1, <2>2, <2>3, <3>1, Regroup
    <3>5. b[lo + 7] * W(7) = Q * (b[lo + 7] * W(5))
      BY <2>1, <2>2, <2>3, <3>1, Regroup
    <3> QED BY <3>2, <3>3, <3>4, <3>5
  <2>5. PICK x0, x1, x2, x3, x4, x5 :
          /\ x0 = b[lo + 2] /\ x1 = b[lo + 3] * W(1) /\ x2 = b[lo + 4] * W(2) /\ x3 = b[lo + 5] * W(3)
          /\ x4 = b[lo + 6] * W(4) /\ x5 = b[lo + 7] * W(5)
    OBVIOUS
  <2>6. {x0, x1, x2, x3, x4, x5} \subseteq Nat /\ rest = x0 + x1 + x2 + x3 + x4 + x5
    BY <1>2, <2>5
  <2>a. b[lo] \in Nat /\ b[lo + 1] \in Nat
    <3>1. b[lo + 0] \in Nat /\ lo + 0 = lo
      OBVIOUS
    <3> QED BY <3>1
  <2>7. b[lo] * W(0) = b[lo] /\ b[lo + 1] * W(1) = BASE * b[lo + 1] /\ b[lo] \in Nat /\ BASE * b[lo + 1] \in Nat
    BY <1>2, <1>5, <2>a
  <2>8. Number(b, lo, 8) = b[lo] + BASE * b[lo + 1] + Q * x0 + Q * x1 + Q * x2 + Q * x3 + Q * x4 + Q * x5
    BY <1>3, <2>3, <2>4, <2>5, <2>6, <2>7
  <2>9. Q * rest = Q * x0 + Q * x1 + Q * x2 + Q * x3 + Q * x4 + Q * x5
    BY <2>3, <2>6
  <2> HIDE DEF rest
  <2>10. {Q * x0, Q * x1, Q * x2, Q * x3, Q * x4, Q * x5} \subseteq Nat
    BY <2>3, <2>6
  <2>11. Number(b, lo, 8) = b[lo] + BASE * b[lo + 1] + Q * rest
    BY <2>7, <2>8, <2>9, <2>10
  <2> QED BY <2>2, <2>11
<1> QED BY <1>4, <1>6 DEF Above

(* The offset in the page is the lowest byte and half of the next. *)
LEMMA OffsetIs ==
  ASSUME NEW b, \A i \in 8 .. 15 : b[i] \in 0 .. (BASE - 1)
  PROVE  /\ Number(b, 8, 8) \in Nat
         /\ Number(b, 8, 8) % PAGE = b[8] + BASE * (b[9] % HALF)
<1>1. \A i \in 8 .. 15 : b[i] \in Nat
  BY Weights
<1>2. HALF \in Nat \ {0} /\ BASE = HALF * HALF /\ BASE \in Nat \ {0} /\ PAGE = BASE * HALF
  BY Weights DEF PAGE
<1>3. PICK rest : rest = Above(b, 8)
  OBVIOUS
<1>4. rest \in Nat /\ Number(b, 8, 8) = b[8] + BASE * b[8 + 1] + (BASE * BASE) * rest
  <2>1. \A i \in 0 .. 7 : b[8 + i] \in Nat
    BY <1>1
  <2> QED BY <1>3, <2>1, TwoBytes
<1>6. Number(b, 8, 8) = b[8] + BASE * b[9] + (BASE * BASE) * rest
  BY <1>4
<1>7. PICK y, z : y = b[9] % HALF /\ z = b[9] \div HALF
  OBVIOUS
<1>8. b[9] = HALF * z + y /\ y \in 0 .. (HALF - 1) /\ z \in Nat
  <2>1. b[9] \in Nat /\ HALF \in Nat \ {0}
    BY <1>1, <1>2
  <2>2. /\ b[9] = HALF * (b[9] \div HALF) + (b[9] % HALF)
        /\ b[9] % HALF \in 0 .. (HALF - 1) /\ b[9] \div HALF \in Nat
    BY <2>1, Divided
  <2> QED BY <1>7, <2>2
<1>9. Number(b, 8, 8) = PAGE * (z + HALF * rest) + (b[8] + BASE * y)
  <2>1. (BASE * BASE) * rest = PAGE * (HALF * rest)
    BY <1>2, <1>4
  <2>2. BASE * b[9] = PAGE * z + BASE * y
    BY <1>2, <1>8
  <2>3. PAGE * (z + HALF * rest) = PAGE * z + PAGE * (HALF * rest)
    BY <1>2, <1>4, <1>8
  <2>4. /\ b[8] \in Nat /\ BASE * y \in Nat /\ PAGE * z \in Nat /\ PAGE * (HALF * rest) \in Nat
    BY <1>1, <1>2, <1>4, <1>8
  <2> QED BY <1>6, <2>1, <2>2, <2>3, <2>4
<1>10. b[8] + BASE * y \in 0 .. (PAGE - 1)
  <2>1. b[8] \in 0 .. (BASE - 1) /\ BASE * y \in Nat
    BY <1>2, <1>8
  <2>2. BASE * y <= BASE * (HALF - 1)
    BY <1>2, <1>8
  <2>3. BASE * (HALF - 1) = PAGE - BASE /\ PAGE \in Nat
    BY <1>2
  <2> QED BY <1>2, <2>1, <2>2, <2>3
<1>11. PAGE \in Nat \ {0} /\ z + HALF * rest \in Nat /\ Number(b, 8, 8) \in Nat
  <2>1. PAGE \in Nat \ {0} /\ HALF * rest \in Nat
    BY <1>2, <1>4
  <2>2. z + HALF * rest \in Nat
    BY <1>8, <2>1
  <2>3. PAGE * (z + HALF * rest) \in Nat
    BY <2>1, <2>2
  <2> QED BY <1>9, <1>10, <2>1, <2>2, <2>3
<1> QED BY <1>7, <1>9, <1>10, <1>11, QuotientIs

(* The bytes of a packet are bytes, and those above the sixth of a vaddr   *)
(* of six bytes are zero.                                                  *)
LEMMA BytesAre ==
  ASSUME NEW p \in Packets, p.vaddr < W(6)
  PROVE  /\ \A i \in 0 .. MAX_LEN : Bytes(p)[i] \in 0 .. (BASE - 1)
         /\ Bytes(p)[14] = 0 /\ Bytes(p)[15] = 0
<1>1. p.pid \in Nat /\ p.vaddr \in Nat /\ p.paddr \in Nat /\ MAX_LEN \in Nat /\ MAX_LEN >= 24
  BY PaddrAssumption
<1>2. BASE \in Nat \ {0} /\ \A i \in 0 .. 8 : W(i) \in Nat \ {0}
  BY Weights
<1>3. ASSUME NEW n \in Nat, NEW j \in 0 .. 7 PROVE Digit(n, j) \in 0 .. (BASE - 1)
  <2>0. W(j) \in Nat \ {0}
    BY <1>2
  <2>1. n \div W(j) \in Nat
    BY <2>0, Divided
  <2>2. Digit(n, j) = (n \div W(j)) % BASE
    BY DEF Digit, W
  <2> QED BY <1>2, <2>1, <2>2, Divided
<1>4. \A i \in 0 .. MAX_LEN : Bytes(p)[i] \in 0 .. (BASE - 1)
  <2> SUFFICES ASSUME NEW i \in 0 .. MAX_LEN PROVE Bytes(p)[i] \in 0 .. (BASE - 1)
    OBVIOUS
  <2>1. Bytes(p)[i] = IF i < 4 THEN Digit(p.pid, i)
                      ELSE IF i \in 8 .. 15 THEN Digit(p.vaddr, i - 8)
                      ELSE IF i \in 16 .. 23 THEN Digit(p.paddr, i - 16) ELSE 0
    BY DEF Bytes
  <2>2. CASE i < 4
    <3>1. i \in 0 .. 7
      BY <1>1, <2>2
    <3> QED BY <1>1, <1>3, <2>1, <2>2, <3>1
  <2>3. CASE i \in 8 .. 15
    <3>1. i - 8 \in 0 .. 7 /\ ~(i < 4)
      BY <2>3
    <3> QED BY <1>1, <1>3, <2>1, <2>3, <3>1
  <2>4. CASE i \in 16 .. 23
    <3>1. i - 16 \in 0 .. 7 /\ ~(i < 4) /\ i \notin 8 .. 15
      BY <2>4
    <3> QED BY <1>1, <1>3, <2>1, <2>4, <3>1
  <2>5. CASE ~(i < 4) /\ i \notin 8 .. 15 /\ i \notin 16 .. 23
    BY <1>2, <2>1, <2>5
  <2> QED BY <2>2, <2>3, <2>4, <2>5
<1>5. ASSUME NEW j \in {6, 7} PROVE Digit(p.vaddr, j) = 0
  <2>1. W(7) = BASE * W(6) /\ W(6) \in Nat \ {0} /\ W(j) \in Nat \ {0} /\ BASE \in Nat \ {0, 1}
    BY Weights
  <2>2. W(7) >= W(6)
    BY <2>1
  <2>3. p.vaddr < W(j)
    BY <1>1, <2>1, <2>2
  <2>4. p.vaddr = W(j) * 0 + p.vaddr /\ p.vaddr \in 0 .. (W(j) - 1)
    BY <1>1, <2>1, <2>3
  <2>5. p.vaddr \div W(j) = 0
    <3>1. PICK v, w : v = p.vaddr /\ w = W(j)
      OBVIOUS
    <3>2. v \in Nat /\ w \in Nat \ {0} /\ v = w * 0 + v /\ v \in 0 .. (w - 1)
      BY <1>1, <2>1, <2>4, <3>1
    <3>3. v \div w = 0
      BY <3>2, QuotientIs
    <3> QED BY <3>1, <3>3
  <2>6. 0 = BASE * 0 + 0 /\ 0 \in 0 .. (BASE - 1)
    BY <2>1
  <2>7. 0 % BASE = 0
    BY <2>1, <2>6, QuotientIs
  <2> QED BY <2>5, <2>7 DEF Digit, W
<1>6. Bytes(p)[14] = Digit(p.vaddr, 6) /\ Bytes(p)[15] = Digit(p.vaddr, 7)
  BY <1>1 DEF Bytes
<1> QED BY <1>4, <1>5, <1>6

(* The bytes that read_output puts in place of paddr are those of the      *)
(* physical address, but for the lowest, which is that of the packet.      *)
LEMMA FrameAndOffset ==
  ASSUME NEW b, NEW x \in 0 .. (BASE - 1), NEW y \in 0 .. (HALF - 1),
         NEW pfn \in Nat, pfn < HALF * W(6),
         b[16] = x, b[17] = y + (pfn % HALF) * HALF,
         \A j \in 18 .. 23 : b[j] = Digit(pfn \div HALF, j - 18)
  PROVE  Number(b, 16, 8) = pfn * PAGE + (x + BASE * y)
<1>1. /\ HALF \in Nat \ {0} /\ BASE = HALF * HALF /\ BASE \in Nat \ {0} /\ PAGE = BASE * HALF
      /\ W(0) = 1 /\ \A i \in 0 .. 8 : W(i) \in Nat \ {0}
  BY Weights DEF PAGE
<1>2. PICK q, h : q = pfn \div HALF /\ h = pfn % HALF
  OBVIOUS
<1>3. pfn = HALF * q + h /\ h \in 0 .. (HALF - 1) /\ q \in Nat
  BY <1>1, <1>2, Divided
<1>4. q < W(6)
  <2>1. PICK w : w = W(6)
    OBVIOUS
  <2>2. w \in Nat
    BY <1>1, <2>1
  <2>3. ASSUME q >= w PROVE FALSE
    <3>1. PICK d \in Nat : q = w + d
      BY <1>3, <2>2, <2>3
    <3>2. HALF * q = HALF * w + HALF * d /\ HALF * d \in Nat /\ HALF * w \in Nat
      BY <1>1, <2>2, <3>1
    <3>3. pfn < HALF * w
      BY <2>1
    <3> QED BY <1>3, <3>2, <3>3
  <2> QED BY <1>3, <2>1, <2>2, <2>3
<1>5. /\ \A j \in 0 .. 5 : Digit(q, j) \in 0 .. (BASE - 1)
      /\ q = Digit(q, 0) * W(0) + Digit(q, 1) * W(1) + Digit(q, 2) * W(2) + Digit(q, 3) * W(3)
              + Digit(q, 4) * W(4) + Digit(q, 5) * W(5)
  BY <1>3, <1>4, SixDigits
<1>6. /\ b[18] = Digit(q, 0) /\ b[19] = Digit(q, 1) /\ b[20] = Digit(q, 2)
      /\ b[21] = Digit(q, 3) /\ b[22] = Digit(q, 4) /\ b[23] = Digit(q, 5)
  BY <1>2
<1>7. b[16] \in Nat /\ b[17] \in Nat /\ b[17] = y + h * HALF
  <2>1. h * HALF \in Nat
    BY <1>1, <1>3
  <2> QED BY <1>1, <1>2, <2>1
<1>8. \A i \in 0 .. 7 : b[16 + i] \in Nat
  <2>1. b[18] \in Nat /\ b[19] \in Nat /\ b[20] \in Nat /\ b[21] \in Nat /\ b[22] \in Nat /\ b[23] \in Nat
    BY <1>1, <1>5, <1>6
  <2> QED BY <1>7, <2>1
<1>9. Above(b, 16) = q
  <2>1. Above(b, 16) = b[18] + b[19] * W(1) + b[20] * W(2) + b[21] * W(3) + b[22] * W(4) + b[23] * W(5)
    BY DEF Above
  <2>2. Digit(q, 0) * W(0) = Digit(q, 0)
    BY <1>1, <1>5
  <2> QED BY <1>5, <1>6, <2>1, <2>2
<1>10. Number(b, 16, 8) = x + BASE * (y + h * HALF) + (BASE * BASE) * q
  <2>1. Number(b, 16, 8) = b[16] + BASE * b[16 + 1] + (BASE * BASE) * Above(b, 16)
    BY <1>8, TwoBytes
  <2> QED BY <1>7, <1>9, <2>1
<1>11. BASE * (y + h * HALF) = BASE * y + h * PAGE
  BY <1>1, <1>3
<1>12. (BASE * BASE) * q = (HALF * q) * PAGE
  BY <1>1, <1>3
<1>13. pfn * PAGE = (HALF * q) * PAGE + h * PAGE
  BY <1>1, <1>3
<1>14. BASE * y \in Nat /\ h * PAGE \in Nat /\ (HALF * q) * PAGE \in Nat /\ x \in Nat
  BY <1>1, <1>3
<1> QED BY <1>10, <1>11, <1>12, <1>13, <1>14
-----------------------------------------------------------------------------
(* A read in progress: kernel_buf is what it could copy of the packet, and *)
(* pid and vaddr are what is in there.                                     *)
AskedOK ==
  /\ fd \in Nat /\ asked = user /\ reader.length \in Nat
  /\ \A i \in 0 .. MAX_LEN : i < RealLength(reader.length) => kernel_buf[i] = asked[i]
  /\ reader.pid = Number(kernel_buf, 0, 4) /\ reader.vaddr = Vaddr(kernel_buf)

(* The page table had the page. *)
FoundOK ==
  /\ reader.pid \in Pids /\ mm[reader.pid] # NULL
  /\ reader.vaddr \div PAGE \in DOMAIN mm[reader.pid]
  /\ reader.pfn = mm[reader.pid][reader.vaddr \div PAGE]

(* While the file offset is 0 the buffer is a packet nobody has touched. *)
ReaderOK ==
  /\ fd = NULL \/ fd \in Nat
  /\ user = [i \in 0 .. MAX_LEN |-> user[i]]
  /\ fd = 0 => \E p \in Packets : user = Bytes(p)
  /\ reader = [at |-> reader.at, length |-> reader.length, pid |-> reader.pid,
               vaddr |-> reader.vaddr, pfn |-> reader.pfn, ret |-> reader.ret]
  /\ reader.at \in {"user", "find", "answer"}
  /\ reader.at # "user" => AskedOK
  /\ reader.at = "answer" => FoundOK

(* An address has six bytes and a frame six and a half, as on a machine    *)
(* with addresses of 48 bits and frames of 52.                             *)
AddressesFit ==
  /\ \A p \in Packets : p.vaddr < BASE^6
  /\ \A p \in Pids : mm[p] # NULL =>
       \A page \in DOMAIN mm[p] : mm[p][page] \in 0 .. (HALF * BASE^6 - 1)

(* The locals of read_output between two reads. *)
LEMMA InUserIs ==
  ASSUME NEW r
  PROVE  /\ InUser(r).at = "user" /\ InUser(r).ret = r
         /\ InUser(r) = [at |-> InUser(r).at, length |-> InUser(r).length, pid |-> InUser(r).pid,
                         vaddr |-> InUser(r).vaddr, pfn |-> InUser(r).pfn, ret |-> InUser(r).ret]
  BY DEF InUser

(* The file is not open yet. *)
LEMMA ReaderInit == Init => ReaderOK /\ AnswerIsRight
<1> SUFFICES ASSUME Init PROVE ReaderOK /\ AnswerIsRight
  OBVIOUS
<1>1. fd = NULL /\ NULL # 0 /\ user = Clean(0) /\ reader = InUser(0) /\ asked = NULL
  BY TasksAssumption DEF Init, PaddrInit
<1>2. Clean(0) = [i \in 0 .. MAX_LEN |-> Clean(0)[i]]
  BY DEF Clean
<1> QED BY <1>1, <1>2, InUserIs DEF ReaderOK, AnswerIsRight

(* Back in the reader with an error the packet is what it was. *)
LEMMA RefusedIsRight ==
  ASSUME NEW r \in {-EFAULT, -EINVAL, NULL}, reader' = InUser(r), user' = asked', r = NULL => fd' = NULL
  PROVE  AnswerIsRight'
<1>1. reader'.at = "user" /\ reader'.ret = r
  BY InUserIs
<1>2. r # 24 \/ fd' # 24
  BY TasksAssumption DEF EFAULT, EINVAL
<1> QED BY <1>1, <1>2 DEF AnswerIsRight

(* Opening fills in a new packet, closing forgets it. *)
LEMMA OpenCloseKeep ==
  ASSUME ReaderOK, \/ Close \/ \E p \in Packets : Open(p)
  PROVE  ReaderOK' /\ AnswerIsRight'
<1>1. ASSUME NEW p \in Packets, Open(p) PROVE ReaderOK' /\ AnswerIsRight'
  <2>1. user' = Bytes(p) /\ fd' = 0 /\ asked' = NULL /\ reader' = reader /\ fd = NULL
    BY <1>1 DEF Open
  <2>2. reader.at = "user"
    BY <2>1, TasksAssumption DEF ReaderOK, AskedOK
  <2>3. Bytes(p) = [i \in 0 .. MAX_LEN |-> Bytes(p)[i]]
    BY DEF Bytes
  <2>4. AnswerIsRight'
    BY <2>1 DEF AnswerIsRight
  <2> QED BY <2>1, <2>2, <2>3, <2>4 DEF ReaderOK
<1>2. ASSUME Close PROVE ReaderOK' /\ AnswerIsRight'
  <2>1. fd' = NULL /\ NULL # 0 /\ user' = Clean(0) /\ reader' = InUser(0) /\ asked' = NULL
    BY <1>2, TasksAssumption DEF Close
  <2>2. Clean(0) = [i \in 0 .. MAX_LEN |-> Clean(0)[i]]
    BY DEF Clean
  <2>3. AnswerIsRight'
    BY <2>1 DEF AnswerIsRight
  <2> QED BY <2>1, <2>2, <2>3, InUserIs DEF ReaderOK
<1> QED BY <1>1, <1>2

(* The first part of read_output copies the packet and reads its numbers. *)
LEMMA CopyInKeeps ==
  ASSUME ReaderOK, \/ CopyInFails \/ \E length \in Lengths : CopyIn(length)
  PROVE  ReaderOK' /\ AnswerIsRight'
<1>1. ASSUME CopyInFails PROVE ReaderOK' /\ AnswerIsRight'
  <2>1. fd' = fd /\ user' = user /\ reader' = InUser(-EFAULT) /\ asked' = user /\ fd # NULL
    BY <1>1 DEF CopyInFails
  <2>2. AnswerIsRight'
    <3>1. -EFAULT # NULL
      BY TasksAssumption DEF EFAULT
    <3> QED BY <2>1, <3>1, RefusedIsRight
  <2> QED BY <2>1, <2>2, InUserIs DEF ReaderOK
<1>2. ASSUME NEW length \in Lengths, CopyIn(length) PROVE ReaderOK' /\ AnswerIsRight'
  <2> DEFINE real == RealLength(length)
             buf  == [i \in 0 .. MAX_LEN |-> IF i < real THEN user[i] ELSE Clean(kernel_buf[MAX_LEN])[i]]
  <2>1. /\ fd' = fd /\ fd # NULL /\ user' = user /\ asked' = user /\ kernel_buf' = buf
        /\ reader' = [InUser(0) EXCEPT !.at = "find", !.length = length,
                        !.pid = Number(buf, 0, 4), !.vaddr = Vaddr(buf)]
    BY <1>2 DEF CopyIn
  <2>2. \A i \in 0 .. MAX_LEN : i < real => buf[i] = user[i]
    OBVIOUS
  <2> HIDE DEF buf
  <2>3. reader' = [at |-> "find", length |-> length, pid |-> Number(buf, 0, 4), vaddr |-> Vaddr(buf),
                   pfn |-> 0, ret |-> 0]
    BY <2>1 DEF InUser
  <2>4. /\ reader'.at = "find" /\ reader'.length = length /\ reader'.pid = Number(buf, 0, 4)
        /\ reader'.vaddr = Vaddr(buf) /\ reader'.pfn = 0 /\ reader'.ret = 0
    BY <2>3
  <2>5. length \in Nat /\ fd \in Nat
    BY <2>1, PaddrAssumption DEF ReaderOK
  <2>6. AskedOK'
    BY <2>1, <2>2, <2>4, <2>5 DEF AskedOK
  <2>7. AnswerIsRight'
    BY <2>4 DEF AnswerIsRight
  <2> QED BY <2>1, <2>3, <2>4, <2>6, <2>7 DEF ReaderOK
<1> QED BY <1>1, <1>2

(* The look at the page table leaves the reader's buffer alone. *)
LEMMA FindPageKeeps ==
  ASSUME ReaderOK, FindPage
  PROVE  ReaderOK' /\ AnswerIsRight'
<1> DEFINE table == PageTable(reader.pid)
           page  == reader.vaddr \div PAGE
<1>1. /\ reader.at = "find" /\ user' = user /\ kernel_buf' = kernel_buf /\ asked' = asked
      /\ AskedOK /\ fd \in Nat /\ asked = user
  BY DEF FindPage, ReaderOK, AskedOK
<1>2. ASSUME NEW r \in {-EFAULT, -EINVAL, NULL}, reader' = InUser(r), fd' = fd \/ fd' = NULL, r = NULL => fd' = NULL
      PROVE  ReaderOK' /\ AnswerIsRight'
  <2>1. AnswerIsRight'
    BY <1>1, <1>2, RefusedIsRight
  <2>2. NULL # 0
    BY TasksAssumption
  <2> QED BY <1>1, <1>2, <2>1, <2>2, InUserIs DEF ReaderOK
<1>3. ASSUME Found(reader.pid), table # NULL, page \in DOMAIN table, fd' = fd,
             reader' = [reader EXCEPT !.at = "answer", !.pfn = table[page]]
      PROVE  ReaderOK' /\ AnswerIsRight'
  <2>0. reader = [at |-> reader.at, length |-> reader.length, pid |-> reader.pid,
                  vaddr |-> reader.vaddr, pfn |-> reader.pfn, ret |-> reader.ret]
    BY DEF ReaderOK
  <2>1. reader' = [at |-> "answer", length |-> reader.length, pid |-> reader.pid,
                   vaddr |-> reader.vaddr, pfn |-> table[page], ret |-> reader.ret]
    BY <1>3, <2>0
  <2>2. /\ reader'.at = "answer" /\ reader'.length = reader.length /\ reader'.pid = reader.pid
        /\ reader'.vaddr = reader.vaddr /\ reader'.pfn = table[page] /\ reader'.ret = reader.ret
    BY <2>1
  <2>3. AskedOK'
    BY <1>1, <1>3, <2>2 DEF AskedOK
  <2>4. FoundOK'
    BY <1>3, <2>2 DEF FoundOK, Found, Live, PageTable
  <2>5. AnswerIsRight'
    BY <2>2 DEF AnswerIsRight
  <2> QED BY <1>1, <1>3, <2>1, <2>2, <2>3, <2>4, <2>5 DEF ReaderOK
<1>4. \/ ~Found(reader.pid) /\ reader' = InUser(-EINVAL) /\ fd' = fd
      \/ reader' = InUser(NULL) /\ fd' = NULL
      \/ /\ Found(reader.pid) /\ table # NULL /\ fd' = fd
         /\ reader' = IF page \in DOMAIN table
                      THEN [reader EXCEPT !.at = "answer", !.pfn = table[page]]
                      ELSE InUser(-EFAULT)
  BY Zenon DEF FindPage
<1>5. -EFAULT # NULL /\ -EINVAL # NULL
  BY TasksAssumption DEF EFAULT, EINVAL
<1> HIDE DEF table, page
<1>6. \/ reader' = InUser(-EINVAL) /\ fd' = fd
      \/ reader' = InUser(-EFAULT) /\ fd' = fd
      \/ reader' = InUser(NULL) /\ fd' = NULL
      \/ /\ Found(reader.pid) /\ table # NULL /\ page \in DOMAIN table /\ fd' = fd
         /\ reader' = [reader EXCEPT !.at = "answer", !.pfn = table[page]]
  BY <1>4
<1> QED BY <1>2, <1>3, <1>5, <1>6

(* The one step that writes to the reader's buffer. *)
LEMMA AnswerKeeps ==
  ASSUME ReaderOK, AddressesFit, Answer
  PROVE  ReaderOK' /\ AnswerIsRight'
<1>1. PICK real, left, n :
        /\ real = RealLength(reader.length)
        /\ left = (IF fd < real THEN real - fd ELSE 0)
        /\ n = (IF reader.length < left THEN reader.length ELSE left)
  OBVIOUS
<1>2. /\ reader.at = "answer" /\ output_buf' = Output(real) /\ fd' = fd + n /\ reader' = InUser(n)
      /\ user' = [i \in 0 .. MAX_LEN |-> IF i < n THEN output_buf'[fd + i] ELSE user[i]]
      /\ kernel_buf' = kernel_buf /\ asked' = asked
  BY <1>1, Zenon DEF Answer
<1>3. AskedOK /\ FoundOK
  BY <1>2 DEF ReaderOK
<1>4. /\ MAX_LEN \in Nat /\ MAX_LEN >= 24 /\ reader.length \in Nat /\ fd \in Nat
  BY <1>3, PaddrAssumption DEF AskedOK
<1>5. real \in Nat /\ real <= MAX_LEN /\ real <= reader.length /\ left \in Nat /\ n \in Nat
  BY <1>1, <1>4 DEF RealLength
<1>6. n = 0 => user' = user
  <2> SUFFICES ASSUME n = 0 PROVE user' = user
    OBVIOUS
  <2>1. user' = [i \in 0 .. MAX_LEN |-> user[i]]
    BY <1>2, <1>4
  <2> QED BY <2>1 DEF ReaderOK
<1>7. ReaderOK'
  <2>1. fd' \in Nat /\ (fd' = 0 => fd = 0 /\ n = 0)
    BY <1>2, <1>4, <1>5
  <2>2. user' = [i \in 0 .. MAX_LEN |-> user'[i]]
    BY <1>2
  <2>3. fd' = 0 => \E p \in Packets : user' = Bytes(p)
    BY <1>6, <2>1 DEF ReaderOK
  <2> QED BY <1>2, <2>1, <2>2, <2>3, InUserIs DEF ReaderOK
<1>8. reader'.at = "user" /\ reader'.ret = n
  BY <1>2, InUserIs
<1>9. n \in {0, -EFAULT, -EINVAL} => user' = asked'
  <2>1. n \in {0, -EFAULT, -EINVAL} => n = 0
    BY <1>5 DEF EFAULT, EINVAL
  <2> QED BY <1>2, <1>3, <1>6, <2>1 DEF AskedOK
<1>10. ASSUME n = 24, fd' = 24, asked'[16] = asked'[8]
       PROVE  /\ \A i \in 0 .. 15 : user'[i] = asked'[i]
              /\ Number(user', 16, 8) = mm[Number(asked', 0, 4)][Number(asked', 8, 8) \div PAGE] * PAGE
                                          + (Number(asked', 8, 8) % PAGE)
  <2>1. fd = 0 /\ real = 24
    <3>1. fd = 0
      BY <1>2, <1>4, <1>10
    <3> QED BY <1>1, <1>4, <1>5, <1>10, <3>1
  <2>2. PICK p \in Packets : asked = Bytes(p)
    BY <1>3, <2>1 DEF ReaderOK, AskedOK
  <2>3. /\ \A i \in 0 .. MAX_LEN : asked[i] \in 0 .. (BASE - 1)
        /\ asked[14] = 0 /\ asked[15] = 0
    BY <2>2, BytesAre DEF AddressesFit, W
  <2>4. \A i \in 0 .. 23 : kernel_buf[i] = asked[i]
    BY <1>1, <1>3, <1>4, <2>1 DEF AskedOK
  <2>5. \A i \in 0 .. 23 : user'[i] = Output(24)[i]
    <3>1. \A i \in 0 .. 23 : user'[i] = output_buf'[fd + i]
      BY <1>2, <1>4, <1>10
    <3>2. PICK out : out = Output(24)
      OBVIOUS
    <3>3. output_buf' = out
      BY <1>2, <2>1, <3>2
    <3>4. \A i \in 0 .. 23 : user'[i] = out[i]
      BY <2>1, <3>1, <3>3
    <3> QED BY <3>2, <3>4
  <2>6. /\ \A i \in 0 .. 16 : Output(24)[i] = kernel_buf[i]
        /\ Output(24)[17] = (kernel_buf[9] % HALF) + (reader.pfn % HALF) * HALF
        /\ \A i \in 18 .. 23 : Output(24)[i] = Digit(reader.pfn \div HALF, i - 18)
    BY <1>4 DEF Output
  <2>7. \A i \in 0 .. 16 : user'[i] = asked[i]
    BY <2>4, <2>5, <2>6
  <2>8. user'[16] = asked[8]
    BY <1>2, <1>10, <2>7
  <2>9. user'[17] = (asked[9] % HALF) + (reader.pfn % HALF) * HALF
    BY <2>4, <2>5, <2>6
  <2>10. \A j \in 18 .. 23 : user'[j] = Digit(reader.pfn \div HALF, j - 18)
    BY <2>5, <2>6
  <2>11. reader.pid = Number(asked, 0, 4) /\ reader.vaddr = Number(asked, 8, 8)
    <3>1. reader.pid = Number(asked, 0, 4) /\ reader.vaddr = Vaddr(asked)
      BY <1>3, <2>4, SamePid, SameVaddr DEF AskedOK
    <3>2. \A i \in 8 .. 15 : asked[i] \in Nat
      BY <1>4, <2>3, Weights
    <3> QED BY <2>3, <3>1, <3>2, VaddrIs
  <2>12. reader.pfn = mm[Number(asked, 0, 4)][Number(asked, 8, 8) \div PAGE]
    BY <1>3, <2>11 DEF FoundOK
  <2>13. reader.pfn \in Nat /\ reader.pfn < HALF * W(6)
    <3>1. reader.pfn \in 0 .. (HALF * W(6) - 1)
      BY <1>3 DEF FoundOK, AddressesFit, W
    <3>2. HALF * W(6) \in Nat
      BY Weights
    <3> QED BY <3>1, <3>2
  <2>14. asked[8] \in 0 .. (BASE - 1) /\ asked[9] % HALF \in 0 .. (HALF - 1)
    <3>1. asked[8] \in 0 .. (BASE - 1) /\ asked[9] \in Nat /\ HALF \in Nat \ {0}
      BY <1>4, <2>3, Weights
    <3> QED BY <3>1, Divided
  <2>15. Number(user', 16, 8) = reader.pfn * PAGE + (asked[8] + BASE * (asked[9] % HALF))
    <3>1. PICK u, pfn, y : u = user' /\ pfn = reader.pfn /\ y = asked[9] % HALF
      OBVIOUS
    <3>2. Number(u, 16, 8) = pfn * PAGE + (asked[8] + BASE * y)
      BY <2>8, <2>9, <2>10, <2>13, <2>14, <3>1, FrameAndOffset
    <3> QED BY <3>1, <3>2
  <2>16. Number(asked, 8, 8) % PAGE = asked[8] + BASE * (asked[9] % HALF)
    <3>1. \A i \in 8 .. 15 : asked[i] \in 0 .. (BASE - 1)
      BY <1>4, <2>3
    <3> QED BY <3>1, OffsetIs
  <2>17. \A i \in 0 .. 15 : user'[i] = asked'[i]
    BY <1>2, <2>7
  <2>18. Number(user', 16, 8) = mm[Number(asked, 0, 4)][Number(asked, 8, 8) \div PAGE] * PAGE
                                  + (Number(asked, 8, 8) % PAGE)
    BY <2>12, <2>15, <2>16
  <2> QED BY <1>2, <2>17, <2>18
<1>11. AnswerIsRight'
  BY <1>8, <1>9, <1>10 DEF AnswerIsRight
<1> QED BY <1>7, <1>11

(* A read of paddr/output that returns a whole packet has translated the   *)
(* address in it, whatever the tasks, their page tables and the lengths of *)
(* the reads, if addresses fit the bytes that read_output has for them.    *)
THEOREM PaddrTranslates == AddressesFit => (Spec => []AnswerIsRight)
<1> SUFFICES ASSUME AddressesFit PROVE Spec => []AnswerIsRight
  OBVIOUS
<1> DEFINE Inv == ReaderOK /\ AnswerIsRight
<1>1. Init => Inv
  BY ReaderInit
<1>2. Inv /\ [Next]_vars => Inv'
  <2> SUFFICES ASSUME Inv, [Next]_vars PROVE Inv'
    OBVIOUS
  <2>1. ASSUME UNCHANGED <<user, fd, reader, kernel_buf, asked>> PROVE Inv'
    BY <2>1 DEF ReaderOK, AskedOK, FoundOK, AnswerIsRight
  <2>2. CASE PaddrNext
    <3>1. CASE paddr_init \/ paddr_exit
      BY <2>1, <3>1 DEF paddr_init, paddr_exit
    <3> QED BY <2>2, <3>1, OpenCloseKeep, CopyInKeeps, FindPageKeeps, AnswerKeeps DEF PaddrNext, PaddrStep
  <2>3. CASE UNCHANGED paddr
    BY <2>1, <2>3 DEF paddr
  <2> QED BY <2>2, <2>3 DEF Next, Exits, Forks, vars
<1> QED BY <1>1, <1>2, PTL DEF Spec
=============================================================================
