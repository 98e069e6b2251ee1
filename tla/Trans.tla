------------------------------- MODULE Trans -------------------------------
(***************************************************************************)
(* The matrix transposes of cachelab/trans.c, run by tracegen.c and judged *)
(* by test-trans.c: a function reads A and writes B, its accesses are the  *)
(* trace of the cache simulator, and eval_perf records whether B is the    *)
(* transpose of A and how often the cache missed.  A job without function  *)
(* is the simulator alone, on any trace.                                   *)
(*                                                                         *)
(* The trace has the accesses to the two matrices and to the markers; what *)
(* a build keeps in memory besides them (the stack, which test-trans       *)
(* filters out, and constants) is not in it.                               *)
(***************************************************************************)
EXTENDS Csim

CONSTANTS
  Jobs,        \* [M, N: the options -M and -N, F: the number of a function]
  NULL

ASSUME TransAssumption ==
  \A job \in Jobs : job.M \in 1 .. 256 /\ job.N \in 1 .. 256 /\ job.F \in {0, 1}

VARIABLES
  job,
  pc,          \* the next access of the function
  B,           \* row by row
  reg,         \* tmp0 to tmp7 as 1 to 8, tmp as 9, and a value on its way as 0
  is_diagonal,
  results

transVars == <<job, pc, B, reg, is_diagonal, results>>
vars == <<csimVars, transVars>>
-----------------------------------------------------------------------------
(* A function is the sequence of its accesses.  when tells what they have  *)
(* to do with is_diagonal: nothing, set it, or depend on it and clear it.  *)
Load(mat, row, col, r)  == [id |-> "L", mat |-> mat, row |-> row, col |-> col, r |-> r, when |-> "always"]
Store(row, col, r) == [id |-> "S", mat |-> "B", row |-> row, col |-> col, r |-> r, when |-> "always"]

(* A loop from lo up to hi in steps. *)
For(lo, hi, step, Body(_)) ==
  FlattenSeq([n \in 1 .. ((hi - lo + step - 1) \div step) |-> Body(lo + (n - 1) * step)])

BLOCK_SIZE == 8
HALF == BLOCK_SIZE \div 2

(* trans *)
trans(M, N) ==
  For(0, N, 1, LAMBDA i : For(0, M, 1, LAMBDA j : <<Load("A", i, j, 9), Store(j, i, 9)>>))

\* Mutant: the element on the diagonal is stored at once.
DiagonalLast_AtOnce(k, lo, hi) ==
  For(lo, hi, 1, LAMBDA l : <<Load("A", k, l, 0), Store(l, k, 0)>>)

\* Mutant: is_diagonal is never cleared, and tmp is stored after every row.
DiagonalLast_Always(k, lo, hi) ==
  For(lo, hi, 1, LAMBDA l :
        IF k # l THEN <<Load("A", k, l, 0), Store(l, k, 0)>> ELSE <<Load("A", k, l, 9)>>)
    \o <<Store(k, k, 9)>>

(* A row of A whose element on the diagonal is stored last. *)
DiagonalLast(k, lo, hi) ==
  For(lo, hi, 1, LAMBDA l :
        IF k # l THEN <<Load("A", k, l, 0), Store(l, k, 0)>>
        ELSE <<[Load("A", k, l, 9) EXCEPT !.when = "set"]>>)
    \o <<[Store(k, k, 9) EXCEPT !.when = "is_diagonal"]>>

trans_32_32(M, N) ==
  For(0, N, BLOCK_SIZE, LAMBDA i : For(0, M, BLOCK_SIZE, LAMBDA j :
    For(i, i + BLOCK_SIZE, 1, LAMBDA k : DiagonalLast(k, j, j + BLOCK_SIZE))))

(* The right top of a block of A goes to the right top of the one of B. *)
RightTop(i, j) ==
  For(i, i + HALF, 1, LAMBDA k :
        [x \in 1 .. HALF |-> Load("A", k, j + HALF + x - 1, x)]
          \o [x \in 1 .. HALF |-> Store(j + x - 1, k + HALF, x)])

(* From there to the left bottom, and the left bottom of A in its place. *)
LeftBottom(i, j) ==
  For(j, j + HALF, 1, LAMBDA l :
        [x \in 1 .. HALF |-> Load("B", l, i + HALF + x - 1, x)]
          \o [x \in 1 .. HALF |-> Load("A", i + HALF + x - 1, l, HALF + x)]
          \o [x \in 1 .. HALF |-> Store(l, i + HALF + x - 1, HALF + x)]
          \o [x \in 1 .. HALF |-> Store(l + HALF, i + x - 1, x)])

trans_64_64(M, N) ==
  For(0, M, BLOCK_SIZE, LAMBDA i : For(0, N, BLOCK_SIZE, LAMBDA j :
    For(i, i + HALF, 1, LAMBDA k : DiagonalLast(k, j, j + HALF))
      \o RightTop(i, j) \o LeftBottom(i, j)
      \o For(i + HALF, i + BLOCK_SIZE, 1, LAMBDA k : DiagonalLast(k, j + HALF, j + BLOCK_SIZE))))

min(x, y) == IF x < y THEN x ELSE y

trans_61_67(M, N) ==
  For(0, N, BLOCK_SIZE, LAMBDA i : For(0, M, BLOCK_SIZE, LAMBDA j :
    For(j, min(j + BLOCK_SIZE, M), 1, LAMBDA k : For(i, min(i + BLOCK_SIZE, N), 1, LAMBDA l :
      <<Load("A", l, k, 0), Store(k, l, 0)>>))))

transpose_submit(M, N) ==
  CASE M = 32 -> trans_32_32(M, N)
    [] M = 64 -> trans_64_64(M, N)
    [] M = 61 -> trans_61_67(M, N)
    [] OTHER  -> <<>>

(* registerFunctions, and the markers that tracegen writes around a call. *)
Marker(n) == [id |-> "S", mat |-> "marker", row |-> 0, col |-> n, r |-> NULL, when |-> "always"]
func_list == [j \in Jobs |->
  <<Marker(0)>> \o (IF j.F = 0 THEN transpose_submit(j.M, j.N) ELSE trans(j.M, j.N)) \o <<Marker(1)>>]
-----------------------------------------------------------------------------
(* Two arrays of 256 * 256 integers and the markers, one after the other.  *)
Address(a) ==
  CASE a.mat = "A"      -> 4 * (a.row * job.M + a.col)
    [] a.mat = "B"      -> 4 * (256 * 256 + a.row * job.N + a.col)
    [] a.mat = "marker" -> 4 * (2 * 256 * 256) + a.col

(* initMatrix: no two elements of A are the same, and B holds none of them. *)
A(row, col) == row * job.M + col

TransInit ==
  /\ job \in Jobs \cup {NULL}
  /\ CsimInit(IF job = NULL THEN Options ELSE {[s |-> 5, E |-> 1, b |-> 5]})
  /\ pc = 1
  /\ B = IF job = NULL THEN <<>> ELSE [x \in 0 .. (job.M * job.N - 1) |-> -1]
  /\ reg = [r \in 0 .. 9 |-> NULL]
  /\ is_diagonal \in IF job = NULL THEN {FALSE} ELSE BOOLEAN
  /\ results = [funcid |-> -1, correct |-> 0, misses |-> NULL]

Running == job # NULL /\ pc <= Len(func_list[job])
At      == func_list[job][pc]

Doing(a) == a.when = "is_diagonal" => is_diagonal

Value(a) == IF a.mat = "A" THEN A(a.row, a.col) ELSE B[a.row * job.N + a.col]

DoLoad ==
  /\ Running /\ At.id = "L"
  /\ Access("L", Address(At))
  /\ reg' = [reg EXCEPT ![At.r] = Value(At)]
  /\ is_diagonal' = (At.when = "set" \/ is_diagonal)
  /\ pc' = pc + 1
  /\ UNCHANGED <<job, B, results>>

DoStore ==
  /\ Running /\ At.id = "S" /\ Doing(At)
  /\ Access("S", Address(At))
  /\ B' = IF At.mat = "B" THEN [B EXCEPT ![At.row * job.N + At.col] = reg[At.r]] ELSE B
  /\ is_diagonal' = (At.when = "always" /\ is_diagonal)
  /\ pc' = pc + 1
  /\ UNCHANGED <<job, reg, results>>

(* No element of this row was on the diagonal. *)
NoStore ==
  /\ Running /\ At.id = "S" /\ ~Doing(At)
  /\ pc' = pc + 1
  /\ UNCHANGED <<csimVars, job, B, reg, is_diagonal, results>>

validate == \A i \in 0 .. (job.N - 1), j \in 0 .. (job.M - 1) : B[j * job.N + i] = A(i, j)

(* What eval_perf notes of a function; only function 0 is the submission. *)
Evaluate ==
  /\ job # NULL /\ pc = Len(func_list[job]) + 1
  /\ results' = IF job.F # 0 THEN results
                ELSE IF validate THEN [funcid |-> 0, correct |-> 1, misses |-> misses]
                ELSE [results EXCEPT !.funcid = 0]
  /\ pc' = pc + 1
  /\ UNCHANGED <<csimVars, job, B, reg, is_diagonal>>

TransNext ==
  \/ job = NULL /\ AnyRecord /\ UNCHANGED transVars
  \/ DoLoad \/ DoStore \/ NoStore \/ Evaluate

Spec == TransInit /\ [][TransNext]_vars
-----------------------------------------------------------------------------
InBounds(a) ==
  \/ a.mat = "A" /\ a.row < job.N /\ a.col < job.M
  \/ a.mat = "B" /\ a.row < job.M /\ a.col < job.N
  \/ a.mat = "marker"

(* The three sizes of the assignment, with the misses that driver.py gives *)
(* the full score for.                                                     *)
FullScore == {[M |-> 32, N |-> 32, misses |-> 300], [M |-> 64, N |-> 64, misses |-> 1300],
              [M |-> 61, N |-> 67, misses |-> 2000]}

(* For them the submission transposes, though it keeps parts of A in B on  *)
(* the way, and though is_diagonal is not initialised; the plain function  *)
(* transposes for every size.  No function leaves the matrices, whose      *)
(* sizes need not be multiples of BLOCK_SIZE.                              *)
TransposesAreRight ==
  /\ Running => InBounds(At)
  /\ job # NULL /\ pc > Len(func_list[job]) /\ (job.F = 0 => \E f \in FullScore : f.M = job.M /\ f.N = job.N)
       => validate

(* And it misses, with the cache of test-trans, no more often than the     *)
(* full score allows.                                                      *)
SubmissionEarnsFullScore ==
  \A f \in FullScore :
    job # NULL /\ results.funcid = 0 /\ f.M = job.M /\ f.N = job.N =>
      results.correct = 1 /\ results.misses <= f.misses
=============================================================================
