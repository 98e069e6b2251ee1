------------------------------- MODULE Ptree -------------------------------
(***************************************************************************)
(* kernellab/ptree/dbfs_ptree.c: a pid written to ptree/input leaves the   *)
(* branch of the process tree that ends in it in ptree/ptree.  The handler *)
(* takes its steps while tasks come and go; a line of the result is a pid. *)
(***************************************************************************)
EXTENDS Tasks, Sequences

CONSTANT LINES  \* that fit in the bytes of result

ASSUME PtreeAssumption == LINES \in Nat \ {0}

VARIABLES
  ptLoaded,
  result,      \* NULL for memory that nobody has written
  curr,
  writer,      \* [at, pid: the call in progress] and its last return value;
               \* "broken" once it has left its memory
  tmp_buffers, \* the ones from kmalloc that nobody has freed
  failed,      \* how many writes have failed
  last         \* the pid of the last write that succeeded since insmod

ptree == <<ptLoaded, result, curr, writer, tmp_buffers, failed, last>>

Idle(ret) == [at |-> "user", pid |-> NULL, ret |-> ret]

PtreeInit ==
  /\ ptLoaded = FALSE /\ result = NULL /\ curr = NULL
  /\ writer = Idle(0) /\ tmp_buffers = 0 /\ failed = 0 /\ last = NULL

(* insmod; the first directory may be refused.  rmmod waits for calls in   *)
(* progress.                                                               *)
ptree_init ==
  /\ ~ptLoaded
  /\ \/ /\ "ptree" \notin dirs
        /\ dirs' = dirs \cup {"ptree"} /\ ptLoaded' = TRUE /\ result' = NULL /\ last' = NULL
     \/ UNCHANGED <<dirs, ptLoaded, result, last>>
  /\ UNCHANGED <<real_parent, parents, curr, writer, tmp_buffers, failed, calls>>

ptree_exit ==
  /\ ptLoaded /\ writer.at = "user"
  /\ ptLoaded' = FALSE /\ dirs' = dirs \ {"ptree"} /\ result' = NULL /\ last' = NULL
  /\ UNCHANGED <<real_parent, parents, curr, writer, tmp_buffers, failed, calls>>
-----------------------------------------------------------------------------
(* write_pid_to_input, up to the look at the pid.  The text of the user is *)
(* a number and ends there; without an end, or without a digit, sscanf     *)
(* finds any pid.                                                          *)
CopyPid(pid) ==
  /\ ptLoaded /\ writer.at = "user"
  /\ Enter
  /\ tmp_buffers' = tmp_buffers + 1
  /\ writer' = [writer EXCEPT !.at = "find", !.pid = pid]
  /\ UNCHANGED <<kernel, ptLoaded, result, curr, failed, last>>

(* copy_from_user fails. *)
CopyFails ==
  /\ ptLoaded /\ writer.at = "user"
  /\ Enter
  /\ tmp_buffers' = tmp_buffers + 1
  /\ writer' = Idle(-EFAULT) /\ failed' = failed + 1
  /\ UNCHANGED <<kernel, ptLoaded, result, curr, last>>

\* Mutant: the old branch is cleared before the pid is looked up.
FindTask_ClearFirst ==
  LET found == Found(writer.pid)
  IN  /\ writer.at = "find"
      /\ curr' = IF found THEN writer.pid ELSE NULL
      /\ writer' = IF found THEN [writer EXCEPT !.at = "walk"] ELSE Idle(-EINVAL)
      /\ failed' = IF found THEN failed ELSE failed + 1
      /\ result' = <<>>
      /\ UNCHANGED <<kernel, ptLoaded, tmp_buffers, last, calls>>

\* Mutant: a task that is not there is waited for.
FindTask_Wait ==
  /\ writer.at = "find" /\ Found(writer.pid)
  /\ curr' = writer.pid
  /\ writer' = [writer EXCEPT !.at = "walk"]
  /\ result' = <<>>
  /\ UNCHANGED <<kernel, ptLoaded, tmp_buffers, failed, last, calls>>

FindTask ==
  LET found == Found(writer.pid)
  IN  /\ writer.at = "find"
      /\ curr' = IF found THEN writer.pid ELSE NULL
      /\ writer' = IF found THEN [writer EXCEPT !.at = "walk"] ELSE Idle(-EINVAL)
      /\ failed' = IF found THEN failed ELSE failed + 1
      /\ result' = IF found THEN <<>> ELSE result
      /\ UNCHANGED <<kernel, ptLoaded, tmp_buffers, last, calls>>

(* The loop writes past result, or reads a task that has ended: what it   *)
(* then does to the kernel is anybody's guess.                             *)
LeavesItsMemory == curr \notin Live \/ Len(result) = LINES

Breaks ==
  /\ writer.at = "walk" /\ LeavesItsMemory
  /\ writer' = [writer EXCEPT !.at = "broken"]
  /\ UNCHANGED <<kernel, ptLoaded, result, curr, tmp_buffers, failed, last, calls>>

(* One turn of the loop: a line in front of the others, and on to the      *)
(* parent unless it is init's.  From a kernel thread the way leads to the  *)
(* idle task, and from there to itself.                                    *)
WalkUp ==
  /\ writer.at = "walk" /\ ~LeavesItsMemory
  /\ result' = <<curr>> \o result
  /\ IF curr = INIT
     THEN /\ writer' = Idle(1) /\ tmp_buffers' = tmp_buffers - 1
          /\ last' = writer.pid /\ UNCHANGED curr
     ELSE curr' = real_parent[curr] /\ UNCHANGED <<writer, tmp_buffers, last>>
  /\ UNCHANGED <<kernel, ptLoaded, failed, calls>>

PtreeStep == FindTask \/ WalkUp \/ Breaks
PtreeNext == PtreeStep \/ ptree_init \/ ptree_exit \/ CopyFails \/ \E pid \in Pids : CopyPid(pid)
-----------------------------------------------------------------------------
(* Between two writes the file shows the branch of the last pid that was   *)
(* found: from init down to it, each a child of the one before when it was *)
(* looked at, and nobody twice.  A bad pid or address leaves it as it is;  *)
(* all that such a write leaves behind is its tmp_buffer.                  *)
BranchIsLineage ==
  writer.at = "user" =>
    /\ tmp_buffers = failed
    /\ ptLoaded =>
         IF last = NULL THEN result = NULL
         ELSE /\ result[1] = INIT /\ result[Len(result)] = last
              /\ \A k \in 1 .. (Len(result) - 1) : <<result[k], result[k + 1]>> \in parents
              /\ \A j, k \in 1 .. Len(result) : j # k => result[j] # result[k]

(* The lines that are left in result suffice to get from curr to init. *)
InitInReach ==
  LET ancestor[n \in 0 .. LINES] ==
        IF n = 0 THEN curr
        ELSE IF ancestor[n - 1] \in Live THEN real_parent[ancestor[n - 1]] ELSE NULL
  IN  writer.at = "walk" /\ \E n \in 0 .. (LINES - 1 - Len(result)) : ancestor[n] = INIT

(* A write does not go on for ever; and once it has found a task below     *)
(* init whose branch fits in result, it returns, though the tree changes   *)
(* above and below it, unless the very task that it has got to ends.       *)
WriteReturns ==
  /\ writer.at # "user" ~> writer.at \in {"user", "broken"}
  /\ InitInReach ~> writer.at = "user" \/ curr \notin Live
=============================================================================
