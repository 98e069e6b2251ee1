------------------------------- MODULE Tasks -------------------------------
(***************************************************************************)
(* The kernel as the modules of kernellab use it: tasks with a parent and  *)
(* an address space, which come and go, and debugfs directories.           *)
(***************************************************************************)
EXTENDS Integers, FiniteSets

CONSTANTS
  MAXPID,      \* process ids are given out in order
  mm,          \* the page table that each task has unless it is a kernel
               \* thread, a function from pages to frames
  MAXCALLS,    \* bound on the calls of the two modules' handlers
  NULL

\* 0 is the idle task, the parent of itself, of init and of kthreadd.
INIT     == 1
KTHREADD == 2
Pids     == 0 .. MAXPID

ASSUME TasksAssumption ==
  MAXPID \in Nat \ {0, 1} /\ MAXCALLS \in Nat \ {0} /\ DOMAIN mm = Pids /\ NULL \notin Int

VARIABLES
  real_parent, \* of each task; NULL if there is none
  parents,     \* who has ever been the real_parent of whom, as pairs
  dirs,        \* the directories of debugfs
  calls        \* calls of handlers so far

EFAULT == 14
EINVAL == 22

kernel == <<real_parent, parents, dirs>>

Live == {p \in Pids : real_parent[p] # NULL}

(* find_vpid: the idle task has no number that anyone could look up. *)
Found(pid) == pid \in Live \ {0}

KernelThread(p) == p # INIT /\ real_parent[p] \in {0, KTHREADD}

PageTable(p) == IF KernelThread(p) THEN NULL ELSE mm[p]

TasksInit ==
  /\ real_parent = [p \in Pids |-> IF p \in {0, INIT, KTHREADD} THEN 0 ELSE NULL]
  /\ parents = {<<0, INIT>>, <<0, KTHREADD>>} /\ dirs = {} /\ calls = 0

(* A handler is called. *)
Enter == calls < MAXCALLS /\ calls' = calls + 1

Fork(p) ==
  LET q == Cardinality({pair[2] : pair \in parents}) + 1
  IN  /\ p \in Live \ {0} /\ q \in Pids
      /\ real_parent' = [real_parent EXCEPT ![q] = p]
      /\ parents' = parents \cup {<<p, q>>}
      /\ UNCHANGED <<dirs, calls>>

(* The children of a task that ends become those of init. *)
Exit(p) ==
  LET children == {q \in Live : real_parent[q] = p}
  IN  /\ p \in Live \ {0, INIT, KTHREADD}
      /\ real_parent' = [q \in Pids |-> IF q = p THEN NULL ELSE IF q \in children THEN INIT ELSE real_parent[q]]
      /\ parents' = parents \cup {<<INIT, q>> : q \in children}
      /\ UNCHANGED <<dirs, calls>>
=============================================================================
