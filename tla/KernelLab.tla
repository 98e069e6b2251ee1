----------------------------- MODULE KernelLab -----------------------------
(***************************************************************************)
(* The two modules of kernellab in one kernel, whose tasks come and go     *)
(* between any two steps of their handlers.                                *)
(***************************************************************************)
EXTENDS Ptree, Paddr

vars == <<kernel, calls, ptree, paddr>>

Init == TasksInit /\ PtreeInit /\ PaddrInit

(* Nothing keeps the task that curr points to. *)
Exits == \E p \in Pids : Exit(p) /\ UNCHANGED <<ptree, paddr>>

Forks == \E p \in Pids : Fork(p) /\ UNCHANGED <<ptree, paddr>>

(* Nothing is said of a kernel whose memory has been overrun. *)
Next ==
  /\ writer.at # "broken"
  /\ \/ PtreeNext /\ UNCHANGED paddr
     \/ PaddrNext /\ UNCHANGED ptree
     \/ Exits \/ Forks

Spec == Init /\ [][Next]_vars

(* A handler runs on once it has been entered. *)
FairSpec == Spec /\ WF_vars(PtreeStep /\ UNCHANGED paddr)
=============================================================================
