---------------------------- MODULE MCKernelLab ----------------------------
(***************************************************************************)
(* Tasks and packets for model-checking KernelLab: bytes are digits to the *)
(* base 4, and a page has eight.                                           *)
(***************************************************************************)
EXTENDS KernelLab, TLC

(* Task 3 has two pages unless kthreadd forks it, the others have none. *)
SomeTables == [p \in Pids |-> IF p = 3 THEN (0 :> 13 @@ 397 :> 115) ELSE <<>>]

(* An address with all six digits and a paddr to match, and a page that is *)
(* not there.  Task 3 may be missing, too, or be a kernel thread.          *)
SomePackets == {[pid |-> 3, vaddr |-> 8 * 397 + 7, paddr |-> 3],
                [pid |-> 3, vaddr |-> 16, paddr |-> 0]}
=============================================================================
