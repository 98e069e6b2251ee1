------------------------------ MODULE MCTrans ------------------------------
(***************************************************************************)
(* Caches and jobs for model-checking Csim and Trans.  In fresh memory the *)
(* valid field is 0, as on a page the kernel hands out; the age and the    *)
(* tag are those of a line that would hit and would be the oldest if it    *)
(* were looked at.                                                         *)
(***************************************************************************)
EXTENDS Trans

StaleLines == {[valid |-> FALSE, lru_counter |-> 7, tag |-> 1]}

(* Two sets of three lines, one set, and lines that are sets. *)
SomeOptions == {[s |-> 1, E |-> 3, b |-> 1], [s |-> 0, E |-> 2, b |-> 2], [s |-> 2, E |-> 1, b |-> 0]}

(* The sizes of the assignment, and one that transpose_submit ignores. *)
SomeJobs == {[M |-> 32, N |-> 32, F |-> 0], [M |-> 64, N |-> 64, F |-> 0], [M |-> 61, N |-> 67, F |-> 0],
             [M |-> 9, N |-> 5, F |-> 0], [M |-> 9, N |-> 5, F |-> 1]}
=============================================================================
