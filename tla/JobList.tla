------------------------------- MODULE JobList -------------------------------
(***************************************************************************)
(* The job list of shlab/tsh.c: MAXJOBS entries, each with a pid, a jid    *)
(* and a state, and the counter nextjid.  A pointer to an entry is its     *)
(* slot number and NULL is 0; pids are positive numbers.                   *)
(*                                                                         *)
(* Shell uses the operations as parts of its own actions.                  *)
(***************************************************************************)
EXTENDS Integers

CONSTANTS
  MAXJOBS,     \* entries of the list (16)
  Pids         \* pids the system hands out

ASSUME JobListAssumption == MAXJOBS \in Nat \ {0} /\ Pids \subseteq Nat \ {0}

VARIABLES
  jobs,        \* the list
  nextjid      \* next job ID to allocate

jobVars == <<jobs, nextjid>>

NULL      == 0
Slots     == 1 .. MAXJOBS
JobStates == {"UNDEF", "FG", "BG", "ST"}

First(S)  == IF S = {} THEN NULL ELSE CHOOSE i \in S : \A j \in S : i <= j
-----------------------------------------------------------------------------
clearjob == [pid |-> 0, jid |-> 0, state |-> "UNDEF"]

initjobs == [i \in Slots |-> clearjob]

maxjid(js) == CHOOSE m \in {0} \cup {js[i].jid : i \in Slots} :
                \A i \in Slots : js[i].jid <= m

getjobpid(pid) == IF pid < 1 THEN NULL ELSE First({i \in Slots : jobs[i].pid = pid})
getjobjid(jid) == IF jid < 1 THEN NULL ELSE First({i \in Slots : jobs[i].jid = jid})

\* Mutant: any job that runs.
fgpid_Running == LET i == First({j \in Slots : jobs[j].state \in {"FG", "BG"}})
                 IN  IF i = NULL THEN 0 ELSE jobs[i].pid

fgpid == LET i == First({j \in Slots : jobs[j].state = "FG"})
         IN  IF i = NULL THEN 0 ELSE jobs[i].pid

(* The first entry without a pid; a full list is left as it is. *)
addjob(pid, state) ==
  LET i == First({j \in Slots : jobs[j].pid = 0})
  IN  IF i = NULL THEN UNCHANGED jobVars
      ELSE /\ jobs' = [jobs EXCEPT ![i] = [pid |-> pid, jid |-> nextjid, state |-> state]]
           /\ nextjid' = IF nextjid + 1 > MAXJOBS THEN 1 ELSE nextjid + 1

\* Mutant: the next jid is the largest one in use.
deletejob_SameJid(pid) ==
  LET i == getjobpid(pid)
  IN  IF i = NULL THEN UNCHANGED jobVars
      ELSE /\ jobs' = [jobs EXCEPT ![i] = clearjob]
           /\ nextjid' = maxjid(jobs')

deletejob(pid) ==
  LET i == getjobpid(pid)
  IN  IF i = NULL THEN UNCHANGED jobVars
      ELSE /\ jobs' = [jobs EXCEPT ![i] = clearjob]
           /\ nextjid' = maxjid(jobs') + 1

(* jb->state = state *)
setstate(slot, state) ==
  jobs' = [jobs EXCEPT ![slot] = [pid |-> jobs[slot].pid, jid |-> jobs[slot].jid,
                                  state |-> state]]
-----------------------------------------------------------------------------
JobInit == jobs = initjobs /\ nextjid = 1
=============================================================================
