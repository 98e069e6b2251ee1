----------------------------- MODULE ShellProofs -----------------------------
(***************************************************************************)
(* Proofs about Shell: whatever the size of the job list, the signals that *)
(* eval happens to block and the order in which children and signals act,  *)
(* a job in the FG state is the one main waits for, and ctrl-c and ctrl-z  *)
(* spare the jobs in the background.  If eval blocks SIGCHLD, the list     *)
(* names no process that has been reaped.                                  *)
(***************************************************************************)
EXTENDS Shell, WellFoundedInduction, TLAPS

(* The scans of the job list stop at the first entry that they look for. *)
LEMMA FirstIsLeast ==
  ASSUME NEW S, S \subseteq Nat, S # {}
  PROVE  First(S) \in S /\ \A j \in S : First(S) <= j
<1> DEFINE R == OpToRel(<, Nat)
<1>1. \E x \in S : \A y \in S : ~(<<y, x>> \in R)
  BY NatLessThanWellFounded, WFMin
<1>2. PICK x \in S : \A y \in S : ~(<<y, x>> \in R)
  BY <1>1
<1>a. R = {ss \in Nat \X Nat : ss[1] < ss[2]}
  BY Zenon DEF OpToRel
<1> HIDE DEF R
<1>3. \A y \in S : x <= y
  <2> SUFFICES ASSUME NEW y \in S, y < x PROVE FALSE
    OBVIOUS
  <2>1. <<y, x>> \in R
    BY <1>a
  <2> QED BY <1>2, <2>1
<1> QED BY <1>3 DEF First

LEMMA FirstInSet ==
  ASSUME NEW S, S \subseteq Nat, S # {}
  PROVE  First(S) \in S
BY FirstIsLeast
-----------------------------------------------------------------------------
(* The inductive invariant.  That the job main waits for is found at one   *)
(* entry only needs the listed pids to be distinct, and that in turn needs *)
(* a forked child to be unlisted until addjob.                             *)
Shapes ==
  /\ jobs = [i \in Slots |-> jobs[i]]
  /\ proc = [p \in Pids |-> proc[p]]
  /\ local = [pid |-> local.pid, slot |-> local.slot, bg |-> local.bg, named |-> local.named]

Forked ==
  /\ \A i \in Slots : jobs[i].pid # 0 =>
       jobs[i].pid \in Pids /\ proc[jobs[i].pid] # "unused"
  /\ pc = "forked" => /\ local.pid \in Pids /\ proc[local.pid] # "unused"
                      /\ \A i \in Slots : jobs[i].pid # local.pid

DistinctPids ==
  \A i, j \in Slots : jobs[i].pid # 0 /\ jobs[i].pid = jobs[j].pid => i = j

WaitsAtEntry ==
  \A i \in Slots : jobs[i].pid # 0 /\ jobs[i].state = "FG" =>
    /\ pc = "waiting" => i = local.slot
    /\ pc = "added" => ~local.bg

IInv == Shapes /\ Forked /\ DistinctPids /\ WaitsAtEntry /\ ForegroundIsWaitedFor

(* The fields of an entry after an assignment to one slot. *)
LEMMA SlotUpdate ==
  ASSUME NEW f, f = [i \in Slots |-> f[i]], NEW s, NEW v
  PROVE  LET g == [f EXCEPT ![s] = v] IN
         /\ g = [i \in Slots |-> g[i]]
         /\ \A i \in Slots : g[i] = IF i = s THEN v ELSE f[i]
OBVIOUS

(* Slots and pids are positive, and NULL is not a slot. *)
LEMMA SlotFacts == Slots \subseteq Nat \ {0} /\ Pids \subseteq Nat \ {0} /\ NULL \notin Slots
BY JobListAssumption DEF Slots, NULL

(* getjobpid finds the only entry of a listed pid. *)
LEMMA GetJobPid ==
  ASSUME IInv, NEW i \in Slots, jobs[i].pid # 0
  PROVE  getjobpid(jobs[i].pid) = i
<1> DEFINE S == {j \in Slots : jobs[j].pid = jobs[i].pid}
<1>1. jobs[i].pid \in Nat \ {0}
  BY SlotFacts DEF IInv, Forked
<1>2. First(S) \in S
  BY FirstInSet, SlotFacts
<1>3. First(S) = i
  BY <1>2 DEF IInv, DistinctPids
<1> QED BY <1>1, <1>3 DEF getjobpid

(* The invariant holds when main has initialised the job list. *)
LEMMA InitOK == Init => IInv
BY SlotFacts DEF Init, JobInit, initjobs, clearjob, NoLocals, IInv, Shapes, Forked,
   DistinctPids, WaitsAtEntry, ForegroundIsWaitedFor

(* Steps that leave the list and main alone, and never undo a fork. *)
LEMMA OthersOK ==
  ASSUME IInv, UNCHANGED <<jobs, pc, local>>, proc' = [p \in Pids |-> proc'[p]],
         \A p \in Pids : proc[p] # "unused" => proc'[p] # "unused"
  PROVE  IInv'
<1>1. Shapes'
  BY DEF IInv, Shapes
<1>2. Forked'
  BY DEF IInv, Forked
<1>3. DistinctPids' /\ WaitsAtEntry' /\ ForegroundIsWaitedFor'
  BY DEF IInv, DistinctPids, WaitsAtEntry, ForegroundIsWaitedFor
<1> QED BY <1>1, <1>2, <1>3 DEF IInv

(* The end of the shell changes no table. *)
LEMMA EndOK == ASSUME IInv, NEW how, End(how) PROVE IInv'
BY OthersOK DEF End, mainVars, procVars, IInv, Shapes

(* A change of one child that does not make it unused again. *)
LEMMA ProcUpdate ==
  ASSUME IInv, UNCHANGED <<jobs, pc, local>>, NEW p \in Pids, NEW v, v # "unused",
         proc' = [proc EXCEPT ![p] = v]
  PROVE  IInv'
<1>1. proc = [q \in Pids |-> proc[q]]
  BY DEF IInv, Shapes
<1>2. /\ proc' = [q \in Pids |-> proc'[q]]
      /\ \A q \in Pids : proc'[q] = IF q = p THEN v ELSE proc[q]
  BY <1>1
<1> QED BY <1>2, OthersOK

(* A step that leaves the list, main and the children alone. *)
LEMMA ProcSame ==
  ASSUME IInv, UNCHANGED <<jobs, pc, local, proc>>
  PROVE  IInv'
BY OthersOK DEF IInv, Shapes

(* SIGCONT wakes children and touches no entry. *)
LEMMA ContinueOK ==
  ASSUME IInv, UNCHANGED <<jobs, pc, local>>, NEW S, Continue(S)
  PROVE  IInv'
<1> DEFINE T == {p \in S : proc[p] = "stopped"}
<1>1. proc' = [p \in Pids |-> IF p \in T THEN "running" ELSE proc[p]]
  BY DEF Continue
<1>2. /\ proc' = [p \in Pids |-> proc'[p]]
      /\ \A p \in Pids : proc[p] # "unused" => proc'[p] # "unused"
  BY <1>1
<1> QED BY <1>2, OthersOK

(* What a child does on its own touches no entry. *)
LEMMA ChildOK == ASSUME IInv, NEW p \in Pids, Child(p) PROVE IInv'
<1>1. UNCHANGED <<jobs, pc, local>>
  BY DEF Child, mainVars
<1>2. CASE SetPgid(p)
  BY <1>1, <1>2, ProcSame DEF SetPgid
<1>3. CASE Die(p)
  BY <1>1, <1>3, ProcUpdate DEF Die, KillChild
<1>4. CASE StopChild(p)
  BY <1>1, <1>4, ProcUpdate DEF StopChild
<1>5. CASE Continue({p})
  BY <1>1, <1>5, ContinueOK
<1> QED BY <1>2, <1>3, <1>4, <1>5 DEF Child

(* The handlers. *)
LEMMA ForwardOK == ASSUME IInv, ForwardSignal PROVE IInv'
<1>1. CASE End("kill error in handler")
  BY <1>1, EndOK
<1>2. CASE /\ Forward(Head(stack).sig, Head(stack).pid)
           /\ UNCHANGED <<jobs, nextjid, mainVars, ended>>
  <2>1. UNCHANGED <<jobs, pc, local>>
    BY <1>2 DEF mainVars
  <2>2. CASE UNCHANGED <<procVars, pending>>
    BY <2>1, <2>2, ProcSame DEF procVars
  <2>3. CASE \E p \in Pids : StopChild(p) \/ KillChild(p)
    BY <2>1, <2>3, ProcUpdate DEF StopChild, KillChild
  <2>4. \A g : InGroup(g) \subseteq Pids
    BY DEF InGroup, Children
  <2> QED BY <1>2, <2>2, <2>3, <2>4 DEF Forward
<1> QED BY <1>1, <1>2 DEF ForwardSignal

(* waitpid reaps a child; the entry is deleted by a later step. *)
LEMMA WaitPidOK == ASSUME IInv, WaitPid PROVE IInv'
<1>1. UNCHANGED <<jobs, pc, local>>
  BY DEF WaitPid, mainVars
<1>2. CASE UNCHANGED procVars
  BY <1>1, <1>2, ProcSame DEF procVars
<1>3. CASE \E p \in Reportable :
             proc' = IF proc[p] = "zombie" THEN [proc EXCEPT ![p] = "reaped"] ELSE proc
  <2>1. PICK p \in Reportable :
             proc' = IF proc[p] = "zombie" THEN [proc EXCEPT ![p] = "reaped"] ELSE proc
    BY <1>3
  <2>2. p \in Pids
    BY DEF Reportable, Children
  <2>3. CASE proc[p] = "zombie"
    BY <1>1, <2>1, <2>2, <2>3, ProcUpdate
  <2>4. CASE proc[p] # "zombie"
    BY <1>1, <2>1, <2>4, ProcSame
  <2> QED BY <2>3, <2>4
<1> QED BY <1>2, <1>3 DEF WaitPid

(* Clearing an entry, or marking it stopped, never makes a job FG. *)
LEMMA DeleteJobOK == ASSUME IInv, DeleteJob PROVE IInv'
<1>1. UNCHANGED <<pc, local, proc>>
  BY DEF DeleteJob, mainVars, procVars
<1>2. CASE jobs' = jobs
  BY <1>1, <1>2, ProcSame
<1>3. CASE \E s : jobs' = [jobs EXCEPT ![s] = clearjob]
  <2>1. PICK s : jobs' = [jobs EXCEPT ![s] = clearjob]
    BY <1>3
  <2>2. jobs = [i \in Slots |-> jobs[i]]
    BY DEF IInv, Shapes
  <2>3. /\ jobs' = [i \in Slots |-> jobs'[i]]
        /\ \A i \in Slots : jobs'[i] = IF i = s THEN clearjob ELSE jobs[i]
    BY <2>1, <2>2, SlotUpdate
  <2>4. \A i \in Slots : jobs'[i].pid # 0 => jobs'[i] = jobs[i]
    BY <2>3 DEF clearjob
  <2>5. Shapes'
    BY <1>1, <2>3 DEF IInv, Shapes
  <2>6. Forked'
    <3>1. pc = "forked" => \A i \in Slots : jobs'[i].pid # local.pid
      BY <2>3, SlotFacts DEF IInv, Forked, clearjob
    <3> QED BY <1>1, <2>4, <3>1 DEF IInv, Forked
  <2>7. DistinctPids' /\ WaitsAtEntry' /\ ForegroundIsWaitedFor'
    BY <1>1, <2>4 DEF IInv, DistinctPids, WaitsAtEntry, ForegroundIsWaitedFor
  <2> QED BY <2>5, <2>6, <2>7 DEF IInv
<1> QED BY <1>2, <1>3 DEF DeleteJob, deletejob, jobVars

(* Marking an entry stopped takes a job out of the foreground. *)
LEMMA MarkStoppedOK == ASSUME IInv, MarkStopped PROVE IInv'
<1> DEFINE s == getjobpid(Head(stack).pid)
           e == [pid |-> jobs[s].pid, jid |-> jobs[s].jid, state |-> "ST"]
<1>1. CASE End("segfault")
  BY <1>1, EndOK
<1>2. CASE setstate(s, "ST") /\ UNCHANGED <<nextjid, mainVars, pending, procVars, ended>>
  <2>1. UNCHANGED <<pc, local, proc>> /\ jobs' = [jobs EXCEPT ![s] = e]
    BY <1>2 DEF mainVars, procVars, setstate
  <2>2. jobs = [i \in Slots |-> jobs[i]]
    BY DEF IInv, Shapes
  <2> HIDE DEF s
  <2>3. /\ jobs' = [i \in Slots |-> jobs'[i]]
        /\ \A i \in Slots : jobs'[i] = IF i = s THEN e ELSE jobs[i]
    BY <2>1, <2>2, SlotUpdate
  <2>4. \A i \in Slots : /\ jobs'[i].pid = jobs[i].pid
                         /\ jobs'[i].state = "FG" => jobs[i].state = "FG"
    BY <2>3
  <2>5. Shapes'
    BY <2>1, <2>3 DEF IInv, Shapes
  <2>6. Forked' /\ DistinctPids'
    BY <2>1, <2>4 DEF IInv, Forked, DistinctPids
  <2>7. WaitsAtEntry' /\ ForegroundIsWaitedFor'
    BY <2>1, <2>4 DEF IInv, WaitsAtEntry, ForegroundIsWaitedFor
  <2> QED BY <2>5, <2>6, <2>7 DEF IInv
<1> QED BY <1>1, <1>2 DEF MarkStopped
-----------------------------------------------------------------------------
(* main: while it starts a command or looks one up, no job is FG. *)
LEMMA NoForeground ==
  ASSUME IInv, pc \in {"read", "forked", "found", "continued"}
  PROVE  \A i \in Slots : jobs[i].pid # 0 => jobs[i].state # "FG"
BY DEF IInv, ForegroundIsWaitedFor

(* fork: the new child is on no entry yet. *)
LEMMA ForkOK == ASSUME IInv, NEW p \in Pids, Fork(p) PROVE IInv'
<1> DEFINE U == {q \in Pids : proc[q] = "unused"}
<1>1. p \in U
  <2>1. p = First(U)
    BY DEF Fork
  <2>2. U # {}
    BY <2>1, SlotFacts DEF First, NULL
  <2> QED BY <2>1, <2>2, FirstInSet, SlotFacts
<1>2. /\ pc = "read" /\ pc' = "forked" /\ jobs' = jobs
      /\ proc' = [proc EXCEPT ![p] = "running"] /\ local' = [local EXCEPT !.pid = p]
  BY DEF Fork
<1>3. /\ proc = [q \in Pids |-> proc[q]] /\ jobs = [i \in Slots |-> jobs[i]]
      /\ local = [pid |-> local.pid, slot |-> local.slot, bg |-> local.bg, named |-> local.named]
  BY DEF IInv, Shapes
<1>4. /\ proc' = [q \in Pids |-> proc'[q]]
      /\ \A q \in Pids : proc'[q] = IF q = p THEN "running" ELSE proc[q]
  BY <1>2, <1>3
<1>5. local' = [pid |-> p, slot |-> local.slot, bg |-> local.bg, named |-> local.named]
  BY <1>2, <1>3
<1>6. Shapes'
  BY <1>2, <1>3, <1>4, <1>5 DEF Shapes
<1>7. Forked'
  <2>1. \A i \in Slots : jobs[i].pid # p
    BY <1>1, SlotFacts DEF IInv, Forked
  <2>2. local'.pid = p
    BY <1>5
  <2> QED BY <1>2, <1>4, <2>1, <2>2 DEF IInv, Forked
<1>8. DistinctPids' /\ WaitsAtEntry' /\ ForegroundIsWaitedFor'
  BY <1>2, NoForeground DEF IInv, DistinctPids, WaitsAtEntry, ForegroundIsWaitedFor
<1> QED BY <1>6, <1>7, <1>8 DEF IInv

(* addjob: the entry for the new child is the only one with its pid. *)
LEMMA AddJobOK == ASSUME IInv, NEW bg, AddJob(bg) PROVE IInv'
<1> DEFINE st == IF bg THEN "BG" ELSE "FG"
<1>1. /\ pc = "forked" /\ pc' = "added" /\ proc' = proc /\ local' = [local EXCEPT !.bg = bg]
  BY DEF AddJob, procVars
<1>2. /\ jobs = [i \in Slots |-> jobs[i]] /\ proc = [q \in Pids |-> proc[q]]
      /\ local = [pid |-> local.pid, slot |-> local.slot, bg |-> local.bg, named |-> local.named]
  BY DEF IInv, Shapes
<1>3. local' = [pid |-> local.pid, slot |-> local.slot, bg |-> bg, named |-> local.named]
  BY <1>1, <1>2
<1>4. local'.pid = local.pid /\ local'.bg = bg
  BY <1>3
<1>5. CASE jobs' = jobs
  <2>1. Shapes'
    BY <1>1, <1>2, <1>3, <1>5 DEF Shapes
  <2>2. Forked' /\ DistinctPids' /\ WaitsAtEntry' /\ ForegroundIsWaitedFor'
    BY <1>1, <1>5, NoForeground DEF IInv, Forked, DistinctPids, WaitsAtEntry,
                                    ForegroundIsWaitedFor
  <2> QED BY <2>1, <2>2 DEF IInv
<1>6. CASE \E s : jobs' = [jobs EXCEPT ![s] = [pid |-> local.pid, jid |-> nextjid, state |-> st]]
  <2>1. PICK s : jobs' = [jobs EXCEPT ![s] = [pid |-> local.pid, jid |-> nextjid, state |-> st]]
    BY <1>6
  <2>2. /\ jobs' = [i \in Slots |-> jobs'[i]]
        /\ \A i \in Slots : jobs'[i] = IF i = s
             THEN [pid |-> local.pid, jid |-> nextjid, state |-> st] ELSE jobs[i]
    BY <1>2, <2>1, SlotUpdate
  <2>3. \A i \in Slots : IF i = s THEN jobs'[i].pid = local.pid /\ jobs'[i].state = st
                                   ELSE jobs'[i] = jobs[i]
    BY <2>2
  <2>4. Shapes'
    BY <1>1, <1>2, <1>3, <2>2 DEF Shapes
  <2>5. Forked'
    BY <1>1, <2>3 DEF IInv, Forked
  <2>6. DistinctPids'
    BY <1>1, <2>3 DEF IInv, Forked, DistinctPids
  <2>7. WaitsAtEntry' /\ ForegroundIsWaitedFor'
    BY <1>1, <1>4, <2>3, NoForeground DEF WaitsAtEntry, ForegroundIsWaitedFor
  <2> QED BY <2>4, <2>5, <2>6, <2>7 DEF IInv
<1> QED BY <1>5, <1>6 DEF AddJob, addjob, jobVars

(* A return to the prompt is sound when no job is FG. *)
LEMMA PromptOK ==
  ASSUME IInv, Prompt, proc' = proc, jobs' = [i \in Slots |-> jobs'[i]],
         \A i \in Slots : jobs'[i].pid = jobs[i].pid,
         \A i \in Slots : jobs'[i].pid # 0 => jobs'[i].state # "FG"
  PROVE  IInv'
<1>1. Shapes'
  BY DEF IInv, Shapes, Prompt, NoLocals
<1>2. Forked' /\ DistinctPids' /\ WaitsAtEntry' /\ ForegroundIsWaitedFor'
  BY DEF IInv, Forked, DistinctPids, WaitsAtEntry, ForegroundIsWaitedFor, Prompt
<1> QED BY <1>1, <1>2 DEF IInv

(* A step of main that leaves the list alone. *)
LEMMA MainMoves ==
  ASSUME IInv, UNCHANGED <<jobs, proc>>, pc' \notin {"forked", "added", "waiting"},
         local' = [pid |-> local'.pid, slot |-> local'.slot, bg |-> local'.bg, named |-> local'.named],
         \A i \in Slots : jobs[i].pid # 0 /\ jobs[i].state = "FG" =>
           pc' \in {"added", "waitfg", "waiting", "spinning"} /\ jobs[i].pid = local'.pid
  PROVE  IInv'
<1>1. Shapes'
  BY DEF IInv, Shapes
<1>2. Forked' /\ DistinctPids' /\ WaitsAtEntry' /\ ForegroundIsWaitedFor'
  BY DEF IInv, Forked, DistinctPids, WaitsAtEntry, ForegroundIsWaitedFor
<1> QED BY <1>1, <1>2 DEF IInv

(* eval prompts at once for a background job only. *)
LEMMA UnblockOK == ASSUME IInv, Unblock PROVE IInv'
<1>1. pc = "added" /\ jobs' = jobs /\ proc' = proc
  BY DEF Unblock, procVars
<1>2. CASE ~local.bg /\ pc' = "waitfg" /\ local' = local
  BY <1>1, <1>2, MainMoves DEF IInv, Shapes, ForegroundIsWaitedFor
<1>3. CASE local.bg /\ Prompt
  BY <1>1, <1>3, PromptOK DEF IInv, Shapes, WaitsAtEntry
<1> QED BY <1>2, <1>3 DEF Unblock

(* do_bgfg looks a job up while none is FG. *)
LEMMA FindJobOK == ASSUME IInv, NEW named, NEW bg, FindJob(named, bg) PROVE IInv'
<1>1. /\ pc = "read" /\ pc' = "found" /\ jobs' = jobs /\ proc' = proc
      /\ \E a, s : local' = [pid |-> a, slot |-> s, bg |-> bg, named |-> named]
  BY DEF FindJob, procVars
<1>2. local' = [pid |-> local'.pid, slot |-> local'.slot, bg |-> local'.bg, named |-> local'.named]
  BY <1>1
<1> QED BY <1>1, <1>2, NoForeground, MainMoves

(* kill(-pid, SIGCONT) in do_bgfg, or its failure. *)
LEMMA SendContOK == ASSUME IInv, SendCont PROVE IInv'
<1>1. CASE End("kill error")
  BY <1>1, EndOK
<1>2. CASE /\ pc = "found" /\ \E S : Continue(S)
           /\ pc' = "continued" /\ UNCHANGED <<jobs, nextjid, local, blocked, stack, ended>>
  <2>1. PICK S : Continue(S)
    BY <1>2
  <2>2. /\ proc' = [q \in Pids |-> proc'[q]]
        /\ \A q \in Pids : proc[q] # "unused" => proc'[q] # "unused"
    <3> DEFINE T == {q \in S : proc[q] = "stopped"}
    <3>1. proc' = [q \in Pids |-> IF q \in T THEN "running" ELSE proc[q]]
      BY <2>1 DEF Continue
    <3> QED BY <3>1
  <2>3. Shapes'
    BY <1>2, <2>2 DEF IInv, Shapes
  <2>4. Forked' /\ DistinctPids' /\ WaitsAtEntry' /\ ForegroundIsWaitedFor'
    BY <1>2, <2>2, NoForeground DEF IInv, Forked, DistinctPids, WaitsAtEntry,
                                    ForegroundIsWaitedFor
  <2> QED BY <2>3, <2>4 DEF IInv
<1> QED BY <1>1, <1>2 DEF SendCont

(* fg makes one job FG and waits for that one. *)
LEMMA SetStateOK == ASSUME IInv, SetState PROVE IInv'
<1> DEFINE st == IF local.bg THEN "BG" ELSE "FG"
           s == local.slot
           e == [pid |-> jobs[s].pid, jid |-> jobs[s].jid, state |-> st]
<1>1. pc = "continued" /\ proc' = proc /\ jobs' = [jobs EXCEPT ![s] = e]
  BY DEF SetState, setstate, procVars
<1>2. /\ jobs = [i \in Slots |-> jobs[i]] /\ proc = [q \in Pids |-> proc[q]]
      /\ local = [pid |-> local.pid, slot |-> local.slot, bg |-> local.bg, named |-> local.named]
  BY DEF IInv, Shapes
<1>3. /\ jobs' = [i \in Slots |-> jobs'[i]]
      /\ \A i \in Slots : jobs'[i] = IF i = s THEN e ELSE jobs[i]
  BY <1>1, <1>2, SlotUpdate
<1>4. \A i \in Slots : /\ jobs'[i].pid = jobs[i].pid
                       /\ jobs'[i].state = IF i = s THEN st ELSE jobs[i].state
  BY <1>3
<1>5. CASE local.bg /\ Prompt
  <2>1. \A i \in Slots : jobs'[i].pid # 0 => jobs'[i].state # "FG"
    BY <1>1, <1>4, <1>5, NoForeground
  <2> QED BY <1>1, <1>3, <1>4, <1>5, <2>1, PromptOK
<1>6. CASE pc' = "waitfg" /\ local' = [local EXCEPT !.pid = jobs[local.slot].pid]
  <2>1. local' = [pid |-> jobs[s].pid, slot |-> local.slot, bg |-> local.bg, named |-> local.named]
    BY <1>2, <1>6
  <2>2. local'.pid = jobs[s].pid
    BY <2>1
  <2>3. Shapes'
    BY <1>1, <1>2, <1>3, <2>1 DEF Shapes
  <2>4. Forked' /\ DistinctPids' /\ WaitsAtEntry'
    BY <1>1, <1>4, <1>6 DEF IInv, Forked, DistinctPids, WaitsAtEntry
  <2>5. ForegroundIsWaitedFor'
    BY <1>1, <1>4, <1>6, <2>2, NoForeground DEF ForegroundIsWaitedFor
  <2> QED BY <2>3, <2>4, <2>5 DEF IInv
<1> QED BY <1>5, <1>6 DEF SetState

(* waitfg starts to wait at the entry of its job, or returns. *)
LEMMA WaitFgOK == ASSUME IInv, WaitFg PROVE IInv'
<1> DEFINE slot == getjobpid(local.pid)
<1>1. pc = "waitfg" /\ jobs' = jobs /\ proc' = proc
  BY DEF WaitFg, procVars
<1>2. \A i \in Slots : jobs[i].pid # 0 /\ jobs[i].state = "FG" =>
        slot = i /\ slot # NULL /\ jobs[slot].state = "FG" /\ jobs[i].pid = local.pid
  BY GetJobPid, SlotFacts DEF IInv, ForegroundIsWaitedFor
<1> HIDE DEF slot
<1>3. CASE (slot # NULL => jobs[slot].state # "FG") /\ Prompt
  BY <1>1, <1>2, <1>3, PromptOK DEF IInv, Shapes
<1>4. CASE pc' \in {"spinning", "waiting"} /\ local' = [local EXCEPT !.slot = slot]
  <2>1. local' = [pid |-> local.pid, slot |-> slot, bg |-> local.bg, named |-> local.named]
    BY <1>4 DEF IInv, Shapes
  <2>2. local'.pid = local.pid /\ local'.slot = slot
    BY <2>1
  <2>3. Shapes'
    BY <1>1, <2>1 DEF IInv, Shapes
  <2>4. Forked' /\ DistinctPids' /\ WaitsAtEntry' /\ ForegroundIsWaitedFor'
    BY <1>1, <1>2, <1>4, <2>2 DEF IInv, Forked, DistinctPids, WaitsAtEntry,
                                  ForegroundIsWaitedFor
  <2> QED BY <2>3, <2>4 DEF IInv
<1> QED BY <1>3, <1>4 DEF WaitFg, slot

(* waitfg returns when the entry is no longer FG. *)
LEMMA WaitOverOK == ASSUME IInv, WaitOver PROVE IInv'
BY PromptOK DEF WaitOver, procVars, IInv, Shapes, WaitsAtEntry

(* Every step of main. *)
LEMMA MainOK == ASSUME IInv, MainStep PROVE IInv'
<1>1. CASE Leave
  BY <1>1, EndOK DEF Leave
<1>2. CASE \E p \in Pids : Fork(p)
  BY <1>2, ForkOK
<1>3. CASE \E bg \in BOOLEAN : AddJob(bg)
  BY <1>3, AddJobOK
<1>4. CASE Unblock
  BY <1>4, UnblockOK
<1>5. CASE \E named \in {"jid", "pid"}, bg \in BOOLEAN : FindJob(named, bg)
  BY <1>5, FindJobOK
<1>6. CASE SendCont \/ SetState \/ WaitFg \/ WaitOver
  BY <1>6, SendContOK, SetStateOK, WaitFgOK, WaitOverOK
<1> QED BY <1>1, <1>2, <1>3, <1>4, <1>5, <1>6 DEF MainStep

(* Every step of main, of a handler or of a child keeps the invariant. *)
LEMMA Induction == IInv /\ [Next]_vars => IInv'
<1> SUFFICES ASSUME IInv, [Next]_vars PROVE IInv'
  OBVIOUS
<1>1. CASE MainStep
  BY <1>1, MainOK
<1>2. CASE \E sig \in Signals : Deliver(sig)
  BY <1>2, ProcSame DEF Deliver, mainVars, procVars
<1>3. CASE ReadFgpid
  BY <1>3, ProcSame DEF ReadFgpid, mainVars, procVars
<1>4. CASE ForwardSignal \/ WaitPid \/ DeleteJob \/ MarkStopped
  BY <1>4, ForwardOK, WaitPidOK, DeleteJobOK, MarkStoppedOK
<1>5. CASE \E p \in Pids : Child(p)
  BY <1>5, ChildOK
<1>6. CASE \E sig \in Keys \ {"QUIT"} : Key(sig)
  BY <1>6, ProcSame DEF Key, mainVars, procVars
<1>7. CASE Quit
  BY <1>7, EndOK DEF Quit
<1>8. CASE UNCHANGED vars
  BY <1>8, ProcSame DEF vars
<1> QED BY <1>1, <1>2, <1>3, <1>4, <1>5, <1>6, <1>7, <1>8 DEF Next, HandlerStep

(* "At most 1 job can be in the FG state", and the shell never prompts     *)
(* while one is: for any job list, any mask, and every interleaving of     *)
(* main with its handlers and children.                                    *)
THEOREM OneForeground == Spec => []ForegroundIsWaitedFor
<1>1. IInv => ForegroundIsWaitedFor
  BY DEF IInv
<1> QED BY <1>1, InitOK, Induction, PTL DEF Spec
-----------------------------------------------------------------------------
(* The jids of a list have a bound: by induction on the number of entries, *)
(* as the least counterexample.                                            *)
LEMMA Bounded ==
  ASSUME NEW f \in [Slots -> Nat]
  PROVE  \E m \in Nat : \A i \in Slots : f[i] <= m
<1> DEFINE B(n) == \E m \in Nat : \A i \in 1 .. n : f[i] <= m
           Bad == {n \in 0 .. MAXJOBS : ~B(n)}
<1>1. MAXJOBS \in Nat
  BY JobListAssumption
<1>2. SUFFICES ASSUME Bad # {} PROVE FALSE
  <2>1. ASSUME Bad = {} PROVE B(MAXJOBS)
    BY <1>1, <2>1
  <2>2. ASSUME B(MAXJOBS) PROVE \E m \in Nat : \A i \in Slots : f[i] <= m
    BY <2>2 DEF Slots
  <2> HIDE DEF B
  <2> QED BY <2>1, <2>2
<1>3. Bad \subseteq Nat
  BY <1>1
<1>4. PICK n \in Bad : \A k \in Bad : n <= k
  <2> HIDE DEF Bad
  <2> QED BY <1>2, <1>3, FirstIsLeast
<1>5. n # 0
  <2>1. \A i \in 1 .. 0 : f[i] <= 0
    OBVIOUS
  <2>2. B(0)
    BY <2>1
  <2> QED BY <2>2
<1>6. B(n - 1)
  <2>1. n - 1 \in 0 .. MAXJOBS /\ ~(n <= n - 1)
    BY <1>1, <1>5
  <2>2. n - 1 \notin Bad
    BY <1>4, <2>1
  <2> HIDE DEF B
  <2> QED BY <2>1, <2>2
<1>7. PICK m \in Nat : \A i \in 1 .. (n - 1) : f[i] <= m
  BY <1>6
<1>8. n \in Slots
  BY <1>1, <1>5 DEF Slots
<1>9. \A i \in 1 .. n : f[i] <= m + f[n]
  BY <1>1, <1>7, <1>8 DEF Slots
<1>10. m + f[n] \in Nat
  BY <1>8
<1> QED BY <1>9, <1>10

(* maxjid is therefore a number. *)
LEMMA MaxJid ==
  ASSUME NEW js, \A i \in Slots : js[i].jid \in Nat
  PROVE  maxjid(js) \in Nat
<1> DEFINE f == [i \in Slots |-> js[i].jid]
           U == {m \in Nat : \A i \in Slots : f[i] <= m}
           J == {0} \cup {js[i].jid : i \in Slots}
<1>1. f \in [Slots -> Nat]
  OBVIOUS
<1>2. U # {}
  BY <1>1, Bounded
<1>3. PICK m \in U : \A k \in U : m <= k
  BY <1>2, FirstIsLeast
<1>4. m \in J
  <2> SUFFICES ASSUME m # 0, \A i \in Slots : f[i] # m PROVE FALSE
    OBVIOUS
  <2>1. m - 1 \in U
    BY <1>1
  <2> QED BY <1>3, <2>1
<1>5. \A i \in Slots : js[i].jid <= m
  OBVIOUS
<1>6. J \subseteq Nat
  OBVIOUS
<1>7. \E x \in J : \A i \in Slots : js[i].jid <= x
  BY <1>4, <1>5
<1> QED BY <1>6, <1>7 DEF maxjid
-----------------------------------------------------------------------------
Frames == [sig : Signals, at : {"start", "kill", "delete", "stop"}, pid : Pids \cup {0}]

(* What a push, a pop or a new head of the stack of handlers leaves. *)
FramesFrom(f) ==
  /\ stack' \in Seq(Frames)
  /\ \A k \in DOMAIN stack' : stack'[k] = f \/ \E j \in DOMAIN stack : stack'[k] = stack[j]

FramesStay ==
  \A j \in DOMAIN stack : j # 1 => \E k \in DOMAIN stack' : stack'[k] = stack[j]

(* Deliver. *)
LEMMA Push ==
  ASSUME stack \in Seq(Frames), NEW f \in Frames, stack' = <<f>> \o stack
  PROVE  /\ FramesFrom(f)
         /\ \A j \in DOMAIN stack : \E k \in DOMAIN stack' : stack'[k] = stack[j]
<1>1. stack' \in Seq(Frames) /\ Len(stack') = Len(stack) + 1
  OBVIOUS
<1>2. \A k \in 1 .. Len(stack') : stack'[k] = IF k = 1 THEN f ELSE stack[k - 1]
  OBVIOUS
<1>3. \A j \in DOMAIN stack : j + 1 \in DOMAIN stack' /\ stack'[j + 1] = stack[j]
  BY <1>1, <1>2
<1>4. \A k \in DOMAIN stack' : stack'[k] = f \/ (k - 1 \in DOMAIN stack /\ stack'[k] = stack[k - 1])
  BY <1>1, <1>2
<1> QED BY <1>1, <1>3, <1>4 DEF FramesFrom

(* A handler returns. *)
LEMMA Pop ==
  ASSUME stack \in Seq(Frames), stack # <<>>, Return
  PROVE  FramesFrom(stack[1]) /\ FramesStay
<1>1. stack' \in Seq(Frames) /\ Len(stack') = Len(stack) - 1
  BY DEF Return
<1>2. \A k \in 1 .. Len(stack') : stack'[k] = stack[k + 1]
  BY DEF Return
<1>3. \A j \in DOMAIN stack : j # 1 => j - 1 \in DOMAIN stack' /\ stack'[j - 1] = stack[j]
  BY <1>1, <1>2
<1>4. \A k \in DOMAIN stack' : k + 1 \in DOMAIN stack
  BY <1>1
<1> QED BY <1>1, <1>2, <1>3, <1>4 DEF FramesFrom, FramesStay

(* A handler goes on. *)
LEMMA NewHead ==
  ASSUME stack \in Seq(Frames), stack # <<>>, NEW f \in Frames, GoTo(f)
  PROVE  FramesFrom(f) /\ FramesStay /\ \E k \in DOMAIN stack' : stack'[k] = f
<1>1. Tail(stack) \in Seq(Frames) /\ Len(Tail(stack)) = Len(stack) - 1
  OBVIOUS
<1>2. stack' \in Seq(Frames) /\ Len(stack') = Len(stack)
  BY <1>1 DEF GoTo
<1>3. \A k \in 1 .. Len(stack) : stack'[k] = IF k = 1 THEN f ELSE stack[k]
  BY <1>1 DEF GoTo
<1>4. DOMAIN stack = 1 .. Len(stack) /\ DOMAIN stack' = 1 .. Len(stack) /\ 1 \in DOMAIN stack
  BY <1>1, <1>2
<1> QED BY <1>2, <1>3, <1>4 DEF FramesFrom, FramesStay

(* A handler is running: its frame is the first one. *)
LEMMA RunningHead ==
  ASSUME stack \in Seq(Frames), NEW sigs, NEW at, Running(sigs, at)
  PROVE  /\ stack # <<>> /\ 1 \in DOMAIN stack /\ Head(stack) = stack[1]
         /\ stack[1] \in Frames /\ stack[1].sig \in sigs /\ stack[1].at = at
<1>1. stack # <<>> /\ Head(stack).sig \in sigs /\ Head(stack).at = at
  BY DEF Running
<1>2. Len(stack) # 0 /\ Head(stack) = stack[1] /\ DOMAIN stack = 1 .. Len(stack)
  BY <1>1
<1> QED BY <1>1, <1>2

(* The fields of a frame. *)
LEMMA FrameOK ==
  ASSUME NEW sig \in Signals, NEW at \in {"start", "kill", "delete", "stop"}, NEW pid \in Pids \cup {0}
  PROVE  /\ Frame(sig, at, pid) \in Frames
         /\ Frame(sig, at, pid).sig = sig /\ Frame(sig, at, pid).at = at /\ Frame(sig, at, pid).pid = pid
BY DEF Frame, Frames

(* TypeOK in parts, with what the steps of each part need. *)
JobsTyped ==
  /\ jobs \in [Slots -> [pid : Pids \cup {0}, jid : Nat, state : JobStates]]
  /\ nextjid \in Nat \ {0}
  /\ \A i \in Slots : jobs[i].pid # 0 => jobs[i].jid # 0

MainTyped ==
  /\ pc \in {"read", "forked", "added", "found", "continued", "waitfg", "waiting", "spinning"}
  /\ local \in [pid : Pids \cup {0}, slot : Slots \cup {NULL}, bg : BOOLEAN, named : {"pid", "jid"}]
  /\ blocked \subseteq Signals
  /\ pc \in {"found", "continued", "waiting"} => local.slot \in Slots

ProcTyped ==
  /\ proc \in [Pids -> {"unused", "running", "stopped", "zombie", "reaped"}]
  /\ group \in [Pids -> {"shell", "own"}] /\ unseen \subseteq Pids
  /\ pending \subseteq Signals

StackTyped == stack \in Seq(Frames)
EndTyped == ended \in {"no", "exit", "segfault", "kill error", "kill error in handler"}

Typed == JobsTyped /\ MainTyped /\ ProcTyped /\ StackTyped /\ EndTyped

(* This is more than the type invariant. *)
LEMMA TypedImplies == Typed => TypeOK
<1> SUFFICES ASSUME Typed PROVE TypeOK
  OBVIOUS
<1>1. \A i \in DOMAIN stack : stack[i] \in [sig : Signals, at : {"start", "kill", "delete", "stop"},
                                            pid : Pids \cup {0}]
  <2>1. \A i \in DOMAIN stack : stack[i] \in Frames
    BY DEF Typed, StackTyped
  <2> QED BY <2>1, Zenon DEF Frames
<1>2. /\ jobs \in [Slots -> [pid : Pids \cup {0}, jid : Nat, state : JobStates]]
      /\ nextjid \in Nat \ {0}
  BY DEF Typed, JobsTyped
<1> QED BY <1>1, <1>2, Zenon DEF Typed, TypeOK, MainTyped, ProcTyped, EndTyped

(* The three assignments to the job list. *)
LEMMA SetStateTyped ==
  ASSUME JobsTyped, NEW s \in Slots, NEW st \in JobStates, setstate(s, st), nextjid' = nextjid
  PROVE  JobsTyped'
BY DEF JobsTyped, setstate

LEMMA AddJobTyped ==
  ASSUME JobsTyped, NEW pid \in Pids, NEW st \in JobStates, addjob(pid, st)
  PROVE  JobsTyped'
<1> DEFINE F == {j \in Slots : jobs[j].pid = 0}
           e == [pid |-> pid, jid |-> nextjid, state |-> st]
<1>1. CASE UNCHANGED jobVars
  BY <1>1 DEF jobVars, JobsTyped
<1>2. CASE /\ \E i : jobs' = [jobs EXCEPT ![i] = e]
           /\ nextjid' = IF nextjid + 1 > MAXJOBS THEN 1 ELSE nextjid + 1
  <2>1. e \in [pid : Pids \cup {0}, jid : Nat, state : JobStates] /\ e.jid # 0
    BY DEF JobsTyped
  <2>2. PICK i : jobs' = [jobs EXCEPT ![i] = e]
    BY <1>2
  <2>3. \A j \in Slots : jobs'[j] = IF j = i THEN e ELSE jobs[j]
    BY <2>2 DEF JobsTyped
  <2>4. jobs' \in [Slots -> [pid : Pids \cup {0}, jid : Nat, state : JobStates]]
    BY <2>1, <2>2, <2>3 DEF JobsTyped
  <2>5. nextjid' \in Nat \ {0}
    BY <1>2 DEF JobsTyped
  <2> QED BY <2>1, <2>3, <2>4, <2>5 DEF JobsTyped
<1> QED BY <1>1, <1>2 DEF addjob

LEMMA DeleteJobTyped ==
  ASSUME JobsTyped, NEW pid, deletejob(pid)
  PROVE  JobsTyped'
<1>1. CASE UNCHANGED jobVars
  BY <1>1 DEF jobVars, JobsTyped
<1>2. CASE /\ \E i : jobs' = [jobs EXCEPT ![i] = clearjob]
           /\ nextjid' = maxjid(jobs') + 1
  <2>1. clearjob \in [pid : Pids \cup {0}, jid : Nat, state : JobStates] /\ clearjob.pid = 0
    BY DEF clearjob, JobStates
  <2>2. PICK i : jobs' = [jobs EXCEPT ![i] = clearjob]
    BY <1>2
  <2>3. \A j \in Slots : jobs'[j] = IF j = i THEN clearjob ELSE jobs[j]
    BY <2>2 DEF JobsTyped
  <2>4. jobs' \in [Slots -> [pid : Pids \cup {0}, jid : Nat, state : JobStates]]
    BY <2>1, <2>2, <2>3 DEF JobsTyped
  <2>5. nextjid' \in Nat \ {0}
    <3>1. \A j \in Slots : jobs'[j].jid \in Nat
      BY <2>4
    <3>2. maxjid(jobs') \in Nat
      BY <3>1, MaxJid
    <3> QED BY <1>2, <3>2
  <2> QED BY <2>1, <2>3, <2>4, <2>5 DEF JobsTyped
<1> QED BY <1>1, <1>2 DEF deletejob

(* The invariant holds at first. *)
LEMMA InitTyped == Init => Typed
<1> SUFFICES ASSUME Init PROVE Typed
  OBVIOUS
<1>1. JobsTyped
  BY DEF Init, JobInit, initjobs, clearjob, JobsTyped, JobStates
<1>2. MainTyped
  BY DEF Init, NoLocals, MainTyped
<1>3. ProcTyped /\ StackTyped /\ EndTyped
  BY DEF Init, ProcTyped, StackTyped, EndTyped
<1> QED BY <1>1, <1>2, <1>3 DEF Typed

(* Parts of the state that a step leaves alone. *)
LEMMA JobsSame == ASSUME JobsTyped, UNCHANGED <<jobs, nextjid>> PROVE JobsTyped'
BY DEF JobsTyped
LEMMA MainSame == ASSUME MainTyped, UNCHANGED mainVars PROVE MainTyped'
BY DEF MainTyped, mainVars
LEMMA ChildrenSame == ASSUME ProcTyped, UNCHANGED <<procVars, pending>> PROVE ProcTyped'
BY DEF ProcTyped, procVars

(* The end of the shell, and the return to the prompt. *)
LEMMA EndingTyped ==
  ASSUME Typed, NEW how \in {"exit", "segfault", "kill error", "kill error in handler"}, End(how)
  PROVE  Typed'
<1>1. JobsTyped' /\ MainTyped' /\ ProcTyped'
  BY JobsSame, MainSame, ChildrenSame DEF End, Typed
<1>2. StackTyped' /\ EndTyped'
  BY DEF End, Typed, StackTyped, EndTyped
<1> QED BY <1>1, <1>2 DEF Typed

LEMMA PromptTyped == ASSUME MainTyped, Prompt, blocked' \subseteq Signals PROVE MainTyped'
BY DEF MainTyped, Prompt, NoLocals

(* What happens to the children. *)
LEMMA ContinueTyped == ASSUME ProcTyped, NEW S, Continue(S) PROVE ProcTyped'
<1> DEFINE T == {p \in S : proc[p] = "stopped"}
<1>1. proc' \in [Pids -> {"unused", "running", "stopped", "zombie", "reaped"}]
  BY DEF Continue, ProcTyped
<1>2. group' = group /\ unseen' \subseteq Pids /\ pending' \subseteq Signals
  BY DEF Continue, ProcTyped, Signals
<1> QED BY <1>1, <1>2 DEF ProcTyped

LEMMA ChildTyped ==
  ASSUME ProcTyped, NEW p \in Pids, StopChild(p) \/ KillChild(p) \/ SetPgid(p)
  PROVE  ProcTyped'
<1>1. "CHLD" \in Signals
  BY DEF Signals
<1> QED BY <1>1 DEF ProcTyped, StopChild, KillChild, SetPgid

(* The steps of main. *)
LEMMA ForkTyped == ASSUME Typed, NEW p \in Pids, Fork(p) PROVE Typed'
<1>1. JobsTyped' /\ StackTyped' /\ EndTyped'
  BY JobsSame DEF Fork, Typed, StackTyped, EndTyped
<1>2. MainTyped'
  BY ShellAssumption DEF Fork, Typed, MainTyped
<1>3. ProcTyped'
  BY DEF Fork, Typed, ProcTyped
<1> QED BY <1>1, <1>2, <1>3 DEF Typed

LEMMA AddTyped == ASSUME Typed, IInv, NEW bg \in BOOLEAN, AddJob(bg) PROVE Typed'
<1>1. JobsTyped'
  <2>1. local.pid \in Pids
    BY DEF AddJob, IInv, Forked
  <2>2. (IF bg THEN "BG" ELSE "FG") \in JobStates
    BY DEF JobStates
  <2>3. addjob(local.pid, IF bg THEN "BG" ELSE "FG")
    BY DEF AddJob
  <2> QED BY <2>1, <2>2, <2>3, AddJobTyped DEF Typed
<1>2. MainTyped'
  BY DEF AddJob, Typed, MainTyped
<1>3. ProcTyped' /\ StackTyped' /\ EndTyped'
  BY ChildrenSame DEF AddJob, Typed, StackTyped, EndTyped
<1> QED BY <1>1, <1>2, <1>3 DEF Typed

LEMMA UnblockTyped == ASSUME Typed, Unblock PROVE Typed'
<1>1. MainTyped'
  BY PromptTyped DEF Unblock, Typed, MainTyped
<1>2. JobsTyped' /\ ProcTyped' /\ StackTyped' /\ EndTyped'
  BY JobsSame, ChildrenSame DEF Unblock, Typed, StackTyped, EndTyped
<1> QED BY <1>1, <1>2 DEF Typed

LEMMA FindTyped ==
  ASSUME Typed, NEW named \in {"jid", "pid"}, NEW bg \in BOOLEAN, FindJob(named, bg)
  PROVE  Typed'
<1>1. PICK i \in Slots :
        /\ jobs[i].pid # 0
        /\ LET slot == IF named = "jid" THEN getjobjid(jobs[i].jid) ELSE i
           IN  local' = [pid |-> jobs[slot].pid, slot |-> slot, bg |-> bg, named |-> named]
  BY DEF FindJob
<1>2. getjobjid(jobs[i].jid) \in Slots
  <2> DEFINE S == {j \in Slots : jobs[j].jid = jobs[i].jid}
  <2>1. jobs[i].jid \in Nat \ {0}
    BY <1>1 DEF Typed, JobsTyped
  <2>2. First(S) \in S
    BY FirstInSet, SlotFacts
  <2> QED BY <2>1, <2>2 DEF getjobjid
<1>3. PICK slot \in Slots : local' = [pid |-> jobs[slot].pid, slot |-> slot, bg |-> bg, named |-> named]
  BY <1>1, <1>2
<1>4. MainTyped'
  BY <1>3 DEF FindJob, Typed, MainTyped, JobsTyped
<1>5. JobsTyped' /\ ProcTyped' /\ StackTyped' /\ EndTyped'
  BY JobsSame, ChildrenSame DEF FindJob, Typed, StackTyped, EndTyped
<1> QED BY <1>4, <1>5 DEF Typed

LEMMA SendTyped == ASSUME Typed, SendCont PROVE Typed'
<1>1. CASE End("kill error")
  BY <1>1, EndingTyped
<1>2. CASE /\ pc = "found" /\ \E S : Continue(S)
           /\ pc' = "continued" /\ UNCHANGED <<jobs, nextjid, local, blocked, stack, ended>>
  <2>1. MainTyped'
    BY <1>2 DEF Typed, MainTyped
  <2>2. JobsTyped' /\ ProcTyped' /\ StackTyped' /\ EndTyped'
    BY <1>2, JobsSame, ContinueTyped DEF Typed, StackTyped, EndTyped
  <2> QED BY <2>1, <2>2 DEF Typed
<1> QED BY <1>1, <1>2 DEF SendCont

LEMMA SetTyped == ASSUME Typed, SetState PROVE Typed'
<1>1. local.slot \in Slots
  BY DEF Typed, MainTyped, SetState
<1>2. JobsTyped'
  BY <1>1, SetStateTyped DEF SetState, Typed, JobStates
<1>3. jobs[local.slot].pid \in Pids \cup {0}
  BY <1>1 DEF Typed, JobsTyped
<1>4. MainTyped'
  BY <1>3, PromptTyped DEF SetState, Typed, MainTyped
<1>5. ProcTyped' /\ StackTyped' /\ EndTyped'
  BY ChildrenSame DEF SetState, Typed, StackTyped, EndTyped
<1> QED BY <1>2, <1>4, <1>5 DEF Typed

LEMMA WaitTyped == ASSUME Typed, WaitFg \/ WaitOver PROVE Typed'
<1> DEFINE slot == getjobpid(local.pid)
<1>1. slot # NULL => slot \in Slots
  <2> DEFINE S == {j \in Slots : jobs[j].pid = local.pid}
  <2>1. S # {} => First(S) \in S
    BY FirstInSet, SlotFacts
  <2> QED BY <2>1 DEF getjobpid, First
<1> HIDE DEF slot
<1>2. ASSUME Prompt, blocked' = blocked PROVE MainTyped'
  BY <1>2, PromptTyped DEF Typed, MainTyped
<1>3. ASSUME slot # NULL, pc' \in {"spinning", "waiting"}, local' = [local EXCEPT !.slot = slot],
             blocked' = blocked
      PROVE  MainTyped'
  BY <1>1, <1>3 DEF Typed, MainTyped
<1>4. JobsTyped' /\ ProcTyped' /\ StackTyped' /\ EndTyped'
  BY JobsSame, ChildrenSame DEF WaitFg, WaitOver, Typed, StackTyped, EndTyped
<1>5. MainTyped'
  BY <1>2, <1>3 DEF WaitFg, WaitOver, slot
<1> QED BY <1>4, <1>5 DEF Typed

(* The handlers. *)
LEMMA DeliverTyped == ASSUME Typed, NEW sig \in Signals, Deliver(sig) PROVE Typed'
<1>1. StackTyped'
  <2>1. Frame(sig, "start", 0) \in Frames
    BY FrameOK
  <2> QED BY <2>1, Push DEF Deliver, Typed, StackTyped, FramesFrom
<1>2. JobsTyped' /\ MainTyped' /\ EndTyped'
  BY JobsSame, MainSame DEF Deliver, Typed, EndTyped
<1>3. ProcTyped'
  BY DEF Deliver, Typed, ProcTyped, procVars
<1> QED BY <1>1, <1>2, <1>3 DEF Typed

(* The pid of the foreground job is the pid of an entry. *)
LEMMA FgpidOK ==
  ASSUME JobsTyped, fgpid # 0
  PROVE  /\ fgpid \in Pids
         /\ \E i \in Slots : jobs[i].pid = fgpid /\ jobs[i].state = "FG"
<1> DEFINE S == {j \in Slots : jobs[j].state = "FG"}
<1>1. S # {}
  BY DEF fgpid, First
<1>2. First(S) \in S
  BY <1>1, FirstInSet, SlotFacts
<1>3. First(S) # NULL
  BY <1>2, SlotFacts
<1>4. fgpid = jobs[First(S)].pid
  BY <1>3 DEF fgpid
<1> QED BY <1>2, <1>4 DEF JobsTyped

(* The SIGINT and SIGTSTP handlers. *)
LEMMA ReadFgpidTyped == ASSUME Typed, ReadFgpid PROVE Typed'
<1>1. StackTyped'
  <2>0. stack \in Seq(Frames) /\ Running({"INT", "TSTP"}, "start")
    BY DEF Typed, StackTyped, ReadFgpid
  <2>1. stack # <<>> /\ Head(stack).sig \in Signals
    BY <2>0, RunningHead DEF Signals
  <2>2. CASE fgpid = 0
    BY <2>0, <2>1, <2>2, Pop DEF ReadFgpid, StackTyped, FramesFrom
  <2>3. CASE fgpid # 0
    <3>1. Frame(Head(stack).sig, "kill", fgpid) \in Frames
      BY <2>1, <2>3, FgpidOK, FrameOK DEF Typed
    <3> QED BY <2>0, <2>1, <2>3, <3>1, NewHead DEF ReadFgpid, StackTyped, FramesFrom
  <2> QED BY <2>2, <2>3
<1>2. JobsTyped' /\ MainTyped' /\ ProcTyped' /\ EndTyped'
  BY JobsSame, MainSame, ChildrenSame DEF ReadFgpid, Typed, EndTyped
<1> QED BY <1>1, <1>2 DEF Typed

LEMMA ForwardTyped == ASSUME Typed, ForwardSignal PROVE Typed'
<1>1. CASE End("kill error in handler")
  BY <1>1, EndingTyped
<1>2. CASE /\ Forward(Head(stack).sig, Head(stack).pid) /\ Return
           /\ UNCHANGED <<jobs, nextjid, mainVars, ended>>
  <2>1. \A g : InGroup(g) \subseteq Pids
    BY DEF InGroup, Children
  <2>2. ProcTyped'
    BY <1>2, <2>1, ChildrenSame, ChildTyped DEF Forward, Typed
  <2>3. StackTyped'
    BY <1>2, RunningHead, Pop DEF ForwardSignal, Typed, StackTyped, FramesFrom
  <2> QED BY <1>2, <2>2, <2>3, JobsSame, MainSame DEF Typed, EndTyped
<1> QED BY <1>1, <1>2 DEF ForwardSignal

(* The SIGCHLD handler. *)
LEMMA WaitPidTyped == ASSUME Typed, WaitPid PROVE Typed'
<1>0. stack \in Seq(Frames) /\ stack # <<>>
  BY RunningHead DEF Typed, StackTyped, WaitPid
<1>1. JobsTyped' /\ MainTyped' /\ EndTyped' /\ pending' = pending
  BY JobsSame, MainSame DEF WaitPid, Typed, EndTyped
<1>2. CASE Return /\ UNCHANGED procVars
  BY <1>0, <1>1, <1>2, ChildrenSame, Pop DEF Typed, StackTyped, FramesFrom
<1>3. CASE \E p \in Reportable :
             /\ proc' = IF proc[p] = "zombie" THEN [proc EXCEPT ![p] = "reaped"] ELSE proc
             /\ unseen' = unseen \ {p}
             /\ GoTo(Frame("CHLD", IF proc[p] = "zombie" THEN "delete" ELSE "stop", p))
             /\ UNCHANGED group
  <2>1. PICK p \in Reportable :
             /\ proc' = IF proc[p] = "zombie" THEN [proc EXCEPT ![p] = "reaped"] ELSE proc
             /\ unseen' = unseen \ {p}
             /\ GoTo(Frame("CHLD", IF proc[p] = "zombie" THEN "delete" ELSE "stop", p))
             /\ UNCHANGED group
    BY <1>3
  <2>2. p \in Pids
    BY DEF Reportable, Children
  <2>3. ProcTyped'
    BY <1>1, <2>1, <2>2 DEF Typed, ProcTyped
  <2>4. Frame("CHLD", IF proc[p] = "zombie" THEN "delete" ELSE "stop", p) \in Frames
    BY <2>2, FrameOK DEF Signals
  <2>5. StackTyped'
    BY <1>0, <2>1, <2>4, NewHead DEF StackTyped, FramesFrom
  <2> QED BY <1>1, <2>3, <2>5 DEF Typed
<1> QED BY <1>2, <1>3 DEF WaitPid

LEMMA DeleteTyped == ASSUME Typed, DeleteJob PROVE Typed'
<1>1. JobsTyped'
  BY DeleteJobTyped DEF DeleteJob, Typed
<1>2. Frame("CHLD", "start", 0) \in Frames
  BY FrameOK DEF Signals
<1>3. StackTyped'
  BY <1>2, RunningHead, NewHead DEF DeleteJob, Typed, StackTyped, FramesFrom
<1> QED BY <1>1, <1>3, MainSame, ChildrenSame DEF DeleteJob, Typed, EndTyped

LEMMA MarkTyped == ASSUME Typed, MarkStopped PROVE Typed'
<1> DEFINE s == getjobpid(Head(stack).pid)
<1>1. CASE End("segfault")
  BY <1>1, EndingTyped
<1>2. CASE /\ s # NULL /\ setstate(s, "ST") /\ GoTo(Frame("CHLD", "start", 0))
           /\ UNCHANGED <<nextjid, mainVars, pending, procVars, ended>>
  <2>1. s \in Slots
    <3> DEFINE S == {j \in Slots : jobs[j].pid = Head(stack).pid}
    <3>1. S # {} => First(S) \in S
      BY FirstInSet, SlotFacts
    <3> QED BY <1>2, <3>1 DEF getjobpid, First
  <2>2. JobsTyped'
    <3> HIDE DEF s
    <3> QED BY <1>2, <2>1, SetStateTyped DEF Typed, JobStates
  <2>3. Frame("CHLD", "start", 0) \in Frames
    BY FrameOK DEF Signals
  <2>4. StackTyped'
    BY <1>2, <2>3, RunningHead, NewHead DEF MarkStopped, Typed, StackTyped, FramesFrom
  <2> QED BY <1>2, <2>2, <2>4, MainSame, ChildrenSame DEF Typed, EndTyped
<1> QED BY <1>1, <1>2 DEF MarkStopped

(* Every step keeps the types. *)
LEMMA TypedInduction == IInv /\ Typed /\ [Next]_vars => Typed'
<1> SUFFICES ASSUME IInv, Typed, [Next]_vars PROVE Typed'
  OBVIOUS
<1>1. CASE Leave \/ Quit
  BY <1>1, EndingTyped DEF Leave, Quit
<1>2. CASE \E p \in Pids : Fork(p)
  BY <1>2, ForkTyped
<1>3. CASE \E bg \in BOOLEAN : AddJob(bg)
  BY <1>3, AddTyped
<1>4. CASE \E named \in {"jid", "pid"}, bg \in BOOLEAN : FindJob(named, bg)
  BY <1>4, FindTyped
<1>5. CASE Unblock \/ SendCont \/ SetState \/ WaitFg \/ WaitOver
  BY <1>5, UnblockTyped, SendTyped, SetTyped, WaitTyped
<1>6. CASE \E sig \in Signals : Deliver(sig)
  BY <1>6, DeliverTyped
<1>7. CASE HandlerStep
  BY <1>7, ReadFgpidTyped, ForwardTyped, WaitPidTyped, DeleteTyped, MarkTyped DEF HandlerStep
<1>8. CASE \E p \in Pids : Child(p)
  <2>1. PICK p \in Pids : Child(p)
    BY <1>8
  <2>2. ProcTyped'
    BY <2>1, ChildTyped, ContinueTyped DEF Child, Die, Typed
  <2> QED BY <2>1, <2>2, JobsSame, MainSame DEF Child, Typed, StackTyped, EndTyped
<1>9. CASE \E sig \in Keys \ {"QUIT"} : Key(sig)
  <2>1. Keys \ {"QUIT"} \subseteq Signals
    BY ShellAssumption DEF Signals
  <2>2. ProcTyped'
    BY <1>9, <2>1 DEF Key, Typed, ProcTyped, procVars
  <2> QED BY <1>9, <2>2, JobsSame, MainSame DEF Key, Typed, StackTyped, EndTyped
<1>10. CASE UNCHANGED vars
  <2>1. UNCHANGED <<jobs, nextjid, mainVars, procVars, pending, stack, ended>>
    BY <1>10 DEF vars, mainVars, procVars
  <2> QED BY <2>1, JobsSame, MainSame, ChildrenSame DEF Typed, StackTyped, EndTyped
<1> QED BY <1>1, <1>2, <1>3, <1>4, <1>5, <1>6, <1>7, <1>8, <1>9, <1>10 DEF Next, MainStep
-----------------------------------------------------------------------------
(* A signal on its way names a process, and its job was FG when it was     *)
(* read; main cannot put it in the background before the handler returns.  *)
Kills ==
  /\ \A k \in DOMAIN stack : stack[k].at = "kill" => stack[k].pid # 0
  /\ SignalsSpareBackground

(* A step that neither sends a new signal nor makes a listed job BG. *)
LEMMA KillsSame ==
  ASSUME Kills, NEW f, f.at # "kill", FramesFrom(f),
         \A j \in Slots : \/ jobs'[j].pid = 0
                          \/ jobs'[j].pid = jobs[j].pid /\ (jobs'[j].state = "BG" => jobs[j].state = "BG")
  PROVE  Kills'
<1>1. \A k \in DOMAIN stack' : stack'[k].at = "kill" => \E i \in DOMAIN stack : stack'[k] = stack[i]
  BY DEF FramesFrom
<1> QED BY <1>1 DEF Kills, SignalsSpareBackground

(* Handlers interrupt main: while one is active main takes no step. *)
LEMMA NoFrames == ASSUME stack = <<>>, stack' = stack PROVE Kills'
BY DEF Kills, SignalsSpareBackground

(* A step that touches neither the list nor the handlers. *)
LEMMA SameFrames ==
  ASSUME Kills, UNCHANGED <<jobs, stack>>
  PROVE  Kills'
BY DEF Kills, SignalsSpareBackground

(* So main changes the list only while no handler is active. *)
LEMMA MainIsAlone == ASSUME MainStep PROVE UNCHANGED stack /\ (stack = <<>> \/ UNCHANGED jobs)
<1>1. \A how : End(how) => UNCHANGED <<stack, jobs>>
  BY DEF End
<1> QED BY <1>1 DEF MainStep, Leave, Fork, AddJob, Unblock, FindJob, SendCont, SetState, WaitFg, WaitOver, MainRuns

(* The pid that fgpid returns is that of a job in the FG state. *)
LEMMA ReadFgpidKills == ASSUME IInv, Typed, Kills, ReadFgpid PROVE Kills'
<1>0. stack \in Seq(Frames) /\ Running({"INT", "TSTP"}, "start") /\ jobs' = jobs
  BY DEF Typed, StackTyped, ReadFgpid
<1>1. /\ stack # <<>> /\ Head(stack).sig \in Signals
      /\ stack[1].at # "kill" /\ Head(stack) = stack[1]
  BY <1>0, RunningHead DEF Signals
<1>2. CASE fgpid = 0
  BY <1>0, <1>1, <1>2, Pop, KillsSame DEF ReadFgpid
<1>3. CASE fgpid # 0
  <2> DEFINE f == Frame(Head(stack).sig, "kill", fgpid)
  <2>1. f \in Frames /\ f.pid = fgpid
    BY <1>1, <1>3, FgpidOK, FrameOK DEF Typed
  <2>2. FramesFrom(f)
    BY <1>0, <1>1, <1>3, <2>1, NewHead DEF ReadFgpid
  <2>3. PICK i \in Slots : jobs[i].pid = fgpid /\ jobs[i].state = "FG"
    BY <1>3, FgpidOK DEF Typed
  <2>4. \A j \in Slots : jobs[j].pid = f.pid => jobs[j].state # "BG"
    BY <1>3, <2>1, <2>3 DEF IInv, DistinctPids
  <2> HIDE DEF f
  <2>5. \A k \in DOMAIN stack' : stack'[k] = f \/ \E j \in DOMAIN stack : stack'[k] = stack[j]
    BY <2>2 DEF FramesFrom
  <2>6. \A k \in DOMAIN stack' : stack'[k].at = "kill" => stack'[k].pid # 0
    BY <1>3, <2>1, <2>5 DEF Kills
  <2>7. SignalsSpareBackground'
    BY <1>0, <2>4, <2>5 DEF Kills, SignalsSpareBackground
  <2> QED BY <2>6, <2>7 DEF Kills
<1> QED BY <1>2, <1>3

(* deletejob clears an entry and touches no other. *)
LEMMA ClearedOrSame ==
  ASSUME JobsTyped, NEW pid, deletejob(pid)
  PROVE  \A j \in Slots : jobs'[j].pid = 0 \/ jobs'[j] = jobs[j]
<1>1. CASE UNCHANGED jobVars
  BY <1>1 DEF jobVars
<1>2. CASE \E i : jobs' = [jobs EXCEPT ![i] = clearjob]
  BY <1>2 DEF JobsTyped, clearjob
<1> QED BY <1>1, <1>2 DEF deletejob

(* The other handlers send no signal. *)
LEMMA HandlerKills == ASSUME IInv, Typed, Kills, HandlerStep PROVE Kills'
<1>0. stack \in Seq(Frames)
  BY DEF Typed, StackTyped
<1>a. "CHLD" \in Signals
  BY DEF Signals
<1>1. CASE ReadFgpid
  BY <1>1, ReadFgpidKills
<1>2. CASE ForwardSignal
  <2>1. CASE End("kill error in handler")
    BY <2>1, SameFrames DEF End
  <2>2. CASE Return /\ jobs' = jobs
    <3>1. stack # <<>> /\ 1 \in DOMAIN stack
      BY <1>0, <1>2, RunningHead DEF ForwardSignal
    <3>2. \A k \in DOMAIN stack' : \E i \in DOMAIN stack : stack'[k] = stack[i]
      BY <1>0, <2>2, <3>1, Pop DEF FramesFrom
    <3> QED BY <2>2, <3>2 DEF Kills, SignalsSpareBackground
  <2> QED BY <1>2, <2>1, <2>2 DEF ForwardSignal
<1>3. CASE WaitPid
  <2>1. /\ stack # <<>> /\ stack[1].at # "kill" /\ jobs' = jobs
    BY <1>0, <1>3, RunningHead DEF WaitPid
  <2>2. CASE Return
    BY <1>0, <2>1, <2>2, Pop, KillsSame
  <2>3. CASE \E p \in Pids, at \in {"delete", "stop"} : GoTo(Frame("CHLD", at, p))
    <3>1. PICK p \in Pids, at \in {"delete", "stop"} : GoTo(Frame("CHLD", at, p))
      BY <2>3
    <3>2. Frame("CHLD", at, p) \in Frames /\ Frame("CHLD", at, p).at # "kill"
      BY <1>a, FrameOK
    <3> QED BY <1>0, <2>1, <3>1, <3>2, NewHead, KillsSame
  <2>4. Reportable \subseteq Pids
    BY DEF Reportable, Children
  <2> QED BY <1>3, <2>2, <2>3, <2>4 DEF WaitPid
<1>4. CASE DeleteJob \/ MarkStopped
  <2> DEFINE f == Frame("CHLD", "start", 0)
  <2>1. f \in Frames /\ f.at # "kill"
    BY <1>a, FrameOK
  <2>2. stack # <<>>
    BY <1>0, <1>4, RunningHead DEF DeleteJob, MarkStopped
  <2> HIDE DEF f
  <2>3. CASE DeleteJob
    <3>1. GoTo(f) /\ \A j \in Slots : jobs'[j].pid = 0 \/ jobs'[j] = jobs[j]
      BY <2>3, ClearedOrSame DEF DeleteJob, Typed, f
    <3> QED BY <1>0, <2>1, <2>2, <3>1, NewHead, KillsSame
  <2>4. CASE MarkStopped
    <3>1. CASE End("segfault")
      BY <3>1, SameFrames DEF End
    <3>2. CASE GoTo(f) /\ \E s : setstate(s, "ST")
      <4>1. \A j \in Slots : jobs'[j].pid = jobs[j].pid /\ (jobs'[j].state = "BG" => jobs[j].state = "BG")
        BY <3>2 DEF setstate, Typed, JobsTyped
      <4> QED BY <1>0, <2>1, <2>2, <3>2, <4>1, NewHead, KillsSame
    <3> QED BY <2>4, <3>1, <3>2 DEF MarkStopped, f
  <2> QED BY <1>4, <2>3, <2>4
<1> QED BY <1>1, <1>2, <1>3, <1>4 DEF HandlerStep

(* Every step keeps this. *)
LEMMA KillsInduction == IInv /\ Typed /\ Kills /\ [Next]_vars => Kills'
<1> SUFFICES ASSUME IInv, Typed, Kills, [Next]_vars PROVE Kills'
  OBVIOUS
<1>1. CASE MainStep
  BY <1>1, MainIsAlone, NoFrames, SameFrames
<1>2. CASE HandlerStep
  BY <1>2, HandlerKills
<1>3. CASE \E sig \in Signals : Deliver(sig)
  <2>1. PICK sig \in Signals : Deliver(sig)
    BY <1>3
  <2>2. Frame(sig, "start", 0) \in Frames /\ Frame(sig, "start", 0).at # "kill"
    BY FrameOK
  <2> QED BY <2>1, <2>2, Push, KillsSame DEF Deliver, Typed, StackTyped
<1>4. CASE (\E p \in Pids : Child(p)) \/ (\E sig \in Keys \ {"QUIT"} : Key(sig)) \/ Quit \/ UNCHANGED vars
  <2>1. UNCHANGED <<jobs, stack>>
    BY <1>4 DEF Child, Key, Quit, End, vars
  <2> QED BY <2>1, SameFrames
<1> QED BY <1>1, <1>2, <1>3, <1>4 DEF Next
-----------------------------------------------------------------------------
(* eval blocks SIGCHLD: the value that its mask happens to have includes it. *)
ChldMasked == \A m \in Masks : "CHLD" \in m

(* Between fork and addjob the new child is not reaped, since no SIGCHLD   *)
(* handler is active and none can start.                                   *)
NotYetListed ==
  pc = "forked" => /\ "CHLD" \in blocked
                   /\ \A k \in DOMAIN stack : stack[k].sig # "CHLD"
                   /\ proc[local.pid] # "reaped"

Reaping == NotYetListed /\ JobsAreLive

(* A step that reaps nobody and keeps the frames of the handlers that have. *)
LEMMA ReapingSame ==
  ASSUME Reaping, \A p \in Pids : proc'[p] = "reaped" => proc[p] = "reaped",
         \A j \in Slots : jobs'[j].pid # 0 => jobs'[j].pid = jobs[j].pid /\ jobs[j].pid \in Pids,
         \A i \in DOMAIN stack : stack[i].at = "delete" => \E k \in DOMAIN stack' : stack'[k] = stack[i],
         NotYetListed'
  PROVE  Reaping'
<1> SUFFICES ASSUME NEW j \in Slots, jobs'[j].pid # 0, proc'[jobs'[j].pid] = "reaped"
             PROVE  \E k \in DOMAIN stack' : stack'[k].at = "delete" /\ stack'[k].pid = jobs'[j].pid
  BY DEF Reaping, JobsAreLive
<1>1. jobs'[j].pid = jobs[j].pid /\ jobs[j].pid # 0 /\ proc[jobs[j].pid] = "reaped"
  OBVIOUS
<1>2. PICK i \in DOMAIN stack : stack[i].at = "delete" /\ stack[i].pid = jobs[j].pid
  BY <1>1 DEF Reaping, JobsAreLive
<1> QED BY <1>1, <1>2

(* A step of a child, or of kill, reaps nobody. *)
LEMMA NobodyReaped ==
  ASSUME ProcTyped, NEW p \in Pids, NEW S,
         StopChild(p) \/ KillChild(p) \/ SetPgid(p) \/ Continue(S) \/ UNCHANGED procVars
  PROVE  \A q \in Pids : proc'[q] = "reaped" => proc[q] = "reaped"
BY DEF ProcTyped, StopChild, KillChild, SetPgid, Continue, procVars

(* The entries of the list before and after a step name processes. *)
LEMMA ListedPids == ASSUME JobsTyped PROVE \A j \in Slots : jobs[j].pid # 0 => jobs[j].pid \in Pids
BY DEF JobsTyped

(* A step that touches neither the list nor the handlers. *)
LEMMA ListSame ==
  ASSUME Typed, Reaping, UNCHANGED <<jobs, stack>>, NotYetListed',
         \A p \in Pids : proc'[p] = "reaped" => proc[p] = "reaped"
  PROVE  Reaping'
BY ReapingSame, ListedPids DEF Typed

(* The end of the shell. *)
LEMMA EndReaping == ASSUME Typed, Reaping, NEW how, End(how) PROVE Reaping'
<1>1. NotYetListed'
  BY DEF End, mainVars, procVars, NotYetListed, Reaping
<1> QED BY <1>1, ListSame DEF End, procVars

(* main lists the child while it is not reaped. *)
LEMMA MainReaping ==
  ASSUME ChldMasked, IInv, Typed, Reaping, MainStep
  PROVE  Reaping'
<1>1. CASE Leave
  BY <1>1, EndReaping DEF Leave
<1>2. CASE \E p \in Pids : Fork(p)
  <2>1. PICK p \in Pids : Fork(p)
    BY <1>2
  <2>2. \A q \in Pids : proc'[q] = IF q = p THEN "running" ELSE proc[q]
    BY <2>1 DEF Fork, Typed, ProcTyped
  <2>3. local'.pid = p /\ stack = <<>> /\ stack' = stack /\ "CHLD" \in blocked'
    BY <2>1 DEF Fork, MainRuns, Typed, MainTyped, ChldMasked
  <2>4. NotYetListed'
    BY <2>2, <2>3 DEF NotYetListed
  <2> QED BY <2>1, <2>2, <2>4, ListSame DEF Fork
<1>3. CASE \E bg \in BOOLEAN : AddJob(bg)
  <2>1. PICK bg \in BOOLEAN : AddJob(bg)
    BY <1>3
  <2>2. pc = "forked" /\ stack = <<>> /\ UNCHANGED <<proc, stack>> /\ pc' = "added"
    BY <2>1 DEF AddJob, MainRuns, procVars
  <2>3. proc[local.pid] # "reaped"
    BY <2>2 DEF Reaping, NotYetListed
  <2>4. \A j \in Slots : jobs'[j] = jobs[j] \/ jobs'[j].pid = local.pid
    <3>1. CASE UNCHANGED jobVars
      BY <3>1 DEF jobVars
    <3>2. CASE \E i, n, st : jobs' = [jobs EXCEPT ![i] = [pid |-> local.pid, jid |-> n, state |-> st]]
      BY <3>2 DEF Typed, JobsTyped
    <3> QED BY <2>1, <3>1, <3>2 DEF AddJob, addjob
  <2> QED BY <2>2, <2>3, <2>4 DEF Reaping, NotYetListed, JobsAreLive
<1>4. CASE Unblock \/ WaitFg \/ WaitOver \/ \E named \in {"jid", "pid"}, bg \in BOOLEAN : FindJob(named, bg)
  <2>1. UNCHANGED <<jobs, stack, proc>> /\ pc' # "forked"
    BY <1>4 DEF Unblock, WaitFg, WaitOver, FindJob, Prompt, procVars
  <2> QED BY <2>1, ListSame DEF NotYetListed
<1>5. CASE SendCont
  <2>1. CASE End("kill error")
    BY <2>1, EndReaping
  <2>2. CASE (\E S : Continue(S)) /\ pc' = "continued" /\ UNCHANGED <<jobs, stack>>
    <3>1. \A q \in Pids : proc'[q] = "reaped" => proc[q] = "reaped"
      BY <2>2 DEF Continue
    <3> QED BY <2>2, <3>1, ListSame DEF NotYetListed
  <2> QED BY <1>5, <2>1, <2>2 DEF SendCont
<1>6. CASE SetState
  <2>1. UNCHANGED <<stack, proc>> /\ pc' # "forked"
    BY <1>6 DEF SetState, Prompt, procVars
  <2>2. \A j \in Slots : jobs'[j].pid = jobs[j].pid
    BY <1>6 DEF SetState, setstate, Typed, JobsTyped
  <2> QED BY <2>1, <2>2, ReapingSame, ListedPids DEF Typed, NotYetListed
<1> QED BY <1>1, <1>2, <1>3, <1>4, <1>5, <1>6 DEF MainStep

(* A handler keeps NotYetListed when it is no SIGCHLD handler. *)
LEMMA UnlistedKept ==
  ASSUME IInv, Reaping, UNCHANGED mainVars, NEW f, f.sig # "CHLD", FramesFrom(f),
         \A p \in Pids : proc'[p] = "reaped" => proc[p] = "reaped"
  PROVE  NotYetListed'
<1> SUFFICES ASSUME pc' = "forked" PROVE NotYetListed'
  BY DEF NotYetListed
<1>1. pc = "forked" /\ local' = local /\ blocked' = blocked /\ local.pid \in Pids
  BY DEF mainVars, IInv, Forked
<1>2. \A k \in DOMAIN stack' : stack'[k].sig # "CHLD"
  BY <1>1 DEF Reaping, NotYetListed, FramesFrom
<1> QED BY <1>1, <1>2 DEF Reaping, NotYetListed

(* The SIGINT and SIGTSTP handlers. *)
LEMMA SignalReaping ==
  ASSUME IInv, Typed, Reaping, ReadFgpid \/ ForwardSignal
  PROVE  Reaping'
<1>0. stack \in Seq(Frames)
  BY DEF Typed, StackTyped
<1>1. /\ stack # <<>> /\ Head(stack) = stack[1] /\ stack[1].at # "delete"
      /\ stack[1].sig \in {"INT", "TSTP"} /\ 1 \in DOMAIN stack
  <2>1. PICK at \in {"start", "kill"} : Running({"INT", "TSTP"}, at)
    BY DEF ReadFgpid, ForwardSignal
  <2> QED BY <1>0, <2>1, RunningHead
<1>2. CASE End("kill error in handler")
  BY <1>2, EndReaping
<1>3. ASSUME Return, UNCHANGED <<jobs, mainVars>>,
             \A p \in Pids : proc'[p] = "reaped" => proc[p] = "reaped"
      PROVE  Reaping'
  <2>1. FramesFrom(stack[1]) /\ FramesStay
    BY <1>0, <1>1, <1>3, Pop
  <2>2. NotYetListed'
    BY <1>1, <1>3, <2>1, UnlistedKept
  <2> QED BY <1>1, <1>3, <2>1, <2>2, ReapingSame, ListedPids DEF FramesStay, Typed
<1>4. CASE ReadFgpid
  <2>1. UNCHANGED <<jobs, mainVars, proc>>
    BY <1>4 DEF ReadFgpid, procVars
  <2>2. CASE fgpid = 0
    BY <1>3, <1>4, <2>1, <2>2 DEF ReadFgpid
  <2>3. CASE fgpid # 0
    <3> DEFINE f == Frame(Head(stack).sig, "kill", fgpid)
    <3>1. f \in Frames /\ f.sig # "CHLD"
      BY <1>1, <2>3, FgpidOK, FrameOK DEF Typed, Signals
    <3>2. GoTo(f)
      BY <1>4, <2>3 DEF ReadFgpid
    <3> HIDE DEF f
    <3>3. FramesFrom(f) /\ FramesStay
      BY <1>0, <1>1, <3>1, <3>2, NewHead
    <3>4. NotYetListed'
      BY <2>1, <3>1, <3>3, UnlistedKept
    <3> QED BY <1>1, <2>1, <3>3, <3>4, ReapingSame, ListedPids DEF FramesStay, Typed
  <2> QED BY <2>2, <2>3
<1>5. CASE /\ Forward(Head(stack).sig, Head(stack).pid) /\ Return
           /\ UNCHANGED <<jobs, nextjid, mainVars, ended>>
  <2>1. \A g : InGroup(g) \subseteq Pids
    BY DEF InGroup, Children
  <2>2. \A p \in Pids : proc'[p] = "reaped" => proc[p] = "reaped"
    BY <1>5, <2>1, NobodyReaped DEF Forward, Typed, procVars
  <2> QED BY <1>3, <1>5, <2>2
<1> QED BY <1>2, <1>4, <1>5 DEF ForwardSignal

(* The SIGCHLD handler reaps a child and then deletes its entry. *)
LEMMA ChldReaping ==
  ASSUME IInv, Typed, Reaping, WaitPid \/ DeleteJob \/ MarkStopped
  PROVE  Reaping'
<1>0. stack \in Seq(Frames) /\ "CHLD" \in Signals
  BY DEF Typed, StackTyped, Signals
<1>1. /\ stack # <<>> /\ 1 \in DOMAIN stack /\ Head(stack) = stack[1] /\ stack[1] \in Frames
      /\ stack[1].sig = "CHLD"
      /\ WaitPid => stack[1].at = "start"
      /\ DeleteJob => stack[1].at = "delete"
      /\ MarkStopped => stack[1].at = "stop"
  BY <1>0, RunningHead DEF WaitPid, DeleteJob, MarkStopped
<1>2. pc # "forked"
  BY <1>1 DEF Reaping, NotYetListed
<1>3. UNCHANGED mainVars => NotYetListed'
  BY <1>2 DEF mainVars, NotYetListed
<1>4. CASE WaitPid
  <2>1. UNCHANGED <<jobs, mainVars>>
    BY <1>4 DEF WaitPid
  <2>2. CASE Return /\ UNCHANGED procVars
    BY <1>0, <1>1, <1>3, <1>4, <2>1, <2>2, Pop, ReapingSame, ListedPids DEF FramesStay, Typed, procVars
  <2>3. CASE \E p \in Reportable :
             /\ proc' = IF proc[p] = "zombie" THEN [proc EXCEPT ![p] = "reaped"] ELSE proc
             /\ GoTo(Frame("CHLD", IF proc[p] = "zombie" THEN "delete" ELSE "stop", p))
    <3>1. PICK p \in Reportable :
             /\ proc' = IF proc[p] = "zombie" THEN [proc EXCEPT ![p] = "reaped"] ELSE proc
             /\ GoTo(Frame("CHLD", IF proc[p] = "zombie" THEN "delete" ELSE "stop", p))
      BY <2>3
    <3> DEFINE at == IF proc[p] = "zombie" THEN "delete" ELSE "stop"
               f == Frame("CHLD", at, p)
    <3>2. p \in Pids
      BY DEF Reportable, Children
    <3>3. f \in Frames /\ f.at = at /\ f.pid = p
      BY <1>0, <3>2, FrameOK
    <3>4. GoTo(f)
      BY <3>1
    <3> HIDE DEF f
    <3>5. FramesStay /\ \E k \in DOMAIN stack' : stack'[k] = f
      BY <1>0, <1>1, <3>3, <3>4, NewHead
    <3>6. \A q \in Pids : proc'[q] = IF q = p /\ proc[p] = "zombie" THEN "reaped" ELSE proc[q]
      BY <3>1, <3>2 DEF Typed, ProcTyped
    <3>7. JobsAreLive'
      <4> SUFFICES ASSUME NEW j \in Slots, jobs'[j].pid # 0, proc'[jobs'[j].pid] = "reaped"
                   PROVE  \E k \in DOMAIN stack' : stack'[k].at = "delete" /\ stack'[k].pid = jobs'[j].pid
        BY DEF JobsAreLive
      <4>1. jobs'[j] = jobs[j] /\ jobs[j].pid \in Pids
        BY <2>1, ListedPids DEF Typed
      <4>2. CASE jobs[j].pid = p /\ proc[p] = "zombie"
        BY <3>3, <3>5, <4>1, <4>2
      <4>3. CASE proc[jobs[j].pid] = "reaped"
        <5>1. PICK i \in DOMAIN stack : stack[i].at = "delete" /\ stack[i].pid = jobs[j].pid
          BY <4>1, <4>3 DEF Reaping, JobsAreLive
        <5>2. i # 1
          BY <1>1, <1>4, <5>1
        <5> QED BY <3>5, <4>1, <5>1, <5>2 DEF FramesStay
      <4> QED BY <3>6, <4>1, <4>2, <4>3
    <3> QED BY <1>3, <2>1, <3>7 DEF Reaping
  <2> QED BY <1>4, <2>2, <2>3 DEF WaitPid
<1>5. CASE DeleteJob \/ MarkStopped
  <2> DEFINE f == Frame("CHLD", "start", 0)
  <2>1. f \in Frames
    BY <1>0, FrameOK
  <2> HIDE DEF f
  <2>2. ASSUME GoTo(f) PROVE FramesStay
    BY <1>0, <1>1, <2>1, <2>2, NewHead
  <2>3. CASE DeleteJob
    <3>1. GoTo(f) /\ UNCHANGED <<mainVars, proc>>
      BY <2>3 DEF DeleteJob, procVars, f
    <3>2. \A j \in Slots : jobs'[j].pid # 0 => jobs'[j] = jobs[j] /\ jobs[j].pid # stack[1].pid
      <4> DEFINE pid == stack[1].pid
                 s == getjobpid(pid)
      <4>1. \A j \in Slots : jobs[j].pid # 0 /\ jobs[j].pid = pid => s = j
        BY GetJobPid
      <4>2. deletejob(pid)
        BY <1>1, <2>3 DEF DeleteJob
      <4>3. CASE s = NULL
        <5>1. jobs' = jobs
          BY <4>2, <4>3 DEF deletejob, jobVars
        <5> QED BY <4>1, <4>3, <5>1, SlotFacts
      <4>4. CASE s # NULL
        <5>1. jobs' = [jobs EXCEPT ![s] = clearjob]
          BY <4>2, <4>4 DEF deletejob
        <5> HIDE DEF s
        <5>2. \A j \in Slots : jobs'[j] = IF j = s THEN clearjob ELSE jobs[j]
          BY <5>1 DEF Typed, JobsTyped
        <5> QED BY <4>1, <5>2 DEF clearjob
      <4> QED BY <4>3, <4>4
    <3>3. JobsAreLive'
      <4> SUFFICES ASSUME NEW j \in Slots, jobs'[j].pid # 0, proc'[jobs'[j].pid] = "reaped"
                   PROVE  \E k \in DOMAIN stack' : stack'[k].at = "delete" /\ stack'[k].pid = jobs'[j].pid
        BY DEF JobsAreLive
      <4>1. PICK i \in DOMAIN stack : stack[i].at = "delete" /\ stack[i].pid = jobs[j].pid
        BY <3>1, <3>2 DEF Reaping, JobsAreLive
      <4> QED BY <2>2, <3>1, <3>2, <4>1 DEF FramesStay
    <3> QED BY <1>3, <3>1, <3>3 DEF Reaping
  <2>4. CASE MarkStopped
    <3>1. CASE End("segfault")
      BY <3>1, EndReaping
    <3>2. CASE GoTo(f) /\ (\E s : setstate(s, "ST")) /\ UNCHANGED <<mainVars, procVars>>
      <4>1. \A j \in Slots : jobs'[j].pid = jobs[j].pid
        BY <3>2 DEF setstate, Typed, JobsTyped
      <4> QED BY <1>1, <1>3, <2>2, <2>4, <3>2, <4>1, ReapingSame, ListedPids DEF FramesStay, Typed, procVars
    <3> QED BY <2>4, <3>1, <3>2 DEF MarkStopped, f
  <2> QED BY <1>5, <2>3, <2>4
<1> QED BY <1>4, <1>5

(* Every step keeps this if SIGCHLD is blocked. *)
LEMMA ReapingInduction ==
  ASSUME ChldMasked
  PROVE  IInv /\ Typed /\ Reaping /\ [Next]_vars => Reaping'
<1> SUFFICES ASSUME IInv, Typed, Reaping, [Next]_vars PROVE Reaping'
  OBVIOUS
<1>1. CASE MainStep
  BY <1>1, MainReaping
<1>2. CASE HandlerStep
  BY <1>2, SignalReaping, ChldReaping DEF HandlerStep
<1>3. CASE \E sig \in Signals : Deliver(sig)
  <2>1. PICK sig \in Signals : Deliver(sig)
    BY <1>3
  <2> DEFINE f == Frame(sig, "start", 0)
  <2>2. f \in Frames /\ f.sig = sig
    BY FrameOK
  <2>3. stack' = <<f>> \o stack /\ UNCHANGED <<jobs, mainVars, procVars>> /\ sig \notin blocked
    BY <2>1 DEF Deliver
  <2> HIDE DEF f
  <2>4. FramesFrom(f) /\ \A j \in DOMAIN stack : \E k \in DOMAIN stack' : stack'[k] = stack[j]
    BY <2>2, <2>3, Push DEF Typed, StackTyped
  <2>5. NotYetListed'
    <3>1. CASE sig = "CHLD"
      BY <2>3, <3>1 DEF Reaping, NotYetListed, mainVars
    <3>2. CASE sig # "CHLD"
      BY <2>2, <2>3, <2>4, <3>2, UnlistedKept DEF procVars
    <3> QED BY <3>1, <3>2
  <2> QED BY <2>3, <2>4, <2>5, ReapingSame, ListedPids DEF Typed, procVars
<1>4. CASE \E p \in Pids : Child(p)
  <2>1. PICK p \in Pids : Child(p)
    BY <1>4
  <2>2. UNCHANGED <<jobs, mainVars, stack>>
    BY <2>1 DEF Child
  <2>3. \A q \in Pids : proc'[q] = "reaped" => proc[q] = "reaped"
    BY <2>1, NobodyReaped DEF Child, Die, Typed
  <2>4. NotYetListed'
    BY <2>2, <2>3 DEF Reaping, NotYetListed, mainVars, IInv, Forked
  <2> QED BY <2>2, <2>3, <2>4, ListSame
<1>5. CASE (\E sig \in Keys \ {"QUIT"} : Key(sig)) \/ UNCHANGED vars
  <2>1. UNCHANGED <<jobs, mainVars, stack, proc>>
    BY <1>5 DEF Key, vars, mainVars, procVars
  <2>2. NotYetListed'
    BY <2>1 DEF Reaping, NotYetListed, mainVars
  <2> QED BY <2>1, <2>2, ListSame
<1>6. CASE Quit
  BY <1>6, EndReaping DEF Quit
<1> QED BY <1>1, <1>2, <1>3, <1>4, <1>5, <1>6 DEF Next

(* Every variable keeps its type: no entry names a process that is not a   *)
(* child, and the entries that do_bgfg and waitfg go by are in the table.  *)
THEOREM ShellTypes == Spec => []TypeOK
<1>1. Spec => [](IInv /\ Typed)
  BY InitOK, InitTyped, Induction, TypedInduction, PTL DEF Spec
<1> QED BY <1>1, TypedImplies, PTL

(* ctrl-c and ctrl-z never reach a job that is in the background, for any  *)
(* job list and mask, however the handlers nest.                           *)
THEOREM SignalsSpare == Spec => []SignalsSpareBackground
<1>1. Init => Kills
  BY DEF Init, Kills, SignalsSpareBackground
<1>2. Kills => SignalsSpareBackground
  BY DEF Kills
<1> QED BY <1>1, <1>2, InitOK, InitTyped, Induction, TypedInduction, KillsInduction, PTL DEF Spec

(* If eval blocks SIGCHLD the list never names a process that has been     *)
(* reaped, but for the entry that the handler is about to delete.  With a  *)
(* mask that leaves SIGCHLD out it may: addjob then comes after deletejob. *)
THEOREM ListIsLive ==
  ASSUME ChldMasked
  PROVE  Spec => []JobsAreLive
<1>1. Init => Reaping
  BY DEF Init, JobInit, initjobs, clearjob, Reaping, NotYetListed, JobsAreLive
<1>2. Reaping => JobsAreLive
  BY DEF Reaping
<1>3. IInv /\ Typed /\ Reaping /\ [Next]_vars => Reaping'
  BY ReapingInduction
<1> QED BY <1>1, <1>2, <1>3, InitOK, InitTyped, Induction, TypedInduction, PTL DEF Spec
=============================================================================
