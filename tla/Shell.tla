-------------------------------- MODULE Shell --------------------------------
(***************************************************************************)
(* The shell of shlab/tsh.c with its children and its signals.             *)
(*                                                                         *)
(* main runs eval, which forks and adds jobs with some signals blocked,    *)
(* and do_bgfg and waitfg; the SIGCHLD, SIGINT and SIGTSTP handlers        *)
(* interrupt it, and each other, at any point; children change process     *)
(* group, stop, continue and die on their own.                             *)
(*                                                                         *)
(* eval reads argv before parseline fills it and blocks the signals of a   *)
(* sigset_t that it never initialises.  What argv names is therefore       *)
(* independent of the line that was typed, and the mask is any member of   *)
(* Masks.  The loop of waitfg reads a plain variable that only a handler   *)
(* changes: compiled with -O2, as the Makefile does, the read is hoisted   *)
(* out of the loop.                                                        *)
(***************************************************************************)
EXTENDS JobList, Sequences

CONSTANTS
  Masks,       \* values the uninitialised mask of eval may have
  Keys,        \* signals the user sends: INT for ctrl-c, TSTP for ctrl-z, QUIT
  Early,       \* TRUE if a child can be killed or stopped before its setpgid
  Hoisted      \* whether the loop of waitfg keeps its first reading of state

Signals == {"CHLD", "INT", "TSTP"}

ASSUME ShellAssumption ==
  /\ Masks \subseteq SUBSET Signals
  /\ Keys \subseteq {"INT", "TSTP", "QUIT"}
  /\ Early \in BOOLEAN
  /\ Hoisted \subseteq BOOLEAN

VARIABLES
  pc,          \* where main is
  local,       \* main's locals: pid, slot (jb or job), bg, and how bg/fg named the job
  blocked,     \* main's signal mask
  pending,     \* signals sent to the shell and not yet delivered
  stack,       \* active handlers, the innermost first
  proc,        \* what each child is doing
  group,       \* its process group: the shell's, until setpgid
  unseen,      \* a stop that waitpid has not reported yet
  ended        \* "no", or how the shell ended

mainVars == <<pc, local, blocked>>
procVars == <<proc, group, unseen>>
vars     == <<jobs, nextjid, pc, local, blocked, pending, stack, proc, group, unseen, ended>>

NoLocals == [pid |-> 0, slot |-> NULL, bg |-> FALSE, named |-> "pid"]
Frame(sig, at, pid) == [sig |-> sig, at |-> at, pid |-> pid]
MainRuns   == ended = "no" /\ stack = <<>>
End(how)   == /\ ended' = how
              /\ UNCHANGED <<jobs, nextjid, mainVars, pending, stack, procVars>>
Children   == {p \in Pids : proc[p] \in {"running", "stopped", "zombie"}}
InGroup(g) == IF g = 0 THEN {p \in Children : group[p] = "shell"}
                       ELSE {p \in Children : p = g /\ group[p] = "own"}
-----------------------------------------------------------------------------
(* kill(-g, sig), and g = 0 for the shell's own group.  A child may catch  *)
(* or ignore SIGINT and SIGTSTP; a stopped one keeps SIGINT for later.     *)
CanKill(g) == g = 0 \/ InGroup(g) # {}

Continue(S) ==
  LET T == {p \in S : proc[p] = "stopped"}
  IN  /\ proc' = [p \in Pids |-> IF p \in T THEN "running" ELSE proc[p]]
      /\ unseen' = unseen \ T
      /\ pending' = IF T = {} THEN pending ELSE pending \cup {"CHLD"}
      /\ UNCHANGED group

StopChild(p) ==
  /\ proc[p] = "running"
  /\ proc' = [proc EXCEPT ![p] = "stopped"]
  /\ unseen' = unseen \cup {p}
  /\ pending' = pending \cup {"CHLD"}
  /\ UNCHANGED group

KillChild(p) ==
  /\ proc' = [proc EXCEPT ![p] = "zombie"]
  /\ unseen' = unseen \ {p}
  /\ pending' = pending \cup {"CHLD"}
  /\ UNCHANGED group

Forward(sig, g) ==
  \/ UNCHANGED <<procVars, pending>>
  \/ \E p \in InGroup(g) : IF sig = "TSTP" THEN StopChild(p)
                                           ELSE proc[p] = "running" /\ KillChild(p)
-----------------------------------------------------------------------------
(* main and eval.  A NULL argv[0], the jobs command, and a bg or fg whose  *)
(* argument is missing, malformed or unknown leave the state unchanged.    *)
Init ==
  /\ JobInit
  /\ pc = "read" /\ local = NoLocals
  /\ blocked = {} /\ pending = {} /\ stack = <<>>
  /\ proc = [p \in Pids |-> "unused"] /\ group = [p \in Pids |-> "shell"] /\ unseen = {}
  /\ ended = "no"

(* eval returns to the prompt. *)
Prompt == pc' = "read" /\ local' = NoLocals

(* quit, end of file or a fork that fails; or a stray argv[0]. *)
Leave ==
  /\ MainRuns /\ pc = "read"
  /\ \E how \in {"exit", "segfault"} : End(how)

(* sigquit_handler, which may interrupt anything. *)
Quit == "QUIT" \in Keys /\ ended = "no" /\ End("exit")

\* Mutant: nothing is blocked across fork and addjob.
Fork_Unmasked(p) ==
  /\ MainRuns /\ pc = "read"
  /\ p = First({q \in Pids : proc[q] = "unused"})
  /\ proc' = [proc EXCEPT ![p] = "running"]
  /\ pc' = "forked"
  /\ local' = [local EXCEPT !.pid = p]
  /\ UNCHANGED <<jobs, nextjid, blocked, pending, stack, group, unseen, ended>>

Fork(p) ==
  /\ MainRuns /\ pc = "read"
  /\ p = First({q \in Pids : proc[q] = "unused"})
  /\ proc' = [proc EXCEPT ![p] = "running"]
  /\ \E m \in Masks : blocked' = m
  /\ pc' = "forked"
  /\ local' = [local EXCEPT !.pid = p]
  /\ UNCHANGED <<jobs, nextjid, pending, stack, group, unseen, ended>>

(* parseline on the line itself decides between BG and FG. *)
AddJob(bg) ==
  /\ MainRuns /\ pc = "forked"
  /\ addjob(local.pid, IF bg THEN "BG" ELSE "FG")
  /\ pc' = "added"
  /\ local' = [local EXCEPT !.bg = bg]
  /\ UNCHANGED <<blocked, pending, stack, procVars, ended>>

Unblock ==
  /\ MainRuns /\ pc = "added"
  /\ blocked' = {}
  /\ \/ local.bg /\ Prompt
     \/ ~local.bg /\ pc' = "waitfg" /\ UNCHANGED local
  /\ UNCHANGED <<jobs, nextjid, pending, stack, procVars, ended>>

(* do_bgfg: find the job by jid or by pid, continue its group, then set    *)
(* its state.  With %jid, pid is read through jb only after the look-up.   *)
FindJob(named, bg) ==
  /\ MainRuns /\ pc = "read"
  /\ \E i \in Slots :
       /\ jobs[i].pid # 0
       /\ LET slot == IF named = "jid" THEN getjobjid(jobs[i].jid) ELSE i
          IN  local' = [pid |-> jobs[slot].pid, slot |-> slot, bg |-> bg, named |-> named]
  /\ pc' = "found"
  /\ UNCHANGED <<jobs, nextjid, blocked, pending, stack, procVars, ended>>

SendCont ==
  LET pid == IF local.named = "jid" THEN jobs[local.slot].pid ELSE local.pid
  IN  /\ MainRuns /\ pc = "found"
      /\ \/ /\ ~CanKill(pid)
            /\ End("kill error")
         \/ /\ CanKill(pid)
            /\ Continue(InGroup(pid))
            /\ pc' = "continued"
            /\ UNCHANGED <<jobs, nextjid, local, blocked, stack, ended>>

\* Mutant: fg does not wait for the job.
SetState_NoWait ==
  /\ MainRuns /\ pc = "continued"
  /\ setstate(local.slot, IF local.bg THEN "BG" ELSE "FG")
  /\ Prompt
  /\ UNCHANGED <<nextjid, blocked, pending, stack, procVars, ended>>

SetState ==
  /\ MainRuns /\ pc = "continued"
  /\ setstate(local.slot, IF local.bg THEN "BG" ELSE "FG")
  /\ \/ local.bg /\ Prompt
     \/ /\ ~local.bg /\ pc' = "waitfg"
        /\ local' = [local EXCEPT !.pid = jobs[local.slot].pid]
  /\ UNCHANGED <<nextjid, blocked, pending, stack, procVars, ended>>

(* waitfg: find the entry, then read its state until it is no longer FG,   *)
(* or only once.                                                           *)
WaitFg ==
  LET slot == getjobpid(local.pid)
  IN  /\ MainRuns /\ pc = "waitfg"
      /\ \/ /\ slot # NULL => jobs[slot].state # "FG"
            /\ Prompt
         \/ /\ slot # NULL /\ jobs[slot].state = "FG"
            /\ \E h \in Hoisted : pc' = IF h THEN "spinning" ELSE "waiting"
            /\ local' = [local EXCEPT !.slot = slot]
      /\ UNCHANGED <<jobs, nextjid, blocked, pending, stack, procVars, ended>>

WaitOver ==
  /\ MainRuns /\ pc = "waiting"
  /\ jobs[local.slot].state # "FG"
  /\ Prompt
  /\ UNCHANGED <<jobs, nextjid, blocked, pending, stack, procVars, ended>>
-----------------------------------------------------------------------------
(* The signal handlers.  A handler blocks its own signal only. *)
Deliver(sig) ==
  /\ ended = "no"
  /\ sig \in pending \ blocked
  /\ \A i \in DOMAIN stack : stack[i].sig # sig
  /\ pending' = pending \ {sig}
  /\ stack' = <<Frame(sig, "start", 0)>> \o stack
  /\ UNCHANGED <<jobs, nextjid, mainVars, procVars, ended>>

Running(sigs, at) ==
  /\ ended = "no"
  /\ stack # <<>>
  /\ Head(stack).sig \in sigs /\ Head(stack).at = at

Return   == stack' = Tail(stack)
GoTo(f)  == stack' = <<f>> \o Tail(stack)

(* sigint_handler and sigtstp_handler. *)
ReadFgpid ==
  /\ Running({"INT", "TSTP"}, "start")
  /\ IF fgpid = 0 THEN Return ELSE GoTo(Frame(Head(stack).sig, "kill", fgpid))
  /\ UNCHANGED <<jobs, nextjid, mainVars, pending, procVars, ended>>

ForwardSignal ==
  /\ Running({"INT", "TSTP"}, "kill")
  /\ \/ /\ ~CanKill(Head(stack).pid)
        /\ End("kill error in handler")
     \/ /\ CanKill(Head(stack).pid)
        /\ Forward(Head(stack).sig, Head(stack).pid)
        /\ Return
        /\ UNCHANGED <<jobs, nextjid, mainVars, ended>>

\* Mutant: waitpid without WUNTRACED.
Reportable_Ended ==
  {p \in Children : /\ IF fgpid = 0 THEN group[p] = "shell" ELSE p = fgpid
                    /\ proc[p] = "zombie"}

(* sigchld_handler: waitpid(fgpid(jobs)) waits for the foreground job, or, *)
(* when there is none, for a child in the shell's own process group.       *)
Reportable ==
  {p \in Children : /\ IF fgpid = 0 THEN group[p] = "shell" ELSE p = fgpid
                    /\ proc[p] = "zombie" \/ p \in unseen}

WaitPid ==
  /\ Running({"CHLD"}, "start")
  /\ \/ /\ Reportable = {}
        /\ Return
        /\ UNCHANGED procVars
     \/ \E p \in Reportable :
          /\ proc' = IF proc[p] = "zombie" THEN [proc EXCEPT ![p] = "reaped"] ELSE proc
          /\ unseen' = unseen \ {p}
          /\ GoTo(Frame("CHLD", IF proc[p] = "zombie" THEN "delete" ELSE "stop", p))
          /\ UNCHANGED group
  /\ UNCHANGED <<jobs, nextjid, mainVars, pending, ended>>

DeleteJob ==
  /\ Running({"CHLD"}, "delete")
  /\ deletejob(Head(stack).pid)
  /\ GoTo(Frame("CHLD", "start", 0))
  /\ UNCHANGED <<mainVars, pending, procVars, ended>>

(* The entry of a stopped child is not checked for NULL. *)
MarkStopped ==
  LET slot == getjobpid(Head(stack).pid)
  IN  /\ Running({"CHLD"}, "stop")
      /\ \/ slot = NULL /\ End("segfault")
         \/ /\ slot # NULL
            /\ setstate(slot, "ST")
            /\ GoTo(Frame("CHLD", "start", 0))
            /\ UNCHANGED <<nextjid, mainVars, pending, procVars, ended>>
-----------------------------------------------------------------------------
(* The children, the keyboard and the outside world. *)
SetPgid(p) ==
  /\ proc[p] = "running" /\ group[p] = "shell"
  /\ group' = [group EXCEPT ![p] = "own"]
  /\ UNCHANGED <<proc, unseen, pending>>

Die(p) == proc[p] \in {"running", "stopped"} /\ KillChild(p)

Child(p) ==
  /\ ended = "no"
  /\ \/ SetPgid(p)
     \/ (Early \/ group[p] = "own") /\ (Die(p) \/ StopChild(p))
     \/ proc[p] = "stopped" /\ Continue({p})
  /\ UNCHANGED <<jobs, nextjid, mainVars, stack, ended>>

Key(sig) ==
  /\ ended = "no"
  /\ sig \notin pending
  /\ pending' = pending \cup {sig}
  /\ UNCHANGED <<jobs, nextjid, mainVars, stack, procVars, ended>>

MainStep ==
  \/ Leave
  \/ \E p \in Pids : Fork(p)
  \/ \E bg \in BOOLEAN : AddJob(bg)
  \/ Unblock
  \/ \E named \in {"jid", "pid"}, bg \in BOOLEAN : FindJob(named, bg)
  \/ SendCont \/ SetState
  \/ WaitFg \/ WaitOver

HandlerStep == ReadFgpid \/ ForwardSignal \/ WaitPid \/ DeleteJob \/ MarkStopped

Next ==
  \/ MainStep
  \/ Quit
  \/ \E sig \in Signals : Deliver(sig)
  \/ HandlerStep
  \/ \E p \in Pids : Child(p)
  \/ \E sig \in Keys \ {"QUIT"} : Key(sig)

Spec == Init /\ [][Next]_vars

(* The kernel runs the shell and delivers its signals.  Code that keeps    *)
(* being interrupted still goes on, hence strong fairness, of each handler *)
(* by itself: signals come at a finite rate.  The user need not type       *)
(* anything, nor a child end.                                              *)
MainGoesOn ==
  \/ \E bg \in BOOLEAN : AddJob(bg)
  \/ Unblock \/ SendCont \/ SetState \/ WaitFg \/ WaitOver

Fairness ==
  /\ SF_vars(MainGoesOn)
  /\ WF_vars(Deliver("CHLD"))
  /\ \A sig \in Signals : SF_vars(HandlerStep /\ Head(stack).sig = sig)

FairSpec == Spec /\ Fairness
-----------------------------------------------------------------------------
(* Properties. *)

(* Every variable has its type: in particular no entry names a process     *)
(* that is not a child, and main only ever holds slots of the table.       *)
TypeOK ==
  /\ jobs \in [Slots -> [pid : Pids \cup {0}, jid : Nat, state : JobStates]]
  /\ nextjid \in Nat \ {0}
  /\ pc \in {"read", "forked", "added", "found", "continued", "waitfg", "waiting", "spinning"}
  /\ local \in [pid : Pids \cup {0}, slot : Slots \cup {NULL}, bg : BOOLEAN,
                named : {"pid", "jid"}]
  /\ blocked \subseteq Signals /\ pending \subseteq Signals
  /\ \A i \in DOMAIN stack :
       stack[i] \in [sig : Signals, at : {"start", "kill", "delete", "stop"},
                    pid : Pids \cup {0}]
  /\ proc \in [Pids -> {"unused", "running", "stopped", "zombie", "reaped"}]
  /\ group \in [Pids -> {"shell", "own"}] /\ unseen \subseteq Pids
  /\ ended \in {"no", "exit", "segfault", "kill error", "kill error in handler"}

(* "At most 1 job can be in the FG state", and more: a job in the FG state *)
(* is the one main is starting or waiting for, so that the shell never     *)
(* prompts while a job is in the foreground, whatever the handlers do.     *)
ForegroundIsWaitedFor ==
  \A i \in Slots : jobs[i].pid # 0 /\ jobs[i].state = "FG" =>
    /\ pc \in {"added", "waitfg", "waiting", "spinning"}
    /\ jobs[i].pid = local.pid

(* ctrl-c and ctrl-z spare background jobs: between the call of fgpid and  *)
(* kill, the job may be stopped or reaped by a nested SIGCHLD handler, but *)
(* it is never one that has been put in the background.                    *)
SignalsSpareBackground ==
  \A i \in DOMAIN stack, j \in Slots :
    stack[i].at = "kill" /\ jobs[j].pid = stack[i].pid => jobs[j].state # "BG"

(* The list never names a process that has been reaped, except while the   *)
(* handler that reaped it is about to delete the entry.  This is what      *)
(* "block the signal SIGCHLD" between fork and addjob is for.              *)
JobsAreLive ==
  \A i \in Slots : jobs[i].pid # 0 /\ proc[jobs[i].pid] = "reaped" =>
    \E k \in DOMAIN stack : stack[k].at = "delete" /\ stack[k].pid = jobs[i].pid

(* waitfg "blocks until process pid is no longer the foreground process":  *)
(* once it waits for a process that runs and that fgpid names, either it   *)
(* returns or the process runs on for ever, if nobody outside the shell    *)
(* continues stopped children again and again.  fgpid may name another: fg *)
(* on a job that the handler deletes meanwhile leaves FG in a free entry,  *)
(* and if that comes before the job's own, fgpid is 0.                     *)
Waits == ended = "no" /\ pc \in {"waiting", "spinning"}
Runs  == Waits /\ proc[local.pid] = "running"
Continued == \E p \in Pids : proc[p] = "stopped" /\ proc'[p] = "running"

WaitReturns ==
  <>[][~Continued]_proc => (Runs /\ fgpid = local.pid ~> (~Waits \/ []Runs))

(* The same of a process that has ended: waitfg returns.  It does not when *)
(* the process ended in the background: its SIGCHLD has been handled, by a *)
(* waitpid for the foreground job, and kill accepts a zombie's group.      *)
FgReturns == Waits /\ proc[local.pid] = "zombie" ~> ~Waits

(* sigchld_handler "reaps all available zombie children": with no SIGCHLD  *)
(* pending and no handler running there is no zombie.  It reaps only the   *)
(* foreground job, so that a background job remains a zombie.              *)
ZombiesAreReaped ==
  ended = "no" /\ stack = <<>> /\ "CHLD" \notin pending =>
    \A p \in Pids : proc[p] # "zombie"

=============================================================================
