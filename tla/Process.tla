------------------------------ MODULE Process ------------------------------
(***************************************************************************)
(* Tasks from fork to waitpid: kernel/fork.c, kernel/exit.c, signal.c and   *)
(* the process groups of sys.c.                                             *)
(*                                                                         *)
(* A task runs in the kernel until it calls schedule(): a system call is    *)
(* one step up to there.  do_exit closes files and puts inodes away between *)
(* giving its children to init and becoming a zombie, and may sleep there:  *)
(* it is two steps.  A task that has been released is gone at once: release *)
(* calls schedule() when all that is left to do is to return two locals.    *)
(*                                                                         *)
(* All tasks run as the super-user, so send_sig is never refused.  Calls    *)
(* that change nothing (errors, WNOHANG with no zombie) are left out.       *)
(***************************************************************************)
EXTENDS Integers, FiniteSets, FiniteSetsExt

CONSTANTS NR_TASKS,
          MAX_PID,    \* the largest pid: last_pid goes on with 1 after it
          Signals,    \* the signals that are sent, caught and masked
          SIGHUP, SIGKILL, SIGCHLD,
          Masks,      \* bound: the masks of ssetmask and of sigaction
          Pids,       \* bound: the pids waitpid and kill are asked for
          MAX_GROUP,  \* bound: no process group above it is asked for
          MAX_CALLS,  \* bound: the calls that signal, mask, catch and regroup
          NULL

(* The fields of a task_struct.                                             *)
Struct == [pid : 1..MAX_PID, father : 0..MAX_PID, pgrp : Nat, session : Nat, leader : BOOLEAN,
           signal : SUBSET Signals, blocked : SUBSET Signals,
           sigaction : [Signals -> [handler : {"dfl", "ign", "once", "catch"}, mask : SUBSET Signals]]]

ASSUME ProcessAssumption ==
  /\ NULL \notin Struct /\ NULL \notin Nat
  /\ NR_TASKS \in Nat /\ NR_TASKS > 2
  /\ MAX_PID \in Nat /\ MAX_PID >= NR_TASKS
  /\ Signals \subseteq Nat /\ {SIGHUP, SIGCHLD} \subseteq Signals /\ SIGKILL \in Nat
  /\ Masks \subseteq SUBSET Signals
  /\ Pids \subseteq 1..MAX_PID /\ MAX_GROUP \in Nat /\ MAX_CALLS \in Nat

Slots == 1..(NR_TASKS - 1)    \* task[0] has pid 0 and only idles

VARIABLES task,      \* the task table: NULL, or the task_struct of the task there
          pc,        \* "user"; "wait", asleep in waitpid; "exit", closing its files
                     \* in do_exit; "zombie", TASK_ZOMBIE
          arg,       \* the pid argument of the waitpid a task is asleep in
          last_pid,
          child,     \* the pid init waits for; 0, it is about to fork; NULL, it is gone
          calls      \* how many calls that bound allows still

vars == <<task, pc, arg, last_pid, child, calls>>

Live(s) == task[s] # NULL
At(s, l) == Live(s) /\ pc[s] = l

(* A signal is ignored or dies by default, is caught once (sys_signal), or   *)
(* is caught with signals masked meanwhile (sys_sigaction).                  *)
Actions == {[handler |-> h, mask |-> {}] : h \in {"dfl", "ign", "once"}}
             \cup {[handler |-> "catch", mask |-> m] : m \in Masks}
Default == [handler |-> "dfl", mask |-> {}]

(* task[1], as task 0 has forked it.                                        *)
Init ==
  /\ task = [s \in Slots |-> IF s # 1 THEN NULL ELSE
       [pid |-> 1, father |-> 0, pgrp |-> 0, session |-> 0, leader |-> FALSE,
        signal |-> {}, blocked |-> {}, sigaction |-> [n \in Signals |-> Default]]]
  /\ pc = [s \in Slots |-> "user"]
  /\ arg = [s \in Slots |-> 0]
  /\ last_pid = 1
  /\ child = 0
  /\ calls = MAX_CALLS

-----------------------------------------------------------------------------
(* find_empty_process: the next pid no task has, and the first free slot.    *)
(* Steps(p) is how often last_pid is counted up until it is p.               *)
Steps(p) == IF p > last_pid THEN p - last_pid ELSE p - last_pid + MAX_PID
InUse(p) == \E s \in Slots : Live(s) /\ task[s].pid = p

find_pid_Unchecked == CHOOSE p \in 1..MAX_PID : Steps(p) = 1  \* defect: taken twice

find_pid == CHOOSE p \in 1..MAX_PID :
  ~InUse(p) /\ \A q \in 1..MAX_PID : ~InUse(q) => Steps(p) <= Steps(q)

FreeSlots == {s \in Slots : ~Live(s)}

copy_process(s) ==
  /\ At(s, "user")
  /\ last_pid' = find_pid
  /\ \/ /\ FreeSlots # {}
        /\ LET nr == Min(FreeSlots)
           IN /\ task' = [task EXCEPT ![nr] = [task[s] EXCEPT !.pid = last_pid',
                            !.father = task[s].pid, !.signal = {}, !.leader = FALSE]]
              /\ pc' = [pc EXCEPT ![nr] = "user"]
     \/ UNCHANGED <<task, pc>>           \* no slot, or no memory: -EAGAIN
  /\ UNCHANGED arg

-----------------------------------------------------------------------------
(* The task table once every task of S has got the signal sig.               *)
Signalled(t, S, sig) ==
  [s \in Slots |-> IF t[s] # NULL /\ s \in S THEN [t[s] EXCEPT !.signal = @ \cup {sig}]
                                             ELSE t[s]]

Adopted_Silent(s) ==  \* defect: init is not told of a zombie it has got
  [c \in Slots |-> IF Live(c) /\ task[c].father = task[s].pid
                   THEN [task[c] EXCEPT !.father = 1] ELSE task[c]]

Adopted_Running(s) ==  \* defect: only the zombies are given to init
  LET mine == {c \in Slots : At(c, "zombie") /\ task[c].father = task[s].pid}
      t == [c \in Slots |-> IF c \in mine THEN [task[c] EXCEPT !.father = 1] ELSE task[c]]
  IN IF mine # {} THEN Signalled(t, {1}, SIGCHLD) ELSE t

(* do_exit up to its calls of sys_close.  "task[1] is always init".          *)
Adopted(s) ==
  LET mine == {c \in Slots : Live(c) /\ task[c].father = task[s].pid}
      t == [c \in Slots |-> IF c \in mine THEN [task[c] EXCEPT !.father = 1] ELSE task[c]]
  IN IF \E c \in mine : pc[c] = "zombie" THEN Signalled(t, {1}, SIGCHLD) ELSE t

do_exit(s, t) == task' = t /\ pc' = [pc EXCEPT ![s] = "exit"] /\ UNCHANGED <<arg, last_pid>>

sys_exit(s) == At(s, "user") /\ do_exit(s, Adopted(s))

(* The rest of do_exit: kill_session, the zombie, tell_father - or release   *)
(* by the task itself, if it has no father.                                  *)
Session(s) == {c \in Slots : Live(c) /\ task[c].session = task[s].session}
Fathers(s) == {f \in Slots : Live(f) /\ task[f].pid = task[s].father}

ExitEnd(s) ==
  LET t == IF task[s].leader THEN Signalled(task, Session(s), SIGHUP) ELSE task
  IN /\ At(s, "exit")
     /\ task' = IF Fathers(s) # {} THEN Signalled(t, {Min(Fathers(s))}, SIGCHLD)
                                   ELSE [t EXCEPT ![s] = NULL]
     /\ pc' = [pc EXCEPT ![s] = IF Fathers(s) # {} THEN "zombie" ELSE "user"]
     /\ UNCHANGED <<arg, last_pid>>

-----------------------------------------------------------------------------
(* sys_waitpid: the children a call with this argument is about ...          *)
Children(t, s, pid) ==
  {c \in Slots \ {s} : /\ t[c] # NULL /\ t[c].father = t[s].pid
                       /\ \/ pid > 0 /\ t[c].pid = pid
                          \/ pid = 0 /\ t[c].pgrp = t[s].pgrp
                          \/ pid = -1
                          \/ pid < -1 /\ t[c].pgrp = -pid}

(* ... and one pass over them: the last zombie in the table is released;     *)
(* with none, the task sleeps if it has such children at all.                *)
Scan(t, s, pid) ==
  LET kids == Children(t, s, pid)
      dead == {c \in kids : pc[c] = "zombie"}
  IN \/ /\ dead # {}
        /\ task' = [t EXCEPT ![Max(dead)] = NULL]
        /\ pc' = [pc EXCEPT ![s] = "user", ![Max(dead)] = "user"]
        /\ arg' = [arg EXCEPT ![s] = 0]
     \/ /\ dead = {} /\ kids # {}
        /\ task' = t /\ pc' = [pc EXCEPT ![s] = "wait"] /\ arg' = [arg EXCEPT ![s] = pid]
     \/ /\ kids = {}
        /\ task' = t /\ pc' = [pc EXCEPT ![s] = "user"] /\ arg' = [arg EXCEPT ![s] = 0]

sys_waitpid(s, pid) == At(s, "user") /\ Scan(task, s, pid) /\ UNCHANGED last_pid

(* schedule() makes a task with a signal that is not blocked run.  Back in   *)
(* waitpid, any other signal, blocked or not, ends the call.                 *)
Woken(s) == task[s].signal \ (task[s].blocked \ {SIGKILL}) # {}

WaitResume(s) ==
  /\ At(s, "wait") /\ Woken(s)
  /\ LET t == [task EXCEPT ![s].signal = @ \ {SIGCHLD}]
     IN \/ t[s].signal = {} /\ Scan(t, s, arg[s])
        \/ /\ t[s].signal # {}
           /\ task' = t /\ pc' = [pc EXCEPT ![s] = "user"] /\ arg' = [arg EXCEPT ![s] = 0]
  /\ UNCHANGED last_pid

-----------------------------------------------------------------------------
(* sys_kill.  For 0 it is the group of which the caller is the first.  The   *)
(* last `else' belongs to `if (err = send_sig(...))': for -1 the last task   *)
(* gets the signal and of the others the group 1, below -1 nobody does.      *)
Targets(s, pid) ==
  {c \in Slots : /\ Live(c)
                 /\ \/ pid = 0 /\ task[c].pgrp = task[s].pid
                    \/ pid > 0 /\ task[c].pid = pid
                    \/ pid = -1 /\ (task[c].pgrp = 1 \/ \A d \in Slots : d > c => ~Live(d))}

sys_kill(s, pid, sig) ==
  /\ At(s, "user")
  /\ task' = Signalled(task, Targets(s, pid), sig)
  /\ UNCHANGED <<pc, arg, last_pid>>

(* ret_from_sys_call and do_signal: the lowest signal that is not blocked.   *)
do_signal(s) ==
  LET sigs == task[s].signal \ task[s].blocked
      n == Min(sigs)
      sa == task[s].sigaction[n]
      t == [task EXCEPT ![s].signal = @ \ {n}]
  IN /\ At(s, "user") /\ sigs # {}
     /\ \/ /\ sa.handler = "dfl" /\ n # SIGCHLD
           /\ do_exit(s, [Adopted(s) EXCEPT ![s].signal = @ \ {n}])
        \/ /\ sa.handler = "ign" \/ (sa.handler = "dfl" /\ n = SIGCHLD)
           /\ task' = t /\ UNCHANGED <<pc, arg, last_pid>>
        \/ /\ sa.handler = "once"
           /\ task' = [t EXCEPT ![s].sigaction[n] = Default]
           /\ UNCHANGED <<pc, arg, last_pid>>
        \/ /\ sa.handler = "catch"
           /\ task' = [t EXCEPT ![s].blocked = @ \cup sa.mask]
           /\ UNCHANGED <<pc, arg, last_pid>>

(* sys_signal and sys_sigaction: without SA_NOMASK a signal masks itself.    *)
sys_sigaction(s, n, sa) ==
  /\ At(s, "user") /\ n # SIGKILL
  /\ task' = [task EXCEPT ![s].sigaction[n] =
                IF sa.handler = "catch" /\ sa.mask # {} THEN [sa EXCEPT !.mask = @ \cup {n}] ELSE sa]
  /\ UNCHANGED <<pc, arg, last_pid>>

sys_ssetmask(s, newmask) ==
  /\ At(s, "user")
  /\ task' = [task EXCEPT ![s].blocked = newmask \ {SIGKILL}]
  /\ UNCHANGED <<pc, arg, last_pid>>

-----------------------------------------------------------------------------
(* sys_setpgid, of the first task with that pid.                             *)
sys_setpgid(s, pid, pgid) ==
  LET p == IF pid = 0 THEN task[s].pid ELSE pid
      g == IF pgid = 0 THEN task[s].pid ELSE pgid
  IN /\ At(s, "user")
     /\ \E c \in Slots :
          /\ Live(c) /\ task[c].pid = p
          /\ ~task[c].leader /\ task[c].session = task[s].session
          /\ task' = [task EXCEPT ![c].pgrp = g]
     /\ UNCHANGED <<pc, arg, last_pid>>

sys_setsid(s) ==
  /\ At(s, "user")
  /\ task' = [task EXCEPT ![s].leader = TRUE, ![s].session = task[s].pid, ![s].pgrp = task[s].pid]
  /\ UNCHANGED <<pc, arg, last_pid>>

-----------------------------------------------------------------------------
(* Init, in init/main.c, forks and then waits until that child has ended; if *)
(* fork fails it tries again, without waiting.  Every other program does as  *)
(* it likes.                                                                *)
InitLives == child # NULL
IsInit(s) == s = 1 /\ InitLives

InitForks(s) ==
  /\ IsInit(s) /\ child = 0
  /\ copy_process(s)
  /\ child' = IF task' # task THEN last_pid' ELSE 0

InitWaits(s) == IsInit(s) /\ child # 0 /\ sys_waitpid(s, -1)

(* What init waits for after any other step.                                *)
Awaited == child' =
  IF ~InitLives \/ pc'[1] \notin {"user", "wait"} THEN NULL
  ELSE IF \E c \in Slots : task'[c] # NULL /\ task'[c].pid = child THEN child ELSE 0

PidArgs == {-1, 0} \cup Pids \cup {-g : g \in 2..MAX_GROUP}

Control(s) ==
  \/ sys_setsid(s)
  \/ \E pid \in PidArgs, sig \in Signals : sys_kill(s, pid, sig)
  \/ \E n \in Signals, sa \in Actions : sys_sigaction(s, n, sa)
  \/ \E m \in Masks : sys_ssetmask(s, m)
  \/ \E pid \in 0..MAX_PID, pgid \in 0..MAX_GROUP : sys_setpgid(s, pid, pgid)

Program(s) ==
  /\ ~IsInit(s)
  /\ copy_process(s) \/ sys_exit(s) \/ \E pid \in PidArgs : sys_waitpid(s, pid)

Kernel(s) == InitWaits(s) \/ ExitEnd(s) \/ WaitResume(s)

Next == \E s \in Slots :
  \/ InitForks(s) /\ UNCHANGED calls
  \/ (Kernel(s) \/ Program(s) \/ do_signal(s)) /\ Awaited /\ UNCHANGED calls
  \/ ~IsInit(s) /\ Control(s) /\ Awaited /\ calls > 0 /\ calls' = calls - 1

(* Ready tasks get the processor, and a fork of init that can succeed does   *)
(* not fail for ever for want of memory.                                     *)
Fairness == \A s \in Slots :
  /\ WF_vars(InitForks(s) /\ task' # task /\ UNCHANGED calls)
  /\ WF_vars(InitWaits(s) /\ Awaited /\ UNCHANGED calls)
  /\ WF_vars(ExitEnd(s) /\ Awaited /\ UNCHANGED calls)
  /\ WF_vars(WaitResume(s) /\ Awaited /\ UNCHANGED calls)

Spec == Init /\ [][Next]_vars /\ Fairness

-----------------------------------------------------------------------------
(* While init lives, every task has a father that can still wait for it: not *)
(* gone, not a zombie, not on its way through do_exit, whatever the order in *)
(* which the tasks of a family end and pids are used again.                  *)
FatherWaits == InitLives => \A s \in Slots \ {1} : Live(s) =>
  \E f \in Slots \ {s} : Live(f) /\ task[f].pid = task[s].father /\ pc[f] \in {"user", "wait"}

(* waitpid does not sleep through the end of a child it is about: SIGCHLD is *)
(* pending, so that schedule() wakes it unless it has blocked that signal.   *)
(* (Groups are left out: setpgid may move a zombie into the group waited for.) *)
WaiterTold == InitLives => \A s \in Slots :
  At(s, "wait") /\ (arg[s] = -1 \/ arg[s] > 0)
    /\ (\E c \in Children(task, s, arg[s]) : pc[c] = "zombie")
    => SIGCHLD \in task[s].signal

(* The tasks of fork.c and exit.c are those of TaskLife, for as long as init *)
(* lives.                                                                   *)
SlotOf(s) == IF Fathers(s) = {} THEN NULL ELSE Min(Fathers(s))

Life == INSTANCE TaskLife WITH
  InitSlot <- 1, None <- NULL,
  alive <- InitLives,
  life <- [s \in Slots |-> IF ~Live(s) THEN "free"
                           ELSE CASE pc[s] = "exit" -> "ending" [] pc[s] = "zombie" -> "zombie"
                                  [] OTHER -> "live"],
  father <- [s \in Slots |-> IF Live(s) THEN SlotOf(s) ELSE NULL]

ImplementsTaskLife == Life!Spec
=============================================================================
