----------------------------- MODULE WaitQueue -----------------------------
(***************************************************************************)
(* The wait queues of kernel/sched.c.  A queue is ONE pointer (the `struct *)
(* task_struct **p' every caller passes): the rest of the queue lives in    *)
(* the local variable `tmp' of the tasks that are inside sleep_on(), each   *)
(* remembering the task that headed the queue before it.                    *)
(*                                                                         *)
(* The kernel is not preemptive: between two calls of schedule() a task in  *)
(* kernel mode is interrupted by nothing but interrupt handlers, and the    *)
(* callers that matter have interrupts off.  So the part of sleep_on()      *)
(* before schedule() is one action and the part after it another, and       *)
(* which runnable task schedule() resumes is left open here (module Sched   *)
(* models the choice).  `Spec' is a queue used with sleep_on (buffers,      *)
(* inodes, super blocks, pipes, requests, floppy motors), `ISpec' one used  *)
(* with interruptible_sleep_on (the tty queues): no queue of the kernel     *)
(* mixes the two.                                                          *)
(***************************************************************************)
EXTENDS Naturals

CONSTANTS Tasks,   \* the tasks that may sleep: all but task 0, which panics
          NULL     \* the null task pointer

ASSUME NullAssumption == NULL \notin Tasks

VARIABLES head,    \* *p, the queue's only pointer
          state,   \* task_struct.state
          tmp,     \* the local tmp of a task inside [interruptible_]sleep_on
          inside   \* the tasks that are inside [interruptible_]sleep_on

wqvars == <<head, state, tmp, inside>>

TASK_RUNNING == 0
TASK_INTERRUPTIBLE == 1
TASK_UNINTERRUPTIBLE == 2

WQTypeOK == /\ head \in Tasks \cup {NULL}
            /\ state \in [Tasks -> {TASK_RUNNING, TASK_INTERRUPTIBLE, TASK_UNINTERRUPTIBLE}]
            /\ tmp \in [Tasks -> Tasks \cup {NULL}]
            /\ inside \subseteq Tasks

WQInit == /\ head = NULL
          /\ state = [t \in Tasks |-> TASK_RUNNING]
          /\ tmp = [t \in Tasks |-> NULL]
          /\ inside = {}

(* A task of which schedule() may make the current one.                     *)
Runnable(t) == state[t] = TASK_RUNNING

(* `if (tmp) tmp->state = 0;' : the states after t has left its sleep.      *)
Passed_Nobody(t) == state \* defect: the chain is not passed on

Passed(t) == IF tmp[t] = NULL THEN state
                              ELSE [state EXCEPT ![tmp[t]] = TASK_RUNNING]

-----------------------------------------------------------------------------
(* sleep_on, up to its call of schedule().                                  *)
SleepOn_ForgetsHead(t) ==  \* defect: the old head is not remembered
  /\ t \notin inside
  /\ Runnable(t)
  /\ tmp' = [tmp EXCEPT ![t] = NULL]
  /\ head' = t
  /\ state' = [state EXCEPT ![t] = TASK_UNINTERRUPTIBLE]
  /\ inside' = inside \cup {t}

SleepOn(t) ==
  /\ t \notin inside
  /\ Runnable(t)
  /\ tmp' = [tmp EXCEPT ![t] = head]
  /\ head' = t
  /\ state' = [state EXCEPT ![t] = TASK_UNINTERRUPTIBLE]
  /\ inside' = inside \cup {t}

(* sleep_on, from schedule() to its return.                                 *)
Resume(t) ==
  /\ t \in inside
  /\ Runnable(t)
  /\ state' = Passed(t)
  /\ tmp' = [tmp EXCEPT ![t] = NULL]
  /\ inside' = inside \ {t}
  /\ UNCHANGED head

(* The callers' `while (busy) sleep_on(p);' : t returns from one sleep and  *)
(* enters the next one with no schedule() between the two.                  *)
ResumeAndSleep(t) ==
  /\ t \in inside
  /\ Runnable(t)
  /\ tmp' = [tmp EXCEPT ![t] = head]
  /\ head' = t
  /\ state' = [Passed(t) EXCEPT ![t] = TASK_UNINTERRUPTIBLE]
  /\ UNCHANGED inside

(* wake_up, called by a task or by an interrupt handler.                    *)
WakeUp ==
  /\ state' = IF head = NULL THEN state
                             ELSE [state EXCEPT ![head] = TASK_RUNNING]
  /\ head' = NULL
  /\ UNCHANGED <<tmp, inside>>

TaskStep(t) == SleepOn(t) \/ Resume(t) \/ ResumeAndSleep(t)

WQNext == WakeUp \/ \E t \in Tasks : TaskStep(t)

(* A runnable task runs in the end: schedule() starves no one (Sched).      *)
WQFairness == \A t \in Tasks : WF_wqvars(Resume(t) \/ ResumeAndSleep(t))

Spec == WQInit /\ [][WQNext]_wqvars /\ WQFairness

-----------------------------------------------------------------------------
(* interruptible_sleep_on, up to its first call of schedule().              *)
InterruptibleSleepOn(t) ==
  /\ t \notin inside
  /\ Runnable(t)
  /\ tmp' = [tmp EXCEPT ![t] = head]
  /\ head' = t
  /\ state' = [state EXCEPT ![t] = TASK_INTERRUPTIBLE]
  /\ inside' = inside \cup {t}

(* A resumed task that does not head the queue makes the head runnable and  *)
(* goes back to sleep (`goto repeat').                                      *)
InterruptibleRepeat(t) ==
  /\ t \in inside
  /\ Runnable(t)
  /\ head \notin {NULL, t}
  /\ state' = [state EXCEPT ![head] = TASK_RUNNING, ![t] = TASK_INTERRUPTIBLE]
  /\ UNCHANGED <<head, tmp, inside>>

(* The others return: the queue is emptied and tmp made runnable.           *)
InterruptibleResume(t) ==
  /\ t \in inside
  /\ Runnable(t)
  /\ head \in {NULL, t}
  /\ head' = NULL
  /\ state' = Passed(t)
  /\ tmp' = [tmp EXCEPT ![t] = NULL]
  /\ inside' = inside \ {t}

(* schedule() makes an interruptible sleeper with a signal runnable.        *)
SignalWakes(t) ==
  /\ state[t] = TASK_INTERRUPTIBLE
  /\ state' = [state EXCEPT ![t] = TASK_RUNNING]
  /\ UNCHANGED <<head, tmp, inside>>

INext == WakeUp \/ \E t \in Tasks : \/ InterruptibleSleepOn(t)
                                     \/ InterruptibleRepeat(t)
                                     \/ InterruptibleResume(t)
                                     \/ SignalWakes(t)

ISpec == WQInit /\ [][INext]_wqvars

-----------------------------------------------------------------------------
(* The tasks from which somebody will still go on waking others: the head   *)
(* (the next wake_up finds it) and those already made runnable.             *)
Roots == {t \in Tasks : t = head \/ (t \in inside /\ Runnable(t))}

(* S contains the roots and everyone reachable from them through tmp.       *)
Closed(S) == /\ Roots \subseteq S
             /\ \A u \in S \cap inside : tmp[u] # NULL => tmp[u] \in S

(* No sleeper is stranded: each one is reachable, from the head or from a   *)
(* task that is already runnable, along the tmp links.  One that is not     *)
(* sleeps for ever, since nothing else in the kernel refers to it           *)
(* (sleep_on, wake_up).                                                     *)
NoStranded == \A S \in SUBSET Tasks : Closed(S) => inside \subseteq S

(* Exactly one reference to each sleeper: nobody wakes a task that already  *)
(* left, which may sleep on another queue or be freed by release().         *)
OneReference ==
  /\ head # NULL => head \in inside /\ ~Runnable(head)
  /\ \A u \in inside : tmp[u] # NULL =>
        /\ tmp[u] \in inside /\ ~Runnable(tmp[u])
        /\ tmp[u] # head
        /\ \A v \in inside : tmp[v] = tmp[u] => u = v

(* One wake_up is enough for everybody: each task that is in the queue when *)
(* wake_up empties it is made runnable in the end (the chain of             *)
(* `tmp->state=0' after schedule() in sleep_on).                            *)
WakesEveryone ==
  \A t \in Tasks : (t \in inside /\ head = NULL) ~> (t \notin inside \/ Runnable(t))
=============================================================================
