------------------------------- MODULE Sched -------------------------------
(***************************************************************************)
(* The scheduler of kernel/sched.c with the paths of kernel/system_call.s  *)
(* that call it: schedule(), the timer interrupt, the way back from a      *)
(* system call, pause, alarm and nice.                                     *)
(*                                                                         *)
(* schedule() runs with interrupts on when a system call leads to it, so   *)
(* ticks, signals and wake-ups come between its steps: the pass over alarms *)
(* and signals, the look at each task of each round of the choice, the      *)
(* refill and switch_to.  The timer calls it with interrupts off.           *)
(*                                                                         *)
(* Time is kept as what is left: alarm[t] is alarm - jiffies, and all that  *)
(* matters once it is negative is that it is.                               *)
(***************************************************************************)
EXTENDS Integers, FiniteSets

CONSTANTS NR_TASKS,      \* task 0 is the idle task
          PRIORITY,      \* the priority and the counter a task is created with
          LONG_MAX,      \* the largest value of a long
          MAX_NICE,      \* bound on the arguments of nice, and
          NiceTasks,     \* bound: the tasks that call it
          MAX_ALARM,     \* bound on the arguments of alarm, in ticks
          Signals,       \* the signals that are sent and masked, and
          SignalTasks,   \* bound: the tasks that get and mask them, set alarms and
                         \* sleep interruptibly
          SIGALRM, SIGKILL

Tasks == 0..(NR_TASKS - 1)
Users == Tasks \ {0}

ASSUME SchedAssumption ==
  /\ NR_TASKS \in Nat /\ NR_TASKS > 1
  /\ PRIORITY \in Nat /\ LONG_MAX \in Nat /\ 0 < PRIORITY /\ PRIORITY <= LONG_MAX
  /\ MAX_NICE \in Nat /\ MAX_NICE <= LONG_MAX /\ MAX_ALARM \in Nat /\ NiceTasks \subseteq Users
  /\ Signals \subseteq Nat /\ SignalTasks \subseteq Users /\ SIGALRM \in Nat /\ SIGKILL \in Nat

TASK_RUNNING == "running"
TASK_INTERRUPTIBLE == "interruptible"
TASK_UNINTERRUPTIBLE == "uninterruptible"

(* alarm - jiffies once it has passed, and the value for no alarm set.      *)
Passed == -1
NoAlarm == -2

VARIABLES current,   \* the task that has the processor
          state, counter, priority, alarm, signal, blocked,  \* of each task
          pc,        \* where a task is: "user", in a system call ("kernel"), at the
                     \* end of one ("leave"), in schedule ("alarms", "select",
                     \* "switch"), or at ret_from_sys_call with interrupts on
                     \* ("ret") or off ("iret")
          back,      \* where schedule returns to in the current task, and its
          i, c, next,  \* locals: the tasks 1..i are still to be looked at in this
                     \* round, and the choice so far
          late,      \* (history) the tasks woken after this round looked at them,
          quiet,     \* (history) no tick has come in this round, and
          top        \* (history) the highest priority a task ever had

vars == <<current, state, counter, priority, alarm, signal, blocked, pc, back, i, c, next,
          late, quiet, top>>
round == <<i, c, next, late, quiet>>
taskvars == <<state, counter, priority, alarm, signal, blocked>>

InSchedule == {"alarms", "select", "switch"}
Backs == {"kernel", "leave", "ret", "iret"}

TypeOK ==
  /\ current \in Tasks
  /\ state \in [Tasks -> {TASK_RUNNING, TASK_INTERRUPTIBLE, TASK_UNINTERRUPTIBLE}]
  /\ counter \in [Tasks -> (-LONG_MAX - 1)..LONG_MAX]
  /\ priority \in [Tasks -> 1..LONG_MAX]
  /\ alarm \in [Tasks -> {NoAlarm, Passed} \cup 0..MAX_ALARM]
  /\ signal \in [Tasks -> SUBSET (Signals \cup {SIGALRM})]
  /\ blocked \in [Tasks -> SUBSET Signals]
  /\ pc \in [Tasks -> Backs \cup InSchedule \cup {"user"}]
  /\ back \in Backs
  /\ i \in Tasks /\ c \in -1..LONG_MAX /\ next \in Tasks
  /\ late \subseteq Users /\ quiet \in BOOLEAN /\ top \in 1..LONG_MAX

(* main has forked the tasks and moved to user mode.                        *)
Init ==
  /\ current = 0
  /\ state = [t \in Tasks |-> TASK_RUNNING]
  /\ counter = [t \in Tasks |-> PRIORITY]
  /\ priority = [t \in Tasks |-> PRIORITY]
  /\ alarm = [t \in Tasks |-> NoAlarm]
  /\ signal = [t \in Tasks |-> {}]
  /\ blocked = [t \in Tasks |-> {}]
  /\ pc = [t \in Tasks |-> "user"]
  /\ back = "kernel"
  /\ i = NR_TASKS - 1 /\ c = -1 /\ next = 0
  /\ late = {} /\ quiet = TRUE /\ top = PRIORITY

-----------------------------------------------------------------------------
(* The long that the sum or difference x of two longs becomes.               *)
Long(x) ==
  IF x > LONG_MAX THEN x - 2 * (LONG_MAX + 1)
  ELSE IF x < -LONG_MAX - 1 THEN x + 2 * (LONG_MAX + 1) ELSE x

(* A long has room for twice the highest priority that was asked for.  The   *)
(* kernel does not see to it: nice lets a priority grow to LONG_MAX.         *)
Wide == top <= LONG_MAX \div 2

At(l) == pc[current] = l
Goto(l) == pc' = [pc EXCEPT ![current] = l]

(* Interrupts are off from a tick in user mode until the iret.              *)
InterruptsOn == ~At("iret") /\ ~(pc[current] \in InSchedule /\ back = "iret")

(* Call schedule(), to go on at l.                                          *)
CallSchedule(l) == Goto("alarms") /\ back' = l

-----------------------------------------------------------------------------
(* schedule(): the pass over the alarms and the signals.                    *)
Expired(t) == alarm[t] = Passed

Unmasked(t, sig) == sig \ (blocked[t] \ {SIGKILL})

(* Defects: an alarm that is cleared and not sent, a signal that does not     *)
(* wake.                                                                    *)
ScheduleAlarms_Silent ==
  /\ At("alarms")
  /\ alarm' = [t \in Tasks |-> IF t # 0 /\ Expired(t) THEN NoAlarm ELSE alarm[t]]
  /\ Goto("select")
  /\ UNCHANGED <<current, state, counter, priority, signal, blocked, back, round, top>>

ScheduleAlarms ==
  LET sig == [t \in Tasks |->
                IF t # 0 /\ Expired(t) THEN signal[t] \cup {SIGALRM} ELSE signal[t]]
  IN /\ At("alarms")
     /\ signal' = sig
     /\ alarm' = [t \in Tasks |-> IF t # 0 /\ Expired(t) THEN NoAlarm ELSE alarm[t]]
     /\ state' = [t \in Tasks |->
                    IF t # 0 /\ state[t] = TASK_INTERRUPTIBLE /\ Unmasked(t, sig[t]) # {}
                    THEN TASK_RUNNING ELSE state[t]]
     /\ Goto("select")
     /\ UNCHANGED <<current, counter, priority, blocked, back, round, top>>

(* schedule(): a round of the choice looks at one task after the other, from *)
(* the last one down to task 1.  Only counters above -1 count, the largest   *)
(* wins, and the first one seen among equals.                               *)
(* Defects: a task that sleeps is chosen, a ready task out of time is not seen. *)
Better_Any(t) == counter[t] > c
Better_Positive(t) == state[t] = TASK_RUNNING /\ counter[t] > c /\ counter[t] > 0

Better(t) == state[t] = TASK_RUNNING /\ counter[t] > c

Look ==
  /\ At("select") /\ i > 0
  /\ c' = IF Better(i) THEN counter[i] ELSE c
  /\ next' = IF Better(i) THEN i ELSE next
  /\ i' = i - 1
  /\ UNCHANGED <<current, taskvars, pc, back, late, quiet, top>>

(* The start of a round: c = -1, next = 0, i = NR_TASKS.                     *)
NewRound == i' = NR_TASKS - 1 /\ c' = -1 /\ late' = {} /\ quiet' = TRUE

(* Every ready task was out of time.  A tick or a wake-up in the middle of    *)
(* the refill is one before or after it, for the tasks are refilled          *)
(* independently.                                                           *)
(* Defect: what a task has left is not halved.                               *)
Refill_Whole ==
  /\ At("select") /\ i = 0 /\ c = 0
  /\ counter' = [t \in Tasks |->
                   IF t = 0 THEN counter[t] ELSE Long(counter[t] + priority[t])]
  /\ NewRound /\ next' = 0
  /\ UNCHANGED <<current, state, priority, alarm, signal, blocked, pc, back, top>>

Refill ==
  /\ At("select") /\ i = 0 /\ c = 0
  /\ counter' = [t \in Tasks |->
                   IF t = 0 THEN counter[t] ELSE Long((counter[t] \div 2) + priority[t])]
  /\ NewRound /\ next' = 0
  /\ UNCHANGED <<current, state, priority, alarm, signal, blocked, pc, back, top>>

(* The loop ends with a task that has time, or with task 0.                  *)
Choose ==
  /\ At("select") /\ i = 0 /\ c # 0
  /\ Goto("switch")
  /\ NewRound
  /\ UNCHANGED <<current, taskvars, back, next, top>>

(* switch_to: the task that called schedule goes on from there when it has  *)
(* the processor again.                                                     *)
SwitchTo ==
  /\ At("switch")
  /\ Goto(back)
  /\ current' = next
  /\ next' = 0 /\ back' = "kernel"
  /\ UNCHANGED <<taskvars, i, c, late, quiet, top>>

-----------------------------------------------------------------------------
(* A task enters a system call, may sleep in it (sleep_on, waitpid...) and   *)
(* finishes it.  The idle task only pauses.                                 *)
Enter ==
  /\ At("user") /\ current # 0
  /\ Goto("kernel")
  /\ UNCHANGED <<current, taskvars, back, round, top>>

Sleep(how) ==
  /\ At("kernel")
  /\ state' = [state EXCEPT ![current] = how]
  /\ CallSchedule("kernel")
  /\ UNCHANGED <<current, counter, priority, alarm, signal, blocked, round, top>>

Finish ==
  /\ At("kernel")
  /\ Goto("leave")
  /\ UNCHANGED <<current, taskvars, back, round, top>>

sys_pause ==
  /\ At("user")
  /\ state' = [state EXCEPT ![current] = TASK_INTERRUPTIBLE]
  /\ CallSchedule("leave")
  /\ UNCHANGED <<current, counter, priority, alarm, signal, blocked, round, top>>

sys_alarm(ticks) ==
  /\ At("user") /\ current # 0
  /\ alarm' = [alarm EXCEPT ![current] = IF ticks > 0 THEN ticks ELSE NoAlarm]
  /\ Goto("leave")
  /\ UNCHANGED <<current, state, counter, priority, signal, blocked, back, round, top>>

sys_nice(increment) ==
  /\ At("user") /\ current # 0
  /\ LET p == Long(priority[current] - increment)
     IN IF p > 0
        THEN /\ priority' = [priority EXCEPT ![current] = p]
             /\ top' = IF p > top THEN p ELSE top
        ELSE UNCHANGED <<priority, top>>
  /\ Goto("leave")
  /\ UNCHANGED <<current, state, counter, alarm, signal, blocked, back, round>>

sys_ssetmask(newmask) ==
  /\ At("user") /\ current # 0
  /\ blocked' = [blocked EXCEPT ![current] = newmask \ {SIGKILL}]
  /\ Goto("leave")
  /\ UNCHANGED <<current, state, counter, priority, alarm, signal, back, round, top>>

(* system_call after the call: reschedule if the task is not running or has  *)
(* used up its time.                                                        *)
LeaveCall ==
  /\ At("leave")
  /\ IF state[current] # TASK_RUNNING \/ counter[current] = 0
     THEN CallSchedule("ret")
     ELSE Goto("ret") /\ UNCHANGED back
  /\ UNCHANGED <<current, taskvars, round, top>>

(* ret_from_sys_call takes one signal, for a handler that then runs in user  *)
(* mode; task 0 has none.                                                   *)
ReturnToUser ==
  /\ At("ret") \/ At("iret")
  /\ LET sigs == IF current = 0 THEN {} ELSE signal[current] \ blocked[current]
     IN signal' = IF sigs = {} THEN signal
                  ELSE [signal EXCEPT ![current] =
                          @ \ {CHOOSE s \in sigs : \A r \in sigs : s <= r}]
  /\ Goto("user")
  /\ UNCHANGED <<current, state, counter, priority, alarm, blocked, back, round, top>>

-----------------------------------------------------------------------------
(* Interrupts: the timer, a wake_up of a task asleep in a system call, a     *)
(* signal from the keyboard.                                                *)
(* Defect: only the time spent in user mode is charged.                      *)
do_timer_UserOnly ==
  LET left == Long(counter[current] - 1)
  IN /\ InterruptsOn
     /\ alarm' = [t \in Tasks |->
                    IF alarm[t] \in {NoAlarm, Passed} THEN alarm[t] ELSE alarm[t] - 1]
     /\ \/ ~At("user") /\ UNCHANGED <<counter, pc, back>>
        \/ /\ At("user") /\ left > 0 /\ Goto("iret") /\ UNCHANGED back
           /\ counter' = [counter EXCEPT ![current] = left]
        \/ /\ At("user") /\ left <= 0 /\ CallSchedule("iret")
           /\ counter' = [counter EXCEPT ![current] = 0]
     /\ quiet' = (quiet /\ ~At("select"))
     /\ UNCHANGED <<current, state, priority, signal, blocked, i, c, next, late, top>>

do_timer ==
  LET left == Long(counter[current] - 1)
  IN /\ InterruptsOn
     /\ alarm' = [t \in Tasks |->
                    IF alarm[t] \in {NoAlarm, Passed} THEN alarm[t] ELSE alarm[t] - 1]
     /\ counter' = [counter EXCEPT ![current] = IF left > 0 THEN left ELSE 0]
     /\ \/ ~At("user") /\ UNCHANGED <<pc, back>>
        \/ At("user") /\ left > 0 /\ Goto("iret") /\ UNCHANGED back
        \/ At("user") /\ left <= 0 /\ CallSchedule("iret")
     /\ quiet' = (quiet /\ ~At("select"))
     /\ UNCHANGED <<current, state, priority, signal, blocked, i, c, next, late, top>>

Asleep(t) ==
  /\ state[t] # TASK_RUNNING
  /\ pc[t] = "kernel" \/ (pc[t] \in InSchedule /\ back = "kernel")

WakeUp(t) ==
  /\ InterruptsOn
  /\ t # 0 /\ Asleep(t)
  /\ state' = [state EXCEPT ![t] = TASK_RUNNING]
  /\ late' = IF At("select") /\ t > i THEN late \cup {t} ELSE late
  /\ UNCHANGED <<current, counter, priority, alarm, signal, blocked, pc, back, i, c, next, quiet, top>>

Send(t, s) ==
  /\ InterruptsOn
  /\ t # 0 /\ s \notin signal[t]
  /\ signal' = [signal EXCEPT ![t] = @ \cup {s}]
  /\ UNCHANGED <<current, state, counter, priority, alarm, blocked, pc, back, round, top>>

-----------------------------------------------------------------------------
Schedule == ScheduleAlarms \/ Look \/ Refill \/ Choose \/ SwitchTo

(* Bounds: a task that gets no signal does not pause, and sleeps the one way; *)
(* nice is called until the counters may overflow.                           *)
SysCall ==
  \/ Enter
  \/ current \in SignalTasks \cup {0} /\ sys_pause
  \/ current \in SignalTasks /\ \E k \in 0..MAX_ALARM : sys_alarm(k)
  \/ current \in NiceTasks /\ Wide /\ \E n \in (-MAX_NICE)..MAX_NICE : sys_nice(n)
  \/ current \in SignalTasks /\ \E m \in SUBSET Signals : sys_ssetmask(m)

InCall ==
  \/ Finish
  \/ Sleep(TASK_UNINTERRUPTIBLE)
  \/ current \in SignalTasks /\ Sleep(TASK_INTERRUPTIBLE)

Interrupt ==
  \/ do_timer
  \/ \E t \in Tasks : WakeUp(t)
  \/ \E t \in SignalTasks, s \in Signals : Send(t, s)

Next == Schedule \/ SysCall \/ InCall \/ LeaveCall \/ ReturnToUser \/ Interrupt

(* A round of the choice takes far less than a tick, so it cannot be that     *)
(* there is a tick in each of them.                                          *)
RoundsAreShort == []<>(~At("select") \/ (i = 0 /\ quiet))

(* The processor goes on with the kernel's code, a system call ends or       *)
(* sleeps, and the idle task pauses for ever.  The interrupt controller      *)
(* keeps a tick that comes while interrupts are off.                         *)
Fairness ==
  /\ WF_vars(Schedule) /\ WF_vars(InCall) /\ WF_vars(LeaveCall) /\ WF_vars(ReturnToUser)
  /\ WF_vars(sys_pause /\ current = 0)
  /\ WF_vars(do_timer) /\ RoundsAreShort

Spec == Init /\ [][Next]_vars /\ Fairness

-----------------------------------------------------------------------------
(* schedule() reads a state that interrupts are changing: the task it        *)
(* switches to is ready all the same, for only a task itself goes to sleep.  *)
SwitchToReady ==
  [][current' # current => current' = 0 \/ state'[current'] = TASK_RUNNING]_vars

(* sched.c:127, "Task 0 is the 'idle' task, which gets called when no other   *)
(* tasks can run": when schedule() chooses task 0, a task that is ready was   *)
(* woken after the last round had looked at it.  (It will be seen when task   *)
(* 0 pauses.)                                                               *)
IdleWhenNoneReady ==
  [][Choose /\ next' = 0 /\ Wide => \A t \in Users : state[t] = TASK_RUNNING => t \in late]_vars

(* The refill of sched.c:194 gives the tasks that can run time again, so      *)
(* that the loop of schedule() ends: some ready task has a positive counter   *)
(* after it, as long as no counter can overflow.                             *)
RefillGivesTime ==
  [][Refill /\ Wide => \E t \in Users : state[t] = TASK_RUNNING /\ counter'[t] > 0]_vars

(* A task that sleeps keeps half of its time at each refill: what it saves   *)
(* up stays below twice the highest priority that was ever asked for, and no *)
(* counter is negative, as long as a long has room for that much.            *)
CounterBounded ==
  Wide => \A t \in Tasks : counter[t] >= 0 /\ counter[t] < 2 * top

(* A task that is ready runs in the end, however the others sleep, wake and   *)
(* change their priority, as long as the counters do not overflow.            *)
ReadyRuns ==
  \A t \in Users : state[t] = TASK_RUNNING ~> current = t \/ ~Wide

(* A signal sent to a task that sleeps interruptibly, between any two steps   *)
(* of the task and of schedule(), wakes it in the end.                       *)
SignalWakes ==
  \A t \in SignalTasks :
    state[t] = TASK_INTERRUPTIBLE /\ Unmasked(t, signal[t]) # {} ~> state[t] = TASK_RUNNING

(* Once its time has passed, alarm(n) sends the signal, whether the task      *)
(* computes in user mode, sleeps or pauses, or the task comes to the end of a *)
(* system call of its own, where it may have set its alarm again.            *)
AlarmRings ==
  \A t \in SignalTasks :
    Expired(t) ~> SIGALRM \in signal[t] \/ (current = t /\ pc[t] = "leave")
=============================================================================
