---------------------------- MODULE Sched_proofs ----------------------------
(***************************************************************************)
(* Proofs about kernel/sched.c and what hangs on its clock: the scheduler,   *)
(* for any number of tasks and any priorities they ask for; and the floppy   *)
(* driver with its motors and timers, for any drives, tracks and requests.    *)
(***************************************************************************)
EXTENDS Sched, Floppy, SequenceTheorems, TLAPS

(* No priority is above the highest one ever asked for.                      *)
BelowTop == \A t \in Tasks : priority[t] <= top

(* Only the task that has the processor is in schedule(), and outside of the  *)
(* choice its locals are those of a round that begins.                       *)
OneScan ==
  /\ \A t \in Tasks : t # current => pc[t] \notin InSchedule
  /\ ~At("select") => i = NR_TASKS - 1 /\ c = -1 /\ late = {}
  /\ ~At("select") /\ ~At("switch") => next = 0

(* In the choice, next is a ready task when c is a counter, and a ready task  *)
(* that the round has looked at is no reason to stay at c = -1 only if it     *)
(* was woken too late.                                                      *)
Scanned ==
  /\ At("select") => IF c = -1 THEN next = 0 ELSE next \in Users /\ state[next] = TASK_RUNNING
  /\ At("select") /\ Wide /\ c = -1 =>
       \A t \in Users : t > i /\ state[t] = TASK_RUNNING => t \in late

(* The task that schedule() has chosen is ready until it is switched to.    *)
ChosenReady == At("switch") => next = 0 \/ state[next] = TASK_RUNNING

(* The inductive invariant.  A counter is bounded because the priorities     *)
(* are; the choice stays ready because it is made by the one task that runs. *)
Inv == TypeOK /\ BelowTop /\ CounterBounded /\ OneScan /\ Scanned /\ ChosenReady

USE DEF TASK_RUNNING, TASK_INTERRUPTIBLE, TASK_UNINTERRUPTIBLE

(* A long holds every value between its bounds.                             *)
LEMMA LongIsLong ==
  ASSUME NEW a \in (-LONG_MAX - 1)..LONG_MAX, NEW b \in (-LONG_MAX - 1)..LONG_MAX
  PROVE  /\ Long(a - b) \in (-LONG_MAX - 1)..LONG_MAX
         /\ Long(a + b) \in (-LONG_MAX - 1)..LONG_MAX
  BY SchedAssumption DEF Long

(* ... and nothing is lost when a sum is one of those.                      *)
LEMMA LongExact ==
  ASSUME NEW x \in (-LONG_MAX - 1)..LONG_MAX
  PROVE  Long(x) = x
  BY SchedAssumption DEF Long

(* Half a long is a long.                                                   *)
LEMMA HalfIsLong ==
  ASSUME NEW a \in (-LONG_MAX - 1)..LONG_MAX
  PROVE  a \div 2 \in (-LONG_MAX - 1)..LONG_MAX
  BY SchedAssumption

(* What Wide says.                                                          *)
LEMMA WideTwice ==
  ASSUME Wide, TypeOK
  PROVE  2 * top <= LONG_MAX /\ top \in Int
  BY SchedAssumption DEF Wide, TypeOK

(* A refill keeps a counter below twice the highest priority, and gives the *)
(* task at least its priority.                                              *)
LEMMA RefillBounds ==
  ASSUME Wide, TypeOK, NEW x \in Int, x >= 0, x < 2 * top, NEW p \in 1..top
  PROVE  LET n == Long((x \div 2) + p)
         IN n \in Int /\ n > 0 /\ n < 2 * top
<1> DEFINE h == x \div 2
<1>0. 2 * top <= LONG_MAX /\ top \in Int /\ LONG_MAX \in Nat
  BY WideTwice, SchedAssumption
<1>1. h \in Int /\ h >= 0 /\ h < top
  BY <1>0
<1> HIDE DEF h
<1>2. h + p \in (-LONG_MAX - 1)..LONG_MAX
  BY <1>1, <1>0
<1>3. Long(h + p) = h + p
  BY <1>2, LongExact
<1> QED BY <1>0, <1>1, <1>3 DEF h

(* The tasks main has forked satisfy the invariant.                         *)
LEMMA InitInv ==
  ASSUME Init
  PROVE  Inv
  BY SchedAssumption DEF Init, Inv, TypeOK, BelowTop, CounterBounded, OneScan, Scanned, ChosenReady,
     At, Tasks, Users, Backs, InSchedule, NoAlarm, Passed

(* Every step of schedule(), of the system calls and of the interrupts keeps  *)
(* the types.                                                               *)
LEMMA StepTypes ==
  ASSUME TypeOK, [Next]_vars
  PROVE  TypeOK'
<1> USE SchedAssumption DEF TypeOK, Tasks, Users, InSchedule, Backs
<1>1. CASE ScheduleAlarms
  BY <1>1 DEF ScheduleAlarms, At, Goto, Expired, NoAlarm, Passed, round
<1>2. CASE Refill
  <2>1. ASSUME NEW t \in Tasks
        PROVE  Long((counter[t] \div 2) + priority[t]) \in (-LONG_MAX - 1)..LONG_MAX
    <3>1. PICK x \in (-LONG_MAX - 1)..LONG_MAX : x = counter[t] \div 2
      BY HalfIsLong
    <3>2. PICK p \in (-LONG_MAX - 1)..LONG_MAX : p = priority[t]
      OBVIOUS
    <3> QED BY <3>1, <3>2, LongIsLong
  <2> DEFINE n(t) == Long((counter[t] \div 2) + priority[t])
  <2>2. counter' = [t \in Tasks |-> IF t = 0 THEN counter[t] ELSE n(t)]
    BY <1>2 DEF Refill
  <2>3. \A t \in Tasks : n(t) \in (-LONG_MAX - 1)..LONG_MAX
    BY <2>1
  <2> HIDE DEF n
  <2>4. counter' \in [Tasks -> (-LONG_MAX - 1)..LONG_MAX]
    BY <2>2, <2>3
  <2>5. i' \in Tasks /\ c' \in -1..LONG_MAX /\ next' \in Tasks /\ late' = {} /\ quiet' = TRUE
    BY <1>2 DEF Refill, NewRound
  <2>6. UNCHANGED <<current, state, priority, alarm, signal, blocked, pc, back, top>>
    BY <1>2 DEF Refill
  <2> QED BY <2>4, <2>5, <2>6
<1>3. CASE Look
  <2>1. i' \in Tasks /\ next' \in Tasks
    BY <1>3 DEF Look
  <2>2. c' \in -1..LONG_MAX
    BY <1>3 DEF Look, Better
  <2>3. UNCHANGED <<current, state, counter, priority, alarm, signal, blocked, pc, back, late, quiet, top>>
    BY <1>3 DEF Look, taskvars
  <2> QED BY <2>1, <2>2, <2>3
<1>4. CASE Choose
  <2>1. i' \in Tasks /\ c' \in -1..LONG_MAX /\ late' = {} /\ quiet' = TRUE
    BY <1>4 DEF Choose, NewRound
  <2>2. pc' \in [Tasks -> Backs \cup InSchedule \cup {"user"}]
    BY <1>4 DEF Choose, Goto
  <2>3. UNCHANGED <<current, state, counter, priority, alarm, signal, blocked, back, next, top>>
    BY <1>4 DEF Choose, taskvars
  <2> QED BY <2>1, <2>2, <2>3
<1>4a. CASE SwitchTo
  <2>1. pc' \in [Tasks -> Backs \cup InSchedule \cup {"user"}] /\ current' \in Tasks /\ next' \in Tasks
        /\ back' \in Backs
    BY <1>4a DEF SwitchTo, Goto
  <2> QED BY <1>4a, <2>1 DEF SwitchTo, taskvars
<1>5. CASE Enter \/ sys_pause \/ Finish
  BY <1>5 DEF Enter, sys_pause, Finish, At, Goto, CallSchedule, taskvars, round
<1>6. ASSUME NEW k \in 0..MAX_ALARM, sys_alarm(k) PROVE TypeOK'
  BY <1>6 DEF sys_alarm, At, Goto, NoAlarm, Passed, round
<1>7. ASSUME NEW n \in (-MAX_NICE)..MAX_NICE, sys_nice(n) PROVE TypeOK'
  <2>1. PICK p \in (-LONG_MAX - 1)..LONG_MAX : p = Long(priority[current] - n)
    <3>1. PICK x \in (-LONG_MAX - 1)..LONG_MAX : x = priority[current]
      OBVIOUS
    <3>2. n \in (-LONG_MAX - 1)..LONG_MAX
      OBVIOUS
    <3> QED BY <3>1, <3>2, LongIsLong
  <2>2. priority' \in [Tasks -> 1..LONG_MAX] /\ top' \in 1..LONG_MAX
    <3>1. CASE p > 0
      <4>1. priority' = [priority EXCEPT ![current] = p] /\ top' = IF p > top THEN p ELSE top
        BY <1>7, <2>1, <3>1 DEF sys_nice
      <4>2. p \in 1..LONG_MAX
        BY <3>1
      <4> QED BY <4>1, <4>2
    <3>2. CASE ~(p > 0)
      BY <1>7, <2>1, <3>2 DEF sys_nice
    <3> QED BY <3>1, <3>2
  <2> QED BY <1>7, <2>2 DEF sys_nice, At, Goto, round
<1>8. ASSUME NEW m \in SUBSET Signals, sys_ssetmask(m) PROVE TypeOK'
  BY <1>8 DEF sys_ssetmask, At, Goto, round
<1>9. ASSUME NEW how \in {TASK_INTERRUPTIBLE, TASK_UNINTERRUPTIBLE}, Sleep(how) PROVE TypeOK'
  BY <1>9 DEF Sleep, At, CallSchedule, Goto, round
<1>10. CASE LeaveCall
  BY <1>10 DEF LeaveCall, At, CallSchedule, Goto, taskvars, round
<1>11. CASE ReturnToUser
  BY <1>11 DEF ReturnToUser, At, Goto, round
<1>12. CASE do_timer
  <2>1. Long(counter[current] - 1) \in (-LONG_MAX - 1)..LONG_MAX
    <3>1. PICK x \in (-LONG_MAX - 1)..LONG_MAX : x = counter[current]
      OBVIOUS
    <3>2. PICK y \in (-LONG_MAX - 1)..LONG_MAX : y = 1
      OBVIOUS
    <3> QED BY <3>1, <3>2, LongIsLong
  <2>2. counter' \in [Tasks -> (-LONG_MAX - 1)..LONG_MAX]
    BY <1>12, <2>1 DEF do_timer
  <2>3. alarm' \in [Tasks -> {NoAlarm, Passed} \cup 0..MAX_ALARM]
    <3>1. ASSUME NEW t \in Tasks
          PROVE  (IF alarm[t] \in {NoAlarm, Passed} THEN alarm[t] ELSE alarm[t] - 1)
                   \in {NoAlarm, Passed} \cup 0..MAX_ALARM
      <4>1. CASE alarm[t] \in {NoAlarm, Passed}
        BY <4>1
      <4>2. CASE alarm[t] \in 0..MAX_ALARM
        <5>1. alarm[t] \notin {NoAlarm, Passed}
          BY <4>2 DEF NoAlarm, Passed
        <5>2. alarm[t] - 1 = Passed \/ alarm[t] - 1 \in 0..MAX_ALARM
          BY <4>2 DEF Passed
        <5> QED BY <5>1, <5>2
      <4> QED BY <4>1, <4>2
    <3> QED BY <1>12, <3>1 DEF do_timer
  <2>4. pc' \in [Tasks -> Backs \cup InSchedule \cup {"user"}] /\ back' \in Backs
    BY <1>12 DEF do_timer, Goto, CallSchedule
  <2>5. quiet' \in BOOLEAN
    BY <1>12, Zenon DEF do_timer
  <2> QED BY <1>12, <2>2, <2>3, <2>4, <2>5 DEF do_timer
<1>13. ASSUME NEW t \in Tasks, WakeUp(t) PROVE TypeOK'
  BY <1>13 DEF WakeUp
<1>14. ASSUME NEW t \in Tasks, NEW s \in Signals, Send(t, s) PROVE TypeOK'
  BY <1>14 DEF Send, round
<1>15. CASE UNCHANGED vars
  BY <1>15 DEF vars
<1> QED
  BY <1>1, <1>2, <1>3, <1>4, <1>4a, <1>5, <1>6, <1>7, <1>8, <1>9, <1>10, <1>11, <1>12, <1>13,
     <1>14, <1>15 DEF Next, Schedule, SysCall, InCall, Interrupt

(* ... and the bounds on priorities and counters.                           *)
LEMMA StepBounds ==
  ASSUME TypeOK, TypeOK', BelowTop, CounterBounded, [Next]_vars
  PROVE  BelowTop' /\ CounterBounded'
<1>0. /\ \A t \in Tasks : counter[t] \in Int /\ priority[t] \in Int /\ priority[t] >= 1
      /\ \A t \in Tasks : priority[t] <= LONG_MAX
      /\ top \in Int /\ top' \in Int /\ current \in Tasks /\ LONG_MAX \in Nat
      /\ DOMAIN counter = Tasks /\ DOMAIN priority = Tasks
  <2>1. /\ counter \in [Tasks -> (-LONG_MAX - 1)..LONG_MAX] /\ priority \in [Tasks -> 1..LONG_MAX]
        /\ top \in 1..LONG_MAX /\ top' \in 1..LONG_MAX /\ current \in Tasks /\ LONG_MAX \in Nat
    BY SchedAssumption DEF TypeOK
  <2> QED BY <2>1
<1>1. CASE Refill
  <2>1. UNCHANGED <<priority, top>>
    BY <1>1 DEF Refill
  <2>2. ASSUME Wide, NEW t \in Tasks PROVE counter'[t] >= 0 /\ counter'[t] < 2 * top
    <3>1. counter[t] \in Int /\ counter[t] >= 0 /\ counter[t] < 2 * top /\ priority[t] \in 1..top
      BY <1>0, <2>2 DEF CounterBounded, BelowTop
    <3> DEFINE n == Long((counter[t] \div 2) + priority[t])
    <3>2. n \in Int /\ n > 0 /\ n < 2 * top
      BY <2>2, <3>1, RefillBounds
    <3>3. counter'[t] = IF t = 0 THEN counter[t] ELSE n
      BY <1>1 DEF Refill
    <3> HIDE DEF n
    <3>4. CASE t = 0
      BY <3>1, <3>3, <3>4
    <3>5. CASE t # 0
      BY <3>2, <3>3, <3>5
    <3> QED BY <3>4, <3>5
  <2> QED BY <2>1, <2>2 DEF BelowTop, CounterBounded, Wide
<1>2. ASSUME NEW n \in (-MAX_NICE)..MAX_NICE, sys_nice(n) PROVE BelowTop' /\ CounterBounded'
  <2>1. PICK p \in Int : p = Long(priority[current] - n)
    BY <1>0, SchedAssumption DEF Long
  <2>2. counter' = counter
    BY <1>2 DEF sys_nice
  <2>3. top' >= top /\ \A t \in Tasks : priority'[t] <= top'
    <3>1. CASE p > 0
      <4>1. priority' = [priority EXCEPT ![current] = p] /\ top' = IF p > top THEN p ELSE top
        BY <1>2, <2>1, <3>1 DEF sys_nice
      <4> QED BY <1>0, <4>1 DEF BelowTop
    <3>2. CASE ~(p > 0)
      BY <1>0, <1>2, <2>1, <3>2 DEF sys_nice, BelowTop
    <3> QED BY <3>1, <3>2
  <2>4. CounterBounded'
    <3>1. Wide' => Wide
      BY <1>0, <2>3, SchedAssumption DEF Wide
    <3> QED BY <1>0, <2>2, <2>3, <3>1 DEF CounterBounded
  <2> QED BY <2>3, <2>4 DEF BelowTop
<1>3. CASE do_timer
  <2>1. UNCHANGED <<priority, top>>
    BY <1>3 DEF do_timer
  <2>2. ASSUME Wide, NEW t \in Tasks PROVE counter'[t] >= 0 /\ counter'[t] < 2 * top
    <3>1. counter[current] \in 0..LONG_MAX
      BY <1>0, <2>2, WideTwice DEF CounterBounded
    <3>2. Long(counter[current] - 1) = counter[current] - 1
      BY <3>1, <1>0, LongExact
    <3>3. counter'[t] = IF t = current
                        THEN IF counter[t] - 1 > 0 THEN counter[t] - 1 ELSE 0
                        ELSE counter[t]
      BY <1>0, <1>3, <3>2 DEF do_timer
    <3> QED BY <1>0, <2>2, <3>3 DEF CounterBounded
  <2> QED BY <2>1, <2>2 DEF BelowTop, CounterBounded, Wide
<1>4. CASE UNCHANGED <<counter, priority, top>>
  BY <1>4 DEF BelowTop, CounterBounded, Wide
<1>5. Refill \/ (\E n \in (-MAX_NICE)..MAX_NICE : sys_nice(n)) \/ do_timer
        \/ UNCHANGED <<counter, priority, top>>
  BY Zenon DEF Next, Schedule, SysCall, InCall, Interrupt, ScheduleAlarms, Look, Choose, SwitchTo,
     Enter, sys_pause, sys_alarm, sys_ssetmask, Finish, Sleep, LeaveCall, ReturnToUser, WakeUp, Send,
     taskvars, vars
<1> QED BY <1>1, <1>2, <1>3, <1>4, <1>5

(* ... and the shape of the choice.                                         *)
LEMMA StepChoice ==
  ASSUME Inv, TypeOK', [Next]_vars
  PROVE  OneScan' /\ Scanned' /\ ChosenReady'
<1> USE SchedAssumption DEF Inv, TypeOK, Tasks, Users, OneScan, InSchedule, Backs
<1>1. CASE ScheduleAlarms
  BY <1>1 DEF ScheduleAlarms, At, Goto, round, Scanned, ChosenReady
<1>2. CASE Look
  <2>1. OneScan' /\ ChosenReady'
    BY <1>2 DEF Look, At, taskvars, ChosenReady
  <2>2. i \in Users /\ i' = i - 1 /\ counter' = counter /\ state' = state /\ late' = late /\ top' = top
        /\ At("select")
    BY <1>2 DEF Look, taskvars
  <2>3. CASE Better(i)
    <3>1. c' = counter[i] /\ next' = i /\ state[i] = TASK_RUNNING /\ c' > -1
      BY <1>2, <2>2, <2>3 DEF Look, Better
    <3>2. c' # -1
      BY <3>1
    <3>3. next' \in Users /\ state'[next'] = TASK_RUNNING
      BY <2>2, <3>1
    <3> QED BY <2>1, <3>2, <3>3 DEF Scanned
  <2>4. CASE ~Better(i)
    <3>1. c' = c /\ next' = next
      BY <1>2, <2>4 DEF Look
    <3>2. Wide /\ state[i] = TASK_RUNNING => c # -1
      <4>1. counter[i] \in Int /\ c \in Int /\ (Wide => counter[i] >= 0)
        <5>1. Wide => counter[i] >= 0
          BY <2>2 DEF CounterBounded
        <5>2. counter[i] \in Int /\ c \in Int
          BY <2>2
        <5> QED BY <5>1, <5>2
      <4> QED BY <4>1, <2>4 DEF Better
    <3>3. (At("select") => IF c = -1 THEN next = 0 ELSE next \in Users /\ state[next] = TASK_RUNNING)'
      BY <2>2, <3>1 DEF Scanned
    <3>4. Wide' /\ c' = -1 => \A t \in Users : t > i' /\ state'[t] = TASK_RUNNING => t \in late'
      BY <2>2, <3>1, <3>2 DEF Scanned, Wide
    <3> QED BY <2>1, <3>3, <3>4 DEF Scanned
  <2> QED BY <2>3, <2>4
<1>3. CASE Refill
  BY <1>3 DEF Refill, NewRound, At, Scanned, ChosenReady
<1>4. CASE Choose
  <2>1. state' = state /\ next' = next /\ current' = current
    BY <1>4 DEF Choose, taskvars
  <2>2. next = 0 \/ state[next] = TASK_RUNNING
    BY <1>4 DEF Choose, Scanned, At
  <2>3. pc'[current] = "switch" /\ OneScan'
    BY <1>4 DEF Choose, NewRound, Goto, At
  <2> QED BY <2>1, <2>2, <2>3 DEF Scanned, ChosenReady, At
<1>5. CASE SwitchTo
  <2>1. \A t \in Tasks : pc'[t] \notin InSchedule
    BY <1>5 DEF SwitchTo, Goto
  <2>2. i' = NR_TASKS - 1 /\ c' = -1 /\ late' = {} /\ next' = 0
    BY <1>5 DEF SwitchTo, At
  <2> QED BY <2>1, <2>2 DEF At, Scanned, ChosenReady
<1>6. CASE Enter \/ Finish
  BY <1>6 DEF Enter, Finish, At, Goto, taskvars, round, Scanned, ChosenReady
<1>6a. CASE sys_pause
  BY <1>6a DEF sys_pause, At, Goto, CallSchedule, round, Scanned, ChosenReady
<1>7. ASSUME NEW k \in 0..MAX_ALARM, sys_alarm(k) PROVE OneScan' /\ Scanned' /\ ChosenReady'
  BY <1>7 DEF sys_alarm, At, Goto, round, Scanned, ChosenReady
<1>8. ASSUME NEW n \in (-MAX_NICE)..MAX_NICE, sys_nice(n) PROVE OneScan' /\ Scanned' /\ ChosenReady'
  BY <1>8 DEF sys_nice, At, Goto, round, Scanned, ChosenReady
<1>9. ASSUME NEW m \in SUBSET Signals, sys_ssetmask(m) PROVE OneScan' /\ Scanned' /\ ChosenReady'
  BY <1>9 DEF sys_ssetmask, At, Goto, round, Scanned, ChosenReady
<1>10. ASSUME NEW how \in {TASK_INTERRUPTIBLE, TASK_UNINTERRUPTIBLE}, Sleep(how)
       PROVE  OneScan' /\ Scanned' /\ ChosenReady'
  BY <1>10 DEF Sleep, At, CallSchedule, Goto, round, Scanned, ChosenReady
<1>11. CASE LeaveCall
  BY <1>11 DEF LeaveCall, At, CallSchedule, Goto, taskvars, round, Scanned, ChosenReady
<1>12. CASE ReturnToUser
  BY <1>12 DEF ReturnToUser, At, Goto, round, Scanned, ChosenReady
<1>13. CASE do_timer
  BY <1>13 DEF do_timer, At, Goto, CallSchedule, Scanned, ChosenReady, Wide
<1>14. ASSUME NEW t \in Tasks, WakeUp(t) PROVE OneScan' /\ Scanned' /\ ChosenReady'
  BY <1>14 DEF WakeUp, At, Scanned, ChosenReady, Wide
<1>15. ASSUME NEW t \in Tasks, NEW s \in Signals, Send(t, s) PROVE OneScan' /\ Scanned' /\ ChosenReady'
  BY <1>15 DEF Send, round, At, Scanned, ChosenReady, Wide
<1>16. CASE UNCHANGED vars
  BY <1>16 DEF vars, At, Scanned, ChosenReady, Wide
<1> QED
  BY <1>1, <1>2, <1>3, <1>4, <1>5, <1>6, <1>6a, <1>7, <1>8, <1>9, <1>10, <1>11, <1>12, <1>13,
     <1>14, <1>15, <1>16 DEF Next, Schedule, SysCall, InCall, Interrupt

(* So it always holds.                                                      *)
LEMMA AlwaysInv == Spec => []Inv
<1>1. Inv /\ [Next]_vars => Inv'
  BY StepTypes, StepBounds, StepChoice DEF Inv
<1> QED BY <1>1, InitInv, PTL DEF Spec

(* What a task saves up by sleeping is bounded, and its counter never        *)
(* becomes negative, until a task asks nice for a priority of which a long    *)
(* cannot hold twice as much (sched.c:194-197, 457-462).                     *)
THEOREM SchedCounterBounded == Spec => []CounterBounded
  BY AlwaysInv, PTL DEF Inv

(* The scheduler's variables keep their types, whatever overflows.           *)
THEOREM SchedTypeOK == Spec => []TypeOK
  BY AlwaysInv, PTL DEF Inv

(* schedule() switches only to a ready task or to task 0, though interrupts  *)
(* come between any two looks and between its choice and the switch          *)
(* (sched.c:176-199).                                                       *)
THEOREM SchedSwitchToReady == Spec => SwitchToReady
<1>1. ASSUME Inv, Inv', [Next]_vars
      PROVE  [current' # current => current' = 0 \/ state'[current'] = TASK_RUNNING]_vars
  BY <1>1 DEF Inv, ChosenReady, Next, Schedule, SysCall, InCall, Interrupt, ScheduleAlarms, Look,
     Refill, Choose, SwitchTo, Enter, sys_pause, sys_alarm, sys_nice, sys_ssetmask, Finish, Sleep,
     LeaveCall, ReturnToUser, do_timer, WakeUp, Send, taskvars, vars, At
<1> QED BY <1>1, AlwaysInv, PTL DEF Spec, SwitchToReady

(* Task 0 is chosen only when every ready task was woken after the round had  *)
(* looked at it, as long as the counters have room (sched.c:176-190).         *)
THEOREM SchedIdleWhenNoneReady == Spec => IdleWhenNoneReady
<1>1. ASSUME Inv, [Next]_vars
      PROVE  [Choose /\ next' = 0 /\ Wide =>
                \A t \in Users : state[t] = TASK_RUNNING => t \in late]_vars
  <2> SUFFICES ASSUME Choose, next' = 0, Wide, NEW t \in Users, state[t] = TASK_RUNNING
               PROVE  t \in late
    OBVIOUS
  <2>1. At("select") /\ next = 0 /\ i = 0 /\ t > i
    BY SchedAssumption DEF Choose, Users, Tasks
  <2>2. c = -1
    BY <1>1, <2>1 DEF Inv, Scanned, Users
  <2> QED BY <1>1, <2>1, <2>2 DEF Inv, Scanned
<1> QED BY <1>1, AlwaysInv, PTL DEF Spec, IdleWhenNoneReady

(* Each refill leaves a ready task with time, so the loop of schedule()       *)
(* ends with the next round in which no tick comes, as long as the counters   *)
(* have room (sched.c:176-198).                                             *)
THEOREM SchedRefillGivesTime == Spec => RefillGivesTime
<1>1. ASSUME Inv, [Next]_vars
      PROVE  [Refill /\ Wide => \E t \in Users : state[t] = TASK_RUNNING /\ counter'[t] > 0]_vars
  <2> SUFFICES ASSUME Refill, Wide
               PROVE  \E t \in Users : state[t] = TASK_RUNNING /\ counter'[t] > 0
    OBVIOUS
  <2>1. next \in Users /\ state[next] = TASK_RUNNING
    BY <1>1 DEF Inv, Scanned, Refill
  <2>2. next \in Tasks /\ next # 0
    BY <2>1 DEF Users
  <2>3. counter[next] \in Int /\ counter[next] >= 0 /\ counter[next] < 2 * top
        /\ priority[next] \in 1..top
    BY <1>1, <2>2, SchedAssumption DEF Inv, TypeOK, CounterBounded, BelowTop
  <2>4. counter'[next] = Long((counter[next] \div 2) + priority[next])
    BY <2>2 DEF Refill
  <2>5. counter'[next] > 0
    BY <1>1, <2>3, <2>4, RefillBounds DEF Inv
  <2> QED BY <2>1, <2>5
<1> QED BY <1>1, AlwaysInv, PTL DEF Spec, RefillGivesTime

-----------------------------------------------------------------------------
(* The floppy driver.  Its inductive invariant: what the driver is doing (one *)
(* thing, for the request at the head of the queue, with the drive of that    *)
(* request selected and held), and for how long the motor is still on.  The   *)
(* time is what MotorRuns needs: floppy_change ends with floppy_off of the     *)
(* drive that the driver may be using, and from then on the motor is counted  *)
(* down; it lasts because OFF ticks are more than the rest of a request takes. *)
Handlers == {"rw_interrupt", "seek_interrupt", "recal_interrupt", "reset_interrupt"}

Requests == [drive : Drives, track : Tracks, errors : Nat]
Statics == [reset : BOOLEAN, recalibrate : BOOLEAN, seek : BOOLEAN, current_drive : Drives,
            current_track : Nat, seek_track : Nat, selected : BOOLEAN,
            do_floppy : Handlers \cup {NULL}]
Changes == [pc : {"idle", "on", "motor", "test", "sleep", "select"}, nr : Drives]
Entries == [jiffies : 1..SPIN, fn : {"floppy_on_interrupt", "transfer"}]

(* The types of the driver's state.                                          *)
Typed ==
  /\ queue \in Seq(Requests)
  /\ run \in {"none", "do_fd_request", "repeat", "floppy_on_interrupt", "transfer", "setup_rw_floppy"}
  /\ d \in Statics
  /\ fdc = NoOp \/ fdc \in [op : {"rw", "seek", "recal", "reset"}, age : 0..ANSWER]
  /\ dor \in [drive : Drives, on : SUBSET Drives]
  /\ mon_timer \in [Drives -> 0..SPIN] /\ moff_timer \in [Drives -> 0..NEVER]
  /\ timers \in Seq(Entries) /\ tick \in BOOLEAN
  /\ chg \in Changes

(* One thing at a time: a timer, a function to be run, or a command.          *)
Single ==
  /\ timers = <<>> \/ (Len(timers) = 1 /\ run = "none" /\ fdc = NoOp)
  /\ run = "none" \/ fdc = NoOp

(* The handler of the command is the one that waits for its interrupt.        *)
Armed ==
  /\ fdc.op = "rw" => d.do_floppy = "rw_interrupt"
  /\ fdc.op = "seek" => d.do_floppy = "seek_interrupt"
  /\ fdc.op = "recal" => d.do_floppy = "recal_interrupt"
  /\ fdc.op = "reset" => d.do_floppy = "reset_interrupt"

(* f is to be run, now or by its timer.                                      *)
Pending(f) == run = f \/ (timers # <<>> /\ timers[1].fn = f)

(* The current request is being served, and the drive is held for it.         *)
Holding == Pending("transfer") \/ run = "setup_rw_floppy" \/ fdc.op \in {"rw", "seek"}
Active == Pending("floppy_on_interrupt") \/ Holding

Serving ==
  /\ Active => queue # <<>> /\ d.current_drive = CURRENT.drive /\ d.seek_track = CURRENT.track
  /\ Holding => d.selected /\ dor.drive = d.current_drive

(* The motor of the drive runs for n more ticks, and for the one of which     *)
(* do_floppy_timer has not heard yet.                                        *)
Lasts(n) == /\ d.current_drive \in dor.on
            /\ moff_timer[d.current_drive] >= n + (IF tick THEN 1 ELSE 0)

Wait == IF timers = <<>> THEN 0 ELSE timers[1].jiffies

(* ... as long as the rest of the request can take.                          *)
Turning ==
  /\ Pending("floppy_on_interrupt") => Lasts(Wait + SETTLE + 2 * ANSWER)
  /\ Pending("transfer") => Lasts(Wait + 2 * ANSWER)
  /\ run = "setup_rw_floppy" => Lasts(ANSWER)
  /\ fdc.op = "seek" => Lasts(2 * ANSWER - fdc.age)
  /\ fdc.op = "rw" => Lasts(ANSWER - fdc.age)

Parts == Single /\ Armed /\ Serving /\ Turning

FInv == Typed /\ (~fault => Parts)

-----------------------------------------------------------------------------
(* The motor is left on for longer than any request takes (3 s against the    *)
(* half second of a start, the settling of a head and two answers).          *)
LEMMA Times ==
  /\ SPIN \in Nat /\ SETTLE \in Nat /\ SETTLE >= 1 /\ SETTLE <= SPIN /\ ANSWER \in Nat
  /\ OFF \in Nat /\ OFF > SPIN + SETTLE + 2 * ANSWER /\ NEVER = OFF + 1 /\ NEVER \in Nat
  /\ Tracks \subseteq Nat /\ 0 \in Drives /\ SETTLE # 0
  BY FloppyAssumption DEF NEVER

(* The one entry of a list is counted down.                                  *)
LEMMA FirstSet ==
  ASSUME NEW S, NEW s \in Seq(S), Len(s) = 1, NEW e \in S
  PROVE  [s EXCEPT ![1] = e] \in Seq(S) /\ Len([s EXCEPT ![1] = e]) = 1 /\ [s EXCEPT ![1] = e][1] = e
<1> DEFINE r == [s EXCEPT ![1] = e]
<1>1. s \in [1..1 -> S]
  OBVIOUS
<1>2. r \in [1..1 -> S] /\ r[1] = e
  BY <1>1
<1> HIDE DEF r
<1>3. r \in UNION {[1..n -> S] : n \in Nat} /\ DOMAIN r = 1..1
  BY <1>2
<1>4. r \in Seq(S)
  BY <1>3, SeqDef, Zenon
<1>5. Len(r) \in Nat /\ DOMAIN r = 1..Len(r)
  BY <1>4, LenProperties, Zenon
<1>6. Len(r) = 1
  BY <1>3, <1>5
<1> QED
  BY <1>2, <1>4, <1>6 DEF r

(* add_timer of the first entry.                                             *)
LEMMA FirstEntry ==
  ASSUME NEW e, NEW j, NEW fn, e = [jiffies |-> j, fn |-> fn]
  PROVE  Inserted(<<>>, e) = <<e>>
<1> DEFINE s == <<>>
           F(f) == [m \in 1..(Len(s) + 1) |->
                     [at |-> m, left |-> IF m = 1 THEN e.jiffies ELSE f[m - 1].left - s[m - 1].jiffies]]
           ins == CHOOSE f : f = F(f)
           stop == CHOOSE m \in 1..(Len(s) + 1) :
                /\ m > Len(s) \/ s[m].jiffies >= ins[m].left
                /\ \A k \in 1..(m - 1) : s[k].jiffies < ins[k].left
<1>1. 1..(Len(s) + 1) = {1} /\ Len(s) = 0
  OBVIOUS
<1>2. ins = F(ins)
  <2> DEFINE g == [m \in {1} |-> [at |-> m, left |-> e.jiffies]]
  <2>1. g = F(g)
    BY <1>1
  <2> QED
    BY <2>1
<1>3. ins[1].left = e.jiffies
  BY <1>1, <1>2
<1>4. stop = 1
  BY <1>1
<1>5. [e EXCEPT !.jiffies = ins[1].left] = e
  BY <1>3
<1>6. SubSeq(s, 1, stop - 1) = <<>> /\ SubSeq(s, stop, Len(s)) = <<>>
  BY <1>1, <1>4
<1>7. Inserted(<<>>, e) = SubSeq(s, 1, stop - 1) \o <<[e EXCEPT !.jiffies = ins[stop].left]>>
       \o SubSeq(s, stop, Len(s))
  BY DEF Inserted
<1>8. <<>> \o <<e>> \o <<>> = <<e>>
  OBVIOUS
<1> HIDE DEF s, ins, stop
<1> QED
  BY <1>4, <1>5, <1>6, <1>7, <1>8

(* add_timer with no other entry: a function of the driver is called at once, *)
(* or is the one entry of the list.                                          *)
LEMMA AddTimer ==
  ASSUME timers = <<>>, NEW j \in 0..SPIN, NEW fn \in {"floppy_on_interrupt", "transfer"}, add_timer(j, fn)
  PROVE  /\ j = 0 => run' = fn /\ timers' = <<>>
         /\ j # 0 => /\ run' = "none" /\ timers' # <<>> /\ Len(timers') = 1
                     /\ timers'[1] = [jiffies |-> j, fn |-> fn]
         /\ timers' \in Seq(Entries)
<1>1. j \in Nat /\ (j <= 0 <=> j = 0)
  BY Times
<1>2. CASE j = 0
  BY <1>1, <1>2 DEF add_timer
<1>3. CASE j # 0
  <2> DEFINE e == [jiffies |-> j, fn |-> fn]
  <2>1. run' = "none" /\ timers' = Inserted(<<>>, e)
    BY <1>1, <1>3 DEF add_timer
  <2>2. timers' = <<e>>
    BY <2>1, FirstEntry
  <2>3. e \in Entries
    BY <1>1, <1>3, Times DEF Entries
  <2> HIDE DEF e
  <2>4. <<e>> \in Seq(Entries) /\ Len(<<e>>) = 1 /\ <<e>>[1] = e /\ <<e>> # <<>>
    BY <2>3
  <2> QED
    BY <1>3, <2>1, <2>2, <2>4 DEF e
<1> QED
  BY <1>2, <1>3

(* The motor of nr is on from now on, and it is not turned off.               *)
LEMMA TicksFacts ==
  ASSUME Typed, NEW nr \in Drives, Ticks(nr)
  PROVE  /\ dor' \in [drive : Drives, on : SUBSET Drives]
         /\ dor'.on = dor.on \cup {nr} /\ (d.selected => dor'.drive = dor.drive)
         /\ moff_timer' = [moff_timer EXCEPT ![nr] = NEVER] /\ moff_timer' \in [Drives -> 0..NEVER]
         /\ mon_timer' \in [Drives -> 0..SPIN]
<1> DEFINE mask == [drive |-> IF d.selected THEN dor.drive ELSE nr, on |-> dor.on \cup {nr}]
           m == CASE mask.on # dor.on -> SPIN
                  [] mask.on = dor.on /\ mask # dor /\ mon_timer[nr] < SETTLE -> SETTLE
                  [] OTHER -> mon_timer[nr]
<1>1. /\ dor' = mask /\ moff_timer' = [moff_timer EXCEPT ![nr] = NEVER]
      /\ mon_timer' = [mon_timer EXCEPT ![nr] = m]
  BY DEF Ticks
<1>2. mask \in [drive : Drives, on : SUBSET Drives] /\ mask.on = dor.on \cup {nr}
      /\ (d.selected => mask.drive = dor.drive)
  BY DEF Typed
<1> HIDE DEF mask
<1>3. m \in 0..SPIN
  BY Times DEF Typed
<1> HIDE DEF m
<1> QED
  BY <1>1, <1>2, <1>3, Times DEF Typed

(* A command is sent, or its handler is armed for nothing.                    *)
LEMMA SendFacts ==
  ASSUME NEW k \in Statics, NEW h \in Handlers, NEW op \in {"rw", "seek", "recal", "reset"},
         fdc = NoOp, SendCommand(k, h, op)
  PROVE  /\ d' \in Statics /\ d'.do_floppy = h /\ d'.current_drive = k.current_drive
         /\ d'.seek_track = k.seek_track /\ d'.selected = k.selected
         /\ \/ run' = "none" /\ fdc' = [op |-> op, age |-> 0]
            \/ run' = "do_fd_request" /\ fdc' = NoOp
<1>1. PICK ok \in Talks : /\ d' = [k EXCEPT !.do_floppy = h, !.reset = ~ok]
                          /\ fdc' = IF ok THEN [op |-> op, age |-> 0] ELSE fdc
                          /\ run' = IF ok THEN "none" ELSE "do_fd_request"
  BY DEF SendCommand
<1>2. PICK b \in BOOLEAN : b = ~ok
  BY DEF Talks
<1>3. d' = [k EXCEPT !.do_floppy = h, !.reset = b]
  BY <1>1, <1>2
<1> QED
  BY <1>1, <1>3 DEF Statics

(* Nothing is served: there is nothing to keep.                              *)
LEMMA Quiet ==
  ASSUME timers' = <<>>, run' \in {"none", "do_fd_request", "repeat"},
         \/ fdc' = NoOp
         \/ /\ run' = "none"
            /\ \/ fdc'.op = "recal" /\ d'.do_floppy = "recal_interrupt"
               \/ fdc'.op = "reset" /\ d'.do_floppy = "reset_interrupt"
  PROVE  Parts'
  BY DEF Parts, Single, Armed, Serving, Turning, Active, Holding, Pending, NoOp

(* The request at the head of the queue.                                     *)
LEMMA TheCurrent ==
  ASSUME Typed, queue # <<>>
  PROVE  /\ CURRENT = queue[1] /\ CURRENT \in Requests /\ Len(queue) \in Nat /\ Len(queue) >= 1
         /\ CURRENT.drive \in Drives /\ CURRENT.track \in Tracks /\ CURRENT.track \in Nat
         /\ CURRENT.errors \in Nat /\ Tail(queue) \in Seq(Requests)
<1>1. CURRENT = queue[1] /\ CURRENT \in Requests /\ Len(queue) \in Nat /\ Len(queue) >= 1
      /\ Tail(queue) \in Seq(Requests)
  BY DEF Typed, CURRENT
<1> QED
  BY <1>1, Times DEF Requests

(* do_fd_request up to the point where it serves a request.                   *)
LEMMA DriverQuiet ==
  ASSUME Typed, Parts, reset_floppy \/ recalibrate_floppy \/ NoRequest \/ OutOfRange
  PROVE  Typed' /\ Parts'
<1>1. timers = <<>> /\ fdc = NoOp /\ d \in Statics
  BY DEF Parts, Single, Typed, reset_floppy, recalibrate_floppy, NoRequest, OutOfRange, Enters, Ready
<1>2. CASE reset_floppy
  <2>1. d' \in Statics /\ d'.do_floppy = "reset_interrupt"
    BY <1>1, <1>2 DEF reset_floppy, Statics, Handlers
  <2>2. Typed'
    BY <1>2, <2>1, Times DEF reset_floppy, Typed, motor, others
  <2> QED
    BY <1>1, <1>2, <2>1, <2>2, Quiet DEF reset_floppy
<1>3. CASE recalibrate_floppy
  <2> DEFINE k == [d EXCEPT !.seek = FALSE, !.recalibrate = FALSE, !.current_track = 0]
  <2>1. k \in Statics
    BY <1>1 DEF Statics
  <2>2. SendCommand(k, "recal_interrupt", "recal") /\ UNCHANGED <<queue, motor, timers, chg, others>>
    BY <1>3 DEF recalibrate_floppy
  <2> HIDE DEF k
  <2>3. /\ d' \in Statics /\ d'.do_floppy = "recal_interrupt"
        /\ \/ run' = "none" /\ fdc' = [op |-> "recal", age |-> 0]
           \/ run' = "do_fd_request" /\ fdc' = NoOp
    BY <1>1, <2>1, <2>2, SendFacts DEF Handlers
  <2>4. Typed'
    BY <2>2, <2>3, Times DEF Typed, motor, others
  <2> QED
    BY <1>1, <2>2, <2>3, <2>4, Quiet
<1>4. CASE NoRequest
  <2>1. PICK b \in BOOLEAN : b = Kept
    BY <1>1 DEF Kept, Statics
  <2>2. d' = [d EXCEPT !.seek = b]
    BY <1>4, <2>1 DEF NoRequest
  <2>3. d' \in Statics
    BY <1>1, <2>2 DEF Statics
  <2>4. Typed'
    BY <1>4, <2>3 DEF NoRequest, Typed, motor, others
  <2> QED
    BY <1>1, <1>4, <2>4, Quiet DEF NoRequest
<1>5. CASE OutOfRange
  <2>1. PICK b \in BOOLEAN : b = (Kept \/ d.current_drive # CURRENT.drive)
    BY <1>1 DEF Kept, Statics
  <2>2. d' = [d EXCEPT !.current_drive = CURRENT.drive, !.seek = b]
    BY <1>5, <2>1 DEF OutOfRange
  <2>3. queue # <<>> /\ CURRENT.drive \in Drives /\ Tail(queue) \in Seq(Requests)
    BY <1>5, TheCurrent DEF OutOfRange
  <2>4. d' \in Statics
    BY <1>1, <2>2, <2>3 DEF Statics
  <2>5. queue' \in Seq(Requests) /\ moff_timer' \in [Drives -> 0..NEVER]
    <3>1. queue' = Tail(queue) /\ moff_timer' = [moff_timer EXCEPT ![CURRENT.drive] = OFF]
      BY <1>5 DEF OutOfRange, end_request
    <3>2. moff_timer \in [Drives -> 0..NEVER] /\ OFF \in 0..NEVER
      BY Times DEF Typed
    <3> HIDE DEF CURRENT
    <3> QED BY <2>3, <3>1, <3>2
  <2>6. Typed'
    BY <1>5, <2>4, <2>5 DEF OutOfRange, Typed, others
  <2> QED
    BY <1>1, <1>5, <2>6, Quiet DEF OutOfRange
<1> QED
  BY <1>2, <1>3, <1>4, <1>5

(* do_fd_request starts the motor for the current request and waits for it.    *)
LEMMA Starts ==
  ASSUME Typed, Parts, StartRequest
  PROVE  Typed' /\ Parts'
<1> DEFINE drv == CURRENT.drive
           j == mon_timer'[drv]
<1>1. timers = <<>> /\ fdc = NoOp /\ d \in Statics
  BY DEF Parts, Single, Typed, StartRequest, Enters, Ready
<1>2. queue # <<>> /\ drv \in Drives /\ CURRENT.track \in Nat
  BY TheCurrent DEF StartRequest
<1>3. PICK b \in BOOLEAN : b = (Kept \/ d.current_drive # drv \/ CURRENT.track # d.current_track)
  BY <1>1 DEF Kept, Statics
<1>4. /\ d' = [d EXCEPT !.current_drive = drv, !.seek_track = CURRENT.track, !.seek = b]
      /\ Ticks(drv) /\ add_timer(j, "floppy_on_interrupt")
      /\ UNCHANGED <<queue, fdc, chg, tick>>
  BY <1>3 DEF StartRequest, others
<1>5. d' \in Statics /\ d'.current_drive = drv /\ d'.seek_track = CURRENT.track
  BY <1>1, <1>2, <1>4 DEF Statics
<1>6. /\ dor' \in [drive : Drives, on : SUBSET Drives]
      /\ dor'.on = dor.on \cup {drv}
      /\ moff_timer' = [moff_timer EXCEPT ![drv] = NEVER] /\ moff_timer' \in [Drives -> 0..NEVER]
      /\ mon_timer' \in [Drives -> 0..SPIN]
  BY <1>2, <1>4, TicksFacts
<1>7. j \in 0..SPIN
  BY <1>2, <1>6
<1> HIDE DEF j
<1>8. /\ j = 0 => run' = "floppy_on_interrupt" /\ timers' = <<>>
      /\ j # 0 => /\ run' = "none" /\ timers' # <<>> /\ Len(timers') = 1
                  /\ timers'[1] = [jiffies |-> j, fn |-> "floppy_on_interrupt"]
      /\ timers' \in Seq(Entries)
  BY <1>1, <1>4, <1>7, AddTimer
<1>9. Typed'
  BY <1>4, <1>5, <1>6, <1>8 DEF Typed
<1>10. /\ Pending("floppy_on_interrupt")' /\ ~Pending("transfer")' /\ run' # "setup_rw_floppy" /\ fdc'.op = "none"
       /\ Wait' = j
  BY <1>1, <1>4, <1>7, <1>8, Times DEF Pending, Wait, NoOp
<1>11. Single' /\ Armed'
  BY <1>1, <1>4, <1>8, <1>10 DEF Single, Armed
<1>12. Serving'
  BY <1>2, <1>4, <1>5, <1>10 DEF Serving, Holding, CURRENT
<1>13. Turning'
  <2>1. d'.current_drive \in dor'.on /\ moff_timer'[d'.current_drive] = NEVER
    BY <1>2, <1>5, <1>6 DEF Typed
  <2>2. NEVER >= (j + SETTLE + 2 * ANSWER) + (IF tick' THEN 1 ELSE 0)
    BY <1>7, Times
  <2> QED
    BY <1>10, <2>1, <2>2 DEF Turning, Lasts
<1> QED
  BY <1>9, <1>11, <1>12, <1>13 DEF Parts

(* The motor has its speed: the drive is selected, and held.                  *)
LEMMA MotorOn ==
  ASSUME Typed, Parts, floppy_on_interrupt
  PROVE  Typed' /\ Parts'
<1> DEFINE drv == d.current_drive
           j == IF drv # dor.drive THEN SETTLE ELSE 0
<1>1. timers = <<>> /\ fdc = NoOp /\ d \in Statics /\ Pending("floppy_on_interrupt") /\ Wait = 0
  BY DEF Parts, Single, Typed, floppy_on_interrupt, Pending, Wait
<1>2. /\ d' = [d EXCEPT !.selected = TRUE] /\ dor' = [dor EXCEPT !.drive = drv]
      /\ UNCHANGED <<queue, fdc, mon_timer, moff_timer, chg, tick>>
  BY DEF floppy_on_interrupt, others
<1>3. d' \in Statics /\ d'.current_drive = drv /\ d'.seek_track = d.seek_track /\ d'.selected
  BY <1>1, <1>2 DEF Statics
<1>4. /\ dor' \in [drive : Drives, on : SUBSET Drives]
      /\ dor'.on = dor.on /\ dor'.drive = drv /\ drv \in Drives
  BY <1>1, <1>2 DEF Typed, Statics
<1>5. j \in 0..SPIN /\ j <= SETTLE /\ j \in Nat
  BY Times
<1>6. /\ j = 0 => run' = "transfer" /\ timers' = <<>>
      /\ j # 0 => /\ run' = "none" /\ timers' # <<>> /\ Len(timers') = 1
                  /\ timers'[1] = [jiffies |-> j, fn |-> "transfer"]
      /\ timers' \in Seq(Entries)
  <2>1. CASE drv # dor.drive
    <3>1. add_timer(j, "transfer")
      BY <2>1 DEF floppy_on_interrupt
    <3> HIDE DEF j
    <3> QED
      BY <1>1, <1>5, <3>1, AddTimer
  <2>2. CASE drv = dor.drive
    BY <1>1, <2>2, Times DEF floppy_on_interrupt, Typed
  <2> QED
    BY <2>1, <2>2
<1> HIDE DEF j
<1>7. Typed'
  BY <1>2, <1>3, <1>4, <1>6 DEF Typed
<1>8. /\ ~Pending("floppy_on_interrupt")' /\ Pending("transfer")' /\ run' # "setup_rw_floppy" /\ fdc'.op = "none"
      /\ Wait' = j
  BY <1>1, <1>2, <1>5, <1>6 DEF Pending, Wait, NoOp
<1>9. Single' /\ Armed'
  BY <1>1, <1>2, <1>6, <1>8 DEF Single, Armed
<1>10. Serving'
  BY <1>1, <1>2, <1>3, <1>4, <1>8 DEF Parts, Serving, Active, Holding, CURRENT
<1>11. Turning'
  <2>1. drv \in dor.on /\ moff_timer[drv] >= (0 + SETTLE + 2 * ANSWER) + (IF tick THEN 1 ELSE 0)
    BY <1>1 DEF Parts, Turning, Lasts
  <2>2. moff_timer[drv] \in Int
    BY <1>4, Times DEF Typed
  <2>3. moff_timer[drv] >= (j + 2 * ANSWER) + (IF tick THEN 1 ELSE 0)
    BY <1>5, <2>1, <2>2, Times
  <2> QED
    BY <1>2, <1>3, <1>4, <1>8, <2>1, <2>3 DEF Turning, Lasts
<1> QED
  BY <1>7, <1>9, <1>10, <1>11 DEF Parts

(* Going on with the request: the controller is told to seek or to transfer,  *)
(* or the next function is run, and none of it takes longer than foreseen.    *)
LEMMA GoesOn ==
  ASSUME Typed, Parts, Holding, timers' = <<>>, Typed',
         \/ run' = "setup_rw_floppy" /\ fdc' = NoOp
         \/ run' = "none" /\ fdc' = [op |-> "seek", age |-> 0] /\ d'.do_floppy = "seek_interrupt"
         \/ run' = "none" /\ fdc' = [op |-> "rw", age |-> 0] /\ d'.do_floppy = "rw_interrupt",
         NEW n \in Int, Lasts(n), n >= (IF fdc'.op = "seek" THEN 2 * ANSWER ELSE ANSWER),
         UNCHANGED <<queue, dor, moff_timer, tick>>, d'.current_drive = d.current_drive,
         d'.seek_track = d.seek_track, d'.selected = d.selected
  PROVE  Parts'
<1>1. Single' /\ Armed'
  BY DEF Single, Armed, NoOp
<1>2. Serving'
  BY DEF Parts, Serving, Active, Holding, CURRENT
<1>3. PICK m \in Int : m = (IF fdc'.op = "seek" THEN 2 * ANSWER ELSE ANSWER)
  BY Times
<1>4. Lasts(m)'
  <2>1. d.current_drive \in dor.on /\ moff_timer[d.current_drive] \in Int
    BY Times DEF Lasts, Typed, Statics
  <2>2. moff_timer[d.current_drive] >= m + (IF tick THEN 1 ELSE 0)
    BY <1>3, <2>1 DEF Lasts
  <2> QED
    BY <2>1, <2>2 DEF Lasts
<1>5. Turning'
  <2>1. CASE run' = "setup_rw_floppy"
    BY <1>3, <1>4, <2>1 DEF Turning, Pending, NoOp
  <2>2. CASE run' = "none" /\ fdc' = [op |-> "seek", age |-> 0]
    <3>1. m = 2 * ANSWER - fdc'.age
      BY <1>3, <2>2, Times
    <3> QED
      BY <1>4, <2>2, <3>1 DEF Turning, Pending
  <2>3. CASE run' = "none" /\ fdc' = [op |-> "rw", age |-> 0]
    <3>1. m = ANSWER - fdc'.age
      BY <1>3, <2>3, Times
    <3> QED
      BY <1>4, <2>3, <3>1 DEF Turning, Pending
  <2> QED
    BY <2>1, <2>2, <2>3
<1> QED
  BY <1>1, <1>2, <1>5 DEF Parts

(* transfer: back to do_fd_request for a reset, a seek, or setup_rw_floppy.    *)
LEMMA Transfers ==
  ASSUME Typed, Parts, transfer
  PROVE  Typed' /\ Parts'
<1>1. timers = <<>> /\ fdc = NoOp /\ d \in Statics /\ Pending("transfer") /\ Wait = 0 /\ Holding
  BY DEF Parts, Single, Typed, transfer, Pending, Wait, Holding
<1>2. UNCHANGED <<queue, dor, mon_timer, moff_timer, timers, chg, tick>>
  BY DEF transfer, motor, others
<1>3. Lasts(0 + 2 * ANSWER)
  BY <1>1 DEF Parts, Turning
<1>4. CASE run' = "do_fd_request" /\ fdc' = fdc /\ (d' = d \/ d' = [d EXCEPT !.reset = TRUE])
  <2>1. d' \in Statics
    BY <1>1, <1>4 DEF Statics
  <2>2. Typed'
    BY <1>2, <1>4, <2>1 DEF Typed
  <2> QED
    BY <1>1, <1>2, <1>4, <2>2, Quiet
<1>5. CASE run' = "setup_rw_floppy" /\ UNCHANGED <<d, fdc>>
  <2>1. Typed'
    BY <1>2, <1>5 DEF Typed
  <2> QED
    BY <1>1, <1>2, <1>3, <1>5, <2>1, GoesOn, Times DEF NoOp
<1>6. CASE SendCommand(d, "seek_interrupt", "seek")
  <2>1. /\ d' \in Statics /\ d'.do_floppy = "seek_interrupt" /\ d'.current_drive = d.current_drive
        /\ d'.seek_track = d.seek_track /\ d'.selected = d.selected
        /\ \/ run' = "none" /\ fdc' = [op |-> "seek", age |-> 0]
           \/ run' = "do_fd_request" /\ fdc' = NoOp
    BY <1>1, <1>6, SendFacts DEF Handlers
  <2>2. Typed'
    BY <1>2, <2>1, Times DEF Typed
  <2>3. CASE run' = "none" /\ fdc' = [op |-> "seek", age |-> 0]
    BY <1>1, <1>2, <1>3, <2>1, <2>2, <2>3, GoesOn, Times
  <2>4. CASE run' = "do_fd_request" /\ fdc' = NoOp
    BY <1>1, <1>2, <2>2, <2>4, Quiet
  <2> QED
    BY <2>1, <2>2, <2>3, <2>4
<1> QED
  BY <1>4, <1>5, <1>6 DEF transfer

(* setup_rw_floppy: the transfer.                                            *)
LEMMA SetsUp ==
  ASSUME Typed, Parts, setup_rw_floppy
  PROVE  Typed' /\ Parts'
<1>1. timers = <<>> /\ fdc = NoOp /\ d \in Statics /\ Holding
  BY DEF Parts, Single, Typed, setup_rw_floppy, Holding
<1>2. UNCHANGED <<queue, dor, mon_timer, moff_timer, timers, chg, tick>>
  BY DEF setup_rw_floppy, motor, others
<1>3. Lasts(ANSWER)
  BY DEF Parts, Turning, setup_rw_floppy
<1>4. /\ d' \in Statics /\ d'.do_floppy = "rw_interrupt" /\ d'.current_drive = d.current_drive
      /\ d'.seek_track = d.seek_track /\ d'.selected = d.selected
      /\ \/ run' = "none" /\ fdc' = [op |-> "rw", age |-> 0]
         \/ run' = "do_fd_request" /\ fdc' = NoOp
  BY <1>1, SendFacts DEF Handlers, setup_rw_floppy
<1>5. Typed'
  BY <1>2, <1>4, Times DEF Typed
<1>6. CASE run' = "none" /\ fdc' = [op |-> "rw", age |-> 0]
  BY <1>1, <1>2, <1>3, <1>4, <1>5, <1>6, GoesOn, Times
<1>7. CASE run' = "do_fd_request" /\ fdc' = NoOp
  BY <1>1, <1>2, <1>5, <1>7, Quiet
<1> QED
  BY <1>4, <1>5, <1>6, <1>7

(* A failed command is counted, and its request given up after MAX_ERRORS.    *)
LEMMA BadIntr ==
  ASSUME Typed, queue # <<>>, NEW k \in Statics, bad_flp_intr(k)
  PROVE  /\ d' \in Statics /\ queue' \in Seq(Requests) /\ chg' \in Changes
         /\ moff_timer' \in [Drives -> 0..NEVER]
<1> DEFINE errors == CURRENT.errors + 1
           over == errors > MAX_ERRORS
<1>1. /\ CURRENT = queue[1] /\ CURRENT \in Requests /\ Len(queue) \in Nat /\ Len(queue) >= 1
      /\ CURRENT.drive \in Drives /\ Tail(queue) \in Seq(Requests) /\ errors \in Nat
  BY TheCurrent
<1>2. PICK bad \in BOOLEAN :
        /\ d' = [k EXCEPT !.selected = IF over THEN FALSE ELSE @,
                          !.reset = (@ \/ bad), !.recalibrate = (@ \/ ~bad)]
        /\ IF over THEN end_request /\ Woken
           ELSE queue' = [queue EXCEPT ![1].errors = errors] /\ UNCHANGED <<chg, moff_timer>>
  BY DEF bad_flp_intr
<1>3. d' \in Statics
  <2>1. PICK s \in BOOLEAN, r \in BOOLEAN, l \in BOOLEAN :
          /\ s = (IF over THEN FALSE ELSE k.selected)
          /\ r = (k.reset \/ bad) /\ l = (k.recalibrate \/ ~bad)
    BY DEF Statics
  <2>2. d' = [k EXCEPT !.selected = s, !.reset = r, !.recalibrate = l]
    BY <1>2, <2>1
  <2> QED
    BY <2>2 DEF Statics
<1>4. CASE over
  <2>1. queue' = Tail(queue) /\ moff_timer' = [moff_timer EXCEPT ![CURRENT.drive] = OFF] /\ Woken
    BY <1>2, <1>4 DEF end_request
  <2>2. chg' \in Changes
    BY <2>1 DEF Woken, Typed, Changes
  <2> QED
    BY <1>1, <1>3, <2>1, <2>2, Times DEF Typed
<1>5. CASE ~over
  <2>1. queue' = [queue EXCEPT ![1] = [queue[1] EXCEPT !.errors = errors]] /\ UNCHANGED <<chg, moff_timer>>
    BY <1>2, <1>5
  <2>2. [queue[1] EXCEPT !.errors = errors] \in Requests
    BY <1>1 DEF Requests
  <2>3. queue' \in Seq(Requests)
    BY <1>1, <2>1, <2>2 DEF Typed
  <2> QED
    BY <1>3, <2>1, <2>3 DEF Typed
<1> QED
  BY <1>4, <1>5

(* The interrupts end a command: the request is done or failed, or the seek    *)
(* is followed by the transfer.                                              *)
LEMMA Interrupts ==
  ASSUME Typed, Parts, Controller
  PROVE  Typed' /\ Parts'
<1>1. timers = <<>> /\ run = "none" /\ fdc # NoOp /\ d \in Statics
  BY DEF Controller, rw_interrupt, seek_interrupt, recal_interrupt, reset_interrupt, FloppyInterrupt,
     Parts, Single, Typed
<1>2. /\ Taken \in Statics /\ Taken.current_drive = d.current_drive /\ Taken.selected = d.selected
      /\ Taken.seek_track = d.seek_track
  BY <1>1 DEF Taken, Statics
<1>3. ASSUME NEW ok \in Talks PROVE ok \in BOOLEAN /\ (~ok) \in BOOLEAN
  BY <1>3 DEF Talks
<1>4. ASSUME NEW good \in BOOLEAN, rw_interrupt(good) PROVE Typed' /\ Parts'
  <2>1. /\ queue # <<>> /\ fdc' = NoOp /\ run' = "do_fd_request"
        /\ UNCHANGED <<dor, mon_timer, timers, tick>>
    BY <1>4 DEF rw_interrupt, others
  <2>4. PICK ok \in Talks :
          \/ d' = [Taken EXCEPT !.reset = ~ok, !.selected = FALSE] /\ end_request /\ Woken
          \/ bad_flp_intr([Taken EXCEPT !.reset = ~ok])
    BY <1>4 DEF rw_interrupt
  <2>5. PICK b \in BOOLEAN : b = ~ok
    BY <1>3
  <2>6. PICK k \in Statics : k = [Taken EXCEPT !.reset = b]
    BY <1>2 DEF Statics
  <2>2. /\ d' \in Statics /\ queue' \in Seq(Requests) /\ chg' \in Changes
        /\ moff_timer' \in [Drives -> 0..NEVER]
    <3>1. CASE bad_flp_intr(k)
      BY <2>1, <3>1, BadIntr
    <3>2. CASE d' = [k EXCEPT !.selected = FALSE] /\ end_request /\ Woken
      <4>1. CURRENT.drive \in Drives /\ Tail(queue) \in Seq(Requests)
        BY <2>1, TheCurrent
      <4>2. d' \in Statics
        BY <2>6, <3>2 DEF Statics
      <4>3. chg' \in Changes
        BY <3>2 DEF Woken, Typed, Changes
      <4> QED
        BY <3>2, <4>1, <4>2, <4>3, Times DEF end_request, Typed
    <3> QED
      BY <2>4, <2>5, <2>6, <3>1, <3>2
  <2>3. Typed'
    BY <2>1, <2>2 DEF Typed
  <2> QED
    BY <1>1, <2>1, <2>3, Quiet
<1>5. ASSUME NEW good \in BOOLEAN, seek_interrupt(good) PROVE Typed' /\ Parts'
  <2>1. /\ queue # <<>> /\ fdc' = NoOp /\ UNCHANGED <<dor, mon_timer, timers, tick>>
        /\ d.do_floppy = "seek_interrupt"
    BY <1>5 DEF seek_interrupt, others, FloppyInterrupt
  <2>2. PICK ok \in Talks :
          IF ok /\ good
          THEN /\ d' = [Taken EXCEPT !.current_track = d.seek_track]
               /\ run' = "setup_rw_floppy"
               /\ UNCHANGED <<queue, chg, moff_timer>>
          ELSE bad_flp_intr([Taken EXCEPT !.reset = ~ok]) /\ run' = "do_fd_request"
    BY <1>5 DEF seek_interrupt
  <2>3. CASE ok /\ good
    <3>1. fdc.op = "seek" /\ fdc.age \in 0..ANSWER
      BY <1>1, <2>1 DEF Parts, Armed, Typed
    <3>2. Holding /\ Lasts(2 * ANSWER - fdc.age) /\ 2 * ANSWER - fdc.age \in Int
          /\ 2 * ANSWER - fdc.age >= ANSWER
      BY <3>1, Times DEF Holding, Parts, Turning
    <3>3. d' = [Taken EXCEPT !.current_track = d.seek_track] /\ run' = "setup_rw_floppy"
          /\ UNCHANGED <<queue, chg, moff_timer>>
      BY <2>2, <2>3
    <3>4. /\ d' \in Statics /\ d'.current_drive = d.current_drive /\ d'.selected = d.selected
          /\ d'.seek_track = d.seek_track
      BY <1>1, <1>2, <3>3 DEF Statics
    <3>5. Typed'
      BY <2>1, <3>3, <3>4 DEF Typed
    <3>6. fdc'.op # "seek"
      BY <2>1 DEF NoOp
    <3> QED
      BY <1>1, <2>1, <3>2, <3>3, <3>4, <3>5, <3>6, GoesOn
  <2>4. CASE ~(ok /\ good)
    <3>1. PICK b \in BOOLEAN : b = ~ok
      BY <1>3
    <3>2. PICK k \in Statics : k = [Taken EXCEPT !.reset = b]
      BY <1>2 DEF Statics
    <3>3. bad_flp_intr(k) /\ run' = "do_fd_request"
      BY <2>2, <2>4, <3>1, <3>2
    <3>4. /\ d' \in Statics /\ queue' \in Seq(Requests) /\ chg' \in Changes
          /\ moff_timer' \in [Drives -> 0..NEVER]
      BY <2>1, <3>3, BadIntr
    <3>5. Typed'
      BY <2>1, <3>3, <3>4 DEF Typed
    <3> QED
      BY <1>1, <2>1, <3>3, <3>5, Quiet
  <2> QED
    BY <2>3, <2>4
<1>6. CASE recal_interrupt \/ reset_interrupt
  <2>1. /\ fdc' = NoOp /\ run' = "do_fd_request"
        /\ UNCHANGED <<queue, dor, mon_timer, moff_timer, timers, chg, tick>>
    BY <1>6 DEF recal_interrupt, reset_interrupt, motor, others
  <2>2. d' \in Statics
    <3>1. PICK ok \in Talks : \/ d' = [Taken EXCEPT !.reset = ~ok, !.recalibrate = IF ok THEN FALSE ELSE @]
                              \/ d' = [Taken EXCEPT !.reset = ~ok]
      BY <1>6 DEF recal_interrupt, reset_interrupt
    <3>2. PICK b \in BOOLEAN, r \in BOOLEAN : b = ~ok /\ r = (IF ok THEN FALSE ELSE Taken.recalibrate)
      BY <1>2, <1>3 DEF Statics
    <3>3. \/ d' = [Taken EXCEPT !.reset = b, !.recalibrate = r]
          \/ d' = [Taken EXCEPT !.reset = b]
      BY <3>1, <3>2
    <3> QED
      BY <1>2, <3>3 DEF Statics
  <2>3. Typed'
    BY <2>1, <2>2 DEF Typed
  <2> QED
    BY <1>1, <2>1, <2>3, Quiet
<1> QED
  BY <1>4, <1>5, <1>6 DEF Controller

(* What others do meanwhile leaves the driver in step, if the request, the     *)
(* selected drive and the motor stay.                                        *)
LEMMA Undisturbed ==
  ASSUME Typed, Parts, UNCHANGED <<run, timers, fdc>>,
         d'.current_drive = d.current_drive, d'.seek_track = d.seek_track,
         d'.selected = d.selected, d'.do_floppy = d.do_floppy,
         queue # <<>> => queue' # <<>> /\ CURRENT' = CURRENT,
         d.selected => dor'.drive = dor.drive,
         \A n \in Nat : Lasts(n) => Lasts(n)'
  PROVE  Parts'
<1>1. Single' /\ Armed'
  BY DEF Parts, Single, Armed
<1>2. Active' <=> Active
  BY DEF Active, Holding, Pending
<1>3. Holding' <=> Holding
  BY DEF Holding, Pending
<1>4. Serving'
  BY <1>2, <1>3 DEF Parts, Serving, Active
<1>5. Turning'
  <2>1. Wait' = Wait /\ Wait \in Nat
    <3>1. timers # <<>> => timers[1] \in Entries
      BY DEF Typed
    <3> QED
      BY <3>1, Times DEF Wait, Entries
  <2>2. /\ Wait + SETTLE + 2 * ANSWER \in Nat /\ Wait + 2 * ANSWER \in Nat /\ ANSWER \in Nat
        /\ fdc.op \in {"seek", "rw"} => 2 * ANSWER - fdc.age \in Nat /\ ANSWER - fdc.age \in Nat
    BY <2>1, Times DEF Typed, NoOp
  <2>3. /\ Pending("floppy_on_interrupt") => Lasts(Wait + SETTLE + 2 * ANSWER)'
        /\ Pending("transfer") => Lasts(Wait + 2 * ANSWER)'
        /\ run = "setup_rw_floppy" => Lasts(ANSWER)'
        /\ fdc.op = "seek" => Lasts(2 * ANSWER - fdc.age)'
        /\ fdc.op = "rw" => Lasts(ANSWER - fdc.age)'
    BY <2>1, <2>2 DEF Parts, Turning
  <2> QED
    BY <2>1, <2>3 DEF Turning, Pending
<1> QED
  BY <1>1, <1>4, <1>5 DEF Parts

(* do_timer: a tick less to wait for the timer, or for the controller.        *)
LEMMA Timer ==
  ASSUME Typed, Parts, do_timer_list
  PROVE  Typed' /\ Parts'
<1> DEFINE drv == d.current_drive
<1>1. /\ run = "none" /\ ~tick /\ tick' = TRUE /\ (fdc # NoOp => fdc.age < ANSWER)
      /\ fdc' = (IF fdc = NoOp THEN fdc ELSE [fdc EXCEPT !.age = @ + 1])
      /\ UNCHANGED <<queue, d, dor, mon_timer, moff_timer, chg>>
  BY DEF do_timer_list, motor
<1>2. drv \in Drives /\ moff_timer[drv] \in Int /\ ANSWER \in Nat
  BY Times DEF Typed, Statics
<1>3. /\ fdc = NoOp => fdc' = NoOp
      /\ fdc # NoOp => /\ fdc'.op = fdc.op /\ fdc'.age = fdc.age + 1 /\ fdc.age \in Nat
                       /\ fdc' \in [op : {"rw", "seek", "recal", "reset"}, age : 0..ANSWER]
      /\ fdc'.op = fdc.op
  <2>1. CASE fdc = NoOp
    BY <1>1, <2>1
  <2>2. CASE fdc # NoOp
    <3>1. fdc \in [op : {"rw", "seek", "recal", "reset"}, age : 0..ANSWER] /\ fdc.age < ANSWER
      BY <1>1, <2>2 DEF Typed
    <3>2. fdc.age + 1 \in 0..ANSWER /\ fdc.age \in Nat
      BY <3>1, Times
    <3>3. fdc' = [fdc EXCEPT !.age = fdc.age + 1]
      BY <1>1, <2>2
    <3> QED
      BY <2>2, <3>1, <3>2, <3>3
  <2> QED
    BY <2>1, <2>2
<1>4. ASSUME NEW n \in Int, NEW m \in Int, Lasts(n), m = n - 1 PROVE Lasts(m)'
  BY <1>1, <1>2, <1>4 DEF Lasts
<1>5. CASE timers = <<>>
  <2>1. run' = "none" /\ timers' = <<>>
    BY <1>1, <1>5 DEF do_timer_list
  <2>2. Typed'
    BY <1>1, <1>3, <2>1 DEF Typed
  <2>3. Single' /\ Armed'
    BY <1>1, <1>3, <2>1 DEF Single, Armed, Parts
  <2>4. Serving'
    BY <1>1, <1>3, <1>5, <2>1 DEF Serving, Parts, Active, Holding, Pending, CURRENT
  <2>5. ~Pending("floppy_on_interrupt")' /\ ~Pending("transfer")' /\ run' # "setup_rw_floppy"
    BY <2>1 DEF Pending
  <2>6. fdc.op \in {"rw", "seek"} => fdc # NoOp
    BY DEF NoOp
  <2>7. ASSUME fdc.op = "seek" PROVE Lasts(2 * ANSWER - fdc.age)'
    <3>1. PICK n \in Int, m \in Int : n = 2 * ANSWER - fdc.age /\ m = 2 * ANSWER - fdc'.age /\ m = n - 1
      BY <1>2, <1>3, <2>6, <2>7
    <3>2. Lasts(n)
      BY <2>7, <3>1 DEF Parts, Turning
    <3>3. Lasts(m)'
      BY <1>4, <3>1, <3>2
    <3> QED
      BY <3>1, <3>3
  <2>8. ASSUME fdc.op = "rw" PROVE Lasts(ANSWER - fdc.age)'
    <3>1. PICK n \in Int, m \in Int : n = ANSWER - fdc.age /\ m = ANSWER - fdc'.age /\ m = n - 1
      BY <1>2, <1>3, <2>6, <2>8
    <3>2. Lasts(n)
      BY <2>8, <3>1 DEF Parts, Turning
    <3>3. Lasts(m)'
      BY <1>4, <3>1, <3>2
    <3> QED
      BY <3>1, <3>3
  <2>9. Turning'
    BY <1>3, <2>5, <2>7, <2>8 DEF Turning
  <2> QED
    BY <2>2, <2>3, <2>4, <2>9 DEF Parts
<1>6. CASE timers # <<>>
  <2>1. /\ timers \in Seq(Entries) /\ Len(timers) = 1 /\ fdc = NoOp /\ timers[1] \in Entries
        /\ Head(timers) = timers[1]
    BY <1>6 DEF Parts, Single, Typed
  <2>2. PICK j \in 1..SPIN, f \in {"floppy_on_interrupt", "transfer"} :
          timers[1].jiffies = j /\ timers[1].fn = f
    BY <2>1 DEF Entries
  <2>0. j \in Nat /\ j - 1 \in Nat /\ Wait = j /\ Pending(f) /\ SETTLE \in Int
    BY <1>6, <2>2, Times DEF Wait, Pending
  <2>3. fdc' = NoOp /\ fdc'.op = "none"
    BY <1>1, <2>1 DEF NoOp
  <2>4. /\ queue # <<>> /\ d.current_drive = CURRENT.drive /\ d.seek_track = CURRENT.track
        /\ (f = "transfer" => d.selected /\ dor.drive = d.current_drive)
    BY <2>0 DEF Parts, Serving, Active, Holding
  <2>5. /\ f = "floppy_on_interrupt" => Lasts((j - 1) + SETTLE + 2 * ANSWER)'
        /\ f = "transfer" => Lasts((j - 1) + 2 * ANSWER)'
    <3>1. PICK n \in Int, m \in Int : n = j + SETTLE + 2 * ANSWER /\ m = (j - 1) + SETTLE + 2 * ANSWER /\ m = n - 1
      BY <1>2, <2>0
    <3>2. PICK o \in Int, p \in Int : o = j + 2 * ANSWER /\ p = (j - 1) + 2 * ANSWER /\ p = o - 1
      BY <1>2, <2>0
    <3>3. (f = "floppy_on_interrupt" => Lasts(n)) /\ (f = "transfer" => Lasts(o))
      BY <2>0, <3>1, <3>2 DEF Parts, Turning
    <3>4. (f = "floppy_on_interrupt" => Lasts(m)') /\ (f = "transfer" => Lasts(p)')
      BY <1>4, <3>1, <3>2, <3>3
    <3> QED
      BY <3>1, <3>2, <3>4
  <2>6. /\ \/ timers' = <<>> /\ run' = f
           \/ /\ timers' # <<>> /\ Len(timers') = 1 /\ run' = "none"
              /\ timers'[1].fn = f /\ timers'[1].jiffies = j - 1
        /\ timers' \in Seq(Entries)
        /\ timers' = <<>> => j = 1
    <3>1. CASE j > 1
      <4>1. timers' = [timers EXCEPT ![1] = [timers[1] EXCEPT !.jiffies = j - 1]] /\ run' = "none"
        BY <1>1, <1>6, <2>1, <2>2, <3>1 DEF do_timer_list
      <4>2. j - 1 \in 1..SPIN
        BY <2>2, <3>1, Times
      <4>3. PICK x \in Entries : x = timers[1]
        BY <2>1
      <4>4. [x EXCEPT !.jiffies = j - 1] = [jiffies |-> j - 1, fn |-> f]
        BY <2>2, <4>3 DEF Entries
      <4>5. PICK e \in Entries : e = [x EXCEPT !.jiffies = j - 1] /\ e.fn = f /\ e.jiffies = j - 1
        BY <4>2, <4>4 DEF Entries
      <4>6. timers' = [timers EXCEPT ![1] = e]
        BY <4>1, <4>3, <4>5
      <4>7. timers' \in Seq(Entries) /\ Len(timers') = 1 /\ timers'[1] = e /\ timers' # <<>>
        <5>1. timers \in Seq(Entries) /\ 1 \in 1..Len(timers) /\ Len(timers) = 1
          BY <2>1
        <5>2. timers' \in Seq(Entries) /\ Len(timers') = 1 /\ timers'[1] = e
          BY <4>6, <5>1, FirstSet
        <5> QED
          BY <5>2
      <4> QED
        BY <4>1, <4>5, <4>7
    <3>2. CASE ~(j > 1)
      <4>1. timers' = Tail(timers) /\ run' = f
        BY <1>1, <1>6, <2>1, <2>2, <3>2 DEF do_timer_list
      <4>2. Tail(timers) = <<>>
        <5>1. Tail(timers) \in Seq(Entries) /\ Len(Tail(timers)) = 0
          BY <1>6, <2>1, HeadTailProperties
        <5> QED
          BY <5>1, EmptySeq
      <4>3. j = 1
        BY <2>2, <3>2
      <4> QED
        BY <4>1, <4>2, <4>3, EmptySeq
    <3> QED
      BY <3>1, <3>2
  <2>7. Typed'
    BY <1>1, <2>2, <2>3, <2>6 DEF Typed
  <2>8. Single' /\ Armed'
    BY <2>3, <2>6 DEF Single, Armed
  <2>9. /\ Pending("floppy_on_interrupt")' <=> f = "floppy_on_interrupt"
        /\ Pending("transfer")' <=> f = "transfer"
        /\ run' # "setup_rw_floppy" /\ Wait' = j - 1
    BY <2>0, <2>6 DEF Pending, Wait
  <2>10. Serving'
    BY <1>1, <2>2, <2>3, <2>4, <2>9 DEF Serving, Active, Holding, CURRENT
  <2>11. Turning'
    BY <2>3, <2>5, <2>9 DEF Turning
  <2> QED
    BY <2>7, <2>8, <2>10, <2>11 DEF Parts
<1> QED
  BY <1>5, <1>6

(* do_floppy_timer: a tick less for every motor.  That of the drive in use     *)
(* has one to spare.                                                         *)
LEMMA MotorTimer ==
  ASSUME Typed, Parts, do_floppy_timer
  PROVE  Typed' /\ Parts'
<1> DEFINE stops == {n \in dor.on : mon_timer[n] = 0 /\ moff_timer[n] = 0}
<1>1. /\ tick /\ tick' = FALSE
      /\ mon_timer' = [n \in Drives |-> IF n \in dor.on /\ mon_timer[n] > 0 THEN mon_timer[n] - 1
                                       ELSE mon_timer[n]]
      /\ moff_timer' = [n \in Drives |->
           IF n \in dor.on \ stops /\ mon_timer[n] = 0 /\ moff_timer[n] # NEVER
           THEN moff_timer[n] - 1 ELSE moff_timer[n]]
      /\ dor' = [dor EXCEPT !.on = dor.on \ stops]
      /\ UNCHANGED <<queue, run, d, fdc, timers>>
  BY DEF do_floppy_timer
<1>2. /\ dor' \in [drive : Drives, on : SUBSET Drives] /\ dor'.drive = dor.drive
      /\ dor'.on = dor.on \ stops
  BY <1>1 DEF Typed
<1>3. chg' \in Changes
  BY DEF do_floppy_timer, Typed, Changes
<1>4. mon_timer' \in [Drives -> 0..SPIN]
  <2>1. ASSUME NEW n \in Drives
        PROVE  (IF n \in dor.on /\ mon_timer[n] > 0 THEN mon_timer[n] - 1 ELSE mon_timer[n]) \in 0..SPIN
    <3>1. mon_timer[n] \in 0..SPIN
      BY DEF Typed
    <3> QED
      BY <3>1, Times
  <2> QED
    BY <1>1, <2>1
<1>5. moff_timer' \in [Drives -> 0..NEVER]
  <2>1. ASSUME NEW n \in Drives
        PROVE  (IF n \in dor.on \ stops /\ mon_timer[n] = 0 /\ moff_timer[n] # NEVER
                THEN moff_timer[n] - 1 ELSE moff_timer[n]) \in 0..NEVER
    BY Times DEF Typed
  <2> QED
    BY <1>1, <2>1
<1>6. Typed'
  BY <1>1, <1>2, <1>3, <1>4, <1>5 DEF Typed
<1>7. ASSUME NEW n \in Nat, Lasts(n) PROVE Lasts(n)'
  <2> DEFINE drv == d.current_drive
  <2>1. drv \in dor.on /\ moff_timer[drv] >= n + 1 /\ moff_timer[drv] \in Int /\ drv \in Drives
    BY <1>1, <1>7, Times DEF Lasts, Typed, Statics
  <2>2. drv \in dor'.on
    BY <1>2, <2>1
  <2>3. moff_timer'[drv] >= n
    BY <1>1, <2>1
  <2> QED
    BY <1>1, <2>2, <2>3 DEF Lasts
<1> QED
  BY <1>1, <1>2, <1>6, <1>7, Undisturbed DEF CURRENT

(* A request that comes: the first one starts the driver, unless that is at    *)
(* work without one.                                                         *)
LEMMA Requested ==
  ASSUME Typed, Parts, NEW n \in Drives, NEW t \in Tracks, Request(n, t)
  PROVE  Typed' /\ (~fault' => Parts')
<1> DEFINE r == [drive |-> n, track |-> t, errors |-> 0]
<1>1. /\ run = "none" /\ queue' = Append(queue, r)
      /\ run' = (IF queue = <<>> THEN "do_fd_request" ELSE run)
      /\ fault' = (queue = <<>> /\ fdc # NoOp)
      /\ UNCHANGED <<d, fdc, dor, mon_timer, moff_timer, timers, tick, chg>>
  BY DEF Request, motor
<1>2. r \in Requests
  BY DEF Requests
<1> HIDE DEF r
<1>3. queue' \in Seq(Requests) /\ (queue # <<>> => queue' # <<>> /\ Head(queue') = Head(queue))
  BY <1>1, <1>2 DEF Typed
<1>4. Typed'
  BY <1>1, <1>3 DEF Typed
<1>5. CASE queue = <<>>
  <2>1. timers = <<>>
    <3>1. timers # <<>> => timers[1] \in Entries
      BY DEF Typed
    <3>2. timers # <<>> => timers[1].fn \in {"floppy_on_interrupt", "transfer"}
      BY <3>1 DEF Entries
    <3> QED
      BY <1>5, <3>2 DEF Parts, Serving, Active, Holding, Pending
  <2> QED
    BY <1>1, <1>4, <1>5, <2>1, Quiet
<1>6. CASE queue # <<>>
  <2>1. \A k \in Nat : Lasts(k) => Lasts(k)'
    BY <1>1 DEF Lasts
  <2> QED
    BY <1>1, <1>3, <1>4, <1>6, <2>1, Undisturbed DEF CURRENT
<1> QED
  BY <1>5, <1>6

(* A task in floppy_change, and an interrupt that nobody waits for.            *)
LEMMA Meanwhile ==
  ASSUME Typed, Parts, Change \/ unexpected_floppy_interrupt
  PROVE  Typed' /\ Parts'
<1>1. CASE unexpected_floppy_interrupt
  <2>1. /\ d' = [d EXCEPT !.reset = TRUE] \/ d' = [d EXCEPT !.recalibrate = TRUE]
        /\ UNCHANGED <<queue, run, fdc, dor, mon_timer, moff_timer, timers, tick, chg>>
    BY <1>1 DEF unexpected_floppy_interrupt, motor, others
  <2>2. /\ d' \in Statics /\ d'.current_drive = d.current_drive /\ d'.seek_track = d.seek_track
        /\ d'.selected = d.selected /\ d'.do_floppy = d.do_floppy
    BY <2>1 DEF Typed, Statics
  <2>3. Typed'
    BY <2>1, <2>2 DEF Typed
  <2>4. \A n \in Nat : Lasts(n) => Lasts(n)'
    BY <2>1, <2>2 DEF Lasts
  <2> QED
    BY <2>1, <2>2, <2>3, <2>4, Undisturbed DEF CURRENT
<1>2. CASE floppy_on
  <2>1. /\ chg.nr \in Drives /\ Ticks(chg.nr) /\ UNCHANGED <<queue, run, d, fdc, timers, tick>>
        /\ chg' = [chg EXCEPT !.pc = IF mon_timer'[chg.nr] = 0 THEN "test" ELSE "motor"]
    BY <1>2 DEF floppy_on, Typed, Changes, others
  <2>2. /\ dor' \in [drive : Drives, on : SUBSET Drives]
        /\ dor'.on = dor.on \cup {chg.nr} /\ (d.selected => dor'.drive = dor.drive)
        /\ moff_timer' = [moff_timer EXCEPT ![chg.nr] = NEVER] /\ moff_timer' \in [Drives -> 0..NEVER]
        /\ mon_timer' \in [Drives -> 0..SPIN]
    BY <2>1, TicksFacts
  <2>3. chg' \in Changes
    BY <2>1 DEF Typed, Changes
  <2>4. Typed'
    BY <2>1, <2>2, <2>3 DEF Typed
  <2>5. ASSUME NEW n \in Nat, Lasts(n) PROVE Lasts(n)'
    <3> DEFINE drv == d.current_drive
    <3>1. /\ drv \in dor.on /\ drv \in Drives /\ moff_timer[drv] \in Int /\ moff_timer[drv] <= NEVER
          /\ moff_timer[drv] >= n + (IF tick THEN 1 ELSE 0)
      BY <2>5, Times DEF Lasts, Typed, Statics
    <3>2. moff_timer'[drv] = IF drv = chg.nr THEN NEVER ELSE moff_timer[drv]
      BY <2>2, <3>1 DEF Typed
    <3>3. moff_timer'[drv] >= n + (IF tick THEN 1 ELSE 0)
      BY <3>1, <3>2, Times
    <3> QED
      BY <2>1, <2>2, <3>1, <3>3 DEF Lasts
  <2> QED
    BY <2>1, <2>2, <2>4, <2>5, Undisturbed DEF CURRENT
<1>3. CASE ChangeTest
  <2>1. /\ chg.nr \in Drives /\ ~tick /\ UNCHANGED <<queue, run, d, fdc, dor, mon_timer, timers, tick>>
        /\ moff_timer' = [moff_timer EXCEPT ![chg.nr] = OFF] \/ moff_timer' = moff_timer
    BY <1>3 DEF ChangeTest, TaskRuns, Typed, Changes, others
  <2>2. moff_timer' \in [Drives -> 0..NEVER]
    <3>1. OFF \in 0..NEVER /\ moff_timer \in [Drives -> 0..NEVER]
      BY Times DEF Typed
    <3> QED
      BY <2>1, <3>1
  <2>3. chg' \in Changes
    <3>1. chg \in Changes /\ 0 \in Drives
      BY Times DEF Typed
    <3>2. \/ chg' = [pc |-> "idle", nr |-> 0]
          \/ chg' = [chg EXCEPT !.pc = IF d.selected THEN "sleep" ELSE "on"]
      BY <1>3 DEF ChangeTest
    <3> QED
      BY <3>1, <3>2 DEF Changes
  <2>4. Typed'
    BY <2>1, <2>2, <2>3 DEF Typed
  <2>5. Parts'
    <3>1. /\ Single' /\ Armed' /\ Serving'
      BY <2>1 DEF Parts, Single, Armed, Serving, Active, Holding, Pending, CURRENT
    <3>2. Wait' = Wait /\ Wait \in 0..SPIN
      <4>1. timers # <<>> => timers[1] \in Entries
        BY DEF Typed
      <4> QED
        BY <2>1, <4>1, Times DEF Wait, Entries
    <3>3. ASSUME NEW n \in Nat, n <= SPIN + SETTLE + 2 * ANSWER, Lasts(n) PROVE Lasts(n)'
      <4> DEFINE drv == d.current_drive
      <4>1. drv \in dor.on /\ drv \in Drives /\ moff_timer[drv] \in Int /\ moff_timer[drv] >= n + 0
        BY <2>1, <3>3, Times DEF Lasts, Typed, Statics
      <4>2. moff_timer'[drv] \in {moff_timer[drv], OFF}
        BY <2>1, <4>1 DEF Typed
      <4>3. moff_timer'[drv] >= n + 0
        BY <3>3, <4>1, <4>2, Times
      <4> QED
        BY <2>1, <4>1, <4>3 DEF Lasts
    <3>4. /\ Wait + SETTLE + 2 * ANSWER \in Nat /\ Wait + 2 * ANSWER \in Nat /\ ANSWER \in Nat
          /\ Wait + SETTLE + 2 * ANSWER <= SPIN + SETTLE + 2 * ANSWER
          /\ Wait + 2 * ANSWER <= SPIN + SETTLE + 2 * ANSWER
          /\ ANSWER <= SPIN + SETTLE + 2 * ANSWER
          /\ fdc.op \in {"seek", "rw"} =>
               /\ 2 * ANSWER - fdc.age \in Nat /\ 2 * ANSWER - fdc.age <= SPIN + SETTLE + 2 * ANSWER
               /\ ANSWER - fdc.age \in Nat /\ ANSWER - fdc.age <= SPIN + SETTLE + 2 * ANSWER
      BY <3>2, Times DEF Typed, NoOp
    <3>5. /\ Pending("floppy_on_interrupt") => Lasts(Wait + SETTLE + 2 * ANSWER)'
          /\ Pending("transfer") => Lasts(Wait + 2 * ANSWER)'
          /\ run = "setup_rw_floppy" => Lasts(ANSWER)'
          /\ fdc.op = "seek" => Lasts(2 * ANSWER - fdc.age)'
          /\ fdc.op = "rw" => Lasts(ANSWER - fdc.age)'
      BY <2>1, <3>2, <3>3, <3>4 DEF Parts, Turning
    <3>6. Turning'
      BY <2>1, <3>2, <3>5 DEF Turning, Pending
    <3> QED
      BY <3>1, <3>6 DEF Parts
  <2> QED
    BY <2>4, <2>5
<1>4. CASE ChangeSleep \/ \E nr \in Drives : FloppyChange(nr)
  <2>1. UNCHANGED <<queue, run, d, fdc, dor, mon_timer, moff_timer, timers, tick>>
    BY <1>4 DEF ChangeSleep, FloppyChange, motor, others
  <2>2. chg' \in Changes
    BY <1>4 DEF ChangeSleep, FloppyChange, Typed, Changes
  <2>3. Typed'
    BY <2>1, <2>2 DEF Typed
  <2>4. \A n \in Nat : Lasts(n) => Lasts(n)'
    BY <2>1 DEF Lasts
  <2> QED
    BY <2>1, <2>3, <2>4, Undisturbed DEF CURRENT
<1> QED
  BY <1>1, <1>2, <1>3, <1>4 DEF Change

(* No drive is asked for, and no motor runs.                                 *)
LEMMA FloppyInitInv == FloppyInit => FInv
<1> SUFFICES ASSUME FloppyInit PROVE FInv
  OBVIOUS
<1>1. Typed
  <2>1. d \in Statics
    BY Times DEF FloppyInit, Statics
  <2>2. dor \in [drive : Drives, on : SUBSET Drives] /\ chg \in Changes
    BY Times DEF FloppyInit, Changes
  <2>3. mon_timer \in [Drives -> 0..SPIN] /\ moff_timer \in [Drives -> 0..NEVER]
    BY Times DEF FloppyInit
  <2>4. queue \in Seq(Requests) /\ timers \in Seq(Entries)
    BY EmptySeq DEF FloppyInit
  <2> QED
    BY <2>1, <2>2, <2>3, <2>4 DEF FloppyInit, Typed
<1>2. Parts
  BY DEF FloppyInit, Parts, Single, Armed, Serving, Turning, Active, Holding, Pending, NoOp
<1> QED
  BY <1>1, <1>2 DEF FInv

(* Every step keeps the driver in step.                                      *)
LEMMA FloppyStep == FInv /\ [FloppyNext]_fdvars => FInv'
<1> SUFFICES ASSUME FInv, [FloppyNext]_fdvars PROVE FInv'
  OBVIOUS
<1>1. CASE UNCHANGED fdvars
  <2>1. Typed'
    BY <1>1 DEF fdvars, FInv, Typed
  <2>2. Parts => Parts'
    BY <1>1 DEF fdvars, Parts, Single, Armed, Serving, Turning, Active, Holding, Pending, Lasts, Wait, CURRENT
  <2> QED
    BY <1>1, <2>1, <2>2 DEF FInv, fdvars
<1>2. CASE FloppyNext
  <2>1. Typed /\ Parts
    BY <1>2 DEF FInv, FloppyNext, Driver, Controller, Clock, Change, Enters, Ready, reset_floppy, recalibrate_floppy,
       NoRequest, OutOfRange, StartRequest, floppy_on_interrupt, transfer, setup_rw_floppy, rw_interrupt,
       seek_interrupt, recal_interrupt, reset_interrupt, FloppyInterrupt, unexpected_floppy_interrupt,
       do_timer_list, do_floppy_timer, Request, TaskRuns, FloppyChange, floppy_on, ChangeTest, ChangeSleep
  <2>2. CASE Driver
    BY <2>1, <2>2, DriverQuiet, Starts, MotorOn, Transfers, SetsUp DEF Driver, FInv
  <2>3. CASE Controller \/ Change \/ unexpected_floppy_interrupt
    BY <2>1, <2>3, Interrupts, Meanwhile DEF FInv
  <2>4. CASE Clock
    BY <2>1, <2>4, Timer, MotorTimer DEF Clock, FInv
  <2>5. ASSUME NEW n \in Drives, NEW t \in Tracks, Request(n, t) PROVE FInv'
    BY <2>1, <2>5, Requested DEF FInv
  <2> QED
    BY <1>2, <2>2, <2>3, <2>4, <2>5 DEF FloppyNext
<1> QED
  BY <1>1, <1>2

(* The driver's state is what its functions expect, whatever comes when.      *)
THEOREM FloppyInv == FloppySpec => []FInv
  BY FloppyInitInv, FloppyStep, PTL DEF FloppySpec

(* For any number of drives and requests, any times and any failures of the    *)
(* controller: driver and controller agree about what is going on (floppy.c,   *)
(* do_fd_request to floppy_interrupt, and add_timer).                         *)
THEOREM FloppyInStep == FloppySpec => []InStep
<1>1. FInv => InStep
  <2> SUFFICES ASSUME FInv, ~fault PROVE InStep
    BY DEF InStep, OneAtATime, InterruptMatches
  <2>1. Typed /\ Single /\ Armed /\ Serving
    BY DEF FInv, Parts
  <2>2. OneAtATime
    <3>1. CASE timers = <<>>
      <4>1. Len(timers) = 0
        BY <3>1
      <4> QED
        BY <2>1, <4>1 DEF OneAtATime, Single
    <3>2. CASE timers # <<>>
      <4>1. Len(timers) = 1 /\ run = "none" /\ fdc = NoOp
        BY <2>1, <3>2 DEF Single
      <4> QED
        BY <4>1 DEF OneAtATime
    <3> QED
      BY <3>1, <3>2
  <2>3. InterruptMatches
    <3> SUFFICES ASSUME fdc # NoOp PROVE InterruptMatches
      BY DEF InterruptMatches
    <3>1. fdc.op \in {"rw", "seek", "recal", "reset"}
      BY <2>1 DEF Typed
    <3>2. fdc.op \in {"rw", "seek"} =>
            /\ queue # <<>> /\ d.current_drive = CURRENT.drive /\ d.seek_track = CURRENT.track
            /\ d.selected /\ dor.drive = CURRENT.drive
      BY <2>1 DEF Serving, Active, Holding
    <3> QED
      BY <2>1, <3>1, <3>2 DEF InterruptMatches, Armed
  <2> QED
    BY <2>2, <2>3 DEF InStep
<1> QED
  BY <1>1, FloppyInv, PTL

(* The motor of the drive runs while the controller seeks or transfers, if     *)
(* OFF is more than what a request can take (floppy_off, do_floppy_timer).     *)
THEOREM FloppyMotorRuns == FloppySpec => []MotorRuns
<1>1. FInv => MotorRuns
  BY DEF FInv, Parts, Turning, Lasts, MotorRuns
<1> QED
  BY <1>1, FloppyInv, PTL
=============================================================================
