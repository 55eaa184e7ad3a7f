----------------------------- MODULE SleepLock -----------------------------
(***************************************************************************)
(* The lock of a buffer (b_lock, b_wait), of an inode (i_lock, i_wait) and  *)
(* of a super block (s_lock, s_wait): one bit and a sleep_on queue, the     *)
(* same four operations in ll_rw_blk.c, inode.c and super.c.                *)
(*                                                                         *)
(* Each operation runs with interrupts off from its first test to its last  *)
(* assignment (the eflags of a task are part of its TSS, so they are off    *)
(* again after schedule() returns); it is one action up to schedule() and   *)
(* one action from there.                                                  *)
(***************************************************************************)
EXTENDS WaitQueue

VARIABLES lock,    \* the lock bit
          owners,  \* the tasks that returned from lock_x and not yet called unlock_x
          locking  \* the tasks inside sleep_on that are in lock_x, not in wait_on_x

lockvars == <<lock, owners, locking>>
lkvars == <<head, state, tmp, inside, lock, owners, locking>>

LockTypes == /\ WQTypeOK
             /\ lock \in BOOLEAN
             /\ owners \subseteq Tasks
             /\ locking \subseteq inside

LockInit == WQInit /\ lock = FALSE /\ owners = {} /\ locking = {}

-----------------------------------------------------------------------------
(* lock_x(p) of a free lock.                                                *)
Lock(t) ==
  /\ t \notin inside \cup owners
  /\ Runnable(t)
  /\ ~lock
  /\ lock' = TRUE
  /\ owners' = owners \cup {t}
  /\ UNCHANGED <<wqvars, locking>>

(* lock_x(p) or wait_on_x(p) of a taken one: sleep.                         *)
LockSleep(t) ==
  /\ t \notin owners
  /\ lock
  /\ SleepOn(t)
  /\ locking' = locking \cup {t}
  /\ UNCHANGED <<lock, owners>>

WaitOn(t) ==
  /\ t \notin owners
  /\ lock
  /\ SleepOn(t)
  /\ UNCHANGED lockvars

(* Back in the while loop of lock_x and wait_on_x: sleep again, ...         *)
Again(t) ==
  /\ lock
  /\ ResumeAndSleep(t)
  /\ UNCHANGED lockvars

(* ... or leave it.  lock_x takes the lock, wait_on_x only returns.         *)
Leave_Unchecked(t) ==  \* defect: `if' for `while'
  /\ Resume(t)
  /\ locking' = locking \ {t}
  /\ lock' = (lock \/ t \in locking)
  /\ owners' = owners \cup ({t} \cap locking)

Leave(t) ==
  /\ ~lock
  /\ Resume(t)
  /\ locking' = locking \ {t}
  /\ lock' = (t \in locking)
  /\ owners' = owners \cup ({t} \cap locking)

(* unlock_x.  The lock of a buffer is released for its owner by the         *)
(* interrupt handler that ends the request (end_request).                   *)
Unlock_Silent(t) ==  \* defect: no wake_up
  /\ t \in owners
  /\ lock' = FALSE
  /\ owners' = owners \ {t}
  /\ UNCHANGED <<wqvars, locking>>

Unlock(t) ==
  /\ t \in owners
  /\ lock' = FALSE
  /\ WakeUp
  /\ owners' = owners \ {t}
  /\ UNCHANGED locking

LockNext == \E t \in Tasks : \/ Lock(t) \/ LockSleep(t) \/ WaitOn(t)
                             \/ Again(t) \/ Leave(t) \/ Unlock(t)

(* A runnable task is run in the end (Sched).                               *)
LockFairness == \A t \in Tasks : WF_lkvars(Again(t) \/ Leave(t))

LockSpec == LockInit /\ [][LockNext]_lkvars /\ LockFairness

-----------------------------------------------------------------------------
(* One owner at a time, and the bit says whether there is one: a task that  *)
(* slept in lock_x while others waited and locked finds it free when it     *)
(* takes it (lock_buffer, lock_inode, lock_super).                          *)
MutualExclusion == /\ \A t, u \in owners : t = u
                   /\ lock <=> owners # {}

(* No wake-up is lost: when the lock is free and tasks still wait for it,   *)
(* one of them is runnable already (unlock_x wakes the head only, and a     *)
(* newcomer may have taken and released the lock in between).               *)
WaiterAwake == ~lock /\ inside # {} => \E t \in inside : Runnable(t)
=============================================================================
