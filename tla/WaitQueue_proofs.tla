-------------------------- MODULE WaitQueue_proofs --------------------------
(***************************************************************************)
(* Proofs about the wait queues (WaitQueue) and the two things built on one: *)
(* the locks of buffers, inodes and super blocks (SleepLock) and the         *)
(* pipe (Pipe), for any set of tasks and any page of more than one byte.    *)
(***************************************************************************)
EXTENDS SleepLock, Pipe, SetLemmas

(* The inductive invariant of a sleep_on queue.  NoStranded alone is not    *)
(* inductive: when a task leaves, the rest of the queue is reachable only   *)
(* because nobody else pointed to it and its tmp is a sleeper (OneReference) *)
WQInv == WQTypeOK /\ OneReference /\ NoStranded

(* The empty queue satisfies it.                                            *)
LEMMA WQInitInv == WQInit => WQInv
  BY NullAssumption DEF WQInit, WQInv, WQTypeOK, OneReference, NoStranded, Closed, Roots,
     TASK_RUNNING, TASK_INTERRUPTIBLE, TASK_UNINTERRUPTIBLE

(* sleep_on, its return, the return into another sleep_on and wake_up keep  *)
(* the types.                                                               *)
LEMMA WQTypes == WQTypeOK /\ [WQNext]_wqvars => WQTypeOK'
<1> SUFFICES ASSUME WQTypeOK, [WQNext]_wqvars PROVE WQTypeOK'
  OBVIOUS
<1> USE NullAssumption DEF WQTypeOK, TASK_RUNNING, TASK_INTERRUPTIBLE, TASK_UNINTERRUPTIBLE
<1>1. CASE WakeUp
  BY <1>1 DEF WakeUp
<1>2. ASSUME NEW t \in Tasks, SleepOn(t) PROVE WQTypeOK'
  BY <1>2 DEF SleepOn
<1>3. ASSUME NEW t \in Tasks, Resume(t) PROVE WQTypeOK'
  BY <1>3 DEF Resume, Passed
<1>4. ASSUME NEW t \in Tasks, ResumeAndSleep(t) PROVE WQTypeOK'
  BY <1>4 DEF ResumeAndSleep, Passed
<1>5. CASE UNCHANGED wqvars
  BY <1>5 DEF wqvars
<1> QED
  BY <1>1, <1>2, <1>3, <1>4, <1>5 DEF WQNext, TaskStep

(* The same four actions keep every sleeper referred to exactly once.       *)
LEMMA WQReferences == WQTypeOK /\ OneReference /\ [WQNext]_wqvars => OneReference'
<1> SUFFICES ASSUME WQTypeOK, OneReference, [WQNext]_wqvars PROVE OneReference'
  OBVIOUS
<1> USE NullAssumption DEF WQTypeOK, OneReference, Runnable,
        TASK_RUNNING, TASK_INTERRUPTIBLE, TASK_UNINTERRUPTIBLE
<1>1. CASE WakeUp
  BY <1>1 DEF WakeUp
<1>2. ASSUME NEW t \in Tasks, SleepOn(t) PROVE OneReference'
  BY <1>2 DEF SleepOn
<1>3. ASSUME NEW t \in Tasks, Resume(t) PROVE OneReference'
  BY <1>3 DEF Resume, Passed
<1>4. ASSUME NEW t \in Tasks, ResumeAndSleep(t) PROVE OneReference'
  BY <1>4 DEF ResumeAndSleep, Passed
<1>5. CASE UNCHANGED wqvars
  BY <1>5 DEF wqvars
<1> QED
  BY <1>1, <1>2, <1>3, <1>4, <1>5 DEF WQNext, TaskStep

(* ... and leave no sleeper unreachable: a set that is closed after the step *)
(* is closed, or closed but for the task that moved, before it.             *)
LEMMA WQStranded == WQInv /\ [WQNext]_wqvars => NoStranded'
<1> SUFFICES ASSUME WQInv, [WQNext]_wqvars,
                    NEW S \in SUBSET Tasks, Closed(S)'
             PROVE  inside' \subseteq S
  BY DEF NoStranded
<1> USE NullAssumption DEF WQInv, WQTypeOK, Runnable,
        TASK_RUNNING, TASK_INTERRUPTIBLE, TASK_UNINTERRUPTIBLE
<1>1. CASE WakeUp
  <2>1. Closed(S)
    BY <1>1 DEF WakeUp, Closed, Roots, OneReference
  <2> QED
    BY <1>1, <2>1 DEF WakeUp, NoStranded
<1>2. ASSUME NEW t \in Tasks, SleepOn(t) PROVE inside' \subseteq S
  <2>1. t \in S
    BY <1>2 DEF SleepOn, Closed, Roots
  <2>2. Closed(S)
    BY <1>2, <2>1 DEF SleepOn, Closed, Roots, OneReference
  <2> QED
    BY <1>2, <2>1, <2>2 DEF SleepOn, NoStranded
<1>3. ASSUME NEW t \in Tasks, Resume(t) PROVE inside' \subseteq S
  <2>1. tmp[t] # NULL => tmp[t] \in S
    BY <1>3 DEF Resume, Passed, Closed, Roots, OneReference
  <2>2. Closed(S \cup {t})
    <3>1. Roots \subseteq S \cup {t}
      BY <1>3 DEF Resume, Passed, Closed, Roots, OneReference
    <3>2. ASSUME NEW u \in (S \cup {t}) \cap inside, tmp[u] # NULL PROVE tmp[u] \in S \cup {t}
      BY <1>3, <2>1, <3>2 DEF Resume, Closed
    <3> QED
      BY <3>1, <3>2 DEF Closed
  <2>3. inside \subseteq S \cup {t}
    BY <2>2 DEF NoStranded
  <2> QED
    BY <1>3, <2>3 DEF Resume
<1>4. ASSUME NEW t \in Tasks, ResumeAndSleep(t) PROVE inside' \subseteq S
  <2>1. t \in S /\ (head # NULL => head \in S)
    BY <1>4 DEF ResumeAndSleep, Closed, Roots
  <2>2. tmp[t] # NULL => tmp[t] \in S
    BY <1>4 DEF ResumeAndSleep, Passed, Closed, Roots, OneReference
  <2>3. Closed(S)
    <3>1. Roots \subseteq S
      BY <1>4, <2>1 DEF ResumeAndSleep, Passed, Closed, Roots, OneReference
    <3>2. ASSUME NEW u \in S \cap inside, tmp[u] # NULL PROVE tmp[u] \in S
      BY <1>4, <2>2, <3>2 DEF ResumeAndSleep, Closed
    <3> QED
      BY <3>1, <3>2 DEF Closed
  <2> QED
    BY <1>4, <2>3 DEF ResumeAndSleep, NoStranded
<1>5. CASE UNCHANGED wqvars
  <2>1. Closed(S)
    BY <1>5 DEF wqvars, Closed, Roots
  <2> QED
    BY <1>5, <2>1 DEF wqvars, NoStranded
<1> QED
  BY <1>1, <1>2, <1>3, <1>4, <1>5 DEF WQNext, TaskStep

(* So every step of sleep_on and wake_up keeps the queue's invariant.       *)
LEMMA WQStep == WQInv /\ [WQNext]_wqvars => WQInv'
  BY WQTypes, WQReferences, WQStranded DEF WQInv

(* However many tasks use a sleep_on queue, none is ever stranded: each one *)
(* is reachable from the head or from a runnable task (sleep_on, wake_up).  *)
THEOREM QueueNoStranded == Spec => []NoStranded
<1>1. WQInv => NoStranded
  BY DEF WQInv
<1> QED
  BY <1>1, WQInitInv, WQStep, PTL DEF Spec

(* ... and nobody holds a reference to a task that has left the queue.      *)
THEOREM QueueOneReference == Spec => []OneReference
<1>1. WQInv => OneReference
  BY DEF WQInv
<1> QED
  BY <1>1, WQInitInv, WQStep, PTL DEF Spec

-----------------------------------------------------------------------------
(* Every operation of a lock is one of its queue, or leaves the queue alone. *)
LEMMA LockStepIsQueueStep == [LockNext]_lkvars => [WQNext]_wqvars
  BY DEF LockNext, lkvars, wqvars, WQNext, TaskStep, Lock, LockSleep, WaitOn, Again, Leave, Unlock

(* While the lock is free no task goes to sleep on it, and unlock_x emptied *)
(* the queue: the fact that makes waking the head alone sufficient.         *)
FreeMeansNoHead == ~lock => head = NULL

LockParts == LockTypes /\ MutualExclusion /\ FreeMeansNoHead

LockInv == WQInv /\ LockParts

(* A free lock that nobody waits for satisfies it.                          *)
LEMMA LockInitInv == LockInit => LockInv
  BY WQInitInv DEF LockInit, LockInv, WQInv, LockParts, LockTypes, MutualExclusion, FreeMeansNoHead, WQInit

(* lock_x, wait_on_x and unlock_x keep the invariant of the lock.           *)
LEMMA LockStepInv == LockInv /\ [LockNext]_lkvars => LockInv'
<1> SUFFICES ASSUME LockInv, [LockNext]_lkvars PROVE LockInv'
  OBVIOUS
<1>1. WQInv'
  BY LockStepIsQueueStep, WQStep DEF LockInv
<1>2. WQTypeOK /\ WQTypeOK'
  BY <1>1 DEF LockInv, WQInv
<1>3. LockParts'
  <2> USE <1>2 DEF LockInv, LockParts, LockTypes, MutualExclusion, FreeMeansNoHead
  <2>1. ASSUME NEW t \in Tasks, Lock(t) PROVE LockParts'
    BY <2>1 DEF Lock, wqvars
  <2>2. ASSUME NEW t \in Tasks, LockSleep(t) PROVE LockParts'
    BY <2>2 DEF LockSleep, SleepOn
  <2>3. ASSUME NEW t \in Tasks, WaitOn(t) PROVE LockParts'
    BY <2>3 DEF WaitOn, SleepOn, lockvars
  <2>4. ASSUME NEW t \in Tasks, Again(t) PROVE LockParts'
    BY <2>4 DEF Again, ResumeAndSleep, lockvars
  <2>5. ASSUME NEW t \in Tasks, Leave(t) PROVE LockParts'
    <3>1. owners = {} /\ head' = NULL /\ LockTypes'
      BY <2>5 DEF Leave, Resume
    <3>2. CASE t \in locking
      <4>1. lock' = TRUE /\ owners' = {t}
        BY <2>5, <3>1, <3>2 DEF Leave
      <4> QED
        BY <3>1, <4>1
    <3>3. CASE t \notin locking
      <4>1. lock' = FALSE /\ owners' = {}
        BY <2>5, <3>1, <3>3 DEF Leave
      <4> QED
        BY <3>1, <4>1
    <3> QED
      BY <3>2, <3>3
  <2>6. ASSUME NEW t \in Tasks, Unlock(t) PROVE LockParts'
    BY <2>6 DEF Unlock, WakeUp
  <2>7. CASE UNCHANGED lkvars
    BY <2>7 DEF lkvars
  <2> QED
    BY <2>1, <2>2, <2>3, <2>4, <2>5, <2>6, <2>7 DEF LockNext
<1> QED
  BY <1>1, <1>3 DEF LockInv

(* If nobody in the queue is runnable and the queue has no head, the empty  *)
(* set is closed, so nobody is in the queue.                                *)
LEMMA LockInvWaiterAwake == LockInv => WaiterAwake
<1> SUFFICES ASSUME LockInv, ~lock, \A t \in inside : ~Runnable(t) PROVE inside = {}
  BY DEF WaiterAwake
<1>1. head = NULL
  BY DEF LockInv, LockParts, FreeMeansNoHead
<1>2. Closed({})
  BY <1>1, NullAssumption DEF Closed, Roots
<1> QED
  BY <1>2 DEF LockInv, WQInv, NoStranded

(* lock_x and unlock_x keep the lock to one task, for any number of tasks.  *)
THEOREM LockMutualExclusion == LockSpec => []MutualExclusion
<1>1. LockInv => MutualExclusion
  BY DEF LockInv, LockParts
<1> QED
  BY <1>1, LockInitInv, LockStepInv, PTL DEF LockSpec

(* A free lock with waiters always has a runnable waiter: unlock_x never    *)
(* loses a wake-up, although it wakes only the head of the queue.           *)
THEOREM LockWaiterAwake == LockSpec => []WaiterAwake
  BY LockInitInv, LockStepInv, LockInvWaiterAwake, PTL DEF LockSpec

(* Type correctness of the lock and its queue.                              *)
THEOREM LockTypeOK == LockSpec => []LockTypes
<1>1. LockInv => LockTypes
  BY DEF LockInv, LockParts
<1> QED
  BY <1>1, LockInitInv, LockStepInv, PTL DEF LockSpec

-----------------------------------------------------------------------------
(* The pipe.  First the arithmetic of the page: the distance from b up to a.  *)
Off(a, b) == IF a >= b THEN a - b ELSE a - b + PAGE_SIZE

(* An index is a number below PAGE_SIZE.                                     *)
LEMMA PageFacts ==
  /\ PAGE_SIZE \in Nat /\ PAGE_SIZE > 1 /\ 0 \in Index
  /\ \A i : i \in Index <=> i \in Int /\ 0 <= i /\ i < PAGE_SIZE
  BY PipeAssumption DEF Index

(* `& (PAGE_SIZE-1)' of a number that is at most one page off.               *)
LEMMA ModPage ==
  ASSUME NEW x \in Int, NEW y \in Int, x = y \/ x = y + PAGE_SIZE \/ x = y - PAGE_SIZE, 0 <= y, y < PAGE_SIZE
  PROVE  x % PAGE_SIZE = y
  BY PipeAssumption

(* PIPE_SIZE's subtraction and mask give that distance.                      *)
LEMMA OffIs ==
  ASSUME NEW h \in Index, NEW t \in Index
  PROVE  /\ (h - t) % PAGE_SIZE = Off(h, t)
         /\ Off(h, t) \in Int /\ 0 <= Off(h, t) /\ Off(h, t) < PAGE_SIZE
<1>1. h \in Int /\ 0 <= h /\ h < PAGE_SIZE /\ t \in Int /\ 0 <= t /\ t < PAGE_SIZE
  BY PageFacts
<1>2. Off(h, t) \in Int /\ 0 <= Off(h, t) /\ Off(h, t) < PAGE_SIZE
  BY <1>1, PipeAssumption DEF Off
<1> QED
  BY <1>1, <1>2, ModPage, PageFacts DEF Off

(* ... so PIPE_SIZE is the distance from the tail to the head.               *)
LEMMA SizeIsOff ==
  ASSUME pipeHead \in Index, pipeTail \in Index
  PROVE  PIPE_SIZE = Off(pipeHead, pipeTail) /\ PIPE_SIZE \in Int
  BY OffIs DEF PIPE_SIZE

(* The tail moves up by c of the bytes there are, up to the end of the page,  *)
(* or the head by c of those there is room for.                              *)
Up(i, c) == IF i + c = PAGE_SIZE THEN 0 ELSE i + c

(* Bytes leave at the tail: those that stay keep their order, that is their   *)
(* distance from the tail less c.                                            *)
LEMMA TailMoves ==
  ASSUME NEW h \in Index, NEW t \in Index, NEW c \in Nat, c >= 1, c <= PAGE_SIZE - t, c <= Off(h, t)
  PROVE  /\ Up(t, c) \in Index /\ Off(h, Up(t, c)) = Off(h, t) - c
         /\ \A i \in Index : Off(i, Up(t, c)) < Off(h, t) - c => Off(i, t) = Off(i, Up(t, c)) + c
         /\ \A i \in 1..c : t + i - 1 \in Index /\ Off(t + i - 1, t) = i - 1
<1>1. h \in Int /\ 0 <= h /\ h < PAGE_SIZE /\ t \in Int /\ 0 <= t /\ t < PAGE_SIZE /\ PAGE_SIZE \in Nat
  BY PageFacts
<1>2. Up(t, c) \in Index
  BY <1>1, PageFacts DEF Up
<1>3. Off(h, Up(t, c)) = Off(h, t) - c
  BY <1>1 DEF Up, Off
<1>4. ASSUME NEW i \in Index, Off(i, Up(t, c)) < Off(h, t) - c PROVE Off(i, t) = Off(i, Up(t, c)) + c
  <2>1. i \in Int /\ 0 <= i /\ i < PAGE_SIZE
    BY PageFacts
  <2> QED
    BY <1>1, <1>4, <2>1 DEF Up, Off
<1>5. ASSUME NEW i \in 1..c PROVE t + i - 1 \in Index /\ Off(t + i - 1, t) = i - 1
  BY <1>1, PageFacts DEF Off
<1> QED
  BY <1>2, <1>3, <1>4, <1>5

(* Bytes come in at the head: those before them keep their places, the new   *)
(* ones follow.                                                              *)
LEMMA HeadMoves ==
  ASSUME NEW h \in Index, NEW t \in Index, NEW c \in Nat, c >= 1, c <= PAGE_SIZE - h,
         c <= (PAGE_SIZE - 1) - Off(h, t)
  PROVE  /\ Up(h, c) \in Index /\ Off(Up(h, c), t) = Off(h, t) + c
         /\ \A i \in Index : Off(i, t) < Off(h, t) + c =>
              IF i \in h..(h + c - 1) THEN Off(i, t) = Off(h, t) + (i - h) ELSE Off(i, t) < Off(h, t)
<1>1. h \in Int /\ 0 <= h /\ h < PAGE_SIZE /\ t \in Int /\ 0 <= t /\ t < PAGE_SIZE /\ PAGE_SIZE \in Nat
  BY PageFacts
<1>2. Up(h, c) \in Index
  BY <1>1, PageFacts DEF Up
<1>3. Off(Up(h, c), t) = Off(h, t) + c
  BY <1>1 DEF Up, Off
<1>4. ASSUME NEW i \in Index, Off(i, t) < Off(h, t) + c
      PROVE  IF i \in h..(h + c - 1) THEN Off(i, t) = Off(h, t) + (i - h) ELSE Off(i, t) < Off(h, t)
  <2>1. i \in Int /\ 0 <= i /\ i < PAGE_SIZE
    BY PageFacts
  <2> QED
    BY <1>1, <1>4, <2>1 DEF Off
<1> QED
  BY <1>2, <1>3, <1>4

(* What a call moves in one piece: at least a byte, at most what it asks for,  *)
(* what there is, and what is left of the page.                              *)
LEMMA CharsBounds ==
  ASSUME TypeOK, NEW t \in Tasks, count[t] > 0, Room(end[t]) > 0
  PROVE  LET at == IF end[t] = "read" THEN pipeTail ELSE pipeHead
         IN  /\ Chars(t) \in Nat /\ Chars(t) >= 1 /\ Chars(t) <= count[t]
             /\ Chars(t) <= PAGE_SIZE - at /\ Chars(t) <= Room(end[t])
             /\ at \in Index /\ (at + Chars(t)) % PAGE_SIZE \in Index
             /\ (at + Chars(t)) % PAGE_SIZE = Up(at, Chars(t))
<1> DEFINE at == IF end[t] = "read" THEN pipeTail ELSE pipeHead
           c == Chars(t)
<1>1. /\ pipeHead \in Index /\ pipeTail \in Index /\ at \in Index /\ count[t] \in Nat
  BY DEF TypeOK
<1>2. PIPE_SIZE \in Int
  BY <1>1, SizeIsOff
<1>3. Room(end[t]) \in Int
  BY <1>2, PageFacts DEF Room
<1>4. c \in Nat /\ c >= 1 /\ c <= count[t] /\ c <= PAGE_SIZE - at /\ c <= Room(end[t])
  BY <1>1, <1>3, PageFacts DEF Chars, Least
<1> HIDE DEF c
<1>5. (at + c) % PAGE_SIZE = Up(at, c)
  BY <1>1, <1>4, PageFacts, ModPage DEF Up
<1>6. (at + c) % PAGE_SIZE \in Index
  BY <1>1, <1>4, <1>5, PageFacts DEF Up
<1> QED
  BY <1>1, <1>4, <1>5, <1>6 DEF c

-----------------------------------------------------------------------------
(* The bytes that the readers, or the writers, whose copy a fault interrupted *)
(* have still to move.                                                       *)
Marks(ch, en) == [t \in Tasks |-> [i \in Index |-> IF i \in ch[t] THEN en[t] ELSE "none"]]
OwedIn(ch, en, e) == Cardinality(Places(Marks(ch, en), Tasks, Index, e))
Owed(e) == OwedIn(chunk, end, e)

(* The bytes that t has to move become those in S, of its call at the end x.  *)
Recount(ch, en, kh, kn, t, S, x) ==
  /\ ch \in [Tasks -> SUBSET Index] /\ en \in [Tasks -> Ends] /\ t \in Tasks
  /\ S \in SUBSET Index /\ x \in Ends
  /\ kh = [ch EXCEPT ![t] = S] /\ kn = [en EXCEPT ![t] = x]

(* What is owed at an end changes by what t owed and what it owes now.         *)
LEMMA OwedStep ==
  ASSUME NEW ch, NEW en, NEW kh, NEW kn, NEW t, NEW S, NEW x, Recount(ch, en, kh, kn, t, S, x),
         NEW e \in Ends
  PROVE  /\ OwedIn(ch, en, e) \in Nat
         /\ OwedIn(kh, kn, e) =
              OwedIn(ch, en, e) - (IF en[t] = e THEN Cardinality(ch[t]) ELSE 0)
                                + (IF x = e THEN Cardinality(S) ELSE 0)
         /\ Cardinality(S) \in Nat /\ Cardinality(ch[t]) \in Nat
<1> USE DEF Recount
<1> DEFINE M == Marks(ch, en)
           N == Marks(kh, kn)
           r == [i \in Index |-> IF i \in S THEN x ELSE "none"]
           V == Ends \cup {"none"}
<1>1. IsFiniteSet(Index) /\ IsFiniteSet(Tasks)
  BY PipeAssumption, FS_Interval DEF Index
<1>2. M \in [Tasks -> [Index -> V]] /\ r \in [Index -> V]
  BY DEF Marks
<1>3. N = [M EXCEPT ![t] = r]
  BY DEF Marks
<1>4. InRow(M[t], Index, e) = IF en[t] = e THEN ch[t] ELSE {}
  BY DEF Marks, InRow, Ends
<1>5. InRow(r, Index, e) = IF x = e THEN S ELSE {}
  BY DEF InRow, Ends
<1>6. Cardinality(S) \in Nat /\ Cardinality(ch[t]) \in Nat /\ Cardinality({}) = 0
  BY <1>1, FS_Subset, FS_CardinalityType, FS_EmptySet
<1> HIDE DEF M, N, r, V
<1>7. RowSet(M, N, Tasks, Index, V, t, r)
  BY <1>1, <1>2, <1>3 DEF RowSet
<1>8. /\ Cardinality(Places(M, Tasks, Index, e)) \in Nat
      /\ Cardinality(Places(N, Tasks, Index, e)) =
           Cardinality(Places(M, Tasks, Index, e)) - Cardinality(InRow(M[t], Index, e))
                                         + Cardinality(InRow(r, Index, e))
  BY <1>7, PlacesRow
<1> QED
  BY <1>4, <1>5, <1>6, <1>8 DEF OwedIn, M, N

(* The rest of a chunk from i to j.                                          *)
LEMMA ChunkSize ==
  ASSUME NEW i \in Int, NEW j \in Int, i <= j + 1
  PROVE  Cardinality(i..j) = j - i + 1
  BY FS_Interval

(* No copy is interrupted: nothing is owed.                                  *)
LEMMA NoneOwed ==
  ASSUME NEW ch \in [Tasks -> SUBSET Index], NEW en, NEW e \in Ends, \A t \in Tasks : ch[t] = {}
  PROVE  OwedIn(ch, en, e) = 0
<1>1. Places(Marks(ch, en), Tasks, Index, e) = {}
  BY DEF Places, Marks, Ends
<1> QED
  BY <1>1, FS_EmptySet DEF OwedIn

-----------------------------------------------------------------------------
(* Where the tasks are: at most one runs in the kernel, the others sleep,    *)
(* wait for a page of their buffer or are in user mode; one that has called  *)
(* wake_up before it sleeps still finds nothing to move.                     *)
Points ==
  /\ \A t \in Tasks : pc[t] = "sleep" <=> t \in inside
  /\ \A t \in Tasks : pc[t] \in {"loop", "check"} => t = cur
  /\ cur # NULL => pc[cur] \in {"loop", "check", "copy"}
  /\ \A t \in Tasks : pc[t] = "check" => Room(end[t]) = 0
  /\ \A t \in Tasks : pc[t] = "copy" <=> chunk[t] # {}
  /\ faults = 0 => \A t \in Tasks : pc[t] # "copy"

(* NoLostWakeup, and that it holds already when the task in the kernel has   *)
(* called wake_up and is about to sleep or to give up.                       *)
Woken == (\A t \in Tasks : pc[t] # "copy") /\ (cur # NULL => pc[cur] = "check") =>
           \/ \E t \in inside : Runnable(t)
           \/ \A t \in Tasks : ~CouldGo(t)

(* The bytes between the indices are those written and not read, but for      *)
(* those that interrupted copies have still to write and to read.            *)
Balance == sent + Owed("write") = Len(delivered) + Owed("read") + PIPE_SIZE

(* Without a fault the bytes in the page are the next ones of the stream.    *)
Ordered == faults = 0 =>
  /\ Stream
  /\ \A i \in Index : Off(i, pipeTail) < PIPE_SIZE => ring[i] = Len(delivered) + 1 + Off(i, pipeTail)

(* i_count counts the ends that someone has open.                            *)
Opened == LET open(e) == IF \E t \in Tasks : <<t, e>> \in holds THEN 1 ELSE 0
          IN  i_count >= open("read") + open("write")

PInv == TypeOK /\ WQInv /\ Points /\ Opened /\ Woken /\ Balance /\ Ordered

(* pipe() and fork() establish it.                                           *)
LEMMA PipeInit == Init => PInv
<1> SUFFICES ASSUME Init PROVE PInv
  OBVIOUS
<1>1. WQInv
  BY WQInitInv DEF Init
<1>2. TypeOK
  BY <1>1, PageFacts, PipeAssumption, NullAssumption DEF Init, TypeOK, WQInv, Ends
<1>3. PIPE_SIZE = 0
  BY <1>2, SizeIsOff, PageFacts DEF Init, Off, TypeOK
<1>4. Points /\ Opened /\ Woken
  BY NullAssumption DEF Init, WQInit, Points, Opened, Woken, CouldGo
<1>5. Balance
  <2>1. Owed("write") = 0 /\ Owed("read") = 0
    BY <1>2, NoneOwed DEF Owed, Init, TypeOK, Ends
  <2> QED
    BY <1>3, <2>1 DEF Balance, Init
<1>6. Ordered
  BY <1>2, <1>3, PageFacts DEF Ordered, Stream, Init, Off
<1> QED
  BY <1>1, <1>2, <1>4, <1>5, <1>6 DEF PInv

(* Every step of the pipe is one of its queue, or leaves the queue alone.    *)
LEMMA PipeQueue == [Next]_vars => [WQNext]_wqvars
  BY DEF Next, InCall, vars, wqvars, WQNext, TaskStep, Call, ReadChunk, WriteChunk, CopyByte,
     Stuck, GiveUp, Block, Wake, Return, Close

(* A step that moves no byte keeps the account of the bytes.                 *)
LEMMA RingKept ==
  ASSUME PInv, UNCHANGED <<ringvars, chunk>>, NEW t \in Tasks, NEW x \in Ends,
         end' = end \/ (end' = [end EXCEPT ![t] = x] /\ chunk[t] = {})
  PROVE  Balance' /\ Ordered'
<1>1. PIPE_SIZE' = PIPE_SIZE /\ UNCHANGED <<ring, pipeTail, delivered, sent, faults, chunk>>
  BY DEF ringvars, PIPE_SIZE
<1>2. ASSUME NEW e \in Ends PROVE Owed(e)' = Owed(e)
  <2>1. CASE end' = end
    BY <1>1, <2>1 DEF Owed, OwedIn, Marks
  <2>2. CASE end' = [end EXCEPT ![t] = x] /\ chunk[t] = {}
    <3>1. PICK S \in SUBSET Index : S = {}
      OBVIOUS
    <3>2. chunk \in [Tasks -> SUBSET Index] /\ end \in [Tasks -> Ends]
      BY DEF PInv, TypeOK
    <3>3. chunk' = [chunk EXCEPT ![t] = S]
      BY <1>1, <2>2, <3>1, <3>2
    <3>4. /\ OwedIn(chunk, end, e) \in Nat
          /\ OwedIn(chunk', end', e) =
              OwedIn(chunk, end, e) - (IF end[t] = e THEN Cardinality(chunk[t]) ELSE 0)
                                + (IF x = e THEN Cardinality(S) ELSE 0)
      <4>1. Recount(chunk, end, chunk', end', t, S, x)
        BY <2>2, <3>2, <3>3 DEF Recount
      <4> QED
        BY <4>1, OwedStep
    <3>5. Cardinality(S) = 0 /\ Cardinality(chunk[t]) = 0
      BY <2>2, <3>1, FS_EmptySet
    <3>6. OwedIn(chunk', end', e) = OwedIn(chunk, end, e)
      BY <2>2, <3>3, <3>4, <3>5
    <3> QED
      BY <3>6 DEF Owed
  <2> QED
    BY <2>1, <2>2
<1>3. Balance'
  BY <1>1, <1>2 DEF PInv, Balance, Ends
<1>4. Ordered'
  BY <1>1 DEF PInv, Ordered, Stream, Off
<1> QED
  BY <1>3, <1>4

(* After wake_up the queue is empty or has a runnable task: the empty set is  *)
(* closed otherwise.                                                         *)
LEMMA AfterWakeUp ==
  ASSUME PInv, WakeUp, WQInv', Points'
  PROVE  Woken'
<1>1. head' = NULL
  BY DEF WakeUp
<1>2. (\A t \in inside' : ~Runnable(t)') => Closed({})'
  BY <1>1, NullAssumption DEF Closed, Roots
<1>3. (\A t \in inside' : ~Runnable(t)') => inside' = {}
  BY <1>2 DEF WQInv, NoStranded
<1> QED
  BY <1>3 DEF Woken, CouldGo, Points

(* The steps of a call that move no byte.                                    *)
LEMMA CallSteps ==
  ASSUME PInv, WQInv', NEW t \in Tasks, NEW e \in Ends, NEW n \in Nat,
         Call(t, e, n) \/ Stuck(t) \/ GiveUp(t) \/ Block(t) \/ Wake(t) \/ Return(t) \/ Close(t, e)
  PROVE  PInv'
<1>1. TypeOK /\ Points /\ Woken /\ WQTypeOK' /\ pc \in [Tasks -> {"user", "loop", "check", "sleep", "copy"}]
      /\ end \in [Tasks -> Ends]
  BY DEF PInv, WQInv, TypeOK
<1>2. PIPE_SIZE' = PIPE_SIZE /\ \A x : Room(x)' = Room(x)
  BY DEF Call, Stuck, GiveUp, Block, Wake, Return, Close, ringvars, PIPE_SIZE, Room
<1>0. Call(t, e, n) \/ Stuck(t) \/ GiveUp(t) \/ Block(t) \/ Wake(t) \/ Return(t) => Opened'
  BY DEF PInv, Opened, Call, Stuck, GiveUp, Block, Wake, Return, endvars
<1>3. ASSUME NEW x \in Ends, UNCHANGED <<ringvars, chunk>>,
             end' = end \/ (end' = [end EXCEPT ![t] = x] /\ pc[t] = "user")
      PROVE  Balance' /\ Ordered'
  BY <1>1, <1>3, RingKept DEF Points
<1>4. CASE Call(t, e, n)
  <2>1. TypeOK'
    BY <1>1, <1>4, PipeAssumption DEF Call, TypeOK, endvars, ringvars
  <2>2. Points'
    BY <1>1, <1>2, <1>4, NullAssumption DEF Call, Points, ringvars, wqvars
  <2>3. Woken'
    BY <1>1, <1>4, NullAssumption DEF Call, Woken
  <2>4. Balance' /\ Ordered'
    BY <1>3, <1>4 DEF Call
  <2> QED
    BY <1>0, <1>4, <2>1, <2>2, <2>3, <2>4 DEF PInv
<1>5. CASE Stuck(t)
  <2>1. TypeOK'
    BY <1>1, <1>5 DEF Stuck, TypeOK, endvars, ringvars
  <2>2. Points'
    BY <1>1, <1>2, <1>5 DEF Stuck, WakeUp, Points, ringvars
  <2>3. Woken'
    BY <1>5, <2>2, AfterWakeUp DEF Stuck
  <2>4. Balance' /\ Ordered'
    BY <1>3, <1>5 DEF Stuck
  <2> QED
    BY <1>0, <1>5, <2>1, <2>2, <2>3, <2>4 DEF PInv
<1>6. CASE GiveUp(t)
  <2>1. TypeOK'
    BY <1>1, <1>6 DEF GiveUp, TypeOK, ringvars
  <2>2. Points'
    BY <1>1, <1>2, <1>6 DEF GiveUp, Points, ringvars, wqvars
  <2>3. Woken'
    BY <1>1, <1>2, <1>6 DEF GiveUp, Woken, CouldGo, wqvars, Runnable
  <2>4. Balance' /\ Ordered'
    BY <1>3, <1>6 DEF GiveUp
  <2> QED
    BY <1>0, <1>6, <2>1, <2>2, <2>3, <2>4 DEF PInv
<1>7. CASE Block(t)
  <2>1. TypeOK'
    BY <1>1, <1>7 DEF Block, TypeOK, endvars, ringvars
  <2>2. Points'
    BY <1>1, <1>2, <1>7 DEF Block, SleepOn, Points, ringvars
  <2>3. Woken'
    <3>1. \A u \in inside : u \in Tasks /\ u # t /\ state'[u] = state[u] /\ u \in inside'
      BY <1>1, <1>7 DEF Block, SleepOn, TypeOK, WQTypeOK
    <3>2. \A u \in Tasks : CouldGo(u)' => CouldGo(u)
      BY <1>1, <1>2, <1>7 DEF Block, CouldGo, Points, endvars
    <3> QED
      BY <1>1, <1>7, <3>1, <3>2 DEF Block, Woken, Runnable
  <2>4. Balance' /\ Ordered'
    BY <1>3, <1>7 DEF Block
  <2> QED
    BY <1>0, <1>7, <2>1, <2>2, <2>3, <2>4 DEF PInv
<1>8. CASE Wake(t)
  <2>1. TypeOK'
    BY <1>1, <1>8 DEF Wake, TypeOK, endvars, ringvars
  <2>2. Points'
    BY <1>1, <1>2, <1>8, NullAssumption DEF Wake, Resume, Points, ringvars
  <2>3. Woken'
    BY <1>1, <1>8, NullAssumption DEF Wake, Woken
  <2>4. Balance' /\ Ordered'
    BY <1>3, <1>8 DEF Wake
  <2> QED
    BY <1>0, <1>8, <2>1, <2>2, <2>3, <2>4 DEF PInv
<1>9. CASE Return(t)
  <2>1. TypeOK'
    BY <1>1, <1>9 DEF Return, TypeOK, endvars, ringvars
  <2>2. Points'
    BY <1>1, <1>2, <1>9 DEF Return, WakeUp, Points, ringvars
  <2>3. Woken'
    BY <1>9, <2>2, AfterWakeUp DEF Return
  <2>4. Balance' /\ Ordered'
    BY <1>3, <1>9 DEF Return
  <2> QED
    BY <1>0, <1>9, <2>1, <2>2, <2>3, <2>4 DEF PInv
<1>10. CASE Close(t, e)
  <2>1. TypeOK' /\ Opened'
    <3> DEFINE open(x) == IF \E u \in Tasks : <<u, x>> \in holds THEN 1 ELSE 0
               left(x) == IF \E u \in Tasks : <<u, x>> \in holds' THEN 1 ELSE 0
    <3>1. i_count \in 0..2 /\ i_count >= open("read") + open("write")
      BY DEF PInv, TypeOK, Opened
    <3>2. open(e) = 1 /\ \A x \in Ends : left(x) <= open(x) /\ open(x) \in {0, 1} /\ left(x) \in {0, 1}
      BY <1>10 DEF Close
    <3>3. i_count' = IF left(e) = 1 THEN i_count ELSE i_count - 1
      BY <1>10 DEF Close
    <3> HIDE DEF open, left
    <3>4. i_count' \in 0..2 /\ i_count' >= left("read") + left("write")
      BY <3>1, <3>2, <3>3 DEF Ends
    <3>5. Opened'
      BY <3>4 DEF Opened, left
    <3>6. TypeOK'
      BY <1>1, <1>10, <3>4 DEF Close, TypeOK, callvars, ringvars
    <3> QED
      BY <3>5, <3>6
  <2>2. Points'
    BY <1>1, <1>2, <1>10 DEF Close, WakeUp, Points, ringvars, callvars, wqvars
  <2>3. Woken'
    BY <1>1, <1>2, <1>10, <2>2, AfterWakeUp DEF Close, Woken, CouldGo, Runnable, wqvars, callvars
  <2>4. Balance' /\ Ordered'
    BY <1>3, <1>10 DEF Close, callvars
  <2> QED
    BY <2>1, <2>2, <2>3, <2>4 DEF PInv
<1> QED
  BY <1>4, <1>5, <1>6, <1>7, <1>8, <1>9, <1>10

(* What a chunk of c bytes at the index `at', k of them copied, does to the   *)
(* points the tasks are at.                                                  *)
ChunkMoved(t, at, c, k) ==
  /\ c \in Nat /\ c >= 1 /\ c <= PAGE_SIZE - at /\ k \in 0..c /\ at \in Index
  /\ chunk' = [chunk EXCEPT ![t] = (at + k)..(at + c - 1)]
  /\ pc' = [pc EXCEPT ![t] = IF k = c THEN "loop" ELSE "copy"]
  /\ cur' = (IF k = c THEN t ELSE NULL)
  /\ faults' = (IF k < c THEN faults + 1 ELSE faults)
  /\ faults' \in 0..MaxFaults

(* Whether the chunk is copied whole or a fault interrupts it, each task is   *)
(* at a point it may be at and no wake-up is lost.                           *)
LEMMA ChunkPoints ==
  ASSUME PInv, NEW t \in Tasks, NEW at, NEW c, NEW k, ChunkMoved(t, at, c, k),
         cur = t, pc[t] = "loop", inside' = inside, end' = end
  PROVE  /\ Points' /\ Woken'
         /\ chunk' \in [Tasks -> SUBSET Index] /\ cur' \in Tasks \cup {NULL}
         /\ pc' \in [Tasks -> {"user", "loop", "check", "sleep", "copy"}]
         /\ chunk[t] = {} /\ Cardinality(chunk'[t]) = c - k
         /\ faults' = 0 => faults = 0 /\ k = c
<1> USE DEF ChunkMoved
<1> DEFINE S == (at + k)..(at + c - 1)
<1>1. /\ pc \in [Tasks -> {"user", "loop", "check", "sleep", "copy"}]
      /\ chunk \in [Tasks -> SUBSET Index] /\ faults \in Nat /\ Points
  BY PipeAssumption DEF PInv, TypeOK
<1>2. S \in SUBSET Index /\ (S = {} <=> k = c) /\ Cardinality(S) = c - k
  <2>1. at \in Int /\ k \in Int /\ at >= 0 /\ k >= 0 /\ k <= c /\ c \in Int /\ at + c <= PAGE_SIZE
    BY PageFacts
  <2>2. S \in SUBSET Index
    BY <2>1, PageFacts
  <2>3. S = {} <=> k = c
    <3>1. k # c => at + k \in S
      BY <2>1
    <3> QED
      BY <2>1, <3>1
  <2>4. Cardinality(S) = (at + c - 1) - (at + k) + 1
    BY <2>1, ChunkSize
  <2> QED
    BY <2>1, <2>2, <2>3, <2>4
<1>3. chunk' = [chunk EXCEPT ![t] = S]
  OBVIOUS
<1> HIDE DEF S
<1>4. /\ \A u \in Tasks : chunk'[u] = IF u = t THEN S ELSE chunk[u]
      /\ chunk' \in [Tasks -> SUBSET Index]
  BY <1>1, <1>2, <1>3
<1>5. \A u \in Tasks : pc'[u] = IF u = t THEN (IF k = c THEN "loop" ELSE "copy") ELSE pc[u]
  BY <1>1
<1>6. faults' = 0 => faults = 0 /\ k = c
  BY <1>1
<1>7. Points'
  <2>1. \A u \in Tasks : pc'[u] # "check"
    BY <1>1, <1>5 DEF Points
  <2> QED
    BY <1>1, <1>2, <1>4, <1>5, <1>6, <2>1, NullAssumption DEF Points
<1>8. Woken'
  BY <1>5, NullAssumption DEF Woken
<1> QED
  BY <1>1, <1>2, <1>4, <1>6, <1>7, <1>8 DEF Points

(* What it means to put the bytes m behind the bytes d.                       *)
LEMMA Behind ==
  ASSUME NEW d \in Seq(Nat), NEW m \in Seq(Nat)
  PROVE  /\ d \o m \in Seq(Nat) /\ Len(d \o m) = Len(d) + Len(m)
         /\ Len(d) \in Nat /\ Len(m) \in Nat
         /\ \A i \in 1..Len(d) : (d \o m)[i] = d[i]
         /\ \A i \in 1..Len(m) : (d \o m)[Len(d) + i] = m[i]
  OBVIOUS

(* A turn of read_pipe's loop: the bytes leave the ring, and reach the buffer  *)
(* or are owed by the copy that a fault interrupts.                          *)
LEMMA ReadChunkKeeps ==
  ASSUME PInv, WQInv', NEW t \in Tasks, ReadChunk(t)
  PROVE  PInv'
<1> DEFINE c == Chars(t)
           T == pipeTail
           n == Len(delivered)
<1>1. TypeOK /\ end[t] = "read" /\ count[t] > 0 /\ Room(end[t]) > 0 /\ cur = t /\ pc[t] = "loop"
  BY DEF PInv, ReadChunk, Room
<1>2. /\ T \in Index /\ pipeHead \in Index /\ ring \in [Index -> Nat] /\ delivered \in Seq(Nat)
      /\ sent \in Nat /\ faults \in 0..MaxFaults /\ chunk \in [Tasks -> SUBSET Index]
      /\ end \in [Tasks -> Ends] /\ count \in [Tasks -> Nat]
  BY <1>1 DEF TypeOK
<1>3. /\ c \in Nat /\ c >= 1 /\ c <= count[t] /\ c <= PAGE_SIZE - T /\ c <= PIPE_SIZE
      /\ (T + c) % PAGE_SIZE = Up(T, c)
  BY <1>1, CharsBounds DEF Room
<1>4. PICK k \in {c} \cup (IF faults < MaxFaults THEN 0..(c - 1) ELSE {}) :
        /\ delivered' = delivered \o [i \in 1..k |-> ring[T + i - 1]]
        /\ chunk' = [chunk EXCEPT ![t] = (T + k)..(T + c - 1)]
        /\ pc' = [pc EXCEPT ![t] = IF k = c THEN "loop" ELSE "copy"]
        /\ cur' = IF k = c THEN t ELSE NULL
        /\ faults' = IF k < c THEN faults + 1 ELSE faults
  BY DEF ReadChunk
<1>5. /\ count' = [count EXCEPT ![t] = count[t] - c]
      /\ pipeTail' = (T + c) % PAGE_SIZE
      /\ UNCHANGED <<wqvars, endvars, end, ring, pipeHead, sent>>
  BY DEF ReadChunk
<1> HIDE DEF c
<1>6. k \in 0..c /\ faults' \in 0..MaxFaults /\ k \in Nat
  BY <1>2, <1>3, <1>4, PipeAssumption
<1>0. /\ PIPE_SIZE = Off(pipeHead, T) /\ PIPE_SIZE \in Int
      /\ pipeTail' \in Index /\ pipeTail' = Up(T, c)
      /\ PIPE_SIZE' = PIPE_SIZE - c /\ PIPE_SIZE' = Off(pipeHead, pipeTail')
      /\ \A i \in Index : Off(i, pipeTail') < PIPE_SIZE' => Off(i, T) = Off(i, pipeTail') + c
      /\ \A i \in 1..c : T + i - 1 \in Index /\ Off(T + i - 1, T) = i - 1
  <2>1. PIPE_SIZE = Off(pipeHead, T) /\ PIPE_SIZE \in Int
    BY <1>2, SizeIsOff
  <2>2. pipeTail' = Up(T, c) /\ pipeHead' = pipeHead
    BY <1>3, <1>5
  <2>3. /\ Up(T, c) \in Index /\ Off(pipeHead, Up(T, c)) = Off(pipeHead, T) - c
        /\ \A i \in Index : Off(i, Up(T, c)) < Off(pipeHead, T) - c => Off(i, T) = Off(i, Up(T, c)) + c
        /\ \A i \in 1..c : T + i - 1 \in Index /\ Off(T + i - 1, T) = i - 1
    BY <1>2, <1>3, <2>1, TailMoves
  <2>4. PIPE_SIZE' = Off(pipeHead, Up(T, c))
    BY <1>2, <2>2, <2>3, OffIs DEF PIPE_SIZE
  <2> QED
    BY <2>1, <2>2, <2>3, <2>4
<1>7. ChunkMoved(t, T, c, k)
  BY <1>2, <1>3, <1>4, <1>6 DEF ChunkMoved
<1>8. inside' = inside /\ end' = end
  BY <1>5 DEF wqvars
<1>9. /\ Points' /\ Woken'
      /\ chunk' \in [Tasks -> SUBSET Index] /\ cur' \in Tasks \cup {NULL}
      /\ pc' \in [Tasks -> {"user", "loop", "check", "sleep", "copy"}]
      /\ chunk[t] = {} /\ Cardinality(chunk'[t]) = c - k
      /\ faults' = 0 => faults = 0 /\ k = c
  BY <1>1, <1>7, <1>8, ChunkPoints
<1> DEFINE m == [i \in 1..k |-> ring[T + i - 1]]
<1>10. m \in Seq(Nat) /\ Len(m) = k /\ \A i \in 1..k : m[i] = ring[T + i - 1]
  <2>1. \A i \in 1..k : T + i - 1 \in Index
    BY <1>0, <1>3, <1>6
  <2>2. m \in [1..k -> Nat] /\ k \in Nat
    BY <1>2, <1>6, <2>1
  <2> QED
    BY <2>2
<1>11. delivered' = delivered \o m
  BY <1>4
<1> HIDE DEF m
<1>12. /\ delivered' \in Seq(Nat) /\ Len(delivered') = n + k /\ n \in Nat
       /\ \A i \in 1..n : delivered'[i] = delivered[i]
       /\ \A i \in 1..k : delivered'[n + i] = m[i]
  BY <1>2, <1>10, <1>11, Behind
<1>13. count' \in [Tasks -> Nat]
  <2>1. count[t] - c \in Nat
    BY <1>2, <1>3
  <2> QED
    BY <1>2, <1>5, <2>1
<1>14. TypeOK' /\ Opened'
  BY <1>0, <1>1, <1>5, <1>6, <1>9, <1>12, <1>13 DEF TypeOK, WQInv, endvars, PInv, Opened
<1>16. Balance'
  <2>1. Recount(chunk, end, chunk', end', t, chunk'[t], "read")
    BY <1>1, <1>2, <1>4, <1>8, <1>9 DEF Recount, Ends
  <2>2. ASSUME NEW e \in Ends
        PROVE  /\ OwedIn(chunk, end, e) \in Nat
               /\ OwedIn(chunk', end', e) = OwedIn(chunk, end, e) - (IF end[t] = e THEN Cardinality(chunk[t]) ELSE 0)
                              + (IF "read" = e THEN Cardinality(chunk'[t]) ELSE 0)
    BY <2>1, OwedStep
  <2>3. Cardinality(chunk[t]) = 0
    BY <1>9, FS_EmptySet
  <2>4. /\ OwedIn(chunk', end', "read") = OwedIn(chunk, end, "read") + (c - k)
        /\ OwedIn(chunk', end', "write") = OwedIn(chunk, end, "write")
        /\ OwedIn(chunk, end, "read") \in Nat /\ OwedIn(chunk, end, "write") \in Nat
    BY <1>9, <2>2, <2>3 DEF Ends
  <2> QED
    BY <1>0, <1>2, <1>3, <1>5, <1>6, <1>12, <2>4 DEF PInv, Balance, Owed
<1>17. Ordered'
  <2> SUFFICES ASSUME faults' = 0
               PROVE  /\ Stream'
                      /\ \A i \in Index : Off(i, pipeTail') < PIPE_SIZE' => ring[i] = n + k + 1 + Off(i, pipeTail')
    BY <1>5, <1>12 DEF Ordered, Off
  <2>1. /\ k = c /\ \A i \in 1..n : delivered[i] = i
        /\ \A i \in Index : Off(i, T) < PIPE_SIZE => ring[i] = n + 1 + Off(i, T)
    BY <1>9 DEF PInv, Ordered, Stream
  <2>2. ASSUME NEW i \in 1..k PROVE m[i] = n + i
    <3>1. T + i - 1 \in Index /\ Off(T + i - 1, T) = i - 1 /\ i - 1 < PIPE_SIZE
      BY <1>0, <1>3, <2>1
    <3>2. ring[T + i - 1] = n + 1 + (i - 1)
      BY <2>1, <3>1
    <3>3. m[i] = ring[T + i - 1]
      BY <1>10
    <3> QED
      BY <1>12, <3>2, <3>3
  <2>3. Stream'
    <3> SUFFICES ASSUME NEW i \in 1..(n + k) PROVE delivered'[i] = i
      BY <1>12 DEF Stream
    <3>1. CASE i <= n
      BY <1>12, <2>1, <3>1
    <3>2. CASE i > n
      <4>1. i - n \in 1..k /\ n + (i - n) = i
        BY <1>6, <1>12, <3>2
      <4> QED
        BY <1>12, <2>2, <4>1
    <3> QED
      BY <1>12, <3>1, <3>2
  <2>4. ASSUME NEW i \in Index, Off(i, pipeTail') < PIPE_SIZE'
        PROVE  ring[i] = n + k + 1 + Off(i, pipeTail')
    <3>1. Off(i, T) = Off(i, pipeTail') + c /\ Off(i, pipeTail') \in Int
      BY <1>0, <2>4, OffIs
    <3>2. Off(i, T) < PIPE_SIZE
      BY <1>0, <1>3, <2>4, <3>1
    <3>3. ring[i] = n + 1 + Off(i, T)
      BY <2>1, <3>2
    <3> QED
      BY <1>3, <1>12, <2>1, <3>1, <3>3
  <2> QED
    BY <2>3, <2>4
<1> QED
  BY <1>9, <1>14, <1>16, <1>17 DEF PInv

(* Without a fault no copy is under way, and the ring holds what was sent and  *)
(* not delivered.                                                            *)
LEMMA Settled ==
  ASSUME PInv, \A t \in Tasks : pc[t] # "copy"
  PROVE  sent = Len(delivered) + PIPE_SIZE
<1>1. chunk \in [Tasks -> SUBSET Index] /\ \A t \in Tasks : chunk[t] = {}
  BY DEF PInv, TypeOK, Points
<1>2. Owed("write") = 0 /\ Owed("read") = 0
  BY <1>1, NoneOwed DEF Owed, Ends
<1>3. PIPE_SIZE \in Int /\ Len(delivered) \in Nat /\ sent \in Nat
  BY SizeIsOff DEF PInv, TypeOK
<1> QED
  BY <1>2, <1>3 DEF PInv, Balance

(* A turn of write_pipe's loop: the bytes enter the ring, or are owed by the   *)
(* copy that a fault interrupts.                                             *)
LEMMA WriteChunkKeeps ==
  ASSUME PInv, WQInv', NEW t \in Tasks, WriteChunk(t)
  PROVE  PInv'
<1> DEFINE c == Chars(t)
           h == pipeHead
           n == Len(delivered)
<1>1. TypeOK /\ end[t] = "write" /\ count[t] > 0 /\ Room(end[t]) > 0 /\ cur = t /\ pc[t] = "loop"
  BY DEF PInv, WriteChunk
<1>2. /\ h \in Index /\ pipeTail \in Index /\ ring \in [Index -> Nat] /\ delivered \in Seq(Nat)
      /\ sent \in Nat /\ faults \in 0..MaxFaults /\ chunk \in [Tasks -> SUBSET Index]
      /\ end \in [Tasks -> Ends] /\ count \in [Tasks -> Nat] /\ n \in Nat
  BY <1>1 DEF TypeOK
<1>3. /\ c \in Nat /\ c >= 1 /\ c <= count[t] /\ c <= PAGE_SIZE - h /\ c <= (PAGE_SIZE - 1) - PIPE_SIZE
      /\ (h + c) % PAGE_SIZE = Up(h, c)
  BY <1>1, CharsBounds DEF Room
<1>4. PICK k \in {c} \cup (IF faults < MaxFaults THEN 0..(c - 1) ELSE {}) :
        /\ ring' = [i \in Index |-> IF i \in h..(h + k - 1) THEN sent + (i - h) + 1 ELSE ring[i]]
        /\ sent' = sent + k
        /\ chunk' = [chunk EXCEPT ![t] = (h + k)..(h + c - 1)]
        /\ pc' = [pc EXCEPT ![t] = IF k = c THEN "loop" ELSE "copy"]
        /\ cur' = IF k = c THEN t ELSE NULL
        /\ faults' = IF k < c THEN faults + 1 ELSE faults
  BY DEF WriteChunk
<1>5. /\ count' = [count EXCEPT ![t] = count[t] - c]
      /\ pipeHead' = (h + c) % PAGE_SIZE
      /\ UNCHANGED <<wqvars, endvars, end, pipeTail, delivered>>
  BY DEF WriteChunk
<1> HIDE DEF c
<1>6. k \in 0..c /\ faults' \in 0..MaxFaults /\ k \in Nat
  BY <1>2, <1>3, <1>4, PipeAssumption
<1>7. /\ PIPE_SIZE = Off(h, pipeTail) /\ PIPE_SIZE \in Int
      /\ pipeHead' \in Index /\ PIPE_SIZE' = PIPE_SIZE + c
      /\ \A i \in Index : Off(i, pipeTail) < PIPE_SIZE + c =>
           IF i \in h..(h + c - 1) THEN Off(i, pipeTail) = PIPE_SIZE + (i - h) ELSE Off(i, pipeTail) < PIPE_SIZE
  <2>1. PIPE_SIZE = Off(h, pipeTail) /\ PIPE_SIZE \in Int
    BY <1>2, SizeIsOff
  <2>2. pipeHead' = Up(h, c) /\ pipeTail' = pipeTail
    BY <1>3, <1>5
  <2>3. /\ Up(h, c) \in Index /\ Off(Up(h, c), pipeTail) = Off(h, pipeTail) + c
        /\ \A i \in Index : Off(i, pipeTail) < Off(h, pipeTail) + c =>
             IF i \in h..(h + c - 1) THEN Off(i, pipeTail) = Off(h, pipeTail) + (i - h)
                                     ELSE Off(i, pipeTail) < Off(h, pipeTail)
    BY <1>2, <1>3, <2>1, HeadMoves
  <2>4. PIPE_SIZE' = Off(Up(h, c), pipeTail)
    BY <1>2, <2>2, <2>3, OffIs DEF PIPE_SIZE
  <2> QED
    BY <2>1, <2>2, <2>3, <2>4
<1>8. ChunkMoved(t, h, c, k)
  BY <1>2, <1>3, <1>4, <1>6 DEF ChunkMoved
<1>9. inside' = inside /\ end' = end /\ delivered' = delivered /\ pipeTail' = pipeTail
  BY <1>5 DEF wqvars
<1>10. /\ Points' /\ Woken'
       /\ chunk' \in [Tasks -> SUBSET Index] /\ cur' \in Tasks \cup {NULL}
       /\ pc' \in [Tasks -> {"user", "loop", "check", "sleep", "copy"}]
       /\ chunk[t] = {} /\ Cardinality(chunk'[t]) = c - k
       /\ faults' = 0 => faults = 0 /\ k = c
  BY <1>1, <1>8, <1>9, ChunkPoints
<1>11. ring' \in [Index -> Nat]
  <2>1. \A i \in Index : i \in h..(h + k - 1) => sent + (i - h) + 1 \in Nat
    BY <1>2, <1>6, PageFacts
  <2> QED
    BY <1>2, <1>4, <2>1
<1>12. count' \in [Tasks -> Nat] /\ sent' \in Nat
  <2>1. count[t] - c \in Nat
    BY <1>2, <1>3
  <2> QED
    BY <1>2, <1>4, <1>5, <1>6, <2>1
<1>13. TypeOK' /\ Opened'
  BY <1>1, <1>5, <1>6, <1>7, <1>9, <1>10, <1>11, <1>12 DEF TypeOK, WQInv, endvars, PInv, Opened
<1>14. Balance'
  <2>1. Recount(chunk, end, chunk', end', t, chunk'[t], "write")
    BY <1>1, <1>2, <1>4, <1>9, <1>10 DEF Recount, Ends
  <2>2. ASSUME NEW e \in Ends
        PROVE  /\ OwedIn(chunk, end, e) \in Nat
               /\ OwedIn(chunk', end', e) = OwedIn(chunk, end, e) - (IF end[t] = e THEN Cardinality(chunk[t]) ELSE 0)
                              + (IF "write" = e THEN Cardinality(chunk'[t]) ELSE 0)
    BY <2>1, OwedStep
  <2>3. Cardinality(chunk[t]) = 0
    BY <1>10, FS_EmptySet
  <2>4. /\ OwedIn(chunk', end', "write") = OwedIn(chunk, end, "write") + (c - k)
        /\ OwedIn(chunk', end', "read") = OwedIn(chunk, end, "read")
        /\ OwedIn(chunk, end, "read") \in Nat /\ OwedIn(chunk, end, "write") \in Nat
    BY <1>10, <2>2, <2>3 DEF Ends
  <2>5. sent + OwedIn(chunk, end, "write") = n + OwedIn(chunk, end, "read") + PIPE_SIZE
    BY DEF PInv, Balance, Owed
  <2>6. sent' + OwedIn(chunk', end', "write") = n + OwedIn(chunk', end', "read") + PIPE_SIZE'
    <3>1. sent' = sent + k /\ PIPE_SIZE' = PIPE_SIZE + c
      BY <1>4, <1>7
    <3>2. n \in Int /\ k \in Int /\ c \in Int /\ sent \in Int /\ PIPE_SIZE \in Int
      BY <1>2, <1>3, <1>6, <1>7
    <3> HIDE DEF n
    <3> QED
      BY <2>4, <2>5, <3>1, <3>2
  <2> QED
    BY <1>9, <2>6 DEF Balance, Owed
<1>15. Ordered'
  <2> SUFFICES ASSUME faults' = 0
               PROVE  \A i \in Index : Off(i, pipeTail) < PIPE_SIZE' => ring'[i] = n + 1 + Off(i, pipeTail)
    BY <1>9, <1>10 DEF Ordered, Off, Stream, PInv
  <2>1. /\ k = c /\ \A i \in Index : Off(i, pipeTail) < PIPE_SIZE => ring[i] = n + 1 + Off(i, pipeTail)
    BY <1>10 DEF PInv, Ordered
  <2>2. sent = n + PIPE_SIZE
    BY <1>10, Settled DEF PInv, Points
  <2> TAKE i \in Index
  <2> HAVE Off(i, pipeTail) < PIPE_SIZE'
  <2>3. IF i \in h..(h + c - 1) THEN Off(i, pipeTail) = PIPE_SIZE + (i - h) ELSE Off(i, pipeTail) < PIPE_SIZE
    BY <1>7
  <2>4. ring'[i] = IF i \in h..(h + c - 1) THEN sent + (i - h) + 1 ELSE ring[i]
    BY <1>4, <2>1
  <2>5. i \in Int /\ h \in Int
    BY <1>2, PageFacts
  <2> HIDE DEF n, h
  <2>6. CASE i \in h..(h + c - 1)
    <3>1. ring'[i] = sent + (i - h) + 1 /\ Off(i, pipeTail) = PIPE_SIZE + (i - h)
      BY <2>3, <2>4, <2>6
    <3> QED
      BY <1>2, <1>7, <2>2, <2>5, <3>1
  <2>7. CASE i \notin h..(h + c - 1)
    BY <2>1, <2>3, <2>4, <2>7
  <2> QED
    BY <2>6, <2>7
<1> QED
  BY <1>10, <1>13, <1>14, <1>15 DEF PInv

(* One byte of an interrupted copy: it is no longer owed.                     *)
LEMMA CopyByteKeeps ==
  ASSUME PInv, WQInv', NEW t \in Tasks, CopyByte(t)
  PROVE  PInv'
<1>1. /\ TypeOK /\ Points /\ pc[t] = "copy" /\ faults # 0 /\ cur \in {NULL, t} /\ cur' = t
      /\ UNCHANGED <<wqvars, endvars, end, count, pipeHead, pipeTail, faults>>
      /\ inside' = inside
  BY DEF PInv, CopyByte, Points, wqvars
<1>2. /\ ring \in [Index -> Nat] /\ delivered \in Seq(Nat) /\ sent \in Nat
      /\ chunk \in [Tasks -> SUBSET Index] /\ end \in [Tasks -> Ends]
      /\ pc \in [Tasks -> {"user", "loop", "check", "sleep", "copy"}]
  BY <1>1 DEF TypeOK
<1>3. PICK i \in chunk[t] :
        /\ chunk' = [chunk EXCEPT ![t] = chunk[t] \ {i}]
        /\ IF end[t] = "read"
             THEN delivered' = Append(delivered, ring[i]) /\ UNCHANGED <<ring, sent>>
             ELSE /\ ring' = [ring EXCEPT ![i] = sent + 1]
                  /\ sent' = sent + 1
                  /\ UNCHANGED delivered
        /\ pc' = [pc EXCEPT ![t] = IF chunk[t] = {i} THEN "loop" ELSE "copy"]
  BY DEF CopyByte
<1> DEFINE S == chunk[t] \ {i}
<1>4. i \in Index /\ S \in SUBSET Index /\ (S = {} <=> chunk[t] = {i})
  BY <1>2, <1>3
<1>5. Cardinality(S) = Cardinality(chunk[t]) - 1 /\ Cardinality(chunk[t]) \in Nat
  <2>1. IsFiniteSet(Index)
    BY PipeAssumption, FS_Interval DEF Index
  <2>2. IsFiniteSet(chunk[t])
    BY <1>2, <2>1, FS_Subset
  <2> QED
    BY <2>2, FS_RemoveElement, FS_CardinalityType
<1>6. chunk' = [chunk EXCEPT ![t] = S]
  BY <1>3
<1> HIDE DEF S
<1>7. /\ \A u \in Tasks : chunk'[u] = IF u = t THEN S ELSE chunk[u]
      /\ chunk' \in [Tasks -> SUBSET Index]
  BY <1>2, <1>4, <1>6
<1>8. /\ \A u \in Tasks : pc'[u] = IF u = t THEN (IF S = {} THEN "loop" ELSE "copy") ELSE pc[u]
      /\ pc' \in [Tasks -> {"user", "loop", "check", "sleep", "copy"}]
  BY <1>2, <1>3, <1>4
<1>9. Points'
  <2>1. \A u \in Tasks : pc'[u] # "check"
    BY <1>1, <1>8, NullAssumption DEF Points
  <2> QED
    BY <1>1, <1>7, <1>8, <2>1, NullAssumption DEF Points
<1>10. Woken'
  BY <1>1, <1>8, NullAssumption DEF Woken
<1>11. /\ ring' \in [Index -> Nat] /\ sent' \in Nat /\ delivered' \in Seq(Nat)
       /\ sent' = sent + (IF end[t] = "write" THEN 1 ELSE 0)
       /\ Len(delivered') = Len(delivered) + (IF end[t] = "read" THEN 1 ELSE 0)
       /\ Len(delivered) \in Nat
  <2>1. CASE end[t] = "read"
    <3>1. delivered' = Append(delivered, ring[i]) /\ ring' = ring /\ sent' = sent
      BY <1>3, <2>1
    <3>2. ring[i] \in Nat
      BY <1>2, <1>4
    <3>3. Append(delivered, ring[i]) \in Seq(Nat) /\ Len(Append(delivered, ring[i])) = Len(delivered) + 1
      BY <1>2, <3>2
    <3> QED
      BY <1>2, <2>1, <3>1, <3>3
  <2>2. CASE end[t] = "write"
    BY <1>2, <1>3, <1>4, <2>2
  <2> QED
    BY <1>2, <2>1, <2>2 DEF Ends
<1>12. TypeOK' /\ Opened'
  BY <1>1, <1>7, <1>8, <1>11 DEF TypeOK, WQInv, endvars, PInv, Opened
<1>13. PIPE_SIZE' = PIPE_SIZE /\ PIPE_SIZE \in Int
  BY <1>1, SizeIsOff DEF PIPE_SIZE, TypeOK
<1>14. Balance'
  <2>1. PICK x \in Ends : x = end[t]
    BY <1>2
  <2>2. Recount(chunk, end, chunk', end', t, S, x)
    BY <1>1, <1>2, <1>4, <1>6, <2>1 DEF Recount
  <2>3. ASSUME NEW e \in Ends
        PROVE  /\ OwedIn(chunk, end, e) \in Nat
               /\ OwedIn(chunk', end', e) = OwedIn(chunk, end, e) - (IF end[t] = e THEN Cardinality(chunk[t]) ELSE 0)
                              + (IF x = e THEN Cardinality(S) ELSE 0)
    BY <2>2, OwedStep
  <2>4. ASSUME NEW e \in Ends
        PROVE  /\ OwedIn(chunk, end, e) \in Nat
               /\ OwedIn(chunk', end', e) = OwedIn(chunk, end, e) - (IF end[t] = e THEN 1 ELSE 0)
    BY <1>5, <2>1, <2>3
  <2>5. sent + OwedIn(chunk, end, "write") = Len(delivered) + OwedIn(chunk, end, "read") + PIPE_SIZE
    BY DEF PInv, Balance, Owed
  <2>6. sent' + OwedIn(chunk', end', "write") = Len(delivered') + OwedIn(chunk', end', "read") + PIPE_SIZE'
    <3>1. "read" \in Ends /\ "write" \in Ends
      BY DEF Ends
    <3>2. /\ OwedIn(chunk, end, "read") \in Nat /\ OwedIn(chunk, end, "write") \in Nat
          /\ OwedIn(chunk', end', "read") = OwedIn(chunk, end, "read") - (IF end[t] = "read" THEN 1 ELSE 0)
          /\ OwedIn(chunk', end', "write") = OwedIn(chunk, end, "write") - (IF end[t] = "write" THEN 1 ELSE 0)
      BY <2>4, <3>1
    <3>3. CASE end[t] = "read"
      BY <1>2, <1>11, <1>13, <2>5, <3>2, <3>3
    <3>4. CASE end[t] = "write"
      BY <1>2, <1>11, <1>13, <2>5, <3>2, <3>4
    <3> QED
      BY <1>2, <3>3, <3>4 DEF Ends
  <2> QED
    BY <2>6 DEF Balance, Owed
<1>15. Ordered'
  BY <1>1 DEF Ordered
<1> QED
  BY <1>9, <1>10, <1>12, <1>14, <1>15 DEF PInv

(* Every step of a task keeps the invariant.                                 *)
LEMMA PipeStep == PInv /\ [Next]_vars => PInv'
<1> SUFFICES ASSUME PInv, [Next]_vars PROVE PInv'
  OBVIOUS
<1>1. WQInv'
  BY PipeQueue, WQStep DEF PInv
<1>2. ASSUME NEW t \in Tasks, InCall(t) PROVE PInv'
  <2>1. CASE ReadChunk(t)
    BY <1>1, <2>1, ReadChunkKeeps
  <2>2. CASE WriteChunk(t)
    BY <1>1, <2>2, WriteChunkKeeps
  <2>3. CASE CopyByte(t)
    BY <1>1, <2>3, CopyByteKeeps
  <2>4. CASE Stuck(t) \/ GiveUp(t) \/ Block(t) \/ Wake(t) \/ Return(t)
    <3>1. PICK e \in Ends : TRUE
      BY DEF Ends
    <3>2. PICK n \in Nat : TRUE
      OBVIOUS
    <3> QED
      BY <1>1, <2>4, CallSteps
  <2> QED
    BY <1>2, <2>1, <2>2, <2>3, <2>4 DEF InCall
<1>3. ASSUME NEW t \in Tasks, NEW e \in Ends, NEW n \in 1..MaxCount, Call(t, e, n) PROVE PInv'
  <2>1. n \in Nat
    OBVIOUS
  <2> QED
    BY <1>1, <1>3, <2>1, CallSteps
<1>4. ASSUME NEW t \in Tasks, NEW e \in Ends, Close(t, e) PROVE PInv'
  <2>1. PICK n \in Nat : TRUE
    OBVIOUS
  <2> QED
    BY <1>1, <1>4, CallSteps
<1>5. CASE UNCHANGED vars
  <2>1. Balance'
    BY <1>5 DEF vars, PInv, Balance, Owed, OwedIn, Marks, PIPE_SIZE
  <2>2. TypeOK' /\ Points' /\ Opened' /\ Woken' /\ Ordered'
    BY <1>5 DEF vars, PInv, TypeOK, WQTypeOK, Points, Opened, Woken, CouldGo, Runnable, Room, PIPE_SIZE,
       Ordered, Stream, Off
  <2> QED
    BY <1>1, <2>1, <2>2 DEF PInv
<1> QED
  BY <1>2, <1>3, <1>4, <1>5 DEF Next

(* The invariant of the pipe holds whatever the tasks do.                    *)
THEOREM PipeInv == PipeSpec => []PInv
  BY PipeInit, PipeStep, PTL DEF PipeSpec

(* However many tasks share the two ends, however large the page and however  *)
(* many copies are interrupted, no wake-up of the pipe's one queue is lost    *)
(* (the wake_up calls of read_pipe, write_pipe and iput).                     *)
THEOREM PipeNoLostWakeup == PipeSpec => []NoLostWakeup
<1>1. PInv => NoLostWakeup
  BY DEF PInv, Woken, NoLostWakeup
<1> QED
  BY <1>1, PipeInv, PTL

(* For every size of the page: the bytes come out in the order in which they  *)
(* went in as long as no copy is interrupted, and with no copy under way none *)
(* is lost and none is there twice (read_pipe, write_pipe).                  *)
THEOREM PipeBytesAccounted == PipeSpec => []BytesAccounted
<1>1. PInv => BytesAccounted
  <2>1. PInv => InOrder
    BY DEF PInv, Ordered, InOrder
  <2>2. PInv => Counted
    BY Settled DEF Counted
  <2> QED
    BY <2>1, <2>2 DEF BytesAccounted
<1> QED
  BY <1>1, PipeInv, PTL

(* The indices stay in the page, the counts are natural, i_count is 0, 1 or 2. *)
THEOREM PipeTypeOK == PipeSpec => []TypeOK
<1>1. PInv => TypeOK
  BY DEF PInv
<1> QED
  BY <1>1, PipeInv, PTL
=============================================================================
