-------------------------------- MODULE Pipe --------------------------------
(***************************************************************************)
(* A pipe (fs/pipe.c): one page used as a ring, two indices kept in         *)
(* i_zone[0] and i_zone[1], and ONE wait queue, i_wait, for readers and      *)
(* writers alike.  The tasks share the two ends as fork() leaves them, both *)
(* ends open in each.                                                       *)
(*                                                                         *)
(* A task in the kernel runs alone until it sleeps or returns: `cur' is     *)
(* that task.  There are two ways to sleep: sleep_on(&inode->i_wait), and a *)
(* page fault of put_fs_byte/get_fs_byte on a page of the user's buffer     *)
(* that do_no_page has to read from disk; MaxFaults bounds how often.        *)
(*                                                                         *)
(* Bytes are numbered in the order in which write_pipe takes them from its  *)
(* callers: the n-th one has the value n.                                   *)
(***************************************************************************)
EXTENDS WaitQueue, Integers, Sequences, FiniteSets

CONSTANTS PAGE_SIZE,  \* bytes of the ring
          MaxCount,   \* bound on the count of one read() or write()
          MaxBytes,   \* bound on the bytes written in all
          MaxFaults   \* bound on the page faults on user buffers

ASSUME PipeAssumption == /\ IsFiniteSet(Tasks)
                         /\ PAGE_SIZE \in Nat /\ PAGE_SIZE > 1
                         /\ MaxCount \in Nat
                         /\ MaxBytes \in Nat
                         /\ MaxFaults \in Nat

Ends == {"read", "write"}

VARIABLES ring,     \* the page: inode->i_size
          pipeHead, \* PIPE_HEAD, where the next byte is written
          pipeTail, \* PIPE_TAIL, where the next byte is read
          i_count,  \* 2 while both ends are open
          holds,    \* the <<task, end>> pairs that are open
          cur,      \* the task running in the kernel, or NULL
          pc,       \* where a task is: "user", "loop", "check", "sleep" or "copy"
          end,      \* the call it is in: read_pipe or write_pipe
          count,    \* the bytes its call still has to move
          chunk,    \* "copy": the indices of the bytes still to copy
          sigpipe,  \* the tasks with SIGPIPE in their signal bitmap
          sent,     \* number of bytes taken from the writers' buffers
          delivered,\* the bytes put into the readers' buffers
          faults    \* the copies that a page fault has interrupted

callvars == <<pc, end, count, chunk>>
ringvars == <<ring, pipeHead, pipeTail, sent, delivered, faults>>
endvars == <<i_count, holds, sigpipe>>
vars == <<head, state, tmp, inside, ring, pipeHead, pipeTail, sent, delivered, faults,
          i_count, holds, sigpipe, cur, pc, end, count, chunk>>

Index == 0..(PAGE_SIZE - 1)

TypeOK ==
  /\ WQTypeOK
  /\ ring \in [Index -> Nat]
  /\ pipeHead \in Index /\ pipeTail \in Index
  /\ i_count \in 0..2
  /\ holds \subseteq Tasks \X Ends
  /\ cur \in Tasks \cup {NULL}
  /\ pc \in [Tasks -> {"user", "loop", "check", "sleep", "copy"}]
  /\ end \in [Tasks -> Ends]
  /\ count \in [Tasks -> Nat]
  /\ chunk \in [Tasks -> SUBSET Index]
  /\ sigpipe \subseteq Tasks
  /\ sent \in Nat
  /\ delivered \in Seq(Nat)
  /\ faults \in 0..MaxFaults

(* get_pipe_inode, then fork() in the task that called pipe().              *)
Init ==
  /\ WQInit
  /\ ring = [i \in Index |-> 0]
  /\ pipeHead = 0 /\ pipeTail = 0
  /\ i_count = 2
  /\ holds = Tasks \X Ends
  /\ cur = NULL
  /\ pc = [t \in Tasks |-> "user"]
  /\ end = [t \in Tasks |-> "read"]
  /\ count = [t \in Tasks |-> 0]
  /\ chunk = [t \in Tasks |-> {}]
  /\ sigpipe = {}
  /\ sent = 0
  /\ delivered = <<>>
  /\ faults = 0

-----------------------------------------------------------------------------
PIPE_SIZE == (pipeHead - pipeTail) % PAGE_SIZE

Least(a, b) == IF a <= b THEN a ELSE b

(* What the call may move: bytes to read, or room to write.  One byte of    *)
(* the page is never used.                                                  *)
Room_All(e) ==  \* defect: the last byte of the page is used too
  IF e = "read" THEN PIPE_SIZE ELSE PAGE_SIZE - PIPE_SIZE

Room(e) == IF e = "read" THEN PIPE_SIZE ELSE (PAGE_SIZE - 1) - PIPE_SIZE

(* ... in one piece: up to the end of the page.                             *)
Chars(t) == LET at == IF end[t] = "read" THEN pipeTail ELSE pipeHead
            IN  Least(PAGE_SIZE - at, Least(count[t], Room(end[t])))

(* sys_read or sys_write of n bytes on an end of the pipe.                  *)
Call(t, e, n) ==
  /\ cur = NULL
  /\ pc[t] = "user"
  /\ <<t, e>> \in holds
  /\ e = "write" => sent + n <= MaxBytes
  /\ cur' = t
  /\ pc' = [pc EXCEPT ![t] = "loop"]
  /\ end' = [end EXCEPT ![t] = e]
  /\ count' = [count EXCEPT ![t] = n]
  /\ UNCHANGED <<wqvars, ringvars, endvars, chunk>>

(* One turn of the outer loop of read_pipe: the tail is moved first, then   *)
(* the bytes are copied.  A fault leaves the copy after the first k bytes.  *)
ReadChunk(t) ==
  /\ cur = t /\ pc[t] = "loop" /\ end[t] = "read"
  /\ count[t] > 0 /\ PIPE_SIZE > 0
  /\ \E k \in {Chars(t)} \cup (IF faults < MaxFaults THEN 0..(Chars(t) - 1) ELSE {}) :
        /\ delivered' = delivered \o [i \in 1..k |-> ring[pipeTail + i - 1]]
        /\ chunk' = [chunk EXCEPT ![t] = (pipeTail + k)..(pipeTail + Chars(t) - 1)]
        /\ pc' = [pc EXCEPT ![t] = IF k = Chars(t) THEN "loop" ELSE "copy"]
        /\ cur' = IF k = Chars(t) THEN t ELSE NULL
        /\ faults' = IF k < Chars(t) THEN faults + 1 ELSE faults
  /\ count' = [count EXCEPT ![t] = count[t] - Chars(t)]
  /\ pipeTail' = (pipeTail + Chars(t)) % PAGE_SIZE
  /\ UNCHANGED <<wqvars, endvars, end, ring, pipeHead, sent>>

(* One turn of the outer loop of write_pipe, likewise.                      *)
WriteChunk(t) ==
  /\ cur = t /\ pc[t] = "loop" /\ end[t] = "write"
  /\ count[t] > 0 /\ Room("write") > 0
  /\ \E k \in {Chars(t)} \cup (IF faults < MaxFaults THEN 0..(Chars(t) - 1) ELSE {}) :
        /\ ring' = [i \in Index |-> IF i \in pipeHead..(pipeHead + k - 1)
                                    THEN sent + (i - pipeHead) + 1 ELSE ring[i]]
        /\ sent' = sent + k
        /\ chunk' = [chunk EXCEPT ![t] = (pipeHead + k)..(pipeHead + Chars(t) - 1)]
        /\ pc' = [pc EXCEPT ![t] = IF k = Chars(t) THEN "loop" ELSE "copy"]
        /\ cur' = IF k = Chars(t) THEN t ELSE NULL
        /\ faults' = IF k < Chars(t) THEN faults + 1 ELSE faults
  /\ count' = [count EXCEPT ![t] = count[t] - Chars(t)]
  /\ pipeHead' = (pipeHead + Chars(t)) % PAGE_SIZE
  /\ UNCHANGED <<wqvars, endvars, end, pipeTail, delivered>>

(* The page fault is over: the next byte of the chunk is copied.            *)
CopyByte(t) ==
  /\ pc[t] = "copy"
  /\ cur \in {NULL, t}
  /\ \E i \in chunk[t] :
        /\ \A j \in chunk[t] : i <= j
        /\ chunk' = [chunk EXCEPT ![t] = chunk[t] \ {i}]
        /\ IF end[t] = "read"
             THEN delivered' = Append(delivered, ring[i]) /\ UNCHANGED <<ring, sent>>
             ELSE /\ ring' = [ring EXCEPT ![i] = sent + 1]
                  /\ sent' = sent + 1
                  /\ UNCHANGED delivered
        /\ pc' = [pc EXCEPT ![t] = IF chunk[t] = {i} THEN "loop" ELSE "copy"]
  /\ cur' = t
  /\ UNCHANGED <<wqvars, endvars, end, count, pipeHead, pipeTail, faults>>

(* Nothing to move: wake_up(&inode->i_wait), ...                            *)
Stuck_Silent(t) ==  \* defect: no wake_up
  /\ cur = t /\ pc[t] = "loop" /\ count[t] > 0 /\ Room(end[t]) = 0
  /\ pc' = [pc EXCEPT ![t] = "check"]
  /\ UNCHANGED <<wqvars, ringvars, endvars, cur, end, count, chunk>>

Stuck(t) ==
  /\ cur = t /\ pc[t] = "loop" /\ count[t] > 0 /\ Room(end[t]) = 0
  /\ WakeUp
  /\ pc' = [pc EXCEPT ![t] = "check"]
  /\ UNCHANGED <<ringvars, endvars, cur, end, count, chunk>>

(* ... then return if the other end is closed, a writer with SIGPIPE, ...   *)
GiveUp(t) ==
  /\ cur = t /\ pc[t] = "check" /\ i_count # 2
  /\ sigpipe' = IF end[t] = "write" THEN sigpipe \cup {t} ELSE sigpipe
  /\ pc' = [pc EXCEPT ![t] = "user"]
  /\ count' = [count EXCEPT ![t] = 0]
  /\ cur' = NULL
  /\ UNCHANGED <<wqvars, ringvars, i_count, holds, end, chunk>>

(* ... or sleep_on(&inode->i_wait) ...                                      *)
Block(t) ==
  /\ cur = t /\ pc[t] = "check" /\ i_count = 2
  /\ SleepOn(t)
  /\ pc' = [pc EXCEPT ![t] = "sleep"]
  /\ cur' = NULL
  /\ UNCHANGED <<ringvars, endvars, end, count, chunk>>

(* ... and go round the inner loop when it returns.                         *)
Wake(t) ==
  /\ cur = NULL /\ pc[t] = "sleep"
  /\ Resume(t)
  /\ pc' = [pc EXCEPT ![t] = "loop"]
  /\ cur' = t
  /\ UNCHANGED <<ringvars, endvars, end, count, chunk>>

(* All of count is moved: wake_up and return.                               *)
Return(t) ==
  /\ cur = t /\ pc[t] = "loop" /\ count[t] = 0
  /\ WakeUp
  /\ pc' = [pc EXCEPT ![t] = "user"]
  /\ cur' = NULL
  /\ UNCHANGED <<ringvars, endvars, end, count, chunk>>

(* sys_close of an end (also by exit).  The last close of an end is an      *)
(* iput: wake_up, and i_count goes down.                                    *)
Close_Silent(t, e) ==  \* defect: no wake_up
  /\ cur = NULL /\ pc[t] = "user" /\ <<t, e>> \in holds
  /\ holds' = holds \ {<<t, e>>}
  /\ i_count' = IF \E u \in Tasks : <<u, e>> \in holds' THEN i_count ELSE i_count - 1
  /\ UNCHANGED <<wqvars, ringvars, callvars, cur, sigpipe>>

Close(t, e) ==
  /\ cur = NULL /\ pc[t] = "user" /\ <<t, e>> \in holds
  /\ holds' = holds \ {<<t, e>>}
  /\ IF \E u \in Tasks : <<u, e>> \in holds'
       THEN UNCHANGED <<i_count, wqvars>>
       ELSE i_count' = i_count - 1 /\ WakeUp
  /\ UNCHANGED <<ringvars, callvars, cur, sigpipe>>

(* The steps of a task that is in read_pipe or write_pipe.                  *)
InCall(t) == \/ ReadChunk(t) \/ WriteChunk(t) \/ CopyByte(t)
             \/ Stuck(t) \/ GiveUp(t) \/ Block(t) \/ Wake(t) \/ Return(t)

Next == \E t \in Tasks :
          \/ InCall(t)
          \/ \E e \in Ends : Close(t, e) \/ \E n \in 1..MaxCount : Call(t, e, n)

(* A task in the kernel goes on.  A runnable sleeper, and a task whose page *)
(* fault is over, are scheduled in the end: they stay runnable, and the     *)
(* processor comes free (cur = NULL) again and again (Sched).               *)
Fairness == \A t \in Tasks :
              WF_vars(InCall(t)) /\ SF_vars(Wake(t)) /\ SF_vars(CopyByte(t))

PipeSpec == Init /\ [][Next]_vars /\ Fairness

-----------------------------------------------------------------------------
(* A pipe is a stream: the bytes come out in the order in which they went   *)
(* in, none lost, none twice, and "a read takes only bytes not read yet and  *)
(* already written" (pipe.c:35), across the wrap at the end of the page and  *)
(* however reads and writes overlap (read_pipe, write_pipe).                *)
Stream == \A i \in 1..Len(delivered) : delivered[i] = i

(* The pipe is that stream as long as no page fault has interrupted a copy.  *)
InOrder == faults = 0 => Stream

(* Nothing is lost inside either: with no copy under way the ring holds     *)
(* exactly the bytes written and not yet read.                              *)
Counted == (\A t \in Tasks : pc[t] # "copy") => sent = Len(delivered) + PIPE_SIZE

(* Every byte written is read once and in its turn, or still in the ring.    *)
BytesAccounted == InOrder /\ Counted

(* t sleeps although it could go on.                                        *)
CouldGo(t) == pc[t] = "sleep" /\ (Room(end[t]) > 0 \/ i_count # 2)

(* No wake-up is lost: with no call under way in the kernel, a reader that  *)
(* sleeps has nothing to read and a writer no room, and the other end is    *)
(* open, unless one of the sleepers is runnable and will pass the wake-up   *)
(* on (the wake_up calls of read_pipe, write_pipe and iput).                *)
NoLostWakeup == cur = NULL /\ (\A t \in Tasks : pc[t] # "copy") =>
                  \/ \E t \in inside : Runnable(t)
                  \/ \A t \in Tasks : ~CouldGo(t)

(* Every call ends once the other end is closed.                            *)
EndsAfterClose == \A t \in Tasks : (i_count = 1) ~> (pc[t] = "user" \/ i_count # 1)
=============================================================================
