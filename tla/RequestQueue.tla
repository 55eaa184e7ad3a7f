---------------------------- MODULE RequestQueue ----------------------------
(***************************************************************************)
(* The block layer of kernel/blk_drv/ll_rw_blk.c and blk.h: tasks call      *)
(* ll_rw_block for a buffer; the buffer is locked, a free entry of the      *)
(* request table is filled and put into the queue of its device by the      *)
(* elevator; the driver ends the request at the front, CURRENT, in an       *)
(* interrupt, which unlocks the buffer.                                     *)
(*                                                                         *)
(* A buffer stands for the block it holds (BufferCache: one buffer per      *)
(* block), and a block number for <device, sector>, in the order IN_ORDER   *)
(* compares them.  `cur' is the task that runs in the kernel; only          *)
(* interrupts come between its steps.  The waits on b_lock are kept as the  *)
(* guard they implement and a wake_up as waking everyone, which SleepLock   *)
(* and WaitQueue show they do.                                              *)
(***************************************************************************)
EXTENDS Integers, Sequences, SequencesExt, FiniteSets, FiniteSetsExt

CONSTANTS Tasks, NULL,
          Blocks,      \* the blocks that have a buffer: a set of numbers
          NR_REQUEST   \* entries of the request table

ASSUME RequestAssumption == /\ NULL \notin Tasks
                            /\ Blocks \subseteq Nat
                            /\ NR_REQUEST \in Nat /\ NR_REQUEST > 2

READ == 0
WRITE == 1
READA == 2
WRITEA == 3

FREE == [cmd |-> -1, block |-> -1]   \* an entry with dev = -1

VARIABLES request,     \* the request table
          queue,       \* the entries on the device's list, CURRENT first
          b_lock, b_uptodate, b_dirt,
          cur,         \* the task running in the kernel, or NULL
          call         \* per task: where it is in ll_rw_block (at), the arguments
                       \* rw and bh of the call, the entry req it has filled, and
                       \* (history) the wake-ups it missed on its way into sleep_on

bufvars == <<b_lock, b_uptodate, b_dirt>>
rqvars == <<request, queue, b_lock, b_uptodate, b_dirt, cur, call>>

Idle == [at |-> "user", rw |-> READ, bh |-> -1, req |-> -1, missed |-> 0]

Slots == 0..(NR_REQUEST - 1)

TypeOK ==
  /\ request \in [Slots -> {FREE} \cup [cmd : {READ, WRITE}, block : Blocks]]
  /\ queue \in Seq(Slots)
  /\ b_lock \in [Blocks -> BOOLEAN]
  /\ b_uptodate \in [Blocks -> BOOLEAN]
  /\ b_dirt \in [Blocks -> BOOLEAN]
  /\ cur \in Tasks \cup {NULL}
  /\ call \in [Tasks -> {Idle} \cup [at : {"lock", "scan", "full", "asleep", "add"},
                                     rw : {READ, WRITE, READA, WRITEA},
                                     bh : Blocks, req : Slots \cup {-1}, missed : Nat]]

(* blk_dev_init, and buffers that hold nothing yet.                         *)
Init ==
  /\ request = [i \in Slots |-> FREE]
  /\ queue = <<>>
  /\ b_lock = [b \in Blocks |-> FALSE]
  /\ b_uptodate = [b \in Blocks |-> FALSE]
  /\ b_dirt = [b \in Blocks |-> FALSE]
  /\ cur = NULL
  /\ call = [t \in Tasks |-> Idle]

Cmd(t) == IF call[t].rw \in {READ, READA} THEN READ ELSE WRITE
Ahead(t) == call[t].rw \in {READA, WRITEA}

Goes(t, to) == [call EXCEPT ![t].at = to]
Returned(t) == [call EXCEPT ![t] = Idle]

-----------------------------------------------------------------------------
(* A holder of the buffer marks it as changed, whether or not it is being   *)
(* written (file_write, write_inode...), or has filled a buffer of which it *)
(* needs no old contents (new_block).  When the data itself changes is      *)
(* HdDriver's matter.                                                       *)
MarkDirty(b) ==
  /\ cur = NULL
  /\ b_uptodate[b] \/ ~b_lock[b]
  /\ b_uptodate' = [b_uptodate EXCEPT ![b] = TRUE]
  /\ b_dirt' = [b_dirt EXCEPT ![b] = TRUE]
  /\ UNCHANGED <<request, queue, b_lock, cur, call>>

(* ll_rw_block(op, b).  A read-ahead or write-ahead of a locked buffer is   *)
(* dropped; anything else goes into lock_buffer.                            *)
Call(t, op, b) ==
  /\ cur = NULL /\ call[t].at = "user"
  /\ ~(op \in {READA, WRITEA} /\ b_lock[b])
  /\ cur' = IF b_lock[b] THEN NULL ELSE t
  /\ call' = [call EXCEPT ![t] = [at |-> "lock", rw |-> op, bh |-> b, req |-> -1,
                                    missed |-> 0]]
  /\ UNCHANGED <<request, queue, bufvars>>

(* The end of lock_buffer; nothing to do for a clean buffer to write or an  *)
(* up-to-date one to read.                                                  *)
Lock(t) ==
  LET b == call[t].bh
      idle == IF Cmd(t) = WRITE THEN ~b_dirt[b] ELSE b_uptodate[b]
  IN  /\ call[t].at = "lock" /\ cur \in {NULL, t}
      /\ ~b_lock[b]
      /\ b_lock' = [b_lock EXCEPT ![b] = ~idle]
      /\ cur' = IF idle THEN NULL ELSE t
      /\ call' = IF idle THEN Returned(t) ELSE Goes(t, "scan")
      /\ UNCHANGED <<request, queue, b_uptodate, b_dirt>>

(* The entries a command may use: writes leave the last third to reads.     *)
Usable_None(cmd) ==  \* defect: the part left to writes is rounded to none
  IF cmd = READ THEN Slots ELSE {}

Usable(cmd) == IF cmd = READ THEN Slots ELSE 0..((NR_REQUEST * 2) \div 3 - 1)

Empties(t) == {i \in Usable(Cmd(t)) : request[i] = FREE}

(* repeat: find an empty request, from the top of the table, and fill it.   *)
Fill(t) ==
  /\ call[t].at = "scan" /\ cur = t
  /\ Empties(t) # {}
  /\ request' = [request EXCEPT ![Max(Empties(t))] = [cmd |-> Cmd(t), block |-> call[t].bh]]
  /\ call' = [call EXCEPT ![t].at = "add", ![t].req = Max(Empties(t))]
  /\ UNCHANGED <<queue, bufvars, cur>>

(* None found: a read- or write-ahead is given up, ...                      *)
Forget(t) ==
  /\ call[t].at = "scan" /\ cur = t
  /\ Empties(t) = {} /\ Ahead(t)
  /\ b_lock' = [b_lock EXCEPT ![call[t].bh] = FALSE]
  /\ call' = Returned(t)
  /\ cur' = NULL
  /\ UNCHANGED <<request, queue, b_uptodate, b_dirt>>

(* ... any other call decides to sleep.  Interrupts are on: they may end    *)
(* requests now, before the task is on the queue wait_for_request.          *)
Full(t) ==
  /\ call[t].at = "scan" /\ cur = t
  /\ Empties(t) = {} /\ ~Ahead(t)
  /\ call' = Goes(t, "full")
  /\ UNCHANGED <<request, queue, bufvars, cur>>

(* sleep_on(&wait_for_request).                                             *)
Sleep(t) ==
  /\ call[t].at = "full" /\ cur = t
  /\ call' = Goes(t, "asleep")
  /\ cur' = NULL
  /\ UNCHANGED <<request, queue, bufvars>>

(* The task was woken (it is in "scan") and is scheduled again.             *)
Rescan(t) ==
  /\ call[t].at = "scan" /\ cur = NULL
  /\ cur' = t
  /\ UNCHANGED <<request, queue, bufvars, call>>

(* IN_ORDER of blk.h.                                                       *)
IN_ORDER(i, j) == LET a == request[i]
                      b == request[j]
                  IN  a.cmd < b.cmd \/ (a.cmd = b.cmd /\ a.block < b.block)

(* The loop of add_request: the entry after which r goes.                   *)
Place_First(r) == 0  \* defect: in front of CURRENT

Place_Last(r) == Len(queue)  \* defect: no elevator at all

Place_NoSweep(r) ==  \* defect: before the first request it is in order with
  LET fits == {p \in 1..(Len(queue) - 1) : IN_ORDER(r, queue[p + 1])}
  IN  IF fits = {} THEN Len(queue) ELSE Min(fits)

Place(r) ==
  LET fits == {p \in 1..(Len(queue) - 1) :
                 /\ \/ IN_ORDER(queue[p], r)
                    \/ ~IN_ORDER(queue[p], queue[p + 1])
                 /\ IN_ORDER(r, queue[p + 1])}
  IN  IF fits = {} THEN Len(queue) ELSE Min(fits)

(* add_request, with interrupts off.  For an empty queue it goes on to call *)
(* the driver's request function.                                           *)
AddRequest(t) ==
  /\ call[t].at = "add" /\ cur = t
  /\ b_dirt' = [b_dirt EXCEPT ![call[t].bh] = FALSE]
  /\ queue' = InsertAt(queue, Place(call[t].req) + 1, call[t].req)
  /\ call' = Returned(t)
  /\ cur' = NULL
  /\ UNCHANGED <<request, b_lock, b_uptodate>>

(* end_request(uptodate): the buffer is unlocked, the tasks that sleep on   *)
(* wait_for_request are woken, the entry is freed and the next one becomes  *)
(* CURRENT.  A task that has scanned the table and is not asleep yet misses *)
(* the wake-up; one interrupt may end several requests (do_hd_request goes  *)
(* on with the next one when a request is out of range), so it may miss any *)
(* number of them.                                                          *)
CURRENT == queue[1]

EndRequest_Cleans(uptodate) ==  \* defect: the buffer is clean once it is written
  /\ queue # <<>>
  /\ b_uptodate' = [b_uptodate EXCEPT ![request[CURRENT].block] = uptodate]
  /\ b_lock' = [b_lock EXCEPT ![request[CURRENT].block] = FALSE]
  /\ b_dirt' = [b_dirt EXCEPT ![request[CURRENT].block] = FALSE]
  /\ request' = [request EXCEPT ![CURRENT] = FREE]
  /\ queue' = Tail(queue)
  /\ UNCHANGED <<cur, call>>

EndRequest(uptodate) ==
  /\ queue # <<>>
  /\ b_uptodate' = [b_uptodate EXCEPT ![request[CURRENT].block] = uptodate]
  /\ b_lock' = [b_lock EXCEPT ![request[CURRENT].block] = FALSE]
  /\ call' = [t \in Tasks |->
                CASE call[t].at = "asleep" -> [call[t] EXCEPT !.at = "scan", !.missed = 0]
                  [] call[t].at = "full"   -> [call[t] EXCEPT !.missed = @ + 1]
                  [] OTHER                 -> call[t]]
  /\ request' = [request EXCEPT ![CURRENT] = FREE]
  /\ queue' = Tail(queue)
  /\ UNCHANGED <<b_dirt, cur>>

TaskStep(t) == \/ Lock(t) \/ Fill(t) \/ Forget(t) \/ Full(t) \/ Sleep(t)
               \/ Rescan(t) \/ AddRequest(t)

Next == \/ \E b \in Blocks : MarkDirty(b)
        \/ \E t \in Tasks : \/ TaskStep(t)
                            \/ \E op \in {READ, WRITE, READA, WRITEA}, b \in Blocks : Call(t, op, b)
        \/ \E uptodate \in BOOLEAN : EndRequest(uptodate)

(* The device ends what it is asked to do; a task that has the processor    *)
(* goes on.                                                                 *)
Fairness == /\ WF_rqvars(\E uptodate \in BOOLEAN : EndRequest(uptodate))
            /\ WF_rqvars(\E t \in Tasks : cur = t /\ TaskStep(t))

Spec == Init /\ [][Next]_rqvars /\ Fairness

-----------------------------------------------------------------------------
(* The requests on the queue for block b, and the tasks that hold its lock  *)
(* but have not queued their request yet.                                   *)
Requests(b) == {p \in DOMAIN queue : request[queue[p]].block = b}
Holders(b) == {t \in Tasks : call[t].bh = b /\ call[t].at \in {"scan", "full", "asleep", "add"}}

(* A locked buffer has exactly one task or request that will unlock it, an  *)
(* unlocked one has none: otherwise lock_buffer waits for ever, or          *)
(* INIT_REQUEST panics with "block not locked".                             *)
LockAccounted == \A b \in Blocks :
  Cardinality(Requests(b)) + Cardinality(Holders(b)) = (IF b_lock[b] THEN 1 ELSE 0)

(* The table leaks no entry and lists none twice: an entry is in use when   *)
(* it is on the queue, once, or being filled by a task.                     *)
TableAccounted ==
  /\ IsInjective(queue)
  /\ \A i \in Slots : request[i] # FREE <=>
        (Contains(queue, i) # \E t \in Tasks : call[t].at = "add" /\ call[t].req = i)

(* A task that sleeps on wait_for_request has a request on the queue, the   *)
(* end of which will wake it, unless all the requests that filled the table *)
(* (two thirds of it at least) ended between its scan and its sleep_on: the *)
(* unprotected test in make_request loses the last wake-up only then.  Such *)
(* a task sleeps on until another task's request has come and gone.         *)
WaitHasWaker == \A t \in Tasks : call[t].at = "asleep" =>
  queue # <<>> \/ call[t].missed >= (NR_REQUEST * 2) \div 3

(* The elevator makes one sweep: along the queue the requests are in order  *)
(* with at most one turn back (add_request).                                *)
OneSweep == Cardinality({p \in 1..(Len(queue) - 1) : ~IN_ORDER(queue[p], queue[p + 1])}) <= 1

(* Each buffer, each entry of the table and each task that waits for one has *)
(* exactly one way on: no lock and no entry is lost on any path, and the     *)
(* wake-up is lost only in the window WaitHasWaker names.                    *)
QueueAccounted == LockAccounted /\ TableAccounted /\ WaitHasWaker

(* Every request on the queue is served, reads and writes: later requests   *)
(* overtake it only until the sweep comes by (add_request).                 *)
RequestsServed == \A b \in Blocks : (Requests(b) # {}) ~> (Requests(b) = {})
=============================================================================
