---------------------------- MODULE BufferCache ----------------------------
(***************************************************************************)
(* The buffer cache, fs/buffer.c: getblk, get_hash_table, bread, breada,    *)
(* brelse, sync_dev and sys_sync, run by several tasks that sleep in the    *)
(* middle of them, and the interrupts that end the transfers.               *)
(*                                                                         *)
(* A block stands for <device, block number> of one device.  The hash       *)
(* queues are the relation they index, `b_block', and the free list the     *)
(* sequence it is.  `cur' is the task that runs in the kernel; a task waits *)
(* for a locked buffer by giving it up (SleepLock: such a wait ends only    *)
(* with the buffer unlocked).  ll_rw_block is what RequestQueue shows it to *)
(* be: lock the buffer, wait for a free request or not, then queue it.      *)
(***************************************************************************)
EXTENDS Integers, Sequences, SequencesExt, FiniteSets, FiniteSetsExt

CONSTANTS Tasks, NULL,
          Blocks,       \* the blocks of the device
          NoBlock,      \* b_dev = 0: the buffer holds no block
          NR_BUFFERS,
          Kinds,        \* the operations used: of "getblk", "bread", "breada", "sync", "modify"
          AheadTasks,   \* the tasks that call breada
          TableFull     \* TRUE if the request table may be found full

ASSUME CacheAssumption == /\ NULL \notin Tasks
                          /\ IsFiniteSet(Tasks) /\ AheadTasks \subseteq Tasks
                          /\ TableFull \in BOOLEAN
                          /\ NoBlock \notin Blocks
                          /\ NR_BUFFERS \in Nat \ {0}

Buffers == 1..NR_BUFFERS

VARIABLES b_block, b_count, b_lock, b_uptodate, b_dirt,
          b_io,       \* the request queued for the buffer: "none", "read" or "write"
          free_list,  \* the buffers, from free_list on along b_next_free
          cur,        \* the task running in the kernel, or NULL
          call        \* per task: the operation it is in and its local variables

heads == <<b_block, b_count, b_lock, b_uptodate, b_dirt, b_io, free_list>>
vars == <<b_block, b_count, b_lock, b_uptodate, b_dirt, b_io, free_list, cur, call>>

(* at:   the point the task is at;                                          *)
(* kind: the operation; want, next: the block asked for and the one to read *)
(* ahead; bh: the buffer got, or 0; h: the buffer getblk is about;          *)
(* i: the loop counter of sync_dev, which goes over the buffers twice.      *)
Idle == [at |-> "user", kind |-> "none", want |-> NoBlock, next |-> NoBlock,
         bh |-> 0, h |-> 0, i |-> 0]

Points == {"user", "get", "hash", "victim", "nobuf", "got", "ll", "queue", "wait",
           "release", "sync", "syncqueue"}

TypeOK ==
  /\ b_block \in [Buffers -> Blocks \cup {NoBlock}]
  /\ b_count \in [Buffers -> 0..(2 * Cardinality(Tasks))]
  /\ b_lock \in [Buffers -> BOOLEAN]
  /\ b_uptodate \in [Buffers -> BOOLEAN]
  /\ b_dirt \in [Buffers -> BOOLEAN]
  /\ b_io \in [Buffers -> {"none", "read", "write"}]
  /\ free_list \in Bijection(Buffers, Buffers)
  /\ cur \in Tasks \cup {NULL}
  /\ call \in [Tasks -> [at : Points, kind : {"none", "getblk", "bread", "breada", "sync"},
                         want : Blocks \cup {NoBlock}, next : Blocks \cup {NoBlock},
                         bh : Buffers \cup {0}, h : Buffers \cup {0}, i : 0..(2 * NR_BUFFERS + 1)]]

(* buffer_init.                                                             *)
Init ==
  /\ b_block = [h \in Buffers |-> NoBlock]
  /\ b_count = [h \in Buffers |-> 0]
  /\ b_lock = [h \in Buffers |-> FALSE]
  /\ b_uptodate = [h \in Buffers |-> FALSE]
  /\ b_dirt = [h \in Buffers |-> FALSE]
  /\ b_io = [h \in Buffers |-> "none"]
  /\ free_list = [i \in Buffers |-> i]
  /\ cur = NULL
  /\ call = [t \in Tasks |-> Idle]

-----------------------------------------------------------------------------
May(t) == cur \in {NULL, t}

(* t goes on at a wait_on_buffer(h): it gives up the processor if h is      *)
(* locked.                                                                  *)
WaitsFor(t, h) == cur' = IF b_lock[h] THEN NULL ELSE t

find_buffer(b) == {h \in Buffers : b_block[h] = b}

BADNESS(h) == (IF b_dirt[h] THEN 2 ELSE 0) + (IF b_lock[h] THEN 1 ELSE 0)

(* The buffer getblk's scan of the free list stops with.                    *)
Unused == {h \in Buffers : b_count[h] = 0}
Victim == LET best == {h \in Unused : \A g \in Unused : BADNESS(h) <= BADNESS(g)}
          IN  free_list[Min({p \in Buffers : free_list[p] \in best})]

(* The block the current getblk is for: breada's second one is read ahead.  *)
Target(t) == IF call[t].bh = 0 THEN call[t].want ELSE call[t].next

(* getblk, bread, breada(b, a) or sync.                                     *)
Begin(t, k, b, a) ==
  /\ cur = NULL /\ call[t] = Idle /\ k \in Kinds
  /\ k = "breada" <=> a # NoBlock
  /\ k = "breada" => t \in AheadTasks
  /\ a # b
  /\ call' = [call EXCEPT ![t] = [Idle EXCEPT !.at = "get", !.kind = k, !.want = b, !.next = a]]
  /\ cur' = t
  /\ UNCHANGED heads

(* getblk, repeat: get_hash_table, then the scan of the free list.          *)
GetHit(t) ==
  /\ call[t].at = "get" /\ May(t)
  /\ \E h \in find_buffer(Target(t)) :
        /\ call' = [call EXCEPT ![t].at = "hash", ![t].h = h]
        /\ b_count' = [b_count EXCEPT ![h] = @ + 1]
        /\ WaitsFor(t, h)
  /\ UNCHANGED <<b_block, b_lock, b_uptodate, b_dirt, b_io, free_list>>

GetMiss(t) ==
  /\ call[t].at = "get" /\ May(t)
  /\ find_buffer(Target(t)) = {}
  /\ IF Unused = {}
       THEN /\ call' = [call EXCEPT ![t].at = "nobuf"]     \* sleep_on(&buffer_wait)
            /\ cur' = NULL
       ELSE /\ call' = [call EXCEPT ![t].at = "victim", ![t].h = Victim]
            /\ WaitsFor(t, Victim)
  /\ UNCHANGED heads

(* get_hash_table after its wait_on_buffer.                                 *)
HashReady(t) ==
  LET h == call[t].h
  IN  /\ call[t].at = "hash" /\ May(t) /\ ~b_lock[h]
      /\ IF b_block[h] = Target(t)
           THEN call' = [call EXCEPT ![t].at = "got"] /\ UNCHANGED b_count
           ELSE /\ call' = [call EXCEPT ![t].at = "get"]
                /\ b_count' = [b_count EXCEPT ![h] = @ - 1]
      /\ cur' = t
      /\ UNCHANGED <<b_block, b_lock, b_uptodate, b_dirt, b_io, free_list>>

(* getblk after each of its waits for the buffer it wants to reuse: used by *)
(* somebody meanwhile, dirty, overtaken by another getblk of the block, or  *)
(* taken.                                                                   *)
Reuse_NoRecheck(h, b) == b_count[h] = 0 /\ ~b_dirt[h]     \* defect: not looked up again
Reuse_NoCount(h, b) == ~b_dirt[h] /\ find_buffer(b) = {}  \* defect: used meanwhile

Reuse(h, b) == b_count[h] = 0 /\ ~b_dirt[h] /\ find_buffer(b) = {}

(* remove_from_queues, insert_into_queues: h goes to the end of the list.    *)
Requeued(h) == [p \in Buffers |-> IF p = NR_BUFFERS THEN h
                                  ELSE IF \E q \in 1..p : free_list[q] = h THEN free_list[p + 1]
                                  ELSE free_list[p]]

VictimReady(t) ==
  LET h == call[t].h
  IN  /\ call[t].at = "victim" /\ May(t) /\ ~b_lock[h]
      /\ IF Reuse(h, Target(t))
           THEN /\ b_block' = [b_block EXCEPT ![h] = Target(t)]
                /\ b_count' = [b_count EXCEPT ![h] = 1]
                /\ b_dirt' = [b_dirt EXCEPT ![h] = FALSE]
                /\ b_uptodate' = [b_uptodate EXCEPT ![h] = FALSE]
                /\ free_list' = Requeued(h)
                /\ call' = [call EXCEPT ![t].at = "got"]
           ELSE /\ call' = IF b_count[h] = 0 /\ b_dirt[h]
                             THEN [call EXCEPT ![t].at = "sync", ![t].i = 1]
                             ELSE [call EXCEPT ![t].at = "get"]
                /\ UNCHANGED <<b_block, b_count, b_dirt, b_uptodate, free_list>>
      /\ cur' = t
      /\ UNCHANGED <<b_lock, b_io>>

-----------------------------------------------------------------------------
(* sync_dev: one buffer of the loop.  The buffer is written if it is dirty  *)
(* (ll_rw_block may sleep for a request with the buffer locked).            *)
SyncAt(t) == ((call[t].i - 1) % NR_BUFFERS) + 1

SyncBuffer(t) ==
  /\ call[t].at = "sync" /\ May(t) /\ call[t].i <= 2 * NR_BUFFERS
  /\ b_block[SyncAt(t)] # NoBlock => ~b_lock[SyncAt(t)]
  /\ IF b_block[SyncAt(t)] # NoBlock /\ b_dirt[SyncAt(t)]
       THEN /\ b_lock' = [b_lock EXCEPT ![SyncAt(t)] = TRUE]
            /\ call' = [call EXCEPT ![t].at = "syncqueue"]
            /\ cur' \in (IF TableFull THEN {t, NULL} ELSE {t})
       ELSE /\ call' = [call EXCEPT ![t].i = @ + 1]
            /\ cur' = t
            /\ UNCHANGED b_lock
  /\ UNCHANGED <<b_block, b_count, b_uptodate, b_dirt, b_io, free_list>>

SyncQueue(t) ==
  /\ call[t].at = "syncqueue" /\ May(t)
  /\ b_dirt' = [b_dirt EXCEPT ![SyncAt(t)] = FALSE]
  /\ b_io' = [b_io EXCEPT ![SyncAt(t)] = "write"]
  /\ call' = [call EXCEPT ![t].at = "sync", ![t].i = @ + 1]
  /\ cur' = t
  /\ UNCHANGED <<b_block, b_count, b_lock, b_uptodate, free_list>>

(* A locked buffer in the loop: wait_on_buffer.                             *)
SyncWait(t) ==
  /\ call[t].at = "sync" /\ cur = t /\ call[t].i <= 2 * NR_BUFFERS
  /\ b_block[SyncAt(t)] # NoBlock /\ b_lock[SyncAt(t)]
  /\ cur' = NULL
  /\ UNCHANGED <<heads, call>>

(* The loop is over: return to the caller, or into getblk, which waits for  *)
(* its buffer again.                                                        *)
SyncDone(t) ==
  /\ call[t].at = "sync" /\ May(t) /\ call[t].i > 2 * NR_BUFFERS
  /\ IF call[t].kind = "sync"
       THEN call' = [call EXCEPT ![t] = Idle] /\ cur' = NULL
       ELSE /\ call' = [call EXCEPT ![t].at = "victim", ![t].i = 0]
            /\ WaitsFor(t, call[t].h)
  /\ UNCHANGED heads

(* sync_dev, which umount calls, or sys_sync, which goes over the buffers   *)
(* once (those that hold no block are neither locked nor dirty).            *)
BeginSync(t) ==
  /\ cur = NULL /\ call[t] = Idle /\ "sync" \in Kinds
  /\ \E first \in {1, NR_BUFFERS + 1} :
        call' = [call EXCEPT ![t] = [Idle EXCEPT !.at = "sync", !.kind = "sync", !.i = first]]
  /\ cur' = t
  /\ UNCHANGED heads

-----------------------------------------------------------------------------
(* Where bread and breada go when the buffer asked for is read or being     *)
(* read: to the block to read ahead, or to their wait_on_buffer.            *)
AfterRead(t) == IF call[t].next # NoBlock THEN "get" ELSE "wait"

(* getblk returned the buffer asked for.                                    *)
GotMain(t) ==
  LET h == call[t].h
  IN  /\ call[t].at = "got" /\ May(t) /\ call[t].bh = 0
      /\ call' = [call EXCEPT ![t].bh = h, ![t].h = 0,
                    ![t].at = CASE call[t].kind = "getblk"                    -> "user"
                                [] call[t].kind = "bread" /\ b_uptodate[h]    -> "user"
                                [] call[t].kind = "breada" /\ b_uptodate[h]   -> "get"
                                [] OTHER                                      -> "ll"]
      /\ cur' = IF call'[t].at = "user" THEN NULL
                ELSE IF call'[t].at = "ll" /\ b_lock[h] THEN NULL ELSE t
      /\ UNCHANGED heads

(* ll_rw_block(READ, bh): lock_buffer, and nothing more if somebody read it *)
(* meanwhile; ...                                                           *)
LowLevelLock(t) ==
  LET bh == call[t].bh
  IN  /\ call[t].at = "ll" /\ May(t) /\ ~b_lock[bh]
      /\ IF b_uptodate[bh]
           THEN /\ call' = [call EXCEPT ![t].at = AfterRead(t)]
                /\ cur' = t
                /\ UNCHANGED b_lock
           ELSE /\ b_lock' = [b_lock EXCEPT ![bh] = TRUE]
                /\ call' = [call EXCEPT ![t].at = "queue"]
                /\ cur' \in (IF TableFull THEN {t, NULL} ELSE {t})
      /\ UNCHANGED <<b_block, b_count, b_uptodate, b_dirt, b_io, free_list>>

(* ... add_request, perhaps after a sleep for a free request.               *)
LowLevelQueue(t) ==
  /\ call[t].at = "queue" /\ May(t)
  /\ b_dirt' = [b_dirt EXCEPT ![call[t].bh] = FALSE]
  /\ b_io' = [b_io EXCEPT ![call[t].bh] = "read"]
  /\ call' = [call EXCEPT ![t].at = AfterRead(t)]
  /\ cur' = IF AfterRead(t) = "get" THEN t ELSE NULL
  /\ UNCHANGED <<b_block, b_count, b_lock, b_uptodate, free_list>>

(* breada with the buffer tmp = h of the block to read ahead.  The READA    *)
(* request is made for bh, not for tmp; it is dropped if bh is locked, up   *)
(* to date, or if no request is free.  Then tmp->b_count--, with no wake_up. *)
ReadAhead(t) ==
  LET bh == call[t].bh
      h == call[t].h
  IN  /\ call[t].at = "got" /\ May(t) /\ bh # 0
      /\ \/ /\ ~b_uptodate[h] /\ ~b_lock[bh] /\ ~b_uptodate[bh]
            /\ b_lock' = [b_lock EXCEPT ![bh] = TRUE]
            /\ b_dirt' = [b_dirt EXCEPT ![bh] = FALSE]
            /\ b_io' = [b_io EXCEPT ![bh] = "read"]
         \/ /\ TableFull \/ b_uptodate[h] \/ b_lock[bh] \/ b_uptodate[bh]
            /\ UNCHANGED <<b_lock, b_dirt, b_io>>
      /\ b_count' = [b_count EXCEPT ![h] = @ - 1]
      /\ call' = [call EXCEPT ![t].at = "wait", ![t].h = 0, ![t].next = NoBlock]
      /\ cur' = t
      /\ UNCHANGED <<b_block, b_uptodate, free_list>>

(* wait_on_buffer(bh) in bread and breada that has to sleep.                *)
SleepForRead(t) ==
  /\ call[t].at = "wait" /\ cur = t /\ b_lock[call[t].bh]
  /\ cur' = NULL
  /\ UNCHANGED <<heads, call>>

(* wake_up(&buffer_wait) in brelse.                                         *)
Woken(c) == [t \in Tasks |-> IF c[t].at = "nobuf" THEN [c[t] EXCEPT !.at = "get"] ELSE c[t]]

(* The end of bread and breada: the buffer, or brelse and NULL.             *)
ReadDone(t) ==
  LET bh == call[t].bh
  IN  /\ call[t].at = "wait" /\ May(t) /\ ~b_lock[bh]
      /\ IF b_uptodate[bh]
           THEN call' = [call EXCEPT ![t].at = "user"] /\ UNCHANGED b_count
           ELSE /\ call' = Woken([call EXCEPT ![t] = Idle])
                /\ b_count' = [b_count EXCEPT ![bh] = @ - 1]
      /\ cur' = NULL
      /\ UNCHANGED <<b_block, b_lock, b_uptodate, b_dirt, b_io, free_list>>

(* The holder changes the block (a whole block after getblk).               *)
Modify(t) ==
  /\ "modify" \in Kinds
  /\ cur = NULL /\ call[t].at = "user" /\ call[t].bh # 0
  /\ b_uptodate' = [b_uptodate EXCEPT ![call[t].bh] = TRUE]
  /\ b_dirt' = [b_dirt EXCEPT ![call[t].bh] = TRUE]
  /\ UNCHANGED <<b_block, b_count, b_lock, b_io, free_list, cur, call>>

(* brelse(bh), and its end after wait_on_buffer.                            *)
Release(t) ==
  /\ cur = NULL /\ call[t].at = "user" /\ call[t].bh # 0
  /\ call' = [call EXCEPT ![t].at = "release"]
  /\ WaitsFor(t, call[t].bh)
  /\ UNCHANGED heads

Released_Silent(t) ==  \* defect: no wake_up
  /\ call[t].at = "release" /\ May(t) /\ ~b_lock[call[t].bh]
  /\ b_count' = [b_count EXCEPT ![call[t].bh] = @ - 1]
  /\ call' = [call EXCEPT ![t] = Idle]
  /\ cur' = NULL
  /\ UNCHANGED <<b_block, b_lock, b_uptodate, b_dirt, b_io, free_list>>

Released(t) ==
  /\ call[t].at = "release" /\ May(t) /\ ~b_lock[call[t].bh]
  /\ b_count' = [b_count EXCEPT ![call[t].bh] = @ - 1]
  /\ call' = Woken([call EXCEPT ![t] = Idle])
  /\ cur' = NULL
  /\ UNCHANGED <<b_block, b_lock, b_uptodate, b_dirt, b_io, free_list>>

(* The interrupt that ends the transfer (end_request).                      *)
EndRequest(h, uptodate) ==
  /\ b_io[h] # "none"
  /\ b_io' = [b_io EXCEPT ![h] = "none"]
  /\ b_lock' = [b_lock EXCEPT ![h] = FALSE]
  /\ b_uptodate' = [b_uptodate EXCEPT ![h] = uptodate]
  /\ UNCHANGED <<b_block, b_count, b_dirt, free_list, cur, call>>

InCall(t) == \/ GetHit(t) \/ GetMiss(t) \/ HashReady(t) \/ VictimReady(t)
             \/ SyncBuffer(t) \/ SyncQueue(t) \/ SyncWait(t) \/ SyncDone(t)
             \/ GotMain(t) \/ LowLevelLock(t) \/ LowLevelQueue(t) \/ ReadAhead(t)
             \/ SleepForRead(t) \/ ReadDone(t) \/ Released(t)

Next ==
  \/ \E t \in Tasks : \/ InCall(t) \/ BeginSync(t) \/ Modify(t) \/ Release(t)
                      \/ \E b \in Blocks : \/ Begin(t, "getblk", b, NoBlock)
                                           \/ Begin(t, "bread", b, NoBlock)
                                           \/ \E a \in Blocks : Begin(t, "breada", b, a)
  \/ \E h \in Buffers, uptodate \in BOOLEAN : EndRequest(h, uptodate)

Spec == Init /\ [][Next]_vars

-----------------------------------------------------------------------------
(* The cache never has two buffers for a block, although getblk sleeps      *)
(* between looking for the block and entering it.                           *)
OneBufferPerBlock == \A g, h \in Buffers : b_block[g] = b_block[h] /\ g # h => b_block[g] = NoBlock

(* b_count is the number of references tasks have: none is leaked, so every *)
(* buffer can be reused again, and brelse never panics.                     *)
References(h) == {t \in Tasks : call[t].bh = h}
Pending(h) == {t \in Tasks : call[t].h = h /\ call[t].at \in {"hash", "got"}}
CountAccounted == \A h \in Buffers :
  b_count[h] = Cardinality(References(h)) + Cardinality(Pending(h))

(* A block is in one place, and whoever has that place is counted.           *)
BuffersAccounted == OneBufferPerBlock /\ CountAccounted

(* getblk gives a buffer to another block only when it is "unused           *)
(* (b_count=0), unlocked (b_lock=0), and clean": no change is lost and      *)
(* nobody's buffer is pulled away under him.                                *)
OnlyIdleReused == [][\A h \in Buffers : b_block'[h] # b_block[h] =>
                       b_count[h] = 0 /\ ~b_lock[h] /\ ~b_dirt[h] /\ b_io[h] = "none"]_vars

(* A task that found every buffer in use and sleeps on buffer_wait is not   *)
(* forgotten: another task, which does not sleep there itself, has a buffer  *)
(* that it will give back with brelse and its wake_up - also when breada     *)
(* has let the buffer the sleeper could use go, without a wake_up.           *)
WillRelease(u) == call[u].bh # 0 \/ call[u].at \in {"hash", "got"}
SleeperHasWaker == \A t \in Tasks : call[t].at = "nobuf" =>
                     \E u \in Tasks : call[u].at # "nobuf" /\ WillRelease(u)
=============================================================================
