------------------------------- MODULE Inode -------------------------------
(***************************************************************************)
(* The inode table of fs/inode.c, with new_inode and free_inode of          *)
(* fs/bitmap.c: how inodes come into the table, are shared, written back    *)
(* and leave it.                                                           *)
(*                                                                         *)
(* A step is what a task does between two sleeps: for the lock of an inode, *)
(* for the block of inodes in bread and brelse, in truncate.  That a lock's *)
(* sleepers are woken is shown in SleepLock, so a task that waits here goes *)
(* on when the lock is free.  Directories are the set `named' of the inodes *)
(* that have an entry; one device, no pipes, nothing mounted.               *)
(*                                                                         *)
(* Where the code panics, or goes on with an inode that is no longer what   *)
(* it was before a sleep, `fault' says how and the model stops.             *)
(***************************************************************************)
EXTENDS Integers, FiniteSets, FiniteSetsExt

CONSTANTS Tasks,
          NR_INODE,    \* slots of inode_table
          NR_INODES,   \* s_ninodes, the inodes of the device
          Written      \* bound: the inodes of which more than the link changes

ASSUME InodeAssumption ==
  /\ IsFiniteSet(Tasks)
  /\ NR_INODE \in Nat \ {0}
  /\ NR_INODES \in Nat \ {0}
  /\ Written \subseteq 1..NR_INODES

Slots == 1..NR_INODE
Numbers == 1..NR_INODES

VARIABLES fs,      \* tab, the inode_table: of each slot i_num (0: i_dev is 0), i_count, i_dirt,
                   \* i_lock and `data', the part that is on the disk; last_inode; disk, the
                   \* blocks of inodes; imap, the inodes whose bit is set; named, those with a
                   \* directory entry; and fault
          loc,     \* what a task does, its inode number, its inode and its empty slot
          latest   \* what the last change to an inode made of it, and whether it has
                   \* been made or followed by a change with i_dirt

vars == <<fs, loc, latest>>

Blank == [nlinks |-> 0, val |-> 0, time |-> 0]
Marked(d) == [data |-> d, marked |-> TRUE]
Zero == [num |-> 0, count |-> 0, dirt |-> FALSE, lock |-> FALSE, data |-> Blank]
Idle == [pc |-> "idle", op |-> "none", nr |-> 0, slot |-> 0, empty |-> 0]

(* Some inodes have a name, and none has been read.                          *)
Init ==
  \E S \in SUBSET Numbers :
    /\ fs = [tab |-> [s \in Slots |-> Zero], last_inode |-> 1,
             disk |-> [n \in Numbers |-> [Blank EXCEPT !.nlinks = IF n \in S THEN 1 ELSE 0]],
             imap |-> S, named |-> S, fault |-> "none"]
    /\ latest = [n \in Numbers |-> Marked(fs.disk[n])]
    /\ loc = [t \in Tasks |-> Idle]

(* Each operation yields the file system and the locals it leaves behind.    *)
Yields(f, l) == [f |-> f, l |-> l]
Panics(f, l, what) == Yields([f EXCEPT !.fault = what], l)

At(t, l) == fs.fault = "none" /\ loc[t].pc = l
Do(t, r) == fs' = r.f /\ loc' = [loc EXCEPT ![t] = r.l]
My(t) == fs.tab[loc[t].slot]
Number(t) == My(t).num

(* write_inode of a dirty inode that is not locked, as far as bread.         *)
write_inode(f, l) == Yields([f EXCEPT !.tab[l.slot].lock = TRUE], [l EXCEPT !.pc = "write"])

-----------------------------------------------------------------------------
(* iget with an empty slot in hand: the inode is in the table and free, or    *)
(* locked, or is not there and will be read into the slot.                   *)
Iget(f, l) ==
  LET S == {s \in Slots : f.tab[s].num = l.nr}
      s == Min(S)
  IN CASE l.nr \notin f.imap -> Panics(f, l, "stale iget")
       [] l.nr \in f.imap /\ S = {} ->
            Yields([f EXCEPT !.tab[l.empty].num = l.nr, !.tab[l.empty].lock = TRUE],
                   [l EXCEPT !.pc = "read", !.slot = l.empty, !.empty = 0])
       [] l.nr \in f.imap /\ S # {} /\ f.tab[s].lock ->
            Yields(f, [l EXCEPT !.pc = "found", !.slot = s])
       [] OTHER ->
            Yields([f EXCEPT !.tab[s].count = @ + 1, !.tab[l.empty].count = 0],
                   [l EXCEPT !.pc = "hold", !.slot = s, !.empty = 0])

(* new_inode with an empty slot in hand.                                     *)
NewInode(f, l) ==
  LET n == Min(Numbers \ f.imap)
  IN IF Numbers \subseteq f.imap
     THEN Yields([f EXCEPT !.tab[l.empty].count = 0], Idle)
     ELSE Yields([f EXCEPT !.imap = @ \cup {n},
                           !.tab[l.empty] = [num |-> n, count |-> 1, dirt |-> TRUE, lock |-> FALSE,
                                             data |-> [Blank EXCEPT !.nlinks = 1]]],
                 [l EXCEPT !.pc = "hold", !.slot = l.empty, !.empty = 0])

-----------------------------------------------------------------------------
(* get_empty_inode: the slots from the one after last_inode on, and the slot  *)
(* its loop ends with.                                                      *)
Distance(f, s) == (s - f.last_inode - 1) % NR_INODE
Free(f) == {s \in Slots : f.tab[s].count = 0}
Clean(f) == {s \in Free(f) : ~f.tab[s].dirt /\ ~f.tab[s].lock}
Nearest(f, S) == CHOOSE s \in S : \A u \in S : Distance(f, s) <= Distance(f, u)
Farthest(f, S) == CHOOSE s \in S : \A u \in S : Distance(f, s) >= Distance(f, u)

(* The slot is not locked and not dirty any more, and no one has it.         *)
Taken(f, l) ==
  LET g == [f EXCEPT !.tab[l.slot] = [Zero EXCEPT !.count = 1]]
      m == [l EXCEPT !.empty = l.slot, !.slot = 0]
  IN IF l.op = "new" THEN NewInode(g, m) ELSE Iget(g, m)

Search(f, l) ==
  CASE Free(f) = {} -> Panics(f, l, "No free inodes in mem")
    [] Clean(f) # {} ->
         LET s == Nearest(f, Clean(f)) IN Taken([f EXCEPT !.last_inode = s], [l EXCEPT !.slot = s])
    [] OTHER -> LET s == Farthest(f, Free(f))
                    m == [l EXCEPT !.slot = s]
                IN IF f.tab[s].lock THEN Yields(f, [m EXCEPT !.pc = "empty"]) ELSE write_inode(f, m)

Waited(f, l) ==
  CASE f.tab[l.slot].dirt -> write_inode(f, l)
    [] ~f.tab[l.slot].dirt /\ f.tab[l.slot].count > 0 -> Search(f, l)
    [] OTHER -> Taken(f, l)

-----------------------------------------------------------------------------
(* iput once the inode is not locked: its loop, up to truncate or the write.  *)
iput_Once(f, l) ==  \* defect: a link dropped while the inode was written is not seen
  CASE f.tab[l.slot].count > 1 \/ ~f.tab[l.slot].dirt ->
         Yields([f EXCEPT !.tab[l.slot].count = @ - 1], Idle)
    [] f.tab[l.slot].count = 1 /\ f.tab[l.slot].data.nlinks = 0 -> Yields(f, [l EXCEPT !.pc = "truncate"])
    [] OTHER -> write_inode(f, l)

iput_Lazy(f, l) ==  \* defect: writing a dirty inode is left to get_empty_inode
  IF f.tab[l.slot].count = 1 /\ f.tab[l.slot].data.nlinks = 0
  THEN Yields(f, [l EXCEPT !.pc = "truncate"])
  ELSE Yields([f EXCEPT !.tab[l.slot].count = @ - 1], Idle)

iput(f, l) ==
  CASE f.tab[l.slot].count > 1 -> Yields([f EXCEPT !.tab[l.slot].count = @ - 1], Idle)
    [] f.tab[l.slot].count = 1 /\ f.tab[l.slot].data.nlinks = 0 ->
         Yields(f, [l EXCEPT !.pc = "truncate"])
    [] f.tab[l.slot].count = 1 /\ f.tab[l.slot].data.nlinks # 0 /\ f.tab[l.slot].dirt ->
         write_inode(f, l)
    [] OTHER -> Yields([f EXCEPT !.tab[l.slot].count = @ - 1], Idle)

(* sync_inodes from slot k on: the next one that is locked or dirty.         *)
sync_inodes(f, l, k) ==
  LET S == {s \in Slots : s >= k /\ (f.tab[s].lock \/ f.tab[s].dirt)}
      m == [l EXCEPT !.slot = Min(S)]
  IN CASE S = {} -> Yields(f, Idle)
       [] S # {} /\ f.tab[Min(S)].lock -> Yields(f, [m EXCEPT !.pc = "sync"])
       [] OTHER -> write_inode(f, m)

-----------------------------------------------------------------------------
(* A caller reads the number in a directory and sleeps in brelse or in the    *)
(* iput of the directory before it calls iget; new_inode; sys_sync.           *)
Lookup(t, n) ==
  /\ At(t, "idle") /\ n \in fs.named
  /\ loc' = [loc EXCEPT ![t] = [Idle EXCEPT !.pc = "iget", !.op = "iget", !.nr = n]]
  /\ UNCHANGED <<fs, latest>>

Get(t) == At(t, "iget") /\ Do(t, Search(fs, loc[t])) /\ UNCHANGED latest

New(t) ==
  /\ At(t, "idle")
  /\ LET r == Search(fs, [Idle EXCEPT !.op = "new"])
     IN /\ Do(t, r)
        /\ latest' = [n \in Numbers |-> IF n \in r.f.imap \ fs.imap
                                        THEN Marked([Blank EXCEPT !.nlinks = 1]) ELSE latest[n]]

Sync(t) ==
  /\ At(t, "idle")
  /\ Do(t, sync_inodes(fs, [Idle EXCEPT !.op = "sync"], 1))
  /\ UNCHANGED latest

(* A lock a task waits for is free: in get_empty_inode, in iget, where the    *)
(* slot may hold another inode now, in sync_inodes and in iput.              *)
Resumes(t, f) ==
  LET l == loc[t]
      r == CASE l.op \in {"iget", "new"} /\ l.pc # "found" -> Waited(f, l)
             [] l.pc = "found" -> Iget(f, l)
             [] l.op = "sync" /\ l.pc = "sync" -> sync_inodes(f, l, l.slot)
             [] l.op = "sync" /\ l.pc # "sync" -> sync_inodes(f, l, l.slot + 1)
             [] OTHER -> iput(f, l)
  IN /\ Do(t, r)
     /\ latest' = [n \in Numbers |-> IF n \in r.f.imap \ fs.imap
                                     THEN Marked([Blank EXCEPT !.nlinks = 1]) ELSE latest[n]]

Unlocked(t) ==
  /\ fs.fault = "none" /\ loc[t].pc \in {"empty", "found", "sync", "put"}
  /\ ~My(t).lock
  /\ Resumes(t, fs)

(* write_inode has the block: it copies the inode, may sleep in brelse, and   *)
(* unlocks it.                                                              *)
WriteCopy(t) ==
  /\ At(t, "write")
  /\ fs' = [fs EXCEPT !.disk[Number(t)] = My(t).data, !.tab[loc[t].slot].dirt = FALSE]
  /\ loc' = [loc EXCEPT ![t].pc = "written"]
  /\ UNCHANGED latest

WriteEnd_Cleans(t) ==  \* defect: i_dirt is cleared after brelse
  At(t, "written") /\ Resumes(t, [fs EXCEPT !.tab[loc[t].slot].lock = FALSE,
                                            !.tab[loc[t].slot].dirt = FALSE])

WriteEnd(t) == At(t, "written") /\ Resumes(t, [fs EXCEPT !.tab[loc[t].slot].lock = FALSE])

read_inode(t) ==
  /\ At(t, "read")
  /\ fs' = [fs EXCEPT !.tab[loc[t].slot].data = fs.disk[Number(t)], !.tab[loc[t].slot].lock = FALSE]
  /\ loc' = [loc EXCEPT ![t].pc = "hold"]
  /\ UNCHANGED latest

-----------------------------------------------------------------------------
(* What the holder of an inode does with it, without a look at its lock.  The *)
(* times of a file that is read or written, or of a directory that gets an    *)
(* entry, change without i_dirt.                                            *)
Change(t, d, dirt, names) ==
  /\ fs' = [fs EXCEPT !.tab[loc[t].slot].data = d, !.tab[loc[t].slot].dirt = dirt, !.named = names]
  /\ latest' = [latest EXCEPT ![Number(t)] =
                  [data |-> d, marked |-> dirt \/ (@.marked /\ d.time = My(t).data.time)]]
  /\ UNCHANGED loc

Touch(t) ==   \* the size, a block, the mode
  /\ At(t, "hold") /\ Number(t) \in Written
  /\ Change(t, [My(t).data EXCEPT !.val = 1 - @], TRUE, fs.named)

Stamp(t) ==   \* i_atime, i_mtime or i_ctime
  /\ At(t, "hold") /\ Number(t) \in Written /\ My(t).data.time = 0
  /\ Change(t, [My(t).data EXCEPT !.time = 1], My(t).dirt, fs.named)

Enter(t) ==   \* the entry of a new inode, and, if there is no room, the way back
  /\ At(t, "hold") /\ loc[t].op = "new" /\ My(t).data.nlinks = 1
  /\ \/ Change(t, My(t).data, My(t).dirt, fs.named \cup {Number(t)})
     \/ Number(t) \notin fs.named
        /\ Change(t, [My(t).data EXCEPT !.nlinks = 0], My(t).dirt, fs.named)

Unlink(t) ==  \* sys_unlink of the only link
  /\ At(t, "hold") /\ Number(t) \in fs.named
  /\ Change(t, [My(t).data EXCEPT !.nlinks = 0], TRUE, fs.named \ {Number(t)})

Put(t) ==
  /\ At(t, "hold")
  /\ loc[t].op = "new" => Number(t) \in fs.named \/ My(t).data.nlinks = 0
  /\ LET l == [loc[t] EXCEPT !.op = "put", !.pc = "put"]
     IN Do(t, IF My(t).lock THEN Yields(fs, l) ELSE iput(fs, l))
  /\ UNCHANGED latest

(* truncate has slept, and free_inode clears the bit and the slot.            *)
free_inode(t) ==
  /\ At(t, "truncate")
  /\ Do(t, CASE My(t).count > 1 -> Panics(fs, loc[t], "free_inode")
             [] My(t).count = 1 /\ My(t).lock -> Panics(fs, loc[t], "cleared while locked")
             [] OTHER -> Yields([fs EXCEPT !.imap = @ \ {Number(t)}, !.tab[loc[t].slot] = Zero], Idle))
  /\ UNCHANGED latest

Next == \E t \in Tasks :
  \/ \E n \in Numbers : Lookup(t, n)
  \/ Get(t) \/ New(t) \/ Sync(t) \/ Unlocked(t) \/ WriteCopy(t) \/ WriteEnd(t) \/ read_inode(t)
  \/ Touch(t) \/ Stamp(t) \/ Enter(t) \/ Unlink(t) \/ Put(t) \/ free_inode(t)

Spec == Init /\ [][Next]_vars

-----------------------------------------------------------------------------
(* i_count is the number of tasks that have the slot, so that no slot is      *)
(* reused under its holder and none is lost; and a slot that no one has is     *)
(* neither dirty nor locked: iput does not let go before that, and the sleeps  *)
(* in get_empty_inode are never taken.                                       *)
Has(t, s) == \/ loc[t].empty = s
             \/ loc[t].slot = s /\ (loc[t].pc \in {"hold", "read", "truncate"} \/ loc[t].op = "put")
SlotsAccounted == fs.fault = "none" => \A s \in Slots :
  /\ fs.tab[s].count = Cardinality({t \in Tasks : Has(t, s)})
  /\ fs.tab[s].count = 0 => ~fs.tab[s].dirt /\ ~fs.tab[s].lock

(* An inode is in the table once at most, although iget sleeps for the lock of *)
(* one it has found and another task may read or free it meanwhile; and no     *)
(* change is lost but one of the times that is made on a clean inode and       *)
(* followed by none that marks it: what the table holds of it, or if it is    *)
(* not there or is being read, the disk, is what the last change made of it,  *)
(* and up to the times when that change was of the times alone.               *)
OneSlotPerInode == \A s, u \in Slots :
  s # u /\ fs.tab[s].num # 0 => fs.tab[s].num # fs.tab[u].num

Reads(s) == \E t \in Tasks : loc[t].pc = "read" /\ loc[t].slot = s
Same(d, h) == /\ d.nlinks = h.data.nlinks /\ d.val = h.data.val
              /\ h.marked => d.time = h.data.time
NoLostInode == OneSlotPerInode /\ (fs.fault = "none" => \A n \in fs.imap :
  LET S == {s \in Slots : fs.tab[s].num = n /\ ~Reads(s)}
  IN IF S = {} THEN Same(fs.disk[n], latest[n]) ELSE \A s \in S : Same(fs.tab[s].data, latest[n]))

(* An inode with a name is not freed, and one that has lost its name is freed *)
(* by its last holder, whoever that is.                                      *)
FreedAtLast == fs.fault = "none" =>
  /\ fs.named \subseteq fs.imap
  /\ \A n \in fs.imap \ fs.named : \E t \in Tasks, s \in Slots : Has(t, s) /\ fs.tab[s].num = n
=============================================================================
