------------------------------- MODULE Namei -------------------------------
(***************************************************************************)
(* The name space: fs/namei.c, with the calls of fs/open.c that use it and  *)
(* the bit maps of fs/bitmap.c and fs/truncate.c under it.                  *)
(*                                                                         *)
(* A call sleeps wherever it reads a block or an inode.  Each step here is  *)
(* what it does between two sleeps, so that other calls come in between      *)
(* finding an entry, or no entry, and using that.  Inodes are known by       *)
(* number: the table they are kept in is the module Inode, and iget and      *)
(* iput are one step.  The super-user works on one device.                   *)
(*                                                                         *)
(* The code does not look again after it has slept.  Where what it acts on   *)
(* is no longer so, or where it panics, `fault' says which, and the model    *)
(* stops: what is promised is promised up to there.                          *)
(***************************************************************************)
EXTENDS Integers, Sequences, FiniteSets, FiniteSetsExt, SequencesExt

CONSTANTS Tasks,
          Names,
          NR_INODES,   \* s_ninodes
          NR_BLOCKS,   \* the data zones
          PER_BLOCK,   \* DIR_ENTRIES_PER_BLOCK, `.' and `..' not counted
          Ops,         \* the calls that are made, and
          MAX_OPS      \* bound: how many of them

ASSUME NameiAssumption ==
  /\ IsFiniteSet(Tasks)
  /\ NR_INODES \in Nat \ {0} /\ NR_BLOCKS \in Nat \ {0} /\ PER_BLOCK \in Nat \ {0}
  /\ MAX_OPS \in Nat
  /\ Ops \subseteq {"chdir", "chmod", "open", "creat", "excl", "mknod", "mkdir", "rmdir",
                    "unlink", "link"}

ROOT_INO == 1
Inodes == 1..NR_INODES

VARIABLES fs,    \* imap and zmap, the bits that are set; of each inode `node' (i_mode,
                 \* i_nlinks, the blocks in i_zone and the directory entries, as many as
                 \* i_size says) and `count', i_count; and `fault'
          loc,   \* the locals of the call a task is in
          file,  \* the inode of a task's open file, or 0
          pwd,   \* the inode of its working directory
          stale, \* the tasks that have read the number of an inode that was freed since
          left   \* how many more calls the bound allows

nvars == <<fs, loc, file, pwd, stale, left>>

Nothing == [mode |-> "none", nlinks |-> 0, zone |-> <<>>, ent |-> <<>>]

Idle == [pc |-> "idle", op |-> "none",
         path |-> <<>>,   \* the names still to look up
         to |-> <<>>,     \* the second path of link
         dir |-> 0, ino |-> 0, old |-> 0,   \* the inodes it holds
         inr |-> 0,       \* the inode number it has read from an entry ...
         slot |-> 0,      \* ... and the entry
         blk |-> 0,       \* the block of the directory or file it is at
         new |-> 0,       \* the block it has allocated, or whose buffer it holds
         len |-> 0]       \* the size the directory had

(* mount_root: the super block refers twice to the root, each task once.     *)
NameiInit ==
  /\ fs = [imap |-> {ROOT_INO}, zmap |-> {1}, fault |-> "none",
           node |-> [n \in Inodes |-> IF n = ROOT_INO
             THEN [mode |-> "dir", nlinks |-> 2, zone |-> <<1>>, ent |-> <<>>] ELSE Nothing],
           count |-> [n \in Inodes |-> IF n = ROOT_INO THEN 2 + Cardinality(Tasks) ELSE 0]]
  /\ loc = [t \in Tasks |-> Idle]
  /\ file = [t \in Tasks |-> 0]
  /\ pwd = [t \in Tasks |-> ROOT_INO]
  /\ stale = {}
  /\ left = MAX_OPS

Here(t, l) == fs.fault = "none" /\ loc[t].pc = l
Faulty(t, what) == fs' = [fs EXCEPT !.fault = what] /\ UNCHANGED <<loc, file, pwd>>

-----------------------------------------------------------------------------
(* The blocks whose buffers tasks hold while they sleep: of the file they      *)
(* read or write, and of the directory with the entry rmdir and unlink found. *)
Busy == {loc[t].new : t \in {u \in Tasks : loc[u].pc = "copy"}}
          \cup {fs.node[loc[t].dir].zone[(loc[t].slot - 1) \div PER_BLOCK + 1] :
                  t \in {u \in Tasks : loc[u].slot # 0}}

(* free_block, new_block, truncate, free_inode, new_inode, iput: what they   *)
(* make of the file system f.  free_block does not free a block whose buffer  *)
(* is in use, and no one will.                                              *)
free_blocks(f, S) ==
  CASE S \cap Busy # {} -> [f EXCEPT !.fault = "block in use"]
    [] S \cap Busy = {} /\ S \subseteq f.zmap -> [f EXCEPT !.zmap = @ \ S]
    [] OTHER -> [f EXCEPT !.fault = "free_block"]

FreeBlocks(f) == 1..NR_BLOCKS \ f.zmap
FreeInodes(f) == Inodes \ f.imap

new_block(f) == [f EXCEPT !.zmap = @ \cup {Min(FreeBlocks(f))}]
NextZone(f, n, b) == [f EXCEPT !.node[n].zone = Append(@, b)]

truncate(f, n) ==
  IF f.node[n].mode \in {"reg", "dir"}
  THEN [free_blocks(f, ToSet(f.node[n].zone)) EXCEPT !.node[n].zone = <<>>, !.node[n].ent = <<>>]
  ELSE f

free_inode(f, n) == [f EXCEPT !.imap = @ \ {n}, !.count[n] = 0, !.node[n] = Nothing]

new_inode(f, n) ==
  [f EXCEPT !.imap = @ \cup {n}, !.count[n] = 1, !.node[n] = [Nothing EXCEPT !.nlinks = 1]]

(* Defect: an inode without links is freed while others have it open.        *)
iput_Open(f, n) ==
  CASE n = 0 -> f
    [] n # 0 /\ f.node[n].nlinks # 0 -> [f EXCEPT !.count[n] = @ - 1]
    [] OTHER -> free_inode(truncate(f, n), n)

iput(f, n) ==
  CASE n = 0 -> f
    [] n # 0 /\ (f.count[n] > 1 \/ f.node[n].nlinks # 0) -> [f EXCEPT !.count[n] = @ - 1]
    [] OTHER -> free_inode(truncate(f, n), n)

iget(f, n) == [f EXCEPT !.count[n] = @ + 1]

Links(f, n, k) == [f EXCEPT !.node[n].nlinks = (@ + k) % 256]    \* an unsigned char

-----------------------------------------------------------------------------
(* A call is over: it puts away the inodes it still holds.                   *)
Released(f, l) == iput(iput(iput(f, l.dir), l.ino), l.old)
Leave(t, f) == fs' = f /\ loc' = [loc EXCEPT ![t] = Idle]
Fail(t, f, l) == Leave(t, Released(f, l)) /\ UNCHANGED <<file, pwd>>
Go(t, f, l) == fs' = f /\ loc' = [loc EXCEPT ![t] = l] /\ UNCHANGED <<file, pwd>>

(* get_dir with the directory d in hand, up to the bread of find_entry.  The *)
(* test is also the callers' permission(dir,MAY_WRITE): no one gets at a     *)
(* deleted directory.                                                       *)
permission(f, n) == f.node[n].nlinks # 0

Walk(t, f, l, d) ==
  IF f.node[d].mode # "dir" \/ ~permission(f, d)
  THEN Fail(t, f, [l EXCEPT !.dir = d])
  ELSE Go(t, f, [l EXCEPT !.pc = "find", !.dir = d, !.blk = 0, !.len = Len(f.node[d].ent)])

Call(t, op, path, to) ==
  /\ Here(t, "idle")
  /\ op \in {"open", "creat", "excl"} => file[t] = 0
  /\ Walk(t, iget(fs, pwd[t]), [Idle EXCEPT !.op = op, !.path = path, !.to = to], pwd[t])

(* The entries of a block of a directory, and those of them with a name.     *)
InBlock(blk, len) == {i \in 1..len : (i - 1) \div PER_BLOCK = blk}
Blocks(len) == (len + PER_BLOCK - 1) \div PER_BLOCK
Matches(n, name, S) == {i \in S \cap DOMAIN fs.node[n].ent :
                          fs.node[n].ent[i].name = name /\ fs.node[n].ent[i].ino # 0}
Entries(n) == {i \in DOMAIN fs.node[n].ent : fs.node[n].ent[i].ino # 0}

(* find_entry, one block, once it is read or could not be: then it is passed  *)
(* over, and without the first one the search is over.  A directory cannot    *)
(* have become shorter.                                                      *)
Found(t) == Matches(loc[t].dir, Head(loc[t].path), InBlock(loc[t].blk, loc[t].len))
IsLast(t) == Len(loc[t].path) = 1

FindNextBlock(t) ==
  /\ Here(t, "find") /\ loc[t].blk + 1 < Blocks(loc[t].len)
  /\ Found(t) = {} \/ loc[t].blk > 0
  /\ Go(t, fs, [loc[t] EXCEPT !.blk = @ + 1])

NotFound(t) == Here(t, "find") /\ (loc[t].blk = 0 \/ loc[t].blk + 1 >= Blocks(loc[t].len))

(* The name is not there: for most calls, and on the way, -ENOENT.           *)
FindFails(t) ==
  /\ NotFound(t)
  /\ \/ ~IsLast(t)
     \/ loc[t].op \in {"chdir", "chmod", "open", "rmdir", "unlink"}
     \/ loc[t].op = "link" /\ loc[t].old = 0
     \/ loc[t].op \in {"creat", "excl"} /\ ~permission(fs, loc[t].dir)
  /\ Fail(t, fs, loc[t])

(* The others add it.                                                       *)
Adds(t) ==
  /\ NotFound(t) /\ IsLast(t)
  /\ \/ loc[t].op \in {"mknod", "mkdir"}
     \/ loc[t].op \in {"creat", "excl"} /\ permission(fs, loc[t].dir)
     \/ loc[t].op = "link" /\ loc[t].old # 0
  /\ Go(t, fs, [loc[t] EXCEPT !.pc = IF loc[t].op = "link" THEN "add" ELSE "new", !.blk = 0])

(* The name is there.  rmdir and unlink keep the directory and the entry.    *)
FindSucceeds(t) ==
  /\ Here(t, "find") /\ Found(t) # {}
  /\ LET l == loc[t]
         i == Min(Found(t))
         next == [l EXCEPT !.pc = "iget", !.inr = fs.node[l.dir].ent[i].ino, !.slot = i]
     IN IF IsLast(t) /\ (l.op \in {"excl", "mknod", "mkdir"} \/ (l.op = "link" /\ l.old # 0))
        THEN Fail(t, fs, l)
        ELSE IF IsLast(t) /\ l.op \in {"rmdir", "unlink"}
             THEN Go(t, fs, next)
             ELSE Go(t, iput(fs, l.dir), [next EXCEPT !.dir = 0, !.slot = 0])

-----------------------------------------------------------------------------
(* iget of the number that was read.  The inode may have been freed since.   *)
StaleIget(t) == Here(t, "iget") /\ t \in stale /\ Faulty(t, "stale iget")

Got(t) == Here(t, "iget") /\ t \notin stale
With(t) == [loc[t] EXCEPT !.ino = loc[t].inr, !.inr = 0]     \* the locals, and
Mode(t) == fs.node[loc[t].inr].mode                          \* its i_mode

(* The next name of the path.                                               *)
NextName(t) ==
  /\ Got(t) /\ ~IsLast(t)
  /\ Walk(t, iget(fs, loc[t].inr), [loc[t] EXCEPT !.path = Tail(@), !.inr = 0], loc[t].inr)

(* namei, for sys_chdir ...                                                 *)
sys_chdir(t) ==
  /\ Got(t) /\ IsLast(t) /\ loc[t].op = "chdir"
  /\ IF Mode(t) # "dir"
     THEN Fail(t, iget(fs, loc[t].inr), With(t))
     ELSE /\ Leave(t, iput(iget(fs, loc[t].inr), pwd[t]))
          /\ pwd' = [pwd EXCEPT ![t] = loc[t].inr]
          /\ UNCHANGED file

(* ... and for the calls that change the mode or the owner and leave: none   *)
(* of that stops the super-user.                                            *)
sys_chmod(t) ==
  /\ Got(t) /\ IsLast(t) /\ loc[t].op = "chmod"
  /\ Fail(t, iget(fs, loc[t].inr), With(t))

(* sys_open ends well: the descriptor keeps the inode n.                     *)
sys_open(t, f, n) == Leave(t, f) /\ file' = [file EXCEPT ![t] = n] /\ UNCHANGED pwd

(* open_namei of what there is.  O_TRUNC asks for writing.                   *)
OpenOld(t) ==
  LET l == loc[t]
      f == iget(fs, l.inr)
  IN /\ Got(t) /\ IsLast(t) /\ l.op \in {"open", "creat"}
     /\ IF (Mode(t) = "dir" /\ l.op = "creat") \/ ~permission(fs, l.inr)
        THEN Fail(t, f, With(t))
        ELSE sys_open(t, IF l.op = "creat" THEN truncate(f, l.inr) ELSE f, l.inr)

(* sys_link has the old inode, and goes on with the new name.                *)
LinkOld(t) ==
  LET l == With(t)
      f == iget(fs, loc[t].inr)
  IN /\ Got(t) /\ IsLast(t) /\ l.op = "link"
     /\ IF Mode(t) = "dir"
        THEN Fail(t, f, l)
        ELSE Walk(t, iget(f, pwd[t]), [l EXCEPT !.old = l.ino, !.ino = 0, !.path = l.to, !.to = <<>>],
                  pwd[t])

-----------------------------------------------------------------------------
(* The entry a call found, unless it has been changed while the call slept.  *)
SameEntry(t, n) == LET e == fs.node[loc[t].dir].ent
              IN /\ loc[t].slot \in DOMAIN e
                 /\ e[loc[t].slot] = [name |-> Head(loc[t].path), ino |-> n]

Clear(f, l) == [f EXCEPT !.node[l.dir].ent[l.slot].ino = 0]

(* sys_unlink.  It sleeps in brelse when the entry is gone and the link is    *)
(* still counted.                                                           *)
UnlinkFails(t) ==
  /\ Got(t) /\ loc[t].op = "unlink" /\ IsLast(t) /\ Mode(t) = "dir"
  /\ Fail(t, iget(fs, loc[t].inr), With(t))

Unlink(t) ==
  /\ Got(t) /\ loc[t].op = "unlink" /\ IsLast(t) /\ Mode(t) # "dir"
  /\ IF ~SameEntry(t, loc[t].inr)
     THEN Faulty(t, "stale entry")
     ELSE IF ~permission(fs, loc[t].inr)
     THEN Faulty(t, "deleting nonexistent file")
     ELSE Go(t, Clear(iget(fs, loc[t].inr), loc[t]), [With(t) EXCEPT !.pc = "unlinked", !.slot = 0])

Unlinked(t) == Here(t, "unlinked") /\ Fail(t, Links(fs, loc[t].ino, -1), loc[t])

(* sys_rmdir: a directory no one else has, and empty, block by block ...      *)
Rmdir(t) ==
  /\ Got(t) /\ loc[t].op = "rmdir" /\ IsLast(t)
  /\ IF fs.count[loc[t].inr] > 0 \/ Mode(t) # "dir"
     THEN Fail(t, iget(fs, loc[t].inr), With(t))
     ELSE Go(t, iget(fs, loc[t].inr),
             [With(t) EXCEPT !.pc = "empty", !.blk = 0, !.len = Len(fs.node[loc[t].inr].ent)])

empty_dir(t) ==
  LET l == loc[t]
  IN /\ Here(t, "empty")
     /\ CASE Entries(l.ino) \cap InBlock(l.blk, l.len) # {} -> Fail(t, fs, l)
          [] Entries(l.ino) \cap InBlock(l.blk, l.len) = {} /\ l.blk + 1 < Blocks(l.len) ->
               Go(t, fs, [l EXCEPT !.blk = @ + 1])
          [] OTHER -> Go(t, fs, [l EXCEPT !.pc = "rmdir"])

(* ... loses its entry, and after brelse its links.  The father may have been   *)
(* removed meanwhile: its i_nlinks would become 255, and it would never be     *)
(* freed.                                                                   *)
RmdirEntry(t) ==
  /\ Here(t, "rmdir")
  /\ IF ~SameEntry(t, loc[t].ino)
     THEN Faulty(t, "stale entry")
     ELSE Go(t, Clear(fs, loc[t]), [loc[t] EXCEPT !.pc = "rmdirred", !.slot = 0])

Rmdirred_KeepsParent(t) ==  \* defect: the father keeps the link of `..'
  /\ Here(t, "rmdirred") /\ Entries(loc[t].ino) = {}
  /\ Fail(t, [fs EXCEPT !.node[loc[t].ino].nlinks = 0], loc[t])

Rmdirred(t) ==
  /\ Here(t, "rmdirred")
  /\ IF Entries(loc[t].ino) # {}
     THEN Faulty(t, "entered while removed")
     ELSE IF ~permission(fs, loc[t].dir)
     THEN Faulty(t, "removed from a removed directory")
     ELSE Fail(t, Links([fs EXCEPT !.node[loc[t].ino].nlinks = 0], loc[t].dir, -1), loc[t])

-----------------------------------------------------------------------------
(* new_inode, and for a directory its first block, before the next sleep.    *)
NewInode(t) ==
  LET l == loc[t]
      n == Min(FreeInodes(fs))
      f == new_inode(fs, n)
      have == [l EXCEPT !.ino = n, !.blk = 0]
  IN /\ Here(t, "new")
     /\ CASE FreeInodes(fs) = {} -> Fail(t, fs, l)
          [] FreeInodes(fs) # {} /\ l.op # "mkdir" ->
               Go(t, [f EXCEPT !.node[n].mode = "reg"], [have EXCEPT !.pc = "add"])
          [] FreeInodes(fs) # {} /\ l.op = "mkdir" /\ FreeBlocks(fs) = {} ->
               Fail(t, Links(f, n, -1), have)
          [] OTHER -> Go(t, NextZone(new_block(f), n, Min(FreeBlocks(fs))), [have EXCEPT !.pc = "fill"])

(* sys_mkdir writes `.' and `..', if it can read the block.                  *)
FillDir(t) ==
  /\ Here(t, "fill")
  /\ Go(t, [fs EXCEPT !.node[loc[t].ino].nlinks = 2, !.node[loc[t].ino].mode = "dir"],
        [loc[t] EXCEPT !.pc = "add"])

FillFails(t) ==
  /\ Here(t, "fill")
  /\ Fail(t, Links(free_blocks(fs, ToSet(fs.node[loc[t].ino].zone)), loc[t].ino, -1), loc[t])

(* add_entry, one block, once it is read: the first entry that is free or     *)
(* beyond the end.  It is filled without another sleep.                      *)
Room(t) ==
  LET e == fs.node[loc[t].dir].ent
  IN {i \in InBlock(loc[t].blk, Len(e) + 1) : i > Len(e) \/ e[i].ino = 0}

(* create_block of a block there is not: new_block sleeps in getblk, and what  *)
(* it returns becomes the i_zone, even if there is one by then.              *)
create_block(t, l) ==
  /\ FreeBlocks(fs) # {}
  /\ Go(t, new_block(fs), [l EXCEPT !.pc = "getblk", !.new = Min(FreeBlocks(fs))])

BlockMade(t) ==
  LET l == loc[t]
      n == IF l.op = "write" THEN file[t] ELSE l.dir
  IN /\ Here(t, "getblk")
     /\ IF l.blk < Len(fs.node[n].zone)
        THEN Faulty(t, "block allocated twice")
        ELSE Go(t, NextZone(fs, n, l.new),
                IF l.op = "write" THEN [l EXCEPT !.pc = "copy"] ELSE [l EXCEPT !.pc = "add", !.new = 0])

AddNextBlock(t) ==
  LET l == [loc[t] EXCEPT !.blk = @ + 1]
  IN /\ Here(t, "add") /\ Room(t) = {}
     /\ IF l.blk < Len(fs.node[l.dir].zone) THEN Go(t, fs, l) ELSE create_block(t, l)

(* No block for the directory: the new inode is given up.  sys_mkdir frees    *)
(* its block and leaves it in i_zone[0], so that iput frees it once more.     *)
AddFails(t) ==
  LET l == loc[t]
      n == l.ino
  IN /\ Here(t, "add") /\ Room(t) = {}
     /\ l.blk + 1 = Len(fs.node[l.dir].zone) /\ FreeBlocks(fs) = {}
     /\ CASE l.op = "link" -> Fail(t, fs, l)
          [] l.op = "mkdir" ->
               Fail(t, Links(free_blocks(fs, ToSet(fs.node[n].zone)), n, -2), l)
          [] OTHER -> Fail(t, Links(fs, n, -1), l)

(* What each call does once its entry stands in the file system f.  sys_link *)
(* counts the link after the brelse.                                        *)
OpenNew(t, f, l) == l.op \in {"creat", "excl"} /\ sys_open(t, iput(f, l.dir), l.ino)
MknodEnd(t, f, l) == l.op = "mknod" /\ Fail(t, f, l)
MkdirEnd(t, f, l) == l.op = "mkdir" /\ Fail(t, Links(f, l.dir, 1), l)
LinkNew(t, f, l) == l.op = "link" /\ Go(t, iput(f, l.dir), [l EXCEPT !.pc = "linked", !.dir = 0])
Linked(t) == Here(t, "linked") /\ Fail(t, Links(fs, loc[t].old, 1), loc[t])

AddEntry(t) ==
  LET l == loc[t]
      i == Min(Room(t))
      e == [name |-> Head(l.path), ino |-> IF l.op = "link" THEN l.old ELSE l.ino]
      ent == fs.node[l.dir].ent
      f == [fs EXCEPT !.node[l.dir].ent = IF i > Len(ent) THEN Append(ent, e) ELSE [ent EXCEPT ![i] = e]]
  IN /\ Here(t, "add") /\ Room(t) # {}
     /\ IF Matches(l.dir, e.name, DOMAIN ent) # {}
        THEN Faulty(t, "name added twice")
        ELSE IF ~permission(fs, l.dir) THEN Faulty(t, "added to a removed directory")
        ELSE OpenNew(t, f, l) \/ MknodEnd(t, f, l) \/ MkdirEnd(t, f, l) \/ LinkNew(t, f, l)

-----------------------------------------------------------------------------
(* sys_close of the last descriptor; file_read and file_write of the first    *)
(* block of a file, which is allocated if it must be, and whose buffer the     *)
(* task holds while it copies and may sleep in a page fault.                  *)
sys_close(t) ==
  /\ Here(t, "idle") /\ file[t] # 0
  /\ fs' = iput(fs, file[t])
  /\ file' = [file EXCEPT ![t] = 0]
  /\ UNCHANGED <<loc, pwd>>

Write(t) ==
  /\ Here(t, "idle") /\ file[t] # 0
  /\ fs.node[file[t]].mode = "reg" /\ fs.node[file[t]].zone = <<>>
  /\ create_block(t, [Idle EXCEPT !.op = "write"])

Copy(t) ==
  /\ Here(t, "idle") /\ file[t] # 0
  /\ fs.node[file[t]].mode = "reg" /\ fs.node[file[t]].zone # <<>>
  /\ Go(t, fs, [Idle EXCEPT !.op = "write", !.pc = "copy", !.new = Head(fs.node[file[t]].zone)])

Copied(t) == Here(t, "copy") /\ Go(t, fs, Idle)

Paths == {<<a>> : a \in Names} \cup {p \in Names \X Names : p[1] # p[2]}

Lookup(t) == FindNextBlock(t) \/ FindFails(t) \/ Adds(t) \/ FindSucceeds(t)
Use(t) == StaleIget(t) \/ NextName(t) \/ sys_chdir(t) \/ sys_chmod(t) \/ OpenOld(t) \/ LinkOld(t)
sys_unlink(t) == UnlinkFails(t) \/ Unlink(t) \/ Unlinked(t)
sys_rmdir(t) == Rmdir(t) \/ empty_dir(t) \/ RmdirEntry(t) \/ Rmdirred(t)
Create(t) == \/ NewInode(t) \/ FillDir(t) \/ FillFails(t) \/ AddNextBlock(t) \/ AddFails(t)
             \/ AddEntry(t) \/ Linked(t)
Access(t) == sys_close(t) \/ Write(t) \/ Copy(t) \/ Copied(t) \/ BlockMade(t)

Begin(t) ==
  /\ left > 0 /\ left' = left - 1
  /\ \/ \E op \in Ops \ {"link"}, p \in Paths : Call(t, op, p, <<>>)
     \/ "link" \in Ops /\ \E a \in Names, b \in Names : Call(t, "link", <<a>>, <<b>>)

Step(t) == /\ \/ Lookup(t) \/ Use(t) \/ sys_unlink(t) \/ sys_rmdir(t) \/ Create(t) \/ Access(t)
           /\ UNCHANGED left

NameiNext ==
  /\ \E t \in Tasks : Begin(t) \/ Step(t)
  /\ stale' = {t \in Tasks : loc'[t].inr # 0 /\ (t \in stale \/ loc'[t].inr \notin fs'.imap)}

NameiSpec == NameiInit /\ [][NameiNext]_nvars

-----------------------------------------------------------------------------
(* References are given back on every path through every call: i_count is the *)
(* number of tasks that hold the inode - as their file, their directory or in *)
(* a local - and an inode someone holds is not free.                         *)
RefsAccounted == fs.fault = "none" => \A n \in Inodes :
  fs.count[n] = (IF n = ROOT_INO THEN 2 ELSE 0)
    + Cardinality({t \in Tasks : file[t] = n}) + Cardinality({t \in Tasks : pwd[t] = n})
    + Cardinality({t \in Tasks : loc[t].dir = n}) + Cardinality({t \in Tasks : loc[t].ino = n})
    + Cardinality({t \in Tasks : loc[t].old = n})

(* What fsck would ask of the device, whenever no call is under way: the      *)
(* inodes in use are those with an entry or held by a task, links are         *)
(* counted, names are unique, and every block that is marked belongs to one   *)
(* inode, although calls sleep between their steps, and as long as none has   *)
(* acted on an entry, an inode or a block that changed while it slept.       *)
EntriesOf(n) == {e \in Inodes \X (1..(NR_BLOCKS * PER_BLOCK)) :
                   e[2] \in Entries(e[1]) /\ fs.node[e[1]].ent[e[2]].ino = n}
SubDirs(n) == {i \in Entries(n) : fs.node[fs.node[n].ent[i].ino].mode = "dir"}

AllIdle == fs.fault = "none" /\ \A t \in Tasks : loc[t] = Idle

FsckClean == AllIdle =>
  /\ \A n \in fs.imap : LET e == fs.node[n] IN
       /\ e.nlinks = IF e.mode = "dir" /\ (n = ROOT_INO \/ EntriesOf(n) # {})
                     THEN 2 + Cardinality(SubDirs(n)) ELSE Cardinality(EntriesOf(n))
       /\ EntriesOf(n) # {} \/ fs.count[n] > 0
       /\ e.mode = "dir" => Cardinality(EntriesOf(n)) <= 1
       /\ \A i, j \in Entries(n) : e.ent[i].name = e.ent[j].name => i = j
  /\ \A n \in Inodes \ fs.imap : EntriesOf(n) = {} /\ fs.count[n] = 0
  /\ fs.zmap = UNION {ToSet(fs.node[n].zone) : n \in fs.imap}
  /\ \A m, n \in fs.imap : m # n => ToSet(fs.node[m].zone) \cap ToSet(fs.node[n].zone) = {}
=============================================================================
