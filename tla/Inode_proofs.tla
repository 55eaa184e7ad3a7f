---------------------------- MODULE Inode_proofs ----------------------------
(***************************************************************************)
(* Proofs about the inode table, for any finite set of tasks, any size of   *)
(* the table and any number of inodes on the device.                        *)
(*                                                                         *)
(* A step of the model is a chain of operations, each of which takes the    *)
(* file system f and the locals l of a task and yields others: get_empty_   *)
(* inode and then iget, or the end of write_inode and then the loop of      *)
(* iput.  The invariant is therefore an operator of the file system, of the *)
(* locals of all tasks and of the history, and each operation has a lemma   *)
(* that it keeps the invariant; the actions put the lemmas together.        *)
(***************************************************************************)
EXTENDS Inode, SetLemmas

Data == [nlinks : {0, 1}, val : {0, 1}, time : {0, 1}]
Lasts == [data : Data, marked : BOOLEAN]
Inodes == [num : 0..NR_INODES, count : Int, dirt : BOOLEAN, lock : BOOLEAN, data : Data]
Systems == [tab : [Slots -> Inodes], last_inode : Slots, disk : [Numbers -> Data],
            imap : SUBSET Numbers, named : SUBSET Numbers,
            fault : {"none", "stale iget", "No free inodes in mem", "free_inode",
                     "cleared while locked"}]
Locs == [pc : {"idle", "iget", "found", "read", "hold", "put", "write", "written", "truncate",
               "sync"},
         op : {"none", "iget", "new", "sync", "put"}, nr : 0..NR_INODES,
         slot : 0..NR_INODE, empty : 0..NR_INODE]

(* What a task with locals l has: Has of the model; the tasks that have s;    *)
(* and the tasks that have locked the slot they are about.                   *)
HasIn(l, s) == \/ l.empty = s
               \/ l.slot = s /\ (l.pc \in {"hold", "read", "truncate"} \/ l.op = "put")
Holders(lo, s) == {t \in Tasks : HasIn(lo[t], s)}
Locks(l) == l.pc \in {"read", "write", "written"}
ReadsIn(lo, s) == \E t \in Tasks : lo[t].pc = "read" /\ lo[t].slot = s

Types(f, lo, la) == f \in Systems /\ lo \in [Tasks -> Locs] /\ la \in [Numbers -> Lasts]

(* What the locals of a task are at each point; and that it has the lock     *)
(* there, that read_inode is about the inode asked for, and that an inode    *)
(* that is being truncated keeps no link.  No task is asleep in              *)
(* get_empty_inode.                                                         *)
Local(f, l) ==
  /\ l.pc = "idle" => l.op \in {"none", "new", "sync"}
  /\ l.pc \in {"iget", "found", "read"} => l.op = "iget" /\ l.nr # 0
  /\ l.pc = "hold" => l.op \in {"iget", "new"}
  /\ l.pc \in {"write", "written"} => l.op \in {"put", "sync"}
  /\ l.pc \in {"put", "truncate"} => l.op = "put"
  /\ l.pc = "sync" => l.op = "sync"
  /\ l.pc \in {"read", "hold", "write", "written", "put", "truncate", "sync"}
       => l.slot # 0 /\ l.empty = 0
  /\ l.pc = "found" => l.slot # 0 /\ l.empty # 0
  /\ l.pc = "read" => f.tab[l.slot].num = l.nr
  /\ Locks(l) => f.tab[l.slot].lock
  /\ l.pc = "truncate" => f.tab[l.slot].data.nlinks = 0
Locals(f, lo) == \A t \in Tasks : Local(f, lo[t])

(* A lock has one owner.                                                     *)
Owned(lo) == \A t, u \in Tasks : Locks(lo[t]) /\ Locks(lo[u]) /\ lo[t].slot = lo[u].slot => t = u

(* The first part of SlotsAccounted, and the second, with the links: a slot   *)
(* that no one has holds no inode that should have been freed.               *)
Counted(f, lo) == \A s \in Slots : f.tab[s].count = Cardinality(Holders(lo, s))
Resting(f) == \A s \in Slots : f.tab[s].count = 0 =>
  ~f.tab[s].dirt /\ ~f.tab[s].lock /\ (f.tab[s].num # 0 => f.tab[s].data.nlinks # 0)

(* A slot from get_empty_inode is one task's alone; any other that a task     *)
(* has, and any that is dirty or locked, holds an inode.                     *)
InUse(f, lo) == \A t \in Tasks, s \in Slots : HasIn(lo[t], s) =>
  IF lo[t].empty = s THEN f.tab[s].num = 0 /\ f.tab[s].count = 1 ELSE f.tab[s].num # 0
Numbered(f) == \A s \in Slots : f.tab[s].dirt \/ f.tab[s].lock => f.tab[s].num # 0

(* OneSlotPerInode; and the inodes in the table are allocated.               *)
Once(f) == \A s, u \in Slots : s # u /\ f.tab[s].num # 0 => f.tab[s].num # f.tab[u].num
Mapped(f) == \A s \in Slots : f.tab[s].num # 0 => f.tab[s].num \in f.imap

(* No one else has an inode while it is being read.                          *)
Alone(lo) == \A t, u \in Tasks : lo[t].pc = "read" /\ HasIn(lo[u], lo[t].slot) => u = t

(* The rest of NoLostInode, and that an inode that is not dirty is the same   *)
(* on the disk up to times that were not marked, unless it has no link: mkdir *)
(* and mknod drop the link of one they cannot enter without making it dirty,  *)
(* and iput frees it.                                                        *)
Fresh(f, lo, la) == \A s \in Slots : f.tab[s].num # 0 /\ ~ReadsIn(lo, s) =>
  /\ Same(f.tab[s].data, la[f.tab[s].num])
  /\ ~f.tab[s].dirt /\ f.tab[s].data.nlinks # 0 => Same(f.disk[f.tab[s].num], la[f.tab[s].num])
OnDisk(f, lo, la) == \A n \in f.imap :
  (\A s \in Slots : f.tab[s].num = n => ReadsIn(lo, s)) => Same(f.disk[n], la[n])

(* FreedAtLast, and that an inode with a link but without a name is one that  *)
(* its maker has not entered yet.                                            *)
Named(f, la) == \A n \in f.named : n \in f.imap /\ la[n].data.nlinks # 0
Kept(f, lo) == \A n \in f.imap \ f.named :
  \E t \in Tasks, s \in Slots : HasIn(lo[t], s) /\ f.tab[s].num = n
NewKept(f, lo, la) == \A n \in f.imap \ f.named : la[n].data.nlinks # 0 =>
  \E t \in Tasks : lo[t].pc = "hold" /\ lo[t].op = "new" /\ f.tab[lo[t].slot].num = n

InvOf(f, lo, la) ==
  /\ Types(f, lo, la) /\ Locals(f, lo) /\ Owned(lo) /\ Counted(f, lo) /\ Resting(f)
  /\ InUse(f, lo) /\ Numbered(f) /\ Once(f) /\ Mapped(f) /\ Alone(lo)
  /\ Fresh(f, lo, la) /\ OnDisk(f, lo, la) /\ Named(f, la) /\ Kept(f, lo) /\ NewKept(f, lo, la)

(* The inductive invariant: between two steps a task outside iget and        *)
(* new_inode has no empty slot in hand.                                      *)
Settled(l) == l.pc \in {"idle", "iget"} => l.empty = 0
Sound(f, lo, la) == Once(f) /\ (f.fault = "none" => InvOf(f, lo, la) /\ \A t \in Tasks : Settled(lo[t]))
IInv == Sound(fs, loc, latest)

-----------------------------------------------------------------------------
(* The numbers of slots and inodes, and the entry of a slot that is free or    *)
(* just taken.                                                               *)
LEMMA Domains ==
  /\ NR_INODE \in Nat /\ NR_INODES \in Nat /\ 0 \notin Slots /\ 0 \notin Numbers
  /\ Slots \in SUBSET Nat /\ Numbers \in SUBSET Nat /\ 1 \in Slots
  /\ 0..NR_INODE = Slots \cup {0} /\ 0..NR_INODES = Numbers \cup {0}
  BY InodeAssumption DEF Slots, Numbers

LEMMA ZeroEntry ==
  ASSUME NEW c \in Int
  PROVE  LET z == [Zero EXCEPT !.count = c]
         IN  /\ z \in Inodes /\ z.num = 0 /\ z.count = c /\ ~z.dirt /\ ~z.lock
             /\ z.data \in Data
  BY Domains DEF Zero, Blank, Data, Inodes

(* One task's locals change: what that does to the number of holders.        *)
MovedTo(lo, ko, t, m) == lo \in [Tasks -> Locs] /\ m \in Locs /\ ko = [lo EXCEPT ![t] = m]

LEMMA HoldersMoved ==
  ASSUME NEW lo, NEW ko, NEW t \in Tasks, NEW m, NEW s, MovedTo(lo, ko, t, m)
  PROVE  /\ Cardinality(Holders(lo, s)) \in Nat
         /\ Cardinality(Holders(ko, s)) =
              Cardinality(Holders(lo, s)) - (IF HasIn(lo[t], s) THEN 1 ELSE 0)
                                          + (IF HasIn(m, s) THEN 1 ELSE 0)
<1> DEFINE H == Holders(lo, s)
           K == Holders(ko, s)
<1> USE DEF MovedTo
<1>1. IsFiniteSet(H) /\ (t \in H <=> HasIn(lo[t], s))
  BY InodeAssumption, FS_Subset DEF Holders
<1>2. K = IF HasIn(m, s) THEN H \cup {t} ELSE H \ {t}
  <2>1. \A u \in Tasks : ko[u] = IF u = t THEN m ELSE lo[u]
    OBVIOUS
  <2>2. \A u \in Tasks : u \in K <=> IF u = t THEN HasIn(m, s) ELSE u \in H
    BY <2>1 DEF Holders
  <2>3. K \subseteq Tasks /\ H \subseteq Tasks
    BY DEF Holders
  <2> QED
    BY <2>2, <2>3
<1> HIDE DEF H, K
<1>3. /\ Cardinality(H) \in Nat
      /\ Cardinality(H \cup {t}) = Cardinality(H) + 1 - (IF t \in H THEN 1 ELSE 0)
      /\ Cardinality(H \ {t}) = Cardinality(H) - (IF t \in H THEN 1 ELSE 0)
  BY <1>1, CardinalityStep
<1> QED
  BY <1>1, <1>2, <1>3 DEF H, K

(* What the number of holders says about them.                               *)
LEMMA HolderCount ==
  ASSUME NEW lo \in [Tasks -> Locs], NEW s
  PROVE  /\ Cardinality(Holders(lo, s)) \in Nat
         /\ Cardinality(Holders(lo, s)) = 0 => \A t \in Tasks : ~HasIn(lo[t], s)
         /\ \A t \in Tasks : HasIn(lo[t], s) => Cardinality(Holders(lo, s)) >= 1
         /\ \A t, u \in Tasks : Cardinality(Holders(lo, s)) = 1 /\ HasIn(lo[t], s) /\ HasIn(lo[u], s) => t = u
         /\ \A t \in Tasks : Cardinality(Holders(lo, s)) > 1 =>
              \E u \in Tasks : u # t /\ HasIn(lo[u], s)
<1> DEFINE H == Holders(lo, s)
<1>1. IsFiniteSet(H) /\ \A t \in Tasks : t \in H <=> HasIn(lo[t], s)
  BY InodeAssumption, FS_Subset DEF Holders
<1>2. H \subseteq Tasks
  BY DEF Holders
<1> HIDE DEF H
<1>3. Cardinality(H) \in Nat /\ (Cardinality(H) = 0 <=> H = {})
  BY <1>1, FS_CardinalityType, FS_EmptySet
<1>4. ASSUME NEW t \in Tasks, NEW u \in Tasks, t \in H, u \in H, Cardinality(H) = 1 PROVE t = u
  <2>1. Cardinality(H \ {t}) = 0 /\ IsFiniteSet(H \ {t})
    BY <1>1, <1>4, CardinalityStep
  <2> QED
    BY <1>4, <2>1, FS_EmptySet
<1>5. ASSUME NEW t \in Tasks, Cardinality(H) > 1 PROVE \E u \in Tasks : u # t /\ u \in H
  <2>1. IsFiniteSet(H \ {t}) /\ Cardinality(H \ {t}) # 0
    <3>1. /\ IsFiniteSet(H \ {t})
          /\ Cardinality(H \ {t}) = Cardinality(H) - (IF t \in H THEN 1 ELSE 0)
      BY <1>1, CardinalityStep
    <3> QED
      BY <1>3, <1>5, <3>1
  <2>2. H \ {t} # {}
    BY <2>1, FS_EmptySet
  <2> QED
    BY <1>2, <2>2
<1> QED
  BY <1>1, <1>3, <1>4, <1>5 DEF H

-----------------------------------------------------------------------------
(* get_empty_inode takes a slot s that no one has: its inode leaves the       *)
(* table, and the disk has what it held.                                     *)
Emptied(f, s) == [f EXCEPT !.last_inode = s, !.tab[s] = [Zero EXCEPT !.count = 1]]
InHand(l, s) == [l EXCEPT !.empty = s, !.slot = 0]

LEMMA TakeKeeps ==
  ASSUME NEW f, NEW lo, NEW la, InvOf(f, lo, la), NEW t \in Tasks, NEW s \in Slots,
         f.tab[s].count = 0,
         lo[t].pc = "iget" \/ (lo[t].pc = "idle" /\ lo[t].op = "new"), lo[t].empty = 0
  PROVE  InvOf(Emptied(f, s), [lo EXCEPT ![t] = InHand(lo[t], s)], la)
<1> DEFINE g == Emptied(f, s)
           m == InHand(lo[t], s)
           ko == [lo EXCEPT ![t] = m]
<1>1. f \in Systems /\ lo \in [Tasks -> Locs] /\ la \in [Numbers -> Lasts]
  BY DEF InvOf, Types
<1>2. /\ m \in Locs /\ m.pc = lo[t].pc /\ m.op = lo[t].op /\ m.nr = lo[t].nr /\ m.slot = 0 /\ m.empty = s
  BY <1>1, Domains DEF InHand, Locs
<1>3. ko \in [Tasks -> Locs] /\ \A u \in Tasks : ko[u] = IF u = t THEN m ELSE lo[u]
  BY <1>1, <1>2
<1>4. /\ g \in Systems /\ g.disk = f.disk /\ g.imap = f.imap /\ g.named = f.named
      /\ \A u \in Slots : u # s => g.tab[u] = f.tab[u]
      /\ g.tab[s].num = 0 /\ g.tab[s].count = 1 /\ ~g.tab[s].dirt /\ ~g.tab[s].lock
  <2> DEFINE z == [Zero EXCEPT !.count = 1]
  <2>1. z \in Inodes /\ z.num = 0 /\ z.count = 1 /\ ~z.dirt /\ ~z.lock
    BY ZeroEntry
  <2> HIDE DEF z
  <2>2. g = [f EXCEPT !.last_inode = s, !.tab[s] = z]
    BY DEF Emptied, z
  <2> QED
    <3> DEFINE b == [f.tab EXCEPT ![s] = z]
    <3>1. f.tab \in [Slots -> Inodes] /\ f = [tab |-> f.tab, last_inode |-> f.last_inode, disk |-> f.disk, imap |-> f.imap, named |-> f.named, fault |-> f.fault]
      BY <1>1 DEF Systems
    <3>2. b \in [Slots -> Inodes] /\ b[s] = z /\ \A u \in Slots : u # s => b[u] = f.tab[u]
      BY <2>1, <3>1
    <3>3. g = [f EXCEPT !.last_inode = s, !.tab = b]
      BY <2>2, <3>1
    <3> HIDE DEF g, b
    <3>4. g \in Systems /\ g.disk = f.disk /\ g.imap = f.imap /\ g.named = f.named /\ g.tab = b
      BY <1>1, <3>2, <3>3 DEF Systems
    <3> QED
      BY <2>1, <3>2, <3>4
<1> HIDE DEF g, m, ko
<1>5. \A u \in Tasks : ~HasIn(lo[u], s)
  BY <1>1, HolderCount DEF InvOf, Counted
<1>6. /\ ~f.tab[s].dirt /\ ~f.tab[s].lock /\ (f.tab[s].num # 0 => f.tab[s].data.nlinks # 0)
      /\ \A x \in Slots : ReadsIn(lo, x) <=> ReadsIn(ko, x)
      /\ \A x \in Slots : HasIn(m, x) <=> x = s
      /\ \A x \in Slots : ~HasIn(lo[t], x)
  <2>1. \A x \in Slots : ReadsIn(lo, x) <=> ReadsIn(ko, x)
    BY <1>2, <1>3 DEF ReadsIn
  <2>2. \A x \in Slots : HasIn(m, x) <=> x = s
    BY <1>2, Domains DEF HasIn, InvOf, Locals, Local
  <2>3. \A x \in Slots : ~HasIn(lo[t], x)
    BY Domains DEF HasIn, InvOf, Locals, Local
  <2> QED
    BY <2>1, <2>2, <2>3 DEF InvOf, Resting
<1>7. Types(g, ko, la)
  BY <1>1, <1>3, <1>4 DEF Types
<1>8. Locals(g, ko)
  <2>1. Local(g, m)
    BY <1>2 DEF InvOf, Locals, Local, Locks
  <2>2. ASSUME NEW u \in Tasks, u # t PROVE Local(g, lo[u])
    <3>1. Local(f, lo[u]) /\ lo[u] \in Locs
      BY <1>1 DEF InvOf, Locals
    <3>2. lo[u].pc \in {"read", "write", "written", "truncate"} => lo[u].slot \in Slots /\ lo[u].slot # s
      BY <1>5, <1>6, <3>1, Domains DEF Local, Locs, Locks, HasIn
    <3> QED
      BY <1>4, <3>1, <3>2 DEF Local, Locks
  <2> QED
    BY <1>3, <2>1, <2>2 DEF Locals
<1>9. Owned(ko) /\ Alone(ko)
  BY <1>2, <1>3, <1>5, <1>6 DEF InvOf, Owned, Alone, Locks, HasIn
<1>10. Counted(g, ko)
  <2>1. ASSUME NEW x \in Slots
        PROVE Cardinality(Holders(ko, x)) = Cardinality(Holders(lo, x)) + (IF x = s THEN 1 ELSE 0)
              /\ Cardinality(Holders(lo, x)) \in Nat
    <3>1. /\ Cardinality(Holders(lo, x)) \in Nat
          /\ Cardinality(Holders(ko, x)) =
               Cardinality(Holders(lo, x)) - (IF HasIn(lo[t], x) THEN 1 ELSE 0) + (IF HasIn(m, x) THEN 1 ELSE 0)
      <4>1. MovedTo(lo, ko, t, m)
        BY <1>1, <1>2 DEF MovedTo, ko
      <4> QED
        BY <4>1, HoldersMoved
    <3> QED
      BY <1>6, <3>1
  <2> QED
    BY <1>4, <2>1 DEF InvOf, Counted
<1>11. Resting(g) /\ Numbered(g) /\ Once(g) /\ Mapped(g) /\ Named(g, la)
  BY <1>4 DEF InvOf, Resting, Numbered, Once, Mapped, Named
<1>12. InUse(g, ko)
  BY <1>2, <1>3, <1>4, <1>5, <1>6 DEF InvOf, InUse
<1>13. Fresh(g, ko, la)
  BY <1>4, <1>6 DEF InvOf, Fresh
<1>14. OnDisk(g, ko, la)
  <2> SUFFICES ASSUME NEW n \in f.imap, \A x \in Slots : g.tab[x].num = n => ReadsIn(ko, x)
               PROVE  Same(f.disk[n], la[n])
    BY <1>4 DEF OnDisk
  <2>1. CASE f.tab[s].num = n
    <3>1. ~ReadsIn(lo, s)
      BY <1>5 DEF ReadsIn, HasIn
    <3>2. n # 0
      BY <1>1, Domains DEF Systems
    <3> QED
      BY <1>6, <2>1, <3>1, <3>2 DEF InvOf, Fresh
  <2>2. CASE f.tab[s].num # n
    BY <1>4, <1>6, <2>2 DEF InvOf, OnDisk
  <2> QED
    BY <2>1, <2>2
<1>15. Kept(g, ko)
  BY <1>3, <1>4, <1>5, <1>6 DEF InvOf, Kept
<1>16. NewKept(g, ko, la)
  <2> SUFFICES ASSUME NEW n \in f.imap \ f.named, la[n].data.nlinks # 0
               PROVE  \E u \in Tasks : ko[u].pc = "hold" /\ ko[u].op = "new" /\ g.tab[ko[u].slot].num = n
    BY <1>4 DEF NewKept
  <2>1. PICK u \in Tasks : lo[u].pc = "hold" /\ lo[u].op = "new" /\ f.tab[lo[u].slot].num = n
    BY DEF InvOf, NewKept
  <2>2. u # t /\ lo[u].slot \in Slots /\ lo[u].slot # s
    BY <1>1, <1>5, <2>1, Domains DEF InvOf, Locals, Local, Locs, HasIn
  <2> QED
    BY <1>3, <1>4, <2>1, <2>2
<1> QED
  BY <1>7, <1>8, <1>9, <1>10, <1>11, <1>12, <1>13, <1>14, <1>15, <1>16 DEF InvOf, g, ko, m

(* One entry of the table is set.                                            *)
TabSet(f, g, s, z) ==
  /\ g \in Systems /\ g.disk = f.disk /\ g.imap = f.imap /\ g.named = f.named /\ g.fault = f.fault
  /\ g.tab[s] = z /\ \A x \in Slots : x # s => g.tab[x] = f.tab[x]

LEMMA TabSetBy ==
  ASSUME NEW f \in Systems, NEW s \in Slots, NEW z \in Inodes
  PROVE  TabSet(f, [f EXCEPT !.tab[s] = z], s, z)
<1> DEFINE b == [f.tab EXCEPT ![s] = z]
           g == [f EXCEPT !.tab[s] = z]
<1>1. f.tab \in [Slots -> Inodes]
  BY DEF Systems
<1>2. b \in [Slots -> Inodes] /\ b[s] = z /\ \A x \in Slots : x # s => b[x] = f.tab[x]
  BY <1>1
<1>3. g = [f EXCEPT !.tab = b]
  BY <1>1
<1> HIDE DEF g, b
<1>4. /\ g \in Systems /\ g.disk = f.disk /\ g.imap = f.imap /\ g.named = f.named /\ g.fault = f.fault
      /\ g.tab = b
  BY <1>2, <1>3 DEF Systems
<1> QED
  BY <1>2, <1>4 DEF TabSet, g

(* iget reads the inode into the slot in hand.                               *)
ReadInto(f, l) == [f EXCEPT !.tab[l.empty].num = l.nr, !.tab[l.empty].lock = TRUE]
Reading(l) == [l EXCEPT !.pc = "read", !.slot = l.empty, !.empty = 0]

LEMMA ReadIntoKeeps ==
  ASSUME NEW f, NEW lo, NEW la, InvOf(f, lo, la), NEW t \in Tasks,
         lo[t].pc \in {"iget", "found"}, lo[t].empty # 0, lo[t].nr \in f.imap,
         \A s \in Slots : f.tab[s].num # lo[t].nr
  PROVE  InvOf(ReadInto(f, lo[t]), [lo EXCEPT ![t] = Reading(lo[t])], la)
<1> DEFINE l == lo[t]
           e == l.empty
           n == l.nr
           z == [f.tab[e] EXCEPT !.num = n, !.lock = TRUE]
           g == ReadInto(f, l)
           m == Reading(l)
           ko == [lo EXCEPT ![t] = m]
<1>1. f \in Systems /\ lo \in [Tasks -> Locs] /\ la \in [Numbers -> Lasts] /\ l \in Locs
  BY DEF InvOf, Types
<1>2. e \in Slots /\ n \in Numbers /\ n # 0 /\ l.op = "iget"
  BY <1>1, Domains DEF Locs, InvOf, Locals, Local
<1>3. /\ m \in Locs /\ m.pc = "read" /\ m.op = "iget" /\ m.nr = n /\ m.slot = e /\ m.empty = 0
  BY <1>1, <1>2, Domains DEF Reading, Locs
<1>4. ko \in [Tasks -> Locs] /\ \A u \in Tasks : ko[u] = IF u = t THEN m ELSE lo[u]
  BY <1>1, <1>3
<1>5. f.tab[e].num = 0 /\ f.tab[e].count = 1 /\ ~f.tab[e].dirt /\ ~f.tab[e].lock
      /\ \A u \in Tasks : HasIn(lo[u], e) => u = t
  <2>1. HasIn(l, e)
    BY DEF HasIn
  <2>2. f.tab[e].num = 0 /\ f.tab[e].count = 1
    BY <1>2, <2>1 DEF InvOf, InUse
  <2> QED
    BY <1>1, <1>2, <2>1, <2>2, HolderCount DEF InvOf, Numbered, Counted
<1>6. /\ z \in Inodes /\ z.num = n /\ z.count = 1 /\ z.dirt = f.tab[e].dirt /\ z.lock
      /\ z.data = f.tab[e].data
  <2>1. f.tab[e] \in Inodes
    BY <1>1, <1>2 DEF Systems
  <2> QED
    BY <1>2, <1>5, <2>1, Domains DEF Inodes
<1>7. TabSet(f, g, e, z)
  <2>1. g = [f EXCEPT !.tab[e] = z]
    BY <1>1, <1>2 DEF ReadInto, Systems
  <2> HIDE DEF z, g, e
  <2> QED
    BY <1>1, <1>2, <1>6, <2>1, TabSetBy
<1> HIDE DEF g, m, ko, z, n, e
<1> USE DEF TabSet
<1>8. /\ \A x \in Slots : x # e => (ReadsIn(lo, x) <=> ReadsIn(ko, x))
      /\ ReadsIn(ko, e)
      /\ \A x \in Slots : HasIn(m, x) <=> x = e
      /\ \A x \in Slots : HasIn(l, x) <=> x = e
      /\ l = lo[t] /\ ~Locks(l) /\ l.pc # "hold"
  BY <1>2, <1>3, <1>4, Domains DEF ReadsIn, HasIn, e, Locks
<1>9. Types(g, ko, la)
  BY <1>1, <1>4, <1>7 DEF Types
<1> HIDE DEF l
<1>10. Locals(g, ko)
  <2>1. Local(g, m)
    BY <1>2, <1>3, <1>6, <1>7, Domains DEF Local, Locks
  <2>2. ASSUME NEW u \in Tasks, u # t PROVE Local(g, lo[u])
    <3>1. Local(f, lo[u]) /\ lo[u] \in Locs
      BY <1>1 DEF InvOf, Locals
    <3>2. lo[u].pc \in {"read", "write", "written", "truncate"} => lo[u].slot \in Slots /\ lo[u].slot # e
      BY <1>5, <2>2, <3>1, Domains DEF Local, Locs, Locks, HasIn
    <3> QED
      BY <1>7, <3>1, <3>2 DEF Local, Locks
  <2> QED
    BY <1>4, <2>1, <2>2 DEF Locals
<1>11. Owned(ko)
  <2>1. ASSUME NEW u \in Tasks, u # t, Locks(lo[u]) PROVE lo[u].slot # e
    BY <1>5, <2>1 DEF InvOf, Locals, Local
  <2> QED
    BY <1>3, <1>4, <2>1 DEF InvOf, Owned
<1>12. Alone(ko)
  <2>1. \A u \in Tasks : lo[u].pc = "read" => lo[u].slot \in Slots
    BY <1>1, Domains DEF InvOf, Locals, Local, Locs
  <2> QED
    BY <1>3, <1>4, <1>5, <1>8, <2>1 DEF InvOf, Alone, HasIn
<1>13. Counted(g, ko)
  <2>1. ASSUME NEW x \in Slots PROVE Cardinality(Holders(ko, x)) = Cardinality(Holders(lo, x))
    <3>1. /\ Cardinality(Holders(lo, x)) \in Nat
          /\ Cardinality(Holders(ko, x)) =
               Cardinality(Holders(lo, x)) - (IF HasIn(l, x) THEN 1 ELSE 0) + (IF HasIn(m, x) THEN 1 ELSE 0)
      <4>1. MovedTo(lo, ko, t, m)
        BY <1>1, <1>3 DEF MovedTo, ko, l
      <4> QED
        BY <4>1, HoldersMoved DEF l
    <3> QED
      BY <1>8, <3>1
  <2> QED
    BY <1>5, <1>6, <1>7, <2>1 DEF InvOf, Counted
<1>14. Resting(g) /\ Numbered(g) /\ Once(g) /\ Mapped(g) /\ Named(g, la)
  BY <1>2, <1>6, <1>7 DEF InvOf, Resting, Numbered, Once, Mapped, Named, n, l
<1>15. InUse(g, ko)
  BY <1>2, <1>3, <1>4, <1>5, <1>6, <1>7, <1>8, Domains DEF InvOf, InUse
<1>16. Fresh(g, ko, la)
  BY <1>7, <1>8 DEF InvOf, Fresh
<1>17. OnDisk(g, ko, la)
  <2> SUFFICES ASSUME NEW k \in f.imap, \A x \in Slots : g.tab[x].num = k => ReadsIn(ko, x)
               PROVE  Same(f.disk[k], la[k])
    BY <1>7 DEF OnDisk
  <2>1. k # 0
    BY <1>1, Domains DEF Systems
  <2>2. ASSUME NEW x \in Slots, f.tab[x].num = k PROVE ReadsIn(lo, x)
    BY <1>5, <1>7, <1>8, <2>1, <2>2
  <2> QED
    BY <2>2 DEF InvOf, OnDisk
<1>18. Kept(g, ko)
  <2> SUFFICES ASSUME NEW k \in f.imap \ f.named
               PROVE  \E u \in Tasks, x \in Slots : HasIn(ko[u], x) /\ g.tab[x].num = k
    BY <1>7 DEF Kept
  <2>1. PICK u \in Tasks, x \in Slots : HasIn(lo[u], x) /\ f.tab[x].num = k
    BY DEF InvOf, Kept
  <2>2. k # 0
    BY <1>1, Domains DEF Systems
  <2>3. x # e
    BY <1>5, <2>1, <2>2
  <2> QED
    BY <1>4, <1>7, <1>8, <2>1, <2>3
<1>19. NewKept(g, ko, la)
  <2> SUFFICES ASSUME NEW k \in f.imap \ f.named, la[k].data.nlinks # 0
               PROVE  \E u \in Tasks : ko[u].pc = "hold" /\ ko[u].op = "new" /\ g.tab[ko[u].slot].num = k
    BY <1>7 DEF NewKept
  <2>1. PICK u \in Tasks : lo[u].pc = "hold" /\ lo[u].op = "new" /\ f.tab[lo[u].slot].num = k
    BY DEF InvOf, NewKept
  <2>2. u # t /\ lo[u].slot \in Slots /\ lo[u].slot # e
    BY <1>1, <1>5, <1>8, <2>1, Domains DEF InvOf, Locals, Local, Locs, HasIn
  <2> QED
    BY <1>4, <1>7, <2>1, <2>2
<1> QED
  BY <1>9, <1>10, <1>11, <1>12, <1>13, <1>14, <1>15, <1>16, <1>17, <1>18, <1>19 DEF InvOf, g, ko, m, l

(* iget finds the inode, unlocked, in slot s, and gives the slot in hand back. *)
Sharing(f, l, s) == [f EXCEPT !.tab[s].count = @ + 1, !.tab[l.empty].count = 0]
Shared(l, s) == [l EXCEPT !.pc = "hold", !.slot = s, !.empty = 0]

LEMMA SharingKeeps ==
  ASSUME NEW f, NEW lo, NEW la, InvOf(f, lo, la), NEW t \in Tasks, NEW s \in Slots,
         lo[t].pc \in {"iget", "found"}, lo[t].empty # 0,
         f.tab[s].num = lo[t].nr, ~f.tab[s].lock
  PROVE  /\ InvOf(Sharing(f, lo[t], s), [lo EXCEPT ![t] = Shared(lo[t], s)], la)
         /\ Sharing(f, lo[t], s).imap = f.imap /\ Sharing(f, lo[t], s).fault = f.fault
<1> DEFINE l == lo[t]
           e == l.empty
           y == [f.tab[s] EXCEPT !.count = @ + 1]
           z == [f.tab[e] EXCEPT !.count = 0]
           h == [f EXCEPT !.tab[s] = y]
           g == Sharing(f, l, s)
           m == Shared(l, s)
           ko == [lo EXCEPT ![t] = m]
<1>1. f \in Systems /\ lo \in [Tasks -> Locs] /\ la \in [Numbers -> Lasts] /\ l \in Locs
  BY DEF InvOf, Types
<1>2. e \in Slots /\ f.tab[s].num # 0 /\ l.op = "iget" /\ f.tab[e] \in Inodes /\ f.tab[s] \in Inodes
  BY <1>1, Domains DEF Locs, InvOf, Locals, Local, Systems
<1>3. /\ m \in Locs /\ m.pc = "hold" /\ m.op = "iget" /\ m.slot = s /\ m.empty = 0
  BY <1>1, <1>2, Domains DEF Shared, Locs
<1>4. ko \in [Tasks -> Locs] /\ \A u \in Tasks : ko[u] = IF u = t THEN m ELSE lo[u]
  BY <1>1, <1>3
<1>5. f.tab[e].num = 0 /\ f.tab[e].count = 1 /\ ~f.tab[e].dirt /\ ~f.tab[e].lock /\ e # s
      /\ \A u \in Tasks : HasIn(lo[u], e) => u = t
  <2>1. HasIn(l, e)
    BY DEF HasIn
  <2>2. f.tab[e].num = 0 /\ f.tab[e].count = 1
    BY <1>2, <2>1 DEF InvOf, InUse
  <2> QED
    BY <1>1, <1>2, <2>1, <2>2, HolderCount DEF InvOf, Numbered, Counted
<1>6. /\ y \in Inodes /\ y.num = f.tab[s].num /\ y.count = f.tab[s].count + 1 /\ y.dirt = f.tab[s].dirt
      /\ ~y.lock /\ y.data = f.tab[s].data
      /\ z \in Inodes /\ z.num = 0 /\ z.count = 0 /\ ~z.dirt /\ ~z.lock /\ z.data = f.tab[e].data
  BY <1>2, <1>5 DEF Inodes
<1>7. TabSet(f, h, s, y) /\ TabSet(h, g, e, z)
  <2>1. g = [h EXCEPT !.tab[e] = z]
    BY <1>1, <1>2, <1>5 DEF Sharing, Systems
  <2> HIDE DEF z, y, g, e
  <2>2. TabSet(f, h, s, y)
    BY <1>1, <1>6, TabSetBy
  <2>3. h \in Systems
    BY <2>2 DEF TabSet
  <2> HIDE DEF h
  <2> QED
    BY <1>2, <1>6, <2>1, <2>2, <2>3, TabSetBy
<1>8. /\ g \in Systems /\ g.disk = f.disk /\ g.imap = f.imap /\ g.named = f.named /\ g.fault = f.fault
      /\ g.tab[s] = y /\ g.tab[e] = z /\ \A x \in Slots : x # s /\ x # e => g.tab[x] = f.tab[x]
  BY <1>2, <1>5, <1>7 DEF TabSet
<1> HIDE DEF g, h, m, ko, z, y, e
<1>9. /\ \A x \in Slots : ReadsIn(lo, x) <=> ReadsIn(ko, x)
      /\ \A x \in Slots : HasIn(m, x) <=> x = s
      /\ \A x \in Slots : HasIn(l, x) <=> x = e
      /\ l = lo[t] /\ ~Locks(l) /\ l.pc # "hold" /\ ~Locks(m)
  BY <1>2, <1>3, <1>4, Domains DEF ReadsIn, HasIn, e, Locks
<1>10. Types(g, ko, la)
  BY <1>1, <1>4, <1>8 DEF Types
<1> HIDE DEF l
<1>11. Locals(g, ko)
  <2>1. Local(g, m)
    BY <1>3, Domains DEF Local, Locks
  <2>2. ASSUME NEW u \in Tasks, u # t PROVE Local(g, lo[u])
    <3>1. Local(f, lo[u]) /\ lo[u] \in Locs
      BY <1>1 DEF InvOf, Locals
    <3>2. lo[u].pc \in {"read", "write", "written", "truncate"} => lo[u].slot \in Slots /\ lo[u].slot # e
      BY <1>5, <2>2, <3>1, Domains DEF Local, Locs, Locks, HasIn
    <3> QED
      BY <1>6, <1>8, <3>1, <3>2 DEF Local, Locks
  <2> QED
    BY <1>4, <2>1, <2>2 DEF Locals
<1>12. Owned(ko)
  BY <1>4, <1>9 DEF InvOf, Owned
<1>13. Alone(ko)
  <2>1. \A u \in Tasks : lo[u].pc = "read" => lo[u].slot \in Slots /\ lo[u].slot # s
    BY <1>1, Domains DEF InvOf, Locals, Local, Locs, Locks
  <2> QED
    BY <1>3, <1>4, <1>9, <2>1 DEF InvOf, Alone
<1>14. Counted(g, ko)
  <2>1. ASSUME NEW x \in Slots
        PROVE /\ Cardinality(Holders(lo, x)) \in Nat
              /\ Cardinality(Holders(ko, x)) = Cardinality(Holders(lo, x))
                   - (IF x = e THEN 1 ELSE 0) + (IF x = s THEN 1 ELSE 0)
    <3>1. /\ Cardinality(Holders(lo, x)) \in Nat
          /\ Cardinality(Holders(ko, x)) =
               Cardinality(Holders(lo, x)) - (IF HasIn(l, x) THEN 1 ELSE 0) + (IF HasIn(m, x) THEN 1 ELSE 0)
      <4>1. MovedTo(lo, ko, t, m)
        BY <1>1, <1>3 DEF MovedTo, ko, l
      <4> QED
        BY <4>1, HoldersMoved DEF l
    <3> QED
      BY <1>9, <3>1
  <2> QED
    BY <1>5, <1>6, <1>8, <2>1 DEF InvOf, Counted
<1>15. Resting(g)
  <2>1. f.tab[s].count + 1 # 0
    BY <1>1, HolderCount DEF InvOf, Counted
  <2> QED
    BY <1>6, <1>8, <2>1 DEF InvOf, Resting
<1>16. Numbered(g) /\ Once(g) /\ Mapped(g) /\ Named(g, la)
  BY <1>5, <1>6, <1>8 DEF InvOf, Numbered, Once, Mapped, Named
<1>17. InUse(g, ko)
  BY <1>2, <1>3, <1>4, <1>5, <1>6, <1>8, <1>9, Domains DEF InvOf, InUse
<1>18. Fresh(g, ko, la)
  BY <1>6, <1>8, <1>9 DEF InvOf, Fresh
<1>19. OnDisk(g, ko, la)
  BY <1>5, <1>6, <1>8, <1>9 DEF InvOf, OnDisk
<1>20. Kept(g, ko)
  <2> SUFFICES ASSUME NEW k \in f.imap \ f.named
               PROVE  \E u \in Tasks, x \in Slots : HasIn(ko[u], x) /\ g.tab[x].num = k
    BY <1>8 DEF Kept
  <2>1. PICK u \in Tasks, x \in Slots : HasIn(lo[u], x) /\ f.tab[x].num = k
    BY DEF InvOf, Kept
  <2>2. k # 0
    BY <1>1, Domains DEF Systems
  <2>3. x # e
    BY <1>5, <2>1, <2>2
  <2> QED
    BY <1>4, <1>6, <1>8, <1>9, <2>1, <2>3
<1>21. NewKept(g, ko, la)
  <2> SUFFICES ASSUME NEW k \in f.imap \ f.named, la[k].data.nlinks # 0
               PROVE  \E u \in Tasks : ko[u].pc = "hold" /\ ko[u].op = "new" /\ g.tab[ko[u].slot].num = k
    BY <1>8 DEF NewKept
  <2>1. PICK u \in Tasks : lo[u].pc = "hold" /\ lo[u].op = "new" /\ f.tab[lo[u].slot].num = k
    BY DEF InvOf, NewKept
  <2>2. u # t /\ lo[u].slot \in Slots /\ lo[u].slot # e
    BY <1>1, <1>5, <1>9, <2>1, Domains DEF InvOf, Locals, Local, Locs, HasIn
  <2> QED
    BY <1>4, <1>6, <1>8, <2>1, <2>2
<1> QED
  BY <1>8, <1>10, <1>11, <1>12, <1>13, <1>14, <1>15, <1>16, <1>17, <1>18, <1>19, <1>20, <1>21 DEF InvOf, g, ko, m, l

(* The locals of a task change, and not what it has: it waits for a lock or   *)
(* stops to, begins iput, goes to truncate, or leaves sync_inodes.           *)
LEMMA MoveKeeps ==
  ASSUME NEW f, NEW lo, NEW la, InvOf(f, lo, la), NEW t \in Tasks, NEW m \in Locs, Local(f, m),
         m.empty = lo[t].empty, \A x \in Slots : HasIn(m, x) <=> HasIn(lo[t], x),
         ~Locks(m), ~Locks(lo[t]),
         lo[t].pc = "hold" /\ lo[t].op = "new" =>
           f.tab[lo[t].slot].num \in f.named \/ f.tab[lo[t].slot].data.nlinks = 0
  PROVE  InvOf(f, [lo EXCEPT ![t] = m], la)
<1> DEFINE ko == [lo EXCEPT ![t] = m]
<1>1. f \in Systems /\ lo \in [Tasks -> Locs] /\ la \in [Numbers -> Lasts]
  BY DEF InvOf, Types
<1>2. ko \in [Tasks -> Locs] /\ \A u \in Tasks : ko[u] = IF u = t THEN m ELSE lo[u]
  BY <1>1
<1> HIDE DEF ko
<1>3. \A x \in Slots : ReadsIn(lo, x) <=> ReadsIn(ko, x)
  BY <1>2 DEF ReadsIn, Locks
<1>4. Types(f, ko, la) /\ Locals(f, ko) /\ Owned(ko)
  BY <1>1, <1>2 DEF InvOf, Types, Locals, Owned
<1>5. Alone(ko)
  <2>1. \A u \in Tasks : lo[u].pc = "read" => lo[u].slot \in Slots /\ u # t
    BY <1>1, Domains DEF InvOf, Locals, Local, Locs, Locks
  <2> QED
    BY <1>2, <2>1 DEF InvOf, Alone, Locks
<1>6. Counted(f, ko)
  <2>1. ASSUME NEW x \in Slots PROVE Cardinality(Holders(ko, x)) = Cardinality(Holders(lo, x))
    <3>1. /\ Cardinality(Holders(lo, x)) \in Nat
          /\ Cardinality(Holders(ko, x)) =
               Cardinality(Holders(lo, x)) - (IF HasIn(lo[t], x) THEN 1 ELSE 0) + (IF HasIn(m, x) THEN 1 ELSE 0)
      <4>1. MovedTo(lo, ko, t, m)
        BY <1>1 DEF MovedTo, ko
      <4> QED
        BY <4>1, HoldersMoved
    <3> QED
      BY <3>1
  <2> QED
    BY <2>1 DEF InvOf, Counted
<1>7. InUse(f, ko) /\ Fresh(f, ko, la) /\ OnDisk(f, ko, la) /\ Kept(f, ko)
  BY <1>2, <1>3 DEF InvOf, InUse, Fresh, OnDisk, Kept
<1>8. NewKept(f, ko, la)
  <2> SUFFICES ASSUME NEW n \in f.imap \ f.named, la[n].data.nlinks # 0
               PROVE  \E u \in Tasks : ko[u].pc = "hold" /\ ko[u].op = "new" /\ f.tab[ko[u].slot].num = n
    BY DEF NewKept
  <2>1. PICK u \in Tasks : lo[u].pc = "hold" /\ lo[u].op = "new" /\ f.tab[lo[u].slot].num = n
    BY DEF InvOf, NewKept
  <2>2. n # 0 /\ lo[u].slot \in Slots
    BY <1>1, <2>1, Domains DEF Systems, InvOf, Locals, Local, Locs
  <2>3. Same(f.tab[lo[u].slot].data, la[n])
    <3>1. ~ReadsIn(lo, lo[u].slot)
      BY <2>1 DEF InvOf, Alone, ReadsIn, HasIn
    <3> QED
      BY <2>1, <2>2, <3>1 DEF InvOf, Fresh
  <2> QED
    BY <1>2, <2>1, <2>3 DEF Same
<1> QED
  BY <1>4, <1>5, <1>6, <1>7, <1>8 DEF InvOf, ko

(* write_inode locks the inode of slot s, or unlocks it, and goes on.        *)
LockSet(f, s, b) == [f EXCEPT !.tab[s].lock = b]
LockStep(f, g, s, b, l, m) ==
  /\ g = LockSet(f, s, b)
  /\ s \in Slots /\ b \in BOOLEAN /\ m \in Locs /\ Local(LockSet(f, s, b), m)
  /\ m.empty = l.empty /\ \A x \in Slots : HasIn(m, x) <=> HasIn(l, x)
  /\ m.pc # "read" /\ l.pc \notin {"read", "hold"}
  /\ \/ b /\ ~f.tab[s].lock /\ f.tab[s].dirt /\ ~Locks(l) /\ m.slot = s
     \/ ~b /\ Locks(l) /\ l.slot = s /\ ~Locks(m)

Locking(f, g, l, m) == \E s \in Slots, b \in BOOLEAN : LockStep(f, g, s, b, l, m)

LEMMA LockKeeps ==
  ASSUME NEW f, NEW g, NEW lo, NEW la, InvOf(f, lo, la), NEW t \in Tasks, NEW m,
         Locking(f, g, lo[t], m)
  PROVE  InvOf(g, [lo EXCEPT ![t] = m], la) /\ g.imap = f.imap /\ g.fault = f.fault
<1> PICK s \in Slots, b \in BOOLEAN : LockStep(f, g, s, b, lo[t], m)
  BY DEF Locking
<1> USE DEF LockStep
<1> DEFINE z == [f.tab[s] EXCEPT !.lock = b]
           ko == [lo EXCEPT ![t] = m]
<1>1. f \in Systems /\ lo \in [Tasks -> Locs] /\ la \in [Numbers -> Lasts] /\ f.tab[s] \in Inodes
  BY DEF InvOf, Types, Systems
<1>2. ko \in [Tasks -> Locs] /\ \A u \in Tasks : ko[u] = IF u = t THEN m ELSE lo[u]
  BY <1>1
<1>3. /\ z \in Inodes /\ z.num = f.tab[s].num /\ z.count = f.tab[s].count /\ z.dirt = f.tab[s].dirt
      /\ z.lock = b /\ z.data = f.tab[s].data
  BY <1>1 DEF Inodes
<1>4. TabSet(f, g, s, z)
  <2>1. g = [f EXCEPT !.tab[s] = z]
    BY <1>1 DEF LockSet, Systems
  <2> HIDE DEF z
  <2> QED
    BY <1>1, <1>3, <2>1, TabSetBy
<1> HIDE DEF ko, z
<1>5. /\ g \in Systems /\ g.disk = f.disk /\ g.imap = f.imap /\ g.named = f.named /\ g.fault = f.fault
      /\ \A x \in Slots : /\ g.tab[x].num = f.tab[x].num /\ g.tab[x].count = f.tab[x].count
                          /\ g.tab[x].dirt = f.tab[x].dirt /\ g.tab[x].data = f.tab[x].data
                          /\ g.tab[x].lock = IF x = s THEN b ELSE f.tab[x].lock
  BY <1>3, <1>4 DEF TabSet
<1>6. \A x \in Slots : ReadsIn(lo, x) <=> ReadsIn(ko, x)
  BY <1>2 DEF ReadsIn
<1>7. \A u \in Tasks : u # t /\ Locks(lo[u]) => lo[u].slot # s /\ lo[u].slot \in Slots
  BY <1>1, Domains DEF InvOf, Owned, Locals, Local, Locks, Locs
<1>8. Locals(g, ko)
  <2>1. ASSUME NEW u \in Tasks, u # t PROVE Local(g, lo[u])
    <3>1. Local(f, lo[u]) /\ lo[u] \in Locs
      BY <1>1 DEF InvOf, Locals
    <3>2. lo[u].pc = "truncate" => lo[u].slot \in Slots
      BY <3>1, Domains DEF Local, Locs
    <3> QED
      BY <1>5, <1>7, <2>1, <3>1, <3>2 DEF Local, Locks
  <2> QED
    BY <1>2, <2>1 DEF Locals
<1>9. Types(g, ko, la) /\ Owned(ko)
  BY <1>1, <1>2, <1>5, <1>7 DEF InvOf, Types, Owned
<1>10. Alone(ko)
  <2>1. \A u \in Tasks : lo[u].pc = "read" => lo[u].slot \in Slots /\ u # t
    BY <1>1, Domains DEF InvOf, Locals, Local, Locs, Locks
  <2> QED
    BY <1>2, <2>1 DEF InvOf, Alone
<1>11. Counted(g, ko)
  <2>1. ASSUME NEW x \in Slots PROVE Cardinality(Holders(ko, x)) = Cardinality(Holders(lo, x))
    <3>1. /\ Cardinality(Holders(lo, x)) \in Nat
          /\ Cardinality(Holders(ko, x)) =
               Cardinality(Holders(lo, x)) - (IF HasIn(lo[t], x) THEN 1 ELSE 0) + (IF HasIn(m, x) THEN 1 ELSE 0)
      <4>1. MovedTo(lo, ko, t, m)
        BY <1>1 DEF MovedTo, ko
      <4> QED
        BY <4>1, HoldersMoved
    <3> QED
      BY <3>1
  <2> QED
    BY <1>5, <2>1 DEF InvOf, Counted
<1>12. InUse(g, ko) /\ Fresh(g, ko, la) /\ OnDisk(g, ko, la) /\ Kept(g, ko)
  BY <1>2, <1>5, <1>6 DEF InvOf, InUse, Fresh, OnDisk, Kept
<1>13. Resting(g) /\ Numbered(g) /\ Once(g) /\ Mapped(g) /\ Named(g, la)
  BY <1>5 DEF InvOf, Resting, Numbered, Once, Mapped, Named
<1>14. NewKept(g, ko, la)
  <2> SUFFICES ASSUME NEW n \in f.imap \ f.named, la[n].data.nlinks # 0
               PROVE  \E u \in Tasks : ko[u].pc = "hold" /\ ko[u].op = "new" /\ g.tab[ko[u].slot].num = n
    BY <1>5 DEF NewKept
  <2>1. PICK u \in Tasks : lo[u].pc = "hold" /\ lo[u].op = "new" /\ f.tab[lo[u].slot].num = n
    BY DEF InvOf, NewKept
  <2>2. u # t /\ lo[u].slot \in Slots
    BY <1>1, <2>1, Domains DEF InvOf, Locals, Local, Locs
  <2> QED
    BY <1>2, <1>5, <2>1, <2>2
<1> QED
  BY <1>5, <1>8, <1>9, <1>10, <1>11, <1>12, <1>13, <1>14 DEF InvOf, ko

(* A task lets go of what it has, slot s, and is done: an inode in iput, or a  *)
(* slot in hand when there is no inode for new_inode.  If it was the last one *)
(* the inode has a name: an inode with a link and no name is with its maker. *)
Dropped(f, s) == [f EXCEPT !.tab[s].count = @ - 1]

LEMMA IdleLocal == Idle \in Locs /\ (\A f : Local(f, Idle)) /\ ~Locks(Idle) /\ \A x \in Slots : ~HasIn(Idle, x)
  BY Domains DEF Idle, Locs, Local, Locks, HasIn

Drops(f, s, l) ==
  /\ s \in Slots /\ (\A x \in Slots : HasIn(l, x) <=> x = s) /\ l.pc # "hold" /\ ~Locks(l)
  /\ f.tab[s].count = 1 => ~f.tab[s].dirt /\ ~f.tab[s].lock /\ (f.tab[s].num # 0 => f.tab[s].data.nlinks # 0)

LEMMA DropKeeps ==
  ASSUME NEW f, NEW lo, NEW la, InvOf(f, lo, la), NEW t \in Tasks, NEW s, Drops(f, s, lo[t])
  PROVE  /\ InvOf(Dropped(f, s), [lo EXCEPT ![t] = Idle], la)
         /\ Dropped(f, s).imap = f.imap /\ Dropped(f, s).fault = f.fault
<1> USE DEF Drops
<1> DEFINE z == [f.tab[s] EXCEPT !.count = @ - 1]
           g == Dropped(f, s)
           ko == [lo EXCEPT ![t] = Idle]
<1>1. f \in Systems /\ lo \in [Tasks -> Locs] /\ la \in [Numbers -> Lasts] /\ f.tab[s] \in Inodes
  BY DEF InvOf, Types, Systems
<1>2. ko \in [Tasks -> Locs] /\ \A u \in Tasks : ko[u] = IF u = t THEN Idle ELSE lo[u]
  BY <1>1, IdleLocal
<1>3. /\ z \in Inodes /\ z.num = f.tab[s].num /\ z.count = f.tab[s].count - 1 /\ z.dirt = f.tab[s].dirt
      /\ z.lock = f.tab[s].lock /\ z.data = f.tab[s].data
  BY <1>1 DEF Inodes
<1>4. TabSet(f, g, s, z)
  <2>1. g = [f EXCEPT !.tab[s] = z]
    BY <1>1 DEF Dropped, Systems
  <2> HIDE DEF z, g
  <2> QED
    BY <1>1, <1>3, <2>1, TabSetBy
<1> HIDE DEF g, ko, z
<1>5. /\ g \in Systems /\ g.disk = f.disk /\ g.imap = f.imap /\ g.named = f.named /\ g.fault = f.fault
      /\ \A x \in Slots : /\ g.tab[x].num = f.tab[x].num /\ g.tab[x].lock = f.tab[x].lock
                          /\ g.tab[x].dirt = f.tab[x].dirt /\ g.tab[x].data = f.tab[x].data
                          /\ g.tab[x].count = IF x = s THEN f.tab[s].count - 1 ELSE f.tab[x].count
  BY <1>3, <1>4 DEF TabSet
<1>6. \A x \in Slots : ReadsIn(lo, x) <=> ReadsIn(ko, x)
  BY <1>2, IdleLocal DEF ReadsIn, Locks
<1>7. Types(g, ko, la) /\ Owned(ko)
  BY <1>1, <1>2, <1>5, IdleLocal DEF InvOf, Types, Owned
<1>8. Locals(g, ko)
  <2>1. ASSUME NEW u \in Tasks, u # t PROVE Local(g, lo[u])
    <3>1. Local(f, lo[u]) /\ lo[u] \in Locs
      BY <1>1 DEF InvOf, Locals
    <3>2. lo[u].pc = "truncate" \/ Locks(lo[u]) => lo[u].slot \in Slots
      BY <3>1, Domains DEF Local, Locs, Locks
    <3> QED
      BY <1>5, <2>1, <3>1, <3>2 DEF Local, Locks
  <2> QED
    BY <1>2, <2>1, IdleLocal DEF Locals
<1>9. Alone(ko)
  <2>1. \A u \in Tasks : lo[u].pc = "read" => lo[u].slot \in Slots /\ u # t
    BY <1>1, Domains DEF InvOf, Locals, Local, Locs, Locks
  <2> QED
    BY <1>2, <2>1, IdleLocal DEF InvOf, Alone, Locks
<1>10. \A x \in Slots : /\ Cardinality(Holders(lo, x)) \in Nat
                        /\ Cardinality(Holders(ko, x)) =
                             Cardinality(Holders(lo, x)) - (IF x = s THEN 1 ELSE 0)
  <2> TAKE x \in Slots
  <2>1. /\ Cardinality(Holders(lo, x)) \in Nat
        /\ Cardinality(Holders(ko, x)) =
               Cardinality(Holders(lo, x)) - (IF HasIn(lo[t], x) THEN 1 ELSE 0) + (IF HasIn(Idle, x) THEN 1 ELSE 0)
    <3>1. MovedTo(lo, ko, t, Idle)
      BY <1>1, IdleLocal DEF MovedTo, ko
    <3> QED
      BY <3>1, HoldersMoved
  <2> QED
    BY <2>1, IdleLocal
<1>11. Counted(g, ko)
  BY <1>5, <1>10 DEF InvOf, Counted
<1>12. f.tab[s].count \in Nat /\ (f.tab[s].count - 1 = 0 => f.tab[s].count = 1)
  BY <1>10 DEF InvOf, Counted
<1>13. Resting(g)
  BY <1>5, <1>12 DEF InvOf, Resting
<1>14. Numbered(g) /\ Once(g) /\ Mapped(g) /\ Named(g, la)
  BY <1>5 DEF InvOf, Numbered, Once, Mapped, Named
<1>15. Fresh(g, ko, la) /\ OnDisk(g, ko, la)
  BY <1>5, <1>6 DEF InvOf, Fresh, OnDisk
<1>16. InUse(g, ko)
  <2>1. ASSUME NEW u \in Tasks, u # t, HasIn(lo[u], s) PROVE f.tab[s].count # 1
    BY <1>1, <2>1, HolderCount DEF InvOf, Counted
  <2> QED
    BY <1>2, <1>5, <2>1, IdleLocal DEF InvOf, InUse
<1>17. NewKept(g, ko, la)
  <2> SUFFICES ASSUME NEW n \in f.imap \ f.named, la[n].data.nlinks # 0
               PROVE  \E u \in Tasks : ko[u].pc = "hold" /\ ko[u].op = "new" /\ g.tab[ko[u].slot].num = n
    BY <1>5 DEF NewKept
  <2>1. PICK u \in Tasks : lo[u].pc = "hold" /\ lo[u].op = "new" /\ f.tab[lo[u].slot].num = n
    BY DEF InvOf, NewKept
  <2>2. u # t /\ lo[u].slot \in Slots
    BY <1>1, <2>1, Domains DEF InvOf, Locals, Local, Locs
  <2> QED
    BY <1>2, <1>5, <2>1, <2>2
<1>18. Kept(g, ko)
  <2> SUFFICES ASSUME NEW n \in f.imap \ f.named
               PROVE  \E u \in Tasks, x \in Slots : HasIn(ko[u], x) /\ f.tab[x].num = n
    BY <1>5 DEF Kept
  <2>1. PICK u \in Tasks, x \in Slots : HasIn(lo[u], x) /\ f.tab[x].num = n
    BY DEF InvOf, Kept
  <2>2. CASE u # t
    BY <1>2, <2>1, <2>2
  <2>3. CASE u = t /\ f.tab[s].count > 1
    <3>1. PICK v \in Tasks : v # t /\ HasIn(lo[v], s)
      BY <1>1, <2>3, HolderCount DEF InvOf, Counted
    <3> QED
      BY <1>2, <2>1, <2>3, <3>1
  <2>4. CASE u = t /\ f.tab[s].count = 1
    <3>1. x = s /\ n # 0
      BY <1>1, <2>1, <2>4, Domains DEF Systems
    <3>2. ~ReadsIn(lo, s)
      BY <2>1, <2>4, <3>1 DEF InvOf, Alone, ReadsIn, Locks
    <3>3. la[n].data.nlinks # 0
      BY <2>1, <2>4, <3>1, <3>2 DEF InvOf, Fresh, Same
    <3>4. PICK v \in Tasks : lo[v].pc = "hold" /\ lo[v].op = "new" /\ f.tab[lo[v].slot].num = n
      BY <3>3 DEF InvOf, NewKept
    <3>5. lo[v].slot \in Slots /\ HasIn(lo[v], lo[v].slot)
      BY <1>1, <3>4, Domains DEF InvOf, Locals, Local, Locs, HasIn
    <3>6. lo[v].slot = s
      BY <2>1, <3>1, <3>4, <3>5 DEF InvOf, Once
    <3> QED
      BY <1>2, <3>4, <3>5, <3>6, <2>1, <3>1
  <2> QED
    BY <1>1, <1>12, <2>1, <2>2, <2>3, <2>4, HolderCount DEF InvOf, Counted
<1> QED
  BY <1>5, <1>7, <1>8, <1>9, <1>11, <1>13, <1>14, <1>15, <1>16, <1>17, <1>18 DEF InvOf, g, ko

(* new_inode makes inode n in the slot in hand.                              *)
Born == [Blank EXCEPT !.nlinks = 1]
Made(f, l, n) == [f EXCEPT !.imap = @ \cup {n},
                           !.tab[l.empty] = [num |-> n, count |-> 1, dirt |-> TRUE, lock |-> FALSE,
                                             data |-> [Blank EXCEPT !.nlinks = 1]]]
Making(l) == [l EXCEPT !.pc = "hold", !.slot = l.empty, !.empty = 0]

LEMMA MadeKeeps ==
  ASSUME NEW f, NEW lo, NEW la, InvOf(f, lo, la), NEW t \in Tasks, NEW n \in Numbers \ f.imap,
         lo[t].pc = "idle", lo[t].op = "new", lo[t].empty # 0
  PROVE  /\ InvOf(Made(f, lo[t], n), [lo EXCEPT ![t] = Making(lo[t])], [la EXCEPT ![n] = Marked(Born)])
         /\ Made(f, lo[t], n).imap = f.imap \cup {n} /\ Made(f, lo[t], n).fault = f.fault
<1> DEFINE l == lo[t]
           e == l.empty
           z == [num |-> n, count |-> 1, dirt |-> TRUE, lock |-> FALSE,
                 data |-> [Blank EXCEPT !.nlinks = 1]]
           h == [f EXCEPT !.tab[e] = z]
           g == Made(f, l, n)
           m == Making(l)
           ko == [lo EXCEPT ![t] = m]
           ka == [la EXCEPT ![n] = Marked(Born)]
<1>1. f \in Systems /\ lo \in [Tasks -> Locs] /\ la \in [Numbers -> Lasts] /\ l \in Locs
  BY DEF InvOf, Types
<1>2. e \in Slots /\ n \in Numbers /\ n # 0 /\ Born \in Data /\ Born.nlinks # 0
      /\ Marked(Born) \in Lasts /\ Marked(Born).data = Born
  BY <1>1, Domains DEF Locs, Born, Blank, Data, Lasts, Marked
<1>3. /\ m \in Locs /\ m.pc = "hold" /\ m.op = "new" /\ m.slot = e /\ m.empty = 0
  BY <1>1, <1>2, Domains DEF Making, Locs
<1>4. /\ ko \in [Tasks -> Locs] /\ \A u \in Tasks : ko[u] = IF u = t THEN m ELSE lo[u]
      /\ ka \in [Numbers -> Lasts] /\ \A k \in Numbers : ka[k] = IF k = n THEN Marked(Born) ELSE la[k]
  BY <1>1, <1>2, <1>3
<1>5. f.tab[e].num = 0 /\ f.tab[e].count = 1 /\ ~f.tab[e].dirt /\ ~f.tab[e].lock
      /\ \A u \in Tasks : HasIn(lo[u], e) => u = t
  <2>1. HasIn(l, e)
    BY DEF HasIn
  <2>2. f.tab[e].num = 0 /\ f.tab[e].count = 1
    BY <1>2, <2>1 DEF InvOf, InUse
  <2> QED
    BY <1>1, <1>2, <2>1, <2>2, HolderCount DEF InvOf, Numbered, Counted
<1>6. /\ z \in Inodes /\ z.num = n /\ z.count = 1 /\ z.dirt /\ ~z.lock /\ z.data = Born
  BY <1>2, Domains DEF Inodes, Born
<1>7. /\ g \in Systems /\ g.disk = f.disk /\ g.imap = f.imap \cup {n} /\ g.named = f.named /\ g.fault = f.fault
      /\ g.tab[e] = z /\ \A x \in Slots : x # e => g.tab[x] = f.tab[x]
  <2>1. g = [h EXCEPT !.imap = f.imap \cup {n}]
    BY <1>1, <1>2 DEF Made, Systems
  <2> HIDE DEF z, g, e
  <2>2. TabSet(f, h, e, z)
    BY <1>1, <1>2, <1>6, TabSetBy
  <2> HIDE DEF h
  <2>3. f.imap \cup {n} \in SUBSET Numbers
    BY <1>1 DEF Systems
  <2> QED
    BY <2>1, <2>2, <2>3 DEF TabSet, Systems
<1> HIDE DEF g, h, m, ko, ka, z, e
<1>8. /\ \A x \in Slots : ReadsIn(lo, x) <=> ReadsIn(ko, x)
      /\ \A x \in Slots : HasIn(m, x) <=> x = e
      /\ \A x \in Slots : HasIn(l, x) <=> x = e
      /\ l = lo[t] /\ ~Locks(l) /\ l.pc # "hold" /\ ~Locks(m)
  BY <1>2, <1>3, <1>4, Domains DEF ReadsIn, HasIn, e, Locks, InvOf, Locals, Local
<1>9. Types(g, ko, ka)
  BY <1>4, <1>7 DEF Types
<1> HIDE DEF l
<1>10. Locals(g, ko)
  <2>1. Local(g, m)
    BY <1>2, <1>3, Domains DEF Local, Locks
  <2>2. ASSUME NEW u \in Tasks, u # t PROVE Local(g, lo[u])
    <3>1. Local(f, lo[u]) /\ lo[u] \in Locs
      BY <1>1 DEF InvOf, Locals
    <3>2. lo[u].pc \in {"read", "write", "written", "truncate"} => lo[u].slot \in Slots /\ lo[u].slot # e
      BY <1>5, <2>2, <3>1, Domains DEF Local, Locs, Locks, HasIn
    <3> QED
      BY <1>7, <3>1, <3>2 DEF Local, Locks
  <2> QED
    BY <1>4, <2>1, <2>2 DEF Locals
<1>11. Owned(ko)
  BY <1>4, <1>8 DEF InvOf, Owned
<1>12. Alone(ko)
  <2>1. \A u \in Tasks : lo[u].pc = "read" => lo[u].slot \in Slots
    BY <1>1, Domains DEF InvOf, Locals, Local, Locs
  <2> QED
    BY <1>3, <1>4, <1>8, <2>1 DEF InvOf, Alone
<1>13. Counted(g, ko)
  <2>1. ASSUME NEW x \in Slots PROVE Cardinality(Holders(ko, x)) = Cardinality(Holders(lo, x))
    <3>1. /\ Cardinality(Holders(lo, x)) \in Nat
          /\ Cardinality(Holders(ko, x)) =
               Cardinality(Holders(lo, x)) - (IF HasIn(l, x) THEN 1 ELSE 0) + (IF HasIn(m, x) THEN 1 ELSE 0)
      <4>1. MovedTo(lo, ko, t, m)
        BY <1>1, <1>3 DEF MovedTo, ko, l
      <4> QED
        BY <4>1, HoldersMoved DEF l
    <3> QED
      BY <1>8, <3>1
  <2> QED
    BY <1>5, <1>6, <1>7, <2>1 DEF InvOf, Counted
<1>14. Resting(g) /\ Numbered(g) /\ Once(g) /\ Mapped(g)
  BY <1>2, <1>6, <1>7 DEF InvOf, Resting, Numbered, Once, Mapped
<1>15. Named(g, ka)
  BY <1>1, <1>4, <1>7 DEF InvOf, Named, Systems
<1>16. InUse(g, ko)
  BY <1>2, <1>3, <1>4, <1>5, <1>6, <1>7, <1>8, Domains DEF InvOf, InUse
<1>17. Fresh(g, ko, ka)
  <2>1. ASSUME NEW x \in Slots, x # e, f.tab[x].num # 0 PROVE f.tab[x].num \in Numbers /\ f.tab[x].num # n
    BY <1>1, <2>1 DEF InvOf, Mapped, Systems
  <2>2. Same(z.data, ka[n]) /\ z.dirt
    BY <1>2, <1>4, <1>6 DEF Same
  <2> QED
    BY <1>2, <1>4, <1>6, <1>7, <1>8, <2>1, <2>2 DEF InvOf, Fresh
<1>18. OnDisk(g, ko, ka)
  <2> SUFFICES ASSUME NEW k \in f.imap \cup {n}, \A x \in Slots : g.tab[x].num = k => ReadsIn(ko, x)
               PROVE  Same(f.disk[k], ka[k])
    BY <1>7 DEF OnDisk
  <2>1. ~ReadsIn(lo, e)
    BY <1>2, <1>5, <1>8 DEF ReadsIn, HasIn, Locks
  <2>2. k # n
    BY <1>2, <1>6, <1>7, <1>8, <2>1
  <2>3. k # 0 /\ k \in Numbers /\ k \in f.imap
    BY <1>1, <2>2, Domains DEF Systems
  <2>4. \A x \in Slots : f.tab[x].num = k => ReadsIn(lo, x)
    BY <1>5, <1>7, <1>8, <2>3
  <2> QED
    BY <1>4, <2>2, <2>3, <2>4 DEF InvOf, OnDisk
<1>19. Kept(g, ko)
  <2> SUFFICES ASSUME NEW k \in (f.imap \cup {n}) \ f.named
               PROVE  \E u \in Tasks, x \in Slots : HasIn(ko[u], x) /\ g.tab[x].num = k
    BY <1>7 DEF Kept
  <2>1. CASE k = n
    BY <1>2, <1>4, <1>6, <1>7, <1>8, <2>1
  <2>2. CASE k # n
    <3>1. PICK u \in Tasks, x \in Slots : HasIn(lo[u], x) /\ f.tab[x].num = k
      BY <2>2 DEF InvOf, Kept
    <3>2. k # 0
      BY <1>1, <2>2, Domains DEF Systems
    <3>3. x # e
      BY <1>5, <3>1, <3>2
    <3> QED
      BY <1>4, <1>7, <1>8, <3>1, <3>3
  <2> QED
    BY <2>1, <2>2
<1>20. NewKept(g, ko, ka)
  <2> SUFFICES ASSUME NEW k \in (f.imap \cup {n}) \ f.named, ka[k].data.nlinks # 0
               PROVE  \E u \in Tasks : ko[u].pc = "hold" /\ ko[u].op = "new" /\ g.tab[ko[u].slot].num = k
    BY <1>7 DEF NewKept
  <2>1. CASE k = n
    BY <1>2, <1>3, <1>4, <1>6, <1>7, <2>1
  <2>2. CASE k # n
    <3>0. k \in f.imap /\ k \in Numbers
      BY <1>1, <2>2 DEF Systems
    <3>1. PICK u \in Tasks : lo[u].pc = "hold" /\ lo[u].op = "new" /\ f.tab[lo[u].slot].num = k
      BY <1>4, <2>2, <3>0 DEF InvOf, NewKept
    <3>2. u # t /\ lo[u].slot \in Slots /\ lo[u].slot # e
      BY <1>1, <1>5, <1>8, <3>1, Domains DEF InvOf, Locals, Local, Locs, HasIn
    <3> QED
      BY <1>4, <1>7, <3>1, <3>2
  <2> QED
    BY <2>1, <2>2
<1> QED
  BY <1>7, <1>9, <1>10, <1>11, <1>12, <1>13, <1>14, <1>15, <1>16, <1>17, <1>18, <1>19, <1>20
     DEF InvOf, g, ko, ka, m, l

(* free_inode clears the bit and the slot of an inode without links that no    *)
(* one else has.                                                             *)
Freed(f, s) == [f EXCEPT !.imap = @ \ {f.tab[s].num}, !.tab[s] = Zero]

LEMMA FreedKeeps ==
  ASSUME NEW f, NEW lo, NEW la, InvOf(f, lo, la), NEW t \in Tasks, NEW s,
         lo[t].pc = "truncate", lo[t].slot = s, f.tab[s].count = 1, ~f.tab[s].lock
  PROVE  /\ InvOf(Freed(f, s), [lo EXCEPT ![t] = Idle], la)
         /\ Freed(f, s).fault = f.fault
<1> DEFINE n == f.tab[s].num
           h == [f EXCEPT !.tab[s] = Zero]
           g == Freed(f, s)
           ko == [lo EXCEPT ![t] = Idle]
<1>1. f \in Systems /\ lo \in [Tasks -> Locs] /\ la \in [Numbers -> Lasts]
  BY DEF InvOf, Types
<1>2. s \in Slots /\ lo[t].empty = 0 /\ lo[t].op = "put" /\ f.tab[s].data.nlinks = 0
  BY <1>1, Domains DEF Locs, InvOf, Locals, Local
<1>3. \A x \in Slots : HasIn(lo[t], x) <=> x = s
  BY <1>2, Domains DEF HasIn
<1>4. /\ ko \in [Tasks -> Locs] /\ \A u \in Tasks : ko[u] = IF u = t THEN Idle ELSE lo[u]
  BY <1>1, IdleLocal
<1>5. n # 0 /\ n \in f.imap /\ n \in Numbers /\ ~ReadsIn(lo, s) /\ \A u \in Tasks : HasIn(lo[u], s) => u = t
  <2>1. n # 0
    BY <1>2, <1>3, Domains DEF InvOf, InUse
  <2>2. n \in f.imap /\ n \in Numbers
    BY <1>1, <1>2, <2>1 DEF InvOf, Mapped, Systems
  <2>3. \A u \in Tasks : HasIn(lo[u], s) => u = t
    BY <1>1, <1>2, <1>3, HolderCount DEF InvOf, Counted
  <2>4. ~ReadsIn(lo, s)
    BY <2>3 DEF ReadsIn, HasIn
  <2> QED
    BY <2>1, <2>2, <2>3, <2>4
<1>6. Zero \in Inodes /\ Zero.num = 0 /\ Zero.count = 0 /\ ~Zero.dirt /\ ~Zero.lock
  BY Domains DEF Zero, Blank, Data, Inodes
<1>7. /\ g \in Systems /\ g.disk = f.disk /\ g.imap = f.imap \ {n} /\ g.named = f.named /\ g.fault = f.fault
      /\ g.tab[s] = Zero /\ \A x \in Slots : x # s => g.tab[x] = f.tab[x]
  <2>1. g = [h EXCEPT !.imap = f.imap \ {n}]
    BY <1>1, <1>2 DEF Freed, Systems
  <2> HIDE DEF g, n
  <2>2. TabSet(f, h, s, Zero)
    BY <1>1, <1>2, <1>6, TabSetBy
  <2> HIDE DEF h
  <2>3. f.imap \ {n} \in SUBSET Numbers
    BY <1>1 DEF Systems
  <2> QED
    BY <2>1, <2>2, <2>3 DEF TabSet, Systems
<1>8. n \notin f.named
  <2>1. la[n].data.nlinks = 0
    BY <1>2, <1>5 DEF InvOf, Fresh, Same
  <2> QED
    BY <2>1 DEF InvOf, Named
<1>9. \A x \in Slots : ReadsIn(lo, x) <=> ReadsIn(ko, x)
  BY <1>4, IdleLocal DEF ReadsIn, Locks
<1> HIDE DEF g, h, ko, n
<1>10. Types(g, ko, la) /\ Owned(ko)
  BY <1>1, <1>4, <1>7, IdleLocal DEF InvOf, Types, Owned
<1>11. Locals(g, ko)
  <2>1. ASSUME NEW u \in Tasks, u # t PROVE Local(g, lo[u])
    <3>1. Local(f, lo[u]) /\ lo[u] \in Locs
      BY <1>1 DEF InvOf, Locals
    <3>2. lo[u].pc \in {"read", "write", "written", "truncate"} => lo[u].slot \in Slots /\ lo[u].slot # s
      BY <1>5, <2>1, <3>1, Domains DEF Local, Locs, Locks, HasIn
    <3> QED
      BY <1>7, <3>1, <3>2 DEF Local, Locks
  <2> QED
    BY <1>4, <2>1, IdleLocal DEF Locals
<1>12. Alone(ko)
  <2>1. \A u \in Tasks : lo[u].pc = "read" => lo[u].slot \in Slots
    BY <1>1, Domains DEF InvOf, Locals, Local, Locs
  <2> QED
    BY <1>4, <2>1, IdleLocal DEF InvOf, Alone, Locks
<1>13. Counted(g, ko)
  <2>1. ASSUME NEW x \in Slots
        PROVE  /\ Cardinality(Holders(lo, x)) \in Nat
               /\ Cardinality(Holders(ko, x)) = Cardinality(Holders(lo, x)) - (IF x = s THEN 1 ELSE 0)
    <3>1. MovedTo(lo, ko, t, Idle)
      BY <1>1, IdleLocal DEF MovedTo, ko
    <3>2. /\ Cardinality(Holders(lo, x)) \in Nat
          /\ Cardinality(Holders(ko, x)) =
               Cardinality(Holders(lo, x)) - (IF HasIn(lo[t], x) THEN 1 ELSE 0) + (IF HasIn(Idle, x) THEN 1 ELSE 0)
      BY <3>1, HoldersMoved
    <3> QED
      BY <1>3, <3>2, IdleLocal
  <2> QED
    BY <1>2, <1>6, <1>7, <2>1 DEF InvOf, Counted
<1>14. Resting(g) /\ Numbered(g) /\ Once(g) /\ Named(g, la)
  BY <1>2, <1>6, <1>7, <1>8 DEF InvOf, Resting, Numbered, Once, Named
<1>15. Mapped(g)
  BY <1>2, <1>5, <1>6, <1>7 DEF InvOf, Mapped, Once, n
<1>16. InUse(g, ko)
  BY <1>4, <1>5, <1>7, IdleLocal DEF InvOf, InUse
<1>17. Fresh(g, ko, la)
  BY <1>6, <1>7, <1>9 DEF InvOf, Fresh
<1>18. OnDisk(g, ko, la)
  BY <1>2, <1>6, <1>7, <1>9 DEF InvOf, OnDisk, n
<1>19. Kept(g, ko)
  <2> SUFFICES ASSUME NEW k \in f.imap \ f.named, k # n
               PROVE  \E u \in Tasks, x \in Slots : HasIn(ko[u], x) /\ g.tab[x].num = k
    BY <1>7 DEF Kept
  <2>1. PICK u \in Tasks, x \in Slots : HasIn(lo[u], x) /\ f.tab[x].num = k
    BY DEF InvOf, Kept
  <2>2. x # s
    BY <2>1 DEF n
  <2>3. u # t
    BY <1>3, <2>1, <2>2
  <2> QED
    BY <1>4, <1>7, <2>1, <2>2, <2>3
<1>20. NewKept(g, ko, la)
  <2> SUFFICES ASSUME NEW k \in f.imap \ f.named, k # n, la[k].data.nlinks # 0
               PROVE  \E u \in Tasks : ko[u].pc = "hold" /\ ko[u].op = "new" /\ g.tab[ko[u].slot].num = k
    BY <1>7 DEF NewKept
  <2>1. PICK u \in Tasks : lo[u].pc = "hold" /\ lo[u].op = "new" /\ f.tab[lo[u].slot].num = k
    BY DEF InvOf, NewKept
  <2>2. u # t /\ lo[u].slot \in Slots /\ lo[u].slot # s
    BY <1>1, <2>1, Domains DEF InvOf, Locals, Local, Locs, n
  <2> QED
    BY <1>4, <1>7, <2>1, <2>2
<1> QED
  BY <1>7, <1>10, <1>11, <1>12, <1>13, <1>14, <1>15, <1>16, <1>17, <1>18, <1>19, <1>20 DEF InvOf, g, ko

(* write_inode copies the inode to its block.                                *)
Copied(f, s) == [f EXCEPT !.disk[f.tab[s].num] = f.tab[s].data, !.tab[s].dirt = FALSE]

LEMMA CopiedKeeps ==
  ASSUME NEW f, NEW lo, NEW la, InvOf(f, lo, la), NEW t \in Tasks, NEW s,
         lo[t].pc = "write", lo[t].slot = s
  PROVE  /\ InvOf(Copied(f, s), [lo EXCEPT ![t].pc = "written"], la)
         /\ Copied(f, s).fault = f.fault
<1> DEFINE n == f.tab[s].num
           z == [f.tab[s] EXCEPT !.dirt = FALSE]
           h == [f EXCEPT !.tab[s] = z]
           dk == [f.disk EXCEPT ![n] = f.tab[s].data]
           g == Copied(f, s)
           m == [lo[t] EXCEPT !.pc = "written"]
           ko == [lo EXCEPT ![t] = m]
<1>1. f \in Systems /\ lo \in [Tasks -> Locs] /\ la \in [Numbers -> Lasts] /\ lo[t] \in Locs
  BY DEF InvOf, Types
<1>2. s \in Slots /\ lo[t].empty = 0 /\ lo[t].op \in {"put", "sync"} /\ f.tab[s].lock /\ f.tab[s] \in Inodes
  BY <1>1, Domains DEF Locs, InvOf, Locals, Local, Locks, Systems
<1>3. /\ m \in Locs /\ m.pc = "written" /\ m.op = lo[t].op /\ m.slot = s /\ m.empty = 0
      /\ ko = [lo EXCEPT ![t].pc = "written"]
  BY <1>1, <1>2 DEF Locs
<1>4. ko \in [Tasks -> Locs] /\ \A u \in Tasks : ko[u] = IF u = t THEN m ELSE lo[u]
  BY <1>1, <1>3
<1>5. n # 0 /\ n \in f.imap /\ n \in Numbers /\ ~ReadsIn(lo, s)
  BY <1>1, <1>2, Domains DEF InvOf, Numbered, Mapped, Systems, ReadsIn, Owned, Locks
<1>6. /\ z \in Inodes /\ z.num = n /\ z.count = f.tab[s].count /\ z.dirt = FALSE
      /\ z.lock = f.tab[s].lock /\ z.data = f.tab[s].data
  BY <1>2 DEF Inodes
<1>7. /\ dk \in [Numbers -> Data] /\ dk[n] = f.tab[s].data /\ \A k \in Numbers : k # n => dk[k] = f.disk[k]
  <2>1. f.disk \in [Numbers -> Data] /\ f.tab[s].data \in Data
    BY <1>1, <1>2 DEF Systems, Inodes
  <2> HIDE DEF n
  <2> QED
    BY <1>5, <2>1
<1>8. /\ g \in Systems /\ g.disk = dk /\ g.imap = f.imap /\ g.named = f.named /\ g.fault = f.fault
      /\ g.tab[s] = z /\ \A x \in Slots : x # s => g.tab[x] = f.tab[x]
  <2>1. g = [h EXCEPT !.disk = dk]
    BY <1>1, <1>2 DEF Copied, Systems
  <2> HIDE DEF g, z
  <2>2. TabSet(f, h, s, z)
    BY <1>1, <1>2, <1>6, TabSetBy
  <2> HIDE DEF h, dk
  <2> QED
    BY <1>7, <2>1, <2>2 DEF TabSet, Systems
<1> HIDE DEF g, h, dk, z, m, ko, n
<1>9. /\ \A x \in Slots : /\ g.tab[x].num = f.tab[x].num /\ g.tab[x].lock = f.tab[x].lock
                          /\ g.tab[x].count = f.tab[x].count /\ g.tab[x].data = f.tab[x].data
                          /\ g.tab[x].dirt => x # s /\ f.tab[x].dirt
                          /\ ~g.tab[x].dirt => x = s \/ ~f.tab[x].dirt
  BY <1>2, <1>6, <1>8 DEF n
<1>10. /\ \A x \in Slots : ReadsIn(lo, x) <=> ReadsIn(ko, x)
       /\ \A x \in Slots : HasIn(lo[t], x) <=> HasIn(m, x)
       /\ Locks(m) /\ Locks(lo[t]) /\ m.slot = lo[t].slot
  BY <1>2, <1>3, <1>4 DEF ReadsIn, HasIn, Locks
<1>11. Types(g, ko, la) /\ Owned(ko)
  BY <1>1, <1>4, <1>8, <1>10 DEF InvOf, Types, Owned
<1>12. Locals(g, ko)
  <2>1. Local(g, m)
    BY <1>2, <1>3, <1>6, <1>8, Domains DEF Local, Locks
  <2>2. ASSUME NEW u \in Tasks, u # t PROVE Local(g, lo[u])
    <3>1. Local(f, lo[u]) /\ lo[u] \in Locs
      BY <1>1 DEF InvOf, Locals
    <3>2. lo[u].pc \in {"read", "write", "written", "truncate"} => lo[u].slot \in Slots
      BY <3>1, Domains DEF Local, Locs
    <3> QED
      BY <1>9, <3>1, <3>2 DEF Local, Locks
  <2> QED
    BY <1>4, <2>1, <2>2 DEF Locals
<1>13. Alone(ko)
  <2>1. \A u \in Tasks : lo[u].pc = "read" => lo[u].slot \in Slots
    BY <1>1, Domains DEF InvOf, Locals, Local, Locs
  <2> QED
    BY <1>3, <1>4, <1>10, <2>1 DEF InvOf, Alone
<1>14. Counted(g, ko)
  <2>1. ASSUME NEW x \in Slots PROVE Cardinality(Holders(ko, x)) = Cardinality(Holders(lo, x))
    <3>1. MovedTo(lo, ko, t, m)
      BY <1>1, <1>3 DEF MovedTo, ko
    <3>2. /\ Cardinality(Holders(lo, x)) \in Nat
          /\ Cardinality(Holders(ko, x)) =
               Cardinality(Holders(lo, x)) - (IF HasIn(lo[t], x) THEN 1 ELSE 0) + (IF HasIn(m, x) THEN 1 ELSE 0)
      BY <3>1, HoldersMoved
    <3> QED
      BY <1>10, <3>2
  <2> QED
    BY <1>9, <2>1 DEF InvOf, Counted
<1>15. Resting(g) /\ Numbered(g) /\ Once(g) /\ Mapped(g) /\ Named(g, la)
  BY <1>8, <1>9 DEF InvOf, Resting, Numbered, Once, Mapped, Named
<1>16. InUse(g, ko) /\ Kept(g, ko)
  BY <1>2, <1>3, <1>4, <1>8, <1>9, <1>10 DEF InvOf, InUse, Kept
<1>17. Fresh(g, ko, la)
  <2> SUFFICES ASSUME NEW x \in Slots, f.tab[x].num # 0, ~ReadsIn(lo, x)
               PROVE  /\ Same(f.tab[x].data, la[f.tab[x].num])
                      /\ ~g.tab[x].dirt /\ f.tab[x].data.nlinks # 0
                           => Same(g.disk[f.tab[x].num], la[f.tab[x].num])
    BY <1>9, <1>10 DEF Fresh
  <2>1. CASE x = s
    BY <1>7, <1>8, <2>1 DEF InvOf, Fresh, n
  <2>2. CASE x # s
    <3>1. f.tab[x].num \in Numbers /\ f.tab[x].num # n
      BY <1>1, <1>2, <2>2 DEF InvOf, Mapped, Once, Systems, n
    <3> QED
      BY <1>7, <1>8, <1>9, <2>2, <3>1 DEF InvOf, Fresh
  <2> QED
    BY <2>1, <2>2
<1>18. OnDisk(g, ko, la)
  <2> SUFFICES ASSUME NEW k \in f.imap, \A x \in Slots : f.tab[x].num = k => ReadsIn(lo, x)
               PROVE  Same(g.disk[k], la[k])
    BY <1>8, <1>9, <1>10 DEF OnDisk
  <2>1. k # n /\ k \in Numbers
    BY <1>1, <1>2, <1>5 DEF Systems, n
  <2> QED
    BY <1>7, <1>8, <2>1 DEF InvOf, OnDisk
<1>19. NewKept(g, ko, la)
  <2> SUFFICES ASSUME NEW k \in f.imap \ f.named, la[k].data.nlinks # 0
               PROVE  \E u \in Tasks : ko[u].pc = "hold" /\ ko[u].op = "new" /\ g.tab[ko[u].slot].num = k
    BY <1>8 DEF NewKept
  <2>1. PICK u \in Tasks : lo[u].pc = "hold" /\ lo[u].op = "new" /\ f.tab[lo[u].slot].num = k
    BY DEF InvOf, NewKept
  <2>2. u # t /\ lo[u].slot \in Slots
    BY <1>1, <2>1, Domains DEF InvOf, Locals, Local, Locs
  <2> QED
    BY <1>4, <1>9, <2>1, <2>2
<1> QED
  BY <1>3, <1>8, <1>11, <1>12, <1>13, <1>14, <1>15, <1>16, <1>17, <1>18, <1>19 DEF InvOf, g

(* read_inode has the block, and unlocks the inode.                          *)
Filled(f, s) == [f EXCEPT !.tab[s].data = f.disk[f.tab[s].num], !.tab[s].lock = FALSE]

LEMMA FilledKeeps ==
  ASSUME NEW f, NEW lo, NEW la, InvOf(f, lo, la), NEW t \in Tasks, NEW s,
         lo[t].pc = "read", lo[t].slot = s
  PROVE  /\ InvOf(Filled(f, s), [lo EXCEPT ![t].pc = "hold"], la)
         /\ Filled(f, s).fault = f.fault
<1> DEFINE n == f.tab[s].num
           z == [f.tab[s] EXCEPT !.data = f.disk[n], !.lock = FALSE]
           g == Filled(f, s)
           m == [lo[t] EXCEPT !.pc = "hold"]
           ko == [lo EXCEPT ![t] = m]
<1>1. f \in Systems /\ lo \in [Tasks -> Locs] /\ la \in [Numbers -> Lasts] /\ lo[t] \in Locs
  BY DEF InvOf, Types
<1>2. s \in Slots /\ lo[t].empty = 0 /\ lo[t].op = "iget" /\ f.tab[s].lock /\ f.tab[s] \in Inodes
      /\ n # 0
  BY <1>1, Domains DEF Locs, InvOf, Locals, Local, Locks, Systems
<1>3. /\ m \in Locs /\ m.pc = "hold" /\ m.op = "iget" /\ m.slot = s /\ m.empty = 0
      /\ ko = [lo EXCEPT ![t].pc = "hold"]
  BY <1>1, <1>2 DEF Locs
<1>4. ko \in [Tasks -> Locs] /\ \A u \in Tasks : ko[u] = IF u = t THEN m ELSE lo[u]
  BY <1>1, <1>3
<1>5. n \in f.imap /\ n \in Numbers /\ f.disk[n] \in Data
  BY <1>1, <1>2 DEF InvOf, Mapped, Systems
<1>6. /\ z \in Inodes /\ z.num = n /\ z.count = f.tab[s].count /\ z.dirt = f.tab[s].dirt
      /\ z.lock = FALSE /\ z.data = f.disk[n]
  <2> HIDE DEF n
  <2>1. z \in Inodes /\ z.count = f.tab[s].count /\ z.dirt = f.tab[s].dirt /\ z.lock = FALSE
        /\ z.data = f.disk[n] /\ z.num = f.tab[s].num
    BY <1>2, <1>5 DEF Inodes
  <2> QED
    BY <2>1 DEF n
<1>7. TabSet(f, g, s, z)
  <2>1. g = [f EXCEPT !.tab[s] = z]
    BY <1>1, <1>2 DEF Filled, Systems
  <2> HIDE DEF z, g
  <2> QED
    BY <1>1, <1>2, <1>6, <2>1, TabSetBy
<1> HIDE DEF g, z, m, ko, n
<1>8. /\ g \in Systems /\ g.disk = f.disk /\ g.imap = f.imap /\ g.named = f.named /\ g.fault = f.fault
      /\ g.tab[s] = z /\ (\A x \in Slots : x # s => g.tab[x] = f.tab[x])
      /\ \A x \in Slots : /\ g.tab[x].num = f.tab[x].num /\ g.tab[x].count = f.tab[x].count
                          /\ g.tab[x].dirt = f.tab[x].dirt
  BY <1>6, <1>7 DEF TabSet, n
<1>9. /\ \A x \in Slots : HasIn(lo[t], x) <=> HasIn(m, x)
      /\ HasIn(lo[t], s) /\ ~Locks(m) /\ Locks(lo[t]) /\ ReadsIn(lo, s)
  BY <1>2, <1>3 DEF ReadsIn, HasIn, Locks
<1>10. \A u \in Tasks : HasIn(lo[u], s) \/ (Locks(lo[u]) /\ lo[u].slot = s) => u = t
  BY <1>9 DEF InvOf, Alone, Owned
<1>11. \A x \in Slots : ReadsIn(ko, x) <=> x # s /\ ReadsIn(lo, x)
  <2>1. \A u \in Tasks : lo[u].pc = "read" /\ lo[u].slot = s => u = t
    BY <1>10 DEF Locks
  <2> QED
    BY <1>3, <1>4, <2>1 DEF ReadsIn
<1>12. Types(g, ko, la) /\ Owned(ko)
  BY <1>1, <1>4, <1>8, <1>9 DEF InvOf, Types, Owned
<1>13. Locals(g, ko)
  <2>1. Local(g, m)
    BY <1>2, <1>3, Domains DEF Local, Locks
  <2>2. ASSUME NEW u \in Tasks, u # t PROVE Local(g, lo[u])
    <3>1. Local(f, lo[u]) /\ lo[u] \in Locs
      BY <1>1 DEF InvOf, Locals
    <3>2. lo[u].pc \in {"read", "write", "written", "truncate"} => lo[u].slot \in Slots /\ lo[u].slot # s
      BY <1>10, <2>2, <3>1, Domains DEF Local, Locs, Locks, HasIn
    <3> QED
      BY <1>8, <3>1, <3>2 DEF Local, Locks
  <2> QED
    BY <1>4, <2>1, <2>2 DEF Locals
<1>14. Alone(ko)
  <2>1. \A u \in Tasks : lo[u].pc = "read" => lo[u].slot \in Slots
    BY <1>1, Domains DEF InvOf, Locals, Local, Locs
  <2> QED
    BY <1>3, <1>4, <1>9, <2>1 DEF InvOf, Alone
<1>15. Counted(g, ko)
  <2>1. ASSUME NEW x \in Slots PROVE Cardinality(Holders(ko, x)) = Cardinality(Holders(lo, x))
    <3>1. MovedTo(lo, ko, t, m)
      BY <1>1, <1>3 DEF MovedTo, ko
    <3>2. /\ Cardinality(Holders(lo, x)) \in Nat
          /\ Cardinality(Holders(ko, x)) =
               Cardinality(Holders(lo, x)) - (IF HasIn(lo[t], x) THEN 1 ELSE 0) + (IF HasIn(m, x) THEN 1 ELSE 0)
      BY <3>1, HoldersMoved
    <3> QED
      BY <1>9, <3>2
  <2> QED
    BY <1>8, <2>1 DEF InvOf, Counted
<1>16. Resting(g)
  <2>1. f.tab[s].count # 0
    BY <1>1, <1>2, <1>9, HolderCount DEF InvOf, Counted
  <2> QED
    BY <1>8, <2>1 DEF InvOf, Resting
<1>17. Numbered(g) /\ Once(g) /\ Mapped(g) /\ Named(g, la)
  BY <1>2, <1>8 DEF InvOf, Numbered, Once, Mapped, Named, n
<1>18. InUse(g, ko) /\ Kept(g, ko)
  BY <1>2, <1>3, <1>4, <1>8, <1>9 DEF InvOf, InUse, Kept
<1>19. Same(f.disk[n], la[n])
  BY <1>2, <1>5, <1>9 DEF InvOf, OnDisk, Once, n
<1>20. Fresh(g, ko, la)
  BY <1>6, <1>8, <1>11, <1>19 DEF InvOf, Fresh
<1>21. OnDisk(g, ko, la)
  BY <1>8, <1>9, <1>11 DEF InvOf, OnDisk
<1>22. NewKept(g, ko, la)
  <2> SUFFICES ASSUME NEW k \in f.imap \ f.named, la[k].data.nlinks # 0
               PROVE  \E u \in Tasks : ko[u].pc = "hold" /\ ko[u].op = "new" /\ g.tab[ko[u].slot].num = k
    BY <1>8 DEF NewKept
  <2>1. PICK u \in Tasks : lo[u].pc = "hold" /\ lo[u].op = "new" /\ f.tab[lo[u].slot].num = k
    BY DEF InvOf, NewKept
  <2>2. u # t /\ lo[u].slot \in Slots
    BY <1>1, <2>1, Domains DEF InvOf, Locals, Local, Locs
  <2> QED
    BY <1>4, <1>8, <2>1, <2>2
<1> QED
  BY <1>3, <1>8, <1>12, <1>13, <1>14, <1>15, <1>16, <1>17, <1>18, <1>20, <1>21, <1>22 DEF InvOf, g

(* The holder of an inode changes it, or its name: no link comes back, an     *)
(* inode with links is made dirty, and its name goes with its link.          *)
Changed(f, s, d, b, names) == [f EXCEPT !.tab[s].data = d, !.tab[s].dirt = b, !.named = names]
Changes(f, s, d, b, names) ==
  LET e == f.tab[s]
  IN  /\ d \in Data /\ b \in BOOLEAN /\ names \in SUBSET Numbers
      /\ d.nlinks = e.data.nlinks \/ d.nlinks = 0
      /\ b \/ d.nlinks = 0 \/ (d.nlinks = e.data.nlinks /\ d.val = e.data.val /\ b = e.dirt)
      /\ \A n \in Numbers : n # e.num => (n \in names <=> n \in f.named)
      /\ e.num \in names => d.nlinks # 0
      /\ e.num \in f.named => e.num \in names \/ d.nlinks = 0

Latest(h, e, d, b) == [data |-> d, marked |-> b \/ (h.marked /\ d.time = e.data.time)]

LEMMA ChangedKeeps ==
  ASSUME NEW f, NEW lo, NEW la, InvOf(f, lo, la), NEW t \in Tasks, NEW s, NEW d, NEW b, NEW names,
         lo[t].pc = "hold", lo[t].slot = s, Changes(f, s, d, b, names)
  PROVE  /\ InvOf(Changed(f, s, d, b, names), lo,
                  [la EXCEPT ![f.tab[s].num] = Latest(la[f.tab[s].num], f.tab[s], d, b)])
         /\ Changed(f, s, d, b, names).fault = f.fault
<1> DEFINE n == f.tab[s].num
           z == [f.tab[s] EXCEPT !.data = d, !.dirt = b]
           h == [f EXCEPT !.tab[s] = z]
           g == Changed(f, s, d, b, names)
           v == Latest(la[n], f.tab[s], d, b)
           ka == [la EXCEPT ![n] = v]
<1>1. f \in Systems /\ lo \in [Tasks -> Locs] /\ la \in [Numbers -> Lasts] /\ lo[t] \in Locs
  BY DEF InvOf, Types
<1>2. s \in Slots /\ HasIn(lo[t], s) /\ lo[t].empty = 0 /\ f.tab[s] \in Inodes
  BY <1>1, Domains DEF Locs, InvOf, Locals, Local, Systems, HasIn
<1>3. n # 0 /\ n \in f.imap /\ n \in Numbers
  BY <1>1, <1>2, Domains DEF InvOf, InUse, Mapped, Systems
<1>4. /\ d \in Data /\ b \in BOOLEAN /\ names \in SUBSET Numbers
      /\ (d.nlinks = f.tab[s].data.nlinks \/ d.nlinks = 0)
      /\ (b \/ d.nlinks = 0
           \/ (d.nlinks = f.tab[s].data.nlinks /\ d.val = f.tab[s].data.val /\ b = f.tab[s].dirt))
      /\ (\A k \in Numbers : k # n => (k \in names <=> k \in f.named))
      /\ (n \in names => d.nlinks # 0)
      /\ (n \in f.named => n \in names \/ d.nlinks = 0)
  BY DEF Changes
<1>5. /\ ka \in [Numbers -> Lasts] /\ \A k \in Numbers : ka[k] = IF k = n THEN v ELSE la[k]
      /\ v.data = d /\ (v.marked <=> b \/ (la[n].marked /\ d.time = f.tab[s].data.time))
  <2>1. v \in Lasts /\ v.data = d /\ (v.marked <=> b \/ (la[n].marked /\ d.time = f.tab[s].data.time))
    BY <1>4 DEF Latest, Lasts
  <2> HIDE DEF v
  <2> QED
    BY <1>1, <1>3, <2>1
<1>6. /\ z \in Inodes /\ z.num = n /\ z.count = f.tab[s].count /\ z.dirt = b
      /\ z.lock = f.tab[s].lock /\ z.data = d
  BY <1>2, <1>4 DEF Inodes
<1>7. /\ g \in Systems /\ g.disk = f.disk /\ g.imap = f.imap /\ g.named = names /\ g.fault = f.fault
      /\ g.tab[s] = z /\ \A x \in Slots : x # s => g.tab[x] = f.tab[x]
  <2>1. g = [h EXCEPT !.named = names]
    BY <1>1, <1>2 DEF Changed, Systems
  <2> HIDE DEF g, z
  <2>2. TabSet(f, h, s, z)
    BY <1>1, <1>2, <1>6, TabSetBy
  <2> HIDE DEF h
  <2> QED
    BY <1>4, <2>1, <2>2 DEF TabSet, Systems
<1> HIDE DEF g, h, z, v, ka, n
<1>8. /\ \A x \in Slots : /\ g.tab[x].num = f.tab[x].num /\ g.tab[x].lock = f.tab[x].lock
                          /\ g.tab[x].count = f.tab[x].count
  BY <1>6, <1>7 DEF n
<1>9. ~ReadsIn(lo, s) /\ Same(f.tab[s].data, la[n]) /\ f.tab[s].count # 0
  <2>1. ~ReadsIn(lo, s)
    BY <1>2 DEF InvOf, Alone, ReadsIn
  <2>2. f.tab[s].count # 0
    BY <1>1, <1>2, HolderCount DEF InvOf, Counted
  <2> QED
    BY <1>2, <1>3, <2>1, <2>2 DEF InvOf, Fresh, n
<1>10. Types(g, lo, ka) /\ Owned(lo) /\ Alone(lo) /\ Counted(g, lo)
  BY <1>1, <1>5, <1>7, <1>8 DEF InvOf, Types, Counted
<1>11. Locals(g, lo)
  <2>1. ASSUME NEW u \in Tasks PROVE Local(g, lo[u])
    <3>1. Local(f, lo[u]) /\ lo[u] \in Locs
      BY <1>1 DEF InvOf, Locals
    <3>2. lo[u].pc \in {"read", "write", "written", "truncate"} => lo[u].slot \in Slots
      BY <3>1, Domains DEF Local, Locs
    <3>3. lo[u].pc = "truncate" => g.tab[lo[u].slot].data.nlinks = 0
      BY <1>4, <1>6, <1>7, <3>1, <3>2 DEF Local
    <3> QED
      BY <1>8, <3>1, <3>2, <3>3 DEF Local, Locks
  <2> QED
    BY <2>1 DEF Locals
<1>12. Resting(g) /\ Numbered(g) /\ Once(g) /\ Mapped(g)
  BY <1>3, <1>6, <1>7, <1>8, <1>9 DEF InvOf, Resting, Numbered, Once, Mapped
<1>13. InUse(g, lo)
  BY <1>8 DEF InvOf, InUse
<1>14. Fresh(g, lo, ka)
  <2> SUFFICES ASSUME NEW x \in Slots, f.tab[x].num # 0, ~ReadsIn(lo, x)
               PROVE  /\ Same(g.tab[x].data, ka[f.tab[x].num])
                      /\ ~g.tab[x].dirt /\ g.tab[x].data.nlinks # 0
                           => Same(f.disk[f.tab[x].num], ka[f.tab[x].num])
    BY <1>7, <1>8 DEF Fresh
  <2>1. CASE x = s
    <3>1. Same(d, v)
      BY <1>5 DEF Same
    <3>2. ASSUME ~b, d.nlinks # 0 PROVE Same(f.disk[n], v)
      <4>1. Same(f.disk[n], la[n])
        BY <1>3, <1>4, <2>1, <3>2 DEF InvOf, Fresh, n
      <4> QED
        BY <1>4, <1>5, <1>9, <3>2, <4>1 DEF Same
    <3> QED
      BY <1>3, <1>4, <1>5, <1>6, <1>7, <2>1, <3>1, <3>2 DEF n
  <2>2. CASE x # s
    <3>1. f.tab[x].num \in Numbers /\ f.tab[x].num # n
      BY <1>1, <1>2, <2>2 DEF InvOf, Mapped, Once, Systems, n
    <3> QED
      BY <1>5, <1>7, <2>2, <3>1 DEF InvOf, Fresh
  <2> QED
    BY <2>1, <2>2
<1>15. OnDisk(g, lo, ka)
  <2> SUFFICES ASSUME NEW k \in f.imap, \A x \in Slots : f.tab[x].num = k => ReadsIn(lo, x)
               PROVE  Same(f.disk[k], ka[k])
    BY <1>7, <1>8 DEF OnDisk
  <2>1. k # n /\ k \in Numbers
    BY <1>1, <1>2, <1>9 DEF Systems, n
  <2> QED
    BY <1>5, <2>1 DEF InvOf, OnDisk
<1>16. Named(g, ka)
  BY <1>3, <1>4, <1>5, <1>7 DEF InvOf, Named
<1>17. Kept(g, lo)
  <2> SUFFICES ASSUME NEW k \in f.imap \ names
               PROVE  \E u \in Tasks, x \in Slots : HasIn(lo[u], x) /\ f.tab[x].num = k
    BY <1>7, <1>8 DEF Kept
  <2>1. CASE k = n
    BY <1>2, <2>1 DEF n
  <2>2. CASE k # n
    BY <1>1, <1>4, <2>2 DEF InvOf, Kept, Systems
  <2> QED
    BY <2>1, <2>2
<1>18. NewKept(g, lo, ka)
  <2> SUFFICES ASSUME NEW k \in f.imap \ names, ka[k].data.nlinks # 0
               PROVE  \E u \in Tasks : lo[u].pc = "hold" /\ lo[u].op = "new" /\ g.tab[lo[u].slot].num = k
    BY <1>7 DEF NewKept
  <2>1. k \in Numbers /\ k \in f.imap \ f.named /\ la[k].data.nlinks # 0
    BY <1>1, <1>4, <1>5, <1>9 DEF Systems, Same
  <2>2. PICK u \in Tasks : lo[u].pc = "hold" /\ lo[u].op = "new" /\ f.tab[lo[u].slot].num = k
    BY <2>1 DEF InvOf, NewKept
  <2>3. lo[u].slot \in Slots
    BY <1>1, <2>2, Domains DEF InvOf, Locals, Local, Locs
  <2> QED
    BY <1>8, <2>2, <2>3
<1> QED
  BY <1>7, <1>10, <1>11, <1>12, <1>13, <1>14, <1>15, <1>16, <1>17, <1>18 DEF InvOf, g, ka, v, n

-----------------------------------------------------------------------------
(* What an operation of task t yields is well if the invariant holds of it,   *)
(* or if it has stopped at a fault with no inode in two slots.               *)
Good(r, lo, t, la) ==
  /\ Once(r.f)
  /\ r.f.fault = "none" => InvOf(r.f, [lo EXCEPT ![t] = r.l], la) /\ Settled(r.l)

(* The history after an operation that may have made an inode.               *)
Later(la, f, g) == [n \in Numbers |-> IF n \in g.imap \ f.imap THEN Marked([Blank EXCEPT !.nlinks = 1]) ELSE la[n]]

LEMMA LaterSame ==
  ASSUME NEW la \in [Numbers -> Lasts], NEW f, NEW g, g.imap = f.imap
  PROVE  Later(la, f, g) = la
  BY DEF Later

(* iget with a slot in hand.                                                 *)
LEMMA IgetGood ==
  ASSUME NEW f, NEW lo, NEW la, InvOf(f, lo, la), f.fault = "none", NEW t \in Tasks,
         lo[t].pc \in {"iget", "found"}, lo[t].empty # 0
  PROVE  Good(Iget(f, lo[t]), lo, t, la) /\ Iget(f, lo[t]).f.imap = f.imap
<1> DEFINE l == lo[t]
           S == {s \in Slots : f.tab[s].num = l.nr}
           s == Min(S)
           r == Iget(f, l)
<1>1. f \in Systems /\ lo \in [Tasks -> Locs] /\ la \in [Numbers -> Lasts] /\ l \in Locs /\ Once(f)
  BY DEF InvOf, Types
<1>2. l.op = "iget" /\ l.nr # 0 /\ l.empty \in Slots
  BY <1>1, Domains DEF Locs, InvOf, Locals, Local
<1>3. S # {} => s \in Slots /\ f.tab[s].num = l.nr
  <2>1. S \in SUBSET Nat
    BY Domains
  <2>2. S # {} => Min(S) \in S
    <3> HIDE DEF S
    <3> QED
      BY <2>1, MinOfNats
  <2> QED
    BY <2>2
<1>4. CASE l.nr \notin f.imap
  <2> DEFINE g == [f EXCEPT !.fault = "stale iget"]
  <2>1. r = [f |-> g, l |-> l]
    BY <1>4 DEF Iget, Panics, Yields
  <2>2. g.fault # "none" /\ g.tab = f.tab /\ g.imap = f.imap
    BY <1>1 DEF Systems
  <2> HIDE DEF g, r
  <2> QED
    BY <1>1, <2>1, <2>2 DEF Good, Once, r
<1>5. CASE l.nr \in f.imap /\ S = {}
  <2>1. r = [f |-> ReadInto(f, l), l |-> Reading(l)]
    BY <1>5 DEF Iget, Yields, ReadInto, Reading
  <2>2. InvOf(ReadInto(f, lo[t]), [lo EXCEPT ![t] = Reading(lo[t])], la)
    BY <1>5, ReadIntoKeeps
  <2>3. ReadInto(f, l).imap = f.imap
    BY <1>1 DEF ReadInto, Systems
  <2>4. Settled(Reading(l))
    BY <1>1 DEF Settled, Reading, Locs
  <2> QED
    BY <2>1, <2>2, <2>3, <2>4 DEF Good, InvOf
<1>6. CASE l.nr \in f.imap /\ S # {} /\ f.tab[s].lock
  <2> DEFINE m == [l EXCEPT !.pc = "found", !.slot = s]
  <2>1. r = [f |-> f, l |-> m]
    BY <1>6 DEF Iget, Yields
  <2> HIDE DEF S, s
  <2>2. /\ m \in Locs /\ m.pc = "found" /\ m.op = "iget" /\ m.nr = l.nr /\ m.slot = s
        /\ m.empty = l.empty
    BY <1>1, <1>2, <1>3, <1>6, Domains DEF Locs
  <2> HIDE DEF m
  <2>3. Local(f, m) /\ ~Locks(m) /\ ~Locks(l) /\ Settled(m) /\ \A x \in Slots : HasIn(m, x) <=> HasIn(l, x)
    BY <1>2, <1>3, <1>6, <2>2, Domains DEF Local, Locks, Settled, HasIn
  <2>4. InvOf(f, [lo EXCEPT ![t] = m], la)
    BY <2>2, <2>3, MoveKeeps
  <2> QED
    BY <1>1, <2>1, <2>3, <2>4 DEF Good
<1>7. CASE l.nr \in f.imap /\ S # {} /\ ~f.tab[s].lock
  <2>1. r = [f |-> Sharing(f, l, s), l |-> Shared(l, s)]
    BY <1>7 DEF Iget, Yields, Sharing, Shared
  <2> HIDE DEF S, s
  <2>2. /\ InvOf(Sharing(f, lo[t], s), [lo EXCEPT ![t] = Shared(lo[t], s)], la)
        /\ Sharing(f, lo[t], s).imap = f.imap
    BY <1>3, <1>7, SharingKeeps
  <2>3. Settled(Shared(l, s))
    BY <1>1 DEF Settled, Shared, Locs
  <2> QED
    BY <2>1, <2>2, <2>3 DEF Good, InvOf
<1> QED
  BY <1>4, <1>5, <1>6, <1>7

(* new_inode with a slot in hand.                                            *)
LEMMA NewGood ==
  ASSUME NEW f, NEW lo, NEW la, InvOf(f, lo, la), f.fault = "none", NEW t \in Tasks,
         lo[t].pc = "idle", lo[t].op = "new", lo[t].empty # 0
  PROVE  Good(NewInode(f, lo[t]), lo, t, Later(la, f, NewInode(f, lo[t]).f))
<1> DEFINE l == lo[t]
           e == l.empty
           n == Min(Numbers \ f.imap)
           r == NewInode(f, l)
<1>1. f \in Systems /\ lo \in [Tasks -> Locs] /\ la \in [Numbers -> Lasts] /\ l \in Locs
  BY DEF InvOf, Types
<1>2. e \in Slots /\ f.tab[e] \in Inodes
  BY <1>1, Domains DEF Locs, Systems
<1>3. CASE Numbers \subseteq f.imap
  <2>1. r = [f |-> [f EXCEPT !.tab[e].count = 0], l |-> Idle]
    BY <1>3 DEF NewInode, Yields
  <2>2. /\ f.tab[e].num = 0 /\ f.tab[e].count = 1 /\ ~f.tab[e].dirt /\ ~f.tab[e].lock
        /\ \A x \in Slots : HasIn(lo[t], x) <=> x = e
    <3>1. HasIn(l, e)
      BY DEF HasIn
    <3>2. f.tab[e].num = 0 /\ f.tab[e].count = 1
      BY <1>2, <3>1 DEF InvOf, InUse
    <3> QED
      BY <1>2, <3>2 DEF InvOf, Numbered, HasIn
  <2>3. [f EXCEPT !.tab[e].count = 0] = Dropped(f, e)
    <3>1. [f.tab[e] EXCEPT !.count = 0] = [f.tab[e] EXCEPT !.count = @ - 1]
      BY <2>2
    <3> QED
      BY <1>1, <1>2, <3>1 DEF Dropped, Systems
  <2> HIDE DEF e
  <2>4. /\ InvOf(Dropped(f, e), [lo EXCEPT ![t] = Idle], la) /\ Dropped(f, e).imap = f.imap
    <3>1. Drops(f, e, lo[t])
      BY <1>2, <2>2 DEF Drops, Locks
    <3> QED
      BY <3>1, DropKeeps
  <2>5. Later(la, f, r.f) = la
    BY <1>1, <2>1, <2>3, <2>4, LaterSame
  <2>6. Settled(Idle)
    BY DEF Settled, Idle
  <2> QED
    BY <2>1, <2>3, <2>4, <2>5, <2>6 DEF Good, InvOf
<1>4. CASE ~(Numbers \subseteq f.imap)
  <2>1. r = [f |-> Made(f, l, n), l |-> Making(l)]
    BY <1>4 DEF NewInode, Yields, Made, Making
  <2>2. n \in Numbers \ f.imap
    <3> DEFINE T == Numbers \ f.imap
    <3>1. T \in SUBSET Nat /\ T # {}
      BY <1>4, Domains
    <3> HIDE DEF T
    <3>2. Min(T) \in T
      BY <3>1, MinOfNats
    <3> QED
      BY <3>2 DEF T
  <2> HIDE DEF n
  <2>3. /\ InvOf(Made(f, lo[t], n), [lo EXCEPT ![t] = Making(lo[t])], [la EXCEPT ![n] = Marked(Born)])
        /\ Made(f, lo[t], n).imap = f.imap \cup {n}
    BY <2>2, MadeKeeps
  <2>4. Later(la, f, r.f) = [la EXCEPT ![n] = Marked(Born)]
    <3>1. \A k \in Numbers : k \in Made(f, l, n).imap \ f.imap <=> k = n
      BY <2>2, <2>3
    <3>2. Later(la, f, Made(f, l, n)) = [k \in Numbers |-> IF k = n THEN Marked(Born) ELSE la[k]]
      BY <3>1 DEF Later, Born
    <3>3. [la EXCEPT ![n] = Marked(Born)] = [k \in Numbers |-> IF k = n THEN Marked(Born) ELSE la[k]]
      BY <1>1
    <3> QED
      BY <2>1, <3>2, <3>3
  <2>5. Settled(Making(l))
    BY <1>1 DEF Settled, Making, Locs
  <2> QED
    BY <2>1, <2>3, <2>4, <2>5 DEF Good, InvOf
<1> QED
  BY <1>3, <1>4

(* The slot get_empty_inode's loop ends with is one of those it looks for.   *)
LEMMA NearestOf ==
  ASSUME NEW f \in Systems, NEW S \in SUBSET Slots, S # {}
  PROVE  Nearest(f, S) \in S
<1> DEFINE D == {Distance(f, s) : s \in S}
<1>1. \A s \in Slots : Distance(f, s) \in Nat
  <2>1. f.last_inode \in Int /\ NR_INODE \in Nat /\ NR_INODE > 0
    <3>1. f.last_inode \in Slots
      BY DEF Systems
    <3> QED
      BY <3>1, InodeAssumption, Domains
  <2>2. ASSUME NEW s \in Slots PROVE (s - f.last_inode - 1) % NR_INODE \in Nat
    <3>1. s - f.last_inode - 1 \in Int
      BY <2>1, Domains
    <3> QED
      BY <2>1, <3>1
  <2> QED
    BY <2>2 DEF Distance
<1>2. D \in SUBSET Nat /\ D # {}
  BY <1>1
<1> HIDE DEF D
<1>3. PICK d \in D : \A c \in D : d <= c
  BY <1>2, LeastNat
<1> USE DEF D
<1>4. PICK s \in S : d = Distance(f, s)
  BY <1>3
<1>5. \A u \in S : Distance(f, s) <= Distance(f, u)
  BY <1>3, <1>4
<1> QED
  BY <1>5 DEF Nearest

(* get_empty_inode, and then iget or new_inode: a free slot is never dirty or *)
(* locked, so it does not sleep.                                             *)
LEMMA SearchGood ==
  ASSUME NEW f, NEW lo, NEW la, InvOf(f, lo, la), f.fault = "none", NEW t \in Tasks,
         lo[t].pc = "iget" \/ (lo[t].pc = "idle" /\ lo[t].op = "new"), lo[t].empty = 0
  PROVE  /\ Good(Search(f, lo[t]), lo, t, Later(la, f, Search(f, lo[t]).f))
         /\ lo[t].pc = "iget" => Search(f, lo[t]).f.imap = f.imap
<1> DEFINE l == lo[t]
           r == Search(f, l)
<1>1. f \in Systems /\ lo \in [Tasks -> Locs] /\ la \in [Numbers -> Lasts] /\ l \in Locs /\ Once(f)
  BY DEF InvOf, Types
<1>2. Clean(f) = Free(f) /\ Free(f) \in SUBSET Slots
  BY DEF Clean, Free, InvOf, Resting
<1>3. CASE Free(f) = {}
  <2> DEFINE g == [f EXCEPT !.fault = "No free inodes in mem"]
  <2>1. r = [f |-> g, l |-> l]
    BY <1>2, <1>3 DEF Search, Panics, Yields
  <2>2. g.fault # "none" /\ g.tab = f.tab /\ g.imap = f.imap
    BY <1>1 DEF Systems
  <2> HIDE DEF g, r
  <2> QED
    BY <1>1, <2>1, <2>2 DEF Good, Once, r
<1>4. CASE Free(f) # {}
  <2> DEFINE s == Nearest(f, Clean(f))
             g == Emptied(f, s)
             m == InHand(l, s)
             ko == [lo EXCEPT ![t] = m]
  <2>1. s \in Slots /\ f.tab[s].count = 0
    <3>1. s \in Free(f)
      BY <1>1, <1>2, <1>4, NearestOf
    <3> QED
      BY <3>1 DEF Free
  <2>2. r = Taken([f EXCEPT !.last_inode = s], [l EXCEPT !.slot = s])
    BY <1>2, <1>4 DEF Search
  <2> HIDE DEF s, r
  <2>3. /\ [f EXCEPT !.last_inode = s].tab = f.tab
        /\ g = [[f EXCEPT !.last_inode = s] EXCEPT !.tab[s] = [Zero EXCEPT !.count = 1]]
        /\ g.imap = f.imap /\ g.fault = f.fault
    BY <1>1 DEF Emptied, Systems
  <2>4. /\ [l EXCEPT !.slot = s].slot = s /\ [l EXCEPT !.slot = s].op = l.op
        /\ m = [[l EXCEPT !.slot = s] EXCEPT !.empty = s, !.slot = 0]
        /\ m.pc = l.pc /\ m.op = l.op /\ m.empty = s
    BY <1>1 DEF InHand, Locs
  <2>5. r = IF l.op = "new" THEN NewInode(g, m) ELSE Iget(g, m)
    BY <2>2, <2>3, <2>4 DEF Taken
  <2>6. InvOf(Emptied(f, s), [lo EXCEPT ![t] = InHand(lo[t], s)], la)
    BY <2>1, TakeKeeps
  <2>7. InvOf(g, ko, la) /\ ko[t] = m /\ g.fault = "none" /\ s # 0
    BY <1>1, <2>1, <2>3, <2>6, Domains
  <2>8. \A n : [ko EXCEPT ![t] = n] = [lo EXCEPT ![t] = n]
    BY <1>1
  <2> HIDE DEF g, ko, m
  <2>9. CASE l.op = "new"
    <3>1. l.pc = "idle" /\ r = NewInode(g, m)
      BY <2>5, <2>9 DEF InvOf, Locals, Local
    <3>2. Good(NewInode(g, ko[t]), ko, t, Later(la, g, NewInode(g, ko[t]).f))
      BY <2>4, <2>7, <2>9, <3>1, NewGood
    <3>3. Later(la, g, r.f) = Later(la, f, r.f)
      BY <2>3 DEF Later
    <3>4. Good(r, lo, t, Later(la, f, r.f))
      BY <2>7, <2>8, <3>1, <3>2, <3>3 DEF Good
    <3> QED
      BY <3>1, <3>4 DEF r
  <2>10. CASE l.op # "new"
    <3>1. l.pc = "iget" /\ r = Iget(g, m)
      BY <2>5, <2>10
    <3>2. Good(Iget(g, ko[t]), ko, t, la) /\ Iget(g, ko[t]).f.imap = g.imap
      <4>1. ko[t].pc \in {"iget", "found"} /\ ko[t].empty # 0
        BY <2>4, <2>7, <3>1
      <4> QED
        BY <2>7, <4>1, IgetGood
    <3>3. r.f.imap = f.imap /\ Good(r, lo, t, la)
      BY <2>3, <2>7, <2>8, <3>1, <3>2 DEF Good
    <3>4. Later(la, f, r.f) = la
      BY <1>1, <3>3, LaterSame
    <3> QED
      BY <3>3, <3>4 DEF r
  <2> QED
    BY <2>9, <2>10
<1> QED
  BY <1>3, <1>4

(* The loop of iput, entered with the inode unlocked.                        *)
Puts(l) == [l EXCEPT !.pc = "put"]

LEMMA IputGood ==
  ASSUME NEW f, NEW lo, NEW la, InvOf(f, lo, la), f.fault = "none", NEW t \in Tasks, NEW l \in Locs,
         l.op = "put", l.slot \in Slots, l.empty = 0, lo[t] = Puts(l),
         ~f.tab[l.slot].lock
  PROVE  Good(iput(f, l), lo, t, la) /\ iput(f, l).f.imap = f.imap
<1> DEFINE s == l.slot
           r == iput(f, l)
<1>1. f \in Systems /\ lo \in [Tasks -> Locs] /\ Once(f) /\ f.tab[s] \in Inodes
  BY DEF InvOf, Types, Systems
<1>2. lo[t].pc = "put" /\ lo[t].op = "put" /\ lo[t].slot = s /\ lo[t].empty = 0
  BY DEF Locs, Puts
<1>3. \A x \in Slots : HasIn(lo[t], x) <=> x = s
  BY <1>2, Domains DEF HasIn
<1>4. f.tab[s].count \in Nat /\ f.tab[s].count >= 1
  BY <1>1, <1>3, HolderCount DEF InvOf, Counted
<1>5. CASE f.tab[s].count > 1 \/ (f.tab[s].count = 1 /\ f.tab[s].data.nlinks # 0 /\ ~f.tab[s].dirt)
  <2>1. r = [f |-> Dropped(f, s), l |-> Idle]
    BY <1>4, <1>5 DEF iput, Yields, Dropped
  <2> HIDE DEF s, r
  <2>2. /\ InvOf(Dropped(f, s), [lo EXCEPT ![t] = Idle], la) /\ Dropped(f, s).imap = f.imap
    <3>1. Drops(f, s, lo[t])
      BY <1>2, <1>3, <1>4, <1>5 DEF Drops, Locks, s
    <3> QED
      BY <3>1, DropKeeps
  <2>3. Settled(Idle)
    BY DEF Settled, Idle
  <2> QED
    BY <2>1, <2>2, <2>3 DEF Good, InvOf, r
<1>6. CASE f.tab[s].count = 1 /\ f.tab[s].data.nlinks = 0
  <2> DEFINE m == [l EXCEPT !.pc = "truncate"]
  <2>1. r = [f |-> f, l |-> m]
    BY <1>4, <1>6 DEF iput, Yields
  <2>2. m \in Locs /\ m.pc = "truncate" /\ m.op = "put" /\ m.slot = s /\ m.empty = 0
    BY DEF Locs
  <2> HIDE DEF m, r
  <2>3. /\ Local(f, m) /\ ~Locks(m) /\ ~Locks(lo[t]) /\ Settled(m)
        /\ \A x \in Slots : HasIn(m, x) <=> HasIn(lo[t], x)
    BY <1>2, <1>6, <2>2, Domains DEF Local, Locks, Settled, HasIn
  <2>4. InvOf(f, [lo EXCEPT ![t] = m], la)
    BY <1>2, <2>2, <2>3, MoveKeeps
  <2> QED
    BY <1>1, <2>1, <2>3, <2>4 DEF Good, r
<1>7. CASE f.tab[s].count = 1 /\ f.tab[s].data.nlinks # 0 /\ f.tab[s].dirt
  <2> DEFINE m == [l EXCEPT !.pc = "write"]
             g == LockSet(f, s, TRUE)
  <2>1. r = [f |-> g, l |-> m]
    BY <1>4, <1>7 DEF iput, write_inode, Yields, LockSet
  <2>2. m \in Locs /\ m.pc = "write" /\ m.op = "put" /\ m.slot = s /\ m.empty = 0
    BY DEF Locs
  <2>3. g.tab[s].lock
    BY <1>1 DEF LockSet, Systems, Inodes
  <2> HIDE DEF m, r, g
  <2>4. /\ Local(g, m) /\ ~Locks(lo[t]) /\ Settled(m)
        /\ \A x \in Slots : HasIn(m, x) <=> HasIn(lo[t], x)
    BY <1>2, <2>2, <2>3, Domains DEF Local, Locks, Settled, HasIn
  <2>5. InvOf(g, [lo EXCEPT ![t] = m], la) /\ g.imap = f.imap
    <3>1. LockStep(f, g, s, TRUE, lo[t], m)
      BY <1>2, <1>7, <2>2, <2>4 DEF LockStep, g
    <3>2. Locking(f, g, lo[t], m)
      BY <3>1 DEF Locking
    <3> QED
      BY <3>2, LockKeeps
  <2> QED
    BY <2>1, <2>4, <2>5 DEF Good, InvOf, r
<1> QED
  BY <1>1, <1>4, <1>5, <1>6, <1>7 DEF Inodes

(* sync_inodes from slot k on.                                               *)
LEMMA SyncGood ==
  ASSUME NEW f, NEW lo, NEW la, InvOf(f, lo, la), f.fault = "none", NEW t \in Tasks, NEW l \in Locs,
         NEW k, l.op = "sync", l.empty = 0, lo[t].op = "sync", lo[t].empty = 0,
         lo[t].pc \in {"idle", "sync"}
  PROVE  Good(sync_inodes(f, l, k), lo, t, la) /\ sync_inodes(f, l, k).f.imap = f.imap
<1> DEFINE S == {s \in Slots : s >= k /\ (f.tab[s].lock \/ f.tab[s].dirt)}
           s == Min(S)
           r == sync_inodes(f, l, k)
<1>1. f \in Systems /\ lo \in [Tasks -> Locs] /\ Once(f)
  BY DEF InvOf, Types
<1>2. S # {} => s \in Slots /\ (f.tab[s].lock \/ f.tab[s].dirt)
  <2>1. S \in SUBSET Nat
    BY Domains
  <2>2. S # {} => Min(S) \in S
    <3> HIDE DEF S
    <3> QED
      BY <2>1, MinOfNats
  <2> QED
    BY <2>2
<1>3. \A x \in Slots : ~HasIn(lo[t], x)
  BY Domains DEF HasIn
<1>4. CASE S = {}
  <2>1. r = [f |-> f, l |-> Idle]
    BY <1>4 DEF sync_inodes, Yields
  <2>2. Settled(Idle) /\ Idle.empty = 0
    BY DEF Settled, Idle
  <2>3. InvOf(f, [lo EXCEPT ![t] = Idle], la)
    BY <1>3, <2>2, IdleLocal, MoveKeeps DEF Locks
  <2> QED
    BY <1>1, <2>1, <2>2, <2>3 DEF Good
<1>5. CASE S # {} /\ f.tab[s].lock
  <2> DEFINE m == [[l EXCEPT !.slot = s] EXCEPT !.pc = "sync"]
  <2>1. r = [f |-> f, l |-> m]
    BY <1>5 DEF sync_inodes, Yields
  <2> HIDE DEF S, s, r
  <2>2. m \in Locs /\ m.pc = "sync" /\ m.op = "sync" /\ m.slot = s /\ m.empty = 0
    BY <1>2, <1>5, Domains DEF Locs
  <2> HIDE DEF m
  <2>3. /\ Local(f, m) /\ ~Locks(m) /\ ~Locks(lo[t]) /\ Settled(m)
        /\ \A x \in Slots : HasIn(m, x) <=> HasIn(lo[t], x)
    BY <1>2, <1>3, <1>5, <2>2, Domains DEF Local, Locks, Settled, HasIn
  <2>4. InvOf(f, [lo EXCEPT ![t] = m], la)
    BY <2>2, <2>3, MoveKeeps
  <2> QED
    BY <1>1, <2>1, <2>3, <2>4 DEF Good, r
<1>6. CASE S # {} /\ ~f.tab[s].lock
  <2> DEFINE m == [[l EXCEPT !.slot = s] EXCEPT !.pc = "write"]
             g == LockSet(f, s, TRUE)
  <2>1. [l EXCEPT !.slot = s].slot = s
    BY DEF Locs
  <2>2. r = [f |-> g, l |-> m]
    BY <1>6, <2>1 DEF sync_inodes, write_inode, Yields, LockSet
  <2> HIDE DEF S, s, r
  <2>3. m \in Locs /\ m.pc = "write" /\ m.op = "sync" /\ m.slot = s /\ m.empty = 0
    BY <1>2, <1>6, Domains DEF Locs
  <2>4. g.tab[s].lock
    BY <1>1, <1>2, <1>6 DEF LockSet, Systems, Inodes
  <2> HIDE DEF m, g
  <2>5. /\ Local(g, m) /\ ~Locks(lo[t]) /\ Settled(m)
        /\ \A x \in Slots : HasIn(m, x) <=> HasIn(lo[t], x)
    BY <1>2, <1>3, <1>6, <2>3, <2>4, Domains DEF Local, Locks, Settled, HasIn
  <2>6. InvOf(g, [lo EXCEPT ![t] = m], la) /\ g.imap = f.imap
    <3>1. LockStep(f, g, s, TRUE, lo[t], m)
      BY <1>2, <1>6, <2>3, <2>5 DEF LockStep, g
    <3>2. Locking(f, g, lo[t], m)
      BY <1>2, <1>6, <3>1 DEF Locking
    <3> QED
      BY <3>2, LockKeeps
  <2> QED
    BY <2>2, <2>5, <2>6 DEF Good, InvOf, r
<1> QED
  BY <1>4, <1>5, <1>6

-----------------------------------------------------------------------------
(* An action that does what an operation yields keeps the invariant, also if  *)
(* the operation began after the task's own locals had changed.              *)
LEMMA GoodIsSound ==
  ASSUME NEW lo \in [Tasks -> Locs], \A u \in Tasks : Settled(lo[u]), NEW t \in Tasks, NEW m, NEW r,
         NEW la, Good(r, [lo EXCEPT ![t] = m], t, la)
  PROVE  Sound(r.f, [lo EXCEPT ![t] = r.l], la)
<1>1. [[lo EXCEPT ![t] = m] EXCEPT ![t] = r.l] = [lo EXCEPT ![t] = r.l]
  OBVIOUS
<1>2. \A u \in Tasks : [lo EXCEPT ![t] = r.l][u] = IF u = t THEN r.l ELSE lo[u]
  OBVIOUS
<1> QED
  BY <1>1, <1>2 DEF Good, Sound

(* mkfs and an empty table establish the invariant.                          *)
LEMMA InitIInv == Init => IInv
<1> SUFFICES ASSUME Init PROVE IInv
  OBVIOUS
<1>1. PICK S \in SUBSET Numbers :
        /\ fs = [tab |-> [s \in Slots |-> Zero], last_inode |-> 1,
                 disk |-> [n \in Numbers |-> [Blank EXCEPT !.nlinks = IF n \in S THEN 1 ELSE 0]],
                 imap |-> S, named |-> S, fault |-> "none"]
        /\ latest = [n \in Numbers |-> Marked(fs.disk[n])]
        /\ loc = [t \in Tasks |-> Idle]
  BY DEF Init
<1>2. Zero \in Inodes /\ Zero.num = 0 /\ Zero.count = 0 /\ ~Zero.dirt /\ ~Zero.lock
  BY Domains DEF Zero, Blank, Data, Inodes
<1>3. /\ \A n \in Numbers : fs.disk[n].nlinks = IF n \in S THEN 1 ELSE 0
      /\ fs.disk \in [Numbers -> Data]
  BY <1>1 DEF Blank, Data
<1>11. /\ \A n \in Numbers : latest[n].data = fs.disk[n]
       /\ latest \in [Numbers -> Lasts]
  BY <1>1, <1>3 DEF Marked, Lasts
<1> HIDE DEF Init
<1>4. /\ \A s \in Slots : fs.tab[s] = Zero
      /\ fs.imap = S /\ fs.named = S
      /\ \A t \in Tasks : loc[t] = Idle
  BY <1>1
<1>5. Types(fs, loc, latest)
  BY <1>1, <1>2, <1>3, <1>11, IdleLocal, Domains DEF Types, Systems
<1>6. Locals(fs, loc) /\ Owned(loc) /\ Alone(loc) /\ Settled(Idle)
  BY <1>4, IdleLocal DEF Locals, Owned, Alone, Settled, Idle
<1>7. Counted(fs, loc)
  <2>1. ASSUME NEW s \in Slots PROVE Holders(loc, s) = {}
    BY <1>4, IdleLocal DEF Holders
  <2> QED
    BY <1>2, <1>4, <2>1, FS_EmptySet DEF Counted
<1>8. Resting(fs) /\ Numbered(fs) /\ Once(fs) /\ Mapped(fs) /\ Fresh(fs, loc, latest)
  BY <1>2, <1>4 DEF Resting, Numbered, Once, Mapped, Fresh
<1>9. InUse(fs, loc) /\ Kept(fs, loc) /\ NewKept(fs, loc, latest)
  BY <1>4, IdleLocal DEF InUse, Kept, NewKept
<1>10. OnDisk(fs, loc, latest) /\ Named(fs, latest)
  BY <1>3, <1>4, <1>11 DEF OnDisk, Named, Same
<1> QED
  BY <1>4, <1>5, <1>6, <1>7, <1>8, <1>9, <1>10 DEF IInv, Sound, InvOf

(* The actions of a task that is outside of iget, iput and sync_inodes, or    *)
(* waits for a lock there.                                                   *)
LEMMA CallSteps ==
  ASSUME IInv, NEW t \in Tasks, (\E n \in Numbers : Lookup(t, n)) \/ Get(t) \/ New(t) \/ Sync(t)
  PROVE  IInv'
<1>1. fs.fault = "none"
  BY DEF Lookup, Get, New, Sync, At
<1>2. InvOf(fs, loc, latest) /\ \A u \in Tasks : Settled(loc[u])
  BY <1>1 DEF IInv, Sound
<1>3. loc \in [Tasks -> Locs] /\ latest \in [Numbers -> Lasts] /\ loc[t] \in Locs /\ Once(fs)
  BY <1>2 DEF InvOf, Types
<1>4. ASSUME NEW m \in Locs, m.pc \in {"idle", "iget"}, Local(fs, m), m.empty = 0, m.op # "put",
             loc[t].pc = "idle"
      PROVE  InvOf(fs, [loc EXCEPT ![t] = m], latest)
  <2>1. loc[t].empty = 0 /\ loc[t].op # "put" /\ ~Locks(loc[t]) /\ ~Locks(m)
    BY <1>2, <1>4 DEF Settled, InvOf, Locals, Local, Locks
  <2>2. \A x \in Slots : HasIn(m, x) <=> HasIn(loc[t], x)
    BY <1>4, <2>1, Domains DEF HasIn
  <2> QED
    BY <1>2, <1>4, <2>1, <2>2, MoveKeeps
<1>5. ASSUME NEW n \in Numbers, Lookup(t, n) PROVE IInv'
  <2> DEFINE m == [Idle EXCEPT !.pc = "iget", !.op = "iget", !.nr = n]
  <2>1. /\ m \in Locs /\ m.pc = "iget" /\ m.op = "iget" /\ m.nr # 0 /\ m.empty = 0
    BY Domains DEF Idle, Locs
  <2>2. fs' = fs /\ latest' = latest /\ loc' = [loc EXCEPT ![t] = m] /\ loc[t].pc = "idle"
    BY <1>5 DEF Lookup, At
  <2> HIDE DEF m
  <2>3. Local(fs, m) /\ Settled(m)
    BY <2>1 DEF Local, Locks, Settled
  <2>4. InvOf(fs, [loc EXCEPT ![t] = m], latest)
    BY <1>4, <2>1, <2>2, <2>3
  <2>5. \A u \in Tasks : loc'[u] = IF u = t THEN m ELSE loc[u]
    BY <1>3, <2>2
  <2> QED
    BY <1>2, <1>3, <2>2, <2>3, <2>4, <2>5 DEF IInv, Sound
<1>6. ASSUME Get(t) PROVE IInv'
  <2> DEFINE r == Search(fs, loc[t])
  <2>1. loc[t].pc = "iget" /\ loc[t].empty = 0
    BY <1>2, <1>6 DEF Get, At, Settled
  <2>2. Good(r, loc, t, Later(latest, fs, r.f)) /\ r.f.imap = fs.imap
    BY <1>1, <1>2, <2>1, SearchGood
  <2>3. fs' = r.f /\ loc' = [loc EXCEPT ![t] = r.l] /\ latest' = latest
    BY <1>6 DEF Get, Do
  <2> HIDE DEF r
  <2>4. Later(latest, fs, r.f) = latest
    BY <1>3, <2>2, LaterSame
  <2>5. Good(r, [loc EXCEPT ![t] = loc[t]], t, latest)
    BY <1>3, <2>2, <2>4
  <2>6. Sound(r.f, [loc EXCEPT ![t] = r.l], latest)
    BY <1>2, <1>3, <2>5, GoodIsSound
  <2> QED
    BY <2>3, <2>6 DEF IInv
<1>7. ASSUME New(t) PROVE IInv'
  <2> DEFINE m == [Idle EXCEPT !.op = "new"]
             r == Search(fs, m)
             ko == [loc EXCEPT ![t] = m]
  <2>1. /\ m \in Locs /\ m.pc = "idle" /\ m.op = "new" /\ m.empty = 0
    BY Domains DEF Idle, Locs
  <2>2. /\ fs' = r.f /\ loc' = [loc EXCEPT ![t] = r.l] /\ loc[t].pc = "idle"
        /\ latest' = Later(latest, fs, r.f)
    BY <1>7 DEF New, Do, At, Later
  <2> HIDE DEF m
  <2>3. Local(fs, m)
    BY <2>1 DEF Local, Locks
  <2>4. InvOf(fs, ko, latest)
    BY <1>4, <2>1, <2>2, <2>3
  <2>5. ko[t] = m
    BY <1>3
  <2> HIDE DEF ko
  <2>6. Good(r, ko, t, Later(latest, fs, r.f))
    BY <1>1, <2>1, <2>4, <2>5, SearchGood
  <2> HIDE DEF r
  <2>7. Sound(r.f, [loc EXCEPT ![t] = r.l], Later(latest, fs, r.f))
    BY <1>2, <1>3, <2>6, GoodIsSound DEF ko
  <2> QED
    BY <2>2, <2>7 DEF IInv
<1>8. ASSUME Sync(t) PROVE IInv'
  <2> DEFINE m == [Idle EXCEPT !.op = "sync"]
             r == sync_inodes(fs, m, 1)
             ko == [loc EXCEPT ![t] = m]
  <2>1. /\ m \in Locs /\ m.pc = "idle" /\ m.op = "sync" /\ m.empty = 0
    BY Domains DEF Idle, Locs
  <2>2. /\ fs' = r.f /\ loc' = [loc EXCEPT ![t] = r.l] /\ loc[t].pc = "idle" /\ latest' = latest
    BY <1>8 DEF Sync, Do, At
  <2> HIDE DEF m
  <2>3. Local(fs, m)
    BY <2>1 DEF Local, Locks
  <2>4. InvOf(fs, ko, latest)
    BY <1>4, <2>1, <2>2, <2>3
  <2>5. ko[t] = m
    BY <1>3
  <2> HIDE DEF ko
  <2>6. Good(r, ko, t, latest)
    BY <1>1, <2>1, <2>4, <2>5, SyncGood
  <2> HIDE DEF r
  <2>7. Sound(r.f, [loc EXCEPT ![t] = r.l], latest)
    BY <1>2, <1>3, <2>6, GoodIsSound DEF ko
  <2> QED
    BY <2>2, <2>7 DEF IInv
<1> QED
  BY <1>5, <1>6, <1>7, <1>8

(* A task goes on with a lock free: one it has waited for, or its own, which   *)
(* write_inode has released.                                                 *)
LEMMA ResumeSteps ==
  ASSUME IInv, NEW t \in Tasks, Unlocked(t) \/ WriteEnd(t)
  PROVE  IInv'
<1> DEFINE l == loc[t]
<1>1. fs.fault = "none"
  BY DEF Unlocked, WriteEnd, At
<1>2. InvOf(fs, loc, latest) /\ \A u \in Tasks : Settled(loc[u])
  BY <1>1 DEF IInv, Sound
<1>3. /\ fs \in Systems /\ loc \in [Tasks -> Locs] /\ latest \in [Numbers -> Lasts]
      /\ l \in Locs /\ Local(fs, l)
  BY <1>2 DEF InvOf, Types, Locals
<1>4. ASSUME NEW r, NEW m, Good(r, [loc EXCEPT ![t] = m], t, latest), r.f.imap = fs.imap,
             fs' = r.f, loc' = [loc EXCEPT ![t] = r.l], latest' = Later(latest, fs, r.f)
      PROVE  IInv'
  <2>1. latest' = latest
    BY <1>3, <1>4, LaterSame
  <2>2. Sound(r.f, [loc EXCEPT ![t] = r.l], latest)
    BY <1>2, <1>3, <1>4, GoodIsSound
  <2> QED
    BY <1>4, <2>1, <2>2 DEF IInv
<1>5. CASE Unlocked(t)
  <2>1. l.pc \in {"found", "sync", "put"} /\ l.slot \in Slots /\ ~fs.tab[l.slot].lock
    BY <1>3, <1>5, Domains DEF Unlocked, My, Locs, Local
  <2>2. [loc EXCEPT ![t] = l] = loc
    BY <1>3
  <2>3. CASE l.pc = "found"
    <3> DEFINE r == Iget(fs, l)
    <3>1. l.op = "iget" /\ l.empty # 0
      BY <1>3, <2>3 DEF Local
    <3>2. fs' = r.f /\ loc' = [loc EXCEPT ![t] = r.l] /\ latest' = Later(latest, fs, r.f)
      BY <1>5, <2>3, <3>1 DEF Unlocked, Resumes, Do, Later
    <3>3. Good(r, loc, t, latest) /\ r.f.imap = fs.imap
      BY <1>1, <1>2, <2>3, <3>1, IgetGood
    <3> HIDE DEF r
    <3> QED
      BY <1>4, <2>2, <3>2, <3>3
  <2>4. CASE l.pc = "sync"
    <3> DEFINE r == sync_inodes(fs, l, l.slot)
    <3>1. l.op = "sync" /\ l.empty = 0
      BY <1>3, <2>4 DEF Local
    <3>2. fs' = r.f /\ loc' = [loc EXCEPT ![t] = r.l] /\ latest' = Later(latest, fs, r.f)
      BY <1>5, <2>4, <3>1 DEF Unlocked, Resumes, Do, Later
    <3>3. Good(r, loc, t, latest) /\ r.f.imap = fs.imap
      BY <1>1, <1>2, <1>3, <2>4, <3>1, SyncGood
    <3> HIDE DEF r
    <3> QED
      BY <1>4, <2>2, <3>2, <3>3
  <2>5. CASE l.pc = "put"
    <3> DEFINE r == iput(fs, l)
    <3>1. l.op = "put" /\ l.empty = 0
      BY <1>3, <2>5 DEF Local
    <3>2. fs' = r.f /\ loc' = [loc EXCEPT ![t] = r.l] /\ latest' = Later(latest, fs, r.f)
      BY <1>5, <2>5, <3>1 DEF Unlocked, Resumes, Do, Later
    <3>3. loc[t] = Puts(l)
      BY <1>3, <2>5 DEF Puts, Locs
    <3>4. Good(r, loc, t, latest) /\ r.f.imap = fs.imap
      BY <1>1, <1>2, <1>3, <2>1, <3>1, <3>3, IputGood
    <3> HIDE DEF r
    <3> QED
      BY <1>4, <2>2, <3>2, <3>4
  <2> QED
    BY <2>1, <2>3, <2>4, <2>5
<1>6. CASE WriteEnd(t)
  <2> DEFINE f == LockSet(fs, l.slot, FALSE)
  <2>1. l.pc = "written" /\ Resumes(t, f)
    BY <1>6 DEF WriteEnd, At, LockSet
  <2>2. l.op \in {"put", "sync"} /\ l.slot \in Slots /\ l.empty = 0
    BY <1>3, <2>1, Domains DEF Local, Locs
  <2>3. f.tab[l.slot].lock = FALSE
    BY <1>3, <2>2 DEF LockSet, Systems, Inodes
  <2> HIDE DEF f
  <2>4. ASSUME NEW m \in Locs, m.op = l.op, m.slot = l.slot, m.empty = 0,
               (m.pc = "put" /\ l.op = "put") \/ (m.pc = "sync" /\ l.op = "sync")
        PROVE  InvOf(f, [loc EXCEPT ![t] = m], latest) /\ f.imap = fs.imap /\ f.fault = "none"
    <3>1. Local(f, m) /\ ~Locks(m) /\ Locks(l) /\ \A x \in Slots : HasIn(m, x) <=> HasIn(l, x)
      BY <2>1, <2>2, <2>4, Domains DEF Local, Locks, HasIn
    <3>2. LockStep(fs, f, l.slot, FALSE, l, m)
      BY <2>1, <2>2, <2>4, <3>1 DEF LockStep, f
    <3>3. Locking(fs, f, l, m)
      BY <2>2, <3>2 DEF Locking
    <3> QED
      BY <1>1, <1>2, <3>3, LockKeeps
  <2>5. CASE l.op = "put"
    <3> DEFINE r == iput(f, l)
               m == Puts(l)
               ko == [loc EXCEPT ![t] = m]
    <3>1. fs' = r.f /\ loc' = [loc EXCEPT ![t] = r.l] /\ latest' = Later(latest, fs, r.f)
      BY <2>1, <2>5 DEF Resumes, Do, Later
    <3>2. m \in Locs /\ m.pc = "put" /\ m.op = "put" /\ m.slot = l.slot /\ m.empty = 0
      BY <1>3, <2>2, <2>5 DEF Puts, Locs
    <3>3. ko[t] = m
      BY <1>3
    <3> HIDE DEF m
    <3>4. InvOf(f, ko, latest) /\ f.imap = fs.imap /\ f.fault = "none"
      <4>1. m.op = l.op /\ (m.pc = "put" /\ l.op = "put")
        BY <2>5, <3>2
      <4> QED
        BY <2>4, <3>2, <4>1
    <3> HIDE DEF ko
    <3>5. Good(r, ko, t, latest) /\ r.f.imap = f.imap
      BY <1>3, <2>2, <2>3, <2>5, <3>3, <3>4, IputGood DEF m
    <3> HIDE DEF r
    <3> QED
      BY <1>4, <3>1, <3>4, <3>5 DEF ko
  <2>6. CASE l.op = "sync"
    <3> DEFINE k == l.slot + 1
               r == sync_inodes(f, l, k)
               m == [l EXCEPT !.pc = "sync"]
               ko == [loc EXCEPT ![t] = m]
    <3>1. fs' = r.f /\ loc' = [loc EXCEPT ![t] = r.l] /\ latest' = Later(latest, fs, r.f)
      BY <2>1, <2>6 DEF Resumes, Do, Later
    <3>2. m \in Locs /\ m.pc = "sync" /\ m.op = "sync" /\ m.slot = l.slot /\ m.empty = 0
      BY <1>3, <2>2, <2>6 DEF Locs
    <3>3. ko[t] = m
      BY <1>3
    <3> HIDE DEF m, k
    <3>4. InvOf(f, ko, latest) /\ f.imap = fs.imap /\ f.fault = "none"
      BY <2>4, <2>6, <3>2
    <3> HIDE DEF ko
    <3>5. Good(r, ko, t, latest) /\ r.f.imap = f.imap
      BY <1>3, <2>2, <2>6, <3>2, <3>3, <3>4, SyncGood
    <3> HIDE DEF r
    <3> QED
      BY <1>4, <3>1, <3>4, <3>5 DEF ko
  <2> QED
    BY <2>2, <2>5, <2>6
<1> QED
  BY <1>5, <1>6

(* The block of inodes has come, for a write or for a read.                  *)
LEMMA BlockSteps ==
  ASSUME IInv, NEW t \in Tasks, WriteCopy(t) \/ read_inode(t)
  PROVE  IInv'
<1> DEFINE s == loc[t].slot
<1>1. fs.fault = "none"
  BY DEF WriteCopy, read_inode, At
<1>2. InvOf(fs, loc, latest) /\ \A u \in Tasks : Settled(loc[u])
  BY <1>1 DEF IInv, Sound
<1>3. loc \in [Tasks -> Locs]
  BY <1>2 DEF InvOf, Types
<1>4. CASE WriteCopy(t)
  <2>1. /\ loc[t].pc = "write" /\ fs' = Copied(fs, s) /\ latest' = latest
        /\ loc' = [loc EXCEPT ![t].pc = "written"]
    BY <1>4 DEF WriteCopy, At, Number, My, Copied
  <2>2. InvOf(Copied(fs, s), [loc EXCEPT ![t].pc = "written"], latest)
    BY <1>2, <2>1, CopiedKeeps
  <2>3. \A u \in Tasks : Settled(loc'[u])
    BY <1>2, <1>3, <2>1 DEF Settled, Locs
  <2> QED
    BY <2>1, <2>2, <2>3 DEF IInv, Sound, InvOf
<1>5. CASE read_inode(t)
  <2>1. /\ loc[t].pc = "read" /\ fs' = Filled(fs, s) /\ latest' = latest
        /\ loc' = [loc EXCEPT ![t].pc = "hold"]
    BY <1>5 DEF read_inode, At, Number, My, Filled
  <2>2. InvOf(Filled(fs, s), [loc EXCEPT ![t].pc = "hold"], latest)
    BY <1>2, <2>1, FilledKeeps
  <2>3. \A u \in Tasks : Settled(loc'[u])
    BY <1>2, <1>3, <2>1 DEF Settled, Locs
  <2> QED
    BY <2>1, <2>2, <2>3 DEF IInv, Sound, InvOf
<1> QED
  BY <1>4, <1>5

(* What the holder of an inode changes.                                      *)
LEMMA ChangeSteps ==
  ASSUME IInv, NEW t \in Tasks, Touch(t) \/ Stamp(t) \/ Enter(t) \/ Unlink(t)
  PROVE  IInv'
<1> DEFINE s == loc[t].slot
           e == fs.tab[s]
<1>1. fs.fault = "none" /\ loc[t].pc = "hold"
  BY DEF Touch, Stamp, Enter, Unlink, At
<1>2. InvOf(fs, loc, latest) /\ \A u \in Tasks : Settled(loc[u])
  BY <1>1 DEF IInv, Sound
<1>3. fs \in Systems /\ loc \in [Tasks -> Locs] /\ loc[t] \in Locs
  BY <1>2 DEF InvOf, Types
<1>4. s \in Slots /\ HasIn(loc[t], s) /\ loc[t].empty = 0 /\ e \in Inodes
  BY <1>1, <1>2, <1>3, Domains DEF Locs, InvOf, Locals, Local, Systems, HasIn
<1>5. e.num # 0 /\ e.num \in Numbers /\ fs.named \in SUBSET Numbers
  BY <1>2, <1>3, <1>4, Domains DEF InvOf, InUse, Mapped, Systems
<1>6. /\ e.data \in Data /\ e.data.nlinks \in {0, 1} /\ e.data.val \in {0, 1} /\ e.data.time \in {0, 1} /\ e.dirt \in BOOLEAN
  BY <1>4 DEF Inodes, Data
<1>7. e.num \in fs.named => e.data.nlinks # 0
  <2>1. ~ReadsIn(loc, s)
    BY <1>1, <1>2, <1>4 DEF InvOf, Alone, ReadsIn
  <2> QED
    BY <1>2, <1>4, <1>5, <2>1 DEF InvOf, Fresh, Named, Same
<1>8. ASSUME NEW d, NEW b, NEW names, Change(t, d, b, names), Changes(fs, s, d, b, names) PROVE IInv'
  <2>1. /\ fs' = Changed(fs, s, d, b, names) /\ loc' = loc
        /\ latest' = [latest EXCEPT ![e.num] = Latest(latest[e.num], e, d, b)]
    BY <1>8 DEF Change, Changed, Number, My, Latest
  <2>2. InvOf(Changed(fs, s, d, b, names), loc, [latest EXCEPT ![e.num] = Latest(latest[e.num], e, d, b)])
    BY <1>1, <1>2, <1>8, ChangedKeeps
  <2> QED
    BY <1>2, <2>1, <2>2 DEF IInv, Sound, InvOf
<1> DEFINE none == [e.data EXCEPT !.nlinks = 0]
<1>9. none \in Data /\ none.nlinks = 0
  BY <1>6 DEF Data
<1>10. CASE Touch(t)
  <2> DEFINE d == [e.data EXCEPT !.val = 1 - @]
  <2>1. d \in Data /\ d.nlinks = e.data.nlinks
    BY <1>6 DEF Data
  <2>2. \E b \in BOOLEAN : b /\ Change(t, d, b, fs.named)
    BY <1>10 DEF Touch, My
  <2> HIDE DEF d
  <2>3. PICK b \in BOOLEAN : b /\ Change(t, d, b, fs.named)
    BY <2>2
  <2>4. Changes(fs, s, d, b, fs.named)
    BY <1>5, <1>7, <2>1, <2>3 DEF Changes
  <2> QED
    BY <1>8, <2>3, <2>4
<1>11. CASE Enter(t)
  <2>1. e.data.nlinks = 1
    BY <1>11 DEF Enter, My
  <2>2. CASE Change(t, e.data, e.dirt, fs.named \cup {e.num})
    <3> DEFINE names == fs.named \cup {e.num}
    <3>1. Changes(fs, s, e.data, e.dirt, names)
      BY <1>5, <1>6, <2>1 DEF Changes
    <3> QED
      BY <1>8, <2>2, <3>1
  <2>3. CASE e.num \notin fs.named /\ Change(t, none, e.dirt, fs.named)
    <3> HIDE DEF none
    <3>1. Changes(fs, s, none, e.dirt, fs.named)
      BY <1>5, <1>6, <1>9, <2>3 DEF Changes
    <3> QED
      BY <1>8, <2>3, <3>1
  <2> QED
    BY <1>11, <2>2, <2>3 DEF Enter, My, Number
<1>12. CASE Unlink(t)
  <2> DEFINE names == fs.named \ {e.num}
  <2>1. \E b \in BOOLEAN : b /\ Change(t, none, b, names)
    BY <1>12 DEF Unlink, My, Number
  <2> HIDE DEF none
  <2>2. PICK b \in BOOLEAN : b /\ Change(t, none, b, names)
    BY <2>1
  <2>3. Changes(fs, s, none, b, names)
    BY <1>5, <1>9, <2>2 DEF Changes
  <2> QED
    BY <1>8, <2>2, <2>3
<1>13. CASE Stamp(t)
  <2> DEFINE d == [e.data EXCEPT !.time = 1]
  <2>1. d \in Data /\ d.nlinks = e.data.nlinks /\ d.val = e.data.val
    BY <1>6 DEF Data
  <2>2. Change(t, d, e.dirt, fs.named)
    BY <1>13 DEF Stamp, My
  <2> HIDE DEF d
  <2>3. Changes(fs, s, d, e.dirt, fs.named)
    BY <1>5, <1>6, <1>7, <2>1 DEF Changes
  <2> QED
    BY <1>8, <2>2, <2>3
<1> QED
  BY <1>10, <1>11, <1>12, <1>13

(* A holder lets an inode go, and the last one frees it if it has no link.   *)
LEMMA LetGoSteps ==
  ASSUME IInv, NEW t \in Tasks, Put(t) \/ free_inode(t)
  PROVE  IInv'
<1> DEFINE l == loc[t]
           s == l.slot
<1>1. fs.fault = "none"
  BY DEF Put, free_inode, At
<1>2. InvOf(fs, loc, latest) /\ Once(fs) /\ \A u \in Tasks : Settled(loc[u])
  BY <1>1 DEF IInv, Sound, InvOf
<1>3. fs \in Systems /\ loc \in [Tasks -> Locs] /\ l \in Locs /\ Local(fs, l)
  BY <1>2 DEF InvOf, Types, Locals
<1>4. CASE Put(t)
  <2> DEFINE m == [l EXCEPT !.op = "put", !.pc = "put"]
             ko == [loc EXCEPT ![t] = m]
  <2>1. l.pc = "hold" /\ l.slot \in Slots /\ l.empty = 0
    BY <1>3, <1>4, Domains DEF Put, At, Local, Locs
  <2>2. /\ fs' = (IF fs.tab[s].lock THEN fs ELSE iput(fs, m).f) /\ latest' = latest
        /\ loc' = [loc EXCEPT ![t] = IF fs.tab[s].lock THEN m ELSE iput(fs, m).l]
        /\ l.op = "new" => fs.tab[s].num \in fs.named \/ fs.tab[s].data.nlinks = 0
    BY <1>4 DEF Put, Do, My, Number, Yields
  <2>3. m \in Locs /\ m.pc = "put" /\ m.op = "put" /\ m.slot = s /\ m.empty = 0 /\ m = Puts(m)
    BY <1>3, <2>1 DEF Locs, Puts
  <2>4. ko[t] = m
    BY <1>3
  <2> HIDE DEF m
  <2>5. /\ Local(fs, m) /\ ~Locks(m) /\ ~Locks(l) /\ Settled(m)
        /\ \A x \in Slots : HasIn(m, x) <=> HasIn(l, x)
    BY <2>1, <2>3, Domains DEF Local, Locks, Settled, HasIn
  <2>6. InvOf(fs, ko, latest)
    BY <1>2, <2>1, <2>2, <2>3, <2>5, MoveKeeps
  <2>7. CASE fs.tab[s].lock
    <3>1. fs' = fs /\ loc' = ko /\ latest' = latest
      BY <2>2, <2>7
    <3>2. \A u \in Tasks : Settled(ko[u])
      BY <1>2, <1>3, <2>5
    <3> QED
      BY <1>2, <2>6, <3>1, <3>2 DEF IInv, Sound
  <2>8. CASE ~fs.tab[s].lock
    <3> DEFINE r == iput(fs, m)
    <3>1. fs' = r.f /\ loc' = [loc EXCEPT ![t] = r.l] /\ latest' = latest
      BY <2>2, <2>8
    <3> HIDE DEF ko
    <3>2. Good(r, ko, t, latest)
      BY <1>1, <2>1, <2>3, <2>4, <2>6, <2>8, IputGood
    <3> HIDE DEF r
    <3>3. Sound(r.f, [loc EXCEPT ![t] = r.l], latest)
      BY <1>2, <1>3, <3>2, GoodIsSound DEF ko
    <3> QED
      BY <3>1, <3>3 DEF IInv
  <2> QED
    BY <2>7, <2>8
<1>5. CASE free_inode(t)
  <2>1. l.pc = "truncate" /\ s \in Slots /\ HasIn(l, s) /\ latest' = latest
    BY <1>3, <1>5, Domains DEF free_inode, At, Local, Locs, HasIn
  <2>2. fs.tab[s].count \in Nat /\ fs.tab[s].count >= 1
    BY <1>2, <1>3, <2>1, HolderCount DEF InvOf, Counted
  <2> DEFINE r == CASE fs.tab[s].count > 1 -> Panics(fs, l, "free_inode")
                    [] fs.tab[s].count = 1 /\ fs.tab[s].lock -> Panics(fs, l, "cleared while locked")
                    [] OTHER -> Yields(Freed(fs, s), Idle)
  <2> HIDE DEF r
  <2>3. fs' = r.f /\ loc' = [loc EXCEPT ![t] = r.l]
    BY <1>5 DEF free_inode, Do, My, Number, Freed, r
  <2>4. ASSUME NEW what, what # "none", fs' = [fs EXCEPT !.fault = what] PROVE IInv'
    <3>1. fs'.fault # "none" /\ fs'.tab = fs.tab
      BY <1>3, <2>4 DEF Systems
    <3> QED
      BY <1>2, <3>1 DEF IInv, Sound, Once
  <2>5. CASE fs.tab[s].count > 1
    <3>1. fs' = [fs EXCEPT !.fault = "free_inode"]
      <4>1. r = [f |-> [fs EXCEPT !.fault = "free_inode"], l |-> l]
        <5>1. fs.tab[s].count # 1
          BY <2>2, <2>5
        <5> QED
          BY <2>5, <5>1 DEF r, Panics, Yields
      <4> QED
        BY <2>3, <4>1
    <3> QED
      BY <2>4, <3>1
  <2>6. CASE fs.tab[s].count = 1 /\ fs.tab[s].lock
    <3>1. fs' = [fs EXCEPT !.fault = "cleared while locked"]
      <4>1. r = [f |-> [fs EXCEPT !.fault = "cleared while locked"], l |-> l]
        BY <2>6 DEF r, Panics, Yields
      <4> QED
        BY <2>3, <4>1
    <3> QED
      BY <2>4, <3>1
  <2>7. CASE fs.tab[s].count = 1 /\ ~fs.tab[s].lock
    <3>1. fs' = Freed(fs, s) /\ loc' = [loc EXCEPT ![t] = Idle]
      <4>1. r = [f |-> Freed(fs, s), l |-> Idle]
        BY <2>7 DEF r, Yields
      <4> QED
        BY <2>3, <4>1
    <3>2. InvOf(Freed(fs, s), [loc EXCEPT ![t] = Idle], latest)
      BY <1>2, <2>1, <2>7, FreedKeeps
    <3>3. \A u \in Tasks : Settled([loc EXCEPT ![t] = Idle][u])
      BY <1>2, <1>3 DEF Settled, Idle
    <3> QED
      BY <2>1, <3>1, <3>2, <3>3 DEF IInv, Sound, InvOf
  <2> QED
    BY <2>2, <2>5, <2>6, <2>7
<1> QED
  BY <1>4, <1>5

LEMMA StepIInv == IInv /\ [Next]_vars => IInv'
<1> SUFFICES ASSUME IInv, [Next]_vars PROVE IInv'
  OBVIOUS
<1>1. CASE UNCHANGED vars
  BY <1>1 DEF IInv, vars
<1>2. ASSUME NEW t \in Tasks,
             \/ \E n \in Numbers : Lookup(t, n)
             \/ Get(t) \/ New(t) \/ Sync(t) \/ Unlocked(t) \/ WriteCopy(t) \/ WriteEnd(t) \/ read_inode(t)
             \/ Touch(t) \/ Stamp(t) \/ Enter(t) \/ Unlink(t) \/ Put(t) \/ free_inode(t)
      PROVE  IInv'
  BY <1>2, CallSteps, ResumeSteps, BlockSteps, ChangeSteps, LetGoSteps
<1> QED
  BY <1>1, <1>2 DEF Next

-----------------------------------------------------------------------------
(* The inode table is sound as long as no panic and no stale use has stopped   *)
(* it, and no inode is ever in two slots.                                    *)
THEOREM InodeInv == Spec => []IInv
  BY InitIInv, StepIInv, PTL DEF Spec

(* i_count is the number of tasks that have a slot, for any number of tasks    *)
(* in iget, new_inode, iput and sync_inodes; and a slot that no one has is     *)
(* clean and unlocked, so that get_empty_inode takes it without a sleep.      *)
THEOREM InodeSlotsAccounted == Spec => []SlotsAccounted
<1>1. IInv => SlotsAccounted
  <2> SUFFICES ASSUME IInv, fs.fault = "none", NEW s \in Slots
               PROVE  /\ fs.tab[s].count = Cardinality({t \in Tasks : Has(t, s)})
                      /\ fs.tab[s].count = 0 => ~fs.tab[s].dirt /\ ~fs.tab[s].lock
    BY DEF SlotsAccounted
  <2>1. InvOf(fs, loc, latest)
    BY DEF IInv, Sound
  <2>2. {t \in Tasks : Has(t, s)} = Holders(loc, s)
    BY DEF Holders, Has, HasIn
  <2> QED
    BY <2>1, <2>2 DEF InvOf, Counted, Resting
<1> QED
  BY <1>1, InodeInv, PTL

(* An inode is in the table once at most, and no change to one that i_dirt      *)
(* marks is lost, nor a change of its times before such a one: what the last   *)
(* change made of it is in its slot or, when it has none or is being read      *)
(* into it, on the disk, up to the times if they changed last; although iget  *)
(* sleeps between its search and its use of what it found, and holders write  *)
(* while write_inode does.                                                   *)
THEOREM InodeNoLostInode == Spec => []NoLostInode
<1>1. IInv => NoLostInode
  <2> SUFFICES ASSUME IInv PROVE NoLostInode
    OBVIOUS
  <2>1. OneSlotPerInode
    BY DEF IInv, Sound, Once, OneSlotPerInode
  <2>2. ASSUME fs.fault = "none", NEW n \in fs.imap
        PROVE  LET S == {s \in Slots : fs.tab[s].num = n /\ ~Reads(s)}
               IN  IF S = {} THEN Same(fs.disk[n], latest[n])
                   ELSE \A s \in S : Same(fs.tab[s].data, latest[n])
    <3> DEFINE S == {s \in Slots : fs.tab[s].num = n /\ ~Reads(s)}
    <3>1. InvOf(fs, loc, latest)
      BY <2>2 DEF IInv, Sound
    <3>2. \A s \in Slots : Reads(s) <=> ReadsIn(loc, s)
      BY DEF Reads, ReadsIn
    <3>3. n # 0
      BY <3>1, Domains DEF InvOf, Types, Systems
    <3>4. S = {} => Same(fs.disk[n], latest[n])
      BY <3>1, <3>2 DEF InvOf, OnDisk
    <3>5. \A s \in S : Same(fs.tab[s].data, latest[n])
      BY <3>1, <3>2, <3>3 DEF InvOf, Fresh
    <3> QED
      BY <3>4, <3>5
  <2> QED
    BY <2>1, <2>2 DEF NoLostInode
<1> QED
  BY <1>1, InodeInv, PTL

(* free_inode never takes an inode that has a name, and an inode without one   *)
(* is always with a task, whose iput will free it: none leaks when a holder   *)
(* unlinks it while others have it open or write it.                         *)
THEOREM InodeFreedAtLast == Spec => []FreedAtLast
<1>1. IInv => FreedAtLast
  <2> SUFFICES ASSUME IInv, fs.fault = "none"
               PROVE  /\ fs.named \subseteq fs.imap
                      /\ \A n \in fs.imap \ fs.named :
                           \E t \in Tasks, s \in Slots : Has(t, s) /\ fs.tab[s].num = n
    BY DEF FreedAtLast
  <2>1. InvOf(fs, loc, latest)
    BY DEF IInv, Sound
  <2>2. fs.named \subseteq fs.imap
    BY <2>1 DEF InvOf, Named
  <2>3. \A t \in Tasks, s \in Slots : Has(t, s) <=> HasIn(loc[t], s)
    BY DEF Has, HasIn
  <2> QED
    BY <2>1, <2>2, <2>3 DEF InvOf, Kept
<1> QED
  BY <1>1, InodeInv, PTL
=============================================================================
