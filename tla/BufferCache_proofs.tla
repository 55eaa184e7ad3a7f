------------------------- MODULE BufferCache_proofs -------------------------
(***************************************************************************)
(* Proofs about the buffer cache, for any number of tasks, blocks and       *)
(* buffers.                                                                 *)
(***************************************************************************)
EXTENDS BufferCache, SetLemmas

(* The types, with no bound on b_count: that bound follows from what the     *)
(* counts are (CountAccounted).                                              *)
Records == [at : Points, kind : {"none", "getblk", "bread", "breada", "sync"},
            want : Blocks \cup {NoBlock}, next : Blocks \cup {NoBlock},
            bh : Buffers \cup {0}, h : Buffers \cup {0}, i : 0..(2 * NR_BUFFERS + 1)]

HeadTypes ==
  /\ b_block \in [Buffers -> Blocks \cup {NoBlock}]
  /\ b_count \in [Buffers -> Int]
  /\ b_lock \in [Buffers -> BOOLEAN]
  /\ b_uptodate \in [Buffers -> BOOLEAN]
  /\ b_dirt \in [Buffers -> BOOLEAN]
  /\ b_io \in [Buffers -> {"none", "read", "write"}]
  /\ free_list \in Bijection(Buffers, Buffers)
  /\ cur \in Tasks \cup {NULL}
Types == HeadTypes /\ call \in [Tasks -> Records]

(* What a task's local variables are at each point of its call: the buffer   *)
(* getblk is about, the buffer got, and the counter of sync_dev's loop; and  *)
(* only breada has a buffer already when it is in getblk.                    *)
Local(c, t) ==
  /\ c.at \in {"hash", "victim", "got"} => c.h # 0
  /\ c.at \in {"ll", "queue", "wait", "release"} => c.bh # 0
  /\ c.at \in {"sync", "syncqueue"} => c.i >= 1 /\ (c.kind = "sync" \/ c.h # 0)
  /\ c.at = "syncqueue" => c.i <= 2 * NR_BUFFERS
  /\ c.kind = "sync" => c.bh = 0 /\ c.at \in {"sync", "syncqueue"}
  /\ c.bh # 0 /\ c.at \in {"get", "hash", "victim", "nobuf", "got", "sync", "syncqueue"}
       => t \in AheadTasks
  /\ c.kind = "breada" \/ c.next # NoBlock => t \in AheadTasks
Locals == \A t \in Tasks : Local(call[t], t)

(* t has locked h and not queued its request yet.                            *)
Locks(t, h) == \/ call[t].at = "queue" /\ call[t].bh = h
               \/ call[t].at = "syncqueue" /\ SyncAt(t) = h

(* A locked buffer belongs to the one task that is about to queue a request  *)
(* for it, or to its request: never to both, never to two tasks.             *)
LockOwned ==
  /\ \A h \in Buffers : b_io[h] # "none" => b_lock[h]
  /\ \A h \in Buffers, t \in Tasks : Locks(t, h) => b_lock[h] /\ b_io[h] = "none"
  /\ \A h \in Buffers, t, u \in Tasks : Locks(t, h) /\ Locks(u, h) => t = u

(* The buffer get_hash_table waits for stays the buffer of the block, since  *)
(* it is counted: its test after wait_on_buffer always succeeds.             *)
HashKept == \A t \in Tasks : call[t].at = "hash" => b_block[call[t].h] = Target(t)

-----------------------------------------------------------------------------
(* Taking a buffer out of the free list and putting it at the end leaves a   *)
(* list of all buffers.                                                      *)
LEMMA RequeuedList ==
  ASSUME free_list \in Bijection(Buffers, Buffers), NEW h \in Buffers
  PROVE  Requeued(h) \in Bijection(Buffers, Buffers)
<1> DEFINE f == Requeued(h)
<1>1. /\ free_list \in [Buffers -> Buffers]
      /\ \A p, q \in Buffers : free_list[p] = free_list[q] => p = q
      /\ \A g \in Buffers : \E p \in Buffers : free_list[p] = g
  BY DEF Bijection, Injection, Surjection, IsInjective
<1>2. NR_BUFFERS \in Buffers /\ NR_BUFFERS \in Nat
  BY CacheAssumption DEF Buffers
<1>3. PICK k \in Buffers : free_list[k] = h
  BY <1>1
<1>4. ASSUME NEW p \in Buffers
      PROVE  f[p] = IF p = NR_BUFFERS THEN h ELSE IF k <= p THEN free_list[p + 1] ELSE free_list[p]
  <2>1. ASSUME NEW q \in 1..p, free_list[q] = h PROVE q = k
    <3>1. q \in Buffers
      BY <1>2 DEF Buffers
    <3> QED
      BY <1>1, <1>3, <2>1, <3>1
  <2>2. k <= p => k \in 1..p
    BY <1>2 DEF Buffers
  <2>3. (\E q \in 1..p : free_list[q] = h) <=> k <= p
    BY <1>3, <2>1, <2>2
  <2> QED
    BY <2>3 DEF Requeued
<1>5. f \in [Buffers -> Buffers]
  <2>1. \A p \in Buffers : p # NR_BUFFERS => p + 1 \in Buffers
    BY <1>2 DEF Buffers
  <2> QED
    BY <1>1, <2>1 DEF Requeued
<1> HIDE DEF f
<1>6. ASSUME NEW p \in Buffers, NEW q \in Buffers, f[p] = f[q] PROVE p = q
  <2> DEFINE at(r) == IF r = NR_BUFFERS THEN k ELSE IF k <= r THEN r + 1 ELSE r
  <2>1. ASSUME NEW r \in Buffers PROVE at(r) \in Buffers /\ f[r] = free_list[at(r)]
    BY <1>2, <1>3, <1>4 DEF Buffers
  <2>2. at(p) = at(q)
    BY <1>1, <1>6, <2>1
  <2> QED
    BY <1>2, <2>2 DEF Buffers
<1>7. ASSUME NEW g \in Buffers PROVE \E p \in Buffers : f[p] = g
  <2>1. PICK p \in Buffers : free_list[p] = g
    BY <1>1
  <2>2. CASE p < k
    BY <1>2, <1>4, <2>1, <2>2 DEF Buffers
  <2>3. CASE p = k
    BY <1>2, <1>3, <1>4, <2>1, <2>3
  <2>4. CASE p > k
    <3>1. p - 1 \in Buffers /\ f[p - 1] = g
      BY <1>2, <1>4, <2>1, <2>4 DEF Buffers
    <3> QED
      BY <3>1
  <2> QED
    BY <2>2, <2>3, <2>4 DEF Buffers
<1> QED
  BY <1>5, <1>6, <1>7 DEF f, Bijection, Injection, Surjection, IsInjective

(* The scan of the free list ends with an unused buffer, if there is one.    *)
LEMMA VictimUnused ==
  ASSUME Types, Unused # {}
  PROVE  Victim \in Unused
<1> DEFINE values == {BADNESS(h) : h \in Unused}
           best == {h \in Unused : \A g \in Unused : BADNESS(h) <= BADNESS(g)}
           places == {p \in Buffers : free_list[p] \in best}
<1>1. \A h \in Unused : BADNESS(h) \in Nat
  BY DEF BADNESS, Unused
<1>2. PICK m \in values : \A v \in values : m <= v
  BY <1>1, LeastNat
<1>3. PICK h \in best : TRUE
  BY <1>1, <1>2
<1>4. PICK p \in Buffers : free_list[p] = h
  BY <1>3 DEF Types, HeadTypes, Bijection, Surjection, Unused
<1>5. places \in SUBSET Nat /\ places # {}
  BY <1>3, <1>4 DEF Buffers
<1>6. Min(places) \in places
  BY <1>5, MinOfNats
<1> QED
  BY <1>6 DEF Victim

(* buffer_init.                                                              *)
LEMMA InitTypes == Init => Types /\ Locals
  BY CacheAssumption DEF Init, Types, HeadTypes, Records, Idle, Points, Locals, Local, Buffers,
     Bijection, Injection, Surjection, IsInjective
-----------------------------------------------------------------------------
(* A step of t makes r of its local variables and leaves those of the others, *)
(* but that it may wake who sleeps on buffer_wait.                           *)
Moves(t, r) ==
  /\ call' \in [Tasks -> Records]
  /\ call'[t] = r
  /\ \A u \in Tasks \ {t} : \/ call'[u] = call[u]
                            \/ call[u].at = "nobuf" /\ call'[u] = [call[u] EXCEPT !.at = "get"]

(* A step that assigns to one record is one.                                 *)
LEMMA MovesOne ==
  ASSUME Types, NEW t \in Tasks, NEW r \in Records, call' = [call EXCEPT ![t] = r]
  PROVE  Moves(t, r)
  BY DEF Moves, Types, HeadTypes

(* ... and so is one that ends in wake_up(&buffer_wait).                     *)
LEMMA MovesWoken ==
  ASSUME Types, NEW t \in Tasks, NEW r \in Records, r.at # "nobuf",
         call' = Woken([call EXCEPT ![t] = r])
  PROVE  Moves(t, r) /\ \A u \in Tasks : call'[u].at # "nobuf"
<1> DEFINE c == [call EXCEPT ![t] = r]
<1>1. c \in [Tasks -> Records] /\ c[t] = r /\ \A u \in Tasks \ {t} : c[u] = call[u]
  BY DEF Types, HeadTypes
<1> HIDE DEF c
<1>2. \A u \in Tasks : call'[u] = IF c[u].at = "nobuf" THEN [c[u] EXCEPT !.at = "get"] ELSE c[u]
  BY DEF Woken, c
<1>3. \A e \in Records : [e EXCEPT !.at = "get"] \in Records /\ [e EXCEPT !.at = "get"].at = "get"
  BY DEF Records, Points
<1>4. call' = [u \in Tasks |-> IF c[u].at = "nobuf" THEN [c[u] EXCEPT !.at = "get"] ELSE c[u]]
  BY DEF Woken, c
<1>5. call' \in [Tasks -> Records]
  BY <1>1, <1>3, <1>4
<1> QED
  BY <1>1, <1>2, <1>3, <1>5 DEF Moves

(* The references that a task with these local variables has to h.           *)
Has(c, h) == (IF c.bh = h THEN 1 ELSE 0) + (IF c.h = h /\ c.at \in {"hash", "got"} THEN 1 ELSE 0)

(* If b_count goes up and down with the references of the task that moves,   *)
(* it stays the number of references.                                        *)
LEMMA CountStep ==
  ASSUME Types, CountAccounted, NEW t \in Tasks, NEW r \in Records, Moves(t, r),
         \A h \in Buffers : b_count'[h] = b_count[h] + Has(r, h) - Has(call[t], h)
  PROVE  CountAccounted'
<1> SUFFICES ASSUME NEW h \in Buffers
             PROVE  b_count'[h] = Cardinality(References(h)') + Cardinality(Pending(h)')
  BY DEF CountAccounted
<1>1. IsFiniteSet(References(h)) /\ IsFiniteSet(Pending(h))
  BY CacheAssumption, FS_Subset DEF References, Pending
<1>2. References(h)' = IF r.bh = h THEN References(h) \cup {t} ELSE References(h) \ {t}
  BY DEF References, Moves, Types, HeadTypes, Records
<1>3. Pending(h)' = IF r.h = h /\ r.at \in {"hash", "got"} THEN Pending(h) \cup {t}
                                                            ELSE Pending(h) \ {t}
  BY DEF Pending, Moves, Types, HeadTypes, Records
<1>4. t \in References(h) <=> call[t].bh = h
  BY DEF References
<1>5. t \in Pending(h) <=> call[t].h = h /\ call[t].at \in {"hash", "got"}
  BY DEF Pending
<1>6. Cardinality(References(h)') = Cardinality(References(h))
        + (IF r.bh = h THEN 1 ELSE 0) - (IF call[t].bh = h THEN 1 ELSE 0)
  <2> DEFINE S == References(h)
  <2>1. /\ Cardinality(S \cup {t}) = Cardinality(S) + 1 - (IF t \in S THEN 1 ELSE 0)
        /\ Cardinality(S \ {t}) = Cardinality(S) - (IF t \in S THEN 1 ELSE 0)
        /\ Cardinality(S) \in Nat
    BY <1>1, CardinalityStep, Zenon
  <2> QED
    BY <1>2, <1>4, <2>1
<1>7. Cardinality(Pending(h)') = Cardinality(Pending(h))
        + (IF r.h = h /\ r.at \in {"hash", "got"} THEN 1 ELSE 0)
        - (IF call[t].h = h /\ call[t].at \in {"hash", "got"} THEN 1 ELSE 0)
  <2> DEFINE S == Pending(h)
  <2>1. /\ Cardinality(S \cup {t}) = Cardinality(S) + 1 - (IF t \in S THEN 1 ELSE 0)
        /\ Cardinality(S \ {t}) = Cardinality(S) - (IF t \in S THEN 1 ELSE 0)
        /\ Cardinality(S) \in Nat
    BY <1>1, CardinalityStep, Zenon
  <2> QED
    BY <1>3, <1>5, <2>1
<1>8. b_count[h] = Cardinality(References(h)) + Cardinality(Pending(h))
  BY DEF CountAccounted
<1>9. Cardinality(References(h)) \in Nat /\ Cardinality(Pending(h)) \in Nat
  BY <1>1, FS_CardinalityType
<1> QED
  BY <1>6, <1>7, <1>8, <1>9 DEF Has

(* b_count is 0 exactly of the buffers nobody refers to.                     *)
LEMMA CountZero ==
  ASSUME Types, CountAccounted, NEW h \in Buffers
  PROVE  /\ b_count[h] \in Nat
         /\ b_count[h] = 0 <=> References(h) = {} /\ Pending(h) = {}
<1>1. IsFiniteSet(References(h)) /\ IsFiniteSet(Pending(h))
  BY CacheAssumption, FS_Subset DEF References, Pending
<1>2. b_count[h] = Cardinality(References(h)) + Cardinality(Pending(h))
  BY DEF CountAccounted
<1> QED
  BY <1>1, <1>2, FS_EmptySet, FS_CardinalityType
-----------------------------------------------------------------------------
(* The parts of the invariant a step of t can disturb, for its new local     *)
(* variables r.                                                              *)
LEMMA LocalsStep ==
  ASSUME Types, Locals, NEW t \in Tasks, NEW r \in Records, Moves(t, r), Local(r, t)
  PROVE  Locals'
<1> SUFFICES ASSUME NEW u \in Tasks PROVE Local(call'[u], u)
  BY DEF Locals
<1>1. Local(call[u], u) /\ call[u] \in Records
  BY DEF Locals, Types, HeadTypes
<1>2. ASSUME call[u].at = "nobuf", call'[u] = [call[u] EXCEPT !.at = "get"] PROVE Local(call'[u], u)
  BY <1>1, <1>2 DEF Local, Records
<1> QED
  BY <1>1, <1>2 DEF Moves

TargetOf(c) == IF c.bh = 0 THEN c.want ELSE c.next

LEMMA HashStep ==
  ASSUME Types, HashKept, CountAccounted, NEW t \in Tasks, NEW r \in Records, Moves(t, r),
         \A h \in Buffers : b_block'[h] = b_block[h] \/ b_count[h] = 0,
         Locals, r.at = "hash" => b_block'[r.h] = TargetOf(r)
  PROVE  HashKept'
<1> SUFFICES ASSUME NEW u \in Tasks, call'[u].at = "hash" PROVE b_block'[call'[u].h] = TargetOf(call'[u])
  BY DEF HashKept, Target, TargetOf
<1>1. CASE u = t
  BY <1>1 DEF Moves
<1>2. CASE u # t
  <2>1. call'[u] = call[u]
    BY <1>2 DEF Moves, Types, HeadTypes, Records
  <2>2. call[u].h \in Buffers
    BY <2>1 DEF Locals, Local, Types, HeadTypes, Records
  <2>3. u \in Pending(call[u].h)
    BY <2>1 DEF Pending
  <2>4. b_count[call[u].h] # 0
    BY <2>2, <2>3, CountZero
  <2> QED
    BY <2>1, <2>2, <2>4 DEF HashKept, Target, TargetOf
<1> QED
  BY <1>1, <1>2

(* Whether a task with these local variables has locked h.                   *)
LocksIn(c, h) == \/ c.at = "queue" /\ c.bh = h
                 \/ c.at = "syncqueue" /\ ((c.i - 1) % NR_BUFFERS) + 1 = h

LEMMA LockStep ==
  ASSUME Types, LockOwned, NEW t \in Tasks, NEW r \in Records, Moves(t, r),
         \* what t does not have, it leaves, or takes as it finds it free
         \A h \in Buffers :
           \/ /\ b_lock'[h] = b_lock[h] /\ b_io'[h] = b_io[h]
              /\ LocksIn(r, h) => LocksIn(call[t], h)
           \/ /\ LocksIn(call[t], h) /\ ~LocksIn(r, h)
              /\ b_lock'[h] /\ b_io'[h] # "none"
           \/ /\ ~b_lock[h] /\ b_lock'[h]
              /\ b_io'[h] = "none" \/ ~LocksIn(r, h)
  PROVE  LockOwned'
<1>1. ASSUME NEW u \in Tasks \ {t}, NEW h \in Buffers PROVE Locks(u, h)' <=> Locks(u, h)
  BY DEF Locks, SyncAt, Moves, Types, HeadTypes, Records
<1>2. ASSUME NEW h \in Buffers PROVE (Locks(t, h)' <=> LocksIn(r, h)) /\ (Locks(t, h) <=> LocksIn(call[t], h))
  BY DEF Locks, LocksIn, SyncAt, Moves
<1> QED
  BY <1>1, <1>2 DEF LockOwned, Types, HeadTypes
-----------------------------------------------------------------------------
(* The inductive invariant.                                                  *)
CInv == Types /\ Locals /\ LockOwned /\ CountAccounted /\ HashKept /\ OneBufferPerBlock

(* buffer_init establishes it.                                               *)
LEMMA InitInv == Init => CInv
<1> SUFFICES ASSUME Init PROVE CInv
  OBVIOUS
<1>1. Types /\ Locals
  BY InitTypes
<1>2. LockOwned /\ HashKept /\ OneBufferPerBlock
  BY DEF Init, LockOwned, Locks, HashKept, OneBufferPerBlock, Idle
<1>3. CountAccounted
  <2> SUFFICES ASSUME NEW h \in Buffers
               PROVE  b_count[h] = Cardinality(References(h)) + Cardinality(Pending(h))
    BY DEF CountAccounted
  <2>1. References(h) = {} /\ Pending(h) = {}
    BY CacheAssumption DEF Init, References, Pending, Idle, Buffers
  <2> QED
    BY <2>1, FS_EmptySet DEF Init
<1> QED
  BY <1>1, <1>2, <1>3 DEF CInv

(* A step of t that makes r of its local variables keeps it, if it does what *)
(* the lemmas above ask for.                                                 *)
LEMMA TaskStepInv ==
  ASSUME CInv, NEW t \in Tasks, NEW r \in Records, Moves(t, r), HeadTypes', Local(r, t),
         \A h \in Buffers : b_count'[h] = b_count[h] + Has(r, h) - Has(call[t], h),
         r.at = "hash" => b_block'[r.h] = TargetOf(r),
         \/ b_block' = b_block
         \/ \E h \in Buffers : /\ b_count[h] = 0 /\ find_buffer(b_block'[h]) = {}
                               /\ b_block' = [b_block EXCEPT ![h] = b_block'[h]],
         \A h \in Buffers :
           \/ /\ b_lock'[h] = b_lock[h] /\ b_io'[h] = b_io[h]
              /\ LocksIn(r, h) => LocksIn(call[t], h)
           \/ /\ LocksIn(call[t], h) /\ ~LocksIn(r, h)
              /\ b_lock'[h] /\ b_io'[h] # "none"
           \/ /\ ~b_lock[h] /\ b_lock'[h]
              /\ b_io'[h] = "none" \/ ~LocksIn(r, h)
  PROVE  CInv'
<1> USE DEF CInv
<1>1. Types'
  BY DEF Types, Moves
<1>2. Locals'
  BY LocalsStep
<1>3. CountAccounted'
  BY CountStep
<1>4. HashKept'
  <2>1. \A h \in Buffers : b_block'[h] = b_block[h] \/ b_count[h] = 0
    BY DEF Types, HeadTypes
  <2> QED
    BY <2>1, HashStep
<1>5. LockOwned'
  BY LockStep
<1>6. OneBufferPerBlock'
  BY DEF OneBufferPerBlock, find_buffer, Types, HeadTypes
<1> QED
  BY <1>1, <1>2, <1>3, <1>4, <1>5, <1>6

(* ... and it is enough to look at t if the buffers are left alone.          *)
LEMMA LocalStepInv ==
  ASSUME CInv, NEW t \in Tasks, NEW r \in Records, call' = [call EXCEPT ![t] = r], UNCHANGED heads,
         cur' \in Tasks \cup {NULL}, Local(r, t), r.at \notin {"hash", "queue", "syncqueue"},
         \A h \in Buffers : Has(r, h) = Has(call[t], h)
  PROVE  CInv'
<1>1. Moves(t, r)
  BY MovesOne DEF CInv
<1>2. HeadTypes'
  BY DEF CInv, Types, HeadTypes, heads
<1>3. \A h \in Buffers : b_count'[h] = b_count[h] + Has(r, h) - Has(call[t], h)
  BY DEF CInv, Types, HeadTypes, heads, Has
<1>4. \A h \in Buffers : b_lock'[h] = b_lock[h] /\ b_io'[h] = b_io[h] /\ ~LocksIn(r, h)
  BY DEF heads, LocksIn
<1>5. b_block' = b_block
  BY DEF heads
<1> QED
  BY <1>1, <1>2, <1>3, <1>4, <1>5, TaskStepInv

(* A task that goes on to another point with the same local variables.       *)
LEMMA AtOnly ==
  ASSUME Types, NEW t \in Tasks, NEW a \in Points
  PROVE  LET r == [call[t] EXCEPT !.at = a]
         IN  /\ r \in Records /\ r.at = a /\ r.kind = call[t].kind /\ r.want = call[t].want
             /\ r.next = call[t].next /\ r.bh = call[t].bh /\ r.h = call[t].h /\ r.i = call[t].i
             /\ [call EXCEPT ![t].at = a] = [call EXCEPT ![t] = r]
  BY DEF Types, Records
-----------------------------------------------------------------------------
(* Every step keeps the invariant.                                           *)
LEMMA StepInv == CInv /\ [Next]_vars => CInv'
<1> SUFFICES ASSUME CInv, [Next]_vars PROVE CInv'
  OBVIOUS
<1> USE CacheAssumption
<1>t. ASSUME NEW t \in Tasks PROVE call[t] \in Records /\ Local(call[t], t) /\ (call[t].h # 0 => call[t].h \in Buffers) /\ (call[t].bh # 0 => call[t].bh \in Buffers)
  BY DEF CInv, Types, Locals, Records
<1>h. HeadTypes
  BY DEF CInv, Types
<1>0. 0 \notin Buffers
  BY DEF Buffers
<1>i. 0 \in 0..(2 * NR_BUFFERS + 1) /\ 1 \in 0..(2 * NR_BUFFERS + 1)
  OBVIOUS
<1>frame. ASSUME UNCHANGED <<heads, call>>, cur' \in Tasks \cup {NULL} PROVE CInv'
  BY <1>frame DEF CInv, Types, HeadTypes, Locals, LockOwned, Locks, SyncAt, CountAccounted, References,
     Pending, HashKept, Target, OneBufferPerBlock, heads
<1>1. ASSUME NEW t \in Tasks, NEW k \in {"getblk", "bread", "breada"}, NEW b \in Blocks,
             NEW a \in Blocks \cup {NoBlock}, Begin(t, k, b, a) PROVE CInv'
  <2> DEFINE r == [Idle EXCEPT !.at = "get", !.kind = k, !.want = b, !.next = a]
  <2>1. r \in Records /\ r.at = "get" /\ r.kind = k /\ r.next = a /\ r.bh = 0 /\ r.h = 0
    BY <1>i DEF Records, Points, Idle
  <2>2. call' = [call EXCEPT ![t] = r] /\ cur' = t /\ UNCHANGED heads
    BY <1>1 DEF Begin
  <2> HIDE DEF r
  <2>3. Local(r, t)
    BY <1>1, <2>1 DEF Begin, Local
  <2>4. r.bh = call[t].bh /\ \A h \in Buffers : Has(r, h) = Has(call[t], h)
    BY <1>0, <1>1, <2>1 DEF Begin, Has, Idle
  <2> QED
    BY <2>1, <2>2, <2>3, <2>4, LocalStepInv
<1>2. ASSUME NEW t \in Tasks, GetHit(t) PROVE CInv'
  <2>1. PICK h \in Buffers : /\ call' = [call EXCEPT ![t].at = "hash", ![t].h = h]
                             /\ b_count' = [b_count EXCEPT ![h] = @ + 1]
                             /\ WaitsFor(t, h) /\ b_block[h] = Target(t)
    BY <1>2 DEF GetHit, find_buffer
  <2> DEFINE r == [call[t] EXCEPT !.at = "hash", !.h = h]
  <2>2. /\ r \in Records /\ r.at = "hash" /\ r.h = h /\ r.bh = call[t].bh /\ r.want = call[t].want
        /\ r.next = call[t].next /\ r.kind = call[t].kind
    BY <1>t DEF Records, Points
  <2>3. call' = [call EXCEPT ![t] = r]
    BY <2>1 DEF CInv, Types
  <2> HIDE DEF r
  <2>4. Moves(t, r)
    BY <2>2, <2>3, MovesOne DEF CInv
  <2>5. Local(r, t)
    BY <1>0, <1>2, <1>t, <2>2 DEF GetHit, Local
  <2>6. HeadTypes'
    BY <1>2, <1>h, <2>1 DEF GetHit, HeadTypes, WaitsFor
  <2>7. \A g \in Buffers : b_count'[g] = b_count[g] + Has(r, g) - Has(call[t], g)
    BY <1>2, <1>h, <2>1, <2>2 DEF GetHit, HeadTypes, Has
  <2>8. b_block' = b_block /\ b_block'[r.h] = TargetOf(r)
    BY <1>2, <2>1, <2>2 DEF GetHit, Target, TargetOf
  <2>9. \A g \in Buffers : b_lock'[g] = b_lock[g] /\ b_io'[g] = b_io[g] /\ ~LocksIn(r, g)
    BY <1>2, <2>2 DEF GetHit, LocksIn
  <2> QED
    BY <2>2, <2>4, <2>5, <2>6, <2>7, <2>8, <2>9, TaskStepInv
<1>3. ASSUME NEW t \in Tasks, GetMiss(t) PROVE CInv'
  <2>1. CASE Unused = {}
    <3> DEFINE r == [call[t] EXCEPT !.at = "nobuf"]
    <3>1. /\ r \in Records /\ r.at = "nobuf" /\ r.h = call[t].h /\ r.bh = call[t].bh
          /\ r.next = call[t].next /\ r.kind = call[t].kind /\ call' = [call EXCEPT ![t] = r]
      BY <1>3, <2>1, AtOnly DEF CInv, Points, GetMiss
    <3> HIDE DEF r
    <3>2. Local(r, t) /\ \A h \in Buffers : Has(r, h) = Has(call[t], h)
      BY <1>3, <1>t, <3>1 DEF GetMiss, Local, Has
    <3> QED
      BY <1>3, <2>1, <3>1, <3>2, LocalStepInv DEF GetMiss
  <2>2. CASE Unused # {}
    <3> DEFINE r == [call[t] EXCEPT !.at = "victim", !.h = Victim]
    <3>1. Victim \in Buffers
      BY <2>2, VictimUnused DEF CInv, Unused
    <3>2. /\ r \in Records /\ r.at = "victim" /\ r.h = Victim /\ r.bh = call[t].bh
          /\ r.next = call[t].next /\ r.kind = call[t].kind
      BY <1>t, <3>1 DEF Records, Points
    <3>3. call' = [call EXCEPT ![t] = r]
      BY <1>3, <2>2 DEF GetMiss, CInv, Types
    <3> HIDE DEF r
    <3>4. Local(r, t) /\ \A h \in Buffers : Has(r, h) = Has(call[t], h)
      BY <1>0, <1>3, <1>t, <3>1, <3>2 DEF GetMiss, Local, Has
    <3> QED
      BY <1>3, <2>2, <3>2, <3>3, <3>4, LocalStepInv DEF GetMiss, WaitsFor
  <2> QED
    BY <2>1, <2>2
<1>4. ASSUME NEW t \in Tasks, HashReady(t) PROVE CInv'
  <2> DEFINE r == [call[t] EXCEPT !.at = "got"]
  <2>1. call' = [call EXCEPT ![t].at = "got"] /\ cur' = t /\ UNCHANGED heads
    BY <1>4 DEF HashReady, CInv, HashKept, heads
  <2>2. /\ r \in Records /\ r.at = "got" /\ r.h = call[t].h /\ r.bh = call[t].bh
        /\ r.next = call[t].next /\ r.kind = call[t].kind /\ call' = [call EXCEPT ![t] = r]
    BY <2>1, AtOnly DEF CInv, Points
  <2> HIDE DEF r
  <2>3. Local(r, t) /\ \A h \in Buffers : Has(r, h) = Has(call[t], h)
    BY <1>4, <1>t, <2>2 DEF HashReady, Local, Has
  <2> QED
    BY <2>1, <2>2, <2>3, LocalStepInv
<1>5. ASSUME NEW t \in Tasks, VictimReady(t) PROVE CInv'
  <2> DEFINE h == call[t].h
  <2>1. h \in Buffers
    BY <1>5, <1>t DEF VictimReady, Local
  <2>2. CASE Reuse(h, Target(t))
    <3> DEFINE r == [call[t] EXCEPT !.at = "got"]
    <3>1. /\ r \in Records /\ r.at = "got" /\ r.h = call[t].h /\ r.bh = call[t].bh
          /\ r.next = call[t].next /\ r.kind = call[t].kind /\ call' = [call EXCEPT ![t] = r]
      BY <1>5, <2>2, AtOnly DEF CInv, Points, VictimReady
    <3> HIDE DEF r
    <3>2. Moves(t, r)
      BY <3>1, MovesOne DEF CInv
    <3>3. Local(r, t)
      BY <1>5, <1>t, <3>1 DEF VictimReady, Local
    <3>4. Target(t) \in Blocks \cup {NoBlock}
      BY <1>t DEF Target, Records
    <3>5. HeadTypes'
      <4>1. free_list' \in Bijection(Buffers, Buffers)
        BY <1>5, <1>h, <2>1, <2>2, RequeuedList DEF VictimReady, HeadTypes
      <4>2. /\ b_block' = [b_block EXCEPT ![h] = Target(t)] /\ b_count' = [b_count EXCEPT ![h] = 1]
            /\ b_dirt' = [b_dirt EXCEPT ![h] = FALSE] /\ b_uptodate' = [b_uptodate EXCEPT ![h] = FALSE]
            /\ cur' = t /\ UNCHANGED <<b_lock, b_io>>
        BY <1>5, <2>2 DEF VictimReady
      <4> QED
        BY <1>h, <2>1, <3>4, <4>1, <4>2 DEF HeadTypes
    <3>6. \A g \in Buffers : b_count'[g] = b_count[g] + Has(r, g) - Has(call[t], g)
      <4>1. b_count[h] = 0 /\ call[t].bh # h
        BY <2>1, <2>2, CountZero DEF Reuse, CInv, References
      <4>2. b_count' = [b_count EXCEPT ![h] = 1] /\ call[t].at = "victim"
        BY <1>5, <2>2 DEF VictimReady
      <4> QED
        BY <1>h, <2>1, <3>1, <4>1, <4>2 DEF HeadTypes, Has
    <3>7. b_count[h] = 0 /\ find_buffer(b_block'[h]) = {} /\ b_block' = [b_block EXCEPT ![h] = b_block'[h]]
      <4>1. b_block' = [b_block EXCEPT ![h] = Target(t)] /\ b_block'[h] = Target(t)
        BY <1>5, <1>h, <2>1, <2>2 DEF VictimReady, HeadTypes
      <4> QED
        BY <2>2, <4>1 DEF Reuse
    <3>8. \A g \in Buffers : b_lock'[g] = b_lock[g] /\ b_io'[g] = b_io[g] /\ ~LocksIn(r, g)
      BY <1>5, <3>1 DEF VictimReady, LocksIn
    <3> QED
      BY <2>1, <3>1, <3>2, <3>3, <3>5, <3>6, <3>7, <3>8, TaskStepInv
  <2>3. CASE ~Reuse(h, Target(t)) /\ b_count[h] = 0 /\ b_dirt[h]
    <3> DEFINE r == [call[t] EXCEPT !.at = "sync", !.i = 1]
    <3>1. /\ r \in Records /\ r.at = "sync" /\ r.h = call[t].h /\ r.bh = call[t].bh
          /\ r.next = call[t].next /\ r.kind = call[t].kind /\ r.i = 1
      BY <1>t, <1>i DEF Records, Points
    <3>2. call' = [call EXCEPT ![t] = r] /\ cur' = t /\ UNCHANGED heads
      BY <1>5, <2>3 DEF VictimReady, CInv, Types, heads
    <3> HIDE DEF r
    <3>3. Local(r, t) /\ \A g \in Buffers : Has(r, g) = Has(call[t], g)
      BY <1>5, <1>t, <3>1 DEF VictimReady, Local, Has
    <3> QED
      BY <3>1, <3>2, <3>3, LocalStepInv
  <2>4. CASE ~Reuse(h, Target(t)) /\ ~(b_count[h] = 0 /\ b_dirt[h])
    <3> DEFINE r == [call[t] EXCEPT !.at = "get"]
    <3>1. call' = [call EXCEPT ![t].at = "get"] /\ cur' = t /\ UNCHANGED heads
      BY <1>5, <2>4 DEF VictimReady, heads
    <3>2. /\ r \in Records /\ r.at = "get" /\ r.h = call[t].h /\ r.bh = call[t].bh
          /\ r.next = call[t].next /\ r.kind = call[t].kind /\ call' = [call EXCEPT ![t] = r]
      BY <3>1, AtOnly DEF CInv, Points
    <3> HIDE DEF r
    <3>3. Local(r, t) /\ \A g \in Buffers : Has(r, g) = Has(call[t], g)
      BY <1>5, <1>t, <3>2 DEF VictimReady, Local, Has
    <3> QED
      BY <3>1, <3>2, <3>3, LocalStepInv
  <2> QED
    BY <2>2, <2>3, <2>4
<1>6. ASSUME NEW t \in Tasks, SyncBuffer(t) PROVE CInv'
  <2> DEFINE h == SyncAt(t)
  <2>1. h \in Buffers /\ call[t].i \in Int /\ h = ((call[t].i - 1) % NR_BUFFERS) + 1
    BY <1>t, <1>6 DEF SyncAt, Buffers, Records
  <2>2. CASE b_block[h] # NoBlock /\ b_dirt[h]
    <3> DEFINE r == [call[t] EXCEPT !.at = "syncqueue"]
    <3>1. /\ ~b_lock[h] /\ b_lock' = [b_lock EXCEPT ![h] = TRUE] /\ cur' \in {t, NULL}
          /\ call' = [call EXCEPT ![t].at = "syncqueue"]
          /\ UNCHANGED <<b_block, b_count, b_uptodate, b_dirt, b_io, free_list>>
      BY <1>6, <2>2 DEF SyncBuffer
    <3>2. /\ r \in Records /\ r.at = "syncqueue" /\ r.h = call[t].h /\ r.bh = call[t].bh /\ r.i = call[t].i
          /\ r.next = call[t].next /\ r.kind = call[t].kind /\ call' = [call EXCEPT ![t] = r]
      BY <3>1, AtOnly DEF CInv, Points
    <3> HIDE DEF r, h
    <3>3. Moves(t, r) /\ Local(r, t)
      BY <1>6, <1>t, <3>2, MovesOne DEF CInv, Local, SyncBuffer
    <3>4. HeadTypes'
      BY <1>h, <2>1, <3>1 DEF HeadTypes
    <3>5. \A g \in Buffers : b_count'[g] = b_count[g] + Has(r, g) - Has(call[t], g)
      BY <1>6, <1>h, <3>1, <3>2 DEF SyncBuffer, Has, HeadTypes
    <3>6. b_io[h] = "none" /\ b_io' = b_io
      BY <1>h, <2>1, <3>1 DEF CInv, LockOwned, HeadTypes
    <3>7. \A g \in Buffers : (LocksIn(r, g) <=> g = h) /\ (g # h => b_lock'[g] = b_lock[g]) /\ b_lock'[h]
      BY <1>h, <2>1, <3>1, <3>2 DEF LocksIn, HeadTypes
    <3>8. \A g \in Buffers :
            \/ /\ b_lock'[g] = b_lock[g] /\ b_io'[g] = b_io[g]
               /\ LocksIn(r, g) => LocksIn(call[t], g)
            \/ ~b_lock[g] /\ b_lock'[g] /\ b_io'[g] = "none"
      BY <2>1, <3>1, <3>6, <3>7
    <3>9. b_block' = b_block /\ r.at # "hash"
      BY <3>1, <3>2
    <3> QED
      BY <3>2, <3>3, <3>4, <3>5, <3>8, <3>9, TaskStepInv
  <2>3. CASE ~(b_block[h] # NoBlock /\ b_dirt[h])
    <3> DEFINE r == [call[t] EXCEPT !.i = call[t].i + 1]
    <3>1. call' = [call EXCEPT ![t].i = @ + 1] /\ cur' = t /\ UNCHANGED heads
      BY <1>6, <2>3 DEF SyncBuffer, heads
    <3>2. call[t].i + 1 \in 0..(2 * NR_BUFFERS + 1)
      BY <1>6, <1>t DEF SyncBuffer, Records
    <3>3. /\ r \in Records /\ r.at = call[t].at /\ r.h = call[t].h /\ r.bh = call[t].bh
          /\ r.next = call[t].next /\ r.kind = call[t].kind /\ r.i = call[t].i + 1
      BY <1>t, <3>2 DEF Records
    <3>4. call' = [call EXCEPT ![t] = r]
      BY <3>1 DEF CInv, Types
    <3> HIDE DEF r
    <3>5. Local(r, t) /\ \A g \in Buffers : Has(r, g) = Has(call[t], g)
      BY <1>6, <1>t, <3>3 DEF SyncBuffer, Local, Has, Records
    <3>6. r.at = "sync"
      BY <1>6, <3>3 DEF SyncBuffer
    <3> QED
      BY <3>1, <3>3, <3>4, <3>5, <3>6, LocalStepInv
  <2> QED
    BY <2>2, <2>3
<1>7. ASSUME NEW t \in Tasks, SyncQueue(t) PROVE CInv'
  <2> DEFINE h == SyncAt(t)
             r == [call[t] EXCEPT !.at = "sync", !.i = call[t].i + 1]
  <2>1. h \in Buffers /\ call[t].i \in Int /\ h = ((call[t].i - 1) % NR_BUFFERS) + 1
    BY <1>t, <1>7 DEF SyncAt, Buffers, Records
  <2>2. /\ b_dirt' = [b_dirt EXCEPT ![h] = FALSE] /\ b_io' = [b_io EXCEPT ![h] = "write"]
        /\ cur' = t /\ UNCHANGED <<b_block, b_count, b_lock, b_uptodate, free_list>>
    BY <1>7 DEF SyncQueue
  <2>3. call[t].i + 1 \in 0..(2 * NR_BUFFERS + 1)
    BY <1>7, <1>t DEF SyncQueue, Records, Local
  <2>4. /\ r \in Records /\ r.at = "sync" /\ r.h = call[t].h /\ r.bh = call[t].bh
        /\ r.next = call[t].next /\ r.kind = call[t].kind /\ r.i = call[t].i + 1
    BY <1>t, <2>3 DEF Records, Points
  <2>5. call' = [call EXCEPT ![t] = r]
    BY <1>7 DEF SyncQueue, CInv, Types
  <2> HIDE DEF r, h
  <2>6. Moves(t, r) /\ Local(r, t)
    <3>1. Moves(t, r)
      BY <2>4, <2>5, MovesOne DEF CInv
    <3>2. Local(r, t)
      BY <1>7, <1>t, <2>1, <2>4 DEF Local, SyncQueue
    <3> QED
      BY <3>1, <3>2
  <2>7. HeadTypes'
    BY <1>h, <2>1, <2>2 DEF HeadTypes
  <2>8. \A g \in Buffers : b_count'[g] = b_count[g] + Has(r, g) - Has(call[t], g)
    BY <1>7, <1>h, <2>2, <2>4 DEF SyncQueue, Has, HeadTypes
  <2>9. Locks(t, h) /\ b_lock[h]
    BY <1>7, <2>1 DEF Locks, SyncQueue, CInv, LockOwned, SyncAt
  <2>10. \A g \in Buffers : /\ ~LocksIn(r, g) /\ (LocksIn(call[t], g) <=> g = h)
                            /\ b_lock'[g] = b_lock[g] /\ (g # h => b_io'[g] = b_io[g])
                            /\ b_io'[h] # "none"
    BY <1>7, <1>h, <2>1, <2>2, <2>4 DEF LocksIn, HeadTypes, SyncQueue
  <2> QED
    BY <2>1, <2>2, <2>4, <2>6, <2>7, <2>8, <2>9, <2>10, TaskStepInv
<1>8. ASSUME NEW t \in Tasks, SyncWait(t) PROVE CInv'
  <2>1. cur' = NULL /\ UNCHANGED <<heads, call>>
    BY <1>8 DEF SyncWait
  <2> QED
    BY <1>frame, <2>1
<1>9. ASSUME NEW t \in Tasks, SyncDone(t) PROVE CInv'
  <2>1. CASE call[t].kind = "sync"
    <3>1. Idle \in Records /\ Local(Idle, t)
      BY <1>i DEF Records, Idle, Points, Local
    <3>2. call' = [call EXCEPT ![t] = Idle] /\ cur' = NULL /\ UNCHANGED heads
      BY <1>9, <2>1 DEF SyncDone
    <3>3. Idle.bh = call[t].bh /\ Idle.at = "user" /\ \A h \in Buffers : Has(Idle, h) = Has(call[t], h)
      BY <1>0, <1>9, <1>t, <2>1 DEF Has, Idle, Local, SyncDone
    <3> QED
      BY <3>1, <3>2, <3>3, LocalStepInv
  <2>2. CASE call[t].kind # "sync"
    <3> DEFINE r == [call[t] EXCEPT !.at = "victim", !.i = 0]
    <3>1. /\ r \in Records /\ r.at = "victim" /\ r.h = call[t].h /\ r.bh = call[t].bh
          /\ r.next = call[t].next /\ r.kind = call[t].kind
      BY <1>t, <1>i DEF Records, Points
    <3>2. call' = [call EXCEPT ![t] = r]
      BY <1>9, <2>2 DEF SyncDone, CInv, Types
    <3> HIDE DEF r
    <3>3. Local(r, t) /\ \A h \in Buffers : Has(r, h) = Has(call[t], h)
      BY <1>9, <1>t, <2>2, <3>1 DEF SyncDone, Local, Has
    <3>4. cur' \in Tasks \cup {NULL} /\ UNCHANGED heads
      BY <1>9, <2>2 DEF SyncDone, WaitsFor
    <3> QED
      BY <3>1, <3>2, <3>3, <3>4, LocalStepInv
  <2> QED
    BY <2>1, <2>2
<1>10. ASSUME NEW t \in Tasks, BeginSync(t) PROVE CInv'
  <2>1. PICK first \in {1, NR_BUFFERS + 1} :
          call' = [call EXCEPT ![t] = [Idle EXCEPT !.at = "sync", !.kind = "sync", !.i = first]]
    BY <1>10 DEF BeginSync
  <2> DEFINE r == [Idle EXCEPT !.at = "sync", !.kind = "sync", !.i = first]
  <2>2. first \in 0..(2 * NR_BUFFERS + 1) /\ first >= 1
    OBVIOUS
  <2>3. /\ r \in Records /\ r.at = "sync" /\ r.kind = "sync" /\ r.i = first /\ r.bh = 0 /\ r.h = 0
        /\ r.next = NoBlock
    BY <2>2 DEF Records, Points, Idle
  <2> HIDE DEF r
  <2>4. Local(r, t)
    BY <2>2, <2>3 DEF Local
  <2>5. r.bh = call[t].bh /\ \A h \in Buffers : Has(r, h) = Has(call[t], h)
    BY <1>0, <1>10, <2>3 DEF BeginSync, Has, Idle
  <2>6. call' = [call EXCEPT ![t] = r] /\ cur' = t /\ UNCHANGED heads
    BY <1>10, <2>1 DEF BeginSync, r
  <2> QED
    BY <2>3, <2>4, <2>5, <2>6, LocalStepInv
<1>11. ASSUME NEW t \in Tasks, GotMain(t) PROVE CInv'
  <2> DEFINE h == call[t].h
             a == CASE call[t].kind = "getblk"                    -> "user"
                    [] call[t].kind = "bread" /\ b_uptodate[h]    -> "user"
                    [] call[t].kind = "breada" /\ b_uptodate[h]   -> "get"
                    [] OTHER                                      -> "ll"
             r == [call[t] EXCEPT !.bh = h, !.h = 0, !.at = a]
  <2>1. a \in {"user", "get", "ll"} /\ (a = "get" => call[t].kind = "breada")
    OBVIOUS
  <2>2. call' = [call EXCEPT ![t].bh = h, ![t].h = 0, ![t].at = a] /\ UNCHANGED heads
    BY <1>11 DEF GotMain
  <2>3. cur' \in {NULL, t}
    BY <1>11 DEF GotMain
  <2> HIDE DEF a
  <2>4. h \in Buffers
    BY <1>11, <1>t DEF GotMain, Local
  <2>5. /\ r \in Records /\ r.at = a /\ r.h = 0 /\ r.bh = h
        /\ r.next = call[t].next /\ r.kind = call[t].kind
    BY <1>t, <2>1, <2>4 DEF Records, Points
  <2>6. call' = [call EXCEPT ![t] = r]
    BY <2>2 DEF CInv, Types
  <2> HIDE DEF r
  <2>7. Local(r, t)
    BY <1>11, <1>t, <2>1, <2>4, <2>5 DEF GotMain, Local
  <2>8. \A g \in Buffers : Has(r, g) = Has(call[t], g)
    BY <1>0, <1>11, <2>1, <2>4, <2>5 DEF GotMain, Has
  <2> QED
    BY <2>1, <2>2, <2>3, <2>5, <2>6, <2>7, <2>8, LocalStepInv
<1>12. ASSUME NEW t \in Tasks, LowLevelLock(t) PROVE CInv'
  <2> DEFINE h == call[t].bh
  <2>1. h \in Buffers /\ ~b_lock[h]
    BY <1>12, <1>t DEF LowLevelLock, Local
  <2>2. CASE b_uptodate[h]
    <3> DEFINE r == [call[t] EXCEPT !.at = AfterRead(t)]
    <3>1. call' = [call EXCEPT ![t].at = AfterRead(t)] /\ cur' = t /\ UNCHANGED heads
      BY <1>12, <2>2 DEF LowLevelLock, heads
    <3>2. AfterRead(t) \in Points /\ AfterRead(t) \in {"get", "wait"} /\ (AfterRead(t) = "get" => t \in AheadTasks)
      BY <1>t DEF AfterRead, Points, Local
    <3>3. /\ r \in Records /\ r.at = AfterRead(t) /\ r.h = call[t].h /\ r.bh = call[t].bh
          /\ r.next = call[t].next /\ r.kind = call[t].kind /\ call' = [call EXCEPT ![t] = r]
      BY <3>1, <3>2, AtOnly DEF CInv
    <3> HIDE DEF r
    <3>4. Local(r, t)
      BY <1>12, <1>t, <3>2, <3>3 DEF LowLevelLock, Local
    <3>5. \A g \in Buffers : Has(r, g) = Has(call[t], g)
      BY <1>12, <3>2, <3>3 DEF LowLevelLock, Has
    <3> QED
      BY <3>1, <3>2, <3>3, <3>4, <3>5, LocalStepInv
  <2>3. CASE ~b_uptodate[h]
    <3> DEFINE r == [call[t] EXCEPT !.at = "queue"]
    <3>1. /\ b_lock' = [b_lock EXCEPT ![h] = TRUE] /\ cur' \in {t, NULL}
          /\ call' = [call EXCEPT ![t].at = "queue"]
          /\ UNCHANGED <<b_block, b_count, b_uptodate, b_dirt, b_io, free_list>>
      BY <1>12, <2>3 DEF LowLevelLock
    <3>2. /\ r \in Records /\ r.at = "queue" /\ r.h = call[t].h /\ r.bh = call[t].bh
          /\ r.next = call[t].next /\ r.kind = call[t].kind /\ call' = [call EXCEPT ![t] = r]
      BY <3>1, AtOnly DEF CInv, Points
    <3> HIDE DEF r
    <3>3. Moves(t, r)
      BY <3>2, MovesOne DEF CInv
    <3>4. Local(r, t)
      BY <1>12, <1>t, <3>2 DEF Local, LowLevelLock
    <3>5. HeadTypes'
      BY <1>h, <2>1, <3>1 DEF HeadTypes
    <3>6. \A g \in Buffers : b_count'[g] = b_count[g] + Has(r, g) - Has(call[t], g)
      BY <1>12, <1>h, <3>1, <3>2 DEF LowLevelLock, Has, HeadTypes
    <3>7. b_io[h] = "none" /\ b_io' = b_io /\ b_block' = b_block /\ r.at # "hash"
      BY <1>h, <2>1, <3>1, <3>2 DEF CInv, LockOwned, HeadTypes
    <3>8. \A g \in Buffers : (LocksIn(r, g) <=> g = h) /\ (g # h => b_lock'[g] = b_lock[g]) /\ b_lock'[h]
      BY <1>h, <2>1, <3>1, <3>2 DEF LocksIn, HeadTypes
    <3>9. \A g \in Buffers :
            \/ /\ b_lock'[g] = b_lock[g] /\ b_io'[g] = b_io[g]
               /\ LocksIn(r, g) => LocksIn(call[t], g)
            \/ ~b_lock[g] /\ b_lock'[g] /\ b_io'[g] = "none"
      BY <2>1, <3>7, <3>8
    <3> QED
      BY <3>2, <3>3, <3>4, <3>5, <3>6, <3>7, <3>9, TaskStepInv
  <2> QED
    BY <2>2, <2>3
<1>13. ASSUME NEW t \in Tasks, LowLevelQueue(t) PROVE CInv'
  <2> DEFINE h == call[t].bh
             r == [call[t] EXCEPT !.at = AfterRead(t)]
  <2>1. h \in Buffers
    BY <1>13, <1>t DEF LowLevelQueue, Local
  <2>2. /\ b_dirt' = [b_dirt EXCEPT ![h] = FALSE] /\ b_io' = [b_io EXCEPT ![h] = "read"]
        /\ cur' \in {t, NULL} /\ call' = [call EXCEPT ![t].at = AfterRead(t)]
        /\ b_block' = b_block /\ b_count' = b_count /\ b_lock' = b_lock /\ b_uptodate' = b_uptodate
        /\ free_list' = free_list
    BY <1>13 DEF LowLevelQueue
  <2>3. AfterRead(t) \in Points /\ AfterRead(t) \in {"get", "wait"} /\ (AfterRead(t) = "get" => t \in AheadTasks)
    BY <1>t DEF AfterRead, Points, Local
  <2>4. /\ r \in Records /\ r.at = AfterRead(t) /\ r.h = call[t].h /\ r.bh = call[t].bh
        /\ r.next = call[t].next /\ r.kind = call[t].kind /\ call' = [call EXCEPT ![t] = r]
    BY <2>2, <2>3, AtOnly DEF CInv
  <2> HIDE DEF r
  <2>5. Moves(t, r)
    BY <2>4, MovesOne DEF CInv
  <2>6. Local(r, t)
    BY <1>13, <1>t, <2>3, <2>4 DEF Local, LowLevelQueue
  <2>7. HeadTypes'
    BY <1>h, <2>1, <2>2 DEF HeadTypes
  <2>8. \A g \in Buffers : b_count'[g] = b_count[g] + Has(r, g) - Has(call[t], g)
    BY <1>13, <1>h, <2>2, <2>3, <2>4 DEF LowLevelQueue, Has, HeadTypes
  <2>9. b_lock[h]
    BY <1>13, <2>1 DEF Locks, LowLevelQueue, CInv, LockOwned
  <2>10. \A g \in Buffers : /\ ~LocksIn(r, g) /\ (LocksIn(call[t], g) <=> g = h)
                            /\ b_lock'[g] = b_lock[g] /\ (g # h => b_io'[g] = b_io[g])
                            /\ b_io'[h] # "none"
    BY <1>13, <1>h, <2>1, <2>2, <2>3, <2>4 DEF LocksIn, HeadTypes, LowLevelQueue
  <2> QED
    BY <2>1, <2>2, <2>3, <2>4, <2>5, <2>6, <2>7, <2>8, <2>9, <2>10, TaskStepInv
<1>14. ASSUME NEW t \in Tasks, ReadAhead(t) PROVE CInv'
  <2> DEFINE bh == call[t].bh
             h == call[t].h
             r == [call[t] EXCEPT !.at = "wait", !.h = 0, !.next = NoBlock]
  <2>1. h \in Buffers /\ bh \in Buffers
    BY <1>14, <1>t DEF ReadAhead, Local
  <2>2. /\ b_count' = [b_count EXCEPT ![h] = @ - 1] /\ cur' = t
        /\ call' = [call EXCEPT ![t].at = "wait", ![t].h = 0, ![t].next = NoBlock]
        /\ b_block' = b_block /\ b_uptodate' = b_uptodate /\ free_list' = free_list
    BY <1>14 DEF ReadAhead
  <2>3. \/ /\ ~b_lock[bh] /\ b_lock' = [b_lock EXCEPT ![bh] = TRUE]
           /\ b_dirt' = [b_dirt EXCEPT ![bh] = FALSE] /\ b_io' = [b_io EXCEPT ![bh] = "read"]
        \/ b_lock' = b_lock /\ b_dirt' = b_dirt /\ b_io' = b_io
    BY <1>14 DEF ReadAhead
  <2>4. /\ r \in Records /\ r.at = "wait" /\ r.h = 0 /\ r.bh = bh
        /\ r.next = NoBlock /\ r.kind = call[t].kind
    BY <1>t DEF Records, Points
  <2>5. call' = [call EXCEPT ![t] = r]
    BY <2>2 DEF CInv, Types
  <2> HIDE DEF r
  <2>6. Moves(t, r)
    BY <2>4, <2>5, MovesOne DEF CInv
  <2>7. Local(r, t)
    BY <1>0, <1>14, <1>t, <2>1, <2>4 DEF Local, ReadAhead
  <2>8. HeadTypes'
    <3>1. /\ b_lock' \in [Buffers -> BOOLEAN] /\ b_dirt' \in [Buffers -> BOOLEAN]
          /\ b_io' \in [Buffers -> {"none", "read", "write"}]
      BY <1>h, <2>3 DEF HeadTypes
    <3>2. b_count' \in [Buffers -> Int]
      BY <1>h, <2>1, <2>2 DEF HeadTypes
    <3> QED
      BY <1>h, <2>2, <3>1, <3>2 DEF HeadTypes
  <2>9. \A g \in Buffers : b_count'[g] = b_count[g] + Has(r, g) - Has(call[t], g)
    BY <1>0, <1>14, <1>h, <2>1, <2>2, <2>4 DEF ReadAhead, Has, HeadTypes
  <2>10. \A g \in Buffers : /\ ~LocksIn(r, g)
                            /\ \/ b_lock'[g] = b_lock[g] /\ b_io'[g] = b_io[g]
                               \/ ~b_lock[g] /\ b_lock'[g]
    BY <1>h, <2>1, <2>3, <2>4 DEF LocksIn, HeadTypes
  <2> QED
    BY <2>2, <2>4, <2>6, <2>7, <2>8, <2>9, <2>10, TaskStepInv
<1>15. ASSUME NEW t \in Tasks, SleepForRead(t) PROVE CInv'
  <2>1. cur' = NULL /\ UNCHANGED <<heads, call>>
    BY <1>15 DEF SleepForRead
  <2> QED
    BY <1>frame, <2>1
<1>r. ASSUME NEW t \in Tasks, call[t].at \in {"wait", "release"}, call' = Woken([call EXCEPT ![t] = Idle]),
             b_count' = [b_count EXCEPT ![call[t].bh] = @ - 1], cur' = NULL,
             UNCHANGED <<b_block, b_lock, b_uptodate, b_dirt, b_io, free_list>>
      PROVE  CInv'
  <2>1. Idle \in Records /\ Local(Idle, t) /\ Idle.at = "user" /\ Idle.bh = 0 /\ Idle.h = 0
    BY <1>i DEF Records, Idle, Points, Local
  <2>2. Moves(t, Idle)
    BY <1>r, <2>1, MovesWoken DEF CInv
  <2>3. call[t].bh \in Buffers
    BY <1>r, <1>t DEF Local
  <2>4. HeadTypes'
    BY <1>h, <1>r, <2>3 DEF HeadTypes
  <2>5. \A g \in Buffers : b_count'[g] = b_count[g] + Has(Idle, g) - Has(call[t], g)
    BY <1>0, <1>h, <1>r, <2>1, <2>3 DEF Has, HeadTypes
  <2>6. b_block' = b_block
    BY <1>r
  <2>7. \A g \in Buffers : b_lock'[g] = b_lock[g] /\ b_io'[g] = b_io[g] /\ ~LocksIn(Idle, g)
    BY <1>r, <2>1 DEF LocksIn
  <2> QED
    BY <2>1, <2>2, <2>4, <2>5, <2>6, <2>7, TaskStepInv
<1>16. ASSUME NEW t \in Tasks, ReadDone(t) PROVE CInv'
  <2>1. CASE b_uptodate[call[t].bh]
    <3> DEFINE r == [call[t] EXCEPT !.at = "user"]
    <3>1. call' = [call EXCEPT ![t].at = "user"] /\ cur' = NULL /\ UNCHANGED heads
      BY <1>16, <2>1 DEF ReadDone, heads
    <3>2. /\ r \in Records /\ r.at = "user" /\ r.h = call[t].h /\ r.bh = call[t].bh
          /\ r.next = call[t].next /\ r.kind = call[t].kind /\ call' = [call EXCEPT ![t] = r]
      BY <3>1, AtOnly DEF CInv, Points
    <3> HIDE DEF r
    <3>3. Local(r, t) /\ \A h \in Buffers : Has(r, h) = Has(call[t], h)
      BY <1>16, <1>t, <3>2 DEF ReadDone, Local, Has
    <3> QED
      BY <3>1, <3>2, <3>3, LocalStepInv
  <2>2. CASE ~b_uptodate[call[t].bh]
    BY <1>16, <1>r, <2>2 DEF ReadDone
  <2> QED
    BY <2>1, <2>2
<1>17. ASSUME NEW t \in Tasks, Modify(t) PROVE CInv'
  <2>1. call[t].bh \in Buffers
    BY <1>17, <1>t DEF Modify
  <2>2. HeadTypes'
    BY <1>17, <1>h, <2>1 DEF Modify, HeadTypes
  <2> QED
    BY <1>17, <2>2 DEF Modify, CInv, Types, Locals, LockOwned, Locks, SyncAt, CountAccounted, References,
       Pending, HashKept, Target, OneBufferPerBlock
<1>18. ASSUME NEW t \in Tasks, Release(t) PROVE CInv'
  <2> DEFINE r == [call[t] EXCEPT !.at = "release"]
  <2>1. call' = [call EXCEPT ![t].at = "release"] /\ cur' \in {NULL, t} /\ UNCHANGED heads
    BY <1>18 DEF Release, WaitsFor
  <2>2. /\ r \in Records /\ r.at = "release" /\ r.h = call[t].h /\ r.bh = call[t].bh
        /\ r.next = call[t].next /\ r.kind = call[t].kind /\ call' = [call EXCEPT ![t] = r]
    BY <2>1, AtOnly DEF CInv, Points
  <2> HIDE DEF r
  <2>3. Local(r, t) /\ \A h \in Buffers : Has(r, h) = Has(call[t], h)
    BY <1>18, <1>t, <2>2 DEF Release, Local, Has
  <2> QED
    BY <2>1, <2>2, <2>3, LocalStepInv
<1>19. ASSUME NEW t \in Tasks, Released(t) PROVE CInv'
  BY <1>19, <1>r DEF Released
<1>20. ASSUME NEW h \in Buffers, NEW uptodate \in BOOLEAN, EndRequest(h, uptodate) PROVE CInv'
  <2>1. HeadTypes'
    BY <1>20, <1>h DEF EndRequest, HeadTypes
  <2>2. LockOwned'
    <3>1. /\ b_io[h] # "none" /\ b_io' = [b_io EXCEPT ![h] = "none"]
          /\ b_lock' = [b_lock EXCEPT ![h] = FALSE] /\ call' = call
      BY <1>20 DEF EndRequest
    <3>2. ASSUME NEW t \in Tasks, NEW g \in Buffers PROVE (Locks(t, g)' <=> Locks(t, g)) /\ ~Locks(t, h)
      BY <3>1 DEF CInv, LockOwned, Locks, SyncAt
    <3> QED
      BY <1>h, <3>1, <3>2 DEF CInv, LockOwned, HeadTypes
  <2> QED
    BY <1>20, <2>1, <2>2 DEF EndRequest, CInv, Types, Locals, CountAccounted, References,
       Pending, HashKept, Target, OneBufferPerBlock
<1>21. ASSUME UNCHANGED vars PROVE CInv'
  BY <1>21, <1>frame, <1>h DEF vars, heads, HeadTypes
<1> QED
  BY <1>1, <1>2, <1>3, <1>4, <1>5, <1>6, <1>7, <1>8, <1>9, <1>10, <1>11, <1>12, <1>13, <1>14, <1>15,
     <1>16, <1>17, <1>18, <1>19, <1>20, <1>21 DEF Next, InCall

(* The inductive invariant is one.                                           *)
THEOREM CacheInv == Spec => []CInv
  BY InitInv, StepInv, PTL DEF Spec

(* Whatever the tasks do and wherever they sleep in getblk, bread, breada,   *)
(* brelse and sync_dev, the variables keep their types; b_count, 16 bits in  *)
(* the code, is at most two for a task.                                      *)
THEOREM CacheTypeOK == Spec => []TypeOK
<1>1. CInv => TypeOK
  <2> SUFFICES ASSUME CInv PROVE TypeOK
    OBVIOUS
  <2> DEFINE n == Cardinality(Tasks)
  <2>1. n \in Nat
    BY CacheAssumption, FS_CardinalityType
  <2>2. ASSUME NEW h \in Buffers PROVE b_count[h] \in 0..(2 * n)
    <3>1. References(h) \subseteq Tasks /\ Pending(h) \subseteq Tasks
      BY DEF References, Pending
    <3>2. /\ Cardinality(References(h)) \in Nat /\ Cardinality(Pending(h)) \in Nat
          /\ Cardinality(References(h)) <= n /\ Cardinality(Pending(h)) <= n
      BY <3>1, CacheAssumption, FS_Subset, FS_CardinalityType
    <3>3. b_count[h] = Cardinality(References(h)) + Cardinality(Pending(h))
      BY DEF CInv, CountAccounted
    <3> QED
      BY <2>1, <3>2, <3>3
  <2> HIDE DEF n
  <2>3. b_count \in [Buffers -> 0..(2 * n)]
    BY <2>2 DEF CInv, Types, HeadTypes
  <2> QED
    BY <2>3 DEF TypeOK, CInv, Types, HeadTypes, Records, n
<1> QED
  BY <1>1, CacheInv, PTL

(* The cache never has two buffers for a block, and b_count is the number of *)
(* references tasks have, although getblk, get_hash_table and sync_dev sleep *)
(* between looking at a buffer and using it.                                 *)
THEOREM CacheBuffersAccounted == Spec => []BuffersAccounted
<1>1. CInv => BuffersAccounted
  BY DEF CInv, BuffersAccounted
<1> QED
  BY <1>1, CacheInv, PTL

(* getblk gives a buffer to another block only while nobody has it, it is    *)
(* unlocked and clean, and no transfer is under way for it, although it      *)
(* chose the buffer before it slept.                                         *)
THEOREM CacheOnlyIdleReused == Spec => OnlyIdleReused
<1> DEFINE Reused == \A h \in Buffers : b_block'[h] # b_block[h] =>
                       b_count[h] = 0 /\ ~b_lock[h] /\ ~b_dirt[h] /\ b_io[h] = "none"
<1>1. ASSUME CInv, [Next]_vars PROVE [Reused]_vars
  <2>1. ASSUME NEW t \in Tasks, VictimReady(t) PROVE Reused
    <3>1. call[t].h \in Buffers
      BY <1>1, <2>1 DEF VictimReady, CInv, Types, Records, Locals, Local
    <3>2. b_io[call[t].h] = "none"
      BY <1>1, <2>1, <3>1 DEF VictimReady, CInv, LockOwned
    <3> QED
      BY <1>1, <2>1, <3>1, <3>2 DEF VictimReady, Reuse, CInv, Types, HeadTypes
  <2>2. CASE b_block' = b_block
    BY <2>2
  <2>3. b_block' = b_block \/ \E t \in Tasks : VictimReady(t)
    BY <1>1 DEF Next, InCall, vars, heads, Begin, GetHit, GetMiss, HashReady, SyncBuffer, SyncQueue, SyncWait,
       SyncDone, BeginSync, GotMain, LowLevelLock, LowLevelQueue, ReadAhead, SleepForRead, ReadDone,
       Modify, Release, Released, EndRequest
  <2> QED
    BY <2>1, <2>2, <2>3
<1> QED
  BY <1>1, CacheInv, PTL DEF Spec, OnlyIdleReused
-----------------------------------------------------------------------------
(* u has a buffer it will give back, and does not sleep on buffer_wait.      *)
Waker(u) == call[u].at # "nobuf" /\ WillRelease(u)

(* A step that puts nobody to sleep on buffer_wait, and after which whoever  *)
(* could wake the sleepers still can, leaves no sleeper alone; ...           *)
LEMMA WakersStay ==
  ASSUME SleeperHasWaker,
         \A u \in Tasks : (call'[u].at = "nobuf" => call[u].at = "nobuf") /\ (Waker(u) => Waker(u)')
  PROVE  SleeperHasWaker'
<1> SUFFICES ASSUME NEW t \in Tasks, call'[t].at = "nobuf" PROVE \E u \in Tasks : Waker(u)'
  BY DEF SleeperHasWaker, Waker
<1>1. PICK u \in Tasks : Waker(u)
  BY DEF SleeperHasWaker, Waker
<1> QED
  BY <1>1

(* ... nor does the scan of the free list that finds every buffer in use: if *)
(* all who have a buffer slept on buffer_wait, each of them would be a task  *)
(* in breada, which has one, and there are fewer of those than buffers.      *)
LEMMA SleeperNotAlone ==
  ASSUME CInv, SleeperHasWaker, Cardinality(AheadTasks) < NR_BUFFERS, NEW t \in Tasks, GetMiss(t), Unused = {}
  PROVE  SleeperHasWaker'
<1>1. SUFFICES ASSUME ~SleeperHasWaker' PROVE FALSE
  OBVIOUS
<1>2. \A u \in Tasks : ~Waker(u)'
  BY <1>1 DEF SleeperHasWaker, Waker
<1>3. call' = [call EXCEPT ![t].at = "nobuf"]
  BY DEF GetMiss
<1>4. \A u \in Tasks \ {t} : call'[u] = call[u]
  BY <1>3
<1>5. ASSUME NEW h \in Buffers PROVE \E u \in AheadTasks : call[u].bh = h
  <2>1. b_count[h] # 0
    BY DEF Unused
  <2>2. PICK u \in Tasks : u \in References(h) \/ u \in Pending(h)
    BY <2>1, CountZero DEF CInv, References, Pending
  <2>3. u \notin Pending(h)
    BY <1>2, <1>4 DEF Pending, GetMiss, Waker, WillRelease
  <2>4. call[u].bh = h /\ h # 0
    BY <2>2, <2>3 DEF References, Buffers
  <2>5. call[u].at \in {"get", "nobuf"}
    BY <1>2, <1>4, <2>4 DEF Waker, WillRelease, GetMiss
  <2> QED
    BY <2>4, <2>5 DEF CInv, Locals, Local
<1> DEFINE f == [h \in Buffers |-> CHOOSE u \in AheadTasks : call[u].bh = h]
<1>6. \A h \in Buffers : f[h] \in AheadTasks /\ call[f[h]].bh = h
  BY <1>5
<1>7. f \in [Buffers -> AheadTasks]
  BY <1>6
<1> HIDE DEF f
<1>8. \A g, h \in Buffers : f[g] = f[h] => g = h
  BY <1>6
<1>9. IsFiniteSet(Buffers) /\ Cardinality(Buffers) = NR_BUFFERS
  BY CacheAssumption, FS_Interval DEF Buffers
<1>10. IsFiniteSet(AheadTasks) /\ Cardinality(AheadTasks) < Cardinality(Buffers)
  BY <1>9, CacheAssumption, FS_Subset
<1> QED
  BY <1>7, <1>8, <1>9, <1>10, FS_PigeonHole

(* A step keeps everyone who sleeps on buffer_wait from being forgotten.     *)
LEMMA SleeperStep ==
  ASSUME CInv, SleeperHasWaker, Cardinality(AheadTasks) < NR_BUFFERS, [Next]_vars
  PROVE  SleeperHasWaker'
<1> DEFINE Stay == \A u \in Tasks : (call'[u].at = "nobuf" => call[u].at = "nobuf") /\ (Waker(u) => Waker(u)')
<1>t. \A t \in Tasks : /\ call[t] \in Records /\ Local(call[t], t)
                       /\ (call[t].h # 0 => call[t].h \in Buffers) /\ (call[t].bh # 0 => call[t].bh \in Buffers)
  BY DEF CInv, Types, Locals, Records
<1>c. call \in [Tasks -> Records]
  BY DEF CInv, Types
<1>0. 0 \notin Buffers
  BY DEF Buffers
<1>1. ASSUME NEW t \in Tasks, NEW k, NEW b, NEW a, Begin(t, k, b, a) PROVE Stay
  BY <1>1, <1>c DEF Begin, Idle, Waker, WillRelease
<1>2. ASSUME NEW t \in Tasks, GetHit(t) PROVE Stay
  BY <1>2, <1>c DEF GetHit, Records, Waker, WillRelease
<1>3. ASSUME NEW t \in Tasks, GetMiss(t), Unused # {} PROVE Stay
  BY <1>3, <1>c DEF GetMiss, Records, Waker, WillRelease
<1>4. ASSUME NEW t \in Tasks, HashReady(t) PROVE Stay
  <2>1. call' = [call EXCEPT ![t].at = "got"]
    BY <1>4 DEF HashReady, CInv, HashKept
  <2> QED
    BY <1>c, <2>1 DEF Records, Waker, WillRelease
<1>5. ASSUME NEW t \in Tasks, VictimReady(t) PROVE Stay
  BY <1>5, <1>c DEF VictimReady, Records, Waker, WillRelease
<1>6. ASSUME NEW t \in Tasks, SyncBuffer(t) PROVE Stay
  BY <1>6, <1>c DEF SyncBuffer, Records, Waker, WillRelease
<1>7. ASSUME NEW t \in Tasks, SyncQueue(t) PROVE Stay
  BY <1>7, <1>c DEF SyncQueue, Records, Waker, WillRelease
<1>8. ASSUME call' = call PROVE Stay
  BY <1>8 DEF Waker, WillRelease
<1>9. ASSUME NEW t \in Tasks, SyncDone(t) PROVE Stay
  <2>1. CASE call[t].kind = "sync"
    <3>1. ~Waker(t)
      BY <1>9, <1>t, <2>1 DEF SyncDone, Local, Waker, WillRelease
    <3>2. call' = [call EXCEPT ![t] = Idle] /\ Idle.at = "user"
      BY <1>9, <2>1 DEF SyncDone, Idle
    <3> QED
      BY <1>c, <3>1, <3>2 DEF Waker, WillRelease
  <2>2. CASE call[t].kind # "sync"
    BY <1>9, <1>c, <2>2 DEF SyncDone, Records, Waker, WillRelease
  <2> QED
    BY <2>1, <2>2
<1>10. ASSUME NEW t \in Tasks, BeginSync(t) PROVE Stay
  BY <1>10, <1>c DEF BeginSync, Idle, Waker, WillRelease
<1>11. ASSUME NEW t \in Tasks, GotMain(t) PROVE Stay
  <2>1. call[t].h # 0
    BY <1>11, <1>t DEF GotMain, Local
  <2>2. PICK a \in {"user", "get", "ll"} : call' = [call EXCEPT ![t].bh = call[t].h, ![t].h = 0, ![t].at = a]
    BY <1>11 DEF GotMain
  <2> QED
    BY <1>c, <2>1, <2>2 DEF Waker, WillRelease
<1>12. ASSUME NEW t \in Tasks, LowLevelLock(t) PROVE Stay
  <2>1. PICK a \in {"get", "wait", "queue"} : call' = [call EXCEPT ![t].at = a]
    BY <1>12 DEF LowLevelLock, AfterRead
  <2> QED
    BY <1>12, <1>c, <2>1 DEF LowLevelLock, Waker, WillRelease
<1>13. ASSUME NEW t \in Tasks, LowLevelQueue(t) PROVE Stay
  BY <1>13, <1>c DEF LowLevelQueue, AfterRead, Waker, WillRelease
<1>14. ASSUME NEW t \in Tasks, ReadAhead(t) PROVE Stay
  BY <1>14, <1>c DEF ReadAhead, Waker, WillRelease
<1>15. ASSUME NEW t \in Tasks, call' = Woken([call EXCEPT ![t] = Idle]) PROVE SleeperHasWaker'
  <2>1. Idle \in Records /\ Idle.at # "nobuf"
    <3>1. 0 \in 0..(2 * NR_BUFFERS + 1)
      BY CacheAssumption
    <3> QED
      BY <3>1 DEF Records, Idle, Points
  <2> QED
    BY <1>15, <2>1, MovesWoken DEF CInv, SleeperHasWaker
<1>16. ASSUME NEW t \in Tasks, ReadDone(t) PROVE SleeperHasWaker'
  <2>1. ASSUME call' = [call EXCEPT ![t].at = "user"] PROVE Stay
    BY <1>16, <1>c, <2>1 DEF ReadDone, Waker, WillRelease
  <2> QED
    BY <1>15, <1>16, <2>1, WakersStay DEF ReadDone
<1>17. ASSUME NEW t \in Tasks, Release(t) PROVE Stay
  BY <1>17, <1>c DEF Release, Waker, WillRelease
<1>18. ASSUME NEW t \in Tasks, GetMiss(t) PROVE SleeperHasWaker'
  BY <1>3, <1>18, SleeperNotAlone, WakersStay
<1> QED
  <2>1. \/ Stay \/ call' = call
        \/ \E t \in Tasks : GetMiss(t) \/ ReadDone(t) \/ call' = Woken([call EXCEPT ![t] = Idle])
    <3> HIDE DEF Stay
    <3> QED
      BY <1>1, <1>2, <1>4, <1>5, <1>6, <1>7, <1>9, <1>10, <1>11, <1>12, <1>13, <1>14, <1>17
         DEF Next, InCall, vars, SyncWait, SleepForRead, Released, Modify, EndRequest
  <2> QED
    BY <1>8, <1>15, <1>16, <1>18, <2>1, WakersStay

(* If fewer tasks read ahead than there are buffers, a task that found every *)
(* buffer in use and sleeps on buffer_wait is never forgotten, although      *)
(* breada gives a buffer back without a wake_up: some task awake has a       *)
(* buffer and will give it back with brelse, which wakes the sleepers.       *)
THEOREM CacheSleeperHasWaker ==
  ASSUME Cardinality(AheadTasks) < NR_BUFFERS
  PROVE  Spec => []SleeperHasWaker
<1>1. Init => SleeperHasWaker
  BY DEF Init, SleeperHasWaker, Idle
<1>2. CInv /\ SleeperHasWaker /\ [Next]_vars => SleeperHasWaker'
  BY SleeperStep
<1> QED
  BY <1>1, <1>2, CacheInv, PTL DEF Spec
=============================================================================
