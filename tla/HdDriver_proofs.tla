-------------------------- MODULE HdDriver_proofs --------------------------
(***************************************************************************)
(* Proofs about the drivers: the block layer and the hard disk driver under *)
(* it, for any number of tasks, blocks and request table entries, and the   *)
(* serial terminal, for queues of any size and any settings of the line.    *)
(***************************************************************************)
EXTENDS HdDriver, Tty, SetLemmas

(* The types, the records of the tasks in one set of records; a task outside *)
(* ll_rw_block has no arguments.                                             *)
Calls == [at : {"user", "lock", "scan", "full", "asleep", "add"},
          rw : {READ, WRITE, READA, WRITEA}, bh : Blocks \cup {-1}, req : Slots \cup {-1},
          missed : Nat]
Entries == [cmd : {READ, WRITE}, block : Blocks]

QTypes ==
  /\ request \in [Slots -> {FREE} \cup Entries]
  /\ queue \in Seq(Slots)
  /\ b_lock \in [Blocks -> BOOLEAN] /\ b_uptodate \in [Blocks -> BOOLEAN]
  /\ b_dirt \in [Blocks -> BOOLEAN]
  /\ cur \in Tasks \cup {NULL}
  /\ call \in [Tasks -> Calls]
  /\ \A t \in Tasks : IF call[t].at = "user" THEN call[t] = Idle ELSE call[t].bh \in Blocks

(* A task that holds the lock of its buffer.                                 *)
Busy(c) == c.at \in {"scan", "full", "asleep", "add"}

(* Between its scan of the table and the insertion or sleep_on, a task keeps *)
(* the processor.                                                            *)
Running == \A t \in Tasks : call[t].at \in {"full", "add"} => cur = t

(* LockAccounted, by the requests and the tasks themselves.                  *)
Owners ==
  /\ \A p \in DOMAIN queue : request[queue[p]] # FREE /\ b_lock[request[queue[p]].block]
  /\ \A t \in Tasks : Busy(call[t]) => b_lock[call[t].bh]
  /\ \A b \in Blocks : b_lock[b] => \/ \E p \in DOMAIN queue : request[queue[p]].block = b
                                    \/ \E t \in Tasks : Busy(call[t]) /\ call[t].bh = b
  /\ \A p, q \in DOMAIN queue : request[queue[p]].block = request[queue[q]].block => p = q
  /\ \A t, u \in Tasks : Busy(call[t]) /\ Busy(call[u]) /\ call[t].bh = call[u].bh => t = u
  /\ \A p \in DOMAIN queue, t \in Tasks : Busy(call[t]) => call[t].bh # request[queue[p]].block

(* An entry in use is on the queue or being filled, with what was asked for. *)
InUse ==
  /\ \A i \in Slots : request[i] # FREE => \/ \E p \in DOMAIN queue : queue[p] = i
                                           \/ \E t \in Tasks : call[t].at = "add" /\ call[t].req = i
  /\ \A t \in Tasks : call[t].at = "add" =>
       call[t].req \in Slots /\ request[call[t].req] = [cmd |-> Cmd(t), block |-> call[t].bh]

(* A task that found the table full found two thirds of it on the queue at   *)
(* least; they are still there, or it missed their end.                      *)
Third == (NR_REQUEST * 2) \div 3
Waits == \A t \in Tasks : call[t].at \in {"full", "asleep"} => Len(queue) + call[t].missed >= Third

(* A buffer is not up to date while it is being read.                        *)
Reads == /\ \A p \in DOMAIN queue : request[queue[p]].cmd = READ => ~b_uptodate[request[queue[p]].block]
         /\ \A t \in Tasks : Busy(call[t]) /\ Cmd(t) = READ => ~b_uptodate[call[t].bh]

(* OneSweep, by the places where the sweep turns back.                       *)
Turns(p) == ~IN_ORDER(queue[p], queue[p + 1])
Sweep == \A p, q \in 1..(Len(queue) - 1) : Turns(p) /\ Turns(q) => p = q

(* The inductive invariant of the block layer.                               *)
QInv == QTypes /\ Running /\ Owners /\ InUse /\ Waits /\ Reads /\ Sweep
-----------------------------------------------------------------------------
(* blk_dev_init establishes it.                                              *)
LEMMA QInitInv == Init => QInv
<1> SUFFICES ASSUME Init PROVE QInv
  OBVIOUS
<1>1. Idle \in Calls /\ Idle.at = "user"
  BY DEF Idle, Calls, READ
<1>2. queue = <<>> /\ queue \in Seq(Slots) /\ DOMAIN queue = {} /\ Len(queue) = 0
  BY DEF Init
<1>3. QTypes
  BY <1>1, <1>2 DEF Init, QTypes
<1>4. \A t \in Tasks : call[t] = Idle
  BY DEF Init
<1> HIDE DEF Init
<1>5. Running /\ Waits /\ Reads
  BY <1>1, <1>2, <1>4 DEF Running, Waits, Reads, Busy
<1>6. Owners /\ InUse /\ Sweep
  <2>1. (\A b \in Blocks : ~b_lock[b]) /\ (\A i \in Slots : request[i] = FREE)
    BY DEF Init
  <2> QED
    BY <1>1, <1>2, <1>4, <2>1 DEF Owners, InUse, Sweep, Busy
<1> QED
  BY <1>3, <1>5, <1>6 DEF QInv

(* A step of t makes r of its record and leaves the others.                  *)
Moves(t, r) ==
  /\ call' \in [Tasks -> Calls]
  /\ \A u \in Tasks : IF call'[u].at = "user" THEN call'[u] = Idle ELSE call'[u].bh \in Blocks
  /\ call'[t] = r
  /\ \A u \in Tasks \ {t} : call'[u] = call[u]

LEMMA MovesOne ==
  ASSUME QTypes, NEW t \in Tasks, NEW r \in Calls, call' = [call EXCEPT ![t] = r],
         IF r.at = "user" THEN r = Idle ELSE r.bh \in Blocks
  PROVE  Moves(t, r)
  BY DEF QTypes, Moves

(* The records the steps of the model make.                                  *)
LEMMA MovesGoes ==
  ASSUME QTypes, NEW t \in Tasks, NEW a \in {"lock", "scan", "full", "asleep", "add"},
         call[t].at # "user", call' = Goes(t, a)
  PROVE  \E r \in Calls : /\ Moves(t, r) /\ r.at = a /\ r.bh = call[t].bh /\ r.rw = call[t].rw
                          /\ r.req = call[t].req /\ r.missed = call[t].missed
<1> DEFINE r == [call[t] EXCEPT !.at = a]
<1>1. /\ r \in Calls /\ r.at = a /\ r.bh = call[t].bh /\ r.rw = call[t].rw /\ r.req = call[t].req
      /\ r.missed = call[t].missed
  BY DEF QTypes, Calls
<1>2. call' = [call EXCEPT ![t] = r]
  BY DEF QTypes, Goes
<1> HIDE DEF r
<1>3. r.bh \in Blocks
  BY <1>1 DEF QTypes
<1> QED
  BY <1>1, <1>2, <1>3, MovesOne

LEMMA MovesReturned ==
  ASSUME QTypes, NEW t \in Tasks, call' = Returned(t)
  PROVE  Moves(t, Idle) /\ Idle \in Calls /\ Idle.at = "user"
<1>1. Idle \in Calls /\ Idle.at = "user"
  BY DEF Idle, Calls, READ
<1> QED
  BY <1>1, MovesOne DEF Returned

(* A step of t that leaves the table and the queue, where r gives up or      *)
(* takes a free lock, or neither.                                            *)
LEMMA QuietStep ==
  ASSUME QInv, NEW t \in Tasks, NEW r \in Calls, Moves(t, r),
         request' = request, queue' = queue, b_uptodate' = b_uptodate, b_dirt' = b_dirt,
         cur' \in Tasks \cup {NULL}, cur \in {NULL, t},
         call[t].at # "add", r.at # "add",
         r.at = "full" => cur' = t,
         r.at \in {"full", "asleep"} => Len(queue) + r.missed >= Third,
         \/ /\ b_lock' = b_lock
            /\ Busy(call[t]) <=> Busy(r)
            /\ Busy(r) => r.bh = call[t].bh /\ r.rw = call[t].rw
         \/ /\ r.bh \in Blocks /\ ~b_lock[r.bh] /\ b_lock' = [b_lock EXCEPT ![r.bh] = TRUE]
            /\ ~Busy(call[t]) /\ Busy(r)
            /\ r.rw \in {READ, READA} => ~b_uptodate[r.bh]
         \/ /\ Busy(call[t]) /\ ~Busy(r)
            /\ b_lock' = [b_lock EXCEPT ![call[t].bh] = FALSE]
  PROVE  QInv'
<1> USE DEF QInv
<1>0. ASSUME NEW p \in DOMAIN queue
      PROVE  /\ queue[p] \in Slots /\ request[queue[p]] \in Entries /\ request[queue[p]].block \in Blocks
             /\ b_lock[request[queue[p]].block]
  <2>1. queue[p] \in Slots /\ request[queue[p]] # FREE
    BY DEF QTypes, Owners
  <2>2. request[queue[p]] \in Entries
    BY <2>1 DEF QTypes
  <2> QED
    BY <2>1, <2>2 DEF Entries, Owners
<1>1. QTypes'
  <2>1. b_lock' \in [Blocks -> BOOLEAN]
    BY DEF QTypes
  <2> QED
    BY <2>1 DEF QTypes, Moves
<1>2. Running'
  BY RequestAssumption DEF Running, Moves
<1>3. \A u \in Tasks : Busy(call'[u]) => call'[u].bh \in Blocks
  BY DEF Moves, Busy
<1>b. \A u \in Tasks : Busy(call[u]) => call[u].bh \in Blocks
  BY DEF QTypes, Busy
<1>4. Owners'
  <2>1. CASE /\ b_lock' = b_lock /\ (Busy(call[t]) <=> Busy(r))
             /\ Busy(r) => r.bh = call[t].bh
    BY <2>1 DEF Owners, Moves
  <2>2. CASE /\ r.bh \in Blocks /\ ~b_lock[r.bh] /\ b_lock' = [b_lock EXCEPT ![r.bh] = TRUE]
             /\ ~Busy(call[t]) /\ Busy(r)
    <3>1. \A b \in Blocks : b_lock'[b] <=> b_lock[b] \/ b = r.bh
      BY <2>2 DEF QTypes
    <3>2. (\A u \in Tasks \ {t} : call'[u] = call[u]) /\ call'[t] = r
      BY DEF Moves
    <3> QED
      BY <1>0, <1>b, <2>2, <3>1, <3>2 DEF Owners
  <2>3. CASE Busy(call[t]) /\ ~Busy(r) /\ b_lock' = [b_lock EXCEPT ![call[t].bh] = FALSE]
    <3>1. \A b \in Blocks : b_lock'[b] <=> b_lock[b] /\ b # call[t].bh
      BY <1>b, <2>3 DEF QTypes
    <3>2. (\A u \in Tasks \ {t} : call'[u] = call[u]) /\ call'[t] = r
      BY DEF Moves
    <3> QED
      BY <1>0, <1>b, <2>3, <3>1, <3>2 DEF Owners
  <2> QED
    BY <2>1, <2>2, <2>3
<1>5. InUse'
  BY DEF InUse, Moves, Cmd
<1>6. Waits'
  BY DEF Waits, Moves
<1>7. Reads'
  <2>1. \A u \in Tasks : Busy(call'[u]) /\ Cmd(u)' = READ => ~b_uptodate[call'[u].bh]
    BY DEF Reads, Moves, Cmd, READ, WRITE, READA
  <2> QED
    BY <2>1 DEF Reads
<1>8. Sweep'
  BY DEF Sweep, Turns, IN_ORDER
<1> QED
  BY <1>1, <1>2, <1>4, <1>5, <1>6, <1>7, <1>8
-----------------------------------------------------------------------------
(* What is on the queue.                                                     *)
LEMMA OnQueue ==
  ASSUME QTypes, Owners
  PROVE  /\ Len(queue) \in Nat /\ DOMAIN queue = 1..Len(queue)
         /\ \A p \in DOMAIN queue : /\ queue[p] \in Slots /\ request[queue[p]] \in Entries
                                    /\ request[queue[p]].block \in Blocks
                                    /\ b_lock[request[queue[p]].block]
         /\ \A p, q \in DOMAIN queue : queue[p] = queue[q] => p = q
<1>1. Len(queue) \in Nat /\ DOMAIN queue = 1..Len(queue)
  BY DEF QTypes
<1>2. ASSUME NEW p \in DOMAIN queue
      PROVE  /\ queue[p] \in Slots /\ request[queue[p]] \in Entries /\ request[queue[p]].block \in Blocks
             /\ b_lock[request[queue[p]].block]
  <2>1. queue[p] \in Slots /\ request[queue[p]] # FREE
    BY DEF QTypes, Owners
  <2>2. request[queue[p]] \in Entries
    BY <2>1 DEF QTypes
  <2> QED
    BY <2>1, <2>2 DEF Entries, Owners
<1> QED
  BY <1>1, <1>2 DEF Owners

(* The tasks that hold a lock.                                               *)
LEMMA BusyTask ==
  ASSUME QTypes, NEW t \in Tasks, Busy(call[t])
  PROVE  call[t].bh \in Blocks
  BY DEF QTypes, Busy

(* make_request fills an empty entry.                                        *)
LEMMA FillStep ==
  ASSUME QInv, NEW t \in Tasks, Fill(t)
  PROVE  /\ QInv'
         /\ queue' = queue /\ b_uptodate' = b_uptodate /\ b_dirt' = b_dirt
         /\ \A p \in DOMAIN queue : request'[queue[p]] = request[queue[p]]
<1> USE DEF QInv
<1> DEFINE e == Max(Empties(t))
           new == [cmd |-> Cmd(t), block |-> call[t].bh]
           r == [call[t] EXCEPT !.at = "add", !.req = e]
<1>1. e \in Slots /\ request[e] = FREE
  <2>1. Usable(Cmd(t)) \subseteq Slots
    BY RequestAssumption DEF Usable, Slots
  <2>2. Empties(t) \in SUBSET Int /\ Empties(t) # {} /\ \A x \in Empties(t) : x <= NR_REQUEST
    BY <2>1, RequestAssumption DEF Empties, Slots, Fill
  <2>3. NR_REQUEST \in Int
    BY RequestAssumption
  <2>4. e \in Empties(t)
    BY <2>2, <2>3, MaxOfInts, Zenon
  <2> QED
    BY <2>1, <2>4 DEF Empties
<1>2. call[t].at = "scan" /\ cur = t /\ call[t] \in Calls /\ call[t].bh \in Blocks
  BY DEF Fill, QTypes
<1>3. new \in Entries /\ new # FREE /\ new.block = call[t].bh
  BY <1>2, RequestAssumption DEF Cmd, Entries, FREE
<1>4. /\ r \in Calls /\ r.at = "add" /\ r.bh = call[t].bh /\ r.rw = call[t].rw /\ r.req = e
  BY <1>1, <1>2 DEF Calls
<1>5. /\ request' = [request EXCEPT ![e] = new] /\ call' = [call EXCEPT ![t] = r]
      /\ queue' = queue /\ b_lock' = b_lock /\ b_uptodate' = b_uptodate /\ b_dirt' = b_dirt /\ cur' = cur
  BY DEF Fill, QTypes, bufvars
<1> HIDE DEF r, e, new
<1>6. Moves(t, r)
  BY <1>2, <1>4, <1>5, MovesOne
<1>7. request'[e] = new /\ \A i \in Slots \ {e} : request'[i] = request[i]
  BY <1>1, <1>5 DEF QTypes
<1>8. \A p \in DOMAIN queue : queue[p] \in Slots \ {e} /\ request'[queue[p]] = request[queue[p]]
  BY <1>1, <1>7, OnQueue DEF Owners
<1>9. QTypes'
  <2>1. request' \in [Slots -> {FREE} \cup Entries]
    BY <1>3, <1>5 DEF QTypes
  <2> QED
    BY <1>5, <1>6, <2>1 DEF QTypes, Moves
<1>10. Running'
  BY <1>2, <1>5, <1>6 DEF Running, Moves
<1>11. \A u \in Tasks : (Busy(call'[u]) <=> Busy(call[u])) /\ call'[u].bh = call[u].bh /\ Cmd(u)' = Cmd(u)
  BY <1>2, <1>4, <1>6 DEF Busy, Moves, Cmd
<1>12. Owners'
  BY <1>5, <1>8, <1>11 DEF Owners
<1>13. InUse'
  <2>1. \A u \in Tasks : call'[u].at = "add" <=> u = t
    BY <1>2, <1>4, <1>6 DEF Running, Moves
  <2>2. request'[r.req] = [cmd |-> Cmd(t), block |-> call[t].bh]
    BY <1>4, <1>7 DEF new
  <2>3. ASSUME NEW i \in Slots, request'[i] # FREE
        PROVE  \/ \E p \in DOMAIN queue : queue[p] = i
               \/ \E u \in Tasks : call'[u].at = "add" /\ call'[u].req = i
    <3>1. CASE i = e
      BY <1>4, <1>6, <2>1, <3>1 DEF Moves
    <3>2. CASE i # e
      BY <1>2, <1>7, <2>3, <3>2 DEF InUse, Running
    <3> QED
      BY <3>1, <3>2
  <2>4. call'[t] = r
    BY <1>6 DEF Moves
  <2> QED
    BY <1>1, <1>4, <1>5, <1>11, <2>1, <2>2, <2>3, <2>4 DEF InUse
<1>14. Waits'
  BY <1>4, <1>5, <1>6 DEF Waits, Moves
<1>15. Reads'
  BY <1>5, <1>8, <1>11 DEF Reads
<1>16. Sweep'
  <2>1. \A p \in 1..(Len(queue) - 1) : p \in DOMAIN queue /\ p + 1 \in DOMAIN queue
    BY OnQueue
  <2>2. \A p \in 1..(Len(queue) - 1) : Turns(p)' <=> Turns(p)
    BY <1>5, <1>8, <2>1 DEF Turns, IN_ORDER
  <2> QED
    BY <1>5, <2>2 DEF Sweep
<1> QED
  BY <1>5, <1>8, <1>9, <1>10, <1>12, <1>13, <1>14, <1>15, <1>16
-----------------------------------------------------------------------------
(* Where add_request's loop stops: at the first place that fits, after       *)
(* CURRENT, or at the end.                                                   *)
Fits(p, i) == (IN_ORDER(queue[p], i) \/ Turns(p)) /\ IN_ORDER(i, queue[p + 1])

LEMMA PlaceCases ==
  ASSUME queue \in Seq(Slots), NEW i
  PROVE  \/ Place(i) \in 1..(Len(queue) - 1) /\ Fits(Place(i), i)
         \/ Place(i) = Len(queue) /\ \A p \in 1..(Len(queue) - 1) : ~Fits(p, i)
<1> DEFINE fits == {p \in 1..(Len(queue) - 1) : Fits(p, i)}
<1>0. Place(i) = IF fits = {} THEN Len(queue) ELSE Min(fits)
  BY DEF Place, Fits, Turns
<1>1. CASE fits = {}
  BY <1>0, <1>1
<1>2. CASE fits # {}
  <2>1. fits \in SUBSET Nat
    OBVIOUS
  <2>2. Min(fits) \in fits
    BY <1>2, <2>1, MinOfNats, Zenon
  <2> QED
    BY <1>0, <1>2, <2>2
<1> QED
  BY <1>1, <1>2

(* Requests for different blocks are in order one way or the other.          *)
LEMMA InOrderTotal ==
  ASSUME NEW i, NEW j, request[i] \in Entries, request[j] \in Entries, request[i].block # request[j].block
  PROVE  IN_ORDER(i, j) \/ IN_ORDER(j, i)
<1>1. /\ request[i].cmd \in {READ, WRITE} /\ request[i].block \in Int
      /\ request[j].cmd \in {READ, WRITE} /\ request[j].block \in Int
  <2>1. /\ request[i].cmd \in {READ, WRITE} /\ request[i].block \in Blocks
        /\ request[j].cmd \in {READ, WRITE} /\ request[j].block \in Blocks
    BY DEF Entries
  <2>2. Blocks \subseteq Int
    BY RequestAssumption
  <2> QED
    BY <2>1, <2>2
<1> QED
  BY <1>1 DEF IN_ORDER, READ, WRITE

(* The insertion leaves one turn at most: at a place where the sweep turns   *)
(* already it moves the turn, and at the end it makes one only if there is   *)
(* none, since from a turn on all would be in order with the new request.    *)
LEMMA SweepKept ==
  ASSUME QInv, NEW i \in Slots, request[i] \in Entries,
         \A p \in DOMAIN queue : request[queue[p]].block # request[i].block,
         queue' = InsertAt(queue, Place(i) + 1, i), request' = request
  PROVE  Sweep'
<1> USE DEF QInv
<1> DEFINE n == Len(queue)
           k == Place(i)
<1>0. n \in Nat /\ DOMAIN queue = 1..n /\ queue \in Seq(Slots)
  BY OnQueue DEF QTypes
<1>1. k + 1 \in 1..(n + 1) /\ k \in Int
  BY <1>0, PlaceCases
<1>2. Len(queue') = n + 1 /\ \A j \in 1..(n + 1) :
        queue'[j] = IF j < k + 1 THEN queue[j] ELSE IF j = k + 1 THEN i ELSE queue[j - 1]
  BY <1>0, <1>1, InsertAtProperties
<1>3. \A p \in 1..n : IN_ORDER(queue[p], i) \/ IN_ORDER(i, queue[p])
  BY <1>0, OnQueue, InOrderTotal
<1>4. \A a, b : IN_ORDER(a, b)' <=> IN_ORDER(a, b)
  BY DEF IN_ORDER
<1>5. ASSUME NEW p \in 1..n
      PROVE  /\ p < k => (Turns(p)' <=> Turns(p))
             /\ p = k => (Turns(p)' <=> ~IN_ORDER(queue[k], i))
             /\ p = k + 1 => (Turns(p)' <=> ~IN_ORDER(i, queue[k + 1]))
             /\ p > k + 1 => (Turns(p)' <=> Turns(p - 1))
  <2>1. p \in 1..(n + 1) /\ p + 1 \in 1..(n + 1) /\ p + 1 - 1 = p /\ p \in Int
    BY <1>0
  <2>2. Turns(p)' <=> ~IN_ORDER(queue'[p], queue'[p + 1])
    BY <1>4 DEF Turns
  <2>3. CASE p < k
    <3>1. queue'[p] = queue[p] /\ queue'[p + 1] = queue[p + 1]
      BY <1>1, <1>2, <2>1, <2>3
    <3> QED
      BY <1>1, <2>1, <2>2, <2>3, <3>1 DEF Turns
  <2>4. CASE p = k
    <3>1. queue'[p] = queue[p] /\ queue'[p + 1] = i
      BY <1>1, <1>2, <2>1, <2>4
    <3> QED
      BY <1>1, <2>1, <2>2, <2>4, <3>1
  <2>5. CASE p = k + 1
    <3>1. queue'[p] = i /\ queue'[p + 1] = queue[p]
      BY <1>1, <1>2, <2>1, <2>5
    <3> QED
      BY <1>1, <2>1, <2>2, <2>5, <3>1
  <2>6. CASE p > k + 1
    <3>1. queue'[p] = queue[p - 1] /\ queue'[p + 1] = queue[(p - 1) + 1]
      BY <1>1, <1>2, <2>1, <2>6
    <3> QED
      BY <1>1, <2>1, <2>2, <2>6, <3>1 DEF Turns
  <2> QED
    BY <1>1, <2>1, <2>3, <2>4, <2>5, <2>6
<1> SUFFICES ASSUME NEW p \in 1..n, NEW q \in 1..n, Turns(p)', Turns(q)' PROVE p = q
  BY <1>0, <1>2 DEF Sweep
<1>s. \A a, b \in 1..(n - 1) : Turns(a) /\ Turns(b) => a = b
  BY DEF Sweep
<1>c. \/ k \in 1..(n - 1) /\ Fits(k, i)
      \/ k = n /\ \A j \in 1..(n - 1) : ~Fits(j, i)
  BY <1>0, PlaceCases
<1> HIDE DEF n, k, QInv
<1>6. CASE k \in 1..(n - 1) /\ Fits(k, i)
  <2> DEFINE old(j) == IF j <= k THEN j ELSE j - 1
  <2>1. ASSUME NEW j \in 1..n, Turns(j)' PROVE old(j) \in 1..(n - 1) /\ Turns(old(j)) /\ j # k + 1
    BY <1>0, <1>1, <1>5, <1>6, <2>1 DEF Fits
  <2>2. old(p) = old(q) /\ p # k + 1 /\ q # k + 1
    BY <1>s, <2>1
  <2> QED
    BY <1>0, <1>1, <2>2
<1>7. CASE k = n /\ \A j \in 1..(n - 1) : ~Fits(j, i)
  <2>1. ASSUME NEW j \in 1..n, Turns(j)' PROVE (j < n /\ Turns(j)) \/ (j = n /\ ~IN_ORDER(queue[n], i))
    <3>1. (j < k => Turns(j)) /\ (j = k => ~IN_ORDER(queue[k], i))
      BY <1>5, <2>1
    <3>2. k = n
      BY <1>7
    <3>3. j < n \/ j = n
      BY <1>0
    <3> QED
      BY <3>1, <3>2, <3>3
  <2>2. ASSUME NEW j \in 1..(n - 1), Turns(j) PROVE IN_ORDER(queue[n], i)
    <3> DEFINE T == {m \in 1..n : m > j /\ ~IN_ORDER(queue[m], i)}
    <3>1. SUFFICES ASSUME ~IN_ORDER(queue[n], i) PROVE FALSE
      OBVIOUS
    <3>2. n \in T /\ T \in SUBSET Nat
      BY <1>0, <3>1
    <3>3. PICK m \in T : \A y \in T : m <= y
      BY <3>2, LeastNat
    <3>4. m - 1 \in 1..(n - 1) /\ m - 1 >= j /\ (m - 1) + 1 = m
      BY <1>0
    <3>5. IN_ORDER(i, queue[m])
      BY <1>3, <3>3
    <3>6. ~Fits(m - 1, i)
      BY <1>7, <3>4
    <3>7. ~IN_ORDER(queue[m - 1], i) /\ ~Turns(m - 1)
      BY <3>4, <3>5, <3>6 DEF Fits
    <3>8. m - 1 # j
      BY <2>2, <3>7
    <3>9. m - 1 \in T
      BY <1>0, <3>4, <3>7, <3>8
    <3> QED
      BY <1>0, <3>3, <3>9
  <2>3. p < n /\ q < n => p = q
    <3> SUFFICES ASSUME p < n, q < n PROVE p = q
      OBVIOUS
    <3>1. Turns(p) /\ Turns(q)
      BY <1>0, <2>1
    <3>2. p \in 1..(n - 1) /\ q \in 1..(n - 1)
      BY <1>0
    <3> QED
      BY <1>s, <3>1, <3>2
  <2>4. ASSUME NEW a \in 1..n, NEW b \in 1..n, Turns(a)', Turns(b)', b = n PROVE ~(a < n)
    <3> SUFFICES ASSUME a < n PROVE FALSE
      OBVIOUS
    <3>1. Turns(a) /\ a \in 1..(n - 1)
      BY <1>0, <2>1, <2>4
    <3>2. ~IN_ORDER(queue[n], i)
      BY <1>0, <2>1, <2>4
    <3> QED
      BY <2>2, <3>1, <3>2
  <2>5. (p < n \/ p = n) /\ (q < n \/ q = n)
    BY <1>0
  <2>6. (p = n => ~(q < n)) /\ (q = n => ~(p < n))
    BY <2>4
  <2> QED
    BY <2>3, <2>5, <2>6, Zenon
<1> QED
  BY <1>6, <1>7, <1>c
(* add_request.                                                              *)
LEMMA AddStep ==
  ASSUME QInv, NEW t \in Tasks, AddRequest(t)
  PROVE  /\ QInv'
         /\ queue # <<>> => queue'[1] = queue[1]
         /\ queue = <<>> => queue' = <<call[t].req>>
         /\ queue' # <<>> /\ request' = request /\ b_uptodate' = b_uptodate
         /\ \E p \in DOMAIN queue' : request[queue'[p]].block = call[t].bh
         /\ \A q \in DOMAIN queue : \E p \in DOMAIN queue' : queue'[p] = queue[q]
<1> USE DEF QInv
<1> DEFINE n == Len(queue)
           i == call[t].req
           k == Place(i) + 1
           d(p) == IF p < k THEN p ELSE p - 1
<1>0. n \in Nat /\ DOMAIN queue = 1..n /\ queue \in Seq(Slots)
  BY OnQueue DEF QTypes
<1>1. /\ call[t].at = "add" /\ cur = t /\ call' = Returned(t) /\ cur' = NULL
      /\ b_dirt' = [b_dirt EXCEPT ![call[t].bh] = FALSE] /\ queue' = InsertAt(queue, k, i)
      /\ request' = request /\ b_lock' = b_lock /\ b_uptodate' = b_uptodate
  BY DEF AddRequest
<1>2. Busy(call[t]) /\ call[t].bh \in Blocks /\ i \in Slots
  BY <1>1, BusyTask DEF Busy, InUse
<1>3. request[i] = [cmd |-> Cmd(t), block |-> call[t].bh] /\ Cmd(t) \in {READ, WRITE}
  BY <1>1 DEF InUse, Cmd
<1>4. request[i] \in Entries /\ request[i].block = call[t].bh /\ request[i].cmd = Cmd(t) /\ request[i] # FREE
  BY <1>2, <1>3, RequestAssumption DEF Entries, FREE
<1>5. \A p \in DOMAIN queue : request[queue[p]].block # request[i].block
  BY <1>2, <1>4 DEF Owners
<1>6. k \in 1..(n + 1) /\ k \in Int /\ (n >= 1 => k >= 2)
  BY <1>0, PlaceCases
<1>7. /\ queue' \in Seq(Slots) /\ Len(queue') = n + 1 /\ DOMAIN queue' = 1..(n + 1)
      /\ \A j \in 1..(n + 1) : queue'[j] = IF j < k THEN queue[j] ELSE IF j = k THEN i ELSE queue[j - 1]
  <2> HIDE DEF k, i, QInv
  <2>0. queue' = InsertAt(queue, k, i) /\ k \in 1..(Len(queue) + 1) /\ i \in Slots /\ queue \in Seq(Slots)
    BY <1>0, <1>1, <1>2, <1>6
  <2>1. /\ queue' \in Seq(Slots) /\ Len(queue') = n + 1
        /\ \A j \in 1..(n + 1) : queue'[j] = IF j < k THEN queue[j] ELSE IF j = k THEN i ELSE queue[j - 1]
    <3>1. PICK m, e : m = k /\ e = i
      OBVIOUS
    <3>2. m \in 1..(Len(queue) + 1) /\ e \in Slots /\ queue \in Seq(Slots)
      BY <2>0, <3>1
    <3>3. /\ InsertAt(queue, m, e) \in Seq(Slots) /\ Len(InsertAt(queue, m, e)) = Len(queue) + 1
          /\ \A j \in 1..(Len(queue) + 1) :
               InsertAt(queue, m, e)[j] = IF j < m THEN queue[j] ELSE IF j = m THEN e ELSE queue[j - 1]
      BY <3>2, InsertAtProperties
    <3>4. queue' = InsertAt(queue, m, e)
      BY <2>0, <3>1
    <3> QED
      BY <3>1, <3>3, <3>4
  <2>2. DOMAIN queue' = 1..Len(queue')
    BY <2>1
  <2> QED
    BY <2>1, <2>2, Zenon
<1>8. Sweep'
  BY <1>1, <1>2, <1>4, <1>5, SweepKept
<1>9. Moves(t, Idle) /\ Idle \in Calls /\ Idle.at = "user"
  BY <1>1, MovesReturned
<1>10. queue = <<>> <=> n = 0
  BY <1>0
<1> HIDE DEF n, k, i
<1>11. ASSUME NEW p \in 1..(n + 1), p # k
       PROVE  d(p) \in 1..n /\ queue'[p] = queue[d(p)]
  BY <1>0, <1>6, <1>7, <1>11
<1>12. queue'[k] = i /\ k \in DOMAIN queue'
  BY <1>6, <1>7
<1>13. ASSUME NEW p \in 1..n PROVE \E j \in 1..(n + 1) : j # k /\ queue'[j] = queue[p]
  <2>1. CASE p < k
    BY <1>0, <1>6, <1>7, <2>1
  <2>2. CASE p >= k
    <3>1. p + 1 \in 1..(n + 1) /\ p + 1 # k /\ queue'[p + 1] = queue[p]
      BY <1>0, <1>6, <1>7, <2>2
    <3> QED
      BY <3>1
  <2> QED
    BY <1>0, <1>6, <2>1, <2>2
<1>14. \A p, q \in 1..(n + 1) : p # k /\ q # k /\ d(p) = d(q) => p = q
  BY <1>0, <1>6
<1> HIDE DEF d
<1>15. QTypes'
  <2>1. b_dirt' \in [Blocks -> BOOLEAN]
    BY <1>1, <1>2 DEF QTypes
  <2> QED
    BY <1>1, <1>7, <1>9, <2>1 DEF QTypes, Moves
<1>16. Running' /\ Waits'
  <2>1. \A u \in Tasks : call'[u].at \notin {"full", "add"}
    BY <1>1, <1>9 DEF Running, Moves
  <2>2. \A u \in Tasks : u # t => call'[u] = call[u] /\ call[u].missed \in Nat
    BY <1>9 DEF Moves, QTypes, Calls
  <2>3. \A u \in Tasks : call'[u].at = "asleep" => n + 1 + call'[u].missed >= Third
    <3> SUFFICES ASSUME NEW u \in Tasks, call'[u].at = "asleep" PROVE n + 1 + call'[u].missed >= Third
      OBVIOUS
    <3>1. u # t
      BY <1>9 DEF Moves
    <3>2. Len(queue) + call[u].missed >= Third
      BY <2>2, <3>1 DEF Waits
    <3>3. Third \in Int
      BY RequestAssumption DEF Third
    <3> QED
      BY <1>0, <2>2, <3>1, <3>2, <3>3 DEF n
  <2> QED
    BY <1>7, <2>1, <2>3 DEF Running, Waits, Third
<1>17. \A u \in Tasks : /\ Busy(call'[u]) <=> Busy(call[u]) /\ u # t
                        /\ u # t => call'[u] = call[u] /\ Cmd(u)' = Cmd(u)
  BY <1>9 DEF Busy, Moves, Cmd
<1>18. Owners'
  <2>1. \A p \in DOMAIN queue' : request'[queue'[p]] # FREE /\ b_lock'[request'[queue'[p]].block]
    BY <1>0, <1>1, <1>2, <1>4, <1>7, <1>11, <1>12 DEF Owners
  <2>2. \A u \in Tasks : Busy(call'[u]) => b_lock'[call'[u].bh]
    BY <1>1, <1>17 DEF Owners
  <2>3. ASSUME NEW b \in Blocks, b_lock'[b]
        PROVE  \/ \E p \in DOMAIN queue' : request'[queue'[p]].block = b
               \/ \E u \in Tasks : Busy(call'[u]) /\ call'[u].bh = b
    <3>1. CASE b = call[t].bh
      BY <1>1, <1>4, <1>12, <3>1
    <3>2. CASE b # call[t].bh
      <4>1. CASE \E p \in 1..n : request[queue[p]].block = b
        BY <1>1, <1>7, <1>13, <4>1
      <4>2. CASE \E u \in Tasks : Busy(call[u]) /\ call[u].bh = b
        BY <1>17, <3>2, <4>2
      <4> QED
        BY <1>0, <1>1, <2>3, <4>1, <4>2 DEF Owners
    <3> QED
      BY <3>1, <3>2
  <2>4. ASSUME NEW p \in DOMAIN queue', NEW q \in DOMAIN queue', request'[queue'[p]].block = request'[queue'[q]].block
        PROVE  p = q
    <3>1. CASE p # k /\ q # k
      <4>1. d(p) \in DOMAIN queue /\ d(q) \in DOMAIN queue /\ queue'[p] = queue[d(p)] /\ queue'[q] = queue[d(q)]
        BY <1>0, <1>7, <1>11, <3>1
      <4>2. d(p) = d(q)
        BY <1>1, <2>4, <4>1 DEF Owners
      <4> QED
        BY <1>7, <1>14, <3>1, <4>2
    <3>2. CASE p = k \/ q = k
      BY <1>0, <1>1, <1>5, <1>7, <1>11, <1>12, <2>4, <3>2
    <3> QED
      BY <3>1, <3>2
  <2>5. \A u, v \in Tasks : Busy(call'[u]) /\ Busy(call'[v]) /\ call'[u].bh = call'[v].bh => u = v
    BY <1>17 DEF Owners
  <2>6. ASSUME NEW p \in DOMAIN queue', NEW u \in Tasks, Busy(call'[u])
        PROVE  call'[u].bh # request'[queue'[p]].block
    <3>1. u # t /\ Busy(call[u]) /\ call'[u] = call[u]
      BY <1>17, <2>6
    <3>2. CASE p = k
      BY <1>1, <1>2, <1>4, <1>12, <3>1, <3>2 DEF Owners
    <3>3. CASE p # k
      BY <1>0, <1>1, <1>7, <1>11, <3>1, <3>3 DEF Owners
    <3> QED
      BY <3>2, <3>3
  <2> QED
    BY <2>1, <2>2, <2>3, <2>4, <2>5, <2>6 DEF Owners
<1>19. InUse'
  <2>1. ASSUME NEW j \in Slots, request'[j] # FREE
        PROVE  \E p \in DOMAIN queue' : queue'[p] = j
    <3>1. CASE \E p \in DOMAIN queue : queue[p] = j
      BY <1>0, <1>7, <1>13, <3>1
    <3>2. CASE \E u \in Tasks : call[u].at = "add" /\ call[u].req = j
      BY <1>1, <1>12, <3>2 DEF Running, i
    <3> QED
      BY <1>1, <2>1, <3>1, <3>2 DEF InUse
  <2>2. \A u \in Tasks : call'[u].at # "add"
    BY <1>1, <1>9 DEF Running, Moves
  <2> QED
    BY <2>1, <2>2 DEF InUse
<1>20. Reads'
  <2>1. ASSUME NEW p \in DOMAIN queue', request'[queue'[p]].cmd = READ
        PROVE  ~b_uptodate'[request'[queue'[p]].block]
    <3>1. CASE p = k
      BY <1>1, <1>2, <1>4, <1>12, <2>1, <3>1 DEF Reads
    <3>2. CASE p # k
      BY <1>0, <1>1, <1>7, <1>11, <2>1, <3>2 DEF Reads
    <3> QED
      BY <3>1, <3>2
  <2> QED
    BY <1>1, <1>17, <2>1 DEF Reads
<1>21. queue # <<>> => queue'[1] = queue[1]
  BY <1>0, <1>6, <1>7, <1>10
<1>22. queue = <<>> => queue' = <<call[t].req>>
  <2> SUFFICES ASSUME queue = <<>> PROVE queue' = <<i>>
    BY DEF i
  <2>1. n = 0 /\ k = 1
    BY <1>6, <1>10
  <2>2. Len(queue') = 1 /\ queue'[1] = i /\ queue' \in Seq(Slots)
    BY <1>7, <2>1
  <2> QED
    BY <2>2
<1>23. queue' # <<>>
  BY <1>0, <1>7
<1>24. \E p \in DOMAIN queue' : request[queue'[p]].block = call[t].bh
  BY <1>4, <1>12
<1>25. \A q \in DOMAIN queue : \E p \in DOMAIN queue' : queue'[p] = queue[q]
  BY <1>0, <1>7, <1>13
<1> QED
  BY <1>1, <1>8, <1>15, <1>16, <1>18, <1>19, <1>20, <1>21, <1>22, <1>23, <1>24, <1>25
(* end_request.                                                              *)
LEMMA EndStep ==
  ASSUME QInv, NEW uptodate \in BOOLEAN, EndRequest(uptodate)
  PROVE  /\ QInv'
         /\ queue # <<>> /\ 1 \in DOMAIN queue
         /\ b_uptodate' = [b_uptodate EXCEPT ![Block] = uptodate] /\ b_dirt' = b_dirt
         /\ \A b \in Blocks \ {Block} : Requests(b)' = {} => Requests(b) = {}
<1> USE DEF QInv
<1> DEFINE n == Len(queue)
           c == queue[1]
           b0 == request[c].block
<1>0. n \in Nat /\ DOMAIN queue = 1..n /\ queue \in Seq(Slots)
  BY OnQueue DEF QTypes
<1>1. /\ queue # <<>>
      /\ b_uptodate' = [b_uptodate EXCEPT ![b0] = uptodate] /\ b_lock' = [b_lock EXCEPT ![b0] = FALSE]
      /\ request' = [request EXCEPT ![c] = FREE] /\ queue' = Tail(queue)
      /\ b_dirt' = b_dirt /\ cur' = cur
  BY DEF EndRequest, CURRENT
<1>c. call' = [t \in Tasks |->
                    CASE call[t].at = "asleep" -> [call[t] EXCEPT !.at = "scan", !.missed = 0]
                      [] call[t].at = "full"   -> [call[t] EXCEPT !.missed = @ + 1]
                      [] OTHER                 -> call[t]]
  BY DEF EndRequest, CURRENT
<1>2. n >= 1 /\ 1 \in DOMAIN queue /\ c \in Slots /\ b0 \in Blocks
  BY <1>0, <1>1, OnQueue
<1>3. /\ queue' \in Seq(Slots) /\ Len(queue') = n - 1 /\ DOMAIN queue' = 1..(n - 1)
      /\ \A p \in 1..(n - 1) : queue'[p] = queue[p + 1] /\ p + 1 \in DOMAIN queue
  BY <1>0, <1>1, <1>2
<1>4. ASSUME NEW p \in 1..(n - 1)
      PROVE  /\ queue'[p] = queue[p + 1] /\ p + 1 \in DOMAIN queue
             /\ queue[p + 1] \in Slots \ {c} /\ request'[queue[p + 1]] = request[queue[p + 1]]
             /\ request[queue[p + 1]].block # b0
  <2>1. p + 1 # 1 /\ p + 1 \in DOMAIN queue /\ queue'[p] = queue[p + 1]
    BY <1>0, <1>3
  <2>2. request[queue[p + 1]].block # b0
    BY <1>2, <2>1 DEF Owners
  <2>3. queue[p + 1] \in Slots
    BY <2>1, OnQueue
  <2>4. queue[p + 1] # c
    BY <2>2
  <2>5. request'[queue[p + 1]] = request[queue[p + 1]]
    BY <1>1, <2>3, <2>4 DEF QTypes
  <2> QED
    BY <2>1, <2>2, <2>3, <2>4, <2>5
<1>5. ASSUME NEW t \in Tasks
      PROVE  /\ call'[t] \in Calls /\ call'[t].rw = call[t].rw /\ call'[t].bh = call[t].bh
             /\ call'[t].req = call[t].req
             /\ call'[t].at = IF call[t].at = "asleep" THEN "scan" ELSE call[t].at
             /\ call[t].at = "full" => call'[t].missed = call[t].missed + 1
             /\ call[t].at \notin {"asleep", "full"} => call'[t] = call[t]
  <2>1. call[t] \in Calls
    BY DEF QTypes
  <2>2. CASE call[t].at = "asleep"
    <3>1. PICK r : r = [call[t] EXCEPT !.missed = 0]
      OBVIOUS
    <3>2. /\ r \in Calls /\ r.rw = call[t].rw /\ r.bh = call[t].bh /\ r.req = call[t].req
      BY <2>1, <3>1 DEF Calls
    <3>3. PICK q : q = [r EXCEPT !.at = "scan"]
      OBVIOUS
    <3>4. /\ q \in Calls /\ q.rw = r.rw /\ q.bh = r.bh /\ q.req = r.req /\ q.at = "scan"
      BY <3>2, <3>3 DEF Calls
    <3>5. call'[t] = [call[t] EXCEPT !.at = "scan", !.missed = 0]
      BY <1>c, <2>2
    <3>6. call'[t] = q
      BY <2>1, <3>1, <3>3, <3>5 DEF Calls
    <3> QED
      BY <2>2, <3>2, <3>4, <3>6
  <2>3. CASE call[t].at = "full"
    <3>1. PICK r : r = [call[t] EXCEPT !.missed = @ + 1]
      OBVIOUS
    <3>2. /\ r \in Calls /\ r.rw = call[t].rw /\ r.bh = call[t].bh /\ r.req = call[t].req
          /\ r.at = call[t].at /\ r.missed = call[t].missed + 1
      BY <2>1, <3>1 DEF Calls
    <3>3. call'[t] = r
      BY <1>c, <2>3, <3>1
    <3> QED
      BY <2>3, <3>2, <3>3
  <2>4. CASE call[t].at \notin {"asleep", "full"}
    BY <1>c, <2>1, <2>4
  <2> QED
    BY <2>2, <2>3, <2>4
<1>6. call' \in [Tasks -> Calls]
  <2>1. DOMAIN call' = Tasks /\ call' = [t \in Tasks |-> call'[t]]
    BY <1>c
  <2> QED
    BY <1>5, <2>1
<1>7. QTypes'
  <2>1. /\ request' \in [Slots -> {FREE} \cup Entries] /\ b_lock' \in [Blocks -> BOOLEAN]
        /\ b_uptodate' \in [Blocks -> BOOLEAN]
    BY <1>1 DEF QTypes
  <2>2. \A t \in Tasks : IF call'[t].at = "user" THEN call'[t] = Idle ELSE call'[t].bh \in Blocks
    BY <1>5 DEF QTypes
  <2> QED
    BY <1>1, <1>3, <1>6, <2>1, <2>2 DEF QTypes
<1>8. \A t \in Tasks : (Busy(call'[t]) <=> Busy(call[t])) /\ Cmd(t)' = Cmd(t)
  BY <1>5 DEF Busy, Cmd
<1>9. Running'
  BY <1>1, <1>5 DEF Running
<1>10. \A b \in Blocks : b_lock'[b] <=> b_lock[b] /\ b # b0
  BY <1>1, <1>2 DEF QTypes
<1>b. \A t \in Tasks : Busy(call[t]) => call[t].bh \in Blocks /\ call[t].bh # b0
  BY <1>2, BusyTask DEF Owners
<1> HIDE DEF c, n
<1>11. Owners'
  <2>1. \A p \in DOMAIN queue' : request'[queue'[p]] # FREE /\ b_lock'[request'[queue'[p]].block]
    BY <1>3, <1>4, <1>10, OnQueue DEF Owners
  <2>2. \A u \in Tasks : Busy(call'[u]) => b_lock'[call'[u].bh]
    BY <1>5, <1>8, <1>10, <1>b DEF Owners
  <2>3. ASSUME NEW b \in Blocks, b_lock'[b]
        PROVE  \/ \E p \in DOMAIN queue' : request'[queue'[p]].block = b
               \/ \E u \in Tasks : Busy(call'[u]) /\ call'[u].bh = b
    <3>1. CASE \E q \in DOMAIN queue : request[queue[q]].block = b
      <4>1. PICK q \in DOMAIN queue : request[queue[q]].block = b
        BY <3>1
      <4>2. q # 1
        BY <1>10, <2>3, <4>1 DEF c
      <4>3. q - 1 \in 1..(n - 1) /\ (q - 1) + 1 = q
        BY <1>0, <4>2 DEF n
      <4> QED
        BY <1>3, <1>4, <4>1, <4>3
    <3>2. CASE \E u \in Tasks : Busy(call[u]) /\ call[u].bh = b
      BY <1>5, <1>8, <3>2
    <3> QED
      BY <1>10, <2>3, <3>1, <3>2 DEF Owners
  <2>4. ASSUME NEW p \in DOMAIN queue', NEW q \in DOMAIN queue', request'[queue'[p]].block = request'[queue'[q]].block
        PROVE  p = q
    <3>1. p + 1 = q + 1
      BY <1>3, <1>4, <2>4 DEF Owners
    <3> QED
      BY <1>0, <1>3, <3>1
  <2>5. \A u, v \in Tasks : Busy(call'[u]) /\ Busy(call'[v]) /\ call'[u].bh = call'[v].bh => u = v
    BY <1>5, <1>8 DEF Owners
  <2>6. \A p \in DOMAIN queue', u \in Tasks : Busy(call'[u]) => call'[u].bh # request'[queue'[p]].block
    BY <1>3, <1>4, <1>5, <1>8 DEF Owners
  <2> QED
    BY <2>1, <2>2, <2>3, <2>4, <2>5, <2>6 DEF Owners
<1>12. InUse'
  <2>1. ASSUME NEW j \in Slots, request'[j] # FREE
        PROVE  \/ \E p \in DOMAIN queue' : queue'[p] = j
               \/ \E u \in Tasks : call'[u].at = "add" /\ call'[u].req = j
    <3>1. j # c /\ request[j] # FREE
      BY <1>1, <2>1 DEF QTypes
    <3>2. CASE \E q \in DOMAIN queue : queue[q] = j
      <4>1. PICK q \in DOMAIN queue : queue[q] = j
        BY <3>2
      <4>2. q - 1 \in 1..(n - 1) /\ (q - 1) + 1 = q
        BY <1>0, <3>1, <4>1 DEF n, c
      <4> QED
        BY <1>3, <4>1, <4>2
    <3>3. CASE \E u \in Tasks : call[u].at = "add" /\ call[u].req = j
      BY <1>5, <3>3
    <3> QED
      BY <3>1, <3>2, <3>3 DEF InUse
  <2>2. ASSUME NEW u \in Tasks, call'[u].at = "add"
        PROVE  call'[u].req \in Slots /\ request'[call'[u].req] = [cmd |-> Cmd(u)', block |-> call'[u].bh]
    <3>1. call[u].at = "add" /\ Busy(call[u])
      BY <1>5, <2>2 DEF Busy
    <3>2. call[u].req \in Slots /\ request[call[u].req] = [cmd |-> Cmd(u), block |-> call[u].bh]
      BY <3>1 DEF InUse
    <3>3. call[u].req # c
      BY <1>b, <3>1, <3>2
    <3>4. request'[call[u].req] = request[call[u].req]
      BY <1>1, <3>2, <3>3 DEF QTypes
    <3> QED
      BY <1>5, <1>8, <3>2, <3>4
  <2> QED
    BY <2>1, <2>2 DEF InUse
<1>13. Waits'
  <2> SUFFICES ASSUME NEW u \in Tasks, call'[u].at \in {"full", "asleep"}
               PROVE  Len(queue') + call'[u].missed >= Third
    BY DEF Waits, Third
  <2>1. call[u].at = "full" /\ call'[u].missed = call[u].missed + 1
    BY <1>5
  <2>2. Len(queue) + call[u].missed >= Third /\ call[u].missed \in Nat
    BY <2>1 DEF Waits, QTypes, Calls
  <2>3. Third \in Int
    BY RequestAssumption DEF Third
  <2> QED
    BY <1>0, <1>3, <2>1, <2>2, <2>3 DEF n
<1>14. Reads'
  <2>1. \A b \in Blocks : b # b0 => b_uptodate'[b] = b_uptodate[b]
    BY <1>1 DEF QTypes
  <2>2. \A p \in DOMAIN queue' : request'[queue'[p]].cmd = READ => ~b_uptodate'[request'[queue'[p]].block]
    BY <1>3, <1>4, <2>1, OnQueue DEF Reads
  <2>3. \A u \in Tasks : Busy(call'[u]) /\ Cmd(u)' = READ => ~b_uptodate'[call'[u].bh]
    BY <1>5, <1>8, <1>b, <2>1 DEF Reads
  <2> QED
    BY <2>2, <2>3 DEF Reads
<1>15. Sweep'
  <2>1. ASSUME NEW p \in 1..((n - 1) - 1) PROVE p + 1 \in 1..(n - 1) /\ (Turns(p)' <=> Turns(p + 1))
    <3>1. p \in 1..(n - 1) /\ p + 1 \in 1..(n - 1) /\ p \in Int
      BY <1>0
    <3> QED
      BY <1>4, <3>1 DEF Turns, IN_ORDER
  <2>2. \A p, q \in 1..(n - 1) : Turns(p) /\ Turns(q) => p = q
    BY DEF Sweep, n
  <2> QED
    BY <1>0, <1>3, <2>1, <2>2 DEF Sweep
<1>16. ASSUME NEW b \in Blocks \ {b0}, Requests(b)' = {} PROVE Requests(b) = {}
  <2>1. ASSUME NEW q \in DOMAIN queue, request[queue[q]].block = b PROVE FALSE
    <3>1. q # 1
      BY <2>1 DEF c
    <3>2. q - 1 \in 1..(n - 1) /\ (q - 1) + 1 = q
      BY <1>0, <3>1 DEF n
    <3>3. q - 1 \in Requests(b)'
      BY <1>3, <1>4, <2>1, <3>2 DEF Requests
    <3> QED
      BY <1>16, <3>3
  <2> QED
    BY <2>1 DEF Requests
<1>17. Block = b0
  BY DEF Block, CURRENT, c
<1> QED
  BY <1>1, <1>2, <1>7, <1>9, <1>11, <1>12, <1>13, <1>14, <1>15, <1>16, <1>17
(* A task finds the table full only with two thirds of it on the queue.      *)
LEMMA FullQueue ==
  ASSUME QInv, NEW t \in Tasks, Full(t)
  PROVE  Len(queue) >= Third
<1> USE DEF QInv
<1> DEFINE S == 0..(Third - 1)
           I == {queue[p] : p \in DOMAIN queue}
<1>0. Third \in Nat /\ Third <= NR_REQUEST /\ Len(queue) \in Nat /\ DOMAIN queue = 1..Len(queue)
  BY RequestAssumption, OnQueue DEF Third
<1>1. call[t].at = "scan" /\ cur = t /\ Empties(t) = {}
  BY DEF Full
<1>2. S \subseteq Usable(Cmd(t)) /\ S \subseteq Slots
  BY <1>0, RequestAssumption DEF Usable, Slots, Third
<1>3. \A u \in Tasks : call[u].at # "add"
  BY <1>1 DEF Running
<1>4. S \subseteq I
  BY <1>1, <1>2, <1>3 DEF Empties, InUse
<1> HIDE DEF S, I
<1>5. IsFiniteSet(DOMAIN queue) /\ Cardinality(DOMAIN queue) = Len(queue)
  <2>1. PICK k : k = Len(queue)
    OBVIOUS
  <2>2. 1 \in Int /\ k \in Int /\ k >= 0
    BY <1>0, <2>1
  <2>3. IsFiniteSet(1..k) /\ Cardinality(1..k) = IF 1 > k THEN 0 ELSE k - 1 + 1
    BY <2>2, FS_Interval
  <2> QED
    BY <1>0, <2>1, <2>2, <2>3
<1>6. IsFiniteSet(I) /\ Cardinality(I) <= Cardinality(DOMAIN queue)
  <2>1. PICK D : D = DOMAIN queue
    OBVIOUS
  <2>2. PICK f : f = [p \in D |-> queue[p]]
    OBVIOUS
  <2>3. f \in Surjection(D, I)
    BY <2>1, <2>2 DEF Surjection, I
  <2> QED
    BY <1>5, <2>1, <2>3, FS_Surjection
<1>7. Cardinality(S) = Third /\ Cardinality(S) <= Cardinality(I) /\ Cardinality(I) \in Nat
  <2>1. IsFiniteSet(S) /\ Cardinality(S) = Third
    <3>1. PICK k : k = Third - 1
      OBVIOUS
    <3>2. 0 \in Int /\ k \in Int
      BY <1>0, <3>1
    <3>3. IsFiniteSet(0..k) /\ Cardinality(0..k) = IF 0 > k THEN 0 ELSE k - 0 + 1
      BY <3>2, FS_Interval
    <3> QED
      BY <1>0, <3>1, <3>2, <3>3 DEF S
  <2> QED
    BY <1>4, <1>6, <2>1, FS_Subset, FS_CardinalityType
<1> QED
  BY <1>0, <1>5, <1>6, <1>7

(* Every step of the tasks, of the holders of the buffers and of the device  *)
(* keeps the invariant.                                                      *)
LEMMA QStepInv == QInv /\ [Next]_rqvars => QInv'
<1> SUFFICES ASSUME QInv, [Next]_rqvars PROVE QInv'
  OBVIOUS
<1> USE RequestAssumption
<1>t. QTypes
  BY DEF QInv
<1>1. ASSUME NEW b \in Blocks, MarkDirty(b) PROVE QInv'
  <2>1. /\ b_uptodate[b] \/ ~b_lock[b]
        /\ b_uptodate' = [b_uptodate EXCEPT ![b] = TRUE] /\ b_dirt' = [b_dirt EXCEPT ![b] = TRUE]
        /\ request' = request /\ queue' = queue /\ b_lock' = b_lock /\ cur' = cur /\ call' = call
    BY <1>1 DEF MarkDirty
  <2>2. QTypes'
    <3>1. b_uptodate' \in [Blocks -> BOOLEAN] /\ b_dirt' \in [Blocks -> BOOLEAN]
      BY <1>t, <2>1 DEF QTypes
    <3> QED
      BY <1>t, <2>1, <3>1 DEF QTypes
  <2>3. Reads'
    <3>1. ASSUME NEW p \in DOMAIN queue, request[queue[p]].cmd = READ PROVE ~b_uptodate'[request[queue[p]].block]
      <4>1. request[queue[p]].block # b
        BY <2>1, <3>1 DEF QInv, Owners, Reads
      <4> QED
        BY <1>t, <2>1, <3>1, <4>1, OnQueue DEF QInv, Reads, QTypes
    <3>2. ASSUME NEW t \in Tasks, Busy(call[t]), Cmd(t) = READ PROVE ~b_uptodate'[call[t].bh]
      <4>1. call[t].bh # b
        BY <2>1, <3>2 DEF QInv, Owners, Reads
      <4> QED
        BY <1>t, <2>1, <3>2, <4>1, BusyTask DEF QInv, Reads, QTypes
    <3> QED
      BY <2>1, <3>1, <3>2 DEF Reads, Cmd
  <2> QED
    BY <2>1, <2>2, <2>3 DEF QInv, Running, Owners, InUse, Cmd, Waits, Sweep, Turns, IN_ORDER
<1>2. ASSUME NEW t \in Tasks, NEW op \in {READ, WRITE, READA, WRITEA}, NEW b \in Blocks, Call(t, op, b)
      PROVE  QInv'
  <2> DEFINE r == [at |-> "lock", rw |-> op, bh |-> b, req |-> -1, missed |-> 0]
  <2>1. r \in Calls /\ r.at = "lock" /\ r.bh = b
    BY DEF Calls
  <2>2. /\ call' = [call EXCEPT ![t] = r] /\ call[t].at = "user" /\ cur = NULL /\ cur' \in {NULL, t}
        /\ request' = request /\ queue' = queue /\ b_lock' = b_lock /\ b_uptodate' = b_uptodate
        /\ b_dirt' = b_dirt
    BY <1>2 DEF Call, bufvars
  <2> HIDE DEF r
  <2>3. Moves(t, r)
    BY <1>t, <2>1, <2>2, MovesOne
  <2>4. ~Busy(r) /\ ~Busy(call[t])
    BY <2>1, <2>2 DEF Busy
  <2> QED
    BY <2>1, <2>2, <2>3, <2>4, QuietStep
<1>3. ASSUME NEW t \in Tasks, Lock(t) PROVE QInv'
  <2> DEFINE b == call[t].bh
             idle == IF Cmd(t) = WRITE THEN ~b_dirt[b] ELSE b_uptodate[b]
  <2>1. /\ call[t].at = "lock" /\ cur \in {NULL, t} /\ ~b_lock[b] /\ b_lock' = [b_lock EXCEPT ![b] = ~idle]
        /\ cur' \in {NULL, t} /\ call' = (IF idle THEN Returned(t) ELSE Goes(t, "scan"))
        /\ request' = request /\ queue' = queue /\ b_uptodate' = b_uptodate /\ b_dirt' = b_dirt
    BY <1>3 DEF Lock
  <2>2. b \in Blocks /\ ~Busy(call[t])
    BY <1>t, <2>1 DEF QTypes, Busy
  <2>3. CASE idle
    <3>1. Moves(t, Idle) /\ Idle \in Calls /\ Idle.at = "user"
      BY <1>t, <2>1, <2>3, MovesReturned
    <3>2. b_lock' = b_lock
      <4>1. b_lock \in [Blocks -> BOOLEAN] /\ b_lock[b] = FALSE
        BY <1>t, <2>1, <2>2 DEF QTypes
      <4>2. b_lock' = [b_lock EXCEPT ![b] = FALSE]
        BY <2>1, <2>3
      <4> HIDE DEF b, idle
      <4> QED
        BY <4>1, <4>2
    <3>3. ~Busy(Idle)
      BY <3>1 DEF Busy
    <3> QED
      BY <2>1, <2>2, <3>1, <3>2, <3>3, QuietStep
  <2>4. CASE ~idle
    <3>1. PICK r \in Calls : Moves(t, r) /\ r.at = "scan" /\ r.bh = b /\ r.rw = call[t].rw
      BY <1>t, <2>1, <2>4, MovesGoes
    <3>2. Busy(r) /\ b_lock' = [b_lock EXCEPT ![r.bh] = TRUE]
      BY <2>1, <2>4, <3>1 DEF Busy
    <3>3. r.rw \in {READ, READA} => ~b_uptodate[r.bh]
      BY <2>4, <3>1 DEF Cmd, READ, WRITE
    <3> QED
      BY <2>1, <2>2, <3>1, <3>2, <3>3, QuietStep
  <2> QED
    BY <2>3, <2>4
<1>4. ASSUME NEW t \in Tasks, Forget(t) PROVE QInv'
  <2>1. /\ call[t].at = "scan" /\ cur = t /\ b_lock' = [b_lock EXCEPT ![call[t].bh] = FALSE]
        /\ call' = Returned(t) /\ cur' = NULL
        /\ request' = request /\ queue' = queue /\ b_uptodate' = b_uptodate /\ b_dirt' = b_dirt
    BY <1>4 DEF Forget
  <2>2. Moves(t, Idle) /\ Idle \in Calls /\ Idle.at = "user"
    BY <1>t, <2>1, MovesReturned
  <2>3. Busy(call[t]) /\ ~Busy(Idle)
    BY <2>1, <2>2 DEF Busy
  <2> QED
    BY <2>1, <2>2, <2>3, QuietStep
<1>5. ASSUME NEW t \in Tasks, Full(t) PROVE QInv'
  <2>1. /\ call[t].at = "scan" /\ cur = t /\ call' = Goes(t, "full")
        /\ request' = request /\ queue' = queue /\ b_lock' = b_lock /\ b_uptodate' = b_uptodate
        /\ b_dirt' = b_dirt /\ cur' = cur
    BY <1>5 DEF Full, bufvars
  <2>2. PICK r \in Calls : Moves(t, r) /\ r.at = "full" /\ r.bh = call[t].bh /\ r.rw = call[t].rw
    BY <1>t, <2>1, MovesGoes
  <2>3. Busy(call[t]) /\ Busy(r)
    BY <2>1, <2>2 DEF Busy
  <2>4. Len(queue) + r.missed >= Third
    <3>1. r.missed \in Nat /\ Len(queue) \in Nat /\ Third \in Int
      BY OnQueue, RequestAssumption DEF Calls, QInv, Third
    <3>2. Len(queue) >= Third
      BY <1>5, FullQueue
    <3> QED
      BY <3>1, <3>2
  <2> QED
    BY <2>1, <2>2, <2>3, <2>4, QuietStep
<1>6. ASSUME NEW t \in Tasks, Sleep(t) PROVE QInv'
  <2>1. /\ call[t].at = "full" /\ cur = t /\ call' = Goes(t, "asleep") /\ cur' = NULL
        /\ request' = request /\ queue' = queue /\ b_lock' = b_lock /\ b_uptodate' = b_uptodate
        /\ b_dirt' = b_dirt
    BY <1>6 DEF Sleep, bufvars
  <2>2. PICK r \in Calls : /\ Moves(t, r) /\ r.at = "asleep" /\ r.bh = call[t].bh
                            /\ r.rw = call[t].rw /\ r.missed = call[t].missed
    BY <1>t, <2>1, MovesGoes
  <2>3. Busy(call[t]) /\ Busy(r)
    BY <2>1, <2>2 DEF Busy
  <2>4. Len(queue) + r.missed >= Third
    BY <2>1, <2>2 DEF QInv, Waits
  <2> QED
    BY <2>1, <2>2, <2>3, <2>4, QuietStep
<1>7. ASSUME NEW t \in Tasks, Rescan(t) PROVE QInv'
  <2>1. /\ cur = NULL /\ cur' = t /\ call' = call /\ request' = request /\ queue' = queue
        /\ b_lock' = b_lock /\ b_uptodate' = b_uptodate /\ b_dirt' = b_dirt
    BY <1>7 DEF Rescan, bufvars
  <2> QED
    BY <2>1 DEF QInv, QTypes, Running, Owners, InUse, Cmd, Waits, Reads, Sweep, Turns, IN_ORDER
<1>8. ASSUME UNCHANGED rqvars PROVE QInv'
  BY <1>8 DEF rqvars, QInv, QTypes, Running, Owners, InUse, Cmd, Waits, Reads, Sweep, Turns, IN_ORDER
<1> QED
  BY <1>1, <1>2, <1>3, <1>4, <1>5, <1>6, <1>7, <1>8, FillStep, AddStep, EndStep DEF Next, TaskStep

(* The invariant has what the runs check.                                    *)
LEMMA QInvImplies == QInv => QueueAccounted /\ OneSweep /\ TypeOK
<1> SUFFICES ASSUME QInv PROVE QueueAccounted /\ OneSweep /\ TypeOK
  OBVIOUS
<1> USE DEF QInv
<1>1. LockAccounted
  <2> SUFFICES ASSUME NEW b \in Blocks
               PROVE  Cardinality(Requests(b)) + Cardinality(Holders(b)) = IF b_lock[b] THEN 1 ELSE 0
    BY DEF LockAccounted
  <2>1. (\A p, q \in Requests(b) : p = q) /\ (\A t, u \in Holders(b) : t = u)
    BY DEF Requests, Holders, Owners, Busy
  <2>2. Cardinality(Requests(b)) = IF Requests(b) = {} THEN 0 ELSE 1
    BY <2>1, AtMostOne, Zenon
  <2>3. Cardinality(Holders(b)) = IF Holders(b) = {} THEN 0 ELSE 1
    BY <2>1, AtMostOne, Zenon
  <2>4. b_lock[b] <=> Requests(b) # {} \/ Holders(b) # {}
    BY DEF Requests, Holders, Owners, Busy
  <2>5. ~(Requests(b) # {} /\ Holders(b) # {})
    BY DEF Requests, Holders, Owners, Busy
  <2> QED
    BY <2>2, <2>3, <2>4, <2>5
<1>2. TableAccounted
  <2>1. IsInjective(queue)
    BY OnQueue DEF IsInjective
  <2>2. ASSUME NEW i \in Slots
        PROVE  request[i] # FREE <=> (Contains(queue, i) # \E t \in Tasks : call[t].at = "add" /\ call[t].req = i)
    <3>1. Contains(queue, i) <=> \E p \in DOMAIN queue : queue[p] = i
      BY OnQueue DEF Contains
    <3>2. ASSUME NEW t \in Tasks, call[t].at = "add", call[t].req = i
          PROVE  request[i] # FREE /\ \A p \in DOMAIN queue : queue[p] # i
      <4>1. Busy(call[t]) /\ call[t].bh \in Blocks /\ request[i] = [cmd |-> Cmd(t), block |-> call[t].bh]
        BY <3>2, BusyTask DEF Busy, InUse
      <4> QED
        BY <4>1, RequestAssumption DEF FREE, Owners
    <3>3. \A p \in DOMAIN queue : request[queue[p]] # FREE
      BY DEF Owners
    <3> DEFINE A == Contains(queue, i)
               B == \E t \in Tasks : call[t].at = "add" /\ call[t].req = i
    <3>4. A \in BOOLEAN /\ B \in BOOLEAN
      BY DEF Contains
    <3>5. (A => request[i] # FREE) /\ (B => request[i] # FREE) /\ ~(A /\ B)
      BY <3>1, <3>2, <3>3
    <3>6. request[i] # FREE => A \/ B
      BY <3>1 DEF InUse
    <3> HIDE DEF A, B
    <3>7. request[i] # FREE <=> A # B
      BY <3>4, <3>5, <3>6
    <3> QED
      BY <3>7 DEF A, B
  <2> QED
    BY <2>1, <2>2 DEF TableAccounted
<1>3. WaitHasWaker
  <2>1. ASSUME NEW t \in Tasks, call[t].at = "asleep", queue = <<>> PROVE call[t].missed >= Third
    <3>1. Len(queue) + call[t].missed >= Third /\ Len(queue) = 0
      BY <2>1 DEF Waits
    <3>2. call[t].missed \in Nat
      BY DEF QTypes, Calls
    <3> QED
      BY <3>1, <3>2
  <2> QED
    BY <2>1 DEF WaitHasWaker, Third
<1>4. OneSweep
  <2> DEFINE S == {p \in 1..(Len(queue) - 1) : ~IN_ORDER(queue[p], queue[p + 1])}
  <2>1. \A p, q \in S : p = q
    BY DEF Sweep, Turns
  <2>2. Cardinality(S) = IF S = {} THEN 0 ELSE 1
    BY <2>1, AtMostOne, Zenon
  <2> QED
    BY <2>2 DEF OneSweep
<1>5. TypeOK
  <2>1. ASSUME NEW t \in Tasks
        PROVE  call[t] \in {Idle} \cup [at : {"lock", "scan", "full", "asleep", "add"},
                                        rw : {READ, WRITE, READA, WRITEA},
                                        bh : Blocks, req : Slots \cup {-1}, missed : Nat]
    <3>1. CASE call[t].at = "user"
      BY <3>1 DEF QTypes
    <3>2. CASE call[t].at # "user"
      BY <3>2 DEF QTypes, Calls
    <3> QED
      BY <3>1, <3>2
  <2> QED
    BY <2>1 DEF TypeOK, QTypes, Entries
<1> QED
  BY <1>1, <1>2, <1>3, <1>4, <1>5 DEF QueueAccounted
-----------------------------------------------------------------------------
(* Whatever the tasks do and whenever and however often the device ends      *)
(* requests, no lock and no entry of the table is lost, and a task sleeps    *)
(* without a waker only when everything that filled the table ended between  *)
(* its scan and its sleep_on in make_request.                                *)
THEOREM BlockLayerAccounted == Spec => []QueueAccounted
  BY QInitInv, QStepInv, QInvImplies, PTL DEF Spec

(* The elevator of add_request makes one sweep, however the requests come.   *)
THEOREM BlockLayerOneSweep == Spec => []OneSweep
  BY QInitInv, QStepInv, QInvImplies, PTL DEF Spec

(* The types of the block layer's variables.                                 *)
THEOREM BlockLayerTypeOK == Spec => []TypeOK
  BY QInitInv, QStepInv, QInvImplies, PTL DEF Spec
-----------------------------------------------------------------------------
(* The driver's steps are steps of the block layer with the device it        *)
(* assumes, or leave it unchanged, ...                                       *)
LEMMA HdImplementsQueue == HdSpec => Init /\ [][Next]_rqvars
<1>1. HdInit => Init
  BY DEF HdInit
<1>2. ASSUME [HdNext]_vars PROVE [Next]_rqvars
  <2>1. ASSUME NEW uptodate \in BOOLEAN, End(uptodate) PROVE Next
    BY <2>1 DEF End, Next
  <2>2. ASSUME BadRw PROVE Next \/ UNCHANGED rqvars
    BY <2>1, <2>2 DEF BadRw
  <2>3. ASSUME Driver PROVE Next \/ UNCHANGED rqvars
    BY <2>1, <2>2, <2>3 DEF Driver, NoRequest, OutOfRange, Reset, Recalibrate, StartRead, StartWrite, WriteTimeout
  <2>4. ASSUME Interrupt PROVE Next \/ UNCHANGED rqvars
    BY <2>1, <2>2, <2>4 DEF Interrupt, ReadIntr, WriteIntr, RecalIntr, ErrorIntr
  <2>5. ASSUME TaskOrBuffer PROVE Next \/ UNCHANGED rqvars
    BY <2>5, HdAssumption DEF TaskOrBuffer, Next, TaskStep, Modify, StartCopy, CopyOn
  <2> QED
    BY <1>2, <2>3, <2>4, <2>5 DEF HdNext, vars
<1> QED
  BY <1>1, <1>2, PTL DEF HdSpec

(* ... so they keep the invariant of the block layer.                        *)
LEMMA HdQueueInv == HdSpec => []QInv
<1>1. Init /\ [][Next]_rqvars => []QInv
  BY QInitInv, QStepInv, PTL
<1> QED
  BY <1>1, HdImplementsQueue, PTL
-----------------------------------------------------------------------------
HTypes ==
  /\ running \in BOOLEAN /\ command \in {NULL, "read", "write", "recal"}
  /\ nr_sectors \in {1, 2} /\ saved \in [Blocks -> SUBSET {1, 2}]
  /\ queue = <<>> => nr_sectors = 2

(* The sectors of CURRENT that were moved are the same on disk and in the    *)
(* buffer, and so is the one the controller writes, unless the buffer was    *)
(* changed meanwhile: it is marked then, or the change was a late one.       *)
Progress == queue # <<>> /\ ~b_dirt[Block] /\ Block \notin late =>
  /\ nr_sectors = 1 => 1 \in saved[Block]
  /\ command # NULL /\ command = "write" => Half \in saved[Block]

(* The inductive invariant of the driver.                                    *)
HInv == HTypes /\ InterruptMatches /\ SectorsInStep /\ Progress /\ NoLostUpdate

(* CURRENT is a request for a locked buffer.                                 *)
LEMMA CurrentRequest ==
  ASSUME QInv, queue # <<>>
  PROVE  /\ CURRENT = queue[1] /\ 1 \in DOMAIN queue /\ Block \in Blocks /\ b_lock[Block]
         /\ Requests(Block) # {}
         /\ ~IsWrite => ~b_uptodate[Block]
         /\ \A t \in Tasks : Busy(call[t]) => call[t].bh # Block
<1>1. 1 \in DOMAIN queue
  BY OnQueue DEF QInv, QTypes
<1>2. request[queue[1]] \in Entries /\ request[queue[1]].block \in Blocks /\ b_lock[request[queue[1]].block]
  BY <1>1, OnQueue DEF QInv
<1>3. ~IsWrite => request[queue[1]].cmd = READ
  BY <1>2 DEF IsWrite, CURRENT, Entries
<1> QED
  BY <1>1, <1>2, <1>3 DEF QInv, CURRENT, Block, Requests, Owners, Reads

(* The end of a request: either it failed and the buffer is not up to date,  *)
(* or it was moved to the end.                                               *)
LEMMA EndKeeps ==
  ASSUME QInv, HInv, NEW uptodate \in BOOLEAN, End(uptodate), command' = NULL,
         saved' \in [Blocks -> SUBSET {1, 2}], \A b \in Blocks : b # Block => saved'[b] = saved[b],
         running' \in BOOLEAN, late' = late,
         uptodate => (b_dirt[Block] \/ Block \in late \/ saved'[Block] = {1, 2})
  PROVE  HInv'
<1>1. EndRequest(uptodate) /\ nr_sectors' = 2
  BY DEF End
<1>2. /\ queue # <<>> /\ b_uptodate' = [b_uptodate EXCEPT ![Block] = uptodate] /\ b_dirt' = b_dirt
      /\ \A b \in Blocks \ {Block} : Requests(b)' = {} => Requests(b) = {}
  BY <1>1, EndStep
<1>3. HTypes'
  BY <1>1 DEF HTypes
<1>4. InterruptMatches' /\ SectorsInStep' /\ Progress'
  BY <1>1 DEF InterruptMatches, SectorsInStep, Progress
<1>5. NoLostUpdate'
  <2> SUFFICES ASSUME NEW b \in Blocks \ late', b_uptodate'[b], ~b_dirt'[b], Requests(b)' = {}
               PROVE  saved'[b] = {1, 2}
    BY DEF NoLostUpdate
  <2>1. CASE b = Block
    BY <1>2, <2>1 DEF QInv, QTypes
  <2>2. CASE b # Block
    BY <1>2, <2>2 DEF QInv, QTypes, HInv, NoLostUpdate
  <2> QED
    BY <2>1, <2>2
<1> QED
  BY <1>3, <1>4, <1>5 DEF HInv

(* A step of the driver that leaves the queue, the table and the buffers.    *)
LEMMA DriverKeeps ==
  ASSUME QInv, HInv, UNCHANGED rqvars, HTypes',
         queue # <<>> => \A b \in Blocks : b # Block => saved'[b] = saved[b],
         queue = <<>> => saved' = saved, late' = late,
         InterruptMatches', SectorsInStep', Progress'
  PROVE  HInv'
<1>1. NoLostUpdate'
  <2> SUFFICES ASSUME NEW b \in Blocks \ late', b_uptodate'[b], ~b_dirt'[b], Requests(b)' = {}
               PROVE  saved'[b] = {1, 2}
    BY DEF NoLostUpdate
  <2>1. Requests(b) = {} /\ b_uptodate[b] /\ ~b_dirt[b]
    BY DEF rqvars, Requests
  <2>2. saved[b] = {1, 2}
    BY <2>1 DEF HInv, NoLostUpdate
  <2>3. queue # <<>> => b # Block
    BY <2>1, CurrentRequest
  <2> QED
    BY <2>2, <2>3
<1> QED
  BY <1>1 DEF HInv

(* A retry: the buffers and nr_sectors stay.                                 *)
LEMMA RetryKeeps ==
  ASSUME QInv, HInv, BadRw, command' = NULL, saved' = saved, late' = late, running' \in BOOLEAN
  PROVE  HInv'
<1>1. ASSUME End(FALSE) PROVE HInv'
  BY <1>1, EndKeeps DEF HInv, HTypes
<1>2. ASSUME UNCHANGED <<rqvars, nr_sectors>> PROVE HInv'
  <2>1. UNCHANGED rqvars /\ nr_sectors' = nr_sectors /\ queue' = queue
    BY <1>2 DEF rqvars
  <2>2. HTypes' /\ InterruptMatches' /\ SectorsInStep'
    BY <2>1 DEF HInv, HTypes, InterruptMatches, SectorsInStep
  <2>3. Progress'
    BY <2>1 DEF HInv, Progress, rqvars, IsWrite, Block, CURRENT
  <2> QED
    BY <2>1, <2>2, <2>3, DriverKeeps
<1> QED
  BY <1>1, <1>2 DEF BadRw
(* do_hd_request.                                                            *)
LEMMA DriverStep ==
  ASSUME QInv, HInv, Driver
  PROVE  HInv'
<1>0. running /\ command = NULL
  BY DEF HInv, InterruptMatches, Driver, NoRequest, OutOfRange, Reset, Recalibrate, StartRead, StartWrite,
     WriteTimeout, InRange
<1>f. ASSUME UNCHANGED rqvars PROVE /\ queue' = queue /\ Block' = Block /\ (IsWrite' <=> IsWrite) /\ b_dirt' = b_dirt
  BY <1>f DEF rqvars, Block, IsWrite, CURRENT
<1>n. queue # <<>> => Sector \in Int /\ Block \in Nat /\ nr_sectors \in {1, 2} /\ NR_SECTS \in Nat
  BY CurrentRequest, RequestAssumption, HdAssumption DEF Sector, HInv, HTypes
<1>s. ASSUME UNCHANGED rqvars, nr_sectors' = nr_sectors, queue # <<>>, Sector + 2 <= NR_SECTS,
             extent' = [sector |-> Sector, count |-> nr_sectors]
      PROVE  SectorsInStep'
  <2>1. /\ Sector = 2 * Block + (2 - nr_sectors) /\ Sector' = Sector /\ Block' = Block
        /\ extent'.sector = Sector /\ extent'.count = nr_sectors
    BY <1>f, <1>s DEF Sector
  <2> QED
    BY <1>n, <1>s, <2>1 DEF SectorsInStep
<1>1. ASSUME UNCHANGED <<rqvars, nr_sectors, saved, late>>, running' = FALSE, queue = <<>> \/ command' = "recal",
             command' \in {NULL, "recal"},
             command' # NULL => queue # <<>> /\ do_hd' = "recal_intr"
      PROVE  HInv'
  <2>1. HTypes' /\ InterruptMatches' /\ SectorsInStep' /\ Progress'
    BY <1>1, <1>f DEF HInv, HTypes, InterruptMatches, SectorsInStep, Progress, rqvars
  <2> QED
    BY <1>1, <2>1, DriverKeeps
<1>2. ASSUME NoRequest PROVE HInv'
  BY <1>0, <1>1, <1>2 DEF NoRequest, datavars
<1>3. ASSUME OutOfRange PROVE HInv'
  BY <1>0, <1>3, EndKeeps DEF OutOfRange, HInv, HTypes, datavars
<1>4. ASSUME Reset PROVE HInv'
  BY <1>1, <1>4 DEF Reset, HdOut, InRange, datavars
<1>5. ASSUME Recalibrate PROVE HInv'
  BY <1>1, <1>5 DEF Recalibrate, HdOut, InRange, datavars
<1>6. ASSUME StartRead PROVE HInv'
  <2>1. /\ command' = "read" /\ do_hd' = "read_intr" /\ running' = FALSE /\ queue # <<>> /\ ~IsWrite
        /\ UNCHANGED rqvars /\ nr_sectors' = nr_sectors /\ saved' = saved /\ late' = late
        /\ extent' = [sector |-> Sector, count |-> nr_sectors] /\ Sector + 2 <= NR_SECTS
    BY <1>6, <1>n DEF StartRead, HdOut, InRange, Beyond, datavars
  <2>2. HTypes' /\ InterruptMatches' /\ SectorsInStep'
    BY <1>f, <1>s, <2>1 DEF HInv, HTypes, InterruptMatches
  <2>3. Progress'
    BY <1>f, <2>1 DEF HInv, Progress
  <2> QED
    BY <2>1, <2>2, <2>3, DriverKeeps
<1>7. ASSUME StartWrite PROVE HInv'
  <2>1. /\ command' = "write" /\ do_hd' = "write_intr" /\ running' = FALSE /\ queue # <<>> /\ IsWrite
        /\ UNCHANGED rqvars /\ nr_sectors' = nr_sectors
        /\ saved' = [saved EXCEPT ![Block] = @ \cup {Half}] /\ late' = late
        /\ extent' = [sector |-> Sector, count |-> nr_sectors] /\ Sector + 2 <= NR_SECTS
    BY <1>7, <1>n DEF StartWrite, HdOut, InRange, Beyond
  <2>2. Half \in {1, 2} /\ Half' = Half /\ Block \in Blocks
    BY <2>1, CurrentRequest DEF HInv, HTypes, Half
  <2>3. saved' \in [Blocks -> SUBSET {1, 2}] /\ saved'[Block] = saved[Block] \cup {Half}
        /\ \A b \in Blocks : b # Block => saved'[b] = saved[b]
    BY <2>1, <2>2 DEF HInv, HTypes
  <2>4. HTypes' /\ InterruptMatches' /\ SectorsInStep'
    BY <1>f, <1>s, <2>1, <2>3 DEF HInv, HTypes, InterruptMatches
  <2>5. Progress'
    BY <1>f, <2>1, <2>2, <2>3 DEF HInv, Progress
  <2> QED
    BY <2>1, <2>3, <2>4, <2>5, DriverKeeps
<1>8. ASSUME WriteTimeout PROVE HInv'
  BY <1>8, RetryKeeps DEF WriteTimeout, HInv, HTypes, Done, datavars
<1> QED
  BY <1>2, <1>3, <1>4, <1>5, <1>6, <1>7, <1>8 DEF Driver

(* hd_interrupt.                                                             *)
LEMMA InterruptStep ==
  ASSUME QInv, HInv, Interrupt
  PROVE  HInv'
<1>0. command # NULL /\ ~running
  BY DEF Interrupt, ReadIntr, WriteIntr, RecalIntr, ErrorIntr
<1>1. queue # <<>> /\ Block \in Blocks /\ Requests(Block) # {} /\ (~IsWrite => ~b_uptodate[Block])
  BY <1>0, CurrentRequest DEF HInv, InterruptMatches
<1>2. /\ do_hd = "read_intr" => command = "read" /\ ~IsWrite
      /\ do_hd = "write_intr" => command = "write" /\ IsWrite
  BY <1>0 DEF HInv, HTypes, InterruptMatches
<1>f. ASSUME UNCHANGED rqvars PROVE /\ queue' = queue /\ Block' = Block /\ (IsWrite' <=> IsWrite) /\ b_dirt' = b_dirt
  BY <1>f DEF rqvars, Block, IsWrite, CURRENT
<1>3. Half \in {1, 2} /\ Half = 3 - nr_sectors /\ nr_sectors \in {1, 2}
  BY DEF HInv, HTypes, Half
<1>m. /\ do_hd \in {"read_intr", "write_intr"} =>
           /\ extent = [sector |-> Sector, count |-> nr_sectors] /\ extent.count = nr_sectors
           /\ extent.sector = Sector /\ Sector = 2 * Block + (2 - nr_sectors)
           /\ 2 * Block + 2 <= NR_SECTS /\ Block \in Nat /\ NR_SECTS \in Nat
  BY <1>0, <1>1, <1>2, RequestAssumption, HdAssumption DEF HInv, SectorsInStep, Sector
<1>s. ASSUME UNCHANGED rqvars, nr_sectors = 2, nr_sectors' = 1, do_hd \in {"read_intr", "write_intr"}, Moved
      PROVE  command' = command /\ SectorsInStep'
  <2>1. command' = command /\ extent' = [sector |-> extent.sector + 1, count |-> extent.count - 1]
    BY <1>m, <1>s DEF Moved
  <2>2. /\ Sector' = 2 * Block + (2 - 1) /\ Block' = Block
        /\ extent'.sector = Sector + 1 /\ extent'.count = 1
    BY <1>f, <1>m, <1>s, <2>1 DEF Sector
  <2>3. Sector' = Sector + 1 /\ extent' = [sector |-> Sector', count |-> nr_sectors']
    BY <1>m, <1>s, <2>1, <2>2
  <2> QED
    BY <1>m, <1>s, <2>1, <2>2, <2>3 DEF SectorsInStep
<1>d. ASSUME nr_sectors = 1, do_hd \in {"read_intr", "write_intr"}, Moved PROVE command' = NULL
  BY <1>m, <1>d DEF Moved, Done
<1>4. ASSUME ReadIntr PROVE HInv'
  <2>1. /\ saved' = [saved EXCEPT ![Block] = @ \cup {Half}] /\ do_hd = "read_intr" /\ Moved /\ late' = late
    BY <1>4 DEF ReadIntr
  <2>2. /\ saved' \in [Blocks -> SUBSET {1, 2}] /\ saved'[Block] = saved[Block] \cup {Half}
        /\ \A b \in Blocks : b # Block => saved'[b] = saved[b]
    BY <1>1, <1>3, <2>1 DEF HInv, HTypes
  <2>3. CASE nr_sectors > 1
    <3>0. /\ nr_sectors = 2 /\ nr_sectors' = 1 /\ UNCHANGED rqvars /\ do_hd' = do_hd
          /\ running' = running /\ Half = 1
      BY <1>3, <1>4, <2>3 DEF ReadIntr
    <3>1. /\ nr_sectors = 2 /\ nr_sectors' = 1 /\ UNCHANGED rqvars /\ do_hd' = do_hd /\ command' = command
          /\ running' = running /\ Half = 1 /\ SectorsInStep'
      BY <1>s, <2>1, <3>0
    <3>2. HTypes' /\ InterruptMatches'
      BY <1>1, <1>f, <2>2, <3>1 DEF HInv, HTypes, InterruptMatches
    <3>3. Progress'
      BY <1>2, <1>f, <2>1, <2>2, <3>1 DEF Progress
    <3> QED
      BY <1>1, <2>1, <2>2, <3>1, <3>2, <3>3, DriverKeeps
  <2>4. CASE nr_sectors = 1
    <3>0. ~(nr_sectors > 1)
      BY <2>4
    <3>1. End(TRUE) /\ running' = TRUE /\ command' = NULL
      BY <1>4, <1>d, <2>1, <2>4, <3>0, Zenon DEF ReadIntr
    <3>2. ~b_dirt[Block] /\ Block \notin late => saved'[Block] = {1, 2}
      <4>1. ~b_dirt[Block] /\ Block \notin late => 1 \in saved[Block] /\ Half = 2
        BY <1>1, <1>2, <1>3, <2>1, <2>4 DEF HInv, Progress
      <4>2. saved[Block] \in SUBSET {1, 2}
        BY <1>1 DEF HInv, HTypes
      <4> QED
        BY <2>2, <4>1, <4>2
    <3> QED
      BY <2>1, <2>2, <3>1, <3>2, EndKeeps
  <2> QED
    BY <1>3, <2>3, <2>4
<1>5. ASSUME WriteIntr PROVE HInv'
  <2>1. do_hd = "write_intr" /\ Moved /\ late' = late
    BY <1>5 DEF WriteIntr
  <2>2. CASE nr_sectors > 1
    <3>0. /\ nr_sectors = 2 /\ nr_sectors' = 1 /\ UNCHANGED rqvars /\ do_hd' = do_hd
          /\ running' = running /\ saved' = [saved EXCEPT ![Block] = @ \cup {Half'}] /\ Half = 1
      BY <1>3, <1>5, <2>2 DEF WriteIntr
    <3>1. /\ nr_sectors = 2 /\ nr_sectors' = 1 /\ UNCHANGED rqvars /\ do_hd' = do_hd /\ command' = command
          /\ running' = running /\ saved' = [saved EXCEPT ![Block] = @ \cup {Half'}] /\ Half = 1
          /\ SectorsInStep'
      BY <1>s, <2>1, <3>0
    <3>2. Half' = 2
      BY <3>1 DEF Half
    <3>3. /\ saved' \in [Blocks -> SUBSET {1, 2}] /\ saved'[Block] = saved[Block] \cup {2}
          /\ \A b \in Blocks : b # Block => saved'[b] = saved[b]
      BY <1>1, <3>1, <3>2 DEF HInv, HTypes
    <3>4. HTypes' /\ InterruptMatches'
      BY <1>1, <1>f, <3>1, <3>3 DEF HInv, HTypes, InterruptMatches
    <3>5. Progress'
      <4>1. IsWrite /\ ~b_dirt[Block] /\ Block \notin late => 1 \in saved[Block]
        BY <1>0, <1>1, <1>2, <2>1, <3>1 DEF HInv, Progress
      <4> QED
        BY <1>2, <1>f, <2>1, <3>1, <3>2, <3>3, <4>1 DEF Progress
    <3> QED
      BY <1>1, <2>1, <3>1, <3>3, <3>4, <3>5, DriverKeeps
  <2>3. CASE nr_sectors = 1
    <3>0. ~(nr_sectors > 1)
      BY <2>3
    <3>1. End(TRUE) /\ running' = TRUE /\ command' = NULL /\ saved' = saved
      BY <1>5, <1>d, <2>1, <2>3, <3>0 DEF WriteIntr
    <3>2. b_dirt[Block] \/ Block \in late \/ saved'[Block] = {1, 2}
      <4>1. saved[Block] \in SUBSET {1, 2} /\ Half = 2
        BY <1>1, <1>3, <2>3 DEF HInv, HTypes
      <4>2. ~b_dirt[Block] /\ Block \notin late => 1 \in saved[Block] /\ Half \in saved[Block]
        BY <1>0, <1>1, <1>2, <2>1, <2>3 DEF HInv, Progress
      <4>3. ~b_dirt[Block] /\ Block \notin late => saved[Block] = {1, 2}
        BY <4>1, <4>2
      <4> QED
        BY <3>1, <4>3
    <3>3. saved' \in [Blocks -> SUBSET {1, 2}]
      BY <3>1 DEF HInv, HTypes
    <3> QED
      BY <2>1, <3>1, <3>2, <3>3, EndKeeps
  <2> QED
    BY <1>3, <2>2, <2>3
<1>6. ASSUME RecalIntr PROVE HInv'
  <2>1. /\ UNCHANGED rqvars /\ running' = TRUE /\ command' = NULL /\ nr_sectors' = nr_sectors
        /\ saved' = saved /\ late' = late
    BY <1>6 DEF RecalIntr, Done, datavars
  <2>2. HTypes' /\ InterruptMatches' /\ SectorsInStep' /\ Progress'
    BY <1>f, <2>1 DEF HInv, HTypes, InterruptMatches, SectorsInStep, Progress
  <2> QED
    BY <2>1, <2>2, DriverKeeps
<1>7. ASSUME ErrorIntr PROVE HInv'
  BY <1>7, RetryKeeps DEF ErrorIntr, Done, datavars
<1> QED
  BY <1>4, <1>5, <1>6, <1>7 DEF Interrupt

(* The steps of the tasks and of the holders of the buffers.                 *)
LEMMA TaskStepKeeps ==
  ASSUME QInv, HInv, TaskOrBuffer
  PROVE  HInv'
<1>0. /\ ~running /\ command' = command /\ do_hd' = do_hd /\ nr_sectors' = nr_sectors /\ extent' = extent
  BY DEF TaskOrBuffer
<1>c. ASSUME queue # <<>>, queue' # <<>>, queue'[1] = queue[1], request'[queue[1]] = request[queue[1]]
      PROVE  /\ Block' = Block /\ (IsWrite' <=> IsWrite) /\ Half' = Half
             /\ Sector' = Sector /\ SectorsInStep'
  BY <1>0, <1>c DEF Block, IsWrite, CURRENT, Half, Sector, HInv, SectorsInStep
<1>e. command = NULL => SectorsInStep'
  BY <1>0 DEF SectorsInStep
<1>1. ASSUME queue' = queue, \A p \in DOMAIN queue : request'[queue[p]] = request[queue[p]],
             b_uptodate' = b_uptodate, b_dirt' = b_dirt, running' = running, saved' = saved, late' = late
      PROVE  HInv'
  <2>1. queue # <<>> => Block' = Block /\ (IsWrite' <=> IsWrite) /\ Half' = Half /\ SectorsInStep'
    BY <1>1, <1>c, CurrentRequest
  <2>2. HTypes' /\ InterruptMatches' /\ Progress' /\ SectorsInStep'
    BY <1>0, <1>1, <1>e, <2>1 DEF HInv, HTypes, InterruptMatches, Progress
  <2>3. \A b \in Blocks : Requests(b)' = Requests(b)
    BY <1>1 DEF Requests
  <2>4. NoLostUpdate'
    BY <1>1, <2>3 DEF HInv, NoLostUpdate
  <2> QED
    BY <2>2, <2>4 DEF HInv
<1>2. ASSUME NEW t \in Tasks, Lock(t) \/ Forget(t) \/ Full(t) \/ Sleep(t) \/ Rescan(t)
                              \/ \E op \in {READ, WRITE, READA, WRITEA}, b \in Blocks : Call(t, op, b),
             running' = running, saved' = saved, late' = late
      PROVE  HInv'
  <2>1. queue' = queue /\ request' = request /\ b_uptodate' = b_uptodate /\ b_dirt' = b_dirt
    BY <1>2 DEF Lock, Forget, Full, Sleep, Rescan, Call, bufvars
  <2> QED
    BY <1>1, <1>2, <2>1
<1>3. ASSUME NEW t \in Tasks, Fill(t), running' = running, saved' = saved, late' = late PROVE HInv'
  BY <1>1, <1>3, FillStep
<1>4. ASSUME NEW b \in Blocks, MarkDirty(b), late' = late \ {b},
             saved' \in {saved, [saved EXCEPT ![b] = {}]}, running' = running
      PROVE  HInv'
  <2>1. /\ b_uptodate[b] \/ ~b_lock[b]
        /\ b_uptodate' = [b_uptodate EXCEPT ![b] = TRUE] /\ b_dirt' = [b_dirt EXCEPT ![b] = TRUE]
        /\ queue' = queue /\ request' = request
    BY <1>4 DEF MarkDirty
  <2>2. /\ b_dirt'[b] /\ \A a \in Blocks : a # b => /\ b_dirt'[a] = b_dirt[a] /\ saved'[a] = saved[a]
                                                    /\ b_uptodate'[a] = b_uptodate[a]
                                                    /\ (a \in late' <=> a \in late)
        /\ saved' \in [Blocks -> SUBSET {1, 2}]
    BY <1>4, <2>1 DEF QInv, QTypes, HInv, HTypes
  <2>3. queue # <<>> => /\ Block' = Block /\ (IsWrite' <=> IsWrite) /\ Half' = Half /\ Block \in Blocks
                        /\ SectorsInStep'
    BY <1>c, <2>1, CurrentRequest
  <2>4. HTypes' /\ InterruptMatches' /\ SectorsInStep'
    BY <1>0, <1>4, <1>e, <2>1, <2>2, <2>3 DEF HInv, HTypes, InterruptMatches
  <2>5. Progress'
    BY <1>0, <2>1, <2>2, <2>3 DEF HInv, Progress
  <2>6. NoLostUpdate'
    BY <2>1, <2>2 DEF HInv, NoLostUpdate, Requests
  <2> QED
    BY <2>4, <2>5, <2>6 DEF HInv
<1>6. ASSUME NEW b \in Blocks, UNCHANGED rqvars, b_dirt[b] \/ b \in late', late \subseteq late',
             late' \subseteq late \cup {b}, saved' = [saved EXCEPT ![b] = {}], running' = running
      PROVE  HInv'
  <2>1. queue' = queue /\ request' = request /\ b_uptodate' = b_uptodate /\ b_dirt' = b_dirt
    BY <1>6 DEF rqvars
  <2>2. /\ \A a \in Blocks : a # b => saved'[a] = saved[a] /\ (a \in late' <=> a \in late)
        /\ saved' \in [Blocks -> SUBSET {1, 2}]
    BY <1>6 DEF HInv, HTypes
  <2>3. queue # <<>> => /\ Block' = Block /\ (IsWrite' <=> IsWrite) /\ Half' = Half /\ Block \in Blocks
                        /\ SectorsInStep'
    BY <1>c, <2>1, CurrentRequest
  <2>4. HTypes' /\ InterruptMatches' /\ SectorsInStep'
    BY <1>0, <1>6, <1>e, <2>1, <2>2, <2>3 DEF HInv, HTypes, InterruptMatches
  <2>5. Progress'
    BY <1>0, <1>6, <2>1, <2>2, <2>3 DEF HInv, Progress
  <2>6. NoLostUpdate'
    BY <1>6, <2>1, <2>2 DEF HInv, NoLostUpdate, Requests
  <2> QED
    BY <2>4, <2>5, <2>6 DEF HInv
<1>7. ASSUME NEW b \in FileBlocks, StartCopy(b), running' = running PROVE HInv'
  <2>1. CASE MarkDirty(b) /\ late' = late \ {b}
    BY <1>4, <1>7, <2>1, HdAssumption DEF StartCopy
  <2>2. CASE UNCHANGED <<rqvars, late>>
    <3>1. /\ queue' = queue /\ request' = request /\ b_uptodate' = b_uptodate /\ b_dirt' = b_dirt
          /\ saved' = saved /\ late' = late
      BY <1>7, <2>2 DEF rqvars, StartCopy
    <3> QED
      BY <1>1, <1>7, <3>1
  <2> QED
    BY <1>7, <2>1, <2>2 DEF StartCopy
<1>8. ASSUME NEW b \in FileBlocks, CopyOn(b), running' = running PROVE HInv'
  BY <1>6, <1>8, HdAssumption DEF CopyOn
<1>5. ASSUME NEW t \in Tasks, AddRequest(t), running' = (queue = <<>>), saved' = saved, late' = late
      PROVE  HInv'
  <2>1. /\ b_dirt' = [b_dirt EXCEPT ![call[t].bh] = FALSE] /\ call[t].at = "add"
    BY <1>5 DEF AddRequest
  <2>2. /\ queue # <<>> => queue'[1] = queue[1]
        /\ queue' # <<>> /\ request' = request /\ b_uptodate' = b_uptodate
        /\ \E p \in DOMAIN queue' : request[queue'[p]].block = call[t].bh
        /\ \A q \in DOMAIN queue : \E p \in DOMAIN queue' : queue'[p] = queue[q]
    BY <1>5, AddStep
  <2>3. Busy(call[t]) /\ call[t].bh \in Blocks
    BY <2>1, BusyTask DEF Busy, QInv
  <2>4. \A a \in Blocks : a # call[t].bh => b_dirt'[a] = b_dirt[a]
    BY <2>1 DEF QInv, QTypes
  <2>5. queue # <<>> => /\ Block' = Block /\ (IsWrite' <=> IsWrite) /\ Half' = Half /\ Block \in Blocks
                        /\ b_dirt'[Block] = b_dirt[Block] /\ SectorsInStep'
    BY <1>c, <2>2, <2>3, <2>4, CurrentRequest
  <2>6. queue = <<>> => command = NULL /\ nr_sectors = 2
    BY DEF HInv, HTypes, InterruptMatches
  <2>7. HTypes' /\ InterruptMatches' /\ SectorsInStep'
    BY <1>0, <1>5, <1>e, <2>2, <2>5, <2>6 DEF HInv, HTypes, InterruptMatches
  <2>8. Progress'
    BY <1>0, <1>5, <2>2, <2>5, <2>6 DEF HInv, Progress
  <2>9. NoLostUpdate'
    <3> SUFFICES ASSUME NEW b \in Blocks \ late', b_uptodate'[b], ~b_dirt'[b], Requests(b)' = {}
                 PROVE  saved'[b] = {1, 2}
      BY DEF NoLostUpdate
    <3>1. b # call[t].bh /\ Requests(b) = {}
      BY <2>2 DEF Requests
    <3> QED
      BY <1>5, <2>2, <2>4, <3>1 DEF HInv, NoLostUpdate
  <2> QED
    BY <2>7, <2>8, <2>9 DEF HInv
<1>9. ASSUME NEW b \in Blocks, Modify(b), running' = running PROVE HInv'
  BY <1>4, <1>9 DEF Modify
<1> QED
  BY <1>2, <1>3, <1>5, <1>7, <1>8, <1>9 DEF TaskOrBuffer, datavars

(* The driver's inductive invariant is one.                                  *)
LEMMA HdInv == HdSpec => [](QInv /\ HInv)
<1>1. HdInit => HInv
  BY DEF HdInit, Init, HInv, HTypes, InterruptMatches, SectorsInStep, Progress, NoLostUpdate
<1>2. QInv /\ HInv /\ [HdNext]_vars => HInv'
  <2> SUFFICES ASSUME QInv, HInv, [HdNext]_vars PROVE HInv'
    OBVIOUS
  <2>1. ASSUME UNCHANGED vars PROVE HInv'
    <3>1. UNCHANGED rqvars /\ UNCHANGED hdvars
      BY <2>1 DEF vars
    <3> QED
      BY <3>1 DEF rqvars, hdvars, HInv, HTypes, InterruptMatches, SectorsInStep, Progress,
         NoLostUpdate, Requests, IsWrite, Block, CURRENT, Half, Sector
  <2> QED
    BY <2>1, DriverStep, InterruptStep, TaskStepKeeps DEF HdNext
<1> QED
  BY <1>1, <1>2, HdQueueInv, PTL DEF HdSpec

(* An interrupt of the controller always finds the handler of its command,   *)
(* and its own request as CURRENT, whatever fails and however often the      *)
(* driver is started meanwhile.                                              *)
THEOREM HdInterruptMatches == HdSpec => []InterruptMatches
<1>1. HInv => InterruptMatches
  BY DEF HInv
<1> QED
  BY <1>1, HdInv, PTL

(* The sectors the controller moves are those the driver counts: of CURRENT, *)
(* of its block and of the partition, after any retry and at any interrupt.  *)
THEOREM HdSectorsInStep == HdSpec => []SectorsInStep
<1>1. HInv => SectorsInStep
  BY DEF HInv
<1> QED
  BY <1>1, HdInv, PTL

(* No update made before or under a mark is lost: a buffer that is up to     *)
(* date, clean and not being written is the same on disk in both sectors,    *)
(* although it may be changed while it is written and sectors are retried;   *)
(* what a copy of file_write adds to a buffer cleaned meanwhile is excepted. *)
THEOREM HdNoLostUpdate == HdSpec => []NoLostUpdate
<1>1. HInv => NoLostUpdate
  BY DEF HInv
<1> QED
  BY <1>1, HdInv, PTL

-----------------------------------------------------------------------------
(* The terminal.  What its queues may hold.                                  *)
Chars == {"x", "cr", "nl", "eof", "erase", "kill", "intr", "echo", "ret"}

(* The lines of secondary.                                                  *)
EndsIn(E, s) == {i \in DOMAIN s : s[i] \in E}

(* A queue holds finitely many lines, ...                                    *)
LEMMA LinesFinite ==
  ASSUME NEW E, NEW s \in Seq(Chars)
  PROVE  IsFiniteSet(EndsIn(E, s)) /\ Lines(E, s) = Cardinality(EndsIn(E, s)) /\ Lines(E, s) \in Nat
<1>1. IsFiniteSet(1..Len(s)) /\ EndsIn(E, s) \subseteq 1..Len(s)
  BY FS_Interval DEF EndsIn
<1>2. IsFiniteSet(EndsIn(E, s))
  BY <1>1, FS_Subset
<1> QED
  BY <1>2, FS_CardinalityType DEF Lines, EndsIn

(* ... one more when what ends a line is put, ...                            *)
LEMMA LinesAppend ==
  ASSUME NEW E, NEW s \in Seq(Chars), NEW c \in Chars
  PROVE  Lines(E, Append(s, c)) = Lines(E, s) + (IF c \in E THEN 1 ELSE 0)
<1> DEFINE a == Append(s, c)
<1>0. a \in Seq(Chars) /\ Len(a) = Len(s) + 1 /\ Len(s) \in Nat
  OBVIOUS
<1>1. \A i \in 1..Len(a) : a[i] = IF i = Len(s) + 1 THEN c ELSE s[i]
  OBVIOUS
<1> HIDE DEF a
<1>2. EndsIn(E, a) = IF c \in E THEN EndsIn(E, s) \cup {Len(s) + 1} ELSE EndsIn(E, s)
  BY <1>0, <1>1 DEF EndsIn
<1>3. Len(s) + 1 \notin EndsIn(E, s)
  BY <1>0 DEF EndsIn
<1>4. Cardinality(EndsIn(E, s) \cup {Len(s) + 1}) = Cardinality(EndsIn(E, s)) + 1
  BY <1>3, LinesFinite, CardinalityStep
<1>5. Lines(E, a) = Cardinality(EndsIn(E, a)) /\ Lines(E, s) = Cardinality(EndsIn(E, s)) /\ Lines(E, s) \in Nat
  BY <1>0, LinesFinite
<1> QED
  BY <1>2, <1>4, <1>5 DEF a

(* ... one less when it is taken, ...                                        *)
LEMMA LinesTail ==
  ASSUME NEW E, NEW s \in Seq(Chars), s # <<>>
  PROVE  Lines(E, Tail(s)) = Lines(E, s) - (IF Head(s) \in E THEN 1 ELSE 0)
<1> DEFINE t == Tail(s)
           S == EndsIn(E, t)
           T == EndsIn(E, s) \ {1}
           f == [i \in S |-> i + 1]
<1>0. t \in Seq(Chars) /\ Len(t) = Len(s) - 1 /\ Len(s) \in Nat /\ Len(s) >= 1 /\ Head(s) = s[1]
  OBVIOUS
<1>1. \A i \in 1..Len(t) : t[i] = s[i + 1]
  OBVIOUS
<1> HIDE DEF t
<1>2. ASSUME NEW i \in S PROVE i \in Int /\ i + 1 \in T
  BY <1>0, <1>1 DEF EndsIn
<1>3. ASSUME NEW j \in T PROVE j - 1 \in S /\ (j - 1) + 1 = j
  BY <1>0, <1>1 DEF EndsIn
<1> HIDE DEF S, T
<1>4. f \in Bijection(S, T)
  <2>1. f \in [S -> T] /\ \A i, j \in S : f[i] = f[j] => i = j
    BY <1>2
  <2>2. ASSUME NEW j \in T PROVE \E i \in S : f[i] = j
    <3>1. f[j - 1] = j /\ j - 1 \in S
      BY <1>3
    <3> QED
      BY <3>1
  <2> HIDE DEF f
  <2> QED
    BY <2>1, <2>2 DEF Bijection, Injection, Surjection, IsInjective
<1>5. IsFiniteSet(S) /\ Lines(E, t) = Cardinality(S)
  BY <1>0, LinesFinite DEF S
<1>6. Cardinality(S) = Cardinality(T)
  BY <1>4, <1>5, FS_Bijection DEF ExistsBijection
<1>7. IsFiniteSet(EndsIn(E, s)) /\ Lines(E, s) = Cardinality(EndsIn(E, s)) /\ Lines(E, s) \in Nat
  BY LinesFinite
<1>8. Cardinality(T) = Lines(E, s) - (IF 1 \in EndsIn(E, s) THEN 1 ELSE 0)
  <2>1. Cardinality(EndsIn(E, s) \ {1}) = Cardinality(EndsIn(E, s)) - (IF 1 \in EndsIn(E, s) THEN 1 ELSE 0)
    BY <1>7, CardinalityStep
  <2> QED
    BY <1>7, <2>1 DEF T
<1>9. 1 \in EndsIn(E, s) <=> Head(s) \in E
  BY <1>0 DEF EndsIn
<1> QED
  BY <1>5, <1>6, <1>8, <1>9 DEF t

(* ... and as many when part of the unfinished line is erased.               *)
LEMMA LinesPrefix ==
  ASSUME NEW E, NEW s \in Seq(Chars), NEW n \in 0..Len(s), \A i \in (n + 1)..Len(s) : s[i] \notin E
  PROVE  SubSeq(s, 1, n) \in Seq(Chars) /\ Lines(E, SubSeq(s, 1, n)) = Lines(E, s)
<1> DEFINE t == SubSeq(s, 1, n)
<1>1. t \in Seq(Chars) /\ Len(t) = n /\ \A i \in 1..n : t[i] = s[i]
  OBVIOUS
<1> HIDE DEF t
<1>2. EndsIn(E, t) = EndsIn(E, s)
  BY <1>1 DEF EndsIn
<1> QED
  BY <1>1, <1>2, LinesFinite DEF t

(* LineStart is where the unfinished line starts.                           *)
LEMMA LineStartIs ==
  ASSUME NEW s \in Seq(Chars)
  PROVE  /\ LineStart(s) \in 0..Len(s)
         /\ \A i \in (LineStart(s) + 1)..Len(s) : s[i] \notin Ends(tio)
<1> DEFINE S == {0} \cup EndsIn(Ends(tio), s)
<1>1. S \in SUBSET Int /\ S # {} /\ Len(s) \in Int /\ \A x \in S : x <= Len(s) /\ x >= 0
  BY DEF EndsIn
<1> HIDE DEF S
<1>2. Max(S) \in S /\ \A y \in S : Max(S) >= y
  BY <1>1, MaxOfInts
<1>3. LineStart(s) = Max(S)
  BY DEF LineStart, S, EndsIn
<1>4. LineStart(s) \in 0..Len(s)
  <2>1. Max(S) \in Int /\ Max(S) <= Len(s) /\ Max(S) >= 0
    BY <1>1, <1>2
  <2> QED
    BY <1>1, <1>3, <2>1
<1>5. ASSUME NEW i \in (LineStart(s) + 1)..Len(s) PROVE s[i] \notin Ends(tio)
  <2>1. i \notin S
    BY <1>1, <1>2, <1>3, <1>4
  <2> QED
    BY <1>4, <2>1 DEF S, EndsIn
<1> QED
  BY <1>4, <1>5

-----------------------------------------------------------------------------
(* What is given, by the places it has in the line.                         *)
Embeds(at, s, line) ==
  /\ at \in [DOMAIN s -> DOMAIN line]
  /\ \A i, j \in DOMAIN s : i < j => at[i] < at[j]
  /\ \A i \in DOMAIN s : line[at[i]] = s[i]
  /\ \A p \in DOMAIN line : line[p] \notin Added <=> \E i \in DOMAIN s : at[i] = p

(* IsGiven without its set of places.                                        *)
LEMMA GivenEmbeds ==
  ASSUME NEW s, NEW line
  PROVE  IsGiven(s, line) <=> \E at : Embeds(at, s, line)
<1>1. ASSUME IsGiven(s, line) PROVE \E at : Embeds(at, s, line)
  <2>1. PICK at \in [DOMAIN s -> DOMAIN line] :
          /\ \A i, j \in DOMAIN s : i < j => at[i] < at[j]
          /\ \A i \in DOMAIN s : line[at[i]] = s[i]
          /\ {at[i] : i \in DOMAIN s} = {p \in DOMAIN line : line[p] \notin Added}
    BY <1>1 DEF IsGiven
  <2>2. Embeds(at, s, line)
    BY <2>1 DEF Embeds
  <2> QED
    BY <2>2
<1>2. ASSUME NEW at, Embeds(at, s, line) PROVE IsGiven(s, line)
  <2>1. {at[i] : i \in DOMAIN s} = {p \in DOMAIN line : line[p] \notin Added}
    BY <1>2 DEF Embeds
  <2> QED
    BY <1>2, <2>1 DEF Embeds, IsGiven
<1> QED
  BY <1>1, <1>2

(* Characters that were not given may be put behind the line, ...            *)
LEMMA GivenLonger ==
  ASSUME NEW s \in Seq(Chars), NEW line \in Seq(Chars), NEW longer \in Seq(Chars),
         Len(longer) >= Len(line), \A p \in 1..Len(line) : longer[p] = line[p],
         \A p \in (Len(line) + 1)..Len(longer) : longer[p] \in Added, IsGiven(s, line)
  PROVE  IsGiven(s, longer)
<1>1. PICK at : Embeds(at, s, line)
  BY GivenEmbeds
<1>0. /\ DOMAIN line = 1..Len(line) /\ Len(line) \in Nat
      /\ DOMAIN longer = 1..Len(longer) /\ Len(longer) \in Nat
  OBVIOUS
<1>2. at \in [DOMAIN s -> DOMAIN longer]
  BY <1>0, <1>1 DEF Embeds
<1>3. \A i \in DOMAIN s : longer[at[i]] = s[i]
  BY <1>0, <1>1 DEF Embeds
<1>4. ASSUME NEW p \in DOMAIN longer PROVE longer[p] \notin Added <=> \E i \in DOMAIN s : at[i] = p
  BY <1>0, <1>1 DEF Embeds
<1>5. Embeds(at, s, longer)
  BY <1>1, <1>2, <1>3, <1>4 DEF Embeds
<1> QED
  BY <1>5, GivenEmbeds

(* ... a character that was given goes behind both, ...                      *)
LEMMA GivenAppend ==
  ASSUME NEW s \in Seq(Chars), NEW line \in Seq(Chars), NEW c \in Chars \ Added, IsGiven(s, line)
  PROVE  IsGiven(Append(s, c), Append(line, c))
<1> DEFINE t == Append(s, c)
           longer == Append(line, c)
           n == Len(s) + 1
           m == Len(line) + 1
<1>1. PICK at : Embeds(at, s, line)
  BY GivenEmbeds
<1>2. /\ DOMAIN line = 1..Len(line) /\ DOMAIN longer = 1..m /\ Len(line) \in Nat
      /\ DOMAIN s = 1..Len(s) /\ DOMAIN t = 1..n /\ Len(s) \in Nat
  OBVIOUS
<1>3. \A p \in DOMAIN longer : longer[p] = IF p = m THEN c ELSE line[p]
  OBVIOUS
<1>4. \A i \in DOMAIN t : t[i] = IF i = n THEN c ELSE s[i]
  OBVIOUS
<1> HIDE DEF t, longer
<1> DEFINE f == [i \in DOMAIN t |-> IF i = n THEN m ELSE at[i]]
<1>5. \A i \in DOMAIN s : at[i] \in 1..Len(line) /\ i # n /\ i \in DOMAIN t /\ f[i] = at[i]
  BY <1>1, <1>2 DEF Embeds
<1>6. f[n] = m /\ n \in DOMAIN t /\ m \in DOMAIN longer
  BY <1>2
<1>7. \A i \in DOMAIN t : i = n \/ i \in DOMAIN s
  BY <1>2
<1>8. f \in [DOMAIN t -> DOMAIN longer]
  <2>1. \A i \in DOMAIN s : at[i] \in DOMAIN longer
    BY <1>1, <1>2 DEF Embeds
  <2> QED
    BY <1>6, <1>7, <2>1
<1> HIDE DEF f
<1>9. ASSUME NEW i \in DOMAIN t, NEW j \in DOMAIN t, i < j PROVE f[i] < f[j]
  <2>1. i \in DOMAIN s
    BY <1>2, <1>9
  <2>2. CASE j = n
    BY <1>2, <1>5, <1>6, <2>1, <2>2
  <2>3. CASE j \in DOMAIN s
    BY <1>1, <1>5, <1>9, <2>1, <2>3 DEF Embeds
  <2> QED
    BY <1>7, <2>2, <2>3
<1>10. ASSUME NEW i \in DOMAIN t PROVE longer[f[i]] = t[i]
  <2>1. CASE i = n
    BY <1>3, <1>4, <1>6, <2>1
  <2>2. CASE i \in DOMAIN s
    <3>1. f[i] \in 1..Len(line) /\ f[i] # m /\ f[i] \in DOMAIN longer /\ line[f[i]] = s[i]
      BY <1>1, <1>2, <1>5, <2>2 DEF Embeds
    <3> QED
      BY <1>3, <1>4, <1>5, <2>2, <3>1
  <2> QED
    BY <1>7, <2>1, <2>2
<1>11. ASSUME NEW p \in DOMAIN longer PROVE longer[p] \notin Added <=> \E i \in DOMAIN t : f[i] = p
  <2>1. CASE p = m
    BY <1>3, <1>6, <2>1
  <2>2. CASE p # m
    <3>1. p \in DOMAIN line /\ longer[p] = line[p]
      BY <1>2, <1>3, <2>2
    <3>2. line[p] \notin Added <=> \E i \in DOMAIN s : at[i] = p
      BY <1>1, <3>1 DEF Embeds
    <3>3. (\E i \in DOMAIN s : at[i] = p) <=> \E i \in DOMAIN t : f[i] = p
      BY <1>5, <1>6, <1>7, <2>2
    <3> QED
      BY <3>1, <3>2, <3>3
  <2> QED
    BY <2>1, <2>2
<1>12. Embeds(f, t, longer)
  BY <1>8, <1>9, <1>10, <1>11 DEF Embeds
<1> QED
  BY <1>12, GivenEmbeds DEF t, longer

(* ... and the line may go on without its first character.                   *)
LEMMA GivenTail ==
  ASSUME NEW s \in Seq(Chars), NEW line \in Seq(Chars), line # <<>>, IsGiven(s, line)
  PROVE  IsGiven(IF line[1] \in Added THEN s ELSE SubSeq(s, 2, Len(s)), Tail(line))
<1> DEFINE rest == Tail(line)
<1>1. PICK at : Embeds(at, s, line)
  BY GivenEmbeds
<1>2. /\ DOMAIN line = 1..Len(line) /\ Len(line) \in Nat /\ Len(line) >= 1
      /\ DOMAIN rest = 1..(Len(line) - 1) /\ \A p \in DOMAIN rest : rest[p] = line[p + 1]
      /\ DOMAIN s = 1..Len(s) /\ Len(s) \in Nat
  OBVIOUS
<1> HIDE DEF rest
<1>3. \A i \in DOMAIN s : at[i] \in 1..Len(line) /\ line[at[i]] = s[i]
  BY <1>1, <1>2 DEF Embeds
<1>4. \A p \in 1..Len(line) : line[p] \notin Added <=> \E i \in DOMAIN s : at[i] = p
  BY <1>1, <1>2 DEF Embeds
<1>5. \A i, j \in DOMAIN s : i < j => at[i] < at[j]
  BY <1>1 DEF Embeds
<1>6. CASE line[1] \in Added
  <2> DEFINE f == [i \in DOMAIN s |-> at[i] - 1]
  <2>1. \A i \in DOMAIN s : at[i] # 1
    BY <1>2, <1>4, <1>6
  <2>2. \A i \in DOMAIN s : f[i] \in DOMAIN rest /\ f[i] + 1 = at[i]
    BY <1>2, <1>3, <2>1
  <2>3. f \in [DOMAIN s -> DOMAIN rest]
    BY <2>2
  <2>4. \A i, j \in DOMAIN s : i < j => f[i] < f[j]
    BY <1>3, <1>5
  <2> HIDE DEF f
  <2>5. \A i \in DOMAIN s : rest[f[i]] = s[i]
    BY <1>2, <1>3, <2>2
  <2>6. ASSUME NEW p \in DOMAIN rest PROVE rest[p] \notin Added <=> \E i \in DOMAIN s : f[i] = p
    <3>1. p + 1 \in 1..Len(line) /\ rest[p] = line[p + 1] /\ p \in Int
      BY <1>2
    <3>2. (\E i \in DOMAIN s : at[i] = p + 1) <=> \E i \in DOMAIN s : f[i] = p
      BY <1>2, <1>3, <2>2, <3>1
    <3> QED
      BY <1>4, <3>1, <3>2
  <2>7. Embeds(f, s, rest)
    BY <2>3, <2>4, <2>5, <2>6 DEF Embeds
  <2> QED
    BY <1>6, <2>7, GivenEmbeds DEF rest
<1>7. CASE line[1] \notin Added
  <2> DEFINE t == SubSeq(s, 2, Len(s))
             f == [i \in DOMAIN t |-> at[i + 1] - 1]
  <2>1. PICK i1 \in DOMAIN s : at[i1] = 1
    BY <1>2, <1>4, <1>7
  <2>2. i1 = 1 /\ at[1] = 1 /\ Len(s) >= 1
    <3>1. 1 \in DOMAIN s /\ i1 >= 1
      BY <1>2, <2>1
    <3>2. ~(1 < i1)
      BY <1>2, <1>3, <1>5, <2>1, <3>1
    <3> QED
      BY <1>2, <2>1, <3>1, <3>2
  <2>3. DOMAIN t = 1..(Len(s) - 1) /\ \A i \in DOMAIN t : t[i] = s[i + 1]
    BY <2>2
  <2> HIDE DEF t
  <2>4. \A i \in DOMAIN t : i + 1 \in DOMAIN s /\ 1 < i + 1 /\ i \in Int
    BY <1>2, <2>3
  <2>5. \A i \in DOMAIN t : f[i] \in DOMAIN rest /\ f[i] + 1 = at[i + 1]
    <3> SUFFICES ASSUME NEW i \in DOMAIN t
                 PROVE  at[i + 1] - 1 \in DOMAIN rest /\ at[i + 1] - 1 + 1 = at[i + 1]
      OBVIOUS
    <3>1. at[1] < at[i + 1] /\ at[i + 1] \in 1..Len(line)
      BY <1>2, <1>3, <1>5, <2>1, <2>2, <2>4
    <3> QED
      BY <1>2, <2>2, <3>1
  <2>6. f \in [DOMAIN t -> DOMAIN rest]
    BY <2>5
  <2> HIDE DEF f
  <2>7. ASSUME NEW i \in DOMAIN t, NEW j \in DOMAIN t, i < j PROVE f[i] < f[j]
    <3>1. at[i + 1] < at[j + 1]
      BY <1>5, <2>4, <2>7
    <3>2. f[i] \in Int /\ f[j] \in Int
      BY <1>2, <2>5
    <3> QED
      BY <2>5, <3>1, <3>2
  <2>8. ASSUME NEW i \in DOMAIN t PROVE rest[f[i]] = t[i]
    <3>1. rest[f[i]] = line[f[i] + 1]
      BY <1>2, <2>5
    <3> QED
      BY <1>3, <2>3, <2>4, <2>5, <3>1
  <2>9. ASSUME NEW p \in DOMAIN rest PROVE rest[p] \notin Added <=> \E i \in DOMAIN t : f[i] = p
    <3>1. p + 1 \in 1..Len(line) /\ rest[p] = line[p + 1] /\ p \in Int /\ p + 1 # 1
      BY <1>2
    <3>2. ASSUME NEW i \in DOMAIN s, at[i] = p + 1 PROVE \E j \in DOMAIN t : f[j] = p
      <4>1. i # 1
        BY <2>2, <3>1, <3>2
      <4>2. i - 1 \in DOMAIN t /\ (i - 1) + 1 = i
        BY <1>2, <2>3, <4>1
      <4>3. f[i - 1] + 1 = p + 1 /\ f[i - 1] \in Int
        BY <1>2, <2>5, <3>2, <4>2
      <4> QED
        BY <3>1, <4>2, <4>3
    <3>3. ASSUME NEW j \in DOMAIN t, f[j] = p PROVE \E i \in DOMAIN s : at[i] = p + 1
      BY <2>4, <2>5, <3>3
    <3> QED
      BY <1>4, <3>1, <3>2, <3>3
  <2>10. Embeds(f, t, rest)
    BY <2>6, <2>7, <2>8, <2>9 DEF Embeds
  <2> QED
    BY <1>7, <2>10, GivenEmbeds DEF t, rest
<1> QED
  BY <1>6, <1>7

-----------------------------------------------------------------------------
(* SentInOrder of a line, with what it rests on: when tty_write has put a     *)
(* return and not yet its new line, the return is the last character that is *)
(* no echo, or was sent.                                                     *)
Order(b, line, s, flag) ==
  /\ IsGiven(s, line)
  /\ "ONLCR" \in OFlags => \A p \in DOMAIN line : line[p] = "nl" => AfterReturn(b, line, p - 1)
  /\ "ONLCR" \in OFlags /\ flag => AfterReturn(b, line, Len(line))

(* AfterReturn only depends on the first n characters, ...                      *)
LEMMA AfterReturnSame ==
  ASSUME NEW b, NEW line, NEW other, NEW n \in Int, \A p \in 1..n : other[p] = line[p], AfterReturn(b, line, n)
  PROVE  AfterReturn(b, other, n)
<1>1. PICK p \in 0..n : (IF p = 0 THEN b \in {"cr", "flushed"} ELSE line[p] = "cr") /\ \A o \in (p + 1)..n : line[o] = "echo"
  BY DEF AfterReturn
<1>2. p # 0 => other[p] = "cr"
  BY <1>1
<1>3. \A o \in (p + 1)..n : other[o] = "echo"
  BY <1>1
<1> QED
  BY <1>1, <1>2, <1>3 DEF AfterReturn

(* ... echoes behind them change nothing, ...                                *)
LEMMA AfterReturnEchoes ==
  ASSUME NEW b, NEW line, NEW n \in Int, NEW m \in Int, n <= m, \A p \in (n + 1)..m : line[p] = "echo",
         AfterReturn(b, line, n)
  PROVE  AfterReturn(b, line, m)
<1>1. PICK p \in 0..n : (IF p = 0 THEN b \in {"cr", "flushed"} ELSE line[p] = "cr") /\ \A o \in (p + 1)..n : line[o] = "echo"
  BY DEF AfterReturn
<1>2. \A o \in (p + 1)..m : line[o] = "echo"
  BY <1>1
<1>3. p \in 0..m
  OBVIOUS
<1> QED
  BY <1>1, <1>2, <1>3 DEF AfterReturn

(* ... and when the first is sent it is what left last, unless it is an echo. *)
LeftLast(b, c) == CASE c = "echo" -> b [] c = "cr" -> "cr" [] OTHER -> "none"

LEMMA AfterReturnTail ==
  ASSUME NEW b, NEW line, NEW rest, NEW n \in Int, n >= 1,
         \A p \in 1..(n - 1) : rest[p] = line[p + 1], AfterReturn(b, line, n)
  PROVE  AfterReturn(LeftLast(b, line[1]), rest, n - 1)
<1>1. PICK p \in 0..n : /\ IF p = 0 THEN b \in {"cr", "flushed"} ELSE line[p] = "cr"
                       /\ \A o \in (p + 1)..n : line[o] = "echo"
  BY DEF AfterReturn
<1>2. PICK r \in 0..(n - 1) : r = IF p = 0 THEN 0 ELSE p - 1
  BY <1>1
<1>3. IF r = 0 THEN LeftLast(b, line[1]) \in {"cr", "flushed"} ELSE rest[r] = "cr"
  <2>1. CASE p = 0
    <3>1. line[1] = "echo" /\ b \in {"cr", "flushed"}
      BY <1>1, <2>1
    <3> QED
      BY <1>2, <2>1, <3>1 DEF LeftLast
  <2>2. CASE p = 1
    <3>1. line[1] = "cr" /\ r = 0
      BY <1>1, <1>2, <2>2
    <3> QED
      BY <3>1 DEF LeftLast
  <2>3. CASE p > 1
    <3>1. line[p] = "cr" /\ r = p - 1 /\ r # 0 /\ r \in 1..(n - 1) /\ r + 1 = p
      BY <1>1, <1>2, <2>3
    <3> QED
      BY <3>1
  <2> QED
    BY <2>1, <2>2, <2>3
<1>4. ASSUME NEW o \in (r + 1)..(n - 1) PROVE rest[o] = "echo"
  <2>1. o + 1 \in (p + 1)..n /\ o \in 1..(n - 1)
    BY <1>1, <1>2
  <2> QED
    BY <1>1, <2>1
<1> QED
  BY <1>2, <1>3, <1>4 DEF AfterReturn

(* Nothing to send, when the line is opened and after a flush.               *)
LEMMA OrderEmpty ==
  ASSUME NEW b, NEW flag, "ONLCR" \in OFlags /\ flag => b \in {"cr", "flushed"}
  PROVE  Order(b, <<>>, <<>>, flag)
<1>1. Embeds(<<>>, <<>>, <<>>)
  BY DEF Embeds
<1>2. IsGiven(<<>>, <<>>)
  BY <1>1, GivenEmbeds
<1>3. Len(<<>>) = 0 /\ DOMAIN <<>> = {}
  OBVIOUS
<1>4. "ONLCR" \in OFlags /\ flag => AfterReturn(b, <<>>, 0)
  BY DEF AfterReturn
<1> QED
  BY <1>2, <1>3, <1>4 DEF Order

(* Echoes are put behind the line.                                          *)
LEMMA OrderEchoes ==
  ASSUME NEW b, NEW s \in Seq(Chars), NEW line \in Seq(Chars), NEW longer \in Seq(Chars), NEW flag,
         Len(longer) >= Len(line), \A p \in 1..Len(line) : longer[p] = line[p],
         \A p \in (Len(line) + 1)..Len(longer) : longer[p] = "echo", Order(b, line, s, flag)
  PROVE  Order(b, longer, s, flag)
<1>1. IsGiven(s, longer)
  <2>1. \A p \in (Len(line) + 1)..Len(longer) : longer[p] \in Added
    BY DEF Added
  <2> QED
    BY <2>1, GivenLonger DEF Order
<1>2. ASSUME "ONLCR" \in OFlags, NEW p \in DOMAIN longer, longer[p] = "nl" PROVE AfterReturn(b, longer, p - 1)
  <2>1. p \in DOMAIN line /\ line[p] = "nl" /\ p - 1 \in Int
    BY <1>2
  <2>2. AfterReturn(b, line, p - 1)
    BY <1>2, <2>1 DEF Order
  <2>3. \A o \in 1..(p - 1) : longer[o] = line[o]
    BY <2>1
  <2> QED
    BY <2>1, <2>2, <2>3, AfterReturnSame
<1>3. ASSUME "ONLCR" \in OFlags, flag PROVE AfterReturn(b, longer, Len(longer))
  <2>1. AfterReturn(b, line, Len(line)) /\ Len(line) \in Int /\ Len(longer) \in Int
    BY <1>3 DEF Order
  <2>2. AfterReturn(b, longer, Len(line))
    BY <2>1, AfterReturnSame
  <2> QED
    BY <2>1, <2>2, AfterReturnEchoes
<1> QED
  BY <1>1, <1>2, <1>3 DEF Order

(* A return is put before a new line, ...                                    *)
LEMMA OrderReturn ==
  ASSUME NEW b, NEW s \in Seq(Chars), NEW line \in Seq(Chars), NEW flag, NEW after, Order(b, line, s, flag)
  PROVE  Order(b, Append(line, "cr"), s, after)
<1> DEFINE longer == Append(line, "cr")
<1>1. /\ longer \in Seq(Chars) /\ Len(longer) = Len(line) + 1 /\ Len(line) \in Nat
      /\ \A p \in 1..Len(line) : longer[p] = line[p]
      /\ longer[Len(longer)] = "cr"
  BY DEF Chars
<1> HIDE DEF longer
<1>2. IsGiven(s, longer)
  <2>1. \A p \in (Len(line) + 1)..Len(longer) : longer[p] \in Added
    BY <1>1 DEF Added
  <2> QED
    BY <1>1, <2>1, GivenLonger DEF Order
<1>3. ASSUME "ONLCR" \in OFlags, NEW p \in DOMAIN longer, longer[p] = "nl" PROVE AfterReturn(b, longer, p - 1)
  <2>1. p \in DOMAIN line /\ line[p] = "nl" /\ p - 1 \in Int
    BY <1>1, <1>3
  <2>2. AfterReturn(b, line, p - 1)
    BY <1>3, <2>1 DEF Order
  <2>3. \A o \in 1..(p - 1) : longer[o] = line[o]
    BY <1>1, <2>1
  <2> QED
    BY <2>1, <2>2, <2>3, AfterReturnSame
<1>4. AfterReturn(b, longer, Len(longer))
  BY <1>1 DEF AfterReturn
<1> QED
  BY <1>2, <1>3, <1>4 DEF Order, longer

(* ... a new line only when its return is there.                             *)
LEMMA OrderGiven ==
  ASSUME NEW b, NEW s \in Seq(Chars), NEW line \in Seq(Chars), NEW flag, NEW c \in {"x", "nl", "ret"},
         c = "nl" /\ "ONLCR" \in OFlags => flag, Order(b, line, s, flag)
  PROVE  Order(b, Append(line, c), Append(s, c), FALSE)
<1> DEFINE longer == Append(line, c)
<1>1. /\ longer \in Seq(Chars) /\ Len(longer) = Len(line) + 1 /\ Len(line) \in Nat
      /\ \A p \in 1..Len(line) : longer[p] = line[p]
      /\ longer[Len(longer)] = c
  BY DEF Chars
<1> HIDE DEF longer
<1>2. IsGiven(Append(s, c), longer)
  <2>1. c \in Chars \ Added
    BY DEF Chars, Added
  <2> QED
    BY <2>1, GivenAppend DEF Order, longer
<1>3. ASSUME "ONLCR" \in OFlags, NEW p \in DOMAIN longer, longer[p] = "nl" PROVE AfterReturn(b, longer, p - 1)
  <2>1. p \in 1..(Len(line) + 1) /\ p - 1 \in Int /\ p - 1 <= Len(line)
    BY <1>1
  <2>2. AfterReturn(b, line, p - 1)
    <3>1. CASE p = Len(line) + 1
      <4>1. c = "nl" /\ p - 1 = Len(line)
        BY <1>1, <1>3, <3>1
      <4> QED
        BY <1>3, <4>1 DEF Order
    <3>2. CASE p # Len(line) + 1
      <4>1. p \in DOMAIN line /\ line[p] = "nl"
        BY <1>1, <1>3, <2>1, <3>2
      <4> QED
        BY <1>3, <4>1 DEF Order
    <3> QED
      BY <3>1, <3>2
  <2>3. \A o \in 1..(p - 1) : longer[o] = line[o]
    BY <1>1, <2>1
  <2> QED
    BY <2>1, <2>2, <2>3, AfterReturnSame
<1> QED
  BY <1>2, <1>3 DEF Order, longer

(* The first character is sent.                                             *)
LEMMA OrderTail ==
  ASSUME NEW b, NEW s \in Seq(Chars), NEW line \in Seq(Chars), NEW flag, line # <<>>, Order(b, line, s, flag)
  PROVE  Order(LeftLast(b, line[1]), Tail(line),
               IF line[1] \in Added THEN s ELSE SubSeq(s, 2, Len(s)), flag)
<1> DEFINE rest == Tail(line)
<1>1. /\ DOMAIN line = 1..Len(line) /\ Len(line) \in Nat /\ Len(line) >= 1
      /\ DOMAIN rest = 1..(Len(line) - 1) /\ \A p \in 1..(Len(line) - 1) : rest[p] = line[p + 1]
      /\ Len(rest) = Len(line) - 1
  OBVIOUS
<1>2. IsGiven(IF line[1] \in Added THEN s ELSE SubSeq(s, 2, Len(s)), rest)
  BY GivenTail DEF Order
<1> HIDE DEF rest
<1>3. ASSUME "ONLCR" \in OFlags, NEW p \in DOMAIN rest, rest[p] = "nl"
      PROVE  AfterReturn(LeftLast(b, line[1]), rest, p - 1)
  <2>1. p + 1 \in DOMAIN line /\ line[p + 1] = "nl" /\ p \in Int /\ p >= 1 /\ (p + 1) - 1 = p
    BY <1>1, <1>3
  <2>2. AfterReturn(b, line, p)
    BY <1>3, <2>1 DEF Order
  <2>3. \A o \in 1..(p - 1) : rest[o] = line[o + 1]
    BY <1>1, <2>1
  <2> QED
    BY <2>1, <2>2, <2>3, AfterReturnTail
<1>4. ASSUME "ONLCR" \in OFlags, flag
      PROVE  AfterReturn(LeftLast(b, line[1]), rest, Len(rest))
  <2>1. AfterReturn(b, line, Len(line))
    BY <1>4 DEF Order
  <2>2. AfterReturn(LeftLast(b, line[1]), rest, Len(line) - 1)
    BY <1>1, <2>1, AfterReturnTail
  <2> QED
    BY <1>1, <2>2
<1> QED
  BY <1>2, <1>3, <1>4 DEF Order, rest

-----------------------------------------------------------------------------
(* The types of the queues and of the locals of the two tasks.               *)
Faults == {"none", "echo inside a PUTCH", "echo without room", "erased under the reader",
           "put without room"}

TtyQueues == [read_q : Seq(Chars), write_q : Seq(Chars), secondary : Seq(Chars), data : Int,
              ier : BOOLEAN, signal : [{"reader", "writer"} -> SUBSET {"INT", "ALRM"}],
              fault : Faults]
Readers == [pc : {"idle", "test", "sleep", "asleep", "woken", "get", "store"}, nr : Int, got : Int,
            minimum : Int, time : BOOLEAN, flag : BOOLEAN, oldalarm : BOOLEAN]
Writers == [pc : {"idle", "full", "sleep", "asleep", "woken", "loop", "fetch", "put", "sched"},
            nr : Int, ch : Chars, half : BOOLEAN]

(* The line with the queues k, which Sending is for those of the terminal.   *)
LineOf(s, x) == s \o (IF x.pc = "put" THEN <<x.ch>> ELSE <<>>)
Line(k) == LineOf(k.write_q, wr)

(* The transmit interrupt is on when it has to be.                          *)
Started(k) ==
  /\ k.write_q # <<>> /\ wr.pc \notin {"loop", "fetch", "put"} => k.ier
  /\ wr.pc = "asleep" => k.ier

(* What holds of the queues, of those that the cooking has worked on so far   *)
(* too: what is to be sent and what was counted.                             *)
Sent(k) == k \in TtyQueues /\ (k.fault = "none" => Order(before, Line(k), due, cr_flag) /\ Started(k))
Counted(k) == k.fault = "none" => k.data = Lines(Ends(tio), k.secondary) + off

(* Only a task that runs is inside a PUTCH.                                  *)
TtyLocals ==
  /\ cpu \in {"none", "reader", "writer"} /\ rd \in Readers /\ wr \in Writers
  /\ due \in Seq(Chars) /\ cr_flag \in BOOLEAN /\ alarm \in BOOLEAN /\ tio \in Termios
  /\ setting \subseteq Modes /\ off \in Int /\ before \in {"cr", "flushed", "none"}
  /\ wr.pc = "put" => cpu = "writer"
Slept == rd.pc = "asleep" /\ tty.fault = "none" => tty.secondary = <<>>

TInv == Sent(tty) /\ Counted(tty) /\ TtyLocals /\ Slept

LEMMA LineIs ==
  ASSUME NEW s \in Seq(Chars), NEW x \in Writers
  PROVE  /\ LineOf(s, x) \in Seq(Chars)
         /\ LineOf(s, x) = IF x.pc = "put" THEN Append(s, x.ch) ELSE s
<1>1. x.ch \in Chars
  BY DEF Writers
<1>2. s \o <<x.ch>> = Append(s, x.ch) /\ s \o <<>> = s /\ Append(s, x.ch) \in Seq(Chars)
  BY <1>1, AppendIsConcat, ConcatEmptySeq, AppendProperties
<1> QED
  BY <1>2 DEF LineOf

LEMMA TtyInitInv == TtyInit => TInv
<1> SUFFICES ASSUME TtyInit PROVE TInv
  OBVIOUS
<1>1. tty \in TtyQueues
  BY DEF TtyInit, TtyQueues, Faults
<1>2. TtyLocals
  <2>1. rd \in Readers
    BY DEF TtyInit, NoRead, Readers
  <2>2. wr \in Writers
    BY DEF TtyInit, Writers, Chars
  <2>3. wr.pc # "put" /\ due \in Seq(Chars)
    BY DEF TtyInit
  <2>4. tio \in Termios /\ setting \subseteq Modes /\ off \in Int /\ before = "none"
    BY TtyAssumption DEF TtyInit
  <2> QED
    BY <2>1, <2>2, <2>3, <2>4 DEF TtyInit, TtyLocals
<1>3. /\ tty.write_q = <<>> /\ tty.secondary = <<>> /\ tty.data = 0 /\ due = <<>>
      /\ wr.pc = "idle" /\ rd.pc = "idle"
  BY DEF TtyInit, NoRead
<1>4. Line(tty) = <<>>
  BY <1>2, <1>3, LineIs DEF Line, TtyLocals
<1>5. Order(before, Line(tty), due, cr_flag)
  <2>1. cr_flag = FALSE
    BY DEF TtyInit
  <2> QED
    BY <1>3, <1>4, <2>1, OrderEmpty
<1>6. Lines(Ends(tio), <<>>) = 0 /\ off = 0
  <2>0. off = 0
    BY DEF TtyInit
  <2>1. {i \in DOMAIN <<>> : <<>>[i] \in Ends(tio)} = {}
    OBVIOUS
  <2> QED
    BY <2>0, <2>1, FS_EmptySet DEF Lines
<1> QED
  BY <1>1, <1>2, <1>3, <1>5, <1>6 DEF TInv, Sent, Started, Counted, Slept

(* Echoing.                                                                  *)
LEMMA EchoKeeps ==
  ASSUME TtyLocals, NEW k, Sent(k), k.fault = "none", NEW n \in Nat
  PROVE  /\ Sent(Echo(k, n))
         /\ Echo(k, n).secondary = k.secondary /\ Echo(k, n).data = k.data
<1> DEFINE e == [i \in 1..n |-> "echo"]
           z == k.write_q \o e
<1>1. k \in TtyQueues /\ k.write_q \in Seq(Chars)
  BY DEF Sent, TtyQueues
<1>2. e \in Seq(Chars) /\ Len(e) = n
  BY DEF Chars
<1>3. /\ z \in Seq(Chars) /\ Len(z) = Len(k.write_q) + n /\ Len(k.write_q) \in Nat
      /\ \A p \in 1..Len(k.write_q) : z[p] = k.write_q[p]
      /\ \A p \in (Len(k.write_q) + 1)..Len(z) : z[p] = "echo"
  BY <1>1, <1>2
<1> HIDE DEF e
<1>4. ASSUME NEW f \in Faults \ {"none"}, Echo(k, n) = rs_write([k EXCEPT !.fault = f])
      PROVE  /\ Sent(Echo(k, n))
             /\ Echo(k, n).secondary = k.secondary /\ Echo(k, n).data = k.data
  <2>1. PICK x : x = [k EXCEPT !.fault = f]
    OBVIOUS
  <2>2. x \in TtyQueues /\ x.fault = f /\ x.secondary = k.secondary /\ x.data = k.data
    BY <1>1, <2>1 DEF TtyQueues
  <2>3. PICK y : y = rs_write(x)
    OBVIOUS
  <2>4. y \in TtyQueues /\ y.fault = f /\ y.secondary = k.secondary /\ y.data = k.data
    BY <2>2, <2>3 DEF TtyQueues, rs_write
  <2> QED
    BY <1>4, <2>1, <2>3, <2>4 DEF Sent
<1>5. CASE ~tio.echo
  BY <1>5 DEF Echo
<1>9. CASE tio.echo /\ n = 0
  <2>1. Echo(k, n) = rs_write(k)
    BY <1>9 DEF Echo, PUTCH
  <2>2. PICK y : y = rs_write(k)
    OBVIOUS
  <2>3. /\ y \in TtyQueues /\ y.write_q = k.write_q /\ y.fault = "none"
        /\ y.ier = (k.ier \/ k.write_q # <<>>) /\ y.secondary = k.secondary /\ y.data = k.data
    BY <1>1, <2>2 DEF TtyQueues, rs_write
  <2> QED
    BY <2>1, <2>2, <2>3 DEF Sent, Line, Started
<1>6. CASE tio.echo /\ n > 0 /\ wr.pc = "put"
  <2>1. Echo(k, n) = rs_write([k EXCEPT !.fault = "echo inside a PUTCH"])
    BY <1>6 DEF Echo, PUTCH
  <2>2. "echo inside a PUTCH" \in Faults \ {"none"}
    BY DEF Faults
  <2> QED
    BY <1>4, <2>1, <2>2
<1>7. CASE tio.echo /\ n > 0 /\ wr.pc # "put" /\ Left(k.write_q) < n
  <2>0. n # 0 /\ n > 0 /\ ~(wr.pc = "put")
    BY <1>7
  <2>3. PUTCH(k, n) = [k EXCEPT !.fault = "echo without room"]
    BY <1>7, <2>0 DEF PUTCH
  <2>1. Echo(k, n) = rs_write([k EXCEPT !.fault = "echo without room"])
    BY <1>7, <2>3 DEF Echo
  <2>2. "echo without room" \in Faults \ {"none"}
    BY DEF Faults
  <2> QED
    BY <1>4, <2>1, <2>2
<1>8. CASE tio.echo /\ n > 0 /\ wr.pc # "put" /\ ~(Left(k.write_q) < n)
  <2> DEFINE x == [k EXCEPT !.write_q = z]
  <2>1. Echo(k, n) = rs_write(x)
    BY <1>8 DEF Echo, PUTCH, e
  <2> HIDE DEF z
  <2>2. x \in TtyQueues /\ x.write_q = z /\ x.fault = "none" /\ x.ier = k.ier
        /\ x.secondary = k.secondary /\ x.data = k.data
    BY <1>1, <1>3 DEF TtyQueues
  <2> HIDE DEF x
  <2>3. PICK y : y = rs_write(x)
    OBVIOUS
  <2>4. /\ y \in TtyQueues /\ y.write_q = z /\ y.fault = "none" /\ y.ier = (x.ier \/ z # <<>>)
        /\ y.secondary = k.secondary /\ y.data = k.data
    BY <2>2, <2>3 DEF TtyQueues, rs_write
  <2>5. Line(y) = z /\ Line(k) = k.write_q
    BY <1>1, <1>3, <1>8, <2>4, LineIs DEF Line, TtyLocals
  <2>6. Order(before, z, due, cr_flag)
    <3>1. Order(before, k.write_q, due, cr_flag) /\ due \in Seq(Chars)
      BY <2>5 DEF Sent, TtyLocals
    <3> QED
      BY <1>1, <1>3, <3>1, OrderEchoes
  <2>7. Started(y)
    BY <2>2, <2>4 DEF Sent, Started
  <2> QED
    BY <2>1, <2>3, <2>4, <2>5, <2>6, <2>7 DEF Sent
<1> QED
  BY <1>5, <1>6, <1>7, <1>8, <1>9

(* Characters are taken from the unfinished line only.                       *)
LEMMA ErasedKeeps ==
  ASSUME TtyLocals, NEW k, Sent(k), Counted(k), k.fault = "none",
         NEW n \in 0..(Len(k.secondary) - LineStart(k.secondary))
  PROVE  Sent(Erased(k, n)) /\ Counted(Erased(k, n))
<1> DEFINE m == Len(k.secondary) - n
           more == {i \in (m + 1)..Len(k.secondary) : Control(k.secondary[i])}
<1>1. k.secondary \in Seq(Chars) /\ Len(k.secondary) \in Nat
  BY DEF Sent, TtyQueues
<1>2. m \in 0..Len(k.secondary) /\ \A i \in (m + 1)..Len(k.secondary) : k.secondary[i] \notin Ends(tio)
  BY <1>1, LineStartIs
<1>3. n + Cardinality(more) \in Nat
  <2>1. IsFiniteSet((m + 1)..Len(k.secondary))
    <3>1. m + 1 \in Int /\ Len(k.secondary) \in Int
      BY <1>1, <1>2
    <3> QED
      BY <3>1, FS_Interval
  <2>2. IsFiniteSet(more)
    BY <2>1, FS_Subset
  <2>3. Cardinality(more) \in Nat /\ n \in Nat
    BY <1>1, <2>2, FS_CardinalityType, LineStartIs
  <2> QED
    BY <2>3
<1>4. PICK e : e = Echo(k, n + Cardinality(more))
  OBVIOUS
<1>5. Sent(e) /\ e.secondary = k.secondary /\ e.data = k.data
  BY <1>3, <1>4, EchoKeeps
<1>6. Erased(k, n) = [e EXCEPT !.secondary = SubSeq(k.secondary, 1, m)]
  BY <1>4, <1>5 DEF Erased
<1> HIDE DEF m, more
<1>7. PICK t : t = SubSeq(k.secondary, 1, m)
  OBVIOUS
<1>8. t \in Seq(Chars) /\ Lines(Ends(tio), t) = Lines(Ends(tio), k.secondary)
  BY <1>1, <1>2, <1>7, LinesPrefix
<1>9. PICK x : x = [e EXCEPT !.secondary = t]
  OBVIOUS
<1>10. /\ x \in TtyQueues /\ x.write_q = e.write_q /\ x.ier = e.ier /\ x.fault = e.fault
       /\ x.data = e.data /\ x.secondary = t
  BY <1>5, <1>8, <1>9 DEF Sent, TtyQueues
<1>11. Sent(x)
  BY <1>5, <1>10 DEF Sent, Line, Started
<1>12. Counted(x)
  BY <1>5, <1>8, <1>10 DEF Counted
<1> QED
  BY <1>6, <1>7, <1>9, <1>11, <1>12

(* read_q alone matters to nobody else.                                      *)
LEMMA ReadQueueKeeps ==
  ASSUME NEW k, Sent(k), Counted(k), NEW t \in Seq(Chars), NEW x, x = [k EXCEPT !.read_q = t]
  PROVE  Sent(x) /\ Counted(x) /\ x.fault = k.fault
<1>1. k \in TtyQueues
  BY DEF Sent
<1>2. /\ x \in TtyQueues /\ x.write_q = k.write_q /\ x.ier = k.ier /\ x.fault = k.fault
      /\ x.data = k.data /\ x.secondary = k.secondary
  BY <1>1 DEF TtyQueues
<1> QED
  BY <1>2 DEF Sent, Counted, Line, Started

(* One character is cooked.                                                  *)
LEMMA CookKeeps ==
  ASSUME TtyLocals, NEW k, Sent(k), Counted(k), NEW ch \in Chars
  PROVE  Sent(Cook(k, ch)) /\ Counted(Cook(k, ch))
<1>1. PICK c \in Chars : c = CASE ch = "cr" /\ tio.icrnl -> "nl"
                              [] ch = "nl" /\ tio.inlcr -> "cr"
                              [] OTHER -> ch
  BY DEF Chars
<1>2. k \in TtyQueues /\ k.secondary \in Seq(Chars) /\ Len(k.secondary) \in Nat
  BY DEF Sent, TtyQueues
<1>3. CASE k.fault # "none"
  BY <1>3 DEF Cook
<1>4. CASE k.fault = "none" /\ (k.read_q # <<>> \/ Left(k.secondary) = 0)
  <2>0. k.read_q \in Seq(Chars)
    BY <1>2 DEF TtyQueues
  <2>1. PICK t : t = Append(k.read_q, ch)
    OBVIOUS
  <2>3. t \in Seq(Chars)
    BY <2>0, <2>1
  <2>2. Cook(k, ch) = [k EXCEPT !.read_q = t]
    BY <1>4, <2>1 DEF Cook
  <2> QED
    BY <2>2, <2>3, ReadQueueKeeps
<1>5. CASE k.fault = "none" /\ ~(k.read_q # <<>> \/ Left(k.secondary) = 0)
  <2>1. LineStart(k.secondary) \in 0..Len(k.secondary)
    BY <1>2, LineStartIs
  <2>6. CASE ch = "cr" /\ ~tio.icrnl /\ tio.igncr
    BY <1>5, <2>6 DEF Cook
  <2>2. CASE ~(ch = "cr" /\ ~tio.icrnl /\ tio.igncr) /\ tio.canon /\ c = tio.vkill
    <3>1. Cook(k, ch) = Kill(k)
      BY <1>1, <1>5, <2>2 DEF Cook
    <3>2. CASE Len(k.secondary) - LineStart(k.secondary) = 0
      BY <3>1, <3>2 DEF Kill
    <3>3. CASE Len(k.secondary) - LineStart(k.secondary) # 0
      <4>1. PICK n \in 0..(Len(k.secondary) - LineStart(k.secondary)) :
              n = Len(k.secondary) - LineStart(k.secondary)
        BY <1>2, <2>1
      <4>2. Cook(k, ch) = Erased(k, n)
        BY <3>1, <3>3, <4>1 DEF Kill
      <4> QED
        BY <1>5, <4>2, ErasedKeeps
    <3> QED
      BY <3>2, <3>3
  <2>3. CASE /\ ~(ch = "cr" /\ ~tio.icrnl /\ tio.igncr) /\ ~(tio.canon /\ c = tio.vkill)
             /\ tio.canon /\ c = tio.verase
    <3>1. Cook(k, ch) = Erase(k)
      BY <1>1, <1>5, <2>3 DEF Cook
    <3>2. CASE LineStart(k.secondary) = Len(k.secondary)
      BY <3>1, <3>2 DEF Erase
    <3>3. CASE LineStart(k.secondary) # Len(k.secondary)
      <4>1. 1 \in 0..(Len(k.secondary) - LineStart(k.secondary))
        BY <1>2, <2>1, <3>3
      <4>2. Cook(k, ch) = Erased(k, 1)
        BY <3>1, <3>3 DEF Erase
      <4> QED
        BY <1>5, <4>1, <4>2, ErasedKeeps
    <3> QED
      BY <3>2, <3>3
  <2>4. CASE /\ ~(ch = "cr" /\ ~tio.icrnl /\ tio.igncr) /\ ~(tio.canon /\ c = tio.vkill)
             /\ ~(tio.canon /\ c = tio.verase) /\ tio.isig /\ c = tio.vintr
    <3>1. Cook(k, ch) = tty_intr(k)
      BY <1>1, <1>5, <2>4 DEF Cook
    <3>2. PICK x : x = tty_intr(k)
      OBVIOUS
    <3>3. /\ x \in TtyQueues /\ x.write_q = k.write_q /\ x.ier = k.ier /\ x.fault = k.fault
          /\ x.data = k.data /\ x.secondary = k.secondary
      BY <1>2, <3>2 DEF TtyQueues, tty_intr
    <3> QED
      BY <3>1, <3>2, <3>3 DEF Sent, Counted, Line, Started
  <2>5. CASE /\ ~(ch = "cr" /\ ~tio.icrnl /\ tio.igncr) /\ ~(tio.canon /\ c = tio.vkill)
             /\ ~(tio.canon /\ c = tio.verase) /\ ~(tio.isig /\ c = tio.vintr)
    <3>1. PICK d : d = IF c \in Ends(tio) THEN [k EXCEPT !.data = @ + 1] ELSE k
      OBVIOUS
    <3>2. PICK n \in Nat : n = CASE c = "nl" -> 2
                              [] c # "nl" /\ Control(c) -> IF tio.echoctl THEN 2 ELSE 0
                              [] OTHER -> 1
      OBVIOUS
    <3>3. Cook(k, ch) = [Echo(d, n) EXCEPT !.secondary = Append(@, c)]
      BY <1>1, <1>5, <2>5, <3>1, <3>2 DEF Cook
    <3>4. /\ d \in TtyQueues /\ d.write_q = k.write_q /\ d.ier = k.ier /\ d.fault = "none"
          /\ d.secondary = k.secondary /\ d.data = k.data + (IF c \in Ends(tio) THEN 1 ELSE 0)
      <4>1. k.data \in Int
        BY <1>2 DEF TtyQueues
      <4>2. CASE c \in Ends(tio)
        BY <1>2, <1>5, <3>1, <4>1, <4>2 DEF TtyQueues
      <4>3. CASE c \notin Ends(tio)
        BY <1>2, <1>5, <3>1, <4>1, <4>3
      <4> QED
        BY <4>2, <4>3
    <3>5. Sent(d)
      BY <1>5, <3>4 DEF Sent, Line, Started
    <3>6. PICK e : e = Echo(d, n)
      OBVIOUS
    <3>7. Sent(e) /\ e.secondary = d.secondary /\ e.data = d.data
      BY <3>4, <3>5, <3>6, EchoKeeps
    <3>8. PICK t : t = Append(k.secondary, c)
      OBVIOUS
    <3>9. t \in Seq(Chars) /\ Lines(Ends(tio), t) = Lines(Ends(tio), k.secondary) + (IF c \in Ends(tio) THEN 1 ELSE 0)
      BY <1>2, <3>8, LinesAppend
    <3>10. PICK x : x = [e EXCEPT !.secondary = t]
      OBVIOUS
    <3>11. /\ x \in TtyQueues /\ x.write_q = e.write_q /\ x.ier = e.ier /\ x.fault = e.fault
           /\ x.data = e.data /\ x.secondary = t
      BY <3>7, <3>9, <3>10 DEF Sent, TtyQueues
    <3>12. Cook(k, ch) = x
      BY <3>3, <3>4, <3>6, <3>7, <3>8, <3>10
    <3>13. Sent(x)
      BY <3>7, <3>11 DEF Sent, Line, Started
    <3>14. Counted(x)
      <4>1. Lines(Ends(tio), k.secondary) \in Nat /\ off \in Int
        BY <1>2, LinesFinite DEF TtyLocals
      <4> QED
        BY <1>5, <3>4, <3>7, <3>9, <3>11, <4>1 DEF Counted
    <3> QED
      BY <3>12, <3>13, <3>14
  <2> QED
    BY <2>2, <2>3, <2>4, <2>5, <2>6
<1> QED
  BY <1>3, <1>4, <1>5

(* The loop of copy_to_cooked up to the m-th character exists: a function     *)
(* for m - 1 characters has one more.                                        *)
CookedTo(f, m, k) ==
  f = [i \in 0..m |-> IF i = 0 THEN [k EXCEPT !.read_q = <<>>] ELSE Cook(f[i - 1], k.read_q[i])]

LEMMA CookedExists ==
  ASSUME NEW k, NEW m \in Nat
  PROVE  \E f : CookedTo(f, m, k)
<1> DEFINE T == {x \in Nat : ~\E f : CookedTo(f, x, k)}
<1> SUFFICES ASSUME T # {} PROVE FALSE
  OBVIOUS
<1>1. PICK x \in T : \A y \in T : x <= y
  BY LeastNat
<1>2. CASE x = 0
  <2>1. CookedTo([i \in 0..0 |-> [k EXCEPT !.read_q = <<>>]], 0, k)
    BY DEF CookedTo
  <2> QED
    BY <1>1, <1>2, <2>1
<1>3. CASE x # 0
  <2>1. x - 1 \in Nat /\ x - 1 \notin T
    BY <1>1, <1>3
  <2>2. PICK f : CookedTo(f, x - 1, k)
    BY <2>1
  <2> DEFINE g == [i \in 0..x |-> IF i = x THEN Cook(f[x - 1], k.read_q[x]) ELSE f[i]]
  <2>3. \A i \in 0..(x - 1) : i \in 0..x /\ i # x /\ g[i] = f[i]
    BY <1>1
  <2>4. ASSUME NEW i \in 0..x
        PROVE  g[i] = IF i = 0 THEN [k EXCEPT !.read_q = <<>>] ELSE Cook(g[i - 1], k.read_q[i])
    <3>1. CASE i = x
      <4>1. g[x] = Cook(f[x - 1], k.read_q[x]) /\ g[x - 1] = f[x - 1]
        BY <1>1, <1>3, <2>3
      <4> QED
        BY <1>3, <3>1, <4>1
    <3>2. CASE i # x
      <4>1. i \in 0..(x - 1) /\ g[i] = f[i]
        BY <1>1, <2>3, <3>2
      <4>2. f[i] = IF i = 0 THEN [k EXCEPT !.read_q = <<>>] ELSE Cook(f[i - 1], k.read_q[i])
        BY <2>2, <4>1 DEF CookedTo
      <4>3. i # 0 => g[i - 1] = f[i - 1]
        BY <1>1, <2>3, <4>1
      <4> QED
        BY <4>1, <4>2, <4>3
    <3> QED
      BY <3>1, <3>2
  <2>5. CookedTo(g, x, k)
    BY <2>4 DEF CookedTo
  <2> QED
    BY <1>1, <2>5
<1> QED
  BY <1>2, <1>3

(* ... so Cooked is that function.                                           *)
LEMMA CookedIs ==
  ASSUME NEW k, Len(k.read_q) \in Nat
  PROVE  CookedTo(Cooked(k), Len(k.read_q), k)
<1>1. \E f : CookedTo(f, Len(k.read_q), k)
  BY CookedExists
<1>2. Cooked(k) = CHOOSE f : CookedTo(f, Len(k.read_q), k)
  BY DEF Cooked, CookedTo
<1> QED
  BY <1>1, <1>2

(* copy_to_cooked keeps what each character of it keeps: there is no first    *)
(* one that does not.                                                        *)
LEMMA CopyKeeps ==
  ASSUME TtyLocals, NEW k, Sent(k), Counted(k)
  PROVE  Sent(copy_to_cooked(k)) /\ Counted(copy_to_cooked(k))
<1> DEFINE n == Len(k.read_q)
<1>1. k \in TtyQueues /\ k.read_q \in Seq(Chars) /\ n \in Nat
  BY DEF Sent, TtyQueues
<1>2. PICK f : f = Cooked(k)
  OBVIOUS
<1>3. CookedTo(f, n, k)
  BY <1>1, <1>2, CookedIs
<1> DEFINE T == {x \in Nat : x <= n /\ ~(Sent(f[x]) /\ Counted(f[x]))}
<1>4. T = {}
  <2> SUFFICES ASSUME T # {} PROVE FALSE
    OBVIOUS
  <2>1. PICK x \in T : \A y \in T : x <= y
    BY LeastNat
  <2>2. x \in Nat /\ x <= n /\ ~(Sent(f[x]) /\ Counted(f[x]))
    BY <2>1
  <2>3. CASE x = 0
    <3>1. f[0] = [k EXCEPT !.read_q = <<>>]
      BY <1>1, <1>3 DEF CookedTo
    <3>2. <<>> \in Seq(Chars)
      OBVIOUS
    <3> QED
      BY <2>2, <2>3, <3>1, <3>2, ReadQueueKeeps
  <2>4. CASE x # 0
    <3>1. x - 1 \in Nat /\ x - 1 <= n /\ x - 1 \notin T
      BY <1>1, <2>1, <2>2, <2>4
    <3>2. PICK z : z = f[x - 1]
      OBVIOUS
    <3>3. Sent(z) /\ Counted(z)
      BY <3>1, <3>2
    <3>4. x \in 0..n /\ k.read_q[x] \in Chars
      BY <1>1, <2>2, <2>4
    <3>5. f[x] = Cook(z, k.read_q[x])
      BY <1>3, <2>4, <3>2, <3>4 DEF CookedTo
    <3>6. Sent(Cook(z, k.read_q[x])) /\ Counted(Cook(z, k.read_q[x]))
      BY <3>3, <3>4, CookKeeps
    <3> QED
      BY <2>2, <3>5, <3>6
  <2> QED
    BY <2>3, <2>4
<1>5. Sent(f[n]) /\ Counted(f[n])
  BY <1>1, <1>4
<1> QED
  BY <1>2, <1>5 DEF copy_to_cooked

-----------------------------------------------------------------------------
(* A step that leaves the queues alone.                                      *)
LEMMA TtyFrame ==
  ASSUME TInv, tty' \in TtyQueues, TtyLocals', Started(tty)', Slept',
         tty'.write_q = tty.write_q, tty'.secondary = tty.secondary, tty'.data = tty.data,
         tty'.fault = tty.fault, UNCHANGED <<tio, off, before, due, cr_flag>>, wr.pc # "put", wr'.pc # "put"
  PROVE  TInv'
<1>1. Line(tty)' = Line(tty)
  BY DEF Line, LineOf
<1> QED
  BY <1>1 DEF TInv, Sent, Counted

(* The receive interrupt wakes the reader, ...                               *)
LEMMA ReadCharKeeps ==
  ASSUME TInv, NEW c \in Typed, read_char(c)
  PROVE  TInv'
<1>1. Sent(tty) /\ Counted(tty) /\ TtyLocals /\ tty \in TtyQueues /\ rd \in Readers
  BY DEF TInv, Sent, TtyLocals
<1>2. PICK k : k = IF Left(tty.read_q) > 0 THEN [tty EXCEPT !.read_q = Append(@, c)] ELSE tty
  OBVIOUS
<1>3. Sent(k) /\ Counted(k)
  <2>1. tty.read_q \in Seq(Chars) /\ c \in Chars
    BY <1>1, TtyAssumption DEF TtyQueues, Keys, Chars
  <2>2. PICK t : t = Append(tty.read_q, c)
    OBVIOUS
  <2>4. t \in Seq(Chars)
    BY <2>1, <2>2
  <2>3. k = [tty EXCEPT !.read_q = t] \/ k = tty
    BY <1>2, <2>2
  <2> QED
    BY <1>1, <2>3, <2>4, ReadQueueKeeps
<1>4. Sent(copy_to_cooked(k)) /\ Counted(copy_to_cooked(k))
  BY <1>1, <1>3, CopyKeeps
<1>5. tty' = copy_to_cooked(k)
  BY <1>2 DEF read_char
<1>6. Sent(tty') /\ Counted(tty')
  BY <1>4, <1>5
<1>7. UNCHANGED <<tio, setting, off, cpu, wr, cr_flag, alarm, due, before>>
  BY DEF read_char
<1>8. Sent(tty)' /\ Counted(tty)'
  BY <1>6, <1>7 DEF Sent, Counted, Line, Started
<1>9. rd' \in Readers /\ rd'.pc # "asleep"
  BY <1>1 DEF read_char, Readers
<1> QED
  BY <1>1, <1>7, <1>8, <1>9 DEF TInv, TtyLocals, Slept

(* ... and the transmit interrupt sends the next character, and wakes the     *)
(* writer while there is still one to send.                                  *)
LEMMA WriteCharKeeps ==
  ASSUME TInv, write_char
  PROVE  TInv'
<1>1. /\ tty \in TtyQueues /\ Order(before, Line(tty), due, cr_flag) /\ Started(tty) /\ TtyLocals
      /\ tty.write_q \in Seq(Chars) /\ Len(tty.write_q) \in Nat /\ tty.fault = "none"
      /\ due \in Seq(Chars) /\ wr \in Writers
  BY DEF TInv, Sent, TtyLocals, TtyQueues, write_char
<1>2. UNCHANGED <<tio, setting, off, cpu, rd, cr_flag, alarm>>
  BY DEF write_char
<1>3. PICK z : z = IF tty.write_q = <<>> THEN tty.write_q ELSE Tail(tty.write_q)
  OBVIOUS
<1>0. z \in Seq(Chars)
  BY <1>1, <1>3
<1>4. /\ tty' \in TtyQueues /\ tty'.write_q = z /\ tty'.ier = (Len(tty.write_q) > 1)
      /\ tty'.fault = "none" /\ tty'.secondary = tty.secondary /\ tty'.data = tty.data
  <2>1. PICK b : b = (Len(tty.write_q) > 1)
    OBVIOUS
  <2>2. tty' = [tty EXCEPT !.write_q = z, !.ier = b]
    BY <1>3, <2>1 DEF write_char
  <2>3. b \in BOOLEAN
    BY <2>1
  <2> QED
    BY <1>0, <1>1, <2>1, <2>2, <2>3 DEF TtyQueues
<1>5. /\ wr' \in Writers /\ wr'.ch = wr.ch /\ (wr'.pc = "put" <=> wr.pc = "put")
      /\ (wr'.pc \in {"loop", "fetch", "put"} <=> wr.pc \in {"loop", "fetch", "put"})
      /\ (wr'.pc = "asleep" => Len(tty.write_q) > STARTUP)
  <2>1. PICK pc : pc = IF wr.pc = "asleep" /\ Len(tty.write_q) <= STARTUP THEN "woken" ELSE wr.pc
    OBVIOUS
  <2>2. wr' = [wr EXCEPT !.pc = pc]
    BY <2>1 DEF write_char
  <2>3. pc = "asleep" => Len(tty.write_q) > STARTUP
    BY <1>1, <2>1, TtyAssumption
  <2>4. wr' \in Writers /\ wr'.ch = wr.ch /\ wr'.pc = pc
    BY <1>1, <2>1, <2>2 DEF Writers
  <2>5. (pc = "put" <=> wr.pc = "put") /\ (pc \in {"loop", "fetch", "put"} <=> wr.pc \in {"loop", "fetch", "put"})
    BY <2>1
  <2> QED
    BY <2>3, <2>4, <2>5
<1>6. Started(tty)'
  <2>1. z # <<>> => Len(tty.write_q) > 1
    BY <1>1, <1>3
  <2>2. Len(tty.write_q) > STARTUP => Len(tty.write_q) > 1
    BY <1>1, TtyAssumption
  <2> QED
    BY <1>4, <1>5, <2>1, <2>2 DEF Started
<1>7. due' \in Seq(Chars) /\ Order(before', Line(tty)', due', cr_flag)
  <2>1. CASE tty.write_q = <<>>
    <3>1. due' = due /\ before' = before /\ Line(tty)' = Line(tty)
      BY <1>3, <1>4, <1>5, <2>1 DEF write_char, Line, LineOf
    <3> QED
      BY <1>1, <3>1
  <2>2. CASE tty.write_q # <<>>
    <3>1. PICK line : line = Line(tty)
      OBVIOUS
    <3>2. line \in Seq(Chars) /\ line # <<>> /\ line[1] = tty.write_q[1] /\ Line(tty)' = Tail(line)
      <4>1. /\ line \in Seq(Chars)
            /\ line = IF wr.pc = "put" THEN Append(tty.write_q, wr.ch) ELSE tty.write_q
        BY <1>1, <3>1, LineIs DEF Line
      <4>2. Line(tty)' = IF wr.pc = "put" THEN Append(z, wr.ch) ELSE z
        BY <1>0, <1>4, <1>5, LineIs DEF Line
      <4>3. Tail(Append(tty.write_q, wr.ch)) = Append(z, wr.ch) /\ wr.ch \in Chars
        BY <1>1, <1>3, <2>2, HeadTailAppend DEF Writers
      <4>4. Append(tty.write_q, wr.ch)[1] = tty.write_q[1] /\ Append(tty.write_q, wr.ch) # <<>>
        BY <1>1, <2>2, <4>3, AppendProperties
      <4> QED
        BY <1>3, <2>2, <4>1, <4>2, <4>3, <4>4
    <3>3. due' = IF line[1] \in Added THEN due ELSE SubSeq(due, 2, Len(due))
      BY <2>2, <3>2 DEF write_char
    <3>6. before' = LeftLast(before, line[1])
      BY <2>2, <3>2 DEF write_char, LeftLast
    <3>4. Order(before', Tail(line), due', cr_flag)
      BY <1>1, <3>1, <3>2, <3>3, <3>6, OrderTail
    <3>5. SubSeq(due, 2, Len(due)) \in Seq(Chars)
      BY <1>1
    <3> QED
      BY <1>1, <3>2, <3>3, <3>4, <3>5
  <2> QED
    BY <2>1, <2>2
<1>8. Sent(tty)'
  BY <1>2, <1>4, <1>6, <1>7 DEF Sent
<1>9. Counted(tty)' /\ Slept'
  BY <1>1, <1>2, <1>4 DEF TInv, Counted, Slept
<1>10. before' \in {"cr", "flushed", "none"}
  BY <1>1 DEF write_char, TtyLocals
<1> QED
  BY <1>1, <1>2, <1>5, <1>7, <1>8, <1>9, <1>10 DEF TInv, TtyLocals

(* The signals.                                                             *)
LEMMA SignalKeeps ==
  ASSUME TInv, Alarm \/ TakeSignal("reader") \/ TakeSignal("writer")
  PROVE  TInv'
<1>1. tty \in TtyQueues /\ Started(tty) /\ TtyLocals /\ Slept /\ cpu = "none" /\ tty.fault = "none"
  BY DEF TInv, Sent, Alarm, TakeSignal, Nobody
<1>2. PICK g \in [{"reader", "writer"} -> SUBSET {"INT", "ALRM"}] : tty' = [tty EXCEPT !.signal = g]
  <2>1. tty.signal \in [{"reader", "writer"} -> SUBSET {"INT", "ALRM"}]
    BY <1>1 DEF TtyQueues
  <2>2. CASE Alarm
    <3>1. PICK g : g = [tty.signal EXCEPT !["reader"] = @ \cup {"ALRM"}]
      OBVIOUS
    <3>2. g \in [{"reader", "writer"} -> SUBSET {"INT", "ALRM"}]
      BY <2>1, <3>1
    <3>3. tty' = [tty EXCEPT !.signal = g]
      BY <2>2, <3>1 DEF Alarm
    <3> QED
      BY <3>2, <3>3
  <2>3. ASSUME NEW t \in {"reader", "writer"}, TakeSignal(t)
        PROVE  \E g \in [{"reader", "writer"} -> SUBSET {"INT", "ALRM"}] : tty' = [tty EXCEPT !.signal = g]
    <3>1. PICK g : g = [tty.signal EXCEPT ![t] = {}]
      OBVIOUS
    <3>2. g \in [{"reader", "writer"} -> SUBSET {"INT", "ALRM"}]
      BY <2>1, <3>1
    <3>3. tty' = [tty EXCEPT !.signal = g]
      BY <2>3, <3>1 DEF TakeSignal
    <3> QED
      BY <3>2, <3>3
  <2> QED
    BY <2>2, <2>3
<1>3. UNCHANGED <<tio, setting, off, cpu, rd, wr, cr_flag, due, before>> /\ alarm' \in BOOLEAN
  BY <1>1 DEF Alarm, TakeSignal, TtyLocals
<1>4. /\ tty' \in TtyQueues /\ tty'.write_q = tty.write_q /\ tty'.ier = tty.ier
      /\ tty'.fault = tty.fault /\ tty'.data = tty.data /\ tty'.secondary = tty.secondary
  BY <1>1, <1>2 DEF TtyQueues
<1>5. TtyLocals' /\ wr.pc # "put"
  BY <1>1, <1>3 DEF TtyLocals
<1>6. Started(tty)' /\ Slept'
  BY <1>1, <1>3, <1>4 DEF Started, Slept
<1> QED
  BY <1>3, <1>4, <1>5, <1>6, TtyFrame

(* A reader's step that takes no character: it sleeps on an empty queue only. *)
LEMMA ReaderFrame ==
  ASSUME TInv, tty' \in TtyQueues, rd' \in Readers, alarm' \in BOOLEAN,
         cpu \in {"none", "reader"}, cpu' \in {"none", "reader"},
         UNCHANGED <<tio, setting, off, wr, cr_flag, due, before>>,
         tty'.write_q = tty.write_q, tty'.ier = tty.ier, tty'.secondary = tty.secondary,
         tty'.data = tty.data, tty'.fault = tty.fault, tty.fault = "none",
         rd'.pc = "asleep" => tty.secondary = <<>>
  PROVE  TInv'
<1>1. Started(tty) /\ TtyLocals /\ wr.pc # "put"
  BY DEF TInv, Sent, TtyLocals
<1>2. TtyLocals'
  BY <1>1 DEF TtyLocals
<1>3. Started(tty)' /\ Slept'
  BY <1>1 DEF Started, Slept
<1> QED
  BY <1>1, <1>2, <1>3, TtyFrame

LEMMA ReadKeeps ==
  ASSUME TInv, NEW n \in ReadCounts, Read(n)
  PROVE  TInv'
<1>1. tty \in TtyQueues /\ TtyLocals /\ alarm \in BOOLEAN /\ tio \in Termios
  BY DEF TInv, Sent, TtyLocals
<1>2. tio.vtime \in BOOLEAN /\ tio.vmin \in Nat
  BY <1>1 DEF Termios
<1>3. PICK own : /\ rd' = [pc |-> "test", nr |-> n, got |-> 0,
                            minimum |-> IF tio.vtime /\ tio.vmin = 0 THEN 1 ELSE tio.vmin,
                            time |-> tio.vtime, flag |-> (tio.vtime /\ tio.vmin = 0) /\ own,
                            oldalarm |-> alarm]
                 /\ alarm' = (alarm \/ (tio.vtime /\ tio.vmin = 0))
  BY DEF Read
<1>4. rd' \in Readers /\ rd'.pc = "test"
  <2>1. n \in Int
    BY TtyAssumption
  <2> QED
    BY <1>1, <1>2, <1>3, <2>1 DEF Readers
<1>5. alarm' \in BOOLEAN
  BY <1>3
<1>6. /\ cpu = "none" /\ cpu' = "reader" /\ tty.fault = "none"
      /\ UNCHANGED <<tty, tio, setting, off, wr, cr_flag, due, before>>
  BY DEF Read, Nobody
<1> QED
  BY <1>1, <1>4, <1>5, <1>6, ReaderFrame

(* Leaving tty_read.                                                        *)
LEMMA ReturnIs ==
  ASSUME NEW a, Return(a)
  PROVE  rd' \in Readers /\ rd'.pc = "idle" /\ alarm' = a /\ cpu' = "none"
  BY DEF Return, NoRead, Readers

LEMMA ReadTestKeeps ==
  ASSUME TInv, ReadTest
  PROVE  TInv'
<1>1. /\ tty \in TtyQueues /\ TtyLocals /\ alarm \in BOOLEAN /\ rd \in Readers /\ rd.oldalarm \in BOOLEAN
      /\ cpu = "reader" /\ tty.fault = "none" /\ UNCHANGED <<tio, setting, off, wr, cr_flag, due, before>>
  BY DEF TInv, Sent, TtyLocals, Readers, ReadTest, Runs
<1>2. CASE Return(rd.oldalarm) /\ tty' = [tty EXCEPT !.signal["reader"] = @ \ {"ALRM"}]
  <2>1. tty.signal \in [{"reader", "writer"} -> SUBSET {"INT", "ALRM"}]
    BY <1>1 DEF TtyQueues
  <2>2. PICK g : g = [tty.signal EXCEPT !["reader"] = @ \ {"ALRM"}]
    OBVIOUS
  <2>3. g \in [{"reader", "writer"} -> SUBSET {"INT", "ALRM"}]
    BY <2>1, <2>2
  <2>4. tty' = [tty EXCEPT !.signal = g]
    BY <1>2, <2>2
  <2>5. /\ tty' \in TtyQueues /\ tty'.write_q = tty.write_q /\ tty'.ier = tty.ier
        /\ tty'.fault = tty.fault /\ tty'.data = tty.data /\ tty'.secondary = tty.secondary
    BY <1>1, <2>3, <2>4 DEF TtyQueues
  <2> QED
    BY <1>1, <1>2, <2>5, ReturnIs, ReaderFrame
<1>3. CASE Return(rd.oldalarm) /\ tty' = tty
  BY <1>1, <1>3, ReturnIs, ReaderFrame
<1>4. CASE rd' = [rd EXCEPT !.pc = IF NothingToRead THEN "sleep" ELSE "get"]
           /\ UNCHANGED <<tty, cpu, alarm>>
  <2>1. rd' \in Readers /\ rd'.pc # "asleep"
    BY <1>1, <1>4 DEF Readers
  <2> QED
    BY <1>1, <1>4, <2>1, ReaderFrame
<1> QED
  BY <1>2, <1>3, <1>4 DEF ReadTest

LEMMA ReadSleepKeeps ==
  ASSUME TInv, ReadSleep \/ ReadWakes
  PROVE  TInv'
<1>1. /\ tty \in TtyQueues /\ TtyLocals /\ alarm \in BOOLEAN /\ rd \in Readers
      /\ cpu \in {"none", "reader"} /\ tty.fault = "none"
      /\ UNCHANGED <<tty, tio, setting, off, wr, cr_flag, due, alarm, before>>
  BY DEF TInv, Sent, TtyLocals, ReadSleep, ReadWakes, Runs, Nobody
<1>2. rd' \in Readers /\ cpu' \in {"none", "reader"} /\ (rd'.pc = "asleep" => tty.secondary = <<>>)
  BY <1>1 DEF ReadSleep, ReadWakes, Readers
<1> QED
  BY <1>1, <1>2, ReaderFrame

(* GETCH and its count.                                                     *)
LEMMA ReadGetKeeps ==
  ASSUME TInv, ReadGet
  PROVE  TInv'
<1>1. /\ tty \in TtyQueues /\ TtyLocals /\ alarm \in BOOLEAN /\ rd \in Readers /\ wr.pc # "put"
      /\ Order(before, Line(tty), due, cr_flag) /\ Started(tty)
      /\ tty.data = Lines(Ends(tio), tty.secondary) + off
      /\ cpu = "reader" /\ tty.fault = "none"
      /\ UNCHANGED <<tio, setting, off, wr, cr_flag, due, before>>
      /\ tty.secondary \in Seq(Chars) /\ tty.data \in Int /\ off \in Int
  BY DEF TInv, Sent, Counted, TtyLocals, TtyQueues, Readers, ReadGet, Runs
<1>2. CASE tty.secondary = <<>>
  <2>1. tty' = [tty EXCEPT !.fault = "erased under the reader"] /\ UNCHANGED <<rd, cpu, alarm>>
    BY <1>2 DEF ReadGet
  <2>2. tty' \in TtyQueues /\ tty'.fault # "none"
    BY <1>1, <2>1 DEF TtyQueues, Faults
  <2>3. TtyLocals'
    BY <1>1, <2>1 DEF TtyLocals
  <2> QED
    BY <2>2, <2>3 DEF TInv, Sent, Counted, Slept
<1>3. CASE tty.secondary # <<>>
  <2> DEFINE c == Head(tty.secondary)
             rest == Tail(tty.secondary)
  <2>1. tty' = [tty EXCEPT !.secondary = rest, !.data = IF c \in Ends(tio) THEN @ - 1 ELSE @]
    BY <1>3 DEF ReadGet
  <2>2. \/ Return(alarm)
        \/ rd' = [rd EXCEPT !.pc = "store"] /\ cpu' \in {"reader", "none"} /\ UNCHANGED alarm
    BY <1>3 DEF ReadGet
  <2>3. PICK t, d : t = rest /\ d = IF c \in Ends(tio) THEN tty.data - 1 ELSE tty.data
    OBVIOUS
  <2>4. t \in Seq(Chars) /\ d \in Int /\ d = Lines(Ends(tio), t) + off
    <3>1. /\ t \in Seq(Chars)
          /\ Lines(Ends(tio), t) = Lines(Ends(tio), tty.secondary) - (IF c \in Ends(tio) THEN 1 ELSE 0)
      BY <1>1, <1>3, <2>3, LinesTail
    <3>2. Lines(Ends(tio), tty.secondary) \in Nat
      BY <1>1, LinesFinite
    <3> QED
      BY <1>1, <2>3, <3>1, <3>2
  <2>5. tty' = [tty EXCEPT !.secondary = t, !.data = d]
    BY <2>1, <2>3
  <2>6. /\ tty' \in TtyQueues /\ tty'.write_q = tty.write_q /\ tty'.ier = tty.ier
        /\ tty'.fault = "none" /\ tty'.data = d /\ tty'.secondary = t
    BY <1>1, <2>4, <2>5 DEF TtyQueues
  <2> HIDE DEF c, rest
  <2>8. rd' \in Readers /\ rd'.pc # "asleep" /\ cpu' \in {"none", "reader"} /\ alarm' \in BOOLEAN
    <3>1. CASE Return(alarm)
      BY <1>1, <3>1, ReturnIs
    <3>2. CASE rd' = [rd EXCEPT !.pc = "store"] /\ cpu' \in {"reader", "none"} /\ UNCHANGED alarm
      BY <1>1, <3>2 DEF Readers
    <3> QED
      BY <2>2, <3>1, <3>2
  <2>9. TtyLocals'
    BY <1>1, <2>8 DEF TtyLocals
  <2>10. Line(tty)' = Line(tty) /\ Started(tty)'
    BY <1>1, <2>6, <2>8 DEF Line, LineOf, Started
  <2>11. Sent(tty)'
    BY <1>1, <2>6, <2>10 DEF Sent
  <2> QED
    BY <1>1, <2>4, <2>6, <2>8, <2>9, <2>11 DEF TInv, Counted, Slept
<1> QED
  BY <1>2, <1>3

(* ... and what follows once put_fs_byte has stored the character.           *)
LEMMA ReadStoreKeeps ==
  ASSUME TInv, ReadStore
  PROVE  TInv'
<1>1. /\ tty \in TtyQueues /\ alarm \in BOOLEAN /\ rd \in Readers
      /\ cpu \in {"none", "reader"} /\ tty.fault = "none"
      /\ UNCHANGED <<tty, tio, setting, off, wr, cr_flag, due, before>>
      /\ rd.pc = "store" /\ rd.oldalarm \in BOOLEAN /\ rd.nr \in Int /\ rd.got \in Int
  BY DEF TInv, Sent, TtyLocals, Readers, ReadStore, Runs, Nobody
<1> DEFINE nx == [rd EXCEPT !.nr = @ - 1, !.got = @ + 1]
<1>2. \/ Return(rd.oldalarm)
      \/ rd' = [nx EXCEPT !.pc = "get"] /\ cpu' = "reader" /\ UNCHANGED alarm
      \/ \E own \in MayOwn(rd.oldalarm) :
           /\ rd' = [nx EXCEPT !.pc = "test", !.flag = IF rd.time THEN own ELSE @]
           /\ alarm' = IF rd.time THEN own \/ rd.oldalarm ELSE alarm
           /\ cpu' = "reader"
  BY DEF ReadStore
<1>3. nx \in Readers
  <2>1. PICK x : x = [rd EXCEPT !.nr = rd.nr - 1]
    OBVIOUS
  <2>2. x \in Readers /\ x.got = rd.got
    BY <1>1, <2>1 DEF Readers
  <2>3. nx = [x EXCEPT !.got = rd.got + 1]
    BY <2>1
  <2>4. rd.got + 1 \in Int
    BY <1>1
  <2> HIDE DEF nx
  <2> QED
    BY <2>2, <2>3, <2>4 DEF Readers
<1> HIDE DEF nx
<1>4. rd' \in Readers /\ rd'.pc # "asleep" /\ cpu' \in {"none", "reader"} /\ alarm' \in BOOLEAN
  <2>1. CASE Return(rd.oldalarm)
    BY <1>1, <2>1, ReturnIs
  <2>2. CASE rd' = [nx EXCEPT !.pc = "get"] /\ cpu' = "reader" /\ UNCHANGED alarm
    BY <1>1, <1>3, <2>2 DEF Readers
  <2>3. ASSUME NEW own \in MayOwn(rd.oldalarm),
               rd' = [nx EXCEPT !.pc = "test", !.flag = IF rd.time THEN own ELSE @],
               alarm' = IF rd.time THEN own \/ rd.oldalarm ELSE alarm, cpu' = "reader"
        PROVE  rd' \in Readers /\ rd'.pc # "asleep" /\ cpu' \in {"none", "reader"} /\ alarm' \in BOOLEAN
    <3>1. own \in BOOLEAN
      BY DEF MayOwn
    <3>2. PICK f : f = IF rd.time THEN own ELSE nx.flag
      OBVIOUS
    <3>3. f \in BOOLEAN
      BY <1>3, <3>1, <3>2 DEF Readers
    <3>4. rd' = [nx EXCEPT !.pc = "test", !.flag = f]
      BY <2>3, <3>2
    <3>5. rd' \in Readers /\ rd'.pc = "test"
      BY <1>3, <3>3, <3>4 DEF Readers
    <3>6. alarm' \in BOOLEAN
      BY <1>1, <2>3, <3>1
    <3> QED
      BY <2>3, <3>5, <3>6
  <2> QED
    BY <1>2, <2>1, <2>2, <2>3
<1> QED
  BY <1>1, <1>4, ReaderFrame

-----------------------------------------------------------------------------
(* A writer's step between two characters.                                   *)
LEMMA WriterFrame ==
  ASSUME TInv, wr' \in Writers, cpu' \in {"none", "reader", "writer"},
         UNCHANGED <<tty, tio, setting, off, rd, cr_flag, alarm, due, before>>, wr.pc # "put", wr'.pc # "put",
         tty.fault = "none" => Started(tty)'
  PROVE  TInv'
<1>1. TtyLocals'
  BY DEF TInv, TtyLocals
<1>2. Line(tty)' = Line(tty)
  BY DEF Line, LineOf
<1>3. Sent(tty)'
  BY <1>2 DEF TInv, Sent
<1> QED
  BY <1>1, <1>3 DEF TInv, Counted, Slept

LEMMA WriteEndIs ==
  ASSUME wr \in Writers, WriteEnd
  PROVE  wr' \in Writers /\ wr'.pc = "idle" /\ cpu' = "none"
<1>1. PICK x : x = [wr EXCEPT !.pc = "idle"]
  OBVIOUS
<1>2. x \in Writers /\ x.pc = "idle"
  BY <1>1 DEF Writers
<1>3. PICK y : y = [x EXCEPT !.nr = 0]
  OBVIOUS
<1>4. y \in Writers /\ y.pc = "idle"
  BY <1>2, <1>3 DEF Writers
<1>5. wr' = [y EXCEPT !.half = FALSE]
  BY <1>1, <1>3 DEF WriteEnd
<1> QED
  BY <1>4, <1>5 DEF Writers, WriteEnd

LEMMA WriterMoves ==
  ASSUME TInv, \/ \E n \in WriteCounts : Write(n)
               \/ WriteFull \/ WriteSleep \/ WriteWakes \/ WriteResumes
  PROVE  TInv'
<1>1. /\ tty \in TtyQueues /\ wr \in Writers /\ tty.fault = "none" /\ Started(tty)
      /\ tty.write_q \in Seq(Chars) /\ Len(tty.write_q) \in Nat
      /\ UNCHANGED <<tty, tio, setting, off, rd, cr_flag, alarm, due, before>>
  <2>1. tty.fault = "none"
    BY DEF Write, WriteFull, WriteSleep, WriteWakes, WriteResumes, Runs, Nobody
  <2>2. UNCHANGED <<tty, tio, setting, off, rd, cr_flag, alarm, due, before>>
    BY DEF Write, WriteFull, WriteSleep, WriteWakes, WriteResumes
  <2> QED
    BY <2>1, <2>2 DEF TInv, Sent, TtyLocals, TtyQueues
<1>2. wr.pc \notin {"put", "loop", "fetch"} /\ (tty.write_q # <<>> => tty.ier)
  BY <1>1 DEF Write, WriteFull, WriteSleep, WriteWakes, WriteResumes, Started
<1>3. CASE \E n \in WriteCounts : Write(n)
  <2>1. PICK n \in WriteCounts : wr' = [wr EXCEPT !.pc = "full", !.nr = n] /\ cpu' = "writer"
    BY <1>3 DEF Write
  <2>2. wr' \in Writers /\ wr'.pc = "full"
    <3>1. PICK x : x = [wr EXCEPT !.pc = "full"]
      OBVIOUS
    <3>2. x \in Writers /\ x.pc = "full"
      BY <1>1, <3>1 DEF Writers
    <3>3. wr' = [x EXCEPT !.nr = n] /\ n \in Int
      BY <2>1, <3>1, TtyAssumption
    <3> QED
      BY <3>2, <3>3 DEF Writers
  <2> QED
    BY <1>1, <1>2, <2>1, <2>2, WriterFrame DEF Started
<1>4. CASE WriteEnd
  <2>1. wr' \in Writers /\ wr'.pc = "idle" /\ cpu' = "none"
    BY <1>1, <1>4, WriteEndIs
  <2> QED
    BY <1>1, <1>2, <2>1, WriterFrame DEF Started
<1>5. CASE wr' = [wr EXCEPT !.pc = "loop"] /\ UNCHANGED cpu /\ cpu = "writer"
  <2>1. wr' \in Writers /\ wr'.pc = "loop" /\ cpu' = "writer"
    BY <1>1, <1>5 DEF Writers
  <2> QED
    BY <1>1, <1>2, <2>1, WriterFrame DEF Started
<1>6. CASE wr' = [wr EXCEPT !.pc = "asleep"] /\ cpu' = "none" /\ Left(tty.write_q) < ROOM
  <2>1. wr' \in Writers /\ wr'.pc = "asleep"
    BY <1>1, <1>6 DEF Writers
  <2>2. tty.write_q # <<>>
    BY <1>1, <1>6, TtyAssumption DEF Left
  <2> QED
    BY <1>1, <1>2, <1>6, <2>1, <2>2, WriterFrame DEF Started
<1>7. ASSUME NEW p \in {"sleep", "full"}, wr' = [wr EXCEPT !.pc = p], cpu' = "writer"
      PROVE  TInv'
  <2>1. wr' \in Writers /\ wr'.pc = p
    BY <1>1, <1>7 DEF Writers
  <2> QED
    BY <1>1, <1>2, <1>7, <2>1, WriterFrame DEF Started
<1>8. CASE WriteFull \/ WriteSleep
  BY <1>4, <1>5, <1>6, <1>7, <1>8 DEF WriteFull, WriteSleep, Checked, Runs
<1>9. CASE WriteWakes \/ WriteResumes
  BY <1>7, <1>9 DEF WriteWakes, WriteResumes
<1> QED
  BY <1>3, <1>8, <1>9

(* The fetch of a character may sleep, ...                                   *)
LEMMA WriteFetchKeeps ==
  ASSUME TInv, WriteFetch
  PROVE  TInv'
<1>1. /\ wr \in Writers /\ tty.fault = "none" /\ Started(tty) /\ wr.pc = "loop"
      /\ cpu' \in {"writer", "none"} /\ wr' = [wr EXCEPT !.pc = "fetch"]
      /\ UNCHANGED <<tty, tio, setting, off, rd, cr_flag, alarm, due, before>>
  BY DEF TInv, Sent, TtyLocals, WriteFetch, Runs
<1>2. wr' \in Writers /\ wr'.pc = "fetch"
  BY <1>1 DEF Writers
<1> QED
  BY <1>1, <1>2, WriterFrame DEF Started

(* ... and then it, or the return before it, is stored, ...                  *)
LEMMA WritePutKeeps ==
  ASSUME TInv, WritePut
  PROVE  TInv'
<1>1. /\ tty \in TtyQueues /\ TtyLocals /\ wr \in Writers /\ tty.fault = "none"
      /\ Order(before, Line(tty), due, cr_flag) /\ due \in Seq(Chars) /\ wr.pc = "fetch"
      /\ tty.write_q \in Seq(Chars) /\ wr.nr \in Int
      /\ UNCHANGED <<tio, setting, off, rd, alarm, before>>
  BY DEF TInv, Sent, TtyLocals, TtyQueues, Writers, WritePut, Runs, Nobody
<1>2. Line(tty) = tty.write_q
  BY <1>1, LineIs DEF Line
<1>7. CASE tty' = [tty EXCEPT !.fault = "put without room"] /\ UNCHANGED <<cpu, wr, cr_flag, due>>
  <2>1. tty' \in TtyQueues /\ tty'.fault # "none"
    BY <1>1, <1>7 DEF TtyQueues, Faults
  <2>2. TtyLocals'
    BY <1>1, <1>7 DEF TtyLocals
  <2> QED
    BY <2>1, <2>2 DEF TInv, Sent, Counted, Slept
<1>3. ASSUME NEW c \in Chars, wr' \in Writers, wr'.pc = "put", wr'.ch = c, cr_flag' \in BOOLEAN,
             due' \in Seq(Chars), Order(before, Append(tty.write_q, c), due', cr_flag'),
             cpu' = "writer", UNCHANGED tty
      PROVE  TInv'
  <2>1. TtyLocals'
    BY <1>1, <1>3 DEF TtyLocals
  <2>2. Line(tty)' = Append(tty.write_q, c)
    BY <1>1, <1>3, LineIs DEF Line
  <2>3. Started(tty)'
    BY <1>1, <1>3 DEF Started
  <2>4. Sent(tty)'
    BY <1>1, <1>3, <2>2, <2>3 DEF Sent
  <2> QED
    BY <1>1, <1>3, <2>1, <2>4 DEF TInv, Counted, Slept
<1>4. ASSUME NEW c \in {"x", "nl", "ret"}, Puts(c), cpu' = "writer", UNCHANGED tty
      PROVE  TInv'
  <2>5. CASE c = "nl" /\ "ONLCR" \in OFlags /\ ~cr_flag
    <3>1. wr' \in Writers /\ wr'.pc = "put" /\ wr'.ch = "cr" /\ "cr" \in Chars
      BY <1>1, <1>4, <2>5 DEF Writers, Chars, Puts
    <3>2. cr_flag' \in BOOLEAN /\ due' = due
      BY <1>4, <2>5 DEF Puts
    <3>3. Order(before, Append(tty.write_q, "cr"), due', cr_flag')
      BY <1>1, <1>2, <3>2, OrderReturn
    <3> QED
      BY <1>1, <1>3, <1>4, <3>1, <3>2, <3>3
  <2>6. CASE ~(c = "nl" /\ "ONLCR" \in OFlags /\ ~cr_flag)
    <3>1. wr' \in Writers /\ wr'.pc = "put" /\ wr'.ch = c /\ c \in Chars
      <4>1. PICK x : x = [wr EXCEPT !.pc = "put"]
        OBVIOUS
      <4>2. x \in Writers /\ x.pc = "put" /\ c \in Chars
        BY <1>1, <4>1 DEF Writers, Chars
      <4>3. PICK y : y = [x EXCEPT !.ch = c]
        OBVIOUS
      <4>4. y \in Writers /\ y.pc = "put" /\ y.ch = c
        BY <4>2, <4>3 DEF Writers
      <4>5. PICK z : z = [y EXCEPT !.nr = wr.nr - 1]
        OBVIOUS
      <4>6. z \in Writers /\ z.pc = "put" /\ z.ch = c
        BY <1>1, <4>4, <4>5 DEF Writers
      <4>7. wr' = [z EXCEPT !.half = FALSE]
        BY <1>4, <2>6, <4>1, <4>3, <4>5 DEF Puts
      <4> QED
        BY <4>2, <4>6, <4>7 DEF Writers
    <3>2. cr_flag' = FALSE /\ due' = Append(due, c)
      BY <1>4, <2>6 DEF Puts
    <3>3. due' \in Seq(Chars)
      BY <1>1, <3>1, <3>2
    <3>4. Order(before, Append(tty.write_q, c), Append(due, c), FALSE)
      BY <1>1, <1>2, <2>6, OrderGiven
    <3> QED
      BY <1>3, <1>4, <3>1, <3>2, <3>3, <3>4
  <2> QED
    BY <2>5, <2>6
<1>5. CASE /\ \E c \in IF wr.half THEN {"nl"} ELSE {Post(w) : w \in Written} : Puts(c)
           /\ cpu' = "writer" /\ UNCHANGED tty
  <2>1. PICK c \in IF wr.half THEN {"nl"} ELSE {Post(w) : w \in Written} : Puts(c)
    BY <1>5
  <2>2. \A w \in Written : Post(w) \in {"x", "nl", "ret"}
    BY TtyAssumption DEF Post
  <2>3. c \in {"x", "nl", "ret"}
    BY <2>1, <2>2
  <2> QED
    BY <1>4, <1>5, <2>1, <2>3
<1> QED
  BY <1>5, <1>7 DEF WritePut

(* ... and the head is moved behind it, which changes nothing to send.       *)
LEMMA WriteIncKeeps ==
  ASSUME TInv, WriteInc
  PROVE  TInv'
<1>1. /\ tty \in TtyQueues /\ TtyLocals /\ wr \in Writers /\ tty.fault = "none"
      /\ Order(before, Line(tty), due, cr_flag) /\ wr.pc = "put" /\ cpu = "writer" /\ wr.ch \in Chars
      /\ tty.write_q \in Seq(Chars) /\ UNCHANGED <<tio, setting, off, cpu, rd, alarm, cr_flag, due, before>>
  BY DEF TInv, Sent, TtyLocals, TtyQueues, Writers, WriteInc, Runs
<1>2. PICK z : z = Append(tty.write_q, wr.ch)
  OBVIOUS
<1>3. z \in Seq(Chars)
  BY <1>1, <1>2
<1>4. /\ tty' \in TtyQueues /\ tty'.write_q = z /\ tty'.fault = "none"
      /\ tty'.data = tty.data /\ tty'.secondary = tty.secondary
  BY <1>1, <1>2, <1>3 DEF WriteInc, TtyQueues
<1>5. wr' \in Writers /\ wr'.pc = "loop"
  BY <1>1 DEF WriteInc, Writers, Chars
<1>6. Line(tty)' = z /\ Line(tty) = z
  BY <1>1, <1>2, <1>3, <1>4, <1>5, LineIs DEF Line
<1>7. Started(tty)' /\ Sent(tty)'
  BY <1>1, <1>4, <1>5, <1>6 DEF Sent, Started
<1>8. TtyLocals'
  BY <1>1, <1>5 DEF TtyLocals
<1> QED
  BY <1>1, <1>4, <1>7, <1>8 DEF TInv, Counted, Slept

LEMMA WriteGoKeeps ==
  ASSUME TInv, WriteGo
  PROVE  TInv'
<1>1. /\ tty \in TtyQueues /\ TtyLocals /\ wr \in Writers /\ tty.fault = "none"
      /\ Order(before, Line(tty), due, cr_flag) /\ wr.pc = "loop" /\ cpu = "writer"
      /\ tty.write_q \in Seq(Chars) /\ UNCHANGED <<tio, setting, off, rd, alarm, cr_flag, due, before>>
  BY DEF TInv, Sent, TtyLocals, TtyQueues, Writers, WriteGo, Runs
<1>2. /\ tty' \in TtyQueues /\ tty'.write_q = tty.write_q /\ tty'.fault = "none"
      /\ (tty.write_q # <<>> => tty'.ier)
      /\ tty'.data = tty.data /\ tty'.secondary = tty.secondary
  BY <1>1 DEF WriteGo, rs_write, TtyQueues
<1>3. wr' \in Writers /\ wr'.pc \in {"idle", "sched"} /\ cpu' = "none"
  BY <1>1 DEF WriteGo, WriteEnd, Writers
<1>4. Line(tty)' = Line(tty)
  BY <1>1, <1>2, <1>3 DEF Line, LineOf
<1>5. Started(tty)' /\ Sent(tty)'
  BY <1>1, <1>2, <1>3, <1>4 DEF Sent, Started
<1>6. TtyLocals'
  BY <1>1, <1>3 DEF TtyLocals
<1> QED
  BY <1>1, <1>2, <1>5, <1>6 DEF TInv, Counted, Slept

(* New settings: the count is off by what they make of the lines there.      *)
LEMMA SetsKeeps ==
  ASSUME TInv, NEW m \in Termios, Sets(m)
  PROVE  /\ tio' \in Termios /\ off' \in Int
         /\ tty.fault = "none" => tty.data = Lines(Ends(tio'), tty.secondary) + off'
<1>1. tty.secondary \in Seq(Chars) /\ off \in Int /\ tio' = m
  BY DEF TInv, Sent, TtyQueues, TtyLocals, Sets
<1>2. PICK a, d : a = Lines(Ends(tio), tty.secondary) /\ d = Lines(Ends(m), tty.secondary)
  OBVIOUS
<1>3. a \in Nat /\ d \in Nat
  BY <1>1, <1>2, LinesFinite
<1>4. off' = off + a - d
  BY <1>2 DEF Sets
<1>5. tty.fault = "none" => tty.data = a + off
  BY <1>2 DEF TInv, Counted
<1> QED
  BY <1>1, <1>2, <1>3, <1>4, <1>5

(* Settings put together from two.                                          *)
LEMMA Mixed ==
  ASSUME NEW a \in Termios, NEW d \in Termios
  PROVE  [a EXCEPT !.vtime = d.vtime, !.vmin = d.vmin, !.veof = d.veof,
                   !.verase = d.verase, !.vkill = d.vkill, !.vintr = d.vintr] \in Termios
<1>1. /\ d.vtime \in BOOLEAN /\ d.vmin \in Nat /\ d.veof \in Keys \cup {"none"}
      /\ d.verase \in Keys \cup {"none"} /\ d.vkill \in Keys \cup {"none"}
      /\ d.vintr \in Keys \cup {"none"}
  BY DEF Termios
<1> DEFINE x1 == [a EXCEPT !.vtime = d.vtime]
           x2 == [x1 EXCEPT !.vmin = d.vmin]
           x3 == [x2 EXCEPT !.veof = d.veof]
           x4 == [x3 EXCEPT !.verase = d.verase]
           x5 == [x4 EXCEPT !.vkill = d.vkill]
           x6 == [x5 EXCEPT !.vintr = d.vintr]
<1>2. x6 = [a EXCEPT !.vtime = d.vtime, !.vmin = d.vmin, !.veof = d.veof,
                     !.verase = d.verase, !.vkill = d.vkill, !.vintr = d.vintr]
  OBVIOUS
<1>3. x1 \in Termios
  BY <1>1 DEF Termios
<1> HIDE DEF x1
<1>4. x2 \in Termios
  BY <1>1, <1>3 DEF Termios
<1> HIDE DEF x2
<1>5. x3 \in Termios
  BY <1>1, <1>4 DEF Termios
<1> HIDE DEF x3
<1>6. x4 \in Termios
  BY <1>1, <1>5 DEF Termios
<1> HIDE DEF x4
<1>7. x5 \in Termios
  BY <1>1, <1>6 DEF Termios
<1> HIDE DEF x5
<1>8. x6 \in Termios
  BY <1>1, <1>7 DEF Termios
<1> HIDE DEF x6
<1> QED
  BY <1>2, <1>8

(* Both copies of set_termios.                                              *)
LEMMA SettingsKeep ==
  ASSUME TInv, NEW m \in Modes, set_termios(m)
  PROVE  /\ tio' \in Termios /\ off' \in Int /\ setting' \subseteq Modes
         /\ tty.fault = "none" => tty.data = Lines(Ends(tio'), tty.secondary) + off'
<1>1. m \in Termios /\ tio \in Termios /\ setting \subseteq Modes
  BY TtyAssumption DEF TInv, TtyLocals
<1>2. PICK x : x = [m EXCEPT !.vtime = tio.vtime, !.vmin = tio.vmin, !.veof = tio.veof,
                             !.verase = tio.verase, !.vkill = tio.vkill, !.vintr = tio.vintr]
  OBVIOUS
<1>3. x \in Termios
  BY <1>1, <1>2, Mixed
<1>4. \/ Sets(m) /\ UNCHANGED setting
      \/ Sets(x) /\ setting' = setting \cup {m}
  BY <1>2 DEF set_termios
<1>5. setting' \subseteq Modes
  BY <1>1, <1>4
<1> QED
  BY <1>1, <1>3, <1>4, <1>5, SetsKeeps

(* tty_ioctl may flush write_q, with all that is due: no PUTCH is under way.  *)
LEMMA IoctlKeeps ==
  ASSUME TInv, tty_ioctl
  PROVE  TInv'
<1>1. /\ tty \in TtyQueues /\ TtyLocals /\ tty.fault = "none" /\ wr.pc # "put" /\ wr \in Writers
      /\ Order(before, Line(tty), due, cr_flag) /\ Started(tty) /\ due \in Seq(Chars)
      /\ tty.write_q \in Seq(Chars) /\ UNCHANGED <<cpu, rd, wr, alarm, cr_flag>>
  BY DEF TInv, Sent, TtyLocals, TtyQueues, tty_ioctl, Nobody
<1>2. /\ tio' \in Termios /\ off' \in Int /\ setting' \subseteq Modes
      /\ tty.data = Lines(Ends(tio'), tty.secondary) + off'
  <2>1. CASE UNCHANGED <<tio, setting, off>>
    BY <1>1, <2>1 DEF TInv, Counted, TtyLocals
  <2>2. CASE \E m \in Modes : set_termios(m)
    BY <1>1, <2>2, SettingsKeep
  <2> QED
    BY <2>1, <2>2 DEF tty_ioctl
<1>3. UNCHANGED <<tty, due, before>> \/ \E S : Flush(S)
  BY DEF tty_ioctl
<1>4. CASE UNCHANGED <<tty, due, before>>
  BY <1>1, <1>2, <1>4 DEF TInv, Sent, Counted, Slept, TtyLocals, Line, Started
<1>5. ASSUME NEW S, Flush(S) PROVE TInv'
  <2>1. PICK x, z : /\ x = IF "in" \in S THEN <<>> ELSE tty.read_q
                    /\ z = IF "out" \in S THEN <<>> ELSE tty.write_q
    OBVIOUS
  <2>2. x \in Seq(Chars) /\ z \in Seq(Chars)
    BY <1>1, <2>1 DEF TtyQueues
  <2>3. tty' = [tty EXCEPT !.read_q = x, !.write_q = z]
    BY <1>5, <2>1 DEF Flush
  <2>4. /\ tty' \in TtyQueues /\ tty'.write_q = z /\ tty'.fault = "none" /\ tty'.ier = tty.ier
        /\ tty'.data = tty.data /\ tty'.secondary = tty.secondary
    BY <1>1, <2>2, <2>3 DEF TtyQueues
  <2>5. Line(tty)' = z /\ Line(tty) = tty.write_q
    BY <1>1, <2>2, <2>4, LineIs DEF Line
  <2>6. due' \in Seq(Chars) /\ Order(before', z, due', cr_flag)
    <3>1. CASE "out" \in S
      <4>1. due' = <<>> /\ z = <<>>
        BY <1>5, <2>1, <3>1 DEF Flush
      <4>2. ASSUME "ONLCR" \in OFlags, cr_flag PROVE before' \in {"cr", "flushed"}
        <5>1. CASE {i \in DOMAIN tty.write_q : tty.write_q[i] # "echo"} = {}
          <6>1. before' = before
            BY <1>5, <5>1 DEF Flush
          <6>2. AfterReturn(before, tty.write_q, Len(tty.write_q))
            BY <1>1, <2>5, <4>2 DEF Order
          <6>3. PICK p \in 0..Len(tty.write_q) :
                  IF p = 0 THEN before \in {"cr", "flushed"} ELSE tty.write_q[p] = "cr"
            BY <6>2 DEF AfterReturn
          <6>4. p = 0
            BY <1>1, <5>1, <6>3
          <6> QED
            BY <6>1, <6>3, <6>4
        <5>2. CASE {i \in DOMAIN tty.write_q : tty.write_q[i] # "echo"} # {}
          BY <1>5, <3>1, <4>2, <5>2 DEF Flush
        <5> QED
          BY <5>1, <5>2
      <4> QED
        BY <4>1, <4>2, OrderEmpty
    <3>2. CASE "out" \notin S
      <4>1. due' = due /\ before' = before /\ z = tty.write_q
        BY <1>5, <2>1, <3>2 DEF Flush
      <4> QED
        BY <1>1, <2>5, <4>1
    <3> QED
      BY <3>1, <3>2
  <2>7. Started(tty)'
    BY <1>1, <2>1, <2>4 DEF Started
  <2>8. Sent(tty)'
    BY <1>1, <2>4, <2>5, <2>6, <2>7 DEF Sent
  <2>9. TtyLocals'
    <3>1. before' \in {"cr", "flushed", "none"}
      BY <1>1, <1>5 DEF Flush, TtyLocals
    <3> QED
      BY <1>1, <1>2, <2>6, <3>1 DEF TtyLocals
  <2> QED
    BY <1>1, <1>2, <2>4, <2>8, <2>9 DEF TInv, Counted, Slept
<1> QED
  BY <1>3, <1>4, <1>5

(* The second half of set_termios.                                          *)
LEMMA CharactersKeep ==
  ASSUME TInv, set_c_cc
  PROVE  TInv'
<1>1. /\ TtyLocals /\ tio \in Termios /\ setting \subseteq Modes /\ tty.fault = "none"
      /\ UNCHANGED <<tty, cpu, rd, wr, cr_flag, alarm, due, before>>
  BY DEF TInv, TtyLocals, set_c_cc, Nobody
<1>2. PICK m \in setting :
        /\ Sets([tio EXCEPT !.vtime = m.vtime, !.vmin = m.vmin, !.veof = m.veof,
                            !.verase = m.verase, !.vkill = m.vkill, !.vintr = m.vintr])
        /\ setting' = setting \ {m}
  BY DEF set_c_cc
<1>3. PICK x : x = [tio EXCEPT !.vtime = m.vtime, !.vmin = m.vmin, !.veof = m.veof,
                               !.verase = m.verase, !.vkill = m.vkill, !.vintr = m.vintr]
  OBVIOUS
<1>4. x \in Termios
  BY <1>1, <1>3, Mixed, TtyAssumption
<1>5. Sets(x)
  BY <1>2, <1>3
<1>6. /\ tio' \in Termios /\ off' \in Int
      /\ tty.data = Lines(Ends(tio'), tty.secondary) + off'
  BY <1>1, <1>4, <1>5, SetsKeeps
<1>7. setting' \subseteq Modes
  BY <1>1, <1>2
<1>8. TtyLocals'
  BY <1>1, <1>6, <1>7 DEF TtyLocals
<1>9. Sent(tty)' /\ Counted(tty)' /\ Slept'
  BY <1>1, <1>6 DEF TInv, Sent, Counted, Slept, Line, Started
<1> QED
  BY <1>8, <1>9 DEF TInv

(* One step of the terminal.                                                 *)
LEMMA TtyStep == TInv /\ [TtyNext]_tvars => TInv'
<1> SUFFICES ASSUME TInv, [TtyNext]_tvars PROVE TInv'
  OBVIOUS
<1>1. CASE UNCHANGED tvars
  BY <1>1 DEF tvars, TInv, Sent, Counted, Slept, TtyLocals, Line, Started
<1>2. CASE TtyNext
  BY <1>2, ReadCharKeeps, WriteCharKeeps, SignalKeeps, ReadKeeps, ReadTestKeeps, ReadSleepKeeps,
     ReadGetKeeps, ReadStoreKeeps, WriterMoves, WriteFetchKeeps, WritePutKeeps, WriteIncKeeps,
     WriteGoKeeps, IoctlKeeps, CharactersKeep
     DEF TtyNext, Reader, Writer
<1> QED
  BY <1>1, <1>2

(* The inductive invariant of the terminal: the types, what is to be sent in  *)
(* the order it was given, with the return before each new line and the one   *)
(* that tty_write's cr_flag stands for; the interrupt that sends it on; the    *)
(* count of lines; and a reader that sleeps on an empty queue only.           *)
THEOREM TtyInv == TtySpec => []TInv
<1>1. TtyInit => TInv
  BY TtyInitInv
<1>2. TInv /\ [TtyNext]_tvars => TInv'
  BY TtyStep
<1> QED
  BY <1>1, <1>2, PTL DEF TtySpec

(* However characters are received, erased, killed and read, secondary.data   *)
(* is the number of lines in the queue (tty_io.c:149), up to the lines that    *)
(* new settings of VEOF made or unmade of what was there.                     *)
THEOREM TtyLinesCounted == TtySpec => []LinesCounted
<1>1. TInv => LinesCounted
  BY DEF TInv, Counted, LinesCounted
<1> QED
  BY <1>1, TtyInv, PTL

(* What tty_write was given is sent once, in order, and each new line right   *)
(* after its return (tty_io.c:302), unless the return has been flushed.       *)
THEOREM TtySentInOrder == TtySpec => []SentInOrder
<1>1. Line(tty) = Sending
  BY DEF Line, LineOf, Sending
<1>2. TInv => SentInOrder
  BY <1>1 DEF TInv, Sent, Order, SentInOrder
<1> QED
  BY <1>2, TtyInv, PTL

(* What is queued is being sent, a writer is not left asleep with the         *)
(* interrupt off, and a reader not with something to read.                   *)
THEOREM TtySleepersWoken == TtySpec => []SleepersWoken
<1>1. TInv => SleepersWoken
  BY DEF TInv, Sent, Started, Slept, SleepersWoken
<1> QED
  BY <1>1, TtyInv, PTL
=============================================================================
