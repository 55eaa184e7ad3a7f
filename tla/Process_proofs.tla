--------------------------- MODULE Process_proofs ---------------------------
(***************************************************************************)
(* Proofs about fork, exit and waitpid, for any size of the task table and  *)
(* any number of pids above it; and about the references that the calls on   *)
(* the name space hold, for any number of tasks, names, inodes and blocks.   *)
(***************************************************************************)
EXTENDS Process, Namei, SetLemmas

PTypes ==
  /\ task \in [Slots -> Struct \cup {NULL}]
  /\ pc \in [Slots -> {"user", "wait", "exit", "zombie"}]
  /\ arg \in [Slots -> Int]
  /\ last_pid \in 1..MAX_PID

(* No two tasks have the same pid: what find_empty_process is for.           *)
UniquePids == \A s, u \in Slots : Live(s) /\ Live(u) /\ task[s].pid = task[u].pid => s = u

(* "task[1] is always init", a child of task 0, while init lives.            *)
InitHere == InitLives =>
  Live(1) /\ task[1].pid = 1 /\ task[1].father = 0 /\ pc[1] \in {"user", "wait"}

(* The inductive invariant.                                                  *)
PInv == PTypes /\ UniquePids /\ InitHere /\ FatherWaits /\ WaiterTold

(* There are more pids than tasks, so find_empty_process ends, and with a    *)
(* pid no task has.                                                          *)
LEMMA FreePid ==
  ASSUME PTypes
  PROVE  find_pid \in 1..MAX_PID /\ ~InUse(find_pid)
<1>1. \E p \in 1..MAX_PID : ~InUse(p)
  <2>1. SUFFICES ASSUME \A p \in 1..MAX_PID : InUse(p) PROVE FALSE
    OBVIOUS
  <2> DEFINE f == [p \in 1..MAX_PID |-> CHOOSE s \in Slots : Live(s) /\ task[s].pid = p]
  <2>2. \A p \in 1..MAX_PID : f[p] \in Slots /\ task[f[p]].pid = p
    BY <2>1 DEF InUse
  <2>3. f \in [1..MAX_PID -> Slots]
    BY <2>2
  <2> HIDE DEF f
  <2>4. \A p, q \in 1..MAX_PID : f[p] = f[q] => p = q
    BY <2>2
  <2> DEFINE m == NR_TASKS - 1
  <2>0. MAX_PID \in Int /\ MAX_PID >= 1 /\ m \in Int /\ m >= 1 /\ m < MAX_PID
    BY ProcessAssumption
  <2>9. Slots = 1..m
    BY DEF Slots
  <2> HIDE DEF m
  <2>5. IsFiniteSet(1..MAX_PID) /\ Cardinality(1..MAX_PID) = MAX_PID
    BY <2>0, FS_Interval
  <2>6. IsFiniteSet(1..m) /\ Cardinality(1..m) = m
    BY <2>0, FS_Interval
  <2>7. Cardinality(Slots) < Cardinality(1..MAX_PID) /\ IsFiniteSet(Slots)
    BY <2>0, <2>5, <2>6, <2>9
  <2> DEFINE P == 1..MAX_PID
  <2>8. \E x, y \in P : x # y /\ f[x] = f[y]
    <3> HIDE DEF P
    <3> QED
      BY <2>3, <2>5, <2>7, FS_PigeonHole, Zenon DEF P
  <2> QED
    BY <2>4, <2>8
<1> DEFINE T == {Steps(p) : p \in {q \in 1..MAX_PID : ~InUse(q)}}
<1>2. \A p \in 1..MAX_PID : Steps(p) \in Nat
  BY ProcessAssumption DEF Steps, PTypes
<1>3. T \in SUBSET Nat /\ T # {}
  BY <1>1, <1>2
<1>4. PICK n \in T : \A y \in T : n <= y
  BY <1>3, LeastNat
<1>5. PICK p \in 1..MAX_PID : ~InUse(p) /\ Steps(p) = n
  BY <1>4
<1>6. \E r \in 1..MAX_PID : ~InUse(r) /\ \A q \in 1..MAX_PID : ~InUse(q) => Steps(r) <= Steps(q)
  BY <1>4, <1>5
<1> QED
  BY <1>6 DEF find_pid

(* Records are not NULL.                                                     *)
LEMMA StructLives == \A r \in Struct : r # NULL
  BY ProcessAssumption

(* What setting a field of a task does.                                      *)
LEMMA SetFields ==
  ASSUME NEW r \in Struct
  PROVE  /\ \A S \in SUBSET Signals : LET q == [r EXCEPT !.signal = S]
                                  IN  /\ q \in Struct /\ q.pid = r.pid /\ q.father = r.father /\ q.pgrp = r.pgrp
                                      /\ q.signal = S
         /\ LET q == [r EXCEPT !.father = 1]
            IN  q \in Struct /\ q.pid = r.pid /\ q.father = 1 /\ q.signal = r.signal
<1>1. 1 \in 0..MAX_PID
  BY ProcessAssumption
<1> QED
  BY <1>1 DEF Struct

(* Sending a signal only adds it.                                            *)
LEMMA SignalledKeeps ==
  ASSUME NEW t \in [Slots -> Struct \cup {NULL}], NEW S, NEW sig \in Signals
  PROVE  LET u == Signalled(t, S, sig)
         IN  /\ u \in [Slots -> Struct \cup {NULL}]
             /\ \A c \in Slots : IF t[c] = NULL THEN u[c] = NULL ELSE
                  /\ u[c] \in Struct /\ u[c].pid = t[c].pid /\ u[c].father = t[c].father
                  /\ t[c].signal \subseteq u[c].signal
                  /\ c \in S => sig \in u[c].signal
<1> DEFINE u == Signalled(t, S, sig)
<1>1. ASSUME NEW c \in Slots
      PROVE  /\ u[c] \in Struct \cup {NULL}
             /\ IF t[c] = NULL THEN u[c] = NULL ELSE
                  /\ u[c] \in Struct /\ u[c].pid = t[c].pid /\ u[c].father = t[c].father
                  /\ t[c].signal \subseteq u[c].signal
                  /\ c \in S => sig \in u[c].signal
  <2>1. CASE t[c] # NULL /\ c \in S
    <3>1. t[c] \in Struct /\ t[c].signal \cup {sig} \in SUBSET Signals
      BY <2>1 DEF Struct
    <3>2. u[c] = [t[c] EXCEPT !.signal = t[c].signal \cup {sig}]
      BY <2>1 DEF Signalled
    <3>3. LET q == [t[c] EXCEPT !.signal = t[c].signal \cup {sig}]
          IN  /\ q \in Struct /\ q.pid = t[c].pid /\ q.father = t[c].father
              /\ q.signal = t[c].signal \cup {sig}
      BY <3>1, SetFields
    <3> QED
      BY <2>1, <3>2, <3>3
  <2>2. CASE ~(t[c] # NULL /\ c \in S)
    BY <2>2 DEF Signalled
  <2> QED
    BY <2>1, <2>2
<1>2. u = [c \in Slots |-> u[c]]
  BY DEF Signalled
<1> HIDE DEF u
<1>3. u \in [Slots -> Struct \cup {NULL}]
  BY <1>1, <1>2
<1> QED
  BY <1>1, <1>3 DEF u

-----------------------------------------------------------------------------
(* Every task there is after the step was there before it, the same one ...  *)
Same == \A c \in Slots : task'[c] # NULL => task[c] # NULL /\ task'[c].pid = task[c].pid

(* ... and still has its father.                                             *)
Lineage == \A c \in Slots : task'[c] # NULL => task'[c].father = task[c].father

(* Init has not gone with the step.                                          *)
InitStays == InitLives' => InitLives /\ pc'[1] \in {"user", "wait"}

(* The first slot is one of the table.                                       *)
LEMMA SlotOne == 1 \in Slots /\ Slots \in SUBSET Nat /\ \A s \in Slots : s <= NR_TASKS - 1
  BY ProcessAssumption DEF Slots

(* A step that adds no task makes no pid occur twice, ...                    *)
LEMMA SameUnique ==
  ASSUME UniquePids, Same
  PROVE  UniquePids'
  BY DEF UniquePids, Same, Live

(* ... leaves init in its slot if it does not touch it, ...                  *)
LEMMA InitKept ==
  ASSUME PInv, Same, InitStays, InitLives' => task'[1] # NULL /\ task'[1].father = task[1].father
  PROVE  InitHere'
  BY SlotOne DEF PInv, InitHere, Same, InitStays, Live

(* ... and leaves everyone a father if the tasks that can wait stay.         *)
LEMMA FathersKept ==
  ASSUME PInv, Same, Lineage, InitStays,
         InitLives' => \A f \in Slots : Live(f) /\ pc[f] \in {"user", "wait"} =>
                         task'[f] # NULL /\ pc'[f] \in {"user", "wait"}
  PROVE  FatherWaits'
<1> SUFFICES ASSUME InitLives', NEW s \in Slots \ {1}, task'[s] # NULL
             PROVE  \E f \in Slots \ {s} : /\ task'[f] # NULL /\ task'[f].pid = task'[s].father
                                            /\ pc'[f] \in {"user", "wait"}
  BY DEF FatherWaits, Live
<1>1. PICK f \in Slots \ {s} : Live(f) /\ task[f].pid = task[s].father /\ pc[f] \in {"user", "wait"}
  BY DEF PInv, FatherWaits, Same, Live, InitStays
<1> QED
  BY <1>1 DEF Same, Lineage

(* A waiter that waits on has no new zombie to be told of when no task ends  *)
(* and no zombie changes its father; one that begins to wait has none.       *)
LEMMA TellingKept ==
  ASSUME PInv, Same, Lineage, InitStays,
         \A c \in Slots : task'[c] # NULL /\ pc'[c] = "zombie" => pc[c] = "zombie",
         \A s \in Slots : task'[s] # NULL /\ pc'[s] = "wait" =>
           \/ pc[s] = "wait" /\ arg'[s] = arg[s] /\ task[s].signal \subseteq task'[s].signal
           \/ \A c \in Children(task', s, arg'[s]) : pc'[c] # "zombie"
  PROVE  WaiterTold'
<1> SUFFICES ASSUME InitLives', NEW s \in Slots, task'[s] # NULL, pc'[s] = "wait",
                    arg'[s] = -1 \/ arg'[s] > 0,
                    NEW c \in Children(task', s, arg'[s]), pc'[c] = "zombie"
             PROVE  SIGCHLD \in task'[s].signal
  BY DEF WaiterTold, At, Live
<1>1. pc[s] = "wait" /\ arg'[s] = arg[s] /\ task[s].signal \subseteq task'[s].signal
  OBVIOUS
<1>2. /\ c \in Slots \ {s} /\ task'[c] # NULL /\ task'[c].father = task'[s].pid
      /\ arg[s] = -1 \/ (arg[s] > 0 /\ task'[c].pid = arg[s])
  <2>1. arg[s] \in Int
    BY DEF PInv, PTypes
  <2> QED
    BY <1>1, <2>1 DEF Children
<1>3. c \in Children(task, s, arg[s]) /\ pc[c] = "zombie"
  BY <1>2 DEF Children, Same, Lineage
<1> QED
  BY <1>1, <1>3 DEF PInv, WaiterTold, InitStays, Same, At, Live

(* What the steps do to the life of a task: it stays as it is, ...            *)
Stay(c) ==
  /\ task'[c] # NULL <=> task[c] # NULL
  /\ task[c] # NULL => /\ task'[c].pid = task[c].pid
                       /\ \/ pc'[c] = pc[c]
                          \/ pc[c] \in {"user", "wait"} /\ pc'[c] \in {"user", "wait"}

(* ... and so does its father; ...                                           *)
Kept(c) == Stay(c) /\ (task[c] # NULL => task'[c].father = task[c].father)
Calm == \A c \in Slots : Kept(c)

(* ... s forks n, ...                                                        *)
Forked(s, n) ==
  /\ At(s, "user") /\ task[n] = NULL /\ n # s
  /\ task'[n] # NULL /\ task'[n].father = task[s].pid /\ pc'[n] = "user"
  /\ \A c \in Slots \ {n} : Kept(c)

(* ... ends and leaves its children to init, ...                             *)
Ended(s) ==
  /\ At(s, "user") /\ task'[s] # NULL /\ task'[s].pid = task[s].pid /\ pc'[s] = "exit"
  /\ \A c \in Slots \ {s} : Stay(c)
  /\ \A c \in Slots : task[c] # NULL =>
       task'[c].father = IF task[c].father = task[s].pid THEN 1 ELSE task[c].father

(* ... becomes a zombie, ...                                                 *)
Died(s) ==
  /\ At(s, "exit") /\ task'[s] # NULL /\ pc'[s] = "zombie"
  /\ task'[s].pid = task[s].pid /\ task'[s].father = task[s].father
  /\ \A c \in Slots \ {s} : Kept(c)

(* ... or releases its child d.                                              *)
Reaped(s, d) ==
  /\ task[s] # NULL /\ pc[s] \in {"user", "wait"}
  /\ At(d, "zombie") /\ task[d].father = task[s].pid /\ task'[d] = NULL
  /\ \A c \in Slots \ {d} : Kept(c)

(* The parts of a step that moves nobody: signals, masks, groups.            *)
Quiet ==
  /\ task' \in [Slots -> Struct \cup {NULL}] /\ pc' = pc /\ arg' = arg /\ last_pid' = last_pid
  /\ \A c \in Slots : IF task[c] = NULL THEN task'[c] = NULL ELSE
       /\ task'[c] \in Struct
       /\ task'[c].pid = task[c].pid /\ task'[c].father = task[c].father
       /\ pc[c] = "wait" => task[c].signal \subseteq task'[c].signal

(* Such a step keeps the invariant.                                          *)
LEMMA QuietKeeps ==
  ASSUME PInv, Quiet, InitStays
  PROVE  PInv' /\ Calm
<1>1. PTypes'
  BY DEF PInv, PTypes, Quiet
<1>2. Same /\ Lineage
  BY DEF Quiet, Same, Lineage
<1>3. \A c \in Slots : Live(c) => task'[c] # NULL
  BY StructLives DEF Quiet, Live
<1>4. UniquePids'
  BY <1>2, SameUnique DEF PInv
<1>5. InitHere'
  BY <1>2, <1>3, InitKept, SlotOne DEF PInv, InitHere, InitStays, Quiet, Live
<1>6. FatherWaits'
  BY <1>2, <1>3, FathersKept DEF Quiet
<1>7. WaiterTold'
  BY <1>2, TellingKept DEF Quiet
<1>8. Calm
  BY <1>2, <1>3 DEF Quiet, Calm, Kept, Stay, Live
<1> QED
  BY <1>1, <1>4, <1>5, <1>6, <1>7, <1>8 DEF PInv

(* A step that only changes other fields of one task is such a step.         *)
LEMMA ChangeOne ==
  ASSUME PInv, InitStays, NEW s \in Slots, Live(s), NEW r \in Struct,
         r.pid = task[s].pid, r.father = task[s].father,
         pc[s] # "wait" \/ task[s].signal \subseteq r.signal,
         task' = [task EXCEPT ![s] = r], pc' = pc, arg' = arg, last_pid' = last_pid
  PROVE  PInv' /\ Calm
<1>1. \A c \in Slots : task'[c] = IF c = s THEN r ELSE task[c]
  BY DEF PInv, PTypes
<1>2. \A c \in Slots : task[c] # NULL => task[c] \in Struct
  BY DEF PInv, PTypes
<1>3. task' \in [Slots -> Struct \cup {NULL}]
  BY DEF PInv, PTypes
<1>4. Quiet
  BY <1>1, <1>2, <1>3 DEF Quiet, Live
<1> QED
  BY <1>4, QuietKeeps

-----------------------------------------------------------------------------
(* kill adds signals, ...                                                    *)
LEMMA KillKeeps ==
  ASSUME PInv, InitStays, NEW s \in Slots, NEW pid \in PidArgs, NEW sig \in Signals,
         sys_kill(s, pid, sig)
  PROVE  PInv' /\ Calm
<1> DEFINE S == Targets(s, pid)
<1>1. task \in [Slots -> Struct \cup {NULL}]
  BY DEF PInv, PTypes
<1>2. task' = Signalled(task, S, sig) /\ pc' = pc /\ arg' = arg /\ last_pid' = last_pid
  BY DEF sys_kill
<1> HIDE DEF S
<1>3. Quiet
  BY <1>1, <1>2, SignalledKeeps DEF Quiet
<1> QED
  BY <1>3, QuietKeeps

(* ... and these calls set a field of the task that makes them, or its group. *)
LEMMA FieldCalls ==
  ASSUME PInv, InitStays, NEW s \in Slots,
         \/ sys_setsid(s)
         \/ \E n \in Signals, sa \in Actions : sys_sigaction(s, n, sa)
         \/ \E m \in Masks : sys_ssetmask(s, m)
         \/ \E pid \in 0..MAX_PID, pgid \in 0..MAX_GROUP : sys_setpgid(s, pid, pgid)
  PROVE  PInv' /\ Calm
<1>0. task \in [Slots -> Struct \cup {NULL}]
  BY DEF PInv, PTypes
<1>1. CASE sys_setsid(s)
  <2> DEFINE r == [task[s] EXCEPT !.leader = TRUE, !.session = task[s].pid, !.pgrp = task[s].pid]
  <2>1. Live(s) /\ pc[s] = "user" /\ task[s] \in Struct
    BY <1>0, <1>1 DEF sys_setsid, At, Live
  <2>2. r \in Struct /\ r.pid = task[s].pid /\ r.father = task[s].father
    <3>1. task[s].pid \in Nat
      BY <2>1, ProcessAssumption DEF Struct
    <3> QED
      BY <2>1, <3>1 DEF Struct
  <2>3. task' = [task EXCEPT ![s] = r] /\ pc' = pc /\ arg' = arg /\ last_pid' = last_pid
    BY <1>0, <1>1 DEF sys_setsid
  <2> HIDE DEF r
  <2> QED
    BY <2>1, <2>2, <2>3, ChangeOne
<1>2. ASSUME NEW n \in Signals, NEW sa \in Actions, sys_sigaction(s, n, sa) PROVE PInv' /\ Calm
  <2> DEFINE a == IF sa.handler = "catch" /\ sa.mask # {} THEN [sa EXCEPT !.mask = @ \cup {n}] ELSE sa
             q == [task[s].sigaction EXCEPT ![n] = a]
             r == [task[s] EXCEPT !.sigaction = q]
  <2>1. Live(s) /\ pc[s] = "user" /\ task[s] \in Struct
    BY <1>0, <1>2 DEF sys_sigaction, At, Live
  <2>2. a \in [handler : {"dfl", "ign", "once", "catch"}, mask : SUBSET Signals]
    BY ProcessAssumption DEF Actions
  <2>3. task' = [task EXCEPT ![s] = r] /\ pc' = pc /\ arg' = arg /\ last_pid' = last_pid
    BY <1>0, <1>2, <2>1 DEF sys_sigaction
  <2> HIDE DEF a
  <2>4. q \in [Signals -> [handler : {"dfl", "ign", "once", "catch"}, mask : SUBSET Signals]]
    BY <2>1, <2>2 DEF Struct
  <2> HIDE DEF q
  <2>5. r \in Struct /\ r.pid = task[s].pid /\ r.father = task[s].father
    BY <2>1, <2>4 DEF Struct
  <2> HIDE DEF r
  <2> QED
    BY <2>1, <2>3, <2>5, ChangeOne
<1>3. ASSUME NEW m \in Masks, sys_ssetmask(s, m) PROVE PInv' /\ Calm
  <2> DEFINE r == [task[s] EXCEPT !.blocked = m \ {SIGKILL}]
  <2>1. Live(s) /\ pc[s] = "user" /\ task[s] \in Struct
    BY <1>0, <1>3 DEF sys_ssetmask, At, Live
  <2>2. r \in Struct /\ r.pid = task[s].pid /\ r.father = task[s].father
    <3>1. m \ {SIGKILL} \in SUBSET Signals
      BY ProcessAssumption
    <3> QED
      BY <2>1, <3>1 DEF Struct
  <2>3. task' = [task EXCEPT ![s] = r] /\ pc' = pc /\ arg' = arg /\ last_pid' = last_pid
    BY <1>0, <1>3 DEF sys_ssetmask
  <2> HIDE DEF r
  <2> QED
    BY <2>1, <2>2, <2>3, ChangeOne
<1>4. ASSUME NEW pid \in 0..MAX_PID, NEW pgid \in 0..MAX_GROUP, sys_setpgid(s, pid, pgid) PROVE PInv' /\ Calm
  <2> DEFINE g == IF pgid = 0 THEN task[s].pid ELSE pgid
  <2>1. PICK c \in Slots : Live(c) /\ task' = [task EXCEPT ![c].pgrp = g]
    BY <1>4 DEF sys_setpgid
  <2> DEFINE r == [task[c] EXCEPT !.pgrp = g]
  <2>2. task[c] \in Struct /\ task[s] \in Struct
    BY <1>0, <1>4, <2>1 DEF sys_setpgid, At, Live
  <2>3. g \in Nat
    BY <2>2, ProcessAssumption DEF Struct
  <2>4. task' = [task EXCEPT ![c] = r] /\ pc' = pc /\ arg' = arg /\ last_pid' = last_pid
    BY <1>0, <1>4, <2>1 DEF sys_setpgid
  <2> HIDE DEF g
  <2>5. r \in Struct /\ r.pid = task[c].pid /\ r.father = task[c].father /\ r.signal = task[c].signal
    BY <2>2, <2>3 DEF Struct
  <2> HIDE DEF r
  <2> QED
    BY <2>1, <2>4, <2>5, ChangeOne
<1> QED
  BY <1>1, <1>2, <1>3, <1>4

(* do_signal takes a signal of the task away, and may set its action or its  *)
(* mask.                                                                     *)
LEMMA SignalHandled ==
  ASSUME PInv, InitStays, NEW s \in Slots, do_signal(s), pc' = pc
  PROVE  PInv' /\ Calm
<1> DEFINE sigs == task[s].signal \ task[s].blocked
           n == Min(sigs)
           sa == task[s].sigaction[n]
           t == [task EXCEPT ![s].signal = @ \ {n}]
<1>0. task \in [Slots -> Struct \cup {NULL}] /\ pc \in [Slots -> {"user", "wait", "exit", "zombie"}]
  BY DEF PInv, PTypes
<1>1. Live(s) /\ pc[s] = "user" /\ task[s] \in Struct /\ sigs # {}
  BY <1>0 DEF do_signal, At, Live
<1>2. n \in Signals
  <2>1. sigs \in SUBSET Signals /\ sigs \in SUBSET Nat
    BY <1>1, ProcessAssumption DEF Struct
  <2> HIDE DEF sigs
  <2> QED
    BY <1>1, <2>1, MinOfNats
<1>3. /\ arg' = arg /\ last_pid' = last_pid
      /\ \/ task' = t
         \/ task' = [t EXCEPT ![s].sigaction[n] = Default]
         \/ task' = [t EXCEPT ![s].blocked = @ \cup sa.mask]
  <2>1. pc' # [pc EXCEPT ![s] = "exit"]
    BY <1>0, <1>1
  <2> QED
    BY <2>1 DEF do_signal, do_exit
<1> HIDE DEF n
<1> DEFINE r1 == [task[s] EXCEPT !.signal = @ \ {n}]
           q == [task[s].sigaction EXCEPT ![n] = Default]
           r2 == [r1 EXCEPT !.sigaction = q]
           r3 == [r1 EXCEPT !.blocked = task[s].blocked \cup sa.mask]
<1>4. r1 \in Struct /\ r1.pid = task[s].pid /\ r1.father = task[s].father
  BY <1>1 DEF Struct
<1>5. CASE task' = t
  <2>1. task' = [task EXCEPT ![s] = r1]
    BY <1>0, <1>5
  <2> HIDE DEF r1
  <2> QED
    BY <1>1, <1>3, <1>4, <2>1, ChangeOne
<1>6. CASE task' = [t EXCEPT ![s].sigaction[n] = Default]
  <2>1. q \in [Signals -> [handler : {"dfl", "ign", "once", "catch"}, mask : SUBSET Signals]]
    BY <1>1, <1>2 DEF Struct, Default
  <2>2. task' = [task EXCEPT ![s] = r2]
    BY <1>0, <1>1, <1>6 DEF Struct
  <2> HIDE DEF q
  <2>3. r2 \in Struct /\ r2.pid = task[s].pid /\ r2.father = task[s].father
    BY <1>1, <1>4, <2>1 DEF Struct
  <2> HIDE DEF r2
  <2> QED
    BY <1>1, <1>3, <2>2, <2>3, ChangeOne
<1>7. CASE task' = [t EXCEPT ![s].blocked = @ \cup sa.mask]
  <2>1. task[s].blocked \cup sa.mask \in SUBSET Signals
    BY <1>1, <1>2 DEF Struct
  <2>2. task' = [task EXCEPT ![s] = r3]
    BY <1>0, <1>1, <1>7 DEF Struct
  <2>3. r3 \in Struct /\ r3.pid = task[s].pid /\ r3.father = task[s].father
    BY <1>1, <1>4, <2>1 DEF Struct
  <2> HIDE DEF r3
  <2> QED
    BY <1>1, <1>3, <2>2, <2>3, ChangeOne
<1> QED
  BY <1>3, <1>5, <1>6, <1>7

-----------------------------------------------------------------------------
(* fork: the new task has a pid and a slot of its own, and its father is in  *)
(* user mode.                                                                *)
LEMMA ForkKeeps ==
  ASSUME PInv, NEW s \in Slots, copy_process(s), InitLives' => InitLives
  PROVE  PInv' /\ (Calm \/ \E n \in Slots : Forked(s, n))
<1>0. task \in [Slots -> Struct \cup {NULL}] /\ pc \in [Slots -> {"user", "wait", "exit", "zombie"}]
  BY DEF PInv, PTypes
<1>1. Live(s) /\ pc[s] = "user" /\ task[s] \in Struct
  BY <1>0 DEF copy_process, At, Live
<1>2. last_pid' \in 1..MAX_PID /\ ~InUse(last_pid') /\ arg' = arg
  BY FreePid DEF copy_process, PInv
<1>3. CASE task' = task /\ pc' = pc
  <2>1. PTypes'
    BY <1>2, <1>3 DEF PInv, PTypes
  <2>2. Calm
    BY <1>3 DEF Calm, Kept, Stay
  <2> QED
    BY <1>2, <1>3, <2>1, <2>2 DEF PInv, UniquePids, InitHere, FatherWaits, WaiterTold, Live, At, Children
<1>4. CASE ~(task' = task /\ pc' = pc)
  <2> DEFINE nr == Min(FreeSlots)
             r == [task[s] EXCEPT !.pid = last_pid', !.father = task[s].pid, !.signal = {}, !.leader = FALSE]
  <2>1. FreeSlots # {} /\ task' = [task EXCEPT ![nr] = r] /\ pc' = [pc EXCEPT ![nr] = "user"]
    BY <1>4 DEF copy_process
  <2>2. nr \in Slots /\ task[nr] = NULL /\ nr # s
    <3>1. FreeSlots \in SUBSET Nat
      BY SlotOne DEF FreeSlots
    <3> QED
      BY <1>1, <2>1, <3>1, MinOfNats DEF FreeSlots, Live
  <2> HIDE DEF nr
  <2>3. r \in Struct /\ r.pid = last_pid' /\ r.father = task[s].pid
    <3>1. task[s].pid \in 0..MAX_PID
      BY <1>1, ProcessAssumption DEF Struct
    <3> QED
      BY <1>1, <1>2, <3>1 DEF Struct
  <2> HIDE DEF r
  <2>4. /\ \A c \in Slots : task'[c] = IF c = nr THEN r ELSE task[c]
        /\ \A c \in Slots : pc'[c] = IF c = nr THEN "user" ELSE pc[c]
    BY <1>0, <2>1
  <2>5. PTypes'
    BY <1>0, <1>2, <2>1, <2>2, <2>3 DEF PTypes, PInv
  <2>6. UniquePids'
    <3>1. \A c \in Slots : task[c] # NULL => task[c].pid # r.pid
      BY <1>2, <2>3 DEF InUse, Live
    <3> QED
      BY <2>4, <3>1 DEF PInv, UniquePids, Live
  <2>7. InitHere'
    BY <2>2, <2>4, SlotOne DEF PInv, InitHere, Live
  <2>8. FatherWaits'
    <3> SUFFICES ASSUME InitLives', NEW c \in Slots \ {1}, task'[c] # NULL
                 PROVE  \E f \in Slots \ {c} : /\ task'[f] # NULL /\ task'[f].pid = task'[c].father
                                                /\ pc'[f] \in {"user", "wait"}
      BY DEF FatherWaits, Live
    <3>1. CASE c = nr
      BY <1>1, <2>2, <2>3, <2>4, <3>1 DEF Live
    <3>2. CASE c # nr
      <4>1. PICK f \in Slots \ {c} : Live(f) /\ task[f].pid = task[c].father /\ pc[f] \in {"user", "wait"}
        BY <2>4, <3>2 DEF PInv, FatherWaits, Live
      <4>2. f # nr
        BY <2>2, <4>1 DEF Live
      <4> QED
        BY <2>4, <3>2, <4>1, <4>2 DEF Live
    <3> QED
      BY <3>1, <3>2
  <2>9. WaiterTold'
    <3> SUFFICES ASSUME InitLives', NEW u \in Slots, task'[u] # NULL, pc'[u] = "wait",
                        arg'[u] = -1 \/ arg'[u] > 0,
                        NEW c \in Children(task', u, arg'[u]), pc'[c] = "zombie"
                 PROVE  SIGCHLD \in task'[u].signal
      BY DEF WaiterTold, At, Live
    <3>1. c \in Slots /\ c # nr /\ u # nr
      BY <2>4 DEF Children
    <3>2. task'[c] = task[c] /\ task'[u] = task[u] /\ pc[u] = "wait" /\ pc[c] = "zombie"
      BY <2>4, <3>1
    <3>3. c \in Children(task, u, arg[u])
      BY <1>2, <3>1, <3>2 DEF Children
    <3> QED
      BY <1>2, <3>2, <3>3 DEF PInv, WaiterTold, At, Live
  <2>10. Forked(s, nr)
    BY <1>1, <2>2, <2>3, <2>4, StructLives DEF Forked, Kept, Stay, At
  <2> QED
    BY <2>2, <2>5, <2>6, <2>7, <2>8, <2>9, <2>10 DEF PInv
<1> QED
  BY <1>3, <1>4

-----------------------------------------------------------------------------
(* The table t in which init has become the father of the children of s, and *)
(* knows of the zombies among them.                                          *)
Orphaned(t, s) ==
  /\ t \in [Slots -> Struct \cup {NULL}]
  /\ \A c \in Slots : IF task[c] = NULL THEN t[c] = NULL ELSE
       /\ t[c] \in Struct /\ t[c].pid = task[c].pid
       /\ t[c].father = IF task[c].father = task[s].pid THEN 1 ELSE task[c].father
       /\ c # s => task[c].signal \subseteq t[c].signal
  /\ task[1] # NULL /\ 1 # s
     /\ (\E c \in Slots : At(c, "zombie") /\ task[c].father = task[s].pid)
     => SIGCHLD \in t[1].signal

(* That is the table the loop of do_exit leaves behind, ...                  *)
LEMMA AdoptedOrphans ==
  ASSUME PTypes, NEW s \in Slots, Live(s)
  PROVE  Orphaned(Adopted(s), s)
<1> DEFINE mine == {c \in Slots : Live(c) /\ task[c].father = task[s].pid}
           t == [c \in Slots |-> IF c \in mine THEN [task[c] EXCEPT !.father = 1] ELSE task[c]]
           u == Signalled(t, {1}, SIGCHLD)
<1>1. Adopted(s) = IF \E c \in mine : pc[c] = "zombie" THEN u ELSE t
  BY DEF Adopted
<1>2. ASSUME NEW c \in Slots
      PROVE  /\ t[c] \in Struct \cup {NULL}
             /\ IF task[c] = NULL THEN t[c] = NULL ELSE
                  /\ t[c] \in Struct /\ t[c].pid = task[c].pid
                  /\ t[c].father = IF task[c].father = task[s].pid THEN 1 ELSE task[c].father
                  /\ t[c].signal = task[c].signal
  <2>1. CASE c \in mine
    <3>1. task[c] \in Struct /\ task[c] # NULL /\ task[c].father = task[s].pid
      BY <2>1 DEF PTypes, Live
    <3>2. t[c] = [task[c] EXCEPT !.father = 1]
      BY <2>1
    <3> QED
      BY <3>1, <3>2, SetFields
  <2>2. CASE c \notin mine
    <3>1. t[c] = task[c] /\ (task[c] # NULL => task[c].father # task[s].pid)
      BY <2>2 DEF Live
    <3>2. task[c] \in Struct \cup {NULL}
      BY DEF PTypes
    <3> QED
      BY <3>1, <3>2
  <2> QED
    BY <2>1, <2>2
<1>3. t \in [Slots -> Struct \cup {NULL}]
  BY <1>2
<1>4. (\E c \in Slots : At(c, "zombie") /\ task[c].father = task[s].pid)
        => \E c \in mine : pc[c] = "zombie"
  BY DEF At
<1> HIDE DEF t, mine
<1>5. CASE \E c \in mine : pc[c] = "zombie"
  <2>1. SIGCHLD \in Signals
    BY ProcessAssumption
  <2>2. /\ u \in [Slots -> Struct \cup {NULL}]
        /\ \A c \in Slots : IF t[c] = NULL THEN u[c] = NULL ELSE
             /\ u[c] \in Struct /\ u[c].pid = t[c].pid /\ u[c].father = t[c].father
             /\ t[c].signal \subseteq u[c].signal
             /\ c \in {1} => SIGCHLD \in u[c].signal
    BY <1>3, <2>1, SignalledKeeps
  <2>3. Adopted(s) = u
    BY <1>1, <1>5
  <2> HIDE DEF u
  <2>4. \A c \in Slots : IF task[c] = NULL THEN u[c] = NULL ELSE
             /\ u[c] \in Struct /\ u[c].pid = task[c].pid
             /\ u[c].father = IF task[c].father = task[s].pid THEN 1 ELSE task[c].father
             /\ task[c].signal \subseteq u[c].signal
             /\ c = 1 => SIGCHLD \in u[c].signal
    BY <1>2, <2>2, StructLives
  <2> QED
    BY <2>2, <2>3, <2>4, SlotOne DEF Orphaned
<1>6. CASE ~\E c \in mine : pc[c] = "zombie"
  <2>1. Adopted(s) = t
    BY <1>1, <1>6
  <2> QED
    BY <1>2, <1>3, <1>4, <1>6, <2>1 DEF Orphaned
<1> QED
  BY <1>5, <1>6

(* ... and with it a task may begin to end.                                  *)
LEMMA ExitBegins ==
  ASSUME PInv, InitStays, NEW s \in Slots, At(s, "user"), NEW t, Orphaned(t, s), do_exit(s, t)
  PROVE  PInv' /\ Ended(s)
<1>0. task \in [Slots -> Struct \cup {NULL}] /\ pc \in [Slots -> {"user", "wait", "exit", "zombie"}]
  BY DEF PInv, PTypes
<1>1. task' = t /\ arg' = arg /\ last_pid' = last_pid
  BY DEF do_exit
<1>2. \A c \in Slots : pc'[c] = IF c = s THEN "exit" ELSE pc[c]
  BY <1>0 DEF do_exit
<1>3. PTypes'
  BY <1>0, <1>1 DEF PInv, PTypes, Orphaned, do_exit
<1>4. Same /\ \A c \in Slots : Live(c) => task'[c] # NULL
  BY <1>1, StructLives DEF Orphaned, Same, Live
<1>5. UniquePids'
  BY <1>4, SameUnique DEF PInv
<1>6. InitLives' => /\ InitLives /\ s # 1 /\ task[1] # NULL /\ task[1].pid = 1 /\ task[1].father = 0
                    /\ pc[1] \in {"user", "wait"}
  BY <1>2, SlotOne DEF InitStays, PInv, InitHere, Live
<1>7. InitHere'
  <2>1. InitLives' => task[s].pid # 0
    BY <1>0, ProcessAssumption DEF At, Live, Struct
  <2>2. InitLives' => task'[1] # NULL /\ task'[1].father = task[1].father
    BY <1>1, <1>4, <1>6, <2>1, SlotOne DEF Orphaned, Live
  <2> QED
    BY <1>4, <2>2, InitKept
<1>8. FatherWaits'
  <2> SUFFICES ASSUME InitLives', NEW c \in Slots \ {1}, task'[c] # NULL
               PROVE  \E f \in Slots \ {c} : /\ task'[f] # NULL /\ task'[f].pid = task'[c].father
                                              /\ pc'[f] \in {"user", "wait"}
    BY DEF FatherWaits, Live
  <2>1. task[c] # NULL
    BY <1>4 DEF Same
  <2>2. CASE task[c].father = task[s].pid
    <3>1. task'[c].father = 1
      BY <1>1, <2>1, <2>2 DEF Orphaned
    <3>2. task'[1] # NULL /\ task'[1].pid = 1 /\ pc'[1] \in {"user", "wait"}
      BY <1>1, <1>2, <1>4, <1>6, SlotOne DEF Same, Live
    <3> QED
      BY <3>1, <3>2, SlotOne
  <2>3. CASE task[c].father # task[s].pid
    <3>1. PICK f \in Slots \ {c} : Live(f) /\ task[f].pid = task[c].father /\ pc[f] \in {"user", "wait"}
      BY <1>6, <2>1 DEF PInv, FatherWaits, Live
    <3>2. f # s
      BY <2>3, <3>1
    <3>3. task'[c].father = task[c].father
      BY <1>1, <2>1, <2>3 DEF Orphaned
    <3> QED
      BY <1>2, <1>4, <3>1, <3>2, <3>3 DEF Same, Live
  <2> QED
    BY <2>2, <2>3
<1>9. WaiterTold'
  <2> SUFFICES ASSUME InitLives', NEW u \in Slots, task'[u] # NULL, pc'[u] = "wait",
                      arg'[u] = -1 \/ arg'[u] > 0,
                      NEW c \in Children(task', u, arg'[u]), pc'[c] = "zombie"
               PROVE  SIGCHLD \in task'[u].signal
    BY DEF WaiterTold, At, Live
  <2>1. u # s /\ pc[u] = "wait" /\ c \in Slots /\ c # u /\ pc[c] = "zombie" /\ task'[c] # NULL
    BY <1>2 DEF Children
  <2>2. task[u] # NULL /\ task'[u].pid = task[u].pid /\ task[c] # NULL /\ task'[c].pid = task[c].pid
    BY <1>4, <2>1 DEF Same
  <2>3. task'[c].father = task[u].pid
    BY <2>2 DEF Children
  <2>4. CASE task[c].father = task[s].pid
    <3>1. task'[c].father = 1
      BY <1>1, <2>1, <2>2, <2>4 DEF Orphaned
    <3>2. u = 1
      BY <1>6, <2>2, <2>3, <3>1, SlotOne DEF PInv, UniquePids, Live
    <3> QED
      BY <1>1, <1>6, <2>1, <2>2, <2>4, <3>2 DEF Orphaned, At, Live
  <2>5. CASE task[c].father # task[s].pid
    <3>1. task'[c].father = task[c].father
      BY <1>1, <2>1, <2>2, <2>5 DEF Orphaned
    <3>2. arg[u] \in Int /\ (arg[u] = -1 \/ (arg[u] > 0 /\ task[c].pid = arg[u]))
      BY <1>1, <2>2 DEF Children, PInv, PTypes
    <3>3. c \in Children(task, u, arg[u])
      BY <2>1, <2>2, <2>3, <3>1, <3>2 DEF Children
    <3>4. SIGCHLD \in task[u].signal
      BY <1>6, <2>1, <2>2, <3>2, <3>3 DEF PInv, WaiterTold, At, Live
    <3> QED
      BY <1>1, <2>1, <2>2, <3>4 DEF Orphaned
  <2> QED
    BY <2>4, <2>5
<1>10. Ended(s)
  BY <1>1, <1>2, <1>4 DEF Ended, Stay, Same, Orphaned, At, Live
<1> QED
  BY <1>3, <1>5, <1>7, <1>8, <1>9, <1>10 DEF PInv

(* sys_exit does so, ...                                                     *)
LEMMA ExitKeeps ==
  ASSUME PInv, InitStays, NEW s \in Slots, sys_exit(s)
  PROVE  PInv' /\ Ended(s)
<1>1. Orphaned(Adopted(s), s)
  BY AdoptedOrphans DEF PInv, sys_exit, At
<1> QED
  BY <1>1, ExitBegins DEF sys_exit

(* ... and so does a signal nobody has caught.                               *)
LEMMA SignalKeeps ==
  ASSUME PInv, InitStays, NEW s \in Slots, do_signal(s)
  PROVE  PInv' /\ (Calm \/ Ended(s))
<1> DEFINE n == Min(task[s].signal \ task[s].blocked)
           a == Adopted(s)
           r == [a[s] EXCEPT !.signal = @ \ {n}]
           t == [a EXCEPT ![s].signal = @ \ {n}]
<1>1. CASE pc' = pc
  BY <1>1, SignalHandled
<1>2. CASE pc' # pc
  <2>1. At(s, "user") /\ do_exit(s, t)
    BY <1>2 DEF do_signal
  <2>2. Orphaned(a, s)
    BY <2>1, AdoptedOrphans DEF PInv, At
  <2> HIDE DEF a, n
  <2>3. a[s] \in Struct /\ a[s].signal \ {n} \in SUBSET Signals
    BY <2>1, <2>2 DEF Orphaned, At, Live, Struct
  <2>4. r \in Struct /\ r.pid = a[s].pid /\ r.father = a[s].father
    BY <2>3, SetFields
  <2>5. a \in [Slots -> Struct \cup {NULL}]
    BY <2>2 DEF Orphaned
  <2>6. t = [a EXCEPT ![s] = r]
    BY <2>5
  <2> HIDE DEF r, t
  <2>7. t \in [Slots -> Struct \cup {NULL}] /\ \A c \in Slots : t[c] = IF c = s THEN r ELSE a[c]
    BY <2>4, <2>5, <2>6
  <2>8. Orphaned(t, s)
    BY <2>1, <2>2, <2>4, <2>7, SlotOne DEF Orphaned, At, Live
  <2> QED
    BY <2>1, <2>8, ExitBegins
<1> QED
  BY <1>1, <1>2

(* tell_father: the father of a task that has ended is there and gets        *)
(* SIGCHLD.                                                                  *)
LEMMA ExitEndKeeps ==
  ASSUME PInv, InitStays, NEW s \in Slots, ExitEnd(s)
  PROVE  PInv' /\ (InitLives' => Died(s))
<1>0. task \in [Slots -> Struct \cup {NULL}] /\ pc \in [Slots -> {"user", "wait", "exit", "zombie"}]
  BY DEF PInv, PTypes
<1> DEFINE t == IF task[s].leader THEN Signalled(task, Session(s), SIGHUP) ELSE task
<1>1. /\ t \in [Slots -> Struct \cup {NULL}]
      /\ \A c \in Slots : IF task[c] = NULL THEN t[c] = NULL ELSE
           /\ t[c] \in Struct /\ t[c].pid = task[c].pid /\ t[c].father = task[c].father
           /\ task[c].signal \subseteq t[c].signal
  <2>1. CASE task[s].leader
    <3> DEFINE S == Session(s)
    <3>1. SIGHUP \in Signals
      BY ProcessAssumption
    <3>2. t = Signalled(task, S, SIGHUP)
      BY <2>1
    <3> HIDE DEF S, t
    <3> QED
      BY <1>0, <3>1, <3>2, SignalledKeeps
  <2>2. CASE ~task[s].leader
    BY <1>0, <2>2
  <2> QED
    BY <2>1, <2>2
<1> HIDE DEF t
<1>2. Live(s) /\ pc[s] = "exit" /\ arg' = arg /\ last_pid' = last_pid
  BY DEF ExitEnd, At
<1>3. CASE Fathers(s) # {}
  <2> DEFINE f == Min(Fathers(s))
             u == Signalled(t, {f}, SIGCHLD)
  <2>1. task' = u /\ pc' = [pc EXCEPT ![s] = "zombie"]
    BY <1>3 DEF ExitEnd, t
  <2>2. f \in Slots /\ task[f] # NULL /\ task[f].pid = task[s].father
    <3>1. Fathers(s) \in SUBSET Nat
      BY SlotOne DEF Fathers
    <3>2. Min(Fathers(s)) \in Fathers(s)
      BY <1>3, <3>1, MinOfNats
    <3> QED
      BY <3>2 DEF Fathers, Live
  <2> HIDE DEF f
  <2>3. /\ u \in [Slots -> Struct \cup {NULL}]
        /\ \A c \in Slots : IF t[c] = NULL THEN u[c] = NULL ELSE
             /\ u[c] \in Struct /\ u[c].pid = t[c].pid /\ u[c].father = t[c].father
             /\ t[c].signal \subseteq u[c].signal
             /\ c \in {f} => SIGCHLD \in u[c].signal
    <3>1. SIGCHLD \in Signals
      BY ProcessAssumption
    <3> QED
      BY <1>1, <3>1, SignalledKeeps
  <2> HIDE DEF u
  <2>4. \A c \in Slots : IF task[c] = NULL THEN task'[c] = NULL ELSE
           /\ task'[c] # NULL /\ task'[c].pid = task[c].pid /\ task'[c].father = task[c].father
           /\ task[c].signal \subseteq task'[c].signal
           /\ c = f => SIGCHLD \in task'[c].signal
    BY <1>1, <2>1, <2>3, StructLives
  <2>5. \A c \in Slots : pc'[c] = IF c = s THEN "zombie" ELSE pc[c]
    BY <1>0, <2>1
  <2>6. PTypes'
    BY <1>0, <1>2, <2>1, <2>3 DEF PInv, PTypes
  <2>7. Same /\ Lineage
    BY <2>4 DEF Same, Lineage
  <2>8. UniquePids'
    BY <2>7, SameUnique DEF PInv
  <2>9. InitHere'
    BY <2>4, <2>7, InitKept, SlotOne DEF PInv, InitHere, InitStays, Live
  <2>10. FatherWaits'
    BY <1>2, <2>4, <2>5, <2>7, FathersKept DEF Live
  <2>11. WaiterTold'
    <3> SUFFICES ASSUME InitLives', NEW w \in Slots, task'[w] # NULL, pc'[w] = "wait",
                        arg'[w] = -1 \/ arg'[w] > 0,
                        NEW c \in Children(task', w, arg'[w]), pc'[c] = "zombie"
                 PROVE  SIGCHLD \in task'[w].signal
      BY DEF WaiterTold, At, Live
    <3>1. /\ c \in Slots \ {w} /\ task'[c] # NULL /\ task'[c].father = task'[w].pid
          /\ arg[w] \in Int
          /\ arg[w] = -1 \/ (arg[w] > 0 /\ task'[c].pid = arg[w])
      BY <1>2 DEF Children, PInv, PTypes
    <3>2. task[w] # NULL /\ task[c] # NULL /\ task[c].father = task[w].pid
      BY <2>7, <3>1 DEF Same, Lineage
    <3>3. CASE c = s
      <4>1. w = f
        BY <2>2, <3>2, <3>3 DEF PInv, UniquePids, Live
      <4> QED
        BY <2>4, <3>2, <4>1
    <3>4. CASE c # s
      <4>1. pc[c] = "zombie" /\ pc[w] = "wait"
        BY <2>5, <3>1, <3>4
      <4>2. c \in Children(task, w, arg[w])
        BY <2>7, <3>1, <3>2 DEF Children, Same
      <4>3. SIGCHLD \in task[w].signal
        BY <3>1, <3>2, <4>1, <4>2 DEF PInv, WaiterTold, InitStays, At, Live
      <4> QED
        BY <2>4, <3>2, <4>3
    <3> QED
      BY <3>3, <3>4
  <2>12. Died(s)
    BY <1>2, <2>4, <2>5 DEF Died, Kept, Stay, At, Live
  <2> QED
    BY <2>6, <2>8, <2>9, <2>10, <2>11, <2>12 DEF PInv
<1>4. CASE Fathers(s) = {}
  <2>1. task' = [t EXCEPT ![s] = NULL] /\ pc' = [pc EXCEPT ![s] = "user"]
    BY <1>4 DEF ExitEnd, t
  <2>2. PTypes'
    BY <1>0, <1>1, <1>2, <2>1 DEF PInv, PTypes
  <2>3. \A c \in Slots : task'[c] = IF c = s THEN NULL ELSE t[c]
    BY <1>1, <2>1
  <2>4. Same
    BY <1>1, <2>3 DEF Same
  <2>5. UniquePids'
    BY <2>4, SameUnique DEF PInv
  <2>6. ~InitLives'
    BY <1>2, <1>4 DEF PInv, InitHere, FatherWaits, Fathers, InitStays
  <2> QED
    BY <2>2, <2>5, <2>6 DEF PInv, InitHere, FatherWaits, WaiterTold
<1> QED
  BY <1>3, <1>4

-----------------------------------------------------------------------------
(* A pass of waitpid over the table t, in which the caller may have lost     *)
(* SIGCHLD: the zombie it releases is nobody's father, and if it sleeps it   *)
(* has looked at all its children.                                           *)
LEMMA ScanKeeps ==
  ASSUME PInv, InitStays, NEW s \in Slots, Live(s), pc[s] \in {"user", "wait"}, NEW pid \in Int,
         NEW r \in Struct, r.pid = task[s].pid, r.father = task[s].father,
         NEW t, t = [task EXCEPT ![s] = r], Scan(t, s, pid), last_pid' = last_pid
  PROVE  PInv' /\ (Calm \/ \E d \in Slots : Reaped(s, d))
<1>0. task \in [Slots -> Struct \cup {NULL}] /\ pc \in [Slots -> {"user", "wait", "exit", "zombie"}]
      /\ arg \in [Slots -> Int]
  BY DEF PInv, PTypes
<1>1. /\ t \in [Slots -> Struct \cup {NULL}]
      /\ \A c \in Slots : t[c] = IF c = s THEN r ELSE task[c]
  BY <1>0
<1> DEFINE kids == Children(t, s, pid)
           dead == {c \in kids : pc[c] = "zombie"}
           d == Max(dead)
<1>2. CASE dead # {}
  <2>1. /\ task' = [t EXCEPT ![d] = NULL]
        /\ pc' = [pc EXCEPT ![s] = "user", ![d] = "user"]
        /\ arg' = [arg EXCEPT ![s] = 0]
    BY <1>2 DEF Scan
  <2>2. d \in Slots /\ d # s /\ pc[d] = "zombie" /\ Live(d) /\ task[d].father = task[s].pid
    <3>1. dead \in SUBSET Slots
      BY DEF Children
    <3>2. dead \in SUBSET Int /\ NR_TASKS - 1 \in Int /\ \A x \in dead : x <= NR_TASKS - 1
      <4> HIDE DEF dead
      <4>1. NR_TASKS - 1 \in Int
        BY ProcessAssumption
      <4> QED
        BY <3>1, <4>1, SlotOne
    <3>3. d \in dead
      <4> HIDE DEF dead
      <4> QED
        BY <1>2, <3>2, MaxOfInts
    <3> QED
      BY <1>1, <3>1, <3>3 DEF Children, Live
  <2> HIDE DEF d
  <2>3. \A c \in Slots : task'[c] = IF c = d THEN NULL ELSE t[c]
    BY <1>1, <2>1
  <2>4. \A c \in Slots : pc'[c] = IF c = d \/ c = s THEN "user" ELSE pc[c]
    BY <1>0, <2>1, <2>2
  <2>5. PTypes'
    BY <1>0, <1>1, <2>1, <2>2 DEF PInv, PTypes
  <2>6. Same /\ Lineage
    BY <1>1, <2>3 DEF Same, Lineage, Live
  <2>7. \A c \in Slots : Live(c) /\ c # d => task'[c] # NULL
    BY <1>1, <2>3, StructLives DEF Live
  <2>8. UniquePids'
    BY <2>6, SameUnique DEF PInv
  <2>9. InitHere'
    <3>1. InitLives' => Live(1) /\ 1 # d
      BY <2>2 DEF InitStays, PInv, InitHere
    <3> QED
      BY <2>6, <2>7, <3>1, InitKept, SlotOne DEF Lineage
  <2>10. FatherWaits'
    BY <2>2, <2>4, <2>6, <2>7, FathersKept
  <2>11. WaiterTold'
    <3>1. \A c \in Slots : task'[c] # NULL /\ pc'[c] = "zombie" => pc[c] = "zombie"
      BY <2>4
    <3>2. \A w \in Slots : task'[w] # NULL /\ pc'[w] = "wait" =>
            pc[w] = "wait" /\ arg'[w] = arg[w] /\ task[w].signal \subseteq task'[w].signal
      BY <1>0, <1>1, <2>1, <2>3, <2>4
    <3> QED
      BY <2>6, <3>1, <3>2, TellingKept
  <2>12. Reaped(s, d)
    BY <1>1, <2>2, <2>3, <2>4, <2>6, <2>7 DEF Reaped, Kept, Stay, Same, Lineage, At, Live
  <2> QED
    BY <2>2, <2>5, <2>8, <2>9, <2>10, <2>11, <2>12 DEF PInv
<1>3. CASE dead = {}
  <2>1. PICK l \in {"user", "wait"}, a \in Int :
          /\ task' = t /\ pc' = [pc EXCEPT ![s] = l] /\ arg' = [arg EXCEPT ![s] = a]
          /\ l = "wait" => a = pid
    <3>1. \/ task' = t /\ pc' = [pc EXCEPT ![s] = "wait"] /\ arg' = [arg EXCEPT ![s] = pid]
          \/ task' = t /\ pc' = [pc EXCEPT ![s] = "user"] /\ arg' = [arg EXCEPT ![s] = 0]
      BY <1>3 DEF Scan
    <3> QED
      BY <3>1
  <2>2. \A c \in Slots : pc'[c] = IF c = s THEN l ELSE pc[c]
    BY <1>0, <2>1
  <2>3. PTypes'
    BY <1>0, <1>1, <2>1 DEF PInv, PTypes
  <2>4. Same /\ Lineage /\ \A c \in Slots : Live(c) => task'[c] # NULL
    BY <1>1, <2>1, StructLives DEF Same, Lineage, Live
  <2>5. UniquePids'
    BY <2>4, SameUnique DEF PInv
  <2>6. InitHere'
    BY <2>4, InitKept, SlotOne DEF Lineage, PInv, InitHere, InitStays
  <2>7. FatherWaits'
    BY <2>2, <2>4, FathersKept
  <2>8. WaiterTold'
    <3>1. \A c \in Slots : task'[c] # NULL /\ pc'[c] = "zombie" => pc[c] = "zombie"
      BY <2>2
    <3>2. ASSUME NEW w \in Slots, task'[w] # NULL, pc'[w] = "wait"
          PROVE  \/ pc[w] = "wait" /\ arg'[w] = arg[w] /\ task[w].signal \subseteq task'[w].signal
                 \/ \A c \in Children(task', w, arg'[w]) : pc'[c] # "zombie"
      <4>1. CASE w = s
        <5>1. arg'[w] = pid /\ Children(task', w, arg'[w]) = kids
          BY <1>0, <2>1, <2>2, <3>2, <4>1
        <5>2. \A c \in kids : pc[c] # "zombie" /\ c \in Slots
          BY <1>3 DEF Children
        <5> HIDE DEF kids
        <5> QED
          BY <2>2, <5>1, <5>2
      <4>2. CASE w # s
        BY <1>0, <1>1, <2>1, <2>2, <3>2, <4>2
      <4> QED
        BY <4>1, <4>2
    <3> QED
      BY <2>4, <3>1, <3>2, TellingKept
  <2>9. Calm
    BY <2>2, <2>4 DEF Calm, Kept, Stay, Same, Lineage, Live
  <2> QED
    BY <2>3, <2>5, <2>6, <2>7, <2>8, <2>9 DEF PInv
<1> QED
  BY <1>2, <1>3

(* waitpid as it is called ...                                               *)
LEMMA WaitpidKeeps ==
  ASSUME PInv, InitStays, NEW s \in Slots, NEW pid \in Int, sys_waitpid(s, pid)
  PROVE  PInv' /\ (Calm \/ \E d \in Slots : Reaped(s, d))
<1>1. task \in [Slots -> Struct \cup {NULL}]
  BY DEF PInv, PTypes
<1>2. Live(s) /\ task[s] \in Struct /\ pc[s] = "user"
  BY <1>1 DEF sys_waitpid, At, Live
<1>3. task = [task EXCEPT ![s] = task[s]]
  BY <1>1
<1>4. Scan(task, s, pid) /\ last_pid' = last_pid
  BY DEF sys_waitpid
<1> QED
  BY <1>2, <1>3, <1>4, ScanKeeps

(* ... and when the task in it runs again.                                   *)
LEMMA ResumeKeeps ==
  ASSUME PInv, InitStays, NEW s \in Slots, WaitResume(s)
  PROVE  PInv' /\ (Calm \/ \E d \in Slots : Reaped(s, d))
<1> DEFINE r == [task[s] EXCEPT !.signal = @ \ {SIGCHLD}]
           t == [task EXCEPT ![s].signal = @ \ {SIGCHLD}]
<1>0. task \in [Slots -> Struct \cup {NULL}] /\ arg \in [Slots -> Int]
      /\ pc \in [Slots -> {"user", "wait", "exit", "zombie"}]
  BY DEF PInv, PTypes
<1>1. Live(s) /\ task[s] \in Struct /\ pc[s] = "wait" /\ last_pid' = last_pid
  BY <1>0 DEF WaitResume, At, Live
<1>2. r \in Struct /\ r.pid = task[s].pid /\ r.father = task[s].father
  BY <1>1 DEF Struct
<1>3. t = [task EXCEPT ![s] = r]
  BY <1>0
<1> HIDE DEF r, t
<1>4. CASE Scan(t, s, arg[s])
  BY <1>0, <1>1, <1>2, <1>3, <1>4, ScanKeeps
<1>5. CASE task' = t /\ pc' = [pc EXCEPT ![s] = "user"] /\ arg' = [arg EXCEPT ![s] = 0]
  <2>1. \A c \in Slots : task'[c] = IF c = s THEN r ELSE task[c]
    BY <1>0, <1>3, <1>5
  <2>2. \A c \in Slots : pc'[c] = IF c = s THEN "user" ELSE pc[c]
    BY <1>0, <1>5
  <2>3. PTypes'
    BY <1>0, <1>1, <1>2, <1>3, <1>5 DEF PInv, PTypes
  <2>4. Same /\ Lineage /\ \A c \in Slots : Live(c) => task'[c] # NULL
    BY <1>1, <1>2, <2>1, StructLives DEF Same, Lineage, Live
  <2>5. UniquePids'
    BY <2>4, SameUnique DEF PInv
  <2>6. InitHere'
    BY <2>4, InitKept, SlotOne DEF Lineage, PInv, InitHere, InitStays
  <2>7. FatherWaits'
    BY <2>2, <2>4, FathersKept
  <2>8. WaiterTold'
    <3>1. \A w \in Slots : task'[w] # NULL /\ pc'[w] = "wait" =>
            pc[w] = "wait" /\ arg'[w] = arg[w] /\ task[w].signal \subseteq task'[w].signal
      BY <1>0, <1>5, <2>1, <2>2
    <3>2. \A c \in Slots : task'[c] # NULL /\ pc'[c] = "zombie" => pc[c] = "zombie"
      BY <2>2
    <3> QED
      BY <2>4, <3>1, <3>2, TellingKept
  <2>9. Calm
    BY <1>1, <2>2, <2>4 DEF Calm, Kept, Stay, Same, Lineage, Live
  <2> QED
    BY <2>3, <2>5, <2>6, <2>7, <2>8, <2>9 DEF PInv
<1> QED
  BY <1>4, <1>5 DEF WaitResume, t

-----------------------------------------------------------------------------
(* Task 1 alone is a family in order.                                        *)
LEMMA InitPInv == Init => PInv
<1> SUFFICES ASSUME Init PROVE PInv
  OBVIOUS
<1> DEFINE r == [pid |-> 1, father |-> 0, pgrp |-> 0, session |-> 0, leader |-> FALSE,
                 signal |-> {}, blocked |-> {}, sigaction |-> [n \in Signals |-> Default]]
<1>1. r \in Struct /\ r.pid = 1 /\ r.father = 0
  BY ProcessAssumption DEF Struct, Default
<1>2. task = [s \in Slots |-> IF s # 1 THEN NULL ELSE r]
  BY DEF Init
<1> HIDE DEF r
<1>3. PTypes
  <2>1. 1 \in 1..MAX_PID
    BY ProcessAssumption
  <2>2. task \in [Slots -> Struct \cup {NULL}]
    BY <1>1, <1>2
  <2>3. pc \in [Slots -> {"user", "wait", "exit", "zombie"}] /\ arg \in [Slots -> Int]
    BY DEF Init
  <2>4. last_pid \in 1..MAX_PID
    BY <2>1 DEF Init
  <2> QED
    BY <2>2, <2>3, <2>4 DEF PTypes
<1>4. \A s \in Slots : Live(s) <=> s = 1
  BY <1>1, <1>2, StructLives DEF Live
<1>5. UniquePids /\ FatherWaits /\ WaiterTold
  BY <1>4 DEF UniquePids, FatherWaits, WaiterTold, At, Init
<1>6. InitHere
  BY <1>1, <1>2, <1>4, SlotOne DEF InitHere, Init
<1> QED
  BY <1>3, <1>5, <1>6 DEF PInv

(* Every step keeps the invariant, and while init lives is one of these.     *)
LifeStep == Calm \/ \E s, d \in Slots : Forked(s, d) \/ Ended(s) \/ Died(s) \/ Reaped(s, d)

LEMMA StepPInv == PInv /\ [Next]_vars => PInv' /\ (InitLives' => LifeStep)
<1> SUFFICES ASSUME PInv, [Next]_vars PROVE PInv' /\ (InitLives' => LifeStep)
  OBVIOUS
<1>1. CASE UNCHANGED vars
  <2>1. task' = task /\ pc' = pc /\ arg' = arg /\ last_pid' = last_pid /\ child' = child
    BY <1>1 DEF vars
  <2>2. Calm
    BY <2>1 DEF Calm, Kept, Stay
  <2>3. PInv'
    BY <2>1 DEF PInv, PTypes, UniquePids, InitHere, FatherWaits, WaiterTold, InitLives, At, Live, Children
  <2> QED
    BY <2>2, <2>3 DEF LifeStep
<1>2. ASSUME NEW s \in Slots, InitForks(s) PROVE PInv' /\ LifeStep
  BY <1>2, ForkKeeps DEF InitForks, IsInit, LifeStep
<1>3. ASSUME Awaited PROVE InitStays
  BY <1>3 DEF Awaited, InitStays, InitLives
<1>4. ASSUME NEW s \in Slots, Kernel(s) \/ Program(s) \/ do_signal(s), Awaited
      PROVE  PInv' /\ (InitLives' => LifeStep)
  <2>1. PidArgs \in SUBSET Int /\ -1 \in Int
    <3>1. Pids \in SUBSET Int
      BY ProcessAssumption
    <3>2. \A g \in 2..MAX_GROUP : -g \in Int
      BY ProcessAssumption
    <3>3. -1 \in Int /\ 0 \in Int
      OBVIOUS
    <3>4. \A x \in PidArgs : x = -1 \/ x = 0 \/ x \in Pids \/ \E g \in 2..MAX_GROUP : x = -g
      BY DEF PidArgs
    <3> QED
      BY <3>1, <3>2, <3>3, <3>4
  <2>2. CASE \E pid \in Int : sys_waitpid(s, pid)
    BY <1>3, <1>4, <2>2, WaitpidKeeps DEF LifeStep
  <2>3. CASE ExitEnd(s) \/ WaitResume(s)
    BY <1>3, <1>4, <2>3, ExitEndKeeps, ResumeKeeps DEF LifeStep
  <2>4. CASE copy_process(s)
    BY <1>3, <1>4, <2>4, ForkKeeps DEF InitStays, LifeStep
  <2>5. CASE sys_exit(s) \/ do_signal(s)
    BY <1>3, <1>4, <2>5, ExitKeeps, SignalKeeps DEF LifeStep
  <2> QED
    BY <1>4, <2>1, <2>2, <2>3, <2>4, <2>5 DEF Kernel, Program, InitWaits
<1>5. ASSUME NEW s \in Slots, Control(s), Awaited PROVE PInv' /\ LifeStep
  BY <1>3, <1>5, KillKeeps, FieldCalls DEF Control, LifeStep
<1> QED
  BY <1>1, <1>2, <1>4, <1>5 DEF Next

(* The inductive invariant holds always.                                     *)
THEOREM ProcessInv == Spec => []PInv
  BY InitPInv, StepPInv, PTL DEF Spec

(* No task is left without a father that can wait for it, in any order of    *)
(* forks, exits and signals (exit.c, fork.c).                                *)
THEOREM ProcessFatherWaits == Spec => []FatherWaits
<1>1. PInv => FatherWaits
  BY DEF PInv
<1> QED
  BY <1>1, ProcessInv, PTL

(* waitpid never sleeps on a zombie it asked for without SIGCHLD pending.    *)
THEOREM ProcessWaiterTold == Spec => []WaiterTold
<1>1. PInv => WaiterTold
  BY DEF PInv
<1> QED
  BY <1>1, ProcessInv, PTL

-----------------------------------------------------------------------------
(* The slot of each task's father, and the life of each slot, as Life has    *)
(* them.                                                                     *)
Lives == [s \in Slots |-> IF ~Live(s) THEN "free"
                          ELSE CASE pc[s] = "exit" -> "ending" [] pc[s] = "zombie" -> "zombie"
                                 [] OTHER -> "live"]
FatherSlots == [s \in Slots |-> IF Live(s) THEN SlotOf(s) ELSE NULL]

(* While init lives, the slot of the father is that of the one task with the *)
(* father's pid; init has none.                                              *)
FatherFound == \A c \in Slots :
  IF Live(c) /\ c # 1
  THEN /\ FatherSlots[c] \in Slots /\ Live(FatherSlots[c])
       /\ task[FatherSlots[c]].pid = task[c].father
       /\ pc[FatherSlots[c]] \in {"user", "wait"}
  ELSE FatherSlots[c] = NULL

(* FatherWaits and the unique pids give that.                                *)
LEMMA FatherIsFound == PInv /\ InitLives => FatherFound
<1> SUFFICES ASSUME PInv, InitLives, NEW c \in Slots
             PROVE  IF Live(c) /\ c # 1
                    THEN /\ FatherSlots[c] \in Slots /\ Live(FatherSlots[c])
                         /\ task[FatherSlots[c]].pid = task[c].father
                         /\ pc[FatherSlots[c]] \in {"user", "wait"}
                    ELSE FatherSlots[c] = NULL
  BY DEF FatherFound
<1>1. CASE Live(c) /\ c # 1
  <2>1. PICK f \in Slots : Live(f) /\ task[f].pid = task[c].father /\ pc[f] \in {"user", "wait"}
    BY <1>1 DEF PInv, FatherWaits
  <2>2. Fathers(c) = {f}
    BY <2>1 DEF Fathers, PInv, UniquePids
  <2>3. Min({f}) = f
    <3>1. {f} \in SUBSET Nat
      BY SlotOne
    <3> QED
      BY <3>1, MinOfNats
  <2>4. FatherSlots[c] = f
    BY <1>1, <2>2, <2>3 DEF FatherSlots, SlotOf
  <2> QED
    BY <1>1, <2>1, <2>4
<1>2. CASE c = 1
  <2>1. \A f \in Slots : Live(f) => task[f] \in Struct /\ task[f].pid # 0
    BY ProcessAssumption DEF PInv, PTypes, Live, Struct
  <2>2. Fathers(c) = {}
    BY <1>2, <2>1 DEF PInv, InitHere, Fathers
  <2> QED
    BY <1>2, <2>2 DEF FatherSlots, SlotOf
<1>3. CASE ~Live(c)
  BY <1>3 DEF FatherSlots
<1> QED
  BY <1>1, <1>2, <1>3

(* The life of a slot, by its task.                                          *)
LifeIs(t, l) == IF t = NULL THEN "free" ELSE IF l = "exit" THEN "ending"
                ELSE IF l = "zombie" THEN "zombie" ELSE "live"
LivesRight == \A s \in Slots : Lives[s] = LifeIs(task[s], pc[s])

LEMMA LivesAre == PTypes => LivesRight
  BY DEF Lives, PTypes, Live, LivesRight, LifeIs

(* A task whose father stays keeps the slot of its father.                   *)
LEMMA FatherSlotKept ==
  ASSUME PInv, PInv', FatherFound, FatherFound', NEW c \in Slots,
         task'[c] # NULL <=> task[c] # NULL,
         task[c] # NULL => task'[c].father = task[c].father,
         task[c] # NULL /\ c # 1 => /\ task'[FatherSlots[c]] # NULL
                                   /\ task'[FatherSlots[c]].pid = task[FatherSlots[c]].pid
  PROVE  FatherSlots'[c] = FatherSlots[c]
<1>1. CASE task[c] = NULL \/ c = 1
  BY <1>1 DEF FatherFound, Live
<1>2. CASE task[c] # NULL /\ c # 1
  <2>1. /\ FatherSlots[c] \in Slots /\ task[FatherSlots[c]] # NULL
        /\ task[FatherSlots[c]].pid = task[c].father
    BY <1>2 DEF FatherFound, Live
  <2>2. /\ FatherSlots'[c] \in Slots /\ task'[FatherSlots'[c]] # NULL
        /\ task'[FatherSlots'[c]].pid = task'[c].father
    BY <1>2 DEF FatherFound, Live
  <2>3. task'[FatherSlots[c]] # NULL /\ task'[FatherSlots[c]].pid = task'[c].father
    BY <1>2, <2>1
  <2> QED
    BY <2>1, <2>2, <2>3 DEF PInv, UniquePids, Live
<1> QED
  BY <1>1, <1>2

(* A step of the tasks is a step of Life, or none.                           *)
LEMMA StepLife ==
  PInv /\ PInv' /\ (InitLives' => LifeStep) => [Life!Next]_(Life!vars)
<1> SUFFICES ASSUME PInv, PInv', InitLives' => LifeStep PROVE [Life!Next]_(Life!vars)
  OBVIOUS
<1> USE DEF Life!Next, Life!InitGone, Life!vars
<1>1. CASE ~(InitLives /\ InitLives')
  BY <1>1
<1>2. CASE InitLives /\ InitLives'
  <2>1. FatherFound /\ FatherFound'
    <3>1. FatherFound
      BY <1>2, FatherIsFound
    <3>2. (PInv /\ InitLives)' => FatherFound'
      BY FatherIsFound, PTL
    <3> QED
      BY <1>2, <3>1, <3>2
  <2>2. /\ \A c \in Slots : Lives[c] = LifeIs(task[c], pc[c])
        /\ \A c \in Slots : Lives'[c] = LifeIs(task'[c], pc'[c])
    <3>1. PTypes' => LivesRight'
      BY LivesAre, PTL
    <3> QED
      BY <3>1, LivesAre DEF PInv, LivesRight
  <2>3. /\ Lives = [c \in Slots |-> Lives[c]] /\ Lives' = [c \in Slots |-> Lives'[c]]
        /\ FatherSlots = [c \in Slots |-> FatherSlots[c]]
        /\ FatherSlots' = [c \in Slots |-> FatherSlots'[c]]
    BY DEF Lives, FatherSlots
  <2>4. ASSUME NEW c \in Slots, Stay(c) PROVE Lives'[c] = Lives[c]
    BY <2>2, <2>4 DEF Stay, LifeIs
  <2>5. CASE Calm
    <3>1. \A c \in Slots : Lives'[c] = Lives[c]
      BY <2>4, <2>5 DEF Calm, Kept
    <3>2. \A c \in Slots : FatherSlots'[c] = FatherSlots[c]
      BY <2>1, <2>5, FatherSlotKept DEF Calm, Kept, Stay, FatherFound, Live
    <3>3. Lives' = Lives /\ FatherSlots' = FatherSlots
      BY <2>3, <3>1, <3>2
    <3> QED
      BY <1>2, <3>3 DEF Lives, FatherSlots
  <2>6. ASSUME NEW s \in Slots, NEW d \in Slots, Forked(s, d) PROVE Life!Fork(s, d)
    <3>1. Lives[s] = "live" /\ Lives[d] = "free" /\ Lives'[d] = "live"
      BY <2>2, <2>6 DEF Forked, LifeIs, At, Live
    <3>2. \A c \in Slots \ {d} : Lives'[c] = Lives[c]
      BY <2>4, <2>6 DEF Forked, Kept
    <3>3. ASSUME NEW c \in Slots \ {d} PROVE FatherSlots'[c] = FatherSlots[c]
      <4>1. task[c] # NULL /\ c # 1 => FatherSlots[c] \in Slots \ {d}
        BY <2>1, <2>6 DEF FatherFound, Forked, Live
      <4> QED
        BY <2>1, <2>6, <4>1, FatherSlotKept DEF Forked, Kept, Stay, FatherFound, Live
    <3>4. FatherSlots'[d] = s
      <4>1. d # 1
        BY <1>2, <2>6 DEF Forked, PInv, InitHere, Live
      <4>2. /\ FatherSlots'[d] \in Slots /\ task'[FatherSlots'[d]] # NULL
            /\ task'[FatherSlots'[d]].pid = task'[d].father
        BY <2>1, <2>6, <4>1 DEF FatherFound, Forked, Live
      <4>3. task'[s] # NULL /\ task'[s].pid = task'[d].father
        BY <2>6 DEF Forked, Kept, Stay, At, Live
      <4> QED
        BY <4>2, <4>3 DEF PInv, UniquePids, Live
    <3>5. Lives' = [Lives EXCEPT ![d] = "live"] /\ FatherSlots' = [FatherSlots EXCEPT ![d] = s]
      BY <2>3, <3>1, <3>2, <3>3, <3>4
    <3> QED
      BY <3>1, <3>5 DEF Life!Fork, Lives, FatherSlots
  <2>7. ASSUME NEW s \in Slots, Ended(s) PROVE Life!End(s)
    <3>1. Lives[s] = "live" /\ Lives'[s] = "ending"
      BY <2>2, <2>7 DEF Ended, LifeIs, At, Live
    <3>2. \A c \in Slots \ {s} : Lives'[c] = Lives[c]
      BY <2>4, <2>7 DEF Ended
    <3>3. ASSUME NEW c \in Slots
          PROVE  FatherSlots'[c] = IF FatherSlots[c] = s THEN 1 ELSE FatherSlots[c]
      <4>1. \A x \in Slots : /\ task'[x] # NULL <=> task[x] # NULL
                             /\ task[x] # NULL => task'[x].pid = task[x].pid
        BY <2>7 DEF Ended, Stay, At, Live
      <4>2. NULL # s
        BY SlotOne, ProcessAssumption
      <4>3. CASE task[c] = NULL \/ c = 1
        BY <2>1, <4>1, <4>2, <4>3 DEF FatherFound, Live
      <4>4. CASE task[c] # NULL /\ c # 1
        <5>1. /\ FatherSlots[c] \in Slots /\ task[FatherSlots[c]] # NULL
              /\ task[FatherSlots[c]].pid = task[c].father
          BY <2>1, <4>4 DEF FatherFound, Live
        <5>2. CASE task[c].father = task[s].pid
          <6>1. FatherSlots[c] = s
            BY <2>7, <5>1, <5>2 DEF PInv, UniquePids, Ended, At, Live
          <6>2. task'[c].father = 1 /\ task'[1] # NULL /\ task'[1].pid = 1
            BY <1>2, <2>7, <4>4, <5>2 DEF Ended, PInv, InitHere, Live
          <6>3. /\ FatherSlots'[c] \in Slots /\ task'[FatherSlots'[c]] # NULL
                /\ task'[FatherSlots'[c]].pid = task'[c].father
            BY <2>1, <4>1, <4>4 DEF FatherFound, Live
          <6>4. FatherSlots'[c] = 1
            BY <6>2, <6>3, SlotOne DEF PInv, UniquePids, Live
          <6> QED
            BY <6>1, <6>4
        <5>3. CASE task[c].father # task[s].pid
          <6>1. FatherSlots[c] # s /\ task'[c].father = task[c].father
            BY <2>7, <4>4, <5>1, <5>3 DEF Ended
          <6>2. FatherSlots'[c] = FatherSlots[c]
            BY <2>1, <4>1, <5>1, <6>1, FatherSlotKept
          <6> QED
            BY <6>1, <6>2
        <5> QED
          BY <5>2, <5>3
      <4> QED
        BY <4>3, <4>4
    <3>4. /\ Lives' = [Lives EXCEPT ![s] = "ending"]
          /\ FatherSlots' = [c \in Slots |-> IF FatherSlots[c] = s THEN 1 ELSE FatherSlots[c]]
      BY <2>3, <3>1, <3>2, <3>3
    <3> QED
      BY <3>1, <3>4 DEF Life!End, Lives, FatherSlots
  <2>8. ASSUME NEW s \in Slots, Died(s) PROVE Life!Die(s)
    <3>1. Lives[s] = "ending" /\ Lives'[s] = "zombie"
      BY <2>2, <2>8 DEF Died, LifeIs, At, Live
    <3>2. \A c \in Slots \ {s} : Lives'[c] = Lives[c]
      BY <2>4, <2>8 DEF Died, Kept
    <3>3. ASSUME NEW c \in Slots PROVE FatherSlots'[c] = FatherSlots[c]
      <4>1. \A x \in Slots : /\ task'[x] # NULL <=> task[x] # NULL
                             /\ task[x] # NULL => /\ task'[x].pid = task[x].pid
                                                  /\ task'[x].father = task[x].father
        BY <2>8 DEF Died, Kept, Stay, At, Live
      <4> QED
        BY <2>1, <4>1, FatherSlotKept DEF FatherFound, Live
    <3>4. Lives' = [Lives EXCEPT ![s] = "zombie"] /\ FatherSlots' = FatherSlots
      BY <2>3, <3>1, <3>2, <3>3
    <3> QED
      BY <3>1, <3>4 DEF Life!Die, Lives, FatherSlots
  <2>9. ASSUME NEW s \in Slots, NEW d \in Slots, Reaped(s, d) PROVE Life!Reap(s, d)
    <3>1. Lives[s] = "live" /\ Lives[d] = "zombie" /\ Lives'[d] = "free"
      BY <2>2, <2>9 DEF Reaped, LifeIs, At, Live
    <3>2. \A c \in Slots \ {d} : Lives'[c] = Lives[c]
      BY <2>4, <2>9 DEF Reaped, Kept
    <3>3. ASSUME NEW c \in Slots \ {d} PROVE FatherSlots'[c] = FatherSlots[c]
      <4>1. task[c] # NULL /\ c # 1 => FatherSlots[c] \in Slots \ {d}
        BY <2>1, <2>9 DEF FatherFound, Reaped, At, Live
      <4> QED
        BY <2>1, <2>9, <4>1, FatherSlotKept DEF Reaped, Kept, Stay, FatherFound, Live
    <3>4. FatherSlots[d] = s /\ FatherSlots'[d] = NULL
      <4>1. d # 1
        BY <1>2, <2>9 DEF Reaped, PInv, InitHere, At, Live
      <4>2. /\ FatherSlots[d] \in Slots /\ task[FatherSlots[d]] # NULL
            /\ task[FatherSlots[d]].pid = task[d].father
        BY <2>1, <2>9, <4>1 DEF FatherFound, Reaped, At, Live
      <4>3. FatherSlots'[d] = NULL
        BY <2>1, <2>9 DEF FatherFound, Reaped, Live
      <4> QED
        BY <2>9, <4>2, <4>3 DEF PInv, UniquePids, Reaped, Live
    <3>5. Lives' = [Lives EXCEPT ![d] = "free"] /\ FatherSlots' = [FatherSlots EXCEPT ![d] = NULL]
      BY <2>3, <3>1, <3>2, <3>3, <3>4
    <3> QED
      BY <3>1, <3>4, <3>5 DEF Life!Reap, Lives, FatherSlots
  <2> QED
    BY <1>2, <2>5, <2>6, <2>7, <2>8, <2>9 DEF LifeStep
<1> QED
  BY <1>1, <1>2

(* Fork, exit and waitpid do what TaskLife promises about the slots of the   *)
(* task table, step by step (that init collects its zombies in the end is a  *)
(* matter of fairness and not part of it).                                   *)
THEOREM ProcessImplementsLife == Spec => Life!Init /\ [][Life!Next]_(Life!vars)
<1>1. Init => Life!Init
  <2> SUFFICES ASSUME Init PROVE Life!Init
    OBVIOUS
  <2>1. PInv /\ InitLives
    BY InitPInv, ProcessAssumption DEF Init, InitLives
  <2>2. \A s \in Slots : Live(s) <=> s = 1
    BY <2>1 DEF Init, Live, PInv, InitHere
  <2>3. FatherFound /\ LivesRight
    BY <2>1, FatherIsFound, LivesAre DEF PInv
  <2>4. Lives = [s \in Slots |-> IF s = 1 THEN "live" ELSE "free"]
    <3>1. \A s \in Slots : Lives[s] = IF s = 1 THEN "live" ELSE "free"
      BY <2>2, <2>3 DEF LivesRight, LifeIs, Live, Init
    <3>2. Lives = [s \in Slots |-> Lives[s]]
      BY DEF Lives
    <3> QED
      BY <3>1, <3>2
  <2>5. FatherSlots = [s \in Slots |-> NULL]
    <3>1. \A s \in Slots : FatherSlots[s] = NULL
      BY <2>2, <2>3 DEF FatherFound
    <3>2. FatherSlots = [s \in Slots |-> FatherSlots[s]]
      BY DEF FatherSlots
    <3> QED
      BY <3>1, <3>2
  <2> QED
    BY <2>1, <2>4, <2>5 DEF Life!Init, Lives, FatherSlots
<1>2. PInv /\ PInv' /\ [Next]_vars => [Life!Next]_(Life!vars)
  BY StepPInv, StepLife
<1> QED
  BY <1>1, <1>2, ProcessInv, PTL DEF Spec

-----------------------------------------------------------------------------
(* The name space (Namei): what the device and the locals of a call are.      *)
Dirents == [name : Names, ino : 0..NR_INODES]
Nodes == [mode : {"none", "reg", "dir"}, nlinks : 0..255, zone : Seq(1..NR_BLOCKS), ent : Seq(Dirents)]
Faults == {"none", "free_block", "stale iget", "stale entry", "deleting nonexistent file",
           "entered while removed", "block in use", "block allocated twice",
           "removed from a removed directory", "name added twice", "added to a removed directory"}
Systems == [imap : SUBSET Inodes, zmap : SUBSET (1..NR_BLOCKS), fault : Faults,
            node : [Inodes -> Nodes], count : [Inodes -> Int]]
Locals == [pc : {"idle", "find", "iget", "unlinked", "empty", "rmdir", "rmdirred", "new", "fill",
                 "add", "linked", "getblk", "copy"},
           op : Ops \cup {"none", "write"}, path : Seq(Names), to : Seq(Names),
           dir : 0..NR_INODES, ino : 0..NR_INODES, old : 0..NR_INODES, inr : 0..NR_INODES,
           slot : Nat, blk : Nat, new : 0..NR_BLOCKS, len : Nat]

(* What a call keeps in its locals l at each of its points, and in the file    *)
(* a of its task.                                                            *)
Local(l, a) ==
  /\ l.pc \in {"idle", "copy"} => l.dir = 0 /\ l.ino = 0 /\ l.old = 0
  /\ l.pc \notin {"idle", "copy"} => l.path # <<>> \/ (l.pc = "getblk" /\ l.op = "write")
  /\ l.pc = "getblk" => /\ l.new # 0
                        /\ IF l.op = "write" THEN l.dir = 0 /\ l.ino = 0 /\ l.old = 0 /\ a # 0
                           ELSE l.dir # 0 /\ IF l.op = "link" THEN l.old # 0 ELSE l.ino # 0
  /\ l.pc = "find" => l.dir # 0 /\ l.ino = 0
  /\ l.pc = "iget" => /\ l.inr # 0 /\ l.ino = 0 /\ l.old = 0
                      /\ l.dir # 0 <=> l.op \in {"rmdir", "unlink"} /\ Len(l.path) = 1
  /\ l.pc = "new" => l.dir # 0 /\ l.ino = 0
  /\ l.pc \in {"new", "fill"} => l.op # "link"
  /\ l.pc \in {"fill", "unlinked", "empty", "rmdir", "rmdirred"} => l.dir # 0 /\ l.ino # 0
  /\ l.pc = "add" => l.dir # 0 /\ IF l.op = "link" THEN l.old # 0 ELSE l.ino # 0
  /\ l.pc = "linked" => l.old # 0
  /\ l.old # 0 => l.op = "link" /\ Len(l.path) = 1
  /\ l.op = "link" /\ l.old = 0 => Len(l.to) = 1
  /\ l.op = "write" => l.pc \in {"getblk", "copy"}
  /\ l.op \in {"open", "creat", "excl"} => a = 0

(* The references to n: of the tasks of T and of the super block, when the      *)
(* files are A, the working directories B and the locals L.                   *)
Refs(T, A, B, L, n) == (IF n = ROOT_INO THEN 2 ELSE 0)
  + Cardinality({u \in T : A[u] = n}) + Cardinality({u \in T : B[u] = n})
  + Cardinality({u \in T : L[u].dir = n}) + Cardinality({u \in T : L[u].ino = n})
  + Cardinality({u \in T : L[u].old = n})

(* Those of the tasks other than t.                                          *)
Others(t) == [n \in Inodes |-> Refs(Tasks \ {t}, file, pwd, loc, n)]

(* The counts of f are those of r, and only an inode that no one has a          *)
(* reference to is free.                                                     *)
Counted(f, r) ==
  /\ f \in Systems /\ r \in [Inodes -> Nat]
  /\ \A n \in Inodes : f.count[n] = r[n] /\ (n \notin f.imap => r[n] = 0)

(* The references o, and those to a, b, x, y and z that are not 0.            *)
Sum(o, a, b, x, y, z) == [n \in Inodes |-> o[n] + Is(a, n) + Is(b, n) + Is(x, n) + Is(y, n) + Is(z, n)]

Balanced(f, o, a, b, x, y, z) ==
  /\ o \in [Inodes -> Nat] /\ {a, b, x, y, z} \subseteq 0..NR_INODES
  /\ Counted(f, Sum(o, a, b, x, y, z))

(* A call of t has made f of the device, and has the locals l.                *)
Held(t, f, l) == Balanced(f, Others(t), file[t], pwd[t], l.dir, l.ino, l.old)

Restaled == stale' = {t \in Tasks : loc'[t].inr # 0 /\ (t \in stale \/ loc'[t].inr \notin fs'.imap)}

(* The invariant, until the model stops.                                     *)
Working ==
  /\ fs \in Systems
  /\ file \in [Tasks -> 0..NR_INODES] /\ pwd \in [Tasks -> Inodes] /\ loc \in [Tasks -> Locals]
  /\ \A t \in Tasks : Local(loc[t], file[t])
  /\ \A t \in Tasks : t \notin stale /\ loc[t].inr # 0 => loc[t].inr \in fs.imap
  /\ \A n \in Inodes : n \notin fs.imap => fs.count[n] = 0
  /\ RefsAccounted

NInv == fs.fault = "none" => Working

-----------------------------------------------------------------------------
(* What the constants are.                                                   *)
LEMMA Sizes ==
  /\ IsFiniteSet(Tasks) /\ NR_INODES \in Nat /\ NR_INODES >= 1 /\ NR_BLOCKS \in Nat /\ NR_BLOCKS >= 1
  /\ PER_BLOCK \in Nat /\ PER_BLOCK >= 1 /\ ROOT_INO \in Inodes /\ Inodes \subseteq Nat
  /\ \A n : n \in 0..NR_INODES <=> n = 0 \/ n \in Inodes
  /\ 0 \notin Inodes
  BY NameiAssumption DEF ROOT_INO, Inodes

(* The tasks of T with the value n.                                          *)
Having(T, F, n) == {u \in T : F[u] = n}

(* One task more or less of those.                                           *)
LEMMA CountBut ==
  ASSUME NEW t \in Tasks, NEW F, NEW n
  PROVE  /\ Cardinality(Having(Tasks, F, n)) = Cardinality(Having(Tasks \ {t}, F, n)) + Is(F[t], n)
         /\ Cardinality(Having(Tasks \ {t}, F, n)) \in Nat
<1> DEFINE P == {u \in Tasks : F[u] = n}
           Q == {u \in Tasks \ {t} : F[u] = n}
<1>1. IsFiniteSet(Q)
  BY Sizes, FS_Subset, FS_RemoveElement
<1>2. Cardinality(Q) \in Nat
  BY <1>1, FS_CardinalityType
<1>3. P = IF F[t] = n THEN Q \cup {t} ELSE Q
  OBVIOUS
<1>4. t \notin Q
  OBVIOUS
<1>5. Cardinality(Q \cup {t}) = Cardinality(Q) + 1
  BY <1>1, <1>4, FS_AddElement
<1> HIDE DEF P, Q
<1>6. Cardinality(P) = Cardinality(Q) + Is(F[t], n)
  BY <1>2, <1>3, <1>5 DEF Is
<1> QED
  BY <1>2, <1>6 DEF P, Q, Having

-----------------------------------------------------------------------------
(* What the operations on the device, other than those on i_count, leave as   *)
(* it is.                                                                    *)
SameRefs(f, g) == g \in Systems /\ g.imap = f.imap /\ g.count = f.count

(* free_block.                                                               *)
LEMMA FreeBlocksKeeps ==
  ASSUME NEW f \in Systems, NEW S
  PROVE  SameRefs(f, free_blocks(f, S)) /\ free_blocks(f, S).node = f.node
  BY DEF Systems, SameRefs, free_blocks, Faults

(* A change of one inode.                                                    *)
LEMMA NodeKeeps ==
  ASSUME NEW f \in Systems, NEW n \in Inodes, NEW e \in Nodes
  PROVE  SameRefs(f, [f EXCEPT !.node[n] = e])
  BY DEF Systems, SameRefs

(* The links of an inode are counted.                                        *)
LEMMA LinksKeeps ==
  ASSUME NEW f \in Systems, NEW n \in Inodes, NEW k \in Int
  PROVE  SameRefs(f, Links(f, n, k))
<1> DEFINE e == [f.node[n] EXCEPT !.nlinks = (@ + k) % 256]
<1>0. f.node[n] \in Nodes
  BY DEF Systems
<1>1. e \in Nodes
  <2>0. f.node[n].nlinks \in 0..255
    BY <1>0 DEF Nodes
  <2>1. PICK x \in Int : x = f.node[n].nlinks + k
    BY <2>0
  <2>2. PICK m : m = x % 256
    OBVIOUS
  <2>3. m \in 0..255
    BY <2>2
  <2>4. [f.node[n] EXCEPT !.nlinks = m] \in Nodes
    BY <1>0, <2>3 DEF Nodes
  <2> QED
    BY <2>1, <2>2, <2>4
<1>2. Links(f, n, k) = [f EXCEPT !.node[n] = e]
  BY DEF Links, Systems
<1> QED
  BY <1>1, <1>2, NodeKeeps

(* truncate, which may find a block that is free.                            *)
LEMMA TruncateKeeps ==
  ASSUME NEW f \in Systems, NEW n \in Inodes
  PROVE  SameRefs(f, truncate(f, n))
<1>1. CASE ~(f.node[n].mode \in {"reg", "dir"})
  BY <1>1 DEF truncate, SameRefs
<1>2. CASE f.node[n].mode \in {"reg", "dir"}
  <2> DEFINE g == free_blocks(f, ToSet(f.node[n].zone))
             e == [g.node[n] EXCEPT !.zone = <<>>, !.ent = <<>>]
  <2>1. SameRefs(f, g) /\ g \in Systems
    BY FreeBlocksKeeps DEF SameRefs
  <2>2. truncate(f, n) = [g EXCEPT !.node[n].zone = <<>>, !.node[n].ent = <<>>]
    BY <1>2 DEF truncate
  <2> HIDE DEF g
  <2>3. e \in Nodes
    <3>1. <<>> \in Seq(1..NR_BLOCKS) /\ <<>> \in Seq(Dirents)
      OBVIOUS
    <3>2. g.node[n] \in Nodes
      BY <2>1 DEF Systems
    <3> QED
      BY <3>1, <3>2 DEF Nodes
  <2>4. truncate(f, n) = [g EXCEPT !.node[n] = e]
    BY <2>1, <2>2 DEF Systems
  <2> HIDE DEF e
  <2>5. SameRefs(g, [g EXCEPT !.node[n] = e])
    BY <2>1, <2>3, NodeKeeps
  <2> QED
    BY <2>1, <2>4, <2>5 DEF SameRefs
<1> QED
  BY <1>1, <1>2

(* new_block, when there is one; its block becomes the next of an inode.     *)
LEMMA NewBlockKeeps ==
  ASSUME NEW f \in Systems, FreeBlocks(f) # {}
  PROVE  SameRefs(f, new_block(f)) /\ Min(FreeBlocks(f)) \in 1..NR_BLOCKS
<1> DEFINE b == Min(FreeBlocks(f))
<1>1. b \in FreeBlocks(f)
  <2>1. FreeBlocks(f) \in SUBSET Nat
    BY Sizes DEF FreeBlocks
  <2> QED
    BY <2>1, MinOfNats
<1>2. b \in 1..NR_BLOCKS
  BY <1>1 DEF FreeBlocks
<1>3. new_block(f) = [f EXCEPT !.zmap = @ \cup {b}]
  BY DEF new_block
<1> HIDE DEF b
<1>4. SameRefs(f, new_block(f))
  BY <1>2, <1>3 DEF Systems, SameRefs
<1> QED
  BY <1>2, <1>4 DEF b

LEMMA NextZoneKeeps ==
  ASSUME NEW f \in Systems, NEW n \in Inodes, NEW b \in 1..NR_BLOCKS
  PROVE  SameRefs(f, NextZone(f, n, b))
<1> DEFINE e == [f.node[n] EXCEPT !.zone = Append(@, b)]
<1>1. e \in Nodes
  <2>1. f.node[n] \in Nodes
    BY DEF Systems
  <2>2. f.node[n].zone \in Seq(1..NR_BLOCKS)
    BY <2>1 DEF Nodes
  <2>3. Append(f.node[n].zone, b) \in Seq(1..NR_BLOCKS)
    BY <2>2
  <2> QED
    BY <2>1, <2>3 DEF Nodes
<1>2. NextZone(f, n, b) = [f EXCEPT !.node[n] = e]
  BY DEF NextZone, Systems
<1> HIDE DEF e
<1> QED
  BY <1>1, <1>2, NodeKeeps

(* A device with other inodes in use, counts and inodes.                     *)
Rewritten(f, S, c, N, g) ==
  /\ f \in Systems /\ S \in SUBSET Inodes /\ c \in [Inodes -> Int] /\ N \in [Inodes -> Nodes]
  /\ g = [f EXCEPT !.imap = S, !.count = c, !.node = N]

(* What becomes of it.                                                       *)
LEMMA SystemSet ==
  ASSUME NEW f, NEW S, NEW c, NEW N, NEW g, Rewritten(f, S, c, N, g)
  PROVE  g \in Systems /\ g.imap = S /\ g.count = c
  BY DEF Systems, Rewritten

(* An inode that is given back, or made: nothing of it is left.               *)
LEMMA NothingIs ==
  /\ Nothing \in Nodes /\ [Nothing EXCEPT !.nlinks = 1] \in Nodes
<1>1. <<>> \in Seq(1..NR_BLOCKS) /\ <<>> \in Seq(Dirents)
  OBVIOUS
<1>2. Nothing \in Nodes
  BY <1>1 DEF Nothing, Nodes
<1>3. [Nothing EXCEPT !.nlinks = 1] \in Nodes
  BY <1>2 DEF Nodes
<1> QED
  BY <1>2, <1>3

(* iput: a reference less, and at the last of an inode without links the       *)
(* inode is free.                                                            *)
LEMMA IputFacts ==
  ASSUME NEW f \in Systems, NEW n \in Inodes, f.count[n] >= 1
  PROVE  /\ iput(f, n) \in Systems
         /\ \A m \in Inodes : iput(f, n).count[m] = f.count[m] - Is(n, m)
         /\ \/ iput(f, n).imap = f.imap
            \/ iput(f, n).imap = f.imap \ {n} /\ iput(f, n).count[n] = 0
<1> DEFINE more == f.count[n] > 1 \/ f.node[n].nlinks # 0
<1>0. n # 0 /\ f.count \in [Inodes -> Int] /\ f.count[n] \in Int
  BY Sizes DEF Systems
<1>1. CASE more
  <2>1. iput(f, n) = [f EXCEPT !.count[n] = @ - 1]
    BY <1>0, <1>1 DEF iput
  <2> QED
    BY <1>0, <2>1 DEF Systems, Is
<1>2. CASE ~more
  <2> DEFINE g == truncate(f, n)
  <2>1. iput(f, n) = free_inode(g, n)
    BY <1>0, <1>2 DEF iput
  <2>2. SameRefs(f, g)
    BY TruncateKeeps
  <2> HIDE DEF g
  <2>3. f.count[n] = 1
    BY <1>0, <1>2
  <2>4. /\ free_inode(g, n) \in Systems /\ free_inode(g, n).imap = g.imap \ {n}
        /\ free_inode(g, n).count = [g.count EXCEPT ![n] = 0]
    <3>1. PICK e \in Nodes : e = Nothing
      BY NothingIs
    <3>2. free_inode(g, n) = [g EXCEPT !.imap = @ \ {n}, !.count[n] = 0, !.node[n] = e]
      BY <3>1 DEF free_inode
    <3>3. g \in Systems
      BY <2>2 DEF SameRefs
    <3>4. [g.node EXCEPT ![n] = e] \in [Inodes -> Nodes] /\ [g.count EXCEPT ![n] = 0] \in [Inodes -> Int]
      BY <3>3 DEF Systems
    <3>5. free_inode(g, n) = [g EXCEPT !.imap = g.imap \ {n}, !.count = [g.count EXCEPT ![n] = 0],
                                      !.node = [g.node EXCEPT ![n] = e]]
      BY <3>2, <3>3 DEF Systems
    <3>6. g.imap \ {n} \in SUBSET Inodes
      BY <3>3 DEF Systems
    <3>7. PICK S \in SUBSET Inodes : S = g.imap \ {n}
      BY <3>6
    <3>8. PICK c \in [Inodes -> Int] : c = [g.count EXCEPT ![n] = 0]
      BY <3>4
    <3>9. PICK N \in [Inodes -> Nodes] : N = [g.node EXCEPT ![n] = e]
      BY <3>4
    <3>10. Rewritten(g, S, c, N, free_inode(g, n))
      BY <3>3, <3>5, <3>7, <3>8, <3>9 DEF Rewritten
    <3>11. free_inode(g, n) \in Systems /\ free_inode(g, n).imap = S /\ free_inode(g, n).count = c
      BY <3>10, SystemSet
    <3> QED
      BY <3>7, <3>8, <3>11
  <2> QED
    BY <1>0, <2>1, <2>2, <2>3, <2>4 DEF SameRefs, Is
<1> QED
  BY <1>1, <1>2


(* An entry of a directory is written.                                       *)
LEMMA EntKeeps ==
  ASSUME NEW f \in Systems, NEW n \in Inodes, NEW q \in Seq(Dirents)
  PROVE  SameRefs(f, [f EXCEPT !.node[n].ent = q])
<1> DEFINE e == [f.node[n] EXCEPT !.ent = q]
<1>1. f.node[n] \in Nodes
  BY DEF Systems
<1>2. e \in Nodes
  BY <1>1 DEF Nodes
<1>3. [f EXCEPT !.node[n].ent = q] = [f EXCEPT !.node[n] = e]
  BY DEF Systems
<1> QED
  BY <1>2, <1>3, NodeKeeps

(* The entries of a directory.                                               *)
LEMMA EntFacts ==
  ASSUME NEW f \in Systems, NEW n \in Inodes
  PROVE  /\ f.node[n] \in Nodes /\ f.node[n].ent \in Seq(Dirents) /\ Len(f.node[n].ent) \in Nat
         /\ DOMAIN f.node[n].ent = 1..Len(f.node[n].ent)
         /\ \A i \in DOMAIN f.node[n].ent : f.node[n].ent[i] \in Dirents /\ f.node[n].ent[i].ino \in 0..NR_INODES
<1>1. f.node[n] \in Nodes
  BY DEF Systems
<1>2. f.node[n].ent \in Seq(Dirents)
  BY <1>1 DEF Nodes
<1>3. \A i \in DOMAIN f.node[n].ent : f.node[n].ent[i] \in Dirents
  BY <1>2
<1>4. \A e \in Dirents : e.ino \in 0..NR_INODES
  BY DEF Dirents
<1> QED
  BY <1>1, <1>2, <1>3, <1>4

(* An entry is cleared.                                                      *)
LEMMA ClearKeeps ==
  ASSUME NEW f \in Systems, NEW l, l.dir \in Inodes, l.slot \in DOMAIN f.node[l.dir].ent
  PROVE  SameRefs(f, Clear(f, l))
<1>1. PICK d \in Inodes : d = l.dir
  OBVIOUS
<1> DEFINE q == f.node[d].ent
<1>2. q \in Seq(Dirents) /\ DOMAIN q = 1..Len(q) /\ \A i \in DOMAIN q : q[i] \in Dirents
  BY <1>1, EntFacts
<1>3. PICK i \in 1..Len(q) : i = l.slot
  BY <1>1, <1>2
<1> DEFINE e == [q[i] EXCEPT !.ino = 0]
<1>4. e \in Dirents
  <2>1. q[i] \in Dirents /\ 0 \in 0..NR_INODES
    BY <1>2, Sizes
  <2> QED
    BY <2>1 DEF Dirents
<1> HIDE DEF e
<1>5. [q EXCEPT ![i] = e] \in Seq(Dirents)
  <2> HIDE DEF q
  <2> QED
    BY <1>2, <1>4, ExceptSeq
<1>6. Clear(f, l) = [f EXCEPT !.node[d].ent = [q EXCEPT ![i] = e]]
  BY <1>1, <1>3 DEF Clear, Systems, e
<1>7. PICK p \in Seq(Dirents) : p = [q EXCEPT ![i] = e]
  BY <1>5
<1>8. SameRefs(f, [f EXCEPT !.node[d].ent = p])
  BY EntKeeps
<1> QED
  BY <1>6, <1>7, <1>8

(* iget: a reference more.                                                   *)
LEMMA IgetFacts ==
  ASSUME NEW f \in Systems, NEW n \in Inodes
  PROVE  /\ iget(f, n) \in Systems /\ iget(f, n).imap = f.imap /\ iget(f, n).node = f.node
         /\ \A m \in Inodes : iget(f, n).count[m] = f.count[m] + Is(n, m)
  BY DEF iget, Systems, Is

(* new_inode: a free inode with one reference.                               *)
LEMMA NewInodeFacts ==
  ASSUME NEW f \in Systems, NEW n \in Inodes, f.count[n] = 0
  PROVE  /\ new_inode(f, n) \in Systems /\ new_inode(f, n).imap = f.imap \cup {n}
         /\ \A m \in Inodes : new_inode(f, n).count[m] = f.count[m] + Is(n, m)
<1>1. PICK e \in Nodes : e = [Nothing EXCEPT !.nlinks = 1]
  BY NothingIs
<1>2. new_inode(f, n) = [f EXCEPT !.imap = @ \cup {n}, !.count[n] = 1, !.node[n] = e]
  BY <1>1 DEF new_inode
<1>3. [f.node EXCEPT ![n] = e] \in [Inodes -> Nodes] /\ [f.count EXCEPT ![n] = 1] \in [Inodes -> Int]
  BY DEF Systems
<1>4. new_inode(f, n) = [f EXCEPT !.imap = f.imap \cup {n}, !.count = [f.count EXCEPT ![n] = 1],
                                  !.node = [f.node EXCEPT ![n] = e]]
  BY <1>2 DEF Systems
<1>5. \A m \in Inodes : [f.count EXCEPT ![n] = 1][m] = f.count[m] + Is(n, m)
  BY DEF Systems, Is
<1>6. f.imap \cup {n} \in SUBSET Inodes
  BY DEF Systems
<1>7. PICK S \in SUBSET Inodes : S = f.imap \cup {n}
  BY <1>6
<1>8. PICK c \in [Inodes -> Int] : c = [f.count EXCEPT ![n] = 1]
  BY <1>3
<1>9. PICK N \in [Inodes -> Nodes] : N = [f.node EXCEPT ![n] = e]
  BY <1>3
<1>10. Rewritten(f, S, c, N, new_inode(f, n))
  BY <1>4, <1>7, <1>8, <1>9 DEF Rewritten
<1>11. new_inode(f, n) \in Systems /\ new_inode(f, n).imap = S /\ new_inode(f, n).count = c
  BY <1>10, SystemSet
<1> QED
  BY <1>5, <1>7, <1>8, <1>11

-----------------------------------------------------------------------------
(* iput: what that means for the references.                                 *)
LEMMA CountedIput ==
  ASSUME NEW f, NEW r, NEW q, NEW n \in Inodes, Counted(f, r), q \in [Inodes -> Nat],
         \A m \in Inodes : r[m] = q[m] + Is(n, m)
  PROVE  Counted(iput(f, n), q)
<1>1. f \in Systems /\ f.count \in [Inodes -> Int] /\ f.imap \in SUBSET Inodes
  BY DEF Counted, Systems
<1>2. f.count[n] >= 1
  BY DEF Counted, Is
<1> DEFINE g == iput(f, n)
<1>3. /\ g \in Systems /\ \A m \in Inodes : g.count[m] = f.count[m] - Is(n, m)
      /\ \/ g.imap = f.imap
         \/ g.imap = f.imap \ {n} /\ g.count[n] = 0
  BY <1>1, <1>2, IputFacts
<1> HIDE DEF g
<1>4. ASSUME NEW m \in Inodes PROVE g.count[m] = q[m]
  BY <1>1, <1>3 DEF Counted, Is
<1>5. ASSUME NEW m \in Inodes, m \notin g.imap PROVE q[m] = 0
  <2>1. CASE m \notin f.imap
    BY <2>1 DEF Counted, Is
  <2>2. CASE m \in f.imap
    <3>1. m = n /\ g.count[n] = 0
      BY <1>3, <1>5, <2>2
    <3> QED
      BY <1>4, <3>1
  <2> QED
    BY <2>1, <2>2
<1>6. Counted(g, q)
  BY <1>3, <1>4, <1>5 DEF Counted
<1> QED
  BY <1>6 DEF g

(* iget is a reference more ...                                              *)
LEMMA CountedIget ==
  ASSUME NEW f, NEW r, NEW q, NEW n \in Inodes, Counted(f, r), q \in [Inodes -> Nat], n \in f.imap,
         \A m \in Inodes : q[m] = r[m] + Is(n, m)
  PROVE  Counted(iget(f, n), q)
<1>1. f \in Systems
  BY DEF Counted
<1> DEFINE g == iget(f, n)
<1>2. g \in Systems /\ g.imap = f.imap /\ \A m \in Inodes : g.count[m] = f.count[m] + Is(n, m)
  BY <1>1, IgetFacts
<1> HIDE DEF g
<1>3. ASSUME NEW m \in Inodes PROVE g.count[m] = q[m]
  BY <1>2 DEF Counted
<1>4. ASSUME NEW m \in Inodes, m \notin g.imap PROVE q[m] = 0
  BY <1>2, <1>4 DEF Counted, Is
<1>5. Counted(g, q)
  BY <1>2, <1>3, <1>4 DEF Counted
<1> QED
  BY <1>5 DEF g

(* ... and so is new_inode, of an inode no one had a reference to.           *)
LEMMA CountedNew ==
  ASSUME NEW f, NEW r, NEW q, NEW n \in Inodes, Counted(f, r), q \in [Inodes -> Nat], n \notin f.imap,
         \A m \in Inodes : q[m] = r[m] + Is(n, m)
  PROVE  Counted(new_inode(f, n), q)
<1>1. f \in Systems /\ f.count[n] = 0
  BY DEF Counted
<1> DEFINE g == new_inode(f, n)
<1>2. g \in Systems /\ g.imap = f.imap \cup {n} /\ \A m \in Inodes : g.count[m] = f.count[m] + Is(n, m)
  BY <1>1, NewInodeFacts
<1> HIDE DEF g
<1>3. ASSUME NEW m \in Inodes PROVE g.count[m] = q[m]
  BY <1>2 DEF Counted
<1>4. ASSUME NEW m \in Inodes, m \notin g.imap PROVE q[m] = 0
  BY <1>2, <1>4 DEF Counted, Is
<1>5. Counted(g, q)
  BY <1>2, <1>3, <1>4 DEF Counted
<1> QED
  BY <1>5 DEF g

(* The sum is a function, whatever it is made of.                            *)
LEMMA SumIs ==
  ASSUME NEW o \in [Inodes -> Nat], NEW a, NEW b, NEW x, NEW y, NEW z
  PROVE  /\ Sum(o, a, b, x, y, z) \in [Inodes -> Nat]
         /\ \A n \in Inodes : Sum(o, a, b, x, y, z)[n] = o[n] + Is(a, n) + Is(b, n) + Is(x, n) + Is(y, n) + Is(z, n)
         /\ \A n \in Inodes : Is(0, n) = 0
  BY Sizes DEF Sum, Is

(* The parts of the sum can change places.                                   *)
LEMMA Exchange ==
  ASSUME NEW f, NEW o, NEW a, NEW b, NEW x, NEW y, NEW z, Balanced(f, o, a, b, x, y, z)
  PROVE  /\ Balanced(f, o, y, b, x, a, z) /\ Balanced(f, o, a, y, x, b, z)
         /\ Balanced(f, o, a, b, y, x, z) /\ Balanced(f, o, a, b, x, z, y)
<1>1. o \in [Inodes -> Nat]
  BY DEF Balanced
<1>2. /\ Sum(o, y, b, x, a, z) = Sum(o, a, b, x, y, z) /\ Sum(o, a, y, x, b, z) = Sum(o, a, b, x, y, z)
      /\ Sum(o, a, b, y, x, z) = Sum(o, a, b, x, y, z) /\ Sum(o, a, b, x, z, y) = Sum(o, a, b, x, y, z)
  BY <1>1 DEF Sum, Is
<1> QED
  BY <1>1, <1>2 DEF Balanced

(* iput of an inode that is held: that reference is gone.                    *)
LEMMA PutIno ==
  ASSUME NEW f, NEW o, NEW a, NEW b, NEW x, NEW y, NEW z, Balanced(f, o, a, b, x, y, z)
  PROVE  Balanced(iput(f, y), o, a, b, x, 0, z)
<1> DEFINE r == Sum(o, a, b, x, y, z)
           q == Sum(o, a, b, x, 0, z)
<1>1. o \in [Inodes -> Nat] /\ y \in 0..NR_INODES /\ Counted(f, r)
  BY DEF Balanced
<1>2. q \in [Inodes -> Nat] /\ \A m \in Inodes : r[m] = q[m] + Is(y, m)
  BY <1>1, SumIs DEF Is
<1>3. 0 \in 0..NR_INODES
  BY Sizes
<1>4. CASE y = 0
  BY <1>3, <1>4 DEF iput
<1>5. CASE y \in Inodes
  <2> HIDE DEF q, r
  <2>1. Counted(iput(f, y), q)
    BY <1>1, <1>2, <1>5, CountedIput
  <2> QED
    BY <1>1, <1>3, <2>1 DEF Balanced, q
<1> QED
  BY <1>1, <1>4, <1>5, Sizes

(* It does not matter as what it is held.                                    *)
LEMMA Put ==
  ASSUME NEW f, NEW o, NEW a, NEW b, NEW x, NEW y, NEW z, Balanced(f, o, a, b, x, y, z)
  PROVE  /\ Balanced(iput(f, a), o, 0, b, x, y, z) /\ Balanced(iput(f, x), o, a, b, 0, y, z)
         /\ Balanced(iput(f, y), o, a, b, x, 0, z) /\ Balanced(iput(f, z), o, a, b, x, y, 0)
<1>1. Balanced(iput(f, a), o, 0, b, x, y, z)
  <2>1. Balanced(iput(f, a), o, y, b, x, 0, z)
    BY Exchange, PutIno
  <2> QED
    BY <2>1, Exchange
<1>2. Balanced(iput(f, x), o, a, b, 0, y, z)
  <2>1. Balanced(iput(f, x), o, a, b, y, 0, z)
    BY Exchange, PutIno
  <2> QED
    BY <2>1, Exchange
<1>3. Balanced(iput(f, z), o, a, b, x, y, 0)
  <2>1. Balanced(iput(f, z), o, a, b, x, 0, y)
    BY Exchange, PutIno
  <2> QED
    BY <2>1, Exchange
<1> QED
  BY <1>1, <1>2, <1>3, PutIno

(* iget, and new_inode.                                                      *)
LEMMA GetIno ==
  ASSUME NEW f, NEW o, NEW a, NEW b, NEW x, NEW z, NEW n \in Inodes, Balanced(f, o, a, b, x, 0, z)
  PROVE  /\ n \in f.imap => Balanced(iget(f, n), o, a, b, x, n, z)
         /\ n \notin f.imap => Balanced(new_inode(f, n), o, a, b, x, n, z)
<1> DEFINE r == Sum(o, a, b, x, 0, z)
           q == Sum(o, a, b, x, n, z)
<1>1. o \in [Inodes -> Nat] /\ n \in 0..NR_INODES /\ Counted(f, r)
  BY Sizes DEF Balanced
<1>2. q \in [Inodes -> Nat] /\ \A m \in Inodes : q[m] = r[m] + Is(n, m)
  BY <1>1, SumIs DEF Is
<1> HIDE DEF q, r
<1>3. /\ n \in f.imap => Counted(iget(f, n), q)
      /\ n \notin f.imap => Counted(new_inode(f, n), q)
  BY <1>1, <1>2, CountedIget, CountedNew
<1> QED
  BY <1>1, <1>3 DEF Balanced, q

(* The same for a directory.                                                 *)
LEMMA GetDir ==
  ASSUME NEW f, NEW o, NEW a, NEW b, NEW y, NEW z, NEW n \in Inodes, Balanced(f, o, a, b, 0, y, z),
         n \in f.imap
  PROVE  Balanced(iget(f, n), o, a, b, n, y, z)
<1>1. Balanced(iget(f, n), o, a, b, y, n, z)
  BY Exchange, GetIno
<1> QED
  BY <1>1, Exchange

(* Everything else leaves the references alone.                              *)
LEMMA SameBalance ==
  ASSUME NEW f, NEW g, NEW o, NEW a, NEW b, NEW x, NEW y, NEW z, Balanced(f, o, a, b, x, y, z), SameRefs(f, g)
  PROVE  Balanced(g, o, a, b, x, y, z)
  BY DEF Balanced, Counted, SameRefs

-----------------------------------------------------------------------------
(* The references of t and those of the others are all there are.             *)
LEMMA RefsSplit ==
  ASSUME NEW t \in Tasks, NEW A, NEW B, NEW L, NEW n
  PROVE  /\ Refs(Tasks \ {t}, A, B, L, n) \in Nat
         /\ Refs(Tasks, A, B, L, n) = Refs(Tasks \ {t}, A, B, L, n) + Is(A[t], n) + Is(B[t], n)
               + Is(L[t].dir, n) + Is(L[t].ino, n) + Is(L[t].old, n)
<1>1. PICK D : D = [u \in Tasks |-> L[u].dir]
  OBVIOUS
<1>2. PICK I : I = [u \in Tasks |-> L[u].ino]
  OBVIOUS
<1>3. PICK O : O = [u \in Tasks |-> L[u].old]
  OBVIOUS
<1>4. /\ {u \in Tasks : L[u].dir = n} = {u \in Tasks : D[u] = n}
      /\ {u \in Tasks \ {t} : L[u].dir = n} = {u \in Tasks \ {t} : D[u] = n}
      /\ {u \in Tasks : L[u].ino = n} = {u \in Tasks : I[u] = n}
      /\ {u \in Tasks \ {t} : L[u].ino = n} = {u \in Tasks \ {t} : I[u] = n}
      /\ {u \in Tasks : L[u].old = n} = {u \in Tasks : O[u] = n}
      /\ {u \in Tasks \ {t} : L[u].old = n} = {u \in Tasks \ {t} : O[u] = n}
      /\ D[t] = L[t].dir /\ I[t] = L[t].ino /\ O[t] = L[t].old
  BY <1>1, <1>2, <1>3
<1> DEFINE C(F) == Cardinality(Having(Tasks, F, n))
           K(F) == Cardinality(Having(Tasks \ {t}, F, n))
           base == IF n = ROOT_INO THEN 2 ELSE 0
<1>5. ASSUME NEW F PROVE C(F) = K(F) + Is(F[t], n) /\ K(F) \in Nat
  BY CountBut
<1>6. /\ Refs(Tasks, A, B, L, n) = base + C(A) + C(B) + C(D) + C(I) + C(O)
      /\ Refs(Tasks \ {t}, A, B, L, n) = base + K(A) + K(B) + K(D) + K(I) + K(O)
  BY <1>4 DEF Refs, Having
<1>7. /\ base \in Nat /\ Is(A[t], n) \in Nat /\ Is(B[t], n) \in Nat /\ Is(D[t], n) \in Nat
      /\ Is(I[t], n) \in Nat /\ Is(O[t], n) \in Nat
  BY DEF Is
<1> HIDE DEF C, K, base
<1>8. /\ C(A) = K(A) + Is(A[t], n) /\ K(A) \in Nat /\ C(B) = K(B) + Is(B[t], n) /\ K(B) \in Nat
      /\ C(D) = K(D) + Is(D[t], n) /\ K(D) \in Nat /\ C(I) = K(I) + Is(I[t], n) /\ K(I) \in Nat
      /\ C(O) = K(O) + Is(O[t], n) /\ K(O) \in Nat
  BY <1>5
<1> QED
  BY <1>4, <1>6, <1>7, <1>8

(* So a step of t begins with its references counted ...                      *)
LEMMA Starts ==
  ASSUME Working, fs.fault = "none", NEW t \in Tasks
  PROVE  /\ Held(t, fs, loc[t]) /\ fs \in Systems /\ loc[t] \in Locals /\ Local(loc[t], file[t])
         /\ file[t] \in 0..NR_INODES /\ pwd[t] \in Inodes
<1> DEFINE l == loc[t]
           r == Sum(Others(t), file[t], pwd[t], l.dir, l.ino, l.old)
<1>1. /\ fs \in Systems /\ l \in Locals /\ Local(l, file[t]) /\ file[t] \in 0..NR_INODES /\ pwd[t] \in Inodes
      /\ l.dir \in 0..NR_INODES /\ l.ino \in 0..NR_INODES /\ l.old \in 0..NR_INODES
  BY DEF Working, Locals
<1>2. Others(t) \in [Inodes -> Nat] /\ \A n \in Inodes : Others(t)[n] = Refs(Tasks \ {t}, file, pwd, loc, n)
  BY RefsSplit DEF Others
<1>3. \A n \in Inodes : r[n] = Refs(Tasks, file, pwd, loc, n)
  BY <1>2, RefsSplit, SumIs
<1>4. \A n \in Inodes : fs.count[n] = Refs(Tasks, file, pwd, loc, n)
  BY DEF Working, RefsAccounted, Refs
<1>5. \A n \in Inodes : n \notin fs.imap => fs.count[n] = 0
  BY DEF Working
<1>6. r \in [Inodes -> Nat]
  BY <1>2, SumIs
<1>7. Counted(fs, r)
  BY <1>1, <1>3, <1>4, <1>5, <1>6 DEF Counted
<1>8. pwd[t] \in 0..NR_INODES
  BY <1>1, Sizes
<1> QED
  BY <1>1, <1>2, <1>7, <1>8 DEF Held, Balanced

(* ... and if it ends with them counted, and with locals that are right, the    *)
(* invariant holds after it.                                                 *)
LEMMA Ends ==
  ASSUME Working, NEW t \in Tasks, NEW l \in Locals, NEW a \in 0..NR_INODES, NEW b \in Inodes, Local(l, a),
         loc' = [loc EXCEPT ![t] = l], file' = [file EXCEPT ![t] = a], pwd' = [pwd EXCEPT ![t] = b],
         Balanced(fs', Others(t), a, b, l.dir, l.ino, l.old), Restaled
  PROVE  NInv'
<1> DEFINE r == Sum(Others(t), a, b, l.dir, l.ino, l.old)
<1>1. fs' \in Systems /\ \A n \in Inodes : fs'.count[n] = r[n] /\ (n \notin fs'.imap => r[n] = 0)
  BY DEF Balanced, Counted
<1>2. /\ file' \in [Tasks -> 0..NR_INODES] /\ pwd' \in [Tasks -> Inodes] /\ loc' \in [Tasks -> Locals]
      /\ loc'[t] = l /\ file'[t] = a /\ pwd'[t] = b
      /\ \A u \in Tasks \ {t} : loc'[u] = loc[u] /\ file'[u] = file[u] /\ pwd'[u] = pwd[u]
  BY DEF Working
<1>3. \A u \in Tasks : Local(loc'[u], file'[u])
  BY <1>2 DEF Working
<1>4. \A u \in Tasks : u \notin stale' /\ loc'[u].inr # 0 => loc'[u].inr \in fs'.imap
  BY DEF Restaled
<1>5. \A n \in Inodes : n \notin fs'.imap => fs'.count[n] = 0
  BY <1>1
<1>6. PICK A, B, L : A = file' /\ B = pwd' /\ L = loc'
  OBVIOUS
<1>7. \A n : Refs(Tasks \ {t}, A, B, L, n) = Refs(Tasks \ {t}, file, pwd, loc, n)
  <2> TAKE n
  <2>1. /\ {u \in Tasks \ {t} : A[u] = n} = {u \in Tasks \ {t} : file[u] = n}
        /\ {u \in Tasks \ {t} : B[u] = n} = {u \in Tasks \ {t} : pwd[u] = n}
        /\ {u \in Tasks \ {t} : L[u].dir = n} = {u \in Tasks \ {t} : loc[u].dir = n}
        /\ {u \in Tasks \ {t} : L[u].ino = n} = {u \in Tasks \ {t} : loc[u].ino = n}
        /\ {u \in Tasks \ {t} : L[u].old = n} = {u \in Tasks \ {t} : loc[u].old = n}
    BY <1>2, <1>6
  <2> QED
    BY <2>1 DEF Refs
<1>8. Others(t) \in [Inodes -> Nat] /\ \A n \in Inodes : Others(t)[n] = Refs(Tasks \ {t}, A, B, L, n)
  BY <1>7, RefsSplit DEF Others
<1>9. \A n \in Inodes : r[n] = Refs(Tasks, A, B, L, n)
  <2> TAKE n \in Inodes
  <2>1. r[n] = Others(t)[n] + Is(a, n) + Is(b, n) + Is(l.dir, n) + Is(l.ino, n) + Is(l.old, n)
    BY <1>8, SumIs
  <2>2. Refs(Tasks, A, B, L, n) = Refs(Tasks \ {t}, A, B, L, n) + Is(A[t], n) + Is(B[t], n)
               + Is(L[t].dir, n) + Is(L[t].ino, n) + Is(L[t].old, n)
    BY RefsSplit
  <2> QED
    BY <1>2, <1>6, <1>8, <2>1, <2>2
<1>10. \A n \in Inodes : fs'.count[n] = Refs(Tasks, file', pwd', loc', n)
  BY <1>1, <1>6, <1>9
<1>11. RefsAccounted'
  BY <1>10 DEF RefsAccounted, Refs
<1>12. Working'
  BY <1>1, <1>2, <1>3, <1>4, <1>5, <1>11 DEF Working
<1> QED
  BY <1>12 DEF NInv

(* A task without a call.                                                    *)
LEMMA IdleIs ==
  /\ Idle \in Locals /\ Idle.dir = 0 /\ Idle.ino = 0 /\ Idle.old = 0 /\ \A a : Local(Idle, a)
<1>1. <<>> \in Seq(Names) /\ 0 \in 0..NR_INODES
  BY Sizes
<1>3. 0 \in 0..NR_BLOCKS
  BY NameiAssumption
<1>2. Idle \in Locals
  BY <1>1, <1>3 DEF Idle, Locals
<1> QED
  BY <1>2 DEF Idle, Local

(* The ways a step ends: the call fails, or ends, and gives back what it holds; *)
LEMMA FailEnds ==
  ASSUME Working, NEW t \in Tasks, NEW f, NEW l, file[t] \in 0..NR_INODES, pwd[t] \in Inodes,
         Held(t, f, l), Fail(t, f, l), Restaled
  PROVE  NInv'
<1>1. Balanced(f, Others(t), file[t], pwd[t], l.dir, l.ino, l.old)
  BY DEF Held
<1>2. Balanced(iput(f, l.dir), Others(t), file[t], pwd[t], 0, l.ino, l.old)
  BY <1>1, Put
<1>3. Balanced(iput(iput(f, l.dir), l.ino), Others(t), file[t], pwd[t], 0, 0, l.old)
  BY <1>2, Put
<1>4. Balanced(Released(f, l), Others(t), file[t], pwd[t], 0, 0, 0)
  BY <1>3, Put DEF Released
<1>5. fs' = Released(f, l) /\ loc' = [loc EXCEPT ![t] = Idle] /\ file' = file /\ pwd' = pwd
  BY DEF Fail, Leave
<1>6. file' = [file EXCEPT ![t] = file[t]] /\ pwd' = [pwd EXCEPT ![t] = pwd[t]]
  BY <1>5 DEF Working
<1>7. Balanced(fs', Others(t), file[t], pwd[t], Idle.dir, Idle.ino, Idle.old)
  BY <1>4, <1>5, IdleIs
<1>8. Idle \in Locals /\ Local(Idle, file[t])
  BY IdleIs
<1> QED
  BY <1>5, <1>6, <1>7, <1>8, Ends

(* it goes on;                                                               *)
LEMMA GoEnds ==
  ASSUME Working, NEW t \in Tasks, NEW f, NEW l \in Locals, file[t] \in 0..NR_INODES, pwd[t] \in Inodes,
         Held(t, f, l), Local(l, file[t]), Go(t, f, l), Restaled
  PROVE  NInv'
<1>1. fs' = f /\ loc' = [loc EXCEPT ![t] = l] /\ file' = file /\ pwd' = pwd
  BY DEF Go
<1>2. file' = [file EXCEPT ![t] = file[t]] /\ pwd' = [pwd EXCEPT ![t] = pwd[t]]
  BY <1>1 DEF Working
<1>3. Balanced(fs', Others(t), file[t], pwd[t], l.dir, l.ino, l.old)
  BY <1>1 DEF Held
<1> QED
  BY <1>1, <1>2, <1>3, Ends

(* it goes into a directory;                                                 *)
LEMMA WalkEnds ==
  ASSUME Working, NEW t \in Tasks, NEW f, NEW l \in Locals, NEW d \in Inodes,
         file[t] \in 0..NR_INODES, pwd[t] \in Inodes,
         Balanced(f, Others(t), file[t], pwd[t], d, l.ino, l.old), l.ino = 0, l.path # <<>>,
         l.old # 0 => l.op = "link" /\ Len(l.path) = 1, l.op = "link" /\ l.old = 0 => Len(l.to) = 1,
         l.op \in {"open", "creat", "excl"} => file[t] = 0, l.op # "write",
         Walk(t, f, l, d), Restaled
  PROVE  NInv'
<1> DEFINE j == [l EXCEPT !.dir = d]
           k == [l EXCEPT !.pc = "find", !.dir = d, !.blk = 0, !.len = Len(f.node[d].ent)]
<1>1. d \in 0..NR_INODES /\ d # 0 /\ f \in Systems
  BY Sizes DEF Balanced, Counted
<1>2. Len(f.node[d].ent) \in Nat
  <2>1. f.node[d] \in Nodes
    BY <1>1 DEF Systems
  <2>2. f.node[d].ent \in Seq(Dirents)
    BY <2>1 DEF Nodes
  <2> QED
    BY <2>2
<1>3. j.dir = d /\ j.ino = l.ino /\ j.old = l.old
  BY <1>1 DEF Locals
<1>4. /\ k \in Locals /\ k.pc = "find" /\ k.dir = d /\ k.ino = l.ino /\ k.old = l.old /\ k.op = l.op
      /\ k.path = l.path /\ k.to = l.to
  BY <1>1, <1>2 DEF Locals
<1>5. Fail(t, f, j) \/ Go(t, f, k)
  BY DEF Walk
<1> HIDE DEF j, k
<1>6. Held(t, f, j) /\ Held(t, f, k)
  BY <1>3, <1>4 DEF Held
<1>7. Local(k, file[t])
  BY <1>1, <1>4 DEF Local
<1> QED
  BY <1>4, <1>5, <1>6, <1>7, FailEnds, GoEnds

(* or it keeps an inode as the file of its task.                              *)
LEMMA OpenEnds ==
  ASSUME Working, NEW t \in Tasks, NEW f, NEW n \in 0..NR_INODES, pwd[t] \in Inodes,
         Balanced(f, Others(t), n, pwd[t], 0, 0, 0), sys_open(t, f, n), Restaled
  PROVE  NInv'
<1>1. fs' = f /\ loc' = [loc EXCEPT ![t] = Idle] /\ file' = [file EXCEPT ![t] = n] /\ pwd' = pwd
  BY DEF sys_open, Leave
<1>2. pwd' = [pwd EXCEPT ![t] = pwd[t]]
  BY <1>1 DEF Working
<1>3. Balanced(fs', Others(t), n, pwd[t], Idle.dir, Idle.ino, Idle.old)
  BY <1>1, IdleIs
<1>4. Idle \in Locals /\ Local(Idle, n)
  BY IdleIs
<1> QED
  BY <1>1, <1>2, <1>3, <1>4, Ends

(* Where the model stops nothing more is promised.                           *)
LEMMA FaultEnds ==
  ASSUME fs \in Systems, NEW t, NEW what \in Faults \ {"none"}, Faulty(t, what)
  PROVE  NInv'
  BY DEF Faulty, Systems, NInv

-----------------------------------------------------------------------------
(* A step of the task t from a state where nothing has gone wrong.            *)
Acting(t) == Working /\ fs.fault = "none" /\ t \in Tasks /\ Restaled

(* What the locals of its call are.                                          *)
LEMMA CallFacts ==
  ASSUME NEW t, Acting(t)
  PROVE  /\ Working /\ t \in Tasks /\ Restaled /\ file[t] \in 0..NR_INODES /\ pwd[t] \in Inodes
         /\ Held(t, fs, loc[t]) /\ fs \in Systems /\ loc[t] \in Locals /\ Local(loc[t], file[t])
         /\ loc[t].path \in Seq(Names) /\ Len(loc[t].path) \in Nat
         /\ loc[t].dir \in 0..NR_INODES /\ loc[t].ino \in 0..NR_INODES /\ loc[t].old \in 0..NR_INODES
         /\ loc[t].inr \in 0..NR_INODES
<1>1. Working /\ t \in Tasks /\ Restaled /\ fs.fault = "none"
  BY DEF Acting
<1>2. /\ Held(t, fs, loc[t]) /\ fs \in Systems /\ loc[t] \in Locals /\ Local(loc[t], file[t])
      /\ file[t] \in 0..NR_INODES /\ pwd[t] \in Inodes
  BY <1>1, Starts
<1>3. /\ loc[t].path \in Seq(Names)
      /\ loc[t].dir \in 0..NR_INODES /\ loc[t].ino \in 0..NR_INODES /\ loc[t].old \in 0..NR_INODES
      /\ loc[t].inr \in 0..NR_INODES
  BY <1>2 DEF Locals
<1>4. Len(loc[t].path) \in Nat
  BY <1>3
<1> QED
  BY <1>1, <1>2, <1>3, <1>4

(* Its working directory is in use.                                          *)
LEMMA PwdUsed ==
  ASSUME NEW t, Acting(t)
  PROVE  pwd[t] \in fs.imap
<1> DEFINE r == Sum(Others(t), file[t], pwd[t], loc[t].dir, loc[t].ino, loc[t].old)
<1>1. Held(t, fs, loc[t]) /\ pwd[t] \in Inodes
  BY CallFacts
<1>2. Others(t) \in [Inodes -> Nat] /\ Counted(fs, r)
  BY <1>1 DEF Held, Balanced
<1>3. r[pwd[t]] # 0
  BY <1>1, <1>2, SumIs DEF Is
<1> QED
  BY <1>1, <1>2, <1>3 DEF Counted

(* The locals of a call that goes to the next block.                          *)
LEMMA NextBlk ==
  ASSUME NEW t, NEW f, NEW a, NEW l \in Locals
  PROVE  LET k == [l EXCEPT !.blk = @ + 1]
         IN k \in Locals /\ (Held(t, f, l) => Held(t, f, k)) /\ (Local(l, a) => Local(k, a))
<1> DEFINE k == [l EXCEPT !.blk = @ + 1]
<1>1. PICK b \in Nat : b = l.blk + 1
  BY DEF Locals
<1>2. k = [l EXCEPT !.blk = b]
  BY <1>1
<1>3. /\ k \in Locals /\ k.pc = l.pc /\ k.dir = l.dir /\ k.ino = l.ino /\ k.old = l.old /\ k.op = l.op
      /\ k.path = l.path /\ k.to = l.to /\ k.inr = l.inr /\ k.new = l.new
  BY <1>2 DEF Locals
<1> HIDE DEF k
<1>4. (Held(t, f, l) => Held(t, f, k)) /\ (Local(l, a) => Local(k, a))
  BY <1>3 DEF Held, Local
<1> QED
  BY <1>3, <1>4 DEF k

(* find_entry.                                                               *)
LEMMA LookupHolds ==
  ASSUME NEW t, Acting(t), Lookup(t)
  PROVE  NInv'
<1> DEFINE l == loc[t]
<1>0. /\ Working /\ t \in Tasks /\ Restaled /\ file[t] \in 0..NR_INODES /\ pwd[t] \in Inodes
      /\ Held(t, fs, l) /\ fs \in Systems /\ l \in Locals /\ Local(l, file[t])
      /\ l.dir \in 0..NR_INODES
  BY CallFacts
<1>1. CASE FindNextBlock(t)
  <2> DEFINE k == [l EXCEPT !.blk = @ + 1]
  <2>1. Go(t, fs, k)
    BY <1>1 DEF FindNextBlock
  <2>2. k \in Locals /\ Held(t, fs, k) /\ Local(k, file[t])
    BY <1>0, NextBlk
  <2> HIDE DEF k
  <2> QED
    BY <1>0, <2>1, <2>2, GoEnds
<1>2. CASE FindFails(t)
  <2>1. Fail(t, fs, l)
    BY <1>2 DEF FindFails
  <2> QED
    BY <1>0, <2>1, FailEnds
<1>3. CASE Adds(t)
  <2>0. PICK p \in {"add", "new"} : p = IF l.op = "link" THEN "add" ELSE "new"
    OBVIOUS
  <2> DEFINE k == [l EXCEPT !.pc = p, !.blk = 0]
  <2>1. Go(t, fs, k) /\ l.pc = "find" /\ (l.op = "link" => l.old # 0)
    BY <1>3, <2>0 DEF Adds, NotFound, Here
  <2>2. /\ k \in Locals /\ k.dir = l.dir /\ k.ino = l.ino /\ k.old = l.old /\ k.op = l.op
        /\ k.pc = p
        /\ k.path = l.path /\ k.to = l.to /\ k.inr = l.inr
    BY <1>0, <2>0 DEF Locals
  <2> HIDE DEF k
  <2>3. Held(t, fs, k)
    BY <1>0, <2>2 DEF Held
  <2>4. Local(k, file[t])
    BY <1>0, <2>0, <2>1, <2>2 DEF Local
  <2> QED
    BY <1>0, <2>1, <2>2, <2>3, <2>4, GoEnds
<1>4. CASE FindSucceeds(t)
  <2>1. l.pc = "find" /\ Found(t) # {}
    BY <1>4 DEF FindSucceeds, Here
  <2>2. l.dir # 0 /\ l.dir \in Inodes /\ l.ino = 0 /\ (l.old # 0 => l.op = "link" /\ Len(l.path) = 1)
    BY <1>0, <2>1, Sizes DEF Local
  <2> DEFINE i == Min(Found(t))
             e == fs.node[l.dir].ent[i].ino
             m == [l EXCEPT !.pc = "iget", !.inr = e, !.slot = i]
             k == [m EXCEPT !.dir = 0, !.slot = 0]
  <2>3. e \in 0..NR_INODES /\ e # 0 /\ i \in Nat
    <3>1. Found(t) \in SUBSET DOMAIN fs.node[l.dir].ent /\ \A j \in Found(t) : fs.node[l.dir].ent[j].ino # 0
      BY DEF Found, Matches
    <3>2. Found(t) \in SUBSET Nat
      BY <1>0, <2>2, <3>1, EntFacts
    <3>3. i \in Found(t)
      BY <2>1, <3>2, MinOfNats
    <3> QED
      BY <1>0, <2>2, <3>1, <3>2, <3>3, EntFacts
  <2>4. \/ Fail(t, fs, l)
        \/ Len(l.path) = 1 /\ l.op \in {"rmdir", "unlink"} /\ Go(t, fs, m)
        \/ /\ ~(Len(l.path) = 1 /\ l.op \in {"rmdir", "unlink"}) /\ ~(Len(l.path) = 1 /\ l.op = "link" /\ l.old # 0)
           /\ Go(t, iput(fs, l.dir), k)
    BY <1>4 DEF FindSucceeds, IsLast
  <2> HIDE DEF e, i
  <2>5. /\ m \in Locals /\ m.pc = "iget" /\ m.dir = l.dir /\ m.ino = l.ino /\ m.old = l.old /\ m.op = l.op
        /\ m.path = l.path /\ m.to = l.to /\ m.inr = e
    BY <1>0, <2>3 DEF Locals
  <2>6. /\ k \in Locals /\ k.pc = "iget" /\ k.dir = 0 /\ k.ino = l.ino /\ k.old = l.old /\ k.op = l.op
        /\ k.path = l.path /\ k.to = l.to /\ k.inr = e
    BY <2>5, Sizes DEF Locals
  <2> HIDE DEF k, m
  <2>7. CASE Fail(t, fs, l)
    BY <1>0, <2>7, FailEnds
  <2>8. CASE Len(l.path) = 1 /\ l.op \in {"rmdir", "unlink"} /\ Go(t, fs, m)
    <3>1. Held(t, fs, m)
      BY <1>0, <2>5 DEF Held
    <3>2. Local(m, file[t])
      BY <1>0, <2>1, <2>2, <2>3, <2>5, <2>8 DEF Local
    <3> QED
      BY <1>0, <2>5, <2>8, <3>1, <3>2, GoEnds
  <2>9. CASE /\ ~(Len(l.path) = 1 /\ l.op \in {"rmdir", "unlink"}) /\ ~(Len(l.path) = 1 /\ l.op = "link" /\ l.old # 0)
             /\ Go(t, iput(fs, l.dir), k)
    <3>1. Held(t, iput(fs, l.dir), k)
      BY <1>0, <2>6, Put DEF Held
    <3>2. Local(k, file[t])
      BY <1>0, <2>1, <2>2, <2>3, <2>6, <2>9 DEF Local
    <3> QED
      BY <1>0, <2>6, <2>9, <3>1, <3>2, GoEnds
  <2> QED
    BY <2>4, <2>7, <2>8, <2>9
<1> QED
  BY <1>1, <1>2, <1>3, <1>4 DEF Lookup

-----------------------------------------------------------------------------
(* iget of the number in an entry that is not stale.                         *)
LEMMA GotFacts ==
  ASSUME NEW t, Acting(t), Got(t)
  PROVE  /\ loc[t].inr \in Inodes /\ loc[t].inr \in fs.imap /\ loc[t].inr # 0 /\ loc[t].pc = "iget"
         /\ loc[t].ino = 0 /\ loc[t].old = 0 /\ loc[t].path # <<>>
         /\ loc[t].dir # 0 <=> loc[t].op \in {"rmdir", "unlink"} /\ Len(loc[t].path) = 1
         /\ Balanced(iget(fs, loc[t].inr), Others(t), file[t], pwd[t], loc[t].dir, loc[t].inr, loc[t].old)
         /\ Held(t, iget(fs, loc[t].inr), With(t))
         /\ With(t) \in Locals /\ With(t).ino = loc[t].inr /\ With(t).dir = loc[t].dir
         /\ With(t).old = loc[t].old /\ With(t).op = loc[t].op /\ With(t).path = loc[t].path
         /\ With(t).to = loc[t].to /\ iget(fs, loc[t].inr) \in Systems
<1> DEFINE l == loc[t]
<1>0. /\ Working /\ t \in Tasks /\ Held(t, fs, l) /\ fs \in Systems /\ l \in Locals /\ Local(l, file[t])
      /\ l.inr \in 0..NR_INODES
  BY CallFacts
<1>1. l.pc = "iget" /\ t \notin stale
  BY DEF Got, Here
<1>2. /\ l.inr # 0 /\ l.ino = 0 /\ l.old = 0 /\ l.path # <<>>
      /\ l.dir # 0 <=> l.op \in {"rmdir", "unlink"} /\ Len(l.path) = 1
  BY <1>0, <1>1 DEF Local
<1>3. l.inr \in Inodes /\ l.inr \in fs.imap
  BY <1>0, <1>1, <1>2, Sizes DEF Working
<1>4. Balanced(fs, Others(t), file[t], pwd[t], l.dir, 0, l.old)
  BY <1>0, <1>2 DEF Held
<1>5. Balanced(iget(fs, l.inr), Others(t), file[t], pwd[t], l.dir, l.inr, l.old)
  BY <1>3, <1>4, GetIno
<1>6. /\ With(t) \in Locals /\ With(t).ino = l.inr /\ With(t).dir = l.dir
      /\ With(t).old = l.old /\ With(t).op = l.op /\ With(t).path = l.path
      /\ With(t).to = l.to
  BY <1>0, Sizes DEF With, Locals
<1>7. Held(t, iget(fs, l.inr), With(t))
  BY <1>5, <1>6 DEF Held
<1>8. iget(fs, l.inr) \in Systems
  BY <1>0, <1>3, IgetFacts
<1> QED
  BY <1>1, <1>2, <1>3, <1>5, <1>6, <1>7, <1>8

(* What the calls do with it.                                                *)
LEMMA UseHolds ==
  ASSUME NEW t, Acting(t), Use(t)
  PROVE  NInv'
<1> DEFINE l == loc[t]
           n == l.inr
           f == iget(fs, n)
<1>0. /\ Working /\ t \in Tasks /\ Restaled /\ file[t] \in 0..NR_INODES /\ pwd[t] \in Inodes
      /\ Held(t, fs, l) /\ fs \in Systems /\ l \in Locals /\ Local(l, file[t])
      /\ l.path \in Seq(Names) /\ Len(l.path) \in Nat
  BY CallFacts
<1>1. CASE StaleIget(t)
  <2>1. Faulty(t, "stale iget") /\ "stale iget" \in Faults \ {"none"}
    BY <1>1 DEF StaleIget, Faults
  <2> QED
    BY <1>0, <2>1, FaultEnds
<1>2. CASE ~StaleIget(t)
  <2>1. Got(t)
    BY <1>2 DEF Use, NextName, sys_chdir, sys_chmod, OpenOld, LinkOld
  <2>2. /\ n \in Inodes /\ n \in fs.imap /\ n # 0 /\ l.pc = "iget" /\ l.ino = 0 /\ l.old = 0 /\ l.path # <<>>
        /\ l.dir # 0 <=> l.op \in {"rmdir", "unlink"} /\ Len(l.path) = 1
        /\ Balanced(f, Others(t), file[t], pwd[t], l.dir, n, l.old)
        /\ Held(t, f, With(t))
        /\ With(t) \in Locals /\ With(t).ino = n /\ With(t).dir = l.dir
        /\ With(t).old = l.old /\ With(t).op = l.op /\ With(t).path = l.path /\ With(t).to = l.to
        /\ f \in Systems
    BY <2>1, GotFacts
  <2>3. CASE NextName(t)
    <3> DEFINE k == [l EXCEPT !.path = Tail(@), !.inr = 0]
    <3>1. Len(l.path) # 1 /\ Walk(t, f, k, n)
      BY <2>3 DEF NextName, IsLast
    <3>2. Tail(l.path) \in Seq(Names) /\ Tail(l.path) # <<>>
      <4>1. Len(l.path) # 0
        BY <1>0, <2>2, EmptySeq
      <4>2. Tail(l.path) \in Seq(Names) /\ Len(Tail(l.path)) = Len(l.path) - 1
        BY <1>0, <2>2, HeadTailProperties
      <4>3. Len(Tail(l.path)) # 0
        BY <1>0, <3>1, <4>1, <4>2
      <4>4. Len(<<>>) = 0
        OBVIOUS
      <4> QED
        BY <4>2, <4>3, <4>4
    <3>3. /\ k \in Locals /\ k.path = Tail(l.path) /\ k.ino = 0 /\ k.old = 0 /\ k.op = l.op /\ k.to = l.to
      BY <1>0, <2>2, <3>2, Sizes DEF Locals
    <3> HIDE DEF k, f
    <3>4. Balanced(f, Others(t), file[t], pwd[t], n, k.ino, k.old)
      <4>1. Balanced(f, Others(t), file[t], pwd[t], 0, n, 0)
        BY <2>2, <3>1
      <4> QED
        BY <3>3, <4>1, Exchange
    <3>5. /\ k.op = "link" /\ k.old = 0 => Len(k.to) = 1
          /\ k.op \in {"open", "creat", "excl"} => file[t] = 0
      BY <1>0, <2>2, <3>3 DEF Local
    <3>6. k.op # "write"
      BY <1>0, <2>2, <3>3 DEF Local
    <3> QED
      BY <1>0, <2>2, <3>1, <3>2, <3>3, <3>4, <3>5, <3>6, WalkEnds
  <2>4. CASE sys_chdir(t)
    <3>1. CASE Fail(t, f, With(t))
      BY <1>0, <2>2, <3>1, FailEnds
    <3>2. CASE Leave(t, iput(f, pwd[t])) /\ pwd' = [pwd EXCEPT ![t] = n] /\ UNCHANGED file
      <4>1. l.dir = 0
        BY <2>2, <2>4 DEF sys_chdir
      <4>2. Balanced(f, Others(t), file[t], n, 0, pwd[t], 0)
        BY <2>2, <4>1, Exchange
      <4>3. Balanced(iput(f, pwd[t]), Others(t), file[t], n, 0, 0, 0)
        BY <4>2, Put
      <4>4. fs' = iput(f, pwd[t]) /\ loc' = [loc EXCEPT ![t] = Idle] /\ file' = [file EXCEPT ![t] = file[t]]
        BY <1>0, <3>2 DEF Leave, Working
      <4>5. Balanced(fs', Others(t), file[t], n, Idle.dir, Idle.ino, Idle.old)
            /\ Idle \in Locals /\ Local(Idle, file[t])
        BY <4>3, <4>4, IdleIs
      <4> QED
        BY <1>0, <2>2, <3>2, <4>4, <4>5, Ends
    <3> QED
      BY <2>4, <3>1, <3>2 DEF sys_chdir
  <2>5. CASE sys_chmod(t)
    BY <1>0, <2>2, <2>5, FailEnds DEF sys_chmod
  <2>6. CASE OpenOld(t)
    <3> DEFINE g == IF l.op = "creat" THEN truncate(f, n) ELSE f
    <3>1. CASE Fail(t, f, With(t))
      BY <1>0, <2>2, <3>1, FailEnds
    <3>2. CASE sys_open(t, g, n)
      <4>1. l.dir = 0 /\ file[t] = 0
        BY <1>0, <2>2, <2>6 DEF OpenOld, Local
      <4>2. Balanced(f, Others(t), n, pwd[t], 0, 0, 0)
        BY <2>2, <4>1, Exchange
      <4>3. SameRefs(f, g)
        BY <2>2, TruncateKeeps DEF SameRefs
      <4> HIDE DEF f, g
      <4>4. Balanced(g, Others(t), n, pwd[t], 0, 0, 0)
        BY <4>2, <4>3, SameBalance
      <4>5. n \in 0..NR_INODES
        BY <2>2, Sizes
      <4> QED
        BY <1>0, <3>2, <4>4, <4>5, OpenEnds
    <3> QED
      BY <2>6, <3>1, <3>2 DEF OpenOld
  <2>7. CASE LinkOld(t)
    <3> DEFINE w == With(t)
               k == [w EXCEPT !.old = w.ino, !.ino = 0, !.path = w.to, !.to = <<>>]
               g == iget(f, pwd[t])
    <3>1. Fail(t, f, w) \/ Walk(t, g, k, pwd[t])
      BY <2>7 DEF LinkOld
    <3>2. w.op = "link" /\ l.op = "link" /\ l.dir = 0
      BY <2>2, <2>7 DEF LinkOld
    <3>3. Len(w.to) = 1 /\ w.to \in Seq(Names) /\ <<>> \in Seq(Names) /\ w.to # <<>>
      <4>1. Len(w.to) = 1
        BY <1>0, <2>2, <3>2 DEF Local
      <4>2. w.to \in Seq(Names)
        BY <2>2 DEF Locals
      <4> QED
        BY <4>1, <4>2
    <3>4. n \in 0..NR_INODES /\ 0 \in 0..NR_INODES
      BY <2>2, Sizes
    <3>5. k \in Locals /\ k.old = n /\ k.ino = 0 /\ k.path = w.to /\ k.op = "link"
      BY <2>2, <3>2, <3>3, <3>4 DEF Locals
    <3>6. pwd[t] \in f.imap
      BY <1>0, <2>2, IgetFacts, PwdUsed
    <3>7. Balanced(f, Others(t), file[t], pwd[t], 0, 0, n)
      BY <2>2, <3>2, Exchange
    <3>8. Balanced(g, Others(t), file[t], pwd[t], pwd[t], 0, n)
      BY <1>0, <3>6, <3>7, GetDir
    <3>9. CASE Fail(t, f, w)
      BY <1>0, <2>2, <3>9, FailEnds
    <3>10. CASE Walk(t, g, k, pwd[t])
      <4> HIDE DEF k, g, w
      <4>1. /\ k.old # 0 => k.op = "link" /\ Len(k.path) = 1
            /\ k.op = "link" /\ k.old = 0 => Len(k.to) = 1
            /\ k.op \in {"open", "creat", "excl"} => file[t] = 0
            /\ k.path # <<>>
        BY <2>2, <3>3, <3>5
      <4>2. Balanced(g, Others(t), file[t], pwd[t], pwd[t], k.ino, k.old)
        BY <3>5, <3>8
      <4> QED
        BY <1>0, <3>5, <3>10, <4>1, <4>2, WalkEnds
    <3> QED
      BY <3>1, <3>9, <3>10
  <2> QED
    BY <1>2, <2>3, <2>4, <2>5, <2>6, <2>7 DEF Use
<1> QED
  BY <1>1, <1>2

-----------------------------------------------------------------------------
(* So what a call holds is still counted.                                    *)
LEMMA HeldSame ==
  ASSUME NEW t, NEW f, NEW g, NEW l, Held(t, f, l), SameRefs(f, g)
  PROVE  Held(t, g, l)
  BY SameBalance DEF Held

(* sys_unlink.                                                               *)
LEMMA UnlinkHolds ==
  ASSUME NEW t, Acting(t), sys_unlink(t)
  PROVE  NInv'
<1> DEFINE l == loc[t]
           w == With(t)
           f == iget(fs, l.inr)
<1>0. /\ Working /\ t \in Tasks /\ Restaled /\ file[t] \in 0..NR_INODES /\ pwd[t] \in Inodes
      /\ Held(t, fs, l) /\ fs \in Systems /\ l \in Locals /\ Local(l, file[t]) /\ l.ino \in 0..NR_INODES
      /\ l.dir \in 0..NR_INODES
  BY CallFacts
<1>1. CASE UnlinkFails(t)
  <2>1. Got(t) /\ Fail(t, f, w)
    BY <1>1 DEF UnlinkFails
  <2>2. Held(t, f, w)
    BY <2>1, GotFacts
  <2> QED
    BY <1>0, <2>1, <2>2, FailEnds
<1>2. CASE Unlink(t)
  <2> DEFINE k == [w EXCEPT !.pc = "unlinked", !.slot = 0]
  <2>1. /\ Got(t) /\ l.op = "unlink" /\ Len(l.path) = 1
        /\ \/ Faulty(t, "stale entry")
           \/ Faulty(t, "deleting nonexistent file")
           \/ SameEntry(t, l.inr) /\ Go(t, Clear(f, l), k)
    BY <1>2 DEF Unlink, IsLast
  <2>2. "stale entry" \in Faults \ {"none"} /\ "deleting nonexistent file" \in Faults \ {"none"}
    BY DEF Faults
  <2>3. /\ l.inr \in Inodes /\ l.inr # 0 /\ l.dir # 0 /\ l.old = 0 /\ l.path # <<>> /\ Held(t, f, w) /\ w \in Locals
        /\ w.ino = l.inr /\ w.dir = l.dir /\ w.old = l.old /\ w.op = l.op /\ w.path = l.path /\ f \in Systems
        /\ w.to = l.to
    BY <2>1, GotFacts
  <2>4. CASE SameEntry(t, l.inr) /\ Go(t, Clear(f, l), k)
    <3>1. l.slot \in DOMAIN f.node[l.dir].ent
      BY <1>0, <2>3, <2>4, IgetFacts DEF SameEntry
    <3>2. l.dir \in Inodes
      BY <1>0, <2>3, Sizes
    <3>3. SameRefs(f, Clear(f, l))
      BY <2>3, <3>1, <3>2, ClearKeeps
    <3>4. /\ k \in Locals /\ k.pc = "unlinked" /\ k.dir = w.dir /\ k.ino = w.ino /\ k.old = w.old /\ k.op = w.op
          /\ k.path = w.path /\ k.to = w.to
      BY <2>3 DEF Locals
    <3> HIDE DEF k, w, f
    <3>5. Held(t, f, k)
      BY <2>3, <3>4 DEF Held
    <3>6. Held(t, Clear(f, l), k)
      BY <3>3, <3>5, HeldSame
    <3>7. Local(k, file[t])
      BY <2>1, <2>3, <3>4 DEF Local
    <3> QED
      BY <1>0, <2>4, <3>4, <3>6, <3>7, GoEnds
  <2> QED
    BY <1>0, <2>1, <2>2, <2>4, FaultEnds
<1>3. CASE Unlinked(t)
  <2>1. l.pc = "unlinked" /\ Fail(t, Links(fs, l.ino, -1), l)
    BY <1>3 DEF Unlinked, Here
  <2>2. l.ino \in Inodes
    BY <1>0, <2>1, Sizes DEF Local
  <2>3. SameRefs(fs, Links(fs, l.ino, -1))
    BY <1>0, <2>2, LinksKeeps
  <2>4. Held(t, Links(fs, l.ino, -1), l)
    BY <1>0, <2>3, HeldSame
  <2> QED
    BY <1>0, <2>1, <2>4, FailEnds
<1> QED
  BY <1>1, <1>2, <1>3 DEF sys_unlink

(* sys_rmdir.                                                                *)
LEMMA RmdirHolds ==
  ASSUME NEW t, Acting(t), sys_rmdir(t)
  PROVE  NInv'
<1> DEFINE l == loc[t]
           w == With(t)
           f == iget(fs, l.inr)
<1>0. /\ Working /\ t \in Tasks /\ Restaled /\ file[t] \in 0..NR_INODES /\ pwd[t] \in Inodes
      /\ Held(t, fs, l) /\ fs \in Systems /\ l \in Locals /\ Local(l, file[t]) /\ l.ino \in 0..NR_INODES
      /\ l.dir \in 0..NR_INODES
  BY CallFacts
<1>1. CASE Rmdir(t)
  <2> DEFINE k == [w EXCEPT !.pc = "empty", !.blk = 0, !.len = Len(fs.node[l.inr].ent)]
  <2>1. Got(t) /\ l.op = "rmdir" /\ Len(l.path) = 1 /\ (Fail(t, f, w) \/ Go(t, f, k))
    BY <1>1 DEF Rmdir, IsLast
  <2>2. /\ l.inr \in Inodes /\ l.inr # 0 /\ l.dir # 0 /\ l.old = 0 /\ l.path # <<>> /\ Held(t, f, w) /\ w \in Locals
        /\ w.ino = l.inr /\ w.dir = l.dir /\ w.old = l.old /\ w.op = l.op /\ w.path = l.path /\ w.to = l.to
    BY <2>1, GotFacts
  <2>3. Len(fs.node[l.inr].ent) \in Nat
    BY <1>0, <2>2, EntFacts
  <2>4. /\ k \in Locals /\ k.pc = "empty" /\ k.dir = w.dir /\ k.ino = w.ino /\ k.old = w.old /\ k.op = w.op
        /\ k.path = w.path /\ k.to = w.to
    BY <2>2, <2>3 DEF Locals
  <2> HIDE DEF k, w, f
  <2>5. Held(t, f, k)
    BY <2>2, <2>4 DEF Held
  <2>6. Local(k, file[t])
    BY <2>1, <2>2, <2>4 DEF Local
  <2> QED
    BY <1>0, <2>1, <2>2, <2>4, <2>5, <2>6, FailEnds, GoEnds
<1>2. CASE empty_dir(t)
  <2> DEFINE j == [l EXCEPT !.blk = @ + 1]
             k == [l EXCEPT !.pc = "rmdir"]
  <2>1. l.pc = "empty" /\ (Fail(t, fs, l) \/ Go(t, fs, j) \/ Go(t, fs, k))
    BY <1>2 DEF empty_dir, Here
  <2>2. j \in Locals /\ Held(t, fs, j) /\ Local(j, file[t])
    BY <1>0, NextBlk
  <2>3. /\ k \in Locals /\ k.pc = "rmdir" /\ k.dir = l.dir /\ k.ino = l.ino /\ k.old = l.old /\ k.op = l.op
        /\ k.path = l.path /\ k.to = l.to
    BY <1>0 DEF Locals
  <2> HIDE DEF j, k
  <2>4. Held(t, fs, k)
    BY <1>0, <2>3 DEF Held
  <2>5. Local(k, file[t])
    BY <1>0, <2>1, <2>3 DEF Local
  <2> QED
    BY <1>0, <2>1, <2>2, <2>3, <2>4, <2>5, FailEnds, GoEnds
<1>3. CASE RmdirEntry(t)
  <2> DEFINE k == [l EXCEPT !.pc = "rmdirred", !.slot = 0]
  <2>1. /\ l.pc = "rmdir"
        /\ \/ Faulty(t, "stale entry")
           \/ SameEntry(t, l.ino) /\ Go(t, Clear(fs, l), k)
    BY <1>3 DEF RmdirEntry, Here
  <2>2. "stale entry" \in Faults \ {"none"}
    BY DEF Faults
  <2>3. CASE SameEntry(t, l.ino) /\ Go(t, Clear(fs, l), k)
    <3>1. l.dir \in Inodes
      BY <1>0, <2>1, Sizes DEF Local
    <3>2. SameRefs(fs, Clear(fs, l))
      BY <1>0, <2>3, <3>1, ClearKeeps DEF SameEntry
    <3>3. /\ k \in Locals /\ k.pc = "rmdirred" /\ k.dir = l.dir /\ k.ino = l.ino /\ k.old = l.old /\ k.op = l.op
          /\ k.path = l.path /\ k.to = l.to
      BY <1>0 DEF Locals
    <3> HIDE DEF k
    <3>4. Held(t, fs, k)
      BY <1>0, <3>3 DEF Held
    <3>5. Held(t, Clear(fs, l), k)
      BY <3>2, <3>4, HeldSame
    <3>6. Local(k, file[t])
      BY <1>0, <2>1, <3>3 DEF Local
    <3> QED
      BY <1>0, <2>3, <3>3, <3>5, <3>6, GoEnds
  <2> QED
    BY <1>0, <2>1, <2>2, <2>3, FaultEnds
<1>4. CASE Rmdirred(t)
  <2> DEFINE g == [fs EXCEPT !.node[l.ino].nlinks = 0]
  <2>1. /\ l.pc = "rmdirred"
        /\ \/ Faulty(t, "entered while removed")
           \/ Faulty(t, "removed from a removed directory")
           \/ Fail(t, Links(g, l.dir, -1), l)
    BY <1>4 DEF Rmdirred, Here
  <2>2. "entered while removed" \in Faults \ {"none"} /\ "removed from a removed directory" \in Faults \ {"none"}
    BY DEF Faults
  <2>3. l.dir \in Inodes /\ l.ino \in Inodes
    BY <1>0, <2>1, Sizes DEF Local
  <2>4. SameRefs(fs, g)
    <3> DEFINE e == [fs.node[l.ino] EXCEPT !.nlinks = 0]
    <3>1. fs.node[l.ino] \in Nodes
      BY <1>0, <2>3, EntFacts
    <3>2. e \in Nodes
      <4>1. PICK m \in 0..255 : m = 0
        OBVIOUS
      <4>2. [fs.node[l.ino] EXCEPT !.nlinks = m] \in Nodes
        BY <3>1 DEF Nodes
      <4> QED
        BY <4>1, <4>2
    <3>3. g = [fs EXCEPT !.node[l.ino] = e]
      BY <1>0, <2>3 DEF Systems
    <3> QED
      BY <1>0, <2>3, <3>2, <3>3, NodeKeeps
  <2> HIDE DEF g
  <2>5. SameRefs(g, Links(g, l.dir, -1))
    BY <2>3, <2>4, LinksKeeps DEF SameRefs
  <2>6. Held(t, Links(g, l.dir, -1), l)
    BY <1>0, <2>4, <2>5, HeldSame
  <2> QED
    BY <1>0, <2>1, <2>2, <2>6, FaultEnds, FailEnds
<1> QED
  BY <1>1, <1>2, <1>3, <1>4 DEF sys_rmdir

-----------------------------------------------------------------------------
(* new_inode, for a call that adds a name.                                   *)
LEMMA NewInodeHolds ==
  ASSUME NEW t, Acting(t), NewInode(t)
  PROVE  NInv'
<1> DEFINE l == loc[t]
           n == Min(FreeInodes(fs))
           f == new_inode(fs, n)
           have == [l EXCEPT !.ino = n, !.blk = 0]
           g == [f EXCEPT !.node[n].mode = "reg"]
           a == [have EXCEPT !.pc = "add"]
           b == [have EXCEPT !.pc = "fill"]
<1>0. /\ Working /\ t \in Tasks /\ Restaled /\ file[t] \in 0..NR_INODES /\ pwd[t] \in Inodes
      /\ Held(t, fs, l) /\ fs \in Systems /\ l \in Locals /\ Local(l, file[t])
  BY CallFacts
<1>1. /\ l.pc = "new"
      /\ \/ Fail(t, fs, l)
         \/ /\ FreeInodes(fs) # {}
            /\ \/ Go(t, g, a)
               \/ Fail(t, Links(f, n, -1), have)
               \/ FreeBlocks(fs) # {} /\ Go(t, NextZone(new_block(f), n, Min(FreeBlocks(fs))), b)
  BY DEF NewInode, Here
<1>2. l.dir # 0 /\ l.ino = 0 /\ l.op # "link" /\ l.old = 0 /\ l.path # <<>>
  BY <1>0, <1>1 DEF Local
<1>3. CASE Fail(t, fs, l)
  BY <1>0, <1>3, FailEnds
<1>4. CASE FreeInodes(fs) # {}
  <2>1. n \in FreeInodes(fs)
    <3>1. FreeInodes(fs) \in SUBSET Nat
      BY Sizes DEF FreeInodes
    <3> QED
      BY <1>4, <3>1, MinOfNats
  <2>2. n \in Inodes /\ n \notin fs.imap /\ n # 0 /\ n \in 0..NR_INODES
    BY <2>1, Sizes DEF FreeInodes
  <2> HIDE DEF n
  <2>3. Balanced(f, Others(t), file[t], pwd[t], l.dir, n, l.old)
    <3>1. Balanced(fs, Others(t), file[t], pwd[t], l.dir, 0, l.old)
      BY <1>0, <1>2 DEF Held
    <3> QED
      BY <2>2, <3>1, GetIno
  <2>4. f \in Systems
    BY <2>3 DEF Balanced, Counted
  <2>5. f.zmap = fs.zmap
    BY <1>0 DEF new_inode, Systems
  <2> HIDE DEF f
  <2>6. /\ have \in Locals /\ have.pc = l.pc /\ have.dir = l.dir /\ have.ino = n /\ have.old = l.old
        /\ have.op = l.op /\ have.path = l.path /\ have.to = l.to
    BY <1>0, <2>2 DEF Locals
  <2> HIDE DEF have
  <2>7. /\ a \in Locals /\ a.pc = "add" /\ a.dir = l.dir /\ a.ino = n /\ a.old = l.old
        /\ a.op = l.op /\ a.path = l.path /\ a.to = l.to
    BY <2>6 DEF Locals
  <2>8. /\ b \in Locals /\ b.pc = "fill" /\ b.dir = l.dir /\ b.ino = n /\ b.old = l.old
        /\ b.op = l.op /\ b.path = l.path /\ b.to = l.to
    BY <2>6 DEF Locals
  <2> HIDE DEF a, b
  <2>9. Held(t, f, have) /\ Held(t, f, a) /\ Held(t, f, b)
    BY <2>3, <2>6, <2>7, <2>8 DEF Held
  <2>10. Local(a, file[t]) /\ Local(b, file[t])
    BY <1>0, <1>1, <1>2, <2>2, <2>7, <2>8 DEF Local
  <2>11. CASE Go(t, g, a)
    <3> DEFINE e == [f.node[n] EXCEPT !.mode = "reg"]
    <3>1. f.node[n] \in Nodes
      BY <2>2, <2>4, EntFacts
    <3>2. e \in Nodes
      BY <3>1 DEF Nodes
    <3>3. g = [f EXCEPT !.node[n] = e]
      BY <2>2, <2>4 DEF Systems
    <3>4. SameRefs(f, g)
      BY <2>2, <2>4, <3>2, <3>3, NodeKeeps
    <3> HIDE DEF g
    <3>5. Held(t, g, a)
      BY <2>9, <3>4, HeldSame
    <3> QED
      BY <1>0, <2>7, <2>10, <2>11, <3>5, GoEnds
  <2>12. CASE Fail(t, Links(f, n, -1), have)
    <3>1. Held(t, Links(f, n, -1), have)
      BY <2>2, <2>4, <2>9, LinksKeeps, HeldSame
    <3> QED
      BY <1>0, <2>12, <3>1, FailEnds
  <2>13. CASE FreeBlocks(fs) # {} /\ Go(t, NextZone(new_block(f), n, Min(FreeBlocks(fs))), b)
    <3>0. PICK z : z = Min(FreeBlocks(fs))
      OBVIOUS
    <3>1. FreeBlocks(f) # {} /\ FreeBlocks(f) = FreeBlocks(fs)
      BY <2>5, <2>13 DEF FreeBlocks
    <3>2. SameRefs(f, new_block(f)) /\ z \in 1..NR_BLOCKS
      BY <2>4, <3>0, <3>1, NewBlockKeeps
    <3>4. SameRefs(new_block(f), NextZone(new_block(f), n, z))
      BY <2>2, <3>2, NextZoneKeeps DEF SameRefs
    <3>3. Held(t, NextZone(new_block(f), n, z), b) /\ Go(t, NextZone(new_block(f), n, z), b)
      BY <2>9, <2>13, <3>0, <3>2, <3>4, HeldSame
    <3> QED
      BY <1>0, <2>8, <2>10, <2>13, <3>3, GoEnds
  <2> QED
    BY <1>1, <1>3, <2>11, <2>12, <2>13
<1> QED
  BY <1>1, <1>3, <1>4

(* sys_mkdir writes `.' and `..', or cannot.                                 *)
LEMMA FillHolds ==
  ASSUME NEW t, Acting(t), FillDir(t) \/ FillFails(t)
  PROVE  NInv'
<1> DEFINE l == loc[t]
<1>0. /\ Working /\ t \in Tasks /\ Restaled /\ file[t] \in 0..NR_INODES /\ pwd[t] \in Inodes
      /\ Held(t, fs, l) /\ fs \in Systems /\ l \in Locals /\ Local(l, file[t]) /\ l.ino \in 0..NR_INODES
  BY CallFacts
<1>1. l.pc = "fill"
  BY DEF FillDir, FillFails, Here
<1>2. l.ino \in Inodes
  BY <1>0, <1>1, Sizes DEF Local
<1>3. CASE FillDir(t)
  <2> DEFINE g == [fs EXCEPT !.node[l.ino].nlinks = 2, !.node[l.ino].mode = "dir"]
             k == [l EXCEPT !.pc = "add"]
             e == [fs.node[l.ino] EXCEPT !.nlinks = 2, !.mode = "dir"]
  <2>1. Go(t, g, k)
    BY <1>3 DEF FillDir
  <2>2. fs.node[l.ino] \in Nodes
    BY <1>0, <1>2, EntFacts
  <2>3. e \in Nodes
    <3>0. [fs.node[l.ino] EXCEPT !.nlinks = 2] \in Nodes
      BY <2>2 DEF Nodes
    <3>1. PICK x \in Nodes : x = [fs.node[l.ino] EXCEPT !.nlinks = 2]
      BY <3>0
    <3>2. [x EXCEPT !.mode = "dir"] \in Nodes
      BY <3>1 DEF Nodes
    <3>3. e = [x EXCEPT !.mode = "dir"]
      BY <3>1
    <3> QED
      BY <3>2, <3>3
  <2>4. g = [fs EXCEPT !.node[l.ino] = e]
    BY <1>0, <1>2 DEF Systems
  <2>5. SameRefs(fs, g)
    BY <1>0, <1>2, <2>3, <2>4, NodeKeeps
  <2>6. /\ k \in Locals /\ k.pc = "add" /\ k.dir = l.dir /\ k.ino = l.ino /\ k.old = l.old /\ k.op = l.op
        /\ k.path = l.path /\ k.to = l.to
    BY <1>0 DEF Locals
  <2> HIDE DEF g, k
  <2>7. Held(t, fs, k)
    BY <1>0, <2>6 DEF Held
  <2>8. Held(t, g, k)
    BY <2>5, <2>7, HeldSame
  <2>9. Local(k, file[t])
    BY <1>0, <1>1, <2>6 DEF Local
  <2> QED
    BY <1>0, <2>1, <2>6, <2>8, <2>9, GoEnds
<1>4. CASE FillFails(t)
  <2> DEFINE g == free_blocks(fs, ToSet(fs.node[l.ino].zone))
  <2>1. Fail(t, Links(g, l.ino, -1), l)
    BY <1>4 DEF FillFails
  <2>2. SameRefs(fs, g)
    BY <1>0, FreeBlocksKeeps
  <2> HIDE DEF g
  <2>3. SameRefs(g, Links(g, l.ino, -1))
    BY <1>2, <2>2, LinksKeeps DEF SameRefs
  <2>4. Held(t, Links(g, l.ino, -1), l)
    BY <1>0, <2>2, <2>3, HeldSame
  <2> QED
    BY <1>0, <2>1, <2>4, FailEnds
<1> QED
  BY <1>3, <1>4

(* create_block takes a block and sleeps, for add_entry or for file_write.    *)
LEMMA CreateBlockHolds ==
  ASSUME NEW t, Acting(t), NEW l \in Locals, Held(t, fs, l), create_block(t, l),
         \/ l.pc = "add" /\ Local(l, file[t])
         \/ /\ l.op = "write" /\ l.dir = 0 /\ l.ino = 0 /\ l.old = 0 /\ file[t] # 0
  PROVE  NInv'
<1>0. /\ Working /\ t \in Tasks /\ Restaled /\ file[t] \in 0..NR_INODES /\ pwd[t] \in Inodes
      /\ fs \in Systems
  BY CallFacts
<1>1. PICK b : b = Min(FreeBlocks(fs))
  OBVIOUS
<1> DEFINE k == [l EXCEPT !.pc = "getblk", !.new = b]
<1>2. FreeBlocks(fs) # {} /\ Go(t, new_block(fs), k)
  BY <1>1 DEF create_block
<1>3. SameRefs(fs, new_block(fs)) /\ b \in 1..NR_BLOCKS
  BY <1>0, <1>1, <1>2, NewBlockKeeps
<1>4. b \in 0..NR_BLOCKS /\ b # 0
  BY <1>3, NameiAssumption
<1>5. /\ k \in Locals /\ k.pc = "getblk" /\ k.new = b /\ k.dir = l.dir /\ k.ino = l.ino
      /\ k.old = l.old /\ k.op = l.op /\ k.path = l.path /\ k.to = l.to
  BY <1>4 DEF Locals
<1> HIDE DEF k
<1>6. Held(t, fs, k)
  BY <1>5 DEF Held
<1>7. Held(t, new_block(fs), k)
  BY <1>3, <1>6, HeldSame
<1>8. Local(k, file[t])
  <2>1. CASE l.pc = "add" /\ Local(l, file[t])
    <3>1. l.op # "write" \/ (l.dir # 0 /\ l.path # <<>>)
      BY <2>1 DEF Local
    <3>2. l.op # "write"
      BY <2>1, <3>1 DEF Local
    <3> QED
      BY <1>4, <1>5, <2>1, <3>2 DEF Local
  <2>2. CASE l.op = "write" /\ l.dir = 0 /\ l.ino = 0 /\ l.old = 0 /\ file[t] # 0
    BY <1>4, <1>5, <2>2 DEF Local
  <2> QED
    BY <2>1, <2>2
<1> QED
  BY <1>0, <1>2, <1>5, <1>7, <1>8, GoEnds

(* The block becomes the next one of the inode, which has none there yet.     *)
LEMMA BlockMadeHolds ==
  ASSUME NEW t, Acting(t), BlockMade(t)
  PROVE  NInv'
<1> DEFINE l == loc[t]
           n == IF l.op = "write" THEN file[t] ELSE l.dir
           k == IF l.op = "write" THEN [l EXCEPT !.pc = "copy"] ELSE [l EXCEPT !.pc = "add", !.new = 0]
<1>0. /\ Working /\ t \in Tasks /\ Restaled /\ file[t] \in 0..NR_INODES /\ pwd[t] \in Inodes
      /\ Held(t, fs, l) /\ fs \in Systems /\ l \in Locals /\ Local(l, file[t])
      /\ l.dir \in 0..NR_INODES
  BY CallFacts
<1>1. l.pc = "getblk" /\ (Faulty(t, "block allocated twice") \/ Go(t, NextZone(fs, n, l.new), k))
  BY DEF BlockMade, Here
<1>2. n \in Inodes /\ l.new \in 1..NR_BLOCKS
  <2>1. l.new \in 0..NR_BLOCKS /\ l.new # 0
    BY <1>0, <1>1 DEF Local, Locals
  <2>2. n # 0 /\ n \in 0..NR_INODES
    BY <1>0, <1>1 DEF Local
  <2>3. \A x \in 0..NR_BLOCKS : x # 0 => x \in 1..NR_BLOCKS
    BY NameiAssumption
  <2> HIDE DEF n
  <2> QED
    BY <2>1, <2>2, <2>3, Sizes
<1>3. CASE Faulty(t, "block allocated twice")
  <2>1. "block allocated twice" \in Faults \ {"none"}
    BY DEF Faults
  <2> QED
    BY <1>0, <1>3, <2>1, FaultEnds
<1>4. CASE Go(t, NextZone(fs, n, l.new), k)
  <2>1. SameRefs(fs, NextZone(fs, n, l.new))
    BY <1>0, <1>2, NextZoneKeeps
  <2>2. 0 \in 0..NR_BLOCKS
    BY NameiAssumption
  <2>3. /\ k \in Locals /\ k.dir = l.dir /\ k.ino = l.ino /\ k.old = l.old
        /\ k.op = l.op /\ k.path = l.path /\ k.to = l.to
        /\ k.pc = IF l.op = "write" THEN "copy" ELSE "add"
    <3>1. CASE l.op = "write"
      BY <1>0, <3>1 DEF Locals
    <3>2. CASE l.op # "write"
      BY <1>0, <2>2, <3>2 DEF Locals
    <3> QED
      BY <3>1, <3>2
  <2> HIDE DEF k
  <2>4. Held(t, fs, k)
    BY <1>0, <2>3 DEF Held
  <2>5. Held(t, NextZone(fs, n, l.new), k)
    BY <2>1, <2>4, HeldSame
  <2>6. Local(k, file[t])
    <3>1. CASE l.op = "write"
      BY <1>0, <1>1, <2>3, <3>1 DEF Local
    <3>2. CASE l.op # "write"
      BY <1>0, <1>1, <2>3, <3>2 DEF Local
    <3> QED
      BY <3>1, <3>2
  <2> HIDE DEF n
  <2> QED
    BY <1>0, <1>4, <2>3, <2>5, <2>6, GoEnds
<1> QED
  BY <1>1, <1>3, <1>4

(* add_entry finds no room in a block.                                       *)
LEMMA NoRoomHolds ==
  ASSUME NEW t, Acting(t), AddNextBlock(t) \/ AddFails(t)
  PROVE  NInv'
<1> DEFINE l == loc[t]
<1>0. /\ Working /\ t \in Tasks /\ Restaled /\ file[t] \in 0..NR_INODES /\ pwd[t] \in Inodes
      /\ Held(t, fs, l) /\ fs \in Systems /\ l \in Locals /\ Local(l, file[t]) /\ l.ino \in 0..NR_INODES
      /\ l.dir \in 0..NR_INODES
  BY CallFacts
<1>1. l.pc = "add"
  BY DEF AddNextBlock, AddFails, Here
<1>2. l.dir \in Inodes /\ (l.op # "link" => l.ino \in Inodes)
  BY <1>0, <1>1, Sizes DEF Local
<1>3. CASE AddNextBlock(t)
  <2> DEFINE k == [l EXCEPT !.blk = @ + 1]
  <2>1. Go(t, fs, k) \/ create_block(t, k)
    BY <1>3 DEF AddNextBlock
  <2>2. k \in Locals /\ Held(t, fs, k) /\ Local(k, file[t])
    BY <1>0, NextBlk
  <2>5. k.pc = "add"
    BY <1>0, <1>1 DEF Locals
  <2> HIDE DEF k
  <2>3. CASE Go(t, fs, k)
    BY <1>0, <2>2, <2>3, GoEnds
  <2>4. CASE create_block(t, k)
    BY <2>2, <2>4, <2>5, CreateBlockHolds
  <2> QED
    BY <2>1, <2>3, <2>4
<1>4. CASE AddFails(t)
  <2> DEFINE g == free_blocks(fs, ToSet(fs.node[l.ino].zone))
  <2>1. \/ Fail(t, fs, l)
        \/ l.op = "mkdir" /\ Fail(t, Links(g, l.ino, -2), l)
        \/ l.op # "link" /\ Fail(t, Links(fs, l.ino, -1), l)
    BY <1>4 DEF AddFails
  <2>2. SameRefs(fs, g)
    BY <1>0, FreeBlocksKeeps
  <2> HIDE DEF g
  <2>3. CASE Fail(t, fs, l)
    BY <1>0, <2>3, FailEnds
  <2>4. CASE l.op = "mkdir" /\ Fail(t, Links(g, l.ino, -2), l)
    <3>1. SameRefs(g, Links(g, l.ino, -2))
      BY <1>2, <2>2, <2>4, LinksKeeps DEF SameRefs
    <3>2. Held(t, Links(g, l.ino, -2), l)
      BY <1>0, <2>2, <3>1, HeldSame
    <3> QED
      BY <1>0, <2>4, <3>2, FailEnds
  <2>5. CASE l.op # "link" /\ Fail(t, Links(fs, l.ino, -1), l)
    <3>1. SameRefs(fs, Links(fs, l.ino, -1))
      BY <1>0, <1>2, <2>5, LinksKeeps
    <3>2. Held(t, Links(fs, l.ino, -1), l)
      BY <1>0, <3>1, HeldSame
    <3> QED
      BY <1>0, <2>5, <3>2, FailEnds
  <2> QED
    BY <2>1, <2>3, <2>4, <2>5
<1> QED
  BY <1>3, <1>4

(* add_entry puts the name in, and the call goes on to its end.               *)
LEMMA AddEntryHolds ==
  ASSUME NEW t, Acting(t), AddEntry(t)
  PROVE  NInv'
<1> DEFINE l == loc[t]
           i == Min(Room(t))
           ent == fs.node[l.dir].ent
           e == [name |-> Head(l.path), ino |-> IF l.op = "link" THEN l.old ELSE l.ino]
           q == IF i > Len(ent) THEN Append(ent, e) ELSE [ent EXCEPT ![i] = e]
           f == [fs EXCEPT !.node[l.dir].ent = q]
<1>0. /\ Working /\ t \in Tasks /\ Restaled /\ file[t] \in 0..NR_INODES /\ pwd[t] \in Inodes
      /\ Held(t, fs, l) /\ fs \in Systems /\ l \in Locals /\ Local(l, file[t]) /\ l.ino \in 0..NR_INODES
      /\ l.dir \in 0..NR_INODES /\ l.old \in 0..NR_INODES /\ l.path \in Seq(Names)
  BY CallFacts
<1>1. /\ l.pc = "add" /\ Room(t) # {}
      /\ \/ Faulty(t, "name added twice")
         \/ Faulty(t, "added to a removed directory")
         \/ OpenNew(t, f, l) \/ MknodEnd(t, f, l) \/ MkdirEnd(t, f, l) \/ LinkNew(t, f, l)
  BY DEF AddEntry, Here
<1>2. "name added twice" \in Faults \ {"none"} /\ "added to a removed directory" \in Faults \ {"none"}
  BY DEF Faults
<1>3. l.dir \in Inodes /\ l.path # <<>> /\ (l.op # "link" => l.old = 0 /\ l.ino \in Inodes)
  BY <1>0, <1>1, Sizes DEF Local
<1>4. ent \in Seq(Dirents) /\ Len(ent) \in Nat
  BY <1>0, <1>3, EntFacts
<1>5. i \in Nat /\ i >= 1
  <2>1. Room(t) \in SUBSET (1..(Len(ent) + 1))
    BY DEF Room, InBlock
  <2>2. Room(t) \in SUBSET Nat
    BY <1>4, <2>1
  <2>3. i \in Room(t)
    BY <1>1, <2>2, MinOfNats
  <2> QED
    BY <1>4, <2>1, <2>3
<1>6. e \in Dirents
  <2>1. Head(l.path) \in Names
    BY <1>0, <1>3, HeadTailProperties
  <2> QED
    BY <1>0, <2>1 DEF Dirents
<1>7. q \in Seq(Dirents)
  <2> HIDE DEF e, i, ent
  <2>1. CASE i > Len(ent)
    <3>1. Append(ent, e) \in Seq(Dirents)
      BY <1>4, <1>6
    <3> QED
      BY <2>1, <3>1
  <2>2. CASE ~(i > Len(ent))
    <3>1. i \in 1..Len(ent)
      BY <1>4, <1>5, <2>2
    <3>2. [ent EXCEPT ![i] = e] \in Seq(Dirents)
      BY <1>4, <1>6, <3>1, ExceptSeq
    <3> QED
      BY <2>2, <3>2
  <2> QED
    BY <2>1, <2>2
<1> HIDE DEF q
<1>8. SameRefs(fs, f)
  BY <1>0, <1>3, <1>7, EntKeeps
<1>9. f \in Systems
  BY <1>8 DEF SameRefs
<1> HIDE DEF f
<1>10. Held(t, f, l)
  BY <1>0, <1>8, HeldSame
<1>11. CASE OpenNew(t, f, l)
  <2>1. l.op \in {"creat", "excl"} /\ sys_open(t, iput(f, l.dir), l.ino)
    BY <1>11 DEF OpenNew
  <2>2. file[t] = 0 /\ l.old = 0
    BY <1>0, <1>3, <2>1 DEF Local
  <2>3. Balanced(f, Others(t), 0, pwd[t], l.dir, l.ino, 0)
    BY <1>10, <2>2 DEF Held
  <2>4. Balanced(f, Others(t), l.ino, pwd[t], l.dir, 0, 0)
    BY <2>3, Exchange
  <2>5. Balanced(iput(f, l.dir), Others(t), l.ino, pwd[t], 0, 0, 0)
    BY <2>4, Put
  <2> QED
    BY <1>0, <2>1, <2>5, OpenEnds
<1>12. CASE MknodEnd(t, f, l)
  BY <1>0, <1>10, <1>12, FailEnds DEF MknodEnd
<1>13. CASE MkdirEnd(t, f, l)
  <2>1. Fail(t, Links(f, l.dir, 1), l)
    BY <1>13 DEF MkdirEnd
  <2>2. Held(t, Links(f, l.dir, 1), l)
    BY <1>3, <1>9, <1>10, LinksKeeps, HeldSame
  <2> QED
    BY <1>0, <2>1, <2>2, FailEnds
<1>14. CASE LinkNew(t, f, l)
  <2> DEFINE k == [l EXCEPT !.pc = "linked", !.dir = 0]
  <2>1. l.op = "link" /\ Go(t, iput(f, l.dir), k)
    BY <1>14 DEF LinkNew
  <2>2. /\ k \in Locals /\ k.pc = "linked" /\ k.dir = 0 /\ k.ino = l.ino /\ k.old = l.old /\ k.op = l.op
        /\ k.path = l.path /\ k.to = l.to
    BY <1>0, Sizes DEF Locals
  <2> HIDE DEF k
  <2>3. Held(t, iput(f, l.dir), k)
    BY <1>10, <2>2, Put DEF Held
  <2>4. Local(k, file[t])
    BY <1>0, <1>1, <2>1, <2>2 DEF Local
  <2> QED
    BY <1>0, <2>1, <2>2, <2>3, <2>4, GoEnds
<1> QED
  BY <1>0, <1>1, <1>2, <1>11, <1>12, <1>13, <1>14, FaultEnds

(* All that a call does to create a name.                                    *)
LEMMA CreateHolds ==
  ASSUME NEW t, Acting(t), Create(t)
  PROVE  NInv'
<1>1. CASE Linked(t)
  <2> DEFINE l == loc[t]
  <2>0. /\ Working /\ t \in Tasks /\ Restaled /\ file[t] \in 0..NR_INODES /\ pwd[t] \in Inodes
        /\ Held(t, fs, l) /\ fs \in Systems /\ Local(l, file[t]) /\ l.old \in 0..NR_INODES
    BY CallFacts
  <2>1. l.pc = "linked" /\ Fail(t, Links(fs, l.old, 1), l)
    BY <1>1 DEF Linked, Here
  <2>2. l.old \in Inodes
    BY <2>0, <2>1, Sizes DEF Local
  <2>3. Held(t, Links(fs, l.old, 1), l)
    BY <2>0, <2>2, LinksKeeps, HeldSame
  <2> QED
    BY <2>0, <2>1, <2>3, FailEnds
<1> QED
  BY <1>1, NewInodeHolds, FillHolds, NoRoomHolds, AddEntryHolds DEF Create

-----------------------------------------------------------------------------
(* sys_close, and the first block of a file.                                 *)
LEMMA FileHolds ==
  ASSUME NEW t, Acting(t), Access(t)
  PROVE  NInv'
<1> DEFINE l == loc[t]
<1>0. /\ Working /\ t \in Tasks /\ Restaled /\ file[t] \in 0..NR_INODES /\ pwd[t] \in Inodes
      /\ Held(t, fs, l) /\ fs \in Systems /\ l \in Locals /\ Local(l, file[t])
  BY CallFacts
<1>3. CASE sys_close(t)
  <2>0. l.pc = "idle" /\ loc' = loc /\ pwd' = pwd
    BY <1>3 DEF sys_close, Here
  <2>1. fs' = iput(fs, file[t]) /\ file' = [file EXCEPT ![t] = 0]
    BY <1>3 DEF sys_close
  <2>2. Balanced(fs', Others(t), 0, pwd[t], l.dir, l.ino, l.old)
    BY <1>0, <2>1, Put DEF Held
  <2>3. Local(l, 0) /\ 0 \in 0..NR_INODES
    BY <1>0, <2>0, Sizes DEF Local
  <2>4. loc' = [loc EXCEPT ![t] = l] /\ pwd' = [pwd EXCEPT ![t] = pwd[t]]
    BY <1>0, <2>0 DEF Working
  <2> QED
    BY <1>0, <2>1, <2>2, <2>3, <2>4, Ends
<1>4. CASE Write(t)
  <2> DEFINE k == [Idle EXCEPT !.op = "write"]
  <2>1. l.pc = "idle" /\ file[t] # 0 /\ create_block(t, k)
    BY <1>4 DEF Write, Here
  <2>2. k \in Locals /\ k.op = "write" /\ k.dir = 0 /\ k.ino = 0 /\ k.old = 0
    BY IdleIs DEF Locals
  <2> HIDE DEF k
  <2>3. l.dir = 0 /\ l.ino = 0 /\ l.old = 0
    BY <1>0, <2>1 DEF Local
  <2>4. Held(t, fs, k)
    BY <1>0, <2>2, <2>3 DEF Held
  <2> QED
    BY <2>1, <2>2, <2>4, CreateBlockHolds
<1>5. CASE Copy(t)
  <2> DEFINE b == Head(fs.node[file[t]].zone)
             k == [Idle EXCEPT !.op = "write", !.pc = "copy", !.new = b]
  <2>1. l.pc = "idle" /\ file[t] # 0 /\ Go(t, fs, k) /\ fs.node[file[t]].zone # <<>>
    BY <1>5 DEF Copy, Here
  <2>2. b \in 0..NR_BLOCKS
    <3>1. fs.node[file[t]] \in Nodes
      BY <1>0, <2>1, Sizes DEF Systems
    <3>2. fs.node[file[t]].zone \in Seq(1..NR_BLOCKS)
      BY <3>1 DEF Nodes
    <3>3. PICK q \in Seq(1..NR_BLOCKS) : q = fs.node[file[t]].zone
      BY <3>2
    <3>4. q # <<>>
      BY <2>1, <3>3
    <3>5. Head(q) \in 1..NR_BLOCKS
      BY <3>3, <3>4, HeadTailProperties
    <3>6. b = Head(q)
      BY <3>3
    <3> HIDE DEF b
    <3> QED
      BY <3>5, <3>6, NameiAssumption
  <2> HIDE DEF b
  <2>3. k \in Locals /\ k.pc = "copy" /\ k.op = "write" /\ k.dir = 0 /\ k.ino = 0 /\ k.old = 0
    BY <2>2, IdleIs DEF Locals
  <2> HIDE DEF k
  <2>4. l.dir = 0 /\ l.ino = 0 /\ l.old = 0
    BY <1>0, <2>1 DEF Local
  <2>5. Held(t, fs, k)
    BY <1>0, <2>3, <2>4 DEF Held
  <2>6. Local(k, file[t])
    BY <2>3 DEF Local
  <2> QED
    BY <1>0, <2>1, <2>3, <2>5, <2>6, GoEnds
<1>6. CASE Copied(t)
  <2>1. l.pc = "copy" /\ Go(t, fs, Idle)
    BY <1>6 DEF Copied, Here
  <2>2. l.dir = 0 /\ l.ino = 0 /\ l.old = 0
    BY <1>0, <2>1 DEF Local
  <2>3. Held(t, fs, Idle)
    BY <1>0, <2>2, IdleIs DEF Held
  <2> QED
    BY <1>0, <2>1, <2>3, IdleIs, GoEnds
<1> QED
  BY <1>3, <1>4, <1>5, <1>6, BlockMadeHolds DEF Access

(* A call begins: get_dir takes the working directory.                        *)
LEMMA CallHolds ==
  ASSUME NEW t, Acting(t), NEW op \in Ops, NEW path \in Seq(Names), NEW to \in Seq(Names), path # <<>>,
         op = "link" => Len(to) = 1, Call(t, op, path, to)
  PROVE  NInv'
<1> DEFINE k == [Idle EXCEPT !.op = op, !.path = path, !.to = to]
           f == iget(fs, pwd[t])
<1>0. /\ Working /\ t \in Tasks /\ Restaled /\ file[t] \in 0..NR_INODES /\ pwd[t] \in Inodes
      /\ Held(t, fs, loc[t]) /\ fs \in Systems /\ Local(loc[t], file[t])
  BY CallFacts
<1>1. loc[t].pc = "idle" /\ (op \in {"open", "creat", "excl"} => file[t] = 0) /\ Walk(t, f, k, pwd[t])
  BY DEF Call, Here
<1>2. Balanced(fs, Others(t), file[t], pwd[t], 0, 0, 0)
  BY <1>0, <1>1 DEF Held, Local
<1>3. Balanced(f, Others(t), file[t], pwd[t], pwd[t], 0, 0)
  BY <1>0, <1>2, PwdUsed, GetDir
<1>4. k \in Locals /\ k.op = op /\ k.path = path /\ k.to = to /\ k.dir = 0 /\ k.ino = 0 /\ k.old = 0
  BY IdleIs DEF Locals
<1> HIDE DEF k, f
<1>5. /\ k.old # 0 => k.op = "link" /\ Len(k.path) = 1
      /\ k.op = "link" /\ k.old = 0 => Len(k.to) = 1
      /\ k.op \in {"open", "creat", "excl"} => file[t] = 0
      /\ k.path # <<>> /\ k.op # "write"
  BY <1>1, <1>4, NameiAssumption
<1>6. Balanced(f, Others(t), file[t], pwd[t], pwd[t], k.ino, k.old)
  BY <1>3, <1>4
<1> QED
  BY <1>0, <1>1, <1>4, <1>5, <1>6, WalkEnds

(* Every call that can begin.                                                *)
LEMMA BeginHolds ==
  ASSUME NEW t, Acting(t), Begin(t)
  PROVE  NInv'
<1>0. <<>> \in Seq(Names) /\ \A a \in Names : <<a>> \in Seq(Names) /\ Len(<<a>>) = 1 /\ <<a>> # <<>>
  OBVIOUS
<1>1. ASSUME NEW op \in Ops \ {"link"}, NEW p \in Paths, Call(t, op, p, <<>>)
      PROVE  NInv'
  <2>1. p \in Seq(Names) /\ p # <<>>
    <3>1. CASE \E a \in Names : p = <<a>>
      BY <1>0, <3>1
    <3>2. CASE p \in Names \X Names
      <4>1. PICK a \in Names, b \in Names : p = <<a, b>>
        BY <3>2
      <4>2. <<a, b>> \in Seq(Names) /\ Len(<<a, b>>) = 2 /\ Len(<<>>) = 0
        OBVIOUS
      <4> QED
        BY <4>1, <4>2
    <3> QED
      BY <3>1, <3>2 DEF Paths
  <2>2. PICK none \in Seq(Names) : none = <<>>
    BY <1>0
  <2>3. op \in Ops /\ op # "link" /\ Call(t, op, p, none)
    BY <1>1, <2>2
  <2> QED
    BY <2>1, <2>3, CallHolds
<1>2. ASSUME "link" \in Ops, NEW a \in Names, NEW b \in Names, Call(t, "link", <<a>>, <<b>>)
      PROVE  NInv'
  <2>1. PICK p \in Seq(Names) : p = <<a>>
    BY <1>0
  <2>2. PICK q \in Seq(Names) : q = <<b>>
    BY <1>0
  <2>3. PICK op \in Ops : op = "link"
    BY <1>2
  <2>4. Call(t, op, p, q) /\ p # <<>> /\ Len(q) = 1
    BY <1>0, <1>2, <2>1, <2>2, <2>3
  <2> QED
    BY <2>4, CallHolds
<1> QED
  BY <1>1, <1>2 DEF Begin

-----------------------------------------------------------------------------
(* It holds at the start: the super block has two references to the root, and   *)
(* each task one.                                                            *)
LEMMA InitHolds ==
  ASSUME NameiInit
  PROVE  NInv
<1>1. Idle \in Locals /\ Idle.dir = 0 /\ Idle.ino = 0 /\ Idle.old = 0 /\ Idle.inr = 0 /\ Local(Idle, 0)
  BY IdleIs DEF Idle
<1>2. /\ file = [t \in Tasks |-> 0] /\ pwd = [t \in Tasks |-> ROOT_INO] /\ loc = [t \in Tasks |-> Idle]
  BY DEF NameiInit
<1>3. /\ file \in [Tasks -> 0..NR_INODES] /\ pwd \in [Tasks -> Inodes] /\ loc \in [Tasks -> Locals]
      /\ \A t \in Tasks : Local(loc[t], file[t]) /\ loc[t].inr = 0
  BY <1>1, <1>2, Sizes
<1>4. PICK C : C = Cardinality(Tasks)
  OBVIOUS
<1>5. C \in Nat
  BY <1>4, Sizes, FS_CardinalityType
<1> DEFINE root == [mode |-> "dir", nlinks |-> 2, zone |-> <<1>>, ent |-> <<>>]
           N == [n \in Inodes |-> IF n = ROOT_INO THEN root ELSE Nothing]
           K == [n \in Inodes |-> IF n = ROOT_INO THEN 2 + C ELSE 0]
<1>6. fs = [imap |-> {ROOT_INO}, zmap |-> {1}, fault |-> "none", node |-> N, count |-> K]
  BY <1>4 DEF NameiInit
<1>7. root \in Nodes
  <2>1. <<1>> \in Seq(1..NR_BLOCKS) /\ <<>> \in Seq(Dirents)
    BY Sizes
  <2> QED
    BY <2>1 DEF Nodes
<1>8. N \in [Inodes -> Nodes] /\ K \in [Inodes -> Int] /\ \A n \in Inodes : n # ROOT_INO => K[n] = 0
  <2> HIDE DEF root
  <2> QED
    BY <1>5, <1>7, NothingIs
<1>9. \A n \in Inodes : K[n] = Refs(Tasks, file, pwd, loc, n)
  <2> TAKE n \in Inodes
  <2>1. n # 0
    BY Sizes
  <2>2. /\ {u \in Tasks : file[u] = n} = {} /\ {u \in Tasks : loc[u].dir = n} = {}
        /\ {u \in Tasks : loc[u].ino = n} = {} /\ {u \in Tasks : loc[u].old = n} = {}
    BY <1>1, <1>2, <2>1
  <2>3. {u \in Tasks : pwd[u] = n} = IF n = ROOT_INO THEN Tasks ELSE {}
    BY <1>2
  <2>4. Cardinality({}) = 0
    BY FS_EmptySet
  <2>5. /\ Cardinality({u \in Tasks : file[u] = n}) = 0 /\ Cardinality({u \in Tasks : loc[u].dir = n}) = 0
        /\ Cardinality({u \in Tasks : loc[u].ino = n}) = 0 /\ Cardinality({u \in Tasks : loc[u].old = n}) = 0
        /\ Cardinality({u \in Tasks : pwd[u] = n}) = IF n = ROOT_INO THEN C ELSE 0
    BY <1>4, <2>2, <2>3, <2>4
  <2>6. K[n] = IF n = ROOT_INO THEN 2 + C ELSE 0
    OBVIOUS
  <2> HIDE DEF K
  <2> QED
    BY <1>5, <2>5, <2>6 DEF Refs
<1> HIDE DEF N, K
<1>10. fs \in Systems /\ fs.imap = {ROOT_INO} /\ fs.count = K
  BY <1>6, <1>8, Sizes DEF Systems, Faults
<1>11. RefsAccounted
  BY <1>9, <1>10 DEF RefsAccounted, Refs
<1>12. Working
  BY <1>3, <1>8, <1>10, <1>11 DEF Working
<1> QED
  BY <1>12 DEF NInv

(* The control of the calls, and the references they hold, in every state that  *)
(* is reached before the code acts on what has changed while it slept.         *)
THEOREM NameiInv == NameiSpec => []NInv
<1>1. NameiInit => NInv
  BY InitHolds
<1>2. ASSUME NInv, [NameiNext]_nvars
      PROVE  NInv'
  <2>1. CASE NameiNext
    <3>1. PICK t \in Tasks : Begin(t) \/ Step(t)
      BY <2>1 DEF NameiNext
    <3>2. Restaled
      BY <2>1 DEF NameiNext, Restaled
    <3>3. fs.fault = "none"
      BY <3>1 DEF Begin, Call, Step, Lookup, Use, sys_unlink, sys_rmdir, Create, FindNextBlock, FindFails, Adds,
            NotFound, FindSucceeds, StaleIget, Got, NextName, sys_chdir, sys_chmod, OpenOld, LinkOld, UnlinkFails,
            Unlink, Unlinked, Rmdir, empty_dir, RmdirEntry, Rmdirred, NewInode, FillDir, FillFails, AddNextBlock,
            AddFails, AddEntry, Linked, Access, sys_close, Write, Copy, Copied, BlockMade, create_block, Here
    <3>4. Acting(t)
      BY <1>2, <3>2, <3>3 DEF NInv, Acting
    <3> QED
      BY <3>1, <3>4, BeginHolds, LookupHolds, UseHolds, UnlinkHolds, RmdirHolds, CreateHolds, FileHolds DEF Step
  <2>2. CASE UNCHANGED nvars
    BY <1>2, <2>2 DEF nvars, NInv, Working, RefsAccounted
  <2> QED
    BY <1>2, <2>1, <2>2
<1> QED
  BY <1>1, <1>2, PTL DEF NameiSpec

(* RefsAccounted: fs/namei.c gives back what it takes with iget, on every path  *)
(* through every call, for any number of tasks, names, inodes and blocks.       *)
THEOREM NameiRefsAccounted == NameiSpec => []RefsAccounted
<1>1. NInv => RefsAccounted
  BY DEF NInv, Working, RefsAccounted
<1> QED
  BY <1>1, NameiInv, PTL
=============================================================================
