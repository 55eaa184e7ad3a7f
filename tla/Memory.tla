------------------------------- MODULE Memory -------------------------------
(***************************************************************************)
(* The pages of mm/memory.c: the counts in mem_map, the page tables of each *)
(* task, copy on write after fork (copy_page_tables, un_wp_page), demand    *)
(* loading and sharing of an executable (do_no_page, share_page), and the   *)
(* kernel's own stores into a task's memory (verify_area), which the        *)
(* processor does not check for write protection.                           *)
(*                                                                         *)
(* An address is the number of a page in a task's linear space; TABLE_PAGES *)
(* of them make a page table.  Page 0 stands for the memory below LOW_MEM.  *)
(* do_no_page sleeps while it reads from disk, do_execve before it frees the *)
(* old memory: everything else is atomic, as the kernel is not preempted.    *)
(* The TLB is not modelled.                                                 *)
(*                                                                         *)
(* The model stops, with fault set, where the kernel loses hold of its pages: *)
(* a store of the kernel goes to a page table that share_page has mapped for *)
(* a task, or a count no longer fits the byte it is kept in.  (mem_map then  *)
(* has the count that does not fit.)                                        *)
(***************************************************************************)
EXTENDS Integers, FiniteSets

CONSTANTS NR_TASKS,     \* tasks 1..NR_TASKS, task 1 is init
          NR_PAGES,     \* pages of main memory
          NR_TABLES, TABLE_PAGES,  \* page tables of a task, pages of a table
          DATA_PAGES,   \* pages of an executable: code and data
          MAX_COUNT,    \* the largest value of an unsigned char
          Executables,
          Used, Stored, \* bounds: the addresses that the tasks access, and store to
          KernelTasks,  \* the tasks that make system calls that store to their memory
          NULL

Tasks == 1..NR_TASKS
Pages == 1..NR_PAGES
Tables == 0..(NR_TABLES - 1)
Addresses == 0..(NR_TABLES * TABLE_PAGES - 1)
Table(a) == a \div TABLE_PAGES

LOW == 0    \* a page below LOW_MEM
NONE == -1  \* an entry that is not present

ASSUME MemoryAssumption ==
  /\ NR_TASKS \in Nat \ {0} /\ TABLE_PAGES \in Nat \ {0}
  /\ NR_TABLES \in Nat /\ DATA_PAGES \in Nat /\ DATA_PAGES <= NR_TABLES * TABLE_PAGES
  /\ MAX_COUNT \in Nat \ {0}
  /\ NR_PAGES \in Nat /\ NR_PAGES > NR_TABLES
  /\ KernelTasks \subseteq Tasks /\ Used \subseteq Addresses /\ Stored \subseteq Addresses
  /\ NULL \notin Executables

VARIABLES mem_map,    \* page |-> its count
          data,       \* page |-> what it holds
          status,     \* task |-> "free", "live" or "zombie"
          struct,     \* task |-> the page of its task_struct
          executable,
          dir, dir_w, \* task, table |-> the page of the table, its R/W bit
          pte, pte_w, \* task, address |-> the page there, its R/W bit
          loading,    \* task |-> the page that do_no_page is reading, or NONE
          wanted,     \* task |-> the address do_no_page is reading, or NONE
          storing,    \* task |-> the address the kernel is to store to, or NONE
          exec,       \* task |-> it is in do_execve and closes its files
          fault,      \* a page table is overwritten, or a count has wrapped
          view        \* history: task, address |-> what the task should find there

vars == <<mem_map, data, status, struct, executable, dir, dir_w, pte, pte_w,
          loading, wanted, storing, exec, fault, view>>
others == <<exec, fault>>

(* What a page holds: zeroes, page a of an executable, what a task wrote.   *)
Zero == <<"zero", 0>>
File(a) == <<"file", a>>
Written(t) == <<"task", t>>
PageTable == <<"table", 0>>
Kernel == <<"kernel", 0>>
Contents == {Zero, PageTable, Kernel} \cup {File(a) : a \in Addresses}
              \cup {Written(t) : t \in Tasks}

(* The counts m fit into mem_map.                                           *)
Fits(m) == \A f \in Pages : m[f] <= MAX_COUNT

TypeOK ==
  /\ mem_map \in [Pages -> Nat] /\ (~fault => Fits(mem_map))
  /\ data \in [Pages \cup {LOW} -> Contents]
  /\ status \in [Tasks -> {"free", "live", "zombie"}]
  /\ struct \in [Tasks -> Pages \cup {NONE}]
  /\ executable \in [Tasks -> Executables \cup {NULL}]
  /\ dir \in [Tasks -> [Tables -> Pages \cup {NONE}]]
  /\ dir_w \in [Tasks -> [Tables -> BOOLEAN]]
  /\ pte \in [Tasks -> [Addresses -> Pages \cup {LOW, NONE}]]
  /\ pte_w \in [Tasks -> [Addresses -> BOOLEAN]]
  /\ loading \in [Tasks -> Pages \cup {NONE}]
  /\ wanted \in [Tasks -> Addresses \cup {NONE}]
  /\ storing \in [Tasks -> Addresses \cup {NONE}]
  /\ exec \in [Tasks -> BOOLEAN] /\ fault \in BOOLEAN
  /\ view \in [Tasks -> [Addresses -> Contents]]

(* What a task of executable e finds at a before it writes there.           *)
Fresh(e, a) == IF e # NULL /\ a < DATA_PAGES THEN File(a) ELSE Zero

-----------------------------------------------------------------------------
(* get_free_page: the last page of count 0, zeroed; n-th is the page that   *)
(* the n-th call of several returns.                                        *)
Free == {f \in Pages : mem_map[f] = 0}

Nth(n) == CHOOSE f \in Free : Cardinality({g \in Free : g > f}) = n - 1

(* free_page of a page in use: what it makes of the counts m.               *)
free_page(m, f) == [m EXCEPT ![f] = @ - 1]

(* Init's page tables are the copy that the first fork made of task 0's:    *)
(* they map low memory, write-protected.                                    *)
Init ==
  LET top(n) == NR_PAGES - n
  IN /\ mem_map = [f \in Pages |-> IF f >= NR_PAGES - NR_TABLES THEN 1 ELSE 0]
     /\ data = [f \in Pages \cup {LOW} |->
                  IF f = LOW THEN Kernel
                  ELSE IF f >= NR_PAGES - NR_TABLES /\ f < NR_PAGES THEN PageTable ELSE Zero]
     /\ status = [t \in Tasks |-> IF t = 1 THEN "live" ELSE "free"]
     /\ struct = [t \in Tasks |-> IF t = 1 THEN NR_PAGES ELSE NONE]
     /\ executable = [t \in Tasks |-> NULL]
     /\ dir = [t \in Tasks |-> [i \in Tables |-> IF t = 1 THEN top(i + 1) ELSE NONE]]
     /\ dir_w = [t \in Tasks |-> [i \in Tables |-> t = 1]]
     /\ pte = [t \in Tasks |-> [a \in Addresses |-> IF t = 1 THEN LOW ELSE NONE]]
     /\ pte_w = [t \in Tasks |-> [a \in Addresses |-> FALSE]]
     /\ loading = [t \in Tasks |-> NONE]
     /\ wanted = [t \in Tasks |-> NONE]
     /\ storing = [t \in Tasks |-> NONE]
     /\ exec = [t \in Tasks |-> FALSE] /\ fault = FALSE
     /\ view = [t \in Tasks |-> [a \in Addresses |-> IF t = 1 THEN Kernel ELSE Zero]]

-----------------------------------------------------------------------------
(* t runs in user mode; t is in the kernel and does not sleep.              *)
User(t) == status[t] = "live" /\ storing[t] = NONE /\ loading[t] = NONE /\ ~exec[t]
Awake(t) == status[t] = "live" /\ loading[t] = NONE

(* free_page_tables of task t, with the change m to the counts done before. *)
(* A table's page is left zeroed; what a free page holds does not matter,   *)
(* and is zero here.                                                        *)
FreeTables(t, m) ==
  /\ mem_map' = [f \in Pages |->
       m[f] - Cardinality({a \in Addresses : pte[t][a] = f})
            - Cardinality({i \in Tables : dir[t][i] = f})]
  /\ data' = [f \in Pages \cup {LOW} |->
       IF f # LOW /\ (mem_map'[f] = 0 \/ \E i \in Tables : dir[t][i] = f)
       THEN Zero ELSE data[f]]
  /\ dir' = [dir EXCEPT ![t] = [i \in Tables |-> NONE]]
  /\ dir_w' = [dir_w EXCEPT ![t] = [i \in Tables |-> FALSE]]
  /\ pte' = [pte EXCEPT ![t] = [a \in Addresses |-> NONE]]
  /\ pte_w' = [pte_w EXCEPT ![t] = [a \in Addresses |-> FALSE]]

(* do_exit, as far as it is about memory.  It frees the tables of code and  *)
(* of data, the same ones: the second call finds none.                      *)
Die(t, m) ==
  /\ FreeTables(t, m)
  /\ status' = [status EXCEPT ![t] = "zombie"]
  /\ executable' = [executable EXCEPT ![t] = NULL]
  /\ loading' = [loading EXCEPT ![t] = NONE]
  /\ wanted' = [wanted EXCEPT ![t] = NONE]
  /\ storing' = [storing EXCEPT ![t] = NONE]
  /\ view' = [view EXCEPT ![t] = [a \in Addresses |-> Zero]]
  /\ UNCHANGED <<struct, others>>

(* oom(): the task dies.                                                    *)
oom(t) == Die(t, mem_map)

do_exit(t) == User(t) /\ t # 1 /\ Die(t, mem_map)

(* The father, or init, waits for t: release(t).                            *)
release(t) ==
  /\ status[t] = "zombie" /\ t # 1
  /\ \E u \in Tasks : User(u)
  /\ status' = [status EXCEPT ![t] = "free"]
  /\ mem_map' = free_page(mem_map, struct[t])
  /\ struct' = [struct EXCEPT ![t] = NONE]
  /\ UNCHANGED <<data, executable, dir, dir_w, pte, pte_w, loading, wanted, storing, view, others>>

(* do_execve from the point of no return (the argument pages left out): the  *)
(* executable is the new one while the files are closed, and the tasks sleep *)
(* there; then the memory of the old one is freed, and the rest of the last  *)
(* page is zeroed, if there is a rest, without verify_area.                  *)
do_execve(t, e) ==
  /\ User(t)
  /\ executable' = [executable EXCEPT ![t] = e]
  /\ exec' = [exec EXCEPT ![t] = TRUE]
  /\ UNCHANGED <<mem_map, data, status, struct, dir, dir_w, pte, pte_w, loading, wanted, storing,
                 fault, view>>

ExecTables(t) ==
  /\ exec[t]
  /\ FreeTables(t, mem_map)
  /\ exec' = [exec EXCEPT ![t] = FALSE]
  /\ view' = [view EXCEPT ![t] = [a \in Addresses |-> Fresh(executable[t], a)]]
  /\ \E rest \in {NONE, DATA_PAGES - 1} : storing' = [storing EXCEPT ![t] = rest]
  /\ UNCHANGED <<status, struct, executable, loading, wanted, fault>>

-----------------------------------------------------------------------------
(* fork of t into the slot u.  The first page is u's task_struct, then each *)
(* present table takes one, in order; without one for a table, what was     *)
(* copied is freed again, but t's entries stay write-protected.             *)
Present(t) == {i \in Tables : dir[t][i] # NONE}
Turn(t, i) == 2 + Cardinality({j \in Present(t) : j < i})
Copied(t) == {i \in Present(t) : Turn(t, i) <= Cardinality(Free)}

(* A main memory page of a copied table is write-protected for t also.      *)
(* Defect: only the child's entries are write-protected.                    *)
Protected_None(t) == pte_w[t]

Protected(t) ==
  [a \in Addresses |->
     IF Table(a) \in Copied(t) /\ pte[t][a] \in Pages THEN FALSE ELSE pte_w[t][a]]

CopyProcess(t, u) ==
  /\ Copied(t) = Present(t)
  /\ status' = [status EXCEPT ![u] = "live"]
  /\ struct' = [struct EXCEPT ![u] = Nth(1)]
  /\ executable' = [executable EXCEPT ![u] = executable[t]]
  /\ dir' = [dir EXCEPT ![u] =
       [i \in Tables |-> IF i \in Present(t) THEN Nth(Turn(t, i)) ELSE NONE]]
  /\ dir_w' = [dir_w EXCEPT ![u] = [i \in Tables |-> i \in Present(t)]]
  /\ pte' = [pte EXCEPT ![u] = pte[t]]
  /\ pte_w' = [pte_w EXCEPT ![u] = [a \in Addresses |-> FALSE], ![t] = Protected(t)]
  /\ LET new == {Nth(n) : n \in 1..(1 + Cardinality(Present(t)))}
     IN /\ mem_map' = [f \in Pages |->
             mem_map[f] + Cardinality({a \in Addresses : pte[t][a] = f})
                        + (IF f \in new THEN 1 ELSE 0)]
        /\ data' = [f \in Pages \cup {LOW} |->
             IF f \notin new THEN data[f] ELSE IF f = Nth(1) THEN Zero ELSE PageTable]
  /\ view' = [view EXCEPT ![u] = view[t]]
  /\ fault' = ~Fits(mem_map')
  /\ UNCHANGED <<loading, wanted, storing, exec>>

(* The counts before what was copied is freed again.                         *)
Shared(t) ==
  [f \in Pages |-> mem_map[f]
     + Cardinality({a \in Addresses : Table(a) \in Copied(t) /\ pte[t][a] = f})]

ForkFails(t) ==
  /\ Copied(t) # Present(t)
  /\ fault' = ~Fits(Shared(t))
  /\ pte_w' = [pte_w EXCEPT ![t] = Protected(t)]
  /\ UNCHANGED <<mem_map, data, status, struct, executable, dir, dir_w, pte,
                 loading, wanted, storing, view, exec>>

fork(t) ==
  /\ User(t)
  /\ Free # {}
  /\ \E u \in Tasks :
       /\ status[u] = "free" /\ \A v \in 1..(u - 1) : status[v] # "free"
       /\ CopyProcess(t, u) \/ ForkFails(t)

-----------------------------------------------------------------------------
(* Main memory page f is mapped once.                                       *)
Alone(f) == f # LOW /\ mem_map[f] = 1

(* un_wp_page of the entry of t for a; s is the store that t is then to do. *)
un_wp_page(t, a, s) ==
  LET old == pte[t][a]
      new == Nth(1)
  IN \/ /\ Alone(old)
        /\ pte_w' = [pte_w EXCEPT ![t][a] = TRUE]
        /\ storing' = [storing EXCEPT ![t] = s]
        /\ UNCHANGED <<mem_map, data, status, struct, executable, dir, dir_w, pte,
                       loading, wanted, view, others>>
     \/ /\ ~Alone(old)
        /\ Free = {} /\ oom(t)
     \/ /\ ~Alone(old)
        /\ Free # {}
        /\ mem_map' = [f \in Pages |-> IF f = new THEN 1
                                       ELSE IF f = old THEN mem_map[f] - 1 ELSE mem_map[f]]
        /\ data' = [data EXCEPT ![new] = data[old]]
        /\ pte' = [pte EXCEPT ![t][a] = new]
        /\ pte_w' = [pte_w EXCEPT ![t][a] = TRUE]
        /\ storing' = [storing EXCEPT ![t] = s]
        /\ UNCHANGED <<status, struct, executable, dir, dir_w, loading, wanted, view, others>>

Writable(t, a) == dir_w[t][Table(a)] /\ pte_w[t][a]

(* A store of t in user mode, and the fault it takes first: do_wp_page.     *)
Write(t, a) ==
  /\ User(t)
  /\ pte[t][a] # NONE /\ Writable(t, a)
  /\ data' = [data EXCEPT ![pte[t][a]] = Written(t)]
  /\ view' = [view EXCEPT ![t][a] = Written(t)]
  /\ UNCHANGED <<mem_map, status, struct, executable, dir, dir_w, pte, pte_w,
                 loading, wanted, storing, others>>

do_wp_page(t, a) ==
  /\ User(t)
  /\ pte[t][a] # NONE /\ ~Writable(t, a)
  /\ un_wp_page(t, a, NONE)

-----------------------------------------------------------------------------
(* A system call checks the page it will store to with verify_area, may     *)
(* sleep, and stores; the store faults only on a page that is not present.  *)
(* Defect: the store goes ahead without the check.                          *)
verify_area_None(t, a) ==
  /\ User(t) /\ t \in KernelTasks
  /\ storing' = [storing EXCEPT ![t] = a]
  /\ UNCHANGED <<mem_map, data, status, struct, executable, dir, dir_w, pte, pte_w,
                 loading, wanted, view, others>>

write_verify(t, a) ==
  \/ /\ pte[t][a] # NONE /\ ~pte_w[t][a]
     /\ un_wp_page(t, a, a)
  \/ /\ pte[t][a] = NONE \/ pte_w[t][a]
     /\ storing' = [storing EXCEPT ![t] = a]
     /\ UNCHANGED <<mem_map, data, status, struct, executable, dir, dir_w, pte, pte_w,
                    loading, wanted, view, others>>

verify_area(t, a) == User(t) /\ t \in KernelTasks /\ write_verify(t, a)

(* f is the page of a page table.                                           *)
IsTable(f) == \E p \in Tasks, i \in Tables : dir[p][i] = f

put_fs_byte(t) ==
  LET a == storing[t]
  IN /\ Awake(t) /\ a # NONE /\ pte[t][a] # NONE
     /\ data' = [data EXCEPT ![pte[t][a]] = Written(t)]
     /\ view' = [view EXCEPT ![t][a] = Written(t)]
     /\ storing' = [storing EXCEPT ![t] = NONE]
     /\ fault' = IsTable(pte[t][a])
     /\ UNCHANGED <<mem_map, status, struct, executable, dir, dir_w, pte, pte_w,
                    loading, wanted, exec>>

-----------------------------------------------------------------------------
(* The entry of t for a becomes the page f, with R/W bit w, in a table that *)
(* is there or takes the page n.                                            *)
Map(t, a, f, w, n) ==
  /\ pte' = [pte EXCEPT ![t][a] = f]
  /\ pte_w' = [pte_w EXCEPT ![t][a] = w]
  /\ dir' = [dir EXCEPT ![t][Table(a)] = IF @ = NONE THEN n ELSE @]

HasTable(t, a) == dir[t][Table(a)] # NONE

(* The task whose page try_to_share takes: the last of the same executable  *)
(* with a page directory entry there.                                       *)
Sharers(t, a) ==
  {p \in Tasks \ {t} : executable[p] = executable[t] /\ HasTable(p, a)}

(* get_empty_page, for the heap, the stack and a task without executable.   *)
get_empty_page(t, a) ==
  LET need == IF HasTable(t, a) THEN 1 ELSE 2
  IN \/ Cardinality(Free) < need /\ oom(t)
     \/ /\ Cardinality(Free) >= need
        /\ Map(t, a, Nth(1), TRUE, Nth(2))
        /\ dir_w' = [dir_w EXCEPT ![t][Table(a)] = IF HasTable(t, a) THEN @ ELSE TRUE]
        /\ LET new == {Nth(n) : n \in 1..need}
           IN /\ mem_map' = [f \in Pages |-> IF f \in new THEN 1 ELSE mem_map[f]]
              /\ data' = [f \in Pages \cup {LOW} |->
                   IF f \notin new THEN data[f] ELSE IF f = Nth(1) THEN Zero ELSE PageTable]
        /\ UNCHANGED <<status, struct, executable, loading, wanted, storing, view, others>>

(* share_page and try_to_share.  The entry that is tested, write-protected   *)
(* and copied is p's page directory entry: what is shared is p's page table. *)
try_to_share(t, a, p) ==
  LET i == Table(a)
      f == dir[p][i]
  IN \/ ~HasTable(t, a) /\ Free = {} /\ oom(t)
     \/ /\ HasTable(t, a) \/ Free # {}
        /\ Map(t, a, f, FALSE, Nth(1))
        /\ dir_w' = [dir_w EXCEPT ![p][i] = FALSE,
                                  ![t][i] = IF HasTable(t, a) THEN @ ELSE TRUE]
        /\ mem_map' = [g \in Pages |->
             IF g = f THEN mem_map[g] + 1
             ELSE IF ~HasTable(t, a) /\ g = Nth(1) THEN 1 ELSE mem_map[g]]
        /\ fault' = ~Fits(mem_map')
        /\ data' = IF HasTable(t, a) THEN data ELSE [data EXCEPT ![Nth(1)] = PageTable]
        /\ UNCHANGED <<status, struct, executable, loading, wanted, storing, view, exec>>

share_page(t, a) ==
  \E p \in Sharers(t, a) :
    /\ \A q \in Sharers(t, a) : q <= p
    /\ try_to_share(t, a, p)

(* The start of reading the page from the executable.                       *)
StartLoad(t, a) ==
  \/ Free = {} /\ oom(t)
  \/ /\ Free # {}
     /\ mem_map' = [mem_map EXCEPT ![Nth(1)] = 1]
     /\ data' = [data EXCEPT ![Nth(1)] = Zero]
     /\ loading' = [loading EXCEPT ![t] = Nth(1)]
     /\ wanted' = [wanted EXCEPT ![t] = a]
     /\ UNCHANGED <<status, struct, executable, dir, dir_w, pte, pte_w, storing, view, others>>

do_no_page(t, a) ==
  /\ User(t) \/ (Awake(t) /\ storing[t] = a)
  /\ pte[t][a] = NONE
  /\ \/ /\ executable[t] = NULL \/ a >= DATA_PAGES
        /\ get_empty_page(t, a)
     \/ /\ executable[t] # NULL /\ a < DATA_PAGES
        /\ IF Sharers(t, a) # {} THEN share_page(t, a) ELSE StartLoad(t, a)

(* bread_page is back: the page is put in place, or freed without a table.  *)
(* Defect: the page that was read is not freed when there is no table for it. *)
LoadDone_Leaks(t) ==
  LET a == wanted[t]
      f == loading[t]
  IN /\ f # NONE
     /\ \/ /\ ~HasTable(t, a) /\ Free = {}
           /\ Die(t, mem_map)
        \/ /\ HasTable(t, a) \/ Free # {}
           /\ Map(t, a, f, TRUE, Nth(1))
           /\ dir_w' = [dir_w EXCEPT ![t][Table(a)] = IF HasTable(t, a) THEN @ ELSE TRUE]
           /\ mem_map' = IF HasTable(t, a) THEN mem_map ELSE [mem_map EXCEPT ![Nth(1)] = 1]
           /\ data' = [data EXCEPT ![f] = File(a)]
           /\ loading' = [loading EXCEPT ![t] = NONE]
           /\ wanted' = [wanted EXCEPT ![t] = NONE]
           /\ UNCHANGED <<status, struct, executable, storing, view, others>>

LoadDone(t) ==
  LET a == wanted[t]
      f == loading[t]
  IN /\ f # NONE
     /\ \/ /\ ~HasTable(t, a) /\ Free = {}
           /\ Die(t, free_page(mem_map, f))
        \/ /\ HasTable(t, a) \/ Free # {}
           /\ Map(t, a, f, TRUE, Nth(1))
           /\ dir_w' = [dir_w EXCEPT ![t][Table(a)] = IF HasTable(t, a) THEN @ ELSE TRUE]
           /\ mem_map' = IF HasTable(t, a) THEN mem_map ELSE [mem_map EXCEPT ![Nth(1)] = 1]
           /\ data' = [g \in Pages \cup {LOW} |->
                IF g = f THEN File(a)
                ELSE IF ~HasTable(t, a) /\ g = Nth(1) THEN PageTable ELSE data[g]]
           /\ loading' = [loading EXCEPT ![t] = NONE]
           /\ wanted' = [wanted EXCEPT ![t] = NONE]
           /\ UNCHANGED <<status, struct, executable, storing, view, others>>

-----------------------------------------------------------------------------
Step(t) ==
  \/ fork(t) \/ do_exit(t) \/ release(t) \/ put_fs_byte(t) \/ LoadDone(t) \/ ExecTables(t)
  \/ \E e \in Executables : do_execve(t, e)
  \/ \E a \in Used : do_no_page(t, a)
  \/ \E a \in Stored : Write(t, a) \/ do_wp_page(t, a) \/ verify_area(t, a)

Next == ~fault /\ \E t \in Tasks : Step(t)

Spec == Init /\ [][Next]_vars

-----------------------------------------------------------------------------
(* The count of a page in mem_map is the number of places it is used in: so  *)
(* no page leaks, and none is freed that is still in use, whatever fails      *)
(* half way for lack of memory (memory.c:68-75, 129-139).                    *)
MemMapCounts ==
  \A f \in Pages :
    mem_map[f] = Cardinality({x \in Tasks \X Addresses : pte[x[1]][x[2]] = f})
               + Cardinality({x \in Tasks \X Tables : dir[x[1]][x[2]] = f})
               + Cardinality({t \in Tasks : struct[t] = f})
               + Cardinality({t \in Tasks : loading[t] = f})

(* Copy on write: a page that a task may store to without a fault is mapped   *)
(* nowhere else.                                                            *)
WritableIsPrivate ==
  \A t \in Tasks, a \in Addresses :
    pte[t][a] # NONE /\ Writable(t, a) =>
      /\ pte[t][a] # LOW
      /\ \A u \in Tasks, b \in Addresses : pte[u][b] = pte[t][a] => u = t /\ b = a

(* Up to a fault, each task finds in its memory, beyond the pages of its      *)
(* executable, what its father had there when it forked or what it stored     *)
(* itself, also when the kernel stores for it, and never what another task    *)
(* stored, although share_page maps pages that are not the executable's.      *)
Isolation ==
  \A t \in Tasks, a \in Addresses :
    pte[t][a] # NONE /\ a >= DATA_PAGES => data[pte[t][a]] = view[t][a]
=============================================================================
