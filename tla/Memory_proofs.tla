--------------------------- MODULE Memory_proofs ---------------------------
(***************************************************************************)
(* Proofs about the pages of mm/memory.c, for any number of tasks, pages,   *)
(* tables and executables: the counts in mem_map are right, copy on write   *)
(* leaves no page that two tasks may store to, and no task finds in its     *)
(* memory what another one has stored.                                      *)
(***************************************************************************)
EXTENDS Memory, SetLemmas

(* The types of all variables but those the last two parts of the invariant  *)
(* are about.                                                                *)
Types ==
  /\ mem_map \in [Pages -> Nat]
  /\ data \in [Pages \cup {LOW} -> Contents]
  /\ status \in [Tasks -> {"free", "live", "zombie"}]
  /\ struct \in [Tasks -> Pages \cup {NONE}]
  /\ executable \in [Tasks -> Executables \cup {NULL}]
  /\ dir \in [Tasks -> [Tables -> Pages \cup {NONE}]]
  /\ dir_w \in [Tasks -> [Tables -> BOOLEAN]]
  /\ pte \in [Tasks -> [Addresses -> Pages \cup {LOW, NONE}]]
  /\ pte_w \in [Tasks -> [Addresses -> BOOLEAN]]
  /\ loading \in [Tasks -> Pages \cup {NONE}]
  /\ wanted \in [Tasks -> Addresses \cup {NONE}]
  /\ storing \in [Tasks -> Addresses \cup {NONE}]
  /\ view \in [Tasks -> [Addresses -> Contents]]

(* A task that is not live has no memory but its task_struct, and a free     *)
(* slot not even that.                                                       *)
Dead == \A t \in Tasks :
  /\ struct[t] = NONE <=> status[t] = "free"
  /\ status[t] # "live" => /\ \A a \in Addresses : pte[t][a] = NONE
                           /\ \A i \in Tables : dir[t][i] = NONE
                           /\ loading[t] = NONE /\ storing[t] = NONE

(* A page that is mapped is mapped in a page table.                          *)
Tabled == \A t \in Tasks, a \in Addresses : pte[t][a] # NONE => dir[t][Table(a)] # NONE

(* A page table entry with the R/W bit, whatever the directory says, is the  *)
(* only use of its page.                                                     *)
Private == \A t \in Tasks, a \in Addresses :
  pte_w[t][a] => pte[t][a] \in Pages /\ mem_map[pte[t][a]] = 1

(* do_no_page reads a page of the executable, which has no entry yet, into a *)
(* page that nobody else uses.                                               *)
Loading == \A t \in Tasks : loading[t] # NONE =>
  /\ wanted[t] \in Addresses /\ wanted[t] < DATA_PAGES /\ pte[t][wanted[t]] = NONE
  /\ mem_map[loading[t]] = 1

(* verify_area has done its work, or the page it is about is one that        *)
(* share_page has put into the executable's part.                            *)
Storable == \A t \in Tasks : storing[t] # NONE =>
  \/ pte[t][storing[t]] = NONE \/ pte_w[t][storing[t]]
  \/ storing[t] < DATA_PAGES /\ pte[t][storing[t]] \in Pages

(* A page beyond the executable is mapped at one address only, and is not    *)
(* used for anything else.                                                   *)
Separate == \A t \in Tasks, a \in Addresses : a >= DATA_PAGES /\ pte[t][a] \in Pages =>
  /\ \A u \in Tasks, b \in Addresses : pte[u][b] = pte[t][a] => b = a
  /\ \A u \in Tasks, i \in Tables : dir[u][i] # pte[t][a]
  /\ \A u \in Tasks : loading[u] # pte[t][a]

(* What has not been touched yet is to be zero.                              *)
Untouched == \A t \in Tasks, a \in Addresses : a >= DATA_PAGES /\ pte[t][a] = NONE => view[t][a] = Zero

(* A task that closes its files in do_execve neither reads a page nor is it   *)
(* about to store to one.                                                    *)
Executing == /\ exec \in [Tasks -> BOOLEAN]
             /\ \A t \in Tasks : exec[t] => status[t] = "live" /\ loading[t] = NONE /\ storing[t] = NONE

(* Until the model stops the counts fit their bytes.                         *)
Bytes == fault \in BOOLEAN /\ (~fault => Fits(mem_map))

(* The inductive invariant.                                                  *)
Shape == Dead /\ Tabled /\ Private /\ Loading /\ Storable /\ Separate /\ Untouched
MInv == Types /\ MemMapCounts /\ Shape /\ Isolation
MemInv == MInv /\ Executing /\ Bytes

-----------------------------------------------------------------------------
(* What the constants are.                                                   *)
LEMMA Domains ==
  /\ IsFiniteSet(Tasks) /\ IsFiniteSet(Addresses) /\ IsFiniteSet(Tables) /\ IsFiniteSet(Pages)
  /\ Pages \in SUBSET Int /\ NR_PAGES \in Int /\ (\A f \in Pages : f <= NR_PAGES)
  /\ LOW \notin Pages /\ NONE \notin Pages /\ NONE # LOW
  /\ Addresses \in SUBSET Int /\ NONE \notin Addresses /\ DATA_PAGES \in Int
  /\ Tables \in SUBSET Int /\ NR_TABLES \in Int /\ \A i \in Tables : i <= NR_TABLES
  /\ \A a \in Addresses : Table(a) \in Tables
<1> DEFINE m == NR_TABLES * TABLE_PAGES - 1
           k == NR_TABLES - 1
<1>1. m \in Int /\ k \in Int /\ NR_TASKS \in Int /\ NR_PAGES \in Int
  BY MemoryAssumption
<1>2. Addresses = 0..m /\ Tables = 0..k
  BY DEF Addresses, Tables
<1>3. \A a \in Addresses : Table(a) \in Tables
  BY MemoryAssumption DEF Addresses, Tables, Table
<1> HIDE DEF m, k
<1>4. IsFiniteSet(1..NR_TASKS) /\ IsFiniteSet(0..m) /\ IsFiniteSet(0..k) /\ IsFiniteSet(1..NR_PAGES)
  BY <1>1, FS_Interval
<1>5. /\ Pages \in SUBSET Int /\ NR_PAGES \in Int /\ \A f \in Pages : f <= NR_PAGES
      /\ LOW \notin Pages /\ NONE \notin Pages /\ NONE # LOW
  BY <1>1 DEF Pages, LOW, NONE
<1>6. Addresses \in SUBSET Int /\ NONE \notin Addresses
  BY <1>1, <1>2 DEF NONE
<1>7. Tables \in SUBSET Int /\ NR_TABLES \in Int /\ \A i \in Tables : i <= NR_TABLES
  BY <1>1, <1>2, MemoryAssumption DEF k
<1>8. DATA_PAGES \in Int
  BY MemoryAssumption
<1> QED
  BY <1>2, <1>3, <1>4, <1>5, <1>6, <1>7, <1>8 DEF Tasks, Pages

-----------------------------------------------------------------------------
(* How often a page is used.                                                 *)
PteUses(f) == Cardinality(Places(pte, Tasks, Addresses, f))
DirUses(f) == Cardinality(Places(dir, Tasks, Tables, f))
StructUses(f) == Cardinality({t \in Tasks : struct[t] = f})
LoadUses(f) == Cardinality({t \in Tasks : loading[t] = f})

(* The counts are the numbers of uses.                                       *)
LEMMA CountsAreUses ==
  MemMapCounts <=> \A f \in Pages : mem_map[f] = PteUses(f) + DirUses(f) + StructUses(f) + LoadUses(f)
  BY DEF MemMapCounts, PteUses, DirUses, StructUses, LoadUses, Places

(* A set is empty if and only if its cardinality is zero, and has more than  *)
(* x in it if that is not one.                                               *)
LEMMA SmallSets ==
  ASSUME NEW S, IsFiniteSet(S)
  PROVE  /\ Cardinality(S) \in Nat
         /\ \A x \in S : Cardinality(S) >= 1
         /\ \A x, y \in S : x # y => Cardinality(S) >= 2
<1>1. Cardinality(S) \in Nat
  BY FS_CardinalityType
<1>2. ASSUME NEW x \in S PROVE Cardinality(S) >= 1 /\ Cardinality(S \ {x}) = Cardinality(S) - 1
      /\ IsFiniteSet(S \ {x}) /\ Cardinality(S \ {x}) \in Nat
  <2>1. Cardinality(S \ {x}) = Cardinality(S) - 1 /\ IsFiniteSet(S \ {x})
    BY CardinalityStep
  <2>2. Cardinality(S \ {x}) \in Nat
    BY <2>1, FS_CardinalityType
  <2> QED
    BY <1>1, <2>1, <2>2
<1>3. ASSUME NEW x \in S, NEW y \in S, x # y PROVE Cardinality(S) >= 2
  <2>1. S \ {x} # {} /\ IsFiniteSet(S \ {x})
    BY <1>2, <1>3
  <2>2. Cardinality(S \ {x}) # 0
    BY <2>1, FS_EmptySet
  <2> QED
    BY <1>1, <1>2, <2>2
<1> QED
  BY <1>1, <1>2, <1>3

(* The uses of a page, one by one.                                           *)
LEMMA Uses ==
  ASSUME Types, NEW f
  PROVE  /\ PteUses(f) \in Nat /\ DirUses(f) \in Nat /\ StructUses(f) \in Nat /\ LoadUses(f) \in Nat
         /\ \A t \in Tasks, a \in Addresses : pte[t][a] = f =>
              /\ PteUses(f) >= 1
              /\ \A u \in Tasks, b \in Addresses : pte[u][b] = f /\ (u # t \/ b # a) => PteUses(f) >= 2
         /\ \A t \in Tasks, i \in Tables : dir[t][i] = f => DirUses(f) >= 1
         /\ \A t \in Tasks : struct[t] = f => StructUses(f) >= 1
         /\ \A t \in Tasks : loading[t] = f =>
              /\ LoadUses(f) >= 1
              /\ \A u \in Tasks : loading[u] = f /\ u # t => LoadUses(f) >= 2
<1> DEFINE A == Places(pte, Tasks, Addresses, f)
           B == Places(dir, Tasks, Tables, f)
           C == {t \in Tasks : struct[t] = f}
           E == {t \in Tasks : loading[t] = f}
<1>1. IsFiniteSet(A) /\ IsFiniteSet(B)
  BY Domains, FS_Product, FS_Subset DEF Places
<1>2. IsFiniteSet(C) /\ IsFiniteSet(E)
  BY Domains, FS_Subset
<1>3. \A t \in Tasks, a \in Addresses : pte[t][a] = f => <<t, a>> \in A
  BY DEF Places
<1>4. \A t \in Tasks, i \in Tables : dir[t][i] = f => <<t, i>> \in B
  BY DEF Places
<1>5. \A t \in Tasks : (struct[t] = f => t \in C) /\ (loading[t] = f => t \in E)
  OBVIOUS
<1> HIDE DEF A, B, C, E
<1>6. Cardinality(A) \in Nat /\ (\A x \in A : Cardinality(A) >= 1)
      /\ \A x, y \in A : x # y => Cardinality(A) >= 2
  BY <1>1, SmallSets
<1>7. Cardinality(B) \in Nat /\ \A x \in B : Cardinality(B) >= 1
  BY <1>1, SmallSets
<1>8. Cardinality(C) \in Nat /\ \A x \in C : Cardinality(C) >= 1
  BY <1>2, SmallSets
<1>9. Cardinality(E) \in Nat /\ (\A x \in E : Cardinality(E) >= 1)
      /\ \A x, y \in E : x # y => Cardinality(E) >= 2
  BY <1>2, SmallSets
<1>10. PteUses(f) = Cardinality(A) /\ DirUses(f) = Cardinality(B)
       /\ StructUses(f) = Cardinality(C) /\ LoadUses(f) = Cardinality(E)
  BY DEF A, B, C, E, PteUses, DirUses, StructUses, LoadUses
<1>11. \A t, u \in Tasks, a, b \in Addresses : u # t \/ b # a => <<t, a>> # <<u, b>>
  OBVIOUS
<1>12. ASSUME NEW t \in Tasks, NEW a \in Addresses, pte[t][a] = f
       PROVE  /\ Cardinality(A) >= 1
              /\ \A u \in Tasks, b \in Addresses :
                   pte[u][b] = f /\ (u # t \/ b # a) => Cardinality(A) >= 2
  BY <1>3, <1>6, <1>11, <1>12
<1>13. \A t \in Tasks, i \in Tables : dir[t][i] = f => Cardinality(B) >= 1
  BY <1>4, <1>7
<1>14. \A t \in Tasks : struct[t] = f => Cardinality(C) >= 1
  BY <1>5, <1>8
<1>15. \A t \in Tasks : loading[t] = f =>
         /\ Cardinality(E) >= 1
         /\ \A u \in Tasks : loading[u] = f /\ u # t => Cardinality(E) >= 2
  BY <1>5, <1>9
<1> QED
  BY <1>6, <1>7, <1>8, <1>9, <1>10, <1>12, <1>13, <1>14, <1>15

(* A page of count 0 is used nowhere, ...                                    *)
LEMMA FreeUnused ==
  ASSUME Types, MemMapCounts, NEW f \in Free
  PROVE  /\ f \in Pages /\ mem_map[f] = 0
         /\ \A t \in Tasks, a \in Addresses : pte[t][a] # f
         /\ \A t \in Tasks, i \in Tables : dir[t][i] # f
         /\ \A t \in Tasks : struct[t] # f /\ loading[t] # f
<1>1. f \in Pages /\ mem_map[f] = 0
  BY DEF Free
<1>2. PteUses(f) + DirUses(f) + StructUses(f) + LoadUses(f) = 0
  BY <1>1, CountsAreUses
<1> HIDE DEF MemMapCounts
<1>3. /\ PteUses(f) \in Nat /\ DirUses(f) \in Nat /\ StructUses(f) \in Nat /\ LoadUses(f) \in Nat
      /\ \A t \in Tasks, a \in Addresses : pte[t][a] = f => PteUses(f) >= 1
      /\ \A t \in Tasks, i \in Tables : dir[t][i] = f => DirUses(f) >= 1
      /\ \A t \in Tasks : struct[t] = f => StructUses(f) >= 1
      /\ \A t \in Tasks : loading[t] = f => LoadUses(f) >= 1
  BY Uses
<1>4. PteUses(f) = 0 /\ DirUses(f) = 0 /\ StructUses(f) = 0 /\ LoadUses(f) = 0
  <2>1. PteUses(f) \in Nat /\ DirUses(f) \in Nat /\ StructUses(f) \in Nat /\ LoadUses(f) \in Nat
    BY <1>3
  <2>2. \A w, x, y, z \in Nat : w + x + y + z = 0 => w = 0 /\ x = 0 /\ y = 0 /\ z = 0
    OBVIOUS
  <2> QED
    BY <1>2, <2>1, <2>2
<1>5. ~(0 >= 1)
  OBVIOUS
<1> QED
  BY <1>1, <1>3, <1>4, <1>5, Zenon

(* ... and a mapped page of count 1 nowhere else.                            *)
LEMMA AloneUnused ==
  ASSUME Types, MemMapCounts, NEW t \in Tasks, NEW a \in Addresses, pte[t][a] \in Pages
  PROVE  /\ mem_map[pte[t][a]] >= 1
         /\ mem_map[pte[t][a]] = 1 =>
              /\ \A u \in Tasks, b \in Addresses : pte[u][b] = pte[t][a] => u = t /\ b = a
              /\ \A u \in Tasks, i \in Tables : dir[u][i] # pte[t][a]
              /\ \A u \in Tasks : struct[u] # pte[t][a] /\ loading[u] # pte[t][a]
<1> DEFINE f == pte[t][a]
<1>1. mem_map[f] = PteUses(f) + DirUses(f) + StructUses(f) + LoadUses(f)
  BY CountsAreUses
<1>2. /\ PteUses(f) \in Nat /\ DirUses(f) \in Nat /\ StructUses(f) \in Nat /\ LoadUses(f) \in Nat
      /\ PteUses(f) >= 1
      /\ \A u \in Tasks, b \in Addresses : pte[u][b] = f /\ (u # t \/ b # a) => PteUses(f) >= 2
      /\ \A u \in Tasks, i \in Tables : dir[u][i] = f => DirUses(f) >= 1
      /\ \A u \in Tasks : struct[u] = f => StructUses(f) >= 1
      /\ \A u \in Tasks : loading[u] = f => LoadUses(f) >= 1
  BY Uses
<1> HIDE DEF f
<1>3. mem_map[f] >= 1
  BY <1>1, <1>2
<1>4. ASSUME mem_map[f] = 1
      PROVE  PteUses(f) = 1 /\ DirUses(f) = 0 /\ StructUses(f) = 0 /\ LoadUses(f) = 0
  BY <1>1, <1>2, <1>4
<1>5. ~(0 >= 1) /\ ~(1 >= 2)
  OBVIOUS
<1>6. ASSUME mem_map[f] = 1
      PROVE  /\ \A u \in Tasks, b \in Addresses : pte[u][b] = f => u = t /\ b = a
             /\ \A u \in Tasks, i \in Tables : dir[u][i] # f
             /\ \A u \in Tasks : struct[u] # f /\ loading[u] # f
  BY <1>2, <1>4, <1>5, <1>6, Zenon
<1> QED
  BY <1>3, <1>6 DEF f

-----------------------------------------------------------------------------
(* get_free_page: so many calls return so many different free pages.         *)
LEMMA FreePages ==
  ASSUME Types
  PROVE  /\ IsFiniteSet(Free) /\ Free \in SUBSET Pages /\ Cardinality(Free) \in Nat
         /\ Free # {} => 1 <= Cardinality(Free)
         /\ \A n \in 1..Cardinality(Free) : Nth(n) \in Free
         /\ \A m, n \in 1..Cardinality(Free) : Nth(m) = Nth(n) => m = n
<1>1. Free \in SUBSET Pages /\ IsFiniteSet(Free) /\ Cardinality(Free) \in Nat
  BY Domains, FS_Subset, FS_CardinalityType DEF Free
<1>2. Free \in SUBSET Int /\ \A f \in Free : f <= NR_PAGES
  BY <1>1, Domains
<1>3. Free # {} => 1 <= Cardinality(Free)
  BY <1>1, SmallSets
<1>4. ASSUME NEW n \in 1..Cardinality(Free)
      PROVE  Nth(n) \in Free /\ Cardinality(Above(Free, Nth(n))) = n - 1
  <2>1. \E x \in Free : Cardinality(Above(Free, x)) = n - 1
    BY <1>1, <1>2, Domains, RankDown
  <2>2. Nth(n) = CHOOSE x \in Free : Cardinality(Above(Free, x)) = n - 1
    BY DEF Nth, Above
  <2> QED
    BY <2>1, <2>2
<1>5. ASSUME NEW m \in 1..Cardinality(Free), NEW n \in 1..Cardinality(Free), Nth(m) = Nth(n) PROVE m = n
  <2>1. m - 1 = n - 1
    BY <1>4, <1>5
  <2> QED
    BY <1>1, <2>1
<1> QED
  BY <1>1, <1>3, <1>4, <1>5

(* A page that is being read is used nowhere else.                           *)
LEMMA LoadingUnused ==
  ASSUME Types, MemMapCounts, NEW t \in Tasks, loading[t] # NONE, mem_map[loading[t]] = 1
  PROVE  /\ loading[t] \in Pages
         /\ \A u \in Tasks, b \in Addresses : pte[u][b] # loading[t]
         /\ \A u \in Tasks, i \in Tables : dir[u][i] # loading[t]
         /\ \A u \in Tasks : struct[u] # loading[t] /\ (loading[u] = loading[t] => u = t)
<1> DEFINE f == loading[t]
<1>0. f \in Pages
  BY DEF Types
<1>1. PteUses(f) + DirUses(f) + StructUses(f) + LoadUses(f) = 1
  BY <1>0, CountsAreUses
<1>2. /\ PteUses(f) \in Nat /\ DirUses(f) \in Nat /\ StructUses(f) \in Nat /\ LoadUses(f) \in Nat
      /\ LoadUses(f) >= 1
      /\ \A u \in Tasks, b \in Addresses : pte[u][b] = f => PteUses(f) >= 1
      /\ \A u \in Tasks, i \in Tables : dir[u][i] = f => DirUses(f) >= 1
      /\ \A u \in Tasks : struct[u] = f => StructUses(f) >= 1
      /\ \A u \in Tasks : loading[u] = f /\ u # t => LoadUses(f) >= 2
  BY Uses
<1> HIDE DEF f
<1>3. PteUses(f) = 0 /\ DirUses(f) = 0 /\ StructUses(f) = 0 /\ LoadUses(f) = 1
  <2>1. \A w, x, y, z \in Nat : w + x + y + z = 1 /\ z >= 1 => w = 0 /\ x = 0 /\ y = 0 /\ z = 1
    OBVIOUS
  <2> QED
    BY <1>1, <1>2, <2>1
<1>4. ~(0 >= 1) /\ ~(1 >= 2)
  OBVIOUS
<1>5. /\ \A u \in Tasks, b \in Addresses : pte[u][b] # f
      /\ \A u \in Tasks, i \in Tables : dir[u][i] # f
      /\ \A u \in Tasks : struct[u] # f /\ (loading[u] = f => u = t)
  BY <1>2, <1>3, <1>4, Zenon
<1> QED
  BY <1>0, <1>5 DEF f

-----------------------------------------------------------------------------
(* A step sets an entry, or all entries, of task t.                          *)
PteTo(t, a, g) == pte' = [pte EXCEPT ![t][a] = g]
DirTo(t, i, g) == dir' = [dir EXCEPT ![t][i] = g]
PteRowTo(t, r) == pte' = [pte EXCEPT ![t] = r] /\ r \in [Addresses -> Pages \cup {LOW, NONE}]
DirRowTo(t, r) == dir' = [dir EXCEPT ![t] = r] /\ r \in [Tables -> Pages \cup {NONE}]
StructTo(t, g) == struct' = [struct EXCEPT ![t] = g]
LoadingTo(t, g) == loading' = [loading EXCEPT ![t] = g]

(* How the uses of a page change with an entry of a page table, ...          *)
LEMMA PteEntry ==
  ASSUME Types, NEW t \in Tasks, NEW a \in Addresses, NEW g, PteTo(t, a, g), NEW f
  PROVE  PteUses(f)' = PteUses(f) - Is(pte[t][a], f) + Is(g, f)
<1> DEFINE V == Pages \cup {LOW, NONE}
<1>1. pte \in [Tasks -> [Addresses -> V]]
  BY DEF Types
<1>2. IsFiniteSet(Tasks) /\ IsFiniteSet(Addresses)
  BY Domains
<1> DEFINE N == [pte EXCEPT ![t][a] = g]
<1>4. N = [pte EXCEPT ![t][a] = g] /\ pte' = N
  BY DEF PteTo
<1> HIDE DEF N, V
<1>6. EntrySet(pte, N, Tasks, Addresses, V, t, a, g)
  BY <1>1, <1>2, <1>4 DEF EntrySet
<1>3. Cardinality(Places(N, Tasks, Addresses, f)) =
        Cardinality(Places(pte, Tasks, Addresses, f)) - Is(pte[t][a], f)
                                            + Is(g, f)
  BY <1>6, PlacesEntry
<1> QED
  BY <1>3, <1>4 DEF PteUses

(* ... with an entry of a page directory, ...                                *)
LEMMA DirEntry ==
  ASSUME Types, NEW t \in Tasks, NEW i \in Tables, NEW g, DirTo(t, i, g), NEW f
  PROVE  DirUses(f)' = DirUses(f) - Is(dir[t][i], f) + Is(g, f)
<1> DEFINE V == Pages \cup {NONE}
<1>1. dir \in [Tasks -> [Tables -> V]]
  BY DEF Types
<1>2. IsFiniteSet(Tasks) /\ IsFiniteSet(Tables)
  BY Domains
<1> DEFINE N == [dir EXCEPT ![t][i] = g]
<1>4. N = [dir EXCEPT ![t][i] = g] /\ dir' = N
  BY DEF DirTo
<1> HIDE DEF N, V
<1>6. EntrySet(dir, N, Tasks, Tables, V, t, i, g)
  BY <1>1, <1>2, <1>4 DEF EntrySet
<1>3. Cardinality(Places(N, Tasks, Tables, f)) =
        Cardinality(Places(dir, Tasks, Tables, f)) - Is(dir[t][i], f)
                                            + Is(g, f)
  BY <1>6, PlacesEntry
<1> QED
  BY <1>3, <1>4 DEF DirUses

(* ... with all of the entries of a task, ...                                *)
LEMMA PteRow ==
  ASSUME Types, NEW t \in Tasks, NEW r, PteRowTo(t, r), NEW f
  PROVE  /\ Cardinality(InRow(pte[t], Addresses, f)) \in 0..PteUses(f)
         /\ Cardinality(InRow(r, Addresses, f)) \in Nat
         /\ PteUses(f)' = PteUses(f) - Cardinality(InRow(pte[t], Addresses, f))
                                     + Cardinality(InRow(r, Addresses, f))
<1> DEFINE V == Pages \cup {LOW, NONE}
<1>1. pte \in [Tasks -> [Addresses -> V]]
  BY DEF Types
<1>2. IsFiniteSet(Tasks) /\ IsFiniteSet(Addresses)
  BY Domains
<1> DEFINE N == [pte EXCEPT ![t] = r]
<1>4. N = [pte EXCEPT ![t] = r] /\ pte' = N
  BY DEF PteRowTo
<1>5. r \in [Addresses -> V]
  BY DEF PteRowTo
<1> HIDE DEF N, V
<1>6. RowSet(pte, N, Tasks, Addresses, V, t, r)
  BY <1>1, <1>2, <1>4, <1>5 DEF RowSet
<1>3. /\ Cardinality(InRow(pte[t], Addresses, f)) \in 0..Cardinality(Places(pte, Tasks, Addresses, f))
      /\ Cardinality(InRow(r, Addresses, f)) \in Nat
      /\ Cardinality(Places(N, Tasks, Addresses, f)) =
           Cardinality(Places(pte, Tasks, Addresses, f)) - Cardinality(InRow(pte[t], Addresses, f))
                                               + Cardinality(InRow(r, Addresses, f))
  BY <1>6, PlacesRow
<1> QED
  BY <1>3, <1>4 DEF PteUses, InRow

(* ... with its page directory, ...                                          *)
LEMMA DirRow ==
  ASSUME Types, NEW t \in Tasks, NEW r, DirRowTo(t, r), NEW f
  PROVE  /\ Cardinality(InRow(dir[t], Tables, f)) \in 0..DirUses(f)
         /\ Cardinality(InRow(r, Tables, f)) \in Nat
         /\ DirUses(f)' = DirUses(f) - Cardinality(InRow(dir[t], Tables, f))
                                     + Cardinality(InRow(r, Tables, f))
<1> DEFINE V == Pages \cup {NONE}
<1>1. dir \in [Tasks -> [Tables -> V]]
  BY DEF Types
<1>2. IsFiniteSet(Tasks) /\ IsFiniteSet(Tables)
  BY Domains
<1> DEFINE N == [dir EXCEPT ![t] = r]
<1>4. N = [dir EXCEPT ![t] = r] /\ dir' = N
  BY DEF DirRowTo
<1>5. r \in [Tables -> V]
  BY DEF DirRowTo
<1> HIDE DEF N, V
<1>6. RowSet(dir, N, Tasks, Tables, V, t, r)
  BY <1>1, <1>2, <1>4, <1>5 DEF RowSet
<1>3. /\ Cardinality(InRow(dir[t], Tables, f)) \in 0..Cardinality(Places(dir, Tasks, Tables, f))
      /\ Cardinality(InRow(r, Tables, f)) \in Nat
      /\ Cardinality(Places(N, Tasks, Tables, f)) =
           Cardinality(Places(dir, Tasks, Tables, f)) - Cardinality(InRow(dir[t], Tables, f))
                                               + Cardinality(InRow(r, Tables, f))
  BY <1>6, PlacesRow
<1> QED
  BY <1>3, <1>4 DEF DirUses, InRow

(* ... with its task_struct ...                                              *)
LEMMA StructEntry ==
  ASSUME Types, NEW t \in Tasks, NEW g, StructTo(t, g), NEW f
  PROVE  StructUses(f)' = StructUses(f) - Is(struct[t], f) + Is(g, f)
<1> DEFINE V == Pages \cup {NONE}
<1>1. struct \in [Tasks -> V]
  BY DEF Types
<1>2. IsFiniteSet(Tasks)
  BY Domains
<1> DEFINE N == [struct EXCEPT ![t] = g]
<1>4. N = [struct EXCEPT ![t] = g] /\ struct' = N
  BY DEF StructTo
<1> HIDE DEF N, V
<1>3. Cardinality({v \in Tasks : N[v] = f}) =
        Cardinality({v \in Tasks : struct[v] = f}) - Is(struct[t], f) + Is(g, f)
  BY <1>1, <1>2, <1>4, CountEntry
<1> QED
  BY <1>3, <1>4 DEF StructUses

(* ... and with the page that do_no_page reads for it.                       *)
LEMMA LoadEntry ==
  ASSUME Types, NEW t \in Tasks, NEW g, LoadingTo(t, g), NEW f
  PROVE  LoadUses(f)' = LoadUses(f) - Is(loading[t], f) + Is(g, f)
<1> DEFINE V == Pages \cup {NONE}
<1>1. loading \in [Tasks -> V]
  BY DEF Types
<1>2. IsFiniteSet(Tasks)
  BY Domains
<1> DEFINE N == [loading EXCEPT ![t] = g]
<1>4. N = [loading EXCEPT ![t] = g] /\ loading' = N
  BY DEF LoadingTo
<1> HIDE DEF N, V
<1>3. Cardinality({v \in Tasks : N[v] = f}) =
        Cardinality({v \in Tasks : loading[v] = f}) - Is(loading[t], f) + Is(g, f)
  BY <1>1, <1>2, <1>4, CountEntry
<1> QED
  BY <1>3, <1>4 DEF LoadUses

(* What is not changed is used as often as before.                           *)
LEMMA SameUses ==
  ASSUME NEW f
  PROVE  /\ pte' = pte => PteUses(f)' = PteUses(f)
         /\ dir' = dir => DirUses(f)' = DirUses(f)
         /\ struct' = struct => StructUses(f)' = StructUses(f)
         /\ loading' = loading => LoadUses(f)' = LoadUses(f)
  BY DEF PteUses, DirUses, StructUses, LoadUses

(* The counts are right after a step if they are the numbers of uses then.   *)
LEMMA CountsNext ==
  ASSUME \A f \in Pages : mem_map'[f] = PteUses(f)' + DirUses(f)' + StructUses(f)' + LoadUses(f)'
  PROVE  MemMapCounts'
  BY DEF MemMapCounts, PteUses, DirUses, StructUses, LoadUses, Places

(* A page that is mapped is not free.                                        *)
Counted == \A t \in Tasks, a \in Addresses : pte[t][a] \in Pages => mem_map[pte[t][a]] >= 1

(* So it is, with the counts right.                                          *)
LEMMA MappedCounted ==
  Types /\ MemMapCounts => Counted
  BY AloneUnused DEF Counted

-----------------------------------------------------------------------------
(* What a step keeps when it gives the page g to address a of the live task t  *)
(* in place of what was there, with the R/W bit w, in the table k, which was   *)
(* there already or is a free page: un_wp_page, get_empty_page, try_to_share   *)
(* and the end of do_no_page.                                                *)
Placing(t, a, g, w, k) ==
  /\ status[t] = "live" /\ g \in Pages /\ w \in BOOLEAN /\ k \in Pages
  /\ pte' = [pte EXCEPT ![t][a] = g]
  /\ pte_w' = [pte_w EXCEPT ![t][a] = w]
  /\ dir' = [dir EXCEPT ![t][Table(a)] = k]
  /\ dir[t][Table(a)] = k \/ (dir[t][Table(a)] = NONE /\ k \in Free)
  /\ dir_w' \in [Tasks -> [Tables -> BOOLEAN]]
  /\ loading' = [loading EXCEPT ![t] = NONE]
  /\ wanted' \in [Tasks -> Addresses \cup {NONE}]
  /\ storing' \in [Tasks -> Addresses \cup {NONE}]
  /\ \A u \in Tasks \ {t} : wanted'[u] = wanted[u] /\ storing'[u] = storing[u]
  /\ storing'[t] \in {storing[t], a, NONE}
  /\ status' = status /\ struct' = struct /\ executable' = executable /\ view' = view

(* The page g may go there: it is not a page of anyone else's, except that     *)
(* share_page may map a page table, write-protected, for the executable.     *)
Mappable(t, a, g, w, k) ==
  /\ w \/ a < DATA_PAGES
  /\ w => mem_map'[g] = 1
  /\ \A u \in Tasks, b \in Addresses :
       (pte_w[u][b] \/ b >= DATA_PAGES \/ a >= DATA_PAGES) => pte[u][b] # g
  /\ \A u \in Tasks \ {t} : loading[u] # g
  /\ a >= DATA_PAGES => k # g /\ \A u \in Tasks, i \in Tables : dir[u][i] # g

(* The counts and the contents change as they must.                          *)
Placed(t, a, g, k) ==
  /\ mem_map' \in [Pages -> Nat]
  /\ \A h \in Pages : mem_map'[h] = mem_map[h] - Is(pte[t][a], h) + Is(g, h)
                        - Is(dir[t][Table(a)], h) + Is(k, h) - Is(loading[t], h)
  /\ data' \in [Pages \cup {LOW} -> Contents]
  /\ \A h \in Pages \cup {LOW} : h # g /\ (h \in Free => h # k) => data'[h] = data[h]
  /\ a >= DATA_PAGES => data'[g] = view[t][a]

(* The types and the counts, then.                                           *)
LEMMA PlacedTypes ==
  ASSUME MInv, NEW t \in Tasks, NEW a \in Addresses, NEW g, NEW w, NEW k,
         Placing(t, a, g, w, k), Placed(t, a, g, k)
  PROVE  Types' /\ MemMapCounts'
<1>1. Types'
  <2>1. Table(a) \in Tables
    BY Domains
  <2>2. /\ pte' \in [Tasks -> [Addresses -> Pages \cup {LOW, NONE}]]
        /\ pte_w' \in [Tasks -> [Addresses -> BOOLEAN]]
    BY DEF MInv, Types, Placing
  <2>3. dir' \in [Tasks -> [Tables -> Pages \cup {NONE}]]
    BY <2>1 DEF MInv, Types, Placing
  <2>4. loading' \in [Tasks -> Pages \cup {NONE}]
    BY DEF MInv, Types, Placing
  <2>5. /\ status' \in [Tasks -> {"free", "live", "zombie"}]
        /\ struct' \in [Tasks -> Pages \cup {NONE}]
        /\ executable' \in [Tasks -> Executables \cup {NULL}]
        /\ view' \in [Tasks -> [Addresses -> Contents]]
    BY DEF MInv, Types, Placing
  <2> QED
    BY <2>2, <2>3, <2>4, <2>5 DEF Types, Placing, Placed
<1>3. PteTo(t, a, g) /\ DirTo(t, Table(a), k) /\ LoadingTo(t, NONE) /\ Types /\ Table(a) \in Tables
  BY Domains DEF Placing, PteTo, DirTo, LoadingTo, MInv
<1>2. ASSUME NEW h \in Pages PROVE mem_map'[h] = PteUses(h)' + DirUses(h)' + StructUses(h)' + LoadUses(h)'
  <2>1. PteUses(h)' = PteUses(h) - Is(pte[t][a], h) + Is(g, h)
    BY <1>3, PteEntry
  <2>2. DirUses(h)' = DirUses(h) - Is(dir[t][Table(a)], h) + Is(k, h)
    BY <1>3, DirEntry
  <2>3. LoadUses(h)' = LoadUses(h) - Is(loading[t], h) + Is(NONE, h)
    BY <1>3, LoadEntry
  <2>4. StructUses(h)' = StructUses(h)
    BY SameUses DEF Placing
  <2>5. Is(NONE, h) = 0
    BY Domains DEF Is
  <2>6. mem_map[h] = PteUses(h) + DirUses(h) + StructUses(h) + LoadUses(h)
    BY CountsAreUses DEF MInv
  <2>7. PteUses(h) \in Nat /\ DirUses(h) \in Nat /\ StructUses(h) \in Nat /\ LoadUses(h) \in Nat
    BY Uses DEF MInv
  <2>8. mem_map'[h] = mem_map[h] - Is(pte[t][a], h) + Is(g, h)
                        - Is(dir[t][Table(a)], h) + Is(k, h) - Is(loading[t], h)
    BY DEF Placed
  <2>9. \A x, y : Is(x, y) \in Int
    BY DEF Is
  <2> QED
    BY <2>1, <2>2, <2>3, <2>4, <2>5, <2>6, <2>7, <2>8, <2>9
<1> QED
  BY <1>1, <1>2, CountsNext

(* The rest of the invariant.                                                *)
LEMMA PlacedKeeps ==
  ASSUME MInv, NEW t \in Tasks, NEW a \in Addresses, NEW g, NEW w, NEW k,
         Placing(t, a, g, w, k), Mappable(t, a, g, w, k), Placed(t, a, g, k)
  PROVE  MInv'
<1> USE DEF MInv, Shape
<1>1. /\ \A u \in Tasks, b \in Addresses : pte'[u][b] = IF u = t /\ b = a THEN g ELSE pte[u][b]
      /\ \A u \in Tasks, b \in Addresses : pte_w'[u][b] = IF u = t /\ b = a THEN w ELSE pte_w[u][b]
      /\ \A u \in Tasks : loading'[u] = IF u = t THEN NONE ELSE loading[u]
  BY DEF Placing, Types
<1>2. \A u \in Tasks, i \in Tables : dir'[u][i] = IF u = t /\ i = Table(a) THEN k ELSE dir[u][i]
  BY DEF Placing, Types
<1>3. k \in Free => /\ \A u \in Tasks, b \in Addresses : pte[u][b] # k
                    /\ \A u \in Tasks : loading[u] # k
  BY FreeUnused
<1>4. ASSUME NEW h \in Pages, h # g, h # pte[t][a], h # loading[t], h \in Free => h # k
      PROVE  mem_map'[h] = mem_map[h]
  <2>1. mem_map'[h] = mem_map[h] - Is(pte[t][a], h) + Is(g, h)
                        - Is(dir[t][Table(a)], h) + Is(k, h) - Is(loading[t], h)
    BY DEF Placed
  <2>2. Is(pte[t][a], h) = 0 /\ Is(g, h) = 0 /\ Is(loading[t], h) = 0
    BY <1>4 DEF Is
  <2>3. Is(dir[t][Table(a)], h) = Is(k, h)
    BY <1>4, Domains DEF Is, Placing
  <2>4. mem_map[h] \in Int /\ Is(k, h) \in Int
    BY DEF Types, Is
  <2> QED
    BY <2>1, <2>2, <2>3, <2>4
<1>5. Dead'
  <2>1. ASSUME NEW u \in Tasks, status[u] # "live", NEW i \in Tables PROVE dir'[u][i] = NONE
    BY <1>2, <2>1 DEF Dead, Placing
  <2>2. ASSUME NEW u \in Tasks, status[u] # "live", NEW b \in Addresses PROVE pte'[u][b] = NONE
    BY <1>1, <2>2 DEF Dead, Placing
  <2>3. ASSUME NEW u \in Tasks, status[u] # "live" PROVE loading'[u] = NONE /\ storing'[u] = NONE
    BY <1>1, <2>3 DEF Dead, Placing
  <2>4. status' = status /\ struct' = struct
    BY DEF Placing
  <2> QED
    BY <2>1, <2>2, <2>3, <2>4 DEF Dead
<1>6. Tabled'
  BY <1>1, <1>2, Domains DEF Tabled, Placing
<1>7. Private'
  <2> SUFFICES ASSUME NEW u \in Tasks, NEW b \in Addresses, pte_w'[u][b]
               PROVE  pte'[u][b] \in Pages /\ mem_map'[pte'[u][b]] = 1
    BY DEF Private
  <2>1. CASE u = t /\ b = a
    BY <1>1, <2>1 DEF Placing, Mappable
  <2>2. CASE ~(u = t /\ b = a)
    <3> DEFINE h == pte[u][b]
    <3>1. pte'[u][b] = h /\ pte_w[u][b]
      BY <1>1, <2>2
    <3>2. h \in Pages /\ mem_map[h] = 1
      BY <3>1 DEF Private
    <3>3. h # pte[t][a] /\ h # loading[t]
      BY <2>2, <3>2, AloneUnused
    <3>4. h # g /\ (h \in Free => h # k)
      BY <1>3, <3>1 DEF Mappable
    <3> HIDE DEF h
    <3>5. mem_map'[h] = mem_map[h]
      BY <1>4, <3>2, <3>3, <3>4
    <3> QED
      BY <3>1, <3>2, <3>5
  <2> QED
    BY <2>1, <2>2
<1>8. Loading'
  <2> SUFFICES ASSUME NEW u \in Tasks, loading'[u] # NONE
               PROVE  /\ wanted'[u] \in Addresses /\ wanted'[u] < DATA_PAGES /\ pte'[u][wanted'[u]] = NONE
                      /\ mem_map'[loading'[u]] = 1
    BY DEF Loading
  <2> DEFINE h == loading[u]
  <2>1. u # t /\ loading'[u] = h /\ h # NONE
    BY <1>1
  <2>2. /\ wanted'[u] = wanted[u] /\ wanted[u] \in Addresses /\ wanted[u] < DATA_PAGES
        /\ pte[u][wanted[u]] = NONE /\ mem_map[h] = 1
    BY <2>1 DEF Loading, Placing
  <2>3. /\ h \in Pages /\ h # pte[t][a] /\ h # loading[t]
    BY <2>1, <2>2, LoadingUnused
  <2>4. h # g /\ (h \in Free => h # k)
    BY <1>3, <2>1 DEF Mappable
  <2>5. pte'[u][wanted[u]] = NONE
    BY <1>1, <2>1, <2>2
  <2> HIDE DEF h
  <2>6. mem_map'[h] = mem_map[h]
    BY <1>4, <2>3, <2>4
  <2> QED
    BY <2>1, <2>2, <2>5, <2>6
<1>9. Storable'
  <2> SUFFICES ASSUME NEW u \in Tasks, storing'[u] # NONE
               PROVE  \/ pte'[u][storing'[u]] = NONE \/ pte_w'[u][storing'[u]]
                      \/ storing'[u] < DATA_PAGES /\ pte'[u][storing'[u]] \in Pages
    BY DEF Storable
  <2>1. storing'[u] \in Addresses
    BY DEF Placing
  <2>2. CASE u = t /\ storing'[u] = a
    BY <1>1, <2>2 DEF Placing, Mappable
  <2>3. CASE ~(u = t /\ storing'[u] = a)
    <3>1. storing'[u] = storing[u]
      BY <2>3 DEF Placing
    <3>2. pte'[u][storing[u]] = pte[u][storing[u]] /\ pte_w'[u][storing[u]] = pte_w[u][storing[u]]
      BY <1>1, <2>1, <2>3, <3>1
    <3> QED
      BY <3>1, <3>2 DEF Storable
  <2> QED
    BY <2>2, <2>3
<1>10. Separate'
  <2> SUFFICES ASSUME NEW u \in Tasks, NEW b \in Addresses, b >= DATA_PAGES, pte'[u][b] \in Pages
               PROVE  /\ \A v \in Tasks, c \in Addresses : pte'[v][c] = pte'[u][b] => c = b
                      /\ \A v \in Tasks, i \in Tables : dir'[v][i] # pte'[u][b]
                      /\ \A v \in Tasks : loading'[v] # pte'[u][b]
    BY DEF Separate
  <2>1. CASE u = t /\ b = a
    <3>1. pte'[u][b] = g /\ g \in Pages
      BY <1>1, <2>1
    <3>2. \A v \in Tasks, c \in Addresses : pte'[v][c] = g => c = b
      BY <1>1, <2>1 DEF Mappable
    <3>3. \A v \in Tasks, i \in Tables : dir'[v][i] # g
      BY <1>2, <2>1 DEF Mappable
    <3>4. \A v \in Tasks : loading'[v] # g
      BY <1>1, <3>1, Domains DEF Mappable
    <3> QED
      BY <3>1, <3>2, <3>3, <3>4
  <2>2. CASE ~(u = t /\ b = a)
    <3>1. pte'[u][b] = pte[u][b]
      BY <1>1, <2>2
    <3>2. /\ \A v \in Tasks, c \in Addresses : pte[v][c] = pte[u][b] => c = b
          /\ \A v \in Tasks, i \in Tables : dir[v][i] # pte[u][b]
          /\ \A v \in Tasks : loading[v] # pte[u][b]
      BY <3>1 DEF Separate
    <3>3. pte[u][b] # g
      BY DEF Mappable
    <3>4. \A v \in Tasks, c \in Addresses : pte'[v][c] = pte[u][b] => c = b
      BY <1>1, <3>2, <3>3
    <3>5. k # pte[u][b]
      BY <1>3, <3>2, Domains DEF Placing
    <3>6. \A v \in Tasks, i \in Tables : dir'[v][i] # pte[u][b]
      BY <1>2, <3>2, <3>5
    <3>7. \A v \in Tasks : loading'[v] # pte[u][b]
      BY <1>1, <3>1, <3>2, Domains
    <3> QED
      BY <3>1, <3>4, <3>6, <3>7
  <2> QED
    BY <2>1, <2>2
<1>11. Untouched'
  BY <1>1, Domains DEF Untouched, Placing
<1>12. Isolation'
  <2> SUFFICES ASSUME NEW u \in Tasks, NEW b \in Addresses, pte'[u][b] # NONE, b >= DATA_PAGES
               PROVE  data'[pte'[u][b]] = view'[u][b]
    BY DEF Isolation
  <2>1. view' = view
    BY DEF Placing
  <2>2. CASE u = t /\ b = a
    BY <1>1, <2>1, <2>2 DEF Placed
  <2>3. CASE ~(u = t /\ b = a)
    <3>1. pte'[u][b] = pte[u][b] /\ pte[u][b] \in Pages \cup {LOW}
      BY <1>1, <2>3 DEF Types
    <3>2. pte[u][b] # g /\ (pte[u][b] \in Free => pte[u][b] # k)
      BY <1>3 DEF Mappable
    <3>3. data'[pte[u][b]] = data[pte[u][b]]
      BY <3>1, <3>2 DEF Placed
    <3> QED
      BY <2>1, <3>1, <3>3 DEF Isolation
  <2> QED
    BY <2>2, <2>3
<1> QED
  BY <1>5, <1>6, <1>7, <1>8, <1>9, <1>10, <1>11, <1>12, PlacedTypes

-----------------------------------------------------------------------------
(* What a step keeps when it frees all of the memory of the live task t, the   *)
(* page that it was reading included: do_exit, oom and do_execve.  Then t is   *)
(* in state x, to find r in its memory and the kernel to store for it at s.  *)
Emptied(t, m, x, r, s) ==
  /\ status[t] = "live" /\ x \in {"live", "zombie"}
  /\ \A f \in Pages : m[f] = mem_map[f] - Is(loading[t], f)
  /\ FreeTables(t, m)
  /\ loading' = [loading EXCEPT ![t] = NONE]
  /\ storing' = [storing EXCEPT ![t] = s]
  /\ s \in Addresses \cup {NONE} /\ (s # NONE => x = "live")
  /\ wanted' \in [Tasks -> Addresses \cup {NONE}] /\ \A u \in Tasks \ {t} : wanted'[u] = wanted[u]
  /\ status' = [status EXCEPT ![t] = x]
  /\ struct' = struct
  /\ executable' \in [Tasks -> Executables \cup {NULL}]
  /\ view' = [view EXCEPT ![t] = r]
  /\ r \in [Addresses -> Contents] /\ \A a \in Addresses : a >= DATA_PAGES => r[a] = Zero

(* The page f is not one of task t's.                                        *)
Foreign(t, f) ==
  /\ \A a \in Addresses : pte[t][a] # f
  /\ \A i \in Tables : dir[t][i] # f
  /\ loading[t] # f

(* The counts stay right, for as many pages are freed as were there.         *)
LEMMA EmptiedCounts ==
  ASSUME MInv, NEW t \in Tasks, NEW m, NEW x, NEW r, NEW s, Emptied(t, m, x, r, s)
  PROVE  /\ mem_map' \in [Pages -> Nat] /\ MemMapCounts'
         /\ \A f \in Pages : Foreign(t, f) => mem_map'[f] = mem_map[f]
         /\ \A f \in Pages : mem_map'[f] <= mem_map[f]
<1> DEFINE p == [a \in Addresses |-> NONE]
           d == [i \in Tables |-> NONE]
<1>0. Types
  BY DEF MInv
<1>1. PteRowTo(t, p) /\ DirRowTo(t, d) /\ LoadingTo(t, NONE) /\ struct' = struct
  BY DEF Emptied, FreeTables, PteRowTo, DirRowTo, LoadingTo
<1>2. \A f \in Pages : InRow(p, Addresses, f) = {} /\ InRow(d, Tables, f) = {}
  BY Domains DEF InRow
<1>3. mem_map' = [f \in Pages |-> m[f] - Cardinality(InRow(pte[t], Addresses, f))
                                      - Cardinality(InRow(dir[t], Tables, f))]
  BY DEF Emptied, FreeTables, InRow
<1> HIDE DEF p, d
<1>4. ASSUME NEW f \in Pages
      PROVE  /\ mem_map'[f] = PteUses(f)' + DirUses(f)' + StructUses(f)' + LoadUses(f)'
             /\ mem_map'[f] \in Nat /\ mem_map'[f] <= mem_map[f]
             /\ mem_map'[f] = mem_map[f] - Is(loading[t], f) - Cardinality(InRow(pte[t], Addresses, f))
                                         - Cardinality(InRow(dir[t], Tables, f))
  <2>1. /\ PteUses(f)' = PteUses(f) - Cardinality(InRow(pte[t], Addresses, f))
                                     + Cardinality(InRow(p, Addresses, f))
        /\ Cardinality(InRow(pte[t], Addresses, f)) \in 0..PteUses(f)
    BY <1>0, <1>1, PteRow
  <2>2. /\ DirUses(f)' = DirUses(f) - Cardinality(InRow(dir[t], Tables, f))
                                     + Cardinality(InRow(d, Tables, f))
        /\ Cardinality(InRow(dir[t], Tables, f)) \in 0..DirUses(f)
    BY <1>0, <1>1, DirRow
  <2>3. Cardinality(InRow(p, Addresses, f)) = 0 /\ Cardinality(InRow(d, Tables, f)) = 0
    BY <1>2, FS_EmptySet
  <2>4. LoadUses(f)' = LoadUses(f) - Is(loading[t], f) + Is(NONE, f)
    BY <1>0, <1>1, LoadEntry
  <2>5. Is(NONE, f) = 0
    BY Domains DEF Is
  <2>6. StructUses(f)' = StructUses(f)
    BY <1>1, SameUses
  <2>7. mem_map[f] = PteUses(f) + DirUses(f) + StructUses(f) + LoadUses(f)
    BY CountsAreUses DEF MInv
  <2>8. PteUses(f) \in Nat /\ DirUses(f) \in Nat /\ StructUses(f) \in Nat /\ LoadUses(f) \in Nat
    BY <1>0, Uses
  <2>9. Is(loading[t], f) \in {0, 1} /\ (Is(loading[t], f) = 1 => LoadUses(f) >= 1)
    BY <1>0, Uses DEF Is
  <2>10. mem_map'[f] = m[f] - Cardinality(InRow(pte[t], Addresses, f))
                            - Cardinality(InRow(dir[t], Tables, f))
    BY <1>3
  <2>11. m[f] = mem_map[f] - Is(loading[t], f)
    BY DEF Emptied
  <2> QED
    BY <2>1, <2>2, <2>3, <2>4, <2>5, <2>6, <2>7, <2>8, <2>9, <2>10, <2>11
<1>5. MemMapCounts'
  BY <1>4, CountsNext
<1>6. mem_map' \in [Pages -> Nat]
  BY <1>3, <1>4
<1>7. ASSUME NEW f \in Pages, Foreign(t, f)
      PROVE  mem_map'[f] = mem_map[f]
  <2>1. InRow(pte[t], Addresses, f) = {} /\ InRow(dir[t], Tables, f) = {}
    BY <1>7 DEF InRow, Foreign
  <2>2. Cardinality(InRow(pte[t], Addresses, f)) = 0 /\ Cardinality(InRow(dir[t], Tables, f)) = 0
    BY <2>1, FS_EmptySet
  <2>3. Is(loading[t], f) = 0 /\ mem_map[f] \in Int
    BY <1>0, <1>7 DEF Is, Types, Foreign
  <2> QED
    BY <1>4, <2>2, <2>3
<1> QED
  BY <1>4, <1>5, <1>6, <1>7

(* The rest of the invariant.                                                *)
LEMMA EmptiedKeeps ==
  ASSUME MInv, NEW t \in Tasks, NEW m, NEW x, NEW r, NEW s, Emptied(t, m, x, r, s)
  PROVE  MInv'
<1> USE DEF MInv, Shape
<1>0. /\ mem_map' \in [Pages -> Nat] /\ MemMapCounts'
      /\ \A f \in Pages : Foreign(t, f) => mem_map'[f] = mem_map[f]
  BY EmptiedCounts
<1>1. /\ \A u \in Tasks, b \in Addresses : pte'[u][b] = IF u = t THEN NONE ELSE pte[u][b]
      /\ \A u \in Tasks, b \in Addresses : pte_w'[u][b] = IF u = t THEN FALSE ELSE pte_w[u][b]
      /\ \A u \in Tasks : loading'[u] = IF u = t THEN NONE ELSE loading[u]
      /\ \A u \in Tasks : storing'[u] = IF u = t THEN s ELSE storing[u]
      /\ \A u \in Tasks : status'[u] = IF u = t THEN x ELSE status[u]
      /\ \A u \in Tasks, b \in Addresses : view'[u][b] = IF u = t THEN r[b] ELSE view[u][b]
  BY DEF Emptied, FreeTables, Types
<1>2. \A u \in Tasks, i \in Tables : dir'[u][i] = IF u = t THEN NONE ELSE dir[u][i]
  BY DEF Emptied, FreeTables, Types
<1>3. Types'
  <2>1. data' \in [Pages \cup {LOW} -> Contents]
    BY DEF Emptied, FreeTables, Types, Contents
  <2>2. dir' \in [Tasks -> [Tables -> Pages \cup {NONE}]] /\ dir_w' \in [Tasks -> [Tables -> BOOLEAN]]
    BY DEF Emptied, FreeTables, Types
  <2>3. /\ pte' \in [Tasks -> [Addresses -> Pages \cup {LOW, NONE}]]
        /\ pte_w' \in [Tasks -> [Addresses -> BOOLEAN]]
    BY DEF Emptied, FreeTables, Types
  <2>4. /\ loading' \in [Tasks -> Pages \cup {NONE}] /\ storing' \in [Tasks -> Addresses \cup {NONE}]
        /\ status' \in [Tasks -> {"free", "live", "zombie"}] /\ view' \in [Tasks -> [Addresses -> Contents]]
        /\ struct' \in [Tasks -> Pages \cup {NONE}]
    BY DEF Emptied, Types
  <2> QED
    BY <1>0, <2>1, <2>2, <2>3, <2>4 DEF Types, Emptied
<1>4. Dead'
  <2>1. struct' = struct /\ struct[t] # NONE /\ x # "free"
    BY DEF Emptied, Dead
  <2>2. \A u \in Tasks : struct'[u] = NONE <=> status'[u] = "free"
    BY <1>1, <2>1 DEF Dead
  <2>3. ASSUME NEW u \in Tasks, status'[u] # "live"
        PROVE  /\ \A b \in Addresses : pte'[u][b] = NONE
               /\ \A i \in Tables : dir'[u][i] = NONE
               /\ loading'[u] = NONE /\ storing'[u] = NONE
    BY <1>1, <1>2, <2>3 DEF Dead, Emptied
  <2> QED
    BY <2>2, <2>3 DEF Dead
<1>5. Tabled'
  <2> SUFFICES ASSUME NEW u \in Tasks, NEW b \in Addresses, pte'[u][b] # NONE
               PROVE  dir'[u][Table(b)] # NONE
    BY DEF Tabled
  <2>1. u # t /\ pte[u][b] # NONE /\ Table(b) \in Tables
    BY <1>1, Domains
  <2> QED
    BY <1>2, <2>1 DEF Tabled
<1>6. Private'
  <2> SUFFICES ASSUME NEW u \in Tasks, NEW b \in Addresses, pte_w'[u][b]
               PROVE  pte'[u][b] \in Pages /\ mem_map'[pte'[u][b]] = 1
    BY DEF Private
  <2> DEFINE h == pte[u][b]
  <2>1. u # t /\ pte'[u][b] = h /\ pte_w[u][b]
    BY <1>1
  <2>2. h \in Pages /\ mem_map[h] = 1
    BY <2>1 DEF Private
  <2>3. Foreign(t, h)
    BY <2>1, <2>2, AloneUnused DEF Foreign
  <2> HIDE DEF h
  <2> QED
    BY <1>0, <2>1, <2>2, <2>3
<1>7. Loading'
  <2> SUFFICES ASSUME NEW u \in Tasks, loading'[u] # NONE
               PROVE  /\ wanted'[u] \in Addresses /\ wanted'[u] < DATA_PAGES /\ pte'[u][wanted'[u]] = NONE
                      /\ mem_map'[loading'[u]] = 1
    BY DEF Loading
  <2> DEFINE h == loading[u]
  <2>1. u # t /\ loading'[u] = h /\ h # NONE
    BY <1>1
  <2>2. /\ wanted'[u] = wanted[u] /\ wanted[u] \in Addresses /\ wanted[u] < DATA_PAGES
        /\ pte[u][wanted[u]] = NONE /\ mem_map[h] = 1
    BY <2>1 DEF Loading, Emptied
  <2>3. h \in Pages /\ Foreign(t, h)
    BY <2>1, <2>2, LoadingUnused DEF Foreign
  <2>4. pte'[u][wanted[u]] = NONE
    BY <1>1, <2>1, <2>2
  <2> HIDE DEF h
  <2>5. mem_map'[h] = mem_map[h]
    BY <1>0, <2>3
  <2> QED
    BY <2>1, <2>2, <2>4, <2>5
<1>8. Storable'
  <2> SUFFICES ASSUME NEW u \in Tasks, storing'[u] # NONE
               PROVE  \/ pte'[u][storing'[u]] = NONE \/ pte_w'[u][storing'[u]]
                      \/ storing'[u] < DATA_PAGES /\ pte'[u][storing'[u]] \in Pages
    BY DEF Storable
  <2>1. CASE u # t
    <3>1. storing'[u] = storing[u] /\ storing[u] \in Addresses
      BY <1>1, <2>1 DEF Types
    <3>2. pte'[u][storing[u]] = pte[u][storing[u]] /\ pte_w'[u][storing[u]] = pte_w[u][storing[u]]
      BY <1>1, <2>1, <3>1
    <3> QED
      BY <3>1, <3>2 DEF Storable
  <2>2. CASE u = t
    <3>1. storing'[u] = s /\ s \in Addresses
      BY <1>1, <2>2 DEF Emptied
    <3> QED
      BY <1>1, <2>2, <3>1
  <2> QED
    BY <2>1, <2>2
<1>9. Separate'
  BY <1>1, <1>2, Domains DEF Separate
<1>10. Untouched'
  <2> SUFFICES ASSUME NEW u \in Tasks, NEW b \in Addresses, b >= DATA_PAGES, pte'[u][b] = NONE
               PROVE  view'[u][b] = Zero
    BY DEF Untouched
  <2>1. CASE u = t
    BY <1>1, <2>1 DEF Emptied
  <2>2. CASE u # t
    BY <1>1, <2>2 DEF Untouched
  <2> QED
    BY <2>1, <2>2
<1>11. Isolation'
  <2> SUFFICES ASSUME NEW u \in Tasks, NEW b \in Addresses, pte'[u][b] # NONE, b >= DATA_PAGES
               PROVE  data'[pte'[u][b]] = view'[u][b]
    BY DEF Isolation
  <2> DEFINE h == pte[u][b]
  <2>1. u # t /\ pte'[u][b] = h /\ h \in Pages \cup {LOW} /\ view'[u][b] = view[u][b] /\ h # NONE
    BY <1>1 DEF Types
  <2>2. h # LOW => mem_map'[h] >= 1
    <3>1. \A v \in Tasks, c \in Addresses : pte'[v][c] \in Pages => mem_map'[pte'[v][c]] >= 1
      <4>1. Types' /\ MemMapCounts' => Counted'
        BY MappedCounted, PTL
      <4> QED
        BY <1>0, <1>3, <4>1 DEF Counted
    <3> QED
      BY <2>1, <3>1
  <2>3. h # LOW => \A i \in Tables : dir[t][i] # h
    BY <2>1 DEF Separate
  <2>4. data' = [f \in Pages \cup {LOW} |->
                   IF f # LOW /\ (mem_map'[f] = 0 \/ \E i \in Tables : dir[t][i] = f)
                   THEN Zero ELSE data[f]]
    BY DEF Emptied, FreeTables
  <2>5. data[h] = view[u][b]
    BY <2>1 DEF Isolation
  <2> HIDE DEF h
  <2>6. data'[h] = data[h]
    BY <2>1, <2>2, <2>3, <2>4
  <2> QED
    BY <2>1, <2>5, <2>6
<1> QED
  BY <1>0, <1>3, <1>4, <1>5, <1>6, <1>7, <1>8, <1>9, <1>10, <1>11

(* oom and do_exit of a task that reads no page, ...                         *)
LEMMA DieKeeps ==
  ASSUME MInv, NEW t \in Tasks, status[t] = "live", loading[t] = NONE, Die(t, mem_map)
  PROVE  MInv' /\ \A f \in Pages : mem_map'[f] <= mem_map[f]
<1> DEFINE r == [a \in Addresses |-> Zero]
<1>1. Emptied(t, mem_map, "zombie", r, NONE)
  <2>1. \A f \in Pages : mem_map[f] = mem_map[f] - Is(loading[t], f)
    BY Domains DEF Is, MInv, Types
  <2>2. r \in [Addresses -> Contents] /\ \A a \in Addresses : a >= DATA_PAGES => r[a] = Zero
    BY DEF Contents
  <2>3. wanted' \in [Tasks -> Addresses \cup {NONE}] /\ \A u \in Tasks \ {t} : wanted'[u] = wanted[u]
    BY DEF Die, MInv, Types
  <2>4. executable' \in [Tasks -> Executables \cup {NULL}]
    BY DEF Die, MInv, Types
  <2> QED
    BY <2>1, <2>2, <2>3, <2>4 DEF Emptied, Die
<1> QED
  BY <1>1, EmptiedKeeps, EmptiedCounts

(* ... of one that gives back the page it has read, ...                      *)
LEMMA DieLoadedKeeps ==
  ASSUME MInv, NEW t \in Tasks, loading[t] # NONE, Die(t, free_page(mem_map, loading[t]))
  PROVE  MInv' /\ \A f \in Pages : mem_map'[f] <= mem_map[f]
<1> DEFINE r == [a \in Addresses |-> Zero]
           m == free_page(mem_map, loading[t])
<1>1. Emptied(t, m, "zombie", r, NONE)
  <2>1. \A f \in Pages : m[f] = mem_map[f] - Is(loading[t], f)
    BY DEF free_page, Is, MInv, Types
  <2>2. r \in [Addresses -> Contents] /\ \A a \in Addresses : a >= DATA_PAGES => r[a] = Zero
    BY DEF Contents
  <2>3. wanted' \in [Tasks -> Addresses \cup {NONE}] /\ \A u \in Tasks \ {t} : wanted'[u] = wanted[u]
    BY DEF Die, MInv, Types
  <2>4. executable' \in [Tasks -> Executables \cup {NULL}]
    BY DEF Die, MInv, Types
  <2>5. status[t] = "live"
    BY DEF MInv, Shape, Dead
  <2> HIDE DEF m
  <2>6. FreeTables(t, m)
    BY DEF Die, m
  <2> QED
    BY <2>1, <2>2, <2>3, <2>4, <2>5, <2>6 DEF Emptied, Die
<1> QED
  BY <1>1, EmptiedKeeps, EmptiedCounts

(* ... and the end of do_execve.                                             *)
LEMMA ExecTablesKeeps ==
  ASSUME MInv, Executing, NEW t \in Tasks, ExecTables(t)
  PROVE  MInv' /\ \A f \in Pages : mem_map'[f] <= mem_map[f]
<1> DEFINE e == executable[t]
           r == [a \in Addresses |-> Fresh(e, a)]
<1>0. status[t] = "live" /\ loading[t] = NONE
  BY DEF ExecTables, Executing
<1>1. PICK s \in {NONE, DATA_PAGES - 1} : storing' = [storing EXCEPT ![t] = s]
  BY DEF ExecTables
<1>2. Emptied(t, mem_map, "live", r, s)
  <2>1. \A f \in Pages : mem_map[f] = mem_map[f] - Is(loading[t], f)
    BY <1>0, Domains DEF Is, MInv, Types
  <2>2. r \in [Addresses -> Contents] /\ \A a \in Addresses : a >= DATA_PAGES => r[a] = Zero
    BY Domains DEF Fresh, Contents
  <2>3. wanted' \in [Tasks -> Addresses \cup {NONE}] /\ \A u \in Tasks \ {t} : wanted'[u] = wanted[u]
    BY DEF ExecTables, MInv, Types
  <2>4. executable' \in [Tasks -> Executables \cup {NULL}]
    BY DEF ExecTables, MInv, Types
  <2>5. loading' = [loading EXCEPT ![t] = NONE] /\ status' = [status EXCEPT ![t] = "live"]
    BY <1>0 DEF ExecTables, MInv, Types
  <2>6. s \in Addresses \cup {NONE}
    BY MemoryAssumption DEF Addresses, NONE
  <2>7. FreeTables(t, mem_map) /\ struct' = struct /\ view' = [view EXCEPT ![t] = r]
    BY DEF ExecTables
  <2> QED
    BY <1>0, <1>1, <2>1, <2>2, <2>3, <2>4, <2>5, <2>6, <2>7 DEF Emptied
<1> QED
  BY <1>2, EmptiedKeeps, EmptiedCounts

(* Its beginning changes only which executable the task is of.               *)
LEMMA ExecveKeeps ==
  ASSUME MInv, NEW t \in Tasks, NEW e \in Executables, do_execve(t, e)
  PROVE  MInv'
<1>1. mem_map' = mem_map /\ data' = data /\ status' = status /\ struct' = struct
      /\ dir' = dir /\ dir_w' = dir_w /\ pte' = pte /\ pte_w' = pte_w /\ loading' = loading
      /\ wanted' = wanted /\ storing' = storing /\ view' = view
  BY DEF do_execve
<1>2. executable' \in [Tasks -> Executables \cup {NULL}]
  BY DEF do_execve, MInv, Types
<1>3. Types'
  BY <1>1, <1>2 DEF MInv, Types
<1>4. MemMapCounts'
  BY <1>1 DEF MInv, MemMapCounts
<1> QED
  BY <1>1, <1>3, <1>4 DEF MInv, Shape, Dead, Tabled, Private, Loading, Storable, Separate, Untouched, Isolation

-----------------------------------------------------------------------------
(* A free page is nobody's, and may be given to anyone.                      *)
LEMMA FreeMappable ==
  ASSUME MInv, NEW g \in Free
  PROVE  /\ g \in Pages /\ mem_map[g] = 0 /\ g # LOW /\ g # NONE
         /\ \A u \in Tasks, b \in Addresses : pte[u][b] # g
         /\ \A u \in Tasks, i \in Tables : dir[u][i] # g
         /\ \A u \in Tasks : loading[u] # g
  BY FreeUnused, Domains DEF MInv

(* un_wp_page, for do_wp_page and for write_verify.                          *)
LEMMA UnWpKeeps ==
  ASSUME MInv, NEW t \in Tasks, NEW a \in Addresses, NEW s \in {NONE, a},
         status[t] = "live", loading[t] = NONE, pte[t][a] # NONE, un_wp_page(t, a, s)
  PROVE  MInv'
<1> DEFINE old == pte[t][a]
           new == Nth(1)
           k == dir[t][Table(a)]
<1>1. k \in Pages /\ Table(a) \in Tables
  <2>1. Table(a) \in Tables
    BY Domains
  <2>2. k # NONE
    BY DEF MInv, Shape, Tabled
  <2> QED
    BY <2>1, <2>2 DEF MInv, Types
<1>2. CASE /\ Alone(old)
           /\ pte_w' = [pte_w EXCEPT ![t][a] = TRUE]
           /\ storing' = [storing EXCEPT ![t] = s]
           /\ UNCHANGED <<mem_map, data, status, struct, executable, dir, dir_w, pte,
                          loading, wanted, view>>
  <2>1. old \in Pages /\ mem_map[old] = 1
    BY <1>2 DEF Alone, MInv, Types
  <2>2. Types' /\ MemMapCounts' /\ Dead' /\ Tabled' /\ Loading' /\ Separate' /\ Untouched' /\ Isolation'
    <3>1. mem_map' = mem_map /\ data' = data /\ status' = status /\ struct' = struct /\ view' = view
      BY <1>2
    <3>2. pte' = pte /\ dir' = dir /\ dir_w' = dir_w /\ loading' = loading /\ wanted' = wanted
          /\ executable' = executable
      BY <1>2
    <3>3. pte_w' \in [Tasks -> [Addresses -> BOOLEAN]] /\ storing' \in [Tasks -> Addresses \cup {NONE}]
      BY <1>2 DEF MInv, Types
    <3>4. \A u \in Tasks : u # t => storing'[u] = storing[u]
      BY <1>2 DEF MInv, Types
    <3>5. Types'
      BY <3>1, <3>2, <3>3 DEF MInv, Types
    <3>7. MemMapCounts'
      BY <3>1, <3>2 DEF MInv, MemMapCounts
    <3>6. Dead'
      BY <3>1, <3>2, <3>4 DEF MInv, Shape, Dead
    <3> QED
      BY <3>1, <3>2, <3>5, <3>6, <3>7 DEF MInv, Shape, Tabled, Loading, Separate, Untouched, Isolation
  <2>3. Private'
    BY <1>2, <2>1 DEF MInv, Shape, Private, Types
  <2>4. Storable'
    <3>1. \A u \in Tasks : storing'[u] = IF u = t THEN s ELSE storing[u]
      BY <1>2 DEF MInv, Types
    <3>2. \A u \in Tasks, b \in Addresses : pte_w'[u][b] = IF u = t /\ b = a THEN TRUE ELSE pte_w[u][b]
      BY <1>2 DEF MInv, Types
    <3>3. pte' = pte /\ storing \in [Tasks -> Addresses \cup {NONE}]
      BY <1>2 DEF MInv, Types
    <3>4. ASSUME NEW u \in Tasks, storing'[u] # NONE, u # t
          PROVE  \/ pte'[u][storing'[u]] = NONE \/ pte_w'[u][storing'[u]]
                 \/ storing'[u] < DATA_PAGES /\ pte'[u][storing'[u]] \in Pages
      BY <3>1, <3>2, <3>3, <3>4 DEF MInv, Shape, Storable
    <3>5. storing'[t] # NONE => pte_w'[t][storing'[t]]
      BY <3>1, <3>2
    <3> QED
      BY <3>4, <3>5 DEF Storable
  <2> QED
    BY <2>2, <2>3, <2>4 DEF MInv, Shape
<1>3. CASE Free = {} /\ oom(t)
  BY <1>3, DieKeeps DEF oom
<1>4. CASE /\ ~Alone(old)
           /\ Free # {}
           /\ mem_map' = [f \in Pages |-> IF f = new THEN 1
                                          ELSE IF f = old THEN mem_map[f] - 1 ELSE mem_map[f]]
           /\ data' = [data EXCEPT ![new] = data[old]]
           /\ pte' = [pte EXCEPT ![t][a] = new]
           /\ pte_w' = [pte_w EXCEPT ![t][a] = TRUE]
           /\ storing' = [storing EXCEPT ![t] = s]
           /\ UNCHANGED <<status, struct, executable, dir, dir_w, loading, wanted, view>>
  <2>1. new \in Free
    BY <1>4, FreePages DEF MInv
  <2> HIDE DEF new
  <2>2. /\ new \in Pages /\ mem_map[new] = 0 /\ new # LOW /\ new # NONE
        /\ \A u \in Tasks, b \in Addresses : pte[u][b] # new
        /\ \A u \in Tasks, i \in Tables : dir[u][i] # new
        /\ \A u \in Tasks : loading[u] # new
    BY <2>1, FreeMappable
  <2>3. old \in Pages => mem_map[old] >= 1
    BY MappedCounted DEF MInv, Counted
  <2>4. Placing(t, a, new, TRUE, k)
    <3>1. dir' = [dir EXCEPT ![t][Table(a)] = k]
      BY <1>1, <1>4 DEF MInv, Types
    <3>2. loading' = [loading EXCEPT ![t] = NONE]
      BY <1>4 DEF MInv, Types
    <3>3. /\ storing' \in [Tasks -> Addresses \cup {NONE}] /\ storing'[t] \in {storing[t], a, NONE}
          /\ \A u \in Tasks \ {t} : wanted'[u] = wanted[u] /\ storing'[u] = storing[u]
      BY <1>4 DEF MInv, Types
    <3> QED
      BY <1>1, <1>4, <2>2, <3>1, <3>2, <3>3 DEF Placing, MInv, Types
  <2>5. Mappable(t, a, new, TRUE, k)
    BY <1>1, <1>4, <2>2 DEF Mappable
  <2>6. Placed(t, a, new, k)
    <3>1. mem_map' \in [Pages -> Nat]
      BY <1>4, <2>3 DEF MInv, Types
    <3>2. ASSUME NEW h \in Pages
          PROVE mem_map'[h] = mem_map[h] - Is(old, h) + Is(new, h)
                               - Is(k, h) + Is(k, h) - Is(loading[t], h)
      <4>1. mem_map[h] \in Nat /\ Is(k, h) \in Int /\ Is(loading[t], h) = 0
        BY Domains DEF MInv, Types, Is
      <4>2. mem_map'[h] = mem_map[h] - Is(old, h) + Is(new, h)
        BY <1>4, <2>2, <4>1 DEF Is
      <4> QED
        BY <4>1, <4>2 DEF Is
    <3>3. data' \in [Pages \cup {LOW} -> Contents] /\ data'[new] = data[old]
      BY <1>4, <2>2 DEF MInv, Types
    <3>4. \A h \in Pages \cup {LOW} : h # new => data'[h] = data[h]
      BY <1>4 DEF MInv, Types
    <3>5. a >= DATA_PAGES => data'[new] = view[t][a]
      BY <3>3 DEF MInv, Isolation
    <3> QED
      BY <3>1, <3>2, <3>3, <3>4, <3>5 DEF Placed
  <2> QED
    BY <2>4, <2>5, <2>6, PlacedKeeps
<1> QED
  BY <1>2, <1>3, <1>4 DEF un_wp_page

(* get_empty_page.                                                           *)
LEMMA EmptyPageKeeps ==
  ASSUME MInv, NEW t \in Tasks, NEW a \in Addresses, status[t] = "live", loading[t] = NONE,
         pte[t][a] = NONE, executable[t] = NULL \/ a >= DATA_PAGES, get_empty_page(t, a)
  PROVE  MInv'
<1> DEFINE need == IF HasTable(t, a) THEN 1 ELSE 2
           k == IF HasTable(t, a) THEN dir[t][Table(a)] ELSE Nth(2)
           g == Nth(1)
<1>1. CASE Cardinality(Free) < need /\ oom(t)
  BY <1>1, DieKeeps DEF oom
<1>2. CASE /\ Cardinality(Free) >= need
           /\ Map(t, a, Nth(1), TRUE, Nth(2))
           /\ dir_w' = [dir_w EXCEPT ![t][Table(a)] = IF HasTable(t, a) THEN @ ELSE TRUE]
           /\ LET new == {Nth(n) : n \in 1..need}
              IN /\ mem_map' = [f \in Pages |-> IF f \in new THEN 1 ELSE mem_map[f]]
                 /\ data' = [f \in Pages \cup {LOW} |->
                      IF f \notin new THEN data[f] ELSE IF f = Nth(1) THEN Zero ELSE PageTable]
           /\ UNCHANGED <<status, struct, executable, loading, wanted, storing, view>>
  <2>0. Table(a) \in Tables
    BY Domains
  <2>1. /\ g \in Free
        /\ ~HasTable(t, a) => Nth(2) \in Free /\ Nth(2) # g
    BY <1>2, FreePages DEF MInv
  <2>2. \A f : f \in {Nth(n) : n \in 1..need} <=> f = g \/ (~HasTable(t, a) /\ f = k)
    <3>1. CASE HasTable(t, a)
      <4>1. 1..need = {1}
        BY <3>1
      <4> QED
        BY <3>1, <4>1
    <3>2. CASE ~HasTable(t, a)
      <4>1. 1..need = {1, 2}
        BY <3>2
      <4> QED
        BY <3>2, <4>1
    <3> QED
      BY <3>1, <3>2
  <2>3. /\ k \in Pages
        /\ HasTable(t, a) => k = dir[t][Table(a)] /\ dir[t][Table(a)] # NONE
        /\ ~HasTable(t, a) => k \in Free /\ k # g /\ dir[t][Table(a)] = NONE
    BY <2>0, <2>1, FreePages DEF HasTable, MInv, Types
  <2>4. /\ g \in Pages /\ mem_map[g] = 0 /\ g # LOW /\ g # NONE
        /\ \A u \in Tasks, b \in Addresses : pte[u][b] # g
        /\ \A u \in Tasks, i \in Tables : dir[u][i] # g
        /\ \A u \in Tasks : loading[u] # g
    BY <2>1, FreeMappable
  <2>5. /\ mem_map' = [f \in Pages |-> IF f = g \/ (~HasTable(t, a) /\ f = k) THEN 1 ELSE mem_map[f]]
        /\ data' = [f \in Pages \cup {LOW} |->
             IF ~(f = g \/ (~HasTable(t, a) /\ f = k)) THEN data[f]
             ELSE IF f = g THEN Zero ELSE PageTable]
    BY <1>2, <2>2
  <2>6. /\ pte' = [pte EXCEPT ![t][a] = g]
        /\ pte_w' = [pte_w EXCEPT ![t][a] = TRUE]
        /\ dir' = [dir EXCEPT ![t][Table(a)] = k]
    BY <1>2, <2>0 DEF Map, HasTable, MInv, Types
  <2> HIDE DEF g, k
  <2>7. Placing(t, a, g, TRUE, k)
    <3>1. dir_w' \in [Tasks -> [Tables -> BOOLEAN]]
      BY <1>2, <2>0 DEF MInv, Types
    <3>2. loading' = [loading EXCEPT ![t] = NONE]
      BY <1>2 DEF MInv, Types
    <3> QED
      BY <1>2, <2>3, <2>4, <2>6, <3>1, <3>2 DEF Placing, MInv, Types
  <2>8. Mappable(t, a, g, TRUE, k)
    BY <2>3, <2>4, <2>5, <2>0 DEF Mappable
  <2>9. Placed(t, a, g, k)
    <3>1. mem_map' \in [Pages -> Nat]
      BY <2>5 DEF MInv, Types
    <3>2. ASSUME NEW h \in Pages
          PROVE mem_map'[h] = mem_map[h] - Is(pte[t][a], h) + Is(g, h)
                               - Is(dir[t][Table(a)], h) + Is(k, h) - Is(loading[t], h)
      <4>1. mem_map[h] \in Nat /\ Is(pte[t][a], h) = 0 /\ Is(loading[t], h) = 0
        BY Domains DEF MInv, Types, Is
      <4>2. HasTable(t, a) => mem_map'[h] = mem_map[h] + Is(g, h)
        BY <2>4, <2>5, <4>1 DEF Is
      <4>3. ~HasTable(t, a) => /\ mem_map'[h] = mem_map[h] + Is(g, h) + Is(k, h)
                               /\ Is(dir[t][Table(a)], h) = 0
        BY <2>3, <2>4, <2>5, <4>1, Domains DEF Is, Free
      <4> QED
        BY <2>3, <4>1, <4>2, <4>3 DEF Is
    <3>3. data' \in [Pages \cup {LOW} -> Contents]
      BY <2>5 DEF MInv, Types, Contents
    <3>4. ASSUME NEW h \in Pages \cup {LOW}, h # g, h \in Free => h # k PROVE data'[h] = data[h]
      BY <2>3, <2>5, <3>4
    <3>5. a >= DATA_PAGES => data'[g] = view[t][a]
      BY <2>4, <2>5 DEF MInv, Shape, Untouched
    <3> QED
      BY <3>1, <3>2, <3>3, <3>4, <3>5 DEF Placed
  <2> QED
    BY <2>7, <2>8, <2>9, PlacedKeeps
<1> QED
  BY <1>1, <1>2 DEF get_empty_page

(* try_to_share: a page table of p becomes a page of t's.                    *)
LEMMA ShareKeeps ==
  ASSUME MInv, NEW t \in Tasks, NEW a \in Addresses, status[t] = "live", loading[t] = NONE,
         pte[t][a] = NONE, a < DATA_PAGES, NEW p \in Sharers(t, a), try_to_share(t, a, p)
  PROVE  MInv'
<1> DEFINE i == Table(a)
           g == dir[p][i]
           k == IF HasTable(t, a) THEN dir[t][i] ELSE Nth(1)
<1>0. p \in Tasks /\ p # t /\ i \in Tables /\ g \in Pages
  <2>1. p \in Tasks /\ p # t /\ g # NONE
    BY DEF Sharers, HasTable
  <2>2. i \in Tables
    BY Domains
  <2> HIDE DEF i
  <2> QED
    BY <2>1, <2>2 DEF MInv, Types
<1>1. CASE ~HasTable(t, a) /\ Free = {} /\ oom(t)
  BY <1>1, DieKeeps DEF oom
<1>2. CASE /\ HasTable(t, a) \/ Free # {}
           /\ Map(t, a, g, FALSE, Nth(1))
           /\ dir_w' = [dir_w EXCEPT ![p][i] = FALSE,
                                     ![t][i] = IF HasTable(t, a) THEN @ ELSE TRUE]
           /\ mem_map' = [h \in Pages |->
                IF h = g THEN mem_map[h] + 1
                ELSE IF ~HasTable(t, a) /\ h = Nth(1) THEN 1 ELSE mem_map[h]]
           /\ data' = IF HasTable(t, a) THEN data ELSE [data EXCEPT ![Nth(1)] = PageTable]
           /\ UNCHANGED <<status, struct, executable, loading, wanted, storing, view>>
  <2>1. ~HasTable(t, a) => Nth(1) \in Free
    BY <1>2, FreePages DEF MInv
  <2>2. /\ k \in Pages
        /\ HasTable(t, a) => k = dir[t][i] /\ dir[t][i] # NONE
        /\ ~HasTable(t, a) => k \in Free /\ dir[t][i] = NONE /\ k = Nth(1)
    BY <1>0, <2>1, FreePages DEF HasTable, MInv, Types
  <2>3. k \in Free => k # g /\ mem_map[k] = 0
    BY <1>0, FreeMappable
  <2>4. /\ pte' = [pte EXCEPT ![t][a] = g]
        /\ pte_w' = [pte_w EXCEPT ![t][a] = FALSE]
        /\ dir' = [dir EXCEPT ![t][i] = k]
    BY <1>0, <1>2 DEF Map, HasTable, MInv, Types
  <2>5. /\ mem_map' = [h \in Pages |-> IF h = g THEN mem_map[h] + 1
                       ELSE IF ~HasTable(t, a) /\ h = k THEN 1 ELSE mem_map[h]]
        /\ data' = IF HasTable(t, a) THEN data ELSE [data EXCEPT ![k] = PageTable]
    BY <1>2, <2>2
  <2> HIDE DEF k
  <2>7. Placing(t, a, g, FALSE, k)
    <3>1. dir_w' \in [Tasks -> [Tables -> BOOLEAN]]
      BY <1>0, <1>2 DEF MInv, Types
    <3>2. loading' = [loading EXCEPT ![t] = NONE]
      BY <1>2 DEF MInv, Types
    <3> QED
      BY <1>0, <1>2, <2>2, <2>4, <3>1, <3>2 DEF Placing, MInv, Types
  <2>8. Mappable(t, a, g, FALSE, k)
    <3>1. ASSUME NEW u \in Tasks, NEW b \in Addresses, pte_w[u][b] PROVE pte[u][b] # g
      <4>1. pte[u][b] \in Pages /\ mem_map[pte[u][b]] = 1
        BY <3>1 DEF MInv, Shape, Private
      <4> QED
        BY <1>0, <4>1, AloneUnused DEF MInv
    <3>2. ASSUME NEW u \in Tasks, NEW b \in Addresses, b >= DATA_PAGES PROVE pte[u][b] # g
      BY <1>0, <3>2 DEF MInv, Shape, Separate
    <3>3. ASSUME NEW u \in Tasks PROVE loading[u] # g
      <4>1. CASE loading[u] # NONE
        BY <1>0, <4>1, LoadingUnused DEF MInv, Shape, Loading
      <4>2. CASE loading[u] = NONE
        BY <1>0, <4>2, Domains
      <4> QED
        BY <4>1, <4>2
    <3>4. ~(a >= DATA_PAGES)
      BY Domains
    <3> QED
      BY <3>1, <3>2, <3>3, <3>4 DEF Mappable
  <2>9. Placed(t, a, g, k)
    <3>1. mem_map' \in [Pages -> Nat]
      BY <2>5 DEF MInv, Types
    <3>2. ASSUME NEW h \in Pages
          PROVE mem_map'[h] = mem_map[h] - Is(pte[t][a], h) + Is(g, h)
                               - Is(dir[t][i], h) + Is(k, h) - Is(loading[t], h)
      <4>1. mem_map[h] \in Nat /\ Is(pte[t][a], h) = 0 /\ Is(loading[t], h) = 0
        BY Domains DEF MInv, Types, Is
      <4>2. HasTable(t, a) => mem_map'[h] = mem_map[h] + Is(g, h)
        BY <2>5, <4>1 DEF Is
      <4>3. ~HasTable(t, a) => /\ mem_map'[h] = mem_map[h] + Is(g, h) + Is(k, h)
                               /\ Is(dir[t][i], h) = 0
        BY <2>2, <2>3, <2>5, <4>1, Domains DEF Is
      <4> QED
        BY <2>2, <4>1, <4>2, <4>3 DEF Is
    <3>3. data' \in [Pages \cup {LOW} -> Contents]
      BY <2>2, <2>5 DEF MInv, Types, Contents
    <3>4. ASSUME NEW h \in Pages \cup {LOW}, h \in Free => h # k PROVE data'[h] = data[h]
      BY <2>2, <2>5, <3>4 DEF MInv, Types
    <3>5. ~(a >= DATA_PAGES)
      BY Domains
    <3> QED
      BY <3>1, <3>2, <3>3, <3>4, <3>5 DEF Placed
  <2> QED
    BY <2>7, <2>8, <2>9, PlacedKeeps
<1> QED
  BY <1>1, <1>2 DEF try_to_share

(* The end of do_no_page: the page that has been read is put in place.       *)
LEMMA LoadDoneKeeps ==
  ASSUME MInv, NEW t \in Tasks, LoadDone(t)
  PROVE  MInv'
<1> DEFINE a == wanted[t]
           g == loading[t]
           k == IF HasTable(t, a) THEN dir[t][Table(a)] ELSE Nth(1)
<1>0. g # NONE
  BY DEF LoadDone
<1>1. /\ a \in Addresses /\ a < DATA_PAGES /\ pte[t][a] = NONE /\ mem_map[g] = 1 /\ g \in Pages
      /\ status[t] = "live" /\ Table(a) \in Tables
  BY <1>0, Domains DEF MInv, Shape, Loading, Dead, Types
<1>2. CASE ~HasTable(t, a) /\ Free = {} /\ Die(t, free_page(mem_map, g))
  BY <1>0, <1>2, DieLoadedKeeps
<1>3. CASE /\ HasTable(t, a) \/ Free # {}
           /\ Map(t, a, g, TRUE, Nth(1))
           /\ dir_w' = [dir_w EXCEPT ![t][Table(a)] = IF HasTable(t, a) THEN @ ELSE TRUE]
           /\ mem_map' = IF HasTable(t, a) THEN mem_map ELSE [mem_map EXCEPT ![Nth(1)] = 1]
           /\ data' = [h \in Pages \cup {LOW} |->
                IF h = g THEN File(a)
                ELSE IF ~HasTable(t, a) /\ h = Nth(1) THEN PageTable ELSE data[h]]
           /\ loading' = [loading EXCEPT ![t] = NONE]
           /\ wanted' = [wanted EXCEPT ![t] = NONE]
           /\ UNCHANGED <<status, struct, executable, storing, view>>
  <2>1. ~HasTable(t, a) => Nth(1) \in Free
    BY <1>3, FreePages DEF MInv
  <2>2. /\ k \in Pages
        /\ HasTable(t, a) => k = dir[t][Table(a)] /\ dir[t][Table(a)] # NONE
        /\ ~HasTable(t, a) => k \in Free /\ dir[t][Table(a)] = NONE /\ k = Nth(1)
    BY <1>1, <2>1, FreePages DEF HasTable, MInv, Types
  <2>3. k \in Free => k # g /\ mem_map[k] = 0
    BY FreeMappable
  <2>4. /\ pte' = [pte EXCEPT ![t][a] = g]
        /\ pte_w' = [pte_w EXCEPT ![t][a] = TRUE]
        /\ dir' = [dir EXCEPT ![t][Table(a)] = k]
    BY <1>1, <1>3 DEF Map, HasTable, MInv, Types
  <2>5. /\ mem_map' = IF HasTable(t, a) THEN mem_map ELSE [mem_map EXCEPT ![k] = 1]
        /\ data' = [h \in Pages \cup {LOW} |->
             IF h = g THEN File(a) ELSE IF ~HasTable(t, a) /\ h = k THEN PageTable ELSE data[h]]
    BY <1>3, <2>2
  <2> HIDE DEF k
  <2>6. /\ \A u \in Tasks, b \in Addresses : pte[u][b] # g
        /\ \A u \in Tasks \ {t} : loading[u] # g
    BY <1>0, <1>1, LoadingUnused DEF MInv
  <2>7. Placing(t, a, g, TRUE, k)
    <3>1. dir_w' \in [Tasks -> [Tables -> BOOLEAN]]
      BY <1>1, <1>3 DEF MInv, Types
    <3>2. /\ wanted' \in [Tasks -> Addresses \cup {NONE}] /\ storing' \in [Tasks -> Addresses \cup {NONE}]
          /\ storing' = storing /\ \A u \in Tasks \ {t} : wanted'[u] = wanted[u]
      BY <1>3 DEF MInv, Types
    <3> QED
      BY <1>1, <1>3, <2>2, <2>4, <3>1, <3>2 DEF Placing
  <2>8. Mappable(t, a, g, TRUE, k)
    <3>1. mem_map'[g] = 1
      BY <1>1, <2>2, <2>3, <2>5 DEF MInv, Types
    <3>2. ~(a >= DATA_PAGES)
      <4>1. \A x \in Addresses : x < DATA_PAGES => ~(x >= DATA_PAGES)
        BY Domains
      <4> QED
        BY <1>1, <4>1
    <3> QED
      BY <1>1, <2>6, <3>1, <3>2 DEF Mappable
  <2>9. Placed(t, a, g, k)
    <3>1. mem_map' \in [Pages -> Nat]
      BY <2>5 DEF MInv, Types
    <3>2. ASSUME NEW h \in Pages
          PROVE mem_map'[h] = mem_map[h] - Is(pte[t][a], h) + Is(g, h)
                               - Is(dir[t][Table(a)], h) + Is(k, h) - Is(g, h)
      <4>1. mem_map[h] \in Nat /\ Is(pte[t][a], h) = 0 /\ Is(g, h) \in Int
        BY <1>1, Domains DEF MInv, Types, Is
      <4>2. HasTable(t, a) => mem_map'[h] = mem_map[h]
        BY <2>5
      <4>3. ~HasTable(t, a) => /\ mem_map'[h] = mem_map[h] + Is(k, h)
                               /\ Is(dir[t][Table(a)], h) = 0
        BY <2>2, <2>3, <2>5, <4>1, Domains DEF Is, MInv, Types
      <4> QED
        BY <2>2, <4>1, <4>2, <4>3 DEF Is
    <3>3. data' \in [Pages \cup {LOW} -> Contents]
      BY <1>1, <2>5 DEF MInv, Types, Contents
    <3>4. ASSUME NEW h \in Pages \cup {LOW}, h # g, h \in Free => h # k PROVE data'[h] = data[h]
      BY <2>2, <2>5, <3>4
    <3>5. ~(a >= DATA_PAGES)
      <4>1. \A x \in Addresses : x < DATA_PAGES => ~(x >= DATA_PAGES)
        BY Domains
      <4> QED
        BY <1>1, <4>1
    <3> QED
      BY <3>1, <3>2, <3>3, <3>4, <3>5 DEF Placed
  <2> QED
    BY <1>1, <2>7, <2>8, <2>9, PlacedKeeps
<1> QED
  BY <1>2, <1>3 DEF LoadDone

(* The start of do_no_page's reading.                                        *)
LEMMA StartLoadKeeps ==
  ASSUME MInv, NEW t \in Tasks, NEW a \in Addresses, status[t] = "live", loading[t] = NONE,
         pte[t][a] = NONE, a < DATA_PAGES, StartLoad(t, a)
  PROVE  MInv'
<1> DEFINE g == Nth(1)
<1>1. CASE Free = {} /\ oom(t)
  BY <1>1, DieKeeps DEF oom
<1>2. CASE /\ Free # {}
           /\ mem_map' = [mem_map EXCEPT ![g] = 1]
           /\ data' = [data EXCEPT ![g] = Zero]
           /\ loading' = [loading EXCEPT ![t] = g]
           /\ wanted' = [wanted EXCEPT ![t] = a]
           /\ UNCHANGED <<status, struct, executable, dir, dir_w, pte, pte_w, storing, view>>
  <2>1. g \in Free
    BY <1>2, FreePages DEF MInv
  <2> HIDE DEF g
  <2>2. /\ g \in Pages /\ mem_map[g] = 0 /\ g # LOW /\ g # NONE
        /\ \A u \in Tasks, b \in Addresses : pte[u][b] # g
        /\ \A u \in Tasks : loading[u] # g
    BY <2>1, FreeMappable
  <2>3. status' = status /\ struct' = struct /\ executable' = executable /\ dir' = dir /\ dir_w' = dir_w
        /\ pte' = pte /\ pte_w' = pte_w /\ storing' = storing /\ view' = view
    BY <1>2
  <2>4. /\ \A h \in Pages : mem_map'[h] = IF h = g THEN 1 ELSE mem_map[h]
        /\ \A h \in Pages \cup {LOW} : data'[h] = IF h = g THEN Zero ELSE data[h]
        /\ \A u \in Tasks : loading'[u] = IF u = t THEN g ELSE loading[u]
        /\ \A u \in Tasks : wanted'[u] = IF u = t THEN a ELSE wanted[u]
    BY <1>2, <2>2 DEF MInv, Types
  <2>5. Types'
    <3>1. mem_map' \in [Pages -> Nat] /\ data' \in [Pages \cup {LOW} -> Contents]
      BY <1>2 DEF MInv, Types, Contents
    <3>2. loading' \in [Tasks -> Pages \cup {NONE}] /\ wanted' \in [Tasks -> Addresses \cup {NONE}]
      BY <1>2, <2>2 DEF MInv, Types
    <3> QED
      BY <2>3, <3>1, <3>2 DEF MInv, Types
  <2>6. MemMapCounts'
    <3>0. LoadingTo(t, g) /\ Types
      BY <1>2 DEF LoadingTo, MInv
    <3>1. ASSUME NEW h \in Pages PROVE mem_map'[h] = PteUses(h)' + DirUses(h)' + StructUses(h)' + LoadUses(h)'
      <4>1. LoadUses(h)' = LoadUses(h) - Is(loading[t], h) + Is(g, h)
        BY <3>0, LoadEntry
      <4>2. PteUses(h)' = PteUses(h) /\ DirUses(h)' = DirUses(h) /\ StructUses(h)' = StructUses(h)
        BY <2>3, SameUses
      <4>3. mem_map[h] = PteUses(h) + DirUses(h) + StructUses(h) + LoadUses(h)
        BY CountsAreUses DEF MInv
      <4>4. PteUses(h) \in Nat /\ DirUses(h) \in Nat /\ StructUses(h) \in Nat /\ LoadUses(h) \in Nat
        BY <3>0, Uses
      <4>5. Is(loading[t], h) = 0
        BY Domains DEF Is
      <4>6. mem_map'[h] = mem_map[h] + Is(g, h)
        BY <2>2, <2>4, <4>3, <4>4 DEF Is
      <4>7. Is(g, h) \in Int
        BY DEF Is
      <4> QED
        BY <4>1, <4>2, <4>3, <4>4, <4>5, <4>6, <4>7
    <3> QED
      BY <3>1, CountsNext
  <2>7. Dead' /\ Tabled' /\ Storable' /\ Untouched'
    BY <2>3, <2>4 DEF MInv, Shape, Dead, Tabled, Storable, Untouched
  <2>8. Private'
    BY <2>2, <2>3, <2>4 DEF MInv, Shape, Private
  <2>9. Loading'
    <3> SUFFICES ASSUME NEW u \in Tasks, loading'[u] # NONE
                 PROVE  /\ wanted'[u] \in Addresses /\ wanted'[u] < DATA_PAGES /\ pte'[u][wanted'[u]] = NONE
                        /\ mem_map'[loading'[u]] = 1
      BY DEF Loading
    <3>1. CASE u = t
      BY <2>2, <2>3, <2>4, <3>1
    <3>2. CASE u # t
      <4>1. loading[u] \in Pages /\ loading'[u] = loading[u] /\ wanted'[u] = wanted[u]
        BY <2>4, <3>2 DEF MInv, Types
      <4> QED
        BY <2>2, <2>3, <2>4, <4>1 DEF MInv, Shape, Loading
    <3> QED
      BY <3>1, <3>2
  <2>10. Separate'
    BY <2>2, <2>3, <2>4 DEF MInv, Shape, Separate
  <2>11. Isolation'
    <3> SUFFICES ASSUME NEW u \in Tasks, NEW b \in Addresses, pte'[u][b] # NONE, b >= DATA_PAGES
                 PROVE  data'[pte'[u][b]] = view'[u][b]
      BY DEF Isolation
    <3>1. pte'[u][b] = pte[u][b] /\ pte[u][b] \in Pages \cup {LOW} /\ view'[u][b] = view[u][b]
      BY <2>3 DEF MInv, Types
    <3>2. data'[pte[u][b]] = data[pte[u][b]]
      BY <2>2, <2>4, <3>1
    <3> QED
      BY <3>1, <3>2 DEF MInv, Isolation
  <2> QED
    BY <2>5, <2>6, <2>7, <2>8, <2>9, <2>10, <2>11 DEF MInv, Shape
<1> QED
  BY <1>1, <1>2 DEF StartLoad

-----------------------------------------------------------------------------
(* A store of t to its page at a, by the task (Write) or the kernel for it     *)
(* (put_fs_byte): nobody else finds it, except in pages of an executable.    *)
LEMMA StoreKeeps ==
  ASSUME MInv, NEW t \in Tasks, NEW a \in Addresses,
         pte_w[t][a] \/ (a < DATA_PAGES /\ pte[t][a] \in Pages),
         data' = [data EXCEPT ![pte[t][a]] = Written(t)],
         view' = [view EXCEPT ![t][a] = Written(t)],
         storing' = storing \/ storing' = [storing EXCEPT ![t] = NONE],
         UNCHANGED <<mem_map, status, struct, executable, dir, dir_w, pte, pte_w, loading, wanted>>
  PROVE  MInv'
<1> DEFINE g == pte[t][a]
<1>1. g \in Pages
  BY DEF MInv, Shape, Private
<1>2. ASSUME NEW u \in Tasks, NEW b \in Addresses, b >= DATA_PAGES, pte[u][b] = g
      PROVE  u = t /\ b = a
  <2>1. CASE pte_w[t][a]
    BY <1>1, <1>2, <2>1, AloneUnused DEF MInv, Shape, Private
  <2>2. CASE a < DATA_PAGES
    <3>1. a = b
      BY <1>1, <1>2 DEF MInv, Shape, Separate
    <3>2. \A x \in Addresses : x < DATA_PAGES => ~(x >= DATA_PAGES)
      BY Domains
    <3> QED
      BY <1>2, <2>2, <3>1, <3>2
  <2> QED
    BY <2>1, <2>2
<1>3. mem_map' = mem_map /\ status' = status /\ struct' = struct /\ executable' = executable
      /\ dir' = dir /\ dir_w' = dir_w /\ pte' = pte /\ pte_w' = pte_w /\ loading' = loading
      /\ wanted' = wanted
  OBVIOUS
<1>4. /\ \A h \in Pages \cup {LOW} : data'[h] = IF h = g THEN Written(t) ELSE data[h]
      /\ \A u \in Tasks, b \in Addresses :
           view'[u][b] = IF u = t /\ b = a THEN Written(t) ELSE view[u][b]
      /\ \A u \in Tasks : storing'[u] \in {NONE, storing[u]}
  BY DEF MInv, Types
<1>5. Types'
  <2>1. Written(t) \in Contents
    BY DEF Contents
  <2>2. data' \in [Pages \cup {LOW} -> Contents] /\ view' \in [Tasks -> [Addresses -> Contents]]
    BY <2>1 DEF MInv, Types
  <2>3. storing' \in [Tasks -> Addresses \cup {NONE}]
    BY DEF MInv, Types
  <2> QED
    BY <1>3, <2>2, <2>3 DEF MInv, Types
<1>6. MemMapCounts'
  BY <1>3 DEF MInv, MemMapCounts
<1>7. Dead' /\ Tabled' /\ Private' /\ Loading' /\ Storable' /\ Separate'
  BY <1>3, <1>4 DEF MInv, Shape, Dead, Tabled, Private, Loading, Storable, Separate
<1>8. Untouched'
  <2>1. pte[t][a] # NONE
    BY <1>1, Domains
  <2> QED
    BY <1>3, <1>4, <2>1 DEF MInv, Shape, Untouched
<1>9. Isolation'
  <2> SUFFICES ASSUME NEW u \in Tasks, NEW b \in Addresses, pte[u][b] # NONE, b >= DATA_PAGES
               PROVE  data'[pte[u][b]] = view'[u][b]
    BY <1>3 DEF Isolation
  <2>1. pte[u][b] \in Pages \cup {LOW}
    BY DEF MInv, Types
  <2>2. CASE pte[u][b] = g
    BY <1>2, <1>4, <2>1, <2>2
  <2>3. CASE pte[u][b] # g
    BY <1>4, <2>1, <2>3 DEF MInv, Isolation
  <2> QED
    BY <2>2, <2>3
<1> QED
  BY <1>5, <1>6, <1>7, <1>8, <1>9 DEF MInv, Shape

(* release: the zombie's task_struct is its last page.                       *)
LEMMA ReleaseKeeps ==
  ASSUME MInv, NEW t \in Tasks, release(t)
  PROVE  MInv'
<1> DEFINE g == struct[t]
<1>0. Types /\ status[t] = "zombie"
  BY DEF MInv, release
<1>1. g \in Pages
  BY <1>0 DEF MInv, Shape, Dead, Types
<1>2. mem_map[g] >= 1
  <2>1. StructUses(g) >= 1 /\ PteUses(g) \in Nat /\ DirUses(g) \in Nat /\ StructUses(g) \in Nat /\ LoadUses(g) \in Nat
    BY <1>0, Uses
  <2>2. mem_map[g] = PteUses(g) + DirUses(g) + StructUses(g) + LoadUses(g)
    BY <1>1, CountsAreUses DEF MInv
  <2> QED
    BY <2>1, <2>2
<1>3. data' = data /\ executable' = executable /\ view' = view
      /\ dir' = dir /\ dir_w' = dir_w /\ pte' = pte /\ pte_w' = pte_w /\ loading' = loading
      /\ wanted' = wanted /\ storing' = storing
  BY DEF release
<1>4. /\ \A h \in Pages : mem_map'[h] = IF h = g THEN mem_map[h] - 1 ELSE mem_map[h]
      /\ \A u \in Tasks : status'[u] = IF u = t THEN "free" ELSE status[u]
      /\ \A u \in Tasks : struct'[u] = IF u = t THEN NONE ELSE struct[u]
  BY <1>0, <1>1 DEF release, free_page, Types
<1>5. Types'
  <2>1. mem_map' \in [Pages -> Nat]
    BY <1>0, <1>1, <1>2 DEF release, free_page, Types
  <2>2. status' \in [Tasks -> {"free", "live", "zombie"}] /\ struct' \in [Tasks -> Pages \cup {NONE}]
    BY <1>0 DEF release, Types
  <2> QED
    BY <1>0, <1>3, <2>1, <2>2 DEF Types
<1>6. MemMapCounts'
  <2>0. StructTo(t, NONE)
    BY DEF release, StructTo
  <2>1. ASSUME NEW h \in Pages PROVE mem_map'[h] = PteUses(h)' + DirUses(h)' + StructUses(h)' + LoadUses(h)'
    <3>1. StructUses(h)' = StructUses(h) - Is(g, h) + Is(NONE, h)
      BY <1>0, <2>0, StructEntry
    <3>2. PteUses(h)' = PteUses(h) /\ DirUses(h)' = DirUses(h) /\ LoadUses(h)' = LoadUses(h)
      BY <1>3, SameUses
    <3>3. mem_map[h] = PteUses(h) + DirUses(h) + StructUses(h) + LoadUses(h)
      BY CountsAreUses DEF MInv
    <3>4. PteUses(h) \in Nat /\ DirUses(h) \in Nat /\ StructUses(h) \in Nat /\ LoadUses(h) \in Nat
      BY <1>0, Uses
    <3>5. Is(NONE, h) = 0 /\ Is(g, h) \in Int
      BY Domains DEF Is
    <3>6. mem_map'[h] = mem_map[h] - Is(g, h)
      BY <1>4, <3>3, <3>4 DEF Is
    <3> QED
      BY <3>1, <3>2, <3>3, <3>4, <3>5, <3>6
  <2> QED
    BY <2>1, CountsNext
<1>7. Dead'
  BY <1>0, <1>3, <1>4 DEF MInv, Shape, Dead
<1>8. Tabled' /\ Storable' /\ Separate' /\ Untouched' /\ Isolation'
  BY <1>3 DEF MInv, Shape, Tabled, Storable, Separate, Untouched, Isolation
<1>9. Private'
  <2> SUFFICES ASSUME NEW u \in Tasks, NEW b \in Addresses, pte_w[u][b]
               PROVE  pte[u][b] \in Pages /\ mem_map'[pte[u][b]] = 1
    BY <1>3 DEF Private
  <2>1. pte[u][b] \in Pages /\ mem_map[pte[u][b]] = 1
    BY DEF MInv, Shape, Private
  <2>2. pte[u][b] # g
    BY <2>1, AloneUnused DEF MInv
  <2> QED
    BY <1>4, <2>1, <2>2
<1>10. Loading'
  <2> SUFFICES ASSUME NEW u \in Tasks, loading[u] # NONE
               PROVE  /\ wanted[u] \in Addresses /\ wanted[u] < DATA_PAGES /\ pte[u][wanted[u]] = NONE
                      /\ mem_map'[loading[u]] = 1
    BY <1>3 DEF Loading
  <2>1. /\ wanted[u] \in Addresses /\ wanted[u] < DATA_PAGES /\ pte[u][wanted[u]] = NONE
        /\ mem_map[loading[u]] = 1
    BY DEF MInv, Shape, Loading
  <2>2. loading[u] \in Pages /\ loading[u] # g
    BY <2>1, LoadingUnused DEF MInv
  <2> QED
    BY <1>4, <2>1, <2>2
<1> QED
  BY <1>5, <1>6, <1>7, <1>8, <1>9, <1>10 DEF MInv, Shape

(* fork takes R/W bits away, and gives none.                                 *)
LEMMA ProtectedTypes ==
  ASSUME Types, NEW t \in Tasks
  PROVE  /\ Protected(t) \in [Addresses -> BOOLEAN]
         /\ \A a \in Addresses :
              /\ Protected(t)[a] => pte_w[t][a]
              /\ Table(a) \in Copied(t) /\ pte[t][a] \in Pages => ~Protected(t)[a]
<1>1. \A a \in Addresses : pte_w[t][a] \in BOOLEAN
  BY DEF Types
<1> DEFINE Cut(a) == Table(a) \in Copied(t) /\ pte[t][a] \in Pages
<1>2. Protected(t) = [a \in Addresses |-> IF Cut(a) THEN FALSE ELSE pte_w[t][a]]
  BY DEF Protected
<1> HIDE DEF Cut
<1>3. \A a \in Addresses : Protected(t)[a] = IF Cut(a) THEN FALSE ELSE pte_w[t][a]
  BY <1>2
<1>4. ASSUME NEW a \in Addresses
      PROVE  /\ Protected(t)[a] \in BOOLEAN /\ (Protected(t)[a] => pte_w[t][a])
             /\ Cut(a) => ~Protected(t)[a]
  <2>1. CASE Cut(a)
    BY <1>3, <2>1
  <2>2. CASE ~Cut(a)
    BY <1>1, <1>3, <2>2
  <2> QED
    BY <2>1, <2>2
<1>5. Protected(t) \in [Addresses -> BOOLEAN]
  BY <1>2, <1>4
<1> QED
  BY <1>4, <1>5 DEF Cut

(* Only write protection is added, and t is about to store nothing.          *)
LEMMA ForkFailsKeeps ==
  ASSUME MInv, NEW t \in Tasks, User(t), ForkFails(t)
  PROVE  MInv'
<1>1. mem_map' = mem_map /\ data' = data /\ status' = status /\ struct' = struct /\ executable' = executable
      /\ dir' = dir /\ dir_w' = dir_w /\ pte' = pte /\ loading' = loading
      /\ wanted' = wanted /\ storing' = storing /\ view' = view
  BY DEF ForkFails
<1>2. Protected(t) \in [Addresses -> BOOLEAN] /\ \A a \in Addresses : Protected(t)[a] => pte_w[t][a]
  BY ProtectedTypes DEF MInv
<1>3. /\ pte_w' \in [Tasks -> [Addresses -> BOOLEAN]]
      /\ \A u \in Tasks : u # t => pte_w'[u] = pte_w[u]
      /\ \A a \in Addresses : pte_w'[t][a] => pte_w[t][a]
  BY <1>2 DEF ForkFails, MInv, Types
<1>4. Types'
  BY <1>1, <1>3 DEF MInv, Types
<1>5. MemMapCounts'
  BY <1>1 DEF MInv, MemMapCounts
<1>6. Dead' /\ Tabled' /\ Loading' /\ Separate' /\ Untouched' /\ Isolation'
  BY <1>1 DEF MInv, Shape, Dead, Tabled, Loading, Separate, Untouched, Isolation
<1>7. Private'
  BY <1>1, <1>3 DEF MInv, Shape, Private
<1>8. Storable'
  BY <1>1, <1>3 DEF MInv, Shape, Storable, User
<1> QED
  BY <1>4, <1>5, <1>6, <1>7, <1>8 DEF MInv, Shape

-----------------------------------------------------------------------------
(* The page directory that fork makes, and its pages: one for the task_struct  *)
(* and one for each table, all of them free, no two the same.                *)
ChildDir(t) == [i \in Tables |-> IF i \in Present(t) THEN Nth(Turn(t, i)) ELSE NONE]
NewPages(t) == {Nth(n) : n \in 1..(1 + Cardinality(Present(t)))}

(* They are.                                                                 *)
LEMMA ForkPages ==
  ASSUME Types, NEW t \in Tasks, Free # {}, Copied(t) = Present(t)
  PROVE  /\ Nth(1) \in Free /\ LOW \notin NewPages(t)
         /\ ChildDir(t) \in [Tables -> Pages \cup {NONE}]
         /\ \A i \in Tables : /\ ChildDir(t)[i] = NONE <=> dir[t][i] = NONE
                              /\ ChildDir(t)[i] # NONE => ChildDir(t)[i] \in Free /\ ChildDir(t)[i] # Nth(1)
         /\ \A i, j \in Tables : ChildDir(t)[i] # NONE /\ ChildDir(t)[i] = ChildDir(t)[j] => i = j
         /\ \A f \in Pages : f \in NewPages(t) <=> f = Nth(1) \/ \E i \in Tables : ChildDir(t)[i] = f
<1> DEFINE P == Present(t)
           c == Cardinality(P)
<1>1. P \in SUBSET Int /\ P \in SUBSET Tables /\ IsFiniteSet(P) /\ c \in Nat
      /\ NR_TABLES \in Int /\ \A i \in P : i <= NR_TABLES
  BY Domains, FS_Subset, FS_CardinalityType DEF Present
<1>2. \A i \in P : Turn(t, i) = 2 + Cardinality(Below(P, i)) /\ Turn(t, i) <= Cardinality(Free)
  BY DEF Turn, Below, Copied
<1> HIDE DEF P
<1>3. \A i, j \in P : /\ Cardinality(Below(P, i)) \in 0..(c - 1)
                      /\ Cardinality(Below(P, i)) = Cardinality(Below(P, j)) => i = j
  <2> SUFFICES ASSUME NEW i \in P, NEW j \in P
               PROVE  /\ Cardinality(Below(P, i)) \in 0..(c - 1)
                      /\ Cardinality(Below(P, i)) = Cardinality(Below(P, j)) => i = j
    OBVIOUS
  <2>1. /\ Cardinality(Above(P, i)) \in 0..(c - 1)
        /\ Cardinality(Below(P, i)) = c - 1 - Cardinality(Above(P, i))
        /\ Cardinality(Above(P, i)) = Cardinality(Above(P, j)) => i = j
    BY <1>1, RankUnique
  <2>2. /\ Cardinality(Above(P, j)) \in 0..(c - 1)
        /\ Cardinality(Below(P, j)) = c - 1 - Cardinality(Above(P, j))
    BY <1>1, RankUnique
  <2> HIDE DEF c
  <2> QED
    BY <1>1, <2>1, <2>2
<1>4. \A n \in 1..c : \E i \in P : Cardinality(Below(P, i)) = n - 1
  BY <1>1, RankUp
<1>5. /\ Cardinality(Free) \in Nat /\ 1 <= Cardinality(Free) /\ Free \in SUBSET Pages
      /\ \A n \in 1..Cardinality(Free) : Nth(n) \in Free
      /\ \A m, n \in 1..Cardinality(Free) : Nth(m) = Nth(n) => m = n
  BY FreePages
<1> HIDE DEF c
<1>6. ASSUME NEW i \in P PROVE Turn(t, i) \in 2..(1 + c) /\ Turn(t, i) \in 1..Cardinality(Free)
  <2>1. Cardinality(Below(P, i)) \in 0..(c - 1)
    BY <1>3
  <2> QED
    BY <1>1, <1>2, <1>5, <2>1
<1>7. ASSUME NEW i \in P, NEW j \in P, Nth(Turn(t, i)) = Nth(Turn(t, j)) PROVE i = j
  <2>1. Turn(t, i) = Turn(t, j)
    BY <1>5, <1>6, <1>7
  <2>2. Cardinality(Below(P, i)) \in Int /\ Cardinality(Below(P, j)) \in Int
    BY <1>1, <1>3
  <2> QED
    BY <1>2, <1>3, <2>1, <2>2
<1>8. ASSUME NEW i \in P PROVE Nth(Turn(t, i)) \in Free /\ Nth(Turn(t, i)) # Nth(1)
  <2>1. Turn(t, i) # 1 /\ 1 \in 1..Cardinality(Free) /\ Turn(t, i) \in 1..Cardinality(Free)
    BY <1>1, <1>5, <1>6
  <2> QED
    BY <1>5, <2>1
<1>9. ASSUME NEW n \in 2..(1 + c) PROVE \E i \in P : Turn(t, i) = n
  <2>1. n - 1 \in 1..c
    BY <1>1
  <2>2. PICK i \in P : Cardinality(Below(P, i)) = n - 1 - 1
    BY <1>4, <2>1
  <2> QED
    BY <1>2, <2>2
<1>10. \A i \in Tables : ChildDir(t)[i] = IF i \in P THEN Nth(Turn(t, i)) ELSE NONE
  BY DEF ChildDir, P
<1>11. \A i \in Tables : i \in P <=> dir[t][i] # NONE
  BY DEF P, Present
<1>12. \A f \in Free : f \in Pages /\ f # NONE
  BY <1>5, Domains
<1>13. ChildDir(t) \in [Tables -> Pages \cup {NONE}]
  BY <1>8, <1>12 DEF ChildDir, P
<1>14. \A i \in Tables : /\ ChildDir(t)[i] = NONE <=> dir[t][i] = NONE
                         /\ ChildDir(t)[i] # NONE => ChildDir(t)[i] \in Free /\ ChildDir(t)[i] # Nth(1)
  BY <1>8, <1>10, <1>11, <1>12
<1>15. \A i, j \in Tables : ChildDir(t)[i] # NONE /\ ChildDir(t)[i] = ChildDir(t)[j] => i = j
  BY <1>7, <1>10
<1>16. ASSUME NEW f \in Pages
       PROVE  f \in NewPages(t) <=> f = Nth(1) \/ \E i \in Tables : ChildDir(t)[i] = f
  <2>1. NewPages(t) = {Nth(n) : n \in 1..(1 + c)}
    BY DEF NewPages, c, P
  <2>2. ASSUME f \in NewPages(t) PROVE f = Nth(1) \/ \E i \in Tables : ChildDir(t)[i] = f
    <3>1. PICK n \in 1..(1 + c) : f = Nth(n)
      BY <2>1, <2>2
    <3>2. CASE n = 1
      BY <3>1, <3>2
    <3>3. CASE n # 1
      <4>1. n \in 2..(1 + c)
        BY <1>1, <3>3
      <4>2. PICK i \in P : Turn(t, i) = n
        BY <1>9, <4>1
      <4> QED
        BY <1>1, <1>10, <3>1, <4>2
    <3> QED
      BY <3>2, <3>3
  <2>3. Nth(1) \in NewPages(t)
    <3>1. 1 \in 1..(1 + c)
      BY <1>1
    <3> QED
      BY <2>1, <3>1
  <2>4. ASSUME NEW i \in Tables, ChildDir(t)[i] = f PROVE f \in NewPages(t)
    <3>1. i \in P
      BY <1>10, <2>4, Domains
    <3>2. Turn(t, i) \in 1..(1 + c)
      BY <1>1, <1>6, <3>1
    <3> QED
      BY <1>10, <2>1, <2>4, <3>1, <3>2
  <2> QED
    BY <2>2, <2>3, <2>4
<1>17. Nth(1) \in Free
  <2>1. 1 \in 1..Cardinality(Free)
    BY <1>5
  <2> QED
    BY <1>5, <2>1
<1>18. LOW \notin NewPages(t)
  <2>1. ASSUME NEW n \in 1..(1 + c) PROVE Nth(n) \in Free
    <3>1. CASE n = 1
      BY <1>17, <3>1
    <3>2. CASE n # 1
      <4>1. n \in 2..(1 + c)
        BY <1>1, <3>2
      <4>2. PICK i \in P : Turn(t, i) = n
        BY <1>9, <4>1
      <4> QED
        BY <1>8, <4>2
    <3> QED
      BY <3>1, <3>2
  <2>2. NewPages(t) = {Nth(n) : n \in 1..(1 + c)}
    BY DEF NewPages, c, P
  <2> QED
    BY <1>5, <2>1, <2>2, Domains
<1> QED
  BY <1>13, <1>14, <1>15, <1>16, <1>17, <1>18

(* What a successful fork of t into the slot u keeps.  The counts:           *)
LEMMA CopyCounts ==
  ASSUME MInv, NEW t \in Tasks, NEW u \in Tasks, User(t), status[u] = "free", Free # {}, CopyProcess(t, u)
  PROVE  /\ mem_map' \in [Pages -> Nat] /\ MemMapCounts'
         /\ \A f \in Pages : f \notin Free /\ (\A a \in Addresses : pte[t][a] # f) => mem_map'[f] = mem_map[f]
<1> DEFINE d == ChildDir(t)
           s == Nth(1)
<1>0. Types /\ Copied(t) = Present(t)
  BY DEF MInv, CopyProcess
<1>1. /\ s \in Free /\ d \in [Tables -> Pages \cup {NONE}]
      /\ \A i \in Tables : d[i] # NONE => d[i] \in Free /\ d[i] # s
      /\ \A i, j \in Tables : d[i] # NONE /\ d[i] = d[j] => i = j
      /\ \A f \in Pages : f \in NewPages(t) <=> f = s \/ \E i \in Tables : d[i] = f
  BY <1>0, ForkPages
<1>2. /\ pte' = [pte EXCEPT ![u] = pte[t]]
      /\ dir' = [dir EXCEPT ![u] = d]
      /\ struct' = [struct EXCEPT ![u] = s]
      /\ loading' = loading
      /\ mem_map' = [f \in Pages |-> mem_map[f] + Cardinality(InRow(pte[t], Addresses, f))
                                    + (IF f \in NewPages(t) THEN 1 ELSE 0)]
  BY DEF CopyProcess, ChildDir, NewPages, InRow
<1> HIDE DEF d, s
<1>3. PteRowTo(u, pte[t]) /\ DirRowTo(u, d) /\ StructTo(u, s)
  BY <1>0, <1>1, <1>2 DEF PteRowTo, DirRowTo, StructTo, Types
<1>4. /\ \A a \in Addresses : pte[u][a] = NONE
      /\ \A i \in Tables : dir[u][i] = NONE
      /\ struct[u] = NONE
  BY DEF MInv, Shape, Dead
<1>5. ASSUME NEW f \in Pages
      PROVE  Cardinality(InRow(d, Tables, f)) = IF \E i \in Tables : d[i] = f THEN 1 ELSE 0
  <2>1. CASE \E i \in Tables : d[i] = f
    <3>1. PICK i \in Tables : d[i] = f
      BY <2>1
    <3>2. f # NONE
      BY Domains
    <3>3. InRow(d, Tables, f) = {i}
      BY <1>1, <3>1, <3>2 DEF InRow
    <3> QED
      BY <2>1, <3>3, FS_Singleton
  <2>2. CASE ~\E i \in Tables : d[i] = f
    <3>1. InRow(d, Tables, f) = {}
      BY <2>2 DEF InRow
    <3> QED
      BY <2>2, <3>1, FS_EmptySet
  <2> QED
    BY <2>1, <2>2
<1>6. ASSUME NEW f \in Pages
      PROVE  /\ mem_map'[f] = PteUses(f)' + DirUses(f)' + StructUses(f)' + LoadUses(f)'
             /\ mem_map'[f] \in Nat
             /\ f \notin Free /\ (\A a \in Addresses : pte[t][a] # f) => mem_map'[f] = mem_map[f]
  <2>0. InRow(pte[u], Addresses, f) = {} /\ InRow(dir[u], Tables, f) = {} /\ Is(struct[u], f) = 0
    BY <1>4, Domains DEF InRow, Is
  <2>1. /\ PteUses(f)' = PteUses(f) - Cardinality(InRow(pte[u], Addresses, f))
                                     + Cardinality(InRow(pte[t], Addresses, f))
        /\ Cardinality(InRow(pte[t], Addresses, f)) \in Nat
    BY <1>0, <1>3, PteRow
  <2>2. DirUses(f)' = DirUses(f) - Cardinality(InRow(dir[u], Tables, f))
                                 + Cardinality(InRow(d, Tables, f))
    BY <1>0, <1>3, DirRow
  <2>3. StructUses(f)' = StructUses(f) - Is(struct[u], f) + Is(s, f)
    BY <1>0, <1>3, StructEntry
  <2>4. LoadUses(f)' = LoadUses(f)
    BY <1>2, SameUses
  <2>5. Cardinality(InRow(pte[u], Addresses, f)) = 0 /\ Cardinality(InRow(dir[u], Tables, f)) = 0
    BY <2>0, FS_EmptySet
  <2>6. mem_map[f] = PteUses(f) + DirUses(f) + StructUses(f) + LoadUses(f)
    BY CountsAreUses DEF MInv
  <2>7. PteUses(f) \in Nat /\ DirUses(f) \in Nat /\ StructUses(f) \in Nat /\ LoadUses(f) \in Nat
    BY <1>0, Uses
  <2>8. (IF f \in NewPages(t) THEN 1 ELSE 0) = Is(s, f) + Cardinality(InRow(d, Tables, f))
    <3>1. f \in NewPages(t) <=> f = s \/ \E i \in Tables : d[i] = f
      BY <1>1
    <3>2. f = s => ~\E i \in Tables : d[i] = f
      BY <1>1, Domains
    <3> QED
      BY <1>5, <3>1, <3>2 DEF Is
  <2>9. Is(s, f) \in Nat /\ Cardinality(InRow(d, Tables, f)) \in Nat
    BY <1>5 DEF Is
  <2>10. mem_map'[f] = mem_map[f] + Cardinality(InRow(pte[t], Addresses, f))
                                  + (IF f \in NewPages(t) THEN 1 ELSE 0)
    BY <1>2
  <2>11. ASSUME f \notin Free, \A a \in Addresses : pte[t][a] # f PROVE mem_map'[f] = mem_map[f]
    <3>1. InRow(pte[t], Addresses, f) = {}
      BY <2>11 DEF InRow
    <3>2. Cardinality(InRow(pte[t], Addresses, f)) = 0
      BY <3>1, FS_EmptySet
    <3>3. f \notin NewPages(t)
      BY <1>1, <2>11, Domains
    <3>4. mem_map[f] \in Int
      BY <1>0 DEF Types
    <3> QED
      BY <2>10, <3>2, <3>3, <3>4
  <2>12. mem_map'[f] = mem_map[f] + Cardinality(InRow(pte[t], Addresses, f)) + Is(s, f)
                                  + Cardinality(InRow(d, Tables, f))
    BY <2>1, <2>6, <2>7, <2>8, <2>9, <2>10
  <2>13. mem_map'[f] \in Nat
    BY <2>1, <2>6, <2>7, <2>9, <2>12
  <2>14. mem_map'[f] = PteUses(f)' + DirUses(f)' + StructUses(f)' + LoadUses(f)'
    BY <2>0, <2>1, <2>2, <2>3, <2>4, <2>5, <2>6, <2>7, <2>9, <2>12
  <2> QED
    BY <2>11, <2>13, <2>14
<1>7. mem_map' \in [Pages -> Nat]
  BY <1>2, <1>6
<1> QED
  BY <1>6, <1>7, CountsNext

(* The rest of the invariant.                                                *)
LEMMA CopyKeeps ==
  ASSUME MInv, NEW t \in Tasks, NEW u \in Tasks, User(t), status[u] = "free", Free # {}, CopyProcess(t, u)
  PROVE  MInv'
<1> DEFINE d == ChildDir(t)
           s == Nth(1)
<1>0. Types /\ Copied(t) = Present(t) /\ t # u /\ storing[t] = NONE
  BY DEF MInv, CopyProcess, User
<1>1. /\ s \in Free /\ d \in [Tables -> Pages \cup {NONE}]
      /\ \A i \in Tables : d[i] = NONE <=> dir[t][i] = NONE
      /\ \A i \in Tables : d[i] # NONE => d[i] \in Free
      /\ \A f \in Pages : f \in NewPages(t) <=> f = s \/ \E i \in Tables : d[i] = f
  BY <1>0, ForkPages
<1>2. /\ mem_map' \in [Pages -> Nat] /\ MemMapCounts'
      /\ \A f \in Pages : f \notin Free /\ (\A a \in Addresses : pte[t][a] # f) => mem_map'[f] = mem_map[f]
  BY CopyCounts
<1>3. /\ status' = [status EXCEPT ![u] = "live"]
      /\ struct' = [struct EXCEPT ![u] = s]
      /\ executable' = [executable EXCEPT ![u] = executable[t]]
      /\ dir' = [dir EXCEPT ![u] = d]
      /\ dir_w' = [dir_w EXCEPT ![u] = [i \in Tables |-> i \in Present(t)]]
      /\ pte' = [pte EXCEPT ![u] = pte[t]]
      /\ pte_w' = [pte_w EXCEPT ![u] = [a \in Addresses |-> FALSE], ![t] = Protected(t)]
      /\ view' = [view EXCEPT ![u] = view[t]]
      /\ loading' = loading /\ wanted' = wanted /\ storing' = storing
      /\ data' = [f \in Pages \cup {LOW} |->
             IF f \notin NewPages(t) THEN data[f] ELSE IF f = Nth(1) THEN Zero ELSE PageTable]
  BY DEF CopyProcess, ChildDir, NewPages
<1>18. LOW \notin NewPages(t)
  BY <1>0, ForkPages
<1>4. \A f \in Free : f \in Pages /\ f # NONE
  BY FreeMappable
<1>5. \A f \in NewPages(t) : f \in Pages => f \in Free
  BY <1>1, Domains
<1> HIDE DEF d, s
<1>6. Protected(t) \in [Addresses -> BOOLEAN] /\ \A a \in Addresses : ~Protected(t)[a]
  <2>1. \A a \in Addresses : pte_w[t][a] => pte[t][a] \in Pages
    BY DEF MInv, Shape, Private
  <2>2. \A a \in Addresses : pte[t][a] \in Pages => Table(a) \in Copied(t)
    BY <1>0, Domains DEF MInv, Shape, Tabled, Present
  <2> QED
    BY <1>0, <2>1, <2>2, ProtectedTypes
<1>7. /\ \A v \in Tasks, b \in Addresses : pte'[v][b] = IF v = u THEN pte[t][b] ELSE pte[v][b]
      /\ \A v \in Tasks, i \in Tables : dir'[v][i] = IF v = u THEN d[i] ELSE dir[v][i]
      /\ \A v \in Tasks, b \in Addresses : view'[v][b] = IF v = u THEN view[t][b] ELSE view[v][b]
      /\ \A v \in Tasks : status'[v] = IF v = u THEN "live" ELSE status[v]
      /\ \A v \in Tasks : struct'[v] = IF v = u THEN s ELSE struct[v]
  BY <1>0, <1>3 DEF Types
<1>8. /\ pte_w' \in [Tasks -> [Addresses -> BOOLEAN]]
      /\ \A v \in Tasks : v \notin {t, u} => pte_w'[v] = pte_w[v]
      /\ \A a \in Addresses : ~pte_w'[t][a] /\ ~pte_w'[u][a]
  BY <1>0, <1>3, <1>6 DEF Types
<1>9. Types'
  <2>1. data' \in [Pages \cup {LOW} -> Contents]
    BY <1>0, <1>3 DEF Types, Contents
  <2>2. dir' \in [Tasks -> [Tables -> Pages \cup {NONE}]] /\ dir_w' \in [Tasks -> [Tables -> BOOLEAN]]
    BY <1>0, <1>1, <1>3 DEF Types
  <2>3. pte' \in [Tasks -> [Addresses -> Pages \cup {LOW, NONE}]] /\ view' \in [Tasks -> [Addresses -> Contents]]
    BY <1>0, <1>3 DEF Types
  <2>4. /\ status' \in [Tasks -> {"free", "live", "zombie"}] /\ struct' \in [Tasks -> Pages \cup {NONE}]
        /\ executable' \in [Tasks -> Executables \cup {NULL}]
    BY <1>0, <1>1, <1>3, <1>4 DEF Types
  <2> QED
    BY <1>0, <1>2, <1>3, <1>8, <2>1, <2>2, <2>3, <2>4 DEF Types
<1>10. Dead'
  <2>1. s # NONE
    BY <1>1, <1>4
  <2>2. \A v \in Tasks : struct'[v] = NONE <=> status'[v] = "free"
    BY <1>7, <2>1 DEF MInv, Shape, Dead
  <2>3. ASSUME NEW v \in Tasks, status'[v] # "live"
        PROVE  /\ \A b \in Addresses : pte'[v][b] = NONE
               /\ \A i \in Tables : dir'[v][i] = NONE
               /\ loading'[v] = NONE /\ storing'[v] = NONE
    BY <1>3, <1>7, <2>3 DEF MInv, Shape, Dead
  <2> QED
    BY <2>2, <2>3 DEF Dead
<1>11. Tabled'
  <2> SUFFICES ASSUME NEW v \in Tasks, NEW b \in Addresses, pte'[v][b] # NONE
               PROVE  dir'[v][Table(b)] # NONE
    BY DEF Tabled
  <2>1. Table(b) \in Tables
    BY Domains
  <2> QED
    BY <1>1, <1>7, <2>1 DEF MInv, Shape, Tabled
<1>12. Private'
  <2> SUFFICES ASSUME NEW v \in Tasks, NEW b \in Addresses, pte_w'[v][b]
               PROVE  pte'[v][b] \in Pages /\ mem_map'[pte'[v][b]] = 1
    BY DEF Private
  <2> DEFINE h == pte[v][b]
  <2>1. v \notin {t, u} /\ pte_w[v][b] /\ pte'[v][b] = h
    BY <1>7, <1>8
  <2>2. h \in Pages /\ mem_map[h] = 1
    BY <2>1 DEF MInv, Shape, Private
  <2>3. \A a \in Addresses : pte[t][a] # h
    BY <1>0, <2>1, <2>2, AloneUnused DEF MInv
  <2>4. h \notin Free
    BY <2>2 DEF Free
  <2> HIDE DEF h
  <2> QED
    BY <1>2, <2>1, <2>2, <2>3, <2>4
<1>13. Loading'
  <2> SUFFICES ASSUME NEW v \in Tasks, loading[v] # NONE
               PROVE  /\ wanted[v] \in Addresses /\ wanted[v] < DATA_PAGES /\ pte'[v][wanted[v]] = NONE
                      /\ mem_map'[loading[v]] = 1
    BY <1>3 DEF Loading
  <2> DEFINE h == loading[v]
  <2>1. /\ wanted[v] \in Addresses /\ wanted[v] < DATA_PAGES /\ pte[v][wanted[v]] = NONE
        /\ mem_map[h] = 1 /\ v # u
    BY DEF MInv, Shape, Loading, Dead
  <2>2. h \in Pages /\ \A a \in Addresses : pte[t][a] # h
    BY <1>0, <2>1, LoadingUnused DEF MInv
  <2>3. h \notin Free
    BY <2>1 DEF Free
  <2> HIDE DEF h
  <2>4. mem_map'[h] = 1
    BY <1>2, <2>1, <2>2, <2>3
  <2> QED
    BY <1>7, <2>1, <2>4 DEF h
<1>14. Storable'
  <2> SUFFICES ASSUME NEW v \in Tasks, storing[v] # NONE
               PROVE  \/ pte'[v][storing[v]] = NONE \/ pte_w'[v][storing[v]]
                      \/ storing[v] < DATA_PAGES /\ pte'[v][storing[v]] \in Pages
    BY <1>3 DEF Storable
  <2>1. v \notin {t, u} /\ storing[v] \in Addresses
    BY <1>0 DEF MInv, Shape, Dead, Types
  <2> QED
    BY <1>7, <1>8, <2>1 DEF MInv, Shape, Storable
<1>15. Separate'
  <2> SUFFICES ASSUME NEW v \in Tasks, NEW b \in Addresses, b >= DATA_PAGES, pte'[v][b] \in Pages
               PROVE  /\ \A x \in Tasks, c \in Addresses : pte'[x][c] = pte'[v][b] => c = b
                      /\ \A x \in Tasks, i \in Tables : dir'[x][i] # pte'[v][b]
                      /\ \A x \in Tasks : loading'[x] # pte'[v][b]
    BY DEF Separate
  <2>1. PICK y \in Tasks : pte'[v][b] = pte[y][b]
    BY <1>7
  <2>2. /\ \A x \in Tasks, c \in Addresses : pte[x][c] = pte[y][b] => c = b
        /\ \A x \in Tasks, i \in Tables : dir[x][i] # pte[y][b]
        /\ \A x \in Tasks : loading[x] # pte[y][b]
    BY <2>1 DEF MInv, Shape, Separate
  <2>3. \A i \in Tables : d[i] # pte[y][b]
    <3>1. \A f \in Free : pte[y][b] # f
      BY FreeMappable
    <3>2. pte[y][b] # NONE
      BY <2>1, Domains
    <3> QED
      BY <1>1, <3>1, <3>2
  <2> QED
    BY <1>3, <1>7, <2>1, <2>2, <2>3
<1>16. Untouched'
  BY <1>7 DEF MInv, Shape, Untouched
<1>17. Isolation'
  <2> SUFFICES ASSUME NEW v \in Tasks, NEW b \in Addresses, pte'[v][b] # NONE, b >= DATA_PAGES
               PROVE  data'[pte'[v][b]] = view'[v][b]
    BY DEF Isolation
  <2>1. PICK y \in Tasks : pte'[v][b] = pte[y][b] /\ view'[v][b] = view[y][b]
    BY <1>7
  <2>2. pte[y][b] \in Pages \cup {LOW} /\ data[pte[y][b]] = view[y][b]
    BY <1>0, <2>1 DEF Types, MInv, Isolation
  <2>3. \A f \in Free : pte[y][b] # f
    BY FreeMappable
  <2>4. data'[pte[y][b]] = data[pte[y][b]]
    <3>1. CASE pte[y][b] \in Pages
      BY <1>3, <1>5, <2>3, <3>1
    <3>2. CASE pte[y][b] = LOW
      <4>1. LOW \notin NewPages(t)
        BY <1>18
      <4> QED
        BY <1>3, <3>2, <4>1
    <3> QED
      BY <2>2, <3>1, <3>2
  <2> QED
    BY <2>1, <2>2, <2>4
<1> QED
  BY <1>2, <1>9, <1>10, <1>11, <1>12, <1>13, <1>14, <1>15, <1>16, <1>17 DEF MInv, Shape

-----------------------------------------------------------------------------
(* Init's tables take the pages below that of its task_struct.               *)
LEMMA InitMInv == Init => MInv
<1> SUFFICES ASSUME Init PROVE MInv
  OBVIOUS
<1> DEFINE B == NR_PAGES - NR_TABLES
<1>1. NR_PAGES \in Nat \ {0} /\ NR_TABLES \in Nat /\ B \in 1..NR_PAGES /\ 1 \in Tasks
  BY MemoryAssumption DEF Tasks
<1>2. /\ mem_map = [f \in Pages |-> IF f >= B THEN 1 ELSE 0]
      /\ status = [t \in Tasks |-> IF t = 1 THEN "live" ELSE "free"]
      /\ struct = [t \in Tasks |-> IF t = 1 THEN NR_PAGES ELSE NONE]
      /\ dir = [t \in Tasks |-> [i \in Tables |-> IF t = 1 THEN NR_PAGES - (i + 1) ELSE NONE]]
      /\ pte = [t \in Tasks |-> [a \in Addresses |-> IF t = 1 THEN LOW ELSE NONE]]
      /\ pte_w = [t \in Tasks |-> [a \in Addresses |-> FALSE]]
      /\ loading = [t \in Tasks |-> NONE]
      /\ wanted = [t \in Tasks |-> NONE]
      /\ storing = [t \in Tasks |-> NONE]
      /\ view = [t \in Tasks |-> [a \in Addresses |-> IF t = 1 THEN Kernel ELSE Zero]]
      /\ data \in [Pages \cup {LOW} -> Contents] /\ data[LOW] = Kernel
      /\ executable = [t \in Tasks |-> NULL]
      /\ dir_w = [t \in Tasks |-> [i \in Tables |-> t = 1]]
  BY DEF Init, Contents
<1>3. \A i \in Tables : NR_PAGES - (i + 1) \in Pages /\ NR_PAGES - (i + 1) # NR_PAGES
  BY MemoryAssumption DEF Tables, Pages
<1>4. NR_PAGES \in Pages
  BY <1>1 DEF Pages
<1>5. \A f \in Pages : mem_map[f] = IF f >= B THEN 1 ELSE 0
  BY <1>2
<1>6. \A t \in Tasks, i \in Tables : dir[t][i] = IF t = 1 THEN NR_PAGES - (i + 1) ELSE NONE
  BY <1>2
<1>7. \A t \in Tasks, a \in Addresses : pte[t][a] = IF t = 1 THEN LOW ELSE NONE
  BY <1>2
<1>8. Types
  <2>1. dir \in [Tasks -> [Tables -> Pages \cup {NONE}]] /\ dir_w \in [Tasks -> [Tables -> BOOLEAN]]
    BY <1>2, <1>3
  <2>2. mem_map \in [Pages -> Nat] /\ struct \in [Tasks -> Pages \cup {NONE}]
    BY <1>2, <1>4
  <2>3. pte \in [Tasks -> [Addresses -> Pages \cup {LOW, NONE}]] /\ pte_w \in [Tasks -> [Addresses -> BOOLEAN]]
    BY <1>2
  <2>4. view \in [Tasks -> [Addresses -> Contents]]
    BY <1>2 DEF Contents
  <2> QED
    BY <1>2, <2>1, <2>2, <2>3, <2>4 DEF Types
<1>9. MemMapCounts
  <2>1. ASSUME NEW f \in Pages PROVE mem_map[f] = PteUses(f) + DirUses(f) + StructUses(f) + LoadUses(f)
    <3>1. PteUses(f) = 0
      <4>1. Places(pte, Tasks, Addresses, f) = {}
        <5>1. \A x \in Tasks \X Addresses : pte[x[1]][x[2]] # f
          BY <1>7, Domains
        <5> QED
          BY <5>1 DEF Places
      <4> QED
        BY <4>1, FS_EmptySet DEF PteUses
    <3>2. LoadUses(f) = 0
      <4>1. {t \in Tasks : loading[t] = f} = {}
        BY <1>2, Domains
      <4> QED
        BY <4>1, FS_EmptySet DEF LoadUses
    <3>3. StructUses(f) = IF f = NR_PAGES THEN 1 ELSE 0
      <4>1. {t \in Tasks : struct[t] = f} = IF f = NR_PAGES THEN {1} ELSE {}
        BY <1>1, <1>2, Domains
      <4> QED
        BY <4>1, FS_EmptySet, FS_Singleton DEF StructUses
    <3>4. DirUses(f) = IF f >= B /\ f # NR_PAGES THEN 1 ELSE 0
      <4> DEFINE j == NR_PAGES - f - 1
                 S == Places(dir, Tasks, Tables, f)
      <4>0. f \in Int /\ f <= NR_PAGES /\ f >= 1
        BY <1>1 DEF Pages
      <4>1. \A x \in Tasks \X Tables : x \in S <=> x[1] = 1 /\ NR_PAGES - (x[2] + 1) = f
        BY <1>6, Domains DEF Places
      <4>2. CASE f >= B /\ f # NR_PAGES
        <5>1. j \in Tables
          BY <1>1, <4>0, <4>2 DEF Tables
        <5>2. \A i \in Tables : NR_PAGES - (i + 1) = f <=> i = j
          BY <1>1, <4>0, Domains
        <5> HIDE DEF j
        <5>3. S = {<<1, j>>}
          <6>1. \A x \in Tasks \X Tables : x \in S <=> x = <<1, j>>
            BY <4>1, <5>1, <5>2
          <6>2. S \in SUBSET (Tasks \X Tables) /\ <<1, j>> \in Tasks \X Tables
            BY <1>1, <5>1 DEF Places
          <6> HIDE DEF S
          <6> QED
            BY <6>1, <6>2
        <5> QED
          BY <4>2, <5>3, FS_Singleton DEF DirUses
      <4>3. CASE ~(f >= B /\ f # NR_PAGES)
        <5>1. \A i \in Tables : NR_PAGES - (i + 1) # f
          BY <1>1, <4>0, <4>3 DEF Tables
        <5>2. S = {}
          BY <4>1, <5>1 DEF Places
        <5> QED
          BY <4>3, <5>2, FS_EmptySet DEF DirUses
      <4> QED
        BY <4>2, <4>3
    <3>5. mem_map[f] = IF f >= B THEN 1 ELSE 0
      BY <1>5
    <3>6. f = NR_PAGES => f >= B
      BY <1>1
    <3> HIDE DEF B
    <3> QED
      BY <3>1, <3>2, <3>3, <3>4, <3>5, <3>6
  <2> QED
    BY <2>1, CountsAreUses
<1>10. Dead
  <2>1. NR_PAGES # NONE
    BY <1>4, Domains
  <2> QED
    BY <1>2, <1>6, <1>7, <2>1 DEF Dead
<1>11. Tabled
  <2>1. \A i \in Tables : dir[1][i] # NONE
    BY <1>1, <1>3, <1>6, Domains
  <2> QED
    BY <1>7, <2>1, Domains DEF Tabled
<1>12. Private /\ Loading /\ Storable
  BY <1>2 DEF Private, Loading, Storable
<1>13. Separate
  BY <1>7, Domains DEF Separate
<1>14. Untouched /\ Isolation
  BY <1>2, Domains DEF Untouched, Isolation
<1> QED
  BY <1>8, <1>9, <1>10, <1>11, <1>12, <1>13, <1>14 DEF MInv, Shape

(* Every step keeps the first part of the invariant ...                      *)
LEMMA StepMInv == MInv /\ Executing /\ [Next]_vars => MInv'
<1> SUFFICES ASSUME MInv, Executing, [Next]_vars PROVE MInv'
  OBVIOUS
<1>1. ASSUME NEW t \in Tasks, fork(t) PROVE MInv'
  <2>1. PICK u \in Tasks : status[u] = "free" /\ (CopyProcess(t, u) \/ ForkFails(t))
    BY <1>1 DEF fork
  <2>2. User(t) /\ Free # {}
    BY <1>1 DEF fork
  <2> QED
    BY <2>1, <2>2, CopyKeeps, ForkFailsKeeps
<1>2. ASSUME NEW t \in Tasks, do_exit(t) PROVE MInv'
  BY <1>2, DieKeeps DEF do_exit, User
<1>3. ASSUME NEW t \in Tasks, release(t) PROVE MInv'
  BY <1>3, ReleaseKeeps
<1>4. ASSUME NEW t \in Tasks, put_fs_byte(t) PROVE MInv'
  <2> DEFINE a == storing[t]
  <2>1. a # NONE /\ pte[t][a] # NONE /\ a \in Addresses
    BY <1>4 DEF put_fs_byte, MInv, Types
  <2>2. pte_w[t][a] \/ (a < DATA_PAGES /\ pte[t][a] \in Pages)
    BY <2>1 DEF MInv, Shape, Storable
  <2>3. /\ data' = [data EXCEPT ![pte[t][a]] = Written(t)]
        /\ view' = [view EXCEPT ![t][a] = Written(t)]
        /\ storing' = [storing EXCEPT ![t] = NONE]
        /\ UNCHANGED <<mem_map, status, struct, executable, dir, dir_w, pte, pte_w, loading, wanted>>
    BY <1>4 DEF put_fs_byte
  <2> HIDE DEF a
  <2> QED
    BY <2>1, <2>2, <2>3, StoreKeeps
<1>5. ASSUME NEW t \in Tasks, LoadDone(t) PROVE MInv'
  BY <1>5, LoadDoneKeeps
<1>6. ASSUME NEW t \in Tasks, NEW e \in Executables, do_execve(t, e) PROVE MInv'
  BY <1>6, ExecveKeeps
<1>7. ASSUME NEW t \in Tasks, NEW a \in Addresses, Write(t, a) PROVE MInv'
  <2>1. /\ pte_w[t][a]
        /\ data' = [data EXCEPT ![pte[t][a]] = Written(t)]
        /\ view' = [view EXCEPT ![t][a] = Written(t)]
        /\ storing' = storing
        /\ UNCHANGED <<mem_map, status, struct, executable, dir, dir_w, pte, pte_w, loading, wanted>>
    BY <1>7 DEF Write, Writable
  <2> QED
    BY <2>1, StoreKeeps
<1>8. ASSUME NEW t \in Tasks, NEW a \in Addresses, do_wp_page(t, a) PROVE MInv'
  <2>1. status[t] = "live" /\ loading[t] = NONE /\ pte[t][a] # NONE /\ un_wp_page(t, a, NONE)
    BY <1>8 DEF do_wp_page, User
  <2> QED
    BY <2>1, UnWpKeeps
<1>9. ASSUME NEW t \in Tasks, NEW a \in Addresses, do_no_page(t, a) PROVE MInv'
  <2>1. status[t] = "live" /\ loading[t] = NONE /\ pte[t][a] = NONE
    BY <1>9 DEF do_no_page, User, Awake
  <2>2. CASE (executable[t] = NULL \/ a >= DATA_PAGES) /\ get_empty_page(t, a)
    BY <2>1, <2>2, EmptyPageKeeps
  <2>3. CASE a < DATA_PAGES /\ share_page(t, a)
    <3>1. PICK p \in Sharers(t, a) : try_to_share(t, a, p)
      BY <2>3 DEF share_page
    <3> QED
      BY <2>1, <2>3, <3>1, ShareKeeps
  <2>4. CASE a < DATA_PAGES /\ StartLoad(t, a)
    BY <2>1, <2>4, StartLoadKeeps
  <2> QED
    BY <1>9, <2>2, <2>3, <2>4 DEF do_no_page
<1>10. ASSUME NEW t \in Tasks, NEW a \in Addresses, verify_area(t, a) PROVE MInv'
  <2>0. User(t) /\ status[t] = "live" /\ loading[t] = NONE
    BY <1>10 DEF verify_area, User
  <2>1. CASE pte[t][a] # NONE /\ un_wp_page(t, a, a)
    BY <2>0, <2>1, UnWpKeeps
  <2>2. CASE /\ pte[t][a] = NONE \/ pte_w[t][a]
             /\ storing' = [storing EXCEPT ![t] = a]
             /\ UNCHANGED <<mem_map, data, status, struct, executable, dir, dir_w, pte, pte_w,
                            loading, wanted, view>>
    <3>1. mem_map' = mem_map /\ data' = data /\ status' = status /\ struct' = struct /\ executable' = executable
          /\ dir' = dir /\ dir_w' = dir_w /\ pte' = pte /\ pte_w' = pte_w /\ loading' = loading
          /\ wanted' = wanted /\ view' = view
      BY <2>2
    <3>2. /\ storing' \in [Tasks -> Addresses \cup {NONE}]
          /\ \A u \in Tasks : storing'[u] = IF u = t THEN a ELSE storing[u]
      BY <2>2 DEF MInv, Types
    <3>3. Types'
      BY <3>1, <3>2 DEF MInv, Types
    <3>4. MemMapCounts'
      BY <3>1 DEF MInv, MemMapCounts
    <3>5. Dead'
      BY <2>0, <3>1, <3>2 DEF MInv, Shape, Dead
    <3>6. Storable'
      BY <2>2, <3>1, <3>2 DEF MInv, Shape, Storable
    <3>7. Tabled' /\ Private' /\ Loading' /\ Separate' /\ Untouched' /\ Isolation'
      BY <3>1 DEF MInv, Shape, Tabled, Private, Loading, Separate, Untouched, Isolation
    <3> QED
      BY <3>3, <3>4, <3>5, <3>6, <3>7 DEF MInv, Shape
  <2> QED
    BY <1>10, <2>1, <2>2 DEF verify_area, write_verify
<1>11. CASE UNCHANGED vars
  <2>1. mem_map' = mem_map /\ data' = data /\ status' = status /\ struct' = struct /\ executable' = executable
        /\ dir' = dir /\ dir_w' = dir_w /\ pte' = pte /\ pte_w' = pte_w /\ loading' = loading
        /\ wanted' = wanted /\ storing' = storing /\ view' = view
    BY <1>11 DEF vars
  <2>2. Types'
    BY <2>1 DEF MInv, Types
  <2>3. MemMapCounts'
    BY <2>1 DEF MInv, MemMapCounts
  <2> QED
    BY <2>1, <2>2, <2>3 DEF MInv, Shape, Dead, Tabled, Private, Loading, Storable, Separate, Untouched, Isolation
<1>12. ASSUME NEW t \in Tasks, ExecTables(t) PROVE MInv'
  BY <1>12, ExecTablesKeeps
<1>13. Used \in SUBSET Addresses /\ Stored \in SUBSET Addresses
  BY MemoryAssumption
<1> QED
  BY <1>1, <1>2, <1>3, <1>4, <1>5, <1>6, <1>7, <1>8, <1>9, <1>10, <1>11, <1>12, <1>13 DEF Next, Step

(* A step of task t, which is not in do_execve, that leaves alone what the   *)
(* other live tasks are doing.                                               *)
Apart(t) ==
  /\ exec' = exec /\ ~exec[t]
  /\ \A v \in Tasks : v # t /\ status[v] = "live" =>
       status'[v] = "live" /\ loading'[v] = loading[v] /\ storing'[v] = storing[v]

(* Such a step keeps who is in do_execve.                                    *)
LEMMA ApartKeeps ==
  ASSUME Executing, NEW t \in Tasks, Apart(t)
  PROVE  Executing'
  BY DEF Executing, Apart

(* The counts that a step does not raise, and those of new pages, fit.       *)
LEMMA FitsNext ==
  ASSUME MInv, MInv', Bytes, ~fault, fault' = fault,
         \A f \in Pages : mem_map'[f] <= mem_map[f] \/ mem_map'[f] = 1
  PROVE  Bytes'
<1>1. MAX_COUNT \in Nat \ {0}
  BY MemoryAssumption
<1>2. mem_map \in [Pages -> Nat] /\ mem_map' \in [Pages -> Nat]
  BY DEF MInv, Types
<1>3. ASSUME NEW f \in Pages PROVE mem_map'[f] <= MAX_COUNT
  <2>1. mem_map[f] <= MAX_COUNT /\ mem_map[f] \in Nat /\ mem_map'[f] \in Nat
    BY <1>2 DEF Bytes, Fits
  <2> QED
    BY <1>1, <2>1
<1> QED
  BY <1>3 DEF Bytes, Fits

(* do_exit, oom: the task that dies is not in do_execve.                     *)
LEMMA DieApart ==
  ASSUME MInv, NEW t \in Tasks, ~exec[t], NEW m, Die(t, m)
  PROVE  Apart(t) /\ fault' = fault
  BY DEF Die, others, Apart, MInv, Types

(* un_wp_page, ...                                                           *)
LEMMA UnWpRest ==
  ASSUME MInv, MInv', Executing, Bytes, ~fault, NEW t \in Tasks, NEW a \in Addresses, NEW s,
         ~exec[t], status[t] = "live", loading[t] = NONE, un_wp_page(t, a, s)
  PROVE  Executing' /\ Bytes'
<1> DEFINE old == pte[t][a]
           new == Nth(1)
<1>0. mem_map \in [Pages -> Nat]
  BY DEF MInv, Types
<1>1. CASE oom(t)
  BY <1>1, DieKeeps, DieApart, ApartKeeps, FitsNext DEF oom
<1>2. CASE /\ \/ mem_map' = mem_map
              \/ mem_map' = [f \in Pages |-> IF f = new THEN 1
                                       ELSE IF f = old THEN mem_map[f] - 1 ELSE mem_map[f]]
           /\ storing' = [storing EXCEPT ![t] = s]
           /\ UNCHANGED <<status, loading, others>>
  <2>1. Apart(t) /\ fault' = fault
    BY <1>2 DEF Apart, others, MInv, Types
  <2> HIDE DEF old, new
  <2>2. \A f \in Pages : mem_map'[f] <= mem_map[f] \/ mem_map'[f] = 1
    BY <1>0, <1>2
  <2> QED
    BY <2>1, <2>2, ApartKeeps, FitsNext
<1> QED
  BY <1>1, <1>2 DEF un_wp_page

(* ... do_no_page, ...                                                       *)
LEMMA NoPageRest ==
  ASSUME MInv, MInv', Executing, Bytes, ~fault, NEW t \in Tasks, NEW a \in Addresses, do_no_page(t, a)
  PROVE  Executing' /\ Bytes'
<1>0. mem_map \in [Pages -> Nat]
  BY DEF MInv, Types
<1>1. ~exec[t] /\ status[t] = "live" /\ loading[t] = NONE
  BY Domains DEF do_no_page, User, Awake, Executing
<1>2. CASE oom(t)
  BY <1>1, <1>2, DieKeeps, DieApart, ApartKeeps, FitsNext DEF oom
<1>3. UNCHANGED <<status, loading, storing, exec>> => Executing'
  BY <1>1, ApartKeeps DEF Apart
<1>4. CASE StartLoad(t, a) /\ ~oom(t)
  <2> DEFINE g == Nth(1)
  <2>1. mem_map' = [mem_map EXCEPT ![g] = 1] /\ fault' = fault
    BY <1>4 DEF StartLoad, others
  <2>2. Apart(t)
    BY <1>1, <1>4 DEF StartLoad, Apart, others, MInv, Types
  <2> HIDE DEF g
  <2>3. \A f \in Pages : mem_map'[f] <= mem_map[f] \/ mem_map'[f] = 1
    BY <1>0, <2>1
  <2> QED
    BY <2>1, <2>2, <2>3, ApartKeeps, FitsNext
<1>5. CASE get_empty_page(t, a) /\ ~oom(t)
  <2> DEFINE N == {Nth(n) : n \in 1..(IF HasTable(t, a) THEN 1 ELSE 2)}
  <2>1. /\ mem_map' = [f \in Pages |-> IF f \in N THEN 1 ELSE mem_map[f]]
        /\ UNCHANGED <<status, loading, storing, exec, fault>>
    BY <1>5 DEF get_empty_page, others
  <2> HIDE DEF N
  <2>2. \A f \in Pages : mem_map'[f] <= mem_map[f] \/ mem_map'[f] = 1
    BY <1>0, <2>1
  <2> QED
    BY <1>3, <2>1, <2>2, FitsNext
<1>6. CASE share_page(t, a) /\ ~oom(t)
  <2>1. fault' = ~Fits(mem_map') /\ UNCHANGED <<status, loading, storing, exec>>
    BY <1>6 DEF share_page, try_to_share
  <2> QED
    BY <1>3, <2>1 DEF Bytes, Fits
<1> QED
  BY <1>2, <1>4, <1>5, <1>6 DEF do_no_page

(* ... and every other step keep the rest of it.                             *)
LEMMA StepRest == MemInv /\ [Next]_vars => Executing' /\ Bytes'
<1> SUFFICES ASSUME MInv, Executing, Bytes, [Next]_vars PROVE Executing' /\ Bytes'
  BY DEF MemInv
<1>0. MInv' /\ mem_map \in [Pages -> Nat]
  BY StepMInv DEF MInv, Types
<1>1. CASE UNCHANGED vars
  BY <1>1 DEF vars, Executing, Bytes, Fits
<1>2. ASSUME ~fault, NEW t \in Tasks, Step(t) PROVE Executing' /\ Bytes'
  <2>1. CASE fork(t)
    <3>1. PICK u \in Tasks : status[u] = "free" /\ (CopyProcess(t, u) \/ ForkFails(t))
      BY <2>1 DEF fork
    <3>2. User(t) /\ ~exec[t] /\ t # u
      BY <2>1, <3>1 DEF fork, User
    <3>3. CASE CopyProcess(t, u)
      <4>1. fault' = ~Fits(mem_map') /\ exec' = exec /\ loading' = loading /\ storing' = storing
            /\ status' = [status EXCEPT ![u] = "live"]
        BY <3>3 DEF CopyProcess
      <4>2. Apart(t)
        BY <3>1, <3>2, <4>1 DEF Apart, MInv, Types
      <4> QED
        BY <4>1, <4>2, ApartKeeps DEF Bytes, Fits
    <3>4. CASE ForkFails(t)
      <4>1. fault' = ~Fits(Shared(t)) /\ UNCHANGED <<mem_map, exec, loading, storing, status>>
        BY <3>4 DEF ForkFails
      <4> QED
        BY <1>2, <4>1 DEF Executing, Bytes, Fits
    <3> QED
      BY <3>1, <3>3, <3>4
  <2>2. CASE do_exit(t)
    BY <1>0, <1>2, <2>2, DieKeeps, DieApart, ApartKeeps, FitsNext DEF do_exit, User
  <2>3. CASE release(t)
    <3>1. Apart(t) /\ fault' = fault
      BY <2>3 DEF release, Apart, others, Executing, MInv, Types
    <3>2. \A f \in Pages : mem_map'[f] <= mem_map[f] \/ mem_map'[f] = 1
      BY <1>0, <2>3 DEF release, free_page
    <3> QED
      BY <1>0, <1>2, <3>1, <3>2, ApartKeeps, FitsNext
  <2>4. CASE put_fs_byte(t)
    <3>1. fault' \in BOOLEAN /\ mem_map' = mem_map
      BY <2>4 DEF put_fs_byte, IsTable
    <3>2. Apart(t)
      BY <2>4 DEF put_fs_byte, Apart, Executing, MInv, Types
    <3> QED
      BY <1>2, <3>1, <3>2, ApartKeeps DEF Bytes, Fits
  <2>5. CASE LoadDone(t)
    <3>0. ~exec[t] /\ loading[t] # NONE
      BY <2>5 DEF LoadDone, Executing
    <3>1. CASE Die(t, free_page(mem_map, loading[t]))
      BY <1>0, <1>2, <3>0, <3>1, DieLoadedKeeps, DieApart, ApartKeeps, FitsNext
    <3>2. CASE ~Die(t, free_page(mem_map, loading[t]))
      <4> DEFINE g == Nth(1)
      <4>1. /\ mem_map' = mem_map \/ mem_map' = [mem_map EXCEPT ![g] = 1]
            /\ loading' = [loading EXCEPT ![t] = NONE]
            /\ UNCHANGED <<status, storing, others>>
        BY <2>5, <3>2 DEF LoadDone
      <4>2. Apart(t) /\ fault' = fault
        BY <3>0, <4>1 DEF Apart, others, MInv, Types
      <4> HIDE DEF g
      <4>3. \A f \in Pages : mem_map'[f] <= mem_map[f] \/ mem_map'[f] = 1
        BY <1>0, <4>1
      <4> QED
        BY <1>0, <1>2, <4>2, <4>3, ApartKeeps, FitsNext
    <3> QED
      BY <3>1, <3>2
  <2>6. CASE ExecTables(t)
    <3>1. /\ exec' = [exec EXCEPT ![t] = FALSE] /\ fault' = fault
          /\ status' = status /\ loading' = loading
          /\ \E s \in {NONE, DATA_PAGES - 1} : storing' = [storing EXCEPT ![t] = s]
      BY <2>6 DEF ExecTables
    <3>2. Executing'
      BY <3>1 DEF Executing, MInv, Types
    <3> QED
      BY <1>0, <1>2, <2>6, <3>1, <3>2, ExecTablesKeeps, FitsNext
  <2>7. ASSUME NEW e \in Executables, do_execve(t, e) PROVE Executing' /\ Bytes'
    <3>1. /\ exec' = [exec EXCEPT ![t] = TRUE] /\ User(t)
          /\ UNCHANGED <<mem_map, status, loading, storing, fault>>
      BY <2>7 DEF do_execve
    <3> QED
      BY <3>1 DEF Executing, User, Bytes, Fits
  <2>8. ASSUME NEW a \in Addresses, Write(t, a) PROVE Executing' /\ Bytes'
    BY <2>8 DEF Write, others, Executing, Bytes, Fits
  <2>9. ASSUME NEW a \in Addresses, do_wp_page(t, a) PROVE Executing' /\ Bytes'
    BY <1>0, <1>2, <2>9, UnWpRest DEF do_wp_page, User
  <2>10. ASSUME NEW a \in Addresses, do_no_page(t, a) PROVE Executing' /\ Bytes'
    BY <1>0, <1>2, <2>10, NoPageRest
  <2>11. ASSUME NEW a \in Addresses, verify_area(t, a) PROVE Executing' /\ Bytes'
    <3>0. User(t) /\ ~exec[t] /\ status[t] = "live" /\ loading[t] = NONE
      BY <2>11 DEF verify_area, User
    <3>1. CASE un_wp_page(t, a, a)
      BY <1>0, <1>2, <3>0, <3>1, UnWpRest
    <3>2. CASE /\ storing' = [storing EXCEPT ![t] = a]
               /\ UNCHANGED <<mem_map, status, loading, others>>
      <4>1. Apart(t)
        BY <3>0, <3>2 DEF Apart, others, MInv, Types
      <4> QED
        BY <3>2, <4>1, ApartKeeps DEF Bytes, Fits, others
    <3> QED
      BY <2>11, <3>1, <3>2 DEF verify_area, write_verify
  <2>12. Used \in SUBSET Addresses /\ Stored \in SUBSET Addresses
    BY MemoryAssumption
  <2> QED
    BY <1>2, <2>1, <2>2, <2>3, <2>4, <2>5, <2>6, <2>7, <2>8, <2>9, <2>10, <2>11, <2>12 DEF Step
<1> QED
  BY <1>1, <1>2 DEF Next

-----------------------------------------------------------------------------
(* At first no task is in do_execve and no count is above 1.                 *)
LEMMA InitRest == Init => Executing /\ Bytes
<1> SUFFICES ASSUME Init PROVE Executing /\ Bytes
  OBVIOUS
<1>1. mem_map = [f \in Pages |-> IF f >= NR_PAGES - NR_TABLES THEN 1 ELSE 0]
      /\ exec = [t \in Tasks |-> FALSE] /\ fault = FALSE
  BY DEF Init
<1>2. MAX_COUNT \in Nat \ {0}
  BY MemoryAssumption
<1>3. Executing
  BY <1>1 DEF Executing
<1>4. \A f \in Pages : mem_map[f] \in {0, 1}
  BY <1>1
<1>5. \A f \in Pages : mem_map[f] <= MAX_COUNT
  BY <1>2, <1>4
<1>6. fault \in BOOLEAN
  BY <1>1
<1> QED
  BY <1>3, <1>5, <1>6 DEF Bytes, Fits

(* The inductive invariant holds in every reachable state.                   *)
THEOREM MemoryInv == Spec => []MemInv
<1>1. Init => MemInv
  BY InitMInv, InitRest DEF MemInv
<1>2. MemInv /\ [Next]_vars => MemInv'
  BY StepMInv, StepRest DEF MemInv
<1> QED
  BY <1>1, <1>2, PTL DEF Spec

(* Every variable stays within its type, and until the model stops every     *)
(* count within its byte: none goes below zero, none wraps unseen.           *)
THEOREM MemoryTypeOK == Spec => []TypeOK
<1>1. MemInv => TypeOK
  BY DEF MemInv, MInv, Types, Executing, Bytes, TypeOK
<1> QED
  BY <1>1, MemoryInv, PTL

(* mem_map counts the uses of every page, whatever ran out of memory half way  *)
(* (copy_page_tables, free_page_tables, do_no_page, put_page).               *)
THEOREM MemoryCounts == Spec => []MemMapCounts
<1>1. MemInv => MemMapCounts
  BY DEF MemInv, MInv
<1> QED
  BY <1>1, MemoryInv, PTL

(* Copy on write (copy_page_tables, un_wp_page): what a task may store to is   *)
(* mapped nowhere else, for the bit in the page table is set only on a page    *)
(* of count one, and the directory's can only take it away.                  *)
THEOREM MemoryWritableIsPrivate == Spec => []WritableIsPrivate
<1>1. MemInv => WritableIsPrivate
  <2> SUFFICES ASSUME MInv, NEW t \in Tasks, NEW a \in Addresses, pte_w[t][a]
               PROVE  /\ pte[t][a] # LOW
                      /\ \A u \in Tasks, b \in Addresses : pte[u][b] = pte[t][a] => u = t /\ b = a
    BY DEF MemInv, WritableIsPrivate, Writable
  <2>1. pte[t][a] \in Pages /\ mem_map[pte[t][a]] = 1
    BY DEF MInv, Shape, Private
  <2> QED
    BY <2>1, AloneUnused, Domains DEF MInv
<1> QED
  BY <1>1, MemoryInv, PTL

(* No task finds beyond its executable what another one has stored, although   *)
(* try_to_share maps page tables and verify_area is not repeated after a       *)
(* sleep.                                                                    *)
THEOREM MemoryIsolation == Spec => []Isolation
<1>1. MemInv => Isolation
  BY DEF MemInv, MInv
<1> QED
  BY <1>1, MemoryInv, PTL
=============================================================================
