----------------------------- MODULE SetLemmas -----------------------------
(***************************************************************************)
(* Lemmas about numbers, finite sets and sequences that the proofs of       *)
(* several components rest on: what the loops over the tables of the kernel *)
(* find (the first or last entry of a set), and what counting and inserting *)
(* does.                                                                    *)
(***************************************************************************)
EXTENDS Integers, Sequences, SequencesExt, FiniteSetsExt, FiniteSetTheorems,
        SequenceTheorems, TLAPS

(* A set of naturals has a least element.                                   *)
LEMMA LeastNat ==
  ASSUME NEW T \in SUBSET Nat, T # {}
  PROVE  \E x \in T : \A y \in T : x <= y
<1> DEFINE R == {p \in Nat \X Nat : p[1] < p[2]}
<1>1. OpToRel(<, Nat) = R
  BY DEF OpToRel
<1>2. IsWellFoundedOn(R, Nat)
  BY <1>1, NatLessThanWellFounded
<1> HIDE DEF R
<1>3. PICK x \in T : \A y \in T : ~(<<y, x>> \in R)
  BY <1>2, WFMin
<1>4. ASSUME NEW y \in T PROVE x <= y
  <2>1. ~(<<y, x>> \in R)
    BY <1>3
  <2>2. x \in Nat /\ y \in Nat
    OBVIOUS
  <2> QED
    BY <2>1, <2>2 DEF R
<1> QED
  BY <1>3, <1>4

(* Min of FiniteSetsExt, the entry a loop that counts up stops at.           *)
LEMMA MinOfNats ==
  ASSUME NEW T \in SUBSET Nat, T # {}
  PROVE  Min(T) \in T /\ \A y \in T : Min(T) <= y
  BY LeastNat DEF Min

(* A bounded set of integers has a greatest element, ...                    *)
LEMMA GreatestInt ==
  ASSUME NEW S \in SUBSET Int, NEW n \in Int, \A x \in S : x <= n, S # {}
  PROVE  \E x \in S : \A y \in S : y <= x
<1> DEFINE T == {m \in Nat : \E x \in S : m = n - x}
<1>1. T \in SUBSET Nat /\ T # {}
  <2>1. PICK x \in S : TRUE
    OBVIOUS
  <2>2. n - x \in Nat
    OBVIOUS
  <2> QED
    BY <2>1, <2>2
<1> HIDE DEF T
<1>2. PICK m \in T : \A y \in T : m <= y
  BY <1>1, LeastNat
<1>3. PICK x \in S : m = n - x
  BY <1>2 DEF T
<1>4. ASSUME NEW y \in S PROVE y <= x
  <2>1. n - y \in T
    BY DEF T
  <2> QED
    BY <1>3, <2>1, <1>2
<1> QED
  BY <1>4

(* ... which is its Max, the entry a loop that counts down stops at.         *)
LEMMA MaxOfInts ==
  ASSUME NEW S \in SUBSET Int, NEW n \in Int, \A x \in S : x <= n, S # {}
  PROVE  Max(S) \in S /\ \A y \in S : Max(S) >= y
<1>1. \E x \in S : \A y \in S : x >= y
  BY GreatestInt
<1> QED
  BY <1>1 DEF Max

(* What putting x into a finite set, or taking it out, does to its size.     *)
LEMMA CardinalityStep ==
  ASSUME NEW S, IsFiniteSet(S), NEW x
  PROVE  /\ IsFiniteSet(S \cup {x}) /\ IsFiniteSet(S \ {x}) /\ Cardinality(S) \in Nat
         /\ Cardinality(S \cup {x}) = Cardinality(S) + 1 - (IF x \in S THEN 1 ELSE 0)
         /\ Cardinality(S \ {x}) = Cardinality(S) - (IF x \in S THEN 1 ELSE 0)
<1>1. Cardinality(S) \in Nat
  BY FS_CardinalityType
<1> QED
  BY <1>1, FS_AddElement, FS_RemoveElement

(* What an insertion into a sequence gives.                                 *)
LEMMA InsertAtProperties ==
  ASSUME NEW S, NEW q \in Seq(S), NEW i \in 1..(Len(q) + 1), NEW e \in S
  PROVE  /\ InsertAt(q, i, e) \in Seq(S) /\ Len(InsertAt(q, i, e)) = Len(q) + 1
         /\ \A j \in 1..(Len(q) + 1) :
              InsertAt(q, i, e)[j] = IF j < i THEN q[j] ELSE IF j = i THEN e ELSE q[j - 1]
<1> DEFINE a == SubSeq(q, 1, i - 1)
           b == SubSeq(q, i, Len(q))
           c == a \o <<e>>
<1>0. Len(q) \in Nat /\ i \in Int
  OBVIOUS
<1>1. a \in Seq(S) /\ Len(a) = i - 1 /\ \A j \in 1..(i - 1) : a[j] = q[j]
  OBVIOUS
<1>2. b \in Seq(S) /\ Len(b) = Len(q) + 1 - i /\ \A j \in 1..(Len(q) + 1 - i) : b[j] = q[i + j - 1]
  OBVIOUS
<1> HIDE DEF a, b
<1>3. c \in Seq(S) /\ Len(c) = i /\ \A j \in 1..i : c[j] = IF j < i THEN q[j] ELSE e
  BY <1>1
<1> HIDE DEF c
<1>4. (c \o b) \in Seq(S) /\ Len(c \o b) = Len(c) + Len(b)
  BY <1>2, <1>3, ConcatProperties
<1>5. Len(c \o b) = Len(q) + 1
  BY <1>0, <1>2, <1>3, <1>4
<1>6. ASSUME NEW j \in 1..(Len(q) + 1)
      PROVE  (c \o b)[j] = IF j < i THEN q[j] ELSE IF j = i THEN e ELSE q[j - 1]
  <2>1. CASE j <= i
    <3>1. (c \o b)[j] = c[j]
      BY <1>2, <1>3, <2>1
    <3> QED
      BY <1>3, <2>1, <3>1
  <2>2. CASE j > i
    <3>1. (c \o b)[j] = b[j - i]
      BY <1>0, <1>2, <1>3, <2>2
    <3>2. j - i \in 1..(Len(q) + 1 - i)
      BY <1>0, <2>2
    <3>3. b[j - i] = q[i + (j - i) - 1]
      BY <1>2, <3>2
    <3>4. i + (j - i) - 1 = j - 1
      BY <1>0
    <3> QED
      BY <1>0, <2>2, <3>1, <3>3, <3>4
  <2>3. j <= i \/ j > i
    BY <1>0
  <2> QED
    BY <2>1, <2>2, <2>3, Zenon
<1> QED
  BY <1>4, <1>5, <1>6 DEF InsertAt, a, b, c

(* A set has at most one member if and only if its cardinality is at most 1. *)
LEMMA AtMostOne ==
  ASSUME NEW S, \A x, y \in S : x = y
  PROVE  IsFiniteSet(S) /\ Cardinality(S) = IF S = {} THEN 0 ELSE 1
<1>1. CASE S = {}
  BY <1>1, FS_EmptySet
<1>2. CASE S # {}
  <2>1. PICK x \in S : S = {x}
    BY <1>2
  <2> QED
    BY <1>2, <2>1, FS_Singleton
<1> QED
  BY <1>1, <1>2

-----------------------------------------------------------------------------
(* The members of S above and below x.                                       *)
Above(S, x) == {y \in S : y > x}
Below(S, x) == {y \in S : y < x}

(* Both are counted by the rank of x, which tells the members apart, ...     *)
LEMMA RankUnique ==
  ASSUME NEW S \in SUBSET Int, IsFiniteSet(S), NEW x \in S, NEW y \in S
  PROVE  /\ IsFiniteSet(Above(S, x)) /\ Cardinality(Above(S, x)) \in 0..(Cardinality(S) - 1)
         /\ IsFiniteSet(Below(S, x))
         /\ Cardinality(Below(S, x)) = Cardinality(S) - 1 - Cardinality(Above(S, x))
         /\ Cardinality(Above(S, x)) = Cardinality(Above(S, y)) => x = y
<1>1. \A z \in S : Above(S, z) \in SUBSET S /\ IsFiniteSet(Above(S, z))
  BY FS_Subset DEF Above
<1>2. Below(S, x) \in SUBSET S /\ IsFiniteSet(Below(S, x))
  BY FS_Subset DEF Below
<1> DEFINE R == Above(S, x) \cup {x}
<1>3. x \notin Above(S, x)
  BY DEF Above
<1>4. IsFiniteSet(R) /\ Cardinality(R) = Cardinality(Above(S, x)) + 1 /\ Cardinality(Above(S, x)) \in Nat
  BY <1>1, <1>3, CardinalityStep
<1>5. S = Below(S, x) \cup R /\ Below(S, x) \cap R = {}
  <2>1. \A z \in S : IF z < x THEN z # x /\ ~(z > x) ELSE z = x \/ z > x
    OBVIOUS
  <2> QED
    BY <2>1, Zenon DEF Above, Below
<1> HIDE DEF R
<1>6. Cardinality(S) = Cardinality(Below(S, x)) + Cardinality(R) - Cardinality({})
  BY <1>2, <1>4, <1>5, FS_Union
<1>7. Cardinality({}) = 0 /\ Cardinality(Below(S, x)) \in Nat
  BY <1>2, FS_EmptySet, FS_CardinalityType
<1>8. /\ Cardinality(Below(S, x)) = Cardinality(S) - 1 - Cardinality(Above(S, x))
      /\ Cardinality(Above(S, x)) \in 0..(Cardinality(S) - 1)
  BY <1>4, <1>6, <1>7
<1>9. ASSUME NEW a \in S, NEW b \in S, a < b PROVE Cardinality(Above(S, a)) # Cardinality(Above(S, b))
  <2>1. Above(S, b) \in SUBSET Above(S, a)
    <3>1. \A z \in S : z > b => z > a
      BY <1>9
    <3> QED
      BY <3>1, Zenon DEF Above
  <2>2. b \in Above(S, a) /\ b \notin Above(S, b)
    BY <1>9 DEF Above
  <2> QED
    BY <1>1, <2>1, <2>2, FS_Subset
<1>10. x = y \/ x < y \/ y < x
  OBVIOUS
<1>11. Cardinality(Above(S, x)) = Cardinality(Above(S, y)) => x = y
  BY <1>9, <1>10
<1> QED
  BY <1>1, <1>2, <1>8, <1>11

(* ... and takes every value there are members for, counted from above ...   *)
LEMMA RankDown ==
  ASSUME NEW S \in SUBSET Int, IsFiniteSet(S), NEW m \in Int, \A x \in S : x <= m,
         NEW n \in 1..Cardinality(S)
  PROVE  \E x \in S : Cardinality(Above(S, x)) = n - 1
<1> DEFINE Has(k) == \E x \in S : Cardinality(Above(S, x)) = k - 1
           Bad == {k \in Nat : k >= 1 /\ k <= Cardinality(S) /\ ~Has(k)}
<1>0. Cardinality(S) \in Nat
  BY FS_CardinalityType
<1>1. SUFFICES ASSUME ~Has(n) PROVE FALSE
  OBVIOUS
<1>2. n \in Bad
  BY <1>0, <1>1
<1>3. PICK k \in Bad : \A j \in Bad : k <= j
  <2>1. Bad \in SUBSET Nat /\ Bad # {}
    BY <1>2
  <2> HIDE DEF Bad
  <2> QED
    BY <2>1, LeastNat
<1>4. CASE k = 1
  <2>1. S # {}
    BY <1>0, <1>3, FS_EmptySet
  <2>2. PICK x \in S : \A y \in S : y <= x
    BY <2>1, GreatestInt
  <2>3. Above(S, x) = {}
    <3>1. \A y \in S : ~(y > x)
      BY <2>2
    <3> QED
      BY <3>1, Zenon DEF Above
  <2> QED
    BY <1>3, <1>4, <2>3, FS_EmptySet
<1>5. CASE k # 1
  <2>1. k - 1 \in Nat /\ k - 1 >= 1 /\ k - 1 <= Cardinality(S) /\ k - 1 < k
    BY <1>0, <1>3, <1>5
  <2>2. k - 1 \notin Bad
    BY <1>3, <2>1
  <2>3. PICK x \in S : Cardinality(Above(S, x)) = (k - 1) - 1
    BY <2>1, <2>2
  <2>4. Cardinality(Below(S, x)) # 0 /\ IsFiniteSet(Above(S, x))
    BY <1>0, <1>3, <2>3, RankUnique
  <2>5. Below(S, x) # {} /\ Below(S, x) \in SUBSET Int
    BY <2>4, FS_EmptySet DEF Below
  <2>6. \A y \in Below(S, x) : y <= m
    BY DEF Below
  <2>7. PICK y \in Below(S, x) : \A z \in Below(S, x) : z <= y
    BY <2>5, <2>6, GreatestInt
  <2>8. y \in S /\ Above(S, y) = Above(S, x) \cup {x} /\ x \notin Above(S, x)
    <3>1. y \in S /\ y < x
      BY DEF Below
    <3>2. \A z \in S : z < x => z <= y
      BY <2>7, Zenon DEF Below
    <3>3. \A z \in S : z > y <=> z > x \/ z = x
      BY <3>1, <3>2
    <3>4. ~(x > x)
      OBVIOUS
    <3> QED
      BY <3>1, <3>3, <3>4, Zenon DEF Above
  <2>9. Cardinality(Above(S, y)) = k - 1
    BY <1>3, <2>3, <2>4, <2>8, CardinalityStep
  <2> QED
    BY <1>3, <2>8, <2>9
<1> QED
  BY <1>4, <1>5

(* ... and from below.                                                       *)
LEMMA RankUp ==
  ASSUME NEW S \in SUBSET Int, IsFiniteSet(S), NEW m \in Int, \A x \in S : x <= m,
         NEW n \in 1..Cardinality(S)
  PROVE  \E x \in S : Cardinality(Below(S, x)) = n - 1
<1>1. Cardinality(S) \in Nat
  BY FS_CardinalityType
<1>2. Cardinality(S) + 1 - n \in 1..Cardinality(S)
  BY <1>1
<1>3. PICK x \in S : Cardinality(Above(S, x)) = (Cardinality(S) + 1 - n) - 1
  BY <1>2, RankDown
<1>4. Cardinality(Below(S, x)) = Cardinality(S) - 1 - Cardinality(Above(S, x))
  BY RankUnique
<1> QED
  BY <1>1, <1>3, <1>4

-----------------------------------------------------------------------------
(* 1 for two that are the same, 0 for others.                               *)
Is(x, y) == IF x = y THEN 1 ELSE 0

(* The places of a table M of rows where f is.                               *)
Places(M, T, D, f) == {x \in T \X D : M[x[1]][x[2]] = f}

(* The places of a row q where f stands.                                     *)
InRow(q, D, f) == {a \in D : q[a] = f}

(* In a matrix M the entry for t and a, or the row of t, becomes another.    *)
EntrySet(M, N, T, D, V, t, a, g) ==
  /\ IsFiniteSet(T) /\ IsFiniteSet(D) /\ M \in [T -> [D -> V]] /\ t \in T /\ a \in D
  /\ N = [M EXCEPT ![t][a] = g]

RowSet(M, N, T, D, V, t, r) ==
  /\ IsFiniteSet(T) /\ IsFiniteSet(D) /\ M \in [T -> [D -> V]] /\ t \in T /\ r \in [D -> V]
  /\ N = [M EXCEPT ![t] = r]

(* The places of f are finitely many; how many, when an entry is changed ... *)
LEMMA PlacesEntry ==
  ASSUME NEW T, NEW D, NEW V, NEW M, NEW N, NEW t, NEW a, NEW g, NEW f,
         EntrySet(M, N, T, D, V, t, a, g)
  PROVE  /\ IsFiniteSet(Places(M, T, D, f)) /\ Cardinality(Places(M, T, D, f)) \in Nat
         /\ Cardinality(Places(N, T, D, f)) =
               Cardinality(Places(M, T, D, f)) - Is(M[t][a], f) + Is(g, f)
<1> USE DEF EntrySet
<1> DEFINE P == Places(M, T, D, f)
           Q == Places(N, T, D, f)
           x == <<t, a>>
<1>1. IsFiniteSet(P) /\ Cardinality(P) \in Nat
  BY FS_Product, FS_Subset, FS_CardinalityType DEF Places
<1>2. x \in P <=> M[t][a] = f
  BY DEF Places
<1>3. Q = IF g = f THEN P \cup {x} ELSE P \ {x}
  <2>1. ASSUME NEW u \in T, NEW b \in D PROVE N[u][b] = IF u = t /\ b = a THEN g ELSE M[u][b]
    OBVIOUS
  <2>2. ASSUME NEW y \in T \X D PROVE y \in Q <=> IF y = x THEN g = f ELSE y \in P
    <3>1. PICK u \in T, b \in D : y = <<u, b>>
      OBVIOUS
    <3> QED
      BY <2>1, <3>1 DEF Places
  <2>3. P \in SUBSET (T \X D) /\ Q \in SUBSET (T \X D) /\ x \in T \X D
    BY DEF Places
  <2> HIDE DEF P, Q, x
  <2> QED
    BY <2>2, <2>3
<1> HIDE DEF P, Q, x
<1>4. Cardinality(Q) = Cardinality(P) - Is(M[t][a], f) + Is(g, f)
  <2>1. /\ Cardinality(P \cup {x}) = Cardinality(P) + 1 - (IF x \in P THEN 1 ELSE 0)
        /\ Cardinality(P \ {x}) = Cardinality(P) - (IF x \in P THEN 1 ELSE 0)
    BY <1>1, CardinalityStep
  <2>2. CASE g = f
    <3>1. Q = P \cup {x}
      BY <1>3, <2>2
    <3> QED
      BY <1>1, <1>2, <2>1, <2>2, <3>1 DEF Is
  <2>3. CASE g # f
    <3>1. Q = P \ {x}
      BY <1>3, <2>3
    <3> QED
      BY <1>1, <1>2, <2>1, <2>3, <3>1 DEF Is
  <2> QED
    BY <2>2, <2>3
<1> QED
  BY <1>1, <1>4 DEF P, Q

(* ... and when a row is.                                                    *)
LEMMA PlacesRow ==
  ASSUME NEW T, NEW D, NEW V, NEW M, NEW N, NEW t, NEW r, NEW f,
         RowSet(M, N, T, D, V, t, r)
  PROVE  /\ Cardinality(Places(M, T, D, f)) \in Nat
         /\ Cardinality(InRow(M[t], D, f)) \in 0..Cardinality(Places(M, T, D, f))
         /\ Cardinality(InRow(r, D, f)) \in Nat
         /\ Cardinality(Places(N, T, D, f)) =
               Cardinality(Places(M, T, D, f)) - Cardinality(InRow(M[t], D, f))
                                             + Cardinality(InRow(r, D, f))
<1> USE DEF RowSet, InRow
<1> DEFINE Rest == {x \in T \X D : x[1] # t /\ M[x[1]][x[2]] = f}
           Row(A) == {x \in T \X D : x[1] = t /\ x[2] \in A}
<1>1. ASSUME NEW A \in SUBSET D
      PROVE  IsFiniteSet(Row(A)) /\ Cardinality(Row(A)) = Cardinality(A) /\ Cardinality(A) \in Nat
  <2> DEFINE h == [a \in A |-> <<t, a>>]
  <2>1. h \in Bijection(A, Row(A))
    <3>1. \A a \in A : h[a] \in Row(A)
      OBVIOUS
    <3>2. \A a, b \in A : h[a] = h[b] => a = b
      OBVIOUS
    <3>3. \A x \in Row(A) : \E a \in A : h[a] = x
      OBVIOUS
    <3>4. h \in [A -> Row(A)]
      BY <3>1
    <3> HIDE DEF h, Row
    <3> QED
      BY <3>2, <3>3, <3>4 DEF Bijection, Injection, Surjection, IsInjective
  <2>2. IsFiniteSet(A) /\ Cardinality(A) \in Nat
    BY FS_Subset, FS_CardinalityType
  <2> QED
    BY <2>1, <2>2, FS_Bijection DEF ExistsBijection
<1>2. IsFiniteSet(Rest) /\ Cardinality(Rest) \in Nat
  BY FS_Product, FS_Subset, FS_CardinalityType
<1>3. ASSUME NEW q \in [D -> V]
      PROVE  LET K == [M EXCEPT ![t] = q]
                 A == {a \in D : q[a] = f}
             IN  /\ Places(K, T, D, f) = Rest \cup Row(A)
                 /\ Cardinality(Places(K, T, D, f)) = Cardinality(Rest) + Cardinality(A)
                 /\ Cardinality(A) \in Nat
  <2> DEFINE K == [M EXCEPT ![t] = q]
             A == {a \in D : q[a] = f}
  <2>1. \A u \in T : K[u] = IF u = t THEN q ELSE M[u]
    OBVIOUS
  <2> HIDE DEF K
  <2>2. Places(K, T, D, f) = Rest \cup Row(A)
    BY <2>1 DEF Places
  <2>3. Rest \cap Row(A) = {}
    OBVIOUS
  <2>4. IsFiniteSet(Row(A)) /\ Cardinality(Row(A)) = Cardinality(A) /\ Cardinality(A) \in Nat
    BY <1>1
  <2> HIDE DEF Rest, Row, A
  <2>5. Cardinality(Rest \cup Row(A)) = Cardinality(Rest) + Cardinality(Row(A)) - Cardinality({})
    BY <1>2, <2>3, <2>4, FS_Union
  <2>6. Cardinality({}) = 0
    BY FS_EmptySet
  <2>7. Cardinality(Rest \cup Row(A)) = Cardinality(Rest) + Cardinality(A)
    BY <1>2, <2>4, <2>5, <2>6
  <2> QED
    BY <2>2, <2>4, <2>7, Zenon DEF K, A
<1>4. M = [M EXCEPT ![t] = M[t]] /\ M[t] \in [D -> V]
  OBVIOUS
<1> HIDE DEF Rest, Row
<1>5. /\ Cardinality(Places(M, T, D, f)) = Cardinality(Rest) + Cardinality({a \in D : M[t][a] = f})
      /\ Cardinality({a \in D : M[t][a] = f}) \in Nat
  BY <1>3, <1>4
<1>6. /\ Cardinality(Places(N, T, D, f)) = Cardinality(Rest) + Cardinality({a \in D : r[a] = f})
      /\ Cardinality({a \in D : r[a] = f}) \in Nat
  BY <1>3
<1> QED
  BY <1>2, <1>5, <1>6

(* The same for a row alone.                                                 *)
LEMMA CountEntry ==
  ASSUME NEW T, IsFiniteSet(T), NEW V, NEW F \in [T -> V], NEW t \in T, NEW g, NEW f,
         NEW G, G = [F EXCEPT ![t] = g]
  PROVE  Cardinality({u \in T : G[u] = f}) =
           Cardinality({u \in T : F[u] = f}) - Is(F[t], f) + Is(g, f)
<1> DEFINE P == {u \in T : F[u] = f}
           Q == {u \in T : G[u] = f}
<1>1. IsFiniteSet(P) /\ Cardinality(P) \in Nat
  BY FS_Subset, FS_CardinalityType
<1>2. t \in P <=> F[t] = f
  OBVIOUS
<1>3. /\ Cardinality(P \cup {t}) = Cardinality(P) + 1 - (IF t \in P THEN 1 ELSE 0)
      /\ Cardinality(P \ {t}) = Cardinality(P) - (IF t \in P THEN 1 ELSE 0)
  BY <1>1, CardinalityStep
<1>4. CASE g = f
  <2>1. Q = P \cup {t}
    BY <1>4
  <2> HIDE DEF P, Q
  <2>2. Cardinality(Q) = Cardinality(P) - Is(F[t], f) + Is(g, f)
    BY <1>1, <1>2, <1>3, <1>4, <2>1 DEF Is
  <2> QED
    BY <2>2 DEF P, Q
<1>5. CASE g # f
  <2>1. Q = P \ {t}
    BY <1>5
  <2> HIDE DEF P, Q
  <2>2. Cardinality(Q) = Cardinality(P) - Is(F[t], f) + Is(g, f)
    BY <1>1, <1>2, <1>3, <1>5, <2>1 DEF Is
  <2> QED
    BY <2>2 DEF P, Q
<1> QED
  BY <1>4, <1>5
=============================================================================
