---------------------------- MODULE OrderProofs -----------------------------
(***************************************************************************)
(* ServerLessThan is what sorting asks of an order, for any servers of     *)
(* which at most one leads, and it puts the leader first.                  *)
(***************************************************************************)
EXTENDS Order, FiniteSetTheorems, FunctionTheorems, TLAPS

\* What ServerLessThan asks of the servers in S.
Sortable(S, servers) ==
  /\ \A i \in S : servers[i].healthy \in BOOLEAN /\ servers[i].since \in Int
  /\ \A i, j \in S : servers[i].role = "leader" /\ servers[j].role = "leader" => i = j

\* Of two different servers exactly one is less than the other, so what
\* SortServers returns does not depend on the order it is given.
THEOREM OrderTotal ==
  ASSUME NEW S \in SUBSET Int, NEW servers, Sortable(S, servers),
         NEW i \in S, NEW j \in S, i # j
  PROVE  ServerLessThan(i, j, servers) <=> ~ServerLessThan(j, i, servers)
BY DEF ServerLessThan, Sortable

\* It is transitive, although stability counts one way for healthy servers
\* and the other way for unhealthy ones.
THEOREM OrderTransitive ==
  ASSUME NEW S \in SUBSET Int, NEW servers, Sortable(S, servers),
         NEW i \in S, NEW j \in S, NEW k \in S, i # j, j # k, i # k,
         ServerLessThan(i, j, servers), ServerLessThan(j, k, servers)
  PROVE  ServerLessThan(i, k, servers)
BY DEF ServerLessThan, Sortable

\* However the sorting comes out, the leader is the first in the list.
THEOREM LeaderFirst ==
  ASSUME NEW S \in SUBSET Int, IsFiniteSet(S), NEW servers,
         NEW list \in SortedLists(S, servers),
         NEW n \in 1..Cardinality(S), servers[list[n]].role = "leader"
  PROVE  n = 1
<1> SUFFICES ASSUME n # 1 PROVE FALSE
  OBVIOUS
<1>1. 1 \in 1..Cardinality(S) /\ 1 < n
  BY FS_CardinalityType
<1>2. ~ServerLessThan(list[n], list[1], servers)
  BY <1>1 DEF SortedLists
<1> QED
  BY <1>2 DEF ServerLessThan

-----------------------------------------------------------------------------
(* A sorted list is the only one.  The place of a server in it is given by *)
(* the number of servers that are less.                                    *)

Below(x, S, servers) == {y \in S \ {x} : ServerLessThan(y, x, servers)}

\* Sorting loses nobody and repeats nobody.
LEMMA ListBijection ==
  ASSUME NEW S, IsFiniteSet(S), NEW servers, NEW list \in SortedLists(S, servers)
  PROVE  /\ \A m, n \in 1..Cardinality(S) : list[m] = list[n] => m = n
         /\ \A x \in S : \E n \in 1..Cardinality(S) : list[n] = x
<1> DEFINE N == Cardinality(S)
<1>1. N \in Nat
  BY FS_CardinalityType
<1>2. /\ list \in [1..N -> S]
      /\ \A m, n \in 1..N : m < n => list[m] # list[n]
  BY DEF SortedLists
<1> HIDE DEF N
<1>3. \A m, n \in 1..N : list[m] = list[n] => m = n
  BY <1>1, <1>2
<1>4. list \in Injection(1..N, S)
  BY <1>2, <1>3, Fun_IsInj
<1>5. Cardinality(1..N) = Cardinality(S)
  BY <1>1, FS_Interval DEF N
<1>6. list \in Surjection(1..N, S)
  BY <1>4, <1>5, FS_Injection
<1>7. \A x \in S : \E n \in 1..N : list[n] = x
  BY <1>6 DEF Surjection
<1> QED
  BY <1>3, <1>7 DEF N

LEMMA Rank ==
  ASSUME NEW S \in SUBSET Int, IsFiniteSet(S), NEW servers, Sortable(S, servers),
         NEW list \in SortedLists(S, servers), NEW n \in 1..Cardinality(S)
  PROVE  Cardinality(Below(list[n], S, servers)) = n - 1
<1> DEFINE N == Cardinality(S)
           B == Below(list[n], S, servers)
           f == [m \in 1..(n - 1) |-> list[m]]
<1>1. N \in Nat /\ n \in 1..N
  BY FS_CardinalityType
<1>2. /\ list \in [1..N -> S]
      /\ \A m, k \in 1..N : m < k => ~ServerLessThan(list[k], list[m], servers)
  BY DEF SortedLists
<1>3. /\ \A m, k \in 1..N : list[m] = list[k] => m = k
      /\ \A x \in S : \E k \in 1..N : list[k] = x
  BY ListBijection
<1> HIDE DEF N
<1>4. ASSUME NEW m \in 1..N PROVE list[m] \in B <=> m < n
  <2>1. CASE m = n
    BY <1>1, <2>1 DEF Below
  <2>2. CASE m < n
    <3>1. list[m] # list[n] /\ list[m] \in S /\ list[n] \in S
      BY <1>1, <1>2, <1>3, <2>2
    <3>2. ServerLessThan(list[m], list[n], servers)
      BY <1>1, <1>2, <2>2, <3>1, OrderTotal
    <3> QED
      BY <2>2, <3>1, <3>2 DEF Below
  <2>3. CASE m > n
    <3>1. ~ServerLessThan(list[m], list[n], servers)
      BY <1>1, <1>2, <2>3
    <3> QED
      BY <1>1, <2>3, <3>1 DEF Below
  <2> QED
    BY <1>1, <2>1, <2>2, <2>3
<1>5. B \subseteq S
  BY DEF Below
<1> HIDE DEF B
<1>6. f \in [1..(n - 1) -> B]
  BY <1>1, <1>4
<1>7. \A a, b \in 1..(n - 1) : f[a] = f[b] => a = b
  BY <1>1, <1>3
<1>8. \A x \in B : \E a \in 1..(n - 1) : f[a] = x
  <2> SUFFICES ASSUME NEW x \in B PROVE \E a \in 1..(n - 1) : f[a] = x
    OBVIOUS
  <2>1. PICK k \in 1..N : list[k] = x
    BY <1>3, <1>5
  <2>2. k \in 1..(n - 1) /\ f[k] = x
    BY <1>1, <1>4, <2>1
  <2> QED
    BY <2>2
<1>9. f \in Bijection(1..(n - 1), B)
  BY <1>6, <1>7, <1>8, Fun_IsBij
<1>10. IsFiniteSet(1..(n - 1)) /\ Cardinality(1..(n - 1)) = n - 1
  BY <1>1, FS_Interval
<1>11. ExistsBijection(1..(n - 1), B)
  BY <1>9 DEF ExistsBijection
<1> QED
  BY <1>10, <1>11, FS_Bijection DEF B

\* Different servers have different numbers of servers below them.
LEMMA RankDecides ==
  ASSUME NEW S \in SUBSET Int, IsFiniteSet(S), NEW servers, Sortable(S, servers),
         NEW x \in S, NEW y \in S,
         Cardinality(Below(x, S, servers)) = Cardinality(Below(y, S, servers))
  PROVE  x = y
<1> DEFINE B(z) == Below(z, S, servers)
<1>1. ASSUME NEW a \in S, NEW b \in S, a # b, ServerLessThan(a, b, servers),
             Cardinality(B(a)) = Cardinality(B(b))
      PROVE  FALSE
  <2>1. a \in B(b) /\ a \notin B(a)
    BY <1>1 DEF Below
  <2>2. B(a) \subseteq B(b)
    <3> SUFFICES ASSUME NEW c \in B(a) PROVE c \in B(b)
      OBVIOUS
    <3>1. c \in S /\ c # a /\ ServerLessThan(c, a, servers)
      BY DEF Below
    <3>2. c # b
      BY <1>1, <3>1, OrderTotal
    <3>3. ServerLessThan(c, b, servers)
      BY <1>1, <3>1, <3>2, OrderTransitive
    <3> QED
      BY <3>1, <3>2, <3>3 DEF Below
  <2>3. IsFiniteSet(B(b))
    BY FS_Subset DEF Below
  <2> HIDE DEF B
  <2>4. B(a) = B(b)
    BY <1>1, <2>2, <2>3, FS_Subset
  <2> QED
    BY <2>1, <2>4
<1>2. ASSUME x # y PROVE ServerLessThan(x, y, servers) \/ ServerLessThan(y, x, servers)
  BY <1>2, OrderTotal
<1> QED
  BY <1>1, <1>2

\* Whatever order SortServers is given the servers in, and although its
\* sorting is not stable, there is one list it can return.
THEOREM SortedOnce ==
  ASSUME NEW S \in SUBSET Int, IsFiniteSet(S), NEW servers, Sortable(S, servers),
         NEW list \in SortedLists(S, servers), NEW other \in SortedLists(S, servers)
  PROVE  list = other
<1>1. ASSUME NEW n \in 1..Cardinality(S) PROVE list[n] = other[n]
  <2>1. list[n] \in S /\ other[n] \in S
    BY DEF SortedLists
  <2>2. Cardinality(Below(list[n], S, servers)) = n - 1
    BY Rank
  <2>3. Cardinality(Below(other[n], S, servers)) = n - 1
    BY Rank
  <2> QED
    BY <2>1, <2>2, <2>3, RankDecides
<1> DEFINE D == 1..Cardinality(S)
<1>2. list \in [D -> S] /\ other \in [D -> S] /\ \A n \in D : list[n] = other[n]
  BY <1>1 DEF SortedLists
<1> HIDE DEF D
<1> QED
  BY <1>2
=============================================================================
