--------------------------- MODULE Placement_proofs ---------------------------
(***************************************************************************)
(* ContainerNodes for every network map, every policy and every order of   *)
(* the buckets: what a plain policy asks for is what each line holds, and  *)
(* it is refused only when the network map is too small for it.            *)
(*                                                                         *)
(* The code sorts, cuts, deals out and joins lists; the properties speak   *)
(* of sets of nodes and of groups of them.  The lemmas go from the one to  *)
(* the other: what sorted, flattenNodes and dealtOut return, which buckets *)
(* the selection base has, what selectionOf takes of them, what the filters*)
(* decide, and so what each selector and each replica gets.                *)
(***************************************************************************)
EXTENDS Placement, FiniteSetTheorems, WellFoundedInduction, TLAPS

LEMMA LeastMember ==
  ASSUME NEW T \in SUBSET Nat, T # {}
  PROVE  \E n \in T : \A m \in T : n <= m
<1>1. PICK n \in T : \A m \in T : ~(<<m, n>> \in OpToRel(<, Nat))
  BY NatLessThanWellFounded, WFMin
<1>2. \A m \in T : ~(m < n)
  BY <1>1 DEF OpToRel
<1> QED BY <1>2

LEMMA Inductive ==
  ASSUME NEW T \in SUBSET Nat, 0 \in T, \A m \in Nat : m \in T => m + 1 \in T
  PROVE  T = Nat
<1> DEFINE Wrong == Nat \ T
<1> SUFFICES ASSUME Wrong # {} PROVE FALSE
  OBVIOUS
<1>1. PICK m \in Wrong : \A k \in Wrong : m <= k
  BY LeastMember
<1>2. m \in Nat /\ m \notin T /\ m # 0
  BY <1>1
<1>3. m - 1 \in Nat /\ ~(m <= m - 1) /\ (m - 1) + 1 = m
  BY <1>2
<1>4. m - 1 \in T
  BY <1>1, <1>3
<1> QED BY <1>2, <1>3, <1>4

-----------------------------------------------------------------------------
(* Values built up step by step. *)

\* t[k] is what the k-th of n steps makes of t[k - 1].
Chain(n, a, G, t) == t[0] = a /\ \A k \in 1..n : t[k] = G[k][t[k - 1]]

LEMMA ChainExists ==
  ASSUME NEW n \in Nat, NEW S, NEW a \in S, NEW G \in [1..n -> [S -> S]]
  PROVE  \E t \in [0..n -> S] : Chain(n, a, G, t)
<1> DEFINE T == {m \in Nat : m <= n => \E t \in [0..m -> S] : Chain(m, a, G, t)}
<1>1. 0 \in T
  <2>1. [k \in 0..0 |-> a] \in [0..0 -> S] /\ Chain(0, a, G, [k \in 0..0 |-> a])
    BY DEF Chain
  <2> QED BY <2>1
<1>2. ASSUME NEW m \in Nat, m \in T PROVE m + 1 \in T
  <2> SUFFICES ASSUME m + 1 <= n PROVE \E t \in [0..(m + 1) -> S] : Chain(m + 1, a, G, t)
    OBVIOUS
  <2>1. PICK t \in [0..m -> S] : Chain(m, a, G, t)
    BY <1>2
  <2> DEFINE u == [k \in 0..(m + 1) |-> IF k = m + 1 THEN G[m + 1][t[m]] ELSE t[k]]
  <2>2. m + 1 \in 1..n /\ m \in 0..m
    OBVIOUS
  <2>3. G[m + 1] \in [S -> S] /\ t[m] \in S
    BY <2>1, <2>2
  <2>4. u \in [0..(m + 1) -> S]
    <3>1. G[m + 1][t[m]] \in S
      BY <2>3
    <3>2. \A k \in 0..(m + 1) : k # m + 1 => k \in 0..m
      OBVIOUS
    <3> QED BY <2>1, <3>1, <3>2
  <2>5. u[0] = a
    BY <2>1 DEF Chain
  <2>6. \A k \in 1..(m + 1) : u[k] = G[k][u[k - 1]]
    <3> SUFFICES ASSUME NEW k \in 1..(m + 1) PROVE u[k] = G[k][u[k - 1]]
      OBVIOUS
    <3>1. CASE k = m + 1
      <4>1. u[k] = G[m + 1][t[m]] /\ u[k - 1] = t[m]
        BY <3>1
      <4> QED BY <3>1, <4>1
    <3>2. CASE k # m + 1
      <4>1. k \in 1..m /\ u[k] = t[k] /\ u[k - 1] = t[k - 1]
        BY <3>2
      <4> QED BY <2>1, <4>1 DEF Chain
    <3> QED BY <3>1, <3>2
  <2> HIDE DEF u
  <2> QED BY <2>4, <2>5, <2>6 DEF Chain
<1> HIDE DEF T
<1>3. T = Nat
  <2>1. T \in SUBSET Nat
    BY DEF T
  <2> QED BY <1>1, <1>2, <2>1, Inductive
<1>4. n \in T
  BY <1>3
<1> QED BY <1>4 DEF T

-----------------------------------------------------------------------------
(* Sorting. *)

Keyed(S, key) ==
  /\ \A x \in S : key[x] \in Nat
  /\ \A x, y \in S : key[x] = key[y] => x = y
Rising(n, key, s) == \A i, j \in 1..n : i < j => key[s[i]] < key[s[j]]

LEMMA SortedExists ==
  ASSUME NEW S, IsFiniteSet(S), NEW key, Keyed(S, key)
  PROVE  \E s \in [1..Cardinality(S) -> S] : Rising(Cardinality(S), key, s)
<1> DEFINE Sortable(m) == \A U \in SUBSET S : Cardinality(U) = m =>
             \E s \in [1..m -> U] : Rising(m, key, s)
           T == {m \in Nat : Sortable(m)}
<1>1. 0 \in T
  <2>1. SUFFICES ASSUME NEW U \in SUBSET S PROVE \E s \in [1..0 -> U] : Rising(0, key, s)
    OBVIOUS
  <2>2. 1..0 = {}
    OBVIOUS
  <2>3. [i \in 1..0 |-> {}] \in [1..0 -> U]
    BY <2>2
  <2> QED BY <2>2, <2>3 DEF Rising
<1>2. ASSUME NEW m \in Nat, m \in T PROVE m + 1 \in T
  <2> SUFFICES ASSUME NEW U \in SUBSET S, Cardinality(U) = m + 1
               PROVE \E s \in [1..(m + 1) -> U] : Rising(m + 1, key, s)
    OBVIOUS
  <2>0. IsFiniteSet(U)
    BY FS_Subset
  <2>1. PICK x \in U : \A y \in U : key[x] <= key[y]
    <3> DEFINE K == {key[y] : y \in U}
    <3>1. K \in SUBSET Nat
      BY DEF Keyed
    <3>2. U # {}
      BY <2>0, FS_EmptySet
    <3>3. K # {}
      BY <3>2
    <3>4. PICK k \in K : \A l \in K : k <= l
      BY <3>1, <3>3, LeastMember
    <3> QED BY <3>4
  <2> DEFINE V == U \ {x}
  <2>2. V \in SUBSET S /\ Cardinality(V) = m
    <3>1. Cardinality(V) = Cardinality(U) - 1
      BY <2>0, FS_RemoveElement
    <3> QED BY <3>1
  <2>3. PICK t \in [1..m -> V] : Rising(m, key, t)
    BY <1>2, <2>2
  <2> DEFINE s == [i \in 1..(m + 1) |-> IF i = 1 THEN x ELSE t[i - 1]]
  <2>4. \A i \in 1..(m + 1) : i # 1 => i - 1 \in 1..m /\ s[i] = t[i - 1] /\ s[i] \in V
    BY <2>3
  <2>5. s \in [1..(m + 1) -> U]
    BY <2>4
  <2>6. ASSUME NEW i \in 1..(m + 1), NEW j \in 1..(m + 1), i < j
        PROVE  key[s[i]] < key[s[j]]
    <3>1. CASE i = 1
      <4>1. s[i] = x /\ s[j] \in V
        BY <2>4, <2>6, <3>1
      <4>2. key[x] # key[s[j]] /\ key[x] <= key[s[j]] /\ key[x] \in Nat /\ key[s[j]] \in Nat
        BY <2>1, <4>1 DEF Keyed
      <4> QED BY <4>1, <4>2
    <3>2. CASE i # 1
      <4>1. s[i] = t[i - 1] /\ s[j] = t[j - 1] /\ i - 1 \in 1..m /\ j - 1 \in 1..m /\ i - 1 < j - 1
        BY <2>4, <2>6, <3>2
      <4> QED BY <2>3, <4>1 DEF Rising
    <3> QED BY <3>1, <3>2
  <2> HIDE DEF s
  <2> QED BY <2>5, <2>6 DEF Rising
<1> HIDE DEF T
<1>3. T = Nat
  <2>1. T \in SUBSET Nat
    BY DEF T
  <2> QED BY <1>1, <1>2, <2>1, Inductive
<1>4. Cardinality(S) \in T
  BY <1>3, FS_CardinalityType
<1> QED BY <1>4 DEF T

\* A list with each member once.
Lists(n, s, S) ==
  /\ n \in Nat /\ s \in [1..n -> S]
  /\ \A i, j \in 1..n : s[i] = s[j] => i = j
  /\ \A x \in S : \E i \in 1..n : s[i] = x

LEMMA SortedIs ==
  ASSUME NEW S, IsFiniteSet(S), NEW key, Keyed(S, key),
         NEW s, s = sorted(S, key), NEW n, n = Cardinality(S)
  PROVE  Lists(n, s, S)
<1>0. n \in Nat
  BY FS_CardinalityType
<1>1. s \in [1..n -> S] /\ Rising(n, key, s)
  <2>1. sorted(S, key) = CHOOSE u \in [1..n -> S] : Rising(n, key, u)
    BY DEF sorted, Rising
  <2>2. \E u \in [1..n -> S] : Rising(n, key, u)
    BY SortedExists
  <2> QED BY <2>1, <2>2
<1>2. \A i, j \in 1..n : s[i] = s[j] => i = j
  <2> SUFFICES ASSUME NEW i \in 1..n, NEW j \in 1..n, s[i] = s[j], i # j PROVE FALSE
    OBVIOUS
  <2>1. PICK k : k = key[s[i]]
    OBVIOUS
  <2>2. k \in Nat
    BY <1>1, <2>1 DEF Keyed
  <2>3. i < j \/ j < i
    BY <1>0
  <2>4. k < k
    BY <1>1, <2>1, <2>3 DEF Rising
  <2> QED BY <2>2, <2>4
<1>3. s \in Injection(1..n, S)
  BY <1>1, <1>2 DEF Injection, IsInjective
<1>4. Cardinality(1..n) = n
  BY <1>0, FS_Interval
<1>5. s \in Surjection(1..n, S)
  BY <1>3, <1>4, FS_Injection
<1> QED BY <1>0, <1>1, <1>2, <1>5 DEF Surjection, Lists

-----------------------------------------------------------------------------
(* Lists that are joined. *)

Joins(n, b, t) == t[0] = <<>> /\ \A k \in 1..n : t[k] = t[k - 1] \o b[k]

LEMMA FlattenIs ==
  ASSUME NEW E, NEW n \in Nat, NEW b \in Seq(Seq(E)), Len(b) = n
  PROVE  \E t \in [0..n -> Seq(E)] : Joins(n, b, t) /\ flattenNodes(b) = t[n]
<1> DEFINE S == Seq(E)
           G == [k \in 1..n |-> [x \in S |-> x \o b[k]]]
           Def(f) == [k \in 0..n |-> IF k = 0 THEN <<>> ELSE f[k - 1] \o b[k]]
           upTo == CHOOSE f : f = Def(f)
<1>1. \A k \in 1..n : b[k] \in S
  OBVIOUS
<1>2. G \in [1..n -> [S -> S]]
  BY <1>1
<1>3. <<>> \in S
  OBVIOUS
<1>4. PICK t \in [0..n -> S] : Chain(n, <<>>, G, t)
  <2> HIDE DEF G, S
  <2> QED BY <1>2, <1>3, ChainExists
<1>5. Joins(n, b, t)
  <2>1. \A k \in 1..n : t[k] = t[k - 1] \o b[k]
    <3> SUFFICES ASSUME NEW k \in 1..n PROVE t[k] = t[k - 1] \o b[k]
      OBVIOUS
    <3>1. k - 1 \in 0..n
      OBVIOUS
    <3>2. t[k - 1] \in S
      BY <1>4, <3>1
    <3>3. t[k] = G[k][t[k - 1]]
      BY <1>4 DEF Chain
    <3> HIDE DEF S
    <3> QED BY <3>2, <3>3
  <2> QED BY <1>4, <2>1 DEF Chain, Joins
<1>6. t = Def(t)
  <2>1. \A k \in 0..n : t[k] = IF k = 0 THEN <<>> ELSE t[k - 1] \o b[k]
    <3> SUFFICES ASSUME NEW k \in 0..n PROVE t[k] = IF k = 0 THEN <<>> ELSE t[k - 1] \o b[k]
      OBVIOUS
    <3>1. k # 0 => k \in 1..n
      OBVIOUS
    <3> HIDE DEF S
    <3> QED BY <1>5, <3>1 DEF Joins
  <2> HIDE DEF S
  <2> QED BY <1>4, <2>1
<1>7. flattenNodes(b) = upTo[n]
  BY DEF flattenNodes
<1>8. upTo = Def(upTo)
  <2> HIDE DEF Def
  <2> QED BY <1>6
<1> HIDE DEF upTo, S
<1>9. upTo \in [0..n -> S]
  <2> DEFINE T == {m \in Nat : m <= n => upTo[m] \in S}
  <2>1. 0 \in T
    BY <1>3, <1>8
  <2>2. ASSUME NEW m \in Nat, m \in T PROVE m + 1 \in T
    <3> SUFFICES ASSUME m + 1 <= n PROVE upTo[m + 1] \in S
      OBVIOUS
    <3>1. upTo[m] \in S /\ b[m + 1] \in S
      BY <1>1, <2>2
    <3>2. m + 1 \in 0..n /\ m + 1 # 0 /\ (m + 1) - 1 = m
      OBVIOUS
    <3>3. upTo[m + 1] = upTo[m] \o b[m + 1]
      BY <1>8, <3>2
    <3> QED BY <3>1, <3>3 DEF S
  <2> HIDE DEF T
  <2>3. T = Nat
    <3>1. T \in SUBSET Nat
      BY DEF T
    <3> QED BY <2>1, <2>2, <3>1, Inductive
  <2>4. \A k \in 0..n : upTo[k] \in S
    BY <2>3 DEF T
  <2> HIDE DEF Def
  <2>5. upTo = [k \in 0..n |-> upTo[k]]
    BY <1>8 DEF Def
  <2> QED BY <2>4, <2>5
<1>10. Joins(n, b, upTo)
  <2>1. \A k \in 0..n : upTo[k] = IF k = 0 THEN <<>> ELSE upTo[k - 1] \o b[k]
    BY <1>8
  <2>2. 0 \in 0..n /\ \A k \in 1..n : k \in 0..n /\ k # 0
    OBVIOUS
  <2> QED BY <2>1, <2>2 DEF Joins
<1> QED BY <1>7, <1>9, <1>10 DEF S

\* Parts that have no node in common, each with lo to hi nodes and none twice.
Apart(n, b, E, lo, hi) ==
  /\ b \in Seq(Seq(E)) /\ Len(b) = n
  /\ \A i \in 1..n : lo <= Len(b[i]) /\ Len(b[i]) <= hi
  /\ \A i, j \in 1..n : \A k \in 1..Len(b[i]), l \in 1..Len(b[j]) :
       b[i][k] = b[j][l] => i = j /\ k = l

\* What such parts become when they are joined.
Joined(n, b, E, lo, hi, line) ==
  /\ line \in Seq(E)
  /\ n * lo <= Len(line) /\ Len(line) <= n * hi
  /\ \A k, l \in 1..Len(line) : line[k] = line[l] => k = l
  /\ \A k \in 1..Len(line) : \E i \in 1..n : \E l \in 1..Len(b[i]) : line[k] = b[i][l]
  /\ \A i \in 1..n : \A l \in 1..Len(b[i]) : \E k \in 1..Len(line) : line[k] = b[i][l]

LEMMA Added ==
  ASSUME NEW E, NEW s \in Seq(E), NEW u \in Seq(E)
  PROVE  /\ s \o u \in Seq(E) /\ Len(s \o u) = Len(s) + Len(u)
         /\ \A k \in 1..Len(s) : (s \o u)[k] = s[k]
         /\ \A k \in 1..Len(u) : (s \o u)[Len(s) + k] = u[k]
         /\ \A k \in 1..Len(s \o u) : \/ k \in 1..Len(s) /\ (s \o u)[k] = s[k]
                                      \/ k - Len(s) \in 1..Len(u) /\ (s \o u)[k] = u[k - Len(s)]
  OBVIOUS

LEMMA MoreTimes ==
  ASSUME NEW m \in Nat, NEW x \in Nat
  PROVE  (m + 1) * x = m * x + x /\ m * x \in Nat
  OBVIOUS

\* Joining the parts up to the next one.
LEMMA JoinStep ==
  ASSUME NEW E, NEW n \in Nat, NEW m \in Nat, m + 1 <= n, NEW lo \in Nat, NEW hi \in Nat,
         NEW b, Apart(n, b, E, lo, hi), NEW line, Joined(m, b, E, lo, hi, line)
  PROVE  Joined(m + 1, b, E, lo, hi, line \o b[m + 1])
<1>1. PICK u : u = b[m + 1]
  OBVIOUS
<1>2. m + 1 \in 1..n /\ \A i \in 1..m : i \in 1..n /\ i # m + 1
  OBVIOUS
<1>3. u \in Seq(E) /\ line \in Seq(E) /\ lo <= Len(u) /\ Len(u) <= hi
  BY <1>1, <1>2 DEF Apart, Joined
<1>4. PICK new : new = line \o u
  OBVIOUS
<1>5. PICK a \in Nat, c \in Nat : a = Len(line) /\ c = Len(u)
  BY <1>3
<1>6. /\ new \in Seq(E) /\ Len(new) = a + c
      /\ \A k \in 1..a : new[k] = line[k]
      /\ \A k \in 1..c : new[a + k] = u[k]
      /\ \A k \in 1..(a + c) : \/ k \in 1..a /\ new[k] = line[k]
                               \/ k - a \in 1..c /\ new[k] = u[k - a]
  BY <1>3, <1>4, <1>5, Added
<1>7. /\ m * lo <= a /\ a <= m * hi
      /\ \A k, l \in 1..a : line[k] = line[l] => k = l
      /\ \A k \in 1..a : \E i \in 1..m : \E l \in 1..Len(b[i]) : line[k] = b[i][l]
      /\ \A i \in 1..m : \A l \in 1..Len(b[i]) : \E k \in 1..a : line[k] = b[i][l]
  BY <1>5 DEF Joined
<1>8. \A i \in 1..m : \A k \in 1..Len(b[i]), l \in 1..c : b[i][k] # u[l]
  BY <1>1, <1>2, <1>5 DEF Apart
<1>9. \A k, l \in 1..c : u[k] = u[l] => k = l
  BY <1>1, <1>2, <1>5 DEF Apart
<1>10. (m + 1) * lo <= a + c /\ a + c <= (m + 1) * hi
  <2>1. PICK x \in Nat, y \in Nat : x = m * lo /\ y = m * hi
    BY MoreTimes
  <2>2. (m + 1) * lo = x + lo /\ (m + 1) * hi = y + hi
    BY <2>1, MoreTimes
  <2> QED BY <1>3, <1>5, <1>7, <2>1, <2>2
<1>11. \A k \in 1..a, l \in 1..c : line[k] # u[l]
  <2> SUFFICES ASSUME NEW k \in 1..a, NEW l \in 1..c PROVE line[k] # u[l]
    OBVIOUS
  <2>1. PICK i \in 1..m : \E j \in 1..Len(b[i]) : line[k] = b[i][j]
    BY <1>7
  <2>2. PICK j \in 1..Len(b[i]) : line[k] = b[i][j]
    BY <2>1
  <2> QED BY <1>8, <2>2
<1>12. ASSUME NEW k \in 1..(a + c), NEW l \in 1..(a + c), new[k] = new[l] PROVE k = l
  <2>1. CASE k \in 1..a /\ new[k] = line[k] /\ l \in 1..a /\ new[l] = line[l]
    BY <1>7, <1>12, <2>1
  <2>2. CASE k - a \in 1..c /\ new[k] = u[k - a] /\ l - a \in 1..c /\ new[l] = u[l - a]
    <3>1. k - a = l - a
      BY <1>9, <1>12, <2>2
    <3> QED BY <3>1
  <2>3. CASE k \in 1..a /\ new[k] = line[k] /\ l - a \in 1..c /\ new[l] = u[l - a]
    BY <1>11, <1>12, <2>3
  <2>4. CASE l \in 1..a /\ new[l] = line[l] /\ k - a \in 1..c /\ new[k] = u[k - a]
    <3>1. line[l] # u[k - a]
      BY <1>11, <2>4
    <3> QED BY <1>12, <2>4, <3>1
  <2> QED BY <1>6, <2>1, <2>2, <2>3, <2>4
<1>13. ASSUME NEW k \in 1..(a + c)
       PROVE  \E i \in 1..(m + 1) : \E l \in 1..Len(b[i]) : new[k] = b[i][l]
  <2>1. CASE k \in 1..a /\ new[k] = line[k]
    <3>1. PICK i \in 1..m : \E l \in 1..Len(b[i]) : line[k] = b[i][l]
      BY <1>7, <2>1
    <3>2. i \in 1..(m + 1)
      OBVIOUS
    <3> QED BY <2>1, <3>1, <3>2
  <2>2. CASE k - a \in 1..c /\ new[k] = u[k - a]
    <3>1. m + 1 \in 1..(m + 1)
      OBVIOUS
    <3> QED BY <1>1, <1>5, <2>2, <3>1
  <2> QED BY <1>6, <2>1, <2>2
<1>14. ASSUME NEW i \in 1..(m + 1), NEW l \in 1..Len(b[i])
       PROVE  \E k \in 1..(a + c) : new[k] = b[i][l]
  <2>1. CASE i = m + 1
    <3>1. l \in 1..c /\ new[a + l] = b[i][l]
      BY <1>1, <1>5, <1>6, <2>1
    <3>2. a + l \in 1..(a + c)
      BY <3>1
    <3> QED BY <3>1, <3>2
  <2>2. CASE i # m + 1
    <3>1. i \in 1..m
      BY <2>2
    <3>2. PICK k \in 1..a : line[k] = b[i][l]
      BY <1>7, <3>1
    <3>3. k \in 1..(a + c) /\ new[k] = line[k]
      BY <1>6
    <3> QED BY <3>2, <3>3
  <2> QED BY <2>1, <2>2
<1> QED BY <1>1, <1>4, <1>6, <1>10, <1>12, <1>13, <1>14 DEF Joined

LEMMA FlattenApart ==
  ASSUME NEW E, NEW n \in Nat, NEW lo \in Nat, NEW hi \in Nat, NEW b, Apart(n, b, E, lo, hi)
  PROVE  Joined(n, b, E, lo, hi, flattenNodes(b))
<1>1. b \in Seq(Seq(E)) /\ Len(b) = n
  BY DEF Apart
<1>2. PICK t \in [0..n -> Seq(E)] : Joins(n, b, t) /\ flattenNodes(b) = t[n]
  BY <1>1, FlattenIs
<1> DEFINE T == {m \in Nat : m <= n => Joined(m, b, E, lo, hi, t[m])}
<1>3. 0 \in T
  <2>1. <<>> \in Seq(E) /\ Len(<<>>) = 0 /\ 1..0 = {} /\ 0 * lo = 0 /\ 0 * hi = 0
    OBVIOUS
  <2>2. Joined(0, b, E, lo, hi, <<>>)
    BY <2>1 DEF Joined
  <2> QED BY <1>2, <2>2 DEF Joins
<1>4. ASSUME NEW m \in Nat, m \in T PROVE m + 1 \in T
  <2>1. SUFFICES ASSUME m + 1 <= n PROVE Joined(m + 1, b, E, lo, hi, t[m + 1])
    OBVIOUS
  <2>2. m <= n /\ m + 1 \in 1..n /\ (m + 1) - 1 = m
    BY <2>1
  <2>3. t[m + 1] = t[m] \o b[m + 1]
    BY <1>2, <2>2 DEF Joins
  <2>4. Joined(m, b, E, lo, hi, t[m])
    BY <1>4, <2>2
  <2> QED BY <2>1, <2>3, <2>4, JoinStep
<1> HIDE DEF T
<1>5. T = Nat
  <2>1. T \in SUBSET Nat
    BY DEF T
  <2> QED BY <1>3, <1>4, <2>1, Inductive
<1>6. n \in T /\ n <= n
  BY <1>5
<1>7. Joined(n, b, E, lo, hi, t[n])
  BY <1>6 DEF T
<1> QED BY <1>2, <1>7

\* A list of lists of which only one is not empty is that one when joined.
OnlyOne(E, n, b, i) ==
  /\ b \in Seq(Seq(E)) /\ n \in Nat /\ Len(b) = n /\ i \in 1..n
  /\ \A k \in 1..n : k # i => b[k] = <<>>

LEMMA FlattenOne ==
  ASSUME NEW E, NEW n, NEW b, NEW i, OnlyOne(E, n, b, i)
  PROVE  flattenNodes(b) = b[i]
<1>0. /\ b \in Seq(Seq(E)) /\ n \in Nat /\ Len(b) = n /\ i \in 1..n
      /\ \A k \in 1..n : k # i => b[k] = <<>>
  BY DEF OnlyOne
<1>1. PICK t \in [0..n -> Seq(E)] : Joins(n, b, t) /\ flattenNodes(b) = t[n]
  BY <1>0, FlattenIs
<1>2. PICK u : u = b[i]
  OBVIOUS
<1>3. u \in Seq(E)
  BY <1>0, <1>2
<1> DEFINE T == {m \in Nat : m <= n => t[m] = IF m < i THEN <<>> ELSE u}
<1>4. 0 \in T
  BY <1>0, <1>1 DEF Joins
<1>5. ASSUME NEW m \in Nat, m \in T PROVE m + 1 \in T
  <2>1. SUFFICES ASSUME m + 1 <= n PROVE t[m + 1] = IF m + 1 < i THEN <<>> ELSE u
    BY <1>0
  <2>2. m <= n /\ m + 1 \in 1..n /\ (m + 1) - 1 = m
    BY <1>0, <2>1
  <2>3. t[m + 1] = t[m] \o b[m + 1]
    BY <1>0, <1>1, <2>2 DEF Joins
  <2>4. t[m] = IF m < i THEN <<>> ELSE u
    BY <1>0, <1>5, <2>2
  <2>5. <<>> \o u = u /\ u \o <<>> = u /\ <<>> \o <<>> = <<>>
    BY <1>3
  <2>6. CASE m + 1 = i
    <3>1. m < i /\ ~(m + 1 < i) /\ b[m + 1] = u
      BY <1>0, <1>2, <2>6
    <3> QED BY <2>3, <2>4, <2>5, <3>1
  <2>7. CASE m + 1 # i
    <3>1. b[m + 1] = <<>>
      BY <1>0, <2>2, <2>7
    <3>2. CASE m < i
      BY <1>0, <2>3, <2>4, <2>5, <2>7, <3>1, <3>2
    <3>3. CASE ~(m < i)
      BY <1>0, <2>3, <2>4, <2>5, <2>7, <3>1, <3>3
    <3> QED BY <3>2, <3>3
  <2> QED BY <2>6, <2>7
<1> HIDE DEF T
<1>6. T = Nat
  <2>1. T \in SUBSET Nat
    BY DEF T
  <2> QED BY <1>4, <1>5, <2>1, Inductive
<1>7. t[n] = u
  <2>1. n \in T /\ n <= n /\ ~(n < i)
    BY <1>0, <1>6
  <2> QED BY <2>1 DEF T
<1> QED BY <1>1, <1>2, <1>7

-----------------------------------------------------------------------------
(* Nodes that are dealt out. *)

Singles(n, res, E) ==
  /\ res \in Seq(Seq(E)) /\ Len(res) = n
  /\ \A i \in 1..n : Len(res[i]) = 1
  /\ \A i, j \in 1..n : res[i][1] = res[j][1] => i = j

\* The first nodes of res, in parts with room for no more than most.
Dealt(res, count, most, E, m, b) ==
  /\ Apart(count, b, E, 1, most)
  /\ \A i \in 1..count : \A k \in 1..Len(b[i]) : \E r \in 1..(count + m) : b[i][k] = res[r][1]

LEMMA AddedOne ==
  ASSUME NEW E, NEW v \in Seq(E), NEW u \in Seq(E), Len(u) = 1
  PROVE  /\ v \o u \in Seq(E) /\ Len(v \o u) = Len(v) + 1 /\ (v \o u)[Len(v) + 1] = u[1]
         /\ \A k \in 1..Len(v) : (v \o u)[k] = v[k]
<1>1. 1 \in 1..Len(u)
  OBVIOUS
<1> QED BY <1>1, Added

LEMMA SetPart ==
  ASSUME NEW S, NEW b \in Seq(S), NEW x \in 1..Len(b), NEW v \in S
  PROVE  LET new == [b EXCEPT ![x] = v]
         IN  /\ new \in Seq(S) /\ Len(new) = Len(b) /\ new[x] = v
             /\ \A i \in 1..Len(b) : i # x => new[i] = b[i]
  OBVIOUS

\* One more node goes to the part with number x.
LEMMA DealStep ==
  ASSUME NEW E, NEW n \in Nat, NEW res, Singles(n, res, E), NEW count \in Nat, NEW most \in Nat,
         NEW m \in Nat, count + m + 1 <= n, NEW b, Dealt(res, count, most, E, m, b),
         NEW x \in 1..count, ~(Len(b[x]) >= most)
  PROVE  Dealt(res, count, most, E, m + 1, [b EXCEPT ![x] = @ \o res[count + m + 1]])
<1>0. PICK r \in Nat : r = count + m + 1
  OBVIOUS
<1>1. PICK u, new : u = res[r] /\ r = count + m + 1 /\ new = [b EXCEPT ![x] = b[x] \o u]
  BY <1>0
<1>2. r \in 1..n /\ r \notin 1..(count + m)
  BY <1>1
<1>3. u \in Seq(E) /\ Len(u) = 1 /\ u[1] \in E
  BY <1>1, <1>2 DEF Singles
<1>4. /\ b \in Seq(Seq(E)) /\ Len(b) = count
      /\ \A i \in 1..count : b[i] \in Seq(E) /\ 1 <= Len(b[i]) /\ Len(b[i]) <= most
      /\ \A i, j \in 1..count : \A k \in 1..Len(b[i]), l \in 1..Len(b[j]) :
           b[i][k] = b[j][l] => i = j /\ k = l
      /\ \A i \in 1..count : \A k \in 1..Len(b[i]) : \E q \in 1..(count + m) : b[i][k] = res[q][1]
  BY DEF Dealt, Apart
<1>5. PICK a \in Nat : a = Len(b[x])
  BY <1>4
<1>6. /\ b[x] \o u \in Seq(E) /\ Len(b[x] \o u) = a + 1
      /\ (b[x] \o u)[a + 1] = u[1]
      /\ \A k \in 1..a : (b[x] \o u)[k] = b[x][k]
  <2>1. PICK v \in Seq(E) : v = b[x]
    BY <1>4
  <2>2. /\ v \o u \in Seq(E) /\ Len(v \o u) = Len(v) + 1 /\ (v \o u)[Len(v) + 1] = u[1]
        /\ \A k \in 1..Len(v) : (v \o u)[k] = v[k]
    BY <1>3, AddedOne
  <2> QED BY <1>5, <2>1, <2>2, Zenon
<1>7. /\ new \in Seq(Seq(E)) /\ Len(new) = count /\ new[x] = b[x] \o u
      /\ \A i \in 1..count : i # x => new[i] = b[i]
  <2>1. PICK v \in Seq(E) : v = b[x] \o u
    BY <1>6
  <2>2. new = [b EXCEPT ![x] = v] /\ x \in 1..Len(b)
    BY <1>1, <1>4, <2>1
  <2> QED BY <1>4, <2>1, <2>2, SetPart
<1>8. \A i \in 1..count : \A k \in 1..Len(b[i]) : b[i][k] # u[1]
  <2> SUFFICES ASSUME NEW i \in 1..count, NEW k \in 1..Len(b[i]) PROVE b[i][k] # u[1]
    OBVIOUS
  <2>1. PICK q \in 1..(count + m) : b[i][k] = res[q][1]
    BY <1>4
  <2>2. q \in 1..n /\ q # r
    BY <1>2
  <2>3. res[q][1] # res[r][1]
    BY <1>2, <2>2 DEF Singles
  <2> QED BY <1>1, <2>1, <2>3
\* Where a node of the new parts comes from.
<1>9. ASSUME NEW i \in 1..count, NEW k \in 1..Len(new[i])
      PROVE  \/ k \in 1..Len(b[i]) /\ new[i][k] = b[i][k]
             \/ i = x /\ k = a + 1 /\ new[i][k] = u[1]
  <2>1. CASE i = x
    <3>1. k \in 1..a \/ k = a + 1
      BY <1>6, <1>7, <2>1
    <3> QED BY <1>5, <1>6, <1>7, <2>1, <3>1
  <2>2. CASE i # x
    BY <1>7, <2>2
  <2> QED BY <2>1, <2>2
<1>10. \A i \in 1..count : 1 <= Len(new[i]) /\ Len(new[i]) <= most
  <2> SUFFICES ASSUME NEW i \in 1..count PROVE 1 <= Len(new[i]) /\ Len(new[i]) <= most
    OBVIOUS
  <2>1. CASE i = x
    BY <1>4, <1>5, <1>6, <1>7, <2>1
  <2>2. CASE i # x
    BY <1>4, <1>7, <2>2
  <2> QED BY <2>1, <2>2
<1>11. ASSUME NEW i \in 1..count, NEW j \in 1..count,
              NEW k \in 1..Len(new[i]), NEW l \in 1..Len(new[j]), new[i][k] = new[j][l]
       PROVE  i = j /\ k = l
  <2>1. CASE k \in 1..Len(b[i]) /\ new[i][k] = b[i][k]
    <3>1. new[j][l] # u[1]
      BY <1>8, <1>11, <2>1
    <3>2. l \in 1..Len(b[j]) /\ new[j][l] = b[j][l]
      BY <1>9, <3>1
    <3>3. b[i][k] = b[j][l]
      BY <1>11, <2>1, <3>2
    <3> QED BY <1>4, <2>1, <3>2, <3>3
  <2>2. CASE i = x /\ k = a + 1 /\ new[i][k] = u[1]
    <3>1. ~(l \in 1..Len(b[j]) /\ new[j][l] = b[j][l])
      BY <1>8, <1>11, <2>2
    <3>2. j = x /\ l = a + 1
      BY <1>9, <3>1
    <3> QED BY <2>2, <3>2
  <2> QED BY <1>9, <2>1, <2>2
<1>12. ASSUME NEW i \in 1..count, NEW k \in 1..Len(new[i])
       PROVE  \E q \in 1..(count + (m + 1)) : new[i][k] = res[q][1]
  <2>1. CASE k \in 1..Len(b[i]) /\ new[i][k] = b[i][k]
    <3>1. PICK q \in 1..(count + m) : b[i][k] = res[q][1]
      BY <1>4, <2>1
    <3>2. q \in 1..(count + (m + 1))
      OBVIOUS
    <3> QED BY <2>1, <3>1, <3>2
  <2>2. CASE new[i][k] = u[1]
    <3>1. r \in 1..(count + (m + 1))
      BY <1>1
    <3> QED BY <1>1, <2>2, <3>1
  <2> QED BY <1>9, <2>1, <2>2
<1>13. Apart(count, new, E, 1, most)
  BY <1>7, <1>10, <1>11 DEF Apart
<1>14. Dealt(res, count, most, E, m + 1, new)
  BY <1>12, <1>13 DEF Dealt
<1>15. new = [b EXCEPT ![x] = @ \o res[count + m + 1]]
  BY <1>1
<1> QED BY <1>14, <1>15

\* The parts before any of the nodes that are left is dealt out.
LEMMA DealStart ==
  ASSUME NEW E, NEW n \in Nat, NEW res, Singles(n, res, E), NEW count \in Nat, count <= n,
         NEW most \in Nat, most > 0
  PROVE  Dealt(res, count, most, E, 0, SubSeq(res, 1, count))
<1>1. PICK b : b = SubSeq(res, 1, count)
  OBVIOUS
<1>2. b \in Seq(Seq(E)) /\ Len(b) = count /\ \A i \in 1..count : b[i] = res[i] /\ i \in 1..n
  BY <1>1 DEF Singles
<1>3. \A i \in 1..count : Len(b[i]) = 1
  <2>1. \A i \in 1..n : Len(res[i]) = 1
    BY DEF Singles
  <2> QED BY <1>2, <2>1
<1>4. \A i \in 1..count : \A k \in 1..Len(b[i]) : k = 1
  <2>1. \A k \in 1..1 : k = 1
    OBVIOUS
  <2> QED BY <1>3, <2>1, Zenon
<1>5. Apart(count, b, E, 1, most)
  <2>1. \A i, j \in 1..count : b[i][1] = b[j][1] => i = j
    BY <1>2 DEF Singles
  <2> QED BY <1>2, <1>3, <1>4, <2>1 DEF Apart
<1>6. \A i \in 1..count : \A k \in 1..Len(b[i]) : \E r \in 1..(count + 0) : b[i][k] = res[r][1]
  <2> SUFFICES ASSUME NEW i \in 1..count, NEW k \in 1..Len(b[i])
               PROVE  \E r \in 1..(count + 0) : b[i][k] = res[r][1]
    OBVIOUS
  <2>1. k = 1 /\ b[i] = res[i] /\ i \in 1..(count + 0)
    BY <1>2, <1>4
  <2> QED BY <2>1
<1> QED BY <1>1, <1>5, <1>6 DEF Dealt

LEMMA Remainder ==
  ASSUME NEW k \in Nat, NEW count \in Nat, count > 0
  PROVE  (k % count) + 1 \in 1..count
  OBVIOUS

LEMMA FirstPart ==
  ASSUME NEW S, NEW s \in Seq(S), NEW k \in Nat, k <= Len(s)
  PROVE  /\ SubSeq(s, 1, k) \in Seq(S) /\ Len(SubSeq(s, 1, k)) = k
         /\ SubSeq(s, 1, k) \in [1..k -> S] /\ \A i \in 1..k : SubSeq(s, 1, k)[i] = s[i]
<1>1. PICK b : b = SubSeq(s, 1, k)
  OBVIOUS
<1>2. b \in Seq(S) /\ Len(b) = k /\ \A i \in 1..k : b[i] = s[i]
  BY <1>1
<1>3. b \in [1..k -> S]
  BY <1>2
<1> QED BY <1>1, <1>2, <1>3

DealState(count, E) == [full : BOOLEAN, res : [1..count -> Seq(E)]]
DealNext(res, count, most, i, acc) ==
  LET index == ((i - 1) % count) + 1
  IN  IF acc.full \/ Len(acc.res[index]) >= most
      THEN [full |-> TRUE, res |-> acc.res]
      ELSE [full |-> FALSE, res |-> [acc.res EXCEPT ![index] = @ \o res[count + i]]]

LEMMA DealNextType ==
  ASSUME NEW E, NEW n \in Nat, NEW res \in Seq(Seq(E)), Len(res) = n, NEW count \in Nat,
         count > 0, NEW most, NEW i \in 1..(n - count), NEW acc \in DealState(count, E)
  PROVE  DealNext(res, count, most, i, acc) \in DealState(count, E)
<1>1. PICK index \in 1..count : index = ((i - 1) % count) + 1
  BY Remainder
<1>2. PICK u \in Seq(E) : u = res[count + i]
  OBVIOUS
<1>3. acc.full \in BOOLEAN /\ acc.res \in [1..count -> Seq(E)]
  BY DEF DealState
<1>4. acc.res[index] \in Seq(E)
  BY <1>3
<1>5. PICK v \in Seq(E) : v = acc.res[index] \o u
  <2>1. PICK w \in Seq(E) : w = acc.res[index]
    BY <1>4
  <2>2. w \o u \in Seq(E)
    OBVIOUS
  <2> QED BY <2>1, <2>2
<1>6. [acc.res EXCEPT ![index] = v] \in [1..count -> Seq(E)]
  BY <1>3
<1>7. DealNext(res, count, most, i, acc) =
        IF acc.full \/ Len(acc.res[index]) >= most THEN [full |-> TRUE, res |-> acc.res]
        ELSE [full |-> FALSE, res |-> [acc.res EXCEPT ![index] = v]]
  BY <1>1, <1>2, <1>5 DEF DealNext
<1> QED BY <1>3, <1>6, <1>7 DEF DealState

LEMMA DealtOutApart ==
  ASSUME NEW E, NEW n \in Nat, NEW res, Singles(n, res, E), NEW count \in Nat,
         0 < count, count <= n, NEW most \in Nat, most > 0
  PROVE  Apart(count, dealtOut(res, count, most), E, 1, most)
<1>0. res \in Seq(Seq(E)) /\ Len(res) = n
  BY DEF Singles
<1>a. PICK l \in Nat : l = n - count
  OBVIOUS
<1> DEFINE S == DealState(count, E)
           first == [full |-> FALSE, res |-> SubSeq(res, 1, count)]
           G == [i \in 1..l |-> [acc \in S |-> DealNext(res, count, most, i, acc)]]
           Def(f) == [i \in 0..l |-> IF i = 0 THEN first
                                     ELSE DealNext(res, count, most, i, f[i - 1])]
           deal == CHOOSE f : f = Def(f)
<1>1. first \in S
  <2>1. PICK S1 : S1 = Seq(E)
    OBVIOUS
  <2>2. SubSeq(res, 1, count) \in [1..count -> S1]
    BY <1>0, <2>1, FirstPart
  <2> QED BY <2>1, <2>2 DEF DealState
<1>2. G \in [1..l -> [S -> S]]
  <2> SUFFICES ASSUME NEW i \in 1..l, NEW acc \in S PROVE DealNext(res, count, most, i, acc) \in S
    OBVIOUS
  <2> QED BY <1>0, <1>a, DealNextType
<1>3. PICK t \in [0..l -> S] : Chain(l, first, G, t)
  <2> HIDE DEF G, S, first
  <2> QED BY <1>1, <1>2, ChainExists
<1>4. t = Def(t)
  <2>1. ASSUME NEW i \in 0..l
        PROVE  t[i] = IF i = 0 THEN first ELSE DealNext(res, count, most, i, t[i - 1])
    <3>1. CASE i = 0
      BY <1>3, <3>1 DEF Chain
    <3>2. CASE i # 0
      <4>1. i \in 1..l /\ i - 1 \in 0..l
        BY <3>2
      <4>2. t[i - 1] \in S /\ t[i] = G[i][t[i - 1]]
        BY <1>3, <4>1 DEF Chain
      <4> HIDE DEF S
      <4>3. G[i][t[i - 1]] = DealNext(res, count, most, i, t[i - 1])
        BY <4>1, <4>2
      <4> QED BY <3>2, <4>2, <4>3
    <3> QED BY <3>1, <3>2
  <2> HIDE DEF S, first
  <2> QED BY <1>3, <2>1
<1>5. dealtOut(res, count, most) = deal[l].res
  BY <1>0, <1>a DEF dealtOut, DealNext
<1>6. deal = Def(deal)
  <2> HIDE DEF Def
  <2> QED BY <1>4
<1> HIDE DEF deal
<1>7. deal[0] = first /\ \A i \in 1..l : deal[i] = DealNext(res, count, most, i, deal[i - 1])
  <2> HIDE DEF first
  <2>1. \A i \in 0..l : deal[i] = IF i = 0 THEN first ELSE DealNext(res, count, most, i, deal[i - 1])
    BY <1>6
  <2>2. 0 \in 0..l /\ \A i \in 1..l : i \in 0..l /\ i # 0
    OBVIOUS
  <2> QED BY <2>1, <2>2
<1> DEFINE T == {m \in Nat : m <= l => Dealt(res, count, most, E, m, deal[m].res)}
<1>8. 0 \in T
  <2>1. Dealt(res, count, most, E, 0, deal[0].res)
    BY <1>7, DealStart
  <2> QED BY <2>1
<1>9. ASSUME NEW m \in Nat, m \in T PROVE m + 1 \in T
  <2>1. SUFFICES ASSUME m + 1 <= l PROVE Dealt(res, count, most, E, m + 1, deal[m + 1].res)
    OBVIOUS
  <2>2. m + 1 \in 1..l /\ (m + 1) - 1 = m /\ m <= l /\ count + m + 1 <= n /\ count + (m + 1) = count + m + 1
    BY <1>a, <2>1
  <2>3. PICK acc : acc = deal[m]
    OBVIOUS
  <2>4. Dealt(res, count, most, E, m, acc.res)
    BY <1>9, <2>2, <2>3
  <2>5. PICK x \in 1..count : x = (m % count) + 1
    BY Remainder
  <2>6. deal[m + 1] = IF acc.full \/ Len(acc.res[x]) >= most
                      THEN [full |-> TRUE, res |-> acc.res]
                      ELSE [full |-> FALSE, res |-> [acc.res EXCEPT ![x] = @ \o res[count + m + 1]]]
    <3>1. deal[m + 1] = DealNext(res, count, most, m + 1, acc)
      BY <1>7, <2>2, <2>3
    <3> QED BY <2>2, <2>5, <3>1 DEF DealNext
  <2>7. CASE acc.full \/ Len(acc.res[x]) >= most
    <3>1. deal[m + 1].res = acc.res
      BY <2>6, <2>7
    <3>2. Apart(count, acc.res, E, 1, most)
      BY <2>4 DEF Dealt
    <3>3. ASSUME NEW i \in 1..count, NEW k \in 1..Len(acc.res[i])
          PROVE  \E r \in 1..(count + (m + 1)) : acc.res[i][k] = res[r][1]
      <4>1. PICK r \in 1..(count + m) : acc.res[i][k] = res[r][1]
        BY <2>4 DEF Dealt
      <4>2. r \in 1..(count + (m + 1))
        OBVIOUS
      <4> QED BY <4>1, <4>2
    <3> QED BY <3>1, <3>2, <3>3 DEF Dealt
  <2>8. CASE ~(acc.full \/ Len(acc.res[x]) >= most)
    <3>1. deal[m + 1].res = [acc.res EXCEPT ![x] = @ \o res[count + m + 1]]
      BY <2>6, <2>8
    <3>2. Dealt(res, count, most, E, m + 1, [acc.res EXCEPT ![x] = @ \o res[count + m + 1]])
      BY <2>2, <2>4, <2>8, DealStep
    <3> QED BY <3>1, <3>2
  <2> QED BY <2>7, <2>8
<1> HIDE DEF T
<1>10. T = Nat
  <2>1. T \in SUBSET Nat
    BY DEF T
  <2> QED BY <1>8, <1>9, <2>1, Inductive
<1>11. l \in T /\ l <= l
  BY <1>10
<1>12. Dealt(res, count, most, E, l, deal[l].res)
  BY <1>11 DEF T
<1> QED BY <1>5, <1>12 DEF Dealt

-----------------------------------------------------------------------------
(* Buckets. *)

Members(b) == {b[k] : k \in 1..Len(b)}

\* Some of the nodes, none of them twice.
Bucket(b, E) ==
  /\ b \in Seq(E) /\ 1 <= Len(b) /\ Len(b) = Cardinality(Members(b))
  /\ \A k, l \in 1..Len(b) : b[k] = b[l] => k = l

\* The buckets of the base, of which there is one for each group.
Buckets(base, E, groups) ==
  /\ IsFiniteSet(base)
  /\ \A b \in base : Bucket(b, E) /\ Members(b) \in groups
  /\ \A g \in groups : \E b \in base : Members(b) = g
  /\ \A b, c \in base : \A k \in 1..Len(b), l \in 1..Len(c) : b[k] = c[l] => b = c

GroupsIn(s, E) ==
  IF s.attribute = "" THEN {{n} : n \in E}
  ELSE {{n \in E : Attribute(n, s.attribute) = Attribute(m, s.attribute)} : m \in E}

LEMMA ImageFinite ==
  ASSUME NEW S, IsFiniteSet(S), NEW f
  PROVE  IsFiniteSet({f[x] : x \in S})
<1> DEFINE T == {f[x] : x \in S}
           g == [x \in S |-> f[x]]
<1>1. g \in Surjection(S, T)
  BY DEF Surjection
<1> HIDE DEF T, g
<1>2. IsFiniteSet(T)
  BY <1>1, FS_Surjection
<1> QED BY <1>2 DEF T

LEMMA SameCount ==
  ASSUME NEW base, NEW E, NEW groups, Buckets(base, E, groups)
  PROVE  /\ IsFiniteSet(groups) /\ Cardinality(groups) = Cardinality(base)
         /\ Cardinality(base) \in Nat
<1> DEFINE f == [b \in base |-> Members(b)]
<1>1. f \in [base -> groups]
  BY DEF Buckets
<1>2. f \in Surjection(base, groups)
  BY <1>1 DEF Surjection, Buckets
<1>3. ASSUME NEW b \in base, NEW c \in base, f[b] = f[c] PROVE b = c
  <2>1. 1 \in 1..Len(b)
    BY DEF Buckets, Bucket
  <2>2. b[1] \in Members(c)
    BY <1>3, <2>1 DEF Members
  <2>3. PICK l \in 1..Len(c) : b[1] = c[l]
    BY <2>2 DEF Members
  <2> QED BY <2>1, <2>3 DEF Buckets
<1>4. f \in Injection(base, groups)
  BY <1>1, <1>3 DEF Injection, IsInjective
<1>5. ExistsBijection(base, groups)
  BY <1>2, <1>4 DEF ExistsBijection, Bijection
<1>6. IsFiniteSet(base)
  BY DEF Buckets
<1> HIDE DEF f
<1> QED BY <1>5, <1>6, FS_Bijection, FS_CardinalityType

\* A set of nodes in their order is a bucket.
LEMMA BucketIs ==
  ASSUME NEW E \in SUBSET Nodes, NEW S \in SUBSET E, S # {}, IsFiniteSet(S), Nodes \subseteq Nat,
         NEW b, b = sorted(S, [n \in Nodes |-> n])
  PROVE  Bucket(b, E) /\ Members(b) = S
<1>0. PICK key : key = [n \in Nodes |-> n]
  OBVIOUS
<1>1. b = sorted(S, key)
  BY <1>0
<1>2. Keyed(S, key)
  BY <1>0 DEF Keyed
<1>3. PICK c \in Nat : c = Cardinality(S)
  BY FS_CardinalityType
<1>4. /\ b \in [1..c -> S]
      /\ \A i, j \in 1..c : b[i] = b[j] => i = j
      /\ \A x \in S : \E i \in 1..c : b[i] = x
  <2>1. Lists(c, b, S)
    BY <1>1, <1>2, <1>3, SortedIs
  <2> QED BY <2>1 DEF Lists
<1>5. b \in Seq(S) /\ Len(b) = c
  BY <1>4
<1>6. Members(b) = S
  <2>1. \A i \in 1..c : b[i] \in S
    BY <1>4
  <2>2. Members(b) = {b[i] : i \in 1..c}
    BY <1>5 DEF Members
  <2> QED BY <1>4, <2>1, <2>2, Zenon
<1>7. c # 0
  BY <1>3, FS_EmptySet
<1>8. b \in Seq(E)
  <2>1. b \in [1..c -> E]
    BY <1>4
  <2> QED BY <2>1
<1>9. 1 <= c
  BY <1>7
<1> QED BY <1>3, <1>4, <1>5, <1>6, <1>8, <1>9 DEF Bucket

LEMMA BucketOfOne ==
  ASSUME NEW E, NEW n \in E
  PROVE  Bucket(<<n>>, E) /\ Members(<<n>>) = {n} /\ Len(<<n>>) = 1
<1>1. PICK b : b = <<n>>
  OBVIOUS
<1>2. b \in Seq(E) /\ Len(b) = 1 /\ b[1] = n
  BY <1>1
<1>3. 1..Len(b) = {1}
  BY <1>2
<1>4. Members(b) = {n}
  <2>1. Members(b) = {b[k] : k \in {1}}
    BY <1>3 DEF Members
  <2> QED BY <1>2, <2>1
<1>5. Cardinality({n}) = 1
  BY FS_Singleton
<1>6. \A k, l \in 1..Len(b) : k = l
  BY <1>3
<1> QED BY <1>1, <1>2, <1>4, <1>5, <1>6 DEF Bucket

LEMMA BaseOfNodes ==
  ASSUME NEW s, s.attribute = "", NEW E \in SUBSET Nodes, IsFiniteSet(E)
  PROVE  /\ Buckets(getSelectionBase(s, E), E, GroupsIn(s, E))
         /\ \A b \in getSelectionBase(s, E) : Len(b) = 1
<1>1. PICK base : base = getSelectionBase(s, E)
  OBVIOUS
<1>2. PICK groups : groups = GroupsIn(s, E)
  OBVIOUS
<1>3. base = {<<n>> : n \in E} /\ groups = {{n} : n \in E}
  BY <1>1, <1>2 DEF getSelectionBase, GroupsIn
<1>4. \A n \in E : Bucket(<<n>>, E) /\ Members(<<n>>) = {n} /\ Len(<<n>>) = 1
  BY BucketOfOne
<1>5. IsFiniteSet(base)
  <2> DEFINE f == [n \in E |-> <<n>>]
  <2>1. base = {f[n] : n \in E}
    BY <1>3
  <2> HIDE DEF f
  <2> QED BY <2>1, ImageFinite
<1>6. \A b \in base : Bucket(b, E) /\ Members(b) \in groups /\ Len(b) = 1
  BY <1>3, <1>4, Zenon
<1>7. \A g \in groups : \E b \in base : Members(b) = g
  BY <1>3, <1>4, Zenon
<1>8. ASSUME NEW b \in base, NEW c \in base, NEW k \in 1..Len(b), NEW l \in 1..Len(c), b[k] = c[l]
      PROVE  b = c
  <2>1. PICK m \in E : b = <<m>>
    BY <1>3
  <2>2. PICK n \in E : c = <<n>>
    BY <1>3
  <2>3. b[k] \in Members(b) /\ c[l] \in Members(c)
    BY DEF Members
  <2>4. m = n
    BY <1>4, <1>8, <2>1, <2>2, <2>3
  <2> QED BY <2>1, <2>2, <2>4
<1> QED BY <1>1, <1>2, <1>5, <1>6, <1>7, <1>8 DEF Buckets

LEMMA BaseOfValues ==
  ASSUME NEW s, s.attribute # "", NEW E \in SUBSET Nodes, IsFiniteSet(E), Nodes \subseteq Nat
  PROVE  Buckets(getSelectionBase(s, E), E, GroupsIn(s, E))
<1>1. PICK base : base = getSelectionBase(s, E)
  OBVIOUS
<1>2. PICK groups : groups = GroupsIn(s, E)
  OBVIOUS
<1>3. PICK a : a = [n \in E |-> Attribute(n, s.attribute)]
  OBVIOUS
<1>4. PICK g : g = [m \in E |-> {n \in E : a[n] = a[m]}]
  OBVIOUS
<1>5. PICK f : f = [m \in E |-> sorted(g[m], [n \in Nodes |-> n])]
  OBVIOUS
<1>6. groups = {g[m] : m \in E}
  <2>1. groups = {{n \in E : Attribute(n, s.attribute) = Attribute(m, s.attribute)} : m \in E}
    BY <1>2 DEF GroupsIn
  <2>2. \A m \in E : g[m] = {n \in E : Attribute(n, s.attribute) = Attribute(m, s.attribute)}
    BY <1>3, <1>4
  <2> QED BY <2>1, <2>2, Zenon
<1>7. base = {f[m] : m \in E}
  <2>1. base = {sorted({n \in E : Attribute(n, s.attribute) = v}, [n \in Nodes |-> n]) :
                  v \in {Attribute(n, s.attribute) : n \in E}}
    BY <1>1 DEF getSelectionBase
  <2>2. base = {sorted({n \in E : Attribute(n, s.attribute) = Attribute(m, s.attribute)}, [n \in Nodes |-> n]) :
                  m \in E}
    BY <2>1
  <2>3. \A m \in E : g[m] = {n \in E : Attribute(n, s.attribute) = Attribute(m, s.attribute)}
    BY <1>3, <1>4
  <2>4. \A m \in E : f[m] = sorted({n \in E : Attribute(n, s.attribute) = Attribute(m, s.attribute)}, [n \in Nodes |-> n])
    BY <1>5, <2>3
  <2> QED BY <2>2, <2>4
<1>8. \A m \in E : /\ m \in g[m] /\ g[m] \in SUBSET E /\ IsFiniteSet(g[m])
  BY <1>4, FS_Subset
<1>9. \A m \in E : Bucket(f[m], E) /\ Members(f[m]) = g[m]
  <2> SUFFICES ASSUME NEW m \in E PROVE Bucket(f[m], E) /\ Members(f[m]) = g[m]
    OBVIOUS
  <2>1. PICK S : S = g[m]
    OBVIOUS
  <2>2. S \in SUBSET E /\ IsFiniteSet(S) /\ S # {}
    BY <1>8, <2>1
  <2>3. PICK b : b = f[m]
    OBVIOUS
  <2>4. b = sorted(S, [n \in Nodes |-> n])
    BY <1>5, <2>1, <2>3
  <2>5. Bucket(b, E) /\ Members(b) = S
    BY <2>2, <2>4, BucketIs
  <2> QED BY <2>1, <2>3, <2>5
<1>10. IsFiniteSet(base)
  BY <1>7, ImageFinite
<1>11. \A b \in base : \E m \in E : b = f[m]
  BY <1>7
<1>12. \A m \in E : g[m] \in groups
  BY <1>6
<1>13. \A b \in base : Bucket(b, E) /\ Members(b) \in groups
  BY <1>9, <1>11, <1>12, Zenon
<1>14. \A x \in groups : \E b \in base : Members(b) = x
  BY <1>6, <1>7, <1>9, Zenon
<1>15. ASSUME NEW b \in base, NEW c \in base, NEW k \in 1..Len(b), NEW l \in 1..Len(c), b[k] = c[l]
       PROVE  b = c
  <2>1. PICK m \in E : b = f[m]
    BY <1>11
  <2>a. PICK o \in E : c = f[o]
    BY <1>11
  <2>b. b[k] \in Members(b) /\ c[l] \in Members(c)
    BY DEF Members
  <2>2. b[k] \in g[m] /\ b[k] \in g[o]
    BY <1>9, <1>15, <2>1, <2>a, <2>b, Zenon
  <2>3. a[m] = a[o]
    BY <1>4, <2>2
  <2>4. g[m] = g[o]
    BY <1>4, <2>3
  <2> QED BY <1>5, <2>1, <2>a, <2>4
<1> QED BY <1>1, <1>2, <1>10, <1>13, <1>14, <1>15 DEF Buckets

-----------------------------------------------------------------------------
(* What a selector chooses. *)

LEMMA MinTwo ==
  ASSUME NEW a \in Nat, NEW b \in Nat
  PROVE  /\ Min({a, b}) \in Nat /\ Min({a, b}) <= a /\ Min({a, b}) <= b
         /\ Min({a, b}) = a \/ Min({a, b}) = b
<1>1. \E x \in {a, b} : \A y \in {a, b} : x <= y
  OBVIOUS
<1>2. Min({a, b}) \in {a, b} /\ \A y \in {a, b} : Min({a, b}) <= y
  BY <1>1 DEF Min
<1> QED BY <1>2

\* How many buckets with how many nodes.
Counts(s, cbf, buckets, least, most) ==
  /\ calcNodesCount(s) = [buckets |-> buckets, nodes |-> least] /\ most = least * cbf
  /\ buckets \in Nat /\ least \in Nat /\ most \in Nat
  /\ 0 < buckets /\ 0 < least /\ least <= most
  /\ buckets * least = s.count /\ buckets * most = s.count * cbf
  /\ IF s.clause = "SAME" THEN buckets = 1 /\ least = s.count ELSE buckets = s.count /\ least = 1

LEMMA CountsExist ==
  ASSUME NEW s, s.count \in Nat, s.count > 0, NEW cbf \in Nat, cbf > 0
  PROVE  \E buckets, least, most : Counts(s, cbf, buckets, least, most)
<1>1. PICK n \in Nat : n = s.count
  OBVIOUS
<1>2. n * cbf \in Nat /\ n <= n * cbf
  <2>1. PICK d \in Nat : cbf = d + 1
    <3>1. cbf - 1 \in Nat /\ cbf = (cbf - 1) + 1
      OBVIOUS
    <3> QED BY <3>1
  <2>2. n * (d + 1) = n * d + n /\ n * d \in Nat
    OBVIOUS
  <2> QED BY <2>1, <2>2
<1>3. CASE s.clause = "SAME"
  <2>1. 1 * n = n /\ 1 * (n * cbf) = n * cbf
    BY <1>2
  <2>2. Counts(s, cbf, 1, n, n * cbf)
    BY <1>1, <1>2, <1>3, <2>1 DEF Counts, calcNodesCount
  <2> QED BY <2>2
<1>4. CASE s.clause # "SAME"
  <2>1. n * 1 = n /\ 1 * cbf = cbf
    OBVIOUS
  <2>2. Counts(s, cbf, n, 1, 1 * cbf)
    BY <1>1, <1>2, <1>4, <2>1 DEF Counts, calcNodesCount
  <2> QED BY <2>2
<1> QED BY <1>3, <1>4

\* The first nodes of each bucket.
CutTo(order, most) == [i \in DOMAIN order |-> SubSeq(order[i], 1, Min({most, Len(order[i])}))]
Cut(n, res, order, base, E, least, most) ==
  /\ Apart(n, res, E, least, most)
  /\ \A i \in 1..n : order[i] \in base
  /\ \A i \in 1..n : \A k \in 1..Len(res[i]) : res[i][k] \in Members(order[i])
  /\ \A i \in 1..n : Len(res[i]) = Min({most, Len(order[i])})

LEMMA CutApart ==
  ASSUME NEW base, NEW E, NEW groups, Buckets(base, E, groups),
         NEW usable \in SUBSET base, NEW n, NEW order, Lists(n, order, usable),
         NEW least \in Nat, NEW most \in Nat, least <= most,
         \A b \in usable : least <= Len(b),
         NEW res, res = CutTo(order, most)
  PROVE  Cut(n, res, order, base, E, least, most)
<1>1. n \in Nat /\ order \in [1..n -> usable] /\ \A i, j \in 1..n : order[i] = order[j] => i = j
  BY DEF Lists
<1>2. \A i \in 1..n : order[i] \in usable /\ order[i] \in base /\ order[i] \in Seq(E)
  BY <1>1 DEF Buckets, Bucket
<1>3. ASSUME NEW i \in 1..n
      PROVE  /\ res[i] \in Seq(E) /\ least <= Len(res[i]) /\ Len(res[i]) <= most
             /\ Len(res[i]) = Min({most, Len(order[i])})
             /\ \A k \in 1..Len(res[i]) : k \in 1..Len(order[i]) /\ res[i][k] = order[i][k]
  <2>1. PICK b \in Seq(E) : b = order[i]
    BY <1>2
  <2>2. PICK l \in Nat : l = Min({most, Len(b)}) /\ l <= most /\ l <= Len(b) /\ (l = most \/ l = Len(b))
    BY MinTwo
  <2>3. res[i] = SubSeq(b, 1, l)
    BY <1>1, <2>1, <2>2 DEF CutTo
  <2>4. res[i] \in Seq(E) /\ Len(res[i]) = l /\ \A k \in 1..l : res[i][k] = b[k]
    <3>1. PICK r : r = SubSeq(b, 1, l)
      OBVIOUS
    <3>2. r \in Seq(E) /\ Len(r) = l /\ \A k \in 1..l : r[k] = b[k]
      <4>1. l <= Len(b)
        BY <2>2
      <4> QED BY <3>1, <4>1
    <3> QED BY <2>3, <3>1, <3>2
  <2>5. least <= Len(b)
    BY <1>2, <2>1
  <2>6. least <= l
    BY <2>2, <2>5
  <2>7. \A k \in 1..l : k \in 1..Len(b)
    BY <2>2
  <2> QED BY <2>1, <2>2, <2>4, <2>6, <2>7, Zenon
<1>4. res \in Seq(Seq(E)) /\ Len(res) = n
  <2>1. DOMAIN res = 1..n /\ res = [i \in 1..n |-> res[i]]
    BY <1>1 DEF CutTo
  <2>2. PICK S : S = Seq(E)
    OBVIOUS
  <2>3. \A i \in 1..n : res[i] \in S
    BY <1>3, <2>2
  <2>4. res \in [1..n -> S]
    BY <2>1, <2>3
  <2>5. res \in Seq(S) /\ Len(res) = n
    BY <1>1, <2>4
  <2> QED BY <2>2, <2>5
<1>5. ASSUME NEW i \in 1..n, NEW j \in 1..n, NEW k \in 1..Len(res[i]), NEW l \in 1..Len(res[j]),
             res[i][k] = res[j][l]
      PROVE  i = j /\ k = l
  <2>1. /\ k \in 1..Len(order[i]) /\ res[i][k] = order[i][k]
        /\ l \in 1..Len(order[j]) /\ res[j][l] = order[j][l]
    BY <1>3
  <2>2. order[i] = order[j]
    <3>1. PICK b \in base, c \in base : b = order[i] /\ c = order[j]
      BY <1>2
    <3>2. k \in 1..Len(b) /\ l \in 1..Len(c) /\ b[k] = c[l]
      BY <1>5, <2>1, <3>1, Zenon
    <3> QED BY <3>1, <3>2, Zenon DEF Buckets
  <2>3. i = j
    BY <1>1, <2>2
  <2>4. Bucket(order[i], E)
    BY <1>2 DEF Buckets
  <2>5. k = l
    BY <1>5, <2>1, <2>3, <2>4 DEF Bucket
  <2> QED BY <2>3, <2>5
<1>6. Apart(n, res, E, least, most)
  BY <1>3, <1>4, <1>5 DEF Apart
<1>7. \A i \in 1..n : \A k \in 1..Len(res[i]) : res[i][k] \in Members(order[i])
  BY <1>3 DEF Members
<1> QED BY <1>2, <1>3, <1>6, <1>7 DEF Cut

LEMMA ApartFirst ==
  ASSUME NEW E, NEW n \in Nat, NEW m \in Nat, m <= n, NEW lo, NEW hi,
         NEW res, Apart(n, res, E, lo, hi)
  PROVE  Apart(m, SubSeq(res, 1, m), E, lo, hi)
<1>1. PICK b : b = SubSeq(res, 1, m)
  OBVIOUS
<1>2. PICK S : S = Seq(E)
  OBVIOUS
<1>3. res \in Seq(S) /\ Len(res) = n
  BY <1>2 DEF Apart
<1>4. b \in Seq(S) /\ Len(b) = m /\ \A i \in 1..m : b[i] = res[i]
  BY <1>1, <1>3, FirstPart
<1>5. \A i \in 1..m : i \in 1..n
  OBVIOUS
<1>6. \A i \in 1..m : lo <= Len(b[i]) /\ Len(b[i]) <= hi
  BY <1>4, <1>5, Zenon DEF Apart
<1>7. ASSUME NEW i \in 1..m, NEW j \in 1..m, NEW k \in 1..Len(b[i]), NEW l \in 1..Len(b[j]),
             b[i][k] = b[j][l]
      PROVE  i = j /\ k = l
  <2>1. b[i] = res[i] /\ b[j] = res[j] /\ i \in 1..n /\ j \in 1..n
    BY <1>4, <1>5
  <2>2. k \in 1..Len(res[i]) /\ l \in 1..Len(res[j]) /\ res[i][k] = res[j][l]
    BY <1>7, <2>1, Zenon
  <2>3. \A q, r \in 1..n : \A x \in 1..Len(res[q]), y \in 1..Len(res[r]) :
          res[q][x] = res[r][y] => q = r /\ x = y
    BY DEF Apart
  <2> QED BY <2>1, <2>2, <2>3, Zenon
<1> QED BY <1>1, <1>2, <1>4, <1>6, <1>7 DEF Apart

Usable(base, buckets, least, most) ==
  IF Cardinality({b \in base : Len(b) >= most}) >= buckets THEN {b \in base : Len(b) >= most}
  ELSE {b \in base : Len(b) >= most} \cup fallbackOf(base, least, most)

EnoughIn(s, groups) ==
  IF s.clause = "SAME" THEN \E g \in groups : Cardinality(g) >= s.count
  ELSE Cardinality(groups) >= s.count

Used(usable, base, buckets, least) ==
  /\ usable \in SUBSET base /\ IsFiniteSet(usable) /\ Cardinality(usable) \in Nat
  /\ \A b \in usable : least <= Len(b)
  /\ Cardinality(usable) < buckets => usable = {b \in base : least <= Len(b)}

LEMMA UsableIs ==
  ASSUME NEW base, NEW E, NEW groups, Buckets(base, E, groups),
         NEW buckets \in Nat, NEW least \in Nat, NEW most \in Nat, least <= most,
         NEW usable, usable = Usable(base, buckets, least, most)
  PROVE  Used(usable, base, buckets, least)
<1>1. \A b \in base : Len(b) \in Nat
  BY DEF Buckets, Bucket
<1>2. PICK l : l = {b \in base : Len(b) >= most}
  OBVIOUS
<1>3. PICK r : r = fallbackOf(base, least, most)
  OBVIOUS
<1>4. r = {b \in base : least <= Len(b) /\ Len(b) < most}
  BY <1>3 DEF fallbackOf
<1>5. usable = IF Cardinality(l) >= buckets THEN l ELSE l \cup r
  BY <1>2, <1>3 DEF Usable
<1>6. l \in SUBSET base /\ r \in SUBSET base
  BY <1>2, <1>4
<1>7. usable \in SUBSET base
  BY <1>5, <1>6
<1>8. IsFiniteSet(base)
  BY DEF Buckets
<1>9. IsFiniteSet(usable) /\ Cardinality(usable) \in Nat /\ IsFiniteSet(l) /\ Cardinality(l) \in Nat
  BY <1>6, <1>7, <1>8, FS_Subset, FS_CardinalityType
<1>10. \A b \in l \cup r : least <= Len(b)
  BY <1>1, <1>2, <1>4
<1>11. \A b \in usable : least <= Len(b)
  BY <1>5, <1>10
<1>12. ASSUME Cardinality(usable) < buckets PROVE usable = {b \in base : least <= Len(b)}
  <2>1. usable = l \cup r
    BY <1>5, <1>9, <1>12
  <2>2. \A b \in base : least <= Len(b) => b \in l \/ b \in r
    BY <1>1, <1>2, <1>4
  <2> QED BY <1>7, <1>11, <2>1, <2>2
<1> QED BY <1>7, <1>9, <1>11, <1>12 DEF Used

\* Too few buckets can be used only if the groups do not suffice.
LEMMA TooFew ==
  ASSUME NEW s, NEW cbf, NEW buckets, NEW least, NEW most, Counts(s, cbf, buckets, least, most),
         NEW base, NEW E, NEW groups, Buckets(base, E, groups),
         NEW usable, usable = Usable(base, buckets, least, most), Cardinality(usable) < buckets
  PROVE  ~EnoughIn(s, groups)
<1>1. buckets \in Nat /\ least \in Nat /\ most \in Nat /\ least <= most
  BY DEF Counts
<1>2. /\ IsFiniteSet(usable) /\ Cardinality(usable) \in Nat
      /\ usable = {b \in base : least <= Len(b)}
  <2>1. Used(usable, base, buckets, least)
    BY <1>1, UsableIs
  <2> QED BY <2>1 DEF Used
<1>3. CASE s.clause = "SAME"
  <2>1. buckets = 1 /\ least = s.count
    BY <1>3 DEF Counts
  <2>2. usable = {}
    BY <1>2, <2>1, FS_EmptySet
  <2>3. ASSUME NEW g \in groups, Cardinality(g) >= s.count PROVE FALSE
    <3>1. PICK b \in base : Members(b) = g
      BY DEF Buckets
    <3>2. Len(b) = Cardinality(g)
      BY <3>1 DEF Buckets, Bucket
    <3>3. Len(b) \in Nat
      BY DEF Buckets, Bucket
    <3>4. least <= Len(b)
      BY <1>1, <2>1, <2>3, <3>2, <3>3
    <3> QED BY <1>2, <2>2, <3>4
  <2> QED BY <1>3, <2>3 DEF EnoughIn
<1>4. CASE s.clause # "SAME"
  <2>1. buckets = s.count /\ least = 1
    BY <1>4 DEF Counts
  <2>2. \A b \in base : 1 <= Len(b)
    BY DEF Buckets, Bucket
  <2>3. usable = base
    BY <1>2, <2>1, <2>2
  <2>4. Cardinality(groups) = Cardinality(base)
    BY SameCount
  <2>5. ~(Cardinality(groups) >= s.count)
    <3>1. PICK x \in Nat : x = Cardinality(usable) /\ x = Cardinality(groups)
      BY <1>2, <2>3, <2>4
    <3>2. x < s.count /\ s.count \in Nat
      BY <1>1, <2>1, <3>1
    <3> QED BY <3>1, <3>2
  <2> QED BY <1>4, <2>5 DEF EnoughIn
<1> QED BY <1>3, <1>4

Answer(s, buckets, most, usable, res) ==
  IF Cardinality(usable) < buckets THEN Selection("error", <<>>)
  ELSE IF s.attribute # "" THEN Selection("ok", SubSeq(res, 1, buckets))
  ELSE IF buckets > 0 THEN Selection("ok", dealtOut(res, buckets, most))
  ELSE IF usable = {} THEN Selection("ok", <<>>)
  ELSE Selection("panic", <<>>)

\* Nodes from as many buckets as the selector asks for.
Chosen(s, cbf, base, E, b) ==
  \E buckets, least, most :
    /\ Counts(s, cbf, buckets, least, most)
    /\ Apart(buckets, b, E, least, most)
    /\ s.attribute # "" =>
         \E o \in [1..buckets -> base] :
           /\ \A i, j \in 1..buckets : o[i] = o[j] => i = j
           /\ \A i \in 1..buckets : \A k \in 1..Len(b[i]) : b[i][k] \in Members(o[i])

Choice(s, cbf, base, E, groups, rank) ==
  /\ s.count \in Nat /\ s.count > 0 /\ cbf \in Nat /\ cbf > 0
  /\ Nodes \subseteq Nat /\ E \subseteq Nodes /\ rank \in [Nodes -> Nodes] /\ IsInjective(rank)
  /\ Buckets(base, E, groups)
  /\ s.attribute = "" => \A b \in base : Len(b) = 1

LEMMA SelectionOfIs ==
  ASSUME NEW s, NEW cbf, NEW base, NEW E, NEW groups, NEW rank, Choice(s, cbf, base, E, groups, rank),
         NEW sel, sel = selectionOf(s, cbf, base, rank)
  PROVE  \/ sel.kind = "error" /\ ~EnoughIn(s, groups)
         \/ sel.kind = "ok" /\ Chosen(s, cbf, base, E, sel.buckets)
<1>0. /\ s.count \in Nat /\ s.count > 0 /\ cbf \in Nat /\ cbf > 0
      /\ Nodes \subseteq Nat /\ E \subseteq Nodes /\ rank \in [Nodes -> Nodes] /\ IsInjective(rank)
      /\ Buckets(base, E, groups)
  BY DEF Choice
<1>1. PICK buckets, least, most : Counts(s, cbf, buckets, least, most)
  BY <1>0, CountsExist
<1>2. /\ buckets \in Nat /\ least \in Nat /\ most \in Nat
      /\ 0 < buckets /\ 0 < least /\ least <= most
      /\ calcNodesCount(s) = [buckets |-> buckets, nodes |-> least] /\ most = least * cbf
  BY <1>1 DEF Counts
<1>3. PICK usable : usable = Usable(base, buckets, least, most)
  OBVIOUS
<1>4. PICK key : key = [b \in usable |-> rank[b[1]]]
  OBVIOUS
<1>5. PICK order : order = sorted(usable, key)
  OBVIOUS
<1>6. PICK res : res = CutTo(order, most)
  OBVIOUS
<1>7. sel = Answer(s, buckets, most, usable, res)
  <2>1. PICK c : c = calcNodesCount(s)
    OBVIOUS
  <2>2. c.buckets = buckets /\ c.nodes = least
    BY <1>2, <2>1
  <2>3. sel = LET u == Usable(base, c.buckets, c.nodes, c.nodes * cbf)
              IN  Answer(s, c.buckets, c.nodes * cbf, u,
                         CutTo(sorted(u, [b \in u |-> rank[b[1]]]), c.nodes * cbf))
    BY <2>1 DEF selectionOf, Usable, CutTo, Answer
  <2> QED BY <1>2, <1>3, <1>4, <1>5, <1>6, <2>2, <2>3
<1>8. /\ usable \in SUBSET base /\ IsFiniteSet(usable) /\ Cardinality(usable) \in Nat
      /\ \A b \in usable : least <= Len(b)
  <2>1. Used(usable, base, buckets, least)
    BY <1>0, <1>2, <1>3, UsableIs
  <2> QED BY <2>1 DEF Used
<1>9. PICK n \in Nat : n = Cardinality(usable)
  BY <1>8
<1>10. CASE n < buckets
  <2>1. ~EnoughIn(s, groups)
    BY <1>0, <1>1, <1>3, <1>9, <1>10, TooFew
  <2>2. sel = Selection("error", <<>>)
    BY <1>7, <1>9, <1>10, Zenon DEF Answer
  <2> QED BY <2>1, <2>2 DEF Selection
<1>11. CASE ~(n < buckets)
  <2>1. Keyed(usable, key)
    <3>1. ASSUME NEW b \in usable PROVE b[1] \in Nodes /\ b \in base /\ 1 \in 1..Len(b)
      <4>1. b \in base /\ b \in Seq(E) /\ 1 <= Len(b)
        BY <1>0, <1>8 DEF Buckets, Bucket
      <4>2. b[1] \in E /\ 1 \in 1..Len(b)
        BY <4>1
      <4> QED BY <1>0, <4>1, <4>2, Zenon
    <3>2. \A b \in usable : key[b] = rank[b[1]] /\ key[b] \in Nat
      BY <1>0, <1>4, <3>1
    <3>3. ASSUME NEW b \in usable, NEW c \in usable, key[b] = key[c] PROVE b = c
      <4>1. b[1] = c[1]
        <5>1. rank[b[1]] = rank[c[1]] /\ b[1] \in Nodes /\ c[1] \in Nodes /\ DOMAIN rank = Nodes
          BY <1>0, <3>1, <3>2, <3>3
        <5> QED BY <1>0, <5>1, Zenon DEF IsInjective
      <4> QED BY <1>0, <3>1, <4>1 DEF Buckets
    <3> QED BY <3>2, <3>3 DEF Keyed
  <2>2. Lists(n, order, usable)
    BY <1>5, <1>8, <1>9, <2>1, SortedIs
  <2>3. /\ Apart(n, res, E, least, most)
        /\ \A i \in 1..n : order[i] \in base
        /\ \A i \in 1..n : \A k \in 1..Len(res[i]) : res[i][k] \in Members(order[i])
        /\ \A i \in 1..n : Len(res[i]) = Min({most, Len(order[i])})
    <3>1. Cut(n, res, order, base, E, least, most)
      BY <1>0, <1>2, <1>6, <1>8, <2>2, CutApart
    <3> QED BY <3>1 DEF Cut
  <2>4. buckets <= n
    BY <1>2, <1>11
  <2>5. CASE s.attribute # ""
    <3>1. sel.kind = "ok" /\ sel.buckets = SubSeq(res, 1, buckets)
      <4>1. sel = Selection("ok", SubSeq(res, 1, buckets))
        BY <1>7, <1>9, <1>11, <2>5, Zenon DEF Answer
      <4>2. PICK x : x = SubSeq(res, 1, buckets)
        OBVIOUS
      <4>3. sel = Selection("ok", x)
        BY <4>1, <4>2
      <4>4. sel.kind = "ok" /\ sel.buckets = x
        BY <4>3 DEF Selection
      <4> QED BY <4>2, <4>4, Zenon
    <3>2. Apart(buckets, sel.buckets, E, least, most)
      BY <1>2, <2>3, <2>4, <3>1, ApartFirst
    <3>3. PICK o : o = [i \in 1..buckets |-> order[i]]
      OBVIOUS
    <3>4. \A i \in 1..buckets : i \in 1..n /\ o[i] = order[i]
      BY <1>2, <2>4, <3>3
    <3>5. o \in [1..buckets -> base]
      BY <2>3, <3>3, <3>4
    <3>6. \A i, j \in 1..buckets : o[i] = o[j] => i = j
      BY <2>2, <3>4, Zenon DEF Lists
    <3>7. \A i \in 1..buckets : sel.buckets[i] = res[i]
      BY <1>2, <2>3, <2>4, <3>1, FirstPart DEF Apart
    <3>8. \A i \in 1..buckets : \A k \in 1..Len(sel.buckets[i]) : sel.buckets[i][k] \in Members(o[i])
      BY <2>3, <3>4, <3>7, Zenon
    <3>9. Chosen(s, cbf, base, E, sel.buckets)
      BY <1>1, <3>2, <3>5, <3>6, <3>8 DEF Chosen
    <3> QED BY <3>1, <3>9
  <2>6. CASE s.attribute = ""
    <3>1. sel.kind = "ok" /\ sel.buckets = dealtOut(res, buckets, most)
      <4>1. buckets > 0
        BY <1>2
      <4>2. sel = Selection("ok", dealtOut(res, buckets, most))
        BY <1>7, <1>9, <1>11, <2>6, <4>1, Zenon DEF Answer
      <4> QED BY <4>2 DEF Selection
    <3>2. \A b \in base : Len(b) = 1
      BY <2>6 DEF Choice
    <3>3. \A i \in 1..n : Len(res[i]) = 1
      <4>1. \A i \in 1..n : Len(res[i]) = Min({most, 1})
        BY <2>3, <3>2
      <4>2. Min({most, 1}) = 1
        BY <1>2, MinTwo
      <4> QED BY <4>1, <4>2
    <3>4. Singles(n, res, E)
      <4>1. \A i \in 1..n : 1 \in 1..Len(res[i])
        BY <3>3
      <4>2. \A i, j \in 1..n : res[i][1] = res[j][1] => i = j
        BY <2>3, <4>1, Zenon DEF Apart
      <4> QED BY <2>3, <3>3, <4>2 DEF Singles, Apart
    <3>5. Apart(buckets, sel.buckets, E, 1, most)
      BY <1>2, <2>4, <3>1, <3>4, DealtOutApart
    <3>6. least = 1
      <4>1. usable # {}
        BY <1>2, <1>8, <1>9, <2>4, FS_EmptySet
      <4>2. PICK b \in usable : TRUE
        BY <4>1
      <4>3. least <= 1
        BY <1>8, <3>2, <4>2
      <4> QED BY <1>2, <4>3
    <3>7. Chosen(s, cbf, base, E, sel.buckets)
      BY <1>1, <2>6, <3>5, <3>6 DEF Chosen
    <3> QED BY <3>1, <3>7
  <2> QED BY <2>5, <2>6
<1> QED BY <1>10, <1>11

-----------------------------------------------------------------------------
(* Lines. *)

Touched(groups, line) == {g \in groups : g \cap Range(line) # {}}

\* What a line promises.
LineKept(s, cbf, E, groups, line) ==
  /\ IsInjective(line) /\ Range(line) \subseteq E
  /\ s.count <= Len(line) /\ Len(line) <= s.count * cbf
  /\ s.clause = "SAME" /\ s.attribute # "" => Cardinality(Touched(groups, line)) = 1
  /\ s.clause # "SAME" /\ s.attribute # "" => Cardinality(Touched(groups, line)) = s.count

\* The bucket each part is from.
From(n, o, b, base) ==
  /\ o \in [1..n -> base] /\ \A i, j \in 1..n : o[i] = o[j] => i = j
  /\ \A i \in 1..n : \A k \in 1..Len(b[i]) : b[i][k] \in Members(o[i])

Traced(n, lo, hi, base, E, groups, b, line, o) ==
  /\ Buckets(base, E, groups) /\ n \in Nat /\ lo \in Nat /\ hi \in Nat /\ 0 < lo
  /\ Apart(n, b, E, lo, hi) /\ Joined(n, b, E, lo, hi, line) /\ From(n, o, b, base)

\* A group is touched if one of its nodes was chosen.
LEMMA TouchedCount ==
  ASSUME NEW base, NEW E, NEW groups, NEW n, NEW lo, NEW hi, NEW b, NEW line, NEW o,
         Traced(n, lo, hi, base, E, groups, b, line, o)
  PROVE  Cardinality(Touched(groups, line)) = n
<1> SUFFICES ASSUME Buckets(base, E, groups), n \in Nat, lo \in Nat, hi \in Nat, 0 < lo,
                    Apart(n, b, E, lo, hi), Joined(n, b, E, lo, hi, line), From(n, o, b, base)
             PROVE  Cardinality(Touched(groups, line)) = n
  BY DEF Traced
<1>0. /\ o \in [1..n -> base] /\ \A i, j \in 1..n : o[i] = o[j] => i = j
      /\ \A i \in 1..n : \A k \in 1..Len(b[i]) : b[i][k] \in Members(o[i])
  BY DEF From
<1>1. PICK touched : touched = Touched(groups, line)
  OBVIOUS
<1>2. PICK f : f = [i \in 1..n |-> Members(o[i])]
  OBVIOUS
<1>3. line \in Seq(E) /\ DOMAIN line = 1..Len(line)
  BY DEF Joined
<1>4. Range(line) = {line[k] : k \in 1..Len(line)}
  BY <1>3 DEF Range
\* Two buckets with a common node are the same.
<1>5. ASSUME NEW c \in base, NEW d \in base, NEW x, x \in Members(c), x \in Members(d) PROVE c = d
  <2>1. PICK k \in 1..Len(c) : x = c[k]
    BY <1>5 DEF Members
  <2>2. PICK l \in 1..Len(d) : x = d[l]
    BY <1>5 DEF Members
  <2> QED BY <2>1, <2>2 DEF Buckets
<1>6. ASSUME NEW i \in 1..n PROVE f[i] \in touched
  <2>1. f[i] = Members(o[i]) /\ o[i] \in base
    BY <1>0, <1>2
  <2>2. f[i] \in groups
    BY <2>1 DEF Buckets
  <2>3. 1 \in 1..Len(b[i])
    <3>1. lo <= Len(b[i]) /\ b[i] \in Seq(E)
      BY DEF Apart
    <3> QED BY <3>1
  <2>4. PICK k \in 1..Len(line) : line[k] = b[i][1]
    BY <2>3 DEF Joined
  <2>5. b[i][1] \in f[i]
    BY <1>0, <2>1, <2>3
  <2>6. b[i][1] \in Range(line)
    BY <1>4, <2>4
  <2> QED BY <1>1, <2>2, <2>5, <2>6 DEF Touched
<1>7. f \in [1..n -> touched]
  BY <1>2, <1>6
<1>8. ASSUME NEW i \in 1..n, NEW j \in 1..n, f[i] = f[j] PROVE i = j
  <2>1. f[i] = Members(o[i]) /\ f[j] = Members(o[j]) /\ o[i] \in base /\ o[j] \in base
    BY <1>0, <1>2
  <2>2. 1 \in 1..Len(o[i])
    <3>1. PICK c \in base : c = o[i]
      BY <2>1
    <3>2. 1 <= Len(c) /\ c \in Seq(E)
      BY DEF Buckets, Bucket
    <3>3. 1 \in 1..Len(c)
      BY <3>2
    <3> QED BY <3>1, <3>3
  <2>3. o[i][1] \in Members(o[i])
    BY <2>2 DEF Members
  <2>4. o[i] = o[j]
    BY <1>5, <1>8, <2>1, <2>3, Zenon
  <2> QED BY <1>0, <2>4
<1>9. ASSUME NEW g \in touched PROVE \E i \in 1..n : f[i] = g
  <2>1. g \in groups /\ g \cap Range(line) # {}
    BY <1>1 DEF Touched
  <2>2. PICK x : x \in g /\ x \in Range(line)
    BY <2>1
  <2>3. PICK k \in 1..Len(line) : x = line[k]
    BY <1>4, <2>2
  <2>4. PICK i \in 1..n : \E l \in 1..Len(b[i]) : line[k] = b[i][l]
    BY DEF Joined
  <2>5. x \in Members(o[i])
    BY <1>0, <2>3, <2>4
  <2>6. PICK c \in base : Members(c) = g
    BY <2>1 DEF Buckets
  <2>7. c = o[i]
    <3>1. o[i] \in base
      BY <1>0
    <3> QED BY <1>5, <2>2, <2>5, <2>6, <3>1, Zenon
  <2> QED BY <1>2, <2>6, <2>7
<1>10. f \in Bijection(1..n, touched)
  BY <1>7, <1>8, <1>9 DEF Bijection, Injection, Surjection, IsInjective
<1>11. ExistsBijection(1..n, touched)
  BY <1>10 DEF ExistsBijection
<1>12. Cardinality(touched) = n
  BY <1>11, FS_CountingElements
<1> QED BY <1>1, <1>12

LEMMA LineIsKept ==
  ASSUME NEW s, NEW cbf, NEW base, NEW E, NEW groups, Buckets(base, E, groups),
         NEW b, Chosen(s, cbf, base, E, b), NEW line, line = flattenNodes(b)
  PROVE  LineKept(s, cbf, E, groups, line)
<1>1. PICK n, lo, hi :
        /\ Counts(s, cbf, n, lo, hi) /\ Apart(n, b, E, lo, hi)
        /\ s.attribute # "" =>
             \E o \in [1..n -> base] :
               /\ \A i, j \in 1..n : o[i] = o[j] => i = j
               /\ \A i \in 1..n : \A k \in 1..Len(b[i]) : b[i][k] \in Members(o[i])
  BY DEF Chosen
<1>2. n \in Nat /\ lo \in Nat /\ hi \in Nat /\ 0 < lo /\ n * lo = s.count /\ n * hi = s.count * cbf
  BY <1>1 DEF Counts
<1>3. Joined(n, b, E, lo, hi, line)
  BY <1>1, <1>2, FlattenApart
<1>4. /\ line \in Seq(E) /\ s.count <= Len(line) /\ Len(line) <= s.count * cbf
      /\ \A k, l \in 1..Len(line) : line[k] = line[l] => k = l
  BY <1>2, <1>3 DEF Joined
<1>5. DOMAIN line = 1..Len(line) /\ \A k \in 1..Len(line) : line[k] \in E
  BY <1>4
<1>6. IsInjective(line) /\ Range(line) \subseteq E
  BY <1>4, <1>5 DEF IsInjective, Range
<1>7. ASSUME s.attribute # "" PROVE Cardinality(Touched(groups, line)) = n
  <2>1. PICK o : From(n, o, b, base)
    BY <1>1, <1>7 DEF From
  <2>2. Apart(n, b, E, lo, hi)
    BY <1>1
  <2>3. n \in Nat /\ lo \in Nat /\ hi \in Nat /\ 0 < lo
    BY <1>2
  <2>4. Traced(n, lo, hi, base, E, groups, b, line, o)
    BY <1>3, <2>1, <2>2, <2>3 DEF Traced
  <2> QED BY <2>4, TouchedCount
<1>8. IF s.clause = "SAME" THEN n = 1 ELSE n = s.count
  BY <1>1 DEF Counts
<1> QED BY <1>4, <1>6, <1>7, <1>8, Zenon DEF LineKept

-----------------------------------------------------------------------------
(* Filters that were processed. *)

LEMMA InnerIs ==
  ASSUME NEW g \in Filters
  PROVE  /\ g.inner \in Seq(Filters) /\ DOMAIN g.inner \subseteq Nat
         /\ Height[g] \in Nat /\ Height[g] <= Nesting /\ Nesting \in Nat
         /\ \A i \in DOMAIN g.inner :
              /\ g.inner[i] \in Filters /\ Height[g.inner[i]] \in Nat
              /\ Height[g.inner[i]] < Height[g]
<1>0. g.inner \in Seq(InnerFilters) /\ \A i \in DOMAIN g.inner : Height[g.inner[i]] < Height[g]
  BY PlacementAssumption
<1>1. g.inner \in Seq(Filters) /\ \A i \in DOMAIN g.inner : Height[g.inner[i]] < Height[g]
  <2>1. Len(g.inner) \in Nat /\ g.inner \in [1..Len(g.inner) -> Filters]
    BY <1>0 DEF Filters
  <2> QED BY <1>0, <2>1
<1>2. Nesting \in Nat /\ \A h \in Filters : Height[h] \in 0..Nesting
  BY PlacementAssumption
<1>3. \A i \in DOMAIN g.inner : i \in Nat /\ g.inner[i] \in Filters
  BY <1>1
<1> QED BY <1>1, <1>2, <1>3

\* Filters with sound ones inside them, each checked.
Sound(V, names) ==
  /\ V \subseteq Filters
  /\ \A g \in V : checkFilter(g, FALSE, names) /\ \A i \in DOMAIN g.inner : g.inner[i] \in V

LEMMA ValidExists ==
  ASSUME NEW names
  PROVE  \E v : v = [g \in Filters |-> /\ checkFilter(g, FALSE, names)
                                       /\ \A i \in DOMAIN g.inner : v[g.inner[i]]]
<1> DEFINE Ok(v, g) == /\ checkFilter(g, FALSE, names)
                       /\ \A i \in DOMAIN g.inner : v[g.inner[i]]
           Upto(h, v) == \A g \in Filters : Height[g] <= h => v[g] = Ok(v, g)
           T == {h \in Nat : \E v \in [Filters -> BOOLEAN] : Upto(h, v)}
<1>1. \A v : \A g \in Filters : Ok(v, g) \in BOOLEAN
  OBVIOUS
<1>2. ASSUME NEW v \in [Filters -> BOOLEAN], NEW h \in Int, Upto(h, v)
      PROVE  \E w \in [Filters -> BOOLEAN] : Upto(h + 1, w)
  <2> DEFINE w == [g \in Filters |-> IF Height[g] <= h THEN v[g] ELSE Ok(v, g)]
  <2>1. w \in [Filters -> BOOLEAN]
    BY <1>1
  <2>2. ASSUME NEW g \in Filters, Height[g] <= h + 1 PROVE w[g] = Ok(w, g)
    <3>1. \A i \in DOMAIN g.inner : g.inner[i] \in Filters /\ Height[g.inner[i]] <= h
      BY <2>2, InnerIs
    <3>2. \A i \in DOMAIN g.inner : w[g.inner[i]] = v[g.inner[i]]
      BY <3>1
    <3>3. Ok(w, g) = Ok(v, g)
      BY <3>2
    <3>4. w[g] = Ok(v, g)
      <4>1. CASE Height[g] <= h
        <5>1. w[g] = v[g]
          BY <4>1
        <5> QED BY <1>2, <4>1, <5>1
      <4>2. CASE ~(Height[g] <= h)
        BY <4>2
      <4> QED BY <4>1, <4>2
    <3> QED BY <3>3, <3>4
  <2> HIDE DEF w, Ok
  <2>3. Upto(h + 1, w)
    BY <2>2
  <2> QED BY <2>1, <2>3
<1>3. 0 \in T
  <2> DEFINE v == [g \in Filters |-> checkFilter(g, FALSE, names) /\ TRUE]
  <2>1. v \in [Filters -> BOOLEAN]
    BY DEF checkFilter
  <2>2. Upto(-1, v)
    BY InnerIs
  <2>3. (-1) + 1 = 0 /\ -1 \in Int
    OBVIOUS
  <2> HIDE DEF Upto, v
  <2> QED BY <1>2, <2>1, <2>2, <2>3
<1>4. ASSUME NEW m \in Nat, m \in T PROVE m + 1 \in T
  <2> HIDE DEF Upto
  <2>1. PICK v \in [Filters -> BOOLEAN] : Upto(m, v)
    BY <1>4
  <2> QED BY <1>2, <2>1
<1> HIDE DEF T
<1>5. T = Nat
  <2>1. T \in SUBSET Nat
    BY DEF T
  <2> QED BY <1>3, <1>4, <2>1, Inductive
<1>6. Nesting \in T
  BY <1>5, PlacementAssumption
<1>7. PICK v \in [Filters -> BOOLEAN] : Upto(Nesting, v)
  BY <1>6 DEF T
<1>8. \A g \in Filters : v[g] = Ok(v, g)
  <2> HIDE DEF Ok
  <2> QED BY <1>7, InnerIs
<1>9. v = [g \in Filters |-> v[g]]
  BY <1>7
<1>10. v = [g \in Filters |-> Ok(v, g)]
  <2> HIDE DEF Ok
  <2> QED BY <1>8, <1>9
<1> QED BY <1>10

\* What a filter that passes holds.
LEMMA ProcessedIs ==
  ASSUME NEW f, NEW names, processFilter(f, names)
  PROVE  /\ checkFilter(f, TRUE, names)
         /\ \E V : Sound(V, names) /\ \A i \in DOMAIN f.inner : f.inner[i] \in V \/ f.inner[i] \notin Filters
<1> DEFINE Def(w) == [g \in Filters |-> /\ checkFilter(g, FALSE, names)
                                       /\ \A i \in DOMAIN g.inner : w[g.inner[i]]]
           v == CHOOSE w : w = Def(w)
<1>1. v = Def(v)
  <2>1. \E w : w = Def(w)
    BY ValidExists
  <2> HIDE DEF Def
  <2> QED BY <2>1
<1>2. checkFilter(f, TRUE, names) /\ \A i \in DOMAIN f.inner : v[f.inner[i]]
  BY DEF processFilter
<1> HIDE DEF v
<1>3. \A g \in Filters : v[g] = (checkFilter(g, FALSE, names) /\ \A i \in DOMAIN g.inner : v[g.inner[i]])
  BY <1>1
<1> DEFINE V == {g \in Filters : v[g]}
<1>4. Sound(V, names)
  <2>1. ASSUME NEW g \in V
        PROVE  checkFilter(g, FALSE, names) /\ \A i \in DOMAIN g.inner : g.inner[i] \in V
    <3>1. g \in Filters /\ v[g]
      OBVIOUS
    <3>2. checkFilter(g, FALSE, names) /\ \A i \in DOMAIN g.inner : v[g.inner[i]]
      BY <1>3, <3>1, Zenon
    <3>3. \A i \in DOMAIN g.inner : g.inner[i] \in Filters
      BY <3>1, InnerIs
    <3> QED BY <3>2, <3>3
  <2> QED BY <2>1 DEF Sound
<1>5. \A i \in DOMAIN f.inner : f.inner[i] \in V \/ f.inner[i] \notin Filters
  BY <1>2
<1> QED BY <1>2, <1>4, <1>5

\* Filters that are sound, and all within them, pass.
LEMMA SoundPasses ==
  ASSUME NEW V, NEW f, NEW names, Sound(V, names), checkFilter(f, TRUE, names),
         \A i \in DOMAIN f.inner : f.inner[i] \in V
  PROVE  processFilter(f, names)
<1> DEFINE Def(w) == [g \in Filters |-> /\ checkFilter(g, FALSE, names)
                                       /\ \A i \in DOMAIN g.inner : w[g.inner[i]]]
           v == CHOOSE w : w = Def(w)
<1>1. v = Def(v)
  <2>1. \E w : w = Def(w)
    BY ValidExists
  <2> HIDE DEF Def
  <2> QED BY <2>1
<1>2. (\A i \in DOMAIN f.inner : v[f.inner[i]]) => processFilter(f, names)
  BY DEF processFilter
<1> HIDE DEF v
<1>3. \A g \in Filters : v[g] = (checkFilter(g, FALSE, names) /\ \A i \in DOMAIN g.inner : v[g.inner[i]])
  BY <1>1
<1> DEFINE T == {h \in Nat : \A g \in V : Height[g] < h => v[g]}
<1>4. 0 \in T
  <2>1. \A g \in V : ~(Height[g] < 0)
    BY InnerIs DEF Sound
  <2> QED BY <2>1
<1>5. ASSUME NEW h \in Nat, h \in T PROVE h + 1 \in T
  <2> SUFFICES ASSUME NEW g \in V, Height[g] < h + 1 PROVE v[g]
    OBVIOUS
  <2>1. g \in Filters /\ checkFilter(g, FALSE, names) /\ \A i \in DOMAIN g.inner : g.inner[i] \in V
    BY DEF Sound
  <2>2. \A i \in DOMAIN g.inner : Height[g.inner[i]] < h
    BY <2>1, InnerIs
  <2>3. \A i \in DOMAIN g.inner : v[g.inner[i]]
    BY <1>5, <2>1, <2>2
  <2> QED BY <1>3, <2>1, <2>3, Zenon
<1>6. T = Nat
  <2> HIDE DEF T
  <2>1. T \in SUBSET Nat
    BY DEF T
  <2> QED BY <1>4, <1>5, <2>1, Inductive
<1>7. ASSUME NEW g \in V PROVE v[g]
  <2>1. g \in Filters /\ Height[g] + 1 \in Nat /\ Height[g] < Height[g] + 1
    BY InnerIs DEF Sound
  <2>2. Height[g] + 1 \in T
    BY <1>6, <2>1
  <2> QED BY <2>1, <2>2
<1> QED BY <1>2, <1>7

\* Well-formed filters pass.
LEMMA WellFormedPasses ==
  ASSUME policy.filters \in Seq(PolicyFilters), NEW k \in DOMAIN policy.filters, WellFormed(k)
  PROVE  processFilter(policy.filters[k], namesBefore(policy, k))
<1> DEFINE Simple(g) == /\ g.inner = <<>>
                        /\ \/ g.op \in {"EQ", "NE"}
                           \/ g.op \in Numeric /\ g.value \in Unsigned
           Refers(g) == /\ g.name \notin {"", mainFilterName}
                        /\ \E j \in 1..(k - 1) : policy.filters[j].name = g.name
<1>1. PICK f : f = policy.filters[k]
  OBVIOUS
<1>2. PICK names : names = namesBefore(policy, k)
  OBVIOUS
<1>3. f \in Filters
  BY <1>1 DEF Filters
<1>4. /\ f.name # "" /\ f.name # mainFilterName
      /\ f.op \in Logical \/ Simple(f)
  BY <1>1, Zenon DEF WellFormed
<1>5. PICK V \in SUBSET InnerFilters :
         /\ \A g \in V \cup {f} : Range(g.inner) \subseteq V
         /\ \A g \in V : \/ g.name = "" /\ (g.op \in Logical \/ Simple(g))
                         \/ Refers(g) /\ (g.op \in Logical \/ g.inner = <<>>)
  BY <1>1, Zenon DEF WellFormed
<1>6. \A g : Refers(g) => g.name \in names /\ g.name # mainFilterName /\ g.name # ""
  BY <1>2 DEF namesBefore
<1>7. \A g \in V \cup {f} : \A i \in DOMAIN g.inner : g.inner[i] \in V
  BY <1>5 DEF Range
<1>8. "" # mainFilterName
  BY DEF mainFilterName
<1>9. \A g : Simple(g) => /\ g.inner = <<>>
                          /\ \/ g.op \in {"EQ", "NE"}
                             \/ g.op \in Numeric /\ IsNumber(g.value)
  BY DEF IsNumber
<1>10. checkFilter(f, TRUE, names)
  BY <1>4, <1>9 DEF checkFilter
<1> HIDE DEF Simple, Refers
<1>11. ASSUME NEW g \in V PROVE checkFilter(g, FALSE, names)
  <2>1. CASE g.name = "" /\ (g.op \in Logical \/ Simple(g))
    BY <1>8, <1>9, <2>1 DEF checkFilter
  <2>2. CASE Refers(g) /\ (g.op \in Logical \/ g.inner = <<>>)
    <3>1. g.name \in names /\ g.name # mainFilterName /\ g.name # ""
      BY <1>6, <2>2
    <3> QED BY <2>2, <3>1 DEF checkFilter
  <2> QED BY <1>5, <2>1, <2>2
<1>12. V \subseteq Filters
  BY DEF Filters
<1>13. Sound(V, names)
  BY <1>7, <1>11, <1>12 DEF Sound
<1>14. processFilter(f, names)
  BY <1>7, <1>10, <1>13, SoundPasses
<1> QED BY <1>1, <1>2, <1>14

-----------------------------------------------------------------------------
(* What a filter says of a node. *)

Answers == {"yes", "no", "endless"}

LEMMA CombinedIs ==
  ASSUME NEW D \in SUBSET Nat, NEW answers \in [D -> Answers], NEW op
  PROVE  /\ combined(op, answers) \in Answers
         /\ (\A i \in D : answers[i] # "endless") /\ op = "AND" =>
              /\ combined(op, answers) \in {"yes", "no"}
              /\ combined(op, answers) = "yes" <=> \A i \in D : answers[i] = "yes"
         /\ (\A i \in D : answers[i] # "endless") /\ op = "OR" =>
              /\ combined(op, answers) \in {"yes", "no"}
              /\ combined(op, answers) = "yes" <=> \E i \in D : answers[i] = "yes"
<1>1. PICK last : last = IF op = "OR" THEN "yes" ELSE "no"
  OBVIOUS
<1>2. PICK stops : stops = {i \in D : answers[i] \in {last, "endless"}}
  OBVIOUS
<1>3. combined(op, answers) = IF stops # {} THEN answers[Min(stops)]
                              ELSE IF op = "OR" THEN "no" ELSE "yes"
  BY <1>1, <1>2 DEF combined
<1>4. ASSUME stops # {} PROVE Min(stops) \in stops
  <2>1. stops \in SUBSET Nat
    BY <1>2
  <2>2. \E x \in stops : \A y \in stops : x <= y
    BY <1>4, <2>1, LeastMember
  <2> QED BY <2>2 DEF Min
<1>5. CASE stops # {}
  <2>1. PICK k \in stops : k = Min(stops)
    BY <1>4, <1>5
  <2>2. k \in D /\ answers[k] \in {last, "endless"} /\ combined(op, answers) = answers[k]
    BY <1>2, <1>3, <1>5, <2>1
  <2>3. answers[k] \in Answers
    BY <2>2
  <2> QED BY <1>1, <2>2, <2>3
<1>6. CASE stops = {}
  <2>1. combined(op, answers) = IF op = "OR" THEN "no" ELSE "yes"
    BY <1>3, <1>6
  <2>2. \A i \in D : answers[i] \in Answers /\ answers[i] # last /\ answers[i] # "endless"
    BY <1>2, <1>6
  <2> QED BY <1>1, <2>1, <2>2 DEF Answers
<1> QED BY <1>5, <1>6

Sub(g, processed) == IF g.name \in DOMAIN processed THEN processed[g.name] ELSE g

\* The answer of a filter, from the answers x of the filters at one call more.
Verdict(x, g, n, processed) ==
  IF g.op \in Logical THEN combined(g.op, [i \in DOMAIN g.inner |-> x[Sub(g.inner[i], processed)]])
  ELSE IF matchKeyValue(g, n) THEN "yes" ELSE "no"

Verdicts(D, n, processed, t) ==
  /\ t \in [0..D -> [Filters -> Answers]]
  /\ \A d \in 1..D : \A g \in Filters : t[d][g] = Verdict(t[d - 1], g, n, processed)

LEMMA SubIs ==
  ASSUME NEW processed, \A name \in DOMAIN processed : processed[name] \in Filters, NEW g \in Filters
  PROVE  Sub(g, processed) \in Filters
  BY DEF Sub

LEMMA VerdictType ==
  ASSUME NEW processed, \A name \in DOMAIN processed : processed[name] \in Filters,
         NEW x \in [Filters -> Answers], NEW g \in Filters, NEW n
  PROVE  Verdict(x, g, n, processed) \in Answers
<1>1. PICK D : D = DOMAIN g.inner
  OBVIOUS
<1>2. D \in SUBSET Nat /\ \A i \in D : g.inner[i] \in Filters
  BY <1>1, InnerIs
<1>3. PICK a : a = [i \in D |-> x[Sub(g.inner[i], processed)]]
  OBVIOUS
<1>4. a \in [D -> Answers]
  BY <1>2, <1>3, SubIs
<1>5. combined(g.op, a) \in Answers
  BY <1>2, <1>4, CombinedIs
<1>6. Verdict(x, g, n, processed) =
        IF g.op \in Logical THEN combined(g.op, a) ELSE IF matchKeyValue(g, n) THEN "yes" ELSE "no"
  BY <1>1, <1>3 DEF Verdict
<1> QED BY <1>5, <1>6 DEF Answers

Known(processed) == \A name \in DOMAIN processed : processed[name] \in Filters

Decided(D, n, f, processed) ==
  \E t : Verdicts(D, n, processed, t) /\ match(policy, f, n, processed) = t[D][f]

LEMMA MatchIs ==
  ASSUME NEW D \in Nat, D = MaxDepth(policy), NEW n, NEW f \in Filters,
         NEW processed, Known(processed)
  PROVE  Decided(D, n, f, processed)
<1> DEFINE S == [Filters -> Answers]
           first == [g \in Filters |-> "endless"]
           V(x) == [g \in Filters |-> Verdict(x, g, n, processed)]
           G == [d \in 1..D |-> [x \in S |-> V(x)]]
           Def(v) == [d \in 0..D |-> [g \in Filters |->
                        IF d = 0 THEN "endless" ELSE Verdict(v[d - 1], g, n, processed)]]
           verdict == CHOOSE v : v = Def(v)
<1>1. first \in S
  BY DEF Answers
<1>2. \A x \in S : V(x) \in S
  BY VerdictType DEF Known
<1>3. G \in [1..D -> [S -> S]]
  <2> HIDE DEF S, V
  <2> QED BY <1>2
<1>4. PICK t \in [0..D -> S] : Chain(D, first, G, t)
  <2> HIDE DEF G, S, first
  <2> QED BY <1>1, <1>3, ChainExists
<1>5. t = Def(t)
  <2>1. ASSUME NEW d \in 0..D
        PROVE  t[d] = [g \in Filters |-> IF d = 0 THEN "endless" ELSE Verdict(t[d - 1], g, n, processed)]
    <3>1. CASE d = 0
      <4>1. t[d] = first
        BY <1>4, <3>1 DEF Chain
      <4> QED BY <3>1, <4>1
    <3>2. CASE d # 0
      <4>1. d \in 1..D /\ d - 1 \in 0..D
        BY <3>2
      <4>2. t[d - 1] \in S /\ t[d] = G[d][t[d - 1]]
        <5> HIDE DEF S, G
        <5> QED BY <1>4, <4>1 DEF Chain
      <4>3. t[d] = V(t[d - 1])
        <5> HIDE DEF S, V
        <5> QED BY <4>1, <4>2
      <4> QED BY <3>2, <4>3
    <3> QED BY <3>1, <3>2
  <2> DEFINE W(d) == [g \in Filters |-> IF d = 0 THEN "endless" ELSE Verdict(t[d - 1], g, n, processed)]
  <2>2. \A d \in 0..D : t[d] = W(d)
    BY <2>1
  <2> HIDE DEF S, W
  <2>3. t = [d \in 0..D |-> W(d)]
    BY <1>4, <2>2
  <2> QED BY <2>3 DEF W
<1>6. match(policy, f, n, processed) = verdict[D][f]
  BY DEF match, Verdict, Sub
<1>7. verdict = Def(verdict)
  <2> HIDE DEF Def
  <2> QED BY <1>5
<1> HIDE DEF verdict
<1>8. \A d \in 0..D : verdict[d] = [g \in Filters |->
                 IF d = 0 THEN "endless" ELSE Verdict(verdict[d - 1], g, n, processed)]
  BY <1>7
<1>9. \A d \in 1..D : verdict[d] = V(verdict[d - 1])
  <2> SUFFICES ASSUME NEW d \in 1..D PROVE verdict[d] = V(verdict[d - 1])
    OBVIOUS
  <2>1. d \in 0..D /\ d # 0
    OBVIOUS
  <2> QED BY <1>8, <2>1
<1>10. verdict[0] = first
  <2>1. 0 \in 0..D
    OBVIOUS
  <2> QED BY <1>8, <2>1
<1> DEFINE T == {m \in Nat : m <= D => verdict[m] \in S}
<1>11. 0 \in T
  BY <1>1, <1>10
<1>12. ASSUME NEW m \in Nat, m \in T PROVE m + 1 \in T
  <2> SUFFICES ASSUME m + 1 <= D PROVE verdict[m + 1] \in S
    OBVIOUS
  <2>1. m + 1 \in 1..D /\ (m + 1) - 1 = m /\ m <= D
    OBVIOUS
  <2>2. verdict[m] \in S /\ verdict[m + 1] = V(verdict[m])
    <3> HIDE DEF S, V
    <3> QED BY <1>9, <1>12, <2>1
  <2> HIDE DEF S, V
  <2> QED BY <1>2, <2>2
<1> HIDE DEF T
<1>13. T = Nat
  <2>1. T \in SUBSET Nat
    BY DEF T
  <2> QED BY <1>11, <1>12, <2>1, Inductive
<1>14. verdict \in [0..D -> S]
  <2> HIDE DEF S
  <2>1. \A d \in 0..D : verdict[d] \in S
    BY <1>13 DEF T
  <2> HIDE DEF Def
  <2>2. verdict = [d \in 0..D |-> verdict[d]]
    BY <1>7 DEF Def
  <2> QED BY <2>1, <2>2
<1>15. Verdicts(D, n, processed, verdict)
  BY <1>9, <1>14 DEF Verdicts
<1> QED BY <1>6, <1>15 DEF Decided

Meets(D, n, u) ==
  u[0] = {} /\ \A d \in 1..D : u[d] = {g \in Filters : Says(n, g, u[d - 1])}

LEMMA MetIs ==
  ASSUME NEW D \in Nat, D = MaxDepth(policy), NEW n
  PROVE  \E u : Meets(D, n, u) /\ Met(n) = u[D]
<1> DEFINE S == SUBSET Filters
           V(x) == {g \in Filters : Says(n, g, x)}
           G == [d \in 1..D |-> [x \in S |-> V(x)]]
           Def(v) == [d \in 0..D |-> IF d = 0 THEN {} ELSE V(v[d - 1])]
           upTo == CHOOSE v : v = Def(v)
<1>1. {} \in S /\ \A x \in S : V(x) \in S
  OBVIOUS
<1>2. G \in [1..D -> [S -> S]]
  <2> HIDE DEF S, V
  <2> QED BY <1>1
<1>3. PICK t \in [0..D -> S] : Chain(D, {}, G, t)
  <2>1. {} \in S
    BY <1>1
  <2> HIDE DEF G, S
  <2> QED BY <1>2, <2>1, ChainExists
<1>4. t = Def(t)
  <2> HIDE DEF V
  <2>1. ASSUME NEW d \in 0..D PROVE t[d] = IF d = 0 THEN {} ELSE V(t[d - 1])
    <3>1. CASE d = 0
      BY <1>3, <3>1 DEF Chain
    <3>2. CASE d # 0
      <4>1. d \in 1..D /\ d - 1 \in 0..D
        BY <3>2
      <4>2. t[d - 1] \in S /\ t[d] = G[d][t[d - 1]]
        <5> HIDE DEF S, G
        <5> QED BY <1>3, <4>1 DEF Chain
      <4>3. t[d] = V(t[d - 1])
        <5> HIDE DEF S
        <5> QED BY <4>1, <4>2
      <4> QED BY <3>2, <4>3
    <3> QED BY <3>1, <3>2
  <2> HIDE DEF S
  <2> QED BY <1>3, <2>1
<1>5. Met(n) = upTo[D]
  BY DEF Met
<1>6. upTo = Def(upTo)
  <2> HIDE DEF Def
  <2> QED BY <1>4
<1> HIDE DEF upTo
<1>7. \A d \in 0..D : upTo[d] = IF d = 0 THEN {} ELSE V(upTo[d - 1])
  <2> HIDE DEF V
  <2> QED BY <1>6
<1>8. upTo[0] = {} /\ \A d \in 1..D : upTo[d] = V(upTo[d - 1])
  <2> HIDE DEF V
  <2>1. 0 \in 0..D /\ \A d \in 1..D : d \in 0..D /\ d # 0
    OBVIOUS
  <2> QED BY <1>7, <2>1
<1>9. Meets(D, n, upTo)
  BY <1>8 DEF Meets
<1> QED BY <1>5, <1>9

-----------------------------------------------------------------------------
(* The filters of a policy decide as they mean. *)

\* A policy whose filters were processed without an error.
Accepted(processed) ==
  /\ policy.filters \in Seq(PolicyFilters) /\ Once(policy.filters)
  /\ ~processFilters(policy).err /\ processed = processFilters(policy).processed

FilterCount == Len(policy.filters)

LEMMA ProcessedByName ==
  ASSUME NEW processed, Accepted(processed), NEW j \in 1..FilterCount
  PROVE  /\ policy.filters[j] \in Filters
         /\ policy.filters[j].name \in DOMAIN processed
         /\ processed[policy.filters[j].name] = policy.filters[j]
<1> DEFINE F == policy.filters
           name == F[j].name
<1>1. F \in Seq(PolicyFilters) /\ DOMAIN F = 1..Len(F) /\ Len(F) \in Nat /\ FilterCount = Len(F)
  BY DEF Accepted, FilterCount
<1>2. F[j] \in Filters
  BY <1>1 DEF Filters
<1>3. processed = [m \in namesBefore(policy, Len(F) + 1) |->
                     F[Max({k \in DOMAIN F : F[k].name = m})]]
  BY DEF Accepted, processFilters
<1>4. name \in namesBefore(policy, Len(F) + 1)
  <2>1. j \in 1..((Len(F) + 1) - 1)
    BY <1>1
  <2> QED BY <2>1 DEF namesBefore
<1>5. {k \in DOMAIN F : F[k].name = name} = {j}
  BY <1>1 DEF Accepted, Once
<1>6. Max({j}) = j
  BY <1>1 DEF Max
<1>7. processed[name] = F[Max({k \in DOMAIN F : F[k].name = name})]
  BY <1>3, <1>4
<1>8. name \in DOMAIN processed
  BY <1>3, <1>4
<1> QED BY <1>2, <1>5, <1>6, <1>7, <1>8

LEMMA ProcessedDomain ==
  ASSUME NEW processed, Accepted(processed)
  PROVE  /\ FilterCount \in Nat /\ DOMAIN policy.filters = 1..FilterCount
         /\ \A name \in DOMAIN processed : \E j \in 1..FilterCount : policy.filters[j].name = name
         /\ \A name \in DOMAIN processed : processed[name] \in Filters
<1> DEFINE F == policy.filters
<1>1. F \in Seq(PolicyFilters) /\ DOMAIN F = 1..Len(F) /\ Len(F) \in Nat /\ FilterCount = Len(F)
  BY DEF Accepted, FilterCount
<1>2. DOMAIN processed = namesBefore(policy, Len(F) + 1)
  BY DEF Accepted, processFilters
<1>3. (Len(F) + 1) - 1 = Len(F)
  BY <1>1
<1>4. \A name \in DOMAIN processed : \E j \in 1..FilterCount : F[j].name = name
  BY <1>1, <1>2, <1>3 DEF namesBefore
<1>5. \A name \in DOMAIN processed : processed[name] \in Filters
  BY <1>4, ProcessedByName
<1> QED BY <1>1, <1>4, <1>5

\* A filter whose inner filters refer only to those before the k-th.
Ready(k, g) ==
  /\ g \in Filters
  /\ \E V : Sound(V, namesBefore(policy, k)) /\ \A i \in DOMAIN g.inner : g.inner[i] \in V

LEMMA TopReady ==
  ASSUME NEW processed, Accepted(processed), NEW k \in 1..FilterCount
  PROVE  Ready(k, policy.filters[k]) /\ policy.filters[k].name # ""
<1>1. PICK f : f = policy.filters[k]
  OBVIOUS
<1>2. f \in Filters
  BY <1>1, ProcessedByName
<1>3. k \in DOMAIN policy.filters
  BY ProcessedDomain
<1>4. processFilter(f, namesBefore(policy, k))
  BY <1>1, <1>3 DEF Accepted, processFilters
<1>5. checkFilter(f, TRUE, namesBefore(policy, k))
  BY <1>4, ProcessedIs
<1>6. PICK V : /\ Sound(V, namesBefore(policy, k))
               /\ \A i \in DOMAIN f.inner : f.inner[i] \in V \/ f.inner[i] \notin Filters
  BY <1>4, ProcessedIs
<1>7. \A i \in DOMAIN f.inner : f.inner[i] \in V
  BY <1>2, <1>6, InnerIs
<1>8. f.name # ""
  BY <1>5 DEF checkFilter
<1> QED BY <1>1, <1>2, <1>6, <1>7, <1>8 DEF Ready

LEMMA InnerReady ==
  ASSUME NEW k, NEW g, Ready(k, g), NEW i \in DOMAIN g.inner
  PROVE  /\ Ready(k, g.inner[i]) /\ g.inner[i] \in Filters
         /\ g.inner[i].name # "" => g.inner[i].name \in namesBefore(policy, k)
<1>1. PICK V : Sound(V, namesBefore(policy, k)) /\ \A j \in DOMAIN g.inner : g.inner[j] \in V
  BY DEF Ready
<1>2. PICK h : h = g.inner[i]
  OBVIOUS
<1>3. h \in V /\ h \in Filters
  BY <1>1, <1>2 DEF Sound
<1>4. checkFilter(h, FALSE, namesBefore(policy, k)) /\ \A j \in DOMAIN h.inner : h.inner[j] \in V
  BY <1>1, <1>3 DEF Sound
<1>5. Ready(k, h)
  BY <1>1, <1>3, <1>4 DEF Ready
<1>6. h.name # "" => h.name \in namesBefore(policy, k)
  BY <1>4 DEF checkFilter
<1> QED BY <1>2, <1>3, <1>5, <1>6

\* How many calls the answer of a filter takes.
Depth(k, g) == (Nesting + 1) * (k - 1) + Height[g] + 1

LEMMA EarlierDepth ==
  ASSUME NEW N \in Nat, NEW j \in Nat, NEW k \in Nat, 1 <= j, j < k
  PROVE  (N + 1) * (j - 1) + N + 1 <= (N + 1) * (k - 1) /\ (N + 1) * (k - 1) \in Nat
<1>1. PICK e \in Nat : k = j + 1 + e
  <2>1. k - j - 1 \in Nat /\ k = j + 1 + (k - j - 1)
    OBVIOUS
  <2> QED BY <2>1
<1>2. PICK i \in Nat : j = i + 1
  <2>1. j - 1 \in Nat /\ j = (j - 1) + 1
    OBVIOUS
  <2> QED BY <2>1
<1>3. (N + 1) * (i + 1 + e) = (N + 1) * i + (N + 1) + (N + 1) * e
  OBVIOUS
<1>4. (N + 1) * e \in Nat /\ (N + 1) * i \in Nat
  OBVIOUS
<1>5. j - 1 = i /\ k - 1 = i + 1 + e
  BY <1>1, <1>2
<1>6. PICK a \in Nat, b \in Nat : a = (N + 1) * i /\ b = (N + 1) * e
  BY <1>4
<1>7. (N + 1) * (j - 1) = a /\ (N + 1) * (k - 1) = a + (N + 1) + b
  BY <1>3, <1>5, <1>6
<1> QED BY <1>7

Meeting(g, met) ==
  IF g.name = "" THEN g \in met
  ELSE \E h \in met \cap Range(policy.filters) : h.name = g.name

LEMMA SaysIs ==
  ASSUME NEW n, NEW f, NEW met
  PROVE  Says(n, f, met) =
           IF f.op = "AND" THEN \A i \in DOMAIN f.inner : Meeting(f.inner[i], met)
           ELSE IF f.op = "OR" THEN \E i \in DOMAIN f.inner : Meeting(f.inner[i], met)
           ELSE matchKeyValue(f, n)
  BY DEF Says, Meeting

\* t and u agree on the filters whose answers take at most d calls.
Agree(d, t, u) ==
  \A k \in 1..FilterCount : \A g \in Filters :
    Ready(k, g) /\ Depth(k, g) <= d => t[g] \in {"yes", "no"} /\ (t[g] = "yes" <=> g \in u)

\* An inner filter, or the one it refers to.
LEMMA InnerAgrees ==
  ASSUME NEW processed, Accepted(processed), NEW m \in Nat, NEW t, NEW u, Agree(m, t, u),
         NEW k \in 1..FilterCount, NEW g, Ready(k, g), Depth(k, g) <= m + 1,
         NEW i \in DOMAIN g.inner
  PROVE  /\ t[Sub(g.inner[i], processed)] \in {"yes", "no"}
         /\ t[Sub(g.inner[i], processed)] = "yes" <=> Meeting(g.inner[i], u)
<1>1. PICK h : h = g.inner[i]
  OBVIOUS
<1>2. Ready(k, h) /\ h \in Filters /\ (h.name # "" => h.name \in namesBefore(policy, k))
  BY <1>1, InnerReady
<1>3. /\ FilterCount \in Nat /\ DOMAIN policy.filters = 1..FilterCount
      /\ \A name \in DOMAIN processed : \E j \in 1..FilterCount : policy.filters[j].name = name
  BY ProcessedDomain
<1>4. g \in Filters
  BY DEF Ready
<1>5. PICK N \in Nat, x \in Nat, y \in Nat :
        N = Nesting /\ x = Height[g] /\ y = Height[h] /\ x <= N /\ y < x
  BY <1>1, <1>4, InnerIs
<1>6. CASE h.name = ""
  <2>1. h.name \notin DOMAIN processed
    BY <1>3, <1>6, TopReady
  <2>2. Sub(h, processed) = h
    BY <2>1 DEF Sub
  <2>3. Depth(k, h) <= m
    <3>1. PICK z \in Int : z = (N + 1) * (k - 1)
      BY <1>3
    <3>2. z + x + 1 <= m + 1
      BY <1>5, <3>1 DEF Depth
    <3>3. z + y + 1 <= m
      BY <1>5, <3>1, <3>2
    <3> QED BY <1>5, <3>1, <3>3 DEF Depth
  <2>4. t[h] \in {"yes", "no"} /\ (t[h] = "yes" <=> h \in u)
    BY <1>2, <2>3 DEF Agree
  <2> QED BY <1>1, <1>6, <2>2, <2>4 DEF Meeting
<1>7. CASE h.name # ""
  <2>1. PICK j \in 1..(k - 1) : policy.filters[j].name = h.name
    BY <1>2, <1>7 DEF namesBefore
  <2>2. j \in 1..FilterCount /\ j \in Nat /\ k \in Nat /\ 1 <= j /\ j < k
    BY <1>3, <2>1
  <2>3. PICK f : f = policy.filters[j]
    OBVIOUS
  <2>4. f \in Filters /\ h.name \in DOMAIN processed /\ processed[h.name] = f
    BY <2>1, <2>2, <2>3, ProcessedByName
  <2>5. Sub(h, processed) = f
    BY <2>4 DEF Sub
  <2>6. Ready(j, f)
    BY <2>2, <2>3, TopReady
  <2>7. Depth(j, f) <= m
    <3>1. Height[f] \in Nat /\ Height[f] <= N
      BY <1>5, <2>4, InnerIs
    <3>2. PICK v \in Int : v = (N + 1) * (j - 1)
      BY <2>2
    <3>3. PICK w \in Int : w = (N + 1) * (k - 1)
      BY <2>2
    <3>4. v + N + 1 <= w
      BY <2>2, <3>2, <3>3, EarlierDepth
    <3>5. w + x + 1 <= m + 1
      BY <1>5, <3>3 DEF Depth
    <3>6. v + Height[f] + 1 <= m
      BY <1>5, <3>1, <3>4, <3>5
    <3> QED BY <1>5, <3>2, <3>6 DEF Depth
  <2>8. t[f] \in {"yes", "no"} /\ (t[f] = "yes" <=> f \in u)
    BY <2>2, <2>4, <2>6, <2>7 DEF Agree
  <2>9. Meeting(h, u) <=> f \in u
    <3>1. f \in Range(policy.filters) /\ f.name = h.name
      BY <1>3, <2>1, <2>2, <2>3 DEF Range
    <3>2. ASSUME NEW e \in Range(policy.filters), e.name = h.name PROVE e = f
      <4>1. PICK l \in DOMAIN policy.filters : e = policy.filters[l]
        BY DEF Range
      <4>2. l = j
        BY <1>3, <2>1, <2>2, <3>2, <4>1 DEF Accepted, Once
      <4> QED BY <2>3, <4>1, <4>2
    <3> QED BY <1>7, <3>1, <3>2 DEF Meeting
  <2> QED BY <1>1, <2>5, <2>8, <2>9
<1> QED BY <1>6, <1>7

\* The answers and their meaning at one call more.
Deeper(n, processed, t, u, t2, u2) ==
  /\ t \in [Filters -> Answers] /\ \A g \in Filters : t2[g] = Verdict(t, g, n, processed)
  /\ u2 = {g \in Filters : Says(n, g, u)}

LEMMA AgreeStep ==
  ASSUME NEW processed, Accepted(processed), NEW m \in Nat, NEW n,
         NEW t, NEW u, Agree(m, t, u), NEW t2, NEW u2, Deeper(n, processed, t, u, t2, u2)
  PROVE  Agree(m + 1, t2, u2)
<1>0. /\ t \in [Filters -> Answers] /\ \A g \in Filters : t2[g] = Verdict(t, g, n, processed)
      /\ u2 = {g \in Filters : Says(n, g, u)}
  BY DEF Deeper
<1> SUFFICES ASSUME NEW k \in 1..FilterCount, NEW g \in Filters, Ready(k, g), Depth(k, g) <= m + 1
             PROVE  t2[g] \in {"yes", "no"} /\ (t2[g] = "yes" <=> g \in u2)
  BY DEF Agree
<1>1. g \in u2 <=> Says(n, g, u)
  BY <1>0
<1>2. PICK D : D = DOMAIN g.inner
  OBVIOUS
<1>3. D \in SUBSET Nat /\ \A i \in D : g.inner[i] \in Filters
  BY <1>2, InnerIs
<1>4. PICK a : a = [i \in D |-> t[Sub(g.inner[i], processed)]]
  OBVIOUS
<1>5. PICK b : b = [i \in D |-> Meeting(g.inner[i], u)]
  OBVIOUS
<1>6. \A i \in D : a[i] \in {"yes", "no"} /\ (a[i] = "yes" <=> b[i])
  <2> SUFFICES ASSUME NEW i \in D PROVE a[i] \in {"yes", "no"} /\ (a[i] = "yes" <=> b[i])
    OBVIOUS
  <2>1. /\ t[Sub(g.inner[i], processed)] \in {"yes", "no"}
        /\ t[Sub(g.inner[i], processed)] = "yes" <=> Meeting(g.inner[i], u)
    BY <1>2, InnerAgrees
  <2>2. a[i] = t[Sub(g.inner[i], processed)] /\ b[i] = Meeting(g.inner[i], u)
    BY <1>4, <1>5
  <2> QED BY <2>1, <2>2, Zenon
<1>7. a \in [D -> Answers] /\ \A i \in D : a[i] # "endless"
  BY <1>4, <1>6 DEF Answers
<1>8. t2[g] = IF g.op \in Logical THEN combined(g.op, a)
              ELSE IF matchKeyValue(g, n) THEN "yes" ELSE "no"
  BY <1>0, <1>2, <1>4 DEF Verdict
<1>9. Says(n, g, u) = IF g.op = "AND" THEN \A i \in D : Meeting(g.inner[i], u)
                      ELSE IF g.op = "OR" THEN \E i \in D : Meeting(g.inner[i], u)
                      ELSE matchKeyValue(g, n)
  BY <1>2, SaysIs, Zenon
<1>10. \A i \in D : b[i] = Meeting(g.inner[i], u)
  BY <1>5
<1>11. CASE g.op = "AND"
  <2>1. t2[g] = combined(g.op, a)
    BY <1>8, <1>11 DEF Logical
  <2>2. combined(g.op, a) \in {"yes", "no"} /\ (combined(g.op, a) = "yes" <=> \A i \in D : a[i] = "yes")
    BY <1>3, <1>7, <1>11, CombinedIs
  <2>3. Says(n, g, u) <=> \A i \in D : Meeting(g.inner[i], u)
    BY <1>9, <1>11, Zenon
  <2>4. Says(n, g, u) <=> \A i \in D : a[i] = "yes"
    BY <1>6, <1>10, <2>3, Zenon
  <2> QED BY <1>1, <2>1, <2>2, <2>4, Zenon
<1>12. CASE g.op = "OR"
  <2>1. t2[g] = combined(g.op, a)
    BY <1>8, <1>12 DEF Logical
  <2>2. combined(g.op, a) \in {"yes", "no"} /\ (combined(g.op, a) = "yes" <=> \E i \in D : a[i] = "yes")
    BY <1>3, <1>7, <1>12, CombinedIs
  <2>3. Says(n, g, u) <=> \E i \in D : Meeting(g.inner[i], u)
    <3>1. g.op # "AND"
      BY <1>12
    <3> QED BY <1>9, <1>12, <3>1, Zenon
  <2>4. Says(n, g, u) <=> \E i \in D : a[i] = "yes"
    BY <1>6, <1>10, <2>3, Zenon
  <2> QED BY <1>1, <2>1, <2>2, <2>4, Zenon
<1>13. CASE g.op \notin {"AND", "OR"}
  <2>1. t2[g] = IF matchKeyValue(g, n) THEN "yes" ELSE "no"
    BY <1>8, <1>13 DEF Logical
  <2>2. Says(n, g, u) <=> matchKeyValue(g, n)
    <3>1. g.op # "AND" /\ g.op # "OR"
      BY <1>13
    <3> QED BY <1>9, <3>1, Zenon
  <2>3. "yes" # "no"
    OBVIOUS
  <2>4. CASE matchKeyValue(g, n)
    BY <1>1, <2>1, <2>2, <2>4
  <2>5. CASE ~matchKeyValue(g, n)
    <3>1. t2[g] = "no" /\ ~Says(n, g, u)
      BY <2>1, <2>2, <2>5, Zenon
    <3> QED BY <1>1, <2>3, <3>1
  <2> QED BY <2>4, <2>5
<1> QED BY <1>11, <1>12, <1>13

\* A filter of the policy answers for every node, and as it means.
LEMMA MatchMeans ==
  ASSUME NEW processed, Accepted(processed), NEW j \in 1..FilterCount, NEW n
  PROVE  LET answer == match(policy, policy.filters[j], n, processed) IN
         /\ answer \in {"yes", "no"}
         /\ answer = "yes" <=> policy.filters[j] \in Met(n)
<1>1. PICK f : f = policy.filters[j]
  OBVIOUS
<1>2. /\ FilterCount \in Nat /\ \A name \in DOMAIN processed : processed[name] \in Filters
  BY ProcessedDomain
<1>3. f \in Filters /\ Ready(j, f)
  BY <1>1, ProcessedByName, TopReady
<1>4. PICK N \in Nat : N = Nesting /\ Height[f] \in Nat /\ Height[f] <= N
  BY <1>3, InnerIs
<1>5. PICK D \in Nat : D = MaxDepth(policy)
  <2>1. FilterCount * (N + 1) \in Nat
    BY <1>2
  <2> QED BY <1>4, <2>1 DEF MaxDepth, FilterCount
<1>6. PICK t : Verdicts(D, n, processed, t) /\ match(policy, f, n, processed) = t[D][f]
  <2>1. Known(processed)
    BY <1>2 DEF Known
  <2>2. Decided(D, n, f, processed)
    BY <1>3, <1>5, <2>1, MatchIs
  <2> QED BY <2>2 DEF Decided
<1>7. PICK u : Meets(D, n, u) /\ Met(n) = u[D]
  BY <1>5, MetIs
<1> DEFINE T == {m \in Nat : m <= D => Agree(m, t[m], u[m])}
<1>8. 0 \in T
  <2>1. ASSUME NEW k \in 1..FilterCount, NEW g \in Filters, Depth(k, g) <= 0 PROVE FALSE
    <3>1. Height[g] \in Nat
      BY InnerIs
    <3>2. k - 1 \in Nat
      BY <1>2
    <3>3. (N + 1) * (k - 1) \in Nat
      BY <3>2
    <3>4. PICK x \in Nat : x = (N + 1) * (k - 1)
      BY <3>3
    <3>5. x + Height[g] + 1 <= 0
      BY <1>4, <2>1, <3>4 DEF Depth
    <3> QED BY <3>1, <3>5
  <2>2. Agree(0, t[0], u[0])
    BY <2>1 DEF Agree
  <2> QED BY <2>2
<1>9. ASSUME NEW m \in Nat, m \in T PROVE m + 1 \in T
  <2> SUFFICES ASSUME m + 1 <= D PROVE Agree(m + 1, t[m + 1], u[m + 1])
    OBVIOUS
  <2>1. m + 1 \in 1..D /\ (m + 1) - 1 = m /\ m <= D /\ m \in 0..D
    OBVIOUS
  <2>2. Agree(m, t[m], u[m])
    BY <1>9, <2>1
  <2>3. /\ t[m] \in [Filters -> Answers]
        /\ \A g \in Filters : t[m + 1][g] = Verdict(t[m], g, n, processed)
    <3>1. \A d \in 1..D : \A g \in Filters : t[d][g] = Verdict(t[d - 1], g, n, processed)
      BY <1>6 DEF Verdicts
    <3>2. t \in [0..D -> [Filters -> Answers]]
      BY <1>6 DEF Verdicts
    <3> QED BY <2>1, <3>1, <3>2
  <2>4. u[m + 1] = {g \in Filters : Says(n, g, u[m])}
    BY <1>7, <2>1 DEF Meets
  <2>5. Deeper(n, processed, t[m], u[m], t[m + 1], u[m + 1])
    BY <2>3, <2>4 DEF Deeper
  <2> QED BY <2>2, <2>5, AgreeStep
<1> HIDE DEF T
<1>10. T = Nat
  <2>1. T \in SUBSET Nat
    BY DEF T
  <2> QED BY <1>8, <1>9, <2>1, Inductive
<1>11. Agree(D, t[D], u[D])
  <2>1. D \in T /\ D <= D
    BY <1>10
  <2> QED BY <2>1 DEF T
<1>12. Depth(j, f) <= D
  <2>1. PICK k \in Nat : k = FilterCount + 1
    BY <1>2
  <2>2. 1 <= j /\ j < k /\ j \in Nat /\ k - 1 = FilterCount
    BY <1>2, <2>1
  <2>3. (N + 1) * (j - 1) + N + 1 <= (N + 1) * (k - 1)
    BY <2>2, EarlierDepth
  <2>4. D = FilterCount * (N + 1)
    BY <1>4, <1>5 DEF MaxDepth, FilterCount
  <2>5. (N + 1) * FilterCount = FilterCount * (N + 1)
    BY <1>2
  <2>6. (N + 1) * (k - 1) = D
    BY <2>2, <2>4, <2>5
  <2>7. PICK z \in Int : z = (N + 1) * (j - 1)
    BY <2>2
  <2>8. z + N + 1 <= D
    BY <2>3, <2>6, <2>7
  <2>9. z + Height[f] + 1 <= D
    BY <1>4, <2>8
  <2> QED BY <1>4, <2>7, <2>9 DEF Depth
<1>13. t[D][f] \in {"yes", "no"} /\ (t[D][f] = "yes" <=> f \in u[D])
  BY <1>3, <1>11, <1>12 DEF Agree
<1> QED BY <1>1, <1>6, <1>7, <1>13

-----------------------------------------------------------------------------
(* What the selectors choose from the network map. *)

\* A selector that asks for something, from filters there are.
Askable(s, cbf, processed, rank) ==
  /\ netMap \in NetMaps /\ rank \in Orders
  /\ s.count \in Nat /\ s.count > 0 /\ cbf \in Nat /\ cbf > 0
  /\ \/ s.filter = mainFilterName
     \/ Accepted(processed) /\ \E j \in 1..FilterCount : policy.filters[j].name = s.filter

\* The nodes a selector chose, or that there are not enough of them.
Served(s, cbf, sel) ==
  \/ sel.kind = "error" /\ ~Enough(s)
  \/ /\ sel.kind = "ok" /\ flattenNodes(sel.buckets) \in Seq(Nodes)
     /\ LineKept(s, cbf, Eligible(s), Groups(s), flattenNodes(sel.buckets))

LEMMA NodesAre ==
  ASSUME netMap \in NetMaps
  PROVE  Nodes \subseteq Nat /\ IsFiniteSet(Nodes)
<1>1. Len(netMap) \in Nat /\ Nodes = 1..Len(netMap)
  BY PlacementAssumption DEF Nodes
<1>2. IsFiniteSet(1..Len(netMap))
  BY <1>1, FS_Interval
<1> QED BY <1>1, <1>2

\* The nodes a selector chooses from are those its filter means.
LEMMA EligibleIs ==
  ASSUME NEW s, NEW cbf, NEW processed, NEW rank, Askable(s, cbf, processed, rank), NEW n \in Nodes,
         NEW answer, answer = IF s.filter = mainFilterName THEN "yes"
                              ELSE match(policy, processed[s.filter], n, processed)
  PROVE  answer \in {"yes", "no"} /\ (answer = "yes" <=> n \in Eligible(s))
<1>1. CASE s.filter = mainFilterName
  <2>1. n \in Eligible(s)
    BY <1>1 DEF Eligible
  <2> QED BY <1>1, <2>1
<1>2. CASE s.filter # mainFilterName
  <2>1. Accepted(processed) /\ \E j \in 1..FilterCount : policy.filters[j].name = s.filter
    BY <1>2 DEF Askable
  <2>2. PICK j \in 1..FilterCount : policy.filters[j].name = s.filter
    BY <2>1
  <2>3. PICK f : f = policy.filters[j]
    OBVIOUS
  <2>4. processed[s.filter] = f
    BY <2>1, <2>2, <2>3, ProcessedByName
  <2>5. answer = match(policy, f, n, processed)
    BY <1>2, <2>4
  <2>6. answer \in {"yes", "no"} /\ (answer = "yes" <=> f \in Met(n))
    BY <2>1, <2>3, <2>5, MatchMeans
  <2>7. DOMAIN policy.filters = 1..FilterCount
    BY <2>1, ProcessedDomain
  <2>8. f \in Range(policy.filters) /\ f.name = s.filter
    BY <2>2, <2>3, <2>7 DEF Range
  <2>9. ASSUME NEW e \in Range(policy.filters), e.name = s.filter PROVE e = f
    <3>1. PICK l \in DOMAIN policy.filters : e = policy.filters[l]
      BY DEF Range
    <3>2. l = j
      BY <2>1, <2>2, <2>7, <2>9, <3>1 DEF Accepted, Once
    <3> QED BY <2>3, <3>1, <3>2
  <2>10. n \in Eligible(s) <=> \E e \in Met(n) \cap Range(policy.filters) : e.name = s.filter
    BY <1>2 DEF Eligible
  <2>11. n \in Eligible(s) <=> f \in Met(n)
    BY <2>8, <2>9, <2>10
  <2> QED BY <2>6, <2>11
<1> QED BY <1>1, <1>2

LEMMA SelectionMeans ==
  ASSUME NEW s, NEW cbf, NEW processed, NEW rank, Askable(s, cbf, processed, rank),
         NEW sel, sel = getSelection(policy, s, cbf, processed, rank)
  PROVE  Served(s, cbf, sel)
<1>1. PICK v : v = [n \in Nodes |-> IF s.filter = mainFilterName THEN "yes"
                                    ELSE match(policy, processed[s.filter], n, processed)]
  OBVIOUS
<1>2. \A n \in Nodes : v[n] \in {"yes", "no"} /\ (v[n] = "yes" <=> n \in Eligible(s))
  BY <1>1, EligibleIs
<1>3. PICK E : E = Eligible(s)
  OBVIOUS
<1>4. E \subseteq Nodes
  BY <1>3 DEF Eligible
<1>5. {n \in Nodes : v[n] = "yes"} = E
  BY <1>2, <1>3, <1>4
<1>6. ~\E n \in Nodes : v[n] = "endless"
  BY <1>2
<1>7. PICK base : base = getSelectionBase(s, E)
  OBVIOUS
<1>8. sel = selectionOf(s, cbf, base, rank)
  <2>1. sel = IF \E n \in Nodes : v[n] = "endless" THEN Selection("endless", <<>>)
              ELSE selectionOf(s, cbf, getSelectionBase(s, {n \in Nodes : v[n] = "yes"}), rank)
    BY <1>1 DEF getSelection
  <2> QED BY <1>5, <1>6, <1>7, <2>1, Zenon
<1>9. /\ s.count \in Nat /\ s.count > 0 /\ cbf \in Nat /\ cbf > 0 /\ netMap \in NetMaps
      /\ rank \in [Nodes -> Nodes] /\ IsInjective(rank)
  BY DEF Askable, Orders
<1>10. Nodes \subseteq Nat /\ IsFiniteSet(Nodes)
  BY <1>9, NodesAre
<1>11. IsFiniteSet(E)
  BY <1>4, <1>10, FS_Subset
<1>12. PICK groups : groups = GroupsIn(s, E)
  OBVIOUS
<1>13. Buckets(base, E, groups) /\ (s.attribute = "" => \A b \in base : Len(b) = 1)
  <2>1. CASE s.attribute = ""
    BY <1>4, <1>7, <1>11, <1>12, <2>1, BaseOfNodes
  <2>2. CASE s.attribute # ""
    BY <1>4, <1>7, <1>10, <1>11, <1>12, <2>2, BaseOfValues
  <2> QED BY <2>1, <2>2
<1>14. Choice(s, cbf, base, E, groups, rank)
  BY <1>4, <1>9, <1>10, <1>13 DEF Choice
<1>15. \/ sel.kind = "error" /\ ~EnoughIn(s, groups)
       \/ sel.kind = "ok" /\ Chosen(s, cbf, base, E, sel.buckets)
  BY <1>8, <1>14, SelectionOfIs
<1>16. groups = Groups(s)
  BY <1>3, <1>12 DEF GroupsIn, Groups
<1>17. EnoughIn(s, groups) <=> Enough(s)
  BY <1>16 DEF EnoughIn, Enough
<1>18. CASE sel.kind = "error" /\ ~EnoughIn(s, groups)
  BY <1>17, <1>18 DEF Served
<1>19. CASE sel.kind = "ok" /\ Chosen(s, cbf, base, E, sel.buckets)
  <2>1. PICK line : line = flattenNodes(sel.buckets)
    OBVIOUS
  <2>2. LineKept(s, cbf, E, groups, line)
    BY <1>13, <1>19, <2>1, LineIsKept
  <2>3. line \in Seq(Nodes)
    <3>1. PICK n, lo, hi : Counts(s, cbf, n, lo, hi) /\ Apart(n, sel.buckets, E, lo, hi)
      BY <1>19 DEF Chosen
    <3>2. n \in Nat /\ lo \in Nat /\ hi \in Nat
      BY <3>1 DEF Counts
    <3>3. Joined(n, sel.buckets, E, lo, hi, line)
      BY <2>1, <3>1, <3>2, FlattenApart
    <3>4. line \in Seq(E)
      BY <3>3 DEF Joined
    <3>5. line \in [1..Len(line) -> Nodes] /\ Len(line) \in Nat
      BY <1>4, <3>4
    <3> QED BY <3>5
  <2> QED BY <1>3, <1>16, <1>19, <2>1, <2>2, <2>3 DEF Served
<1> QED BY <1>15, <1>18, <1>19

-----------------------------------------------------------------------------
(* What ContainerNodes returns for a plain policy. *)

PolicyType ==
  /\ netMap \in NetMaps
  /\ policy \in [backupFactor : Nat, filters : Seq(PolicyFilters),
                 selectors : Seq(PolicySelectors), replicas : Seq(PolicyReplicas)]

\* A plain policy, and an order of the buckets.
Given(rank) == PolicyType /\ Plain /\ rank \in Orders

\* A selector that cannot be served, and one that is.
Short(s) ==
  \/ s.filter # mainFilterName /\ \A f \in Range(policy.filters) : f.name # s.filter
  \/ ~Enough(s)
Kept(s, cbf, buckets) ==
  /\ flattenNodes(buckets) \in Seq(Nodes)
  /\ LineKept(s, cbf, Eligible(s), Groups(s), flattenNodes(buckets))

LEMMA MinMember ==
  ASSUME NEW T \in SUBSET Nat, T # {}
  PROVE  Min(T) \in T
  BY LeastMember DEF Min

LEMMA FactorIs ==
  ASSUME NEW f \in Nat
  PROVE  setCBF(f) \in Nat /\ setCBF(f) > 0
  BY DEF setCBF

LEMMA GivenIs ==
  ASSUME NEW rank, Given(rank)
  PROVE  /\ policy.filters \in Seq(PolicyFilters) /\ Once(policy.filters)
         /\ policy.selectors \in Seq(PolicySelectors) /\ Once(policy.selectors)
         /\ policy.replicas \in Seq(PolicyReplicas) /\ policy.backupFactor \in Nat
         /\ DOMAIN policy.selectors \subseteq Nat
         /\ \A i \in DOMAIN policy.selectors :
              policy.selectors[i].count \in Nat /\ policy.selectors[i].count > 0
         /\ DOMAIN policy.replicas = 1..Len(policy.replicas) /\ Len(policy.replicas) \in Nat
         /\ \A i \in DOMAIN policy.replicas :
              policy.replicas[i].count \in Nat /\ policy.replicas[i].count > 0
<1>1. /\ policy.filters \in Seq(PolicyFilters) /\ policy.selectors \in Seq(PolicySelectors)
      /\ policy.replicas \in Seq(PolicyReplicas) /\ policy.backupFactor \in Nat
  BY DEF Given, PolicyType
<1>2. /\ \A i \in DOMAIN policy.selectors : policy.selectors[i] \in PolicySelectors /\ i \in Nat
      /\ \A i \in DOMAIN policy.replicas : policy.replicas[i] \in PolicyReplicas
      /\ DOMAIN policy.replicas = 1..Len(policy.replicas) /\ Len(policy.replicas) \in Nat
  BY <1>1
<1>3. /\ \A i \in DOMAIN policy.selectors : policy.selectors[i].count \in Nat
      /\ \A i \in DOMAIN policy.replicas : policy.replicas[i].count \in Nat
  BY <1>2, PlacementAssumption
<1> QED BY <1>1, <1>2, <1>3 DEF Given, Plain

LEMMA SelectorMeans ==
  ASSUME NEW rank, Given(rank), NEW processed, Accepted(processed),
         NEW cbf \in Nat, cbf > 0, NEW i \in DOMAIN policy.selectors, NEW s, s = policy.selectors[i],
         NEW sel, sel = IF s.filter # mainFilterName /\ s.filter \notin DOMAIN processed
                        THEN Selection("error", <<>>)
                        ELSE getSelection(policy, s, cbf, processed, rank)
  PROVE  \/ sel.kind = "error" /\ Short(s)
         \/ sel.kind = "ok" /\ Kept(s, cbf, sel.buckets)
<1>1. /\ FilterCount \in Nat /\ DOMAIN policy.filters = 1..FilterCount
      /\ \A name \in DOMAIN processed : \E j \in 1..FilterCount : policy.filters[j].name = name
  BY ProcessedDomain
<1>2. CASE s.filter # mainFilterName /\ s.filter \notin DOMAIN processed
  <2>1. sel.kind = "error"
    BY <1>2 DEF Selection
  <2>2. ASSUME NEW f \in Range(policy.filters), f.name = s.filter PROVE FALSE
    <3>1. PICK j \in 1..FilterCount : f = policy.filters[j]
      BY <1>1 DEF Range
    <3>2. f.name \in DOMAIN processed
      BY <3>1, ProcessedByName
    <3> QED BY <1>2, <2>2, <3>2
  <2> QED BY <1>2, <2>1, <2>2 DEF Short
<1>3. CASE ~(s.filter # mainFilterName /\ s.filter \notin DOMAIN processed)
  <2>1. sel = getSelection(policy, s, cbf, processed, rank)
    BY <1>3
  <2>2. s.count \in Nat /\ s.count > 0
    BY GivenIs
  <2>3. Askable(s, cbf, processed, rank)
    BY <1>1, <1>3, <2>2 DEF Askable, Given, PolicyType
  <2>4. Served(s, cbf, sel)
    BY <2>1, <2>3, SelectionMeans
  <2> QED BY <2>4 DEF Served, Short, Kept
<1> QED BY <1>2, <1>3

SelectorsServed(cbf, ss) ==
  \/ ss.kind = "error" /\ \E s \in Range(policy.selectors) : Short(s)
  \/ /\ ss.kind = "ok"
     /\ DOMAIN ss.selections = {policy.selectors[i].name : i \in DOMAIN policy.selectors}
     /\ \A i \in DOMAIN policy.selectors :
          Kept(policy.selectors[i], cbf, ss.selections[policy.selectors[i].name])

LEMMA SelectorsMean ==
  ASSUME NEW rank, Given(rank), NEW processed, Accepted(processed),
         NEW cbf \in Nat, cbf > 0, NEW ss, ss = processSelectors(policy, cbf, processed, rank)
  PROVE  SelectorsServed(cbf, ss)
<1> DEFINE L == policy.selectors
           selection(i) ==
             IF L[i].filter # mainFilterName /\ L[i].filter \notin DOMAIN processed
             THEN Selection("error", <<>>) ELSE getSelection(policy, L[i], cbf, processed, rank)
           res == [i \in DOMAIN L |-> selection(i)]
           failed == {i \in DOMAIN L : res[i].kind # "ok"}
<1>1. ss = [kind |-> IF failed = {} THEN "ok" ELSE res[Min(failed)].kind,
            selections |-> [name \in {L[i].name : i \in DOMAIN L} |->
                              res[Max({i \in DOMAIN L : L[i].name = name})].buckets]]
  BY Zenon DEF processSelectors
<1>2. failed = {i \in DOMAIN L : res[i].kind # "ok"}
  OBVIOUS
<1> HIDE DEF failed
<1>3. \A i \in DOMAIN L : res[i] = selection(i)
  OBVIOUS
<1> HIDE DEF res
<1>4. ASSUME NEW i \in DOMAIN L
      PROVE  \/ res[i].kind = "error" /\ Short(L[i])
             \/ res[i].kind = "ok" /\ Kept(L[i], cbf, res[i].buckets)
  BY <1>3, SelectorMeans
<1> HIDE DEF selection
<1>5. DOMAIN L \subseteq Nat /\ Once(L)
  BY GivenIs
<1> HIDE DEF L
<1>6. CASE failed # {}
  <2>1. failed \in SUBSET Nat
    BY <1>2, <1>5
  <2>2. PICK m : m = Min(failed)
    OBVIOUS
  <2>3. m \in failed
    BY <1>6, <2>1, <2>2, MinMember
  <2>4. m \in DOMAIN L /\ res[m].kind # "ok"
    BY <1>2, <2>3
  <2>5. res[m].kind = "error" /\ Short(L[m])
    BY <1>4, <2>4
  <2>6. ss.kind = "error"
    BY <1>1, <1>6, <2>2, <2>5
  <2>7. L[m] \in Range(policy.selectors)
    BY <2>4 DEF Range, L
  <2> QED BY <2>5, <2>6, <2>7 DEF SelectorsServed
<1>7. CASE failed = {}
  <2>1. ss.kind = "ok" /\ DOMAIN ss.selections = {L[i].name : i \in DOMAIN L}
    BY <1>1, <1>7
  <2>2. ASSUME NEW i \in DOMAIN L PROVE Kept(L[i], cbf, ss.selections[L[i].name])
    <3>1. {j \in DOMAIN L : L[j].name = L[i].name} = {i}
      BY <1>5 DEF Once
    <3>2. i \in Nat
      BY <1>5
    <3>3. Max({i}) = i
      BY <3>2 DEF Max
    <3>4. ss.selections[L[i].name] = res[Max({j \in DOMAIN L : L[j].name = L[i].name})].buckets
      <4>1. L[i].name \in {L[j].name : j \in DOMAIN L}
        OBVIOUS
      <4>2. ss.selections = [name \in {L[j].name : j \in DOMAIN L} |->
                               res[Max({j \in DOMAIN L : L[j].name = name})].buckets]
        BY <1>1
      <4> QED BY <4>1, <4>2, Zenon
    <3>5. res[i].kind = "ok"
      BY <1>2, <1>7
    <3>6. Kept(L[i], cbf, res[i].buckets)
      BY <1>4, <3>5
    <3> QED BY <3>1, <3>3, <3>4, <3>6, Zenon
  <2> QED BY <2>1, <2>2 DEF SelectorsServed, L
<1> QED BY <1>6, <1>7

\* A replica that cannot be served: by its own selector, or by the one it names.
ReplicaShort(r) ==
  \/ r.selector = "" /\ ~Enough(SelectorOf(r))
  \/ r.selector # "" /\ \A s \in Range(policy.selectors) : s.name # r.selector

\* What the loop over the replicas makes of one of them.
ReplicaKind(i, own, selections) ==
  IF policy.replicas[i].selector # ""
  THEN IF policy.replicas[i].selector \in DOMAIN selections THEN "ok" ELSE "error"
  ELSE IF policy.selectors = <<>> THEN own[i].kind
  ELSE IF Len(policy.selectors) > Len(policy.replicas) THEN "panic" ELSE "ok"

Own(cbf, rank, own) ==
  own = [i \in DOMAIN policy.replicas |->
           getSelection(policy, defaultSelector(policy.replicas[i]), cbf, <<>>, rank)]

LEMMA NamedSelector ==
  ASSUME NEW rank, Given(rank), NEW j \in DOMAIN policy.selectors, NEW r, r.selector # "",
         policy.selectors[j].name = r.selector
  PROVE  SelectorOf(r) = policy.selectors[j]
<1>1. policy.selectors[j] \in Range(policy.selectors)
  BY DEF Range
<1>2. ASSUME NEW s \in Range(policy.selectors), s.name = r.selector PROVE s = policy.selectors[j]
  <2>1. PICK k \in DOMAIN policy.selectors : s = policy.selectors[k]
    BY DEF Range
  <2>2. Once(policy.selectors)
    BY GivenIs
  <2>3. k = j
    BY <1>2, <2>1, <2>2 DEF Once
  <2> QED BY <2>1, <2>3
<1> QED BY <1>1, <1>2 DEF SelectorOf

\* With a plain policy a replica adds to its own line only, what its selector chose.
ReplicaServed(i, cbf, own, selections) ==
  \/ ReplicaKind(i, own, selections) = "error" /\ ReplicaShort(policy.replicas[i])
  \/ /\ ReplicaKind(i, own, selections) = "ok"
     /\ Kept(SelectorOf(policy.replicas[i]), cbf, addedTo(policy, i, i, own, selections))
     /\ \A k \in DOMAIN policy.replicas : k # i => addedTo(policy, i, k, own, selections) = <<>>

LEMMA ReplicaMeans ==
  ASSUME NEW rank, Given(rank), NEW cbf \in Nat, cbf > 0, NEW own, Own(cbf, rank, own),
         NEW ss, SelectorsServed(cbf, ss), ss.kind = "ok", NEW i \in DOMAIN policy.replicas
  PROVE  ReplicaServed(i, cbf, own, ss.selections)
<1>1. PICK r : r = policy.replicas[i]
  OBVIOUS
<1>2. PICK sels : sels = ss.selections
  OBVIOUS
<1>3. /\ DOMAIN sels = {policy.selectors[j].name : j \in DOMAIN policy.selectors}
      /\ \A j \in DOMAIN policy.selectors :
           Kept(policy.selectors[j], cbf, sels[policy.selectors[j].name])
  BY <1>2 DEF SelectorsServed
<1>4. CASE r.selector # ""
  <2>1. CASE r.selector \in DOMAIN sels
    <3>1. PICK j \in DOMAIN policy.selectors : policy.selectors[j].name = r.selector
      BY <1>3, <2>1
    <3>2. SelectorOf(r) = policy.selectors[j]
      BY <1>4, <3>1, NamedSelector
    <3>3. Kept(SelectorOf(r), cbf, sels[r.selector])
      BY <1>3, <3>1, <3>2
    <3>4. ReplicaKind(i, own, sels) = "ok"
      BY <1>1, <1>4, <2>1 DEF ReplicaKind
    <3>5. /\ addedTo(policy, i, i, own, sels) = sels[r.selector]
          /\ \A k \in DOMAIN policy.replicas : k # i => addedTo(policy, i, k, own, sels) = <<>>
      BY <1>1, <1>4 DEF addedTo
    <3> QED BY <1>1, <1>2, <3>3, <3>4, <3>5, Zenon DEF ReplicaServed
  <2>2. CASE r.selector \notin DOMAIN sels
    <3>1. ReplicaKind(i, own, sels) = "error"
      BY <1>1, <1>4, <2>2 DEF ReplicaKind
    <3>2. \A s \in Range(policy.selectors) : s.name # r.selector
      BY <1>3, <2>2 DEF Range
    <3> QED BY <1>1, <1>2, <1>4, <3>1, <3>2 DEF ReplicaServed, ReplicaShort
  <2> QED BY <2>1, <2>2
<1>5. CASE r.selector = ""
  <2>1. policy.selectors = <<>>
    BY <1>1, <1>5 DEF Given, Plain
  <2>2. PICK s : s = defaultSelector(r)
    OBVIOUS
  <2>3. SelectorOf(r) = s
    BY <1>5, <2>2 DEF SelectorOf
  <2>4. s.count = r.count /\ s.filter = mainFilterName
    BY <2>2 DEF defaultSelector
  <2>5. r.count \in Nat /\ r.count > 0
    BY <1>1, GivenIs
  <2>6. Askable(s, cbf, <<>>, rank)
    BY <2>4, <2>5 DEF Askable, Given, PolicyType
  <2>7. own[i] = getSelection(policy, s, cbf, <<>>, rank)
    BY <1>1, <2>2 DEF Own
  <2>8. Served(s, cbf, own[i])
    BY <2>6, <2>7, SelectionMeans
  <2>9. ReplicaKind(i, own, sels) = own[i].kind
    BY <1>1, <1>5, <2>1 DEF ReplicaKind
  <2>10. /\ addedTo(policy, i, i, own, sels) = own[i].buckets
         /\ \A k \in DOMAIN policy.replicas : k # i => addedTo(policy, i, k, own, sels) = <<>>
    BY <1>1, <1>5, <2>1 DEF addedTo
  <2>11. CASE own[i].kind = "error" /\ ~Enough(s)
    BY <1>1, <1>2, <1>5, <2>3, <2>9, <2>11 DEF ReplicaServed, ReplicaShort
  <2>12. CASE own[i].kind = "ok" /\ Kept(s, cbf, own[i].buckets)
    BY <1>1, <1>2, <2>3, <2>9, <2>10, <2>12, Zenon DEF ReplicaServed
  <2> QED BY <2>8, <2>11, <2>12 DEF Served, Kept
<1> QED BY <1>4, <1>5

LEMMA NothingJoined == flattenNodes(<<>>) = <<>>
<1>1. PICK b : b = <<>>
  OBVIOUS
<1>2. PICK n \in Nat : n = 0
  OBVIOUS
<1>3. b \in Seq(Seq(Nodes)) /\ Len(b) = n
  BY <1>1, <1>2
<1>4. \E t \in [0..n -> Seq(Nodes)] : Joins(n, b, t) /\ flattenNodes(b) = t[n]
  BY <1>3, FlattenIs
<1> QED BY <1>1, <1>2, <1>4 DEF Joins

\* The lines of a policy all of whose replicas are served.
LEMMA LineIs ==
  ASSUME NEW rank, Given(rank), NEW cbf, NEW own, NEW sels,
         \A i \in DOMAIN policy.replicas :
           /\ flattenNodes(addedTo(policy, i, i, own, sels)) \in Seq(Nodes)
           /\ \A k \in DOMAIN policy.replicas : k # i => addedTo(policy, i, k, own, sels) = <<>>,
         NEW k \in DOMAIN policy.replicas,
         NEW b, b = [i \in DOMAIN policy.replicas |-> flattenNodes(addedTo(policy, i, k, own, sels))]
  PROVE  flattenNodes(b) = flattenNodes(addedTo(policy, k, k, own, sels))
<1>1. PICK n \in Nat : n = Len(policy.replicas) /\ DOMAIN policy.replicas = 1..n
  BY GivenIs
<1>2. \A i \in 1..n : i # k => b[i] = <<>>
  BY <1>1, NothingJoined
<1>3. b[k] = flattenNodes(addedTo(policy, k, k, own, sels)) /\ b[k] \in Seq(Nodes)
  OBVIOUS
<1>4. PICK S : S = Seq(Nodes)
  OBVIOUS
<1>5. <<>> \in S
  BY <1>4
<1>6. \A i \in 1..n : b[i] \in S
  BY <1>2, <1>3, <1>4, <1>5
<1>7. b \in [1..n -> S]
  BY <1>1, <1>6
<1>8. b \in Seq(S) /\ Len(b) = n
  BY <1>7
<1>9. k \in 1..n
  BY <1>1
<1>10. b \in Seq(Seq(Nodes))
  BY <1>4, <1>8
<1>11. flattenNodes(b) = b[k]
  <2>1. OnlyOne(Nodes, n, b, k)
    BY <1>2, <1>8, <1>9, <1>10 DEF OnlyOne
  <2> QED BY <2>1, FlattenOne
<1> QED BY <1>3, <1>11

\* What the two properties say of an outcome.
Fulfilled(out) ==
  \/ /\ out.kind = "error"
     /\ \/ processFilters(policy).err
        \/ \E s \in Range(policy.selectors) : Short(s)
        \/ \E r \in Range(policy.replicas) : ReplicaShort(r)
  \/ /\ out.kind = "ok"
     /\ \A i \in DOMAIN policy.replicas :
          LET s == SelectorOf(policy.replicas[i])
          IN  LineKept(s, setCBF(policy.backupFactor), Eligible(s), Groups(s), out.lines[i])

LEMMA PlacedMeans ==
  ASSUME NEW rank, Given(rank), NEW out, out = Placed(policy, rank)
  PROVE  Fulfilled(out)
<1> DEFINE cbf == setCBF(policy.backupFactor)
           fs == processFilters(policy)
           ss == processSelectors(policy, cbf, fs.processed, rank)
           sels == ss.selections
           own == [i \in DOMAIN policy.replicas |->
                     getSelection(policy, defaultSelector(policy.replicas[i]), cbf, <<>>, rank)]
           failed == {i \in DOMAIN policy.replicas : ReplicaKind(i, own, sels) # "ok"}
           lines == [k \in DOMAIN policy.replicas |->
                       flattenNodes([i \in DOMAIN policy.replicas |->
                                       flattenNodes(addedTo(policy, i, k, own, sels))])]
<1>1. out = IF fs.err THEN Result("error", <<>>)
            ELSE IF ss.kind # "ok" THEN Result(ss.kind, <<>>)
            ELSE IF failed # {} THEN Result(ReplicaKind(Min(failed), own, sels), <<>>)
            ELSE Result("ok", lines)
  BY Zenon DEF Placed, ReplicaKind
<1>2. failed = {i \in DOMAIN policy.replicas : ReplicaKind(i, own, sels) # "ok"}
  OBVIOUS
<1>3. lines = [k \in DOMAIN policy.replicas |->
                 flattenNodes([i \in DOMAIN policy.replicas |->
                                 flattenNodes(addedTo(policy, i, k, own, sels))])]
  OBVIOUS
<1> HIDE DEF failed, lines
<1>4. Own(cbf, rank, own)
  BY DEF Own
<1> HIDE DEF own
<1>5. sels = ss.selections
  OBVIOUS
<1> HIDE DEF sels
<1>6. ss = processSelectors(policy, cbf, fs.processed, rank)
  OBVIOUS
<1> HIDE DEF ss
<1>7. fs = processFilters(policy)
  OBVIOUS
<1> HIDE DEF fs
<1>8. cbf = setCBF(policy.backupFactor)
  OBVIOUS
<1>9. cbf \in Nat /\ cbf > 0
  BY GivenIs, FactorIs
<1> HIDE DEF cbf
<1>10. CASE fs.err
  <2>1. out.kind = "error"
    BY <1>1, <1>10 DEF Result
  <2> QED BY <1>7, <1>10, <2>1 DEF Fulfilled
<1>11. CASE ~fs.err
  <2>1. Accepted(fs.processed)
    BY <1>7, <1>11, GivenIs DEF Accepted
  <2>2. SelectorsServed(cbf, ss)
    BY <1>9, <1>6, <2>1, SelectorsMean
  <2>3. CASE ss.kind # "ok"
    <3>1. ss.kind = "error" /\ \E s \in Range(policy.selectors) : Short(s)
      BY <2>2, <2>3 DEF SelectorsServed
    <3>2. out.kind = "error"
      BY <1>1, <1>11, <2>3, <3>1 DEF Result
    <3> QED BY <3>1, <3>2 DEF Fulfilled
  <2>4. CASE ss.kind = "ok"
    <3>1. \A i \in DOMAIN policy.replicas : ReplicaServed(i, cbf, own, sels)
      BY <1>9, <1>5, <1>4, <2>2, <2>4, ReplicaMeans
    <3>2. CASE failed # {}
      <4>1. PICK m : m = Min(failed)
        OBVIOUS
      <4>2. DOMAIN policy.replicas \subseteq Nat
        BY GivenIs
      <4>3. failed \in SUBSET Nat
        BY <1>2, <4>2
      <4>4. m \in failed
        BY <3>2, <4>1, <4>3, MinMember
      <4>5. m \in DOMAIN policy.replicas /\ ReplicaKind(m, own, sels) # "ok"
        BY <1>2, <4>4
      <4>6. ReplicaKind(m, own, sels) = "error" /\ ReplicaShort(policy.replicas[m])
        BY <3>1, <4>5 DEF ReplicaServed
      <4>7. policy.replicas[m] \in Range(policy.replicas)
        BY <4>5 DEF Range
      <4>8. out.kind = "error"
        BY <1>1, <1>11, <2>4, <3>2, <4>1, <4>6 DEF Result
      <4> QED BY <4>6, <4>7, <4>8 DEF Fulfilled
    <3>3. CASE failed = {}
      <4>1. out.kind = "ok" /\ out.lines = lines
        BY <1>1, <1>11, <2>4, <3>3 DEF Result
      <4>2. \A i \in DOMAIN policy.replicas : ReplicaKind(i, own, sels) = "ok"
        BY <1>2, <3>3
      <4>3. ASSUME NEW i \in DOMAIN policy.replicas
            PROVE  /\ Kept(SelectorOf(policy.replicas[i]), cbf, addedTo(policy, i, i, own, sels))
                   /\ \A k \in DOMAIN policy.replicas :
                        k # i => addedTo(policy, i, k, own, sels) = <<>>
        BY <3>1, <4>2 DEF ReplicaServed
      <4>4. \A i \in DOMAIN policy.replicas :
              /\ flattenNodes(addedTo(policy, i, i, own, sels)) \in Seq(Nodes)
              /\ \A k \in DOMAIN policy.replicas : k # i => addedTo(policy, i, k, own, sels) = <<>>
        BY <4>3 DEF Kept
      <4>5. ASSUME NEW i \in DOMAIN policy.replicas, NEW s, s = SelectorOf(policy.replicas[i])
            PROVE  LineKept(s, cbf, Eligible(s), Groups(s), out.lines[i])
        <5>1. PICK b : b = [j \in DOMAIN policy.replicas |-> flattenNodes(addedTo(policy, j, i, own, sels))]
          OBVIOUS
        <5>2. lines[i] = flattenNodes(b)
          BY <1>3, <5>1
        <5>3. flattenNodes(b) = flattenNodes(addedTo(policy, i, i, own, sels))
          BY <4>4, <5>1, LineIs
        <5>4. LineKept(s, cbf, Eligible(s), Groups(s), flattenNodes(addedTo(policy, i, i, own, sels)))
          BY <4>3, <4>5 DEF Kept
        <5> QED BY <4>1, <5>2, <5>3, <5>4, Zenon
      <4> QED BY <1>8, <4>1, <4>5, Zenon DEF Fulfilled
    <3> QED BY <3>2, <3>3
  <2> QED BY <2>3, <2>4
<1> QED BY <1>10, <1>11

-----------------------------------------------------------------------------
(* The outcome depends on nothing but the network map, the policy and the order. *)

LEMMA SameBase ==
  ASSUME netMap' = netMap, NEW s, NEW chosen
  PROVE  getSelectionBase(s, chosen)' = getSelectionBase(s, chosen)
  BY SMT DEF getSelectionBase, Nodes, Attribute

LEMMA SameMatch ==
  ASSUME netMap' = netMap, NEW p, NEW f, NEW n, NEW processed
  PROVE  match(p, f, n, processed)' = match(p, f, n, processed)
  BY SMT DEF match, matchKeyValue, Attribute

LEMMA SameSelection ==
  ASSUME netMap' = netMap, NEW p, NEW s, NEW cbf, NEW processed, NEW rank
  PROVE  getSelection(p, s, cbf, processed, rank)' = getSelection(p, s, cbf, processed, rank)
<1> DEFINE V == [n \in Nodes |-> IF s.filter = mainFilterName THEN "yes"
                                 ELSE match(p, processed[s.filter], n, processed)]
<1>1. Nodes' = Nodes
  BY DEF Nodes
<1>2. V' = V
  <2>1. \A n : match(p, processed[s.filter], n, processed)' = match(p, processed[s.filter], n, processed)
    BY SameMatch
  <2> QED BY <1>1, <2>1
<1>3. PICK v : v = V
  OBVIOUS
<1>4. PICK c : c = {n \in Nodes : v[n] = "yes"}
  OBVIOUS
<1>5. getSelection(p, s, cbf, processed, rank) =
        IF \E n \in Nodes : v[n] = "endless" THEN Selection("endless", <<>>)
        ELSE selectionOf(s, cbf, getSelectionBase(s, c), rank)
  BY <1>3, <1>4 DEF getSelection
<1>6. getSelection(p, s, cbf, processed, rank)' =
        IF \E n \in Nodes' : v[n] = "endless" THEN Selection("endless", <<>>)
        ELSE selectionOf(s, cbf, getSelectionBase(s, c)', rank)
  BY <1>1, <1>2, <1>3, <1>4 DEF getSelection
<1>7. getSelectionBase(s, c)' = getSelectionBase(s, c)
  BY SameBase
<1> QED BY <1>1, <1>5, <1>6, <1>7

SelectorsOut(p, r) ==
  LET failed == {i \in DOMAIN p.selectors : r[i].kind # "ok"}
      names == {p.selectors[i].name : i \in DOMAIN p.selectors}
  IN  [kind |-> IF failed = {} THEN "ok" ELSE r[Min(failed)].kind,
       selections |-> [name \in names |->
         r[Max({i \in DOMAIN p.selectors : p.selectors[i].name = name})].buckets]]

LEMMA SameSelectors ==
  ASSUME netMap' = netMap, NEW p, NEW cbf, NEW processed, NEW rank
  PROVE  processSelectors(p, cbf, processed, rank)' = processSelectors(p, cbf, processed, rank)
<1> DEFINE R == [i \in DOMAIN p.selectors |->
                   IF p.selectors[i].filter # mainFilterName /\ p.selectors[i].filter \notin DOMAIN processed
                   THEN Selection("error", <<>>)
                   ELSE getSelection(p, p.selectors[i], cbf, processed, rank)]
<1>1. R' = R
  <2>1. \A s : getSelection(p, s, cbf, processed, rank)' = getSelection(p, s, cbf, processed, rank)
    BY SameSelection
  <2> QED BY <2>1
<1>2. processSelectors(p, cbf, processed, rank) = SelectorsOut(p, R)
  BY Zenon DEF processSelectors, SelectorsOut
<1>3. processSelectors(p, cbf, processed, rank)' = SelectorsOut(p, R')
  BY Zenon DEF processSelectors, SelectorsOut
<1> HIDE DEF R
<1> QED BY <1>1, <1>2, <1>3, Zenon

PlacedOut(p, fs, ss, own) ==
  LET kind(i) == IF p.replicas[i].selector # ""
                 THEN IF p.replicas[i].selector \in DOMAIN ss.selections THEN "ok" ELSE "error"
                 ELSE IF p.selectors = <<>> THEN own[i].kind
                 ELSE IF Len(p.selectors) > Len(p.replicas) THEN "panic" ELSE "ok"
      failed == {i \in DOMAIN p.replicas : kind(i) # "ok"}
      line(k) == [i \in DOMAIN p.replicas |-> flattenNodes(addedTo(p, i, k, own, ss.selections))]
  IN  IF fs.err THEN Result("error", <<>>)
      ELSE IF ss.kind # "ok" THEN Result(ss.kind, <<>>)
      ELSE IF failed # {} THEN Result(kind(Min(failed)), <<>>)
      ELSE Result("ok", [k \in DOMAIN p.replicas |-> flattenNodes(line(k))])

LEMMA SamePlaced ==
  ASSUME netMap' = netMap, NEW p, NEW rank
  PROVE  Placed(p, rank)' = Placed(p, rank)
<1> DEFINE cbf == setCBF(p.backupFactor)
           fs == processFilters(p)
           SS == processSelectors(p, cbf, fs.processed, rank)
           O == [i \in DOMAIN p.replicas |->
                   getSelection(p, defaultSelector(p.replicas[i]), cbf, <<>>, rank)]
<1>1. SS' = SS
  BY SameSelectors
<1>2. O' = O
  <2>1. \A s : getSelection(p, s, cbf, <<>>, rank)' = getSelection(p, s, cbf, <<>>, rank)
    BY SameSelection
  <2> QED BY <2>1
<1>3. Placed(p, rank) = PlacedOut(p, fs, SS, O)
  BY Zenon DEF Placed, PlacedOut
<1>4. Placed(p, rank)' = PlacedOut(p, fs, SS', O')
  BY Zenon DEF Placed, PlacedOut
<1> HIDE DEF SS, O
<1> QED BY <1>1, <1>2, <1>3, <1>4, Zenon

-----------------------------------------------------------------------------
(* The properties. *)

\* The outcome is that of the policy which has been built and does not change any more.
PlacementInv ==
  /\ PolicyType
  /\ \/ outcome = NoOutcome
     \/ \E p, rank : p = policy /\ rank \in Orders /\ outcome = Placed(p, rank)

LEMMA PlacementInitInv ==
  PlacementInit => PlacementInv
<1> SUFFICES ASSUME PlacementInit PROVE PlacementInv
  OBVIOUS
<1>1. EmptyPolicy \in [backupFactor : Nat, filters : Seq(PolicyFilters),
                       selectors : Seq(PolicySelectors), replicas : Seq(PolicyReplicas)]
  BY DEF EmptyPolicy
<1> QED BY <1>1 DEF PlacementInit, PlacementInv, PolicyType

LEMMA PlacementStepInv ==
  PlacementInv /\ [PlacementNext]_placementVars => PlacementInv'
<1> SUFFICES ASSUME PlacementInv, [PlacementNext]_placementVars PROVE PlacementInv'
  OBVIOUS
<1> DEFINE P == [backupFactor : Nat, filters : Seq(PolicyFilters),
                 selectors : Seq(PolicySelectors), replicas : Seq(PolicyReplicas)]
<1>1. policy \in P /\ netMap \in NetMaps
  BY DEF PlacementInv, PolicyType
<1>2. /\ policy.filters \in Seq(PolicyFilters) /\ policy.selectors \in Seq(PolicySelectors)
      /\ policy.replicas \in Seq(PolicyReplicas) /\ policy.backupFactor \in Nat
  BY <1>1
<1>3. ASSUME NEW q \in P, Build(q) PROVE PlacementInv'
  BY <1>1, <1>3 DEF Build, PlacementInv, PolicyType
<1>4. ASSUME NEW f \in PolicyFilters, AddFilters(f) PROVE PlacementInv'
  <2>1. Append(policy.filters, f) \in Seq(PolicyFilters)
    BY <1>2
  <2>2. [policy EXCEPT !.filters = Append(@, f)] \in P
    BY <1>1, <2>1
  <2> QED BY <1>3, <1>4, <2>2 DEF AddFilters
<1>5. ASSUME NEW s \in PolicySelectors, AddSelectors(s) PROVE PlacementInv'
  <2>1. Append(policy.selectors, s) \in Seq(PolicySelectors)
    BY <1>2
  <2>2. [policy EXCEPT !.selectors = Append(@, s)] \in P
    BY <1>1, <2>1
  <2> QED BY <1>3, <1>5, <2>2 DEF AddSelectors
<1>6. ASSUME NEW r \in PolicyReplicas, AddReplicas(r) PROVE PlacementInv'
  <2>1. Append(policy.replicas, r) \in Seq(PolicyReplicas)
    BY <1>2
  <2>2. [policy EXCEPT !.replicas = Append(@, r)] \in P
    BY <1>1, <2>1
  <2> QED BY <1>3, <1>6, <2>2 DEF AddReplicas
<1>7. ASSUME NEW n \in BackupFactors, SetContainerBackupFactor(n) PROVE PlacementInv'
  <2>1. [policy EXCEPT !.backupFactor = n] \in P
    BY <1>1, PlacementAssumption
  <2> QED BY <1>3, <1>7, <2>1 DEF SetContainerBackupFactor
<1>8. ASSUME NEW rank \in Orders, ContainerNodes(rank) PROVE PlacementInv'
  <2>1. PICK q : q = policy
    OBVIOUS
  <2>2. outcome' = Placed(q, rank) /\ netMap' = netMap /\ policy' = policy
    BY <1>8, <2>1 DEF ContainerNodes
  <2>3. Orders' = Orders
    BY <2>2 DEF Orders, Nodes
  <2>4. Placed(q, rank)' = Placed(q, rank)
    BY <2>2, SamePlaced
  <2>5. q = policy' /\ rank \in Orders' /\ outcome' = Placed(q, rank)'
    BY <2>1, <2>2, <2>3, <2>4
  <2> QED BY <1>1, <2>2, <2>5 DEF PlacementInv, PolicyType
<1>9. CASE UNCHANGED placementVars
  <2>1. netMap' = netMap /\ policy' = policy /\ outcome' = outcome
    BY <1>9 DEF placementVars
  <2>2. Orders' = Orders
    BY <2>1 DEF Orders, Nodes
  <2>3. \A q, rank : Placed(q, rank)' = Placed(q, rank)
    BY <2>1, SamePlaced
  <2>4. (outcome = NoOutcome)' <=> outcome = NoOutcome
    BY <2>1
  <2> QED BY <1>1, <2>1, <2>2, <2>3, <2>4 DEF PlacementInv, PolicyType
<1> QED BY <1>4, <1>5, <1>6, <1>7, <1>8, <1>9 DEF PlacementNext

LEMMA OutcomeMeans ==
  ASSUME PlacementInv, Plain, outcome.kind # "none"
  PROVE  Fulfilled(outcome)
<1>1. PICK rank \in Orders : outcome = Placed(policy, rank)
  BY DEF PlacementInv, NoOutcome, Result
<1>2. Given(rank)
  BY <1>1 DEF Given, PlacementInv
<1> QED BY <1>1, <1>2, PlacedMeans

\* ContainerNodes gives each replica of a plain policy, for every network map, every
\* policy and every order of the buckets, a line of as many nodes as the replica's
\* selector says and no more than the backup factor allows, none twice, all accepted
\* by the filter, and all alike or all different in the selector's attribute.
THEOREM LinesFulfilPolicyHolds == PlacementSpec => []LinesFulfilPolicy
<1>1. PlacementInv => LinesFulfilPolicy
  <2> SUFFICES ASSUME PlacementInv, outcome.kind = "ok", Plain, NEW i \in DOMAIN policy.replicas,
                      NEW s, s = SelectorOf(policy.replicas[i]), NEW line, line = outcome.lines[i],
                      NEW groups, groups = {g \in Groups(s) : g \cap Range(line) # {}}
               PROVE  /\ IsInjective(line)
                      /\ Range(line) \subseteq Eligible(s)
                      /\ s.count <= Len(line) /\ Len(line) <= s.count * setCBF(policy.backupFactor)
                      /\ s.clause = "SAME" /\ s.attribute # "" => Cardinality(groups) = 1
                      /\ s.clause # "SAME" /\ s.attribute # "" => Cardinality(groups) = s.count
    BY Zenon DEF LinesFulfilPolicy
  <2>1. Fulfilled(outcome)
    BY OutcomeMeans
  <2>2. LineKept(s, setCBF(policy.backupFactor), Eligible(s), Groups(s), line)
    BY <2>1 DEF Fulfilled
  <2>3. groups = Touched(Groups(s), line)
    BY DEF Touched
  <2> QED BY <2>2, <2>3, Zenon DEF LineKept
<1> QED BY <1>1, PlacementInitInv, PlacementStepInv, PTL DEF PlacementSpec

\* A plain policy is processed to the end, without a panic, and refused only if a
\* filter is not well-formed, a name does not resolve, or the network map has too few
\* nodes for a selector.
THEOREM RefusedOnlyIfShortHolds == PlacementSpec => []RefusedOnlyIfShort
<1>1. PlacementInv => RefusedOnlyIfShort
  <2> SUFFICES ASSUME PlacementInv, Plain
               PROVE  /\ outcome.kind \notin {"panic", "endless"}
                      /\ outcome.kind = "error" =>
                           \/ \E k \in DOMAIN policy.filters : ~WellFormed(k)
                           \/ Unresolved
                           \/ ShortOfNodes
    BY Zenon DEF RefusedOnlyIfShort
  <2>1. CASE outcome.kind = "none"
    BY <2>1
  <2>2. CASE outcome.kind # "none"
    <3>1. Fulfilled(outcome)
      BY <2>2, OutcomeMeans
    <3>2. ASSUME processFilters(policy).err PROVE \E k \in DOMAIN policy.filters : ~WellFormed(k)
      <4>1. policy.filters \in Seq(PolicyFilters)
        BY DEF PlacementInv, PolicyType
      <4>2. PICK k \in DOMAIN policy.filters : ~processFilter(policy.filters[k], namesBefore(policy, k))
        BY <3>2 DEF processFilters
      <4> QED BY <4>1, <4>2, WellFormedPasses
    <3>3. (\E s \in Range(policy.selectors) : Short(s)) => Unresolved \/ ShortOfNodes
      BY Zenon DEF Short, Unresolved, ShortOfNodes
    <3>4. (\E r \in Range(policy.replicas) : ReplicaShort(r)) => Unresolved \/ ShortOfNodes
      BY Zenon DEF ReplicaShort, Unresolved, ShortOfNodes
    <3> QED BY <3>1, <3>2, <3>3, <3>4 DEF Fulfilled
  <2> QED BY <2>1, <2>2
<1> QED BY <1>1, PlacementInitInv, PlacementStepInv, PTL DEF PlacementSpec
=============================================================================
