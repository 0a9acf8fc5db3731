-------------------------- MODULE QueueOrderProofs --------------------------
(***************************************************************************)
(* What Ascending and Keep return, for every finite set and every          *)
(* sequence.                                                               *)
(***************************************************************************)
EXTENDS QueueOrder, FiniteSetTheorems, WellFoundedInduction, TLAPS

NoRepeat(q) == \A i, j \in DOMAIN q : q[i] = q[j] => i = j

\* Induction, in the form the proofs use it: a set of natural numbers that is
\* not empty has a least element.
LEMMA LeastNat ==
    ASSUME NEW T \in SUBSET Nat, T # {}
    PROVE  \E x \in T : \A y \in T : x <= y
<1> DEFINE R == OpToRel(<, Nat)
<1>1. IsWellFoundedOn(R, Nat)
  BY NatLessThanWellFounded, Zenon
<1>2. \A x, y \in Nat : x < y => <<x, y>> \in R
  BY DEF OpToRel
<1> HIDE DEF R
<1>3. PICK x \in T : \A y \in T : <<y, x>> \notin R
  BY <1>1, WFMin
<1>4. \A y \in T : ~(y < x)
  BY <1>2, <1>3
<1>5. QED
  BY <1>3, <1>4

\* A set of natural numbers with 0 and every successor is all of them.
LEMMA SetInduction ==
    ASSUME NEW T \in SUBSET Nat, 0 \in T, \A n \in T : n + 1 \in T
    PROVE  T = Nat
<1> SUFFICES ASSUME Nat \ T # {} PROVE FALSE
  OBVIOUS
<1>1. PICK n \in Nat \ T : \A m \in Nat \ T : n <= m
  BY LeastNat
<1>2. n # 0 /\ n - 1 \in Nat /\ n - 1 \notin Nat \ T
  BY <1>1
<1>3. QED
  BY <1>2

-----------------------------------------------------------------------------
(* A rank determines its element, and every place is taken.                *)

\* The elements up to x are finitely many, and no more than those of S.
LEMMA RankFinite ==
    ASSUME NEW S, IsFiniteSet(S), NEW x
    PROVE  /\ IsFiniteSet({y \in S : y <= x})
           /\ Rank(S, x) \in Nat
           /\ Rank(S, x) <= Cardinality(S)
<1>1. {y \in S : y <= x} \subseteq S
  OBVIOUS
<1>2. IsFiniteSet({y \in S : y <= x})
  BY <1>1, FS_Subset
<1>3. QED
  BY <1>1, <1>2, FS_Subset, FS_CardinalityType DEF Rank

\* A smaller element has a smaller rank.
LEMMA RankMonotonic ==
    ASSUME NEW S \in SUBSET Int, IsFiniteSet(S),
           NEW x \in S, NEW y \in S, x < y
    PROVE  Rank(S, x) < Rank(S, y)
<1> DEFINE A == {z \in S : z <= x}
           B == {z \in S : z <= y}
<1>1. A \subseteq B
  <2>1. ASSUME NEW z \in A PROVE z \in B
    <3>1. z \in S /\ z <= x
      OBVIOUS
    <3>2. z \in Int /\ x \in Int /\ y \in Int
      BY <3>1
    <3>3. z <= y
      BY <3>1, <3>2
    <3>4. QED
      BY <3>1, <3>3
  <2>2. QED
    BY <2>1
<1>2. y \in B /\ y \notin A
  <2>1. x \in Int /\ y \in Int
    OBVIOUS
  <2>2. y <= y /\ ~(y <= x)
    BY <2>1
  <2>3. QED
    BY <2>2
<1>3. A # B
  BY <1>2
<1>4. IsFiniteSet(B)
  BY RankFinite
<1>5. Cardinality(A) < Cardinality(B)
  <2> HIDE DEF A, B
  <2>1. QED
    BY <1>1, <1>3, <1>4, FS_Subset, FS_CardinalityType
<1>6. QED
  BY <1>5 DEF Rank

LEMMA RankInjective ==
    ASSUME NEW S \in SUBSET Int, IsFiniteSet(S),
           NEW x \in S, NEW y \in S, Rank(S, x) = Rank(S, y)
    PROVE  x = y
<1>1. Rank(S, x) \in Nat /\ Rank(S, y) \in Nat
  BY RankFinite
<1>2. ~(x < y) /\ ~(y < x)
  BY <1>1, RankMonotonic
<1>3. x \in Int /\ y \in Int
  OBVIOUS
<1>4. QED
  BY <1>2, <1>3

LEMMA RankInRange ==
    ASSUME NEW S \in SUBSET Int, IsFiniteSet(S), NEW x \in S
    PROVE  Rank(S, x) \in 1..Cardinality(S)
<1> DEFINE A == {y \in S : y <= x}
<1>1. x \in A
  <2>1. x \in Int
    OBVIOUS
  <2>2. QED
    BY <2>1
<1>2. IsFiniteSet(A)
  BY RankFinite
<1>3. Cardinality(A) \in Nat /\ Cardinality(A) # 0
  BY <1>1, <1>2, FS_EmptySet, FS_CardinalityType
<1>4. Rank(S, x) = Cardinality(A)
  BY DEF Rank
<1>5. Rank(S, x) <= Cardinality(S) /\ Cardinality(S) \in Nat
  BY RankFinite, FS_CardinalityType
<1>6. QED
  BY <1>3, <1>4, <1>5

\* The ranks are an injection into a set of the same size, so all are taken.
LEMMA RankOnto ==
    ASSUME NEW S \in SUBSET Int, IsFiniteSet(S), NEW k \in 1..Cardinality(S)
    PROVE  \E x \in S : Rank(S, x) = k
<1> DEFINE n == Cardinality(S)
           f == [x \in S |-> Rank(S, x)]
<1>1. n \in Nat
  BY FS_CardinalityType
<1>2. f \in [S -> 1..n]
  BY RankInRange
<1>3. \A x, y \in S : f[x] = f[y] => x = y
  BY RankInjective
<1>4. f \in Injection(S, 1..n)
  <2> HIDE DEF f
  <2>1. QED
    BY <1>2, <1>3 DEF Injection, IsInjective
<1>5. IsFiniteSet(1..n) /\ Cardinality(1..n) = n
  BY <1>1, FS_Interval
<1>6. f \in Surjection(S, 1..n)
  BY <1>4, <1>5, FS_Injection
<1>7. \E x \in S : f[x] = k
  <2> HIDE DEF f
  <2>1. QED
    BY <1>6 DEF Surjection
<1>8. QED
  BY <1>7

-----------------------------------------------------------------------------
(* Ascending lists a finite set, each element once.                        *)

LEMMA AscendingElement ==
    ASSUME NEW S \in SUBSET Int, IsFiniteSet(S), NEW k \in 1..Cardinality(S)
    PROVE  Ascending(S)[k] \in S /\ Rank(S, Ascending(S)[k]) = k
BY RankOnto DEF Ascending

LEMMA AscendingLists ==
    ASSUME NEW S \in SUBSET Int, IsFiniteSet(S)
    PROVE  /\ Ascending(S) \in Seq(S)
           /\ Len(Ascending(S)) = Cardinality(S)
           /\ NoRepeat(Ascending(S))
           /\ Members(Ascending(S)) = S
<1> DEFINE a == Ascending(S)
           n == Cardinality(S)
<1>1. n \in Nat
  BY FS_CardinalityType
<1>2. DOMAIN a = 1..n
  BY DEF Ascending
<1>3. \A k \in 1..n : a[k] \in S /\ Rank(S, a[k]) = k
  BY AscendingElement
<1>4. a = [k \in 1..n |-> a[k]]
  BY DEF Ascending
<1> HIDE DEF a
<1>5. a \in [1..n -> S]
  BY <1>3, <1>4
<1>6. a \in Seq(S) /\ Len(a) = n
  BY <1>1, <1>5
<1>7. NoRepeat(a)
  BY <1>2, <1>3 DEF NoRepeat
<1>8. Members(a) = S
  <2>1. Members(a) \subseteq S
    BY <1>2, <1>3 DEF Members
  <2>2. ASSUME NEW x \in S PROVE x \in Members(a)
    <3>1. Rank(S, x) \in 1..n
      BY RankInRange
    <3>2. a[Rank(S, x)] \in S /\ Rank(S, a[Rank(S, x)]) = Rank(S, x)
      BY <3>1, <1>3
    <3>3. ASSUME NEW y \in S, Rank(S, y) = Rank(S, x) PROVE y = x
      BY <3>3, RankInjective
    <3>4. a[Rank(S, x)] = x
      BY <3>2, <3>3
    <3>5. QED
      BY <1>2, <3>1, <3>4 DEF Members
  <2>3. QED
    BY <2>1, <2>2
<1>9. QED
  BY <1>6, <1>7, <1>8 DEF a

\* ... and lists it in increasing order.
LEMMA AscendingSorted ==
    ASSUME NEW S \in SUBSET Int, IsFiniteSet(S),
           NEW j \in 1..Cardinality(S), NEW k \in 1..Cardinality(S), j < k
    PROVE  Ascending(S)[j] < Ascending(S)[k]
<1> DEFINE x == Ascending(S)[j]
           y == Ascending(S)[k]
<1>1. x \in S /\ y \in S /\ Rank(S, x) = j /\ Rank(S, y) = k
  BY AscendingElement
<1> HIDE DEF x, y
<1>2. ~(y < x)
  BY <1>1, RankMonotonic
<1>3. x # y
  BY <1>1
<1>4. x \in Int /\ y \in Int
  BY <1>1
<1>5. x < y
  BY <1>2, <1>3, <1>4
<1>6. QED
  BY <1>5 DEF x, y

\* The first k places of an array without repetition hold k elements.
Held(e, k) == {e[a] : a \in 1..k}
LEMMA HeldCount ==
    ASSUME NEW e, NEW k \in Nat, \A a, b \in 1..k : e[a] = e[b] => a = b
    PROVE  IsFiniteSet(Held(e, k)) /\ Cardinality(Held(e, k)) = k
<1> DEFINE D == 1..k
           g == [a \in D |-> e[a]]
           T == Held(e, k)
<1>1. IsFiniteSet(D) /\ Cardinality(D) = k
  BY FS_Interval
<1>2. g \in [D -> T] /\ \A y \in T : \E a \in D : g[a] = y
  BY DEF Held
<1>3. \A a, b \in D : g[a] = g[b] => a = b
  OBVIOUS
<1> HIDE DEF D, g, T
<1>4. g \in Bijection(D, T)
  BY <1>2, <1>3 DEF Bijection, Injection, Surjection, IsInjective
<1>5. IsFiniteSet(T) /\ Cardinality(T) = k
  BY <1>1, <1>4, FS_Bijection DEF ExistsBijection
<1>6. QED
  BY <1>5 DEF T

\* There is no other: what lists S in increasing order is Ascending(S).
LEMMA AscendingUnique ==
    ASSUME NEW m \in Nat, NEW e \in [1..m -> Int],
           \A j, k \in 1..m : j < k => e[j] < e[k],
           NEW S, S = {e[k] : k \in 1..m}
    PROVE  Ascending(S) = e /\ IsFiniteSet(S) /\ Cardinality(S) = m
<1>1. \A j, k \in 1..m : e[j] \in Int /\ (e[j] = e[k] => j = k)
  <2> SUFFICES ASSUME NEW j \in 1..m, NEW k \in 1..m
               PROVE  e[j] \in Int /\ (e[j] = e[k] => j = k)
    OBVIOUS
  <2>1. e[j] \in Int /\ e[k] \in Int
    OBVIOUS
  <2>2. CASE j < k
    BY <2>1, <2>2
  <2>3. CASE k < j
    BY <2>1, <2>3
  <2>4. QED
    BY <2>1, <2>2, <2>3
<1>2. S \in SUBSET Int /\ IsFiniteSet(S) /\ Cardinality(S) = m
  <2>1. \A a, b \in 1..m : e[a] = e[b] => a = b
    BY <1>1
  <2>2. IsFiniteSet(Held(e, m)) /\ Cardinality(Held(e, m)) = m
    BY <2>1, HeldCount
  <2>3. S = Held(e, m)
    BY DEF Held
  <2>4. S \in SUBSET Int
    BY <1>1
  <2>5. QED
    BY <2>2, <2>3, <2>4
<1>3. ASSUME NEW k \in 1..m PROVE Rank(S, e[k]) = k
  <2>1. k \in Nat /\ 1..k \subseteq 1..m
    OBVIOUS
  <2>2. ASSUME NEW j \in 1..m PROVE e[j] <= e[k] <=> j \in 1..k
    <3>1. e[j] \in Int /\ e[k] \in Int
      BY <1>1
    <3>2. CASE j < k
      BY <2>1, <3>1, <3>2
    <3>3. CASE j = k
      BY <2>1, <3>1, <3>3
    <3>4. CASE k < j
      BY <2>1, <3>1, <3>4
    <3>5. QED
      BY <3>2, <3>3, <3>4
  <2>3. {y \in S : y <= e[k]} = Held(e, k)
    BY <2>1, <2>2 DEF Held
  <2>4. \A a, b \in 1..k : e[a] = e[b] => a = b
    BY <1>1, <2>1
  <2>5. Cardinality(Held(e, k)) = k
    BY <2>1, <2>4, HeldCount
  <2>6. QED
    BY <2>3, <2>5 DEF Rank
<1>4. ASSUME NEW k \in 1..m PROVE Ascending(S)[k] = e[k]
  <2>1. Ascending(S)[k] \in S /\ Rank(S, Ascending(S)[k]) = k
    BY <1>2, AscendingElement
  <2>2. e[k] \in S /\ Rank(S, e[k]) = k
    BY <1>3
  <2>3. ASSUME NEW x \in S, NEW y \in S, Rank(S, x) = Rank(S, y)
        PROVE  x = y
    BY <1>2, <2>3, RankInjective
  <2> HIDE DEF Ascending
  <2>4. QED
    BY <2>1, <2>2, <2>3
<1>5. Ascending(S) = [k \in 1..m |-> Ascending(S)[k]]
  <2> DEFINE F(k) == CHOOSE x \in S : Rank(S, x) = k
  <2>1. Ascending(S) = [k \in 1..m |-> F(k)]
    BY <1>2 DEF Ascending
  <2> HIDE DEF F
  <2>2. QED
    BY <2>1
<1>6. e = [k \in 1..m |-> e[k]]
  OBVIOUS
<1>7. Ascending(S) = e
  <2> HIDE DEF Ascending
  <2>1. QED
    BY <1>4, <1>5, <1>6
<1>8. QED
  BY <1>2, <1>7

-----------------------------------------------------------------------------
(* Keep drops the elements outside T and nothing else.                     *)

LEMMA KeepSelects ==
    ASSUME NEW X, NEW q \in Seq(X), NEW T
    PROVE  /\ Keep(q, T) \in Seq(X)
           /\ Members(Keep(q, T)) = Members(q) \cap T
           /\ NoRepeat(q) => NoRepeat(Keep(q, T))
<1> DEFINE I == {i \in DOMAIN q : q[i] \in T}
           kept == Ascending(I)
           r == Keep(q, T)
<1>1. DOMAIN q = 1..Len(q) /\ Len(q) \in Nat
  OBVIOUS
<1>2. I \in SUBSET Int /\ I \subseteq 1..Len(q)
  BY <1>1
<1>3. IsFiniteSet(I)
  <2> HIDE DEF I
  <2>1. IsFiniteSet(1..Len(q))
    BY <1>1, FS_Interval
  <2>2. QED
    BY <1>2, <2>1, FS_Subset
<1>4. /\ kept \in Seq(I)
      /\ NoRepeat(kept)
      /\ Members(kept) = I
  BY <1>2, <1>3, AscendingLists
<1>5. r = [k \in DOMAIN kept |-> q[kept[k]]]
  BY DEF Keep
<1> DEFINE n == Len(kept)
<1> HIDE DEF kept, r, n
<1>6. DOMAIN kept = 1..n /\ n \in Nat
  BY <1>4 DEF n
<1>7. \A k \in 1..n : kept[k] \in I
  BY <1>4, <1>6
<1>8. r \in Seq(X)
  <2>1. \A k \in 1..n : q[kept[k]] \in X
    BY <1>1, <1>7
  <2>2. r \in [1..n -> X]
    BY <1>5, <1>6, <2>1
  <2>3. QED
    BY <1>6, <2>2
<1>9. Members(r) = Members(q) \cap T
  <2>1. Members(r) = {q[i] : i \in I}
    BY <1>4, <1>5, <1>6 DEF Members
  <2>2. QED
    BY <2>1 DEF Members
<1>10. ASSUME NoRepeat(q) PROVE NoRepeat(r)
  BY <1>4, <1>5, <1>6, <1>7, <1>10 DEF NoRepeat
<1>11. QED
  BY <1>8, <1>9, <1>10 DEF r

\* The m places e, in increasing order, are those of the elements of q in T.
PlacesIn(e, m, q, T) ==
    /\ m \in Nat
    /\ e \in [1..m -> DOMAIN q]
    /\ \A j, k \in 1..m : j < k => e[j] < e[k]
    /\ \A i \in DOMAIN q : q[i] \in T <=> \E k \in 1..m : i = e[k]

Picked(e, m, q) == [k \in 1..m |-> q[e[k]]]

\* Whatever lists the places in order gives what Keep keeps.
LEMMA KeepIs ==
    ASSUME NEW X, NEW q \in Seq(X), NEW T, NEW m, NEW e, PlacesIn(e, m, q, T)
    PROVE  Keep(q, T) = Picked(e, m, q)
<1> DEFINE I == {i \in DOMAIN q : q[i] \in T}
<1>1. /\ m \in Nat /\ e \in [1..m -> Int] /\ DOMAIN e = 1..m
      /\ \A j, k \in 1..m : j < k => e[j] < e[k]
  BY DOMAIN q = 1..Len(q) DEF PlacesIn
<1>2. I = {e[k] : k \in 1..m}
  BY DEF PlacesIn
<1>3. Ascending(I) = e
  <2> HIDE DEF I
  <2>1. QED
    BY <1>1, <1>2, AscendingUnique
<1>4. QED
  BY <1>1, <1>3 DEF Keep, Picked

\* Some places do.
LEMMA KeptPlaces ==
    ASSUME NEW X, NEW q \in Seq(X), NEW T
    PROVE  \E e, m : PlacesIn(e, m, q, T)
<1> DEFINE I == {i \in DOMAIN q : q[i] \in T}
           e == Ascending(I)
<1>1. DOMAIN q = 1..Len(q) /\ Len(q) \in Nat
  OBVIOUS
<1>2. I \in SUBSET Int /\ I \subseteq 1..Len(q) /\ I \subseteq DOMAIN q
  BY <1>1
<1>3. IsFiniteSet(I)
  <2> HIDE DEF I
  <2>1. IsFiniteSet(1..Len(q))
    BY <1>1, FS_Interval
  <2>2. QED
    BY <1>2, <2>1, FS_Subset
<1> HIDE DEF I
<1>4. e \in Seq(I) /\ Len(e) = Cardinality(I) /\ Members(e) = I
  BY <1>2, <1>3, AscendingLists
<1>5. \A j, k \in DOMAIN e : j < k => e[j] < e[k]
  BY <1>2, <1>3, <1>4, AscendingSorted
<1> HIDE DEF e
<1>6. Len(e) \in Nat /\ DOMAIN e = 1..Len(e) /\ e = [k \in 1..Len(e) |-> e[k]]
  BY <1>4
<1>7. \A k \in 1..Len(e) : e[k] \in DOMAIN q
  BY <1>2, <1>4, <1>6
<1>8. \A i : i \in I <=> \E k \in 1..Len(e) : i = e[k]
  BY <1>4, <1>6 DEF Members
<1>9. e \in [1..Len(e) -> DOMAIN q]
  BY <1>6, <1>7
<1>10. PlacesIn(e, Len(e), q, T)
  BY <1>5, <1>6, <1>8, <1>9 DEF PlacesIn, I
<1>11. QED
  BY <1>10

-----------------------------------------------------------------------------
(* Sequences without repetition.                                           *)

LEMMA ConcatMembers ==
    ASSUME NEW X, NEW q \in Seq(X), NEW r \in Seq(X)
    PROVE  Members(q \o r) = Members(q) \cup Members(r)
<1> DEFINE m == Len(q)
           n == Len(r)
<1>1. m \in Nat /\ n \in Nat /\ DOMAIN q = 1..m /\ DOMAIN r = 1..n
  OBVIOUS
<1>2. DOMAIN (q \o r) = 1..(m + n)
  OBVIOUS
<1>3. \A i \in 1..m : (q \o r)[i] = q[i]
  OBVIOUS
<1>4. \A i \in 1..n : (q \o r)[m + i] = r[i]
  OBVIOUS
<1> DEFINE c == q \o r
<1> HIDE DEF m, n, c
<1>5. Members(c) \subseteq Members(q) \cup Members(r)
  <2>1. ASSUME NEW i \in 1..(m + n) PROVE c[i] \in Members(q) \cup Members(r)
    <3>1. CASE i <= m
      BY <1>1, <1>3, <3>1 DEF Members, c
    <3>2. CASE i > m
      <4>1. i - m \in 1..n /\ m + (i - m) = i
        BY <1>1, <3>2
      <4>2. QED
        BY <1>1, <1>4, <4>1 DEF Members, c
    <3>3. QED
      BY <1>1, <3>1, <3>2
  <2>2. QED
    BY <1>2, <2>1 DEF Members, c
<1>6. Members(q) \subseteq Members(c)
  BY <1>1, <1>2, <1>3 DEF Members, c
<1>7. Members(r) \subseteq Members(c)
  <2>1. \A i \in 1..n : m + i \in 1..(m + n)
    BY <1>1
  <2>2. QED
    BY <1>1, <1>2, <1>4, <2>1 DEF Members, c
<1>8. QED
  BY <1>5, <1>6, <1>7 DEF c

LEMMA ConcatNoRepeat ==
    ASSUME NEW X, NEW q \in Seq(X), NEW r \in Seq(X),
           NoRepeat(q), NoRepeat(r), Members(q) \cap Members(r) = {}
    PROVE  NoRepeat(q \o r)
<1> DEFINE m == Len(q)
           n == Len(r)
<1>1. m \in Nat /\ n \in Nat /\ DOMAIN q = 1..m /\ DOMAIN r = 1..n
  OBVIOUS
<1>2. DOMAIN (q \o r) = 1..(m + n)
  OBVIOUS
<1>3. \A i \in 1..m : (q \o r)[i] = q[i]
  OBVIOUS
<1>4. \A i \in 1..(m + n) : i > m => (q \o r)[i] = r[i - m]
  OBVIOUS
<1> DEFINE c == q \o r
<1> HIDE DEF m, n, c
<1>5. \A i \in 1..m : c[i] \in Members(q)
  BY <1>1, <1>3 DEF Members, c
<1>6. \A i \in 1..(m + n) : i > m => i - m \in 1..n
  BY <1>1
<1>7. \A i \in 1..(m + n) : i > m => c[i] \in Members(r)
  BY <1>1, <1>4, <1>6 DEF Members, c
<1>8. ASSUME NEW i \in 1..(m + n), NEW j \in 1..(m + n), c[i] = c[j]
      PROVE  i = j
  <2>1. CASE i <= m /\ j <= m
    <3>1. i \in 1..m /\ j \in 1..m
      BY <1>1, <2>1
    <3>2. q[i] = q[j]
      BY <1>3, <1>8, <3>1 DEF c
    <3>3. QED
      BY <1>1, <3>1, <3>2 DEF NoRepeat
  <2>2. CASE i > m /\ j > m
    <3>1. i - m \in 1..n /\ j - m \in 1..n
      BY <1>6, <2>2
    <3>2. r[i - m] = r[j - m]
      BY <1>4, <1>8, <2>2 DEF c
    <3>3. i - m = j - m
      BY <1>1, <3>1, <3>2 DEF NoRepeat
    <3>4. QED
      BY <1>1, <3>3
  <2>3. CASE i <= m /\ j > m
    BY <1>1, <1>5, <1>7, <1>8, <2>3
  <2>4. CASE i > m /\ j <= m
    BY <1>1, <1>5, <1>7, <1>8, <2>4
  <2>5. QED
    BY <1>1, <2>1, <2>2, <2>3, <2>4
<1>9. QED
  BY <1>2, <1>8 DEF NoRepeat, c

LEMMA TailNoRepeat ==
    ASSUME NEW X, NEW q \in Seq(X), q # <<>>, NoRepeat(q)
    PROVE  /\ Head(q) \in Members(q)
           /\ Tail(q) \in Seq(X)
           /\ NoRepeat(Tail(q))
           /\ Members(Tail(q)) = Members(q) \ {Head(q)}
<1> DEFINE n == Len(q)
           t == Tail(q)
<1>1. n \in Nat /\ n > 0 /\ DOMAIN q = 1..n /\ Head(q) = q[1]
  OBVIOUS
<1>2. t \in Seq(X) /\ DOMAIN t = 1..(n - 1)
  OBVIOUS
<1>3. \A i \in 1..(n - 1) : t[i] = q[i + 1]
  OBVIOUS
<1> HIDE DEF n, t
<1>4. 1 \in 1..n /\ \A i \in 1..(n - 1) : i + 1 \in 1..n /\ i + 1 # 1
  BY <1>1
<1>5. Head(q) \in Members(q)
  BY <1>1, <1>4 DEF Members
<1>6. NoRepeat(t)
  <2>1. ASSUME NEW i \in 1..(n - 1), NEW j \in 1..(n - 1), t[i] = t[j]
        PROVE  i = j
    <3>1. i + 1 = j + 1
      BY <1>1, <1>3, <1>4, <2>1 DEF NoRepeat
    <3>2. QED
      BY <3>1
  <2>2. QED
    BY <1>2, <2>1 DEF NoRepeat
<1>7. Members(t) \subseteq Members(q) \ {Head(q)}
  <2>1. ASSUME NEW i \in 1..(n - 1) PROVE t[i] \in Members(q) /\ t[i] # Head(q)
    BY <1>1, <1>3, <1>4 DEF Members, NoRepeat
  <2>2. QED
    BY <1>2, <2>1 DEF Members
<1>8. Members(q) \ {Head(q)} \subseteq Members(t)
  <2>1. ASSUME NEW i \in 1..n, q[i] # Head(q) PROVE q[i] \in Members(t)
    <3>1. i # 1
      BY <1>1, <2>1
    <3>2. i - 1 \in 1..(n - 1) /\ (i - 1) + 1 = i
      BY <1>1, <3>1
    <3>3. q[i] = t[i - 1]
      BY <1>3, <3>2
    <3>4. QED
      BY <1>2, <3>2, <3>3 DEF Members
  <2>2. QED
    BY <1>1, <2>1 DEF Members
<1>9. QED
  BY <1>2, <1>5, <1>6, <1>7, <1>8 DEF t

LEMMA AppendNoRepeat ==
    ASSUME NEW X, NEW q \in Seq(X), NEW x \in X, NoRepeat(q), x \notin Members(q)
    PROVE  /\ Append(q, x) \in Seq(X)
           /\ NoRepeat(Append(q, x))
           /\ Members(Append(q, x)) = Members(q) \cup {x}
<1> DEFINE n == Len(q)
           a == Append(q, x)
<1>1. n \in Nat /\ DOMAIN q = 1..n
  OBVIOUS
<1>2. a \in Seq(X) /\ DOMAIN a = 1..(n + 1)
  OBVIOUS
<1>3. a[n + 1] = x /\ \A i \in 1..n : a[i] = q[i]
  OBVIOUS
<1> HIDE DEF n, a
<1>4. \A i \in 1..(n + 1) : i \in 1..n \/ i = n + 1
  BY <1>1
<1>5. n + 1 \in 1..(n + 1) /\ \A i \in 1..n : i \in 1..(n + 1)
  BY <1>1
<1>6. \A i \in 1..n : q[i] # x
  BY <1>1 DEF Members
<1>7. NoRepeat(a)
  BY <1>1, <1>2, <1>3, <1>4, <1>6 DEF NoRepeat
<1>8. Members(a) = Members(q) \cup {x}
  BY <1>1, <1>2, <1>3, <1>4, <1>5 DEF Members
<1>9. QED
  BY <1>2, <1>7, <1>8 DEF a

-----------------------------------------------------------------------------
(* What Keep does to a queue that is taken apart one by one.                *)

\* Whether an element is kept depends on the element alone.
LEMMA KeepSame ==
    ASSUME NEW q, NEW S, NEW T, \A i \in DOMAIN q : q[i] \in S <=> q[i] \in T
    PROVE  Keep(q, S) = Keep(q, T)
<1>1. {i \in DOMAIN q : q[i] \in S} = {i \in DOMAIN q : q[i] \in T}
  OBVIOUS
<1>2. QED
  BY <1>1 DEF Keep

LEMMA KeepEverything ==
    ASSUME NEW X, NEW q \in Seq(X), NEW T, \A i \in DOMAIN q : q[i] \in T
    PROVE  Keep(q, T) = q
<1> DEFINE m == Len(q)
           e == [k \in 1..m |-> k]
<1>1. m \in Nat /\ DOMAIN q = 1..m /\ q = [k \in 1..m |-> q[k]]
  OBVIOUS
<1>2. PlacesIn(e, m, q, T)
  BY <1>1 DEF PlacesIn
<1>3. Picked(e, m, q) = q
  BY <1>1 DEF Picked
<1>4. QED
  BY <1>2, <1>3, KeepIs

\* Twice is once.
LEMMA KeepTwice ==
    ASSUME NEW X, NEW q \in Seq(X), NEW S, NEW T
    PROVE  Keep(Keep(q, S), T) = Keep(q, S \cap T)
<1> DEFINE r == Keep(q, S)
<1>1. PICK e, m : PlacesIn(e, m, q, S)
  BY KeptPlaces
<1>2. r = Picked(e, m, q) /\ r \in Seq(X)
  BY <1>1, KeepIs, KeepSelects
<1> HIDE DEF r
<1>3. PICK f, k : PlacesIn(f, k, r, T)
  BY <1>2, KeptPlaces
<1>4. Keep(r, T) = Picked(f, k, r)
  BY <1>2, <1>3, KeepIs
<1> DEFINE h == [j \in 1..k |-> e[f[j]]]
<1>5. /\ m \in Nat /\ DOMAIN r = 1..m /\ Len(r) = m /\ \A j \in 1..m : r[j] = q[e[j]]
  BY <1>1, <1>2 DEF Picked, PlacesIn
<1>6. /\ k \in Nat /\ f \in [1..k -> 1..m] /\ e \in [1..m -> 1..Len(q)]
  BY <1>1, <1>3, <1>5 DEF PlacesIn
<1>7. PlacesIn(h, k, q, S \cap T)
  <2>1. h \in [1..k -> 1..Len(q)]
    BY <1>6
  <2>2. \A a, b \in 1..k : a < b => h[a] < h[b]
    BY <1>1, <1>3, <1>6 DEF PlacesIn
  <2>3. ASSUME NEW j \in 1..k PROVE q[h[j]] \in S \cap T
    <3>1. q[e[f[j]]] \in S
      BY <1>1, <1>6 DEF PlacesIn
    <3>2. r[f[j]] \in T /\ r[f[j]] = q[e[f[j]]]
      BY <1>3, <1>5, <1>6 DEF PlacesIn
    <3>3. QED
      BY <3>1, <3>2
  <2>4. ASSUME NEW i \in 1..Len(q), q[i] \in S \cap T
        PROVE  \E j \in 1..k : h[j] = i
    <3>1. PICK x \in 1..m : e[x] = i
      BY <1>1, <2>4 DEF PlacesIn
    <3>2. r[x] = q[i]
      BY <1>5, <3>1
    <3>3. PICK j \in 1..k : f[j] = x
      BY <1>3, <1>5, <2>4, <3>1, <3>2 DEF PlacesIn
    <3>4. QED
      BY <3>1, <3>3
  <2> HIDE DEF h
  <2>5. QED
    BY <1>6, <2>1, <2>2, <2>3, <2>4 DEF PlacesIn
<1>8. Keep(q, S \cap T) = Picked(h, k, q)
  BY <1>7, KeepIs
<1>9. Picked(h, k, q) = Picked(f, k, r)
  <2>1. \A j \in 1..k : q[h[j]] = r[f[j]]
    BY <1>5, <1>6
  <2>2. QED
    BY <2>1 DEF Picked
<1>10. QED
  BY <1>4, <1>8, <1>9 DEF r

\* The head taken out of a queue in which it is once.
LEMMA KeepTail ==
    ASSUME NEW X, NEW q \in Seq(X), q # <<>>, NoRepeat(q), NEW T,
           \A x \in X : x \in T <=> x # Head(q)
    PROVE  Keep(q, T) = Tail(q)
<1> DEFINE n == Len(q)
           e == [k \in 1..(n - 1) |-> k + 1]
<1>1. n \in Nat /\ n >= 1 /\ DOMAIN q = 1..n /\ Head(q) = q[1] /\ n - 1 \in Nat
  OBVIOUS
<1>2. \A i \in 1..n : q[i] \in X
  OBVIOUS
<1>3. \A i \in 1..n : q[i] \in T <=> i # 1
  BY <1>1, <1>2 DEF NoRepeat
<1>4. PlacesIn(e, n - 1, q, T)
  BY <1>1, <1>3 DEF PlacesIn
<1>5. Picked(e, n - 1, q) = Tail(q)
  <2>1. Tail(q) \in Seq(X) /\ Len(Tail(q)) = n - 1 /\ \A k \in 1..(n - 1) : Tail(q)[k] = q[k + 1]
    BY <1>1
  <2>2. \A s \in Seq(X) : s = [k \in 1..Len(s) |-> s[k]]
    OBVIOUS
  <2>3. PICK t : t = Tail(q)
    OBVIOUS
  <2>4. t = [k \in 1..(n - 1) |-> t[k]]
    BY <2>1, <2>2, <2>3
  <2>5. t = [k \in 1..(n - 1) |-> q[k + 1]]
    BY <2>1, <2>3, <2>4
  <2>6. Picked(e, n - 1, q) = [k \in 1..(n - 1) |-> q[k + 1]]
    BY <1>1 DEF Picked
  <2>7. QED
    BY <2>3, <2>5, <2>6
<1>6. QED
  BY <1>4, <1>5, KeepIs
=============================================================================
