------------------------- MODULE LinkedQueueProofs -------------------------
(***************************************************************************)
(* The linked list of queue.c is well formed and behaves as a sequence,    *)
(* for any number of nodes and elements, whatever is unlinked.             *)
(***************************************************************************)
EXTENDS LinkedQueue, QueueOrderProofs

-----------------------------------------------------------------------------
(* The list that runs through the nodes of s.                              *)

Entry(s, i) == IF i \in DOMAIN s THEN s[i] ELSE NIL

HeapList == [head : Node \cup {NIL}, tail : Node \cup {NIL}, size : Int,
             next : [Node -> Node \cup {NIL}], used : SUBSET Node]

Lists(l, s) ==
    /\ l \in HeapList
    /\ s \in Seq(Node) /\ NoRepeat(s)
    /\ l.used = Members(s)
    /\ l.size = Len(s)
    /\ l.head = Entry(s, 1)
    /\ l.tail = Entry(s, Len(s))
    /\ \A i \in DOMAIN s : l.next[s[i]] = Entry(s, i + 1)

LEMMA HeapSize == Cardinality(Node) \in Nat
BY NodeAssumption, FS_CardinalityType

LEMMA WalkRecursion ==
    ASSUME NEW l, NEW s, Lists(l, s)
    PROVE  /\ DOMAIN Walk(l) = 0..Cardinality(Node)
           /\ \A k \in 0..Cardinality(Node) :
                Walk(l)[k] = IF k = 0 THEN l.head
                             ELSE IF Walk(l)[k - 1] = NIL THEN NIL
                             ELSE l.next[Walk(l)[k - 1]]
<1> DEFINE C == Cardinality(Node)
           IsWalk(at) == at = [k \in 0..C |->
                                 IF k = 0 THEN l.head
                                 ELSE IF at[k - 1] = NIL THEN NIL ELSE l.next[at[k - 1]]]
           f == [k \in 0..C |-> Entry(s, k + 1)]
<1>1. ASSUME NEW k \in 0..C, k # 0
      PROVE  Entry(s, k + 1) = IF Entry(s, k) = NIL THEN NIL ELSE l.next[Entry(s, k)]
  <2>1. DOMAIN s = 1..Len(s) /\ Len(s) \in Nat /\ k \in Nat
    BY HeapSize DEF Lists
  <2>2. CASE k \in DOMAIN s
    <3>1. s[k] \in Node /\ l.next[s[k]] = Entry(s, k + 1) /\ s[k] # NIL
      BY <2>2, NodeAssumption DEF Lists
    <3>2. QED
      BY <2>2, <3>1 DEF Entry
  <2>3. CASE k \notin DOMAIN s
    BY <1>1, <2>1, <2>3 DEF Entry
  <2>4. QED
    BY <2>2, <2>3
<1>2. IsWalk(f)
  <2>1. \A k \in 0..C : k # 0 => k - 1 \in 0..C /\ f[k - 1] = Entry(s, k)
    BY HeapSize
  <2>2. \A k \in 0..C : f[k] = IF k = 0 THEN l.head
                               ELSE IF f[k - 1] = NIL THEN NIL ELSE l.next[f[k - 1]]
    BY <1>1, <2>1 DEF Lists
  <2>3. QED
    BY <2>2
<1>3. Walk(l) = CHOOSE at : IsWalk(at)
  BY DEF Walk
<1> HIDE DEF IsWalk
<1>4. IsWalk(Walk(l))
  BY <1>2, <1>3
<1>5. QED
  BY <1>4 DEF IsWalk

LEMMA WalkIs ==
    ASSUME NEW l, NEW s, Lists(l, s)
    PROVE  \A k \in 0..Cardinality(Node) : Walk(l)[k] = Entry(s, k + 1)
<1> DEFINE T == {k \in Nat : k <= Cardinality(Node) => Walk(l)[k] = Entry(s, k + 1)}
<1>1. 0 \in T
  BY WalkRecursion, HeapSize DEF Lists
<1>2. ASSUME NEW k \in T PROVE k + 1 \in T
  <2> SUFFICES ASSUME k + 1 <= Cardinality(Node) PROVE Walk(l)[k + 1] = Entry(s, k + 2)
    OBVIOUS
  <2>1. k + 1 \in 0..Cardinality(Node) /\ k + 1 # 0 /\ (k + 1) - 1 = k
    BY HeapSize
  <2>2. Walk(l)[k] = Entry(s, k + 1)
    BY HeapSize
  <2>3. Walk(l)[k + 1] = IF Entry(s, k + 1) = NIL THEN NIL ELSE l.next[Entry(s, k + 1)]
    BY <2>1, <2>2, WalkRecursion
  <2>4. DOMAIN s = 1..Len(s) /\ Len(s) \in Nat /\ k \in Nat
    BY DEF Lists
  <2>5. CASE k + 1 \in DOMAIN s
    <3>1. s[k + 1] \in Node /\ l.next[s[k + 1]] = Entry(s, (k + 1) + 1) /\ s[k + 1] # NIL
      BY <2>5, NodeAssumption DEF Lists
    <3>2. (k + 1) + 1 = k + 2
      BY <2>4
    <3>3. QED
      BY <2>3, <2>5, <3>1, <3>2 DEF Entry
  <2>6. CASE k + 1 \notin DOMAIN s
    BY <2>3, <2>4, <2>6 DEF Entry
  <2>7. QED
    BY <2>5, <2>6
<1>3. T = Nat
  <2> HIDE DEF T
  <2>1. T \subseteq Nat
    BY DEF T
  <2>2. QED
    BY <1>1, <1>2, <2>1, SetInduction
<1>4. QED
  BY <1>3, HeapSize

\* The list is no longer than the heap, so that the walk reaches its end.
LEMMA ListFits ==
    ASSUME NEW s \in Seq(Node), NoRepeat(s)
    PROVE  Len(s) <= Cardinality(Node)
<1> DEFINE n == Len(s)
<1>1. n \in Nat /\ DOMAIN s = 1..n /\ s \in [1..n -> Node]
  OBVIOUS
<1>2. IsFiniteSet(1..n) /\ Cardinality(1..n) = n
  BY <1>1, FS_Interval
<1>3. s \in Injection(1..n, Node)
  BY <1>1 DEF NoRepeat, Injection, IsInjective
<1>4. QED
  BY <1>2, <1>3, NodeAssumption, FS_Injection

LEMMA ChainIs ==
    ASSUME NEW l, NEW s, Lists(l, s)
    PROVE  Chain(l) = s
<1> DEFINE C == Cardinality(Node)
           at == Walk(l)
           steps == {k \in DOMAIN at : at[k] # NIL}
           n == Len(s)
<1>1. s \in Seq(Node) /\ NoRepeat(s) /\ n \in Nat /\ DOMAIN s = 1..n
  BY DEF Lists
<1>2. C \in Nat /\ n <= C
  BY <1>1, HeapSize, ListFits
<1>3. \A k \in 0..C : at[k] = Entry(s, k + 1)
  BY WalkIs
<1>4. DOMAIN at = 0..C
  BY WalkRecursion
<1>5. steps = 0..(n - 1)
  <2>1. \A k \in 0..C : at[k] # NIL <=> k <= n - 1
    <3>1. \A i \in 1..n : s[i] # NIL
      BY <1>1, NodeAssumption
    <3> HIDE DEF at, n
    <3>2. \A k \in 0..C : at[k] = IF k + 1 \in 1..n THEN s[k + 1] ELSE NIL
      BY <1>1, <1>3 DEF Entry
    <3>3. \A k \in 0..C : k + 1 \in 1..n <=> k <= n - 1
      BY <1>1, <1>2
    <3>4. QED
      BY <3>1, <3>2, <3>3
  <2> HIDE DEF at, n
  <2>2. QED
    BY <1>1, <1>2, <1>4, <2>1
<1>6. Cardinality(steps) = n
  <2>1. Cardinality(0..(n - 1)) = n
    BY <1>1, FS_Interval
  <2>2. QED
    BY <1>5, <2>1
<1>7. Chain(l) = [i \in 1..n |-> at[i - 1]]
  BY <1>6 DEF Chain
<1>8. \A i \in 1..n : at[i - 1] = s[i]
  <2> HIDE DEF at, n
  <2>1. QED
    BY <1>1, <1>2, <1>3 DEF Entry
<1>9. QED
  <2> HIDE DEF at, n
  <2>1. s = [i \in 1..n |-> s[i]]
    BY <1>1
  <2>2. QED
    BY <1>7, <1>8, <2>1

-----------------------------------------------------------------------------
(* A sequence without its i-th element.                                    *)

Cut(s, i) == [k \in 1..(Len(s) - 1) |-> IF k < i THEN s[k] ELSE s[k + 1]]

LEMMA CutIs ==
    ASSUME NEW X, NEW s \in Seq(X), NEW i \in DOMAIN s
    PROVE  /\ Cut(s, i) \in Seq(X)
           /\ Len(Cut(s, i)) = Len(s) - 1
           /\ DOMAIN Cut(s, i) = 1..(Len(s) - 1)
           /\ \A k \in 1..(Len(s) - 1) : Cut(s, i)[k] = IF k < i THEN s[k] ELSE s[k + 1]
           /\ \A k \in 1..Len(s) :
                /\ k < i => k \in 1..(Len(s) - 1) /\ Cut(s, i)[k] = s[k]
                /\ k > i => k - 1 \in 1..(Len(s) - 1) /\ Cut(s, i)[k - 1] = s[k]
<1> DEFINE n == Len(s)
           c == Cut(s, i)
<1>1. n \in Nat /\ DOMAIN s = 1..n /\ i \in 1..n
  OBVIOUS
<1>2. c = [k \in 1..(n - 1) |-> IF k < i THEN s[k] ELSE s[k + 1]]
  BY DEF Cut
<1>3. \A k \in 1..(n - 1) : k \in 1..n /\ k + 1 \in 1..n
  BY <1>1
<1> HIDE DEF n, c
<1>4. c \in [1..(n - 1) -> X]
  BY <1>1, <1>2, <1>3
<1>5. c \in Seq(X) /\ Len(c) = n - 1
  BY <1>1, <1>4
<1>6. ASSUME NEW k \in 1..n
      PROVE  /\ k < i => k \in 1..(n - 1) /\ c[k] = s[k]
             /\ k > i => k - 1 \in 1..(n - 1) /\ c[k - 1] = s[k]
  <2>1. CASE k < i
    BY <1>1, <1>2, <2>1
  <2>2. CASE k > i
    <3>1. k - 1 \in 1..(n - 1) /\ ~(k - 1 < i) /\ (k - 1) + 1 = k
      BY <1>1, <2>2
    <3>2. QED
      BY <1>1, <1>2, <2>2, <3>1
  <2>3. QED
    BY <1>1, <2>1, <2>2
<1>7. DOMAIN c = 1..(n - 1)
  BY <1>2
<1>8. QED
  BY <1>1, <1>2, <1>5, <1>6, <1>7 DEF n, c

LEMMA CutMembers ==
    ASSUME NEW X, NEW s \in Seq(X), NEW i \in DOMAIN s, NoRepeat(s)
    PROVE  NoRepeat(Cut(s, i)) /\ Members(Cut(s, i)) = Members(s) \ {s[i]}
<1> DEFINE n == Len(s)
           c == Cut(s, i)
<1>1. n \in Nat /\ DOMAIN s = 1..n /\ i \in 1..n
  OBVIOUS
<1>2. /\ DOMAIN c = 1..(n - 1)
      /\ \A k \in 1..(n - 1) : c[k] = IF k < i THEN s[k] ELSE s[k + 1]
      /\ \A k \in 1..n : /\ k < i => k \in 1..(n - 1) /\ c[k] = s[k]
                         /\ k > i => k - 1 \in 1..(n - 1) /\ c[k - 1] = s[k]
  BY CutIs
<1> HIDE DEF n, c
<1> DEFINE from == [k \in 1..(n - 1) |-> IF k < i THEN k ELSE k + 1]
<1>3. \A k \in 1..(n - 1) : from[k] \in 1..n /\ from[k] # i /\ c[k] = s[from[k]]
  BY <1>1, <1>2
<1>4. \A j, k \in 1..(n - 1) : from[j] = from[k] => j = k
  BY <1>1
<1> HIDE DEF from
<1>5. NoRepeat(c)
  <2>1. \A j, k \in 1..(n - 1) : c[j] = c[k] => j = k
    BY <1>1, <1>3, <1>4 DEF NoRepeat
  <2>2. QED
    BY <1>2, <2>1 DEF NoRepeat
<1>6. ASSUME NEW x PROVE x \in Members(c) <=> x \in Members(s) /\ x # s[i]
  <2>1. ASSUME x \in Members(c) PROVE x \in Members(s) /\ x # s[i]
    BY <1>1, <1>2, <1>3, <2>1 DEF Members, NoRepeat
  <2>2. ASSUME x \in Members(s), x # s[i] PROVE x \in Members(c)
    <3>1. PICK k \in 1..n : x = s[k]
      BY <1>1, <2>2 DEF Members
    <3>2. k < i \/ k > i
      BY <1>1, <2>2, <3>1
    <3>3. QED
      BY <1>2, <3>1, <3>2 DEF Members
  <2>3. QED
    BY <2>1, <2>2
<1>7. QED
  BY <1>5, <1>6 DEF c

\* Dropping an element that is not kept.
LEMMA KeepCut ==
    ASSUME NEW X, NEW s \in Seq(X), NEW T, NEW i \in DOMAIN s, s[i] \notin T
    PROVE  Keep(Cut(s, i), T) = Keep(s, T)
<1> DEFINE n == Len(s)
           c == Cut(s, i)
<1>1. n \in Nat /\ DOMAIN s = 1..n /\ i \in 1..n
  OBVIOUS
<1>2. c \in Seq(X) /\ DOMAIN c = 1..(n - 1)
  BY CutIs
<1>3. /\ \A k \in 1..(n - 1) : c[k] = IF k < i THEN s[k] ELSE s[k + 1]
      /\ \A k \in 1..n : /\ k < i => k \in 1..(n - 1) /\ c[k] = s[k]
                         /\ k > i => k - 1 \in 1..(n - 1) /\ c[k - 1] = s[k]
  BY CutIs
<1> HIDE DEF n, c
<1>4. PICK e, m : PlacesIn(e, m, s, T)
  BY KeptPlaces
<1>5. /\ m \in Nat /\ \A k \in 1..m : e[k] \in 1..n /\ s[e[k]] \in T /\ e[k] # i
      /\ \A j, k \in 1..m : j < k => e[j] < e[k]
      /\ \A b \in 1..n : s[b] \in T <=> \E k \in 1..m : b = e[k]
  BY <1>1, <1>4 DEF PlacesIn
<1> DEFINE f == [k \in 1..m |-> IF e[k] < i THEN e[k] ELSE e[k] - 1]
<1>6. ASSUME NEW k \in 1..m
      PROVE  f[k] \in 1..(n - 1) /\ c[f[k]] = s[e[k]]
  <2>1. CASE e[k] < i
    BY <1>3, <1>5, <2>1
  <2>2. CASE e[k] > i
    <3>1. f[k] = e[k] - 1
      BY <1>1, <1>5, <2>2
    <3>2. QED
      BY <1>3, <1>5, <2>2, <3>1
  <2>3. QED
    BY <1>1, <1>5, <2>1, <2>2
<1>7. \A j, k \in 1..m : j < k => f[j] < f[k]
  <2> SUFFICES ASSUME NEW j \in 1..m, NEW k \in 1..m, j < k PROVE f[j] < f[k]
    OBVIOUS
  <2>1. e[j] \in 1..n /\ e[k] \in 1..n /\ e[j] < e[k] /\ e[j] # i /\ e[k] # i
    BY <1>5
  <2>2. /\ f[j] = IF e[j] < i THEN e[j] ELSE e[j] - 1
        /\ f[k] = IF e[k] < i THEN e[k] ELSE e[k] - 1
    OBVIOUS
  <2> HIDE DEF f
  <2>3. QED
    BY <1>1, <2>1, <2>2
<1>8. ASSUME NEW j \in 1..(n - 1), c[j] \in T
      PROVE  \E k \in 1..m : j = f[k]
  <2> DEFINE b == IF j < i THEN j ELSE j + 1
  <2>1. b \in 1..n /\ s[b] \in T
    BY <1>1, <1>3, <1>8
  <2>2. PICK k \in 1..m : b = e[k]
    BY <1>5, <2>1
  <2>3. f[k] = j
    BY <1>1, <2>2
  <2>4. QED
    BY <2>3
<1>9. f \in [1..m -> 1..(n - 1)]
  BY <1>6
<1> HIDE DEF f
<1>10. PlacesIn(f, m, c, T)
  <2>1. \A j \in 1..(n - 1) : c[j] \in T <=> \E k \in 1..m : j = f[k]
    BY <1>5, <1>6, <1>8
  <2>2. QED
    BY <1>2, <1>5, <1>7, <1>9, <2>1 DEF PlacesIn
<1>11. Keep(c, T) = Picked(f, m, c)
  BY <1>2, <1>10, KeepIs
<1>12. Keep(s, T) = Picked(e, m, s)
  BY <1>4, KeepIs
<1>13. QED
  BY <1>6, <1>11, <1>12 DEF c, Picked
\* Dropping the first element that is kept.
LEMMA KeepFirst ==
    ASSUME NEW X, NEW s \in Seq(X), NEW T, Len(Keep(s, T)) # 0
    PROVE  \E i \in DOMAIN s :
             /\ s[i] \in T /\ s[i] = Keep(s, T)[1]
             /\ \A j \in 1..(i - 1) : s[j] \notin T
             /\ Len(Keep(Cut(s, i), T)) = Len(Keep(s, T)) - 1
             /\ \A k \in 1..(Len(Keep(s, T)) - 1) :
                  Keep(Cut(s, i), T)[k] = Keep(s, T)[k + 1]
<1>1. PICK e, m : PlacesIn(e, m, s, T)
  BY KeptPlaces
<1> DEFINE n == Len(s)
           i == e[1]
           c == Cut(s, i)
<1>2. n \in Nat /\ DOMAIN s = 1..n
  OBVIOUS
<1>3. /\ m \in Nat /\ \A k \in 1..m : e[k] \in 1..n /\ s[e[k]] \in T
      /\ \A j, k \in 1..m : j < k => e[j] < e[k]
      /\ \A b \in 1..n : s[b] \in T <=> \E k \in 1..m : b = e[k]
  BY <1>1, <1>2 DEF PlacesIn
<1>4. Keep(s, T) = Picked(e, m, s)
  BY <1>1, KeepIs
<1>5. Len(Keep(s, T)) = m /\ \A k \in 1..m : Keep(s, T)[k] = s[e[k]]
  BY <1>3, <1>4 DEF Picked
<1>6. m >= 1 /\ i \in 1..n /\ i \in DOMAIN s
  BY <1>2, <1>3, <1>5
<1>7. \A j \in 1..(i - 1) : s[j] \notin T
  <2> SUFFICES ASSUME NEW j \in 1..(i - 1), s[j] \in T PROVE FALSE
    OBVIOUS
  <2>1. PICK k \in 1..m : j = e[k]
    BY <1>2, <1>3, <1>6
  <2>2. k = 1 \/ e[1] < e[k]
    BY <1>3, <1>6
  <2>3. QED
    BY <1>2, <1>6, <2>1, <2>2
<1>8. /\ c \in Seq(X)
      /\ DOMAIN c = 1..(n - 1)
      /\ \A k \in 1..(n - 1) : c[k] = IF k < i THEN s[k] ELSE s[k + 1]
      /\ \A k \in 1..n : k > i => k - 1 \in 1..(n - 1) /\ c[k - 1] = s[k]
  BY <1>6, CutIs
<1> HIDE DEF n, c
<1> DEFINE f == [k \in 1..(m - 1) |-> e[k + 1] - 1]
<1>9. ASSUME NEW k \in 1..(m - 1)
      PROVE  /\ f[k] \in 1..(n - 1) /\ c[f[k]] = s[e[k + 1]]
             /\ e[k + 1] \in 1..n /\ e[k + 1] > i /\ f[k] = e[k + 1] - 1
  <2>1. k + 1 \in 1..m /\ 1 \in 1..m /\ 1 < k + 1
    BY <1>3, <1>6
  <2>2. e[k + 1] \in 1..n /\ e[k + 1] > i
    BY <1>2, <1>3, <1>6, <2>1
  <2>3. QED
    BY <1>8, <2>2
<1>10. \A j, k \in 1..(m - 1) : j < k => f[j] < f[k]
  <2> SUFFICES ASSUME NEW j \in 1..(m - 1), NEW k \in 1..(m - 1), j < k PROVE f[j] < f[k]
    OBVIOUS
  <2>1. j + 1 \in 1..m /\ k + 1 \in 1..m /\ j + 1 < k + 1
    BY <1>3
  <2>2. e[j + 1] < e[k + 1] /\ e[j + 1] \in 1..n /\ e[k + 1] \in 1..n
    BY <1>3, <2>1
  <2>3. f[j] = e[j + 1] - 1 /\ f[k] = e[k + 1] - 1
    OBVIOUS
  <2> HIDE DEF f
  <2>4. QED
    BY <1>2, <2>2, <2>3
<1>11. ASSUME NEW j \in 1..(n - 1), c[j] \in T
       PROVE  \E k \in 1..(m - 1) : j = f[k]
  <2>1. ~(j < i)
    BY <1>2, <1>6, <1>7, <1>8, <1>11
  <2>2. j + 1 \in 1..n /\ s[j + 1] \in T /\ j + 1 > i
    BY <1>2, <1>6, <1>8, <1>11, <2>1
  <2>3. PICK k \in 1..m : j + 1 = e[k]
    BY <1>3, <2>2
  <2>4. k - 1 \in 1..(m - 1) /\ (k - 1) + 1 = k
    BY <1>2, <1>3, <1>6, <2>2, <2>3
  <2>5. f[k - 1] = j
    BY <1>2, <2>3, <2>4
  <2>6. QED
    BY <2>4, <2>5
<1>12. f \in [1..(m - 1) -> 1..(n - 1)] /\ m - 1 \in Nat
  BY <1>3, <1>6, <1>9
<1> HIDE DEF f
<1>13. PlacesIn(f, m - 1, c, T)
  <2>1. \A j \in 1..(n - 1) : c[j] \in T <=> \E k \in 1..(m - 1) : j = f[k]
    <3>1. \A k \in 1..(m - 1) : k + 1 \in 1..m
      BY <1>3
    <3>2. \A k \in 1..(m - 1) : c[f[k]] \in T
      BY <1>3, <1>9, <3>1
    <3>3. QED
      BY <1>11, <3>2
  <2>2. QED
    BY <1>8, <1>10, <1>12, <2>1 DEF PlacesIn
<1>14. Keep(c, T) = Picked(f, m - 1, c)
  BY <1>8, <1>13, KeepIs
<1>15. Len(Keep(c, T)) = m - 1 /\ \A k \in 1..(m - 1) : Keep(c, T)[k] = s[e[k + 1]]
  BY <1>9, <1>12, <1>14 DEF Picked
<1>16. \A k \in 1..(m - 1) : Keep(s, T)[k + 1] = s[e[k + 1]]
  <2>1. \A k \in 1..(m - 1) : k + 1 \in 1..m
    BY <1>3
  <2>2. QED
    BY <1>5, <2>1
<1>17. s[i] \in T /\ s[i] = Keep(s, T)[1]
  BY <1>3, <1>5, <1>6
<1>18. QED
  BY <1>5, <1>6, <1>7, <1>15, <1>16, <1>17 DEF c

\* Keeping everything.
LEMMA KeepAll ==
    ASSUME NEW X, NEW s \in Seq(X), NEW T, \A k \in DOMAIN s : s[k] \in T
    PROVE  Keep(s, T) = s
<1> DEFINE n == Len(s)
           e == [k \in 1..n |-> k]
<1>1. n \in Nat /\ DOMAIN s = 1..n /\ s = [k \in 1..n |-> s[k]]
  OBVIOUS
<1>2. PlacesIn(e, n, s, T)
  BY <1>1 DEF PlacesIn
<1>3. Keep(s, T) = Picked(e, n, s)
  BY <1>2, KeepIs
<1>4. QED
  BY <1>1, <1>3 DEF Picked

\* Nothing kept: nothing to keep.
LEMMA KeepNone ==
    ASSUME NEW X, NEW s \in Seq(X), NEW T, Len(Keep(s, T)) = 0
    PROVE  \A k \in DOMAIN s : s[k] \notin T
<1>1. PICK e, m : PlacesIn(e, m, s, T)
  BY KeptPlaces
<1>2. Keep(s, T) = Picked(e, m, s)
  BY <1>1, KeepIs
<1>3. m \in Nat /\ m = 0
  BY <1>1, <1>2 DEF PlacesIn, Picked
<1>4. QED
  BY <1>1, <1>3 DEF PlacesIn

-----------------------------------------------------------------------------
(* Unlinking a node of the list.                                           *)

LEMMA UnlinkLists ==
    ASSUME NEW l, NEW s, Lists(l, s), NEW i \in DOMAIN s
    PROVE  Lists(Unlink(l, Entry(s, i - 1), s[i]), Cut(s, i))
<1> DEFINE n == Len(s)
           c == Cut(s, i)
           prev == Entry(s, i - 1)
           r == Unlink(l, prev, s[i])
<1>1. /\ s \in Seq(Node) /\ NoRepeat(s) /\ n \in Nat /\ DOMAIN s = 1..n /\ i \in 1..n
      /\ \A k \in 1..n : s[k] \in Node /\ s[k] # NIL
      /\ \A j, k \in 1..n : s[j] = s[k] => j = k
  BY NodeAssumption DEF Lists, NoRepeat
<1>2. /\ l \in HeapList /\ l.size = n /\ l.used = Members(s)
      /\ l.head = Entry(s, 1) /\ l.tail = Entry(s, n)
      /\ \A k \in 1..n : l.next[s[k]] = Entry(s, k + 1)
  BY DEF Lists
<1>3. /\ c \in Seq(Node) /\ Len(c) = n - 1 /\ DOMAIN c = 1..(n - 1)
      /\ \A k \in 1..(n - 1) : c[k] = IF k < i THEN s[k] ELSE s[k + 1]
  BY <1>1, CutIs
<1>4. NoRepeat(c) /\ Members(c) = Members(s) \ {s[i]}
  BY <1>1, CutMembers
<1>5. /\ r.head = IF prev = NIL THEN l.next[s[i]] ELSE l.head
      /\ r.next = IF prev = NIL THEN l.next ELSE [l.next EXCEPT ![prev] = l.next[s[i]]]
      /\ r.tail = IF l.next[s[i]] = NIL THEN prev ELSE l.tail
      /\ r.size = l.size - 1
      /\ r.used = l.used \ {s[i]}
  BY <1>2 DEF Unlink, HeapList
<1>6. \A k \in Int : Entry(s, k) = IF k \in 1..n THEN s[k] ELSE NIL
  BY <1>1 DEF Entry
<1>7. \A k \in Int : Entry(c, k) = IF k \in 1..(n - 1) THEN c[k] ELSE NIL
  BY <1>3 DEF Entry
<1>8. prev \in Node \cup {NIL} /\ (prev = NIL <=> i = 1)
  BY <1>1, <1>6
<1>9. l.next[s[i]] = Entry(s, i + 1) /\ l.next \in [Node -> Node \cup {NIL}]
  BY <1>1, <1>2 DEF HeapList
<1>10. r \in HeapList
  <2>1. r = [head |-> r.head, tail |-> r.tail, size |-> r.size, next |-> r.next, used |-> r.used]
    BY DEF Unlink
  <2> HIDE DEF r, prev
  <2>2. r.next \in [Node -> Node \cup {NIL}] /\ r.used \in SUBSET Node /\ r.size \in Int
    BY <1>1, <1>2, <1>5, <1>8, <1>9 DEF HeapList
  <2>3. l.next[s[i]] \in Node \cup {NIL}
    BY <1>1, <1>9
  <2>4. r.head \in Node \cup {NIL} /\ r.tail \in Node \cup {NIL}
    BY <1>2, <1>5, <1>8, <2>3 DEF HeapList
  <2>5. QED
    BY <2>1, <2>2, <2>4 DEF HeapList
<1> HIDE DEF r, c, prev, n
<1>11. r.head = Entry(c, 1)
  <2>1. CASE i = 1
    BY <1>1, <1>2, <1>3, <1>5, <1>6, <1>7, <1>8, <1>9, <2>1
  <2>2. CASE i # 1
    BY <1>1, <1>2, <1>3, <1>5, <1>6, <1>7, <1>8, <2>2
  <2>3. QED
    BY <2>1, <2>2
<1>12. r.tail = Entry(c, n - 1)
  <2>1. CASE i = n
    <3>1. l.next[s[i]] = NIL
      BY <1>1, <1>6, <1>9, <2>1
    <3>2. prev = Entry(c, n - 1)
      BY <1>1, <1>3, <1>6, <1>7, <2>1 DEF prev
    <3>3. QED
      BY <1>5, <3>1, <3>2
  <2>2. CASE i # n
    <3>1. l.next[s[i]] = s[i + 1] /\ s[i + 1] # NIL
      BY <1>1, <1>6, <1>9, <2>2
    <3>2. l.tail = s[n]
      BY <1>1, <1>2, <1>6
    <3>3. Entry(c, n - 1) = s[n]
      BY <1>1, <1>3, <1>7, <2>2
    <3>4. QED
      BY <1>5, <3>1, <3>2, <3>3
  <2>3. QED
    BY <2>1, <2>2
<1>13. ASSUME NEW k \in 1..(n - 1)
       PROVE  r.next[c[k]] = Entry(c, k + 1)
  <2>1. CASE k < i - 1
    <3>1. c[k] = s[k] /\ Entry(c, k + 1) = s[k + 1] /\ Entry(s, k + 1) = s[k + 1]
      BY <1>1, <1>3, <1>6, <1>7, <2>1
    <3>2. prev = s[i - 1] /\ s[k] # s[i - 1]
      BY <1>1, <1>6, <2>1 DEF prev
    <3>3. r.next[s[k]] = l.next[s[k]]
      BY <1>5, <1>9, <1>1, <3>2
    <3>4. QED
      BY <1>1, <1>2, <3>1, <3>3
  <2>2. CASE k = i - 1
    <3>1. c[k] = s[k] /\ prev = s[k] /\ prev # NIL /\ prev \in Node
      BY <1>1, <1>3, <1>6, <2>2 DEF prev
    <3>2. Entry(c, k + 1) = Entry(s, i + 1)
      BY <1>1, <1>3, <1>6, <1>7, <2>2
    <3>3. r.next[prev] = l.next[s[i]]
      BY <1>5, <1>9, <3>1
    <3>4. QED
      BY <1>9, <3>1, <3>2, <3>3
  <2>3. CASE k >= i
    <3>1. c[k] = s[k + 1] /\ k + 1 \in 1..n
      BY <1>1, <1>3, <2>3
    <3>2. Entry(c, k + 1) = Entry(s, (k + 1) + 1)
      BY <1>1, <1>3, <1>6, <1>7, <2>3
    <3>3. prev # s[k + 1]
      BY <1>1, <1>6, <2>3, <3>1 DEF prev
    <3>4. r.next[s[k + 1]] = l.next[s[k + 1]]
      BY <1>1, <1>5, <1>9, <3>1, <3>3
    <3>5. QED
      BY <1>2, <3>1, <3>2, <3>4
  <2>4. QED
    BY <1>1, <2>1, <2>2, <2>3
<1>14. QED
  BY <1>2, <1>3, <1>4, <1>5, <1>10, <1>11, <1>12, <1>13 DEF Lists, r, c, prev, n

-----------------------------------------------------------------------------
(* What the nodes of a list point to.                                      *)

Payload(s) == [i \in DOMAIN s |-> data[s[i]]]
DataType == data \in [Node -> Data]

LEMMA SequenceIs ==
    ASSUME NEW X, NEW q \in Seq(X)
    PROVE  q = [k \in 1..Len(q) |-> q[k]]
OBVIOUS

LEMMA PayloadIs ==
    ASSUME DataType, NEW s \in Seq(Node)
    PROVE  /\ Payload(s) \in Seq(Data)
           /\ Len(Payload(s)) = Len(s) /\ DOMAIN Payload(s) = DOMAIN s
           /\ \A i \in DOMAIN s : Payload(s)[i] = data[s[i]]
<1>1. Len(s) \in Nat /\ DOMAIN s = 1..Len(s)
  OBVIOUS
<1>2. \A i \in DOMAIN s : data[s[i]] \in Data
  BY DEF DataType
<1>3. Payload(s) \in [1..Len(s) -> Data]
  BY <1>1, <1>2 DEF Payload
<1>4. QED
  BY <1>1, <1>3 DEF Payload

LEMMA PayloadCut ==
    ASSUME DataType, NEW s \in Seq(Node), NEW i \in DOMAIN s
    PROVE  Payload(Cut(s, i)) = Cut(Payload(s), i)
<1> DEFINE n == Len(s)
           c == Cut(s, i)
<1>1. n \in Nat /\ DOMAIN s = 1..n /\ i \in 1..n
  OBVIOUS
<1>2. /\ DOMAIN c = 1..(n - 1)
      /\ \A k \in 1..(n - 1) : c[k] = IF k < i THEN s[k] ELSE s[k + 1]
  BY CutIs
<1>3. Len(Payload(s)) = n /\ \A k \in 1..n : Payload(s)[k] = data[s[k]]
  BY <1>1, PayloadIs
<1>4. Payload(c) = [k \in 1..(n - 1) |-> data[c[k]]]
  BY <1>2 DEF Payload
<1>5. Cut(Payload(s), i) =
        [k \in 1..(n - 1) |-> IF k < i THEN Payload(s)[k] ELSE Payload(s)[k + 1]]
  BY <1>3 DEF Cut
<1> HIDE DEF n, c
<1>6. \A k \in 1..(n - 1) :
        data[c[k]] = IF k < i THEN Payload(s)[k] ELSE Payload(s)[k + 1]
  BY <1>1, <1>2, <1>3
<1>7. QED
  BY <1>4, <1>5, <1>6 DEF c

\* What is left of the elements of T, of q, after some steps: the first ones
\* have been taken and nothing else has.
Rest(p, q, T) ==
    /\ Len(Keep(p, T)) = Len(Keep(q, T)) - 1
    /\ \A k \in 1..(Len(Keep(q, T)) - 1) : Keep(p, T)[k] = Keep(q, T)[k + 1]
    /\ Keep(p, Data \ T) = Keep(q, Data \ T)

LEMMA UnlinkFirstIs ==
    ASSUME DataType, NEW l, NEW s, Lists(l, s), NEW T, Len(Keep(Payload(s), T)) # 0
    PROVE  \E i \in DOMAIN s :
             /\ Lists(UnlinkFirst(l, Keep(Payload(s), T)[1]), Cut(s, i))
             /\ Rest(Payload(Cut(s, i)), Payload(s), T)
<1> DEFINE p == Payload(s)
           x == Keep(p, T)[1]
<1>1. s \in Seq(Node) /\ DOMAIN s = 1..Len(s) /\ Len(s) \in Nat /\ Chain(l) = s
  BY ChainIs DEF Lists
<1>2. p \in Seq(Data) /\ DOMAIN p = DOMAIN s /\ \A i \in DOMAIN s : p[i] = data[s[i]]
  BY <1>1, PayloadIs
<1>0. Len(Keep(p, T)) # 0
  OBVIOUS
<1> HIDE DEF p
<1>3. PICK i \in DOMAIN p :
        /\ p[i] \in T /\ p[i] = x
        /\ \A j \in 1..(i - 1) : p[j] \notin T
        /\ Len(Keep(Cut(p, i), T)) = Len(Keep(p, T)) - 1
        /\ \A k \in 1..(Len(Keep(p, T)) - 1) : Keep(Cut(p, i), T)[k] = Keep(p, T)[k + 1]
  BY <1>0, <1>2, KeepFirst
<1>4. i \in DOMAIN s
  BY <1>2
<1>5. Payload(Cut(s, i)) = Cut(p, i)
  BY <1>1, <1>4, PayloadCut DEF p
<1>6. Keep(Cut(p, i), Data \ T) = Keep(p, Data \ T)
  <2>1. p[i] \notin Data \ T
    BY <1>3
  <2>2. QED
    BY <1>2, <2>1, KeepCut
<1>7. Rest(Payload(Cut(s, i)), p, T)
  BY <1>3, <1>5, <1>6 DEF Rest
<1> DEFINE holding == {j \in DOMAIN s : data[s[j]] = x}
           first == CHOOSE k \in holding : \A m \in holding : k <= m
<1>8. UnlinkFirst(l, x) = IF holding = {} THEN l
                          ELSE Unlink(l, IF first = 1 THEN NIL ELSE s[first - 1], s[first])
  BY <1>1 DEF UnlinkFirst
<1> HIDE DEF x
<1>9. /\ i \in holding
      /\ \A m \in holding : i <= m
      /\ holding \subseteq Int
  <2>1. i \in holding
    BY <1>2, <1>3, <1>4
  <2>2. ASSUME NEW m \in holding PROVE m \in Int /\ i <= m
    <3>1. m \in 1..Len(s) /\ i \in 1..Len(s) /\ p[m] = x
      BY <1>1, <1>2, <1>4
    <3>2. p[m] \in T
      BY <1>3, <3>1
    <3> HIDE DEF holding
    <3>3. QED
      BY <1>1, <1>3, <3>1, <3>2
  <2>3. QED
    BY <2>1, <2>2
<1>10. first = i
  <2> HIDE DEF holding
  <2>1. first \in holding /\ \A m \in holding : first <= m
    BY <1>9
  <2>2. QED
    BY <1>9, <2>1
<1>11. UnlinkFirst(l, x) = Unlink(l, IF i = 1 THEN NIL ELSE s[i - 1], s[i])
  BY <1>8, <1>9, <1>10
<1>12. (IF i = 1 THEN NIL ELSE s[i - 1]) = Entry(s, i - 1)
  BY <1>1, <1>4 DEF Entry
<1>13. Lists(UnlinkFirst(l, x), Cut(s, i))
  BY <1>4, <1>11, <1>12, UnlinkLists
<1>14. QED
  BY <1>4, <1>7, <1>13 DEF p, x

\* The loop unlinks one element after the other.
LEMMA UnlinkAllRecursion ==
    ASSUME NEW l, NEW finished, Len(finished) \in Nat
    PROVE  \E after :
             /\ UnlinkAll(l, finished) = after[Len(finished)]
             /\ after[0] = l
             /\ \A k \in 1..Len(finished) :
                  after[k] = UnlinkFirst(after[k - 1], finished[k])
<1> DEFINE n == Len(finished)
           Step(r, x) == UnlinkFirst(r, x)
           Loop(a, m) == a = [k \in 0..m |-> IF k = 0 THEN l
                                             ELSE Step(a[k - 1], finished[k])]
           T == {m \in Nat : \E a : Loop(a, m)}
<1>1. UnlinkAll(l, finished) = (CHOOSE a : Loop(a, n))[n]
  BY DEF UnlinkAll
<1> HIDE DEF Step
<1>2. 0 \in T
  <2> DEFINE a == [k \in 0..0 |-> l]
  <2>1. Loop(a, 0)
    OBVIOUS
  <2>2. QED
    BY <2>1
<1>3. ASSUME NEW m \in T PROVE m + 1 \in T
  <2>1. PICK a : Loop(a, m)
    OBVIOUS
  <2>2. a[0] = l /\ \A k \in 1..m : a[k] = Step(a[k - 1], finished[k])
    BY <2>1
  <2> DEFINE b == [k \in 0..(m + 1) |-> IF k = m + 1 THEN Step(a[m], finished[m + 1]) ELSE a[k]]
  <2>3. \A k \in 0..(m + 1) : b[k] = IF k = 0 THEN l ELSE Step(b[k - 1], finished[k])
    <3> SUFFICES ASSUME NEW k \in 0..(m + 1)
                 PROVE  b[k] = IF k = 0 THEN l ELSE Step(b[k - 1], finished[k])
      OBVIOUS
    <3>1. CASE k = 0
      BY <2>2, <3>1
    <3>2. CASE k \in 1..m
      <4>1. b[k] = a[k] /\ b[k - 1] = a[k - 1]
        BY <3>2
      <4>2. QED
        BY <2>2, <3>2, <4>1
    <3>3. CASE k = m + 1
      <4>1. b[k] = Step(a[m], finished[m + 1]) /\ b[k - 1] = a[m]
        BY <3>3
      <4>2. QED
        BY <3>3, <4>1
    <3>4. QED
      BY <3>1, <3>2, <3>3
  <2>4. Loop(b, m + 1)
    BY <2>3
  <2> HIDE DEF b, Loop
  <2>5. QED
    BY <2>4
<1>4. n \in T
  <2> HIDE DEF T
  <2>1. T \subseteq Nat
    BY DEF T
  <2>2. QED
    BY <1>2, <1>3, <2>1, SetInduction
<1> DEFINE after == CHOOSE a : Loop(a, n)
<1>5. Loop(after, n)
  <2>1. \E a : Loop(a, n)
    BY <1>4
  <2> HIDE DEF Loop
  <2>2. QED
    BY <2>1
<1> HIDE DEF after
<1>6. after[0] = l /\ \A k \in 1..n : after[k] = Step(after[k - 1], finished[k])
  BY <1>5
<1>7. UnlinkAll(l, finished) = after[n]
  BY <1>1 DEF after
<1>8. QED
  BY <1>6, <1>7 DEF Step

\* After it the list holds, in their order, the elements outside T.
LEMMA UnlinkAllIs ==
    ASSUME DataType, NEW l, NEW s, Lists(l, s), NEW T \in SUBSET Data
    PROVE  \E r : /\ Lists(UnlinkAll(l, Keep(Payload(s), T)), r)
                  /\ Payload(r) = Keep(Payload(s), Data \ T)
<1> DEFINE fin == Keep(Payload(s), T)
           n == Len(fin)
           Left(k, r, a) ==
             /\ Lists(a, r)
             /\ Len(Keep(Payload(r), T)) = n - k
             /\ \A j \in 1..(n - k) : Keep(Payload(r), T)[j] = fin[k + j]
             /\ Keep(Payload(r), Data \ T) = Keep(Payload(s), Data \ T)
<1>1. s \in Seq(Node) /\ Payload(s) \in Seq(Data)
  BY PayloadIs DEF Lists
<1>2. n \in Nat
  <2>1. PICK e, m : PlacesIn(e, m, Payload(s), T)
    BY <1>1, KeptPlaces
  <2>2. Keep(Payload(s), T) = Picked(e, m, Payload(s))
    BY <1>1, <2>1, KeepIs
  <2>3. QED
    BY <2>1, <2>2 DEF PlacesIn, Picked
<1>3. PICK after :
        /\ UnlinkAll(l, fin) = after[n]
        /\ after[0] = l
        /\ \A k \in 1..n : after[k] = UnlinkFirst(after[k - 1], fin[k])
  BY <1>2, UnlinkAllRecursion
<1>4. Left(0, s, l)
  BY <1>2
<1>5. ASSUME NEW k \in 0..(n - 1), NEW r, Left(k, r, after[k])
      PROVE  \E q : Left(k + 1, q, after[k + 1])
  <2> DEFINE p == Payload(r)
  <2>1. /\ Lists(after[k], r)
        /\ Len(Keep(p, T)) = n - k /\ Keep(p, T)[1] = fin[k + 1]
        /\ \A j \in 1..(n - k) : Keep(p, T)[j] = fin[k + j]
        /\ Keep(p, Data \ T) = Keep(Payload(s), Data \ T)
    BY <1>2, <1>5
  <2>2. n - k # 0
    BY <1>2
  <2>3. PICK i \in DOMAIN r :
          /\ Lists(UnlinkFirst(after[k], Keep(p, T)[1]), Cut(r, i))
          /\ Rest(Payload(Cut(r, i)), p, T)
    BY <2>1, <2>2, UnlinkFirstIs
  <2>4. after[k + 1] = UnlinkFirst(after[k], fin[k + 1])
    <3>1. k + 1 \in 1..n /\ (k + 1) - 1 = k
      BY <1>2
    <3>2. QED
      BY <1>3, <3>1
  <2> DEFINE q == Payload(Cut(r, i))
  <2>5. Lists(after[k + 1], Cut(r, i))
    BY <2>1, <2>3, <2>4
  <2>6. /\ Len(Keep(q, T)) = Len(Keep(p, T)) - 1
        /\ \A j \in 1..(Len(Keep(p, T)) - 1) : Keep(q, T)[j] = Keep(p, T)[j + 1]
        /\ Keep(q, Data \ T) = Keep(p, Data \ T)
    BY <2>3 DEF Rest
  <2> HIDE DEF p, q, n, fin
  <2>7. Len(Keep(q, T)) = n - (k + 1)
    BY <1>2, <2>1, <2>6
  <2>8. \A j \in 1..(n - (k + 1)) : Keep(q, T)[j] = fin[(k + 1) + j]
    <3> SUFFICES ASSUME NEW j \in 1..(n - (k + 1))
                 PROVE  Keep(q, T)[j] = fin[(k + 1) + j]
      OBVIOUS
    <3>1. j \in 1..((n - k) - 1) /\ j + 1 \in 1..(n - k) /\ k + (j + 1) = (k + 1) + j
      BY <1>2
    <3>2. Keep(q, T)[j] = Keep(p, T)[j + 1]
      BY <2>1, <2>6, <3>1
    <3>3. QED
      BY <2>1, <3>1, <3>2
  <2>9. Left(k + 1, Cut(r, i), after[k + 1])
    BY <2>1, <2>5, <2>6, <2>7, <2>8 DEF q
  <2>10. QED
    BY <2>9
<1> DEFINE K == {k \in Nat : k <= n => \E r : Left(k, r, after[k])}
<1> HIDE DEF n, fin
<1>6. 0 \in K
  BY <1>3, <1>4
<1> HIDE DEF Left
<1>7. ASSUME NEW k \in K PROVE k + 1 \in K
  <2> SUFFICES ASSUME k + 1 <= n PROVE \E r : Left(k + 1, r, after[k + 1])
    OBVIOUS
  <2>1. k \in 0..(n - 1) /\ k <= n
    BY <1>2
  <2>2. PICK r : Left(k, r, after[k])
    BY <2>1
  <2>3. QED
    BY <1>5, <2>1, <2>2
<1>8. \E r : Left(n, r, after[n])
  <2> HIDE DEF K
  <2>1. K \subseteq Nat
    BY DEF K
  <2>2. K = Nat
    BY <1>6, <1>7, <2>1, SetInduction
  <2>3. QED
    BY <1>2, <2>2 DEF K
<1>9. PICK r : Left(n, r, after[n])
  BY <1>8
<1>10. /\ Lists(after[n], r)
       /\ Len(Keep(Payload(r), T)) = n - n
       /\ Keep(Payload(r), Data \ T) = Keep(Payload(s), Data \ T)
  BY <1>9 DEF Left
<1>11. r \in Seq(Node) /\ Payload(r) \in Seq(Data)
  BY <1>10, PayloadIs DEF Lists
<1>12. \A k \in DOMAIN Payload(r) : Payload(r)[k] \notin T
  <2>1. Len(Keep(Payload(r), T)) = 0
    BY <1>2, <1>10
  <2>2. QED
    BY <1>11, <2>1, KeepNone
<1>13. Keep(Payload(r), Data \ T) = Payload(r)
  <2>1. \A k \in DOMAIN Payload(r) : Payload(r)[k] \in Data \ T
    BY <1>11, <1>12
  <2>2. QED
    BY <1>11, <2>1, KeepAll
<1>14. QED
  BY <1>3, <1>10, <1>13 DEF fin

-----------------------------------------------------------------------------
(* The operations of the queue.                                            *)

LEMMA EnqueueLists ==
    ASSUME DataType, NEW s, Lists(list, s), NEW x \in Data, Enqueue(x)
    PROVE  /\ DataType'
           /\ \E q : Lists(list', q) /\ Payload(q)' = Append(Payload(s), x)
<1> DEFINE n == Len(s)
<1>1. /\ s \in Seq(Node) /\ NoRepeat(s) /\ n \in Nat /\ DOMAIN s = 1..n
      /\ used = Members(s) /\ size = n
      /\ head = Entry(s, 1) /\ tail = Entry(s, n)
      /\ next \in [Node -> Node \cup {NIL}]
      /\ \A k \in 1..n : next[s[k]] = Entry(s, k + 1)
  BY DEF Lists, list, HeapList
<1>2. \A k \in 1..n : s[k] \in Node /\ s[k] # NIL /\ s[k] \in used
  BY <1>1, NodeAssumption DEF Members
<1>3. PICK b \in Node \ used :
        /\ used' = used \cup {b}
        /\ data' = [data EXCEPT ![b] = x]
        /\ next' = IF tail = NIL THEN [next EXCEPT ![b] = NIL]
                                  ELSE [next EXCEPT ![b] = NIL, ![tail] = b]
        /\ head' = IF tail = NIL THEN b ELSE head
        /\ tail' = b
        /\ size' = size + 1
  BY DEF Enqueue
<1>4. b # NIL /\ \A k \in 1..n : s[k] # b
  BY <1>2, <1>3, NodeAssumption
<1> DEFINE q == Append(s, b)
<1>5. /\ q \in Seq(Node) /\ Len(q) = n + 1 /\ DOMAIN q = 1..(n + 1)
      /\ q[n + 1] = b /\ \A k \in 1..n : q[k] = s[k]
  BY <1>1, <1>3
<1>6. NoRepeat(q) /\ Members(q) = Members(s) \cup {b}
  <2>1. NoRepeat(q)
    <3> HIDE DEF q, n
    <3>1. QED
      BY <1>1, <1>4, <1>5 DEF NoRepeat
  <2>2. ASSUME NEW y PROVE y \in Members(q) <=> y \in Members(s) \cup {b}
    <3> HIDE DEF q, n
    <3>1. \A k \in 1..(n + 1) : k \in 1..n \/ k = n + 1
      BY <1>1
    <3>2. \A k \in 1..n : k \in 1..(n + 1)
      BY <1>1
    <3>3. n + 1 \in 1..(n + 1)
      BY <1>1
    <3>4. y \in Members(s) <=> \E k \in 1..n : s[k] = y
      BY <1>1 DEF Members
    <3>5. y \in Members(q) <=> \E k \in 1..(n + 1) : q[k] = y
      BY <1>5 DEF Members
    <3>6. ASSUME NEW k \in 1..(n + 1), q[k] = y PROVE y \in Members(s) \/ y = b
      BY <1>5, <3>1, <3>4, <3>6
    <3>7. y \in Members(s) \/ y = b => \E k \in 1..(n + 1) : q[k] = y
      BY <1>5, <3>2, <3>3, <3>4
    <3>8. QED
      BY <3>5, <3>6, <3>7
  <2>3. QED
    BY <2>1, <2>2
<1> HIDE DEF q
<1>7. \A k \in Int : Entry(s, k) = IF k \in 1..n THEN s[k] ELSE NIL
  BY <1>1 DEF Entry
<1>8. \A k \in Int : Entry(q, k) = IF k \in 1..(n + 1) THEN q[k] ELSE NIL
  BY <1>5 DEF Entry
<1>9. tail = NIL <=> n = 0
  BY <1>1, <1>2, <1>7
<1>10. head' = Entry(q, 1) /\ tail' = Entry(q, n + 1)
  <2> HIDE DEF n
  <2>1. tail' = Entry(q, n + 1)
    BY <1>1, <1>3, <1>5, <1>8
  <2>2. CASE n = 0
    BY <1>3, <1>5, <1>8, <1>9, <2>2
  <2>3. CASE n # 0
    BY <1>1, <1>3, <1>5, <1>7, <1>8, <1>9, <2>3
  <2>4. QED
    BY <2>1, <2>2, <2>3
<1>11. next' \in [Node -> Node \cup {NIL}]
  BY <1>1, <1>3
<1>12. ASSUME NEW k \in 1..(n + 1)
       PROVE  next'[q[k]] = Entry(q, k + 1)
  <2> HIDE DEF n
  <2>1. CASE k = n + 1
    <3>1. q[k] = b /\ Entry(q, k + 1) = NIL
      BY <1>1, <1>5, <1>8, <2>1
    <3>2. tail # b
      BY <1>1, <1>4, <1>7, <1>9
    <3>3. next'[b] = NIL
      BY <1>1, <1>3, <3>2
    <3>4. QED
      BY <3>1, <3>3
  <2>2. CASE k = n
    <3>1. q[k] = tail /\ tail # NIL /\ tail \in Node /\ Entry(q, k + 1) = b
      BY <1>1, <1>2, <1>5, <1>7, <1>8, <2>2
    <3>2. next'[tail] = b
      BY <1>1, <1>3, <3>1
    <3>3. QED
      BY <3>1, <3>2
  <2>3. CASE k < n
    <3>1. /\ q[k] = s[k] /\ k \in 1..n /\ s[k] # b /\ s[k] \in Node
          /\ tail = s[n] /\ s[k] # s[n] /\ tail # NIL
      BY <1>1, <1>2, <1>4, <1>5, <1>7, <2>3 DEF NoRepeat
    <3>2. next'[s[k]] = next[s[k]]
      BY <1>1, <1>3, <3>1
    <3>3. next[s[k]] = s[k + 1] /\ Entry(q, k + 1) = s[k + 1]
      BY <1>1, <1>5, <1>7, <1>8, <2>3
    <3>4. QED
      BY <3>1, <3>2, <3>3
  <2>4. QED
    BY <1>1, <2>1, <2>2, <2>3
<1>13. list' \in HeapList
  <2>1. used' \in SUBSET Node
    BY <1>1, <1>3 DEF Lists, list, HeapList
  <2>2. head' \in Node \cup {NIL} /\ tail' \in Node \cup {NIL} /\ size' \in Int
    BY <1>1, <1>3, <1>7
  <2>3. QED
    BY <1>11, <2>1, <2>2 DEF list, HeapList
<1>14. Lists(list', q)
  <2>1. list' = [head |-> head', tail |-> tail', size |-> size', next |-> next', used |-> used']
    BY DEF list
  <2>2. QED
    BY <1>1, <1>3, <1>5, <1>6, <1>10, <1>12, <1>13, <2>1 DEF Lists
<1>15. DataType'
  BY <1>3 DEF DataType
<1>16. Payload(q)' = Append(Payload(s), x)
  <2>1. /\ Payload(s) \in Seq(Data) /\ Len(Payload(s)) = n
        /\ \A k \in 1..n : Payload(s)[k] = data[s[k]]
    BY <1>1, PayloadIs
  <2>2. Payload(q)' = [k \in 1..(n + 1) |-> data'[q[k]]]
    BY <1>5 DEF Payload
  <2>3. \A k \in 1..(n + 1) : data'[q[k]] = IF k = n + 1 THEN x ELSE data[s[k]]
    <3> HIDE DEF n
    <3>1. \A k \in 1..n : data'[s[k]] = data[s[k]]
      BY <1>2, <1>3, <1>4 DEF DataType
    <3>2. data'[b] = x
      BY <1>3 DEF DataType
    <3>3. \A k \in 1..(n + 1) : k = n + 1 \/ (k \in 1..n /\ k # n + 1)
      BY <1>1
    <3>4. QED
      BY <1>5, <3>1, <3>2, <3>3
  <2> HIDE DEF n
  <2>4. Append(Payload(s), x) = [k \in 1..(n + 1) |-> IF k = n + 1 THEN x ELSE Payload(s)[k]]
    <3> DEFINE d == Payload(s)
    <3>1. d \in Seq(Data) /\ Len(d) = n
      BY <2>1
    <3> HIDE DEF d
    <3> DEFINE e == Append(d, x)
    <3>2. /\ e \in Seq(Data) /\ Len(e) = n + 1
          /\ \A k \in 1..(n + 1) : e[k] = IF k = n + 1 THEN x ELSE d[k]
      BY <1>1, <3>1
    <3> HIDE DEF e
    <3>3. e = [k \in 1..(n + 1) |-> e[k]]
      BY <3>2, SequenceIs
    <3>4. e = [k \in 1..(n + 1) |-> IF k = n + 1 THEN x ELSE d[k]]
      BY <3>2, <3>3
    <3>5. QED
      BY <3>4 DEF d, e
  <2>5. \A k \in 1..(n + 1) : data'[q[k]] = IF k = n + 1 THEN x ELSE Payload(s)[k]
    <3>1. \A k \in 1..(n + 1) : k = n + 1 \/ k \in 1..n
      BY <1>1
    <3>2. QED
      BY <2>1, <2>3, <3>1
  <2>6. QED
    BY <2>2, <2>4, <2>5
<1>17. QED
  BY <1>14, <1>15, <1>16

\* A dequeue unlinks the first node.
LEMMA DequeueLists ==
    ASSUME DataType, NEW s, Lists(list, s), Dequeue
    PROVE  /\ DataType'
           /\ Payload(s) # <<>>
           /\ \E q : Lists(list', q) /\ Payload(q)' = Tail(Payload(s))
<1> DEFINE n == Len(s)
<1>1. /\ s \in Seq(Node) /\ n \in Nat /\ DOMAIN s = 1..n
      /\ size = n /\ head = Entry(s, 1)
  BY DEF Lists, list
<1>2. n >= 1 /\ head = s[1] /\ 1 \in DOMAIN s
  BY <1>1 DEF Dequeue, Entry
<1>3. list' = Unlink(list, Entry(s, 1 - 1), s[1])
  <2>1. Entry(s, 1 - 1) = NIL
    BY <1>1 DEF Entry
  <2>2. list' = [head |-> next[head], tail |-> IF next[head] = NIL THEN NIL ELSE tail,
                 size |-> size - 1, next |-> next, used |-> used \ {head}]
    BY DEF Dequeue, TailAfterDequeue, list
  <2>3. s[1] = head /\ list.next = next
    BY <1>2 DEF list
  <2>4. Unlink(list, NIL, head) =
          [head |-> next[head], tail |-> IF next[head] = NIL THEN NIL ELSE tail,
           size |-> size - 1, next |-> next, used |-> used \ {head}]
    BY DEF Unlink, list
  <2>5. QED
    BY <2>1, <2>2, <2>3, <2>4
<1>4. Lists(list', Cut(s, 1))
  BY <1>2, <1>3, UnlinkLists
<1>5. data' = data /\ DataType'
  BY DEF Dequeue, DataType
<1>6. Payload(Cut(s, 1))' = Cut(Payload(s), 1)
  <2>1. Payload(Cut(s, 1))' = Payload(Cut(s, 1))
    BY <1>5 DEF Payload
  <2>2. QED
    BY <1>1, <1>2, <2>1, PayloadCut
<1>7. Payload(s) \in Seq(Data) /\ Len(Payload(s)) = n
  BY <1>1, PayloadIs
<1>8. Cut(Payload(s), 1) = Tail(Payload(s))
  <2>1. Tail(Payload(s)) = [k \in 1..(n - 1) |-> Payload(s)[k + 1]]
    <3> DEFINE d == Payload(s)
    <3>1. d \in Seq(Data) /\ Len(d) = n /\ d # <<>>
      BY <1>2, <1>7
    <3> HIDE DEF d
    <3> DEFINE e == Tail(d)
    <3>2. /\ e \in Seq(Data) /\ Len(e) = n - 1
          /\ \A k \in 1..(n - 1) : e[k] = d[k + 1]
      BY <1>1, <3>1
    <3> HIDE DEF e
    <3>3. e = [k \in 1..(n - 1) |-> e[k]]
      BY <3>2, SequenceIs
    <3>4. e = [k \in 1..(n - 1) |-> d[k + 1]]
      BY <3>2, <3>3
    <3>5. QED
      BY <3>4 DEF d, e
  <2>2. Cut(Payload(s), 1) = [k \in 1..(n - 1) |-> Payload(s)[k + 1]]
    BY <1>1, <1>7 DEF Cut
  <2>3. QED
    BY <2>1, <2>2
<1>9. Payload(s) # <<>>
  BY <1>2, <1>7
<1>10. QED
  BY <1>4, <1>5, <1>6, <1>8, <1>9

\* The loop of phase 2 takes the finished elements.
LEMMA TakeLists ==
    ASSUME DataType, NEW s, Lists(list, s), NEW T \in SUBSET Data, Take(T)
    PROVE  /\ DataType'
           /\ \E q : Lists(list', q) /\ Payload(q)' = Keep(Payload(s), Data \ T)
<1>1. Chain(list) = s
  BY ChainIs
<1> DEFINE l == UnlinkAll(list, Keep(Payload(s), T))
<1>2. /\ head' = l.head /\ tail' = l.tail /\ size' = l.size
      /\ next' = l.next /\ used' = l.used /\ data' = data
  BY <1>1 DEF Take, Payload
<1>3. PICK r : Lists(l, r) /\ Payload(r) = Keep(Payload(s), Data \ T)
  BY UnlinkAllIs
<1>4. list' = l
  <2>1. l \in HeapList
    BY <1>3 DEF Lists
  <2> HIDE DEF l
  <2>2. list' = [head |-> l.head, tail |-> l.tail, size |-> l.size,
                 next |-> l.next, used |-> l.used]
    BY <1>2 DEF list
  <2>3. QED
    BY <2>1, <2>2 DEF HeapList
<1>5. Payload(r)' = Payload(r) /\ DataType'
  BY <1>2 DEF Payload, DataType
<1>6. QED
  BY <1>3, <1>4, <1>5

-----------------------------------------------------------------------------
(* The invariant: the fields of the queue and of its nodes are those of    *)
(* some list.  It says more than WellFormed, whose chain is cut where the  *)
(* heap ends: no node is met twice.                                        *)

ListInv == DataType /\ \E s : Lists(list, s)

LEMMA ListStart == ASSUME Init PROVE DataType /\ Lists(list, <<>>)
<1>1. NIL \in Node \cup {NIL} /\ NoRepeat(<<>>) /\ Members(<<>>) = {}
  BY DEF NoRepeat, Members
<1>2. list \in HeapList
  BY DEF Init, list, HeapList
<1>3. Entry(<<>>, 1) = NIL /\ Entry(<<>>, Len(<<>>)) = NIL
  BY DEF Entry
<1>4. QED
  BY <1>1, <1>2, <1>3 DEF Init, DataType, Lists, list

LEMMA ListContents ==
    ASSUME NEW s, Lists(list, s)
    PROVE  Contents = Payload(s) /\ size = Len(s)
BY ChainIs DEF Contents, Payload, Lists, list

LEMMA SameKeep == ASSUME NEW q, NEW T PROVE Contract!Keep(q, T) = Keep(q, T)
BY DEF Contract!Keep, Contract!Ascending, Contract!Rank, Contract!Cardinality,
       Keep, Ascending, Rank, Cardinality

\* Each operation does to the contents what a queue does.
LEMMA ListStep ==
    ASSUME ListInv, [Next]_queueVars
    PROVE  ListInv' /\ [Contract!ContractNext]_<<Contents, size>>
<1>1. PICK s : Lists(list, s)
  BY DEF ListInv
<1>2. DataType /\ s \in Seq(Node) /\ Len(s) \in Nat
  BY <1>1 DEF ListInv, Lists
<1>3. Contents = Payload(s) /\ size = Len(s) /\ Len(Payload(s)) = Len(s)
  BY <1>1, <1>2, ListContents, PayloadIs
<1>4. ASSUME NEW q, Lists(list', q), DataType'
      PROVE  Contents' = Payload(q)' /\ size' = Len(q) /\ Len(q) = Len(Payload(q)')
  <2>1. Chain(list)' = q
    BY <1>4, ChainIs
  <2>2. q \in Seq(Node)
    BY <1>4 DEF Lists
  <2>3. DOMAIN Payload(q)' = DOMAIN q /\ Len(q) \in Nat /\ DOMAIN q = 1..Len(q)
    BY <2>2 DEF Payload
  <2>4. QED
    BY <1>4, <2>1, <2>3 DEF Contents, Payload, Lists, list
<1>5. CASE \E x \in Data : Enqueue(x)
  <2>1. PICK x \in Data : Enqueue(x)
    BY <1>5
  <2>2. PICK q : Lists(list', q) /\ Payload(q)' = Append(Payload(s), x)
    BY <1>1, <1>2, <2>1, EnqueueLists
  <2>3. DataType'
    BY <1>1, <1>2, <2>1, EnqueueLists
  <2>4. Contents' = Append(Contents, x) /\ size' = size + 1
    BY <1>3, <1>4, <2>1, <2>2, <2>3 DEF Enqueue
  <2>5. Contract!ContractNext
    BY <2>4 DEF Contract!ContractNext, Contract!Enqueue
  <2>6. QED
    BY <2>2, <2>3, <2>5 DEF ListInv
<1>6. CASE Dequeue
  <2>1. PICK q : Lists(list', q) /\ Payload(q)' = Tail(Payload(s))
    BY <1>1, <1>2, <1>6, DequeueLists
  <2>2. DataType' /\ Payload(s) # <<>>
    BY <1>1, <1>2, <1>6, DequeueLists
  <2>3. Contents # <<>> /\ Contents' = Tail(Contents) /\ size' = size - 1
    BY <1>3, <1>4, <1>6, <2>1, <2>2 DEF Dequeue
  <2>4. Contract!ContractNext
    BY <2>3 DEF Contract!ContractNext, Contract!Dequeue
  <2>5. QED
    BY <2>1, <2>2, <2>4 DEF ListInv
<1>7. CASE \E T \in SUBSET Data : Take(T)
  <2>1. PICK T \in SUBSET Data : Take(T)
    BY <1>7
  <2>2. PICK q : Lists(list', q) /\ Payload(q)' = Keep(Payload(s), Data \ T)
    BY <1>1, <1>2, <2>1, TakeLists
  <2>3. DataType'
    BY <1>1, <1>2, <2>1, TakeLists
  <2>4. Contents' = Keep(Contents, Data \ T) /\ size' = Len(Contents')
    BY <1>3, <1>4, <2>2, <2>3
  <2>5. Contract!Take(T)
    BY <2>4, SameKeep DEF Contract!Take
  <2>6. QED
    BY <2>2, <2>3, <2>5 DEF ListInv, Contract!ContractNext
<1>8. CASE EnqueueFails \/ UNCHANGED queueVars
  <2>1. UNCHANGED queueVars
    BY <1>8 DEF EnqueueFails
  <2>2. UNCHANGED <<list, data, size>>
    BY <2>1 DEF queueVars, list
  <2>3. UNCHANGED <<Contents, size>>
    BY <2>2 DEF Contents
  <2>4. QED
    BY <2>2, <2>3 DEF ListInv, DataType
<1>9. QED
  BY <1>5, <1>6, <1>7, <1>8 DEF Next

\* A list is well formed.
LEMMA ListsWellFormed == ASSUME ListInv PROVE WellFormed
<1>1. PICK s : Lists(list, s)
  BY DEF ListInv
<1>2. /\ Chain(list) = s /\ s \in Seq(Node) /\ Len(s) \in Nat
      /\ size = Len(s) /\ used = Members(s)
  BY <1>1, ChainIs DEF Lists, list
<1>3. tail = IF s = <<>> THEN NIL ELSE Last(s)
  <2>1. tail = Entry(s, Len(s))
    BY <1>1 DEF Lists, list
  <2>2. QED
    BY <1>2, <2>1 DEF Entry, Last
<1>4. tail # NIL => next[tail] = NIL
  <2> SUFFICES ASSUME tail # NIL PROVE next[tail] = NIL
    OBVIOUS
  <2>1. Len(s) \in DOMAIN s /\ tail = s[Len(s)]
    BY <1>1 DEF Lists, list, Entry
  <2>2. next[tail] = Entry(s, Len(s) + 1)
    BY <1>1, <2>1 DEF Lists, list
  <2>3. QED
    BY <1>2, <2>2 DEF Entry
<1>5. QED
  BY <1>2, <1>3, <1>4 DEF WellFormed, Nodes

\* For any number of nodes and of elements, whatever the order of calls: the
\* nodes in use are those of the list, and its size and tail are right
\* (queue.c:23-53, simulation.c:238-284).
THEOREM ListWellFormed == Spec => []WellFormed
<1>1. Init => ListInv
  BY ListStart DEF ListInv
<1>2. ListInv /\ [Next]_queueVars => ListInv'
  BY ListStep
<1>3. ListInv => WellFormed
  BY ListsWellFormed
<1>4. QED
  BY <1>1, <1>2, <1>3, PTL DEF Spec

\* The list implements the queue Simulation's queues are: first in first out,
\* and the unlinking loop takes exactly the finished processes.
THEOREM ListIsQueue == Spec => ImplementsQueue
<1>1. Init => ListInv /\ Contract!ContractInit
  <2> SUFFICES ASSUME Init PROVE ListInv /\ Contract!ContractInit
    OBVIOUS
  <2>1. DataType /\ Lists(list, <<>>)
    BY ListStart
  <2>2. Contents = Payload(<<>>) /\ size = 0
    BY <2>1, ListContents
  <2>3. QED
    BY <2>1, <2>2 DEF ListInv, Contract!ContractInit, Payload
<1>2. ListInv /\ [Next]_queueVars => ListInv' /\ [Contract!ContractNext]_<<Contents, size>>
  BY ListStep
<1>3. QED
  BY <1>1, <1>2, PTL DEF Spec, ImplementsQueue, Contract!ContractSpec, Contract!contractVars
=============================================================================
