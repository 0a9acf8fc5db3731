------------------------- MODULE ArrivalScanProofs --------------------------
(***************************************************************************)
(* The scan and the sort of phase 1, for any finite set of pending         *)
(* processes in any order, any of them due: no process is lost or doubled, *)
(* and the arrivals come out in increasing creation_seq.                   *)
(***************************************************************************)
EXTENDS ArrivalScan, QueueOrderProofs

-----------------------------------------------------------------------------
(* The inductive invariant.                                                *)

Index == 0..(Size - 1)

\* No element twice among the first k of the array f.
Distinct(f, k) == \A a, b \in 0..(k - 1) : f[a] = f[b] => a = b

Types ==
    /\ due \in SUBSET Proc
    /\ pc \in {"scan", "outer", "inner", "done"}
    /\ pending \in [Index -> Proc]
    /\ arrived \in [Index -> Proc \cup {Junk}]
    /\ count \in 0..Size
    /\ n \in 0..Size
    /\ count + n = Size

\* During the scan the two arrays share out the processes.
Scanning ==
    /\ i \in 0..count
    /\ Prefix(pending, count) \cup Prefix(arrived, n) = Proc
    /\ Prefix(pending, i) \cap due = {}
    /\ Prefix(arrived, n) \subseteq due
    /\ Distinct(pending, count)
    /\ Distinct(arrived, n)
    /\ Prefix(pending, count) \cap Prefix(arrived, n) = {}

\* After it, pending holds the others, and the array f the arrivals.
Scanned(f) ==
    /\ Prefix(pending, count) = Proc \ due
    /\ Distinct(pending, count)
    /\ Prefix(f, n) = due
    /\ Distinct(f, n)

\* The array f is in increasing order up to place k, the place h left out.
Sorted(f, k, h) ==
    \A a, b \in 0..(n - 1) : a < b /\ b <= k /\ a # h /\ b # h => f[a] < f[b]

\* Between two insertions, and during one: key belongs in the hole at j + 1,
\* or further down.
Inserted == i \in Nat \ {0} /\ Sorted(arrived, i - 1, -1)
Inserting ==
    /\ i \in 1..(n - 1)
    /\ j \in -1..(i - 1)
    /\ Sorted(arrived, i, j + 1)
    /\ \A b \in (j + 2)..i : key < arrived[b]

Inv ==
    /\ Types
    /\ pc = "scan" => Scanning
    /\ pc = "outer" => Scanned(arrived) /\ Inserted
    /\ pc = "inner" => Scanned([arrived EXCEPT ![j + 1] = key]) /\ Inserting
    /\ pc = "done" => Scanned(arrived) /\ Sorted(arrived, n - 1, -1)

-----------------------------------------------------------------------------
LEMMA SizeType == Size \in Nat
BY ProcAssumption, FS_CardinalityType DEF Size

\* A list of Proc of length Size has no repetition.
LEMMA InitInv ==
    ASSUME Init
    PROVE  Inv
<1>1. pending \in [Index -> Proc] /\ Prefix(pending, Size) = Proc
  BY DEF Init, Index
<1>2. Distinct(pending, Size)
  <2>1. pending \in Surjection(Index, Proc)
    BY <1>1 DEF Surjection, Prefix, Index
  <2>2. IsFiniteSet(Index) /\ Cardinality(Index) = Size
    BY SizeType, FS_Interval DEF Index
  <2>3. pending \in Injection(Index, Proc)
    BY <2>1, <2>2, FS_Surjection DEF Size
  <2>4. QED
    BY <2>3 DEF Injection, IsInjective, Distinct, Index
<1>3. Types
  BY <1>1, SizeType DEF Init, Types, Index
<1>4. Scanning
  <2>1. 0..(0 - 1) = {}
    OBVIOUS
  <2>2. \A f : Prefix(f, 0) = {} /\ Distinct(f, 0)
    BY <2>1 DEF Prefix, Distinct
  <2>3. count = Size /\ n = 0 /\ i = 0
    BY DEF Init
  <2>4. QED
    BY <1>1, <1>2, <2>2, <2>3, SizeType DEF Scanning
<1>5. QED
  BY <1>3, <1>4 DEF Init, Inv

\* A process that is not due stays where it is; one that is due moves to the
\* scratch array, and the last pending one to its place.
LEMMA ScanInv ==
    ASSUME Inv, Scan
    PROVE  Inv'
<1> DEFINE p == pending[i]
<1>1. Types /\ Scanning /\ pc = "scan" /\ i < count
  BY DEF Inv, Scan
<1>2. /\ i \in Index /\ p \in Proc /\ Size \in Nat
      /\ count \in 1..Size /\ n \in 0..Size /\ count + n = Size
      /\ i \in 0..(count - 1)
  BY <1>1, SizeType DEF Types, Scanning, Index
<1>3. pc' = "scan" /\ due' = due
  BY <1>1 DEF Scan
<1>4. CASE p \notin due
  <2>1. /\ i' = i + 1
        /\ arrived' = arrived /\ n' = n /\ pending' = pending /\ count' = count
    BY <1>4 DEF Scan, ScanOn
  <2>2. Prefix(pending, i + 1) = Prefix(pending, i) \cup {p}
    <3>1. 0..((i + 1) - 1) = 0..(i - 1) \cup {i}
      BY <1>2
    <3>2. QED
      BY <3>1 DEF Prefix
  <2>3. Scanning'
    BY <1>1, <1>2, <1>3, <1>4, <2>1, <2>2 DEF Scanning
  <2>4. Types'
    BY <1>1, <1>3, <2>1 DEF Types
  <2>5. QED
    BY <1>3, <2>3, <2>4 DEF Inv
<1>5. CASE p \in due
  <2> DEFINE last == pending[count - 1]
  <2>1. /\ i' = i
        /\ arrived' = [arrived EXCEPT ![n] = p] /\ n' = n + 1
        /\ pending' = [pending EXCEPT ![i] = last] /\ count' = count - 1
    BY <1>5 DEF Scan, ScanOn
  <2>2. n \in Index /\ count - 1 \in Index /\ last \in Proc
    BY <1>1, <1>2 DEF Index, Types
  <2>3. Types'
    BY <1>1, <1>2, <1>3, <2>1, <2>2 DEF Types
  <2>4. /\ arrived'[n] = p /\ \A a \in Index : a # n => arrived'[a] = arrived[a]
        /\ pending'[i] = last /\ \A a \in Index : a # i => pending'[a] = pending[a]
    BY <1>1, <1>2, <2>1, <2>2 DEF Types
  <2>5. /\ 0..(n - 1) \subseteq Index /\ 0..(n' - 1) = 0..(n - 1) \cup {n}
        /\ 0..(count - 1) \subseteq Index
        /\ 0..(count - 1) = 0..(count' - 1) \cup {count - 1}
        /\ count - 1 \notin 0..(count' - 1) /\ n \notin 0..(n - 1)
    <3>1. n' = n + 1 /\ count' = count - 1
      BY <2>1
    <3>2. 0..(n - 1) \subseteq Index /\ 0..(count - 1) \subseteq Index
      BY <1>2 DEF Index
    <3>3. 0..((n + 1) - 1) = 0..(n - 1) \cup {n} /\ n \notin 0..(n - 1)
      BY <1>2
    <3>4. /\ 0..(count - 1) = 0..((count - 1) - 1) \cup {count - 1}
          /\ count - 1 \notin 0..((count - 1) - 1)
      BY <1>2
    <3>5. QED
      BY <3>1, <3>2, <3>3, <3>4
  <2>6. Prefix(arrived', n') = Prefix(arrived, n) \cup {p}
    BY <2>4, <2>5 DEF Prefix
  <2>7. p \in Prefix(pending, count) /\ p \notin Prefix(arrived, n)
    BY <1>1, <1>2 DEF Scanning, Prefix
  <2>8. Distinct(arrived', n')
    <3>1. \A a \in 0..(n - 1) : arrived'[a] = arrived[a] /\ arrived[a] # p
      BY <2>4, <2>5, <2>7 DEF Prefix
    <3>2. \A a, b \in 0..(n - 1) : arrived[a] = arrived[b] => a = b
      BY <1>1 DEF Scanning, Distinct
    <3>3. QED
      BY <2>4, <2>5, <3>1, <3>2 DEF Distinct
  <2>9. \A a, b \in 0..(count - 1) : pending[a] = pending[b] => a = b
    BY <1>1 DEF Scanning, Distinct
  <2>10. Prefix(pending', count') = Prefix(pending, count) \ {p}
    <3>1. \A a \in 0..(count' - 1) : pending'[a] \in Prefix(pending, count) \ {p}
      <4>1. ASSUME NEW a \in 0..(count' - 1)
            PROVE  pending'[a] \in Prefix(pending, count) \ {p}
        <5>1. CASE a = i
          BY <1>2, <2>4, <2>5, <2>9, <5>1 DEF Prefix
        <5>2. CASE a # i
          BY <1>2, <2>4, <2>5, <2>9, <5>2 DEF Prefix
        <5>3. QED
          BY <5>1, <5>2
      <4>2. QED
        BY <4>1
    <3>2. \A a \in 0..(count - 1) : a # i => pending[a] \in Prefix(pending', count')
      <4>1. ASSUME NEW a \in 0..(count - 1), a # i
            PROVE  pending[a] \in Prefix(pending', count')
        <5>1. CASE a = count - 1
          <6>1. i \in 0..(count' - 1)
            BY <1>2, <2>5, <4>1, <5>1
          <6>2. QED
            BY <2>4, <5>1, <6>1 DEF Prefix
        <5>2. CASE a # count - 1
          BY <2>4, <2>5, <4>1, <5>2 DEF Prefix
        <5>3. QED
          BY <5>1, <5>2
      <4>2. QED
        BY <4>1
    <3>3. QED
      BY <3>1, <3>2 DEF Prefix
  <2>11. Distinct(pending', count')
    <3>1. ASSUME NEW a \in 0..(count' - 1), NEW b \in 0..(count' - 1),
                 pending'[a] = pending'[b]
          PROVE  a = b
      <4>1. a \in Index /\ b \in Index /\ a \in 0..(count - 1) /\ b \in 0..(count - 1)
            /\ a # count - 1 /\ b # count - 1 /\ count - 1 \in 0..(count - 1)
        BY <2>5
      <4>2. CASE a # i /\ b # i
        BY <2>4, <2>9, <3>1, <4>1, <4>2
      <4>3. CASE a = i /\ b # i
        BY <2>4, <2>9, <3>1, <4>1, <4>3
      <4>4. CASE a # i /\ b = i
        BY <2>4, <2>9, <3>1, <4>1, <4>4
      <4>5. QED
        BY <4>2, <4>3, <4>4
    <3>2. QED
      BY <3>1 DEF Distinct
  <2>12. Prefix(pending', i') \cap due' = {}
    <3>1. \A a \in 0..(i - 1) : a \in Index /\ a # i
      BY <1>2 DEF Index
    <3>2. Prefix(pending', i) = Prefix(pending, i)
      BY <2>4, <3>1 DEF Prefix
    <3>3. QED
      BY <1>1, <1>3, <2>1, <3>2 DEF Scanning
  <2>13. Scanning'
    <3>1. i' \in 0..count'
      BY <1>2, <2>1
    <3>2. /\ Prefix(pending', count') \cup Prefix(arrived', n') = Proc
          /\ Prefix(arrived', n') \subseteq due'
          /\ Prefix(pending', count') \cap Prefix(arrived', n') = {}
      BY <1>1, <1>3, <1>5, <2>6, <2>7, <2>10 DEF Scanning
    <3>3. QED
      BY <2>8, <2>11, <2>12, <3>1, <3>2 DEF Scanning
  <2>14. QED
    BY <1>3, <2>3, <2>13 DEF Inv
<1>6. QED
  BY <1>4, <1>5

LEMMA ScanEndsInv ==
    ASSUME Inv, ScanEnds
    PROVE  Inv'
<1>1. Types /\ Scanning /\ i >= count /\ pc' = "outer" /\ i' = 1
  BY DEF Inv, ScanEnds
<1>2. /\ due' = due /\ pending' = pending /\ count' = count
      /\ arrived' = arrived /\ n' = n
  BY DEF ScanEnds
<1>3. i = count
  BY <1>1 DEF Scanning, Types
<1>4. /\ Prefix(pending, count) = Proc \ due
      /\ Prefix(arrived, n) = due
  BY <1>1, <1>3 DEF Scanning, Types
<1>5. Scanned(arrived)'
  BY <1>1, <1>2, <1>4 DEF Scanning, Scanned
<1>6. Inserted'
  <2>1. Sorted(arrived, 0, -1)'
    BY DEF Sorted
  <2>2. QED
    BY <1>1, <2>1 DEF Inserted
<1>7. QED
  BY <1>1, <1>2, <1>5, <1>6 DEF Inv, Types

\* The elements of a listing of due are numbers.
LEMMA Numbers ==
    ASSUME Types, NEW f, Scanned(f), NEW a \in 0..(n - 1)
    PROVE  f[a] \in due /\ f[a] \in Int
BY ProcAssumption DEF Scanned, Prefix, Types

LEMMA OuterInv ==
    ASSUME Inv, Outer
    PROVE  Inv'
<1>1. Types /\ Scanned(arrived) /\ Inserted /\ i < n
  BY DEF Inv, Outer
<1>2. /\ due' = due /\ pending' = pending /\ count' = count
      /\ arrived' = arrived /\ n' = n /\ i' = i
      /\ key' = arrived[i] /\ j' = i - 1 /\ pc' = "inner"
  BY DEF Outer
<1>3. i \in 1..(n - 1) /\ n \in Nat /\ n <= Size /\ Size \in Nat
  BY <1>1, SizeType DEF Types, Inserted
<1>4. [arrived EXCEPT ![i] = arrived[i]] = arrived
  BY <1>1 DEF Types
<1>5. j' + 1 = i
  BY <1>2, <1>3
<1>6. Scanned([arrived EXCEPT ![j + 1] = key])'
  BY <1>1, <1>2, <1>4, <1>5 DEF Scanned
<1>7. Inserting'
  <2>1. Sorted(arrived, i, i)
    BY <1>1, <1>3 DEF Inserted, Sorted
  <2>2. (j' + 2)..i = {}
    BY <1>2, <1>3
  <2>3. QED
    BY <1>2, <1>3, <1>5, <2>1, <2>2 DEF Inserting, Sorted
<1>8. QED
  BY <1>1, <1>2, <1>6, <1>7 DEF Inv, Types

LEMMA InnerInv ==
    ASSUME Inv, Inner
    PROVE  Inv'
<1> DEFINE A == [arrived EXCEPT ![j + 1] = key]
           B == [arrived' EXCEPT ![j'+ 1] = key']
<1>1. Types /\ Scanned(A) /\ Inserting /\ j >= 0 /\ arrived[j] > key
  BY DEF Inv, Inner, Shifts
<1>2. /\ due' = due /\ pending' = pending /\ count' = count /\ n' = n
      /\ i' = i /\ key' = key /\ pc' = "inner"
      /\ arrived' = [arrived EXCEPT ![j + 1] = arrived[j]] /\ j' = j - 1
  BY DEF Inner, Inv
<1>3. /\ n \in Nat /\ Size \in Nat /\ n <= Size
      /\ i \in 1..(n - 1) /\ j \in 0..(i - 1)
      /\ j \in 0..(n - 1) /\ j + 1 \in 0..(n - 1) /\ j' + 1 = j
      /\ 0..(n - 1) \subseteq Index
  BY <1>1, <1>2, SizeType DEF Types, Inserting, Index
<1>4. arrived \in [Index -> Proc \cup {Junk}]
  BY <1>1 DEF Types
<1>5. /\ A[j + 1] = key /\ A[j] = arrived[j]
      /\ B[j + 1] = arrived[j] /\ B[j] = key
      /\ arrived'[j + 1] = arrived[j]
      /\ \A a \in 0..(n - 1) : a # j + 1 => arrived'[a] = arrived[a] /\ A[a] = arrived[a]
      /\ \A a \in 0..(n - 1) : a # j + 1 /\ a # j => B[a] = A[a]
  BY <1>2, <1>3, <1>4
<1>6. /\ \A a \in 0..(n - 1) : A[a] \in Int /\ A[a] \in Proc
      /\ key \in Int /\ arrived[j] \in Int
  <2>1. \A a \in 0..(n - 1) : A[a] \in due /\ A[a] \in Int
    BY <1>1, Numbers
  <2>2. QED
    BY <1>1, <1>3, <1>5, <2>1 DEF Types
<1>7. Types'
  <2>1. arrived[j] \in Proc
    BY <1>3, <1>5, <1>6
  <2>2. QED
    BY <1>1, <1>2, <1>3, <2>1 DEF Types
<1>8. Prefix(A, n) = due /\ \A a, b \in 0..(n - 1) : A[a] = A[b] => a = b
  BY <1>1 DEF Scanned, Distinct
<1>9. Sorted(arrived, i, j + 1) /\ \A b \in (j + 2)..i : key < arrived[b]
  BY <1>1 DEF Inserting
<1> HIDE DEF A, B
<1>10. Prefix(B, n) = due
  <2>1. \A a \in 0..(n - 1) : B[a] \in Prefix(A, n) /\ A[a] \in Prefix(B, n)
    <3>1. ASSUME NEW a \in 0..(n - 1)
          PROVE  B[a] \in Prefix(A, n) /\ A[a] \in Prefix(B, n)
      <4>1. CASE a = j
        BY <1>3, <1>5, <4>1 DEF Prefix
      <4>2. CASE a = j + 1
        BY <1>3, <1>5, <4>2 DEF Prefix
      <4>3. CASE a # j /\ a # j + 1
        BY <1>5, <4>3 DEF Prefix
      <4>4. QED
        BY <4>1, <4>2, <4>3
    <3>2. QED
      BY <3>1
  <2>2. QED
    BY <1>8, <2>1 DEF Prefix
<1>11. Distinct(B, n)
  BY <1>3, <1>5, <1>8 DEF Distinct
<1>12. Scanned([arrived EXCEPT ![j + 1] = key])'
  BY <1>1, <1>2, <1>10, <1>11 DEF Scanned, B
<1>13. Sorted(arrived', i, j)
  <2>1. ASSUME NEW a \in 0..(n - 1), NEW b \in 0..(n - 1),
               a < b, b <= i, a # j, b # j
        PROVE  arrived'[a] < arrived'[b]
    <3>1. CASE b = j + 1
      <4>1. a # j + 1 /\ a < j /\ j <= i /\ j # j + 1
        BY <1>3, <2>1, <3>1
      <4>2. arrived[a] < arrived[j]
        BY <1>3, <1>9, <4>1 DEF Sorted
      <4>3. QED
        BY <1>5, <3>1, <4>1, <4>2
    <3>2. CASE a = j + 1
      <4>1. b # j + 1 /\ j < b /\ j # j + 1
        BY <1>3, <2>1, <3>2
      <4>2. arrived[j] < arrived[b]
        BY <1>3, <1>9, <2>1, <4>1 DEF Sorted
      <4>3. QED
        BY <1>5, <3>2, <4>1, <4>2
    <3>3. CASE a # j + 1 /\ b # j + 1
      BY <1>5, <1>9, <2>1, <3>3 DEF Sorted
    <3>4. QED
      BY <3>1, <3>2, <3>3
  <2>2. QED
    BY <1>2, <2>1 DEF Sorted
<1>14. \A b \in (j' + 2)..i : key < arrived'[b]
  <2>1. ASSUME NEW b \in (j' + 2)..i PROVE key < arrived'[b]
    <3>1. b \in 0..(n - 1) /\ (b = j + 1 \/ b \in (j + 2)..i)
      BY <1>2, <1>3, <2>1
    <3>2. CASE b = j + 1
      BY <1>1, <1>5, <1>6, <3>2
    <3>3. CASE b \in (j + 2)..i
      BY <1>3, <1>5, <1>9, <3>1, <3>3
    <3>4. QED
      BY <3>1, <3>2, <3>3
  <2>2. QED
    BY <2>1
<1>15. Inserting'
  <2>1. j' \in -1..(i - 1)
    BY <1>2, <1>3
  <2>2. Sorted(arrived, i, j + 1)'
    BY <1>2, <1>3, <1>13 DEF Sorted
  <2>3. QED
    BY <1>2, <1>3, <1>14, <2>1, <2>2 DEF Inserting
<1>16. QED
  BY <1>2, <1>7, <1>12, <1>15 DEF Inv

LEMMA InnerEndsInv ==
    ASSUME Inv, InnerEnds
    PROVE  Inv'
<1> DEFINE A == [arrived EXCEPT ![j + 1] = key]
<1>1. Types /\ Scanned(A) /\ Inserting /\ ~(j >= 0 /\ arrived[j] > key)
  BY DEF Inv, InnerEnds, Shifts
<1>2. /\ due' = due /\ pending' = pending /\ count' = count /\ n' = n
      /\ i' = i + 1 /\ pc' = "outer" /\ arrived' = A
  BY DEF InnerEnds
<1>3. /\ n \in Nat /\ Size \in Nat /\ n <= Size
      /\ i \in 1..(n - 1) /\ j \in -1..(i - 1)
      /\ j + 1 \in 0..(n - 1) /\ 0..(n - 1) \subseteq Index
  BY <1>1, SizeType DEF Types, Inserting, Index
<1>4. arrived \in [Index -> Proc \cup {Junk}]
  BY <1>1 DEF Types
<1>5. /\ A[j + 1] = key
      /\ \A a \in 0..(n - 1) : a # j + 1 => A[a] = arrived[a]
  BY <1>3, <1>4
<1>6. \A a \in 0..(n - 1) : A[a] \in Int /\ A[a] \in Proc
  BY <1>1, Numbers DEF Types
<1>7. Types'
  <2>1. key \in Proc
    BY <1>3, <1>5, <1>6
  <2>2. QED
    BY <1>1, <1>2, <2>1 DEF Types
<1>8. \A a, b \in 0..(n - 1) : A[a] = A[b] => a = b
  BY <1>1 DEF Scanned, Distinct
<1>9. Sorted(arrived, i, j + 1) /\ \A b \in (j + 2)..i : key < arrived[b]
  BY <1>1 DEF Inserting
<1>10. Scanned(arrived)'
  BY <1>1, <1>2 DEF Scanned
<1> HIDE DEF A
<1>11. ASSUME NEW a \in 0..(n - 1), NEW b \in 0..(n - 1), a < b, b <= i
       PROVE  A[a] < A[b]
  <2>1. CASE a = j + 1
    <3>1. b \in (j + 2)..i /\ b # j + 1
      BY <1>3, <1>11, <2>1
    <3>2. QED
      BY <1>5, <1>9, <2>1, <3>1
  <2>2. CASE b = j + 1
    <3>1. j \in 0..(n - 1) /\ a <= j /\ a # j + 1 /\ j # j + 1 /\ j <= i
      BY <1>3, <1>11, <2>2
    <3>2. A[j] = arrived[j] /\ A[a] = arrived[a] /\ A[b] = key
      BY <1>5, <2>2, <3>1
    <3>3. A[j] < key
      <4>1. A[j] # A[j + 1]
        BY <1>3, <1>8, <3>1
      <4>2. A[j] \in Int /\ key \in Int
        BY <1>3, <1>5, <1>6, <3>1
      <4>3. QED
        BY <1>1, <1>5, <3>1, <3>2, <4>1, <4>2
    <3>4. a < j => A[a] < A[j]
      BY <1>9, <3>1, <3>2 DEF Sorted
    <3>5. a = j \/ a < j
      BY <3>1
    <3>6. A[a] \in Int /\ A[j] \in Int /\ A[b] \in Int
      BY <1>6, <3>1
    <3>7. QED
      BY <3>2, <3>3, <3>4, <3>5, <3>6
  <2>3. CASE a # j + 1 /\ b # j + 1
    BY <1>5, <1>9, <1>11, <2>3 DEF Sorted
  <2>4. QED
    BY <2>1, <2>2, <2>3
<1>12. Inserted'
  <2>1. i' - 1 = i /\ i' \in Nat \ {0}
    BY <1>2, <1>3
  <2>2. QED
    BY <1>2, <1>11, <2>1 DEF Inserted, Sorted
<1>13. QED
  BY <1>2, <1>7, <1>10, <1>12 DEF Inv

LEMMA OuterEndsInv ==
    ASSUME Inv, OuterEnds
    PROVE  Inv'
<1>1. Types /\ Scanned(arrived) /\ Inserted /\ i >= n /\ pc' = "done"
  BY DEF Inv, OuterEnds
<1>2. /\ due' = due /\ pending' = pending /\ count' = count
      /\ arrived' = arrived /\ n' = n
  BY DEF OuterEnds
<1>3. i \in Nat /\ n \in Nat
  BY <1>1, SizeType DEF Types, Inserted
<1>4. Sorted(arrived, n - 1, -1)
  BY <1>1, <1>3 DEF Inserted, Sorted
<1>5. QED
  BY <1>1, <1>2, <1>4 DEF Inv, Types, Scanned, Sorted

LEMMA StutterInv ==
    ASSUME Inv, UNCHANGED scanVars
    PROVE  Inv'
BY DEF Inv, scanVars, Types, Scanning, Scanned, Sorted, Inserted, Inserting

LEMMA Inductive == Spec => []Inv
<1>1. Init => Inv
  BY InitInv
<1>2. Inv /\ [Next]_scanVars => Inv'
  BY ScanInv, ScanEndsInv, OuterInv, InnerInv, InnerEndsInv, OuterEndsInv,
     StutterInv DEF Next
<1>3. QED
  BY <1>1, <1>2, PTL DEF Spec

\* The swap-removal neither loses nor doubles a process, and stays within the
\* arrays.
THEOREM ScanCorrect == Spec => []ScanKeepsAll
<1>1. Inv => ScanKeepsAll
  BY DEF Inv, Types, Scanning, ScanKeepsAll
<1>2. QED
  BY <1>1, Inductive, PTL

-----------------------------------------------------------------------------
(* A sorted listing of a set is its Ascending.                             *)

\* The first k places of an array without repetition hold k elements.
LEMMA PrefixSize ==
    ASSUME NEW f, NEW k \in Nat, Distinct(f, k)
    PROVE  IsFiniteSet(Prefix(f, k)) /\ Cardinality(Prefix(f, k)) = k
<1> DEFINE D == 0..(k - 1)
           g == [a \in D |-> f[a]]
           T == Prefix(f, k)
<1>1. IsFiniteSet(D) /\ Cardinality(D) = k
  BY FS_Interval
<1>2. g \in [D -> T] /\ \A y \in T : \E a \in D : g[a] = y
  BY DEF Prefix
<1>3. \A a, b \in D : g[a] = g[b] => a = b
  BY DEF Distinct
<1> HIDE DEF D, g, T
<1>4. g \in Bijection(D, T)
  BY <1>2, <1>3 DEF Bijection, Injection, Surjection, IsInjective
<1>5. IsFiniteSet(T) /\ Cardinality(T) = k
  BY <1>1, <1>4, FS_Bijection DEF ExistsBijection
<1>6. QED
  BY <1>5 DEF T

LEMMA SortedIsAscending ==
    ASSUME Types, Scanned(arrived), Sorted(arrived, n - 1, -1)
    PROVE  [k \in 1..n |-> arrived[k - 1]] = Ascending(due)
<1>1. n \in Nat
  BY SizeType DEF Types
<1>2. \A a \in 0..(n - 1) : arrived[a] \in due /\ arrived[a] \in Int
  BY Numbers
<1>3. \A a, b \in 0..(n - 1) : a < b => arrived[a] < arrived[b]
  BY <1>1 DEF Sorted
<1>4. due \in SUBSET Int /\ IsFiniteSet(due)
  BY ProcAssumption, FS_Subset DEF Types
<1> DEFINE e == [k \in 1..n |-> arrived[k - 1]]
<1>5. e \in [1..n -> Int]
  BY <1>1, <1>2
<1>6. \A k, m \in 1..n : k < m => e[k] < e[m]
  BY <1>1, <1>3
<1>7. due = {e[k] : k \in 1..n}
  <2>1. due = {arrived[a] : a \in 0..(n - 1)}
    BY DEF Scanned, Prefix
  <2>2. \A k \in 1..n : k - 1 \in 0..(n - 1) /\ e[k] = arrived[k - 1]
    BY <1>1
  <2>3. \A a \in 0..(n - 1) : a + 1 \in 1..n /\ arrived[a] = e[a + 1]
    BY <1>1
  <2> HIDE DEF e
  <2>4. QED
    BY <2>1, <2>2, <2>3
<1> HIDE DEF e
<1>8. Ascending(due) = e
  BY <1>1, <1>5, <1>6, <1>7, AscendingUnique
<1>9. QED
  BY <1>8 DEF e

\* Phase 1 delivers Ascending(Arriving) to the ready queue, and leaves the
\* others pending: what Simulation says of it in one line.
THEOREM SortCorrect == Spec => []ArrivalsInOrder
<1>1. Inv => ArrivalsInOrder
  <2> SUFFICES ASSUME Inv, pc = "done"
               PROVE  /\ [k \in 1..n |-> arrived[k - 1]] = Ascending(due)
                      /\ count = Cardinality(Proc \ due)
                      /\ Prefix(pending, count) = Proc \ due
    BY DEF ArrivalsInOrder
  <2>1. Types /\ Scanned(arrived) /\ Sorted(arrived, n - 1, -1)
    BY DEF Inv
  <2>2. count \in Nat
    BY <2>1, SizeType DEF Types
  <2>3. QED
    BY <2>1, <2>2, PrefixSize, SortedIsAscending DEF Scanned
<1>2. QED
  BY <1>1, Inductive, PTL
=============================================================================
