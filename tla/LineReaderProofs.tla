-------------------------- MODULE LineReaderProofs --------------------------
(***************************************************************************)
(* What the server takes from the bytes of a connection, for every input,  *)
(* every set of names and every size of the buffers: each newline yields   *)
(* one line, its own, and a line is taken for a command exactly when the   *)
(* name is all there is on it.                                             *)
(***************************************************************************)
EXTENDS LineReader, QueueOrderProofs, SequenceTheorems

Plain == Letter \cup Space
Byte == Plain \cup {Nul}

-----------------------------------------------------------------------------
(* Words.                                                                  *)

\* Where Find stops.
Stops(line, p, S, i) ==
    /\ i \in p .. Len(line) + 1
    /\ \A j \in p .. i - 1 : line[j] \notin S
    /\ i <= Len(line) => line[i] \in S

LEMMA FindStops ==
    ASSUME NEW X, NEW line \in Seq(X), NEW S, NEW p \in 1..(Len(line) + 1)
    PROVE  Stops(line, p, S, Find(line, p, S))
<1> DEFINE n == Len(line)
           T == {i \in p..(n + 1) : i = n + 1 \/ line[i] \in S}
<1>1. n \in Nat
  OBVIOUS
<1>2. T \in SUBSET Nat /\ n + 1 \in T
  BY <1>1
<1>3. PICK i \in T : \A j \in T : i <= j
  BY <1>2, LeastNat
<1>4. i \in p..(n + 1) /\ (i <= n => line[i] \in S)
  BY <1>1
<1>5. ASSUME NEW j \in p..(i - 1) PROVE line[j] \notin S
  BY <1>1, <1>3
<1>6. \E k \in p .. Len(line) + 1 :
         /\ \A j \in p .. k - 1 : line[j] \notin S
         /\ k <= Len(line) => line[k] \in S
  BY <1>4, <1>5
<1>7. QED
  BY <1>6 DEF Find, Stops

\* It stops in one place only.
LEMMA StopsOnce ==
    ASSUME NEW X, NEW line \in Seq(X), NEW S, NEW p \in 1..(Len(line) + 1),
           NEW i, Stops(line, p, S, i)
    PROVE  Find(line, p, S) = i
<1>1. PICK k : k = Find(line, p, S)
  OBVIOUS
<1>2. Stops(line, p, S, k)
  BY <1>1, FindStops
<1>3. i \in Int /\ k \in Int /\ p \in Int /\ Len(line) \in Nat
  BY <1>2 DEF Stops
<1>4. ~(i < k)
  <2> SUFFICES ASSUME i < k PROVE FALSE
    OBVIOUS
  <2>1. i \in p..(k - 1) /\ i <= Len(line)
    BY <1>2, <1>3 DEF Stops
  <2>2. QED
    BY <1>2, <2>1 DEF Stops
<1>5. ~(k < i)
  <2> SUFFICES ASSUME k < i PROVE FALSE
    OBVIOUS
  <2>1. k \in p..(i - 1) /\ k <= Len(line)
    BY <1>2, <1>3 DEF Stops
  <2>2. QED
    BY <1>2, <2>1 DEF Stops
<1>6. QED
  BY <1>1, <1>3, <1>4, <1>5

\* A part of a sequence, by its places.
LEMMA PartIs ==
    ASSUME NEW X, NEW s \in Seq(X), NEW a \in Int, NEW b \in Int, 1 <= a, b <= Len(s), a <= b + 1
    PROVE  /\ SubSeq(s, a, b) \in Seq(X)
           /\ Len(SubSeq(s, a, b)) = b - a + 1
           /\ \A i \in 1..(b - a + 1) : SubSeq(s, a, b)[i] = s[a + i - 1]
<1>1. \A i \in a..b : s[i] \in X
  OBVIOUS
<1>2. QED
  BY <1>1, SubSeqProperties

LEMMA SameSequence ==
    ASSUME NEW X, NEW s \in Seq(X), NEW t \in Seq(X), Len(s) = Len(t),
           \A i \in 1..Len(s) : s[i] = t[i]
    PROVE  s = t
OBVIOUS

\* The place of the word on a line that has one word only.
LEMMA WordAt ==
    ASSUME NEW line \in Seq(Plain), NEW w \in Name
    PROVE  (SingleToken(line) = w) <=> Alone(line, w)
<1> DEFINE n == Len(line)
           k == Len(w)
           first == Find(line, 1, Letter)
           after == Find(line, first, Space)
           third == Find(line, after, Letter)
<1>1. /\ n \in Nat /\ k \in Nat /\ k >= 1 /\ k + 1 < WordCap /\ WordCap \in Nat
      /\ w \in Seq(Letter) /\ \A i \in 1..k : w[i] \in Letter
      /\ w \in Seq(Plain) /\ w # <<>> /\ DOMAIN line = 1..n
  BY NameAssumption, CapAssumption DEF Plain
<1>2. \A j \in 1..n : /\ line[j] \in Letter \/ line[j] \in Space
                      /\ ~(line[j] \in Letter /\ line[j] \in Space)
  BY ByteAssumption DEF Plain
<1>3. Stops(line, 1, Letter, first) /\ first \in 1..(n + 1)
  BY <1>1, FindStops DEF Stops
<1>4. Stops(line, first, Space, after) /\ after \in first..(n + 1) /\ after \in 1..(n + 1)
  BY <1>1, <1>3, FindStops DEF Stops
<1>5. Stops(line, after, Letter, third) /\ third \in after..(n + 1)
  BY <1>1, <1>4, FindStops DEF Stops
<1>6. SingleToken(line) =
        IF third <= n THEN <<>>
        ELSE SubSeq(line, first, IF after < first + WordCap THEN after - 1 ELSE first + WordCap - 2)
  BY DEF SingleToken
<1> HIDE DEF first, after, third, n, k
<1>7. ASSUME SingleToken(line) = w PROVE Alone(line, w)
  <2> DEFINE h == IF after < first + WordCap THEN after - 1 ELSE first + WordCap - 2
  <2>1. ~(third <= n) /\ w = SubSeq(line, first, h)
    BY <1>1, <1>6, <1>7
  <2>2. h \in Int /\ h <= n /\ first <= h + 1 /\ first \in Int /\ 1 <= first
    BY <1>1, <1>3, <1>4
  <2>3. k = h - first + 1
    BY <2>1, <2>2, PartIs DEF k, n
  <2>4. after < first + WordCap /\ h = after - 1 /\ after = first + k
    BY <1>1, <1>3, <1>4, <2>3
  <2>5. first \in 1..(n - k + 1) /\ SubSeq(line, first, first + k - 1) = w
    BY <1>1, <1>3, <1>4, <2>1, <2>4
  <2>6. ASSUME NEW j \in 1..n, j < first \/ j >= first + k
        PROVE  line[j] \in Space
    <3>1. CASE j < first
      <4>1. j \in 1..(first - 1)
        BY <1>3, <3>1
      <4>2. QED
        BY <1>2, <1>3, <4>1 DEF Stops
    <3>2. CASE j >= first + k
      <4>1. j \in after..(third - 1)
        BY <1>1, <1>4, <1>5, <2>1, <2>4, <3>2
      <4>2. QED
        BY <1>2, <1>5, <4>1 DEF Stops
    <3>3. QED
      BY <2>6, <3>1, <3>2
  <2>7. DOMAIN line = 1..n
    BY DEF n
  <2>8. QED
    BY <2>5, <2>6, <2>7 DEF Alone, n, k
<1>8. ASSUME Alone(line, w) PROVE SingleToken(line) = w
  <2>1. PICK i \in 1..(n - k + 1) :
           /\ SubSeq(line, i, i + k - 1) = w
           /\ \A j \in 1..n : (j < i \/ j >= i + k) => line[j] \in Space
    BY <1>1, <1>8 DEF Alone, n, k
  <2>2. i \in Nat /\ 1 <= i /\ i + k <= n + 1
    BY <1>1
  <2>3. \A j \in 1..k : line[i + j - 1] \in Letter
    <3>1. \A j \in 1..k : SubSeq(line, i, i + k - 1)[j] = line[i + j - 1]
      BY <1>1, <2>2, PartIs DEF n
    <3>2. QED
      BY <1>1, <2>1, <3>1
  <2>4. \A j \in i..(i + k - 1) : line[j] \in Letter
    <3> SUFFICES ASSUME NEW j \in i..(i + k - 1) PROVE line[j] \in Letter
      OBVIOUS
    <3>1. j - i + 1 \in 1..k /\ i + (j - i + 1) - 1 = j
      BY <1>1, <2>2
    <3>2. QED
      BY <2>3, <3>1
  <2>5. Stops(line, 1, Letter, i)
    <3>1. \A j \in 1..(i - 1) : line[j] \notin Letter
      BY <1>1, <1>2, <2>1, <2>2
    <3>2. i \in 1..(n + 1) /\ line[i] \in Letter
      BY <1>1, <2>2, <2>4
    <3>3. QED
      BY <3>1, <3>2 DEF Stops, n
  <2>6. first = i
    BY <2>5, StopsOnce DEF first
  <2> DEFINE a == i + k
  <2>7. Stops(line, i, Space, a)
    <3>1. \A j \in i..(a - 1) : line[j] \notin Space
      BY <1>1, <1>2, <2>2, <2>4
    <3>2. a <= n => line[a] \in Space
      BY <1>1, <2>1, <2>2
    <3>3. a \in i..(n + 1)
      BY <1>1, <2>2
    <3> HIDE DEF a
    <3>4. QED
      BY <3>1, <3>2, <3>3 DEF Stops, n
  <2>8. after = i + k
    <3>1. i \in 1..(Len(line) + 1)
      BY <1>1, <2>2 DEF n
    <3> HIDE DEF a
    <3>2. Find(line, i, Space) = a
      BY <2>7, <3>1, StopsOnce
    <3>3. QED
      BY <2>6, <3>2 DEF after, a
  <2>9. ~(third <= n)
    <3> SUFFICES ASSUME third <= n PROVE FALSE
      OBVIOUS
    <3>1. third \in 1..n /\ third >= i + k /\ line[third] \in Letter
      BY <1>1, <1>5, <2>2, <2>8 DEF Stops, n
    <3>2. line[third] \in Space
      BY <2>1, <3>1
    <3>3. QED
      BY <1>2, <3>1, <3>2
  <2>10. SubSeq(line, first, after - 1) = w /\ after < first + WordCap
    BY <1>1, <2>1, <2>2, <2>6, <2>8
  <2>11. QED
    BY <1>6, <2>9, <2>10
<1>9. QED
  BY <1>7, <1>8

\* A line is taken for a command exactly when it says it.
LEMMA ParsesWhatItSays ==
    ASSUME NEW line \in Seq(Byte), NEW w \in Name
    PROVE  Parse(line) = w <=> Says(line, w)
<1> DEFINE n == Len(line)
           k == Len(w)
           Upto(h) == SubSeq(line, 1, h - 1)
<1>1. /\ n \in Nat /\ k \in Nat /\ w \in Seq(Letter) /\ w # <<>>
      /\ \A i \in 1..k : w[i] \in Letter
  BY NameAssumption
<1>2. \A b \in Plain : b # Nul
  BY ByteAssumption DEF Plain
<1>3. ASSUME NEW h \in 1..(n + 1)
      PROVE  /\ Upto(h) \in Seq(Byte) /\ Len(Upto(h)) = h - 1
             /\ \A j \in 1..(h - 1) : Upto(h)[j] = line[j] /\ line[j] \in Byte
  <2>1. h - 1 \in Int /\ h - 1 <= Len(line) /\ 1 <= (h - 1) + 1 /\ (h - 1) - 1 + 1 = h - 1
    BY <1>1
  <2>2. /\ Upto(h) \in Seq(Byte) /\ Len(Upto(h)) = h - 1
        /\ \A j \in 1..(h - 1) : Upto(h)[j] = line[1 + j - 1]
    BY <2>1, PartIs
  <2>3. \A j \in 1..(h - 1) : 1 + j - 1 = j /\ j \in 1..Len(line)
    BY <1>1
  <2>4. QED
    BY <2>2, <2>3
<1> HIDE DEF Upto
<1>4. PICK e \in 1..(n + 1) :
         /\ e = Find(line, 1, {Nul})
         /\ e <= n => line[e] = Nul
         /\ \A j \in 1..(e - 1) : line[j] # Nul
  <2>1. 1 \in 1..(Len(line) + 1)
    BY <1>1
  <2>2. Stops(line, 1, {Nul}, Find(line, 1, {Nul}))
    BY <2>1, FindStops
  <2>3. QED
    BY <2>2 DEF Stops
<1>5. CString(line) = Upto(e)
  BY <1>4 DEF CString, Upto
<1>6. Upto(e) \in Seq(Plain)
  <2>1. \A j \in 1..(e - 1) : Upto(e)[j] \in Plain
    BY <1>3, <1>4 DEF Byte
  <2>2. Upto(e) \in Seq(Byte) /\ Len(Upto(e)) = e - 1
    BY <1>3
  <2>3. QED
    BY <2>1, <2>2
<1>7. Parse(line) = w <=> SingleToken(CString(line)) = w
  BY <1>1 DEF Parse
<1>8. Parse(line) = w <=> Alone(Upto(e), w)
  BY <1>5, <1>6, <1>7, WordAt
<1>9. ASSUME NEW h \in 1..(n + 1), h <= n => line[h] = Nul, Alone(Upto(h), w)
      PROVE  h = e
  <2>1. \A j \in 1..(h - 1) : line[j] # Nul
    <3> SUFFICES ASSUME NEW j \in 1..(h - 1) PROVE line[j] # Nul
      OBVIOUS
    <3>0. Len(Upto(h)) = h - 1 /\ Upto(h) \in Seq(Byte) /\ Upto(h)[j] = line[j]
          /\ line[j] \in Byte
      BY <1>3
    <3>1. Len(Upto(h)) = h - 1 /\ Upto(h) \in Seq(Byte) /\ DOMAIN Upto(h) = 1..(h - 1)
          /\ Upto(h)[j] = line[j]
      BY <3>0
    <3>2. PICK i \in 1..(h - 1 - k + 1) :
             /\ SubSeq(Upto(h), i, i + k - 1) = w
             /\ \A m \in 1..(h - 1) : (m < i \/ m >= i + k) => Upto(h)[m] \in Space
      BY <1>9, <3>1 DEF Alone
    <3>3. CASE j < i \/ j >= i + k
      <4>1. Upto(h)[j] \in Space
        BY <3>2, <3>3
      <4>2. QED
        BY <1>2, <3>1, <4>1 DEF Plain
    <3>4. CASE ~(j < i \/ j >= i + k)
      <4>1. /\ i \in Int /\ i + k - 1 \in Int /\ 1 <= i /\ i + k - 1 <= Len(Upto(h))
            /\ i <= (i + k - 1) + 1 /\ (i + k - 1) - i + 1 = k
        BY <1>1, <3>1, <3>2
      <4>2. \A m \in 1..k : SubSeq(Upto(h), i, i + k - 1)[m] = Upto(h)[i + m - 1]
        BY <3>1, <4>1, PartIs
      <4>3. j - i + 1 \in 1..k /\ i + (j - i + 1) - 1 = j
        BY <1>1, <3>2, <3>4
      <4>4. w[j - i + 1] = Upto(h)[j] /\ w[j - i + 1] \in Letter
        BY <1>1, <3>2, <4>2, <4>3
      <4>5. QED
        BY <1>2, <3>1, <4>4 DEF Plain
    <3>5. QED
      BY <3>3, <3>4
  <2>2. Stops(line, 1, {Nul}, h)
    BY <1>9, <2>1 DEF Stops
  <2>3. 1 \in 1..(Len(line) + 1)
    BY <1>1
  <2>4. QED
    BY <1>4, <2>2, <2>3, StopsOnce
<1>10. Says(line, w) <=> \E h \in 1..(n + 1) : (h <= n => line[h] = Nul) /\ Alone(Upto(h), w)
  BY DEF Says, Upto
<1>11. QED
  BY <1>4, <1>8, <1>9, <1>10

-----------------------------------------------------------------------------
(* Lines.                                                                  *)

Input == Seq(Byte \cup {Eol})

\* The line that ends before place e begins at s; what the buffer holds of it.
Starts(g, s, e) ==
    /\ s \in 1..e
    /\ s = 1 \/ g[s - 1] = Eol
    /\ \A i \in s..(e - 1) : g[i] # Eol
Cut(g, s, e) == SubSeq(g, s, IF e < s + LineCap THEN e - 1 ELSE s + LineCap - 2)

LEMMA StartsOnce ==
    ASSUME NEW g, NEW e \in Nat, NEW s, NEW t, Starts(g, s, e), Starts(g, t, e)
    PROVE  s = t
<1>1. s \in 1..e /\ t \in 1..e
  BY DEF Starts
<1>2. ~(s < t)
  <2> SUFFICES ASSUME s < t PROVE FALSE
    OBVIOUS
  <2>1. t - 1 \in s..(e - 1) /\ t # 1
    BY <1>1
  <2>2. QED
    BY <2>1 DEF Starts
<1>3. ~(t < s)
  <2> SUFFICES ASSUME t < s PROVE FALSE
    OBVIOUS
  <2>1. s - 1 \in t..(e - 1) /\ s # 1
    BY <1>1
  <2>2. QED
    BY <2>1 DEF Starts
<1>4. QED
  BY <1>1, <1>2, <1>3

LEMMA CutIs ==
    ASSUME NEW g \in Input, NEW e \in 1..(Len(g) + 1), NEW s, Starts(g, s, e)
    PROVE  /\ Cut(g, s, e) \in Seq(Byte)
           /\ Len(Cut(g, s, e)) = IF e - s < LineCap THEN e - s ELSE LineCap - 1
           /\ \A i \in 1..Len(Cut(g, s, e)) : Cut(g, s, e)[i] = g[s + i - 1]
<1> DEFINE h == IF e < s + LineCap THEN e - 1 ELSE s + LineCap - 2
<1>1. s \in 1..e /\ Len(g) \in Nat /\ LineCap \in Nat /\ LineCap >= 1
  BY CapAssumption DEF Starts, Input
<1>2. h \in Int /\ s \in Int /\ h <= e - 1 /\ s <= h + 1 /\ h <= Len(g) /\ 1 <= s
      /\ h - s + 1 = IF e - s < LineCap THEN e - s ELSE LineCap - 1
  BY <1>1
<1>3. Cut(g, s, e) = SubSeq(g, s, h)
  BY DEF Cut
<1> HIDE DEF h
<1>4. \A i \in s..h : g[i] \in Byte
  <2> SUFFICES ASSUME NEW i \in s..h PROVE g[i] \in Byte
    OBVIOUS
  <2>1. i \in s..(e - 1) /\ i \in 1..Len(g)
    BY <1>1, <1>2
  <2>2. g[i] # Eol /\ g[i] \in Byte \cup {Eol}
    BY <2>1 DEF Starts, Input
  <2>3. QED
    BY <2>2
<1>5. /\ SubSeq(g, s, h) \in Seq(Byte)
      /\ Len(SubSeq(g, s, h)) = IF s <= h THEN h - s + 1 ELSE 0
      /\ \A i \in 1..(h - s + 1) : SubSeq(g, s, h)[i] = g[s + i - 1]
  BY <1>2, <1>4, SubSeqProperties
<1>6. Len(Cut(g, s, e)) = h - s + 1
  BY <1>2, <1>3, <1>5
<1>7. QED
  BY <1>2, <1>3, <1>5, <1>6

\* What comes later does not change a line.
LEMMA CutStays ==
    ASSUME NEW g \in Input, NEW h \in Input, NEW e \in 1..(Len(g) + 1), e <= Len(h) + 1,
           \A i \in 1..(e - 1) : g[i] = h[i], NEW s, Starts(g, s, e)
    PROVE  Starts(h, s, e) /\ Cut(h, s, e) = Cut(g, s, e)
<1>1. s \in 1..e /\ Len(g) \in Nat /\ Len(h) \in Nat
  BY DEF Starts, Input
<1>2. Starts(h, s, e)
  <2>1. s # 1 => s - 1 \in 1..(e - 1)
    BY <1>1
  <2>2. \A i \in s..(e - 1) : i \in 1..(e - 1)
    BY <1>1
  <2>3. QED
    BY <2>1, <2>2 DEF Starts
<1> DEFINE a == Cut(g, s, e)
           b == Cut(h, s, e)
<1>3. e \in 1..(Len(h) + 1)
  BY <1>1
<1>4. /\ a \in Seq(Byte) /\ Len(a) = IF e - s < LineCap THEN e - s ELSE LineCap - 1
      /\ \A i \in 1..Len(a) : a[i] = g[s + i - 1]
  BY CutIs
<1>5. /\ b \in Seq(Byte) /\ Len(b) = IF e - s < LineCap THEN e - s ELSE LineCap - 1
      /\ \A i \in 1..Len(b) : b[i] = h[s + i - 1]
  BY <1>2, <1>3, CutIs
<1> HIDE DEF a, b
<1>6. Len(a) = Len(b) /\ Len(a) <= e - s /\ Len(a) \in Nat
  BY <1>1, <1>4, <1>5, CapAssumption
<1>7. \A i \in 1..Len(a) : a[i] = b[i]
  <2> SUFFICES ASSUME NEW i \in 1..Len(a) PROVE a[i] = b[i]
    OBVIOUS
  <2>1. s + i - 1 \in 1..(e - 1)
    BY <1>1, <1>6
  <2>2. QED
    BY <1>4, <1>5, <1>6, <2>1
<1>8. QED
  BY <1>2, <1>4, <1>5, <1>6, <1>7, SameSequence DEF a, b

\* One more byte of a line is in the buffer, or was dropped.
LEMMA CutGrows ==
    ASSUME NEW g \in Input, NEW s, Starts(g, s, Len(g) + 1), NEW b \in Byte,
           buf = Cut(g, s, Len(g) + 1)
    PROVE  /\ Starts(Append(g, b), s, Len(g) + 2)
           /\ Stored(b) = Cut(Append(g, b), s, Len(g) + 2)
<1> DEFINE n == Len(g)
           h == Append(g, b)
           c == Cut(h, s, n + 2)
           d == Stored(b)
<1>1. n \in Nat /\ s \in 1..(n + 1) /\ LineCap \in Nat /\ LineCap >= 1
  BY CapAssumption DEF Starts, Input
<1>2. h \in Input /\ Len(h) = n + 1 /\ h[n + 1] = b /\ \A i \in 1..n : h[i] = g[i]
  BY <1>1 DEF Input
<1>3. b # Eol
  BY ByteAssumption DEF Byte, Plain
<1> HIDE DEF h
<1>4. Starts(h, s, n + 2)
  <2>1. s # 1 => s - 1 \in 1..n
    BY <1>1
  <2>2. \A i \in s..(n + 1) : i = n + 1 \/ (i \in s..n /\ i \in 1..n)
    BY <1>1
  <2>3. s \in 1..(n + 2)
    BY <1>1
  <2>4. s = 1 \/ h[s - 1] = Eol
    BY <1>2, <2>1 DEF Starts
  <2>5. \A i \in s..n : g[i] # Eol
    BY <1>1 DEF Starts
  <2>6. \A i \in s..((n + 2) - 1) : h[i] # Eol
    BY <1>1, <1>2, <1>3, <2>2, <2>5
  <2> HIDE DEF n
  <2>7. QED
    BY <2>3, <2>4, <2>6 DEF Starts
<1>5. /\ buf \in Seq(Byte) /\ Len(buf) = IF n + 1 - s < LineCap THEN n + 1 - s ELSE LineCap - 1
      /\ \A i \in 1..Len(buf) : buf[i] = g[s + i - 1]
  BY <1>1, CutIs
<1>6. /\ c \in Seq(Byte) /\ Len(c) = IF n + 2 - s < LineCap THEN n + 2 - s ELSE LineCap - 1
      /\ \A i \in 1..Len(c) : c[i] = h[s + i - 1]
  <2> DEFINE e == n + 2
  <2>1. e \in 1..(Len(h) + 1) /\ Starts(h, s, e) /\ c = Cut(h, s, e)
    BY <1>1, <1>2, <1>4
  <2> HIDE DEF e, c
  <2>2. /\ c \in Seq(Byte) /\ Len(c) = IF e - s < LineCap THEN e - s ELSE LineCap - 1
        /\ \A i \in 1..Len(c) : c[i] = h[s + i - 1]
    BY <1>2, <2>1, CutIs
  <2>3. QED
    BY <1>1, <2>2 DEF e
<1> HIDE DEF c, n
<1>7. Len(buf) \in Nat
  BY <1>5
<1>8. d = c
  <2>1. CASE Len(buf) + 1 < LineCap
    <3>1. d = Append(buf, b)
      BY <2>1 DEF Stored
    <3>2. Len(buf) = n + 1 - s /\ Len(c) = Len(buf) + 1
      <4>1. n + 1 - s < LineCap /\ Len(buf) = n + 1 - s
        BY <1>1, <1>5, <1>7, <2>1
      <4>2. n + 2 - s < LineCap
        BY <1>1, <2>1, <4>1
      <4>3. QED
        BY <1>1, <1>6, <4>1, <4>2
    <3>3. d \in Seq(Byte) /\ Len(d) = Len(buf) + 1 /\ d[Len(buf) + 1] = b
          /\ \A i \in 1..Len(buf) : d[i] = buf[i]
      BY <1>5, <3>1
    <3> HIDE DEF d
    <3>4. \A i \in 1..Len(d) : d[i] = c[i]
      <4> SUFFICES ASSUME NEW i \in 1..Len(d) PROVE d[i] = c[i]
        OBVIOUS
      <4>1. CASE i = Len(buf) + 1
        <5>1. i \in 1..Len(c) /\ s + i - 1 = n + 1
          BY <1>1, <3>2, <3>3, <4>1
        <5>2. QED
          BY <1>2, <1>6, <3>3, <4>1, <5>1
      <4>2. CASE i # Len(buf) + 1
        <5>1. i \in 1..Len(buf) /\ i \in 1..Len(c) /\ s + i - 1 \in 1..n
          BY <1>1, <1>7, <3>2, <3>3, <4>2
        <5>2. QED
          BY <1>2, <1>5, <1>6, <3>3, <5>1
      <4>3. QED
        BY <4>1, <4>2
    <3>5. QED
      BY <1>6, <3>2, <3>3, <3>4, SameSequence
  <2>2. CASE ~(Len(buf) + 1 < LineCap)
    <3>1. d = buf
      BY <2>2 DEF Stored
    <3>2. Len(buf) = LineCap - 1 /\ n + 1 - s >= LineCap - 1 /\ Len(c) = Len(buf)
      <4>1. Len(buf) = LineCap - 1 /\ n + 1 - s >= LineCap - 1
        BY <1>1, <1>5, <1>7, <2>2
      <4>2. ~(n + 2 - s < LineCap)
        BY <1>1, <4>1
      <4>3. QED
        BY <1>6, <4>1, <4>2
    <3>3. \A i \in 1..Len(buf) : buf[i] = c[i]
      <4> SUFFICES ASSUME NEW i \in 1..Len(buf) PROVE buf[i] = c[i]
        OBVIOUS
      <4>1. s + i - 1 \in 1..n
        BY <1>1, <1>7, <3>2
      <4>2. QED
        BY <1>2, <1>5, <1>6, <3>2, <4>1
    <3>4. QED
      BY <1>5, <1>6, <3>1, <3>2, <3>3, SameSequence
  <2>3. QED
    BY <2>1, <2>2
<1>9. QED
  BY <1>4, <1>8 DEF c, h, n

-----------------------------------------------------------------------------
(* The invariant: the buffer is the line that is being read, and each line *)
(* that was returned is its own.                                           *)

LineInv ==
    /\ got \in Input
    /\ lines \in Seq(Seq(Byte)) /\ Len(lines) = Cardinality(Eols)
    /\ \E s : Starts(got, s, Len(got) + 1) /\ buf = Cut(got, s, Len(got) + 1)
    /\ \A e \in Eols :
          /\ LineNumber(e) \in 1..Len(lines)
          /\ \E s : Starts(got, s, e) /\ lines[LineNumber(e)] = Cut(got, s, e)

LEMMA EolsAre ==
    ASSUME got \in Input
    PROVE  /\ Len(got) \in Nat /\ DOMAIN got = 1..Len(got)
           /\ Eols \subseteq 1..Len(got) /\ IsFiniteSet(Eols)
           /\ Cardinality(Eols) \in Nat
<1>1. Len(got) \in Nat /\ DOMAIN got = 1..Len(got)
  BY DEF Input
<1>2. Eols \subseteq 1..Len(got)
  BY <1>1 DEF Eols
<1>3. IsFiniteSet(1..Len(got))
  BY <1>1, FS_Interval
<1>4. IsFiniteSet(Eols)
  BY <1>2, <1>3, FS_Subset
<1>5. QED
  BY <1>1, <1>2, <1>4, FS_CardinalityType

LEMMA LineStart == ASSUME Init PROVE LineInv
<1>1. got = <<>> /\ buf = <<>> /\ lines = <<>> /\ Eols = {}
  BY DEF Init, Eols
<1>2. Starts(<<>>, 1, 1) /\ Cut(<<>>, 1, 1) = <<>>
  <2>1. 1 < 1 + LineCap
    BY CapAssumption
  <2>2. SubSeq(<<>>, 1, 1 - 1) = <<>>
    BY SubSeqEmpty
  <2>3. QED
    BY <2>1, <2>2 DEF Starts, Cut
<1>3. got \in Input /\ Len(got) + 1 = 1 /\ lines \in Seq(Seq(Byte)) /\ Len(lines) = 0
  BY <1>1 DEF Input
<1>4. QED
  BY <1>1, <1>2, <1>3, FS_EmptySet DEF LineInv

\* The lines that were ended stay as they are when another byte is read.
LEMMA LinesStay ==
    ASSUME LineInv, got' \in Input, Len(got) <= Len(got'),
           \A i \in 1..Len(got) : got'[i] = got[i],
           NEW e \in Eols
    PROVE  /\ e \in Eols' /\ LineNumber(e)' = LineNumber(e)
           /\ \E s : Starts(got', s, e) /\ lines[LineNumber(e)] = Cut(got', s, e)
<1>1. Len(got) \in Nat /\ e \in 1..Len(got) /\ got \in Input /\ Len(got') \in Nat
      /\ DOMAIN got = 1..Len(got) /\ DOMAIN got' = 1..Len(got')
  BY EolsAre DEF LineInv, Input
<1>2. e \in Eols'
  BY <1>1 DEF Eols
<1>3. \A i : i \in Eols /\ i <= e <=> i \in Eols' /\ i <= e
  <2>1. ASSUME NEW i, i \in Eols, i <= e PROVE i \in Eols'
    BY <1>1, <2>1 DEF Eols
  <2>2. ASSUME NEW i, i \in Eols', i <= e PROVE i \in Eols
    <3>1. i \in 1..Len(got') /\ got'[i] = Eol
      BY <1>1, <2>2 DEF Eols
    <3>2. i \in 1..Len(got)
      BY <1>1, <2>2, <3>1
    <3>3. QED
      BY <1>1, <3>1, <3>2 DEF Eols
  <2>3. QED
    BY <2>1, <2>2
<1>4. LineNumber(e)' = LineNumber(e)
  <2>1. {i \in Eols : i <= e} = {i \in Eols' : i <= e}
    BY <1>3
  <2>2. QED
    BY <2>1 DEF LineNumber
<1>5. PICK s : Starts(got, s, e) /\ lines[LineNumber(e)] = Cut(got, s, e)
  BY DEF LineInv
<1>6. Starts(got', s, e) /\ Cut(got', s, e) = Cut(got, s, e)
  <2>1. e \in 1..(Len(got) + 1) /\ e <= Len(got') + 1
    BY <1>1
  <2>2. \A i \in 1..(e - 1) : got[i] = got'[i]
    BY <1>1
  <2>3. QED
    BY <1>1, <1>5, <2>1, <2>2, CutStays
<1>7. QED
  BY <1>2, <1>4, <1>5, <1>6

LEMMA ByteKeeps == ASSUME LineInv, NEW b \in Byte, ReadByte(b) PROVE LineInv'
<1> DEFINE n == Len(got)
<1>1. /\ got \in Input /\ n \in Nat /\ DOMAIN got = 1..n
      /\ got' = Append(got, b) /\ buf' = Stored(b) /\ lines' = lines /\ b # Eol
  BY EolsAre DEF LineInv, ReadByte
<1>2. /\ got' \in Input /\ Len(got') = n + 1 /\ DOMAIN got' = 1..(n + 1)
      /\ got'[n + 1] = b /\ \A i \in 1..n : got'[i] = got[i]
  BY <1>1 DEF Input
<1>3. Eols' = Eols
  <2>1. ASSUME NEW i \in Eols' PROVE i \in Eols
    <3>1. i \in 1..(n + 1) /\ got'[i] = Eol
      BY <1>2 DEF Eols
    <3>2. i \in 1..n
      BY <1>1, <1>2, <3>1
    <3>3. QED
      BY <1>1, <1>2, <3>1, <3>2 DEF Eols
  <2>2. ASSUME NEW i \in Eols PROVE i \in Eols'
    BY <1>1, <1>2 DEF Eols
  <2>3. QED
    BY <2>1, <2>2
<1>4. PICK s : Starts(got, s, n + 1) /\ buf = Cut(got, s, n + 1)
  BY DEF LineInv
<1>5. Starts(got', s, n + 2) /\ buf' = Cut(got', s, n + 2)
  BY <1>1, <1>4, CutGrows
<1>6. \E t : Starts(got', t, Len(got') + 1) /\ buf' = Cut(got', t, Len(got') + 1)
  <2>1. Len(got') + 1 = n + 2
    BY <1>1, <1>2
  <2>2. QED
    BY <1>5, <2>1
<1>7. ASSUME NEW e \in Eols'
      PROVE  /\ LineNumber(e)' \in 1..Len(lines')
             /\ \E t : Starts(got', t, e) /\ lines'[LineNumber(e)'] = Cut(got', t, e)
  <2>1. e \in Eols /\ Len(got) <= Len(got')
    BY <1>1, <1>2, <1>3
  <2>2. LineNumber(e)' = LineNumber(e)
        /\ \E t : Starts(got', t, e) /\ lines[LineNumber(e)] = Cut(got', t, e)
    BY <1>2, <2>1, LinesStay
  <2>3. LineNumber(e) \in 1..Len(lines)
    BY <2>1 DEF LineInv
  <2>4. QED
    BY <1>1, <2>2, <2>3
<1>8. lines' \in Seq(Seq(Byte)) /\ Len(lines') = Cardinality(Eols')
  BY <1>1, <1>3 DEF LineInv
<1>9. QED
  BY <1>2, <1>6, <1>7, <1>8 DEF LineInv

LEMMA EolKeeps ==
    ASSUME LineInv, ReadEol, NEW z, z = Len(got) + 1
    PROVE  LineInv'
<1> DEFINE n == Len(got)
           m == Len(lines)
<1>1. /\ got \in Input /\ n \in Nat /\ DOMAIN got = 1..n
      /\ got' = Append(got, Eol) /\ buf' = <<>> /\ lines' = Append(lines, buf)
      /\ lines \in Seq(Seq(Byte)) /\ m = Cardinality(Eols) /\ m \in Nat
  BY EolsAre DEF LineInv, ReadEol
<1>2. /\ got' \in Input /\ Len(got') = n + 1 /\ DOMAIN got' = 1..(n + 1)
      /\ got'[n + 1] = Eol /\ \A i \in 1..n : got'[i] = got[i]
  BY <1>1 DEF Input
<1>3. PICK s : Starts(got, s, n + 1) /\ buf = Cut(got, s, n + 1)
  BY DEF LineInv
<1>4. buf \in Seq(Byte)
  <2>1. n + 1 \in 1..(Len(got) + 1)
    BY <1>1
  <2>2. QED
    BY <1>1, <1>3, <2>1, CutIs
<1>5. /\ lines' \in Seq(Seq(Byte)) /\ Len(lines') = m + 1
      /\ lines'[m + 1] = buf /\ \A k \in 1..m : lines'[k] = lines[k]
  BY <1>1, <1>4
<1> HIDE DEF m, n
<1>6. Eols' = Eols \cup {n + 1} /\ n + 1 \notin Eols /\ IsFiniteSet(Eols)
      /\ \A i \in Eols : i \in 1..n
  <2>1. \A i \in 1..(n + 1) : i \in 1..n \/ i = n + 1
    BY <1>1
  <2>2. \A i \in 1..n : i \in 1..(n + 1) /\ i # n + 1
    BY <1>1
  <2>3. n + 1 \in 1..(n + 1)
    BY <1>1
  <2>4. \A i \in Eols : i \in 1..n /\ got[i] = Eol
    BY <1>1 DEF Eols
  <2>5. \A i : i \in Eols' <=> i \in 1..(n + 1) /\ got'[i] = Eol
    BY <1>2 DEF Eols
  <2>6. ASSUME NEW i PROVE i \in Eols' <=> i \in Eols \cup {n + 1}
    <3>1. i \in Eols <=> i \in 1..n /\ got[i] = Eol
      BY <1>1 DEF Eols
    <3>2. QED
      BY <1>2, <2>1, <2>2, <2>3, <2>5, <3>1
  <2>7. IsFiniteSet(Eols)
    BY <1>1, EolsAre
  <2>8. QED
    BY <2>2, <2>4, <2>6, <2>7
<1>7. Cardinality(Eols') = m + 1
  BY <1>1, <1>6, FS_AddElement
<1>8. z = n + 1 /\ LineNumber(z)' = m + 1
  <2>1. z = n + 1
    BY DEF n
  <2>2. \A i \in Eols' : i <= z
    BY <1>1, <1>6, <2>1
  <2>3. {i \in Eols' : i <= z} = Eols'
    BY <2>2
  <2>4. LineNumber(z)' = Cardinality({i \in Eols' : i <= z})
    BY DEF LineNumber
  <2>5. QED
    BY <1>7, <2>1, <2>3, <2>4
<1>9. \E t : Starts(got', t, Len(got') + 1) /\ buf' = Cut(got', t, Len(got') + 1)
  <2> DEFINE e == n + 2
  <2>1. e \in Nat /\ e >= 1 /\ e - 1 = n + 1 /\ Len(got') + 1 = e
    BY <1>1, <1>2
  <2>2. Starts(got', e, e)
    <3>1. e \in 1..e /\ e..(e - 1) = {}
      BY <2>1
    <3>2. got'[e - 1] = Eol
      BY <1>2, <2>1
    <3>3. QED
      BY <3>1, <3>2 DEF Starts
  <2> HIDE DEF e
  <2>3. Cut(got', e, e) = <<>>
    <3>1. e < e + LineCap /\ e - 1 < e /\ e - 1 \in Int /\ e \in Int
      BY <2>1, CapAssumption
    <3>2. SubSeq(got', e, e - 1) = <<>>
      BY <3>1, SubSeqEmpty
    <3>3. QED
      BY <3>1, <3>2 DEF Cut
  <2>4. QED
    BY <1>1, <2>1, <2>2, <2>3
<1>10. ASSUME NEW e \in Eols'
       PROVE  /\ LineNumber(e)' \in 1..Len(lines')
              /\ \E t : Starts(got', t, e) /\ lines'[LineNumber(e)'] = Cut(got', t, e)
  <2>1. CASE e \in Eols
    <3>1. Len(got) <= Len(got')
      BY <1>1, <1>2 DEF n
    <3>2. \A i \in 1..Len(got) : got'[i] = got[i]
      BY <1>2 DEF n
    <3>3. LineNumber(e)' = LineNumber(e)
          /\ \E t : Starts(got', t, e) /\ lines[LineNumber(e)] = Cut(got', t, e)
      BY <1>2, <2>1, <3>1, <3>2, LinesStay
    <3>4. LineNumber(e) \in 1..m
      BY <2>1 DEF LineInv, m
    <3>5. lines'[LineNumber(e)] = lines[LineNumber(e)] /\ LineNumber(e) \in 1..(m + 1)
      BY <1>1, <1>5, <3>4
    <3>6. QED
      BY <1>5, <3>3, <3>5
  <2>2. CASE e = z
    <3>1. LineNumber(e)' = m + 1 /\ m + 1 \in 1..(m + 1)
      BY <1>1, <1>8, <2>2
    <3>2. Starts(got', s, z) /\ Cut(got', s, z) = Cut(got, s, z)
      <4>1. z \in 1..(Len(got) + 1) /\ z <= Len(got') + 1
        BY <1>1, <1>2, <1>8 DEF n
      <4>2. \A i \in 1..(z - 1) : got[i] = got'[i]
        BY <1>1, <1>2, <1>8
      <4>3. Starts(got, s, z)
        BY <1>3, <1>8
      <4>4. QED
        BY <1>1, <1>2, <4>1, <4>2, <4>3, CutStays
    <3>3. lines'[m + 1] = Cut(got', s, z)
      BY <1>3, <1>5, <1>8, <3>2
    <3>4. QED
      BY <1>5, <2>2, <3>1, <3>2, <3>3
  <2>3. QED
    BY <1>6, <1>8, <2>1, <2>2
<1>11. Len(lines') = Cardinality(Eols')
  BY <1>5, <1>7
<1>12. QED
  BY <1>2, <1>5, <1>9, <1>10, <1>11 DEF LineInv

LEMMA LineStep == ASSUME LineInv, [Next]_vars PROVE LineInv'
<1>1. CASE \E b \in Letter \cup Space \cup {Nul} : ReadByte(b)
  BY <1>1, ByteKeeps DEF Byte, Plain
<1>2. CASE ReadEol
  <2>1. \E z : z = Len(got) + 1
    OBVIOUS
  <2>2. QED
    BY <1>2, <2>1, EolKeeps
<1>3. CASE EndOfFile \/ UNCHANGED vars
  <2>1. got' = got /\ buf' = buf /\ lines' = lines
    BY <1>3 DEF EndOfFile, vars
  <2>2. Eols' = Eols /\ \A e : LineNumber(e)' = LineNumber(e)
    BY <2>1 DEF Eols, LineNumber
  <2>3. QED
    BY <2>1, <2>2 DEF LineInv
<1>4. QED
  BY <1>1, <1>2, <1>3 DEF Next

LEMMA LinesCommand == ASSUME LineInv PROVE CommandOfItsLine
<1>1. got \in Input /\ Len(got) \in Nat /\ DOMAIN got = 1..Len(got)
      /\ Len(lines) = Cardinality(Eols)
  BY EolsAre DEF LineInv
<1>2. ASSUME NEW e \in Eols, NEW w \in Name
      PROVE  Parse(lines[LineNumber(e)]) = w <=> Says(LineAt(e), w)
  <2>1. PICK s : Starts(got, s, e) /\ lines[LineNumber(e)] = Cut(got, s, e)
    BY DEF LineInv
  <2>2. e \in 1..Len(got) /\ e \in 1..(Len(got) + 1) /\ e \in Nat
    BY <1>1 DEF Eols
  <2> DEFINE Begins(t) == /\ t \in 1..e /\ (t = 1 \/ t - 1 \in Eols)
                          /\ \A i \in t..(e - 1) : i \notin Eols
  <2>3. \A t : Begins(t) <=> Starts(got, t, e)
    <3> SUFFICES ASSUME NEW t \in 1..e PROVE Begins(t) <=> Starts(got, t, e)
      BY DEF Starts
    <3>1. t # 1 => (t - 1 \in Eols <=> got[t - 1] = Eol)
      BY <1>1, <2>2 DEF Eols
    <3>2. \A i \in t..(e - 1) : i \in Eols <=> got[i] = Eol
      BY <1>1, <2>2 DEF Eols
    <3>3. QED
      BY <3>1, <3>2 DEF Starts
  <2>4. Begins(s) /\ \A t : Begins(t) => t = s
    BY <2>1, <2>2, <2>3, StartsOnce
  <2> DEFINE start == CHOOSE t \in 1..e : (t = 1 \/ t - 1 \in Eols)
                                        /\ \A i \in t..(e - 1) : i \notin Eols
  <2>5. start = s
    BY <2>4
  <2>6. LineAt(e) = SubSeq(got, start, IF e < start + LineCap THEN e - 1 ELSE start + LineCap - 2)
    BY DEF LineAt
  <2> HIDE DEF start
  <2>7. LineAt(e) = Cut(got, s, e)
    BY <2>5, <2>6 DEF Cut
  <2>8. Cut(got, s, e) \in Seq(Byte)
    BY <1>1, <2>1, <2>2, CutIs
  <2>9. QED
    BY <2>1, <2>7, <2>8, ParsesWhatItSays
<1>3. QED
  BY <1>1, <1>2 DEF CommandOfItsLine

\* Every newline yields exactly one command, that of its own line, however long,
\* empty or malformed the lines before it were.
THEOREM CommandsOfTheirLines == Spec => []CommandOfItsLine
<1>1. Init => LineInv
  BY LineStart
<1>2. LineInv /\ [Next]_vars => LineInv'
  BY LineStep
<1>3. LineInv => CommandOfItsLine
  BY LinesCommand
<1>4. QED
  BY <1>1, <1>2, <1>3, PTL DEF Spec
=============================================================================
