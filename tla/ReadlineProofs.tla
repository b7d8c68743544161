--------------------------- MODULE ReadlineProofs ---------------------------
(***************************************************************************)
(* The line editor of the shell implements Editor, for every size of the   *)
(* buffer and of the ring, and every alphabet.                             *)
(***************************************************************************)
EXTENDS Readline, SequenceTheorems, WellFoundedInduction, TLAPS

Cell == Chars \cup {Blank}
Lines == Seq(Cell)
Arrays == [0 .. Size - 1 -> Cell]

\* The inductive invariant: the cursor and the line fit, the lines in the ring are
\* the latest ones entered, and no line is too long to be shown.
RInv ==
  /\ buf \in Arrays
  /\ len \in Nat /\ len <= Size - 1 /\ cur \in Nat /\ cur <= len
  /\ saved \in Lines /\ Len(saved) <= Size - 1
  /\ hist \in [0 .. HistMax - 1 -> Lines]
  /\ past \in Seq(Lines) /\ total = Len(past)
  /\ browse \in Nat /\ browse <= total /\ browse >= total - HistMax
  /\ \A i \in 0 .. total - 1 :
       /\ Len(past[i + 1]) <= Size - 1
       /\ i >= total - HistMax => hist[i % HistMax] = past[i + 1]

-----------------------------------------------------------------------------
(* Rings and parts of arrays                                               *)

\* Two numbers less than h apart have different places in a ring of h.
LEMMA ModApart ==
  ASSUME NEW h \in Nat \ {0}, NEW a \in Nat, NEW b \in Nat, a < b, b - a < h
  PROVE  a % h # b % h
<1> DEFINE p == a \div h
           q == b \div h
<1>1. a = (h * p) + (a % h) /\ b = (h * q) + (b % h) /\ p \in Nat /\ q \in Nat
  OBVIOUS
<1> HIDE DEF p, q
<1>2. SUFFICES ASSUME a % h = b % h PROVE FALSE
  BY Zenon
<1>3. b - a = h * (q - p)
  BY <1>1, <1>2
<1>4. q - p \in Int
  BY <1>1
<1>5. CASE q - p <= 0
  BY <1>3, <1>4, <1>5
<1>6. CASE q - p >= 1
  BY <1>3, <1>4, <1>6
<1>. QED
  BY <1>4, <1>5, <1>6

\* The sizes of the buffer and of the ring are natural numbers, with room for a
\* character and a line.
LEMMA SizeNat == Size \in Nat /\ Size >= 2 /\ HistMax \in Nat /\ HistMax > 0
BY ReadlineAssumption

\* A part of an array is a sequence.
LEMMA PartSeq ==
  ASSUME NEW b \in Arrays,
         NEW i \in Nat, NEW j \in Nat, i <= j, j <= Size
  PROVE  /\ Part(b, i, j) \in Lines /\ Len(Part(b, i, j)) = j - i
         /\ \A k \in 1 .. j - i : Part(b, i, j)[k] = b[i + k - 1]
<1>1. \A k \in 1 .. j - i : i + k - 1 \in 0 .. Size - 1
  BY SizeNat
<1>2. Part(b, i, j) \in [1 .. j - i -> Cell]
  BY <1>1, Zenon DEF Part, Arrays
<1>3. j - i \in Nat
  OBVIOUS
<1>. QED
  BY <1>2, <1>3 DEF Part, Lines

\* Two parts next to each other are one.
LEMMA PartCat ==
  ASSUME NEW b \in Arrays,
         NEW i \in Nat, NEW j \in Nat, NEW k \in Nat, i <= j, j <= k, k <= Size
  PROVE  Part(b, i, j) \o Part(b, j, k) = Part(b, i, k)
<1> DEFINE s == Part(b, i, j)
           t == Part(b, j, k)
           u == Part(b, i, k)
<1>0. j <= Size /\ i <= k
  BY SizeNat
<1>1. /\ s \in Lines /\ Len(s) = j - i /\ \A x \in 1 .. j - i : s[x] = b[i + x - 1]
  BY <1>0, PartSeq, Zenon
<1>2. /\ t \in Lines /\ Len(t) = k - j /\ \A x \in 1 .. k - j : t[x] = b[j + x - 1]
  BY PartSeq, SizeNat, Zenon
<1>3. /\ u \in Lines /\ Len(u) = k - i /\ \A x \in 1 .. k - i : u[x] = b[i + x - 1]
  BY <1>0, PartSeq, Zenon
<1> HIDE DEF s, t, u
<1>4. s \o t \in Lines /\ Len(s \o t) = Len(s) + Len(t)
  BY <1>1, <1>2, ConcatProperties, Zenon DEF Lines
<1>5. \A x \in 1 .. k - i : (s \o t)[x] = IF x <= j - i THEN s[x] ELSE t[x - (j - i)]
  BY <1>1, <1>2 DEF Lines
<1>6. \A x \in 1 .. k - i : (s \o t)[x] = u[x]
  BY <1>1, <1>2, <1>3, <1>5
<1>7. Len(s \o t) = Len(u)
  BY <1>1, <1>2, <1>3, <1>4
<1>8. s \o t = u
  BY <1>3, <1>4, <1>6, <1>7, SeqEqual, Zenon DEF Lines
<1>. QED
  BY <1>8, Zenon DEF s, t, u

\* The beginning of a part is a part.
LEMMA PartFirst ==
  ASSUME NEW b \in Arrays, NEW i \in Nat, NEW j \in Nat, i <= j, j <= Size,
         NEW e \in Nat, e <= j - i
  PROVE  SubSeq(Part(b, i, j), 1, e) = Part(b, i, i + e)
<1> DEFINE s == Part(b, i, j)
           m == 1
           y == e
           p == i
           q == i + e
           u == Part(b, p, q)
           n == q - p
<1>1. s \in Lines /\ Len(s) = j - i /\ \A k \in 1 .. j - i : s[k] = b[i + k - 1]
  BY PartSeq, Zenon
<1>0. /\ p \in Nat /\ q \in Nat /\ p <= q /\ q <= Size /\ n = (y + 1) - m /\ n \in Nat
      /\ p + 1 = i + m /\ m \in Nat /\ y \in Nat /\ m >= 1 /\ m <= y + 1 /\ y <= j - i
  BY SizeNat
<1> HIDE DEF s, p, q, m, y
<1>2. u \in Lines /\ Len(u) = n /\ \A k \in 1 .. n : u[k] = b[p + k - 1]
  BY <1>0, PartSeq, ZenonT(30)
<1> HIDE DEF u, n
<1>3. /\ SubSeq(s, m, y) \in Lines /\ Len(SubSeq(s, m, y)) = n
      /\ \A k \in 1 .. n : SubSeq(s, m, y)[k] = s[m + k - 1]
  <2>1. \A x \in m .. y : s[x] \in Cell
    BY <1>0, <1>1 DEF Lines
  <2>2. n = (y - m) + 1 /\ n = y - m + 1 /\ (m <= y \/ n = 0)
    BY <1>0
  <2>. QED
    BY <1>0, <1>1, <2>1, <2>2, SubSeqProperties DEF Lines
<1>4. \A k \in 1 .. n : SubSeq(s, m, y)[k] = u[k]
  <2> TAKE k \in 1 .. n
  <2> DEFINE x == m + k - 1
  <2>1. x \in 1 .. j - i /\ i + x - 1 = p + k - 1
    BY <1>0
  <2> HIDE DEF x
  <2>2. s[x] = b[p + k - 1]
    BY <1>1, <2>1, Zenon
  <2>. QED
    BY <1>2, <1>3, <2>2, Zenon DEF x
<1>5. SubSeq(s, m, y) = u
  BY <1>2, <1>3, <1>4, SeqEqual, Zenon DEF Lines
<1>. QED
  BY <1>5, Zenon DEF s, u, p, q, m, y

\* So is its end.
LEMMA PartLast ==
  ASSUME NEW b \in Arrays, NEW i \in Nat, NEW j \in Nat, i <= j, j <= Size,
         NEW e \in Nat, e <= j - i
  PROVE  SubSeq(Part(b, i, j), e + 1, j - i) = Part(b, i + e, j)
<1> DEFINE s == Part(b, i, j)
           m == e + 1
           y == j - i
           p == i + e
           q == j
           u == Part(b, p, q)
           n == q - p
<1>1. s \in Lines /\ Len(s) = j - i /\ \A k \in 1 .. j - i : s[k] = b[i + k - 1]
  BY PartSeq, Zenon
<1>0. /\ p \in Nat /\ q \in Nat /\ p <= q /\ q <= Size /\ n = (y + 1) - m /\ n \in Nat
      /\ p + 1 = i + m /\ m \in Nat /\ y \in Nat /\ m >= 1 /\ m <= y + 1 /\ y <= j - i
  BY SizeNat
<1> HIDE DEF s, p, q, m, y
<1>2. u \in Lines /\ Len(u) = n /\ \A k \in 1 .. n : u[k] = b[p + k - 1]
  BY <1>0, PartSeq, ZenonT(30)
<1> HIDE DEF u, n
<1>3. /\ SubSeq(s, m, y) \in Lines /\ Len(SubSeq(s, m, y)) = n
      /\ \A k \in 1 .. n : SubSeq(s, m, y)[k] = s[m + k - 1]
  <2>1. \A x \in m .. y : s[x] \in Cell
    BY <1>0, <1>1 DEF Lines
  <2>2. n = (y - m) + 1 /\ n = y - m + 1 /\ (m <= y \/ n = 0)
    BY <1>0
  <2>. QED
    BY <1>0, <1>1, <2>1, <2>2, SubSeqProperties DEF Lines
<1>4. \A k \in 1 .. n : SubSeq(s, m, y)[k] = u[k]
  <2> TAKE k \in 1 .. n
  <2> DEFINE x == m + k - 1
  <2>1. x \in 1 .. j - i /\ i + x - 1 = p + k - 1
    BY <1>0
  <2> HIDE DEF x
  <2>2. s[x] = b[p + k - 1]
    BY <1>1, <2>1, Zenon
  <2>. QED
    BY <1>2, <1>3, <2>2, Zenon DEF x
<1>5. SubSeq(s, m, y) = u
  BY <1>2, <1>3, <1>4, SeqEqual, Zenon DEF Lines
<1>. QED
  BY <1>5, Zenon DEF s, u, p, q, m, y

\* A character behind a part makes it longer by one.
LEMMA PartAppend ==
  ASSUME NEW b \in Arrays, NEW j \in Nat, j < Size
  PROVE  Append(Part(b, 0, j), b[j]) = Part(b, 0, j + 1)
<1> DEFINE s == Part(b, 0, j)
           u == Part(b, 0, j + 1)
<1>0. j <= Size /\ j + 1 <= Size /\ 0 <= j /\ 0 <= j + 1 /\ j + 1 \in Nat /\ j \in 0 .. Size - 1
  BY SizeNat
<1>1. s \in Lines /\ Len(s) = j - 0 /\ \A k \in 1 .. j - 0 : s[k] = b[0 + k - 1]
  BY <1>0, PartSeq, Zenon
<1>2. u \in Lines /\ Len(u) = (j + 1) - 0 /\ \A k \in 1 .. (j + 1) - 0 : u[k] = b[0 + k - 1]
  BY <1>0, PartSeq, ZenonT(30)
<1>3. b[j] \in Cell
  BY <1>0, Zenon DEF Arrays
<1> HIDE DEF s, u
<1>4. /\ Append(s, b[j]) \in Lines /\ Len(Append(s, b[j])) = j + 1
      /\ \A k \in 1 .. j : Append(s, b[j])[k] = s[k]
      /\ Append(s, b[j])[j + 1] = b[j]
  BY <1>1, <1>3, AppendProperties DEF Lines
<1>5. \A k \in 1 .. j + 1 : Append(s, b[j])[k] = u[k]
  <2> TAKE k \in 1 .. j + 1
  <2>0. k <= j \/ k = j + 1
    OBVIOUS
  <2>1. CASE k <= j
    BY <1>1, <1>2, <1>4, <2>1
  <2>2. CASE k = j + 1
    <3>1. j + 1 \in 1 .. (j + 1) - 0 /\ 0 + (j + 1) - 1 = j
      OBVIOUS
    <3>2. u[j + 1] = b[j]
      BY <1>2, <3>1, Zenon
    <3>. QED
      BY <1>4, <2>2, <3>2, Zenon
  <2>. QED
    BY <2>0, <2>1, <2>2, Zenon
<1>6. Append(s, b[j]) = u
  BY <1>2, <1>4, <1>5, SeqEqual DEF Lines
<1>. QED
  BY <1>6, Zenon DEF s, u

\* Nothing between a position and itself.
LEMMA PartEmpty ==
  ASSUME NEW b, NEW i \in Nat
  PROVE  Part(b, i, i) = <<>>
BY DEF Part

\* An array that begins with a line shows it.
LEMMA PartLine ==
  ASSUME NEW b \in Arrays, NEW s \in Lines, Len(s) <= Size,
         \A j \in 0 .. Len(s) - 1 : b[j] = s[j + 1]
  PROVE  Part(b, 0, Len(s)) = s
<1> DEFINE u == Part(b, 0, Len(s))
<1>0. Len(s) \in Nat /\ 0 <= Len(s) /\ 0 \in Nat
  BY DEF Lines
<1>1. u \in Lines /\ Len(u) = Len(s) - 0 /\ \A k \in 1 .. Len(s) - 0 : u[k] = b[0 + k - 1]
  BY <1>0, PartSeq, ZenonT(30)
<1> HIDE DEF u
<1>2. \A k \in 1 .. Len(s) : u[k] = s[k]
  <2> TAKE k \in 1 .. Len(s)
  <2>1. k - 1 \in 0 .. Len(s) - 1 /\ (k - 1) + 1 = k /\ 0 + k - 1 = k - 1
    BY <1>0
  <2>. QED
    BY <1>0, <1>1, <2>1
<1>3. u = s
  BY <1>0, <1>1, <1>2, SeqEqual DEF Lines
<1>. QED
  BY <1>3, Zenon DEF u

-----------------------------------------------------------------------------
(* The steps                                                               *)

\* The abstract line is what buf holds.
LEMMA TheLine ==
  ASSUME RInv
  PROVE  /\ Text(cur) \o Part(buf, cur, len) = Text(len)
         /\ Text(len) \in Lines /\ Len(Text(len)) = len
         /\ Text(cur) \in Lines /\ Len(Text(cur)) = cur
         /\ Part(buf, cur, len) \in Lines /\ Len(Part(buf, cur, len)) = len - cur
<1>1. /\ buf \in Arrays /\ len \in Nat /\ cur \in Nat /\ 0 <= cur /\ 0 <= len
      /\ cur <= len /\ len <= Size /\ cur <= Size
  BY SizeNat DEF RInv
<1>2. Part(buf, 0, cur) \o Part(buf, cur, len) = Part(buf, 0, len)
  BY <1>1, PartCat, Zenon
<1>3. Part(buf, 0, cur) \in Lines /\ Len(Part(buf, 0, cur)) = cur - 0
  BY <1>1, PartSeq, Zenon
<1>4. Part(buf, 0, len) \in Lines /\ Len(Part(buf, 0, len)) = len - 0
  BY <1>1, PartSeq, Zenon
<1>5. Part(buf, cur, len) \in Lines /\ Len(Part(buf, cur, len)) = len - cur
  BY <1>1, PartSeq, Zenon
<1>. QED
  BY <1>1, <1>2, <1>3, <1>4, <1>5 DEF Text

\* While the loop runs the abstract line is not full.
LEMMA NotFull ==
  ASSUME RInv, Reading
  PROVE  ~E!Full
BY TheLine, SizeNat DEF E!Full, E!Line, Reading, RInv

\* An empty line is the first state of the editor.
LEMMA InitKeeps == Init => RInv /\ E!Init
<1> SUFFICES ASSUME Init PROVE RInv /\ E!Init
  BY Zenon
<1>1. buf \in Arrays
  BY Zenon DEF Init, Arrays, Cell
<1>2. <<>> \in Lines /\ Len(<<>>) = 0 /\ <<>> \in Seq(Lines)
  BY DEF Lines
<1>3. RInv
  BY <1>1, <1>2, SizeNat DEF Init, RInv
<1>4. Text(cur) = <<>> /\ Part(buf, cur, len) = <<>>
  BY PartEmpty, Zenon DEF Init, Text
<1>. QED
  BY <1>3, <1>4, Zenon DEF Init, E!Init

\* A character typed goes in at the cursor.
LEMMA InsertKeeps ==
  ASSUME RInv, NEW c \in Chars, Insert(c)
  PROVE  RInv' /\ E!Next
<1> DEFINE d == buf'
<1>1. /\ buf \in Arrays /\ len \in Nat /\ cur \in Nat /\ cur <= len /\ len < Size - 1
      /\ len < Size /\ cur < Size
  BY SizeNat DEF RInv, Insert, Reading
<1>2. d = [j \in DOMAIN buf |-> IF j = cur THEN c
                              ELSE IF j > cur /\ j <= len THEN buf[j - 1] ELSE buf[j]]
      /\ len' = len + 1 /\ cur' = cur + 1
  BY Zenon DEF Insert
<1>3. DOMAIN buf = 0 .. Size - 1
  BY <1>1, Zenon DEF Arrays
<1>4. \A j \in 0 .. Size - 1 : buf[j] \in Cell
  BY <1>1, Zenon DEF Arrays
<1>5. \A j \in 0 .. Size - 1 : j > cur => j - 1 \in 0 .. Size - 1
  BY <1>1, SizeNat
<1>6. c \in Cell
  BY Zenon DEF Cell
<1>7. d \in Arrays
  BY <1>2, <1>3, <1>4, <1>5, <1>6, Zenon DEF Arrays
<1>8. /\ d[cur] = c /\ \A j \in 0 .. cur - 1 : d[j] = buf[j]
      /\ \A j \in cur + 1 .. len : d[j] = buf[j - 1]
  <2>1. cur \in 0 .. Size - 1
    BY <1>1, SizeNat
  <2>2. \A j \in 0 .. cur - 1 : j \in 0 .. Size - 1 /\ j # cur /\ ~(j > cur)
    BY <1>1, SizeNat
  <2>3. \A j \in cur + 1 .. len : j \in 0 .. Size - 1 /\ j # cur /\ j > cur /\ j <= len
    BY <1>1, SizeNat
  <2>4. d[cur] = c
    BY <1>2, <1>3, <2>1, Zenon
  <2>5. \A j \in 0 .. cur - 1 : d[j] = buf[j]
    BY <1>2, <1>3, <2>2, Zenon
  <2>6. \A j \in cur + 1 .. len : d[j] = buf[j - 1]
    BY <1>2, <1>3, <2>3, Zenon
  <2>. QED
    BY <2>4, <2>5, <2>6, Zenon
<1> HIDE DEF d
<1>9. Part(d, 0, cur) = Part(buf, 0, cur)
  <2>1. \A k \in 1 .. cur - 0 : d[0 + k - 1] = buf[0 + k - 1]
    <3> TAKE k \in 1 .. cur - 0
    <3>1. k - 1 \in 0 .. cur - 1 /\ 0 + k - 1 = k - 1
      BY <1>1
    <3>. QED
      BY <1>8, <3>1, Zenon
  <2>. QED
    BY <1>1, <2>1, Zenon DEF Part
<1>10. Part(d, 0, cur + 1) = Append(Part(buf, 0, cur), c)
  BY <1>1, <1>7, <1>8, <1>9, PartAppend, Zenon
<1>11. Part(d, cur + 1, len + 1) = Part(buf, cur, len)
  <2>1. \A k \in 1 .. (len + 1) - (cur + 1) : d[(cur + 1) + k - 1] = buf[cur + k - 1]
    <3> TAKE k \in 1 .. (len + 1) - (cur + 1)
    <3>1. cur + k \in cur + 1 .. len /\ (cur + 1) + k - 1 = cur + k
          /\ cur + k - 1 = (cur + k) - 1
      BY <1>1
    <3>2. d[cur + k] = buf[(cur + k) - 1]
      BY <1>8, <3>1, Zenon
    <3>. QED
      BY <3>1, <3>2, Zenon
  <2>2. len - cur = (len + 1) - (cur + 1) /\ len + 1 \in Nat /\ cur + 1 \in Nat
    BY <1>1
  <2> DEFINE p == cur + 1
             q == len + 1
  <2>3. \A k \in 1 .. q - p : d[p + k - 1] = buf[cur + k - 1]
    BY <2>1, Zenon
  <2>4. p \in Nat /\ q \in Nat /\ len - cur = q - p
    BY <2>2, Zenon
  <2> HIDE DEF p, q
  <2>5. Part(d, p, q) = Part(buf, cur, len)
    BY <1>1, <2>3, <2>4, Zenon DEF Part
  <2>. QED
    BY <2>5, Zenon DEF p, q
<1>12. E!Type(c)
  BY <1>2, <1>10, <1>11, Zenon DEF E!Type, Text, d
<1>13. E!Next
  <2>1. UNCHANGED <<past, browse, saved>>
    BY Zenon DEF Insert
  <2>2. E!Edit
    BY <1>12, <2>1, Zenon DEF E!Edit
  <2>. QED
    BY <2>2, NotFull, Zenon DEF E!Next, Insert
<1>14. RInv'
  <2>1. UNCHANGED <<past, browse, saved, hist, total>>
    BY Zenon DEF Insert
  <2>2. len' \in Nat /\ len' <= Size - 1 /\ cur' \in Nat /\ cur' <= len'
    BY <1>1, <1>2, SizeNat
  <2>. QED
    BY <1>7, <2>1, <2>2, Zenon DEF RInv, d
<1>. QED
  BY <1>13, <1>14, Zenon

\* A character is taken out of the array.
LEMMA RemovedParts ==
  ASSUME RInv, NEW c \in Nat, c < len
  PROVE  /\ Removed(c) \in Arrays
         /\ \A e \in 0 .. c : Part(Removed(c), 0, e) = Part(buf, 0, e)
         /\ Part(Removed(c), c, len - 1) = Part(buf, c + 1, len)
<1> DEFINE d == Removed(c)
<1>1. /\ buf \in Arrays /\ len \in Nat /\ len <= Size - 1
  BY Zenon DEF RInv
<1>2. DOMAIN buf = 0 .. Size - 1 /\ \A j \in 0 .. Size - 1 : buf[j] \in Cell
  BY <1>1, Zenon DEF Arrays
<1>3. d = [j \in 0 .. Size - 1 |-> IF j >= c /\ j < len - 1 THEN buf[j + 1] ELSE buf[j]]
  BY <1>2, Zenon DEF Removed
<1> HIDE DEF d
<1>4. \A j \in 0 .. Size - 1 : j < len - 1 => j + 1 \in 0 .. Size - 1
  BY <1>1, SizeNat
<1>5. d \in Arrays
  BY <1>2, <1>3, <1>4, Zenon DEF Arrays
<1>6. \A j \in 0 .. c - 1 : d[j] = buf[j]
  <2>1. \A j \in 0 .. c - 1 : j \in 0 .. Size - 1 /\ ~(j >= c)
    BY <1>1, SizeNat
  <2>. QED
    BY <1>3, <2>1, Zenon
<1>7. \A j \in c .. len - 2 : d[j] = buf[j + 1]
  <2>1. \A j \in c .. len - 2 : j \in 0 .. Size - 1 /\ j >= c /\ j < len - 1
    BY <1>1, SizeNat
  <2>. QED
    BY <1>3, <2>1, Zenon
<1>8. ASSUME NEW e \in 0 .. c PROVE Part(d, 0, e) = Part(buf, 0, e)
  <2>1. \A k \in 1 .. e - 0 : d[0 + k - 1] = buf[0 + k - 1]
    <3> TAKE k \in 1 .. e - 0
    <3>1. k - 1 \in 0 .. c - 1 /\ 0 + k - 1 = k - 1
      OBVIOUS
    <3>. QED
      BY <1>6, <3>1, Zenon
  <2>. QED
    BY <2>1, Zenon DEF Part
<1>9. Part(d, c, len - 1) = Part(buf, c + 1, len)
  <2>1. \A k \in 1 .. (len - 1) - c : d[c + k - 1] = buf[(c + 1) + k - 1]
    <3> TAKE k \in 1 .. (len - 1) - c
    <3> DEFINE x == c + k - 1
    <3>1. x \in c .. len - 2 /\ (c + 1) + k - 1 = x + 1
      BY <1>1
    <3> HIDE DEF x
    <3>2. d[x] = buf[x + 1]
      BY <1>7, <3>1, Zenon
    <3>. QED
      BY <3>1, <3>2, Zenon DEF x
  <2>2. (len - 1) - c = len - (c + 1)
    BY <1>1
  <2>. QED
    BY <2>1, <2>2, Zenon DEF Part
<1>. QED
  BY <1>5, <1>8, <1>9, Zenon DEF d

\* What holds of a step that only edits the line, in the array d.
LEMMA EditKeeps ==
  ASSUME RInv, buf' \in Arrays, UNCHANGED <<browse, saved, hist, total, past>>,
         len' \in Nat, len' <= Size - 1, cur' \in Nat, cur' <= len'
  PROVE  RInv'
BY Zenon DEF RInv

\* Backspace takes the character before the cursor.
LEMMA BackspaceKeeps ==
  ASSUME RInv, Backspace
  PROVE  RInv' /\ E!Next
<1>1. /\ buf \in Arrays /\ len \in Nat /\ cur \in Nat /\ cur <= len /\ cur > 0
      /\ len < Size - 1 /\ cur - 1 \in Nat /\ cur - 1 < len /\ cur <= Size
  BY SizeNat DEF RInv, Backspace, Reading
<1>2. /\ buf' = Removed(cur - 1) /\ cur' = cur - 1 /\ len' = len - 1
      /\ UNCHANGED <<browse, saved, hist, total, past>>
  BY Zenon DEF Backspace
<1>3. /\ buf' \in Arrays /\ Part(buf', cur - 1, len - 1) = Part(buf, (cur - 1) + 1, len)
      /\ Part(buf', 0, cur - 1) = Part(buf, 0, cur - 1)
  BY <1>1, <1>2, RemovedParts
<1>4. RInv'
  BY <1>1, <1>2, <1>3, SizeNat, EditKeeps
<1>5. SubSeq(Part(buf, 0, cur), 1, cur - 1) = Part(buf, 0, cur - 1)
  BY <1>1, PartFirst
<1>6. Text(cur)' = SubSeq(Text(cur), 1, cur - 1)
  BY <1>1, <1>2, <1>3, <1>5, Zenon DEF Text
<1>7. Part(buf, cur, len)' = Part(buf, cur, len)
  BY <1>1, <1>2, <1>3
<1>8. Len(Text(cur)) = cur /\ Text(cur) # <<>>
  BY <1>1, TheLine
<1>9. E!Backspace
  BY <1>6, <1>7, <1>8, Zenon DEF E!Backspace
<1>. QED
  BY <1>2, <1>4, <1>9, NotFull, Zenon DEF E!Next, E!Edit, Backspace

\* Delete takes the character under the cursor.
LEMMA DeleteKeeps ==
  ASSUME RInv, Delete
  PROVE  RInv' /\ E!Next
<1>1. /\ buf \in Arrays /\ len \in Nat /\ cur \in Nat /\ cur < len /\ cur <= len
      /\ len < Size - 1 /\ len <= Size /\ cur \in 0 .. cur
  BY SizeNat DEF RInv, Delete, Reading
<1>2. /\ buf' = Removed(cur) /\ cur' = cur /\ len' = len - 1
      /\ UNCHANGED <<browse, saved, hist, total, past>>
  BY Zenon DEF Delete
<1>3. /\ buf' \in Arrays /\ Part(buf', cur, len - 1) = Part(buf, cur + 1, len)
      /\ Part(buf', 0, cur) = Part(buf, 0, cur)
  BY <1>1, <1>2, RemovedParts, Zenon
<1>4. RInv'
  BY <1>1, <1>2, <1>3, SizeNat, EditKeeps
<1>5. SubSeq(Part(buf, cur, len), 2, len - cur) = Part(buf, cur + 1, len)
  BY <1>1, PartLast
<1>6. /\ Part(buf, cur, len) \in Seq(Cell) /\ Len(Part(buf, cur, len)) = len - cur
      /\ Part(buf, cur, len) # <<>>
  BY <1>1, TheLine DEF Lines
<1>7. Tail(Part(buf, cur, len)) = SubSeq(Part(buf, cur, len), 2, len - cur)
  BY <1>6, TailIsSubSeq, Zenon
<1>8. Part(buf, cur, len)' = Tail(Part(buf, cur, len))
  BY <1>2, <1>3, <1>5, <1>7, Zenon
<1>9. E!Delete
  BY <1>2, <1>3, <1>6, <1>8, Zenon DEF E!Delete, Text
<1>. QED
  BY <1>2, <1>4, <1>9, NotFull, Zenon DEF E!Next, E!Edit, Delete
\* KEY_LEFT and KEY_HOME, to position c.
LEMMA BackKeeps ==
  ASSUME RInv, NEW c \in Nat, Back(c), NEW n \in Nat, n = cur - c
  PROVE  RInv' /\ E!Back(n) /\ UNCHANGED <<past, browse, saved>>
<1>1. /\ buf \in Arrays /\ len \in Nat /\ cur \in Nat /\ cur <= len /\ c < cur /\ len <= Size
      /\ cur <= Size /\ c <= cur /\ c <= len
  BY SizeNat DEF RInv, Back
<1>2. cur' = c /\ UNCHANGED <<buf, len, browse, saved, hist, total, past>>
  BY Zenon DEF Back
<1>3. RInv'
  BY <1>1, <1>2, EditKeeps, Zenon DEF RInv
<1>4. Len(Text(cur)) = cur /\ n \in 1 .. Len(Text(cur)) /\ Len(Text(cur)) - n = c
  <2>1. Len(Text(cur)) = cur
    BY TheLine, Zenon
  <2>2. n \in 1 .. cur /\ cur - n = c
    BY <1>1
  <2>. QED
    BY <2>1, <2>2, Zenon
<1>5. Text(cur)' = Part(buf, 0, c) /\ Part(buf, cur, len)' = Part(buf, c, len)
  BY <1>2, Zenon DEF Text
<1>6. SubSeq(Text(cur), 1, c) = Part(buf, 0, c)
  BY <1>1, PartFirst DEF Text
<1>7. SubSeq(Text(cur), c + 1, cur) = Part(buf, c, cur)
  <2>1. SubSeq(Part(buf, 0, cur), c + 1, cur - 0) = Part(buf, 0 + c, cur)
    BY <1>1, PartLast
  <2>. QED
    BY <1>1, <2>1 DEF Text
<1>8. Part(buf, c, cur) \o Part(buf, cur, len) = Part(buf, c, len)
  BY <1>1, PartCat
<1>9. E!Back(n)
  BY <1>4, <1>5, <1>6, <1>7, <1>8, Zenon DEF E!Back
<1>. QED
  BY <1>2, <1>3, <1>9, Zenon

\* Left and Home move one or all characters before the cursor to behind it.
LEMMA LeftKeeps ==
  ASSUME RInv, Left \/ Home
  PROVE  RInv' /\ E!Next
<1>1. cur \in Nat /\ Len(Text(cur)) = cur
  BY TheLine, Zenon DEF RInv
<1>2. CASE Left
  <2> DEFINE c == cur - 1
             n == 1
  <2>1. c \in Nat /\ n \in Nat /\ n = cur - c /\ Back(c)
    BY <1>1, <1>2 DEF Left
  <2>2. Reading
    BY <1>2, Zenon DEF Left, Back
  <2> HIDE DEF c, n
  <2>3. RInv' /\ E!Back(n) /\ UNCHANGED <<past, browse, saved>>
    BY <2>1, BackKeeps, Zenon
  <2>4. E!Back(1)
    BY <2>3, Zenon DEF n
  <2>5. E!Edit
    BY <2>3, <2>4, Zenon DEF E!Edit
  <2>. QED
    BY <2>2, <2>3, <2>5, NotFull, Zenon DEF E!Next
<1>3. CASE Home
  <2> DEFINE c == 0
             n == Len(Text(cur))
  <2>1. c \in Nat /\ n \in Nat /\ n = cur - c /\ Back(c)
    BY <1>1, <1>3 DEF Home
  <2>2. Reading
    BY <1>3, Zenon DEF Home, Back
  <2> HIDE DEF c, n
  <2>3. RInv' /\ E!Back(n) /\ UNCHANGED <<past, browse, saved>>
    BY <2>1, BackKeeps, Zenon
  <2>4. E!Back(Len(Text(cur)))
    BY <2>3, Zenon DEF n
  <2>5. E!Edit
    BY <2>3, <2>4, Zenon DEF E!Edit
  <2>. QED
    BY <2>2, <2>3, <2>5, NotFull, Zenon DEF E!Next
<1>. QED
  BY <1>2, <1>3, Zenon

\* What is behind the cursor, without its first k characters.
LEMMA LineEnd ==
  ASSUME RInv, NEW k \in Nat, k <= len - cur
  PROVE  SubSeq(Part(buf, cur, len), k + 1, len - cur) = Part(buf, cur + k, len)
<1>1. buf \in Arrays /\ len \in Nat /\ cur \in Nat /\ cur <= len /\ len <= Size
  BY SizeNat DEF RInv
<1>. QED
  BY <1>1, PartLast, Zenon

\* KEY_RIGHT and KEY_END, to position c.
LEMMA ForthKeeps ==
  ASSUME RInv, NEW c \in Nat, Forth(c), c <= len, NEW n \in Nat, n = c - cur
  PROVE  RInv' /\ E!Forth(n) /\ UNCHANGED <<past, browse, saved>>
<1> DEFINE r == Part(buf, cur, len)
<1>1. /\ buf \in Arrays /\ len \in Nat /\ cur \in Nat /\ cur <= len /\ c > cur /\ len <= Size
      /\ cur <= c /\ n <= len - cur /\ cur + n = c /\ c <= Size
  BY SizeNat DEF RInv, Forth
<1>2. cur' = c /\ UNCHANGED <<buf, len, browse, saved, hist, total, past>>
  BY Zenon DEF Forth
<1>3. RInv'
  BY <1>1, <1>2, EditKeeps, Zenon DEF RInv
<1>4. Len(r) = len - cur /\ n \in 1 .. Len(r)
  BY <1>1, TheLine
<1>5. Text(cur)' = Part(buf, 0, c) /\ r' = Part(buf, c, len)
  BY <1>2, Zenon DEF Text
<1>6. SubSeq(r, 1, n) = Part(buf, cur, c)
  BY <1>1, PartFirst
<1>7. SubSeq(r, n + 1, len - cur) = Part(buf, c, len)
  <2>1. SubSeq(r, n + 1, len - cur) = Part(buf, cur + n, len)
    BY <1>1, LineEnd, Zenon
  <2>. QED
    BY <1>1, <2>1, Zenon
<1>8. Text(cur) \o Part(buf, cur, c) = Part(buf, 0, c)
  <2>1. 0 \in Nat /\ 0 <= cur
    BY <1>1
  <2>. QED
    BY <1>1, <2>1, PartCat, Zenon DEF Text
<1>9. E!Forth(n)
  BY <1>4, <1>5, <1>6, <1>7, <1>8, Zenon DEF E!Forth
<1>. QED
  BY <1>2, <1>3, <1>9, Zenon

\* Right and End move one or all characters behind the cursor to before it.
LEMMA RightKeeps ==
  ASSUME RInv, Right \/ End
  PROVE  RInv' /\ E!Next
<1>1. cur \in Nat /\ len \in Nat /\ Len(Part(buf, cur, len)) = len - cur
  BY TheLine, Zenon DEF RInv
<1>2. CASE Right
  <2> DEFINE c == cur + 1
             n == 1
  <2>1. c \in Nat /\ n \in Nat /\ n = c - cur /\ Forth(c) /\ c <= len
    BY <1>1, <1>2 DEF Right
  <2>2. Reading
    BY <1>2, Zenon DEF Right, Forth
  <2> HIDE DEF c, n
  <2>3. RInv' /\ E!Forth(n) /\ UNCHANGED <<past, browse, saved>>
    BY <2>1, ForthKeeps, Zenon
  <2>4. E!Forth(1)
    BY <2>3, Zenon DEF n
  <2>5. E!Edit
    BY <2>3, <2>4, Zenon DEF E!Edit
  <2>. QED
    BY <2>2, <2>3, <2>5, NotFull, Zenon DEF E!Next
<1>3. CASE End
  <2> DEFINE c == len
             n == Len(Part(buf, cur, len))
  <2>1. c \in Nat /\ n \in Nat /\ n = c - cur /\ Forth(c) /\ c <= len
    BY <1>1, <1>3 DEF End, RInv
  <2>2. Reading
    BY <1>3, Zenon DEF End, Forth
  <2> HIDE DEF c, n
  <2>3. RInv' /\ E!Forth(n) /\ UNCHANGED <<past, browse, saved>>
    BY <2>1, ForthKeeps, Zenon
  <2>4. E!Forth(Len(Part(buf, cur, len)))
    BY <2>3, Zenon DEF n
  <2>5. E!Edit
    BY <2>3, <2>4, Zenon DEF E!Edit
  <2>. QED
    BY <2>2, <2>3, <2>5, NotFull, Zenon DEF E!Next
<1>. QED
  BY <1>2, <1>3, Zenon

\* The line is replaced by one of the ring, or by the one kept.
LEMMA ShowKeeps ==
  ASSUME RInv, NEW line \in Lines, Len(line) <= Size - 1, Show(line)
  PROVE  /\ buf' \in Arrays /\ len' = Len(line) /\ cur' = Len(line)
         /\ Text(cur)' = line /\ Part(buf, cur, len)' = <<>>
<1> DEFINE d == buf'
<1>1. buf \in Arrays /\ DOMAIN buf = 0 .. Size - 1 /\ \A j \in 0 .. Size - 1 : buf[j] \in Cell
  BY Zenon DEF RInv, Arrays
<1>2. Len(line) \in Nat /\ \A k \in 1 .. Len(line) : line[k] \in Cell
  BY DEF Lines
<1>3. ~(Len(line) >= Size)
  BY <1>2, SizeNat
<1>4. /\ d = [j \in 0 .. Size - 1 |-> IF j < Len(line) THEN line[j + 1] ELSE buf[j]]
      /\ len' = Len(line) /\ cur' = Len(line)
  BY <1>1, <1>3, Zenon DEF Show
<1> HIDE DEF d
<1>5. \A j \in 0 .. Size - 1 : j < Len(line) => j + 1 \in 1 .. Len(line)
  BY <1>2, SizeNat
<1>6. d \in Arrays
  BY <1>1, <1>2, <1>4, <1>5, Zenon DEF Arrays
<1>7. \A j \in 0 .. Len(line) - 1 : d[j] = line[j + 1]
  <2>1. \A j \in 0 .. Len(line) - 1 : j \in 0 .. Size - 1 /\ j < Len(line)
    BY <1>2, SizeNat
  <2>. QED
    BY <1>4, <2>1, Zenon
<1>8. Len(line) <= Size
  BY <1>2, SizeNat
<1>9. Part(d, 0, Len(line)) = line
  BY <1>6, <1>7, <1>8, PartLine, Zenon
<1>10. Part(d, Len(line), Len(line)) = <<>>
  BY <1>2, PartEmpty, Zenon
<1>. QED
  BY <1>4, <1>6, <1>9, <1>10, Zenon DEF Text, d

\* The oldest line of the ring is the oldest one that can be gone back to.
LEMMA SameOldest ==
  ASSUME RInv
  PROVE  E!Oldest = Oldest
BY SizeNat DEF E!Oldest, Oldest, RInv

\* What the ring holds for a line that is still in it.
LEMMA InRing ==
  ASSUME RInv, NEW i \in Nat, i < total, i >= total - HistMax
  PROVE  hist[i % HistMax] = past[i + 1] /\ past[i + 1] \in Lines /\ Len(past[i + 1]) <= Size - 1
<1>1. total \in Nat /\ past \in Seq(Lines) /\ total = Len(past)
  BY DEF RInv
<1>2. i \in 0 .. total - 1 /\ i + 1 \in 1 .. Len(past)
  BY <1>1
<1>3. past[i + 1] \in Lines
  BY <1>1, <1>2
<1>. QED
  BY <1>2, <1>3, Zenon DEF RInv

\* Up shows the line before, and keeps a new one.
LEMMA UpKeeps ==
  ASSUME RInv, Up
  PROVE  RInv' /\ E!Next
<1> DEFINE i == browse - 1
           line == hist[i % HistMax]
<1>1. /\ browse \in Nat /\ total \in Nat /\ browse <= total /\ browse > Oldest /\ total = Len(past)
      /\ Oldest \in Nat /\ Oldest >= total - HistMax
  BY SizeNat DEF RInv, Up, Oldest
<1>2. i \in Nat /\ i < total /\ i >= total - HistMax /\ i + 1 = browse
  BY <1>1, SizeNat
<1>3. /\ saved' = (IF browse = total THEN Text(len) ELSE saved) /\ browse' = i
      /\ Show(line) /\ UNCHANGED <<hist, total, past>> /\ Reading
  BY Zenon DEF Up
<1> HIDE DEF i
<1>4. line = past[i + 1] /\ past[i + 1] \in Lines /\ Len(past[i + 1]) <= Size - 1
  BY <1>2, InRing, Zenon
<1> HIDE DEF line
<1>5. /\ buf' \in Arrays /\ len' = Len(line) /\ cur' = Len(line)
      /\ Text(cur)' = line /\ Part(buf, cur, len)' = <<>>
  BY <1>3, <1>4, ShowKeeps, Zenon
<1>6. saved' \in Lines /\ Len(saved') <= Size - 1
  BY <1>3, TheLine, Zenon DEF RInv
<1>7. Len(line) \in Nat /\ Len(line) <= Size - 1
  BY <1>4 DEF Lines
<1>8. RInv'
  BY <1>2, <1>3, <1>5, <1>6, <1>7 DEF RInv
<1>9. saved' = IF browse = Len(past) THEN E!Line ELSE saved
  BY <1>1, <1>3, TheLine, Zenon DEF E!Line
<1>10. E!Older
  BY <1>1, <1>2, <1>3, <1>4, <1>5, <1>9, SameOldest, Zenon DEF E!Older, i
<1>. QED
  BY <1>3, <1>8, <1>10, NotFull, Zenon DEF E!Next

\* Down shows the next line, or the new one that was kept.
LEMMA DownKeeps ==
  ASSUME RInv, Down
  PROVE  RInv' /\ E!Next
<1> DEFINE i == browse + 1
           line == IF i = total THEN saved ELSE hist[i % HistMax]
<1>1. /\ browse \in Nat /\ total \in Nat /\ browse < total /\ total = Len(past)
      /\ browse >= total - HistMax
  BY SizeNat DEF RInv, Down
<1>2. i \in Nat /\ i <= total /\ i >= total - HistMax
  BY <1>1, SizeNat
<1>3. /\ browse' = i /\ Show(line) /\ UNCHANGED <<saved, hist, total, past>> /\ Reading
  BY Zenon DEF Down
<1> HIDE DEF i
<1>4. /\ line = IF i = Len(past) THEN saved ELSE past[i + 1]
      /\ line \in Lines /\ Len(line) <= Size - 1
  <2>1. CASE i = total
    BY <1>1, <2>1, Zenon DEF RInv
  <2>2. CASE i # total
    <3>1. i < total
      BY <1>1, <1>2, <2>2
    <3>. QED
      BY <1>1, <1>2, <2>2, <3>1, InRing, Zenon
  <2>. QED
    BY <2>1, <2>2, Zenon
<1> HIDE DEF line
<1>5. /\ buf' \in Arrays /\ len' = Len(line) /\ cur' = Len(line)
      /\ Text(cur)' = line /\ Part(buf, cur, len)' = <<>>
  BY <1>3, <1>4, ShowKeeps, Zenon
<1>7. Len(line) \in Nat /\ Len(line) <= Size - 1
  BY <1>4 DEF Lines
<1>8. RInv'
  <2>1. saved' \in Lines /\ Len(saved') <= Size - 1
    BY <1>3, Zenon DEF RInv
  <2>2. browse' \in Nat /\ browse' <= total' /\ browse' >= total' - HistMax
    BY <1>2, <1>3, Zenon
  <2>3. UNCHANGED <<hist, total, past>>
    BY <1>3, Zenon
  <2>4. len' \in Nat /\ len' <= Size - 1 /\ cur' \in Nat /\ cur' <= len'
    BY <1>5, <1>7
  <2>. QED
    BY <1>5, <2>1, <2>2, <2>3, <2>4, Zenon DEF RInv
<1>9. i = browse + 1 /\ i + 1 = browse + 2
  BY <1>1 DEF i
<1>10. E!Newer
  BY <1>1, <1>3, <1>4, <1>5, <1>9, Zenon DEF E!Newer
<1>. QED
  BY <1>3, <1>8, <1>10, NotFull, Zenon DEF E!Next

\* The line goes into the ring: the place it takes is that of the oldest one, so the
\* ring still holds the latest lines.
LEMMA ReturnKeeps ==
  ASSUME RInv, Return
  PROVE  RInv' /\ E!Next
<1>1. /\ buf \in Arrays /\ len \in Nat /\ len <= Size - 1 /\ past \in Seq(Lines)
      /\ total = Len(past) /\ total \in Nat /\ hist \in [0 .. HistMax - 1 -> Lines]
  BY DEF RInv
<1>2. /\ buf' = buf /\ len' = 0 /\ cur' = 0 /\ browse' = total' /\ saved' = <<>>
  BY Zenon DEF Return
<1>3. /\ Text(len) \in Lines /\ Len(Text(len)) = len /\ E!Line = Text(len)
  BY TheLine, Zenon DEF E!Line
<1>4. Text(cur)' = <<>> /\ Part(buf, cur, len)' = <<>>
  BY <1>2, PartEmpty, Zenon DEF Text
<1>5. <<>> \in Lines /\ Len(<<>>) = 0
  BY DEF Lines
<1>6. CASE len > 0
  <2> DEFINE t == Text(len)
  <2>1. hist' = [hist EXCEPT ![total % HistMax] = t] /\ total' = total + 1
        /\ past' = Append(past, t)
    BY <1>6, Zenon DEF Return
  <2>2. t \in Lines /\ Len(t) <= Size - 1 /\ E!Line # <<>> /\ E!Line = t
    BY <1>1, <1>3, <1>5, <1>6
  <2> HIDE DEF t
  <2>3. total % HistMax \in 0 .. HistMax - 1
    BY <1>1, SizeNat
  <2>4. hist' \in [0 .. HistMax - 1 -> Lines] /\ hist'[total % HistMax] = t
    BY <1>1, <2>1, <2>2, <2>3, Zenon
  <2>5. /\ past' \in Seq(Lines) /\ Len(past') = total + 1 /\ past'[total + 1] = t
        /\ \A k \in 1 .. total : past'[k] = past[k]
    BY <1>1, <2>1, <2>2, AppendProperties
  <2>6. ASSUME NEW i \in 0 .. total' - 1
        PROVE  /\ Len(past'[i + 1]) <= Size - 1
               /\ i >= total' - HistMax => hist'[i % HistMax] = past'[i + 1]
    <3>1. CASE i = total
      BY <2>2, <2>4, <2>5, <3>1, Zenon
    <3>2. CASE i # total
      <4>1. i \in 0 .. total - 1 /\ i \in Nat /\ i < total /\ i + 1 \in 1 .. total
        BY <1>1, <2>1, <3>2
      <4>2. past'[i + 1] = past[i + 1] /\ Len(past[i + 1]) <= Size - 1
        BY <2>5, <4>1, Zenon DEF RInv
      <4>3. ASSUME i >= total' - HistMax PROVE hist'[i % HistMax] = past'[i + 1]
        <5>1. total - i < HistMax /\ i >= total - HistMax
          BY <1>1, <2>1, <4>1, <4>3, SizeNat
        <5>2. hist[i % HistMax] = past[i + 1]
          BY <4>1, <5>1, Zenon DEF RInv
        <5>3. i % HistMax # total % HistMax
          BY <1>1, <4>1, <5>1, SizeNat, ModApart
        <5>4. i % HistMax \in 0 .. HistMax - 1
          BY <4>1, SizeNat
        <5>5. hist'[i % HistMax] = hist[i % HistMax]
          BY <1>1, <2>1, <5>3, <5>4, Zenon
        <5>. QED
          BY <4>2, <5>2, <5>5, Zenon
      <4>. QED
        BY <4>2, <4>3, Zenon
    <3>. QED
      BY <3>1, <3>2, Zenon
  <2>7. RInv'
    <3>1. total' \in Nat /\ total' = Len(past') /\ total' >= total' - HistMax
      BY <1>1, <2>1, <2>5, SizeNat
    <3>2. Size - 1 \in Nat
      BY SizeNat
    <3>. QED
      BY <1>1, <1>2, <1>5, <2>4, <2>5, <2>6, <3>1, <3>2 DEF RInv
  <2>8. E!Enter
    <3>1. past' = IF E!Line = <<>> THEN past ELSE Append(past, E!Line)
      BY <2>1, <2>2, Zenon
    <3>2. browse' = Len(past')
      BY <1>2, <2>1, <2>5, Zenon
    <3>. QED
      BY <1>2, <1>4, <3>1, <3>2, Zenon DEF E!Enter
  <2>. QED
    BY <2>7, <2>8, Zenon DEF E!Next
<1>7. CASE ~(len > 0)
  <2>1. UNCHANGED <<hist, total, past>>
    BY <1>7, Zenon DEF Return
  <2>2. len = 0
    BY <1>1, <1>7
  <2>3. E!Line = <<>>
    BY <1>3, <2>2, PartEmpty, Zenon DEF Text
  <2>4. total' >= total' - HistMax /\ 0 <= Size - 1
    BY <1>1, <2>1, SizeNat
  <2>5. RInv'
    BY <1>1, <1>2, <1>5, <2>1, <2>4 DEF RInv
  <2>6. E!Enter
    BY <1>1, <1>2, <1>4, <2>1, <2>3, Zenon DEF E!Enter
  <2>. QED
    BY <2>5, <2>6, Zenon DEF E!Next
<1>. QED
  BY <1>6, <1>7, Zenon

\* Every step keeps the invariant and is a step of the editor, or leaves it alone.
LEMMA NextKeeps ==
  ASSUME RInv, [Next]_vars
  PROVE  RInv' /\ [E!Next]_<<Text(cur), Part(buf, cur, len), past, browse, saved>>
<1>1. CASE \E c \in Chars : Insert(c)
  BY <1>1, InsertKeeps, Zenon
<1>2. CASE Backspace
  BY <1>2, BackspaceKeeps, Zenon
<1>3. CASE Delete
  BY <1>3, DeleteKeeps, Zenon
<1>4. CASE Left \/ Home
  BY <1>4, LeftKeeps, Zenon
<1>5. CASE Right \/ End
  BY <1>5, RightKeeps, Zenon
<1>6. CASE Up
  BY <1>6, UpKeeps, Zenon
<1>7. CASE Down
  BY <1>7, DownKeeps, Zenon
<1>8. CASE Return
  BY <1>8, ReturnKeeps, Zenon
<1>9. CASE Message
  <2>1. UNCHANGED <<buf, len, cur, browse, saved, hist, total, past>>
    BY <1>9, Zenon DEF Message
  <2>. QED
    BY <2>1, Zenon DEF RInv, Text
<1>10. CASE UNCHANGED vars
  BY <1>10, Zenon DEF RInv, Text, vars
<1>. QED
  BY <1>1, <1>2, <1>3, <1>4, <1>5, <1>6, <1>7, <1>8, <1>9, <1>10, Zenon DEF Next

-----------------------------------------------------------------------------
\* shell_readline is an editor with a line, a cursor and a list of lines: whatever the
\* sizes of the buffer and the ring, a key changes the line as it would there, going
\* back finds the line that was entered, and a line is handed over complete.
THEOREM ReadlineImplementsEditor == Spec => ImplementsEditor
<1>1. RInv /\ [Next]_vars => RInv'
  BY NextKeeps, Zenon
<1>2. RInv /\ [Next]_vars => [E!Next]_<<Text(cur), Part(buf, cur, len), past, browse, saved>>
  BY NextKeeps, Zenon
<1>. QED
  BY <1>1, <1>2, InitKeeps, PTL DEF Spec, ImplementsEditor, E!Spec

-----------------------------------------------------------------------------
(* The screen.  Induction goes by the least place at which it fails.       *)

Screen == [row : [Column -> Cell], col : Column]

\* What is written: characters and backspaces.
Marks == Cell \cup {BS}

\* The screens while str is written on s, up to place k, in g.
WriteTo(g, s, str, k) ==
  g = [i \in 0 .. k |-> IF i = 0 THEN s ELSE Put(g[i - 1], str[i])]

\* A non-empty set of naturals has a least element.
LEMMA LeastNat ==
  ASSUME NEW T \in SUBSET Nat, T # {}
  PROVE  \E x \in T : \A y \in T : x <= y
<1> DEFINE R == OpToRel(<, Nat)
<1>1. \E x \in T : \A y \in T : ~ (<<y, x>> \in R)
  <2> HIDE DEF R
  <2>1. IsWellFoundedOn(R, Nat)
    BY NatLessThanWellFounded, Zenon DEF R
  <2>. QED
    BY <2>1, WFMin, Zenon
<1>2. \A x, y \in T : <<y, x>> \notin R => x <= y
  BY DEF OpToRel
<1>. QED
  BY <1>1, <1>2, Zenon

\* There is such a list of screens for every string.
LEMMA WriteStates ==
  ASSUME NEW s, NEW str, NEW k \in Nat
  PROVE  \E g : WriteTo(g, s, str, k)
<1> DEFINE bad == {i \in Nat : ~ \E g : WriteTo(g, s, str, i)}
<1> SUFFICES ASSUME bad # {} PROVE FALSE
  BY Zenon
<1>1. PICK i \in bad : \A j \in bad : i <= j
  <2>1. bad \in SUBSET Nat
    BY Zenon
  <2> HIDE DEF bad
  <2>. QED
    BY <2>1, LeastNat, Zenon
<1>2. i \in Nat /\ ~ \E g : WriteTo(g, s, str, i)
  BY Zenon
<1>3. i # 0
  <2> DEFINE g == [p \in 0 .. 0 |-> s]
  <2>1. g = [p \in 0 .. 0 |-> IF p = 0 THEN s ELSE Put(g[p - 1], str[p])]
    OBVIOUS
  <2>2. WriteTo(g, s, str, 0)
    BY <2>1, Zenon DEF WriteTo
  <2>. QED
    BY <1>2, <2>2, Zenon
<1>4. PICK g : WriteTo(g, s, str, i - 1)
  <2>1. i - 1 \in Nat /\ ~(i <= i - 1)
    BY <1>2, <1>3
  <2>2. i - 1 \notin bad
    BY <1>1, <2>1, Zenon
  <2>. QED
    BY <2>1, <2>2, Zenon
<1> DEFINE h == [p \in 0 .. i |-> IF p = i THEN Put(g[i - 1], str[i]) ELSE g[p]]
<1>5. ASSUME NEW p \in 0 .. i
      PROVE  h[p] = IF p = 0 THEN s ELSE Put(h[p - 1], str[p])
  <2>1. CASE p = i
    <3>1. h[p] = Put(g[i - 1], str[i]) /\ h[i - 1] = g[i - 1]
      BY <1>2, <1>3, <2>1
    <3> HIDE DEF h
    <3>. QED
      BY <1>3, <2>1, <3>1, Zenon
  <2>2. CASE p # i
    <3>1. p \in 0 .. i - 1 /\ h[p] = g[p] /\ (p # 0 => h[p - 1] = g[p - 1])
      BY <1>2, <2>2
    <3>2. g[p] = IF p = 0 THEN s ELSE Put(g[p - 1], str[p])
      BY <1>4, <3>1, Zenon DEF WriteTo
    <3> HIDE DEF h
    <3>. QED
      BY <3>1, <3>2, Zenon
  <2>. QED
    BY <2>1, <2>2, Zenon
<1>6. WriteTo(h, s, str, i)
  <2>1. h = [p \in 0 .. i |-> h[p]]
    BY Zenon
  <2> HIDE DEF h
  <2>. QED
    BY <1>5, <2>1, Zenon DEF WriteTo
<1>. QED
  BY <1>2, <1>6, Zenon

\* The same, place by place.
Screens(g, s, str, k) == g[0] = s /\ \A i \in 1 .. k : g[i] = Put(g[i - 1], str[i])

\* What PutAll returns is the last of them.
LEMMA PutAllIs ==
  ASSUME NEW s, NEW str, Len(str) \in Nat
  PROVE  \E g : Screens(g, s, str, Len(str)) /\ PutAll(s, str) = g[Len(str)]
<1> DEFINE at == CHOOSE g : WriteTo(g, s, str, Len(str))
<1>1. WriteTo(at, s, str, Len(str))
  <2>1. \E g : WriteTo(g, s, str, Len(str))
    BY WriteStates, Zenon
  <2>. QED
    BY <2>1, Zenon
<1>2. PutAll(s, str) = at[Len(str)]
  BY Zenon DEF PutAll, WriteTo
<1> HIDE DEF at
<1>3. Screens(at, s, str, Len(str))
  BY <1>1 DEF WriteTo, Screens
<1>. QED
  BY <1>2, <1>3, Zenon

\* The screens are determined by the first one and the string.
LEMMA SameScreens ==
  ASSUME NEW k \in Nat, NEW str, NEW g, NEW h, g[0] = h[0],
         \A i \in 1 .. k : g[i] = Put(g[i - 1], str[i]),
         \A i \in 1 .. k : h[i] = Put(h[i - 1], str[i])
  PROVE  g[k] = h[k]
<1> DEFINE bad == {i \in 0 .. k : g[i] # h[i]}
<1> SUFFICES ASSUME bad # {} PROVE FALSE
  OBVIOUS
<1>1. PICK i \in bad : \A j \in bad : i <= j
  <2>1. bad \in SUBSET Nat
    OBVIOUS
  <2> HIDE DEF bad
  <2>. QED
    BY <2>1, LeastNat, Zenon
<1>2. i \in 1 .. k /\ g[i] # h[i]
  OBVIOUS
<1>3. i - 1 \in 0 .. k /\ ~(i <= i - 1)
  BY <1>2
<1>4. g[i - 1] = h[i - 1]
  BY <1>1, <1>3, Zenon
<1>. QED
  BY <1>2, <1>4, Zenon

\* One string after another.
LEMMA PutAllCat ==
  ASSUME NEW s, NEW a \in Seq(Marks), NEW b \in Seq(Marks)
  PROVE  PutAll(s, a \o b) = PutAll(PutAll(s, a), b)
<1> DEFINE m == Len(a)
           n == Len(b)
           str == a \o b
<1>1. m \in Nat /\ n \in Nat /\ Len(str) = m + n
  OBVIOUS
<1>2. (\A i \in 1 .. m : str[i] = a[i]) /\ (\A i \in 1 .. n : str[m + i] = b[i])
  OBVIOUS
<1> HIDE DEF str
<1>3. PICK g : Screens(g, s, str, Len(str)) /\ PutAll(s, str) = g[Len(str)]
  BY <1>1, PutAllIs
<1>4. PICK ga : Screens(ga, s, a, m) /\ PutAll(s, a) = ga[m]
  BY <1>1, PutAllIs, Zenon
<1>5. PICK gb : Screens(gb, PutAll(s, a), b, n) /\ PutAll(PutAll(s, a), b) = gb[n]
  BY <1>1, PutAllIs, Zenon
<1> USE DEF Screens
<1> HIDE DEF m, n
<1>6. g[m] = ga[m]
  <2>1. \A i \in 1 .. m : g[i] = Put(g[i - 1], a[i])
    BY <1>1, <1>2, <1>3
  <2>. QED
    BY <1>1, <1>3, <1>4, <2>1, SameScreens
<1> DEFINE h == [i \in 0 .. n |-> g[m + i]]
<1>7. h[n] = gb[n]
  <2>1. h[0] = gb[0]
    BY <1>1, <1>4, <1>5, <1>6
  <2>2. ASSUME NEW i \in 1 .. n PROVE h[i] = Put(h[i - 1], b[i])
    <3>1. m + i \in 1 .. Len(str) /\ (m + i) - 1 = m + (i - 1)
      BY <1>1
    <3>2. g[m + i] = Put(g[m + (i - 1)], str[m + i])
      BY <1>3, <3>1, Zenon
    <3>3. str[m + i] = b[i]
      BY <1>2, Zenon
    <3>4. h[i] = g[m + i] /\ h[i - 1] = g[m + (i - 1)]
      BY <1>1
    <3> HIDE DEF h
    <3>. QED
      BY <3>2, <3>3, <3>4, Zenon
  <2> HIDE DEF h
  <2>. QED
    BY <1>1, <1>5, <2>1, <2>2, SameScreens
<1>8. h[n] = g[m + n]
  BY <1>1
<1>. QED
  BY <1>1, <1>3, <1>5, <1>7, <1>8, Zenon DEF str

\* A character or a backspace, on any screen.
LEMMA PutScreen ==
  ASSUME NEW s \in Screen, NEW c \in Cell \cup {BS}
  PROVE  Put(s, c) \in Screen
<1>1. s.row \in [Column -> Cell] /\ s.col \in Column /\ Size \in Nat
  BY SizeNat, Zenon DEF Screen
<1>2. CASE c = BS
  <2> DEFINE k == IF s.col = 0 THEN 0 ELSE s.col - 1
  <2>1. k \in Column
    BY <1>1 DEF Column
  <2> HIDE DEF k
  <2>2. Put(s, c) = [s EXCEPT !.col = k]
    BY <1>2, Zenon DEF Put, k, Screen
  <2>. QED
    BY <2>1, <2>2, Zenon DEF Screen
<1>3. CASE c # BS
  <2> DEFINE k == IF s.col < Size THEN s.col + 1 ELSE s.col
             r == [s.row EXCEPT ![s.col] = c]
  <2>1. k \in Column
    BY <1>1 DEF Column
  <2>2. r \in [Column -> Cell]
    BY <1>1, <1>3, Zenon
  <2> HIDE DEF k, r
  <2>3. Put(s, c) = [row |-> r, col |-> k]
    BY <1>3, Zenon DEF Put, k, r
  <2>. QED
    BY <2>1, <2>2, <2>3 DEF Screen
<1>. QED
  BY <1>2, <1>3, Zenon

\* Whatever is written, the cursor stays in the row.
LEMMA PutAllScreen ==
  ASSUME NEW s \in Screen, NEW str \in Seq(Cell \cup {BS})
  PROVE  PutAll(s, str) \in Screen
<1> DEFINE n == Len(str)
<1>1. n \in Nat /\ \A i \in 1 .. n : str[i] \in Cell \cup {BS}
  OBVIOUS
<1>2. PICK g : Screens(g, s, str, n) /\ PutAll(s, str) = g[n]
  BY <1>1, PutAllIs, Zenon
<1> USE DEF Screens
<1> HIDE DEF n
<1> DEFINE bad == {i \in 0 .. n : g[i] \notin Screen}
<1> SUFFICES ASSUME bad # {} PROVE FALSE
  BY <1>1, <1>2
<1>3. PICK i \in bad : \A j \in bad : i <= j
  <2>1. bad \in SUBSET Nat
    OBVIOUS
  <2> HIDE DEF bad
  <2>. QED
    BY <2>1, LeastNat, Zenon
<1>4. i \in 1 .. n /\ g[i] \notin Screen
  BY <1>1, <1>2
<1>5. i - 1 \in 0 .. n /\ ~(i <= i - 1)
  BY <1>1, <1>4
<1>6. g[i - 1] \in Screen
  BY <1>3, <1>5, Zenon
<1>7. g[i] = Put(g[i - 1], str[i]) /\ str[i] \in Cell \cup {BS}
  BY <1>1, <1>2, <1>4, Zenon
<1>8. g[i] \in Screen
  BY <1>6, <1>7, PutScreen, Zenon
<1>. QED
  BY <1>4, <1>8, Zenon

\* Screen s with the characters of t from the cursor on.
Typed(s, t, k, r) ==
  /\ r \in Screen /\ r.col = s.col + k
  /\ \A c \in Column : r.row[c] = IF s.col <= c /\ c < s.col + k THEN t[c - s.col + 1]
                                  ELSE s.row[c]

\* Characters that fit in the row are written side by side.
LEMMA PutText ==
  ASSUME NEW s \in Screen, NEW t \in Seq(Cell), s.col + Len(t) <= Size
  PROVE  Typed(s, t, Len(t), PutAll(s, t))
<1> DEFINE n == Len(t)
<1>1. n \in Nat /\ \A i \in 1 .. n : t[i] \in Cell
  OBVIOUS
<1>2. PICK g : Screens(g, s, t, n) /\ PutAll(s, t) = g[n]
  BY <1>1, PutAllIs, Zenon
<1> USE DEF Screens
<1>3. s.col \in Nat /\ s.col + n <= Size /\ Size \in Nat /\ s.row \in [Column -> Cell]
  BY SizeNat DEF Screen, Column
<1> HIDE DEF n
<1> DEFINE bad == {i \in 0 .. n : ~Typed(s, t, i, g[i])}
<1> SUFFICES ASSUME bad # {} PROVE FALSE
  BY <1>1, <1>2 DEF n
<1>4. PICK i \in bad : \A j \in bad : i <= j
  <2>1. bad \in SUBSET Nat
    OBVIOUS
  <2> HIDE DEF bad
  <2>. QED
    BY <2>1, LeastNat, Zenon
<1>5. i \in 0 .. n /\ ~Typed(s, t, i, g[i])
  BY Zenon
<1>6. i # 0
  <2>1. Typed(s, t, 0, s)
    BY <1>3, SMTT(20) DEF Typed, Column
  <2>. QED
    BY <1>2, <1>5, <2>1, Zenon
<1>7. i \in 1 .. n /\ i - 1 \in 0 .. n /\ ~(i <= i - 1)
  BY <1>1, <1>5, <1>6
<1>8. Typed(s, t, i - 1, g[i - 1])
  BY <1>4, <1>7, Zenon
<1> DEFINE p == g[i - 1]
           q == g[i]
<1>9. q = Put(p, t[i]) /\ t[i] \in Cell /\ t[i] # BS
  <2>1. BS \notin Cell
    BY ReadlineAssumption, Zenon DEF Cell
  <2>. QED
    BY <1>1, <1>2, <1>7, <2>1, Zenon
<1>10. p \in Screen /\ p.row \in [Column -> Cell] /\ p.col = s.col + (i - 1)
  BY <1>8, Zenon DEF Typed, Screen
<1>11. \A c \in Column : p.row[c] = IF s.col <= c /\ c < s.col + (i - 1) THEN t[c - s.col + 1]
                                    ELSE s.row[c]
  BY <1>8, Zenon DEF Typed
<1>12. q \in Screen
  BY <1>9, <1>10, PutScreen, Zenon
<1>13. p.col \in Column /\ p.col < Size
  BY <1>1, <1>3, <1>7, <1>10 DEF Column
<1>14. q.row = [p.row EXCEPT ![p.col] = t[i]] /\ q.col = p.col + 1
  BY <1>9, <1>13 DEF Put
<1> HIDE DEF p, q
<1>15. q.col = s.col + i
  BY <1>3, <1>7, <1>10, <1>14
<1>16. ASSUME NEW c \in Column
       PROVE  q.row[c] = IF s.col <= c /\ c < s.col + i THEN t[c - s.col + 1] ELSE s.row[c]
  <2>1. c \in Nat
    BY <1>3 DEF Column
  <2>2. CASE c = p.col
    <3>1. q.row[c] = t[i]
      BY <1>10, <1>14, <2>2, Zenon
    <3>2. s.col <= c /\ c < s.col + i /\ c - s.col + 1 = i
      BY <1>3, <1>7, <1>10, <2>2
    <3>. QED
      BY <3>1, <3>2, Zenon
  <2>3. CASE c # p.col
    <3>1. q.row[c] = p.row[c]
      BY <1>10, <1>14, <2>3, Zenon
    <3>2. (s.col <= c /\ c < s.col + i) <=> (s.col <= c /\ c < s.col + (i - 1))
      <4>1. \A a, k, x \in Nat : x # a + (k - 1)
              => ((a <= x /\ x < a + k) <=> (a <= x /\ x < a + (k - 1)))
        OBVIOUS
      <4>2. i \in Nat
        BY <1>1, <1>7
      <4>. QED
        BY <1>3, <1>10, <2>1, <2>3, <4>1, <4>2, Zenon
    <3>. QED
      BY <1>11, <3>1, <3>2, Zenon
  <2>. QED
    BY <2>2, <2>3, Zenon
<1>17. Typed(s, t, i, q)
  BY <1>12, <1>15, <1>16, Zenon DEF Typed
<1>. QED
  BY <1>5, <1>17, Zenon DEF q

\* Backspaces move the cursor and change nothing.
LEMMA PutBacks ==
  ASSUME NEW s \in Screen, NEW n \in Nat, n <= s.col
  PROVE  PutAll(s, Backs(n)) = [row |-> s.row, col |-> s.col - n]
<1> DEFINE str == Backs(n)
<1>1. Len(str) = n /\ \A i \in 1 .. n : str[i] = BS
  BY DEF Backs
<1> HIDE DEF str
<1>2. PICK g : Screens(g, s, str, n) /\ PutAll(s, str) = g[n]
  BY <1>1, PutAllIs, Zenon
<1> USE DEF Screens
<1>3. s.col \in Nat
  BY SizeNat DEF Screen, Column
<1> DEFINE at(i) == [row |-> s.row, col |-> s.col - i]
           bad == {i \in 0 .. n : g[i] # at(i)}
<1> SUFFICES ASSUME bad # {} PROVE FALSE
  BY <1>2 DEF str
<1>4. PICK i \in bad : \A j \in bad : i <= j
  <2>1. bad \in SUBSET Nat
    OBVIOUS
  <2> HIDE DEF bad
  <2>. QED
    BY <2>1, LeastNat, Zenon
<1>5. i \in 0 .. n /\ g[i] # at(i)
  BY Zenon
<1>6. i # 0
  <2>1. s = at(0)
    BY <1>3 DEF Screen
  <2>. QED
    BY <1>2, <1>5, <2>1, Zenon
<1>7. i \in 1 .. n /\ i - 1 \in 0 .. n /\ ~(i <= i - 1)
  BY <1>5, <1>6
<1>8. g[i - 1] = at(i - 1)
  BY <1>4, <1>7, Zenon
<1>9. g[i] = Put(at(i - 1), BS)
  BY <1>1, <1>2, <1>7, <1>8, Zenon
<1>10. s.col - (i - 1) # 0 /\ s.col - (i - 1) - 1 = s.col - i
  BY <1>3, <1>7
<1>11. Put(at(i - 1), BS) = [at(i - 1) EXCEPT !.col = s.col - i]
  BY <1>10, Zenon DEF Put
<1>. QED
  BY <1>5, <1>9, <1>11, Zenon

\* The last k characters before the cursor of s rubbed out.
Rubbed(s, k, r) ==
  /\ r \in Screen /\ r.col = s.col - k
  /\ \A c \in Column : r.row[c] = IF s.col - k <= c /\ c < s.col THEN Blank ELSE s.row[c]

\* "\b \b" rubs out one character.
LEMMA RubStep ==
  ASSUME NEW s \in Screen, NEW k \in Nat, k < s.col, NEW p, Rubbed(s, k, p)
  PROVE  Rubbed(s, k + 1, Put(Put(Put(p, BS), Blank), BS))
<1> DEFINE a == s.col
           b == p.col - 1
           row == [p.row EXCEPT ![b] = Blank]
           q == [row |-> row, col |-> b]
<1>1. /\ p \in Screen /\ p.row \in [Column -> Cell] /\ p.col \in Column
      /\ p.col = a - k /\ a \in Column /\ Size \in Nat
  BY SizeNat, Zenon DEF Rubbed, Screen
<1>2. b \in Column /\ b < Size /\ p.col # 0 /\ b + 1 = p.col /\ b = a - (k + 1) /\ a \in Nat
  BY <1>1 DEF Column
<1>3. Put(p, BS) = [row |-> p.row, col |-> b]
  BY <1>1, <1>2, Zenon DEF Put, Screen
<1>4. Put([row |-> p.row, col |-> b], Blank) = [row |-> row, col |-> p.col]
  BY <1>2, ReadlineAssumption, Zenon DEF Put
<1>5. Put([row |-> row, col |-> p.col], BS) = q
  BY <1>2, Zenon DEF Put
<1>6. q \in Screen /\ q.col = b /\ q.row = row
  <2>1. row \in [Column -> Cell]
    BY <1>1, <1>2, Zenon DEF Cell
  <2> HIDE DEF row, b
  <2>. QED
    BY <1>2, <2>1, Zenon DEF Screen
<1>7. row[b] = Blank /\ \A c \in Column \ {b} : row[c] = p.row[c]
  BY <1>1, <1>2, Zenon
<1>8. \A c \in Column : p.row[c] = IF a - k <= c /\ c < a THEN Blank ELSE s.row[c]
  BY Zenon DEF Rubbed
<1> HIDE DEF row, b, a, q
<1>9. ASSUME NEW c \in Column
      PROVE  row[c] = IF a - (k + 1) <= c /\ c < a THEN Blank ELSE s.row[c]
  <2>1. c \in Nat
    BY <1>1 DEF Column
  <2>2. CASE c = b
    <3>1. a - (k + 1) <= c /\ c < a
      BY <1>2, <2>1, <2>2
    <3>. QED
      BY <1>7, <2>2, <3>1, Zenon
  <2>3. CASE c # b
    <3>1. (a - (k + 1) <= c /\ c < a) <=> (a - k <= c /\ c < a)
      BY <1>2, <2>1, <2>3
    <3>. QED
      BY <1>7, <1>8, <2>3, <3>1, Zenon
  <2>. QED
    BY <2>2, <2>3, Zenon
<1>10. Rubbed(s, k + 1, q)
  BY <1>2, <1>6, <1>9, Zenon DEF Rubbed, a
<1>. QED
  BY <1>3, <1>4, <1>5, <1>10, Zenon

\* The characters of Rubout, three by three.
LEMMA RuboutIs ==
  ASSUME NEW n \in Nat
  PROVE  /\ Rubout(n) \in Seq(Cell \cup {BS}) /\ Len(Rubout(n)) = 3 * n
         /\ \A j \in 0 .. n - 1 : /\ Rubout(n)[3 * j + 1] = BS
                                  /\ Rubout(n)[3 * j + 2] = Blank
                                  /\ Rubout(n)[3 * j + 3] = BS
<1>1. 3 * n \in Nat
  OBVIOUS
<1> DEFINE m == 3 * n
<1>2. Rubout(n) = [i \in 1 .. m |-> IF i % 3 = 2 THEN Blank ELSE BS]
  BY Zenon DEF Rubout
<1> HIDE DEF m
<1>3. Rubout(n) \in Seq(Cell \cup {BS}) /\ Len(Rubout(n)) = m
  BY <1>1, <1>2 DEF Cell, m
<1>4. ASSUME NEW j \in 0 .. n - 1
      PROVE  /\ 3 * j + 1 \in 1 .. m /\ 3 * j + 2 \in 1 .. m /\ 3 * j + 3 \in 1 .. m
             /\ (3 * j + 1) % 3 = 1 /\ (3 * j + 2) % 3 = 2 /\ (3 * j + 3) % 3 = 0
  BY Z3 DEF m
<1>5. ASSUME NEW j \in 0 .. n - 1
      PROVE  /\ Rubout(n)[3 * j + 1] = BS /\ Rubout(n)[3 * j + 2] = Blank
             /\ Rubout(n)[3 * j + 3] = BS
  <2> DEFINE x == 3 * j + 1
             y == 3 * j + 2
             z == 3 * j + 3
  <2>1. /\ x \in 1 .. m /\ y \in 1 .. m /\ z \in 1 .. m
        /\ x % 3 = 1 /\ y % 3 = 2 /\ z % 3 = 0
    BY <1>4, Zenon
  <2> HIDE DEF x, y, z
  <2>2. Rubout(n)[x] = BS /\ Rubout(n)[y] = Blank /\ Rubout(n)[z] = BS
    BY <1>2, <2>1
  <2>. QED
    BY <2>2, Zenon DEF x, y, z
<1>. QED
  BY <1>3, <1>5, Zenon DEF m

\* As many of them as there are characters before the cursor.
LEMMA PutRubout ==
  ASSUME NEW s \in Screen, NEW n \in Nat, n <= s.col
  PROVE  Rubbed(s, n, PutAll(s, Rubout(n)))
<1> DEFINE str == Rubout(n)
           m == 3 * n
<1>1. /\ m \in Nat /\ Len(str) = m
      /\ \A j \in 0 .. n - 1 : /\ str[3 * j + 1] = BS /\ str[3 * j + 2] = Blank
                               /\ str[3 * j + 3] = BS
  <2>1. m \in Nat
    OBVIOUS
  <2>. QED
    BY <2>1, RuboutIs, Zenon
<1> HIDE DEF str, m
<1>2. PICK g : Screens(g, s, str, m) /\ PutAll(s, str) = g[m]
  BY <1>1, PutAllIs, Zenon
<1>3. s.col \in Nat /\ s.row \in [Column -> Cell]
  BY SizeNat DEF Screen, Column
<1> DEFINE bad == {k \in 0 .. n : ~Rubbed(s, k, g[3 * k])}
<1> SUFFICES ASSUME bad # {} PROVE FALSE
  BY <1>2 DEF str, m
<1>4. PICK k \in bad : \A j \in bad : k <= j
  <2>1. bad \in SUBSET Nat
    OBVIOUS
  <2> HIDE DEF bad
  <2>. QED
    BY <2>1, LeastNat, Zenon
<1>5. k \in 0 .. n /\ ~Rubbed(s, k, g[3 * k])
  BY Zenon
<1>6. k # 0
  <2>1. Rubbed(s, 0, s)
    BY <1>3 DEF Rubbed, Column
  <2>2. g[3 * 0] = s
    BY <1>2 DEF Screens
  <2>. QED
    BY <1>5, <2>1, <2>2, Zenon
<1> DEFINE j == k - 1
<1>7. /\ j \in 0 .. n /\ j \in 0 .. n - 1 /\ ~(k <= j) /\ j + 1 = k /\ j \in Nat /\ j < s.col
  BY <1>3, <1>5, <1>6
<1>8. Rubbed(s, j, g[3 * j])
  BY <1>4, <1>7, Zenon
<1> DEFINE w == 3 * j
           x == 3 * j + 1
           y == 3 * j + 2
           z == 3 * j + 3
<1>9. /\ x \in 1 .. m /\ y \in 1 .. m /\ z \in 1 .. m
      /\ x - 1 = w /\ y - 1 = x /\ z - 1 = y /\ z = 3 * k
  BY <1>7 DEF m
<1>10. str[x] = BS /\ str[y] = Blank /\ str[z] = BS
  BY <1>1, <1>7, Zenon
<1>11. Rubbed(s, j, g[w])
  BY <1>8, Zenon
<1> HIDE DEF j, w, x, y, z
<1>12. g[x] = Put(g[w], BS) /\ g[y] = Put(g[x], Blank) /\ g[z] = Put(g[y], BS)
  BY <1>2, <1>9, <1>10, Zenon DEF Screens
<1>13. Rubbed(s, j + 1, g[z])
  BY <1>7, <1>11, <1>12, RubStep, Zenon
<1>. QED
  BY <1>5, <1>7, <1>9, <1>13, Zenon

\* Lines and other strings that are written.
LEMMA LineMarks ==
  ASSUME NEW t \in Lines
  PROVE  t \in Seq(Marks) /\ Len(t) \in Nat
<1>1. t \in [1 .. Len(t) -> Cell] /\ Len(t) \in Nat
  BY DEF Lines
<1>2. t \in [1 .. Len(t) -> Marks]
  BY <1>1, Zenon DEF Marks
<1>. QED
  BY <1>1, <1>2

\* Backspaces are marks.
LEMMA BackMarks ==
  ASSUME NEW n \in Nat
  PROVE  Backs(n) \in Seq(Marks)
BY DEF Backs, Marks

\* One blank is a line.
LEMMA BlankLine == <<Blank>> \in Lines /\ Len(<<Blank>>) = 1 /\ <<Blank>>[1] = Blank
BY DEF Lines, Cell

\* What redraw_tail and erase_line write are marks.
LEMMA TailMarks ==
  ASSUME NEW b \in Arrays, NEW c \in Nat, NEW l \in Nat, c <= l, l <= Size
  PROVE  /\ Part(b, c, l) \in Lines /\ Part(b, c, l) \in Seq(Marks)
         /\ Part(b, c, l) \o <<Blank>> \in Seq(Marks)
         /\ RedrawTail(b, c, l) \in Seq(Marks) /\ EraseLine(b, c, l) \in Seq(Marks)
<1>1. Part(b, c, l) \in Lines
  BY PartSeq, Zenon
<1>2. Part(b, c, l) \in Seq(Marks) /\ <<Blank>> \in Seq(Marks)
  BY <1>1, LineMarks, BlankLine, Zenon
<1>3. l - c + 1 \in Nat
  OBVIOUS
<1>4. Backs(l - c + 1) \in Seq(Marks) /\ Rubout(l) \in Seq(Marks)
  BY <1>3, BackMarks, RuboutIs, Zenon DEF Marks
<1> DEFINE p == Part(b, c, l)
           k == Backs(l - c + 1)
           e == Rubout(l)
<1> HIDE DEF p, k, e
<1>5. p \o <<Blank>> \in Seq(Marks)
  BY <1>2 DEF p
<1>6. (p \o <<Blank>>) \o k \in Seq(Marks) /\ p \o e \in Seq(Marks)
  BY <1>2, <1>4, <1>5 DEF p, k, e
<1>. QED
  BY <1>1, <1>2, <1>5, <1>6, Zenon DEF RedrawTail, EraseLine, p, k, e

\* Screen r is s with the characters c .. l - 1 of b at their place.
Over(s, b, c, l, r) ==
  /\ r \in Screen /\ r.col = l
  /\ \A x \in Column : r.row[x] = IF c <= x /\ x < l THEN b[x] ELSE s.row[x]

\* The characters c .. l - 1 of b, written at their place.
LEMMA PutPart ==
  ASSUME NEW s \in Screen, NEW b \in Arrays, NEW c \in Nat, NEW l \in Nat,
         c <= l, l <= Size, s.col = c
  PROVE  Over(s, b, c, l, PutAll(s, Part(b, c, l)))
<1> DEFINE t == Part(b, c, l)
           r == PutAll(s, t)
<1>1. /\ t \in Lines /\ Len(t) = l - c /\ \A k \in 1 .. l - c : t[k] = b[c + k - 1]
  BY PartSeq, Zenon
<1> HIDE DEF t
<1>2. Typed(s, t, Len(t), r)
  <2>1. s.col + Len(t) <= Size
    BY <1>1, SizeNat
  <2>. QED
    BY <1>1, <2>1, PutText, Zenon DEF Lines
<1> HIDE DEF r
<1>3. /\ r \in Screen /\ r.col = c + (l - c)
      /\ \A x \in Column : r.row[x] = IF c <= x /\ x < c + (l - c) THEN t[x - c + 1] ELSE s.row[x]
  BY <1>1, <1>2, Zenon DEF Typed
<1>4. c + (l - c) = l
  OBVIOUS
<1>5. ASSUME NEW x \in Column PROVE r.row[x] = IF c <= x /\ x < l THEN b[x] ELSE s.row[x]
  <2>1. x \in Nat
    BY SizeNat DEF Column
  <2>2. ASSUME c <= x, x < l PROVE t[x - c + 1] = b[x]
    <3> DEFINE k == x - c + 1
    <3>1. k \in 1 .. l - c /\ c + k - 1 = x
      BY <2>1, <2>2
    <3> HIDE DEF k
    <3>2. t[k] = b[x]
      BY <1>1, <3>1, Zenon
    <3>. QED
      BY <3>2, Zenon DEF k
  <2>. QED
    BY <1>3, <1>4, <2>2, Zenon
<1>. QED
  BY <1>3, <1>4, <1>5, Zenon DEF Over, r, t

\* Screen s shows the first l characters of b, with the cursor at c.
Shows(s, b, c, l) ==
  /\ s \in Screen /\ s.col = c
  /\ \A x \in Column : s.row[x] = IF x < l THEN b[x] ELSE Blank

\* Backspaces on it.
LEMMA ShowsBack ==
  ASSUME NEW s, NEW b, NEW c \in Nat, NEW l, NEW n \in Nat, n <= c, Shows(s, b, c, l)
  PROVE  Shows(PutAll(s, Backs(n)), b, c - n, l)
<1>1. s \in Screen /\ s.col = c /\ s.row \in [Column -> Cell] /\ c \in Column
  BY Zenon DEF Shows, Screen
<1> DEFINE r == [row |-> s.row, col |-> c - n]
<1>2. PutAll(s, Backs(n)) = r
  BY <1>1, PutBacks, Zenon
<1>3. c - n \in Column
  BY <1>1, SizeNat DEF Column
<1>4. r \in Screen
  BY <1>1, <1>3, Zenon DEF Screen
<1>5. r.row = s.row /\ r.col = c - n
  BY Zenon
<1> HIDE DEF r
<1>6. Shows(r, b, c - n, l)
  BY <1>4, <1>5, Zenon DEF Shows
<1>. QED
  BY <1>2, <1>6, Zenon

\* redraw_tail, when the row shows b up to the cursor and nothing behind place l.
LEMMA Redrawn ==
  ASSUME NEW s \in Screen, NEW b \in Arrays, NEW c \in Nat, NEW l \in Nat,
         c <= l, l < Size, s.col = c,
         \A x \in Column : (x < c => s.row[x] = b[x]) /\ (x > l => s.row[x] = Blank)
  PROVE  Shows(PutAll(s, RedrawTail(b, c, l)), b, c, l)
<1> DEFINE p == Part(b, c, l)
           k == Backs(l - c + 1)
           r == PutAll(s, p)
           q == PutAll(r, <<Blank>>)
<1>1. l <= Size /\ l + 1 <= Size /\ l - c + 1 \in Nat /\ l - c + 1 <= l + 1 /\ l + 1 \in Nat
      /\ (l + 1) - (l - c + 1) = c
  BY SizeNat
<1>2. /\ p \in Seq(Marks) /\ <<Blank>> \in Seq(Marks)
      /\ p \o <<Blank>> \in Seq(Marks) /\ k \in Seq(Marks)
  BY <1>1, TailMarks, BackMarks, BlankLine, LineMarks, Zenon
<1>3. PutAll(s, RedrawTail(b, c, l)) = PutAll(q, k)
  <2>1. PutAll(s, p \o <<Blank>>) = q
    BY <1>2, PutAllCat, ZenonT(30)
  <2>2. PutAll(s, (p \o <<Blank>>) \o k) = PutAll(PutAll(s, p \o <<Blank>>), k)
    BY <1>2, PutAllCat, ZenonT(30)
  <2>. QED
    BY <2>1, <2>2, Zenon DEF RedrawTail
<1>4. /\ r \in Screen /\ r.col = l
      /\ \A x \in Column : r.row[x] = IF c <= x /\ x < l THEN b[x] ELSE s.row[x]
  <2>1. Over(s, b, c, l, r)
    BY <1>1, PutPart, Zenon
  <2>. QED
    BY <2>1, Zenon DEF Over
<1> HIDE DEF r
<1>5. /\ q \in Screen /\ q.col = l + 1
      /\ \A x \in Column : q.row[x] = IF l <= x /\ x < l + 1 THEN <<Blank>>[x - l + 1] ELSE r.row[x]
  <2>1. r.col + Len(<<Blank>>) <= Size /\ Len(<<Blank>>) = 1
    BY <1>1, <1>4, BlankLine, Zenon
  <2>2. Typed(r, <<Blank>>, Len(<<Blank>>), q)
    BY <1>4, <2>1, BlankLine, PutText, Zenon DEF Lines
  <2> HIDE DEF q
  <2>3. Typed(r, <<Blank>>, 1, q)
    BY <2>1, <2>2, Zenon
  <2>. QED
    BY <1>4, <2>3, Zenon DEF Typed
<1> HIDE DEF q
<1>6. ASSUME NEW x \in Column PROVE q.row[x] = IF x < l THEN b[x] ELSE Blank
  <2>1. x \in Nat
    BY SizeNat DEF Column
  <2>2. CASE x < c
    BY <1>4, <1>5, <2>1, <2>2
  <2>3. CASE c <= x /\ x < l
    BY <1>4, <1>5, <2>1, <2>3
  <2>4. CASE x = l
    <3>1. q.row[x] = <<Blank>>[1]
      BY <1>5, <2>4
    <3>. QED
      BY <2>4, <3>1
  <2>5. CASE x > l
    BY <1>4, <1>5, <2>1, <2>5
  <2>. QED
    BY <2>1, <2>2, <2>3, <2>4, <2>5
<1>7. Shows(q, b, l + 1, l)
  BY <1>5, <1>6, Zenon DEF Shows
<1>8. Shows(PutAll(q, k), b, (l + 1) - (l - c + 1), l)
  BY <1>1, <1>7, ShowsBack, Zenon
<1>. QED
  BY <1>1, <1>3, <1>8, Zenon

\* The invariant of the screen.
SInv == scr \in Screen /\ torn \in BOOLEAN /\ (torn \/ Shows(scr, buf, cur, len))

\* What the steps need of the editor's invariant.
LEMMA EditTypes ==
  ASSUME RInv
  PROVE  /\ buf \in Arrays /\ DOMAIN buf = 0 .. Size - 1
         /\ len \in Nat /\ cur \in Nat /\ cur <= len /\ len <= Size - 1 /\ len < Size
         /\ len + 1 \in Nat /\ len + 1 <= Size /\ cur <= Size /\ Size \in Nat
BY SizeNat DEF RInv, Arrays

\* A character typed: the rest of the line is written again and stepped back over.
LEMMA InsertShows ==
  ASSUME RInv, RInv', SInv, NEW c \in Chars, Insert(c)
  PROVE  SInv'
<1> DEFINE b == buf'
           p == Part(b, cur, len + 1)
           k == Backs(len - cur)
           r == PutAll(scr, p)
<1>1. /\ buf \in Arrays /\ len \in Nat /\ cur \in Nat /\ cur <= len /\ len < Size
      /\ len + 1 \in Nat /\ len + 1 <= Size /\ cur <= Size /\ Size \in Nat
      /\ DOMAIN buf = 0 .. Size - 1
  BY EditTypes, Zenon
<1>2. /\ b = [j \in DOMAIN buf |-> IF j = cur THEN c
                                   ELSE IF j > cur /\ j <= len THEN buf[j - 1] ELSE buf[j]]
      /\ len' = len + 1 /\ cur' = cur + 1 /\ scr' = PutAll(scr, p \o k) /\ torn' = torn
  BY Zenon DEF Insert
<1>3. b \in Arrays
  BY Zenon DEF RInv
<1> HIDE DEF b
<1>4. /\ cur <= len + 1 /\ len - cur \in Nat /\ len - cur <= len + 1
      /\ (len + 1) - (len - cur) = cur + 1
  BY <1>1
<1>5. p \in Seq(Marks) /\ k \in Seq(Marks) /\ p \o k \in Seq(Marks)
  <2>1. p \in Seq(Marks)
    BY <1>1, <1>3, <1>4, TailMarks, Zenon
  <2>2. k \in Seq(Marks)
    BY <1>4, BackMarks, Zenon
  <2> HIDE DEF p, k
  <2>. QED
    BY <2>1, <2>2
<1>6. scr' = PutAll(r, k)
  BY <1>2, <1>5, PutAllCat, Zenon
<1>7. scr' \in Screen
  BY <1>2, <1>5, PutAllScreen, Zenon DEF SInv, Marks
<1>8. ASSUME ~torn PROVE Shows(scr', b, cur + 1, len + 1)
  <2>1. /\ scr \in Screen /\ scr.col = cur
        /\ \A x \in Column : scr.row[x] = IF x < len THEN buf[x] ELSE Blank
    BY <1>8, Zenon DEF SInv, Shows
  <2>2. /\ r \in Screen /\ r.col = len + 1
        /\ \A x \in Column : r.row[x] = IF cur <= x /\ x < len + 1 THEN b[x] ELSE scr.row[x]
    <3>1. Over(scr, b, cur, len + 1, r)
      BY <1>1, <1>3, <1>4, <2>1, PutPart, Zenon
    <3>. QED
      BY <3>1, Zenon DEF Over
  <2> HIDE DEF r
  <2>3. ASSUME NEW x \in Column PROVE r.row[x] = IF x < len + 1 THEN b[x] ELSE Blank
    <3>1. x \in Nat
      BY <1>1 DEF Column
    <3>2. CASE x < cur
      <4>1. b[x] = buf[x]
        BY <1>1, <1>2, <3>1, <3>2
      <4>2. r.row[x] = scr.row[x] /\ scr.row[x] = buf[x] /\ x < len + 1
        BY <1>1, <2>1, <2>2, <3>1, <3>2
      <4>. QED
        BY <4>1, <4>2, Zenon
    <3>3. CASE cur <= x /\ x < len + 1
      BY <2>2, <3>3, Zenon
    <3>4. CASE ~(x < len + 1)
      <4>1. r.row[x] = scr.row[x] /\ scr.row[x] = Blank
        BY <1>1, <2>1, <2>2, <3>1, <3>4
      <4>. QED
        BY <3>4, <4>1, Zenon
    <3>. QED
      BY <1>1, <3>1, <3>2, <3>3, <3>4
  <2>4. Shows(r, b, len + 1, len + 1)
    BY <2>2, <2>3, Zenon DEF Shows
  <2>5. Shows(PutAll(r, k), b, (len + 1) - (len - cur), len + 1)
    BY <1>1, <1>4, <2>4, ShowsBack, Zenon
  <2>. QED
    BY <1>4, <1>6, <2>5, Zenon
<1>. QED
  BY <1>2, <1>7, <1>8, Zenon DEF SInv, b

\* A character of the line goes: what Removed leaves.
LEMMA RemovedIs ==
  ASSUME RInv, NEW c \in Nat, c < len
  PROVE  \A x \in Nat : x < c => Removed(c)[x] = buf[x]
<1>1. DOMAIN buf = 0 .. Size - 1 /\ len < Size /\ len \in Nat /\ Size \in Nat
  BY EditTypes, Zenon
<1>. QED
  BY <1>1 DEF Removed

\* Backspace: one step back, then the tail and a blank over what was last.
LEMMA BackspaceShows ==
  ASSUME RInv, RInv', SInv, Backspace
  PROVE  SInv'
<1> DEFINE b == buf'
           c == cur - 1
           l == len - 1
           t == RedrawTail(b, c, l)
           r == PutAll(scr, <<BS>>)
<1>1. /\ len \in Nat /\ cur \in Nat /\ cur <= len /\ len < Size /\ cur > 0 /\ Size \in Nat
  BY EditTypes, Zenon DEF Backspace
<1>2. /\ b = Removed(c) /\ len' = l /\ cur' = c /\ torn' = torn
      /\ scr' = PutAll(scr, <<BS>> \o t)
  BY Zenon DEF Backspace
<1>3. b \in Arrays
  BY Zenon DEF RInv
<1>4. c \in Nat /\ l \in Nat /\ c <= l /\ l < Size /\ l <= Size /\ c < len
  BY <1>1
<1>5. /\ <<BS>> = Backs(1) /\ <<BS>> \in Seq(Marks)
  BY DEF Backs, Marks
<1>6. t \in Seq(Marks)
  BY <1>3, <1>4, TailMarks, Zenon
<1>7. \A x \in Nat : x < c => b[x] = buf[x]
  BY <1>2, <1>4, RemovedIs, Zenon
<1> HIDE DEF b, t
<1>8. scr' = PutAll(r, t)
  BY <1>2, <1>5, <1>6, PutAllCat, Zenon
<1>9. scr' \in Screen
  <2>1. <<BS>> \o t \in Seq(Marks)
    BY <1>5, <1>6
  <2>. QED
    BY <1>2, <2>1, PutAllScreen, Zenon DEF SInv, Marks
<1>10. ASSUME ~torn PROVE Shows(scr', b, c, l)
  <2>1. Shows(scr, buf, cur, len)
    BY <1>10, Zenon DEF SInv
  <2>2. Shows(r, buf, cur - 1, len)
    BY <1>1, <1>5, <2>1, ShowsBack
  <2> HIDE DEF r
  <2>3. /\ r \in Screen /\ r.col = c
        /\ \A x \in Column : r.row[x] = IF x < len THEN buf[x] ELSE Blank
    BY <2>2, Zenon DEF Shows
  <2>4. \A x \in Column : (x < c => r.row[x] = b[x]) /\ (x > l => r.row[x] = Blank)
    <3>1. Column \subseteq Nat
      BY <1>1 DEF Column
    <3>. QED
      BY <1>1, <1>4, <1>7, <2>3, <3>1
  <2> HIDE DEF c, l
  <2>. QED
    BY <1>3, <1>4, <1>8, <2>3, <2>4, Redrawn, Zenon DEF t
<1>. QED
  BY <1>2, <1>9, <1>10, Zenon DEF SInv, b

\* Delete: the tail and a blank over what was last.
LEMMA DeleteShows ==
  ASSUME RInv, RInv', SInv, Delete
  PROVE  SInv'
<1> DEFINE b == buf'
           l == len - 1
           t == RedrawTail(b, cur, l)
<1>1. /\ len \in Nat /\ cur \in Nat /\ cur < len /\ len < Size /\ Size \in Nat
  BY EditTypes, Zenon DEF Delete
<1>2. /\ b = Removed(cur) /\ len' = l /\ cur' = cur /\ torn' = torn
      /\ scr' = PutAll(scr, t)
  BY Zenon DEF Delete
<1>3. b \in Arrays
  BY Zenon DEF RInv
<1>4. l \in Nat /\ cur <= l /\ l < Size /\ l <= Size
  BY <1>1
<1>5. t \in Seq(Marks)
  BY <1>1, <1>3, <1>4, TailMarks, Zenon
<1>6. \A x \in Nat : x < cur => b[x] = buf[x]
  BY <1>1, <1>2, RemovedIs, Zenon
<1> HIDE DEF b
<1>7. scr' \in Screen
  BY <1>2, <1>5, PutAllScreen, Zenon DEF SInv, Marks
<1>8. ASSUME ~torn PROVE Shows(scr', b, cur, l)
  <2>1. /\ scr \in Screen /\ scr.col = cur
        /\ \A x \in Column : scr.row[x] = IF x < len THEN buf[x] ELSE Blank
    BY <1>8, Zenon DEF SInv, Shows
  <2>2. \A x \in Column : (x < cur => scr.row[x] = b[x]) /\ (x > l => scr.row[x] = Blank)
    <3>1. Column \subseteq Nat
      BY <1>1 DEF Column
    <3>. QED
      BY <1>1, <1>6, <2>1, <3>1
  <2> HIDE DEF l
  <2>. QED
    BY <1>1, <1>2, <1>3, <1>4, <2>1, <2>2, Redrawn, Zenon
<1>. QED
  BY <1>2, <1>7, <1>8, Zenon DEF SInv, b

\* KEY_LEFT and KEY_HOME step back over the line.
LEMMA BackShows ==
  ASSUME RInv, SInv, NEW c \in Nat, Back(c)
  PROVE  SInv'
<1>1. /\ cur \in Nat /\ c < cur /\ cur' = c /\ scr' = PutAll(scr, Backs(cur - c))
      /\ UNCHANGED <<buf, len, torn>>
  BY EditTypes, Zenon DEF Back
<1>2. cur - c \in Nat /\ cur - c <= cur /\ cur - (cur - c) = c
  BY <1>1
<1>3. scr' \in Screen
  BY <1>1, <1>2, BackMarks, PutAllScreen, Zenon DEF SInv, Marks
<1>4. ASSUME ~torn PROVE Shows(scr', buf, c, len)
  <2>1. Shows(scr, buf, cur, len)
    BY <1>4, Zenon DEF SInv
  <2>2. Shows(PutAll(scr, Backs(cur - c)), buf, cur - (cur - c), len)
    BY <1>1, <1>2, <2>1, ShowsBack, Zenon
  <2>. QED
    BY <1>1, <1>2, <2>2, Zenon
<1>. QED
  BY <1>1, <1>3, <1>4, Zenon DEF SInv

\* KEY_RIGHT and KEY_END write the characters the cursor passes.
LEMMA ForthShows ==
  ASSUME RInv, SInv, NEW c \in Nat, c <= len, Forth(c)
  PROVE  SInv'
<1>1. /\ cur \in Nat /\ c > cur /\ cur' = c /\ scr' = PutAll(scr, Part(buf, cur, c))
      /\ UNCHANGED <<buf, len, torn>> /\ buf \in Arrays /\ len \in Nat /\ len < Size /\ Size \in Nat
  BY EditTypes, Zenon DEF Forth
<1>2. cur <= c /\ c <= Size
  BY <1>1
<1>3. scr' \in Screen
  <2>1. Part(buf, cur, c) \in Seq(Marks)
    BY <1>1, <1>2, TailMarks, Zenon
  <2>. QED
    BY <1>1, <2>1, PutAllScreen, Zenon DEF SInv, Marks
<1>4. ASSUME ~torn PROVE Shows(scr', buf, c, len)
  <2>1. /\ scr \in Screen /\ scr.col = cur
        /\ \A x \in Column : scr.row[x] = IF x < len THEN buf[x] ELSE Blank
    BY <1>4, Zenon DEF SInv, Shows
  <2> DEFINE r == PutAll(scr, Part(buf, cur, c))
  <2>2. /\ r \in Screen /\ r.col = c
        /\ \A x \in Column : r.row[x] = IF cur <= x /\ x < c THEN buf[x] ELSE scr.row[x]
    <3>1. Over(scr, buf, cur, c, r)
      BY <1>1, <1>2, <2>1, PutPart, Zenon
    <3>. QED
      BY <3>1, Zenon DEF Over
  <2> HIDE DEF r
  <2>3. \A x \in Column : r.row[x] = IF x < len THEN buf[x] ELSE Blank
    <3>1. Column \subseteq Nat
      BY <1>1 DEF Column
    <3>. QED
      BY <1>1, <2>1, <2>2, <3>1
  <2>4. Shows(r, buf, c, len)
    BY <2>2, <2>3, Zenon DEF Shows
  <2>. QED
    BY <1>1, <2>4, Zenon DEF r
<1>. QED
  BY <1>1, <1>3, <1>4, Zenon DEF SInv

\* The old line is rubbed out and the new one written.
LEMMA ShowShows ==
  ASSUME RInv, SInv, NEW line \in Lines, Len(line) <= Size - 1, Show(line), torn' = torn
  PROVE  SInv'
<1> DEFINE n == Len(line)
           b == buf'
           p == Part(buf, cur, len)
           q == PutAll(scr, EraseLine(buf, cur, len))
           r == PutAll(q, line)
<1>1. /\ buf \in Arrays /\ len \in Nat /\ cur \in Nat /\ cur <= len /\ len < Size /\ len <= Size
      /\ Size \in Nat /\ DOMAIN buf = 0 .. Size - 1
  BY EditTypes
<1>2. n \in Nat /\ line \in Seq(Cell) /\ line \in Seq(Marks) /\ n < Size /\ ~(n >= Size)
  BY <1>1, LineMarks DEF Lines
<1>3. SubSeq(line, 1, n) = line
  BY <1>2
<1>4. /\ b = [j \in 0 .. Size - 1 |-> IF j < n THEN line[j + 1] ELSE buf[j]]
      /\ len' = n /\ cur' = n /\ scr' = r
  BY <1>1, <1>2, <1>3, Zenon DEF Show
<1>5. /\ p \in Seq(Marks) /\ EraseLine(buf, cur, len) \in Seq(Marks)
      /\ Rubout(len) \in Seq(Marks) /\ EraseLine(buf, cur, len) = p \o Rubout(len)
  BY <1>1, TailMarks, RuboutIs, Zenon DEF Marks, EraseLine
<1>6. q = PutAll(PutAll(scr, p), Rubout(len))
  BY <1>5, PutAllCat
<1> HIDE DEF n, b, p
<1>7. scr' \in Screen
  <2>1. q \in Screen
    BY <1>5, PutAllScreen, Zenon DEF SInv, Marks
  <2> HIDE DEF q
  <2>. QED
    BY <1>2, <1>4, <2>1, PutAllScreen, Zenon DEF Marks
<1>8. ASSUME ~torn PROVE Shows(r, b, n, n)
  <2>1. /\ scr \in Screen /\ scr.col = cur
        /\ \A x \in Column : scr.row[x] = IF x < len THEN buf[x] ELSE Blank
    BY <1>8, Zenon DEF SInv, Shows
  <2> DEFINE o == PutAll(scr, p)
  <2>2. /\ o \in Screen /\ o.col = len
        /\ \A x \in Column : o.row[x] = IF cur <= x /\ x < len THEN buf[x] ELSE scr.row[x]
    <3>1. Over(scr, buf, cur, len, o)
      BY <1>1, <2>1, PutPart, Zenon DEF p
    <3>. QED
      BY <3>1, Zenon DEF Over
  <2> HIDE DEF o
  <2>3. Rubbed(o, len, q)
    <3>1. Rubbed(o, len, PutAll(o, Rubout(len)))
      BY <1>1, <2>2, PutRubout
    <3>. QED
      BY <1>6, <3>1, Zenon DEF o
  <2> HIDE DEF q
  <2>4. q \in Screen /\ q.col = 0 /\ \A x \in Column : q.row[x] = Blank
    <3>1. /\ q \in Screen /\ q.col = len - len
          /\ \A x \in Column : q.row[x] = IF len - len <= x /\ x < len THEN Blank ELSE o.row[x]
      BY <2>2, <2>3, Zenon DEF Rubbed
    <3>2. \A x \in Column : x \in Nat
      BY <1>1 DEF Column
    <3>3. len - len = 0
      BY <1>1
    <3>4. ASSUME NEW x \in Column PROVE q.row[x] = Blank
      BY <1>1, <2>1, <2>2, <3>1, <3>2, <3>3
    <3>. QED
      BY <3>1, <3>3, <3>4, Zenon
  <2>5. Typed(q, line, n, r)
    <3>1. q.col + n <= Size
      BY <1>1, <1>2, <2>4
    <3>. QED
      BY <1>2, <2>4, <3>1, PutText, Zenon DEF n
  <2> HIDE DEF r
  <2>6. /\ r \in Screen /\ r.col = 0 + n
        /\ \A x \in Column : r.row[x] = IF 0 <= x /\ x < 0 + n THEN line[x - 0 + 1] ELSE Blank
    BY <2>4, <2>5, Zenon DEF Typed
  <2>7. ASSUME NEW x \in Column PROVE r.row[x] = IF x < n THEN b[x] ELSE Blank
    <3>1. x \in Nat /\ 0 + n = n /\ x - 0 = x /\ (x < n => x \in 0 .. Size - 1)
      BY <1>1, <1>2 DEF Column
    <3>2. x < n => b[x] = line[x + 1]
      BY <1>4, <3>1, Zenon
    <3>. QED
      BY <2>6, <3>1, <3>2
  <2>8. r.col = n
    BY <1>2, <2>6
  <2>. QED
    BY <2>6, <2>7, <2>8, Zenon DEF Shows
<1>. QED
  BY <1>4, <1>7, <1>8, Zenon DEF SInv, b

\* KEY_UP and KEY_DOWN show a line of the ring, or the one kept.
LEMMA HistoryShows ==
  ASSUME RInv, SInv, Up \/ Down
  PROVE  SInv'
<1>1. CASE Up
  <2> DEFINE i == browse - 1
             line == hist[i % HistMax]
  <2>1. /\ browse \in Nat /\ total \in Nat /\ browse <= total /\ browse > Oldest
        /\ Oldest \in Nat /\ Oldest >= total - HistMax
    BY <1>1, SizeNat DEF RInv, Up, Oldest
  <2>2. i \in Nat /\ i < total /\ i >= total - HistMax
    BY <2>1, SizeNat
  <2>3. Show(line) /\ torn' = torn
    BY <1>1, Zenon DEF Up
  <2> HIDE DEF i
  <2>4. line \in Lines /\ Len(line) <= Size - 1
    BY <2>2, InRing, Zenon
  <2> HIDE DEF line
  <2>. QED
    BY <2>3, <2>4, ShowShows, Zenon
<1>2. CASE Down
  <2> DEFINE i == browse + 1
             line == IF i = total THEN saved ELSE hist[i % HistMax]
  <2>1. browse \in Nat /\ total \in Nat /\ browse < total /\ browse >= total - HistMax
    BY <1>2, SizeNat DEF RInv, Down
  <2>2. i \in Nat /\ i <= total /\ i >= total - HistMax
    BY <2>1, SizeNat
  <2>3. Show(line) /\ torn' = torn
    BY <1>2, Zenon DEF Down
  <2> HIDE DEF i
  <2>4. line \in Lines /\ Len(line) <= Size - 1
    <3>1. CASE i = total
      BY <3>1, Zenon DEF RInv
    <3>2. CASE i # total
      <4>1. i < total
        BY <2>1, <2>2, <3>2
      <4>. QED
        BY <2>2, <3>2, <4>1, InRing, Zenon
    <3>. QED
      BY <3>1, <3>2, Zenon
  <2> HIDE DEF line
  <2>. QED
    BY <2>3, <2>4, ShowShows, Zenon
<1>. QED
  BY <1>1, <1>2, Zenon

\* The row of a fresh prompt shows the empty line.
LEMMA ClearShows == Clear \in Screen /\ \A b : Shows(Clear, b, 0, 0)
<1>1. 0 \in Column /\ \A x \in Column : ~(x < 0)
  BY SizeNat DEF Column
<1>2. Clear \in Screen /\ Clear.col = 0 /\ \A x \in Column : Clear.row[x] = Blank
  BY <1>1, Zenon DEF Clear, Screen, Cell
<1>. QED
  BY <1>1, <1>2, Zenon DEF Shows

\* Every step keeps what the screen shows.
LEMMA NextShows ==
  ASSUME RInv, SInv, [Next]_vars
  PROVE  SInv'
<1>1. RInv' /\ cur \in Nat /\ len \in Nat /\ cur <= len
  BY NextKeeps, EditTypes, Zenon
<1>2. CASE \E c \in Chars : Insert(c)
  BY <1>1, <1>2, InsertShows, Zenon
<1>3. CASE Backspace
  BY <1>1, <1>3, BackspaceShows, Zenon
<1>4. CASE Delete
  BY <1>1, <1>4, DeleteShows, Zenon
<1>5. CASE Left
  <2>1. cur - 1 \in Nat /\ Back(cur - 1)
    BY <1>1, <1>5 DEF Left
  <2>. QED
    BY <2>1, BackShows, Zenon
<1>6. CASE Home
  <2>1. 0 \in Nat /\ Back(0)
    BY <1>6, Zenon DEF Home
  <2>. QED
    BY <2>1, BackShows, Zenon
<1>7. CASE Right
  <2>1. cur + 1 \in Nat /\ cur + 1 <= len /\ Forth(cur + 1)
    BY <1>1, <1>7 DEF Right
  <2>. QED
    BY <2>1, ForthShows, Zenon
<1>8. CASE End
  <2>1. len <= len /\ Forth(len)
    BY <1>1, <1>8 DEF End
  <2>. QED
    BY <1>1, <2>1, ForthShows, Zenon
<1>9. CASE Up \/ Down
  BY <1>9, HistoryShows, Zenon
<1>10. CASE Return
  <2>1. scr' = Clear /\ torn' = FALSE /\ len' = 0 /\ cur' = 0
    BY <1>10, Zenon DEF Return
  <2>2. Shows(Clear, buf', 0, 0)
    BY ClearShows, Zenon
  <2>. QED
    BY <2>1, <2>2, ClearShows, Zenon DEF SInv
<1>11. CASE Message
  <2>1. scr' = Clear /\ torn' = TRUE
    BY <1>11, Zenon DEF Message
  <2>. QED
    BY <2>1, ClearShows, Zenon DEF SInv
<1>12. CASE UNCHANGED vars
  <2>1. scr' = scr /\ torn' = torn /\ buf' = buf /\ cur' = cur /\ len' = len
    BY <1>12, Zenon DEF vars
  <2>. QED
    BY <2>1, Zenon DEF SInv
<1>. QED
  BY <1>2, <1>3, <1>4, <1>5, <1>6, <1>7, <1>8, <1>9, <1>10, <1>11, <1>12, Zenon DEF Next

\* It holds at the first prompt, and with the editor's invariant it says what the
\* property does.
LEMMA ScreenInits ==
  /\ Init => SInv
  /\ RInv /\ SInv => ScreenShowsLine
<1>1. ASSUME Init PROVE SInv
  <2>1. scr = Clear /\ torn = FALSE /\ cur = 0 /\ len = 0
    BY <1>1, Zenon DEF Init
  <2>2. Shows(Clear, buf, 0, 0)
    BY ClearShows, Zenon
  <2>. QED
    BY <2>1, <2>2, ClearShows, Zenon DEF SInv
<1>2. ASSUME RInv, SInv PROVE ScreenShowsLine
  <2>1. len \in 0 .. Size - 1 /\ cur \in 0 .. len
    BY <1>2, EditTypes
  <2>2. buf \in [0 .. Size - 1 -> Chars \cup {Blank}]
    BY <1>2, Zenon DEF RInv, Arrays, Cell
  <2>3. browse \in Oldest .. total
    BY <1>2, SizeNat DEF RInv, Oldest
  <2>4. Len(saved) <= len + Size
    BY <1>2, SizeNat DEF RInv, Lines
  <2>5. scr.row \in [Column -> Chars \cup {Blank}] /\ scr.col \in Column
    BY <1>2, Zenon DEF SInv, Screen, Cell
  <2>6. TypeOK
    BY <1>2, <2>1, <2>2, <2>3, <2>4, <2>5, Zenon DEF TypeOK, SInv
  <2>. QED
    BY <1>2, <2>6, Zenon DEF SInv, ScreenShowsLine, Shows
<1>. QED
  BY <1>1, <1>2, Zenon

\* For every size of the buffer and the ring and every line typed: the row of the prompt
\* shows the line in the buffer with nothing of an older one behind it, and the cursor
\* stands on the character cur, unless msg_poll has written over the prompt.
THEOREM ReadlineShowsLine == Spec => []ScreenShowsLine
<1>1. RInv /\ [Next]_vars => RInv'
  BY NextKeeps, Zenon
<1>2. RInv /\ SInv /\ [Next]_vars => SInv'
  BY NextShows, Zenon
<1>. QED
  BY <1>1, <1>2, InitKeeps, ScreenInits, PTL DEF Spec

=============================================================================
