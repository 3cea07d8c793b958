------------------------- MODULE SocketBufferProofs -------------------------
(***************************************************************************)
(* Proofs about SocketBuffer for any size of the rings, any pieces and any *)
(* number of bytes.                                                        *)
(***************************************************************************)
EXTENDS SocketBuffer, SequenceTheorems, TLAPS

LEMMA PairMin ==
  ASSUME NEW a \in Int, NEW b \in Int
  PROVE  Min({a, b}) = IF a <= b THEN a ELSE b
BY DEF Min

(***************************************************************************)
(* A ring of m bytes d with the bytes in use from offset s up to e, as     *)
(* numbers: the lemmas about offsets are plain arithmetic.                 *)
(***************************************************************************)
Size == Nat \ {0, 1}
Cells(m) == [0..(m - 1) -> Int]
Used(m, s, e) == IF e < s THEN e + m - s ELSE e - s
At(m, s, k) == IF s + k < m THEN s + k ELSE s + k - m

(* the u bytes in use are those of the stream from number n on *)
Holds(m, d, s, u, n) == \A k \in 0..(u - 1) : d[At(m, s, k)] = n + k

(* a piece of the stream from number n on *)
Numbers(bytes, n) == \A k \in 1..Len(bytes) : bytes[k] = n + k - 1

Buffer(m, d, s, r, e) == [data |-> d, bufsz |-> m, start |-> s, read |-> r, end |-> e]

(* B is what n bytes of the buffer are, from cell i on. *)
AreBytes(B, m, d, s, r, e, i, n) == B = Bytes(Buffer(m, d, s, r, e), i, n)

(* They are those of the cells from i on, around the edge. *)
FromCells(B, m, d, i, n) ==
  /\ B \in Seq(Int)
  /\ Len(B) = n
  /\ \A k \in 1..n : B[k] = d[At(m, i, k - 1)]

LEMMA BytesAt ==
  ASSUME NEW m \in Size, NEW d \in Cells(m), NEW s, NEW r, NEW e,
         NEW i \in 0..(m - 1), NEW n \in 0..m, NEW B, AreBytes(B, m, d, s, r, e, i, n)
  PROVE  FromCells(B, m, d, i, n)
<1>1. \A k \in 1..n : (i + k - 1) % m = At(m, i, k - 1) /\ At(m, i, k - 1) \in 0..(m - 1)
  BY DEF Size, At
<1>2. B = [k \in 1..n |-> d[(i + k - 1) % m]]
  BY DEF AreBytes, Bytes, Buffer
<1>3. B = [k \in 1..n |-> d[At(m, i, k - 1)]]
  BY <1>1, <1>2
<1>4. \A k \in 1..n : d[At(m, i, k - 1)] \in Int
  BY <1>1 DEF Cells
<1>5. n \in Nat
  BY DEF Size
<1>6. B \in Seq(Int) /\ Len(B) = n
  BY <1>3, <1>4, <1>5
<1>7. \A k \in 1..n : B[k] = d[At(m, i, k - 1)]
  BY <1>3
<1> QED BY <1>6, <1>7 DEF FromCells

(* the array after a memcpy of bytes to offset i of d *)
Copied(d2, m, d, i, bytes) ==
  /\ d2 \in Cells(m)
  /\ \A j \in 0..(m - 1) :
       d2[j] = IF j \in i..(i + Len(bytes) - 1) THEN bytes[j - i + 1] ELSE d[j]

LEMMA CopyAt ==
  ASSUME NEW m \in Nat, NEW d \in Cells(m), NEW bytes \in Seq(Int),
         NEW i \in Nat, i + Len(bytes) <= m
  PROVE  Copied(Copy(d, i, bytes), m, d, i, bytes)
<1>1. ASSUME NEW j \in i..(i + Len(bytes) - 1) PROVE bytes[j - i + 1] \in Int
  <2>1. j - i + 1 \in 1..Len(bytes)
    OBVIOUS
  <2> QED BY <2>1, ElementOfSeq
<1> QED BY <1>1 DEF Copied, Copy, Cells

LEMMA SubSeqAt ==
  ASSUME NEW s \in Seq(Int), NEW i \in 1..(Len(s) + 1), NEW j \in (i - 1)..Len(s)
  PROVE  /\ SubSeq(s, i, j) \in Seq(Int) /\ Len(SubSeq(s, i, j)) = j - i + 1
         /\ \A k \in 1..(j - i + 1) : SubSeq(s, i, j)[k] = s[i + k - 1]
BY SubSeqProperties

LEMMA NumbersConcat ==
  ASSUME NEW a \in Seq(Int), NEW b \in Seq(Int), NEW c \in Int,
         Numbers(a, c), Numbers(b, c + Len(a))
  PROVE  /\ a \o b \in Seq(Int) /\ Len(a \o b) = Len(a) + Len(b)
         /\ Numbers(a \o b, c)
<1>1. /\ a \o b \in Seq(Int) /\ Len(a \o b) = Len(a) + Len(b)
      /\ \A k \in 1..(Len(a) + Len(b)) :
           (a \o b)[k] = IF k <= Len(a) THEN a[k] ELSE b[k - Len(a)]
  BY ConcatProperties
<1>2. ASSUME NEW k \in 1..(Len(a) + Len(b)) PROVE (a \o b)[k] = c + k - 1
  <2>1. CASE k <= Len(a)
    BY <1>1, <2>1 DEF Numbers
  <2>2. CASE ~(k <= Len(a))
    <3>1. k - Len(a) \in 1..Len(b)
      BY <2>2
    <3>2. b[k - Len(a)] = (c + Len(a)) + (k - Len(a)) - 1
      BY <3>1 DEF Numbers
    <3> QED BY <1>1, <2>2, <3>2
  <2> QED BY <2>1, <2>2
<1> QED BY <1>1, <1>2 DEF Numbers

LEMMA NumbersSub ==
  ASSUME NEW a \in Seq(Int), NEW c \in Int, Numbers(a, c),
         NEW i \in 1..(Len(a) + 1), NEW j \in (i - 1)..Len(a),
         NEW n, n = j - i + 1, NEW x, x = c + i - 1
  PROVE  /\ SubSeq(a, i, j) \in Seq(Int) /\ Len(SubSeq(a, i, j)) = n
         /\ Numbers(SubSeq(a, i, j), x)
<1>1. /\ SubSeq(a, i, j) \in Seq(Int) /\ Len(SubSeq(a, i, j)) = n
      /\ \A k \in 1..n : SubSeq(a, i, j)[k] = a[i + k - 1]
  BY SubSeqAt
<1>2. ASSUME NEW k \in 1..n PROVE SubSeq(a, i, j)[k] = x + k - 1
  <2>1. i + k - 1 \in 1..Len(a)
    OBVIOUS
  <2>2. a[i + k - 1] = c + (i + k - 1) - 1
    BY <2>1 DEF Numbers
  <2> QED BY <1>1, <2>2
<1> QED BY <1>1, <1>2 DEF Numbers

(* b is n bytes of the stream, the first of them number c. *)
Counts(b, n, c) == b \in Seq(Int) /\ Len(b) = n /\ Numbers(b, c)
IsPart(t, a, i, j) == t = SubSeq(a, i, j)

(* Bytes i to j of them are bytes of the stream, too. *)
LEMMA NumbersPart ==
  ASSUME NEW a, NEW m \in Nat, NEW c \in Int, Counts(a, m, c),
         NEW i \in 1..(m + 1), NEW j \in (i - 1)..m, NEW t, IsPart(t, a, i, j),
         NEW n, n = j - i + 1, NEW x, x = c + i - 1
  PROVE  Counts(t, n, x)
<1>1. a \in Seq(Int) /\ Len(a) = m /\ Numbers(a, c)
  BY DEF Counts
<1>2. t = SubSeq(a, i, j)
  BY DEF IsPart
<1>3. /\ SubSeq(a, i, j) \in Seq(Int) /\ Len(SubSeq(a, i, j)) = n
      /\ Numbers(SubSeq(a, i, j), x)
  BY <1>1, NumbersSub
<1> QED BY <1>2, <1>3 DEF Counts

(***************************************************************************)
(* What the operations do to a ring.                                       *)
(***************************************************************************)

LEMMA HoldsAll ==
  ASSUME NEW m, NEW d, NEW s, NEW u, NEW n,
         \A k \in 0..(u - 1) : d[At(m, s, k)] = n + k
  PROVE  Holds(m, d, s, u, n)
BY DEF Holds

(* Bytes written behind the end, d2 the array afterwards: the ring holds   *)
(* them after the others.                                                  *)
LEMMA Lengthen ==
  ASSUME NEW m \in Size, NEW s \in 0..(m - 1), NEW d, NEW d2,
         NEW u \in Nat, NEW n \in Int, Holds(m, d, s, u, n),
         NEW bytes, NEW len \in Nat, len = Len(bytes), Numbers(bytes, n + u),
         \A k \in 0..(u - 1) : d2[At(m, s, k)] = d[At(m, s, k)],
         \A k \in u..(u + len - 1) : d2[At(m, s, k)] = bytes[k - u + 1],
         NEW w, w = u + len
  PROVE  Holds(m, d2, s, w, n)
<1>1. ASSUME NEW k \in 0..(u - 1) PROVE d2[At(m, s, k)] = n + k
  BY Zenon DEF Holds
<1>2. ASSUME NEW k \in u..(u + len - 1) PROVE d2[At(m, s, k)] = n + k
  <2>1. k - u + 1 \in 1..len
    OBVIOUS
  <2>2. bytes[k - u + 1] = (n + u) + (k - u + 1) - 1
    BY <2>1 DEF Numbers
  <2>3. d2[At(m, s, k)] = bytes[k - u + 1]
    BY Zenon
  <2>4. (n + u) + (k - u + 1) - 1 = n + k
    OBVIOUS
  <2> QED BY <2>2, <2>3, <2>4, Zenon
<1>3. \A k \in 0..(w - 1) : d2[At(m, s, k)] = n + k
  <2> TAKE k \in 0..(w - 1)
  <2>1. k \in 0..(u - 1) \/ k \in u..(u + len - 1)
    OBVIOUS
  <2> QED BY <1>1, <1>2, <2>1, Zenon
<1> QED BY <1>3, HoldsAll, Zenon

LEMMA WriteBytes ==
  ASSUME NEW m \in Size, NEW d \in Cells(m), NEW s \in 0..(m - 1), NEW u \in 0..(m - 1),
         NEW c \in Int, Holds(m, d, s, u, c),
         NEW bytes \in Seq(Int), NEW len \in Nat, len = Len(bytes), Numbers(bytes, c + u),
         NEW i \in 0..m, i + len <= m, u + len < m, len = 0 \/ i = At(m, s, u),
         NEW w, w = u + len
  PROVE  Copy(d, i, bytes) \in Cells(m) /\ Holds(m, Copy(d, i, bytes), s, w, c)
<1> DEFINE d2 == Copy(d, i, bytes)
<1>1. /\ d2 \in Cells(m)
      /\ \A j \in 0..(m - 1) : d2[j] =
           IF j \in i..(i + len - 1) THEN bytes[j - i + 1] ELSE d[j]
  <2>1. m \in Nat /\ i \in Nat /\ i + Len(bytes) <= m
    BY DEF Size
  <2>2. Copied(d2, m, d, i, bytes)
    BY <2>1, CopyAt
  <2> HIDE DEF d2
  <2> QED BY <2>2 DEF Copied
<1> HIDE DEF d2
<1>2. \A k \in 0..(u - 1) : d2[At(m, s, k)] = d[At(m, s, k)]
  <2> TAKE k \in 0..(u - 1)
  <2>1. At(m, s, k) \in 0..(m - 1) /\ At(m, s, k) \notin i..(i + len - 1)
    BY DEF At, Size
  <2> QED BY <1>1, <2>1
<1>3. \A k \in u..(u + len - 1) : d2[At(m, s, k)] = bytes[k - u + 1]
  <2> TAKE k \in u..(u + len - 1)
  <2>1. /\ At(m, s, k) = i + (k - u) /\ At(m, s, k) \in i..(i + len - 1)
        /\ At(m, s, k) \in 0..(m - 1)
    BY DEF At, Size
  <2>2. d2[At(m, s, k)] = bytes[At(m, s, k) - i + 1]
    BY <1>1, <2>1
  <2>3. At(m, s, k) - i + 1 = k - u + 1
    BY <2>1 DEF Size
  <2> QED BY <2>2, <2>3
<1>4. u \in Nat
  BY DEF Size
<1>5. Holds(m, d2, s, w, c)
  BY <1>2, <1>3, <1>4, Lengthen
<1> QED BY <1>1, <1>5 DEF d2

IsCopy(d2, d, i, bytes) == d2 = Copy(d, i, bytes)

LEMMA WritePart ==
  ASSUME NEW m \in Size, NEW d \in Cells(m), NEW s \in 0..(m - 1), NEW u \in 0..(m - 1),
         NEW c \in Int, Holds(m, d, s, u, c),
         NEW bytes, NEW len \in Nat, NEW n, n = c + u, Counts(bytes, len, n),
         NEW i \in 0..m, i + len <= m, u + len < m, len = 0 \/ i = At(m, s, u),
         NEW w, w = u + len, NEW d2, IsCopy(d2, d, i, bytes)
  PROVE  d2 \in Cells(m) /\ Holds(m, d2, s, w, c)
<1>1. bytes \in Seq(Int) /\ len = Len(bytes) /\ Numbers(bytes, c + u)
  BY DEF Counts
<1>2. Copy(d, i, bytes) \in Cells(m) /\ Holds(m, Copy(d, i, bytes), s, w, c)
  BY <1>1, WriteBytes
<1> QED BY <1>2 DEF IsCopy

LEMMA PutHolds ==
  ASSUME NEW m \in Size, NEW d \in Cells(m), NEW s \in 0..(m - 1), NEW r,
         NEW e \in 0..m, NEW c \in Int, NEW u \in 0..(m - 1), u = Used(m, s, e),
         Holds(m, d, s, u, c), NEW bytes \in Seq(Int), NEW len \in Nat, len = Len(bytes),
         u + len < m, Numbers(bytes, c + u)
  PROVE  \E d2 \in Cells(m), e2 \in 0..m :
           /\ Put(Buffer(m, d, s, r, e), bytes) = Buffer(m, d2, s, r, e2)
           /\ Used(m, s, e2) = u + len
           /\ Holds(m, d2, s, u + len, c)
<1> DEFINE P == Put(Buffer(m, d, s, r, e), bytes)
<1>1. CASE m - e < len
  <2> DEFINE first == SubSeq(bytes, 1, m - e)
             second == SubSeq(bytes, m - e + 1, len)
             d1 == Copy(d, e, first)
             d2 == Copy(d1, 0, second)
             e2 == len - (m - e)
             u1 == u + (m - e)
  <2>1. /\ s <= e /\ u = e - s /\ e2 \in 0..(s - 1) /\ u1 \in 0..(m - 1)
        /\ m - e \in Nat /\ (m - e = 0 \/ e = At(m, s, u))
        /\ e + (m - e) <= m /\ u + (m - e) < m
    BY <1>1 DEF Used, At, Size
  <2>2. /\ e2 \in Nat /\ 0 \in 0..m /\ 0 + e2 <= m
        /\ 0 = At(m, s, u1) /\ u1 + e2 = u + len
    BY <1>1, <2>1 DEF At, Size
  <2>3. c + u \in Int /\ c + u1 = (c + u) + (m - e + 1) - 1
    BY DEF Size
  <2>4. first \in Seq(Int) /\ Len(first) = m - e /\ Numbers(first, c + u)
    <3>1. /\ 1 \in 1..(len + 1) /\ m - e \in (1 - 1)..len
          /\ m - e = (m - e) - 1 + 1 /\ c + u = (c + u) + 1 - 1
      BY <1>1 DEF Size
    <3>2. IsPart(first, bytes, 1, m - e) /\ Counts(bytes, len, c + u)
      BY DEF IsPart, Counts
    <3> HIDE DEF first
    <3>3. Counts(first, m - e, c + u)
      BY <2>3, <3>1, <3>2, NumbersPart
    <3> QED BY <3>3 DEF Counts
  <2>5. second \in Seq(Int) /\ Len(second) = e2 /\ Numbers(second, c + u1)
    <3>1. /\ m - e + 1 \in 1..(len + 1) /\ len \in ((m - e + 1) - 1)..len
          /\ e2 = len - (m - e + 1) + 1
      BY <1>1 DEF Size
    <3>2. IsPart(second, bytes, m - e + 1, len) /\ Counts(bytes, len, c + u)
      BY DEF IsPart, Counts
    <3> HIDE DEF first, second, e2, u1
    <3>3. Counts(second, e2, c + u1)
      BY <2>3, <3>1, <3>2, NumbersPart
    <3> QED BY <3>3 DEF Counts
  <2> HIDE DEF first, second
  <2>6. d1 \in Cells(m) /\ Holds(m, d1, s, u1, c)
    <3>1. Counts(first, m - e, c + u) /\ IsCopy(d1, d, e, first)
      BY <2>4 DEF Counts, IsCopy
    <3> HIDE DEF d1
    <3> QED BY <2>1, <3>1, WritePart
  <2> HIDE DEF d1, u1, e2
  <2>7. d2 \in Cells(m) /\ Holds(m, d2, s, u + len, c)
    <3>1. Counts(second, e2, c + u1) /\ IsCopy(d2, d1, 0, second)
      BY <2>5 DEF Counts, IsCopy
    <3> HIDE DEF d2
    <3> QED BY <2>1, <2>2, <2>6, <3>1, WritePart
  <2> USE DEF e2
  <2>8. P = Buffer(m, d2, s, r, e2)
    BY <1>1 DEF Put, Buffer, d1, first, second
  <2> HIDE DEF d2
  <2>9. Used(m, s, e2) = u + len
    BY <2>1 DEF Used, Size
  <2> QED BY <2>1, <2>7, <2>8, <2>9 DEF Size
<1>2. CASE ~(m - e < len)
  <2> DEFINE d2 == Copy(d, e, bytes)
             e2 == e + len
  <2>1. /\ e2 \in 0..m /\ Used(m, s, e2) = u + len
        /\ len = 0 \/ e = At(m, s, u)
    BY <1>2 DEF Used, At, Size
  <2>2. d2 \in Cells(m) /\ Holds(m, d2, s, u + len, c)
    <3>1. /\ e + len <= m /\ Counts(bytes, len, c + u) /\ IsCopy(d2, d, e, bytes)
      BY <1>2 DEF Size, Counts, IsCopy
    <3> HIDE DEF d2
    <3> QED BY <2>1, <3>1, WritePart
  <2>3. P = Buffer(m, d2, s, r, e2)
    BY <1>2 DEF Put, Buffer
  <2> HIDE DEF d2
  <2> QED BY <2>1, <2>2, <2>3
<1> QED BY <1>1, <1>2 DEF Size

(* Bytes taken at the start: the ring holds those that follow.             *)
LEMMA Shorten ==
  ASSUME NEW m \in Size, NEW d, NEW s \in 0..(m - 1), NEW u \in 0..(m - 1),
         NEW c \in Int, Holds(m, d, s, u, c), NEW n \in 0..u, NEW s2, s2 = At(m, s, n)
  PROVE  Holds(m, d, s2, u - n, c + n)
<1>1. ASSUME NEW k \in 0..(u - n - 1) PROVE d[At(m, s2, k)] = (c + n) + k
  <2>1. n + k \in 0..(u - 1) /\ At(m, s2, k) = At(m, s, n + k)
    BY DEF At, Size
  <2>2. d[At(m, s, n + k)] = c + (n + k)
    BY <2>1 DEF Holds
  <2> QED BY <2>1, <2>2
<1> QED BY <1>1, HoldsAll

LEMMA AfterSendHolds ==
  ASSUME NEW m \in Size, NEW d, NEW s \in 0..(m - 1), NEW r,
         NEW e \in 0..m, NEW c \in Int, Used(m, s, e) < m,
         Holds(m, d, s, Used(m, s, e), c), NEW n \in 1..Used(m, s, e)
  PROVE  \E s2 \in 0..(m - 1), e2 \in 0..m :
           /\ AfterSend(Buffer(m, d, s, r, e), n) = Buffer(m, d, s2, r, e2)
           /\ Used(m, s2, e2) = Used(m, s, e) - n
           /\ Holds(m, d, s2, Used(m, s, e) - n, c + n)
<1> DEFINE A == AfterSend(Buffer(m, d, s, r, e), n)
           u == Used(m, s, e)
           s1 == IF e > s \/ s + n < m THEN s + n ELSE s + n - m
<1>1. A = IF s1 = e THEN Buffer(m, d, 0, r, 0) ELSE Buffer(m, d, s1, r, e)
  <2> DEFINE b == Buffer(m, d, s, r, e)
  <2>1. b.end = e /\ b.start = s /\ b.bufsz = m
    BY DEF Buffer
  <2>2. /\ [b EXCEPT !.start = 0, !.end = 0] = Buffer(m, d, 0, r, 0)
        /\ [b EXCEPT !.start = s1] = Buffer(m, d, s1, r, e)
    <3> HIDE DEF s1
    <3>1. [b EXCEPT !.start = s1] = Buffer(m, d, s1, r, e)
      BY DEF Buffer
    <3>2. [b EXCEPT !.start = 0, !.end = 0] = Buffer(m, d, 0, r, 0)
      <4>1. [b EXCEPT !.start = 0] = Buffer(m, d, 0, r, e)
        BY DEF Buffer
      <4>2. [Buffer(m, d, 0, r, e) EXCEPT !.end = 0] = Buffer(m, d, 0, r, 0)
        BY DEF Buffer
      <4>3. ASSUME NEW x
            PROVE  [x EXCEPT !.start = 0, !.end = 0]
                     = [[x EXCEPT !.start = 0] EXCEPT !.end = 0]
        OBVIOUS
      <4> QED BY <4>1, <4>2, <4>3
    <3> QED BY <3>1, <3>2
  <2> HIDE DEF b
  <2>3. AfterSend(b, n) = IF s1 = e THEN [b EXCEPT !.start = 0, !.end = 0]
                                    ELSE [b EXCEPT !.start = s1]
    BY <2>1 DEF AfterSend
  <2> QED BY <2>2, <2>3 DEF b
<1>2. u \in 0..(m - 1)
  BY DEF Used, Size
<1>3. CASE s1 = e
  <2>1. u - n = 0 /\ Used(m, 0, 0) = u - n
    BY <1>3 DEF Used, Size
  <2>2. Holds(m, d, 0, u - n, c + n)
    BY <2>1 DEF Holds
  <2> QED BY <1>1, <1>3, <2>1, <2>2 DEF Size
<1>4. CASE s1 # e
  <2>1. s1 = At(m, s, n) /\ s1 \in 0..(m - 1) /\ Used(m, s1, e) = u - n
    BY <1>4 DEF Used, At, Size
  <2>2. Holds(m, d, s1, u - n, c + n)
    <3> HIDE DEF u, s1
    <3> QED BY <1>2, <2>1, Shorten DEF u
  <2> QED BY <1>1, <1>4, <2>1, <2>2
<1> QED BY <1>3, <1>4

(* n bytes from byte o of the ring on *)
LEMMA BytesNumbers ==
  ASSUME NEW m \in Size, NEW d \in Cells(m), NEW s \in 0..(m - 1), NEW r, NEW e,
         NEW u \in 0..(m - 1), NEW c \in Int, Holds(m, d, s, u, c),
         NEW o \in 0..u, NEW n \in 0..(u - o), NEW i, i = At(m, s, o)
  PROVE  /\ Bytes(Buffer(m, d, s, r, e), i, n) \in Seq(Int)
         /\ Len(Bytes(Buffer(m, d, s, r, e), i, n)) = n
         /\ Numbers(Bytes(Buffer(m, d, s, r, e), i, n), c + o)
<1> DEFINE B == Bytes(Buffer(m, d, s, r, e), i, n)
<1>1. i \in 0..(m - 1) /\ n \in 0..m
  BY DEF At, Size
<1>2. /\ B \in Seq(Int) /\ Len(B) = n
      /\ \A k \in 1..n : B[k] = d[At(m, i, k - 1)]
  <2>1. AreBytes(B, m, d, s, r, e, i, n)
    BY DEF AreBytes
  <2> HIDE DEF B
  <2>2. FromCells(B, m, d, i, n)
    BY <1>1, <2>1, BytesAt
  <2> QED BY <2>2 DEF FromCells
<1> HIDE DEF B
<1>3. ASSUME NEW k \in 1..n PROVE B[k] = (c + o) + k - 1
  <2>1. o + k - 1 \in 0..(u - 1) /\ At(m, i, k - 1) = At(m, s, o + k - 1)
    BY DEF At, Size
  <2>2. d[At(m, s, o + k - 1)] = c + (o + k - 1)
    BY <2>1 DEF Holds
  <2> QED BY <1>2, <2>1, <2>2
<1>4. Numbers(B, c + o)
  BY <1>2, <1>3 DEF Numbers
<1> QED BY <1>2, <1>4 DEF B

LEMMA RecvCountIs ==
  ASSUME NEW a \in Int, NEW l \in Int, l = Len(net)
  PROVE  RecvCount(a) = IF a <= l THEN a ELSE l
<1>1. Min({a, l}) = IF a <= l THEN a ELSE l
  BY PairMin
<1>2. RecvCount(a) = Min({a, l})
  BY DEF RecvCount
<1> QED BY <1>1, <1>2

(* FillBuffer, with the two pieces by name *)
Fill(m, d, s, r, e) == FillBuffer(Buffer(m, d, s, r, e))
FillOk(m, d, s, r, e) == Fill(m, d, s, r, e).ok
Room(m, d, s, r, e) == FirstRoom(Buffer(m, d, s, r, e))
Filled(m, d, s, r, e) ==
  LET n1 == RecvCount(Room(m, d, s, r, e))
      d1 == Copy(d, e, SubSeq(net, 1, n1))
      rest == SubSeq(net, n1 + 1, Len(net))
      m2 == Min({s - 1, Len(rest)})
  IN
  IF e + n1 < m THEN [ok |-> TRUE, buf |-> Buffer(m, d1, s, r, e + n1), n |-> n1]
  ELSE [ok |-> TRUE, n |-> n1 + m2,
        buf |-> Buffer(m, Copy(d1, 0, SubSeq(rest, 1, m2)), s, r, m2)]

LEMMA FillIs ==
  ASSUME NEW m, NEW d, NEW s, NEW r, NEW e, FillOk(m, d, s, r, e)
  PROVE  Fill(m, d, s, r, e) = Filled(m, d, s, r, e)
<1> DEFINE n1 == RecvCount(Room(m, d, s, r, e))
           d1 == Copy(d, e, SubSeq(net, 1, n1))
           rest == SubSeq(net, n1 + 1, Len(net))
           m2 == Min({s - 1, Len(rest)})
<1> DEFINE b == Buffer(m, d, s, r, e)
           b1 == [b EXCEPT !.data = Copy(@, b.end, SubSeq(net, 1, n1)), !.end = @ + n1]
<1>1. b.bufsz = m /\ b.data = d /\ b.start = s /\ b.read = r /\ b.end = e
  BY DEF Buffer
<1> HIDE DEF n1
<1>2. b1 = [b EXCEPT !.data = d1, !.end = e + n1]
  BY <1>1
<1>3. b1 = Buffer(m, d1, s, r, e + n1)
  <2>1. [b EXCEPT !.data = d1] = Buffer(m, d1, s, r, e)
    BY DEF Buffer
  <2>2. [Buffer(m, d1, s, r, e) EXCEPT !.end = e + n1] = Buffer(m, d1, s, r, e + n1)
    BY DEF Buffer
  <2>3. ASSUME NEW x
        PROVE  [x EXCEPT !.data = d1, !.end = e + n1]
                 = [[x EXCEPT !.data = d1] EXCEPT !.end = e + n1]
    OBVIOUS
  <2> HIDE DEF b1
  <2> QED BY <1>2, <2>1, <2>2, <2>3
<1>4. b1.end = e + n1
  BY <1>3 DEF Buffer
<1> DEFINE b2 == [b1 EXCEPT !.data = Copy(@, 0, SubSeq(rest, 1, m2)), !.end = m2]
<1>5. b2 = Buffer(m, Copy(d1, 0, SubSeq(rest, 1, m2)), s, r, m2)
  <2> DEFINE d2 == Copy(d1, 0, SubSeq(rest, 1, m2))
  <2>1. b1.data = d1
    BY <1>3 DEF Buffer
  <2>2. b2 = [b1 EXCEPT !.data = d2, !.end = m2]
    BY <2>1
  <2> HIDE DEF b1, b2, d2
  <2>3. [b1 EXCEPT !.data = d2] = Buffer(m, d2, s, r, e + n1)
    BY <1>3 DEF Buffer
  <2>4. [Buffer(m, d2, s, r, e + n1) EXCEPT !.end = m2] = Buffer(m, d2, s, r, m2)
    <3>1. ASSUME NEW x, NEW y
          PROVE  [Buffer(m, d2, s, r, x) EXCEPT !.end = y] = Buffer(m, d2, s, r, y)
      BY DEF Buffer
    <3> HIDE DEF b
    <3> QED BY <3>1
  <2>5. ASSUME NEW x
        PROVE  [x EXCEPT !.data = d2, !.end = m2] = [[x EXCEPT !.data = d2] EXCEPT !.end = m2]
    OBVIOUS
  <2> QED BY <2>2, <2>3, <2>4, <2>5 DEF d2
<1> HIDE DEF d1
<1>6. FillBuffer(b) =
        IF RecvClosed(FirstRoom(b)) THEN [ok |-> FALSE, buf |-> b, n |-> 0]
        ELSE IF b1.end < b.bufsz THEN [ok |-> TRUE, buf |-> b1, n |-> n1]
        ELSE IF b.start = 1 /\ rest # <<>>
          THEN [ok |-> FALSE, buf |-> [b1 EXCEPT !.end = 0], n |-> n1]
        ELSE [ok |-> TRUE, n |-> n1 + m2, buf |-> b2]
  BY <1>1 DEF FillBuffer, Room, n1, b1, b2
<1> HIDE DEF b, b1, b2, rest, m2
<1>7. FillBuffer(b).ok
  BY DEF b, FillOk, Fill
<1>8. FillBuffer(b) = IF e + n1 < m THEN [ok |-> TRUE, buf |-> b1, n |-> n1]
                      ELSE [ok |-> TRUE, n |-> n1 + m2, buf |-> b2]
  <2>1. ~RecvClosed(FirstRoom(b))
    <3> SUFFICES ASSUME RecvClosed(FirstRoom(b)) PROVE FALSE
      OBVIOUS
    <3>1. FillBuffer(b) = [ok |-> FALSE, buf |-> b, n |-> 0]
      BY <1>6, Zenon
    <3> QED BY <1>7, <3>1
  <2>2. CASE e + n1 < m
    <3>1. b1.end < b.bufsz
      BY <1>1, <1>4, <2>2
    <3> QED BY <1>6, <2>1, <2>2, <3>1, Zenon
  <2>3. CASE ~(e + n1 < m)
    <3>1. ~(b1.end < b.bufsz)
      BY <1>1, <1>4, <2>3
    <3>2. ~(b.start = 1 /\ rest # <<>>)
      <4> SUFFICES ASSUME b.start = 1 /\ rest # <<>> PROVE FALSE
        OBVIOUS
      <4>1. FillBuffer(b) = [ok |-> FALSE, buf |-> [b1 EXCEPT !.end = 0], n |-> n1]
        BY <1>6, <2>1, <3>1, Zenon
      <4> QED BY <1>7, <4>1
    <3>3. FillBuffer(b) = [ok |-> TRUE, n |-> n1 + m2, buf |-> b2]
      BY <1>6, <2>1, <3>1, <3>2, Zenon
    <3> QED BY <2>3, <3>3, Zenon
  <2> QED BY <2>2, <2>3
<1> QED BY <1>3, <1>5, <1>8 DEF b, Fill, Filled, n1, d1, rest, m2

FillGives(m, d, s, r, e, u, c) ==
  \E d2 \in Cells(m), e2 \in 0..(m - 1), n \in 0..Len(net) :
    /\ Fill(m, d, s, r, e).buf = Buffer(m, d2, s, r, e2)
    /\ Fill(m, d, s, r, e).n = n
    /\ Used(m, s, e2) = u + n
    /\ Holds(m, d2, s, u + n, c)

(* What recv(2) gives goes behind the end, once more from the edge on.     *)
LEMMA FillHolds ==
  ASSUME NEW m \in Size, NEW d \in Cells(m), NEW s \in 0..(m - 1), NEW r,
         NEW e \in 0..(m - 1), NEW c \in Int, NEW u \in 0..(m - 1), u = Used(m, s, e),
         Holds(m, d, s, u, c), net \in Seq(Int), Numbers(net, c + u),
         FillOk(m, d, s, r, e)
  PROVE  FillGives(m, d, s, r, e, u, c)
<1> DEFINE room == Room(m, d, s, r, e)
           l == Len(net)
           n1 == RecvCount(room)
           first == SubSeq(net, 1, n1)
           d1 == Copy(d, e, first)
           rest == SubSeq(net, n1 + 1, l)
           m2 == Min({s - 1, Len(rest)})
           second == SubSeq(rest, 1, m2)
           d2 == Copy(d1, 0, second)
           u1 == u + n1
           f == Fill(m, d, s, r, e)
<1>0. f = Filled(m, d, s, r, e)
  BY FillIs, Zenon
<1>1. f = IF e + n1 < m THEN [ok |-> TRUE, buf |-> Buffer(m, d1, s, r, e + n1), n |-> n1]
          ELSE [ok |-> TRUE, n |-> n1 + m2, buf |-> Buffer(m, d2, s, r, m2)]
  <2> HIDE DEF f
  <2> QED BY <1>0 DEF Filled
<1>2. room = IF e >= s THEN m - e - (IF s = 0 THEN 1 ELSE 0) ELSE s - e - 1
  BY DEF Room, FirstRoom, Buffer
<1>3. /\ room \in 0..(m - e) /\ room + u < m
      /\ e + room = m => s \in 1..e /\ u = e - s
  BY <1>2 DEF Used, Size
<1>a. l \in Nat
  OBVIOUS
<1> HIDE DEF room, f
<1>4. n1 = IF room <= l THEN room ELSE l
  <2>1. room \in Int /\ l \in Int
    BY <1>3, <1>a DEF Size
  <2> QED BY <2>1, RecvCountIs
<1> HIDE DEF n1
<1>5. n1 \in 0..l /\ n1 \in Nat /\ e + n1 <= m /\ u + n1 < m /\ n1 <= room
      /\ u1 \in 0..(m - 1)
  <2>1. n1 \in 0..l /\ n1 \in Nat /\ n1 <= room /\ m \in Nat
    BY <1>3, <1>4, <1>a DEF Size
  <2>2. room \in Nat /\ room <= m - e /\ room + u < m
    BY <1>3, <2>1
  <2>3. e + n1 <= m /\ u + n1 < m
    BY <2>1, <2>2
  <2> QED BY <2>1, <2>3
<1>6. first \in Seq(Int) /\ Len(first) = n1 /\ Numbers(first, c + u)
  <2>1. /\ 1 \in 1..(l + 1) /\ n1 \in (1 - 1)..l /\ n1 = n1 - 1 + 1
        /\ c + u \in Int /\ c + u = (c + u) + 1 - 1
    BY <1>5
  <2>2. IsPart(first, net, 1, n1) /\ Counts(net, l, c + u) /\ l \in Nat
    BY <1>a DEF IsPart, Counts
  <2> HIDE DEF first, l
  <2>3. Counts(first, n1, c + u)
    BY <2>1, <2>2, NumbersPart
  <2> QED BY <2>3 DEF Counts
<1> HIDE DEF first
<1>7. d1 \in Cells(m) /\ Holds(m, d1, s, u1, c)
  <2>1. e \in 0..m /\ e = At(m, s, u)
    BY DEF Used, At, Size
  <2> QED BY <1>5, <1>6, <2>1, WriteBytes
<1> HIDE DEF d1
<1>9. CASE e + n1 < m
  <2>1. f.buf = Buffer(m, d1, s, r, e + n1) /\ f.n = n1
    BY <1>1, <1>9
  <2>2. Used(m, s, e + n1) = u1
    BY <1>3, <1>5, <1>9 DEF Used, Size
  <2>3. e + n1 \in 0..(m - 1)
    BY <1>5, <1>9 DEF Size
  <2> QED BY <1>5, <1>7, <2>1, <2>2, <2>3 DEF f, FillGives
<1>10. CASE ~(e + n1 < m)
  <2>1. e + n1 = m /\ s \in 1..e /\ u = e - s /\ c + u1 \in Int
    BY <1>3, <1>5, <1>10 DEF Size
  <2>2. rest \in Seq(Int) /\ Len(rest) = l - n1 /\ Numbers(rest, c + u1)
    <3>1. /\ n1 + 1 \in 1..(l + 1) /\ l \in ((n1 + 1) - 1)..l
          /\ l - n1 = l - (n1 + 1) + 1 /\ c + u \in Int /\ c + u1 = (c + u) + (n1 + 1) - 1
      BY <1>5 DEF Size
    <3>2. IsPart(rest, net, n1 + 1, l) /\ Counts(net, l, c + u) /\ l \in Nat
      BY <1>a DEF IsPart, Counts
    <3> HIDE DEF rest, l, u1
    <3>3. Counts(rest, l - n1, c + u1)
      BY <3>1, <3>2, NumbersPart
    <3> QED BY <3>3 DEF Counts
  <2> HIDE DEF rest
  <2>3. m2 = IF s - 1 <= l - n1 THEN s - 1 ELSE l - n1
    <3>1. s - 1 \in Int /\ Len(rest) \in Int
      BY <2>1, <2>2
    <3> QED BY <2>2, <3>1, PairMin
  <2> HIDE DEF m2
  <2>4. /\ m2 \in 0..(s - 1) /\ m2 \in Nat /\ m2 <= l - n1 /\ n1 + m2 \in 0..l
        /\ u1 + m2 < m /\ 0 = At(m, s, u1) /\ 0 + m2 <= m /\ 0 \in 0..m /\ m2 \in 0..(m - 1)
        /\ Used(m, s, m2) = u + (n1 + m2) /\ u1 + m2 = u + (n1 + m2)
    <3>1. /\ m2 \in 0..(s - 1) /\ m2 \in Nat /\ m2 <= l - n1 /\ n1 + m2 \in 0..l
      BY <1>5, <2>1, <2>3, <1>a DEF Size
    <3>2. u1 = m - s /\ u1 + m2 < m /\ u1 + m2 = u + (n1 + m2)
      BY <1>5, <2>1, <3>1 DEF Size
    <3>3. 0 = At(m, s, u1) /\ 0 + m2 <= m /\ 0 \in 0..m /\ m2 \in 0..(m - 1)
      BY <2>1, <3>1, <3>2 DEF At, Size
    <3>4. Used(m, s, m2) = u + (n1 + m2)
      BY <2>1, <3>1, <3>2 DEF Used, Size
    <3> QED BY <3>1, <3>2, <3>3, <3>4
  <2>5. second \in Seq(Int) /\ Len(second) = m2 /\ Numbers(second, c + u1)
    <3>1. /\ Len(rest) \in Nat /\ 1 \in 1..(Len(rest) + 1) /\ m2 \in (1 - 1)..Len(rest)
          /\ m2 = m2 - 1 + 1 /\ c + u1 \in Int /\ c + u1 = (c + u1) + 1 - 1
      BY <2>1, <2>2, <2>4
    <3>2. IsPart(second, rest, 1, m2) /\ Counts(rest, Len(rest), c + u1)
      BY <2>2 DEF IsPart, Counts
    <3> HIDE DEF second, u1
    <3>3. Counts(second, m2, c + u1)
      BY <3>1, <3>2, NumbersPart
    <3> QED BY <3>3 DEF Counts
  <2> HIDE DEF second, u1
  <2>6. d2 \in Cells(m) /\ Holds(m, d2, s, u + (n1 + m2), c)
    BY <1>5, <1>7, <2>4, <2>5, WriteBytes
  <2> HIDE DEF d2
  <2>7. f.buf = Buffer(m, d2, s, r, m2) /\ f.n = n1 + m2
    BY <1>1, <1>10
  <2> QED BY <2>4, <2>6, <2>7 DEF f, FillGives
<1> QED BY <1>9, <1>10

(***************************************************************************)
(* The two rings of a connection: u bytes in use, from number c on; of the *)
(* receiver's, o have been read.                                           *)
(***************************************************************************)
Sending(b, u, c) ==
  \E m \in Size : \E d \in Cells(m), s \in 0..(m - 1), r \in 0..(m - 1), e \in 0..m :
    /\ b = Buffer(m, d, s, r, e)
    /\ u \in 0..(m - 1) /\ u = Used(m, s, e) /\ Holds(m, d, s, u, c)

Receiving(b, u, o, c) ==
  \E m \in Size : \E d \in Cells(m), s \in 0..(m - 1), r \in 0..(m - 1), e \in 0..(m - 1) :
    /\ b = Buffer(m, d, s, r, e)
    /\ u \in 0..(m - 1) /\ u = Used(m, s, e) /\ Holds(m, d, s, u, c)
    /\ o \in 0..u /\ r = At(m, s, o)

LEMMA FreshHolds ==
  ASSUME NEW m \in Size, NEW c \in Int
  PROVE  Sending(NewBuffer(m), 0, c) /\ Receiving(NewBuffer(m), 0, 0, c)
<1> DEFINE d == NewBuffer(m).data
<1>1. NewBuffer(m) = Buffer(m, d, 0, 0, 0) /\ d \in Cells(m)
  BY DEF NewBuffer, Buffer, Cells
<1> HIDE DEF d
<1>2. /\ 0 \in 0..(m - 1) /\ 0 \in 0..m /\ 0 \in 0..0 /\ 0 = Used(m, 0, 0) /\ 0 = At(m, 0, 0)
  BY DEF Size, Used, At
<1>3. Holds(m, d, 0, 0, c)
  BY DEF Holds
<1>4. Sending(NewBuffer(m), 0, c)
  BY <1>1, <1>2, <1>3 DEF Sending
<1>5. Receiving(NewBuffer(m), 0, 0, c)
  BY <1>1, <1>2, <1>3 DEF Receiving
<1> QED BY <1>4, <1>5

LEMMA SendingUsed ==
  ASSUME NEW b, NEW u, NEW c \in Int, Sending(b, u, c)
  PROVE  /\ u \in Nat /\ buf_used(b) = u /\ b.bufsz \in Size
         /\ \A n \in 0..u : /\ Bytes(b, b.start, n) \in Seq(Int)
                            /\ Len(Bytes(b, b.start, n)) = n
                            /\ Numbers(Bytes(b, b.start, n), c)
<1>1. PICK m \in Size : \E d \in Cells(m), s \in 0..(m - 1), r \in 0..(m - 1), e \in 0..m :
        /\ b = Buffer(m, d, s, r, e)
        /\ u \in 0..(m - 1) /\ u = Used(m, s, e) /\ Holds(m, d, s, u, c)
  BY DEF Sending
<1>2. PICK d \in Cells(m), s \in 0..(m - 1), r \in 0..(m - 1), e \in 0..m :
        /\ b = Buffer(m, d, s, r, e)
        /\ u \in 0..(m - 1) /\ u = Used(m, s, e) /\ Holds(m, d, s, u, c)
  BY <1>1
<1>3. b.start = s /\ b.bufsz = m /\ b.end = e
  BY <1>2 DEF Buffer
<1>4. buf_used(b) = u
  BY <1>2, <1>3 DEF buf_used, Used
<1>5. u \in Nat
  BY <1>2 DEF Size
<1>6. ASSUME NEW n \in 0..u
      PROVE  /\ Bytes(b, b.start, n) \in Seq(Int)
             /\ Len(Bytes(b, b.start, n)) = n
             /\ Numbers(Bytes(b, b.start, n), c)
  <2>1. 0 \in 0..u /\ n \in 0..(u - 0) /\ s = At(m, s, 0) /\ c + 0 = c
    BY <1>5 DEF At, Size
  <2>2. /\ Bytes(Buffer(m, d, s, r, e), s, n) \in Seq(Int)
        /\ Len(Bytes(Buffer(m, d, s, r, e), s, n)) = n
        /\ Numbers(Bytes(Buffer(m, d, s, r, e), s, n), c + 0)
    BY <1>2, <2>1, BytesNumbers
  <2> QED BY <1>2, <1>3, <2>1, <2>2
<1> QED BY <1>3, <1>4, <1>5, <1>6

LEMMA SendingPut ==
  ASSUME NEW b, NEW u, NEW c \in Int, Sending(b, u, c), NEW bytes \in Seq(Int),
         NEW len \in Nat, len = Len(bytes), Numbers(bytes, c + u), buf_remaining(b) >= len
  PROVE  Sending(Put(b, bytes), u + len, c)
<1>1. PICK m \in Size : \E d \in Cells(m), s \in 0..(m - 1), r \in 0..(m - 1), e \in 0..m :
        /\ b = Buffer(m, d, s, r, e)
        /\ u \in 0..(m - 1) /\ u = Used(m, s, e) /\ Holds(m, d, s, u, c)
  BY DEF Sending
<1>2. PICK d \in Cells(m), s \in 0..(m - 1), r \in 0..(m - 1), e \in 0..m :
        /\ b = Buffer(m, d, s, r, e)
        /\ u \in 0..(m - 1) /\ u = Used(m, s, e) /\ Holds(m, d, s, u, c)
  BY <1>1
<1>3. b.bufsz = m /\ buf_used(b) = u
  BY <1>2, SendingUsed DEF Buffer
<1>4. u + len < m /\ u + len \in 0..(m - 1)
  BY <1>2, <1>3 DEF buf_remaining, Size
<1>5. \E d2 \in Cells(m), e2 \in 0..m :
           /\ Put(Buffer(m, d, s, r, e), bytes) = Buffer(m, d2, s, r, e2)
           /\ Used(m, s, e2) = u + len
           /\ Holds(m, d2, s, u + len, c)
  BY <1>2, <1>4, PutHolds
<1>6. PICK d2 \in Cells(m), e2 \in 0..m :
           /\ Put(b, bytes) = Buffer(m, d2, s, r, e2)
           /\ Used(m, s, e2) = u + len
           /\ Holds(m, d2, s, u + len, c)
  BY <1>2, <1>5
<1> QED BY <1>4, <1>6 DEF Sending

LEMMA SendingTake ==
  ASSUME NEW b, NEW u, NEW c \in Int, Sending(b, u, c), NEW n \in 1..u
  PROVE  Sending(AfterSend(b, n), u - n, c + n)
<1>1. PICK m \in Size : \E d \in Cells(m), s \in 0..(m - 1), r \in 0..(m - 1), e \in 0..m :
        /\ b = Buffer(m, d, s, r, e)
        /\ u \in 0..(m - 1) /\ u = Used(m, s, e) /\ Holds(m, d, s, u, c)
  BY DEF Sending
<1>2. PICK d \in Cells(m), s \in 0..(m - 1), r \in 0..(m - 1), e \in 0..m :
        /\ b = Buffer(m, d, s, r, e)
        /\ u \in 0..(m - 1) /\ u = Used(m, s, e) /\ Holds(m, d, s, u, c)
  BY <1>1
<1>3. Used(m, s, e) < m /\ n \in 1..Used(m, s, e) /\ Holds(m, d, s, Used(m, s, e), c)
  BY <1>2 DEF Size
<1>4. \E s2 \in 0..(m - 1), e2 \in 0..m :
           /\ AfterSend(Buffer(m, d, s, r, e), n) = Buffer(m, d, s2, r, e2)
           /\ Used(m, s2, e2) = Used(m, s, e) - n
           /\ Holds(m, d, s2, Used(m, s, e) - n, c + n)
  BY <1>3, AfterSendHolds
<1>5. PICK s2 \in 0..(m - 1), e2 \in 0..m :
           /\ AfterSend(b, n) = Buffer(m, d, s2, r, e2)
           /\ Used(m, s2, e2) = u - n
           /\ Holds(m, d, s2, u - n, c + n)
  BY <1>2, <1>4
<1>6. u - n \in 0..(m - 1)
  BY <1>2 DEF Size
<1> QED BY <1>5, <1>6 DEF Sending

LEMMA ResizedHolds ==
  ASSUME NEW m \in Size, NEW d \in Cells(m), NEW s \in 0..(m - 1), NEW r \in 0..(m - 1),
         NEW e \in 0..m, NEW c \in Int, NEW u \in 0..(m - 1), u = Used(m, s, e),
         Holds(m, d, s, u, c), NEW z \in Nat, m < z
  PROVE  \E d2 \in Cells(z) :
           /\ Resized(Buffer(m, d, s, r, e), z) = Buffer(z, d2, 0, Used(m, s, r), u)
           /\ Holds(z, d2, 0, u, c)
<1> DEFINE b == Buffer(m, d, s, r, e)
           d0 == NewBuffer(z).data
           bytes == Bytes(b, s, u)
           d2 == Copy(d0, 0, bytes)
<1>1. /\ z \in Size /\ 0 \in 0..(z - 1) /\ 0 \in 0..z /\ u \in Nat /\ 0 + u <= z /\ 0 + u < z
      /\ c + 0 = c /\ u = 0 + u /\ 0 = At(z, 0, 0)
  BY DEF Size, At
<1>2. d0 \in Cells(z) /\ Holds(z, d0, 0, 0, c)
  BY DEF NewBuffer, Cells, Holds
<1>3. bytes \in Seq(Int) /\ Len(bytes) = u /\ Numbers(bytes, c + 0)
  <2>1. 0 \in 0..u /\ u \in 0..(u - 0) /\ s = At(m, s, 0)
    BY DEF At, Size
  <2> QED BY <2>1, BytesNumbers
<1> HIDE DEF d0, bytes
<1>4. d2 \in Cells(z) /\ Holds(z, d2, 0, u, c)
  BY <1>1, <1>2, <1>3, WriteBytes
<1>5. b.start = s /\ b.bufsz = m /\ b.end = e /\ b.read = r
  BY DEF Buffer
<1>6. buf_used(b) = u
  BY <1>5 DEF buf_used, Used
<1>7. Resized(b, z) = Buffer(z, d2, 0, Used(m, s, r), u)
  <2> HIDE DEF b
  <2> QED BY <1>5, <1>6 DEF Resized, Buffer, Used, d0, bytes
<1> HIDE DEF d2
<1> QED BY <1>4, <1>7

LEMMA SendingResized ==
  ASSUME NEW b, NEW u, NEW c \in Int, Sending(b, u, c), NEW z \in Nat, b.bufsz < z
  PROVE  Sending(Resized(b, z), u, c)
<1>1. PICK m \in Size : \E d \in Cells(m), s \in 0..(m - 1), r \in 0..(m - 1), e \in 0..m :
        /\ b = Buffer(m, d, s, r, e)
        /\ u \in 0..(m - 1) /\ u = Used(m, s, e) /\ Holds(m, d, s, u, c)
  BY DEF Sending
<1>2. PICK d \in Cells(m), s \in 0..(m - 1), r \in 0..(m - 1), e \in 0..m :
        /\ b = Buffer(m, d, s, r, e)
        /\ u \in 0..(m - 1) /\ u = Used(m, s, e) /\ Holds(m, d, s, u, c)
  BY <1>1
<1>3. m < z
  BY <1>2 DEF Buffer
<1>4. \E d2 \in Cells(z) :
           /\ Resized(Buffer(m, d, s, r, e), z) = Buffer(z, d2, 0, Used(m, s, r), u)
           /\ Holds(z, d2, 0, u, c)
  BY <1>2, <1>3, ResizedHolds
<1>5. PICK d2 \in Cells(z) :
           /\ Resized(b, z) = Buffer(z, d2, 0, Used(m, s, r), u)
           /\ Holds(z, d2, 0, u, c)
  BY <1>2, <1>4
<1>6. /\ z \in Size /\ 0 \in 0..(z - 1) /\ Used(m, s, r) \in 0..(z - 1)
      /\ u \in 0..z /\ u \in 0..(z - 1) /\ u = Used(z, 0, u)
  BY <1>2, <1>3 DEF Size, Used
<1> QED BY <1>5, <1>6 DEF Sending

LEMMA ReceivingResized ==
  ASSUME NEW b, NEW u, NEW o, NEW c \in Int, Receiving(b, u, o, c), NEW z \in Nat, b.bufsz < z
  PROVE  Receiving(Resized(b, z), u, o, c)
<1>1. PICK m \in Size : \E d \in Cells(m), s \in 0..(m - 1), r \in 0..(m - 1), e \in 0..(m - 1) :
        /\ b = Buffer(m, d, s, r, e)
        /\ u \in 0..(m - 1) /\ u = Used(m, s, e) /\ Holds(m, d, s, u, c)
        /\ o \in 0..u /\ r = At(m, s, o)
  BY DEF Receiving
<1>2. PICK d \in Cells(m), s \in 0..(m - 1), r \in 0..(m - 1), e \in 0..(m - 1) :
        /\ b = Buffer(m, d, s, r, e)
        /\ u \in 0..(m - 1) /\ u = Used(m, s, e) /\ Holds(m, d, s, u, c)
        /\ o \in 0..u /\ r = At(m, s, o)
  BY <1>1
<1>3. m < z /\ e \in 0..m
  BY <1>2 DEF Buffer, Size
<1>4. \E d2 \in Cells(z) :
           /\ Resized(Buffer(m, d, s, r, e), z) = Buffer(z, d2, 0, Used(m, s, r), u)
           /\ Holds(z, d2, 0, u, c)
  BY <1>2, <1>3, ResizedHolds
<1>5. PICK d2 \in Cells(z) :
           /\ Resized(b, z) = Buffer(z, d2, 0, Used(m, s, r), u)
           /\ Holds(z, d2, 0, u, c)
  BY <1>2, <1>4
<1>6. /\ z \in Size /\ 0 \in 0..(z - 1) /\ Used(m, s, r) \in 0..(z - 1)
      /\ u \in 0..(z - 1) /\ u = Used(z, 0, u) /\ Used(m, s, r) = At(z, 0, o)
  BY <1>2, <1>3 DEF Size, Used, At
<1> QED BY <1>2, <1>5, <1>6 DEF Receiving

LEMMA ReceivingUsed ==
  ASSUME NEW b, NEW u, NEW o, NEW c \in Int, Receiving(b, u, o, c)
  PROVE  /\ u \in Nat /\ o \in 0..u /\ buf_used(b) = u /\ b.bufsz \in Size
         /\ Bytes(b, b.start, u) \in Seq(Int)
         /\ Len(Bytes(b, b.start, u)) = u
         /\ Numbers(Bytes(b, b.start, u), c)
<1>1. Sending(b, u, c)
  <2>1. ASSUME NEW m \in Size, NEW e \in 0..(m - 1) PROVE e \in 0..m
    BY DEF Size
  <2> QED BY <2>1, Zenon DEF Receiving, Sending
<1>2. o \in 0..u
  BY Zenon DEF Receiving
<1>3. u \in 0..u
  BY <1>1, SendingUsed
<1> QED BY <1>1, <1>2, <1>3, SendingUsed

LEMMA ReceivingFill ==
  ASSUME NEW b, NEW u, NEW o, NEW c \in Int, Receiving(b, u, o, c),
         net \in Seq(Int), Numbers(net, c + u), FillBuffer(b).ok
  PROVE  \E n \in 0..Len(net) : /\ FillBuffer(b).n = n
                                /\ Receiving(FillBuffer(b).buf, u + n, o, c)
<1>1. PICK m \in Size : \E d \in Cells(m), s \in 0..(m - 1), r \in 0..(m - 1), e \in 0..(m - 1) :
        /\ b = Buffer(m, d, s, r, e)
        /\ u \in 0..(m - 1) /\ u = Used(m, s, e) /\ Holds(m, d, s, u, c)
        /\ o \in 0..u /\ r = At(m, s, o)
  BY DEF Receiving
<1>2. PICK d \in Cells(m), s \in 0..(m - 1), r \in 0..(m - 1), e \in 0..(m - 1) :
        /\ b = Buffer(m, d, s, r, e)
        /\ u \in 0..(m - 1) /\ u = Used(m, s, e) /\ Holds(m, d, s, u, c)
        /\ o \in 0..u /\ r = At(m, s, o)
  BY <1>1
<1>3. FillOk(m, d, s, r, e) /\ Fill(m, d, s, r, e) = FillBuffer(b)
  BY <1>2 DEF FillOk, Fill
<1>4. \E d2 \in Cells(m), e2 \in 0..(m - 1), n \in 0..Len(net) :
           /\ Fill(m, d, s, r, e).buf = Buffer(m, d2, s, r, e2)
           /\ Fill(m, d, s, r, e).n = n
           /\ Used(m, s, e2) = u + n
           /\ Holds(m, d2, s, u + n, c)
  <2>1. FillGives(m, d, s, r, e, u, c)
    BY <1>2, <1>3, FillHolds
  <2> QED BY <2>1 DEF FillGives
<1>5. PICK d2 \in Cells(m), e2 \in 0..(m - 1), n \in 0..Len(net) :
           /\ FillBuffer(b).buf = Buffer(m, d2, s, r, e2)
           /\ FillBuffer(b).n = n
           /\ Used(m, s, e2) = u + n
           /\ Holds(m, d2, s, u + n, c)
  BY <1>3, <1>4
<1>6. u + n \in 0..(m - 1) /\ o \in 0..(u + n)
  <2>1. Used(m, s, e2) \in 0..(m - 1)
    BY DEF Used, Size
  <2> QED BY <1>2, <1>5, <2>1 DEF Size
<1>7. Receiving(FillBuffer(b).buf, u + n, o, c)
  BY <1>2, <1>5, <1>6 DEF Receiving
<1> QED BY <1>5, <1>7

LEMMA ReceivingTake ==
  ASSUME NEW b, NEW u, NEW o, NEW c \in Int, Receiving(b, u, o, c), NEW len \in Nat,
         NEW n, n = TakeCount(b, len)
  PROVE  /\ n \in Nat /\ n <= len
         /\ Bytes(b, b.read, n) \in Seq(Int) /\ Len(Bytes(b, b.read, n)) = n
         /\ Numbers(Bytes(b, b.read, n), c + o)
         /\ Receiving(Advance(b, n), u, o + n, c)
<1>1. PICK m \in Size : \E d \in Cells(m), s \in 0..(m - 1), r \in 0..(m - 1), e \in 0..(m - 1) :
        /\ b = Buffer(m, d, s, r, e)
        /\ u \in 0..(m - 1) /\ u = Used(m, s, e) /\ Holds(m, d, s, u, c)
        /\ o \in 0..u /\ r = At(m, s, o)
  BY DEF Receiving
<1>2. PICK d \in Cells(m), s \in 0..(m - 1), r \in 0..(m - 1), e \in 0..(m - 1) :
        /\ b = Buffer(m, d, s, r, e)
        /\ u \in 0..(m - 1) /\ u = Used(m, s, e) /\ Holds(m, d, s, u, c)
        /\ o \in 0..u /\ r = At(m, s, o)
  BY <1>1
<1>3. b.start = s /\ b.bufsz = m /\ b.end = e /\ b.read = r
  BY <1>2 DEF Buffer
<1>4. buf_unread(b) = u - o
  <2>1. Used(m, r, e) = u - o
    BY <1>2 DEF Used, At, Size
  <2> QED BY <1>3, <2>1 DEF buf_unread, Used
<1>5. u - o \in Nat /\ u - o = Used(m, r, e)
  BY <1>2 DEF Used, At, Size
<1>6. n \in 0..(u - o) /\ n \in Nat /\ n <= len
  <2>1. CASE e >= r \/ m - r >= len
    <3>1. n = Min({len, u - o})
      BY <1>3, <1>4, <2>1 DEF TakeCount
    <3>2. n = IF len <= u - o THEN len ELSE u - o
      BY <1>5, <3>1, PairMin
    <3> QED BY <1>5, <3>2
  <2>2. CASE ~(e >= r \/ m - r >= len)
    <3>1. n = (m - r) + (IF len - (m - r) >= e THEN e ELSE len - (m - r))
      BY <1>3, <2>2 DEF TakeCount
    <3>2. u - o = e + m - r
      BY <1>2, <1>5, <2>2 DEF Used, Size
    <3> QED BY <1>2, <2>2, <3>1, <3>2 DEF Size
  <2> QED BY <2>1, <2>2
<1>7. /\ Bytes(b, r, n) \in Seq(Int) /\ Len(Bytes(b, r, n)) = n
      /\ Numbers(Bytes(b, r, n), c + o)
  BY <1>2, <1>6, BytesNumbers
<1> DEFINE r2 == IF r + n >= m THEN r + n - m ELSE r + n
<1>8. r2 \in 0..(m - 1) /\ r2 = At(m, s, o + n) /\ o + n \in 0..u
  BY <1>2, <1>6 DEF At, Size
<1> HIDE DEF r2
<1>9. [b EXCEPT !.read = r2] = Buffer(m, d, s, r2, e)
  BY <1>2 DEF Buffer
<1>10. Receiving([b EXCEPT !.read = r2], u, o + n, c)
  BY <1>2, <1>8, <1>9 DEF Receiving
<1>11. Advance(b, n) = [b EXCEPT !.read = r2]
  <2> DEFINE q == IF b.read + n >= b.bufsz THEN b.read + n - b.bufsz ELSE b.read + n
  <2>1. Advance(b, n) = [b EXCEPT !.read = q]
    BY Zenon DEF Advance
  <2>2. q = r2
    BY <1>3 DEF r2
  <2> HIDE DEF q
  <2> QED BY <2>1, <2>2, Zenon
<1>12. Receiving(Advance(b, n), u, o + n, c)
  BY <1>10, <1>11, Zenon
<1> QED BY <1>3, <1>6, <1>7, <1>12

LEMMA ReceivingReset ==
  ASSUME NEW b, NEW u, NEW o, NEW c \in Int, Receiving(b, u, o, c)
  PROVE  Receiving([b EXCEPT !.read = b.start], u, 0, c)
<1>1. PICK m \in Size : \E d \in Cells(m), s \in 0..(m - 1), r \in 0..(m - 1), e \in 0..(m - 1) :
        /\ b = Buffer(m, d, s, r, e)
        /\ u \in 0..(m - 1) /\ u = Used(m, s, e) /\ Holds(m, d, s, u, c)
        /\ o \in 0..u /\ r = At(m, s, o)
  BY DEF Receiving
<1>2. PICK d \in Cells(m), s \in 0..(m - 1), r \in 0..(m - 1), e \in 0..(m - 1) :
        /\ b = Buffer(m, d, s, r, e)
        /\ u \in 0..(m - 1) /\ u = Used(m, s, e) /\ Holds(m, d, s, u, c)
        /\ o \in 0..u /\ r = At(m, s, o)
  BY <1>1
<1>3. [b EXCEPT !.read = b.start] = Buffer(m, d, s, s, e)
  BY <1>2 DEF Buffer
<1>4. 0 \in 0..u /\ s = At(m, s, 0)
  BY <1>2 DEF At, Size
<1> QED BY <1>2, <1>3, <1>4 DEF Receiving

LEMMA ReceivingFlush ==
  ASSUME NEW b, NEW u, NEW o, NEW c \in Int, Receiving(b, u, o, c)
  PROVE  Receiving([b EXCEPT !.start = b.read], u - o, 0, c + o)
<1>1. PICK m \in Size : \E d \in Cells(m), s \in 0..(m - 1), r \in 0..(m - 1), e \in 0..(m - 1) :
        /\ b = Buffer(m, d, s, r, e)
        /\ u \in 0..(m - 1) /\ u = Used(m, s, e) /\ Holds(m, d, s, u, c)
        /\ o \in 0..u /\ r = At(m, s, o)
  BY DEF Receiving
<1>2. PICK d \in Cells(m), s \in 0..(m - 1), r \in 0..(m - 1), e \in 0..(m - 1) :
        /\ b = Buffer(m, d, s, r, e)
        /\ u \in 0..(m - 1) /\ u = Used(m, s, e) /\ Holds(m, d, s, u, c)
        /\ o \in 0..u /\ r = At(m, s, o)
  BY <1>1
<1>3. [b EXCEPT !.start = b.read] = Buffer(m, d, r, r, e)
  BY <1>2 DEF Buffer
<1>4. /\ 0 \in 0..(u - o) /\ r = At(m, r, 0) /\ u - o \in 0..(m - 1)
      /\ u - o = Used(m, r, e)
  BY <1>2 DEF At, Used, Size
<1>5. Holds(m, d, r, u - o, c + o)
  BY <1>2, Shorten
<1> QED BY <1>3, <1>4, <1>5 DEF Receiving

(***************************************************************************)
(* The invariant: while the connection is up, the two rings and the stream *)
(* between them hold consecutive pieces of what was sent.                  *)
(***************************************************************************)
Connected(us, ur) ==
  /\ us \in Nat /\ ur \in Nat
  /\ Receiving(rcv, ur, Len(got), flushed)
  /\ Numbers(net, flushed + ur)
  /\ Sending(snd, us, flushed + ur + Len(net))
  /\ queued = flushed + ur + Len(net) + us
  /\ spc = "direct" => us = 0

Typed == /\ alive \in BOOLEAN /\ short \in BOOLEAN
         /\ net \in Seq(Int) /\ got \in Seq(Int)
         /\ queued \in Nat /\ slen \in Nat /\ flushed \in Nat
         /\ Numbers(got, flushed)

IInv == Typed /\ (alive => \E us, ur \in Nat : Connected(us, ur))

LEMMA NewBytesNumbers ==
  ASSUME NEW len \in Nat, queued \in Nat
  PROVE  /\ NewBytes(len) \in Seq(Int) /\ Len(NewBytes(len)) = len
         /\ Numbers(NewBytes(len), queued)
<1>1. NewBytes(len) \in [1..len -> Int]
  BY DEF NewBytes
<1>2. NewBytes(len) \in Seq(Int) /\ Len(NewBytes(len)) = len
  BY <1>1
<1>3. \A k \in 1..len : NewBytes(len)[k] = queued + k - 1
  BY DEF NewBytes
<1> QED BY <1>2, <1>3 DEF Numbers

LEMMA EmptyNumbers ==
  ASSUME NEW c
  PROVE  <<>> \in Seq(Int) /\ Len(<<>>) = 0 /\ Numbers(<<>>, c)
BY DEF Numbers

LEMMA InitHolds == Init => IInv
<1> SUFFICES ASSUME Init PROVE IInv
  OBVIOUS
<1>1. Typed
  <2>1. net = <<>> /\ got = <<>> /\ flushed = 0 /\ queued = 0 /\ slen = 0 /\ alive = TRUE
        /\ short = FALSE
    BY DEF Init
  <2> QED BY <2>1, EmptyNumbers DEF Typed
<1>2. Connected(0, 0)
  <2>1. /\ rcv = NewBuffer(SmallSize) /\ snd = NewBuffer(SmallSize) /\ spc = "idle"
        /\ flushed = 0 /\ Len(net) = 0 /\ Len(got) = 0 /\ queued = 0 /\ Numbers(net, 0)
    BY EmptyNumbers DEF Init
  <2>2. Sending(snd, 0, 0) /\ Receiving(rcv, 0, 0, 0)
    BY <2>1, SizeAssumption, FreshHolds DEF Size
  <2> QED BY <2>1, <2>2 DEF Connected
<1> QED BY <1>1, <1>2 DEF IInv

LEMMA FreshIInv == Fresh => IInv'
<1> SUFFICES ASSUME Fresh PROVE IInv'
  OBVIOUS
<1>1. Typed'
  <2>1. net' = <<>> /\ got' = <<>> /\ flushed' = 0 /\ queued' = 0 /\ slen' = 0 /\ alive' = TRUE
        /\ short' = FALSE
    BY DEF Fresh
  <2> QED BY <2>1, EmptyNumbers DEF Typed
<1>2. Connected(0, 0)'
  <2>1. /\ rcv' = NewBuffer(SmallSize) /\ snd' = NewBuffer(SmallSize) /\ spc' = "idle"
        /\ flushed' = 0 /\ Len(net') = 0 /\ Len(got') = 0 /\ queued' = 0 /\ Numbers(net', 0)
    BY EmptyNumbers DEF Fresh
  <2>2. Sending(snd', 0, 0) /\ Receiving(rcv', 0, 0, 0)
    BY <2>1, SizeAssumption, FreshHolds DEF Size
  <2> QED BY <2>1, <2>2 DEF Connected
<1> QED BY <1>1, <1>2 DEF IInv

LEMMA PutStep ==
  ASSUME IInv, alive, NEW len \in Nat, buf_remaining(snd) >= len,
         snd' = Put(snd, NewBytes(len)), queued' = queued + len,
         spc' = "idle", slen' \in Nat, UNCHANGED <<net, receiver>>
  PROVE  IInv'
<1>1. PICK us \in Nat, ur \in Nat : Connected(us, ur)
  BY DEF IInv
<1>2. Typed
  BY DEF IInv
<1>3. /\ rcv' = rcv /\ net' = net /\ alive' = alive /\ short' = short
      /\ got' = got /\ flushed' = flushed
  BY DEF receiver
<1> DEFINE c == flushed + ur + Len(net)
<1>4. c \in Int /\ queued = c + us /\ queued \in Nat
  BY <1>1, <1>2 DEF Typed, Connected
<1>5. Sending(snd, us, c)
  BY <1>1 DEF Connected
<1>6. /\ NewBytes(len) \in Seq(Int) /\ Len(NewBytes(len)) = len
      /\ Numbers(NewBytes(len), c + us)
  BY <1>4, NewBytesNumbers
<1> HIDE DEF c
<1>7. Sending(snd', us + len, c)
  BY <1>4, <1>5, <1>6, SendingPut
<1>8. us + len \in Nat /\ queued' = c + (us + len)
  BY <1>4
<1>9. Connected(us + len, ur)'
  BY <1>1, <1>3, <1>7, <1>8 DEF Connected, c
<1>10. Typed'
  BY <1>2, <1>3 DEF Typed
<1> QED BY <1>8, <1>9, <1>10 DEF IInv

LEMMA TakeStep ==
  ASSUME IInv, alive, NEW n \in 1..buf_used(snd), SendBytes(n),
         spc # "direct", UNCHANGED <<spc, slen, queued, receiver>>
  PROVE  IInv'
<1>1. PICK us \in Nat, ur \in Nat : Connected(us, ur)
  BY DEF IInv
<1>2. Typed
  BY DEF IInv
<1>3. /\ rcv' = rcv /\ alive' = alive /\ short' = short /\ got' = got /\ flushed' = flushed
      /\ spc' = spc /\ slen' = slen /\ queued' = queued
  BY DEF receiver
<1> DEFINE c == flushed + ur + Len(net)
           bytes == Bytes(snd, snd.start, n)
<1>4. c \in Int /\ flushed + ur \in Int /\ Len(net) \in Nat /\ queued = c + us
  BY <1>1, <1>2 DEF Typed, Connected
<1>5. Sending(snd, us, c)
  BY <1>1 DEF Connected
<1>6. n \in 1..us /\ n \in 0..us
  BY <1>4, <1>5, SendingUsed
<1>7. bytes \in Seq(Int) /\ Len(bytes) = n /\ Numbers(bytes, c)
  BY <1>4, <1>5, <1>6, SendingUsed
<1>8. Sending(AfterSend(snd, n), us - n, c + n)
  <2> HIDE DEF c
  <2> QED BY <1>4, <1>5, <1>6, SendingTake
<1> HIDE DEF bytes
<1>9. snd' = AfterSend(snd, n) /\ net' = net \o bytes
  BY DEF SendBytes, bytes
<1>10. net' \in Seq(Int) /\ Len(net') = Len(net) + n /\ Numbers(net', flushed + ur)
  <2>1. net \in Seq(Int) /\ Numbers(net, flushed + ur)
    BY <1>1, <1>2 DEF Typed, Connected
  <2>2. /\ net \o bytes \in Seq(Int) /\ Len(net \o bytes) = Len(net) + Len(bytes)
        /\ Numbers(net \o bytes, flushed + ur)
    BY <1>4, <1>7, <2>1, NumbersConcat
  <2> QED BY <1>7, <1>9, <2>2
<1>11. flushed + ur + Len(net') = c + n /\ us - n \in Nat /\ queued = (c + n) + (us - n)
  BY <1>4, <1>6, <1>10
<1>12. Connected(us - n, ur)'
  <2> HIDE DEF c
  <2> QED BY <1>1, <1>3, <1>8, <1>9, <1>10, <1>11 DEF Connected
<1>13. Typed'
  BY <1>2, <1>3, <1>10 DEF Typed
<1> QED BY <1>11, <1>12, <1>13 DEF IInv

LEMMA DirectStep == IInv /\ SendDirect => IInv'
<1> SUFFICES ASSUME IInv, SendDirect PROVE IInv'
  OBVIOUS
<1>1. PICK us \in Nat, ur \in Nat : Connected(us, ur)
  BY DEF IInv, SendDirect
<1>2. Typed
  BY DEF IInv
<1>3. /\ rcv' = rcv /\ alive' = alive /\ short' = short /\ got' = got /\ flushed' = flushed
      /\ snd' = snd
  BY DEF receiver, SendDirect
<1>4. PICK n \in 1..Min({slen, Space}) :
        /\ net' = net \o NewBytes(n)
        /\ queued' = queued + n
        /\ slen' = slen - n
        /\ spc' = IF n = slen THEN "idle" ELSE "direct"
  BY DEF SendDirect
<1>5. us = 0 /\ queued = flushed + ur + Len(net)
  BY <1>1, <1>2 DEF SendDirect, Connected, Typed
<1>6. slen \in Nat /\ n \in 1..slen /\ n \in Nat
  <2>1. slen \in Int /\ Space \in Int
    BY <1>2, NetAssumption DEF Typed, Space
  <2>2. Min({slen, Space}) = IF slen <= Space THEN slen ELSE Space
    BY <2>1, PairMin
  <2> QED BY <1>2, <2>1, <2>2 DEF Typed
<1>7. net' \in Seq(Int) /\ Len(net') = Len(net) + n /\ Numbers(net', flushed + ur)
  <2>1. /\ net \in Seq(Int) /\ Numbers(net, flushed + ur) /\ flushed + ur \in Int
        /\ queued \in Nat
    BY <1>1, <1>2 DEF Typed, Connected
  <2>2. /\ NewBytes(n) \in Seq(Int) /\ Len(NewBytes(n)) = n
        /\ Numbers(NewBytes(n), (flushed + ur) + Len(net))
    BY <1>5, <1>6, <2>1, NewBytesNumbers
  <2>3. /\ net \o NewBytes(n) \in Seq(Int)
        /\ Len(net \o NewBytes(n)) = Len(net) + Len(NewBytes(n))
        /\ Numbers(net \o NewBytes(n), flushed + ur)
    BY <2>1, <2>2, NumbersConcat
  <2> QED BY <1>4, <2>2, <2>3
<1>8. Sending(snd, 0, flushed + ur + Len(net'))
  <2>1. Sending(snd, 0, flushed + ur + Len(net))
    BY <1>1, <1>5 DEF Connected
  <2>2. ASSUME NEW c, NEW x, Sending(snd, 0, c) PROVE Sending(snd, 0, x)
    <3>1. ASSUME NEW m, NEW d, NEW s PROVE Holds(m, d, s, 0, x)
      BY DEF Holds
    <3> QED BY <2>2, <3>1, Zenon DEF Sending
  <2> QED BY <2>1, <2>2
<1>9. queued' = flushed + ur + Len(net') + 0
  <2>1. flushed \in Nat /\ Len(net) \in Nat
    BY <1>2 DEF Typed
  <2> QED BY <1>4, <1>5, <1>7, <2>1
<1>10. Connected(0, ur)'
  BY <1>1, <1>3, <1>7, <1>8, <1>9 DEF Connected
<1>11. Typed'
  BY <1>2, <1>3, <1>4, <1>6, <1>7 DEF Typed
<1> QED BY <1>10, <1>11 DEF IInv

(* netplay_recv: from the stream into the ring, from the ring to the reader *)
LEMMA RecvStep ==
  ASSUME IInv, NEW len \in Lengths, netplay_recv(len)
  PROVE  IInv'
<1> DEFINE f == FillBuffer(rcv)
           n == TakeCount(f.buf, len)
           bytes == Bytes(f.buf, f.buf.read, n)
<1>1. PICK us \in Nat, ur \in Nat : Connected(us, ur)
  BY DEF IInv, netplay_recv
<1>2. Typed
  BY DEF IInv
<1>3. snd' = snd /\ spc' = spc /\ slen' = slen /\ queued' = queued
  BY DEF sender, netplay_recv
<1>4. CASE ~f.ok
  <2>1. alive' = FALSE /\ short' = short /\ got' = got /\ flushed' = flushed /\ net' = net
    BY <1>4 DEF netplay_recv
  <2>2. Typed'
    BY <1>2, <1>3, <2>1 DEF Typed
  <2> QED BY <2>1, <2>2 DEF IInv
<1>5. CASE f.ok
  <2>0. /\ rcv' = Advance(f.buf, n)
        /\ got' = got \o bytes
        /\ short' = (n < len)
        /\ net' = SubSeq(net, f.n + 1, Len(net))
        /\ UNCHANGED <<alive, flushed>>
    BY <1>5, Zenon DEF netplay_recv
  <2>1. /\ rcv' = Advance(f.buf, n)
        /\ got' = got \o bytes
        /\ short' = (n < len)
        /\ net' = SubSeq(net, f.n + 1, Len(net))
        /\ alive' = alive /\ flushed' = flushed
    <3> HIDE DEF f, n, bytes
    <3>1. UNCHANGED <<alive, flushed>>
      BY <2>0, Zenon
    <3>2. alive' = alive /\ flushed' = flushed
      BY <3>1
    <3> QED BY <2>0, <3>2, Zenon
  <2> DEFINE o == Len(got)
  <2>2. /\ net \in Seq(Int) /\ Numbers(net, flushed + ur) /\ flushed \in Int /\ o \in Nat
        /\ Receiving(rcv, ur, o, flushed)
        /\ flushed + ur \in Int /\ Len(net) \in Nat /\ len \in Nat
    BY <1>1, <1>2, NetAssumption DEF Typed, Connected
  <2>3. \E x \in 0..Len(net) : f.n = x /\ Receiving(f.buf, ur + x, o, flushed)
    BY <1>5, <2>2, ReceivingFill
  <2>4. PICK x \in 0..Len(net) : f.n = x /\ Receiving(f.buf, ur + x, o, flushed)
    BY <2>3
  <2> HIDE DEF f
  <2>5. /\ n \in Nat /\ n <= len
        /\ bytes \in Seq(Int) /\ Len(bytes) = n /\ Numbers(bytes, flushed + o)
        /\ Receiving(rcv', ur + x, o + n, flushed)
    BY <2>1, <2>2, <2>4, ReceivingTake
  <2> HIDE DEF n, bytes
  <2>6. got' \in Seq(Int) /\ Len(got') = o + n /\ Numbers(got', flushed)
    <3>1. got \in Seq(Int) /\ Numbers(got, flushed)
      BY <1>2 DEF Typed
    <3>2. /\ got \o bytes \in Seq(Int) /\ Len(got \o bytes) = Len(got) + Len(bytes)
          /\ Numbers(got \o bytes, flushed)
      BY <2>2, <2>5, <3>1, NumbersConcat
    <3> QED BY <2>1, <2>5, <3>2
  <2>7. /\ net' \in Seq(Int) /\ Len(net') = Len(net) - x
        /\ Numbers(net', flushed + (ur + x))
    <3>1. PICK l \in Nat : l = Len(net)
      BY <2>2
    <3>2. PICK i, z, v, w : /\ i = x + 1 /\ z = l - x /\ v = flushed + ur
                            /\ w = flushed + (ur + x)
      OBVIOUS
    <3>3. /\ i \in 1..(l + 1) /\ l \in (i - 1)..l
          /\ z = l - i + 1 /\ v \in Int /\ w = v + i - 1
      BY <2>2, <2>4, <3>1, <3>2
    <3>4. IsPart(net', net, i, l)
      BY <2>1, <2>4, <3>1, <3>2 DEF IsPart
    <3>5. Counts(net, l, v)
      BY <2>2, <3>1, <3>2 DEF Counts
    <3>6. Counts(net', z, w)
      BY <3>3, <3>4, <3>5, NumbersPart
    <3> QED BY <3>1, <3>2, <3>6 DEF Counts
  <2>8. /\ ur + x \in Nat /\ us \in Nat
        /\ flushed + (ur + x) + Len(net') = flushed + ur + Len(net)
    BY <2>2, <2>4, <2>7
  <2>9. Connected(us, ur + x)'
    BY <1>1, <1>3, <2>1, <2>5, <2>6, <2>7, <2>8 DEF Connected
  <2>10. Typed'
    BY <1>2, <1>3, <2>1, <2>6, <2>7 DEF Typed
  <2> QED BY <2>8, <2>9, <2>10 DEF IInv
<1> QED BY <1>4, <1>5

LEMMA ResetStep == IInv /\ netplay_recv_reset => IInv'
<1> SUFFICES ASSUME IInv, netplay_recv_reset PROVE IInv'
  OBVIOUS
<1>1. PICK us \in Nat, ur \in Nat : Connected(us, ur)
  BY DEF IInv, netplay_recv_reset
<1>2. Typed
  BY DEF IInv
<1>3. /\ snd' = snd /\ spc' = spc /\ slen' = slen /\ queued' = queued
      /\ net' = net /\ alive' = alive /\ flushed' = flushed
      /\ rcv' = [rcv EXCEPT !.read = rcv.start] /\ short' = FALSE /\ got' = <<>>
  BY DEF sender, netplay_recv_reset
<1>4. Receiving(rcv', ur, 0, flushed)
  <2>1. flushed \in Int /\ \E o : Receiving(rcv, ur, o, flushed)
    BY <1>1, <1>2 DEF Connected, Typed
  <2>2. Receiving([rcv EXCEPT !.read = rcv.start], ur, 0, flushed)
    BY <2>1, ReceivingReset
  <2> QED BY <1>3, <2>2
<1>5. got' \in Seq(Int) /\ Len(got') = 0 /\ Numbers(got', flushed)
  BY <1>3, EmptyNumbers
<1>6. Connected(us, ur)'
  BY <1>1, <1>3, <1>4, <1>5 DEF Connected
<1>7. Typed'
  BY <1>2, <1>3, <1>5 DEF Typed
<1> QED BY <1>6, <1>7 DEF IInv

LEMMA FlushStep == IInv /\ netplay_recv_flush => IInv'
<1> SUFFICES ASSUME IInv, netplay_recv_flush PROVE IInv'
  OBVIOUS
<1>1. PICK us \in Nat, ur \in Nat : Connected(us, ur)
  BY DEF IInv, netplay_recv_flush
<1>2. Typed
  BY DEF IInv
<1> DEFINE o == Len(got)
<1>3. /\ snd' = snd /\ spc' = spc /\ slen' = slen /\ queued' = queued
      /\ net' = net /\ alive' = alive /\ flushed' = flushed + o
      /\ rcv' = [rcv EXCEPT !.start = rcv.read] /\ short' = short /\ got' = <<>>
  BY DEF sender, netplay_recv_flush
<1>4. Receiving(rcv, ur, o, flushed) /\ flushed \in Int /\ o \in Nat
  BY <1>1, <1>2 DEF Connected, Typed
<1>5. o \in 0..ur
  BY <1>4, ReceivingUsed
<1>6. Receiving(rcv', ur - o, 0, flushed')
  BY <1>3, <1>4, ReceivingFlush
<1>7. got' \in Seq(Int) /\ Len(got') = 0 /\ Numbers(got', flushed')
  BY <1>3, EmptyNumbers
<1>8. PICK x \in Nat : x = ur - o
  BY <1>5
<1>9. flushed' + x = flushed + ur /\ flushed' \in Nat
  BY <1>2, <1>3, <1>4, <1>8 DEF Typed
<1>10. Connected(us, x)'
  BY <1>1, <1>3, <1>6, <1>7, <1>8, <1>9 DEF Connected
<1>11. Typed'
  BY <1>2, <1>3, <1>7, <1>9 DEF Typed
<1> QED BY <1>10, <1>11 DEF IInv

LEMMA ResizeStep == IInv /\ (ResizeSend \/ ResizeRecv) => IInv'
<1>1. ASSUME IInv, ResizeSend PROVE IInv'
  <2>1. PICK us \in Nat, ur \in Nat : Connected(us, ur)
    BY <1>1 DEF IInv, ResizeSend
  <2>2. Typed
    BY <1>1 DEF IInv
  <2>3. /\ snd' = Resized(snd, BigSize) /\ snd.bufsz < BigSize
        /\ UNCHANGED <<rcv, net, alive, spc, slen, queued, short, got, flushed>>
    BY <1>1 DEF ResizeSend, receiver
  <2>4. Sending(snd', us, flushed + ur + Len(net))
    <3>1. flushed + ur + Len(net) \in Int
      BY <2>2 DEF Typed
    <3> QED BY <2>1, <2>3, <3>1, SizeAssumption, SendingResized DEF Connected
  <2>5. Connected(us, ur)' /\ Typed'
    BY <2>1, <2>2, <2>3, <2>4 DEF Connected, Typed
  <2> QED BY <2>5 DEF IInv
<1>2. ASSUME IInv, ResizeRecv PROVE IInv'
  <2>1. PICK us \in Nat, ur \in Nat : Connected(us, ur)
    BY <1>2 DEF IInv, ResizeRecv
  <2>2. Typed
    BY <1>2 DEF IInv
  <2>3. /\ rcv' = Resized(rcv, BigSize) /\ rcv.bufsz < BigSize
        /\ UNCHANGED <<snd, net, alive, spc, slen, queued, short, got, flushed>>
    BY <1>2 DEF ResizeRecv, sender
  <2>4. Receiving(rcv', ur, Len(got), flushed)
    <3>1. flushed \in Int
      BY <2>2 DEF Typed
    <3> QED BY <2>1, <2>3, <3>1, SizeAssumption, ReceivingResized DEF Connected
  <2>5. Connected(us, ur)' /\ Typed'
    BY <2>1, <2>2, <2>3, <2>4 DEF Connected, Typed
  <2> QED BY <2>5 DEF IInv
<1> QED BY <1>1, <1>2

(* A receive fails only if what has arrived does not fit in the ring.      *)
LEMMA FillFails ==
  ASSUME NEW b, NEW u, NEW o, NEW c \in Int, Receiving(b, u, o, c),
         net \in Seq(Int), ~FillBuffer(b).ok
  PROVE  u + Len(net) >= b.bufsz
<1>1. PICK m \in Size : \E d \in Cells(m), s \in 0..(m - 1), r \in 0..(m - 1), e \in 0..(m - 1) :
        /\ b = Buffer(m, d, s, r, e)
        /\ u \in 0..(m - 1) /\ u = Used(m, s, e) /\ Holds(m, d, s, u, c)
        /\ o \in 0..u /\ r = At(m, s, o)
  BY DEF Receiving
<1>2. PICK d \in Cells(m), s \in 0..(m - 1), r \in 0..(m - 1), e \in 0..(m - 1) :
        /\ b = Buffer(m, d, s, r, e)
        /\ u \in 0..(m - 1) /\ u = Used(m, s, e) /\ Holds(m, d, s, u, c)
        /\ o \in 0..u /\ r = At(m, s, o)
  BY <1>1
<1>3. b.start = s /\ b.bufsz = m /\ b.end = e /\ b.read = r /\ b.data = d
  BY <1>2 DEF Buffer
<1> DEFINE room == FirstRoom(b)
           l == Len(net)
           n1 == RecvCount(room)
           b1 == [b EXCEPT !.data = Copy(@, b.end, SubSeq(net, 1, n1)), !.end = @ + n1]
           rest == SubSeq(net, n1 + 1, Len(net))
<1>4. room = IF e >= s THEN m - e - (IF s = 0 THEN 1 ELSE 0) ELSE s - e - 1
  BY <1>3 DEF FirstRoom
<1>5. /\ room \in 0..(m - e) /\ room + u < m
      /\ e + room = m => s \in 1..e /\ u = e - s
      /\ room = 0 => u = m - 1
  BY <1>2, <1>4 DEF Used, Size
<1>6. l \in Nat /\ (net # <<>> => l >= 1)
  OBVIOUS
<1> HIDE DEF room
<1>7. n1 = IF room <= l THEN room ELSE l
  <2>1. room \in Int /\ l \in Int
    BY <1>5, <1>6 DEF Size
  <2> QED BY <2>1, RecvCountIs
<1> HIDE DEF n1
<1>8. n1 \in 0..l /\ n1 <= room
  BY <1>5, <1>6, <1>7 DEF Size
<1>9. b1.end = e + n1
  <2>1. ASSUME NEW x, NEW y PROVE [b EXCEPT !.data = x, !.end = y].end = y
    <3>1. [b EXCEPT !.data = x, !.end = y] = [[b EXCEPT !.data = x] EXCEPT !.end = y]
      OBVIOUS
    <3>2. [b EXCEPT !.data = x] = Buffer(m, x, s, r, e)
      BY <1>2 DEF Buffer
    <3>3. [Buffer(m, x, s, r, e) EXCEPT !.end = y].end = y
      BY DEF Buffer
    <3> QED BY <3>1, <3>2, <3>3
  <2>2. b1.end = b.end + n1
    BY <2>1, Zenon
  <2> QED BY <1>3, <2>2
<1>10. RecvClosed(room) \/ (~(e + n1 < m) /\ s = 1 /\ rest # <<>>)
  <2> DEFINE m2 == Min({b.start - 1, Len(rest)})
             b2 == [b1 EXCEPT !.data = Copy(@, 0, SubSeq(rest, 1, m2)), !.end = m2]
  <2>1. FillBuffer(b) =
          IF RecvClosed(room) THEN [ok |-> FALSE, buf |-> b, n |-> 0]
          ELSE IF b1.end < b.bufsz THEN [ok |-> TRUE, buf |-> b1, n |-> n1]
          ELSE IF b.start = 1 /\ rest # <<>>
            THEN [ok |-> FALSE, buf |-> [b1 EXCEPT !.end = 0], n |-> n1]
          ELSE [ok |-> TRUE, n |-> n1 + m2, buf |-> b2]
    BY Zenon DEF FillBuffer, n1, room
  <2> HIDE DEF b1, rest, m2, b2
  <2>2. SUFFICES ASSUME ~RecvClosed(room) PROVE ~(e + n1 < m) /\ s = 1 /\ rest # <<>>
    OBVIOUS
  <2>3. ~(b1.end < b.bufsz)
    <3> SUFFICES ASSUME b1.end < b.bufsz PROVE FALSE
      OBVIOUS
    <3>1. FillBuffer(b) = [ok |-> TRUE, buf |-> b1, n |-> n1]
      BY <2>1, <2>2, Zenon
    <3> QED BY <3>1
  <2>4. b.start = 1 /\ rest # <<>>
    <3> SUFFICES ASSUME ~(b.start = 1 /\ rest # <<>>) PROVE FALSE
      OBVIOUS
    <3>1. FillBuffer(b) = [ok |-> TRUE, n |-> n1 + m2, buf |-> b2]
      BY <2>1, <2>2, <2>3, Zenon
    <3> QED BY <3>1
  <2> QED BY <1>3, <1>9, <2>3, <2>4
<1>11. CASE RecvClosed(room)
  BY <1>2, <1>3, <1>5, <1>6, <1>11 DEF RecvClosed, Size
<1>12. CASE ~(e + n1 < m) /\ s = 1 /\ rest # <<>>
  <2>1. n1 < l
    <3> SUFFICES ASSUME n1 = l PROVE FALSE
      BY <1>6, <1>8
    <3>1. rest = <<>>
      BY DEF rest
    <3> QED BY <1>12, <3>1
  <2>2. e + n1 = m /\ u = e - 1
    BY <1>2, <1>5, <1>8, <1>12 DEF Size
  <2> QED BY <1>2, <1>3, <1>6, <1>8, <2>1, <2>2 DEF Size
<1> QED BY <1>10, <1>11, <1>12

LEMMA SendStep == IInv /\ Send => IInv'
<1>1. ASSUME IInv, NEW len \in Lengths, netplay_send(len) PROVE IInv'
  <2>1. CASE buf_remaining(snd) >= len
    <3>1. /\ alive /\ snd' = Put(snd, NewBytes(len)) /\ queued' = queued + len
          /\ spc' = spc /\ slen' = slen /\ spc = "idle" /\ UNCHANGED <<net, receiver>>
      BY <1>1, <2>1 DEF netplay_send
    <3>2. len \in Nat /\ slen' \in Nat
      BY <1>1, <3>1, NetAssumption DEF IInv, Typed
    <3> QED BY <1>1, <2>1, <3>1, <3>2, PutStep
  <2>2. CASE ~(buf_remaining(snd) >= len)
    <3>1. /\ spc' = "flush" /\ slen' = len
          /\ UNCHANGED <<snd, queued, net, rcv, alive, short, got, flushed>>
      BY <1>1, <2>2 DEF netplay_send, receiver
    <3>2. ASSUME NEW us, NEW ur, Connected(us, ur) PROVE Connected(us, ur)'
      BY <3>1, <3>2 DEF Connected
    <3>3. Typed'
      BY <1>1, <3>1, NetAssumption DEF IInv, Typed
    <3> QED BY <1>1, <3>1, <3>2, <3>3 DEF IInv
  <2> QED BY <2>1, <2>2
<1>2. ASSUME IInv, netplay_send_flush \/ FlushBlocking PROVE IInv'
  <2>1. /\ alive /\ spc # "direct" /\ UNCHANGED <<spc, slen, queued, receiver>>
        /\ \E n \in 1..Min({buf_used(snd), Space}) : SendBytes(n)
    BY <1>2 DEF netplay_send_flush, FlushBlocking
  <2>2. PICK n \in 1..Min({buf_used(snd), Space}) : SendBytes(n)
    BY <2>1
  <2>3. n \in 1..buf_used(snd)
    <3>1. PICK us \in Nat, ur \in Nat : Connected(us, ur)
      BY <1>2, <2>1 DEF IInv
    <3>2. buf_used(snd) \in Int
      <4>1. Sending(snd, us, flushed + ur + Len(net)) /\ flushed + ur + Len(net) \in Int
        BY <1>2, <3>1 DEF Connected, IInv, Typed
      <4> QED BY <4>1, SendingUsed
    <3>3. Space \in Int
      BY <1>2, NetAssumption DEF Space, IInv, Typed
    <3>4. Min({buf_used(snd), Space}) = IF buf_used(snd) <= Space THEN buf_used(snd) ELSE Space
      BY <3>2, <3>3, PairMin
    <3> QED BY <3>2, <3>3, <3>4
  <2> QED BY <1>2, <2>1, <2>2, <2>3, TakeStep
<1>3. ASSUME IInv, Flushed PROVE IInv'
  <2>1. CASE buf_remaining(snd) >= slen
    <3>1. /\ alive /\ snd' = Put(snd, NewBytes(slen)) /\ queued' = queued + slen
          /\ spc' = "idle" /\ slen' = 0 /\ UNCHANGED <<net, receiver>>
      BY <1>3, <2>1 DEF Flushed
    <3>2. slen \in Nat /\ slen' \in Nat
      BY <1>3, <3>1 DEF IInv, Typed
    <3> QED BY <1>3, <2>1, <3>1, <3>2, PutStep
  <2>2. CASE ~(buf_remaining(snd) >= slen)
    <3>1. /\ spc' = "direct" /\ buf_used(snd) = 0 /\ alive
          /\ UNCHANGED <<snd, slen, queued, net, rcv, alive, short, got, flushed>>
      BY <1>3, <2>2 DEF Flushed, receiver
    <3>2. PICK us \in Nat, ur \in Nat : Connected(us, ur)
      BY <1>3, <3>1 DEF IInv
    <3>3. us = 0
      <4>1. Sending(snd, us, flushed + ur + Len(net)) /\ flushed + ur + Len(net) \in Int
        BY <1>3, <3>2 DEF Connected, IInv, Typed
      <4> QED BY <3>1, <4>1, SendingUsed
    <3>4. Connected(us, ur)' /\ Typed'
      BY <1>3, <3>1, <3>2, <3>3 DEF Connected, IInv, Typed
    <3> QED BY <3>4 DEF IInv
  <2> QED BY <2>1, <2>2
<1> QED BY <1>1, <1>2, <1>3, DirectStep DEF Send

LEMMA NextHolds == IInv /\ [Next]_vars => IInv'
<1>1. ASSUME IInv, Recv PROVE IInv'
  BY <1>1, RecvStep, ResetStep, FlushStep DEF Recv
<1>2. ASSUME IInv, Reconnect PROVE IInv'
  BY <1>2, FreshIInv DEF Reconnect
<1>3. ASSUME IInv, UNCHANGED vars PROVE IInv'
  <2>1. UNCHANGED <<snd, rcv, net, alive, spc, slen, queued, short, got, flushed>>
    BY <1>3 DEF vars
  <2>2. ASSUME NEW us, NEW ur, Connected(us, ur) PROVE Connected(us, ur)'
    BY <2>1, <2>2 DEF Connected
  <2>3. Typed'
    BY <1>3, <2>1 DEF IInv, Typed
  <2> QED BY <1>3, <2>1, <2>2, <2>3 DEF IInv
<1> QED BY <1>1, <1>2, <1>3, SendStep, ResizeStep DEF Next

LEMMA Invariant == Spec => []IInv
BY InitHolds, NextHolds, PTL DEF Spec

LEMMA NumbersCount ==
  ASSUME NEW x \in Seq(Int), NEW n \in Nat, n = Len(x), NEW c \in Int, Numbers(x, c)
  PROVE  x = Count(c, n)
<1>1. \A k \in 1..n : x[k] = c + k - 1
  BY DEF Numbers
<1>2. x = [k \in 1..n |-> x[k]]
  OBVIOUS
<1> QED BY <1>1, <1>2 DEF Count

(* The receive buffer, the stream and the send buffer hold, in this order, *)
(* exactly the bytes given to netplay_send and not yet flushed by the      *)
(* reader: netplay_send, netplay_send_flush, netplay_recv and              *)
(* netplay_resize_socket_buffer around every edge of the rings.            *)
THEOREM NoByteIsLost == Spec => []NoByteLost
<1>1. IInv => NoByteLost
  <2> SUFFICES ASSUME IInv, alive
               PROVE  Bytes(rcv, rcv.start, buf_used(rcv)) \o net
                        \o Bytes(snd, snd.start, buf_used(snd))
                      = Count(flushed, queued - flushed)
    BY DEF NoByteLost
  <2>1. PICK us \in Nat, ur \in Nat : Connected(us, ur)
    BY DEF IInv
  <2>2. flushed \in Int /\ flushed + ur \in Int /\ net \in Seq(Int) /\ Numbers(net, flushed + ur)
        /\ Len(net) \in Nat
    BY <2>1 DEF IInv, Typed, Connected
  <2> DEFINE c == flushed + ur + Len(net)
             a == Bytes(rcv, rcv.start, buf_used(rcv))
             z == Bytes(snd, snd.start, buf_used(snd))
  <2>3. c \in Int /\ Sending(snd, us, c) /\ Receiving(rcv, ur, Len(got), flushed)
        /\ queued = c + us
    BY <2>1, <2>2 DEF Connected
  <2>4. a \in Seq(Int) /\ Len(a) = ur /\ Numbers(a, flushed)
    BY <2>2, <2>3, ReceivingUsed
  <2> HIDE DEF c, a
  <2>5. z \in Seq(Int) /\ Len(z) = us /\ Numbers(z, c)
    <3>1. us \in 0..us /\ buf_used(snd) = us
      BY <2>3, SendingUsed
    <3> QED BY <2>3, <3>1, SendingUsed
  <2> HIDE DEF z
  <2>6. /\ a \o net \in Seq(Int) /\ Len(a \o net) = ur + Len(net)
        /\ Numbers(a \o net, flushed)
    BY <2>2, <2>4, NumbersConcat
  <2>7. c = flushed + Len(a \o net)
    BY <2>2, <2>6 DEF c
  <2>8. /\ (a \o net) \o z \in Seq(Int) /\ Len((a \o net) \o z) = Len(a \o net) + us
        /\ Numbers((a \o net) \o z, flushed)
    BY <2>2, <2>5, <2>6, <2>7, NumbersConcat
  <2>9. queued - flushed \in Nat /\ queued - flushed = Len((a \o net) \o z)
    BY <2>2, <2>3, <2>6, <2>7, <2>8
  <2>10. (a \o net) \o z = Count(flushed, queued - flushed)
    BY <2>2, <2>8, <2>9, NumbersCount
  <2> QED BY <2>10 DEF a, z
<1> QED BY <1>1, Invariant, PTL

(* netplay_recv gives the reader the bytes of a command in order, and      *)
(* after netplay_recv_reset from the first one again.                      *)
THEOREM ReadsInOrder == Spec => []ReadInOrder
<1>1. IInv => ReadInOrder
  <2> SUFFICES ASSUME IInv PROVE got = Count(flushed, Len(got))
    BY DEF ReadInOrder
  <2>1. got \in Seq(Int) /\ Len(got) \in Nat /\ flushed \in Int /\ Numbers(got, flushed)
    BY DEF IInv, Typed
  <2> QED BY <2>1, NumbersCount
<1> QED BY <1>1, Invariant, PTL

(* netplay_recv fails only when more has arrived than the ring can hold    *)
(* beside the part of a command that is in it already.                     *)
THEOREM HangsUpWhenFull == Spec => HangsUpOnlyWhenFull
<1>1. IInv /\ [Next]_vars => (alive /\ ~alive' => buf_used(rcv) + Len(net) >= rcv.bufsz)
  <2> SUFFICES ASSUME IInv, Next, alive, ~alive'
               PROVE  buf_used(rcv) + Len(net) >= rcv.bufsz
    BY DEF vars
  <2>1. PICK len \in Lengths : netplay_recv(len)
    <3>1. ASSUME Send PROVE alive' = alive
      BY <3>1 DEF Send, netplay_send, netplay_send_flush, FlushBlocking, Flushed, SendDirect,
                  receiver
    <3>2. ASSUME ResizeSend \/ ResizeRecv \/ Reconnect PROVE alive' = alive
      BY <3>2 DEF ResizeSend, ResizeRecv, Reconnect, receiver
    <3>3. ASSUME netplay_recv_reset \/ netplay_recv_flush PROVE alive' = alive
      BY <3>3 DEF netplay_recv_reset, netplay_recv_flush
    <3> QED BY <3>1, <3>2, <3>3 DEF Next, Recv
  <2>2. ~FillBuffer(rcv).ok
    <3> SUFFICES ASSUME FillBuffer(rcv).ok PROVE FALSE
      OBVIOUS
    <3>1. UNCHANGED <<alive, flushed>>
      BY <2>1, Zenon DEF netplay_recv
    <3> QED BY <3>1
  <2>3. PICK us \in Nat, ur \in Nat : Connected(us, ur)
    BY DEF IInv
  <2>4. flushed \in Int /\ net \in Seq(Int) /\ Receiving(rcv, ur, Len(got), flushed)
    BY <2>3 DEF IInv, Typed, Connected
  <2>5. buf_used(rcv) = ur
    BY <2>4, ReceivingUsed
  <2>6. ur + Len(net) >= rcv.bufsz
    BY <2>2, <2>4, FillFails
  <2> QED BY <2>5, <2>6
<1> QED BY <1>1, Invariant, PTL DEF Spec, HangsUpOnlyWhenFull


==============================================================================
