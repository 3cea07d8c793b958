---------------------------- MODULE RewindProofs ---------------------------
(***************************************************************************)
(* Proofs about RewindPatch and RewindBuffer, for savestates of any size   *)
(* and limits of the counters: a patch undoes the step it was made of and  *)
(* keeps to its maximal size, and the buffer is a stack of savestates that *)
(* never runs past its end.  They come in four parts: what a patch holds   *)
(* and what reading it does; its size; the ring of frames, and what a push *)
(* and a pop make of it; the stack it stands for.                          *)
(*                                                                         *)
(* compress, decompress and the loops of the buffer are recursive          *)
(* functions.  That each is the function its equation describes, and what  *)
(* it returns, is shown by looking at the least argument at which it could *)
(* fail, counted from the end where the function runs from there.          *)
(***************************************************************************)
EXTENDS RewindBuffer, SequenceTheorems, WellFoundedInduction, TLAPS

-----------------------------------------------------------------------------
(* A set of natural numbers that is not empty has a least member. *)
LEMMA LeastMember ==
  ASSUME NEW S \in SUBSET Nat, S # {}
  PROVE  Min(S) \in S /\ \A y \in S : Min(S) <= y
<1> DEFINE R == {ss \in Nat \X Nat : ss[1] < ss[2]}
<1>1. R = OpToRel(<, Nat)
  BY Zenon DEF OpToRel
<1>2. IsWellFoundedOn(R, Nat)
  <2> HIDE DEF R
  <2> QED BY <1>1, NatLessThanWellFounded, Zenon
<1>3. PICK x \in S : \A y \in S : ~(<<y, x>> \in R)
  <2> HIDE DEF R
  <2> QED BY <1>2, WFMin, Zenon
<1>4. ASSUME NEW y \in S PROVE x <= y
  <2>1. x \in Nat /\ y \in Nat
    OBVIOUS
  <2>2. y < x => <<y, x>> \in R
    BY <2>1
  <2>3. ~(y < x)
    BY <1>3, <2>2
  <2> QED BY <2>1, <2>3
<1> QED BY <1>4 DEF Min

(* A function over 1..n is a sequence, and so is what is put behind it. *)
LEMMA AppendToFunction ==
  ASSUME NEW m \in Nat, NEW e, e = [k \in 1..m |-> e[k]], NEW x
  PROVE  Append(e, x) = [k \in 1..(m + 1) |-> IF k <= m THEN e[k] ELSE x]
<1> DEFINE X == {e[k] : k \in 1..m} \cup {x}
<1>1. e \in [1..m -> X] /\ x \in X
  <2>1. \A k \in 1..m : e[k] \in X
    OBVIOUS
  <2>2. x \in X
    OBVIOUS
  <2> HIDE DEF X
  <2> QED BY <2>1, <2>2
<1> HIDE DEF X
<1>2. e \in Seq(X) /\ Len(e) = m
  BY <1>1
<1>3. Append(e, x) \in Seq(X) /\ Len(Append(e, x)) = m + 1
  BY <1>1, <1>2
<1>4. ASSUME NEW k \in 1..(m + 1)
      PROVE  Append(e, x)[k] = IF k <= m THEN e[k] ELSE x
  BY <1>1, <1>2, <1>4
<1>5. Append(e, x) = [k \in 1..(m + 1) |-> Append(e, x)[k]]
  BY <1>3
<1> QED BY <1>4, <1>5

-----------------------------------------------------------------------------
USE WordsAssumption, U16Assumption

-----------------------------------------------------------------------------
(* Where two blocks differ: whatever they hold, the guard words behind     *)
(* them are three equal ones and one that is not.                          *)
IsDiffer(D) ==
  /\ D \in SUBSET (0..(Words + 4))
  /\ Words + 3 \in D
  /\ \A j \in Words..(Words + 2) : j \notin D

LEMMA DifferGuarded ==
  ASSUME NEW old, NEW new
  PROVE  /\ IsDiffer(Differ(old, new))
         /\ \A j \in 0..(Words - 1) : j \in Differ(old, new) <=> old[j + 1] # new[j + 1]
BY DEF IsDiffer, Differ, state_manager_raw_alloc

LEMMA FindChange ==
  ASSUME NEW D, IsDiffer(D), NEW i \in 0..Words, NEW n, n = find_change(D, i)
  PROVE  /\ n \in Nat /\ i + n \in D /\ i + n <= Words + 3
         /\ \A j \in i..(i + n - 1) : j \notin D
<1> DEFINE S == {j \in D : j >= i}
<1>1. S \in SUBSET Nat /\ S # {}
  <2>1. \A j \in D : j \in Nat /\ j <= Words + 4
    BY DEF IsDiffer
  <2>2. Words + 3 \in S
    BY DEF IsDiffer
  <2> QED BY <2>1, <2>2
<1>2. Min(S) \in S /\ \A y \in S : Min(S) <= y
  <2> HIDE DEF S
  <2> QED BY <1>1, LeastMember
<1>3. n = Min(S) - i
  BY DEF find_change
<1>4. PICK m : m = Min(S)
  OBVIOUS
<1>5. m \in D /\ m >= i /\ n = m - i
  BY <1>2, <1>3, <1>4
<1>6. m \in Nat /\ m <= Words + 3
  <2>1. Words + 3 \in S /\ m \in S
    BY <1>2, <1>4 DEF IsDiffer
  <2>2. m \in Nat
    BY <1>1, <2>1
  <2> HIDE DEF S
  <2> QED BY <1>2, <1>4, <2>1, <2>2
<1>7. ASSUME NEW j \in i..(m - 1) PROVE j \notin D
  <2>1. j \in D => j \in S
    BY <1>7
  <2> HIDE DEF S
  <2> QED BY <1>2, <1>4, <1>6, <1>7, <2>1
<1> QED BY <1>5, <1>6, <1>7

LEMMA FindSame ==
  ASSUME NEW D, IsDiffer(D), NEW at \in 0..(Words - 1), at \in D,
         NEW m, m = find_same(D, at)
  PROVE  /\ m \in Nat /\ m >= 1 /\ at + m <= Words
         /\ at + m \notin D /\ at + m + 1 \notin D
<1> DEFINE S == {k \in 0..(Words + 4) : k % 2 = 0 /\ at + k \notin D /\ at + k + 1 \notin D}
<1>1. S \in SUBSET Nat
  OBVIOUS
<1>2. PICK k0 \in 0..(Words + 4) : k0 % 2 = 0 /\ at + k0 \in Words..(Words + 1)
  <2>1. CASE (Words - at) % 2 = 0
    <3>1. Words - at \in 0..(Words + 4) /\ at + (Words - at) \in Words..(Words + 1)
      OBVIOUS
    <3> QED BY <2>1, <3>1
  <2>2. CASE (Words - at) % 2 # 0
    <3>1. Words - at + 1 \in 0..(Words + 4) /\ at + (Words - at + 1) \in Words..(Words + 1)
      OBVIOUS
    <3>2. (Words - at + 1) % 2 = 0
      BY <2>2
    <3> QED BY <3>1, <3>2
  <2> QED BY <2>1, <2>2
<1>3. k0 \in S
  BY <1>2 DEF IsDiffer
<1>4. Min(S) \in S /\ \A y \in S : Min(S) <= y
  <2> HIDE DEF S
  <2> QED BY <1>1, <1>3, LeastMember
<1>5. PICK n : n = Min(S)
  OBVIOUS
<1>6. /\ n \in Nat /\ n % 2 = 0 /\ at + n \notin D /\ at + n + 1 \notin D /\ n <= k0
      /\ n # 0
  BY <1>3, <1>4, <1>5
<1>7. m = IF n > 0 /\ at + n - 1 \notin D THEN n - 1 ELSE n
  BY <1>5 DEF find_same
<1> HIDE DEF S
<1>8. n >= 2
  BY <1>6
<1>9. CASE at + n - 1 \notin D
  <2>1. m = n - 1 /\ at + m = at + n - 1 /\ at + m + 1 = at + n
    BY <1>6, <1>7, <1>9
  <2> QED BY <1>2, <1>6, <1>8, <1>9, <2>1
<1>10. CASE at + n - 1 \in D
  <2>1. m = n
    BY <1>7, <1>10
  <2>2. at + n # Words + 1
    BY <1>6, <1>10 DEF IsDiffer
  <2> QED BY <1>2, <1>6, <2>1, <2>2
<1> QED BY <1>9, <1>10

LEMMA RunLimitIs ==
  ASSUME NEW n \in Nat, n >= 1, NEW r, r = RunLimit(n)
  PROVE  r \in 1..U16 /\ r <= n /\ (r = n \/ r = U16)
<1>1. {n, U16} \in SUBSET Nat /\ {n, U16} # {}
  OBVIOUS
<1>2. Min({n, U16}) \in {n, U16} /\ \A y \in {n, U16} : Min({n, U16}) <= y
  BY <1>1, LeastMember
<1>3. r \in {n, U16} /\ r <= n /\ r <= U16
  BY <1>2 DEF RunLimit
<1> QED BY <1>3

LEMMA LongIs ==
  ASSUME NEW n \in Nat, n <= Words
  PROVE  Min({n, U32}) = n
<1>1. U32 \in Nat /\ n <= U32
  <2>1. (U16 + 1) * (U16 + 1) \in Nat
    OBVIOUS
  <2>2. U32 \in Int
    BY <2>1 DEF U32
  <2> QED BY <2>2, SizeAssumption
<1>2. {n, U32} \in SUBSET Nat /\ {n, U32} # {}
  BY <1>1
<1>3. Min({n, U32}) \in {n, U32} /\ \A y \in {n, U32} : Min({n, U32}) <= y
  <2> HIDE DEF U32
  <2> QED BY <1>2, LeastMember
<1> QED BY <1>1, <1>3

-----------------------------------------------------------------------------
(* What state_manager_raw_compress stores from offset i on, where f stands *)
(* for what it stores from a later offset on.                              *)
LongSkip(skip) == <<0, Min({skip, U32}) % (U16 + 1), Min({skip, U32}) \div (U16 + 1)>>
Run(old, at, changed, skip) == <<changed % (U16 + 1), skip>> \o SubSeq(old, at + 1, at + changed)
Record(old, D, f, i) ==
  LET skip == find_change(D, i)
      at == i + skip
      changed == RunLimit(find_same(D, at))
  IN IF i = Words \/ skip >= Words - i THEN <<0, 0, 0>>
     ELSE IF skip > U16 THEN LongSkip(skip) \o f[at]
     ELSE Run(old, at, changed, skip) \o f[at + changed]

Ends(D, i) == \A j \in i..(Words - 1) : j \notin D

(* The three forms a record has. *)
NoMore(D, i) == i = Words \/ find_change(D, i) >= Words - i
NextChange(D, i, at) == /\ at \in i..(Words - 1) /\ at \in D /\ at - i = find_change(D, i)
                        /\ \A j \in i..(at - 1) : j \notin D
RunAt(D, at, changed) ==
  /\ changed = RunLimit(find_same(D, at))
  /\ changed \in 1..U16 /\ at + changed <= Words
  /\ changed = U16 \/ (at + changed \notin D /\ at + changed + 1 \notin D)

LEMMA LastEnds ==
  ASSUME NEW D, IsDiffer(D), NEW i \in 0..Words, NoMore(D, i)
  PROVE  Ends(D, i)
<1> PICK n : n = find_change(D, i)
  OBVIOUS
<1>1. /\ n \in Nat /\ i + n \in D /\ i + n <= Words + 3
      /\ \A j \in i..(i + n - 1) : j \notin D
  BY FindChange
<1> QED BY <1>1 DEF NoMore, Ends

LEMMA NotLast ==
  ASSUME NEW D, IsDiffer(D), NEW i \in 0..Words, ~NoMore(D, i)
  PROVE  i < Words /\ \E at : NextChange(D, i, at)
<1> PICK n : n = find_change(D, i)
  OBVIOUS
<1>1. /\ n \in Nat /\ i + n \in D /\ i + n <= Words + 3
      /\ \A j \in i..(i + n - 1) : j \notin D
  BY FindChange
<1>2. i # Words /\ ~(n >= Words - i)
  BY DEF NoMore
<1>3. PICK at : at = i + n
  OBVIOUS
<1>4. at \in i..(Words - 1) /\ at \in D /\ at - i = n /\ \A j \in i..(at - 1) : j \notin D
  BY <1>1, <1>2, <1>3
<1> QED BY <1>2, <1>4 DEF NextChange

LEMMA SomeRun ==
  ASSUME NEW D, IsDiffer(D), NEW at \in 0..(Words - 1), at \in D
  PROVE  \E changed : RunAt(D, at, changed)
<1> PICK m : m = find_same(D, at)
  OBVIOUS
<1>1. /\ m \in Nat /\ m >= 1 /\ at + m <= Words
      /\ at + m \notin D /\ at + m + 1 \notin D
  BY FindSame
<1>2. PICK r : r = RunLimit(m)
  OBVIOUS
<1>3. r \in 1..U16 /\ r <= m /\ (r = m \/ r = U16)
  BY <1>1, <1>2, RunLimitIs
<1> QED BY <1>1, <1>2, <1>3 DEF RunAt

IsRecord(r, old, f, i, at, changed) ==
  r = IF at - i > U16 THEN LongSkip(at - i) \o f[at]
      ELSE Run(old, at, changed, at - i) \o f[at + changed]

LEMMA RecordIs ==
  ASSUME NEW D, IsDiffer(D), NEW i \in 0..Words, NEW old, NEW f, ~NoMore(D, i),
         NEW at, NextChange(D, i, at), NEW changed, RunAt(D, at, changed)
  PROVE  IsRecord(Record(old, D, f, i), old, f, i, at, changed)
<1>1. at - i = find_change(D, i) /\ at = i + find_change(D, i)
  <2>1. at \in i..(Words - 1) /\ at - i = find_change(D, i)
    BY DEF NextChange
  <2> QED BY <2>1
<1>2. changed = RunLimit(find_same(D, at))
  BY DEF RunAt
<1> QED BY <1>1, <1>2 DEF Record, NoMore, IsRecord

LEMMA RecordCases ==
  ASSUME NEW D, IsDiffer(D), NEW i \in 0..Words, ~NoMore(D, i)
  PROVE  \E at, changed : /\ NextChange(D, i, at) /\ RunAt(D, at, changed)
                          /\ at \in i..(Words - 1) /\ changed \in 1..U16
                          /\ at + changed \in (i + 1)..Words
<1>1. PICK at : NextChange(D, i, at)
  BY NotLast
<1>2. at \in 0..(Words - 1) /\ at \in D /\ at \in i..(Words - 1)
  BY <1>1 DEF NextChange
<1>3. PICK changed : RunAt(D, at, changed)
  BY <1>2, SomeRun
<1>4. changed \in 1..U16 /\ at + changed <= Words
  BY <1>3 DEF RunAt
<1>5. at + changed \in (i + 1)..Words
  BY <1>2, <1>4
<1> QED BY <1>1, <1>2, <1>3, <1>4, <1>5

LEMMA RecordSame ==
  ASSUME NEW D, IsDiffer(D), NEW i \in 0..Words, NEW old, NEW f, NEW g,
         \A j \in (i + 1)..Words : f[j] = g[j]
  PROVE  Record(old, D, f, i) = Record(old, D, g, i)
<1>1. CASE NoMore(D, i)
  BY <1>1 DEF NoMore, Record
<1>2. CASE ~NoMore(D, i)
  <2>1. PICK at, changed : /\ NextChange(D, i, at) /\ RunAt(D, at, changed)
                           /\ at \in i..(Words - 1) /\ changed \in 1..U16
                           /\ at + changed \in (i + 1)..Words
    BY <1>2, RecordCases
  <2>2. f[at + changed] = g[at + changed]
    BY <2>1
  <2>3. at - i > U16 => f[at] = g[at]
    BY <2>1
  <2>4. IsRecord(Record(old, D, f, i), old, f, i, at, changed)
    BY <1>2, <2>1, RecordIs
  <2>5. IsRecord(Record(old, D, g, i), old, g, i, at, changed)
    BY <1>2, <2>1, RecordIs
  <2> QED BY <2>2, <2>3, <2>4, <2>5 DEF IsRecord
<1> QED BY <1>1, <1>2

(* The patch, from each offset from n on *)
IsPatch(f, old, D, n) == f = [i \in n..Words |-> Record(old, D, f, i)]

LEMMA PatchFurther ==
  ASSUME NEW D, IsDiffer(D), NEW n \in 1..Words, NEW old, NEW f, IsPatch(f, old, D, n)
  PROVE  \E g : IsPatch(g, old, D, n - 1)
<1> DEFINE g == [i \in (n - 1)..Words |-> IF i >= n THEN f[i] ELSE Record(old, D, f, i)]
<1>1. ASSUME NEW i \in (n - 1)..Words PROVE g[i] = Record(old, D, g, i)
  <2>1. i \in 0..Words /\ g[i] = IF i >= n THEN f[i] ELSE Record(old, D, f, i)
    OBVIOUS
  <2>2. \A j \in (i + 1)..Words : f[j] = g[j]
    OBVIOUS
  <2> HIDE DEF g
  <2>3. Record(old, D, f, i) = Record(old, D, g, i)
    BY <2>1, <2>2, RecordSame
  <2>4. i >= n => f[i] = Record(old, D, f, i)
    BY <2>1 DEF IsPatch
  <2> QED BY <2>1, <2>3, <2>4
<1>2. DOMAIN g = (n - 1)..Words /\ g = [i \in DOMAIN g |-> g[i]]
  OBVIOUS
<1> HIDE DEF g
<1>3. g = [i \in (n - 1)..Words |-> Record(old, D, g, i)]
  BY <1>1, <1>2
<1> QED BY <1>3 DEF IsPatch

LEMMA PatchExists ==
  ASSUME NEW D, IsDiffer(D), NEW old
  PROVE  \E f : IsPatch(f, old, D, 0)
<1> DEFINE Bad == {n \in 0..Words : ~ \E f : IsPatch(f, old, D, Words - n)}
<1>1. ASSUME Bad # {} PROVE FALSE
  <2>1. PICK n \in Bad : \A m \in Bad : n <= m
    <3>1. Bad \in SUBSET Nat
      OBVIOUS
    <3> HIDE DEF Bad
    <3> QED BY <1>1, <3>1, LeastMember
  <2>2. n \in 0..Words /\ ~ \E f : IsPatch(f, old, D, Words - n)
    BY <2>1
  <2>3. CASE n = 0
    <3> DEFINE f == [i \in Words..Words |-> <<0, 0, 0>>]
    <3>1. \A i \in Words..Words : Record(old, D, f, i) = <<0, 0, 0>>
      BY DEF Record
    <3>2. f = [i \in Words..Words |-> Record(old, D, f, i)]
      BY <3>1
    <3>3. IsPatch(f, old, D, Words - n)
      <4>1. Words - n = Words
        BY <2>3
      <4> HIDE DEF f
      <4> QED BY <3>2, <4>1 DEF IsPatch
    <3> QED BY <2>2, <3>3
  <2>4. CASE n # 0
    <3>1. n - 1 \in 0..Words /\ n - 1 \notin Bad
      BY <2>1, <2>2, <2>4
    <3>2. PICK f : IsPatch(f, old, D, Words - (n - 1))
      BY <3>1
    <3>3. PICK k : k = Words - (n - 1) /\ k \in 1..Words /\ k - 1 = Words - n
      BY <2>2, <2>4
    <3>4. \E g : IsPatch(g, old, D, k - 1)
      BY <3>2, <3>3, PatchFurther
    <3> QED BY <2>2, <3>3, <3>4
  <2> QED BY <2>3, <2>4
<1>2. Words \notin Bad /\ Words \in 0..Words /\ Words - Words = 0
  BY <1>1
<1> QED BY <1>2

(* The patch of state_manager_raw_compress is the one at offset 0. *)
LEMMA CompressIs ==
  ASSUME NEW old, NEW new
  PROVE  \E f : /\ IsPatch(f, old, Differ(old, new), 0)
                /\ state_manager_raw_compress(old, new) = f[0]
<1> PICK D : D = Differ(old, new)
  OBVIOUS
<1>1. IsDiffer(D)
  BY DifferGuarded
<1> DEFINE c == CHOOSE f : f = [i \in 0..Words |-> Record(old, D, f, i)]
<1>2. state_manager_raw_compress(old, new) = c[0]
  BY DEF state_manager_raw_compress, Record, LongSkip, Run
<1>3. \E f : f = [i \in 0..Words |-> Record(old, D, f, i)]
  BY <1>1, PatchExists DEF IsPatch
<1>4. c = [i \in 0..Words |-> Record(old, D, c, i)]
  BY <1>3
<1> HIDE DEF c
<1>5. IsPatch(c, old, D, 0)
  BY <1>4 DEF IsPatch
<1> QED BY <1>2, <1>5

-----------------------------------------------------------------------------
(* What a patch is made of, word for word: q is the patch that follows.    *)
IsLast(r) == r \in Seq(Nat) /\ Len(r) = 3 /\ r[1] = 0 /\ r[2] = 0 /\ r[3] = 0

IsLong(r, n, q) ==
  /\ r \in Seq(Nat) /\ q \in Seq(Nat) /\ Len(r) = 3 + Len(q)
  /\ r[1] = 0 /\ r[2] \in Nat /\ r[3] \in Nat /\ r[2] + (U16 + 1) * r[3] = n
  /\ \A k \in 1..Len(q) : r[3 + k] = q[k]

IsRun(r, old, skip, at, changed, q) ==
  /\ r \in Seq(Nat) /\ q \in Seq(Nat) /\ Len(r) = 2 + changed + Len(q)
  /\ r[1] = changed /\ r[2] = skip
  /\ \A k \in 1..changed : r[2 + k] = old[at + k]
  /\ \A k \in 1..Len(q) : r[2 + changed + k] = q[k]

IsConcat(c, a, b) == c = a \o b

(* c is the m words of a and behind them those of b. *)
Joined(c, a, m, b) ==
  /\ c \in Seq(Nat) /\ Len(c) = m + Len(b)
  /\ \A k \in 1..m : c[k] = a[k]
  /\ \A k \in 1..Len(b) : c[m + k] = b[k]

LEMMA ConcatAt ==
  ASSUME NEW a \in Seq(Nat), NEW b \in Seq(Nat), NEW m, m = Len(a), NEW c, IsConcat(c, a, b)
  PROVE  Joined(c, a, m, b)
<1>1. /\ a \o b \in Seq(Nat) /\ Len(a \o b) = Len(a) + Len(b)
      /\ \A k \in 1..(Len(a) + Len(b)) :
           (a \o b)[k] = IF k <= Len(a) THEN a[k] ELSE b[k - Len(a)]
  BY ConcatProperties
<1>2. m \in Nat /\ Len(b) \in Nat
  OBVIOUS
<1>3. ASSUME NEW k \in 1..Len(b) PROVE (a \o b)[m + k] = b[k]
  <2>1. m + k \in 1..(Len(a) + Len(b)) /\ ~(m + k <= Len(a)) /\ m + k - Len(a) = k
    BY <1>2
  <2> QED BY <1>1, <2>1
<1>4. ASSUME NEW k \in 1..m PROVE (a \o b)[k] = a[k]
  <2>1. k \in 1..(Len(a) + Len(b)) /\ k <= Len(a)
    BY <1>2
  <2> QED BY <1>1, <2>1
<1> QED BY <1>1, <1>3, <1>4 DEF IsConcat, Joined

(* x and y are the lower and the upper half of n. *)
AreHalves(x, y, n) == x = n % (U16 + 1) /\ y = n \div (U16 + 1)

LEMMA Halves ==
  ASSUME NEW n \in Nat, NEW x, NEW y, AreHalves(x, y, n)
  PROVE  x \in Nat /\ y \in Nat /\ x + (U16 + 1) * y = n
<1>1. ASSUME NEW b \in Nat, b >= 1
      PROVE  n % b \in Nat /\ n \div b \in Nat /\ (n % b) + b * (n \div b) = n
  BY <1>1
<1>2. U16 + 1 \in Nat /\ U16 + 1 >= 1
  OBVIOUS
<1>3. /\ n % (U16 + 1) \in Nat /\ n \div (U16 + 1) \in Nat
      /\ (n % (U16 + 1)) + (U16 + 1) * (n \div (U16 + 1)) = n
  BY <1>1, <1>2, Zenon
<1> QED BY <1>3, Zenon DEF AreHalves

LEMMA SmallMod ==
  ASSUME NEW a \in Nat, NEW b \in Nat, a < b
  PROVE  a % b = a
OBVIOUS

LEMMA LongRecord ==
  ASSUME NEW n \in Nat, n <= Words, NEW q \in Seq(Nat), NEW r, r = LongSkip(n) \o q
  PROVE  IsLong(r, n, q)
<1>1. LongSkip(n) = <<0, n % (U16 + 1), n \div (U16 + 1)>>
  BY LongIs DEF LongSkip
<1>2. PICK x, y : x = n % (U16 + 1) /\ y = n \div (U16 + 1)
  OBVIOUS
<1>3. x \in Nat /\ y \in Nat /\ x + (U16 + 1) * y = n
  <2>1. AreHalves(x, y, n)
    BY <1>2 DEF AreHalves
  <2> QED BY <2>1, Halves
<1>4. PICK s : s = <<0, x, y>>
  OBVIOUS
<1>5. s \in Seq(Nat) /\ Len(s) = 3 /\ s[1] = 0 /\ s[2] = x /\ s[3] = y
  BY <1>3, <1>4
<1>6. IsConcat(r, s, q)
  BY <1>1, <1>2, <1>4 DEF IsConcat
<1>7. Joined(r, s, 3, q)
  BY <1>5, <1>6, ConcatAt
<1>8. r[1] = 0 /\ r[2] = x /\ r[3] = y
  BY <1>5, <1>7 DEF Joined
<1> QED BY <1>3, <1>7, <1>8 DEF IsLong, Joined

LEMMA BlockIsSeq ==
  ASSUME NEW b \in Block PROVE b \in Seq(Nat) /\ Len(b) = Words
<1>1. b \in [1..Words -> Nat]
  BY DEF Block
<1> QED BY <1>1

LEMMA SubWords ==
  ASSUME NEW s \in Seq(Nat), NEW i \in 1..(Len(s) + 1), NEW j \in (i - 1)..Len(s)
  PROVE  /\ SubSeq(s, i, j) \in Seq(Nat) /\ Len(SubSeq(s, i, j)) = j - i + 1
         /\ \A k \in 1..(j - i + 1) : SubSeq(s, i, j)[k] = s[i + k - 1]
BY SubSeqProperties

LEMMA RunRecord ==
  ASSUME NEW old \in Block, NEW at \in 0..(Words - 1), NEW changed \in 1..U16,
         at + changed <= Words, NEW skip \in Nat, NEW q \in Seq(Nat),
         NEW r, r = Run(old, at, changed, skip) \o q
  PROVE  IsRun(r, old, skip, at, changed, q)
<1>1. changed % (U16 + 1) = changed
  <2> PICK b \in Nat : b = U16 + 1 /\ changed < b /\ changed \in Nat
    OBVIOUS
  <2> QED BY SmallMod
<1>2. PICK h : h = <<changed, skip>>
  OBVIOUS
<1>3. h \in Seq(Nat) /\ Len(h) = 2 /\ h[1] = changed /\ h[2] = skip
  BY <1>2
<1>4. PICK w : w = SubSeq(old, at + 1, at + changed)
  OBVIOUS
<1>5. /\ w \in Seq(Nat) /\ Len(w) = changed
      /\ \A k \in 1..changed : w[k] = old[at + k]
  <2>1. old \in Seq(Nat) /\ Len(old) = Words
    BY BlockIsSeq
  <2>2. /\ at + 1 \in 1..(Len(old) + 1) /\ at + changed \in (at + 1 - 1)..Len(old)
        /\ (at + changed) - (at + 1) + 1 = changed
    BY <2>1
  <2>3. /\ w \in Seq(Nat) /\ Len(w) = changed
        /\ \A k \in 1..changed : w[k] = old[at + 1 + k - 1]
    BY <1>4, <2>1, <2>2, SubWords
  <2>4. \A k \in 1..changed : at + 1 + k - 1 = at + k
    OBVIOUS
  <2> QED BY <2>3, <2>4
<1>6. PICK s : s = h \o w
  OBVIOUS
<1>7. Joined(s, h, 2, w)
  <2>1. IsConcat(s, h, w)
    BY <1>6 DEF IsConcat
  <2> QED BY <1>3, <1>5, <2>1, ConcatAt
<1>8. IsConcat(r, s, q)
  BY <1>1, <1>2, <1>4, <1>6 DEF Run, IsConcat
<1>9. Joined(r, s, 2 + changed, q)
  <2>1. s \in Seq(Nat) /\ Len(s) = 2 + changed
    BY <1>5, <1>7 DEF Joined
  <2> QED BY <1>8, <2>1, ConcatAt
<1>10. \A k \in 1..(2 + changed) : r[k] = s[k]
  BY <1>9 DEF Joined
<1>11. \A k \in 1..2 : k \in 1..(2 + changed) /\ s[k] = h[k]
  BY <1>7 DEF Joined
<1>12. r[1] = changed /\ r[2] = skip
  <2>1. r[1] = h[1] /\ r[2] = h[2]
    <3>1. 1 \in 1..2 /\ 2 \in 1..2
      OBVIOUS
    <3> QED BY <1>10, <1>11, <3>1
  <2> QED BY <1>3, <2>1
<1>13. ASSUME NEW k \in 1..changed PROVE r[2 + k] = old[at + k]
  <2>1. 2 + k \in 1..(2 + changed)
    OBVIOUS
  <2>2. s[2 + k] = w[k]
    BY <1>5, <1>7 DEF Joined
  <2> QED BY <1>5, <1>10, <2>1, <2>2
<1> QED BY <1>9, <1>12, <1>13 DEF IsRun, Joined

(* The record at offset i, and where the patch goes on. *)
Form(f, old, D, i) ==
  \/ NoMore(D, i) /\ IsLast(f[i])
  \/ \E at, changed :
       /\ NextChange(D, i, at) /\ RunAt(D, at, changed)
       /\ IF at - i > U16 THEN IsLong(f[i], at - i, f[at])
          ELSE IsRun(f[i], old, at - i, at, changed, f[at + changed])

LEMMA FormIsSeq ==
  ASSUME NEW f, NEW old, NEW D, NEW i, Form(f, old, D, i)
  PROVE  f[i] \in Seq(Nat)
BY DEF Form, IsLast, IsLong, IsRun

LEMMA FormAt ==
  ASSUME NEW D, IsDiffer(D), NEW old \in Block, NEW f, IsPatch(f, old, D, 0),
         NEW i \in 0..Words, \A j \in (i + 1)..Words : f[j] \in Seq(Nat)
  PROVE  Form(f, old, D, i)
<1>1. f[i] = Record(old, D, f, i)
  BY DEF IsPatch
<1>2. CASE NoMore(D, i)
  <2>1. f[i] = <<0, 0, 0>>
    BY <1>1, <1>2 DEF NoMore, Record
  <2>2. IsLast(f[i])
    BY <2>1 DEF IsLast
  <2> QED BY <1>2, <2>2 DEF Form
<1>3. CASE ~NoMore(D, i)
  <2>1. PICK at, changed : /\ NextChange(D, i, at) /\ RunAt(D, at, changed)
                           /\ at \in i..(Words - 1) /\ changed \in 1..U16
                           /\ at + changed \in (i + 1)..Words
    BY <1>3, RecordCases
  <2>2. IsRecord(f[i], old, f, i, at, changed)
    <3>1. IsRecord(Record(old, D, f, i), old, f, i, at, changed)
      BY <1>3, <2>1, RecordIs
    <3> QED BY <1>1, <3>1
  <2>3. PICK n \in Nat : n = at - i /\ n <= Words
    BY <2>1
  <2>4. PICK r : r = f[i]
    OBVIOUS
  <2>5. CASE n > U16
    <3>1. PICK q \in Seq(Nat) : q = f[at]
      BY <2>1, <2>3, <2>5
    <3>2. r = LongSkip(n) \o q
      BY <2>2, <2>3, <2>4, <2>5, <3>1 DEF IsRecord
    <3>3. IsLong(r, n, q)
      BY <2>3, <3>2, LongRecord
    <3> QED BY <2>1, <2>3, <2>4, <2>5, <3>1, <3>3 DEF Form
  <2>6. CASE ~(n > U16)
    <3>1. PICK q \in Seq(Nat) : q = f[at + changed]
      BY <2>1
    <3>2. r = Run(old, at, changed, n) \o q
      BY <2>2, <2>3, <2>4, <2>6, <3>1 DEF IsRecord
    <3>3. at \in 0..(Words - 1) /\ at + changed <= Words
      BY <2>1
    <3>4. IsRun(r, old, n, at, changed, q)
      BY <2>1, <2>3, <3>2, <3>3, RunRecord
    <3> QED BY <2>1, <2>3, <2>4, <2>6, <3>1, <3>4 DEF Form
  <2> QED BY <2>5, <2>6
<1> QED BY <1>2, <1>3

LEMMA PatchForm ==
  ASSUME NEW D, IsDiffer(D), NEW old \in Block, NEW f, IsPatch(f, old, D, 0)
  PROVE  \A i \in 0..Words : Form(f, old, D, i)
<1> DEFINE Bad == {n \in 0..Words : ~Form(f, old, D, Words - n)}
<1>1. ASSUME Bad # {} PROVE FALSE
  <2>1. PICK n \in Bad : \A m \in Bad : n <= m
    <3>1. Bad \in SUBSET Nat
      OBVIOUS
    <3> HIDE DEF Bad
    <3> QED BY <1>1, <3>1, LeastMember
  <2>2. n \in 0..Words /\ ~Form(f, old, D, Words - n)
    BY <2>1
  <2>3. ASSUME NEW j \in (Words - n + 1)..Words PROVE f[j] \in Seq(Nat)
    <3>1. Words - j \in 0..Words /\ ~(n <= Words - j) /\ Words - (Words - j) = j
      BY <2>2
    <3>2. Words - j \notin Bad
      <4> HIDE DEF Bad
      <4> QED BY <2>1, <3>1
    <3>3. Form(f, old, D, j)
      BY <3>1, <3>2
    <3> QED BY <3>3, FormIsSeq
  <2>4. Words - n \in 0..Words
    BY <2>2
  <2> QED BY <2>2, <2>3, <2>4, FormAt
<1>2. ASSUME NEW i \in 0..Words PROVE Form(f, old, D, i)
  <2>1. Words - i \in 0..Words /\ Words - (Words - i) = i
    OBVIOUS
  <2>2. Words - i \notin Bad
    <3> HIDE DEF Bad
    <3> QED BY <1>1
  <2> QED BY <2>1, <2>2
<1> QED BY <1>2

-----------------------------------------------------------------------------
(* state_manager_raw_decompress: the words one turn of the loop writes,    *)
(* where rest stands for the turns that are left.                          *)
TurnOf(mem, rest, n, c, out) ==
  LET changed == mem[c]
      at == out + mem[c + 1]
      unchanged == mem[c + 1] + (U16 + 1) * mem[c + 2]
  IN IF n = 0 THEN {}
     ELSE IF changed # 0
     THEN {<<at + k, mem[c + 1 + k]>> : k \in 1..changed}
            \cup rest[c + 2 + changed][at + changed]
     ELSE IF unchanged = 0 THEN {} ELSE rest[c + 3][out + unchanged]
Turn(mem, rest, n) == [c \in Nat |-> [out \in Nat |-> TurnOf(mem, rest, n, c, out)]]

IsWritten(g, mem, n) == g = [k \in 0..n |-> Turn(mem, g[k - 1], k)]

LEMMA TurnSame ==
  ASSUME NEW mem, NEW g, NEW h, NEW n \in Nat, n # 0 => g = h
  PROVE  Turn(mem, g, n) = Turn(mem, h, n)
<1>1. CASE n = 0
  BY <1>1 DEF Turn, TurnOf
<1>2. CASE n # 0
  BY <1>2
<1> QED BY <1>1, <1>2

LEMMA WrittenFurther ==
  ASSUME NEW mem, NEW n \in Nat, NEW g, IsWritten(g, mem, n)
  PROVE  \E h : IsWritten(h, mem, n + 1)
<1> DEFINE h == [k \in 0..(n + 1) |-> IF k <= n THEN g[k] ELSE Turn(mem, g[k - 1], k)]
<1>1. ASSUME NEW k \in 0..(n + 1) PROVE h[k] = Turn(mem, h[k - 1], k)
  <2>1. h[k] = IF k <= n THEN g[k] ELSE Turn(mem, g[k - 1], k)
    OBVIOUS
  <2>2. k # 0 => g[k - 1] = h[k - 1]
    OBVIOUS
  <2> HIDE DEF h
  <2>3. k \in Nat
    OBVIOUS
  <2>4. Turn(mem, g[k - 1], k) = Turn(mem, h[k - 1], k)
    BY <2>2, <2>3, TurnSame
  <2>5. k <= n => g[k] = Turn(mem, g[k - 1], k)
    BY <2>3 DEF IsWritten
  <2> QED BY <2>1, <2>4, <2>5
<1>2. h = [k \in 0..(n + 1) |-> h[k]]
  OBVIOUS
<1> HIDE DEF h
<1>3. h = [k \in 0..(n + 1) |-> Turn(mem, h[k - 1], k)]
  BY <1>1, <1>2
<1> QED BY <1>3 DEF IsWritten

LEMMA WrittenExists ==
  ASSUME NEW mem
  PROVE  \E g : IsWritten(g, mem, Words)
<1> DEFINE Bad == {n \in Nat : ~ \E g : IsWritten(g, mem, n)}
<1>1. ASSUME Bad # {} PROVE FALSE
  <2>1. PICK n \in Bad : \A m \in Bad : n <= m
    <3>1. Bad \in SUBSET Nat
      OBVIOUS
    <3> HIDE DEF Bad
    <3> QED BY <1>1, <3>1, LeastMember
  <2>2. n \in Nat /\ ~ \E g : IsWritten(g, mem, n)
    BY <2>1
  <2>3. CASE n = 0
    <3> DEFINE g == [k \in 0..0 |-> [c \in Nat |-> [out \in Nat |-> {}]]]
    <3>1. \A k \in 0..0 : Turn(mem, g[k - 1], k) = [c \in Nat |-> [out \in Nat |-> {}]]
      BY DEF Turn, TurnOf
    <3>2. g = [k \in 0..0 |-> Turn(mem, g[k - 1], k)]
      BY <3>1
    <3>3. IsWritten(g, mem, n)
      <4> HIDE DEF g
      <4> QED BY <2>3, <3>2 DEF IsWritten
    <3> QED BY <2>2, <3>3
  <2>4. CASE n # 0
    <3>1. n - 1 \in Nat /\ ~(n <= n - 1)
      BY <2>2, <2>4
    <3>2. n - 1 \notin Bad
      <4> HIDE DEF Bad
      <4> QED BY <2>1, <3>1
    <3>3. PICK g : IsWritten(g, mem, n - 1)
      BY <3>1, <3>2
    <3>4. PICK m \in Nat : m = n - 1 /\ m + 1 = n
      BY <3>1
    <3>5. \E h : IsWritten(h, mem, m + 1)
      BY <3>3, <3>4, WrittenFurther
    <3> QED BY <2>2, <3>4, <3>5
  <2> QED BY <2>3, <2>4
<1>2. Words \notin Bad
  BY <1>1
<1> QED BY <1>2

(* What undoing the words from offset i on comes to. *)
Undoes(W, old, D, i) ==
  /\ \A w \in W : \E j \in i..(Words - 1) : w = <<j + 1, old[j + 1]>>
  /\ \A j \in i..(Words - 1) : j \in D => <<j + 1, old[j + 1]>> \in W

(* The memory holds the words r from cell p on. *)
Contents(mem, p, r) == \A k \in 1..Len(r) : mem[p + k - 1] = r[k]

LEMMA UndoesMore ==
  ASSUME NEW W, NEW old, NEW D, NEW i \in Nat, NEW at \in Nat, i <= at,
         Undoes(W, old, D, at), \A j \in i..(at - 1) : j \notin D
  PROVE  Undoes(W, old, D, i)
<1>1. ASSUME NEW w \in W PROVE \E j \in i..(Words - 1) : w = <<j + 1, old[j + 1]>>
  <2>1. PICK j \in at..(Words - 1) : w = <<j + 1, old[j + 1]>>
    BY DEF Undoes
  <2>2. j \in i..(Words - 1)
    OBVIOUS
  <2> QED BY <2>1, <2>2
<1>2. ASSUME NEW j \in i..(Words - 1), j \in D PROVE <<j + 1, old[j + 1]>> \in W
  <2>1. j \in at..(Words - 1)
    BY <1>2
  <2> QED BY <1>2, <2>1 DEF Undoes
<1> QED BY <1>1, <1>2 DEF Undoes

LEMMA UndoesRun ==
  ASSUME NEW W, NEW V, NEW old, NEW D, NEW at \in Nat, NEW changed \in Nat, at + changed <= Words,
         Undoes(W, old, D, at + changed), V = {<<at + k, old[at + k]>> : k \in 1..changed}
  PROVE  Undoes(V \cup W, old, D, at)
<1>1. ASSUME NEW w \in V \cup W PROVE \E j \in at..(Words - 1) : w = <<j + 1, old[j + 1]>>
  <2>1. CASE w \in W
    <3>1. PICK j \in (at + changed)..(Words - 1) : w = <<j + 1, old[j + 1]>>
      BY <2>1 DEF Undoes
    <3>2. j \in at..(Words - 1)
      OBVIOUS
    <3> QED BY <3>1, <3>2
  <2>2. CASE w \in V
    <3>1. PICK k \in 1..changed : w = <<at + k, old[at + k]>>
      BY <2>2
    <3>2. at + k - 1 \in at..(Words - 1) /\ (at + k - 1) + 1 = at + k
      OBVIOUS
    <3> QED BY <3>1, <3>2
  <2> QED BY <2>1, <2>2
<1>2. ASSUME NEW j \in at..(Words - 1), j \in D PROVE <<j + 1, old[j + 1]>> \in V \cup W
  <2>1. CASE j >= at + changed
    <3>1. j \in (at + changed)..(Words - 1)
      BY <2>1
    <3> QED BY <1>2, <3>1 DEF Undoes
  <2>2. CASE j < at + changed
    <3>1. PICK k \in 1..changed : at + k = j + 1
      <4>1. j + 1 - at \in 1..changed /\ at + (j + 1 - at) = j + 1
        BY <2>2
      <4> QED BY <4>1
    <3>2. <<at + k, old[at + k]>> \in V
      OBVIOUS
    <3> QED BY <3>1, <3>2
  <2> QED BY <2>1, <2>2
<1> QED BY <1>1, <1>2 DEF Undoes

IsTurn(W, mem, rest, c, out, a, b, d) ==
  W = IF a # 0
      THEN {<<out + b + k, mem[c + 1 + k]>> : k \in 1..a} \cup rest[c + 2 + a][out + b + a]
      ELSE IF b + (U16 + 1) * d = 0 THEN {} ELSE rest[c + 3][out + (b + (U16 + 1) * d)]

LEMMA TurnAt ==
  ASSUME NEW mem, NEW N \in Nat, NEW g, IsWritten(g, mem, N), NEW n \in 1..N,
         NEW c \in Nat, NEW out \in Nat
  PROVE  IsTurn(g[n][c][out], mem, g[n - 1], c, out, mem[c], mem[c + 1], mem[c + 2])
<1>1. n \in 0..N /\ n # 0
  OBVIOUS
<1>2. g[n] = Turn(mem, g[n - 1], n)
  BY <1>1 DEF IsWritten
<1>3. Turn(mem, g[n - 1], n)[c][out] = TurnOf(mem, g[n - 1], n, c, out)
  BY DEF Turn
<1>4. IsTurn(TurnOf(mem, g[n - 1], n, c, out), mem, g[n - 1], c, out, mem[c], mem[c + 1], mem[c + 2])
  BY <1>1, Zenon DEF IsTurn, TurnOf
<1> QED BY <1>2, <1>3, <1>4

LEMMA ContentsAt ==
  ASSUME NEW mem, NEW p \in Nat, NEW r, r \in Seq(Nat), Contents(mem, p, r),
         NEW k \in 1..Len(r)
  PROVE  mem[p + k - 1] = r[k]
BY DEF Contents

(* One turn reads one record. *)
LEMMA ReadLast ==
  ASSUME NEW mem, NEW N \in Nat, NEW g, IsWritten(g, mem, N), NEW n \in 1..N,
         NEW c \in Nat, NEW out \in Nat, NEW r, IsLast(r), Contents(mem, c, r)
  PROVE  g[n][c][out] = {}
<1>1. \A k \in 1..3 : mem[c + k - 1] = r[k]
  BY DEF IsLast, Contents
<1>2. mem[c] = r[1] /\ mem[c + 1] = r[2] /\ mem[c + 2] = r[3]
  <2>1. 1 \in 1..3 /\ 2 \in 1..3 /\ 3 \in 1..3 /\ c + 1 - 1 = c /\ c + 2 - 1 = c + 1 /\ c + 3 - 1 = c + 2
    OBVIOUS
  <2> QED BY <1>1, <2>1
<1>3. r[1] = 0 /\ r[2] + (U16 + 1) * r[3] = 0
  BY DEF IsLast
<1>0. PICK a, b, d : a = mem[c] /\ b = mem[c + 1] /\ d = mem[c + 2]
  OBVIOUS
<1>4. a = 0 /\ b + (U16 + 1) * d = 0
  BY <1>0, <1>2, <1>3
<1>5. IsTurn(g[n][c][out], mem, g[n - 1], c, out, a, b, d)
  BY <1>0, TurnAt
<1> QED BY <1>4, <1>5, Zenon DEF IsTurn

(* What n turns from cell c on write at offset out: only the rest does, or *)
(* the words V and the rest.                                               *)
SkipsTo(g, n, c, out, d, to) == g[n][c][out] = g[n - 1][d][to]
WritesThen(V, g, n, c, out, d, to) == g[n][c][out] = V \cup g[n - 1][d][to]
RunOf(old, at, changed) == {<<at + k, old[at + k]>> : k \in 1..changed}

LEMMA ReadLong ==
  ASSUME NEW mem, NEW N \in Nat, NEW g, IsWritten(g, mem, N), NEW n \in 1..N,
         NEW c \in Nat, NEW out \in Nat, NEW r, NEW q, NEW skip \in Nat, skip # 0,
         IsLong(r, skip, q), Contents(mem, c, r)
  PROVE  /\ SkipsTo(g, n, c, out, c + 3, out + skip)
         /\ Contents(mem, c + 3, q)
<1>1. PICK l \in Nat : l = Len(q) /\ Len(r) = 3 + l
  BY DEF IsLong
<1>2. \A k \in 1..(3 + l) : mem[c + k - 1] = r[k]
  BY <1>1 DEF Contents
<1>3. mem[c] = r[1] /\ mem[c + 1] = r[2] /\ mem[c + 2] = r[3]
  <2>1. /\ 1 \in 1..(3 + l) /\ 2 \in 1..(3 + l) /\ 3 \in 1..(3 + l)
        /\ c + 1 - 1 = c /\ c + 2 - 1 = c + 1 /\ c + 3 - 1 = c + 2
    OBVIOUS
  <2> QED BY <1>2, <2>1
<1>4. r[1] = 0 /\ r[2] + (U16 + 1) * r[3] = skip
  BY DEF IsLong
<1>0. PICK a, b, d : a = mem[c] /\ b = mem[c + 1] /\ d = mem[c + 2]
  OBVIOUS
<1>5. a = 0 /\ b + (U16 + 1) * d = skip
  BY <1>0, <1>3, <1>4
<1>6. g[n][c][out] = g[n - 1][c + 3][out + skip]
  <2>1. IsTurn(g[n][c][out], mem, g[n - 1], c, out, a, b, d)
    BY <1>0, TurnAt
  <2> QED BY <1>5, <2>1, Zenon DEF IsTurn
<1>7. ASSUME NEW k \in 1..l PROVE mem[(c + 3) + k - 1] = q[k]
  <2>1. 3 + k \in 1..(3 + l) /\ c + (3 + k) - 1 = (c + 3) + k - 1
    BY <1>1
  <2>2. r[3 + k] = q[k]
    BY <1>1 DEF IsLong
  <2> QED BY <1>2, <2>1, <2>2
<1>8. SkipsTo(g, n, c, out, c + 3, out + skip)
  BY <1>6 DEF SkipsTo
<1> QED BY <1>1, <1>7, <1>8 DEF Contents

LEMMA ReadRun ==
  ASSUME NEW mem, NEW N \in Nat, NEW g, IsWritten(g, mem, N), NEW n \in 1..N,
         NEW c \in Nat, NEW out \in Nat, NEW r, NEW q, NEW old, NEW skip \in Nat,
         NEW at, at = out + skip, NEW changed \in Nat, changed # 0,
         IsRun(r, old, skip, at, changed, q), Contents(mem, c, r)
  PROVE  /\ WritesThen(RunOf(old, at, changed), g, n, c, out, c + 2 + changed, at + changed)
         /\ Contents(mem, c + 2 + changed, q)
<1>1. PICK l \in Nat : l = Len(q) /\ Len(r) = 2 + changed + l
  BY DEF IsRun
<1>2. \A k \in 1..(2 + changed + l) : mem[c + k - 1] = r[k]
  BY <1>1 DEF Contents
<1>3. mem[c] = r[1] /\ mem[c + 1] = r[2]
  <2>1. /\ 1 \in 1..(2 + changed + l) /\ 2 \in 1..(2 + changed + l)
        /\ c + 1 - 1 = c /\ c + 2 - 1 = c + 1
    BY <1>1
  <2> QED BY <1>2, <2>1
<1>4. r[1] = changed /\ r[2] = skip
  BY DEF IsRun
<1>0. PICK a, b, d : a = mem[c] /\ b = mem[c + 1] /\ d = mem[c + 2]
  OBVIOUS
<1>5. a = changed /\ out + b = at
  BY <1>0, <1>3, <1>4
<1>6. ASSUME NEW k \in 1..changed PROVE mem[c + 1 + k] = old[at + k]
  <2>1. 2 + k \in 1..(2 + changed + l) /\ c + (2 + k) - 1 = c + 1 + k
    BY <1>1
  <2>2. r[2 + k] = old[at + k]
    BY DEF IsRun
  <2> QED BY <1>2, <2>1, <2>2
<1>7. {<<at + k, mem[c + 1 + k]>> : k \in 1..changed} = {<<at + k, old[at + k]>> : k \in 1..changed}
  BY <1>6
<1>8. g[n][c][out] = {<<at + k, mem[c + 1 + k]>> : k \in 1..changed}
                        \cup g[n - 1][c + 2 + changed][at + changed]
  <2>1. IsTurn(g[n][c][out], mem, g[n - 1], c, out, a, b, d)
    BY <1>0, TurnAt
  <2> QED BY <1>5, <2>1, Zenon DEF IsTurn
<1>9. ASSUME NEW k \in 1..l PROVE mem[(c + 2 + changed) + k - 1] = q[k]
  <2>1. /\ 2 + changed + k \in 1..(2 + changed + l)
        /\ c + (2 + changed + k) - 1 = (c + 2 + changed) + k - 1
    BY <1>1
  <2>2. r[2 + changed + k] = q[k]
    BY <1>1 DEF IsRun
  <2> QED BY <1>2, <2>1, <2>2
<1>10. WritesThen(RunOf(old, at, changed), g, n, c, out, c + 2 + changed, at + changed)
  BY <1>7, <1>8 DEF WritesThen, RunOf
<1> QED BY <1>1, <1>9, <1>10 DEF Contents

Decodes(g, mem, old, D, f, n, i) ==
  \A c \in Nat : Contents(mem, c, f[i]) => Undoes(g[n][c][i], old, D, i)

(* Reading from offset i on what a patch stores from there undoes the rest *)
(* of the step, given that it does from every later offset.                *)
LEMMA DecodesOne ==
  ASSUME NEW D, IsDiffer(D), NEW old, NEW f, NEW i \in 0..Words, Form(f, old, D, i),
         NEW mem, NEW g, IsWritten(g, mem, Words),
         NEW n \in 0..Words, Words - i <= n,
         n # 0 => \A j \in (i + 1)..Words : Decodes(g, mem, old, D, f, n - 1, j)
  PROVE  Decodes(g, mem, old, D, f, n, i)
<1> SUFFICES ASSUME NEW c \in Nat, Contents(mem, c, f[i])
             PROVE  Undoes(g[n][c][i], old, D, i)
  BY DEF Decodes
<1>1. CASE n = 0
  <2>1. i = Words
    BY <1>1
  <2>2. g[n] = Turn(mem, g[n - 1], n)
    BY DEF IsWritten
  <2>3. Turn(mem, g[n - 1], n)[c][i] = TurnOf(mem, g[n - 1], n, c, i)
    BY DEF Turn
  <2>4. g[n][c][i] = {}
    BY <1>1, <2>2, <2>3 DEF TurnOf
  <2> QED BY <2>1, <2>4 DEF Undoes
<1>2. CASE n # 0 /\ NoMore(D, i) /\ IsLast(f[i])
  <2>1. Ends(D, i)
    BY <1>2, LastEnds
  <2>2. n \in 1..Words /\ Words \in Nat /\ i \in Nat
    BY <1>2
  <2>3. g[n][c][i] = {}
    BY <1>2, <2>2, ReadLast
  <2> QED BY <2>1, <2>3 DEF Undoes, Ends
<1>3. CASE n # 0 /\ ~(NoMore(D, i) /\ IsLast(f[i]))
  <2>1. PICK at, changed :
       /\ NextChange(D, i, at) /\ RunAt(D, at, changed)
       /\ IF at - i > U16 THEN IsLong(f[i], at - i, f[at])
          ELSE IsRun(f[i], old, at - i, at, changed, f[at + changed])
    BY <1>3 DEF Form
  <2>2. at \in i..(Words - 1) /\ \A j \in i..(at - 1) : j \notin D
    BY <2>1 DEF NextChange
  <2>3. changed \in 1..U16 /\ at + changed <= Words
    BY <2>1 DEF RunAt
  <2>4. n \in 1..Words /\ Words \in Nat /\ i \in Nat
    BY <1>3
  <2>5. PICK skip \in Nat : skip = at - i /\ at = i + skip
    BY <2>2
  <2>6. CASE skip > U16
    <3>1. skip # 0 /\ IsLong(f[i], skip, f[at])
      BY <2>1, <2>5, <2>6
    <3>2. g[n][c][i] = g[n - 1][c + 3][i + skip] /\ Contents(mem, c + 3, f[at])
      <4>1. PICK r, q : r = f[i] /\ q = f[at]
        OBVIOUS
      <4>2. IsLong(r, skip, q) /\ Contents(mem, c, r)
        BY <3>1, <4>1
      <4>3. SkipsTo(g, n, c, i, c + 3, i + skip) /\ Contents(mem, c + 3, q)
        BY <2>4, <3>1, <4>2, ReadLong
      <4> QED BY <4>1, <4>3 DEF SkipsTo
    <3>3. at \in (i + 1)..Words /\ c + 3 \in Nat
      BY <2>2, <2>5, <3>1
    <3>4. Undoes(g[n - 1][c + 3][at], old, D, at)
      <4>1. Decodes(g, mem, old, D, f, n - 1, at)
        BY <1>3, <3>3
      <4> QED BY <3>2, <3>3, <4>1 DEF Decodes
    <3>5. at \in Nat /\ i <= at
      BY <2>2
    <3> QED BY <2>2, <2>4, <2>5, <3>2, <3>4, <3>5, UndoesMore
  <2>7. CASE ~(skip > U16)
    <3>1. IsRun(f[i], old, skip, at, changed, f[at + changed])
      BY <2>1, <2>5, <2>7
    <3>2. PICK a \in Nat, to \in Nat : a = changed /\ a # 0 /\ to = at + a /\ to <= Words /\ to \in (i + 1)..Words
      BY <2>2, <2>3
    <3>3. /\ g[n][c][i] = RunOf(old, at, a) \cup g[n - 1][c + 2 + a][at + a]
          /\ Contents(mem, c + 2 + a, f[at + a])
      <4>1. PICK r, q : r = f[i] /\ q = f[at + a]
        OBVIOUS
      <4>2. IsRun(r, old, skip, at, a, q) /\ Contents(mem, c, r)
        BY <3>1, <3>2, <4>1
      <4>3. /\ WritesThen(RunOf(old, at, a), g, n, c, i, c + 2 + a, at + a)
            /\ Contents(mem, c + 2 + a, q)
        BY <2>4, <2>5, <3>2, <4>2, ReadRun
      <4> QED BY <4>1, <4>3 DEF WritesThen
    <3>4. Undoes(g[n - 1][c + 2 + a][to], old, D, to)
      <4>1. Decodes(g, mem, old, D, f, n - 1, to)
        BY <1>3, <3>2
      <4>2. c + 2 + a \in Nat
        BY <3>2
      <4> QED BY <3>2, <3>3, <4>1, <4>2 DEF Decodes
    <3>5. at \in Nat /\ i <= at
      BY <2>2
    <3>6. PICK V : V = RunOf(old, at, a)
      OBVIOUS
    <3>7. PICK W : W = g[n - 1][c + 2 + a][to]
      OBVIOUS
    <3>8. Undoes(W, old, D, at + a)
      BY <3>2, <3>4, <3>7
    <3>9. Undoes(V \cup W, old, D, at)
      BY <3>2, <3>5, <3>6, <3>8, UndoesRun DEF RunOf
    <3>10. Undoes(V \cup W, old, D, i)
      BY <2>2, <2>4, <3>5, <3>9, UndoesMore
    <3> QED BY <3>2, <3>3, <3>6, <3>7, <3>10
  <2> QED BY <2>6, <2>7
<1> QED BY <1>1, <1>2, <1>3

LEMMA DecodesAll ==
  ASSUME NEW D, IsDiffer(D), NEW old, NEW f, \A i \in 0..Words : Form(f, old, D, i),
         NEW mem, NEW g, IsWritten(g, mem, Words)
  PROVE  Decodes(g, mem, old, D, f, Words, 0)
<1> DEFINE Bad == {n \in 0..Words : \E i \in 0..Words :
                      Words - i <= n /\ ~Decodes(g, mem, old, D, f, n, i)}
<1>1. ASSUME Bad # {} PROVE FALSE
  <2>1. PICK n \in Bad : \A m \in Bad : n <= m
    <3>1. Bad \in SUBSET Nat
      OBVIOUS
    <3> HIDE DEF Bad
    <3> QED BY <1>1, <3>1, LeastMember
  <2>2. n \in 0..Words
    BY <2>1
  <2>3. PICK i \in 0..Words : Words - i <= n /\ ~Decodes(g, mem, old, D, f, n, i)
    BY <2>1
  <2>4. ASSUME n # 0, NEW j \in (i + 1)..Words PROVE Decodes(g, mem, old, D, f, n - 1, j)
    <3>1. n - 1 \in 0..Words /\ j \in 0..Words /\ Words - j <= n - 1 /\ ~(n <= n - 1)
      BY <2>2, <2>3, <2>4
    <3>2. n - 1 \notin Bad
      <4> HIDE DEF Bad
      <4> QED BY <2>1, <3>1
    <3> QED BY <3>1, <3>2
  <2> HIDE DEF Bad
  <2> QED BY <2>2, <2>3, <2>4, DecodesOne
<1>2. Words \notin Bad /\ Words \in 0..Words /\ 0 \in 0..Words /\ Words - 0 <= Words
  BY <1>1
<1> QED BY <1>2

(* The words W written into a block give b. *)
IsOverwritten(b, W, block) ==
  b = [i \in 1..Words |-> IF \E w \in W : w[1] = i
                          THEN (CHOOSE w \in W : w[1] = i)[2] ELSE block[i]]

(* state_manager_raw_decompress undoes what its records write. *)
LEMMA DecompressIs ==
  ASSUME NEW mem, NEW p, NEW block
  PROVE  \E g : /\ IsWritten(g, mem, Words)
                /\ IsOverwritten(state_manager_raw_decompress(mem, p, block), g[Words][p][0], block)
<1> DEFINE c == CHOOSE g : g = [n \in 0..Words |-> Turn(mem, g[n - 1], n)]
<1>1. IsOverwritten(state_manager_raw_decompress(mem, p, block), c[Words][p][0], block)
  BY DEF state_manager_raw_decompress, Turn, TurnOf, IsOverwritten
<1>2. \E g : g = [n \in 0..Words |-> Turn(mem, g[n - 1], n)]
  BY WrittenExists DEF IsWritten
<1>3. c = [n \in 0..Words |-> Turn(mem, c[n - 1], n)]
  BY <1>2
<1> HIDE DEF c
<1>4. IsWritten(c, mem, Words)
  BY <1>3 DEF IsWritten
<1> QED BY <1>1, <1>4

LEMMA UndoesAll ==
  ASSUME NEW W, NEW old \in Block, NEW new \in Block, NEW D,
         \A j \in 0..(Words - 1) : j \in D <=> old[j + 1] # new[j + 1],
         Undoes(W, old, D, 0), NEW b, IsOverwritten(b, W, new)
  PROVE  b = old
<1>1. ASSUME NEW i \in 1..Words
      PROVE  (IF \E w \in W : w[1] = i
              THEN (CHOOSE w \in W : w[1] = i)[2] ELSE new[i]) = old[i]
  <2>1. ASSUME NEW w \in W, w[1] = i PROVE w[2] = old[i]
    <3>1. PICK j \in 0..(Words - 1) : w = <<j + 1, old[j + 1]>>
      BY DEF Undoes
    <3>2. j + 1 = i
      BY <2>1, <3>1
    <3> QED BY <3>1, <3>2
  <2>2. CASE \E w \in W : w[1] = i
    <3>1. PICK w : w = CHOOSE x \in W : x[1] = i
      OBVIOUS
    <3>2. w \in W /\ w[1] = i
      BY <2>2, <3>1
    <3> QED BY <2>1, <2>2, <3>1, <3>2
  <2>3. CASE ~ \E w \in W : w[1] = i
    <3>1. i - 1 \in 0..(Words - 1) /\ (i - 1) + 1 = i
      OBVIOUS
    <3>2. i - 1 \notin D
      <4>1. ASSUME i - 1 \in D PROVE FALSE
        <5>1. <<i, old[i]>> \in W
          BY <3>1, <4>1 DEF Undoes
        <5>2. <<i, old[i]>>[1] = i
          OBVIOUS
        <5> QED BY <2>3, <5>1, <5>2
      <4> QED BY <4>1
    <3>3. old[i] = new[i]
      BY <3>1, <3>2
    <3> QED BY <2>3, <3>3
  <2> QED BY <2>2, <2>3
<1>2. old = [i \in 1..Words |-> old[i]]
  BY DEF Block
<1>3. b = [i \in 1..Words |-> IF \E w \in W : w[1] = i
                             THEN (CHOOSE w \in W : w[1] = i)[2] ELSE new[i]]
  BY DEF IsOverwritten
<1>4. b = [i \in 1..Words |-> old[i]]
  BY <1>1, <1>3, Zenon
<1> QED BY <1>2, <1>4

(* A patch, wherever the memory holds it, turns the new block into the old *)
(* one.                                                                    *)
LEMMA DecompressUndoes ==
  ASSUME NEW old \in Block, NEW new \in Block, NEW mem, NEW p \in Nat,
         Contents(mem, p, state_manager_raw_compress(old, new))
  PROVE  state_manager_raw_decompress(mem, p, new) = old
<1> PICK D : D = Differ(old, new)
  OBVIOUS
<1>1. IsDiffer(D) /\ \A j \in 0..(Words - 1) : j \in D <=> old[j + 1] # new[j + 1]
  BY DifferGuarded
<1>2. PICK f : IsPatch(f, old, D, 0) /\ state_manager_raw_compress(old, new) = f[0]
  BY CompressIs
<1>3. \A i \in 0..Words : Form(f, old, D, i)
  BY <1>1, <1>2, PatchForm
<1>4. PICK g : /\ IsWritten(g, mem, Words)
               /\ IsOverwritten(state_manager_raw_decompress(mem, p, new), g[Words][p][0], new)
  BY DecompressIs
<1>5. Decodes(g, mem, old, D, f, Words, 0)
  BY <1>1, <1>3, <1>4, DecodesAll
<1>6. PICK W : W = g[Words][p][0]
  OBVIOUS
<1>7. Undoes(W, old, D, 0)
  BY <1>2, <1>5, <1>6 DEF Decodes
<1> QED BY <1>1, <1>4, <1>6, <1>7, UndoesAll

(* state_manager_raw_decompress gives back the older of any two savestates *)
(* from the newer and the patch between them.                              *)
THEOREM PatchUndoesAlways ==
  ASSUME NEW old \in Block, NEW new \in Block
  PROVE  PatchUndoes(old, new)
<1> PICK mem : mem = state_manager_raw_compress(old, new)
  OBVIOUS
<1>1. \A k \in 1..Len(mem) : mem[1 + k - 1] = mem[k]
  OBVIOUS
<1>2. Contents(mem, 1, mem)
  BY <1>1 DEF Contents
<1> QED BY <1>2, DecompressUndoes DEF PatchUndoes

(* PatchesUndo holds for every size of a savestate and every width of the  *)
(* counters.                                                               *)
THEOREM PatchesUndoAlways == Spec => []PatchesUndo
<1>1. PatchesUndo
  BY PatchUndoesAlways DEF PatchesUndo
<1> QED BY <1>1, PTL

-----------------------------------------------------------------------------
(* The size of a patch.  Ceil(n) limited runs make up n words.             *)
Ceil(n) == (n + U16 - 1) \div U16

LEMMA CeilIs ==
  ASSUME NEW n \in Nat, NEW q, q = Ceil(n)
  PROVE  q \in Nat /\ U16 * q <= n + U16 - 1 /\ n + U16 - 1 < U16 * q + U16
<1>1. ASSUME NEW a \in Nat, NEW b \in Nat, b >= 1, NEW c, c = a \div b
      PROVE  c \in Nat /\ b * c <= a /\ a < b * c + b
  BY <1>1
<1>2. n + U16 - 1 \in Nat /\ U16 \in Nat /\ U16 >= 1 /\ q = (n + U16 - 1) \div U16
  BY DEF Ceil
<1> QED BY <1>1, <1>2

LEMMA TimesMore ==
  ASSUME NEW a \in Nat, NEW b \in Nat, a < b
  PROVE  U16 * a + U16 <= U16 * b
<1>1. PICK d \in Nat : b = a + 1 + d
  <2>1. b - a - 1 \in Nat /\ b = a + 1 + (b - a - 1)
    OBVIOUS
  <2> QED BY <2>1
<1>2. U16 * b = U16 * a + U16 + U16 * d
  BY <1>1
<1>3. U16 * d \in Nat /\ U16 * a \in Nat
  BY <1>1
<1> QED BY <1>2, <1>3

LEMMA CeilMore ==
  ASSUME NEW m \in Nat, NEW n \in Nat, m <= n
  PROVE  Ceil(m) \in Nat /\ Ceil(n) \in Nat /\ Ceil(m) <= Ceil(n)
<1> PICK p, q : p = Ceil(m) /\ q = Ceil(n)
  OBVIOUS
<1>1. p \in Nat /\ U16 * p <= m + U16 - 1 /\ m + U16 - 1 < U16 * p + U16
  BY CeilIs
<1>2. q \in Nat /\ U16 * q <= n + U16 - 1 /\ n + U16 - 1 < U16 * q + U16
  BY CeilIs
<1>3. ASSUME q < p PROVE FALSE
  <2>1. U16 * q + U16 <= U16 * p
    BY <1>1, <1>2, <1>3, TimesMore
  <2>2. PICK x \in Int, y \in Int : x = U16 * q /\ y = U16 * p
    BY <1>1, <1>2
  <2> QED BY <1>1, <1>2, <2>1, <2>2
<1> QED BY <1>1, <1>2, <1>3

LEMMA CeilStep ==
  ASSUME NEW n \in Nat, NEW m \in Nat, n + U16 <= m
  PROVE  Ceil(n) \in Nat /\ Ceil(m) \in Nat /\ Ceil(n) + 1 <= Ceil(m)
<1> PICK p, q : p = Ceil(n) /\ q = Ceil(m)
  OBVIOUS
<1>1. p \in Nat /\ U16 * p <= n + U16 - 1 /\ n + U16 - 1 < U16 * p + U16
  BY CeilIs
<1>2. q \in Nat /\ U16 * q <= m + U16 - 1 /\ m + U16 - 1 < U16 * q + U16
  BY CeilIs
<1>3. ASSUME q < p + 1 PROVE FALSE
  <2>1. U16 * q <= U16 * p
    <3>1. CASE q = p
      BY <1>1, <3>1
    <3>2. CASE q < p
      <4>1. U16 * q + U16 <= U16 * p
        BY <1>1, <1>2, <3>2, TimesMore
      <4> QED BY <1>1, <1>2, <4>1
    <3> QED BY <1>1, <1>2, <1>3, <3>1, <3>2
  <2>2. PICK x \in Int, y \in Int : x = U16 * q /\ y = U16 * p
    BY <1>1, <1>2
  <2> QED BY <1>1, <1>2, <2>1, <2>2
<1> QED BY <1>1, <1>2, <1>3

LEMMA CeilSome ==
  ASSUME NEW n \in Nat, n >= 1 PROVE Ceil(n) >= 1
<1>1. PICK q : q = Ceil(n)
  OBVIOUS
<1>2. q \in Nat /\ n + U16 - 1 < U16 * q + U16
  BY <1>1, CeilIs
<1>3. q # 0
  <2>1. ASSUME q = 0 PROVE FALSE
    BY <1>2, <2>1
  <2> QED BY <2>1
<1> QED BY <1>1, <1>2, <1>3

(* The words a patch of n words may take: less behind two words that did   *)
(* not change, for the record that follows skips both.                     *)
AnyBound(n) == n + 2 * Ceil(n) + 3
SameBound(n) == n + 2 * Ceil(n + 1) + 1
Fits(l, D, i) ==
  /\ l <= AnyBound(Words - i)
  /\ i \notin D /\ i + 1 \notin D => l <= SameBound(Words - i)

LEMMA LastFits ==
  ASSUME NEW n \in Nat PROVE 3 <= AnyBound(n) /\ 3 <= SameBound(n)
<1>1. PICK c : c = Ceil(n)
  OBVIOUS
<1>2. PICK d : d = Ceil(n + 1)
  OBVIOUS
<1>3. c \in Nat /\ d \in Nat /\ d >= 1
  <2>1. n <= n + 1 /\ n + 1 \in Nat /\ n + 1 >= 1
    OBVIOUS
  <2> QED BY <1>1, <1>2, <2>1, CeilMore, CeilSome
<1> QED BY <1>1, <1>2, <1>3 DEF AnyBound, SameBound

LEMMA LongFits ==
  ASSUME NEW n \in Nat, NEW m \in Nat, NEW s \in Nat, s > U16, n = s + m,
         NEW l \in Nat, l <= AnyBound(m)
  PROVE  3 + l <= AnyBound(n) /\ 3 + l <= SameBound(n)
<1>1. PICK c, d, e : c = Ceil(m) /\ d = Ceil(n) /\ e = Ceil(n + 1)
  OBVIOUS
<1>2. c \in Nat /\ d \in Nat /\ e \in Nat /\ c + 1 <= d /\ d <= e
  <2>1. m + U16 <= n /\ n <= n + 1 /\ n + 1 \in Nat
    OBVIOUS
  <2> QED BY <1>1, <2>1, CeilMore, CeilStep
<1>3. l <= m + 2 * c + 3
  BY <1>1 DEF AnyBound
<1>4. 3 + l <= n + 2 * d + 3
  BY <1>2, <1>3
<1>5. 3 + l <= n + 2 * e + 1
  <2>1. CASE U16 >= 2
    BY <1>2, <1>3, <2>1
  <2>2. CASE U16 = 1
    <3>1. PICK b : b = Ceil(m + U16)
      OBVIOUS
    <3>2. m + U16 \in Nat /\ m + U16 + U16 <= n + 1 /\ n + 1 \in Nat /\ m + U16 <= m + U16
      BY <2>2
    <3>3. c + 1 <= b /\ b + 1 <= e /\ b \in Nat
      BY <1>1, <3>1, <3>2, CeilStep
    <3> QED BY <1>2, <1>3, <2>2, <3>3
  <2> QED BY <2>1, <2>2
<1> QED BY <1>1, <1>4, <1>5 DEF AnyBound, SameBound

LEMMA RunFits ==
  ASSUME NEW n \in Nat, NEW m \in Nat, NEW s \in Nat, NEW k \in 1..U16, n = s + k + m,
         NEW l \in Nat, l <= AnyBound(m), k = U16 \/ l <= SameBound(m)
  PROVE  2 + k + l <= AnyBound(n) /\ (s >= 2 => 2 + k + l <= SameBound(n))
<1>1. PICK c, d, e, h : c = Ceil(m) /\ d = Ceil(n) /\ e = Ceil(n + 1) /\ h = Ceil(m + 1)
  OBVIOUS
<1>2. c \in Nat /\ d \in Nat /\ e \in Nat /\ h \in Nat /\ d <= e /\ h <= d /\ (k = U16 => c + 1 <= d)
  <2>1. m + 1 <= n /\ n <= n + 1 /\ n + 1 \in Nat /\ m + 1 \in Nat /\ m <= n
    OBVIOUS
  <2>2. c \in Nat /\ d \in Nat /\ e \in Nat /\ h \in Nat /\ d <= e /\ h <= d
    BY <1>1, <2>1, CeilMore
  <2>3. ASSUME k = U16 PROVE c + 1 <= d
    <3>1. m + U16 <= n
      BY <2>3
    <3> QED BY <1>1, <3>1, CeilStep
  <2> QED BY <2>2, <2>3
<1>3. l <= m + 2 * c + 3 /\ (k = U16 \/ l <= m + 2 * h + 1)
  BY <1>1 DEF AnyBound, SameBound
<1>4. 2 + k + l <= n + 2 * d + 3
  BY <1>2, <1>3
<1>5. ASSUME s >= 2 PROVE 2 + k + l <= n + 2 * e + 1
  BY <1>2, <1>3, <1>5
<1> QED BY <1>1, <1>4, <1>5 DEF AnyBound, SameBound

LEMMA FitsOne ==
  ASSUME NEW D, IsDiffer(D), NEW old, NEW f, NEW i \in 0..Words, Form(f, old, D, i),
         \A j \in (i + 1)..Words : f[j] \in Seq(Nat) => Fits(Len(f[j]), D, j)
  PROVE  Fits(Len(f[i]), D, i)
<1>1. CASE NoMore(D, i) /\ IsLast(f[i])
  <2>1. PICK n \in Nat : n = Words - i
    OBVIOUS
  <2>2. 3 <= AnyBound(n) /\ 3 <= SameBound(n)
    BY LastFits
  <2> QED BY <1>1, <2>1, <2>2 DEF Fits, IsLast
<1>2. CASE ~(NoMore(D, i) /\ IsLast(f[i]))
  <2>1. PICK at, changed :
       /\ NextChange(D, i, at) /\ RunAt(D, at, changed)
       /\ IF at - i > U16 THEN IsLong(f[i], at - i, f[at])
          ELSE IsRun(f[i], old, at - i, at, changed, f[at + changed])
    BY <1>2 DEF Form
  <2>2. at \in i..(Words - 1) /\ at \in D
    BY <2>1 DEF NextChange
  <2>3. /\ changed \in 1..U16 /\ at + changed <= Words
        /\ changed = U16 \/ (at + changed \notin D /\ at + changed + 1 \notin D)
    BY <2>1 DEF RunAt
  <2>4. i \notin D /\ i + 1 \notin D => at - i >= 2
    <3>1. ASSUME i \notin D, i + 1 \notin D PROVE at # i /\ at # i + 1
      BY <2>2, <3>1
    <3> QED BY <2>2, <3>1
  <2>5. PICK n \in Nat, s \in Nat : n = Words - i /\ s = at - i
    BY <2>2
  <2>6. CASE s > U16
    <3>1. IsLong(f[i], at - i, f[at])
      BY <2>1, <2>5, <2>6
    <3>2. PICK l \in Nat, m \in Nat : l = Len(f[at]) /\ Len(f[i]) = 3 + l /\ m = Words - at /\ n = s + m
      <4>1. Len(f[at]) \in Nat /\ Len(f[i]) = 3 + Len(f[at])
        BY <3>1 DEF IsLong
      <4>2. Words - at \in Nat /\ n = s + (Words - at)
        BY <2>2, <2>5
      <4> QED BY <4>1, <4>2
    <3>3. l <= AnyBound(m)
      <4>1. at \in (i + 1)..Words /\ f[at] \in Seq(Nat)
        BY <2>2, <2>5, <2>6, <3>1 DEF IsLong
      <4> QED BY <3>2, <4>1 DEF Fits
    <3>4. 3 + l <= AnyBound(n) /\ 3 + l <= SameBound(n)
      BY <2>6, <3>2, <3>3, LongFits
    <3> QED BY <2>5, <3>2, <3>4 DEF Fits
  <2>7. CASE ~(s > U16)
    <3>1. IsRun(f[i], old, at - i, at, changed, f[at + changed])
      BY <2>1, <2>5, <2>7
    <3>2. PICK l \in Nat, m \in Nat : /\ l = Len(f[at + changed]) /\ Len(f[i]) = 2 + changed + l
                                      /\ m = Words - (at + changed) /\ n = s + changed + m
      <4>1. Len(f[at + changed]) \in Nat /\ Len(f[i]) = 2 + changed + Len(f[at + changed])
        BY <3>1 DEF IsRun
      <4>2. Words - (at + changed) \in Nat /\ n = s + changed + (Words - (at + changed))
        BY <2>2, <2>3, <2>5
      <4> QED BY <4>1, <4>2
    <3>3. l <= AnyBound(m) /\ (changed = U16 \/ l <= SameBound(m))
      <4>1. at + changed \in (i + 1)..Words /\ f[at + changed] \in Seq(Nat)
        BY <2>2, <2>3, <3>1 DEF IsRun
      <4> QED BY <2>3, <3>2, <4>1 DEF Fits
    <3>4. 2 + changed + l <= AnyBound(n) /\ (s >= 2 => 2 + changed + l <= SameBound(n))
      BY <2>3, <3>2, <3>3, RunFits
    <3> QED BY <2>4, <2>5, <3>2, <3>4 DEF Fits
  <2> QED BY <2>6, <2>7
<1> QED BY <1>1, <1>2

LEMMA FitsAll ==
  ASSUME NEW D, IsDiffer(D), NEW old, NEW f, \A i \in 0..Words : Form(f, old, D, i)
  PROVE  Fits(Len(f[0]), D, 0)
<1> DEFINE Bad == {n \in 0..Words : ~Fits(Len(f[Words - n]), D, Words - n)}
<1>1. ASSUME Bad # {} PROVE FALSE
  <2>1. PICK n \in Bad : \A m \in Bad : n <= m
    <3>1. Bad \in SUBSET Nat
      OBVIOUS
    <3> HIDE DEF Bad
    <3> QED BY <1>1, <3>1, LeastMember
  <2>2. n \in 0..Words /\ ~Fits(Len(f[Words - n]), D, Words - n)
    BY <2>1
  <2>3. ASSUME NEW j \in (Words - n + 1)..Words PROVE Fits(Len(f[j]), D, j)
    <3>1. Words - j \in 0..Words /\ ~(n <= Words - j) /\ Words - (Words - j) = j
      BY <2>2
    <3>2. Words - j \notin Bad
      <4> HIDE DEF Bad
      <4> QED BY <2>1, <3>1
    <3> QED BY <3>1, <3>2
  <2>4. Words - n \in 0..Words
    BY <2>2
  <2> HIDE DEF Bad
  <2> QED BY <2>2, <2>3, <2>4, FitsOne
<1>2. Words \notin Bad /\ Words \in 0..Words /\ Words - Words = 0
  BY <1>1
<1> QED BY <1>2

(* state_manager_raw_maxsize is a bound for state_manager_raw_compress.    *)
THEOREM CompressFits ==
  ASSUME NEW old \in Block, NEW new \in Block
  PROVE  /\ state_manager_raw_compress(old, new) \in Seq(Nat)
         /\ Len(state_manager_raw_compress(old, new)) <= state_manager_raw_maxsize
<1> PICK D : D = Differ(old, new)
  OBVIOUS
<1>1. IsDiffer(D)
  BY DifferGuarded
<1>2. PICK f : IsPatch(f, old, D, 0) /\ state_manager_raw_compress(old, new) = f[0]
  BY CompressIs
<1>3. \A i \in 0..Words : Form(f, old, D, i)
  BY <1>1, <1>2, PatchForm
<1>4. Fits(Len(f[0]), D, 0)
  BY <1>1, <1>3, FitsAll
<1>5. f[0] \in Seq(Nat)
  <2>1. 0 \in 0..Words
    OBVIOUS
  <2> QED BY <1>3, <2>1, FormIsSeq
<1>6. Len(f[0]) <= Words + 2 * Ceil(Words) + 3
  BY <1>4 DEF Fits, AnyBound
<1> QED BY <1>2, <1>5, <1>6 DEF state_manager_raw_maxsize, Ceil

-----------------------------------------------------------------------------
(* The ring.  What the theorems below suppose of the buffer's size: room   *)
(* for two patches of maximal size, or for none.  With less the wrap moves *)
(* the tail past the head, along a pointer never written (FramesLinked is  *)
(* violated), and none of the theorems about the ring holds.               *)
RoomForTwo == \A c \in Capacities : c < SizeT + maxcompsize \/ c >= 2 * maxcompsize

MaxSize == state_manager_raw_maxsize

LEMMA MaxSizeIs ==
  MaxSize \in Nat /\ MaxSize >= 4 /\ maxcompsize = MaxSize + 2 /\ SizeT = 1
<1>1. PICK c : c = Ceil(Words)
  OBVIOUS
<1>2. c \in Nat /\ c >= 1
  <2>1. Words \in Nat /\ Words <= Words /\ Words >= 1
    OBVIOUS
  <2> QED BY <1>1, <2>1, CeilMore, CeilSome
<1>3. MaxSize = Words + 2 * c + 3
  BY <1>1 DEF MaxSize, state_manager_raw_maxsize, Ceil
<1> QED BY <1>2, <1>3 DEF maxcompsize, MaxSize, SizeT

(* Frames get addresses that grow from the tail on to the head and on over *)
(* the end of a ring of c cells, where they come to cell 0 again.          *)
At(c, x) == IF x < c THEN x ELSE x - c

(* The frames start at G[0], ..., G[N], the head; the patch of frame i has *)
(* L[i] words.  The next frame starts behind it, or behind cell 0.         *)
IsStart(c, x) == x \in Nat /\ At(c, x) \in 1..(c - MaxSize - 1) /\ At(c, x) # 2
IsNext(c, x, l, y) ==
  /\ l \in 1..MaxSize
  /\ \/ y = x + l + 2 /\ (x < c <=> y < c)
     \/ x < c /\ y = c + 1
IsRing(c, N, G, L) ==
  /\ c \in Nat /\ c >= 2 * maxcompsize /\ N \in Nat
  /\ \A i \in 0..N : IsStart(c, G[i])
  /\ \A i \in 0..(N - 1) : IsNext(c, G[i], L[i], G[i + 1])
  /\ G[N] + 1 < G[0] + c
  /\ G[0] < c

LEMMA NextAfter ==
  ASSUME NEW c \in Nat, NEW x, NEW y, NEW l, IsStart(c, x), IsStart(c, y), IsNext(c, x, l, y)
  PROVE  x \in Nat /\ y \in Nat /\ l \in Nat /\ l >= 1 /\ l <= MaxSize /\ x + l + 2 <= y
<1>1. x \in Nat /\ y \in Nat /\ l \in 1..MaxSize /\ MaxSize \in Nat
  BY MaxSizeIs DEF IsStart, IsNext
<1>2. CASE y = x + l + 2
  BY <1>1, <1>2
<1>3. CASE x < c /\ y = c + 1
  <2>1. x <= c - MaxSize - 1
    BY <1>1, <1>3 DEF IsStart, At
  <2> QED BY <1>1, <1>3, <2>1
<1> QED BY <1>1, <1>2, <1>3 DEF IsNext

LEMMA Growing ==
  ASSUME NEW c, NEW N, NEW G, NEW L, IsRing(c, N, G, L),
         NEW i \in 0..N, NEW j \in 0..N, i < j
  PROVE  G[i] + L[i] + 2 <= G[j]
<1>1. \A k \in 0..(N - 1) : /\ G[k] \in Nat /\ G[k + 1] \in Nat /\ L[k] \in Nat /\ L[k] >= 1
                            /\ G[k] + L[k] + 2 <= G[k + 1]
  <2>1. ASSUME NEW k \in 0..(N - 1)
        PROVE /\ G[k] \in Nat /\ G[k + 1] \in Nat /\ L[k] \in Nat /\ L[k] >= 1
              /\ G[k] + L[k] + 2 <= G[k + 1]
    <3>1. c \in Nat /\ IsStart(c, G[k]) /\ IsStart(c, G[k + 1]) /\ IsNext(c, G[k], L[k], G[k + 1])
      <4>1. k \in 0..N /\ k + 1 \in 0..N
        BY DEF IsRing
      <4> QED BY <4>1 DEF IsRing
    <3> QED BY <3>1, NextAfter
  <2> QED BY <2>1
<1>2. N \in Nat /\ i \in 0..(N - 1)
  BY DEF IsRing
<1> DEFINE Bad == {k \in (i + 1)..N : ~(G[i] + L[i] + 2 <= G[k])}
<1>3. ASSUME Bad # {} PROVE FALSE
  <2>1. PICK k \in Bad : \A m \in Bad : k <= m
    <3>1. Bad \in SUBSET Nat
      BY <1>2
    <3> HIDE DEF Bad
    <3> QED BY <1>3, <3>1, LeastMember
  <2>2. k \in (i + 1)..N /\ ~(G[i] + L[i] + 2 <= G[k])
    BY <2>1
  <2>3. CASE k = i + 1
    BY <1>1, <1>2, <2>2, <2>3
  <2>4. CASE k # i + 1
    <3>1. k - 1 \in (i + 1)..N /\ ~(k <= k - 1) /\ k - 1 \in 0..(N - 1) /\ (k - 1) + 1 = k
      BY <1>2, <2>2, <2>4
    <3>2. k - 1 \notin Bad
      <4> HIDE DEF Bad
      <4> QED BY <2>1, <3>1
    <3>3. G[i] + L[i] + 2 <= G[k - 1]
      BY <3>1, <3>2
    <3>4. /\ G[k - 1] \in Nat /\ G[k] \in Nat /\ L[k - 1] \in Nat
          /\ G[k - 1] + L[k - 1] + 2 <= G[k]
      BY <1>1, <3>1
    <3>5. G[i] \in Nat /\ L[i] \in Nat
      BY <1>1, <1>2
    <3> HIDE DEF Bad
    <3> QED BY <2>2, <3>3, <3>4, <3>5
  <2> QED BY <2>3, <2>4
<1>4. j \in (i + 1)..N /\ j \notin Bad
  <2>1. j \in (i + 1)..N
    BY <1>2
  <2> HIDE DEF Bad
  <2> QED BY <1>3, <2>1
<1> QED BY <1>4

LEMMA RingBounds ==
  ASSUME NEW c, NEW N, NEW G, NEW L, IsRing(c, N, G, L), NEW i \in 0..N
  PROVE  /\ c \in Nat /\ N \in Nat /\ G[i] \in Nat /\ G[0] \in Nat /\ G[N] \in Nat
         /\ G[0] <= G[i] /\ G[i] <= G[N] /\ G[N] + 1 < G[0] + c /\ G[0] < c
<1>1. c \in Nat /\ N \in Nat /\ G[i] \in Nat /\ G[0] \in Nat /\ G[N] \in Nat
  BY DEF IsRing, IsStart
<1>2. \A k \in 0..(N - 1) : L[k] \in Nat
  BY MaxSizeIs DEF IsRing, IsNext
<1>3. G[0] <= G[i]
  <2>1. CASE i = 0
    BY <1>1, <2>1
  <2>2. CASE i # 0
    <3>1. 0 < i /\ 0 \in 0..N /\ 0 \in 0..(N - 1)
      BY <1>1, <2>2
    <3>2. G[0] + L[0] + 2 <= G[i]
      BY <3>1, Growing
    <3>3. L[0] \in Nat
      BY <1>2, <3>1
    <3> QED BY <1>1, <3>2, <3>3
  <2> QED BY <2>1, <2>2
<1>4. G[i] <= G[N]
  <2>1. CASE i = N
    BY <1>1, <2>1
  <2>2. CASE i # N
    <3>1. i < N /\ N \in 0..N /\ i \in 0..(N - 1)
      BY <1>1, <2>2
    <3>2. G[i] + L[i] + 2 <= G[N]
      BY <3>1, Growing
    <3>3. L[i] \in Nat
      BY <1>2, <3>1
    <3> QED BY <1>1, <3>2, <3>3
  <2> QED BY <2>1, <2>2
<1> QED BY <1>1, <1>3, <1>4 DEF IsRing

(* There are fewer frames than cells. *)
LEMMA FewFrames ==
  ASSUME NEW c, NEW N, NEW G, NEW L, IsRing(c, N, G, L)
  PROVE  N <= c
<1>1. c \in Nat /\ N \in Nat /\ G[0] \in Nat /\ G[N] \in Nat /\ G[N] + 1 < G[0] + c
  <2>1. 0 \in 0..N
    BY DEF IsRing
  <2> QED BY <2>1, RingBounds
<1> DEFINE Bad == {k \in 0..N : ~(G[0] + k <= G[k])}
<1>2. ASSUME Bad # {} PROVE FALSE
  <2>1. PICK k \in Bad : \A m \in Bad : k <= m
    <3>1. Bad \in SUBSET Nat
      BY <1>1
    <3> HIDE DEF Bad
    <3> QED BY <1>2, <3>1, LeastMember
  <2>2. k \in 0..N /\ ~(G[0] + k <= G[k])
    BY <2>1
  <2>3. k # 0
    BY <1>1, <2>2
  <2>4. k - 1 \in 0..N /\ ~(k <= k - 1) /\ k - 1 \in 0..(N - 1) /\ k - 1 < k
    BY <1>1, <2>2, <2>3
  <2>5. k - 1 \notin Bad
    <3> HIDE DEF Bad
    <3> QED BY <2>1, <2>4
  <2>6. G[0] + (k - 1) <= G[k - 1]
    BY <2>4, <2>5
  <2>7. G[k - 1] + L[k - 1] + 2 <= G[k]
    BY <2>2, <2>4, Growing
  <2>8. G[k - 1] \in Nat /\ G[k] \in Nat
    <3> HIDE DEF Bad
    <3> QED BY <2>2, <2>4, RingBounds
  <2>9. L[k - 1] \in Nat
    BY <2>4, MaxSizeIs DEF IsRing, IsNext
  <2> HIDE DEF Bad
  <2> QED BY <1>1, <2>2, <2>6, <2>7, <2>8, <2>9
<1>3. N \in 0..N /\ N \notin Bad
  <2> HIDE DEF Bad
  <2> QED BY <1>1, <1>2
<1>4. G[0] + N <= G[N]
  BY <1>3
<1> QED BY <1>1, <1>4

LEMMA ModOnce ==
  ASSUME NEW a \in Nat, NEW c \in Nat, a < c
  PROVE  a % c = a /\ (a + c) % c = a
OBVIOUS

(* The room behind the head, counted in cells. *)
LEMMA RemainingIs ==
  ASSUME NEW c, NEW N, NEW G, NEW L, IsRing(c, N, G, L), NEW i \in 0..N, capacity = c
  PROVE  remaining(At(c, G[N]), At(c, G[i])) = G[i] + c - 1 - G[N]
<1> PICK x, y : x = G[N] /\ y = G[i]
  OBVIOUS
<1>1. c \in Nat /\ x \in Nat /\ y \in Nat /\ y <= x /\ x + 1 < y + c
  BY RingBounds
<1>2. PICK a \in Nat : a = y + c - 2 - x /\ a < c
  BY <1>1
<1>3. PICK h, t : h = At(c, x) /\ t = At(c, y)
  OBVIOUS
<1>4. h \in Int /\ t \in Int /\ (t + c - 1 - h - 1 = a \/ t + c - 1 - h - 1 = a + c)
  BY <1>1, <1>2, <1>3 DEF At
<1>5. (t + c - 1 - h - 1) % c = a
  <2>1. a % c = a /\ (a + c) % c = a
    BY <1>1, <1>2, ModOnce
  <2> QED BY <1>4, <2>1
<1>6. remaining(h, t) = ((t + c - 1 - h - 1) % c) + 1
  BY DEF remaining, SizeT
<1> QED BY <1>1, <1>2, <1>3, <1>5, <1>6

(* recheckcapacity retreats over frame after frame. *)
Retreat(h, t) == IF remaining(h, t) <= maxcompsize THEN data[t] ELSE t
IsRetreat(f, h, t0, n) == f = [k \in 0..n |-> IF k = 0 THEN t0 ELSE Retreat(h, f[k - 1])]

LEMMA RetreatFurther ==
  ASSUME NEW h, NEW t0, NEW n \in Nat, NEW f, IsRetreat(f, h, t0, n)
  PROVE  \E g : IsRetreat(g, h, t0, n + 1)
<1> DEFINE g == [k \in 0..(n + 1) |-> IF k <= n THEN f[k] ELSE Retreat(h, f[k - 1])]
<1>1. ASSUME NEW k \in 0..(n + 1)
      PROVE  g[k] = IF k = 0 THEN t0 ELSE Retreat(h, g[k - 1])
  <2>1. g[k] = IF k <= n THEN f[k] ELSE Retreat(h, f[k - 1])
    OBVIOUS
  <2>2. k # 0 => g[k - 1] = f[k - 1]
    OBVIOUS
  <2> HIDE DEF g
  <2>3. k <= n => f[k] = IF k = 0 THEN t0 ELSE Retreat(h, f[k - 1])
    BY DEF IsRetreat
  <2> QED BY <2>1, <2>2, <2>3
<1>2. g = [k \in 0..(n + 1) |-> g[k]]
  OBVIOUS
<1> HIDE DEF g
<1>3. g = [k \in 0..(n + 1) |-> IF k = 0 THEN t0 ELSE Retreat(h, g[k - 1])]
  BY <1>1, <1>2
<1> QED BY <1>3 DEF IsRetreat

LEMMA RetreatExists ==
  ASSUME NEW h, NEW t0, NEW c \in Nat
  PROVE  \E f : IsRetreat(f, h, t0, c)
<1> DEFINE Bad == {n \in Nat : ~ \E f : IsRetreat(f, h, t0, n)}
<1>1. ASSUME Bad # {} PROVE FALSE
  <2>1. PICK n \in Bad : \A m \in Bad : n <= m
    <3>1. Bad \in SUBSET Nat
      OBVIOUS
    <3> HIDE DEF Bad
    <3> QED BY <1>1, <3>1, LeastMember
  <2>2. n \in Nat /\ ~ \E f : IsRetreat(f, h, t0, n)
    BY <2>1
  <2>3. CASE n = 0
    <3> DEFINE f == [k \in 0..0 |-> t0]
    <3>1. f = [k \in 0..0 |-> IF k = 0 THEN t0 ELSE Retreat(h, f[k - 1])]
      OBVIOUS
    <3>2. IsRetreat(f, h, t0, n)
      <4> HIDE DEF f
      <4> QED BY <2>3, <3>1 DEF IsRetreat
    <3> QED BY <2>2, <3>2
  <2>4. CASE n # 0
    <3>1. PICK m \in Nat : m = n - 1 /\ m + 1 = n /\ ~(n <= m)
      <4>1. n - 1 \in Nat /\ (n - 1) + 1 = n /\ ~(n <= n - 1)
        BY <2>2, <2>4
      <4> QED BY <4>1
    <3>2. m \notin Bad
      <4> HIDE DEF Bad
      <4> QED BY <2>1, <3>1
    <3>3. PICK f : IsRetreat(f, h, t0, m)
      BY <3>2
    <3>4. \E g : IsRetreat(g, h, t0, m + 1)
      BY <3>3, RetreatFurther
    <3> QED BY <2>2, <3>1, <3>4
  <2> QED BY <2>3, <2>4
<1>2. c \notin Bad
  BY <1>1
<1> QED BY <1>2

LEMMA RecheckIs ==
  ASSUME NEW h, NEW t0, capacity \in Nat
  PROVE  \E f : /\ IsRetreat(f, h, t0, capacity)
                /\ recheckcapacity(h, t0) = f[capacity]
<1> DEFINE c == CHOOSE f : f = [n \in 0..capacity |-> IF n = 0 THEN t0 ELSE Retreat(h, f[n - 1])]
<1>1. recheckcapacity(h, t0) = c[capacity]
  BY DEF recheckcapacity, Retreat
<1>2. \E f : f = [n \in 0..capacity |-> IF n = 0 THEN t0 ELSE Retreat(h, f[n - 1])]
  <2>1. \E f : IsRetreat(f, h, t0, capacity)
    BY RetreatExists
  <2> QED BY <2>1 DEF IsRetreat
<1>3. c = [n \in 0..capacity |-> IF n = 0 THEN t0 ELSE Retreat(h, c[n - 1])]
  BY <1>2
<1> HIDE DEF c
<1> QED BY <1>1, <1>3 DEF IsRetreat

(* room behind the head for a patch of maximal size and its pointers *)
HasRoom(c, N, G, i) == G[N] + maxcompsize + 1 < G[i] + c

LEMMA RoomAtHead ==
  ASSUME NEW c, NEW N, NEW G, NEW L, IsRing(c, N, G, L)
  PROVE  HasRoom(c, N, G, N)
<1>1. N \in 0..N
  BY DEF IsRing
<1>2. c \in Nat /\ G[N] \in Nat /\ c >= 2 * maxcompsize
  BY <1>1, RingBounds DEF IsRing
<1> QED BY <1>2, MaxSizeIs DEF HasRoom

(* The tail retreats to the start of a frame, and leaves room. *)
LEMMA TailLeavesRoom ==
  ASSUME NEW c, NEW N, NEW G, NEW L, IsRing(c, N, G, L), capacity = c,
         \A i \in 0..(N - 1) : data[At(c, G[i])] = At(c, G[i + 1]),
         NEW h, h = At(c, G[N])
  PROVE  \E i \in 0..N : recheckcapacity(h, G[0]) = At(c, G[i]) /\ HasRoom(c, N, G, i)
<1>1. c \in Nat /\ N \in Nat /\ G[0] \in Nat /\ G[0] < c /\ N <= c
  <2>1. 0 \in 0..N
    BY DEF IsRing
  <2> QED BY <2>1, RingBounds, FewFrames
<1>2. PICK f : IsRetreat(f, h, G[0], c) /\ recheckcapacity(h, G[0]) = f[c]
  BY <1>1, RecheckIs
<1> DEFINE Found(n) == \E i \in 0..N : f[n] = At(c, G[i]) /\ (HasRoom(c, N, G, i) \/ i >= n)
<1> DEFINE Bad == {n \in 0..c : ~Found(n)}
<1>3. Found(0)
  <2>1. f[0] = G[0] /\ 0 \in 0..N
    BY <1>1, <1>2 DEF IsRetreat
  <2>2. G[0] = At(c, G[0])
    BY <1>1 DEF At
  <2> QED BY <2>1, <2>2
<1>4. ASSUME NEW n \in 0..(c - 1), Found(n) PROVE Found(n + 1)
  <2>1. PICK i \in 0..N : f[n] = At(c, G[i]) /\ (HasRoom(c, N, G, i) \/ i >= n)
    BY <1>4
  <2>2. f[n + 1] = Retreat(h, f[n])
    <3>1. n + 1 \in 0..c /\ n + 1 # 0 /\ (n + 1) - 1 = n
      BY <1>1
    <3> QED BY <1>2, <3>1 DEF IsRetreat
  <2>3. remaining(h, At(c, G[i])) = G[i] + c - 1 - G[N]
    BY RemainingIs
  <2>4. G[i] \in Nat /\ G[N] \in Nat /\ maxcompsize \in Nat
    BY MaxSizeIs, RingBounds
  <2>5. CASE HasRoom(c, N, G, i)
    <3>1. ~(remaining(h, At(c, G[i])) <= maxcompsize)
      BY <1>1, <2>3, <2>4, <2>5 DEF HasRoom
    <3>2. f[n + 1] = At(c, G[i])
      BY <2>1, <2>2, <3>1 DEF Retreat
    <3> QED BY <2>5, <3>2
  <2>6. CASE ~HasRoom(c, N, G, i)
    <3>1. remaining(h, At(c, G[i])) <= maxcompsize
      BY <1>1, <2>3, <2>4, <2>6 DEF HasRoom
    <3>2. i # N
      BY <2>6, RoomAtHead
    <3>3. i \in 0..(N - 1) /\ i + 1 \in 0..N /\ i + 1 >= n + 1
      BY <1>1, <2>1, <2>6, <3>2
    <3>4. f[n + 1] = At(c, G[i + 1])
      BY <2>1, <2>2, <3>1, <3>3 DEF Retreat
    <3> QED BY <3>3, <3>4
  <2> QED BY <2>5, <2>6
<1> HIDE DEF Found
<1>5. ASSUME Bad # {} PROVE FALSE
  <2>1. PICK n \in Bad : \A m \in Bad : n <= m
    <3>1. Bad \in SUBSET Nat
      OBVIOUS
    <3> HIDE DEF Bad
    <3> QED BY <1>5, <3>1, LeastMember
  <2>2. n \in 0..c /\ ~Found(n)
    BY <2>1
  <2>3. n # 0
    BY <1>3, <2>2
  <2>4. PICK m \in 0..(c - 1) : m = n - 1 /\ m + 1 = n /\ ~(n <= m) /\ m \in 0..c
    <3>1. n - 1 \in 0..(c - 1) /\ (n - 1) + 1 = n /\ ~(n <= n - 1) /\ n - 1 \in 0..c
      BY <1>1, <2>2, <2>3
    <3> QED BY <3>1
  <2>5. m \notin Bad
    <3> HIDE DEF Bad
    <3> QED BY <2>1, <2>4
  <2>6. Found(m)
    BY <2>4, <2>5
  <2>7. Found(m + 1)
    BY <1>4, <2>6
  <2> QED BY <2>2, <2>4, <2>7
<1>6. Found(c)
  <2>1. c \in 0..c
    BY <1>1
  <2> QED BY <1>5, <2>1
<1>7. PICK i \in 0..N : f[c] = At(c, G[i]) /\ (HasRoom(c, N, G, i) \/ i >= c)
  BY <1>6 DEF Found
<1>8. HasRoom(c, N, G, i)
  <2>1. i >= c => i = N
    BY <1>1
  <2> QED BY <1>7, <2>1, RoomAtHead
<1> QED BY <1>2, <1>7, <1>8

-----------------------------------------------------------------------------
(* What the ring holds: the frames of the savestates B[0], ..., B[N - 1],  *)
(* each the patch that turns its successor into it, B[N] being the newest. *)
Patch(B, i) == state_manager_raw_compress(B[i], B[i + 1])

Frame(d, x, y, p) == d[x] = y /\ d[y - 1] = x /\ Contents(d, x + 1, p)

Holds(c, d, N, G, B, L) ==
  \A i \in 0..(N - 1) : /\ L[i] = Len(Patch(B, i))
                        /\ Frame(d, At(c, G[i]), At(c, G[i + 1]), Patch(B, i))

RingOf(c, d, h, t, N, G, B, L) ==
  /\ IsRing(c, N, G, L)
  /\ DOMAIN d = 0..(c - 1)
  /\ Holds(c, d, N, G, B, L)
  /\ \A i \in 0..N : B[i] \in Saved
  /\ G[0] = t /\ At(c, G[N]) = h

LEMMA PatchSize ==
  ASSUME NEW old \in Block, NEW new \in Block, NEW p, p = state_manager_raw_compress(old, new)
  PROVE  p \in Seq(Nat) /\ Len(p) \in 1..MaxSize
<1> PICK D : D = Differ(old, new)
  OBVIOUS
<1>1. IsDiffer(D)
  BY DifferGuarded
<1>2. PICK f : IsPatch(f, old, D, 0) /\ state_manager_raw_compress(old, new) = f[0]
  BY CompressIs
<1>3. Form(f, old, D, 0)
  <2>1. 0 \in 0..Words
    OBVIOUS
  <2> QED BY <1>1, <1>2, <2>1, PatchForm
<1>4. Len(f[0]) >= 1
  BY <1>3 DEF Form, IsLast, IsLong, IsRun, RunAt
<1>5. p \in Seq(Nat) /\ Len(p) <= MaxSize /\ p = f[0]
  BY <1>2, CompressFits DEF MaxSize
<1> QED BY <1>4, <1>5, MaxSizeIs

(* The newest frame is undone. *)
LEMMA PopOne ==
  ASSUME NEW c, NEW d, NEW h, NEW t, NEW N, NEW G, NEW B, NEW L,
         RingOf(c, d, h, t, N, G, B, L), N # 0
  PROVE  /\ N - 1 \in 0..N
         /\ RingOf(c, d, d[h - 1], t, N - 1, G, B, L)
         /\ d[h - 1] + 1 \in Nat
         /\ Contents(d, d[h - 1] + 1, state_manager_raw_compress(B[N - 1], B[N]))
<1>1. IsRing(c, N, G, L) /\ N \in Nat /\ N - 1 \in 0..(N - 1) /\ (N - 1) + 1 = N /\ N - 1 \in 0..N
  BY DEF RingOf, IsRing
<1>2. PICK x : x = At(c, G[N - 1])
  OBVIOUS
<1>3. Frame(d, x, h, Patch(B, N - 1))
  BY <1>1, <1>2 DEF RingOf, Holds
<1>4. d[h - 1] = x /\ Contents(d, x + 1, state_manager_raw_compress(B[N - 1], B[N]))
  BY <1>1, <1>3 DEF Frame, Patch
<1>5. x \in Nat
  BY <1>1, <1>2, MaxSizeIs DEF IsRing, IsStart
<1>6. IsRing(c, N - 1, G, L)
  <2>1. c \in Nat /\ G[N - 1] \in Nat /\ G[N] \in Nat /\ G[0] \in Nat /\ G[N - 1] <= G[N] /\ G[N] + 1 < G[0] + c
    BY <1>1, RingBounds
  <2>2. \A i \in 0..(N - 1) : i \in 0..N
    BY <1>1
  <2>3. \A i \in 0..(N - 1 - 1) : i \in 0..(N - 1)
    BY <1>1
  <2>4. N - 1 \in Nat /\ G[N - 1] + 1 < G[0] + c
    BY <1>1, <2>1
  <2> QED BY <1>1, <2>2, <2>3, <2>4 DEF IsRing
<1>7. RingOf(c, d, x, t, N - 1, G, B, L)
  <2>1. \A i \in 0..(N - 1) : i \in 0..N
    BY <1>1
  <2>2. \A i \in 0..(N - 1 - 1) : i \in 0..(N - 1)
    BY <1>1
  <2>3. Holds(c, d, N - 1, G, B, L)
    BY <2>2 DEF RingOf, Holds
  <2> QED BY <1>2, <1>6, <2>1, <2>3 DEF RingOf
<1> QED BY <1>1, <1>4, <1>5, <1>7

(* The oldest j frames are forgotten. *)
Shift(c, x) == IF x < c THEN 0 ELSE c
IsForgotten(c, N, j, G, B, L, G2, B2, L2) ==
  /\ \A i \in 0..(N - j) : G2[i] = G[j + i] - Shift(c, G[j]) /\ B2[i] = B[j + i]
  /\ \A i \in 0..(N - j - 1) : L2[i] = L[j + i]

LEMMA ShiftedStart ==
  ASSUME NEW c \in Nat, NEW x, NEW y, NEW z, IsStart(c, x), IsStart(c, y), x <= y, y < x + c,
         x < 2 * c, z = y - Shift(c, x), y < 2 * c
  PROVE  IsStart(c, z) /\ At(c, z) = At(c, y)
BY MaxSizeIs DEF IsStart, At, Shift

LEMMA ShiftedNext ==
  ASSUME NEW c \in Nat, NEW x, NEW y, NEW z, NEW l,
         IsStart(c, x), IsStart(c, y), IsStart(c, z), x <= y, y <= z, z < 2 * c, IsNext(c, y, l, z)
  PROVE  IsNext(c, y - Shift(c, x), l, z - Shift(c, x))
<1>1. x \in Nat /\ y \in Nat /\ z \in Nat /\ l \in Nat
  BY MaxSizeIs DEF IsStart, IsNext
<1>2. CASE x < c
  BY <1>1, <1>2 DEF IsNext, Shift
<1>3. CASE ~(x < c)
  BY <1>1, <1>3 DEF IsNext, Shift
<1> QED BY <1>2, <1>3

LEMMA Forget ==
  ASSUME NEW c, NEW d, NEW h, NEW t, NEW N, NEW G, NEW B, NEW L,
         RingOf(c, d, h, t, N, G, B, L), NEW j \in 0..N, NEW G2, NEW B2, NEW L2,
         IsForgotten(c, N, j, G, B, L, G2, B2, L2)
  PROVE  /\ RingOf(c, d, h, At(c, G[j]), N - j, G2, B2, L2)
         /\ HasRoom(c, N, G, j) => HasRoom(c, N - j, G2, 0)
<1>1. IsRing(c, N, G, L)
  BY DEF RingOf
<1>2. c \in Nat /\ N \in Nat /\ G[0] \in Nat /\ G[j] \in Nat /\ G[N] \in Nat
      /\ G[0] <= G[j] /\ G[j] <= G[N] /\ G[N] + 1 < G[0] + c /\ G[0] < c
  BY <1>1, RingBounds
<1>3. PICK n \in Nat : n = N - j /\ \A i \in 0..n : j + i \in 0..N
  <2>1. N - j \in Nat /\ \A i \in 0..(N - j) : j + i \in 0..N
    BY <1>2
  <2> QED BY <2>1
<1>4. PICK s : s = Shift(c, G[j])
  OBVIOUS
<1>5. \A i \in 0..n : G2[i] = G[j + i] - s /\ B2[i] = B[j + i]
  BY <1>3, <1>4 DEF IsForgotten
<1>6. \A i \in 0..(n - 1) : L2[i] = L[j + i]
  BY <1>3 DEF IsForgotten
<1>7. \A i \in 0..N : IsStart(c, G[i])
  BY <1>1 DEF IsRing
<1>8. ASSUME NEW i \in 0..n
      PROVE  /\ IsStart(c, G2[i]) /\ At(c, G2[i]) = At(c, G[j + i])
             /\ G[j + i] \in Nat /\ G[j] <= G[j + i] /\ G[j + i] < 2 * c
  <2>1. j + i \in 0..N
    BY <1>3
  <2>2. G[j + i] \in Nat /\ G[j + i] <= G[N]
    BY <1>1, <2>1, RingBounds
  <2>3. G[j] <= G[j + i]
    <3>1. CASE i = 0
      BY <1>2, <3>1
    <3>2. CASE i # 0
      <4>1. j < j + i /\ j \in 0..(N - 1)
        BY <1>2, <1>3, <2>1, <3>2
      <4>2. G[j] + L[j] + 2 <= G[j + i]
        BY <1>1, <2>1, <4>1, Growing
      <4>3. L[j] \in Nat
        BY <1>1, <4>1, MaxSizeIs DEF IsRing, IsNext
      <4> QED BY <1>2, <2>2, <4>2, <4>3
    <3> QED BY <3>1, <3>2
  <2>4. G[j + i] < 2 * c /\ G[j + i] < G[j] + c /\ G[j] < 2 * c
    BY <1>2, <2>2
  <2>5. G2[i] = G[j + i] - Shift(c, G[j])
    BY <1>4, <1>5
  <2>6. IsStart(c, G2[i]) /\ At(c, G2[i]) = At(c, G[j + i])
    <3>1. IsStart(c, G[j]) /\ IsStart(c, G[j + i])
      BY <1>7, <2>1
    <3> QED BY <1>2, <2>3, <2>4, <2>5, <3>1, ShiftedStart
  <2> QED BY <2>2, <2>3, <2>4, <2>6
<1>9. ASSUME NEW i \in 0..(n - 1)
      PROVE /\ i \in 0..n /\ i + 1 \in 0..n /\ j + (i + 1) = (j + i) + 1 /\ j + i \in 0..(N - 1)
            /\ IsNext(c, G2[i], L2[i], G2[i + 1])
  <2>1. i \in 0..n /\ i + 1 \in 0..n /\ j + (i + 1) = (j + i) + 1 /\ j + i \in 0..(N - 1)
    BY <1>2, <1>3
  <2>2. IsNext(c, G[j + i], L[j + i], G[j + (i + 1)])
    BY <1>1, <2>1 DEF IsRing
  <2>3. /\ G[j] <= G[j + i] /\ G[j + (i + 1)] < 2 * c
        /\ IsStart(c, G[j]) /\ IsStart(c, G[j + i]) /\ IsStart(c, G[j + (i + 1)])
    BY <1>3, <1>7, <1>8, <2>1
  <2>4. G[j + i] <= G[j + (i + 1)]
    <3>1. /\ G[j + i] \in Nat /\ G[j + (i + 1)] \in Nat /\ L[j + i] \in Nat
          /\ G[j + i] + L[j + i] + 2 <= G[j + (i + 1)]
      BY <1>2, <2>2, <2>3, NextAfter
    <3> QED BY <3>1
  <2>5. IsNext(c, G[j + i] - Shift(c, G[j]), L[j + i], G[j + (i + 1)] - Shift(c, G[j]))
    BY <1>2, <2>2, <2>3, <2>4, ShiftedNext
  <2> QED BY <1>4, <1>5, <1>6, <2>1, <2>5
<1>10. s \in Nat /\ s <= G[j] /\ G[j] - s < c /\ G[j] - s = At(c, G[j])
  <2>1. G[j] < 2 * c
    BY <1>2
  <2> QED BY <1>2, <1>4, <2>1 DEF Shift, At
<1>11. G2[0] = G[j] - s /\ G2[n] = G[N] - s
  <2>1. 0 \in 0..n /\ n \in 0..n /\ j + 0 = j /\ j + n = N
    BY <1>2, <1>3
  <2> QED BY <1>5, <2>1
<1>12. IsRing(c, n, G2, L2)
  <2>1. G2[n] + 1 < G2[0] + c /\ G2[0] < c
    BY <1>2, <1>10, <1>11
  <2> QED BY <1>1, <1>8, <1>9, <2>1 DEF IsRing
<1>13. Holds(c, d, n, G2, B2, L2)
  <2>1. ASSUME NEW i \in 0..(n - 1)
        PROVE  /\ L2[i] = Len(Patch(B2, i))
               /\ Frame(d, At(c, G2[i]), At(c, G2[i + 1]), Patch(B2, i))
    <3>1. Patch(B2, i) = Patch(B, j + i)
      BY <1>5, <1>9 DEF Patch
    <3>2. /\ L[j + i] = Len(Patch(B, j + i))
          /\ Frame(d, At(c, G[j + i]), At(c, G[j + (i + 1)]), Patch(B, j + i))
      BY <1>9 DEF RingOf, Holds
    <3>3. At(c, G2[i]) = At(c, G[j + i]) /\ At(c, G2[i + 1]) = At(c, G[j + (i + 1)])
      BY <1>8, <1>9
    <3> QED BY <1>6, <3>1, <3>2, <3>3
  <2> QED BY <2>1 DEF Holds
<1>14. \A i \in 0..n : B2[i] \in Saved
  BY <1>3, <1>5 DEF RingOf
<1>15. At(c, G2[n]) = h
  <2>1. n \in 0..n /\ j + n = N
    BY <1>2, <1>3
  <2> QED BY <1>8, <2>1 DEF RingOf
<1>16. RingOf(c, d, h, At(c, G[j]), n, G2, B2, L2)
  BY <1>10, <1>11, <1>12, <1>13, <1>14, <1>15 DEF RingOf
<1>17. HasRoom(c, N, G, j) => HasRoom(c, n, G2, 0)
  BY <1>2, <1>10, <1>11, MaxSizeIs DEF HasRoom
<1> QED BY <1>3, <1>16, <1>17

-----------------------------------------------------------------------------
(* d2 is the ring d once push_patch has stored the patch p behind head h   *)
(* and left the pointers around it, the second one at cell at.             *)
IsStored(d, d2, h, p, at) ==
  /\ DOMAIN d2 = DOMAIN d
  /\ Frame(d2, h, at + 1, p)
  /\ \A x \in DOMAIN d : x \notin h..(h + Len(p)) /\ x # at => d2[x] = d[x]

(* where the pointer behind a patch of m words goes, for a tail at t       *)
IsEnd(c, h, m, t, at) ==
  \/ at = h + 1 + m /\ h + 1 + m + maxcompsize <= c
  \/ at = 0 /\ h + 1 + m + maxcompsize > c /\ t # 1

(* None of the cells of the frame from X to Z, whose patch has l words, is *)
(* one of the m words behind h, nor h or cell at.                          *)
Clear(c, X, Z, l, h, m, at) ==
  /\ \A k \in X..(X + l) : k \in 0..(c - 1) /\ k \notin h..(h + m) /\ k # at
  /\ Z - 1 \in 0..(c - 1) /\ Z - 1 \notin h..(h + m) /\ Z - 1 # at

(* The frame from x to z lies before the head g, behind the tail t: what a *)
(* push writes behind the head is not its.                                 *)
LEMMA OutOfTheWay ==
  ASSUME NEW c \in Nat, NEW t, NEW x, NEW z, NEW l, NEW g, NEW m \in 1..MaxSize, NEW at,
         IsStart(c, t), t < c, IsStart(c, x), IsStart(c, z), IsStart(c, g), IsNext(c, x, l, z),
         t <= x, z <= g, g + maxcompsize + 1 < t + c, IsEnd(c, At(c, g), m, t, at)
  PROVE  Clear(c, At(c, x), At(c, z), l, At(c, g), m, at)
<1>1. x \in Nat /\ z \in Nat /\ l \in Nat /\ l >= 1 /\ l <= MaxSize /\ x + l + 2 <= z
  BY NextAfter
<1>2. t \in Nat /\ g \in Nat /\ MaxSize \in Nat /\ maxcompsize = MaxSize + 2 /\ m \in Nat /\ m <= MaxSize
      /\ m >= 1 /\ z < t + c /\ z < 2 * c /\ x < 2 * c /\ g < 2 * c
      /\ t <= c - MaxSize - 1 /\ g + MaxSize + 3 < t + c
  BY <1>1, MaxSizeIs DEF IsStart, At
<1> PICK X, Z, H : X = At(c, x) /\ Z = At(c, z) /\ H = At(c, g)
  OBVIOUS
<1>3. /\ X \in 1..(c - MaxSize - 1) /\ Z \in 1..(c - MaxSize - 1) /\ H \in 1..(c - MaxSize - 1)
      /\ X = IF x < c THEN x ELSE x - c
      /\ Z = IF z < c THEN z ELSE z - c
      /\ H = IF g < c THEN g ELSE g - c
  BY DEF IsStart, At
<1>4. X + l < H \/ H + m + 2 < X
  BY <1>1, <1>2, <1>3
<1>5. X \in Nat /\ Z \in Nat /\ H \in Nat
  BY <1>2, <1>3
<1>6. Z - 1 < H \/ H + m + 1 < Z - 1
  <2>1. CASE g < c
    <3>1. z < c /\ z - 1 < g
      BY <1>1, <1>2, <2>1
    <3>2. Z = z /\ H = g
      BY <1>3, <2>1, <3>1
    <3> QED BY <2>1, <3>1, <3>2
  <2>2. CASE ~(g < c) /\ z < c
    BY <1>1, <1>2, <1>3, <2>2
  <2>3. CASE ~(g < c) /\ ~(z < c)
    BY <1>1, <1>2, <1>3, <2>3
  <2> QED BY <2>1, <2>2, <2>3
<1>7. at = 0 /\ H + 1 + m + maxcompsize > c => g < c
  BY <1>1, <1>2, <1>3, <1>5
<1>8. at = H + 1 + m \/ at = 0
  BY DEF IsEnd
<1>9. CASE at = H + 1 + m
  BY <1>2, <1>3, <1>4, <1>5, <1>6, <1>9, <1>1 DEF Clear
<1>10. CASE at = 0 /\ H + 1 + m + maxcompsize > c
  <2>1. z < c /\ z - 1 # 0
    BY <1>1, <1>2, <1>7, <1>10
  <2> QED BY <1>1, <1>2, <1>3, <1>4, <1>5, <1>6, <1>10, <2>1 DEF Clear
<1> QED BY <1>9, <1>10 DEF IsEnd

LEMMA StoredIs ==
  ASSUME NEW c \in Nat, DOMAIN data = 0..(c - 1), NEW h \in 1..(c - MaxSize - 1),
         NEW p \in Seq(Nat), Len(p) \in 1..MaxSize, NEW at, NEW t, IsEnd(c, h, Len(p), t, at),
         NEW d2, d2 = [Store(h + SizeT, p) EXCEPT ![at] = h, ![h] = at + SizeT]
  PROVE  IsStored(data, d2, h, p, at)
<1> PICK m \in Nat : m = Len(p) /\ m >= 1 /\ m <= MaxSize
  BY MaxSizeIs
<1> PICK s : s = Store(h + SizeT, p)
  OBVIOUS
<1>1. MaxSize \in Nat /\ maxcompsize = MaxSize + 2 /\ SizeT = 1 /\ h \in Nat
  BY MaxSizeIs
<1>2. at \in 0..(c - 1) /\ at # h /\ at \notin (h + 1)..(h + m) /\ h \in 0..(c - 1) /\ h + m \in 0..(c - 1)
  BY <1>1 DEF IsEnd
<1>3. /\ DOMAIN s = 0..(c - 1)
      /\ \A x \in 0..(c - 1) : s[x] = IF x \in (h + 1)..(h + 1 + m - 1)
                                      THEN p[x - (h + 1) + 1] ELSE data[x]
  <2>1. s = [i \in 0..(c - 1) |-> IF i \in (h + 1)..(h + 1 + m - 1)
                                   THEN p[i - (h + 1) + 1] ELSE data[i]]
    BY <1>1 DEF Store
  <2> QED BY <2>1
<1>4. DOMAIN d2 = 0..(c - 1) /\ d2[h] = at + 1 /\ d2[at] = h
      /\ \A x \in 0..(c - 1) : x # h /\ x # at => d2[x] = s[x]
  <2>1. d2 = [s EXCEPT ![at] = h, ![h] = at + 1]
    BY <1>1
  <2> QED BY <1>2, <1>3, <2>1
<1>5. ASSUME NEW k \in 1..m PROVE d2[(h + 1) + k - 1] = p[k]
  <2>1. PICK x \in Nat : x = h + k /\ x = (h + 1) + k - 1
    BY <1>1
  <2>2. /\ x \in (h + 1)..(h + 1 + m - 1) /\ x - (h + 1) + 1 = k
        /\ x \in 0..(c - 1) /\ x # h /\ x # at
    BY <1>1, <1>2, <2>1
  <2>3. d2[x] = s[x]
    BY <1>4, <2>2
  <2>4. s[x] = p[k]
    BY <1>3, <2>2
  <2> QED BY <2>1, <2>3, <2>4
<1>6. Contents(d2, h + 1, p)
  BY <1>5 DEF Contents
<1>7. Frame(d2, h, at + 1, p)
  <2>1. PICK y : y = at + 1 /\ y - 1 = at
    <3>1. (at + 1) - 1 = at
      BY <1>2
    <3> QED BY <3>1
  <2>2. Frame(d2, h, y, p)
    BY <1>4, <1>6, <2>1 DEF Frame
  <2> QED BY <2>1, <2>2
<1>8. ASSUME NEW x \in 0..(c - 1), x \notin h..(h + m), x # at PROVE d2[x] = data[x]
  <2>1. x # h /\ x \notin (h + 1)..(h + 1 + m - 1)
    BY <1>1, <1>8
  <2> QED BY <1>3, <1>4, <1>8, <2>1
<1> QED BY <1>4, <1>7, <1>8 DEF IsStored

(* The frame of the newest savestate is pushed behind the others: the ring *)
(* goes on up to address y.                                                *)
IsExtended(F, n, v, F2) == F2[n] = v /\ \A i \in 0..(n - 1) : F2[i] = F[i]

LEMMA NewStart ==
  ASSUME NEW c \in Nat, c >= 2 * maxcompsize, NEW t, NEW g, NEW m \in 1..MaxSize, NEW at,
         IsStart(c, t), t < c, IsStart(c, g), t <= g, g + maxcompsize + 1 < t + c,
         IsEnd(c, At(c, g), m, t, at)
  PROVE  \E y : /\ IsStart(c, y) /\ IsNext(c, g, m, y) /\ At(c, y) = at + 1
                /\ y + 1 < t + c
<1>1. t \in Nat /\ g \in Nat /\ MaxSize \in Nat /\ maxcompsize = MaxSize + 2 /\ m \in Nat /\ m <= MaxSize
      /\ m >= 1 /\ g < 2 * c /\ t <= c - MaxSize - 1 /\ g + MaxSize + 3 < t + c
      /\ t >= 1 /\ t # 2
  BY MaxSizeIs DEF IsStart, At
<1> PICK h : h = At(c, g)
  OBVIOUS
<1>2. h \in 1..(c - MaxSize - 1) /\ h = (IF g < c THEN g ELSE g - c)
  BY DEF IsStart, At
<1>3. CASE at = h + 1 + m /\ h + 1 + m + maxcompsize <= c
  <2>1. PICK y \in Nat : y = g + m + 2
    BY <1>1
  <2>2. g < c <=> y < c
    BY <1>1, <1>2, <1>3, <2>1
  <2>3. At(c, y) = at + 1
    BY <1>1, <1>2, <1>3, <2>1, <2>2 DEF At
  <2>4. IsStart(c, y)
    BY <1>1, <1>2, <1>3, <2>1, <2>3 DEF IsStart
  <2>5. IsNext(c, g, m, y)
    BY <2>1, <2>2 DEF IsNext
  <2> QED BY <1>1, <2>1, <2>3, <2>4, <2>5
<1>4. CASE at = 0 /\ h + 1 + m + maxcompsize > c /\ t # 1
  <2>1. g < c
    BY <1>1, <1>2, <1>4
  <2>2. PICK y \in Nat : y = c + 1
    BY <1>1
  <2>3. At(c, y) = at + 1
    BY <1>1, <1>4, <2>2 DEF At
  <2>4. IsStart(c, y)
    BY <1>1, <1>4, <2>2, <2>3 DEF IsStart
  <2>5. IsNext(c, g, m, y)
    BY <2>1, <2>2 DEF IsNext
  <2> QED BY <1>1, <1>4, <2>2, <2>3, <2>4, <2>5
<1> QED BY <1>2, <1>3, <1>4 DEF IsEnd

LEMMA FrameStays ==
  ASSUME NEW d, NEW d2, NEW h, NEW p, NEW at, IsStored(d, d2, h, p, at),
         NEW X \in Nat, NEW Z, NEW q, NEW l \in Nat, l = Len(q), Frame(d, X, Z, q),
         NEW c, DOMAIN d = 0..(c - 1), NEW m, m = Len(p), Clear(c, X, Z, l, h, m, at)
  PROVE  Frame(d2, X, Z, q)
<1>1. d2[Z - 1] = d[Z - 1]
  BY DEF IsStored, Clear
<1>2. \A k \in X..(X + l) : d2[k] = d[k]
  BY DEF IsStored, Clear
<1>3. X \in X..(X + l)
  OBVIOUS
<1>4. ASSUME NEW k \in 1..l PROVE d2[(X + 1) + k - 1] = q[k]
  <2>1. (X + 1) + k - 1 \in X..(X + l)
    OBVIOUS
  <2>2. d[(X + 1) + k - 1] = q[k]
    BY DEF Frame, Contents
  <2> QED BY <1>2, <2>1, <2>2
<1> QED BY <1>1, <1>2, <1>3, <1>4 DEF Frame, Contents

LEMMA SavedIsBlock ==
  ASSUME NEW s \in Saved PROVE s \in Block
BY SavedAssumption

LEMMA Extend ==
  ASSUME NEW c, NEW d, NEW h, NEW t, NEW N, NEW G, NEW B, NEW L,
         RingOf(c, d, h, t, N, G, B, L), HasRoom(c, N, G, 0), NEW next \in Saved,
         NEW p, p = state_manager_raw_compress(B[N], next), NEW at, IsEnd(c, h, Len(p), t, at),
         NEW d2, IsStored(d, d2, h, p, at), NEW B2,
         NEW n, n = N + 1, IsExtended(B, n, next, B2)
  PROVE  \E G2, L2 : RingOf(c, d2, at + 1, t, n, G2, B2, L2)
<1>1. IsRing(c, N, G, L)
  BY DEF RingOf
<1>2. c \in Nat /\ c >= 2 * maxcompsize /\ N \in Nat /\ N \in 0..N /\ 0 \in 0..N
      /\ n \in Nat /\ n - 1 = N /\ n = N + 1
  BY <1>1 DEF IsRing
<1>3. p \in Seq(Nat) /\ Len(p) \in 1..MaxSize
  <2>1. B[N] \in Block /\ next \in Block
    BY <1>2, SavedIsBlock DEF RingOf
  <2> QED BY <2>1, PatchSize
<1>0. PICK g, m : g = G[N] /\ m = Len(p)
  OBVIOUS
<1>4. /\ IsStart(c, t) /\ t < c /\ IsStart(c, g) /\ t <= g /\ g + maxcompsize + 1 < t + c
      /\ G[0] = t /\ h = At(c, g) /\ m \in 1..MaxSize /\ IsEnd(c, At(c, g), m, t, at)
  <2>1. G[0] = t /\ h = At(c, g)
    BY <1>0 DEF RingOf
  <2>2. IsStart(c, G[0]) /\ IsStart(c, G[N]) /\ G[0] < c
    BY <1>1, <1>2 DEF IsRing
  <2>3. G[0] <= G[N]
    BY <1>1, <1>2, RingBounds
  <2> QED BY <1>0, <1>3, <2>1, <2>2, <2>3 DEF HasRoom
<1>5. PICK y : IsStart(c, y) /\ IsNext(c, g, m, y) /\ At(c, y) = at + 1 /\ y + 1 < t + c
  BY <1>2, <1>4, NewStart
<1> DEFINE G2 == [i \in 0..(n) |-> IF i = n THEN y ELSE G[i]]
<1> DEFINE L2 == [i \in 0..N |-> IF i = N THEN m ELSE L[i]]
<1>6. /\ \A i \in 0..N : G2[i] = G[i]
      /\ G2[n] = y /\ L2[N] = m
      /\ \A i \in 0..(N - 1) : L2[i] = L[i]
  BY <1>2
<1>7. B2[n] = next /\ \A i \in 0..N : B2[i] = B[i]
  BY <1>2 DEF IsExtended
<1> HIDE DEF G2, L2
<1>8. ASSUME NEW i \in 0..(n) PROVE IsStart(c, G2[i]) /\ B2[i] \in Saved
  <2>1. CASE i = n
    BY <1>5, <1>6, <1>7, <2>1
  <2>2. CASE i # n
    <3>1. i \in 0..N
      BY <1>2, <2>2
    <3>2. IsStart(c, G[i]) /\ B[i] \in Saved
      BY <1>1, <3>1 DEF IsRing, RingOf
    <3> QED BY <1>6, <1>7, <3>1, <3>2
  <2> QED BY <2>1, <2>2
<1>9. ASSUME NEW i \in 0..N
      PROVE  /\ IsNext(c, G2[i], L2[i], G2[i + 1]) /\ L2[i] = Len(Patch(B2, i))
             /\ Frame(d2, At(c, G2[i]), At(c, G2[i + 1]), Patch(B2, i))
  <2>1. CASE i = N
    <3>1. Patch(B2, i) = p
      <4>1. B2[i] = B[N] /\ B2[i + 1] = next
        BY <1>2, <1>7, <2>1
      <4> QED BY <4>1 DEF Patch
    <3>2. G2[i] = g /\ G2[i + 1] = y /\ L2[i] = m
      BY <1>0, <1>2, <1>6, <2>1
    <3>3. Frame(d2, h, at + 1, p)
      BY DEF IsStored
    <3> QED BY <1>0, <1>4, <1>5, <3>1, <3>2, <3>3
  <2>2. CASE i # N
    <3>1. i \in 0..(N - 1) /\ i \in 0..N /\ i + 1 \in 0..N
      BY <1>2, <2>2
    <3>2. Patch(B2, i) = Patch(B, i)
      BY <1>7, <3>1 DEF Patch
    <3>3. G2[i] = G[i] /\ G2[i + 1] = G[i + 1] /\ L2[i] = L[i]
      BY <1>6, <3>1
    <3>4. IsNext(c, G[i], L[i], G[i + 1]) /\ IsStart(c, G[i]) /\ IsStart(c, G[i + 1])
      BY <1>1, <3>1 DEF IsRing
    <3>5. t <= G[i] /\ G[i + 1] <= g
      BY <1>0, <1>1, <1>4, <3>1, RingBounds
    <3>0. PICK x, z, l, X, Z, q : /\ x = G[i] /\ z = G[i + 1] /\ l = L[i]
                                /\ X = At(c, x) /\ Z = At(c, z) /\ q = Patch(B, i)
      OBVIOUS
    <3>6. Clear(c, X, Z, l, h, m, at)
      <4>1. Clear(c, At(c, x), At(c, z), l, At(c, g), m, at)
        BY <1>2, <1>4, <3>0, <3>4, <3>5, OutOfTheWay
      <4> QED BY <1>4, <3>0, <4>1
    <3>7. l = Len(q) /\ Frame(d, X, Z, q)
      BY <3>0, <3>1 DEF RingOf, Holds
    <3>8. X \in Nat /\ l \in Nat
      BY <3>0, <3>4, MaxSizeIs DEF IsStart, IsNext
    <3>9. DOMAIN d = 0..(c - 1)
      BY DEF RingOf
    <3>10. Frame(d2, X, Z, q)
      BY <1>0, <3>6, <3>7, <3>8, <3>9, FrameStays
    <3> QED BY <3>0, <3>2, <3>3, <3>4, <3>7, <3>10
  <2> QED BY <2>1, <2>2
<1>10. G2[0] = t /\ At(c, G2[n]) = at + 1
  BY <1>2, <1>4, <1>5, <1>6
<1>11. \A i \in 0..(n - 1) : i \in 0..N
  BY <1>2
<1>12. IsRing(c, n, G2, L2)
  <2>1. G2[n] + 1 < G2[0] + c /\ G2[0] < c /\ n \in Nat
    BY <1>2, <1>4, <1>5, <1>6, <1>10
  <2>2. ASSUME NEW i \in 0..(n - 1) PROVE IsNext(c, G2[i], L2[i], G2[i + 1])
    BY <1>9, <1>11
  <2> QED BY <1>2, <1>8, <2>1, <2>2 DEF IsRing
<1>13. Holds(c, d2, n, G2, B2, L2)
  <2>1. ASSUME NEW i \in 0..(n - 1)
        PROVE /\ L2[i] = Len(Patch(B2, i))
              /\ Frame(d2, At(c, G2[i]), At(c, G2[i + 1]), Patch(B2, i))
    BY <1>9, <1>11
  <2> QED BY <2>1 DEF Holds
<1>14. DOMAIN d2 = 0..(c - 1)
  BY DEF IsStored, RingOf
<1>15. RingOf(c, d2, at + 1, t, n, G2, B2, L2)
  BY <1>8, <1>10, <1>12, <1>13, <1>14 DEF RingOf
<1> QED BY <1>15

LEMMA SomeForgotten ==
  ASSUME NEW c, NEW N, NEW j, NEW G, NEW B, NEW L
  PROVE  \E G2, B2, L2 : IsForgotten(c, N, j, G, B, L, G2, B2, L2)
<1> DEFINE G2 == [i \in 0..(N - j) |-> G[j + i] - Shift(c, G[j])]
<1> DEFINE B2 == [i \in 0..(N - j) |-> B[j + i]]
<1> DEFINE L2 == [i \in 0..(N - j - 1) |-> L[j + i]]
<1>1. \A i \in 0..(N - j) : G2[i] = G[j + i] - Shift(c, G[j])
  OBVIOUS
<1>2. \A i \in 0..(N - j) : B2[i] = B[j + i]
  OBVIOUS
<1>3. \A i \in 0..(N - j - 1) : L2[i] = L[j + i]
  OBVIOUS
<1> HIDE DEF G2, B2, L2
<1>4. IsForgotten(c, N, j, G, B, L, G2, B2, L2)
  BY <1>1, <1>2, <1>3 DEF IsForgotten
<1> QED BY <1>4

(* What a push leaves: the savestates from B[j] on and the new one.        *)
IsPushed(B2, B, N, j, next) ==
  B2[N - j + 1] = next /\ \A i \in 0..(N - j) : B2[i] = B[j + i]

IsRingPushed(c, d, h, t, N, B, j, next) ==
  \E B2, G2, L2 : /\ RingOf(c, d, h, t, N - j + 1, G2, B2, L2)
                  /\ IsPushed(B2, B, N, j, next)

(* The oldest j frames are forgotten and the newest savestate's is added.  *)
LEMMA ForgetAndExtend ==
  ASSUME NEW c, NEW d, NEW h, NEW t0, NEW N, NEW G, NEW B, NEW L,
         RingOf(c, d, h, t0, N, G, B, L), NEW j \in 0..N, HasRoom(c, N, G, j),
         NEW t, t = At(c, G[j]), NEW next \in Saved,
         NEW p, p = state_manager_raw_compress(B[N], next), NEW at, IsEnd(c, h, Len(p), t, at),
         NEW d2, IsStored(d, d2, h, p, at)
  PROVE  IsRingPushed(c, d2, at + 1, t, N, B, j, next)
<1>1. PICK G1, B1, L1 : IsForgotten(c, N, j, G, B, L, G1, B1, L1)
  BY SomeForgotten
<1>2. RingOf(c, d, h, t, N - j, G1, B1, L1) /\ HasRoom(c, N - j, G1, 0)
  BY <1>1, Forget
<1>3. PICK n \in Nat, m \in Nat : n = N - j /\ m = n + 1 /\ m = N - j + 1 /\ n \in 0..n /\ j + n = N /\ m \notin 0..n /\ 0..n = 0..(m - 1)
  <2>1. N - j \in Nat /\ j + (N - j) = N
    BY DEF RingOf, IsRing
  <2> QED BY <2>1
<1>4. \A i \in 0..n : B1[i] = B[j + i]
  BY <1>1, <1>3 DEF IsForgotten
<1> DEFINE B2 == [i \in 0..m |-> IF i = m THEN next ELSE B1[i]]
<1>5. B2[m] = next /\ \A i \in 0..n : B2[i] = B1[i]
  BY <1>3
<1> HIDE DEF B2
<1>6. IsExtended(B1, m, next, B2)
  BY <1>3, <1>5 DEF IsExtended
<1>7. p = state_manager_raw_compress(B1[n], next)
  BY <1>3, <1>4
<1>8. RingOf(c, d, h, t, n, G1, B1, L1) /\ HasRoom(c, n, G1, 0)
  BY <1>2, <1>3
<1>9. \E G2, L2 : RingOf(c, d2, at + 1, t, m, G2, B2, L2)
  BY <1>3, <1>6, <1>7, <1>8, Extend
<1>10. IsPushed(B2, B, N, j, next)
  BY <1>3, <1>4, <1>5 DEF IsPushed
<1>11. \E G2, L2 : RingOf(c, d2, at + 1, t, N - j + 1, G2, B2, L2)
  BY <1>3, <1>9
<1> QED BY <1>10, <1>11 DEF IsRingPushed

LEMMA PushRing ==
  ASSUME NEW c, c = capacity, NEW h, NEW N, NEW G, NEW B, NEW L,
         RingOf(c, data, h, tail, N, G, B, L), NEW next \in Saved,
         NEW newest, newest.head = h, newest.block = B[N], push_patch(newest, next)
  PROVE  \E j \in 0..N : IsRingPushed(c, data', head', tail', N, B, j, next)
<1>1. IsRing(c, N, G, L) /\ h = At(c, G[N]) /\ G[0] = tail /\ DOMAIN data = 0..(c - 1)
  BY DEF RingOf
<1>2. c \in Nat /\ N \in Nat /\ N \in 0..N /\ c >= 2 * maxcompsize
  BY <1>1 DEF IsRing
<1>3. MaxSize \in Nat /\ maxcompsize = MaxSize + 2 /\ SizeT = 1
  BY MaxSizeIs
<1> PICK p, m : p = state_manager_raw_compress(B[N], next) /\ m = Len(p)
  OBVIOUS
<1>4. p \in Seq(Nat) /\ m \in 1..MaxSize
  <2>1. B[N] \in Block /\ next \in Block
    BY <1>2, SavedIsBlock DEF RingOf
  <2> QED BY <2>1, PatchSize
<1>5. h \in 1..(c - MaxSize - 1)
  BY <1>1, <1>2 DEF IsRing, IsStart
<1>6. \A i \in 0..(N - 1) : data[At(c, G[i])] = At(c, G[i + 1])
  BY DEF RingOf, Holds, Frame
<1>7. PICK i \in 0..N : recheckcapacity(h, tail) = At(c, G[i]) /\ HasRoom(c, N, G, i)
  <2>1. \E i \in 0..N : recheckcapacity(h, G[0]) = At(c, G[i]) /\ HasRoom(c, N, G, i)
    BY <1>1, <1>6, TailLeavesRoom
  <2> QED BY <1>1, <2>1
<1> PICK t1 : t1 = At(c, G[i])
  OBVIOUS
<1> PICK w : w = wrap(h + 1 + m, t1)
  OBVIOUS
<1>8. /\ data' = [Store(h + SizeT, p) EXCEPT ![w.at] = h, ![h] = w.at + SizeT]
      /\ head' = w.at + 1 /\ tail' = w.tail
  BY <1>3, <1>7 DEF push_patch
<1>9. /\ w.at = IF h + 1 + m + maxcompsize > c THEN 0 ELSE h + 1 + m
      /\ w.tail = IF h + 1 + m + maxcompsize > c /\ t1 = 1 THEN data[1] ELSE t1
  BY <1>3 DEF wrap
<1>10. ASSUME NEW j \in 0..N, HasRoom(c, N, G, j), w.tail = At(c, G[j]),
              IsEnd(c, h, m, w.tail, w.at)
       PROVE  IsRingPushed(c, data', head', tail', N, B, j, next)
  <2> PICK at, t, d2 : at = w.at /\ t = w.tail /\ d2 = data'
    OBVIOUS
  <2>1. IsEnd(c, h, Len(p), t, at) /\ t = At(c, G[j])
    BY <1>10
  <2>2. IsStored(data, d2, h, p, at)
    BY <1>1, <1>2, <1>4, <1>5, <1>8, <2>1, StoredIs
  <2>3. IsRingPushed(c, d2, at + 1, t, N, B, j, next)
    BY <1>10, <2>1, <2>2, ForgetAndExtend
  <2> QED BY <1>8, <2>3
<1>11. CASE ~(h + 1 + m + maxcompsize > c)
  <2>1. w.tail = At(c, G[i]) /\ IsEnd(c, h, m, w.tail, w.at)
    BY <1>2, <1>3, <1>4, <1>5, <1>9, <1>11 DEF IsEnd
  <2> QED BY <1>7, <1>10, <2>1
<1>12. CASE h + 1 + m + maxcompsize > c /\ t1 # 1
  <2>1. w.tail = At(c, G[i]) /\ IsEnd(c, h, m, w.tail, w.at)
    BY <1>9, <1>12 DEF IsEnd
  <2> QED BY <1>7, <1>10, <2>1
<1>13. CASE h + 1 + m + maxcompsize > c /\ t1 = 1
  <2>1. i # N
    <3>1. i = N => h = 1
      BY <1>1, <1>13
    <3> QED BY <1>2, <1>3, <1>4, <1>13, <3>1
  <2>2. i \in 0..(N - 1) /\ i + 1 \in 0..N /\ i < i + 1
    BY <1>2, <1>7, <2>1
  <2>3. w.tail = At(c, G[i + 1])
    <3>1. data[1] = At(c, G[i + 1])
      BY <1>6, <1>13, <2>2
    <3> QED BY <1>9, <1>13, <3>1
  <2>4. /\ G[i] \in Nat /\ G[i + 1] \in Nat /\ L[i] \in Nat /\ L[i] >= 1
        /\ G[i] + L[i] + 2 <= G[i + 1] /\ IsNext(c, G[i], L[i], G[i + 1])
    <3>1. IsStart(c, G[i]) /\ IsStart(c, G[i + 1]) /\ IsNext(c, G[i], L[i], G[i + 1])
      BY <1>1, <2>2 DEF IsRing
    <3> QED BY <1>2, <3>1, NextAfter
  <2>5. HasRoom(c, N, G, i + 1)
    <3>1. G[N] \in Nat
      BY <1>1, <1>2, RingBounds
    <3>2. G[N] + maxcompsize + 1 < G[i] + c
      BY <1>7 DEF HasRoom
    <3>3. G[i] <= G[i + 1] /\ maxcompsize \in Nat
      BY <1>3, <2>4
    <3>4. G[N] + maxcompsize + 1 < G[i + 1] + c
      <4> PICK a, b, x, y : a = G[N] /\ b = maxcompsize /\ x = G[i] /\ y = G[i + 1]
        OBVIOUS
      <4>1. a \in Nat /\ b \in Nat /\ x \in Nat /\ y \in Nat /\ c \in Nat /\ x <= y /\ a + b + 1 < x + c
        BY <1>2, <2>4, <3>1, <3>2, <3>3
      <4>2. a + b + 1 < y + c
        BY ONLY <4>1
      <4> QED BY <4>2
    <3> QED BY <3>4 DEF HasRoom
  <2>6. G[0] \in Nat /\ G[N] \in Nat /\ G[0] <= G[i] /\ G[i + 1] <= G[N] /\ G[N] + 1 < G[0] + c
    BY <1>1, <2>2, RingBounds
  <2>7. At(c, G[i + 1]) # 1
    <3> PICK x, y, l : x = G[i] /\ y = G[i + 1] /\ l = L[i]
      OBVIOUS
    <3>1. x = 1 \/ x = c + 1
      BY <1>2, <1>13, <2>4 DEF At
    <3>2. ~(x < c /\ y = c + 1)
      BY <1>2, <2>4, <2>6, <3>1
    <3>3. y = x + l + 2 /\ (x < c <=> y < c)
      BY <2>4, <3>2 DEF IsNext
    <3> QED BY <1>2, <2>4, <3>1, <3>3 DEF At
  <2>8. IsEnd(c, h, m, w.tail, w.at)
    BY <1>9, <1>13, <2>3, <2>7 DEF IsEnd
  <2> QED BY <1>10, <2>2, <2>3, <2>5, <2>8
<1> QED BY <1>11, <1>12, <1>13

-----------------------------------------------------------------------------
(* stackOf: the newest k of the savestates B[0], ..., B[k - 1] on top.     *)
Older(B, k) == [i \in 1..k |-> B[i - 1]]

UndoOf(n, rest, h, b) ==
  LET start == data[h - SizeT]
      older == state_manager_raw_decompress(data, start + SizeT, b)
  IN IF h = tail \/ n = 0 THEN <<>> ELSE Append(rest[start][older], older)
Undo(n, rest) == [h \in Int |-> [b \in Block |-> UndoOf(n, rest, h, b)]]
IsUndo(f, n) == f = [k \in 0..n |-> Undo(k, f[k - 1])]

LEMMA UndoSame ==
  ASSUME NEW g, NEW h, NEW n \in Nat, n # 0 => g = h
  PROVE  Undo(n, g) = Undo(n, h)
<1>1. CASE n = 0
  BY <1>1 DEF Undo, UndoOf
<1>2. CASE n # 0
  BY <1>2
<1> QED BY <1>1, <1>2

LEMMA UndoFurther ==
  ASSUME NEW n \in Nat, NEW g, IsUndo(g, n)
  PROVE  \E h : IsUndo(h, n + 1)
<1> DEFINE h == [k \in 0..(n + 1) |-> IF k <= n THEN g[k] ELSE Undo(k, g[k - 1])]
<1>1. ASSUME NEW k \in 0..(n + 1) PROVE h[k] = Undo(k, h[k - 1])
  <2>1. h[k] = IF k <= n THEN g[k] ELSE Undo(k, g[k - 1])
    OBVIOUS
  <2>2. k # 0 => g[k - 1] = h[k - 1]
    OBVIOUS
  <2> HIDE DEF h
  <2>3. k \in Nat
    OBVIOUS
  <2>4. Undo(k, g[k - 1]) = Undo(k, h[k - 1])
    BY <2>2, <2>3, UndoSame
  <2>5. k <= n => g[k] = Undo(k, g[k - 1])
    BY <2>3 DEF IsUndo
  <2> QED BY <2>1, <2>4, <2>5
<1>2. h = [k \in 0..(n + 1) |-> h[k]]
  OBVIOUS
<1> HIDE DEF h
<1>3. h = [k \in 0..(n + 1) |-> Undo(k, h[k - 1])]
  BY <1>1, <1>2
<1> QED BY <1>3 DEF IsUndo

LEMMA UndoExists ==
  ASSUME NEW c \in Nat
  PROVE  \E g : IsUndo(g, c)
<1> DEFINE Bad == {n \in Nat : ~ \E g : IsUndo(g, n)}
<1>1. ASSUME Bad # {} PROVE FALSE
  <2>1. PICK n \in Bad : \A m \in Bad : n <= m
    <3>1. Bad \in SUBSET Nat
      OBVIOUS
    <3> HIDE DEF Bad
    <3> QED BY <1>1, <3>1, LeastMember
  <2>2. n \in Nat /\ ~ \E g : IsUndo(g, n)
    BY <2>1
  <2>3. CASE n = 0
    <3> DEFINE g == [k \in 0..0 |-> [h \in Int |-> [b \in Block |-> <<>>]]]
    <3>1. \A k \in 0..0 : Undo(k, g[k - 1]) = [h \in Int |-> [b \in Block |-> <<>>]]
      BY DEF Undo, UndoOf
    <3>2. g = [k \in 0..0 |-> Undo(k, g[k - 1])]
      BY <3>1
    <3>3. IsUndo(g, n)
      <4> HIDE DEF g
      <4> QED BY <2>3, <3>2 DEF IsUndo
    <3> QED BY <2>2, <3>3
  <2>4. CASE n # 0
    <3>1. PICK m \in Nat : m = n - 1 /\ m + 1 = n /\ ~(n <= m)
      <4>1. n - 1 \in Nat /\ (n - 1) + 1 = n /\ ~(n <= n - 1)
        BY <2>2, <2>4
      <4> QED BY <4>1
    <3>2. m \notin Bad
      <4> HIDE DEF Bad
      <4> QED BY <2>1, <3>1
    <3>3. PICK g : IsUndo(g, m)
      BY <3>2
    <3>4. \E h : IsUndo(h, m + 1)
      BY <3>3, UndoFurther
    <3> QED BY <2>2, <3>1, <3>4
  <2> QED BY <2>3, <2>4
<1>2. c \notin Bad
  BY <1>1
<1> QED BY <1>2

LEMMA StackOfIs ==
  ASSUME capacity \in Nat
  PROVE  \E g : /\ IsUndo(g, capacity)
                /\ stackOf = IF ~inited THEN <<>>
                             ELSE IF thisblock_valid
                             THEN Append(g[capacity][head][thisblock], thisblock)
                             ELSE g[capacity][head][thisblock]
<1> DEFINE c == CHOOSE g : g = [n \in 0..capacity |-> Undo(n, g[n - 1])]
<1>1. stackOf = IF ~inited THEN <<>>
                ELSE IF thisblock_valid
                THEN Append(c[capacity][head][thisblock], thisblock)
                ELSE c[capacity][head][thisblock]
  BY DEF stackOf, Undo, UndoOf
<1>2. \E g : g = [n \in 0..capacity |-> Undo(n, g[n - 1])]
  <2>1. \E g : IsUndo(g, capacity)
    BY UndoExists
  <2> QED BY <2>1 DEF IsUndo
<1>3. c = [n \in 0..capacity |-> Undo(n, c[n - 1])]
  BY <1>2
<1> HIDE DEF c
<1> QED BY <1>1, <1>3 DEF IsUndo

LEMMA UndoAt ==
  ASSUME NEW N \in Nat, NEW g, IsUndo(g, N), NEW n \in 0..N, NEW h \in Int, NEW b \in Block
  PROVE  g[n][h][b] = UndoOf(n, g[n - 1], h, b)
<1>1. g[n] = Undo(n, g[n - 1])
  BY DEF IsUndo
<1>2. Undo(n, g[n - 1])[h][b] = UndoOf(n, g[n - 1], h, b)
  BY DEF Undo
<1> QED BY <1>1, <1>2

LEMMA AppendOlder ==
  ASSUME NEW k \in Nat, NEW B
  PROVE  Append(Older(B, k), B[k]) = Older(B, k + 1)
<1> PICK e, x : e = Older(B, k) /\ x = B[k]
  OBVIOUS
<1>1. e = [i \in 1..k |-> e[i]] /\ \A i \in 1..k : e[i] = B[i - 1]
  BY DEF Older
<1>2. Append(e, x) = [i \in 1..(k + 1) |-> IF i <= k THEN e[i] ELSE x]
  BY <1>1, AppendToFunction
<1>3. ASSUME NEW i \in 1..(k + 1)
      PROVE  (IF i <= k THEN e[i] ELSE x) = B[i - 1]
  <2>1. CASE i <= k
    BY <1>1, <2>1
  <2>2. CASE ~(i <= k)
    <3>1. i - 1 = k
      BY <2>2
    <3> QED BY <2>2, <3>1
  <2> QED BY <2>1, <2>2
<1>4. Append(e, x) = [i \in 1..(k + 1) |-> B[i - 1]]
  BY <1>2, <1>3
<1> QED BY <1>4 DEF Older

(* The head is at the tail only when there is nothing left to undo. *)
LEMMA NotAtTail ==
  ASSUME NEW c, NEW d, NEW h, NEW t, NEW N, NEW G, NEW B, NEW L,
         RingOf(c, d, h, t, N, G, B, L), NEW k \in 1..N
  PROVE  At(c, G[k]) # t
<1>1. IsRing(c, N, G, L) /\ G[0] = t /\ N \in Nat
  BY DEF RingOf, IsRing
<1>2. k \in 0..N /\ 0 \in 0..N /\ 0 < k /\ 0 \in 0..(N - 1)
  BY <1>1
<1>3. c \in Nat /\ G[k] \in Nat /\ t \in Nat /\ G[k] <= G[N] /\ G[N] \in Nat /\ G[N] + 1 < t + c /\ t < c
  BY <1>1, <1>2, RingBounds
<1>4. t < G[k]
  <2>1. G[0] + L[0] + 2 <= G[k]
    BY <1>1, <1>2, Growing
  <2>2. L[0] \in Nat
    BY <1>1, <1>2, MaxSizeIs DEF IsRing, IsNext
  <2> QED BY <1>1, <1>3, <2>1, <2>2
<1> QED BY <1>3, <1>4 DEF At

(* Undoing the patch of frame k - 1, wherever it is. *)
LEMMA UndoesFrame ==
  ASSUME NEW c, NEW h, NEW t, NEW N, NEW G, NEW B, NEW L,
         RingOf(c, data, h, t, N, G, B, L), NEW k \in 1..N
  PROVE  /\ data[At(c, G[k]) - SizeT] = At(c, G[k - 1])
         /\ state_manager_raw_decompress(data, At(c, G[k - 1]) + SizeT, B[k]) = B[k - 1]
         /\ B[k - 1] \in Saved /\ B[k] \in Saved
         /\ At(c, G[k - 1]) \in Nat /\ At(c, G[k]) \in Nat
<1>1. N \in Nat /\ k - 1 \in 0..(N - 1) /\ k - 1 \in 0..N /\ k \in 0..N /\ (k - 1) + 1 = k
  BY DEF RingOf, IsRing
<1> PICK x, y : x = At(c, G[k - 1]) /\ y = At(c, G[k])
  OBVIOUS
<1>2. Frame(data, x, y, Patch(B, k - 1))
  BY <1>1 DEF RingOf, Holds
<1>3. Patch(B, k - 1) = state_manager_raw_compress(B[k - 1], B[k])
  BY <1>1 DEF Patch
<1>4. B[k - 1] \in Saved /\ B[k] \in Saved
  BY <1>1 DEF RingOf
<1>5. x \in Nat /\ y \in Nat
  BY <1>1, MaxSizeIs DEF RingOf, IsRing, IsStart
<1>6. data[y - SizeT] = x
  BY <1>2, MaxSizeIs DEF Frame
<1>7. state_manager_raw_decompress(data, x + SizeT, B[k]) = B[k - 1]
  <2>1. PICK p \in Nat : p = x + SizeT /\ p = x + 1
    BY <1>5, MaxSizeIs
  <2>2. Contents(data, p, state_manager_raw_compress(B[k - 1], B[k]))
    BY <1>2, <1>3, <2>1 DEF Frame
  <2>3. B[k - 1] \in Block /\ B[k] \in Block
    BY <1>4, SavedIsBlock
  <2> QED BY <2>1, <2>2, <2>3, DecompressUndoes
<1> QED BY <1>4, <1>5, <1>6, <1>7

OlderAt(g, c, G, B, n, k) == g[n][At(c, G[k])][B[k]] = Older(B, k)

LEMMA OlderOne ==
  ASSUME NEW c, NEW N, NEW G, NEW B, NEW L, RingOf(c, data, head, tail, N, G, B, L),
         NEW g, IsUndo(g, c), NEW n \in 0..c, NEW k \in 0..N, k <= n,
         k # 0 => OlderAt(g, c, G, B, n - 1, k - 1)
  PROVE  OlderAt(g, c, G, B, n, k)
<1>1. c \in Nat /\ N \in Nat /\ G[0] = tail /\ B[k] \in Saved /\ At(c, G[k]) \in Nat
  BY MaxSizeIs DEF RingOf, IsRing, IsStart
<1> PICK h, b : h = At(c, G[k]) /\ b = B[k]
  OBVIOUS
<1>2. g[n][h][b] = UndoOf(n, g[n - 1], h, b)
  <2>1. h \in Int /\ b \in Block
    BY <1>1, SavedIsBlock
  <2> QED BY <1>1, <2>1, UndoAt
<1>3. CASE k = 0
  <2>1. h = tail
    <3>1. G[0] < c
      BY DEF RingOf, IsRing
    <3> QED BY <1>1, <1>3, <3>1 DEF At
  <2>2. g[n][h][b] = <<>>
    BY <1>2, <2>1 DEF UndoOf
  <2>3. Older(B, 0) = <<>>
    BY DEF Older
  <2> QED BY <1>3, <2>2, <2>3 DEF OlderAt
<1>4. CASE k # 0
  <2>1. k \in 1..N /\ n # 0 /\ k - 1 \in Nat /\ (k - 1) + 1 = k
    BY <1>1, <1>4
  <2>2. h # tail
    BY <2>1, NotAtTail
  <2> PICK start, older : start = At(c, G[k - 1]) /\ older = B[k - 1]
    OBVIOUS
  <2>3. /\ data[h - SizeT] = start
        /\ state_manager_raw_decompress(data, start + SizeT, b) = older
    BY <2>1, UndoesFrame
  <2>4. g[n][h][b] = Append(g[n - 1][start][older], older)
    BY <1>2, <2>1, <2>2, <2>3 DEF UndoOf
  <2>5. g[n - 1][start][older] = Older(B, k - 1)
    BY <1>4 DEF OlderAt
  <2>6. Append(Older(B, k - 1), older) = Older(B, k)
    BY <2>1, AppendOlder
  <2> QED BY <2>4, <2>5, <2>6 DEF OlderAt
<1> QED BY <1>3, <1>4

LEMMA OlderAll ==
  ASSUME NEW c, NEW N, NEW G, NEW B, NEW L, RingOf(c, data, head, tail, N, G, B, L),
         NEW g, IsUndo(g, c)
  PROVE  g[c][head][B[N]] = Older(B, N)
<1>1. c \in Nat /\ N \in Nat /\ N <= c /\ head = At(c, G[N])
  BY FewFrames DEF RingOf, IsRing
<1> DEFINE Bad == {n \in 0..c : \E k \in 0..N : k <= n /\ ~OlderAt(g, c, G, B, n, k)}
<1>2. ASSUME Bad # {} PROVE FALSE
  <2>1. PICK n \in Bad : \A m \in Bad : n <= m
    <3>1. Bad \in SUBSET Nat
      BY <1>1
    <3> HIDE DEF Bad
    <3> QED BY <1>2, <3>1, LeastMember
  <2>2. n \in 0..c
    BY <2>1
  <2>3. PICK k \in 0..N : k <= n /\ ~OlderAt(g, c, G, B, n, k)
    BY <2>1
  <2>4. k # 0 => OlderAt(g, c, G, B, n - 1, k - 1)
    <3> SUFFICES ASSUME k # 0 PROVE OlderAt(g, c, G, B, n - 1, k - 1)
      OBVIOUS
    <3>1. n - 1 \in 0..c /\ ~(n <= n - 1) /\ k - 1 \in 0..N /\ k - 1 <= n - 1
      BY <1>1, <2>2, <2>3
    <3>2. n - 1 \notin Bad
      <4> HIDE DEF Bad
      <4> QED BY <2>1, <3>1
    <3> QED BY <3>1, <3>2
  <2> HIDE DEF Bad
  <2> QED BY <2>2, <2>3, <2>4, OlderOne
<1>3. OlderAt(g, c, G, B, c, N)
  <2>1. c \in 0..c /\ N \in 0..N
    BY <1>1
  <2> QED BY <1>1, <1>2, <2>1
<1> QED BY <1>1, <1>3 DEF OlderAt

(* the savestates the ring B[0], ..., B[N] has on its stack *)
StackIs(s, N, B) == s = Older(B, IF thisblock_valid THEN N + 1 ELSE N)

LEMMA RingStack ==
  ASSUME NEW N, NEW G, NEW B, NEW L, RingOf(capacity, data, head, tail, N, G, B, L),
         inited, thisblock = B[N]
  PROVE  StackIs(stackOf, N, B)
<1>1. capacity \in Nat /\ N \in Nat
  BY DEF RingOf, IsRing
<1>2. PICK g : /\ IsUndo(g, capacity)
               /\ stackOf = IF ~inited THEN <<>>
                            ELSE IF thisblock_valid
                            THEN Append(g[capacity][head][thisblock], thisblock)
                            ELSE g[capacity][head][thisblock]
  BY <1>1, StackOfIs
<1>3. g[capacity][head][B[N]] = Older(B, N)
  BY <1>2, OlderAll
<1>4. Append(Older(B, N), B[N]) = Older(B, N + 1)
  BY <1>1, AppendOlder
<1> QED BY <1>2, <1>3, <1>4 DEF StackIs

(* a ring without frames *)
LEMMA EmptyStack ==
  ASSUME capacity \in Nat, inited, head = tail, head \in Int, thisblock \in Saved, NEW B, B[0] = thisblock
  PROVE  StackIs(stackOf, 0, B)
<1>1. PICK g : /\ IsUndo(g, capacity)
               /\ stackOf = IF ~inited THEN <<>>
                            ELSE IF thisblock_valid
                            THEN Append(g[capacity][head][thisblock], thisblock)
                            ELSE g[capacity][head][thisblock]
  BY StackOfIs
<1>2. g[capacity][head][thisblock] = <<>>
  <2>1. capacity \in 0..capacity
    OBVIOUS
  <2>2. g[capacity][head][thisblock] = UndoOf(capacity, g[capacity - 1], head, thisblock)
    BY <1>1, <2>1, UndoAt, SavedIsBlock
  <2> QED BY <2>2 DEF UndoOf
<1>3. Older(B, 0) = <<>>
  BY DEF Older
<1>4. Append(Older(B, 0), B[0]) = Older(B, 0 + 1)
  BY AppendOlder
<1> QED BY <1>1, <1>2, <1>3, <1>4 DEF StackIs

-----------------------------------------------------------------------------
(* The buffer holds the savestates B[0], ..., B[N], the newest one whole   *)
(* and the others as patches: none when there is no room for any.          *)
HoldsStates(N, B) ==
  /\ thisblock = B[N]
  /\ \/ /\ capacity \in Nat /\ capacity < SizeT + maxcompsize
        /\ N = 0 /\ head = tail /\ head \in Nat /\ thisblock \in Saved
     \/ \E G, L : RingOf(capacity, data, head, tail, N, G, B, L)

(* The inductive invariant. *)
RewindInv ==
  /\ loaded \in Saved
  /\ inited => /\ thisblock_valid \/ loaded = thisblock
               /\ \E N, B : HoldsStates(N, B)

Newer(N) == IF thisblock_valid THEN N + 1 ELSE N

HeldIsStack ==
  \A N, B : inited /\ HoldsStates(N, B) => stackOf = Older(B, Newer(N))

LEMMA HoldsStack == HeldIsStack
<1> SUFFICES ASSUME NEW N, NEW B, inited, HoldsStates(N, B)
             PROVE  StackIs(stackOf, N, B)
  BY DEF HeldIsStack, StackIs, Newer
<1>1. CASE /\ capacity \in Nat /\ capacity < SizeT + maxcompsize
           /\ N = 0 /\ head = tail /\ head \in Nat /\ thisblock \in Saved
  <2>1. head \in Int /\ B[0] = thisblock
    BY <1>1 DEF HoldsStates
  <2>2. StackIs(stackOf, 0, B)
    BY <1>1, <2>1, EmptyStack
  <2> QED BY <1>1, <2>2
<1>2. CASE \E G, L : RingOf(capacity, data, head, tail, N, G, B, L)
  BY <1>2, RingStack DEF HoldsStates
<1> QED BY <1>1, <1>2 DEF HoldsStates

LEMMA HoldsSome ==
  ASSUME NEW N, NEW B, HoldsStates(N, B)
  PROVE  /\ N \in Nat /\ capacity \in Nat /\ \A i \in 0..N : B[i] \in Saved
         /\ head = tail => N = 0
<1>1. CASE /\ capacity \in Nat /\ capacity < SizeT + maxcompsize
           /\ N = 0 /\ head = tail /\ head \in Nat /\ thisblock \in Saved
  BY <1>1 DEF HoldsStates
<1>2. CASE \E G, L : RingOf(capacity, data, head, tail, N, G, B, L)
  <2>1. PICK G, L : RingOf(capacity, data, head, tail, N, G, B, L)
    BY <1>2
  <2>2. N \in Nat /\ capacity \in Nat /\ \A i \in 0..N : B[i] \in Saved
    BY <2>1 DEF RingOf, IsRing
  <2>3. head = At(capacity, G[N])
    BY <2>1 DEF RingOf
  <2>4. N # 0 => head # tail
    <3>1. N # 0 => N \in 1..N
      BY <2>2
    <3> QED BY <2>1, <2>3, <3>1, NotAtTail
  <2> QED BY <2>2, <2>4
<1> QED BY <1>1, <1>2 DEF HoldsStates

(* state_manager_event_init *)
LEMMA NewHolds ==
  ASSUME RoomForTwo, NEW c \in Capacities, NEW s \in Saved, New(c, s)
  PROVE  \E B : B[0] = s /\ HoldsStates(0, B)'
<1> PICK B : B = [i \in {0} |-> s]
  OBVIOUS
<1>1. B[0] = s
  OBVIOUS
<1>2. c \in Nat /\ c >= 1 /\ MaxSize \in Nat /\ maxcompsize = MaxSize + 2 /\ SizeT = 1 /\ MaxSize >= 4
  BY CapacitiesAssumption, MaxSizeIs
<1>3. /\ capacity' = c /\ head' = 1 /\ tail' = 1 /\ thisblock' = s
      /\ DOMAIN data' = 0..(c - 1)
  BY <1>2 DEF New
<1>4. CASE c < SizeT + maxcompsize
  BY <1>1, <1>2, <1>3, <1>4 DEF HoldsStates
<1>5. CASE c >= 2 * maxcompsize
  <2> PICK G, L : G = [i \in {0} |-> 1] /\ L = <<>>
    OBVIOUS
  <2>1. G[0] = 1
    OBVIOUS
  <2>2. IsStart(c, 1) /\ At(c, 1) = 1 /\ 1 + 1 < 1 + c /\ 1 < c
    BY <1>2, <1>5 DEF IsStart, At
  <2>3. IsRing(c, 0, G, L)
    BY <1>2, <1>5, <2>1, <2>2 DEF IsRing
  <2>4. Holds(c, data', 0, G, B, L)
    BY DEF Holds
  <2>5. RingOf(c, data', 1, 1, 0, G, B, L)
    BY <1>1, <1>3, <2>1, <2>2, <2>3, <2>4 DEF RingOf
  <2>6. RingOf(capacity', data', head', tail', 0, G, B, L)
    BY <1>3, <2>5
  <2> QED BY <1>1, <1>3, <2>6 DEF HoldsStates
<1> QED BY <1>4, <1>5 DEF RoomForTwo

(* state_manager_pop *)
IsPopped(N, B, N2) ==
  /\ N2 \in 0..N
  /\ IF Newer(N) = 0
     THEN N2 = N /\ ~thisblock_valid /\ ~thisblock_valid' /\ loaded' = loaded
     ELSE Newer(N2)' = Newer(N) - 1 /\ loaded' = B[Newer(N) - 1]

LEMMA PopHolds ==
  ASSUME NEW N, NEW B, inited, thisblock_valid \/ loaded = thisblock, HoldsStates(N, B), Pop
  PROVE  \E N2 : HoldsStates(N2, B)' /\ IsPopped(N, B, N2)
<1>1. N \in Nat /\ capacity \in Nat /\ N \in 0..N /\ thisblock = B[N]
  BY HoldsSome DEF HoldsStates
<1>2. capacity' = capacity /\ data' = data /\ tail' = tail
  BY DEF Pop
<1>3. CASE thisblock_valid
  <2>1. head' = head /\ thisblock' = thisblock /\ ~thisblock_valid' /\ loaded' = thisblock
    BY <1>3 DEF Pop
  <2>2. HoldsStates(N, B)'
    BY <1>2, <2>1 DEF HoldsStates
  <2>3. IsPopped(N, B, N)
    BY <1>1, <1>3, <2>1 DEF IsPopped, Newer
  <2> QED BY <2>2, <2>3
<1>4. CASE ~thisblock_valid /\ head = tail
  <2>1. head' = head /\ thisblock' = thisblock /\ ~thisblock_valid' /\ loaded' = loaded
    BY <1>4 DEF Pop
  <2>2. N = 0
    BY <1>4, HoldsSome
  <2>3. HoldsStates(N, B)'
    BY <1>2, <2>1 DEF HoldsStates
  <2>4. IsPopped(N, B, N)
    BY <1>1, <1>4, <2>1, <2>2 DEF IsPopped, Newer
  <2> QED BY <2>3, <2>4
<1>5. CASE ~thisblock_valid /\ head # tail
  <2>1. PICK G, L : RingOf(capacity, data, head, tail, N, G, B, L)
    BY <1>5 DEF HoldsStates
  <2>2. head = At(capacity, G[N])
    BY <2>1 DEF RingOf
  <2>3. N # 0
    <3>1. N = 0 => head = tail
      BY <2>1, <2>2 DEF RingOf, IsRing, At
    <3> QED BY <1>5, <3>1
  <2> PICK c, d, h, m : c = capacity /\ d = data /\ h = head /\ m = N - 1
    OBVIOUS
  <2>4. m \in 0..N /\ RingOf(c, d, d[h - 1], tail, m, G, B, L)
    BY <2>1, <2>3, PopOne
  <2>5. d[h - 1] = At(c, G[m])
    BY <2>4 DEF RingOf
  <2>6. /\ d[h - SizeT] = At(c, G[m])
        /\ state_manager_raw_decompress(d, At(c, G[m]) + SizeT, B[N]) = B[m]
    <3>1. N \in 1..N
      BY <1>1, <2>3
    <3> QED BY <2>1, <2>2, <3>1, UndoesFrame
  <2>7. head' = d[h - 1] /\ thisblock' = B[m]
    <3>1. head' = pop_frame.head /\ thisblock' = pop_frame.block
      BY <1>5 DEF Pop
    <3>2. pop_frame.head = At(c, G[m]) /\ pop_frame.block = B[m]
      BY <1>1, <2>6 DEF pop_frame
    <3> QED BY <2>5, <3>1, <3>2
  <2>8. HoldsStates(m, B)'
    <3>1. RingOf(capacity', data', head', tail', m, G, B, L)
      BY <1>2, <2>4, <2>7
    <3> QED BY <2>7, <3>1 DEF HoldsStates
  <2>9. IsPopped(N, B, m)
    <3>1. ~thisblock_valid' /\ loaded' = B[m]
      BY <1>5, <2>7 DEF Pop
    <3> QED BY <1>1, <1>5, <2>3, <2>4, <3>1 DEF IsPopped, Newer
  <2> QED BY <2>8, <2>9
<1> QED BY <1>3, <1>4, <1>5

(* state_manager_push_where *)
LEMMA PushWhereHolds ==
  ASSUME NEW N, NEW G, NEW B, NEW L, RingOf(capacity, data, head, tail, N, G, B, L),
         thisblock = B[N], thisblock_valid \/ head # tail
  PROVE  /\ Newer(N) - 1 \in 0..N
         /\ RingOf(capacity, data, push_where.head, tail, Newer(N) - 1, G, B, L)
         /\ push_where.block = B[Newer(N) - 1]
<1>1. N \in Nat /\ N \in 0..N
  BY DEF RingOf, IsRing
<1>2. CASE thisblock_valid
  <2>1. Newer(N) - 1 = N
    BY <1>1, <1>2 DEF Newer
  <2>2. push_where.head = head /\ push_where.block = B[N]
    BY <1>2 DEF push_where
  <2> QED BY <1>1, <2>1, <2>2
<1>3. CASE ~thisblock_valid
  <2>1. head = At(capacity, G[N])
    BY DEF RingOf
  <2>2. N # 0
    <3>1. N = 0 => head = tail
      BY <2>1 DEF RingOf, IsRing, At
    <3> QED BY <1>3, <3>1
  <2> PICK c, d, h, m : c = capacity /\ d = data /\ h = head /\ m = N - 1
    OBVIOUS
  <2>3. m \in 0..N /\ RingOf(c, d, d[h - 1], tail, m, G, B, L)
    BY <2>2, PopOne
  <2>4. d[h - 1] = At(c, G[m])
    BY <2>3 DEF RingOf
  <2>5. /\ d[h - SizeT] = At(c, G[m])
        /\ state_manager_raw_decompress(d, At(c, G[m]) + SizeT, B[N]) = B[m]
    <3>1. N \in 1..N
      BY <1>1, <2>2
    <3> QED BY <2>1, <3>1, UndoesFrame
  <2>6. push_where.head = d[h - 1] /\ push_where.block = B[m]
    <3>1. push_where = pop_frame
      BY <1>3 DEF push_where
    <3>2. pop_frame.head = At(c, G[m]) /\ pop_frame.block = B[m]
      BY <1>1, <2>5 DEF pop_frame
    <3> QED BY <2>4, <3>1, <3>2
  <2>7. Newer(N) - 1 = m
    BY <1>3 DEF Newer
  <2> QED BY <2>3, <2>6, <2>7
<1> QED BY <1>2, <1>3

(* state_manager_push_where, core_serialize, state_manager_push_do: with   *)
(* nothing on the stack, with no room for a patch, with a ring.            *)
IsKept(N, B, next, N2, B2) ==
  \/ Newer(N) = 0 /\ N2 = 0 /\ B2[0] = next
  \/ thisblock_valid /\ N2 = N /\ B2 = B
  \/ /\ Newer(N) # 0
     /\ \E j \in 0..(Newer(N) - 1) :
          N2 = Newer(N) - j /\ IsPushed(B2, B, Newer(N) - 1, j, next)

LEMMA PushHolds ==
  ASSUME NEW N, NEW B, inited, HoldsStates(N, B), NEW next \in Saved, Push(next)
  PROVE  \E N2, B2 : HoldsStates(N2, B2)' /\ IsKept(N, B, next, N2, B2)
<1>1. N \in Nat /\ capacity \in Nat /\ N \in 0..N /\ thisblock = B[N]
  BY HoldsSome DEF HoldsStates
<1>2. capacity' = capacity
  BY DEF Push
<1>3. CASE ~thisblock_valid /\ head = tail
  <2>1. N = 0 /\ Newer(N) = 0
    <3>1. N = 0
      BY <1>3, HoldsSome
    <3> QED BY <1>3, <3>1 DEF Newer
  <2>2. data' = data /\ head' = head /\ tail' = tail /\ thisblock' = next
    BY <1>3 DEF Push
  <2> PICK B2 : B2 = [i \in {0} |-> next]
    OBVIOUS
  <2>3. B2[0] = next
    OBVIOUS
  <2>4. HoldsStates(0, B2)'
    <3>1. CASE /\ capacity \in Nat /\ capacity < SizeT + maxcompsize
               /\ N = 0 /\ head = tail /\ head \in Nat /\ thisblock \in Saved
      BY <1>2, <2>2, <2>3, <3>1 DEF HoldsStates
    <3>2. CASE \E G, L : RingOf(capacity, data, head, tail, N, G, B, L)
      <4> PICK G, L : RingOf(capacity, data, head, tail, 0, G, B, L)
        BY <2>1, <3>2
      <4>1. RingOf(capacity, data, head, tail, 0, G, B2, L)
        <5>1. Holds(capacity, data, 0, G, B2, L)
          BY DEF Holds
        <5>2. \A i \in 0..0 : B2[i] \in Saved
          BY <2>3
        <5> QED BY <5>1, <5>2 DEF RingOf
      <4>2. RingOf(capacity', data', head', tail', 0, G, B2, L)
        BY <1>2, <2>2, <4>1
      <4> QED BY <2>2, <2>3, <4>2 DEF HoldsStates
    <3> QED BY <3>1, <3>2 DEF HoldsStates
  <2> QED BY <2>1, <2>3, <2>4 DEF IsKept
<1>4. CASE (thisblock_valid \/ head # tail) /\ capacity < SizeT + maxcompsize
  <2>1. head = tail /\ thisblock_valid
    <3>1. ~(capacity >= 2 * maxcompsize)
      BY <1>1, <1>4, MaxSizeIs
    <3>2. ~(\E G, L : RingOf(capacity, data, head, tail, N, G, B, L))
      BY <3>1 DEF RingOf, IsRing
    <3> QED BY <1>4, <3>2 DEF HoldsStates
  <2>2. push_where.head = head /\ push_where.block = thisblock
    BY <2>1 DEF push_where
  <2>3. data' = data /\ head' = head /\ tail' = tail /\ thisblock' = thisblock
    BY <1>4, <2>1, <2>2 DEF Push
  <2>4. HoldsStates(N, B)'
    BY <1>2, <2>3 DEF HoldsStates
  <2> QED BY <2>1, <2>4 DEF IsKept
<1>5. CASE (thisblock_valid \/ head # tail) /\ ~(capacity < SizeT + maxcompsize)
  <2> PICK G, L : RingOf(capacity, data, head, tail, N, G, B, L)
    BY <1>5 DEF HoldsStates
  <2> PICK newest, c, h, m : newest = push_where /\ c = capacity /\ h = newest.head /\ m = Newer(N) - 1
    OBVIOUS
  <2>1. m \in 0..N /\ RingOf(c, data, h, tail, m, G, B, L) /\ newest.block = B[m]
    BY <1>1, <1>5, PushWhereHolds
  <2>2. push_patch(newest, next)
    BY <1>5 DEF Push
  <2>3. PICK j \in 0..m : IsRingPushed(c, data', head', tail', m, B, j, next)
    BY <2>1, <2>2, PushRing
  <2>4. thisblock' = next
    BY <2>2 DEF push_patch
  <2> PICK n : n = m - j + 1
    OBVIOUS
  <2>5. PICK B2, G2, L2 : RingOf(c, data', head', tail', n, G2, B2, L2) /\ IsPushed(B2, B, m, j, next)
    BY <2>3 DEF IsRingPushed
  <2>6. HoldsStates(n, B2)'
    <3>1. B2[n] = next
      BY <2>5 DEF IsPushed
    <3>2. RingOf(capacity', data', head', tail', n, G2, B2, L2)
      BY <1>2, <2>5
    <3> QED BY <2>4, <3>1, <3>2 DEF HoldsStates
  <2>7. IsKept(N, B, next, n, B2)
    <3>1. n = Newer(N) - j /\ Newer(N) # 0
      BY <1>1, <2>1 DEF Newer
    <3> QED BY <2>5, <3>1 DEF IsKept
  <2> QED BY <2>6, <2>7
<1> QED BY <1>3, <1>4, <1>5

-----------------------------------------------------------------------------
(* The invariant holds: of a ring that has room for two patches or none.   *)
LEMMA InvInit == Init => RewindInv
BY DEF Init, RewindInv

LEMMA InvNext ==
  ASSUME RoomForTwo, RewindInv, [Next]_vars
  PROVE  RewindInv'
<1>1. ASSUME NEW c \in Capacities, NEW s \in Saved, New(c, s) PROVE RewindInv'
  <2>1. \E N, B : HoldsStates(N, B)'
    BY <1>1, NewHolds
  <2>2. thisblock_valid' /\ loaded' = loaded
    BY <1>1 DEF New
  <2> QED BY <2>1, <2>2 DEF RewindInv
<1>2. ASSUME NEW s \in Saved, Push(s) PROVE RewindInv'
  <2>1. inited /\ thisblock_valid' /\ loaded' = loaded
    BY <1>2 DEF Push
  <2>2. PICK N, B : HoldsStates(N, B)
    BY <2>1 DEF RewindInv
  <2>3. \E N2, B2 : HoldsStates(N2, B2)'
    BY <1>2, <2>1, <2>2, PushHolds
  <2> QED BY <2>1, <2>3 DEF RewindInv
<1>3. CASE Pop
  <2>1. inited /\ loaded' = thisblock'
    BY <1>3 DEF Pop
  <2>2. PICK N, B : HoldsStates(N, B)
    BY <2>1 DEF RewindInv
  <2>3. PICK N2 : HoldsStates(N2, B)' /\ IsPopped(N, B, N2)
    BY <1>3, <2>1, <2>2, PopHolds DEF RewindInv
  <2>4. N2 \in 0..N /\ \A i \in 0..N : B[i] \in Saved
    BY <2>2, <2>3, HoldsSome DEF IsPopped
  <2>5. thisblock' = B[N2]
    BY <2>3 DEF HoldsStates
  <2>6. \E M, A : HoldsStates(M, A)'
    BY <2>3
  <2> QED BY <2>1, <2>4, <2>5, <2>6 DEF RewindInv
<1>4. CASE Free
  BY <1>4 DEF Free, RewindInv
<1>5. CASE UNCHANGED vars
  <2>1. \A N, B : HoldsStates(N, B) => HoldsStates(N, B)'
    BY <1>5 DEF vars, HoldsStates
  <2> QED BY <1>5, <2>1 DEF vars, RewindInv
<1> QED BY <1>1, <1>2, <1>3, <1>4, <1>5 DEF Next

LEMMA RewindInvariant ==
  ASSUME RoomForTwo
  PROVE  Spec => []RewindInv
<1>1. RewindInv /\ [Next]_vars => RewindInv'
  BY InvNext
<1> QED BY <1>1, InvInit, PTL DEF Spec

(* After no sequence of pushes, pops, wraps and forgotten frames does      *)
(* push_do write past the end of the ring: the head stays where the        *)
(* largest patch and its pointers fit.                                     *)
THEOREM NextPatchFitsAlways ==
  ASSUME RoomForTwo
  PROVE  Spec => []NextPatchFits
<1>1. RewindInv => NextPatchFits
  <2> SUFFICES ASSUME RewindInv, inited, capacity >= SizeT + maxcompsize
               PROVE  head + SizeT + state_manager_raw_maxsize <= capacity
    BY DEF NextPatchFits
  <2>1. PICK N, B : HoldsStates(N, B)
    BY DEF RewindInv
  <2>2. ~(capacity \in Nat /\ capacity < SizeT + maxcompsize)
    BY MaxSizeIs
  <2>3. PICK G, L : RingOf(capacity, data, head, tail, N, G, B, L)
    BY <2>1, <2>2 DEF HoldsStates
  <2>4. head \in 1..(capacity - MaxSize - 1) /\ capacity \in Nat
    BY <2>3 DEF RingOf, IsRing, IsStart
  <2> QED BY <2>4, MaxSizeIs DEF MaxSize
<1> QED BY <1>1, RewindInvariant, PTL

-----------------------------------------------------------------------------
(* The refinement: what the buffer's steps do to the stack it holds.       *)
LEMMA SubSeqIs ==
  ASSUME NEW K \in Nat, NEW e \in Seq(Saved), Len(e) = K,
         NEW i \in 1..(K + 1), NEW m \in (i - 1)..K
  PROVE  SubSeq(e, i, m) = [k \in 1..(m - i + 1) |-> e[i + k - 1]]
<1> PICK f, n : f = SubSeq(e, i, m) /\ n = m - i + 1
  OBVIOUS
<1>1. f \in Seq(Saved) /\ Len(f) = n /\ \A k \in 1..n : f[k] = e[i + k - 1]
  BY SubSeqProperties
<1>2. f = [k \in 1..n |-> f[k]]
  BY <1>1
<1>3. f = [k \in 1..n |-> e[i + k - 1]]
  BY <1>1, <1>2
<1> QED BY <1>3

(* savestates may lie on the stack *)
Stacked(B, k) == \A i \in 1..k : B[i - 1] \in Saved

LEMMA OlderIsSeq ==
  ASSUME NEW K \in Nat, NEW B, Stacked(B, K)
  PROVE  Older(B, K) \in Seq(Saved) /\ Len(Older(B, K)) = K
<1>1. \A i \in 1..K : B[i - 1] \in Saved
  BY DEF Stacked
<1>2. Older(B, K) \in [1..K -> Saved]
  BY <1>1 DEF Older
<1> QED BY <1>2

LEMMA OlderPopped ==
  ASSUME NEW K \in Nat, K # 0, NEW B, Stacked(B, K)
  PROVE  /\ Older(B, K) # <<>> /\ Older(B, K)[Len(Older(B, K))] = B[K - 1]
         /\ SubSeq(Older(B, K), 1, Len(Older(B, K)) - 1) = Older(B, K - 1)
<1> PICK e : e = Older(B, K)
  OBVIOUS
<1>1. e \in Seq(Saved) /\ Len(e) = K /\ \A i \in 1..K : e[i] = B[i - 1]
  BY OlderIsSeq DEF Older
<1>2. e # <<>> /\ e[K] = B[K - 1]
  <2>1. K \in 1..K
    OBVIOUS
  <2> QED BY <1>1, <2>1
<1>3. SubSeq(e, 1, K - 1) = Older(B, K - 1)
  <2> PICK m : m = K - 1
    OBVIOUS
  <2>1. 1 \in 1..(K + 1) /\ m \in (1 - 1)..K /\ m - 1 + 1 = m
    OBVIOUS
  <2>2. SubSeq(e, 1, m) = [k \in 1..(m - 1 + 1) |-> e[1 + k - 1]]
    BY <1>1, <2>1, SubSeqIs
  <2>3. SubSeq(e, 1, m) = [k \in 1..m |-> e[1 + k - 1]]
    BY <2>1, <2>2
  <2>4. \A k \in 1..m : e[1 + k - 1] = B[k - 1]
    <3>1. \A k \in 1..m : k \in 1..K /\ 1 + k - 1 = k
      OBVIOUS
    <3> QED BY <1>1, <3>1
  <2>5. SubSeq(e, 1, m) = [k \in 1..m |-> B[k - 1]]
    BY <2>3, <2>4
  <2> QED BY <2>5 DEF Older
<1> QED BY <1>1, <1>2, <1>3

LEMMA OlderPushed ==
  ASSUME NEW K \in Nat, K # 0, NEW B, Stacked(B, K), NEW j \in 0..(K - 1),
         NEW B2, NEW next, IsPushed(B2, B, K - 1, j, next)
  PROVE  /\ j + 1 \in 1..Len(Older(B, K))
         /\ Older(B2, K - j + 1)
              = Append(SubSeq(Older(B, K), j + 1, Len(Older(B, K))), next)
<1> PICK e, m, n : e = Older(B, K) /\ m = K - j /\ n = j + 1
  OBVIOUS
<1>1. e \in Seq(Saved) /\ Len(e) = K /\ \A i \in 1..K : e[i] = B[i - 1]
  BY OlderIsSeq DEF Older
<1>2. m \in Nat /\ n \in 1..(K + 1) /\ n \in 1..K /\ K \in (n - 1)..K /\ K - n + 1 = m /\ (K - 1) - j + 1 = m
  OBVIOUS
<1>3. SubSeq(e, n, K) = [k \in 1..(K - n + 1) |-> e[n + k - 1]]
  BY <1>1, <1>2, SubSeqIs
<1>4. B2[m] = next /\ \A i \in 0..(m - 1) : B2[i] = B[j + i]
  <2>1. (K - 1) - j = m - 1
    OBVIOUS
  <2> QED BY <1>2, <2>1 DEF IsPushed
<1>5. ASSUME NEW k \in 1..m PROVE e[n + k - 1] = B2[k - 1]
  <2>1. n + k - 1 \in 1..K /\ (n + k - 1) - 1 = j + (k - 1) /\ k - 1 \in 0..(m - 1)
    BY <1>2
  <2>2. e[n + k - 1] = B[(n + k - 1) - 1]
    BY <1>1, <2>1
  <2>3. B2[k - 1] = B[j + (k - 1)]
    BY <1>4, <2>1
  <2> QED BY <2>1, <2>2, <2>3
<1>6. SubSeq(e, n, K) = [k \in 1..m |-> B2[k - 1]]
  <2>1. SubSeq(e, n, K) = [k \in 1..m |-> e[n + k - 1]]
    BY <1>2, <1>3
  <2> QED BY <1>5, <2>1
<1>7. Older(B2, m + 1) = Append(SubSeq(e, n, K), B2[m])
  <2>1. SubSeq(e, n, K) = Older(B2, m)
    BY <1>6 DEF Older
  <2>2. Append(Older(B2, m), B2[m]) = Older(B2, m + 1)
    BY <1>2, AppendOlder
  <2> QED BY <2>1, <2>2
<1> QED BY <1>1, <1>2, <1>4, <1>7

LEMMA OlderFirst ==
  ASSUME NEW B
  PROVE  Older(B, 1) = <<B[0]>>
<1> PICK x : x = B[0]
  OBVIOUS
<1>1. Older(B, 1) = [i \in 1..1 |-> B[i - 1]]
  BY DEF Older
<1>2. \A i \in 1..1 : B[i - 1] = x
  <2>1. \A i \in 1..1 : i - 1 = 0
    OBVIOUS
  <2> QED BY <2>1
<1>3. Older(B, 1) = [i \in 1..1 |-> x]
  BY <1>1, <1>2
<1>4. <<x>> = [i \in 1..1 |-> x]
  OBVIOUS
<1> QED BY <1>3, <1>4

LEMMA NothingHeld == ~inited => stackOf = <<>>
BY DEF stackOf

LEMMA HeldStacked ==
  ASSUME NEW N, NEW B, HoldsStates(N, B)
  PROVE  Newer(N) \in Nat /\ Stacked(B, Newer(N))
<1>1. N \in Nat /\ \A i \in 0..N : B[i] \in Saved
  BY HoldsSome
<1>2. Newer(N) \in Nat /\ Newer(N) <= N + 1
  BY <1>1 DEF Newer
<1>3. \A i \in 1..Newer(N) : i - 1 \in 0..N
  BY <1>1, <1>2
<1> QED BY <1>1, <1>2, <1>3 DEF Stacked

(* state_manager_event_init: the core's state is the only one *)
LEMMA NewImplements ==
  ASSUME RoomForTwo, NEW c \in Capacities, NEW s \in Saved, New(c, s)
  PROVE  Stack!Next
<1>1. PICK B : B[0] = s /\ HoldsStates(0, B)'
  BY NewHolds
<1>2. ~inited /\ inited' /\ thisblock_valid' /\ loaded' = loaded
  BY DEF New
<1>3. stackOf = <<>>
  BY <1>2, NothingHeld
<1>4. stackOf' = <<s>>
  <2>1. HeldIsStack'
    BY HoldsStack, PTL
  <2>2. stackOf' = Older(B, Newer(0)')
    BY <1>1, <1>2, <2>1 DEF HeldIsStack
  <2>3. Newer(0)' = 1
    BY <1>2 DEF Newer
  <2> QED BY <1>1, <2>2, <2>3, OlderFirst
<1>5. Stack!Push(s)
  BY <1>2, <1>3, <1>4 DEF Stack!Push
<1> QED BY <1>5 DEF Stack!Next

LEMMA PushImplements ==
  ASSUME RewindInv, NEW next \in Saved, Push(next)
  PROVE  Stack!Next \/ UNCHANGED Stack!vars
<1>1. inited /\ inited' /\ thisblock_valid' /\ loaded' = loaded
  BY DEF Push
<1>2. PICK N, B : HoldsStates(N, B)
  BY <1>1 DEF RewindInv
<1>3. PICK N2, B2 : HoldsStates(N2, B2)' /\ IsKept(N, B, next, N2, B2)
  BY <1>1, <1>2, PushHolds
<1>4. stackOf = Older(B, Newer(N)) /\ Newer(N) \in Nat /\ Stacked(B, Newer(N)) /\ N \in Nat
  BY <1>1, <1>2, HoldsStack, HeldStacked, HoldsSome DEF HeldIsStack
<1>5. stackOf' = Older(B2, N2 + 1)
  <2>1. HeldIsStack'
    BY HoldsStack, PTL
  <2>2. stackOf' = Older(B2, Newer(N2)')
    BY <1>1, <1>3, <2>1 DEF HeldIsStack
  <2> QED BY <1>1, <2>2 DEF Newer
<1>6. CASE Newer(N) = 0 /\ N2 = 0 /\ B2[0] = next
  <2>1. stackOf = <<>>
    BY <1>4, <1>6 DEF Older
  <2>2. stackOf' = <<next>>
    <3>1. N2 + 1 = 1
      BY <1>6
    <3> QED BY <1>5, <1>6, <3>1, OlderFirst
  <2>3. Stack!Push(next)
    BY <1>1, <2>1, <2>2 DEF Stack!Push
  <2> QED BY <2>3 DEF Stack!Next
<1>7. CASE thisblock_valid /\ N2 = N /\ B2 = B
  <2>1. Newer(N) = N + 1
    BY <1>7 DEF Newer
  <2>2. stackOf' = stackOf
    BY <1>4, <1>5, <1>7, <2>1
  <2> QED BY <1>1, <2>2 DEF Stack!vars
<1>8. CASE /\ Newer(N) # 0
           /\ \E j \in 0..(Newer(N) - 1) :
                N2 = Newer(N) - j /\ IsPushed(B2, B, Newer(N) - 1, j, next)
  <2> PICK K : K = Newer(N)
    OBVIOUS
  <2>1. PICK j \in 0..(K - 1) : N2 = K - j /\ IsPushed(B2, B, K - 1, j, next)
    BY <1>8
  <2>2. /\ j + 1 \in 1..Len(stackOf)
        /\ stackOf' = Append(SubSeq(stackOf, j + 1, Len(stackOf)), next)
    <3>1. K \in Nat /\ K # 0 /\ Stacked(B, K)
      BY <1>4, <1>8
    <3>2. /\ j + 1 \in 1..Len(Older(B, K))
          /\ Older(B2, K - j + 1) = Append(SubSeq(Older(B, K), j + 1, Len(Older(B, K))), next)
      BY <2>1, <3>1, OlderPushed
    <3> QED BY <1>4, <1>5, <2>1, <3>2
  <2>3. Stack!Push(next)
    BY <1>1, <2>2 DEF Stack!Push
  <2> QED BY <2>3 DEF Stack!Next
<1> QED BY <1>3, <1>6, <1>7, <1>8 DEF IsKept

LEMMA PopImplements ==
  ASSUME RewindInv, Pop
  PROVE  Stack!Next \/ UNCHANGED Stack!vars
<1>1. inited /\ inited' /\ (thisblock_valid \/ loaded = thisblock)
  BY DEF Pop, RewindInv
<1>2. PICK N, B : HoldsStates(N, B)
  BY <1>1 DEF RewindInv
<1>3. PICK N2 : HoldsStates(N2, B)' /\ IsPopped(N, B, N2)
  BY <1>1, <1>2, PopHolds
<1> PICK K : K = Newer(N)
  OBVIOUS
<1>4. stackOf = Older(B, K) /\ K \in Nat /\ Stacked(B, K)
  BY <1>1, <1>2, HoldsStack, HeldStacked DEF HeldIsStack
<1>5. stackOf' = Older(B, Newer(N2)')
  <2>1. HeldIsStack'
    BY HoldsStack, PTL
  <2> QED BY <1>1, <1>3, <2>1 DEF HeldIsStack
<1>6. CASE K = 0
  <2>1. N2 = N /\ ~thisblock_valid /\ ~thisblock_valid' /\ loaded' = loaded
    BY <1>3, <1>6 DEF IsPopped
  <2>2. Newer(N2)' = K
    BY <2>1 DEF Newer
  <2> QED BY <1>4, <1>5, <2>1, <2>2 DEF Stack!vars
<1>7. CASE K # 0
  <2>1. Newer(N2)' = K - 1 /\ loaded' = B[K - 1]
    BY <1>3, <1>7 DEF IsPopped
  <2>2. /\ stackOf # <<>> /\ stackOf[Len(stackOf)] = B[K - 1]
        /\ SubSeq(stackOf, 1, Len(stackOf) - 1) = Older(B, K - 1)
    BY <1>4, <1>7, OlderPopped
  <2>3. Stack!Pop
    BY <1>5, <2>1, <2>2 DEF Stack!Pop
  <2> QED BY <2>3 DEF Stack!Next
<1> QED BY <1>6, <1>7

LEMMA FreeImplements ==
  ASSUME Free
  PROVE  Stack!Next
<1>1. ~inited' /\ loaded' = loaded
  BY DEF Free
<1>2. (~inited => stackOf = <<>>)'
  BY NothingHeld, PTL
<1> QED BY <1>1, <1>2 DEF Stack!Next, Stack!Free

(* However often it wraps, forgets, is rewound and pushed to again, the    *)
(* buffer is a stack that forgets its oldest savestates only: every step   *)
(* of it is one of RewindStack, or changes nothing there.                  *)
THEOREM BufferIsStack ==
  ASSUME RoomForTwo
  PROVE  Spec => IsStack
<1>1. Init => Stack!Init
  BY NothingHeld DEF Init, Stack!Init
<1>2. RewindInv /\ [Next]_vars => [Stack!Next]_(Stack!vars)
  <2> SUFFICES ASSUME RewindInv, [Next]_vars
               PROVE  Stack!Next \/ UNCHANGED Stack!vars
    OBVIOUS
  <2>1. CASE UNCHANGED vars
    <3>1. stackOf' = stackOf
      BY <2>1 DEF vars, stackOf, pop_frame
    <3> QED BY <2>1, <3>1 DEF vars, Stack!vars
  <2>2. ASSUME NEW c \in Capacities, NEW s \in Saved, New(c, s) PROVE Stack!Next
    BY <2>2, NewImplements
  <2>3. ASSUME NEW s \in Saved, Push(s) PROVE Stack!Next \/ UNCHANGED Stack!vars
    BY <2>3, PushImplements
  <2>4. CASE Pop
    BY <2>4, PopImplements
  <2>5. CASE Free
    BY <2>5, FreeImplements
  <2> QED BY <2>1, <2>2, <2>3, <2>4, <2>5 DEF Next
<1> QED BY <1>1, <1>2, RewindInvariant, PTL DEF Spec, IsStack, Stack!Spec

=============================================================================
