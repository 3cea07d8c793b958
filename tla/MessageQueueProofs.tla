------------------------- MODULE MessageQueueProofs -------------------------
(***************************************************************************)
(* Proofs about MessageQueue for a queue of any size, any priorities and   *)
(* durations, and addresses handed out in any order.                       *)
(*                                                                         *)
(* The loops of push and pull are recursive functions.  That each is the   *)
(* function its equation describes, and what it returns, is shown by       *)
(* looking at the least slot at which it could fail.                       *)
(***************************************************************************)
EXTENDS MessageQueue, SequencesExt, FiniteSetTheorems,
        SequenceTheorems, WellFoundedInduction, TLAPS

-----------------------------------------------------------------------------
(* A set of natural numbers that is not empty has a least member. *)
LEMMA LeastMember ==
  ASSUME NEW S \in SUBSET Nat, S # {}
  PROVE  Min(S) \in S /\ \A y \in S : Min(S) <= y
<1> DEFINE R == {ss \in Nat \X Nat : ss[1] < ss[2]}
<1>1. R = OpToRel(<, Nat)
  BY Zenon DEF OpToRel
<1>2. IsWellFoundedOn(R, Nat)
  <2> HIDE DEF R
  <2> QED BY <1>1, NatLessThanWellFounded, Zenon
<1>3. PICK x \in S : \A y \in S : ~(<<y, x>> \in R)
  <2> HIDE DEF R
  <2> QED BY <1>2, WFMin, Zenon
<1>4. ASSUME NEW y \in S PROVE x <= y
  <2>1. x \in Nat /\ y \in Nat
    OBVIOUS
  <2>2. y < x => <<y, x>> \in R
    BY <2>1
  <2>3. ~(y < x)
    BY <1>3, <2>2
  <2> QED BY <2>1, <2>3
<1> QED BY <1>4 DEF Min

-----------------------------------------------------------------------------
USE SizeAssumption, AddrAssumption, UnsignedAssumption

-----------------------------------------------------------------------------
(* One round of the loop of push, where f stands for the rounds that follow. *)
Rise(memory, f, i) == [q \in Arrays |->
  IF i > 1 /\ memory[q[i]].prio > memory[q[i \div 2]].prio
    THEN f[i \div 2][Swap(q, i, i \div 2)] ELSE q]

LEMMA HalfSlot ==
  ASSUME NEW i \in Slot, i > 1 PROVE i \div 2 \in Slot /\ i \div 2 < i
BY DEF Slot

IsSwapped(q, i, j, s) ==
  /\ s \in Arrays /\ s[i] = q[j] /\ s[j] = q[i]
  /\ \A k \in Slot : k # i /\ k # j => s[k] = q[k]

LEMMA SwapIsArray ==
  ASSUME NEW q \in Arrays, NEW i \in Slot, NEW j \in Slot
  PROVE  IsSwapped(q, i, j, Swap(q, i, j))
BY DEF Swap, Arrays, IsSwapped

(* The loop, cut off above slot n. *)
RisesBelow(memory, n) ==
  {f \in [1..n -> [Arrays -> Arrays]] : \A i \in 1..n : f[i] = Rise(memory, f, i)}

LEMMA RisesFurther ==
  ASSUME NEW memory, NEW n \in Nat, n < Size, NEW f \in RisesBelow(memory, n)
  PROVE  RisesBelow(memory, n + 1) # {}
<1> DEFINE g == [i \in 1..(n + 1) |-> IF i <= n THEN f[i] ELSE Rise(memory, f, i)]
<1>1. f \in [1..n -> [Arrays -> Arrays]] /\ \A i \in 1..n : f[i] = Rise(memory, f, i)
  BY DEF RisesBelow
<1>2. ASSUME NEW i \in 1..(n + 1)
      PROVE  Rise(memory, f, i) \in [Arrays -> Arrays] /\ Rise(memory, g, i) = Rise(memory, f, i)
  <2>1. i \in Slot
    BY DEF Slot
  <2>2. CASE i > 1
    <3>1. i \div 2 \in 1..n /\ i \div 2 \in Slot
      BY <2>1, <2>2, HalfSlot DEF Slot
    <3>2. g[i \div 2] = f[i \div 2] /\ f[i \div 2] \in [Arrays -> Arrays]
      BY <1>1, <3>1
    <3>3. \A q \in Arrays : Swap(q, i, i \div 2) \in Arrays
      BY <2>1, <3>1, SwapIsArray DEF IsSwapped
    <3> HIDE DEF g
    <3> QED BY <3>2, <3>3 DEF Rise
  <2>3. CASE ~(i > 1)
    BY <2>3 DEF Rise
  <2> QED BY <2>2, <2>3
<1>3. \A i \in 1..(n + 1) : g[i] = Rise(memory, f, i)
  BY <1>1
<1>4. g \in [1..(n + 1) -> [Arrays -> Arrays]]
  BY <1>2, <1>3
<1>5. g \in RisesBelow(memory, n + 1)
  <2> HIDE DEF g
  <2> QED BY <1>2, <1>3, <1>4 DEF RisesBelow
<1> QED BY <1>5

LEMMA RisesToEnd ==
  ASSUME NEW memory PROVE RisesBelow(memory, Size) # {}
<1> DEFINE Bad == {n \in 0..Size : RisesBelow(memory, n) = {}}
<1>1. ASSUME Bad # {} PROVE FALSE
  <2>1. PICK n \in Bad : \A m \in Bad : n <= m
    <3>1. Bad \in SUBSET Nat
      OBVIOUS
    <3> HIDE DEF Bad
    <3> QED BY <1>1, <3>1, LeastMember
  <2>2. CASE n = 0
    <3>1. 1..n = {}
      BY <2>2
    <3>2. [i \in 1..n |-> i] \in RisesBelow(memory, n)
      BY <3>1 DEF RisesBelow
    <3> QED BY <3>2, <2>1
  <2>3. CASE n # 0
    <3>1. n - 1 \in Nat /\ n - 1 < Size /\ n - 1 + 1 = n /\ n - 1 \notin Bad
      BY <2>1, <2>3
    <3>2. PICK f : f \in RisesBelow(memory, n - 1)
      BY <3>1
    <3>3. RisesBelow(memory, n) # {}
      BY <3>1, <3>2, RisesFurther
    <3> QED BY <2>1, <3>3
  <2> QED BY <2>2, <2>3
<1> QED BY <1>1

(* SiftUp is the loop.                                                     *)
LEMMA SiftUpRises ==
  ASSUME NEW memory
  PROVE  SiftUp(memory) = [i \in Slot |-> Rise(memory, SiftUp(memory), i)]
<1>1. PICK f : f \in RisesBelow(memory, Size)
  BY RisesToEnd
<1>2. f = [i \in Slot |-> Rise(memory, f, i)]
  BY <1>1 DEF RisesBelow, Slot
<1>3. \E g : g = [i \in Slot |-> Rise(memory, g, i)]
  BY <1>2
<1>4. SiftUp(memory) = CHOOSE g : g = [i \in Slot |-> Rise(memory, g, i)]
  BY DEF SiftUp, Rise
<1> QED BY <1>3, <1>4

-----------------------------------------------------------------------------
(* Arrays that hold the same pointers, each as often, in their first n     *)
(* slots.                                                                  *)
Distinct(q, n) == \A j, k \in 1..n : q[j] = q[k] => j = k

Pointers(q, n) == {q[k] : k \in 1..n}

Rearranged(q, r, n) ==
  Pointers(r, n) = Pointers(q, n) /\ (Distinct(q, n) => Distinct(r, n))

LEMMA SwapRearranges ==
  ASSUME NEW q \in Arrays, NEW n \in 0..Size, NEW i \in 1..n, NEW j \in 1..n
  PROVE  Rearranged(q, Swap(q, i, j), n)
<1> DEFINE s == Swap(q, i, j)
<1>1. i \in Slot /\ j \in Slot /\ \A k \in 1..n : k \in Slot
  BY DEF Slot
<1>2. s[i] = q[j] /\ s[j] = q[i] /\ \A k \in 1..n : k # i /\ k # j => s[k] = q[k]
  BY <1>1, SwapIsArray DEF IsSwapped
<1> HIDE DEF s
<1>3. \A k \in 1..n : \E l \in 1..n : s[k] = q[l]
  BY <1>2
<1>4. \A k \in 1..n : \E l \in 1..n : q[k] = s[l]
  BY <1>2
<1>5. Pointers(s, n) = Pointers(q, n)
  BY <1>3, <1>4 DEF Pointers
<1>6. Distinct(q, n) => Distinct(s, n)
  BY <1>2 DEF Distinct
<1> QED BY <1>5, <1>6 DEF Rearranged, s

LEMMA RearrangedTwice ==
  ASSUME NEW q, NEW r, NEW s, NEW n, Rearranged(q, r, n), Rearranged(r, s, n)
  PROVE  Rearranged(q, s, n)
BY DEF Rearranged

LEMMA RearrangedBelow ==
  ASSUME NEW q, NEW r, NEW m \in Nat, NEW n \in Nat, m <= n,
         Rearranged(q, r, m), \A k \in 1..n : k > m => r[k] = q[k]
  PROVE  Rearranged(q, r, n)
<1>1. \A k \in 1..m : \E l \in 1..m : r[k] = q[l]
  <2>1. \A k \in 1..m : r[k] \in Pointers(r, m)
    BY DEF Pointers
  <2> QED BY <2>1 DEF Rearranged, Pointers
<1>2. \A k \in 1..m : \E l \in 1..m : q[k] = r[l]
  <2>1. \A k \in 1..m : q[k] \in Pointers(q, m)
    BY DEF Pointers
  <2> QED BY <2>1 DEF Rearranged, Pointers
<1>3. \A k \in 1..n : (k \in 1..m \/ r[k] = q[k])
  OBVIOUS
<1>4. \A k \in 1..m : k \in 1..n
  OBVIOUS
<1>5. Pointers(r, n) = Pointers(q, n)
  BY <1>1, <1>2, <1>3, <1>4 DEF Pointers
<1>6. ASSUME Distinct(q, n) PROVE Distinct(r, n)
  <2>1. Distinct(q, m)
    BY <1>4, <1>6 DEF Distinct
  <2>2. Distinct(r, m)
    BY <2>1 DEF Rearranged
  <2>3. ASSUME NEW j \in 1..n, NEW k \in 1..n, r[j] = r[k], j \in 1..m, k \notin 1..m
        PROVE  FALSE
    <3>1. PICK l \in 1..m : r[j] = q[l]
      BY <1>1, <2>3
    <3>2. l = k
      BY <1>3, <1>4, <1>6, <2>3, <3>1 DEF Distinct
    <3> QED BY <2>3, <3>2
  <2> SUFFICES ASSUME NEW j \in 1..n, NEW k \in 1..n, r[j] = r[k] PROVE j = k
    BY DEF Distinct
  <2>4. CASE j \in 1..m /\ k \in 1..m
    BY <2>2, <2>4 DEF Distinct
  <2>5. CASE j \notin 1..m /\ k \notin 1..m
    BY <1>3, <1>6, <2>5 DEF Distinct
  <2> QED BY <2>3, <2>4, <2>5
<1> QED BY <1>5, <1>6 DEF Rearranged

-----------------------------------------------------------------------------
(* What push does: the pointers above slot i stay, those up to i stay      *)
(* among themselves, and the new one comes first if it beats all of them,  *)
(* and only if it beats the first.                                         *)
Beats(memory, a, b) == memory[a].prio > memory[b].prio

Risen(memory, q, i, r) ==
  /\ r \in Arrays
  /\ \A k \in Slot : k > i => r[k] = q[k]
  /\ Rearranged(q, r, i)
  /\ i > 1 /\ Distinct(q, i) =>
       /\ r[1] = q[i] => Beats(memory, q[i], q[1])
       /\ (\A k \in 1..(i - 1) : Beats(memory, q[i], q[k])) => r[1] = q[i]

LEMMA RiseOnce ==
  ASSUME NEW memory, NEW q \in Arrays, NEW i \in Slot, i > 1,
         Beats(memory, q[i], q[i \div 2]),
         NEW j \in Slot, j = i \div 2, NEW s, s = Swap(q, i, j),
         NEW r, j = 1 => r = s, Risen(memory, s, j, r)
  PROVE  Risen(memory, q, i, r)
<1>1. j < i /\ j \in 1..i /\ i \in 1..i /\ 1 \in 1..i /\ i \in 0..Size /\ j \in Nat /\ i \in Nat
  BY HalfSlot DEF Slot
<1>2. /\ s \in Arrays /\ s[i] = q[j] /\ s[j] = q[i]
      /\ \A k \in Slot : k # i /\ k # j => s[k] = q[k]
  <2>1. IsSwapped(q, i, j, s)
    BY SwapIsArray
  <2> QED BY <2>1 DEF IsSwapped
<1>3. Rearranged(q, s, i)
  BY <1>1, SwapRearranges
<1>4. Rearranged(s, r, i)
  <2>1. \A k \in 1..i : k > j => r[k] = s[k]
    BY DEF Risen, Slot
  <2> QED BY <1>1, <2>1, RearrangedBelow DEF Risen
<1>5. Rearranged(q, r, i)
  BY <1>3, <1>4, RearrangedTwice
<1>6. \A k \in Slot : k > i => r[k] = q[k]
  BY <1>1, <1>2 DEF Risen, Slot
<1>7. ASSUME Distinct(q, i)
      PROVE  /\ r[1] = q[i] => Beats(memory, q[i], q[1])
             /\ (\A k \in 1..(i - 1) : Beats(memory, q[i], q[k])) => r[1] = q[i]
  <2>1. CASE j = 1
    BY <1>2, <2>1
  <2>2. CASE j # 1
    <3>1. j > 1 /\ 1 \in Slot /\ s[1] = q[1]
      BY <1>1, <1>2, <2>2 DEF Slot
    <3>2. Distinct(s, j)
      <4>1. Distinct(s, i)
        BY <1>3, <1>7 DEF Rearranged
      <4> QED BY <1>1, <4>1 DEF Distinct
    <3>3. /\ r[1] = s[j] => Beats(memory, s[j], s[1])
          /\ (\A k \in 1..(j - 1) : Beats(memory, s[j], s[k])) => r[1] = s[j]
      BY <3>1, <3>2 DEF Risen
    <3>4. \A k \in 1..(j - 1) : k \in 1..(i - 1) /\ s[k] = q[k]
      BY <1>1, <1>2 DEF Slot
    <3> QED BY <1>2, <3>1, <3>3, <3>4
  <2> QED BY <2>1, <2>2
<1> QED BY <1>5, <1>6, <1>7 DEF Risen

LEMMA RiseStays ==
  ASSUME NEW memory, NEW q \in Arrays, NEW i \in Slot,
         ~(i > 1 /\ Beats(memory, q[i], q[i \div 2]))
  PROVE  Risen(memory, q, i, q)
<1>1. Rearranged(q, q, i)
  BY DEF Rearranged
<1>2. ASSUME i > 1, Distinct(q, i)
      PROVE  /\ q[1] # q[i]
             /\ ~(\A k \in 1..(i - 1) : Beats(memory, q[i], q[k]))
  <2>1. i \div 2 \in 1..(i - 1) /\ 1 \in 1..i /\ i \in 1..i /\ i # 1
    BY <1>2, HalfSlot DEF Slot
  <2> QED BY <1>2, <2>1 DEF Distinct
<1> QED BY <1>1, <1>2 DEF Risen

LEMMA SiftUpResult ==
  ASSUME NEW memory, NEW n \in Slot, NEW p \in Arrays
  PROVE  Risen(memory, p, n, SiftUp(memory)[n][p])
<1> DEFINE up == SiftUp(memory)
           Bad == {i \in Slot : \E q \in Arrays : ~Risen(memory, q, i, up[i][q])}
<1>1. up = [i \in Slot |-> Rise(memory, up, i)]
  BY SiftUpRises
<1> HIDE DEF up
<1>2. ASSUME Bad # {} PROVE FALSE
  <2>1. PICK i \in Bad : \A m \in Bad : i <= m
    <3>1. Bad \in SUBSET Nat
      BY DEF Slot
    <3> HIDE DEF Bad
    <3> QED BY <1>2, <3>1, LeastMember
  <2>2. PICK q \in Arrays : ~Risen(memory, q, i, up[i][q])
    BY <2>1
  <2>3. i \in Slot
    BY <2>1
  <2>4. up[i][q] = IF i > 1 /\ Beats(memory, q[i], q[i \div 2])
                     THEN up[i \div 2][Swap(q, i, i \div 2)] ELSE q
    BY <1>1, <2>3 DEF Rise, Beats
  <2>5. CASE i > 1 /\ Beats(memory, q[i], q[i \div 2])
    <3>1. PICK j \in Slot : j = i \div 2 /\ j < i
      BY <2>3, <2>5, HalfSlot
    <3>2. PICK s : s = Swap(q, i, j)
      OBVIOUS
    <3>3. s \in Arrays
      BY <2>3, <3>2, SwapIsArray DEF IsSwapped
    <3>4. PICK r : r = up[j][s]
      OBVIOUS
    <3>5. Risen(memory, s, j, r)
      <4>1. j \notin Bad
        BY <2>1, <2>3, <3>1 DEF Slot
      <4> QED BY <3>3, <3>4, <4>1
    <3>6. j = 1 => r = s
      BY <1>1, <3>3, <3>4 DEF Rise
    <3>7. Risen(memory, q, i, r)
      BY <2>3, <2>5, <3>1, <3>2, <3>5, <3>6, RiseOnce
    <3> QED BY <2>2, <2>4, <2>5, <3>1, <3>2, <3>4, <3>7
  <2>6. CASE ~(i > 1 /\ Beats(memory, q[i], q[i \div 2]))
    <3>1. Risen(memory, q, i, q)
      BY <2>3, <2>6, RiseStays
    <3> QED BY <2>2, <2>4, <2>6, <3>1
  <2> QED BY <2>5, <2>6
<1> QED BY <1>2 DEF up

-----------------------------------------------------------------------------
(* The loop of pull, in the same way: downwards, so cut off below slot n.  *)
Sinks(p, q, i) == Bigger(q, p, i, 2 * i) \/ Bigger(q, p, i, 2 * i + 1)

ChildOf(p, q, i) ==
  IF Bigger(q, p, i, 2 * i)
       /\ (~Bigger(q, p, i, 2 * i + 1) \/ q[2 * i] >= q[2 * i + 1])
    THEN 2 * i ELSE 2 * i + 1

Fall(p, f, i) == [q \in Arrays |->
  IF ~Bigger(q, p, i, 2 * i) /\ ~Bigger(q, p, i, 2 * i + 1) THEN q
  ELSE f[ChildOf(p, q, i)][Swap(q, i, ChildOf(p, q, i))]]

LEMMA PointersAreNumbers == \A q \in Arrays : \A i \in Slot : q[i] \in Nat
<1>1. \A x \in Addr \cup {NULL} : x \in Nat
  BY DEF NULL
<1> QED BY <1>1 DEF Arrays

LEMMA ChildSlot ==
  ASSUME NEW p \in Slot, NEW i \in Slot, NEW q \in Arrays, Sinks(p, q, i),
         NEW c, c = ChildOf(p, q, i)
  PROVE  c \in Slot /\ i < c /\ c <= p /\ q[i] < q[c]
<1>1. c = 2 * i \/ c = 2 * i + 1
  BY DEF ChildOf
<1>2. Bigger(q, p, i, c)
  <2> DEFINE l == 2 * i
             m == 2 * i + 1
  <2>1. ASSUME Bigger(q, p, i, l), Bigger(q, p, i, m), ~(q[l] >= q[m])
        PROVE  q[l] < q[m]
    <3>1. l \in Slot /\ m \in Slot
      BY <2>1 DEF Bigger, Slot
    <3>2. q[l] \in Nat /\ q[m] \in Nat
      BY <3>1, PointersAreNumbers
    <3> QED BY <2>1, <3>2
  <2> QED BY <2>1 DEF ChildOf, Sinks
<1>3. i \in Nat \ {0} /\ p \in 1..Size
  BY DEF Slot
<1> QED BY <1>1, <1>2, <1>3 DEF Bigger, Slot

FallsAbove(p, n) ==
  {f \in [n..Size -> [Arrays -> Arrays]] : \A i \in n..Size : f[i] = Fall(p, f, i)}

LEMMA FallsFurther ==
  ASSUME NEW p \in Slot, NEW n \in Slot, NEW f \in FallsAbove(p, n + 1)
  PROVE  FallsAbove(p, n) # {}
<1> DEFINE g == [i \in n..Size |-> IF i > n THEN f[i] ELSE Fall(p, f, i)]
<1>0. n \in Nat /\ n > 0
  BY DEF Slot
<1>1. /\ f \in [(n + 1)..Size -> [Arrays -> Arrays]]
      /\ \A i \in (n + 1)..Size : f[i] = Fall(p, f, i)
  BY DEF FallsAbove
<1>2. ASSUME NEW i \in n..Size
      PROVE  Fall(p, f, i) \in [Arrays -> Arrays] /\ Fall(p, g, i) = Fall(p, f, i)
  <2>1. i \in Slot
    BY <1>0 DEF Slot
  <2>2. ASSUME NEW q \in Arrays, Sinks(p, q, i), NEW c, c = ChildOf(p, q, i)
        PROVE  g[c][Swap(q, i, c)] = f[c][Swap(q, i, c)] /\ f[c][Swap(q, i, c)] \in Arrays
    <3>1. c \in (n + 1)..Size /\ c \in n..Size /\ c > n
      <4>1. c \in Slot /\ i < c
        BY <2>1, <2>2, ChildSlot
      <4> QED BY <1>0, <4>1 DEF Slot
    <3>2. g[c] = f[c] /\ f[c] \in [Arrays -> Arrays]
      BY <1>1, <3>1
    <3>3. Swap(q, i, c) \in Arrays
      BY <1>0, <2>1, <3>1, SwapIsArray DEF Slot, IsSwapped
    <3> HIDE DEF g
    <3> QED BY <3>2, <3>3
  <2> HIDE DEF g
  <2> QED BY <2>2 DEF Fall, Sinks
<1>3. \A i \in n..Size : g[i] = Fall(p, f, i)
  BY <1>0, <1>1
<1>4. g \in [n..Size -> [Arrays -> Arrays]]
  BY <1>2, <1>3
<1>5. g \in FallsAbove(p, n)
  <2> HIDE DEF g
  <2> QED BY <1>2, <1>3, <1>4 DEF FallsAbove
<1> QED BY <1>5

LEMMA FallsToEnd ==
  ASSUME NEW p \in Slot PROVE FallsAbove(p, 1) # {}
<1> DEFINE Bad == {n \in 0..Size : FallsAbove(p, Size + 1 - n) = {}}
<1>1. ASSUME Bad # {} PROVE FALSE
  <2>1. PICK n \in Bad : \A m \in Bad : n <= m
    <3>1. Bad \in SUBSET Nat
      OBVIOUS
    <3> HIDE DEF Bad
    <3> QED BY <1>1, <3>1, LeastMember
  <2>2. CASE n = 0
    <3>1. (Size + 1 - n)..Size = {}
      BY <2>2
    <3>2. [i \in (Size + 1 - n)..Size |-> i] \in FallsAbove(p, Size + 1 - n)
      BY <3>1 DEF FallsAbove
    <3> QED BY <3>2, <2>1
  <2>3. CASE n # 0
    <3>1. n - 1 \in 0..Size /\ n - 1 \notin Bad /\ Size + 1 - n \in Slot
          /\ Size + 1 - (n - 1) = (Size + 1 - n) + 1
      BY <2>1, <2>3 DEF Slot
    <3>2. FallsAbove(p, (Size + 1 - n) + 1) # {}
      <4>1. FallsAbove(p, Size + 1 - (n - 1)) # {}
        BY <3>1
      <4> QED BY <3>1, <4>1
    <3>3. PICK f : f \in FallsAbove(p, (Size + 1 - n) + 1)
      BY <3>2
    <3>4. FallsAbove(p, Size + 1 - n) # {}
      BY <3>1, <3>3, FallsFurther
    <3> QED BY <2>1, <3>4
  <2> QED BY <2>2, <2>3
<1>2. Size \in 0..Size /\ Size + 1 - Size = 1
  OBVIOUS
<1> QED BY <1>1, <1>2

LEMMA SiftDownFalls ==
  ASSUME NEW p \in Slot
  PROVE  SiftDown(p) = [i \in Slot |-> Fall(p, SiftDown(p), i)]
<1>1. PICK f : f \in FallsAbove(p, 1)
  BY FallsToEnd
<1>2. f = [i \in Slot |-> Fall(p, f, i)]
  BY <1>1 DEF FallsAbove, Slot
<1>3. \E g : g = [i \in Slot |-> Fall(p, g, i)]
  BY <1>2
<1>4. SiftDown(p) = CHOOSE g : g = [i \in Slot |-> Fall(p, g, i)]
  BY DEF SiftDown, Fall, ChildOf
<1> QED BY <1>3, <1>4

(* What pull does, when slot i holds what slot p still holds: slot p and   *)
(* those above stay, the others keep their pointers among themselves.  The *)
(* pointer that sinks is not less than itself, so it is never exchanged    *)
(* with slot p.                                                            *)
Fallen(p, q, r) ==
  /\ r \in Arrays
  /\ \A k \in Slot : k >= p => r[k] = q[k]
  /\ Rearranged(q, r, p - 1)

LEMMA FallOnce ==
  ASSUME NEW p \in Slot, NEW i \in Slot, NEW q \in Arrays, Sinks(p, q, i), q[i] = q[p],
         NEW c \in Slot, c = ChildOf(p, q, i), NEW s, s = Swap(q, i, c)
  PROVE  /\ s \in Arrays /\ i < c /\ c < p /\ s[c] = s[p]
         /\ Rearranged(q, s, p - 1) /\ \A k \in Slot : k >= p => s[k] = q[k]
<1>1. i < c /\ c <= p /\ q[i] < q[c]
  BY ChildSlot
<1>2. q[i] \in Nat /\ q[c] \in Nat
  BY PointersAreNumbers
<1>3. c < p
  <2>1. c # p
    BY <1>1, <1>2
  <2> QED BY <1>1, <2>1 DEF Slot
<1>4. /\ s \in Arrays /\ s[i] = q[c] /\ s[c] = q[i]
      /\ \A k \in Slot : k # i /\ k # c => s[k] = q[k]
  <2>1. IsSwapped(q, i, c, s)
    BY SwapIsArray
  <2> QED BY <2>1 DEF IsSwapped
<1>5. \A k \in Slot : k >= p => k # i /\ k # c
  BY <1>1, <1>3 DEF Slot
<1>6. Rearranged(q, s, p - 1)
  <2>1. p - 1 \in 0..Size /\ i \in 1..(p - 1) /\ c \in 1..(p - 1)
    BY <1>1, <1>3 DEF Slot
  <2> QED BY <2>1, SwapRearranges
<1>7. p >= p
  BY DEF Slot
<1> QED BY <1>1, <1>3, <1>4, <1>5, <1>6, <1>7

LEMMA SiftDownResult ==
  ASSUME NEW p \in Slot, NEW j \in Slot, NEW a \in Arrays, a[j] = a[p]
  PROVE  Fallen(p, a, SiftDown(p)[j][a])
<1> DEFINE down == SiftDown(p)
           Fails(i) == \E q \in Arrays : q[i] = q[p] /\ ~Fallen(p, q, down[i][q])
           Bad == {m \in 0..Size : Size - m \in Slot /\ Fails(Size - m)}
<1>1. down = [i \in Slot |-> Fall(p, down, i)]
  BY SiftDownFalls
<1> HIDE DEF down
<1>2. ASSUME Bad # {} PROVE FALSE
  <2>1. PICK m \in Bad : \A l \in Bad : m <= l
    <3>1. Bad \in SUBSET Nat
      OBVIOUS
    <3> HIDE DEF Bad
    <3> QED BY <1>2, <3>1, LeastMember
  <2>2. PICK i \in Slot : i = Size - m
    BY <2>1
  <2>3. PICK q \in Arrays : q[i] = q[p] /\ ~Fallen(p, q, down[i][q])
    BY <2>1, <2>2
  <2>4. down[i][q] = IF Sinks(p, q, i)
                       THEN down[ChildOf(p, q, i)][Swap(q, i, ChildOf(p, q, i))] ELSE q
    <3>1. down[i] = Fall(p, down, i)
      BY <1>1, Zenon
    <3>2. Fall(p, down, i)[q] = IF Sinks(p, q, i)
            THEN down[ChildOf(p, q, i)][Swap(q, i, ChildOf(p, q, i))] ELSE q
      BY DEF Fall, Sinks
    <3> QED BY <3>1, <3>2, Zenon
  <2>5. CASE Sinks(p, q, i)
    <3>1. PICK c \in Slot : c = ChildOf(p, q, i)
      BY <2>5, ChildSlot
    <3>2. PICK s : s = Swap(q, i, c)
      OBVIOUS
    <3>3. /\ s \in Arrays /\ i < c /\ c < p /\ s[c] = s[p]
          /\ Rearranged(q, s, p - 1) /\ \A k \in Slot : k >= p => s[k] = q[k]
      BY <2>3, <2>5, <3>1, <3>2, FallOnce
    <3>4. PICK r : r = down[c][s]
      OBVIOUS
    <3>5. Fallen(p, s, r)
      <4>1. Size - c \in 0..Size /\ Size - c < m /\ Size - (Size - c) = c
        BY <2>2, <3>3 DEF Slot
      <4>2. Size - c \notin Bad
        BY <2>1, <4>1
      <4>3. ~Fails(c)
        BY <4>1, <4>2
      <4> QED BY <3>3, <3>4, <4>3
    <3>6. Rearranged(q, r, p - 1)
      BY <3>3, <3>5, RearrangedTwice DEF Fallen
    <3>7. Fallen(p, q, r)
      BY <3>3, <3>5, <3>6 DEF Fallen
    <3> QED BY <2>3, <2>4, <2>5, <3>1, <3>2, <3>4, <3>7
  <2>6. CASE ~Sinks(p, q, i)
    <3>1. Fallen(p, q, q)
      BY DEF Fallen, Rearranged
    <3> QED BY <2>3, <2>4, <2>6, <3>1
  <2> QED BY <2>5, <2>6
<1>3. Size - j \in 0..Size /\ Size - (Size - j) = j
  BY DEF Slot
<1>4. ~Fails(j)
  BY <1>2, <1>3
<1> QED BY <1>4 DEF down

-----------------------------------------------------------------------------
(* The invariant.  The slots in use hold each allocated element once; the  *)
(* elements hold different messages; and what a message was returned and   *)
(* what its element has left make up what was asked.                       *)
Allocated(h) == /\ DOMAIN h \subseteq Addr /\ h = [a \in DOMAIN h |-> h[a]]
                /\ \A a \in DOMAIN h : h[a] \in Elem

Requests(ask) == /\ DOMAIN ask \subseteq Msg /\ ask = [m \in DOMAIN ask |-> ask[m]]
                 /\ \A m \in DOMAIN ask : ask[m] \in 0..UIntMax

Typed == /\ elems \in Arrays /\ ptr \in 1..(Size + 1)
         /\ Allocated(heap) /\ Requests(asked) /\ shown \in [Msg -> Nat]

SlotsOf(h, q, n) == Pointers(q, n) = DOMAIN h /\ Distinct(q, n)

(* What the code makes of a duration: 0 wraps to the largest unsigned. *)
Pulls(duration) == IF duration = 0 THEN UIntMax + 1 ELSE duration

(* d is what is left of message m, 0 when it is no longer, or not yet, there *)
PulledOf(h, ask, out, m) ==
  /\ m \notin DOMAIN ask => out[m] = 0
  /\ m \in DOMAIN ask => out[m] <= Pulls(ask[m])
  /\ \A a \in DOMAIN h : h[a].msg = m =>
       m \in DOMAIN ask /\ out[m] + Pulls(h[a].duration) = Pulls(ask[m])

EndedOf(h, ask, gone, out, m) ==
  m \in DOMAIN ask /\ m \notin gone /\ (\A a \in DOMAIN h : h[a].msg # m)
    => out[m] = Pulls(ask[m])

MessagesOf(h, ask, gone, out) ==
  /\ \A a, b \in DOMAIN h : h[a].msg = h[b].msg => a = b
  /\ \A m \in Msg : PulledOf(h, ask, out, m) /\ EndedOf(h, ask, gone, out, m)

Messages == MessagesOf(heap, asked, lost, shown)

IInv == Typed /\ SlotsOf(heap, elems, ptr - 1) /\ Messages

LEMMA InitInvariant == Init => IInv
<1> SUFFICES ASSUME Init PROVE IInv
  OBVIOUS
<1>1. Typed
  BY DEF Init, Typed, Allocated, Requests, Arrays, NULL
<1>2. SlotsOf(heap, elems, ptr - 1)
  <2>1. 1..(ptr - 1) = {}
    BY DEF Init
  <2> QED BY <2>1 DEF Init, SlotsOf, Pointers, Distinct
<1>3. Messages
  BY DEF Init, Messages, MessagesOf, PulledOf, EndedOf
<1> QED BY <1>1, <1>2, <1>3 DEF IInv

-----------------------------------------------------------------------------
(* msg_queue_push.                                                         *)
NewElem(m, prio, duration) == [msg |-> m, prio |-> prio, duration |-> duration]

Added(h, a, e) == [b \in DOMAIN h \cup {a} |-> IF b = a THEN e ELSE h[b]]

LEMMA PlacedLast ==
  ASSUME IInv, ptr \in Slot, NEW a \in Addr, a \notin allocated,
         NEW q, q = [elems EXCEPT ![ptr] = a]
  PROVE  /\ q \in Arrays /\ q[ptr] = a /\ \A i \in InUse : q[i] = elems[i]
         /\ Distinct(q, ptr) /\ Pointers(q, ptr) = allocated \cup {a}
<1>1. elems \in Arrays /\ ptr \in Nat /\ \A i \in 1..ptr : i \in Slot /\ (i = ptr \/ i \in InUse)
  BY DEF IInv, Typed, Slot, InUse
<1>2. q \in Arrays /\ q[ptr] = a /\ \A i \in InUse : q[i] = elems[i]
  BY <1>1 DEF Arrays, InUse, Slot
<1>3. \A i \in InUse : elems[i] \in allocated /\ i \in 1..(ptr - 1)
  BY DEF IInv, SlotsOf, Pointers, InUse, allocated
<1>4. Distinct(q, ptr)
  <2>1. \A i \in InUse : q[i] # a
    BY <1>2, <1>3
  <2>2. \A i, j \in InUse : q[i] = q[j] => i = j
    BY <1>2, <1>3 DEF IInv, SlotsOf, Distinct
  <2> QED BY <1>1, <1>2, <2>1, <2>2 DEF Distinct
<1>5. Pointers(q, ptr) = allocated \cup {a}
  <2>1. \A x \in allocated : \E i \in InUse : x = elems[i]
    BY DEF IInv, SlotsOf, Pointers, InUse, allocated
  <2>2. \A i \in InUse : i \in 1..ptr
    BY <1>1 DEF InUse
  <2>3. ptr \in 1..ptr
    BY <1>1 DEF Slot
  <2> QED BY <1>1, <1>2, <1>3, <2>1, <2>2, <2>3 DEF Pointers
<1> QED BY <1>2, <1>4, <1>5

LEMMA PushSlots ==
  ASSUME IInv, ptr \in Slot, NEW a \in Addr, a \notin allocated,
         NEW memory, NEW e, memory = Added(heap, a, e),
         NEW q, q = [elems EXCEPT ![ptr] = a],
         NEW r, r = SiftUp(memory)[ptr][q]
  PROVE  Risen(memory, q, ptr, r) /\ SlotsOf(memory, r, ptr)
<1>1. q \in Arrays /\ Distinct(q, ptr) /\ Pointers(q, ptr) = allocated \cup {a}
  BY PlacedLast
<1>2. Risen(memory, q, ptr, r)
  BY <1>1, SiftUpResult
<1>3. DOMAIN memory = allocated \cup {a}
  BY DEF Added, allocated
<1> QED BY <1>1, <1>2, <1>3 DEF Risen, Rearranged, SlotsOf

LEMMA PushMessages ==
  ASSUME IInv, NEW m \in Msg, m \notin DOMAIN asked, NEW prio \in Prio,
         NEW duration \in 0..UIntMax, NEW a \in Addr, a \notin allocated,
         NEW h, h = Added(heap, a, NewElem(m, prio, duration)),
         NEW ask, ask = [n \in DOMAIN asked \cup {m} |-> IF n = m THEN duration ELSE asked[n]]
  PROVE  Allocated(h) /\ MessagesOf(h, ask, lost, shown)
<1>1. /\ DOMAIN h = allocated \cup {a} /\ h[a] = NewElem(m, prio, duration)
      /\ \A b \in allocated : h[b] = heap[b] /\ h[b] \in Elem /\ b \in Addr
  BY DEF IInv, Typed, Allocated, Added, allocated
<1>2. h[a].msg = m /\ h[a].duration = duration /\ h[a] \in Elem
  BY <1>1 DEF NewElem, Elem
<1>3. Allocated(h)
  <2>1. h = [b \in DOMAIN h |-> h[b]]
    BY DEF Added
  <2> QED BY <1>1, <1>2, <2>1 DEF Allocated
<1>4. /\ \A n \in Msg : n \in DOMAIN ask <=> n \in DOMAIN asked \/ n = m
      /\ ask[m] = duration /\ \A n \in DOMAIN asked : ask[n] = asked[n]
  OBVIOUS
<1>5. \A n \in Msg : PulledOf(heap, asked, shown, n) /\ EndedOf(heap, asked, lost, shown, n)
  BY DEF IInv, Messages, MessagesOf
<1>6. shown[m] = 0 /\ \A b \in allocated : heap[b].msg # m
  BY <1>5 DEF PulledOf, allocated
<1>7. Pulls(duration) \in Nat
  BY DEF Pulls
<1>8. \A b, c \in DOMAIN h : h[b].msg = h[c].msg => b = c
  <2>1. \A b, c \in allocated : heap[b].msg = heap[c].msg => b = c
    BY DEF IInv, Messages, MessagesOf, allocated
  <2> QED BY <1>1, <1>2, <1>6, <2>1
<1>9. ASSUME NEW n \in Msg PROVE PulledOf(h, ask, shown, n) /\ EndedOf(h, ask, lost, shown, n)
  <2>1. CASE n = m
    BY <1>1, <1>2, <1>4, <1>6, <1>7, <2>1 DEF PulledOf, EndedOf
  <2>2. CASE n # m
    BY <1>1, <1>2, <1>4, <1>5, <2>2 DEF PulledOf, EndedOf, allocated
  <2> QED BY <2>1, <2>2
<1> QED BY <1>3, <1>8, <1>9 DEF MessagesOf

LEMMA DroppedMessage ==
  ASSUME IInv, NEW m \in Msg, m \notin DOMAIN asked, NEW duration \in 0..UIntMax,
         NEW ask, ask = [n \in DOMAIN asked \cup {m} |-> IF n = m THEN duration ELSE asked[n]]
  PROVE  MessagesOf(heap, ask, lost \cup {m}, shown)
<1>1. /\ \A n \in Msg : n \in DOMAIN ask <=> n \in DOMAIN asked \/ n = m
      /\ ask[m] = duration /\ \A n \in DOMAIN asked : ask[n] = asked[n]
  OBVIOUS
<1>2. \A n \in Msg : PulledOf(heap, asked, shown, n) /\ EndedOf(heap, asked, lost, shown, n)
  BY DEF IInv, Messages, MessagesOf
<1>3. shown[m] = 0 /\ \A b \in allocated : heap[b].msg # m
  BY <1>2 DEF PulledOf, allocated
<1>4. Pulls(duration) \in Nat
  BY DEF Pulls
<1>5. ASSUME NEW n \in Msg
      PROVE  PulledOf(heap, ask, shown, n) /\ EndedOf(heap, ask, lost \cup {m}, shown, n)
  <2>1. CASE n = m
    BY <1>1, <1>3, <1>4, <2>1 DEF PulledOf, EndedOf, allocated
  <2>2. CASE n # m
    BY <1>1, <1>2, <2>2 DEF PulledOf, EndedOf
  <2> QED BY <2>1, <2>2
<1> QED BY <1>5 DEF MessagesOf, IInv, Messages

LEMMA PushStep ==
  ASSUME IInv, NEW m \in Msg, NEW prio \in Prio, NEW duration \in Durations,
         msg_queue_push(m, prio, duration)
  PROVE  IInv'
<1>1. duration \in 0..UIntMax /\ m \notin DOMAIN asked /\ shown' = shown
      /\ asked' = [n \in DOMAIN asked \cup {m} |-> IF n = m THEN duration ELSE asked[n]]
  BY DEF msg_queue_push
<1>2. Requests(asked')
  <2>1. Requests(asked)
    BY DEF IInv, Typed
  <2> QED BY <1>1, <2>1 DEF Requests
<1>3. CASE ptr > Size
  <2>1. lost' = lost \cup {m} /\ UNCHANGED <<elems, heap, ptr>>
    BY <1>3 DEF msg_queue_push
  <2>2. Messages'
    BY <1>1, <2>1, DroppedMessage DEF Messages
  <2> QED BY <1>1, <1>2, <2>1, <2>2 DEF IInv, Typed
<1>4. CASE ~(ptr > Size)
  <2>1. PICK a \in Addr \ allocated :
          /\ heap' = Added(heap, a, NewElem(m, prio, duration))
          /\ elems' = SiftUp(heap')[ptr][[elems EXCEPT ![ptr] = a]]
          /\ ptr' = ptr + 1 /\ lost' = lost
    BY <1>4 DEF msg_queue_push, Added, NewElem, allocated
  <2>2. ptr \in Slot /\ ptr + 1 \in 1..(Size + 1)
    BY <1>4 DEF IInv, Typed, Slot
  <2>3. Risen(heap', [elems EXCEPT ![ptr] = a], ptr, elems') /\ SlotsOf(heap', elems', ptr' - 1)
    <3>1. Risen(heap', [elems EXCEPT ![ptr] = a], ptr, elems') /\ SlotsOf(heap', elems', ptr)
      BY <2>1, <2>2, PushSlots
    <3>2. ptr' - 1 = ptr
      BY <2>1, <2>2 DEF Slot
    <3> QED BY <3>1, <3>2, Zenon
  <2>4. Allocated(heap') /\ MessagesOf(heap', asked', lost, shown)
    BY <1>1, <2>1, PushMessages
  <2> QED BY <1>1, <1>2, <2>1, <2>2, <2>3, <2>4 DEF IInv, Typed, Messages, Risen
<1> QED BY <1>3, <1>4

-----------------------------------------------------------------------------
(* msg_queue_pull.                                                         *)
LEMMA CountdownPulls ==
  ASSUME NEW d \in 0..UIntMax
  PROVE  /\ Countdown(d) \in 0..UIntMax /\ Pulls(d) \in Nat \ {0}
         /\ Countdown(d) > 0 => Pulls(Countdown(d)) = Pulls(d) - 1
         /\ Countdown(d) = 0 => Pulls(d) = 1
BY DEF Countdown, Pulls

(* The front is the first slot in use, and has an element. *)
LEMMA FrontIsAllocated ==
  ASSUME IInv, ptr > 1
  PROVE  /\ ptr - 1 \in Slot /\ 1 \in Slot /\ elems[1] \in allocated
         /\ heap[elems[1]] \in Elem /\ heap[elems[1]].msg \in DOMAIN asked
<1>1. ptr \in 1..(Size + 1) /\ Requests(asked)
  BY DEF IInv, Typed
<1>2. ptr - 1 \in Slot /\ 1 \in Slot /\ 1 \in 1..(ptr - 1)
  BY <1>1 DEF Slot
<1>3. elems[1] \in allocated
  BY <1>2 DEF IInv, SlotsOf, Pointers, allocated
<1>4. heap[elems[1]] \in Elem
  BY <1>3 DEF IInv, Typed, Allocated, allocated
<1>5. heap[elems[1]].msg \in Msg
  BY <1>4 DEF Elem
<1>6. heap[elems[1]].msg \in DOMAIN asked
  BY <1>3, <1>5 DEF IInv, Messages, MessagesOf, PulledOf, allocated
<1> QED BY <1>2, <1>3, <1>4, <1>6

LEMMA ShownOnce ==
  ASSUME IInv, ptr > 1, NEW m, m = heap[elems[1]].msg,
         NEW out, out = [shown EXCEPT ![m] = @ + 1]
  PROVE  /\ m \in Msg /\ out \in [Msg -> Nat] /\ out[m] = shown[m] + 1
         /\ \A n \in Msg : n # m => out[n] = shown[n]
<1>1. heap[elems[1]] \in Elem /\ shown \in [Msg -> Nat]
  BY FrontIsAllocated DEF IInv, Typed
<1>2. m \in Msg
  BY <1>1 DEF Elem
<1> QED BY <1>1, <1>2

LEMMA StillShown ==
  ASSUME IInv, ptr > 1, NEW a, a = elems[1], NEW m, m = heap[a].msg,
         NEW left, left = Countdown(heap[a].duration), left > 0,
         NEW out, out = [shown EXCEPT ![m] = @ + 1],
         NEW h, h = [heap EXCEPT ![a].duration = left]
  PROVE  Allocated(h) /\ DOMAIN h = DOMAIN heap /\ MessagesOf(h, asked, lost, out)
<1>1. a \in allocated /\ heap[a] \in Elem /\ m \in DOMAIN asked
  BY FrontIsAllocated
<1>2. /\ DOMAIN h = DOMAIN heap /\ h = [b \in DOMAIN h |-> h[b]]
      /\ h[a] = [heap[a] EXCEPT !.duration = left]
      /\ \A b \in DOMAIN heap : b # a => h[b] = heap[b]
  BY <1>1 DEF IInv, Typed, Allocated, allocated
<1>3. /\ heap[a].duration \in 0..UIntMax /\ left \in 0..UIntMax
      /\ Pulls(left) = Pulls(heap[a].duration) - 1 /\ Pulls(heap[a].duration) \in Nat
  <2>1. PICK d : d = heap[a].duration
    OBVIOUS
  <2>2. d \in 0..UIntMax
    BY <1>1, <2>1 DEF Elem
  <2> QED BY <2>1, <2>2, CountdownPulls
<1>4. h[a] \in Elem /\ h[a].msg = m /\ h[a].duration = left
  BY <1>1, <1>2, <1>3 DEF Elem
<1>5. Allocated(h)
  BY <1>2, <1>4 DEF IInv, Typed, Allocated
<1>6. \A b \in DOMAIN heap : h[b].msg = heap[b].msg
  BY <1>2, <1>4
<1>7. /\ m \in Msg /\ out[m] = shown[m] + 1 /\ \A n \in Msg : n # m => out[n] = shown[n]
      /\ shown[m] \in Nat
  BY ShownOnce DEF IInv, Typed
<1>8. /\ \A b, c \in DOMAIN heap : heap[b].msg = heap[c].msg => b = c
      /\ \A n \in Msg : PulledOf(heap, asked, shown, n) /\ EndedOf(heap, asked, lost, shown, n)
  BY DEF IInv, Messages, MessagesOf
<1>9. Pulls(asked[m]) \in Nat
  <2>1. asked[m] \in 0..UIntMax
    BY <1>1 DEF IInv, Typed, Requests
  <2> QED BY <2>1 DEF Pulls
<1>10. PulledOf(h, asked, out, m)
  <2>1. shown[m] + Pulls(heap[a].duration) = Pulls(asked[m])
    BY <1>1, <1>7, <1>8 DEF PulledOf, allocated
  <2>2. out[m] + Pulls(left) = Pulls(asked[m]) /\ out[m] <= Pulls(asked[m])
    <3>1. PICK x, y, z : x = Pulls(heap[a].duration) /\ y = Pulls(left) /\ z = Pulls(asked[m])
      OBVIOUS
    <3>2. x \in Nat /\ y = x - 1 /\ z \in Nat /\ shown[m] + x = z
      BY <1>3, <1>9, <2>1, <3>1
    <3>3. y \in Nat
      <4>1. Pulls(left) \in Nat
        BY <1>3 DEF Pulls
      <4> QED BY <3>1, <4>1
    <3> QED BY <1>7, <3>1, <3>2, <3>3
  <2>3. \A b \in DOMAIN h : h[b].msg = m => b = a
    BY <1>1, <1>2, <1>6, <1>8 DEF allocated
  <2> QED BY <1>1, <1>4, <2>2, <2>3 DEF PulledOf
<1>11. EndedOf(h, asked, lost, out, m)
  BY <1>1, <1>2, <1>4 DEF EndedOf, allocated
<1>12. ASSUME NEW n \in Msg, n # m
       PROVE  PulledOf(h, asked, out, n) /\ EndedOf(h, asked, lost, out, n)
  <2>1. \A b \in DOMAIN h : h[b].msg = n => h[b] = heap[b]
    BY <1>2, <1>4, <1>12
  <2> QED BY <1>2, <1>6, <1>7, <1>8, <1>12, <2>1 DEF PulledOf, EndedOf
<1>13. \A b, c \in DOMAIN h : h[b].msg = h[c].msg => b = c
  BY <1>2, <1>6, <1>8
<1> QED BY <1>2, <1>5, <1>10, <1>11, <1>12, <1>13 DEF MessagesOf

LEMMA ShownLast ==
  ASSUME IInv, ptr > 1, NEW a, a = elems[1], NEW m, m = heap[a].msg,
         Countdown(heap[a].duration) = 0,
         NEW out, out = [shown EXCEPT ![m] = @ + 1],
         NEW h, h = free(a)
  PROVE  Allocated(h) /\ DOMAIN h = DOMAIN heap \ {a} /\ MessagesOf(h, asked, lost, out)
<1>1. a \in allocated /\ heap[a] \in Elem /\ m \in DOMAIN asked
  BY FrontIsAllocated
<1>2. DOMAIN h = DOMAIN heap \ {a} /\ h = [b \in DOMAIN h |-> h[b]]
      /\ \A b \in DOMAIN h : h[b] = heap[b]
  BY DEF free, allocated
<1>3. Pulls(heap[a].duration) = 1
  <2>1. PICK d : d = heap[a].duration
    OBVIOUS
  <2>2. d \in 0..UIntMax
    BY <1>1, <2>1 DEF Elem
  <2> QED BY <2>1, <2>2, CountdownPulls
<1>4. Allocated(h)
  BY <1>2 DEF IInv, Typed, Allocated
<1>5. /\ m \in Msg /\ out[m] = shown[m] + 1 /\ \A n \in Msg : n # m => out[n] = shown[n]
      /\ shown[m] \in Nat
  BY ShownOnce DEF IInv, Typed
<1>6. /\ \A b, c \in DOMAIN heap : heap[b].msg = heap[c].msg => b = c
      /\ \A n \in Msg : PulledOf(heap, asked, shown, n) /\ EndedOf(heap, asked, lost, shown, n)
  BY DEF IInv, Messages, MessagesOf
<1>7. PulledOf(h, asked, out, m) /\ EndedOf(h, asked, lost, out, m)
  <2>1. out[m] = Pulls(asked[m])
    BY <1>1, <1>3, <1>5, <1>6 DEF PulledOf, allocated
  <2>2. \A b \in DOMAIN h : h[b].msg # m
    BY <1>1, <1>2, <1>6 DEF allocated
  <2>3. out[m] <= Pulls(asked[m])
    BY <1>5, <2>1
  <2> QED BY <1>1, <2>1, <2>2, <2>3 DEF PulledOf, EndedOf
<1>8. ASSUME NEW n \in Msg, n # m
      PROVE  PulledOf(h, asked, out, n) /\ EndedOf(h, asked, lost, out, n)
  <2>1. \A b \in DOMAIN heap : heap[b].msg = n => b \in DOMAIN h
    BY <1>2, <1>8
  <2>2. out[n] = shown[n]
    BY <1>5, <1>8
  <2>3. PulledOf(h, asked, out, n)
    BY <1>2, <1>6, <2>2 DEF PulledOf
  <2>4. (\A b \in DOMAIN h : h[b].msg # n) => \A b \in DOMAIN heap : heap[b].msg # n
    BY <1>2, <2>1
  <2>5. EndedOf(heap, asked, lost, shown, n)
    BY <1>6
  <2>6. EndedOf(h, asked, lost, out, n)
    BY <2>2, <2>4, <2>5 DEF EndedOf
  <2> QED BY <2>3, <2>6
<1>9. \A n \in Msg : PulledOf(h, asked, out, n) /\ EndedOf(h, asked, lost, out, n)
  BY <1>7, <1>8
<1>10. \A b, c \in DOMAIN h : h[b].msg = h[c].msg => b = c
  BY <1>2, <1>6
<1>11. MessagesOf(h, asked, lost, out)
  BY <1>9, <1>10 DEF MessagesOf
<1> QED BY <1>2, <1>4, <1>11

(* The last element takes the place of the front and sinks.                *)
LEMMA PullSlots ==
  ASSUME IInv, ptr > 1, NEW h, DOMAIN h = DOMAIN heap \ {elems[1]},
         NEW p, p = ptr - 1,
         NEW q, q = [elems EXCEPT ![1] = elems[p]],
         NEW r, r = SiftDown(p)[1][q]
  PROVE  r \in Arrays /\ SlotsOf(h, r, p - 1)
<1>1. /\ p \in Slot /\ 1 \in Slot /\ elems \in Arrays /\ p \in Nat \ {0}
      /\ \A i \in 1..p : i \in Slot
  BY FrontIsAllocated DEF IInv, Typed, Slot
<1>2. /\ q \in Arrays /\ q[1] = elems[p] /\ \A i \in Slot : i # 1 => q[i] = elems[i]
      /\ q[1] = q[p]
  BY <1>1 DEF Arrays
<1>3. Fallen(p, q, r)
  BY <1>1, <1>2, SiftDownResult
<1>4. /\ \A i \in 1..p : elems[i] \in DOMAIN heap
      /\ \A x \in DOMAIN heap : \E i \in 1..p : x = elems[i]
      /\ \A i, j \in 1..p : elems[i] = elems[j] => i = j
  BY DEF IInv, SlotsOf, Pointers, Distinct
<1>5. Pointers(q, p - 1) = DOMAIN h
  <2>1. ASSUME NEW i \in 1..(p - 1) PROVE q[i] \in DOMAIN h
    <3>1. i \in 1..p /\ p \in 1..p /\ 1 \in 1..p /\ p # 1
      BY <1>1
    <3>2. CASE i = 1
      BY <1>2, <1>4, <3>1, <3>2
    <3>3. CASE i # 1
      BY <1>1, <1>2, <1>4, <3>1, <3>3
    <3> QED BY <3>2, <3>3
  <2>2. ASSUME NEW x \in DOMAIN h PROVE \E i \in 1..(p - 1) : x = q[i]
    <3>1. PICK i \in 1..p : x = elems[i]
      BY <1>4
    <3>2. i # 1
      BY <3>1
    <3>3. CASE i = p
      <4>1. 1 \in 1..(p - 1)
        BY <1>1, <3>1, <3>2, <3>3
      <4> QED BY <1>2, <3>1, <3>3, <4>1
    <3>4. CASE i # p
      <4>1. i \in 1..(p - 1)
        BY <1>1, <3>4
      <4> QED BY <1>1, <1>2, <3>1, <3>2, <4>1
    <3> QED BY <3>3, <3>4
  <2> QED BY <2>1, <2>2 DEF Pointers
<1>6. Distinct(q, p - 1)
  <2> SUFFICES ASSUME NEW i \in 1..(p - 1), NEW j \in 1..(p - 1), q[i] = q[j] PROVE i = j
    BY DEF Distinct
  <2>1. i \in 1..p /\ j \in 1..p /\ i # p /\ j # p /\ p \in 1..p
    BY <1>1
  <2>2. /\ i # 1 => q[i] = elems[i]
        /\ j # 1 => q[j] = elems[j]
    BY <1>1, <1>2, <2>1
  <2> QED BY <1>2, <1>4, <2>1, <2>2
<1>7. Pointers(r, p - 1) = DOMAIN h /\ Distinct(r, p - 1)
  BY <1>3, <1>5, <1>6 DEF Fallen, Rearranged
<1> QED BY <1>3, <1>7 DEF Fallen, SlotsOf

LEMMA PullStep ==
  ASSUME IInv, msg_queue_pull PROVE IInv'
<1> DEFINE a == elems[1]
           m == heap[a].msg
           left == Countdown(heap[a].duration)
<1>0. asked' = asked /\ lost' = lost
  BY DEF msg_queue_pull
<1>1. CASE ptr = 1 /\ UNCHANGED <<elems, heap, ptr, tmp_msg, shown>>
  BY <1>0, <1>1 DEF IInv, Typed, Messages
<1>2. CASE /\ ptr > 1 /\ left > 0
           /\ heap' = [heap EXCEPT ![a].duration = left]
           /\ shown' = [shown EXCEPT ![m] = @ + 1]
           /\ UNCHANGED <<elems, ptr, tmp_msg>>
  <2>1. Allocated(heap') /\ DOMAIN heap' = DOMAIN heap /\ MessagesOf(heap', asked, lost, shown')
    BY <1>2, StillShown
  <2>2. shown' \in [Msg -> Nat]
    BY <1>2, ShownOnce
  <2> QED BY <1>0, <1>2, <2>1, <2>2 DEF IInv, Typed, SlotsOf, Messages
<1>3. CASE /\ ptr > 1 /\ left = 0
           /\ ptr' = ptr - 1
           /\ heap' = free(a)
           /\ elems' = SiftDown(ptr - 1)[1][[elems EXCEPT ![1] = elems[ptr - 1]]]
           /\ shown' = [shown EXCEPT ![m] = @ + 1]
  <2>1. /\ Allocated(heap') /\ DOMAIN heap' = DOMAIN heap \ {a}
        /\ MessagesOf(heap', asked, lost, shown')
    BY <1>3, ShownLast
  <2>2. shown' \in [Msg -> Nat]
    BY <1>3, ShownOnce
  <2>3. elems' \in Arrays /\ SlotsOf(heap', elems', ptr' - 1)
    BY <1>3, <2>1, PullSlots
  <2>4. ptr' \in 1..(Size + 1)
    BY <1>3 DEF IInv, Typed
  <2> QED BY <1>0, <2>1, <2>2, <2>3, <2>4 DEF IInv, Typed, Messages
<1> QED BY <1>1, <1>2, <1>3 DEF msg_queue_pull

-----------------------------------------------------------------------------
(* msg_queue_clear.                                                        *)
LEMMA ClearStep ==
  ASSUME IInv, msg_queue_clear PROVE IInv'
<1>1. {elems[i] : i \in InUse} = allocated
  BY DEF IInv, SlotsOf, Pointers, InUse, allocated
<1>2. /\ DOMAIN heap' = {} /\ heap' = [a \in DOMAIN heap' |-> heap'[a]] /\ ptr' = 1
      /\ asked' = asked /\ shown' = shown
      /\ elems' = [i \in Slot |-> IF i \in InUse THEN NULL ELSE elems[i]]
      /\ lost' = lost \cup {heap[elems[i]].msg : i \in InUse}
  BY <1>1 DEF msg_queue_clear, at
<1>3. Typed'
  <2>1. elems' \in Arrays
    BY <1>2 DEF IInv, Typed, Arrays
  <2> QED BY <1>2, <2>1 DEF IInv, Typed, Allocated
<1>4. SlotsOf(heap', elems', ptr' - 1)
  <2>1. 1..(ptr' - 1) = {}
    BY <1>2
  <2> QED BY <1>2, <2>1 DEF SlotsOf, Pointers, Distinct
<1>5. \A n \in Msg : PulledOf(heap, asked, shown, n) /\ EndedOf(heap, asked, lost, shown, n)
  BY DEF IInv, Messages, MessagesOf
<1>6. ASSUME NEW n \in Msg
      PROVE  PulledOf(heap', asked, shown, n) /\ EndedOf(heap', asked, lost', shown, n)
  <2>1. PulledOf(heap', asked, shown, n)
    BY <1>2, <1>5 DEF PulledOf
  <2>2. n \notin lost' => n \notin lost /\ \A a \in DOMAIN heap : heap[a].msg # n
    BY <1>1, <1>2 DEF allocated
  <2> QED BY <1>5, <2>1, <2>2 DEF EndedOf
<1>7. MessagesOf(heap', asked, lost', shown)
  BY <1>2, <1>6 DEF MessagesOf
<1> QED BY <1>2, <1>3, <1>4, <1>7 DEF IInv, Messages

LEMMA NextInvariant == IInv /\ [Next]_vars => IInv'
<1> SUFFICES ASSUME IInv, [Next]_vars PROVE IInv'
  OBVIOUS
<1>1. ASSUME NEW m \in Msg, NEW prio \in Prio, NEW duration \in Durations,
             msg_queue_push(m, prio, duration)
      PROVE  IInv'
  BY <1>1, PushStep
<1>2. CASE msg_queue_pull
  BY <1>2, PullStep
<1>3. CASE msg_queue_clear
  BY <1>3, ClearStep
<1>4. CASE UNCHANGED vars
  BY <1>4 DEF vars, IInv, Typed, Messages
<1> QED BY <1>1, <1>2, <1>3, <1>4 DEF Next

(* The loops of msg_queue_push and msg_queue_pull only exchange slots in   *)
(* use, and an element keeps what is left of its message's duration.       *)
THEOREM Invariant == Spec => []IInv
<1> QED BY InitInvariant, NextInvariant, PTL DEF Spec

(* The slots below ptr hold each allocated element exactly once, although  *)
(* msg_queue_pull compares with the pointer left in slot ptr.              *)
THEOREM ElementsStayInUse == Spec => []ElementsInUse
<1>1. IInv => ElementsInUse
  <2> SUFFICES ASSUME IInv PROVE ElementsInUse
    OBVIOUS
  <2>1. {elems[i] : i \in InUse} = allocated
    BY DEF IInv, SlotsOf, Pointers, InUse, allocated
  <2>2. \A i, j \in InUse : elems[i] = elems[j] => i = j
    BY DEF IInv, SlotsOf, Distinct, InUse
  <2>3. ptr - 1 \in Nat
    BY DEF IInv, Typed
  <2>4. ExistsBijection(1..(ptr - 1), allocated)
    <3> DEFINE f == [i \in 1..(ptr - 1) |-> elems[i]]
    <3>1. f \in [1..(ptr - 1) -> allocated]
      BY <2>1 DEF InUse
    <3>2. \A i, j \in 1..(ptr - 1) : f[i] = f[j] => i = j
      BY <2>2 DEF InUse
    <3>3. \A x \in allocated : \E i \in 1..(ptr - 1) : f[i] = x
      BY <2>1 DEF InUse
    <3>4. f \in Bijection(1..(ptr - 1), allocated)
      <4> HIDE DEF f
      <4> QED BY <3>1, <3>2, <3>3 DEF Bijection, Injection, Surjection, IsInjective
    <3> HIDE DEF f
    <3> QED BY <3>4 DEF ExistsBijection
  <2>5. Cardinality(allocated) = ptr - 1
    BY <2>3, <2>4, FS_CountingElements
  <2> QED BY <2>1, <2>5 DEF ElementsInUse
<1> QED BY <1>1, Invariant, PTL

(* msg_queue_pull returns a message as often as its duration says and then *)
(* frees it, unless that is 0, which front->duration-- wraps.              *)
THEOREM ShownAsAsked == Spec => []ShownForDuration
<1>1. IInv => ShownForDuration
  <2> SUFFICES ASSUME IInv, NEW m \in DOMAIN asked, asked[m] > 0
               PROVE  /\ m \notin Waiting \cup lost => shown[m] = asked[m]
                      /\ shown[m] <= asked[m]
    BY DEF ShownForDuration
  <2>1. m \in Msg
    BY DEF IInv, Typed, Requests
  <2>2. PulledOf(heap, asked, shown, m) /\ EndedOf(heap, asked, lost, shown, m)
    BY <2>1 DEF IInv, Messages, MessagesOf
  <2>3. m \notin Waiting => \A a \in DOMAIN heap : heap[a].msg # m
    <3>1. {elems[i] : i \in InUse} = DOMAIN heap
      BY DEF IInv, SlotsOf, Pointers, InUse
    <3> QED BY <3>1 DEF Waiting, at
  <2>4. /\ m \notin Waiting \cup lost => shown[m] = Pulls(asked[m])
        /\ shown[m] <= Pulls(asked[m])
    BY <2>2, <2>3 DEF PulledOf, EndedOf
  <2>5. Pulls(asked[m]) = asked[m]
    BY <2>1 DEF Pulls, IInv, Typed, Requests
  <2> QED BY <2>4, <2>5
<1> QED BY <1>1, Invariant, PTL

(* msg_queue_push puts a message first that beats all others, and never    *)
(* one that does not beat the first.                                       *)
THEOREM PushesTakeTurn == Spec => PushTakesTurn
<1> DEFINE A == ptr' = ptr + 1 /\ ptr > 1 =>
     LET new == CHOOSE a \in DOMAIN heap' : a \notin allocated IN
     /\ elems'[1] = new => heap'[new].prio > at(1).prio
     /\ (\A i \in InUse : heap'[new].prio > at(i).prio) => elems'[1] = new
<1>1. IInv /\ [Next]_vars => [A]_vars
  <2> SUFFICES ASSUME IInv, [Next]_vars, ptr' = ptr + 1, ptr > 1,
                      NEW new, new = CHOOSE a \in DOMAIN heap' : a \notin allocated
               PROVE  /\ elems'[1] = new => heap'[new].prio > at(1).prio
                      /\ (\A i \in InUse : heap'[new].prio > at(i).prio) => elems'[1] = new
    OBVIOUS
  <2>0. ptr \in 1..(Size + 1)
    BY DEF IInv, Typed
  <2>1. PICK m \in Msg, prio \in Prio, duration \in Durations :
          msg_queue_push(m, prio, duration)
    <3>1. ~msg_queue_pull /\ ~msg_queue_clear /\ ~UNCHANGED vars
      BY <2>0 DEF msg_queue_pull, msg_queue_clear, vars
    <3> QED BY <3>1 DEF Next
  <2>2. PICK a \in Addr \ allocated :
          /\ ptr <= Size
          /\ heap' = Added(heap, a, NewElem(m, prio, duration))
          /\ elems' = SiftUp(heap')[ptr][[elems EXCEPT ![ptr] = a]]
    <3>1. ~(ptr > Size)
      BY <2>0, <2>1 DEF msg_queue_push
    <3>2. ptr <= Size
      BY <2>0, <3>1
    <3> QED BY <2>1, <3>1, <3>2 DEF msg_queue_push, Added, NewElem, allocated
  <2> DEFINE q == [elems EXCEPT ![ptr] = a]
  <2>3. ptr \in Slot /\ a \in Addr /\ a \notin allocated
    BY <2>0, <2>2 DEF Slot
  <2>4. Risen(heap', q, ptr, elems')
    BY <2>2, <2>3, PushSlots
  <2>5. q[ptr] = a /\ (\A i \in InUse : q[i] = elems[i]) /\ Distinct(q, ptr)
    BY <2>3, PlacedLast
  <2> HIDE DEF q
  <2>6. new = a
    BY <2>2 DEF Added, allocated
  <2>7. \A i \in InUse : heap'[q[i]] = at(i)
    <3>1. \A i \in InUse : elems[i] \in allocated
      BY DEF IInv, SlotsOf, Pointers, InUse, allocated
    <3> QED BY <2>2, <2>5, <3>1 DEF Added, at, allocated
  <2>8. 1 \in InUse /\ InUse = 1..(ptr - 1)
    BY <2>0 DEF InUse
  <2>9. /\ elems'[1] = a => heap'[a].prio > heap'[q[1]].prio
        /\ (\A i \in InUse : heap'[a].prio > heap'[q[i]].prio) => elems'[1] = a
    BY <2>0, <2>4, <2>5, <2>8 DEF Risen, Beats
  <2> QED BY <2>6, <2>7, <2>8, <2>9
<1> QED BY <1>1, Invariant, PTL DEF Spec, PushTakesTurn

=============================================================================
