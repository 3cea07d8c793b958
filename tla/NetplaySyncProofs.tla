------------------------- MODULE NetplaySyncProofs -------------------------
(***************************************************************************)
(* Proofs about NetplaySync: whatever is guessed, replayed, delayed and    *)
(* stalled, and however many clients there are, each peer makes final the  *)
(* frames of one game, and no check of the server ever fails.              *)
(***************************************************************************)
EXTENDS NetplaySync, SequencesExt, FiniteSetTheorems,
        SequenceTheorems, WellFoundedInduction, TLAPS

-----------------------------------------------------------------------------
(* A set of natural numbers that is not empty has a least member. *)
LEMMA LeastMember ==
  ASSUME NEW S \in SUBSET Nat, S # {}
  PROVE  Min(S) \in S /\ \A y \in S : Min(S) <= y
<1> DEFINE R == {ss \in Nat \X Nat : ss[1] < ss[2]}
<1>1. R = OpToRel(<, Nat)
  BY Zenon DEF OpToRel
<1>2. IsWellFoundedOn(R, Nat)
  <2> HIDE DEF R
  <2> QED BY <1>1, NatLessThanWellFounded, Zenon
<1>3. PICK x \in S : \A y \in S : ~(<<y, x>> \in R)
  <2> HIDE DEF R
  <2> QED BY <1>2, WFMin, Zenon
<1>4. ASSUME NEW y \in S PROVE x <= y
  <2>1. x \in Nat /\ y \in Nat
    OBVIOUS
  <2>2. y < x => <<y, x>> \in R
    BY <2>1
  <2>3. ~(y < x)
    BY <1>3, <2>2
  <2> QED BY <2>1, <2>3
<1> QED BY <1>4 DEF Min

(* The members of a finite set of numbers can be counted upwards. *)
Ordering(S, n) ==
  {s \in [1..n -> S] : \A i, j \in 1..n : i < j => s[i] < s[j]}

LEMMA SomeOrdering ==
  ASSUME NEW S \in SUBSET Nat, IsFiniteSet(S)
  PROVE  Ordering(S, Cardinality(S)) # {}
<1> DEFINE Bad == {n \in Nat : \E T \in SUBSET Nat :
                     IsFiniteSet(T) /\ Cardinality(T) = n /\ Ordering(T, n) = {}}
<1>1. ASSUME Bad # {} PROVE FALSE
  <2> DEFINE n == Min(Bad)
  <2>1. n \in Bad /\ \A m \in Bad : n <= m
    <3>1. Bad \in SUBSET Nat
      OBVIOUS
    <3> HIDE DEF Bad
    <3> QED BY <1>1, <3>1, LeastMember
  <2> HIDE DEF n
  <2>2. PICK T \in SUBSET Nat : IsFiniteSet(T) /\ Cardinality(T) = n /\ Ordering(T, n) = {}
    BY <2>1
  <2>3. n \in Nat
    BY <2>1
  <2>4. CASE n = 0
    <3>1. <<>> \in [1..n -> T]
      BY <2>4
    <3>2. <<>> \in Ordering(T, n)
      BY <3>1, <2>4 DEF Ordering
    <3> QED BY <3>2, <2>2
  <2>5. CASE n # 0
    <3> DEFINE x == Min(T)
               U == T \ {x}
    <3>1. T # {}
      BY <2>2, <2>5, FS_EmptySet
    <3>2. x \in T /\ \A y \in T : x <= y
      BY <3>1, LeastMember
    <3> HIDE DEF x
    <3>3. IsFiniteSet(U) /\ Cardinality(U) = n - 1
      BY <2>2, <3>2, FS_RemoveElement
    <3>4. n - 1 \in Nat /\ n - 1 \notin Bad
      BY <2>1, <2>3, <2>5
    <3>5. Ordering(U, n - 1) # {}
      BY <3>3, <3>4
    <3>6. PICK t \in Ordering(U, n - 1) : TRUE
      BY <3>5
    <3> DEFINE s == [i \in 1..n |-> IF i = 1 THEN x ELSE t[i - 1]]
    <3>7. t \in [1..(n - 1) -> U] /\ \A i, j \in 1..(n - 1) : i < j => t[i] < t[j]
      BY <3>6 DEF Ordering
    <3>8. ASSUME NEW i \in 1..n PROVE s[i] \in T /\ (i # 1 => s[i] = t[i - 1] /\ x < s[i])
      <4>1. i # 1 => i - 1 \in 1..(n - 1)
        BY <2>3
      <4>2. i # 1 => t[i - 1] \in U
        BY <4>1, <3>7
      <4>3. i # 1 => t[i - 1] \in T /\ x < t[i - 1]
        <5>1. ASSUME NEW y \in U PROVE y \in T /\ x < y
          <6>1. y \in Nat /\ x \in Nat /\ y # x /\ x <= y
            BY <3>2
          <6> QED BY <6>1
        <5> QED BY <4>2, <5>1
      <4>4. s[i] = IF i = 1 THEN x ELSE t[i - 1]
        OBVIOUS
      <4> HIDE DEF s
      <4> QED BY <4>3, <4>4, <3>2
    <3>9. ASSUME NEW i \in 1..n, NEW j \in 1..n, i < j PROVE s[i] < s[j]
      <4>1. j # 1 /\ (i # 1 => t[i - 1] < t[j - 1])
        BY <3>9, <3>7, <2>3
      <4>2. i # 1 => s[i] = t[i - 1]
        BY <3>8
      <4>3. s[j] = t[j - 1] /\ x < s[j]
        BY <3>8, <4>1
      <4>4. i = 1 => s[i] = x
        OBVIOUS
      <4> HIDE DEF s
      <4> QED BY <4>1, <4>2, <4>3, <4>4
    <3>10. s \in [1..n -> T]
      BY <3>8
    <3>11. s \in Ordering(T, n)
      <4> HIDE DEF s
      <4> QED BY <3>9, <3>10 DEF Ordering
    <3> QED BY <3>11, <2>2
  <2> QED BY <2>4, <2>5
<1>2. Cardinality(S) \in Nat
  BY FS_CardinalityType
<1> QED BY <1>1, <1>2

(* Functions over 1..n are sequences, and so is what is put behind them. *)
LEMMA ConcatOfFunctions ==
  ASSUME NEW m \in Nat, NEW n \in Nat, NEW e, NEW g,
         e = [k \in 1..m |-> e[k]], g = [k \in 1..n |-> g[k]]
  PROVE  e \o g = [k \in 1..(m + n) |-> IF k <= m THEN e[k] ELSE g[k - m]]
<1> DEFINE X == {e[k] : k \in 1..m} \cup {g[k] : k \in 1..n}
<1>1. e \in [1..m -> X] /\ g \in [1..n -> X]
  <2>1. \A k \in 1..m : e[k] \in X
    OBVIOUS
  <2>2. \A k \in 1..n : g[k] \in X
    OBVIOUS
  <2> HIDE DEF X
  <2> QED BY <2>1, <2>2
<1> HIDE DEF X
<1>2. e \in Seq(X) /\ Len(e) = m /\ g \in Seq(X) /\ Len(g) = n
  BY <1>1
<1> DEFINE f == [k \in 1..(m + n) |-> IF k <= m THEN e[k] ELSE g[k - m]]
<1>3. e \o g \in Seq(X) /\ Len(e \o g) = m + n
  BY <1>2
<1>4. ASSUME NEW k \in 1..(m + n) PROVE (e \o g)[k] = f[k]
  BY <1>2, <1>4
<1>5. e \o g = [k \in 1..(m + n) |-> (e \o g)[k]]
  BY <1>3
<1> QED BY <1>4, <1>5

LEMMA AppendToFunction ==
  ASSUME NEW m \in Nat, NEW e, e = [k \in 1..m |-> e[k]], NEW x
  PROVE  Append(e, x) = [k \in 1..(m + 1) |-> IF k <= m THEN e[k] ELSE x]
<1> DEFINE X == {e[k] : k \in 1..m} \cup {x}
<1>1. e \in [1..m -> X] /\ x \in X
  <2>1. \A k \in 1..m : e[k] \in X
    OBVIOUS
  <2>2. x \in X
    OBVIOUS
  <2> HIDE DEF X
  <2> QED BY <2>1, <2>2
<1> HIDE DEF X
<1>2. e \in Seq(X) /\ Len(e) = m
  BY <1>1
<1>3. Append(e, x) \in Seq(X) /\ Len(Append(e, x)) = m + 1
  BY <1>1, <1>2
<1>4. ASSUME NEW k \in 1..(m + 1)
      PROVE  Append(e, x)[k] = IF k <= m THEN e[k] ELSE x
  BY <1>1, <1>2, <1>4
<1>5. Append(e, x) = [k \in 1..(m + 1) |-> Append(e, x)[k]]
  BY <1>3
<1> QED BY <1>4, <1>5

-----------------------------------------------------------------------------
(* The invariant.  Its parts are stated of the values of a peer's          *)
(* variables, not of the variables, so that a lemma about a part holds of  *)
(* the next state too.                                                     *)
(*                                                                         *)
(* in is the history of inputs.  The inputs of the first f frames are all  *)
(* given, and these are the inputs of frame j and the game up to frame f.  *)
Histories == [Player -> Seq(Pressed)]

Counts == [Player -> Nat]

Given(in, f) == \A c \in Player : f <= Len(in[c])

Inputs(in, j) == [c \in Player |-> in[c][j + 1]]

Game(in, f) == [k \in 1..f |-> Inputs(in, k - 1)]

(* A slot of a frame that is not final (o is other_frame_count) holds the  *)
(* inputs read of it, and no other; one of a frame before o, or of frame o *)
(* itself if its state is saved already (the frames before v are), the     *)
(* state of the game; and what it keeps of the server's checks is of the   *)
(* game too.                                                               *)
Fields == {"frame", "crc", "state", "real", "sim", "resolved"}

RealOf(s, in, rd, o) == s.frame >= o =>
  \A c \in Player : s.real[c] = IF s.frame < rd[c] THEN in[c][s.frame + 1] ELSE NoInput

StateOf(s, in, o, v) ==
  s.frame # None /\ s.frame <= o /\ s.frame < v => s.state = Game(in, s.frame)

CrcOf(s, in) ==
  s.crc # NoCrc => s.frame # None /\ Given(in, s.frame) /\ s.crc = Game(in, s.frame)

SlotShape(s) == /\ DOMAIN s = Fields /\ DOMAIN s.real = Player
                /\ s.frame \in Nat \cup {None}

SlotOf(s, in, rd, o, v) ==
  SlotShape(s) /\ RealOf(s, in, rd, o) /\ StateOf(s, in, o, v) /\ CrcOf(s, in)

(* The ring of peer p: a frame has one slot, and any frame that is not     *)
(* final and of which an input was read is there.                          *)
RingOf(p, ring, in, rd, o, v) ==
  /\ DOMAIN ring = 0..(Size(p) - 1)
  /\ \A i \in 0..(Size(p) - 1) :
       /\ SlotOf(ring[i], in, rd, o, v)
       /\ ring[i].frame # None => ring[i].frame % Size(p) = i
  /\ \A c \in Player : \A f \in o..(rd[c] - 1) : ring[f % Size(p)].frame = f

(* The core has been run with the inputs of the game up to the frames that *)
(* are not final, and with what was resolved for these.                    *)
Played(p, ring, in, o, j) ==
  IF j < o THEN Inputs(in, j) ELSE ring[j % Size(p)].resolved

CoreOf(p, ring, in, o, r, k) ==
  \A f \in o..r :
    (IF f = r THEN k ELSE ring[f % Size(p)].state)
      = [j \in 1..f |-> Played(p, ring, in, o, j - 1)]

(* No count runs ahead of those it depends on. *)
ReadOf(in, rd, o) == \A c \in Player : o <= rd[c] /\ rd[c] <= Len(in[c])

CountsOf(p, poll, s, r, o, rd, in) ==
  /\ o <= r /\ r <= s
  /\ s <= rd[p] /\ rd[p] <= s + 1 /\ (poll => rd[p] = s + 1)
  /\ Len(in[p]) = rd[p]
  /\ ReadOf(in, rd, o)

PeerOf(p, poll, s, r, o, rd, ring, k, in) ==
  /\ CountsOf(p, poll, s, r, o, rd, in)
  /\ RingOf(p, ring, in, rd, o, IF poll THEN r + 1 ELSE r)
  /\ CoreOf(p, ring, in, o, r, k)
  /\ poll => ring[r % Size(p)].state = k

PeerInv(p) == PeerOf(p, pc[p] = "poll", self[p], run[p], other[p], read[p],
                     buffer[p], core[p], input)

(* What peer p sends: inputs as they were given, a client only its own,    *)
(* and states of the game.                                                 *)
InputsFrom(p, in) ==
  {m \in [cmd : {"INPUT"}, frame : Nat, client : Player, data : Pressed] :
     /\ m.frame < Len(in[m.client]) /\ m.data = in[m.client][m.frame + 1]
     /\ p # Server => m.client = p}

ChecksOf(in) == {[cmd |-> "CRC", frame |-> f, crc |-> Game(in, f)] :
                   f \in {g \in Nat : Given(in, g)}}

Commands(p, in) ==
  InputsFrom(p, in) \cup ChecksOf(in) \cup [cmd : {"STALL"}, frames : Int]

ChanOf(ch, in) ==
  DOMAIN ch = Player /\ \A p \in Player : ch[p] \in [Peers(p) -> Seq(Commands(p, in))]

ChanInv == ChanOf(chan, input)

Types ==
  /\ pc \in [Player -> {"pre", "poll"}]
  /\ self \in [Player -> Nat] /\ run \in [Player -> Nat] /\ other \in [Player -> Nat]
  /\ read \in [Player -> Counts] /\ latency \in [Player -> Nat]
  /\ input \in Histories
  /\ DOMAIN core = Player /\ DOMAIN buffer = Player

ChecksPass == /\ crcs_valid = [c \in Client |-> TRUE]
              /\ savestate_request_outstanding = [c \in Client |-> FALSE]

IInv == Types /\ (\A p \in Player : PeerInv(p)) /\ ChanInv /\ ChecksPass

-----------------------------------------------------------------------------
(* Inputs are only added. *)
Extends(in, in2) ==
  \A c \in Player : /\ Len(in[c]) <= Len(in2[c])
                    /\ \A k \in 1..Len(in[c]) : in2[c][k] = in[c][k]

LEMMA GameKept ==
  ASSUME NEW in \in Histories, NEW in2 \in Histories, Extends(in, in2),
         NEW f \in Nat, Given(in, f)
  PROVE  Given(in2, f) /\ Game(in2, f) = Game(in, f)
<1>1. Given(in2, f)
  <2>1. \A c \in Player : Len(in[c]) \in Nat /\ Len(in2[c]) \in Nat
    BY DEF Histories
  <2> QED BY <2>1 DEF Given, Extends
<1>2. ASSUME NEW k \in 1..f, NEW c \in Player PROVE in2[c][k - 1 + 1] = in[c][k - 1 + 1]
  <2>1. Len(in[c]) \in Nat /\ f <= Len(in[c])
    BY DEF Given, Histories
  <2>2. k \in 1..Len(in[c]) /\ k - 1 + 1 = k
    BY <2>1
  <2> QED BY <2>2 DEF Extends
<1>3. \A k \in 1..f : Inputs(in2, k - 1) = Inputs(in, k - 1)
  BY <1>2 DEF Inputs
<1> QED BY <1>1, <1>3 DEF Game

LEMMA NoInputPressed == \A i \in Pressed : i # NoInput
<1>1. ASSUME NEW i, Len(i) = 2 PROVE i # <<>>
  <2>1. Len(<<>>) = 0
    OBVIOUS
  <2> QED BY <1>1, <2>1
<1>2. Len(Zero) = 2
  BY DEF Zero
<1>3. ASSUME NEW p \in Player, NEW i \in Input[p] PROVE Len(i) = 2
  BY InputAssumption
<1>4. \A i \in Pressed : Len(i) = 2
  BY <1>2, <1>3 DEF Pressed
<1> QED BY <1>1, <1>4 DEF NoInput

LEMMA SizeIsPositive ==
  ASSUME NEW p \in Player PROVE Size(p) \in Nat \ {0}
BY BoundAssumption DEF Size

LEMMA SlotIndex ==
  ASSUME NEW p \in Player, NEW f \in Nat PROVE f % Size(p) \in 0..(Size(p) - 1)
BY SizeIsPositive

(* The members of a set counted upwards. *)
LEMMA InOrderIsSequence ==
  ASSUME NEW S \in SUBSET Nat, IsFiniteSet(S)
  PROVE  InOrder(S) \in Seq(S)
<1>1. InOrder(S) \in Ordering(S, Cardinality(S))
  <2>1. \E s \in [1..Cardinality(S) -> S] :
          \A i, j \in 1..Cardinality(S) : i < j => s[i] < s[j]
    BY SomeOrdering DEF Ordering
  <2> QED BY <2>1 DEF InOrder, Ordering
<1>2. Cardinality(S) \in Nat
  BY FS_CardinalityType
<1> QED BY <1>1, <1>2 DEF Ordering

-----------------------------------------------------------------------------
(* One slot.  Its fields after the changes that are made to it.            *)
WithState(s, x, t) ==
  /\ SlotShape(t) /\ t.state = x /\ t.resolved = s.resolved
  /\ t.frame = s.frame /\ t.crc = s.crc /\ t.real = s.real

LEMMA StateFields ==
  ASSUME NEW s, SlotShape(s), NEW x PROVE WithState(s, x, [s EXCEPT !.state = x])
BY DEF SlotShape, Fields, WithState

WithCrc(s, x, t) ==
  /\ SlotShape(t) /\ t.crc = x /\ t.resolved = s.resolved
  /\ t.frame = s.frame /\ t.state = s.state /\ t.real = s.real

LEMMA CrcFields ==
  ASSUME NEW s, SlotShape(s), NEW x PROVE WithCrc(s, x, [s EXCEPT !.crc = x])
BY DEF SlotShape, Fields, WithCrc

WithReal(s, c, x, t) ==
  /\ SlotShape(t) /\ t.real = [s.real EXCEPT ![c] = x] /\ t.resolved = s.resolved
  /\ t.frame = s.frame /\ t.crc = s.crc /\ t.state = s.state

LEMMA RealFields ==
  ASSUME NEW s, SlotShape(s), NEW c, NEW x
  PROVE  WithReal(s, c, x, [s EXCEPT !.real[c] = x])
BY DEF SlotShape, Fields, WithReal

IsCleared(s, f, t) ==
  /\ SlotShape(t) /\ t.frame = f /\ t.crc = NoCrc /\ t.state = s.state
  /\ \A c \in Player : t.real[c] = NoInput

LEMMA ClearedFields ==
  ASSUME NEW s, SlotShape(s), NEW f \in Nat PROVE IsCleared(s, f, Cleared(s, f))
BY DEF SlotShape, Fields, Cleared, IsCleared

IsResolved(s, t) ==
  /\ SlotShape(t) /\ t.frame = s.frame /\ t.crc = s.crc
  /\ t.state = s.state /\ t.real = s.real
  /\ \A c \in Player : s.real[c] # NoInput => t.resolved[c] = s.real[c]
  /\ t.resolved = [c \in Player |-> t.resolved[c]]

LEMMA ResolvedFields ==
  ASSUME NEW p, NEW s, SlotShape(s), NEW resim
  PROVE  IsResolved(s, netplay_resolve_input(p, s, resim))
<1> DEFINE g == [s EXCEPT !.sim = [c \in Player |-> Guessed(p, s, c, resim)]]
           t == netplay_resolve_input(p, s, resim)
<1>1. /\ DOMAIN g = Fields /\ g.frame = s.frame /\ g.crc = s.crc
      /\ g.state = s.state /\ g.real = s.real
  BY DEF SlotShape, Fields
<1>2. t = [g EXCEPT !.resolved = [c \in Player |-> Resolved(p, g, c)]]
  BY DEF netplay_resolve_input
<1> HIDE DEF g, t
<1>3. /\ DOMAIN t = Fields /\ t.frame = g.frame /\ t.crc = g.crc
      /\ t.state = g.state /\ t.real = g.real
      /\ t.resolved = [c \in Player |-> Resolved(p, g, c)]
  BY <1>1, <1>2 DEF Fields
<1>4. ASSUME NEW c \in Player, s.real[c] # NoInput PROVE t.resolved[c] = s.real[c]
  BY <1>1, <1>3, <1>4 DEF Resolved
<1>5. SlotShape(t)
  BY <1>1, <1>3 DEF SlotShape
<1>6. t.resolved = [c \in Player |-> t.resolved[c]]
  BY <1>3
<1> QED BY <1>1, <1>3, <1>4, <1>5, <1>6 DEF t, IsResolved

-----------------------------------------------------------------------------
(* What a slot holds stays true of it: when inputs are given, none of them *)
(* of its frame;                                                           *)
SameRead(s, rd, rd2) == \A c \in Player : s.frame < rd2[c] <=> s.frame < rd[c]

LEMMA SlotKept ==
  ASSUME NEW in \in Histories, NEW in2 \in Histories, Extends(in, in2),
         NEW o \in Nat, NEW v \in Nat,
         NEW rd \in Counts, NEW rd2 \in Counts,
         ReadOf(in, rd, o),
         NEW s, SlotOf(s, in, rd, o, v), SameRead(s, rd, rd2)
  PROVE  SlotOf(s, in2, rd2, o, v)
<1>1. SlotShape(s) /\ s.frame \in Nat \cup {None}
  BY DEF SlotOf, SlotShape
<1>2. RealOf(s, in2, rd2, o)
  <2> SUFFICES ASSUME s.frame >= o, NEW c \in Player
               PROVE  s.real[c] = IF s.frame < rd2[c] THEN in2[c][s.frame + 1] ELSE NoInput
    BY DEF RealOf
  <2>1. s.frame \in Nat
    BY <1>1 DEF None
  <2>2. s.real[c] = IF s.frame < rd[c] THEN in[c][s.frame + 1] ELSE NoInput
    BY DEF SlotOf, RealOf
  <2>3. s.frame < rd[c] => s.frame + 1 \in 1..Len(in[c])
    BY <2>1 DEF Histories, ReadOf, Counts
  <2>4. s.frame < rd[c] => in2[c][s.frame + 1] = in[c][s.frame + 1]
    BY <2>3 DEF Extends
  <2> QED BY <2>2, <2>4 DEF SameRead
<1>3. StateOf(s, in2, o, v)
  <2> SUFFICES ASSUME s.frame # None, s.frame <= o, s.frame < v
               PROVE  s.state = Game(in2, s.frame)
    BY DEF StateOf
  <2>1. s.frame \in Nat
    BY <1>1
  <2>2. Given(in, s.frame)
    <3>1. \A c \in Player : Len(in[c]) \in Nat
      BY DEF Histories
    <3> QED BY <2>1, <3>1 DEF Given, ReadOf, Counts
  <2>3. s.state = Game(in, s.frame)
    BY DEF SlotOf, StateOf
  <2> QED BY <2>1, <2>2, <2>3, GameKept
<1>4. CrcOf(s, in2)
  <2> SUFFICES ASSUME s.crc # NoCrc
               PROVE  s.frame # None /\ Given(in2, s.frame) /\ s.crc = Game(in2, s.frame)
    BY DEF CrcOf
  <2>1. s.frame # None /\ Given(in, s.frame) /\ s.crc = Game(in, s.frame)
    BY DEF SlotOf, CrcOf
  <2>2. s.frame \in Nat
    BY <1>1, <2>1
  <2> QED BY <2>1, <2>2, GameKept
<1> QED BY <1>1, <1>2, <1>3, <1>4 DEF SlotOf

(* when it is prepared for frame f, of which nothing was read;             *)
MayPrepare(s, f, o, v) == f >= o /\ (s.frame # f => ~(f <= o /\ f < v))

Unread(s, f, rd) == s.frame # f => \A c \in Player : rd[c] <= f

LEMMA SlotPrepared ==
  ASSUME NEW in, NEW o \in Nat, NEW v \in Nat, NEW rd \in Counts,
         NEW s, SlotOf(s, in, rd, o, v), NEW f \in Nat,
         MayPrepare(s, f, o, v), Unread(s, f, rd)
  PROVE  SlotOf(Prepared(s, f), in, rd, o, v) /\ Prepared(s, f).frame = f
<1>1. CASE s.frame = f
  BY <1>1 DEF Prepared
<1>2. CASE s.frame # f
  <2>1. PICK t : t = Cleared(s, f)
    OBVIOUS
  <2>2. /\ SlotShape(t) /\ t.frame = f /\ t.crc = NoCrc
        /\ \A c \in Player : t.real[c] = NoInput
    <3>1. SlotShape(s)
      BY DEF SlotOf
    <3>2. IsCleared(s, f, t)
      BY <2>1, <3>1, ClearedFields
    <3> QED BY <3>2 DEF IsCleared
  <2>3. RealOf(t, in, rd, o)
    BY <1>2, <2>2 DEF RealOf, Unread, Counts
  <2>4. StateOf(t, in, o, v) /\ CrcOf(t, in)
    BY <1>2, <2>2 DEF StateOf, CrcOf, MayPrepare
  <2>5. Prepared(s, f) = t
    BY <1>2, <2>1 DEF Prepared
  <2> QED BY <2>2, <2>3, <2>4, <2>5 DEF SlotOf
<1> QED BY <1>1, <1>2

(* when the state of the core is saved in it, before frame r is run;       *)
LEMMA SlotSaved ==
  ASSUME NEW in, NEW o \in Nat, NEW r \in Nat, NEW rd,
         NEW s, SlotOf(s, in, rd, o, r), s.frame = r,
         NEW k, r <= o => k = Game(in, r), NEW t, WithState(s, k, t)
  PROVE  SlotOf(t, in, rd, o, r + 1) /\ t.frame = r
<1>1. RealOf(t, in, rd, o) /\ CrcOf(t, in) /\ SlotShape(t) /\ t.frame = r /\ t.state = k
  BY DEF SlotOf, RealOf, CrcOf, WithState
<1>2. StateOf(t, in, o, r + 1)
  BY <1>1 DEF StateOf
<1> QED BY <1>1, <1>2 DEF SlotOf

LEMMA SlotNotSaved ==
  ASSUME NEW in, NEW o \in Nat, NEW r \in Nat, NEW rd,
         NEW s, SlotOf(s, in, rd, o, r), s.frame # r
  PROVE  SlotOf(s, in, rd, o, r + 1)
<1>1. s.frame \in Nat \cup {None}
  BY DEF SlotOf, SlotShape
<1>2. s.frame # None /\ s.frame < r + 1 => s.frame < r
  BY <1>1
<1>3. StateOf(s, in, o, r + 1)
  BY <1>2 DEF SlotOf, StateOf
<1> QED BY <1>3 DEF SlotOf

(* when the next input of player x is put into it, or kept elsewhere.      *)
ReadOne(rd, x, rd2) == rd2 = [rd EXCEPT ![x] = @ + 1]

LEMMA SlotReads ==
  ASSUME NEW in \in Histories, NEW in2 \in Histories, Extends(in, in2),
         NEW o \in Nat, NEW v \in Nat, NEW rd \in Counts,
         ReadOf(in, rd, o),
         NEW x \in Player, NEW s, SlotOf(s, in, rd, o, v), s.frame = rd[x],
         NEW data, data = in2[x][rd[x] + 1], NEW t, WithReal(s, x, data, t),
         NEW rd2, ReadOne(rd, x, rd2)
  PROVE  SlotOf(t, in2, rd2, o, v)
<1>2. /\ SlotShape(t) /\ t.state = s.state
      /\ t.frame = s.frame /\ t.crc = s.crc /\ t.resolved = s.resolved
      /\ t.real = [s.real EXCEPT ![x] = data]
  BY DEF WithReal
<1>3. DOMAIN s.real = Player /\ s.frame \in Nat
  BY DEF SlotOf, SlotShape, Counts
<1>4. SlotOf(s, in2, rd, o, v)
  <2>1. SameRead(s, rd, rd)
    BY DEF SameRead
  <2> QED BY <2>1, SlotKept
<1>5. RealOf(t, in2, rd2, o)
  <2> SUFFICES ASSUME NEW c \in Player
               PROVE  t.real[c] = IF t.frame < rd2[c] THEN in2[c][t.frame + 1] ELSE NoInput
    BY DEF RealOf
  <2>1. CASE c = x
    <3>1. t.real[c] = data /\ t.frame < rd2[c]
      BY <1>2, <1>3, <2>1 DEF Counts, ReadOne
    <3> QED BY <1>2, <2>1, <3>1
  <2>2. CASE c # x
    <3>1. t.real[c] = s.real[c] /\ rd2[c] = rd[c]
      BY <1>2, <1>3, <2>2 DEF ReadOne
    <3>2. s.frame >= o
      BY DEF ReadOf
    <3> QED BY <1>2, <1>4, <3>1, <3>2 DEF SlotOf, RealOf
  <2> QED BY <2>1, <2>2
<1>6. StateOf(t, in2, o, v) /\ CrcOf(t, in2)
  BY <1>2, <1>4 DEF SlotOf, StateOf, CrcOf
<1> QED BY <1>2, <1>5, <1>6 DEF SlotOf

-----------------------------------------------------------------------------
(* The ring.  A slot that is free for frame f, or holds it already, may be *)
(* written for f: any other frame that has to be there is elsewhere.       *)
LEMMA RingWritten ==
  ASSUME NEW p \in Player, NEW o \in Nat, NEW v, NEW v2, NEW in, NEW in2,
         NEW rd \in Counts, NEW rd2 \in Counts,
         NEW ring, RingOf(p, ring, in, rd, o, v),
         NEW f \in Nat, NEW i, i = f % Size(p), Ready(ring[i], f, o),
         NEW t, t.frame = f, SlotOf(t, in2, rd2, o, v2),
         \A j \in 0..(Size(p) - 1) : j # i => SlotOf(ring[j], in2, rd2, o, v2),
         \A c \in Player : \A g \in o..(rd2[c] - 1) : g # f => g < rd[c]
  PROVE  RingOf(p, [ring EXCEPT ![i] = t], in2, rd2, o, v2)
<1> DEFINE n == Size(p)
           ring2 == [ring EXCEPT ![i] = t]
<1> HIDE DEF n
<1>1. /\ DOMAIN ring = 0..(n - 1)
      /\ \A j \in 0..(n - 1) : ring[j].frame # None => ring[j].frame % n = j
      /\ \A c \in Player : \A g \in o..(rd[c] - 1) : ring[g % n].frame = g
  BY DEF RingOf, n
<1>2. n \in Nat \ {0}
  BY SizeIsPositive DEF n
<1>3. i \in 0..(n - 1) /\ i = f % n
  BY <1>2 DEF n
<1>4. /\ DOMAIN ring2 = 0..(n - 1) /\ ring2[i] = t
      /\ \A j \in 0..(n - 1) : j # i => ring2[j] = ring[j]
  BY <1>1, <1>3
<1>5. ASSUME NEW j \in 0..(n - 1)
      PROVE  /\ SlotOf(ring2[j], in2, rd2, o, v2)
             /\ ring2[j].frame # None => ring2[j].frame % n = j
  <2>1. CASE j = i
    <3>1. ring2[j] = t
      BY <1>4, <2>1
    <3> QED BY <1>3, <2>1, <3>1
  <2>2. CASE j # i
    <3>1. ring2[j] = ring[j]
      BY <1>4, <2>2
    <3>2. SlotOf(ring[j], in2, rd2, o, v2)
      BY <2>2 DEF n
    <3>3. ring[j].frame # None => ring[j].frame % n = j
      BY <1>1
    <3> HIDE DEF ring2
    <3> QED BY <3>1, <3>2, <3>3
  <2> QED BY <2>1, <2>2
<1>6. ASSUME NEW c \in Player, NEW g \in o..(rd2[c] - 1) PROVE ring2[g % n].frame = g
  <2>1. g \in Nat /\ g % n \in 0..(n - 1)
    BY <1>2
  <2>2. CASE g = f
    BY <1>3, <1>4, <2>2
  <2>3. CASE g # f
    <3>1. g < rd[c] /\ rd[c] \in Nat
      BY <2>3 DEF Counts
    <3>2. g \in o..(rd[c] - 1)
      BY <2>1, <3>1
    <3>3. ring[g % n].frame = g
      BY <1>1, <3>2
    <3>4. g % n # i
      <4>1. SUFFICES ASSUME g % n = i PROVE FALSE
        OBVIOUS
      <4>2. ring[i].frame = g
        BY <3>3, <4>1
      <4>3. ring[i].frame = f \/ o > ring[i].frame
        BY DEF Ready
      <4> QED BY <2>3, <4>2, <4>3
    <3> QED BY <1>4, <2>1, <3>3, <3>4
  <2> QED BY <2>2, <2>3
<1> HIDE DEF ring2
<1>7. RingOf(p, ring2, in2, rd2, o, v2)
  BY <1>4, <1>5, <1>6 DEF RingOf, n
<1> QED BY <1>7 DEF ring2, n

(* A ring as it should be, and slot i of it, in which frame f goes. *)
RingAt(p, ring, in, rd, o, v, f, i) ==
  /\ p \in Player /\ o \in Nat /\ v \in Nat /\ rd \in Counts
  /\ RingOf(p, ring, in, rd, o, v)
  /\ f \in Nat /\ i = f % Size(p)

(* No input is read of a frame that is not there. *)
NotRead(rd, f) == \A c \in Player : rd[c] <= f

LEMMA UnreadFrame ==
  ASSUME NEW p, NEW ring, NEW in, NEW rd, NEW o, NEW v, NEW f, NEW i,
         RingAt(p, ring, in, rd, o, v, f, i), f >= o, ring[i].frame # f
  PROVE  NotRead(rd, f)
<1> SUFFICES ASSUME NEW c \in Player PROVE rd[c] <= f
  BY DEF NotRead
<1>1. rd[c] \in Nat /\ o \in Nat /\ f \in Nat
  BY DEF Counts, RingAt
<1>2. f < rd[c] => f \in o..(rd[c] - 1)
  BY <1>1
<1>3. f \in o..(rd[c] - 1) => ring[f % Size(p)].frame = f
  BY DEF RingOf, RingAt
<1> QED BY <1>1, <1>2, <1>3 DEF RingAt

SlotAt(s, in, rd, o, v, f) == SlotOf(s, in, rd, o, v) /\ s.frame = f

LEMMA SlotOfRing ==
  ASSUME NEW p, NEW ring, NEW in, NEW rd, NEW o, NEW v, NEW f, NEW i,
         RingAt(p, ring, in, rd, o, v, f, i), MayPrepare(ring[i], f, o, v)
  PROVE  SlotAt(Prepared(ring[i], f), in, rd, o, v, f)
<1> DEFINE s == ring[i]
<1>1. o \in Nat /\ v \in Nat /\ rd \in Counts /\ f \in Nat
  BY DEF RingAt
<1>2. SlotOf(s, in, rd, o, v)
  BY SlotIndex DEF RingAt, RingOf
<1>3. Unread(s, f, rd)
  <2> SUFFICES ASSUME s.frame # f, NEW c \in Player PROVE rd[c] <= f
    BY DEF Unread
  <2>1. f >= o
    BY DEF MayPrepare
  <2>2. NotRead(rd, f)
    BY <2>1, UnreadFrame
  <2> QED BY <2>2 DEF NotRead
<1>4. MayPrepare(s, f, o, v)
  OBVIOUS
<1> HIDE DEF s
<1>5. SlotOf(Prepared(s, f), in, rd, o, v) /\ Prepared(s, f).frame = f
  BY <1>1, <1>2, <1>3, <1>4, SlotPrepared
<1> QED BY <1>5 DEF SlotAt, s

LEMMA RingPrepared ==
  ASSUME NEW p, NEW ring, NEW in, NEW rd, NEW o, NEW v, NEW f, NEW i,
         RingAt(p, ring, in, rd, o, v, f, i), Ready(ring[i], f, o),
         MayPrepare(ring[i], f, o, v)
  PROVE  RingOf(p, [ring EXCEPT ![i] = Prepared(ring[i], f)], in, rd, o, v)
<1>1. \A j \in 0..(Size(p) - 1) : SlotOf(ring[j], in, rd, o, v)
  BY DEF RingAt, RingOf
<1>2. PICK t : t = Prepared(ring[i], f)
  OBVIOUS
<1>3. SlotOf(t, in, rd, o, v) /\ t.frame = f
  BY <1>2, SlotOfRing DEF SlotAt
<1>4. \A c \in Player : \A g \in o..(rd[c] - 1) : g # f => g < rd[c]
  BY DEF RingAt, Counts
<1>5. RingOf(p, [ring EXCEPT ![i] = t], in, rd, o, v)
  BY <1>1, <1>3, <1>4, RingWritten DEF RingAt
<1> QED BY <1>2, <1>5

(* The state of the core is saved in the slot of the frame it runs next.   *)
LEMMA RingSaved ==
  ASSUME NEW p, NEW ring, NEW in, NEW rd, NEW o, NEW r, NEW i,
         RingAt(p, ring, in, rd, o, r, r, i), o <= r, Ready(ring[i], r, o),
         NEW k, r <= o => k = Game(in, r),
         NEW t, WithState(Prepared(ring[i], r), k, t)
  PROVE  RingOf(p, [ring EXCEPT ![i] = t], in, rd, o, r + 1)
<1>0. p \in Player /\ o \in Nat /\ r \in Nat /\ rd \in Counts /\ i = r % Size(p)
  BY DEF RingAt
<1>1. PICK s : s = Prepared(ring[i], r)
  OBVIOUS
<1>2. SlotOf(s, in, rd, o, r) /\ s.frame = r
  <2>1. MayPrepare(ring[i], r, o, r)
    BY <1>0 DEF MayPrepare
  <2> QED BY <1>1, <2>1, SlotOfRing DEF SlotAt
<1>3. WithState(s, k, t)
  BY <1>1
<1>4. SlotOf(t, in, rd, o, r + 1) /\ t.frame = r
  BY <1>0, <1>2, <1>3, SlotSaved
<1>5. ASSUME NEW j \in 0..(Size(p) - 1), j # i
      PROVE  SlotOf(ring[j], in, rd, o, r + 1)
  <2>1. SlotOf(ring[j], in, rd, o, r) /\ (ring[j].frame # None => ring[j].frame % Size(p) = j)
    BY DEF RingAt, RingOf
  <2>2. ring[j].frame # r
    BY <1>0, <1>5, <2>1 DEF None
  <2> QED BY <1>0, <2>1, <2>2, SlotNotSaved
<1>6. \A c \in Player : \A g \in o..(rd[c] - 1) : g # r => g < rd[c]
  BY <1>0 DEF Counts
<1>7. RingOf(p, ring, in, rd, o, r)
  BY DEF RingAt
<1> QED BY <1>0, <1>4, <1>5, <1>6, <1>7, RingWritten

(* The next input of player x is put into the slot of its frame. *)
LEMMA RingReads ==
  ASSUME NEW p, NEW ring, NEW in, NEW rd, NEW o, NEW v, NEW f, NEW i,
         RingAt(p, ring, in, rd, o, v, f, i), Ready(ring[i], f, o),
         MayPrepare(ring[i], f, o, v), ReadOf(in, rd, o),
         in \in Histories, NEW in2 \in Histories, Extends(in, in2),
         NEW x \in Player, f = rd[x], NEW data, data = in2[x][f + 1],
         NEW t, WithReal(Prepared(ring[i], f), x, data, t),
         NEW rd2, ReadOne(rd, x, rd2)
  PROVE  RingOf(p, [ring EXCEPT ![i] = t], in2, rd2, o, v)
<1>0. /\ p \in Player /\ o \in Nat /\ v \in Nat /\ f \in Nat /\ rd \in Counts
      /\ i = f % Size(p) /\ RingOf(p, ring, in, rd, o, v)
  BY DEF RingAt
<1>1. PICK s : s = Prepared(ring[i], f)
  OBVIOUS
<1>2. SlotOf(s, in, rd, o, v) /\ s.frame = f
  BY <1>1, SlotOfRing DEF SlotAt
<1>3. rd2 \in Counts
  BY <1>0 DEF Counts, ReadOne
<1>4. \A c \in Player : rd2[c] = IF c = x THEN rd[c] + 1 ELSE rd[c]
  BY <1>0 DEF Counts, ReadOne
<1>5. SlotOf(t, in2, rd2, o, v) /\ t.frame = f
  <2>1. s.frame = rd[x] /\ data = in2[x][rd[x] + 1] /\ WithReal(s, x, data, t)
    BY <1>1, <1>2
  <2>2. SlotOf(t, in2, rd2, o, v)
    BY <1>0, <1>2, <2>1, SlotReads
  <2> QED BY <1>2, <2>1, <2>2 DEF WithReal
<1>6. ASSUME NEW j \in 0..(Size(p) - 1), j # i
      PROVE  SlotOf(ring[j], in2, rd2, o, v)
  <2>1. PICK w : w = ring[j]
    OBVIOUS
  <2>2. SlotOf(w, in, rd, o, v) /\ (w.frame # None => w.frame % Size(p) = j)
    BY <1>0, <2>1 DEF RingOf
  <2>3. w.frame # f /\ w.frame \in Nat \cup {None}
    BY <1>0, <1>6, <2>2 DEF None, SlotOf, SlotShape
  <2>4. SameRead(w, rd, rd2)
    BY <1>0, <1>4, <2>3 DEF None, SameRead, Counts
  <2>5. SlotOf(w, in2, rd2, o, v)
    BY <1>0, <1>3, <2>2, <2>4, SlotKept
  <2> QED BY <2>1, <2>5
<1>7. \A c \in Player : \A g \in o..(rd2[c] - 1) : g # f => g < rd[c]
  BY <1>0, <1>4 DEF Counts
<1> QED BY <1>0, <1>3, <1>5, <1>6, <1>7, RingWritten

-----------------------------------------------------------------------------
(* The core.  What it has run stays the same while the slots of the frames *)
(* it has run do.                                                          *)
LEMMA CoreKept ==
  ASSUME NEW p \in Player, NEW in \in Histories, NEW in2 \in Histories, Extends(in, in2),
         NEW o \in Nat, Given(in, o), NEW r \in Nat, NEW k, NEW ring, NEW ring2,
         CoreOf(p, ring, in, o, r, k),
         \A g \in o..(r - 1) : /\ ring2[g % Size(p)].state = ring[g % Size(p)].state
                               /\ ring2[g % Size(p)].resolved = ring[g % Size(p)].resolved
  PROVE  CoreOf(p, ring2, in2, o, r, k)
<1> SUFFICES ASSUME NEW f \in o..r
             PROVE  (IF f = r THEN k ELSE ring2[f % Size(p)].state)
                      = [j \in 1..f |-> Played(p, ring2, in2, o, j - 1)]
  BY DEF CoreOf
<1>1. (IF f = r THEN k ELSE ring[f % Size(p)].state)
        = [j \in 1..f |-> Played(p, ring, in, o, j - 1)]
  BY DEF CoreOf
<1>2. (IF f = r THEN k ELSE ring2[f % Size(p)].state)
        = (IF f = r THEN k ELSE ring[f % Size(p)].state)
  OBVIOUS
<1>3. ASSUME NEW j \in 1..f
      PROVE  Played(p, ring2, in2, o, j - 1) = Played(p, ring, in, o, j - 1)
  <2>1. CASE j - 1 < o
    <3>1. ASSUME NEW c \in Player PROVE in2[c][j - 1 + 1] = in[c][j - 1 + 1]
      <4>1. Len(in[c]) \in Nat /\ o <= Len(in[c])
        BY DEF Given, Histories
      <4>2. j - 1 + 1 \in 1..Len(in[c])
        BY <2>1, <4>1
      <4> QED BY <4>2 DEF Extends
    <3> QED BY <2>1, <3>1 DEF Played, Inputs
  <2>2. CASE ~(j - 1 < o)
    <3>1. j - 1 \in o..(r - 1)
      BY <2>2
    <3> QED BY <2>2, <3>1 DEF Played
  <2> QED BY <2>1, <2>2
<1> QED BY <1>1, <1>2, <1>3

(* A slot that is free for frame f, or holds it, may be written for f: no  *)
(* other frame that was run is touched.                                    *)
SameRun(s, t) == t.state = s.state /\ t.resolved = s.resolved

KeepsRun(s, f, r, t) == s.frame = f /\ f < r => SameRun(s, t)

LEMMA CoreElsewhere ==
  ASSUME NEW p, NEW ring, NEW in, NEW rd, NEW o, NEW v, NEW f, NEW i,
         RingAt(p, ring, in, rd, o, v, f, i), Ready(ring[i], f, o),
         in \in Histories, NEW in2 \in Histories, Extends(in, in2), Given(in, o),
         NEW r \in Nat, r <= rd[p], NEW k, CoreOf(p, ring, in, o, r, k),
         NEW t, KeepsRun(ring[i], f, r, t)
  PROVE  CoreOf(p, [ring EXCEPT ![i] = t], in2, o, r, k)
<1> DEFINE n == Size(p)
           ring2 == [ring EXCEPT ![i] = t]
<1> HIDE DEF n
<1>0. /\ p \in Player /\ o \in Nat /\ f \in Nat /\ rd \in Counts
      /\ i = f % n /\ DOMAIN ring = 0..(n - 1)
      /\ \A g \in o..(rd[p] - 1) : ring[g % n].frame = g
  BY DEF RingAt, RingOf, n
<1>1. ASSUME NEW g \in o..(r - 1) PROVE SameRun(ring[g % n], ring2[g % n])
  <2> DEFINE j == g % n
  <2>1. g \in Nat /\ g < r /\ g >= o /\ rd[p] \in Nat
    BY <1>0 DEF Counts
  <2>2. ring[j].frame = g
    BY <1>0, <2>1
  <2>3. j \in DOMAIN ring
    BY <1>0, <2>1, SlotIndex DEF n
  <2> HIDE DEF j
  <2>4. CASE j = i
    <3>1. ring[i].frame = g
      BY <2>2, <2>4
    <3>2. f = g
      BY <1>0, <2>1, <3>1 DEF Ready
    <3>3. ring2[j] = t
      BY <2>3, <2>4
    <3> HIDE DEF ring2
    <3> QED BY <2>1, <2>4, <3>1, <3>2, <3>3 DEF j, KeepsRun
  <2>5. CASE j # i
    <3>1. ring2[j] = ring[j]
      BY <2>3, <2>5
    <3> HIDE DEF ring2
    <3> QED BY <3>1 DEF SameRun, j
  <2> QED BY <2>4, <2>5
<1> HIDE DEF ring2
<1>2. \A g \in o..(r - 1) : /\ ring2[g % Size(p)].state = ring[g % Size(p)].state
                            /\ ring2[g % Size(p)].resolved = ring[g % Size(p)].resolved
  BY <1>1 DEF SameRun, n
<1>3. CoreOf(p, ring2, in2, o, r, k)
  BY <1>0, <1>2, CoreKept
<1> QED BY <1>3 DEF ring2

-----------------------------------------------------------------------------
(* A peer.  What holds of it stays true when others give input;            *)
LEMMA PeerKept ==
  ASSUME NEW p \in Player, NEW poll, NEW s \in Nat, NEW r \in Nat, NEW o \in Nat,
         NEW rd \in Counts, NEW ring, NEW k, NEW in \in Histories, NEW in2 \in Histories,
         PeerOf(p, poll, s, r, o, rd, ring, k, in),
         Extends(in, in2), in2[p] = in[p]
  PROVE  PeerOf(p, poll, s, r, o, rd, ring, k, in2)
<1>1. ReadOf(in, rd, o)
  BY DEF PeerOf, CountsOf
<1>2. Given(in, o) /\ ReadOf(in2, rd, o)
  <2>1. \A c \in Player : Len(in[c]) \in Nat /\ Len(in2[c]) \in Nat /\ rd[c] \in Nat
    BY DEF Histories, Counts
  <2> QED BY <1>1, <2>1 DEF ReadOf, Given, Extends
<1>3. CountsOf(p, poll, s, r, o, rd, in2)
  BY <1>2 DEF PeerOf, CountsOf
<1>4. CoreOf(p, ring, in2, o, r, k)
  <2>1. CoreOf(p, ring, in, o, r, k)
    BY DEF PeerOf
  <2> QED BY <1>2, <2>1, CoreKept
<1>5. RingOf(p, ring, in2, rd, o, IF poll THEN r + 1 ELSE r)
  <2>1. PICK v \in Nat : v = IF poll THEN r + 1 ELSE r
    OBVIOUS
  <2>2. RingOf(p, ring, in, rd, o, v)
    BY <2>1 DEF PeerOf
  <2>3. ASSUME NEW j \in 0..(Size(p) - 1) PROVE SlotOf(ring[j], in2, rd, o, v)
    <3>1. PICK w : w = ring[j]
      OBVIOUS
    <3>2. SlotOf(w, in, rd, o, v)
      BY <2>2, <3>1 DEF RingOf
    <3>3. SameRead(w, rd, rd)
      BY DEF SameRead
    <3>4. SlotOf(w, in2, rd, o, v)
      BY <1>1, <3>2, <3>3, SlotKept
    <3> QED BY <3>1, <3>4
  <2>4. RingOf(p, ring, in2, rd, o, v)
    BY <2>2, <2>3 DEF RingOf
  <2> QED BY <2>1, <2>4
<1> QED BY <1>3, <1>4, <1>5 DEF PeerOf

(* before a frame, when the state is saved,                                *)
SavedOf(p, s, r, o, rd, ring, k, in) ==
  /\ CountsOf(p, FALSE, s, r, o, rd, in)
  /\ RingOf(p, ring, in, rd, o, r + 1)
  /\ CoreOf(p, ring, in, o, r, k)
  /\ ring[r % Size(p)].frame = r /\ ring[r % Size(p)].state = k

LEMMA PreSaves ==
  ASSUME NEW p \in Player, NEW s \in Nat, NEW r \in Nat, NEW o \in Nat,
         NEW rd \in Counts, NEW ring, NEW k, NEW in \in Histories,
         PeerOf(p, FALSE, s, r, o, rd, ring, k, in),
         NEW i, i = r % Size(p), Ready(ring[i], r, o),
         NEW t, WithState(Prepared(ring[i], r), k, t),
         NEW ring2, ring2 = [ring EXCEPT ![i] = t]
  PROVE  SavedOf(p, s, r, o, rd, ring2, k, in)
<1>1. CountsOf(p, FALSE, s, r, o, rd, in) /\ RingOf(p, ring, in, rd, o, r)
      /\ CoreOf(p, ring, in, o, r, k)
  BY DEF PeerOf
<1>2. RingAt(p, ring, in, rd, o, r, r, i)
  BY <1>1 DEF RingAt
<1>3. o <= r /\ r <= rd[p] /\ rd[p] \in Nat
  BY <1>1 DEF CountsOf, Counts
<1>4. r <= o => k = Game(in, r)
  <2> SUFFICES ASSUME r = o PROVE k = Game(in, r)
    BY <1>3
  <2>1. k = [j \in 1..r |-> Played(p, ring, in, o, j - 1)]
    BY <1>1 DEF CoreOf
  <2>2. \A j \in 1..r : Played(p, ring, in, o, j - 1) = Inputs(in, j - 1)
    BY DEF Played
  <2> QED BY <2>1, <2>2 DEF Game
<1>5. RingOf(p, ring2, in, rd, o, r + 1)
  BY <1>2, <1>3, <1>4, RingSaved
<1>6. CoreOf(p, ring2, in, o, r, k)
  <2>1. Extends(in, in) /\ Given(in, o)
    <3>1. \A c \in Player : Len(in[c]) \in Nat /\ rd[c] \in Nat
      BY DEF Histories, Counts
    <3> QED BY <1>1, <3>1 DEF CountsOf, ReadOf, Given, Extends
  <2>2. KeepsRun(ring[i], r, r, t)
    BY DEF KeepsRun
  <2> QED BY <1>1, <1>2, <1>3, <2>1, <2>2, CoreElsewhere
<1>7. ring2[i] = t
  <2>1. i \in DOMAIN ring
    BY <1>1, SlotIndex DEF RingOf
  <2> QED BY <2>1
<1>8. t.frame = r /\ t.state = k
  <2>1. MayPrepare(ring[i], r, o, r)
    BY <1>3 DEF MayPrepare
  <2>2. Prepared(ring[i], r).frame = r
    BY <1>2, <2>1, SlotOfRing DEF SlotAt
  <2> QED BY <2>2 DEF WithState
<1> QED BY <1>1, <1>5, <1>6, <1>7, <1>8 DEF SavedOf

LEMMA StateElsewhere ==
  ASSUME NEW p, NEW ring, NEW in, NEW rd, NEW o, NEW v, NEW f, NEW i,
         RingAt(p, ring, in, rd, o, v, f, i), Ready(ring[i], f, o),
         NEW r \in Nat, o <= r, ring[r % Size(p)].frame = r,
         NEW t, KeepsRun(ring[i], f, r + 1, t)
  PROVE  [ring EXCEPT ![i] = t][r % Size(p)].state = ring[r % Size(p)].state
<1>0. /\ p \in Player /\ o \in Nat /\ f \in Nat /\ i = f % Size(p)
      /\ DOMAIN ring = 0..(Size(p) - 1)
  BY DEF RingAt, RingOf
<1>1. PICK j : j = r % Size(p)
  OBVIOUS
<1>2. CASE f = r
  <2>1. [ring EXCEPT ![i] = t][i] = t
    BY <1>0, SlotIndex
  <2>2. i = j /\ ring[i].frame = f /\ f < r + 1
    BY <1>0, <1>1, <1>2
  <2>3. t.state = ring[i].state
    BY <2>2 DEF KeepsRun, SameRun
  <2> QED BY <1>1, <2>1, <2>2, <2>3
<1>3. CASE f # r
  <2>1. ring[j].frame = r
    BY <1>1
  <2>2. i # j
    BY <1>0, <1>3, <2>1 DEF Ready
  <2>3. j \in DOMAIN ring
    BY <1>0, <1>1, SlotIndex
  <2> QED BY <1>1, <2>2, <2>3
<1> QED BY <1>2, <1>3

(* and when the local input of frame s was read already,                   *)
LEMMA PreKeeps ==
  ASSUME NEW p \in Player, NEW s \in Nat, NEW r \in Nat, NEW o \in Nat,
         NEW rd \in Counts, NEW ring, NEW k, NEW in \in Histories,
         SavedOf(p, s, r, o, rd, ring, k, in),
         NEW j, j = s % Size(p), Ready(ring[j], s, o),
         NEW t, t = Prepared(ring[j], s), t.real[p] # NoInput,
         NEW ring2, ring2 = [ring EXCEPT ![j] = t]
  PROVE  PeerOf(p, TRUE, s, r, o, rd, ring2, k, in)
<1>1. RingAt(p, ring, in, rd, o, r + 1, s, j)
  BY DEF RingAt, SavedOf
<1>2. o <= r /\ r <= s /\ r <= rd[p] /\ rd[p] \in s..(s + 1)
  BY DEF SavedOf, CountsOf, Counts
<1>3. MayPrepare(ring[j], s, o, r + 1)
  BY <1>2 DEF MayPrepare, SavedOf
<1>4. RingOf(p, ring2, in, rd, o, r + 1)
  BY <1>1, <1>3, RingPrepared
<1>5. KeepsRun(ring[j], s, r + 1, t)
  BY DEF KeepsRun, SameRun, Prepared
<1>6. CoreOf(p, ring2, in, o, r, k)
  <2>1. Extends(in, in) /\ Given(in, o)
    <3>1. \A c \in Player : Len(in[c]) \in Nat /\ rd[c] \in Nat
      BY DEF Histories, Counts
    <3> QED BY <3>1 DEF SavedOf, CountsOf, ReadOf, Given, Extends
  <2>2. KeepsRun(ring[j], s, r, t)
    BY DEF KeepsRun, SameRun, Prepared
  <2>3. CoreOf(p, ring, in, o, r, k)
    BY DEF SavedOf
  <2> QED BY <1>1, <1>2, <2>1, <2>2, <2>3, CoreElsewhere
<1>7. ring2[r % Size(p)].state = k
  <2>1. ring[r % Size(p)].frame = r /\ ring[r % Size(p)].state = k
    BY DEF SavedOf
  <2> QED BY <1>1, <1>2, <1>5, <2>1, StateElsewhere
<1>8. rd[p] = s + 1
  <2>1. SlotOf(t, in, rd, o, r + 1) /\ t.frame = s
    BY <1>1, <1>3, SlotOfRing DEF SlotAt
  <2>2. s < rd[p]
    BY <1>2, <2>1 DEF SlotOf, RealOf
  <2> QED BY <1>2, <2>2
<1>9. CountsOf(p, TRUE, s, r, o, rd, in)
  BY <1>8 DEF SavedOf, CountsOf
<1> QED BY <1>4, <1>6, <1>7, <1>9 DEF PeerOf

(* or is read now;                                                         *)
Pressing(p, s, x, rd, rd2, in, in2) ==
  rd2 = [rd EXCEPT ![p] = s + 1] /\ in2 = [in EXCEPT ![p] = Append(@, x)]

HasPressed(p, s, r, o, rd2, ring2, k, in, in2) ==
  /\ PeerOf(p, TRUE, s, r, o, rd2, ring2, k, in2)
  /\ rd2 \in Counts /\ in2 \in Histories /\ Extends(in, in2)

LEMMA PreReads ==
  ASSUME NEW p \in Player, NEW s \in Nat, NEW r \in Nat, NEW o \in Nat,
         NEW rd \in Counts, NEW ring, NEW k, NEW in \in Histories,
         SavedOf(p, s, r, o, rd, ring, k, in),
         NEW j, j = s % Size(p), Ready(ring[j], s, o),
         Prepared(ring[j], s).real[p] = NoInput, NEW x \in Pressed,
         NEW t, WithReal(Prepared(ring[j], s), p, x, t),
         NEW ring2, ring2 = [ring EXCEPT ![j] = t],
         NEW rd2, NEW in2, Pressing(p, s, x, rd, rd2, in, in2)
  PROVE  HasPressed(p, s, r, o, rd2, ring2, k, in, in2)
<1>0. rd2 = [rd EXCEPT ![p] = s + 1] /\ in2 = [in EXCEPT ![p] = Append(@, x)]
  BY DEF Pressing
<1>1. RingAt(p, ring, in, rd, o, r + 1, s, j)
  BY DEF RingAt, SavedOf
<1>2. o <= r /\ r <= s /\ r <= rd[p] /\ rd[p] \in s..(s + 1) /\ Len(in[p]) = rd[p]
  BY DEF SavedOf, CountsOf, Counts
<1>3. MayPrepare(ring[j], s, o, r + 1)
  BY <1>2 DEF MayPrepare, SavedOf
<1>4. \A c \in Player : in[c] \in Seq(Pressed) /\ Len(in[c]) \in Nat
  BY DEF Histories
<1>5. rd[p] = s
  <2>1. PICK w : w = Prepared(ring[j], s)
    OBVIOUS
  <2>2. SlotOf(w, in, rd, o, r + 1) /\ w.frame = s
    BY <1>1, <1>3, <2>1, SlotOfRing DEF SlotAt
  <2>3. w.real[p] = IF s < rd[p] THEN in[p][s + 1] ELSE NoInput
    BY <1>2, <2>2 DEF SlotOf, RealOf
  <2>4. s < rd[p] => in[p][s + 1] \in Pressed
    BY <1>2, <1>4
  <2> QED BY <1>2, <2>1, <2>3, <2>4, NoInputPressed
<1>6. ReadOne(rd, p, rd2) /\ rd2 \in Counts
  BY <1>0, <1>5 DEF ReadOne, Counts
<1>7. /\ in2 \in Histories /\ Len(in2[p]) = s + 1 /\ in2[p][s + 1] = x
      /\ \A l \in 1..s : in2[p][l] = in[p][l]
      /\ \A c \in Player : c # p => in2[c] = in[c]
  <2>1. in2[p] = Append(in[p], x) /\ \A c \in Player : c # p => in2[c] = in[c]
    BY <1>0 DEF Histories
  <2>2. in2 \in Histories
    BY <1>0, <1>4 DEF Histories
  <2>3. /\ Len(Append(in[p], x)) = s + 1 /\ Append(in[p], x)[s + 1] = x
        /\ \A l \in 1..s : Append(in[p], x)[l] = in[p][l]
    BY <1>2, <1>4, <1>5
  <2> QED BY <2>1, <2>2, <2>3
<1>8. Extends(in, in2)
  <2> SUFFICES ASSUME NEW c \in Player
               PROVE  /\ Len(in[c]) <= Len(in2[c])
                      /\ \A l \in 1..Len(in[c]) : in2[c][l] = in[c][l]
    BY DEF Extends
  <2>1. CASE c = p
    BY <1>2, <1>5, <1>7, <2>1
  <2>2. CASE c # p
    BY <1>4, <1>7, <2>2
  <2> QED BY <2>1, <2>2
<1>9. Given(in, o) /\ ReadOf(in, rd, o)
  <2>1. \A c \in Player : rd[c] \in Nat
    BY DEF Counts
  <2> QED BY <1>4, <2>1 DEF SavedOf, CountsOf, ReadOf, Given
<1>10. RingOf(p, ring2, in2, rd2, o, r + 1)
  BY <1>1, <1>3, <1>5, <1>6, <1>7, <1>8, <1>9, RingReads
<1>11. KeepsRun(ring[j], s, r, t) /\ KeepsRun(ring[j], s, r + 1, t)
  BY DEF KeepsRun, SameRun, Prepared, WithReal
<1>12. CoreOf(p, ring2, in2, o, r, k)
  <2>1. CoreOf(p, ring, in, o, r, k)
    BY DEF SavedOf
  <2> QED BY <1>1, <1>2, <1>7, <1>8, <1>9, <1>11, <2>1, CoreElsewhere
<1>13. ring2[r % Size(p)].state = k
  <2>1. ring[r % Size(p)].frame = r /\ ring[r % Size(p)].state = k
    BY DEF SavedOf
  <2> QED BY <1>1, <1>2, <1>11, <2>1, StateElsewhere
<1>14. CountsOf(p, TRUE, s, r, o, rd2, in2)
  <2>1. rd2[p] = s + 1 /\ \A c \in Player : c # p => rd2[c] = rd[c]
    BY <1>0 DEF Counts
  <2>2. ReadOf(in2, rd2, o)
    BY <1>2, <1>7, <1>9, <2>1 DEF ReadOf
  <2> QED BY <1>2, <1>7, <2>1, <2>2 DEF CountsOf
<1> QED BY <1>2, <1>5, <1>6, <1>7, <1>8, <1>10, <1>12, <1>13, <1>14 DEF PeerOf, HasPressed

(* when an input of another player c is read;                              *)
ReadTo(rd, c, f, rd2) == rd2 = [rd EXCEPT ![c] = f + 1]

PollOf(p, s, r, o, rd2, ring2, k, in) ==
  rd2 \in Counts /\ PeerOf(p, TRUE, s, r, o, rd2, ring2, k, in)

LEMMA PollReads ==
  ASSUME NEW p \in Player, NEW s \in Nat, NEW r \in Nat, NEW o \in Nat,
         NEW rd \in Counts, NEW ring, NEW k, NEW in \in Histories,
         PeerOf(p, TRUE, s, r, o, rd, ring, k, in),
         NEW c \in Player, c # p, NEW f, f = rd[c], f < Len(in[c]),
         NEW i, i = f % Size(p), Ready(ring[i], f, o),
         NEW x, x = in[c][f + 1], NEW t, WithReal(Prepared(ring[i], f), c, x, t),
         NEW ring2, ring2 = [ring EXCEPT ![i] = t],
         NEW rd2, ReadTo(rd, c, f, rd2)
  PROVE  PollOf(p, s, r, o, rd2, ring2, k, in)
<1>0. /\ CountsOf(p, TRUE, s, r, o, rd, in) /\ RingOf(p, ring, in, rd, o, r + 1)
      /\ CoreOf(p, ring, in, o, r, k) /\ ring[r % Size(p)].state = k
  BY DEF PeerOf
<1>1. RingAt(p, ring, in, rd, o, r + 1, f, i)
  BY <1>0 DEF RingAt, Counts
<1>2. o <= r /\ r <= s /\ rd[p] = s + 1 /\ ReadOf(in, rd, o) /\ f \in Nat /\ o <= f
  BY <1>0 DEF CountsOf, Counts, ReadOf
<1>3. \A g \in o..s : ring[g % Size(p)].frame = g
  BY <1>0, <1>2 DEF RingOf
<1>4. f <= s => ring[i].frame = f
  BY <1>2, <1>3
<1>5. MayPrepare(ring[i], f, o, r + 1)
  BY <1>2, <1>4 DEF MayPrepare
<1>6. ReadOne(rd, c, rd2) /\ rd2 \in Counts
  BY <1>2 DEF ReadOne, ReadTo, Counts
<1>7. Extends(in, in) /\ Given(in, o)
  <2>1. \A d \in Player : Len(in[d]) \in Nat /\ rd[d] \in Nat
    BY DEF Histories, Counts
  <2> QED BY <1>2, <2>1 DEF ReadOf, Given, Extends
<1>8. RingOf(p, ring2, in, rd2, o, r + 1)
  BY <1>1, <1>2, <1>5, <1>6, <1>7, RingReads
<1>9. KeepsRun(ring[i], f, r, t) /\ KeepsRun(ring[i], f, r + 1, t)
  BY DEF KeepsRun, SameRun, Prepared, WithReal
<1>10. CoreOf(p, ring2, in, o, r, k)
  <2>1. r <= rd[p]
    BY <1>2
  <2> QED BY <1>0, <1>1, <1>7, <1>9, <2>1, CoreElsewhere
<1>11. ring2[r % Size(p)].state = k
  <2>1. ring[r % Size(p)].frame = r
    BY <1>2, <1>3
  <2> QED BY <1>0, <1>1, <1>2, <1>9, <2>1, StateElsewhere
<1>12. CountsOf(p, TRUE, s, r, o, rd2, in)
  <2>1. rd2[p] = rd[p] /\ rd2[c] = f + 1 /\ \A d \in Player : d # c => rd2[d] = rd[d]
    BY DEF Counts, ReadTo
  <2>2. Len(in[c]) \in Nat
    BY DEF Histories
  <2>3. ReadOf(in, rd2, o)
    BY <1>2, <2>1, <2>2 DEF ReadOf
  <2> QED BY <1>0, <2>1, <2>3 DEF CountsOf
<1> QED BY <1>6, <1>8, <1>10, <1>11, <1>12 DEF PeerOf, PollOf

(* and when a check is kept for a frame that is not final.                 *)
InSlot(p, f, i) == f \in Nat /\ i = f % Size(p)

LEMMA PollKeepsCrc ==
  ASSUME NEW p \in Player, NEW s \in Nat, NEW r \in Nat, NEW o \in Nat,
         NEW rd \in Counts, NEW ring, NEW k, NEW in \in Histories,
         PeerOf(p, TRUE, s, r, o, rd, ring, k, in),
         NEW f, NEW i, InSlot(p, f, i), Given(in, f), ring[i].frame = f,
         NEW t, WithCrc(ring[i], Game(in, f), t),
         NEW ring2, ring2 = [ring EXCEPT ![i] = t]
  PROVE  PeerOf(p, TRUE, s, r, o, rd, ring2, k, in)
<1>0. /\ f \in Nat /\ i = f % Size(p)
      /\ CountsOf(p, TRUE, s, r, o, rd, in) /\ RingOf(p, ring, in, rd, o, r + 1)
      /\ CoreOf(p, ring, in, o, r, k) /\ ring[r % Size(p)].state = k
  BY DEF PeerOf, InSlot
<1>1. RingAt(p, ring, in, rd, o, r + 1, f, i) /\ Ready(ring[i], f, o)
  BY <1>0 DEF RingAt, Ready
<1>2. o <= r /\ r <= s /\ rd[p] = s + 1 /\ ReadOf(in, rd, o)
  BY <1>0 DEF CountsOf
<1>3. Extends(in, in) /\ Given(in, o)
  <2>1. \A d \in Player : Len(in[d]) \in Nat /\ rd[d] \in Nat
    BY DEF Histories, Counts
  <2> QED BY <1>2, <2>1 DEF ReadOf, Given, Extends
<1>4. SlotOf(t, in, rd, o, r + 1) /\ t.frame = f
  <2>1. SlotOf(ring[i], in, rd, o, r + 1)
    BY <1>0, SlotIndex DEF RingOf
  <2>2. RealOf(t, in, rd, o) /\ StateOf(t, in, o, r + 1) /\ SlotShape(t)
    BY <2>1 DEF SlotOf, RealOf, StateOf, WithCrc
  <2>3. CrcOf(t, in)
    BY <1>0 DEF CrcOf, WithCrc, None
  <2> QED BY <2>2, <2>3 DEF SlotOf, WithCrc
<1>5. RingOf(p, ring2, in, rd, o, r + 1)
  <2>1. \A j \in 0..(Size(p) - 1) : SlotOf(ring[j], in, rd, o, r + 1)
    BY <1>0 DEF RingOf
  <2>2. \A c \in Player : \A g \in o..(rd[c] - 1) : g # f => g < rd[c]
    BY <1>0 DEF Counts
  <2> QED BY <1>0, <1>1, <1>4, <2>1, <2>2, RingWritten
<1>6. KeepsRun(ring[i], f, r, t) /\ KeepsRun(ring[i], f, r + 1, t)
  BY DEF KeepsRun, SameRun, WithCrc
<1>7. CoreOf(p, ring2, in, o, r, k)
  <2>1. r <= rd[p]
    BY <1>2
  <2> QED BY <1>0, <1>1, <1>3, <1>6, <2>1, CoreElsewhere
<1>8. ring2[r % Size(p)].state = k
  <2>1. ring[r % Size(p)].frame = r
    BY <1>0, <1>2 DEF RingOf
  <2> QED BY <1>0, <1>1, <1>2, <1>6, <2>1, StateElsewhere
<1> QED BY <1>0, <1>5, <1>7, <1>8 DEF PeerOf

(* The state of a frame that is final is that of the game. *)
IsFinal(ring, i, f, o) == f <= o /\ ring[i].frame = f

StateIsGame(ring, i, in, f) == ring[i].state = Game(in, f)

LEMMA FinalState ==
  ASSUME NEW p \in Player, NEW s \in Nat, NEW r \in Nat, NEW o \in Nat,
         NEW rd, NEW ring, NEW k, NEW in,
         PeerOf(p, TRUE, s, r, o, rd, ring, k, in),
         NEW f, NEW i, InSlot(p, f, i), IsFinal(ring, i, f, o)
  PROVE  StateIsGame(ring, i, in, f)
<1>1. RingOf(p, ring, in, rd, o, r + 1) /\ o <= r
  BY DEF PeerOf, CountsOf
<1>2. SlotOf(ring[i], in, rd, o, r + 1)
  BY <1>1, SlotIndex DEF RingOf, InSlot
<1> QED BY <1>1, <1>2 DEF SlotOf, StateOf, None, InSlot, IsFinal, StateIsGame

-----------------------------------------------------------------------------
(* The end of a poll.  Frame r is resolved, and run unless the peer        *)
(* stalls: run1 is the frame that is run next, core1 its state.  The slots *)
(* keep what they hold, all of the frames before run1 are there, and the   *)
(* core has been run with what was resolved for them.                      *)
RanOf(p, ring, in, rd, o, r, run1, core1) ==
  /\ RingOf(p, ring, in, rd, o, r + 1)
  /\ CoreOf(p, ring, in, o, run1, core1)
  /\ o <= run1 /\ run1 <= r + 1 /\ r + 1 <= rd[p] /\ o <= r
  /\ ReadOf(in, rd, o)

RunsOrNot(r, k, t, run1, core1) ==
  \/ run1 = r /\ core1 = k
  \/ run1 = r + 1 /\ core1 = Append(k, t.resolved)

LEMMA PostRuns ==
  ASSUME NEW p \in Player, NEW s \in Nat, NEW r \in Nat, NEW o \in Nat,
         NEW rd \in Counts, NEW ring, NEW k, NEW in \in Histories,
         PeerOf(p, TRUE, s, r, o, rd, ring, k, in),
         NEW i, InSlot(p, r, i), NEW t, IsResolved(ring[i], t),
         NEW ring2, ring2 = [ring EXCEPT ![i] = t],
         NEW run1, NEW core1, RunsOrNot(r, k, t, run1, core1)
  PROVE  RanOf(p, ring2, in, rd, o, r, run1, core1)
<1>0. /\ i = r % Size(p)
      /\ CountsOf(p, TRUE, s, r, o, rd, in) /\ RingOf(p, ring, in, rd, o, r + 1)
      /\ CoreOf(p, ring, in, o, r, k) /\ ring[i].state = k
  BY DEF PeerOf, InSlot
<1>2. o <= r /\ r <= s /\ rd[p] = s + 1 /\ ReadOf(in, rd, o) /\ r <= rd[p]
  BY <1>0 DEF CountsOf
<1>3. ring[i].frame = r
  BY <1>0, <1>2 DEF RingOf
<1>1. RingAt(p, ring, in, rd, o, r + 1, r, i) /\ Ready(ring[i], r, o)
  BY <1>0, <1>3 DEF RingAt, Ready
<1>4. SlotOf(t, in, rd, o, r + 1) /\ t.frame = r
  <2>1. SlotOf(ring[i], in, rd, o, r + 1)
    BY <1>0, SlotIndex DEF RingOf
  <2> QED BY <1>3, <2>1 DEF SlotOf, RealOf, StateOf, CrcOf, IsResolved
<1>5. RingOf(p, ring2, in, rd, o, r + 1)
  <2>1. \A j \in 0..(Size(p) - 1) : SlotOf(ring[j], in, rd, o, r + 1)
    BY <1>0 DEF RingOf
  <2>2. \A c \in Player : \A g \in o..(rd[c] - 1) : g # r => g < rd[c]
    BY DEF Counts
  <2> QED BY <1>0, <1>1, <1>4, <2>1, <2>2, RingWritten
<1>6. CoreOf(p, ring2, in, o, r, k)
  <2>1. Extends(in, in) /\ Given(in, o)
    <3>1. \A d \in Player : Len(in[d]) \in Nat /\ rd[d] \in Nat
      BY DEF Histories, Counts
    <3> QED BY <1>2, <3>1 DEF ReadOf, Given, Extends
  <2>2. KeepsRun(ring[i], r, r, t)
    BY DEF KeepsRun
  <2> QED BY <1>0, <1>1, <1>2, <2>1, <2>2, CoreElsewhere
<1>7. ring2[i] = t
  BY <1>0, SlotIndex DEF RingOf
<1>8. t.state = k
  BY <1>0 DEF IsResolved
<1>9. CASE run1 = r /\ core1 = k
  <2>1. o <= run1 /\ run1 <= r + 1 /\ r + 1 <= rd[p]
    BY <1>2, <1>9
  <2> QED BY <1>2, <1>5, <1>6, <1>9, <2>1 DEF RanOf
<1>10. CASE run1 = r + 1 /\ core1 = Append(k, t.resolved)
  <2> DEFINE g(j) == Played(p, ring2, in, o, j - 1)
  <2>1. k = [j \in 1..r |-> g(j)]
    <3>1. r \in o..r
      BY <1>2
    <3> QED BY <1>6, <3>1 DEF CoreOf
  <2>2. g(r + 1) = t.resolved
    <3>1. r + 1 - 1 = r /\ ~(r < o)
      BY <1>2
    <3> QED BY <1>0, <1>7, <3>1 DEF Played
  <2>3. core1 = [j \in 1..(r + 1) |-> g(j)]
    <3> HIDE DEF g
    <3>1. k = [j \in 1..r |-> k[j]]
      BY <2>1
    <3>2. core1 = [j \in 1..(r + 1) |-> IF j <= r THEN k[j] ELSE t.resolved]
      BY <1>10, <3>1, AppendToFunction
    <3>3. ASSUME NEW j \in 1..(r + 1)
          PROVE  (IF j <= r THEN k[j] ELSE t.resolved) = g(j)
      <4>1. j \in 1..r \/ j = r + 1
        OBVIOUS
      <4>2. CASE j \in 1..r
        BY <2>1, <4>2
      <4>3. CASE j = r + 1
        BY <2>2, <4>3
      <4> QED BY <4>1, <4>2, <4>3
    <3> QED BY <3>2, <3>3
  <2>4. ring2[r % Size(p)].state = k
    BY <1>0, <1>7, <1>8
  <2>5. CoreOf(p, ring2, in, o, run1, core1)
    <3> SUFFICES ASSUME NEW f \in o..run1
                 PROVE  (IF f = run1 THEN core1 ELSE ring2[f % Size(p)].state)
                          = [j \in 1..f |-> g(j)]
      BY DEF CoreOf
    <3>0. f \in o..(r - 1) \/ f = r \/ f = r + 1
      BY <1>2, <1>10
    <3>1. CASE f = r + 1
      BY <1>10, <2>3, <3>1
    <3>2. CASE f = r
      <4>1. f # run1
        BY <1>10, <3>2
      <4> HIDE DEF g
      <4> QED BY <2>1, <2>4, <3>2, <4>1
    <3>3. CASE f \in o..(r - 1)
      <4>1. f # run1 /\ f # r /\ f \in o..r
        BY <1>10, <3>3
      <4> QED BY <1>6, <4>1 DEF CoreOf
    <3> QED BY <3>0, <3>1, <3>2, <3>3
  <2> QED BY <1>2, <1>5, <1>10, <2>5 DEF RanOf
<1> QED BY <1>9, <1>10 DEF RunsOrNot

(* The frames that are not final are resolved again, and replayed from the *)
(* first whose input changed.                                              *)
AgainOf(p, b, o, run1, again) ==
  /\ DOMAIN again = o..(run1 - 1)
  /\ \A f \in o..(run1 - 1) : IsResolved(b[f % Size(p)], again[f])

FirstOf(p, b, o, run1, again, first) ==
  /\ first \in o..run1
  /\ \A f \in o..(first - 1) : again[f].resolved = b[f % Size(p)].resolved

Rewound(b, again, first, state) ==
  [i \in DOMAIN b |->
     LET f == b[i].frame IN
     IF f \notin DOMAIN again THEN b[i]
     ELSE IF f < first THEN again[f]
     ELSE [again[f] EXCEPT !.state = state[f]]]

(* the inputs with which frames are run, then                              *)
Rerun(in, o, again, j) == IF j < o THEN Inputs(in, j) ELSE again[j].resolved

(* a slot of such a frame                                                  *)
SlotRewound(w, a, x, t) ==
  /\ SlotShape(t) /\ t.frame = w.frame /\ t.crc = w.crc /\ t.real = w.real
  /\ t.state = x /\ t.resolved = a.resolved

(* the states at the frames, up to the first replayed and from it on       *)
StatesRerun(p, b, in, o, run1, core1, again, first, state) ==
  /\ \A f \in o..run1 : f <= first =>
       (IF f = run1 THEN core1 ELSE b[f % Size(p)].state)
         = [j \in 1..f |-> Rerun(in, o, again, j - 1)]
  /\ first < run1 => \A f \in first..run1 :
       state[f] = [j \in 1..f |-> Rerun(in, o, again, j - 1)]

LEMMA ReplayedStates ==
  ASSUME NEW p \in Player, NEW o \in Nat, NEW r \in Nat, NEW run1 \in Nat,
         NEW rd \in Counts, NEW b, NEW core1, NEW in \in Histories,
         RanOf(p, b, in, rd, o, r, run1, core1),
         NEW again, AgainOf(p, b, o, run1, again),
         NEW first, FirstOf(p, b, o, run1, again, first),
         NEW state, first < run1 => state = Replayed(p, b, again, first, run1)
  PROVE  StatesRerun(p, b, in, o, run1, core1, again, first, state)
<1> DEFINE h(j) == Rerun(in, o, again, j - 1)
<1>0. first \in Nat /\ o <= first /\ first <= run1
  BY DEF FirstOf
<1>1. ASSUME NEW j \in 1..first PROVE Played(p, b, in, o, j - 1) = h(j)
  <2>1. CASE j - 1 < o
    BY <2>1 DEF Played, Rerun
  <2>2. CASE ~(j - 1 < o)
    <3>1. j - 1 \in o..(first - 1)
      BY <1>0, <2>2
    <3>2. again[j - 1].resolved = b[(j - 1) % Size(p)].resolved
      BY <3>1 DEF FirstOf
    <3> QED BY <2>2, <3>2 DEF Played, Rerun
  <2> QED BY <2>1, <2>2
<1>2. ASSUME NEW f \in o..run1, f <= first
      PROVE  (IF f = run1 THEN core1 ELSE b[f % Size(p)].state) = [j \in 1..f |-> h(j)]
  <2>1. (IF f = run1 THEN core1 ELSE b[f % Size(p)].state)
          = [j \in 1..f |-> Played(p, b, in, o, j - 1)]
    BY DEF RanOf, CoreOf
  <2>2. \A j \in 1..f : Played(p, b, in, o, j - 1) = h(j)
    <3>1. \A j \in 1..f : j \in 1..first
      BY <1>0, <1>2
    <3> HIDE DEF h
    <3> QED BY <1>1, <3>1
  <2> HIDE DEF h
  <2> QED BY <2>1, <2>2
<1>3. ASSUME first < run1, NEW f \in first..run1 PROVE state[f] = [j \in 1..f |-> h(j)]
  <2> DEFINE m == f - first
             e == b[first % Size(p)].state
             g == [k \in 1..m |-> again[first + k - 1].resolved]
  <2>1. e = [j \in 1..first |-> h(j)]
    <3>1. first \in o..run1 /\ first <= first /\ first # run1
      BY <1>0, <1>3
    <3> HIDE DEF h
    <3> QED BY <1>2, <3>1
  <2>2. state[f] = e \o g
    BY <1>3 DEF Replayed
  <2>3. m \in Nat /\ f = first + m
    BY <1>0
  <2>4. ASSUME NEW k \in 1..m PROVE g[k] = h(first + k)
    <3>1. first + k - 1 = (first + k) - 1 /\ ~((first + k) - 1 < o)
      BY <1>0, <2>3
    <3> QED BY <3>1 DEF Rerun
  <2>5. e = [j \in 1..first |-> e[j]]
    <3> HIDE DEF h, e
    <3> QED BY <2>1
  <2>6. g = [j \in 1..m |-> g[j]]
    OBVIOUS
  <2>7. e \o g = [k \in 1..(first + m) |-> IF k <= first THEN e[k] ELSE g[k - first]]
    <3> HIDE DEF e, g, m
    <3> QED BY <1>0, <2>3, <2>5, <2>6, ConcatOfFunctions
  <2> HIDE DEF e, g, h, m
  <2>8. ASSUME NEW k \in 1..f
        PROVE  (IF k <= first THEN e[k] ELSE g[k - first]) = h(k)
    <3>1. CASE k <= first
      <4>1. k \in 1..first
        BY <1>0, <3>1
      <4> QED BY <2>1, <3>1, <4>1
    <3>2. CASE ~(k <= first)
      <4>1. PICK l : l = k - first
        OBVIOUS
      <4>2. l \in 1..m /\ first + l = k
        BY <1>0, <2>3, <3>2, <4>1
      <4> QED BY <2>4, <3>2, <4>1, <4>2
    <3> QED BY <3>1, <3>2
  <2> QED BY <2>2, <2>3, <2>7, <2>8
<1> QED BY <1>2, <1>3 DEF StatesRerun

(* A peer after the replay: any frame before run1 that is not final is     *)
(* there, and resolved to what was read of it.                             *)
RewoundOf(p, ring, in, rd, o, run1, core1) ==
  /\ RingOf(p, ring, in, rd, o, run1)
  /\ CoreOf(p, ring, in, o, run1, core1)
  /\ \A f \in o..(run1 - 1) :
       /\ ring[f % Size(p)].frame = f
       /\ \A c \in Player : ring[f % Size(p)].real[c] # NoInput =>
            ring[f % Size(p)].resolved[c] = ring[f % Size(p)].real[c]
       /\ ring[f % Size(p)].resolved = [c \in Player |-> ring[f % Size(p)].resolved[c]]

LEMMA PostReplays ==
  ASSUME NEW p \in Player, NEW o \in Nat, NEW r \in Nat, NEW run1 \in Nat,
         NEW rd \in Counts, NEW b, NEW core1, NEW in \in Histories,
         RanOf(p, b, in, rd, o, r, run1, core1),
         NEW again, AgainOf(p, b, o, run1, again),
         NEW first, FirstOf(p, b, o, run1, again, first),
         NEW state, first < run1 => state = Replayed(p, b, again, first, run1),
         NEW ring, ring = Rewound(b, again, first, state),
         NEW core2, core2 = IF first < run1 THEN state[run1] ELSE core1
  PROVE  RewoundOf(p, ring, in, rd, o, run1, core2)
<1> DEFINE n == Size(p)
           h(f) == [j \in 1..f |-> Rerun(in, o, again, j - 1)]
<1> HIDE DEF n, h
<1>0. /\ first \in Nat /\ o <= first /\ first <= run1 /\ o <= run1 /\ run1 <= r + 1
      /\ run1 <= rd[p] /\ o <= r /\ rd[p] \in Nat /\ n \in Nat \ {0}
      /\ DOMAIN b = 0..(n - 1) /\ DOMAIN again = o..(run1 - 1)
      /\ \A f \in o..(rd[p] - 1) : b[f % n].frame = f
  BY SizeIsPositive DEF FirstOf, AgainOf, RanOf, RingOf, Counts, n
<1> StatesRerun(p, b, in, o, run1, core1, again, first, state)
  BY ReplayedStates
<1>1. \A f \in o..run1 : f <= first => (IF f = run1 THEN core1 ELSE b[f % n].state) = h(f)
  BY DEF StatesRerun, h, n
<1>2. first < run1 => \A f \in first..run1 : state[f] = h(f)
  BY DEF StatesRerun, h
<1>3. ASSUME NEW f \in o..(run1 - 1), NEW j, j = f % n
      PROVE  b[j].frame = f /\ j \in 0..(n - 1) /\ SlotRewound(b[j], again[f], h(f), ring[j])
  <2>1. f \in Nat /\ f \in o..(rd[p] - 1) /\ f \in o..run1 /\ f # run1 /\ f < run1
    BY <1>0
  <2>2. b[j].frame = f /\ j \in 0..(n - 1)
    BY <1>0, <1>3, <2>1
  <2>3. IsResolved(b[j], again[f])
    BY <1>3 DEF AgainOf, n
  <2>4. CASE f < first
    <3>1. ring[j] = again[f]
      BY <1>0, <2>2, <2>4 DEF Rewound
    <3>2. b[j].state = h(f)
      BY <1>0, <1>1, <1>3, <2>1, <2>4
    <3> QED BY <2>2, <2>3, <3>1, <3>2 DEF IsResolved, SlotRewound
  <2>5. CASE ~(f < first)
    <3>1. ring[j] = [again[f] EXCEPT !.state = state[f]]
      BY <1>0, <2>2, <2>5 DEF Rewound
    <3>2. first < run1 /\ f \in first..run1
      BY <1>0, <2>1, <2>5
    <3>3. state[f] = h(f)
      BY <1>2, <3>2
    <3>4. SlotShape(again[f])
      BY <2>3 DEF IsResolved
    <3>5. WithState(again[f], h(f), ring[j])
      BY <3>1, <3>3, <3>4, StateFields
    <3> QED BY <2>2, <2>3, <3>5 DEF IsResolved, WithState, SlotRewound
  <2> QED BY <2>2, <2>4, <2>5
<1>4. ASSUME NEW j \in 0..(n - 1), b[j].frame \notin o..(run1 - 1) PROVE ring[j] = b[j]
  BY <1>0, <1>4 DEF Rewound
<1>5. DOMAIN ring = 0..(n - 1)
  BY <1>0 DEF Rewound
<1>6. ASSUME NEW j \in 0..(n - 1)
      PROVE  SlotOf(ring[j], in, rd, o, run1) /\ ring[j].frame = b[j].frame
  <2>1. SlotOf(b[j], in, rd, o, r + 1) /\ (b[j].frame # None => b[j].frame % n = j)
    BY DEF RanOf, RingOf, n
  <2>2. PICK f : f = b[j].frame
    OBVIOUS
  <2>3. f \in Nat \cup {None}
    BY <2>1, <2>2 DEF SlotOf, SlotShape
  <2>4. CASE f \notin o..(run1 - 1)
    <3>1. StateOf(b[j], in, o, run1)
      BY <1>0, <2>1, <2>2, <2>3 DEF SlotOf, StateOf
    <3>2. SlotOf(b[j], in, rd, o, run1)
      BY <2>1, <3>1 DEF SlotOf
    <3> QED BY <1>4, <2>2, <2>4, <3>2
  <2>5. CASE f \in o..(run1 - 1)
    <3>1. j = f % n
      BY <1>0, <2>1, <2>2, <2>5 DEF None
    <3>2. PICK t : t = ring[j]
      OBVIOUS
    <3>3. SlotRewound(b[j], again[f], h(f), t)
      BY <1>3, <2>5, <3>1, <3>2
    <3>4. RealOf(t, in, rd, o) /\ CrcOf(t, in) /\ SlotShape(t) /\ t.frame = f
      BY <2>1, <2>2, <3>3 DEF SlotRewound, SlotOf, RealOf, CrcOf
    <3>5. h(o) = Game(in, o)
      <4>1. \A l \in 1..o : Rerun(in, o, again, l - 1) = Inputs(in, l - 1)
        BY DEF Rerun
      <4> QED BY <4>1 DEF h, Game
    <3>6. f <= o => f = o
      BY <2>5
    <3>7. StateOf(t, in, o, run1)
      BY <3>3, <3>4, <3>5, <3>6 DEF SlotRewound, StateOf
    <3> QED BY <2>2, <3>2, <3>4, <3>7 DEF SlotOf
  <2> QED BY <2>4, <2>5
<1>7. RingOf(p, ring, in, rd, o, run1)
  <2>1. \A j \in 0..(n - 1) : ring[j].frame # None => ring[j].frame % n = j
    BY <1>6 DEF RanOf, RingOf, n
  <2>2. ASSUME NEW c \in Player, NEW f \in o..(rd[c] - 1) PROVE ring[f % n].frame = f
    <3>1. f \in Nat /\ f % n \in 0..(n - 1)
      BY <1>0
    <3>2. b[f % n].frame = f
      BY DEF RanOf, RingOf, n
    <3> QED BY <1>6, <3>1, <3>2
  <2> QED BY <1>5, <1>6, <2>1, <2>2 DEF RingOf, n
<1>8. ASSUME NEW f \in o..(run1 - 1), NEW t, t = ring[f % n]
      PROVE  /\ t.frame = f /\ t.state = h(f) /\ t.resolved = again[f].resolved
             /\ \A c \in Player : t.real[c] # NoInput => t.resolved[c] = t.real[c]
             /\ t.resolved = [c \in Player |-> t.resolved[c]]
  <2>1. PICK j : j = f % n
    OBVIOUS
  <2>2. b[j].frame = f /\ SlotRewound(b[j], again[f], h(f), t)
    BY <1>3, <1>8, <2>1
  <2>3. IsResolved(b[j], again[f])
    BY <2>1 DEF AgainOf, n
  <2> QED BY <2>2, <2>3 DEF SlotRewound, IsResolved
<1>9. ASSUME NEW j \in Nat, 1 <= j, j <= run1
      PROVE  Played(p, ring, in, o, j - 1) = Rerun(in, o, again, j - 1)
  <2>1. CASE j - 1 < o
    BY <2>1 DEF Played, Rerun
  <2>2. CASE ~(j - 1 < o)
    <3>1. j - 1 \in o..(run1 - 1)
      BY <1>0, <1>9, <2>2
    <3>2. ring[(j - 1) % n].resolved = again[j - 1].resolved
      BY <1>8, <3>1
    <3> QED BY <2>2, <3>2 DEF Played, Rerun, n
  <2> QED BY <2>1, <2>2
<1>10. core2 = h(run1)
  <2>1. CASE first < run1
    BY <1>0, <1>2, <2>1
  <2>2. CASE ~(first < run1)
    <3>1. run1 \in o..run1 /\ run1 <= first
      BY <1>0, <2>2
    <3> QED BY <1>1, <2>2, <3>1
  <2> QED BY <2>1, <2>2
<1>11. CoreOf(p, ring, in, o, run1, core2)
  <2> SUFFICES ASSUME NEW f \in o..run1
               PROVE  (IF f = run1 THEN core2 ELSE ring[f % Size(p)].state)
                        = [j \in 1..f |-> Played(p, ring, in, o, j - 1)]
    BY DEF CoreOf
  <2>1. (IF f = run1 THEN core2 ELSE ring[f % n].state) = h(f)
    <3>1. f # run1 => f \in o..(run1 - 1)
      BY <1>0
    <3> QED BY <1>8, <1>10, <3>1
  <2>2. \A j \in 1..f : Played(p, ring, in, o, j - 1) = Rerun(in, o, again, j - 1)
    <3>1. \A j \in 1..f : j \in Nat /\ 1 <= j /\ j <= run1
      BY <1>0
    <3> QED BY <1>9, <3>1
  <2> QED BY <2>1, <2>2 DEF h, n
<1> QED BY <1>7, <1>8, <1>11 DEF RewoundOf, n

(* Frames of which all inputs are read become final. *)
FinalSlot(s, in, f) ==
  /\ s.frame = f /\ Given(in, f) /\ s.state = Game(in, f)
  /\ s.crc # NoCrc => s.crc = s.state

LEMMA PostFinal ==
  ASSUME NEW p \in Player, NEW o \in Nat, NEW run1 \in Nat, NEW rd \in Counts,
         NEW ring, NEW core1, NEW in \in Histories,
         RewoundOf(p, ring, in, rd, o, run1, core1), run1 <= rd[p],
         ReadOf(in, rd, o), NEW o1 \in Nat, o <= o1, o1 <= run1, ReadOf(in, rd, o1)
  PROVE  /\ RingOf(p, ring, in, rd, o1, run1)
         /\ CoreOf(p, ring, in, o1, run1, core1)
         /\ \A f \in o..(o1 - 1) : FinalSlot(ring[f % Size(p)], in, f)
<1> DEFINE n == Size(p)
<1> HIDE DEF n
<1>0. /\ n \in Nat \ {0} /\ DOMAIN ring = 0..(n - 1)
      /\ \A j \in 0..(n - 1) : SlotOf(ring[j], in, rd, o, run1)
      /\ \A j \in 0..(n - 1) : ring[j].frame # None => ring[j].frame % n = j
      /\ \A f \in o..(run1 - 1) : ring[f % n].frame = f
  BY SizeIsPositive DEF RewoundOf, RingOf, n
<1>1. ASSUME NEW j \in o..(o1 - 1)
      PROVE  ring[j % n].resolved = Inputs(in, j)
  <2>1. PICK s : s = ring[j % n]
    OBVIOUS
  <2>2. j \in o..(run1 - 1) /\ j \in Nat /\ j % n \in 0..(n - 1)
    BY <1>0
  <2>3. s.frame = j /\ SlotOf(s, in, rd, o, run1)
    BY <1>0, <2>1, <2>2
  <2>4. ASSUME NEW c \in Player PROVE s.real[c] = in[c][j + 1] /\ s.real[c] # NoInput
    <3>1. rd[c] \in Nat /\ in[c] \in Seq(Pressed) /\ Len(in[c]) \in Nat
          /\ o1 <= rd[c] /\ rd[c] <= Len(in[c])
      BY DEF Counts, Histories, ReadOf
    <3>2. s.real[c] = in[c][j + 1]
      BY <2>2, <2>3, <3>1 DEF SlotOf, RealOf
    <3>3. in[c][j + 1] \in Pressed
      <4>1. j + 1 \in 1..Len(in[c])
        BY <2>2, <3>1
      <4> QED BY <3>1, <4>1
    <3> QED BY <3>2, <3>3, NoInputPressed
  <2>5. /\ \A c \in Player : s.real[c] # NoInput => s.resolved[c] = s.real[c]
        /\ s.resolved = [c \in Player |-> s.resolved[c]]
    BY <2>1, <2>2 DEF RewoundOf, n
  <2>6. \A c \in Player : s.resolved[c] = in[c][j + 1]
    BY <2>4, <2>5
  <2> QED BY <2>1, <2>5, <2>6 DEF Inputs
<1>2. ASSUME NEW j \in Nat, 1 <= j
      PROVE  Played(p, ring, in, o1, j - 1) = Played(p, ring, in, o, j - 1)
  <2>1. CASE j - 1 < o
    BY <2>1 DEF Played
  <2>2. CASE ~(j - 1 < o) /\ j - 1 < o1
    <3>1. j - 1 \in o..(o1 - 1)
      BY <2>2
    <3>2. ring[(j - 1) % n].resolved = Inputs(in, j - 1)
      BY <1>1, <3>1
    <3> QED BY <2>2, <3>2 DEF Played, n
  <2>3. CASE ~(j - 1 < o1)
    BY <2>3 DEF Played
  <2> QED BY <2>1, <2>2, <2>3
<1>3. ASSUME NEW f \in o..run1
      PROVE  (IF f = run1 THEN core1 ELSE ring[f % Size(p)].state)
               = [j \in 1..f |-> Played(p, ring, in, o1, j - 1)]
  <2>1. (IF f = run1 THEN core1 ELSE ring[f % Size(p)].state)
          = [j \in 1..f |-> Played(p, ring, in, o, j - 1)]
    BY DEF RewoundOf, CoreOf
  <2>2. \A j \in 1..f : Played(p, ring, in, o1, j - 1) = Played(p, ring, in, o, j - 1)
    BY <1>2
  <2> QED BY <2>1, <2>2
<1>4. CoreOf(p, ring, in, o1, run1, core1)
  <2>1. \A f \in o1..run1 : f \in o..run1
    OBVIOUS
  <2> QED BY <1>3, <2>1 DEF CoreOf
<1>5. ASSUME NEW f \in o..run1, f <= o1, f < run1 PROVE ring[f % n].state = Game(in, f)
  <2>1. ring[f % n].state = [j \in 1..f |-> Played(p, ring, in, o1, j - 1)]
    BY <1>3, <1>5 DEF n
  <2>2. \A j \in 1..f : Played(p, ring, in, o1, j - 1) = Inputs(in, j - 1)
    BY <1>5 DEF Played
  <2> QED BY <2>1, <2>2 DEF Game
<1>6. ASSUME NEW j \in 0..(n - 1) PROVE SlotOf(ring[j], in, rd, o1, run1)
  <2>1. PICK s : s = ring[j]
    OBVIOUS
  <2>2. SlotOf(s, in, rd, o, run1) /\ (s.frame # None => s.frame % n = j)
    BY <1>0, <2>1
  <2>3. s.frame \in Nat \cup {None}
    BY <2>2 DEF SlotOf, SlotShape
  <2>4. RealOf(s, in, rd, o1)
    BY <2>2, <2>3 DEF SlotOf, RealOf, None
  <2>5. StateOf(s, in, o1, run1)
    <3> SUFFICES ASSUME s.frame # None, s.frame <= o1, s.frame < run1
                 PROVE  s.state = Game(in, s.frame)
      BY DEF StateOf
    <3>1. PICK f \in Nat : f = s.frame
      BY <2>3
    <3>2. CASE f < o
      BY <2>2, <3>1, <3>2 DEF SlotOf, StateOf
    <3>3. CASE ~(f < o)
      <4>1. f \in o..run1 /\ f <= o1 /\ f < run1 /\ f % n = j
        BY <2>2, <3>1, <3>3
      <4>2. ring[f % n].state = Game(in, f)
        BY <1>5, <4>1
      <4> QED BY <2>1, <3>1, <4>1, <4>2
    <3> QED BY <3>2, <3>3
  <2> QED BY <2>1, <2>2, <2>4, <2>5 DEF SlotOf
<1>7. RingOf(p, ring, in, rd, o1, run1)
  <2>1. \A c \in Player : \A f \in o1..(rd[c] - 1) : f \in o..(rd[c] - 1)
    BY DEF Counts
  <2> QED BY <1>0, <1>6, <2>1 DEF RewoundOf, RingOf, n
<1>8. ASSUME NEW f \in o..(o1 - 1) PROVE FinalSlot(ring[f % n], in, f)
  <2>1. PICK s : s = ring[f % n]
    OBVIOUS
  <2>2. /\ f \in o..(run1 - 1) /\ f \in Nat /\ f % n \in 0..(n - 1)
        /\ f \in o..run1 /\ f <= o1 /\ f < run1
    BY <1>0
  <2>3. s.frame = f /\ s.state = Game(in, f) /\ SlotOf(s, in, rd, o, run1)
    BY <1>0, <1>5, <2>1, <2>2
  <2>4. Given(in, f)
    <3>1. \A c \in Player : rd[c] \in Nat /\ Len(in[c]) \in Nat
      BY DEF Counts, Histories
    <3> QED BY <2>2, <3>1 DEF Given, ReadOf
  <2>5. s.crc # NoCrc => s.crc = s.state
    BY <2>3 DEF SlotOf, CrcOf
  <2> QED BY <2>1, <2>3, <2>4, <2>5 DEF FinalSlot
<1> QED BY <1>4, <1>7, <1>8 DEF n

(* What a peer will not take back is the game. *)
LEMMA HistoryIsGame ==
  ASSUME NEW p \in Player, NEW o \in Nat, NEW r \in Nat, o <= r, NEW ring, NEW k, NEW in,
         CoreOf(p, ring, in, o, r, k)
  PROVE  (IF o = r THEN k ELSE ring[o % Size(p)].state) = Game(in, o)
<1>1. o \in o..r
  OBVIOUS
<1>2. (IF o = r THEN k ELSE ring[o % Size(p)].state)
        = [j \in 1..o |-> Played(p, ring, in, o, j - 1)]
  BY <1>1 DEF CoreOf
<1>3. \A j \in 1..o : Played(p, ring, in, o, j - 1) = Inputs(in, j - 1)
  BY DEF Played
<1> QED BY <1>2, <1>3 DEF Game

-----------------------------------------------------------------------------
(* The commands. *)
LEMMA GivenCommand ==
  ASSUME NEW p \in Player, NEW in, NEW f \in Nat, NEW c \in Player, NEW x \in Pressed,
         f < Len(in[c]), x = in[c][f + 1], p # Server => c = p
  PROVE  InputCmd(f, c, x) \in Commands(p, in)
<1>1. InputCmd(f, c, x) \in InputsFrom(p, in)
  BY DEF InputCmd, InputsFrom
<1> QED BY <1>1 DEF Commands

LEMMA CheckCommand ==
  ASSUME NEW p, NEW in, NEW f \in Nat, Given(in, f), NEW x, x = Game(in, f)
  PROVE  [cmd |-> "CRC", frame |-> f, crc |-> x] \in Commands(p, in)
<1>1. [cmd |-> "CRC", frame |-> f, crc |-> x] \in ChecksOf(in)
  BY DEF ChecksOf
<1> QED BY <1>1 DEF Commands

LEMMA CommandsKept ==
  ASSUME NEW in \in Histories, NEW in2 \in Histories, Extends(in, in2), NEW p \in Player
  PROVE  Commands(p, in) \subseteq Commands(p, in2)
<1>1. InputsFrom(p, in) \subseteq InputsFrom(p, in2)
  <2> SUFFICES ASSUME NEW m \in InputsFrom(p, in) PROVE m \in InputsFrom(p, in2)
    OBVIOUS
  <2>1. PICK c \in Player, f \in Nat : c = m.client /\ f = m.frame
    BY DEF InputsFrom
  <2>2. Len(in[c]) \in Nat /\ Len(in2[c]) \in Nat /\ f < Len(in[c])
    BY <2>1 DEF Histories, InputsFrom
  <2>3. f + 1 \in 1..Len(in[c]) /\ Len(in[c]) <= Len(in2[c])
    BY <2>2 DEF Extends
  <2>4. in2[c][f + 1] = in[c][f + 1] /\ f < Len(in2[c])
    BY <2>2, <2>3 DEF Extends
  <2> QED BY <2>1, <2>4 DEF InputsFrom
<1>2. ChecksOf(in) \subseteq ChecksOf(in2)
  <2> SUFFICES ASSUME NEW f \in Nat, Given(in, f)
               PROVE  [cmd |-> "CRC", frame |-> f, crc |-> Game(in, f)] \in ChecksOf(in2)
    BY DEF ChecksOf
  <2>1. Given(in2, f) /\ Game(in2, f) = Game(in, f)
    BY GameKept
  <2> QED BY <2>1 DEF ChecksOf
<1> QED BY <1>1, <1>2 DEF Commands

(* What the slot of a frame holds may be sent. *)
HoldsGiven(t, in) ==
  /\ t.frame \in Nat
  /\ \A c \in Player : t.real[c] # NoInput =>
       t.frame < Len(in[c]) /\ t.real[c] = in[c][t.frame + 1] /\ t.real[c] \in Pressed

LEMMA SentInputs ==
  ASSUME NEW p \in Player, NEW in, NEW t, HoldsGiven(t, in), t.real[p] # NoInput, NEW q
  PROVE  netplay_send_cur_input(p, t, q) \in Seq(Commands(p, in))
<1> DEFINE others == {c \in Client \ {q} : p = Server /\ t.real[c] # NoInput}
           from == InOrder(others)
           first == [k \in 1..Len(from) |-> InputCmd(t.frame, from[k], t.real[from[k]])]
           last == InputCmd(t.frame, p, t.real[p])
<1>1. from \in Seq(others)
  <2>1. others \in SUBSET Nat
    BY ClientAssumption
  <2>2. IsFiniteSet(others)
    BY ClientAssumption, FS_Subset
  <2> QED BY <2>1, <2>2, InOrderIsSequence
<1>2. ASSUME NEW c \in Player, t.real[c] # NoInput, p # Server => c = p
      PROVE  InputCmd(t.frame, c, t.real[c]) \in Commands(p, in)
  BY <1>2, GivenCommand DEF HoldsGiven
<1>3. ASSUME NEW k \in 1..Len(from)
      PROVE  InputCmd(t.frame, from[k], t.real[from[k]]) \in Commands(p, in)
  <2>1. from[k] \in others
    <3> HIDE DEF from, others
    <3> QED BY <1>1
  <2>2. from[k] \in Player /\ t.real[from[k]] # NoInput /\ p = Server
    BY <2>1 DEF Player
  <2> HIDE DEF from
  <2> QED BY <1>2, <2>2
<1>4. first \in Seq(Commands(p, in))
  <2>1. Len(from) \in Nat
    BY <1>1
  <2> HIDE DEF from
  <2> QED BY <1>3, <2>1
<1>5. <<last>> \in Seq(Commands(p, in))
  BY <1>2
<1>6. netplay_send_cur_input(p, t, q) = first \o <<last>>
  BY DEF netplay_send_cur_input
<1> HIDE DEF first, last
<1> QED BY <1>4, <1>5, <1>6

-----------------------------------------------------------------------------
(* How far the final frames reach, and where the replay starts. *)
LEMMA Greater ==
  ASSUME NEW a \in Nat, NEW b \in Nat PROVE Max({a, b}) = IF a < b THEN b ELSE a
BY DEF Max

LEMMA FinalFrames ==
  ASSUME NEW p \in Player, read[p] \in Counts, other[p] \in Nat,
         NEW run1 \in Nat, other[p] <= run1, NEW in, ReadOf(in, read[p], other[p]),
         NEW o1, o1 = OtherAfter(p, run1)
  PROVE  o1 \in Nat /\ other[p] <= o1 /\ o1 <= run1 /\ ReadOf(in, read[p], o1)
<1> DEFINE R == {read[p][c] : c \in Player}
           u == Min(R)
           w == Min({u, run1})
<1>1. u \in R /\ \A y \in R : u <= y
  <2>1. R \in SUBSET Nat /\ R # {}
    BY DEF Counts, Player
  <2> HIDE DEF R
  <2> QED BY <2>1, LeastMember
<1>2. u \in Nat /\ \A c \in Player : u <= read[p][c] /\ read[p][c] \in Nat
  BY <1>1 DEF Counts
<1> HIDE DEF R, u
<1>3. w \in {u, run1} /\ w <= u /\ w <= run1
  <2>1. {u, run1} \in SUBSET Nat /\ {u, run1} # {}
    BY <1>2
  <2> QED BY <2>1, LeastMember
<1> HIDE DEF w
<1>4. o1 = IF other[p] < w THEN w ELSE other[p]
  <2>1. o1 = Max({other[p], w})
    BY DEF OtherAfter, unread, R, u, w
  <2>2. w \in Nat
    BY <1>2, <1>3
  <2> QED BY <2>1, <2>2, Greater
<1>5. o1 \in Nat /\ other[p] <= o1 /\ o1 <= run1
  BY <1>2, <1>3, <1>4
<1>6. ASSUME NEW c \in Player PROVE o1 <= read[p][c] /\ read[p][c] <= Len(in[c])
  BY <1>2, <1>3, <1>4 DEF ReadOf
<1> QED BY <1>5, <1>6 DEF ReadOf

LEMMA ReplayStart ==
  ASSUME NEW p, NEW b, NEW o \in Nat, NEW run1 \in Nat, o <= run1,
         NEW again, DOMAIN again = o..(run1 - 1),
         NEW first, first = ReplayFrom(p, b, again, run1)
  PROVE  FirstOf(p, b, o, run1, again, first)
<1> DEFINE W == {f \in DOMAIN again : again[f].resolved # b[f % Size(p)].resolved}
<1>1. W \cup {run1} \in SUBSET Nat /\ W \cup {run1} # {}
  OBVIOUS
<1>2. first = Min(W \cup {run1})
  BY DEF ReplayFrom
<1>3. first \in W \cup {run1} /\ \A y \in W \cup {run1} : first <= y
  <2> HIDE DEF W
  <2> QED BY <1>1, <1>2, LeastMember
<1>4. first \in o..run1
  BY <1>3
<1>5. ASSUME NEW f \in o..(first - 1) PROVE again[f].resolved = b[f % Size(p)].resolved
  <2>1. f \in DOMAIN again /\ ~(first <= f)
    BY <1>4
  <2>2. f \notin W
    BY <1>3, <2>1
  <2> QED BY <2>1, <2>2
<1> QED BY <1>4, <1>5 DEF FirstOf

-----------------------------------------------------------------------------
(* The steps.  The slot in which the state is saved is never one that is   *)
(* still needed: if it were, there would be no slot for the local input.   *)
LEMMA StateSaved ==
  ASSUME NEW p \in Player, NEW s \in Nat, NEW r \in Nat, NEW o \in Nat,
         NEW rd \in Counts, NEW ring, NEW k, NEW in \in Histories,
         PeerOf(p, FALSE, s, r, o, rd, ring, k, in),
         NEW i, i = r % Size(p), NEW j, j = s % Size(p),
         NEW saved,
         saved = [ring EXCEPT ![i] = IF Ready(ring[i], r, o)
                                       THEN [Prepared(ring[i], r) EXCEPT !.state = k]
                                       ELSE ring[i]],
         Ready(saved[j], s, o)
  PROVE  SavedOf(p, s, r, o, rd, saved, k, in)
<1>1. /\ CountsOf(p, FALSE, s, r, o, rd, in) /\ RingOf(p, ring, in, rd, o, r)
      /\ o <= r /\ r <= s /\ s <= rd[p] /\ rd[p] \in Nat
  BY DEF PeerOf, CountsOf, Counts
<1>2. i \in 0..(Size(p) - 1) /\ DOMAIN ring = 0..(Size(p) - 1)
  BY <1>1, SlotIndex DEF RingOf
<1>3. Ready(ring[i], r, o)
  <2>1. CASE r < s
    <3>1. r \in o..(rd[p] - 1)
      BY <1>1, <2>1
    <3>2. ring[i].frame = r
      BY <1>1, <3>1 DEF RingOf
    <3> QED BY <3>2 DEF Ready
  <2>2. CASE ~(r < s)
    <3>1. r = s /\ i = j
      BY <1>1, <2>2
    <3>2. SUFFICES ASSUME ~Ready(ring[i], r, o) PROVE FALSE
      OBVIOUS
    <3>3. saved[i] = ring[i]
      BY <1>2, <3>2
    <3> QED BY <3>1, <3>2, <3>3
  <2> QED BY <2>1, <2>2
<1>4. PICK t : t = [Prepared(ring[i], r) EXCEPT !.state = k]
  OBVIOUS
<1>5. saved = [ring EXCEPT ![i] = t]
  BY <1>3, <1>4
<1>6. WithState(Prepared(ring[i], r), k, t)
  <2>1. RingAt(p, ring, in, rd, o, r, r, i) /\ MayPrepare(ring[i], r, o, r)
    BY <1>1 DEF RingAt, MayPrepare
  <2>2. SlotShape(Prepared(ring[i], r))
    BY <2>1, SlotOfRing DEF SlotAt, SlotOf
  <2> QED BY <1>4, <2>2, StateFields
<1> QED BY <1>3, <1>5, <1>6, PreSaves

(* The local input is put into its slot, given, and sent. *)
LEMMA SlotSent ==
  ASSUME NEW p \in Player, NEW s \in Nat, NEW r \in Nat, NEW o \in Nat,
         NEW rd \in Counts, NEW ring, NEW k, NEW in \in Histories,
         PeerOf(p, TRUE, s, r, o, rd, ring, k, in),
         NEW j, j = s % Size(p), NEW t, t = ring[j]
  PROVE  HoldsGiven(t, in)
<1>1. /\ RingOf(p, ring, in, rd, o, r + 1) /\ ReadOf(in, rd, o)
      /\ o <= s /\ rd[p] = s + 1
  BY DEF PeerOf, CountsOf
<1>2. SlotOf(t, in, rd, o, r + 1)
  BY <1>1, SlotIndex DEF RingOf
<1>3. t.frame = s
  <2>1. s \in o..(rd[p] - 1)
    BY <1>1
  <2> QED BY <1>1, <2>1 DEF RingOf
<1>4. ASSUME NEW c \in Player, t.real[c] # NoInput
      PROVE  s < Len(in[c]) /\ t.real[c] = in[c][s + 1] /\ t.real[c] \in Pressed
  <2>1. rd[c] \in Nat /\ rd[c] <= Len(in[c]) /\ in[c] \in Seq(Pressed) /\ Len(in[c]) \in Nat
    BY <1>1 DEF Counts, ReadOf, Histories
  <2>2. s < rd[c] /\ t.real[c] = in[c][s + 1]
    BY <1>1, <1>2, <1>3, <1>4 DEF SlotOf, RealOf
  <2>3. s + 1 \in 1..Len(in[c])
    BY <2>1, <2>2
  <2> QED BY <2>1, <2>2, <2>3
<1> QED BY <1>3, <1>4 DEF HoldsGiven

(* A peer that takes no step. *)
LEMMA OtherPeer ==
  ASSUME Types, NEW q \in Player, PeerInv(q),
         input' \in Histories, Extends(input, input'), input'[q] = input[q],
         pc'[q] = pc[q], self'[q] = self[q], run'[q] = run[q], other'[q] = other[q],
         read'[q] = read[q], buffer'[q] = buffer[q], core'[q] = core[q]
  PROVE  PeerInv(q)'
<1>1. /\ self[q] \in Nat /\ run[q] \in Nat /\ other[q] \in Nat /\ read[q] \in Counts
      /\ input \in Histories
  BY DEF Types
<1>2. PeerOf(q, pc[q] = "poll", self[q], run[q], other[q], read[q], buffer[q], core[q], input)
  BY DEF PeerInv
<1>3. PeerOf(q, pc[q] = "poll", self[q], run[q], other[q], read[q], buffer[q], core[q], input')
  BY <1>1, <1>2, PeerKept
<1> QED BY <1>3 DEF PeerInv

LEMMA PreFrameStep ==
  ASSUME IInv, NEW p \in Player, netplay_sync_pre_frame(p)
  PROVE  IInv'
<1> DEFINE i == run[p] % Size(p)
           j == self[p] % Size(p)
           saved == Saved(p)
           s == Prepared(saved[j], self[p])
<1>0. /\ Types /\ ChanInv /\ ChecksPass /\ \A q \in Player : PeerInv(q)
      /\ self[p] \in Nat /\ run[p] \in Nat /\ other[p] \in Nat /\ read[p] \in Counts
      /\ input \in Histories /\ latency \in [Player -> Nat]
  BY DEF IInv, Types
<1>1. /\ pc[p] = "pre" /\ Ready(saved[j], self[p], other[p])
      /\ pc' = [pc EXCEPT ![p] = "poll"]
      /\ UNCHANGED <<counts, stalls, core, crcs>>
  BY DEF netplay_sync_pre_frame
<1>2. /\ self' = self /\ run' = run /\ other' = other /\ latency' = latency /\ core' = core
      /\ crcs_valid' = crcs_valid
      /\ savestate_request_outstanding' = savestate_request_outstanding
  BY <1>1 DEF counts, stalls, crcs
<1>3. pc' \in [Player -> {"pre", "poll"}] /\ pc'[p] = "poll"
      /\ \A q \in Player : q # p => pc'[q] = pc[q]
  BY <1>0, <1>1 DEF Types
<1>4. SavedOf(p, self[p], run[p], other[p], read[p], saved, core[p], input)
  <2>1. PeerOf(p, FALSE, self[p], run[p], other[p], read[p], buffer[p], core[p], input)
    <3>1. (pc[p] = "poll") = FALSE
      BY <1>1
    <3> QED BY <1>0, <3>1 DEF PeerInv
  <2>2. saved = [buffer[p] EXCEPT ![i] = IF Ready(buffer[p][i], run[p], other[p])
                   THEN [Prepared(buffer[p][i], run[p]) EXCEPT !.state = core[p]]
                   ELSE buffer[p][i]]
    BY DEF Saved
  <2> HIDE DEF saved
  <2> QED BY <1>0, <1>1, <2>1, <2>2, StateSaved
<1>5. CASE s.real[p] # NoInput
  <2>1. /\ buffer' = [buffer EXCEPT ![p] = [saved EXCEPT ![j] = s]]
        /\ read' = read /\ chan' = chan /\ input' = input
    BY <1>5 DEF netplay_sync_pre_frame
  <2>2. buffer'[p] = [saved EXCEPT ![j] = s] /\ DOMAIN buffer' = Player
        /\ \A q \in Player : q # p => buffer'[q] = buffer[q]
    BY <1>0, <2>1 DEF Types
  <2>3. PeerOf(p, TRUE, self[p], run[p], other[p], read[p], buffer'[p], core[p], input)
    <3>1. PICK jj : jj = j
      OBVIOUS
    <3>2. PICK t : t = s
      OBVIOUS
    <3>3. PICK ring2 : ring2 = buffer'[p]
      OBVIOUS
    <3>4. /\ jj = self[p] % Size(p) /\ Ready(saved[jj], self[p], other[p])
          /\ t = Prepared(saved[jj], self[p]) /\ t.real[p] # NoInput
          /\ ring2 = [saved EXCEPT ![jj] = t]
      BY <1>1, <1>5, <2>2, <3>1, <3>2, <3>3
    <3> HIDE DEF saved, s, j
    <3>5. PeerOf(p, TRUE, self[p], run[p], other[p], read[p], ring2, core[p], input)
      BY <1>0, <1>4, <3>4, PreKeeps
    <3> QED BY <3>3, <3>5
  <2>4. ASSUME NEW q \in Player PROVE PeerInv(q)'
    <3>1. CASE q = p
      <4>1. (pc'[p] = "poll") = TRUE
        BY <1>3
      <4> QED BY <1>2, <2>1, <2>3, <3>1, <4>1 DEF PeerInv
    <3>2. CASE q # p
      <4>1. Extends(input, input)
        <5>1. \A c \in Player : Len(input[c]) \in Nat
          BY <1>0 DEF Histories
        <5> QED BY <5>1 DEF Extends
      <4> QED BY <1>0, <1>2, <1>3, <2>1, <2>2, <3>2, <4>1, OtherPeer
    <3> QED BY <3>1, <3>2
  <2>5. Types'
    BY <1>0, <1>2, <1>3, <2>1, <2>2 DEF Types
  <2>6. ChanInv' /\ ChecksPass'
    BY <1>0, <1>2, <2>1 DEF ChanInv, ChanOf, ChecksPass
  <2> QED BY <2>4, <2>5, <2>6 DEF IInv
<1>6. CASE s.real[p] = NoInput
  <2>1. PICK x \in IF self[p] < MaxFrame THEN Input[p] ELSE {Zero} :
          /\ buffer' = [buffer EXCEPT ![p] = [saved EXCEPT ![j] = [s EXCEPT !.real[p] = x]]]
          /\ read' = [read EXCEPT ![p][p] = self[p] + 1]
          /\ chan' = [chan EXCEPT ![p] = [q \in Peers(p) |->
                       @[q] \o netplay_send_cur_input(p, [s EXCEPT !.real[p] = x], q)]]
          /\ input' = [input EXCEPT ![p] = Append(@, x)]
    BY <1>6 DEF netplay_sync_pre_frame
  <2>2. x \in Pressed
    BY <2>1 DEF Pressed
  <2>3. PICK t : t = [s EXCEPT !.real[p] = x]
    OBVIOUS
  <2>4. /\ buffer'[p] = [saved EXCEPT ![j] = t] /\ DOMAIN buffer' = Player
        /\ \A q \in Player : q # p => buffer'[q] = buffer[q]
    BY <1>0, <2>1, <2>3 DEF Types
  <2>5. /\ read'[p] = [read[p] EXCEPT ![p] = self[p] + 1]
        /\ \A q \in Player : q # p => read'[q] = read[q]
    BY <1>0, <2>1 DEF Types
  <2>6. WithReal(s, p, x, t)
    <3>1. SlotShape(s)
      <4>1. RingAt(p, saved, input, read[p], other[p], run[p] + 1, self[p], j)
            /\ MayPrepare(saved[j], self[p], other[p], run[p] + 1)
        BY <1>0, <1>4 DEF RingAt, SavedOf, MayPrepare, CountsOf
      <4> HIDE DEF saved
      <4>2. SlotAt(Prepared(saved[j], self[p]), input, read[p], other[p], run[p] + 1, self[p])
        BY <4>1, SlotOfRing
      <4> QED BY <4>2 DEF SlotAt, SlotOf
    <3> HIDE DEF s
    <3> QED BY <2>3, <3>1, RealFields
  <2>7. /\ PeerOf(p, TRUE, self[p], run[p], other[p], read'[p], buffer'[p], core[p], input')
        /\ read'[p] \in Counts /\ input' \in Histories /\ Extends(input, input')
    <3>1. PICK jj : jj = j
      OBVIOUS
    <3>2. PICK ring2, rd2, in2 : ring2 = buffer'[p] /\ rd2 = read'[p] /\ in2 = input'
      OBVIOUS
    <3>3. /\ jj = self[p] % Size(p) /\ Ready(saved[jj], self[p], other[p])
          /\ Prepared(saved[jj], self[p]).real[p] = NoInput
          /\ WithReal(Prepared(saved[jj], self[p]), p, x, t)
          /\ ring2 = [saved EXCEPT ![jj] = t]
          /\ Pressing(p, self[p], x, read[p], rd2, input, in2)
      BY <1>1, <1>6, <2>1, <2>4, <2>5, <2>6, <3>1, <3>2 DEF Pressing
    <3> HIDE DEF saved, s, j
    <3>4. HasPressed(p, self[p], run[p], other[p], rd2, ring2, core[p], input, in2)
      BY <1>0, <1>4, <2>2, <3>3, PreReads
    <3> QED BY <3>2, <3>4 DEF HasPressed
  <2>8. ASSUME NEW q \in Player PROVE PeerInv(q)'
    <3>1. CASE q = p
      <4>1. (pc'[p] = "poll") = TRUE
        BY <1>3
      <4> QED BY <1>2, <2>7, <3>1, <4>1 DEF PeerInv
    <3>2. CASE q # p
      <4>1. input'[q] = input[q]
        BY <1>0, <2>1, <3>2 DEF Histories
      <4> QED BY <1>0, <1>2, <1>3, <2>4, <2>5, <2>7, <3>2, <4>1, OtherPeer
    <3> QED BY <3>1, <3>2
  <2>9. Types'
    <3>1. read' \in [Player -> Counts]
      BY <1>0, <2>1, <2>5, <2>7 DEF Types
    <3> QED BY <1>0, <1>2, <1>3, <2>4, <2>7, <3>1 DEF Types
  <2>10. ChanInv'
    <3>1. ASSUME NEW q \in Peers(p)
          PROVE  chan[p][q] \o netplay_send_cur_input(p, t, q) \in Seq(Commands(p, input'))
      <4>1. chan[p][q] \in Seq(Commands(p, input'))
        <5>1. chan[p][q] \in Seq(Commands(p, input))
          BY <1>0 DEF ChanInv, ChanOf
        <5> QED BY <1>0, <2>7, <5>1, CommandsKept
      <4>2. netplay_send_cur_input(p, t, q) \in Seq(Commands(p, input'))
        <5>1. t = buffer'[p][j]
          <6>1. j \in DOMAIN saved
            BY <1>0, <1>4, SlotIndex DEF SavedOf, RingOf
          <6> HIDE DEF saved
          <6> QED BY <2>4, <6>1
        <5>2. HoldsGiven(t, input')
          BY <1>0, <2>7, <5>1, SlotSent
        <5>3. t.real[p] # NoInput
          <6>1. DOMAIN s.real = Player
            <7>1. DOMAIN t.real = Player
              BY <2>6 DEF WithReal, SlotShape
            <7> QED BY <2>6, <7>1 DEF WithReal
          <6>2. t.real[p] = x
            BY <2>6, <6>1 DEF WithReal
          <6> QED BY <2>2, <6>2, NoInputPressed
        <5> QED BY <5>2, <5>3, SentInputs
      <4> QED BY <4>1, <4>2
    <3>2. ASSUME NEW q \in Player, q # p
          PROVE  chan[q] \in [Peers(q) -> Seq(Commands(q, input'))]
      <4>1. Commands(q, input) \subseteq Commands(q, input')
        BY <1>0, <2>7, CommandsKept
      <4> QED BY <1>0, <4>1 DEF ChanInv, ChanOf
    <3>3. DOMAIN chan' = Player /\ \A q \in Player : q # p => chan'[q] = chan[q]
      BY <1>0, <2>1 DEF ChanInv, ChanOf
    <3>4. chan'[p] = [q \in Peers(p) |-> chan[p][q] \o netplay_send_cur_input(p, t, q)]
      BY <1>0, <2>1, <2>3 DEF ChanInv, ChanOf
    <3>5. chan'[p] \in [Peers(p) -> Seq(Commands(p, input'))]
      BY <3>1, <3>4
    <3> QED BY <3>2, <3>3, <3>5 DEF ChanInv, ChanOf
  <2>11. ChecksPass'
    BY <1>0, <1>2 DEF ChecksPass
  <2> QED BY <2>8, <2>9, <2>10, <2>11 DEF IInv
<1> QED BY <1>5, <1>6

(* One command is taken. *)
LEMMA ChanTaken ==
  ASSUME ChanInv, NEW p \in Player, NEW q \in Peers(p), chan[q][p] # <<>>
  PROVE  /\ q \in Player /\ p \in Peers(q)
         /\ Head(chan[q][p]) \in Commands(q, input)
         /\ ChanOf(Taken(p, q), input)
<1>1. q \in Player /\ p \in Peers(q)
  BY ClientAssumption DEF Peers, Player, Server
<1>2. chan[q][p] \in Seq(Commands(q, input)) /\ DOMAIN chan[q] = Peers(q)
  BY <1>1 DEF ChanInv, ChanOf
<1>3. Head(chan[q][p]) \in Commands(q, input) /\ Tail(chan[q][p]) \in Seq(Commands(q, input))
  BY <1>2
<1>4. ChanOf(Taken(p, q), input)
  <2>1. DOMAIN Taken(p, q) = Player
    BY DEF Taken, ChanInv, ChanOf
  <2>2. ASSUME NEW d \in Player
        PROVE  Taken(p, q)[d] \in [Peers(d) -> Seq(Commands(d, input))]
    <3>1. CASE d = q
      <4>1. Taken(p, q)[d] = [chan[q] EXCEPT ![p] = Tail(chan[q][p])]
        BY <1>1, <3>1 DEF Taken, ChanInv, ChanOf
      <4>2. chan[q] \in [Peers(q) -> Seq(Commands(q, input))]
        BY <1>1 DEF ChanInv, ChanOf
      <4> QED BY <1>1, <1>3, <3>1, <4>1, <4>2
    <3>2. CASE d # q
      BY <1>1, <3>2 DEF Taken, ChanInv, ChanOf
    <3> QED BY <3>1, <3>2
  <2> QED BY <2>1, <2>2 DEF ChanOf
<1> QED BY <1>1, <1>3, <1>4

LEMMA ChanSends ==
  ASSUME NEW ch, NEW in, ChanOf(ch, in), NEW p \in Player,
         NEW g \in [Peers(p) -> Seq(Commands(p, in))]
  PROVE  ChanOf([ch EXCEPT ![p] = g], in)
BY DEF ChanOf

(* A peer that takes a step that gives no input.                           *)
PollStep(p) ==
  /\ input' = input /\ pc' = pc /\ self' = self /\ run' = run /\ other' = other
  /\ core' = core /\ latency' = latency
  /\ DOMAIN buffer' = Player /\ read' \in [Player -> Counts]
  /\ \A q \in Player : q # p => buffer'[q] = buffer[q] /\ read'[q] = read[q]

LEMMA PollStepKeeps ==
  ASSUME IInv, NEW p \in Player, pc[p] = "poll", PollStep(p),
         PeerOf(p, TRUE, self[p], run[p], other[p], read'[p], buffer'[p], core[p], input),
         ChanOf(chan', input), ChecksPass'
  PROVE  IInv'
<1>1. ASSUME NEW q \in Player PROVE PeerInv(q)'
  <2>1. CASE q = p
    <3>1. (pc'[p] = "poll") = TRUE
      BY DEF PollStep
    <3> QED BY <2>1, <3>1 DEF PeerInv, PollStep
  <2>2. CASE q # p
    <3>1. Extends(input, input) /\ input' \in Histories
      <4>1. \A c \in Player : Len(input[c]) \in Nat
        BY DEF Histories, IInv, Types
      <4> QED BY <4>1 DEF Extends, IInv, Types, PollStep
    <3> QED BY <2>2, <3>1, OtherPeer DEF PollStep, IInv
  <2> QED BY <2>1, <2>2
<1>2. Types'
  BY DEF Types, PollStep, IInv
<1>3. ChanInv'
  BY DEF ChanInv, PollStep
<1> QED BY <1>1, <1>2, <1>3 DEF IInv

LEMMA InputStep ==
  ASSUME IInv, NEW p \in Player, NEW q \in Peers(p), cmd_input(p, q)
  PROVE  IInv'
<1> DEFINE m == Head(chan[q][p])
           c == IF p = Server THEN q ELSE m.client
           f == read[p][c]
<1>0. /\ Types /\ ChanInv /\ ChecksPass /\ PeerInv(p)
      /\ self[p] \in Nat /\ run[p] \in Nat /\ other[p] \in Nat /\ read[p] \in Counts
      /\ input \in Histories /\ DOMAIN buffer = Player /\ read \in [Player -> Counts]
  BY DEF IInv, Types
<1>1. /\ pc[p] = "poll" /\ chan[q][p] # <<>> /\ m.cmd = "INPUT"
      /\ UNCHANGED <<pc, counts, stalls, core, crcs, input>>
  BY DEF cmd_input, Received
<1>2. ChecksPass'
  BY <1>0, <1>1 DEF ChecksPass, crcs
<1>3. /\ input' = input /\ pc' = pc /\ self' = self /\ run' = run /\ other' = other
      /\ core' = core /\ latency' = latency
  BY <1>1 DEF counts, stalls
<1>4. PeerOf(p, TRUE, self[p], run[p], other[p], read[p], buffer[p], core[p], input)
  <2>1. (pc[p] = "poll") = TRUE
    BY <1>1
  <2> QED BY <1>0, <2>1 DEF PeerInv
<1>5. q \in Player /\ p # q /\ m \in InputsFrom(q, input) /\ ChanOf(Taken(p, q), input)
  <2>1. q \in Player /\ m \in Commands(q, input) /\ ChanOf(Taken(p, q), input)
    BY <1>0, <1>1, ChanTaken
  <2>2. m \in InputsFrom(q, input)
    BY <1>1, <2>1 DEF Commands, ChecksOf
  <2>3. p # q
    BY ClientAssumption DEF Peers, Server
  <2> QED BY <2>1, <2>2, <2>3
<1>6. /\ m.frame \in Nat /\ m.client \in Player /\ m.data \in Pressed
      /\ m.frame < Len(input[m.client]) /\ m.data = input[m.client][m.frame + 1]
      /\ q # Server => m.client = q
  BY <1>5 DEF InputsFrom
<1>7. c = m.client
  BY <1>5, <1>6
<1> HIDE DEF c
<1>8. CASE m.frame < f
  <2>1. chan' = Taken(p, q) /\ buffer' = buffer /\ read' = read
    BY <1>8 DEF cmd_input, c
  <2>2. PollStep(p)
    BY <1>0, <1>3, <2>1 DEF PollStep
  <2>3. PeerOf(p, TRUE, self[p], run[p], other[p], read'[p], buffer'[p], core[p], input)
    BY <1>4, <2>1
  <2> QED BY <1>1, <1>2, <1>5, <2>1, <2>2, <2>3, PollStepKeeps
<1>9. CASE ~(m.frame < f)
  <2> DEFINE i == f % Size(p)
             t == [Prepared(buffer[p][i], f) EXCEPT !.real[c] = m.data]
  <2>1. /\ m.frame = f /\ Ready(buffer[p][i], f, other[p])
        /\ buffer' = [buffer EXCEPT ![p][i] = t]
        /\ read' = [read EXCEPT ![p][c] = f + 1]
        /\ chan' = IF p = Server /\ ForwardNow(f)
             THEN [Taken(p, q) EXCEPT ![p] = [d \in Peers(p) |->
                     IF d = q THEN @[d]
                              ELSE Append(@[d], InputCmd(f, c, m.data))]]
             ELSE Taken(p, q)
    BY <1>9 DEF cmd_input, c, Slot
  <2>2. buffer'[p] = [buffer[p] EXCEPT ![i] = t] /\ read'[p] = [read[p] EXCEPT ![c] = f + 1]
    BY <1>0, <2>1
  <2>3. f \in Nat /\ f < Len(input[c]) /\ m.data = input[c][f + 1]
    BY <1>6, <1>7, <2>1
  <2>4. c # p
    <3>1. SUFFICES ASSUME c = p PROVE FALSE
      OBVIOUS
    <3>2. f = Len(input[c])
      BY <1>4, <3>1 DEF PeerOf, CountsOf
    <3> QED BY <2>3, <3>2
  <2>5. PeerOf(p, TRUE, self[p], run[p], other[p], read'[p], buffer'[p], core[p], input)
        /\ read'[p] \in Counts
    <3>1. PICK ff, ii : ff = f /\ ii = i
      OBVIOUS
    <3>2. PICK x, tt : x = m.data /\ tt = t
      OBVIOUS
    <3>3. PICK ring2, rd2 : ring2 = buffer'[p] /\ rd2 = read'[p]
      OBVIOUS
    <3>4. PICK w : w = Prepared(buffer[p][ii], ff)
      OBVIOUS
    <3>5. WithReal(w, c, x, tt)
      <4>1. SlotShape(w)
        <5>0. /\ RingOf(p, buffer[p], input, read[p], other[p], run[p] + 1)
              /\ CountsOf(p, TRUE, self[p], run[p], other[p], read[p], input)
          BY <1>4 DEF PeerOf
        <5>4. other[p] <= ff /\ ff \in Nat /\ run[p] <= self[p] /\ read[p][p] = self[p] + 1
          BY <1>6, <1>7, <2>3, <3>1, <5>0 DEF CountsOf, ReadOf
        <5>1. ff <= run[p] => buffer[p][ii].frame = ff
          <6>1. ff <= run[p] => ff \in other[p]..(read[p][p] - 1)
            BY <1>0, <5>4
          <6> QED BY <3>1, <5>0, <6>1 DEF RingOf
        <5>2. RingAt(p, buffer[p], input, read[p], other[p], run[p] + 1, ff, ii)
              /\ MayPrepare(buffer[p][ii], ff, other[p], run[p] + 1)
          BY <1>0, <3>1, <5>0, <5>1, <5>4 DEF RingAt, MayPrepare
        <5>3. SlotAt(w, input, read[p], other[p], run[p] + 1, ff)
          BY <3>4, <5>2, SlotOfRing
        <5> QED BY <5>3 DEF SlotAt, SlotOf
      <4>2. tt = [w EXCEPT !.real[c] = x]
        BY <3>1, <3>2, <3>4
      <4> QED BY <4>1, <4>2, RealFields
    <3>6. /\ ff = read[p][c] /\ ff < Len(input[c]) /\ ii = ff % Size(p)
          /\ Ready(buffer[p][ii], ff, other[p]) /\ x = input[c][ff + 1]
          /\ WithReal(Prepared(buffer[p][ii], ff), c, x, tt)
          /\ ring2 = [buffer[p] EXCEPT ![ii] = tt]
          /\ ReadTo(read[p], c, ff, rd2)
      BY <2>1, <2>2, <2>3, <3>1, <3>2, <3>3, <3>4, <3>5 DEF ReadTo
    <3> HIDE DEF f, i, t, m
    <3>7. PollOf(p, self[p], run[p], other[p], rd2, ring2, core[p], input)
      BY <1>0, <1>4, <1>6, <1>7, <2>4, <3>6, PollReads
    <3> QED BY <3>3, <3>7 DEF PollOf
  <2>6. PollStep(p)
    <3>1. read' \in [Player -> Counts] /\ DOMAIN buffer' = Player
      BY <1>0, <2>1, <2>5
    <3> QED BY <1>0, <1>3, <2>1, <3>1 DEF PollStep
  <2>7. ChanOf(chan', input)
    <3>1. CASE p = Server /\ ForwardNow(f)
      <4>1. PICK ch : ch = Taken(p, q)
        OBVIOUS
      <4>2. ch[p] \in [Peers(p) -> Seq(Commands(p, input))] /\ p \in DOMAIN ch
        BY <1>5, <4>1 DEF ChanOf
      <4>3. InputCmd(f, c, m.data) \in Commands(p, input)
        BY <1>6, <1>7, <2>3, <3>1, GivenCommand
      <4> DEFINE g == [d \in Peers(p) |-> IF d = q THEN ch[p][d]
                         ELSE Append(ch[p][d], InputCmd(f, c, m.data))]
      <4>4. g \in [Peers(p) -> Seq(Commands(p, input))]
        BY <4>2, <4>3
      <4>5. chan' = [ch EXCEPT ![p] = g]
        BY <2>1, <3>1, <4>1, <4>2
      <4> HIDE DEF g
      <4> QED BY <1>5, <4>1, <4>4, <4>5, ChanSends
    <3>2. CASE ~(p = Server /\ ForwardNow(f))
      BY <1>5, <2>1, <3>2
    <3> QED BY <3>1, <3>2
  <2> QED BY <1>1, <1>2, <2>5, <2>6, <2>7, PollStepKeeps
<1> QED BY <1>8, <1>9

LEMMA CrcStep ==
  ASSUME IInv, NEW p \in Player, NEW q \in Peers(p), cmd_crc(p, q)
  PROVE  IInv'
<1> DEFINE m == Head(chan[q][p])
           s == Slot(p, m.frame)
<1>0. /\ Types /\ ChanInv /\ ChecksPass /\ PeerInv(p)
      /\ self[p] \in Nat /\ run[p] \in Nat /\ other[p] \in Nat /\ read[p] \in Counts
      /\ input \in Histories /\ DOMAIN buffer = Player /\ read \in [Player -> Counts]
  BY DEF IInv, Types
<1>1. /\ pc[p] = "poll" /\ chan[q][p] # <<>> /\ m.cmd = "CRC"
      /\ chan' = Taken(p, q)
      /\ savestate_request_outstanding' =
           [savestate_request_outstanding EXCEPT ![p] =
              @ \/ (s.frame = m.frame /\ CanCheck(p, m.frame) /\ m.crc # s.state)]
      /\ buffer' = IF s.frame = m.frame /\ ~CanCheck(p, m.frame)
                     THEN [buffer EXCEPT ![p][m.frame % Size(p)].crc = m.crc]
                     ELSE buffer
      /\ UNCHANGED <<pc, counts, read, stalls, core, crcs_valid, crc_validity_checked, input>>
  BY DEF cmd_crc, Received
<1>2. /\ input' = input /\ pc' = pc /\ self' = self /\ run' = run /\ other' = other
      /\ core' = core /\ latency' = latency /\ read' = read /\ crcs_valid' = crcs_valid
  BY <1>1 DEF counts, stalls
<1>3. PeerOf(p, TRUE, self[p], run[p], other[p], read[p], buffer[p], core[p], input)
  <2>1. (pc[p] = "poll") = TRUE
    BY <1>1
  <2> QED BY <1>0, <2>1 DEF PeerInv
<1>4. m \in ChecksOf(input) /\ ChanOf(Taken(p, q), input)
  <2>1. m \in Commands(q, input) /\ ChanOf(Taken(p, q), input)
    BY <1>0, <1>1, ChanTaken
  <2> QED BY <1>1, <2>1 DEF Commands, InputsFrom
<1>5. m.frame \in Nat /\ Given(input, m.frame) /\ m.crc = Game(input, m.frame)
  BY <1>4 DEF ChecksOf
<1>6. PICK f \in Nat : f = m.frame
  BY <1>5
<1>7. PICK i : i = f % Size(p)
  OBVIOUS
<1>12. InSlot(p, f, i)
  BY <1>7 DEF InSlot
<1>8. s = buffer[p][i]
  BY <1>6, <1>7 DEF Slot
<1>9. ChecksPass'
  <2>1. s.frame = m.frame /\ CanCheck(p, m.frame) => m.crc = s.state
    <3> SUFFICES ASSUME s.frame = m.frame, CanCheck(p, m.frame) PROVE m.crc = s.state
      OBVIOUS
    <3>1. f <= other[p] /\ buffer[p][i].frame = f
      BY <1>6, <1>8 DEF CanCheck
    <3> HIDE DEF s, m
    <3>2. buffer[p][i].state = Game(input, f)
      <4>1. IsFinal(buffer[p], i, f, other[p])
        BY <3>1 DEF IsFinal
      <4>2. StateIsGame(buffer[p], i, input, f)
        BY <1>0, <1>3, <1>12, <4>1, FinalState
      <4> QED BY <4>2 DEF StateIsGame
    <3> QED BY <1>5, <1>6, <1>8, <3>2
  <2>2. savestate_request_outstanding = [c \in Client |-> FALSE]
    BY <1>0 DEF ChecksPass
  <2> HIDE DEF s, m
  <2>3. savestate_request_outstanding' = [c \in Client |-> FALSE]
    BY <1>1, <2>1, <2>2
  <2> QED BY <1>0, <1>2, <2>3 DEF ChecksPass
<1>10. CASE s.frame = m.frame /\ ~CanCheck(p, m.frame)
  <2>1. PICK t : t = [buffer[p][i] EXCEPT !.crc = Game(input, f)]
    OBVIOUS
  <2>2. buffer' = [buffer EXCEPT ![p][i] = t]
    BY <1>1, <1>5, <1>6, <1>7, <1>10, <2>1
  <2>3. buffer'[p] = [buffer[p] EXCEPT ![i] = t]
    BY <1>0, <2>2
  <2>4. WithCrc(buffer[p][i], Game(input, f), t)
    <3>1. SlotShape(buffer[p][i])
      <4>1. RingOf(p, buffer[p], input, read[p], other[p], run[p] + 1)
        BY <1>3 DEF PeerOf
      <4>2. i \in 0..(Size(p) - 1)
        BY <1>7, SlotIndex
      <4> QED BY <4>1, <4>2 DEF RingOf, SlotOf
    <3> QED BY <2>1, <3>1, CrcFields
  <2>5. PICK ring2 : ring2 = buffer'[p]
    OBVIOUS
  <2>6. PeerOf(p, TRUE, self[p], run[p], other[p], read[p], ring2, core[p], input)
    <3>1. buffer[p][i].frame = f /\ Given(input, f)
      BY <1>5, <1>6, <1>8, <1>10
    <3> HIDE DEF s, m
    <3> QED BY <1>0, <1>3, <1>12, <2>3, <2>4, <2>5, <3>1, PollKeepsCrc
  <2>7. PollStep(p)
    BY <1>0, <1>2, <2>2 DEF PollStep
  <2> QED BY <1>1, <1>2, <1>4, <1>9, <2>5, <2>6, <2>7, PollStepKeeps
<1>11. CASE ~(s.frame = m.frame /\ ~CanCheck(p, m.frame))
  <2>1. buffer' = buffer
    BY <1>1, <1>11
  <2>2. PollStep(p)
    BY <1>0, <1>2, <2>1 DEF PollStep
  <2> QED BY <1>1, <1>2, <1>3, <1>4, <1>9, <2>1, <2>2, PollStepKeeps
<1> QED BY <1>10, <1>11

LEMMA StallStep ==
  ASSUME IInv, NEW p \in Player, NEW q \in Peers(p), cmd_stall(p, q)
  PROVE  IInv'
<1>0. /\ Types /\ ChanInv /\ ChecksPass /\ PeerInv(p)
      /\ DOMAIN buffer = Player /\ read \in [Player -> Counts]
  BY DEF IInv, Types
<1>1. /\ pc[p] = "poll" /\ chan[q][p] # <<>> /\ chan' = Taken(p, q)
      /\ UNCHANGED <<pc, counts, read, latency, told, buffer, core, crcs, input>>
  BY DEF cmd_stall, Received
<1>2. PeerOf(p, TRUE, self[p], run[p], other[p], read[p], buffer[p], core[p], input)
  <2>1. (pc[p] = "poll") = TRUE
    BY <1>1
  <2> QED BY <1>0, <2>1 DEF PeerInv
<1>3. PollStep(p) /\ ChecksPass' /\ read' = read /\ buffer' = buffer
  BY <1>0, <1>1 DEF PollStep, ChecksPass, counts, crcs
<1>4. ChanOf(chan', input)
  BY <1>0, <1>1, ChanTaken
<1> QED BY <1>1, <1>2, <1>3, <1>4, PollStepKeeps

MovesOn(p) == /\ input' = input /\ other[p] <= other'[p]
              /\ \A q \in Player : q # p => other'[q] = other[q]

LEMMA PostFrameStep ==
  ASSUME IInv, NEW p \in Player, netplay_sync_post_frame(p)
  PROVE  IInv' /\ MovesOn(p)
<1>0. /\ Types /\ ChanInv /\ ChecksPass /\ (\A q \in Player : PeerInv(q))
      /\ self[p] \in Nat /\ run[p] \in Nat /\ other[p] \in Nat /\ read[p] \in Counts
      /\ input \in Histories /\ DOMAIN buffer = Player /\ DOMAIN core = Player
      /\ latency \in [Player -> Nat]
  BY DEF IInv, Types
<1> DEFINE St(l) == NewStall(p, l)
           Run1(l) == IF Stalled(p, St(l)) THEN run[p] ELSE run[p] + 1
           Self1(l) == IF (~Stalled(p, St(l)) \/ St(l) = "latency") /\ self[p] < Run1(l) + l
                         THEN self[p] + 1 ELSE self[p]
           Other1(l) == OtherAfter(p, Run1(l))
           B == [buffer[p] EXCEPT ![run[p] % Size(p)] = netplay_resolve_input(p, @, FALSE)]
           Again(l) == ResolvedAgain(p, B, other[p]..(Run1(l) - 1))
           First(l) == ReplayFrom(p, B, Again(l), Run1(l))
           State(l) == Replayed(p, B, Again(l), First(l), Run1(l))
<1>30. PICK l \in NewLatency(p) :
        /\ pc[p] = "poll" /\ pc' = [pc EXCEPT ![p] = "pre"]
        /\ latency' = [latency EXCEPT ![p] = l]
        /\ run' = [run EXCEPT ![p] = Run1(l)] /\ self' = [self EXCEPT ![p] = Self1(l)]
        /\ other' = [other EXCEPT ![p] = Other1(l)]
        /\ core' = [core EXCEPT ![p] =
             IF First(l) < Run1(l) THEN State(l)[Run1(l)]
             ELSE IF Stalled(p, St(l)) THEN @ ELSE Append(@, B[run[p] % Size(p)].resolved)]
        /\ buffer' = [buffer EXCEPT ![p] = Rewound(B, Again(l), First(l), State(l))]
        /\ IF p = Server
             THEN ServerPost(Rewound(B, Again(l), First(l), State(l)),
                             other[p]..(Other1(l) - 1), Self1(l), Stalled(p, St(l)))
             ELSE ClientPost(p, Rewound(B, Again(l), First(l), State(l)),
                             other[p]..(Other1(l) - 1))
        /\ read' = read /\ input' = input
  BY Zenon DEF netplay_sync_post_frame, Rewound
<1>31. PICK st, run1, self1, other1, b, again, first, state, ring :
         /\ st = St(l) /\ run1 = Run1(l) /\ self1 = Self1(l) /\ other1 = Other1(l)
         /\ b = B /\ again = Again(l) /\ first = First(l) /\ state = State(l)
         /\ ring = Rewound(B, Again(l), First(l), State(l))
  BY Zenon
<1>1. /\ run1 = IF Stalled(p, st) THEN run[p] ELSE run[p] + 1
      /\ self1 = IF (~Stalled(p, st) \/ st = "latency") /\ self[p] < run1 + l
                   THEN self[p] + 1 ELSE self[p]
      /\ other1 = OtherAfter(p, run1)
  BY <1>31
<1>32. /\ b = [buffer[p] EXCEPT ![run[p] % Size(p)] = netplay_resolve_input(p, @, FALSE)]
       /\ again = ResolvedAgain(p, b, other[p]..(run1 - 1))
       /\ first = ReplayFrom(p, b, again, run1)
       /\ state = Replayed(p, b, again, first, run1)
       /\ ring = Rewound(b, again, first, state)
  BY <1>31
<1> HIDE DEF St, Run1, Self1, Other1, B, Again, First, State
<1>33. /\ pc[p] = "poll" /\ pc' = [pc EXCEPT ![p] = "pre"]
       /\ latency' = [latency EXCEPT ![p] = l]
       /\ run' = [run EXCEPT ![p] = run1] /\ self' = [self EXCEPT ![p] = self1]
       /\ other' = [other EXCEPT ![p] = other1]
       /\ core' = [core EXCEPT ![p] =
            IF first < run1 THEN state[run1]
            ELSE IF Stalled(p, st) THEN @ ELSE Append(@, b[run[p] % Size(p)].resolved)]
       /\ buffer' = [buffer EXCEPT ![p] = ring] /\ read' = read /\ input' = input
  BY <1>30, <1>31
<1>34. IF p = Server
         THEN ServerPost(ring, other[p]..(other1 - 1), self1, Stalled(p, st))
         ELSE ClientPost(p, ring, other[p]..(other1 - 1))
  BY <1>30, <1>31
<1>2. PeerOf(p, TRUE, self[p], run[p], other[p], read[p], buffer[p], core[p], input)
  <2>1. (pc[p] = "poll") = TRUE
    BY <1>33
  <2> QED BY <1>0, <2>1 DEF PeerInv
<1>3. /\ CountsOf(p, TRUE, self[p], run[p], other[p], read[p], input)
      /\ other[p] <= run[p] /\ run[p] <= self[p] /\ read[p][p] = self[p] + 1
      /\ ReadOf(input, read[p], other[p])
      /\ RingOf(p, buffer[p], input, read[p], other[p], run[p] + 1)
  BY <1>2 DEF PeerOf, CountsOf
<1>4. run1 \in Nat /\ other[p] <= run1 /\ run1 <= run[p] + 1 /\ run1 <= read[p][p]
  BY <1>0, <1>1, <1>3 DEF Counts
<1>5. PICK i : InSlot(p, run[p], i)
  BY <1>0 DEF InSlot
<1>6. PICK t : t = netplay_resolve_input(p, buffer[p][i], FALSE)
  OBVIOUS
<1>7. PICK core1 : core1 = IF Stalled(p, st) THEN core[p] ELSE Append(core[p], t.resolved)
  OBVIOUS
<1>8. i \in 0..(Size(p) - 1) /\ DOMAIN buffer[p] = 0..(Size(p) - 1)
  BY <1>3, <1>5, SlotIndex DEF InSlot, RingOf
<1>9. b = [buffer[p] EXCEPT ![i] = t] /\ b[i] = t
  BY <1>32, <1>5, <1>6, <1>8 DEF InSlot
<1>10. RanOf(p, b, input, read[p], other[p], run[p], run1, core1)
  <2>1. IsResolved(buffer[p][i], t)
    <3>1. SlotShape(buffer[p][i])
      BY <1>3, <1>8 DEF RingOf, SlotOf
    <3> QED BY <1>6, <3>1, ResolvedFields
  <2>2. RunsOrNot(run[p], core[p], t, run1, core1)
    BY <1>1, <1>7 DEF RunsOrNot
  <2> QED BY <1>0, <1>2, <1>5, <1>9, <2>1, <2>2, PostRuns
<1>11. AgainOf(p, b, other[p], run1, again)
  <2>1. again = [f \in other[p]..(run1 - 1) |-> netplay_resolve_input(p, b[f % Size(p)], TRUE)]
    BY <1>32 DEF ResolvedAgain
  <2>2. ASSUME NEW f \in other[p]..(run1 - 1) PROVE IsResolved(b[f % Size(p)], again[f])
    <3>1. PICK w : w = b[f % Size(p)]
      OBVIOUS
    <3>2. SlotShape(w)
      <4>1. f % Size(p) \in 0..(Size(p) - 1)
        BY <1>0, SlotIndex
      <4> QED BY <1>10, <3>1, <4>1 DEF RanOf, RingOf, SlotOf
    <3>3. again[f] = netplay_resolve_input(p, w, TRUE)
      BY <2>1, <3>1
    <3> QED BY <3>1, <3>2, <3>3, ResolvedFields
  <2> QED BY <2>1, <2>2 DEF AgainOf
<1>12. FirstOf(p, b, other[p], run1, again, first)
  BY <1>0, <1>32, <1>4, <1>11, ReplayStart DEF AgainOf
<1>13. core'[p] = IF first < run1 THEN state[run1] ELSE core1
  BY <1>0, <1>33, <1>5, <1>7, <1>9 DEF InSlot
<1>14. RewoundOf(p, ring, input, read[p], other[p], run1, core'[p])
  <2>1. first < run1 => state = Replayed(p, b, again, first, run1)
    BY <1>32
  <2>2. ring = Rewound(b, again, first, state)
    BY <1>32
  <2> QED BY <1>0, <1>4, <1>10, <1>11, <1>12, <1>13, <2>1, <2>2, PostReplays
<1>15. /\ other1 \in Nat /\ other[p] <= other1 /\ other1 <= run1
       /\ ReadOf(input, read[p], other1)
  BY <1>0, <1>1, <1>3, <1>4, FinalFrames
<1>16. /\ RingOf(p, ring, input, read[p], other1, run1)
       /\ CoreOf(p, ring, input, other1, run1, core'[p])
       /\ \A f \in other[p]..(other1 - 1) : FinalSlot(ring[f % Size(p)], input, f)
  BY <1>0, <1>3, <1>4, <1>14, <1>15, PostFinal
<1>17. l \in Nat
  <2>1. latency[p] \in Nat /\ LatencyMin[p] \in Nat
    BY <1>0, BoundAssumption
  <2> QED BY <2>1 DEF NewLatency
<1>18. /\ run1 <= self1 /\ self1 \in Nat /\ self1 <= read[p][p] /\ read[p][p] <= self1 + 1
  BY <1>0, <1>1, <1>3, <1>4, <1>17
<1>19. PeerOf(p, FALSE, self1, run1, other1, read[p], ring, core'[p], input)
  <2>1. CountsOf(p, FALSE, self1, run1, other1, read[p], input)
    BY <1>3, <1>15, <1>18 DEF CountsOf
  <2> QED BY <1>16, <2>1 DEF PeerOf
<1>20. ASSUME NEW q \in Player PROVE PeerInv(q)'
  <2>1. CASE q = p
    <3>1. (pc'[p] = "poll") = FALSE
      BY <1>0, <1>33 DEF Types
    <3>2. /\ self'[p] = self1 /\ run'[p] = run1 /\ other'[p] = other1 /\ buffer'[p] = ring
          /\ read' = read /\ input' = input
      BY <1>0, <1>33 DEF Types
    <3> QED BY <1>19, <2>1, <3>1, <3>2 DEF PeerInv
  <2>2. CASE q # p
    <3>1. Extends(input, input)
      <4>1. \A c \in Player : Len(input[c]) \in Nat
        BY <1>0 DEF Histories
      <4> QED BY <4>1 DEF Extends
    <3>2. /\ pc'[q] = pc[q] /\ self'[q] = self[q] /\ run'[q] = run[q] /\ other'[q] = other[q]
          /\ buffer'[q] = buffer[q] /\ core'[q] = core[q] /\ read' = read /\ input' = input
      BY <1>0, <1>33, <2>2 DEF Types
    <3> QED BY <1>0, <3>1, <3>2, OtherPeer
  <2> QED BY <2>1, <2>2
<1>21. Types'
  BY <1>0, <1>33, <1>15, <1>17, <1>18, <1>4 DEF Types
<1>24. MovesOn(p)
  BY <1>0, <1>15, <1>33 DEF MovesOn, Types
<1>22. CASE p = Server
  <2>1. ServerPost(ring, other[p]..(other1 - 1), self1, Stalled(p, st))
    BY <1>34, <1>22
  <2>2. ChecksPass'
    BY <1>0, <2>1 DEF ChecksPass, ServerPost, crcs
  <2>3. CrcCmds(other[p]..(other1 - 1), ring) \in Seq(Commands(Server, input))
    <3> DEFINE F == other[p]..(other1 - 1)
               D == {f \in F : f % CheckFrames = 0}
               due == InOrder(D)
    <3>1. due \in Seq(D)
      <4>1. D \in SUBSET Nat
        BY <1>0
      <4>2. IsFiniteSet(D)
        <5>1. IsFiniteSet(F)
          BY <1>0, <1>15, FS_Interval
        <5> QED BY <5>1, FS_Subset
      <4> HIDE DEF D
      <4> QED BY <4>1, <4>2, InOrderIsSequence
    <3>2. ASSUME NEW k \in 1..Len(due)
          PROVE  [cmd |-> "CRC", frame |-> due[k], crc |-> ring[due[k] % Size(Server)].state]
                   \in Commands(Server, input)
      <4>1. due[k] \in D
        <5> HIDE DEF due, D
        <5> QED BY <3>1
      <4>2. PICK f \in F : f = due[k]
        BY <4>1
      <4>3. FinalSlot(ring[f % Size(Server)], input, f) /\ f \in Nat
        BY <1>0, <1>16, <1>22, <4>2
      <4>4. PICK x : x = ring[f % Size(Server)].state
        OBVIOUS
      <4>5. Given(input, f) /\ x = Game(input, f)
        BY <4>3, <4>4 DEF FinalSlot
      <4>6. [cmd |-> "CRC", frame |-> f, crc |-> x] \in Commands(Server, input)
        BY <4>3, <4>5, CheckCommand
      <4> HIDE DEF due
      <4> QED BY <4>2, <4>4, <4>6
    <3>3. Len(due) \in Nat
      BY <3>1
    <3>4. CrcCmds(F, ring) = [k \in 1..Len(due) |->
            [cmd |-> "CRC", frame |-> due[k], crc |-> ring[due[k] % Size(Server)].state]]
      BY DEF CrcCmds
    <3> HIDE DEF due
    <3> QED BY <3>2, <3>3, <3>4
  <2>4. ASSUME NEW c \in Client PROVE StallCmd(c, self1) \in Commands(Server, input)
    <3>1. read[Server][c] \in Nat
      BY <1>0, <1>22 DEF Counts, Player
    <3>2. StallCmd(c, self1) \in [cmd : {"STALL"}, frames : Int]
      BY <1>18, <3>1 DEF StallCmd
    <3> QED BY <3>2 DEF Commands
  <2>5. PICK checks : checks = CrcCmds(other[p]..(other1 - 1), ring)
    OBVIOUS
  <2>6. PICK tell : tell = TellToStall(self1, Stalled(p, st))
    OBVIOUS
  <2> DEFINE C == Seq(Commands(Server, input))
             tells(c) == IF c \in tell THEN <<StallCmd(c, self1)>> ELSE <<>>
             g == [c \in Client |-> chan[Server][c] \o checks \o tells(c)]
  <2>7. chan' = [chan EXCEPT ![Server] = g]
    BY <2>1, <2>5, <2>6 DEF ServerPost
  <2>8. g \in [Client -> C]
    <3>1. ASSUME NEW c \in Client PROVE chan[Server][c] \in C /\ tells(c) \in C
      BY <1>0, <2>4 DEF ChanInv, ChanOf, Peers, Player
    <3>2. checks \in C
      BY <2>3, <2>5
    <3> HIDE DEF tells
    <3> QED BY <3>1, <3>2
  <2>9. ChanOf(chan', input)
    <3> HIDE DEF g
    <3> QED BY <1>0, <1>22, <2>7, <2>8, ChanSends DEF ChanInv, Peers
  <2>10. ChanInv'
    BY <1>33, <2>9 DEF ChanInv
  <2> QED BY <1>20, <1>21, <1>24, <2>2, <2>10 DEF IInv
<1>23. CASE p # Server
  <2>1. ClientPost(p, ring, other[p]..(other1 - 1))
    BY <1>34, <1>23
  <2>2. ChanInv'
    BY <1>0, <1>33, <2>1 DEF ChanInv, ClientPost
  <2>3. ChecksPass'
    <3> DEFINE F == other[p]..(other1 - 1)
               at(f) == ring[f % Size(p)]
               known == {f \in F : at(f).crc # NoCrc /\ crcs_valid[p]}
               bad == {f \in known : at(f).crc # at(f).state}
               good == {f \in known : \A g \in bad : f < g}
               checked == crc_validity_checked[p] \/ good # {}
    <3>1. bad = {}
      BY <1>16 DEF FinalSlot
    <3>2. /\ crcs_valid' = [crcs_valid EXCEPT ![p] = @ /\ (bad = {} \/ checked)]
          /\ savestate_request_outstanding' =
               [savestate_request_outstanding EXCEPT ![p] = @ \/ (bad # {} /\ checked)]
      BY <2>1 DEF ClientPost, CheckCrcs
    <3> HIDE DEF bad, checked
    <3>3. /\ crcs_valid = [c \in Client |-> TRUE]
          /\ savestate_request_outstanding = [c \in Client |-> FALSE]
      BY <1>0 DEF ChecksPass
    <3>4. crcs_valid' = [c \in Client |-> TRUE]
      BY <3>1, <3>2, <3>3
    <3>5. savestate_request_outstanding' = [c \in Client |-> FALSE]
      BY <3>1, <3>2, <3>3
    <3> QED BY <3>4, <3>5 DEF ChecksPass
  <2> QED BY <1>20, <1>21, <1>24, <2>2, <2>3 DEF IInv
<1> QED BY <1>22, <1>23

-----------------------------------------------------------------------------
(* The invariant holds. *)
LEMMA InitPeer ==
  ASSUME Init, NEW p \in Player
  PROVE  PeerInv(p)
<1> DEFINE n == Size(p)
           ring == buffer[p]
           rd == read[p]
<1>0. /\ (pc[p] = "poll") = FALSE /\ self[p] = 1 /\ run[p] = 1 /\ other[p] = 1
      /\ rd = [c \in Player |-> 1] /\ input = [c \in Player |-> <<Zero>>]
      /\ core[p] = <<[c \in Player |-> Zero]>>
      /\ \A c \in Player : Len(input[c]) = 1 /\ input[c][1] = Zero /\ rd[c] = 1
  BY DEF Init
<1>1. n \in Nat \ {0}
  BY SizeIsPositive
<1>2. ring = [i \in 0..(n - 1) |->
                IF i = 0 THEN [Cleared(NewSlot, 0) EXCEPT !.real = [c \in Player |-> Zero]]
                         ELSE NewSlot]
  BY DEF Init
<1>3. SlotShape(NewSlot) /\ NewSlot.frame = None /\ NewSlot.crc = NoCrc
  BY DEF NewSlot, SlotShape, Fields
<1>4. PICK t : t = Cleared(NewSlot, 0)
  OBVIOUS
<1>5. IsCleared(NewSlot, 0, t)
  BY <1>3, <1>4, ClearedFields
<1>6. PICK z : z = [t EXCEPT !.real = [c \in Player |-> Zero]]
  OBVIOUS
<1>7. SlotShape(z) /\ z.frame = 0 /\ z.crc = NoCrc /\ z.state = <<>>
  <2>1. SlotShape(t) /\ t.frame = 0 /\ t.crc = NoCrc /\ t.state = <<>>
    BY <1>5 DEF IsCleared, NewSlot
  <2> QED BY <1>6, <2>1 DEF SlotShape, Fields
<1> HIDE DEF n
<1>8. ASSUME NEW i \in 0..(n - 1)
      PROVE  /\ SlotOf(ring[i], input, rd, 1, 1)
             /\ ring[i].frame # None => ring[i].frame % n = i
  <2>1. CASE i = 0
    <3>1. ring[i] = z
      BY <1>2, <1>4, <1>6, <2>1
    <3>2. Game(input, 0) = <<>>
      BY DEF Game
    <3>3. SlotOf(z, input, rd, 1, 1)
      BY <1>7, <3>2 DEF SlotOf, RealOf, StateOf, CrcOf
    <3>4. 0 % n = 0
      BY <1>1
    <3> QED BY <1>7, <2>1, <3>1, <3>3, <3>4
  <2>2. CASE i # 0
    <3>1. ring[i] = NewSlot
      BY <1>2, <2>2
    <3>2. SlotOf(NewSlot, input, rd, 1, 1)
      BY <1>3 DEF SlotOf, RealOf, StateOf, CrcOf, None
    <3> QED BY <1>3, <3>1, <3>2
  <2> QED BY <2>1, <2>2
<1>9. RingOf(p, ring, input, rd, 1, 1)
  <2>1. DOMAIN ring = 0..(n - 1)
    BY <1>2
  <2>2. \A c \in Player : 1..(rd[c] - 1) = {}
    BY <1>0
  <2> QED BY <1>8, <2>1, <2>2 DEF RingOf, n
<1>10. CoreOf(p, ring, input, 1, 1, core[p])
  <2> SUFFICES ASSUME NEW f \in 1..1
               PROVE  (IF f = 1 THEN core[p] ELSE ring[f % Size(p)].state)
                        = [j \in 1..f |-> Played(p, ring, input, 1, j - 1)]
    BY DEF CoreOf
  <2>1. f = 1
    OBVIOUS
  <2>2. Inputs(input, 0) = [c \in Player |-> Zero]
    <3>1. \A c \in Player : input[c][0 + 1] = Zero
      BY <1>0
    <3> QED BY <3>1 DEF Inputs
  <2>3. \A j \in 1..1 : Played(p, ring, input, 1, j - 1) = [c \in Player |-> Zero]
    BY <2>2 DEF Played
  <2>4. core[p] = [j \in 1..1 |-> [c \in Player |-> Zero]]
    BY <1>0
  <2> QED BY <2>1, <2>3, <2>4
<1>11. CountsOf(p, FALSE, 1, 1, 1, rd, input)
  BY <1>0 DEF CountsOf, ReadOf
<1> QED BY <1>0, <1>9, <1>10, <1>11 DEF PeerInv, PeerOf

LEMMA InitInvariant == Init => IInv
<1> SUFFICES ASSUME Init PROVE IInv
  OBVIOUS
<1>1. \A p \in Player : PeerInv(p)
  BY InitPeer
<1>2. Types
  <2>1. input \in Histories
    <3>1. <<Zero>> \in Seq(Pressed)
      BY DEF Pressed
    <3> QED BY <3>1 DEF Init, Histories
  <2>2. read \in [Player -> Counts]
    BY DEF Init, Counts
  <2> QED BY <2>1, <2>2 DEF Init, Types
<1>3. ChanInv /\ ChecksPass
  BY DEF Init, ChanInv, ChanOf, ChecksPass
<1> QED BY <1>1, <1>2, <1>3 DEF IInv

LEMMA NextInvariant == IInv /\ [Next]_vars => IInv'
<1> SUFFICES ASSUME IInv, [Next]_vars PROVE IInv'
  OBVIOUS
<1>1. ASSUME NEW p \in Player, netplay_sync_pre_frame(p) PROVE IInv'
  BY <1>1, PreFrameStep
<1>2. ASSUME NEW p \in Player, netplay_sync_post_frame(p) PROVE IInv'
  BY <1>2, PostFrameStep
<1>3. ASSUME NEW p \in Player, NEW q \in Peers(p), cmd_input(p, q) PROVE IInv'
  BY <1>3, InputStep
<1>4. ASSUME NEW p \in Player, NEW q \in Peers(p), cmd_crc(p, q) PROVE IInv'
  BY <1>4, CrcStep
<1>5. ASSUME NEW p \in Player, NEW q \in Peers(p), cmd_stall(p, q) PROVE IInv'
  BY <1>5, StallStep
<1>6. CASE UNCHANGED vars
  <2>1. \A q \in Player : PeerInv(q)'
    BY <1>6 DEF IInv, PeerInv, vars, counts
  <2> QED BY <1>6, <2>1 DEF IInv, Types, ChanInv, ChecksPass, vars, counts, stalls, crcs
<1> QED BY <1>1, <1>2, <1>3, <1>4, <1>5, <1>6 DEF Next, Frame, GetCmd

(* What is guessed and replayed never touches what is final: the slots,    *)
(* the states and the commands on the way of NetplaySync stay those of one *)
(* game (netplay_sync_pre_frame, netplay_poll, netplay_get_cmd,            *)
(* netplay_sync_post_frame).                                               *)
THEOREM Invariant == Spec => []IInv
<1> QED BY InitInvariant, NextInvariant, PTL DEF Spec

(* The checks the server sends never fail, on any client.                  *)
THEOREM ChecksNeverFail == Spec => []CrcsAgree
<1>1. IInv => CrcsAgree
  BY DEF IInv, ChecksPass, CrcsAgree
<1> QED BY <1>1, Invariant, PTL

-----------------------------------------------------------------------------
(* What a peer will not take back is the game, and it moves on in order.   *)
LEMMA HistoryOfPeer ==
  ASSUME IInv, NEW p \in Player
  PROVE  /\ History(p) = Game(input, other[p]) /\ Given(input, other[p])
         /\ other[p] \in Nat
<1>1. /\ other[p] \in Nat /\ run[p] \in Nat /\ read[p] \in Counts /\ input \in Histories
      /\ PeerInv(p)
  BY DEF IInv, Types
<1>2. /\ other[p] <= run[p] /\ ReadOf(input, read[p], other[p])
      /\ CoreOf(p, buffer[p], input, other[p], run[p], core[p])
  BY <1>1 DEF PeerInv, PeerOf, CountsOf
<1>3. History(p) = IF other[p] = run[p] THEN core[p] ELSE buffer[p][other[p] % Size(p)].state
  BY DEF History, Slot
<1>4. PICK o, r, ring, k : /\ o = other[p] /\ r = run[p] /\ o \in Nat /\ r \in Nat
                           /\ ring = buffer[p] /\ k = core[p]
  BY <1>1
<1>5. o <= r /\ CoreOf(p, ring, input, o, r, k)
  BY <1>2, <1>4
<1>6. (IF o = r THEN k ELSE ring[o % Size(p)].state) = Game(input, o)
  BY <1>4, <1>5, HistoryIsGame
<1>7. Given(input, other[p])
  <2>1. \A c \in Player : Len(input[c]) \in Nat /\ read[p][c] \in Nat
    BY <1>1 DEF Histories, Counts
  <2> QED BY <1>1, <1>2, <2>1 DEF Given, ReadOf
<1> QED BY <1>1, <1>3, <1>4, <1>6, <1>7

histories == [p \in Player |-> History(p)]

games == [p \in Player |-> Game(input, other[p])]

LEMMA HistoriesAreGames == IInv => histories = games
BY HistoryOfPeer DEF histories, games

(* Nothing is final that was not: the games stay the same.                 *)
LEMMA GamesStay ==
  ASSUME IInv, IInv', other' = other, Extends(input, input')
  PROVE  histories' = histories
<1>1. input \in Histories /\ input' \in Histories
  BY DEF IInv, Types
<1>2. ASSUME NEW p \in Player PROVE Game(input', other[p]) = Game(input, other[p])
  <2>1. Given(input, other[p]) /\ other[p] \in Nat
    BY HistoryOfPeer
  <2> QED BY <1>1, <2>1, GameKept
<1>3. histories = games
  BY HistoriesAreGames
<1>4. histories' = games'
  <2>1. IInv' => (histories = games)'
    BY HistoriesAreGames, PTL
  <2> QED BY <2>1
<1> QED BY <1>2, <1>3, <1>4 DEF games

LEMMA GivenForAll == IInv => \A q \in Player : Given(input, other[q])
BY HistoryOfPeer

(* A step of the lockstep game, or none. *)
LEMMA AppendExtends ==
  ASSUME NEW in \in Histories, NEW p \in Player, NEW x \in Pressed,
         NEW in2, in2 = [in EXCEPT ![p] = Append(@, x)]
  PROVE  Extends(in, in2)
<1> SUFFICES ASSUME NEW c \in Player
             PROVE  /\ Len(in[c]) <= Len(in2[c])
                    /\ \A k \in 1..Len(in[c]) : in2[c][k] = in[c][k]
  BY DEF Extends
<1>1. in[c] \in Seq(Pressed) /\ Len(in[c]) \in Nat
  BY DEF Histories
<1>2. CASE c = p
  <2>1. in2[c] = Append(in[c], x)
    BY <1>2 DEF Histories
  <2> QED BY <1>1, <2>1
<1>3. CASE c # p
  <2>1. in2[c] = in[c]
    BY <1>3 DEF Histories
  <2> QED BY <1>1, <2>1
<1> QED BY <1>2, <1>3

LEMMA GameLength ==
  ASSUME NEW in \in Histories, NEW o \in Nat
  PROVE  Len(Game(in, o)) = o
<1> DEFINE X == {Inputs(in, k - 1) : k \in 1..o}
<1>1. Game(in, o) = [k \in 1..o |-> Inputs(in, k - 1)]
  BY DEF Game
<1>2. \A k \in 1..o : Inputs(in, k - 1) \in X
  OBVIOUS
<1> HIDE DEF X
<1>3. Game(in, o) \in [1..o -> X]
  BY <1>1, <1>2
<1> QED BY <1>3

(* One frame after the others. *)
FramesAfter(in, o, n) ==
  [k \in 1..n |-> [c \in Player |-> in[c][o + k]]]

LEMMA GameExtended ==
  ASSUME NEW in \in Histories, NEW o \in Nat, NEW n \in Nat
  PROVE  Game(in, o + n) = Game(in, o) \o FramesAfter(in, o, n)
<1> DEFINE e == Game(in, o)
           g == [k \in 1..n |-> [c \in Player |-> in[c][o + k]]]
<1>1. e = [k \in 1..o |-> Inputs(in, k - 1)]
  BY DEF Game
<1>3. e \o g = [k \in 1..(o + n) |-> IF k <= o THEN e[k] ELSE g[k - o]]
  <2>1. e = [k \in 1..o |-> e[k]] /\ g = [k \in 1..n |-> g[k]]
    BY <1>1
  <2> HIDE DEF e, g
  <2> QED BY <2>1, ConcatOfFunctions
<1>4. ASSUME NEW k \in 1..(o + n)
      PROVE  (IF k <= o THEN e[k] ELSE g[k - o]) = Inputs(in, k - 1)
  <2>1. CASE k <= o
    <3>1. k \in 1..o
      BY <2>1
    <3> QED BY <1>1, <2>1, <3>1
  <2>2. CASE ~(k <= o)
    <3>1. k - o \in 1..n /\ o + (k - o) = k /\ k - 1 + 1 = k
      BY <2>2
    <3>2. g[k - o] = [c \in Player |-> in[c][k]]
      BY <3>1
    <3>3. Inputs(in, k - 1) = [c \in Player |-> in[c][k]]
      BY <3>1 DEF Inputs
    <3> QED BY <2>2, <3>2, <3>3
  <2> QED BY <2>1, <2>2
<1>5. Game(in, o + n) = e \o g
  BY <1>3, <1>4 DEF Game
<1> QED BY <1>5 DEF FramesAfter

LEMMA StepIsLockstep ==
  IInv /\ IInv' /\ [Next]_vars => [Lockstep!Next]_<<input, histories>>
<1> SUFFICES ASSUME IInv, IInv', [Next]_vars
             PROVE  Lockstep!Next \/ (input' = input /\ histories' = histories)
  OBVIOUS
<1>0. input \in Histories /\ input' \in Histories /\ other \in [Player -> Nat]
      /\ other' \in [Player -> Nat]
  BY DEF IInv, Types
<1>1. ASSUME input' = input, other' = other PROVE histories' = histories
  <2>1. Extends(input, input')
    <3>1. \A c \in Player : Len(input[c]) \in Nat
      BY <1>0 DEF Histories
    <3> QED BY <1>1, <3>1 DEF Extends
  <2> QED BY <1>1, <2>1, GamesStay
<1>2. ASSUME NEW p \in Player, netplay_sync_pre_frame(p)
      PROVE  Lockstep!Next \/ (input' = input /\ histories' = histories)
  <2>1. other' = other
    BY <1>2 DEF netplay_sync_pre_frame, counts
  <2>2. CASE input' = input
    BY <1>1, <2>1, <2>2
  <2>3. CASE input' # input
    <3>1. PICK x \in IF self[p] < MaxFrame THEN Input[p] ELSE {Zero} :
            input' = [input EXCEPT ![p] = Append(@, x)]
      BY <1>2, <2>3 DEF netplay_sync_pre_frame
    <3>2. x \in Pressed
      BY <3>1 DEF Pressed
    <3>3. Extends(input, input')
      BY <1>0, <3>1, <3>2, AppendExtends
    <3>4. histories' = histories
      BY <2>1, <3>3, GamesStay
    <3>5. Lockstep!Press(p, x)
      BY <3>1, <3>4 DEF Lockstep!Press, histories
    <3> QED BY <3>2, <3>5 DEF Lockstep!Next
  <2> QED BY <2>2, <2>3
<1>3. ASSUME NEW p \in Player, netplay_sync_post_frame(p)
      PROVE  Lockstep!Next \/ (input' = input /\ histories' = histories)
  <2>1. MovesOn(p)
    BY <1>3, PostFrameStep
  <2>2. input' = input /\ other[p] <= other'[p]
        /\ \A q \in Player : q # p => other'[q] = other[q]
    BY <2>1 DEF MovesOn
  <2>3. CASE other'[p] = other[p]
    <3>1. other' = other
      BY <1>0, <2>2, <2>3
    <3> QED BY <1>1, <2>2, <3>1
  <2>4. CASE other'[p] # other[p]
    <3>1. PICK n \in Nat \ {0} : other'[p] = other[p] + n
      <4>1. other'[p] - other[p] \in Nat \ {0}
        BY <1>0, <2>2, <2>4
      <4>2. other'[p] = other[p] + (other'[p] - other[p])
        BY <1>0
      <4> QED BY <4>1, <4>2
    <3>2. PICK o \in Nat : o = other[p]
      BY <1>0
    <3>3. \A c \in Player : o + n <= Len(input[c])
      <4>1. Given(input', other'[p])
        <5>1. IInv' => (\A q \in Player : Given(input, other[q]))'
          BY GivenForAll, PTL
        <5> QED BY <5>1
      <4> QED BY <2>2, <3>1, <3>2, <4>1 DEF Given
    <3>4. histories = games /\ histories' = games'
      <4>1. IInv' => (histories = games)'
        BY HistoriesAreGames, PTL
      <4> QED BY <4>1, HistoriesAreGames
    <3>5. histories[p] = Game(input, o) /\ DOMAIN histories = Player
      BY <3>2, <3>4 DEF games
    <3>6. Len(histories[p]) = o
      BY <1>0, <3>5, GameLength
    <3>7. Game(input, o + n) = histories[p] \o
            [k \in 1..n |-> [c \in Player |-> input[c][Len(histories[p]) + k]]]
      <4>1. Game(input, o + n) = Game(input, o) \o FramesAfter(input, o, n)
        BY <1>0, GameExtended
      <4> QED BY <3>5, <3>6, <4>1 DEF FramesAfter
    <3>8. histories' = [histories EXCEPT ![p] = Game(input, o + n)]
      <4>1. games' = [q \in Player |-> Game(input, other'[q])]
        BY <2>2 DEF games
      <4>2. games' = [games EXCEPT ![p] = Game(input, o + n)]
        BY <2>2, <3>1, <3>2, <4>1 DEF games
      <4> QED BY <3>4, <4>2
    <3>9. Lockstep!Advance(p, n)
      BY <2>2, <3>3, <3>6, <3>7, <3>8 DEF Lockstep!Advance, histories
    <3>10. n \in 1..Len(input[p])
      <4>1. Len(input[p]) \in Nat
        BY <1>0 DEF Histories
      <4> QED BY <3>3, <4>1
    <3> QED BY <3>9, <3>10 DEF Lockstep!Next
  <2> QED BY <2>3, <2>4
<1>4. ASSUME NEW p \in Player, NEW q \in Peers(p), GetCmd(p, q)
      PROVE  input' = input /\ histories' = histories
  <2>1. input' = input /\ other' = other
    BY <1>4 DEF GetCmd, cmd_input, cmd_crc, cmd_stall, counts
  <2> QED BY <1>1, <2>1
<1>5. CASE UNCHANGED vars
  BY <1>1, <1>5 DEF vars, counts
<1> QED BY <1>2, <1>3, <1>4, <1>5 DEF Next, Frame

(* Whatever is guessed, replayed, delayed and stalled, each peer makes     *)
(* final the frames of one game, in order: the synchronisation implements  *)
(* NetplayLockstep.                                                        *)
THEOREM PeersInLockstep == Spec => ImplementsLockstep
<1>1. Init => Lockstep!Init
  BY DEF Init, Lockstep!Init, History
<1>2. IInv /\ IInv' /\ [Next]_vars
        => [Lockstep!Next]_<<input, [p \in Player |-> History(p)]>>
  BY StepIsLockstep DEF histories
<1> QED BY <1>1, <1>2, Invariant, PTL DEF Spec, ImplementsLockstep, Lockstep!Spec

-----------------------------------------------------------------------------
(* The inputs on their way.                                                *)
(*                                                                         *)
(* Those of player c in s are of the frames r to e - 1, each once and in   *)
(* order.                                                                  *)
Flow(s, c, r, e) ==
  /\ \A k \in InputsOf(s, c) : s[k].frame \in r..(e - 1)
  /\ \A j, k \in InputsOf(s, c) : j < k => s[j].frame < s[k].frame
  /\ \A f \in r..(e - 1) : \E k \in InputsOf(s, c) : s[k].frame = f

IsSequence(s) == Len(s) \in Nat /\ s = [k \in 1..Len(s) |-> s[k]]

LEMMA SequenceOf == ASSUME NEW X, NEW s \in Seq(X) PROVE IsSequence(s)
BY DEF IsSequence

LEMMA NoFlow ==
  ASSUME NEW s, NEW c, NEW r \in Nat PROVE Flow(s, c, r, r) <=> InputsOf(s, c) = {}
BY DEF Flow

LEMMA FlowOfOne ==
  ASSUME NEW s, NEW c, NEW i, InputsOf(s, c) = {i}, NEW r \in Nat, s[i].frame = r
  PROVE  Flow(s, c, r, r + 1)
<1>1. i \in Int
  BY DEF InputsOf
<1>2. \A f \in r..(r + 1 - 1) : f = r
  OBVIOUS
<1>3. \A j, k \in InputsOf(s, c) : ~(j < k)
  BY <1>1
<1> QED BY <1>2, <1>3 DEF Flow

Joins(s, t, c, u, n) ==
  /\ IsSequence(u)
  /\ \A k \in InputsOf(s, c) : k \in InputsOf(u, c) /\ k <= n /\ u[k] = s[k]
  /\ \A k \in InputsOf(t, c) : n + k \in InputsOf(u, c) /\ n < n + k /\ u[n + k] = t[k]
  /\ \A k \in InputsOf(u, c) : \/ k <= n /\ k \in InputsOf(s, c) /\ u[k] = s[k]
                               \/ n < k /\ k - n \in InputsOf(t, c) /\ u[k] = t[k - n]

LEMMA InputsOfConcat ==
  ASSUME NEW s, IsSequence(s), NEW t, IsSequence(t), NEW c, NEW u, u = s \o t,
         NEW n, n = Len(s)
  PROVE  Joins(s, t, c, u, n)
<1> DEFINE X == {s[k] : k \in 1..Len(s)} \cup {t[k] : k \in 1..Len(t)}
<1>1. s \in Seq(X) /\ t \in Seq(X)
  <2>1. \A k \in 1..Len(s) : s[k] \in X
    OBVIOUS
  <2>2. \A k \in 1..Len(t) : t[k] \in X
    OBVIOUS
  <2> HIDE DEF X
  <2>3. PICK a, b : a = Len(s) /\ b = Len(t)
    OBVIOUS
  <2>4. a \in Nat /\ b \in Nat /\ s \in [1..a -> X] /\ t \in [1..b -> X]
    BY <2>1, <2>2, <2>3 DEF IsSequence
  <2>5. s \in Seq(X)
    BY <2>4
  <2>6. t \in Seq(X)
    BY <2>4
  <2> QED BY <2>5, <2>6
<1> HIDE DEF X
<1>2. PICK m : m = Len(t)
  OBVIOUS
<1>3. u \in Seq(X) /\ Len(u) = n + m /\ n \in Nat /\ m \in Nat
  BY <1>1, <1>2
<1>4. \A k \in 1..n : u[k] = s[k]
  BY <1>1
<1>5. \A k \in (n + 1)..(n + m) : u[k] = t[k - n]
  BY <1>1, <1>2
<1>6. IsSequence(u)
  BY <1>3, SequenceOf
<1>7. \A k \in InputsOf(s, c) : k \in InputsOf(u, c) /\ k <= n /\ u[k] = s[k]
  BY <1>3, <1>4 DEF InputsOf
<1>8. ASSUME NEW k \in InputsOf(t, c)
      PROVE  n + k \in InputsOf(u, c) /\ n < n + k /\ u[n + k] = t[k]
  <2>1. k \in 1..m /\ t[k].cmd = "INPUT" /\ t[k].client = c
    BY <1>2 DEF InputsOf
  <2>2. PICK i : i = n + k
    OBVIOUS
  <2>3. i \in (n + 1)..(n + m) /\ i - n = k /\ i \in 1..(n + m) /\ n < i
    BY <1>3, <2>1, <2>2
  <2>4. u[i] = t[k]
    BY <1>5, <2>3
  <2> QED BY <1>3, <2>1, <2>2, <2>3, <2>4 DEF InputsOf
<1>9. ASSUME NEW k \in InputsOf(u, c)
      PROVE  \/ k <= n /\ k \in InputsOf(s, c) /\ u[k] = s[k]
             \/ n < k /\ k - n \in InputsOf(t, c) /\ u[k] = t[k - n]
  <2>1. k \in 1..(n + m) /\ u[k].cmd = "INPUT" /\ u[k].client = c
    BY <1>3 DEF InputsOf
  <2>2. CASE k <= n
    <3>1. k \in 1..n
      BY <1>3, <2>1, <2>2
    <3> QED BY <1>4, <2>1, <2>2, <3>1 DEF InputsOf
  <2>3. CASE n < k
    <3>1. k \in (n + 1)..(n + m) /\ k - n \in 1..m
      BY <1>3, <2>1, <2>3
    <3> QED BY <1>2, <1>5, <2>1, <2>3, <3>1 DEF InputsOf
  <2> QED BY <1>3, <2>1, <2>2, <2>3
<1> QED BY <1>6, <1>7, <1>8, <1>9 DEF Joins

LEMMA FlowOn ==
  ASSUME NEW s, IsSequence(s), NEW t, IsSequence(t), NEW c,
         NEW r \in Nat, NEW d \in Nat, NEW e \in Nat, r <= d, d <= e,
         Flow(s, c, r, d), Flow(t, c, d, e)
  PROVE  Flow(s \o t, c, r, e)
<1>1. PICK u, n : u = s \o t /\ n = Len(s)
  OBVIOUS
<1>2. /\ IsSequence(u)
      /\ \A k \in InputsOf(s, c) : k \in InputsOf(u, c) /\ k <= n /\ u[k] = s[k]
      /\ \A k \in InputsOf(t, c) : n + k \in InputsOf(u, c) /\ n < n + k /\ u[n + k] = t[k]
      /\ \A k \in InputsOf(u, c) : \/ k <= n /\ k \in InputsOf(s, c) /\ u[k] = s[k]
                                   \/ n < k /\ k - n \in InputsOf(t, c) /\ u[k] = t[k - n]
  <2>1. Joins(s, t, c, u, n)
    BY <1>1, InputsOfConcat
  <2> QED BY <2>1 DEF Joins
<1>3. /\ \A k \in InputsOf(s, c) : k \in Nat /\ s[k].frame \in r..(d - 1)
      /\ \A k \in InputsOf(t, c) : k \in Nat /\ t[k].frame \in d..(e - 1)
      /\ \A k \in InputsOf(u, c) : k \in Nat
      /\ n \in Nat
  BY <1>1 DEF Flow, InputsOf, IsSequence
<1>4. ASSUME NEW k \in InputsOf(u, c) PROVE u[k].frame \in r..(e - 1)
  <2>1. \A f \in r..(d - 1) : f \in r..(e - 1)
    OBVIOUS
  <2>2. \A f \in d..(e - 1) : f \in r..(e - 1)
    OBVIOUS
  <2> QED BY <1>2, <1>3, <2>1, <2>2
<1>5. ASSUME NEW j \in InputsOf(u, c), NEW k \in InputsOf(u, c), j < k
      PROVE  u[j].frame < u[k].frame
  <2>1. CASE k <= n
    <3>1. j <= n /\ ~(n < j) /\ ~(n < k)
      BY <1>3, <1>5, <2>1
    <3>2. j \in InputsOf(s, c) /\ k \in InputsOf(s, c) /\ u[j] = s[j] /\ u[k] = s[k]
      BY <1>2, <3>1
    <3> QED BY <1>5, <3>2 DEF Flow
  <2>2. CASE n < j
    <3>1. n < k /\ ~(j <= n) /\ ~(k <= n) /\ j - n < k - n
      BY <1>3, <1>5, <2>2
    <3>2. /\ j - n \in InputsOf(t, c) /\ k - n \in InputsOf(t, c)
          /\ u[j] = t[j - n] /\ u[k] = t[k - n]
      BY <1>2, <3>1
    <3> QED BY <3>1, <3>2 DEF Flow
  <2>3. CASE j <= n /\ n < k
    <3>1. ~(n < j) /\ ~(k <= n)
      BY <1>3, <2>3
    <3>2. /\ j \in InputsOf(s, c) /\ k - n \in InputsOf(t, c)
          /\ u[j] = s[j] /\ u[k] = t[k - n]
      BY <1>2, <3>1
    <3>3. u[j].frame \in r..(d - 1) /\ u[k].frame \in d..(e - 1)
      BY <1>3, <3>2
    <3> QED BY <3>3
  <2> QED BY <1>3, <2>1, <2>2, <2>3
<1>6. ASSUME NEW f \in r..(e - 1) PROVE \E k \in InputsOf(u, c) : u[k].frame = f
  <2>1. CASE f < d
    <3>1. f \in r..(d - 1)
      BY <2>1
    <3>2. PICK k \in InputsOf(s, c) : s[k].frame = f
      BY <3>1 DEF Flow
    <3> QED BY <1>2, <3>2
  <2>2. CASE ~(f < d)
    <3>1. f \in d..(e - 1)
      BY <2>2
    <3>2. PICK k \in InputsOf(t, c) : t[k].frame = f
      BY <3>1 DEF Flow
    <3> QED BY <1>2, <3>2
  <2> QED BY <2>1, <2>2
<1> QED BY <1>1, <1>4, <1>5, <1>6 DEF Flow

(* A command is taken. *)
IsInputOf(m, c) == m.cmd = "INPUT" /\ m.client = c

LEMMA FlowTail ==
  ASSUME NEW X, NEW s \in Seq(X), s # <<>>, NEW c, NEW r \in Nat, NEW e \in Nat,
         Flow(s, c, r, e)
  PROVE  /\ IsInputOf(Head(s), c) => /\ Head(s).frame = r /\ r < e
                                     /\ Flow(Tail(s), c, r + 1, e)
         /\ ~IsInputOf(Head(s), c) => Flow(Tail(s), c, r, e)
<1>1. PICK t, n : t = Tail(s) /\ n = Len(s)
  OBVIOUS
<1>2. /\ n \in Nat \ {0} /\ Len(t) = n - 1 /\ Head(s) = s[1]
      /\ \A k \in 1..(n - 1) : t[k] = s[k + 1]
  BY <1>1
<1>3. ASSUME NEW k \in InputsOf(t, c)
      PROVE  k \in Nat /\ k + 1 \in InputsOf(s, c) /\ t[k] = s[k + 1] /\ k + 1 # 1
  <2>1. k \in 1..(n - 1) /\ t[k].cmd = "INPUT" /\ t[k].client = c
    BY <1>2 DEF InputsOf
  <2>2. k + 1 \in 1..n /\ t[k] = s[k + 1]
    BY <1>2, <2>1
  <2> QED BY <1>1, <2>1, <2>2 DEF InputsOf
<1>4. ASSUME NEW k \in InputsOf(s, c), k # 1
      PROVE  k - 1 \in InputsOf(t, c) /\ t[k - 1] = s[k]
  <2>1. k \in 1..n /\ s[k].cmd = "INPUT" /\ s[k].client = c
    BY <1>1 DEF InputsOf
  <2>2. k - 1 \in 1..(n - 1) /\ k - 1 + 1 = k
    BY <1>2, <1>4, <2>1
  <2>3. t[k - 1] = s[k]
    BY <1>2, <2>2
  <2> QED BY <1>2, <2>1, <2>2, <2>3 DEF InputsOf
<1>5. 1 \in InputsOf(s, c) <=> IsInputOf(Head(s), c)
  BY <1>1, <1>2 DEF InputsOf, IsInputOf
<1>6. \A j, k \in InputsOf(t, c) : j < k => t[j].frame < t[k].frame
  BY <1>3 DEF Flow
<1>7. CASE IsInputOf(Head(s), c)
  <2>1. \A k \in InputsOf(s, c) : k \in Nat /\ k >= 1 /\ s[k].frame \in r..(e - 1)
    BY DEF InputsOf, Flow
  <2>2. 1 \in InputsOf(s, c)
    BY <1>5, <1>7
  <2>3. r < e /\ r \in r..(e - 1)
    BY <2>1, <2>2
  <2>4. s[1].frame = r
    <3>1. PICK k \in InputsOf(s, c) : s[k].frame = r
      BY <2>3 DEF Flow
    <3>2. k # 1 => s[1].frame < r
      BY <2>1, <2>2, <3>1 DEF Flow
    <3> QED BY <2>1, <2>2, <3>1, <3>2
  <2>5. ASSUME NEW k \in InputsOf(t, c) PROVE t[k].frame \in (r + 1)..(e - 1)
    <3>1. k + 1 \in InputsOf(s, c) /\ t[k] = s[k + 1] /\ 1 < k + 1
      BY <1>3, <2>1
    <3>2. s[1].frame < s[k + 1].frame
      BY <2>2, <3>1 DEF Flow
    <3>3. s[k + 1].frame \in r..(e - 1)
      BY <2>1, <3>1
    <3> QED BY <2>4, <3>1, <3>2, <3>3
  <2>6. ASSUME NEW f \in (r + 1)..(e - 1) PROVE \E k \in InputsOf(t, c) : t[k].frame = f
    <3>1. f \in r..(e - 1) /\ f # r
      OBVIOUS
    <3>2. PICK k \in InputsOf(s, c) : s[k].frame = f
      BY <3>1 DEF Flow
    <3>3. k # 1
      BY <2>4, <3>1, <3>2
    <3> QED BY <1>4, <3>2, <3>3
  <2> QED BY <1>1, <1>2, <1>6, <1>7, <2>3, <2>4, <2>5, <2>6 DEF Flow
<1>8. CASE ~IsInputOf(Head(s), c)
  <2>1. \A k \in InputsOf(s, c) : k # 1
    BY <1>5, <1>8
  <2>2. \A k \in InputsOf(t, c) : t[k].frame \in r..(e - 1)
    BY <1>3 DEF Flow
  <2>3. ASSUME NEW f \in r..(e - 1) PROVE \E k \in InputsOf(t, c) : t[k].frame = f
    <3>1. PICK k \in InputsOf(s, c) : s[k].frame = f
      BY DEF Flow
    <3> QED BY <1>4, <2>1, <3>1
  <2> QED BY <1>1, <1>6, <1>8, <2>2, <2>3 DEF Flow
<1> QED BY <1>7, <1>8

(* The k-th input is that of the k-th frame. *)
LEMMA FlowCounts ==
  ASSUME NEW s, IsSequence(s), NEW c, NEW r \in Nat, NEW e \in Nat, Flow(s, c, r, e),
         NEW k \in InputsOf(s, c), NEW B, B = {j \in InputsOf(s, c) : j < k}
  PROVE  s[k].frame = r + Cardinality(B)
<1> DEFINE T == r..(s[k].frame - 1)
           g == [j \in B |-> s[j].frame]
<1>1. /\ \A j \in InputsOf(s, c) : j \in Nat /\ s[j].frame \in Nat /\ s[j].frame >= r
      /\ s[k].frame \in r..(e - 1)
  BY DEF Flow, InputsOf
<1>2. \A j \in B : s[j].frame \in T
  BY <1>1 DEF Flow
<1>3. \A i, j \in B : s[i].frame = s[j].frame => i = j
  <2>1. ASSUME NEW i \in B, NEW j \in B, i < j PROVE s[i].frame # s[j].frame
    BY <1>1, <2>1 DEF Flow
  <2> QED BY <1>1, <2>1
<1>4. ASSUME NEW f \in T PROVE \E j \in B : s[j].frame = f
  <2>1. f \in r..(e - 1) /\ f < s[k].frame
    BY <1>1
  <2>2. PICK j \in InputsOf(s, c) : s[j].frame = f
    BY <2>1 DEF Flow
  <2>3. j < k
    <3>1. k < j => s[k].frame < s[j].frame
      BY DEF Flow
    <3>2. ~(k < j) /\ j # k
      BY <1>1, <2>1, <2>2, <3>1
    <3> QED BY <1>1, <3>2
  <2> QED BY <2>2, <2>3
<1> HIDE DEF T
<1>5. g \in Bijection(B, T)
  <2>1. g \in [B -> T]
    BY <1>2
  <2>2. \A i, j \in B : g[i] = g[j] => i = j
    BY <1>3
  <2>3. \A f \in T : \E j \in B : g[j] = f
    BY <1>4
  <2> QED BY <2>1, <2>2, <2>3 DEF Bijection, Injection, Surjection, IsInjective
<1> HIDE DEF g
<1>6. IsFiniteSet(T) /\ Cardinality(T) = s[k].frame - r
  <2>1. PICK x : x = s[k].frame - 1
    OBVIOUS
  <2>2. x \in Int /\ r - 1 <= x /\ T = r..x /\ s[k].frame = x + 1
    BY <1>1, <2>1 DEF T
  <2>3. IsFiniteSet(r..x) /\ Cardinality(r..x) = IF r > x THEN 0 ELSE x - r + 1
    BY <2>2, FS_Interval
  <2>4. Cardinality(r..x) = x + 1 - r
    BY <2>2, <2>3
  <2> QED BY <2>2, <2>3, <2>4
<1>7. Cardinality(B) = Cardinality(T)
  <2>1. IsFiniteSet(B)
    <3>1. PICK n : n = Len(s)
      OBVIOUS
    <3>2. n \in Nat /\ 1 \in Int
      BY <3>1 DEF IsSequence
    <3>4. IsFiniteSet(1..n)
      BY <3>2, FS_Interval
    <3>3. B \subseteq 1..n
      BY <3>1 DEF InputsOf
    <3> QED BY <3>3, <3>4, FS_Subset
  <2>2. ExistsBijection(B, T)
    BY <1>5 DEF ExistsBijection
  <2> QED BY <2>1, <2>2, FS_Bijection
<1> QED BY <1>1, <1>6, <1>7

-----------------------------------------------------------------------------
(* How many inputs of player c peer q has sent to peer p, where rd are the *)
(* counts of what was read: those it has read and come to; never p's own,  *)
(* and a client sends only its own.                                        *)
Sends(q, p, c) == c # p /\ (q = Server \/ c = q)

Sent(q, p, c, rd) ==
  IF ~Sends(q, p, c) THEN rd[p][c]
  ELSE IF rd[q][c] <= rd[q][q] THEN rd[q][c] ELSE rd[q][q]

FlowOf(q, p, c, s, rd) ==
  rd[p][c] <= Sent(q, p, c, rd) /\ Flow(s, c, rd[p][c], Sent(q, p, c, rd))

Flows == \A p \in Player : \A q \in Peers(p) : \A c \in Player :
           FlowOf(q, p, c, chan[q][p], read)

LEMMA CountsAreNumbers ==
  ASSUME NEW rd \in [Player -> Counts], NEW p \in Player, NEW q \in Player, NEW c \in Player
  PROVE  rd[p][c] \in Nat /\ Sent(q, p, c, rd) \in Nat
BY DEF Counts, Sent

LEMMA PeersArePlayers ==
  ASSUME NEW p \in Player, NEW q \in Peers(p)
  PROVE  q \in Player /\ p \in Peers(q) /\ p # q /\ (p = Server \/ q = Server)
BY ClientAssumption DEF Peers, Player, Server

(* Commands that are no input of c change nothing. *)
LEMMA FlowMore ==
  ASSUME NEW s, IsSequence(s), NEW t, IsSequence(t), NEW q \in Player, NEW p \in Player,
         NEW c \in Player, NEW rd \in [Player -> Counts], FlowOf(q, p, c, s, rd),
         InputsOf(t, c) = {}
  PROVE  FlowOf(q, p, c, s \o t, rd)
<1>1. PICK r, e : r = rd[p][c] /\ e = Sent(q, p, c, rd)
  OBVIOUS
<1>2. r \in Nat /\ e \in Nat
  BY <1>1, CountsAreNumbers
<1>3. Flow(s, c, r, e) /\ r <= e
  BY <1>1 DEF FlowOf
<1>4. Flow(t, c, e, e)
  BY <1>2, NoFlow
<1>5. Flow(s \o t, c, r, e)
  BY <1>2, <1>3, <1>4, FlowOn
<1> QED BY <1>1, <1>3, <1>5 DEF FlowOf

(* Where nothing is sent the counts may move. *)
LEMMA NoneSent ==
  ASSUME NEW s, NEW q \in Player, NEW p \in Player, NEW c \in Player,
         NEW rd \in [Player -> Counts], ~Sends(q, p, c)
  PROVE  FlowOf(q, p, c, s, rd) <=> InputsOf(s, c) = {}
<1>1. PICK r : r = rd[p][c]
  OBVIOUS
<1>2. r \in Nat /\ Sent(q, p, c, rd) = r
  BY <1>1, CountsAreNumbers DEF Sent
<1> QED BY <1>1, <1>2, NoFlow DEF FlowOf

-----------------------------------------------------------------------------
(* InOrder leaves none out. *)
LEMMA InOrderHasAll ==
  ASSUME NEW S \in SUBSET Nat, IsFiniteSet(S), NEW s, s = InOrder(S)
  PROVE  \E n \in Nat : /\ s \in [1..n -> S] /\ \A x \in S : \E i \in 1..n : s[i] = x
                        /\ \A i, j \in 1..n : s[i] = s[j] => i = j
<1>1. PICK n : n = Cardinality(S) /\ n \in Nat
  BY FS_CardinalityType
<1>2. s \in [1..n -> S] /\ \A i, j \in 1..n : i < j => s[i] < s[j]
  <2>1. \E t \in [1..Cardinality(S) -> S] :
          \A i, j \in 1..Cardinality(S) : i < j => t[i] < t[j]
    BY SomeOrdering DEF Ordering
  <2> QED BY <1>1, <2>1 DEF InOrder
<1>3. \A i, j \in 1..n : s[i] = s[j] => i = j
  <2>1. ASSUME NEW i \in 1..n, NEW j \in 1..n, i < j PROVE s[i] # s[j]
    <3>1. s[i] < s[j] /\ s[i] \in Nat /\ s[j] \in Nat
      BY <1>2, <2>1
    <3> QED BY <3>1
  <2> QED BY <1>1, <2>1
<1>4. ASSUME NEW x \in S, \A i \in 1..n : s[i] # x PROVE FALSE
  <2>1. IsFiniteSet(S \ {x}) /\ Cardinality(S \ {x}) = n - 1
    BY <1>1, FS_RemoveElement
  <2>2. IsFiniteSet(1..n) /\ Cardinality(1..n) = n
    BY <1>1, FS_Interval
  <2>3. s \in [1..n -> S \ {x}]
    BY <1>2, <1>4
  <2>4. Cardinality(S \ {x}) < Cardinality(1..n)
    BY <1>1, <2>1, <2>2
  <2>5. \E i, j \in 1..n : i # j /\ s[i] = s[j]
    <3>1. PICK A, B : A = 1..n /\ B = S \ {x}
      OBVIOUS
    <3>2. /\ IsFiniteSet(A) /\ IsFiniteSet(B) /\ Cardinality(B) < Cardinality(A)
          /\ s \in [A -> B]
      BY <2>1, <2>2, <2>3, <2>4, <3>1
    <3>3. \E i, j \in A : i # j /\ s[i] = s[j]
      BY <3>2, FS_PigeonHole
    <3> QED BY <3>1, <3>3
  <2> QED BY <1>3, <2>5
<1> QED BY <1>1, <1>2, <1>3, <1>4

(* What a peer sends when it has read the input of frame t.frame.          *)
LEMMA SentInputsOf ==
  ASSUME NEW p \in Player, NEW t, t.real[p] # NoInput, NEW q \in Peers(p),
         NEW c \in Player, NEW u, u = netplay_send_cur_input(p, t, q)
  PROVE  /\ IsSequence(u)
         /\ ~Sends(p, q, c) \/ t.real[c] = NoInput => InputsOf(u, c) = {}
         /\ Sends(p, q, c) /\ t.real[c] # NoInput =>
              \E i : InputsOf(u, c) = {i} /\ u[i].frame = t.frame
<1>1. PICK others : others = {d \in Client \ {q} : p = Server /\ t.real[d] # NoInput}
  OBVIOUS
<1>2. PICK from : from = InOrder(others)
  OBVIOUS
<1>3. others \in SUBSET Nat /\ IsFiniteSet(others) /\ p \notin others
  <2>1. others \subseteq Client
    BY <1>1
  <2> QED BY <1>1, <2>1, ClientAssumption, FS_Subset DEF Server
<1>4. PICK n \in Nat : /\ from \in [1..n -> others]
                       /\ \A x \in others : \E i \in 1..n : from[i] = x
                       /\ \A i, j \in 1..n : from[i] = from[j] => i = j
  BY <1>2, <1>3, InOrderHasAll
<1>5. PICK cmds : cmds = [k \in 1..n |-> InputCmd(t.frame, from[k], t.real[from[k]])]
  OBVIOUS
<1>6. PICK last : last = InputCmd(t.frame, p, t.real[p])
  OBVIOUS
<1>7. IsSequence(cmds) /\ Len(cmds) = n /\ IsSequence(<<last>>)
  <2>1. Len(cmds) = n
    BY <1>5
  <2>2. <<last>> \in Seq({last})
    OBVIOUS
  <2> QED BY <1>5, <2>1, <2>2, SequenceOf DEF IsSequence
<1>8. u = cmds \o <<last>>
  <2>1. Len(from) = n
    BY <1>4
  <2> QED BY <1>1, <1>2, <1>5, <1>6, <2>1 DEF netplay_send_cur_input
<1>9. Joins(cmds, <<last>>, c, u, n)
  BY <1>7, <1>8, InputsOfConcat
<1>10. InputsOf(cmds, c) = {i \in 1..n : from[i] = c}
  <2>1. \A k \in 1..n : cmds[k].cmd = "INPUT" /\ cmds[k].client = from[k]
    BY <1>5 DEF InputCmd
  <2> QED BY <1>7, <2>1 DEF InputsOf
<1>11. InputsOf(<<last>>, c) = IF c = p THEN {1} ELSE {}
  <2>1. last.cmd = "INPUT" /\ last.client = p
    BY <1>6 DEF InputCmd
  <2> QED BY <2>1 DEF InputsOf
<1>12. c \notin others /\ c # p => InputsOf(u, c) = {}
  <2>1. c \notin others => InputsOf(cmds, c) = {}
    BY <1>4, <1>10
  <2> QED BY <1>9, <1>11, <2>1 DEF Joins
<1>13. c \in others => \E i : InputsOf(u, c) = {i} /\ u[i].frame = t.frame
  <2> SUFFICES ASSUME c \in others
               PROVE  \E i : InputsOf(u, c) = {i} /\ u[i].frame = t.frame
    OBVIOUS
  <2>1. PICK i \in 1..n : from[i] = c /\ InputsOf(cmds, c) = {i}
    BY <1>4, <1>10
  <2>2. InputsOf(<<last>>, c) = {}
    BY <1>3, <1>11
  <2>3. i \in InputsOf(u, c) /\ u[i] = cmds[i] /\ \A k \in InputsOf(u, c) : k = i
    BY <1>9, <2>1, <2>2 DEF Joins
  <2>4. cmds[i].frame = t.frame
    BY <1>5 DEF InputCmd
  <2> QED BY <2>3, <2>4
<1>14. c = p => \E i : InputsOf(u, c) = {i} /\ u[i].frame = t.frame
  <2> SUFFICES ASSUME c = p PROVE \E i : InputsOf(u, c) = {i} /\ u[i].frame = t.frame
    OBVIOUS
  <2>1. InputsOf(cmds, c) = {}
    BY <1>3, <1>4, <1>10
  <2>2. InputsOf(<<last>>, c) = {1} /\ <<last>>[1] = last
    BY <1>11
  <2>3. n + 1 \in InputsOf(u, c) /\ u[n + 1] = last
    BY <1>9, <2>2 DEF Joins
  <2>4. \A k \in InputsOf(u, c) : k = n + 1
    <3>1. ASSUME NEW k \in InputsOf(u, c) PROVE k - 1 - n = 0 /\ k \in Nat
      <4>1. k - n \in {1} /\ k \in Nat
        BY <1>9, <2>1, <2>2 DEF Joins, InputsOf
      <4> QED BY <4>1
    <3> QED BY <3>1
  <2>5. last.frame = t.frame
    BY <1>6 DEF InputCmd
  <2> QED BY <2>3, <2>4, <2>5
<1>15. p # q
  BY PeersArePlayers
<1>16. Sends(p, q, c) /\ t.real[c] # NoInput => c \in others \/ c = p
  BY <1>1 DEF Sends, Player
<1>17. ~Sends(p, q, c) \/ t.real[c] = NoInput => c \notin others /\ c # p
  BY <1>1, <1>15 DEF Sends
<1>18. IsSequence(u)
  BY <1>9 DEF Joins
<1> QED BY <1>12, <1>13, <1>14, <1>16, <1>17, <1>18

-----------------------------------------------------------------------------
(* The steps. *)
LEMMA ChanSequence ==
  ASSUME IInv, NEW p \in Player, NEW q \in Peers(p)
  PROVE  /\ q \in Player /\ chan[q][p] \in Seq(Commands(q, input))
         /\ IsSequence(chan[q][p]) /\ read \in [Player -> Counts]
<1>1. q \in Player /\ p \in Peers(q)
  BY PeersArePlayers
<1>2. chan[q][p] \in Seq(Commands(q, input))
  BY <1>1 DEF IInv, ChanInv, ChanOf
<1> QED BY <1>1, <1>2, SequenceOf DEF IInv, Types

LEMMA FlowsInit == Init => Flows
<1> SUFFICES ASSUME Init PROVE Flows
  OBVIOUS
<1>1. ASSUME NEW p \in Player, NEW q \in Peers(p), NEW c \in Player
      PROVE  FlowOf(q, p, c, chan[q][p], read)
  <2>1. q \in Player /\ p \in Peers(q)
    BY PeersArePlayers
  <2>2. chan[q][p] = <<>>
    BY <2>1 DEF Init
  <2>3. read[p][c] = 1 /\ Sent(q, p, c, read) = 1
    BY <2>1 DEF Init, Sent
  <2>4. InputsOf(<<>>, c) = {}
    BY DEF InputsOf
  <2> QED BY <2>2, <2>3, <2>4, NoFlow DEF FlowOf
<1> QED BY <1>1 DEF Flows

(* The local input is read for frame self, and sent with what is known of it. *)
LEMMA FlowsPre ==
  ASSUME IInv, IInv', Flows, NEW p \in Player, netplay_sync_pre_frame(p)
  PROVE  Flows'
<1> DEFINE saved == Saved(p)
           j == self[p] % Size(p)
           s == Prepared(saved[j], self[p])
<1>0. read \in [Player -> Counts] /\ read' \in [Player -> Counts] /\ self[p] \in Nat
  BY DEF IInv, Types
<1>1. CASE s.real[p] # NoInput
  <2>1. read' = read /\ chan' = chan
    BY <1>1 DEF netplay_sync_pre_frame
  <2> QED BY <2>1 DEF Flows
<1>2. CASE s.real[p] = NoInput
  <2>1. PICK x : x \in Pressed
          /\ buffer' = [buffer EXCEPT ![p] = [saved EXCEPT ![j] = [s EXCEPT !.real[p] = x]]]
          /\ read' = [read EXCEPT ![p][p] = self[p] + 1]
          /\ chan' = [chan EXCEPT ![p] = [q \in Peers(p) |->
                       @[q] \o netplay_send_cur_input(p, [s EXCEPT !.real[p] = x], q)]]
          /\ input' = [input EXCEPT ![p] = Append(@, x)]
    BY <1>2 DEF netplay_sync_pre_frame, Pressed
  <2>2. /\ self' = self /\ other' = other /\ pc' = [pc EXCEPT ![p] = "poll"]
    BY DEF netplay_sync_pre_frame, counts
  <2>3. PICK t : t = [s EXCEPT !.real[p] = x]
    OBVIOUS
  <2>4. PICK f : f = self[p] /\ f \in Nat
    BY <1>0
  <2>5. read'[p] = [read[p] EXCEPT ![p] = f + 1] /\ \A q \in Player : q # p => read'[q] = read[q]
    BY <1>0, <2>1, <2>4
  <2>6. read[p][p] = f /\ read'[p][p] = f + 1
    <3>1. read'[p][p] = f + 1
      BY <1>0, <2>5 DEF Counts
    <3>2. Len(input[p]) = read[p][p] /\ Len(input'[p]) = read'[p][p]
      BY DEF IInv, PeerInv, PeerOf, CountsOf
    <3>3. input[p] \in Seq(Pressed) /\ input'[p] = Append(input[p], x)
      BY <2>1 DEF IInv, Types, Histories
    <3>4. Len(input'[p]) = Len(input[p]) + 1 /\ Len(input[p]) \in Nat
      BY <3>3
    <3> QED BY <2>4, <3>1, <3>2, <3>4
  <2>7. /\ \A c \in Player : t.real[c] # NoInput <=> f < read'[p][c]
        /\ t.frame = f
    <3>1. PICK i : i = j
      OBVIOUS
    <3>2. i \in 0..(Size(p) - 1)
      BY <1>0, <3>1, SlotIndex
    <3>3. buffer'[p][i] = t
      <4>1. DOMAIN saved = DOMAIN buffer[p]
        BY DEF Saved
      <4>2. DOMAIN buffer[p] = 0..(Size(p) - 1) /\ DOMAIN buffer = Player
        BY DEF IInv, Types, PeerInv, PeerOf, RingOf
      <4> HIDE DEF saved, s, j
      <4> QED BY <2>1, <2>3, <3>1, <3>2, <4>1, <4>2
    <3>4. /\ RingOf(p, buffer'[p], input', read'[p], other'[p],
                    IF pc'[p] = "poll" THEN run'[p] + 1 ELSE run'[p])
          /\ CountsOf(p, pc'[p] = "poll", self'[p], run'[p], other'[p], read'[p], input')
      BY DEF IInv, PeerInv, PeerOf
    <3>5. f \in other'[p]..(read'[p][p] - 1) /\ other'[p] <= f
      <4>1. other'[p] <= f /\ other'[p] \in Nat
        <5>1. other'[p] \in Nat /\ run'[p] \in Nat /\ self'[p] = f
          BY <2>2, <2>4 DEF IInv, Types
        <5>2. other'[p] <= run'[p] /\ run'[p] <= self'[p]
          BY <3>4 DEF CountsOf
        <5> QED BY <2>4, <5>1, <5>2
      <4> QED BY <2>4, <2>6, <4>1
    <3>6. t.frame = f
      BY <2>4, <3>1, <3>3, <3>4, <3>5 DEF RingOf
    <3>7. RealOf(t, input', read'[p], other'[p])
      BY <3>2, <3>3, <3>4 DEF RingOf, SlotOf
    <3>8. ASSUME NEW c \in Player, f < read'[p][c] PROVE input'[c][f + 1] # NoInput
      <4>1. read'[p][c] <= Len(input'[c]) /\ input'[c] \in Seq(Pressed) /\ read'[p][c] \in Nat
        <5>1. read'[p][c] <= Len(input'[c])
          BY <3>4 DEF CountsOf, ReadOf
        <5> QED BY <1>0, <5>1 DEF IInv, Types, Histories, Counts
      <4>2. f + 1 \in 1..Len(input'[c])
        BY <2>4, <3>8, <4>1
      <4>3. input'[c][f + 1] \in Pressed
        BY <4>1, <4>2
      <4> QED BY <4>3, NoInputPressed
    <3>9. f >= other'[p]
      BY <3>5
    <3>10. ASSUME NEW c \in Player
           PROVE  t.real[c] = IF f < read'[p][c] THEN input'[c][f + 1] ELSE NoInput
      BY <3>6, <3>7, <3>9 DEF RealOf
    <3> QED BY <3>6, <3>8, <3>10
  <2>8. ASSUME NEW q \in Peers(p), NEW c \in Player
        PROVE  FlowOf(p, q, c, chan'[p][q], read')
    <3>1. q \in Player /\ p \in Peers(q) /\ p # q
      BY PeersArePlayers
    <3>2. PICK v, u : v = chan[p][q] /\ u = netplay_send_cur_input(p, t, q)
      OBVIOUS
    <3>3. IsSequence(v) /\ FlowOf(p, q, c, v, read)
      BY <3>1, <3>2, ChanSequence DEF Flows
    <3>4. chan'[p][q] = v \o u
      <4>1. DOMAIN chan = Player
        BY DEF IInv, ChanInv, ChanOf
      <4>2. chan'[p] = [d \in Peers(p) |-> chan[p][d] \o netplay_send_cur_input(p, t, d)]
        BY <2>1, <2>3, <4>1
      <4> QED BY <3>2, <4>2
    <3>5. t.real[p] # NoInput
      BY <2>4, <2>6, <2>7
    <3>6. /\ IsSequence(u)
          /\ ~Sends(p, q, c) \/ t.real[c] = NoInput => InputsOf(u, c) = {}
          /\ Sends(p, q, c) /\ t.real[c] # NoInput =>
               \E i : InputsOf(u, c) = {i} /\ u[i].frame = t.frame
      BY <3>2, <3>5, SentInputsOf
    <3>7. read'[q] = read[q] /\ (c # p => read'[p][c] = read[p][c])
      BY <1>0, <2>5, <3>1 DEF Counts
    <3>8. CASE ~Sends(p, q, c)
      <4>1. FlowOf(p, q, c, v \o u, read)
        BY <1>0, <3>1, <3>3, <3>6, <3>8, FlowMore
      <4>2. InputsOf(v \o u, c) = {}
        BY <1>0, <3>1, <3>8, <4>1, NoneSent
      <4> QED BY <1>0, <3>1, <3>4, <3>8, <4>2, NoneSent
    <3>9. CASE Sends(p, q, c) /\ t.real[c] = NoInput
      <4>1. FlowOf(p, q, c, v \o u, read)
        BY <1>0, <3>1, <3>3, <3>6, <3>9, FlowMore
      <4>2. c # p /\ ~(f < read'[p][c]) /\ read[p][c] \in Nat
        BY <1>0, <2>7, <3>5, <3>9 DEF Counts
      <4>3. Sent(p, q, c, read') = Sent(p, q, c, read)
        BY <2>4, <2>6, <3>7, <4>2 DEF Sent
      <4> QED BY <3>4, <3>7, <4>1, <4>3 DEF FlowOf
    <3>10. CASE Sends(p, q, c) /\ t.real[c] # NoInput
      <4>1. f < read'[p][c] /\ read[p][c] \in Nat /\ read'[p][c] \in Nat
        BY <1>0, <2>7, <3>10 DEF Counts
      <4>2. Sent(p, q, c, read) = f /\ Sent(p, q, c, read') = f + 1
        <5>1. CASE c = p
          BY <2>4, <2>6, <3>10, <5>1 DEF Sent
        <5>2. CASE c # p
          BY <2>4, <2>6, <3>7, <3>10, <4>1, <5>2 DEF Sent
        <5> QED BY <5>1, <5>2
      <4>3. PICK r : r = read[q][c] /\ r \in Nat
        BY <1>0, <3>1 DEF Counts
      <4>4. Flow(v, c, r, f) /\ r <= f
        BY <3>3, <4>2, <4>3 DEF FlowOf
      <4>5. Flow(u, c, f, f + 1)
        <5>1. PICK i : InputsOf(u, c) = {i} /\ u[i].frame = f
          BY <2>7, <3>6, <3>10
        <5> QED BY <2>4, <5>1, FlowOfOne
      <4>6. Flow(v \o u, c, r, f + 1)
        BY <2>4, <3>3, <3>6, <4>3, <4>4, <4>5, FlowOn
      <4>7. r <= f + 1
        BY <2>4, <4>3, <4>4
      <4> QED BY <3>4, <3>7, <4>2, <4>3, <4>6, <4>7 DEF FlowOf
    <3> QED BY <3>8, <3>9, <3>10
  <2>9. ASSUME NEW d \in Player, NEW q \in Peers(d), NEW c \in Player, q # p
        PROVE  FlowOf(q, d, c, chan'[q][d], read')
    <3>1. q \in Player
      BY PeersArePlayers
    <3>2. chan'[q][d] = chan[q][d] /\ FlowOf(q, d, c, chan[q][d], read)
      BY <2>1, <2>9, <3>1 DEF IInv, ChanInv, ChanOf, Flows
    <3>3. CASE d = p /\ c = p
      <4>1. ~Sends(q, d, c)
        BY <3>3 DEF Sends
      <4>2. InputsOf(chan[q][d], c) = {}
        BY <1>0, <3>1, <3>2, <4>1, NoneSent
      <4> QED BY <1>0, <3>1, <3>2, <4>1, <4>2, NoneSent
    <3>4. CASE ~(d = p /\ c = p)
      <4>1. read'[d][c] = read[d][c] /\ read'[q] = read[q]
        BY <1>0, <2>5, <2>9, <3>1, <3>4 DEF Counts
      <4> QED BY <3>2, <4>1 DEF FlowOf, Sent
    <3> QED BY <3>3, <3>4
  <2>10. ASSUME NEW d \in Player, NEW q \in Peers(d), NEW c \in Player
         PROVE  FlowOf(q, d, c, chan'[q][d], read')
    <3>1. q = p => d \in Peers(p)
      BY PeersArePlayers
    <3> QED BY <2>8, <2>9, <3>1
  <2> QED BY <2>10 DEF Flows
<1> QED BY <1>1, <1>2

(* A check or a request to stall is not an input. *)
LEMMA FlowsTaken ==
  ASSUME IInv, Flows, NEW p \in Player, NEW q \in Peers(p), chan[q][p] # <<>>,
         Head(chan[q][p]).cmd # "INPUT", chan' = Taken(p, q), read' = read
  PROVE  Flows'
<1>1. /\ q \in Player /\ chan[q][p] \in Seq(Commands(q, input)) /\ read \in [Player -> Counts]
      /\ p \in Peers(q)
  BY ChanSequence, PeersArePlayers
<1>2. DOMAIN chan = Player /\ DOMAIN chan[q] = Peers(q)
  BY <1>1 DEF IInv, ChanInv, ChanOf
<1>3. ASSUME NEW d \in Player, NEW e \in Peers(d), NEW c \in Player
      PROVE  FlowOf(e, d, c, chan'[e][d], read)
  <2>1. e \in Player /\ FlowOf(e, d, c, chan[e][d], read)
    BY PeersArePlayers DEF Flows
  <2>2. CASE e = q /\ d = p
    <3>1. chan'[e][d] = Tail(chan[q][p])
      BY <1>1, <1>2, <2>2 DEF Taken
    <3>2. ~IsInputOf(Head(chan[q][p]), c)
      BY DEF IsInputOf
    <3>3. PICK r, n : r = read[d][c] /\ n = Sent(e, d, c, read)
      OBVIOUS
    <3>4. r \in Nat /\ n \in Nat
      BY <1>1, <2>1, <3>3, CountsAreNumbers
    <3>5. Flow(chan[q][p], c, r, n)
      BY <2>1, <2>2, <3>3 DEF FlowOf
    <3>6. Flow(Tail(chan[q][p]), c, r, n)
      BY <1>1, <3>2, <3>4, <3>5, FlowTail
    <3> QED BY <2>1, <3>1, <3>3, <3>6 DEF FlowOf
  <2>3. CASE ~(e = q /\ d = p)
    <3>1. chan'[e][d] = chan[e][d]
      BY <1>1, <1>2, <2>1, <2>3 DEF Taken
    <3> QED BY <2>1, <3>1
  <2> QED BY <2>2, <2>3
<1> QED BY <1>3 DEF Flows

(* The next input of a player is read, and the server forwards it.         *)
LEMMA FlowsInput ==
  ASSUME IInv, IInv', Flows, NEW p \in Player, NEW q \in Peers(p), cmd_input(p, q)
  PROVE  Flows'
<1>1. PICK s, m : s = chan[q][p] /\ m = Head(s)
  OBVIOUS
<1>2. /\ q \in Player /\ p # q /\ p \in Peers(q) /\ (p = Server \/ q = Server)
      /\ s \in Seq(Commands(q, input)) /\ IsSequence(s) /\ s # <<>>
      /\ read \in [Player -> Counts] /\ read' \in [Player -> Counts]
  BY <1>1, ChanSequence, PeersArePlayers DEF cmd_input, Received, IInv, Types
<1>3. m \in InputsFrom(q, input) /\ m.cmd = "INPUT"
  <2>1. m \in Commands(q, input)
    BY <1>1, <1>2
  <2>2. m.cmd = "INPUT"
    BY <1>1 DEF cmd_input, Received
  <2> QED BY <2>1, <2>2 DEF Commands, ChecksOf
<1>4. PICK c \in Player : c = m.client /\ (q # Server => c = q)
  BY <1>3 DEF InputsFrom
<1>5. PICK f : f = read[p][c] /\ f \in Nat
  BY <1>2 DEF Counts
<1>6. FlowOf(q, p, c, s, read) /\ IsInputOf(m, c)
  BY <1>1, <1>3, <1>4 DEF Flows, IsInputOf
<1>7. Sends(q, p, c) /\ c # p
  <2>1. 1 \in InputsOf(s, c)
    <3>1. Len(s) \in Nat \ {0} /\ Head(s) = s[1]
      BY <1>2
    <3> QED BY <1>1, <1>6, <3>1 DEF InputsOf, IsInputOf
  <2> QED BY <1>2, <1>6, <2>1, NoneSent DEF Sends
<1>8. PICK n : n = Sent(q, p, c, read) /\ n \in Nat
  BY <1>2, CountsAreNumbers
<1>9. m.frame = f /\ f < n /\ Flow(Tail(s), c, f + 1, n)
  <2>1. Flow(s, c, f, n)
    BY <1>5, <1>6, <1>8 DEF FlowOf
  <2> QED BY <1>1, <1>2, <1>5, <1>6, <1>8, <2>1, FlowTail
<1>10. /\ read' = [read EXCEPT ![p][c] = f + 1]
       /\ chan' = IF p = Server /\ ForwardNow(f)
            THEN [Taken(p, q) EXCEPT ![p] = [d \in Peers(p) |->
                    IF d = q THEN @[d] ELSE Append(@[d], InputCmd(f, c, m.data))]]
            ELSE Taken(p, q)
       /\ pc[p] = "poll" /\ self' = self
  <2>1. (IF p = Server THEN q ELSE m.client) = c
    BY <1>2, <1>4
  <2>2. ~(m.frame < read[p][c])
    BY <1>5, <1>9
  <2>3. cmd_input(p, q)
    OBVIOUS
  <2> QED BY <1>1, <1>5, <1>9, <2>1, <2>2, <2>3 DEF cmd_input, Received, counts
<1>11. /\ read'[p] = [read[p] EXCEPT ![c] = f + 1] /\ read'[p][c] = f + 1
       /\ \A d \in Player : d # c => read'[p][d] = read[p][d]
       /\ \A d \in Player : d # p => read'[d] = read[d]
  BY <1>2, <1>10 DEF Counts
<1>12. DOMAIN chan = Player /\ (\A d \in Player : DOMAIN chan[d] = Peers(d))
  BY DEF IInv, ChanInv, ChanOf
<1>13. /\ DOMAIN Taken(p, q) = Player /\ Taken(p, q)[q][p] = Tail(s)
       /\ \A e \in Player : \A d \in Peers(e) :
            ~(e = q /\ d = p) => Taken(p, q)[e][d] = chan[e][d]
  BY <1>1, <1>2, <1>12 DEF Taken
(* the connection it came on *)
<1>14. ASSUME NEW d \in Player PROVE FlowOf(q, p, d, chan'[q][p], read')
  <2>1. chan'[q][p] = Tail(s)
    BY <1>2, <1>10, <1>12, <1>13
  <2>2. FlowOf(q, p, d, s, read) /\ read'[q] = read[q]
    BY <1>1, <1>2, <1>11 DEF Flows
  <2>3. CASE d = c
    <3>1. Sent(q, p, c, read') = n
      BY <1>7, <1>8, <2>2 DEF Sent
    <3>2. f + 1 <= n
      BY <1>5, <1>8, <1>9
    <3> QED BY <1>9, <1>11, <2>1, <2>3, <3>1, <3>2 DEF FlowOf
  <2>4. CASE d # c
    <3>1. PICK r, e : r = read[p][d] /\ e = Sent(q, p, d, read)
      OBVIOUS
    <3>2. r \in Nat /\ e \in Nat
      BY <1>2, <3>1, CountsAreNumbers
    <3>3. Flow(s, d, r, e) /\ r <= e
      BY <2>2, <3>1 DEF FlowOf
    <3>4. ~IsInputOf(Head(s), d)
      BY <1>1, <1>4, <2>4 DEF IsInputOf
    <3>5. Flow(Tail(s), d, r, e)
      BY <1>2, <3>2, <3>3, <3>4, FlowTail
    <3>6. read'[p][d] = r /\ Sent(q, p, d, read') = e
      BY <1>11, <2>2, <2>4, <3>1 DEF Sent
    <3> QED BY <2>1, <3>3, <3>5, <3>6 DEF FlowOf
  <2> QED BY <2>3, <2>4
(* the connections to other clients *)
<1>15. ASSUME NEW d \in Peers(p), NEW x \in Player
       PROVE  FlowOf(p, d, x, chan'[p][d], read')
  <2>1. d \in Player /\ p # d /\ p \in Peers(d) /\ read'[d] = read[d]
    BY <1>11, PeersArePlayers
  <2>2. PICK v : v = chan[p][d]
    OBVIOUS
  <2>3. IsSequence(v) /\ FlowOf(p, d, x, v, read)
    BY <2>1, <2>2, ChanSequence DEF Flows
  <2>4. chan'[p][d] = IF p = Server /\ ForwardNow(f) /\ d # q
                        THEN Append(v, InputCmd(f, c, m.data)) ELSE v
    <3>1. Taken(p, q)[p][d] = v /\ p \in DOMAIN Taken(p, q)
      BY <1>2, <1>13, <2>2
    <3> QED BY <1>10, <3>1
  <2>5. read[p][p] = self[p] + 1 /\ self[p] \in Nat
    BY <1>10 DEF IInv, Types, PeerInv, PeerOf, CountsOf
  <2>6. CASE x # c \/ d = q \/ p # Server
    <3>1. FlowOf(p, d, x, v, read')
      <4>1. CASE ~Sends(p, d, x)
        BY <1>2, <2>1, <2>3, <4>1, NoneSent
      <4>2. CASE Sends(p, d, x)
        <5>1. x # c
          BY <1>2, <1>4, <1>7, <2>1, <2>6, <4>2 DEF Sends
        <5>2. read'[p][x] = read[p][x] /\ read'[p][p] = read[p][p]
          BY <1>7, <1>11, <5>1
        <5> QED BY <2>1, <2>3, <5>2 DEF FlowOf, Sent
      <4> QED BY <4>1, <4>2
    <3>2. CASE p = Server /\ ForwardNow(f) /\ d # q
      <4>1. PICK w, u : w = InputCmd(f, c, m.data) /\ u = <<w>>
        OBVIOUS
      <4>2. IsSequence(u) /\ InputsOf(u, x) = {}
        <5>1. u \in Seq({w}) /\ Len(u) = 1 /\ u[1] = w /\ w.client # x
          BY <2>6, <3>2, <4>1 DEF InputCmd
        <5> QED BY <5>1, SequenceOf DEF InputsOf
      <4>3. FlowOf(p, d, x, v \o u, read')
        BY <1>2, <2>1, <2>3, <3>1, <4>2, FlowMore
      <4>4. chan'[p][d] = v \o u
        <5>1. v \in Seq(Commands(p, input))
          BY <2>1, <2>2, ChanSequence
        <5> QED BY <2>4, <3>2, <4>1, <5>1
      <4> QED BY <4>3, <4>4
    <3> QED BY <2>4, <3>1, <3>2
  <2>7. CASE x = c /\ d # q /\ p = Server
    <3>1. Sends(p, d, c)
      BY <1>2, <1>4, <2>7, PeersArePlayers DEF Sends
    <3>2. Sent(p, d, c, read) = IF f <= self[p] + 1 THEN f ELSE self[p] + 1
      BY <1>5, <2>5, <3>1 DEF Sent
    <3>3. Sent(p, d, c, read') = IF f + 1 <= self[p] + 1 THEN f + 1 ELSE self[p] + 1
      BY <1>7, <1>11, <2>5, <3>1 DEF Sent
    <3>4. CASE ForwardNow(f)
      <4>1. f <= self[p]
        BY <2>7, <3>4 DEF ForwardNow
      <4>2. Sent(p, d, c, read) = f /\ Sent(p, d, c, read') = f + 1
        BY <1>5, <2>5, <3>2, <3>3, <4>1
      <4>3. PICK r : r = read[d][c] /\ r \in Nat
        BY <1>2, <2>1 DEF Counts
      <4>4. Flow(v, c, r, f) /\ r <= f
        BY <2>3, <2>7, <4>2, <4>3 DEF FlowOf
      <4>5. PICK w, u : w = InputCmd(f, c, m.data) /\ u = <<w>>
        OBVIOUS
      <4>6. IsSequence(u) /\ Flow(u, c, f, f + 1)
        <5>1. u \in Seq({w}) /\ Len(u) = 1 /\ u[1] = w
          BY <4>5
        <5>2. InputsOf(u, c) = {1} /\ u[1].frame = f
          BY <4>5, <5>1 DEF InputsOf, InputCmd
        <5> QED BY <1>5, <5>1, <5>2, SequenceOf, FlowOfOne
      <4>7. Flow(v \o u, c, r, f + 1)
        BY <1>5, <2>3, <4>3, <4>4, <4>6, FlowOn
      <4>8. chan'[p][d] = v \o u
        <5>1. v \in Seq(Commands(p, input))
          BY <2>1, <2>2, ChanSequence
        <5> QED BY <2>4, <2>7, <3>4, <4>5, <5>1
      <4>9. r <= f + 1
        BY <1>5, <4>3, <4>4
      <4> QED BY <2>1, <2>7, <4>2, <4>3, <4>7, <4>8, <4>9 DEF FlowOf
    <3>5. CASE ~ForwardNow(f)
      <4>1. ~(f <= self[p])
        BY <2>7, <3>5 DEF ForwardNow
      <4>2. Sent(p, d, c, read') = Sent(p, d, c, read)
        BY <1>5, <2>5, <3>2, <3>3, <4>1
      <4> QED BY <2>1, <2>3, <2>4, <2>7, <3>5, <4>2 DEF FlowOf
    <3> QED BY <3>4, <3>5
  <2> QED BY <2>6, <2>7, <1>2
(* and the others *)
<1>16. ASSUME NEW d \in Player, NEW e \in Peers(d), NEW x \in Player,
              e # p, ~(e = q /\ d = p)
       PROVE  FlowOf(e, d, x, chan'[e][d], read')
  <2>1. e \in Player /\ d \in Peers(e) /\ FlowOf(e, d, x, chan[e][d], read)
    BY PeersArePlayers DEF Flows
  <2>2. chan'[e][d] = chan[e][d]
    <3>1. Taken(p, q)[e][d] = chan[e][d]
      BY <1>13, <1>16, <2>1
    <3> QED BY <1>10, <1>13, <1>16, <2>1, <3>1
  <2>3. read'[e] = read[e]
    BY <1>11, <1>16, <2>1
  <2>4. CASE d = p /\ x = c
    <3>1. ~Sends(e, d, x)
      <4>1. p = Server /\ e # Server /\ c = q /\ e # q
        BY <1>2, <1>4, <1>16, <2>1, <2>4, PeersArePlayers
      <4> QED BY <2>4, <4>1 DEF Sends
    <3> QED BY <1>2, <2>1, <2>2, <3>1, NoneSent
  <2>5. CASE ~(d = p /\ x = c)
    <3>1. read'[d][x] = read[d][x]
      BY <1>11, <2>5
    <3> QED BY <2>1, <2>2, <2>3, <3>1 DEF FlowOf, Sent
  <2> QED BY <2>4, <2>5
<1> QED
  <2>1. ASSUME NEW d \in Player, NEW e \in Peers(d), NEW x \in Player
        PROVE  FlowOf(e, d, x, chan'[e][d], read')
    <3>1. e = p => d \in Peers(p)
      BY PeersArePlayers
    <3> QED BY <1>14, <1>15, <1>16, <3>1
  <2> QED BY <2>1 DEF Flows

(* The server sends checks and requests to stall. *)
LEMMA QuietSequence ==
  ASSUME NEW t, IsSequence(t), \A k \in 1..Len(t) : t[k].cmd # "INPUT", NEW c
  PROVE  InputsOf(t, c) = {}
BY DEF InputsOf

LEMMA FlowsPost ==
  ASSUME IInv, IInv', Flows, NEW p \in Player, netplay_sync_post_frame(p)
  PROVE  Flows'
<1>1. read' = read /\ read \in [Player -> Counts]
  BY DEF netplay_sync_post_frame, IInv, Types
<1>2. CASE p # Server
  <2>1. chan' = chan
    BY <1>2, Zenon DEF netplay_sync_post_frame, ClientPost
  <2> QED BY <1>1, <2>1 DEF Flows
<1>3. CASE p = Server
  <2>1. \E ring, o, self1, stalled : /\ other' = [other EXCEPT ![p] = o]
                                     /\ ServerPost(ring, other[p]..(o - 1), self1, stalled)
    BY <1>3, ZenonT(60) DEF netplay_sync_post_frame
  <2>2. PICK ring, o, self1, stalled : /\ other' = [other EXCEPT ![p] = o]
                                      /\ ServerPost(ring, other[p]..(o - 1), self1, stalled)
    BY <2>1
  <2>3. other[p] \in Nat /\ o \in Nat
    BY <2>2 DEF IInv, Types
  <2>4. PICK checks, D, due, tell :
          /\ checks = CrcCmds(other[p]..(o - 1), ring)
          /\ D = {f \in other[p]..(o - 1) : f % CheckFrames = 0}
          /\ due = InOrder(D) /\ tell = TellToStall(self1, stalled)
    OBVIOUS
  <2>5. IsSequence(checks) /\ \A c \in Player : InputsOf(checks, c) = {}
    <3>1. PICK i, j : i = other[p] /\ j = o - 1
      OBVIOUS
    <3>2. D \in SUBSET Nat /\ IsFiniteSet(D)
      <4>1. i \in Nat /\ i \in Int /\ j \in Int /\ D \subseteq i..j
        BY <2>3, <2>4, <3>1
      <4>2. IsFiniteSet(i..j)
        BY <4>1, FS_Interval
      <4>3. IsFiniteSet(D)
        BY <4>1, <4>2, FS_Subset
      <4>4. D \in SUBSET Nat
        BY <4>1
      <4> QED BY <4>3, <4>4
    <3>3. PICK n \in Nat : due \in [1..n -> D]
      BY <2>4, <3>2, InOrderHasAll
    <3>4. checks = [k \in 1..n |-> [cmd |-> "CRC", frame |-> due[k],
                                    crc |-> ring[due[k] % Size(Server)].state]]
      <4>1. Len(due) = n
        BY <3>3
      <4> QED BY <2>4, <4>1 DEF CrcCmds
    <3>5. Len(checks) = n /\ checks = [k \in 1..n |-> checks[k]]
      BY <3>4
    <3>6. \A k \in 1..n : checks[k].cmd = "CRC"
      BY <3>4
    <3>7. IsSequence(checks)
      BY <3>5 DEF IsSequence
    <3> QED BY <3>5, <3>6, <3>7, QuietSequence
  <2>6. ASSUME NEW d \in Client, NEW x \in Player
        PROVE  FlowOf(Server, d, x, chan'[Server][d], read)
    <3>1. d \in Player /\ Server \in Peers(d) /\ Server \in Player /\ Server # d
      BY ClientAssumption DEF Player, Peers, Server
    <3>2. PICK v, u : v = chan[Server][d]
                      /\ u = IF d \in tell THEN <<StallCmd(d, self1)>> ELSE <<>>
      OBVIOUS
    <3>3. IsSequence(v) /\ FlowOf(Server, d, x, v, read)
      BY <3>1, <3>2, ChanSequence DEF Flows
    <3>4. IsSequence(u) /\ InputsOf(u, x) = {}
      <4>1. PICK w : w = StallCmd(d, self1)
        OBVIOUS
      <4>2. w.cmd # "INPUT"
        BY <4>1 DEF StallCmd
      <4>3. IsSequence(<<w>>) /\ InputsOf(<<w>>, x) = {}
        <5>1. <<w>> \in Seq({w}) /\ Len(<<w>>) = 1 /\ <<w>>[1] = w
          OBVIOUS
        <5>2. IsSequence(<<w>>)
          BY <5>1, SequenceOf
        <5>3. InputsOf(<<w>>, x) = {}
          BY <4>2, <5>1 DEF InputsOf
        <5> QED BY <5>2, <5>3
      <4>4. IsSequence(<<>>) /\ InputsOf(<<>>, x) = {}
        <5>1. <<>> \in Seq({w}) /\ Len(<<>>) = 0
          OBVIOUS
        <5>2. IsSequence(<<>>)
          BY <5>1, SequenceOf
        <5>3. InputsOf(<<>>, x) = {}
          BY <5>1 DEF InputsOf
        <5> QED BY <5>2, <5>3
      <4> QED BY <3>2, <4>1, <4>3, <4>4
    <3>5. FlowOf(Server, d, x, v \o checks, read)
      BY <1>1, <2>5, <3>1, <3>3, FlowMore
    <3>6. IsSequence(v \o checks)
      <4>1. PICK y, n : y = v \o checks /\ n = Len(v)
        OBVIOUS
      <4>2. Joins(v, checks, x, y, n)
        BY <2>5, <3>3, <4>1, InputsOfConcat
      <4> QED BY <4>1, <4>2 DEF Joins
    <3>7. FlowOf(Server, d, x, (v \o checks) \o u, read)
      BY <1>1, <3>1, <3>4, <3>5, <3>6, FlowMore
    <3>8. chan'[Server][d] = (v \o checks) \o u
      <4>1. DOMAIN chan = Player
        BY DEF IInv, ChanInv, ChanOf
      <4>2. chan' = [chan EXCEPT ![Server] = [e \in Client |->
               @[e] \o checks \o (IF e \in tell THEN <<StallCmd(e, self1)>> ELSE <<>>)]]
        BY <2>2, <2>4 DEF ServerPost
      <4>3. chan'[Server] = [e \in Client |-> chan[Server][e] \o checks
                               \o (IF e \in tell THEN <<StallCmd(e, self1)>> ELSE <<>>)]
        BY <3>1, <4>1, <4>2
      <4> QED BY <3>2, <4>3
    <3> QED BY <3>7, <3>8
  <2>7. \A e \in Player : e # Server => chan'[e] = chan[e]
    BY <2>2 DEF ServerPost, IInv, ChanInv, ChanOf
  <2>8. ASSUME NEW d \in Player, NEW e \in Peers(d), NEW x \in Player
        PROVE  FlowOf(e, d, x, chan'[e][d], read)
    <3>1. CASE e = Server
      <4>1. d \in Client
        BY <3>1, ClientAssumption DEF Peers, Player, Server
      <4> QED BY <2>6, <3>1, <4>1
    <3>2. CASE e # Server
      BY <2>7, <3>2, PeersArePlayers DEF Flows
    <3> QED BY <3>1, <3>2
  <2> QED BY <1>1, <2>8 DEF Flows
<1> QED BY <1>2, <1>3

LEMMA FlowsNext == IInv /\ IInv' /\ Flows /\ [Next]_vars => Flows'
<1> SUFFICES ASSUME IInv, IInv', Flows, [Next]_vars PROVE Flows'
  OBVIOUS
<1>1. ASSUME NEW p \in Player, netplay_sync_pre_frame(p) PROVE Flows'
  BY <1>1, FlowsPre
<1>2. ASSUME NEW p \in Player, netplay_sync_post_frame(p) PROVE Flows'
  BY <1>2, FlowsPost
<1>3. ASSUME NEW p \in Player, NEW q \in Peers(p), cmd_input(p, q) PROVE Flows'
  BY <1>3, FlowsInput
<1>4. ASSUME NEW p \in Player, NEW q \in Peers(p), cmd_crc(p, q) PROVE Flows'
  <2>1. /\ chan[q][p] # <<>> /\ Head(chan[q][p]).cmd # "INPUT"
        /\ chan' = Taken(p, q) /\ read' = read
    BY <1>4 DEF cmd_crc, Received
  <2> QED BY <2>1, FlowsTaken
<1>5. ASSUME NEW p \in Player, NEW q \in Peers(p), cmd_stall(p, q) PROVE Flows'
  <2>1. /\ chan[q][p] # <<>> /\ Head(chan[q][p]).cmd # "INPUT"
        /\ chan' = Taken(p, q) /\ read' = read
    BY <1>5 DEF cmd_stall, Received
  <2> QED BY <2>1, FlowsTaken
<1>6. CASE UNCHANGED vars
  BY <1>6 DEF Flows, vars
<1> QED BY <1>1, <1>2, <1>3, <1>4, <1>5, <1>6 DEF Next, Frame, GetCmd

(* cmd_input, netplay_send_cur_input: each input is on its way once per    *)
(* frame and in order, whoever forwards it and when, and the server sends  *)
(* no frame it has not come to.                                            *)
THEOREM InputsComeInOrder == Spec => []InputsInOrder
<1>1. IInv /\ Flows => InputsInOrder
  <2> SUFFICES ASSUME IInv, Flows, NEW p \in Player, NEW q \in Peers(p), NEW c \in Player,
                      NEW k \in InputsOf(chan[q][p], c)
               PROVE  /\ chan[q][p][k].frame = read[p][c]
                            + Cardinality({j \in InputsOf(chan[q][p], c) : j < k})
                      /\ q = Server => chan[q][p][k].frame <= self[q]
    BY DEF InputsInOrder
  <2>1. PICK s : s = chan[q][p]
    OBVIOUS
  <2>2. q \in Player /\ IsSequence(s) /\ read \in [Player -> Counts]
    BY <2>1, ChanSequence
  <2>3. PICK r, e : r = read[p][c] /\ e = Sent(q, p, c, read)
    OBVIOUS
  <2>4. r \in Nat /\ e \in Nat
    BY <2>2, <2>3, CountsAreNumbers
  <2>5. FlowOf(q, p, c, s, read) /\ Flow(s, c, r, e) /\ k \in InputsOf(s, c)
    BY <2>1, <2>3 DEF Flows, FlowOf
  <2>6. s[k].frame = r + Cardinality({j \in InputsOf(s, c) : j < k})
    <3>1. PICK B : B = {j \in InputsOf(s, c) : j < k}
      OBVIOUS
    <3>2. s[k].frame = r + Cardinality(B)
      BY <2>2, <2>4, <2>5, <3>1, FlowCounts
    <3> QED BY <3>1, <3>2
  <2>7. q = Server => s[k].frame <= self[q]
    <3>1. Sends(q, p, c)
      BY <2>2, <2>5, NoneSent
    <3>2. e <= read[q][q] /\ read[q][q] \in Nat /\ read[q][c] \in Nat
      BY <2>2, <2>3, <3>1 DEF Sent, Counts
    <3>3. s[k].frame \in r..(e - 1)
      BY <2>5 DEF Flow
    <3>4. read[q][q] <= self[q] + 1 /\ self[q] \in Nat
      BY <2>2 DEF IInv, Types, PeerInv, PeerOf, CountsOf
    <3> QED BY <2>4, <3>2, <3>3, <3>4
  <2> QED BY <2>1, <2>3, <2>6, <2>7
<1> QED BY <1>1, FlowsInit, FlowsNext, Invariant, PTL DEF Spec

=============================================================================
