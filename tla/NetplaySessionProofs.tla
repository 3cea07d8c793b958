------------------------ MODULE NetplaySessionProofs ------------------------
(***************************************************************************)
(* Proofs about NetplaySession for any number of connections and devices,  *)
(* whatever is asked for and however long the session lasts.  They come    *)
(* in four parts: who shares a device; what reading each command does to a *)
(* client, and what reading many of them does (After); the invariant, and  *)
(* for every action that it keeps the types and then the rest; and what    *)
(* the invariant says.                                                     *)
(*                                                                         *)
(* The invariant speaks of what a client will be once it has read all it   *)
(* is sent (Polled).  A step of the server puts commands behind those on   *)
(* the way, and the lemmas about reading say what they make of a client    *)
(* that followed the server so far; a step of a client reads all of them   *)
(* and changes nothing of what it will be.                                 *)
(***************************************************************************)
EXTENDS NetplaySession, SequencesExt, FiniteSetTheorems,
        SequenceTheorems, WellFoundedInduction, TLAPS

-----------------------------------------------------------------------------
(* A set of natural numbers that is not empty has a least member. *)
LEMMA LeastMember ==
  ASSUME NEW S \in SUBSET Nat, S # {}
  PROVE  Min(S) \in S /\ \A y \in S : Min(S) <= y
<1> DEFINE R == {ss \in Nat \X Nat : ss[1] < ss[2]}
<1>1. R = OpToRel(<, Nat)
  BY Zenon DEF OpToRel
<1>2. IsWellFoundedOn(R, Nat)
  <2> HIDE DEF R
  <2> QED BY <1>1, NatLessThanWellFounded, Zenon
<1>3. PICK x \in S : \A y \in S : ~(<<y, x>> \in R)
  <2> HIDE DEF R
  <2> QED BY <1>2, WFMin, Zenon
<1>4. ASSUME NEW y \in S PROVE x <= y
  <2>1. x \in Nat /\ y \in Nat
    OBVIOUS
  <2>2. y < x => <<y, x>> \in R
    BY <2>1
  <2>3. ~(y < x)
    BY <1>3, <2>2
  <2> QED BY <2>1, <2>3
<1> QED BY <1>4 DEF Min

(* The members of a finite set of numbers can be counted upwards. *)
Ordering(S, n) ==
  {s \in [1..n -> S] : \A i, j \in 1..n : i < j => s[i] < s[j]}

LEMMA SomeOrdering ==
  ASSUME NEW S \in SUBSET Nat, IsFiniteSet(S)
  PROVE  Ordering(S, Cardinality(S)) # {}
<1> DEFINE Bad == {n \in Nat : \E T \in SUBSET Nat :
                     IsFiniteSet(T) /\ Cardinality(T) = n /\ Ordering(T, n) = {}}
<1>1. ASSUME Bad # {} PROVE FALSE
  <2> DEFINE n == Min(Bad)
  <2>1. n \in Bad /\ \A m \in Bad : n <= m
    <3>1. Bad \in SUBSET Nat
      OBVIOUS
    <3> HIDE DEF Bad
    <3> QED BY <1>1, <3>1, LeastMember
  <2> HIDE DEF n
  <2>2. PICK T \in SUBSET Nat : IsFiniteSet(T) /\ Cardinality(T) = n /\ Ordering(T, n) = {}
    BY <2>1
  <2>3. n \in Nat
    BY <2>1
  <2>4. CASE n = 0
    <3>1. <<>> \in [1..n -> T]
      BY <2>4
    <3>2. <<>> \in Ordering(T, n)
      BY <3>1, <2>4 DEF Ordering
    <3> QED BY <3>2, <2>2
  <2>5. CASE n # 0
    <3> DEFINE x == Min(T)
               U == T \ {x}
    <3>1. T # {}
      BY <2>2, <2>5, FS_EmptySet
    <3>2. x \in T /\ \A y \in T : x <= y
      BY <3>1, LeastMember
    <3> HIDE DEF x
    <3>3. IsFiniteSet(U) /\ Cardinality(U) = n - 1
      BY <2>2, <3>2, FS_RemoveElement
    <3>4. n - 1 \in Nat /\ n - 1 \notin Bad
      BY <2>1, <2>3, <2>5
    <3>5. Ordering(U, n - 1) # {}
      BY <3>3, <3>4
    <3>6. PICK t \in Ordering(U, n - 1) : TRUE
      BY <3>5
    <3> DEFINE s == [i \in 1..n |-> IF i = 1 THEN x ELSE t[i - 1]]
    <3>7. t \in [1..(n - 1) -> U] /\ \A i, j \in 1..(n - 1) : i < j => t[i] < t[j]
      BY <3>6 DEF Ordering
    <3>8. ASSUME NEW i \in 1..n PROVE s[i] \in T /\ (i # 1 => s[i] = t[i - 1] /\ x < s[i])
      <4>1. i # 1 => i - 1 \in 1..(n - 1)
        BY <2>3
      <4>2. i # 1 => t[i - 1] \in U
        BY <4>1, <3>7
      <4>3. i # 1 => t[i - 1] \in T /\ x < t[i - 1]
        <5>1. ASSUME NEW y \in U PROVE y \in T /\ x < y
          <6>1. y \in Nat /\ x \in Nat /\ y # x /\ x <= y
            BY <3>2
          <6> QED BY <6>1
        <5> QED BY <4>2, <5>1
      <4>4. s[i] = IF i = 1 THEN x ELSE t[i - 1]
        OBVIOUS
      <4> HIDE DEF s
      <4> QED BY <4>3, <4>4, <3>2
    <3>9. ASSUME NEW i \in 1..n, NEW j \in 1..n, i < j PROVE s[i] < s[j]
      <4>1. j # 1 /\ (i # 1 => t[i - 1] < t[j - 1])
        BY <3>9, <3>7, <2>3
      <4>2. i # 1 => s[i] = t[i - 1]
        BY <3>8
      <4>3. s[j] = t[j - 1] /\ x < s[j]
        BY <3>8, <4>1
      <4>4. i = 1 => s[i] = x
        OBVIOUS
      <4> HIDE DEF s
      <4> QED BY <4>1, <4>2, <4>3, <4>4
    <3>10. s \in [1..n -> T]
      BY <3>8
    <3>11. s \in Ordering(T, n)
      <4> HIDE DEF s
      <4> QED BY <3>9, <3>10 DEF Ordering
    <3> QED BY <3>11, <2>2
  <2> QED BY <2>4, <2>5
<1>2. Cardinality(S) \in Nat
  BY FS_CardinalityType
<1> QED BY <1>1, <1>2

-----------------------------------------------------------------------------
(* Who shares a device. *)

(* Every peer has a set of devices, every device a share mode. *)
Tables == /\ devs = [p \in Peer |-> devs[p]]
          /\ share = [d \in Devices |-> share[d]]

DevicesInv == Tables /\ DevicesExclusive

(* Nobody plays at first. *)
LEMMA InitDevices == Init => DevicesInv
BY DEF Init, DevicesInv, Tables, DevicesExclusive, Nobody

(* Who gives devices back, or keeps them, disturbs nobody. *)
LEMMA FewerDevices ==
  ASSUME DevicesInv, UNCHANGED share, devs' = [p \in Peer |-> devs'[p]],
         \A p \in Peer : devs'[p] \subseteq devs[p]
  PROVE  DevicesInv'
BY DEF DevicesInv, Tables, DevicesExclusive

(* netplay_hangup gives the devices of a player back. *)
LEMMA HangupDevices ==
  ASSUME DevicesInv, NEW cs, Hangup(cs), UNCHANGED share
  PROVE  DevicesInv'
<1>1. devs' = [p \in Peer |-> IF p \in cs /\ Plays(p) THEN {} ELSE devs[p]]
  BY DEF Hangup
<1> QED BY <1>1, FewerDevices

(* What is granted is free, or shared already and meant to be shared: the  *)
(* first free device is a free one.                                        *)
LEMMA GrantedIsShared ==
  ASSUME NEW r, Granted(r), NEW d \in Devs(r)
  PROVE  Taken(d) = {} \/ share[d]
<1>1. CASE r.devs # {}
  BY <1>1 DEF Granted, Devs, Available
<1>2. CASE r.devs = {}
  <2>1. Free \in SUBSET Nat /\ Free # {} /\ d = Min(Free)
    BY <1>2, SessionAssumption DEF Granted, Devs, Free
  <2> QED BY <2>1, LeastMember DEF Free
<1> QED BY <1>1, <1>2

(* A grant takes a device of another player only when both share it. *)
LEMMA GrantDevices ==
  ASSUME DevicesInv, NEW p \in Peer, NEW r, Granted(r), Grant(p, r)
  PROVE  DevicesInv'
<1>1. Tables'
  BY DEF DevicesInv, Tables, Grant
<1>2. ASSUME NEW d \in Devices, NEW a \in Peer, NEW b \in Peer,
             a # b, d \in devs'[a], d \in devs'[b]
      PROVE  share'[d]
  <2>1. \A q \in Peer : devs'[q] = IF q = p THEN Devs(r) ELSE devs[q]
    BY DEF DevicesInv, Tables, Grant
  <2>2. Taken(d) # {}
    BY <1>2, <2>1 DEF Taken
  <2>3. share'[d] = share[d]
    BY <2>2 DEF Grant
  <2>4. d \in Devs(r) => share[d]
    BY <2>2, GrantedIsShared
  <2>5. a # p /\ b # p => share[d]
    BY <1>2, <2>1 DEF DevicesInv, DevicesExclusive
  <2> QED BY <1>2, <2>1, <2>3, <2>4, <2>5
<1> QED BY <1>1, <1>2 DEF DevicesInv, DevicesExclusive

LEMMA SameDevices ==
  ASSUME DevicesInv, UNCHANGED <<devs, share>> PROVE DevicesInv'
BY DEF DevicesInv, Tables, DevicesExclusive

LEMMA SpectateDevices ==
  ASSUME DevicesInv, NEW c \in Client, RecvSpectate(c) PROVE DevicesInv'
<1>1. CASE Nak(c, "spectate")
  BY <1>1, HangupDevices DEF Nak
<1>2. CASE devs' = [devs EXCEPT ![c] = {}] /\ UNCHANGED share
  BY <1>2, FewerDevices DEF DevicesInv, Tables
<1> QED BY <1>1, <1>2 DEF RecvSpectate

LEMMA PlayDevices ==
  ASSUME DevicesInv, NEW c \in Client, NEW r, RecvPlay(c, r) PROVE DevicesInv'
<1>1. CASE Nak(c, "play")
  BY <1>1, HangupDevices DEF Nak
<1>2. CASE UNCHANGED <<devs, share>>
  BY <1>2, SameDevices
<1>3. CASE Granted(r) /\ Grant(c, r)
  BY <1>3, GrantDevices DEF Client, Peer
<1> QED BY <1>1, <1>2, <1>3 DEF RecvPlay

LEMMA RecvCmdDevices ==
  ASSUME DevicesInv, NEW c \in Client, RecvCmd(c) PROVE DevicesInv'
<1> DEFINE m == Head(toS[c])
<1>1. CASE m.t = "input" /\ RecvInput(c, m.frame)
  BY <1>1, HangupDevices, SameDevices DEF RecvInput, Nak
<1>2. CASE m.t = "spectate" /\ RecvSpectate(c)
  BY <1>2, SpectateDevices
<1>3. CASE m.t = "play" /\ RecvPlay(c, m.req)
  BY <1>3, PlayDevices
<1>4. CASE m.t = "closed" /\ RecvClosed(c)
  BY <1>4, HangupDevices DEF RecvClosed
<1> QED BY <1>1, <1>2, <1>3, <1>4 DEF RecvCmd

(* Every step keeps the invariant of the devices. *)
LEMMA NextDevices == DevicesInv /\ [Next]_vars => DevicesInv'
<1> SUFFICES ASSUME DevicesInv, [Next]_vars PROVE DevicesInv'
  OBVIOUS
<1>1. CASE PreFrame \/ EndPoll
  BY <1>1, SameDevices DEF PreFrame, EndPoll
<1>2. CASE StallOut
  BY <1>2, HangupDevices DEF StallOut
<1>3. CASE ServerSpectate
  BY <1>3, FewerDevices DEF ServerSpectate, DevicesInv, Tables
<1>4. ASSUME NEW r \in Ask[0], ServerPlay(r) PROVE DevicesInv'
  BY <1>4, GrantDevices, SessionAssumption DEF ServerPlay, Peer
<1>5. ASSUME NEW c \in Client, RecvCmd(c) PROVE DevicesInv'
  BY <1>5, RecvCmdDevices
<1>6. ASSUME NEW c \in Client,
             Join(c) \/ ClientFrame(c) \/ ClientToggle(c) \/ Quit(c) \/ Crash(c)
      PROVE  DevicesInv'
  BY <1>6, SameDevices DEF Join, ClientFrame, ClientToggle, Quit, Crash
<1>7. CASE UNCHANGED vars
  BY <1>7, SameDevices DEF vars
<1> QED BY <1>1, <1>2, <1>3, <1>4, <1>5, <1>6, <1>7 DEF Next

(* A device that several peers hold is shareable: grants, refusals,        *)
(* hang-ups and changes to and from watching keep it so, whoever sends     *)
(* them and in whatever order (handle_play_spectate, netplay_hangup).      *)
THEOREM SharedDevicesAreShareable == Spec => []DevicesExclusive
<1>1. DevicesInv => DevicesExclusive
  BY DEF DevicesInv
<1> QED BY <1>1, InitDevices, NextDevices, PTL DEF Spec

-----------------------------------------------------------------------------
(* Reading a sequence of commands. *)


Step(c, s, ms, f, i) == IF i = 0 THEN s ELSE Handle(c, f[i - 1], ms[i])

(* The function is what its equation says. *)
LEMMA AfterEquation ==
  ASSUME NEW c, NEW s, NEW ms, Len(ms) \in Nat
  PROVE  After(c, s, ms) = [i \in 0..Len(ms) |-> Step(c, s, ms, After(c, s, ms), i)]
<1> DEFINE Good(n) == \E f : f = [i \in 0..n |-> Step(c, s, ms, f, i)]
           Bad == {n \in Nat : ~Good(n)}
<1>1. ASSUME Bad # {} PROVE FALSE
  <2>1. PICK n \in Bad : \A m \in Bad : n <= m
    <3>1. Bad \in SUBSET Nat
      OBVIOUS
    <3> HIDE DEF Bad
    <3> QED BY <1>1, <3>1, LeastMember
  <2>2. n \in Nat /\ ~Good(n)
    BY <2>1
  <2>3. CASE n = 0
    <3> DEFINE f == [i \in 0..n |-> s]
    <3>1. \A i \in 0..n : i = 0
      BY <2>3
    <3>2. \A i \in 0..n : f[i] = Step(c, s, ms, f, i)
      BY <3>1 DEF Step
    <3>3. f = [i \in 0..n |-> Step(c, s, ms, f, i)]
      <4>1. f = [i \in 0..n |-> f[i]]
        OBVIOUS
      <4> HIDE DEF f
      <4> QED BY <3>2, <4>1
    <3> HIDE DEF f
    <3> QED BY <3>3, <2>2
  <2>4. CASE n # 0
    <3>1. n - 1 \in Nat /\ n - 1 \notin Bad
      BY <2>1, <2>2, <2>4
    <3>2. PICK f : f = [i \in 0..(n - 1) |-> Step(c, s, ms, f, i)]
      BY <3>1
    <3> DEFINE g == [i \in 0..n |-> IF i = n THEN Handle(c, f[n - 1], ms[n]) ELSE f[i]]
    <3>3. ASSUME NEW i \in 0..n PROVE g[i] = Step(c, s, ms, g, i)
      <4>1. CASE i = n
        <5>1. g[n - 1] = f[n - 1]
          BY <2>2, <2>4
        <5>2. g[i] = Handle(c, f[n - 1], ms[n])
          BY <4>1
        <5> HIDE DEF g
        <5> QED BY <4>1, <5>1, <5>2, <2>4 DEF Step
      <4>2. CASE i # n
        <5>1. i \in 0..(n - 1) /\ g[i] = f[i]
          BY <4>2, <2>2
        <5>2. i # 0 => g[i - 1] = f[i - 1]
          BY <4>2, <2>2
        <5> HIDE DEF g
        <5>3. f[i] = Step(c, s, ms, f, i)
          BY <3>2, <5>1
        <5> QED BY <5>1, <5>2, <5>3 DEF Step
      <4> QED BY <4>1, <4>2
    <3>4. g = [i \in 0..n |-> Step(c, s, ms, g, i)]
      <4>1. g = [i \in 0..n |-> g[i]]
        OBVIOUS
      <4> HIDE DEF g
      <4> QED BY <3>3, <4>1
    <3> HIDE DEF g
    <3> QED BY <3>4, <2>2
  <2> QED BY <2>3, <2>4
<1>2. \E f : f = [i \in 0..Len(ms) |-> Step(c, s, ms, f, i)]
  BY <1>1
<1>3. After(c, s, ms) = CHOOSE f : f = [i \in 0..Len(ms) |-> Step(c, s, ms, f, i)]
  BY DEF After, Step
<1> QED BY <1>2, <1>3

(* The states a client passes through as it reads ms. *)
LEMMA AfterReads ==
  ASSUME NEW c, NEW s, NEW ms, Len(ms) \in Nat, NEW f, f = After(c, s, ms)
  PROVE  /\ f[0] = s
         /\ \A i \in 1..Len(ms) : f[i] = Handle(c, f[i - 1], ms[i])
<1>1. f = [i \in 0..Len(ms) |-> Step(c, s, ms, f, i)]
  BY AfterEquation
<1>2. f[0] = Step(c, s, ms, f, 0)
  BY <1>1
<1>3. \A i \in 1..Len(ms) : i \in 0..Len(ms) /\ i # 0 /\ f[i] = Step(c, s, ms, f, i)
  BY <1>1
<1> HIDE DEF After
<1> QED BY <1>2, <1>3 DEF Step

(* Reading what is put behind goes on from what was read before. *)
LEMMA AfterConcat ==
  ASSUME NEW c, NEW s, NEW T, NEW ms \in Seq(T), NEW ns \in Seq(T)
  PROVE  /\ \A i \in 0..Len(ms) : After(c, s, ms \o ns)[i] = After(c, s, ms)[i]
         /\ \A k \in 0..Len(ns) : After(c, s, ms \o ns)[Len(ms) + k] =
                                  After(c, After(c, s, ms)[Len(ms)], ns)[k]
<1>1. PICK f, g, h, e : /\ f = After(c, s, ms) /\ g = After(c, s, ms \o ns)
                        /\ e = f[Len(ms)] /\ h = After(c, e, ns)
  OBVIOUS
<1> HIDE DEF After
<1>11. PICK all : all = ms \o ns
  OBVIOUS
<1>2. PICK m \in Nat, n \in Nat : m = Len(ms) /\ n = Len(ns)
  OBVIOUS
<1>3. /\ Len(all) = m + n /\ m + n \in Nat
      /\ \A i \in 1..m : all[i] = ms[i]
      /\ \A k \in 1..n : all[m + k] = ns[k]
  BY <1>2, <1>11
<1>4. /\ f[0] = s /\ \A i \in 1..m : f[i] = Handle(c, f[i - 1], ms[i])
  BY <1>1, <1>2, AfterReads
<1>5. /\ g[0] = s /\ \A i \in 1..(m + n) : g[i] = Handle(c, g[i - 1], all[i])
  <2>1. g = After(c, s, all) /\ Len(all) \in Nat
    BY <1>1, <1>3, <1>11
  <2>2. g[0] = s /\ \A i \in 1..Len(all) : g[i] = Handle(c, g[i - 1], all[i])
    BY <2>1, AfterReads
  <2> QED BY <2>2, <1>3
<1>6. /\ h[0] = e /\ \A i \in 1..n : h[i] = Handle(c, h[i - 1], ns[i])
  BY <1>1, <1>2, AfterReads
<1> DEFINE Bad == {i \in 0..m : g[i] # f[i]}
<1>7. ASSUME Bad # {} PROVE FALSE
  <2>1. PICK i \in Bad : \A j \in Bad : i <= j
    <3>1. Bad \in SUBSET Nat
      OBVIOUS
    <3> HIDE DEF Bad
    <3> QED BY <1>7, <3>1, LeastMember
  <2>2. i # 0
    BY <2>1, <1>4, <1>5
  <2>3. i - 1 \in 0..m /\ i - 1 \notin Bad /\ i \in 1..m /\ i \in 1..(m + n)
    BY <2>1, <2>2
  <2>4. g[i - 1] = f[i - 1]
    BY <2>3
  <2>5. g[i] = f[i]
    BY <2>3, <2>4, <1>3, <1>4, <1>5
  <2> QED BY <2>1, <2>5
<1>8. \A i \in 0..m : g[i] = f[i]
  BY <1>7
<1> DEFINE Worse == {k \in 0..n : g[m + k] # h[k]}
<1>9. ASSUME Worse # {} PROVE FALSE
  <2>1. PICK k \in Worse : \A j \in Worse : k <= j
    <3>1. Worse \in SUBSET Nat
      OBVIOUS
    <3> HIDE DEF Worse
    <3> QED BY <1>9, <3>1, LeastMember
  <2>2. k # 0
    BY <2>1, <1>6, <1>8, <1>1, <1>2
  <2>3. k - 1 \in 0..n /\ k - 1 \notin Worse /\ k \in 1..n /\ m + k \in 1..(m + n)
        /\ m + k - 1 = m + (k - 1)
    BY <2>1, <2>2
  <2>4. g[m + k - 1] = h[k - 1]
    BY <2>3
  <2>5. g[m + k] = Handle(c, g[m + k - 1], all[m + k])
    BY <2>3, <1>5
  <2>6. h[k] = Handle(c, h[k - 1], ns[k])
    BY <2>3, <1>6
  <2>7. g[m + k] = h[k]
    BY <2>3, <2>4, <2>5, <2>6, <1>3
  <2> QED BY <2>1, <2>7
<1> QED BY <1>1, <1>2, <1>8, <1>9

(* One more command only adds one more state. *)
LEMMA AfterAppend ==
  ASSUME NEW c, NEW s, NEW T, NEW ms \in Seq(T), NEW m \in T
  PROVE  /\ \A i \in 0..Len(ms) : After(c, s, Append(ms, m))[i] = After(c, s, ms)[i]
         /\ After(c, s, Append(ms, m))[Len(ms) + 1] = Handle(c, After(c, s, ms)[Len(ms)], m)
<1>1. PICK ns : ns = <<m>>
  OBVIOUS
<1>2. Append(ms, m) = ms \o ns /\ ns \in Seq(T) /\ Len(ns) = 1 /\ ns[1] = m
  BY <1>1
<1>3. PICK e, f : e = After(c, s, ms)[Len(ms)] /\ f = After(c, e, ns)
  OBVIOUS
<1>4. f[0] = e /\ \A i \in 1..Len(ns) : f[i] = Handle(c, f[i - 1], ns[i])
  BY <1>2, <1>3, AfterReads
<1>5. f[1] = Handle(c, e, m)
  BY <1>2, <1>4
<1>6. /\ \A i \in 0..Len(ms) : After(c, s, ms \o ns)[i] = After(c, s, ms)[i]
      /\ \A k \in 0..Len(ns) : After(c, s, ms \o ns)[Len(ms) + k] =
                               After(c, After(c, s, ms)[Len(ms)], ns)[k]
  BY <1>2, AfterConcat
<1>7. After(c, s, ms \o ns)[Len(ms) + 1] = f[1]
  BY <1>2, <1>3, <1>6
<1> QED BY <1>2, <1>3, <1>5, <1>6, <1>7

-----------------------------------------------------------------------------
(* Types. *)

Views == [Peer -> SUBSET Devices]
Requested == UNION {Ask[p] : p \in Peer}

ToServer == {PlayCmd(r) : r \in Requested} \cup {InputCmd(f, p) : f \in Nat, p \in Peer}
            \cup {[t |-> "spectate"], [t |-> "closed"]}
ToClient == {InputCmd(f, p) : f \in Nat, p \in Peer} \cup {NoInputCmd(f) : f \in Nat}
            \cup {ModeCmd(f, p, ds, you) : f \in Nat, p \in Peer, ds \in SUBSET Devices,
                                           you \in BOOLEAN}
            \cup {LoadCmd(f) : f \in Nat} \cup {[t |-> "refused"]}
            \cup {[t |-> "sync", frame |-> f, view |-> v] : f \in Nat, v \in Views}

Fields == [mode : {"none", "pre_sync", "spectating", "playing"}, self : Nat, sent : Nat,
           server : Nat, view : Views, read : [Peer -> Nat], fast : BOOLEAN,
           out : Seq(ToServer)]

(* A client that has hung up is as new. *)
States == {e \in Fields : e.mode = "none" => e = NoClient}

(* The server is peer 0, and no client. *)
LEMMA ServerIsPeer == 0 \in Peer /\ Client \subseteq Peer /\ 0 \notin Client
BY SessionAssumption DEF Peer, Client

LEMMA PeersAreFinite == Peer \subseteq Nat /\ IsFiniteSet(Client)
<1>1. N \in Nat
  BY SessionAssumption
<1>2. IsFiniteSet(1..N)
  BY <1>1, FS_Interval
<1> QED BY <1>1, <1>2 DEF Peer, Client

(* A connection without a client has a state, too. *)
LEMMA NoClientIsState == NoClient \in States
BY DEF NoClient, Nobody, States, Fields, Views

(* The commands are well-typed. *)
LEMMA InputIsCommand ==
  ASSUME NEW f \in Nat, NEW p \in Peer
  PROVE  InputCmd(f, p) \in ToServer /\ InputCmd(f, p) \in ToClient
BY DEF ToServer, ToClient

LEMMA ModeIsCommand ==
  ASSUME NEW f \in Nat, NEW p \in Peer, NEW ds \in SUBSET Devices, NEW you \in BOOLEAN
  PROVE  ModeCmd(f, p, ds, you) \in ToClient
BY DEF ToClient

LEMMA FrameIsCommand ==
  ASSUME NEW f \in Nat
  PROVE  NoInputCmd(f) \in ToClient /\ LoadCmd(f) \in ToClient
BY DEF ToClient

(* SYNC for frame f when v plays. *)
SyncOf(f, v) == [t |-> "sync", frame |-> f, view |-> v]

LEMMA SyncIsCommand ==
  ASSUME NEW f \in Nat, NEW v \in Views
  PROVE  SyncOf(f, v) \in ToClient
BY DEF ToClient, SyncOf

LEMMA RefusalIsCommand == [t |-> "refused"] \in ToClient
BY DEF ToClient

(* What each command does, one at a time. *)
LEMMA ViewChanged ==
  ASSUME NEW v \in Views, NEW p \in Peer, NEW ds \in SUBSET Devices
  PROVE  [v EXCEPT ![p] = ds] \in Views
BY DEF Views

(* What stays when the input of a frame is read, or who plays.             *)
SamePlace(e, t) ==
  t.mode = e.mode /\ t.self = e.self /\ t.sent = e.sent /\ t.out = e.out /\ t.fast = e.fast

(* The past inputs of a player that may start. *)
Past(c, n, f) == [i \in 1..(n + 1 - f) |-> InputCmd(f + i - 1, c)]

(* What a command does to a client in state e. *)
InputRead(e, f, p, t) ==
  /\ t \in States /\ SamePlace(e, t) /\ t.view = e.view
  /\ \A q \in Peer : t.read[q] = IF q = p /\ ~(f < e.read[p]) THEN f + 1 ELSE e.read[q]
  /\ t.server = IF p = 0 /\ ~(f < e.read[p]) THEN f + 1 ELSE e.server

NoInputRead(e, f, t) ==
  /\ t \in States /\ SamePlace(e, t) /\ t.view = e.view /\ t.read = e.read
  /\ t.server = IF f = e.server THEN f + 1 ELSE e.server

Loads(e, f, t) ==
  /\ t \in States /\ t.mode = e.mode /\ t.sent = e.sent /\ t.out = e.out
  /\ t.view = e.view /\ t.server = e.server
  /\ t.self = IF f > e.self THEN f - 1 ELSE e.self
  /\ \A p \in Peer : t.read[p] = IF e.view[p] # {} /\ e.read[p] < f THEN f ELSE e.read[p]

Synced(e, f, v, t) ==
  /\ t \in States /\ t.mode = "spectating" /\ t.self = f /\ t.sent = f + 1
  /\ t.server = f /\ t.view = v /\ t.out = e.out
  /\ \A p \in Peer : t.read[p] = IF v[p] # {} THEN f ELSE 0

Departs(e, p, t) ==
  /\ t \in States /\ SamePlace(e, t) /\ t.server = e.server
  /\ \A q \in Peer : /\ t.view[q] = (IF q = p THEN {} ELSE e.view[q])
                     /\ t.read[q] = (IF q = p THEN 0 ELSE e.read[q])

Joins(c, e, f, p, ds, you, t) ==
  /\ t \in States /\ t.self = e.self /\ t.server = e.server
  /\ \A q \in Peer : /\ t.view[q] = (IF q = p THEN ds ELSE e.view[q])
                     /\ t.read[q] = (IF q = p THEN e.server ELSE e.read[q])
  /\ ~you => SamePlace(e, t)
  /\ you /\ f <= e.self => /\ t.mode = "playing" /\ t.sent = e.self + 1
                          /\ t.out = e.out \o Past(c, e.self, f)
  /\ you /\ f > e.self => t.mode = "playing" /\ t.sent = f /\ t.out = e.out

(* CMD INPUT: the player has been read up to the frame after it. *)
LEMMA InputEffect ==
  ASSUME NEW e \in States, e.mode # "none", NEW f \in Nat, NEW p \in Peer,
         NEW t, t = HandleInput(e, InputCmd(f, p))
  PROVE  InputRead(e, f, p, t)
<1>1. e.read \in [Peer -> Nat] /\ e.server \in Nat /\ e.read[p] \in Nat
  BY DEF States, Fields
<1>2. CASE f < e.read[p]
  <2>1. t = e
    BY <1>2 DEF HandleInput, InputCmd
  <2> QED BY <1>2, <2>1 DEF SamePlace, InputRead
<1>3. CASE ~(f < e.read[p])
  <2>1. PICK r, n : r = [e.read EXCEPT ![p] = f + 1] /\ n = IF p = 0 THEN f + 1 ELSE e.server
    OBVIOUS
  <2>2. r \in [Peer -> Nat] /\ n \in Nat
    BY <1>1, <2>1
  <2>3. t = [e EXCEPT !.read = r, !.server = n]
    BY <1>3, <2>1 DEF HandleInput, InputCmd, States, Fields
  <2>4. /\ t \in States /\ SamePlace(e, t) /\ t.view = e.view /\ t.read = r /\ t.server = n
    BY <2>2, <2>3 DEF SamePlace, States, Fields
  <2>5. \A q \in Peer : r[q] = IF q = p THEN f + 1 ELSE e.read[q]
    BY <1>1, <2>1
  <2> QED BY <1>3, <2>1, <2>4, <2>5 DEF InputRead
<1> QED BY <1>2, <1>3

(* CMD NOINPUT: the server has been read up to the frame after it. *)
LEMMA NoInputEffect ==
  ASSUME NEW e \in States, e.mode # "none", NEW f \in Nat,
         NEW t, t = HandleNoInput(e, NoInputCmd(f))
  PROVE  NoInputRead(e, f, t)
BY DEF HandleNoInput, NoInputCmd, States, Fields, SamePlace, NoInputRead

(* CMD LOAD_SAVESTATE: what was not read of the others is skipped. *)
LEMMA LoadEffect ==
  ASSUME NEW e \in States, e.mode # "none", NEW f \in Nat,
         NEW t, t = HandleLoad(e, LoadCmd(f))
  PROVE  Loads(e, f, t)
<1>1. e.read \in [Peer -> Nat] /\ e.self \in Nat
  BY DEF States, Fields
<1>2. PICK r, n : /\ r = [p \in Peer |-> IF e.view[p] # {} /\ e.read[p] < f THEN f ELSE e.read[p]]
                  /\ n = IF f > e.self THEN f - 1 ELSE e.self
  OBVIOUS
<1>3. r \in [Peer -> Nat] /\ n \in Nat
  BY <1>1, <1>2
<1>4. t = [e EXCEPT !.self = n, !.read = r]
  BY <1>2 DEF HandleLoad, LoadCmd, States, Fields
<1>5. /\ t \in States /\ t.mode = e.mode /\ t.sent = e.sent /\ t.out = e.out
      /\ t.view = e.view /\ t.server = e.server /\ t.self = n /\ t.read = r
  BY <1>3, <1>4 DEF States, Fields
<1> QED BY <1>2, <1>5 DEF Loads

(* CMD SYNC: the client watches from the frame of the server on. *)
LEMMA SyncEffect ==
  ASSUME NEW e \in States, e.mode # "none", NEW f \in Nat, NEW v \in Views,
         NEW t, t = HandleSync(e, SyncOf(f, v))
  PROVE  Synced(e, f, v, t)
<1>1. PICK r : r = [p \in Peer |-> IF v[p] # {} THEN f ELSE 0]
  OBVIOUS
<1>2. r \in [Peer -> Nat]
  BY <1>1
<1>3. PICK n \in Nat : n = f + 1
  OBVIOUS
<1>4. t = [e EXCEPT !.mode = "spectating", !.self = f, !.sent = n,
             !.server = f, !.view = v, !.read = r]
  BY <1>1, <1>3 DEF HandleSync, SyncOf
<1>5. t \in Fields /\ t.mode # "none"
  BY <1>2, <1>4 DEF States, Fields
<1>6. /\ t.mode = "spectating" /\ t.self = f /\ t.sent = n
      /\ t.server = f /\ t.view = v /\ t.out = e.out /\ t.read = r
  BY <1>4 DEF States, Fields
<1> QED BY <1>1, <1>3, <1>5, <1>6 DEF States, Synced

(* The inputs of the frames f..n are n + 1 - f commands. *)
LEMMA PastIsSequence ==
  ASSUME NEW c \in Client, NEW n \in Nat, NEW f \in Nat, f <= n
  PROVE  Past(c, n, f) \in Seq(ToServer) /\ Len(Past(c, n, f)) = n + 1 - f
<1>1. n + 1 - f \in Nat /\ c \in Peer
  BY ServerIsPeer
<1>2. ASSUME NEW i \in 1..(n + 1 - f) PROVE InputCmd(f + i - 1, c) \in ToServer
  <2>1. f + i - 1 \in Nat
    BY <1>1
  <2> QED BY <1>1, <2>1, InputIsCommand
<1>3. Past(c, n, f) \in [1..(n + 1 - f) -> ToServer]
  BY <1>2 DEF Past
<1> QED BY <1>1, <1>3

(* CMD MODE of a player that stops: its devices are taken back. *)
LEMMA DepartEffect ==
  ASSUME NEW c, NEW e \in States, e.mode # "none",
         NEW f, NEW p \in Peer, NEW you, NEW t, t = HandleMode(c, e, ModeCmd(f, p, {}, you))
  PROVE  Departs(e, p, t)
<1>1. e.read \in [Peer -> Nat] /\ e.view \in Views
  BY DEF States, Fields
<1>2. PICK v, r : v = [e.view EXCEPT ![p] = {}] /\ r = [e.read EXCEPT ![p] = 0]
  OBVIOUS
<1>3. v \in Views /\ r \in [Peer -> Nat]
  BY <1>1, <1>2, ViewChanged
<1>4. t = [e EXCEPT !.view = v, !.read = r]
  BY <1>2 DEF HandleMode, ModeCmd, States, Fields
<1>5. t \in States /\ SamePlace(e, t) /\ t.server = e.server /\ t.view = v /\ t.read = r
  BY <1>3, <1>4 DEF States, Fields, SamePlace
<1>6. \A q \in Peer : v[q] = (IF q = p THEN {} ELSE e.view[q]) /\ r[q] = (IF q = p THEN 0 ELSE e.read[q])
  BY <1>1, <1>2 DEF Views
<1> QED BY <1>5, <1>6 DEF Departs

Joined(e, p, ds) == [e EXCEPT !.view = [e.view EXCEPT ![p] = ds],
                              !.read = [e.read EXCEPT ![p] = e.server]]

(* A player that starts has its devices and is read from now on. *)
LEMMA JoinedIsState ==
  ASSUME NEW e \in States, e.mode # "none", NEW p \in Peer, NEW ds \in SUBSET Devices,
         NEW t, t = Joined(e, p, ds)
  PROVE  /\ t \in States /\ SamePlace(e, t) /\ t.server = e.server
         /\ \A q \in Peer : /\ t.view[q] = (IF q = p THEN ds ELSE e.view[q])
                            /\ t.read[q] = (IF q = p THEN e.server ELSE e.read[q])
<1>1. e.read \in [Peer -> Nat] /\ e.view \in Views /\ e.server \in Nat
  BY DEF States, Fields
<1>2. PICK v, r : v = [e.view EXCEPT ![p] = ds] /\ r = [e.read EXCEPT ![p] = e.server]
  OBVIOUS
<1>3. v \in Views /\ r \in [Peer -> Nat]
  BY <1>1, <1>2, ViewChanged
<1>4. t = [e EXCEPT !.view = v, !.read = r]
  BY <1>2 DEF Joined
<1>5. t \in States /\ SamePlace(e, t) /\ t.server = e.server /\ t.view = v /\ t.read = r
  BY <1>3, <1>4 DEF States, Fields, SamePlace
<1>6. \A q \in Peer : /\ v[q] = (IF q = p THEN ds ELSE e.view[q])
                     /\ r[q] = (IF q = p THEN e.server ELSE e.read[q])
  BY <1>1, <1>2 DEF Views
<1> QED BY <1>5, <1>6

(* CMD MODE of a player that starts, which may be the client itself. *)
LEMMA JoinEffect ==
  ASSUME NEW c \in Client, NEW e \in States, e.mode # "none", NEW f \in Nat, NEW p \in Peer,
         NEW ds \in SUBSET Devices, ds # {}, NEW you \in BOOLEAN,
         NEW t, t = HandleMode(c, e, ModeCmd(f, p, ds, you))
  PROVE  Joins(c, e, f, p, ds, you, t)
<1> DEFINE m == ModeCmd(f, p, ds, you)
<1>1. m.frame = f /\ m.peer = p /\ m.devs = ds /\ m.you = you
  BY DEF ModeCmd
<1>2. [e EXCEPT !.view[m.peer] = m.devs, !.read[m.peer] = e.server] = Joined(e, p, ds)
  BY <1>1 DEF Joined, States, Fields
<1>3. PICK j : j = Joined(e, p, ds)
  OBVIOUS
<1>4. /\ j \in States /\ SamePlace(e, j) /\ j.server = e.server
      /\ \A q \in Peer : /\ j.view[q] = (IF q = p THEN ds ELSE e.view[q])
                         /\ j.read[q] = (IF q = p THEN e.server ELSE e.read[q])
  BY <1>3, JoinedIsState
<1> HIDE DEF m
<1>5. t = CASE m.devs = {} -> [e EXCEPT !.view[m.peer] = {}, !.read[m.peer] = 0]
            [] m.devs # {} /\ ~m.you -> j
            [] m.devs # {} /\ m.you /\ m.frame <= e.self ->
                 [j EXCEPT !.mode = "playing", !.sent = e.self + 1,
                    !.out = @ \o [i \in 1..(e.self + 1 - m.frame) |-> InputCmd(m.frame + i - 1, c)]]
            [] OTHER -> [j EXCEPT !.mode = "playing", !.sent = m.frame]
  BY <1>2, <1>3 DEF HandleMode, m
<1>6. CASE ~you
  <2>1. t = j
    BY <1>1, <1>5, <1>6
  <2> QED BY <2>1, <1>4, <1>6 DEF SamePlace, Joins
<1>7. CASE you /\ f <= e.self
  <2>1. t = [j EXCEPT !.mode = "playing", !.sent = e.self + 1, !.out = j.out \o Past(c, e.self, f)]
    BY <1>1, <1>4, <1>5, <1>7 DEF Past, States, Fields
  <2>2. PICK o : o = j.out \o Past(c, e.self, f)
    OBVIOUS
  <2>3. o \in Seq(ToServer)
    BY <1>4, <1>7, <2>2, PastIsSequence DEF States, Fields
  <2>4. t = [j EXCEPT !.mode = "playing", !.sent = e.self + 1, !.out = o]
    BY <2>1, <2>2
  <2>5. e.self + 1 \in Nat
    BY DEF States, Fields
  <2>6. /\ t \in States /\ t.mode = "playing" /\ t.sent = e.self + 1 /\ t.out = o
        /\ t.self = j.self /\ t.server = j.server /\ t.view = j.view /\ t.read = j.read
    BY <1>4, <2>3, <2>4, <2>5 DEF States, Fields
  <2>7. ~(f > e.self)
    BY <1>7 DEF States, Fields
  <2> QED BY <1>4, <1>7, <2>2, <2>6, <2>7 DEF SamePlace, Joins
<1>8. CASE you /\ ~(f <= e.self)
  <2>1. t = [j EXCEPT !.mode = "playing", !.sent = f]
    BY <1>1, <1>5, <1>8
  <2>2. /\ t \in States /\ t.mode = "playing" /\ t.sent = f /\ t.out = j.out
        /\ t.self = j.self /\ t.server = j.server /\ t.view = j.view /\ t.read = j.read
    BY <1>4, <2>1 DEF States, Fields
  <2> QED BY <1>4, <1>8, <2>2 DEF SamePlace, Joins
<1> QED BY <1>6, <1>7, <1>8

(* Whatever a client reads, it stays in a state of the type. *)
LEMMA HandleIsState ==
  ASSUME NEW c \in Client, NEW e \in States, NEW m \in ToClient
  PROVE  Handle(c, e, m) \in States
<1>1. CASE e.mode = "none"
  BY <1>1 DEF Handle
<1>2. CASE e.mode # "none" /\ ~Accepts(e, m)
  BY <1>2, NoClientIsState DEF Handle
<1>3. CASE e.mode # "none" /\ Accepts(e, m)
  <2>1. ASSUME NEW f \in Nat, NEW p \in Peer, m = InputCmd(f, p)
        PROVE  Handle(c, e, m) \in States
    <3>1. Handle(c, e, m) = HandleInput(e, m)
      BY <1>3, <2>1 DEF Handle, InputCmd
    <3>2. PICK t : t = HandleInput(e, InputCmd(f, p))
      OBVIOUS
    <3>3. t \in States
      BY <3>2, <1>3, InputEffect DEF InputRead
    <3> QED BY <3>1, <3>2, <3>3, <2>1
  <2>2. ASSUME NEW f \in Nat, m = NoInputCmd(f)
        PROVE  Handle(c, e, m) \in States
    <3>1. Handle(c, e, m) = HandleNoInput(e, m)
      BY <1>3, <2>2 DEF Handle, NoInputCmd
    <3> QED BY <3>1, <1>3, <2>2, NoInputEffect DEF NoInputRead
  <2>3. ASSUME NEW f \in Nat, NEW p \in Peer, NEW ds \in SUBSET Devices,
               NEW you \in BOOLEAN, m = ModeCmd(f, p, ds, you)
        PROVE  Handle(c, e, m) \in States
    <3>1. Handle(c, e, m) = HandleMode(c, e, m)
      BY <1>3, <2>3 DEF Handle, ModeCmd
    <3>2. PICK t : t = HandleMode(c, e, ModeCmd(f, p, ds, you))
      OBVIOUS
    <3>3. t \in States
      <4>1. CASE ds = {}
        BY <3>2, <4>1, <1>3, DepartEffect DEF Departs
      <4>2. CASE ds # {}
        <5>1. Joins(c, e, f, p, ds, you, t)
          BY <3>2, <4>2, <1>3, JoinEffect
        <5> QED BY <5>1 DEF Joins
      <4> QED BY <4>1, <4>2
    <3> QED BY <3>1, <3>2, <3>3, <2>3
  <2>4. ASSUME NEW f \in Nat, m = LoadCmd(f)
        PROVE  Handle(c, e, m) \in States
    <3>1. Handle(c, e, m) = HandleLoad(e, m)
      BY <1>3, <2>4 DEF Handle, LoadCmd
    <3> QED BY <3>1, <1>3, <2>4, LoadEffect DEF Loads
  <2>5. CASE m = [t |-> "refused"]
    BY <1>3, <2>5 DEF Handle
  <2>6. ASSUME NEW f \in Nat, NEW v \in Views, m = SyncOf(f, v)
        PROVE  Handle(c, e, m) \in States
    <3>1. Handle(c, e, m) = HandleSync(e, m)
      BY <1>3, <2>6 DEF Handle, SyncOf
    <3>2. PICK t : t = HandleSync(e, SyncOf(f, v))
      OBVIOUS
    <3>3. t \in States
      BY <3>2, <1>3, SyncEffect DEF Synced
    <3> QED BY <3>1, <3>2, <3>3, <2>6
  <2> QED BY <2>1, <2>2, <2>3, <2>4, <2>5, <2>6 DEF ToClient, SyncOf
<1> QED BY <1>1, <1>2, <1>3

LEMMA AfterIsState ==
  ASSUME NEW c \in Client, NEW s \in States, NEW ms \in Seq(ToClient)
  PROVE  \A i \in 0..Len(ms) : After(c, s, ms)[i] \in States
<1>1. PICK f : f = After(c, s, ms)
  OBVIOUS
<1>2. f[0] = s /\ \A i \in 1..Len(ms) : f[i] = Handle(c, f[i - 1], ms[i])
  BY <1>1, AfterReads
<1> DEFINE Bad == {i \in 0..Len(ms) : f[i] \notin States}
<1>3. ASSUME Bad # {} PROVE FALSE
  <2>1. PICK i \in Bad : \A j \in Bad : i <= j
    <3>1. Bad \in SUBSET Nat
      OBVIOUS
    <3> HIDE DEF Bad
    <3> QED BY <1>3, <3>1, LeastMember
  <2>2. i # 0
    BY <2>1, <1>2
  <2>3. i - 1 \in 0..Len(ms) /\ i - 1 \notin Bad /\ i \in 1..Len(ms)
    BY <2>1, <2>2
  <2>4. f[i - 1] \in States /\ ms[i] \in ToClient /\ f[i] = Handle(c, f[i - 1], ms[i])
    BY <2>3, <1>2
  <2>5. f[i] \in States
    BY <2>4, HandleIsState
  <2> QED BY <2>1, <2>5
<1> QED BY <1>1, <1>3

(* Who has hung up stays so. *)
LEMMA GoneStaysGone ==
  ASSUME NEW c, NEW s, s.mode = "none", NEW ms, Len(ms) \in Nat
  PROVE  \A i \in 0..Len(ms) : After(c, s, ms)[i] = s
<1>1. PICK f : f = After(c, s, ms)
  OBVIOUS
<1>2. f[0] = s /\ \A i \in 1..Len(ms) : f[i] = Handle(c, f[i - 1], ms[i])
  BY <1>1, AfterReads
<1> DEFINE Bad == {i \in 0..Len(ms) : f[i] # s}
<1>3. ASSUME Bad # {} PROVE FALSE
  <2>1. PICK i \in Bad : \A j \in Bad : i <= j
    <3>1. Bad \in SUBSET Nat
      OBVIOUS
    <3> HIDE DEF Bad
    <3> QED BY <1>3, <3>1, LeastMember
  <2>2. i # 0
    BY <2>1, <1>2
  <2>3. i - 1 \in 0..Len(ms) /\ i - 1 \notin Bad /\ i \in 1..Len(ms)
    BY <2>1, <2>2
  <2>4. f[i - 1] = s /\ f[i] = Handle(c, s, ms[i])
    BY <2>3, <1>2
  <2>5. f[i] = s
    BY <2>4, SMT DEF Handle
  <2> QED BY <2>1, <2>5
<1> QED BY <1>1, <1>3

-----------------------------------------------------------------------------
(* Commands a client accepts. *)

(* netplay_get_cmd takes INPUT of a player it knows, unless frames are     *)
(* missing.                                                                *)
LEMMA ReadInput ==
  ASSUME NEW c, NEW e \in States, e.mode # "none", NEW f \in Nat, NEW p \in Peer,
         e.view[p] # {}, f <= e.read[p], NEW t, t = Handle(c, e, InputCmd(f, p))
  PROVE  InputRead(e, f, p, t)
<1>1. t = HandleInput(e, InputCmd(f, p))
  BY DEF Handle, Accepts, InputCmd
<1> QED BY <1>1, InputEffect

(* NOINPUT is taken for the frame the server is waited for. *)
LEMMA ReadNoInput ==
  ASSUME NEW c, NEW e \in States, e.mode # "none", NEW f \in Nat,
         f = e.server, NEW t, t = Handle(c, e, NoInputCmd(f))
  PROVE  NoInputRead(e, f, t)
<1>1. t = HandleNoInput(e, NoInputCmd(f))
  BY DEF Handle, Accepts, NoInputCmd
<1> QED BY <1>1, NoInputEffect

(* A state is loaded at the frame the server is waited for. *)
LEMMA ReadLoad ==
  ASSUME NEW c, NEW e \in States, e.mode # "none", NEW f \in Nat,
         f = e.server, NEW t, t = Handle(c, e, LoadCmd(f))
  PROVE  Loads(e, f, t)
<1>1. t = HandleLoad(e, LoadCmd(f))
  BY DEF Handle, Accepts, LoadCmd
<1> QED BY <1>1, LoadEffect

(* SYNC is taken by any client. *)
LEMMA ReadSync ==
  ASSUME NEW c, NEW e \in States, e.mode # "none", NEW f \in Nat, NEW v \in Views,
         NEW t, t = Handle(c, e, SyncOf(f, v))
  PROVE  Synced(e, f, v, t)
<1>1. t = HandleSync(e, SyncOf(f, v))
  BY DEF Handle, Accepts, SyncOf
<1> QED BY <1>1, SyncEffect

(* A refusal changes nothing. *)
LEMMA ReadRefusal ==
  ASSUME NEW c, NEW e \in States PROVE Handle(c, e, [t |-> "refused"]) = e
<1>1. CASE e.mode = "none"
  BY <1>1 DEF Handle
<1>2. CASE e.mode # "none"
  BY <1>2 DEF Handle, Accepts
<1> QED BY <1>1, <1>2

(* A departure is taken, at any frame. *)
LEMMA ReadDeparture ==
  ASSUME NEW c, NEW e \in States, e.mode # "none", NEW f, NEW p \in Peer, NEW you,
         you => e.mode = "spectating", NEW t, t = Handle(c, e, ModeCmd(f, p, {}, you))
  PROVE  Departs(e, p, t)
<1>1. t = HandleMode(c, e, ModeCmd(f, p, {}, you))
  BY DEF Handle, Accepts, ModeCmd
<1> QED BY <1>1, DepartEffect

(* A start is taken for the frame the server is waited for. *)
LEMMA ReadJoin ==
  ASSUME NEW c \in Client, NEW e \in States, e.mode # "none", NEW f \in Nat, NEW p \in Peer,
         NEW ds \in SUBSET Devices, ds # {}, NEW you \in BOOLEAN,
         f = e.server, you => e.mode # "playing",
         NEW t, t = Handle(c, e, ModeCmd(f, p, ds, you))
  PROVE  Joins(c, e, f, p, ds, you, t)
<1>1. t = HandleMode(c, e, ModeCmd(f, p, ds, you))
  BY DEF Handle, Accepts, ModeCmd
<1> QED BY <1>1, JoinEffect

-----------------------------------------------------------------------------
(* The loops of the server that send one command for each of several       *)
(* players.                                                                *)

(* InOrder leaves none out. *)
LEMMA InOrderHasAll ==
  ASSUME NEW S \in SUBSET Nat, IsFiniteSet(S), NEW s, s = InOrder(S)
  PROVE  \E n \in Nat : /\ n = Cardinality(S) /\ s \in [1..n -> S]
                        /\ \A x \in S : \E i \in 1..n : s[i] = x
                        /\ \A i, j \in 1..n : s[i] = s[j] => i = j
<1>1. PICK n : n = Cardinality(S) /\ n \in Nat
  BY FS_CardinalityType
<1>2. s \in [1..n -> S] /\ \A i, j \in 1..n : i < j => s[i] < s[j]
  <2>1. \E t \in [1..Cardinality(S) -> S] :
          \A i, j \in 1..Cardinality(S) : i < j => t[i] < t[j]
    BY SomeOrdering DEF Ordering
  <2> QED BY <1>1, <2>1 DEF InOrder
<1>3. \A i, j \in 1..n : s[i] = s[j] => i = j
  <2>1. ASSUME NEW i \in 1..n, NEW j \in 1..n, i < j PROVE s[i] # s[j]
    <3>1. s[i] < s[j] /\ s[i] \in Nat /\ s[j] \in Nat
      BY <1>2, <2>1
    <3> QED BY <3>1
  <2> QED BY <1>1, <2>1
<1>4. ASSUME NEW x \in S, \A i \in 1..n : s[i] # x PROVE FALSE
  <2>1. IsFiniteSet(S \ {x}) /\ Cardinality(S \ {x}) = n - 1
    BY <1>1, FS_RemoveElement
  <2>2. IsFiniteSet(1..n) /\ Cardinality(1..n) = n
    BY <1>1, FS_Interval
  <2>3. s \in [1..n -> S \ {x}]
    BY <1>2, <1>4
  <2>4. Cardinality(S \ {x}) < Cardinality(1..n)
    BY <1>1, <2>1, <2>2
  <2>5. \E i, j \in 1..n : i # j /\ s[i] = s[j]
    <3>1. PICK A, B : A = 1..n /\ B = S \ {x}
      OBVIOUS
    <3>2. /\ IsFiniteSet(A) /\ IsFiniteSet(B) /\ Cardinality(B) < Cardinality(A)
          /\ s \in [A -> B]
      BY <2>1, <2>2, <2>3, <2>4, <3>1
    <3>3. \E i, j \in A : i # j /\ s[i] = s[j]
      BY <3>2, FS_PigeonHole
    <3> QED BY <3>1, <3>3
  <2> QED BY <1>3, <2>5
<1> QED BY <1>1, <1>2, <1>3, <1>4

(* t is e after the input of frame f has been read of the players in S.    *)
HasRead(e, t, S, f) ==
  /\ t \in States /\ SamePlace(e, t) /\ t.view = e.view /\ t.server = e.server
  /\ \A p \in Peer : t.read[p] = IF p \in S /\ ~(f < e.read[p]) THEN f + 1 ELSE e.read[p]

(* ms is the input of S for frame f, in the order s. *)
AllInput(ms, f, n, s, S) ==
  /\ s \in [1..n -> S] /\ \A x \in S : \E i \in 1..n : s[i] = x
  /\ ms = [i \in 1..n |-> InputCmd(f, s[i])]

(* Reading the inputs of S for frame f brings all of S beyond f. *)
LEMMA InputsAreRead ==
  ASSUME NEW c, NEW e \in States, e.mode # "none", NEW f \in Nat, NEW S \in SUBSET Client,
         \A p \in S : e.view[p] # {} /\ f <= e.read[p],
         NEW n \in Nat, NEW s, NEW ms, AllInput(ms, f, n, s, S), NEW h, h = After(c, e, ms)
  PROVE  HasRead(e, h[n], S, f)
<1>0. /\ s \in [1..n -> S] /\ \A x \in S : \E i \in 1..n : s[i] = x
      /\ ms = [i \in 1..n |-> InputCmd(f, s[i])]
  BY DEF AllInput
<1> USE <1>0
<1> DEFINE Seen(k) == {s[i] : i \in 1..k}
           Bad == {k \in 0..n : ~HasRead(e, h[k], Seen(k), f)}
<1>1. Len(ms) = n
  OBVIOUS
<1>2. h[0] = e /\ \A i \in 1..n : h[i] = Handle(c, h[i - 1], ms[i])
  BY <1>1, AfterReads
<1>3. e.mode # "none" /\ \A p \in Peer : e.read[p] \in Nat
  BY DEF States, Fields
<1>4. ASSUME NEW k \in 1..n, HasRead(e, h[k - 1], Seen(k - 1), f)
      PROVE  HasRead(e, h[k], Seen(k), f)
  <2>1. PICK x, y, p : x = h[k - 1] /\ y = h[k] /\ p = s[k]
    OBVIOUS
  <2>2. p \in S /\ p \in Client /\ p \in Peer /\ p # 0
    BY <2>1, ServerIsPeer
  <2>3. x \in States /\ x.mode # "none" /\ x.view[p] # {} /\ f <= x.read[p] /\ x.read \in [Peer -> Nat]
    <3> HIDE DEF Seen
    <3>1. x \in States /\ x.mode # "none" /\ x.view[p] # {}
      BY <1>4, <2>1, <2>2 DEF HasRead, SamePlace
    <3>2. x.read[p] = e.read[p] \/ x.read[p] = f + 1
      BY <1>4, <2>1, <2>2 DEF HasRead
    <3>3. f <= x.read[p]
      BY <3>2, <2>2, <1>3
    <3> QED BY <3>1, <3>3 DEF States, Fields
  <2>4. y = Handle(c, x, InputCmd(f, p))
    BY <1>2, <2>1
  <2>5. /\ y \in States /\ SamePlace(x, y) /\ y.view = x.view
        /\ \A q \in Peer : y.read[q] = IF q = p /\ ~(f < x.read[p]) THEN f + 1 ELSE x.read[q]
        /\ y.server = x.server
    <3>1. InputRead(x, f, p, y)
      BY <2>2, <2>3, <2>4, ReadInput
    <3> QED BY <2>2, <3>1 DEF InputRead
  <2>6. /\ y \in States /\ SamePlace(e, y) /\ y.view = e.view /\ y.server = e.server
    BY <1>4, <2>1, <2>5 DEF HasRead, SamePlace
  <2>7. Seen(k) = Seen(k - 1) \cup {p}
    <3>1. \A i : i \in 1..k <=> i \in 1..(k - 1) \/ i = k
      OBVIOUS
    <3> QED BY <2>1, <3>1
  <2>8. ASSUME NEW q \in Peer
        PROVE  y.read[q] = IF q \in Seen(k) /\ ~(f < e.read[q]) THEN f + 1 ELSE e.read[q]
    <3>1. x.read[q] = IF q \in Seen(k - 1) /\ ~(f < e.read[q]) THEN f + 1 ELSE e.read[q]
      BY <1>4, <2>1 DEF HasRead
    <3>2. y.read[q] = IF q = p /\ ~(f < x.read[q]) THEN f + 1 ELSE x.read[q]
      BY <2>3, <2>5
    <3>3. q \in Seen(k) <=> q \in Seen(k - 1) \/ q = p
      BY <2>7
    <3> HIDE DEF Seen
    <3> QED BY <3>1, <3>2, <3>3, <1>3
  <2> HIDE DEF Seen
  <2> QED BY <2>1, <2>6, <2>8 DEF HasRead
<1>5. HasRead(e, h[0], Seen(0), f)
  <2>1. Seen(0) = {}
    OBVIOUS
  <2> HIDE DEF Seen
  <2> QED BY <1>2, <1>3, <2>1 DEF HasRead, SamePlace
<1>6. Seen(n) = S
  OBVIOUS
<1>7. ASSUME Bad # {} PROVE FALSE
  <2>1. PICK k \in Bad : \A j \in Bad : k <= j
    <3>1. Bad \in SUBSET Nat
      OBVIOUS
    <3> HIDE DEF Bad
    <3> QED BY <1>7, <3>1, LeastMember
  <2> HIDE DEF Seen
  <2>2. k # 0
    BY <2>1, <1>5
  <2>3. k - 1 \in 0..n /\ k - 1 \notin Bad /\ k \in 1..n
    BY <2>1, <2>2
  <2> QED BY <2>1, <2>3, <1>4
<1> HIDE DEF Seen
<1> HIDE <1>0
<1>8. HasRead(e, h[n], Seen(n), f)
  <2>1. n \notin Bad
    <3> HIDE DEF Bad
    <3> QED BY <1>7
  <2>2. n \in 0..n
    OBVIOUS
  <2> QED BY <2>1, <2>2
<1> QED BY <1>6, <1>8

(* t is e after the departure of the players in S has been read.           *)
HasTold(e, t, S) ==
  /\ t \in States /\ SamePlace(e, t) /\ t.server = e.server
  /\ \A p \in Peer : /\ t.view[p] = (IF p \in S THEN {} ELSE e.view[p])
                     /\ t.read[p] = (IF p \in S THEN 0 ELSE e.read[p])

(* Another player stops. *)
LeaveCmd(f, p) == ModeCmd(f, p, {}, FALSE)

(* A client reads that another player has left. *)
LEMMA ReadLeave ==
  ASSUME NEW c, NEW e \in States, e.mode # "none", NEW f, NEW p \in Peer,
         NEW t, t = Handle(c, e, LeaveCmd(f, p))
  PROVE  Departs(e, p, t)
<1>1. PICK you \in BOOLEAN : ~you
  OBVIOUS
<1>2. t = Handle(c, e, ModeCmd(f, p, {}, you))
  BY <1>1 DEF LeaveCmd
<1> QED BY <1>1, <1>2, ReadDeparture

FirstOf(s, k) == {s[i] : i \in 1..k}

ToldInTurn(e, h, n, s, S) ==
  /\ HasTold(e, h[n], S)
  /\ \A k \in 1..n : HasTold(e, h[k - 1], FirstOf(s, k - 1))

(* ms are the departures of S, in the order s, at the frames d. *)
AllLeave(ms, d, n, s, S) ==
  /\ s \in [1..n -> S] /\ \A x \in S : \E i \in 1..n : s[i] = x
  /\ ms = [i \in 1..n |-> LeaveCmd(d[s[i]], s[i])]

(* Departures are read one after the other, and leave the others alone. *)
LEMMA DeparturesAreRead ==
  ASSUME NEW c, NEW e \in States, e.mode # "none", NEW S \in SUBSET Client, NEW d,
         NEW n \in Nat, NEW s, NEW ms, AllLeave(ms, d, n, s, S), NEW h, h = After(c, e, ms)
  PROVE  ToldInTurn(e, h, n, s, S)
<1>0. /\ s \in [1..n -> S] /\ \A x \in S : \E i \in 1..n : s[i] = x
      /\ ms = [i \in 1..n |-> LeaveCmd(d[s[i]], s[i])]
  BY DEF AllLeave
<1> USE <1>0
<1> DEFINE Bad == {k \in 0..n : ~HasTold(e, h[k], FirstOf(s, k))}
<1>1. Len(ms) = n
  OBVIOUS
<1>2. h[0] = e /\ \A i \in 1..n : h[i] = Handle(c, h[i - 1], ms[i])
  BY <1>1, AfterReads
<1>4. ASSUME NEW k \in 1..n, HasTold(e, h[k - 1], FirstOf(s, k - 1))
      PROVE  HasTold(e, h[k], FirstOf(s, k))
  <2>1. PICK x, y, p : x = h[k - 1] /\ y = h[k] /\ p = s[k]
    OBVIOUS
  <2>2. p \in S /\ p \in Client /\ p \in Peer
    BY <2>1, ServerIsPeer
  <2>3. x \in States /\ x.mode # "none"
    BY <1>4, <2>1 DEF HasTold, SamePlace
  <2>4. y = Handle(c, x, LeaveCmd(d[p], p))
    BY <1>2, <2>1
  <2>5. Departs(x, p, y)
    BY <2>2, <2>3, <2>4, ReadLeave
  <2>6. y \in States /\ SamePlace(e, y) /\ y.server = e.server
    BY <1>4, <2>1, <2>5 DEF HasTold, SamePlace, Departs
  <2>7. FirstOf(s, k) = FirstOf(s, k - 1) \cup {p}
    <3>1. \A i : i \in 1..k <=> i \in 1..(k - 1) \/ i = k
      OBVIOUS
    <3> QED BY <2>1, <3>1 DEF FirstOf
  <2>8. ASSUME NEW q \in Peer
        PROVE  /\ y.view[q] = (IF q \in FirstOf(s, k) THEN {} ELSE e.view[q])
               /\ y.read[q] = (IF q \in FirstOf(s, k) THEN 0 ELSE e.read[q])
    <3>1. /\ x.view[q] = (IF q \in FirstOf(s, k - 1) THEN {} ELSE e.view[q])
          /\ x.read[q] = (IF q \in FirstOf(s, k - 1) THEN 0 ELSE e.read[q])
      BY <1>4, <2>1 DEF HasTold
    <3>2. /\ y.view[q] = (IF q = p THEN {} ELSE x.view[q])
          /\ y.read[q] = (IF q = p THEN 0 ELSE x.read[q])
      BY <2>5 DEF Departs
    <3>3. q \in FirstOf(s, k) <=> q \in FirstOf(s, k - 1) \/ q = p
      BY <2>7
    <3> QED BY <3>1, <3>2, <3>3
  <2> QED BY <2>1, <2>6, <2>8 DEF HasTold
<1>5. HasTold(e, h[0], FirstOf(s, 0))
  <2>1. FirstOf(s, 0) = {}
    BY DEF FirstOf
  <2> QED BY <1>2, <2>1 DEF HasTold, SamePlace
<1>6. FirstOf(s, n) = S
  BY DEF FirstOf
<1>7. ASSUME Bad # {} PROVE FALSE
  <2>1. PICK k \in Bad : \A j \in Bad : k <= j
    <3>1. Bad \in SUBSET Nat
      OBVIOUS
    <3> HIDE DEF Bad
    <3> QED BY <1>7, <3>1, LeastMember
  <2>2. k # 0
    BY <2>1, <1>5
  <2>3. k - 1 \in 0..n /\ k - 1 \notin Bad /\ k \in 1..n
    BY <2>1, <2>2
  <2> QED BY <2>1, <2>3, <1>4
<1> HIDE <1>0
<1>8. \A k \in 0..n : HasTold(e, h[k], FirstOf(s, k))
  <2> QED BY <1>7
<1>9. \A k \in 1..n : HasTold(e, h[k - 1], FirstOf(s, k - 1))
  BY <1>8
<1>10. HasTold(e, h[n], S)
  <2> QED BY <1>6, <1>8
<1> QED BY <1>9, <1>10 DEF ToldInTurn

-----------------------------------------------------------------------------
(* What the server sends in a frame. *)

(* The other players that have sent input of the frame. *)
Ahead(c, rd) == {p \in Client \ {c} : devs[p] # {} /\ rd[p] > srv.self}
Leaving(c)   == {d \in Client \ {c} : DelayDue(d)}

OwnInput == IF srv.playing THEN InputCmd(srv.self, 0) ELSE NoInputCmd(srv.self)

(* s lists S: each of its n members at one place. *)
Lists(s, n, S) ==
  /\ Len(s) = n /\ s \in [1..n -> S]
  /\ \A x \in S : \E i \in 1..n : s[i] = x
  /\ \A i, j \in 1..n : s[i] = s[j] => i = j

(* InOrder makes a list of any set of clients. *)
LEMMA OthersOfFrame ==
  ASSUME NEW S \in SUBSET Client, NEW s, s = InOrder(S)
  PROVE  \E n \in Nat : Lists(s, n, S)
<1>1. S \in SUBSET Nat /\ IsFiniteSet(S)
  BY PeersAreFinite, ServerIsPeer, FS_Subset
<1>2. PICK n \in Nat : /\ n = Cardinality(S) /\ s \in [1..n -> S]
                       /\ \A x \in S : \E i \in 1..n : s[i] = x
                       /\ \A i, j \in 1..n : s[i] = s[j] => i = j
  BY <1>1, InOrderHasAll
<1>3. Len(s) = n
  BY <1>2
<1> QED BY <1>2, <1>3 DEF Lists

(* The server sends ms, the input of the n players s, and then its own.    *)
FrameOf(c, rd, n, s, ms) ==
  /\ \A x \in Ahead(c, rd) : \E i \in 1..n : s[i] = x
  /\ ms = [i \in 1..n |-> InputCmd(srv.self, s[i])] /\ Len(ms) = n
  /\ OwnInput \in ToClient
  /\ CurInput(c, rd) = Append(ms, OwnInput)

(* What send_cur_input sends is the input of players and then its own. *)
LEMMA CurInputParts ==
  ASSUME srv.self \in Nat, NEW c, NEW rd
  PROVE  \E n \in Nat : \E s \in [1..n -> Ahead(c, rd)] : \E ms \in Seq(ToClient) :
           FrameOf(c, rd, n, s, ms)
<1> DEFINE S == Ahead(c, rd)
<1>1. S \in SUBSET Client
  BY DEF Ahead
<1>2. PICK s : s = InOrder(S)
  OBVIOUS
<1> HIDE DEF S
<1>0. PICK n \in Nat : Lists(s, n, S)
  BY <1>1, <1>2, OthersOfFrame
<1>3. /\ Len(s) = n /\ s \in [1..n -> S]
      /\ \A x \in S : \E i \in 1..n : s[i] = x
  BY <1>0 DEF Lists
<1> USE DEF S
<1>4. PICK ms : ms = [i \in 1..n |-> InputCmd(srv.self, s[i])]
  OBVIOUS
<1>5. \A i \in 1..n : InputCmd(srv.self, s[i]) \in ToClient
  BY <1>1, <1>3, ServerIsPeer, InputIsCommand
<1>6. ms \in [1..n -> ToClient]
  BY <1>4, <1>5
<1>7. ms \in Seq(ToClient) /\ Len(ms) = n
  BY <1>6
<1>8. OwnInput \in ToClient
  BY ServerIsPeer, InputIsCommand, FrameIsCommand DEF OwnInput
<1>9. CurInput(c, rd) = ms \o <<OwnInput>>
  BY <1>2, <1>3, <1>4 DEF CurInput, OwnInput, Ahead
<1>10. CurInput(c, rd) = Append(ms, OwnInput)
  <2> HIDE DEF OwnInput
  <2> QED BY <1>7, <1>8, <1>9
<1>11. s \in [1..n -> Ahead(c, rd)] /\ FrameOf(c, rd, n, s, ms)
  BY <1>3, <1>4, <1>7, <1>8, <1>10 DEF FrameOf
<1> QED BY <1>7, <1>11

Conns == [mode : {"none", "spectating", "playing", "delayed"},
          active : BOOLEAN, delay : Nat, stall : BOOLEAN]

LEMMA ReadsOneMore ==
  ASSUME NEW c, NEW s, NEW ms \in Seq(ToClient), NEW m \in ToClient,
         NEW f, f = After(c, s, ms), NEW g, g = After(c, s, Append(ms, m))
  PROVE  /\ \A i \in 0..Len(ms) : g[i] = f[i]
         /\ g[Len(ms) + 1] = Handle(c, f[Len(ms)], m)
BY AfterAppend

(* Before the departure of x is read, only that of others was.             *)
LEMMA DeparturesRead ==
  ASSUME conn \in [Client -> Conns], NEW c, NEW ms, ms = Departures(c)
  PROVE  /\ ms \in Seq(ToClient)
         /\ \A k \in 1..Len(ms) : \E x \in Leaving(c) : ms[k] = LeaveCmd(conn[x].delay, x)
         /\ \A e \in States : \A h : e.mode # "none" /\ h = After(c, e, ms) =>
              /\ HasTold(e, h[Len(ms)], Leaving(c))
              /\ \A k \in 1..Len(ms) : \A x \in Leaving(c) : ms[k] = LeaveCmd(conn[x].delay, x) =>
                   \E T : x \notin T /\ HasTold(e, h[k - 1], T)
<1>1. PICK S \in SUBSET Client : S = Leaving(c)
  BY DEF Leaving
<1>2. PICK s : s = InOrder(S)
  OBVIOUS
<1>0. PICK n \in Nat : Lists(s, n, S)
  BY <1>2, OthersOfFrame
<1>3. /\ Len(s) = n /\ s \in [1..n -> S]
      /\ \A x \in S : \E i \in 1..n : s[i] = x
      /\ \A i, j \in 1..n : s[i] = s[j] => i = j
  BY <1>0 DEF Lists
<1>4. PICK d : d = [x \in Client |-> conn[x].delay]
  OBVIOUS
<1>5. ASSUME NEW x \in Client PROVE LeaveCmd(d[x], x) \in ToClient /\ d[x] = conn[x].delay
  <2>1. d[x] \in Nat /\ x \in Peer /\ {} \in SUBSET Devices /\ d[x] = conn[x].delay
    BY <1>4, ServerIsPeer DEF Conns
  <2>2. PICK you \in BOOLEAN : ~you
    OBVIOUS
  <2>3. LeaveCmd(d[x], x) = ModeCmd(d[x], x, {}, you)
    BY <2>2 DEF LeaveCmd
  <2> QED BY <2>1, <2>3, ModeIsCommand
<1>6. ms = [i \in 1..n |-> LeaveCmd(d[s[i]], s[i])]
  <2>1. ms = [i \in 1..Len(s) |-> LeaveCmd(conn[s[i]].delay, s[i])]
    BY <1>1, <1>2, Zenon DEF Departures, Leaving, LeaveCmd
  <2>2. \A i \in 1..n : d[s[i]] = conn[s[i]].delay
    BY <1>1, <1>3, <1>5
  <2>3. ms = [i \in 1..n |-> LeaveCmd(conn[s[i]].delay, s[i])]
    BY <2>1, <1>3
  <2>4. \A i \in 1..n : LeaveCmd(conn[s[i]].delay, s[i]) = LeaveCmd(d[s[i]], s[i])
    BY <2>2
  <2>5. PICK us : us = [i \in 1..n |-> LeaveCmd(d[s[i]], s[i])]
    OBVIOUS
  <2>6. us = [i \in 1..n |-> us[i]] /\ ms = [i \in 1..n |-> ms[i]]
    BY <2>3, <2>5
  <2>7. \A i \in 1..n : us[i] = ms[i]
    BY <2>3, <2>4, <2>5
  <2>8. us = ms
    BY <2>6, <2>7, Zenon
  <2> QED BY <2>5, <2>8
<1>7. ms \in [1..n -> ToClient]
  BY <1>1, <1>3, <1>5, <1>6
<1>8. ms \in Seq(ToClient) /\ Len(ms) = n
  BY <1>7
<1>9. ASSUME NEW k \in 1..n
      PROVE  /\ s[k] \in Leaving(c)
             /\ \A x \in Leaving(c) : ms[k] = LeaveCmd(conn[x].delay, x) <=> x = s[k]
  <2>1. s[k] \in Leaving(c) /\ s[k] \in Client /\ ms[k] = LeaveCmd(d[s[k]], s[k])
    BY <1>1, <1>3, <1>6
  <2>2. ms[k] = LeaveCmd(conn[s[k]].delay, s[k])
    BY <2>1, <1>5
  <2>3. ASSUME NEW x, NEW f, NEW y, NEW g, LeaveCmd(f, x) = LeaveCmd(g, y) PROVE x = y
    <3>1. LeaveCmd(f, x).peer = x /\ LeaveCmd(g, y).peer = y
      BY DEF LeaveCmd, ModeCmd
    <3> QED BY <2>3, <3>1
  <2> QED BY <2>1, <2>2, <2>3
<1>10. ASSUME NEW e \in States, NEW h, e.mode # "none", h = After(c, e, ms)
       PROVE  /\ HasTold(e, h[n], Leaving(c))
              /\ \A k \in 1..n : s[k] \notin FirstOf(s, k - 1) /\ HasTold(e, h[k - 1], FirstOf(s, k - 1))
  <2>1. /\ HasTold(e, h[n], S)
        /\ \A k \in 1..n : HasTold(e, h[k - 1], FirstOf(s, k - 1))
    <3>1. AllLeave(ms, d, n, s, S)
      BY <1>3, <1>6, Zenon DEF AllLeave
    <3>2. ToldInTurn(e, h, n, s, S)
      BY <1>10, <3>1, DeparturesAreRead
    <3> QED BY <3>2 DEF ToldInTurn
  <2>2. \A k \in 1..n : s[k] \notin FirstOf(s, k - 1)
    <3> SUFFICES ASSUME NEW k \in 1..n, s[k] \in FirstOf(s, k - 1) PROVE FALSE
      OBVIOUS
    <3>1. PICK i \in 1..(k - 1) : s[i] = s[k]
      BY DEF FirstOf
    <3>2. i \in 1..n /\ i # k
      OBVIOUS
    <3> QED BY <1>3, <3>1, <3>2
  <2> QED BY <1>1, <2>1, <2>2
<1>11. \A k \in 1..n : \E x \in Leaving(c) : ms[k] = LeaveCmd(conn[x].delay, x)
  BY <1>9
<1>12. ASSUME NEW e \in States, NEW h, e.mode # "none", h = After(c, e, ms),
              NEW k \in 1..n, NEW x \in Leaving(c), ms[k] = LeaveCmd(conn[x].delay, x)
       PROVE  \E T : x \notin T /\ HasTold(e, h[k - 1], T)
  <2>1. x = s[k]
    BY <1>9, <1>12
  <2> QED BY <2>1, <1>10, <1>12
<1> QED BY <1>8, <1>10, <1>11, <1>12

(* t is e after the input of the server's frame has been read.             *)
FrameRead(e, t, S) ==
  /\ t \in States /\ SamePlace(e, t) /\ t.view = e.view /\ t.server = srv.self + 1
  /\ \A p \in Peer : t.read[p] >= e.read[p]
  /\ \A p \in S : t.read[p] >= srv.self + 1
  /\ srv.playing => t.read[0] = srv.self + 1

CanReadFrame(c, e, rd) ==
  /\ e.mode # "none" /\ e.server = srv.self
  /\ \A p \in Ahead(c, rd) : e.view[p] # {} /\ srv.self <= e.read[p]
  /\ srv.playing => e.view[0] # {} /\ e.read[0] = srv.self

(* A client that has followed so far takes the input of a whole frame. *)
LEMMA CurInputIsRead ==
  ASSUME srv.self \in Nat, srv.playing \in BOOLEAN, NEW c, NEW rd,
         NEW e \in States, CanReadFrame(c, e, rd),
         NEW ms, ms = CurInput(c, rd), NEW h, h = After(c, e, ms)
  PROVE  ms \in Seq(ToClient) /\ FrameRead(e, h[Len(ms)], Ahead(c, rd))
<1>0. PICK n \in Nat : \E s \in [1..n -> Ahead(c, rd)] : \E us \in Seq(ToClient) :
           FrameOf(c, rd, n, s, us)
  BY CurInputParts
<1>1. PICK s \in [1..n -> Ahead(c, rd)], us \in Seq(ToClient) :
           /\ \A x \in Ahead(c, rd) : \E i \in 1..n : s[i] = x
           /\ us = [i \in 1..n |-> InputCmd(srv.self, s[i])] /\ Len(us) = n
           /\ OwnInput \in ToClient
           /\ CurInput(c, rd) = Append(us, OwnInput)
  BY <1>0 DEF FrameOf
<1>2. PICK f \in Nat, S \in SUBSET Client, own \in ToClient :
        f = srv.self /\ S = Ahead(c, rd) /\ own = OwnInput
  BY <1>1 DEF Ahead
<1>3. ms = Append(us, own) /\ ms \in Seq(ToClient) /\ Len(ms) = n + 1
  BY <1>1, <1>2
<1>4. PICK g, x, t : g = After(c, e, us) /\ x = g[n] /\ t = h[n + 1]
  OBVIOUS
<1>5. HasRead(e, x, S, f)
  <2>1. \A p \in S : e.view[p] # {} /\ f <= e.read[p]
    BY <1>2 DEF CanReadFrame
  <2>2. AllInput(us, f, n, s, S)
    BY <1>1, <1>2 DEF AllInput
  <2>3. e.mode # "none"
    BY DEF CanReadFrame
  <2> QED BY <1>4, <2>1, <2>2, <2>3, InputsAreRead
<1>6. t = Handle(c, x, own)
  <2>1. /\ g = After(c, e, us) /\ h = After(c, e, Append(us, own))
        /\ x = g[Len(us)] /\ t = h[Len(us) + 1]
    BY <1>1, <1>3, <1>4
  <2> QED BY <2>1, ReadsOneMore
<1>7. /\ x \in States /\ x.mode # "none" /\ SamePlace(e, x) /\ x.view = e.view /\ x.server = f
      /\ \A p \in Peer : x.read[p] = IF p \in S /\ ~(f < e.read[p]) THEN f + 1 ELSE e.read[p]
      /\ \A p \in Peer : e.read[p] \in Nat
  BY <1>2, <1>5 DEF HasRead, CanReadFrame, SamePlace, States, Fields
<1>8. CASE srv.playing
  <2>1. own = InputCmd(f, 0) /\ x.view[0] # {} /\ e.read[0] = f /\ 0 \notin S /\ 0 \in Peer
    BY <1>2, <1>7, <1>8, ServerIsPeer DEF OwnInput, CanReadFrame
  <2>2. x.read[0] = f /\ f <= x.read[0]
    BY <2>1, <1>7
  <2>3. InputRead(x, f, 0, t)
    <3>1. x \in States /\ x.mode # "none" /\ t = Handle(c, x, InputCmd(f, 0))
      BY <1>6, <1>7, <2>1
    <3> QED BY <3>1, <2>1, <2>2, ReadInput
  <2>4. /\ t \in States /\ SamePlace(e, t) /\ t.view = e.view /\ t.server = f + 1
        /\ \A q \in Peer : t.read[q] = IF q = 0 THEN f + 1 ELSE x.read[q]
    BY <2>2, <2>3, <1>7 DEF InputRead, SamePlace
  <2>5. ASSUME NEW p \in Peer PROVE t.read[p] >= e.read[p] /\ (p \in S => t.read[p] >= f + 1)
    BY <1>7, <2>1, <2>4, <2>5
  <2> QED BY <2>1, <2>4, <2>5, <1>2, <1>3, <1>4, ServerIsPeer DEF FrameRead
<1>9. CASE ~srv.playing
  <2>1. own = NoInputCmd(f)
    BY <1>2, <1>9 DEF OwnInput
  <2>2. NoInputRead(x, f, t)
    BY <1>6, <1>7, <2>1, ReadNoInput
  <2>3. /\ t \in States /\ SamePlace(e, t) /\ t.view = e.view /\ t.server = f + 1
        /\ t.read = x.read
    BY <2>2, <1>7 DEF NoInputRead, SamePlace
  <2>4. ASSUME NEW p \in Peer PROVE t.read[p] >= e.read[p] /\ (p \in S => t.read[p] >= f + 1)
    BY <1>7, <2>3, <2>4
  <2> QED BY <1>9, <2>3, <2>4, <1>2, <1>3, <1>4, ServerIsPeer DEF FrameRead
<1> QED BY <1>3, <1>8, <1>9

-----------------------------------------------------------------------------
(* The invariant. *)

Servers == [self : Nat, phase : {"poll", "top"}, stall : BOOLEAN, playing : BOOLEAN,
            save : BOOLEAN]
Naks  == {"client", "input", "spectate", "play"} \X Client
Hists == [waiting : SUBSET Client, ignored : SUBSET Client, untold : SUBSET Client,
          lost : SUBSET Client, nak : SUBSET Naks, late : BOOLEAN,
          impatient : SUBSET Client, unblamed : BOOLEAN]

Types ==
  /\ srv \in Servers /\ conn \in [Client -> Conns] /\ read \in [Client -> Nat]
  /\ devs \in Views /\ share \in [Devices -> BOOLEAN]
  /\ cl \in [Client -> States]
  /\ toS \in [Client -> Seq(ToServer)] /\ toC \in [Client -> Seq(ToClient)]
  /\ hist \in Hists

(* Who plays has a device, and sends input; a connection that is closed    *)
(* has nothing on the way.                                                 *)
Role(c) ==
  /\ Plays(c) <=> devs[c] # {}
  /\ Plays(c) => conn[c].active /\ conn[c].delay = 0 /\ c \in CanPlay /\ read[c] >= 1
  /\ conn[c].mode = "delayed" => ~conn[c].active
  /\ cl[c].mode # "none" => conn[c].active
  /\ ~conn[c].active => toS[c] = <<>> /\ toC[c] = <<>>

Roles ==
  /\ srv.stall => srv.phase = "poll"
  /\ srv.playing <=> devs[0] # {}
  /\ \A c \in Client : Role(c)

Has(s, t) == \E i \in 1..Len(s) : s[i].t = t
Yours(m)  == m.t = "mode" /\ m.you
Quiet(c)  == \A i \in 1..Len(toC[c]) : ~Yours(toC[c][i])
Answered(c) == \E i \in 1..Len(toC[c]) : IsAnswer(toC[c][i])

(* The others will be told that p has stopped. *)
Owed(p) == conn[p].delay # 0 /\ (conn[p].active \/ conn[p].mode = "delayed")

(* What client c, when it has read everything and is in state e, knows of  *)
(* player p.                                                               *)
Knows(c, e, p) ==
  /\ \/ e.view[p] = devs[p]
     \/ devs[p] = {} /\ (Owed(p) \/ p \in hist.untold)
  /\ devs[p] # {} => e.read[p] >= read[p] \/ e.read[p] >= ServerRead
  /\ Owed(p) /\ e.view[p] # {} => e.read[p] >= conn[p].delay \/ p \in hist.lost

Follows(c, e) ==
  /\ e.mode \in {"spectating", "playing"}
  /\ e.server = ServerRead
  /\ e.view[0] = devs[0] /\ (devs[0] # {} => e.read[0] = ServerRead)
  /\ e.view[c] = devs[c]
  /\ \A p \in Client \ {c} : Knows(c, e, p)

(* An input on its way to the server is of a frame up to the one it is     *)
(* waited for, once those before it are read.                              *)
InTurn(s, r) ==
  \A i \in 1..Len(s) : s[i].t = "input" =>
    s[i].frame <= r \/ (i > 1 /\ s[i - 1].t = "input" /\ s[i].frame <= s[i - 1].frame + 1)

EndsBefore(s, n) == Len(s) # 0 /\ s[Len(s)].t = "input" /\ n <= s[Len(s)].frame + 1
NextInput(e) == IF e.self + 1 < e.sent THEN e.sent ELSE e.self + 1
Skips(e, r)  == e.self + 1 < e.sent => e.sent <= r

(* What it will send: as long as it plays the server takes its input, and  *)
(* as long as the server takes its input it plays or will say it does not. *)
(* What it sends before the first frame the server wants has been read.    *)
Sends(c, e) ==
  /\ e.mode = "playing" =>
       /\ Plays(c) /\ ~Has(toS[c], "spectate")
       /\ \/ NextInput(e) <= read[c]
          \/ EndsBefore(e.out, NextInput(e))
          \/ cl[c].mode = "playing" /\ EndsBefore(toS[c], NextInput(e))
       /\ Skips(e, read[c])
  /\ Plays(c) => e.mode = "playing" \/ Has(toS[c], "spectate")
  /\ InTurn(e.out, read[c])
  /\ cl[c].mode = "pre_sync" => e.out = cl[c].out
  /\ cl[c].mode = "playing" => e.out = <<>>
  /\ cl[c].mode # "pre_sync" => \A i \in 1..Len(e.out) : e.out[i].t = "input"
  /\ Has(e.out, "input") => Plays(c) /\ ~Has(toS[c], "spectate")

Piped(c) ==
  /\ \A i \in 1..Len(toS[c]) : toS[c][i].t \in {"input", "spectate"} =>
       Plays(c) /\ \A j \in 1..Len(toS[c]) : j < i => toS[c][j].t # "spectate"
  /\ InTurn(toS[c], read[c])

Modes(c) ==
  /\ cl[c].mode = "playing" => Plays(c) /\ ~Has(toS[c], "spectate") /\ Quiet(c)
  /\ cl[c].mode = "spectating" /\ Plays(c) => Has(toS[c], "spectate") \/ Answered(c)
  /\ cl[c].mode # "pre_sync" => cl[c].out = <<>>
  /\ cl[c].mode = "pre_sync" =>
       /\ Len(cl[c].out) <= 1 /\ \A i \in 1..Len(cl[c].out) : cl[c].out[i].t = "play"
       /\ toS[c] = <<>> /\ ~Plays(c) /\ c \notin hist.waiting /\ ~Answered(c) /\ Quiet(c)

(* A client that asks only when it has its answer has one request on the   *)
(* way, or one answer.                                                     *)
Patient(c) == c \notin hist.impatient =>
  /\ \A i \in 1..Len(toS[c]) : toS[c][i].t = "play" =>
       /\ Plays(c) => \E j \in 1..Len(toS[c]) : j < i /\ toS[c][j].t = "spectate"
       /\ \A j \in 1..Len(toS[c]) : toS[c][j].t = "play" => i = j
       /\ ~Answered(c)
       /\ Connected(c) => c \in hist.waiting
  /\ Connected(c) /\ Answered(c) => c \in hist.waiting

Requests(c) == c \in hist.waiting =>
  Connected(c) /\ (Has(toS[c], "play") \/ Answered(c) \/ c \in hist.ignored)

Talks(c) == Piped(c) /\ Modes(c) /\ Patient(c) /\ Requests(c)

(* A departure that is on the way comes after the input of the player.     *)
AfterItsInput(c, e, m) ==
  m.t = "mode" /\ ~m.you /\ m.devs = {} /\ m.peer # c /\ e.view[m.peer] # {} =>
    e.read[m.peer] >= m.frame \/ m.peer \in hist.lost
Complete(c) == \A i \in 1..Len(toC[c]) : AfterItsInput(c, Reading(c)[i - 1], toC[c][i])

PeerInv(c) ==
  /\ Talks(c) /\ Complete(c)
  /\ Polled(c).mode # "none" => Follows(c, Polled(c)) /\ Sends(c, Polled(c))
  /\ cl[c].mode # "none" /\ ~hist.late => Polled(c).mode # "none"

IInv == Types /\ Roles /\ (\A c \in Client : PeerInv(c)) /\ OnlyKnownNaks /\ StallCanEnd

-----------------------------------------------------------------------------
(* Every step keeps the types. *)

(* A client is in a state of the type, and so it is after reading. *)
LEMMA PolledIsState ==
  ASSUME Types, NEW c \in Client
  PROVE  /\ cl[c] \in States /\ toC[c] \in Seq(ToClient) /\ toS[c] \in Seq(ToServer)
         /\ Polled(c) \in States
         /\ \A i \in 0..Len(toC[c]) : Reading(c)[i] \in States
<1>1. cl[c] \in States /\ toC[c] \in Seq(ToClient) /\ toS[c] \in Seq(ToServer)
  BY DEF Types
<1>2. \A i \in 0..Len(toC[c]) : After(c, cl[c], toC[c])[i] \in States
  BY <1>1, AfterIsState
<1>3. Len(toC[c]) \in 0..Len(toC[c])
  BY <1>1
<1> HIDE DEF After
<1> QED BY <1>1, <1>2, <1>3 DEF Polled, Reading

LEMMA SentTypes ==
  ASSUME NEW T, NEW q \in [Client -> Seq(T)], NEW to, NEW m \in T
  PROVE  SendTo(q, to, m) \in [Client -> Seq(T)]
BY DEF SendTo

(* The initial state has the types. *)
LEMMA InitTypes == Init => Types
<1> SUFFICES ASSUME Init PROVE Types
  OBVIOUS
<1>1. AtStart \subseteq Client /\ Asked \subseteq Client
  BY SessionAssumption DEF Client
<1>2. Nobody \in Views
  BY DEF Nobody, Views
<1>3. srv \in Servers /\ read \in [Client -> Nat] /\ devs \in Views
      /\ share \in [Devices -> BOOLEAN] /\ toC \in [Client -> Seq(ToClient)]
  BY <1>2 DEF Init, Servers
<1>4. conn \in [Client -> Conns]
  BY DEF Init, Conns, NoConn
<1>5. cl \in [Client -> States]
  <2>1. Watcher \in States
    <3>1. NoClient \in Fields
      BY NoClientIsState DEF States
    <3>2. Watcher \in Fields /\ Watcher.mode = "spectating"
      BY <3>1 DEF Watcher, Fields
    <3> QED BY <3>2 DEF States
  <2> QED BY <2>1, NoClientIsState DEF Init
<1>6. toS \in [Client -> Seq(ToServer)]
  <2>1. PICK r \in [Asked -> UNION {Ask[c] : c \in Asked}] :
         toS = [c \in Client |-> IF c \in Asked THEN <<PlayCmd(r[c])>> ELSE <<>>]
    BY DEF Init
  <2>2. ASSUME NEW c \in Asked PROVE <<PlayCmd(r[c])>> \in Seq(ToServer)
    <3>1. r[c] \in Requested
      BY <1>1, <2>1, ServerIsPeer DEF Requested
    <3>2. PlayCmd(r[c]) \in ToServer
      BY <3>1 DEF ToServer
    <3> QED BY <3>2
  <2> QED BY <2>1, <2>2
<1>7. hist \in Hists
  BY <1>1 DEF Init, Hists
<1> QED BY <1>3, <1>4, <1>5, <1>6, <1>7 DEF Types

(* send_cur_input sends INPUT and NOINPUT only. *)
LEMMA CurInputKinds ==
  ASSUME srv.self \in Nat, NEW c, NEW rd, NEW ms, ms = CurInput(c, rd)
  PROVE  ms \in Seq(ToClient) /\ \A i \in 1..Len(ms) : ms[i].t \in {"input", "noinput"}
<1>0. PICK n \in Nat : \E s \in [1..n -> Ahead(c, rd)] : \E us \in Seq(ToClient) :
           FrameOf(c, rd, n, s, us)
  BY CurInputParts
<1>1. PICK s \in [1..n -> Ahead(c, rd)], us \in Seq(ToClient) :
           /\ us = [i \in 1..n |-> InputCmd(srv.self, s[i])] /\ Len(us) = n
           /\ OwnInput \in ToClient
           /\ CurInput(c, rd) = Append(us, OwnInput)
  BY <1>0 DEF FrameOf
<1>2. PICK own \in ToClient : own = OwnInput
  BY <1>1
<1>3. own.t \in {"input", "noinput"}
  BY <1>2 DEF OwnInput, InputCmd, NoInputCmd
<1>4. ms = Append(us, own) /\ ms \in Seq(ToClient) /\ Len(ms) = n + 1
  BY <1>1, <1>2
<1>5. \A i \in 1..n : us[i].t = "input"
  BY <1>1 DEF InputCmd
<1>6. ASSUME NEW i \in 1..(n + 1) PROVE ms[i].t \in {"input", "noinput"}
  <2>1. ms[i] = IF i = n + 1 THEN own ELSE us[i]
    BY <1>1, <1>4
  <2> QED BY <2>1, <1>3, <1>5
<1> QED BY <1>4, <1>6

LEMMA DeparturesTyped ==
  ASSUME Types, NEW c
  PROVE  Departures(c) \in Seq(ToClient)
<1>1. conn \in [Client -> Conns]
  BY DEF Types
<1> QED BY <1>1, DeparturesRead

(* netplay_pre_frame: a state asked for, the input of the frame, the       *)
(* departures.                                                             *)
LEMMA PreFrameTypes ==
  ASSUME Types, PreFrame PROVE Types'
<1>1. /\ srv \in Servers /\ conn \in [Client -> Conns] /\ read \in [Client -> Nat]
      /\ toC \in [Client -> Seq(ToClient)]
  BY DEF Types
<1>2. srv' \in Servers
  BY <1>1 DEF PreFrame, Servers
<1>3. srv.self \in Nat
  BY <1>1 DEF Servers
<1>4. read' \in [Client -> Nat]
  BY <1>1, <1>3 DEF PreFrame, ForceFuture
<1>5. conn' \in [Client -> Conns]
  BY <1>1 DEF PreFrame, Conns
<1>6. toC' \in [Client -> Seq(ToClient)]
  <2>1. PICK rd, load : /\ load = (IF srv.save THEN <<LoadCmd(srv.self)>> ELSE <<>>)
          /\ toC' = [c \in Client |-> IF conn[c].active
                       THEN toC[c] \o load \o CurInput(c, rd) \o Departures(c) ELSE toC[c]]
    BY DEF PreFrame
  <2>2. load \in Seq(ToClient)
    <3>1. LoadCmd(srv.self) \in ToClient
      BY <1>3, FrameIsCommand
    <3> QED BY <2>1, <3>1
  <2>3. ASSUME NEW c \in Client
        PROVE  toC[c] \o load \o CurInput(c, rd) \o Departures(c) \in Seq(ToClient)
    <3>1. CurInput(c, rd) \in Seq(ToClient) /\ Departures(c) \in Seq(ToClient)
      BY <1>3, CurInputKinds, DeparturesTyped
    <3>2. PICK a \in Seq(ToClient), b \in Seq(ToClient) : a = CurInput(c, rd) /\ b = Departures(c)
      BY <3>1
    <3>3. toC[c] \in Seq(ToClient)
      BY <1>1
    <3>4. toC[c] \o load \o a \o b \in Seq(ToClient)
      BY <3>3, <2>2
    <3> QED BY <3>2, <3>4
  <2> QED BY <1>1, <2>1, <2>3
<1>7. UNCHANGED <<devs, share, cl, toS, hist>>
  BY DEF PreFrame
<1> QED BY <1>2, <1>4, <1>5, <1>6, <1>7 DEF Types

LEMMA NextFrameTypes ==
  ASSUME srv \in Servers, srv' = [srv EXCEPT !.stall = FALSE, !.phase = "top", !.self = @ + 1]
  PROVE  srv' \in Servers
<1>1. PICK k \in Nat : k = srv.self + 1
  BY DEF Servers
<1>2. PICK b \in BOOLEAN, t \in {"poll", "top"} : b = FALSE /\ t = "top"
  OBVIOUS
<1>3. srv' = [srv EXCEPT !.stall = b, !.phase = t, !.self = k]
  BY <1>1, <1>2
<1> QED BY <1>3 DEF Servers

(* The end of netplay_poll. *)
LEMMA EndPollTypes ==
  ASSUME Types, EndPoll PROVE Types'
<1>1. srv \in Servers /\ conn \in [Client -> Conns]
  BY DEF Types
<1>2. srv' \in Servers
  <2>1. CASE srv' = [srv EXCEPT !.stall = TRUE]
    <3>1. PICK b \in BOOLEAN : b = TRUE
      OBVIOUS
    <3>2. srv' = [srv EXCEPT !.stall = b]
      BY <2>1, <3>1
    <3> QED BY <1>1, <3>2 DEF Servers
  <2>2. CASE srv' = [srv EXCEPT !.stall = FALSE, !.phase = "top", !.self = @ + 1]
    BY <1>1, <2>2, NextFrameTypes
  <2> QED BY <2>1, <2>2 DEF EndPoll
<1>3. conn' \in [Client -> Conns]
  <2>1. ASSUME NEW x \in Conns, NEW b \in BOOLEAN PROVE [x EXCEPT !.stall = b] \in Conns
    BY DEF Conns
  <2>2. ASSUME NEW B, conn' = [c \in Client |-> IF c \in B THEN [conn[c] EXCEPT !.stall = TRUE]
                                                ELSE conn[c]]
        PROVE  conn' \in [Client -> Conns]
    BY <1>1, <2>1, <2>2
  <2>3. ASSUME NEW B, conn' = [c \in Client |-> IF c \in B THEN [conn[c] EXCEPT !.stall = FALSE]
                                                ELSE conn[c]]
        PROVE  conn' \in [Client -> Conns]
    BY <1>1, <2>1, <2>3
  <2>4. CASE conn' = [c \in Client |-> IF Blamed(c) THEN [conn[c] EXCEPT !.stall = TRUE] ELSE conn[c]]
    <3>1. PICK B : B = {c \in Client : Blamed(c)}
      OBVIOUS
    <3>2. conn' = [c \in Client |-> IF c \in B THEN [conn[c] EXCEPT !.stall = TRUE] ELSE conn[c]]
      BY <2>4, <3>1, Zenon
    <3> QED BY <2>2, <3>2
  <2>5. CASE conn' = [c \in Client |-> IF srv.stall /\ conn[c].active
                                       THEN [conn[c] EXCEPT !.stall = FALSE] ELSE conn[c]]
    <3>1. PICK B : B = {c \in Client : srv.stall /\ conn[c].active}
      OBVIOUS
    <3>2. conn' = [c \in Client |-> IF c \in B THEN [conn[c] EXCEPT !.stall = FALSE] ELSE conn[c]]
      BY <2>5, <3>1, Zenon
    <3> QED BY <2>3, <3>2
  <2> QED BY <2>4, <2>5 DEF EndPoll
<1>4. UNCHANGED <<read, devs, share, cl, toS, toC, hist>>
  BY DEF EndPoll
<1> QED BY <1>2, <1>3, <1>4 DEF Types

(* What a hang-up keeps, whatever becomes of srv. *)
LEMMA HangupTypes ==
  ASSUME Types, NEW cs, Hangup(cs), srv' \in Servers, UNCHANGED <<read, share>>,
         hist' \in Hists
  PROVE  Types'
<1>1. /\ conn \in [Client -> Conns] /\ read \in [Client -> Nat] /\ devs \in Views
      /\ cl \in [Client -> States] /\ share \in [Devices -> BOOLEAN]
      /\ toS \in [Client -> Seq(ToServer)] /\ toC \in [Client -> Seq(ToClient)]
  BY DEF Types
<1>2. conn' \in [Client -> Conns]
  BY <1>1 DEF Hangup, Conns
<1>3. devs' \in Views
  BY <1>1 DEF Hangup, Views
<1>4. cl' \in [Client -> States]
  BY <1>1, NoClientIsState DEF Hangup
<1>5. toS' \in [Client -> Seq(ToServer)]
  <2>1. <<>> \in Seq(ToServer)
    OBVIOUS
  <2>2. toS' = [c \in Client |-> IF c \in cs THEN <<>> ELSE toS[c]]
    BY DEF Hangup
  <2> QED BY <1>1, <2>1, <2>2
<1>6. toC' \in [Client -> Seq(ToClient)]
  <2>1. <<>> \in Seq(ToClient)
    OBVIOUS
  <2>2. toC' = [c \in Client |-> IF c \in cs THEN <<>> ELSE toC[c]]
    BY DEF Hangup
  <2> QED BY <1>1, <2>1, <2>2
<1> QED BY <1>1, <1>2, <1>3, <1>4, <1>5, <1>6 DEF Types

LEMMA AfterHangupTypes ==
  ASSUME NEW h \in Hists, NEW cs \in SUBSET Client
  PROVE  AfterHangup(h, cs) \in Hists
<1>1. Unblamed(cs) \in BOOLEAN
  BY DEF Unblamed
<1>2. PICK b \in BOOLEAN : b = (h.unblamed \/ Unblamed(cs))
  BY <1>1
<1>3. PICK u, l : /\ u = h.untold \cup {c \in cs : ~Plays(c) /\ conn[c].delay # 0}
                  /\ l = h.lost \cup {c \in cs : Plays(c) /\ read[c] > srv.self + 1}
  OBVIOUS
<1>4. u \in SUBSET Client /\ l \in SUBSET Client
  BY <1>3 DEF Hists
<1>5. AfterHangup(h, cs) = [h EXCEPT !.untold = u, !.lost = l, !.unblamed = b,
                              !.waiting = @ \ cs, !.ignored = @ \ cs]
  BY <1>2, <1>3 DEF AfterHangup
<1>6. [h EXCEPT !.untold = u, !.lost = l, !.unblamed = b,
                 !.waiting = @ \ cs, !.ignored = @ \ cs] \in Hists
  BY <1>4 DEF Hists
<1> QED BY <1>5, <1>6

(* netplay_poll gives up on those it has waited for too long. *)
LEMMA StallOutTypes ==
  ASSUME Types, StallOut PROVE Types'
<1>1. srv \in Servers /\ hist \in Hists
  BY DEF Types
<1>2. srv' \in Servers
  <2>1. srv' = [srv EXCEPT !.stall = FALSE, !.phase = "top", !.self = @ + 1]
    BY DEF StallOut
  <2> QED BY <1>1, <2>1, NextFrameTypes
<1>3. PICK h : h = AfterHangup(hist, StalledOut)
  OBVIOUS
<1>4. h \in Hists
  BY <1>1, <1>3, AfterHangupTypes DEF StalledOut
<1>5. hist' = [h EXCEPT !.unblamed = hist.unblamed]
  BY <1>3 DEF StallOut
<1>6. hist' \in Hists
  BY <1>1, <1>4, <1>5 DEF Hists
<1>7. Hangup(StalledOut) /\ UNCHANGED <<read, share>>
  BY DEF StallOut
<1> QED BY <1>2, <1>6, <1>7, HangupTypes

(* A command that is not accepted ends the connection. *)
LEMMA NakTypes ==
  ASSUME Types, NEW c \in Client, NEW why \in {"input", "spectate", "play"}, Nak(c, why)
  PROVE  Types'
<1>1. srv \in Servers /\ hist \in Hists
  BY DEF Types
<1>2. PICK h : h = [hist EXCEPT !.nak = @ \cup {<<why, c>>}]
  OBVIOUS
<1>3. h \in Hists
  BY <1>1, <1>2 DEF Hists, Naks
<1>4. AfterHangup(h, {c}) \in Hists
  BY <1>3, AfterHangupTypes
<1>5. hist' \in Hists /\ Hangup({c}) /\ UNCHANGED <<srv, read, share>>
  BY <1>2, <1>4 DEF Nak
<1> QED BY <1>1, <1>5, HangupTypes

(* The connection is found closed. *)
LEMMA ClosedTypes ==
  ASSUME Types, NEW c \in Client, RecvClosed(c)
  PROVE  Types'
<1>1. srv \in Servers /\ hist \in Hists
  BY DEF Types
<1>2. AfterHangup(hist, {c}) \in Hists
  BY <1>1, AfterHangupTypes
<1>3. hist' \in Hists /\ Hangup({c}) /\ UNCHANGED <<srv, read, share>>
  BY <1>2 DEF RecvClosed
<1> QED BY <1>1, <1>3, HangupTypes

(* What is granted is at least one device. *)
LEMMA DevsGiven ==
  ASSUME NEW r \in Requested, Granted(r)
  PROVE  Devs(r) \in SUBSET Devices /\ Devs(r) # {}
<1>1. r.devs \subseteq Devices /\ r.share \in BOOLEAN
  BY SessionAssumption DEF Requested, Peer
<1>2. CASE r.devs # {}
  BY <1>1, <1>2 DEF Devs
<1>3. CASE r.devs = {}
  <2>1. Free \in SUBSET Nat /\ Free # {} /\ Free \subseteq Devices
    BY <1>3, SessionAssumption DEF Granted, Free
  <2>2. Min(Free) \in Free
    BY <2>1, LeastMember
  <2>3. Devs(r) = {Min(Free)}
    BY <1>3 DEF Devs
  <2> QED BY <2>1, <2>2, <2>3
<1> QED BY <1>2, <1>3

LEMMA GrantTypes ==
  ASSUME devs \in Views, share \in [Devices -> BOOLEAN], NEW p \in Peer,
         NEW r \in Requested, Granted(r), Grant(p, r)
  PROVE  /\ devs' \in Views /\ share' \in [Devices -> BOOLEAN]
         /\ \A q \in Peer : devs'[q] = IF q = p THEN Devs(r) ELSE devs[q]
<1>1. Devs(r) \in SUBSET Devices
  BY DevsGiven
<1>2. r.share \in BOOLEAN
  BY SessionAssumption DEF Requested, Peer
<1>3. devs' = [devs EXCEPT ![p] = Devs(r)]
  BY DEF Grant
<1>4. devs' \in Views
  BY <1>1, <1>3, ViewChanged
<1>5. share' \in [Devices -> BOOLEAN]
  BY <1>2 DEF Grant
<1> QED BY <1>3, <1>4, <1>5 DEF Views

(* Parts of a command that is on its way to the server. *)
LEMMA HeadTyped ==
  ASSUME NEW q \in Seq(ToServer), q # <<>>, NEW m, m = Head(q)
  PROVE  /\ m \in ToServer /\ m = q[1] /\ Tail(q) \in Seq(ToServer)
         /\ m.t = "input" => m.frame \in Nat
         /\ m.t = "play" => m.req \in Requested
<1>1. m \in ToServer /\ m = q[1] /\ Tail(q) \in Seq(ToServer)
  OBVIOUS
<1>2. /\ m.t = "input" => m.frame \in Nat
      /\ m.t = "play" => m.req \in Requested
  BY <1>1 DEF ToServer, PlayCmd, InputCmd
<1> QED BY <1>1, <1>2

(* A command is taken off the connection. *)
LEMMA TailTypes ==
  ASSUME Types, NEW c \in Client, toS[c] # <<>>, toS' = [toS EXCEPT ![c] = Tail(@)]
  PROVE  /\ toS' \in [Client -> Seq(ToServer)]
         /\ toS'[c] = Tail(toS[c]) /\ \A x \in Client \ {c} : toS'[x] = toS[x]
<1>1. toS \in [Client -> Seq(ToServer)] /\ Tail(toS[c]) \in Seq(ToServer)
  BY HeadTyped DEF Types
<1> QED BY <1>1

(* netplay_get_cmd at the server, one command each. *)
LEMMA InputTypes ==
  ASSUME Types, NEW c \in Client, NEW f \in Nat, toS[c] # <<>>, RecvInput(c, f)
  PROVE  Types'
<1>1. CASE Nak(c, "input")
  BY <1>1, NakTypes
<1>2. CASE /\ toS' = [toS EXCEPT ![c] = Tail(@)]
           /\ UNCHANGED <<srv, conn, read, devs, share, cl, toC, hist>>
  <2>1. toS' \in [Client -> Seq(ToServer)]
    BY <1>2, TailTypes
  <2> QED BY <1>2, <2>1 DEF Types
<1>3. CASE /\ read' = [read EXCEPT ![c] = @ + 1]
           /\ toC' = IF Forwards(f) THEN SendTo(toC, Active \ {c}, InputCmd(f, c)) ELSE toC
           /\ toS' = [toS EXCEPT ![c] = Tail(@)]
           /\ UNCHANGED <<srv, conn, devs, share, cl, hist>>
  <2>1. toS' \in [Client -> Seq(ToServer)]
    BY <1>3, TailTypes
  <2>2. read' \in [Client -> Nat]
    BY <1>3 DEF Types
  <2>3. toC' \in [Client -> Seq(ToClient)]
    <3>1. InputCmd(f, c) \in ToClient /\ toC \in [Client -> Seq(ToClient)]
      BY InputIsCommand, ServerIsPeer DEF Types
    <3>2. SendTo(toC, Active \ {c}, InputCmd(f, c)) \in [Client -> Seq(ToClient)]
      BY <3>1, SentTypes
    <3> QED BY <1>3, <3>1, <3>2
  <2> QED BY <1>3, <2>1, <2>2, <2>3 DEF Types
<1> QED BY <1>1, <1>2, <1>3 DEF RecvInput

LEMMA SpectateTypes ==
  ASSUME Types, NEW c \in Client, toS[c] # <<>>, RecvSpectate(c)
  PROVE  Types'
<1>1. CASE Nak(c, "spectate")
  BY <1>1, NakTypes
<1>2. CASE /\ conn' = [conn EXCEPT ![c].mode = "spectating", ![c].delay = read[c]]
           /\ devs' = [devs EXCEPT ![c] = {}]
           /\ toC' = SendTo(toC, {c}, ModeCmd(read[c], c, {}, TRUE))
           /\ toS' = [toS EXCEPT ![c] = Tail(@)]
           /\ hist' = [hist EXCEPT !.lost = IF read[c] > srv.self + 1 THEN @ \cup {c} ELSE @,
                                   !.unblamed = @ \/ Unblamed({c})]
           /\ UNCHANGED <<srv, read, share, cl>>
  <2>1. toS' \in [Client -> Seq(ToServer)]
    BY <1>2, TailTypes
  <2>2. /\ conn \in [Client -> Conns] /\ read[c] \in Nat /\ devs \in Views
        /\ toC \in [Client -> Seq(ToClient)] /\ hist \in Hists
    BY DEF Types
  <2>3. conn' \in [Client -> Conns]
    BY <1>2, <2>2 DEF Conns
  <2>4. devs' \in Views
    BY <1>2, <2>2, ServerIsPeer, ViewChanged
  <2>5. toC' \in [Client -> Seq(ToClient)]
    <3>1. PICK you \in BOOLEAN : you
      OBVIOUS
    <3>2. ModeCmd(read[c], c, {}, you) \in ToClient
      BY <2>2, ServerIsPeer, ModeIsCommand
    <3>3. ModeCmd(read[c], c, {}, TRUE) \in ToClient
      BY <3>1, <3>2
    <3> QED BY <1>2, <2>2, <3>3, SentTypes
  <2>6. hist' \in Hists
    <3>1. PICK u \in BOOLEAN : u = (hist.unblamed \/ Unblamed({c}))
      BY <2>2 DEF Hists, Unblamed
    <3>2. PICK l \in SUBSET Client : l = IF read[c] > srv.self + 1 THEN hist.lost \cup {c} ELSE hist.lost
      BY <2>2 DEF Hists
    <3>3. hist' = [hist EXCEPT !.lost = l, !.unblamed = u]
      BY <1>2, <3>1, <3>2
    <3> QED BY <2>2, <3>3 DEF Hists
  <2> QED BY <1>2, <2>1, <2>3, <2>4, <2>5, <2>6 DEF Types
<1> QED BY <1>1, <1>2 DEF RecvSpectate

LEMMA RefuseTypes ==
  ASSUME Types, NEW c, Refuse(c)
  PROVE  toC' \in [Client -> Seq(ToClient)]
<1>1. toC \in [Client -> Seq(ToClient)]
  BY DEF Types
<1> QED BY <1>1, RefusalIsCommand, SentTypes DEF Refuse

LEMMA PlayTypes ==
  ASSUME Types, NEW c \in Client, NEW r \in Requested, toS[c] # <<>>, RecvPlay(c, r)
  PROVE  Types'
<1>1. CASE Nak(c, "play")
  BY <1>1, NakTypes
<1>2. CASE /\ Refuse(c) /\ toS' = [toS EXCEPT ![c] = Tail(@)]
           /\ UNCHANGED <<srv, conn, read, devs, share, cl, hist>>
  <2>1. toS' \in [Client -> Seq(ToServer)] /\ toC' \in [Client -> Seq(ToClient)]
    BY <1>2, TailTypes, RefuseTypes
  <2> QED BY <1>2, <2>1 DEF Types
<1>3. ASSUME read' = [read EXCEPT ![c] = Start], toS' = [toS EXCEPT ![c] = Tail(@)],
             UNCHANGED <<srv, cl>>,
             \/ /\ Granted(r) /\ Grant(c, r)
                /\ conn' = [conn EXCEPT ![c].mode = "playing"]
                /\ toC' = [x \in Client |-> IF x \in Active
                             THEN Append(toC[x], ModeCmd(Start, c, Devs(r), x = c)) ELSE toC[x]]
                /\ UNCHANGED hist
             \/ Refuse(c) /\ UNCHANGED <<conn, devs, share, hist>>
             \/ /\ hist' = [hist EXCEPT !.ignored = @ \cup {c}]
                /\ UNCHANGED <<conn, devs, share, toC>>
      PROVE  Types'
  <2>1. toS' \in [Client -> Seq(ToServer)]
    BY <1>3, TailTypes
  <2>2. Start \in Nat
    BY DEF Types, Servers, Start
  <2>3. read' \in [Client -> Nat]
    BY <1>3, <2>2 DEF Types
  <2>4. CASE /\ Granted(r) /\ Grant(c, r)
             /\ conn' = [conn EXCEPT ![c].mode = "playing"]
             /\ toC' = [x \in Client |-> IF x \in Active
                          THEN Append(toC[x], ModeCmd(Start, c, Devs(r), x = c)) ELSE toC[x]]
             /\ UNCHANGED hist
    <3>1. Devs(r) \in SUBSET Devices
      BY <2>4, DevsGiven
    <3>2. ASSUME NEW x \in Client PROVE ModeCmd(Start, c, Devs(r), x = c) \in ToClient
      <4>1. PICK you \in BOOLEAN : you = (x = c)
        OBVIOUS
      <4>2. ModeCmd(Start, c, Devs(r), you) \in ToClient
        BY <2>2, <3>1, ServerIsPeer, ModeIsCommand
      <4> QED BY <4>1, <4>2, Zenon
    <3>3. toC' \in [Client -> Seq(ToClient)]
      <4>1. toC \in [Client -> Seq(ToClient)]
        BY DEF Types
      <4>2. PICK g : \A x \in Client : g[x] = ModeCmd(Start, c, Devs(r), x = c)
        <5>1. PICK h : h = [x \in Client |-> ModeCmd(Start, c, Devs(r), x = c)]
          OBVIOUS
        <5>2. \A x \in Client : h[x] = ModeCmd(Start, c, Devs(r), x = c)
          BY <5>1, Zenon
        <5> QED BY <5>2, Zenon
      <4>3. \A x \in Client : g[x] \in ToClient
        BY <3>2, <4>2, Zenon
      <4>4. ASSUME NEW x \in Client
            PROVE  (IF x \in Active THEN Append(toC[x], g[x]) ELSE toC[x]) \in Seq(ToClient)
        BY <4>1, <4>3
      <4>5. ASSUME NEW x \in Client
            PROVE  (IF x \in Active THEN Append(toC[x], ModeCmd(Start, c, Devs(r), x = c))
                    ELSE toC[x]) \in Seq(ToClient)
        BY <4>2, <4>4, Zenon
      <4> QED BY <2>4, <4>5, Zenon
    <3>4. conn' \in [Client -> Conns]
      BY <2>4 DEF Types, Conns
    <3>5. devs' \in Views /\ share' \in [Devices -> BOOLEAN]
      BY <2>4, GrantTypes, ServerIsPeer DEF Types
    <3>6. UNCHANGED <<srv, cl, hist>>
      BY <1>3, <2>4
    <3> QED BY <2>1, <2>3, <3>3, <3>4, <3>5, <3>6 DEF Types
  <2>5. CASE Refuse(c) /\ UNCHANGED <<conn, devs, share, hist>>
    <3>1. toC' \in [Client -> Seq(ToClient)]
      BY <2>5, RefuseTypes
    <3> QED BY <1>3, <2>1, <2>3, <2>5, <3>1 DEF Types
  <2>6. CASE /\ hist' = [hist EXCEPT !.ignored = @ \cup {c}]
             /\ UNCHANGED <<conn, devs, share, toC>>
    <3>1. hist' \in Hists
      BY <2>6 DEF Types, Hists
    <3> QED BY <1>3, <2>1, <2>3, <2>6, <3>1 DEF Types
  <2> QED BY <1>3, <2>4, <2>5, <2>6
<1>4. \/ Nak(c, "play")
      \/ Refuse(c) /\ toS' = [toS EXCEPT ![c] = Tail(@)] /\ UNCHANGED <<srv, conn, read, devs, share, cl, hist>>
      \/ /\ read' = [read EXCEPT ![c] = Start] /\ toS' = [toS EXCEPT ![c] = Tail(@)]
         /\ UNCHANGED <<srv, cl>>
         /\ \/ /\ Granted(r) /\ Grant(c, r)
               /\ conn' = [conn EXCEPT ![c].mode = "playing"]
               /\ toC' = [x \in Client |-> IF x \in Active
                            THEN Append(toC[x], ModeCmd(Start, c, Devs(r), x = c)) ELSE toC[x]]
               /\ UNCHANGED hist
            \/ Refuse(c) /\ UNCHANGED <<conn, devs, share, hist>>
            \/ /\ hist' = [hist EXCEPT !.ignored = @ \cup {c}]
               /\ UNCHANGED <<conn, devs, share, toC>>
  BY Zenon DEF RecvPlay
<1> QED BY <1>1, <1>2, <1>3, <1>4, Zenon

(* The server reads the next command of a client. *)
LEMMA RecvCmdTypes ==
  ASSUME Types, NEW c \in Client, RecvCmd(c)
  PROVE  Types'
<1>1. PICK m : m = Head(toS[c])
  OBVIOUS
<1>2. toS[c] \in Seq(ToServer) /\ toS[c] # <<>>
  BY DEF Types, RecvCmd
<1>3. /\ m.t = "input" => m.frame \in Nat
      /\ m.t = "play" => m.req \in Requested
  BY <1>1, <1>2, HeadTyped
<1>4. \/ m.t = "input" /\ RecvInput(c, m.frame)
      \/ m.t = "spectate" /\ RecvSpectate(c)
      \/ m.t = "play" /\ RecvPlay(c, m.req)
      \/ m.t = "closed" /\ RecvClosed(c)
  BY <1>1 DEF RecvCmd
<1> QED BY <1>2, <1>3, <1>4, InputTypes, SpectateTypes, PlayTypes, ClosedTypes

(* The user of the server starts and stops to play. *)
LEMMA ServerPlayTypes ==
  ASSUME Types, NEW r \in Ask[0], ServerPlay(r)
  PROVE  Types'
<1>1. r \in Requested /\ 0 \in Peer
  BY ServerIsPeer DEF Requested
<1>2. devs' \in Views /\ share' \in [Devices -> BOOLEAN]
  BY <1>1, GrantTypes DEF Types, ServerPlay
<1>3. srv \in Servers /\ hist \in Hists /\ toC \in [Client -> Seq(ToClient)]
  BY DEF Types
<1>4. srv' \in Servers
  <2>1. PICK b \in BOOLEAN : b = TRUE
    OBVIOUS
  <2>2. srv' = [srv EXCEPT !.playing = b]
    BY <2>1 DEF ServerPlay
  <2> QED BY <1>3, <2>2 DEF Servers
<1>5. hist' \in Hists
  <2>1. PICK b \in BOOLEAN : b = (hist.late \/ (srv.stall /\ Active # {}))
    BY <1>3 DEF Hists
  <2>2. hist' = [hist EXCEPT !.late = b]
    BY <2>1 DEF ServerPlay
  <2> QED BY <1>3, <2>2 DEF Hists
<1>6. toC' \in [Client -> Seq(ToClient)]
  <2>1. PICK you \in BOOLEAN : you = FALSE
    OBVIOUS
  <2>2. Devs(r) \in SUBSET Devices /\ srv.self \in Nat
    BY <1>1, <1>3, DevsGiven DEF ServerPlay, Servers
  <2>3. ModeCmd(srv.self, 0, Devs(r), you) \in ToClient
    BY <1>1, <2>2, ModeIsCommand
  <2>4. toC' = SendTo(toC, Active, ModeCmd(srv.self, 0, Devs(r), you))
    BY <2>1 DEF ServerPlay
  <2> QED BY <1>3, <2>3, <2>4, SentTypes
<1>7. UNCHANGED <<conn, read, cl, toS>>
  BY DEF ServerPlay
<1> QED BY <1>2, <1>4, <1>5, <1>6, <1>7 DEF Types

LEMMA ServerReadIsNat == ASSUME Types PROVE ServerRead \in Nat
BY DEF Types, Servers, ServerRead

LEMMA ServerSpectateTypes ==
  ASSUME Types, ServerSpectate
  PROVE  Types'
<1>1. srv \in Servers /\ toC \in [Client -> Seq(ToClient)] /\ devs \in Views
  BY DEF Types
<1>2. devs' \in Views
  BY <1>1, ServerIsPeer, ViewChanged DEF ServerSpectate
<1>4. srv' \in Servers
  <2>1. PICK b \in BOOLEAN : b = FALSE
    OBVIOUS
  <2>2. srv' = [srv EXCEPT !.playing = b]
    BY <2>1 DEF ServerSpectate
  <2> QED BY <1>1, <2>2 DEF Servers
<1>6. toC' \in [Client -> Seq(ToClient)]
  <2>1. PICK you \in BOOLEAN : you = FALSE
    OBVIOUS
  <2>2. ModeCmd(ServerRead, 0, {}, you) \in ToClient
    BY ServerReadIsNat, ServerIsPeer, ModeIsCommand
  <2>3. toC' = SendTo(toC, Active, ModeCmd(ServerRead, 0, {}, you))
    BY <2>1 DEF ServerSpectate
  <2> QED BY <1>1, <2>2, <2>3, SentTypes
<1>7. UNCHANGED <<conn, read, share, cl, toS, hist>>
  BY DEF ServerSpectate
<1> QED BY <1>2, <1>4, <1>6, <1>7 DEF Types

(* What the end of a frame does to a client in state e: it waits, or goes  *)
(* on without input, or sends the input of the next frame, of one before   *)
(* the first the server wants too.                                         *)
Waits(e, t)   == t.self = e.self /\ t.sent = e.sent /\ t.out = e.out
GoesOn(e, t)  == /\ e.mode = "playing" => e.self + 1 < e.sent
                 /\ t.self = e.self + 1 /\ t.sent = e.sent /\ t.out = e.out
SendsNext(c, e, t) ==
  /\ e.mode = "playing" /\ e.self + 1 >= e.sent
  /\ t.self = e.self + 1 /\ t.sent = e.self + 2
  /\ t.out = Append(e.out, InputCmd(e.self + 1, c))

SendsEarly(c, e, t) ==
  /\ e.mode = "playing" /\ e.self + 1 < e.sent
  /\ t.self = e.self + 1 /\ t.sent = e.sent
  /\ t.out = Append(e.out, InputCmd(e.self + 1, c))

Advances(c, e, t) ==
  /\ t \in States /\ t.mode = e.mode /\ t.view = e.view /\ t.read = e.read /\ t.server = e.server
  /\ Waits(e, t) \/ GoesOn(e, t) \/ SendsNext(c, e, t) \/ SendsEarly(c, e, t)

(* A frame of a client: it sends its input when it plays. *)
LEMMA AdvanceEffect ==
  ASSUME NEW c \in Client, NEW e \in States, e.mode # "none", NEW unmarked \in BOOLEAN,
         NEW t, t = Advanced(c, e, unmarked)
  PROVE  Advances(c, e, t)
<1>1. /\ e \in Fields /\ e.self \in Nat /\ e.sent \in Nat /\ e.out \in Seq(ToServer)
  BY DEF States, Fields
<1>2. PICK next \in Nat : next = e.self + 1
  BY <1>1
<1>3. CASE ClientStall(c, e) # "none" \/ e.self = MaxFrame
  <2>1. PICK b \in BOOLEAN : b = (ClientStall(c, e) = "fast")
    OBVIOUS
  <2>2. t = [e EXCEPT !.fast = b]
    BY <1>3, <2>1 DEF Advanced
  <2>3. t \in States /\ t.mode = e.mode /\ t.view = e.view /\ t.read = e.read
        /\ t.server = e.server /\ t.self = e.self /\ t.sent = e.sent /\ t.out = e.out
    BY <2>2 DEF States, Fields
  <2> QED BY <2>3 DEF Advances, Waits
<1>4. CASE ~(ClientStall(c, e) # "none" \/ e.self = MaxFrame)
  <2>1. PICK due \in BOOLEAN : due <=> (e.mode = "playing" /\ next >= e.sent)
    <3>1. (e.mode = "playing" /\ next >= e.sent) \in BOOLEAN
      OBVIOUS
    <3> QED BY <3>1
  <2>2. PICK early \in BOOLEAN : early <=> (e.mode = "playing" /\ next < e.sent /\ unmarked)
    <3>1. (e.mode = "playing" /\ next < e.sent /\ unmarked) \in BOOLEAN
      OBVIOUS
    <3> QED BY <3>1
  <2>3. PICK sent \in Nat : sent = IF due THEN next + 1 ELSE e.sent
    BY <1>1
  <2>4. PICK m \in ToServer : m = InputCmd(next, c)
    BY InputIsCommand, ServerIsPeer
  <2>5. PICK out \in Seq(ToServer) : out = IF due \/ early THEN Append(e.out, m) ELSE e.out
    <3>1. Append(e.out, m) \in Seq(ToServer)
      BY <1>1
    <3> QED BY <1>1, <3>1
  <2>6. t = [e EXCEPT !.fast = FALSE, !.self = next, !.sent = sent, !.out = out]
    <3>1. t = [e EXCEPT !.fast = FALSE, !.self = next,
                     !.sent = IF due THEN next + 1 ELSE @,
                     !.out  = IF due \/ early THEN Append(@, m) ELSE @]
      BY <1>2, <1>4, <2>1, <2>2, <2>4 DEF Advanced
    <3>2. [e EXCEPT !.fast = FALSE, !.self = next,
                     !.sent = IF due THEN next + 1 ELSE @,
                     !.out  = IF due \/ early THEN Append(@, m) ELSE @]
          = [e EXCEPT !.fast = FALSE, !.self = next,
                     !.sent = IF due THEN next + 1 ELSE e.sent,
                     !.out  = IF due \/ early THEN Append(e.out, m) ELSE e.out]
      BY <1>1 DEF Fields
    <3> QED BY <3>1, <3>2, <2>3, <2>5
  <2>7. PICK b \in BOOLEAN : b = FALSE
    OBVIOUS
  <2>8. t = [e EXCEPT !.fast = b, !.self = next, !.sent = sent, !.out = out]
    BY <2>6, <2>7
  <2>9. /\ t \in Fields /\ t.mode = e.mode /\ t.view = e.view /\ t.read = e.read
        /\ t.server = e.server /\ t.self = next /\ t.sent = sent /\ t.out = out
    BY <1>1, <2>8 DEF Fields
  <2>10. t \in States
    BY <2>9 DEF States
  <2>11. due => e.mode = "playing" /\ e.self + 1 >= e.sent /\ sent = e.self + 2
    BY <1>1, <1>2, <2>1, <2>3
  <2>12. ~due => sent = e.sent /\ (e.mode = "playing" => e.self + 1 < e.sent)
    BY <1>1, <1>2, <2>1, <2>3
  <2>13. early => e.mode = "playing" /\ ~due
    BY <1>1, <2>1, <2>2
  <2>14. due \/ early => out = Append(e.out, InputCmd(e.self + 1, c))
    BY <1>2, <2>4, <2>5
  <2>15. CASE due
    BY <1>2, <2>9, <2>10, <2>11, <2>14, <2>15 DEF Advances, SendsNext
  <2>16. CASE early
    BY <1>2, <2>9, <2>10, <2>12, <2>13, <2>14, <2>16 DEF Advances, SendsEarly
  <2>17. CASE ~due /\ ~early
    <3>1. out = e.out
      BY <2>5, <2>17
    <3> QED BY <1>2, <2>9, <2>10, <2>12, <2>17, <3>1 DEF Advances, GoesOn
  <2> QED BY <2>15, <2>16, <2>17
<1> QED BY <1>3, <1>4

LEMMA AppendTypes ==
  ASSUME Types, NEW c \in Client, NEW m \in ToServer, toS' = [toS EXCEPT ![c] = Append(@, m)]
  PROVE  toS' \in [Client -> Seq(ToServer)]
<1>1. toS \in [Client -> Seq(ToServer)] /\ Append(toS[c], m) \in Seq(ToServer)
  BY DEF Types
<1> QED BY <1>1

LEMMA ClosedIsCommand == [t |-> "closed"] \in ToServer /\ [t |-> "spectate"] \in ToServer
BY DEF ToServer

LEMMA NothingTypes ==
  ASSUME Types, NEW c \in Client, toC' = [toC EXCEPT ![c] = <<>>]
  PROVE  toC' \in [Client -> Seq(ToClient)]
<1>1. toC \in [Client -> Seq(ToClient)] /\ <<>> \in Seq(ToClient)
  BY DEF Types
<1> QED BY <1>1

LEMMA GoneTypes ==
  ASSUME Types, NEW c \in Client, cl' = [cl EXCEPT ![c] = NoClient]
  PROVE  cl' \in [Client -> States]
BY NoClientIsState DEF Types

LEMMA WaitingTypes ==
  ASSUME Types, NEW c \in Client,
         \/ hist' = [hist EXCEPT !.waiting = @ \ {c}]
         \/ hist' = [hist EXCEPT !.waiting = @ \cup {c}]
         \/ hist' = [hist EXCEPT !.waiting = @]
  PROVE  hist' \in Hists
<1>1. hist \in Hists
  BY DEF Types
<1>2. PICK w \in SUBSET Client : hist' = [hist EXCEPT !.waiting = w]
  BY <1>1 DEF Hists
<1> QED BY <1>1, <1>2 DEF Hists

(* A client polls, and sends what it has to send. *)
LEMMA ClientFrameTypes ==
  ASSUME Types, NEW c \in Client, ClientFrame(c)
  PROVE  Types'
<1>1. PICK s \in States : s = Polled(c)
  BY PolledIsState
<1>2. toC' \in [Client -> Seq(ToClient)] /\ UNCHANGED <<srv, conn, read, devs, share>>
  BY NothingTypes DEF ClientFrame
<1>3. ASSUME s.mode # "none", NEW unmarked \in BOOLEAN, NEW t, t = Advanced(c, s, unmarked),
             cl' = [cl EXCEPT ![c] = [t EXCEPT !.out = <<>>]],
             toS' = [toS EXCEPT ![c] = @ \o t.out],
             \/ hist' = [hist EXCEPT !.waiting = @ \ {c}]
             \/ hist' = [hist EXCEPT !.waiting = @ \cup {c}]
             \/ hist' = [hist EXCEPT !.waiting = @]
      PROVE  Types'
  <2>1. Advances(c, s, t)
    BY <1>3, AdvanceEffect
  <2>2. t \in States /\ t.mode # "none"
    BY <1>3, <2>1 DEF Advances
  <2>21. t.out \in Seq(ToServer)
    BY <2>2 DEF States, Fields
  <2>3. [t EXCEPT !.out = <<>>] \in States
    <3>0. <<>> \in Seq(ToServer)
      OBVIOUS
    <3>1. PICK o \in Seq(ToServer) : o = <<>>
      BY <3>0
    <3>2. [t EXCEPT !.out = o] \in States
      BY <2>2 DEF States, Fields
    <3> QED BY <3>1, <3>2
  <2>4. cl' \in [Client -> States]
    BY <1>3, <2>3 DEF Types
  <2>5. toS' \in [Client -> Seq(ToServer)]
    <3>1. toS \in [Client -> Seq(ToServer)]
      BY DEF Types
    <3>2. toS[c] \o t.out \in Seq(ToServer)
      BY <3>1, <2>21
    <3> QED BY <1>3, <3>1, <3>2
  <2>6. hist' \in Hists
    BY <1>3, WaitingTypes
  <2> QED BY <1>2, <2>4, <2>5, <2>6 DEF Types
<1>4. CASE /\ cl' = [cl EXCEPT ![c] = NoClient]
           /\ toS' = [toS EXCEPT ![c] = Append(@, [t |-> "closed"])]
           /\ hist' = [hist EXCEPT !.nak = @ \cup {<<"client", c>>}, !.waiting = @ \ {c}]
  <2>1. toS' \in [Client -> Seq(ToServer)] /\ cl' \in [Client -> States]
    BY <1>4, ClosedIsCommand, AppendTypes, GoneTypes
  <2>2. hist' \in Hists
    <3>1. hist \in Hists
      BY DEF Types
    <3>2. PICK n \in SUBSET Naks, w \in SUBSET Client :
            n = hist.nak \cup {<<"client", c>>} /\ w = hist.waiting \ {c}
      <4>1. hist.nak \in SUBSET Naks /\ hist.waiting \in SUBSET Client
        BY <3>1 DEF Hists
      <4>2. <<"client", c>> \in Naks
        BY DEF Naks
      <4> QED BY <4>1, <4>2
    <3>3. hist' = [hist EXCEPT !.nak = n, !.waiting = w]
      BY <1>4, <3>2
    <3> QED BY <3>1, <3>3 DEF Hists
  <2> QED BY <1>2, <2>1, <2>2 DEF Types
<1>5. \/ /\ s.mode # "none"
         /\ \E unmarked \in BOOLEAN :
              LET t == Advanced(c, s, unmarked)
              IN  /\ cl' = [cl EXCEPT ![c] = [t EXCEPT !.out = <<>>]]
                  /\ toS' = [toS EXCEPT ![c] = @ \o t.out]
                  /\ hist' = [hist EXCEPT !.waiting =
                        CASE \E i \in DOMAIN toC[c] : IsAnswer(toC[c][i]) -> @ \ {c}
                          [] \E i \in DOMAIN t.out : t.out[i].t = "play"   -> @ \cup {c}
                          [] OTHER -> @]
      \/ /\ cl' = [cl EXCEPT ![c] = NoClient]
         /\ toS' = [toS EXCEPT ![c] = Append(@, [t |-> "closed"])]
         /\ hist' = [hist EXCEPT !.nak = @ \cup {<<"client", c>>}, !.waiting = @ \ {c}]
  BY <1>1, Zenon DEF ClientFrame
<1>6. ASSUME s.mode # "none", NEW unmarked \in BOOLEAN, NEW t, t = Advanced(c, s, unmarked),
             cl' = [cl EXCEPT ![c] = [t EXCEPT !.out = <<>>]],
             toS' = [toS EXCEPT ![c] = @ \o t.out],
             hist' = [hist EXCEPT !.waiting =
                        CASE \E i \in DOMAIN toC[c] : IsAnswer(toC[c][i]) -> @ \ {c}
                          [] \E i \in DOMAIN t.out : t.out[i].t = "play"   -> @ \cup {c}
                          [] OTHER -> @]
      PROVE  Types'
  <2>1. \/ hist' = [hist EXCEPT !.waiting = @ \ {c}]
        \/ hist' = [hist EXCEPT !.waiting = @ \cup {c}]
        \/ hist' = [hist EXCEPT !.waiting = @]
    BY <1>6
  <2> QED BY <1>3, <1>6, <2>1
<1> QED BY <1>4, <1>5, <1>6

(* The user of a client starts or stops to play. *)
LEMMA ClientToggleTypes ==
  ASSUME Types, NEW c \in Client, ClientToggle(c)
  PROVE  Types'
<1>1. UNCHANGED <<srv, conn, read, devs, share, toC>>
  BY DEF ClientToggle
<1>2. CASE /\ cl[c].mode = "playing"
           /\ cl' = [cl EXCEPT ![c].mode = "spectating"]
           /\ toS' = [toS EXCEPT ![c] = Append(@, [t |-> "spectate"])]
           /\ UNCHANGED hist
  <2>1. toS' \in [Client -> Seq(ToServer)]
    BY <1>2, ClosedIsCommand, AppendTypes
  <2>2. [cl[c] EXCEPT !.mode = "spectating"] \in States
    BY PolledIsState DEF States, Fields
  <2>3. cl' \in [Client -> States]
    BY <1>2, <2>2 DEF Types
  <2> QED BY <1>1, <1>2, <2>1, <2>3 DEF Types
<1>3. ASSUME NEW r \in Ask[c], toS' = [toS EXCEPT ![c] = Append(@, PlayCmd(r))],
             hist' = [hist EXCEPT !.waiting = @ \cup {c},
                      !.impatient = IF c \in hist.waiting THEN @ \cup {c} ELSE @],
             UNCHANGED cl
      PROVE  Types'
  <2>1. PlayCmd(r) \in ToServer
    BY ServerIsPeer DEF ToServer, Requested
  <2>2. toS' \in [Client -> Seq(ToServer)]
    BY <1>3, <2>1, AppendTypes
  <2>3. hist' \in Hists
    BY <1>3 DEF Types, Hists
  <2> QED BY <1>1, <1>3, <2>2, <2>3 DEF Types
<1> QED BY <1>2, <1>3 DEF ClientToggle

(* A client leaves, or is lost. *)
LEMMA QuitTypes ==
  ASSUME Types, NEW c \in Client, Quit(c) \/ Crash(c)
  PROVE  Types'
<1>1. UNCHANGED <<srv, conn, read, devs, share>>
  BY DEF Quit, Crash
<1>2. toC' \in [Client -> Seq(ToClient)] /\ cl' \in [Client -> States]
  BY NothingTypes, GoneTypes DEF Quit, Crash
<1>3. hist' \in Hists
  <2>1. hist \in Hists /\ hist' = [hist EXCEPT !.waiting = @ \ {c}]
    BY DEF Types, Quit, Crash
  <2> QED BY <2>1 DEF Hists
<1>4. toS' \in [Client -> Seq(ToServer)]
  BY ClosedIsCommand, AppendTypes DEF Quit, Crash, Types
<1> QED BY <1>1, <1>2, <1>3, <1>4 DEF Types

(* A client connects. *)
LEMMA JoinTypes ==
  ASSUME Types, NEW c \in Client, Join(c)
  PROVE  Types'
<1>1. UNCHANGED <<read, devs, share, hist>>
  BY DEF Join
<1>2. srv \in Servers /\ srv.self \in Nat
  BY DEF Types, Servers
<1>3. srv' \in Servers
  <2>1. PICK b \in BOOLEAN : b = TRUE
    OBVIOUS
  <2>2. srv' = [srv EXCEPT !.save = b]
    BY <2>1 DEF Join
  <2> QED BY <1>2, <2>2 DEF Servers
<1>4. conn' \in [Client -> Conns]
  BY DEF Types, Join, Conns, NoConn
<1>5. toC' \in [Client -> Seq(ToClient)]
  <2>1. toC' = [toC EXCEPT ![c] = <<SyncOf(srv.self, devs)>> \o CurInput(c, read)]
    BY DEF Join, SyncCmd, SyncOf
  <2>2. PICK ms \in Seq(ToClient) : ms = CurInput(c, read)
    BY <1>2, CurInputKinds
  <2>3. PICK m \in ToClient : m = SyncOf(srv.self, devs)
    BY <1>2, SyncIsCommand DEF Types
  <2>4. <<m>> \o ms \in Seq(ToClient)
    OBVIOUS
  <2> QED BY <2>1, <2>2, <2>3, <2>4 DEF Types
<1>6. toS' \in [Client -> Seq(ToServer)]
  <2>1. <<>> \in Seq(ToServer)
    OBVIOUS
  <2> QED BY <2>1 DEF Types, Join
<1>7. cl' \in [Client -> States]
  <2>1. PICK out \in {<<>>} \cup {<<PlayCmd(r)>> : r \in Ask[c]} :
           cl' = [cl EXCEPT ![c].mode = "pre_sync", ![c].out = out]
    BY DEF Join
  <2>2. out \in Seq(ToServer)
    <3>1. ASSUME NEW r \in Ask[c] PROVE <<PlayCmd(r)>> \in Seq(ToServer)
      <4>1. PlayCmd(r) \in ToServer
        BY ServerIsPeer DEF ToServer, Requested
      <4> QED BY <4>1
    <3>2. <<>> \in Seq(ToServer)
      OBVIOUS
    <3> QED BY <2>1, <3>1, <3>2
  <2>3. cl' = [cl EXCEPT ![c] = [cl[c] EXCEPT !.mode = "pre_sync", !.out = out]]
    BY <2>1 DEF Types
  <2>4. [cl[c] EXCEPT !.mode = "pre_sync", !.out = out] \in States
    BY <2>2, PolledIsState DEF States, Fields
  <2> QED BY <2>3, <2>4 DEF Types
<1> QED BY <1>1, <1>3, <1>4, <1>5, <1>6, <1>7 DEF Types

(* Every step keeps the types. *)
LEMMA NextTypes == Types /\ [Next]_vars => Types'
<1> SUFFICES ASSUME Types, [Next]_vars PROVE Types'
  OBVIOUS
<1>1. CASE PreFrame
  BY <1>1, PreFrameTypes
<1>2. CASE EndPoll
  BY <1>2, EndPollTypes
<1>3. CASE StallOut
  BY <1>3, StallOutTypes
<1>4. CASE ServerSpectate
  BY <1>4, ServerSpectateTypes
<1>5. CASE \E r \in Ask[0] : ServerPlay(r)
  BY <1>5, ServerPlayTypes
<1>6. ASSUME NEW c \in Client, RecvCmd(c) \/ Join(c) \/ ClientFrame(c)
             \/ ClientToggle(c) \/ Quit(c) \/ Crash(c)
      PROVE  Types'
  BY <1>6, RecvCmdTypes, JoinTypes, ClientFrameTypes, ClientToggleTypes, QuitTypes
<1>7. CASE UNCHANGED vars
  BY <1>7 DEF vars, Types
<1> QED BY <1>1, <1>2, <1>3, <1>4, <1>5, <1>6, <1>7 DEF Next

-----------------------------------------------------------------------------
(* Commands on the way to the server. *)

LEMMA FrameTyped ==
  ASSUME NEW q \in Seq(ToServer), NEW i \in 1..Len(q), q[i].t = "input"
  PROVE  q[i].frame \in Nat
<1>1. PICK m \in ToServer : m = q[i]
  OBVIOUS
<1>2. m.t = "input" => m.frame \in Nat
  BY <1>1 DEF ToServer, PlayCmd, InputCmd
<1> QED BY <1>1, <1>2

(* The commands of Tail, Append and \o, place by place. *)
LEMMA TailParts ==
  ASSUME NEW q \in Seq(ToServer), q # <<>>, NEW p, p = Tail(q)
  PROVE  /\ p \in Seq(ToServer) /\ Len(p) = Len(q) - 1 /\ Len(q) \in Nat \ {0} /\ Head(q) = q[1]
         /\ \A i \in 1..Len(p) : i + 1 \in 1..Len(q) /\ p[i] = q[i + 1]
         /\ \A i \in 1..Len(q) : i > 1 => i - 1 \in 1..Len(p) /\ q[i] = p[i - 1]
<1>1. p \in Seq(ToServer) /\ Len(p) = Len(q) - 1 /\ Len(q) \in Nat \ {0} /\ Head(q) = q[1]
  OBVIOUS
<1>2. \A i \in 1..Len(p) : i + 1 \in 1..Len(q) /\ p[i] = q[i + 1]
  BY <1>1
<1>3. ASSUME NEW i \in 1..Len(q), i > 1 PROVE i - 1 \in 1..Len(p) /\ q[i] = p[i - 1]
  BY <1>1, <1>3
<1> QED BY <1>1, <1>2, <1>3

LEMMA AppendParts ==
  ASSUME NEW T, NEW q \in Seq(T), NEW m \in T, NEW p, p = Append(q, m)
  PROVE  /\ p \in Seq(T) /\ Len(q) \in Nat /\ Len(p) = Len(q) + 1 /\ p[Len(p)] = m
         /\ \A i \in 1..Len(q) : i \in 1..Len(p) /\ p[i] = q[i]
         /\ \A i \in 1..Len(p) : i = Len(p) \/ i \in 1..Len(q)
<1>1. p \in Seq(T) /\ Len(q) \in Nat /\ Len(p) = Len(q) + 1 /\ p[Len(p)] = m
  OBVIOUS
<1>2. \A i \in 1..Len(q) : i \in 1..Len(p) /\ p[i] = q[i]
  BY <1>1
<1>3. \A i \in 1..Len(p) : i = Len(p) \/ i \in 1..Len(q)
  BY <1>1
<1> QED BY <1>1, <1>2, <1>3

(* p is q with o behind it. *)
IsConcat(p, q, o) ==
  /\ Len(q) \in Nat /\ Len(o) \in Nat /\ Len(p) = Len(q) + Len(o)
  /\ \A i \in 1..Len(q) : i \in 1..Len(p) /\ p[i] = q[i]
  /\ \A k \in 1..Len(o) : Len(q) + k \in 1..Len(p) /\ p[Len(q) + k] = o[k]
  /\ \A i \in 1..Len(p) : i \in 1..Len(q) \/ \E k \in 1..Len(o) : i = Len(q) + k

LEMMA ConcatParts ==
  ASSUME NEW T, NEW q \in Seq(T), NEW o \in Seq(T), NEW p, p = q \o o
  PROVE  p \in Seq(T) /\ IsConcat(p, q, o)
<1>1. p \in Seq(T) /\ Len(q) \in Nat /\ Len(o) \in Nat /\ Len(p) = Len(q) + Len(o)
  OBVIOUS
<1>2. \A i \in 1..Len(q) : i \in 1..Len(p) /\ p[i] = q[i]
  BY <1>1
<1>3. \A k \in 1..Len(o) : Len(q) + k \in 1..Len(p) /\ p[Len(q) + k] = o[k]
  BY <1>1
<1>4. ASSUME NEW i \in 1..Len(p), i \notin 1..Len(q)
      PROVE  \E k \in 1..Len(o) : i = Len(q) + k
  <2>1. i - Len(q) \in 1..Len(o) /\ i = Len(q) + (i - Len(q))
    BY <1>1, <1>4
  <2> QED BY <2>1
<1> QED BY <1>1, <1>2, <1>3, <1>4 DEF IsConcat

(* Inputs that come in turn do so when more has been read, *)
LEMMA InTurnLater ==
  ASSUME NEW q \in Seq(ToServer), NEW r \in Nat, NEW s \in Nat, r <= s, InTurn(q, r)
  PROVE  InTurn(q, s)
<1>1. \A i \in 1..Len(q) : q[i].t = "input" => q[i].frame \in Nat
  BY FrameTyped
<1> QED BY <1>1 DEF InTurn

(* when the first of them is read, *)
LEMMA InTurnTail ==
  ASSUME NEW q \in Seq(ToServer), q # <<>>, NEW r \in Nat, NEW s \in Nat, r <= s, InTurn(q, r),
         Head(q).t = "input" => Head(q).frame + 1 <= s
  PROVE  InTurn(Tail(q), s)
<1>1. PICK p : p = Tail(q)
  OBVIOUS
<1>2. /\ p \in Seq(ToServer) /\ Len(p) = Len(q) - 1 /\ Len(q) \in Nat \ {0} /\ Head(q) = q[1]
      /\ \A i \in 1..Len(p) : i + 1 \in 1..Len(q) /\ p[i] = q[i + 1]
  BY <1>1, TailParts
<1>3. ASSUME NEW i \in 1..Len(p), p[i].t = "input"
      PROVE  p[i].frame <= s \/ (i > 1 /\ p[i - 1].t = "input" /\ p[i].frame <= p[i - 1].frame + 1)
  <2>1. i + 1 \in 1..Len(q) /\ p[i] = q[i + 1] /\ p[i].frame \in Nat
    BY <1>2, <1>3, FrameTyped
  <2>2. \/ p[i].frame <= r
        \/ q[i].t = "input" /\ p[i].frame <= q[i].frame + 1
    <3>1. i \in Nat /\ i + 1 - 1 = i
      OBVIOUS
    <3> QED BY <1>3, <2>1, <3>1 DEF InTurn
  <2>3. CASE p[i].frame <= r
    BY <2>1, <2>3
  <2>4. CASE q[i].t = "input" /\ p[i].frame <= q[i].frame + 1
    <3>1. CASE i = 1
      <4>1. q[1].t = "input" /\ q[1].frame + 1 <= s /\ p[i].frame <= q[1].frame + 1
            /\ q[1].frame \in Nat
        BY <1>2, <2>4, <3>1, FrameTyped
      <4> QED BY <2>1, <4>1
    <3>2. CASE i > 1
      <4>1. i - 1 \in 1..Len(p) /\ i - 1 + 1 = i
        BY <3>2
      <4>2. p[i - 1] = q[i]
        BY <1>2, <4>1
      <4> QED BY <2>4, <3>2, <4>2
    <3> QED BY <3>1, <3>2
  <2> QED BY <2>2, <2>3, <2>4
<1> QED BY <1>1, <1>3 DEF InTurn

(* when the next one is put behind them, *)
LEMMA InTurnAppend ==
  ASSUME NEW q \in Seq(ToServer), NEW m \in ToServer, NEW r \in Nat, InTurn(q, r),
         m.t = "input" => m.frame <= r \/ EndsBefore(q, m.frame)
  PROVE  InTurn(Append(q, m), r)
<1>1. PICK p : p = Append(q, m)
  OBVIOUS
<1>2. /\ p \in Seq(ToServer) /\ Len(q) \in Nat /\ Len(p) = Len(q) + 1 /\ p[Len(p)] = m
      /\ \A i \in 1..Len(q) : i \in 1..Len(p) /\ p[i] = q[i]
      /\ \A i \in 1..Len(p) : i = Len(p) \/ i \in 1..Len(q)
  BY <1>1, AppendParts
<1>3. ASSUME NEW i \in 1..Len(p), p[i].t = "input"
      PROVE  p[i].frame <= r \/ (i > 1 /\ p[i - 1].t = "input" /\ p[i].frame <= p[i - 1].frame + 1)
  <2>1. CASE i = Len(p)
    <3>1. m.frame <= r \/ EndsBefore(q, m.frame)
      BY <1>2, <1>3, <2>1
    <3>2. ASSUME EndsBefore(q, m.frame)
          PROVE  i > 1 /\ p[i - 1].t = "input" /\ p[i].frame <= p[i - 1].frame + 1
      <4>1. Len(q) # 0 /\ q[Len(q)].t = "input" /\ m.frame <= q[Len(q)].frame + 1
        BY <3>2 DEF EndsBefore
      <4>2. i - 1 = Len(q) /\ Len(q) \in 1..Len(q) /\ i > 1
        BY <1>2, <2>1, <4>1
      <4>3. p[i - 1] = q[Len(q)] /\ p[i] = m
        BY <1>2, <2>1, <4>2
      <4> QED BY <4>1, <4>2, <4>3
    <3> QED BY <1>2, <2>1, <3>1, <3>2
  <2>2. CASE i \in 1..Len(q)
    <3>1. p[i] = q[i] /\ (i > 1 => p[i - 1] = q[i - 1])
      BY <1>2, <2>2
    <3> QED BY <1>3, <2>2, <3>1 DEF InTurn
  <2> QED BY <1>2, <2>1, <2>2
<1> QED BY <1>1, <1>3 DEF InTurn

(* and when others in turn are. *)
LEMMA InTurnConcat ==
  ASSUME NEW q \in Seq(ToServer), NEW o \in Seq(ToServer), NEW r \in Nat,
         InTurn(q, r), InTurn(o, r)
  PROVE  InTurn(q \o o, r)
<1>1. PICK p : p = q \o o
  OBVIOUS
<1>11. IsConcat(p, q, o) /\ p \in Seq(ToServer)
  BY <1>1, ConcatParts
<1>2. /\ p \in Seq(ToServer) /\ Len(q) \in Nat /\ Len(o) \in Nat /\ Len(p) = Len(q) + Len(o)
      /\ \A i \in 1..Len(q) : i \in 1..Len(p) /\ p[i] = q[i]
      /\ \A k \in 1..Len(o) : Len(q) + k \in 1..Len(p) /\ p[Len(q) + k] = o[k]
      /\ \A i \in 1..Len(p) : i \in 1..Len(q)
                              \/ \E k \in 1..Len(o) : i = Len(q) + k
  BY <1>11 DEF IsConcat
<1>3. ASSUME NEW i \in 1..Len(p), p[i].t = "input"
      PROVE  p[i].frame <= r \/ (i > 1 /\ p[i - 1].t = "input" /\ p[i].frame <= p[i - 1].frame + 1)
  <2>1. CASE i \in 1..Len(q)
    <3>1. p[i] = q[i] /\ (i > 1 => p[i - 1] = q[i - 1])
      BY <1>2, <2>1
    <3> QED BY <1>3, <2>1, <3>1 DEF InTurn
  <2>2. CASE \E k \in 1..Len(o) : i = Len(q) + k
    <3>1. PICK k \in 1..Len(o) : i = Len(q) + k
      BY <2>2
    <3>2. p[i] = o[k]
      BY <1>2, <3>1
    <3>3. k > 1 => i > 1 /\ p[i - 1] = o[k - 1]
      <4>1. SUFFICES ASSUME k > 1 PROVE i > 1 /\ p[i - 1] = o[k - 1]
        OBVIOUS
      <4>2. k - 1 \in 1..Len(o) /\ i - 1 = Len(q) + (k - 1) /\ i > 1
        BY <1>2, <3>1, <4>1
      <4> QED BY <1>2, <4>2
    <3>4. o[k].frame <= r \/ (k > 1 /\ o[k - 1].t = "input" /\ o[k].frame <= o[k - 1].frame + 1)
      BY <1>3, <3>2 DEF InTurn
    <3> QED BY <3>2, <3>3, <3>4
  <2> QED BY <1>2, <2>1, <2>2
<1> QED BY <1>1, <1>3 DEF InTurn

(* What is sent last is what ends the sequence. *)
LEMMA EndsAppend ==
  ASSUME NEW q \in Seq(ToServer), NEW m \in ToServer, m.t = "input", NEW n, n <= m.frame + 1
  PROVE  EndsBefore(Append(q, m), n)
<1>1. PICK p : p = Append(q, m)
  OBVIOUS
<1>2. Len(q) \in Nat /\ Len(p) = Len(q) + 1 /\ p[Len(p)] = m
  BY <1>1, AppendParts
<1> QED BY <1>1, <1>2 DEF EndsBefore

LEMMA EndsConcat ==
  ASSUME NEW q \in Seq(ToServer), NEW o \in Seq(ToServer), NEW n, EndsBefore(o, n)
  PROVE  EndsBefore(q \o o, n)
<1>1. PICK p : p = q \o o
  OBVIOUS
<1>11. IsConcat(p, q, o) /\ p \in Seq(ToServer)
  BY <1>1, ConcatParts
<1>2. /\ p \in Seq(ToServer) /\ Len(q) \in Nat /\ Len(o) \in Nat /\ Len(p) = Len(q) + Len(o)
      /\ \A k \in 1..Len(o) : Len(q) + k \in 1..Len(p) /\ p[Len(q) + k] = o[k]
  BY <1>11 DEF IsConcat
<1>3. Len(o) # 0 /\ o[Len(o)].t = "input" /\ n <= o[Len(o)].frame + 1
  BY DEF EndsBefore
<1>4. Len(o) \in 1..Len(o) /\ Len(p) # 0
  BY <1>2, <1>3
<1>5. p[Len(p)] = o[Len(o)]
  BY <1>2, <1>4
<1> QED BY <1>1, <1>3, <1>4, <1>5 DEF EndsBefore

(* Once its last input is read, the next frame is that the server waits    *)
(* for.                                                                    *)
LEMMA EndsTail ==
  ASSUME NEW q \in Seq(ToServer), q # <<>>, NEW n \in Nat, NEW s \in Nat, EndsBefore(q, n),
         Head(q).t = "input" => Head(q).frame + 1 <= s
  PROVE  n <= s \/ EndsBefore(Tail(q), n)
<1>1. PICK p : p = Tail(q)
  OBVIOUS
<1>2. /\ p \in Seq(ToServer) /\ Len(p) = Len(q) - 1 /\ Len(q) \in Nat \ {0} /\ Head(q) = q[1]
      /\ \A i \in 1..Len(p) : i + 1 \in 1..Len(q) /\ p[i] = q[i + 1]
  BY <1>1, TailParts
<1>3. Len(q) # 0 /\ q[Len(q)].t = "input" /\ n <= q[Len(q)].frame + 1
  BY DEF EndsBefore
<1>4. CASE Len(q) = 1
  <2>1. q[1].frame \in Nat /\ q[1].frame + 1 <= s /\ n <= q[1].frame + 1
    BY <1>2, <1>3, <1>4, FrameTyped
  <2> QED BY <2>1
<1>5. CASE Len(q) # 1
  <2>1. Len(p) \in 1..Len(p) /\ Len(p) + 1 = Len(q) /\ Len(p) # 0
    BY <1>2, <1>5
  <2>2. p[Len(p)] = q[Len(q)]
    BY <1>2, <2>1
  <2> QED BY <1>1, <1>3, <2>1, <2>2 DEF EndsBefore
<1> QED BY <1>4, <1>5

(* Which kinds of command are left when one is taken or some are added. *)
LEMMA HasTail ==
  ASSUME NEW q \in Seq(ToServer), q # <<>>, NEW t
  PROVE  /\ Has(Tail(q), t) => Has(q, t)
         /\ Has(q, t) => Has(Tail(q), t) \/ Head(q).t = t
<1>1. PICK p : p = Tail(q)
  OBVIOUS
<1>2. /\ Len(q) \in Nat \ {0} /\ Head(q) = q[1]
      /\ \A i \in 1..Len(p) : i + 1 \in 1..Len(q) /\ p[i] = q[i + 1]
      /\ \A i \in 1..Len(q) : i > 1 => i - 1 \in 1..Len(p) /\ q[i] = p[i - 1]
  BY <1>1, TailParts
<1>3. Has(p, t) => Has(q, t)
  BY <1>2 DEF Has
<1>4. Has(q, t) => Has(p, t) \/ Head(q).t = t
  <2>1. \A i \in 1..Len(q) : i = 1 \/ i > 1
    BY <1>2
  <2> QED BY <1>2, <2>1 DEF Has
<1> QED BY <1>1, <1>3, <1>4

LEMMA HasAppend ==
  ASSUME NEW q \in Seq(ToServer), NEW m \in ToServer, NEW t
  PROVE  Has(Append(q, m), t) <=> Has(q, t) \/ m.t = t
<1>1. PICK p : p = Append(q, m)
  OBVIOUS
<1>2. /\ Len(q) \in Nat /\ Len(p) = Len(q) + 1 /\ p[Len(p)] = m /\ Len(p) \in 1..Len(p)
      /\ \A i \in 1..Len(q) : i \in 1..Len(p) /\ p[i] = q[i]
      /\ \A i \in 1..Len(p) : i = Len(p) \/ i \in 1..Len(q)
  <2>1. /\ Len(q) \in Nat /\ Len(p) = Len(q) + 1 /\ p[Len(p)] = m
        /\ \A i \in 1..Len(q) : i \in 1..Len(p) /\ p[i] = q[i]
        /\ \A i \in 1..Len(p) : i = Len(p) \/ i \in 1..Len(q)
    BY <1>1, AppendParts
  <2> QED BY <2>1
<1>3. Has(p, t) <=> Has(q, t) \/ m.t = t
  BY <1>2 DEF Has
<1> QED BY <1>1, <1>3

LEMMA HasConcat ==
  ASSUME NEW q \in Seq(ToServer), NEW o \in Seq(ToServer), NEW t
  PROVE  Has(q \o o, t) <=> Has(q, t) \/ Has(o, t)
<1>1. PICK p : p = q \o o
  OBVIOUS
<1>11. IsConcat(p, q, o) /\ p \in Seq(ToServer)
  BY <1>1, ConcatParts
<1>2. /\ \A i \in 1..Len(q) : i \in 1..Len(p) /\ p[i] = q[i]
      /\ \A k \in 1..Len(o) : Len(q) + k \in 1..Len(p) /\ p[Len(q) + k] = o[k]
      /\ \A i \in 1..Len(p) : i \in 1..Len(q)
                              \/ \E k \in 1..Len(o) : i = Len(q) + k
  BY <1>11 DEF IsConcat
<1>3. Has(p, t) => Has(q, t) \/ Has(o, t)
  <2> SUFFICES ASSUME NEW i \in 1..Len(p), p[i].t = t PROVE Has(q, t) \/ Has(o, t)
    BY DEF Has
  <2>1. CASE i \in 1..Len(q)
    BY <1>2, <2>1 DEF Has
  <2>2. ASSUME NEW k \in 1..Len(o), i = Len(q) + k PROVE Has(o, t)
    BY <1>2, <2>2 DEF Has
  <2> QED BY <1>2, <2>1, <2>2
<1>4. Has(q, t) => Has(p, t)
  BY <1>2 DEF Has
<1>5. Has(o, t) => Has(p, t)
  BY <1>2 DEF Has
<1> QED BY <1>1, <1>3, <1>4, <1>5

OnlyPast(p, o, c, n, f) == o = <<>> /\ p = o \o Past(c, n, f)

(* The past inputs a new player sends come in turn. *)
LEMMA PastInTurn ==
  ASSUME NEW c \in Client, NEW n \in Nat, NEW f \in Nat, f <= n,
         NEW o \in Seq(ToServer), NEW p, OnlyPast(p, o, c, n, f)
  PROVE  /\ InTurn(p, f) /\ EndsBefore(p, n + 1)
         /\ \A i \in 1..Len(p) : p[i].t = "input"
<1>1. PICK a \in Seq(ToServer) : a = Past(c, n, f) /\ Len(a) = n + 1 - f
  BY PastIsSequence
<1>2. p = a
  BY <1>1 DEF OnlyPast
<1>3. n + 1 - f \in Nat /\ n + 1 - f # 0
  OBVIOUS
<1>4. \A i \in 1..(n + 1 - f) : a[i].t = "input" /\ a[i].frame = f + i - 1
  BY <1>1 DEF Past, InputCmd
<1>5. \A i \in 1..(n + 1 - f) : i = 1 \/ (i > 1 /\ i - 1 \in 1..(n + 1 - f) /\ f + i - 1 <= f + (i - 1) - 1 + 1)
  BY <1>3
<1>6. InTurn(a, f)
  <2> SUFFICES ASSUME NEW i \in 1..Len(a), a[i].t = "input"
               PROVE  a[i].frame <= f
                      \/ (i > 1 /\ a[i - 1].t = "input" /\ a[i].frame <= a[i - 1].frame + 1)
    BY DEF InTurn
  <2>1. i \in 1..(n + 1 - f) /\ a[i].frame = f + i - 1
    BY <1>1, <1>4
  <2>2. CASE i = 1
    BY <2>1, <2>2
  <2>3. CASE i > 1
    <3>1. i - 1 \in 1..(n + 1 - f)
      BY <2>1, <2>3, <1>3
    <3>2. a[i - 1].t = "input" /\ a[i - 1].frame = f + (i - 1) - 1
      BY <1>4, <3>1
    <3> QED BY <2>1, <2>3, <3>2
  <2> QED BY <2>1, <2>2, <2>3
<1>7. EndsBefore(a, n + 1)
  <2>1. Len(a) \in 1..(n + 1 - f)
    BY <1>1, <1>3
  <2>2. a[Len(a)].t = "input" /\ a[Len(a)].frame = n
    BY <1>1, <1>4, <2>1
  <2> QED BY <1>1, <1>3, <2>2 DEF EndsBefore
<1> QED BY <1>1, <1>2, <1>4, <1>6, <1>7

-----------------------------------------------------------------------------
(* What a step leaves of what is known of a client. *)

SamePipes(c) == cl'[c] = cl[c] /\ toS'[c] = toS[c]
Kept(c) ==
  /\ read'[c] >= read[c] /\ (Plays(c)' <=> Plays(c))
  /\ c \in hist'.waiting <=> c \in hist.waiting
  /\ c \in hist'.impatient <=> c \in hist.impatient
  /\ c \in hist.ignored => c \in hist'.ignored
Grows == hist.lost \subseteq hist'.lost /\ (hist.late => hist'.late)

LEMMA ReadIsNat == ASSUME Types, NEW c \in Client PROVE read[c] \in Nat
BY DEF Types

LEMMA ReadIsNatNext == ASSUME Types', NEW c \in Client PROVE read'[c] \in Nat
BY DEF Types

(* A step that leaves the commands of c alone leaves what c says alone. *)
LEMMA TalksKept ==
  ASSUME Types, Types', NEW c \in Client, Talks(c), SamePipes(c), Kept(c),
         Quiet(c) => Quiet(c)', Answered(c)' <=> Answered(c)
  PROVE  Talks(c)'
<1>1. toS[c] \in Seq(ToServer)
  BY PolledIsState
<1>2. read[c] \in Nat /\ read'[c] \in Nat /\ read[c] <= read'[c]
  <2>1. read[c] \in Nat /\ read'[c] \in Nat
    BY ReadIsNat, ReadIsNatNext
  <2> QED BY <2>1 DEF Kept
<1>3. Piped(c)'
  <2>1. InTurn(toS[c], read[c])
    BY DEF Talks, Piped
  <2>2. InTurn(toS[c], read'[c])
    BY <1>1, <1>2, <2>1, InTurnLater
  <2> QED BY <2>2 DEF Talks, Piped, SamePipes, Kept
<1>4. Modes(c)'
  BY DEF Talks, Modes, SamePipes, Kept
<1>5. Patient(c)'
  BY DEF Talks, Patient, SamePipes, Kept, Connected
<1>6. Requests(c)'
  BY DEF Talks, Requests, SamePipes, Kept, Connected
<1> QED BY <1>3, <1>4, <1>5, <1>6 DEF Talks

(* Where the client is, t is as e, or the next input it sends is of a      *)
(* frame the server will wait for.                                         *)
SkipsLike(e, t) == \A r : Skips(e, r) => Skips(t, r)

SameSending(c, e, t) ==
  /\ t.mode = e.mode /\ t.out = e.out
  /\ e.mode = "playing" => NextInput(t) = NextInput(e) \/ NextInput(t) <= read'[c]
  /\ SkipsLike(e, t)

LEMMA SamePlaceSends ==
  ASSUME NEW c, NEW e, NEW t, SamePlace(e, t)
  PROVE  SameSending(c, e, t)
BY DEF SamePlace, SameSending, NextInput, Skips, SkipsLike

LEMMA NextInputIsNat ==
  ASSUME NEW e \in States PROVE NextInput(e) \in Nat
BY DEF States, Fields, NextInput

(* A step of somebody else does not change what c will send. *)
LEMMA SendsKept ==
  ASSUME Types, Types', NEW c \in Client, NEW e \in States, NEW t \in States,
         Sends(c, e), SameSending(c, e, t), SamePipes(c), Kept(c)
  PROVE  Sends(c, t)'
<1>1. read[c] \in Nat /\ read'[c] \in Nat /\ read[c] <= read'[c]
  <2>1. read[c] \in Nat /\ read'[c] \in Nat
    BY ReadIsNat, ReadIsNatNext
  <2> QED BY <2>1 DEF Kept
<1>2. e.out \in Seq(ToServer)
  BY DEF States, Fields
<1>3. InTurn(t.out, read'[c])
  BY <1>1, <1>2, InTurnLater DEF Sends, SameSending
<1>4. NextInput(e) \in Nat /\ NextInput(t) \in Nat
  BY NextInputIsNat
<1>5. t.mode = "playing" =>
        /\ Plays(c)' /\ ~Has(toS'[c], "spectate")
        /\ \/ NextInput(t) <= read'[c]
           \/ EndsBefore(t.out, NextInput(t))
           \/ cl'[c].mode = "playing" /\ EndsBefore(toS'[c], NextInput(t))
        /\ Skips(t, read'[c])
  <2> HAVE t.mode = "playing"
  <2>1. e.mode = "playing" /\ Plays(c)' /\ ~Has(toS'[c], "spectate")
    BY DEF Sends, SameSending, SamePipes, Kept
  <2>4. Skips(t, read'[c])
    <3>1. Skips(e, read[c])
      BY <2>1 DEF Sends
    <3>2. Skips(e, read'[c])
      BY <1>1, <3>1 DEF Skips, States, Fields
    <3>3. SkipsLike(e, t)
      BY DEF SameSending
    <3> QED BY <3>2, <3>3 DEF SkipsLike
  <2>2. CASE NextInput(t) <= read'[c]
    BY <2>1, <2>2, <2>4
  <2>3. CASE NextInput(t) = NextInput(e)
    <3>1. \/ NextInput(e) <= read[c]
          \/ EndsBefore(e.out, NextInput(e))
          \/ cl[c].mode = "playing" /\ EndsBefore(toS[c], NextInput(e))
      BY <2>1 DEF Sends
    <3>2. CASE NextInput(e) <= read[c]
      BY <1>1, <1>4, <2>1, <2>3, <2>4, <3>2
    <3>3. CASE EndsBefore(e.out, NextInput(e)) \/ (cl[c].mode = "playing" /\ EndsBefore(toS[c], NextInput(e)))
      BY <2>1, <2>3, <2>4, <3>3 DEF SameSending, SamePipes
    <3> QED BY <3>1, <3>2, <3>3
  <2>5. NextInput(t) = NextInput(e) \/ NextInput(t) <= read'[c]
    BY <2>1 DEF SameSending
  <2> QED BY <2>1, <2>2, <2>3, <2>4, <2>5
<1>6. /\ Plays(c)' => t.mode = "playing" \/ Has(toS'[c], "spectate")
      /\ cl'[c].mode = "pre_sync" => t.out = cl'[c].out
      /\ cl'[c].mode = "playing" => t.out = <<>>
      /\ cl'[c].mode # "pre_sync" => \A i \in 1..Len(t.out) : t.out[i].t = "input"
      /\ Has(t.out, "input") => Plays(c)' /\ ~Has(toS'[c], "spectate")
  BY DEF Sends, SameSending, SamePipes, Kept
<1> QED BY <1>3, <1>5, <1>6 DEF Sends

-----------------------------------------------------------------------------
(* What a client that has read everything is in. *)

(* Nothing new to read: the client will be in the same state. *)
LEMMA SamePolled ==
  ASSUME NEW c, cl'[c] = cl[c], toC'[c] = toC[c]
  PROVE  /\ Polled(c)' = Polled(c) /\ Reading(c)' = Reading(c)
         /\ Quiet(c)' <=> Quiet(c)
         /\ Answered(c)' <=> Answered(c)
<1>1. Reading(c)' = Reading(c)
  <2> HIDE DEF After
  <2> QED BY DEF Reading
<1>2. Polled(c)' = Polled(c)
  BY <1>1 DEF Polled
<1> QED BY <1>1, <1>2 DEF Quiet, Answered

LEMMA StillAfterItsInput ==
  ASSUME NEW c, NEW e, NEW m, AfterItsInput(c, e, m), Grows
  PROVE  AfterItsInput(c, e, m)'
BY DEF AfterItsInput, Grows

LEMMA CompleteKept ==
  ASSUME NEW c, cl'[c] = cl[c], toC'[c] = toC[c], Grows, Complete(c)
  PROVE  Complete(c)'
<1>1. PICK f, q : f = Reading(c) /\ q = toC[c]
  OBVIOUS
<1>2. Reading(c)' = f /\ toC'[c] = q
  BY <1>1, SamePolled
<1>3. \A i \in 1..Len(q) : AfterItsInput(c, f[i - 1], q[i])
  BY <1>1 DEF Complete
<1>4. \A i \in 1..Len(q) : AfterItsInput(c, f[i - 1], q[i])'
  BY <1>3, StillAfterItsInput
<1> QED BY <1>2, <1>4 DEF Complete

(* A step that touches neither end of the connection of c keeps            *)
(* PeerInv(c).                                                             *)
LEMMA Untouched ==
  ASSUME Types, Types', NEW c \in Client, PeerInv(c), SamePipes(c), toC'[c] = toC[c],
         Kept(c), Grows,
         \A e \in States : e = Polled(c) /\ e.mode # "none" /\ Follows(c, e) => Follows(c, e)'
  PROVE  PeerInv(c)'
<1>1. PICK e \in States : e = Polled(c)
  BY PolledIsState
<1>2. Polled(c)' = e /\ (Quiet(c)' <=> Quiet(c)) /\ (Answered(c)' <=> Answered(c))
  BY <1>1, SamePolled DEF SamePipes
<1>3. Talks(c)'
  BY <1>2, TalksKept DEF PeerInv
<1>4. Complete(c)'
  BY CompleteKept DEF PeerInv, SamePipes
<1>5. e.mode # "none" => Follows(c, e)'
  BY <1>1 DEF PeerInv
<1>6. e.mode # "none" => Sends(c, e)'
  <2>1. SameSending(c, e, e)
    BY DEF SameSending, SkipsLike
  <2> QED BY <1>1, <2>1, SendsKept DEF PeerInv
<1>7. cl'[c].mode # "none" /\ ~hist'.late => e.mode # "none"
  BY <1>1 DEF PeerInv, SamePipes, Grows
<1> QED BY <1>2, <1>3, <1>4, <1>5, <1>6, <1>7 DEF PeerInv

(* What a new command changes of what the client will know. *)
LEMMA ReadsAppended ==
  ASSUME Types, Types', NEW c \in Client, NEW m \in ToClient, cl'[c] = cl[c],
         toC'[c] = Append(toC[c], m)
  PROVE  /\ Polled(c)' = Handle(c, Polled(c), m)
         /\ Quiet(c)' <=> Quiet(c) /\ ~Yours(m)
         /\ Answered(c)' <=> Answered(c) \/ IsAnswer(m)
         /\ Complete(c) /\ Grows /\ (\A e \in States : e = Polled(c) => AfterItsInput(c, e, m)')
              => Complete(c)'
<1>1. PICK q, p, s : q \in Seq(ToClient) /\ q = toC[c] /\ p = Append(q, m) /\ s = cl[c]
  BY PolledIsState
<1>2. /\ p \in Seq(ToClient) /\ Len(q) \in Nat /\ Len(p) = Len(q) + 1 /\ p[Len(p)] = m
      /\ \A i \in 1..Len(q) : i \in 1..Len(p) /\ p[i] = q[i]
      /\ \A i \in 1..Len(p) : i = Len(p) \/ i \in 1..Len(q)
  BY <1>1, AppendParts
<1>3. PICK f, g : f = After(c, s, q) /\ g = After(c, s, Append(q, m))
  OBVIOUS
<1>4. /\ \A i \in 0..Len(q) : g[i] = f[i]
      /\ g[Len(q) + 1] = Handle(c, f[Len(q)], m)
  BY <1>1, <1>3, ReadsOneMore
<1>5. Reading(c) = f /\ Polled(c) = f[Len(q)] /\ Reading(c)' = g /\ Polled(c)' = g[Len(p)] /\ toC'[c] = p
  <2> HIDE DEF After
  <2> QED BY <1>1, <1>3 DEF Reading, Polled
<1>6. Polled(c)' = Handle(c, Polled(c), m)
  BY <1>2, <1>4, <1>5
<1>7. Len(p) \in 1..Len(p)
  BY <1>2
<1>8. Quiet(c)' <=> Quiet(c) /\ ~Yours(m)
  <2>1. Quiet(c)' <=> \A i \in 1..Len(p) : ~Yours(p[i])
    BY <1>5 DEF Quiet
  <2>2. Quiet(c) <=> \A i \in 1..Len(q) : ~Yours(q[i])
    BY <1>1 DEF Quiet
  <2> HIDE DEF Yours
  <2> QED BY <1>2, <1>7, <2>1, <2>2
<1>9. Answered(c)' <=> Answered(c) \/ IsAnswer(m)
  <2>1. Answered(c)' <=> \E i \in 1..Len(p) : IsAnswer(p[i])
    BY <1>5 DEF Answered
  <2>2. Answered(c) <=> \E i \in 1..Len(q) : IsAnswer(q[i])
    BY <1>1 DEF Answered
  <2> HIDE DEF IsAnswer
  <2> QED BY <1>2, <1>7, <2>1, <2>2
<1>10. ASSUME Complete(c), Grows, \A e \in States : e = Polled(c) => AfterItsInput(c, e, m)'
       PROVE  Complete(c)'
  <2>1. \A i \in 1..Len(q) : AfterItsInput(c, f[i - 1], q[i])
    BY <1>1, <1>5, <1>10 DEF Complete
  <2>2. \A i \in 1..Len(q) : AfterItsInput(c, f[i - 1], q[i])'
    BY <2>1, <1>10, StillAfterItsInput
  <2>3. ASSUME NEW i \in 1..Len(p) PROVE AfterItsInput(c, g[i - 1], p[i])'
    <3>1. CASE i \in 1..Len(q)
      <4>1. i - 1 \in 0..Len(q)
        BY <1>2, <3>1
      <4>2. g[i - 1] = f[i - 1] /\ p[i] = q[i]
        BY <1>2, <1>4, <3>1, <4>1
      <4> QED BY <2>2, <3>1, <4>2
    <3>2. CASE i = Len(p)
      <4>1. i - 1 = Len(q) /\ Len(q) \in 0..Len(q)
        BY <1>2, <3>2
      <4>2. PICK e \in States : e = Polled(c)
        BY PolledIsState
      <4>3. g[i - 1] = e /\ p[i] = m
        BY <1>2, <1>4, <1>5, <3>2, <4>1, <4>2
      <4>4. AfterItsInput(c, e, m)'
        BY <1>10, <4>2
      <4> QED BY <4>3, <4>4
    <3> QED BY <1>2, <3>1, <3>2
  <2> QED BY <1>5, <2>3 DEF Complete
<1> QED BY <1>6, <1>8, <1>9, <1>10

(* One more command for a client, that says nothing of the client itself.  *)
LEMMA Appended ==
  ASSUME Types, Types', NEW c \in Client, NEW m \in ToClient, PeerInv(c), SamePipes(c),
         toC'[c] = Append(toC[c], m), Kept(c), Grows, ~Yours(m), ~IsAnswer(m),
         \A e \in States : \A t \in States :
           e = Polled(c) /\ e.mode # "none" /\ Follows(c, e) /\ t = Handle(c, e, m) =>
             /\ AfterItsInput(c, e, m)'
             /\ t.mode # "none" => Follows(c, t)' /\ SamePlace(e, t)
             /\ ~hist'.late => t.mode # "none"
  PROVE  PeerInv(c)'
<1>1. PICK e \in States : e = Polled(c)
  BY PolledIsState
<1>2. PICK t \in States : t = Handle(c, e, m)
  BY HandleIsState
<1>3. /\ Polled(c)' = t /\ (Quiet(c)' <=> Quiet(c)) /\ (Answered(c)' <=> Answered(c))
      /\ Complete(c) /\ Grows /\ (\A u \in States : u = Polled(c) => AfterItsInput(c, u, m)')
              => Complete(c)'
  BY <1>1, <1>2, ReadsAppended DEF SamePipes
<1>4. CASE e.mode = "none"
  <2>1. t = e
    BY <1>2, <1>4 DEF Handle
  <2>2. AfterItsInput(c, e, m)'
    <3>1. e = NoClient
      BY <1>4 DEF States
    <3>2. m.t = "mode" => m.peer \in Peer
      BY DEF ToClient, InputCmd, NoInputCmd, ModeCmd, LoadCmd
    <3>3. m.t = "mode" => e.view[m.peer] = {}
      BY <3>1, <3>2 DEF NoClient, Nobody
    <3> QED BY <3>3 DEF AfterItsInput
  <2>3. Complete(c)'
    BY <1>1, <1>3, <2>2 DEF PeerInv
  <2>4. Talks(c)'
    BY <1>3, TalksKept DEF PeerInv
  <2>5. cl'[c].mode # "none" /\ ~hist'.late => FALSE
    BY <1>1, <1>4 DEF PeerInv, SamePipes, Grows
  <2> QED BY <1>3, <1>4, <2>1, <2>3, <2>4, <2>5 DEF PeerInv
<1>5. CASE e.mode # "none"
  <2>1. Follows(c, e) /\ Sends(c, e)
    BY <1>1, <1>5 DEF PeerInv
  <2>2. /\ AfterItsInput(c, e, m)'
        /\ t.mode # "none" => Follows(c, t)' /\ SamePlace(e, t)
        /\ ~hist'.late => t.mode # "none"
    BY <1>1, <1>2, <1>5, <2>1
  <2>3. Complete(c)'
    BY <1>1, <1>3, <2>2 DEF PeerInv
  <2>4. Talks(c)'
    BY <1>3, TalksKept DEF PeerInv
  <2>5. t.mode # "none" => Sends(c, t)'
    BY <2>1, <2>2, SamePlaceSends, SendsKept
  <2> QED BY <1>3, <2>2, <2>3, <2>4, <2>5 DEF PeerInv
<1> QED BY <1>4, <1>5

-----------------------------------------------------------------------------
(* Hanging up. *)

HistOfHangup(cs) ==
  /\ hist'.untold = hist.untold \cup {c \in cs : ~Plays(c) /\ conn[c].delay # 0}
  /\ hist'.lost = hist.lost \cup {c \in cs : Plays(c) /\ read[c] > srv.self + 1}
  /\ hist'.waiting = hist.waiting \ cs /\ hist'.ignored = hist.ignored \ cs
  /\ hist'.impatient = hist.impatient /\ hist'.late = hist.late

HangsUp(cs) ==
  /\ Hangup(cs) /\ UNCHANGED <<read, share>> /\ cs \subseteq Active
  /\ srv.phase = "poll" /\ ServerRead' = ServerRead /\ srv'.playing = srv.playing
  /\ HistOfHangup(cs)

(* What becomes of those whose connection stays, and of the others.        *)
Stays(x) == /\ conn'[x] = conn[x] /\ devs'[x] = devs[x] /\ cl'[x] = cl[x]
            /\ toS'[x] = toS[x] /\ toC'[x] = toC[x] /\ (Plays(x)' <=> Plays(x))
Goes(x) ==
  /\ ~conn'[x].active /\ cl'[x] = NoClient /\ toS'[x] = <<>> /\ toC'[x] = <<>> /\ ~Plays(x)'
  /\ Plays(x) => conn'[x].mode = "delayed" /\ conn'[x].delay = read[x] /\ devs'[x] = {}
  /\ ~Plays(x) => /\ conn'[x].mode = conn[x].mode /\ conn'[x].delay = conn[x].delay
                  /\ devs'[x] = devs[x]

(* netplay_hangup: those in cs go, all others stay as they are. *)
LEMMA HangupEffect ==
  ASSUME Types, NEW cs \in SUBSET Client, Hangup(cs)
  PROVE  /\ \A x \in Client : x \notin cs => Stays(x)
         /\ \A x \in cs : Goes(x)
         /\ devs'[0] = devs[0]
<1>1. /\ conn \in [Client -> Conns] /\ devs \in [Peer -> SUBSET Devices]
      /\ 0 \in Peer /\ Client \subseteq Peer /\ 0 \notin Client
  BY ServerIsPeer DEF Types, Views
<1>2. devs'[0] = devs[0]
  BY <1>1 DEF Hangup
<1>3. ASSUME NEW x \in Client, x \notin cs PROVE Stays(x)
  BY <1>1, <1>3 DEF Hangup, Stays, Plays
<1>4. ASSUME NEW x \in cs PROVE Goes(x)
  <2>0. x \in Client /\ x \in Peer /\ conn[x] \in Conns
    BY <1>1
  <2>1. cl'[x] = NoClient /\ toS'[x] = <<>> /\ toC'[x] = <<>>
    BY <2>0 DEF Hangup
  <2>2. CASE Plays(x)
    <3>1. /\ conn'[x] = [conn[x] EXCEPT !.active = FALSE, !.mode = "delayed", !.delay = read[x]]
          /\ devs'[x] = {}
      BY <2>0, <2>2 DEF Hangup
    <3>2. conn'[x].active = FALSE /\ conn'[x].mode = "delayed" /\ conn'[x].delay = read[x]
      BY <2>0, <3>1 DEF Conns
    <3> QED BY <2>1, <2>2, <3>1, <3>2 DEF Goes, Plays
  <2>3. CASE ~Plays(x)
    <3>1. /\ conn'[x] = [conn[x] EXCEPT !.active = FALSE]
          /\ devs'[x] = devs[x]
      BY <2>0, <2>3 DEF Hangup
    <3>2. conn'[x].active = FALSE /\ conn'[x].mode = conn[x].mode /\ conn'[x].delay = conn[x].delay
      BY <2>0, <3>1 DEF Conns
    <3> QED BY <2>0, <2>1, <2>3, <3>1, <3>2 DEF Goes, Plays
  <2> QED BY <2>2, <2>3
<1> QED BY <1>2, <1>3, <1>4

LEMMA HangupRoles ==
  ASSUME Types, Roles, NEW cs \in SUBSET Client, HangsUp(cs), srv'.stall => srv'.phase = "poll"
  PROVE  Roles'
<1>1. /\ \A x \in Client : x \notin cs => Stays(x)
      /\ \A x \in cs : Goes(x)
      /\ devs'[0] = devs[0]
  BY HangupEffect DEF HangsUp
<1>2. ASSUME NEW x \in Client PROVE Role(x)'
  <2>0. Role(x) /\ read'[x] = read[x] /\ conn[x].active \in BOOLEAN
    BY DEF Roles, HangsUp, Types, Conns
  <2>1. CASE x \notin cs
    BY <1>1, <2>0, <2>1 DEF Role, Stays
  <2>2. CASE x \in cs
    <3>1. Goes(x)
      BY <1>1, <2>2
    <3>2. devs'[x] = {} /\ ~Plays(x)' /\ ~conn'[x].active /\ cl'[x].mode = "none"
          /\ toS'[x] = <<>> /\ toC'[x] = <<>>
      BY <2>0, <3>1 DEF Goes, Role, NoClient
    <3> QED BY <3>2 DEF Role
  <2> QED BY <2>1, <2>2
<1> QED BY <1>1, <1>2 DEF Roles, HangsUp

(* Nothing is known of a client that is gone. *)
LEMMA GonePeer ==
  ASSUME NEW c \in Client, cl'[c] = NoClient, toS'[c] = <<>>, toC'[c] = <<>>, c \notin hist'.waiting
  PROVE  PeerInv(c)'
<1>1. Polled(c)' = NoClient
  <2>1. PICK f, q : q = <<>> /\ f = After(c, NoClient, q) /\ Len(q) = 0
    OBVIOUS
  <2>2. f[0] = NoClient
    BY <2>1, AfterReads
  <2>3. Polled(c)' = f[0]
    <3> HIDE DEF After
    <3> QED BY <2>1 DEF Polled, Reading
  <2> QED BY <2>2, <2>3
<1>2. NoClient.mode = "none" /\ NoClient.out = <<>> /\ Len(<<>>) = 0
  BY DEF NoClient
<1>3. Talks(c)'
  BY <1>2 DEF Talks, Piped, Modes, Patient, Requests, InTurn, Has, Answered, Quiet, Connected
<1>4. Complete(c)'
  BY <1>2 DEF Complete
<1> QED BY <1>1, <1>2, <1>3, <1>4 DEF PeerInv

(* A player that hangs up is owed a departure, so no view is wrong for     *)
(* good.                                                                   *)
LEMMA HangupKnows ==
  ASSUME Types, Roles, NEW cs \in SUBSET Client, HangsUp(cs), NEW c \in Client,
         NEW e \in States, NEW p \in Client \ {c}, Knows(c, e, p)
  PROVE  Knows(c, e, p)'
<1>1. /\ \A x \in Client : x \notin cs => Stays(x)
      /\ \A x \in cs : Goes(x)
  BY HangupEffect DEF HangsUp
<1>2. /\ Role(p) /\ read'[p] = read[p] /\ read[p] \in Nat /\ e.read[p] \in Nat /\ srv.self \in Nat
      /\ conn[p].active \in BOOLEAN /\ p \in Peer /\ ServerRead' = ServerRead
      /\ ServerRead = srv.self + 1
  BY ServerIsPeer DEF Roles, HangsUp, Types, Conns, States, Fields, Servers, ServerRead
<1>3. hist.untold \subseteq hist'.untold /\ hist.lost \subseteq hist'.lost
  BY DEF HangsUp, HistOfHangup
<1>4. CASE p \notin cs
  BY <1>1, <1>2, <1>3, <1>4 DEF Knows, Stays, Owed
<1>5. CASE p \in cs /\ Plays(p)
  <2>1. /\ conn'[p].mode = "delayed" /\ conn'[p].delay = read[p] /\ devs'[p] = {} /\ ~conn'[p].active
        /\ devs[p] # {} /\ read[p] >= 1
    BY <1>1, <1>2, <1>5 DEF Goes, Role
  <2>2. Owed(p)'
    BY <1>2, <2>1 DEF Owed
  <2>3. e.read[p] >= read[p] \/ e.read[p] >= srv.self + 1
    BY <1>2, <2>1 DEF Knows
  <2>4. e.read[p] >= read[p] \/ p \in hist'.lost
    <3>1. read[p] > srv.self + 1 => p \in hist'.lost
      BY <1>5 DEF HangsUp, HistOfHangup
    <3> QED BY <1>2, <2>3, <3>1
  <2> QED BY <2>1, <2>2, <2>4 DEF Knows
<1>6. CASE p \in cs /\ ~Plays(p)
  <2>1. /\ conn'[p].mode = conn[p].mode /\ conn'[p].delay = conn[p].delay /\ devs'[p] = devs[p]
        /\ ~conn'[p].active /\ devs[p] = {} /\ conn[p].active /\ conn[p].mode # "delayed"
    BY <1>1, <1>2, <1>6 DEF Goes, Role, HangsUp, Active
  <2>2. ~Owed(p)'
    BY <2>1 DEF Owed
  <2>3. Owed(p) => p \in hist'.untold
    BY <1>6 DEF HangsUp, HistOfHangup, Owed
  <2> QED BY <1>3, <2>1, <2>2, <2>3 DEF Knows
<1> QED BY <1>4, <1>5, <1>6

LEMMA HangupPeers ==
  ASSUME Types, Types', Roles, NEW cs \in SUBSET Client, HangsUp(cs), NEW c \in Client, PeerInv(c)
  PROVE  PeerInv(c)'
<1>1. /\ \A x \in Client : x \notin cs => Stays(x)
      /\ \A x \in cs : Goes(x)
      /\ devs'[0] = devs[0]
  BY HangupEffect DEF HangsUp
<1>2. CASE c \in cs
  BY <1>1, <1>2, GonePeer DEF Goes, HangsUp, HistOfHangup
<1>3. CASE c \notin cs
  <2>1. Stays(c)
    BY <1>1, <1>3
  <2>2. SamePipes(c) /\ toC'[c] = toC[c]
    BY <2>1 DEF Stays, SamePipes
  <2>3. Kept(c)
    <3>1. read[c] \in Nat
      BY ReadIsNat
    <3> QED BY <1>3, <2>1, <3>1 DEF Kept, Stays, HangsUp, HistOfHangup
  <2>4. Grows
    BY DEF Grows, HangsUp, HistOfHangup
  <2>5. ASSUME NEW e \in States, Follows(c, e) PROVE Follows(c, e)'
    <3>1. \A p \in Client \ {c} : Knows(c, e, p)'
      BY <2>5, HangupKnows DEF Follows
    <3>2. ServerRead' = ServerRead /\ devs'[c] = devs[c]
      BY <2>1 DEF Stays, HangsUp
    <3> QED BY <1>1, <2>5, <3>1, <3>2 DEF Follows
  <2> QED BY <2>2, <2>3, <2>4, <2>5, Untouched
<1> QED BY <1>2, <1>3

(* Whoever is hung up on, a stall that goes on has another to blame, or it *)
(* is known that nobody is to be blamed.                                   *)
LEMMA HangupStalls ==
  ASSUME Types, Roles, StallCanEnd, NEW cs \in SUBSET Client, Hangup(cs), UNCHANGED <<srv, read>>,
         hist'.unblamed <=> hist.unblamed \/ Unblamed(cs)
  PROVE  StallCanEnd'
<1>1. /\ \A x \in Client : x \notin cs => Stays(x)
      /\ \A x \in cs : Goes(x)
  BY HangupEffect
<1> SUFFICES ASSUME srv.stall, NewStall', StalledOut' = {} PROVE hist'.unblamed
  BY DEF StallCanEnd
<1>2. PICK y \in Client : Late(y, 2)'
  BY DEF NewStall
<1>3. y \notin cs /\ Late(y, 2)
  BY <1>1, <1>2 DEF Late, Goes, Stays
<1>4. NewStall
  BY <1>3 DEF NewStall
<1>5. Role(y) /\ Plays(y)
  BY <1>3 DEF Roles, Late
<1>6. ~conn[y].stall
  BY <1>1, <1>3, <1>5 DEF StalledOut, Stays, Role
<1>7. CASE hist.unblamed
  BY <1>7
<1>8. CASE StalledOut # {}
  <2>1. PICK z \in Client : conn[z].active /\ Plays(z) /\ conn[z].stall
    BY <1>8 DEF StalledOut
  <2>2. z \in cs
    BY <1>1, <2>1 DEF StalledOut, Stays
  <2>3. Unblamed(cs)
    BY <1>3, <1>6, <2>1, <2>2 DEF Unblamed
  <2> QED BY <2>3
<1> QED BY <1>4, <1>7, <1>8 DEF StallCanEnd

LEMMA AfterHangupFields ==
  ASSUME NEW h \in Hists, NEW cs, NEW k, k = AfterHangup(h, cs)
  PROVE  /\ k.untold = h.untold \cup {c \in cs : ~Plays(c) /\ conn[c].delay # 0}
         /\ k.lost = h.lost \cup {c \in cs : Plays(c) /\ read[c] > srv.self + 1}
         /\ k.waiting = h.waiting \ cs /\ k.ignored = h.ignored \ cs
         /\ k.impatient = h.impatient /\ k.late = h.late /\ k.nak = h.nak
         /\ (k.unblamed <=> h.unblamed \/ Unblamed(cs))
BY DEF AfterHangup, Hists

(* Giving up on the players that stall keeps the invariant. *)
LEMMA StallOutStep ==
  ASSUME IInv, Types', StallOut
  PROVE  IInv'
<1>1. Types /\ Roles /\ OnlyKnownNaks /\ hist \in Hists /\ srv \in Servers
  BY DEF IInv, Types
<1>2. PICK cs \in SUBSET Client : cs = StalledOut
  BY DEF StalledOut
<1>3. /\ Hangup(cs) /\ srv' = [srv EXCEPT !.stall = FALSE, !.phase = "top", !.self = @ + 1]
      /\ UNCHANGED <<read, share>> /\ srv.phase = "poll"
      /\ hist' = [AfterHangup(hist, cs) EXCEPT !.unblamed = hist.unblamed]
  BY <1>2 DEF StallOut
<1>4. /\ srv'.self = srv.self + 1 /\ srv'.phase = "top" /\ srv'.playing = srv.playing
      /\ srv'.stall = FALSE
  BY <1>1, <1>3 DEF Servers
<1>5. PICK h : h = AfterHangup(hist, cs)
  OBVIOUS
<1>6. h \in Hists
  BY <1>1, <1>5, AfterHangupTypes
<1>7. /\ hist'.untold = h.untold /\ hist'.lost = h.lost /\ hist'.waiting = h.waiting
      /\ hist'.ignored = h.ignored /\ hist'.impatient = h.impatient /\ hist'.late = h.late
      /\ hist'.nak = h.nak
  BY <1>3, <1>5, <1>6 DEF Hists
<1>8. HistOfHangup(cs) /\ hist'.nak = hist.nak /\ hist'.late = hist.late
  BY <1>1, <1>5, <1>7, AfterHangupFields DEF HistOfHangup
<1>9. HangsUp(cs)
  <2>1. ServerRead' = ServerRead
    BY <1>3, <1>4 DEF ServerRead
  <2>2. cs \subseteq Active
    BY <1>2 DEF StalledOut, Active
  <2> QED BY <1>3, <1>4, <1>8, <2>1, <2>2 DEF HangsUp
<1>10. Roles'
  BY <1>1, <1>4, <1>9, HangupRoles
<1>11. \A c \in Client : PeerInv(c)'
  BY <1>1, <1>9, HangupPeers DEF IInv
<1>12. OnlyKnownNaks'
  BY <1>1, <1>8 DEF OnlyKnownNaks, HistOfHangup
<1>13. StallCanEnd'
  BY <1>4 DEF StallCanEnd
<1> QED BY <1>10, <1>11, <1>12, <1>13 DEF IInv

(* The server hangs up on c, or finds that c has.                          *)
LEMMA DropStep ==
  ASSUME IInv, Types', NEW c \in Client, conn[c].active, srv.phase = "poll",
         Hangup({c}), UNCHANGED <<srv, read, share>>,
         NEW h \in Hists, h.untold = hist.untold, h.lost = hist.lost, h.waiting = hist.waiting,
         h.ignored = hist.ignored, h.impatient = hist.impatient, h.late = hist.late,
         h.unblamed = hist.unblamed, hist' = AfterHangup(h, {c}),
         \A n \in h.nak : n \in hist.nak \/ (n[1] = "play" /\ n[2] \in hist.impatient)
  PROVE  IInv'
<1>1. Types /\ Roles /\ OnlyKnownNaks /\ StallCanEnd
  BY DEF IInv
<1>2. PICK cs \in SUBSET Client : cs = {c}
  OBVIOUS
<1>3. /\ hist'.untold = h.untold \cup {x \in cs : ~Plays(x) /\ conn[x].delay # 0}
      /\ hist'.lost = h.lost \cup {x \in cs : Plays(x) /\ read[x] > srv.self + 1}
      /\ hist'.waiting = h.waiting \ cs /\ hist'.ignored = h.ignored \ cs
      /\ hist'.impatient = h.impatient /\ hist'.late = h.late /\ hist'.nak = h.nak
      /\ (hist'.unblamed <=> h.unblamed \/ Unblamed(cs))
  BY <1>2, AfterHangupFields
<1>4. HangsUp(cs)
  <2>1. HistOfHangup(cs)
    BY <1>3 DEF HistOfHangup
  <2>2. ServerRead' = ServerRead
    BY DEF ServerRead
  <2> QED BY <1>2, <2>1, <2>2 DEF HangsUp, Active
<1>5. Roles'
  BY <1>1, <1>4, HangupRoles DEF Roles
<1>6. \A x \in Client : PeerInv(x)'
  BY <1>1, <1>4, HangupPeers DEF IInv
<1>7. OnlyKnownNaks'
  BY <1>1, <1>3 DEF OnlyKnownNaks
<1>8. StallCanEnd'
  BY <1>1, <1>2, <1>3, HangupStalls
<1> QED BY <1>5, <1>6, <1>7, <1>8 DEF IInv

(* So does finding a connection closed, *)
LEMMA ClosedStep ==
  ASSUME IInv, Types', NEW c \in Client, conn[c].active, srv.phase = "poll", RecvClosed(c)
  PROVE  IInv'
<1>1. hist \in Hists
  BY DEF IInv, Types
<1>2. /\ Hangup({c}) /\ hist' = AfterHangup(hist, {c}) /\ UNCHANGED <<srv, read, share>>
  BY DEF RecvClosed
<1>3. PICK h \in Hists : h = hist
  BY <1>1
<1> QED BY <1>2, <1>3, DropStep

(* and the NAK for a second request to play of a client that did not wait. *)
LEMMA NakPlayStep ==
  ASSUME IInv, Types', NEW c \in Client, conn[c].active, srv.phase = "poll", Nak(c, "play"),
         c \in hist.impatient
  PROVE  IInv'
<1>1. hist \in Hists
  BY DEF IInv, Types
<1>2. PICK h : h = [hist EXCEPT !.nak = @ \cup {<<"play", c>>}]
  OBVIOUS
<1>3. h \in Hists
  <2>1. hist.nak \in SUBSET Naks /\ <<"play", c>> \in Naks
    BY <1>1 DEF Hists, Naks
  <2>2. PICK n \in SUBSET Naks : n = hist.nak \cup {<<"play", c>>}
    BY <2>1
  <2>3. h = [hist EXCEPT !.nak = n]
    BY <1>2, <2>2
  <2> QED BY <1>1, <2>3 DEF Hists
<1>4. /\ h.untold = hist.untold /\ h.lost = hist.lost /\ h.waiting = hist.waiting
      /\ h.ignored = hist.ignored /\ h.impatient = hist.impatient /\ h.late = hist.late
      /\ h.unblamed = hist.unblamed /\ h.nak = hist.nak \cup {<<"play", c>>}
  BY <1>1, <1>2 DEF Hists
<1>5. /\ Hangup({c}) /\ hist' = AfterHangup(h, {c}) /\ UNCHANGED <<srv, read, share>>
  BY <1>2 DEF Nak
<1>6. \A n \in h.nak : n \in hist.nak \/ (n[1] = "play" /\ n[2] \in hist.impatient)
  BY <1>4
<1> QED BY <1>3, <1>4, <1>5, <1>6, DropStep

-----------------------------------------------------------------------------
(* The end of a poll. *)

(* Of the players one is furthest behind. *)
LEMMA SomeoneIsBehind ==
  ASSUME Types, NEW y \in Client, Plays(y)
  PROVE  \E c \in Client : Plays(c) /\ \A x \in Client : Plays(x) => read[c] <= read[x]
<1> DEFINE S == {read[x] : x \in {z \in Client : Plays(z)}}
<1>1. S \in SUBSET Nat /\ S # {}
  BY DEF Types
<1>2. PICK m \in S : \A n \in S : m <= n
  <2> HIDE DEF S
  <2> QED BY <1>1, LeastMember
<1>3. PICK c \in Client : Plays(c) /\ m = read[c]
  BY <1>2
<1>4. \A x \in Client : Plays(x) => read[c] <= read[x]
  BY <1>2, <1>3
<1> QED BY <1>3, <1>4

OnlyStall(x) == /\ conn'[x].mode = conn[x].mode /\ conn'[x].active = conn[x].active
                /\ conn'[x].delay = conn[x].delay

LEMMA OnlyStallKnows ==
  ASSUME NEW c \in Client, NEW e, NEW p \in Client, OnlyStall(p), UNCHANGED <<devs, read, hist>>,
         ServerRead' = ServerRead, Knows(c, e, p)
  PROVE  Knows(c, e, p)'
BY DEF OnlyStall, Knows, Owed

(* The end of a poll keeps the invariant. *)
LEMMA EndPollStep ==
  ASSUME IInv, Types', EndPoll
  PROVE  IInv'
<1>1. Types /\ Roles /\ OnlyKnownNaks /\ srv \in Servers /\ conn \in [Client -> Conns]
  BY DEF IInv, Types
<1>2. UNCHANGED <<read, devs, share, cl, toS, toC, hist>> /\ srv.phase = "poll"
  BY DEF EndPoll
<1>3. \A x \in Client : OnlyStall(x)
  <2>1. ASSUME NEW x \in Client, NEW b, conn'[x] = [conn[x] EXCEPT !.stall = b]
        PROVE  OnlyStall(x)
    BY <1>1, <2>1 DEF OnlyStall, Conns
  <2>2. ASSUME NEW x \in Client
        PROVE  \/ conn'[x] = [conn[x] EXCEPT !.stall = TRUE]
               \/ conn'[x] = [conn[x] EXCEPT !.stall = FALSE]
               \/ conn'[x] = conn[x]
    BY DEF EndPoll
  <2> QED BY <2>1, <2>2 DEF OnlyStall
<1>4. ServerRead' = ServerRead /\ srv'.playing = srv.playing /\ (srv'.stall => srv'.phase = "poll")
  <2>1. CASE srv' = [srv EXCEPT !.stall = TRUE]
    BY <1>1, <1>2, <2>1 DEF Servers, ServerRead
  <2>2. CASE srv' = [srv EXCEPT !.stall = FALSE, !.phase = "top", !.self = @ + 1]
    <3>1. srv'.playing = srv.playing /\ ~srv'.stall /\ srv'.phase = "top" /\ srv'.self = srv.self + 1
      BY <1>1, <2>2 DEF Servers
    <3> QED BY <1>2, <3>1 DEF ServerRead
  <2> QED BY <2>1, <2>2 DEF EndPoll
<1>5. \A x \in Client : Plays(x)' <=> Plays(x)
  BY <1>3 DEF Plays, OnlyStall
<1>6. Roles'
  <2>1. \A x \in Client : Role(x)'
    BY <1>1, <1>2, <1>3, <1>5 DEF Role, Roles, OnlyStall
  <2> QED BY <1>1, <1>2, <1>4, <2>1 DEF Roles
<1>7. ASSUME NEW c \in Client PROVE PeerInv(c)'
  <2>1. SamePipes(c) /\ toC'[c] = toC[c] /\ Grows
    BY <1>2 DEF SamePipes, Grows
  <2>2. Kept(c)
    BY <1>2, <1>5, ReadIsNat, <1>1 DEF Kept
  <2>3. ASSUME NEW e \in States, Follows(c, e) PROVE Follows(c, e)'
    <3>1. \A p \in Client \ {c} : Knows(c, e, p)'
      BY <1>2, <1>3, <1>4, <2>3, OnlyStallKnows DEF Follows
    <3> QED BY <1>2, <1>4, <2>3, <3>1 DEF Follows
  <2> QED BY <1>1, <2>1, <2>2, <2>3, Untouched DEF IInv
<1>8. OnlyKnownNaks'
  BY <1>1, <1>2 DEF OnlyKnownNaks
<1>9. StallCanEnd'
  <2>1. CASE /\ NewStall /\ srv' = [srv EXCEPT !.stall = TRUE]
             /\ conn' = [c \in Client |-> IF Blamed(c) THEN [conn[c] EXCEPT !.stall = TRUE] ELSE conn[c]]
    <3>1. PICK y \in Client : Plays(y)
      BY <2>1 DEF NewStall, Late
    <3>2. PICK c \in Client : Plays(c) /\ \A x \in Client : Plays(x) => read[c] <= read[x]
      BY <1>1, <3>1, SomeoneIsBehind
    <3>3. conn[c].active
      BY <1>1, <3>2 DEF Roles, Role
    <3>4. Blamed(c)
      BY <3>2, <3>3 DEF Blamed
    <3>5. conn'[c].stall /\ conn'[c].active /\ Plays(c)'
      BY <1>1, <1>3, <1>5, <2>1, <3>2, <3>3, <3>4 DEF Conns, OnlyStall
    <3>6. c \in StalledOut'
      BY <3>5 DEF StalledOut
    <3> QED BY <3>6 DEF StallCanEnd
  <2>2. CASE srv' = [srv EXCEPT !.stall = FALSE, !.phase = "top", !.self = @ + 1]
    <3>1. ~srv'.stall
      BY <1>1, <2>2 DEF Servers
    <3> QED BY <3>1 DEF StallCanEnd
  <2> QED BY <2>1, <2>2 DEF EndPoll
<1> QED BY <1>6, <1>7, <1>8, <1>9 DEF IInv

-----------------------------------------------------------------------------
(* The server begins or stops to play. *)

(* To all clients that are connected, another peer than they.              *)
SendParts(m, to) == \A c \in Client : toC'[c] = IF c \in to THEN Append(toC[c], m) ELSE toC[c]

(* A command is put behind what each of those addressed is sent. *)
LEMMA SentToAll ==
  ASSUME Types, NEW to, NEW m, toC' = SendTo(toC, to, m)
  PROVE  SendParts(m, to)
BY DEF SendTo, SendParts

OtherMode(m, f, p, ds) == m = ModeCmd(f, p, ds, FALSE)

(* CMD MODE about somebody else. *)
LEMMA OtherModeParts ==
  ASSUME NEW f \in Nat, NEW p \in Peer, NEW ds \in SUBSET Devices, NEW m, OtherMode(m, f, p, ds)
  PROVE  /\ m \in ToClient /\ m.t = "mode" /\ ~m.you /\ m.devs = ds /\ m.peer = p /\ m.frame = f
         /\ ~Yours(m) /\ ~IsAnswer(m)
<1>1. PICK you \in BOOLEAN : ~you
  OBVIOUS
<1>2. m = ModeCmd(f, p, ds, you)
  BY <1>1 DEF OtherMode
<1>3. m \in ToClient
  BY <1>2, ModeIsCommand
<1>4. m.t = "mode" /\ ~m.you /\ m.devs = ds /\ m.peer = p /\ m.frame = f
  BY <1>1, <1>2 DEF ModeCmd
<1> QED BY <1>3, <1>4 DEF Yours, IsAnswer

LEMMA ReadsOther ==
  ASSUME NEW c \in Client, NEW e \in States, e.mode # "none", NEW f \in Nat, NEW p \in Peer,
         NEW ds \in SUBSET Devices, NEW m, OtherMode(m, f, p, ds), NEW t, t = Handle(c, e, m)
  PROVE  /\ ds = {} => Departs(e, p, t)
         /\ ds # {} /\ f = e.server => \E you \in BOOLEAN : ~you /\ Joins(c, e, f, p, ds, you, t)
         /\ ds # {} /\ f # e.server => t = NoClient
<1>1. PICK you \in BOOLEAN : ~you
  OBVIOUS
<1>2. m = ModeCmd(f, p, ds, you)
  BY <1>1 DEF OtherMode
<1>3. ds = {} => Departs(e, p, t)
  BY <1>1, <1>2, ReadDeparture
<1>4. ds # {} /\ f = e.server => Joins(c, e, f, p, ds, you, t)
  BY <1>1, <1>2, ReadJoin
<1>5. ds # {} /\ f # e.server => t = NoClient
  BY <1>2 DEF Handle, Accepts, ModeCmd
<1> QED BY <1>1, <1>3, <1>4, <1>5

(* A closed connection has no client and nothing to read. *)
LEMMA InactiveIsGone ==
  ASSUME Roles, NEW c \in Client, ~conn[c].active
  PROVE  cl[c].mode = "none" /\ toC[c] = <<>>
BY DEF Roles, Role

LEMMA GonePolled ==
  ASSUME Types, Roles, NEW c \in Client, ~conn[c].active
  PROVE  Polled(c).mode = "none"
<1>1. PICK f, s, q : f = After(c, s, q) /\ s = cl[c] /\ q = toC[c]
  OBVIOUS
<1>2. cl[c].mode = "none" /\ q = <<>> /\ Len(q) = 0
  BY <1>1, InactiveIsGone
<1>3. f[0] = s
  BY <1>1, <1>2, AfterReads
<1>4. Polled(c) = f[0]
  <2> HIDE DEF After
  <2> QED BY <1>1, <1>2 DEF Polled, Reading
<1> QED BY <1>1, <1>2, <1>3, <1>4

LEMMA ServerModeRoles ==
  ASSUME Types, Roles, UNCHANGED <<conn, read, cl, toS>>, NEW m, SendParts(m, Active),
         \A x \in Client : devs'[x] = devs[x], srv'.playing <=> devs'[0] # {},
         srv'.stall => srv'.phase = "poll"
  PROVE  Roles'
<1>1. \A x \in Client : Role(x)'
  <2> SUFFICES ASSUME NEW x \in Client PROVE Role(x)'
    OBVIOUS
  <2>1. Role(x) /\ conn[x].active \in BOOLEAN /\ conn'[x] = conn[x] /\ (Plays(x)' <=> Plays(x))
    BY DEF Roles, Types, Conns, Plays
  <2>2. ~conn[x].active => toC'[x] = toC[x]
    BY DEF SendParts, Active
  <2> QED BY <2>1, <2>2 DEF Role
<1> QED BY <1>1 DEF Roles

(* Knowing of p depends on p alone. *)
LEMMA SameKnows ==
  ASSUME NEW c, NEW e, NEW t, NEW p \in Client, Knows(c, e, p), conn'[p] = conn[p],
         devs'[p] = devs[p], read'[p] = read[p], Grows, hist'.untold = hist.untold,
         ServerRead' = ServerRead, t.view[p] = e.view[p], t.read[p] = e.read[p]
  PROVE  Knows(c, t, p)'
BY DEF Knows, Owed, Grows

(* The clients are told that the server plays, at the frame they wait      *)
(* for.                                                                    *)
LEMMA ServerPlayPeers ==
  ASSUME IInv, Types', NEW r \in Ask[0], ServerPlay(r), NEW c \in Client
  PROVE  PeerInv(c)'
<1>1. /\ Types /\ Roles /\ srv \in Servers /\ srv.self \in Nat /\ hist \in Hists
      /\ r \in Requested /\ 0 \in Peer /\ PeerInv(c) /\ Client \subseteq Peer /\ 0 \notin Client
      /\ conn[c].active \in BOOLEAN
  BY ServerIsPeer DEF IInv, Types, Servers, Requested, Conns
<1>2. PICK ds \in SUBSET Devices : ds = Devs(r) /\ ds # {}
  BY <1>1, DevsGiven DEF ServerPlay
<1>3. /\ devs'[0] = ds /\ \A x \in Client : devs'[x] = devs[x]
  BY <1>1, <1>2, GrantTypes DEF ServerPlay, Types
<1>4. PICK m : OtherMode(m, srv.self, 0, ds)
  BY DEF OtherMode
<1>5. SendParts(m, Active)
  BY <1>1, <1>2, <1>4, SentToAll DEF ServerPlay, OtherMode
<1>6. /\ m \in ToClient /\ m.t = "mode" /\ ~m.you /\ m.devs = ds /\ ~Yours(m) /\ ~IsAnswer(m)
  BY <1>1, <1>4, OtherModeParts
<1>7. /\ UNCHANGED <<conn, read, cl, toS>> /\ srv' = [srv EXCEPT !.playing = TRUE]
      /\ hist' = [hist EXCEPT !.late = @ \/ (srv.stall /\ Active # {})]
      /\ srv.phase = "top" \/ srv.stall
  BY DEF ServerPlay, BetweenFrames
<1>8. /\ hist'.waiting = hist.waiting /\ hist'.ignored = hist.ignored
      /\ hist'.impatient = hist.impatient /\ hist'.lost = hist.lost /\ hist'.untold = hist.untold
      /\ hist'.late <=> hist.late \/ (srv.stall /\ Active # {})
  BY <1>1, <1>7 DEF Hists
<1>9. SamePipes(c) /\ Kept(c) /\ Grows
  <2>1. read[c] \in Nat
    BY <1>1, ReadIsNat
  <2> QED BY <1>7, <1>8, <2>1 DEF SamePipes, Kept, Grows, Plays
<1>10. ServerRead' = ServerRead
  BY <1>1, <1>7 DEF ServerRead, Servers
<1>11. CASE ~conn[c].active
  <2>1. toC'[c] = toC[c]
    BY <1>5, <1>11 DEF SendParts, Active
  <2>2. Polled(c).mode = "none"
    BY <1>1, <1>11, GonePolled
  <2> QED BY <1>1, <1>9, <2>1, <2>2, Untouched
<1>12. CASE conn[c].active
  <2>1. toC'[c] = Append(toC[c], m) /\ c \in Active
    BY <1>5, <1>12 DEF SendParts, Active
  <2>2. ASSUME NEW e \in States, NEW t \in States, e.mode # "none", Follows(c, e),
               t = Handle(c, e, m)
        PROVE  /\ AfterItsInput(c, e, m)'
               /\ t.mode # "none" => Follows(c, t)' /\ SamePlace(e, t)
               /\ ~hist'.late => t.mode # "none"
    <3>1. AfterItsInput(c, e, m)'
      BY <1>2, <1>6 DEF AfterItsInput
    <3>2. CASE srv.stall
      <4>1. srv.phase = "poll" /\ e.server = srv.self + 1
        BY <1>1, <2>2, <3>2 DEF Roles, Follows, ServerRead
      <4>2. srv.self # e.server
        BY <1>1, <4>1
      <4>3. t = NoClient
        BY <1>1, <1>2, <1>4, <2>2, <4>2, ReadsOther
      <4>4. t.mode = "none"
        BY <4>3 DEF NoClient
      <4> QED BY <1>8, <2>1, <3>1, <3>2, <4>4
    <3>3. CASE ~srv.stall
      <4>1. e.server = srv.self /\ ServerRead = srv.self
        BY <1>7, <2>2, <3>3 DEF Follows, ServerRead
      <4>2. PICK you \in BOOLEAN : ~you /\ Joins(c, e, srv.self, 0, ds, you, t)
        BY <1>1, <1>2, <1>4, <2>2, <4>1, ReadsOther
      <4>3. /\ SamePlace(e, t) /\ t.server = e.server
            /\ \A q \in Peer : /\ t.view[q] = (IF q = 0 THEN ds ELSE e.view[q])
                               /\ t.read[q] = (IF q = 0 THEN e.server ELSE e.read[q])
        BY <4>2 DEF Joins
      <4>4. ASSUME NEW p \in Client \ {c} PROVE Knows(c, t, p)'
        <5>1. p \in Peer /\ p # 0 /\ Knows(c, e, p) /\ p \in Client
          BY <1>1, <2>2 DEF Follows
        <5>2. t.view[p] = e.view[p] /\ t.read[p] = e.read[p]
          BY <4>3, <5>1
        <5>3. conn'[p] = conn[p] /\ devs'[p] = devs[p] /\ read'[p] = read[p]
          BY <1>3, <1>7
        <5> QED BY <1>8, <1>9, <1>10, <5>1, <5>2, <5>3, SameKnows
      <4>5. Follows(c, t)'
        <5>1. /\ t.mode \in {"spectating", "playing"} /\ t.server = ServerRead'
              /\ t.view[0] = devs'[0] /\ t.read[0] = ServerRead' /\ t.view[c] = devs'[c]
          BY <1>1, <1>3, <1>10, <2>2, <4>1, <4>3 DEF Follows, SamePlace
        <5> QED BY <4>4, <5>1 DEF Follows
      <4>6. t.mode # "none"
        BY <2>2, <4>3 DEF SamePlace
      <4> QED BY <3>1, <4>3, <4>5, <4>6
    <3> QED BY <3>2, <3>3
  <2> QED BY <1>1, <1>6, <1>9, <2>1, <2>2, Appended
<1> QED BY <1>1, <1>11, <1>12

LEMMA ServerPlayStep ==
  ASSUME IInv, Types', NEW r \in Ask[0], ServerPlay(r)
  PROVE  IInv'
<1>1. /\ Types /\ Roles /\ srv \in Servers /\ hist \in Hists
      /\ r \in Requested /\ 0 \in Peer /\ Client \subseteq Peer /\ 0 \notin Client
  BY ServerIsPeer DEF IInv, Types, Requested
<1>2. /\ UNCHANGED <<conn, read, cl, toS>> /\ srv' = [srv EXCEPT !.playing = TRUE]
      /\ hist' = [hist EXCEPT !.late = @ \/ (srv.stall /\ Active # {})]
      /\ toC' = SendTo(toC, Active, ModeCmd(srv.self, 0, Devs(r), FALSE))
  BY DEF ServerPlay
<1>3. srv'.playing /\ srv'.stall = srv.stall /\ srv'.phase = srv.phase /\ srv'.self = srv.self
  BY <1>1, <1>2 DEF Servers
<1>4. /\ devs'[0] # {} /\ \A x \in Client : devs'[x] = devs[x]
  BY <1>1, DevsGiven, GrantTypes DEF ServerPlay, Types
<1>5. hist'.nak = hist.nak /\ hist'.impatient = hist.impatient /\ (hist.late => hist'.late)
      /\ hist'.unblamed = hist.unblamed
  BY <1>1, <1>2 DEF Hists
<1>6. Roles'
  <2>1. PICK m : SendParts(m, Active)
    BY <1>1, <1>2, SentToAll
  <2> QED BY <1>1, <1>2, <1>3, <1>4, <2>1, ServerModeRoles DEF Roles
<1>7. \A c \in Client : PeerInv(c)'
  BY ServerPlayPeers
<1>8. OnlyKnownNaks'
  BY <1>5 DEF IInv, OnlyKnownNaks
<1>9. StallCanEnd'
  BY <1>2, <1>3, <1>5 DEF IInv, StallCanEnd, NewStall, StalledOut, Late, Plays
<1> QED BY <1>6, <1>7, <1>8, <1>9 DEF IInv

(* And that it does not. *)
LEMMA ServerSpectatePeers ==
  ASSUME IInv, Types', ServerSpectate, NEW c \in Client
  PROVE  PeerInv(c)'
<1>1. /\ Types /\ Roles /\ srv \in Servers /\ srv.self \in Nat /\ ServerRead \in Nat
      /\ 0 \in Peer /\ PeerInv(c) /\ Client \subseteq Peer /\ 0 \notin Client
      /\ conn[c].active \in BOOLEAN /\ {} \in SUBSET Devices
  BY ServerIsPeer, ServerReadIsNat DEF IInv, Types, Servers, Conns
<1>2. UNCHANGED <<conn, read, cl, toS, hist>> /\ srv' = [srv EXCEPT !.playing = FALSE]
      /\ devs[0] # {}
  BY <1>1 DEF ServerSpectate, Roles
<1>3. devs'[0] = {} /\ \A x \in Client : devs'[x] = devs[x]
  BY <1>1 DEF ServerSpectate, Types, Views
<1>4. PICK m : OtherMode(m, ServerRead, 0, {})
  BY DEF OtherMode
<1>5. SendParts(m, Active)
  BY <1>1, <1>4, SentToAll DEF ServerSpectate, OtherMode
<1>6. /\ m \in ToClient /\ m.t = "mode" /\ ~m.you /\ m.devs = {} /\ m.peer = 0
      /\ m.frame = ServerRead /\ ~Yours(m) /\ ~IsAnswer(m)
  BY <1>1, <1>4, OtherModeParts
<1>9. SamePipes(c) /\ Kept(c) /\ Grows
  <2>1. read[c] \in Nat
    BY <1>1, ReadIsNat
  <2> QED BY <1>2, <2>1 DEF SamePipes, Kept, Grows, Plays
<1>10. ServerRead' = ServerRead
  BY <1>1, <1>2 DEF ServerRead, Servers
<1>11. CASE ~conn[c].active
  <2>1. toC'[c] = toC[c]
    BY <1>5, <1>11 DEF SendParts, Active
  <2>2. Polled(c).mode = "none"
    BY <1>1, <1>11, GonePolled
  <2> QED BY <1>1, <1>9, <2>1, <2>2, Untouched
<1>12. CASE conn[c].active
  <2>1. toC'[c] = Append(toC[c], m) /\ c \in Active
    BY <1>5, <1>12 DEF SendParts, Active
  <2>2. ASSUME NEW e \in States, NEW t \in States, e.mode # "none", Follows(c, e),
               t = Handle(c, e, m)
        PROVE  /\ AfterItsInput(c, e, m)'
               /\ t.mode # "none" => Follows(c, t)' /\ SamePlace(e, t)
               /\ ~hist'.late => t.mode # "none"
    <3>1. AfterItsInput(c, e, m)'
      <4>1. e.read[0] = ServerRead
        BY <1>2, <2>2 DEF Follows
      <4> QED BY <1>1, <1>6, <4>1 DEF AfterItsInput
    <3>2. Departs(e, 0, t)
      BY <1>1, <1>4, <2>2, ReadsOther
    <3>3. /\ SamePlace(e, t) /\ t.server = e.server
          /\ \A q \in Peer : /\ t.view[q] = (IF q = 0 THEN {} ELSE e.view[q])
                             /\ t.read[q] = (IF q = 0 THEN 0 ELSE e.read[q])
      BY <3>2 DEF Departs
    <3>4. ASSUME NEW p \in Client \ {c} PROVE Knows(c, t, p)'
      <5>1. p \in Peer /\ p # 0 /\ Knows(c, e, p) /\ p \in Client
        BY <1>1, <2>2 DEF Follows
      <5>2. t.view[p] = e.view[p] /\ t.read[p] = e.read[p]
        BY <3>3, <5>1
      <5>3. conn'[p] = conn[p] /\ devs'[p] = devs[p] /\ read'[p] = read[p]
        BY <1>2, <1>3
      <5> QED BY <1>2, <1>9, <1>10, <5>1, <5>2, <5>3, SameKnows
    <3>5. Follows(c, t)'
      <4>1. /\ t.mode \in {"spectating", "playing"} /\ t.server = ServerRead'
            /\ t.view[0] = devs'[0] /\ t.view[c] = devs'[c]
        BY <1>1, <1>3, <1>10, <2>2, <3>3 DEF Follows, SamePlace
      <4> QED BY <1>3, <3>4, <4>1 DEF Follows
    <3>6. t.mode # "none"
      BY <2>2, <3>3 DEF SamePlace
    <3> QED BY <3>1, <3>3, <3>5, <3>6
  <2> QED BY <1>1, <1>6, <1>9, <2>1, <2>2, Appended
<1> QED BY <1>1, <1>11, <1>12

LEMMA ServerSpectateStep ==
  ASSUME IInv, Types', ServerSpectate
  PROVE  IInv'
<1>1. /\ Types /\ Roles /\ srv \in Servers /\ 0 \in Peer /\ Client \subseteq Peer /\ 0 \notin Client
  BY ServerIsPeer DEF IInv, Types
<1>2. /\ UNCHANGED <<conn, read, cl, toS, hist>> /\ srv' = [srv EXCEPT !.playing = FALSE]
      /\ toC' = SendTo(toC, Active, ModeCmd(ServerRead, 0, {}, FALSE))
  BY DEF ServerSpectate
<1>3. ~srv'.playing /\ srv'.stall = srv.stall /\ srv'.phase = srv.phase /\ srv'.self = srv.self
  BY <1>1, <1>2 DEF Servers
<1>4. devs'[0] = {} /\ \A x \in Client : devs'[x] = devs[x]
  BY <1>1 DEF ServerSpectate, Types, Views
<1>6. Roles'
  <2>1. PICK m : SendParts(m, Active)
    BY <1>1, <1>2, SentToAll
  <2> QED BY <1>1, <1>2, <1>3, <1>4, <2>1, ServerModeRoles DEF Roles
<1>7. \A c \in Client : PeerInv(c)'
  BY ServerSpectatePeers
<1>8. OnlyKnownNaks'
  BY <1>2 DEF IInv, OnlyKnownNaks
<1>9. StallCanEnd'
  BY <1>2, <1>3 DEF IInv, StallCanEnd, NewStall, StalledOut, Late, Plays
<1> QED BY <1>6, <1>7, <1>8, <1>9 DEF IInv

-----------------------------------------------------------------------------
(* The server reads input. *)

(* The command at the head of what client c has sent is read.              *)
Takes(c) ==
  /\ toS'[c] = Tail(toS[c]) /\ \A x \in Client \ {c} : toS'[x] = toS[x]

LEMMA TakenHead ==
  ASSUME Types, NEW c \in Client, toS[c] # <<>>, toS' = [toS EXCEPT ![c] = Tail(@)]
  PROVE  Takes(c)
BY TailTypes DEF Takes

LEMMA InputRoles ==
  ASSUME Types, Types', Roles, NEW c \in Client, conn[c].active, UNCHANGED <<srv, conn, devs, cl>>,
         Takes(c), \A x \in Client : read'[x] >= read[x],
         \A x \in Client : x \notin Active => toC'[x] = toC[x]
  PROVE  Roles'
<1>1. ASSUME NEW x \in Client PROVE Role(x)'
  <2>1. /\ Role(x) /\ conn'[x] = conn[x] /\ (Plays(x)' <=> Plays(x))
        /\ read[x] \in Nat /\ read'[x] \in Nat /\ read'[x] >= read[x]
    BY ReadIsNat, ReadIsNatNext DEF Roles, Plays
  <2>2. ~conn[x].active => toC'[x] = toC[x] /\ toS'[x] = toS[x]
    BY DEF Active, Takes
  <2> QED BY <2>1, <2>2 DEF Role
<1> QED BY <1>1 DEF Roles

(* What the player has sent is still in turn once its first input is read. *)
LEMMA InputTalks ==
  ASSUME Types, Types', NEW c \in Client, toS[c] # <<>>, Head(toS[c]).t = "input", Takes(c),
         cl'[c] = cl[c], Head(toS[c]).frame + 1 <= read'[c], Plays(c)' <=> Plays(c),
         read'[c] >= read[c], hist' = hist,
         Quiet(c)' <=> Quiet(c), Answered(c)' <=> Answered(c), Talks(c)
  PROVE  Talks(c)'
<1>1. PICK q, p : q \in Seq(ToServer) /\ q = toS[c] /\ p = Tail(q) /\ toS'[c] = p /\ q # <<>>
  BY PolledIsState DEF Takes
<1>2. /\ p \in Seq(ToServer) /\ Len(p) = Len(q) - 1 /\ Len(q) \in Nat \ {0} /\ Head(q) = q[1]
      /\ \A i \in 1..Len(p) : i + 1 \in 1..Len(q) /\ p[i] = q[i + 1]
      /\ \A i \in 1..Len(q) : i > 1 => i - 1 \in 1..Len(p) /\ q[i] = p[i - 1]
  BY <1>1, TailParts
<1>3. read[c] \in Nat /\ read'[c] \in Nat
  BY ReadIsNat, ReadIsNatNext
<1>4. InTurn(p, read'[c])
  <2>1. InTurn(q, read[c])
    BY <1>1 DEF Talks, Piped
  <2> QED BY <1>1, <1>3, <2>1, InTurnTail
<1>5. Piped(c)'
  <2>1. \A i \in 1..Len(q) : q[i].t \in {"input", "spectate"} =>
          Plays(c) /\ \A j \in 1..Len(q) : j < i => q[j].t # "spectate"
    BY <1>1 DEF Talks, Piped
  <2>2. ASSUME NEW i \in 1..Len(p), p[i].t \in {"input", "spectate"}
        PROVE  Plays(c) /\ \A j \in 1..Len(p) : j < i => p[j].t # "spectate"
    <3>1. i + 1 \in 1..Len(q) /\ q[i + 1].t \in {"input", "spectate"}
      BY <1>2, <2>2
    <3>2. ASSUME NEW j \in 1..Len(p), j < i PROVE p[j].t # "spectate"
      <4>1. j + 1 \in 1..Len(q) /\ j + 1 < i + 1 /\ p[j] = q[j + 1]
        BY <1>2, <3>2
      <4> QED BY <2>1, <3>1, <4>1
    <3> QED BY <2>1, <3>1, <3>2
  <2> QED BY <1>1, <1>4, <2>2 DEF Piped
<1>6. \A t \in {"spectate", "play"} : Has(p, t) <=> Has(q, t)
  BY <1>1, HasTail
<1>7. Modes(c)'
  BY <1>1, <1>6 DEF Talks, Modes
<1>8. Requests(c)'
  BY <1>1, <1>6 DEF Talks, Requests, Connected
<1>9. Patient(c)'
  <2> SUFFICES ASSUME c \notin hist.impatient PROVE Patient(c)'
    BY DEF Patient
  <2>1. /\ \A i \in 1..Len(q) : q[i].t = "play" =>
             /\ Plays(c) => \E j \in 1..Len(q) : j < i /\ q[j].t = "spectate"
             /\ \A j \in 1..Len(q) : q[j].t = "play" => i = j
             /\ ~Answered(c)
             /\ Connected(c) => c \in hist.waiting
        /\ Connected(c) /\ Answered(c) => c \in hist.waiting
    BY <1>1 DEF Talks, Patient
  <2>2. ASSUME NEW i \in 1..Len(p), p[i].t = "play"
        PROVE  /\ Plays(c) => \E j \in 1..Len(p) : j < i /\ p[j].t = "spectate"
               /\ \A j \in 1..Len(p) : p[j].t = "play" => i = j
               /\ ~Answered(c)
               /\ Connected(c) => c \in hist.waiting
    <3>1. i + 1 \in 1..Len(q) /\ q[i + 1].t = "play"
      BY <1>2, <2>2
    <3>2. Plays(c) => \E j \in 1..Len(p) : j < i /\ p[j].t = "spectate"
      <4> HAVE Plays(c)
      <4>1. PICK j \in 1..Len(q) : j < i + 1 /\ q[j].t = "spectate"
        BY <2>1, <3>1
      <4>2. j # 1
        BY <1>1, <1>2, <4>1
      <4>3. j > 1
        BY <4>2
      <4>4. j - 1 \in 1..Len(p) /\ j - 1 < i /\ p[j - 1].t = "spectate"
        BY <1>2, <4>1, <4>3
      <4> QED BY <4>4
    <3>3. ASSUME NEW j \in 1..Len(p), p[j].t = "play" PROVE i = j
      <4>1. j + 1 \in 1..Len(q) /\ q[j + 1].t = "play"
        BY <1>2, <3>3
      <4>2. i + 1 = j + 1
        BY <2>1, <3>1, <4>1
      <4> QED BY <4>2
    <3> QED BY <2>1, <3>1, <3>2, <3>3
  <2>3. Connected(c)' <=> Connected(c)
    BY DEF Connected
  <2>4. hist'.waiting = hist.waiting /\ toS'[c] = p
    BY <1>1
  <2>5. Connected(c)' /\ Answered(c)' => c \in hist'.waiting
    BY <2>1, <2>3, <2>4
  <2>6. \A i \in 1..Len(toS'[c]) : toS'[c][i].t = "play" =>
             /\ Plays(c)' => \E j \in 1..Len(toS'[c]) : j < i /\ toS'[c][j].t = "spectate"
             /\ \A j \in 1..Len(toS'[c]) : toS'[c][j].t = "play" => i = j
             /\ ~Answered(c)'
             /\ Connected(c)' => c \in hist'.waiting
    BY <2>2, <2>3, <2>4
  <2> QED BY <2>5, <2>6 DEF Patient
<1> QED BY <1>5, <1>7, <1>8, <1>9 DEF Talks

(* An input that is read leaves the rest of them in turn. *)
LEMMA InputSends ==
  ASSUME Types, Types', NEW c \in Client, toS[c] # <<>>, Head(toS[c]).t # "spectate", Takes(c),
         cl'[c] = cl[c], Plays(c)' <=> Plays(c),
         Head(toS[c]).t = "input" => Head(toS[c]).frame + 1 <= read'[c],
         read'[c] >= read[c], NEW e \in States, Sends(c, e)
  PROVE  Sends(c, e)'
<1>1. PICK q, p : q \in Seq(ToServer) /\ q = toS[c] /\ p = Tail(q) /\ toS'[c] = p /\ q # <<>>
  BY PolledIsState DEF Takes
<1>2. read[c] \in Nat /\ read'[c] \in Nat /\ NextInput(e) \in Nat /\ e.out \in Seq(ToServer)
  BY ReadIsNat, ReadIsNatNext, NextInputIsNat DEF States, Fields
<1>3. InTurn(e.out, read'[c])
  BY <1>2, InTurnLater DEF Sends
<1>4. Has(p, "spectate") <=> Has(q, "spectate")
  BY <1>1, HasTail
<1>5. EndsBefore(q, NextInput(e)) => NextInput(e) <= read'[c] \/ EndsBefore(p, NextInput(e))
  <2>1. q # <<>> /\ Head(q).t = "input" => Head(q).frame + 1 <= read'[c]
    BY <1>1
  <2> QED BY <1>1, <1>2, <2>1, EndsTail
<1>6. NextInput(e) <= read[c] => NextInput(e) <= read'[c]
  BY <1>2
<1>7. Skips(e, read[c]) => Skips(e, read'[c])
  BY <1>2 DEF States, Fields, Skips
<1> QED BY <1>1, <1>3, <1>4, <1>5, <1>6, <1>7 DEF Sends

(* The server is sent input only by those it lets play, and none too       *)
(* early.                                                                  *)
LEMMA InputHead ==
  ASSUME Types, NEW c \in Client, Talks(c), toS[c] # <<>>, Head(toS[c]).t = "input"
  PROVE  Plays(c) /\ Head(toS[c]).frame \in Nat /\ Head(toS[c]).frame <= read[c]
<1>1. PICK q \in Seq(ToServer) : q = toS[c] /\ q # <<>>
  BY PolledIsState
<1>2. 1 \in 1..Len(q) /\ Head(q) = q[1]
  BY <1>1, TailParts
<1>3. q[1].frame \in Nat
  BY <1>1, <1>2, FrameTyped
<1>4. Plays(c) /\ q[1].frame <= read[c]
  BY <1>1, <1>2 DEF Talks, Piped, InTurn
<1> QED BY <1>1, <1>2, <1>3, <1>4

(* Input that is read again changes nothing.                               *)
LEMMA OldInputStep ==
  ASSUME IInv, Types', NEW c \in Client, conn[c].active, toS[c] # <<>>,
         Head(toS[c]).t = "input", Head(toS[c]).frame < read[c],
         toS' = [toS EXCEPT ![c] = Tail(@)],
         UNCHANGED <<srv, conn, read, devs, share, cl, toC, hist>>
  PROVE  IInv'
<1>1. Types /\ Roles /\ PeerInv(c) /\ Takes(c)
  BY TakenHead DEF IInv
<1>2. /\ Plays(c) /\ Head(toS[c]).frame \in Nat /\ read[c] \in Nat
      /\ Head(toS[c]).frame + 1 <= read'[c]
  <2>1. Plays(c) /\ Head(toS[c]).frame \in Nat /\ read[c] \in Nat
    BY <1>1, InputHead, ReadIsNat DEF PeerInv
  <2> QED BY <2>1
<1>3. ASSUME NEW e, NEW x, Follows(x, e) PROVE Follows(x, e)'
  BY <1>3 DEF Follows, Knows, Owed, ServerRead
<1>4. Grows /\ \A x \in Client : Plays(x)' <=> Plays(x)
  BY DEF Grows, Plays
<1>5. ASSUME NEW x \in Client, x # c PROVE PeerInv(x)'
  <2>1. SamePipes(x) /\ Kept(x) /\ PeerInv(x)
    <3>1. read[x] \in Nat
      BY <1>1, ReadIsNat
    <3> QED BY <1>1, <1>4, <1>5, <3>1 DEF SamePipes, Kept, Takes, IInv
  <2> QED BY <1>1, <1>3, <1>4, <2>1, Untouched
<1>6. PeerInv(c)'
  <2>1. PICK e \in States : e = Polled(c)
    BY <1>1, PolledIsState
  <2>2. Polled(c)' = e /\ (Quiet(c)' <=> Quiet(c)) /\ (Answered(c)' <=> Answered(c))
    BY <2>1, SamePolled
  <2>3. Talks(c)'
    BY <1>1, <1>2, <1>4, <2>2, InputTalks DEF PeerInv
  <2>4. Complete(c)'
    BY <1>1, <1>4, CompleteKept DEF PeerInv
  <2>5. e.mode # "none" => Follows(c, e)' /\ Sends(c, e)'
    BY <1>1, <1>2, <1>3, <1>4, <2>1, InputSends DEF PeerInv
  <2> QED BY <1>1, <2>1, <2>2, <2>3, <2>4, <2>5 DEF PeerInv
<1>7. Roles'
  <2>1. \A x \in Client : read'[x] >= read[x]
    BY <1>1, ReadIsNat
  <2> QED BY <1>1, <2>1, InputRoles
<1>8. OnlyKnownNaks' /\ StallCanEnd'
  BY DEF IInv, OnlyKnownNaks, StallCanEnd, NewStall, StalledOut, Late, Plays
<1> QED BY <1>5, <1>6, <1>7, <1>8 DEF IInv

(* The input the server waits for. *)
NewInput(c, f) ==
  /\ f = read[c] /\ read' = [read EXCEPT ![c] = @ + 1]
  /\ toC' = IF Forwards(f) THEN SendTo(toC, Active \ {c}, InputCmd(f, c)) ELSE toC
  /\ toS' = [toS EXCEPT ![c] = Tail(@)]
  /\ UNCHANGED <<srv, conn, devs, share, cl, hist>>

(* handle_input of the frame waited for: forwarded when the server is      *)
(* ahead.                                                                  *)
LEMMA NewInputParts ==
  ASSUME Types, NEW c \in Client, NEW f \in Nat, NewInput(c, f)
  PROVE  /\ read'[c] = f + 1 /\ f = read[c] /\ \A x \in Client \ {c} : read'[x] = read[x]
         /\ Forwards(f) => SendParts(InputCmd(f, c), Active \ {c})
         /\ ~Forwards(f) => toC' = toC
         /\ \A x \in Client : Plays(x)' <=> Plays(x)
BY SentToAll DEF Types, NewInput, Plays

(* Another client knows of c what it did, and of its input one frame       *)
(* more.                                                                   *)
LEMMA NewInputOther ==
  ASSUME Types, Types', Roles, srv.phase = "poll", NEW c \in Client, Plays(c), NEW f \in Nat,
         NewInput(c, f), Takes(c), NEW x \in Client, x # c, PeerInv(x)
  PROVE  PeerInv(x)'
<1>1. /\ read'[c] = f + 1 /\ f = read[c] /\ \A y \in Client \ {c} : read'[y] = read[y]
      /\ Forwards(f) => SendParts(InputCmd(f, c), Active \ {c})
      /\ ~Forwards(f) => toC' = toC
      /\ \A y \in Client : Plays(y)' <=> Plays(y)
  BY NewInputParts
<1>2. /\ srv.self \in Nat /\ ServerRead = srv.self + 1 /\ ServerRead' = ServerRead
      /\ devs[c] # {} /\ conn[c].delay = 0 /\ c \in Peer /\ read[x] \in Nat
  BY ServerIsPeer, ReadIsNat DEF Types, Servers, ServerRead, NewInput, Roles, Role
<1>3. SamePipes(x) /\ Kept(x) /\ Grows /\ UNCHANGED <<conn, devs, hist>>
  BY <1>1, <1>2 DEF NewInput, SamePipes, Kept, Grows, Takes
<1>4. ASSUME NEW e \in States, NEW t \in States, Follows(x, e), t.mode = e.mode, t.view = e.view,
             t.server = e.server, t.read[0] = e.read[0],
             \A p \in Client \ {x, c} : t.read[p] = e.read[p],
             t.read[c] >= f + 1 \/ t.read[c] >= ServerRead
      PROVE  Follows(x, t)'
  <2>1. Knows(x, e, c) /\ \A p \in Client \ {x} : Knows(x, e, p)
    BY <1>4 DEF Follows
  <2>2. ~Owed(c) /\ ~Owed(c)'
    BY <1>2, <1>3 DEF Owed
  <2>3. Knows(x, t, c)'
    BY <1>1, <1>2, <1>3, <1>4, <2>1, <2>2 DEF Knows
  <2>4. ASSUME NEW p \in Client \ {x, c} PROVE Knows(x, t, p)'
    BY <1>1, <1>2, <1>3, <1>4, <2>1 DEF Knows, Owed
  <2> QED BY <1>2, <1>3, <1>4, <2>3, <2>4 DEF Follows
<1>5. CASE toC'[x] = toC[x] /\ (conn[x].active => ~Forwards(f))
  <2>1. ASSUME NEW e \in States, e = Polled(x), e.mode # "none", Follows(x, e)
        PROVE  Follows(x, e)'
    <3>1. conn[x].active
      <4>1. conn[x].active \in BOOLEAN
        BY DEF Types, Conns
      <4> QED BY <2>1, <4>1, GonePolled
    <3>2. f > srv.self
      BY <1>2, <1>5, <3>1 DEF Forwards
    <3>3. e.read[c] \in Nat /\ (e.read[c] >= read[c] \/ e.read[c] >= ServerRead)
      BY <1>2, <2>1 DEF Follows, Knows, States, Fields
    <3>4. e.read[c] >= ServerRead
      BY <1>1, <1>2, <3>2, <3>3
    <3> QED BY <1>4, <2>1, <3>4
  <2> QED BY <1>3, <1>5, <2>1, Untouched
<1>6. CASE Forwards(f) /\ x \in Active
  <2>1. PICK m \in ToClient : m = InputCmd(f, c)
    BY <1>2, InputIsCommand
  <2>2. toC'[x] = Append(toC[x], m) /\ ~Yours(m) /\ ~IsAnswer(m) /\ m.t = "input"
    BY <1>1, <1>6, <2>1 DEF SendParts, InputCmd, Yours, IsAnswer
  <2>3. ASSUME NEW e \in States, NEW t \in States, e.mode # "none", Follows(x, e),
               t = Handle(x, e, m)
        PROVE  /\ AfterItsInput(x, e, m)'
               /\ t.mode # "none" /\ Follows(x, t)' /\ SamePlace(e, t)
    <3>1. Knows(x, e, c) /\ e.read[c] \in Nat
      BY <1>2, <2>3 DEF Follows, States, Fields
    <3>2. e.view[c] # {} /\ (e.read[c] >= read[c] \/ e.read[c] >= ServerRead)
      BY <1>2, <3>1 DEF Knows
    <3>3. f <= e.read[c]
      BY <1>1, <1>2, <1>6, <3>1, <3>2 DEF Forwards
    <3>4. InputRead(e, f, c, t)
      BY <1>2, <2>1, <2>3, <3>2, <3>3, ReadInput
    <3>5. c # 0 /\ 0 \in Peer /\ Client \subseteq Peer
      BY ServerIsPeer
    <3>6. /\ SamePlace(e, t) /\ t.view = e.view /\ t.server = e.server
          /\ \A q \in Peer : t.read[q] = IF q = c /\ ~(f < e.read[c]) THEN f + 1 ELSE e.read[q]
      BY <3>4, <3>5 DEF InputRead
    <3>7. t.read[c] >= f + 1 /\ t.read[0] = e.read[0]
          /\ \A p \in Client \ {x, c} : t.read[p] = e.read[p]
      BY <1>2, <3>1, <3>5, <3>6
    <3>8. t.mode = e.mode
      BY <3>6 DEF SamePlace
    <3>9. Follows(x, t)'
      BY <1>4, <2>3, <3>6, <3>7, <3>8
    <3> QED BY <2>2, <2>3, <3>6, <3>8, <3>9 DEF AfterItsInput
  <2> QED BY <1>3, <2>1, <2>2, <2>3, Appended
<1>7. (Forwards(f) /\ x \in Active) \/ (toC'[x] = toC[x] /\ (conn[x].active => ~Forwards(f)))
  BY <1>1 DEF SendParts, Active
<1> QED BY <1>5, <1>6, <1>7

LEMMA NewInputStep ==
  ASSUME IInv, Types', srv.phase = "poll", NEW c \in Client, conn[c].active, toS[c] # <<>>,
         Head(toS[c]).t = "input", NEW f \in Nat, f = Head(toS[c]).frame, NewInput(c, f)
  PROVE  IInv'
<1>1. Types /\ Roles /\ PeerInv(c) /\ Takes(c)
  BY TakenHead DEF IInv, NewInput
<1>2. /\ read'[c] = f + 1 /\ f = read[c] /\ \A y \in Client \ {c} : read'[y] = read[y]
      /\ Forwards(f) => SendParts(InputCmd(f, c), Active \ {c})
      /\ ~Forwards(f) => toC' = toC
      /\ \A y \in Client : Plays(y)' <=> Plays(y)
  BY <1>1, NewInputParts
<1>3. Plays(c) /\ \A x \in Client : read[x] \in Nat /\ read'[x] \in Nat /\ read'[x] >= read[x]
  <2>1. Plays(c) /\ \A x \in Client : read[x] \in Nat /\ read'[x] \in Nat
    BY <1>1, InputHead, ReadIsNat, ReadIsNatNext DEF PeerInv
  <2> QED BY <1>2, <2>1
<1>4. UNCHANGED <<srv, conn, devs, share, cl, hist>>
  BY DEF NewInput
<1>5. \A x \in Client : x # c => PeerInv(x)'
  BY <1>1, <1>3, NewInputOther DEF IInv
<1>6. PeerInv(c)'
  <2>1. PICK e \in States : e = Polled(c)
    BY <1>1, PolledIsState
  <2>2. toC'[c] = toC[c]
    BY <1>2 DEF SendParts
  <2>3. Polled(c)' = e /\ (Quiet(c)' <=> Quiet(c)) /\ (Answered(c)' <=> Answered(c))
    BY <1>4, <2>1, <2>2, SamePolled
  <2>4. Grows /\ cl'[c] = cl[c]
    BY <1>4 DEF Grows
  <2>5. Head(toS[c]).frame + 1 <= read'[c]
    BY <1>2
  <2>6. Talks(c)'
    BY <1>1, <1>2, <1>3, <1>4, <2>3, <2>5, InputTalks DEF PeerInv
  <2>7. Complete(c)'
    BY <1>1, <2>2, <2>4, CompleteKept DEF PeerInv
  <2>8. ASSUME e.mode # "none" PROVE Follows(c, e)' /\ Sends(c, e)'
    <3>1. Follows(c, e) /\ Sends(c, e)
      BY <1>1, <2>1, <2>8 DEF PeerInv
    <3>2. Sends(c, e)'
      BY <1>1, <1>2, <1>3, <2>4, <2>5, <3>1, InputSends
    <3>3. Follows(c, e)'
      BY <1>2, <1>4, <3>1 DEF Follows, Knows, Owed, ServerRead
    <3> QED BY <3>2, <3>3
  <2> QED BY <1>1, <1>4, <2>1, <2>3, <2>6, <2>7, <2>8 DEF PeerInv
<1>7. Roles'
  <2>1. \A x \in Client : x \notin Active => toC'[x] = toC[x]
    BY <1>2 DEF SendParts
  <2> QED BY <1>1, <1>3, <1>4, <2>1, InputRoles
<1>8. OnlyKnownNaks'
  BY <1>4 DEF IInv, OnlyKnownNaks
<1>9. StallCanEnd'
  <2>1. \A x \in Client : Late(x, 2)' => Late(x, 2)
    <3>1. srv.self \in Nat
      BY <1>1 DEF Types, Servers
    <3> QED BY <1>2, <1>3, <1>4, <3>1, SessionAssumption DEF Late
  <2>2. StalledOut' = StalledOut
    BY <1>2, <1>4 DEF StalledOut
  <2> QED BY <1>4, <2>1, <2>2 DEF IInv, StallCanEnd, NewStall
<1> QED BY <1>5, <1>6, <1>7, <1>8, <1>9 DEF IInv

(* Reading input keeps the invariant; an old one is read and forgotten. *)
LEMMA RecvInputStep ==
  ASSUME IInv, Types', srv.phase = "poll", NEW c \in Client, conn[c].active, toS[c] # <<>>,
         Head(toS[c]).t = "input", NEW f, f = Head(toS[c]).frame, RecvInput(c, f)
  PROVE  IInv'
<1>1. Plays(c) /\ f \in Nat /\ f <= read[c] /\ read[c] \in Nat
  BY InputHead, ReadIsNat DEF IInv, PeerInv
<1>2. ~(f > read[c])
  BY <1>1
<1>3. \/ /\ f < read[c] /\ toS' = [toS EXCEPT ![c] = Tail(@)]
         /\ UNCHANGED <<srv, conn, read, devs, share, cl, toC, hist>>
      \/ NewInput(c, f)
  BY <1>1, <1>2 DEF RecvInput, NewInput
<1> QED BY <1>1, <1>3, OldInputStep, NewInputStep

-----------------------------------------------------------------------------
(* The server reads that a player stops. *)

Watching(c) ==
  /\ conn' = [conn EXCEPT ![c].mode = "spectating", ![c].delay = read[c]]
  /\ devs' = [devs EXCEPT ![c] = {}]
  /\ toC' = SendTo(toC, {c}, ModeCmd(read[c], c, {}, TRUE))
  /\ toS' = [toS EXCEPT ![c] = Tail(@)]
  /\ hist' = [hist EXCEPT !.lost = IF read[c] > srv.self + 1 THEN @ \cup {c} ELSE @,
                          !.unblamed = @ \/ Unblamed({c})]
  /\ UNCHANGED <<srv, read, share, cl>>

(* c alone is told that it has stopped, in the frame the server waits for. *)
ToldToWatch(c) == toC'[c] = Append(toC[c], ModeCmd(read[c], c, {}, TRUE))

OnlyWatches(c) ==
         /\ conn'[c].mode = "spectating" /\ conn'[c].delay = read[c]
         /\ conn'[c].active = conn[c].active /\ ~Plays(c)' /\ devs'[c] = {}
         /\ \A x \in Client : x # c => /\ conn'[x] = conn[x] /\ devs'[x] = devs[x]
                                      /\ toC'[x] = toC[x] /\ (Plays(x)' <=> Plays(x))
         /\ devs'[0] = devs[0]
         /\ ToldToWatch(c)
         /\ hist'.waiting = hist.waiting /\ hist'.ignored = hist.ignored
         /\ hist'.impatient = hist.impatient /\ hist'.late = hist.late
         /\ hist'.untold = hist.untold /\ hist'.nak = hist.nak
         /\ hist.lost \subseteq hist'.lost /\ (read[c] > srv.self + 1 => c \in hist'.lost)
         /\ (hist'.unblamed <=> hist.unblamed \/ Unblamed({c}))

(* handle_play_spectate of SPECTATE, field by field. *)
LEMMA WatchingParts ==
  ASSUME Types, NEW c \in Client, Watching(c)
  PROVE  OnlyWatches(c)
<1>1. /\ conn \in [Client -> Conns] /\ hist \in Hists /\ devs \in [Peer -> SUBSET Devices]
      /\ 0 \in Peer /\ Client \subseteq Peer /\ 0 \notin Client
      /\ toC \in [Client -> Seq(ToClient)]
  BY ServerIsPeer DEF Types, Views
<1>2. /\ conn'[c].mode = "spectating" /\ conn'[c].delay = read[c]
      /\ conn'[c].active = conn[c].active
      /\ \A x \in Client : x # c => conn'[x] = conn[x]
  BY <1>1 DEF Watching, Conns
<1>3. devs'[c] = {} /\ devs'[0] = devs[0] /\ \A x \in Client : x # c => devs'[x] = devs[x]
  BY <1>1 DEF Watching
<1>4. /\ \A x \in Client : x # c => toC'[x] = toC[x]
      /\ ToldToWatch(c)
  BY <1>1 DEF Watching, SendTo, ToldToWatch
<1>5. /\ hist'.waiting = hist.waiting /\ hist'.ignored = hist.ignored
      /\ hist'.impatient = hist.impatient /\ hist'.late = hist.late
      /\ hist'.untold = hist.untold /\ hist'.nak = hist.nak
      /\ hist.lost \subseteq hist'.lost /\ (read[c] > srv.self + 1 => c \in hist'.lost)
      /\ (hist'.unblamed <=> hist.unblamed \/ Unblamed({c}))
  BY <1>1 DEF Watching, Hists
<1>6. ~Plays(c)' /\ \A x \in Client : x # c => (Plays(x)' <=> Plays(x))
  BY <1>2 DEF Plays
<1> QED BY <1>2, <1>3, <1>4, <1>5, <1>6 DEF OnlyWatches

LEMMA WatchingTalks ==
  ASSUME Types, Types', Roles, NEW c \in Client, toS[c] # <<>>, Head(toS[c]).t = "spectate",
         Takes(c), cl'[c] = cl[c], ~Plays(c)', hist'.waiting = hist.waiting,
         hist'.impatient = hist.impatient, hist'.ignored = hist.ignored,
         Answered(c)' <=> Answered(c), Talks(c)
  PROVE  Talks(c)' /\ cl[c].mode \notin {"playing", "pre_sync"}
<1>1. PICK q, p : q \in Seq(ToServer) /\ q = toS[c] /\ p = Tail(q) /\ toS'[c] = p /\ q # <<>>
  BY PolledIsState DEF Takes
<1>2. /\ p \in Seq(ToServer) /\ Len(p) = Len(q) - 1 /\ Len(q) \in Nat \ {0} /\ Head(q) = q[1]
      /\ \A i \in 1..Len(p) : i + 1 \in 1..Len(q) /\ p[i] = q[i + 1]
      /\ \A i \in 1..Len(q) : i > 1 => i - 1 \in 1..Len(p) /\ q[i] = p[i - 1]
  BY <1>1, TailParts
<1>3. 1 \in 1..Len(q) /\ q[1].t = "spectate" /\ Has(q, "spectate")
  BY <1>1, <1>2 DEF Has
<1>4. ASSUME NEW i \in 1..Len(p) PROVE p[i].t \notin {"input", "spectate"}
  <2>1. i + 1 \in 1..Len(q) /\ p[i] = q[i + 1] /\ 1 < i + 1
    BY <1>2
  <2>2. \A k \in 1..Len(q) : q[k].t \in {"input", "spectate"} =>
          \A j \in 1..Len(q) : j < k => q[j].t # "spectate"
    BY <1>1 DEF Talks, Piped
  <2> QED BY <1>3, <2>1, <2>2
<1>5. Piped(c)'
  BY <1>1, <1>4 DEF Piped, InTurn
<1>6. cl[c].mode \notin {"playing", "pre_sync"}
  BY <1>1, <1>3 DEF Talks, Modes
<1>7. Modes(c)'
  BY <1>6 DEF Talks, Modes
<1>8. Requests(c)'
  <2>1. Has(q, "play") => Has(p, "play")
    BY <1>1, <1>3, <1>2, HasTail
  <2> QED BY <1>1, <2>1 DEF Talks, Requests, Connected
<1>9. Patient(c)'
  <2> SUFFICES ASSUME c \notin hist.impatient PROVE Patient(c)'
    BY DEF Patient
  <2>1. /\ \A i \in 1..Len(q) : q[i].t = "play" =>
             /\ \A j \in 1..Len(q) : q[j].t = "play" => i = j
             /\ ~Answered(c)
             /\ Connected(c) => c \in hist.waiting
        /\ Connected(c) /\ Answered(c) => c \in hist.waiting
    BY <1>1 DEF Talks, Patient
  <2>2. ASSUME NEW i \in 1..Len(p), p[i].t = "play"
        PROVE  /\ \A j \in 1..Len(p) : p[j].t = "play" => i = j
               /\ ~Answered(c)
               /\ Connected(c) => c \in hist.waiting
    <3>1. i + 1 \in 1..Len(q) /\ q[i + 1].t = "play"
      BY <1>2, <2>2
    <3>3. ASSUME NEW j \in 1..Len(p), p[j].t = "play" PROVE i = j
      <4>1. j + 1 \in 1..Len(q) /\ q[j + 1].t = "play"
        BY <1>2, <3>3
      <4>2. i + 1 = j + 1
        BY <2>1, <3>1, <4>1
      <4> QED BY <4>2
    <3> QED BY <2>1, <3>1, <3>3
  <2>3. Connected(c)' <=> Connected(c)
    BY DEF Connected
  <2>4. hist'.waiting = hist.waiting /\ toS'[c] = p
    BY <1>1
  <2>5. Connected(c)' /\ Answered(c)' => c \in hist'.waiting
    BY <2>1, <2>3, <2>4
  <2>6. \A i \in 1..Len(toS'[c]) : toS'[c][i].t = "play" =>
             /\ Plays(c)' => \E j \in 1..Len(toS'[c]) : j < i /\ toS'[c][j].t = "spectate"
             /\ \A j \in 1..Len(toS'[c]) : toS'[c][j].t = "play" => i = j
             /\ ~Answered(c)'
             /\ Connected(c)' => c \in hist'.waiting
    BY <2>2, <2>3, <2>4
  <2> QED BY <2>5, <2>6 DEF Patient
<1> QED BY <1>5, <1>6, <1>7, <1>8, <1>9 DEF Talks

(* The others are owed the departure, after the input the server has. *)
LEMMA WatchingOther ==
  ASSUME Types, Types', Roles, srv.phase = "poll", NEW c \in Client, conn[c].active, Plays(c),
         Watching(c), Takes(c), NEW x \in Client, x # c, PeerInv(x)
  PROVE  PeerInv(x)'
<1>0. OnlyWatches(c)
  BY WatchingParts
<1>1. /\ conn'[c].mode = "spectating" /\ conn'[c].delay = read[c]
      /\ conn'[c].active = conn[c].active /\ devs'[c] = {}
      /\ \A y \in Client : y # c => /\ conn'[y] = conn[y] /\ devs'[y] = devs[y]
                                   /\ toC'[y] = toC[y] /\ (Plays(y)' <=> Plays(y))
      /\ devs'[0] = devs[0]
      /\ hist'.waiting = hist.waiting /\ hist'.ignored = hist.ignored
      /\ hist'.impatient = hist.impatient /\ hist'.late = hist.late /\ hist'.untold = hist.untold
      /\ hist.lost \subseteq hist'.lost /\ (read[c] > srv.self + 1 => c \in hist'.lost)
  BY <1>0 DEF OnlyWatches
<1>2. /\ srv.self \in Nat /\ ServerRead = srv.self + 1 /\ ServerRead' = ServerRead
      /\ devs[c] # {} /\ read[c] >= 1 /\ read[c] \in Nat /\ read[x] \in Nat /\ c \in Peer
      /\ UNCHANGED <<read, cl>>
  BY ServerIsPeer, ReadIsNat DEF Types, Servers, ServerRead, Watching, Roles, Role
<1>3. SamePipes(x) /\ Kept(x) /\ Grows
  BY <1>1, <1>2 DEF SamePipes, Kept, Grows, Takes
<1>4. ASSUME NEW e \in States, Follows(x, e) PROVE Follows(x, e)'
  <2>1. Knows(x, e, c) /\ \A p \in Client \ {x} : Knows(x, e, p)
    BY <1>4 DEF Follows
  <2>2. Owed(c)'
    BY <1>1, <1>2 DEF Owed
  <2>3. e.read[c] \in Nat /\ (e.read[c] >= read[c] \/ e.read[c] >= ServerRead)
    BY <1>2, <2>1 DEF Knows, States, Fields
  <2>4. e.read[c] >= read[c] \/ c \in hist'.lost
    BY <1>1, <1>2, <2>3
  <2>5. Knows(x, e, c)'
    BY <1>1, <2>2, <2>4 DEF Knows
  <2>6. ASSUME NEW p \in Client \ {x, c} PROVE Knows(x, e, p)'
    BY <1>1, <1>2, <2>1 DEF Knows, Owed
  <2> QED BY <1>1, <1>2, <1>4, <2>5, <2>6 DEF Follows
<1> QED BY <1>1, <1>3, <1>4, Untouched

(* The client itself is told at once. *)
LEMMA WatchingSelf ==
  ASSUME Types, Types', Roles, srv.phase = "poll", NEW c \in Client, conn[c].active, toS[c] # <<>>,
         Head(toS[c]).t = "spectate", Watching(c), Takes(c), PeerInv(c)
  PROVE  PeerInv(c)'
<1>0. OnlyWatches(c)
  BY WatchingParts
<1>1. /\ ~Plays(c)' /\ devs'[c] = {} /\ devs'[0] = devs[0]
      /\ \A x \in Client : x # c => conn'[x] = conn[x] /\ devs'[x] = devs[x]
      /\ ToldToWatch(c)
      /\ hist'.waiting = hist.waiting /\ hist'.ignored = hist.ignored
      /\ hist'.impatient = hist.impatient /\ hist'.late = hist.late
      /\ hist'.untold = hist.untold /\ hist.lost \subseteq hist'.lost
  BY <1>0 DEF OnlyWatches
<1>2. UNCHANGED <<srv, read, cl>> /\ ServerRead' = ServerRead /\ read[c] \in Nat /\ c \in Peer
      /\ 0 \in Peer /\ Client \subseteq Peer /\ c # 0
  BY ReadIsNat, ServerIsPeer DEF Watching, ServerRead
<1>3. PICK you \in BOOLEAN : you = TRUE
  OBVIOUS
<1>4. PICK m \in ToClient : m = ModeCmd(read[c], c, {}, you)
  BY <1>2, ModeIsCommand
<1>5. toC'[c] = Append(toC[c], m) /\ ~IsAnswer(m) /\ m.t = "mode" /\ m.you
  BY <1>1, <1>3, <1>4 DEF IsAnswer, ModeCmd, ToldToWatch
<1>6. PICK e \in States : e = Polled(c)
  BY PolledIsState
<1>7. PICK t \in States : t = Handle(c, e, m)
  BY HandleIsState
<1>8. /\ Polled(c)' = t /\ (Answered(c)' <=> Answered(c))
      /\ Complete(c) /\ Grows /\ (\A u \in States : u = Polled(c) => AfterItsInput(c, u, m)')
              => Complete(c)'
  BY <1>2, <1>5, <1>6, <1>7, ReadsAppended
<1>9. Talks(c)' /\ cl[c].mode \notin {"playing", "pre_sync"}
  BY <1>1, <1>2, <1>8, WatchingTalks DEF PeerInv
<1>10. Complete(c)'
  <2>1. Grows
    BY <1>1 DEF Grows
  <2>2. \A u : AfterItsInput(c, u, m)'
    BY <1>5 DEF AfterItsInput
  <2> QED BY <1>8, <2>1, <2>2 DEF PeerInv
<1>11. CASE e.mode = "none"
  <2>1. t.mode = "none"
    BY <1>7, <1>11 DEF Handle
  <2>2. cl'[c].mode # "none" /\ ~hist'.late => FALSE
    BY <1>1, <1>2, <1>6, <1>11 DEF PeerInv
  <2> QED BY <1>8, <1>9, <1>10, <2>1, <2>2 DEF PeerInv
<1>12. CASE e.mode # "none"
  <2>1. Follows(c, e) /\ Sends(c, e)
    BY <1>6, <1>12 DEF PeerInv
  <2>2. PICK q \in Seq(ToServer) : q = toS[c] /\ q # <<>>
    BY PolledIsState
  <2>3. Has(q, "spectate") /\ toS'[c] = Tail(q)
    <3>1. 1 \in 1..Len(q) /\ q[1] = Head(q)
      BY <2>2, TailParts
    <3> QED BY <2>2, <3>1 DEF Has, Takes
  <2>4. e.mode = "spectating" /\ ~Has(e.out, "input")
    BY <2>1, <2>2, <2>3 DEF Follows, Sends
  <2>5. Departs(e, c, t)
    BY <1>2, <1>4, <1>7, <2>4, ReadDeparture
  <2>6. /\ SamePlace(e, t) /\ t.server = e.server
        /\ \A p \in Peer : /\ t.view[p] = (IF p = c THEN {} ELSE e.view[p])
                           /\ t.read[p] = (IF p = c THEN 0 ELSE e.read[p])
    BY <2>5 DEF Departs
  <2>7. t.mode = "spectating" /\ t.out = e.out
    BY <2>4, <2>6 DEF SamePlace
  <2>8. Follows(c, t)'
    <3>1. ASSUME NEW p \in Client \ {c} PROVE Knows(c, t, p)'
      <4>1. p \in Peer /\ p # c /\ p \in Client /\ Knows(c, e, p)
        BY <1>2, <2>1 DEF Follows
      <4>2. t.view[p] = e.view[p] /\ t.read[p] = e.read[p]
        BY <2>6, <4>1
      <4>3. conn'[p] = conn[p] /\ devs'[p] = devs[p] /\ read'[p] = read[p] /\ Grows
        BY <1>1, <1>2, <4>1 DEF Grows
      <4> QED BY <1>1, <1>2, <4>1, <4>2, <4>3, SameKnows
    <3>2. /\ t.server = ServerRead' /\ t.view[0] = devs'[0] /\ t.view[c] = devs'[c]
          /\ (devs'[0] # {} => t.read[0] = ServerRead')
      BY <1>1, <1>2, <2>1, <2>6 DEF Follows
    <3> QED BY <2>7, <3>1, <3>2 DEF Follows
  <2>9. Sends(c, t)'
    <3>1. \A i \in 1..Len(t.out) : t.out[i].t # "input"
      BY <2>4, <2>7 DEF Has
    <3>2. InTurn(t.out, read'[c])
      BY <3>1 DEF InTurn
    <3>3. cl'[c].mode # "pre_sync" => \A i \in 1..Len(t.out) : t.out[i].t = "input"
      BY <1>2, <2>1, <2>7 DEF Sends
    <3>4. cl'[c].mode \notin {"playing", "pre_sync"} /\ ~Has(t.out, "input")
      BY <1>2, <1>9, <2>4, <2>7
    <3> QED BY <1>1, <2>7, <3>2, <3>3, <3>4 DEF Sends
  <2> QED BY <1>8, <1>9, <1>10, <2>7, <2>8, <2>9 DEF PeerInv
<1> QED BY <1>11, <1>12

LEMMA WatchingRoles ==
  ASSUME Types, Roles, NEW c \in Client, conn[c].active, Watching(c), Takes(c)
  PROVE  Roles'
<1>0. OnlyWatches(c)
  BY WatchingParts
<1>1. /\ conn'[c].mode = "spectating" /\ conn'[c].active = conn[c].active /\ ~Plays(c)' /\ devs'[c] = {}
      /\ \A x \in Client : x # c => /\ conn'[x] = conn[x] /\ devs'[x] = devs[x]
                                   /\ toC'[x] = toC[x] /\ (Plays(x)' <=> Plays(x))
      /\ devs'[0] = devs[0]
  BY <1>0 DEF OnlyWatches
<1>2. UNCHANGED <<srv, read, cl>>
  BY DEF Watching
<1>3. ASSUME NEW x \in Client PROVE Role(x)'
  <2>1. Role(x) /\ conn[x].active \in BOOLEAN
    BY DEF Roles, Types, Conns
  <2>2. CASE x = c
    BY <1>1, <1>2, <2>1, <2>2 DEF Role
  <2>3. CASE x # c
    BY <1>1, <1>2, <2>1, <2>3 DEF Role, Takes
  <2> QED BY <2>2, <2>3
<1> QED BY <1>1, <1>2, <1>3 DEF Roles

(* Reading SPECTATE keeps the invariant, and is never a NAK. *)
LEMMA RecvSpectateStep ==
  ASSUME IInv, Types', srv.phase = "poll", NEW c \in Client, conn[c].active, toS[c] # <<>>,
         Head(toS[c]).t = "spectate", RecvSpectate(c)
  PROVE  IInv'
<1>1. Types /\ Roles /\ StallCanEnd /\ OnlyKnownNaks
  BY DEF IInv
<1>2. Plays(c)
  <2>1. PICK q \in Seq(ToServer) : q = toS[c] /\ q # <<>>
    BY <1>1, PolledIsState
  <2>2. 1 \in 1..Len(q) /\ Head(q) = q[1]
    BY <2>1, TailParts
  <2> QED BY <2>1, <2>2 DEF IInv, PeerInv, Talks, Piped
<1>3. Watching(c)
  BY <1>2 DEF RecvSpectate, Watching
<1>4. Takes(c)
  BY <1>1, <1>3, TakenHead DEF Watching
<1>5. /\ ~Plays(c)' /\ \A x \in Client : x # c => conn'[x] = conn[x] /\ (Plays(x)' <=> Plays(x))
      /\ hist'.nak = hist.nak /\ hist'.late = hist.late /\ hist'.impatient = hist.impatient
      /\ (hist'.unblamed <=> hist.unblamed \/ Unblamed({c}))
  BY <1>1, <1>3, WatchingParts DEF OnlyWatches
<1>6. Roles'
  BY <1>1, <1>3, <1>4, WatchingRoles
<1>7. \A x \in Client : PeerInv(x)'
  BY <1>1, <1>2, <1>3, <1>4, WatchingOther, WatchingSelf DEF IInv
<1>8. OnlyKnownNaks'
  BY <1>1, <1>5 DEF OnlyKnownNaks
<1>9. StallCanEnd'
  <2> SUFFICES ASSUME srv.stall, NewStall', StalledOut' = {} PROVE hist'.unblamed
    BY <1>3 DEF StallCanEnd, Watching
  <2>1. UNCHANGED <<srv, read>>
    BY <1>3 DEF Watching
  <2>2. PICK y \in Client : Late(y, 2)'
    BY <2>1 DEF NewStall
  <2>3. y # c /\ Late(y, 2)
    BY <1>5, <2>1, <2>2 DEF Late
  <2>4. NewStall
    BY <2>3 DEF NewStall
  <2>5. ~conn[y].stall
    BY <1>1, <1>5, <2>3 DEF StalledOut, Roles, Role, Late
  <2>6. CASE StalledOut # {}
    <3>1. PICK z \in Client : conn[z].active /\ Plays(z) /\ conn[z].stall
      BY <2>6 DEF StalledOut
    <3>2. z = c
      BY <1>5, <3>1 DEF StalledOut
    <3>3. Unblamed({c})
      BY <2>3, <2>5, <3>1, <3>2 DEF Unblamed
    <3> QED BY <1>5, <3>3
  <2> QED BY <1>1, <1>5, <2>4, <2>6 DEF StallCanEnd
<1> QED BY <1>6, <1>7, <1>8, <1>9 DEF IInv

-----------------------------------------------------------------------------
(* The server answers a request to play. *)

(* The request is the only one on the way, unless the client is impatient. *)
LEMMA AnsweredTalks ==
  ASSUME Types, Types', NEW c \in Client, toS[c] # <<>>, Head(toS[c]).t = "play", Takes(c),
         cl'[c] = cl[c], hist'.waiting = hist.waiting, hist'.impatient = hist.impatient,
         hist.ignored \subseteq hist'.ignored, Plays(c) => Plays(c)' /\ read'[c] >= read[c],
         Plays(c)' => Plays(c) \/ Answered(c)', Answered(c) => Answered(c)',
         Answered(c)' \/ c \in hist'.ignored, Plays(c) /\ Quiet(c) => Quiet(c)', Talks(c)
  PROVE  Talks(c)'
<1>1. PICK q, p : q \in Seq(ToServer) /\ q = toS[c] /\ p = Tail(q) /\ toS'[c] = p /\ q # <<>>
  BY PolledIsState DEF Takes
<1>2. /\ p \in Seq(ToServer) /\ Len(p) = Len(q) - 1 /\ Len(q) \in Nat \ {0} /\ Head(q) = q[1]
      /\ \A i \in 1..Len(p) : i + 1 \in 1..Len(q) /\ p[i] = q[i + 1]
      /\ \A i \in 1..Len(q) : i > 1 => i - 1 \in 1..Len(p) /\ q[i] = p[i - 1]
  BY <1>1, TailParts
<1>3. 1 \in 1..Len(q) /\ q[1].t = "play" /\ Head(q).t = "play"
  BY <1>1, <1>2
<1>4. Piped(c)'
  <2>1. /\ InTurn(q, read[c])
        /\ \A i \in 1..Len(q) : q[i].t \in {"input", "spectate"} =>
             Plays(c) /\ \A j \in 1..Len(q) : j < i => q[j].t # "spectate"
    BY <1>1 DEF Talks, Piped
  <2>2. ASSUME NEW i \in 1..Len(p), p[i].t \in {"input", "spectate"}
        PROVE  Plays(c) /\ \A j \in 1..Len(p) : j < i => p[j].t # "spectate"
    <3>1. i + 1 \in 1..Len(q) /\ q[i + 1].t \in {"input", "spectate"}
      BY <1>2, <2>2
    <3>2. ASSUME NEW j \in 1..Len(p), j < i PROVE p[j].t # "spectate"
      <4>1. j + 1 \in 1..Len(q) /\ j + 1 < i + 1 /\ p[j] = q[j + 1]
        BY <1>2, <3>2
      <4> QED BY <2>1, <3>1, <4>1
    <3> QED BY <2>1, <3>1, <3>2
  <2>3. CASE Plays(c)
    <3>1. read[c] \in Nat /\ read'[c] \in Nat /\ read[c] <= read'[c]
      <4>1. read[c] \in Nat /\ read'[c] \in Nat
        BY ReadIsNat, ReadIsNatNext
      <4> QED BY <2>3, <4>1
    <3>2. InTurn(p, read'[c])
      BY <1>1, <1>3, <2>1, <3>1, InTurnTail
    <3> QED BY <1>1, <2>2, <2>3, <3>2 DEF Piped
  <2>4. CASE ~Plays(c)
    <3>1. \A i \in 1..Len(p) : p[i].t \notin {"input", "spectate"}
      BY <2>2, <2>4
    <3> QED BY <1>1, <3>1 DEF Piped, InTurn
  <2> QED BY <2>3, <2>4
<1>5. Has(p, "spectate") <=> Has(q, "spectate")
  BY <1>1, <1>3, HasTail
<1>6. Modes(c)'
  <2>1. cl[c].mode # "pre_sync"
    BY <1>1 DEF Talks, Modes
  <2>2. cl[c].mode = "playing" => Plays(c)' /\ ~Has(p, "spectate") /\ Quiet(c)'
    BY <1>1, <1>5 DEF Talks, Modes
  <2>3. cl[c].mode = "spectating" /\ Plays(c)' => Has(p, "spectate") \/ Answered(c)'
    BY <1>1, <1>5 DEF Talks, Modes
  <2> QED BY <1>1, <2>1, <2>2, <2>3 DEF Talks, Modes
<1>7. Requests(c)'
  BY DEF Talks, Requests, Connected
<1>8. Patient(c)'
  <2> SUFFICES ASSUME c \notin hist.impatient PROVE Patient(c)'
    BY DEF Patient
  <2>1. \A i \in 1..Len(q) : q[i].t = "play" =>
             /\ \A j \in 1..Len(q) : q[j].t = "play" => i = j
             /\ Connected(c) => c \in hist.waiting
    BY <1>1 DEF Talks, Patient
  <2>2. ASSUME NEW i \in 1..Len(p) PROVE p[i].t # "play"
    <3>1. i + 1 \in 1..Len(q) /\ p[i] = q[i + 1] /\ i + 1 # 1
      BY <1>2
    <3> QED BY <1>3, <2>1, <3>1
  <2>3. Connected(c)' => c \in hist'.waiting
    BY <1>3, <2>1 DEF Connected
  <2> QED BY <1>1, <2>2, <2>3 DEF Patient
<1> QED BY <1>4, <1>6, <1>7, <1>8 DEF Talks

(* The request is refused, or forgotten.                                   *)
Unmoved(c) ==
  /\ UNCHANGED <<srv, conn, devs, cl>>
  /\ \A x \in Client \ {c} : read'[x] = read[x] /\ toC'[x] = toC[x]
  /\ Plays(c) => read'[c] = read[c]
  /\ hist'.waiting = hist.waiting /\ hist'.impatient = hist.impatient
  /\ hist'.lost = hist.lost /\ hist'.untold = hist.untold /\ hist'.late = hist.late
  /\ hist'.nak = hist.nak /\ hist'.unblamed = hist.unblamed
  /\ hist.ignored \subseteq hist'.ignored
  /\ \A x \in Client \ {c} : x \in hist'.ignored <=> x \in hist.ignored
  /\ \/ toC'[c] = Append(toC[c], [t |-> "refused"])
     \/ toC'[c] = toC[c] /\ c \in hist'.ignored

(* A request that is refused, or is ignored, moves nobody. *)
LEMMA UnmovedFollows ==
  ASSUME Roles, NEW c \in Client, Unmoved(c), NEW x \in Client, NEW e, Follows(x, e)
  PROVE  Follows(x, e)'
<1>1. UNCHANGED <<srv, conn, devs>> /\ hist'.lost = hist.lost /\ hist'.untold = hist.untold
      /\ ServerRead' = ServerRead
  BY DEF Unmoved, ServerRead
<1>2. \A p \in Client : devs[p] # {} => read'[p] = read[p]
  BY DEF Unmoved, Roles, Role
<1>3. ASSUME NEW p \in Client \ {x} PROVE Knows(x, e, p)'
  <2>1. Knows(x, e, p)
    BY DEF Follows
  <2> QED BY <1>1, <1>2, <2>1 DEF Knows, Owed
<1> QED BY <1>1, <1>3 DEF Follows

LEMMA UnmovedOther ==
  ASSUME Types, Types', Roles, NEW c \in Client, Unmoved(c), Takes(c), NEW x \in Client, x # c,
         PeerInv(x)
  PROVE  PeerInv(x)'
<1>1. SamePipes(x) /\ toC'[x] = toC[x] /\ Kept(x) /\ Grows
  <2>1. read[x] \in Nat
    BY ReadIsNat
  <2> QED BY <2>1 DEF Unmoved, SamePipes, Takes, Kept, Grows, Plays
<1> QED BY <1>1, UnmovedFollows, Untouched

LEMMA UnmovedSends ==
  ASSUME Types, Types', NEW c \in Client, Unmoved(c), Takes(c), toS[c] # <<>>,
         Head(toS[c]).t = "play", NEW e \in States, Sends(c, e)
  PROVE  Sends(c, e)'
<1>1. cl'[c] = cl[c] /\ (Plays(c)' <=> Plays(c)) /\ (Plays(c) => read'[c] = read[c])
  BY DEF Unmoved, Plays
<1>2. CASE Plays(c)
  <2>1. read'[c] >= read[c]
    BY <1>1, <1>2, ReadIsNat
  <2> QED BY <1>1, <2>1, InputSends
<1>3. CASE ~Plays(c)
  <2>1. e.mode # "playing" /\ ~Has(e.out, "input")
    BY <1>3 DEF Sends
  <2>2. InTurn(e.out, read'[c])
    BY <2>1 DEF InTurn, Has
  <2> QED BY <1>1, <1>3, <2>1, <2>2 DEF Sends
<1> QED BY <1>2, <1>3

(* The client has its answer on the way, or is ignored. *)
LEMMA UnmovedSelf ==
  ASSUME Types, Types', Roles, NEW c \in Client, Unmoved(c), Takes(c), toS[c] # <<>>,
         Head(toS[c]).t = "play", PeerInv(c)
  PROVE  PeerInv(c)'
<1>1. PICK e \in States : e = Polled(c)
  BY PolledIsState
<1>2. cl'[c] = cl[c] /\ Grows /\ (Plays(c)' <=> Plays(c))
  BY DEF Unmoved, Grows, Plays
<1>3. /\ Polled(c)' = e /\ (Quiet(c)' <=> Quiet(c)) /\ (Answered(c) => Answered(c)')
      /\ Answered(c)' \/ c \in hist'.ignored
      /\ Complete(c)'
  <2>1. CASE toC'[c] = Append(toC[c], [t |-> "refused"])
    <3>1. PICK m \in ToClient : m = [t |-> "refused"]
      BY RefusalIsCommand
    <3>2. ~Yours(m) /\ IsAnswer(m) /\ \A u : AfterItsInput(c, u, m)'
      BY <3>1 DEF Yours, IsAnswer, AfterItsInput
    <3>3. Handle(c, e, m) = e
      BY <3>1, ReadRefusal
    <3> QED BY <1>1, <1>2, <2>1, <3>1, <3>2, <3>3, ReadsAppended DEF PeerInv
  <2>2. CASE toC'[c] = toC[c] /\ c \in hist'.ignored
    BY <1>1, <1>2, <2>2, SamePolled, CompleteKept DEF PeerInv
  <2> QED BY <2>1, <2>2 DEF Unmoved
<1>4. Talks(c)'
  <2>1. Plays(c) => read'[c] >= read[c]
    BY ReadIsNat DEF Unmoved
  <2> QED BY <1>2, <1>3, <2>1, AnsweredTalks DEF Unmoved, PeerInv
<1>5. e.mode # "none" => Follows(c, e)' /\ Sends(c, e)'
  BY <1>1, UnmovedFollows, UnmovedSends DEF PeerInv
<1>6. cl'[c].mode # "none" /\ ~hist'.late => e.mode # "none"
  BY <1>1 DEF Unmoved, PeerInv
<1> QED BY <1>3, <1>4, <1>5, <1>6 DEF PeerInv

LEMMA UnmovedStep ==
  ASSUME IInv, Types', NEW c \in Client, conn[c].active, Unmoved(c), Takes(c), toS[c] # <<>>,
         Head(toS[c]).t = "play"
  PROVE  IInv'
<1>1. Types /\ Roles /\ OnlyKnownNaks /\ StallCanEnd
  BY DEF IInv
<1>2. \A x \in Client : PeerInv(x)'
  BY <1>1, UnmovedOther, UnmovedSelf DEF IInv
<1>3. UNCHANGED <<srv, conn, devs, cl>> /\ (\A x \in Client : Plays(x)' <=> Plays(x))
      /\ \A x \in Client : Plays(x) => read'[x] = read[x]
  BY DEF Unmoved, Plays
<1>4. Roles'
  <2>1. ASSUME NEW x \in Client PROVE Role(x)'
    <3>1. Role(x) /\ (~conn[x].active => toS'[x] = toS[x] /\ toC'[x] = toC[x])
      BY <1>1 DEF Roles, Unmoved, Takes
    <3> QED BY <1>3, <3>1 DEF Role
  <2> QED BY <1>1, <1>3, <2>1 DEF Roles
<1>5. OnlyKnownNaks'
  BY <1>1 DEF OnlyKnownNaks, Unmoved
<1>6. StallCanEnd'
  <2>1. \A x \in Client : Late(x, 2)' <=> Late(x, 2)
    BY <1>3 DEF Late
  <2>2. StalledOut' = StalledOut
    BY <1>3 DEF StalledOut
  <2> QED BY <1>1, <1>3, <2>1, <2>2 DEF StallCanEnd, NewStall, Unmoved
<1> QED BY <1>2, <1>4, <1>5, <1>6 DEF IInv

-----------------------------------------------------------------------------
(* The request is granted. *)

Granting(c, r) ==
  /\ conn[c].delay = 0 /\ c \in CanPlay /\ ~Plays(c)
  /\ read' = [read EXCEPT ![c] = Start]
  /\ toS' = [toS EXCEPT ![c] = Tail(@)]
  /\ Granted(r) /\ Grant(c, r)
  /\ conn' = [conn EXCEPT ![c].mode = "playing"]
  /\ toC' = [x \in Client |-> IF x \in Active
               THEN Append(toC[x], ModeCmd(Start, c, Devs(r), x = c)) ELSE toC[x]]
  /\ UNCHANGED hist /\ UNCHANGED <<srv, cl>>

Told(m, c, ds) == m = ModeCmd(srv.self + 1, c, ds, TRUE)

(* Player c is given ds.                                                   *)
Given(c, ds) ==
  /\ ds \in SUBSET Devices /\ ds # {} /\ c \in CanPlay /\ ~Plays(c)
  /\ devs'[c] = ds /\ \A p \in Peer \ {c} : devs'[p] = devs[p]
  /\ conn'[c].mode = "playing" /\ conn'[c].active = conn[c].active
  /\ conn'[c].delay = 0 /\ conn[c].delay = 0
  /\ \A x \in Client \ {c} : conn'[x] = conn[x] /\ read'[x] = read[x] /\ (Plays(x)' <=> Plays(x))
  /\ read'[c] = srv.self + 1 /\ Plays(c)'
  /\ \A x \in Client \ {c} : \/ ~conn[x].active /\ toC'[x] = toC[x]
                             \/ conn[x].active /\ \E m : OtherMode(m, srv.self + 1, c, ds) /\
                                                         toC'[x] = Append(toC[x], m)
  /\ conn[c].active => \E m : Told(m, c, ds) /\ toC'[c] = Append(toC[c], m)
  /\ UNCHANGED <<hist, srv, cl>>

(* A grant: c has its devices, and all are told the frame it plays from. *)
LEMMA GrantingGives ==
  ASSUME Types, NEW c \in Client, NEW r \in Requested, Granting(c, r)
  PROVE  Given(c, Devs(r))
<1>1. PICK ds \in SUBSET Devices : ds = Devs(r) /\ ds # {}
  BY DevsGiven DEF Granting
<1>2. /\ devs'[c] = ds /\ \A p \in Peer \ {c} : devs'[p] = devs[p]
  BY <1>1, GrantTypes, ServerIsPeer DEF Granting, Types
<1>3. conn \in [Client -> Conns] /\ read \in [Client -> Nat]
  BY DEF Types
<1>4. /\ conn'[c].mode = "playing" /\ conn'[c].active = conn[c].active
      /\ conn'[c].delay = 0 /\ conn[c].delay = 0
      /\ \A x \in Client \ {c} : conn'[x] = conn[x]
  BY <1>3 DEF Granting, Conns
<1>5. Plays(c)' /\ \A x \in Client \ {c} : Plays(x)' <=> Plays(x)
  BY <1>4 DEF Plays
<1>6. read'[c] = srv.self + 1 /\ \A x \in Client \ {c} : read'[x] = read[x]
  BY <1>3 DEF Granting, Start
<1>7. ASSUME NEW x \in Client \ {c}
      PROVE  \/ ~conn[x].active /\ toC'[x] = toC[x]
             \/ conn[x].active /\ \E m : OtherMode(m, srv.self + 1, c, ds) /\
                                         toC'[x] = Append(toC[x], m)
  <2>1. (x = c) = FALSE
    OBVIOUS
  <2>2. PICK you : you = (x = c)
    OBVIOUS
  <2>3. conn[x].active => toC'[x] = Append(toC[x], ModeCmd(srv.self + 1, c, ds, you))
    BY <1>1, <2>2, Zenon DEF Granting, Active, Start
  <2>4. you = FALSE
    BY <2>1, <2>2
  <2>5. ~conn[x].active => toC'[x] = toC[x]
    BY DEF Granting, Active
  <2> QED BY <2>3, <2>4, <2>5 DEF OtherMode
<1>8. conn[c].active => \E m : Told(m, c, ds) /\ toC'[c] = Append(toC[c], m)
  <2>1. PICK you : you = (c = c)
    OBVIOUS
  <2>2. conn[c].active => toC'[c] = Append(toC[c], ModeCmd(srv.self + 1, c, ds, you))
    BY <1>1, <2>1, Zenon DEF Granting, Active, Start
  <2>3. you = TRUE
    BY <2>1
  <2> QED BY <2>2, <2>3 DEF Told
<1>9. UNCHANGED <<hist, srv, cl>> /\ c \in CanPlay /\ ~Plays(c)
  BY DEF Granting
<1> QED BY <1>1, <1>2, <1>4, <1>5, <1>6, <1>7, <1>8, <1>9 DEF Given

(* The others take up c as a player that is read up to that frame. *)
LEMMA GivenOther ==
  ASSUME Types, Types', Roles, srv.phase = "poll", NEW c \in Client, NEW ds, Given(c, ds), Takes(c),
         NEW x \in Client, x # c, PeerInv(x)
  PROVE  PeerInv(x)'
<1>1. /\ srv.self \in Nat /\ srv.self + 1 \in Nat /\ ServerRead = srv.self + 1
      /\ ServerRead' = ServerRead /\ read[x] \in Nat
      /\ 0 \in Peer /\ c \in Peer /\ c # 0 /\ x \in Peer /\ Client \subseteq Peer
      /\ conn[x].active \in BOOLEAN
  <2>1. srv.self \in Nat /\ srv.self + 1 \in Nat /\ srv' = srv
    BY DEF Types, Servers, Given
  <2>2. ServerRead = srv.self + 1 /\ ServerRead' = ServerRead
    BY <2>1 DEF ServerRead
  <2>3. conn[x].active \in BOOLEAN
    BY DEF Types, Conns
  <2> QED BY <2>1, <2>2, <2>3, ServerIsPeer, ReadIsNat
<1>2. /\ ds \in SUBSET Devices /\ ds # {} /\ UNCHANGED <<hist, srv, cl>>
      /\ devs'[c] = ds /\ \A p \in Peer \ {c} : devs'[p] = devs[p]
      /\ conn'[c].delay = 0
      /\ \A y \in Client \ {c} : conn'[y] = conn[y] /\ read'[y] = read[y] /\ (Plays(y)' <=> Plays(y))
  BY DEF Given
<1>3. SamePipes(x) /\ Kept(x) /\ Grows
  BY <1>1, <1>2 DEF SamePipes, Kept, Grows, Takes
<1>4. CASE ~conn[x].active
  <2>1. toC'[x] = toC[x]
    BY <1>4 DEF Given
  <2>2. Polled(x).mode = "none"
    BY <1>4, GonePolled
  <2> QED BY <1>3, <2>1, <2>2, Untouched
<1>5. CASE conn[x].active
  <2>1. PICK m : OtherMode(m, srv.self + 1, c, ds) /\ toC'[x] = Append(toC[x], m)
    BY <1>5 DEF Given
  <2>2. m \in ToClient /\ m.t = "mode" /\ ~m.you /\ m.devs = ds /\ ~Yours(m) /\ ~IsAnswer(m)
    BY <1>1, <1>2, <2>1, OtherModeParts
  <2>3. ASSUME NEW e \in States, NEW t \in States, e.mode # "none", Follows(x, e),
               t = Handle(x, e, m)
        PROVE  /\ AfterItsInput(x, e, m)'
               /\ t.mode # "none" /\ Follows(x, t)' /\ SamePlace(e, t)
    <3>1. e.server = srv.self + 1
      BY <1>1, <2>3 DEF Follows
    <3>2. PICK you \in BOOLEAN : ~you /\ Joins(x, e, srv.self + 1, c, ds, you, t)
      BY <1>1, <1>2, <2>1, <2>3, <3>1, ReadsOther
    <3>3. /\ SamePlace(e, t) /\ t.server = e.server
          /\ \A q \in Peer : /\ t.view[q] = (IF q = c THEN ds ELSE e.view[q])
                             /\ t.read[q] = (IF q = c THEN e.server ELSE e.read[q])
      BY <3>2 DEF Joins
    <3>4. ASSUME NEW p \in Client \ {x, c} PROVE Knows(x, t, p)'
      <4>1. p \in Peer /\ p # c /\ p \in Client /\ Knows(x, e, p)
        BY <1>1, <2>3 DEF Follows
      <4>2. t.view[p] = e.view[p] /\ t.read[p] = e.read[p]
        BY <3>3, <4>1
      <4> QED BY <1>1, <1>2, <1>3, <4>1, <4>2, SameKnows
    <3>5. Knows(x, t, c)'
      <4>1. t.view[c] = ds /\ t.read[c] = srv.self + 1
        BY <1>1, <3>1, <3>3
      <4> QED BY <1>1, <1>2, <4>1 DEF Knows, Owed
    <3>6. Follows(x, t)'
      <4>1. /\ t.mode \in {"spectating", "playing"} /\ t.server = ServerRead'
            /\ t.view[0] = devs'[0] /\ t.view[x] = devs'[x]
            /\ (devs'[0] # {} => t.read[0] = ServerRead')
        BY <1>1, <1>2, <2>3, <3>3 DEF Follows, SamePlace
      <4> QED BY <3>4, <3>5, <4>1 DEF Follows
    <3>7. t.mode # "none"
      BY <2>3, <3>3 DEF SamePlace
    <3>8. AfterItsInput(x, e, m)'
      BY <1>2, <2>2 DEF AfterItsInput
    <3> QED BY <3>3, <3>6, <3>7, <3>8
  <2> QED BY <1>3, <2>1, <2>2, <2>3, Appended
<1> QED BY <1>1, <1>4, <1>5

(* The client sends its input of all frames from there on. *)
LEMMA GivenSends ==
  ASSUME Types, Types', NEW c \in Client, NEW ds, Given(c, ds), Takes(c), toS[c] # <<>>,
         PeerInv(c), NEW e \in States, e.mode # "none", Sends(c, e),
         NEW t \in States, Joins(c, e, srv.self + 1, c, ds, TRUE, t)
  PROVE  Sends(c, t)' /\ t.mode = "playing"
<1>1. /\ srv.self \in Nat /\ read'[c] = srv.self + 1 /\ ~Plays(c) /\ Plays(c)' /\ cl'[c] = cl[c]
      /\ e.self \in Nat /\ t.self = e.self /\ e.out \in Seq(ToServer) /\ srv.self + 1 \in Nat
  BY DEF Types, Servers, Given, Joins, States, Fields
<1>2. cl[c].mode \notin {"pre_sync", "playing"}
  BY <1>1 DEF PeerInv, Talks, Modes
<1>3. e.out = <<>>
  <2>1. \A i \in 1..Len(e.out) : e.out[i].t = "input"
    BY <1>2 DEF Sends
  <2>2. ~Has(e.out, "input")
    BY <1>1 DEF Sends
  <2>3. Len(e.out) = 0
    <3>1. PICK n \in Nat : n = Len(e.out)
      BY <1>1
    <3>2. ~(1 \in 1..n)
      BY <2>1, <2>2, <3>1 DEF Has
    <3> QED BY <3>1, <3>2
  <2> QED BY <1>1, <2>3
<1>4. ~Has(toS'[c], "spectate")
  <2>1. PICK q \in Seq(ToServer) : q = toS[c] /\ q # <<>> /\ toS'[c] = Tail(q)
    BY PolledIsState DEF Takes
  <2>2. ~Has(q, "spectate")
    BY <1>1, <2>1 DEF PeerInv, Talks, Piped, Has
  <2> QED BY <2>1, <2>2, HasTail
<1>5. CASE srv.self + 1 <= e.self
  <2>1. PICK f, p : f \in Nat /\ f = srv.self + 1 /\ p = e.out \o Past(c, e.self, f) /\ f <= e.self
    BY <1>1, <1>5
  <2>2. t.mode = "playing" /\ t.sent = e.self + 1 /\ t.out = p
    BY <1>5, <2>1 DEF Joins
  <2>3. /\ InTurn(p, f) /\ EndsBefore(p, e.self + 1) /\ \A i \in 1..Len(p) : p[i].t = "input"
    <3>1. PICK n \in Nat, o \in Seq(ToServer) : n = e.self /\ o = e.out
      BY <1>1
    <3>2. f \in Nat /\ f <= n /\ OnlyPast(p, o, c, n, f)
      BY <1>3, <2>1, <3>1 DEF OnlyPast
    <3>3. /\ InTurn(p, f) /\ EndsBefore(p, n + 1)
          /\ \A i \in 1..Len(p) : p[i].t = "input"
      BY <3>2, PastInTurn
    <3> QED BY <3>1, <3>3
  <2>4. NextInput(t) = e.self + 1 /\ Skips(t, read'[c])
    BY <1>1, <2>2 DEF NextInput, Skips
  <2> QED BY <1>1, <1>2, <1>4, <2>1, <2>2, <2>3, <2>4 DEF Sends
<1>6. CASE srv.self + 1 > e.self
  <2>1. t.mode = "playing" /\ t.sent = srv.self + 1 /\ t.out = e.out
    BY <1>6 DEF Joins
  <2>2. NextInput(t) = srv.self + 1
    BY <1>1, <1>6, <2>1 DEF NextInput
  <2>3. NextInput(t) <= read'[c] /\ Skips(t, read'[c])
    BY <1>1, <2>1, <2>2 DEF Skips
  <2>4. InTurn(t.out, read'[c]) /\ ~Has(t.out, "input") /\ \A i \in 1..Len(t.out) : FALSE
    <3>1. Len(t.out) = 0
      BY <1>3, <2>1
    <3> QED BY <3>1 DEF InTurn, Has
  <2> QED BY <1>1, <1>2, <1>4, <2>1, <2>3, <2>4 DEF Sends
<1> QED BY <1>1, <1>5, <1>6

LEMMA GivenSelf ==
  ASSUME Types, Types', Roles, srv.phase = "poll", NEW c \in Client, conn[c].active, toS[c] # <<>>,
         Head(toS[c]).t = "play", NEW ds, Given(c, ds), Takes(c), PeerInv(c)
  PROVE  PeerInv(c)'
<1>1. /\ srv.self \in Nat /\ srv.self + 1 \in Nat /\ ServerRead = srv.self + 1
      /\ ServerRead' = ServerRead
      /\ 0 \in Peer /\ c \in Peer /\ c # 0 /\ Client \subseteq Peer
  BY ServerIsPeer DEF Types, Servers, ServerRead, Given
<1>2. /\ ds \in SUBSET Devices /\ ds # {} /\ UNCHANGED <<hist, srv, cl>> /\ ~Plays(c) /\ Plays(c)'
      /\ devs'[c] = ds /\ \A p \in Peer \ {c} : devs'[p] = devs[p]
      /\ \A y \in Client \ {c} : conn'[y] = conn[y] /\ read'[y] = read[y]
  BY DEF Given
<1>3. PICK m0 : Told(m0, c, ds) /\ toC'[c] = Append(toC[c], m0)
  BY DEF Given
<1>4. PICK you \in BOOLEAN : you = TRUE
  OBVIOUS
<1>5. PICK m \in ToClient : m = m0 /\ m = ModeCmd(srv.self + 1, c, ds, you)
  BY <1>1, <1>2, <1>3, <1>4, ModeIsCommand DEF Told
<1>6. IsAnswer(m) /\ m.devs # {}
  BY <1>2, <1>4, <1>5 DEF IsAnswer, ModeCmd
<1>7. PICK e \in States : e = Polled(c)
  BY PolledIsState
<1>8. PICK t \in States : t = Handle(c, e, m)
  BY HandleIsState
<1>9. cl'[c] = cl[c] /\ Grows
  BY <1>2 DEF Grows
<1>10. Polled(c)' = t /\ Answered(c)' /\ Complete(c)'
  <2>1. \A u : AfterItsInput(c, u, m)'
    BY <1>6 DEF AfterItsInput
  <2> QED BY <1>3, <1>5, <1>6, <1>7, <1>8, <1>9, <2>1, ReadsAppended DEF PeerInv
<1>11. Talks(c)'
  BY <1>2, <1>10, AnsweredTalks DEF PeerInv
<1>12. CASE e.mode = "none"
  <2>1. t.mode = "none"
    BY <1>8, <1>12 DEF Handle
  <2> QED BY <1>2, <1>7, <1>10, <1>11, <1>12, <2>1 DEF PeerInv
<1>13. CASE e.mode # "none"
  <2>1. Follows(c, e) /\ Sends(c, e)
    BY <1>7, <1>13 DEF PeerInv
  <2>2. e.server = srv.self + 1 /\ e.mode # "playing"
    BY <1>1, <1>2, <2>1 DEF Follows, Sends
  <2>3. Joins(c, e, srv.self + 1, c, ds, you, t)
    BY <1>1, <1>2, <1>5, <1>8, <1>13, <2>2, ReadJoin
  <2>4. Sends(c, t)' /\ t.mode = "playing"
    BY <1>4, <1>13, <2>1, <2>3, GivenSends
  <2>5. /\ t.server = e.server
        /\ \A q \in Peer : /\ t.view[q] = (IF q = c THEN ds ELSE e.view[q])
                           /\ t.read[q] = (IF q = c THEN e.server ELSE e.read[q])
    BY <2>3 DEF Joins
  <2>6. Follows(c, t)'
    <3>1. ASSUME NEW p \in Client \ {c} PROVE Knows(c, t, p)'
      <4>1. p \in Peer /\ p # c /\ p \in Client /\ Knows(c, e, p)
        BY <1>1, <2>1 DEF Follows
      <4>2. t.view[p] = e.view[p] /\ t.read[p] = e.read[p]
        BY <2>5, <4>1
      <4> QED BY <1>1, <1>2, <1>9, <4>1, <4>2, SameKnows
    <3>2. /\ t.server = ServerRead' /\ t.view[0] = devs'[0] /\ t.view[c] = devs'[c]
          /\ (devs'[0] # {} => t.read[0] = ServerRead')
      BY <1>1, <1>2, <2>1, <2>5 DEF Follows
    <3> QED BY <2>4, <3>1, <3>2 DEF Follows
  <2> QED BY <1>10, <1>11, <2>4, <2>6 DEF PeerInv
<1> QED BY <1>12, <1>13

LEMMA GivenStep ==
  ASSUME IInv, Types', srv.phase = "poll", NEW c \in Client, conn[c].active, toS[c] # <<>>,
         Head(toS[c]).t = "play", NEW ds, Given(c, ds), Takes(c)
  PROVE  IInv'
<1>1. Types /\ Roles /\ OnlyKnownNaks /\ StallCanEnd /\ srv.self \in Nat
  BY DEF IInv, Types, Servers
<1>2. \A x \in Client : PeerInv(x)'
  BY <1>1, GivenOther, GivenSelf DEF IInv
<1>3. /\ UNCHANGED <<hist, srv, cl>> /\ ds # {} /\ c \in CanPlay /\ ~Plays(c)
      /\ devs'[c] = ds /\ \A p \in Peer \ {c} : devs'[p] = devs[p]
      /\ conn'[c].mode = "playing" /\ conn'[c].active = conn[c].active /\ conn'[c].delay = 0
      /\ \A x \in Client \ {c} : conn'[x] = conn[x] /\ read'[x] = read[x] /\ (Plays(x)' <=> Plays(x))
      /\ read'[c] = srv.self + 1 /\ Plays(c)'
  BY DEF Given
<1>4. Roles'
  <2>1. ASSUME NEW x \in Client \ {c} PROVE Role(x)'
    <3>1. Role(x) /\ (~conn[x].active => toS'[x] = toS[x] /\ toC'[x] = toC[x])
      BY <1>1 DEF Roles, Given, Takes
    <3>2. devs'[x] = devs[x]
      BY <1>3, ServerIsPeer
    <3> QED BY <1>3, <3>1, <3>2 DEF Role
  <2>2. Role(c)'
    BY <1>1, <1>3 DEF Role
  <2>3. devs'[0] = devs[0]
    BY <1>3, ServerIsPeer
  <2> QED BY <1>1, <1>3, <2>1, <2>2, <2>3 DEF Roles
<1>5. OnlyKnownNaks'
  BY <1>1, <1>3 DEF OnlyKnownNaks
<1>6. StallCanEnd'
  <2> SUFFICES ASSUME srv.stall, NewStall' PROVE StalledOut' # {} \/ hist.unblamed
    BY <1>3 DEF StallCanEnd
  <2>1. PICK y \in Client : Late(y, 2)'
    BY <1>3 DEF NewStall
  <2>2. y # c
    <3>1. ~(srv.self + 1 + MaxStall <= srv.self + 2)
      BY <1>1, SessionAssumption
    <3> QED BY <1>3, <2>1, <3>1 DEF Late
  <2>3. Late(y, 2)
    BY <1>3, <2>1, <2>2 DEF Late
  <2>4. NewStall
    BY <2>3 DEF NewStall
  <2>5. ASSUME NEW z \in StalledOut PROVE z \in StalledOut'
    BY <1>3 DEF StalledOut
  <2> QED BY <1>1, <2>4, <2>5 DEF StallCanEnd
<1> QED BY <1>2, <1>4, <1>5, <1>6 DEF IInv

(* Reading PLAY keeps the invariant, whatever the server answers. *)
LEMMA RecvPlayStep ==
  ASSUME IInv, Types', srv.phase = "poll", NEW c \in Client, conn[c].active, toS[c] # <<>>,
         Head(toS[c]).t = "play", NEW r \in Requested, RecvPlay(c, r)
  PROVE  IInv'
<1>1. Types /\ hist \in Hists /\ toC \in [Client -> Seq(ToClient)] /\ read \in [Client -> Nat]
  BY DEF IInv, Types
<1>2. CASE Plays(c) /\ Nak(c, "play")
  <2>1. PICK q \in Seq(ToServer) : q = toS[c] /\ q # <<>>
    BY <1>1, PolledIsState
  <2>2. 1 \in 1..Len(q) /\ Head(q) = q[1] /\ q[1].t = "play"
    BY <2>1, TailParts
  <2>3. Patient(c)
    BY DEF IInv, PeerInv, Talks
  <2>4. ~\E j \in 1..Len(q) : j < 1
    OBVIOUS
  <2>5. c \in hist.impatient
    BY <1>2, <2>1, <2>2, <2>3, <2>4 DEF Patient
  <2> QED BY <1>2, <2>5, NakPlayStep
<1>3. ASSUME toS' = [toS EXCEPT ![c] = Tail(@)] PROVE Takes(c)
  BY <1>1, <1>3, TakenHead
<1>4. ASSUME Refuse(c) PROVE /\ toC'[c] = Append(toC[c], [t |-> "refused"])
                             /\ \A x \in Client \ {c} : toC'[x] = toC[x]
  BY <1>1, <1>4 DEF Refuse, SendTo
<1>5. CASE /\ Refuse(c) /\ toS' = [toS EXCEPT ![c] = Tail(@)]
           /\ UNCHANGED <<srv, conn, read, devs, share, cl, hist>>
  <2>1. Unmoved(c)
    BY <1>4, <1>5 DEF Unmoved
  <2> QED BY <1>3, <1>5, <2>1, UnmovedStep
<1>6. CASE /\ ~Plays(c) /\ read' = [read EXCEPT ![c] = Start]
           /\ toS' = [toS EXCEPT ![c] = Tail(@)] /\ Refuse(c)
           /\ UNCHANGED <<conn, devs, share, hist>> /\ UNCHANGED <<srv, cl>>
  <2>1. \A x \in Client \ {c} : read'[x] = read[x]
    BY <1>1, <1>6
  <2>2. Unmoved(c)
    BY <1>4, <1>6, <2>1 DEF Unmoved
  <2> QED BY <1>3, <1>6, <2>2, UnmovedStep
<1>7. CASE /\ ~Plays(c) /\ read' = [read EXCEPT ![c] = Start]
           /\ toS' = [toS EXCEPT ![c] = Tail(@)]
           /\ hist' = [hist EXCEPT !.ignored = @ \cup {c}]
           /\ UNCHANGED <<conn, devs, share, toC>> /\ UNCHANGED <<srv, cl>>
  <2>1. \A x \in Client \ {c} : read'[x] = read[x]
    BY <1>1, <1>7
  <2>2. /\ hist'.waiting = hist.waiting /\ hist'.impatient = hist.impatient
        /\ hist'.lost = hist.lost /\ hist'.untold = hist.untold /\ hist'.late = hist.late
        /\ hist'.nak = hist.nak /\ hist'.unblamed = hist.unblamed
        /\ hist'.ignored = hist.ignored \cup {c}
    BY <1>1, <1>7 DEF Hists
  <2>3. Unmoved(c)
    BY <1>7, <2>1, <2>2 DEF Unmoved
  <2> QED BY <1>3, <1>7, <2>3, UnmovedStep
<1>8. CASE Granting(c, r)
  <2>1. Given(c, Devs(r))
    BY <1>1, <1>8, GrantingGives
  <2> QED BY <1>3, <1>8, <2>1, GivenStep DEF Granting
<1>9. CASE /\ conn[c].delay = 0 /\ c \in CanPlay /\ ~Plays(c)
           /\ read' = [read EXCEPT ![c] = Start]
           /\ toS' = [toS EXCEPT ![c] = Tail(@)]
           /\ \/ /\ Granted(r)
                 /\ Grant(c, r)
                 /\ conn' = [conn EXCEPT ![c].mode = "playing"]
                 /\ toC' = [x \in Client |-> IF x \in Active
                              THEN Append(toC[x], ModeCmd(Start, c, Devs(r), x = c)) ELSE toC[x]]
                 /\ UNCHANGED hist
              \/ /\ ~Granted(r) /\ ~LeavesSwitch(r)
                 /\ Refuse(c)
                 /\ UNCHANGED <<conn, devs, share, hist>>
              \/ /\ LeavesSwitch(r)
                 /\ hist' = [hist EXCEPT !.ignored = @ \cup {c}]
                 /\ UNCHANGED <<conn, devs, share, toC>>
           /\ UNCHANGED <<srv, cl>>
  BY <1>6, <1>7, <1>8, <1>9 DEF Granting
<1> QED BY <1>2, <1>5, <1>9, Zenon DEF RecvPlay

(* Whatever the server reads, the invariant is kept. *)
LEMMA RecvCmdStep ==
  ASSUME IInv, Types', NEW c \in Client, RecvCmd(c)
  PROVE  IInv'
<1>1. /\ Types /\ srv.phase = "poll" /\ conn[c].active /\ toS[c] # <<>>
  BY DEF IInv, RecvCmd
<1>2. PICK m : m = Head(toS[c])
  OBVIOUS
<1>3. m.t = "play" => m.req \in Requested
  <2>1. PICK q \in Seq(ToServer) : q = toS[c]
    BY <1>1, PolledIsState
  <2> QED BY <1>1, <1>2, <2>1, HeadTyped
<1>4. \/ m.t = "input" /\ RecvInput(c, m.frame)
      \/ m.t = "spectate" /\ RecvSpectate(c)
      \/ m.t = "play" /\ RecvPlay(c, m.req)
      \/ m.t = "closed" /\ RecvClosed(c)
  BY <1>2 DEF RecvCmd
<1> QED BY <1>1, <1>2, <1>3, <1>4, RecvInputStep, RecvSpectateStep, RecvPlayStep, ClosedStep

-----------------------------------------------------------------------------
(* What a client does concerns only itself. *)

OnlyClient(c) ==
  /\ UNCHANGED <<srv, conn, read, devs>>
  /\ \A x \in Client \ {c} : cl'[x] = cl[x] /\ toS'[x] = toS[x] /\ toC'[x] = toC[x]
  /\ hist'.lost = hist.lost /\ hist'.untold = hist.untold /\ hist'.ignored = hist.ignored
  /\ hist'.late = hist.late /\ hist'.unblamed = hist.unblamed
  /\ hist.impatient \subseteq hist'.impatient
  /\ \A x \in Client \ {c} : /\ x \in hist'.waiting <=> x \in hist.waiting
                             /\ x \in hist'.impatient <=> x \in hist.impatient
  /\ \A n \in hist'.nak : n \in hist.nak \/ (n[1] = "client" /\ hist.late)

LEMMA OnlyClientFollows ==
  ASSUME NEW c \in Client, OnlyClient(c), NEW x \in Client, NEW e, Follows(x, e)
  PROVE  Follows(x, e)'
BY DEF OnlyClient, Follows, Knows, Owed, ServerRead

LEMMA OnlyClientStep ==
  ASSUME IInv, Types', NEW c \in Client, conn[c].active, OnlyClient(c), PeerInv(c)'
  PROVE  IInv'
<1>1. Types /\ Roles /\ OnlyKnownNaks /\ StallCanEnd
  BY DEF IInv
<1>2. UNCHANGED <<srv, conn, read, devs>> /\ \A x \in Client : Plays(x)' <=> Plays(x)
  BY DEF OnlyClient, Plays
<1>3. ASSUME NEW x \in Client \ {c} PROVE PeerInv(x)'
  <2>1. SamePipes(x) /\ toC'[x] = toC[x] /\ Kept(x) /\ Grows
    <3>1. read[x] \in Nat
      BY <1>1, ReadIsNat
    <3> QED BY <1>2, <3>1 DEF OnlyClient, SamePipes, Kept, Grows
  <2> QED BY <1>1, <2>1, OnlyClientFollows, Untouched DEF IInv
<1>4. Roles'
  <2>1. ASSUME NEW x \in Client PROVE Role(x)'
    <3>1. Role(x) /\ (x # c => cl'[x] = cl[x] /\ toS'[x] = toS[x] /\ toC'[x] = toC[x])
      BY <1>1 DEF Roles, OnlyClient
    <3> QED BY <1>2, <3>1 DEF Role
  <2> QED BY <1>1, <1>2, <2>1 DEF Roles
<1>5. OnlyKnownNaks'
  BY <1>1 DEF OnlyKnownNaks, OnlyClient
<1>6. StallCanEnd'
  BY <1>1, <1>2 DEF StallCanEnd, NewStall, Late, StalledOut, OnlyClient
<1> QED BY <1>3, <1>4, <1>5, <1>6 DEF IInv

(* The client is gone: of what it has sent only the end of the connection  *)
(* is new.                                                                 *)
LEMMA NothingPolled ==
  ASSUME NEW c, toC'[c] = <<>>
  PROVE  Polled(c)' = cl'[c] /\ ~Answered(c)' /\ Quiet(c)' /\ Complete(c)'
<1>1. Polled(c)' = cl'[c]
  <2>1. PICK f, q, s : q = <<>> /\ s = cl'[c] /\ f = After(c, s, q) /\ Len(q) = 0
    OBVIOUS
  <2>2. f[0] = s
    BY <2>1, AfterReads
  <2>3. Polled(c)' = f[0]
    <3> HIDE DEF After
    <3> QED BY <2>1 DEF Polled, Reading
  <2> QED BY <2>1, <2>2, <2>3
<1>2. Len(<<>>) = 0
  OBVIOUS
<1>3. ~Answered(c)' /\ Quiet(c)' /\ Complete(c)'
  BY <1>2 DEF Answered, Quiet, Complete
<1> QED BY <1>1, <1>3

(* A client that is gone leaves what it has sent behind. *)
LEMMA GoneClient ==
  ASSUME Types, Types', NEW c \in Client, cl'[c] = NoClient, toC'[c] = <<>>,
         \/ toS'[c] = toS[c]
         \/ toS'[c] = Append(toS[c], [t |-> "closed"]),
         c \notin hist'.waiting, hist'.impatient = hist.impatient, read' = read,
         Plays(c)' <=> Plays(c), Talks(c)
  PROVE  PeerInv(c)'
<1>1. Polled(c)' = NoClient /\ ~Answered(c)' /\ Complete(c)'
  BY NothingPolled
<1>2. NoClient.mode = "none" /\ NoClient.out = <<>>
  BY DEF NoClient
<1>3. PICK q \in Seq(ToServer), p \in Seq(ToServer) : q = toS[c] /\ p = toS'[c]
  BY PolledIsState DEF Types
<1>4. read[c] \in Nat
  BY ReadIsNat
<1>5. /\ Len(q) \in Nat /\ Len(q) <= Len(p) /\ InTurn(p, read[c])
      /\ \A i \in 1..Len(q) : i \in 1..Len(p) /\ p[i] = q[i]
      /\ \A i \in 1..Len(p) : p[i].t \in {"input", "spectate", "play"} => i \in 1..Len(q)
  <2>1. InTurn(q, read[c])
    BY <1>3 DEF Talks, Piped
  <2>2. CASE p = q
    <3>1. Len(q) \in Nat /\ Len(q) <= Len(q)
      BY <1>3
    <3> QED BY <2>1, <2>2, <3>1
  <2>3. CASE p = Append(q, [t |-> "closed"])
    <3>1. PICK m \in ToServer : m = [t |-> "closed"]
      BY ClosedIsCommand
    <3>2. m.t = "closed" /\ p = Append(q, m)
      BY <2>3, <3>1
    <3>3. InTurn(p, read[c])
      BY <1>4, <2>1, <3>2, InTurnAppend
    <3>4. /\ Len(q) \in Nat /\ Len(p) = Len(q) + 1 /\ p[Len(p)] = m
          /\ \A i \in 1..Len(q) : i \in 1..Len(p) /\ p[i] = q[i]
          /\ \A i \in 1..Len(p) : i = Len(p) \/ i \in 1..Len(q)
      BY <3>2, AppendParts
    <3> QED BY <3>2, <3>3, <3>4
  <2> QED BY <1>3, <2>2, <2>3
<1>6. Piped(c)'
  <2>1. \A i \in 1..Len(q) : q[i].t \in {"input", "spectate"} =>
          Plays(c) /\ \A j \in 1..Len(q) : j < i => q[j].t # "spectate"
    BY <1>3 DEF Talks, Piped
  <2>2. ASSUME NEW i \in 1..Len(p), p[i].t \in {"input", "spectate"}
        PROVE  Plays(c) /\ \A j \in 1..Len(p) : j < i => p[j].t # "spectate"
    <3>1. i \in 1..Len(q) /\ p[i] = q[i]
      BY <1>5, <2>2
    <3>2. ASSUME NEW j \in 1..Len(p), j < i PROVE p[j].t # "spectate"
      <4>1. j \in 1..Len(q)
        BY <1>5, <3>1, <3>2
      <4> QED BY <1>5, <2>1, <2>2, <3>1, <3>2, <4>1
    <3> QED BY <2>1, <2>2, <3>1, <3>2
  <2> QED BY <1>3, <1>5, <2>2 DEF Piped
<1>7. Modes(c)'
  BY <1>2 DEF Modes
<1>8. Patient(c)'
  <2> SUFFICES ASSUME c \notin hist.impatient PROVE Patient(c)'
    BY DEF Patient
  <2>1. \A i \in 1..Len(q) : q[i].t = "play" =>
             /\ Plays(c) => \E j \in 1..Len(q) : j < i /\ q[j].t = "spectate"
             /\ \A j \in 1..Len(q) : q[j].t = "play" => i = j
    BY <1>3 DEF Talks, Patient
  <2>2. ASSUME NEW i \in 1..Len(p), p[i].t = "play"
        PROVE  /\ Plays(c) => \E j \in 1..Len(p) : j < i /\ p[j].t = "spectate"
               /\ \A j \in 1..Len(p) : p[j].t = "play" => i = j
    <3>1. i \in 1..Len(q) /\ q[i].t = "play"
      BY <1>5, <2>2
    <3>2. \A j \in 1..Len(p) : p[j].t = "play" => j \in 1..Len(q) /\ q[j].t = "play"
      BY <1>5
    <3>3. \A j \in 1..Len(p) : p[j].t = "play" => i = j
      BY <2>1, <3>1, <3>2
    <3>4. ASSUME Plays(c) PROVE \E j \in 1..Len(p) : j < i /\ p[j].t = "spectate"
      <4>1. PICK j \in 1..Len(q) : j < i /\ q[j].t = "spectate"
        BY <2>1, <3>1, <3>4
      <4>2. j \in 1..Len(p) /\ p[j] = q[j]
        BY <1>5, <4>1
      <4> QED BY <4>1, <4>2
    <3> QED BY <3>3, <3>4
  <2>3. ~Connected(c)'
    BY <1>2 DEF Connected
  <2> QED BY <1>1, <1>3, <2>2, <2>3 DEF Patient
<1>9. Requests(c)'
  BY DEF Requests
<1> QED BY <1>1, <1>2, <1>6, <1>7, <1>8, <1>9 DEF PeerInv, Talks

LEMMA AppendedParts ==
  ASSUME Types, NEW c \in Client, NEW m, toS' = [toS EXCEPT ![c] = Append(@, m)]
  PROVE  toS'[c] = Append(toS[c], m) /\ \A x \in Client \ {c} : toS'[x] = toS[x]
BY DEF Types

(* Leaving and getting lost keep the invariant. *)
LEMMA QuitStep ==
  ASSUME IInv, Types', NEW c \in Client, Quit(c) \/ Crash(c)
  PROVE  IInv'
<1>1. Types /\ Roles /\ hist \in Hists /\ PeerInv(c)
  BY DEF IInv, Types
<1>2. /\ cl' = [cl EXCEPT ![c] = NoClient] /\ toC' = [toC EXCEPT ![c] = <<>>]
      /\ hist' = [hist EXCEPT !.waiting = @ \ {c}]
      /\ UNCHANGED <<srv, conn, read, devs>> /\ cl[c].mode # "none"
  BY DEF Quit, Crash, Connected
<1>3. \/ toS' = toS
      \/ toS' = [toS EXCEPT ![c] = Append(@, [t |-> "closed"])]
  BY DEF Quit, Crash
<1>4. /\ cl'[c] = NoClient /\ toC'[c] = <<>>
      /\ \A x \in Client \ {c} : cl'[x] = cl[x] /\ toC'[x] = toC[x]
  BY <1>1, <1>2 DEF Types
<1>5. /\ \/ toS'[c] = toS[c]
         \/ toS'[c] = Append(toS[c], [t |-> "closed"])
      /\ \A x \in Client \ {c} : toS'[x] = toS[x]
  BY <1>1, <1>3, AppendedParts
<1>6. /\ hist'.lost = hist.lost /\ hist'.untold = hist.untold /\ hist'.ignored = hist.ignored
      /\ hist'.late = hist.late /\ hist'.unblamed = hist.unblamed
      /\ hist'.impatient = hist.impatient /\ hist'.nak = hist.nak
      /\ hist'.waiting = hist.waiting \ {c}
  BY <1>1, <1>2 DEF Hists
<1>7. OnlyClient(c)
  BY <1>2, <1>4, <1>5, <1>6 DEF OnlyClient
<1>8. PeerInv(c)'
  <2>1. Plays(c)' <=> Plays(c)
    BY <1>2 DEF Plays
  <2>2. c \notin hist'.waiting /\ read' = read
    BY <1>2, <1>6
  <2> QED BY <1>1, <1>4, <1>5, <1>6, <2>1, <2>2, GoneClient DEF PeerInv
<1>9. conn[c].active
  BY <1>1, <1>2 DEF Roles, Role
<1> QED BY <1>7, <1>8, <1>9, OnlyClientStep

-----------------------------------------------------------------------------
(* A frame of a client. *)

(* What a client is when it has read everything and has sent o.            *)
Emptied(s, t, u) ==
  /\ u.mode = t.mode /\ u.self = t.self /\ u.sent = t.sent /\ u.server = t.server
  /\ u.view = t.view /\ u.read = t.read /\ u.out = <<>>

LEMMA EmptiedOut ==
  ASSUME NEW t \in States, t.mode # "none", NEW u, u = [t EXCEPT !.out = <<>>]
  PROVE  Emptied(t, t, u)
BY DEF States, Fields, Emptied

(* The commands the client sends, and what they are good for.              *)
LEMMA FrameSent ==
  ASSUME Types, NEW c \in Client, PeerInv(c), NEW s \in States, s = Polled(c), s.mode # "none",
         NEW t, Advances(c, s, t)
  PROVE  /\ t \in States /\ t.out \in Seq(ToServer) /\ InTurn(toS[c] \o t.out, read[c])
         /\ \A i \in 1..Len(t.out) : t.out[i].t \in {"input", "play"}
         /\ Has(t.out, "input") => Plays(c) /\ ~Has(toS[c], "spectate")
         /\ cl[c].mode # "pre_sync" => ~Has(t.out, "play")
         /\ cl[c].mode = "pre_sync" => t.out = cl[c].out
         /\ t.mode = "playing" => \/ NextInput(t) <= read[c]
                                  \/ EndsBefore(toS[c] \o t.out, NextInput(t))
         /\ t.mode = "playing" => Skips(t, read[c])
<1>1. PICK o \in Seq(ToServer), q \in Seq(ToServer), r \in Nat : o = s.out /\ q = toS[c] /\ r = read[c]
  BY PolledIsState, ReadIsNat DEF States, Fields
<1>2. Sends(c, s) /\ Talks(c)
  BY DEF PeerInv
<1>3. InTurn(q, r) /\ InTurn(o, r)
  BY <1>1, <1>2 DEF Talks, Piped, Sends
<1>4. InTurn(q \o o, r)
  BY <1>3, InTurnConcat
<1>5. NextInput(s) \in Nat /\ s.self \in Nat /\ s.sent \in Nat
  BY NextInputIsNat DEF States, Fields
<1>6. t \in States /\ t.mode = s.mode
  BY DEF Advances
<1>7. \A i \in 1..Len(o) : o[i].t \in {"input", "play"}
  BY <1>1, <1>2 DEF Sends, Talks, Modes
<1>8. s.mode = "playing" =>
        /\ Plays(c) /\ ~Has(q, "spectate") /\ cl[c].mode # "pre_sync"
        /\ \/ NextInput(s) <= r
           \/ EndsBefore(o, NextInput(s))
           \/ cl[c].mode = "playing" /\ EndsBefore(q, NextInput(s))
  BY <1>1, <1>2 DEF Sends, Talks, Modes
<1>9. cl[c].mode = "playing" => o = <<>>
  BY <1>1, <1>2 DEF Sends
<1>10. s.mode = "playing" => NextInput(s) <= r \/ EndsBefore(q \o o, NextInput(s))
  <2> SUFFICES ASSUME s.mode = "playing", ~(NextInput(s) <= r) PROVE EndsBefore(q \o o, NextInput(s))
    OBVIOUS
  <2>1. CASE EndsBefore(o, NextInput(s))
    BY <2>1, EndsConcat
  <2>2. CASE cl[c].mode = "playing" /\ EndsBefore(q, NextInput(s))
    <3>1. q \o o = q
      BY <1>9, <2>2
    <3> QED BY <2>2, <3>1
  <2> QED BY <1>8, <2>1, <2>2
<1>13. s.mode = "playing" => Skips(s, r)
  BY <1>1, <1>2 DEF Sends
<1>14. t.mode = "playing" => Skips(t, read[c])
  BY <1>1, <1>5, <1>6, <1>13 DEF Advances, Waits, GoesOn, SendsNext, SendsEarly, Skips
<1>11. CASE Waits(s, t) \/ GoesOn(s, t)
  <2>1. t.out = o /\ (t.mode = "playing" => NextInput(t) = NextInput(s))
    BY <1>1, <1>5, <1>6, <1>11 DEF Waits, GoesOn, NextInput
  <2>2. /\ cl[c].mode # "pre_sync" => ~Has(o, "play")
        /\ cl[c].mode = "pre_sync" => o = cl[c].out
        /\ Has(o, "input") => Plays(c) /\ ~Has(q, "spectate")
    BY <1>1, <1>2 DEF Sends, Has
  <2> QED BY <1>1, <1>4, <1>6, <1>7, <1>10, <1>14, <2>1, <2>2
<1>12. CASE SendsNext(c, s, t)
  <2>1. PICK m \in ToServer : m = InputCmd(s.self + 1, c)
    BY <1>5, InputIsCommand, ServerIsPeer
  <2>2. m.t = "input" /\ m.frame = s.self + 1
    BY <2>1 DEF InputCmd
  <2>3. /\ s.mode = "playing" /\ t.out = Append(o, m) /\ NextInput(s) = s.self + 1
        /\ NextInput(t) = s.self + 2
    BY <1>1, <1>5, <1>12, <2>1 DEF SendsNext, NextInput
  <2>4. PICK p \in Seq(ToServer) : p = Append(o, m)
    BY AppendParts
  <2>5. q \o p = Append(q \o o, m)
    BY <2>4
  <2>6. q \o o \in Seq(ToServer)
    OBVIOUS
  <2>7. InTurn(q \o p, r)
    BY <1>4, <1>10, <2>2, <2>3, <2>5, <2>6, InTurnAppend
  <2>8. EndsBefore(q \o p, NextInput(t))
    <3>1. s.self + 2 <= m.frame + 1
      BY <1>5, <2>2
    <3> QED BY <2>2, <2>3, <2>5, <2>6, <3>1, EndsAppend
  <2>9. \A i \in 1..Len(p) : p[i].t \in {"input", "play"}
    <3>1. \A i \in 1..Len(p) : i = Len(p) \/ (i \in 1..Len(o) /\ p[i] = o[i])
      BY <2>4, AppendParts
    <3>2. p[Len(p)] = m
      BY <2>4, AppendParts
    <3> QED BY <1>7, <2>2, <3>1, <3>2
  <2>10. ~Has(p, "play")
    <3>1. ~Has(o, "play")
      BY <1>1, <1>2, <1>8, <2>3 DEF Sends, Has
    <3> QED BY <2>2, <2>4, <3>1, HasAppend
  <2>11. t.out = p
    BY <2>3, <2>4
  <2> QED BY <1>1, <1>6, <1>8, <1>14, <2>3, <2>7, <2>8, <2>9, <2>10, <2>11
<1>15. CASE SendsEarly(c, s, t)
  <2>1. PICK m \in ToServer : m = InputCmd(s.self + 1, c)
    BY <1>5, InputIsCommand, ServerIsPeer
  <2>2. m.t = "input" /\ m.frame = s.self + 1
    BY <2>1 DEF InputCmd
  <2>3. /\ s.mode = "playing" /\ t.out = Append(o, m) /\ m.frame <= r
        /\ NextInput(t) = s.sent /\ s.sent <= r
    BY <1>1, <1>5, <1>13, <1>15, <2>1, <2>2 DEF SendsEarly, NextInput, Skips
  <2>4. PICK p \in Seq(ToServer) : p = Append(o, m)
    BY AppendParts
  <2>5. q \o p = Append(q \o o, m) /\ q \o o \in Seq(ToServer)
    BY <2>4
  <2>6. InTurn(q \o p, r)
    BY <1>4, <2>3, <2>5, InTurnAppend
  <2>7. \A i \in 1..Len(p) : p[i].t \in {"input", "play"}
    <3>1. \A i \in 1..Len(p) : i = Len(p) \/ (i \in 1..Len(o) /\ p[i] = o[i])
      BY <2>4, AppendParts
    <3>2. p[Len(p)] = m
      BY <2>4, AppendParts
    <3> QED BY <1>7, <2>2, <3>1, <3>2
  <2>8. ~Has(p, "play")
    <3>1. ~Has(o, "play")
      BY <1>1, <1>2, <1>8, <2>3 DEF Sends, Has
    <3> QED BY <2>2, <2>4, <3>1, HasAppend
  <2>9. t.out = p
    BY <2>3, <2>4
  <2> QED BY <1>1, <1>6, <1>8, <1>14, <2>3, <2>6, <2>7, <2>8, <2>9
<1> QED BY <1>11, <1>12, <1>15 DEF Advances

(* A request that has its answer is no longer waited for, one that is sent *)
(* is.                                                                     *)
NowWaits(c, out) ==
  /\ Answered(c) => c \notin hist'.waiting
  /\ ~Answered(c) /\ Has(out, "play") => c \in hist'.waiting
  /\ ~Answered(c) /\ ~Has(out, "play") => (c \in hist'.waiting <=> c \in hist.waiting)

(* What a client sends in a frame goes behind what it has sent before. *)
LEMMA FrameTalks ==
  ASSUME Types, Types', NEW c \in Client, PeerInv(c), NEW s \in States, s = Polled(c),
         s.mode \in {"spectating", "playing"}, NEW t, Advances(c, s, t),
         toC'[c] = <<>>, cl'[c].mode = s.mode, cl'[c].out = <<>>, toS'[c] = toS[c] \o t.out,
         Plays(c)' <=> Plays(c), read' = read, hist'.impatient = hist.impatient,
         hist'.ignored = hist.ignored, NowWaits(c, t.out), cl[c].mode # "none"
  PROVE  Talks(c)'
<1>1. /\ t \in States /\ t.out \in Seq(ToServer) /\ InTurn(toS[c] \o t.out, read[c])
      /\ \A i \in 1..Len(t.out) : t.out[i].t \in {"input", "play"}
      /\ Has(t.out, "input") => Plays(c) /\ ~Has(toS[c], "spectate")
      /\ cl[c].mode # "pre_sync" => ~Has(t.out, "play")
      /\ cl[c].mode = "pre_sync" => t.out = cl[c].out
  BY FrameSent
<1>2. PICK q \in Seq(ToServer), o \in Seq(ToServer) : q = toS[c] /\ o = t.out
  BY <1>1, PolledIsState
<1>3. PICK p \in Seq(ToServer) : p = q \o o /\ toS'[c] = p
  <2>1. q \o o \in Seq(ToServer)
    OBVIOUS
  <2> QED BY <1>2, <2>1
<1>4. /\ InTurn(p, read[c]) /\ \A i \in 1..Len(o) : o[i].t \in {"input", "play"}
      /\ Has(o, "input") => Plays(c) /\ ~Has(q, "spectate")
      /\ cl[c].mode # "pre_sync" => ~Has(o, "play")
      /\ cl[c].mode = "pre_sync" => o = cl[c].out
  BY <1>1, <1>2, <1>3
<1>5. IsConcat(p, q, o)
  BY <1>3, ConcatParts
<1>6. /\ Len(q) \in Nat /\ Len(o) \in Nat /\ Len(p) = Len(q) + Len(o)
      /\ \A i \in 1..Len(q) : i \in 1..Len(p) /\ p[i] = q[i]
      /\ \A k \in 1..Len(o) : Len(q) + k \in 1..Len(p) /\ p[Len(q) + k] = o[k]
      /\ \A i \in 1..Len(p) : i \in 1..Len(q) \/ \E k \in 1..Len(o) : i = Len(q) + k
  BY <1>5 DEF IsConcat
<1>7. ~Answered(c)' /\ Quiet(c)'
  BY NothingPolled
<1>8. /\ Has(p, "spectate") <=> Has(q, "spectate")
      /\ Has(p, "play") <=> Has(q, "play") \/ Has(o, "play")
  <2>1. ~Has(o, "spectate")
    BY <1>4 DEF Has
  <2> QED BY <1>3, <2>1, HasConcat
<1>9. Piped(c)'
  <2>1. \A i \in 1..Len(q) : q[i].t \in {"input", "spectate"} =>
          Plays(c) /\ \A j \in 1..Len(q) : j < i => q[j].t # "spectate"
    BY <1>2 DEF PeerInv, Talks, Piped
  <2>2. ASSUME NEW i \in 1..Len(p), p[i].t \in {"input", "spectate"}
        PROVE  Plays(c) /\ \A j \in 1..Len(p) : j < i => p[j].t # "spectate"
    <3>1. CASE i \in 1..Len(q)
      <4>1. q[i].t \in {"input", "spectate"} /\ p[i] = q[i]
        BY <1>6, <2>2, <3>1
      <4>2. ASSUME NEW j \in 1..Len(p), j < i PROVE p[j].t # "spectate"
        <5>1. j \in 1..Len(q)
          BY <1>6, <3>1, <4>2
        <5> QED BY <1>6, <2>1, <3>1, <4>1, <4>2, <5>1
      <4> QED BY <2>1, <3>1, <4>1, <4>2
    <3>2. CASE \E k \in 1..Len(o) : i = Len(q) + k
      <4>1. PICK k \in 1..Len(o) : i = Len(q) + k
        BY <3>2
      <4>2. o[k].t = "input"
        BY <1>4, <1>6, <2>2, <4>1
      <4>3. Has(o, "input")
        BY <4>2 DEF Has
      <4>4. Plays(c) /\ ~Has(p, "spectate")
        BY <1>4, <1>8, <4>3
      <4> QED BY <4>4 DEF Has
    <3> QED BY <1>6, <3>1, <3>2
  <2> QED BY <1>3, <1>4, <2>2 DEF Piped
<1>10. Sends(c, s)
  BY DEF PeerInv
<1>11. Modes(c)'
  <2>1. s.mode = "playing" => Plays(c) /\ ~Has(q, "spectate")
    BY <1>2, <1>10 DEF Sends
  <2>2. Plays(c) => s.mode = "playing" \/ Has(q, "spectate")
    BY <1>2, <1>10 DEF Sends
  <2> QED BY <1>3, <1>7, <1>8, <2>1, <2>2 DEF Modes
<1>12. Requests(c)'
  <2>1. Connected(c)'
    BY DEF Connected
  <2>2. c \in hist'.waiting => Has(p, "play") \/ c \in hist'.ignored
    <3>1. c \in hist.waiting => Has(q, "play") \/ Answered(c) \/ c \in hist.ignored
      BY <1>2 DEF PeerInv, Talks, Requests
    <3>2. NowWaits(c, o)
      BY <1>2
    <3> QED BY <1>8, <3>1, <3>2 DEF NowWaits
  <2> QED BY <1>3, <2>1, <2>2 DEF Requests
<1>13. Patient(c)'
  <2> SUFFICES ASSUME c \notin hist.impatient PROVE Patient(c)'
    BY DEF Patient
  <2>0. NowWaits(c, o)
    BY <1>2
  <2>1. CASE cl[c].mode = "pre_sync"
    <3>1. /\ Len(o) <= 1 /\ \A i \in 1..Len(o) : o[i].t = "play"
          /\ q = <<>> /\ ~Plays(c) /\ ~Answered(c)
      BY <1>2, <1>4, <2>1 DEF PeerInv, Talks, Modes
    <3>2. Len(p) = Len(o) /\ Len(p) \in Nat /\ Len(p) <= 1
      <4>1. Len(q) = 0
        BY <3>1
      <4> QED BY <1>6, <3>1, <4>1
    <3>3. \A i \in 1..Len(p) : \A j \in 1..Len(p) : i = j
      BY <3>2
    <3>4. ASSUME NEW i \in 1..Len(p) PROVE c \in hist'.waiting
      <4>1. Has(o, "play")
        BY <3>1, <3>2, <3>4 DEF Has
      <4> QED BY <2>0, <3>1, <4>1 DEF NowWaits
    <3> QED BY <1>3, <1>7, <3>1, <3>3, <3>4 DEF Patient
  <2>2. CASE cl[c].mode # "pre_sync"
    <3>1. Connected(c)
      <4>1. cl[c].mode \in {"none", "pre_sync", "spectating", "playing"}
        BY DEF Types, States, Fields
      <4> QED BY <2>2, <4>1 DEF Connected
    <3>2. \A i \in 1..Len(q) : q[i].t = "play" =>
             /\ Plays(c) => \E j \in 1..Len(q) : j < i /\ q[j].t = "spectate"
             /\ \A j \in 1..Len(q) : q[j].t = "play" => i = j
             /\ ~Answered(c)
             /\ c \in hist.waiting
      <4>1. Patient(c)
        BY <1>2, <3>1 DEF PeerInv, Talks
      <4> SUFFICES ASSUME NEW i \in 1..Len(q), q[i].t = "play"
                   PROVE  /\ Plays(c) => \E j \in 1..Len(q) : j < i /\ q[j].t = "spectate"
                          /\ \A j \in 1..Len(q) : q[j].t = "play" => i = j
                          /\ ~Answered(c)
                          /\ c \in hist.waiting
        OBVIOUS
      <4>2. Plays(c) => \E j \in 1..Len(q) : j < i /\ q[j].t = "spectate"
        BY <1>2, <4>1 DEF Patient
      <4>3. \A j \in 1..Len(q) : q[j].t = "play" => i = j
        BY <1>2, <4>1 DEF Patient
      <4>4. ~Answered(c) /\ c \in hist.waiting
        BY <1>2, <3>1, <4>1 DEF Patient
      <4> QED BY <4>2, <4>3, <4>4
    <3>3. ~Has(o, "play")
      BY <1>4, <2>2
    <3>4. ASSUME NEW i \in 1..Len(p), p[i].t = "play" PROVE i \in 1..Len(q) /\ q[i].t = "play"
      <4>1. ~\E k \in 1..Len(o) : i = Len(q) + k
        BY <1>6, <3>3, <3>4 DEF Has
      <4> QED BY <1>6, <3>4, <4>1
    <3>5. ASSUME NEW i \in 1..Len(p), p[i].t = "play"
          PROVE  /\ Plays(c) => \E j \in 1..Len(p) : j < i /\ p[j].t = "spectate"
                 /\ \A j \in 1..Len(p) : p[j].t = "play" => i = j
                 /\ c \in hist'.waiting
      <4>1. i \in 1..Len(q) /\ q[i].t = "play"
        BY <3>4, <3>5
      <4>2. c \in hist'.waiting
        <5>1. ~Answered(c) /\ c \in hist.waiting
          BY <3>2, <4>1
        <5> QED BY <2>0, <3>3, <5>1 DEF NowWaits
      <4>3. Plays(c) => \E j \in 1..Len(p) : j < i /\ p[j].t = "spectate"
        <5> HAVE Plays(c)
        <5>1. PICK j \in 1..Len(q) : j < i /\ q[j].t = "spectate"
          BY <3>2, <4>1
        <5>2. j \in 1..Len(p) /\ p[j].t = "spectate"
          BY <1>6, <5>1
        <5> QED BY <5>1, <5>2
      <4>4. \A j \in 1..Len(p) : p[j].t = "play" => i = j
        BY <3>2, <3>4, <4>1
      <4> QED BY <4>2, <4>3, <4>4
    <3> QED BY <1>3, <1>7, <3>5 DEF Patient
  <2> QED BY <2>1, <2>2
<1> QED BY <1>9, <1>11, <1>12, <1>13 DEF Talks

LEMMA FramePeer ==
  ASSUME Types, Types', NEW c \in Client, PeerInv(c), NEW s \in States, s = Polled(c),
         s.mode # "none", NEW t, Advances(c, s, t), NEW u, Emptied(t, t, u),
         toC'[c] = <<>>, cl'[c] = u, toS'[c] = toS[c] \o t.out,
         UNCHANGED <<srv, conn, read, devs>>, hist'.impatient = hist.impatient,
         hist'.ignored = hist.ignored, hist'.lost = hist.lost, hist'.untold = hist.untold,
         NowWaits(c, t.out), cl[c].mode # "none"
  PROVE  PeerInv(c)'
<1>1. /\ Polled(c)' = u /\ Complete(c)'
  BY NothingPolled
<1>2. (Plays(c)' <=> Plays(c)) /\ Follows(c, s) /\ Sends(c, s)
  BY DEF Plays, PeerInv
<1>3. /\ u.mode = s.mode /\ u.view = s.view /\ u.read = s.read /\ u.server = s.server
      /\ u.out = <<>> /\ s.mode \in {"spectating", "playing"}
      /\ u.self = t.self /\ u.sent = t.sent /\ t.mode = s.mode
  BY <1>2 DEF Emptied, Advances, Follows
<1>4. Talks(c)'
  BY <1>2, <1>3, FrameTalks
<1>5. Follows(c, u)'
  BY <1>2, <1>3 DEF Follows, Knows, Owed, ServerRead
<1>6. Sends(c, u)'
  <2>1. /\ t.out \in Seq(ToServer)
        /\ \A i \in 1..Len(t.out) : t.out[i].t \in {"input", "play"}
        /\ t.mode = "playing" => \/ NextInput(t) <= read[c]
                                 \/ EndsBefore(toS[c] \o t.out, NextInput(t))
        /\ t.mode = "playing" => Skips(t, read[c])
    BY FrameSent
  <2>2. PICK q, o, p :
           q \in Seq(ToServer) /\ o \in Seq(ToServer) /\ q = toS[c] /\ o = t.out /\ p = q \o o
    BY <2>1, PolledIsState
  <2>3. Has(p, "spectate") <=> Has(q, "spectate")
    <3>1. ~Has(o, "spectate")
      BY <2>1, <2>2 DEF Has
    <3> QED BY <2>2, <3>1, HasConcat
  <2>4. toS'[c] = p /\ cl'[c] = u
    BY <2>2
  <2>5. NextInput(u) = NextInput(t) /\ (Skips(t, read[c]) => Skips(u, read[c]))
    BY <1>3 DEF NextInput, Skips
  <2>6. u.mode = "playing" => /\ Plays(c) /\ ~Has(p, "spectate")
                              /\ NextInput(u) <= read[c] \/ EndsBefore(p, NextInput(u))
                              /\ Skips(u, read[c])
    BY <1>2, <1>3, <2>1, <2>2, <2>3, <2>5 DEF Sends
  <2>7. Plays(c) => u.mode = "playing" \/ Has(p, "spectate")
    BY <1>2, <1>3, <2>2, <2>3 DEF Sends
  <2>8. InTurn(u.out, read[c]) /\ ~Has(u.out, "input") /\ (\A i \in 1..Len(u.out) : FALSE)
    <3>1. Len(u.out) = 0
      BY <1>3
    <3> QED BY <3>1 DEF InTurn, Has
  <2> QED BY <1>2, <1>3, <2>4, <2>6, <2>7, <2>8 DEF Sends
<1> QED BY <1>1, <1>3, <1>4, <1>5, <1>6 DEF PeerInv

(* A frame of a client keeps the invariant. *)
LEMMA ClientFrameStep ==
  ASSUME IInv, Types', NEW c \in Client, ClientFrame(c)
  PROVE  IInv'
<1>1. Types /\ Roles /\ hist \in Hists /\ PeerInv(c) /\ cl[c].mode # "none"
  BY DEF IInv, Types, ClientFrame
<1>2. PICK s \in States : s = Polled(c)
  BY <1>1, PolledIsState
<1>3. UNCHANGED <<srv, conn, read, devs>> /\ toC' = [toC EXCEPT ![c] = <<>>]
  BY DEF ClientFrame
<1>4. toC'[c] = <<>> /\ \A x \in Client \ {c} : toC'[x] = toC[x]
  BY <1>1, <1>3 DEF Types
<1>5. conn[c].active
  BY <1>1 DEF Roles, Role
<1>6. CASE /\ s.mode # "none"
           /\ \E unmarked \in BOOLEAN :
                LET t == Advanced(c, s, unmarked)
                IN  /\ cl' = [cl EXCEPT ![c] = [t EXCEPT !.out = <<>>]]
                    /\ toS' = [toS EXCEPT ![c] = @ \o t.out]
                    /\ hist' = [hist EXCEPT !.waiting =
                         CASE \E i \in DOMAIN toC[c] : IsAnswer(toC[c][i]) -> @ \ {c}
                           [] \E i \in DOMAIN t.out : t.out[i].t = "play"   -> @ \cup {c}
                           [] OTHER -> @]
  <2>0. PICK unmarked \in BOOLEAN :
          LET t == Advanced(c, s, unmarked)
          IN  /\ cl' = [cl EXCEPT ![c] = [t EXCEPT !.out = <<>>]]
              /\ toS' = [toS EXCEPT ![c] = @ \o t.out]
              /\ hist' = [hist EXCEPT !.waiting =
                   CASE \E i \in DOMAIN toC[c] : IsAnswer(toC[c][i]) -> @ \ {c}
                     [] \E i \in DOMAIN t.out : t.out[i].t = "play"   -> @ \cup {c}
                     [] OTHER -> @]
    BY <1>6
  <2>1. PICK t : t = Advanced(c, s, unmarked) /\ Advances(c, s, t)
    BY <1>6, AdvanceEffect
  <2>2. t \in States /\ t.mode = s.mode /\ t.out \in Seq(ToServer)
    BY <2>1 DEF Advances, States, Fields
  <2>3. PICK u : u = [t EXCEPT !.out = <<>>]
    OBVIOUS
  <2>4. Emptied(t, t, u)
    BY <1>6, <2>2, <2>3, EmptiedOut
  <2>5. cl'[c] = u /\ \A x \in Client \ {c} : cl'[x] = cl[x]
    BY <1>1, <2>0, <2>1, <2>3 DEF Types
  <2>6. toS'[c] = toS[c] \o t.out /\ \A x \in Client \ {c} : toS'[x] = toS[x]
    BY <1>1, <2>0, <2>1 DEF Types
  <2>7. /\ (\E i \in DOMAIN toC[c] : IsAnswer(toC[c][i])) <=> Answered(c)
        /\ (\E i \in DOMAIN t.out : t.out[i].t = "play") <=> Has(t.out, "play")
    <3>1. DOMAIN toC[c] = 1..Len(toC[c]) /\ DOMAIN t.out = 1..Len(t.out)
      BY <1>1, <2>2 DEF Types
    <3> QED BY <3>1 DEF Answered, Has
  <2>8. /\ Answered(c) => hist' = [hist EXCEPT !.waiting = @ \ {c}]
        /\ ~Answered(c) /\ Has(t.out, "play") => hist' = [hist EXCEPT !.waiting = @ \cup {c}]
        /\ ~Answered(c) /\ ~Has(t.out, "play") => hist' = [hist EXCEPT !.waiting = @]
    <3>1. hist' = [hist EXCEPT !.waiting =
                       CASE \E i \in DOMAIN toC[c] : IsAnswer(toC[c][i]) -> @ \ {c}
                         [] \E i \in DOMAIN t.out : t.out[i].t = "play"   -> @ \cup {c}
                         [] OTHER -> @]
      BY <2>0, <2>1
    <3>2. ~(Answered(c) /\ Has(t.out, "play"))
      <4>1. cl[c].mode # "pre_sync" => ~Has(t.out, "play")
        BY <1>1, <1>2, <1>6, <2>1, FrameSent
      <4>2. cl[c].mode = "pre_sync" => ~Answered(c)
        BY <1>1 DEF PeerInv, Talks, Modes
      <4> QED BY <4>1, <4>2
    <3>3. CASE Answered(c)
      BY <2>7, <3>1, <3>2, <3>3
    <3>4. CASE ~Answered(c) /\ Has(t.out, "play")
      BY <2>7, <3>1, <3>2, <3>4
    <3>5. CASE ~Answered(c) /\ ~Has(t.out, "play")
      BY <2>7, <3>1, <3>2, <3>5
    <3> QED BY <3>2, <3>3, <3>4, <3>5
  <2>9. /\ hist'.lost = hist.lost /\ hist'.untold = hist.untold /\ hist'.ignored = hist.ignored
        /\ hist'.late = hist.late /\ hist'.unblamed = hist.unblamed
        /\ hist'.impatient = hist.impatient /\ hist'.nak = hist.nak
        /\ \A x \in Client \ {c} : x \in hist'.waiting <=> x \in hist.waiting
        /\ NowWaits(c, t.out)
    <3>1. CASE Answered(c)
      BY <1>1, <2>8, <3>1 DEF Hists, NowWaits
    <3>2. CASE ~Answered(c) /\ Has(t.out, "play")
      BY <1>1, <2>8, <3>2 DEF Hists, NowWaits
    <3>3. CASE ~Answered(c) /\ ~Has(t.out, "play")
      BY <1>1, <2>8, <3>3 DEF Hists, NowWaits
    <3> QED BY <3>1, <3>2, <3>3
  <2>10. OnlyClient(c)
    BY <1>3, <1>4, <2>5, <2>6, <2>9 DEF OnlyClient
  <2>11. PeerInv(c)'
    BY <1>1, <1>2, <1>3, <1>4, <1>6, <2>1, <2>4, <2>5, <2>6, <2>9, FramePeer
  <2> QED BY <1>5, <2>10, <2>11, OnlyClientStep
<1>7. CASE /\ s.mode = "none"
           /\ cl' = [cl EXCEPT ![c] = NoClient]
           /\ toS' = [toS EXCEPT ![c] = Append(@, [t |-> "closed"])]
           /\ hist' = [hist EXCEPT !.nak = @ \cup {<<"client", c>>}, !.waiting = @ \ {c}]
  <2>1. hist.late
    BY <1>1, <1>2, <1>7 DEF PeerInv
  <2>2. cl'[c] = NoClient /\ \A x \in Client \ {c} : cl'[x] = cl[x]
    BY <1>1, <1>7 DEF Types
  <2>3. /\ toS'[c] = Append(toS[c], [t |-> "closed"])
        /\ \A x \in Client \ {c} : toS'[x] = toS[x]
    BY <1>1, <1>7, AppendedParts
  <2>4. /\ hist'.lost = hist.lost /\ hist'.untold = hist.untold /\ hist'.ignored = hist.ignored
        /\ hist'.late = hist.late /\ hist'.unblamed = hist.unblamed
        /\ hist'.impatient = hist.impatient /\ hist'.nak = hist.nak \cup {<<"client", c>>}
        /\ hist'.waiting = hist.waiting \ {c}
    BY <1>1, <1>7 DEF Hists
  <2>5. \A n \in hist'.nak : n \in hist.nak \/ (n[1] = "client" /\ hist.late)
    BY <2>1, <2>4
  <2>6. OnlyClient(c)
    BY <1>3, <1>4, <2>2, <2>3, <2>4, <2>5 DEF OnlyClient
  <2>7. PeerInv(c)'
    <3>1. (Plays(c)' <=> Plays(c)) /\ read' = read /\ c \notin hist'.waiting
      BY <1>3, <2>4 DEF Plays
    <3> QED BY <1>1, <1>4, <2>2, <2>3, <2>4, <3>1, GoneClient DEF PeerInv
  <2> QED BY <1>5, <2>6, <2>7, OnlyClientStep
<1> QED BY <1>2, <1>6, <1>7, Zenon DEF ClientFrame

-----------------------------------------------------------------------------
(* A client that no longer plays reads what is on the way as if it did.    *)

Likewise(e, t) ==
  /\ t.mode = (IF e.mode = "playing" THEN "spectating" ELSE e.mode)
  /\ t.server = e.server /\ t.out = e.out
  /\ \A p \in Peer : t.view[p] = e.view[p] /\ t.read[p] = e.read[p]

(* A client that has stopped to play reads what the others do as it did    *)
(* before.                                                                 *)
LEMMA ReadsLikewise ==
  ASSUME NEW c \in Client, NEW e \in States, NEW t \in States, Likewise(e, t),
         NEW m \in ToClient, ~Yours(m), NEW x, x = Handle(c, e, m), NEW y, y = Handle(c, t, m)
  PROVE  Likewise(x, y)
<1>1. Likewise(NoClient, NoClient)
  BY DEF Likewise, NoClient
<1>2. CASE e.mode = "none"
  <2>1. x = e /\ y = t
    BY <1>2 DEF Handle, Likewise
  <2> QED BY <2>1
<1>3. CASE e.mode # "none"
  <2>0. t.mode # "none"
    BY <1>3 DEF Likewise
  <2>1. ASSUME NEW f \in Nat, NEW p \in Peer, m = InputCmd(f, p) PROVE Likewise(x, y)
    <3>1. CASE e.view[p] # {} /\ f <= e.read[p]
      <4>1. t.view[p] # {} /\ f <= t.read[p]
        BY <3>1 DEF Likewise
      <4>2. InputRead(e, f, p, x) /\ InputRead(t, f, p, y)
        BY <1>3, <2>0, <2>1, <3>1, <4>1, ReadInput
      <4> QED BY <4>2 DEF InputRead, SamePlace, Likewise
    <3>2. CASE ~(e.view[p] # {} /\ f <= e.read[p])
      <4>1. ~(t.view[p] # {} /\ f <= t.read[p])
        BY <3>2 DEF Likewise
      <4>2. m.t = "input" /\ m.peer = p /\ m.frame = f
        BY <2>1 DEF InputCmd
      <4>3. ~Accepts(e, m) /\ ~Accepts(t, m)
        BY <3>2, <4>1, <4>2 DEF Accepts
      <4> QED BY <1>1, <1>3, <2>0, <4>3 DEF Handle
    <3> QED BY <3>1, <3>2
  <2>2. ASSUME NEW f \in Nat, m = NoInputCmd(f) PROVE Likewise(x, y)
    <3>0. m.t = "noinput" /\ m.frame = f
      BY <2>2 DEF NoInputCmd
    <3>1. CASE f <= e.server
      <4>1. Accepts(e, m) /\ Accepts(t, m)
        BY <3>0, <3>1 DEF Accepts, Likewise
      <4>2. x = HandleNoInput(e, m) /\ y = HandleNoInput(t, m)
        BY <1>3, <2>0, <3>0, <4>1 DEF Handle
      <4>3. NoInputRead(e, f, x) /\ NoInputRead(t, f, y)
        BY <1>3, <2>0, <2>2, <4>2, NoInputEffect
      <4> QED BY <4>3 DEF NoInputRead, SamePlace, Likewise
    <3>2. CASE ~(f <= e.server)
      <4>1. ~Accepts(e, m) /\ ~Accepts(t, m)
        BY <3>0, <3>2 DEF Accepts, Likewise
      <4> QED BY <1>1, <1>3, <2>0, <4>1 DEF Handle
    <3> QED BY <3>1, <3>2
  <2>3. ASSUME NEW f \in Nat, NEW p \in Peer, NEW ds \in SUBSET Devices, NEW you \in BOOLEAN,
               m = ModeCmd(f, p, ds, you)
        PROVE  Likewise(x, y)
    <3>0. m.t = "mode" /\ m.frame = f /\ m.devs = ds /\ m.peer = p /\ ~you /\ ~m.you
      <4>1. m.t = "mode" /\ m.frame = f /\ m.devs = ds /\ m.peer = p /\ (m.you <=> you)
        BY <2>3 DEF ModeCmd
      <4> QED BY <4>1 DEF Yours
    <3>1. CASE ds = {}
      <4>1. Departs(e, p, x) /\ Departs(t, p, y)
        BY <1>3, <2>0, <2>3, <3>0, <3>1, ReadDeparture
      <4> QED BY <4>1 DEF Departs, SamePlace, Likewise
    <3>2. CASE ds # {} /\ f = e.server
      <4>1. f = t.server
        BY <3>2 DEF Likewise
      <4>2. Joins(c, e, f, p, ds, you, x) /\ Joins(c, t, f, p, ds, you, y)
        BY <1>3, <2>0, <2>3, <3>0, <3>2, <4>1, ReadJoin
      <4> QED BY <3>0, <4>2 DEF Joins, SamePlace, Likewise
    <3>3. CASE ds # {} /\ f # e.server
      <4>1. ~Accepts(e, m) /\ ~Accepts(t, m)
        BY <3>0, <3>3 DEF Accepts, Likewise
      <4> QED BY <1>1, <1>3, <2>0, <4>1 DEF Handle
    <3> QED BY <3>1, <3>2, <3>3
  <2>4. ASSUME NEW f \in Nat, m = LoadCmd(f) PROVE Likewise(x, y)
    <3>1. CASE f = e.server
      <4>1. f = t.server
        BY <3>1 DEF Likewise
      <4>2. Loads(e, f, x) /\ Loads(t, f, y)
        BY <1>3, <2>0, <2>4, <3>1, <4>1, ReadLoad
      <4> QED BY <4>2 DEF Loads, Likewise
    <3>2. CASE f # e.server
      <4>0. m.t = "load" /\ m.frame = f
        BY <2>4 DEF LoadCmd
      <4>1. ~Accepts(e, m) /\ ~Accepts(t, m)
        BY <3>2, <4>0 DEF Accepts, Likewise
      <4> QED BY <1>1, <1>3, <2>0, <4>1 DEF Handle
    <3> QED BY <3>1, <3>2
  <2>5. CASE m = [t |-> "refused"]
    BY <2>5, ReadRefusal
  <2>6. ASSUME NEW f \in Nat, NEW v \in Views, m = SyncOf(f, v) PROVE Likewise(x, y)
    <3>1. Synced(e, f, v, x) /\ Synced(t, f, v, y)
      BY <1>3, <2>0, <2>6, ReadSync
    <3> QED BY <3>1 DEF Synced, Likewise
  <2> QED BY <2>1, <2>2, <2>3, <2>4, <2>5, <2>6 DEF ToClient, SyncOf
<1> QED BY <1>2, <1>3

LEMMA AfterLikewise ==
  ASSUME NEW c \in Client, NEW s \in States, NEW u \in States, Likewise(s, u),
         NEW ms \in Seq(ToClient), \A i \in 1..Len(ms) : ~Yours(ms[i]),
         NEW f, f = After(c, s, ms), NEW g, g = After(c, u, ms)
  PROVE  \A i \in 0..Len(ms) : f[i] \in States /\ g[i] \in States /\ Likewise(f[i], g[i])
<1>1. Len(ms) \in Nat
  OBVIOUS
<1>2. /\ f[0] = s /\ \A i \in 1..Len(ms) : f[i] = Handle(c, f[i - 1], ms[i])
      /\ g[0] = u /\ \A i \in 1..Len(ms) : g[i] = Handle(c, g[i - 1], ms[i])
  BY <1>1, AfterReads
<1>3. \A i \in 0..Len(ms) : f[i] \in States /\ g[i] \in States
  BY AfterIsState
<1> DEFINE Bad == {i \in 0..Len(ms) : ~Likewise(f[i], g[i])}
<1>4. ASSUME Bad # {} PROVE FALSE
  <2>1. PICK i \in Bad : \A j \in Bad : i <= j
    <3>1. Bad \in SUBSET Nat
      OBVIOUS
    <3> HIDE DEF Bad
    <3> QED BY <1>4, <3>1, LeastMember
  <2>2. i # 0
    BY <2>1, <1>2
  <2>3. i - 1 \in 0..Len(ms) /\ i - 1 \notin Bad /\ i \in 1..Len(ms)
    BY <1>1, <2>1, <2>2
  <2>4. PICK e \in States, t \in States, m \in ToClient :
          e = f[i - 1] /\ t = g[i - 1] /\ m = ms[i] /\ Likewise(e, t) /\ ~Yours(m)
    BY <1>3, <2>3
  <2>5. f[i] = Handle(c, e, m) /\ g[i] = Handle(c, t, m)
    BY <1>2, <2>3, <2>4
  <2>6. Likewise(f[i], g[i])
    BY <2>4, <2>5, ReadsLikewise
  <2> QED BY <2>1, <2>6
<1> QED BY <1>3, <1>4

(* The client watches: cl'[c] is as cl[c] but for the mode.                *)
LEMMA TurnedAway ==
  ASSUME Types, Types', NEW c \in Client, Likewise(cl[c], cl'[c]), toC'[c] = toC[c], Quiet(c)
  PROVE  /\ Likewise(Polled(c), Polled(c)')
         /\ \A i \in 0..Len(toC[c]) : Likewise(Reading(c)[i], Reading(c)'[i])
         /\ Polled(c)' \in States
<1>1. PICK ms \in Seq(ToClient), s \in States, u \in States :
        ms = toC[c] /\ s = cl[c] /\ u = cl'[c] /\ toC'[c] = ms
  BY PolledIsState DEF Types
<1>2. PICK f, g : f = After(c, s, ms) /\ g = After(c, u, ms)
  OBVIOUS
<1>3. \A i \in 0..Len(ms) : f[i] \in States /\ g[i] \in States /\ Likewise(f[i], g[i])
  BY <1>1, <1>2, AfterLikewise DEF Quiet
<1>4. Reading(c) = f /\ Reading(c)' = g
  <2> HIDE DEF After
  <2> QED BY <1>1, <1>2 DEF Reading
<1>5. Len(ms) \in 0..Len(ms)
  BY <1>1
<1>6. Polled(c) = f[Len(ms)] /\ Polled(c)' = g[Len(ms)]
  BY <1>1, <1>4 DEF Polled
<1> QED BY <1>1, <1>3, <1>4, <1>5, <1>6

-----------------------------------------------------------------------------
(* A client toggles. *)

Stopped(u, s) ==
  /\ Likewise(s, u) /\ u.mode = "spectating" /\ s.mode = "playing" /\ u.out = s.out

LEMMA StopPlaying ==
  ASSUME Types, NEW c \in Client, cl[c].mode = "playing",
         cl' = [cl EXCEPT ![c].mode = "spectating"]
  PROVE  Stopped(cl'[c], cl[c]) /\ \A x \in Client \ {c} : cl'[x] = cl[x]
<1>1. PICK s \in States : s = cl[c]
  BY DEF Types
<1>2. cl'[c] = [s EXCEPT !.mode = "spectating"] /\ \A x \in Client \ {c} : cl'[x] = cl[x]
  BY <1>1 DEF Types
<1>3. PICK u : u = [s EXCEPT !.mode = "spectating"]
  OBVIOUS
<1>4. /\ u.mode = "spectating" /\ u.out = s.out /\ u.view = s.view /\ u.read = s.read
      /\ u.server = s.server
  BY <1>3 DEF States, Fields
<1> QED BY <1>1, <1>2, <1>3, <1>4 DEF Stopped, Likewise

(* One more command that is no answer: what was on the way is as it was.   *)
LEMMA StopTalks ==
  ASSUME Types, Types', NEW c \in Client, cl[c].mode = "playing", Stopped(cl'[c], cl[c]),
         toC'[c] = toC[c], toS'[c] = Append(toS[c], [t |-> "spectate"]),
         Plays(c)' <=> Plays(c), read' = read, hist' = hist, Talks(c)
  PROVE  Talks(c)'
<1>1. PICK q \in Seq(ToServer), p \in Seq(ToServer), m \in ToServer :
        q = toS[c] /\ p = toS'[c] /\ m = [t |-> "spectate"] /\ p = Append(q, m)
  BY PolledIsState, ClosedIsCommand DEF Types
<1>2. /\ Len(q) \in Nat /\ Len(p) = Len(q) + 1 /\ p[Len(p)] = m
      /\ \A i \in 1..Len(q) : i \in 1..Len(p) /\ p[i] = q[i]
      /\ \A i \in 1..Len(p) : i = Len(p) \/ i \in 1..Len(q)
  BY <1>1, AppendParts
<1>3. m.t = "spectate" /\ read[c] \in Nat
  BY <1>1, ReadIsNat
<1>4. Plays(c) /\ ~Has(q, "spectate") /\ Quiet(c) /\ cl[c].out = <<>>
  BY <1>1 DEF Talks, Modes
<1>5. (Quiet(c)' <=> Quiet(c)) /\ (Answered(c)' <=> Answered(c))
  BY DEF Quiet, Answered
<1>6. cl'[c].mode = "spectating" /\ cl'[c].out = <<>>
  BY <1>4 DEF Stopped
<1>7. Has(p, "spectate") /\ (Has(p, "play") <=> Has(q, "play"))
  BY <1>1, <1>3, HasAppend
<1>8. Piped(c)'
  <2>1. InTurn(p, read[c])
    BY <1>1, <1>3, InTurnAppend DEF Talks, Piped
  <2>2. ASSUME NEW i \in 1..Len(p), p[i].t \in {"input", "spectate"}, NEW j \in 1..Len(p), j < i
        PROVE  p[j].t # "spectate"
    <3>1. j \in 1..Len(q) /\ p[j] = q[j]
      BY <1>2, <2>2
    <3> QED BY <1>4, <3>1 DEF Has
  <2> QED BY <1>1, <1>4, <2>1, <2>2 DEF Piped
<1>9. Modes(c)'
  BY <1>1, <1>6, <1>7 DEF Modes
<1>10. Requests(c)'
  <2>1. c \in hist.waiting => Has(q, "play") \/ Answered(c) \/ c \in hist.ignored
    BY <1>1 DEF Talks, Requests
  <2>2. Connected(c)'
    BY <1>6 DEF Connected
  <2> QED BY <1>1, <1>5, <1>7, <2>1, <2>2 DEF Requests
<1>11. Patient(c)'
  <2> SUFFICES ASSUME c \notin hist.impatient PROVE Patient(c)'
    BY DEF Patient
  <2>1. Connected(c)
    BY DEF Connected
  <2>2. /\ \A i \in 1..Len(q) : q[i].t = "play" =>
             /\ Plays(c) => \E j \in 1..Len(q) : j < i /\ q[j].t = "spectate"
             /\ \A j \in 1..Len(q) : q[j].t = "play" => i = j
             /\ ~Answered(c)
             /\ c \in hist.waiting
        /\ Answered(c) => c \in hist.waiting
    BY <1>1, <2>1 DEF Talks, Patient
  <2>3. ASSUME NEW i \in 1..Len(p), p[i].t = "play" PROVE i \in 1..Len(q) /\ q[i].t = "play"
    BY <1>2, <1>3, <2>3
  <2>4. ASSUME NEW i \in 1..Len(p), p[i].t = "play"
        PROVE  /\ Plays(c) => \E j \in 1..Len(p) : j < i /\ p[j].t = "spectate"
               /\ \A j \in 1..Len(p) : p[j].t = "play" => i = j
               /\ ~Answered(c)
               /\ c \in hist.waiting
    <3>1. i \in 1..Len(q) /\ q[i].t = "play"
      BY <2>3, <2>4
    <3>2. PICK j \in 1..Len(q) : j < i /\ q[j].t = "spectate"
      BY <1>4, <2>2, <3>1
    <3>3. j \in 1..Len(p) /\ p[j].t = "spectate"
      BY <1>2, <3>2
    <3>4. \A k \in 1..Len(p) : p[k].t = "play" => i = k
      BY <2>2, <2>3, <3>1
    <3> QED BY <2>2, <3>1, <3>2, <3>3, <3>4
  <2> QED BY <1>1, <1>5, <2>2, <2>4 DEF Patient
<1> QED BY <1>8, <1>9, <1>10, <1>11 DEF Talks

(* SPECTATE is sent: the server takes the input of c until it reads it. *)
LEMMA StopPeer ==
  ASSUME Types, Types', NEW c \in Client, cl[c].mode = "playing", Stopped(cl'[c], cl[c]),
         toC'[c] = toC[c], toS'[c] = Append(toS[c], [t |-> "spectate"]),
         UNCHANGED <<srv, conn, read, devs, hist>>, PeerInv(c)
  PROVE  PeerInv(c)'
<1>1. PICK e \in States, t \in States : e = Polled(c) /\ t = Polled(c)'
  BY PolledIsState, TurnedAway DEF PeerInv, Talks, Modes, Stopped
<1>2. /\ Likewise(e, t) /\ \A i \in 0..Len(toC[c]) : Likewise(Reading(c)[i], Reading(c)'[i])
  BY <1>1, TurnedAway DEF PeerInv, Talks, Modes, Stopped
<1>3. Plays(c)' <=> Plays(c)
  BY DEF Plays
<1>4. Talks(c)'
  BY <1>3, StopTalks DEF PeerInv
<1>5. Complete(c)'
  <2> SUFFICES ASSUME NEW i \in 1..Len(toC[c]) PROVE AfterItsInput(c, Reading(c)[i - 1], toC[c][i])'
    BY DEF Complete
  <2>1. PICK x, y, m : x = Reading(c)[i - 1] /\ y = Reading(c)'[i - 1] /\ m = toC[c][i]
    OBVIOUS
  <2>2. AfterItsInput(c, x, m)
    BY <2>1 DEF PeerInv, Complete
  <2>3. toC[c] \in Seq(ToClient)
    BY PolledIsState
  <2>4. i - 1 \in 0..Len(toC[c]) /\ m \in ToClient
    BY <2>1, <2>3
  <2>5. Likewise(x, y)
    BY <1>2, <2>1, <2>4
  <2>6. m.t = "mode" => m.peer \in Peer
    BY <2>4 DEF ToClient, InputCmd, NoInputCmd, ModeCmd, LoadCmd
  <2>7. AfterItsInput(c, y, m)'
    BY <2>2, <2>5, <2>6 DEF AfterItsInput, Likewise
  <2> QED BY <2>1, <2>7
<1>6. CASE e.mode = "none"
  <2>1. t.mode = "none"
    BY <1>2, <1>6 DEF Likewise
  <2>2. hist'.late
    BY <1>1, <1>6 DEF PeerInv
  <2> QED BY <1>1, <1>4, <1>5, <2>1, <2>2 DEF PeerInv
<1>7. CASE e.mode # "none"
  <2>1. Follows(c, e) /\ Sends(c, e)
    BY <1>1, <1>7 DEF PeerInv
  <2>2. t.mode = "spectating"
    BY <1>2, <2>1 DEF Follows, Likewise
  <2>3. Follows(c, t)'
    <3>0. 0 \in Peer /\ c \in Peer /\ Client \subseteq Peer
      BY ServerIsPeer
    <3>1. t.server = e.server /\ \A p \in Peer : t.view[p] = e.view[p] /\ t.read[p] = e.read[p]
      BY <1>2 DEF Likewise
    <3>2. ServerRead' = ServerRead /\ Grows
      BY DEF ServerRead, Grows
    <3>3. \A p \in Client \ {c} : Knows(c, t, p)'
      BY <2>1, <3>0, <3>1, <3>2, SameKnows DEF Follows
    <3> QED BY <2>1, <2>2, <3>0, <3>1, <3>2, <3>3 DEF Follows
  <2>4. Sends(c, t)'
    <3>1. t.out = <<>>
      BY <1>2, <2>1 DEF Likewise, Sends
    <3>2. Len(t.out) = 0
      BY <3>1
    <3>3. Has(toS'[c], "spectate")
      <4>1. PICK q \in Seq(ToServer), m \in ToServer : q = toS[c] /\ m = [t |-> "spectate"]
        BY PolledIsState, ClosedIsCommand
      <4>2. PICK p : p = Append(q, m) /\ toS'[c] = p /\ m.t = "spectate"
        BY <4>1
      <4>3. Has(p, "spectate")
        BY <4>2, HasAppend
      <4> QED BY <4>2, <4>3
    <3>4. InTurn(t.out, read'[c]) /\ ~Has(t.out, "input") /\ \A i \in 1..Len(t.out) : FALSE
      BY <3>2 DEF InTurn, Has
    <3>5. cl'[c].mode = "spectating"
      BY DEF Stopped
    <3> QED BY <2>2, <3>3, <3>4, <3>5 DEF Sends
  <2> QED BY <1>1, <1>4, <1>5, <2>2, <2>3, <2>4 DEF PeerInv
<1> QED BY <1>6, <1>7

(* The client asks to play.                                                *)
Asks(c, m) ==
  /\ m \in ToServer /\ m.t = "play" /\ toS'[c] = Append(toS[c], m)
  /\ cl[c].mode = "spectating" /\ cl'[c] = cl[c] /\ toC'[c] = toC[c]
  /\ UNCHANGED <<srv, conn, read, devs>>
  /\ c \in hist'.waiting /\ (c \in hist'.impatient <=> c \in hist.impatient \/ c \in hist.waiting)
  /\ hist'.ignored = hist.ignored /\ hist'.lost = hist.lost /\ hist'.untold = hist.untold
  /\ hist'.late = hist.late

(* PLAY is sent: one request is on the way. *)
LEMMA AskTalks ==
  ASSUME Types, Types', NEW c \in Client, NEW m, Asks(c, m), Talks(c)
  PROVE  Talks(c)'
<1>1. PICK q \in Seq(ToServer), p \in Seq(ToServer) : q = toS[c] /\ p = toS'[c] /\ p = Append(q, m)
  BY PolledIsState DEF Types, Asks
<1>0. m \in ToServer /\ m.t = "play" /\ read[c] \in Nat /\ read' = read
  BY ReadIsNat DEF Asks
<1>2. /\ Len(q) \in Nat /\ Len(p) = Len(q) + 1 /\ p[Len(p)] = m
      /\ \A i \in 1..Len(q) : i \in 1..Len(p) /\ p[i] = q[i]
      /\ \A i \in 1..Len(p) : i = Len(p) \/ i \in 1..Len(q)
  BY <1>0, <1>1, AppendParts
<1>3. /\ cl[c].mode = "spectating" /\ cl'[c] = cl[c] /\ c \in hist'.waiting
      /\ (c \in hist'.impatient <=> c \in hist.impatient \/ c \in hist.waiting)
      /\ (Plays(c)' <=> Plays(c)) /\ Connected(c)' /\ Connected(c)
  BY DEF Asks, Plays, Connected
<1>4. (Quiet(c)' <=> Quiet(c)) /\ (Answered(c)' <=> Answered(c))
  BY DEF Quiet, Answered, Asks
<1>5. Has(p, "play") /\ (Has(p, "spectate") <=> Has(q, "spectate"))
  BY <1>0, <1>1, HasAppend
<1>6. Piped(c)'
  <2>1. InTurn(p, read[c])
    BY <1>0, <1>1, InTurnAppend DEF Talks, Piped
  <2>2. \A i \in 1..Len(q) : q[i].t \in {"input", "spectate"} =>
          Plays(c) /\ \A j \in 1..Len(q) : j < i => q[j].t # "spectate"
    BY <1>1 DEF Talks, Piped
  <2>3. ASSUME NEW i \in 1..Len(p), p[i].t \in {"input", "spectate"}
        PROVE  Plays(c) /\ \A j \in 1..Len(p) : j < i => p[j].t # "spectate"
    <3>1. i \in 1..Len(q) /\ p[i] = q[i]
      BY <1>0, <1>2, <2>3
    <3>2. ASSUME NEW j \in 1..Len(p), j < i PROVE p[j].t # "spectate"
      <4>1. j \in 1..Len(q)
        BY <1>2, <3>1, <3>2
      <4> QED BY <1>2, <2>2, <2>3, <3>1, <3>2, <4>1
    <3> QED BY <2>2, <2>3, <3>1, <3>2
  <2> QED BY <1>0, <1>1, <1>3, <2>1, <2>3 DEF Piped
<1>7. Modes(c)'
  BY <1>1, <1>3, <1>4, <1>5 DEF Talks, Modes
<1>8. Requests(c)'
  BY <1>1, <1>3, <1>5 DEF Requests
<1>9. Patient(c)'
  <2> SUFFICES ASSUME c \notin hist'.impatient PROVE Patient(c)'
    BY DEF Patient
  <2>1. c \notin hist.waiting /\ c \notin hist.impatient
    BY <1>3
  <2>2. ~Answered(c) /\ \A i \in 1..Len(q) : q[i].t # "play"
    BY <1>1, <1>3, <2>1 DEF Talks, Patient
  <2>3. ASSUME NEW i \in 1..Len(p), p[i].t = "play" PROVE i = Len(p)
    BY <1>2, <2>2, <2>3
  <2>4. Plays(c) => Has(q, "spectate")
    BY <1>1, <1>3, <2>2 DEF Talks, Modes
  <2>5. Plays(c) => \E j \in 1..Len(p) : j < Len(p) /\ p[j].t = "spectate"
    <3> HAVE Plays(c)
    <3>1. PICK j \in 1..Len(q) : q[j].t = "spectate"
      BY <2>4 DEF Has
    <3>2. j \in 1..Len(p) /\ p[j].t = "spectate" /\ j < Len(p)
      BY <1>2, <3>1
    <3> QED BY <3>2
  <2>6. ASSUME NEW i \in 1..Len(p), p[i].t = "play"
        PROVE  /\ Plays(c) => \E j \in 1..Len(p) : j < i /\ p[j].t = "spectate"
               /\ \A j \in 1..Len(p) : p[j].t = "play" => i = j
    BY <2>3, <2>5, <2>6
  <2> QED BY <1>1, <1>3, <1>4, <2>2, <2>6 DEF Patient
<1> QED BY <1>6, <1>7, <1>8, <1>9 DEF Talks

LEMMA AskPeer ==
  ASSUME Types, Types', NEW c \in Client, NEW m, Asks(c, m), PeerInv(c)
  PROVE  PeerInv(c)'
<1>1. PICK e \in States : e = Polled(c)
  BY PolledIsState
<1>2. cl'[c] = cl[c] /\ toC'[c] = toC[c] /\ cl[c].mode = "spectating" /\ Grows
      /\ (Plays(c)' <=> Plays(c)) /\ UNCHANGED <<srv, conn, read, devs>>
      /\ hist'.lost = hist.lost /\ hist'.untold = hist.untold /\ hist'.late = hist.late
  BY DEF Asks, Grows, Plays
<1>3. Polled(c)' = e
  BY <1>1, <1>2, SamePolled
<1>4. Complete(c)' /\ Talks(c)'
  BY <1>2, CompleteKept, AskTalks DEF PeerInv
<1>5. ASSUME e.mode # "none" PROVE Follows(c, e)' /\ Sends(c, e)'
  <2>1. Follows(c, e) /\ Sends(c, e)
    BY <1>1, <1>5 DEF PeerInv
  <2>2. Follows(c, e)'
    BY <1>2, <2>1 DEF Follows, Knows, Owed, ServerRead
  <2>3. PICK q, p : q \in Seq(ToServer) /\ q = toS[c] /\ p = Append(q, m) /\ toS'[c] = p
    BY PolledIsState DEF Asks
  <2>4. Has(p, "spectate") <=> Has(q, "spectate")
    BY <2>3, HasAppend DEF Asks
  <2>5. Sends(c, e)'
    BY <1>2, <2>1, <2>3, <2>4 DEF Sends
  <2> QED BY <2>2, <2>5
<1> QED BY <1>1, <1>2, <1>3, <1>4, <1>5 DEF PeerInv

(* The toggle keeps the invariant. *)
LEMMA ClientToggleStep ==
  ASSUME IInv, Types', NEW c \in Client, ClientToggle(c)
  PROVE  IInv'
<1>1. Types /\ Roles /\ hist \in Hists /\ PeerInv(c)
  BY DEF IInv, Types
<1>2. UNCHANGED <<srv, conn, read, devs, toC>>
  BY DEF ClientToggle
<1>3. CASE /\ cl[c].mode = "playing"
           /\ cl' = [cl EXCEPT ![c].mode = "spectating"]
           /\ toS' = [toS EXCEPT ![c] = Append(@, [t |-> "spectate"])]
           /\ UNCHANGED hist
  <2>1. Stopped(cl'[c], cl[c]) /\ \A x \in Client \ {c} : cl'[x] = cl[x]
    BY <1>1, <1>3, StopPlaying
  <2>2. /\ toS'[c] = Append(toS[c], [t |-> "spectate"])
        /\ \A x \in Client \ {c} : toS'[x] = toS[x]
    BY <1>1, <1>3, AppendedParts
  <2>3. OnlyClient(c)
    BY <1>2, <1>3, <2>1, <2>2 DEF OnlyClient
  <2>4. PeerInv(c)'
    BY <1>1, <1>2, <1>3, <2>1, <2>2, StopPeer
  <2>5. conn[c].active
    BY <1>1, <1>3 DEF Roles, Role
  <2> QED BY <2>3, <2>4, <2>5, OnlyClientStep
<1>4. CASE /\ cl[c].mode = "spectating"
           /\ \E r \in Ask[c] : toS' = [toS EXCEPT ![c] = Append(@, PlayCmd(r))]
           /\ hist' = [hist EXCEPT !.waiting = @ \cup {c},
                         !.impatient = IF c \in hist.waiting THEN @ \cup {c} ELSE @]
           /\ UNCHANGED cl
  <2>1. PICK r \in Ask[c] : toS' = [toS EXCEPT ![c] = Append(@, PlayCmd(r))]
    BY <1>4
  <2>2. PICK m \in ToServer : m = PlayCmd(r)
    BY ServerIsPeer DEF ToServer, Requested
  <2>3. /\ toS'[c] = Append(toS[c], m) /\ m.t = "play"
        /\ \A x \in Client \ {c} : toS'[x] = toS[x]
    BY <1>1, <2>1, <2>2, AppendedParts DEF PlayCmd
  <2>4. PICK i : i = IF c \in hist.waiting THEN hist.impatient \cup {c} ELSE hist.impatient
    OBVIOUS
  <2>5. hist' = [hist EXCEPT !.waiting = @ \cup {c}, !.impatient = i]
    BY <1>4, <2>4
  <2>6. /\ hist'.lost = hist.lost /\ hist'.untold = hist.untold /\ hist'.ignored = hist.ignored
        /\ hist'.late = hist.late /\ hist'.unblamed = hist.unblamed /\ hist'.nak = hist.nak
        /\ hist'.waiting = hist.waiting \cup {c} /\ hist'.impatient = i
    BY <1>1, <2>5 DEF Hists
  <2>7. OnlyClient(c)
    BY <1>2, <1>4, <2>3, <2>4, <2>6 DEF OnlyClient
  <2>8. Asks(c, m)
    BY <1>2, <1>4, <2>3, <2>4, <2>6 DEF Asks
  <2>9. PeerInv(c)'
    BY <1>1, <2>8, AskPeer
  <2>10. conn[c].active
    BY <1>1, <1>4 DEF Roles, Role
  <2> QED BY <2>7, <2>9, <2>10, OnlyClientStep
<1> QED BY <1>3, <1>4 DEF ClientToggle

-----------------------------------------------------------------------------
(* A client joins. *)

(* What the newcomer is, and what it is sent.                              *)
Newcomer(c, u, ms) ==
  /\ u \in States /\ u.mode = "pre_sync" /\ Len(u.out) <= 1
  /\ \A i \in 1..Len(u.out) : u.out[i].t = "play"
  /\ ms \in Seq(ToClient)
  /\ \A i \in 1..Len(ms) : ms[i].t \in {"sync", "input", "noinput"}

IsWelcome(c, ms) == ms = <<SyncOf(srv.self, devs)>> \o CurInput(c, read)

(* SYNC and the input of the frame make a newcomer one that follows. *)
LEMMA NewcomerReads ==
  ASSUME Types, Roles, srv.phase = "poll", NEW c \in Client, NEW u \in States, u.mode = "pre_sync",
         NEW ms, IsWelcome(c, ms), NEW h, h = After(c, u, ms)
  PROVE  /\ ms \in Seq(ToClient) /\ \A i \in 1..Len(ms) : ms[i].t \in {"sync", "input", "noinput"}
         /\ h[Len(ms)] \in States /\ h[Len(ms)].mode = "spectating" /\ h[Len(ms)].out = u.out
         /\ h[Len(ms)].server = ServerRead /\ h[Len(ms)].view = devs
         /\ devs[0] # {} => h[Len(ms)].read[0] = ServerRead
         /\ \A p \in Client \ {c} : devs[p] # {} =>
              h[Len(ms)].read[p] >= read[p] \/ h[Len(ms)].read[p] >= ServerRead
<1>1. /\ srv.self \in Nat /\ srv.playing \in BOOLEAN /\ devs \in Views /\ ServerRead = srv.self + 1
      /\ 0 \in Peer /\ Client \subseteq Peer /\ (srv.playing <=> devs[0] # {})
  BY ServerIsPeer DEF Types, Servers, ServerRead, Roles
<1>2. PICK m \in ToClient : m = SyncOf(srv.self, devs)
  BY <1>1, SyncIsCommand
<1>3. PICK s1 \in Seq(ToClient) : s1 = <<m>> /\ Len(s1) = 1 /\ s1[1] = m
  <2>1. <<m>> \in Seq(ToClient)
    OBVIOUS
  <2> QED BY <2>1
<1>4. PICK ns : ns = CurInput(c, read)
  OBVIOUS
<1>5. ns \in Seq(ToClient) /\ \A i \in 1..Len(ns) : ns[i].t \in {"input", "noinput"}
  BY <1>1, <1>4, CurInputKinds
<1>6. ms = s1 \o ns
  BY <1>2, <1>3, <1>4 DEF IsWelcome
<1>7. ms \in Seq(ToClient) /\ IsConcat(ms, s1, ns)
  BY <1>5, <1>6, ConcatParts
<1>8. \A i \in 1..Len(ms) : ms[i].t \in {"sync", "input", "noinput"}
  <2>1. m.t = "sync"
    BY <1>2 DEF SyncOf
  <2>2. \A i \in 1..Len(s1) : s1[i] = m
    BY <1>3
  <2>3. /\ Len(s1) \in Nat /\ Len(ns) \in Nat /\ Len(ms) = Len(s1) + Len(ns)
        /\ \A i \in 1..Len(s1) : ms[i] = s1[i]
        /\ \A i \in 1..Len(ns) : ms[Len(s1) + i] = ns[i]
    BY <1>3, <1>5, <1>7 DEF IsConcat
  <2>4. ASSUME NEW i \in 1..Len(ms) PROVE ms[i].t \in {"sync", "input", "noinput"}
    <3>1. CASE i <= Len(s1)
      <4>1. ms[i] = m
        BY <2>2, <2>3, <3>1
      <4> QED BY <2>1, <4>1
    <3>2. CASE i > Len(s1)
      <4>0. PICK a \in Nat, b \in Nat, d \in Nat : a = Len(s1) /\ b = Len(ns) /\ d = Len(ms) /\ d = a + b
        BY <2>3
      <4>00. i \in 1..d /\ i > a
        BY <3>2, <4>0
      <4>000. i - a \in 1..b
        BY <4>0, <4>00
      <4>1. PICK k \in 1..Len(ns) : k = i - Len(s1)
        BY <4>0, <4>000
      <4>2. Len(s1) + k = i
        BY <2>3, <4>1
      <4>3. ms[i] = ns[k]
        BY <2>3, <4>1, <4>2
      <4> QED BY <1>5, <4>1, <4>3
    <3> QED BY <2>3, <3>1, <3>2
  <2> QED BY <2>4
<1>9. PICK f : f = After(c, u, s1)
  OBVIOUS
<1>10. PICK e : e = f[1]
  OBVIOUS
<1>11. e = Handle(c, u, m)
  <2>1. Len(s1) \in Nat /\ 1 \in 1..Len(s1)
    BY <1>3
  <2>2. f[0] = u /\ \A i \in 1..Len(s1) : f[i] = Handle(c, f[i - 1], s1[i])
    BY <1>9, <2>1, AfterReads
  <2>3. f[1] = Handle(c, f[1 - 1], s1[1])
    BY <2>1, <2>2
  <2>4. 1 - 1 = 0
    OBVIOUS
  <2> QED BY <1>3, <1>10, <2>2, <2>3, <2>4
<1>12. Synced(u, srv.self, devs, e)
  BY <1>1, <1>2, <1>11, ReadSync
<1>13. /\ e \in States /\ e.mode = "spectating" /\ e.server = srv.self /\ e.view = devs
       /\ e.out = u.out /\ \A p \in Peer : devs[p] # {} => e.read[p] = srv.self
  BY <1>12 DEF Synced
<1>14. CanReadFrame(c, e, read)
  <2>1. \A p \in Ahead(c, read) : e.view[p] # {} /\ srv.self <= e.read[p]
    BY <1>1, <1>13 DEF Ahead
  <2> QED BY <1>1, <1>13, <2>1 DEF CanReadFrame
<1>15. PICK g : g = After(c, e, ns)
  OBVIOUS
<1>16. FrameRead(e, g[Len(ns)], Ahead(c, read))
  BY <1>1, <1>4, <1>13, <1>14, <1>15, CurInputIsRead
<1>17. h[Len(ms)] = g[Len(ns)]
  <2>1. Len(ns) \in 0..Len(ns) /\ Len(ms) = Len(s1) + Len(ns)
    BY <1>5, <1>7 DEF IsConcat
  <2>2. After(c, u, s1 \o ns)[Len(s1) + Len(ns)] = After(c, After(c, u, s1)[Len(s1)], ns)[Len(ns)]
    BY <1>5, <2>1, AfterConcat
  <2>3. After(c, u, s1)[Len(s1)] = e
    BY <1>3, <1>9, <1>10
  <2>4. h[Len(ms)] = After(c, u, s1 \o ns)[Len(s1) + Len(ns)]
    BY <1>6, <2>1
  <2> QED BY <1>15, <2>2, <2>3, <2>4
<1>18. PICK t : t = h[Len(ms)]
  OBVIOUS
<1>19. /\ t \in States /\ SamePlace(e, t) /\ t.view = e.view /\ t.server = srv.self + 1
       /\ \A p \in Peer : t.read[p] >= e.read[p]
       /\ \A p \in Ahead(c, read) : t.read[p] >= srv.self + 1
       /\ srv.playing => t.read[0] = srv.self + 1
  BY <1>16, <1>17, <1>18 DEF FrameRead
<1>20. ASSUME NEW p \in Client \ {c}, devs[p] # {}
       PROVE  t.read[p] >= read[p] \/ t.read[p] >= ServerRead
  <2>1. read[p] \in Nat /\ p \in Peer
    BY <1>1, ReadIsNat
  <2>2. CASE read[p] > srv.self
    BY <1>1, <1>19, <1>20, <2>2 DEF Ahead
  <2>3. CASE ~(read[p] > srv.self)
    <3>1. e.read[p] = srv.self /\ t.read[p] >= e.read[p] /\ t.read[p] \in Nat
      BY <1>13, <1>19, <1>20, <2>1 DEF States, Fields
    <3> QED BY <1>1, <2>1, <2>3, <3>1
  <2> QED BY <2>2, <2>3
<1> QED BY <1>1, <1>7, <1>8, <1>13, <1>18, <1>19, <1>20 DEF SamePlace

Joining(c, u, ms) ==
  /\ conn'[c].mode = "spectating" /\ conn'[c].active /\ conn'[c].delay = 0
  /\ \A x \in Client \ {c} : /\ conn'[x] = conn[x] /\ cl'[x] = cl[x] /\ toC'[x] = toC[x]
                             /\ toS'[x] = toS[x]
  /\ srv'.self = srv.self /\ srv'.phase = srv.phase /\ srv'.stall = srv.stall
  /\ srv'.playing = srv.playing
  /\ cl'[c] = u /\ toC'[c] = ms /\ toS'[c] = <<>>
  /\ UNCHANGED <<read, devs, share, hist>>

(* What netplay_handshake_sync sends a newcomer. *)
LEMMA JoinParts ==
  ASSUME Types, NEW c \in Client, Join(c)
  PROVE  \E u \in States : \E ms :
           /\ Joining(c, u, ms) /\ IsWelcome(c, ms)
           /\ u.mode = "pre_sync" /\ Len(u.out) <= 1 /\ \A i \in 1..Len(u.out) : u.out[i].t = "play"
<1>1. /\ conn \in [Client -> Conns] /\ srv \in Servers /\ cl \in [Client -> States]
      /\ toC \in [Client -> Seq(ToClient)] /\ toS \in [Client -> Seq(ToServer)]
  BY DEF Types
<1>2. PICK out \in {<<>>} \cup {<<PlayCmd(r)>> : r \in Ask[c]} :
        cl' = [cl EXCEPT ![c].mode = "pre_sync", ![c].out = out]
  BY DEF Join
<1>3. /\ out \in Seq(ToServer) /\ Len(out) <= 1 /\ \A i \in 1..Len(out) : out[i].t = "play"
  <2>1. CASE out = <<>>
    <3>1. <<>> \in Seq(ToServer) /\ Len(<<>>) = 0
      OBVIOUS
    <3> QED BY <2>1, <3>1
  <2>2. ASSUME NEW r \in Ask[c], out = <<PlayCmd(r)>>
        PROVE  /\ out \in Seq(ToServer) /\ Len(out) <= 1 /\ \A i \in 1..Len(out) : out[i].t = "play"
    <3>1. PICK m \in ToServer : m = PlayCmd(r)
      BY ServerIsPeer DEF ToServer, Requested
    <3>2. m.t = "play"
      BY <3>1 DEF PlayCmd
    <3>3. <<m>> \in Seq(ToServer) /\ Len(<<m>>) = 1 /\ <<m>>[1] = m
      OBVIOUS
    <3> QED BY <2>2, <3>1, <3>2, <3>3
  <2> QED BY <2>1, <2>2
<1>4. PICK s \in States : s = cl[c] /\ s.mode = "none"
  BY <1>1 DEF Join
<1>5. PICK u : u = [s EXCEPT !.mode = "pre_sync", !.out = out]
  OBVIOUS
<1>6. u \in States /\ u.mode = "pre_sync" /\ u.out = out
  BY <1>3, <1>5 DEF States, Fields
<1>7. cl'[c] = u /\ \A x \in Client \ {c} : cl'[x] = cl[x]
  BY <1>1, <1>2, <1>4, <1>5
<1>8. /\ srv'.self = srv.self /\ srv'.phase = srv.phase /\ srv'.stall = srv.stall
      /\ srv'.playing = srv.playing
  BY <1>1 DEF Join, Servers
<1>9. /\ conn'[c].mode = "spectating" /\ conn'[c].active /\ conn'[c].delay = 0
      /\ \A x \in Client \ {c} : conn'[x] = conn[x]
  BY <1>1 DEF Join, NoConn
<1>10. PICK ms : ms = <<SyncOf(srv.self, devs)>> \o CurInput(c, read)
  OBVIOUS
<1>11. toC'[c] = ms /\ toS'[c] = <<>>
       /\ \A x \in Client \ {c} : toC'[x] = toC[x] /\ toS'[x] = toS[x]
  BY <1>1, <1>10 DEF Join, SyncCmd, SyncOf
<1>12. UNCHANGED <<read, devs, share, hist>>
  BY DEF Join
<1> QED BY <1>3, <1>6, <1>7, <1>8, <1>9, <1>10, <1>11, <1>12 DEF Joining, IsWelcome

LEMMA JoinSelf ==
  ASSUME Types, Types', Roles, srv.phase = "poll", NEW c \in Client, ~conn[c].active,
         NEW u \in States, NEW ms, Joining(c, u, ms),
         IsWelcome(c, ms),
         u.mode = "pre_sync", Len(u.out) <= 1, \A i \in 1..Len(u.out) : u.out[i].t = "play",
         Talks(c), cl[c].mode = "none"
  PROVE  PeerInv(c)'
<1>1. PICK h : h = After(c, u, ms)
  OBVIOUS
<1>2. PICK t : t = h[Len(ms)]
  OBVIOUS
<1>3. /\ ms \in Seq(ToClient) /\ \A i \in 1..Len(ms) : ms[i].t \in {"sync", "input", "noinput"}
      /\ t \in States /\ t.mode = "spectating" /\ t.out = u.out
      /\ t.server = ServerRead /\ t.view = devs
      /\ devs[0] # {} => t.read[0] = ServerRead
      /\ \A p \in Client \ {c} : devs[p] # {} => t.read[p] >= read[p] \/ t.read[p] >= ServerRead
  BY <1>1, <1>2, NewcomerReads
<1>4. cl'[c] = u /\ toC'[c] = ms /\ toS'[c] = <<>>
  BY DEF Joining
<1>5. Polled(c)' = t
  <2> HIDE DEF After
  <2> QED BY <1>1, <1>2, <1>4 DEF Polled, Reading
<1>6. Quiet(c)' /\ ~Answered(c)' /\ Complete(c)'
  <2>1. \A i \in 1..Len(ms) : ~Yours(ms[i]) /\ ~IsAnswer(ms[i])
    BY <1>3 DEF Yours, IsAnswer
  <2>2. \A i \in 1..Len(ms) : \A x : AfterItsInput(c, x, ms[i])'
    BY <1>3 DEF AfterItsInput
  <2> QED BY <1>4, <2>1, <2>2 DEF Quiet, Answered, Complete
<1>7. ~Plays(c)' /\ c \notin hist'.waiting
  <2>1. c \notin hist.waiting
    BY DEF Talks, Requests, Connected
  <2> QED BY <2>1 DEF Plays, Joining
<1>8. Len(<<>>) = 0
  OBVIOUS
<1>9. Talks(c)'
  BY <1>4, <1>6, <1>7, <1>8 DEF Talks, Piped, Modes, Patient, Requests, InTurn
<1>10. Follows(c, t)'
  <2>1. ServerRead' = ServerRead /\ devs' = devs /\ read' = read
    BY DEF Joining, ServerRead
  <2>2. ASSUME NEW p \in Client \ {c} PROVE Knows(c, t, p)'
    <3>1. Role(p) /\ conn'[p] = conn[p]
      BY DEF Roles, Joining
    <3>2. devs[p] # {} => ~Owed(p)
      BY <3>1 DEF Role, Owed
    <3> QED BY <1>3, <2>1, <3>1, <3>2 DEF Knows, Owed
  <2> QED BY <1>3, <2>1, <2>2 DEF Follows
<1>11. Sends(c, t)'
  <2>1. \A i \in 1..Len(t.out) : t.out[i].t = "play"
    BY <1>3
  <2>2. InTurn(t.out, read'[c]) /\ ~Has(t.out, "input")
    BY <2>1 DEF InTurn, Has
  <2> QED BY <1>3, <1>4, <1>7, <2>2 DEF Sends
<1> QED BY <1>3, <1>5, <1>6, <1>9, <1>10, <1>11 DEF PeerInv

(* Nobody else notices a newcomer. *)
LEMMA JoinOther ==
  ASSUME Types, Types', Roles, NEW c \in Client, ~Owed(c), NEW u, NEW ms, Joining(c, u, ms),
         NEW x \in Client, x # c, PeerInv(x)
  PROVE  PeerInv(x)'
<1>1. /\ SamePipes(x) /\ toC'[x] = toC[x] /\ Grows /\ Kept(x)
  <2>1. read[x] \in Nat
    BY ReadIsNat
  <2> QED BY <2>1 DEF Joining, SamePipes, Grows, Kept, Plays
<1>2. ServerRead' = ServerRead /\ devs' = devs /\ read' = read /\ hist' = hist /\ ~Owed(c)'
  BY DEF Joining, ServerRead, Owed
<1>3. ASSUME NEW e, Follows(x, e) PROVE Follows(x, e)'
  <2>1. ASSUME NEW p \in Client \ {x} PROVE Knows(x, e, p)'
    <3>1. Knows(x, e, p)
      BY <1>3 DEF Follows
    <3>2. Owed(p)' <=> Owed(p)
      BY <1>2 DEF Owed, Joining
    <3>3. p # c => conn'[p] = conn[p]
      BY DEF Joining
    <3> QED BY <1>2, <3>1, <3>2, <3>3 DEF Knows
  <2> QED BY <1>2, <1>3, <2>1 DEF Follows
<1> QED BY <1>1, <1>3, Untouched

(* Joining keeps the invariant. *)
LEMMA JoinStep ==
  ASSUME IInv, Types', NEW c \in Client, Join(c)
  PROVE  IInv'
<1>1. Types /\ Roles /\ OnlyKnownNaks /\ StallCanEnd
  BY DEF IInv
<1>2. PICK u, ms :
           /\ u \in States
           /\ Joining(c, u, ms) /\ IsWelcome(c, ms)
           /\ u.mode = "pre_sync" /\ Len(u.out) <= 1 /\ \A i \in 1..Len(u.out) : u.out[i].t = "play"
  BY <1>1, JoinParts
<1>3. /\ srv.phase = "poll" /\ ~conn[c].active /\ conn[c].mode # "delayed" /\ cl[c].mode = "none"
  BY DEF Join, FreeSlot
<1>4. ~Owed(c) /\ ~Plays(c) /\ devs[c] = {}
  BY <1>1, <1>3 DEF Owed, Roles, Role
<1>5. \A x \in Client : PeerInv(x)'
  BY <1>1, <1>2, <1>3, <1>4, JoinSelf, JoinOther DEF IInv, PeerInv
<1>6. ~Plays(c)' /\ \A x \in Client : x # c => conn'[x] = conn[x] /\ (Plays(x)' <=> Plays(x))
  BY <1>2 DEF Joining, Plays
<1>7. Roles'
  <2>1. ASSUME NEW x \in Client PROVE Role(x)'
    <3>1. Role(x)
      BY <1>1 DEF Roles
    <3> QED BY <1>2, <1>4, <1>6, <3>1 DEF Role, Joining
  <2> QED BY <1>1, <1>2, <2>1 DEF Roles, Joining
<1>8. OnlyKnownNaks'
  BY <1>1, <1>2 DEF OnlyKnownNaks, Joining
<1>9. StallCanEnd'
  <2> SUFFICES ASSUME srv.stall, NewStall' PROVE StalledOut' # {} \/ hist.unblamed
    BY <1>2 DEF StallCanEnd, Joining
  <2>1. PICK y \in Client : Late(y, 2)'
    BY <1>2 DEF NewStall, Joining
  <2>2. Late(y, 2)
    BY <1>2, <1>6, <2>1 DEF Late, Joining
  <2>3. NewStall
    BY <2>2 DEF NewStall
  <2>4. \A z \in StalledOut : z \in StalledOut'
    BY <1>4, <1>6 DEF StalledOut
  <2> QED BY <1>1, <2>3, <2>4 DEF StallCanEnd
<1> QED BY <1>5, <1>7, <1>8, <1>9 DEF IInv

-----------------------------------------------------------------------------
(* A frame of the server begins. *)

(* The state in which a client that is in s ends when it reads ms; that    *)
(* departures among ms come after the input; that ms says nothing of the   *)
(* client itself.                                                          *)
Ends(c, s, ms)  == After(c, s, ms)[Len(ms)]
Whole(c, s, ms) == \A i \in 1..Len(ms) : AfterItsInput(c, After(c, s, ms)[i - 1], ms[i])
OfOthers(ms)    == \A i \in 1..Len(ms) : ~Yours(ms[i]) /\ ~IsAnswer(ms[i])

NoNews(p, r) ==
  /\ (\A i \in 1..Len(r) : ~Yours(r[i])) <=> (\A i \in 1..Len(p) : ~Yours(p[i]))
  /\ (\E i \in 1..Len(r) : IsAnswer(r[i])) <=> (\E i \in 1..Len(p) : IsAnswer(p[i]))

IsJoin(r, p, q) == r = p \o q

(* Reading p and then q is reading both. *)
LEMMA ReadsMore ==
  ASSUME NEW c \in Client, NEW s \in States, NEW p \in Seq(ToClient), NEW q \in Seq(ToClient),
         NEW r, IsJoin(r, p, q)
  PROVE  /\ r \in Seq(ToClient) /\ Ends(c, s, p) \in States
         /\ Ends(c, s, r) = Ends(c, Ends(c, s, p), q)
         /\ Whole(c, s, p) /\ Whole(c, Ends(c, s, p), q) => Whole(c, s, r)
         /\ OfOthers(q) => NoNews(p, r)
<1>1. PICK f, g, e, h : /\ f = After(c, s, p) /\ g = After(c, s, r) /\ e = f[Len(p)]
                        /\ h = After(c, e, q)
  OBVIOUS
<1>2. r \in Seq(ToClient) /\ IsConcat(r, p, q)
  BY ConcatParts DEF IsJoin
<1>3. /\ Len(p) \in Nat /\ Len(q) \in Nat /\ Len(r) = Len(p) + Len(q)
      /\ \A i \in 1..Len(p) : i \in 1..Len(r) /\ r[i] = p[i]
      /\ \A k \in 1..Len(q) : Len(p) + k \in 1..Len(r) /\ r[Len(p) + k] = q[k]
      /\ \A i \in 1..Len(r) : i \in 1..Len(p) \/ \E k \in 1..Len(q) : i = Len(p) + k
  BY <1>2 DEF IsConcat
<1>4. /\ \A i \in 0..Len(p) : g[i] = f[i]
      /\ \A k \in 0..Len(q) : g[Len(p) + k] = h[k]
  <2>1. /\ \A i \in 0..Len(p) : After(c, s, p \o q)[i] = After(c, s, p)[i]
        /\ \A k \in 0..Len(q) : After(c, s, p \o q)[Len(p) + k] =
                                  After(c, After(c, s, p)[Len(p)], q)[k]
    BY AfterConcat
  <2> HIDE DEF After
  <2> QED BY <1>1, <2>1 DEF IsJoin
<1>5. Ends(c, s, p) = e /\ Ends(c, s, r) = g[Len(r)] /\ Ends(c, e, q) = h[Len(q)]
  <2> HIDE DEF After
  <2> QED BY <1>1 DEF Ends
<1>6. e \in States
  <2>1. Len(p) \in 0..Len(p)
    BY <1>3
  <2> QED BY <1>1, <2>1, AfterIsState
<1>7. Ends(c, s, r) = Ends(c, e, q)
  <2>1. Len(q) \in 0..Len(q)
    BY <1>3
  <2> QED BY <1>3, <1>4, <1>5, <2>1
<1>8. ASSUME Whole(c, s, p), Whole(c, e, q) PROVE Whole(c, s, r)
  <2>1. \A i \in 1..Len(p) : AfterItsInput(c, f[i - 1], p[i])
    <3> HIDE DEF After
    <3> QED BY <1>1, <1>8 DEF Whole
  <2>2. \A k \in 1..Len(q) : AfterItsInput(c, h[k - 1], q[k])
    <3> HIDE DEF After
    <3> QED BY <1>1, <1>8 DEF Whole
  <2>3. ASSUME NEW i \in 1..Len(r) PROVE AfterItsInput(c, g[i - 1], r[i])
    <3>1. CASE i \in 1..Len(p)
      <4>1. i - 1 \in 0..Len(p)
        BY <1>3, <3>1
      <4>2. g[i - 1] = f[i - 1] /\ r[i] = p[i]
        BY <1>3, <1>4, <3>1, <4>1
      <4> QED BY <2>1, <3>1, <4>2
    <3>2. ASSUME NEW k \in 1..Len(q), i = Len(p) + k PROVE AfterItsInput(c, g[i - 1], r[i])
      <4>1. k - 1 \in 0..Len(q) /\ i - 1 = Len(p) + (k - 1)
        BY <1>3, <3>2
      <4>2. g[i - 1] = h[k - 1] /\ r[i] = q[k]
        BY <1>3, <1>4, <3>2, <4>1
      <4> QED BY <2>2, <4>2
    <3> QED BY <1>3, <3>1, <3>2
  <2> HIDE DEF After
  <2> QED BY <1>1, <2>3 DEF Whole
<1>9. ASSUME OfOthers(q) PROVE NoNews(p, r)
  <2>1. \A k \in 1..Len(q) : ~Yours(q[k]) /\ ~IsAnswer(q[k])
    BY <1>9 DEF OfOthers
  <2> HIDE DEF Yours, IsAnswer
  <2>2. \A i \in 1..Len(r) : Yours(r[i]) \/ IsAnswer(r[i]) => i \in 1..Len(p) /\ r[i] = p[i]
    BY <1>3, <2>1
  <2> QED BY <1>3, <2>2 DEF NoNews
<1> QED BY <1>2, <1>5, <1>6, <1>7, <1>8, <1>9

LEMMA GoneReads ==
  ASSUME NEW c \in Client, NEW s \in States, s.mode = "none", NEW q \in Seq(ToClient)
  PROVE  Ends(c, s, q) = s /\ Whole(c, s, q)
<1>1. Len(q) \in Nat /\ Len(q) \in 0..Len(q)
  OBVIOUS
<1>2. PICK f : f = After(c, s, q)
  OBVIOUS
<1>3. \A i \in 0..Len(q) : f[i] = s
  BY <1>1, <1>2, GoneStaysGone
<1>4. s = NoClient
  BY DEF States
<1>5. ASSUME NEW i \in 1..Len(q) PROVE AfterItsInput(c, f[i - 1], q[i])
  <2>1. i - 1 \in 0..Len(q)
    BY <1>1
  <2>2. PICK m \in ToClient : m = q[i]
    OBVIOUS
  <2>3. m.t = "mode" => m.peer \in Peer
    BY DEF ToClient, InputCmd, NoInputCmd, ModeCmd, LoadCmd
  <2>4. m.t = "mode" => s.view[m.peer] = {}
    BY <1>4, <2>3 DEF NoClient, Nobody
  <2> QED BY <1>3, <2>1, <2>2, <2>4 DEF AfterItsInput
<1> HIDE DEF After
<1> QED BY <1>1, <1>2, <1>3, <1>5 DEF Ends, Whole

(* Commands other than MODE.                                               *)
LEMMA NoModeWhole ==
  ASSUME NEW c, NEW s, NEW q, \A i \in 1..Len(q) : q[i].t # "mode" /\ q[i].t # "refused"
  PROVE  Whole(c, s, q) /\ OfOthers(q)
BY DEF Whole, OfOthers, AfterItsInput, Yours, IsAnswer

(* What the server does when a frame begins.                               *)
Forced(rd) ==
  \A x \in Client : rd[x] = IF srv.save /\ devs[x] # {} /\ read[x] < srv.self
                            THEN srv.self ELSE read[x]
IsLoad(load) ==
  \/ ~srv.save /\ Len(load) = 0
  \/ srv.save /\ Len(load) = 1 /\ load[1] = LoadCmd(srv.self)
SentFrame(c, rd, load, ms) == ms = toC[c] \o load \o CurInput(c, rd) \o Departures(c)

Begins(rd, load) ==
  /\ srv.phase = "top" /\ srv'.phase = "poll" /\ srv'.self = srv.self
  /\ srv'.stall = srv.stall /\ srv'.playing = srv.playing
  /\ read' = rd /\ Forced(rd) /\ IsLoad(load)
  /\ \A c \in Client : conn[c].active => SentFrame(c, rd, load, toC'[c])
  /\ \A c \in Client : ~conn[c].active => toC'[c] = toC[c]
  /\ \A c \in Client : ~DelayDue(c) => conn'[c] = conn[c]
  /\ \A c \in Client : DelayDue(c) =>
       /\ conn'[c].delay = 0 /\ conn'[c].active = conn[c].active
       /\ conn'[c].mode = IF conn[c].mode = "delayed" THEN "none" ELSE conn[c].mode
  /\ UNCHANGED <<devs, share, cl, toS, hist>>

(* What netplay_pre_frame does, in two parts: the input forced, then all   *)
(* sent.                                                                   *)
LEMMA PreFrameParts ==
  ASSUME Types, PreFrame
  PROVE  \E rd \in [Client -> Nat], load \in Seq(ToClient) : Begins(rd, load)
<1>1. /\ srv \in Servers /\ conn \in [Client -> Conns] /\ read \in [Client -> Nat]
      /\ srv.self \in Nat /\ srv.save \in BOOLEAN
  BY DEF Types, Servers
<1>2. PICK rd : rd = IF srv.save THEN ForceFuture ELSE read
  OBVIOUS
<1>3. rd \in [Client -> Nat] /\ Forced(rd)
  BY <1>1, <1>2 DEF ForceFuture, Forced
<1>4. PICK load : load = IF srv.save THEN <<LoadCmd(srv.self)>> ELSE <<>>
  OBVIOUS
<1>5. load \in Seq(ToClient) /\ IsLoad(load)
  <2>1. PICK m \in ToClient : m = LoadCmd(srv.self)
    BY <1>1, FrameIsCommand
  <2>2. <<m>> \in Seq(ToClient) /\ Len(<<m>>) = 1 /\ <<m>>[1] = m
    OBVIOUS
  <2>3. <<>> \in Seq(ToClient) /\ Len(<<>>) = 0
    OBVIOUS
  <2> QED BY <1>1, <1>4, <2>1, <2>2, <2>3 DEF IsLoad
<1>6. /\ srv.phase = "top" /\ srv'.phase = "poll" /\ srv'.self = srv.self
      /\ srv'.stall = srv.stall /\ srv'.playing = srv.playing
      /\ UNCHANGED <<devs, share, cl, toS, hist>>
  BY <1>1 DEF PreFrame, Servers
<1>7. /\ read' = rd
      /\ toC' = [c \in Client |-> IF conn[c].active
                   THEN toC[c] \o load \o CurInput(c, rd) \o Departures(c) ELSE toC[c]]
      /\ conn' = [c \in Client |-> IF DelayDue(c)
                    THEN [conn[c] EXCEPT !.delay = 0,
                            !.mode = IF @ = "delayed" THEN "none" ELSE @]
                    ELSE conn[c]]
  BY <1>2, <1>4, Zenon DEF PreFrame
<1>8. \A c \in Client : conn[c].active => SentFrame(c, rd, load, toC'[c])
  BY <1>7, Zenon DEF SentFrame
<1>9. \A c \in Client : ~conn[c].active => toC'[c] = toC[c]
  BY <1>7, Zenon
<1>10. \A c \in Client : ~DelayDue(c) => conn'[c] = conn[c]
  BY <1>7
<1>11. ASSUME NEW c \in Client, DelayDue(c)
       PROVE  /\ conn'[c].delay = 0 /\ conn'[c].active = conn[c].active
              /\ conn'[c].mode = IF conn[c].mode = "delayed" THEN "none" ELSE conn[c].mode
  <2>1. conn'[c] = [conn[c] EXCEPT !.delay = 0, !.mode = IF @ = "delayed" THEN "none" ELSE @]
    BY <1>7, <1>11
  <2>2. conn[c] \in Conns
    BY <1>1
  <2> QED BY <2>1, <2>2 DEF Conns
<1>12. Begins(rd, load)
  BY <1>3, <1>5, <1>6, <1>7, <1>8, <1>9, <1>10, <1>11 DEF Begins
<1> QED BY <1>3, <1>5, <1>12

-----------------------------------------------------------------------------
(* A client reads what it is sent. *)

(* e1 is e after the savestate has been read, if there is one.             *)
Loaded(c, e, t, rd) ==
  /\ t \in States /\ t.mode = e.mode /\ t.sent = e.sent /\ t.out = e.out
  /\ t.view = e.view /\ t.server = e.server
  /\ t.self = e.self \/ (srv.save /\ t.self + 1 = srv.self /\ e.self < srv.self)
  /\ \A p \in Peer : t.read[p] >= e.read[p] /\ (e.read[p] = srv.self => t.read[p] = srv.self)
  /\ \A p \in Client : e.view[p] = devs[p] /\ devs[p] # {}
                       /\ (e.read[p] >= read[p] \/ e.read[p] >= srv.self) =>
                         t.read[p] >= rd[p] \/ t.read[p] >= srv.self

(* A client that is sent a state has read all players to the frame of it. *)
LEMMA LoadRead ==
  ASSUME Types, srv.self \in Nat, NEW c \in Client, NEW e \in States, e.mode # "none",
         e.server = srv.self, NEW rd \in [Client -> Nat], Forced(rd),
         NEW load \in Seq(ToClient), IsLoad(load), NEW t, t = Ends(c, e, load)
  PROVE  /\ Loaded(c, e, t, rd) /\ Whole(c, e, load) /\ OfOthers(load)
<1>1. PICK f : f = After(c, e, load)
  OBVIOUS
<1>2. /\ Len(load) \in Nat /\ f[0] = e
      /\ \A i \in 1..Len(load) : f[i] = Handle(c, f[i - 1], load[i])
  <2>1. Len(load) \in Nat
    OBVIOUS
  <2> QED BY <1>1, <2>1, AfterReads
<1>3. t = f[Len(load)]
  <2> HIDE DEF After
  <2> QED BY <1>1 DEF Ends
<1>4. \A p \in Peer : e.read[p] \in Nat
  BY DEF States, Fields
<1>5. \A p \in Client : p \in Peer /\ read[p] \in Nat /\ rd[p] \in Nat
  BY ServerIsPeer, ReadIsNat
<1>6. CASE ~srv.save
  <2>1. Len(load) = 0 /\ t = e
    BY <1>2, <1>3, <1>6 DEF IsLoad
  <2>2. \A p \in Client : rd[p] = read[p]
    BY <1>6 DEF Forced
  <2>3. \A p \in Peer : t.read[p] >= e.read[p]
    BY <1>4, <2>1
  <2>4. Loaded(c, e, t, rd)
    BY <2>1, <2>2, <2>3 DEF Loaded
  <2>5. \A i \in 1..Len(load) : load[i].t # "mode" /\ load[i].t # "refused"
    BY <2>1
  <2> QED BY <2>4, <2>5, NoModeWhole
<1>7. CASE srv.save
  <2>1. Len(load) = 1 /\ load[1] = LoadCmd(srv.self) /\ 1 \in 1..Len(load) /\ 1 - 1 = 0
    <3>1. Len(load) = 1 /\ load[1] = LoadCmd(srv.self)
      BY <1>7 DEF IsLoad
    <3>2. 1 \in 1..1 /\ 1 - 1 = 0
      OBVIOUS
    <3> QED BY <3>1, <3>2
  <2>2. t = Handle(c, e, LoadCmd(srv.self))
    BY <1>2, <1>3, <2>1
  <2>3. Loads(e, srv.self, t)
    BY <2>2, ReadLoad
  <2>4. /\ t \in States /\ t.mode = e.mode /\ t.sent = e.sent /\ t.out = e.out
        /\ t.view = e.view /\ t.server = e.server
        /\ t.self = IF srv.self > e.self THEN srv.self - 1 ELSE e.self
        /\ \A p \in Peer : t.read[p] = IF e.view[p] # {} /\ e.read[p] < srv.self
                                       THEN srv.self ELSE e.read[p]
    BY <2>3 DEF Loads
  <2>5. t.self = e.self \/ (srv.save /\ t.self + 1 = srv.self /\ e.self < srv.self)
    <3>1. e.self \in Nat
      BY DEF States, Fields
    <3> QED BY <1>7, <2>4, <3>1
  <2>6. ASSUME NEW p \in Peer
        PROVE  t.read[p] >= e.read[p] /\ (e.read[p] = srv.self => t.read[p] = srv.self)
    BY <1>4, <2>4
  <2>7. ASSUME NEW p \in Client, e.view[p] = devs[p], devs[p] # {}
        PROVE  t.read[p] >= srv.self
    BY <1>4, <1>5, <2>4, <2>7
  <2>8. Loaded(c, e, t, rd)
    BY <2>4, <2>5, <2>6, <2>7 DEF Loaded
  <2>9. load[1].t = "load"
    BY <2>1 DEF LoadCmd
  <2>10. \A i \in 1..Len(load) : load[i].t # "mode" /\ load[i].t # "refused"
    BY <2>1, <2>9
  <2> QED BY <2>8, <2>10, NoModeWhole
<1>8. srv.save \in BOOLEAN
  BY DEF Types, Servers
<1> QED BY <1>6, <1>7, <1>8

(* The departures come after the input of those who leave.                 *)
LEMMA DeparturesWhole ==
  ASSUME Types, NEW c \in Client, NEW e \in States, e.mode # "none",
         \A x \in Leaving(c) : e.view[x] # {} => e.read[x] >= conn[x].delay \/ x \in hist.lost,
         NEW ms, ms = Departures(c), NEW t, t = Ends(c, e, ms)
  PROVE  /\ ms \in Seq(ToClient) /\ HasTold(e, t, Leaving(c))
         /\ Whole(c, e, ms) /\ OfOthers(ms)
<1>1. conn \in [Client -> Conns]
  BY DEF Types
<1>2. PICK h : h = After(c, e, ms)
  OBVIOUS
<1>3. /\ ms \in Seq(ToClient)
      /\ \A k \in 1..Len(ms) : \E x \in Leaving(c) : ms[k] = LeaveCmd(conn[x].delay, x)
      /\ HasTold(e, h[Len(ms)], Leaving(c))
      /\ \A k \in 1..Len(ms) : \A x \in Leaving(c) : ms[k] = LeaveCmd(conn[x].delay, x) =>
           \E T : x \notin T /\ HasTold(e, h[k - 1], T)
  BY <1>1, <1>2, DeparturesRead
<1>4. ASSUME NEW k \in 1..Len(ms)
      PROVE  ~Yours(ms[k]) /\ ~IsAnswer(ms[k]) /\ AfterItsInput(c, h[k - 1], ms[k])
  <2>1. PICK x \in Leaving(c) : ms[k] = LeaveCmd(conn[x].delay, x)
    BY <1>3
  <2>2. PICK T : x \notin T /\ HasTold(e, h[k - 1], T)
    BY <1>3, <2>1
  <2>3. PICK m, f : m = ms[k] /\ f = conn[x].delay
    OBVIOUS
  <2>4. m.t = "mode" /\ ~m.you /\ m.peer = x /\ m.frame = f
    BY <2>1, <2>3 DEF LeaveCmd, ModeCmd
  <2>5. x \in Peer /\ x \in Client
    BY <2>1, ServerIsPeer DEF Leaving
  <2>6. PICK s : s = h[k - 1]
    OBVIOUS
  <2>7. s.view[x] = e.view[x] /\ s.read[x] = e.read[x]
    BY <2>2, <2>5, <2>6 DEF HasTold
  <2>8. AfterItsInput(c, s, m)
    BY <2>3, <2>4, <2>7 DEF AfterItsInput
  <2> QED BY <2>3, <2>4, <2>6, <2>8 DEF Yours, IsAnswer
<1> HIDE DEF After
<1> QED BY <1>2, <1>3, <1>4 DEF Whole, OfOthers, Ends

(* Who has followed the server up to a frame follows it through the frame. *)
LEMMA FrameFollowed ==
  ASSUME Types, Types', Roles, NEW c \in Client, NEW rd \in [Client -> Nat], NEW load,
         Begins(rd, load), NEW e \in States, Follows(c, e),
         NEW t1, Loaded(c, e, t1, rd), NEW t2, FrameRead(t1, t2, Ahead(c, rd)),
         NEW t3, HasTold(t2, t3, Leaving(c))
  PROVE  Follows(c, t3)' /\ (Sends(c, e) => SameSending(c, e, t3))
<1>1. /\ srv.self \in Nat /\ ServerRead = srv.self /\ ServerRead' = srv.self + 1
      /\ 0 \in Peer /\ Client \subseteq Peer /\ 0 \notin Client /\ (srv.playing <=> devs[0] # {})
      /\ c \notin Leaving(c) /\ c \in Peer /\ 0 \notin Leaving(c)
  BY ServerIsPeer DEF Types, Servers, Begins, ServerRead, Roles, Leaving
<1>2. /\ t1 \in States /\ t1.mode = e.mode /\ t1.sent = e.sent /\ t1.out = e.out
      /\ t1.view = e.view /\ t1.server = e.server
      /\ t1.self = e.self \/ (srv.save /\ t1.self + 1 = srv.self /\ e.self < srv.self)
      /\ \A p \in Peer : t1.read[p] >= e.read[p] /\ (e.read[p] = srv.self => t1.read[p] = srv.self)
      /\ \A p \in Client : e.view[p] = devs[p] /\ devs[p] # {}
                           /\ (e.read[p] >= read[p] \/ e.read[p] >= srv.self) =>
                             t1.read[p] >= rd[p] \/ t1.read[p] >= srv.self
  BY DEF Loaded
<1>3. /\ t2 \in States /\ SamePlace(t1, t2) /\ t2.view = t1.view /\ t2.server = srv.self + 1
      /\ \A p \in Peer : t2.read[p] >= t1.read[p]
      /\ \A p \in Ahead(c, rd) : t2.read[p] >= srv.self + 1
      /\ srv.playing => t2.read[0] = srv.self + 1
  BY DEF FrameRead
<1>4. /\ t3 \in States /\ SamePlace(t2, t3) /\ t3.server = t2.server
      /\ \A p \in Peer : /\ t3.view[p] = (IF p \in Leaving(c) THEN {} ELSE e.view[p])
                         /\ t3.read[p] = (IF p \in Leaving(c) THEN 0 ELSE t2.read[p])
  BY <1>2, <1>3 DEF HasTold
<1>5. t3.mode = e.mode /\ t3.sent = e.sent /\ t3.out = e.out /\ t3.self = t1.self
  BY <1>2, <1>3, <1>4 DEF SamePlace
<1>6. /\ e.mode \in {"spectating", "playing"} /\ e.view[0] = devs[0] /\ e.view[c] = devs[c]
      /\ \A p \in Client \ {c} : Knows(c, e, p)
  BY DEF Follows
<1>7. devs' = devs /\ read' = rd /\ hist' = hist
  BY DEF Begins
<1>8. ASSUME NEW p \in Client \ {c} PROVE Knows(c, t3, p)'
  <2>1. Knows(c, e, p) /\ Role(p) /\ p \in Peer /\ rd[p] \in Nat /\ read[p] \in Nat
    BY <1>1, <1>6, ReadIsNat DEF Roles
  <2>2. e.read[p] \in Nat /\ t1.read[p] \in Nat /\ t2.read[p] \in Nat
    BY <1>2, <1>3, <2>1 DEF States, Fields
  <2>3. t2.read[p] >= e.read[p] /\ t2.read[p] >= t1.read[p]
    BY <1>2, <1>3, <2>1, <2>2
  <2>4. CASE p \in Leaving(c)
    <3>1. DelayDue(p)
      BY <2>4 DEF Leaving
    <3>2. conn'[p].delay = 0 /\ devs[p] = {}
      BY <2>1, <3>1 DEF Begins, DelayDue, Role
    <3>3. t3.view[p] = {} /\ ~Owed(p)'
      BY <1>4, <2>1, <2>4, <3>2 DEF Owed
    <3> QED BY <1>7, <3>2, <3>3 DEF Knows
  <2>5. CASE p \notin Leaving(c)
    <3>1. conn'[p] = conn[p]
      BY <2>5 DEF Begins, Leaving
    <3>2. (Owed(p)' <=> Owed(p)) /\ t3.view[p] = e.view[p] /\ t3.read[p] = t2.read[p]
      BY <1>4, <2>1, <2>5, <3>1 DEF Owed
    <3>3. ASSUME devs[p] # {} PROVE t3.read[p] >= rd[p] \/ t3.read[p] >= srv.self + 1
      <4>1. e.view[p] = devs[p] /\ (e.read[p] >= read[p] \/ e.read[p] >= srv.self)
        BY <1>1, <2>1, <3>3 DEF Knows
      <4>2. t1.read[p] >= rd[p] \/ t1.read[p] >= srv.self
        BY <1>2, <2>1, <3>3, <4>1
      <4>3. CASE rd[p] > srv.self
        <5>1. p \in Ahead(c, rd)
          BY <3>3, <4>3 DEF Ahead
        <5> QED BY <1>3, <3>2, <5>1
      <4>4. CASE ~(rd[p] > srv.self)
        BY <1>1, <2>1, <2>2, <2>3, <3>2, <4>2, <4>4
      <4> QED BY <4>3, <4>4
    <3>4. ASSUME Owed(p), e.view[p] # {} PROVE t3.read[p] >= conn[p].delay \/ p \in hist.lost
      <4>1. e.read[p] >= conn[p].delay \/ p \in hist.lost
        BY <2>1, <3>4 DEF Knows
      <4>2. conn[p].delay \in Nat
        BY DEF Types, Conns
      <4> QED BY <2>2, <2>3, <3>2, <4>1, <4>2
    <3>5. e.view[p] = devs[p] \/ (devs[p] = {} /\ (Owed(p) \/ p \in hist.untold))
      BY <2>1 DEF Knows
    <3> QED BY <1>1, <1>7, <3>1, <3>2, <3>3, <3>4, <3>5 DEF Knows
  <2> QED BY <2>4, <2>5
<1>9. Follows(c, t3)'
  <2>1. t3.view[0] = devs[0] /\ t3.view[c] = devs[c] /\ t3.server = srv.self + 1
    BY <1>1, <1>3, <1>4, <1>6
  <2>2. devs[0] # {} => t3.read[0] = srv.self + 1
    BY <1>1, <1>3, <1>4
  <2> QED BY <1>1, <1>5, <1>6, <1>7, <1>8, <2>1, <2>2 DEF Follows
<1>10. ASSUME Sends(c, e) PROVE SameSending(c, e, t3)
  <2>1. ASSUME e.mode = "playing" PROVE NextInput(t3) = NextInput(e) \/ NextInput(t3) <= read'[c]
    <3>1. Plays(c) /\ devs[c] # {} /\ rd[c] \in Nat /\ read[c] \in Nat
      BY <1>10, <2>1, ReadIsNat DEF Sends, Roles, Role
    <3>2. e.self \in Nat /\ e.sent \in Nat /\ t1.self \in Nat
      BY <1>2 DEF States, Fields
    <3>3. CASE t1.self = e.self
      BY <1>5, <3>3 DEF NextInput
    <3>4. CASE srv.save /\ t1.self + 1 = srv.self /\ e.self < srv.self
      <4>1. rd[c] >= srv.self
        <5>1. rd[c] = IF srv.save /\ devs[c] # {} /\ read[c] < srv.self
                      THEN srv.self ELSE read[c]
          BY DEF Begins, Forced
        <5> QED BY <1>1, <3>1, <3>4, <5>1
      <4>2. CASE srv.self < e.sent
        <5>1. NextInput(t3) = e.sent
          BY <1>5, <3>4, <4>2 DEF NextInput
        <5>2. e.self + 1 < e.sent
          BY <1>1, <3>2, <3>4, <4>2
        <5> QED BY <5>1, <5>2 DEF NextInput
      <4>3. CASE ~(srv.self < e.sent)
        <5>1. NextInput(t3) = srv.self
          BY <1>5, <3>4, <4>3 DEF NextInput
        <5> QED BY <1>7, <4>1, <5>1
      <4> QED BY <4>2, <4>3
    <3> QED BY <1>2, <3>3, <3>4
  <2>2. SkipsLike(e, t3)
    <3> SUFFICES ASSUME NEW r, Skips(e, r) PROVE Skips(t3, r)
      BY DEF SkipsLike
    <3>1. e.self \in Nat /\ e.sent \in Nat /\ t1.self \in Nat
      BY <1>2 DEF States, Fields
    <3> QED BY <1>1, <1>2, <1>5, <3>1 DEF Skips
  <2> QED BY <1>5, <2>1, <2>2 DEF SameSending
<1> QED BY <1>9, <1>10

(* Who has followed the server so far follows it through a frame. *)
LEMMA FrameReads ==
  ASSUME Types, Types', Roles, NEW c \in Client, NEW rd \in [Client -> Nat],
         NEW load \in Seq(ToClient), Begins(rd, load), conn[c].active,
         NEW e \in States, e.mode # "none", Follows(c, e),
         NEW t1, t1 = Ends(c, e, load), NEW ns, ns = CurInput(c, rd), NEW t2, t2 = Ends(c, t1, ns),
         NEW ds, ds = Departures(c), NEW t3, t3 = Ends(c, t2, ds)
  PROVE  /\ t3 \in States /\ t3.mode # "none" /\ Follows(c, t3)'
         /\ Sends(c, e) => SameSending(c, e, t3)
         /\ Whole(c, e, load) /\ Whole(c, t1, ns) /\ Whole(c, t2, ds)
<1>1. /\ srv.self \in Nat /\ srv.playing \in BOOLEAN /\ ServerRead = srv.self
      /\ 0 \in Peer /\ Client \subseteq Peer /\ 0 \notin Client /\ (srv.playing <=> devs[0] # {})
      /\ Forced(rd) /\ IsLoad(load)
  BY ServerIsPeer DEF Types, Servers, Begins, ServerRead, Roles
<1>2. /\ e.server = srv.self /\ e.view[0] = devs[0] /\ (devs[0] # {} => e.read[0] = srv.self)
      /\ \A p \in Client \ {c} : Knows(c, e, p)
  BY <1>1 DEF Follows
<1>3. Loaded(c, e, t1, rd) /\ Whole(c, e, load)
  BY <1>1, <1>2, LoadRead
<1>4. /\ t1 \in States /\ t1.mode = e.mode /\ t1.view = e.view /\ t1.server = e.server
      /\ \A p \in Peer : t1.read[p] >= e.read[p] /\ (e.read[p] = srv.self => t1.read[p] = srv.self)
      /\ \A p \in Client : e.view[p] = devs[p] /\ devs[p] # {}
                           /\ (e.read[p] >= read[p] \/ e.read[p] >= srv.self) =>
                             t1.read[p] >= rd[p] \/ t1.read[p] >= srv.self
  BY <1>3 DEF Loaded
<1>5. CanReadFrame(c, t1, rd)
  <2>1. ASSUME NEW p \in Ahead(c, rd) PROVE t1.view[p] # {} /\ srv.self <= t1.read[p]
    <3>1. p \in Client \ {c} /\ p \in Peer /\ devs[p] # {} /\ rd[p] > srv.self /\ rd[p] \in Nat
      BY <1>1 DEF Ahead
    <3>2. e.view[p] = devs[p] /\ (e.read[p] >= read[p] \/ e.read[p] >= srv.self)
      BY <1>1, <1>2, <3>1 DEF Knows
    <3>3. t1.read[p] >= rd[p] \/ t1.read[p] >= srv.self
      BY <1>4, <3>1, <3>2
    <3>4. t1.read[p] \in Nat
      BY <1>4, <3>1 DEF States, Fields
    <3> QED BY <1>1, <1>4, <3>1, <3>2, <3>3, <3>4
  <2>2. srv.playing => t1.view[0] # {} /\ t1.read[0] = srv.self
    BY <1>1, <1>2, <1>4
  <2> QED BY <1>2, <1>4, <2>1, <2>2 DEF CanReadFrame
<1>6. ns \in Seq(ToClient) /\ FrameRead(t1, t2, Ahead(c, rd))
  <2>1. PICK h : h = After(c, t1, ns)
    OBVIOUS
  <2>2. ns \in Seq(ToClient) /\ FrameRead(t1, h[Len(ns)], Ahead(c, rd))
    BY <1>1, <1>4, <1>5, <2>1, CurInputIsRead
  <2>3. t2 = h[Len(ns)]
    <3> HIDE DEF After
    <3> QED BY <2>1 DEF Ends
  <2> QED BY <2>2, <2>3
<1>7. Whole(c, t1, ns)
  <2>1. \A i \in 1..Len(ns) : ns[i].t \in {"input", "noinput"}
    BY <1>1, CurInputKinds
  <2>2. \A i \in 1..Len(ns) : ns[i].t # "mode" /\ ns[i].t # "refused"
    BY <2>1
  <2> QED BY <2>2, NoModeWhole
<1>8. /\ t2 \in States /\ t2.mode = t1.mode /\ t2.view = t1.view
      /\ \A p \in Peer : t2.read[p] >= t1.read[p]
  BY <1>6 DEF FrameRead, SamePlace
<1>9. ASSUME NEW x \in Leaving(c), t2.view[x] # {}
      PROVE  t2.read[x] >= conn[x].delay \/ x \in hist.lost
  <2>1. x \in Client \ {c} /\ x \in Peer /\ DelayDue(x)
    BY <1>1 DEF Leaving
  <2>2. Owed(x) /\ conn[x].delay \in Nat
    BY <2>1 DEF DelayDue, Owed, Types, Conns
  <2>3. e.read[x] >= conn[x].delay \/ x \in hist.lost
    BY <1>2, <1>4, <1>8, <1>9, <2>1, <2>2 DEF Knows
  <2>4. e.read[x] \in Nat /\ t1.read[x] \in Nat /\ t2.read[x] \in Nat
    BY <1>4, <1>8, <2>1 DEF States, Fields
  <2> QED BY <1>4, <1>8, <2>1, <2>2, <2>3, <2>4
<1>10. HasTold(t2, t3, Leaving(c)) /\ Whole(c, t2, ds)
  <2>1. t2.mode # "none"
    BY <1>4, <1>8
  <2> QED BY <1>8, <1>9, <2>1, DeparturesWhole
<1>11. Follows(c, t3)' /\ (Sends(c, e) => SameSending(c, e, t3))
  BY <1>3, <1>6, <1>10, FrameFollowed
<1>12. t3 \in States /\ t3.mode # "none"
  BY <1>4, <1>8, <1>10 DEF HasTold, SamePlace
<1> QED BY <1>3, <1>7, <1>10, <1>11, <1>12

(* The whole of what is sent.                                              *)
LEMMA FrameParts ==
  ASSUME Types, NEW c \in Client, NEW rd, NEW load \in Seq(ToClient), IsLoad(load),
         NEW ms, SentFrame(c, rd, load, ms),
         NEW ns, ns = CurInput(c, rd), NEW ds, ds = Departures(c)
  PROVE  /\ ns \in Seq(ToClient) /\ ds \in Seq(ToClient)
         /\ OfOthers(load) /\ OfOthers(ns) /\ OfOthers(ds)
         /\ \E p1 \in Seq(ToClient), p2 \in Seq(ToClient), q \in Seq(ToClient) :
              q = toC[c] /\ IsJoin(p1, q, load) /\ IsJoin(p2, p1, ns) /\ IsJoin(ms, p2, ds)
<1>1. conn \in [Client -> Conns] /\ srv.self \in Nat /\ toC[c] \in Seq(ToClient)
  BY DEF Types, Servers
<1>2. /\ ns \in Seq(ToClient) /\ \A i \in 1..Len(ns) : ns[i].t \in {"input", "noinput"}
  BY <1>1, CurInputKinds
<1>3. OfOthers(ns)
  BY <1>2 DEF OfOthers, Yours, IsAnswer
<1>4. /\ ds \in Seq(ToClient)
      /\ \A k \in 1..Len(ds) : \E x \in Leaving(c) : ds[k] = LeaveCmd(conn[x].delay, x)
  BY <1>1, DeparturesRead
<1>5. OfOthers(ds)
  <2>1. ASSUME NEW f, NEW x PROVE ~Yours(LeaveCmd(f, x)) /\ ~IsAnswer(LeaveCmd(f, x))
    BY DEF LeaveCmd, ModeCmd, Yours, IsAnswer
  <2> QED BY <1>4, <2>1 DEF OfOthers
<1>6. OfOthers(load)
  <2>1. \A i \in 1..Len(load) : load[i].t = "load"
    BY DEF IsLoad, LoadCmd
  <2> QED BY <2>1 DEF OfOthers, Yours, IsAnswer
<1>7. PICK q \in Seq(ToClient), p1 \in Seq(ToClient) : q = toC[c] /\ p1 = q \o load
  <2>1. PICK q \in Seq(ToClient) : q = toC[c]
    BY <1>1
  <2>2. q \o load \in Seq(ToClient)
    OBVIOUS
  <2> QED BY <2>1, <2>2
<1>8. PICK p2 \in Seq(ToClient) : p2 = p1 \o ns
  <2>1. p1 \o ns \in Seq(ToClient)
    BY <1>2
  <2> QED BY <2>1
<1>9. ms = p2 \o ds
  BY <1>7, <1>8, Zenon DEF SentFrame
<1> QED BY <1>2, <1>3, <1>4, <1>5, <1>6, <1>7, <1>8, <1>9 DEF IsJoin

LEMMA BeginsKeeps ==
  ASSUME Types, Types', Roles, NEW rd \in [Client -> Nat], NEW load, Begins(rd, load), NEW x \in Client
  PROVE  /\ read'[x] >= read[x] /\ (Plays(x)' <=> Plays(x)) /\ SamePipes(x) /\ Kept(x) /\ Grows
         /\ conn'[x].active = conn[x].active
         /\ Plays(x) => conn'[x] = conn[x]
<1>1. read[x] \in Nat /\ rd[x] \in Nat /\ srv.self \in Nat /\ Role(x)
  BY ReadIsNat DEF Types, Servers, Roles
<1>2. rd[x] >= read[x]
  BY <1>1 DEF Begins, Forced
<1>3. Plays(x) => ~DelayDue(x)
  BY <1>1 DEF Role, DelayDue
<1>4. Plays(x)' <=> Plays(x)
  <2>1. DelayDue(x) => (conn'[x].mode = "playing" <=> conn[x].mode = "playing")
    BY DEF Begins
  <2>2. ~DelayDue(x) => conn'[x] = conn[x]
    BY DEF Begins
  <2> QED BY <2>1, <2>2 DEF Plays
<1>5. conn'[x].active = conn[x].active
  BY DEF Begins
<1> QED BY <1>2, <1>3, <1>4, <1>5 DEF Begins, SamePipes, Kept, Grows

LEMMA PreFramePeer ==
  ASSUME Types, Types', Roles, NEW rd \in [Client -> Nat], NEW load \in Seq(ToClient),
         Begins(rd, load), NEW c \in Client, PeerInv(c)
  PROVE  PeerInv(c)'
<1>1. SamePipes(c) /\ Kept(c) /\ Grows /\ conn[c].active \in BOOLEAN
  BY BeginsKeeps DEF Types, Conns
<1>2. CASE ~conn[c].active
  <2>1. toC'[c] = toC[c] /\ Polled(c).mode = "none"
    BY <1>2, GonePolled DEF Begins
  <2> QED BY <1>1, <2>1, Untouched
<1>3. CASE conn[c].active
  <2>1. PICK ms : ms = toC'[c] /\ SentFrame(c, rd, load, ms)
    BY <1>3 DEF Begins
  <2>2. PICK ns, ds : ns = CurInput(c, rd) /\ ds = Departures(c)
    OBVIOUS
  <2>3. /\ ns \in Seq(ToClient) /\ ds \in Seq(ToClient)
        /\ OfOthers(load) /\ OfOthers(ns) /\ OfOthers(ds)
        /\ \E p1 \in Seq(ToClient), p2 \in Seq(ToClient), q \in Seq(ToClient) :
             q = toC[c] /\ IsJoin(p1, q, load) /\ IsJoin(p2, p1, ns) /\ IsJoin(ms, p2, ds)
    BY <2>1, <2>2, FrameParts DEF Begins
  <2>4. PICK p1 \in Seq(ToClient), p2 \in Seq(ToClient), q \in Seq(ToClient) :
          q = toC[c] /\ IsJoin(p1, q, load) /\ IsJoin(p2, p1, ns) /\ IsJoin(ms, p2, ds)
    BY <2>3
  <2>5. PICK s \in States : s = cl[c]
    BY PolledIsState
  <2>6. PICK e, t1, t2, t3 : /\ e = Ends(c, s, q) /\ t1 = Ends(c, e, load)
                             /\ t2 = Ends(c, t1, ns) /\ t3 = Ends(c, t2, ds)
    OBVIOUS
  <2>7. /\ e \in States /\ Ends(c, s, p1) = t1 /\ NoNews(q, p1)
        /\ Whole(c, s, q) /\ Whole(c, e, load) => Whole(c, s, p1)
    BY <2>3, <2>4, <2>6, ReadsMore
  <2>8. /\ t1 \in States /\ Ends(c, s, p2) = t2 /\ NoNews(p1, p2)
        /\ Whole(c, s, p1) /\ Whole(c, t1, ns) => Whole(c, s, p2)
    BY <2>3, <2>4, <2>6, <2>7, ReadsMore
  <2>9. /\ t2 \in States /\ Ends(c, s, ms) = t3 /\ NoNews(p2, ms)
        /\ Whole(c, s, p2) /\ Whole(c, t2, ds) => Whole(c, s, ms)
    BY <2>3, <2>4, <2>6, <2>8, ReadsMore
  <2>10. Polled(c) = e /\ Polled(c)' = t3
    <3> HIDE DEF After
    <3>1. cl'[c] = s
      BY <1>1, <2>5 DEF SamePipes
    <3>2. Polled(c) = Ends(c, s, q)
      BY <2>4, <2>5 DEF Polled, Reading, Ends
    <3>3. Polled(c)' = Ends(c, s, ms)
      BY <2>1, <3>1 DEF Polled, Reading, Ends
    <3> QED BY <2>6, <2>9, <3>2, <3>3
  <2>11. (Complete(c) => Whole(c, s, q)) /\ (Whole(c, s, ms) => Complete(c)')
    <3>1. PICK f : f = After(c, s, ms)
      OBVIOUS
    <3>2. cl'[c] = s
      BY <1>1, <2>5 DEF SamePipes
    <3>3. Reading(c)' = f
      <4> HIDE DEF After
      <4> QED BY <2>1, <3>1, <3>2 DEF Reading
    <3>4. ASSUME Whole(c, s, ms) PROVE Complete(c)'
      <4>1. \A i \in 1..Len(ms) : AfterItsInput(c, f[i - 1], ms[i])
        <5> HIDE DEF After
        <5> QED BY <3>1, <3>4 DEF Whole
      <4>2. \A i \in 1..Len(ms) : AfterItsInput(c, f[i - 1], ms[i])'
        BY <1>1, <4>1, StillAfterItsInput
      <4> QED BY <2>1, <3>3, <4>2 DEF Complete
    <3>5. Complete(c) => Whole(c, s, q)
      <4> HIDE DEF After
      <4> QED BY <2>4, <2>5 DEF Complete, Whole, Reading
    <3> QED BY <3>4, <3>5
  <2>12. (Quiet(c)' <=> Quiet(c)) /\ (Answered(c)' <=> Answered(c))
    <3>1. NoNews(q, ms)
      BY <2>7, <2>8, <2>9 DEF NoNews
    <3> HIDE DEF Yours, IsAnswer
    <3> QED BY <2>1, <2>4, <3>1 DEF NoNews, Quiet, Answered
  <2>13. Talks(c)'
    BY <1>1, <2>12, TalksKept DEF PeerInv
  <2>14. CASE e.mode = "none"
    <3>1. t1 = e /\ Whole(c, e, load)
      BY <2>6, <2>7, <2>14, GoneReads
    <3>2. t2 = e /\ Whole(c, t1, ns)
      BY <2>3, <2>6, <2>7, <2>14, <3>1, GoneReads
    <3>3. t3 = e /\ Whole(c, t2, ds)
      BY <2>3, <2>6, <2>7, <2>14, <3>2, GoneReads
    <3>4. Complete(c)'
      BY <2>7, <2>8, <2>9, <2>11, <3>1, <3>2, <3>3 DEF PeerInv
    <3>5. cl'[c].mode # "none" /\ ~hist'.late => FALSE
      BY <1>1, <2>10, <2>14 DEF PeerInv, SamePipes, Grows
    <3> QED BY <2>10, <2>13, <2>14, <3>3, <3>4, <3>5 DEF PeerInv
  <2>15. CASE e.mode # "none"
    <3>1. Follows(c, e) /\ Sends(c, e)
      BY <2>10, <2>15 DEF PeerInv
    <3>2. /\ t3 \in States /\ t3.mode # "none" /\ Follows(c, t3)'
          /\ Sends(c, e) => SameSending(c, e, t3)
          /\ Whole(c, e, load) /\ Whole(c, t1, ns) /\ Whole(c, t2, ds)
      BY <1>3, <2>2, <2>6, <2>7, <2>15, <3>1, FrameReads
    <3>3. Complete(c)'
      BY <2>7, <2>8, <2>9, <2>11, <3>2 DEF PeerInv
    <3>4. Sends(c, t3)'
      BY <1>1, <2>7, <3>1, <3>2, SendsKept
    <3> QED BY <2>10, <2>13, <3>2, <3>3, <3>4 DEF PeerInv
  <2> QED BY <2>14, <2>15
<1> QED BY <1>1, <1>2, <1>3

(* The begin of a frame of the server keeps the invariant. *)
LEMMA PreFrameStep ==
  ASSUME IInv, Types', PreFrame
  PROVE  IInv'
<1>1. Types /\ Roles /\ OnlyKnownNaks
  BY DEF IInv
<1>2. PICK rd \in [Client -> Nat], load \in Seq(ToClient) : Begins(rd, load)
  BY <1>1, PreFrameParts
<1>3. \A c \in Client : PeerInv(c)'
  BY <1>1, <1>2, PreFramePeer DEF IInv
<1>4. Roles'
  <2>1. ASSUME NEW c \in Client PROVE Role(c)'
    <3>1. /\ Role(c) /\ read[c] \in Nat /\ read'[c] \in Nat
      BY <1>1, ReadIsNat, ReadIsNatNext DEF Roles
    <3>2. /\ read'[c] >= read[c] /\ (Plays(c)' <=> Plays(c)) /\ SamePipes(c)
          /\ conn'[c].active = conn[c].active /\ (Plays(c) => conn'[c] = conn[c])
      BY <1>1, <1>2, BeginsKeeps
    <3>3. devs' = devs /\ (~conn[c].active => toC'[c] = toC[c])
      BY <1>2 DEF Begins
    <3>4. conn'[c].mode = "delayed" => conn[c].mode = "delayed"
      BY <1>2 DEF Begins
    <3> QED BY <3>1, <3>2, <3>3, <3>4 DEF Role, SamePipes
  <2>2. ~srv.stall
    BY <1>1, <1>2 DEF Roles, Begins
  <2> QED BY <1>1, <1>2, <2>1, <2>2 DEF Roles, Begins
<1>5. OnlyKnownNaks' /\ StallCanEnd'
  <2>1. ~srv'.stall /\ hist' = hist
    BY <1>1, <1>2 DEF Roles, Begins
  <2> QED BY <1>1, <2>1 DEF OnlyKnownNaks, StallCanEnd
<1> QED BY <1>3, <1>4, <1>5 DEF IInv

-----------------------------------------------------------------------------
(* The start, steps that change nothing, and all others.                   *)

(* With nothing to read a client is what it is. *)
LEMMA NothingToRead ==
  ASSUME NEW c, NEW s, s = cl[c], toC[c] = <<>>
  PROVE  Polled(c) = s /\ Quiet(c) /\ Complete(c) /\ ~Answered(c)
<1>1. PICK f, q : f = After(c, s, q) /\ q = toC[c]
  OBVIOUS
<1>2. q = <<>> /\ Len(q) = 0
  BY <1>1
<1>3. f[0] = s
  BY <1>1, <1>2, AfterReads
<1>4. Polled(c) = f[0]
  <2> HIDE DEF After
  <2> QED BY <1>1, <1>2 DEF Polled, Reading
<1>5. Len(toC[c]) = 0
  BY <1>1, <1>2
<1> QED BY <1>3, <1>4, <1>5 DEF Quiet, Complete, Answered

(* A client at the start: what it has sent is at most one request.         *)
AtFirst(c, s, q) ==
  /\ conn[c].delay = 0 /\ conn[c].mode \in {"none", "spectating"} /\ cl[c] = s
  /\ toC[c] = <<>> /\ toS[c] = q /\ s.out = <<>>
  /\ \/ c \in AtStart /\ conn[c].active /\ s.mode = "spectating" /\ s.server = 1
     \/ c \notin AtStart /\ s.mode = "none" /\ ~conn[c].active
  /\ \A p \in Peer : s.view[p] = {}
  /\ \/ c \in Asked /\ Len(q) = 1 /\ q[1].t = "play"
     \/ c \notin Asked /\ Len(q) = 0 /\ q = <<>>

(* A session starts with the clients that have connected. *)
LEMMA InitParts ==
  ASSUME Init, NEW c \in Client
  PROVE  \E s, q : AtFirst(c, s, q)
<1>1. PICK r : toS = [x \in Client |-> IF x \in Asked THEN <<PlayCmd(r[x])>> ELSE <<>>]
  BY DEF Init
<1>2. PICK s, q : s = cl[c] /\ q = toS[c]
  OBVIOUS
<1>3. \/ c \in Asked /\ Len(q) = 1 /\ q[1].t = "play"
      \/ c \notin Asked /\ Len(q) = 0 /\ q = <<>>
  <2>1. CASE c \in Asked
    <3>1. PICK m : m = PlayCmd(r[c])
      OBVIOUS
    <3>2. q = <<m>> /\ m.t = "play"
      BY <1>1, <1>2, <2>1, <3>1 DEF PlayCmd
    <3> QED BY <2>1, <3>2
  <2>2. CASE c \notin Asked
    <3>1. q = <<>>
      BY <1>1, <1>2, <2>2
    <3> QED BY <2>2, <3>1
  <2> QED BY <2>1, <2>2
<1>4. conn[c].delay = 0 /\ conn[c].mode \in {"none", "spectating"}
      /\ (conn[c].active <=> c \in AtStart)
  BY DEF Init, NoConn
<1>5. toC[c] = <<>>
  BY DEF Init
<1>6. s.out = <<>> /\ (\A p \in Peer : s.view[p] = {})
      /\ (c \in AtStart => s.mode = "spectating" /\ s.server = 1)
      /\ (c \notin AtStart => s.mode = "none")
  <2>1. s = IF c \in AtStart THEN Watcher ELSE NoClient
    BY <1>2 DEF Init
  <2> QED BY <2>1 DEF Watcher, NoClient, Nobody
<1>7. AtFirst(c, s, q)
  BY <1>2, <1>3, <1>4, <1>5, <1>6 DEF AtFirst
<1> QED BY <1>7

LEMMA InitPeer ==
  ASSUME Init, Types, NEW c \in Client
  PROVE  PeerInv(c) /\ Role(c)
<1>1. PICK s, q : AtFirst(c, s, q)
  BY InitParts
<1>2. /\ srv.self = 0 /\ srv.phase = "poll" /\ \A p \in Peer : devs[p] = {}
      /\ hist.waiting = Asked /\ hist.impatient = {}
  BY DEF Init, Nobody
<1>3. /\ Polled(c) = s /\ Quiet(c) /\ Complete(c) /\ ~Answered(c)
  BY <1>1, NothingToRead DEF AtFirst
<1>4. ServerRead = 1 /\ 0 \in Peer /\ c \in Peer /\ ~Plays(c) /\ Client \subseteq Peer
  BY <1>1, <1>2, ServerIsPeer DEF ServerRead, AtFirst, Plays
<1>5. \A p \in Client : conn[p].delay = 0
  BY DEF Init, NoConn
<1>6. \A i \in 1..Len(q) : i = 1 /\ q[i].t = "play" /\ c \in Asked
  <2>1. CASE c \in Asked /\ Len(q) = 1 /\ q[1].t = "play"
    <3>1. \A i \in 1..1 : i = 1
      OBVIOUS
    <3> QED BY <2>1, <3>1
  <2>2. CASE Len(q) = 0
    BY <2>2
  <2> QED BY <1>1, <2>1, <2>2 DEF AtFirst
<1>7. toS[c] = q /\ toC[c] = <<>> /\ cl[c] = s /\ s.out = <<>>
  BY <1>1 DEF AtFirst
<1>8. c \in Asked => s.mode = "spectating"
  BY <1>1, SessionAssumption DEF AtFirst
<1>9. Talks(c)
  <2>1. Piped(c)
    BY <1>6, <1>7 DEF Piped, InTurn
  <2>2. Modes(c)
    BY <1>1, <1>4, <1>7 DEF Modes, AtFirst
  <2>3. Patient(c)
    BY <1>2, <1>3, <1>4, <1>6, <1>7 DEF Patient
  <2>4. Requests(c)
    <3>1. c \in Asked => Has(q, "play")
      <4>1. 1 \in 1..1
        OBVIOUS
      <4> QED BY <1>1, <4>1 DEF AtFirst, Has
    <3> QED BY <1>2, <1>7, <1>8, <3>1 DEF Requests, Connected
  <2> QED BY <2>1, <2>2, <2>3, <2>4 DEF Talks
<1>10. ASSUME s.mode # "none" PROVE Follows(c, s) /\ Sends(c, s)
  <2>1. s.mode = "spectating" /\ s.server = 1 /\ \A p \in Peer : s.view[p] = {}
    BY <1>1, <1>10 DEF AtFirst
  <2>2. Follows(c, s)
    BY <1>2, <1>4, <1>5, <2>1 DEF Follows, Knows, Owed
  <2>3. Len(s.out) = 0
    BY <1>7
  <2>4. Sends(c, s)
    BY <1>4, <1>7, <2>1, <2>3 DEF Sends, InTurn, Has
  <2> QED BY <2>2, <2>4
<1>11. PeerInv(c)
  BY <1>3, <1>7, <1>9, <1>10 DEF PeerInv
<1>12. Role(c)
  <2>1. c \notin AtStart => c \notin Asked
    BY SessionAssumption
  <2> QED BY <1>1, <1>2, <1>4, <2>1 DEF Role, AtFirst
<1> QED BY <1>11, <1>12

(* The invariant holds at first, *)
LEMMA InitIInv == Init => IInv
<1> SUFFICES ASSUME Init PROVE IInv
  OBVIOUS
<1>1. Types
  BY InitTypes
<1>2. \A c \in Client : PeerInv(c) /\ Role(c)
  BY <1>1, InitPeer
<1>3. ~srv.stall /\ ~srv.playing /\ devs[0] = {} /\ hist.nak = {}
  BY ServerIsPeer DEF Init, Nobody
<1> QED BY <1>1, <1>2, <1>3 DEF IInv, Roles, OnlyKnownNaks, StallCanEnd

LEMMA StutterStep ==
  ASSUME IInv, Types', UNCHANGED vars
  PROVE  IInv'
<1>1. /\ srv' = srv /\ conn' = conn /\ read' = read /\ devs' = devs /\ cl' = cl
      /\ toS' = toS /\ toC' = toC /\ hist' = hist
  BY DEF vars
<1>2. ASSUME NEW c \in Client PROVE PeerInv(c)'
  <2>1. Types /\ PeerInv(c)
    BY DEF IInv
  <2>2. SamePipes(c) /\ Kept(c) /\ Grows
    <3>1. read[c] \in Nat
      BY <2>1, ReadIsNat
    <3> QED BY <1>1, <3>1 DEF SamePipes, Kept, Grows, Plays
  <2>3. ASSUME NEW e, Follows(c, e) PROVE Follows(c, e)'
    BY <1>1, <2>3 DEF Follows, Knows, Owed, ServerRead
  <2> QED BY <1>1, <2>1, <2>2, <2>3, Untouched
<1>3. Roles'
  BY <1>1 DEF IInv, Roles, Role, Plays
<1>4. OnlyKnownNaks' /\ StallCanEnd'
  BY <1>1 DEF IInv, OnlyKnownNaks, StallCanEnd, NewStall, StalledOut, Late, Plays
<1> QED BY <1>2, <1>3, <1>4 DEF IInv

(* and every step keeps it. *)
LEMMA NextIInv == IInv /\ [Next]_vars => IInv'
<1> SUFFICES ASSUME IInv, [Next]_vars PROVE IInv'
  OBVIOUS
<1>1. Types'
  BY NextTypes DEF IInv
<1>2. CASE PreFrame
  BY <1>1, <1>2, PreFrameStep
<1>3. CASE EndPoll
  BY <1>1, <1>3, EndPollStep
<1>4. CASE StallOut
  BY <1>1, <1>4, StallOutStep
<1>5. CASE ServerSpectate
  BY <1>1, <1>5, ServerSpectateStep
<1>6. ASSUME NEW r \in Ask[0], ServerPlay(r) PROVE IInv'
  BY <1>1, <1>6, ServerPlayStep
<1>7. ASSUME NEW c \in Client, RecvCmd(c) PROVE IInv'
  BY <1>1, <1>7, RecvCmdStep
<1>8. ASSUME NEW c \in Client, Join(c) PROVE IInv'
  BY <1>1, <1>8, JoinStep
<1>9. ASSUME NEW c \in Client, ClientFrame(c) PROVE IInv'
  BY <1>1, <1>9, ClientFrameStep
<1>10. ASSUME NEW c \in Client, ClientToggle(c) PROVE IInv'
  BY <1>1, <1>10, ClientToggleStep
<1>11. ASSUME NEW c \in Client, Quit(c) \/ Crash(c) PROVE IInv'
  BY <1>1, <1>11, QuitStep
<1>12. CASE UNCHANGED vars
  BY <1>1, <1>12, StutterStep
<1> QED BY <1>2, <1>3, <1>4, <1>5, <1>6, <1>7, <1>8, <1>9, <1>10, <1>11, <1>12 DEF Next

-----------------------------------------------------------------------------
(* What the invariant says. *)

(* A client that has read everything and is owed nothing knows who plays. *)
LEMMA Agreement == IInv => ViewsAgree
<1> SUFFICES ASSUME IInv, NEW c \in Client, Connected(c), toC[c] = <<>>
             PROVE  /\ \A p \in Peer \ {c} :
                         \/ cl[c].view[p] = devs[p]
                         \/ /\ p # 0 /\ devs[p] = {}
                            /\ \/ conn[p].delay # 0 /\ (conn[p].active \/ conn[p].mode = "delayed")
                               \/ p \in hist.untold
                    /\ toS[c] = <<>> => cl[c].view[c] = devs[c]
  BY DEF ViewsAgree
<1>1. PICK s : s = cl[c]
  OBVIOUS
<1>2. Polled(c) = s
  BY <1>1, NothingToRead
<1>3. s.mode # "none"
  BY <1>1 DEF Connected
<1>4. Follows(c, s)
  BY <1>2, <1>3 DEF IInv, PeerInv
<1>5. s.view[0] = devs[0] /\ s.view[c] = devs[c] /\ \A p \in Client \ {c} : Knows(c, s, p)
  BY <1>4 DEF Follows
<1>6. \A p \in Peer : p = 0 \/ p \in Client
  BY SessionAssumption DEF Peer, Client
<1> QED BY <1>1, <1>5, <1>6, ServerIsPeer DEF Knows, Owed

(* A request is on its way, or its answer is, or it was ignored. *)
LEMMA AnswerOnWay == IInv => RequestsAnswered
<1> SUFFICES ASSUME IInv, NEW c \in hist.waiting, Connected(c), toS[c] = <<>>, toC[c] = <<>>
             PROVE  c \in hist.ignored
  BY DEF RequestsAnswered
<1>1. c \in Client
  BY DEF IInv, Types, Hists
<1>2. Len(toS[c]) = 0 /\ ~Answered(c)
  <2>1. PICK s : s = cl[c]
    OBVIOUS
  <2>2. PICK q : q = toS[c] /\ q = <<>>
    OBVIOUS
  <2>3. Len(q) = 0
    BY <2>2
  <2> QED BY <2>1, <2>2, <2>3, NothingToRead
<1>3. Requests(c)
  BY <1>1 DEF IInv, PeerInv, Talks
<1> QED BY <1>2, <1>3 DEF Requests, Has

(* A departure comes behind the input of the player. *)
LEMMA InputBefore == IInv => DepartureAfterInput
<1> SUFFICES ASSUME IInv, NEW c \in Client, NEW p \in Peer \ {c}, p \notin hist.lost
             PROVE  InputComplete(c, p)
  BY DEF DepartureAfterInput
<1>1. PICK q, f : q \in Seq(ToClient) /\ q = toC[c] /\ f = Reading(c)
  BY PolledIsState DEF IInv
<1>2. \A i \in 1..Len(q) : AfterItsInput(c, f[i - 1], q[i])
  BY <1>1 DEF IInv, PeerInv, Complete
<1>3. DOMAIN q = 1..Len(q)
  OBVIOUS
<1>4. \A i \in DOMAIN q : q[i].t = "mode" /\ ~q[i].you /\ q[i].devs = {} /\ q[i].peer = p
                          /\ f[i - 1].view[p] # {} => f[i - 1].read[p] >= q[i].frame
  BY <1>2, <1>3 DEF AfterItsInput
<1> HIDE DEF After
<1> QED BY <1>1, <1>4 DEF InputComplete

(***************************************************************************)
(* In every state of a session each client, once it has read what it is    *)
(* sent, knows of every player what the server does or is owed the news;   *)
(* what it has sent is what the server will accept.  netplay_pre_frame,    *)
(* netplay_poll, handle_play_spectate, netplay_hangup and the client's     *)
(* side of netplay_get_cmd keep that between them.                         *)
(***************************************************************************)
THEOREM Invariant == Spec => []IInv
BY InitIInv, NextIInv, PTL DEF Spec

(* The server never hangs up on a client for an INPUT or a SPECTATE it did *)
(* not expect, and for a PLAY only on one that asked again before it had   *)
(* its answer; a client hangs up on the server only when the server began  *)
(* to play in a frame whose input it had sent (netplay_get_cmd).           *)
THEOREM NaksAreKnown == Spec => []OnlyKnownNaks
<1>1. IInv => OnlyKnownNaks
  BY DEF IInv
<1> QED BY <1>1, Invariant, PTL

(* A client that has read everything it was sent sees the devices of every *)
(* other player as the server has them, unless the departure is still      *)
(* owed (netplay_delayed_state_change) or was lost with the connection     *)
(* (netplay_hangup); and its own, once the server has read everything.     *)
THEOREM ViewsStayInAgreement == Spec => []ViewsAgree
BY Agreement, Invariant, PTL

(* A client still waits for the answer to a request, with nothing on the   *)
(* way, only when handle_play_spectate has ignored the request.            *)
THEOREM RequestsGetAnswers == Spec => []RequestsAnswered
BY AnswerOnWay, Invariant, PTL

(* A client reads that another player has stopped, which                   *)
(* netplay_delayed_state_change sends, after all of the input of that      *)
(* player, unless the player was ahead of the server when it stopped.      *)
THEOREM InputComesBeforeDeparture == Spec => []DepartureAfterInput
BY InputBefore, Invariant, PTL

(* The server stalls in netplay_poll only on players of which it blames    *)
(* one, unless the one it blamed has left by itself.                       *)
THEOREM StallsCanEnd == Spec => []StallCanEnd
<1>1. IInv => StallCanEnd
  BY DEF IInv
<1> QED BY <1>1, Invariant, PTL

=============================================================================
