---------------------------- MODULE MessageQueue ----------------------------
(***************************************************************************)
(* libretro-common/queues/message_queue.c: the on-screen messages of the   *)
(* run loop, kept as a binary heap of pointers.  Every entry point is      *)
(* called under runloop_msg_queue_lock, so each is one action.             *)
(*                                                                         *)
(* The heap is an array of pointers: an address is a number, calloc hands  *)
(* out any free one, and free makes it available again.  Slots at and      *)
(* above ptr keep the pointers last stored in them.                        *)
(***************************************************************************)
EXTENDS Integers, FiniteSets, FiniteSetsExt

CONSTANTS Msg,          \* the messages pushed, each once
          Addr,         \* addresses calloc may return, numbers above 0
          Size,         \* argument of msg_queue_new
          Prio,         \* priorities, natural numbers
          Durations,    \* durations pushed: the core chooses some of them
          UIntMax       \* the largest unsigned

ASSUME SizeAssumption == Size \in Nat \ {0}
ASSUME AddrAssumption == Addr \subseteq Nat \ {0}
ASSUME UnsignedAssumption == /\ UIntMax \in Nat /\ Prio \subseteq Nat
                             /\ Durations \subseteq 0..UIntMax

VARIABLES elems,    \* slot -> address of a queue_elem, or NULL
          heap,     \* address -> the queue_elem allocated there
          ptr,      \* the first free slot
          tmp_msg,  \* the message kept alive for the last caller of pull
          asked,    \* history: message pushed -> its duration
          lost,     \* history: messages dropped by a full queue or cleared
          shown     \* history: how often each message was returned

vars == <<elems, heap, ptr, tmp_msg, asked, lost, shown>>

NULL == 0
NoMsg == "none"
Slot == 1..Size
InUse == 1..(ptr - 1)
Arrays == [Slot -> Addr \cup {NULL}]
Elem == [msg : Msg, prio : Prio, duration : 0..UIntMax]
at(i) == heap[elems[i]]
allocated == DOMAIN heap

(* msg_queue_new: capacity Size, as slot 0 is not used *)
Init ==
  /\ elems = [i \in Slot |-> NULL] /\ heap = [a \in {} |-> NULL]
  /\ ptr = 1 /\ tmp_msg = NoMsg
  /\ asked = [m \in {} |-> 0] /\ lost = {} /\ shown = [m \in Msg |-> 0]

Swap(array, i, j) == [array EXCEPT ![i] = array[j], ![j] = array[i]]

free(a) == [b \in allocated \ {a} |-> heap[b]]

-----------------------------------------------------------------------------
(* mutant: a message passes its equals *)
SiftUp_Equal(memory) ==
  LET up[i \in Slot] == [q \in Arrays |->
        IF i > 1 /\ memory[q[i]].prio >= memory[q[i \div 2]].prio
          THEN up[i \div 2][Swap(q, i, i \div 2)]
          ELSE q]
  IN up

(* The loop of msg_queue_push: the new element rises past lower ones. *)
SiftUp(memory) ==
  LET up[i \in Slot] == [q \in Arrays |->
        IF i > 1 /\ memory[q[i]].prio > memory[q[i \div 2]].prio
          THEN up[i \div 2][Swap(q, i, i \div 2)]
          ELSE q]
  IN up

(* Drops the message when the queue is full. *)
msg_queue_push(m, prio, duration) ==
  /\ m \notin DOMAIN asked
  /\ asked' = [n \in DOMAIN asked \cup {m} |-> IF n = m THEN duration
                                                      ELSE asked[n]]
  /\ IF ptr > Size
       THEN lost' = lost \cup {m} /\ UNCHANGED <<elems, heap, ptr>>
       ELSE \E a \in Addr \ allocated :
            /\ heap' = [b \in allocated \cup {a} |->
                          IF b = a THEN [msg |-> m, prio |-> prio,
                                         duration |-> duration]
                                   ELSE heap[b]]
            /\ elems' = SiftUp(heap')[ptr][[elems EXCEPT ![ptr] = a]]
            /\ ptr' = ptr + 1
            /\ UNCHANGED lost
  /\ UNCHANGED <<tmp_msg, shown>>

-----------------------------------------------------------------------------
(* mutant: the element is compared with one slot too many *)
Bigger_Beyond(q, p, i, child) == child <= p + 1 /\ child <= Size /\ q[i] < q[child]

(* The test of the loop of msg_queue_pull.  It compares the POINTERS, and  *)
(* looks at slot p, which still holds the element moved to the root.       *)
Bigger(q, p, i, child) == child <= p /\ q[i] < q[child]

SiftDown(p) ==
  LET down[i \in Slot] == [q \in Arrays |->
        LET left  == Bigger(q, p, i, 2 * i)
            right == Bigger(q, p, i, 2 * i + 1)
            child == IF left /\ (~right \/ q[2 * i] >= q[2 * i + 1])
                       THEN 2 * i ELSE 2 * i + 1
        IN IF ~left /\ ~right THEN q ELSE down[child][Swap(q, i, child)]]
  IN down

(* mutant: a message vanishes one frame early *)
Countdown_Early(duration) == IF duration <= 1 THEN 0 ELSE duration - 2

(* front->duration-- on an unsigned *)
Countdown(duration) == (duration - 1) % (UIntMax + 1)

(* The front message is shown once more; when that was the last time the   *)
(* last element takes its place and sinks.                                 *)
msg_queue_pull ==
  /\ LET front == elems[1]
         left  == Countdown(heap[front].duration)
         m     == heap[front].msg
         p     == ptr - 1
     IN \/ /\ ptr = 1
           /\ UNCHANGED <<elems, heap, ptr, tmp_msg, shown>>
        \/ /\ ptr > 1 /\ left > 0
           /\ heap' = [heap EXCEPT ![front].duration = left]
           /\ shown' = [shown EXCEPT ![m] = @ + 1]
           /\ UNCHANGED <<elems, ptr, tmp_msg>>
        \/ /\ ptr > 1 /\ left = 0
           /\ tmp_msg' = m
           /\ ptr' = p
           /\ heap' = free(front)
           /\ elems' = SiftDown(p)[1][[elems EXCEPT ![1] = elems[p]]]
           /\ shown' = [shown EXCEPT ![m] = @ + 1]
  /\ UNCHANGED <<asked, lost>>

(* runloop_msg_queue_push with flush clears the queue before it pushes. *)
msg_queue_clear ==
  /\ elems' = [i \in Slot |-> IF i \in InUse THEN NULL ELSE elems[i]]
  /\ heap' = [a \in allocated \ {elems[i] : i \in InUse} |-> heap[a]]
  /\ ptr' = 1 /\ tmp_msg' = NoMsg
  /\ lost' = lost \cup {at(i).msg : i \in InUse}
  /\ UNCHANGED <<asked, shown>>

Next ==
  \/ \E m \in Msg, prio \in Prio, duration \in Durations :
       msg_queue_push(m, prio, duration)
  \/ msg_queue_pull
  \/ msg_queue_clear

Spec == Init /\ [][Next]_vars

-----------------------------------------------------------------------------
(* Properties *)

Waiting == {at(i).msg : i \in InUse}

(* The slots in use hold every allocated element exactly once, although    *)
(* the slots above them still hold old pointers and the loop of pull looks *)
(* at the first of those: no element is leaked, shared or used after free. *)
ElementsInUse ==
  /\ {elems[i] : i \in InUse} = allocated
  /\ Cardinality(allocated) = ptr - 1

(* "@duration: how many times the message can be pulled before it          *)
(* vanishes": one that vanished by itself was returned exactly as often,   *)
(* whatever was pushed above it or removed in between, and none is         *)
(* returned more often.  The comment does not hold of a duration of 0,     *)
(* which a core may ask for: msg_queue_pull makes it UINT_MAX before it    *)
(* tests it.  Such messages are in the model, but not in this property.    *)
ShownForDuration ==
  \A m \in DOMAIN asked : asked[m] > 0 =>
    /\ m \notin Waiting \cup lost => shown[m] = asked[m]
    /\ shown[m] <= asked[m]

(* A push makes a message the next to be shown when it beats all others,   *)
(* and never when it does not beat the one that is shown now.              *)
PushTakesTurn ==
  [][ptr' = ptr + 1 /\ ptr > 1 =>
       LET new == CHOOSE a \in DOMAIN heap' : a \notin allocated IN
       /\ elems'[1] = new => heap'[new].prio > at(1).prio
       /\ (\A i \in InUse : heap'[new].prio > at(i).prio) => elems'[1] = new
     ]_vars

=============================================================================
