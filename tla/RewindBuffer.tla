---------------------------- MODULE RewindBuffer ---------------------------
(***************************************************************************)
(* managers/state_manager.c: the ring of memory in which rewind keeps      *)
(* savestates.  Only the newest is kept whole (thisblock); each older one  *)
(* is a patch against its successor, between a pointer to the next frame   *)
(* and a pointer to its own start:                                         *)
(*                                                                         *)
(*     start: | next start | patch ... | start | next start | ...          *)
(*                                                                         *)
(* A cell of the ring is a 16-bit word or a whole size_t: the code packs   *)
(* them in bytes.  A cell that was never written holds Unwritten (malloc). *)
(* The core's savestates are members of Saved; `entries` is left out, only *)
(* code under #if 0 reads it.                                              *)
(***************************************************************************)
EXTENDS RewindPatch

CONSTANTS Saved,        \* savestates core_serialize produces
          Capacities    \* values of the setting rewind_buffer_size

ASSUME SavedAssumption == Saved \subseteq Block

SizeT == 1
Unwritten == -1

(* "the compressed data is surrounded by pointers to the other side"       *)
maxcompsize == state_manager_raw_maxsize + 2 * SizeT

ASSUME CapacitiesAssumption == Capacities \subseteq Nat \ {0}

VARIABLES inited,           \* rewind_state.state # NULL
          capacity,
          data,             \* the ring
          head, tail,
          thisblock,
          thisblock_valid,
          loaded            \* what core_unserialize was last given

vars == <<inited, capacity, data, head, tail, thisblock, thisblock_valid, loaded>>

Zero == [i \in 1..Words |-> 0]

Init == /\ inited = FALSE /\ capacity = 0 /\ data = <<>>
        /\ head = SizeT /\ tail = SizeT
        /\ thisblock = Zero /\ thisblock_valid = FALSE
        /\ loaded \in Saved

-----------------------------------------------------------------------------
(* Undoes the newest patch: the head returns to the start of its frame.    *)
pop_frame ==
  LET start == data[head - SizeT]
  IN [head |-> start,
      block |-> state_manager_raw_decompress(data, start + SizeT, thisblock)]

(* mutant: a frame that was popped from is taken for the newest *)
push_where_NoPop == [head |-> head, block |-> thisblock]

(* "We need to ensure we have an uncompressed copy of the last pushed      *)
(* state, or we could end up applying a 'patch' to wrong savestate".       *)
push_where ==
  IF thisblock_valid \/ head = tail
  THEN [head |-> head, block |-> thisblock]
  ELSE pop_frame

(* The room between the head and the tail, were they at h and t.           *)
remaining(h, t) == ((t + capacity - SizeT - h - 1) % capacity) + 1

(* "if the compressed data could potentially overwrite the tail pointer,   *)
(* the tail retreats until it can no longer collide"; there are fewer      *)
(* frames to retreat over than cells.                                      *)
recheckcapacity(h, t0) ==
  LET retreat[n \in 0..capacity] ==
        IF n = 0 THEN t0
        ELSE LET t == retreat[n - 1]
             IN IF remaining(h, t) <= maxcompsize THEN data[t] ELSE t
  IN retreat[capacity]

(* mutant: no room is kept for the pointers of the next frame *)
wrap_Late(end, t) ==
  IF end + state_manager_raw_maxsize - 1 > capacity
  THEN [at |-> 0, tail |-> IF t = SizeT THEN data[t] ELSE t]
  ELSE [at |-> end, tail |-> t]

(* Where the patch that ends before offset end leaves the head, "returning *)
(* to the start of the buffer if the compressed data could potentially hit *)
(* the edge", and the tail.                                                *)
wrap(end, t) ==
  IF end + maxcompsize > capacity
  THEN [at |-> 0, tail |-> IF t = SizeT THEN data[t] ELSE t]
  ELSE [at |-> end, tail |-> t]

(* the ring after a sequence of words is stored from offset p on *)
Store(p, words) ==
  [i \in DOMAIN data |-> IF i \in p..(p + Len(words) - 1)
                         THEN words[i - p + 1] ELSE data[i]]

(* The patch is stored after the head, then the pointers around it.        *)
push_patch(newest, next) ==
  LET patch == state_manager_raw_compress(newest.block, next)
      w == wrap(newest.head + SizeT + Len(patch), recheckcapacity(newest.head, tail))
  IN /\ data' = [Store(newest.head + SizeT, patch)
                   EXCEPT ![w.at] = newest.head, ![newest.head] = w.at + SizeT]
     /\ head' = w.at + SizeT
     /\ tail' = w.tail
     /\ thisblock' = next

(* state_manager_push_where, core_serialize, state_manager_push_do.        *)
Push(next) ==
  /\ inited
  /\ \/ /\ ~thisblock_valid /\ head = tail
        /\ thisblock' = next
        /\ UNCHANGED <<data, head, tail>>
     \/ /\ thisblock_valid \/ head # tail
        /\ IF capacity < SizeT + maxcompsize
           THEN /\ head' = push_where.head
                /\ thisblock' = push_where.block
                /\ UNCHANGED <<data, tail>>
           ELSE push_patch(push_where, next)
  /\ thisblock_valid' = TRUE
  /\ UNCHANGED <<inited, capacity, loaded>>

(* state_manager_pop for check_rewind, which gives the core thisblock even *)
(* when there is nothing left to undo.                                     *)
Pop ==
  /\ inited
  /\ \/ /\ thisblock_valid
        /\ thisblock_valid' = FALSE
        /\ UNCHANGED <<head, thisblock>>
     \/ /\ ~thisblock_valid /\ head = tail
        /\ UNCHANGED <<head, thisblock, thisblock_valid>>
     \/ /\ ~thisblock_valid /\ head # tail
        /\ head' = pop_frame.head
        /\ thisblock' = pop_frame.block
        /\ UNCHANGED thisblock_valid
  /\ loaded' = thisblock'
  /\ UNCHANGED <<inited, capacity, data, tail>>

(* state_manager_event_init: a new ring, and the core's state pushed on it *)
New(c, s) ==
  /\ ~inited
  /\ inited' = TRUE
  /\ capacity' = c
  /\ data' = [i \in 0..(c - 1) |-> Unwritten]
  /\ head' = SizeT /\ tail' = SizeT
  /\ thisblock' = s /\ thisblock_valid' = TRUE
  /\ UNCHANGED loaded

(* state_manager_event_deinit *)
Free ==
  /\ inited
  /\ inited' = FALSE
  /\ capacity' = 0 /\ data' = <<>>
  /\ head' = SizeT /\ tail' = SizeT
  /\ thisblock' = Zero /\ thisblock_valid' = FALSE
  /\ UNCHANGED loaded

Next == \/ \E c \in Capacities, s \in Saved : New(c, s)
        \/ \E s \in Saved : Push(s)
        \/ Pop
        \/ Free

Spec == Init /\ [][Next]_vars

-----------------------------------------------------------------------------
(* The starts of the frames, from the head back to the tail and from the   *)
(* tail up to the head.                                                    *)
Backward ==
  LET back[h \in Int, n \in Nat] ==
        IF h = tail \/ n = 0 \/ h \notin DOMAIN data THEN <<h>> ELSE Append(back[data[h - SizeT], n - 1], h)
  IN back[head, capacity]

Forward ==
  LET forth[t \in Int, n \in Nat] ==
        IF t = head \/ n = 0 \/ t \notin DOMAIN data THEN <<t>> ELSE <<t>> \o forth[data[t], n - 1]
  IN forth[tail, capacity]

(* "The start offsets point to 'nextstart' of any given compressed frame": *)
(* popping from the head and forgetting from the tail walk the same frames.*)
FramesLinked == inited => Backward = Forward

(* The largest patch, and the pointers around it always fit behind the      *)
(* head, before the end of the buffer push_do writes to unchecked.         *)
NextPatchFits ==
  inited /\ capacity >= SizeT + maxcompsize =>
    head + SizeT + state_manager_raw_maxsize <= capacity

(* Whatever two savestates differ in, the patch undoes it.                 *)
PatchesUndo == ~inited => \A old, new \in Block : PatchUndoes(old, new)

(* the savestates the buffer holds, the newest last *)
stackOf ==
  LET undo[n \in 0..capacity] == [h \in Int |-> [b \in Block |->
        LET start == data[h - SizeT]
            older == state_manager_raw_decompress(data, start + SizeT, b)
        IN IF h = tail \/ n = 0 THEN <<>>
           ELSE Append(undo[n - 1][start][older], older)]]
      older == undo[capacity][head][thisblock]
  IN IF ~inited THEN <<>>
     ELSE IF thisblock_valid THEN Append(older, thisblock) ELSE older

Stack == INSTANCE RewindStack WITH States <- Saved, stack <- stackOf

(* However often it wraps, forgets, is rewound and pushed to again, the    *)
(* buffer is a stack: what check_rewind loads is the savestate last pushed *)
(* that was not loaded yet, word for word.                                 *)
IsStack == Stack!Spec

=============================================================================
