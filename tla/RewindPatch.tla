---------------------------- MODULE RewindPatch ----------------------------
(***************************************************************************)
(* managers/state_manager.c: how the rewind buffer stores a savestate, as  *)
(* the patch that turns its successor back into it.  A savestate is a      *)
(* block of Words words.  The limits of the counters in a patch, 65535 and *)
(* 4294967295 in the code, are U16 and U32 here, so that small blocks meet *)
(* the same cases.                                                         *)
(***************************************************************************)
EXTENDS Integers, Sequences, FiniteSetsExt

CONSTANTS Words, U16

ASSUME WordsAssumption == Words \in Nat \ {0}
ASSUME U16Assumption == U16 \in Nat \ {0}

U32 == (U16 + 1) * (U16 + 1) - 1

(* Beyond it (8 GB of unchanged data, says the code) a patch records less  *)
(* than it skipped.                                                        *)
ASSUME SizeAssumption == Words <= U32

Block == [1..Words -> 0..U16]

(* "Force in a different byte at the end, so we don't need to check bounds *)
(* in the innermost loop": three equal words, then one that differs.       *)
state_manager_raw_alloc(block, uniq) ==
  [i \in 0..(Words + 4) |-> IF i < Words THEN block[i + 1]
                            ELSE IF i = Words + 3 THEN uniq ELSE 0]

(* offsets at which the old and the new block, as allocated, differ *)
Differ(old, new) ==
  LET a == state_manager_raw_alloc(old, 0)
      b == state_manager_raw_alloc(new, 1)
  IN {i \in 0..(Words + 4) : a[i] # b[i]}

(* mutant: words are compared two at a time and the second is skipped *)
find_change_Pairs(D, i) == LET n == Min({j \in D : j >= i}) - i IN n + (n % 2)

(* how many words from offset i on are equal *)
find_change(D, i) == Min({j \in D : j >= i}) - i

(* How many words from offset i on count as changed: pairs are compared,   *)
(* and "it's random whether two consecutive identical words are caught".   *)
find_same(D, i) ==
  LET n == Min({k \in 0..(Words + 4) :
                  k % 2 = 0 /\ i + k \notin D /\ i + k + 1 \notin D})
  IN IF n > 0 /\ i + n - 1 \notin D THEN n - 1 ELSE n

(* counters of changed words have 16 bits *)
RunLimit(n) == Min({n, U16})

(* "Takes two savestates and creates a patch that turns 'src' into 'dst'." *)
(* The words it stores are those of old: the patch undoes the step.        *)
state_manager_raw_compress(old, new) ==
  LET D == Differ(old, new)
      comp[i \in 0..Words] ==
        LET skip == find_change(D, i)
            at == i + skip
            long == Min({skip, U32})
            changed == RunLimit(find_same(D, at))
        IN IF i = Words \/ skip >= Words - i THEN <<0, 0, 0>>
           ELSE IF skip > U16
           THEN <<0, long % (U16 + 1), long \div (U16 + 1)>> \o comp[at]
           ELSE <<changed % (U16 + 1), skip>> \o SubSeq(old, at + 1, at + changed)
                                  \o comp[at + changed]
  IN comp[0]

(* Applies the patch that starts at cell p of a memory to a block.  Every  *)
(* record but the last is about one word at least: Words turns of the loop *)
(* read all of them.                                                       *)
state_manager_raw_decompress(mem, p, block) ==
  LET written[n \in 0..Words] == [c \in Nat |-> [out \in Nat |->
        LET changed == mem[c]
            at == out + mem[c + 1]
            unchanged == mem[c + 1] + (U16 + 1) * mem[c + 2]
        IN IF n = 0 THEN {}
           ELSE IF changed # 0
           THEN {<<at + k, mem[c + 1 + k]>> : k \in 1..changed}
                  \cup written[n - 1][c + 2 + changed][at + changed]
           ELSE IF unchanged = 0 THEN {} ELSE written[n - 1][c + 3][out + unchanged]]]
      W == written[Words][p][0]
  IN [i \in 1..Words |-> IF \E w \in W : w[1] = i
                         THEN (CHOOSE w \in W : w[1] = i)[2] ELSE block[i]]

(* "Returns the maximum compressed size of a savestate", in words *)
state_manager_raw_maxsize == Words + 2 * ((Words + U16 - 1) \div U16) + 3

-----------------------------------------------------------------------------
(* A patch applied to the newer block gives back the older one, whatever   *)
(* pattern of changes they have.                                           *)
PatchUndoes(old, new) ==
  state_manager_raw_decompress(state_manager_raw_compress(old, new), 1, new) = old

=============================================================================
