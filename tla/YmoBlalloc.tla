----------------------------- MODULE YmoBlalloc -----------------------------
(* The workspace of a request (src/core/ymo_blalloc.c): memory is handed   *)
(* out from the beginning of a block to its end and taken back at once.    *)
EXTENDS Integers, FiniteSets

CONSTANTS
    BlockSize,   \* bytes of the block
    BlockStart,  \* where val is in memory: an address
    Sizes,       \* sizes asked for
    MaxObjs      \* bound: objects at a time

\* Addresses and sizes are not negative: the rounding of YMO_TYPE_CEIL and the
\* comparison with the end of the block are over unsigned values.
ASSUME BlockAssumption == BlockSize \in Nat /\ BlockStart \in Nat /\ Sizes \subseteq Nat

VARIABLES
    current,  \* block->current
    room,   \* block->remain
    objs      \* the objects handed out: [from, to]

bvars == <<current, room, objs>>

End == BlockStart + BlockSize

\* ymo_blalloc_create.
BInit == current = BlockStart /\ room = BlockSize /\ objs = {}

\* Mutant: as it would be if the bit were set and not cleared.
TypeCeil_mutant(p) == IF (p \div 8) % 2 = 0 THEN p + 8 ELSE p - 8

\* YMO_TYPE_CEIL: (p + 8) & ~8, for every alignment.
TypeCeil(p) == LET q == p + 8 IN IF (q \div 8) % 2 = 1 THEN q - 8 ELSE q

\* ymo_blalloc.
Blalloc(n) ==
    /\ Cardinality(objs) < MaxObjs
    /\ LET from == TypeCeil(current) to == from + n IN
       \/ /\ to < End
          /\ room' = room - (to - current)
          /\ current' = to
          /\ objs' = objs \cup {[from |-> from, to |-> to]}
       \/ to >= End /\ UNCHANGED bvars

\* ymo_blalloc_strdup: the terminator as well.
Strdup(n) == Blalloc(n + 1)

\* ymo_blalloc_reset, when the exchange is reset.
BReset == current' = BlockStart /\ room' = BlockSize /\ objs' = {}

BNext == BReset \/ \E n \in Sizes : Blalloc(n) \/ Strdup(n)

BSpec == BInit /\ [][BNext]_bvars

\* Objects lie in the block and apart from each other, and room is what is
\* left behind the last of them.
ObjectsApart ==
    /\ \A o \in objs : BlockStart <= o.from /\ o.to <= End
    /\ \A o, p \in objs : o # p => o.to <= p.from \/ p.to <= o.from
    /\ room = End - current
=============================================================================
