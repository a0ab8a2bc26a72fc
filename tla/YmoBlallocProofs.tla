-------------------------- MODULE YmoBlallocProofs --------------------------
(***************************************************************************)
(* The workspace of a request, for every block and every size: what        *)
(* ymo_blalloc hands out lies in the block, and no object overlaps another *)
(* one, whatever the addresses and however they are rounded.               *)
(***************************************************************************)
EXTENDS YmoBlalloc, TLAPS

Objects == [from : Nat, to : Nat]

BlockType == current \in Nat /\ room \in Int /\ objs \subseteq Objects

\* Everything handed out lies between the beginning of the block and current,
\* so that the next object, which begins at current or behind it, is apart.
Behind ==
    /\ BlockStart <= current /\ current <= End
    /\ \A o \in objs : BlockStart <= o.from /\ o.from <= o.to /\ o.to <= current

BlockInv == BlockType /\ Behind /\ ObjectsApart

-----------------------------------------------------------------------------

\* YMO_TYPE_CEIL rounds up by nothing or by eight, never down.
LEMMA CeilRounds ==
    ASSUME NEW p \in Nat
    PROVE TypeCeil(p) \in {p, p + 8} /\ TypeCeil(p) \in Nat
<1> DEFINE odd == ((p + 8) \div 8) % 2 = 1
<1>1. CASE odd
  <2>1. TypeCeil(p) = (p + 8) - 8
    BY <1>1 DEF TypeCeil
  <2> QED BY <2>1
<1>2. CASE ~odd
  <2>1. TypeCeil(p) = p + 8
    BY <1>2 DEF TypeCeil
  <2> QED BY <2>1
<1> QED BY <1>1, <1>2

\* ymo_blalloc_create: an empty block.
LEMMA BlockStarts == BInit => BlockInv
BY BlockAssumption DEF BInit, BlockInv, BlockType, Behind, ObjectsApart, End

\* ymo_blalloc: the new object begins behind all the others and ends in the block.
LEMMA BlallocKeeps ==
    ASSUME BlockInv, NEW n \in Nat, Blalloc(n)
    PROVE BlockInv'
<1> DEFINE from == TypeCeil(current)
           to == from + n
           new == [from |-> from, to |-> to]
<1>1. current \in Nat /\ End \in Nat /\ room \in Int /\ objs \subseteq Objects
  BY BlockAssumption DEF BlockInv, BlockType, End
<1>2. from \in Nat /\ current <= from /\ to \in Nat /\ from <= to
  BY <1>1, CeilRounds
<1>3. CASE to >= End /\ UNCHANGED bvars
  BY <1>3 DEF BlockInv, BlockType, Behind, ObjectsApart, bvars
<1>4. CASE /\ to < End
           /\ room' = room - (to - current)
           /\ current' = to
           /\ objs' = objs \cup {new}
  <2>1. new \in Objects /\ new.from = from /\ new.to = to
    BY <1>2 DEF Objects
  <2>2. \A o \in objs : o.from \in Nat /\ o.to \in Nat
    BY <1>1 DEF Objects
  <2> HIDE DEF from, new, to
  <2>3. BlockType'
    BY <1>1, <1>2, <1>4, <2>1 DEF BlockType
  <2>4. \A o \in objs : BlockStart <= o.from /\ o.from <= o.to /\ o.to <= current
    BY DEF BlockInv, Behind
  <2>5. BlockStart <= current
    BY DEF BlockInv, Behind
  <2>6. Behind'
    <3>1. \A o \in objs : o.to <= to
      BY <1>1, <1>2, <2>2, <2>4
    <3>2. BlockStart <= from
      BY <1>1, <1>2, <2>5, BlockAssumption
    <3>3. BlockStart <= to /\ to <= End
      BY <1>1, <1>2, <1>4, <3>2, BlockAssumption
    <3>4. End' = End
      BY DEF End
    <3> QED BY <1>2, <1>4, <2>1, <2>4, <3>1, <3>2, <3>3, <3>4 DEF Behind
  <2>7. \A o \in objs : o.to <= new.from
    BY <1>1, <1>2, <2>1, <2>2, <2>4
  <2>8. \A o, p \in objs : o # p => o.to <= p.from \/ p.to <= o.from
    BY DEF BlockInv, ObjectsApart
  <2>9. \A o, p \in objs' : o # p => o.to <= p.from \/ p.to <= o.from
    BY <1>4, <2>7, <2>8
  <2>10. \A o \in objs' : BlockStart <= o.from /\ o.to <= End
    <3>1. End \in Nat /\ current' \in Nat /\ current' <= End
      BY <1>1, <2>3, <2>6 DEF Behind, BlockType, End
    <3>2. \A o \in objs' : o.to \in Nat
      BY <2>3 DEF BlockType, Objects
    <3>3. \A o \in objs' : BlockStart <= o.from /\ o.to <= current'
      BY <2>6 DEF Behind
    <3> QED BY <3>1, <3>2, <3>3
  <2>11. room' = End - current'
    <3>1. room = End - current
      BY DEF BlockInv, ObjectsApart
    <3> QED BY <1>1, <1>2, <1>4, <3>1
  <2>12. ObjectsApart'
    BY <2>9, <2>10, <2>11 DEF ObjectsApart, End
  <2> QED BY <2>3, <2>6, <2>12 DEF BlockInv
<1> QED BY <1>3, <1>4 DEF Blalloc

LEMMA BlockKept == BlockInv /\ [BNext]_bvars => BlockInv'
<1> SUFFICES ASSUME BlockInv, [BNext]_bvars PROVE BlockInv'
  OBVIOUS
<1>1. CASE BReset
  BY <1>1, BlockAssumption DEF BReset, BlockInv, BlockType, Behind, ObjectsApart, End
<1>2. ASSUME NEW n \in Sizes, Blalloc(n) PROVE BlockInv'
  BY <1>2, BlallocKeeps, BlockAssumption
<1>3. ASSUME NEW n \in Sizes, Strdup(n) PROVE BlockInv'
  <2>1. n + 1 \in Nat
    BY BlockAssumption
  <2> QED BY <1>3, <2>1, BlallocKeeps DEF Strdup
<1>4. CASE UNCHANGED bvars
  BY <1>4 DEF BlockInv, BlockType, Behind, ObjectsApart, bvars
<1> QED BY <1>1, <1>2, <1>3, <1>4 DEF BNext

\* In every workspace, of any size and at any address, the objects that
\* ymo_blalloc and ymo_blalloc_strdup hand out until the next reset lie in the
\* block and apart from each other, and remain is what is left of it.
THEOREM ObjectsStayApart == BSpec => []ObjectsApart
<1>1. BlockInv => ObjectsApart
  BY DEF BlockInv
<1> QED BY BlockStarts, BlockKept, <1>1, PTL DEF BSpec
=============================================================================
