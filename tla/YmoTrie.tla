------------------------------ MODULE YmoTrie ------------------------------
(***************************************************************************)
(* The string table of src/core/ymo_trie.c: words are added to a trie,     *)
(* which is flattened into an array of nodes that holds the first child of *)
(* a node right behind it and an offset to its next sibling; lookups walk  *)
(* the array.  A node of the trie is the (lower case) word that leads to   *)
(* it.                                                                     *)
(***************************************************************************)
EXTENDS YmoUtil, FiniteSets

CONSTANTS
    Words,      \* what may be added and looked up
    MaxOffset   \* YMO_OITRIE_MAX_OFFSET

VARIABLES
    nodes,   \* the nodes below the root
    values,  \* those with a value
    count,   \* no_nodes
    flat,    \* the array of ymo_oitrie_node_t, << >> before it is made
    look     \* [word, pos, cur, res]: the lookup in progress

tvars == <<nodes, values, count, flat, look>>

\* The result of a lookup, below the ids.
NONE == -3
BUSY == -2
EINVAL == -1
NoLookup == [word |-> << >>, pos |-> 0, cur |-> 0, res |-> NONE]
TInit == nodes = {} /\ values = {} /\ count = 0 /\ flat = << >> /\ look = NoLookup

Lower(w) == [i \in DOMAIN w |-> ToLower(w[i])]
NodesOf(w, k) == {SubSeq(w, 1, i) : i \in 1..k}

\* ymo_trie_add_string.
AddString(w) ==
    /\ flat = << >>
    /\ LET new == NodesOf(Lower(w), Len(w)) \ nodes
       IN nodes' = nodes \cup new /\ count' = count + Cardinality(new)
    /\ values' = values \cup {Lower(w)}
    /\ UNCHANGED <<flat, look>>

\* It runs out of memory: the nodes made so far stay.
AddStringFails(w, k) ==
    /\ flat = << >> /\ SubSeq(Lower(w), 1, k + 1) \notin nodes
    /\ LET new == NodesOf(Lower(w), k) \ nodes
       IN nodes' = nodes \cup new /\ count' = count + Cardinality(new)
    /\ UNCHANGED <<values, flat, look>>

\* The order of trie_node_annotate: a node before its children, and those by
\* their characters.
Before(p, q) ==
    \/ Len(p) < Len(q) /\ p = SubSeq(q, 1, Len(p))
    \/ \E i \in DOMAIN p \cap DOMAIN q :
          p[i] < q[i] /\ SubSeq(p, 1, i - 1) = SubSeq(q, 1, i - 1)
Index(p) == Cardinality({q \in nodes : Before(q, p)})
ValueId(p) == Cardinality({q \in values \cap nodes : Before(q, p)})

Parent(p) == SubSeq(p, 1, Len(p) - 1)
\* The siblings of a node to its right, and the offset to the next of them.
Right(p) == {q \in nodes : Parent(q) = Parent(p) /\ q[Len(q)] > p[Len(p)]}

\* Mutant: the offset leads to the end of the subtree, not behind it.
Offset_mutant(p) ==
    IF Right(p) = {} THEN 0
    ELSE Index(CHOOSE q \in Right(p) : \A r \in Right(p) : q[Len(q)] <= r[Len(r)]) - Index(p) - 1

Offset(p) ==
    IF Right(p) = {} THEN 0
    ELSE Index(CHOOSE q \in Right(p) : \A r \in Right(p) : q[Len(q)] <= r[Len(r)]) - Index(p)

\* oitrie_node_create: nodes are filled in their order, up to the first whose
\* offset does not fit.
EmptyNode == [value |-> 0, child |-> FALSE, terminal |-> FALSE, id |-> 0, offset |-> 0]
FlatNode(p) ==
    [value |-> p[Len(p)], child |-> \E q \in nodes : Parent(q) = p,
     terminal |-> p \in values, id |-> IF p \in values THEN ValueId(p) ELSE 0,
     offset |-> IF Offset(p) > MaxOffset THEN 0 ELSE Offset(p)]

\* ymo_oitrie_create; EOVERFLOW is not passed on.
Compress ==
    /\ flat = << >> /\ nodes # {}
    /\ flat' = [i \in 1..count |->
                  LET p == CHOOSE q \in nodes : Index(q) = i - 1
                  IN IF \E q \in nodes : Before(q, p) /\ Offset(q) > MaxOffset
                     THEN EmptyNode ELSE FlatNode(p)]
    /\ UNCHANGED <<nodes, values, count, look>>

\* ymo_oitrie_get_id.
GetId(w) ==
    /\ flat # << >> /\ look.res # BUSY
    /\ look' = [word |-> w, pos |-> 1, cur |-> 1, res |-> BUSY]
    /\ UNCHANGED <<nodes, values, count, flat>>

TrieChar(i) == IF i <= Len(look.word) THEN ToLower(look.word[i]) ELSE 0

GetStep ==
    /\ look.res = BUSY
    /\ LET n == flat[look.cur] IN
       \/ /\ n.value = TrieChar(look.pos)
          /\ LET end == TrieChar(look.pos + 1) = 0
             IN look' = [look EXCEPT !.pos = @ + 1,
                            !.cur = IF n.child THEN @ + 1 ELSE @,
                            !.res = IF end /\ n.terminal THEN n.id
                                    ELSE IF n.child THEN BUSY ELSE EINVAL]
       \/ /\ n.value # TrieChar(look.pos)
          /\ look' = [look EXCEPT !.cur = @ + n.offset,
                         !.res = IF n.offset > 0 THEN BUSY ELSE EINVAL]
    /\ UNCHANGED <<nodes, values, count, flat>>

TNext ==
    \/ \E w \in Words : AddString(w) \/ GetId(w)
    \/ \E w \in Words : \E k \in 0..(Len(w) - 1) : AddStringFails(w, k)
    \/ Compress \/ GetStep

-----------------------------------------------------------------------------
(* Properties *)

\* A lookup finds a word if and only if it was added, in any case, and gives
\* the words their places in alphabetical order, so no two the same; it never
\* leaves the array.  Words that were added in part change nothing
\* (ymo_oitrie_get_id).
LookupExact ==
    /\ flat # << >> => count = Cardinality(nodes)
    /\ look.res # NONE => look.cur \in DOMAIN flat
    /\ look.res \notin {NONE, BUSY} =>
          look.res = IF Lower(look.word) \in values
                     THEN Cardinality({v \in values : Before(v, Lower(look.word))})
                     ELSE EINVAL
=============================================================================
