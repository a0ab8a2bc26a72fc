------------------------------ MODULE YmoChain ------------------------------
(* Linked lists in a heap of nodes 1..n, 0 being NULL.                     *)
EXTENDS Naturals, Sequences, SequencesExt, FiniteSets

\* The nodes of a list from a node on.  A list with a loop is cut when it is
\* longer than the heap.
Walk(n, step) ==
    LET last == Cardinality(DOMAIN step) + 1
        At[k \in 1..last] ==
            IF k = 1 THEN n ELSE LET m == At[k - 1] IN IF m = 0 THEN 0 ELSE step[m]
    IN SelectSeq([k \in 1..last |-> At[k]], LAMBDA m : m # 0)
=============================================================================
