------------------------------ MODULE YmoQueue ------------------------------
(***************************************************************************)
(* A ymo_queue_t with a pool (src/core/ymo_queue.c): a doubly linked list  *)
(* whose nodes come from the pool while it has any, then from malloc.      *)
(* Nodes are 1..MaxNodes, the first PoolSize of them the pool; 0 is NULL.  *)
(***************************************************************************)
EXTENDS YmoChain

CONSTANTS
    QItems,    \* the data of nodes
    PoolSize,  \* the nodes of the pool
    MaxNodes   \* bound: nodes at any time

ASSUME QueueAssumption == PoolSize \in 2..MaxNodes

VARIABLES
    node,    \* [next, prev, data, used] of each node; used: not given back to malloc
    head, tail, items,  \* queue->head, tail, no_items
    pstack,  \* queue->pstack
    popped   \* the result of the last pop

qvars == <<node, head, tail, items, pstack, popped>>

Nodes == 1..MaxNodes
IsPool(n) == n <= PoolSize

\* ymo_queue_create_pool and ymo_queue_pool_init.
QInit ==
    /\ node = [n \in Nodes |-> [next |-> IF n < PoolSize THEN n + 1 ELSE 0,
                                prev |-> IF IsPool(n) THEN n - 1 ELSE 0,
                                data |-> "NULL", used |-> IsPool(n)]]
    /\ head = 0 /\ tail = 0 /\ items = 0 /\ pstack = 1 /\ popped = "NULL"

\* create_node: from the pool, or a node of its own.
CreateNode(n) ==
    IF pstack # 0 THEN n = pstack
    ELSE n \in Nodes /\ ~node[n].used /\ \A k \in 1..(n - 1) : node[k].used
PoolAfterCreate(n) == IF pstack # 0 THEN node[n].next ELSE 0

\* Mutant: a node that came from malloc goes to the pool.
DeleteNode_mutant(h, n) ==
    /\ node' = [h EXCEPT ![n].prev = 0, ![n].next = pstack]
    /\ pstack' = n

\* delete_node, in the heap h.
DeleteNode(h, n) ==
    IF IsPool(n)
    THEN /\ node' = [h EXCEPT ![n].prev = 0, ![n].next = pstack]
         /\ pstack' = n
    ELSE /\ node' = [h EXCEPT ![n] = [next |-> 0, prev |-> 0, data |-> "NULL", used |-> FALSE]]
         /\ UNCHANGED pstack

QAppend(x, n) ==
    /\ CreateNode(n) /\ pstack' = PoolAfterCreate(n)
    /\ LET h == [node EXCEPT ![n] = [next |-> 0, prev |-> tail, data |-> x, used |-> TRUE]]
       IN node' = IF tail # 0 THEN [h EXCEPT ![tail].next = n] ELSE h
    /\ head' = IF tail # 0 THEN head ELSE n
    /\ tail' = n /\ items' = items + 1
    /\ UNCHANGED popped

QPrepend(x, n) ==
    /\ CreateNode(n) /\ pstack' = PoolAfterCreate(n)
    /\ LET h == [node EXCEPT ![n] = [next |-> head, prev |-> 0, data |-> x, used |-> TRUE]]
       IN node' = IF head # 0 THEN [h EXCEPT ![head].prev = n] ELSE h
    /\ tail' = IF head # 0 THEN tail ELSE n
    /\ head' = n /\ items' = items + 1
    /\ UNCHANGED popped

PopFront ==
    /\ head # 0
    /\ LET n == head next == node[head].next IN
       /\ head' = next
       /\ tail' = IF n = tail THEN 0 ELSE tail
       /\ DeleteNode(IF next # 0 THEN [node EXCEPT ![next].prev = 0] ELSE node, n)
       /\ popped' = node[n].data
    /\ items' = items - 1

\* Mutant: the data is read from the head, as in the other pop.
PopBack_mutant ==
    /\ tail # 0
    /\ LET n == tail prev == node[tail].prev IN
       /\ tail' = prev
       /\ head' = IF n = head THEN 0 ELSE head
       /\ DeleteNode(IF prev # 0 THEN [node EXCEPT ![prev].next = 0] ELSE node, n)
       /\ popped' = node[head].data
    /\ items' = items - 1

PopBack ==
    /\ tail # 0
    /\ LET n == tail prev == node[tail].prev IN
       /\ tail' = prev
       /\ head' = IF n = head THEN 0 ELSE head
       /\ DeleteNode(IF prev # 0 THEN [node EXCEPT ![prev].next = 0] ELSE node, n)
       /\ popped' = node[n].data
    /\ items' = items - 1

\* A pop of either kind from an empty queue.
PopNothing == head = 0 /\ tail = 0 /\ popped' = "NULL" /\ UNCHANGED <<node, head, tail, items, pstack>>

\* The lists the pointers make.
NextOf == [n \in Nodes |-> node[n].next]
PrevOf == [n \in Nodes |-> node[n].prev]
Forward == Walk(head, NextOf)
Backward == Walk(tail, PrevOf)

\* ymo_queue_remove for a node of the queue.
QRemove(n) ==
    /\ n \in Range(Forward)
    /\ LET next == node[n].next prev == node[n].prev
           h1 == IF prev # 0 THEN [node EXCEPT ![prev].next = next] ELSE node
           h2 == IF next # 0 THEN [h1 EXCEPT ![next].prev = prev] ELSE h1
       IN /\ ~(prev = next /\ n # head)
          /\ head' = IF n = head THEN next ELSE head
          /\ tail' = IF n = tail THEN prev ELSE tail
          /\ DeleteNode(h2, n)
    /\ items' = items - 1
    /\ UNCHANGED popped

QNext ==
    \/ \E x \in QItems, n \in Nodes : QAppend(x, n) \/ QPrepend(x, n)
    \/ PopFront \/ PopBack \/ PopNothing
    \/ \E n \in Nodes : QRemove(n)

-----------------------------------------------------------------------------
(* Properties *)

Free == Walk(pstack, NextOf)

\* The list reads the same in both directions, no_items is its length, and the
\* nodes of the pool are in the queue or in the pool, each once; every other
\* node in use is in the queue (create_node, delete_node).
QueueLinked ==
    /\ Backward = Reverse(Forward) /\ items = Len(Forward)
    /\ Cardinality(Range(Forward)) = items
    /\ Range(Forward) \cap Range(Free) = {}
    /\ Range(Free) \cup {n \in Range(Forward) : IsPool(n)} = {n \in Nodes : IsPool(n)}
    /\ \A n \in Nodes : node[n].used <=> n \in Range(Forward) \cup Range(Free)

Deque == INSTANCE YmoDeque WITH
    Items <- QItems, taken <- popped, items <- [i \in DOMAIN Forward |-> node[Forward[i]].data]

\* A queue is a deque: appends, prepends, pops and removals do to the sequence
\* of its data what they should and nothing else.
ImplementsDeque == Deque!DSpec
=============================================================================
