------------------------------ MODULE YmoDeque ------------------------------
(* What a ymo_queue_t promises: a sequence of items and the one that was   *)
(* taken out last.                                                         *)
EXTENDS Sequences, Naturals, SequencesExt

CONSTANT Items
VARIABLES items, taken

dqvars == <<items, taken>>

DInit == items = << >> /\ taken \in Items \cup {"NULL"}
Put(x) == items' \in {Append(items, x), <<x>> \o items} /\ UNCHANGED taken
\* An item is taken from an end, or removed from its place.
TakeEnd == \E i \in DOMAIN items \cap {1, Len(items)} : items' = RemoveAt(items, i) /\ taken' = items[i]
Drop == \E i \in DOMAIN items : items' = RemoveAt(items, i) /\ UNCHANGED taken
TakeNone == items = << >> /\ taken' = "NULL" /\ UNCHANGED items

DNext == TakeEnd \/ Drop \/ TakeNone \/ \E x \in Items : Put(x)
DSpec == DInit /\ [][DNext]_dqvars
=============================================================================
