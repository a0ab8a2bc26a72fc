----------------------------- MODULE YmoBucket -----------------------------
(***************************************************************************)
(* Buckets (src/core/ymo_bucket.c): a chain is built in any order, joined  *)
(* to the chain that is being sent, and freed bucket by bucket or at once. *)
(* Buckets are 1..MaxBuckets, 0 is NULL.                                   *)
(***************************************************************************)
EXTENDS YmoChain

CONSTANT MaxBuckets  \* bound: buckets at any time

VARIABLES
    bkt,     \* [next, buf, used]: buf, does it own memory?
    root,    \* the chain that is sent and the one that is built
    joined,  \* what the two chains should hold
    bufs,    \* buffers that are allocated
    open     \* was a file left open?

bkvars == <<bkt, root, joined, bufs, open>>

Bkts == 1..MaxBuckets
NoBkt == [next |-> 0, buf |-> FALSE, used |-> FALSE]

BkInit ==
    /\ bkt = [b \in Bkts |-> NoBkt]
    /\ root = [sent |-> 0, built |-> 0] /\ joined = [sent |-> << >>, built |-> << >>]
    /\ bufs = 0 /\ open = FALSE

FreshBkt(b) == ~bkt[b].used /\ \A c \in 1..(b - 1) : bkt[c].used

\* Mutant: what follows prev is forgotten.
Linked_mutant(b, prev, next, own) ==
    LET h == [bkt EXCEPT ![b] = [next |-> next, buf |-> own, used |-> TRUE]]
    IN IF prev # 0 THEN [h EXCEPT ![prev].next = b] ELSE h

\* The end of ymo_bucket_create: what follows prev follows the new bucket.
Linked(b, prev, next, own) ==
    LET h == [bkt EXCEPT ![b] = [next |-> IF prev # 0 /\ bkt[prev].next # 0 THEN bkt[prev].next ELSE next,
                                 buf |-> own, used |-> TRUE]]
    IN IF prev # 0 THEN [h EXCEPT ![prev].next = b] ELSE h

BNextOf == [b \in Bkts |-> bkt[b].next]
ChainAt(r) == Walk(root[r], BNextOf)

\* A new bucket behind one of the chain that is built, or before all of them.
NewBkt(b, own) ==
    /\ FreshBkt(b)
    /\ \/ \E i \in DOMAIN joined.built :
             /\ bkt' = Linked(b, joined.built[i], 0, own)
             /\ joined' = [joined EXCEPT !.built = InsertAt(@, i + 1, b)]
             /\ UNCHANGED root
       \/ /\ bkt' = Linked(b, 0, root.built, own)
          /\ joined' = [joined EXCEPT !.built = <<b>> \o @]
          /\ root' = [root EXCEPT !.built = b]
    /\ bufs' = IF own THEN bufs + 1 ELSE bufs

\* ymo_bucket_create with memory of the caller, ymo_bucket_create_cpy with its own.
BkCreate(b) == NewBkt(b, FALSE) /\ UNCHANGED open
BkCreateCpy(b) == NewBkt(b, TRUE) /\ UNCHANGED open

\* ymo_bucket_from_file with the build's YMO_BUCKET_FSTREAM: the file is closed
\* once it was read, whole or in part; it stays open if its size cannot be told
\* or there is no memory.
FromFile(b) == NewBkt(b, TRUE) /\ UNCHANGED open
FromFileFails(reason) ==
    /\ open' = (open \/ reason \in {"ftell", "malloc"})
    /\ UNCHANGED <<bkt, root, joined, bufs>>

\* ymo_bucket_tail.
LastOf(r) == IF root[r] = 0 THEN 0 ELSE Last(ChainAt(r))

\* ymo_bucket_append of the chain that was built.
BkAppend ==
    /\ root.built # 0
    /\ bkt' = IF root.sent # 0 THEN [bkt EXCEPT ![LastOf("sent")].next = root.built] ELSE bkt
    /\ root' = [sent |-> IF root.sent # 0 THEN root.sent ELSE root.built, built |-> 0]
    /\ joined' = [sent |-> joined.sent \o joined.built, built |-> << >>]
    /\ UNCHANGED <<bufs, open>>

\* ymo_bucket_free of the first bucket once it was sent.
BkFree ==
    /\ root.sent # 0
    /\ root' = [root EXCEPT !.sent = bkt[root.sent].next]
    /\ bkt' = [bkt EXCEPT ![root.sent] = NoBkt]
    /\ bufs' = IF bkt[root.sent].buf THEN bufs - 1 ELSE bufs
    /\ joined' = [joined EXCEPT !.sent = Tail(@)]
    /\ UNCHANGED open

\* ymo_bucket_free_all of the chain that is sent.
BkFreeAll ==
    /\ root.sent # 0
    /\ LET all == Range(ChainAt("sent"))
       IN /\ bkt' = [b \in Bkts |-> IF b \in all THEN NoBkt ELSE bkt[b]]
          /\ bufs' = bufs - Cardinality({b \in all : bkt[b].buf})
    /\ root' = [root EXCEPT !.sent = 0]
    /\ joined' = [joined EXCEPT !.sent = << >>]
    /\ UNCHANGED open

BkNext ==
    \/ \E b \in Bkts : BkCreate(b) \/ BkCreateCpy(b) \/ FromFile(b)
    \/ \E r \in {"fopen", "ftell", "malloc", "fread"} : FromFileFails(r)
    \/ BkAppend \/ BkFree \/ BkFreeAll

\* The chains hold their buckets in order, a bucket is in one of them and once,
\* and memory is allocated for the buckets there are and no others.
BucketsConserved ==
    /\ ChainAt("sent") = joined.sent /\ ChainAt("built") = joined.built
    /\ \A b \in Bkts : bkt[b].used <=> b \in Range(joined.sent) \cup Range(joined.built)
    /\ bufs = Cardinality({b \in Bkts : bkt[b].buf})
=============================================================================
