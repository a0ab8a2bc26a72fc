---------------------------- MODULE YmoHdrTable ----------------------------
(***************************************************************************)
(* The header table of src/protocol/http/ymo_http_hdr_table.c: a hash      *)
(* table whose chains are made of nodes from a small pool, then of malloc. *)
(* Names are sequences of bytes.                                           *)
(***************************************************************************)
EXTENDS Naturals, Sequences, SequencesExt, FiniteSetsExt

CONSTANTS
    Names,       \* header names
    Vals,        \* values
    SetCookie,   \* the name whose id is YMO_HTTP_HID_SET_COOKIE
    NBuckets,    \* YMO_HDR_TABLE_BUCKET_SIZE
    HdrPool,     \* YMO_HDR_TABLE_POOL_SIZE
    MaxHdrs      \* bound: values added before the table is cleared

VARIABLES
    bucket,  \* the chains of nodes [id, hdr, vals, buf, term, pool]
    hfree,   \* nodes in the pool
    heap,    \* nodes and buffers from malloc
    want     \* what was added and inserted, by name in upper case

hvars == <<bucket, hfree, heap, want>>

\* c & 0xdf.
Upper(c) == IF (c \div 32) % 2 = 1 THEN c - 32 ELSE c
UpperName(n) == [i \in DOMAIN n |-> Upper(n[i])]

\* Mutant: the case of a letter counts.
Hash_mutant(n) == FoldLeft(LAMBDA h, c : (h * 283 + c) % 32768, 5, n)

\* ymo_http_hdr_hash, masked at every character (which changes nothing).
Hash(n) == FoldLeft(LAMBDA h, c : (h * 283 + Upper(c)) % 32768, 5, n)

\* The chain an id is in: h_id % YMO_HDR_TABLE_BUCKET_SIZE.
At(id) == id % NBuckets

HInit ==
    /\ bucket = [i \in 0..(NBuckets - 1) |-> << >>]
    /\ hfree = HdrPool /\ heap = 0
    /\ want = [n \in {UpperName(x) : x \in Names} |-> << >>]

\* The first node of a chain with an id, 0 if there is none.
Found(id) == LET c == bucket[At(id)] S == {i \in DOMAIN c : c[i].id = id}
             IN IF S = {} THEN 0 ELSE Min(S)

AllNodes == FlattenSeq([i \in 1..NBuckets |-> bucket[i - 1]])
HowMany(Test(_)) == Len(SelectSeq(AllNodes, Test))
Count == FoldLeft(LAMBDA s, n : s + Len(n.vals), 0, AllNodes)

\* ymo_http_hdr_table_node_create and table_insert_first.
InsertFirst(id, n, v) ==
    /\ bucket' = [bucket EXCEPT ![At(id)] =
                     <<[id |-> id, hdr |-> n, vals |-> <<v>>, buf |-> "none", term |-> TRUE,
                        pool |-> hfree > 0]>> \o @]
    /\ hfree' = IF hfree > 0 THEN hfree - 1 ELSE hfree
    /\ heap' = IF hfree > 0 THEN heap ELSE heap + 1

\* ymo_http_hdr_table_insert: the buffer of the node is freed and its pointer
\* kept.  A freed buffer is not used again in this model: what would happen is
\* undefined.
Insert(n, v) ==
    /\ Count < MaxHdrs
    /\ LET id == Hash(n) i == Found(id) IN
       \/ i = 0 /\ InsertFirst(id, n, v)
       \/ /\ i # 0 /\ bucket[At(id)][i].buf # "freed"
          /\ bucket' = [bucket EXCEPT ![At(id)][i].hdr = n,
                           ![At(id)][i].vals = IF bucket[At(id)][i].buf = "none" THEN <<v>> ELSE @,
                           ![At(id)][i].buf = IF @ = "live" THEN "freed" ELSE @]
          /\ heap' = IF bucket[At(id)][i].buf = "live" THEN heap - 1 ELSE heap
          /\ UNCHANGED hfree
    /\ want' = [want EXCEPT ![UpperName(n)] = <<v>>]

\* A value is joined to a node's: the first time in a buffer of its own, later
\* in the buffer made larger, without its terminator.
Merge(nd, v) ==
    IF nd.buf = "none" THEN [nd EXCEPT !.vals = Append(@, v), !.buf = "live"]
    ELSE [nd EXCEPT !.vals = Append(@, v), !.term = FALSE]

\* ymo_http_hdr_table_add and ymo_http_hdr_table_add_precompute; the first
\* makes another node for Set-Cookie.
Add(n, v, precompute) ==
    /\ Count < MaxHdrs
    /\ LET id == Hash(n) i == Found(id)
           cookie == ~precompute /\ id = Hash(SetCookie) IN
       \/ (i = 0 \/ cookie) /\ InsertFirst(id, n, v)
       \/ /\ i # 0 /\ ~cookie /\ bucket[At(id)][i].buf # "freed"
          /\ bucket' = [bucket EXCEPT ![At(id)][i] = Merge(@, v)]
          /\ heap' = IF bucket[At(id)][i].buf = "none" THEN heap + 1 ELSE heap
          /\ UNCHANGED hfree
    /\ want' = [want EXCEPT ![UpperName(n)] =
                   IF ~precompute /\ Hash(n) = Hash(SetCookie) THEN <<v>> ELSE Append(@, v)]

\* ymo_http_hdr_table_get, ymo_http_hdr_table_get_id.
Get(n) == LET i == Found(Hash(n))
          IN IF i = 0 THEN << >> ELSE bucket[At(Hash(n))][i].vals

\* Mutant: the buffers of the nodes are forgotten.
Clear_mutant ==
    /\ \A i \in DOMAIN AllNodes : AllNodes[i].buf # "freed"
    /\ hfree' = hfree + HowMany(LAMBDA n : n.pool)
    /\ heap' = heap - HowMany(LAMBDA n : ~n.pool)
    /\ bucket' = [i \in DOMAIN bucket |-> << >>]
    /\ want' = [n \in DOMAIN want |-> << >>]

\* ymo_http_hdr_table_clear with ymo_http_hdr_table_node_free.
Clear ==
    /\ \A i \in DOMAIN AllNodes : AllNodes[i].buf # "freed"
    /\ hfree' = hfree + HowMany(LAMBDA n : n.pool)
    /\ heap' = heap - HowMany(LAMBDA n : ~n.pool) - HowMany(LAMBDA n : n.buf = "live")
    /\ bucket' = [i \in DOMAIN bucket |-> << >>]
    /\ want' = [n \in DOMAIN want |-> << >>]

\* ymo_http_hdr_table_next from place <<chain, position>>; <<0, 0>> is NULL at
\* the beginning, <<NBuckets, 0>> at the end.
FirstFrom(b) ==
    LET S == {i \in b..(NBuckets - 1) : bucket[i] # << >>}
    IN IF S = {} THEN <<NBuckets, 0>> ELSE <<Min(S), 1>>

\* Mutant: the search goes on in the chain it comes from.
Following_mutant(at) ==
    IF at[2] = 0 THEN FirstFrom(0)
    ELSE IF at[2] < Len(bucket[at[1]]) THEN <<at[1], at[2] + 1>>
    ELSE FirstFrom(At(bucket[at[1]][at[2]].id))

Following(at) ==
    IF at[2] = 0 THEN FirstFrom(0)
    ELSE IF at[2] < Len(bucket[at[1]]) THEN <<at[1], at[2] + 1>>
    ELSE FirstFrom(At(bucket[at[1]][at[2]].id) + 1)

HNext ==
    \/ \E n \in Names, v \in Vals : Insert(n, v) \/ \E p \in BOOLEAN : Add(n, v, p)
    \/ Clear

-----------------------------------------------------------------------------
(* Properties *)

\* The places a loop over the table visits.
Visited ==
    FoldLeft(LAMBDA s, i : IF s # << >> /\ s[Len(s)][1] = NBuckets THEN s
                           ELSE Append(s, Following(IF s = << >> THEN <<0, 0>> ELSE s[Len(s)])),
             << >>, [i \in 1..(MaxHdrs + 1) |-> i])

\* A get, with the name in any case, gives the values of the header in the
\* order in which they came.  Excepted is a header whose values were joined
\* three times or replaced after they were joined.
Gets ==
    \A n \in Names :
        LET i == Found(Hash(n)) IN
        i = 0 \/ (bucket[At(Hash(n))][i].buf # "freed" /\ bucket[At(Hash(n))][i].term)
            => Get(n) = want[UpperName(n)]

\* A loop with ymo_http_hdr_table_next visits every header once and ends.
Iterates ==
    /\ Len(Visited) = Len(AllNodes) + 1
    /\ Visited[Len(Visited)] = <<NBuckets, 0>>
    /\ \A i, j \in DOMAIN Visited : i # j => Visited[i] # Visited[j]

\* Nodes of the pool are in the pool or in a chain, whatever was added and
\* cleared, and nothing from malloc is lost.
Conserves ==
    /\ hfree + HowMany(LAMBDA n : n.pool) = HdrPool
    /\ heap = HowMany(LAMBDA n : ~n.pool) + HowMany(LAMBDA n : n.buf = "live")

\* The header table after any inserts, adds and clears: gets find what was put
\* in, a loop visits it all, and no node or buffer is lost or in two places
\* (ymo_http_hdr_table_insert, _add, _get_id, _next, _clear).
TableExact == Gets /\ Iterates /\ Conserves
=============================================================================
