------------------------------- MODULE YmoNet -------------------------------
(***************************************************************************)
(* Sending a chain of ymo_bucket_t over a non-blocking socket              *)
(* (src/core/ymo_net.c, src/core/ymo_bucket.c) under the write callback of *)
(* a connection.  The socket takes as much as its buffer has room for, so  *)
(* a send may stop anywhere in the chain and has to be resumed there.      *)
(*                                                                         *)
(* The bytes of the output are numbered 1, 2, ... in the order in which    *)
(* the protocol queues them.                                               *)
(***************************************************************************)
EXTENDS Naturals, Sequences

CONSTANTS
    MaxBytes,  \* bound: bytes queued on the connection
    MaxChain,  \* bound: buckets in a chain
    MinLen,    \* shortest bucket a protocol queues
    MaxLen,    \* longest one
    MaxIov,    \* YMO_BUCKET_MAX_IOVEC
    SockBuf,   \* room in the socket's send buffer
    Ssl        \* does the connection have an SSL object?

ASSUME NetAssumption ==
    /\ MaxBytes \in Nat /\ MaxChain \in Nat
    /\ MinLen \in Nat /\ MaxLen \in Nat
    /\ MaxIov \in Nat \ {0} /\ SockBuf \in Nat \ {0}
    /\ Ssl \in BOOLEAN

VARIABLES
    chain,  \* the buckets from *head_p on
    total,  \* bytes queued so far
    wire,   \* bytes given to the socket so far
    room,   \* room left in the socket's send buffer
    tx,     \* is w_write active?
    alive,  \* the connection is not closed
    pc,     \* idle: no write callback runs; gather, account: the two loops
            \* of ymo_net_send_buckets; ssl: that of ymo_net_send_buckets_tls
    cur,    \* position of the bucket the first loop looks at
    niov,   \* entries of out_vec in use
    iov,    \* the bytes they hold
    left,   \* bytes_sent: what sendmsg took and the second loop has not yet
            \* accounted for
    rec     \* bytes OpenSSL has flushed of a write it has not completed

vars == <<chain, total, wire, room, tx, alive, pc, cur, niov, iov, left, rec>>

Bucket == [off : Nat, len : Nat, sent : Nat]

remain(b) == b.len - b.sent
\* The bytes of b that are not sent.
Unsent(b) == [j \in 1..remain(b) |-> b.off + b.sent + j]

Init ==
    /\ chain = << >>
    /\ total = 0
    /\ wire = << >>
    /\ room = SockBuf
    /\ tx = FALSE
    /\ alive = TRUE
    /\ pc = "idle"
    /\ cur = 1 /\ niov = 0 /\ iov = << >> /\ left = 0 /\ rec = 0

-----------------------------------------------------------------------------
\* ymo_bucket_create and ymo_bucket_append, then ymo_conn_tx_enable(conn, 1).
Enqueue(n) ==
    /\ alive /\ pc = "idle"
    /\ Len(chain) < MaxChain /\ total + n <= MaxBytes
    /\ chain' = Append(chain, [off |-> total, len |-> n, sent |-> 0])
    /\ total' = total + n
    /\ tx' = TRUE
    /\ UNCHANGED <<wire, room, alive, pc, cur, niov, iov, left, rec>>

\* ymo_conn_tx_enable(conn, 1) with nothing new to send.
TxEnable ==
    /\ alive /\ pc = "idle"
    /\ tx' = TRUE
    /\ UNCHANGED <<chain, total, wire, room, alive, pc, cur, niov, iov, left, rec>>

\* The end of a write callback that returns YMO_OKAY, with the chain at q:
\* the watcher is turned off; the protocol forgets the chain when it takes
\* the message for complete, and keeps it otherwise.
ReturnOkay(q) ==
    /\ chain' \in {<< >>, q}
    /\ tx' = FALSE
    /\ pc' = "idle"
    /\ UNCHANGED <<total, alive>>

\* Mutant: the watcher is turned off after every write.
ReturnBlocked_mutant ==
    /\ pc' = "idle"
    /\ tx' = FALSE
    /\ UNCHANGED <<chain, total, alive>>

\* EAGAIN: the watcher stays on.
ReturnBlocked ==
    /\ pc' = "idle"
    /\ UNCHANGED <<chain, total, tx, alive>>

\* Any other status: the connection is closed and its chain freed.
ReturnError ==
    /\ pc' = "idle"
    /\ chain' = << >>
    /\ tx' = FALSE
    /\ alive' = FALSE
    /\ UNCHANGED total

\* ymo_write_cb, from the loop or from ymo_conn_tx_now.
WriteCb ==
    /\ alive /\ pc = "idle" /\ tx
    /\ IF chain = << >>
          THEN ReturnOkay(chain) /\ UNCHANGED <<cur, niov, iov, left>>
          ELSE /\ pc' = IF Ssl THEN "ssl" ELSE "gather"
               /\ cur' = 1 /\ niov' = 0 /\ iov' = << >> /\ left' = 0
               /\ UNCHANGED <<chain, total, tx, alive>>
    /\ UNCHANGED <<wire, room, rec>>

-----------------------------------------------------------------------------
(* ymo_net_send_buckets.                                                   *)

\* Mutant: the whole bucket goes into the iovec, sent or not.
GatherBucket_mutant ==
    /\ pc = "gather"
    /\ cur <= Len(chain) /\ niov < MaxIov
    /\ cur' = cur + 1
    /\ IF chain[cur].len > 0
          THEN /\ iov' = iov \o Unsent([chain[cur] EXCEPT !.sent = 0])
               /\ niov' = niov + 1
          ELSE UNCHANGED <<iov, niov>>
    /\ UNCHANGED <<chain, total, wire, room, tx, alive, pc, left, rec>>

\* One iteration of the loop that fills out_vec.
GatherBucket ==
    /\ pc = "gather"
    /\ cur <= Len(chain) /\ niov < MaxIov
    /\ cur' = cur + 1
    /\ IF chain[cur].len > 0
          THEN /\ iov' = iov \o Unsent(chain[cur])
               /\ niov' = niov + 1
          ELSE UNCHANGED <<iov, niov>>
    /\ UNCHANGED <<chain, total, wire, room, tx, alive, pc, left, rec>>

Gathered == pc = "gather" /\ (cur > Len(chain) \/ niov = MaxIov)

\* sendmsg takes k bytes of the vector.
SendMsg(k) ==
    /\ Gathered
    /\ 0 < k /\ k <= Len(iov) /\ k <= room
    /\ wire' = wire \o SubSeq(iov, 1, k)
    /\ room' = room - k
    /\ left' = k
    /\ pc' = "account"
    /\ UNCHANGED <<chain, total, tx, alive, cur, niov, iov, rec>>

SendMsgBlocked ==
    /\ Gathered
    /\ iov # << >> /\ room = 0
    /\ ReturnBlocked
    /\ UNCHANGED <<wire, room, cur, niov, iov, left, rec>>

\* sendmsg fails, or there is nothing to send (EBADMSG).
SendMsgError ==
    /\ Gathered
    /\ ReturnError
    /\ UNCHANGED <<wire, room, cur, niov, iov, left, rec>>

\* Mutant: bytes sent of the bucket are overwritten, not added to.
AccountPartial_mutant ==
    /\ pc = "account"
    /\ chain # << >> /\ left > 0 /\ left < remain(Head(chain))
    /\ chain' = [chain EXCEPT ![1].sent = left]
    /\ left' = 0
    /\ UNCHANGED <<total, wire, room, tx, alive, pc, cur, niov, iov, rec>>

\* Bookkeeping: the first bucket of the chain was sent in part ...
AccountPartial ==
    /\ pc = "account"
    /\ chain # << >> /\ left > 0 /\ left < remain(Head(chain))
    /\ chain' = [chain EXCEPT ![1].sent = @ + left]
    /\ left' = 0
    /\ UNCHANGED <<total, wire, room, tx, alive, pc, cur, niov, iov, rec>>

\* ... or to its end, and is freed.
AccountWhole ==
    /\ pc = "account"
    /\ chain # << >> /\ left > 0 /\ left >= remain(Head(chain))
    /\ chain' = Tail(chain)
    /\ left' = left - remain(Head(chain))
    /\ UNCHANGED <<total, wire, room, tx, alive, pc, cur, niov, iov, rec>>

\* Mutant: a chain cut short by the size of the iovec counts as sent.
AccountDone_mutant ==
    /\ pc = "account"
    /\ chain = << >> \/ left = 0
    /\ ReturnOkay(chain) /\ UNCHANGED <<cur, niov, iov, left>>
    /\ UNCHANGED <<wire, room, rec>>

\* All is accounted for: send again if the bucket now first has a length.
AccountDone ==
    /\ pc = "account"
    /\ chain = << >> \/ left = 0
    /\ IF chain # << >> /\ Head(chain).len > 0
          THEN /\ pc' = "gather"
               /\ cur' = 1 /\ niov' = 0 /\ iov' = << >> /\ left' = 0
               /\ UNCHANGED <<chain, total, tx, alive>>
          ELSE ReturnOkay(chain) /\ UNCHANGED <<cur, niov, iov, left>>
    /\ UNCHANGED <<wire, room, rec>>

-----------------------------------------------------------------------------
(* ymo_net_send_buckets_tls.  Without SSL_MODE_ENABLE_PARTIAL_WRITE, which *)
(* nothing sets, SSL_write_ex succeeds when it has flushed the whole       *)
(* buffer; until then it wants to be called again with the same one.       *)

SslWriteDone ==
    /\ pc = "ssl"
    /\ LET b == Head(chain)
           n == remain(b) - rec
       IN  /\ n <= room
           /\ wire' = wire \o SubSeq(Unsent(b), rec + 1, remain(b))
           /\ room' = room - n
    /\ rec' = 0
    /\ IF Len(chain) = 1
          THEN ReturnOkay(<< >>)
          ELSE /\ chain' = Tail(chain)
               /\ UNCHANGED <<total, tx, alive, pc>>
    /\ UNCHANGED <<cur, niov, iov, left>>

\* Mutant: OpenSSL forgets that it has begun the record.
SslWriteBlocked_mutant ==
    /\ pc = "ssl"
    /\ room < remain(Head(chain)) - rec
    /\ wire' = wire \o SubSeq(Unsent(Head(chain)), rec + 1, rec + room)
    /\ rec' = 0
    /\ room' = 0
    /\ ReturnBlocked
    /\ UNCHANGED <<cur, niov, iov, left>>

SslWriteBlocked ==
    /\ pc = "ssl"
    /\ room < remain(Head(chain)) - rec
    /\ wire' = wire \o SubSeq(Unsent(Head(chain)), rec + 1, rec + room)
    /\ rec' = rec + room
    /\ room' = 0
    /\ ReturnBlocked
    /\ UNCHANGED <<cur, niov, iov, left>>

SslWriteError ==
    /\ pc = "ssl"
    /\ ReturnError
    /\ UNCHANGED <<wire, room, cur, niov, iov, left, rec>>

-----------------------------------------------------------------------------
\* The peer acknowledges n bytes, which leave the send buffer.
PeerAck(n) ==
    /\ 0 < n /\ room + n <= SockBuf
    /\ room' = room + n
    /\ UNCHANGED <<chain, total, wire, tx, alive, pc, cur, niov, iov, left, rec>>

SendStep ==
    \/ GatherBucket \/ SendMsgBlocked \/ (\E k \in 1..SockBuf : SendMsg(k))
    \/ AccountPartial \/ AccountWhole \/ AccountDone
    \/ SslWriteDone \/ SslWriteBlocked

Next ==
    \/ \E n \in MinLen..MaxLen : Enqueue(n)
    \/ TxEnable \/ WriteCb
    \/ SendStep
    \/ SendMsgError \/ SslWriteError
    \/ \E n \in 1..SockBuf : PeerAck(n)

Spec == Init /\ [][Next]_vars

\* The write watcher fires while it is active and the peer goes on reading.
FairSpec ==
    /\ Spec
    /\ WF_vars(WriteCb) /\ WF_vars(SendStep)
    /\ WF_vars(\E n \in 1..SockBuf : PeerAck(n))

-----------------------------------------------------------------------------
(* Properties.                                                             *)

\* Every variable has its type.
TypeOK ==
    /\ chain \in Seq(Bucket)
    /\ total \in Nat
    /\ wire \in Seq(Nat)
    /\ room \in 0..SockBuf
    /\ tx \in BOOLEAN /\ alive \in BOOLEAN
    /\ pc \in {"idle", "gather", "account", "ssl"}
    /\ cur \in Nat \ {0} /\ niov \in 0..MaxIov /\ iov \in Seq(Nat)
    /\ left \in Nat /\ rec \in Nat

\* However the socket cuts the sends, what ymo_net_send_buckets puts on the
\* wire is the queued bytes in order, each of them once.
InOrder == \A i \in 1..Len(wire) : wire[i] = i

\* A write callback that has returned YMO_OKAY, and so has turned the write
\* watcher off, has sent everything: no byte waits for an event that never
\* comes, and none was forgotten with the chain.
OkayMeansSent == alive /\ ~tx => Len(wire) = total

Stream == INSTANCE YmoStream WITH queued <- total, idle <- ~tx

\* The output path keeps the promise of YmoStream at every step: buckets,
\* iovecs and partial sends are invisible to the protocol above.
ImplementsStream == Stream!Spec

\* Every queued byte leaves, unless the connection fails.
EveryByteLeaves ==
    \A n \in 1..MaxBytes : (total >= n) ~> (Len(wire) >= n \/ ~alive)

-----------------------------------------------------------------------------
(* The inductive invariant of YmoNetProofs.                                *)

\* The buckets of the chain lie one after the other in the stream and end
\* with the last byte queued; only the first can have been sent in part.
ChainInv ==
    /\ \A i \in 1..Len(chain) :
          /\ chain[i].sent <= chain[i].len
          /\ ~Ssl => chain[i].sent < chain[i].len
          /\ i > 1 => chain[i].sent = 0
          /\ chain[i].off + chain[i].len <= total
    /\ \A i \in 1..Len(chain) :
          chain[i].off + chain[i].len =
              IF i = Len(chain) THEN total ELSE chain[i + 1].off

\* The wire ends where the chain's unsent bytes begin, given what is sent
\* and not yet accounted for.
WireInv ==
    IF chain = << >>
       THEN Len(wire) = total /\ left = 0 /\ rec = 0
       ELSE /\ Len(wire) = chain[1].off + chain[1].sent + left + rec
            /\ Len(wire) <= total
            /\ tx
            /\ Ssl => left = 0 /\ rec <= remain(chain[1])

\* The vector under construction holds the bytes that come next.
GatherInv ==
    /\ cur \in 1..(Len(chain) + 1)
    /\ \A j \in 1..Len(iov) : iov[j] = Len(wire) + j
    /\ Len(wire) + Len(iov) =
           IF cur > Len(chain) THEN total ELSE chain[cur].off + chain[cur].sent
    /\ left = 0

PcInv ==
    /\ pc # "account" => left = 0
    /\ pc = "ssl" => Ssl /\ chain # << >>
    /\ pc \in {"gather", "account"} => ~Ssl
    /\ pc # "idle" => tx
    /\ ~Ssl => rec = 0
    /\ pc = "gather" => GatherInv

NetInv ==
    /\ InOrder
    /\ alive => ChainInv /\ WireInv /\ PcInv
    /\ ~alive => pc = "idle" /\ ~tx
=============================================================================
