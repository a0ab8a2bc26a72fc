---------------------------- MODULE YmoNetProofs ----------------------------
(***************************************************************************)
(* Theorems about YmoNet, for every length of bucket, chain, iovec and     *)
(* socket buffer: whatever the socket takes of each send, the output path  *)
(* is a FIFO of bytes and YMO_OKAY means that all of them have left.  They *)
(* need that no bucket of a connection without TLS is empty.               *)
(***************************************************************************)
EXTENDS YmoNet, SequenceTheorems, TLAPS

USE NetAssumption

\* The chain after its first bucket is freed.
LEMMA TailChain ==
    ASSUME NEW S, NEW s \in Seq(S), s # << >>
    PROVE  /\ Tail(s) \in Seq(S)
           /\ Len(s) \in Nat \ {0}
           /\ Head(s) = s[1] /\ s[1] \in S
           /\ Len(Tail(s)) = Len(s) - 1
           /\ \A i \in 1..(Len(s) - 1) : Tail(s)[i] = s[i + 1]
BY EmptySeq, HeadTailProperties

\* The bytes of a bucket that are not sent.
LEMMA UnsentBytes ==
    ASSUME NEW b \in Bucket, b.sent <= b.len
    PROVE  /\ remain(b) \in Nat
           /\ Unsent(b) \in Seq(Nat)
           /\ Len(Unsent(b)) = remain(b)
           /\ \A j \in 1..remain(b) : Unsent(b)[j] = b.off + b.sent + j
BY DEF Bucket, remain, Unsent

\* Bytes that come next, put behind bytes in order, leave bytes in order.
LEMMA ConcatInOrder ==
    ASSUME NEW n \in Nat, NEW s \in Seq(Nat), NEW t \in Seq(Nat),
           \A i \in 1..Len(s) : s[i] = n + i,
           \A i \in 1..Len(t) : t[i] = n + Len(s) + i
    PROVE  /\ s \o t \in Seq(Nat)
           /\ Len(s \o t) = Len(s) + Len(t)
           /\ \A i \in 1..Len(s \o t) : (s \o t)[i] = n + i
<1>1. /\ s \o t \in Seq(Nat)
      /\ Len(s \o t) = Len(s) + Len(t)
      /\ \A i \in 1..(Len(s) + Len(t)) :
            (s \o t)[i] = IF i <= Len(s) THEN s[i] ELSE t[i - Len(s)]
  BY ConcatProperties
<1>2. Len(s) \in Nat /\ Len(t) \in Nat
  BY LenProperties
<1>3. ASSUME NEW i \in 1..(Len(s) + Len(t)) PROVE (s \o t)[i] = n + i
  <2>1. CASE i <= Len(s)
    BY <1>1, <1>2, <2>1
  <2>2. CASE ~(i <= Len(s))
    <3>1. i - Len(s) \in 1..Len(t)
      BY <1>2, <2>2
    <3> QED
      BY <1>1, <1>2, <2>2, <3>1
  <2> QED
    BY <2>1, <2>2
<1> QED
  BY <1>1, <1>3

\* What the invariant says while the connection is open.
LEMMA OpenFacts ==
    ASSUME TypeOK, NetInv, alive
    PROVE  ChainInv /\ WireInv /\ PcInv /\ InOrder
BY DEF NetInv

\* A callback that is running runs on an open connection.
LEMMA RunningIsOpen ==
    ASSUME TypeOK, NetInv, pc # "idle"
    PROVE  alive /\ tx
BY DEF NetInv, PcInv

\* The types of lengths and of a bucket of the chain.
LEMMA Lengths ==
    ASSUME TypeOK
    PROVE  /\ Len(chain) \in Nat /\ Len(wire) \in Nat /\ Len(iov) \in Nat
           /\ total \in Nat /\ left \in Nat /\ rec \in Nat /\ room \in Nat
           /\ cur \in Nat \ {0} /\ niov \in Nat
BY LenProperties DEF TypeOK

LEMMA BucketType ==
    ASSUME TypeOK, NEW i \in 1..Len(chain)
    PROVE  /\ chain[i] \in Bucket
           /\ chain[i].off \in Nat /\ chain[i].len \in Nat /\ chain[i].sent \in Nat
<1>1. chain \in Seq(Bucket)
  BY DEF TypeOK
<1>2. chain[i] \in Bucket
  BY <1>1, ElementOfSeq
<1> QED
  BY <1>2 DEF Bucket

\* A chain that is not empty has a first bucket.
LEMMA FirstBucket ==
    ASSUME TypeOK, chain # << >>
    PROVE  /\ 1 \in 1..Len(chain) /\ Len(chain) \in Nat \ {0}
           /\ Head(chain) = chain[1] /\ chain[1] \in Bucket
           /\ chain[1].off \in Nat /\ chain[1].len \in Nat /\ chain[1].sent \in Nat
<1>1. chain \in Seq(Bucket)
  BY DEF TypeOK
<1>2. /\ Len(chain) \in Nat \ {0} /\ Head(chain) = chain[1]
  BY <1>1, TailChain
<1>3. 1 \in 1..Len(chain)
  BY <1>2
<1> QED
  BY <1>2, <1>3, BucketType

\* What ChainInv says of one bucket.
LEMMA ChainAt ==
    ASSUME ChainInv, NEW i \in 1..Len(chain)
    PROVE  /\ chain[i].sent <= chain[i].len
           /\ ~Ssl => chain[i].sent < chain[i].len
           /\ i > 1 => chain[i].sent = 0
           /\ chain[i].off + chain[i].len <= total
           /\ i = Len(chain) => chain[i].off + chain[i].len = total
           /\ i # Len(chain) => chain[i].off + chain[i].len = chain[i + 1].off
BY DEF ChainInv

LEMMA EnqueueStep ==
    ASSUME Ssl \/ MinLen > 0, TypeOK, NetInv,
           NEW n \in MinLen..MaxLen, Enqueue(n)
    PROVE  TypeOK' /\ NetInv'
<1> DEFINE b == [off |-> total, len |-> n, sent |-> 0]
<1>1. b \in Bucket /\ n \in Nat /\ Len(chain) \in Nat
  BY LenProperties DEF Bucket, TypeOK
<1>2. /\ chain' \in Seq(Bucket) /\ chain' # << >>
      /\ Len(chain') = Len(chain) + 1
      /\ \A i \in 1..Len(chain) : chain'[i] = chain[i]
      /\ chain'[Len(chain) + 1] = b
  <2>1. chain' = Append(chain, b)
    BY DEF Enqueue
  <2>2. chain \in Seq(Bucket)
    BY DEF TypeOK
  <2> QED
    BY <1>1, <2>1, <2>2, AppendProperties
<1>3. ChainInv /\ WireInv /\ PcInv /\ InOrder /\ alive /\ pc = "idle"
  BY OpenFacts DEF Enqueue
<1>4. UNCHANGED <<wire, room, alive, pc, cur, niov, iov, left, rec>> /\ tx' = TRUE
      /\ total' = total + n
  BY DEF Enqueue
<1>5. TypeOK'
  BY <1>1, <1>2, <1>4 DEF TypeOK
<1>6. ChainInv'
  <2>1. ASSUME NEW i \in 1..Len(chain')
        PROVE  /\ chain'[i].sent <= chain'[i].len
               /\ ~Ssl => chain'[i].sent < chain'[i].len
               /\ i > 1 => chain'[i].sent = 0
               /\ chain'[i].off + chain'[i].len <= total'
               /\ chain'[i].off + chain'[i].len =
                     IF i = Len(chain') THEN total' ELSE chain'[i + 1].off
    <3>1. CASE i = Len(chain) + 1
      BY <1>1, <1>2, <1>4, <3>1
    <3>2. CASE i # Len(chain) + 1
      <4>1. i \in 1..Len(chain) /\ chain'[i] = chain[i] /\ chain[i] \in Bucket
        BY <1>1, <1>2, <3>2 DEF TypeOK
      <4>4. chain[i].off + chain[i].len <= total + n
        <5>1. chain[i].off + chain[i].len <= total
          BY <1>3, <4>1, ChainAt
        <5>2. chain[i].off \in Nat /\ chain[i].len \in Nat /\ total \in Nat
          BY <4>1, BucketType, Lengths
        <5> QED
          BY <1>1, <5>1, <5>2, SMTT(40)
      <4>2. CASE i = Len(chain)
        BY <1>1, <1>2, <1>3, <1>4, <4>1, <4>2, <4>4 DEF ChainInv
      <4>3. CASE i # Len(chain)
        <5>1. i + 1 \in 1..Len(chain) /\ chain'[i + 1] = chain[i + 1]
          BY <1>1, <1>2, <4>1, <4>3
        <5> QED
          BY <1>1, <1>2, <1>3, <1>4, <4>1, <4>3, <4>4, <5>1 DEF ChainInv
      <4> QED
        BY <4>2, <4>3
    <3> QED
      BY <3>1, <3>2
  <2> QED
    BY <2>1 DEF ChainInv
<1>7. WireInv'
  <2>1. CASE chain = << >>
    <3>1. chain'[1] = b
      BY <1>2, <2>1, EmptySeq
    <3> QED
      BY <1>1, <1>2, <1>3, <1>4, <2>1, <3>1 DEF WireInv, remain, TypeOK
  <2>2. CASE chain # << >>
    <3>1. chain'[1] = chain[1] /\ Len(wire) <= total
      BY <1>1, <1>2, <1>3, <2>2, EmptySeq DEF TypeOK, WireInv
    <3>2. Len(wire) <= total + n
      BY <1>1, <3>1, LenProperties DEF TypeOK
    <3> QED
      BY <1>2, <1>3, <1>4, <2>2, <3>1, <3>2 DEF WireInv, remain
  <2> QED
    BY <2>1, <2>2
<1>8. PcInv' /\ InOrder' /\ alive'
  BY <1>3, <1>4 DEF PcInv, InOrder
<1> QED
  BY <1>5, <1>6, <1>7, <1>8 DEF NetInv

\* Whatever ends a write callback with an error.
LEMMA ErrorStep ==
    ASSUME TypeOK, NetInv, SendMsgError \/ SslWriteError
    PROVE  TypeOK' /\ NetInv'
<1>1. ReturnError /\ UNCHANGED <<wire, room, cur, niov, iov, left, rec>>
  BY DEF SendMsgError, SslWriteError
<1>2. TypeOK'
  BY <1>1, EmptySeq DEF ReturnError, TypeOK
<1>3. InOrder' /\ ~alive' /\ pc' = "idle" /\ ~tx'
  BY <1>1 DEF ReturnError, NetInv, InOrder
<1> QED
  BY <1>2, <1>3 DEF NetInv

\* Steps that change neither the chain nor the wire.
LEMMA QuietStep ==
    ASSUME TypeOK, NetInv,
           TxEnable \/ SendMsgBlocked \/ \E n \in 1..SockBuf : PeerAck(n)
    PROVE  TypeOK' /\ NetInv'
<1>1. UNCHANGED <<chain, total, wire, alive, cur, niov, iov, left, rec>>
  BY DEF TxEnable, SendMsgBlocked, ReturnBlocked, PeerAck
<1>2. room' \in 0..SockBuf
  BY DEF TypeOK, TxEnable, SendMsgBlocked, ReturnBlocked, PeerAck
<1>3. CASE TxEnable
  <2>1. tx' = TRUE /\ pc' = pc /\ pc = "idle" /\ alive
    BY <1>3 DEF TxEnable
  <2>2. TypeOK'
    BY <1>1, <1>2, <2>1 DEF TypeOK
  <2> QED
    BY <1>1, <2>1, <2>2 DEF NetInv, ChainInv, WireInv, PcInv, InOrder
<1>4. CASE SendMsgBlocked
  <2>1. tx' = tx /\ pc' = "idle" /\ pc = "gather"
    BY <1>4 DEF SendMsgBlocked, ReturnBlocked, Gathered
  <2>2. alive /\ left = 0
    BY <2>1, RunningIsOpen DEF NetInv, PcInv
  <2>3. TypeOK'
    BY <1>1, <1>2, <2>1 DEF TypeOK
  <2> QED
    BY <1>1, <2>1, <2>2, <2>3 DEF NetInv, ChainInv, WireInv, PcInv, InOrder
<1>5. CASE \E n \in 1..SockBuf : PeerAck(n)
  <2>1. tx' = tx /\ pc' = pc
    BY <1>5 DEF PeerAck
  <2>2. TypeOK'
    BY <1>1, <1>2, <2>1 DEF TypeOK
  <2> QED
    BY <1>1, <2>1, <2>2 DEF NetInv, ChainInv, WireInv, PcInv, GatherInv, InOrder
<1> QED
  BY <1>3, <1>4, <1>5

\* The write callback begins: out_vec is empty, and starts at the first
\* bucket.
LEMMA WriteCbStep ==
    ASSUME TypeOK, NetInv, WriteCb
    PROVE  TypeOK' /\ NetInv'
<1>1. /\ ChainInv /\ WireInv /\ PcInv /\ InOrder /\ alive /\ pc = "idle" /\ tx
      /\ UNCHANGED <<wire, room, rec>>
  BY OpenFacts DEF WriteCb
<1>2. left = 0 /\ (~Ssl => rec = 0)
  BY <1>1 DEF PcInv
<1>3. CASE chain = << >>
  <2>1. /\ chain' = << >> /\ tx' = FALSE /\ pc' = "idle"
        /\ UNCHANGED <<total, alive, cur, niov, iov, left>>
    BY <1>3 DEF WriteCb, ReturnOkay
  <2>2. TypeOK'
    BY <1>1, <2>1, EmptySeq DEF TypeOK
  <2>3. ChainInv' /\ WireInv' /\ PcInv' /\ InOrder'
    BY <1>1, <1>2, <1>3, <2>1 DEF ChainInv, WireInv, PcInv, InOrder
  <2> QED
    BY <1>1, <2>1, <2>2, <2>3 DEF NetInv
<1>4. CASE chain # << >>
  <2>1. /\ pc' = IF Ssl THEN "ssl" ELSE "gather"
        /\ cur' = 1 /\ niov' = 0 /\ iov' = << >> /\ left' = 0
        /\ UNCHANGED <<chain, total, tx, alive>>
    BY <1>4 DEF WriteCb
  <2>2. Len(chain) \in Nat \ {0} /\ Len(wire) \in Nat
    BY <1>4, EmptySeq, LenProperties DEF TypeOK
  <2>3. TypeOK'
    BY <1>1, <2>1 DEF TypeOK
  <2>4. ChainInv' /\ WireInv' /\ InOrder'
    BY <1>1, <1>2, <1>4, <2>1 DEF ChainInv, WireInv, InOrder
  <2>5. ~Ssl => GatherInv'
    <3>1. chain[1].off \in Nat /\ chain[1].sent \in Nat
      BY <1>4, FirstBucket
    <3>2. ~Ssl => Len(wire) = chain[1].off + chain[1].sent
      BY <1>1, <1>2, <1>4, <3>1 DEF WireInv
    <3>3. Len(iov') = 0
      BY <2>1
    <3> QED
      BY <1>1, <2>1, <2>2, <3>2, <3>3 DEF GatherInv
  <2>6. PcInv'
    BY <1>1, <1>2, <1>4, <2>1, <2>5 DEF PcInv
  <2> QED
    BY <1>1, <2>1, <2>3, <2>4, <2>6 DEF NetInv
<1> QED
  BY <1>3, <1>4

\* A bucket goes into out_vec: its unsent bytes are the ones that come next.
LEMMA GatherStep ==
    ASSUME TypeOK, NetInv, GatherBucket
    PROVE  TypeOK' /\ NetInv'
<1>1. /\ ChainInv /\ WireInv /\ PcInv /\ InOrder /\ GatherInv /\ alive /\ ~Ssl
      /\ pc = "gather" /\ cur \in 1..Len(chain) /\ niov < MaxIov
  <2>1. pc = "gather" /\ cur <= Len(chain) /\ niov < MaxIov
    BY DEF GatherBucket
  <2>2. alive
    BY <2>1, RunningIsOpen
  <2>3. ChainInv /\ WireInv /\ PcInv /\ InOrder
    BY <2>2, OpenFacts
  <2>4. cur \in 1..Len(chain)
    BY <2>1, Lengths
  <2> QED
    BY <2>1, <2>2, <2>3, <2>4 DEF PcInv
<1>2. /\ chain[cur] \in Bucket /\ chain[cur].sent < chain[cur].len
      /\ chain[cur].off \in Nat /\ chain[cur].sent \in Nat /\ chain[cur].len \in Nat
      /\ Len(chain) \in Nat /\ Len(wire) \in Nat /\ Len(iov) \in Nat
  BY <1>1, BucketType, ChainAt, Lengths
<1>3. /\ iov' = iov \o Unsent(chain[cur]) /\ niov' = niov + 1 /\ cur' = cur + 1
      /\ UNCHANGED <<chain, total, wire, room, tx, alive, pc, left, rec>>
  <2>1. chain[cur].len > 0
    BY <1>2
  <2> QED
    BY <2>1 DEF GatherBucket
<1>4. /\ remain(chain[cur]) = chain[cur].len - chain[cur].sent
      /\ Unsent(chain[cur]) \in Seq(Nat)
      /\ Len(Unsent(chain[cur])) = remain(chain[cur])
      /\ \A j \in 1..remain(chain[cur]) :
            Unsent(chain[cur])[j] = chain[cur].off + chain[cur].sent + j
  BY <1>2, UnsentBytes, SMTT(40) DEF remain
<1>5. Len(wire) + Len(iov) = chain[cur].off + chain[cur].sent
  BY <1>1, <1>2 DEF GatherInv
<1>6. /\ iov' \in Seq(Nat)
      /\ Len(iov') = Len(iov) + chain[cur].len - chain[cur].sent
      /\ \A j \in 1..Len(iov') : iov'[j] = Len(wire) + j
  <2>1. \A j \in 1..Len(Unsent(chain[cur])) :
           Unsent(chain[cur])[j] = Len(wire) + Len(iov) + j
    BY <1>4, <1>5
  <2>2. \A j \in 1..Len(iov) : iov[j] = Len(wire) + j
    BY <1>1 DEF GatherInv
  <2>3. iov \in Seq(Nat)
    BY DEF TypeOK
  <2>4. Len(wire) \in Nat /\ Unsent(chain[cur]) \in Seq(Nat)
    BY <1>2, <1>4
  <2> DEFINE v == iov \o Unsent(chain[cur])
  <2>5. /\ v \in Seq(Nat)
        /\ Len(v) = Len(iov) + Len(Unsent(chain[cur]))
        /\ \A j \in 1..Len(v) : v[j] = Len(wire) + j
    BY <2>1, <2>2, <2>3, <2>4, ConcatInOrder
  <2>6. iov' = v
    BY <1>3
  <2> HIDE DEF v
  <2>7. Len(v) = Len(iov) + chain[cur].len - chain[cur].sent
    BY <1>2, <1>4, <2>5
  <2> QED
    BY <2>5, <2>6, <2>7
<1>7. TypeOK'
  <2>1. niov + 1 \in 0..MaxIov /\ cur + 1 \in Nat \ {0}
    BY <1>1, Lengths
  <2> QED
    BY <1>3, <1>6, <2>1 DEF TypeOK
<1>8. GatherInv'
  <2>1. Len(wire) + Len(iov') = chain[cur].off + chain[cur].len
    <3>1. Len(iov') = Len(iov) + chain[cur].len - chain[cur].sent
      BY <1>6
    <3>2. Len(wire) + (Len(iov) + chain[cur].len - chain[cur].sent)
             = chain[cur].off + chain[cur].len
      <4> DEFINE w == Len(wire)
                 i == Len(iov)
                 o == chain[cur].off
                 n == chain[cur].len
                 k == chain[cur].sent
      <4>1. w \in Nat /\ i \in Nat /\ o \in Nat /\ n \in Nat /\ k \in Nat
        BY <1>2
      <4>2. w + i = o + k
        BY <1>5
      <4> HIDE DEF w, i, o, n, k
      <4>3. w + (i + n - k) = o + n
        BY <4>1, <4>2
      <4> QED
        BY <4>3 DEF w, i, o, n, k
    <3> QED
      BY <3>1, <3>2
  <2>2. CASE cur = Len(chain)
    <3>1. chain[cur].off + chain[cur].len = total
      BY <1>1, <2>2, ChainAt
    <3>2. cur + 1 \in 1..(Len(chain) + 1) /\ cur + 1 > Len(chain)
      BY <1>1, <1>2, <2>2
    <3>3. left = 0
      BY <1>1 DEF GatherInv
    <3> QED
      BY <1>3, <1>6, <2>1, <3>1, <3>2, <3>3 DEF GatherInv
  <2>3. CASE cur # Len(chain)
    <3>1. cur + 1 \in 1..Len(chain) /\ cur + 1 > 1
      BY <1>1, <1>2, <2>3
    <3>2. chain[cur + 1].off = chain[cur].off + chain[cur].len /\ chain[cur + 1].sent = 0
          /\ chain[cur + 1].off \in Nat
      BY <1>1, <2>3, <3>1, ChainAt, BucketType
    <3>3. cur + 1 \in 1..(Len(chain) + 1) /\ ~(cur + 1 > Len(chain))
      BY <1>2, <3>1
    <3>4. left = 0
      BY <1>1 DEF GatherInv
    <3>5. Len(wire) + Len(iov') = chain[cur + 1].off + chain[cur + 1].sent
      BY <2>1, <3>2
    <3> QED
      BY <1>3, <1>6, <3>3, <3>4, <3>5 DEF GatherInv
  <2> QED
    BY <2>2, <2>3
<1>9. ChainInv' /\ WireInv' /\ PcInv' /\ InOrder'
  BY <1>1, <1>3, <1>8 DEF ChainInv, WireInv, PcInv, InOrder
<1> QED
  BY <1>1, <1>3, <1>7, <1>9 DEF NetInv

\* The unsent part of a bucket begins inside the stream.
LEMMA WithinStream ==
    ASSUME NEW off \in Nat, NEW sent \in Nat, NEW len \in Nat, NEW end \in Nat,
           sent <= len, off + len <= end
    PROVE  off + sent <= end
OBVIOUS

\* sendmsg takes the first k bytes of the vector.
LEMMA SendMsgStep ==
    ASSUME TypeOK, NetInv, NEW k \in 1..SockBuf, SendMsg(k)
    PROVE  /\ TypeOK' /\ NetInv'
           /\ UNCHANGED <<total, alive, tx>> /\ tx /\ alive
           /\ Len(wire') >= Len(wire) /\ Len(wire') <= total
           /\ Len(wire') = Len(wire) => wire' = wire
<1>1. /\ ChainInv /\ WireInv /\ PcInv /\ InOrder /\ GatherInv /\ alive /\ ~Ssl /\ tx
      /\ pc = "gather" /\ k <= Len(iov) /\ k <= room
  BY RunningIsOpen, OpenFacts DEF SendMsg, Gathered, PcInv
<1>2. /\ wire' = wire \o SubSeq(iov, 1, k) /\ room' = room - k /\ left' = k
      /\ pc' = "account" /\ UNCHANGED <<chain, total, tx, alive, cur, niov, iov, rec>>
  BY DEF SendMsg
<1>3. Len(chain) \in Nat /\ Len(wire) \in Nat /\ Len(iov) \in Nat /\ total \in Nat
  BY DEF TypeOK
<1>4. /\ SubSeq(iov, 1, k) \in Seq(Nat) /\ Len(SubSeq(iov, 1, k)) = k
      /\ \A j \in 1..k : SubSeq(iov, 1, k)[j] = Len(wire) + j
  <2>1. \A j \in 1..k : iov[j] \in Nat /\ iov[j] = Len(wire) + j
    BY <1>1, <1>3, SMTT(40) DEF GatherInv
  <2>2. /\ SubSeq(iov, 1, k) \in Seq(Nat)
        /\ Len(SubSeq(iov, 1, k)) = IF 1 <= k THEN k - 1 + 1 ELSE 0
        /\ \A j \in 1..(k - 1 + 1) : SubSeq(iov, 1, k)[j] = iov[1 + j - 1]
    BY <2>1, SubSeqProperties
  <2> QED
    BY <2>1, <2>2
<1>5. wire' \in Seq(Nat) /\ Len(wire') = Len(wire) + k /\ InOrder'
  <2>1. \A i \in 1..Len(wire) : wire[i] = 0 + i
    BY <1>1, <1>3 DEF InOrder
  <2>2. wire \in Seq(Nat)
    BY DEF TypeOK
  <2>3. \A j \in 1..Len(SubSeq(iov, 1, k)) : SubSeq(iov, 1, k)[j] = 0 + Len(wire) + j
    BY <1>3, <1>4
  <2>4. /\ wire' \in Seq(Nat) /\ Len(wire') = Len(wire) + k
        /\ \A i \in 1..Len(wire') : wire'[i] = 0 + i
    BY <1>2, <1>4, <2>1, <2>2, <2>3, ConcatInOrder
  <2> QED
    BY <1>3, <2>4 DEF InOrder
<1>6. TypeOK'
  BY <1>1, <1>2, <1>5 DEF TypeOK
<1>7. Len(wire) + Len(iov) <= total
  <2>1. CASE cur > Len(chain)
    BY <1>1, <1>3, <2>1 DEF GatherInv
  <2>2. CASE ~(cur > Len(chain))
    <3>1. cur \in 1..Len(chain)
      BY <1>1, <1>3, <2>2 DEF GatherInv
    <3>2. /\ chain[cur].off \in Nat /\ chain[cur].sent \in Nat /\ chain[cur].len \in Nat
          /\ chain[cur].sent <= chain[cur].len /\ chain[cur].off + chain[cur].len <= total
      BY <1>1, <3>1, ChainAt, BucketType
    <3>3. Len(wire) + Len(iov) = chain[cur].off + chain[cur].sent
      BY <1>1, <2>2 DEF GatherInv
    <3> QED
      BY <1>3, <3>2, <3>3, WithinStream
  <2> QED
    BY <2>1, <2>2
<1>8. chain # << >>
  BY <1>1, <1>3, <1>7 DEF WireInv
<1>9. WireInv'
  <2>1. chain[1].off \in Nat /\ chain[1].sent \in Nat
    BY <1>8, FirstBucket
  <2>2. Len(wire) = chain[1].off + chain[1].sent
    BY <1>1, <1>8, <2>1, SMTT(40) DEF WireInv, GatherInv, PcInv
  <2>3. rec = 0
    BY <1>1 DEF PcInv
  <2> QED
    BY <1>1, <1>2, <1>3, <1>5, <1>7, <1>8, <2>1, <2>2, <2>3 DEF WireInv
<1>10. ChainInv' /\ PcInv'
  BY <1>1, <1>2 DEF ChainInv, PcInv
<1>11. NetInv'
  BY <1>1, <1>2, <1>5, <1>9, <1>10 DEF NetInv
<1>12. Len(wire') > Len(wire) /\ Len(wire') <= total
  BY <1>1, <1>3, <1>5, <1>7
<1>13. Len(wire') >= Len(wire) /\ Len(wire') # Len(wire)
  BY <1>3, <1>5
<1> QED
  BY <1>1, <1>2, <1>6, <1>11, <1>12, <1>13

\* The first bucket of the chain is freed.
LEMMA TailStep ==
    ASSUME TypeOK, ChainInv, chain # << >>, chain' = Tail(chain), total' = total
    PROVE  /\ chain' \in Seq(Bucket) /\ ChainInv'
           /\ Len(chain) = 1 <=> chain' = << >>
           /\ chain' = << >> => chain[1].off + chain[1].len = total
           /\ chain' # << >> => /\ chain'[1].off = chain[1].off + chain[1].len
                               /\ chain'[1].sent = 0 /\ chain'[1].len \in Nat
<1>1. /\ chain' \in Seq(Bucket)
      /\ Len(chain) \in Nat \ {0}
      /\ Len(chain') = Len(chain) - 1
      /\ \A i \in 1..(Len(chain) - 1) : chain'[i] = chain[i + 1]
  <2>1. chain \in Seq(Bucket)
    BY DEF TypeOK
  <2> QED
    BY <2>1, TailChain
<1>2. Len(chain) = 1 <=> chain' = << >>
  BY <1>1, EmptySeq, SMTT(40)
<1>3. ASSUME NEW i \in 1..Len(chain')
      PROVE  /\ chain'[i].sent <= chain'[i].len
             /\ ~Ssl => chain'[i].sent < chain'[i].len
             /\ chain'[i].sent = 0
             /\ chain'[i].off + chain'[i].len <= total'
             /\ chain'[i].off + chain'[i].len =
                   IF i = Len(chain') THEN total' ELSE chain'[i + 1].off
  <2>1. i + 1 \in 1..Len(chain) /\ i + 1 > 1 /\ chain'[i] = chain[i + 1]
    BY <1>1
  <2>2. /\ chain[i + 1].sent <= chain[i + 1].len
        /\ ~Ssl => chain[i + 1].sent < chain[i + 1].len
        /\ chain[i + 1].sent = 0
        /\ chain[i + 1].off + chain[i + 1].len <= total
        /\ i + 1 = Len(chain) => chain[i + 1].off + chain[i + 1].len = total
        /\ i + 1 # Len(chain) =>
              chain[i + 1].off + chain[i + 1].len = chain[(i + 1) + 1].off
    BY <2>1, ChainAt
  <2>3. CASE i = Len(chain')
    <3>1. i + 1 = Len(chain)
      BY <1>1, <2>3
    <3> QED
      BY <2>1, <2>2, <2>3, <3>1
  <2>4. CASE i # Len(chain')
    <3>1. i + 1 # Len(chain) /\ i + 1 \in 1..(Len(chain) - 1)
      <4> DEFINE n == Len(chain)
                 m == Len(chain')
      <4>1. n \in Nat \ {0} /\ m = n - 1 /\ i \in 1..m /\ i # m
        BY <1>1, <2>4
      <4> HIDE DEF n, m
      <4>2. i + 1 # n /\ i + 1 \in 1..(n - 1)
        BY <4>1
      <4> QED
        BY <4>2, SMTT(40) DEF n
    <3> QED
      BY <1>1, <2>1, <2>2, <2>4, <3>1
  <2> QED
    BY <2>3, <2>4
<1>4. ChainInv'
  BY <1>3 DEF ChainInv
<1>5. 1 \in 1..Len(chain)
  BY <1>1
<1>6. ASSUME chain' = << >>
      PROVE  chain[1].off + chain[1].len = total
  BY <1>2, <1>5, <1>6, ChainAt
<1>7. ASSUME chain' # << >>
      PROVE  /\ chain'[1].off = chain[1].off + chain[1].len
             /\ chain'[1].sent = 0 /\ chain'[1].len \in Nat
  <2>1. 2 \in 1..Len(chain) /\ 1 # Len(chain) /\ 1 \in 1..Len(chain')
    BY <1>1, <1>2, <1>7
  <2>2. chain'[1] = chain[2]
    BY <1>1, <2>1
  <2>3. chain[2].off = chain[1].off + chain[1].len
    BY <1>5, <2>1, ChainAt
  <2>4. chain[2].len \in Nat
    BY <2>1, BucketType
  <2> QED
    BY <1>3, <2>1, <2>2, <2>3, <2>4
<1> QED
  BY <1>1, <1>2, <1>4, <1>6, <1>7

\* The second loop runs on an open connection without TLS.
LEMMA AccountFacts ==
    ASSUME TypeOK, NetInv, pc = "account"
    PROVE  /\ ChainInv /\ WireInv /\ PcInv /\ InOrder /\ alive /\ ~Ssl /\ tx
           /\ rec = 0
<1>1. alive /\ tx
  BY RunningIsOpen
<1>2. ChainInv /\ WireInv /\ PcInv /\ InOrder
  BY <1>1, OpenFacts
<1> QED
  BY <1>1, <1>2 DEF PcInv

LEMMA AccountPartialStep ==
    ASSUME TypeOK, NetInv, AccountPartial
    PROVE  TypeOK' /\ NetInv'
<1>1. /\ ChainInv /\ WireInv /\ PcInv /\ InOrder /\ alive /\ ~Ssl /\ tx
      /\ rec = 0 /\ pc = "account" /\ chain # << >>
  BY AccountFacts DEF AccountPartial
<1>2. /\ 1 \in 1..Len(chain) /\ Head(chain) = chain[1] /\ chain[1] \in Bucket
      /\ chain[1].off \in Nat /\ chain[1].len \in Nat /\ chain[1].sent \in Nat
      /\ Len(chain) \in Nat /\ Len(wire) \in Nat /\ total \in Nat /\ left \in Nat
  BY <1>1, FirstBucket, Lengths
<1>3. /\ chain' = [chain EXCEPT ![1].sent = @ + left] /\ left' = 0
      /\ UNCHANGED <<total, wire, room, tx, alive, pc, cur, niov, iov, rec>>
  BY DEF AccountPartial
<1>4. left < chain[1].len - chain[1].sent
  BY <1>2 DEF AccountPartial, remain
<1> DEFINE b == [chain[1] EXCEPT !.sent = @ + left]
<1>5. /\ b \in Bucket /\ b.off = chain[1].off /\ b.len = chain[1].len
      /\ b.sent = chain[1].sent + left
  <2>1. chain[1].sent + left \in Nat /\ chain[1] \in Bucket
    BY <1>2
  <2> QED
    BY <2>1 DEF Bucket
<1>6. /\ chain' \in Seq(Bucket) /\ Len(chain') = Len(chain) /\ chain'[1] = b
      /\ \A i \in 1..Len(chain) : i # 1 => chain'[i] = chain[i]
  <2>1. chain \in Seq(Bucket)
    BY DEF TypeOK
  <2>2. chain' = [chain EXCEPT ![1] = b]
    BY <1>3
  <2> HIDE DEF b
  <2> QED
    BY <1>2, <1>5, <2>1, <2>2, ExceptSeq
<1> HIDE DEF b
<1>7. TypeOK'
  BY <1>3, <1>6 DEF TypeOK
<1>8. b.sent < b.len
  BY <1>2, <1>4, <1>5
<1>9. ChainInv'
  <2>1. ASSUME NEW i \in 1..Len(chain')
        PROVE  /\ chain'[i].sent <= chain'[i].len
               /\ ~Ssl => chain'[i].sent < chain'[i].len
               /\ i > 1 => chain'[i].sent = 0
               /\ chain'[i].off + chain'[i].len = chain[i].off + chain[i].len
               /\ i > 1 => chain'[i].off = chain[i].off
    <3>1. CASE i = 1
      <4>1. b.sent <= b.len
        BY <1>2, <1>5, <1>8
      <4> QED
        BY <1>5, <1>6, <1>8, <3>1, <4>1
    <3>2. CASE i # 1
      BY <1>1, <1>6, <3>2, ChainAt
    <3> QED
      BY <3>1, <3>2
  <2>2. ASSUME NEW i \in 1..Len(chain')
        PROVE  /\ chain'[i].off + chain'[i].len <= total'
               /\ chain'[i].off + chain'[i].len =
                     IF i = Len(chain') THEN total' ELSE chain'[i + 1].off
    <3>1. i \in 1..Len(chain)
      BY <1>6
    <3>2. CASE i = Len(chain)
      BY <1>1, <1>3, <1>6, <2>1, <3>1, <3>2, ChainAt
    <3>3. CASE i # Len(chain)
      <4>1. i + 1 \in 1..Len(chain') /\ i + 1 > 1
        BY <1>2, <1>6, <3>1, <3>3
      <4>2. chain'[i + 1].off = chain[i + 1].off
        BY <2>1, <4>1
      <4> QED
        BY <1>1, <1>3, <1>6, <2>1, <3>1, <3>3, <4>2, ChainAt
    <3> QED
      BY <3>2, <3>3
  <2> QED
    BY <2>1, <2>2 DEF ChainInv
<1>10. WireInv'
  <2>1. Len(wire) = chain[1].off + chain[1].sent + left + rec /\ Len(wire) <= total
    BY <1>1 DEF WireInv
  <2>2. Len(wire) = chain[1].off + (chain[1].sent + left) + 0 + 0
    BY <1>1, <1>2, <2>1
  <2>3. chain' # << >>
    BY <1>2, <1>6, EmptySeq
  <2> QED
    BY <1>1, <1>3, <1>5, <1>6, <2>1, <2>2, <2>3 DEF WireInv
<1>11. PcInv' /\ InOrder'
  BY <1>1, <1>3 DEF PcInv, InOrder
<1> QED
  BY <1>1, <1>3, <1>7, <1>9, <1>10, <1>11 DEF NetInv

LEMMA AccountWholeStep ==
    ASSUME TypeOK, NetInv, AccountWhole
    PROVE  TypeOK' /\ NetInv'
<1>1. /\ ChainInv /\ WireInv /\ PcInv /\ InOrder /\ alive /\ ~Ssl /\ tx
      /\ rec = 0 /\ pc = "account" /\ chain # << >>
  BY AccountFacts DEF AccountWhole
<1>2. /\ 1 \in 1..Len(chain) /\ Head(chain) = chain[1] /\ chain[1] \in Bucket
      /\ chain[1].off \in Nat /\ chain[1].len \in Nat /\ chain[1].sent \in Nat
      /\ Len(chain) \in Nat /\ Len(wire) \in Nat /\ total \in Nat /\ left \in Nat
  BY <1>1, FirstBucket, Lengths
<1>3. /\ chain' = Tail(chain) /\ left' = left - remain(chain[1])
      /\ left >= remain(chain[1])
      /\ UNCHANGED <<total, wire, room, tx, alive, pc, cur, niov, iov, rec>>
  BY <1>2 DEF AccountWhole
<1>4. /\ chain' \in Seq(Bucket) /\ ChainInv'
      /\ chain' = << >> => chain[1].off + chain[1].len = total
      /\ chain' # << >> => /\ chain'[1].off = chain[1].off + chain[1].len
                          /\ chain'[1].sent = 0
  BY <1>1, <1>3, TailStep
<1>5. left' \in Nat /\ remain(chain[1]) = chain[1].len - chain[1].sent
      /\ chain[1].sent < chain[1].len
  <2>1. chain[1].sent < chain[1].len
    BY <1>1, <1>2, ChainAt
  <2> QED
    BY <1>2, <1>3, <2>1 DEF remain
<1>6. TypeOK'
  BY <1>3, <1>4, <1>5 DEF TypeOK
<1>7. WireInv'
  <2>1. Len(wire) = chain[1].off + chain[1].sent + left + rec /\ Len(wire) <= total
    BY <1>1 DEF WireInv
  <2>2. Len(wire) = chain[1].off + chain[1].len + left'
    <3> DEFINE w == Len(wire)
               o == chain[1].off
               n == chain[1].len
               k == chain[1].sent
    <3>1. w \in Nat /\ o \in Nat /\ n \in Nat /\ k \in Nat /\ left \in Nat
      BY <1>2
    <3>2. w = o + k + left + 0 /\ left' = left - (n - k)
      BY <1>1, <1>3, <1>5, <2>1
    <3> HIDE DEF w, o, n, k
    <3>3. w = o + n + left'
      BY <3>1, <3>2
    <3> QED
      BY <3>3 DEF w, o, n, k
  <2>3. CASE chain' = << >>
    <3>1. Len(wire) = total /\ left' = 0
      BY <1>2, <1>4, <1>5, <2>1, <2>2, <2>3
    <3> QED
      BY <1>1, <1>3, <2>3, <3>1 DEF WireInv
  <2>4. CASE chain' # << >>
    <3>1. Len(wire) = chain'[1].off + chain'[1].sent + left' + rec'
      <4>1. chain'[1].off = chain[1].off + chain[1].len /\ chain'[1].sent = 0
        BY <1>4, <2>4
      <4>2. rec' = 0 /\ chain[1].off + chain[1].len \in Nat
        BY <1>1, <1>2, <1>3, SMTT(40)
      <4>3. Len(wire) = (chain[1].off + chain[1].len) + 0 + left' + 0
        BY <1>2, <1>5, <2>2, <4>2
      <4> QED
        BY <4>1, <4>2, <4>3
    <3> QED
      BY <1>1, <1>3, <2>1, <2>4, <3>1 DEF WireInv
  <2> QED
    BY <2>3, <2>4
<1>8. PcInv' /\ InOrder'
  BY <1>1, <1>3 DEF PcInv, InOrder
<1> QED
  BY <1>1, <1>3, <1>4, <1>6, <1>7, <1>8 DEF NetInv

LEMMA AccountDoneStep ==
    ASSUME TypeOK, NetInv, AccountDone
    PROVE  /\ TypeOK' /\ NetInv'
           /\ UNCHANGED <<total, wire, alive>>
           /\ tx' = tx \/ (tx' = FALSE /\ Len(wire) = total)
<1>1. /\ ChainInv /\ WireInv /\ PcInv /\ InOrder /\ alive /\ ~Ssl /\ tx
      /\ rec = 0 /\ pc = "account" /\ (chain = << >> \/ left = 0)
      /\ UNCHANGED <<wire, room, rec>>
  BY AccountFacts DEF AccountDone
<1>2. CASE chain = << >>
  <2>1. /\ chain' = << >> /\ tx' = FALSE /\ pc' = "idle"
        /\ UNCHANGED <<total, alive, cur, niov, iov, left>>
    BY <1>2 DEF AccountDone, ReturnOkay
  <2>2. left = 0 /\ Len(wire) = total
    BY <1>1, <1>2 DEF WireInv
  <2>3. TypeOK'
    BY <1>1, <2>1, EmptySeq DEF TypeOK
  <2>4. ChainInv' /\ WireInv' /\ PcInv' /\ InOrder'
    BY <1>1, <1>2, <2>1, <2>2 DEF ChainInv, WireInv, PcInv, InOrder
  <2> QED
    BY <1>1, <2>1, <2>2, <2>3, <2>4 DEF NetInv
<1>3. CASE chain # << >>
  <2>1. /\ 1 \in 1..Len(chain) /\ Head(chain) = chain[1]
        /\ chain[1].off \in Nat /\ chain[1].len \in Nat /\ chain[1].sent \in Nat
        /\ Len(chain) \in Nat \ {0} /\ Len(wire) \in Nat
    BY <1>3, FirstBucket, Lengths
  <2>2. chain[1].len > 0
    <3>1. chain[1].sent < chain[1].len
      BY <1>1, <2>1, ChainAt
    <3> QED
      BY <2>1, <3>1
  <2>3. /\ pc' = "gather"
        /\ cur' = 1 /\ niov' = 0 /\ iov' = << >> /\ left' = 0
        /\ UNCHANGED <<chain, total, tx, alive>>
    BY <1>3, <2>1, <2>2 DEF AccountDone
  <2>4. TypeOK'
    BY <1>1, <2>3, EmptySeq DEF TypeOK
  <2>5. ChainInv' /\ WireInv' /\ InOrder'
    BY <1>1, <1>3, <2>3 DEF ChainInv, WireInv, InOrder
  <2>6. GatherInv'
    <3>1. Len(wire) = chain[1].off + chain[1].sent
      BY <1>1, <1>3, <2>1 DEF WireInv
    <3>2. Len(iov') = 0
      BY <2>3
    <3> QED
      BY <1>1, <2>1, <2>3, <3>1, <3>2 DEF GatherInv
  <2>7. PcInv'
    BY <1>1, <2>3, <2>6 DEF PcInv
  <2> QED
    BY <1>1, <2>3, <2>4, <2>5, <2>7 DEF NetInv
<1> QED
  BY <1>2, <1>3

\* OpenSSL flushes m more bytes of the first bucket.
LEMMA SslFlush ==
    ASSUME TypeOK, NetInv, pc = "ssl", NEW m \in Nat, rec + m <= remain(Head(chain)),
           wire' = wire \o SubSeq(Unsent(Head(chain)), rec + 1, rec + m)
    PROVE  /\ wire' \in Seq(Nat) /\ Len(wire') = Len(wire) + m /\ InOrder'
           /\ m = 0 => wire' = wire
<1>1. /\ ChainInv /\ WireInv /\ PcInv /\ InOrder /\ alive /\ Ssl /\ chain # << >>
  <2>1. alive
    BY RunningIsOpen
  <2> QED
    BY <2>1, OpenFacts DEF PcInv
<1> DEFINE b == chain[1]
<1>2. /\ Head(chain) = b /\ b \in Bucket /\ b.off \in Nat /\ b.len \in Nat
      /\ b.sent \in Nat /\ b.sent <= b.len /\ Len(wire) \in Nat /\ rec \in Nat
  BY <1>1, FirstBucket, ChainAt, Lengths
<1>3. Len(wire) = b.off + b.sent + 0 + rec
  BY <1>1 DEF WireInv
<1> HIDE DEF b
<1>4. /\ remain(b) \in Nat /\ Unsent(b) \in Seq(Nat)
      /\ \A j \in 1..remain(b) : Unsent(b)[j] = b.off + b.sent + j
  BY <1>2, UnsentBytes
<1> DEFINE t == SubSeq(Unsent(b), rec + 1, rec + m)
<1>5. /\ t \in Seq(Nat) /\ Len(t) = m
      /\ \A j \in 1..m : t[j] = 0 + Len(wire) + j
  <2>1. rec + 1 \in Int /\ rec + m \in Int /\ rec + m <= remain(b)
    BY <1>2
  <2>2. \A j \in (rec + 1)..(rec + m) : /\ Unsent(b)[j] = b.off + b.sent + j
                                        /\ Unsent(b)[j] \in Nat
    BY <1>2, <1>4, <2>1, SMTT(40)
  <2>3. /\ t \in Seq(Nat) /\ Len(t) = m
        /\ \A j \in 1..m : t[j] = Unsent(b)[rec + j]
    <3> DEFINE u == Unsent(b)
               lo == rec + 1
               hi == rec + m
    <3>1. lo \in Int /\ hi \in Int /\ \A j \in lo..hi : u[j] \in Nat
      BY <2>1, <2>2
    <3> HIDE DEF u, lo, hi
    <3>2. /\ SubSeq(u, lo, hi) \in Seq(Nat)
          /\ Len(SubSeq(u, lo, hi)) = IF lo <= hi THEN hi - lo + 1 ELSE 0
          /\ \A j \in 1..(hi - lo + 1) : SubSeq(u, lo, hi)[j] = u[lo + j - 1]
      BY <3>1, SubSeqProperties
    <3>3. t = SubSeq(u, lo, hi)
      BY DEF u, lo, hi
    <3> HIDE DEF t
    <3>4. /\ t \in Seq(Nat)
          /\ Len(t) = IF lo <= hi THEN hi - lo + 1 ELSE 0
          /\ \A j \in 1..(hi - lo + 1) : t[j] = u[lo + j - 1]
      BY <3>2, <3>3
    <3>5. hi - lo + 1 = m /\ (lo <= hi \/ m = 0) /\ \A j \in 1..m : lo + j - 1 = rec + j
      BY <1>2 DEF lo, hi
    <3>6. u = Unsent(b)
      BY DEF u
    <3>7. Len(t) = m
      BY <3>1, <3>4, <3>5
    <3>8. ASSUME NEW j \in 1..m PROVE t[j] = Unsent(b)[rec + j]
      BY <3>4, <3>5, <3>6
    <3> QED
      BY <3>4, <3>7, <3>8
  <2> HIDE DEF t
  <2>4. ASSUME NEW j \in 1..m PROVE t[j] = 0 + Len(wire) + j
    <3>1. rec + j \in (rec + 1)..(rec + m)
      BY <1>2
    <3>2. t[j] = b.off + b.sent + (rec + j)
      BY <2>2, <2>3, <3>1
    <3> QED
      BY <1>2, <1>3, <3>2
  <2> QED
    BY <2>3, <2>4
<1>6. wire' = wire \o t
  BY <1>2
<1> HIDE DEF t
<1>7. wire \in Seq(Nat) /\ \A i \in 1..Len(wire) : wire[i] = 0 + i
  BY <1>1, <1>2 DEF TypeOK, InOrder
<1> DEFINE v == wire \o t
<1>8. /\ v \in Seq(Nat) /\ Len(v) = Len(wire) + Len(t)
      /\ \A i \in 1..Len(v) : v[i] = 0 + i
  <2>1. \A i \in 1..Len(t) : t[i] = 0 + Len(wire) + i
    BY <1>5
  <2>2. 0 \in Nat /\ t \in Seq(Nat)
    BY <1>5
  <2> QED
    BY <1>7, <2>1, <2>2, ConcatInOrder, SMTT(40)
<1>9. m = 0 => v = wire
  <2>1. m = 0 => t = << >>
    BY <1>5, EmptySeq
  <2> QED
    BY <1>7, <2>1, ConcatEmptySeq
<1> HIDE DEF v
<1>10. wire' = v
  BY <1>6 DEF v
<1>11. Len(v) \in Nat
  BY <1>8, LenProperties
<1>12. \A i \in 1..Len(v) : v[i] = i
  BY <1>8, <1>11
<1> QED
  BY <1>5, <1>8, <1>9, <1>10, <1>12 DEF InOrder

LEMMA SslFacts ==
    ASSUME TypeOK, NetInv, pc = "ssl"
    PROVE  /\ ChainInv /\ WireInv /\ PcInv /\ InOrder /\ alive /\ tx /\ Ssl
           /\ chain # << >> /\ left = 0 /\ 1 \in 1..Len(chain)
           /\ Head(chain) = chain[1] /\ chain[1] \in Bucket
           /\ chain[1].off \in Nat /\ chain[1].len \in Nat /\ chain[1].sent \in Nat
           /\ remain(chain[1]) = chain[1].len - chain[1].sent
           /\ remain(chain[1]) \in Nat /\ rec \in Nat /\ rec <= remain(chain[1])
           /\ Len(wire) \in Nat /\ total \in Nat
           /\ Len(wire) = chain[1].off + chain[1].sent + rec
           /\ chain[1].off + chain[1].len <= total
<1>1. alive /\ tx
  BY RunningIsOpen
<1>2. ChainInv /\ WireInv /\ PcInv /\ InOrder
  BY <1>1, OpenFacts
<1>3. Ssl /\ chain # << >>
  BY <1>2 DEF PcInv
<1>4. /\ 1 \in 1..Len(chain) /\ Head(chain) = chain[1] /\ chain[1] \in Bucket
      /\ chain[1].off \in Nat /\ chain[1].len \in Nat /\ chain[1].sent \in Nat
      /\ rec \in Nat /\ Len(wire) \in Nat /\ total \in Nat
  BY <1>3, FirstBucket, Lengths
<1>5. chain[1].sent <= chain[1].len /\ chain[1].off + chain[1].len <= total
  BY <1>2, <1>4, ChainAt
<1>6. remain(chain[1]) = chain[1].len - chain[1].sent /\ remain(chain[1]) \in Nat
  BY <1>4, <1>5 DEF remain
<1>7. /\ left = 0 /\ rec <= remain(chain[1])
      /\ Len(wire) = chain[1].off + chain[1].sent + left + rec
  BY <1>2, <1>3 DEF WireInv
<1>8. Len(wire) = chain[1].off + chain[1].sent + rec
  BY <1>4, <1>7
<1> QED
  BY <1>1, <1>2, <1>3, <1>4, <1>5, <1>6, <1>7, <1>8

LEMMA SslDoneStep ==
    ASSUME TypeOK, NetInv, SslWriteDone
    PROVE  /\ TypeOK' /\ NetInv'
           /\ UNCHANGED <<total, alive>> /\ tx /\ alive
           /\ Len(wire') >= Len(wire) /\ Len(wire') <= total
           /\ Len(wire') = Len(wire) => wire' = wire
           /\ tx' = tx \/ (tx' = FALSE /\ Len(wire') = total)
<1>1. pc = "ssl"
  BY DEF SslWriteDone
<1>2. /\ ChainInv /\ WireInv /\ PcInv /\ InOrder /\ alive /\ tx /\ Ssl
      /\ chain # << >> /\ left = 0
      /\ Head(chain) = chain[1]
  BY <1>1, SslFacts
<1> DEFINE r == remain(chain[1])
           o == chain[1].off
           n == chain[1].len
           k == chain[1].sent
           m == r - rec
           w == Len(wire)
<1>3. /\ o \in Nat /\ n \in Nat /\ k \in Nat /\ r = n - k /\ r \in Nat
      /\ rec \in Nat /\ rec <= r /\ w \in Nat /\ total \in Nat
      /\ w = o + k + rec /\ o + n <= total /\ room \in Nat
  BY <1>1, SslFacts, Lengths
<1>4. /\ m <= room /\ room' = room - m /\ rec' = 0
      /\ wire' = wire \o SubSeq(Unsent(Head(chain)), rec + 1, r)
      /\ UNCHANGED <<cur, niov, iov, left>>
  BY <1>2 DEF SslWriteDone
<1>5. /\ chain' = Tail(chain) /\ UNCHANGED <<total, alive>>
      /\ \/ Len(chain) # 1 /\ UNCHANGED <<tx, pc>>
         \/ Len(chain) = 1 /\ tx' = FALSE /\ pc' = "idle"
  <2>1. Len(chain) = 1 => Tail(chain) = << >>
    <3>1. /\ Tail(chain) \in Seq(Bucket) /\ Len(Tail(chain)) = Len(chain) - 1
          /\ Len(chain) \in Nat
      BY <1>2, TailChain DEF TypeOK
    <3>2. Tail(chain) # << >> => Len(Tail(chain)) \in Nat \ {0}
      BY <3>1, EmptySeq
    <3> QED
      BY <3>1, <3>2
  <2> QED
    BY <2>1 DEF SslWriteDone, ReturnOkay
<1> HIDE DEF r, o, n, k, w
<1>6. m \in Nat /\ rec + m = r /\ w + m = o + n /\ room - m \in 0..SockBuf
  <2>1. room \in 0..SockBuf
    BY DEF TypeOK
  <2> QED
    BY <1>3, <1>4, <2>1
<1> HIDE DEF m
<1>7. /\ wire' \in Seq(Nat) /\ Len(wire') = w + m /\ InOrder'
      /\ m = 0 => wire' = wire
  <2>1. rec + m <= remain(Head(chain))
    BY <1>2, <1>3, <1>6 DEF r
  <2>2. wire' = wire \o SubSeq(Unsent(Head(chain)), rec + 1, rec + m)
    BY <1>4, <1>6
  <2> QED
    BY <1>1, <1>6, <2>1, <2>2, SslFlush DEF w
<1>8. /\ chain' \in Seq(Bucket) /\ ChainInv'
      /\ Len(chain) = 1 <=> chain' = << >>
      /\ chain' = << >> => o + n = total
      /\ chain' # << >> => /\ chain'[1].off = o + n
                          /\ chain'[1].sent = 0 /\ chain'[1].len \in Nat
  BY <1>2, <1>5, TailStep DEF o, n
<1>9. TypeOK'
  BY <1>4, <1>5, <1>6, <1>7, <1>8 DEF TypeOK
<1>10. Len(wire') = o + n
  BY <1>6, <1>7
<1>11. WireInv'
  <2>1. CASE chain' = << >>
    BY <1>2, <1>4, <1>5, <1>8, <1>10, <2>1 DEF WireInv
  <2>2. CASE chain' # << >>
    <3>1. Len(wire') = chain'[1].off + chain'[1].sent + 0 + 0
      BY <1>3, <1>8, <1>10, <2>2
    <3>2. 0 <= remain(chain'[1])
      BY <1>8, <2>2 DEF remain
    <3>3. tx'
      BY <1>2, <1>5, <1>8, <2>2
    <3> QED
      BY <1>2, <1>3, <1>4, <1>5, <1>10, <2>2, <3>1, <3>2, <3>3 DEF WireInv
  <2> QED
    BY <2>1, <2>2
<1>12. PcInv'
  BY <1>1, <1>2, <1>4, <1>5, <1>8 DEF PcInv
<1>13. w + m >= w /\ w + m <= total /\ (w + m = w => m = 0)
  BY <1>3, <1>6
<1>14. tx' = tx \/ (tx' = FALSE /\ Len(wire') = total)
  BY <1>5, <1>8, <1>10
<1>15. NetInv'
  BY <1>2, <1>5, <1>7, <1>8, <1>11, <1>12 DEF NetInv
<1>16. /\ Len(wire') >= Len(wire) /\ Len(wire') <= total
       /\ Len(wire') = Len(wire) => wire' = wire
  BY <1>7, <1>13 DEF w
<1> QED
  BY <1>2, <1>5, <1>9, <1>14, <1>15, <1>16

LEMMA SslBlockedStep ==
    ASSUME TypeOK, NetInv, SslWriteBlocked
    PROVE  /\ TypeOK' /\ NetInv'
           /\ UNCHANGED <<total, alive, tx>> /\ tx /\ alive
           /\ Len(wire') >= Len(wire) /\ Len(wire') <= total
           /\ Len(wire') = Len(wire) => wire' = wire
<1>1. pc = "ssl"
  BY DEF SslWriteBlocked
<1>2. /\ ChainInv /\ WireInv /\ PcInv /\ InOrder /\ alive /\ tx /\ Ssl
      /\ chain # << >> /\ left = 0
      /\ Head(chain) = chain[1]
  BY <1>1, SslFacts
<1> DEFINE r == remain(chain[1])
           o == chain[1].off
           n == chain[1].len
           k == chain[1].sent
           w == Len(wire)
<1>3. /\ o \in Nat /\ n \in Nat /\ k \in Nat /\ r = n - k /\ r \in Nat
      /\ rec \in Nat /\ rec <= r /\ w \in Nat /\ total \in Nat
      /\ w = o + k + rec /\ o + n <= total /\ room \in Nat
  BY <1>1, SslFacts, Lengths
<1>4. /\ room < r - rec /\ room' = 0 /\ rec' = rec + room
      /\ wire' = wire \o SubSeq(Unsent(Head(chain)), rec + 1, rec + room)
      /\ UNCHANGED <<chain, total, tx, alive, cur, niov, iov, left>> /\ pc' = "idle"
  BY <1>2 DEF SslWriteBlocked, ReturnBlocked
<1> HIDE DEF r, o, n, k, w
<1>5. /\ rec + room <= r /\ rec + room \in Nat /\ w + room <= total
      /\ w + room = o + k + 0 + (rec + room) /\ w + room >= w
      /\ (w + room = w => room = 0)
  BY <1>3, <1>4
<1>6. /\ wire' \in Seq(Nat) /\ Len(wire') = w + room /\ InOrder'
      /\ room = 0 => wire' = wire
  <2>1. rec + room <= remain(Head(chain))
    BY <1>2, <1>5 DEF r
  <2> QED
    BY <1>1, <1>3, <1>4, <2>1, SslFlush DEF w
<1>7. TypeOK'
  BY <1>4, <1>5, <1>6 DEF TypeOK
<1>8. ChainInv' /\ PcInv'
  BY <1>2, <1>4 DEF ChainInv, PcInv
<1>9. WireInv'
  BY <1>2, <1>4, <1>5, <1>6 DEF WireInv, o, k, r
<1>10. NetInv'
  BY <1>2, <1>4, <1>6, <1>8, <1>9 DEF NetInv
<1>11. /\ Len(wire') >= Len(wire) /\ Len(wire') <= total
       /\ Len(wire') = Len(wire) => wire' = wire
  BY <1>5, <1>6 DEF w
<1> QED
  BY <1>2, <1>4, <1>7, <1>10, <1>11

-----------------------------------------------------------------------------
\* NetInv is inductive: ymo_net_send_buckets and its TLS variant keep their
\* place in the stream whatever the socket takes of each send, as long as a
\* connection without TLS never queues an empty bucket.
THEOREM NetInvariant ==
    ASSUME Ssl \/ MinLen > 0
    PROVE  Spec => [](TypeOK /\ NetInv)
<1>1. Init => TypeOK /\ NetInv
  <2> SUFFICES ASSUME Init PROVE TypeOK /\ NetInv
    OBVIOUS
  <2>1. /\ chain = << >> /\ wire = << >> /\ iov = << >> /\ total = 0 /\ room = SockBuf
        /\ tx = FALSE /\ alive = TRUE /\ pc = "idle" /\ cur = 1 /\ niov = 0
        /\ left = 0 /\ rec = 0 /\ Len(<< >>) = 0
    BY EmptySeq DEF Init
  <2>2. TypeOK
    <3>1. << >> \in Seq(Bucket) /\ << >> \in Seq(Nat)
      BY EmptySeq
    <3>2. chain \in Seq(Bucket) /\ wire \in Seq(Nat) /\ iov \in Seq(Nat)
      BY <2>1, <3>1
    <3>3. room \in 0..SockBuf /\ niov \in 0..MaxIov
      BY <2>1
    <3>4. tx \in BOOLEAN /\ alive \in BOOLEAN
      BY <2>1
    <3>5. /\ pc \in {"idle", "gather", "account", "ssl"} /\ total \in Nat
          /\ cur \in Nat \ {0} /\ left \in Nat /\ rec \in Nat
      BY <2>1
    <3> QED
      BY <3>2, <3>3, <3>4, <3>5 DEF TypeOK
  <2>3. InOrder /\ ChainInv /\ WireInv /\ PcInv
    BY <2>1 DEF InOrder, ChainInv, WireInv, PcInv
  <2> QED
    BY <2>1, <2>2, <2>3 DEF NetInv
<1>2. TypeOK /\ NetInv /\ [Next]_vars => TypeOK' /\ NetInv'
  <2> SUFFICES ASSUME TypeOK, NetInv, [Next]_vars PROVE TypeOK' /\ NetInv'
    OBVIOUS
  <2>1. CASE \E n \in MinLen..MaxLen : Enqueue(n)
    BY <2>1, EnqueueStep
  <2>2. CASE TxEnable \/ SendMsgBlocked \/ \E n \in 1..SockBuf : PeerAck(n)
    BY <2>2, QuietStep
  <2>3. CASE WriteCb
    BY <2>3, WriteCbStep
  <2>4. CASE GatherBucket
    BY <2>4, GatherStep
  <2>5. CASE \E k \in 1..SockBuf : SendMsg(k)
    BY <2>5, SendMsgStep
  <2>6. CASE AccountPartial
    BY <2>6, AccountPartialStep
  <2>7. CASE AccountWhole
    BY <2>7, AccountWholeStep
  <2>8. CASE AccountDone
    BY <2>8, AccountDoneStep
  <2>9. CASE SslWriteDone
    BY <2>9, SslDoneStep
  <2>10. CASE SslWriteBlocked
    BY <2>10, SslBlockedStep
  <2>11. CASE SendMsgError \/ SslWriteError
    BY <2>11, ErrorStep
  <2>12. CASE UNCHANGED vars
    <3>1. UNCHANGED <<chain, total, wire, room, tx, alive, pc, cur, niov, iov, left, rec>>
      BY <2>12 DEF vars
    <3>2. TypeOK'
      BY <3>1 DEF TypeOK
    <3>3. /\ InOrder => InOrder'
          /\ ChainInv => ChainInv'
          /\ WireInv => WireInv'
          /\ GatherInv => GatherInv'
      BY <3>1 DEF InOrder, ChainInv, WireInv, GatherInv
    <3>4. PcInv => PcInv'
      BY <3>1, <3>3 DEF PcInv
    <3> QED
      BY <3>1, <3>2, <3>3, <3>4 DEF NetInv
  <2> QED
    BY <2>1, <2>2, <2>3, <2>4, <2>5, <2>6, <2>7, <2>8, <2>9, <2>10, <2>11, <2>12
    DEF Next, SendStep
<1> QED
  BY <1>1, <1>2, PTL DEF Spec

\* The bytes on the wire are the queued ones in order, each once, however
\* sendmsg or SSL_write_ex cut the chain.
THEOREM SendInOrder ==
    ASSUME Ssl \/ MinLen > 0
    PROVE  Spec => []InOrder
<1>1. TypeOK /\ NetInv => InOrder
  BY DEF NetInv
<1> QED
  BY <1>1, NetInvariant, PTL

\* The write watcher of an open connection is off only when every queued byte
\* has left: YMO_OKAY never strands the rest of a chain.
THEOREM SendOkayMeansSent ==
    ASSUME Ssl \/ MinLen > 0
    PROVE  Spec => []OkayMeansSent
<1>1. TypeOK /\ NetInv => OkayMeansSent
  BY DEF NetInv, WireInv, OkayMeansSent
<1> QED
  BY <1>1, NetInvariant, PTL

\* Bytes in order are the sequence YmoStream puts on the wire.
LEMMA WireIsStream ==
    ASSUME TypeOK', InOrder'
    PROVE  wire' = [i \in 1..Len(wire') |-> i]
<1>1. wire' \in [1..Len(wire') -> Nat]
  BY LenProperties DEF TypeOK
<1> QED
  BY <1>1 DEF InOrder

\* A step that puts bytes on the wire is a Transmit of the stream, or nothing.
LEMMA TransmitStep ==
    ASSUME TypeOK, TypeOK', InOrder', tx, alive, UNCHANGED <<total, alive>>,
           Len(wire') >= Len(wire), Len(wire') <= total,
           Len(wire') = Len(wire) => wire' = wire,
           tx' = tx \/ (tx' = FALSE /\ Len(wire') = total)
    PROVE  [Stream!Next]_Stream!svars
<1>1. Len(wire) \in Nat /\ Len(wire') \in Nat /\ tx' \in BOOLEAN
  BY LenProperties DEF TypeOK
<1>2. CASE Len(wire') = Len(wire)
  <2>1. wire' = wire
    BY <1>2
  <2>2. CASE tx' = tx
    BY <2>1, <2>2 DEF Stream!svars
  <2>3. CASE tx' = FALSE /\ Len(wire') = total
    <3>1. Stream!Quiesce
      BY <2>1, <2>3 DEF Stream!Quiesce
    <3> QED
      BY <3>1 DEF Stream!Next
  <2> QED
    BY <2>2, <2>3
<1>3. CASE Len(wire') # Len(wire)
  <2>1. Len(wire') > Len(wire)
    BY <1>1, <1>3
  <2>2. wire' = [i \in 1..Len(wire') |-> i]
    BY WireIsStream
  <2>3. (~tx') \in {i \in BOOLEAN : i => Len(wire') = total}
    BY <1>1
  <2>4. Stream!Transmit
    BY <2>1, <2>2, <2>3 DEF Stream!Transmit
  <2> QED
    BY <2>4 DEF Stream!Next
<1> QED
  BY <1>2, <1>3

\* The output path implements the byte stream of YmoStream.
THEOREM NetRefinesStream ==
    ASSUME Ssl \/ MinLen > 0
    PROVE  Spec => ImplementsStream
<1>1. Init => Stream!Init
  BY DEF Init, Stream!Init
<1>2. TypeOK /\ NetInv /\ TypeOK' /\ NetInv' /\ [Next]_vars
         => [Stream!Next]_Stream!svars
  <2> SUFFICES ASSUME TypeOK, NetInv, TypeOK', NetInv', [Next]_vars
               PROVE  [Stream!Next]_Stream!svars
    OBVIOUS
  <2>0. InOrder'
    BY DEF NetInv
  <2>1. CASE \E n \in MinLen..MaxLen : Enqueue(n)
    <3>1. PICK n \in MinLen..MaxLen : Enqueue(n)
      BY <2>1
    <3>2. total' \in {q \in Nat : q >= total}
      BY <3>1 DEF Enqueue, TypeOK
    <3>3. Stream!Queue
      BY <3>1, <3>2 DEF Enqueue, Stream!Queue
    <3> QED
      BY <3>3 DEF Stream!Next
  <2>2. CASE TxEnable
    <3>1. total' \in {q \in Nat : q >= total}
      BY <2>2 DEF TxEnable, TypeOK
    <3>2. Stream!Queue
      BY <2>2, <3>1 DEF TxEnable, Stream!Queue
    <3> QED
      BY <3>2 DEF Stream!Next
  <2>3. CASE WriteCb
    <3>1. CASE chain = << >>
      <4>1. Len(wire) = total
        BY <2>3, <3>1, OpenFacts DEF WriteCb, WireInv
      <4>2. Stream!Quiesce
        BY <2>3, <3>1, <4>1 DEF WriteCb, ReturnOkay, Stream!Quiesce
      <4> QED
        BY <4>2 DEF Stream!Next
    <3>2. CASE chain # << >>
      BY <2>3, <3>2 DEF WriteCb, Stream!svars
    <3> QED
      BY <3>1, <3>2
  <2>4. CASE \/ SendMsgBlocked \/ GatherBucket \/ AccountPartial \/ AccountWhole
             \/ \E n \in 1..SockBuf : PeerAck(n)
    BY <2>4 DEF SendMsgBlocked, ReturnBlocked, GatherBucket, AccountPartial,
                AccountWhole, PeerAck, Stream!svars
  <2>5. CASE \E k \in 1..SockBuf : SendMsg(k)
    BY <2>0, <2>5, SendMsgStep, TransmitStep
  <2>6. CASE AccountDone
    <3>1. alive /\ tx
      BY <2>6, AccountFacts DEF AccountDone
    <3>2. /\ UNCHANGED <<total, wire, alive>>
          /\ tx' = tx \/ (tx' = FALSE /\ Len(wire) = total)
      BY <2>6, AccountDoneStep
    <3>3. CASE tx' = tx
      BY <3>2, <3>3 DEF Stream!svars
    <3>4. CASE tx' = FALSE /\ Len(wire) = total
      <4>1. Stream!Quiesce
        BY <3>1, <3>2, <3>4 DEF Stream!Quiesce
      <4> QED
        BY <4>1 DEF Stream!Next
    <3> QED
      BY <3>2, <3>3, <3>4
  <2>7. CASE SslWriteDone
    BY <2>0, <2>7, SslDoneStep, TransmitStep
  <2>8. CASE SslWriteBlocked
    BY <2>0, <2>8, SslBlockedStep, TransmitStep
  <2>9. CASE SendMsgError \/ SslWriteError
    <3>1. alive
      BY <2>9, RunningIsOpen DEF SendMsgError, SslWriteError, Gathered
    <3>2. Stream!Fail
      BY <2>9, <3>1 DEF SendMsgError, SslWriteError, ReturnError, Stream!Fail
    <3> QED
      BY <3>2 DEF Stream!Next
  <2>10. CASE UNCHANGED vars
    BY <2>10 DEF vars, Stream!svars
  <2> QED
    BY <2>1, <2>2, <2>3, <2>4, <2>5, <2>6, <2>7, <2>8, <2>9, <2>10
    DEF Next, SendStep
<1> QED
  BY <1>1, <1>2, NetInvariant, PTL DEF Spec, ImplementsStream, Stream!Spec
=============================================================================
