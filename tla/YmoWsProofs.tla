---------------------------- MODULE YmoWsProofs ----------------------------
(***************************************************************************)
(* The sending side of a WebSocket session, for every client, every        *)
(* application and every way the socket cuts the chain of buckets: frames  *)
(* leave whole and in order, and a close frame is the last one.            *)
(***************************************************************************)
EXTENDS YmoWs, TLAPS

Bucket == [n : Nat, kind : {"hdr", "payload"}, empty : BOOLEAN]
Hdr(n) == [n |-> n, kind |-> "hdr", empty |-> FALSE]
Given == {out[i] : i \in DOMAIN out}

SenderType ==
    /\ wire \in Seq(Bucket) /\ chain \in Seq(Bucket)
    /\ out \in Seq(Given) /\ tail \in BOOLEAN

\* Of a sequence of buckets q and the frames o they were made from.
Ordered(q) == \A i, j \in 1..Len(q) : i < j => q[i].n <= q[j].n
Paired(q) == \A i \in 1..Len(q) : q[i].kind = "payload" => i > 1 /\ q[i - 1] = Hdr(q[i].n)
Known(q, o) ==
    \A i \in 1..Len(q) :
        /\ q[i].n \in 1..Len(o)
        /\ q[i].empty => Len(o[q[i].n].data) = 0
Whole(q, o) == Ordered(q) /\ Paired(q) /\ Known(q, o)
AllQueued(q, o) == \A n \in 1..Len(o) : \E i \in 1..Len(q) : q[i].n = n
SomeEmpty(o) == \E i \in 1..Len(o) : o[i].payload = "none" \/ Len(o[i].data) = 0

\* Without a frame that carries nothing, send_tail is set whenever there is a
\* chain, so that no frame is dropped.
ChainInv ==
    /\ Whole(Queued, out)
    /\ ~SomeEmpty(out) =>
          /\ chain = << >> \/ tail
          /\ state # "GONE" => AllQueued(Queued, out)

\* A close frame is given to the session with the step that leaves CONNECTED.
CloseInv ==
    /\ state \in {"HTTP", "CONNECTED"} => \A i \in 1..Len(out) : out[i].op # "CLOSE"
    /\ \A i \in 1..Len(out) : out[i].op = "CLOSE" => i = Len(out)

SenderInv == SenderType /\ ChainInv

-----------------------------------------------------------------------------
(* Sequences *)

\* One more frame: the ones before it stay what they are.
LEMMA Appended ==
    ASSUME NEW G, NEW o \in Seq(G), NEW f
    PROVE /\ Append(o, f) \in Seq(G \cup {f})
          /\ Len(Append(o, f)) = Len(o) + 1
          /\ Append(o, f)[Len(o) + 1] = f
          /\ \A i \in 1..Len(o) : Append(o, f)[i] = o[i]
<1>1. o \in Seq(G \cup {f})
  OBVIOUS
<1>2. f \in G \cup {f}
  OBVIOUS
<1> QED BY <1>1, <1>2

LEMMA OutKept ==
    ASSUME NEW f, out \in Seq(Given), out' = Append(out, f)
    PROVE out' \in Seq(Given')
<1>1. /\ out' \in Seq(Given \cup {f})
      /\ Len(out') = Len(out) + 1
      /\ out'[Len(out) + 1] = f
      /\ \A i \in 1..Len(out) : out'[i] = out[i]
  BY Appended
<1>2. DOMAIN out' = 1..(Len(out) + 1) /\ DOMAIN out = 1..Len(out) /\ Len(out) \in Nat
  BY <1>1
<1>3. Given' = Given \cup {f}
  BY <1>1, <1>2 DEF Given
<1> QED BY <1>1, <1>3

\* The three parts of a chain that is cut, or to which more is added.
LEMMA JoinAt ==
    ASSUME NEW S, NEW a \in Seq(S), NEW b \in Seq(S)
    PROVE /\ a \o b \in Seq(S)
          /\ Len(a \o b) = Len(a) + Len(b)
          /\ \A i \in 1..Len(a) : (a \o b)[i] = a[i]
          /\ \A i \in 1..Len(b) : (a \o b)[Len(a) + i] = b[i]
OBVIOUS

LEMMA CutAt ==
    ASSUME NEW S, NEW a \in Seq(S), NEW k \in 0..Len(a)
    PROVE /\ SubSeq(a, 1, k) \in Seq(S) /\ Len(SubSeq(a, 1, k)) = k
          /\ \A i \in 1..k : SubSeq(a, 1, k)[i] = a[i]
          /\ SubSeq(a, k + 1, Len(a)) \in Seq(S)
          /\ Len(SubSeq(a, k + 1, Len(a))) = Len(a) - k
          /\ \A i \in 1..(Len(a) - k) : SubSeq(a, k + 1, Len(a))[i] = a[k + i]
OBVIOUS

\* More behind the second of two parts.
LEMMA JoinLonger ==
    ASSUME NEW S, NEW a \in Seq(S), NEW b \in Seq(S), NEW c \in Seq(S)
    PROVE /\ a \o (b \o c) \in Seq(S)
          /\ Len(a \o (b \o c)) = Len(a \o b) + Len(c)
          /\ \A i \in 1..Len(a \o b) : (a \o (b \o c))[i] = (a \o b)[i]
          /\ \A i \in 1..Len(c) : (a \o (b \o c))[Len(a \o b) + i] = c[i]
OBVIOUS

\* Only the first k of the second part.
LEMMA JoinCut ==
    ASSUME NEW S, NEW a \in Seq(S), NEW b \in Seq(S), NEW k \in 0..Len(b)
    PROVE /\ a \o SubSeq(b, 1, k) \in Seq(S)
          /\ Len(a \o SubSeq(b, 1, k)) <= Len(a \o b)
          /\ k = Len(b) => Len(a \o SubSeq(b, 1, k)) = Len(a \o b)
          /\ \A i \in 1..Len(a \o SubSeq(b, 1, k)) : (a \o SubSeq(b, 1, k))[i] = (a \o b)[i]
OBVIOUS

\* The first k of the second part moved to the first.
LEMMA JoinMove ==
    ASSUME NEW S, NEW a \in Seq(S), NEW b \in Seq(S), NEW k \in 0..Len(b)
    PROVE (a \o SubSeq(b, 1, k)) \o SubSeq(b, k + 1, Len(b)) = a \o b
<1> DEFINE c == SubSeq(b, 1, k)
           d == SubSeq(b, k + 1, Len(b))
<1>1. /\ c \in Seq(S) /\ Len(c) = k /\ \A i \in 1..k : c[i] = b[i]
      /\ d \in Seq(S) /\ Len(d) = Len(b) - k /\ \A i \in 1..(Len(b) - k) : d[i] = b[k + i]
  BY CutAt
<1> HIDE DEF c, d
<1>2. c \o d = b
  <2> DEFINE e == c \o d
  <2>1. /\ e \in Seq(S) /\ Len(e) = Len(b)
        /\ \A i \in 1..k : e[i] = b[i]
        /\ \A i \in 1..(Len(b) - k) : e[k + i] = b[k + i]
    <3>1. /\ e \in Seq(S) /\ Len(e) = Len(c) + Len(d)
          /\ \A i \in 1..Len(c) : e[i] = c[i]
          /\ \A i \in 1..Len(d) : e[Len(c) + i] = d[i]
      BY <1>1, JoinAt
    <3> HIDE DEF e
    <3>2. Len(b) \in Nat /\ k + (Len(b) - k) = Len(b)
      OBVIOUS
    <3> QED BY <1>1, <3>1, <3>2
  <2> HIDE DEF e
  <2>2. \A i \in 1..Len(b) : e[i] = b[i]
    <3> SUFFICES ASSUME NEW i \in 1..Len(b), ~(i \in 1..k) PROVE e[i] = b[i]
      BY <2>1
    <3>1. i - k \in 1..(Len(b) - k) /\ k + (i - k) = i
      OBVIOUS
    <3> QED BY <2>1, <3>1
  <2>3. e = b
    BY <2>1, <2>2
  <2> QED BY <2>3 DEF e
<1>3. (a \o c) \o d = a \o (c \o d)
  BY <1>1
<1> QED BY <1>2, <1>3 DEF c, d

-----------------------------------------------------------------------------
(* Buckets and frames *)

LEMMA BucketTypes ==
    ASSUME NEW q \in Seq(Bucket), NEW i \in 1..Len(q)
    PROVE q[i] \in Bucket /\ q[i].n \in Nat /\ q[i].kind \in {"hdr", "payload"} /\ q[i].empty \in BOOLEAN
<1>1. q[i] \in Bucket
  OBVIOUS
<1> QED BY <1>1 DEF Bucket

\* The buckets of a frame: its header and, if there is one, its payload.
LEMMA MadeBuckets ==
    ASSUME NEW n \in Nat, NEW f
    PROVE /\ Buckets(n, f) \in Seq(Bucket)
          /\ Len(Buckets(n, f)) \in 1..2
          /\ Buckets(n, f)[1] = Hdr(n)
          /\ \A i \in 1..Len(Buckets(n, f)) :
                /\ Buckets(n, f)[i].n = n
                /\ Buckets(n, f)[i].empty => Len(f.data) = 0
                /\ Buckets(n, f)[i].kind = "payload" => i = 2
<1> DEFINE h == Hdr(n)
           p == [n |-> n, kind |-> "payload", empty |-> (Len(f.data) = 0)]
<1>1. h \in Bucket /\ h.n = n /\ h.kind = "hdr" /\ h.empty = FALSE
  BY DEF Hdr, Bucket
<1>2. p.n = n /\ p.kind = "payload" /\ p.empty = (Len(f.data) = 0)
  OBVIOUS
<1>3. p \in Bucket
  <2>1. (Len(f.data) = 0) \in BOOLEAN
    OBVIOUS
  <2> QED BY <2>1 DEF Bucket
<1>4. CASE f.payload = "none"
  <2>1. Buckets(n, f) = <<h>> \o << >>
    BY <1>4 DEF Buckets, Hdr
  <2> HIDE DEF h
  <2>2. Buckets(n, f) = <<h>>
    BY <1>1, <2>1
  <2> QED BY <1>1, <2>2 DEF h
<1>5. CASE f.payload # "none"
  <2>1. Buckets(n, f) = <<h>> \o <<p>>
    BY <1>5 DEF Buckets, Hdr
  <2> HIDE DEF h, p
  <2>2. /\ <<h>> \in Seq(Bucket) /\ Len(<<h>>) = 1 /\ <<h>>[1] = h
        /\ <<p>> \in Seq(Bucket) /\ Len(<<p>>) = 1 /\ <<p>>[1] = p
    BY <1>1, <1>3
  <2>3. Buckets(n, f) \in Seq(Bucket) /\ Len(Buckets(n, f)) = 2 /\ Buckets(n, f)[1] = h /\ Buckets(n, f)[2] = p
    BY <2>1, <2>2, JoinAt
  <2>4. \A i \in 1..Len(Buckets(n, f)) : i = 1 \/ i = 2
    BY <2>3
  <2>5. /\ Buckets(n, f)[1].n = n /\ ~Buckets(n, f)[1].empty /\ Buckets(n, f)[1].kind # "payload"
        /\ Buckets(n, f)[2].n = n /\ (Buckets(n, f)[2].empty => Len(f.data) = 0)
    BY <1>1, <1>2, <2>3
  <2>6. \A i \in 1..Len(Buckets(n, f)) :
           /\ Buckets(n, f)[i].n = n
           /\ Buckets(n, f)[i].empty => Len(f.data) = 0
           /\ Buckets(n, f)[i].kind = "payload" => i = 2
    BY <2>4, <2>5
  <2>7. Len(Buckets(n, f)) \in 1..2
    BY <2>3
  <2> QED BY <2>3, <2>6, <2>7 DEF h
<1> QED BY <1>4, <1>5

\* What remains of a chain that is given up behind some bucket is whole.
LEMMA PrefixWhole ==
    ASSUME NEW q \in Seq(Bucket), NEW r \in Seq(Bucket), NEW o,
           Len(r) <= Len(q), \A i \in 1..Len(r) : r[i] = q[i],
           Whole(q, o)
    PROVE Whole(r, o)
<1>1. Len(q) \in Nat /\ Len(r) \in Nat
  OBVIOUS
<1>2. \A i \in 1..Len(r) : i \in 1..Len(q) /\ i \in Nat /\ (i > 1 => i - 1 \in 1..Len(r))
  BY <1>1
<1>3. Ordered(r)
  BY <1>2 DEF Whole, Ordered
<1>4. Paired(r)
  BY <1>2 DEF Whole, Paired
<1>5. Known(r, o)
  BY <1>2 DEF Whole, Known
<1> QED BY <1>3, <1>4, <1>5 DEF Whole

\* A frame more does not disturb what is queued of the ones before it.
LEMMA FrameMore ==
    ASSUME NEW q \in Seq(Bucket), NEW G, NEW o \in Seq(G), NEW f, Whole(q, o)
    PROVE Whole(q, Append(o, f))
<1>1. /\ Len(Append(o, f)) = Len(o) + 1
      /\ \A i \in 1..Len(o) : Append(o, f)[i] = o[i]
  BY Appended
<1>2. Len(o) \in Nat
  OBVIOUS
<1> DEFINE a == Append(o, f)
<1> HIDE DEF a
<1>3. 1..Len(o) \subseteq 1..Len(a)
  BY <1>1, <1>2 DEF a
<1>4. Known(q, a)
  BY <1>1, <1>3 DEF Known, Whole, a
<1> QED BY <1>4 DEF Whole, a

\* The buckets of a new frame, put behind the others, leave them whole.
LEMMA FrameJoins ==
    ASSUME NEW q \in Seq(Bucket), NEW G, NEW o \in Seq(G), NEW f, Whole(q, o),
           NEW r \in Seq(Bucket),
           Len(r) = Len(q) + Len(Buckets(Len(o) + 1, f)),
           \A i \in 1..Len(q) : r[i] = q[i],
           \A i \in 1..Len(Buckets(Len(o) + 1, f)) : r[Len(q) + i] = Buckets(Len(o) + 1, f)[i]
    PROVE /\ Whole(r, Append(o, f))
          /\ AllQueued(q, o) => AllQueued(r, Append(o, f))
<1> DEFINE a == Append(o, f)
           n == Len(o) + 1
           b == Buckets(n, f)
           q0 == Len(q)
<1>1. Len(a) = n /\ n \in Nat /\ n > 0 /\ a[n] = f /\ \A i \in 1..Len(o) : a[i] = o[i]
  BY Appended
<1> HIDE DEF n
<1>2. /\ b \in Seq(Bucket) /\ Len(b) \in 1..2 /\ b[1] = Hdr(n)
      /\ \A i \in 1..Len(b) : b[i].n = n /\ (b[i].empty => Len(f.data) = 0) /\ (b[i].kind = "payload" => i = 2)
  BY <1>1, MadeBuckets
<1>3. q0 \in Nat /\ Len(r) = q0 + Len(b) /\ Len(o) \in Nat
  BY DEF n
<1>4. Whole(q, a)
  BY FrameMore
<1>5. \A i \in 1..q0 : r[i] = q[i]
  OBVIOUS
<1>6. \A i \in 1..Len(b) : r[q0 + i] = b[i]
  BY DEF n
<1>7. Known(q, o)
  BY DEF Whole
<1>8. \A i \in 1..q0 : q[i].n \in Nat /\ q[i].n < n
  BY <1>3, <1>7, BucketTypes DEF Known, n
<1> HIDE DEF a, b, q0
<1>9. \A i \in 1..Len(r) : \/ i \in 1..q0 /\ r[i] = q[i]
                           \/ i - q0 \in 1..Len(b) /\ r[i] = b[i - q0] /\ i > q0
  <2> SUFFICES ASSUME NEW i \in 1..Len(r), i > q0
               PROVE i - q0 \in 1..Len(b) /\ r[i] = b[i - q0]
    BY <1>3, <1>5
  <2>1. i - q0 \in 1..Len(b) /\ q0 + (i - q0) = i
    BY <1>2, <1>3
  <2> QED BY <2>1, <1>6
<1>10. \A i \in 1..Len(r) : i > q0 => r[i].n = n /\ (r[i].empty => Len(f.data) = 0)
  BY <1>2, <1>3, <1>9
<1>11. Ordered(r)
  <2> SUFFICES ASSUME NEW i \in 1..Len(r), NEW j \in 1..Len(r), i < j PROVE r[i].n <= r[j].n
    BY DEF Ordered
  <2>1. CASE j \in 1..q0
    <3>1. i \in 1..q0
      BY <1>3, <2>1
    <3> QED BY <1>4, <1>5, <2>1, <3>1 DEF Whole, Ordered, q0
  <2>2. CASE j > q0
    <3>1. r[j].n = n
      BY <1>10, <2>2
    <3>2. CASE i \in 1..q0
      <4>1. r[i].n \in Nat /\ r[i].n < n
        BY <1>5, <1>8, <3>2
      <4> QED BY <1>1, <3>1, <4>1
    <3>3. CASE i > q0
      <4>1. r[i].n = n
        BY <1>10, <3>3
      <4> QED BY <1>1, <3>1, <4>1
    <3> QED BY <1>3, <3>2, <3>3
  <2> QED BY <1>3, <2>1, <2>2
<1>12. Paired(r)
  <2> SUFFICES ASSUME NEW i \in 1..Len(r), r[i].kind = "payload"
               PROVE i > 1 /\ r[i - 1] = Hdr(r[i].n)
    BY DEF Paired
  <2>1. CASE i \in 1..q0
    <3>1. i > 1 /\ q[i - 1] = Hdr(q[i].n)
      BY <1>4, <1>5, <2>1 DEF Whole, Paired, q0
    <3>2. i - 1 \in 1..q0
      BY <1>3, <2>1, <3>1
    <3> QED BY <1>5, <2>1, <3>1, <3>2
  <2>2. CASE i > q0
    <3>1. i - q0 \in 1..Len(b) /\ r[i] = b[i - q0]
      BY <1>3, <1>9, <2>2
    <3>2. i - q0 = 2
      BY <1>2, <3>1
    <3>3. i - 1 = q0 + 1 /\ i > 1 /\ 1 \in 1..Len(b)
      BY <1>2, <1>3, <3>1, <3>2
    <3>4. r[i - 1] = Hdr(n)
      BY <1>2, <1>6, <3>3
    <3> QED BY <1>10, <2>2, <3>3, <3>4
  <2> QED BY <1>3, <2>1, <2>2
<1>13. Known(r, a)
  <2> SUFFICES ASSUME NEW i \in 1..Len(r)
               PROVE r[i].n \in 1..Len(a) /\ (r[i].empty => Len(a[r[i].n].data) = 0)
    BY DEF Known
  <2>1. CASE i \in 1..q0
    BY <1>4, <1>5, <2>1 DEF Whole, Known, q0
  <2>2. CASE i > q0
    <3>1. r[i].n = n /\ n \in 1..Len(a) /\ a[n] = f
      <4>1. n \in 1..Len(a) /\ a[n] = f
        BY <1>1
      <4> QED BY <1>10, <2>2, <4>1
    <3>2. r[i].empty => Len(f.data) = 0
      BY <1>10, <2>2
    <3> QED BY <3>1, <3>2
  <2> QED BY <1>3, <2>1, <2>2
<1>14. AllQueued(q, o) => AllQueued(r, a)
  <2> SUFFICES ASSUME AllQueued(q, o), NEW k \in 1..Len(a) PROVE \E i \in 1..Len(r) : r[i].n = k
    BY DEF AllQueued
  <2>1. CASE k = n
    <3>1. q0 + 1 \in 1..Len(r) /\ q0 + 1 > q0
      BY <1>2, <1>3
    <3> QED BY <1>10, <2>1, <3>1
  <2>2. CASE k # n
    <3>1. k \in 1..Len(o)
      BY <1>1, <1>3, <2>2 DEF n
    <3>2. PICK i \in 1..q0 : q[i].n = k
      BY <3>1 DEF AllQueued, q0
    <3>3. i \in 1..Len(r)
      BY <1>2, <1>3
    <3> QED BY <1>5, <3>2, <3>3
  <2> QED BY <2>1, <2>2
<1> QED BY <1>11, <1>12, <1>13, <1>14 DEF Whole, a

-----------------------------------------------------------------------------
(* Steps *)

\* What a step does to the sending side: nothing, one frame given to the
\* session, or a step of the write callback or the cleanup.
Quiet ==
    /\ UNCHANGED <<chain, tail, out, wire>>
    /\ state' = state \/ (state = "HTTP" /\ state' \in {"CONNECTED", "GONE"})
Sends(f) ==
    /\ state = "CONNECTED" /\ wire' = wire /\ SendNoCheck(f)
    /\ state' \in {"CONNECTED", "CLOSE_RECEIVED", "ERROR"}
    /\ state' = "CONNECTED" => f.op # "CLOSE" \/ f \in AppFrames

LEMMA ErrCloseSends ==
    ASSUME NEW reason, state = "CONNECTED", ErrClose(reason)
    PROVE \E f : Sends(f)
<1>1. Sends(CloseFrame(reason))
  BY DEF ErrClose, Sends
<1> QED BY <1>1

LEMMA ParseSteps == Parse => Quiet \/ \E f : Sends(f)
<1> SUFFICES ASSUME Parse PROVE Quiet \/ \E f : Sends(f)
  OBVIOUS
<1>1. CASE Ignore
  BY <1>1 DEF Ignore, Quiet, sender
<1>2. CASE ParseOp
  <2> DEFINE err == OpError(Byte)
  <2>1. CASE err # "okay" /\ ErrClose(Reason(err))
    BY <1>2, <2>1, ErrCloseSends DEF ParseOp, Parsing
  <2>2. CASE UNCHANGED <<upgrade, sent, recv, state, utf8, got, sender>>
    BY <2>2 DEF Quiet, sender
  <2> HIDE DEF err
  <2> QED BY <1>2, <2>1, <2>2 DEF ParseOp, err
<1>3. CASE ParseLen
  <2>1. CASE ErrClose(Reason("EBADMSG"))
    BY <1>3, <2>1, ErrCloseSends DEF ParseLen, Parsing
  <2>2. CASE UNCHANGED <<upgrade, sent, recv, state, utf8, got, sender>>
    BY <2>2 DEF Quiet, sender
  <2> QED BY <1>3, <2>1, <2>2 DEF ParseLen
<1>4. CASE ParseLenExt
  <2>1. ASSUME NEW err, ErrClose(Reason(err)) PROVE \E f : Sends(f)
    BY <1>4, <2>1, ErrCloseSends DEF ParseLenExt, Parsing
  <2>2. CASE UNCHANGED <<upgrade, sent, recv, state, utf8, got, sender>>
    BY <2>2 DEF Quiet, sender
  <2> QED BY <1>4, <2>1, <2>2 DEF ParseLenExt
<1>5. CASE ParseKey
  BY <1>5 DEF ParseKey, Quiet, sender
<1>6. CASE ParsePayload
  <2>1. CASE ErrClose(Reason("EILSEQ"))
    BY <1>6, <2>1, ErrCloseSends DEF ParsePayload, Parsing
  <2>2. CASE UNCHANGED <<upgrade, sent, state, got, sender>>
    BY <2>2 DEF Quiet, sender
  <2> QED BY <1>6, <2>1, <2>2 DEF ParsePayload
<1> QED BY <1>1, <1>2, <1>3, <1>4, <1>5, <1>6 DEF Parse

LEMMA FinishSteps == Finish => Quiet \/ \E f : Sends(f)
<1> SUFFICES ASSUME Finish PROVE Quiet \/ \E f : Sends(f)
  OBVIOUS
<1>1. CASE DeliverOkay
  BY <1>1 DEF DeliverOkay, Quiet, sender
<1>2. CASE DeliverFails
  <2>1. Sends(CloseFrame(1002))
    BY <1>2 DEF DeliverFails, Complete, Sends
  <2> QED BY <2>1
<1>3. CASE Ping
  <2>1. Frame("PONG", recv[1]).op # "CLOSE"
    BY DEF Frame
  <2>2. Sends(Frame("PONG", recv[1]))
    BY <1>3, <2>1 DEF Ping, Complete, Sends
  <2> QED BY <2>2
<1>4. CASE Pong
  BY <1>4 DEF Pong, Quiet, sender
<1>5. CASE ClientClose
  <2> DEFINE okay == ReasonOkay(recv[1])
             f == IF okay THEN Frame("CLOSE", recv[1]) ELSE CloseFrame(1002)
  <2>1. SendNoCheck(f)
    BY <1>5 DEF ClientClose
  <2>2. state = "CONNECTED" /\ wire' = wire
    BY <1>5 DEF ClientClose, Complete
  <2>3. state' \in {"CLOSE_RECEIVED", "ERROR"}
    BY <1>5 DEF ClientClose
  <2> HIDE DEF f
  <2>4. Sends(f)
    BY <2>1, <2>2, <2>3 DEF Sends
  <2> QED BY <2>4
<1> QED BY <1>1, <1>2, <1>3, <1>4, <1>5 DEF Finish

\* Every step is of one of these kinds.
LEMMA SenderSteps ==
    ASSUME [Next]_wvars
    PROVE \/ Quiet \/ (\E f : Sends(f)) \/ Cleanup
          \/ \E k \in 0..Len(chain) : WriteOkay(k) \/ WriteBlocked(k)
<1>1. CASE Upgrade
  BY <1>1 DEF Upgrade, Quiet
<1>2. CASE UpgradeRefused
  BY <1>2 DEF UpgradeRefused, Quiet, sender
<1>3. ASSUME NEW n, Receive(n) PROVE Quiet
  BY <1>3 DEF Receive, Quiet, sender
<1>4. CASE AppSendRefused
  BY <1>4 DEF AppSendRefused, Quiet
<1>5. ASSUME NEW f \in AppFrames, AppSend(f) PROVE Sends(f)
  BY <1>5 DEF AppSend, Sends
<1>6. CASE WriteNothing
  BY <1>6 DEF WriteNothing, Quiet
<1>7. CASE UNCHANGED wvars
  BY <1>7 DEF wvars, Quiet
<1> QED BY <1>1, <1>2, <1>3, <1>4, <1>5, <1>6, <1>7, ParseSteps, FinishSteps DEF Next, App, Write

-----------------------------------------------------------------------------
(* The invariants are kept *)

LEMMA SenderQuiet ==
    ASSUME SenderInv, Quiet
    PROVE SenderInv'
<1>1. chain' = chain /\ tail' = tail /\ out' = out /\ wire' = wire
  BY DEF Quiet
<1>2. state' # "GONE" => state # "GONE"
  BY DEF Quiet
<1>3. Given' = Given /\ Queued' = Queued
  BY <1>1 DEF Given, Queued
<1> QED BY <1>1, <1>2, <1>3 DEF SenderInv, SenderType, ChainInv

\* A frame that carries nothing is not forgotten.
LEMMA EmptyStays ==
    ASSUME NEW G, NEW o \in Seq(G), NEW f
    PROVE SomeEmpty(Append(o, f)) = (SomeEmpty(o) \/ f.payload = "none" \/ Len(f.data) = 0)
<1> DEFINE a == Append(o, f)
<1>1. Len(a) = Len(o) + 1 /\ a[Len(o) + 1] = f /\ \A i \in 1..Len(o) : a[i] = o[i]
  BY Appended
<1>2. Len(o) \in Nat
  OBVIOUS
<1> HIDE DEF a
<1>3. 1..Len(a) = 1..Len(o) \cup {Len(o) + 1}
  BY <1>1, <1>2
<1> QED BY <1>1, <1>3 DEF SomeEmpty, a

LEMMA SenderSends ==
    ASSUME SenderInv, NEW f, Sends(f)
    PROVE SenderInv'
<1> DEFINE b == Buckets(Len(out) + 1, f)
<1>1. /\ wire \in Seq(Bucket) /\ chain \in Seq(Bucket) /\ out \in Seq(Given)
      /\ Queued = wire \o chain /\ Queued \in Seq(Bucket)
      /\ Len(out) \in Nat
  BY JoinAt DEF SenderInv, SenderType, Queued
<1>2. state # "GONE" /\ wire' = wire /\ out' = Append(out, f)
  BY DEF Sends, SendNoCheck
<1>3. out' \in Seq(Given')
  BY <1>1, <1>2, OutKept
<1>4. tail' = (f.payload # "none") /\ tail' \in BOOLEAN
  BY DEF Sends, SendNoCheck
<1>5. b \in Seq(Bucket)
  BY <1>1, MadeBuckets
<1>6. Whole(Queued, out)
  BY DEF SenderInv, ChainInv
<1>7. ~SomeEmpty(out') => ~SomeEmpty(out) /\ f.payload # "none"
  BY <1>1, <1>2, EmptyStays
<1>8. ~SomeEmpty(out) => (chain = << >> \/ tail) /\ AllQueued(Queued, out)
  BY <1>2 DEF SenderInv, ChainInv
<1>9. Queued' = wire \o chain'
  BY <1>2 DEF Queued
<1>10. CASE chain = << >> \/ tail
  <2>1. chain' = chain \o b
    BY <1>10 DEF Sends, SendNoCheck
  <2> HIDE DEF b
  <2>2. chain' \in Seq(Bucket)
    BY <1>1, <1>5, <2>1, JoinAt
  <2>3. Queued' = wire \o (chain \o b)
    BY <1>9, <2>1
  <2>4. /\ Queued' \in Seq(Bucket) /\ Len(Queued') = Len(Queued) + Len(b)
        /\ \A i \in 1..Len(Queued) : Queued'[i] = Queued[i]
        /\ \A i \in 1..Len(b) : Queued'[Len(Queued) + i] = b[i]
    <3> DEFINE q == wire \o chain
               r == wire \o (chain \o b)
    <3>1. /\ r \in Seq(Bucket) /\ Len(r) = Len(q) + Len(b)
          /\ \A i \in 1..Len(q) : r[i] = q[i]
          /\ \A i \in 1..Len(b) : r[Len(q) + i] = b[i]
      <4>1. wire \in Seq(Bucket) /\ chain \in Seq(Bucket) /\ b \in Seq(Bucket)
        BY <1>1, <1>5
      <4> QED BY <4>1, JoinLonger, SMTT(40)
    <3> HIDE DEF q, r
    <3>2. Queued' = r /\ Queued = q
      BY <1>1, <2>3 DEF q, r
    <3> QED BY <3>1, <3>2
  <2>5. Whole(Queued', out') /\ (AllQueued(Queued, out) => AllQueued(Queued', out'))
    BY <1>1, <1>2, <1>6, <2>4, FrameJoins DEF b
  <2> QED BY <1>2, <1>3, <1>4, <1>1, <1>7, <1>8, <2>2, <2>5 DEF SenderInv, SenderType, ChainInv
<1>11. CASE ~(chain = << >> \/ tail)
  <2>1. chain' = chain /\ Queued' = Queued
    BY <1>1, <1>9, <1>11 DEF Sends, SendNoCheck
  <2>2. SomeEmpty(out')
    BY <1>7, <1>8, <1>11
  <2>3. Whole(Queued', out')
    BY <1>1, <1>2, <1>6, <2>1, FrameMore
  <2> QED BY <1>1, <1>2, <1>3, <1>4, <2>1, <2>2, <2>3 DEF SenderInv, SenderType, ChainInv
<1> QED BY <1>10, <1>11

\* The chain is given up behind its k-th bucket: in ymo_proto_ws_write when
\* ymo_conn_send_buckets says that all is sent, in the cleanup with k = 0.
LEMMA SenderForgets ==
    ASSUME SenderInv, NEW k \in 0..Len(chain), out' = out,
           wire' = wire \o SubSeq(chain, 1, k), chain' = << >>, tail' = FALSE,
           (state' # "GONE" /\ ~SomeEmpty(out)) => k = Len(chain) /\ state # "GONE"
    PROVE SenderInv'
<1>1. /\ wire \in Seq(Bucket) /\ chain \in Seq(Bucket) /\ out \in Seq(Given)
      /\ Queued = wire \o chain /\ Queued \in Seq(Bucket)
  BY JoinAt DEF SenderInv, SenderType, Queued
<1>2. /\ wire' \in Seq(Bucket) /\ Len(wire') <= Len(Queued)
      /\ k = Len(chain) => Len(wire') = Len(Queued)
      /\ \A i \in 1..Len(wire') : wire'[i] = Queued[i]
  BY <1>1, JoinCut, SMTT(40)
<1>3. Queued' = wire' /\ << >> \in Seq(Bucket)
  BY <1>2 DEF Queued
<1>10. Whole(Queued', out)
  <2>1. Whole(Queued, out)
    BY DEF SenderInv, ChainInv
  <2> QED BY <1>1, <1>2, <1>3, <2>1, PrefixWhole
<1>11. ASSUME state' # "GONE", ~SomeEmpty(out) PROVE AllQueued(Queued', out)
  <2>1. AllQueued(Queued, out) /\ Len(Queued') = Len(Queued)
    BY <1>2, <1>3, <1>11 DEF SenderInv, ChainInv
  <2> QED BY <1>2, <1>3, <2>1 DEF AllQueued
<1>12. Given' = Given
  BY DEF Given
<1> QED BY <1>1, <1>2, <1>3, <1>10, <1>11, <1>12 DEF SenderInv, SenderType, ChainInv

\* The socket takes k buckets and is full.
LEMMA SenderBlocks ==
    ASSUME SenderInv, NEW k \in 0..Len(chain), WriteBlocked(k)
    PROVE SenderInv'
<1>1. /\ wire \in Seq(Bucket) /\ chain \in Seq(Bucket) /\ out \in Seq(Given)
      /\ Queued = wire \o chain
  BY DEF SenderInv, SenderType, Queued
<1>2. /\ wire' = wire \o SubSeq(chain, 1, k) /\ chain' = SubSeq(chain, k + 1, Len(chain))
      /\ out' = out /\ tail' = tail /\ state' = state
  BY DEF WriteBlocked
<1>3. wire' \in Seq(Bucket) /\ chain' \in Seq(Bucket)
  BY <1>1, <1>2, JoinCut, CutAt
<1>4. Queued' = Queued
  BY <1>1, <1>2, JoinMove DEF Queued
<1>5. chain = << >> => chain' = << >>
  BY <1>1, <1>2
<1>6. Given' = Given
  BY <1>2 DEF Given
<1> QED BY <1>1, <1>2, <1>3, <1>4, <1>5, <1>6 DEF SenderInv, SenderType, ChainInv

LEMMA SenderKept == SenderInv /\ [Next]_wvars => SenderInv'
<1> SUFFICES ASSUME SenderInv, [Next]_wvars PROVE SenderInv'
  OBVIOUS
<1>1. ASSUME NEW k \in 0..Len(chain), WriteOkay(k) PROVE SenderInv'
  <2>1. /\ out' = out /\ wire' = wire \o SubSeq(chain, 1, k) /\ chain' = << >> /\ tail' = FALSE
        /\ state' = state
        /\ k = Len(chain) \/ (k < Len(chain) /\ chain[k + 1].empty)
    BY <1>1 DEF WriteOkay, parser
  <2>2. ASSUME ~SomeEmpty(out), k # Len(chain) PROVE FALSE
    <3>1. wire \in Seq(Bucket) /\ chain \in Seq(Bucket)
      BY DEF SenderInv, SenderType
    <3>2. k + 1 \in 1..Len(chain) /\ chain[k + 1].empty
      BY <2>1, <2>2, <3>1
    <3>3. /\ Len(Queued) = Len(wire) + Len(chain)
          /\ Queued[Len(wire) + (k + 1)] = chain[k + 1]
      BY <3>1, <3>2, JoinAt DEF Queued
    <3>4. Len(wire) + (k + 1) \in 1..Len(Queued)
      BY <3>1, <3>2, <3>3
    <3>5. Known(Queued, out)
      BY DEF SenderInv, ChainInv, Whole
    <3>6. PICK i \in 1..Len(Queued) : Queued[i].empty
      BY <3>2, <3>3, <3>4
    <3>7. Queued[i].n \in 1..Len(out) /\ Len(out[Queued[i].n].data) = 0
      BY <3>5, <3>6 DEF Known
    <3> QED BY <2>2, <3>7 DEF SomeEmpty
  <2>3. (state' # "GONE" /\ ~SomeEmpty(out)) => k = Len(chain) /\ state # "GONE"
    BY <2>1, <2>2
  <2> QED BY <2>1, <2>3, SenderForgets
<1>2. ASSUME NEW k \in 0..Len(chain), WriteBlocked(k) PROVE SenderInv'
  BY <1>2, SenderBlocks
<1>3. CASE Cleanup
  <2>1. /\ out' = out /\ wire' = wire /\ chain' = << >> /\ tail' = FALSE /\ state' = "GONE"
    BY <1>3 DEF Cleanup, parser
  <2>2. wire \in Seq(Bucket) /\ chain \in Seq(Bucket)
    BY DEF SenderInv, SenderType
  <2>3. SubSeq(chain, 1, 0) = << >> /\ 0 \in 0..Len(chain)
    BY <2>2
  <2>4. wire' = wire \o SubSeq(chain, 1, 0)
    BY <2>1, <2>2, <2>3
  <2> QED BY <2>1, <2>3, <2>4, SenderForgets
<1> QED BY <1>1, <1>2, <1>3, SenderSteps, SenderQuiet, SenderSends

LEMMA SenderStarts == Init => SenderInv
<1> SUFFICES ASSUME Init PROVE SenderInv
  OBVIOUS
<1>1. out = << >> /\ chain = << >> /\ wire = << >> /\ tail = FALSE
  BY DEF Init
<1>2. Queued = << >> /\ Len(<< >>) = 0 /\ Given = {} /\ << >> \in Seq(Bucket) /\ << >> \in Seq(Given)
  BY <1>1 DEF Queued, Given
<1>3. 1..0 = {}
  OBVIOUS
<1> QED BY <1>1, <1>2, <1>3
        DEF SenderInv, SenderType, ChainInv, Whole, Ordered, Paired, Known, AllQueued

\* In every session, whatever the client and the application send and however
\* the socket cuts the chain: the buckets queued or sent are those of the frames
\* given to ymo_ws_session_send_no_check, in order and each payload behind its
\* own header; without a frame that carries nothing none is missing.
THEOREM FramesStayWhole == Spec => []SenderInv
BY SenderStarts, SenderKept, PTL DEF Spec

LEMMA CloseKept ==
    ASSUME \A f \in AppFrames : f.op # "CLOSE", SenderInv, CloseInv, [Next]_wvars
    PROVE CloseInv'
<1>1. ASSUME out' = out, state' \in {"HTTP", "CONNECTED"} => state \in {"HTTP", "CONNECTED"}
      PROVE CloseInv'
  BY <1>1 DEF CloseInv
<1>2. CASE Quiet
  BY <1>1, <1>2 DEF Quiet
<1>3. CASE Cleanup
  BY <1>1, <1>3 DEF Cleanup
<1>4. ASSUME NEW k, WriteOkay(k) \/ WriteBlocked(k) PROVE CloseInv'
  BY <1>1, <1>4 DEF WriteOkay, WriteBlocked
<1>5. ASSUME NEW f, Sends(f) PROVE CloseInv'
  <2>1. out \in Seq(Given) /\ out' = Append(out, f) /\ state = "CONNECTED"
    BY <1>5 DEF Sends, SendNoCheck, SenderInv, SenderType
  <2>2. /\ Len(out') = Len(out) + 1 /\ out'[Len(out) + 1] = f
        /\ \A i \in 1..Len(out) : out'[i] = out[i]
    BY <2>1, Appended
  <2>3. \A i \in 1..Len(out') : i \in 1..Len(out) \/ i = Len(out')
    BY <2>1, <2>2
  <2>4. \A i \in 1..Len(out) : out[i].op # "CLOSE"
    BY <2>1 DEF CloseInv
  <2>5. state' \in {"HTTP", "CONNECTED"} => f.op # "CLOSE"
    BY <1>5 DEF Sends
  <2> QED BY <2>2, <2>3, <2>4, <2>5 DEF CloseInv
<1> QED BY <1>2, <1>3, <1>4, <1>5, SenderSteps

LEMMA CloseStarts == Init => CloseInv
<1> SUFFICES ASSUME Init PROVE CloseInv
  OBVIOUS
<1>1. out = << >> /\ 1..Len(<< >>) = {}
  BY DEF Init
<1> QED BY <1>1 DEF CloseInv

\* The property follows: DOMAIN is 1..Len, and a frame that carries nothing
\* excuses.
LEMMA SenderImplies == SenderInv /\ CloseInv => FramesInOrder
<1> SUFFICES ASSUME SenderInv, CloseInv PROVE FramesInOrder
  OBVIOUS
<1>1. /\ DOMAIN out = 1..Len(out) /\ DOMAIN Queued = 1..Len(Queued)
  BY JoinAt DEF SenderInv, SenderType, Queued
<1>2. DOMAIN FrameOrder = 1..Len(Queued) /\ \A i \in 1..Len(Queued) : FrameOrder[i] = Queued[i].n
  BY <1>1, SMTT(40) DEF FrameOrder
<1>3. \A i \in DOMAIN out : out[i].op = "CLOSE" => i = Len(out)
  BY <1>1 DEF CloseInv
<1>4. \A i, j \in DOMAIN FrameOrder : i < j => FrameOrder[i] <= FrameOrder[j]
  BY <1>2 DEF SenderInv, ChainInv, Whole, Ordered
<1>5. \A i \in DOMAIN Queued : Queued[i].kind = "payload" =>
          i > 1 /\ Queued[i - 1] = [n |-> Queued[i].n, kind |-> "hdr", empty |-> FALSE]
  BY <1>1 DEF SenderInv, ChainInv, Whole, Paired, Hdr
<1>6. Excused = SomeEmpty(out)
  BY <1>1 DEF Excused, SomeEmpty
<1>7. ~Excused /\ state # "GONE" => \A n \in DOMAIN out : \E i \in DOMAIN Queued : Queued[i].n = n
  BY <1>1, <1>6 DEF SenderInv, ChainInv, AllQueued
<1> QED BY <1>3, <1>4, <1>5, <1>7 DEF FramesInOrder

\* Frames leave in order and whole, none is missing that need not be, and a close
\* frame is the last of its session, if the application leaves closing to the
\* session: ymo_ws_session_send takes YMO_WS_OP_CLOSE like any other and the
\* session stays connected.
THEOREM FramesStayInOrder ==
    ASSUME \A f \in AppFrames : f.op # "CLOSE"
    PROVE Spec => []FramesInOrder
<1>1. SenderInv /\ CloseInv /\ [Next]_wvars => (SenderInv /\ CloseInv)'
  BY SenderKept, CloseKept
<1>2. Init => SenderInv /\ CloseInv
  BY SenderStarts, CloseStarts
<1> QED BY <1>1, <1>2, SenderImplies, PTL DEF Spec
=============================================================================
