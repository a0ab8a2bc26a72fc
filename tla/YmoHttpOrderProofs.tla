------------------------- MODULE YmoHttpOrderProofs -------------------------
(***************************************************************************)
(* Theorems about the output of YmoHttpSession, for every number of        *)
(* requests, body items and queued responses and every set of requests:    *)
(* the framing of what is sent is exact, and the session implements        *)
(* YmoResponses: every request is answered once and in order.              *)
(***************************************************************************)
EXTENDS YmoHttpSessionProofs

-----------------------------------------------------------------------------
(* The inductive invariant *)

\* Everything that was handed to the connection or waits in the send buffer.
Sent == wire \o sbuf

ItemsOf(s, r) == {i \in DOMAIN s : s[i].rank = r /\ s[i].kind = "item"}
Ordered(s) == \A i, j \in 1..Len(s) : i < j => s[i].rank <= s[j].rank

\* FramingExact without its last part, and with the Content-Length exact from
\* the beginning: the items of a response with a total come with its head.
Framed(s) ==
    /\ \A i \in 1..Len(s) :
          s[i].kind = "head" <=> \A j \in 1..(i - 1) : s[j].rank # s[i].rank
    /\ \A i, j \in 1..Len(s) :
          i < j /\ s[i].rank = s[j].rank => s[i].kind # "term" /\ s[i].frame = s[j].frame
    /\ \A i \in 1..Len(s) :
          s[i].kind = "head" /\ s[i].frame = "total" =>
             Cardinality(ItemsOf(s, s[i].rank)) = s[i].total

\* A response with chunks ends with the last chunk, unless it is still first in
\* the list.
Ended(s, R) ==
    \A i \in 1..Len(s) :
        s[i].kind = "head" /\ s[i].frame = "chunked" =>
           s[i].rank \in R \/ \E j \in 1..Len(s) : s[j].rank = s[i].rank /\ s[j].kind = "term"

\* What the output s has of the response p, the first of the list.
Begins(s, p) ==
    /\ \A i \in 1..Len(s) :
          /\ s[i].rank <= p.rank
          /\ s[i].rank = p.rank =>
                /\ "STARTED" \in p.flags
                /\ s[i].frame = p.frame
                /\ s[i].kind = "term" => "TERM" \in p.flags
    /\ "STARTED" \in p.flags => \E i \in 1..Len(s) : s[i].rank = p.rank
    /\ "TERM" \in p.flags => \E i \in 1..Len(s) : s[i].rank = p.rank /\ s[i].kind = "term"

StreamInv ==
    /\ Ordered(Sent) /\ Framed(Sent)
    /\ queue = << >> => Ended(Sent, {})
    /\ queue # << >> => Ended(Sent, {First.rank}) /\ Begins(Sent, First)

\* A response of rank b may come after one of rank a: no final response is
\* left out.
Succeeds(a, b) == b > a /\ b <= 2 * (a \div 2) + 2

\* The rank of the response that was queued last.
LastQueued == IF queue = << >> THEN LastRank ELSE resp[queue[Len(queue)]].rank

\* The ranks in the list go on where the output is.
Chained ==
    /\ queue # << >> => First.rank = LastRank \/ Succeeds(LastRank, First.rank)
    /\ \A i \in 1..(Len(queue) - 1) : Succeeds(resp[queue[i]].rank, resp[queue[i + 1]].rank)

OrderInv ==
    /\ Chained
    /\ Own => Succeeds(LastQueued, 2 * nreq)
    /\ ~Own /\ sstate # "ERROR" => LastQueued = 2 * nreq

-----------------------------------------------------------------------------
(* What the output of one response does to the output so far *)

LEMMA PieceTypes ==
    ASSUME NEW s \in Seq(Pieces)
    PROVE  /\ Len(s) \in Nat /\ DOMAIN s = 1..Len(s)
           /\ \A i \in 1..Len(s) : s[i] \in Pieces /\ s[i].rank \in Nat
<1>1. Len(s) \in Nat /\ DOMAIN s = 1..Len(s) /\ \A i \in 1..Len(s) : s[i] \in Pieces
  BY LenProperties, ElementOfSeq
<1> QED
  BY <1>1 DEF Pieces

\* The sequence t is s and then, of one response of rank r: h heads, b items and
\* e last chunks.
Continues(s, t, h, b, e, r, fr) ==
    /\ h \in {0, 1} /\ b \in Nat /\ e \in {0, 1} /\ r \in Nat
    /\ Len(t) = Len(s) + h + b + e
    /\ \A i \in 1..Len(s) : t[i] = s[i]
    /\ \A i \in 1..Len(t) : i > Len(s) =>
          /\ t[i].rank = r /\ t[i].frame = fr
          /\ t[i].kind = "head" <=> h = 1 /\ i = Len(s) + 1
          /\ t[i].kind = "item" <=> i > Len(s) + h /\ i <= Len(s) + h + b
          /\ t[i].kind = "term" <=> i > Len(s) + h + b
          /\ t[i].kind = "head" => t[i].total = IF fr = "total" THEN b ELSE 0

LEMMA OutputContinues ==
    ASSUME NEW s \in Seq(Pieces), NEW p \in Response, NEW q \in Response
    PROVE  /\ s \o Output(p, q) \in Seq(Pieces)
           /\ Continues(s, s \o Output(p, q), Heads(p), q.body, Terms(q), q.rank, q.frame)
<1> DEFINE o == Output(p, q)
           t == s \o Output(p, q)
<1>1. /\ o \in Seq(Pieces) /\ Len(o) = Heads(p) + q.body + Terms(q)
      /\ \A m \in 1..Len(o) :
            /\ o[m].rank = q.rank /\ o[m].frame = q.frame
            /\ o[m].kind = "head" <=> Heads(p) = 1 /\ m = 1
            /\ o[m].kind = "item" <=> m > Heads(p) /\ m <= Heads(p) + q.body
            /\ o[m].kind = "term" <=> m > Heads(p) + q.body
            /\ o[m].kind = "head" => o[m].total = IF q.frame = "total" THEN q.body ELSE 0
  BY OutputFacts
<1>2. /\ Heads(p) \in {0, 1} /\ Terms(q) \in {0, 1}
  BY DEF Heads, Terms
<1>3. q.body \in Nat /\ q.rank \in Nat
  BY DEF Response
<1> HIDE DEF o
<1>4. /\ t \in Seq(Pieces) /\ Len(t) = Len(s) + Len(o)
      /\ \A i \in 1..(Len(s) + Len(o)) : t[i] = IF i <= Len(s) THEN s[i] ELSE o[i - Len(s)]
  BY <1>1, ConcatProperties DEF o
<1>5. Len(s) \in Nat /\ Len(o) \in Nat
  BY <1>1, LenProperties
<1> HIDE DEF t
<1>6. \A i \in 1..Len(s) : t[i] = s[i]
  BY <1>4, <1>5
<1>7. ASSUME NEW i \in 1..Len(t), i > Len(s)
      PROVE  i - Len(s) \in 1..Len(o) /\ t[i] = o[i - Len(s)]
  BY <1>4, <1>5, <1>7
<1>8. ASSUME NEW i \in 1..Len(t), i > Len(s)
      PROVE  /\ t[i].rank = q.rank /\ t[i].frame = q.frame
             /\ t[i].kind = "head" <=> Heads(p) = 1 /\ i = Len(s) + 1
             /\ t[i].kind = "item" <=> i > Len(s) + Heads(p) /\ i <= Len(s) + Heads(p) + q.body
             /\ t[i].kind = "term" <=> i > Len(s) + Heads(p) + q.body
             /\ t[i].kind = "head" => t[i].total = IF q.frame = "total" THEN q.body ELSE 0
  <2> DEFINE m == i - Len(s)
  <2>1. /\ m \in 1..Len(o) /\ t[i] = o[m]
        /\ o[m].rank = q.rank /\ o[m].frame = q.frame
        /\ o[m].kind = "head" <=> Heads(p) = 1 /\ m = 1
        /\ o[m].kind = "item" <=> m > Heads(p) /\ m <= Heads(p) + q.body
        /\ o[m].kind = "term" <=> m > Heads(p) + q.body
        /\ o[m].kind = "head" => o[m].total = IF q.frame = "total" THEN q.body ELSE 0
    BY <1>1, <1>7, <1>8
  <2>2. /\ m = 1 <=> i = Len(s) + 1
        /\ m > Heads(p) <=> i > Len(s) + Heads(p)
        /\ m <= Heads(p) + q.body <=> i <= Len(s) + Heads(p) + q.body
        /\ m > Heads(p) + q.body <=> i > Len(s) + Heads(p) + q.body
    <3>1. i \in Int /\ Len(s) \in Int /\ Heads(p) \in Int /\ q.body \in Int
      BY <1>2, <1>3, <1>5
    <3> QED
      BY <3>1
  <2> HIDE DEF m
  <2> QED
    BY <2>1, <2>2
<1>9. Len(t) = Len(s) + Heads(p) + q.body + Terms(q)
  <2>1. Heads(p) \in Nat /\ Terms(q) \in Nat
    BY <1>2
  <2>2. Len(t) = Len(s) + Len(o) /\ Len(o) = Heads(p) + q.body + Terms(q)
    BY <1>1, <1>4
  <2> QED
    BY <1>3, <1>5, <2>1, <2>2
<1>10. Continues(s, t, Heads(p), q.body, Terms(q), q.rank, q.frame)
  BY <1>2, <1>3, <1>6, <1>8, <1>9 DEF Continues
<1> QED
  BY <1>4, <1>10 DEF t, o

\* Every piece of the longer sequence is an old one or a new one.
LEMMA OldOrNew ==
    ASSUME NEW s \in Seq(Pieces), NEW t \in Seq(Pieces), NEW h, NEW b, NEW e, NEW r, NEW fr,
           Continues(s, t, h, b, e, r, fr), NEW i \in 1..Len(t)
    PROVE  /\ i \in Nat /\ Len(s) \in Nat /\ Len(t) \in Nat
           /\ \/ i <= Len(s) /\ i \in 1..Len(s) /\ t[i] = s[i]
              \/ i > Len(s) /\ t[i].rank = r /\ t[i].frame = fr
<1>1. Len(s) \in Nat /\ Len(t) \in Nat
  BY LenProperties
<1>2. i \in Nat /\ (i <= Len(s) \/ i > Len(s))
  BY <1>1
<1>3. CASE i <= Len(s)
  <2>1. i \in 1..Len(s)
    BY <1>1, <1>3
  <2> QED
    BY <1>1, <1>2, <1>3, <2>1 DEF Continues
<1>4. CASE i > Len(s)
  BY <1>1, <1>2, <1>4 DEF Continues
<1> QED
  BY <1>2, <1>3, <1>4

LEMMA OrderedGrows ==
    ASSUME NEW s \in Seq(Pieces), NEW t \in Seq(Pieces), NEW h, NEW b, NEW e, NEW r, NEW fr,
           Continues(s, t, h, b, e, r, fr), Ordered(s), \A i \in 1..Len(s) : s[i].rank <= r
    PROVE  Ordered(t)
<1> SUFFICES ASSUME NEW i \in 1..Len(t), NEW j \in 1..Len(t), i < j
             PROVE  t[i].rank <= t[j].rank
  BY DEF Ordered
<1>1. CASE j <= Len(s)
  <2>1. i <= Len(s) /\ i \in 1..Len(s) /\ j \in 1..Len(s) /\ t[i] = s[i] /\ t[j] = s[j]
    BY <1>1, OldOrNew
  <2> QED
    BY <2>1 DEF Ordered
<1>2. CASE j > Len(s)
  <2>1. t[j].rank = r /\ r \in Nat
    BY <1>2, OldOrNew DEF Continues
  <2>2. t[i].rank = r \/ (i \in 1..Len(s) /\ t[i] = s[i])
    BY OldOrNew
  <2> QED
    BY <2>1, <2>2
<1> QED
  BY <1>1, <1>2, OldOrNew

\* The response may add its output: it has sent nothing if it sends its head
\* now; otherwise it keeps its framing, adds nothing after the last chunk and no
\* items to a total.
MayAdd(s, h, b, e, r, fr) ==
    /\ h = 1 => \A i \in 1..Len(s) : s[i].rank # r
    /\ h = 0 => /\ \E i \in 1..Len(s) : s[i].rank = r
                /\ fr = "total" => b = 0
    /\ \A i \in 1..Len(s) : s[i].rank = r =>
          /\ s[i].frame = fr
          /\ s[i].kind = "term" => b = 0 /\ e = 0

LEMMA HeadsGrow ==
    ASSUME NEW s \in Seq(Pieces), NEW t \in Seq(Pieces), NEW h, NEW b, NEW e, NEW r, NEW fr,
           Continues(s, t, h, b, e, r, fr), Framed(s), MayAdd(s, h, b, e, r, fr),
           NEW i \in 1..Len(t)
    PROVE  t[i].kind = "head" <=> \A j \in 1..(i - 1) : t[j].rank # t[i].rank
<1>1. Len(s) \in Nat /\ Len(t) \in Nat /\ i \in Nat
  BY OldOrNew
<1>2. CASE i <= Len(s)
  <2>1. /\ i \in 1..Len(s) /\ t[i] = s[i]
        /\ s[i].kind = "head" <=> \A j \in 1..(i - 1) : s[j].rank # s[i].rank
    BY <1>2, OldOrNew, SMTT(40) DEF Framed
  <2>2. \A j \in 1..(i - 1) : t[j] = s[j]
    <3>1. \A j \in 1..(i - 1) : j \in 1..Len(s)
      BY <1>1, <1>2
    <3> QED
      BY <3>1 DEF Continues
  <2> QED
    BY <2>1, <2>2
<1>3. CASE i > Len(s) /\ h = 1 /\ i = Len(s) + 1
  <2>1. t[i].rank = r /\ t[i].kind = "head"
    BY <1>3 DEF Continues
  <2>2. ASSUME NEW j \in 1..(i - 1) PROVE t[j].rank # r
    <3>1. j \in 1..Len(s)
      BY <1>1, <1>3
    <3> QED
      BY <1>3, <3>1 DEF Continues, MayAdd
  <2> QED
    BY <2>1, <2>2
<1>4. CASE i > Len(s) /\ h = 1 /\ i # Len(s) + 1
  <2>1. t[i].rank = r /\ t[i].kind # "head"
    BY <1>4 DEF Continues
  <2>2. /\ Len(s) + 1 \in 1..Len(t) /\ Len(s) + 1 > Len(s) /\ Len(s) + 1 \in 1..(i - 1)
    BY <1>1, <1>4
  <2>3. t[Len(s) + 1].rank = r
    BY <2>2 DEF Continues
  <2> QED
    BY <2>1, <2>2, <2>3
<1>5. CASE i > Len(s) /\ h = 0
  <2>1. t[i].rank = r /\ t[i].kind # "head"
    BY <1>5 DEF Continues
  <2>2. PICK k \in 1..Len(s) : s[k].rank = r
    BY <1>5 DEF MayAdd
  <2>3. k \in 1..(i - 1)
    BY <1>1, <1>5
  <2>4. t[k].rank = r
    BY <2>2 DEF Continues
  <2> QED
    BY <2>1, <2>3, <2>4
<1>6. h = 0 \/ h = 1
  BY DEF Continues
<1> QED
  BY <1>1, <1>2, <1>3, <1>4, <1>5, <1>6

LEMMA FramesGrow ==
    ASSUME NEW s \in Seq(Pieces), NEW t \in Seq(Pieces), NEW h, NEW b, NEW e, NEW r, NEW fr,
           Continues(s, t, h, b, e, r, fr), Framed(s), MayAdd(s, h, b, e, r, fr),
           NEW i \in 1..Len(t), NEW j \in 1..Len(t), i < j, t[i].rank = t[j].rank
    PROVE  t[i].kind # "term" /\ t[i].frame = t[j].frame
<1>1. Len(s) \in Nat /\ Len(t) \in Nat /\ i \in Nat /\ j \in Nat
  BY OldOrNew
<1>2. h \in Nat /\ b \in Nat /\ e \in {0, 1} /\ Len(t) = Len(s) + h + b + e
  BY DEF Continues
<1>3. CASE j <= Len(s)
  <2>1. i <= Len(s)
    BY <1>1, <1>3
  <2>2. i \in 1..Len(s) /\ j \in 1..Len(s) /\ t[i] = s[i] /\ t[j] = s[j]
    BY <1>1, <1>3, <2>1, OldOrNew
  <2> QED
    BY <2>2 DEF Framed
<1>4. CASE i > Len(s)
  <2>1. j > Len(s)
    BY <1>1, <1>4
  <2>2. /\ t[i].frame = fr /\ t[j].frame = fr
        /\ t[i].kind = "term" <=> i > Len(s) + h + b
    BY <1>4, <2>1 DEF Continues
  <2>3. ~(i > Len(s) + h + b)
    BY <1>1, <1>2
  <2> QED
    BY <2>2, <2>3
<1>5. CASE i <= Len(s) /\ j > Len(s)
  <2>1. i \in 1..Len(s) /\ t[i] = s[i] /\ t[j].rank = r /\ t[j].frame = fr
    BY <1>1, <1>5, OldOrNew
  <2>2. s[i].rank = r
    BY <2>1
  <2>3. /\ s[i].frame = fr /\ (s[i].kind = "term" => b = 0 /\ e = 0) /\ h # 1
    BY <2>1, <2>2 DEF MayAdd
  <2>4. h = 0
    BY <2>3 DEF Continues
  <2>5. ~(b = 0 /\ e = 0)
    BY <1>1, <1>2, <1>5, <2>4
  <2> QED
    BY <2>1, <2>3, <2>5
<1> QED
  BY <1>1, <1>3, <1>4, <1>5

LEMMA ItemsGrow ==
    ASSUME NEW s \in Seq(Pieces), NEW t \in Seq(Pieces), NEW h, NEW b, NEW e, NEW r, NEW fr,
           Continues(s, t, h, b, e, r, fr), NEW x, x # r \/ b = 0
    PROVE  ItemsOf(t, x) = ItemsOf(s, x)
<1>1. /\ Len(s) \in Nat /\ Len(t) \in Nat /\ DOMAIN s = 1..Len(s) /\ DOMAIN t = 1..Len(t)
  BY LenProperties
<1>2. h \in Nat /\ b \in Nat /\ e \in Nat /\ Len(t) = Len(s) + h + b + e
  BY DEF Continues
<1>3. ASSUME NEW i \in 1..Len(s) PROVE i \in 1..Len(t) /\ t[i] = s[i]
  BY <1>1, <1>2 DEF Continues
<1>4. ASSUME NEW i \in 1..Len(t), t[i].rank = x, t[i].kind = "item" PROVE i \in 1..Len(s)
  <2>1. CASE i > Len(s)
    <3>1. t[i].rank = r /\ i > Len(s) + h /\ i <= Len(s) + h + b
      BY <1>4, <2>1 DEF Continues
    <3> QED
      BY <1>1, <1>2, <1>4, <3>1
  <2> QED
    BY <1>1, <2>1
<1> QED
  BY <1>1, <1>3, <1>4 DEF ItemsOf

LEMMA TotalGrows ==
    ASSUME NEW s \in Seq(Pieces), NEW t \in Seq(Pieces), NEW h, NEW b, NEW e, NEW r, NEW fr,
           Continues(s, t, h, b, e, r, fr), Framed(s), MayAdd(s, h, b, e, r, fr),
           NEW i \in 1..Len(t), t[i].kind = "head", t[i].frame = "total"
    PROVE  Cardinality(ItemsOf(t, t[i].rank)) = t[i].total
<1>1. Len(s) \in Nat /\ Len(t) \in Nat /\ i \in Nat /\ DOMAIN t = 1..Len(t)
  BY OldOrNew, LenProperties
<1>2. h \in {0, 1} /\ b \in Nat /\ e \in {0, 1} /\ Len(t) = Len(s) + h + b + e
  BY DEF Continues
<1>3. CASE i <= Len(s)
  <2>1. i \in 1..Len(s) /\ t[i] = s[i]
    BY <1>3, OldOrNew
  <2>2. Cardinality(ItemsOf(s, s[i].rank)) = s[i].total
    BY <2>1 DEF Framed
  <2>3. s[i].rank # r \/ b = 0
    <3>1. CASE s[i].rank = r
      <4>1. h # 1 /\ fr = "total"
        BY <2>1, <3>1 DEF MayAdd
      <4> QED
        BY <1>2, <4>1 DEF MayAdd
    <3> QED
      BY <3>1
  <2> QED
    BY <2>1, <2>2, <2>3, ItemsGrow
<1>4. CASE i > Len(s)
  <2>1. h = 1 /\ i = Len(s) + 1 /\ t[i].rank = r /\ t[i].total = b
    BY <1>4 DEF Continues
  <2>2. \A k \in 1..Len(s) : s[k].rank # r
    BY <2>1 DEF MayAdd
  <2> DEFINE J == (Len(s) + 2)..(Len(s) + 1 + b)
  <2>3. ASSUME NEW k PROVE (k \in 1..Len(t) /\ t[k].rank = r /\ t[k].kind = "item") <=> k \in J
    <3>1. CASE k \in 1..Len(t) /\ k > Len(s)
      <4>1. t[k].rank = r /\ (t[k].kind = "item" <=> k > Len(s) + h /\ k <= Len(s) + h + b)
        BY <3>1 DEF Continues
      <4> QED
        BY <1>1, <1>2, <2>1, <3>1, <4>1
    <3>2. CASE k \in 1..Len(t) /\ ~(k > Len(s))
      <4>1. k \in 1..Len(s) /\ t[k] = s[k]
        BY <3>2, OldOrNew
      <4> QED
        BY <1>1, <2>2, <4>1
    <3>3. CASE k \notin 1..Len(t)
      BY <1>1, <1>2, <2>1, <3>3
    <3> QED
      BY <3>1, <3>2, <3>3
  <2>4. ItemsOf(t, r) = J
    <3> HIDE DEF J
    <3> QED
      BY <1>1, <2>3 DEF ItemsOf
  <2>5. Cardinality(J) = b
    <3>1. Len(s) + 2 \in Int /\ Len(s) + 1 + b \in Int
      BY <1>1, <1>2
    <3>2. Cardinality(J) = IF Len(s) + 2 > Len(s) + 1 + b THEN 0
                           ELSE (Len(s) + 1 + b) - (Len(s) + 2) + 1
      BY <3>1, FS_Interval
    <3> QED
      BY <1>1, <1>2, <3>2
  <2> QED
    BY <2>1, <2>4, <2>5
<1> QED
  BY <1>1, <1>3, <1>4

LEMMA FramedGrows ==
    ASSUME NEW s \in Seq(Pieces), NEW t \in Seq(Pieces), NEW h, NEW b, NEW e, NEW r, NEW fr,
           Continues(s, t, h, b, e, r, fr), Framed(s), MayAdd(s, h, b, e, r, fr)
    PROVE  Framed(t)
BY HeadsGrow, FramesGrow, TotalGrows DEF Framed

\* What was ended stays ended.
LEMMA EndedGrows ==
    ASSUME NEW s \in Seq(Pieces), NEW t \in Seq(Pieces), NEW h, NEW b, NEW e, NEW r, NEW fr,
           Continues(s, t, h, b, e, r, fr), Ended(s, {r})
    PROVE  Ended(t, {r})
<1> SUFFICES ASSUME NEW i \in 1..Len(t), t[i].kind = "head", t[i].frame = "chunked",
                    t[i].rank # r
             PROVE  \E j \in 1..Len(t) : t[j].rank = t[i].rank /\ t[j].kind = "term"
  BY DEF Ended
<1>1. i \in 1..Len(s) /\ t[i] = s[i]
  BY OldOrNew
<1>2. PICK j \in 1..Len(s) : s[j].rank = s[i].rank /\ s[j].kind = "term"
  BY <1>1 DEF Ended
<1>3. j \in 1..Len(t) /\ t[j] = s[j]
  <2>1. Len(s) \in Nat /\ h \in Nat /\ b \in Nat /\ e \in Nat /\ Len(t) = Len(s) + h + b + e
    BY LenProperties DEF Continues
  <2>2. j \in 1..Len(t)
    BY <2>1
  <2> QED
    BY <2>2 DEF Continues
<1> QED
  BY <1>1, <1>2, <1>3

\* The first response may add its output to what was sent.
LEMMA StartedMayAdd ==
    ASSUME NEW s \in Seq(Pieces), NEW p \in Response, Consistent(p), Begins(s, p)
    PROVE  MayAdd(s, Heads(p), Start(p).body, Terms(Start(p)), Start(p).rank, Start(p).frame)
<1> DEFINE q == Start(p)
<1>1. /\ q \in Response /\ q.rank = p.rank /\ q.body = p.body
      /\ "STARTED" \in p.flags => q = p
  BY StartKeeps
<1> HIDE DEF q
<1>2. CASE "STARTED" \notin p.flags
  <2>1. \A i \in 1..Len(s) : s[i].rank # p.rank
    BY <1>2 DEF Begins
  <2>2. Heads(p) = 1
    BY <1>2 DEF Heads
  <2> QED
    BY <1>1, <2>1, <2>2 DEF MayAdd, q
<1>3. CASE "STARTED" \in p.flags
  <2>1. Heads(p) = 0 /\ q = p
    BY <1>1, <1>3 DEF Heads
  <2>2. \E i \in 1..Len(s) : s[i].rank = p.rank
    BY <1>3 DEF Begins
  <2>3. p.frame = "total" => p.body = 0
    BY DEF Consistent
  <2>4. "TERM" \in p.flags => p.body = 0 /\ Terms(p) = 0
    BY DEF Consistent, Terms
  <2>5. \A i \in 1..Len(s) : s[i].rank = p.rank =>
           s[i].frame = p.frame /\ (s[i].kind = "term" => "TERM" \in p.flags)
    BY DEF Begins
  <2> QED
    BY <2>1, <2>2, <2>3, <2>4, <2>5 DEF MayAdd, q
<1> QED
  BY <1>2, <1>3

\* After its output, what was sent has all of it.
LEMMA BeginsGrows ==
    ASSUME NEW s \in Seq(Pieces), NEW t \in Seq(Pieces), NEW p \in Response, Consistent(p),
           p.status, Begins(s, p),
           Continues(s, t, Heads(p), Start(p).body, Terms(Start(p)), Start(p).rank,
                     Start(p).frame)
    PROVE  Begins(t, Emptied(Start(p)))
<1> DEFINE q == Start(p)
           e == Emptied(Start(p))
<1>1. /\ q \in Response /\ q.rank = p.rank /\ q.body = p.body
      /\ "STARTED" \in p.flags => q = p
  BY StartKeeps
<1>2. /\ "TERM" \in Flags \ {"STARTED", "CHUNKED"} /\ "COMPLETE" \in Flags \ {"STARTED", "CHUNKED"}
  BY DEF Flags
<1>3. "TERM" \in q.flags <=> "TERM" \in p.flags
  BY <1>2, StartKeeps
<1>4. /\ e.rank = p.rank /\ e.frame = q.frame /\ "STARTED" \in e.flags
      /\ "TERM" \in e.flags <=> "COMPLETE" \in q.flags /\ "CHUNKED" \in q.flags
  BY EmptiedKeeps
<1>5. p.rank \in Nat /\ q.body \in Nat
  BY <1>1 DEF Response
<1> HIDE DEF q, e
<1>6. /\ Len(s) \in Nat /\ Len(t) = Len(s) + Heads(p) + q.body + Terms(q)
      /\ Heads(p) \in {0, 1} /\ Terms(q) \in {0, 1}
  BY LenProperties DEF Continues, q
<1>7. Terms(q) = 1 <=> "TERM" \in e.flags /\ "TERM" \notin p.flags
  BY <1>3, <1>4 DEF Terms
<1>8. ASSUME NEW i \in 1..Len(t)
      PROVE  /\ t[i].rank <= e.rank
             /\ t[i].rank = e.rank =>
                   /\ "STARTED" \in e.flags
                   /\ t[i].frame = e.frame
                   /\ t[i].kind = "term" => "TERM" \in e.flags
  <2>1. CASE i > Len(s)
    <3>1. /\ t[i].rank = q.rank /\ t[i].frame = q.frame
          /\ t[i].kind = "term" <=> i > Len(s) + Heads(p) + q.body
      BY <2>1 DEF Continues, q
    <3>2. t[i].kind = "term" => Terms(q) = 1
      BY <1>5, <1>6, <3>1
    <3> QED
      BY <1>1, <1>4, <1>5, <1>7, <3>1, <3>2
  <2>2. CASE i <= Len(s)
    <3>1. i \in 1..Len(s) /\ t[i] = s[i]
      BY <2>2, OldOrNew DEF q
    <3>2. /\ s[i].rank <= p.rank
          /\ s[i].rank = p.rank =>
                /\ "STARTED" \in p.flags /\ s[i].frame = p.frame
                /\ s[i].kind = "term" => "TERM" \in p.flags
      BY <3>1 DEF Begins
    <3>3. "TERM" \in p.flags => "TERM" \in e.flags
      BY <1>1, <1>4 DEF Consistent
    <3> QED
      BY <1>1, <1>4, <3>1, <3>2, <3>3
  <2> QED
    BY <1>6, <2>1, <2>2
<1>9. ASSUME NEW i \in 1..Len(s) PROVE i \in 1..Len(t) /\ t[i] = s[i]
  <2>1. i \in 1..Len(t)
    BY <1>5, <1>6
  <2> QED
    BY <2>1 DEF Continues
<1>10. \E i \in 1..Len(t) : t[i].rank = e.rank
  <2>1. CASE "STARTED" \in p.flags
    BY <1>4, <1>9, <2>1 DEF Begins
  <2>2. CASE "STARTED" \notin p.flags
    <3>1. Heads(p) = 1
      BY <2>2 DEF Heads
    <3>2. Len(s) + 1 \in 1..Len(t) /\ Len(s) + 1 > Len(s)
      BY <1>5, <1>6, <3>1
    <3>3. t[Len(s) + 1].rank = q.rank
      BY <3>2 DEF Continues, q
    <3> QED
      BY <1>1, <1>4, <3>2, <3>3
  <2> QED
    BY <2>1, <2>2
<1>11. "TERM" \in e.flags => \E i \in 1..Len(t) : t[i].rank = e.rank /\ t[i].kind = "term"
  <2>1. CASE "TERM" \in p.flags
    BY <1>4, <1>9, <2>1 DEF Begins
  <2>2. CASE "TERM" \notin p.flags /\ "TERM" \in e.flags
    <3>1. Terms(q) = 1
      BY <1>7, <2>2
    <3>2. /\ Len(t) \in 1..Len(t) /\ Len(t) > Len(s) /\ Len(t) > Len(s) + Heads(p) + q.body
      BY <1>5, <1>6, <3>1
    <3>3. t[Len(t)].rank = q.rank /\ t[Len(t)].kind = "term"
      BY <3>2 DEF Continues, q
    <3> QED
      BY <1>1, <1>4, <3>2, <3>3
  <2> QED
    BY <2>1, <2>2
<1> QED
  BY <1>4, <1>8, <1>10, <1>11 DEF Begins, e

\* A response that is complete has ended.
LEMMA CompleteEnds ==
    ASSUME NEW t \in Seq(Pieces), NEW p \in Response, Consistent(p), p.status,
           "COMPLETE" \in p.flags, Begins(t, Emptied(Start(p))), Ended(t, {p.rank})
    PROVE  Ended(t, {})
<1> DEFINE q == Start(p)
           e == Emptied(Start(p))
<1>1. /\ q.frame = "chunked" <=> "CHUNKED" \in q.flags
  BY StartKeeps
<1>2. "COMPLETE" \in Flags \ {"STARTED", "CHUNKED"}
  BY DEF Flags
<1>3. "COMPLETE" \in q.flags
  BY <1>2, StartKeeps
<1>4. /\ e.rank = p.rank /\ e.frame = q.frame
      /\ "TERM" \in e.flags <=> "COMPLETE" \in q.flags /\ "CHUNKED" \in q.flags
  BY EmptiedKeeps
<1> HIDE DEF q, e
<1>5. ASSUME NEW i \in 1..Len(t), t[i].kind = "head", t[i].frame = "chunked", t[i].rank = p.rank
      PROVE  \E j \in 1..Len(t) : t[j].rank = t[i].rank /\ t[j].kind = "term"
  <2>1. t[i].frame = e.frame
    BY <1>4, <1>5 DEF Begins, e
  <2>2. "TERM" \in e.flags
    BY <1>1, <1>3, <1>4, <1>5, <2>1
  <2> QED
    BY <1>4, <1>5, <2>2 DEF Begins, e
<1> QED
  BY <1>5 DEF Ended

-----------------------------------------------------------------------------
(* The framing of what was sent *)

\* FramingExact, of any sequence.
LastOf(w) == IF w = << >> THEN 0 ELSE w[Len(w)].rank
FramingOf(w) ==
    /\ \A i \in DOMAIN w :
          (w[i].kind = "head") = (\A j \in 1..(i - 1) : w[j].rank # w[i].rank)
    /\ \A i, j \in DOMAIN w :
          i < j /\ w[i].rank = w[j].rank => w[i].kind # "term" /\ w[i].frame = w[j].frame
    /\ \A i \in DOMAIN w :
          w[i].rank < LastOf(w) =>
             CASE w[i].kind = "head" /\ w[i].frame = "total" ->
                     Cardinality(ItemsOf(w, w[i].rank)) = w[i].total
               [] w[i].kind = "head" /\ w[i].frame = "chunked" ->
                     \E j \in DOMAIN w : w[j].rank = w[i].rank /\ w[j].kind = "term"
               [] OTHER -> TRUE

LEMMA FramingIs ==
    /\ FramingExact <=> FramingOf(wire)
    /\ LastRank = LastOf(wire)
BY DEF FramingExact, FramingOf, Items, ItemsOf, LastRank, LastOf

LEMMA FramingIsNext ==
    /\ FramingExact' <=> FramingOf(wire')
    /\ LastRank' = LastOf(wire')
BY DEF FramingExact, FramingOf, Items, ItemsOf, LastRank, LastOf

\* What is on the wire is framed, the send buffer being the rest of it.
LEMMA PrefixFramed ==
    ASSUME NEW w \in Seq(Pieces), NEW c \in Seq(Pieces), NEW s, s = w \o c,
           Ordered(s), Framed(s), NEW R, Ended(s, R),
           \A r \in R : \A i \in 1..Len(s) : s[i].rank <= r /\ r \in Nat
    PROVE  FramingOf(w)
<1>1. /\ s \in Seq(Pieces) /\ Len(s) = Len(w) + Len(c)
      /\ \A i \in 1..(Len(w) + Len(c)) : s[i] = IF i <= Len(w) THEN w[i] ELSE c[i - Len(w)]
  BY ConcatProperties
<1>2. /\ Len(w) \in Nat /\ Len(c) \in Nat /\ DOMAIN w = 1..Len(w) /\ DOMAIN s = 1..Len(s)
      /\ \A i \in 1..Len(s) : s[i].rank \in Nat
  BY <1>1, PieceTypes
<1>3. ASSUME NEW i \in 1..Len(w) PROVE i \in 1..Len(s) /\ s[i] = w[i]
  <2>1. i \in 1..(Len(w) + Len(c)) /\ i <= Len(w)
    BY <1>2
  <2> QED
    BY <1>1, <2>1
<1>4. ASSUME NEW i \in 1..Len(w)
      PROVE  (w[i].kind = "head") = (\A j \in 1..(i - 1) : w[j].rank # w[i].rank)
  <2>1. \A j \in 1..(i - 1) : j \in 1..Len(w)
    BY <1>2
  <2>2. s[i].kind = "head" <=> \A j \in 1..(i - 1) : s[j].rank # s[i].rank
    BY <1>3 DEF Framed
  <2> QED
    BY <1>3, <2>1, <2>2
<1>5. ASSUME NEW i \in 1..Len(w), NEW j \in 1..Len(w), i < j, w[i].rank = w[j].rank
      PROVE  w[i].kind # "term" /\ w[i].frame = w[j].frame
  BY <1>3, <1>5 DEF Framed
<1>6. ASSUME NEW i \in 1..Len(w), w[i].rank < LastOf(w), w[i].kind = "head"
      PROVE  /\ w[i].frame = "total" => Cardinality(ItemsOf(w, w[i].rank)) = w[i].total
             /\ w[i].frame = "chunked" =>
                   \E j \in 1..Len(w) : w[j].rank = w[i].rank /\ w[j].kind = "term"
  <2> DEFINE n == Len(w)
  <2>1. n \in 1..Len(w) /\ n \in 1..Len(s) /\ LastOf(w) = s[n].rank /\ w # << >>
    <3>1. n \in 1..Len(w)
      BY <1>2
    <3> QED
      BY <1>3, <3>1 DEF LastOf
  <2>2. ASSUME NEW j \in 1..Len(s), s[j].rank = w[i].rank PROVE j \in 1..Len(w)
    <3>1. CASE j > n
      <4>1. s[n].rank <= s[j].rank
        BY <2>1, <3>1 DEF Ordered
      <4>2. s[n].rank \in Nat /\ s[j].rank \in Nat /\ s[j].rank < s[n].rank
        BY <1>2, <1>6, <2>1, <2>2
      <4> QED
        BY <4>1, <4>2
    <3> QED
      BY <1>2, <3>1
  <2>3. ItemsOf(s, w[i].rank) = ItemsOf(w, w[i].rank)
    BY <1>2, <1>3, <2>2 DEF ItemsOf
  <2>4. i \in 1..Len(s) /\ s[i] = w[i]
    BY <1>3
  <2>5. w[i].frame = "total" => Cardinality(ItemsOf(w, w[i].rank)) = w[i].total
    BY <1>6, <2>3, <2>4 DEF Framed
  <2>6. w[i].rank \notin R
    <3>1. s[n].rank \in Nat /\ w[i].rank \in Nat /\ w[i].rank < s[n].rank
      BY <1>2, <1>6, <2>1, <2>4
    <3> QED
      BY <2>1, <3>1
  <2>7. w[i].frame = "chunked" =>
           \E j \in 1..Len(s) : s[j].rank = w[i].rank /\ s[j].kind = "term"
    <3>1. s[i].kind = "head" /\ s[i].rank = w[i].rank /\ s[i].frame = w[i].frame
      BY <1>6, <2>4
    <3>2. s[i].frame = "chunked" =>
             s[i].rank \in R \/ \E j \in 1..Len(s) : s[j].rank = s[i].rank /\ s[j].kind = "term"
      BY <2>4, <3>1 DEF Ended
    <3> QED
      BY <2>6, <3>1, <3>2, Zenon
  <2> QED
    BY <1>3, <2>2, <2>5, <2>7
<1>7. ASSUME NEW i \in 1..Len(w), w[i].rank < LastOf(w)
      PROVE  CASE w[i].kind = "head" /\ w[i].frame = "total" ->
                     Cardinality(ItemsOf(w, w[i].rank)) = w[i].total
               [] w[i].kind = "head" /\ w[i].frame = "chunked" ->
                     \E j \in 1..Len(w) : w[j].rank = w[i].rank /\ w[j].kind = "term"
               [] OTHER -> TRUE
  <2>1. CASE w[i].kind = "head" /\ w[i].frame = "total"
    BY <1>6, <1>7, <2>1
  <2>2. CASE w[i].kind = "head" /\ w[i].frame = "chunked"
    BY <1>6, <1>7, <2>2
  <2>3. CASE ~(w[i].kind = "head" /\ w[i].frame \in {"total", "chunked"})
    BY <2>3
  <2> QED
    BY <2>1, <2>2, <2>3
<1> QED
  BY <1>2, <1>4, <1>5, <1>7, Zenon DEF FramingOf

-----------------------------------------------------------------------------
(* Steps that send nothing *)

LEMMA SentFacts ==
    ASSUME SessionType
    PROVE  /\ Sent \in Seq(Pieces) /\ Len(Sent) \in Nat
           /\ \A i \in 1..Len(Sent) : Sent[i].rank \in Nat
           /\ sbuf = << >> => Sent = wire
<1>1. wire \in Seq(Pieces) /\ sbuf \in Seq(Pieces)
  BY DEF SessionType
<1>2. Sent \in Seq(Pieces)
  BY <1>1, ConcatProperties DEF Sent
<1>3. sbuf = << >> => Sent = wire
  BY <1>1, ConcatEmptySeq DEF Sent
<1> QED
  BY <1>2, <1>3, PieceTypes

\* The first response stays as it is, or there is none.
LEMMA StreamSame ==
    ASSUME StreamInv, UNCHANGED <<wire, sbuf>>,
           \/ queue = << >> /\ queue' = << >>
           \/ queue # << >> /\ queue' # << >> /\ Alike(First', First)
    PROVE  StreamInv'
<1>1. Sent' = Sent
  BY DEF Sent
<1>2. CASE queue = << >> /\ queue' = << >>
  BY <1>1, <1>2 DEF StreamInv
<1>3. CASE queue # << >> /\ queue' # << >> /\ Alike(First', First)
  <2>1. /\ Ordered(Sent) /\ Framed(Sent) /\ Ended(Sent, {First.rank}) /\ Begins(Sent, First)
    BY <1>3 DEF StreamInv
  <2>2. First'.rank = First.rank
    BY <1>3 DEF Alike
  <2>3. Begins(Sent, First')
    BY <1>3, <2>1 DEF Begins, Alike
  <2> QED
    BY <1>1, <1>3, <2>1, <2>2, <2>3 DEF StreamInv
<1> QED
  BY <1>2, <1>3

\* The first response of a list that was empty comes after all that was sent.
LEMMA StreamFresh ==
    ASSUME NEW s \in Seq(Pieces), NEW p, Ended(s, {}), NEW r \in Nat,
           \A i \in 1..Len(s) : s[i].rank <= r, p.rank \in Nat, p.rank > r,
           "STARTED" \notin p.flags, "TERM" \notin p.flags
    PROVE  Ended(s, {p.rank}) /\ Begins(s, p)
<1>1. \A i \in 1..Len(s) : s[i].rank \in Nat
  BY PieceTypes
<1>2. \A i \in 1..Len(s) : s[i].rank <= p.rank /\ s[i].rank # p.rank
  BY <1>1
<1> QED
  BY <1>2 DEF Ended, Begins

\* Nothing that was sent comes after the last piece.
LEMMA LastIsMax ==
    ASSUME NEW w \in Seq(Pieces), Ordered(w)
    PROVE  LastOf(w) \in Nat /\ \A i \in 1..Len(w) : w[i].rank <= LastOf(w)
<1>1. Len(w) \in Nat /\ \A i \in 1..Len(w) : w[i].rank \in Nat
  BY PieceTypes
<1>2. CASE w = << >>
  BY <1>1, <1>2 DEF LastOf
<1>3. CASE w # << >>
  <2>1. Len(w) \in 1..Len(w) /\ LastOf(w) = w[Len(w)].rank
    BY <1>1, <1>3, EmptySeq DEF LastOf
  <2>2. ASSUME NEW i \in 1..Len(w) PROVE w[i].rank <= w[Len(w)].rank
    <3>1. i < Len(w) \/ i = Len(w)
      BY <1>1
    <3> QED
      BY <1>1, <2>1, <3>1 DEF Ordered
  <2> QED
    BY <1>1, <2>1, <2>2
<1> QED
  BY <1>2, <1>3

LEMMA SucceedsFacts ==
    /\ \A a, b \in Nat : Succeeds(a, b) => b > a /\ b \in {a + 1, a + 2}
    /\ \A n \in Nat : /\ Succeeds(2 * n, 2 * (n + 1))
                      /\ Succeeds(2 * n, 2 * (n + 1) - 1)
                      /\ Succeeds(2 * (n + 1) - 1, 2 * (n + 1))
<1>1. ASSUME NEW a \in Nat PROVE a \div 2 \in Nat /\ 2 * (a \div 2) <= a /\ a < 2 * (a \div 2) + 2
  OBVIOUS
<1>2. ASSUME NEW a \in Nat, NEW b \in Nat, Succeeds(a, b) PROVE b > a /\ b \in {a + 1, a + 2}
  BY <1>1, <1>2 DEF Succeeds
<1>3. ASSUME NEW n \in Nat
      PROVE  /\ Succeeds(2 * n, 2 * (n + 1))
             /\ Succeeds(2 * n, 2 * (n + 1) - 1)
             /\ Succeeds(2 * (n + 1) - 1, 2 * (n + 1))
  <2>1. (2 * n) \div 2 = n /\ (2 * (n + 1) - 1) \div 2 = n
    OBVIOUS
  <2> QED
    BY <2>1 DEF Succeeds
<1> QED
  BY <1>2, <1>3

\* The ranks of the list, from the one that is being sent to the last.
LEMMA RankFacts ==
    ASSUME LiveInv, StreamInv, Chained
    PROVE  /\ LastRank \in Nat /\ LastQueued \in Nat /\ LastRank <= LastQueued
           /\ \A i \in 1..Len(queue) :
                 /\ queue[i] \in 1..Len(resp) /\ resp[queue[i]].rank \in Nat
                 /\ resp[queue[i]].rank >= First.rank /\ resp[queue[i]].rank <= LastQueued
                 /\ i > 1 => resp[queue[i]].rank > First.rank
           /\ queue # << >> => /\ First.rank \in Nat /\ First.rank >= LastRank
                               /\ First.rank <= LastQueued
<1>1. wire \in Seq(Pieces)
  BY DEF LiveInv, SessionType
<1>2. LastRank \in Nat
  <2>1. Len(wire) \in Nat /\ \A i \in 1..Len(wire) : wire[i].rank \in Nat
    BY <1>1, PieceTypes
  <2>2. wire # << >> => Len(wire) \in 1..Len(wire)
    BY <1>1, <2>1, EmptySeq
  <2> QED
    BY <2>1, <2>2 DEF LastRank
<1>3. ASSUME NEW i \in 1..Len(queue)
      PROVE  queue[i] \in 1..Len(resp) /\ resp[queue[i]].rank \in Nat
  <2>1. queue[i] \in 1..Len(resp) /\ resp[queue[i]] \in Response
    BY Typed DEF LiveInv, QueueInv
  <2> QED
    BY <2>1 DEF Response
<1>4. CASE queue = << >>
  BY <1>2, <1>4, EmptySeq DEF LastQueued
<1>5. CASE queue # << >>
  <2>1. Len(queue) \in Nat /\ Len(queue) >= 1 /\ 1 \in 1..Len(queue) /\ Len(queue) \in 1..Len(queue)
    BY <1>5, FirstFacts
  <2>2. /\ First = resp[queue[1]] /\ First.rank \in Nat
        /\ LastQueued = resp[queue[Len(queue)]].rank /\ LastQueued \in Nat
    BY <1>3, <1>5, <2>1 DEF First, LastQueued
  <2>3. First.rank >= LastRank
    BY <1>2, <1>5, <2>2, SucceedsFacts, SMTT(40) DEF Chained
  <2>4. ASSUME NEW i \in 1..Len(queue)
        PROVE  /\ resp[queue[i]].rank >= First.rank /\ resp[queue[i]].rank <= LastQueued
               /\ i > 1 => resp[queue[i]].rank > First.rank
    <3>1. i > 1 => resp[queue[1]].rank < resp[queue[i]].rank
      BY <2>1 DEF LiveInv, QueueInv
    <3>2. i < Len(queue) => resp[queue[i]].rank < resp[queue[Len(queue)]].rank
      BY <2>1 DEF LiveInv, QueueInv
    <3>3. (i = 1 \/ i > 1) /\ (i = Len(queue) \/ i < Len(queue))
      BY <2>1
    <3>4. resp[queue[i]].rank \in Nat
      BY <1>3
    <3> QED
      BY <2>2, <3>1, <3>2, <3>3, <3>4
  <2>5. LastRank <= LastQueued /\ First.rank <= LastQueued
    BY <1>2, <2>1, <2>2, <2>3, <2>4
  <2> QED
    BY <1>2, <1>3, <2>2, <2>3, <2>4, <2>5
<1> QED
  BY <1>4, <1>5

\* The step of the abstract specification that a step of the session takes.
Open == \E i \in DOMAIN queue : resp[queue[i]].rank = LastRank
Refines == [Order!Begin \/ Order!End \/ Order!Whole]_<<LastRank, Open>>

LEMMA RefinesStutter ==
    ASSUME LastRank' = LastRank, Open' = Open
    PROVE  Refines
BY DEF Refines

LEMMA RefinesEnd ==
    ASSUME LastRank' = LastRank, ~Open'
    PROVE  Refines
<1>1. CASE Open
  <2>1. Order!End
    BY <1>1 DEF Order!End, Open
  <2> QED
    BY <2>1 DEF Refines
<1>2. CASE ~Open
  BY <1>2 DEF Refines, Open
<1> QED
  BY <1>1, <1>2

LEMMA RefinesNew ==
    ASSUME LastRank \in Nat, LastRank' \in Nat, ~Open, Succeeds(LastRank, LastRank')
    PROVE  Refines
<1>1. LastRank' \in {LastRank + 1, LastRank + 2} /\ LastRank' > LastRank
      /\ LastRank' <= 2 * (LastRank \div 2) + 2
  BY SucceedsFacts DEF Succeeds
<1>2. CASE Open'
  <2>1. Order!Begin
    BY <1>1, <1>2 DEF Order!Begin, Order!Follows, Open
  <2> QED
    BY <2>1 DEF Refines
<1>3. CASE ~Open'
  <2>1. Open' = Open
    BY <1>3 DEF Open
  <2>2. Order!Whole
    BY <1>1, <2>1 DEF Order!Whole, Order!Follows, Open
  <2> QED
    BY <2>2 DEF Refines
<1> QED
  BY <1>2, <1>3

LEMMA SameFirst ==
    ASSUME LiveInv, UNCHANGED queue,
           \A i \in 1..Len(queue) : Alike(resp'[queue[i]], resp[queue[i]])
    PROVE  \/ queue = << >> /\ queue' = << >>
           \/ queue # << >> /\ queue' # << >> /\ Alike(First', First)
BY FirstFacts DEF First

\* The list and the output stay as they are.
LEMMA OutputSame ==
    ASSUME LiveInv, StreamInv, OrderInv, UNCHANGED <<queue, sbuf, wire>>,
           \A i \in 1..Len(queue) : Alike(resp'[queue[i]], resp[queue[i]])
    PROVE  /\ StreamInv' /\ Chained' /\ Refines
           /\ LastQueued' = LastQueued /\ FramingExact' = FramingExact
<1>1. StreamInv'
  BY SameFirst, StreamSame
<1>2. LastRank' = LastRank /\ FramingExact' = FramingExact
  BY DEF LastRank, FramingExact, Items
<1>3. \A i \in 1..Len(queue) : resp'[queue[i]].rank = resp[queue[i]].rank
  BY DEF Alike
<1>4. Len(queue) \in Nat /\ DOMAIN queue = 1..Len(queue)
  BY Typed DEF LiveInv
<1>5. queue # << >> => 1 \in 1..Len(queue) /\ Len(queue) \in 1..Len(queue)
  BY <1>4, FirstFacts
<1>6. Chained'
  <2>1. queue # << >> => First'.rank = First.rank
    BY <1>3, <1>5 DEF First
  <2>2. \A i \in 1..(Len(queue) - 1) : i \in 1..Len(queue) /\ i + 1 \in 1..Len(queue)
    BY <1>4
  <2> QED
    BY <1>2, <1>3, <2>1, <2>2 DEF OrderInv, Chained
<1>7. LastQueued' = LastQueued
  BY <1>2, <1>3, <1>5 DEF LastQueued
<1>8. Open' = Open
  BY <1>2, <1>3, <1>4 DEF Open
<1> QED
  BY <1>1, <1>2, <1>6, <1>7, <1>8, RefinesStutter

\* ymo_http_session_add_response: the next rank is added to the list.
LEMMA OutputAdd ==
    ASSUME LiveInv, LiveInv', StreamInv, OrderInv, UNCHANGED <<sbuf, wire>>,
           NEW r \in Nat, r \in 1..Len(resp'), queue' = Append(queue, r),
           \A i \in 1..Len(queue) : resp'[queue[i]] = resp[queue[i]],
           Succeeds(LastQueued, resp'[r].rank), "STARTED" \notin resp'[r].flags
    PROVE  /\ StreamInv' /\ Chained' /\ Refines
           /\ LastQueued' = resp'[r].rank /\ FramingExact' = FramingExact
<1>1. /\ queue' \in Seq(Nat) /\ Len(queue) \in Nat /\ Len(queue') = Len(queue) + 1
      /\ \A i \in 1..Len(queue) : queue'[i] = queue[i]
      /\ queue'[Len(queue) + 1] = r
  BY Appended
<1>2. /\ queue' # << >>
      /\ queue # << >> => First' = First
      /\ queue = << >> => First' = resp'[r]
  BY AppendFirst
<1>3. LastRank' = LastRank /\ FramingExact' = FramingExact
  BY DEF LastRank, FramingExact, Items
<1>4. LastQueued' = resp'[r].rank
  BY <1>1, <1>2 DEF LastQueued
<1>5. /\ LastRank \in Nat /\ LastQueued \in Nat /\ LastRank <= LastQueued
  BY RankFacts DEF OrderInv
<1>6. resp'[r] \in Response /\ resp'[r].rank \in Nat /\ "TERM" \notin resp'[r].flags
  <2>1. resp'[r] \in Response
    BY ElementOfSeq DEF LiveInv, SessionType
  <2>2. "TERM" \notin resp'[r].flags
    BY DEF LiveInv, Consistent
  <2> QED
    BY <2>1, <2>2 DEF Response
<1>7. resp'[r].rank > LastQueued
  BY <1>5, <1>6, SucceedsFacts
<1>8. StreamInv'
  <2>1. CASE queue # << >>
    <3>1. Alike(First', First)
      BY <1>2, <2>1 DEF Alike
    <3> QED
      BY <1>2, <2>1, <3>1, StreamSame
  <2>2. CASE queue = << >>
    <3>1. /\ Ordered(Sent) /\ Framed(Sent) /\ Ended(Sent, {}) /\ Sent' = Sent
      BY <2>2 DEF StreamInv, Sent
    <3>2. Sent = wire /\ wire \in Seq(Pieces)
      BY <2>2, SentFacts DEF LiveInv, BufferInv, SessionType
    <3>3. LastRank = LastQueued /\ LastRank = LastOf(wire)
      BY <2>2, FramingIs DEF LastQueued
    <3>4. \A i \in 1..Len(wire) : wire[i].rank <= LastRank
      BY <3>1, <3>2, <3>3, LastIsMax
    <3>5. First' = resp'[r] /\ First'.rank > LastRank
      BY <1>2, <1>7, <2>2, <3>3
    <3>6. Ended(Sent, {First'.rank}) /\ Begins(Sent, First')
      BY <1>5, <1>6, <3>1, <3>2, <3>4, <3>5, StreamFresh
    <3> QED
      BY <1>2, <3>1, <3>6 DEF StreamInv
  <2> QED
    BY <2>1, <2>2
<1>9. Chained'
  <2>1. First'.rank = LastRank' \/ Succeeds(LastRank', First'.rank)
    <3>1. CASE queue = << >>
      BY <1>2, <1>3, <3>1 DEF LastQueued
    <3>2. CASE queue # << >>
      BY <1>2, <1>3, <3>2 DEF OrderInv, Chained
    <3> QED
      BY <3>1, <3>2
  <2>2. ASSUME NEW i \in 1..(Len(queue') - 1)
        PROVE  Succeeds(resp'[queue'[i]].rank, resp'[queue'[i + 1]].rank)
    <3>1. i \in 1..Len(queue) /\ queue'[i] = queue[i] /\ resp'[queue'[i]] = resp[queue[i]]
      BY <1>1
    <3>2. CASE i = Len(queue)
      <4>1. queue # << >>
        BY <3>1, EmptySeq
      <4>2. LastQueued = resp[queue[i]].rank
        BY <3>2, <4>1 DEF LastQueued
      <4>3. queue'[i + 1] = r
        BY <1>1, <3>2
      <4> QED
        BY <3>1, <4>2, <4>3
    <3>3. CASE i # Len(queue)
      <4>1. i \in 1..(Len(queue) - 1) /\ i + 1 \in 1..Len(queue)
        BY <1>1, <3>1, <3>3
      <4>2. resp'[queue'[i + 1]] = resp[queue[i + 1]]
        BY <1>1, <4>1
      <4> QED
        BY <3>1, <4>1, <4>2 DEF OrderInv, Chained
    <3> QED
      BY <3>2, <3>3
  <2> QED
    BY <2>1, <2>2 DEF Chained
<1>10. Open' = Open
  <2>1. DOMAIN queue = 1..Len(queue) /\ DOMAIN queue' = 1..(Len(queue) + 1)
    BY <1>1, LenProperties DEF LiveInv, SessionType
  <2>2. resp'[queue'[Len(queue) + 1]].rank # LastRank
    BY <1>1, <1>5, <1>6, <1>7
  <2>3. \A i \in 1..Len(queue) :
           i \in 1..(Len(queue) + 1) /\ resp'[queue'[i]].rank = resp[queue[i]].rank
    BY <1>1
  <2>4. \A i \in 1..(Len(queue) + 1) : i \in 1..Len(queue) \/ i = Len(queue) + 1
    BY <1>1
  <2>5. Open' <=> Open
    BY <1>3, <2>1, <2>2, <2>3, <2>4 DEF Open
  <2> QED
    BY <2>5 DEF Open
<1> QED
  BY <1>3, <1>4, <1>8, <1>9, <1>10, RefinesStutter

\* The session ends.
LEMMA OutputEnds ==
    ASSUME queue' = << >>, wire' = wire
    PROVE  Refines /\ FramingExact' = FramingExact
<1>1. LastRank' = LastRank /\ FramingExact' = FramingExact
  BY DEF LastRank, FramingExact, Items
<1>2. ~Open'
  BY DEF Open
<1> QED
  BY <1>1, <1>2, RefinesEnd

-----------------------------------------------------------------------------
(* The write callback *)

\* What was sent and what is to be sent, once the first response added to it.
LEMMA ChainFacts ==
    ASSUME LiveInv, Sends, StreamInv
    PROVE  /\ wire \o Chain \in Seq(Pieces)
           /\ Ordered(wire \o Chain) /\ Framed(wire \o Chain)
           /\ Ended(wire \o Chain, {First.rank})
           /\ Begins(wire \o Chain, Emptied(Begun))
           /\ "COMPLETE" \in First.flags => Ended(wire \o Chain, {})
           /\ \A i \in 1..Len(wire \o Chain) : (wire \o Chain)[i].rank <= First.rank
           /\ First.rank \in Nat /\ Emptied(Begun).rank = First.rank
<1> DEFINE o == Output(First, Begun)
           t == Sent \o o
<1>1. /\ queue # << >> /\ First \in Response /\ Consistent(First) /\ First.status
      /\ Begun = Start(First) /\ Begun \in Response /\ Begun.rank = First.rank
      /\ First.rank \in Nat
  <2>1. /\ queue # << >> /\ First \in Response /\ Consistent(First) /\ First.status
        /\ Begun = Start(First) /\ Begun \in Response /\ Begun.rank = First.rank
    BY SendsFacts
  <2> QED
    BY <2>1 DEF Response
<1>2. Sent \in Seq(Pieces) /\ wire \in Seq(Pieces) /\ sbuf \in Seq(Pieces)
  BY SentFacts DEF LiveInv, SessionType
<1>3. /\ Ordered(Sent) /\ Framed(Sent) /\ Ended(Sent, {First.rank}) /\ Begins(Sent, First)
  BY <1>1 DEF StreamInv
<1>4. /\ t \in Seq(Pieces) /\ o \in Seq(Pieces)
      /\ Continues(Sent, t, Heads(First), Begun.body, Terms(Begun), Begun.rank, Begun.frame)
  BY <1>1, <1>2, OutputContinues, OutputFacts
<1>5. wire \o Chain = t
  BY <1>2, <1>4, ConcatAssociative DEF Chain, Sent
<1> HIDE DEF t, o
<1>6. MayAdd(Sent, Heads(First), Begun.body, Terms(Begun), Begun.rank, Begun.frame)
  BY <1>1, <1>2, <1>3, StartedMayAdd
<1>7. \A i \in 1..Len(Sent) : Sent[i].rank <= Begun.rank
  BY <1>1, <1>3 DEF Begins
<1>8. Ordered(t) /\ Framed(t) /\ Ended(t, {First.rank})
  BY <1>1, <1>2, <1>3, <1>4, <1>6, <1>7, OrderedGrows, FramedGrows, EndedGrows
<1>9. Begins(t, Emptied(Begun))
  BY <1>1, <1>2, <1>3, <1>4, BeginsGrows
<1>10. "COMPLETE" \in First.flags => Ended(t, {})
  BY <1>1, <1>4, <1>8, <1>9, CompleteEnds
<1>11. Emptied(Begun).rank = First.rank
  BY <1>1, EmptiedKeeps
<1> QED
  BY <1>1, <1>4, <1>5, <1>8, <1>9, <1>10, <1>11 DEF Begins

\* The first k pieces are sent and the others wait.
LEMMA SplitChain ==
    ASSUME NEW ch \in Seq(Pieces), NEW k \in 0..Len(ch), NEW r,
           \A i \in 1..Len(ch) : ch[i].rank = r
    PROVE  /\ SubSeq(ch, 1, k) \in Seq(Pieces)
           /\ SubSeq(ch, k + 1, Len(ch)) \in Seq(Pieces)
           /\ SubSeq(ch, 1, k) \o SubSeq(ch, k + 1, Len(ch)) = ch
           /\ \A i \in 1..Len(SubSeq(ch, 1, k)) : SubSeq(ch, 1, k)[i].rank = r
<1> DEFINE a == SubSeq(ch, 1, k)
           c == SubSeq(ch, k + 1, Len(ch))
<1>1. /\ Len(ch) \in Nat /\ \A i \in 1..Len(ch) : ch[i] \in Pieces
  BY LenProperties, ElementOfSeq
<1>2. \A i \in 1..k : i \in 1..Len(ch)
  BY <1>1
<1>3. /\ a \in Seq(Pieces) /\ Len(a) = (IF 1 <= k THEN k - 1 + 1 ELSE 0)
      /\ \A i \in 1..(k - 1 + 1) : a[i] = ch[1 + i - 1]
  BY <1>1, <1>2, SubSeqProperties
<1>4. c \in Seq(Pieces)
  <2>1. \A i \in (k + 1)..Len(ch) : i \in 1..Len(ch)
    BY <1>1
  <2> QED
    BY <1>1, <2>1, SubSeqProperties
<1>5. a \o c = ch
  <2>1. 1 \in 1..(Len(ch) + 1) /\ k \in (1 - 1)..Len(ch) /\ Len(ch) \in k..Len(ch)
    BY <1>1
  <2>2. a \o c = SubSeq(ch, 1, Len(ch))
    BY <1>1, <2>1, ConcatAdjacentSubSeq
  <2> QED
    BY <1>1, <2>2, SubSeqFull
<1> HIDE DEF a, c
<1>6. ASSUME NEW i \in 1..Len(a) PROVE a[i].rank = r
  <2>1. i \in 1..(k - 1 + 1) /\ 1 + i - 1 = i /\ i \in 1..k
    BY <1>1, <1>3
  <2>2. a[i] = ch[i] /\ i \in 1..Len(ch)
    BY <1>2, <1>3, <2>1
  <2> QED
    BY <2>2
<1> QED
  BY <1>3, <1>4, <1>5, <1>6 DEF a, c

LEMMA SendPart ==
    ASSUME NEW w \in Seq(Pieces), NEW a \in Seq(Pieces), NEW c \in Seq(Pieces)
    PROVE  /\ w \o a \in Seq(Pieces)
           /\ (w \o a) \o c = w \o (a \o c)
           /\ a = << >> => LastOf(w \o a) = LastOf(w)
           /\ a # << >> => Len(a) \in 1..Len(a) /\ LastOf(w \o a) = a[Len(a)].rank
<1> DEFINE x == w \o a
<1>1. Len(w) \in Nat /\ Len(a) \in Nat
  BY LenProperties
<1>2. /\ x \in Seq(Pieces) /\ Len(x) = Len(w) + Len(a)
      /\ \A i \in 1..(Len(w) + Len(a)) : x[i] = IF i <= Len(w) THEN w[i] ELSE a[i - Len(w)]
  BY ConcatProperties
<1>3. x \o c = w \o (a \o c)
  BY ConcatAssociative, SMTT(40)
<1>4. a = << >> => x = w
  BY ConcatEmptySeq
<1> HIDE DEF x
<1>5. ASSUME a # << >> PROVE Len(a) \in 1..Len(a) /\ LastOf(x) = a[Len(a)].rank
  <2> DEFINE n == Len(a)
  <2>1. n \in Nat /\ n > 0
    BY <1>1, <1>5, EmptySeq
  <2> HIDE DEF n
  <2>2. /\ Len(w) + n \in 1..(Len(w) + n) /\ ~(Len(w) + n <= Len(w))
        /\ Len(w) + n - Len(w) = n /\ n \in 1..n /\ Len(w) + n # 0
    BY <1>1, <2>1
  <2>3. x[Len(x)] = a[n] /\ Len(x) # 0
    BY <1>2, <2>2 DEF n
  <2>4. x # << >>
    BY <2>3, EmptySeq
  <2> QED
    BY <2>2, <2>3, <2>4 DEF LastOf, n
<1> QED
  BY <1>2, <1>3, <1>4, <1>5 DEF x

\* A send that leaves the first response in the list.
LEMMA OutputKept ==
    ASSUME LiveInv, Sends, StreamInv, OrderInv, UNCHANGED queue,
           resp' = [resp EXCEPT ![queue[1]] = Emptied(Begun)],
           NEW k \in 0..Len(Chain), wire' = wire \o SubSeq(Chain, 1, k),
           sbuf' = SubSeq(Chain, k + 1, Len(Chain))
    PROVE  StreamInv' /\ Chained' /\ Refines /\ LastQueued' = LastQueued /\ FramingExact'
<1>1. /\ wire \o Chain \in Seq(Pieces)
      /\ Ordered(wire \o Chain) /\ Framed(wire \o Chain)
      /\ Ended(wire \o Chain, {First.rank})
      /\ Begins(wire \o Chain, Emptied(Begun))
      /\ \A i \in 1..Len(wire \o Chain) : (wire \o Chain)[i].rank <= First.rank
      /\ First.rank \in Nat /\ Emptied(Begun).rank = First.rank
  BY ChainFacts
<1>2. /\ wire' \in Seq(Pieces) /\ sbuf' \in Seq(Pieces) /\ Sent' = wire \o Chain
      /\ LastRank' = LastRank \/ LastRank' = First.rank
  <2>1. /\ wire \in Seq(Pieces) /\ Chain \in Seq(Pieces)
        /\ \A i \in 1..Len(Chain) : Chain[i].rank = First.rank
    BY SendsFacts DEF LiveInv, SessionType
  <2> DEFINE a == SubSeq(Chain, 1, k)
             c == SubSeq(Chain, k + 1, Len(Chain))
  <2>2. wire' = wire \o a /\ sbuf' = c
    OBVIOUS
  <2>3. /\ a \in Seq(Pieces) /\ c \in Seq(Pieces) /\ a \o c = Chain
        /\ \A i \in 1..Len(a) : a[i].rank = First.rank
    BY <2>1, SplitChain
  <2> HIDE DEF a, c
  <2>4. /\ wire \o a \in Seq(Pieces) /\ (wire \o a) \o c = wire \o Chain
        /\ LastOf(wire \o a) \in {LastOf(wire), First.rank}
    <3>1. /\ wire \o a \in Seq(Pieces) /\ (wire \o a) \o c = wire \o (a \o c)
          /\ a = << >> => LastOf(wire \o a) = LastOf(wire)
          /\ a # << >> => Len(a) \in 1..Len(a) /\ LastOf(wire \o a) = a[Len(a)].rank
      <4>1. wire \in Seq(Pieces) /\ a \in Seq(Pieces) /\ c \in Seq(Pieces)
        BY <2>1, <2>3
      <4> QED
        BY <4>1, SendPart, ZenonT(30)
    <3> QED
      BY <2>3, <3>1
  <2> QED
    BY <2>2, <2>3, <2>4, FramingIs, FramingIsNext DEF Sent
<1>3. FramingExact'
  <2> DEFINE s == wire \o Chain
             R == {First.rank}
  <2>1. /\ s = wire' \o sbuf' /\ Ordered(s) /\ Framed(s) /\ Ended(s, R)
        /\ \A r \in R : \A i \in 1..Len(s) : s[i].rank <= r /\ r \in Nat
    BY <1>1, <1>2 DEF Sent
  <2> HIDE DEF s, R
  <2>2. FramingOf(wire')
    BY <1>2, <2>1, PrefixFramed
  <2> QED
    BY <2>2, FramingIsNext
<1>4. /\ queue # << >> /\ 1 \in 1..Len(queue) /\ Len(queue) \in 1..Len(queue)
      /\ Len(queue) \in Nat /\ DOMAIN queue = 1..Len(queue)
  BY SendsFacts, FirstFacts, Typed DEF LiveInv
<1>5. /\ resp'[queue[1]] = Emptied(Begun)
      /\ \A i \in 1..Len(queue) : resp'[queue[i]].rank = resp[queue[i]].rank
  BY WrittenFacts
<1>6. First' = Emptied(Begun) /\ First'.rank = First.rank
  BY <1>1, <1>5 DEF First
<1>7. StreamInv'
  BY <1>1, <1>2, <1>4, <1>6 DEF StreamInv
<1>8. LastQueued' = LastQueued
  BY <1>4, <1>5 DEF LastQueued
<1>9. Chained'
  <2>1. \A i \in 1..(Len(queue) - 1) : i \in 1..Len(queue) /\ i + 1 \in 1..Len(queue)
    BY <1>4
  <2> QED
    BY <1>2, <1>4, <1>5, <1>6, <2>1 DEF OrderInv, Chained
<1>10. Refines
  <2>1. /\ LastRank \in Nat /\ First.rank >= LastRank
        /\ \A i \in 1..Len(queue) :
              resp[queue[i]].rank \in Nat /\ resp[queue[i]].rank >= First.rank
    BY <1>4, RankFacts DEF OrderInv
  <2>2. CASE LastRank' = LastRank
    <3>1. Open' <=> Open
      BY <1>4, <1>5, <2>2 DEF Open
    <3>2. Open' = Open
      BY <3>1 DEF Open
    <3> QED
      BY <2>2, <3>2, RefinesStutter
  <2>3. CASE LastRank' = First.rank /\ LastRank' # LastRank
    <3>1. ~Open
      BY <1>1, <1>4, <2>1, <2>3 DEF Open
    <3>2. Succeeds(LastRank, LastRank')
      BY <1>4, <2>3 DEF OrderInv, Chained
    <3> QED
      BY <1>1, <2>1, <2>3, <3>1, <3>2, RefinesNew
  <2> QED
    BY <1>2, <2>2, <2>3
<1> QED
  BY <1>3, <1>7, <1>8, <1>9, <1>10

\* All of a complete response is sent, and it is no longer in the list.
LEMMA OutputWhole ==
    ASSUME LiveInv, Sends, StreamInv, OrderInv, "COMPLETE" \in First.flags, Chain # << >>,
           wire' = wire \o Chain, sbuf' = << >>
    PROVE  /\ LastRank' = First.rank /\ Sent' = wire \o Chain /\ wire' \in Seq(Pieces)
           /\ FramingExact'
           /\ ~Open' => Refines
<1>1. /\ wire \o Chain \in Seq(Pieces)
      /\ Ordered(wire \o Chain) /\ Framed(wire \o Chain) /\ Ended(wire \o Chain, {})
      /\ First.rank \in Nat
  BY ChainFacts
<1>2. /\ wire \in Seq(Pieces) /\ Chain \in Seq(Pieces)
      /\ \A i \in 1..Len(Chain) : Chain[i].rank = First.rank
  BY SendsFacts DEF LiveInv, SessionType
<1>3. << >> \in Seq(Pieces)
  BY EmptySeq
<1>4. Sent' = wire \o Chain
  <2> DEFINE s == wire \o Chain
  <2>1. wire' = s /\ s \in Seq(Pieces)
    BY <1>1
  <2> HIDE DEF s
  <2>2. s \o << >> = s
    BY <2>1, ConcatEmptySeq
  <2> QED
    BY <2>1, <2>2 DEF Sent, s
<1>5. LastOf(wire \o Chain) = First.rank
  <2>1. Len(Chain) \in 1..Len(Chain) /\ LastOf(wire \o Chain) = Chain[Len(Chain)].rank
    BY <1>2, <1>3, SendPart
  <2> QED
    BY <1>2, <2>1
<1>6. LastRank' = First.rank
  BY <1>5, FramingIsNext
<1>7. FramingExact'
  <2> DEFINE s == wire \o Chain
  <2>1. /\ s \in Seq(Pieces) /\ Ordered(s) /\ Framed(s) /\ Ended(s, {}) /\ wire' = s
    BY <1>1
  <2> HIDE DEF s
  <2>2. s \o << >> = s
    BY <2>1, ConcatEmptySeq
  <2> DEFINE R == {}
  <2>3. /\ Ended(s, R) /\ s = s \o << >>
        /\ \A r \in R : \A i \in 1..Len(s) : s[i].rank <= r /\ r \in Nat
    BY <2>1, <2>2
  <2> HIDE DEF R
  <2>4. FramingOf(s)
    BY <1>3, <2>1, <2>3, PrefixFramed
  <2> QED
    BY <2>1, <2>4, FramingIsNext
<1>8. ASSUME ~Open' PROVE Refines
  <2>1. queue # << >> /\ DOMAIN queue = 1..Len(queue)
    BY SendsFacts, Typed DEF LiveInv
  <2>2. /\ LastRank \in Nat /\ First.rank >= LastRank
        /\ \A i \in 1..Len(queue) :
              resp[queue[i]].rank \in Nat /\ resp[queue[i]].rank >= First.rank
    BY <2>1, RankFacts DEF OrderInv
  <2>3. CASE First.rank = LastRank
    BY <1>6, <1>8, <2>3, RefinesEnd
  <2>4. CASE First.rank # LastRank
    <3>1. ~Open
      BY <1>1, <2>1, <2>2, <2>4 DEF Open
    <3>2. Succeeds(LastRank, LastRank')
      BY <1>6, <2>1, <2>4 DEF OrderInv, Chained
    <3> QED
      BY <1>1, <1>6, <2>2, <3>1, <3>2, RefinesNew
  <2> QED
    BY <2>3, <2>4
<1> QED
  BY <1>1, <1>4, <1>6, <1>7, <1>8

\* ymo_http_session_complete_response: the next response comes to the front.
LEMMA OutputCompleted ==
    ASSUME LiveInv, LiveInv', Sends, StreamInv, OrderInv, "COMPLETE" \in First.flags,
           Chain # << >>, wire' = wire \o Chain, sbuf' = << >>, queue' = Tail(queue),
           \A i \in 1..Len(queue) : i # 1 => resp'[queue[i]] = resp[queue[i]]
    PROVE  StreamInv' /\ Chained' /\ Refines /\ LastQueued' = LastQueued /\ FramingExact'
<1>1. /\ LastRank' = First.rank /\ Sent' = wire \o Chain /\ FramingExact'
      /\ ~Open' => Refines
  BY OutputWhole
<1>2. /\ wire \o Chain \in Seq(Pieces)
      /\ Ordered(wire \o Chain) /\ Framed(wire \o Chain) /\ Ended(wire \o Chain, {})
      /\ \A i \in 1..Len(wire \o Chain) : (wire \o Chain)[i].rank <= First.rank
      /\ First.rank \in Nat
  BY ChainFacts
<1>3. /\ queue # << >> /\ queue' \in Seq(Nat) /\ Len(queue') = Len(queue) - 1
      /\ Len(queue) \in Nat /\ Len(queue) >= 1
      /\ \A i \in 1..(Len(queue) - 1) : queue'[i] = queue[i + 1]
  BY SendsFacts, Popped
<1>4. ASSUME NEW i \in 1..Len(queue')
      PROVE  /\ i + 1 \in 1..Len(queue) /\ i + 1 > 1 /\ queue'[i] = queue[i + 1]
             /\ resp'[queue'[i]] = resp[queue[i + 1]]
  <2>1. i + 1 \in 1..Len(queue) /\ i + 1 > 1 /\ i + 1 # 1 /\ i \in 1..(Len(queue) - 1)
    BY <1>3
  <2> QED
    BY <1>3, <2>1
<1>5. \A i \in 1..Len(queue) :
         resp[queue[i]].rank \in Nat /\ (i > 1 => resp[queue[i]].rank > First.rank)
  BY RankFacts DEF OrderInv
<1>6. ~Open'
  <2>1. DOMAIN queue' = 1..Len(queue')
    BY <1>3, LenProperties
  <2>2. ASSUME NEW i \in 1..Len(queue') PROVE resp'[queue'[i]].rank # First.rank
    BY <1>2, <1>4, <1>5
  <2> QED
    BY <1>1, <2>1, <2>2 DEF Open
<1>7. CASE queue' = << >>
  <2>1. StreamInv'
    BY <1>1, <1>2, <1>7 DEF StreamInv
  <2>2. Len(queue') = 0 /\ Len(queue) = 1
    <3>1. Len(queue') = 0
      BY <1>7, EmptySeq
    <3> QED
      BY <1>3, <3>1
  <2>3. LastQueued' = LastQueued
    BY <1>1, <1>3, <1>7, <2>2 DEF LastQueued, First
  <2>4. Chained'
    <3> DEFINE n == Len(queue')
    <3>1. n = 0
      BY <2>2
    <3> HIDE DEF n
    <3>2. \A i \in 1..(n - 1) : FALSE
      BY <3>1
    <3>3. \A i \in 1..(n - 1) : Succeeds(resp'[queue'[i]].rank, resp'[queue'[i + 1]].rank)
      BY <3>2
    <3> QED
      BY <1>7, <3>3 DEF Chained, n
  <2> QED
    BY <1>1, <1>6, <2>1, <2>3, <2>4
<1>8. CASE queue' # << >>
  <2>1. Len(queue') \in Nat /\ 1 \in 1..Len(queue') /\ Len(queue') \in 1..Len(queue')
    BY <1>3, <1>8, EmptySeq
  <2>2. /\ First' = resp[queue[2]] /\ 2 \in 1..Len(queue) /\ 1 + 1 = 2 /\ 2 > 1
        /\ queue[2] \in 1..Len(resp)
    BY <1>4, <2>1 DEF First, LiveInv, QueueInv
  <2>3. /\ "STARTED" \notin First'.flags /\ "TERM" \notin First'.flags
        /\ First'.rank \in Nat /\ First'.rank > First.rank
    <3>1. "STARTED" \notin resp[queue[2]].flags
      BY <2>2 DEF LiveInv, QueueInv
    <3>2. Consistent(resp[queue[2]])
      BY <2>2 DEF LiveInv
    <3> QED
      BY <1>5, <2>2, <3>1, <3>2 DEF Consistent
  <2>4. Ended(wire \o Chain, {First'.rank}) /\ Begins(wire \o Chain, First')
    <3> DEFINE s == wire \o Chain
    <3>1. s \in Seq(Pieces) /\ Ended(s, {}) /\ \A i \in 1..Len(s) : s[i].rank <= First.rank
      BY <1>2
    <3> HIDE DEF s
    <3>2. Ended(s, {First'.rank}) /\ Begins(s, First')
      BY <1>2, <2>3, <3>1, StreamFresh
    <3> QED
      BY <3>2 DEF s
  <2>5. StreamInv'
    BY <1>1, <1>2, <1>8, <2>4 DEF StreamInv
  <2>6. LastQueued' = LastQueued
    <3>1. Len(queue') + 1 = Len(queue)
      BY <1>3
    <3>2. resp'[queue'[Len(queue')]] = resp[queue[Len(queue)]]
      BY <1>4, <2>1, <3>1
    <3> QED
      BY <1>3, <1>8, <3>2 DEF LastQueued
  <2>7. Chained'
    <3>1. Succeeds(resp[queue[1]].rank, resp[queue[2]].rank)
      <4>1. 1 \in 1..(Len(queue) - 1) /\ 1 + 1 = 2
        BY <1>3, <2>1
      <4> QED
        BY <4>1 DEF OrderInv, Chained
    <3>2. Succeeds(LastRank', First'.rank)
      BY <1>1, <2>2, <3>1 DEF First
    <3>3. ASSUME NEW i \in 1..(Len(queue') - 1)
          PROVE  Succeeds(resp'[queue'[i]].rank, resp'[queue'[i + 1]].rank)
      <4>1. /\ i \in 1..Len(queue') /\ i + 1 \in 1..Len(queue') /\ i + 1 \in 1..(Len(queue) - 1)
        BY <1>3, <2>1, SMTT(40)
      <4>2. Succeeds(resp[queue[i + 1]].rank, resp[queue[(i + 1) + 1]].rank)
        BY <4>1 DEF OrderInv, Chained
      <4> QED
        BY <1>4, <4>1, <4>2
    <3> QED
      BY <3>2, <3>3 DEF Chained
  <2> QED
    BY <1>1, <1>6, <2>5, <2>6, <2>7
<1> QED
  BY <1>7, <1>8

-----------------------------------------------------------------------------
(* Every step keeps the invariant and is a step of YmoResponses *)

\* What a step of an HTTP session must show.
OutputStep ==
    /\ FramingExact' /\ Refines
    /\ proto' = "http" => StreamInv' /\ OrderInv'

LEMMA OrderKept ==
    ASSUME OrderInv, Chained', LastQueued' = LastQueued, UNCHANGED <<nreq, sstate>>,
           Own' <=> Own
    PROVE  OrderInv'
BY DEF OrderInv

\* Nothing that the output depends on changes.
LEMMA OutputQuiet ==
    ASSUME LiveInv, FramingExact, StreamInv, OrderInv, UNCHANGED <<resp, queue, sbuf, wire>>
    PROVE  /\ StreamInv' /\ Chained' /\ Refines /\ FramingExact'
           /\ LastQueued' = LastQueued
<1>1. \A i \in 1..Len(queue) : Alike(resp'[queue[i]], resp[queue[i]])
  BY DEF Alike
<1> QED
  BY <1>1, OutputSame

\* The step changes neither, and the exchange keeps its response or has none.
LEMMA QuietStep ==
    ASSUME LiveInv, FramingExact, StreamInv, OrderInv, UNCHANGED <<resp, queue, sbuf, wire>>,
           proto' = "http" => UNCHANGED <<nreq, sstate>> /\ (Own' <=> Own)
    PROVE  OutputStep
BY OutputQuiet, OrderKept DEF OutputStep

LEMMA OutputReadHeaders ==
    ASSUME LiveInv, LiveInv', FramingExact, StreamInv, OrderInv, NEW k \in Kinds, ReadHeaders(k)
    PROVE  OutputStep
<1> DEFINE final == Len(resp) + 1
           expects == k.body /\ "EXPECT" \in k.flags
<1>1. /\ nreq' = nreq + 1 /\ nreq \in Nat /\ Len(resp) \in Nat
      /\ \A r \in 1..Len(resp) : resp'[r] = resp[r]
      /\ ~expects => UNCHANGED <<queue, tx>> /\ frame' = "headers"
      /\ expects => /\ Len(resp') = Len(resp) + 2
                    /\ resp'[final + 1] = Continue(nreq + 1)
                    /\ frame' = "expect" /\ queue' = Append(queue, final + 1)
  BY ReadHeadersFacts
<1>2. UNCHANGED <<proto, sstate, sbuf, wire>>
  BY DEF ReadHeaders
<1>3. LastQueued = 2 * nreq /\ sstate # "ERROR"
  <2>1. frame = "none" /\ sstate # "ERROR" /\ Parsing.state = "CONNECTED"
    BY DEF ReadHeaders, Reading
  <2>2. ex.state # "BODY"
    BY <2>1 DEF Parsing
  <2> QED
    BY <2>1, <2>2 DEF OrderInv, Own
<1>4. \A i \in 1..Len(queue) : queue[i] \in 1..Len(resp) /\ resp'[queue[i]] = resp[queue[i]]
  BY <1>1 DEF LiveInv, QueueInv
<1>5. Own' /\ 2 * nreq' = 2 * (nreq + 1)
  BY <1>1 DEF Own
<1>6. CASE ~expects
  <2>1. \A i \in 1..Len(queue) : Alike(resp'[queue[i]], resp[queue[i]])
    BY <1>4 DEF Alike
  <2>2. /\ StreamInv' /\ Chained' /\ Refines /\ LastQueued' = LastQueued
        /\ FramingExact' = FramingExact
    BY <1>1, <1>2, <1>6, <2>1, OutputSame
  <2>3. Succeeds(LastQueued', 2 * nreq')
    BY <1>1, <1>3, <1>5, <2>2, SucceedsFacts
  <2> QED
    BY <1>5, <2>2, <2>3 DEF OutputStep, OrderInv
<1>7. CASE expects
  <2> DEFINE r == final + 1
             v == Continue(nreq + 1)
  <2>1. nreq + 1 \in Nat /\ nreq + 1 > 0 /\ {} \in SUBSET ReqFlags
    BY <1>1
  <2>2. v.rank = 2 * (nreq + 1) - 1 /\ "STARTED" \notin v.flags
    BY <2>1, CreatedFacts
  <2> HIDE DEF v
  <2>3. r \in Nat /\ r \in 1..Len(resp') /\ queue' = Append(queue, r) /\ resp'[r] = v
    BY <1>1, <1>7 DEF v
  <2> HIDE DEF r, final
  <2>4. Succeeds(LastQueued, resp'[r].rank)
    BY <1>1, <1>3, <2>2, <2>3, SucceedsFacts
  <2>5. /\ StreamInv' /\ Chained' /\ Refines /\ LastQueued' = resp'[r].rank
        /\ FramingExact' = FramingExact
    BY <1>2, <1>4, <2>2, <2>3, <2>4, OutputAdd
  <2>6. Succeeds(LastQueued', 2 * nreq')
    BY <1>1, <1>5, <2>2, <2>3, <2>5, SucceedsFacts
  <2> QED
    BY <1>5, <2>5, <2>6 DEF OutputStep, OrderInv
<1> QED
  BY <1>6, <1>7

LEMMA OutputReadBad ==
    ASSUME LiveInv, LiveInv', FramingExact, StreamInv, OrderInv, ReadBad
    PROVE  OutputStep
<1>1. /\ nreq' \in 1..MaxReq /\ nreq \in Nat
      /\ Len(resp) \in Nat /\ resp' = Append(resp, ErrorResponse(nreq'))
      /\ queue' = Append(queue, Len(resp) + 1)
      /\ nreq' = nreq => Own
      /\ nreq' # nreq => nreq' = nreq + 1 /\ ex.state # "BODY"
  BY ReadBadFacts
<1>2. /\ frame = "none" /\ sstate # "ERROR" /\ sstate' = "ERROR" /\ UNCHANGED <<sbuf, wire, frame>>
  BY DEF ReadBad, Reading
<1> DEFINE v == ErrorResponse(nreq')
           r == Len(resp) + 1
<1>3. /\ v \in Response /\ v.rank = 2 * nreq' /\ "STARTED" \notin v.flags
  <2>1. nreq' \in Nat /\ nreq' > 0 /\ {} \in SUBSET ReqFlags
    BY <1>1
  <2> QED
    BY <2>1, CreatedFacts
<1> HIDE DEF v
<1>4. /\ r \in Nat /\ r \in 1..Len(resp') /\ resp'[r] = v
      /\ \A i \in 1..Len(resp) : resp'[i] = resp[i]
  <2>1. resp \in Seq(Response)
    BY DEF LiveInv, SessionType
  <2>2. resp' = Append(resp, v)
    BY <1>1 DEF v
  <2>3. /\ Len(resp') = Len(resp) + 1 /\ resp'[Len(resp) + 1] = v
        /\ \A i \in 1..Len(resp) : resp'[i] = resp[i]
    BY <1>3, <2>1, <2>2, AppendProperties
  <2> QED
    BY <1>1, <2>3
<1>5. \A i \in 1..Len(queue) : resp'[queue[i]] = resp[queue[i]]
  BY <1>4 DEF LiveInv, QueueInv
<1>6. Succeeds(LastQueued, 2 * nreq')
  <2>1. CASE nreq' = nreq
    BY <1>1, <2>1 DEF OrderInv
  <2>2. CASE nreq' # nreq
    <3>1. ~Own
      BY <1>1, <1>2, <2>2 DEF Own
    <3>2. LastQueued = 2 * nreq
      BY <1>2, <3>1 DEF OrderInv
    <3> QED
      BY <1>1, <2>2, <3>2, SucceedsFacts
  <2> QED
    BY <2>1, <2>2
<1>7. queue' = Append(queue, r)
  BY <1>1
<1> HIDE DEF r
<1>8. StreamInv' /\ Chained' /\ Refines /\ FramingExact' = FramingExact
  <2>1. Succeeds(LastQueued, resp'[r].rank) /\ "STARTED" \notin resp'[r].flags
    BY <1>3, <1>4, <1>6
  <2> QED
    BY <1>2, <1>4, <1>5, <1>7, <2>1, OutputAdd
<1>9. ~Own' /\ sstate' = "ERROR"
  BY <1>2 DEF Own
<1> QED
  BY <1>8, <1>9 DEF OutputStep, OrderInv

LEMMA OutputHandler ==
    ASSUME LiveInv, LiveInv', FramingExact, StreamInv, OrderInv, frame = "handler",
           NEW v, NEW keep, HandlerLeaves(v, keep)
    PROVE  OutputStep
<1>1. /\ ex.resp \in 1..Len(resp) /\ nreq \in Nat
      /\ \A i \in 1..Len(queue) : queue[i] # ex.resp
  BY HandlerFacts
<1>2. /\ resp' = [resp EXCEPT ![ex.resp] = v] /\ queue' = Append(queue, ex.resp)
      /\ UNCHANGED <<proto, sbuf, wire, nreq>> /\ ex' = keep /\ keep.state # "BODY"
      /\ frame' = "none" /\ v \in Response /\ Consistent(v) /\ v.rank = 2 * nreq
      /\ "STARTED" \notin v.flags
  BY DEF HandlerLeaves, HandlerReturns, AddResponse
<1>3. /\ resp'[ex.resp] = v /\ Len(resp') = Len(resp)
      /\ \A i \in 1..Len(queue) : resp'[queue[i]] = resp[queue[i]]
  BY <1>1, <1>2, Replaced DEF LiveInv, QueueInv
<1>4. Succeeds(LastQueued, 2 * nreq)
  BY DEF OrderInv, Own
<1> DEFINE r == ex.resp
<1>5. /\ r \in Nat /\ r \in 1..Len(resp') /\ queue' = Append(queue, r)
      /\ Succeeds(LastQueued, resp'[r].rank) /\ "STARTED" \notin resp'[r].flags
      /\ resp'[r].rank = 2 * nreq
  BY <1>1, <1>2, <1>3, <1>4, Typed DEF LiveInv
<1> HIDE DEF r
<1>6. /\ StreamInv' /\ Chained' /\ Refines /\ LastQueued' = resp'[r].rank
      /\ FramingExact' = FramingExact
  BY <1>2, <1>3, <1>5, OutputAdd
<1>7. ~Own' /\ LastQueued' = 2 * nreq'
  BY <1>2, <1>5, <1>6 DEF Own
<1> QED
  BY <1>6, <1>7 DEF OutputStep, OrderInv

LEMMA OutputApp ==
    ASSUME LiveInv, FramingExact, StreamInv, OrderInv, NEW r, NEW v, AppLeaves(r, v)
    PROVE  OutputStep
<1>1. /\ r \in 1..Len(resp) /\ v \in Response /\ Consistent(v) /\ Alike(v, resp[r])
      /\ resp' = [resp EXCEPT ![r] = v]
      /\ UNCHANGED <<sstate, nreq, ex, queue, sbuf, wire, frame>>
  BY DEF AppLeaves
<1>2. resp'[r] = v /\ \A k \in 1..Len(resp) : k # r => resp'[k] = resp[k]
  BY <1>1, Replaced
<1>3. \A i \in 1..Len(queue) : Alike(resp'[queue[i]], resp[queue[i]])
  BY <1>1, <1>2 DEF Alike, LiveInv, QueueInv
<1>4. /\ StreamInv' /\ Chained' /\ Refines /\ LastQueued' = LastQueued
      /\ FramingExact' = FramingExact
  BY <1>1, <1>3, OutputSame
<1>5. Own' <=> Own
  BY <1>1 DEF Own
<1> QED
  BY <1>1, <1>4, <1>5, OrderKept DEF OutputStep

LEMMA WritingKeepsOwn ==
    ASSUME LiveInv, Writing, frame' = Resume, UNCHANGED <<ex, sstate>>
    PROVE  Own' <=> Own
BY ResumeFacts DEF Own

LEMMA OutputKeptStep ==
    ASSUME LiveInv, Sends, StreamInv, OrderInv, frame' = Resume,
           UNCHANGED <<nreq, sstate, ex, queue>>,
           resp' = [resp EXCEPT ![queue[1]] = Emptied(Begun)],
           NEW k \in 0..Len(Chain), wire' = wire \o SubSeq(Chain, 1, k),
           sbuf' = SubSeq(Chain, k + 1, Len(Chain))
    PROVE  OutputStep
<1>1. StreamInv' /\ Chained' /\ Refines /\ LastQueued' = LastQueued /\ FramingExact'
  BY OutputKept
<1>2. Own' <=> Own
  BY WritingKeepsOwn DEF Sends
<1> QED
  BY <1>1, <1>2, OrderKept DEF OutputStep

LEMMA OutputWriteComplete ==
    ASSUME LiveInv, LiveInv', StreamInv, OrderInv, WriteComplete
    PROVE  OutputStep
<1> DEFINE rs == [resp EXCEPT ![queue[1]] = Emptied(Begun)]
<1>1. /\ Sends /\ Chain # << >> /\ "COMPLETE" \in First.flags /\ wire' = wire \o Chain
      /\ Transition(rs) \/ Completed(rs)
  BY DEF WriteComplete
<1>2. CASE Transition(rs)
  <2>1. queue' = << >> /\ sbuf' = << >> /\ proto' = "next"
    BY <1>2 DEF Transition, FreeSession
  <2>2. ~Open'
    BY <2>1 DEF Open
  <2>3. FramingExact' /\ Refines
    BY <1>1, <2>1, <2>2, OutputWhole
  <2> QED
    BY <2>1, <2>3 DEF OutputStep
<1>3. CASE Completed(rs)
  <2>1. /\ resp' = [rs EXCEPT ![queue[1]].st = "freed"]
        /\ queue' = Tail(queue) /\ sbuf' = << >> /\ frame' = Resume
        /\ UNCHANGED <<sstate, nreq, ex>>
    BY <1>3 DEF Completed
  <2>2. /\ rs \in Seq(Response) /\ Len(rs) = Len(resp)
        /\ \A i \in 1..Len(queue) :
              /\ queue[i] \in 1..Len(resp)
              /\ i # 1 => queue[i] # queue[1] /\ rs[queue[i]] = resp[queue[i]]
    BY <1>1, WrittenFacts
  <2> HIDE DEF rs
  <2>3. \A i \in 1..Len(queue) : i # 1 => resp'[queue[i]] = resp[queue[i]]
    BY <2>1, <2>2
  <2>4. StreamInv' /\ Chained' /\ Refines /\ LastQueued' = LastQueued /\ FramingExact'
    BY <1>1, <2>1, <2>3, OutputCompleted
  <2>5. Own' <=> Own
    BY <1>1, <2>1, WritingKeepsOwn DEF Sends
  <2> QED
    BY <2>1, <2>4, <2>5, OrderKept DEF OutputStep
<1> QED
  BY <1>1, <1>2, <1>3

\* close_and_free_connection, in any state.
LEMMA OutputClose ==
    ASSUME FramingExact, NEW rs, CloseConn(rs) PROVE OutputStep
<1>1. queue' = << >> /\ wire' = wire /\ proto' = "gone"
  BY DEF CloseConn, FreeSession
<1> QED
  BY <1>1, OutputEnds DEF OutputStep

OutputInv ==
    /\ FramingExact
    /\ proto = "http" => StreamInv /\ OrderInv

\* A step of a session that speaks HTTP.
LEMMA OutputHttp ==
    ASSUME LiveInv, LiveInv', FramingExact, StreamInv, OrderInv, [Next]_vars
    PROVE  OutputStep
<1>1. ASSUME NEW k \in Kinds, ReadHeaders(k) PROVE OutputStep
  BY <1>1, OutputReadHeaders
<1>2. CASE ReadBody
  <2>1. UNCHANGED <<resp, queue, sbuf, wire, nreq, sstate>> /\ Own /\ Own'
    BY <1>2 DEF ReadBody, Reading, Own
  <2> QED
    BY <2>1, QuietStep
<1>3. CASE ReadBad
  BY <1>3, OutputReadBad
<1>4. CASE ReadLate
  <2>1. UNCHANGED <<resp, queue, sbuf, wire>> /\ proto' # "http"
    BY <1>4 DEF ReadLate
  <2> QED
    BY <2>1, QuietStep
<1>5. CASE HeaderCallback
  <2>1. ASSUME CloseConn(resp) PROVE OutputStep
    BY <2>1, OutputClose
  <2>2. ASSUME frame' = (IF ex.state = "COMPLETE" THEN "handler" ELSE "none"),
               UNCHANGED <<proto, cst, rx, tx, stop, sstate, nreq, ex, resp, queue, sbuf, wire>>
        PROVE  OutputStep
    <3>1. frame = "headers" /\ ex.state \in {"BODY", "COMPLETE"} /\ sstate # "ERROR"
      BY <1>5 DEF HeaderCallback, LiveInv, ExchangeInv
    <3>2. Own /\ Own'
      BY <2>2, <3>1 DEF Own
    <3> QED
      BY <2>2, <3>2, QuietStep
  <2> QED
    BY <1>5, <2>1, <2>2 DEF HeaderCallback
<1>6. ASSUME NEW n \in 0..MaxItems, HandlerOkay(n) PROVE OutputStep
  BY <1>6, HandlerOkayLeaves, OutputHandler DEF HandlerOkay
<1>7. ASSUME NEW n \in 0..MaxItems, NEW l \in BOOLEAN, NEW s \in BOOLEAN, HandlerBlocked(n, l, s)
      PROVE  OutputStep
  BY <1>7, HandlerBlockedLeaves, OutputHandler DEF HandlerBlocked
<1>8. CASE UpgradeHandled \/ UpgradeRefused
  BY <1>8, UpgradeLeaves, OutputHandler DEF UpgradeHandled, UpgradeRefused
<1>9. CASE HandlerFails \/ WriteFails \/ Close
  BY <1>9, OutputClose DEF HandlerFails, WriteFails, Close
<1>10. CASE App
  BY <1>10, AppStepLeaves, OutputApp DEF App
<1>11. CASE WriteNothing
  <2>1. /\ UNCHANGED <<resp, queue, sbuf, wire, nreq, sstate, ex>>
        /\ Writing /\ frame' = Resume
    BY <1>11 DEF WriteNothing
  <2>2. Own' <=> Own
    BY <2>1, WritingKeepsOwn
  <2> QED
    BY <2>1, <2>2, QuietStep
<1>12. ASSUME NEW k \in 0..(MaxItems + 1), WriteBlocked(k) PROVE OutputStep
  <2>1. Sends /\ k \in 0..Len(Chain)
    <3>1. Sends /\ k < Len(Chain)
      BY <1>12 DEF WriteBlocked
    <3>2. Len(Chain) \in Nat
      BY <3>1, SendsFacts, LenProperties
    <3> QED
      BY <3>1, <3>2
  <2> QED
    BY <1>12, <2>1, OutputKeptStep DEF WriteBlocked
<1>13. CASE WriteAll
  <2>1. Sends /\ Chain \in Seq(Pieces) /\ Len(Chain) \in Nat /\ Len(Chain) \in 0..Len(Chain)
    <3>1. Sends
      BY <1>13 DEF WriteAll
    <3>2. Chain \in Seq(Pieces) /\ Len(Chain) \in Nat
      BY <3>1, SendsFacts, LenProperties
    <3> QED
      BY <3>1, <3>2
  <2>2. SubSeq(Chain, 1, Len(Chain)) = Chain
    BY <2>1, SubSeqFull
  <2>3. SubSeq(Chain, Len(Chain) + 1, Len(Chain)) = << >>
    BY <2>1, SubSeqEmpty
  <2>4. /\ wire' = wire \o SubSeq(Chain, 1, Len(Chain))
        /\ sbuf' = SubSeq(Chain, Len(Chain) + 1, Len(Chain))
        /\ resp' = [resp EXCEPT ![queue[1]] = Emptied(Begun)] /\ frame' = Resume
        /\ UNCHANGED <<nreq, sstate, ex, queue>>
    BY <1>13, <2>2, <2>3 DEF WriteAll
  <2> QED
    BY <2>1, <2>4, OutputKeptStep
<1>14. CASE WriteComplete
  BY <1>14, OutputWriteComplete
<1>15. CASE StopGraceful
  <2>1. UNCHANGED <<resp, queue, sbuf, wire, nreq, sstate>> /\ (Own' <=> Own)
    BY <1>15 DEF StopGraceful, Own
  <2> QED
    BY <2>1, QuietStep
<1>16. CASE UNCHANGED vars
  <2>1. UNCHANGED <<resp, queue, sbuf, wire, nreq, sstate>> /\ (Own' <=> Own)
    BY <1>16 DEF vars, Own
  <2> QED
    BY <2>1, QuietStep
<1> QED
  BY <1>1, <1>2, <1>3, <1>4, <1>5, <1>6, <1>7, <1>8, <1>9, <1>10, <1>11, <1>12, <1>13, <1>14,
     <1>15, <1>16 DEF Next, Read, Handler, Write

\* Once the session is over, or if none was made, nothing is sent.
LEMMA OutputOver ==
    ASSUME LiveInv, FramingExact, proto # "http", [Next]_vars
    PROVE  OutputStep
<1>1. frame = "none"
  BY DEF LiveInv, ExchangeInv
<1>2. CASE Close
  BY <1>2, OutputClose DEF Close
<1>3. CASE StopGraceful \/ UNCHANGED vars
  <2>1. UNCHANGED <<proto, resp, queue, wire>>
    BY <1>3 DEF StopGraceful, vars
  <2>2. LastRank' = LastRank /\ FramingExact' = FramingExact /\ Open' = Open
    BY <2>1 DEF LastRank, FramingExact, Items, Open
  <2> QED
    BY <2>1, <2>2, RefinesStutter DEF OutputStep
<1>4. ~Read /\ ~App /\ ~Write
  BY DEF Read, ReadHeaders, ReadBody, ReadBad, ReadLate, Reading, App, AppAppend, AppFinish,
         Write, WriteNothing, WriteFails, WriteAll, WriteComplete, WriteBlocked, Sends, Writing
<1>5. ~HeaderCallback /\ ~Handler
  BY <1>1 DEF HeaderCallback, Handler, HandlerOkay, HandlerBlocked, HandlerFails, UpgradeHandled,
              UpgradeRefused
<1> QED
  BY <1>2, <1>3, <1>4, <1>5 DEF Next

LEMMA OutputNext == LiveInv /\ LiveInv' /\ OutputInv /\ [Next]_vars => OutputInv' /\ Refines
BY OutputHttp, OutputOver DEF OutputInv, OutputStep

LEMMA OutputInit == Init => OutputInv
<1> SUFFICES ASSUME Init PROVE OutputInv
  OBVIOUS
<1>1. /\ wire = << >> /\ sbuf = << >> /\ queue = << >> /\ nreq = 0 /\ ex = NoExchange
      /\ frame = "none"
  BY DEF Init
<1>2. /\ DOMAIN wire = {} /\ Len(wire) = 0 /\ Len(queue) = 0
  BY <1>1
<1>3. FramingExact
  BY <1>2, Zenon DEF FramingExact
<1>4. Sent = << >>
  BY <1>1, EmptySeq, ConcatEmptySeq DEF Sent
<1>5. \A i \in 1..Len(Sent) : FALSE
  BY <1>4
<1>6. StreamInv
  BY <1>1, <1>5 DEF StreamInv, Ordered, Framed, Ended
<1>7. LastQueued = 0 /\ ~Own /\ LastRank = 0
  BY <1>1 DEF LastQueued, LastRank, Own, NoExchange
<1>8. Chained
  BY <1>1, <1>2 DEF Chained
<1>9. OrderInv
  BY <1>1, <1>7, <1>8 DEF OrderInv
<1> QED
  BY <1>3, <1>6, <1>9 DEF OutputInv

\* The framing of the output is right for every interleaving of requests,
\* answers and partial sends: one header section first, a computed
\* Content-Length that counts the items, chunks closed by one last chunk, and no
\* response cut short before the next (ymo_http_response_start,
\* ymo_http_response_body_get, ymo_proto_http_write_cb).
THEOREM FramingStaysExact == Spec => []FramingExact
<1>1. OutputInv => FramingExact
  BY DEF OutputInv
<1> QED
  BY <1>1, LiveInvariant, OutputInit, OutputNext, PTL DEF Spec

\* The session implements YmoResponses: every request is answered once, in the
\* order of the requests, at most one interim response goes before the answer,
\* and no response begins before the one before it has ended
\* (ymo_http_session_add_response, ymo_http_session_complete_response).
THEOREM AnswersInOrder == Spec => ResponsesInOrder
<1>1. Init => Order!InitialState
  BY DEF Init, Order!InitialState, LastRank
<1> QED
  BY <1>1, LiveInvariant, OutputInit, OutputNext, PTL
     DEF Spec, ResponsesInOrder, Order!Spec, Refines, Open
=============================================================================
