------------------------ MODULE YmoHttpSessionProofs ------------------------
(***************************************************************************)
(* Theorems about YmoHttpSession, for every number of requests, body items *)
(* and queued responses and every set of requests: the list of responses   *)
(* holds no bad pointer and the write watcher never misses a response.     *)
(***************************************************************************)
EXTENDS YmoHttpSession, SequenceTheorems, FiniteSetTheorems, TLAPS

LEMMA Bounds == MaxReq \in Nat /\ MaxItems \in Nat
BY HttpSessionAssumption

USE Bounds

-----------------------------------------------------------------------------
(* The inductive invariant *)

ReqFlags == {"KEEPALIVE", "CHUNKS", "EXPECT", "UPGRADE"}
Framings == {"none", "length", "total", "chunked"}

Response ==
    [st : {"live", "freed"}, rank : Nat, flags : SUBSET Flags, body : Nat, sent : Nat,
     status : BOOLEAN, length : BOOLEAN, frame : Framings,
     holds : BOOLEAN, upgrade : BOOLEAN]
Exchange ==
    [state : {"NONE", "CONNECTED", "BODY", "COMPLETE"}, flags : SUBSET ReqFlags, resp : Nat]
Pieces == [rank : Nat, kind : {"head", "item", "term"}, frame : Framings, total : Nat]

SessionType ==
    /\ proto \in {"http", "none", "next", "gone", "broken"}
    /\ cst \in {"open", "shutdown", "closed"}
    /\ rx \in BOOLEAN /\ tx \in BOOLEAN /\ stop \in BOOLEAN
    /\ sstate \in {"OPEN", "ERROR"}
    /\ nreq \in 0..MaxReq
    /\ ex \in Exchange
    /\ resp \in Seq(Response)
    /\ queue \in Seq(Nat)
    /\ sbuf \in Seq(Pieces)
    /\ wire \in Seq(Pieces)
    /\ frame \in {"none", "expect", "headers", "handler"}

\* What the flags of one response say of its other fields.
Consistent(p) ==
    /\ p.body + p.sent <= MaxItems
    /\ "READY" \in p.flags => "CHUNKS" \in p.flags \/ "COMPLETE" \in p.flags
    /\ "COMPLETE" \in p.flags => "READY" \in p.flags
    /\ "STARTED" \in p.flags => p.status /\ p.frame # "none"
    /\ "STARTED" \notin p.flags => p.sent = 0 /\ p.frame = "none" /\ "TERM" \notin p.flags
    /\ p.frame = "chunked" <=> "CHUNKED" \in p.flags
    /\ "TERM" \in p.flags => "COMPLETE" \in p.flags /\ "CHUNKED" \in p.flags /\ p.body = 0
    /\ p.frame = "total" => "COMPLETE" \in p.flags /\ p.body = 0

\* The exchange has a response of its own: it was not handed to the list yet.
Own == frame # "none" \/ (ex.state = "BODY" /\ sstate # "ERROR")

\* The exchange: a callback that is under way belongs to a request of an open
\* session, whose response is as ymo_http_session_init_response left it.
ExchangeInv ==
    /\ frame \in {"expect", "headers"} => ex.state \in {"BODY", "COMPLETE"}
    /\ frame = "handler" => ex.state = "COMPLETE"
    /\ frame # "none" => proto = "http" /\ sstate # "ERROR"
    /\ frame = "expect" => tx
    /\ Own => /\ ex.resp \in 1..Len(resp) /\ nreq > 0
              /\ resp[ex.resp] = NewResponse(2 * nreq, ex.flags)
              /\ \A i \in 1..Len(queue) : resp[queue[i]].rank < 2 * nreq

\* The list: live responses in the order of their ranks, of which only the
\* first was started.
QueueInv ==
    /\ \A i \in 1..Len(queue) :
          /\ queue[i] \in 1..Len(resp)
          /\ resp[queue[i]].st = "live"
          /\ resp[queue[i]].rank > 0 /\ resp[queue[i]].rank <= 2 * nreq
          /\ i > 1 => "STARTED" \notin resp[queue[i]].flags
    /\ \A i, j \in 1..Len(queue) : i < j => resp[queue[i]].rank < resp[queue[j]].rank

\* The send buffer belongs to the first response.
BufferInv ==
    /\ queue = << >> => sbuf = << >>
    /\ \A i \in 1..Len(sbuf) : sbuf[i].rank = First.rank
    /\ queue # << >> =>
          /\ ~Started => sbuf = << >>
          /\ "TERM" \notin First.flags => Len(sbuf) <= First.sent + 1
          /\ "TERM" \in First.flags => Len(sbuf) <= First.sent + 2

LiveInv ==
    /\ SessionType
    /\ \A r \in 1..Len(resp) : Consistent(resp[r])
    /\ ExchangeInv
    /\ QueueInv
    /\ BufferInv

\* NoStall, also while the read callback runs.
WatcherInv ==
    (/\ proto = "http" /\ cst = "open" /\ Ready
     /\ Started \/ ~Buffers(First)
     /\ First.status => Chain # << >>)
    => tx

-----------------------------------------------------------------------------
(* What the steps of a response's life do to one response *)

LEMMA NewIsConsistent ==
    ASSUME NEW n \in Nat, NEW f \in SUBSET ReqFlags
    PROVE  NewResponse(n, f) \in Response /\ Consistent(NewResponse(n, f))
BY DEF NewResponse, Response, Consistent, Flags, ReqFlags, Framings

\* ymo_http_response_issue and ymo_http_response_finish of a response that is
\* not complete.
LEMMA IssueKeeps ==
    ASSUME NEW p \in Response, Consistent(p), "COMPLETE" \notin p.flags
    PROVE  /\ Issue(p) \in Response /\ Consistent(Issue(p))
           /\ Issue(p).st = p.st /\ Issue(p).rank = p.rank /\ Issue(p).sent = p.sent
           /\ Issue(p).body = p.body /\ Issue(p).frame = p.frame
           /\ Issue(p).flags = p.flags \cup {"READY", "COMPLETE"}
BY DEF Issue, Response, Consistent, Flags

\* ymo_http_response_start: the framing is chosen once.
LEMMA StartKeeps ==
    ASSUME NEW p \in Response, Consistent(p)
    PROVE  /\ Start(p) \in Response
           /\ Start(p).st = p.st /\ Start(p).rank = p.rank /\ Start(p).sent = p.sent
           /\ Start(p).body = p.body /\ Start(p).status = p.status
           /\ Start(p).frame # "none" \/ "STARTED" \in p.flags
           /\ "STARTED" \in p.flags => Start(p) = p
           /\ "STARTED" \in Start(p).flags
           /\ \A f \in Flags \ {"STARTED", "CHUNKED"} : f \in Start(p).flags <=> f \in p.flags
           /\ Start(p).frame = "chunked" <=> "CHUNKED" \in Start(p).flags
           /\ Start(p).frame = "total" => "COMPLETE" \in p.flags
<1>1. CASE "STARTED" \in p.flags
  BY <1>1 DEF Start, Consistent
<1>2. CASE "STARTED" \notin p.flags
  <2> DEFINE f == CASE p.length -> "length"
                    [] ~p.length /\ "COMPLETE" \in p.flags -> "total"
                    [] OTHER -> "chunked"
  <2> DEFINE c == IF f = "chunked" THEN {"CHUNKED"} ELSE {}
  <2>1. /\ f \in {"length", "total", "chunked"} /\ (f = "total" => "COMPLETE" \in p.flags)
        /\ p.length \in BOOLEAN
    BY DEF Response
  <2>2. c \subseteq Flags /\ (f = "chunked" <=> "CHUNKED" \in c) /\ c \subseteq {"CHUNKED"}
    BY DEF Flags
  <2>3. Start(p) = [p EXCEPT !.frame = f, !.flags = (p.flags \cup {"STARTED"}) \cup c]
    BY <1>2 DEF Start
  <2>4. "CHUNKED" \notin p.flags /\ p.flags \subseteq Flags
    BY <1>2 DEF Consistent, Response
  <2>5. (p.flags \cup {"STARTED"}) \cup c \in SUBSET Flags
    BY <2>2, <2>4 DEF Flags
  <2> HIDE DEF f, c
  <2>6. Start(p) \in Response
    BY <2>1, <2>3, <2>5 DEF Response, Framings
  <2>7. /\ Start(p).st = p.st /\ Start(p).rank = p.rank /\ Start(p).sent = p.sent
        /\ Start(p).body = p.body /\ Start(p).status = p.status
        /\ Start(p).frame = f /\ Start(p).flags = (p.flags \cup {"STARTED"}) \cup c
    BY <2>3 DEF Response
  <2> QED
    BY <1>2, <2>1, <2>2, <2>4, <2>6, <2>7
<1> QED
  BY <1>1, <1>2

\* The response after the write callback moved its output to the send buffer.
LEMMA EmptiedKeeps ==
    ASSUME NEW p \in Response, Consistent(p), p.status
    PROVE  /\ Emptied(Start(p)) \in Response /\ Consistent(Emptied(Start(p)))
           /\ Emptied(Start(p)).st = p.st /\ Emptied(Start(p)).rank = p.rank
           /\ Emptied(Start(p)).sent = p.sent + p.body /\ Emptied(Start(p)).body = 0
           /\ Emptied(Start(p)).frame = Start(p).frame
           /\ Emptied(Start(p)).status = p.status
           /\ \A f \in Flags \ {"STARTED", "CHUNKED", "TERM"} :
                 f \in Emptied(Start(p)).flags <=> f \in p.flags
           /\ "STARTED" \in Emptied(Start(p)).flags
           /\ "CHUNKED" \in Emptied(Start(p)).flags <=> "CHUNKED" \in Start(p).flags
           /\ "TERM" \in Emptied(Start(p)).flags <=>
                 "COMPLETE" \in Start(p).flags /\ "CHUNKED" \in Start(p).flags
<1> DEFINE q == Start(p)
           t == IF {"COMPLETE", "CHUNKED"} \subseteq q.flags THEN {"TERM"} ELSE {}
           e == Emptied(q)
<1>1. /\ q \in Response
      /\ q.st = p.st /\ q.rank = p.rank /\ q.sent = p.sent
      /\ q.body = p.body /\ q.status = p.status
      /\ "STARTED" \in q.flags /\ q.frame # "none"
      /\ \A f \in Flags \ {"STARTED", "CHUNKED"} : f \in q.flags <=> f \in p.flags
      /\ q.frame = "chunked" <=> "CHUNKED" \in q.flags
      /\ q.frame = "total" => "COMPLETE" \in p.flags
      /\ "STARTED" \in p.flags => q = p
  BY StartKeeps DEF Consistent
<1>2. /\ p.body \in Nat /\ p.sent \in Nat /\ p.flags \in SUBSET Flags
      /\ q.body \in Nat /\ q.sent \in Nat /\ q.flags \in SUBSET Flags
  BY <1>1 DEF Response
<1>3. /\ t \subseteq {"TERM"} /\ "TERM" \in Flags
      /\ "TERM" \in t <=> "COMPLETE" \in q.flags /\ "CHUNKED" \in q.flags
  BY DEF Flags
<1>4. e = [q EXCEPT !.sent = q.sent + q.body, !.body = 0, !.flags = q.flags \cup t]
  BY DEF Emptied
<1> HIDE DEF q, t, e
<1>5. /\ q.sent + q.body \in Nat /\ 0 \in Nat /\ q.flags \cup t \in SUBSET Flags
  <2>1. q.sent + q.body \in Nat /\ 0 \in Nat
    BY <1>2
  <2>2. q.flags \cup t \in SUBSET Flags
    BY <1>2, <1>3, Zenon
  <2> QED
    BY <2>1, <2>2
<1>6. e \in Response
  BY <1>1, <1>4, <1>5 DEF Response
<1>7. /\ e.st = q.st /\ e.rank = q.rank /\ e.sent = q.sent + q.body /\ e.body = 0
      /\ e.frame = q.frame /\ e.status = q.status /\ e.flags = q.flags \cup t
  BY <1>1, <1>4 DEF Response
<1>8. /\ {"READY", "COMPLETE", "CHUNKS", "TERM"} \subseteq Flags \ {"STARTED", "CHUNKED"}
      /\ "TERM" \in p.flags => "COMPLETE" \in p.flags /\ "CHUNKED" \in p.flags
                               /\ "STARTED" \in p.flags
  BY DEF Flags, Consistent
<1>9. "TERM" \in e.flags <=> "COMPLETE" \in q.flags /\ "CHUNKED" \in q.flags
  BY <1>1, <1>3, <1>7, <1>8
<1>10. /\ \A f \in Flags \ {"STARTED", "CHUNKED", "TERM"} : f \in e.flags <=> f \in p.flags
       /\ "STARTED" \in e.flags
       /\ "CHUNKED" \in e.flags <=> "CHUNKED" \in q.flags
  BY <1>1, <1>3, <1>7
<1>11. /\ "READY" \in e.flags <=> "READY" \in p.flags
       /\ "COMPLETE" \in e.flags <=> "COMPLETE" \in p.flags
       /\ "CHUNKS" \in e.flags <=> "CHUNKS" \in p.flags
       /\ "COMPLETE" \in q.flags <=> "COMPLETE" \in p.flags
  BY <1>1, <1>8, <1>10
<1>12. Consistent(e)
  BY <1>1, <1>2, <1>7, <1>9, <1>10, <1>11 DEF Consistent
<1> QED
  BY <1>1, <1>6, <1>7, <1>9, <1>10, <1>12 DEF e, q

\* A concatenation of three sequences, each of which repeats one element.
LEMMA ThreeParts ==
    ASSUME NEW S, NEW a \in Seq(S), NEW b \in Seq(S), NEW c \in Seq(S), NEW x, NEW y, NEW z,
           \A m \in 1..Len(a) : a[m] = x,
           \A m \in 1..Len(b) : b[m] = y,
           \A m \in 1..Len(c) : c[m] = z
    PROVE  /\ (a \o b) \o c \in Seq(S)
           /\ Len((a \o b) \o c) = Len(a) + Len(b) + Len(c)
           /\ \A m \in 1..Len((a \o b) \o c) :
                 /\ m <= Len(a) => ((a \o b) \o c)[m] = x
                 /\ m > Len(a) /\ m <= Len(a) + Len(b) => ((a \o b) \o c)[m] = y
                 /\ m > Len(a) + Len(b) => ((a \o b) \o c)[m] = z
<1>1. /\ a \o b \in Seq(S) /\ Len(a \o b) = Len(a) + Len(b)
      /\ \A m \in 1..(Len(a) + Len(b)) :
            (a \o b)[m] = IF m <= Len(a) THEN a[m] ELSE b[m - Len(a)]
  BY ConcatProperties
<1> DEFINE d == a \o b
<1> HIDE DEF d
<1>2. /\ d \o c \in Seq(S) /\ Len(d \o c) = Len(d) + Len(c)
      /\ \A m \in 1..(Len(d) + Len(c)) :
            (d \o c)[m] = IF m <= Len(d) THEN d[m] ELSE c[m - Len(d)]
  BY <1>1, ConcatProperties DEF d
<1>3. Len(a) \in Nat /\ Len(b) \in Nat /\ Len(c) \in Nat /\ Len(d) = Len(a) + Len(b)
  BY <1>1, LenProperties DEF d
<1>4. \A m \in 1..(Len(a) + Len(b)) : d[m] = IF m <= Len(a) THEN x ELSE y
  <2>1. ASSUME NEW m \in 1..(Len(a) + Len(b)) PROVE d[m] = IF m <= Len(a) THEN x ELSE y
    <3>1. CASE m <= Len(a)
      BY <1>1, <1>3, <3>1 DEF d
    <3>2. CASE ~(m <= Len(a))
      <4>1. m - Len(a) \in 1..Len(b)
        BY <1>3, <3>2
      <4> QED
        BY <1>1, <1>3, <3>2, <4>1 DEF d
    <3> QED
      BY <3>1, <3>2
  <2> QED
    BY <2>1
<1>5. ASSUME NEW m \in 1..Len(d \o c)
      PROVE  /\ m <= Len(a) => (d \o c)[m] = x
             /\ m > Len(a) /\ m <= Len(a) + Len(b) => (d \o c)[m] = y
             /\ m > Len(a) + Len(b) => (d \o c)[m] = z
  <2>1. m \in 1..(Len(a) + Len(b) + Len(c))
    BY <1>2, <1>3
  <2>2. CASE m <= Len(a) + Len(b)
    BY <1>2, <1>3, <1>4, <2>1, <2>2
  <2>3. CASE ~(m <= Len(a) + Len(b))
    <3>1. m - Len(d) \in 1..Len(c)
      BY <1>3, <2>1, <2>3
    <3>2. (d \o c)[m] = c[m - Len(d)]
      BY <1>2, <1>3, <2>1, <2>3
    <3> QED
      BY <1>3, <2>1, <2>3, <3>1, <3>2
  <2> QED
    BY <2>2, <2>3
<1>6. d \o c \in Seq(S) /\ Len(d \o c) = Len(a) + Len(b) + Len(c)
  BY <1>2, <1>3
<1> QED
  BY <1>5, <1>6 DEF d

\* What the write callback adds for one response: its head when it starts, the
\* items it has, the last chunk when it ends.
Heads(p) == IF "STARTED" \in p.flags THEN 0 ELSE 1
Terms(q) == IF {"COMPLETE", "CHUNKED"} \subseteq q.flags /\ "TERM" \notin q.flags THEN 1 ELSE 0

LEMMA OutputFacts ==
    ASSUME NEW p \in Response, NEW q \in Response
    PROVE  /\ Output(p, q) \in Seq(Pieces)
           /\ Len(Output(p, q)) = Heads(p) + q.body + Terms(q)
           /\ \A m \in 1..Len(Output(p, q)) :
                 /\ Output(p, q)[m].rank = q.rank
                 /\ Output(p, q)[m].frame = q.frame
                 /\ Output(p, q)[m].kind = "head" <=> Heads(p) = 1 /\ m = 1
                 /\ Output(p, q)[m].kind = "item" <=> m > Heads(p) /\ m <= Heads(p) + q.body
                 /\ Output(p, q)[m].kind = "term" <=> m > Heads(p) + q.body
                 /\ Output(p, q)[m].kind = "head" =>
                       Output(p, q)[m].total = IF q.frame = "total" THEN q.body ELSE 0
<1> DEFINE head == Piece(q, "head")
           item == [Piece(q, "item") EXCEPT !.total = 0]
           term == [Piece(q, "term") EXCEPT !.total = 0]
           a == IF "STARTED" \in p.flags THEN << >> ELSE <<head>>
           b == Copies(q.body, item)
           c == IF {"COMPLETE", "CHUNKED"} \subseteq q.flags /\ "TERM" \notin q.flags
                THEN <<term>> ELSE << >>
<1>1. /\ q.rank \in Nat /\ q.body \in Nat /\ q.frame \in Framings
  BY DEF Response
<1>2. /\ head \in Pieces /\ item \in Pieces /\ term \in Pieces
      /\ head.rank = q.rank /\ item.rank = q.rank /\ term.rank = q.rank
      /\ head.frame = q.frame /\ item.frame = q.frame /\ term.frame = q.frame
      /\ head.kind = "head" /\ item.kind = "item" /\ term.kind = "term"
      /\ head.total = IF q.frame = "total" THEN q.body ELSE 0
  BY <1>1 DEF Piece, Pieces
<1> HIDE DEF head, item, term
<1>3. /\ a \in Seq(Pieces) /\ Len(a) = Heads(p) /\ Heads(p) \in {0, 1}
      /\ \A m \in 1..Len(a) : a[m] = head /\ m = 1
  BY <1>2 DEF Heads
<1>4. /\ b \in Seq(Pieces) /\ Len(b) = q.body /\ \A m \in 1..Len(b) : b[m] = item
  <2>1. /\ b \in Seq(Pieces) /\ Len(b) = q.body
        /\ \A m \in 1..q.body : b[m] = item
    BY <1>1, <1>2 DEF Copies
  <2> QED
    BY <2>1
<1>5. /\ c \in Seq(Pieces) /\ Len(c) = Terms(q) /\ Terms(q) \in {0, 1}
      /\ \A m \in 1..Len(c) : c[m] = term
  BY <1>2 DEF Terms
<1>6. Output(p, q) = (a \o b) \o c
  BY DEF Output, head, item, term
<1> HIDE DEF a, b, c
<1>7. /\ (a \o b) \o c \in Seq(Pieces)
      /\ Len((a \o b) \o c) = Len(a) + Len(b) + Len(c)
      /\ \A m \in 1..Len((a \o b) \o c) :
            /\ m <= Len(a) => ((a \o b) \o c)[m] = head
            /\ m > Len(a) /\ m <= Len(a) + Len(b) => ((a \o b) \o c)[m] = item
            /\ m > Len(a) + Len(b) => ((a \o b) \o c)[m] = term
  <2>1. \A m \in 1..Len(a) : a[m] = head
    BY <1>3
  <2>2. \A m \in 1..Len(b) : b[m] = item
    BY <1>4
  <2>3. \A m \in 1..Len(c) : c[m] = term
    BY <1>5
  <2>4. a \in Seq(Pieces) /\ b \in Seq(Pieces) /\ c \in Seq(Pieces)
    BY <1>3, <1>4, <1>5
  <2> HIDE DEF Pieces
  <2> QED
    BY <2>1, <2>2, <2>3, <2>4, ThreeParts
<1> DEFINE o == Output(p, q)
           h == Heads(p)
           n == q.body
           t == Terms(q)
<1>8. /\ o \in Seq(Pieces) /\ Len(o) = h + n + t
      /\ h \in {0, 1} /\ t \in {0, 1} /\ n \in Nat
      /\ \A m \in 1..Len(o) :
            /\ m <= h => o[m] = head
            /\ m > h /\ m <= h + n => o[m] = item
            /\ m > h + n => o[m] = term
  BY <1>1, <1>3, <1>4, <1>5, <1>6, <1>7
<1> HIDE DEF o, h, n, t
<1>9. ASSUME NEW m \in 1..Len(o)
      PROVE  /\ o[m].rank = q.rank
             /\ o[m].frame = q.frame
             /\ o[m].kind = "head" <=> h = 1 /\ m = 1
             /\ o[m].kind = "item" <=> m > h /\ m <= h + n
             /\ o[m].kind = "term" <=> m > h + n
             /\ o[m].kind = "head" => o[m].total = IF q.frame = "total" THEN n ELSE 0
  <2>1. m \in Nat /\ m >= 1
    BY <1>8
  <2>2. CASE m <= h
    BY <1>2, <1>8, <2>1, <2>2 DEF n
  <2>3. CASE m > h /\ m <= h + n
    BY <1>2, <1>8, <2>1, <2>3
  <2>4. CASE m > h + n
    BY <1>2, <1>8, <2>1, <2>4
  <2> QED
    BY <1>8, <2>1, <2>2, <2>3, <2>4
<1> QED
  BY <1>8, <1>9 DEF o, h, n, t

-----------------------------------------------------------------------------
(* The list of responses *)

LEMMA Typed ==
    ASSUME SessionType
    PROVE  /\ Len(resp) \in Nat /\ DOMAIN resp = 1..Len(resp)
           /\ \A r \in 1..Len(resp) : resp[r] \in Response
           /\ Len(queue) \in Nat /\ DOMAIN queue = 1..Len(queue)
           /\ \A i \in 1..Len(queue) : queue[i] \in Nat
           /\ Len(sbuf) \in Nat /\ DOMAIN sbuf = 1..Len(sbuf)
           /\ \A i \in 1..Len(sbuf) : sbuf[i] \in Pieces
           /\ Len(wire) \in Nat /\ DOMAIN wire = 1..Len(wire)
           /\ \A i \in 1..Len(wire) : wire[i] \in Pieces
           /\ nreq \in Nat
BY LenProperties, ElementOfSeq DEF SessionType

LEMMA FirstFacts ==
    ASSUME LiveInv, queue # << >>
    PROVE  /\ Len(queue) \in Nat /\ Len(queue) >= 1 /\ 1 \in 1..Len(queue)
           /\ queue[1] \in 1..Len(resp)
           /\ First \in Response /\ Consistent(First) /\ First.st = "live" /\ First.rank > 0
<1>1. Len(queue) \in Nat /\ Len(queue) >= 1
  BY EmptySeq DEF LiveInv, SessionType
<1>2. 1 \in 1..Len(queue)
  BY <1>1
<1>3. queue[1] \in 1..Len(resp) /\ resp[queue[1]].st = "live" /\ resp[queue[1]].rank > 0
  BY <1>2 DEF LiveInv, QueueInv
<1> QED
  BY <1>1, <1>2, <1>3, Typed DEF LiveInv, First

\* What a step must not change of a response in the list.
Alike(p, q) ==
    /\ p.st = q.st /\ p.rank = q.rank /\ p.frame = q.frame /\ p.sent = q.sent
    /\ "STARTED" \in p.flags <=> "STARTED" \in q.flags
    /\ "TERM" \in p.flags <=> "TERM" \in q.flags

\* Ranks stay within the requests that were read.
LEMMA OldRank ==
    ASSUME LiveInv, SessionType', nreq <= nreq', NEW i \in 1..Len(queue)
    PROVE  /\ resp[queue[i]].rank \in Nat /\ nreq \in Nat /\ nreq' \in Nat
           /\ resp[queue[i]].rank <= 2 * nreq /\ resp[queue[i]].rank <= 2 * nreq'
<1>1. resp[queue[i]] \in Response /\ resp[queue[i]].rank <= 2 * nreq
  BY Typed DEF LiveInv, QueueInv
<1>2. resp[queue[i]].rank \in Nat
  BY <1>1 DEF Response
<1>3. nreq \in Nat /\ nreq' \in Nat
  BY DEF LiveInv, SessionType
<1> QED
  BY <1>1, <1>2, <1>3

\* The list stays as it is.
LEMMA LiveSame ==
    ASSUME LiveInv, SessionType', ExchangeInv', UNCHANGED <<queue, sbuf>>, nreq <= nreq',
           \A r \in 1..Len(resp') : Consistent(resp'[r]),
           \A i \in 1..Len(queue) :
              queue[i] \in 1..Len(resp') /\ Alike(resp'[queue[i]], resp[queue[i]])
    PROVE  LiveInv'
<1>1. \A r \in 1..Len(resp)' : Consistent(resp[r])'
  BY DEF Consistent
<1>2. QueueInv'
  <2>1. ASSUME NEW i \in 1..Len(queue)
        PROVE  /\ queue[i] \in 1..Len(resp')
               /\ resp'[queue[i]].st = resp[queue[i]].st
               /\ resp'[queue[i]].rank = resp[queue[i]].rank
               /\ "STARTED" \in resp'[queue[i]].flags <=> "STARTED" \in resp[queue[i]].flags
    BY DEF Alike
  <2>2. ASSUME NEW i \in 1..Len(queue) PROVE resp[queue[i]].rank <= 2 * nreq'
    BY OldRank
  <2> QED
    BY <2>1, <2>2, ZenonT(60) DEF LiveInv, QueueInv
<1>3. BufferInv'
  <2>1. CASE queue = << >>
    <3>1. sbuf' = << >> /\ Len(sbuf') = 0
      BY <2>1 DEF LiveInv, BufferInv
    <3> QED
      BY <2>1, <3>1 DEF BufferInv
  <2>2. CASE queue # << >>
    <3>1. 1 \in 1..Len(queue)
      BY <2>2, FirstFacts
    <3>2. Alike(First', First)
      BY <3>1 DEF First
    <3> QED
      BY <2>2, <3>2 DEF LiveInv, BufferInv, Alike, Started
  <2> QED
    BY <2>1, <2>2
<1> QED
  BY <1>1, <1>2, <1>3 DEF LiveInv

\* ymo_http_session_add_response: the list grows at its end.
LEMMA LiveAdd ==
    ASSUME LiveInv, SessionType', ExchangeInv', sbuf' = sbuf, nreq <= nreq',
           NEW r \in 1..Len(resp'), queue' = Append(queue, r),
           \A k \in 1..Len(resp') : Consistent(resp'[k]),
           \A i \in 1..Len(queue) :
              /\ queue[i] \in 1..Len(resp') /\ resp'[queue[i]] = resp[queue[i]]
              /\ resp[queue[i]].rank < resp'[r].rank,
           resp'[r].st = "live", "STARTED" \notin resp'[r].flags,
           resp'[r].rank > 0, resp'[r].rank <= 2 * nreq'
    PROVE  LiveInv'
<1>1. \A k \in 1..Len(resp)' : Consistent(resp[k])'
  BY DEF Consistent
<1>2. /\ Len(queue) \in Nat /\ Len(queue') = Len(queue) + 1 /\ queue' # << >>
      /\ \A i \in 1..Len(queue) : queue'[i] = queue[i]
      /\ queue'[Len(queue) + 1] = r
  <2>1. queue \in Seq(Nat) /\ r \in Nat
    BY Typed DEF LiveInv, SessionType
  <2> QED
    BY <2>1, AppendProperties, LenProperties, SMTT(40)
<1>3. QueueInv'
  <2>1. ASSUME NEW i \in 1..Len(queue')
        PROVE  /\ queue'[i] \in 1..Len(resp')
               /\ resp'[queue'[i]].st = "live"
               /\ resp'[queue'[i]].rank > 0 /\ resp'[queue'[i]].rank <= 2 * nreq'
               /\ i > 1 => "STARTED" \notin resp'[queue'[i]].flags
    <3>1. CASE i = Len(queue) + 1
      BY <1>2, <3>1
    <3>2. CASE i # Len(queue) + 1
      <4>1. i \in 1..Len(queue)
        BY <1>2, <3>2
      <4> QED
        BY <1>2, <4>1, OldRank, ZenonT(60) DEF LiveInv, QueueInv
    <3> QED
      BY <3>1, <3>2
  <2>2. ASSUME NEW i \in 1..Len(queue'), NEW j \in 1..Len(queue'), i < j
        PROVE  resp'[queue'[i]].rank < resp'[queue'[j]].rank
    <3>1. i \in 1..Len(queue)
      BY <1>2, <2>2
    <3>2. CASE j = Len(queue) + 1
      BY <1>2, <3>1, <3>2
    <3>3. CASE j # Len(queue) + 1
      <4>1. j \in 1..Len(queue)
        BY <1>2, <3>3
      <4> QED
        BY <1>2, <2>2, <3>1, <4>1, ZenonT(60) DEF LiveInv, QueueInv
    <3> QED
      BY <3>2, <3>3
  <2> QED
    BY <2>1, <2>2 DEF QueueInv
<1>4. BufferInv'
  <2>1. CASE queue = << >>
    <3>1. sbuf' = << >> /\ Len(sbuf') = 0
      BY <2>1 DEF LiveInv, BufferInv
    <3>2. First' = resp'[r]
      BY <1>2, <2>1 DEF First
    <3>3. First'.sent \in Nat
      <4>1. resp'[r] \in Response
        BY ElementOfSeq DEF SessionType
      <4> QED
        BY <3>2, <4>1 DEF Response
    <3> QED
      BY <1>2, <3>1, <3>2, <3>3 DEF BufferInv, Started
  <2>2. CASE queue # << >>
    <3>1. First' = First
      BY <1>2, <2>2, FirstFacts DEF First
    <3> QED
      BY <1>2, <2>2, <3>1 DEF LiveInv, BufferInv, Started
  <2> QED
    BY <2>1, <2>2
<1> QED
  BY <1>1, <1>3, <1>4 DEF LiveInv

-----------------------------------------------------------------------------
(* LiveInv is kept by every step *)

LEMMA NoExchangeType ==
    NoExchange \in Exchange /\ NewExchange \in Exchange
BY DEF NoExchange, NewExchange, Exchange, ReqFlags

LEMMA LiveInit == Init => LiveInv
<1> SUFFICES ASSUME Init PROVE LiveInv
  OBVIOUS
<1>1. SessionType
  <2>1. /\ resp \in Seq(Response) /\ queue \in Seq(Nat)
        /\ sbuf \in Seq(Pieces) /\ wire \in Seq(Pieces) /\ ex \in Exchange
    BY EmptySeq, NoExchangeType DEF Init
  <2>2. nreq \in 0..MaxReq
    BY DEF Init
  <2> QED
    BY <2>1, <2>2 DEF Init, SessionType
<1>2. Len(resp) = 0 /\ Len(queue) = 0 /\ Len(sbuf) = 0
  BY DEF Init
<1>3. ExchangeInv /\ QueueInv /\ BufferInv
  BY <1>2 DEF Init, NoExchange, ExchangeInv, Own, QueueInv, BufferInv
<1> QED
  BY <1>1, <1>2, <1>3 DEF LiveInv

LEMMA FreedKeeps ==
    ASSUME NEW p \in Response, Consistent(p)
    PROVE  /\ [p EXCEPT !.st = "freed"] \in Response
           /\ Consistent([p EXCEPT !.st = "freed"])
BY DEF Response, Consistent

\* The end of a session: what is left has no list and no callback.
LEMMA LiveFree ==
    ASSUME LiveInv, NEW rs \in Seq(Response), \A r \in 1..Len(rs) : Consistent(rs[r]),
           FreeSession(rs), wire' \in Seq(Pieces), proto' \in {"gone", "next"},
           cst' \in {"open", "shutdown", "closed"}, UNCHANGED <<stop, sstate, nreq>>
    PROVE  LiveInv'
<1>1. ex' = NoExchange /\ queue' = << >> /\ sbuf' = << >> /\ frame' = "none"
      /\ rx' = FALSE /\ tx' = FALSE
  BY DEF FreeSession
<1>2. Len(rs) \in Nat /\ DOMAIN rs = 1..Len(rs) /\ \A r \in 1..Len(rs) : rs[r] \in Response
  BY LenProperties, ElementOfSeq
<1> DEFINE g(r) == IF \E i \in DOMAIN queue : queue[i] = r
                   THEN [rs[r] EXCEPT !.st = "freed"] ELSE rs[r]
<1>3. resp' = [r \in 1..Len(rs) |-> g(r)]
  BY <1>2 DEF FreeSession
<1>4. \A r \in 1..Len(rs) : g(r) \in Response /\ Consistent(g(r))
  BY <1>2, FreedKeeps
<1> HIDE DEF g
<1>5. /\ resp' \in Seq(Response) /\ Len(resp') = Len(rs)
      /\ \A r \in 1..Len(rs) : resp'[r] = g(r)
  BY <1>2, <1>3, <1>4
<1>6. \A r \in 1..Len(resp)' : Consistent(resp[r])'
  BY <1>4, <1>5 DEF Consistent
<1>7. SessionType'
  BY <1>1, <1>5, EmptySeq, NoExchangeType DEF LiveInv, SessionType
<1>8. ExchangeInv' /\ QueueInv' /\ BufferInv'
  BY <1>1 DEF NoExchange, ExchangeInv, Own, QueueInv, BufferInv
<1> QED
  BY <1>6, <1>7, <1>8 DEF LiveInv

LEMMA LiveCloseConn ==
    ASSUME LiveInv, NEW rs \in Seq(Response), \A r \in 1..Len(rs) : Consistent(rs[r]),
           CloseConn(rs)
    PROVE  LiveInv'
BY LiveFree DEF CloseConn, LiveInv, SessionType

\* The same, of a response as it was.
LEMMA AllTyped ==
    ASSUME LiveInv
    PROVE  resp \in Seq(Response) /\ \A r \in 1..Len(resp) : Consistent(resp[r])
BY DEF LiveInv, SessionType

\* One response is replaced.
LEMMA Replaced ==
    ASSUME LiveInv, NEW r \in 1..Len(resp), NEW v \in Response, Consistent(v)
    PROVE  /\ [resp EXCEPT ![r] = v] \in Seq(Response)
           /\ Len([resp EXCEPT ![r] = v]) = Len(resp)
           /\ [resp EXCEPT ![r] = v][r] = v
           /\ \A k \in 1..Len(resp) :
                 /\ k # r => [resp EXCEPT ![r] = v][k] = resp[k]
                 /\ Consistent([resp EXCEPT ![r] = v][k])
<1>1. /\ [resp EXCEPT ![r] = v] \in Seq(Response)
      /\ Len([resp EXCEPT ![r] = v]) = Len(resp)
      /\ \A k \in 1..Len(resp) : [resp EXCEPT ![r] = v][k] = IF k = r THEN v ELSE resp[k]
  BY AllTyped, ExceptSeq
<1> QED
  BY <1>1, AllTyped

\* The list and the responses stay as they are.
LEMMA LiveQuiet ==
    ASSUME LiveInv, SessionType', ExchangeInv', UNCHANGED <<resp, queue, sbuf, nreq>>
    PROVE  LiveInv'
<1>1. \A r \in 1..Len(resp') : Consistent(resp'[r])
  BY AllTyped
<1>2. \A i \in 1..Len(queue) :
         queue[i] \in 1..Len(resp') /\ Alike(resp'[queue[i]], resp[queue[i]])
  BY DEF LiveInv, QueueInv, Alike
<1>3. nreq <= nreq'
  BY DEF LiveInv, SessionType
<1> QED
  BY <1>1, <1>2, <1>3, LiveSame

LEMMA LiveStop == ASSUME LiveInv, StopGraceful PROVE LiveInv'
<1>1. SessionType'
  BY DEF LiveInv, StopGraceful, SessionType
<1>2. ExchangeInv'
  BY DEF LiveInv, StopGraceful, ExchangeInv, Own
<1> QED
  BY <1>1, <1>2, LiveQuiet DEF StopGraceful

LEMMA LiveHeaderCallback == ASSUME LiveInv, HeaderCallback PROVE LiveInv'
<1>1. CASE CloseConn(resp)
  BY <1>1, AllTyped, LiveCloseConn
<1>2. CASE ~CloseConn(resp)
  <2>1. /\ frame = "headers" /\ frame' = IF ex.state = "COMPLETE" THEN "handler" ELSE "none"
        /\ UNCHANGED <<proto, cst, rx, tx, stop, sstate, nreq, ex, resp, queue, sbuf, wire>>
    BY <1>2 DEF HeaderCallback
  <2>2. SessionType'
    BY <2>1 DEF LiveInv, SessionType
  <2>3. ExchangeInv'
    BY <2>1 DEF LiveInv, ExchangeInv, Own
  <2> QED
    BY <2>1, <2>2, <2>3, LiveQuiet
<1> QED
  BY <1>1, <1>2

LEMMA LiveReadBody == ASSUME LiveInv, ReadBody PROVE LiveInv'
<1>1. ex' \in Exchange /\ ex'.state = "COMPLETE" /\ ex'.resp = ex.resp /\ ex'.flags = ex.flags
  BY DEF LiveInv, SessionType, ReadBody, Exchange
<1>2. SessionType'
  BY <1>1 DEF LiveInv, ReadBody, SessionType
<1>3. Own
  BY DEF ReadBody, Reading, Own
<1>4. ExchangeInv'
  BY <1>1, <1>3 DEF LiveInv, ReadBody, Reading, ExchangeInv
<1> QED
  BY <1>2, <1>4, LiveQuiet DEF ReadBody

LEMMA LiveReadLate == ASSUME LiveInv, ReadLate PROVE LiveInv'
<1>1. SessionType'
  BY DEF LiveInv, ReadLate, SessionType
<1>2. ExchangeInv'
  BY DEF LiveInv, ReadLate, Reading, ExchangeInv, Own
<1> QED
  BY <1>1, <1>2, LiveQuiet DEF ReadLate

LEMMA LiveWriteNothing == ASSUME LiveInv, WriteNothing PROVE LiveInv'
<1>1. SessionType'
  BY DEF LiveInv, WriteNothing, Writing, SessionType, Resume
<1>2. ExchangeInv'
  BY DEF LiveInv, WriteNothing, Writing, ExchangeInv, Own, Resume
<1> QED
  BY <1>1, <1>2, LiveQuiet DEF WriteNothing

\* The responses that are made for a request.
LEMMA CreatedFacts ==
    ASSUME NEW n \in Nat, n > 0, NEW f \in SUBSET ReqFlags
    PROVE  /\ InitResponse(n, f) = NewResponse(2 * n, f)
           /\ InitResponse(n, f) \in Response /\ Consistent(InitResponse(n, f))
           /\ Continue(n) \in Response /\ Consistent(Continue(n))
           /\ Continue(n).st = "live" /\ Continue(n).rank = 2 * n - 1
           /\ "STARTED" \notin Continue(n).flags /\ "READY" \in Continue(n).flags
           /\ ErrorResponse(n) \in Response /\ Consistent(ErrorResponse(n))
           /\ ErrorResponse(n).st = "live" /\ ErrorResponse(n).rank = 2 * n
           /\ "STARTED" \notin ErrorResponse(n).flags /\ "READY" \in ErrorResponse(n).flags
<1>1. 2 * n \in Nat /\ 2 * n - 1 \in Nat
  OBVIOUS
<1>2. {"KEEPALIVE"} \in SUBSET ReqFlags /\ {} \in SUBSET ReqFlags
  BY DEF ReqFlags
<1>3. InitResponse(n, f) \in Response /\ Consistent(InitResponse(n, f))
  BY <1>1, NewIsConsistent DEF InitResponse
<1>4. /\ NewResponse(2 * n - 1, {"KEEPALIVE"}) \in Response
      /\ Consistent(NewResponse(2 * n - 1, {"KEEPALIVE"}))
      /\ NewResponse(2 * n, {}) \in Response /\ Consistent(NewResponse(2 * n, {}))
  BY <1>1, <1>2, NewIsConsistent
<1>5. \A m \in Nat, g \in SUBSET ReqFlags :
         /\ NewResponse(m, g).flags = g /\ NewResponse(m, g).st = "live"
         /\ NewResponse(m, g).rank = m
  BY DEF NewResponse
<1>6. /\ Continue(n) \in Response /\ Consistent(Continue(n))
      /\ Continue(n).st = "live" /\ Continue(n).rank = 2 * n - 1
      /\ Continue(n).flags = {"KEEPALIVE"} \cup {"READY", "COMPLETE"}
  <2>1. "COMPLETE" \notin NewResponse(2 * n - 1, {"KEEPALIVE"}).flags
    BY <1>1, <1>2, <1>5
  <2> QED
    BY <1>1, <1>2, <1>4, <1>5, <2>1, IssueKeeps DEF Continue
<1>7. /\ ErrorResponse(n) \in Response /\ Consistent(ErrorResponse(n))
      /\ ErrorResponse(n).st = "live" /\ ErrorResponse(n).rank = 2 * n
      /\ ErrorResponse(n).flags = {} \cup {"READY", "COMPLETE"}
  <2>1. "COMPLETE" \notin NewResponse(2 * n, {}).flags
    BY <1>1, <1>2, <1>5
  <2> QED
    BY <1>1, <1>2, <1>4, <1>5, <2>1, IssueKeeps DEF ErrorResponse
<1> QED
  BY <1>3, <1>6, <1>7 DEF InitResponse

\* A response is created.
LEMMA Created ==
    ASSUME NEW rs \in Seq(Response), \A r \in 1..Len(rs) : Consistent(rs[r]),
           NEW v \in Response, Consistent(v)
    PROVE  /\ Append(rs, v) \in Seq(Response) /\ Len(rs) \in Nat
           /\ Len(Append(rs, v)) = Len(rs) + 1 /\ Append(rs, v)[Len(rs) + 1] = v
           /\ \A r \in 1..Len(rs) : Append(rs, v)[r] = rs[r]
           /\ \A r \in 1..Len(Append(rs, v)) : Consistent(Append(rs, v)[r])
<1>1. /\ Append(rs, v) \in Seq(Response) /\ Len(rs) \in Nat
      /\ Len(Append(rs, v)) = Len(rs) + 1 /\ Append(rs, v)[Len(rs) + 1] = v
      /\ \A r \in 1..Len(rs) : Append(rs, v)[r] = rs[r]
  BY AppendProperties, LenProperties
<1>2. ASSUME NEW r \in 1..Len(Append(rs, v)) PROVE Consistent(Append(rs, v)[r])
  <2>1. CASE r = Len(rs) + 1
    BY <1>1, <2>1
  <2>2. CASE r # Len(rs) + 1
    <3>1. r \in 1..Len(rs)
      BY <1>1, <2>2
    <3> QED
      BY <1>1, <3>1
  <2> QED
    BY <2>1, <2>2
<1> QED
  BY <1>1, <1>2

\* What ReadHeaders leaves of the request k: its response is the exchange's own,
\* and a 100 Continue is queued before it when the client expects one.
LEMMA ReadHeadersFacts ==
    ASSUME LiveInv, NEW k \in Kinds, ReadHeaders(k)
    PROVE  LET final == Len(resp) + 1
               expects == k.body /\ "EXPECT" \in k.flags
           IN  /\ nreq' = nreq + 1 /\ nreq \in Nat /\ nreq' <= MaxReq
               /\ ex' \in Exchange /\ ex'.resp = final /\ ex'.flags = k.flags
               /\ ex'.state \in {"BODY", "COMPLETE"} /\ k.flags \in SUBSET ReqFlags
               /\ Len(resp) \in Nat /\ resp' \in Seq(Response)
               /\ \A r \in 1..Len(resp') : Consistent(resp'[r])
               /\ \A r \in 1..Len(resp) : resp'[r] = resp[r]
               /\ resp'[final] = NewResponse(2 * (nreq + 1), k.flags)
               /\ ~expects => /\ Len(resp') = Len(resp) + 1
                              /\ frame' = "headers" /\ UNCHANGED <<queue, tx>>
               /\ expects => /\ Len(resp') = Len(resp) + 2
                             /\ resp'[final + 1] = Continue(nreq + 1)
                             /\ queue' = Append(queue, final + 1)
                             /\ frame' = "expect" /\ tx' = TRUE
<1> DEFINE final == Len(resp) + 1
           expects == k.body /\ "EXPECT" \in k.flags
           created == Append(resp, InitResponse(nreq + 1, k.flags))
<1>1. k.flags \in SUBSET ReqFlags /\ k.body \in BOOLEAN
  BY HttpSessionAssumption DEF ReqFlags
<1>2. nreq \in Nat /\ nreq + 1 \in Nat /\ nreq + 1 > 0 /\ nreq' = nreq + 1 /\ nreq' <= MaxReq
  BY DEF LiveInv, SessionType, ReadHeaders
<1>3. /\ InitResponse(nreq + 1, k.flags) = NewResponse(2 * (nreq + 1), k.flags)
      /\ InitResponse(nreq + 1, k.flags) \in Response
      /\ Consistent(InitResponse(nreq + 1, k.flags))
      /\ Continue(nreq + 1) \in Response /\ Consistent(Continue(nreq + 1))
  BY <1>1, <1>2, CreatedFacts
<1>4. resp \in Seq(Response) /\ \A r \in 1..Len(resp) : Consistent(resp[r])
  BY AllTyped
<1>5. /\ created \in Seq(Response) /\ Len(resp) \in Nat
      /\ Len(created) = Len(resp) + 1 /\ created[final] = InitResponse(nreq + 1, k.flags)
      /\ \A r \in 1..Len(resp) : created[r] = resp[r]
      /\ \A r \in 1..Len(created) : Consistent(created[r])
  BY <1>3, <1>4, Created
<1>6. /\ ex' = [state |-> IF k.body THEN "BODY" ELSE "COMPLETE", flags |-> k.flags,
               resp |-> final]
      /\ resp' = IF expects THEN Append(created, Continue(nreq + 1)) ELSE created
      /\ queue' = IF expects THEN AddResponse(queue, final + 1) ELSE queue
      /\ tx' = (tx \/ expects)
      /\ frame' = IF expects THEN "expect" ELSE "headers"
  BY DEF ReadHeaders
<1> HIDE DEF created
<1>7. /\ ex' \in Exchange /\ ex'.resp = final /\ ex'.flags = k.flags
      /\ ex'.state \in {"BODY", "COMPLETE"}
  BY <1>1, <1>5, <1>6 DEF Exchange
<1>8. CASE ~expects
  <2>1. resp' = created /\ queue' = queue /\ tx' = tx /\ frame' = "headers"
    BY <1>6, <1>8 DEF LiveInv, SessionType
  <2> QED
    BY <1>1, <1>2, <1>3, <1>5, <1>7, <1>8, <2>1
<1>9. CASE expects
  <2>1. /\ resp' = Append(created, Continue(nreq + 1)) /\ queue' = Append(queue, final + 1)
        /\ tx' = TRUE /\ frame' = "expect"
    BY <1>6, <1>9 DEF AddResponse
  <2>2. /\ resp' \in Seq(Response) /\ Len(resp') = Len(created) + 1
        /\ resp'[Len(created) + 1] = Continue(nreq + 1)
        /\ \A r \in 1..Len(created) : resp'[r] = created[r]
        /\ \A r \in 1..Len(resp') : Consistent(resp'[r])
    BY <1>3, <1>5, <2>1, Created
  <2>3. /\ Len(resp') = Len(resp) + 2 /\ resp'[final + 1] = Continue(nreq + 1)
        /\ \A r \in 1..Len(resp) : resp'[r] = resp[r]
        /\ resp'[final] = NewResponse(2 * (nreq + 1), k.flags)
    BY <1>3, <1>5, <2>2
  <2> QED
    BY <1>1, <1>2, <1>5, <1>7, <1>9, <2>1, <2>2, <2>3
<1> QED
  BY <1>8, <1>9

\* What the queue was before a step that leaves the old responses alone.
LEMMA QueueKept ==
    ASSUME LiveInv, SessionType', nreq <= nreq', Len(resp) <= Len(resp'),
           \A r \in 1..Len(resp) : resp'[r] = resp[r], NEW i \in 1..Len(queue)
    PROVE  /\ queue[i] \in 1..Len(resp) /\ queue[i] \in 1..Len(resp')
           /\ resp'[queue[i]] = resp[queue[i]] /\ resp[queue[i]].rank \in Nat
           /\ resp[queue[i]].rank <= 2 * nreq
           /\ Alike(resp'[queue[i]], resp[queue[i]])
<1>1. queue[i] \in 1..Len(resp) /\ Len(resp) \in Nat
  BY Typed DEF LiveInv, QueueInv
<1>2. Len(resp') \in Nat
  BY LenProperties DEF SessionType
<1>3. queue[i] \in 1..Len(resp')
  BY <1>1, <1>2
<1> QED
  BY <1>1, <1>3, OldRank DEF Alike

LEMMA LiveReadHeaders == ASSUME LiveInv, NEW k \in Kinds, ReadHeaders(k) PROVE LiveInv'
<1> DEFINE final == Len(resp) + 1
           expects == k.body /\ "EXPECT" \in k.flags
<1>1. /\ nreq' = nreq + 1 /\ nreq \in Nat /\ nreq' <= MaxReq
      /\ ex' \in Exchange /\ ex'.resp = final /\ ex'.flags = k.flags
      /\ ex'.state \in {"BODY", "COMPLETE"} /\ k.flags \in SUBSET ReqFlags
      /\ Len(resp) \in Nat /\ resp' \in Seq(Response)
      /\ \A r \in 1..Len(resp') : Consistent(resp'[r])
      /\ \A r \in 1..Len(resp) : resp'[r] = resp[r]
      /\ resp'[final] = NewResponse(2 * (nreq + 1), k.flags)
      /\ ~expects => /\ Len(resp') = Len(resp) + 1
                     /\ frame' = "headers" /\ UNCHANGED <<queue, tx>>
      /\ expects => /\ Len(resp') = Len(resp) + 2
                    /\ resp'[final + 1] = Continue(nreq + 1)
                    /\ queue' = Append(queue, final + 1)
                    /\ frame' = "expect" /\ tx' = TRUE
  BY ReadHeadersFacts
<1>2. /\ proto = "http" /\ sstate # "ERROR"
      /\ UNCHANGED <<proto, cst, rx, stop, sstate, sbuf, wire>>
  BY DEF ReadHeaders, Reading
<1> HIDE DEF expects
<1>3. nreq <= nreq' /\ Len(resp) <= Len(resp') /\ final \in 1..Len(resp') /\ nreq' > 0
      /\ nreq' \in 0..MaxReq
  BY <1>1
<1>4. CASE ~expects
  <2>1. SessionType'
    BY <1>1, <1>2, <1>3, <1>4 DEF LiveInv, SessionType
  <2>2. \A i \in 1..Len(queue) :
           /\ queue[i] \in 1..Len(resp') /\ Alike(resp'[queue[i]], resp[queue[i]])
           /\ resp'[queue[i]].rank < 2 * nreq'
    BY <1>1, <1>3, <2>1, QueueKept
  <2>3. ExchangeInv'
    BY <1>1, <1>2, <1>3, <1>4, <2>2 DEF ExchangeInv
  <2> QED
    BY <1>1, <1>2, <1>3, <1>4, <2>1, <2>2, <2>3, LiveSame
<1>5. CASE expects
  <2>1. final + 1 \in 1..Len(resp') /\ queue' = Append(queue, final + 1)
    BY <1>1, <1>5
  <2>2. /\ queue \in Seq(Nat) /\ queue' \in Seq(Nat) /\ Len(queue') = Len(queue) + 1
        /\ Len(queue) \in Nat /\ \A i \in 1..Len(queue) : queue'[i] = queue[i]
        /\ queue'[Len(queue) + 1] = final + 1
    <3>1. queue \in Seq(Nat) /\ final + 1 \in Nat
      BY <1>1 DEF LiveInv, SessionType
    <3> QED
      BY <2>1, <3>1, AppendProperties, LenProperties
  <2>3. SessionType'
    BY <1>1, <1>2, <1>3, <1>5, <2>2 DEF LiveInv, SessionType
  <2>4. /\ resp'[final + 1].st = "live" /\ resp'[final + 1].rank = 2 * nreq' - 1
        /\ "STARTED" \notin resp'[final + 1].flags
    <3>1. nreq' \in Nat /\ resp'[final + 1] = Continue(nreq')
      BY <1>1, <1>5
    <3> QED
      BY <1>1, <1>3, <3>1, CreatedFacts
  <2>5. ASSUME NEW i \in 1..Len(queue)
        PROVE  /\ queue[i] \in 1..Len(resp') /\ resp'[queue[i]] = resp[queue[i]]
               /\ resp[queue[i]].rank < 2 * nreq' - 1
    <3>1. /\ queue[i] \in 1..Len(resp') /\ resp'[queue[i]] = resp[queue[i]]
          /\ resp[queue[i]].rank \in Nat /\ resp[queue[i]].rank <= 2 * nreq
      BY <1>1, <1>3, <2>3, QueueKept
    <3> QED
      BY <1>1, <3>1
  <2>6. ASSUME NEW i \in 1..Len(queue') PROVE resp'[queue'[i]].rank < 2 * nreq'
    <3>1. CASE i = Len(queue) + 1
      BY <1>1, <2>2, <2>4, <3>1
    <3>2. CASE i # Len(queue) + 1
      <4>1. i \in 1..Len(queue)
        BY <2>2, <3>2
      <4>2. resp[queue[i]].rank \in Nat
        BY <1>3, <2>3, <4>1, OldRank
      <4>3. resp'[queue'[i]].rank = resp[queue[i]].rank /\ resp[queue[i]].rank < 2 * nreq' - 1
        BY <2>2, <2>5, <4>1
      <4> QED
        BY <1>1, <4>2, <4>3
    <3> QED
      BY <3>1, <3>2
  <2>7. ExchangeInv'
    BY <1>1, <1>2, <1>3, <1>5, <2>6 DEF ExchangeInv
  <2>8. resp'[final + 1].rank > 0 /\ resp'[final + 1].rank <= 2 * nreq'
    BY <1>1, <2>4
  <2> QED
    BY <1>1, <1>2, <1>3, <2>1, <2>3, <2>4, <2>5, <2>7, <2>8, LiveAdd
<1> QED
  BY <1>4, <1>5

\* The list after ymo_http_session_add_response.
LEMMA Appended ==
    ASSUME LiveInv, NEW r \in Nat, queue' = Append(queue, r)
    PROVE  /\ queue' \in Seq(Nat) /\ Len(queue) \in Nat /\ Len(queue') = Len(queue) + 1
           /\ \A i \in 1..Len(queue) : queue'[i] = queue[i]
           /\ queue'[Len(queue) + 1] = r
<1>1. queue \in Seq(Nat)
  BY DEF LiveInv, SessionType
<1> QED
  BY <1>1, AppendProperties, LenProperties

\* The request that is refused, and the rank of what is answered.
LEMMA ReadBadFacts ==
    ASSUME LiveInv, ReadBad
    PROVE  /\ nreq' \in 1..MaxReq /\ nreq <= nreq' /\ nreq \in Nat
           /\ Len(resp) \in Nat /\ resp' = Append(resp, ErrorResponse(nreq'))
           /\ queue' = Append(queue, Len(resp) + 1)
           /\ nreq' = nreq => Own
           /\ nreq' # nreq => nreq' = nreq + 1 /\ ex.state # "BODY"
           /\ \A i \in 1..Len(queue) : resp[queue[i]].rank < 2 * nreq'
<1>1. nreq \in 0..MaxReq /\ Len(resp) \in Nat
  BY Typed DEF LiveInv, SessionType
<1>2. /\ resp' = Append(resp, ErrorResponse(nreq'))
      /\ queue' = Append(queue, Len(resp) + 1)
      /\ nreq' = IF Parsing.state = "BODY" THEN nreq ELSE nreq + 1
      /\ Parsing.state = "BODY" \/ nreq < MaxReq
  BY DEF ReadBad, AddResponse
<1>3. Parsing.state = "BODY" <=> ex.state = "BODY"
  BY DEF Parsing, NewExchange, NoExchange
<1>4. CASE ex.state = "BODY"
  <2>1. Own
    BY <1>4 DEF ReadBad, Reading, Own
  <2> QED
    BY <1>1, <1>2, <1>3, <1>4, <2>1 DEF LiveInv, ExchangeInv
<1>5. CASE ex.state # "BODY"
  <2>1. nreq' = nreq + 1 /\ nreq' \in 1..MaxReq
    BY <1>1, <1>2, <1>3, <1>5
  <2>2. ASSUME NEW i \in 1..Len(queue) PROVE resp[queue[i]].rank < 2 * nreq'
    <3>1. resp[queue[i]] \in Response /\ resp[queue[i]].rank <= 2 * nreq
      BY Typed DEF LiveInv, QueueInv
    <3>2. resp[queue[i]].rank \in Nat
      BY <3>1 DEF Response
    <3> QED
      BY <1>1, <2>1, <3>1, <3>2
  <2> QED
    BY <1>1, <1>2, <1>5, <2>1, <2>2
<1> QED
  BY <1>4, <1>5

LEMMA LiveReadBad == ASSUME LiveInv, ReadBad PROVE LiveInv'
<1> DEFINE r == Len(resp) + 1
<1>1. /\ nreq' \in 1..MaxReq /\ nreq <= nreq' /\ nreq \in Nat
      /\ Len(resp) \in Nat /\ resp' = Append(resp, ErrorResponse(nreq'))
      /\ queue' = Append(queue, r)
      /\ \A i \in 1..Len(queue) : resp[queue[i]].rank < 2 * nreq'
  BY ReadBadFacts
<1>2. /\ ErrorResponse(nreq') \in Response /\ Consistent(ErrorResponse(nreq'))
      /\ ErrorResponse(nreq').st = "live" /\ ErrorResponse(nreq').rank = 2 * nreq'
      /\ "STARTED" \notin ErrorResponse(nreq').flags
  <2>1. nreq' \in Nat /\ nreq' > 0 /\ {} \in SUBSET ReqFlags
    BY <1>1
  <2> QED
    BY <2>1, CreatedFacts
<1>3. /\ resp' \in Seq(Response) /\ Len(resp') = Len(resp) + 1
      /\ resp'[r] = ErrorResponse(nreq')
      /\ \A k \in 1..Len(resp) : resp'[k] = resp[k]
      /\ \A k \in 1..Len(resp') : Consistent(resp'[k])
  BY <1>1, <1>2, AllTyped, Created
<1>4. queue' \in Seq(Nat)
  BY <1>1, Appended
<1>5. Parsing \in Exchange
  BY NoExchangeType DEF Parsing, LiveInv, SessionType
<1>6. /\ UNCHANGED <<proto, cst, rx, stop, sbuf, wire, frame>>
      /\ sstate' = "ERROR" /\ tx' = TRUE /\ ex' = Parsing /\ frame = "none"
  BY DEF ReadBad, Reading
<1>7. SessionType'
  BY <1>1, <1>3, <1>4, <1>5, <1>6 DEF LiveInv, SessionType
<1>8. ExchangeInv'
  BY <1>6 DEF ExchangeInv, Own
<1>9. ASSUME NEW i \in 1..Len(queue)
      PROVE  /\ queue[i] \in 1..Len(resp') /\ resp'[queue[i]] = resp[queue[i]]
             /\ resp[queue[i]].rank < resp'[r].rank
  BY <1>1, <1>2, <1>3, <1>7, QueueKept
<1>10. r \in 1..Len(resp') /\ resp'[r].rank > 0 /\ resp'[r].rank <= 2 * nreq'
  BY <1>1, <1>2, <1>3
<1> QED
  BY <1>1, <1>2, <1>3, <1>6, <1>7, <1>8, <1>9, <1>10, LiveAdd

\* While the handler runs the exchange has its response, which is not queued.
LEMMA HandlerFacts ==
    ASSUME LiveInv, frame = "handler"
    PROVE  /\ ex.resp \in 1..Len(resp) /\ nreq \in Nat /\ nreq > 0
           /\ resp[ex.resp] \in Response /\ Consistent(resp[ex.resp])
           /\ resp[ex.resp] = NewResponse(2 * nreq, ex.flags) /\ ex.flags \in SUBSET ReqFlags
           /\ resp[ex.resp].flags = ex.flags /\ resp[ex.resp].st = "live"
           /\ resp[ex.resp].rank = 2 * nreq /\ resp[ex.resp].body = 0
           /\ resp[ex.resp].sent = 0 /\ resp[ex.resp].frame = "none"
           /\ proto = "http" /\ sstate # "ERROR"
           /\ \A i \in 1..Len(queue) :
                 queue[i] # ex.resp /\ resp[queue[i]].rank < 2 * nreq
<1>1. Own
  BY DEF Own
<1>2. /\ ex.resp \in 1..Len(resp) /\ nreq \in Nat /\ nreq > 0
      /\ resp[ex.resp] = NewResponse(2 * nreq, ex.flags)
      /\ proto = "http" /\ sstate # "ERROR"
      /\ \A i \in 1..Len(queue) : resp[queue[i]].rank < 2 * nreq
  BY <1>1 DEF LiveInv, ExchangeInv, SessionType
<1>3. ex.flags \in SUBSET ReqFlags
  BY DEF LiveInv, SessionType, Exchange
<1>4. resp[ex.resp] \in Response /\ Consistent(resp[ex.resp])
  BY <1>2, Typed DEF LiveInv
<1>5. /\ resp[ex.resp].flags = ex.flags /\ resp[ex.resp].st = "live"
      /\ resp[ex.resp].rank = 2 * nreq /\ resp[ex.resp].body = 0
      /\ resp[ex.resp].sent = 0 /\ resp[ex.resp].frame = "none"
  BY <1>2 DEF NewResponse
<1>6. \A i \in 1..Len(queue) : queue[i] # ex.resp
  BY <1>2, <1>5
<1> QED
  BY <1>2, <1>3, <1>4, <1>5, <1>6

\* The handler returns: the response v is queued and the exchange gives it up.
LEMMA LiveHandler ==
    ASSUME LiveInv, frame = "handler", NEW v \in Response, Consistent(v), v.st = "live",
           v.rank = 2 * nreq, "STARTED" \notin v.flags,
           NEW keep \in Exchange, keep.state # "BODY",
           HandlerReturns(keep, [resp EXCEPT ![ex.resp] = v]),
           tx' \in BOOLEAN, sstate' \in {"OPEN", "ERROR"}
    PROVE  LiveInv'
<1> DEFINE r == ex.resp
<1>1. /\ r \in 1..Len(resp) /\ nreq \in Nat /\ nreq > 0
      /\ \A i \in 1..Len(queue) : queue[i] # r /\ resp[queue[i]].rank < 2 * nreq
  BY HandlerFacts
<1>2. /\ resp' = [resp EXCEPT ![r] = v] /\ queue' = Append(queue, r)
      /\ ex' = keep /\ rx' = (rx /\ ~stop) /\ frame' = "none"
      /\ UNCHANGED <<proto, cst, stop, nreq, sbuf, wire>>
  BY DEF HandlerReturns, AddResponse
<1>3. /\ resp' \in Seq(Response) /\ Len(resp') = Len(resp) /\ resp'[r] = v
      /\ \A k \in 1..Len(resp) : (k # r => resp'[k] = resp[k]) /\ Consistent(resp'[k])
  BY <1>1, <1>2, Replaced
<1>4. queue' \in Seq(Nat)
  <2>1. r \in Nat
    BY <1>1
  <2> QED
    BY <1>2, <2>1, Appended
<1>5. SessionType'
  BY <1>2, <1>3, <1>4 DEF LiveInv, SessionType
<1>6. ExchangeInv'
  BY <1>2 DEF ExchangeInv, Own
<1>7. ASSUME NEW i \in 1..Len(queue)
      PROVE  /\ queue[i] \in 1..Len(resp') /\ resp'[queue[i]] = resp[queue[i]]
             /\ resp[queue[i]].rank < resp'[r].rank
  BY <1>1, <1>3 DEF LiveInv, QueueInv
<1>8. resp'[r].rank > 0 /\ resp'[r].rank <= 2 * nreq' /\ nreq <= nreq'
  BY <1>1, <1>2, <1>3
<1> HIDE DEF r
<1> QED
  BY <1>1, <1>2, <1>3, <1>5, <1>6, <1>7, <1>8, LiveAdd

\* What each way out of the handler queues: a response that is not started,
\* ready to be sent only if it is complete or the watcher is turned on.
HandlerLeaves(v, keep) ==
    /\ v \in Response /\ Consistent(v) /\ v.st = "live" /\ v.rank = 2 * nreq
    /\ "STARTED" \notin v.flags
    /\ keep \in Exchange /\ keep.state # "BODY"
    /\ HandlerReturns(keep, [resp EXCEPT ![ex.resp] = v])
    /\ tx' \in BOOLEAN /\ (tx => tx') /\ ("READY" \in v.flags => tx')
    /\ sstate' \in {"OPEN", "ERROR"} /\ (sstate' # "ERROR" => sstate # "ERROR")

LEMMA ResetKeeps ==
    ASSUME LiveInv, frame = "handler", NEW f
    PROVE  Reset(f) \in Exchange /\ Reset(f).state # "BODY"
<1>1. ex \in Exchange /\ ex.state = "COMPLETE"
  BY DEF LiveInv, SessionType, ExchangeInv
<1>2. NewExchange \in Exchange /\ NewExchange.state = "CONNECTED"
  BY NoExchangeType DEF NewExchange, NoExchange
<1> QED
  BY <1>1, <1>2 DEF Reset

LEMMA HandlerOkayLeaves ==
    ASSUME LiveInv, NEW n \in 0..MaxItems, HandlerOkay(n)
    PROVE  \E v, keep : HandlerLeaves(v, keep)
<1> DEFINE p == resp[ex.resp]
           v == [Issue(p) EXCEPT !.body = n]
           keep == Reset(p.flags)
<1>0. frame = "handler"
  BY DEF HandlerOkay
<1>1. /\ ex.resp \in 1..Len(resp) /\ p \in Response /\ Consistent(p)
      /\ p.flags \in SUBSET ReqFlags /\ p.st = "live" /\ p.rank = 2 * nreq
      /\ p.sent = 0 /\ p.frame = "none"
  BY <1>0, HandlerFacts
<1>2. "COMPLETE" \notin p.flags /\ "STARTED" \notin p.flags
  BY <1>1 DEF ReqFlags
<1>3. /\ Issue(p) \in Response /\ Consistent(Issue(p))
      /\ Issue(p).st = p.st /\ Issue(p).rank = p.rank /\ Issue(p).sent = p.sent
      /\ Issue(p).frame = p.frame /\ Issue(p).flags = p.flags \cup {"READY", "COMPLETE"}
  BY <1>1, <1>2, IssueKeeps
<1>4. /\ v \in Response /\ v.st = p.st /\ v.rank = p.rank /\ v.sent = p.sent /\ v.body = n
      /\ v.frame = p.frame /\ v.flags = p.flags \cup {"READY", "COMPLETE"}
  BY <1>3 DEF Response
<1>5. Consistent(v)
  BY <1>1, <1>2, <1>4 DEF Consistent, ReqFlags
<1>6. keep \in Exchange /\ keep.state # "BODY"
  BY <1>0, ResetKeeps
<1>7. /\ HandlerReturns(keep, [resp EXCEPT ![ex.resp] = v]) /\ tx' = TRUE /\ sstate' = sstate
  BY DEF HandlerOkay
<1>8. sstate \in {"OPEN", "ERROR"}
  BY DEF LiveInv, SessionType
<1>9. HandlerLeaves(v, keep)
  BY <1>1, <1>2, <1>4, <1>5, <1>6, <1>7, <1>8 DEF HandlerLeaves
<1> QED
  BY <1>9

LEMMA HandlerBlockedLeaves ==
    ASSUME LiveInv, NEW n \in 0..MaxItems, NEW l \in BOOLEAN, NEW st \in BOOLEAN,
           HandlerBlocked(n, l, st)
    PROVE  \E v, keep : HandlerLeaves(v, keep)
<1> DEFINE p == resp[ex.resp]
           f == AppendFlags(p.flags, n)
           v == [p EXCEPT !.flags = f, !.body = n, !.holds = TRUE, !.length = l, !.status = st]
<1>0. frame = "handler"
  BY DEF HandlerBlocked
<1>1. /\ ex.resp \in 1..Len(resp) /\ p \in Response /\ Consistent(p)
      /\ p.flags \in SUBSET ReqFlags /\ p.st = "live" /\ p.rank = 2 * nreq
      /\ p.sent = 0 /\ p.frame = "none"
  BY <1>0, HandlerFacts
<1>2. /\ f \in SUBSET Flags /\ f \in {p.flags, p.flags \cup {"READY"}}
      /\ "READY" \in f => n > 0 /\ "CHUNKS" \in f
  BY <1>1 DEF AppendFlags, ReqFlags, Flags
<1>3. /\ v \in Response /\ v.st = p.st /\ v.rank = p.rank /\ v.sent = p.sent /\ v.body = n
      /\ v.frame = p.frame /\ v.flags = f
  <2>1. n \in Nat /\ p \in Response /\ f \in SUBSET Flags
    BY <1>1, <1>2
  <2> HIDE DEF p, f
  <2> QED
    BY <2>1 DEF Response
<1>4. Consistent(v)
  BY <1>1, <1>2, <1>3 DEF Consistent, ReqFlags
<1>6. /\ HandlerReturns(NoExchange, [resp EXCEPT ![ex.resp] = v])
      /\ tx' = (tx \/ (n > 0 /\ "CHUNKS" \in f)) /\ sstate' = sstate
  BY DEF HandlerBlocked
<1>7. sstate \in {"OPEN", "ERROR"} /\ tx \in BOOLEAN
  BY DEF LiveInv, SessionType
<1>8. NoExchange \in Exchange /\ NoExchange.state # "BODY"
  BY NoExchangeType DEF NoExchange
<1>9. "STARTED" \notin v.flags
  BY <1>1, <1>2, <1>3 DEF ReqFlags
<1> HIDE DEF v, f
<1>10. HandlerLeaves(v, NoExchange)
  BY <1>1, <1>2, <1>3, <1>4, <1>6, <1>7, <1>8, <1>9 DEF HandlerLeaves
<1> QED
  BY <1>10

LEMMA UpgradeLeaves ==
    ASSUME LiveInv, UpgradeHandled \/ UpgradeRefused
    PROVE  \E v, keep : HandlerLeaves(v, keep)
<1> DEFINE p == resp[ex.resp]
           q == [p EXCEPT !.flags = {"KEEPALIVE"}, !.upgrade = TRUE]
<1>0. frame = "handler"
  BY DEF UpgradeHandled, UpgradeRefused
<1>1. /\ ex.resp \in 1..Len(resp) /\ p \in Response /\ Consistent(p)
      /\ p.flags \in SUBSET ReqFlags /\ p.st = "live" /\ p.rank = 2 * nreq
      /\ p.sent = 0 /\ p.frame = "none"
  BY <1>0, HandlerFacts
<1>2. sstate \in {"OPEN", "ERROR"}
  BY DEF LiveInv, SessionType
<1>3. CASE UpgradeHandled
  <2>1. /\ q \in Response /\ q.flags = {"KEEPALIVE"} /\ q.st = p.st /\ q.rank = p.rank
        /\ q.sent = 0 /\ q.frame = "none" /\ q.body = p.body
    BY <1>1 DEF Response, Flags
  <2>2. Consistent(q)
    BY <1>1, <2>1 DEF Consistent
  <2>3. /\ Issue(q) \in Response /\ Consistent(Issue(q))
        /\ Issue(q).st = q.st /\ Issue(q).rank = q.rank
        /\ Issue(q).flags = q.flags \cup {"READY", "COMPLETE"}
    BY <2>1, <2>2, IssueKeeps
  <2>4. NewExchange \in Exchange /\ NewExchange.state # "BODY"
    BY NoExchangeType DEF NewExchange, NoExchange
  <2>5. /\ HandlerReturns(NewExchange, [resp EXCEPT ![ex.resp] = Issue(q)])
        /\ tx' = TRUE /\ sstate' = sstate
    BY <1>3 DEF UpgradeHandled
  <2> HIDE DEF q
  <2>6. HandlerLeaves(Issue(q), NewExchange)
    BY <1>1, <1>2, <2>1, <2>3, <2>4, <2>5 DEF HandlerLeaves
  <2> QED
    BY <2>6
<1>4. CASE UpgradeRefused
  <2>1. "COMPLETE" \notin p.flags /\ "STARTED" \notin p.flags
    BY <1>1 DEF ReqFlags
  <2>2. /\ Issue(p) \in Response /\ Consistent(Issue(p))
        /\ Issue(p).st = p.st /\ Issue(p).rank = p.rank
        /\ Issue(p).flags = p.flags \cup {"READY", "COMPLETE"}
    BY <1>1, <2>1, IssueKeeps
  <2>3. Reset(p.flags) \in Exchange /\ Reset(p.flags).state # "BODY"
    BY <1>0, ResetKeeps
  <2>4. /\ HandlerReturns(Reset(p.flags), [resp EXCEPT ![ex.resp] = Issue(p)])
        /\ tx' = TRUE /\ sstate' = "ERROR"
    BY <1>4 DEF UpgradeRefused
  <2>5. HandlerLeaves(Issue(p), Reset(p.flags))
    BY <1>1, <1>2, <2>1, <2>2, <2>3, <2>4 DEF HandlerLeaves
  <2> QED
    BY <2>5
<1> QED
  BY <1>3, <1>4

\* The callback fails: its response is freed and the connection closed.
LEMMA LiveHandlerFails == ASSUME LiveInv, HandlerFails PROVE LiveInv'
<1>1. ex.resp \in 1..Len(resp) /\ resp[ex.resp] \in Response /\ Consistent(resp[ex.resp])
  BY HandlerFacts DEF HandlerFails
<1> DEFINE v == [resp[ex.resp] EXCEPT !.st = "freed"]
<1>2. v \in Response /\ Consistent(v)
  BY <1>1, FreedKeeps
<1>3. Free(ex.resp) = [resp EXCEPT ![ex.resp] = v]
  BY DEF Free
<1> HIDE DEF v
<1>4. Free(ex.resp) \in Seq(Response) /\ \A r \in 1..Len(Free(ex.resp)) : Consistent(Free(ex.resp)[r])
  BY <1>1, <1>2, <1>3, Replaced
<1> QED
  BY <1>4, LiveCloseConn DEF HandlerFails

\* The application appends to a response it holds, or finishes it.
AppLeaves(r, v) ==
    /\ r \in 1..Len(resp) /\ Pending(r) /\ frame = "none"
    /\ v \in Response /\ Consistent(v) /\ Alike(v, resp[r])
    /\ resp' = [resp EXCEPT ![r] = v]
    /\ tx' \in BOOLEAN /\ (tx => tx') /\ ("READY" \in v.flags => tx')
    /\ UNCHANGED <<proto, cst, rx, stop, sstate, nreq, ex, queue, sbuf, wire, frame>>

LEMMA AppStepLeaves ==
    ASSUME LiveInv, NEW r \in DOMAIN resp, AppAppend(r) \/ AppFinish(r)
    PROVE  \E v : AppLeaves(r, v)
<1> DEFINE p == resp[r]
<1>1. r \in 1..Len(resp) /\ p \in Response /\ Consistent(p)
  BY Typed DEF LiveInv
<1>2. tx \in BOOLEAN
  BY DEF LiveInv, SessionType
<1>3. CASE AppAppend(r)
  <2> DEFINE f == AppendFlags(p.flags, 1)
             v == BodyAppend(p)
  <2>1. /\ Pending(r) /\ frame = "none" /\ p.body + p.sent < MaxItems
        /\ resp' = [resp EXCEPT ![r] = v] /\ tx' = (tx \/ "CHUNKS" \in p.flags)
        /\ UNCHANGED <<proto, cst, rx, stop, sstate, nreq, ex, queue, sbuf, wire, frame>>
    BY <1>3 DEF AppAppend
  <2>2. "COMPLETE" \notin p.flags
    BY <2>1 DEF Pending
  <2>3. /\ f \in SUBSET Flags /\ f \in {p.flags, p.flags \cup {"READY"}}
        /\ "READY" \in f => "CHUNKS" \in p.flags
    <3>1. p.flags \in SUBSET Flags /\ "READY" \in Flags
      BY <1>1 DEF Response, Flags
    <3>2. "READY" \in p.flags => "CHUNKS" \in p.flags
      BY <1>1, <2>2 DEF Consistent
    <3> QED
      BY <3>1, <3>2 DEF AppendFlags
  <2>4. p.body + 1 \in Nat /\ p.body \in Nat /\ p.sent \in Nat /\ p \in Response
    BY <1>1 DEF Response
  <2> HIDE DEF p
  <2>5. /\ v \in Response /\ v.st = p.st /\ v.rank = p.rank /\ v.sent = p.sent
        /\ v.body = p.body + 1 /\ v.frame = p.frame /\ v.flags = f /\ v.status = TRUE
    BY <2>3, <2>4 DEF Response, BodyAppend
  <2> HIDE DEF v, f
  <2>6. Consistent(v) /\ Alike(v, p)
    BY <1>1, <2>1, <2>2, <2>3, <2>4, <2>5, SMTT(40) DEF Consistent, Alike
  <2>7. AppLeaves(r, v)
    BY <1>1, <1>2, <2>1, <2>3, <2>5, <2>6 DEF AppLeaves, p
  <2> QED
    BY <2>7
<1>4. CASE AppFinish(r)
  <2>1. /\ Pending(r) /\ frame = "none"
        /\ resp' = [resp EXCEPT ![r] = Issue(p)] /\ tx' = TRUE
        /\ UNCHANGED <<proto, cst, rx, stop, sstate, nreq, ex, queue, sbuf, wire, frame>>
    BY <1>4 DEF AppFinish
  <2>2. "COMPLETE" \notin p.flags
    BY <2>1 DEF Pending
  <2>3. /\ Issue(p) \in Response /\ Consistent(Issue(p)) /\ Alike(Issue(p), p)
    BY <1>1, <2>2, IssueKeeps DEF Alike
  <2>4. AppLeaves(r, Issue(p))
    BY <1>1, <1>2, <2>1, <2>3 DEF AppLeaves
  <2> QED
    BY <2>4
<1> QED
  BY <1>3, <1>4

\* A response that an application holds is not the exchange's own.
LEMMA LiveApp == ASSUME LiveInv, NEW r, NEW v, AppLeaves(r, v) PROVE LiveInv'
<1>1. /\ r \in 1..Len(resp) /\ v \in Response /\ Consistent(v) /\ Alike(v, resp[r])
      /\ resp' = [resp EXCEPT ![r] = v] /\ resp[r].holds
      /\ tx' \in BOOLEAN /\ (tx => tx')
      /\ UNCHANGED <<proto, cst, rx, stop, sstate, nreq, ex, queue, sbuf, wire, frame>>
  BY DEF AppLeaves, Pending
<1>2. /\ resp' \in Seq(Response) /\ Len(resp') = Len(resp) /\ resp'[r] = v
      /\ \A k \in 1..Len(resp) : (k # r => resp'[k] = resp[k]) /\ Consistent(resp'[k])
  BY <1>1, Replaced
<1>3. SessionType'
  BY <1>1, <1>2 DEF LiveInv, SessionType
<1>4. ASSUME NEW i \in 1..Len(queue)
      PROVE  queue[i] \in 1..Len(resp') /\ Alike(resp'[queue[i]], resp[queue[i]])
  <2>1. queue[i] \in 1..Len(resp)
    BY DEF LiveInv, QueueInv
  <2> QED
    BY <1>1, <1>2, <2>1 DEF Alike
<1>5. Own => ex.resp # r
  BY <1>1 DEF LiveInv, ExchangeInv, NewResponse
<1>6. Own' <=> Own
  BY <1>1 DEF Own
<1>7. \A i \in 1..Len(queue) : resp'[queue[i]].rank = resp[queue[i]].rank
  BY <1>4 DEF Alike
<1>8. ExchangeInv'
  BY <1>1, <1>2, <1>5, <1>6, <1>7 DEF LiveInv, ExchangeInv
<1>9. nreq <= nreq'
  BY <1>1 DEF LiveInv, SessionType
<1> QED
  BY <1>1, <1>2, <1>3, <1>4, <1>8, <1>9, LiveSame

-----------------------------------------------------------------------------
(* The write callback *)

\* What there is to write, and what the first response becomes.
LEMMA SendsFacts ==
    ASSUME LiveInv, Sends
    PROVE  /\ queue # << >> /\ First \in Response /\ Consistent(First) /\ First.status
           /\ "READY" \in First.flags /\ proto = "http" /\ frame \in {"none", "expect"} /\ tx
           /\ Begun = Start(First) /\ Begun \in Response /\ Begun.body = First.body
           /\ Begun.rank = First.rank
           /\ Chain \in Seq(Pieces)
           /\ Len(Chain) = Len(sbuf) + Len(Output(First, Begun))
           /\ \A i \in 1..Len(Chain) : Chain[i].rank = First.rank
           /\ "TERM" \notin Emptied(Begun).flags => Len(Chain) <= First.sent + First.body + 1
           /\ "TERM" \in Emptied(Begun).flags => Len(Chain) <= First.sent + First.body + 2
<1>1. /\ queue # << >> /\ "READY" \in First.flags /\ proto = "http"
      /\ frame \in {"none", "expect"} /\ (Started \/ First.status)
  BY DEF Sends, Writing, Ready, First
<1>2. First \in Response /\ Consistent(First)
  BY <1>1, FirstFacts
<1>3. First.status
  BY <1>1, <1>2 DEF Consistent, Started
<1>4. tx
  BY DEF Sends, Writing, LiveInv, ExchangeInv
<1>5. /\ Begun = Start(First) /\ Begun \in Response /\ Begun.body = First.body
      /\ Begun.rank = First.rank /\ ("STARTED" \in First.flags => Begun = First)
      /\ "TERM" \in Begun.flags <=> "TERM" \in First.flags
      /\ "COMPLETE" \in Begun.flags <=> "COMPLETE" \in First.flags
  <2>1. {"TERM", "COMPLETE"} \subseteq Flags \ {"STARTED", "CHUNKED"}
    BY DEF Flags
  <2> QED
    BY <1>2, <2>1, StartKeeps DEF Begun
<1> DEFINE o == Output(First, Begun)
<1>6. /\ o \in Seq(Pieces) /\ Len(o) = Heads(First) + Begun.body + Terms(Begun)
      /\ \A m \in 1..Len(o) : o[m].rank = First.rank
  BY <1>2, <1>5, OutputFacts
<1>7. sbuf \in Seq(Pieces) /\ Len(sbuf) \in Nat /\ \A i \in 1..Len(sbuf) : sbuf[i].rank = First.rank
  BY Typed DEF LiveInv, SessionType, BufferInv
<1> HIDE DEF o
<1>8. /\ sbuf \o o \in Seq(Pieces) /\ Len(sbuf \o o) = Len(sbuf) + Len(o)
      /\ \A i \in 1..(Len(sbuf) + Len(o)) :
            (sbuf \o o)[i] = IF i <= Len(sbuf) THEN sbuf[i] ELSE o[i - Len(sbuf)]
  BY <1>6, <1>7, ConcatProperties
<1>9. ASSUME NEW i \in 1..(Len(sbuf) + Len(o)) PROVE (sbuf \o o)[i].rank = First.rank
  <2>1. CASE i <= Len(sbuf)
    BY <1>7, <1>8, <2>1
  <2>2. CASE ~(i <= Len(sbuf))
    <3>1. i - Len(sbuf) \in 1..Len(o)
      BY <1>6, <1>7, <2>2, LenProperties
    <3> QED
      BY <1>6, <1>7, <1>8, <2>2, <3>1
  <2> QED
    BY <2>1, <2>2
<1>10. Chain = sbuf \o o
  BY DEF Chain, o
<1>11. First.sent \in Nat /\ First.body \in Nat
  BY <1>2 DEF Response
<1>12. /\ Heads(First) \in {0, 1} /\ (Started => Heads(First) = 0)
       /\ Terms(Begun) \in {0, 1}
       /\ "TERM" \in Emptied(Begun).flags <=>
             "COMPLETE" \in Begun.flags /\ "CHUNKED" \in Begun.flags
       /\ Terms(Begun) = 1 => "TERM" \in Emptied(Begun).flags /\ "TERM" \notin First.flags
  BY <1>2, <1>3, <1>5, EmptiedKeeps DEF Heads, Terms, Started
<1>13. CASE ~Started
  <2>1. Len(sbuf) = 0
    BY <1>1, <1>13 DEF LiveInv, BufferInv
  <2>2. Len(Chain) <= First.body + 1 + Terms(Begun)
    BY <1>5, <1>6, <1>8, <1>10, <1>11, <1>12, <2>1 DEF o
  <2> QED
    BY <1>1, <1>2, <1>3, <1>4, <1>5, <1>8, <1>9, <1>10, <1>11, <1>12, <2>2, SMTT(40) DEF o
<1>14. CASE Started /\ "TERM" \notin First.flags
  <2>1. Len(sbuf) <= First.sent + 1 /\ Heads(First) = 0
    BY <1>1, <1>12, <1>14 DEF LiveInv, BufferInv
  <2>2. Len(Chain) <= First.sent + First.body + 1 + Terms(Begun)
    BY <1>5, <1>6, <1>7, <1>8, <1>10, <1>11, <1>12, <2>1, SMTT(40)
  <2> QED
    BY <1>1, <1>2, <1>3, <1>4, <1>5, <1>8, <1>9, <1>10, <1>11, <1>12, <2>2, SMTT(40) DEF o
<1>15. CASE Started /\ "TERM" \in First.flags
  <2>1. Len(sbuf) <= First.sent + 2 /\ Heads(First) = 0
    BY <1>1, <1>12, <1>15 DEF LiveInv, BufferInv
  <2>2. Terms(Begun) = 0 /\ "TERM" \in Emptied(Begun).flags
    BY <1>2, <1>5, <1>12, <1>15 DEF Consistent, Started
  <2>3. Len(Chain) <= First.sent + First.body + 2
    BY <1>5, <1>6, <1>7, <1>8, <1>10, <1>11, <2>1, <2>2
  <2> QED
    BY <1>1, <1>2, <1>3, <1>4, <1>5, <1>8, <1>9, <1>10, <1>11, <2>2, <2>3 DEF o
<1> QED
  BY <1>13, <1>14, <1>15

\* The first response moved its output: the others are as they were.
LEMMA WrittenFacts ==
    ASSUME LiveInv, Sends
    PROVE  LET rs == [resp EXCEPT ![queue[1]] = Emptied(Begun)]
           IN  /\ rs \in Seq(Response) /\ Len(rs) = Len(resp)
               /\ \A r \in 1..Len(rs) : Consistent(rs[r])
               /\ rs[queue[1]] = Emptied(Begun)
               /\ Emptied(Begun) \in Response /\ Consistent(Emptied(Begun))
               /\ Emptied(Begun).rank = First.rank /\ Emptied(Begun).st = "live"
               /\ Emptied(Begun).sent = First.sent + First.body
               /\ "STARTED" \in Emptied(Begun).flags
               /\ queue[1] \in 1..Len(resp) /\ 1 \in 1..Len(queue)
               /\ \A i \in 1..Len(queue) :
                     /\ queue[i] \in 1..Len(resp)
                     /\ i # 1 => queue[i] # queue[1] /\ rs[queue[i]] = resp[queue[i]]
                     /\ rs[queue[i]].rank = resp[queue[i]].rank
                     /\ resp[queue[i]].rank \in Nat
               /\ Own => ex.resp # queue[1]
<1>1. /\ queue # << >> /\ First \in Response /\ Consistent(First) /\ First.status
      /\ Begun = Start(First)
  BY SendsFacts
<1>2. /\ queue[1] \in 1..Len(resp) /\ 1 \in 1..Len(queue) /\ First.st = "live"
      /\ First = resp[queue[1]] /\ Len(queue) \in Nat
  BY <1>1, FirstFacts DEF First
<1> DEFINE e == Emptied(Begun)
           rs == [resp EXCEPT ![queue[1]] = e]
<1>3. /\ e \in Response /\ Consistent(e) /\ e.rank = First.rank /\ e.st = First.st
      /\ e.sent = First.sent + First.body /\ "STARTED" \in e.flags
  BY <1>1, EmptiedKeeps
<1> HIDE DEF e
<1>4. /\ rs \in Seq(Response) /\ Len(rs) = Len(resp) /\ rs[queue[1]] = e
      /\ \A k \in 1..Len(resp) : (k # queue[1] => rs[k] = resp[k]) /\ Consistent(rs[k])
  BY <1>2, <1>3, Replaced
<1> HIDE DEF rs
<1>5. ASSUME NEW i \in 1..Len(queue)
      PROVE  /\ queue[i] \in 1..Len(resp)
             /\ i # 1 => queue[i] # queue[1] /\ rs[queue[i]] = resp[queue[i]]
             /\ rs[queue[i]].rank = resp[queue[i]].rank
             /\ resp[queue[i]].rank \in Nat
  <2>1. queue[i] \in 1..Len(resp) /\ resp[queue[i]] \in Response
    BY Typed DEF LiveInv, QueueInv
  <2>2. resp[queue[i]].rank \in Nat /\ First.rank \in Nat
    BY <1>1, <2>1 DEF Response
  <2>3. CASE i = 1
    BY <1>2, <1>3, <1>4, <2>1, <2>2, <2>3
  <2>4. CASE i # 1
    <3>1. 1 < i
      BY <1>2, <2>4
    <3>2. resp[queue[1]].rank < resp[queue[i]].rank
      BY <1>2, <3>1 DEF LiveInv, QueueInv
    <3>3. queue[i] # queue[1]
      BY <1>2, <2>2, <3>2
    <3> QED
      BY <1>4, <2>1, <2>2, <2>4, <3>3
  <2> QED
    BY <2>3, <2>4
<1>6. Own => ex.resp # queue[1]
  <2>1. ASSUME Own PROVE ex.resp # queue[1]
    <3>1. resp[ex.resp].rank = 2 * nreq /\ resp[queue[1]].rank < 2 * nreq /\ nreq \in Nat
      BY <1>2, <2>1 DEF LiveInv, ExchangeInv, NewResponse, SessionType
    <3> QED
      BY <3>1
  <2> QED
    BY <2>1
<1> QED
  BY <1>2, <1>3, <1>4, <1>5, <1>6 DEF rs, e

\* After a send: the callback goes on, and the exchange is as it was.
LEMMA ResumeFacts ==
    ASSUME LiveInv, Writing
    PROVE  /\ Resume \in {"none", "headers"}
           /\ frame = "expect" => Resume = "headers" /\ ex.state \in {"BODY", "COMPLETE"}
           /\ frame # "expect" => Resume = "none" /\ frame = "none"
BY DEF Writing, Resume, LiveInv, ExchangeInv

\* A send that leaves the first response in the list.
LEMMA LiveWritten ==
    ASSUME LiveInv, Sends, resp' = [resp EXCEPT ![queue[1]] = Emptied(Begun)],
           wire' \in Seq(Pieces), tx' \in BOOLEAN, frame' = Resume,
           NEW k \in 0..Len(Chain), sbuf' = SubSeq(Chain, k + 1, Len(Chain)),
           UNCHANGED <<proto, cst, rx, stop, sstate, nreq, ex, queue>>
    PROVE  LiveInv'
<1>1. /\ resp' \in Seq(Response) /\ Len(resp') = Len(resp)
      /\ \A r \in 1..Len(resp') : Consistent(resp'[r])
      /\ resp'[queue[1]] = Emptied(Begun)
      /\ Emptied(Begun) \in Response
      /\ Emptied(Begun).rank = First.rank /\ Emptied(Begun).st = "live"
      /\ Emptied(Begun).sent = First.sent + First.body
      /\ "STARTED" \in Emptied(Begun).flags
      /\ queue[1] \in 1..Len(resp) /\ 1 \in 1..Len(queue)
      /\ \A i \in 1..Len(queue) :
            /\ queue[i] \in 1..Len(resp)
            /\ i # 1 => queue[i] # queue[1] /\ resp'[queue[i]] = resp[queue[i]]
            /\ resp'[queue[i]].rank = resp[queue[i]].rank
            /\ resp[queue[i]].rank \in Nat
      /\ Own => ex.resp # queue[1]
      /\ \A r \in 1..Len(resp) : r # queue[1] => resp'[r] = resp[r]
  BY WrittenFacts
<1>2. /\ queue # << >> /\ Chain \in Seq(Pieces) /\ proto = "http"
      /\ \A i \in 1..Len(Chain) : Chain[i].rank = First.rank
      /\ "TERM" \notin Emptied(Begun).flags => Len(Chain) <= First.sent + First.body + 1
      /\ "TERM" \in Emptied(Begun).flags => Len(Chain) <= First.sent + First.body + 2
      /\ First \in Response
  BY SendsFacts
<1>3. Len(Chain) \in Nat /\ First.sent \in Nat /\ First.body \in Nat
  BY <1>2, LenProperties DEF Response
<1>4. /\ sbuf' \in Seq(Pieces) /\ Len(sbuf') = Len(Chain) - k
      /\ \A i \in 1..(Len(Chain) - k) : sbuf'[i] = Chain[k + i]
  <2>1. CASE k = Len(Chain)
    <3>1. sbuf' = << >>
      BY <1>2, <1>3, <2>1, SubSeqEmpty
    <3> QED
      BY <1>3, <2>1, <3>1
  <2>2. CASE k # Len(Chain)
    BY <1>2, <1>3, <2>2, SubSeqProperties, SMTT(40)
  <2> QED
    BY <2>1, <2>2
<1>5. /\ Resume \in {"none", "headers"}
      /\ frame = "expect" => Resume = "headers" /\ ex.state \in {"BODY", "COMPLETE"}
      /\ frame # "expect" => Resume = "none" /\ frame = "none"
  BY ResumeFacts DEF Sends
<1>6. SessionType'
  BY <1>1, <1>4, <1>5 DEF LiveInv, SessionType
<1>7. ExchangeInv'
  <2>1. Own' => Own
    BY <1>5 DEF Own
  <2> QED
    BY <1>1, <1>2, <1>5, <2>1 DEF LiveInv, ExchangeInv
<1>8. QueueInv'
  <2>1. ASSUME NEW i \in 1..Len(queue)
        PROVE  /\ resp'[queue[i]].st = "live" /\ resp'[queue[i]].rank = resp[queue[i]].rank
               /\ i > 1 => "STARTED" \notin resp'[queue[i]].flags
    <3>1. CASE i = 1
      BY <1>1, <3>1
    <3>2. CASE i # 1
      BY <1>1, <3>2 DEF LiveInv, QueueInv
    <3> QED
      BY <3>1, <3>2
  <2> QED
    BY <1>1, <2>1 DEF LiveInv, QueueInv
<1>9. BufferInv'
  <2>1. First' = Emptied(Begun) /\ Started' /\ queue' # << >>
    BY <1>1, <1>2 DEF First, Started
  <2>2. ASSUME NEW i \in 1..Len(sbuf') PROVE sbuf'[i].rank = First'.rank
    <3>1. k + i \in 1..Len(Chain) /\ i \in 1..(Len(Chain) - k)
      BY <1>3, <1>4, SMTT(40)
    <3> QED
      BY <1>1, <1>2, <1>4, <2>1, <3>1
  <2>3. Len(sbuf') <= Len(Chain)
    BY <1>3, <1>4
  <2>4. /\ "TERM" \notin First'.flags => Len(sbuf') <= First'.sent + 1
        /\ "TERM" \in First'.flags => Len(sbuf') <= First'.sent + 2
    <3>1. First'.sent = First.sent + First.body /\ First'.flags = Emptied(Begun).flags
      BY <1>1, <2>1
    <3>2. Len(sbuf') \in Nat
      BY <1>3, <1>4
    <3> QED
      BY <1>2, <1>3, <2>3, <3>1, <3>2, SMTT(40)
  <2> QED
    BY <2>1, <2>2, <2>4 DEF BufferInv
<1>10. \A r \in 1..Len(resp)' : Consistent(resp[r])'
  BY <1>1 DEF Consistent
<1> QED
  BY <1>6, <1>7, <1>8, <1>9, <1>10 DEF LiveInv

LEMMA LiveWriteBlocked ==
    ASSUME LiveInv, NEW k \in 0..(MaxItems + 1), WriteBlocked(k) PROVE LiveInv'
<1>1. Chain \in Seq(Pieces) /\ Len(Chain) \in Nat
  BY SendsFacts, LenProperties DEF WriteBlocked
<1>2. k \in 0..Len(Chain)
  BY <1>1 DEF WriteBlocked
<1>3. wire' \in Seq(Pieces)
  <2>1. SubSeq(Chain, 1, k) \in Seq(Pieces)
    <3>1. \A i \in 1..k : Chain[i] \in Pieces
      BY <1>1, <1>2, ElementOfSeq
    <3> QED
      BY <1>2, <3>1, SubSeqProperties
  <2> QED
    BY <2>1, ConcatProperties DEF LiveInv, SessionType, WriteBlocked
<1>4. tx' \in BOOLEAN
  BY DEF WriteBlocked, LiveInv, SessionType
<1> QED
  BY <1>2, <1>3, <1>4, LiveWritten DEF WriteBlocked

LEMMA LiveWriteAll == ASSUME LiveInv, WriteAll PROVE LiveInv'
<1>1. Chain \in Seq(Pieces) /\ Len(Chain) \in Nat
  BY SendsFacts, LenProperties DEF WriteAll
<1>2. sbuf' = SubSeq(Chain, Len(Chain) + 1, Len(Chain)) /\ Len(Chain) \in 0..Len(Chain)
  BY <1>1, SubSeqEmpty DEF WriteAll
<1>3. wire' \in Seq(Pieces)
  BY <1>1, ConcatProperties DEF LiveInv, SessionType, WriteAll
<1> QED
  BY <1>2, <1>3, LiveWritten DEF WriteAll

\* The list without its first response.
LEMMA Popped ==
    ASSUME LiveInv, queue # << >>
    PROVE  /\ Tail(queue) \in Seq(Nat) /\ Len(Tail(queue)) = Len(queue) - 1
           /\ Len(queue) \in Nat /\ Len(queue) >= 1
           /\ \A i \in 1..(Len(queue) - 1) : Tail(queue)[i] = queue[i + 1]
<1>1. queue \in Seq(Nat)
  BY DEF LiveInv, SessionType
<1> QED
  BY <1>1, FirstFacts, HeadTailProperties

\* ymo_http_session_complete_response.
LEMMA LiveCompleted ==
    ASSUME LiveInv, Sends, wire' \in Seq(Pieces),
           Completed([resp EXCEPT ![queue[1]] = Emptied(Begun)])
    PROVE  LiveInv'
<1> DEFINE rs == [resp EXCEPT ![queue[1]] = Emptied(Begun)]
           v == [Emptied(Begun) EXCEPT !.st = "freed"]
<1>1. /\ rs \in Seq(Response) /\ Len(rs) = Len(resp)
      /\ \A r \in 1..Len(rs) : Consistent(rs[r])
      /\ rs[queue[1]] = Emptied(Begun)
      /\ Emptied(Begun) \in Response /\ Consistent(Emptied(Begun))
      /\ queue[1] \in 1..Len(resp) /\ 1 \in 1..Len(queue)
      /\ \A i \in 1..Len(queue) :
            /\ queue[i] \in 1..Len(resp)
            /\ i # 1 => queue[i] # queue[1] /\ rs[queue[i]] = resp[queue[i]]
            /\ resp[queue[i]].rank \in Nat
      /\ Own => ex.resp # queue[1]
      /\ \A r \in 1..Len(resp) : r # queue[1] => rs[r] = resp[r]
  BY WrittenFacts
<1>2. queue # << >> /\ proto = "http"
  BY SendsFacts
<1>3. v \in Response /\ Consistent(v)
  BY <1>1, FreedKeeps
<1>4. resp' = [rs EXCEPT ![queue[1]] = v]
  BY <1>1 DEF Completed
<1> HIDE DEF rs, v
<1>5. /\ resp' \in Seq(Response) /\ Len(resp') = Len(resp)
      /\ \A r \in 1..Len(resp) : resp'[r] = IF r = queue[1] THEN v ELSE rs[r]
  BY <1>1, <1>3, <1>4, ExceptSeq
<1>6. \A r \in 1..Len(resp)' : Consistent(resp[r])'
  <2>1. \A r \in 1..Len(resp') : Consistent(resp'[r])
    BY <1>1, <1>3, <1>5
  <2> QED
    BY <2>1 DEF Consistent
<1>7. /\ queue' = Tail(queue) /\ sbuf' = << >> /\ frame' = Resume
      /\ cst' \in {"open", "shutdown", "closed"} /\ rx' \in BOOLEAN /\ tx' \in BOOLEAN
      /\ UNCHANGED <<proto, stop, sstate, nreq, ex>>
  BY DEF Completed, LiveInv, SessionType
<1>8. /\ queue' \in Seq(Nat) /\ Len(queue') = Len(queue) - 1
      /\ Len(queue) \in Nat /\ Len(queue) >= 1
      /\ \A i \in 1..(Len(queue) - 1) : queue'[i] = queue[i + 1]
  BY <1>2, <1>7, Popped
<1>9. /\ Resume \in {"none", "headers"}
      /\ frame = "expect" => Resume = "headers" /\ ex.state \in {"BODY", "COMPLETE"}
      /\ frame # "expect" => Resume = "none" /\ frame = "none"
  BY ResumeFacts DEF Sends
<1>10. SessionType'
  BY <1>5, <1>7, <1>8, <1>9, EmptySeq DEF LiveInv, SessionType
<1>11. ASSUME NEW i \in 1..Len(queue')
       PROVE  /\ i + 1 \in 1..Len(queue) /\ queue'[i] = queue[i + 1]
              /\ queue'[i] \in 1..Len(resp') /\ resp'[queue'[i]] = resp[queue[i + 1]]
  <2>1. i + 1 \in 1..Len(queue) /\ i + 1 # 1 /\ i \in 1..(Len(queue) - 1)
    BY <1>8
  <2>2. queue'[i] = queue[i + 1]
    BY <1>8, <2>1
  <2>3. /\ queue[i + 1] \in 1..Len(resp) /\ queue[i + 1] # queue[1]
        /\ rs[queue[i + 1]] = resp[queue[i + 1]]
    BY <1>1, <2>1
  <2> QED
    BY <1>5, <2>1, <2>2, <2>3
<1>12. ExchangeInv'
  <2>1. Own' => Own
    BY <1>7, <1>9 DEF Own
  <2>2. Own => resp'[ex.resp] = resp[ex.resp]
    BY <1>1, <1>5 DEF LiveInv, ExchangeInv
  <2> QED
    BY <1>2, <1>5, <1>7, <1>9, <1>11, <2>1, <2>2 DEF LiveInv, ExchangeInv
<1>13. QueueInv'
  <2>1. ASSUME NEW i \in 1..Len(queue')
        PROVE  /\ queue'[i] \in 1..Len(resp') /\ resp'[queue'[i]].st = "live"
               /\ resp'[queue'[i]].rank > 0 /\ resp'[queue'[i]].rank <= 2 * nreq'
               /\ "STARTED" \notin resp'[queue'[i]].flags
    <3>1. i + 1 > 1
      BY <1>8
    <3> QED
      BY <1>7, <1>11, <3>1 DEF LiveInv, QueueInv
  <2>2. ASSUME NEW i \in 1..Len(queue'), NEW j \in 1..Len(queue'), i < j
        PROVE  resp'[queue'[i]].rank < resp'[queue'[j]].rank
    <3>1. i + 1 < j + 1
      BY <1>8, <2>2
    <3> QED
      BY <1>11, <3>1 DEF LiveInv, QueueInv
  <2> QED
    BY <2>1, <2>2 DEF QueueInv
<1>14. BufferInv'
  <2>1. CASE queue' = << >>
    BY <1>7, <2>1 DEF BufferInv
  <2>2. CASE queue' # << >>
    <3>1. 1 \in 1..Len(queue')
      BY <1>8, <2>2, EmptySeq
    <3>2. First' \in Response
      BY <1>5, <1>11, <3>1, ElementOfSeq DEF First
    <3>3. First'.sent \in Nat
      BY <3>2 DEF Response
    <3> QED
      BY <1>7, <2>2, <3>3 DEF BufferInv
  <2> QED
    BY <2>1, <2>2
<1> QED
  BY <1>6, <1>10, <1>12, <1>13, <1>14 DEF LiveInv

LEMMA LiveWriteComplete == ASSUME LiveInv, WriteComplete PROVE LiveInv'
<1> DEFINE rs == [resp EXCEPT ![queue[1]] = Emptied(Begun)]
<1>1. Sends /\ wire' = wire \o Chain
  BY DEF WriteComplete
<1>2. rs \in Seq(Response) /\ \A r \in 1..Len(rs) : Consistent(rs[r])
  BY <1>1, WrittenFacts
<1>3. wire' \in Seq(Pieces)
  BY <1>1, SendsFacts, ConcatProperties DEF LiveInv, SessionType
<1>4. CASE Transition(rs)
  <2>1. /\ FreeSession(rs) /\ proto' = "next" /\ UNCHANGED <<cst, stop, sstate, nreq>>
    BY <1>4 DEF Transition
  <2>2. cst' \in {"open", "shutdown", "closed"}
    BY <2>1 DEF LiveInv, SessionType
  <2> HIDE DEF rs
  <2> QED
    BY <1>2, <1>3, <2>1, <2>2, LiveFree
<1>5. CASE Completed(rs)
  BY <1>1, <1>3, <1>5, LiveCompleted
<1> QED
  BY <1>4, <1>5 DEF WriteComplete

LEMMA LiveNext == LiveInv /\ [Next]_vars => LiveInv'
<1> SUFFICES ASSUME LiveInv, [Next]_vars PROVE LiveInv'
  OBVIOUS
<1>1. ASSUME NEW k \in Kinds, ReadHeaders(k) PROVE LiveInv'
  BY <1>1, LiveReadHeaders
<1>2. CASE ReadBody \/ ReadBad \/ ReadLate
  BY <1>2, LiveReadBody, LiveReadBad, LiveReadLate
<1>3. CASE HeaderCallback
  BY <1>3, LiveHeaderCallback
<1>4. ASSUME NEW v, NEW keep, HandlerLeaves(v, keep), frame = "handler" PROVE LiveInv'
  BY <1>4, LiveHandler DEF HandlerLeaves
<1>5. ASSUME NEW n \in 0..MaxItems, HandlerOkay(n) PROVE LiveInv'
  BY <1>4, <1>5, HandlerOkayLeaves DEF HandlerOkay
<1>6. ASSUME NEW n \in 0..MaxItems, NEW l \in BOOLEAN, NEW s \in BOOLEAN, HandlerBlocked(n, l, s)
      PROVE  LiveInv'
  BY <1>4, <1>6, HandlerBlockedLeaves DEF HandlerBlocked
<1>7. CASE UpgradeHandled \/ UpgradeRefused
  BY <1>4, <1>7, UpgradeLeaves DEF UpgradeHandled, UpgradeRefused
<1>8. CASE HandlerFails
  BY <1>8, LiveHandlerFails
<1>9. CASE App
  BY <1>9, AppStepLeaves, LiveApp DEF App
<1>10. CASE WriteNothing
  BY <1>10, LiveWriteNothing
<1>11. CASE WriteFails \/ Close
  BY <1>11, AllTyped, LiveCloseConn DEF WriteFails, Close
<1>12. CASE WriteAll \/ WriteComplete
  BY <1>12, LiveWriteAll, LiveWriteComplete
<1>13. ASSUME NEW k \in 0..(MaxItems + 1), WriteBlocked(k) PROVE LiveInv'
  BY <1>13, LiveWriteBlocked
<1>14. CASE StopGraceful
  BY <1>14, LiveStop
<1>15. CASE UNCHANGED vars
  <2>1. SessionType' /\ ExchangeInv'
    BY <1>15 DEF vars, LiveInv, SessionType, ExchangeInv, Own
  <2> QED
    BY <1>15, <2>1, LiveQuiet DEF vars
<1> QED
  BY <1>1, <1>2, <1>3, <1>5, <1>6, <1>7, <1>8, <1>9, <1>10, <1>11, <1>12, <1>13, <1>14, <1>15
     DEF Next, Read, Handler, Write

\* The invariant says that the list is good.
LEMMA LiveIsResponsesLive == LiveInv => ResponsesLive
<1> SUFFICES ASSUME LiveInv PROVE ResponsesLive
  OBVIOUS
<1>1. /\ Len(resp) \in Nat /\ DOMAIN resp = 1..Len(resp)
      /\ \A r \in 1..Len(resp) : resp[r] \in Response
      /\ Len(queue) \in Nat /\ DOMAIN queue = 1..Len(queue)
  BY Typed DEF LiveInv
<1>2. Len(sbuf) <= MaxItems + 2
  <2>1. CASE queue = << >>
    <3>1. Len(sbuf) = 0
      BY <2>1 DEF LiveInv, BufferInv
    <3> QED
      BY <3>1
  <2>2. CASE queue # << >>
    <3>1. First \in Response /\ Consistent(First)
      BY <2>2, FirstFacts
    <3>2. First.sent \in Nat /\ First.body \in Nat /\ First.body + First.sent <= MaxItems
      BY <3>1 DEF Response, Consistent
    <3>3. Len(sbuf) <= First.sent + 2 /\ Len(sbuf) \in Nat
      <4>1. Len(sbuf) \in Nat
        BY Typed DEF LiveInv
      <4> QED
        BY <2>2, <3>2, <4>1 DEF LiveInv, BufferInv
    <3> QED
      BY <3>2, <3>3
  <2> QED
    BY <2>1, <2>2
<1>3. \A r \in DOMAIN resp : resp[r].flags \subseteq Flags
  BY <1>1 DEF Response
<1>4. ex.state \in {"NONE", "CONNECTED", "BODY", "COMPLETE"}
  BY DEF LiveInv, SessionType, Exchange
<1>5. TypeOK
  BY <1>1, <1>2, <1>3, <1>4 DEF TypeOK, LiveInv, SessionType, QueueInv
<1>6. ASSUME NEW i \in DOMAIN queue, NEW j \in DOMAIN queue, queue[i] = queue[j] PROVE i = j
  <2>1. resp[queue[i]] \in Response /\ resp[queue[j]] \in Response
    BY <1>1 DEF LiveInv, QueueInv
  <2>2. resp[queue[i]].rank \in Nat /\ resp[queue[i]].rank = resp[queue[j]].rank
    BY <1>6, <2>1 DEF Response
  <2>3. ~(i < j) /\ ~(j < i)
    BY <1>1, <2>2 DEF LiveInv, QueueInv
  <2> QED
    BY <1>1, <2>3
<1>7. \A i \in DOMAIN queue : resp[queue[i]].st = "live"
  BY <1>1 DEF LiveInv, QueueInv
<1>8. frame = "handler" => /\ resp[ex.resp].st = "live"
                           /\ \A i \in DOMAIN queue : queue[i] # ex.resp
  BY <1>1, HandlerFacts
<1> QED
  BY <1>5, <1>6, <1>7, <1>8 DEF ResponsesLive

LEMMA LiveInvariant == Spec => []LiveInv
BY LiveInit, LiveNext, PTL DEF Spec

\* The list at session->response never holds a freed response or one twice, and
\* the application's callback gets a response that is allocated and not queued,
\* for every mix of pipelined requests, interim responses, asynchronous answers,
\* partial sends, errors and upgrades (ymo_http_session.c).
THEOREM ResponsesStayLive == Spec => []ResponsesLive
BY LiveInvariant, LiveIsResponsesLive, PTL

-----------------------------------------------------------------------------
(* The write watcher *)

\* A step that leaves the first response alone, or turns the watcher on with it.
LEMMA WatchKept ==
    ASSUME WatcherInv, UNCHANGED <<proto, cst, sbuf>>, tx => tx',
           \/ queue # << >> /\ queue' # << >> /\ First' = First
           \/ Ready' => tx'
    PROVE  WatcherInv'
<1>1. CASE Ready' => tx'
  BY <1>1 DEF WatcherInv
<1>2. CASE queue # << >> /\ queue' # << >> /\ First' = First
  <2>1. Ready' = Ready /\ Started' = Started /\ Begun' = Begun /\ Chain' = Chain
    BY <1>2 DEF Ready, Started, Begun, Chain, First
  <2> QED
    BY <1>2, <2>1 DEF WatcherInv
<1> QED
  BY <1>1, <1>2

LEMMA AppendFirst ==
    ASSUME LiveInv, NEW r \in Nat, queue' = Append(queue, r),
           \A i \in 1..Len(queue) : resp'[queue[i]] = resp[queue[i]]
    PROVE  /\ queue' # << >>
           /\ queue # << >> => First' = First
           /\ queue = << >> => First' = resp'[r]
<1>1. /\ Len(queue) \in Nat /\ Len(queue') = Len(queue) + 1
      /\ \A i \in 1..Len(queue) : queue'[i] = queue[i]
      /\ queue'[Len(queue) + 1] = r
  BY Appended
<1>2. queue' # << >>
  BY <1>1
<1>3. queue # << >> => First' = First
  BY <1>1, FirstFacts DEF First
<1>4. queue = << >> => First' = resp'[r]
  BY <1>1 DEF First
<1> QED
  BY <1>2, <1>3, <1>4

LEMMA WatchHandler ==
    ASSUME LiveInv, WatcherInv, frame = "handler", NEW v, NEW keep, HandlerLeaves(v, keep)
    PROVE  WatcherInv'
<1>1. /\ ex.resp \in 1..Len(resp) /\ \A i \in 1..Len(queue) : queue[i] # ex.resp
  BY HandlerFacts
<1>2. /\ resp' = [resp EXCEPT ![ex.resp] = v] /\ queue' = Append(queue, ex.resp)
      /\ UNCHANGED <<proto, cst, sbuf>> /\ (tx => tx') /\ ("READY" \in v.flags => tx')
      /\ v \in Response /\ Consistent(v)
  BY DEF HandlerLeaves, HandlerReturns, AddResponse
<1>3. resp'[ex.resp] = v /\ \A i \in 1..Len(queue) : resp'[queue[i]] = resp[queue[i]]
  BY <1>1, <1>2, Replaced DEF LiveInv, QueueInv
<1>4. /\ queue # << >> => First' = First
      /\ queue = << >> => First' = v
      /\ queue' # << >>
  BY <1>1, <1>2, <1>3, AppendFirst
<1>5. CASE queue = << >>
  <2>1. Ready' => tx'
    BY <1>2, <1>4, <1>5 DEF Ready, First
  <2> QED
    BY <1>2, <2>1, WatchKept
<1>6. CASE queue # << >>
  BY <1>2, <1>4, <1>6, WatchKept
<1> QED
  BY <1>5, <1>6

LEMMA WatchApp ==
    ASSUME LiveInv, WatcherInv, NEW r, NEW v, AppLeaves(r, v)
    PROVE  WatcherInv'
<1>1. /\ r \in 1..Len(resp) /\ v \in Response /\ Consistent(v)
      /\ resp' = [resp EXCEPT ![r] = v] /\ (tx => tx') /\ ("READY" \in v.flags => tx')
      /\ UNCHANGED <<proto, cst, sbuf, queue>>
  BY DEF AppLeaves
<1>2. resp'[r] = v /\ \A k \in 1..Len(resp) : k # r => resp'[k] = resp[k]
  BY <1>1, Replaced
<1>3. CASE queue = << >>
  <2>1. ~Ready'
    BY <1>1, <1>3 DEF Ready
  <2> QED
    BY <1>1, <2>1, WatchKept
<1>4. CASE queue # << >> /\ queue[1] = r
  <2>1. Ready' => tx'
    BY <1>1, <1>2, <1>4 DEF Ready
  <2> QED
    BY <1>1, <2>1, WatchKept
<1>5. CASE queue # << >> /\ queue[1] # r
  <2>1. First' = First
    BY <1>1, <1>2, <1>5, FirstFacts DEF First
  <2> QED
    BY <1>1, <1>5, <2>1, WatchKept
<1> QED
  BY <1>3, <1>4, <1>5

\* After everything of an incomplete response was sent there is nothing more to
\* send until the application appends to it.
LEMMA WatchWriteAll == ASSUME LiveInv, WriteAll PROVE WatcherInv'
<1>1. Sends /\ "COMPLETE" \notin First.flags /\ sbuf' = << >> /\ UNCHANGED queue
      /\ resp' = [resp EXCEPT ![queue[1]] = Emptied(Begun)]
  BY DEF WriteAll
<1>2. /\ First \in Response /\ Consistent(First) /\ First.status /\ Begun = Start(First)
  BY <1>1, SendsFacts
<1>3. resp'[queue[1]] = Emptied(Begun) /\ Emptied(Begun) \in Response
  BY <1>1, WrittenFacts
<1>4. First' = Emptied(Begun)
  BY <1>1, <1>3 DEF First
<1> DEFINE e == Emptied(Begun)
<1>5. "COMPLETE" \in Flags \ {"STARTED", "CHUNKED", "TERM"}
  BY DEF Flags
<1>6. /\ e \in Response /\ Consistent(e) /\ e.body = 0 /\ e.status
      /\ "STARTED" \in e.flags /\ "COMPLETE" \notin e.flags
  BY <1>1, <1>2, <1>5, EmptiedKeeps
<1>7. Begun' = e /\ Chain' = sbuf' \o Output(e, e)
  BY <1>4, <1>6 DEF Begun, Chain, Start
<1> HIDE DEF e
<1>8. Output(e, e) = << >>
  <2>1. Output(e, e) \in Seq(Pieces) /\ Len(Output(e, e)) = Heads(e) + e.body + Terms(e)
    BY <1>6, OutputFacts
  <2>2. Heads(e) = 0 /\ Terms(e) = 0
    BY <1>6 DEF Heads, Terms
  <2>3. Len(Output(e, e)) = 0
    BY <1>6, <2>1, <2>2
  <2> QED
    BY <2>1, <2>3, EmptySeq
<1>9. Chain' = << >>
  BY <1>1, <1>7, <1>8
<1> QED
  BY <1>4, <1>6, <1>9 DEF WatcherInv, e

\* The watcher stays on for the next response if it is ready.
LEMMA WatchCompleted ==
    ASSUME LiveInv, Sends, Completed([resp EXCEPT ![queue[1]] = Emptied(Begun)])
    PROVE  WatcherInv'
<1> DEFINE rs == [resp EXCEPT ![queue[1]] = Emptied(Begun)]
<1>1. /\ resp' = [rs EXCEPT ![queue[1]].st = "freed"] /\ queue' = Tail(queue)
      /\ cst' = (IF ShutsDown THEN "shutdown" ELSE cst)
      /\ tx' = (MoreReady /\ ~ShutsDown)
  BY DEF Completed
<1>2. CASE ShutsDown
  BY <1>1, <1>2 DEF WatcherInv
<1>3. CASE ~ShutsDown /\ MoreReady
  BY <1>1, <1>3 DEF WatcherInv
<1>4. CASE ~MoreReady
  <2>1. queue # << >> /\ Len(queue) \in Nat /\ Len(queue) >= 1
    BY SendsFacts, FirstFacts
  <2>2. /\ Tail(queue) \in Seq(Nat) /\ Len(Tail(queue)) = Len(queue) - 1
        /\ \A i \in 1..(Len(queue) - 1) : Tail(queue)[i] = queue[i + 1]
    BY <2>1, Popped
  <2>3. CASE Len(queue) = 1
    <3>1. queue' = << >>
      BY <1>1, <2>2, <2>3, EmptySeq
    <3> QED
      BY <3>1 DEF WatcherInv, Ready
  <2>4. CASE Len(queue) > 1
    <3>1. 2 \in 1..Len(queue) /\ 2 # 1 /\ 1 \in 1..(Len(queue) - 1)
      BY <2>1, <2>4
    <3>2. queue'[1] = queue[2]
      BY <1>1, <2>2, <3>1
    <3>3. /\ rs \in Seq(Response) /\ Len(rs) = Len(resp) /\ queue[2] \in 1..Len(resp)
          /\ queue[2] # queue[1] /\ rs[queue[2]] = resp[queue[2]]
      BY <3>1, WrittenFacts
    <3>4. resp'[queue[2]] = resp[queue[2]]
      BY <1>1, <3>3
    <3>5. ~Ready'
      BY <1>4, <2>4, <3>2, <3>4 DEF Ready, MoreReady
    <3> QED
      BY <3>5 DEF WatcherInv
  <2> QED
    BY <2>1, <2>3, <2>4
<1> QED
  BY <1>2, <1>3, <1>4

LEMMA WatchNext == LiveInv /\ WatcherInv /\ [Next]_vars => WatcherInv'
<1> SUFFICES ASSUME LiveInv, WatcherInv, [Next]_vars PROVE WatcherInv'
  OBVIOUS
<1>1. ASSUME proto' # "http" PROVE WatcherInv'
  BY <1>1 DEF WatcherInv
<1>2. ASSUME tx' = TRUE PROVE WatcherInv'
  BY <1>2 DEF WatcherInv
<1>3. ASSUME UNCHANGED <<proto, cst, tx, resp, queue, sbuf>> PROVE WatcherInv'
  <2>1. CASE queue = << >>
    <3>1. ~Ready'
      BY <1>3, <2>1 DEF Ready
    <3> QED
      BY <1>3, <3>1, WatchKept
  <2>2. CASE queue # << >>
    BY <1>3, <2>2, WatchKept DEF First
  <2> QED
    BY <2>1, <2>2
<1>4. ASSUME NEW k \in Kinds, ReadHeaders(k) PROVE WatcherInv'
  <2> DEFINE expects == k.body /\ "EXPECT" \in k.flags
  <2>1. /\ \A r \in 1..Len(resp) : resp'[r] = resp[r]
        /\ ~expects => UNCHANGED <<queue, tx>>
        /\ expects => tx' = TRUE
    BY <1>4, ReadHeadersFacts
  <2>2. UNCHANGED <<proto, cst, sbuf>>
    BY <1>4 DEF ReadHeaders
  <2>3. CASE expects
    BY <1>2, <2>1, <2>3
  <2>4. CASE ~expects /\ queue = << >>
    <3>1. ~Ready'
      BY <2>1, <2>4 DEF Ready
    <3> QED
      BY <2>1, <2>2, <2>4, <3>1, WatchKept
  <2>5. CASE ~expects /\ queue # << >>
    <3>1. First' = First
      BY <2>1, <2>5, FirstFacts DEF First
    <3> QED
      BY <2>1, <2>2, <2>5, <3>1, WatchKept
  <2> QED
    BY <2>3, <2>4, <2>5
<1>5. CASE ReadBody \/ ReadBad \/ ReadLate
  BY <1>1, <1>2, <1>3, <1>5 DEF ReadBody, ReadBad, ReadLate
<1>6. ASSUME NEW rs, CloseConn(rs) PROVE WatcherInv'
  BY <1>1, <1>6 DEF CloseConn
<1>7. CASE HeaderCallback
  BY <1>3, <1>6, <1>7 DEF HeaderCallback
<1>8. ASSUME NEW n \in 0..MaxItems, HandlerOkay(n) PROVE WatcherInv'
  BY <1>8, HandlerOkayLeaves, WatchHandler DEF HandlerOkay
<1>9. ASSUME NEW n \in 0..MaxItems, NEW l \in BOOLEAN, NEW s \in BOOLEAN, HandlerBlocked(n, l, s)
      PROVE  WatcherInv'
  BY <1>9, HandlerBlockedLeaves, WatchHandler DEF HandlerBlocked
<1>10. CASE UpgradeHandled \/ UpgradeRefused
  BY <1>10, UpgradeLeaves, WatchHandler DEF UpgradeHandled, UpgradeRefused
<1>11. CASE App
  BY <1>11, AppStepLeaves, WatchApp DEF App
<1>12. CASE WriteNothing
  <2>1. First' = First /\ Ready' = Ready /\ Started' = Started
    BY <1>12 DEF WriteNothing, First, Ready, Started
  <2>2. ~Ready \/ (~Started /\ Buffers(First))
    BY <1>12 DEF WriteNothing
  <2> QED
    BY <2>1, <2>2 DEF WatcherInv
<1>13. CASE HandlerFails \/ WriteFails \/ Close
  BY <1>6, <1>13 DEF HandlerFails, WriteFails, Close
<1>14. ASSUME NEW k \in 0..(MaxItems + 1), WriteBlocked(k) PROVE WatcherInv'
  <2>1. tx /\ tx' = tx /\ tx \in BOOLEAN
    BY <1>14, SendsFacts DEF WriteBlocked, LiveInv, SessionType
  <2> QED
    BY <1>2, <2>1
<1>15. CASE WriteAll
  BY <1>15, WatchWriteAll
<1>16. CASE WriteComplete
  <2> DEFINE rs == [resp EXCEPT ![queue[1]] = Emptied(Begun)]
  <2>1. Sends /\ ((First.upgrade /\ Transition(rs)) \/ Completed(rs))
    BY <1>16 DEF WriteComplete
  <2>2. CASE Transition(rs)
    BY <1>1, <2>2 DEF Transition
  <2> QED
    BY <2>1, <2>2, WatchCompleted
<1>17. CASE StopGraceful \/ UNCHANGED vars
  BY <1>3, <1>17 DEF StopGraceful, vars
<1> QED
  BY <1>4, <1>5, <1>7, <1>8, <1>9, <1>10, <1>11, <1>12, <1>13, <1>14, <1>15, <1>16, <1>17
     DEF Next, Read, Handler, Write

\* The write watcher is on whenever the first response of the list has
\* something to send: no answer waits for a wake-up that was lost, however the
\* application's callbacks, pipelined requests and partial sends are interleaved
\* (ymo_proto_http_write_cb, ymo_http_response_body_append).
THEOREM NoResponseStalls == Spec => []NoStall
<1>1. Init => WatcherInv
  BY DEF Init, WatcherInv, Ready
<1>2. WatcherInv => NoStall
  BY DEF WatcherInv, NoStall
<1> QED
  BY <1>1, <1>2, LiveInvariant, WatchNext, PTL DEF Spec
=============================================================================
