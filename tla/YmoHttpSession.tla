--------------------------- MODULE YmoHttpSession ---------------------------
(***************************************************************************)
(* An HTTP session (src/protocol/http: ymo_proto_http.c,                   *)
(* ymo_http_session.c, ymo_http_exchange.c, ymo_http_response.c): the      *)
(* exchange being parsed, the queue of responses, the send buffer and the  *)
(* callbacks of the protocol, with an application that answers in the      *)
(* callback or later.  Requests arrive as the events the parser reports:   *)
(* the end of the headers, the end of the body, an error.                  *)
(***************************************************************************)
EXTENDS Naturals, Sequences, FiniteSets

CONSTANTS
    MaxReq,    \* bound: requests on the connection
    MaxItems,  \* bound: body items the application appends to a response
    Kinds,     \* the requests clients send: [flags, body]
    MaxQueue   \* bound: responses in the queue when the client sends more

ASSUME HttpSessionAssumption ==
    /\ MaxReq \in Nat /\ MaxItems \in Nat /\ MaxQueue \in Nat
    /\ Kinds \subseteq [flags : SUBSET {"KEEPALIVE", "CHUNKS", "EXPECT", "UPGRADE"},
                        body : BOOLEAN]

VARIABLES
    proto,   \* http, none (no session was made), next (upgraded), gone, broken
             \* (the list of responses is linked to itself)
    cst,     \* conn->state: open, shutdown, closed
    rx, tx,  \* are w_read and w_write active?
    stop,    \* the server is in STOP_GRACEFUL
    sstate,  \* session->state
    nreq,    \* requests received
    ex,      \* session->exchange
    resp,    \* every response created: its contents
    queue,   \* the list at session->response
    sbuf,    \* session->send_buffer
    wire,    \* what was sent
    frame    \* where the read callback is: none (not running), expect (in
             \* ymo_conn_tx_now), headers (before header_cb), handler

vars == <<proto, cst, rx, tx, stop, sstate, nreq, ex, resp, queue, sbuf, wire, frame>>

NoExchange == [state |-> "NONE", flags |-> {}, resp |-> 0]
NewExchange == [NoExchange EXCEPT !.state = "CONNECTED"]

\* ymo_http_response_create, for the response of a given rank (as in
\* YmoResponses); st tells whether it is allocated.
NewResponse(rank, flags) ==
    [st |-> "live", rank |-> rank, flags |-> flags, body |-> 0, sent |-> 0,
     status |-> FALSE, length |-> FALSE, frame |-> "none",
     holds |-> FALSE, upgrade |-> FALSE]

\* ymo_http_response_free.
Free(r) == [resp EXCEPT ![r].st = "freed"]
\* ymo_http_response_issue, and ymo_http_response_finish in it.
Issue(p) == [p EXCEPT !.status = TRUE, !.flags = @ \cup {"READY", "COMPLETE"}]
\* ymo_http_session_init_response: the response to the n-th request.
InitResponse(n, flags) == NewResponse(2 * n, flags)
\* The response of send_100_continue.
Continue(n) == Issue(NewResponse(2 * n - 1, {"KEEPALIVE"}))
\* The response of ymo_proto_http_handle_error.
ErrorResponse(n) == Issue(NewResponse(2 * n, {}))
\* ymo_http_session_add_response.
AddResponse(q, r) == Append(q, r)
\* Does response r still have an application that will finish it?
Pending(r) == resp[r].st = "live" /\ resp[r].holds /\ "COMPLETE" \notin resp[r].flags

\* conn_proto_init: ymo_proto_http_conn_init, which may fail.  The state of a
\* new session is not set: it is what the allocator left there.
Init ==
    /\ proto \in {"http", "none"}
    /\ cst = "open" /\ rx = TRUE /\ tx = FALSE /\ stop = FALSE
    /\ sstate \in {"OPEN", "ERROR"}
    /\ nreq = 0 /\ ex = NoExchange
    /\ resp = << >> /\ queue = << >> /\ sbuf = << >> /\ wire = << >>
    /\ frame = "none"

-----------------------------------------------------------------------------
(* The end of a session *)

\* ymo_proto_http_conn_cleanup with ymo_http_session_free: the exchange, every
\* queued response with the exchange it holds, and the send buffer.
FreeSession(rs) ==
    /\ ex' = NoExchange
    /\ resp' = [r \in DOMAIN rs |->
                   IF \E i \in DOMAIN queue : queue[i] = r
                   THEN [rs[r] EXCEPT !.st = "freed"] ELSE rs[r]]
    /\ queue' = << >> /\ sbuf' = << >>
    /\ rx' = FALSE /\ tx' = FALSE
    /\ frame' = "none"

\* close_and_free_connection.
CloseConn(rs) ==
    /\ cst' = "closed" /\ proto' = "gone"
    /\ FreeSession(rs)
    /\ UNCHANGED <<stop, sstate, nreq, wire>>

\* The client closes, an error is read, or the idle timer expires.
Close == cst # "closed" /\ proto # "broken" /\ frame = "none" /\ CloseConn(resp)

StopGraceful ==
    /\ ~stop /\ stop' = TRUE
    /\ UNCHANGED <<proto, cst, rx, tx, sstate, nreq, ex, resp, queue, sbuf, wire, frame>>

-----------------------------------------------------------------------------
(* The read callback *)

\* The server calls read_cb, and it does not return at once: the session is
\* not in its error state.
Reading ==
    /\ proto = "http" /\ cst = "open" /\ rx /\ frame = "none"
    /\ sstate # "ERROR"
    /\ Len(queue) < MaxQueue

\* ymo_http_session_is_read_ready.
Parsing == IF ex.state = "NONE" THEN NewExchange ELSE ex

\* HTTP_STATE_HEADERS_COMPLETE up to the header callback:
\* ymo_http_session_init_response, the body's state, send_100_continue up to
\* its ymo_conn_tx_now.
ReadHeaders(k) ==
    /\ Reading /\ Parsing.state = "CONNECTED" /\ nreq < MaxReq
    /\ nreq' = nreq + 1
    /\ LET final == Len(resp) + 1
           expects == k.body /\ "EXPECT" \in k.flags
           created == Append(resp, InitResponse(nreq + 1, k.flags))
       IN /\ ex' = [state |-> IF k.body THEN "BODY" ELSE "COMPLETE",
                    flags |-> k.flags, resp |-> final]
          /\ resp' = IF expects THEN Append(created, Continue(nreq + 1)) ELSE created
          /\ queue' = IF expects THEN AddResponse(queue, final + 1) ELSE queue
          /\ tx' = (tx \/ expects)
          /\ frame' = IF expects THEN "expect" ELSE "headers"
    /\ UNCHANGED <<proto, cst, rx, stop, sstate, sbuf, wire>>

\* The header callback (not called for an upgrade), and on to
\* http_state_assess; with a bad status the connection is closed.
HeaderCallback ==
    /\ frame = "headers"
    /\ \/ /\ frame' = IF ex.state = "COMPLETE" THEN "handler" ELSE "none"
          /\ UNCHANGED <<proto, cst, rx, tx, stop, sstate, nreq, ex, resp, queue, sbuf, wire>>
       \/ "UPGRADE" \notin ex.flags /\ CloseConn(resp)

\* The last piece of a body; the body callback takes it or fails, which is
\* an error of the parser.
ReadBody ==
    /\ Reading /\ ex.state = "BODY"
    /\ ex' = [ex EXCEPT !.state = "COMPLETE"]
    /\ frame' = "handler"
    /\ UNCHANGED <<proto, cst, rx, tx, stop, sstate, nreq, resp, queue, sbuf, wire>>

\* ymo_proto_http_handle_error, with ymo_http_response_issue(400 and more).
ReadBad ==
    /\ Reading /\ Parsing.state \in {"CONNECTED", "BODY"}
    /\ Parsing.state = "BODY" \/ nreq < MaxReq
    /\ LET n == IF Parsing.state = "BODY" THEN nreq ELSE nreq + 1
       IN /\ nreq' = n
          /\ resp' = Append(resp, ErrorResponse(n))
    /\ queue' = AddResponse(queue, Len(resp) + 1)
    /\ sstate' = "ERROR" /\ tx' = TRUE /\ ex' = Parsing
    /\ UNCHANGED <<proto, cst, rx, stop, sbuf, wire, frame>>

\* More input while the exchange is complete and was not reset, its response
\* being in the list: the switch goes straight to http_parse_complete, the
\* handler runs again and ymo_http_session_add_response links the list to
\* itself.  What follows is not defined and the behaviour ends here.
ReadLate ==
    /\ Reading /\ ex.state = "COMPLETE"
    /\ proto' = "broken"
    /\ UNCHANGED <<cst, rx, tx, stop, sstate, nreq, ex, resp, queue, sbuf, wire, frame>>

-----------------------------------------------------------------------------
(* ymo_http_handler and the application *)

\* Mutant: the response is put in front of the list.
HandlerReturns_mutant(keep, rs) ==
    /\ resp' = rs
    /\ queue' = <<ex.resp>> \o queue
    /\ ex' = keep
    /\ rx' = (rx /\ ~stop)
    /\ frame' = "none"
    /\ UNCHANGED <<proto, cst, stop, nreq, sbuf, wire>>

\* The end of the read callback after the handler.
HandlerReturns(keep, rs) ==
    /\ resp' = rs
    /\ queue' = AddResponse(queue, ex.resp)
    /\ ex' = keep
    /\ rx' = (rx /\ ~stop)
    /\ frame' = "none"
    /\ UNCHANGED <<proto, cst, stop, nreq, sbuf, wire>>

\* Mutant: the reset leaves the state of the parser.
Reset_mutant(flags) == IF "KEEPALIVE" \in flags THEN [ex EXCEPT !.state = "BODY"] ELSE ex

\* ymo_http_exchange_reset, if the response allows the connection to stay.
Reset(flags) == IF "KEEPALIVE" \in flags THEN NewExchange ELSE ex

\* The callback sets the status, appends n items and finishes: YMO_OKAY.
HandlerOkay(n) ==
    /\ frame = "handler" /\ "UPGRADE" \notin ex.flags
    /\ HandlerReturns(Reset(resp[ex.resp].flags),
           [resp EXCEPT ![ex.resp] = [Issue(@) EXCEPT !.body = n]])
    /\ tx' = TRUE
    /\ UNCHANGED sstate

\* ymo_http_response_body_append marks the response only when it may be sent
\* in chunks.
AppendFlags(flags, n) == flags \cup (IF n > 0 /\ "CHUNKS" \in flags THEN {"READY"} ELSE {})

\* The callback appends n items and returns EAGAIN: it keeps the exchange.
\* It may have set Content-Length, or no status yet.
HandlerBlocked(n, length, status) ==
    /\ frame = "handler" /\ "UPGRADE" \notin ex.flags
    /\ LET r == ex.resp
           flags == AppendFlags(resp[r].flags, n)
       IN /\ HandlerReturns(NoExchange,
                 [resp EXCEPT ![r] = [@ EXCEPT !.flags = flags, !.body = n, !.holds = TRUE,
                                               !.length = length, !.status = status]])
          /\ tx' = (tx \/ (n > 0 /\ "CHUNKS" \in flags))
    /\ UNCHANGED sstate

\* Any other status: the response is freed and the connection closed.
HandlerFails ==
    /\ frame = "handler"
    /\ CloseConn(Free(ex.resp))

\* ymo_http_check_upgrade, handled: ymo_ws_http_upgrade_cb issues the 101 and
\* its flags replace the response's.
UpgradeHandled ==
    /\ frame = "handler" /\ "UPGRADE" \in ex.flags
    /\ HandlerReturns(NewExchange,
           [resp EXCEPT ![ex.resp] = Issue([@ EXCEPT !.flags = {"KEEPALIVE"},
                                                     !.upgrade = TRUE])])
    /\ tx' = TRUE
    /\ UNCHANGED sstate

\* No handler knows the protocol: 501, and the session's error state.
UpgradeRefused ==
    /\ frame = "handler" /\ "UPGRADE" \in ex.flags
    /\ HandlerReturns(Reset(resp[ex.resp].flags), [resp EXCEPT ![ex.resp] = Issue(@)])
    /\ tx' = TRUE
    /\ sstate' = "ERROR"

\* ymo_http_response_body_append of one item, with the status by now.
BodyAppend(p) == [p EXCEPT !.body = @ + 1, !.status = TRUE, !.flags = AppendFlags(@, 1)]

\* Later, on the loop's thread: ymo_http_response_body_append and
\* ymo_http_response_finish.
AppAppend(r) ==
    /\ proto = "http" /\ frame = "none" /\ Pending(r)
    /\ resp[r].body + resp[r].sent < MaxItems
    /\ resp' = [resp EXCEPT ![r] = BodyAppend(@)]
    /\ tx' = (tx \/ "CHUNKS" \in resp[r].flags)
    /\ UNCHANGED <<proto, cst, rx, stop, sstate, nreq, ex, queue, sbuf, wire, frame>>

\* Mutant: the response is not marked ready.
AppFinish_mutant(r) ==
    /\ proto = "http" /\ frame = "none" /\ Pending(r)
    /\ resp' = [resp EXCEPT ![r].status = TRUE, ![r].flags = @ \cup {"COMPLETE"}]
    /\ tx' = TRUE
    /\ UNCHANGED <<proto, cst, rx, stop, sstate, nreq, ex, queue, sbuf, wire, frame>>

AppFinish(r) ==
    /\ proto = "http" /\ frame = "none" /\ Pending(r)
    /\ resp' = [resp EXCEPT ![r] = Issue(@)]
    /\ tx' = TRUE
    /\ UNCHANGED <<proto, cst, rx, stop, sstate, nreq, ex, queue, sbuf, wire, frame>>

-----------------------------------------------------------------------------
(* The write callback, and the server's ymo_write_cb around it *)

\* The write watcher fires, or ymo_conn_tx_now was called.
Writing == proto = "http" /\ (frame = "expect" \/ (frame = "none" /\ tx))

Ready == queue # << >> /\ "READY" \in resp[queue[1]].flags
First == resp[queue[1]]
Started == "STARTED" \in First.flags

\* should_buffer_body.
Buffers(p) == ~p.length /\ {"COMPLETE", "CHUNKS"} \cap p.flags = {}

\* What ymo_http_response_start does to a response: it chooses the framing
\* and writes it into the header section.  length is the app's own
\* Content-Length, total the one computed here.
Start(p) ==
    IF "STARTED" \in p.flags THEN p
    ELSE LET f == CASE p.length -> "length"
                    [] ~p.length /\ "COMPLETE" \in p.flags -> "total"
                    [] OTHER -> "chunked"
         IN [p EXCEPT !.frame = f, !.flags = @ \cup {"STARTED"}
                         \cup IF f = "chunked" THEN {"CHUNKED"} ELSE {}]

Piece(p, kind) == [rank |-> p.rank, kind |-> kind, frame |-> p.frame,
                   total |-> IF p.frame = "total" THEN p.body ELSE 0]
Copies(n, x) == [i \in 1..n |-> x]

\* The header section, when it has just been made; the body items, by
\* ymo_http_response_body_get; the last chunk.
Output(p, q) ==
    (IF "STARTED" \in p.flags THEN << >> ELSE <<Piece(q, "head")>>)
    \o Copies(q.body, [Piece(q, "item") EXCEPT !.total = 0])
    \o (IF {"COMPLETE", "CHUNKED"} \subseteq q.flags /\ "TERM" \notin q.flags
        THEN <<[Piece(q, "term") EXCEPT !.total = 0]>> ELSE << >>)

\* Mutant: the last chunk is not recorded.
Emptied_mutant(q) == [q EXCEPT !.sent = @ + q.body, !.body = 0]

\* Mutant: body_head is not reset.
Emptied_mutant_body(q) == [q EXCEPT !.sent = @ + q.body]

\* The response after its output was moved to the send buffer.
Emptied(q) ==
    [q EXCEPT !.sent = @ + q.body, !.body = 0,
              !.flags = @ \cup (IF {"COMPLETE", "CHUNKED"} \subseteq q.flags
                                THEN {"TERM"} ELSE {})]

\* The read callback goes on after ymo_conn_tx_now.
Resume == IF frame = "expect" THEN "headers" ELSE "none"

\* No response, none that is ready, or one whose body is to be buffered: the
\* callback returns YMO_OKAY and the server turns the watcher off.
WriteNothing ==
    /\ Writing
    /\ ~Ready \/ (~Started /\ First.status /\ Buffers(First))
    /\ tx' = FALSE
    /\ frame' = Resume
    /\ UNCHANGED <<proto, cst, rx, stop, sstate, nreq, ex, resp, queue, sbuf, wire>>

\* Is there something to write, and what?
Sends == Writing /\ Ready /\ (Started \/ (First.status /\ ~Buffers(First)))
Begun == Start(First)
Chain == sbuf \o Output(First, Begun)

\* ymo_http_response_start without a status, ymo_conn_send_buckets with
\* nothing to send (EBADMSG) or on a broken or shut down socket: the server
\* closes the connection.
WriteFails ==
    /\ Writing /\ Ready
    /\ \/ ~Started /\ ~First.status
       \/ Sends
    /\ CloseConn(resp)

\* The socket's buffer is full after k pieces: YMO_WOULDBLOCK.
WriteBlocked(k) ==
    /\ Sends /\ cst = "open" /\ k < Len(Chain)
    /\ resp' = [resp EXCEPT ![queue[1]] = Emptied(Begun)]
    /\ wire' = wire \o SubSeq(Chain, 1, k)
    /\ sbuf' = SubSeq(Chain, k + 1, Len(Chain))
    /\ frame' = Resume
    /\ UNCHANGED <<proto, cst, rx, tx, stop, sstate, nreq, ex, queue>>

\* All was sent of a response that is not complete.
WriteAll ==
    /\ Sends /\ cst = "open" /\ Chain # << >> /\ "COMPLETE" \notin First.flags
    /\ resp' = [resp EXCEPT ![queue[1]] = Emptied(Begun)]
    /\ wire' = wire \o Chain
    /\ sbuf' = << >> /\ tx' = FALSE /\ frame' = Resume
    /\ UNCHANGED <<proto, cst, rx, stop, sstate, nreq, ex, queue>>

\* Mutant: the next response is not looked at.
MoreReady_mutant == FALSE

\* A complete response has been sent: is there another one that is ready?
MoreReady == Len(queue) > 1 /\ "READY" \in resp[queue[2]].flags
\* ymo_conn_shutdown: no keep-alive, or an error and nothing else ready.
ShutsDown == "KEEPALIVE" \notin First.flags \/ (~MoreReady /\ sstate = "ERROR")

\* Mutant: the response is freed and stays in the list.
Completed_mutant(rs) ==
    /\ resp' = [rs EXCEPT ![queue[1]].st = "freed"]
    /\ queue' = queue /\ sbuf' = << >>
    /\ cst' = IF ShutsDown THEN "shutdown" ELSE cst
    /\ rx' = (rx \/ ShutsDown)
    /\ tx' = (MoreReady /\ ~ShutsDown)
    /\ frame' = Resume
    /\ UNCHANGED <<proto, stop, sstate, nreq, ex>>

\* ymo_http_session_complete_response and what follows it: the response is
\* freed, and its proto_new is read from the freed memory.
Completed(rs) ==
    /\ resp' = [rs EXCEPT ![queue[1]].st = "freed"]
    /\ queue' = Tail(queue) /\ sbuf' = << >>
    /\ cst' = IF ShutsDown THEN "shutdown" ELSE cst
    /\ rx' = (rx \/ ShutsDown)
    /\ tx' = (MoreReady /\ ~ShutsDown)
    /\ frame' = Resume
    /\ UNCHANGED <<proto, stop, sstate, nreq, ex>>

\* ymo_conn_transition_proto: the HTTP session is cleaned up, rx and tx are
\* the next protocol's.
Transition(rs) ==
    /\ proto' = "next"
    /\ FreeSession(rs)
    /\ UNCHANGED <<cst, stop, sstate, nreq>>

WriteComplete ==
    /\ Sends /\ cst = "open" /\ Chain # << >> /\ "COMPLETE" \in First.flags
    /\ wire' = wire \o Chain
    /\ LET rs == [resp EXCEPT ![queue[1]] = Emptied(Begun)]
       IN \/ First.upgrade /\ Transition(rs)
          \/ Completed(rs)

-----------------------------------------------------------------------------
Read == \/ \E k \in Kinds : ReadHeaders(k)
        \/ ReadBody \/ ReadBad \/ ReadLate
Handler == \/ \E n \in 0..MaxItems : HandlerOkay(n)
           \/ \E n \in 0..MaxItems, l, s \in BOOLEAN : HandlerBlocked(n, l, s)
           \/ HandlerFails \/ UpgradeHandled \/ UpgradeRefused
App == \E r \in DOMAIN resp : AppAppend(r) \/ AppFinish(r)
Write == \/ WriteNothing \/ WriteFails \/ WriteAll \/ WriteComplete
         \/ \E k \in 0..(MaxItems + 1) : WriteBlocked(k)

Next == Read \/ HeaderCallback \/ Handler \/ App \/ Write \/ Close \/ StopGraceful

Spec == Init /\ [][Next]_vars

\* A callback that has begun goes on, the write watcher fires while it is on,
\* and an application that took a request finishes it.
FairSpec ==
    /\ Spec
    /\ WF_vars(HeaderCallback) /\ WF_vars(Handler)
    /\ WF_vars(WriteNothing \/ WriteFails \/ WriteAll \/ WriteComplete)
    /\ \A r \in 1..(2 * MaxReq) : WF_vars(r \in DOMAIN resp /\ AppFinish(r))

-----------------------------------------------------------------------------
(* Properties *)

Flags == {"KEEPALIVE", "CHUNKS", "EXPECT", "UPGRADE",
          "READY", "STARTED", "COMPLETE", "CHUNKED", "TERM"}

\* The types of the variables.
TypeOK ==
    /\ proto \in {"http", "none", "next", "gone", "broken"}
    /\ cst \in {"open", "shutdown", "closed"}
    /\ {rx, tx, stop} \subseteq BOOLEAN
    /\ sstate \in {"OPEN", "ERROR"}
    /\ nreq \in 0..MaxReq
    /\ ex.state \in {"NONE", "CONNECTED", "BODY", "COMPLETE"}
    /\ \A r \in DOMAIN resp : resp[r].flags \subseteq Flags
    /\ \A i \in DOMAIN queue : queue[i] \in DOMAIN resp
    /\ Len(sbuf) <= MaxItems + 2
    /\ frame \in {"none", "expect", "headers", "handler"}

\* The list at session->response has no freed response and none twice, so
\* neither the write callback nor ymo_http_session_free follows a bad pointer;
\* and the application's callback gets a response that is allocated and not yet
\* queued (ymo_http.h: "A blank response object").
ResponsesLive ==
    /\ TypeOK
    /\ \A i \in DOMAIN queue : resp[queue[i]].st = "live"
    /\ \A i, j \in DOMAIN queue : queue[i] = queue[j] => i = j
    /\ frame = "handler" =>
          /\ resp[ex.resp].st = "live"
          /\ \A i \in DOMAIN queue : queue[i] # ex.resp

\* The write watcher is on whenever the first response has something to send:
\* no wake-up is lost between responses that become ready out of order.
NoStall ==
    (/\ proto = "http" /\ cst = "open" /\ frame = "none" /\ Ready
     /\ Started \/ ~Buffers(First)
     /\ First.status => Chain # << >>)
    => tx

Items(r) == {i \in DOMAIN wire : wire[i].rank = r /\ wire[i].kind = "item"}
LastRank == IF wire = << >> THEN 0 ELSE wire[Len(wire)].rank

\* The framing of what is sent is right: a response begins with its one header
\* section; a computed Content-Length is the number of items; chunks end with
\* one last chunk and nothing follows it; and no response is cut short before
\* the next one.
FramingExact ==
    /\ \A i \in DOMAIN wire :
          (wire[i].kind = "head") = (\A j \in 1..(i - 1) : wire[j].rank # wire[i].rank)
    /\ \A i, j \in DOMAIN wire :
          i < j /\ wire[i].rank = wire[j].rank =>
             wire[i].kind # "term" /\ wire[i].frame = wire[j].frame
    /\ \A i \in DOMAIN wire :
          wire[i].rank < LastRank =>
             CASE wire[i].kind = "head" /\ wire[i].frame = "total" ->
                     Cardinality(Items(wire[i].rank)) = wire[i].total
               [] wire[i].kind = "head" /\ wire[i].frame = "chunked" ->
                     \E j \in DOMAIN wire :
                        wire[j].rank = wire[i].rank /\ wire[j].kind = "term"
               [] OTHER -> TRUE

Order == INSTANCE YmoResponses WITH
    rank <- LastRank,
    open <- \E i \in DOMAIN queue : resp[queue[i]].rank = LastRank

\* Every request is answered once and in order, pipelining, interim responses,
\* asynchronous applications and partial sends notwithstanding.
ResponsesInOrder == Order!Spec

\* Every queued response leaves the queue, or the connection is on its way
\* down.
EveryResponseSent ==
    \A r \in 1..(2 * MaxReq) :
        (r \in {queue[i] : i \in DOMAIN queue})
            ~> (r \notin {queue[i] : i \in DOMAIN queue} \/ cst # "open" \/ proto # "http")

\* "The response is complete once the user code invokes finish" and "will
\* re-arm the IO watcher" (doc/guide/http.rst): the write callback never asks
\* for a send of nothing, which closes the connection.
NeverSendsNothing == Sends => Chain # << >>
=============================================================================
