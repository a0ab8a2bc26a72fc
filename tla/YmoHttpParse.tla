---------------------------- MODULE YmoHttpParse ----------------------------
(***************************************************************************)
(* The HTTP request parser (src/protocol/http/ymo_http_parse.c), the loop  *)
(* of ymo_proto_http_read that drives it and the default body callback.    *)
(* Requests arrive in buffers that end anywhere.  A token stands for a run *)
(* of characters the parser treats alike: a method, a name, a version.     *)
(***************************************************************************)
EXTENDS Naturals, Sequences, SequencesExt, FiniteSetsExt, TLC

CONSTANTS
    Inputs,   \* what clients send: sequences of requests
    RecvBuf,  \* YMO_HTTP_RECV_BUF_SIZE
    MaxBody,  \* YMO_HTTP_MAX_BODY
    SizeMod   \* the number of values of a size_t

VARIABLES
    sent,        \* the requests
    in,          \* the tokens that were not parsed yet
    avail,       \* how many of them are in the receive buffer (len)
    fresh,       \* the read callback was just called
    state, next, \* exchange->state, exchange->next_state
    cur,         \* what was written at recv_current since the last field
    req,         \* the request's fields, headers, flags and content length
    name,        \* hdr_name
    remain,      \* exchange->remain
    written,     \* recv_current - recv_buf
    body,        \* body_remain; the body's buffer: size (0: none) and contents
    extra,       \* by how much the len of ymo_parse_http_body is too large
    status,      \* okay, an error, hung or overread
    done         \* the requests handed to ymo_http_handler

pvars == <<sent, in, avail, fresh, state, next, cur, req, name, remain,
           written, body, extra, status, done>>

NULL == <<"NULL">>
LineStates == {"METHOD", "URI_PATH", "QUERY", "FRAGMENT", "VERSION"}
BodyStates == {"CHUNK_HEADER", "BODY", "CHUNK_TRAILER"}
NewRequest == [METHOD |-> NULL, URI_PATH |-> NULL, QUERY |-> NULL, FRAGMENT |-> NULL,
               VERSION |-> NULL, headers |-> << >>, flags |-> {}, length |-> 0]

\* The characters of methods and of header names; the digits of a chunk size.
IsMethod(c) == c \in {"GET", "POST"}
IsHdrField(c) == c \in {"Connection", "Content-Length", "Expect", "Upgrade",
                        "Transfer-Encoding", "X", "-Y"}
HexVal == [c \in {"0", "2", "A"} |-> CASE c = "0" -> 0 [] c = "2" -> 2 [] OTHER -> 10]
strtol == [c \in {"0", "1", "2", "9"} |->
              CASE c = "0" -> 0 [] c = "1" -> 1 [] c = "2" -> 2 [] OTHER -> 9]

-----------------------------------------------------------------------------
(* Requests: what a client means, and the tokens it sends for it *)

OrNone(sep, f) == IF f = NULL THEN << >> ELSE <<sep>> \o f
EncodeHeader(h) == h[1] \o <<":", " ">> \o h[2] \o <<"CR", "LF">>
EncodeBody(m) ==
    IF m.chunks = << >> THEN m.body
    ELSE FlattenSeq([i \in DOMAIN m.chunks |->
             <<m.chunks[i], "CR", "LF">> \o [j \in 1..HexVal[m.chunks[i]] |-> "d"]
             \o <<"CR", "LF">>])
Encode(m) ==
    m.METHOD \o <<" ">> \o m.URI_PATH \o OrNone("?", m.QUERY) \o OrNone("#", m.FRAGMENT)
    \o <<" ">> \o m.VERSION \o <<"CR", "LF">>
    \o FlattenSeq([i \in DOMAIN m.headers |-> EncodeHeader(m.headers[i])])
    \o <<"CR", "LF">> \o EncodeBody(m)

-----------------------------------------------------------------------------
(* ymo_http_exchange_create and ymo_http_exchange_reset *)

\* Mutant: the request's flags are not reset.
Reset_mutant ==
    /\ state' = "METHOD" /\ next' = "METHOD"
    /\ cur' = << >> /\ name' = NULL /\ req' = [NewRequest EXCEPT !.flags = req.flags]
    /\ remain' = RecvBuf /\ written' = 0
    /\ body' = [body EXCEPT !.data = << >>]

\* The buffer of the body stays allocated.
Reset ==
    /\ state' = "METHOD" /\ next' = "METHOD"
    /\ cur' = << >> /\ name' = NULL /\ req' = NewRequest
    /\ remain' = RecvBuf /\ written' = 0
    /\ body' = [body EXCEPT !.data = << >>]

Init ==
    /\ sent \in Inputs
    /\ in = FlattenSeq([i \in DOMAIN sent |-> Encode(sent[i])])
    /\ avail = 0 /\ fresh = FALSE /\ extra = 0
    /\ state = "METHOD" /\ next = "METHOD" /\ cur = << >> /\ name = NULL
    /\ req = NewRequest /\ remain = RecvBuf /\ written = 0
    /\ body = [remain |-> 0, size |-> 0, data |-> << >>]
    /\ status = "okay" /\ done = << >>

\* ymo_read_cb: the next n tokens arrive.
Receive(n) ==
    /\ avail = 0 /\ status = "okay" /\ state \notin {"HEADERS_COMPLETE", "COMPLETE"}
    /\ n \in 1..Len(in)
    /\ avail' = n /\ fresh' = TRUE /\ extra' = 0
    /\ UNCHANGED <<sent, in, state, next, cur, req, name, remain, written, body, status, done>>

Parsing(states) == avail > 0 /\ status = "okay" /\ state \in states
Char == in[1]
Take(n) ==
    /\ in' = SubSeq(in, n + 1, Len(in))
    /\ avail' = avail - n /\ fresh' = FALSE
    /\ UNCHANGED <<sent, done>>
Fail(err) ==
    /\ status' = err
    /\ UNCHANGED <<sent, in, avail, fresh, state, next, cur, req, name, remain,
                   written, body, extra, done>>

\* EFBIG is returned when nothing of the buffer remains.
Dec(n) == (n + SizeMod - 1) % SizeMod

\* Mutant: the buffer's end is not checked.
Wrote_mutant(n) ==
    /\ written' = written + 1
    /\ remain' = n
    /\ status' = "okay"

Wrote(n) ==
    /\ written' = written + 1
    /\ remain' = n
    /\ status' = IF n = 0 THEN "EFBIG" ELSE "okay"

-----------------------------------------------------------------------------
(* ymo_parse_http_request_line *)

\* Where a separator leads; the fields skipped stay NULL.
LineEdges ==
    {<<"METHOD", " ", "URI_PATH">>,
     <<"URI_PATH", "?", "QUERY">>, <<"URI_PATH", "#", "FRAGMENT">>, <<"URI_PATH", " ", "VERSION">>,
     <<"QUERY", "#", "FRAGMENT">>, <<"QUERY", " ", "VERSION">>, <<"FRAGMENT", " ", "VERSION">>}

\* The switch of ymo_proto_http_read has no case for these two states: a
\* buffer that begins in one is never consumed.
Hangs == fresh /\ state \in {"QUERY", "FRAGMENT"}
LineHangs == Parsing(LineStates) /\ Hangs /\ Fail("hung")

LineSeparator ==
    /\ Parsing(LineStates) /\ ~Hangs
    /\ \E e \in LineEdges :
          /\ e[1] = state /\ e[2] = Char
          /\ state' = e[3]
    /\ req' = [req EXCEPT ![state] = cur] /\ cur' = << >>
    /\ Wrote(remain - 1) /\ Take(1)
    /\ UNCHANGED <<next, name, body, extra>>

LineItem ==
    /\ Parsing(LineStates) /\ ~Hangs
    /\ ~\E e \in LineEdges : e[1] = state /\ e[2] = Char
    /\ state = "METHOD" => IsMethod(Char)
    /\ state = "VERSION" => Char # "CR"
    /\ cur' = Append(cur, Char)
    /\ Wrote(remain - 1) /\ Take(1)
    /\ UNCHANGED <<state, next, req, name, body, extra>>

LineBadMethod ==
    /\ Parsing({"METHOD"}) /\ Char # " " /\ ~IsMethod(Char)
    /\ Fail("EINVAL")

\* parser_saw_cr.
SawCr(n) == state' = "CRLF" /\ next' = n

\* Mutant: any version passes.
CheckRequest_mutant(v) ==
    CASE v = <<"HTTP/1.1">> -> {"VERSION_1_1", "SUPPORTS_CHUNKED", "KEEPALIVE"}
      [] OTHER -> {}

\* check_request: the flags of the version.
CheckRequest(v) ==
    CASE v = <<"HTTP/1.1">> -> {"VERSION_1_1", "SUPPORTS_CHUNKED", "KEEPALIVE"}
      [] v = <<"HTTP/1.0">> -> {}
      [] OTHER -> {"bad"}

\* The end of the line: its '\0' is written but not counted in remain.
LineEnd ==
    /\ Parsing({"VERSION"}) /\ Char = "CR"
    /\ "bad" \notin CheckRequest(cur)
    /\ req' = [req EXCEPT !.VERSION = cur, !.flags = @ \cup CheckRequest(cur)]
    /\ cur' = << >>
    /\ Wrote(remain) /\ SawCr("HEADER_NAME") /\ Take(1)
    /\ UNCHANGED <<name, body, extra>>

LineBadVersion ==
    /\ Parsing({"VERSION"}) /\ Char = "CR"
    /\ "bad" \in CheckRequest(cur)
    /\ Fail("EINVAL")

-----------------------------------------------------------------------------
(* ymo_parse_http_crlf and ymo_parse_http_headers *)

Crlf ==
    /\ Parsing({"CRLF"}) /\ Char = "LF"
    /\ state' = next /\ Take(1)
    /\ UNCHANGED <<next, cur, req, name, remain, written, body, extra, status>>

CrlfBad == Parsing({"CRLF"}) /\ Char # "LF" /\ Fail("EBADMSG")

HeaderName ==
    /\ Parsing({"HEADER_NAME"}) /\ IsHdrField(Char)
    /\ cur' = Append(cur, Char)
    /\ Wrote(remain - 1) /\ Take(1)
    /\ UNCHANGED <<state, next, req, name, body, extra>>

HeaderColon ==
    /\ Parsing({"HEADER_NAME"}) /\ Char = ":"
    /\ name' = cur /\ cur' = << >>
    /\ state' = "LEADING_SPACE"
    /\ Wrote(remain - 1) /\ Take(1)
    /\ UNCHANGED <<next, req, body, extra>>

HeaderEnd ==
    /\ Parsing({"HEADER_NAME"}) /\ Char = "CR"
    /\ SawCr("HEADERS_COMPLETE") /\ Take(1)
    /\ UNCHANGED <<cur, req, name, remain, written, body, extra, status>>

HeaderBad ==
    /\ Parsing({"HEADER_NAME"}) /\ Char \notin {":", "CR"} /\ ~IsHdrField(Char)
    /\ Fail("EBADMSG")

HeaderSpace ==
    /\ Parsing({"LEADING_SPACE"}) /\ Char = " " /\ Take(1)
    /\ UNCHANGED <<state, next, cur, req, name, remain, written, body, extra, status>>

\* In a value remain is counted down once for the character and once more for
\* going on to the next one of the buffer.
HeaderValue ==
    /\ Parsing({"LEADING_SPACE", "VALUE"})
    /\ Char # "CR" /\ (state = "LEADING_SPACE" => Char # " ")
    /\ state' = "VALUE" /\ cur' = Append(cur, Char)
    /\ Wrote(IF avail > 1 THEN Dec(Dec(remain)) ELSE Dec(remain)) /\ Take(1)
    /\ UNCHANGED <<next, req, name, body, extra>>

\* http_header_got_value.  YMO_HTTP_FLAG_REQUEST_CLOSE is a mask of 8 bits:
\* with keep-alive it clears YMO_HTTP_REQUEST_CHUNKED, bit 16.
FlagsOf(flags, n, v) ==
    CASE n = <<"Connection">> /\ "VERSION_1_1" \in flags /\ v = <<"close">> ->
            flags \ {"KEEPALIVE", "CHUNKED"}
      [] n = <<"Connection">> /\ "VERSION_1_1" \notin flags /\ v = <<"keep-alive">> ->
            flags \cup {"KEEPALIVE"}
      [] n = <<"Expect">> /\ v = <<"100-continue">> -> flags \cup {"EXPECT"}
      [] n = <<"Upgrade">> -> flags \cup {"UPGRADE"}
      [] n = <<"Transfer-Encoding">> /\ v = <<"chunked">> -> flags \cup {"CHUNKED"}
      [] OTHER -> flags
LengthOf(len, n, v) ==
    IF n = <<"Content-Length">> /\ v # << >> /\ v[1] \in DOMAIN strtol THEN strtol[v[1]] ELSE len

HeaderGotValue ==
    /\ Parsing({"LEADING_SPACE", "VALUE"}) /\ Char = "CR"
    /\ req' = [req EXCEPT !.headers = Append(@, <<name, cur>>),
                          !.flags = FlagsOf(@, name, cur),
                          !.length = LengthOf(@, name, cur)]
    /\ cur' = << >>
    /\ Wrote(Dec(remain)) /\ SawCr("HEADER_NAME") /\ Take(1)
    /\ UNCHANGED <<name, body, extra>>

\* ymo_proto_http_read at the end of the headers.
HeadersComplete ==
    /\ status = "okay" /\ state = "HEADERS_COMPLETE"
    /\ state' = CASE req.length > 0 -> "BODY"
                  [] req.length = 0 /\ "CHUNKED" \in req.flags -> "CHUNK_HEADER"
                  [] OTHER -> "COMPLETE"
    /\ next' = "COMPLETE"
    /\ body' = [body EXCEPT !.remain = req.length]
    /\ UNCHANGED <<sent, in, avail, fresh, cur, req, name, remain, written, extra, status, done>>

-----------------------------------------------------------------------------
(* ymo_parse_http_body and buffer_body_cb *)

\* The line feeds of a chunk's header and trailer are consumed without
\* counting len down.
ChunkHeaderChar ==
    /\ Parsing({"CHUNK_HEADER"}) /\ Char # "LF"
    /\ body' = IF Char = "CR" THEN body
               ELSE [body EXCEPT !.remain = @ * 16 + HexVal[Char]]
    /\ Take(1)
    /\ UNCHANGED <<state, next, cur, req, name, remain, written, extra, status>>

ChunkHeaderEnd ==
    /\ Parsing({"CHUNK_HEADER"}) /\ Char = "LF"
    /\ IF body.remain > 0
       THEN state' = "BODY" /\ next' = "CHUNK_TRAILER"
       ELSE state' = "CHUNK_TRAILER" /\ next' = "COMPLETE"
    /\ extra' = extra + 1 /\ Take(1)
    /\ UNCHANGED <<cur, req, name, remain, written, body, status>>

ChunkTrailer ==
    /\ Parsing({"CHUNK_TRAILER"})
    /\ state' = IF Char = "LF" THEN next ELSE state
    /\ extra' = IF Char = "LF" THEN extra + 1 ELSE extra
    /\ Take(1)
    /\ UNCHANGED <<next, cur, req, name, remain, written, body, status>>

\* The first call allocates; the content length is then counted again.
BodySize == IF body.size > 0 THEN body.size
            ELSE IF req.length > MaxBody THEN 0
            ELSE IF req.length > 0 THEN req.length ELSE MaxBody
BodyAvailable == Min({avail + extra, body.remain})

BodyData ==
    /\ Parsing({"BODY"}) /\ BodyAvailable <= avail
    /\ BodySize > 0 /\ BodyAvailable <= MaxBody - Len(body.data)
    /\ LET n == BodyAvailable
           left == body.remain - n
       IN /\ body' = [remain |-> left, size |-> BodySize,
                      data |-> body.data \o SubSeq(in, 1, n)]
          /\ req' = [req EXCEPT !.length = (IF body.size = 0 THEN 0 ELSE @) + n]
          /\ Take(n)
          /\ IF left > 0 THEN UNCHANGED <<state, next>>
             ELSE IF "CHUNKED" \in req.flags
             THEN state' = "CHUNK_TRAILER" /\ next' = "CHUNK_HEADER"
             ELSE state' = next /\ next' = next
    /\ UNCHANGED <<cur, name, remain, written, extra, status>>

BodyTooBig ==
    /\ Parsing({"BODY"}) /\ BodyAvailable <= avail
    /\ BodySize = 0 \/ BodyAvailable > MaxBody - Len(body.data)
    /\ Fail(IF BodySize = 0 THEN "ENOMEM" ELSE "EFBIG")

\* The parser goes on behind the end of what was received.
OverRead ==
    /\ status = "okay"
    /\ \/ avail = 0 /\ extra > 0 /\ state \in BodyStates
       \/ Parsing({"BODY"}) /\ BodyAvailable > avail
    /\ Fail("overread")

\* HTTP_STATE_COMPLETE: the request goes to ymo_http_handler, which resets the
\* exchange of a request that keeps the connection.
Complete ==
    /\ status = "okay" /\ state = "COMPLETE"
    /\ done' = Append(done, req @@ [body |-> body.data, size |-> body.size])
    /\ IF "KEEPALIVE" \in req.flags
       THEN Reset /\ status' = "okay"
       ELSE /\ status' = "closed"
            /\ UNCHANGED <<state, next, cur, req, name, remain, written, body>>
    /\ extra' = 0
    /\ UNCHANGED <<sent, in, avail, fresh>>

Next ==
    \/ \E n \in 1..Len(in) : Receive(n)
    \/ LineHangs \/ LineSeparator \/ LineItem \/ LineBadMethod \/ LineEnd \/ LineBadVersion
    \/ Crlf \/ CrlfBad
    \/ HeaderName \/ HeaderColon \/ HeaderEnd \/ HeaderBad
    \/ HeaderSpace \/ HeaderValue \/ HeaderGotValue \/ HeadersComplete
    \/ ChunkHeaderChar \/ ChunkHeaderEnd \/ ChunkTrailer
    \/ BodyData \/ BodyTooBig \/ OverRead \/ Complete

Spec == Init /\ [][Next]_pvars

-----------------------------------------------------------------------------
(* Properties *)

Body(m) == IF m.chunks = << >> THEN m.body
           ELSE SelectSeq(EncodeBody(m), LAMBDA c : c = "d")
\* The flags a request has whatever the order of its headers.
Has(m, n, v) == \E i \in DOMAIN m.headers : m.headers[i] = <<<<n>>, <<v>>>>
MeansKeepAlive(m) ==
    IF m.VERSION = <<"HTTP/1.1">> THEN ~Has(m, "Connection", "close")
    ELSE Has(m, "Connection", "keep-alive")

\* A request is handed over with the fields, headers and body its client
\* meant, in the order sent, wherever the buffers were cut; and all are.
RoundTrip ==
    /\ Len(done) <= Len(sent)
    /\ \A i \in DOMAIN done :
          LET m == sent[i] IN
          /\ \A f \in LineStates : done[i][f] = m[f]
          /\ done[i].headers = m.headers
          /\ done[i].body = Body(m)
          /\ ("KEEPALIVE" \in done[i].flags) = MeansKeepAlive(m)
          /\ ("UPGRADE" \in done[i].flags) = Has(m, "Upgrade", "websocket")
          /\ ("EXPECT" \in done[i].flags) = Has(m, "Expect", "100-continue")
    /\ (/\ in = << >> /\ avail = 0 /\ extra = 0 /\ status = "okay"
        /\ state \notin {"HEADERS_COMPLETE", "COMPLETE"}) => Len(done) = Len(sent)

\* Does the request m follow the grammar and the limits?
Valid(m) ==
    /\ \A i \in DOMAIN m.METHOD : IsMethod(m.METHOD[i])
    /\ m.VERSION \in {<<"HTTP/1.1">>, <<"HTTP/1.0">>}
    /\ \A i \in DOMAIN m.headers : \A j \in DOMAIN m.headers[i][1] : IsHdrField(m.headers[i][1][j])
    /\ Len(Body(m)) <= MaxBody
    /\ Len(m.URI_PATH) <= RecvBuf \div 2

\* A request is refused only if it breaks the grammar or a limit, and a bad
\* one is never handed over; the loop hangs only after a buffer that ended in
\* the query or the fragment, and reads too far only in a body sent in chunks.
RefusedForCause ==
    /\ status \notin {"okay", "closed", "hung", "overread"} => ~Valid(sent[Len(done) + 1])
    /\ \A i \in DOMAIN done : Valid(sent[i])
    /\ status = "hung" => sent[Len(done) + 1].QUERY # NULL \/ sent[Len(done) + 1].FRAGMENT # NULL
    /\ status = "overread" => sent[Len(done) + 1].chunks # << >>

\* Neither the header buffer of the exchange nor the buffer of the body is
\* written beyond its end.
WithinBuffers ==
    /\ written <= RecvBuf
    /\ Len(body.data) <= body.size

\* "reset content length to zero here and increment it as we accumulate": the
\* length that the handler sees is that of the body.
LengthIsBody == \A i \in DOMAIN done : done[i].length = Len(done[i].body)
=============================================================================
