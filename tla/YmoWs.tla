------------------------------- MODULE YmoWs -------------------------------
(***************************************************************************)
(* A WebSocket session (src/protocol/ws: ymo_proto_ws.c, ymo_ws_parse.c,   *)
(* ymo_ws_session.c): the upgrade, the frame parser over buffers that end  *)
(* anywhere, the callbacks, the closing handshake and the chain of frames  *)
(* to send.  Lengths are scaled down: a byte has ByteBase values.          *)
(***************************************************************************)
EXTENDS YmoUtf8, FiniteSetsExt

CONSTANTS
    Inputs,    \* what clients send: sequences of frames
    Requests,  \* the upgrade requests of clients
    AppFrames, \* the frames the application sends
    MaxApp,    \* bound: how many of them
    ByteBase,  \* the values of a byte (256)
    FrameMax,  \* YMO_WS_FRAME_MAX
    Buffered   \* YMO_WS_SERVER_BUFFERED

VARIABLES
    upgrade,  \* the upgrade request
    sent,     \* the frames the client sends
    in,       \* the bytes that were not read yet
    avail,    \* how many of them are in the receive buffer
    off,      \* where in the receive buffer the parser is
    fr,       \* session->frame_in
    recv,     \* the chain at recv_head
    state,    \* session->state; before it HTTP, after it GONE
    type,     \* session->msg_type
    utf8,     \* session->utf8_state
    msg,      \* session->msg and msg_len
    got,      \* the calls of the application's receive callback
    chain,    \* the buckets at send_head
    tail,     \* is send_tail set?
    out,      \* the frames passed to ymo_ws_session_send_no_check
    wire,     \* the buckets that were sent
    napp,     \* how many frames the application has sent
    conn      \* [tx, st, now]: tx, open or shutdown, inside ymo_conn_tx_now

wvars == <<upgrade, sent, in, avail, off, fr, recv, state, type, utf8, msg,
           got, chain, tail, out, wire, napp, conn>>
parser == <<upgrade, sent, in, avail, off, fr, recv, type, utf8, msg>>
sender == <<chain, tail, out, wire, napp, conn>>

DataOps == {"CONTINUATION", "TEXT", "BINARY"}
ControlOps == {"CLOSE", "PING", "PONG"}

-----------------------------------------------------------------------------
(* Frames of a client: [op, fin, rsv, masked, form, data], form the number *)
(* of bytes of the extended length (0, 2 or 3, standing for 8)             *)

Pow(n) == ByteBase ^ n
Digits(n, k) == [i \in 1..k |-> (n \div Pow(k - i)) % ByteBase]
Encode(f) ==
    <<[op |-> f.op, fin |-> f.fin, rsv |-> f.rsv]>>
    \o <<[masked |-> f.masked, len |-> Len(f.data), form |-> f.form]>>
    \o Digits(Len(f.data), f.form)
    \o <<0, 1, 2, 3>>
    \o [i \in DOMAIN f.data |-> <<f.data[i], (i - 1) % 4>>]

NewFrame == [ps |-> "OP", op |-> "NONE", fin |-> FALSE, len |-> 0, idx |-> 0, parsed |-> 0,
             data |-> << >>, buf |-> 0]

Init ==
    /\ upgrade \in Requests /\ sent \in Inputs
    /\ in = FlattenSeq([i \in DOMAIN sent |-> Encode(sent[i])])
    /\ avail = 0 /\ off = 0 /\ fr = NewFrame /\ recv = << >>
    /\ state = "HTTP" /\ type = "NONE" /\ utf8 = Utf8New
    /\ msg = [data |-> << >>, len |-> 0]
    /\ got = << >> /\ chain = << >> /\ tail = FALSE /\ out = << >> /\ wire = << >>
    /\ napp = 0
    /\ conn = [tx |-> FALSE, st |-> "open", now |-> FALSE]

-----------------------------------------------------------------------------
(* The upgrade *)

\* check_connection_hdr: one of the tokens of the header is "upgrade".
ConnectionOkay(r) == "upgrade" \in r.connection

\* Mutant: the key is not required.
UpgradeOkay_mutant(r) ==
    r.method = "GET" /\ r.host /\ ConnectionOkay(r) /\ r.version = "13"

\* ymo_ws_upgrade_cb.  A missing version is compared through a NULL pointer,
\* unless one of the tests before it has failed.
UpgradeOkay(r) ==
    r.method = "GET" /\ r.host /\ ConnectionOkay(r) /\ r.key /\ r.version = "13"

\* HANDLED: issue_http_101, and later ymo_proto_ws_conn_init and
\* ymo_proto_ws_conn_ready.
Upgrade ==
    /\ state = "HTTP" /\ upgrade.upgrade = "websocket" /\ UpgradeOkay(upgrade)
    /\ state' = "CONNECTED"
    /\ conn' = [conn EXCEPT !.tx = TRUE]
    /\ UNCHANGED <<parser, got, chain, tail, out, wire, napp>>

\* NOPROTO (another handler may know it) or ERROR: no session is made.
UpgradeRefused ==
    /\ state = "HTTP"
    /\ upgrade.upgrade # "websocket" \/ ~UpgradeOkay(upgrade)
    /\ state' = "GONE"
    /\ UNCHANGED <<parser, got, sender>>

-----------------------------------------------------------------------------
(* ymo_ws_session_send_no_check, gen_ws_msg_hdr *)

\* The header, and the payload in one bucket (none: NULL).
Buckets(n, f) ==
    <<[n |-> n, kind |-> "hdr", empty |-> FALSE]>>
    \o IF f.payload = "none" THEN << >>
       ELSE <<[n |-> n, kind |-> "payload", empty |-> Len(f.data) = 0]>>

\* Mutant: the frame is put in front of what is queued.
SendNoCheck_mutant(f) ==
    /\ out' = Append(out, f)
    /\ chain' = Buckets(Len(out) + 1, f) \o chain
    /\ tail' = (f.payload # "none")

\* Without a tail a chain that is not empty gets no new bucket.
SendNoCheck(f) ==
    /\ out' = Append(out, f)
    /\ chain' = IF chain = << >> \/ tail THEN chain \o Buckets(Len(out) + 1, f) ELSE chain
    /\ tail' = (f.payload # "none")

Frame(op, data) == [op |-> op, data |-> data, payload |-> "some"]
\* send_ws_close.
CloseFrame(reason) == Frame("CLOSE", <<reason \div 256, reason % 256>>)

\* Mutant: the state of the session is not checked.
AppSend_mutant(f) ==
    /\ ~conn.now /\ napp < MaxApp /\ napp' = napp + 1
    /\ state \notin {"HTTP", "GONE"}
    /\ SendNoCheck(f)
    /\ conn' = [conn EXCEPT !.tx = TRUE]
    /\ UNCHANGED <<parser, state, got, wire>>

\* ymo_ws_session_send by the application.
AppSend(f) ==
    /\ ~conn.now /\ napp < MaxApp /\ napp' = napp + 1
    /\ state = "CONNECTED"
    /\ SendNoCheck(f)
    /\ conn' = [conn EXCEPT !.tx = TRUE]
    /\ UNCHANGED <<parser, state, got, wire>>

AppSendRefused ==
    /\ napp < MaxApp /\ napp' = napp + 1
    /\ state \in {"CLOSE_RECEIVED", "ERROR"}
    /\ UNCHANGED <<parser, state, got, chain, tail, out, wire, conn>>

-----------------------------------------------------------------------------
(* ymo_proto_ws_read *)

Receive(n) ==
    /\ state \notin {"HTTP", "GONE"} /\ ~conn.now
    /\ avail = 0 /\ fr.ps # "COMPLETE" /\ n \in 1..Len(in)
    /\ avail' = n /\ off' = 0
    /\ UNCHANGED <<upgrade, sent, in, fr, recv, state, type, utf8, msg, got, sender>>

\* Input is ignored in these states.
Ignore ==
    /\ state \in {"CLOSE_RECEIVED", "ERROR"} /\ avail > 0 /\ ~conn.now
    /\ in' = SubSeq(in, avail + 1, Len(in)) /\ avail' = 0
    /\ UNCHANGED <<upgrade, sent, off, fr, recv, state, type, utf8, msg, got, sender>>

Parsing(ps) == state = "CONNECTED" /\ avail > 0 /\ ~conn.now /\ fr.ps = ps
Take(n) == in' = SubSeq(in, n + 1, Len(in)) /\ avail' = avail - n /\ off' = off + n
Byte == in[1]

\* reason_from_errno.
Reason(err) == CASE err \in {"EINVAL", "EBADMSG"} -> 1002
                 [] err = "EILSEQ" -> 1007
                 [] err = "EFBIG" -> 1009
                 [] OTHER -> 1011

\* ws_err_close; the rest of the buffer is dropped.
ErrClose(reason) ==
    /\ state' = "ERROR"
    /\ SendNoCheck(CloseFrame(reason))
    /\ conn' = [conn EXCEPT !.tx = TRUE]
    /\ in' = SubSeq(in, avail + 1, Len(in)) /\ avail' = 0
    /\ UNCHANGED <<upgrade, sent, off, recv, utf8, got, wire, napp>>

\* Mutant: a new message may begin inside another one.
OpError_mutant(b) ==
    CASE b.rsv -> "EBADMSG"
      [] b.op \notin DataOps \cup ControlOps -> "EBADMSG"
      [] b.op = "CONTINUATION" /\ type = "NONE" -> "EINVAL"
      [] b.op \in ControlOps /\ ~b.fin -> "EBADMSG"
      [] OTHER -> "okay"

\* ymo_ws_parse_op.
OpError(b) ==
    CASE b.rsv -> "EBADMSG"
      [] b.op \notin DataOps \cup ControlOps -> "EBADMSG"
      [] b.op = "CONTINUATION" /\ type = "NONE" -> "EINVAL"
      [] b.op \in {"TEXT", "BINARY"} /\ type # "NONE" -> "EINVAL"
      [] b.op \in ControlOps /\ ~b.fin -> "EBADMSG"
      [] OTHER -> "okay"

ParseOp ==
    /\ Parsing("OP")
    /\ fr' = [fr EXCEPT !.op = Byte.op, !.fin = Byte.fin, !.ps = "LEN"]
    /\ LET err == OpError(Byte)
       IN \/ /\ err = "okay"
             /\ type' = IF Byte.op \in {"TEXT", "BINARY"} /\ ~Byte.fin THEN Byte.op ELSE type
             /\ Take(1)
             /\ UNCHANGED <<upgrade, sent, recv, state, utf8, got, sender>>
          \/ err # "okay" /\ ErrClose(Reason(err)) /\ UNCHANGED type
    /\ UNCHANGED msg

\* ymo_ws_session_alloc_frame: ENOBUFS above the limit; the buffer is kept
\* when it is large enough.
AllocFrame(f, len) == [f EXCEPT !.len = len, !.ps = "KEY", !.idx = 0, !.buf = Max({@, len})]

\* ymo_ws_parse_len: an unmasked frame, or a control frame with an extended
\* length, is an error.
ParseLen ==
    /\ Parsing("LEN")
    /\ LET bad == ~Byte.masked \/ (Byte.form > 0 /\ fr.op \in ControlOps)
       IN \/ /\ ~bad
             /\ fr' = IF Byte.form = 0 THEN AllocFrame(fr, Byte.len)
                      ELSE [fr EXCEPT !.ps = "LEN_EXT", !.idx = Byte.form]
             /\ Take(1)
             /\ UNCHANGED <<upgrade, sent, recv, state, utf8, got, sender>>
          \/ bad /\ ErrClose(Reason("EBADMSG")) /\ UNCHANGED fr
    /\ UNCHANGED <<type, msg>>

\* ymo_ws_parse_len_ext, one byte at a time.
ParseLenExt ==
    /\ Parsing("LEN_EXT")
    /\ LET len == fr.len + Byte * Pow(fr.idx - 1)
           last == fr.idx = 1
           err == CASE last /\ len >= Pow(3) \div 2 -> "EBADMSG"
                    [] last /\ len > FrameMax /\ len < Pow(3) \div 2 -> "ENOBUFS"
                    [] OTHER -> "okay"
       IN \/ /\ err = "okay"
             /\ fr' = IF last THEN AllocFrame(fr, len)
                      ELSE [fr EXCEPT !.len = len, !.idx = @ - 1]
             /\ Take(1)
             /\ UNCHANGED <<upgrade, sent, recv, state, utf8, got, sender>>
          \/ err # "okay" /\ ErrClose(Reason(err)) /\ UNCHANGED fr
    /\ UNCHANGED <<type, msg>>

\* ymo_ws_parse_masking_key; a frame without payload is complete here, with a
\* bucket of no length, and skips ymo_ws_parse_payload.
ParseKey ==
    /\ Parsing("KEY")
    /\ LET last == fr.idx = 3
           empty == last /\ fr.len = 0
       IN /\ fr' = [fr EXCEPT !.idx = @ + 1,
                       !.ps = IF ~last THEN "KEY" ELSE IF empty THEN "COMPLETE" ELSE "PAYLOAD"]
          /\ recv' = IF empty THEN Append(recv, << >>) ELSE recv
    /\ Take(1)
    /\ UNCHANGED <<upgrade, sent, state, type, utf8, msg, got, sender>>

\* Mutant: get_mask32 does not step over its four bytes when the word loop
\* has used them, and the tail begins one too late.
KeyIndex_mutant(mod, align, n) ==
    LET pre == Min({n, (4 - align) % 4})
        words == IF n = pre THEN 0 ELSE ((align + n) \div 4) * 4 - (align + pre)
    IN [i \in 1..n |-> (IF i <= pre THEN mod + i - 1
                        ELSE IF i <= pre + words THEN mod + pre + ((i - pre - 1) % 4)
                        ELSE mod + pre + words \div 4 + (i - pre - words - 1)) % 4]

\* unmask_payload: which byte of the key meets which byte of the payload,
\* before the first word boundary, in whole words and after the last one.
KeyIndex(mod, align, n) ==
    LET pre == Min({n, (4 - align) % 4})
        words == IF n = pre THEN 0 ELSE ((align + n) \div 4) * 4 - (align + pre)
    IN [i \in 1..n |-> (IF i <= pre THEN mod + i - 1
                        ELSE IF i <= pre + words THEN mod + pre + ((i - pre - 1) % 4)
                        ELSE mod + pre + 4 + (i - pre - words - 1)) % 4]

\* mask_mod after n bytes.
NextMod(mod, align, n) ==
    LET pre == Min({n, (4 - align) % 4})
        words == IF n = pre THEN 0 ELSE ((align + n) \div 4) * 4 - (align + pre)
    IN mod + 4 + (n - words)

Unmask(mod, align, bytes) ==
    LET key == KeyIndex(mod, align, Len(bytes))
    IN [i \in DOMAIN bytes |-> IF key[i] = bytes[i][2] THEN bytes[i][1] ELSE -1]

\* ymo_ws_parse_payload.  Control frames inside a text message are checked
\* with the state of the message; the check of a close frame skips its code
\* and reads as far behind its end: either result is possible.
ParsePayload ==
    /\ Parsing("PAYLOAD")
    /\ LET n == Min({avail, fr.len - fr.parsed})
           piece == IF fr.op = "PONG" THEN [i \in 1..n |-> 0]
                    ELSE Unmask(fr.idx, off % 4, SubSeq(in, 1, n))
           done == fr.parsed + n = fr.len
           checks == fr.op = "TEXT" \/ type = "TEXT"
       IN \E u \in IF ~checks THEN {utf8}
                   ELSE IF fr.op = "CLOSE" THEN {utf8, Illegal}
                   ELSE {CheckUtf8(utf8, piece, done /\ fr.fin)} :
          LET bad == checks /\ ~u.ok
          IN \/ /\ ~bad
                /\ fr' = [fr EXCEPT !.parsed = @ + n, !.data = @ \o piece,
                              !.idx = NextMod(@, off % 4, n),
                              !.ps = IF done THEN "COMPLETE" ELSE @]
                /\ type' = IF done /\ fr.op \in DataOps /\ fr.fin THEN "NONE" ELSE type
                /\ recv' = IF done /\ fr.op # "PONG" THEN Append(recv, fr.data \o piece) ELSE recv
                /\ utf8' = u
                /\ Take(n)
                /\ UNCHANGED <<upgrade, sent, state, got, sender>>
             \/ bad /\ ErrClose(Reason("EILSEQ")) /\ UNCHANGED <<fr, type>>
    /\ UNCHANGED msg

-----------------------------------------------------------------------------
(* WS_PARSE_COMPLETE *)

Complete(ops) == state = "CONNECTED" /\ fr.ps = "COMPLETE" /\ fr.op \in ops /\ ~conn.now

\* frame_in is cleared but for its buffer.
ResetFrame == fr' = [NewFrame EXCEPT !.buf = fr.buf]

\* ws_buffer_msg: msg_len is set to 0 and never counted up.
BufferMsg(m, data) == IF data = << >> THEN m ELSE [m EXCEPT !.data = @ \o data]

\* invoke_recv_callback with the application's callback, for every bucket, or
\* through ws_buffer_msg.
DeliverOkay ==
    /\ Complete(DataOps)
    /\ IF Buffered
       THEN LET m == FoldLeft(BufferMsg, msg, recv)
                calls == fr.fin /\ Len(recv[Len(recv)]) > 0
            IN /\ got' = IF calls THEN Append(got, [op |-> fr.op, fin |-> TRUE,
                                                    data |-> SubSeq(m.data, 1, m.len)])
                         ELSE got
               /\ msg' = IF calls THEN [data |-> << >>, len |-> 0] ELSE m
       ELSE /\ got' = got \o [i \in DOMAIN recv |-> [op |-> fr.op, fin |-> fr.fin, data |-> recv[i]]]
            /\ UNCHANGED msg
    /\ recv' = << >> /\ ResetFrame
    /\ UNCHANGED <<upgrade, sent, in, avail, off, state, type, utf8, sender>>

\* The callback fails.
DeliverFails ==
    /\ Complete(DataOps)
    /\ state' = "ERROR"
    /\ SendNoCheck(CloseFrame(1002)) /\ conn' = [conn EXCEPT !.tx = TRUE]
    /\ recv' = << >>
    /\ in' = SubSeq(in, avail + 1, Len(in)) /\ avail' = 0
    /\ UNCHANGED <<upgrade, sent, off, fr, type, utf8, msg, got, wire, napp>>

\* ws_echo_cb.
Ping ==
    /\ Complete({"PING"})
    /\ SendNoCheck(Frame("PONG", recv[1])) /\ conn' = [conn EXCEPT !.tx = TRUE]
    /\ recv' = << >> /\ ResetFrame
    /\ UNCHANGED <<upgrade, sent, in, avail, off, state, type, utf8, msg, got, wire, napp>>

Pong ==
    /\ Complete({"PONG"})
    /\ ResetFrame
    /\ UNCHANGED <<upgrade, sent, in, avail, off, recv, state, type, utf8, msg, got, sender>>

\* get_close_reason and is_reason_valid; a reason that is not there is valid.
IsReasonValid(r) == r \in (1000..1003) \cup (1007..1011) \/ r >= 3000
ReasonOkay(data) == Len(data) < 2 \/ IsReasonValid(data[1] * 256 + data[2])

\* handle_client_close.  No code sets WS_SESSION_EXPECT_CLOSE, so a close of
\* the client is never expected: it is sent back, and ymo_conn_tx_now.
ClientClose ==
    /\ Complete({"CLOSE"})
    /\ in' = SubSeq(in, avail + 1, Len(in)) /\ avail' = 0
    /\ LET okay == ReasonOkay(recv[1])
       IN /\ state' = IF okay THEN "CLOSE_RECEIVED" ELSE "ERROR"
          /\ SendNoCheck(IF okay THEN Frame("CLOSE", recv[1]) ELSE CloseFrame(1002))
          /\ recv' = IF okay THEN << >> ELSE recv
          /\ conn' = [conn EXCEPT !.tx = TRUE, !.now = okay]
    /\ UNCHANGED <<upgrade, sent, off, fr, type, utf8, msg, got, wire, napp>>

-----------------------------------------------------------------------------
(* ymo_proto_ws_write, and ymo_write_cb around it *)

Writing == state \notin {"HTTP", "GONE"} /\ conn.st = "open" /\ (conn.tx \/ conn.now)

WriteNothing ==
    /\ Writing /\ chain = << >>
    /\ conn' = [conn EXCEPT !.tx = FALSE, !.now = FALSE]
    /\ UNCHANGED <<parser, state, got, chain, tail, out, wire, napp>>

\* Mutant: an error does not end the connection.
ClosesOnWrite_mutant == state = "CLOSE_RECEIVED"

\* YMO_WS_SHOULD_CLOSE_ON_WRITE.
ClosesOnWrite == state \in {"CLOSE_RECEIVED", "ERROR"}

\* ymo_conn_send_buckets stops after k buckets.  All sent, or the next one is
\* empty (YmoNet): YMO_OKAY, and the chain is forgotten.
WriteOkay(k) ==
    /\ Writing /\ chain # << >>
    /\ k = Len(chain) \/ (k < Len(chain) /\ chain[k + 1].empty)
    /\ wire' = wire \o SubSeq(chain, 1, k)
    /\ chain' = << >> /\ tail' = FALSE
    /\ conn' = [tx |-> FALSE, now |-> FALSE, st |-> IF ClosesOnWrite THEN "shutdown" ELSE "open"]
    /\ UNCHANGED <<parser, state, got, out, napp>>

WriteBlocked(k) ==
    /\ Writing /\ k < Len(chain) /\ ~chain[k + 1].empty
    /\ wire' = wire \o SubSeq(chain, 1, k)
    /\ chain' = SubSeq(chain, k + 1, Len(chain))
    /\ conn' = [conn EXCEPT !.now = FALSE]
    /\ UNCHANGED <<parser, state, got, tail, out, napp>>

\* The connection fails or is closed: ymo_proto_ws_conn_cleanup with
\* ymo_ws_session_free.
Cleanup ==
    /\ state \notin {"HTTP", "GONE"}
    /\ state' = "GONE"
    /\ chain' = << >> /\ tail' = FALSE
    /\ conn' = [conn EXCEPT !.tx = FALSE, !.now = FALSE]
    /\ UNCHANGED <<parser, got, out, wire, napp>>

-----------------------------------------------------------------------------
Write == WriteNothing \/ \E k \in 0..Len(chain) : WriteOkay(k) \/ WriteBlocked(k)
Parse == Ignore \/ ParseOp \/ ParseLen \/ ParseLenExt \/ ParseKey \/ ParsePayload
Finish == DeliverOkay \/ DeliverFails \/ Ping \/ Pong \/ ClientClose
App == AppSendRefused \/ \E f \in AppFrames : AppSend(f)

Next ==
    \/ Upgrade \/ UpgradeRefused
    \/ \E n \in 1..Len(in) : Receive(n)
    \/ Parse \/ Finish \/ App \/ Write \/ Cleanup

Spec == Init /\ [][Next]_wvars

\* Callbacks run on; the watcher fires while it is on, and the socket takes
\* something in the end.
FairSpec == Spec /\ WF_wvars(Parse) /\ WF_wvars(Finish)
                 /\ WF_wvars(WriteNothing \/ WriteOkay(Len(chain)))

-----------------------------------------------------------------------------
(* Properties *)

\* What is queued or was sent.
Queued == wire \o chain
FrameOrder == [i \in DOMAIN Queued |-> Queued[i].n]
Excused == \E i \in DOMAIN out : out[i].payload = "none" \/ Len(out[i].data) = 0

\* Frames leave in the order they were given to the session, header before
\* payload and none between; only after a frame without payload can one be
\* missing.  A close frame is the last of a session and there is one at most.
FramesInOrder ==
    /\ \A i \in DOMAIN out : out[i].op = "CLOSE" => i = Len(out)
    /\ \A i, j \in DOMAIN FrameOrder : i < j => FrameOrder[i] <= FrameOrder[j]
    /\ \A i \in DOMAIN Queued : Queued[i].kind = "payload" =>
          i > 1 /\ Queued[i - 1] = [n |-> Queued[i].n, kind |-> "hdr", empty |-> FALSE]
    /\ ~Excused /\ state # "GONE" => \A n \in DOMAIN out : \E i \in DOMAIN Queued : Queued[i].n = n

IsData(f) == f.op \in DataOps
\* Every frame of data reaches the application once, in order and unmasked
\* with the right bytes of its key, wherever the buffers were cut; every ping
\* is answered with its own payload.
Delivered ==
    /\ ~Buffered => \E k \in 0..Len(sent) :
          got = [i \in 1..Len(SelectSeq(SubSeq(sent, 1, k), IsData)) |->
                    LET f == SelectSeq(sent, IsData)[i]
                    IN [op |-> f.op, fin |-> f.fin, data |-> f.data]]
    /\ LET pongs == SelectSeq(out, LAMBDA f : f.op = "PONG")
           pings == SelectSeq(sent, LAMBDA f : f.op = "PING")
       IN Len(pongs) <= Len(pings) /\ \A i \in DOMAIN pongs : pongs[i].data = pings[i].data

\* The rules of a sequence of frames, and of a text message.
InMessage(s) == \E i \in DOMAIN s :
    /\ s[i].op \in {"TEXT", "BINARY"} /\ ~s[i].fin
    /\ \A j \in (i + 1)..Len(s) : s[j].op = "CONTINUATION" => ~s[j].fin
FrameOkay(i) ==
    LET f == sent[i] open == InMessage(SubSeq(sent, 1, i - 1)) IN
    /\ ~f.rsv /\ f.masked /\ f.op \in DataOps \cup ControlOps
    /\ (f.op = "CONTINUATION") => open
    /\ (f.op \in {"TEXT", "BINARY"}) => ~open
    /\ (f.op \in ControlOps) => f.fin /\ f.form = 0
    /\ Len(f.data) <= FrameMax
    /\ (f.op = "TEXT" /\ f.fin) => CheckUtf8(Utf8New, f.data, TRUE).ok
    /\ (f.op = "CLOSE") => ReasonOkay(f.data)
TextOkay == CheckUtf8(Utf8New, FlattenSeq([i \in DOMAIN sent |->
                IF sent[i].op \in {"TEXT", "CONTINUATION"} THEN sent[i].data ELSE << >>]), FALSE).ok

\* A session is refused with code 1002, 1007 or 1011 only when the client broke
\* a rule (or closed inside a text message, see ParsePayload), or 1002 when the
\* application did; and what breaks one is never handed over.  No session is made
\* for a request without a host, an upgrade token, a key and version 13 (RFC 6455
\* 4.2.1, cited by the code).
RefusedForCause ==
    /\ state \notin {"HTTP", "GONE"} =>
          upgrade.key /\ upgrade.host /\ upgrade.version = "13" /\ ConnectionOkay(upgrade)
    /\ \A i \in DOMAIN out :
          out[i].op = "CLOSE" /\ out[i].data # << >> /\ state = "ERROR" =>
              \/ \E j \in DOMAIN sent : ~FrameOkay(j)
              \/ ~TextOkay
              \/ \E j \in DOMAIN sent : sent[j].op = "CLOSE" /\ InMessage(SubSeq(sent, 1, j - 1))
              \/ out[i].data = CloseFrame(1002).data
    /\ ~Buffered => \A i \in DOMAIN got :
          \E j \in DOMAIN sent : FrameOkay(j) /\ sent[j].data = got[i].data /\ sent[j].op = got[i].op

\* Once the session is in error or the client has closed, the connection is
\* shut down or gone.
ClosingEnds == (state \in {"ERROR", "CLOSE_RECEIVED"}) ~> (conn.st = "shutdown" \/ state = "GONE")

\* "The receive callback will be invoked with complete messages" (ymo_ws.h): a
\* buffered message is delivered with its data.
MessagesComplete ==
    Buffered => \A i \in DOMAIN got : Len(got[i].data) > 0
=============================================================================
