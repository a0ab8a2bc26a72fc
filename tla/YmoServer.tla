----------------------------- MODULE YmoServer -----------------------------
(***************************************************************************)
(* The core of libyimmo: one ymo_server_t, the ymo_conn_t objects it owns, *)
(* and the single-threaded libev loop that calls the accept, read, write   *)
(* and idle-timeout callbacks (src/core/ymo_server.c, src/core/ymo_conn.c, *)
(* src/core/ymo_tls.h).                                                    *)
(*                                                                         *)
(* The protocol behind the vtable is any protocol: a callback of it may    *)
(* toggle the watchers of its connection, shut the connection down and     *)
(* return any status the server tells apart.  The peer and the kernel      *)
(* socket run concurrently with the loop: a callback that calls recv(2)    *)
(* several times is one step per call.                                     *)
(***************************************************************************)
EXTENDS Naturals, FiniteSets

CONSTANTS
    Conns,        \* slots for ymo_conn_t objects (a freed one is reused)
    NoConn,       \* "no connection": the loop is between two callbacks
    SizeMax,      \* largest value of size_t, the type of server->no_conn
    MaxIn,        \* chunks a client socket's receive buffer holds
    MaxWork,      \* sends an application starts on a connection by itself
    MaxCalls,     \* protocol read callbacks that one recv() may need
    TLS,          \* does the server have an SSL context?
    InitMayFail,  \* can SSL/protocol initialisation of a connection fail?
    TxNow         \* how protocol read callbacks use ymo_conn_tx_now: "last",
                  \* then return EAGAIN; "mid", and go on

ASSUME ServerAssumption ==
    /\ IsFiniteSet(Conns)
    /\ NoConn \notin Conns
    /\ SizeMax \in Nat /\ Cardinality(Conns) <= SizeMax
    /\ MaxIn \in Nat
    /\ MaxWork \in Nat
    /\ MaxCalls \in Nat \ {0}
    /\ TLS \in BOOLEAN /\ InitMayFail \in BOOLEAN /\ TxNow \subseteq {"last", "mid"}

VARIABLES
    srv,      \* server->state, and FREED after ymo_server_free
    accepts,  \* is w_accept active?
    noConn,   \* server->no_conn
    broke,    \* has ev_break(EVBREAK_ALL) been called?
    st,       \* conn->state of each slot; FREE when not allocated
    watch,    \* the active ones of w_read, w_write and idle_timeout
    toq,      \* is conn->toq set?
    work,     \* sends the application may still start by itself
    peer,     \* the client's side of the TCP connection
    inq,      \* chunks received by the kernel and not yet read
    frame     \* the callback in progress, if any

vars == <<srv, accepts, noConn, broke, st, watch, toq, work, peer, inq, frame>>
connVars == <<st, watch, toq, work, peer, inq>>

ServerStates ==
    {"CREATED", "INITIALIZED", "STARTED", "STOP_GRACEFUL", "FREED"}

\* TLS_CLOSING and TLS_CLOSED are never assigned; CLOSING and CLOSED are
\* passed through inside one call of close_and_free_connection.
ConnStates == {"FREE", "OPEN", "TLS_HANDSHAKE", "TLS_ESTABLISHED", "SHUTDOWN"}

Watchers == {"rx", "tx", "idle"}

\* rst: a reset the server has not seen yet; gone: it has seen it.
PeerStates == {"none", "backlog", "open", "fin", "rst", "gone"}

\* pc: loop, no callback runs; recv, ymo_read_cb is at do_read; parse, it is
\* about to call the protocol; drain, ymo_conn_close is in its recv loop.
\* nested: that close was reached from ymo_conn_tx_now inside a read callback.
Frames == [pc : {"loop", "recv", "parse", "drain"}, conn : Conns \cup {NoConn},
           calls : 0..MaxCalls, nested : BOOLEAN]

Loop == [pc |-> "loop", conn |-> NoConn, calls |-> 0, nested |-> FALSE]
Recv(c) == [pc |-> "recv", conn |-> c, calls |-> 0, nested |-> FALSE]
Parse(c, n) == [pc |-> "parse", conn |-> c, calls |-> n, nested |-> FALSE]
Drain(c, n, nst) == [pc |-> "drain", conn |-> c, calls |-> n, nested |-> nst]

Allocated == {c \in Conns : st[c] # "FREE"}
\* Connections that ymo_conn_accept has counted (line 620) and not yet freed.
Counted == {c \in Allocated : toq[c]}

Init ==
    /\ srv = "CREATED"
    /\ accepts = FALSE
    /\ noConn = 0
    /\ broke = FALSE
    /\ st = [c \in Conns |-> "FREE"]
    /\ watch = [c \in Conns |-> {}]
    /\ toq = [c \in Conns |-> FALSE]
    /\ work = [c \in Conns |-> 0]
    /\ peer = [c \in Conns |-> "none"]
    /\ inq = [c \in Conns |-> 0]
    /\ frame = Loop

-----------------------------------------------------------------------------
(* size_t arithmetic on server->no_conn.                                   *)

Inc(n) == IF n = SizeMax THEN 0 ELSE n + 1
\* Mutant: no_conn as a signed counter.
Dec_mutant(n) == n - 1
Dec(n) == IF n = 0 THEN SizeMax ELSE n - 1

-----------------------------------------------------------------------------
(* Pieces of ymo_conn.c, as functions of a connection and its watchers.    *)

CONN_SSL(c) == TLS /\ st[c] \in {"OPEN", "TLS_ESTABLISHED", "TLS_HANDSHAKE"}
CanRead(c) == st[c] \in {"OPEN", "TLS_ESTABLISHED"}

\* Mutant: the reset takes the timer off its queue and never puts it back.
ResetIdleTimeout_mutant(w) == w \ {"idle"}
\* bsat_timeout_reset while open and bsat_timeout_start once shut down: both
\* leave the timer armed.
ResetIdleTimeout(w) == w \cup {"idle"}

\* Mutant: the timer is left running when the connection is closed.
CancelIdleTimeout_mutant(c, w) == w
CancelIdleTimeout(c, w) == IF toq[c] THEN w \ {"idle"} ELSE w

\* shutdown(fd, SHUT_WR) fails on a connection that was reset.
ShutdownFails(c) == st[c] # "SHUTDOWN" /\ peer[c] \in {"rst", "gone"}
StateAfterShutdown(c) == IF ShutdownFails(c) THEN st[c] ELSE "SHUTDOWN"
WatchAfterShutdown(c, w) ==
    IF ShutdownFails(c) THEN w ELSE (w \cup {"rx"}) \ {"tx"}

-----------------------------------------------------------------------------
(* ymo_conn_close and close_and_free_connection.                           *)

\* Mutant: the last connection to go does not break the loop.
LastConnGone_mutant(n) == FALSE
\* Is a graceful stop waiting, with no connection left to wait for?
LastConnGone(n) == srv = "STOP_GRACEFUL" /\ n = 0

\* The tail of ymo_conn_close (from case YMO_CONN_CLOSING) and the rest of
\* close_and_free_connection; control returns to frame f.
CloseTail(c, f) ==
    /\ st' = [st EXCEPT ![c] = "FREE"]
    /\ watch' = [watch EXCEPT ![c] = CancelIdleTimeout(c, @) \ {"rx", "tx"}]
    /\ toq' = [toq EXCEPT ![c] = FALSE]
    /\ work' = [work EXCEPT ![c] = 0]
    /\ peer' = [peer EXCEPT ![c] = "none"]
    /\ inq' = [inq EXCEPT ![c] = 0]
    /\ noConn' = Dec(noConn)
    /\ broke' = (broke \/ LastConnGone(Dec(noConn)))
    /\ frame' = f
    /\ UNCHANGED <<srv, accepts>>

\* close_and_free_connection(server, conn, 1) up to the recv loop of
\* ymo_conn_close, called with the connection's watchers at w.
CloseClean(c, w, n, nst) ==
    /\ st' = [st EXCEPT ![c] = StateAfterShutdown(c)]
    /\ watch' = [watch EXCEPT
            ![c] = IF st[c] = "SHUTDOWN" THEN w ELSE WatchAfterShutdown(c, w)]
    /\ frame' = Drain(c, n, nst)

\* Where a close returns to: the loop, or the read callback under it.
ReturnFrame ==
    IF frame.nested THEN Parse(frame.conn, frame.calls) ELSE Loop

\* recv() in ymo_conn_close finds data: throw it away and call it again.
DrainData(c) ==
    /\ inq[c] > 0
    /\ inq' = [inq EXCEPT ![c] = @ - 1]
    /\ UNCHANGED <<srv, accepts, noConn, broke, st, watch, toq, work, peer, frame>>

\* Mutant: EAGAIN ends the close with the connection half closed.
DrainBlocked_mutant(c) ==
    /\ inq[c] = 0 /\ peer[c] = "open"
    /\ frame' = ReturnFrame
    /\ UNCHANGED <<srv, accepts, noConn, broke, connVars>>

\* recv() fails with EAGAIN.  len is a size_t, so -1 satisfies len > 0 and
\* recv() is called again at once.
DrainBlocked(c) ==
    /\ inq[c] = 0 /\ peer[c] = "open"
    /\ UNCHANGED vars

\* recv() fails with ECONNRESET: -1 again, and the error is now consumed.
DrainReset(c) ==
    /\ inq[c] = 0 /\ peer[c] = "rst"
    /\ peer' = [peer EXCEPT ![c] = "gone"]
    /\ UNCHANGED <<srv, accepts, noConn, broke, st, watch, toq, work, inq, frame>>

\* recv() returns 0.
DrainEof(c) ==
    /\ inq[c] = 0 /\ peer[c] \in {"fin", "gone"}
    /\ CloseTail(c, ReturnFrame)

DrainStep(c) ==
    /\ frame.pc = "drain" /\ frame.conn = c
    /\ DrainData(c) \/ DrainBlocked(c) \/ DrainReset(c) \/ DrainEof(c)

-----------------------------------------------------------------------------
(* Server lifecycle.                                                       *)

InitSocket ==
    /\ srv = "CREATED"
    /\ srv' = "INITIALIZED"
    /\ UNCHANGED <<accepts, noConn, broke, connVars, frame>>

Start ==
    /\ srv = "INITIALIZED"
    /\ srv' = "STARTED"
    /\ accepts' = TRUE
    /\ UNCHANGED <<noConn, broke, connVars, frame>>

\* Mutant: nobody looks whether there are connections at all.
StopGraceful_mutant ==
    /\ srv = "STARTED" /\ frame = Loop
    /\ accepts' = FALSE
    /\ srv' = "STOP_GRACEFUL"
    /\ peer' = [c \in Conns |-> IF peer[c] = "backlog" THEN "none" ELSE peer[c]]
    /\ inq' = [c \in Conns |-> IF peer[c] = "backlog" THEN 0 ELSE inq[c]]
    /\ UNCHANGED <<noConn, broke, st, watch, toq, work, frame>>

\* Runs from a signal watcher's callback, so between two other callbacks.
\* Closing the listening socket resets the connections not yet accepted.
StopGraceful ==
    /\ srv = "STARTED" /\ frame = Loop
    /\ accepts' = FALSE
    /\ srv' = "STOP_GRACEFUL"
    /\ broke' = (noConn = 0)
    /\ peer' = [c \in Conns |-> IF peer[c] = "backlog" THEN "none" ELSE peer[c]]
    /\ inq' = [c \in Conns |-> IF peer[c] = "backlog" THEN 0 ELSE inq[c]]
    /\ UNCHANGED <<noConn, st, watch, toq, work, frame>>

\* ymo_server_free, once ev_run has returned.
ServerFree ==
    /\ srv = "STOP_GRACEFUL" /\ broke
    /\ srv' = "FREED"
    /\ accepts' = FALSE
    /\ UNCHANGED <<noConn, broke, connVars, frame>>

\* The loop runs, and no callback does.
Dispatching == srv \in {"STARTED", "STOP_GRACEFUL"} /\ ~broke /\ frame = Loop

-----------------------------------------------------------------------------
(* ymo_accept_cb and ymo_conn_accept.                                      *)

AcceptPending(c) == Dispatching /\ accepts /\ peer[c] = "backlog" /\ st[c] = "FREE"

\* Every step of ymo_conn_accept succeeds.  A protocol's conn_ready callback
\* may have started the write watcher.
AcceptOkay(c) ==
    /\ AcceptPending(c)
    /\ st' = [st EXCEPT ![c] = IF TLS THEN "TLS_HANDSHAKE" ELSE "OPEN"]
    /\ \E tx \in SUBSET {"tx"} : watch' = [watch EXCEPT ![c] = {"rx", "idle"} \cup tx]
    /\ toq' = [toq EXCEPT ![c] = TRUE]
    /\ work' = [work EXCEPT ![c] = MaxWork]
    /\ peer' = [peer EXCEPT ![c] = "open"]
    /\ noConn' = Inc(noConn)
    /\ UNCHANGED <<srv, accepts, broke, inq, frame>>

\* ymo_conn_create returns NULL: the descriptor is closed.
AcceptNoMemory(c) ==
    /\ AcceptPending(c)
    /\ peer' = [peer EXCEPT ![c] = "none"]
    /\ inq' = [inq EXCEPT ![c] = 0]
    /\ UNCHANGED <<srv, accepts, noConn, broke, st, watch, toq, work, frame>>

\* ymo_init_ssl or conn_proto_init fails: the connection, which has not been
\* counted, goes through shutdown(2) to a clean close.
AcceptInitFails(c) ==
    /\ InitMayFail
    /\ AcceptPending(c)
    /\ peer' = [peer EXCEPT ![c] = "open"]
    /\ st' = [st EXCEPT ![c] = "SHUTDOWN"]
    /\ watch' = [watch EXCEPT ![c] = {"rx"}]
    /\ frame' = Drain(c, 0, FALSE)
    /\ UNCHANGED <<srv, accepts, noConn, broke, toq, work, inq>>

-----------------------------------------------------------------------------
(* ymo_read_cb.                                                            *)

Readable(c) == inq[c] > 0 \/ peer[c] \in {"fin", "rst", "gone"}

\* libev finds the descriptor readable.
ReadEvent(c) ==
    /\ Dispatching
    /\ "rx" \in watch[c] /\ Readable(c)
    /\ frame' = Recv(c)
    /\ UNCHANGED <<srv, accepts, noConn, broke, connVars>>

\* libev reports EV_ERROR on the descriptor.
ReadEventError(c) ==
    /\ Dispatching
    /\ "rx" \in watch[c]
    /\ CloseTail(c, Loop)

AtRecv(c) == frame.pc = "recv" /\ frame.conn = c

\* A step of SSL_accept that consumes input: established, and SSL_read_ex
\* follows; or more input is needed; or the handshake has failed.
RecvHandshake(c) ==
    /\ AtRecv(c)
    /\ CONN_SSL(c) /\ st[c] = "TLS_HANDSHAKE" /\ inq[c] > 0
    /\ \/ /\ st' = [st EXCEPT ![c] = "TLS_ESTABLISHED"]
          /\ inq' = [inq EXCEPT ![c] = @ - 1]
          /\ UNCHANGED <<srv, accepts, noConn, broke, watch, toq, work, peer, frame>>
       \/ /\ inq' = [inq EXCEPT ![c] = @ - 1]
          /\ frame' = Loop
          /\ UNCHANGED <<srv, accepts, noConn, broke, st, watch, toq, work, peer>>
       \/ CloseTail(c, Loop)

\* recv() or SSL_read_ex returns data: hand it to the protocol, unless the
\* connection is shut down, when it is dropped and recv() called again.
RecvData(c) ==
    /\ AtRecv(c)
    /\ st[c] # "TLS_HANDSHAKE" /\ inq[c] > 0
    /\ inq' = [inq EXCEPT ![c] = @ - 1]
    /\ IF CanRead(c)
          THEN /\ watch' = [watch EXCEPT ![c] = ResetIdleTimeout(@)]
               /\ \E n \in 1..MaxCalls : frame' = Parse(c, n)
          ELSE UNCHANGED <<watch, frame>>
    /\ UNCHANGED <<srv, accepts, noConn, broke, st, toq, work, peer>>

\* The read would block; on a TLS connection also because the record that
\* was read is incomplete.
RecvBlocked(c) ==
    /\ AtRecv(c)
    /\ \/ inq[c] = 0 /\ peer[c] = "open" /\ UNCHANGED inq
       \/ /\ CONN_SSL(c) /\ st[c] = "TLS_ESTABLISHED" /\ inq[c] > 0
          /\ inq' = [inq EXCEPT ![c] = @ - 1]
    /\ frame' = Loop
    /\ UNCHANGED <<srv, accepts, noConn, broke, st, watch, toq, work, peer>>

\* Mutant: no return after the close; recv() is called once more.
RecvClosed_mutant(c) ==
    /\ AtRecv(c)
    /\ \/ inq[c] = 0 /\ peer[c] \in {"fin", "rst", "gone"}
       \/ CONN_SSL(c) /\ st[c] = "TLS_ESTABLISHED" /\ inq[c] > 0
    /\ CloseTail(c, Recv(c))

\* End of file, or an error (in what the peer sent, over TLS): close without
\* the shutdown handshake.
RecvClosed(c) ==
    /\ AtRecv(c)
    /\ \/ inq[c] = 0 /\ peer[c] \in {"fin", "rst", "gone"}
       \/ CONN_SSL(c) /\ st[c] = "TLS_ESTABLISHED" /\ inq[c] > 0
    /\ CloseTail(c, Loop)

RecvStep(c) == RecvHandshake(c) \/ RecvData(c) \/ RecvBlocked(c) \/ RecvClosed(c)

\* A behaviour ends where a read callback goes on with a freed connection.
AtParse(c) == frame.pc = "parse" /\ frame.conn = c /\ st[c] # "FREE"

\* What a protocol callback does to its connection: it leaves the I/O
\* watchers at io, then (if sd) calls ymo_conn_shutdown.
ProtoWatch(c, w, io, sd) ==
    LET t == (w \cap {"idle"}) \cup io
    IN  IF sd THEN WatchAfterShutdown(c, t) ELSE t
ProtoState(c, sd) == IF sd THEN StateAfterShutdown(c) ELSE st[c]

\* conn->proto->vtable.read_cb returns n >= 0.  Once the connection is shut
\* down what is left of the buffer is dropped and recv() called again;
\* otherwise the callback runs until the buffer is consumed.  Then the loop
\* gets control, or recv() again if OpenSSL has buffered input.
ParseOkay(c) ==
    /\ AtParse(c)
    /\ \E io \in SUBSET {"rx", "tx"}, sd \in BOOLEAN :
          /\ st' = [st EXCEPT ![c] = ProtoState(c, sd)]
          /\ watch' = [watch EXCEPT ![c] = ProtoWatch(c, @, io, sd)]
    /\ frame' \in IF st'[c] = "SHUTDOWN" THEN {Recv(c)}
                  ELSE IF frame.calls > 1 THEN {Parse(c, frame.calls - 1)}
                  ELSE {Loop} \cup (IF TLS /\ inq[c] > 0 THEN {Recv(c)} ELSE {})
    /\ UNCHANGED <<srv, accepts, noConn, broke, toq, work, peer, inq>>

\* read_cb returns n < 0 with errno EAGAIN: back to the loop.
ParseBlocked(c) ==
    /\ AtParse(c)
    /\ \E io \in SUBSET {"rx", "tx"}, sd \in BOOLEAN :
          /\ st' = [st EXCEPT ![c] = ProtoState(c, sd)]
          /\ watch' = [watch EXCEPT ![c] = ProtoWatch(c, @, io, sd)]
    /\ frame' = Loop
    /\ UNCHANGED <<srv, accepts, noConn, broke, toq, work, peer, inq>>

\* read_cb returns n < 0 with any other errno.
ParseError(c) ==
    /\ AtParse(c)
    /\ CloseTail(c, Loop)

-----------------------------------------------------------------------------
(* ymo_write_cb, from the loop and from ymo_conn_tx_now.                   *)

\* The protocol's write callback returns YMO_OKAY: nothing is left to send.
WriteOkay(c, f) ==
    /\ \E io \in SUBSET {"rx", "tx"}, sd \in BOOLEAN :
          /\ st' = [st EXCEPT ![c] = ProtoState(c, sd)]
          /\ watch' = [watch EXCEPT
                ![c] = ResetIdleTimeout(ProtoWatch(c, @, io, sd)) \ {"tx"}]
    /\ frame' = f
    /\ UNCHANGED <<srv, accepts, noConn, broke, toq, work, peer, inq>>

\* It returns EAGAIN: part of the output has been sent, and more is left.
WriteBlocked(c, f) ==
    /\ work[c] > 0
    /\ work' = [work EXCEPT ![c] = @ - 1]
    /\ \E io \in SUBSET {"rx", "tx"}, sd \in BOOLEAN :
          /\ st' = [st EXCEPT ![c] = ProtoState(c, sd)]
          /\ watch' = [watch EXCEPT
                ![c] = ResetIdleTimeout(ProtoWatch(c, @, io, sd))]
    /\ frame' = f
    /\ UNCHANGED <<srv, accepts, noConn, broke, toq, peer, inq>>

\* It returns an error (a failed protocol transition included).
WriteError(c, nst) ==
    /\ CloseClean(c, ResetIdleTimeout(watch[c]), frame.calls, nst)
    /\ UNCHANGED <<srv, accepts, noConn, broke, toq, work, peer, inq>>

WriteEvent(c) ==
    /\ Dispatching
    /\ "tx" \in watch[c]
    /\ WriteOkay(c, Loop) \/ WriteBlocked(c, Loop) \/ WriteError(c, FALSE)

\* ymo_conn_tx_now as the last thing a read callback does (the echo of a
\* WebSocket close frame): the callback returns EAGAIN, and ymo_read_cb
\* returns without looking at the connection again.
ParseTxNowLast(c) ==
    /\ "last" \in TxNow
    /\ AtParse(c)
    /\ WriteOkay(c, Loop) \/ WriteBlocked(c, Loop) \/ WriteError(c, FALSE)

\* ymo_conn_tx_now in the middle of a read callback (HTTP's 100-continue):
\* the callback goes on once ymo_write_cb has returned.
ParseTxNowMid(c) ==
    /\ "mid" \in TxNow
    /\ AtParse(c)
    /\ WriteOkay(c, frame) \/ WriteBlocked(c, frame) \/ WriteError(c, TRUE)

\* Outside any callback of this connection the application produces output
\* for it, which starts the write watcher.
AppTxEnable(c) ==
    /\ Dispatching
    /\ st[c] # "FREE" /\ work[c] > 0 /\ "tx" \notin watch[c]
    /\ watch' = [watch EXCEPT ![c] = @ \cup {"tx"}]
    /\ work' = [work EXCEPT ![c] = @ - 1]
    /\ UNCHANGED <<srv, accepts, noConn, broke, st, toq, peer, inq, frame>>

-----------------------------------------------------------------------------
(* idle_timeout_cb: bsat has taken the expired timer off its queue.        *)

IdleTimeout(c) ==
    /\ Dispatching
    /\ "idle" \in watch[c]
    /\ CloseClean(c, watch[c] \ {"idle"}, 0, FALSE)
    /\ UNCHANGED <<srv, accepts, noConn, broke, toq, work, peer, inq>>

-----------------------------------------------------------------------------
(* The clients.                                                            *)

Connect(c) ==
    /\ srv = "STARTED" /\ peer[c] = "none" /\ st[c] = "FREE"
    /\ peer' = [peer EXCEPT ![c] = "backlog"]
    /\ UNCHANGED <<srv, accepts, noConn, broke, st, watch, toq, work, inq, frame>>

PeerSend(c) ==
    /\ peer[c] \in {"backlog", "open"} /\ inq[c] < MaxIn
    /\ inq' = [inq EXCEPT ![c] = @ + 1]
    /\ UNCHANGED <<srv, accepts, noConn, broke, st, watch, toq, work, peer, frame>>

PeerClose(c) ==
    /\ peer[c] = "open"
    /\ peer' = [peer EXCEPT ![c] = "fin"]
    /\ UNCHANGED <<srv, accepts, noConn, broke, st, watch, toq, work, inq, frame>>

PeerReset(c) ==
    /\ peer[c] \in {"open", "fin"}
    /\ peer' = [peer EXCEPT ![c] = "rst"]
    /\ UNCHANGED <<srv, accepts, noConn, broke, st, watch, toq, work, inq, frame>>

-----------------------------------------------------------------------------
\* The process has left ev_run and freed the server.
Exited == srv = "FREED" /\ UNCHANGED vars

Lifecycle == InitSocket \/ Start \/ StopGraceful \/ ServerFree \/ Exited

Callback(c) ==
    \/ AcceptOkay(c) \/ AcceptNoMemory(c) \/ AcceptInitFails(c)
    \/ ReadEvent(c) \/ ReadEventError(c) \/ RecvStep(c)
    \/ ParseOkay(c) \/ ParseBlocked(c) \/ ParseError(c)
    \/ ParseTxNowLast(c) \/ ParseTxNowMid(c)
    \/ WriteEvent(c) \/ AppTxEnable(c) \/ IdleTimeout(c) \/ DrainStep(c)

Client(c) == Connect(c) \/ PeerSend(c) \/ PeerClose(c) \/ PeerReset(c)

Next == Lifecycle \/ \E c \in Conns : Callback(c) \/ Client(c)

Spec == Init /\ [][Next]_vars

\* A callback that has started runs on, and libev calls every ready watcher
\* and every expired timer once in each iteration of the loop.
LoopFairness ==
    \A c \in Conns :
        /\ WF_vars(RecvStep(c)) /\ WF_vars(DrainStep(c))
        /\ WF_vars(ParseOkay(c) \/ ParseBlocked(c) \/ ParseError(c))
        /\ SF_vars(ReadEvent(c)) /\ SF_vars(IdleTimeout(c))

\* Assumed of the clients, not of the code: each one closes in the end.
ClientFairness == \A c \in Conns : WF_vars(PeerClose(c))

LoopSpec == Spec /\ LoopFairness
FairSpec == LoopSpec /\ ClientFairness

-----------------------------------------------------------------------------
(* Properties.                                                             *)

\* Every variable has its type; no_conn stays a size_t.
TypeOK ==
    /\ srv \in ServerStates
    /\ accepts \in BOOLEAN
    /\ noConn \in 0..SizeMax
    /\ broke \in BOOLEAN
    /\ st \in [Conns -> ConnStates]
    /\ watch \in [Conns -> SUBSET Watchers]
    /\ toq \in [Conns -> BOOLEAN]
    /\ work \in [Conns -> 0..MaxWork]
    /\ peer \in [Conns -> PeerStates]
    /\ inq \in [Conns -> 0..MaxIn]
    /\ frame \in Frames

\* libev and bsat hold a pointer to the ymo_conn_t of every active watcher
\* and timer: a connection that close_and_free_connection has freed must
\* have none left, or the loop calls back into freed memory.
NoDanglingWatcher == \A c \in Conns : st[c] = "FREE" => watch[c] = {}

\* The callback in progress works on a connection that is still allocated.
\* (ymo_read_cb and the protocol under it go on using conn after every call
\* they make.)
FrameConnAllocated == frame.pc # "loop" => frame.conn \in Allocated

\* Between two callbacks every connection has its idle timer armed, whatever
\* its state: no close that was begun, no half-closed connection and no
\* connection whose reads are off can be forgotten by the server.
IdleTimerArmed ==
    frame.pc = "loop" => \A c \in Allocated : "idle" \in watch[c]

\* no_conn is the number of connections that were accepted and not freed.
NoConnExact == noConn = Cardinality(Counted)

\* During a graceful stop the loop is broken exactly when the last
\* connection is gone: never under a live one, and never too late.
GracefulBreak == srv = "STOP_GRACEFUL" => (broke <=> Allocated = {})

\* Every accepted connection is freed in the end.
ConnectionsEnd == \A c \in Conns : (st[c] # "FREE") ~> (st[c] = "FREE")

\* A graceful stop reaches ev_break.
GracefulStopEnds == (srv = "STOP_GRACEFUL") ~> broke

\* Closing a connection does not hold up the event loop: ymo_conn_close
\* comes back to it, whatever the client does.
CloseReturns == (frame.pc = "drain") ~> (frame.pc # "drain")

-----------------------------------------------------------------------------
(* Inductive strengthenings, used by YmoServerProofs.                      *)

\* c is in the recv loop of ymo_conn_close.
Draining(c) == frame.pc = "drain" /\ frame.conn = c

\* The frame names a connection exactly while a callback runs, and one that
\* is allocated unless it was freed under a "mid" ymo_conn_tx_now.
FrameInv ==
    /\ frame.pc = "loop" <=> frame.conn = NoConn
    /\ frame.pc \in {"recv", "drain"} => frame.conn \in Allocated
    /\ frame.pc = "parse" /\ frame.conn \notin Allocated => "mid" \in TxNow
    /\ frame.nested => "mid" \in TxNow

\* Only a counted connection has a timer, and it has lost it only while it
\* is being closed; a connection that is not counted is being closed.
TimerInv ==
    \A c \in Conns :
        /\ st[c] = "FREE" => ~toq[c]
        /\ ~toq[c] => "idle" \notin watch[c]
        /\ st[c] # "FREE" /\ ~toq[c] => Draining(c) /\ InitMayFail
        /\ st[c] # "FREE" => "idle" \in watch[c] \/ Draining(c)

PointerInv == NoDanglingWatcher /\ FrameInv /\ TimerInv

\* no_conn decides when the loop is broken.
BreakInv ==
    /\ accepts => srv = "STARTED"
    /\ broke => srv \in {"STOP_GRACEFUL", "FREED"}
    /\ srv = "STOP_GRACEFUL" => (broke <=> noConn = 0)

AccountInv == NoConnExact /\ BreakInv
=============================================================================
