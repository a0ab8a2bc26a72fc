------------------------------ MODULE YmoWsgi ------------------------------
(***************************************************************************)
(* The WSGI server of one process (wsgi/ymo_wsgi_session.c, _exchange.c,   *)
(* _worker.c, _server.c, _context.c): the event loop makes sessions and    *)
(* exchanges and hands exchanges to a worker thread through queue_in; the  *)
(* worker runs the application and hands what it produces back through     *)
(* queue_out.  Sessions and exchanges are counted references.              *)
(*                                                                         *)
(* A session belongs to one worker, so there is one here.  Callbacks of    *)
(* the event loop are steps; the worker's steps are cut wherever it takes, *)
(* lets go of or looks at something that the loop may change.              *)
(*                                                                         *)
(* Once freed memory was used, or the pool of a session was changed by     *)
(* both threads at once, nothing more is said of a behaviour: bad tells    *)
(* which it was and no step follows.                                       *)
(***************************************************************************)
EXTENDS Naturals, Sequences, SequencesExt, FiniteSets, FiniteSetsExt

CONSTANTS
    Sess,      \* sessions
    PoolEx,    \* YMO_WSGI_EXCHANGE_POOL_SIZE
    MaxEx,     \* bound: exchanges of a session at a time
    MaxReqs,   \* bound: requests of all sessions
    MaxBody,   \* bound: items of a response
    MaxStops,  \* bound: calls of ymo_wsgi_stop_workers
    Pipelining \* do clients send a request before they have the last response?

ASSUME WsgiAssumption ==
    /\ MaxEx \in Nat /\ MaxReqs \in Nat /\ MaxStops \in Nat
    /\ PoolEx \in 1..MaxEx /\ Pipelining \in BOOLEAN

VARIABLES
    ses,      \* [state, ref, closed, lock, head, pool] of each session
    ex,       \* [live, ref, done, sent, data, resp] of each exchange
    resp,     \* [made, items, fin] of the HTTP responses: by the application, arrived, finished
    phase,    \* of the HTTP session: where its last request is
    queue_in, queue_out,
    running,  \* worker->running
    stops,    \* calls of ymo_wsgi_stop_workers so far
    w,        \* the worker: [pc, ex, pool]
    woken,    \* was the condition variable signalled?
    lost,     \* exchanges whose worker reference nobody holds any more
    bad       \* "none", or why nothing can be said

gvars == <<ses, ex, resp, phase, queue_in, queue_out, running, stops, w, woken, lost, bad>>

Exchanges == Sess \X (1..MaxEx)
IsPooled(e) == e[2] <= PoolEx
Requests == 1..MaxReqs

NoSession == [state |-> "none", ref |-> 0, closed |-> FALSE, lock |-> FALSE, head |-> << >>, pool |-> << >>]
NoExchange == [live |-> FALSE, ref |-> 0, done |-> FALSE, sent |-> FALSE, data |-> << >>, resp |-> 0]
Idle == [pc |-> "idle", ex |-> << >>, pool |-> << >>]

WInitWith(b) ==
    /\ ses = [s \in Sess |-> NoSession]
    /\ ex = [e \in Exchanges |-> NoExchange]
    /\ resp = [s \in Sess |-> [k \in Requests |-> [made |-> << >>, items |-> << >>, fin |-> 0]]]
    /\ phase = [s \in Sess |-> [req |-> 0, at |-> "done"]]
    /\ queue_in = << >> /\ queue_out = << >>
    /\ running = TRUE /\ stops = 0 /\ w = Idle /\ woken = FALSE /\ lost = {} /\ bad = b

WInit == WInitWith("none")

-----------------------------------------------------------------------------
(* References.  The operators work on m = [ses, ex, bad].                  *)

Mem == [ses |-> ses, ex |-> ex, bad |-> bad]
Store(m) == \E n \in {m} : ses' = n.ses /\ ex' = n.ex /\ bad' = n.bad

ExIncref(m, e) == [m EXCEPT !.ex[e].ref = @ + 1]

SesDecref(m, s) ==
    IF m.ses[s].ref = 1 THEN [m EXCEPT !.ses[s] = [NoSession EXCEPT !.state = "freed"]]
    ELSE [m EXCEPT !.ses[s].ref = @ - 1]

\* ymo_wsgi_exchange_free: back to the pool of the session.
ToPool(m, e) ==
    IF ~IsPooled(e) THEN m ELSE [m EXCEPT !.ses[e[1]].pool = <<e>> \o @]

\* Mutant: the exchange keeps its reference to the session.
ExDecref_mutant(m, e) ==
    IF m.ex[e].ref > 1 THEN [m EXCEPT !.ex[e].ref = @ - 1]
    ELSE [m EXCEPT !.ex[e] = NoExchange]

\* ymo_wsgi_exchange_decref: the reference to the session goes first; if it was
\* the last one, the pool and the exchange in it are gone with the session.
ExDecref(m, e) ==
    IF m.ex[e].ref > 1 THEN [m EXCEPT !.ex[e].ref = @ - 1]
    ELSE LET n == SesDecref([m EXCEPT !.ex[e] = NoExchange], e[1])
         IN IF n.ses[e[1]].state = "freed" /\ IsPooled(e) THEN [n EXCEPT !.bad = "freed"] ELSE n

\* A decref by the event loop.
LoopDecref(m, e) ==
    LET n == ExDecref(m, e)
    IN IF n.ex[e].live \/ n.bad # "none" \/ n.ses[e[1]].state = "freed" THEN n ELSE ToPool(n, e)

-----------------------------------------------------------------------------
(* The event loop *)

\* Nothing is broken yet, and the loop does not wait in ymo_wsgi_session_cleanup.
Okay == bad = "none"
Held == {"open", "closing", "emptying"}   \* the connection has its reference
Turn == Okay /\ \A s \in Sess : ses[s].state \notin {"closing", "emptying"}
Locked == w.pc \in {"locked", "wait"}   \* the worker holds lock_in

\* ymo_wsgi_session_init.
SessionInit(s) ==
    /\ Turn /\ ses[s].state = "none"
    /\ ses' = [ses EXCEPT ![s] = [NoSession EXCEPT !.state = "open", !.ref = 1,
                                     !.pool = [i \in 1..PoolEx |-> <<s, i>>]]]
    /\ UNCHANGED <<ex, resp, phase, queue_in, queue_out, running, stops, w, woken, lost, bad>>

Available(s) ==
    IF ses[s].pool # << >> THEN {Head(ses[s].pool)}
    ELSE {<<s, i>> : i \in {j \in (PoolEx + 1)..MaxEx : ~ex[<<s, j>>].live}}

\* ymo_wsgi_server_header_cb with ymo_wsgi_session_create_exchange.  The exchange
\* has a reference of the list and one of the server.
HeaderCb(s, e) ==
    /\ Turn /\ ~Locked /\ ses[s].state = "open"
    /\ phase[s].req < MaxReqs /\ MapThenSumSet(LAMBDA t : phase[t].req, Sess) < MaxReqs
    /\ phase[s].at = "done" \/ (Pipelining /\ phase[s].at = "queued")
    /\ e \in Available(s)
    /\ ses' = [ses EXCEPT ![s].pool = IF @ # << >> THEN Tail(@) ELSE @,
                          ![s].head = Append(@, e), ![s].ref = @ + 1]
    /\ ex' = [ex EXCEPT ![e] = [NoExchange EXCEPT !.live = TRUE, !.ref = 2]]
    /\ phase' = [phase EXCEPT ![s] = [req |-> @.req + 1, at |-> "header"]]
    /\ UNCHANGED <<resp, queue_in, queue_out, running, stops, w, woken, lost, bad>>

\* Mutant: the worker is not told.
Notify_mutant == UNCHANGED woken

\* ymo_wsgi_worker_notify: who does not wait is not told.
Notify == woken' = (woken \/ w.pc = "waiting")

\* ymo_wsgi_server_request_cb: the first exchange of the list is queued, with a
\* reference for the worker.
RequestCb(s) ==
    /\ Turn /\ ~Locked /\ ses[s].state = "open" /\ phase[s].at = "header"
    /\ LET e == Head(ses[s].head) IN
       /\ ex' = [ex EXCEPT ![e].resp = phase[s].req, ![e].ref = @ + 1]
       /\ queue_in' = Append(queue_in, e)
    /\ Notify
    /\ phase' = [phase EXCEPT ![s].at = "queued"]
    /\ UNCHANGED <<ses, resp, queue_out, running, stops, w, lost, bad>>

\* ymo_wsgi_session_exchange_done.
ExchangeDone(m, s) ==
    IF m.ses[s].head = << >> THEN m
    ELSE LoopDecref([m EXCEPT !.ses[s].head = Tail(@)], Head(m.ses[s].head))

\* One exchange in ymo_wsgi_server_queue_responses.
QueueResponses ==
    /\ Turn /\ queue_out # << >>
    /\ queue_out' = Tail(queue_out)
    /\ LET e == Head(queue_out) s == e[1] k == ex[e].resp
           open == ~ses[s].closed
           ends == ~ex[e].sent /\ (ex[e].done \/ ~open)
           m1 == [Mem EXCEPT !.ex[e].data = IF open THEN << >> ELSE @, !.ex[e].sent = @ \/ ends]
       IN /\ \E m2 \in {IF ends THEN LoopDecref(m1, e) ELSE m1} :
             \E m3 \in {IF ends THEN ExchangeDone(m2, s) ELSE m2} : Store(LoopDecref(m3, e))
          /\ resp' = IF open
                     THEN [resp EXCEPT ![s][k].items = @ \o ex[e].data,
                                       ![s][k].fin = IF ends THEN @ + 1 ELSE @]
                     ELSE resp
          /\ phase' = IF open /\ ends THEN [phase EXCEPT ![s].at = "done"] ELSE phase
    /\ UNCHANGED <<queue_in, running, stops, w, woken, lost>>

\* ymo_wsgi_session_cleanup, when the connection ends: the session is marked, ...
SessionClose(s) ==
    /\ Turn /\ ses[s].state = "open"
    /\ ses' = [ses EXCEPT ![s].closed = TRUE, ![s].state = "closing"]
    /\ UNCHANGED <<ex, resp, phase, queue_in, queue_out, running, stops, w, woken, lost, bad>>

\* ... its lock is taken, ...
SessionLock(s) ==
    /\ Okay /\ ses[s].state = "closing" /\ ~ses[s].lock
    /\ ses' = [ses EXCEPT ![s].lock = TRUE, ![s].state = "emptying"]
    /\ UNCHANGED <<ex, resp, phase, queue_in, queue_out, running, stops, w, woken, lost, bad>>

\* ... the list is emptied, one exchange after the other, ...
SessionEmpty(s) ==
    /\ Okay /\ ses[s].state = "emptying" /\ ses[s].head # << >>
    /\ LET e == Head(ses[s].head) IN
       Store(LoopDecref([Mem EXCEPT !.ex[e].done = TRUE, !.ses[s].head = Tail(@)], e))
    /\ UNCHANGED <<resp, phase, queue_in, queue_out, running, stops, w, woken, lost>>

\* ... and the lock and the connection's reference are let go of.  The HTTP
\* session with its requests and responses is freed next.
SessionUnlock(s) ==
    /\ Okay /\ ses[s].state = "emptying" /\ ses[s].head = << >>
    /\ Store(SesDecref([Mem EXCEPT !.ses[s].lock = FALSE, !.ses[s].state = "closed"], s))
    /\ UNCHANGED <<resp, phase, queue_in, queue_out, running, stops, w, woken, lost>>

SessionCleanup(s) == SessionLock(s) \/ SessionEmpty(s) \/ SessionUnlock(s)

\* ymo_wsgi_stop_workers: nothing is signalled if the lock is taken.
StopWorkers ==
    /\ Turn /\ stops < MaxStops
    /\ running' = FALSE /\ stops' = stops + 1
    /\ IF Locked THEN UNCHANGED woken ELSE Notify
    /\ UNCHANGED <<ses, ex, resp, phase, queue_in, queue_out, w, lost, bad>>

-----------------------------------------------------------------------------
(* The worker: ymo_wsgi_worker_main *)

Goto(pc) == w' = [w EXCEPT !.pc = pc]
WorkerAt(pc) == Okay /\ w.pc = pc

WLock ==
    /\ WorkerAt("idle") \/ (WorkerAt("waiting") /\ woken)
    /\ Goto("locked") /\ woken' = FALSE
    /\ UNCHANGED <<ses, ex, resp, phase, queue_in, queue_out, running, stops, lost, bad>>

\* An exchange, or the end, or nothing to do yet.
WPop ==
    /\ WorkerAt("locked")
    /\ \/ /\ queue_in # << >>
          /\ w' = [w EXCEPT !.pc = "incref", !.ex = Head(queue_in)]
          /\ queue_in' = Tail(queue_in)
       \/ /\ queue_in = << >>
          /\ Goto(IF running THEN "wait" ELSE "exited")
          /\ UNCHANGED queue_in
    /\ UNCHANGED <<ses, ex, resp, phase, queue_out, running, stops, woken, lost, bad>>

\* pthread_cond_wait lets go of the lock.
WWait ==
    /\ WorkerAt("wait") /\ Goto("waiting")
    /\ UNCHANGED <<ses, ex, resp, phase, queue_in, queue_out, running, stops, woken, lost, bad>>

\* ymo_wsgi_ctx_update_environ: a reference for the context, then
\* ymo_wsgi_session_trylock, which looks at closed before it takes the lock.
WIncref ==
    /\ WorkerAt("incref")
    /\ Store(ExIncref(Mem, w.ex))
    /\ Goto(IF ses[w.ex[1]].closed THEN "refuse" ELSE "trylock")
    /\ UNCHANGED <<resp, phase, queue_in, queue_out, running, stops, woken, lost>>

\* The lock is taken, unless it is held.  A request is refused with the lock in
\* hand if its exchange is done already.
WTryLock ==
    /\ WorkerAt("trylock")
    /\ LET s == w.ex[1] IN
       \/ /\ ~ses[s].lock
          /\ ses' = [ses EXCEPT ![s].lock = TRUE]
          /\ Goto(IF ex[w.ex].done THEN "refuse" ELSE "environ")
       \/ /\ ses[s].lock
          /\ Goto("refuse") /\ UNCHANGED ses
    /\ UNCHANGED <<ex, resp, phase, queue_in, queue_out, running, stops, woken, lost, bad>>

\* Mutant: the lock is kept.
WEnviron_mutant ==
    /\ WorkerAt("environ") /\ Goto("call")
    /\ UNCHANGED <<ses, ex, resp, phase, queue_in, queue_out, running, stops, woken, lost, bad>>

\* The environment is made from the request and the lock is let go of.
WEnviron ==
    /\ WorkerAt("environ")
    /\ ses' = [ses EXCEPT ![w.ex[1]].lock = FALSE]
    /\ bad' = IF ses[w.ex[1]].state \in Held THEN bad ELSE "request"
    /\ Goto("call")
    /\ UNCHANGED <<ex, resp, phase, queue_in, queue_out, running, stops, woken, lost>>

\* ymo_wsgi_worker_issue_request calls the application, which may raise at once:
\* then nothing is queued, and nobody lets go of the worker's reference.
WCall ==
    /\ WorkerAt("call")
    /\ ex' = [ex EXCEPT ![w.ex].done = FALSE]
    /\ \/ Goto("start") /\ UNCHANGED lost
       \/ Goto("dropctx") /\ lost' = lost \cup {w.ex}
    /\ UNCHANGED <<ses, resp, phase, queue_in, queue_out, running, stops, woken, bad>>

\* yimmo_Context_start_response: it raises if the session is closed, and the
\* application with it.
WStart ==
    /\ WorkerAt("start")
    /\ IF ses[w.ex[1]].closed THEN Goto("dropctx") /\ lost' = lost \cup {w.ex}
       ELSE Goto("startlock") /\ UNCHANGED lost
    /\ UNCHANGED <<ses, ex, resp, phase, queue_in, queue_out, running, stops, woken, bad>>

\* ... or if the lock is held; else it fills in the response, whether there still
\* is one or not.
WStartLocked ==
    /\ WorkerAt("startlock")
    /\ LET s == w.ex[1] IN
       \/ /\ ~ses[s].lock
          /\ bad' = IF ses[s].state \in Held THEN bad ELSE "response"
          /\ Goto("items") /\ UNCHANGED lost
       \/ /\ ses[s].lock
          /\ Goto("dropctx") /\ lost' = lost \cup {w.ex} /\ UNCHANGED bad
    /\ UNCHANGED <<ses, ex, resp, phase, queue_in, queue_out, running, stops, woken>>

\* Mutant: the data of the exchange is replaced.
BodyAppend_mutant(items, done) ==
    /\ ex' = [ex EXCEPT ![w.ex].ref = @ + 1, ![w.ex].data = items, ![w.ex].done = done]
    /\ queue_out' = Append(queue_out, w.ex)
    /\ resp' = [resp EXCEPT ![w.ex[1]][ex[w.ex].resp].made = @ \o items]

\* ymo_wsgi_worker_response_body_append, under lock_out.
BodyAppend(items, done) ==
    /\ ex' = [ex EXCEPT ![w.ex].ref = @ + 1, ![w.ex].data = @ \o items, ![w.ex].done = done]
    /\ queue_out' = Append(queue_out, w.ex)
    /\ resp' = [resp EXCEPT ![w.ex[1]][ex[w.ex].resp].made = @ \o items]

\* An item of the iterator; the first to find the session closed is the last.
WItem ==
    /\ WorkerAt("items")
    /\ LET made == resp[w.ex[1]][ex[w.ex].resp].made IN
       /\ Len(made) < MaxBody
       /\ IF ses[w.ex[1]].closed
          THEN Goto("last") /\ UNCHANGED <<ex, queue_out, resp>>
          ELSE BodyAppend(<<Len(made) + 1>>, FALSE) /\ UNCHANGED w
    /\ UNCHANGED <<ses, phase, queue_in, running, stops, woken, lost, bad>>

\* What the application returns is no iterator, a list for one.
WNoIterator ==
    /\ WorkerAt("items") /\ resp[w.ex[1]][ex[w.ex].resp].made = << >>
    /\ Goto("dropctx") /\ lost' = lost \cup {w.ex}
    /\ UNCHANGED <<ses, ex, resp, phase, queue_in, queue_out, running, stops, woken, bad>>

WItemsEnd ==
    /\ WorkerAt("items") /\ Goto("last")
    /\ UNCHANGED <<ses, ex, resp, phase, queue_in, queue_out, running, stops, woken, lost, bad>>

\* The iterator ended: the exchange is done.
WLast ==
    /\ WorkerAt("last")
    /\ BodyAppend(<< >>, TRUE)
    /\ Goto("dropworker")
    /\ UNCHANGED <<ses, phase, queue_in, running, stops, woken, lost, bad>>

\* yimmo_Context_write, for an application that writes once and returns a list:
\* the data and the end in one.
WWrite ==
    /\ WorkerAt("items") /\ resp[w.ex[1]][ex[w.ex].resp].made = << >>
    /\ BodyAppend(<<1>>, TRUE)
    /\ Goto("dropworker")
    /\ UNCHANGED <<ses, phase, queue_in, running, stops, woken, lost, bad>>

\* A reference of the worker is let go of.  If it is the last, the exchange goes
\* to the pool, for which the first of the pool is read before it is set.
WDecref(pc) ==
    LET m == ExDecref(Mem, w.ex) IN
    /\ Store(m)
    /\ w' = IF m.ex[w.ex].live \/ m.bad # "none" \/ ~IsPooled(w.ex) THEN [w EXCEPT !.pc = pc]
            ELSE [w EXCEPT !.pc = "pool", !.pool = m.ses[w.ex[1]].pool]

WDropWorker ==
    /\ WorkerAt("dropworker") /\ WDecref("dropctx")
    /\ UNCHANGED <<resp, phase, queue_in, queue_out, running, stops, woken, lost>>

\* yimmo_Context_dealloc.
WDropContext ==
    /\ WorkerAt("dropctx") /\ WDecref("idle")
    /\ UNCHANGED <<resp, phase, queue_in, queue_out, running, stops, woken, lost>>

\* The request was refused: both references go.
WRefuse ==
    /\ WorkerAt("refuse")
    /\ ex' = [ex EXCEPT ![w.ex].ref = @ - 1] /\ Goto("dropctx")
    /\ UNCHANGED <<ses, resp, phase, queue_in, queue_out, running, stops, woken, lost, bad>>

WToPool ==
    /\ WorkerAt("pool")
    /\ LET s == w.ex[1] IN
       \/ /\ ses[s].state # "freed" /\ ses[s].pool = w.pool
          /\ Store(ToPool(Mem, w.ex))
       \/ /\ ses[s].state = "freed" \/ ses[s].pool # w.pool
          /\ bad' = (IF ses[s].state = "freed" THEN "freed" ELSE "pool") /\ UNCHANGED <<ses, ex>>
    /\ w' = Idle
    /\ UNCHANGED <<resp, phase, queue_in, queue_out, running, stops, woken, lost>>

Worker ==
    \/ WLock \/ WPop \/ WWait \/ WIncref \/ WTryLock \/ WEnviron \/ WCall \/ WStart \/ WStartLocked
    \/ WItem \/ WNoIterator \/ WItemsEnd \/ WLast \/ WWrite \/ WDropWorker \/ WDropContext \/ WRefuse \/ WToPool

WNext ==
    \/ \E s \in Sess : SessionInit(s) \/ RequestCb(s) \/ SessionClose(s) \/ SessionCleanup(s)
    \/ \E s \in Sess : \E e \in Available(s) : HeaderCb(s, e)
    \/ QueueResponses \/ StopWorkers \/ Worker

\* The loop runs its watchers on every turn and a thread that can run does;
\* an application returns.
WFairness ==
    /\ WF_gvars(Worker) /\ WF_gvars(QueueResponses)
    /\ \A s \in Sess : WF_gvars(SessionCleanup(s))

WSpec == WInit /\ [][WNext]_gvars /\ WFairness

-----------------------------------------------------------------------------
(* Properties *)

B2N(b) == IF b THEN 1 ELSE 0
Queued(q, e) == Cardinality({i \in DOMAIN q : q[i] = e})
WithContext == {"trylock", "environ", "call", "start", "startlock", "items", "last", "dropworker", "refuse"}

\* Every reference counted is held by someone and every one held is counted:
\* those of the list, the server, the worker (in the queue, at work, or lost with
\* an application that raised), the context and the entries of queue_out for an
\* exchange (WSGI_EXCHANGE_INCREF and DECREF), those of the connection and the
\* exchanges for a session.  So nothing is freed that somebody still uses.
RefsExact ==
    bad = "none" =>
    /\ \A e \in Exchanges : ex[e].live =>
        ex[e].ref = B2N(e \in Range(ses[e[1]].head)) + B2N(~ex[e].sent) + B2N(e \in lost)
                    + Queued(queue_in, e) + Queued(queue_out, e)
                    + (IF w.ex # e THEN 0
                       ELSE B2N(w.pc \in WithContext \cup {"incref"} /\ e \notin lost)
                            + B2N(w.pc \in WithContext \cup {"dropctx"}))
    /\ \A s \in Sess :
        ses[s].ref = B2N(ses[s].state \in Held)
                     + Cardinality({e \in Exchanges : e[1] = s /\ ex[e].live})

\* What the application made reaches its own response in order, none of it twice
\* or left behind, and the response is finished once and only with all of it
\* (ymo_wsgi_worker_response_body_append, ymo_wsgi_server_queue_responses).
ResponseExact ==
    \A s \in Sess, k \in Requests :
        LET r == resp[s][k] IN
        /\ IsPrefix(r.items, r.made) /\ r.fin <= 1
        /\ r.fin = 1 => r.items = r.made

\* "Trylock fails if session is closed or libyimmo is using it" (the comment in
\* yimmo_Context_start_response): but for the moment in which the environment is
\* made, nobody holds the lock of a session that is open.
LockMeansClosed ==
    \A s \in Sess : ses[s].lock => ses[s].closed \/ (w.pc = "environ" /\ w.ex[1] = s)

\* A request that is queued before the worker has gone is answered, also when the
\* worker is told to stop meanwhile, unless the connection is closed or the
\* application gives no iterator.
Answered ==
    \A s \in Sess :
        (ses[s].state = "open" /\ phase[s].at = "queued" /\ w.pc # "exited")
            ~> (phase[s].at = "done" \/ ses[s].state # "open" \/ bad # "none" \/ \E e \in lost : e[1] = s)
=============================================================================
