----------------------------- MODULE YmoPrefork -----------------------------
(***************************************************************************)
(* The processes of yimmo-wsgi (wsgi/main.c, ymo_wsgi_proc.c,              *)
(* ymo_wsgi_proc_main.h, ymo_wsgi_proc_worker.h) when there are several:   *)
(* the main process forks the workers, restarts those that die and takes   *)
(* them down; the workers share a listening socket and the mutex under     *)
(* which they accept (src/core/ymo_server.c).                              *)
(*                                                                         *)
(* Signals are caught by libev, which calls the watchers from the loop;    *)
(* several SIGCHLD become one event.  A signal whose last watcher was      *)
(* stopped has its default action again, except SIGCHLD, for which libev   *)
(* has a watcher of its own that reaps every child that died.              *)
(***************************************************************************)
EXTENDS Naturals, FiniteSets, FiniteSetsExt

CONSTANTS
    NProc,        \* no_wsgi_proc
    MaxRestarts,  \* YMO_WSGI_PROC_MAX_RESTARTS
    MaxConns,     \* bound: connections that arrive
    MaxSignals    \* bound: SIGINT and SIGTERM sent to the main process

ASSUME PreforkAssumption ==
    NProc \in Nat /\ NProc > 1 /\ MaxRestarts \in Nat /\ MaxConns \in Nat /\ MaxSignals \in Nat

Slots == 1..NProc
Orphaned == NProc + 1   \* the holder of a mutex who died

VARIABLES
    main,     \* [pc, i, term, n, restarts, chld, sig, timer] of the main process
    child,    \* of each entry of children: "none", "failed", "init", "run", "stop", "dead"
    mutex,    \* who holds accept_mutex; 0 is nobody
    backlog,  \* connections to accept
    conns,    \* connections so far
    sent      \* signals sent to the main process so far

pvars == <<main, child, mutex, backlog, conns, sent>>

Alive(i) == child[i] \in {"init", "run", "stop"}
Gone == {"exited", "killed"}   \* the ends of the main process

\* main, up to the loop that forks.
PInitWith(pc) ==
    /\ main = [pc |-> pc, i |-> 1, term |-> FALSE, n |-> NProc, restarts |-> 0,
               chld |-> FALSE, sig |-> FALSE, timer |-> FALSE]
    /\ child = [i \in Slots |-> "none"]
    /\ mutex = 0 /\ backlog = 0 /\ conns = 0 /\ sent = 0

PInit == PInitWith("fork")

-----------------------------------------------------------------------------
(* The main process *)

\* ymo_wsgi_proc_fork_new: a child, or -1.
ForkNew(i) == \E c \in {"init", "failed"} : child' = [child EXCEPT ![i] = c]

MainFork ==
    /\ main.pc = "fork" /\ ForkNew(main.i)
    /\ main' = IF main.i = NProc THEN [main EXCEPT !.pc = "loop"] ELSE [main EXCEPT !.i = @ + 1]
    /\ UNCHANGED <<mutex, backlog, conns, sent>>

\* SIGINT or SIGTERM to the main process: the default action before its watcher
\* is started and while ymo_wsgi_proc_sigchld has it stopped.
Signal ==
    /\ main.pc \notin Gone /\ sent < MaxSignals
    /\ sent' = sent + 1
    /\ main' = IF main.pc \in {"fork", "check"} THEN [main EXCEPT !.pc = "killed"]
               ELSE [main EXCEPT !.sig = TRUE]
    /\ UNCHANGED <<child, mutex, backlog, conns>>

\* SIGTERM: a child that has no watcher yet dies of it.
Terminated(c) ==
    CASE c = "init" -> {"dead", "stop"}
      [] c = "run" -> {"stop"}
      [] OTHER -> {c}

\* Mutant: the last worker is not told.
Told_mutant == 1..(main.n - 1)

\* The entries ymo_wsgi_main_shutdown looks at; -1 stands for every process.
Told == IF \E i \in 1..main.n : child[i] = "failed" THEN Slots ELSE 1..main.n

Kill ==
    child' \in {c \in [Slots -> {"none", "failed", "init", "run", "stop", "dead"}] :
                   \A i \in Slots : c[i] \in IF i \in Told THEN Terminated(child[i]) ELSE {child[i]}}

\* ymo_wsgi_sig_shutdown and ymo_wsgi_main_shutdown.
MainTerm ==
    /\ main.pc = "loop" /\ main.sig
    /\ Kill
    /\ main' = [main EXCEPT !.sig = FALSE, !.term = TRUE, !.timer = TRUE,
                            !.chld = @ \/ \E i \in Slots : child'[i] = "dead" /\ child[i] # "dead"]
    /\ UNCHANGED <<mutex, backlog, conns, sent>>

\* ymo_wsgi_proc_sigchld while the server is taken down.
MainChildTerm ==
    /\ main.pc = "loop" /\ main.chld /\ main.term
    /\ main' = [main EXCEPT !.chld = FALSE, !.n = @ - 1, !.pc = IF main.n = 2 THEN "wait" ELSE @]
    /\ UNCHANGED <<child, mutex, backlog, conns, sent>>

\* ... and while it is not: the watchers are stopped and each entry is looked at.
MainChild ==
    /\ main.pc = "loop" /\ main.chld /\ ~main.term
    /\ main' = [main EXCEPT !.chld = FALSE, !.pc = "check", !.i = 1]
    /\ UNCHANGED <<child, mutex, backlog, conns, sent>>

\* May waitpid(children[i], WNOHANG) be other than 0?  May it be 0?  An entry of
\* -1 asks for any child.
WaitSome(i) ==
    \/ child[i] = "dead"
    \/ child[i] = "failed" /\ (main.chld \/ \A j \in Slots : ~Alive(j))
WaitNone(i) == Alive(i) \/ (child[i] = "failed" /\ \E j \in Slots : Alive(j))

Checked == IF main.i = NProc THEN [main EXCEPT !.pc = "loop"] ELSE [main EXCEPT !.i = @ + 1]

\* Mutant: after one restart the others are left for the next SIGCHLD.
Restart_mutant ==
    /\ main.restarts < MaxRestarts
    /\ main' = [main EXCEPT !.pc = "loop", !.restarts = @ + 1]
    /\ ForkNew(main.i)

Restart ==
    /\ main.restarts < MaxRestarts
    /\ main' = [Checked EXCEPT !.restarts = @ + 1]
    /\ ForkNew(main.i)

\* "Max restarts exceeded. Terminating.": the SIGTERM it sends itself finds no
\* watcher.
GiveUp ==
    /\ main.restarts >= MaxRestarts
    /\ main' = [main EXCEPT !.pc = "killed"]
    /\ UNCHANGED child

MainCheck ==
    /\ main.pc = "check"
    /\ \/ WaitNone(main.i) /\ main' = Checked /\ UNCHANGED child
       \/ WaitSome(main.i) /\ (Restart \/ GiveUp)
    /\ UNCHANGED <<mutex, backlog, conns, sent>>

\* ymo_wsgi_main_pkill: the data of the timer was never set, so nobody is killed.
MainTimer ==
    /\ main.pc = "loop" /\ main.timer
    /\ main' = [main EXCEPT !.timer = FALSE, !.pc = "wait"]
    /\ UNCHANGED <<child, mutex, backlog, conns, sent>>

\* Mutant: it does not wait for the children.
MainTeardown_mutant ==
    /\ main.pc = "wait"
    /\ main' = [main EXCEPT !.pc = "exited"]
    /\ UNCHANGED <<child, mutex, backlog, conns, sent>>

\* main_proc_teardown waits for every child.
MainTeardown ==
    /\ main.pc = "wait" /\ \A i \in Slots : ~Alive(i)
    /\ main' = [main EXCEPT !.pc = "exited"]
    /\ UNCHANGED <<child, mutex, backlog, conns, sent>>

-----------------------------------------------------------------------------
(* The workers *)

Dies(i) ==
    /\ child' = [child EXCEPT ![i] = "dead"]
    /\ main' = IF main.pc \in Gone THEN main ELSE [main EXCEPT !.chld = TRUE]

\* worker_proc_init; if it fails, the process ends.
ChildInit(i) ==
    /\ child[i] = "init"
    /\ \/ child' = [child EXCEPT ![i] = "run"] /\ UNCHANGED main
       \/ Dies(i)
    /\ UNCHANGED <<mutex, backlog, conns, sent>>

\* A worker that crashes, or is killed from outside, may hold the mutex.
ChildCrash(i) ==
    /\ child[i] = "run" /\ Dies(i)
    /\ mutex' = IF mutex = i THEN Orphaned ELSE mutex
    /\ UNCHANGED <<backlog, conns, sent>>

\* ymo_wsgi_worker_shutdown was called: the loop ends with the last connection, or
\* with the timer, whose callback finds no data and crashes.
ChildExit(i) ==
    /\ child[i] = "stop" /\ mutex # i /\ Dies(i)
    /\ UNCHANGED <<mutex, backlog, conns, sent>>

\* Clients connect, and may leave before they are accepted.
Arrive ==
    /\ conns < MaxConns
    /\ conns' = conns + 1 /\ backlog' = backlog + 1
    /\ UNCHANGED <<main, child, mutex, sent>>

Leave ==
    /\ backlog > 0 /\ backlog' = backlog - 1
    /\ UNCHANGED <<main, child, mutex, conns, sent>>

\* ymo_multiproc_accept_cb: trylock; who does not get it is called again.
AcceptLock(i) ==
    /\ child[i] = "run" /\ backlog > 0 /\ mutex = 0
    /\ mutex' = i
    /\ UNCHANGED <<main, child, backlog, conns, sent>>

\* Mutant: an early return when there is nothing to accept leaves it locked
\* with nobody inside.
Accept_mutant(i) ==
    /\ child[i] \in {"run", "stop"} /\ mutex = i
    /\ mutex' = IF backlog > 0 THEN 0 ELSE Orphaned + 1
    /\ backlog' = IF backlog > 0 THEN backlog - 1 ELSE 0
    /\ UNCHANGED <<main, child, conns, sent>>

\* ... accept, which may find nothing, and unlock.
Accept(i) ==
    /\ child[i] \in {"run", "stop"} /\ mutex = i
    /\ mutex' = 0
    /\ backlog' = IF backlog > 0 THEN backlog - 1 ELSE 0
    /\ UNCHANGED <<main, child, conns, sent>>

Main == MainFork \/ MainTerm \/ MainChildTerm \/ MainChild \/ MainCheck \/ MainTimer \/ MainTeardown

\* What a worker does of itself.
WorkerStep(i) == ChildInit(i) \/ ChildExit(i) \/ AcceptLock(i) \/ Accept(i)

PNext ==
    \/ Main \/ Signal \/ Arrive \/ Leave
    \/ \E i \in Slots : WorkerStep(i) \/ ChildCrash(i)

\* Every process runs, the kernel delivers signals, and the timer of a worker
\* that stops fires at last.
PFairness ==
    /\ WF_pvars(Main)
    /\ \A i \in Slots : WF_pvars(WorkerStep(i))

PSpec == PInit /\ [][PNext]_pvars /\ PFairness

-----------------------------------------------------------------------------
(* Properties *)

\* When the main process ends by its own teardown no worker is left behind
\* (main_proc_teardown), however signals, deaths and restarts were mixed.
NoOrphans == main.pc = "exited" => \A i \in Slots : ~Alive(i)

\* A SIGINT or SIGTERM that the main process has caught ends the server: every
\* worker is told and goes, though SIGCHLDs are lost in one another and the
\* timer kills nobody (ymo_wsgi_proc_sigchld, ymo_wsgi_main_pkill).
TermEnds == (main.sig \/ main.term) ~> main.pc \in Gone

\* A worker that dies while the server runs is noticed: it is replaced, or the
\* server ends (ymo_wsgi_proc_sigchld looks at all of them on every SIGCHLD).
Supervised ==
    \A i \in Slots :
        (child[i] = "dead" /\ ~main.term) ~> (child[i] # "dead" \/ main.term \/ main.pc \in Gone)

\* A connection that waits is accepted while a worker runs, unless a worker died
\* between the lock and the unlock of ymo_multiproc_accept_cb.
Accepted ==
    backlog > 0 ~> (backlog = 0 \/ mutex = Orphaned \/ \A i \in Slots : child[i] # "run")
=============================================================================
