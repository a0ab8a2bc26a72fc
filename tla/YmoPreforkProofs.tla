-------------------------- MODULE YmoPreforkProofs --------------------------
(***************************************************************************)
(* Theorems about YmoPrefork, for every number of workers, restarts,       *)
(* connections and signals: no worker outlives the teardown of the main    *)
(* process, and the accept mutex is held by a worker that can release it   *)
(* unless a crash left it behind.                                          *)
(***************************************************************************)
EXTENDS YmoPrefork, TLAPS

USE PreforkAssumption

ChildStates == {"none", "failed", "init", "run", "stop", "dead"}

MainStates ==
    [pc : {"fork", "loop", "check", "wait"} \cup Gone, i : Slots, term : BOOLEAN,
     n : 1..NProc, restarts : 0..MaxRestarts, chld : BOOLEAN, sig : BOOLEAN, timer : BOOLEAN]

\* The types.  n counts the entries of children that the shutdown still looks
\* at: there are two or more as long as the loop of the main process runs.
PreforkType ==
    /\ main \in MainStates
    /\ main.pc \in {"fork", "loop", "check"} => main.n > 1
    /\ child \in [Slots -> ChildStates]
    /\ mutex \in 0..(NProc + 1)
    /\ backlog \in Nat /\ conns \in Nat /\ sent \in Nat

\* A worker that holds the accept mutex is inside ymo_multiproc_accept_cb, so
\* it runs or was told to stop; a holder that died is Orphaned.
MutexHeld == mutex \in Slots => child[mutex] \in {"run", "stop"}

\* While the main process forks, the entries it has not reached are empty.
ForkOrder == main.pc = "fork" => \A j \in Slots : j >= main.i => child[j] = "none"

PreforkInv == PreforkType /\ MutexHeld /\ ForkOrder /\ NoOrphans

-----------------------------------------------------------------------------
\* A signal to the workers (ymo_wsgi_main_shutdown) leaves entries that are
\* entries, moves no worker out of the accept callback and revives nobody.
LEMMA KillKeeps ==
    ASSUME PreforkType, Kill
    PROVE  /\ child' \in [Slots -> ChildStates]
           /\ \A i \in Slots : child[i] \in {"run", "stop"} => child'[i] \in {"run", "stop"}
           /\ \A i \in Slots : ~Alive(i) => child'[i] = child[i]
<1>1. /\ child' \in [Slots -> ChildStates]
      /\ \A i \in Slots : child'[i] \in Terminated(child[i]) \cup {child[i]}
  BY DEF Kill, ChildStates
<1> QED
  BY <1>1 DEF Terminated, Alive

\* A new entry: a process, or -1.
LEMMA ForkKeeps ==
    ASSUME PreforkType, NEW i \in Slots, ForkNew(i)
    PROVE  /\ child' \in [Slots -> ChildStates]
           /\ \A j \in Slots : j # i => child'[j] = child[j]
BY DEF ForkNew, PreforkType, MainStates, ChildStates

\* The death of a worker is noted, unless nobody is there to be told.
LEMMA DiesKeeps ==
    ASSUME PreforkType, NEW i \in Slots, Dies(i)
    PROVE  /\ child' = [child EXCEPT ![i] = "dead"]
           /\ child' \in [Slots -> ChildStates]
           /\ main' \in MainStates
           /\ main'.pc = main.pc /\ main'.i = main.i /\ main'.n = main.n
BY DEF Dies, PreforkType, MainStates, ChildStates, Gone

LEMMA PreforkInitInv == PInit => PreforkInv
BY DEF PInit, PInitWith, PreforkInv, PreforkType, MainStates, MutexHeld, ForkOrder, NoOrphans, Gone, Slots,
       ChildStates

\* Every step of the main process keeps the invariant.
LEMMA MainInv ==
    ASSUME PreforkInv, Main
    PROVE  PreforkInv'
<1> USE DEF PreforkInv
<1>1. CASE MainFork
  <2>1. main.i \in Slots /\ child[main.i] = "none"
    BY <1>1 DEF MainFork, PreforkType, MainStates, ForkOrder, Slots
  <2>2. PreforkType'
    <3>1. CASE main.i = NProc
      BY <1>1, <2>1, <3>1, ForkKeeps DEF MainFork, PreforkType, MainStates
    <3>2. CASE main.i # NProc
      <4>1. main.i + 1 \in Slots
        BY <2>1, <3>2 DEF Slots
      <4> QED
        BY <1>1, <2>1, <3>2, <4>1, ForkKeeps DEF MainFork, PreforkType, MainStates
    <3> QED
      BY <3>1, <3>2
  <2>3. MutexHeld'
    BY <1>1, <2>1, ForkKeeps DEF MainFork, MutexHeld, PreforkType, MainStates
  <2>4. ForkOrder'
    BY <1>1, <2>1, ForkKeeps, SMTT(40) DEF MainFork, ForkOrder, PreforkType, MainStates, Slots
  <2>5. NoOrphans'
    BY <1>1 DEF MainFork, NoOrphans, PreforkType, MainStates
  <2> QED
    BY <2>2, <2>3, <2>4, <2>5
<1>2. CASE MainTerm
  BY <1>2, KillKeeps DEF MainTerm, PreforkType, MainStates, MutexHeld, ForkOrder, NoOrphans
<1>3. CASE MainChildTerm
  <2>0. main.n - 1 \in 1..NProc
    BY <1>3 DEF MainChildTerm, PreforkType, MainStates
  <2>1. CASE main.n = 2
    BY <1>3, <2>0, <2>1 DEF MainChildTerm, PreforkType, MainStates, MutexHeld, ForkOrder, NoOrphans
  <2>2. CASE main.n # 2
    <3>1. main' = [main EXCEPT !.chld = FALSE, !.n = main.n - 1, !.pc = main.pc]
      BY <1>3, <2>2 DEF MainChildTerm
    <3>2. main.n - 1 > 1
      BY <1>3, <2>2 DEF MainChildTerm, PreforkType, MainStates
    <3> QED
      BY <1>3, <2>0, <3>1, <3>2, ZenonT(60)
         DEF MainChildTerm, PreforkType, MainStates, MutexHeld, ForkOrder, NoOrphans
  <2> QED
    BY <2>1, <2>2
<1>4. CASE MainChild
  <2>1. 1 \in Slots
    BY DEF Slots
  <2> QED
    BY <1>4, <2>1 DEF MainChild, PreforkType, MainStates, MutexHeld, ForkOrder, NoOrphans
<1>5. CASE MainCheck
  <2>1. CASE main' = Checked /\ UNCHANGED <<child, mutex, backlog, conns, sent>>
    <3>1. CASE main.i = NProc
      BY <1>5, <2>1, <3>1 DEF MainCheck, Checked, PreforkType, MainStates, MutexHeld, ForkOrder, NoOrphans
    <3>2. CASE main.i # NProc
      <4>1. main.i + 1 \in Slots
        BY <3>2 DEF PreforkType, MainStates, Slots
      <4> QED
        BY <1>5, <2>1, <3>2, <4>1
           DEF MainCheck, Checked, PreforkType, MainStates, MutexHeld, ForkOrder, NoOrphans
    <3> QED
      BY <3>1, <3>2
  <2>2. CASE WaitSome(main.i) /\ Restart
    <3>1. main.i \in Slots /\ child[main.i] \notin {"run", "stop"}
      BY <2>2 DEF WaitSome, PreforkType, MainStates
    <3>2. main.restarts + 1 \in 0..MaxRestarts
      BY <2>2 DEF Restart, PreforkType, MainStates
    <3>3. PreforkType'
      <4>1. CASE main.i = NProc
        BY <1>5, <2>2, <3>1, <3>2, <4>1, ForkKeeps DEF MainCheck, Restart, Checked, PreforkType, MainStates
      <4>2. CASE main.i # NProc
        <5>1. main.i + 1 \in Slots
          BY <3>1, <4>2 DEF Slots
        <5> QED
          BY <1>5, <2>2, <3>1, <3>2, <4>2, <5>1, ForkKeeps
             DEF MainCheck, Restart, Checked, PreforkType, MainStates
      <4> QED
        BY <4>1, <4>2
    <3>4. MutexHeld'
      BY <1>5, <2>2, <3>1, ForkKeeps DEF MainCheck, Restart, MutexHeld, PreforkType, MainStates
    <3>5. main'.pc \in {"loop", "check"}
      BY <1>5, <2>2 DEF MainCheck, Restart, Checked, PreforkType, MainStates
    <3> QED
      BY <3>3, <3>4, <3>5 DEF ForkOrder, NoOrphans
  <2>3. CASE WaitSome(main.i) /\ GiveUp
    BY <1>5, <2>3 DEF MainCheck, GiveUp, PreforkType, MainStates, MutexHeld, ForkOrder, NoOrphans, Gone
  <2> QED
    BY <1>5, <2>1, <2>2, <2>3 DEF MainCheck
<1>6. CASE MainTimer
  BY <1>6 DEF MainTimer, PreforkType, MainStates, MutexHeld, ForkOrder, NoOrphans
<1>7. CASE MainTeardown
  BY <1>7 DEF MainTeardown, PreforkType, MainStates, MutexHeld, ForkOrder, NoOrphans, Gone, Alive
<1> QED
  BY <1>1, <1>2, <1>3, <1>4, <1>5, <1>6, <1>7 DEF Main

\* Every step of a worker keeps the invariant.
LEMMA WorkerInv ==
    ASSUME PreforkInv, NEW i \in Slots, WorkerStep(i) \/ ChildCrash(i)
    PROVE  PreforkInv'
<1> USE DEF PreforkInv
<1>1. CASE ChildInit(i)
  <2>1. child[i] = "init" /\ main.pc # "exited" /\ mutex # i
    BY <1>1 DEF ChildInit, NoOrphans, MutexHeld, Alive
  <2>2. CASE child' = [child EXCEPT ![i] = "run"] /\ UNCHANGED main
    BY <1>1, <2>1, <2>2 DEF ChildInit, PreforkType, MainStates, MutexHeld, ForkOrder, NoOrphans, ChildStates
  <2>3. CASE Dies(i)
    BY <1>1, <2>1, <2>3, DiesKeeps
       DEF ChildInit, PreforkType, MainStates, MutexHeld, ForkOrder, NoOrphans
  <2> QED
    BY <1>1, <2>2, <2>3 DEF ChildInit
<1>2. CASE ChildCrash(i)
  <2>1. child[i] = "run" /\ main.pc # "exited" /\ Orphaned \notin Slots
    BY <1>2 DEF ChildCrash, NoOrphans, Alive, Orphaned, Slots
  <2> QED
    BY <1>2, <2>1, DiesKeeps
       DEF ChildCrash, PreforkType, MainStates, MutexHeld, ForkOrder, NoOrphans, Orphaned
<1>3. CASE ChildExit(i)
  <2>1. child[i] = "stop" /\ main.pc # "exited" /\ mutex # i
    BY <1>3 DEF ChildExit, NoOrphans, Alive
  <2> QED
    BY <1>3, <2>1, DiesKeeps DEF ChildExit, PreforkType, MainStates, MutexHeld, ForkOrder, NoOrphans
<1>4. CASE AcceptLock(i)
  BY <1>4 DEF AcceptLock, PreforkType, MainStates, MutexHeld, ForkOrder, NoOrphans, Alive, Slots
<1>5. CASE Accept(i)
  BY <1>5 DEF Accept, PreforkType, MainStates, MutexHeld, ForkOrder, NoOrphans, Alive, Slots
<1> QED
  BY <1>1, <1>2, <1>3, <1>4, <1>5 DEF WorkerStep

\* Every step keeps the invariant.
LEMMA PreforkNextInv == PreforkInv /\ [PNext]_pvars => PreforkInv'
<1> SUFFICES ASSUME PreforkInv, [PNext]_pvars PROVE PreforkInv'
  OBVIOUS
<1>1. CASE Main
  BY <1>1, MainInv
<1>2. CASE Signal
  <2>1. CASE main.pc \in {"fork", "check"}
    BY <1>2, <2>1 DEF Signal, PreforkInv, PreforkType, MainStates, MutexHeld, ForkOrder, NoOrphans, Gone
  <2>2. CASE main.pc \notin {"fork", "check"}
    <3>1. main' = [main EXCEPT !.sig = TRUE] /\ main.pc # "exited"
      BY <1>2, <2>2 DEF Signal, Gone
    <3>0. sent' = sent + 1 /\ UNCHANGED <<child, mutex, backlog, conns>>
      BY <1>2 DEF Signal
    <3>2. main' \in MainStates /\ main'.n = main.n
      BY <3>1 DEF PreforkInv, PreforkType, MainStates
    <3>3. main'.pc = main.pc
      BY <3>1 DEF PreforkInv, PreforkType, MainStates
    <3> QED
      BY <2>2, <3>0, <3>1, <3>2, <3>3 DEF PreforkInv, PreforkType, MutexHeld, ForkOrder, NoOrphans
  <2> QED
    BY <2>1, <2>2
<1>3. CASE Arrive
  BY <1>3 DEF Arrive, PreforkInv, PreforkType, MainStates, MutexHeld, ForkOrder, NoOrphans, Alive
<1>4. CASE Leave
  BY <1>4 DEF Leave, PreforkInv, PreforkType, MainStates, MutexHeld, ForkOrder, NoOrphans, Alive
<1>5. ASSUME NEW i \in Slots, WorkerStep(i) \/ ChildCrash(i) PROVE PreforkInv'
  BY <1>5, WorkerInv
<1>6. CASE UNCHANGED pvars
  BY <1>6 DEF pvars, PreforkInv, PreforkType, MainStates, MutexHeld, ForkOrder, NoOrphans, Alive
<1> QED
  BY <1>1, <1>2, <1>3, <1>4, <1>5, <1>6 DEF PNext

LEMMA PreforkInvariant == PSpec => []PreforkInv
BY PreforkInitInv, PreforkNextInv, PTL DEF PSpec

\* When the main process has come to the end of main_proc_teardown no worker is
\* alive, whatever forks failed, workers died or were restarted and signals came
\* before, and none comes to life afterwards.
THEOREM NoWorkerOutlivesMain == PSpec => []NoOrphans
BY PreforkInvariant, PTL DEF PreforkInv

\* The accept mutex of ymo_multiproc_accept_cb is never held by a worker that
\* has yet to start, was not forked or has gone, unless it died between the lock
\* and the unlock: the restart of an entry never takes over a lock by its number.
THEOREM MutexHolderRuns == PSpec => []MutexHeld
BY PreforkInvariant, PTL DEF PreforkInv
=============================================================================
