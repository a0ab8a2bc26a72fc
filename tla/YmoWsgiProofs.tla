--------------------------- MODULE YmoWsgiProofs ---------------------------
(***************************************************************************)
(* The threads of a WSGI process, for any number of sessions, exchanges    *)
(* and requests, when no client sends a request before it has the last     *)
(* response: references are counted exactly and no lock is kept.           *)
(*                                                                         *)
(* Nothing is said of a behaviour once bad tells what went wrong, so the   *)
(* invariants are about the states before.                                 *)
(***************************************************************************)
EXTENDS YmoWsgi, FiniteSetTheorems, TLAPS

SesStates == {"none", "open", "closing", "emptying", "closed", "freed"}
Pcs == WithContext \cup {"idle", "locked", "wait", "waiting", "incref", "dropctx", "pool", "exited"}
SesRec == [state : SesStates, ref : Nat, closed : BOOLEAN, lock : BOOLEAN,
           head : Seq(Exchanges), pool : Seq(Exchanges)]
ExRec == [live : BOOLEAN, ref : Nat, done : BOOLEAN, sent : BOOLEAN, data : Seq(Nat), resp : Nat]
WorkerRec == [pc : Pcs, ex : Exchanges \cup {<< >>}, pool : Seq(Exchanges)]
PhaseRec == [req : 0..MaxReqs, at : {"done", "header", "queued"}]

Working == WithContext \cup {"incref"}                   \* with the worker's reference
Using == Working \cup {"dropctx"}                        \* with a reference
Early == Working \ {"dropworker", "refuse"}              \* the application may still add to its response

WsgiType ==
    /\ ses \in [Sess -> SesRec]
    /\ ex \in [Exchanges -> ExRec]
    /\ phase \in [Sess -> PhaseRec]
    /\ queue_in \in Seq(Exchanges) /\ queue_out \in Seq(Exchanges)
    /\ w \in WorkerRec /\ (w.pc \in Using \cup {"pool"} => w.ex \in Exchanges)
    /\ lost \subseteq Exchanges

\* The references of an exchange, by holder.
Listed(e) == ses[e[1]].head = <<e>>
WorkedOn(e) == w.ex = e /\ w.pc \in Working
InHand(e) == Queued(queue_in, e) > 0 \/ WorkedOn(e) \/ e \in lost
WRefs(x, l, e) == IF x.ex # e THEN 0
                  ELSE B2N(x.pc \in Working /\ e \notin l) + B2N(x.pc \in WithContext \cup {"dropctx"})
Refs(e) == B2N(Listed(e)) + B2N(~ex[e].sent) + B2N(e \in lost)
           + Queued(queue_in, e) + Queued(queue_out, e) + WRefs(w, lost, e)
LiveOf(s) == {e \in Exchanges : e[1] = s /\ ex[e].live}

\* An exchange that is live has the references that are held, one that is not has none.
RefInv == \A e \in Exchanges : ex[e].live => ex[e].ref = Refs(e)
DeadInv == \A e \in Exchanges : ~ex[e].live =>
    /\ ~Listed(e) /\ e \notin lost /\ Queued(queue_in, e) = 0 /\ Queued(queue_out, e) = 0
    /\ ~(w.ex = e /\ w.pc \in Using)

\* A session is counted by its connection and its exchanges.
CountInv == \A s \in Sess :
    /\ ses[s].ref = B2N(ses[s].state \in Held) + Cardinality(LiveOf(s))
    /\ ses[s].state \in {"none", "freed"} => ses[s].ref = 0

\* The list of a session has the exchange of its last request until its response
\* is finished or the connection ends.
ListInv ==
    /\ \A s \in Sess :
        /\ ses[s].head = << >> \/ \E e \in Exchanges : e[1] = s /\ ses[s].head = <<e>>
        /\ ses[s].state \notin Held => ses[s].head = << >>
        /\ ses[s].state \in {"closing", "emptying", "closed"} => ses[s].closed
        /\ ses[s].state = "open" => ~ses[s].closed /\ (phase[s].at = "done") = (ses[s].head = << >>)
        /\ ses[s].state = "none" => phase[s].at = "done"
    /\ \A e \in Exchanges : ex[e].live =>
        /\ Listed(e) => ~ex[e].sent
        /\ ses[e[1]].state \in {"open", "closing"} /\ ~ex[e].sent => Listed(e)

\* An exchange of the pool p of a session s is there once and is not in use.
Orderly(p, s, x) ==
    /\ \A i \in 1..Len(p) : p[i][1] = s /\ IsPooled(p[i]) /\ ~x[p[i]].live
    /\ \A i, j \in 1..Len(p) : i # j => p[i] # p[j]
Without(p, e) == \A i \in 1..Len(p) : p[i] # e
PoolInv ==
    /\ \A s \in Sess : Orderly(ses[s].pool, s, ex)
    /\ w.pc = "pool" =>
        /\ IsPooled(w.ex) /\ ~ex[w.ex].live /\ ses[w.ex[1]].state # "none"
        /\ Without(ses[w.ex[1]].pool, w.ex)

\* The worker has an exchange once, and none whose request is not complete.
OnceInv == \A e \in Exchanges :
    /\ Queued(queue_in, e) <= 1
    /\ Queued(queue_in, e) > 0 => ~WorkedOn(e) /\ e \notin lost
    /\ WorkedOn(e) => e \notin lost
    /\ Listed(e) /\ phase[e[1]].at = "header" => ~InHand(e) /\ ~ex[e].done

\* An exchange is done when the application has added all there is, or on close.
Coming(e) == Queued(queue_in, e) > 0 \/ (w.ex = e /\ w.pc \in Early)
DoneInv == \A e \in Exchanges : ex[e].done /\ Coming(e) => ses[e[1]].closed

\* An exchange that the worker has or had is for a request.
NumInv ==
    /\ \A s \in Sess : phase[s].at # "done" => phase[s].req \in Requests
    /\ \A e \in Exchanges : InHand(e) \/ Queued(queue_out, e) > 0 => ex[e].resp \in Requests

WsgiParts ==
    /\ WsgiType /\ RefInv /\ DeadInv /\ CountInv /\ ListInv
    /\ PoolInv /\ OnceInv /\ DoneInv /\ NumInv /\ LockMeansClosed

\* The HTTP responses.
RespRec == [made : Seq(Nat), items : Seq(Nat), fin : Nat]
Blank == [made |-> << >>, items |-> << >>, fin |-> 0]
RespType == resp \in [Sess -> [Requests -> RespRec]]

-----------------------------------------------------------------------------
(* The operators *)

LEMMA ExchangeIs ==
    ASSUME NEW e \in Exchanges
    PROVE  e[1] \in Sess /\ e[2] \in 1..MaxEx
  BY DEF Exchanges

LEMMA B2NIs ==
    ASSUME NEW b
    PROVE  B2N(b) \in Nat /\ (b => B2N(b) = 1) /\ (~b => B2N(b) = 0)
  BY DEF B2N

\* The places of an exchange in a queue are finitely many.
LEMMA PlacesFinite ==
    ASSUME NEW q \in Seq(Exchanges), NEW e
    PROVE  IsFiniteSet({i \in DOMAIN q : q[i] = e})
  <1>1. Len(q) \in Nat /\ DOMAIN q = 1..Len(q)
    OBVIOUS
  <1>2. IsFiniteSet(1..Len(q))
    BY <1>1, FS_Interval
  <1> QED
    BY <1>1, <1>2, FS_Subset

LEMMA QueuedNat ==
    ASSUME NEW q \in Seq(Exchanges), NEW e
    PROVE  Queued(q, e) \in Nat /\ Queued(<< >>, e) = 0
  <1>1. Queued(q, e) \in Nat
    BY PlacesFinite, FS_CardinalityType DEF Queued
  <1>2. {i \in DOMAIN << >> : << >>[i] = e} = {}
    OBVIOUS
  <1> QED
    BY <1>1, <1>2, FS_EmptySet DEF Queued

\* Who is appended is queued once more.
LEMMA QueuedAppend ==
    ASSUME NEW q \in Seq(Exchanges), NEW e \in Exchanges, NEW f
    PROVE  /\ f = e => Queued(Append(q, e), f) = Queued(q, f) + 1
           /\ f # e => Queued(Append(q, e), f) = Queued(q, f)
  <1> DEFINE P == {i \in DOMAIN q : q[i] = f}
             R == {i \in DOMAIN Append(q, e) : Append(q, e)[i] = f}
  <1>1. IsFiniteSet(P)
    BY PlacesFinite
  <1>2. Len(q) + 1 \notin P
    OBVIOUS
  <1>3. f = e => R = P \cup {Len(q) + 1}
    OBVIOUS
  <1>4. f # e => R = P
    OBVIOUS
  <1>5. Cardinality(P \cup {Len(q) + 1}) = Cardinality(P) + 1
    BY <1>1, <1>2, FS_AddElement
  <1> QED
    BY <1>3, <1>4, <1>5 DEF Queued

\* Who is at the head is queued once less in the tail.
LEMMA QueuedTail ==
    ASSUME NEW q \in Seq(Exchanges), q # << >>, NEW f
    PROVE  /\ Head(q) \in Exchanges /\ Tail(q) \in Seq(Exchanges)
           /\ f = Head(q) => Queued(Tail(q), f) = Queued(q, f) - 1 /\ Queued(q, f) > 0
           /\ f # Head(q) => Queued(Tail(q), f) = Queued(q, f)
  <1> DEFINE P == {i \in DOMAIN q : q[i] = f}
             R == {i \in DOMAIN Tail(q) : Tail(q)[i] = f}
             g == [i \in R |-> i + 1]
  <1>0. /\ Len(q) \in Nat \ {0} /\ DOMAIN q = 1..Len(q)
        /\ Tail(q) \in Seq(Exchanges) /\ DOMAIN Tail(q) = 1..(Len(q) - 1)
        /\ \A i \in 1..(Len(q) - 1) : Tail(q)[i] = q[i + 1]
        /\ Head(q) = q[1] /\ Head(q) \in Exchanges
    OBVIOUS
  <1>1. IsFiniteSet(P) /\ IsFiniteSet(R)
    BY <1>0, PlacesFinite
  <1>2. g \in Bijection(R, P \ {1})
    <2>1. g \in [R -> P \ {1}]
      BY <1>0
    <2>2. \A a, b \in R : g[a] = g[b] => a = b
      BY <1>0
    <2>3. \A b \in P \ {1} : \E a \in R : g[a] = b
      <3> TAKE b \in P \ {1}
      <3>1. b - 1 \in R /\ g[b - 1] = b
        BY <1>0
      <3> QED
        BY <3>1
    <2> HIDE DEF P, R, g
    <2> QED
      BY <2>1, <2>2, <2>3 DEF Bijection, Injection, Surjection, IsInjective
  <1>3. Cardinality(R) = Cardinality(P \ {1})
    <2> HIDE DEF P, R, g
    <2>1. ExistsBijection(R, P \ {1})
      BY <1>2 DEF ExistsBijection
    <2> QED
      BY <1>1, <2>1, FS_Bijection
  <1>4. Cardinality(P \ {1}) = IF 1 \in P THEN Cardinality(P) - 1 ELSE Cardinality(P)
    BY <1>1, FS_RemoveElement
  <1>5. 1 \in P <=> f = Head(q)
    BY <1>0
  <1>6. f = Head(q) => Cardinality(P) \in Nat /\ Cardinality(P) # 0
    BY <1>1, <1>5, FS_EmptySet, FS_CardinalityType
  <1> HIDE DEF P, R
  <1>7. Queued(q, f) = Cardinality(P) /\ Queued(Tail(q), f) = Cardinality(R)
    BY DEF Queued, P, R
  <1> QED
    BY <1>0, <1>3, <1>4, <1>5, <1>6, <1>7

\* A session has finitely many exchanges.
LEMMA OfSessionFinite ==
    ASSUME NEW s \in Sess, NEW S \in SUBSET Exchanges, \A e \in S : e[1] = s
    PROVE  IsFiniteSet(S) /\ Cardinality(S) \in Nat
  <1>0. MaxEx \in Int /\ 1 \in Int
    BY WsgiAssumption
  <1>1. IsFiniteSet(1..MaxEx) /\ IsFiniteSet({s})
    BY <1>0, FS_Interval, FS_Singleton
  <1>2. IsFiniteSet({s} \X (1..MaxEx))
    BY <1>1, FS_Product
  <1>3. S \subseteq {s} \X (1..MaxEx)
    BY DEF Exchanges
  <1> QED
    BY <1>2, <1>3, FS_Subset, FS_CardinalityType

\* The references of a worker x, with l the exchanges whose reference is lost.
LEMMA WRefsIs ==
    ASSUME NEW x, NEW l, NEW e
    PROVE  /\ x.ex # e \/ x.pc \notin Using => WRefs(x, l, e) = 0
           /\ x.ex = e /\ x.pc \in WithContext /\ e \notin l => WRefs(x, l, e) = 2
           /\ x.ex = e /\ x.pc = "incref" /\ e \notin l => WRefs(x, l, e) = 1
           /\ x.ex = e /\ x.pc = "dropctx" => WRefs(x, l, e) = 1
           /\ WRefs(x, l, e) \in Nat
  BY DEF WRefs, B2N, Using, Working, WithContext

-----------------------------------------------------------------------------
(* The steps of the worker that only move it *)

\* A worker without an exchange waits or goes on.
LEMMA Quiet ==
    ASSUME WsgiParts, UNCHANGED <<ses, ex, phase, queue_in, queue_out, lost>>,
           w' \in WorkerRec, w.pc \notin Using \cup {"pool", "environ"},
           w'.pc \notin Using \cup {"pool", "environ"}
    PROVE  WsgiParts'
  <1>1. WsgiType'
    BY DEF WsgiParts, WsgiType
  <1>2. RefInv'
    BY WRefsIs DEF WsgiParts, RefInv, Refs, Listed
  <1>3. DeadInv'
    BY DEF WsgiParts, DeadInv, Listed
  <1>4. CountInv' /\ ListInv'
    BY DEF WsgiParts, CountInv, ListInv, LiveOf, Listed
  <1>5. PoolInv'
    BY DEF WsgiParts, PoolInv
  <1>6. OnceInv'
    BY DEF WsgiParts, OnceInv, InHand, WorkedOn, Listed, Using
  <1>7. DoneInv'
    BY DEF WsgiParts, DoneInv, Coming, Using, Early
  <1>8. NumInv' /\ LockMeansClosed'
    BY DEF WsgiParts, NumInv, InHand, WorkedOn, Using, LockMeansClosed
  <1> QED
    BY <1>1, <1>2, <1>3, <1>4, <1>5, <1>6, <1>7, <1>8 DEF WsgiParts

\* ymo_wsgi_worker_main takes an exchange from the queue.
LEMMA Pop ==
    ASSUME WsgiParts, WorkerAt("locked"), queue_in # << >>,
           w' = [w EXCEPT !.pc = "incref", !.ex = Head(queue_in)], queue_in' = Tail(queue_in),
           UNCHANGED <<ses, ex, phase, queue_out, lost>>
    PROVE  WsgiParts'
  <1> DEFINE e0 == Head(queue_in)
  <1>0. /\ e0 \in Exchanges /\ Tail(queue_in) \in Seq(Exchanges)
        /\ Queued(queue_in', e0) = Queued(queue_in, e0) - 1 /\ Queued(queue_in, e0) > 0
        /\ \A e \in Exchanges : e # e0 => Queued(queue_in', e) = Queued(queue_in, e)
        /\ \A e \in Exchanges : Queued(queue_in, e) \in Nat
    BY QueuedTail, QueuedNat DEF WsgiParts, WsgiType
  <1>1. w'.pc = "incref" /\ w'.ex = e0 /\ w' \in WorkerRec /\ w.pc = "locked"
    BY <1>0 DEF WsgiParts, WsgiType, WorkerRec, Pcs, WorkerAt
  <1>a. "locked" \notin Using \cup {"pool"} /\ "incref" \in Working \ WithContext /\ "incref" \in Using \ {"pool"}
    BY DEF Using, Working, WithContext
  <1> HIDE DEF e0
  <1>2. WsgiType'
    BY <1>0, <1>1 DEF WsgiParts, WsgiType
  <1>b. e0 \notin lost /\ Queued(queue_in, e0) = 1
    BY <1>0 DEF WsgiParts, OnceInv
  <1>3. RefInv'
    <2> SUFFICES ASSUME NEW e \in Exchanges, ex[e].live
                 PROVE  ex[e].ref = Refs(e)'
      BY DEF RefInv
    <2>1. WRefs(w, lost, e) = 0
      BY <1>1, <1>a, WRefsIs
    <2>2. (e = e0 => WRefs(w', lost', e) = 1) /\ (e # e0 => WRefs(w', lost', e) = 0)
      <3> DEFINE x == w'  l == lost'
      <3>1. x.ex = e0 /\ x.pc = "incref" /\ e0 \notin l
        BY <1>1, <1>b
      <3> HIDE DEF x, l
      <3>2. (e = e0 => WRefs(x, l, e) = 1) /\ (e # e0 => WRefs(x, l, e) = 0)
        BY <3>1, WRefsIs
      <3> QED
        BY <3>2 DEF x, l
    <2> DEFINE n == B2N(Listed(e)) + B2N(~ex[e].sent) + B2N(e \in lost)
    <2>3. n \in Nat /\ Queued(queue_in, e) \in Nat /\ Queued(queue_out, e) \in Nat
      BY B2NIs, QueuedNat DEF WsgiParts, WsgiType
    <2>4. ex[e].ref = n + Queued(queue_in, e) + Queued(queue_out, e) + WRefs(w, lost, e)
      BY DEF WsgiParts, RefInv, Refs
    <2>5. Refs(e)' = n + Queued(queue_in', e) + Queued(queue_out, e) + WRefs(w', lost', e)
      BY DEF Refs, Listed
    <2> HIDE DEF n
    <2> QED
      BY <1>0, <2>1, <2>2, <2>3, <2>4, <2>5
  <1>4. DeadInv'
    BY <1>0, <1>1, <1>a DEF WsgiParts, DeadInv, Listed
  <1>5. CountInv' /\ ListInv'
    BY DEF WsgiParts, CountInv, ListInv, LiveOf, Listed
  <1>6. PoolInv'
    BY <1>1 DEF WsgiParts, PoolInv
  <1>7. OnceInv'
    BY <1>0, <1>1, <1>a, <1>b DEF WsgiParts, OnceInv, InHand, WorkedOn, Listed, B2N
  <1>8. DoneInv'
    BY <1>0, <1>1 DEF WsgiParts, DoneInv, Coming
  <1>9. NumInv' /\ LockMeansClosed'
    BY <1>0, <1>1 DEF WsgiParts, NumInv, InHand, WorkedOn, LockMeansClosed
  <1> QED
    BY <1>2, <1>3, <1>4, <1>5, <1>6, <1>7, <1>8, <1>9 DEF WsgiParts

\* What a session is but for its lock.
SameSession(s) ==
    /\ ses'[s].state = ses[s].state /\ ses'[s].ref = ses[s].ref /\ ses'[s].closed = ses[s].closed
    /\ ses'[s].head = ses[s].head /\ ses'[s].pool = ses[s].pool

\* Nothing happens to the exchanges that the worker does not have.
OthersKept == \A e \in Exchanges : e # w.ex =>
    ex'[e] = ex[e] /\ Queued(queue_out', e) = Queued(queue_out, e)

\* The worker goes on with its exchange: it may take a reference, let go of one,
\* lose its own or queue the exchange, and its exchange stays live.
LEMMA GoesOn ==
    ASSUME WsgiParts, WsgiType', LockMeansClosed',
           w.pc \in Working, w'.ex = w.ex, w'.pc \in Using,
           \A s \in Sess : SameSession(s), UNCHANGED <<phase, queue_in>>,
           \/ lost' = lost
           \/ lost' = lost \cup {w.ex} /\ w'.pc = "dropctx",
           OthersKept,
           ex'[w.ex].live = ex[w.ex].live, ex'[w.ex].sent = ex[w.ex].sent,
           ex'[w.ex].resp = ex[w.ex].resp,
           ex'[w.ex].ref + WRefs(w, lost, w.ex) + Queued(queue_out, w.ex)
             = ex[w.ex].ref + WRefs(w', lost', w.ex) + B2N(w.ex \in lost') + Queued(queue_out', w.ex),
           ex'[w.ex].done /\ w'.pc \in Early => ses[w.ex[1]].closed
    PROVE  WsgiParts'
  <1> DEFINE e0 == w.ex
  <1>0. e0 \in Exchanges /\ e0[1] \in Sess /\ w'.pc # "pool" /\ w.pc \in Using
    BY ExchangeIs DEF WsgiParts, WsgiType, Using, Working, WithContext
  <1>1. ex[e0].live /\ e0 \notin lost /\ ~(Queued(queue_in, e0) > 0) /\ WorkedOn(e0)
    BY <1>0 DEF WsgiParts, DeadInv, OnceInv, WorkedOn
  <1>2. \A e \in Exchanges : e[1] \in Sess /\ Listed(e)' = Listed(e) /\ ex'[e].live = ex[e].live
                             /\ ex'[e].sent = ex[e].sent
    BY <1>0, ExchangeIs DEF SameSession, Listed, OthersKept
  <1>3. \A e \in Exchanges : e # e0 => (e \in lost' <=> e \in lost)
    OBVIOUS
  <1>4. RefInv'
    <2> SUFFICES ASSUME NEW e \in Exchanges, ex'[e].live
                 PROVE  ex'[e].ref = Refs(e)'
      BY DEF RefInv
    <2>1. ex[e].ref = B2N(Listed(e)) + B2N(~ex[e].sent) + B2N(e \in lost)
                      + Queued(queue_in, e) + Queued(queue_out, e) + WRefs(w, lost, e)
      BY <1>2 DEF WsgiParts, RefInv, Refs
    <2> DEFINE n == B2N(Listed(e)) + B2N(~ex[e].sent)
               c == B2N(e \in lost)
               d == B2N(e \in lost')
    <2>2. Refs(e)' = n + d + Queued(queue_in, e) + Queued(queue_out', e) + WRefs(w', lost', e)
      BY <1>2 DEF Refs
    <2>3. /\ n \in Nat /\ c \in Nat /\ d \in Nat
          /\ Queued(queue_in, e) \in Nat /\ Queued(queue_out, e) \in Nat /\ Queued(queue_out', e) \in Nat
          /\ WRefs(w, lost, e) \in Nat /\ WRefs(w', lost', e) \in Nat
      BY B2NIs, QueuedNat, WRefsIs, SMTT(40) DEF WsgiParts, WsgiType
    <2>4. ex[e].ref \in Nat /\ ex'[e].ref \in Nat
      BY DEF WsgiParts, WsgiType, ExRec
    <2>5. CASE e = e0
      <3>1. c = 0 /\ ex'[e].ref + WRefs(w, lost, e) + Queued(queue_out, e)
                       = ex[e].ref + WRefs(w', lost', e) + d + Queued(queue_out', e)
        BY <2>5, <1>1, B2NIs
      <3> HIDE DEF n, c, d
      <3>2. ex[e].ref = n + c + Queued(queue_in, e) + Queued(queue_out, e) + WRefs(w, lost, e)
        BY <2>1 DEF n, c
      <3> QED
        BY <2>2, <2>3, <2>4, <3>1, <3>2, SMTT(40)
    <2>6. CASE e # e0
      <3>1. WRefs(w, lost, e) = 0 /\ WRefs(w', lost', e) = 0
        BY <2>6, WRefsIs
      <3>2. c = d /\ ex'[e] = ex[e] /\ Queued(queue_out', e) = Queued(queue_out, e)
        <4>1. e \in lost' <=> e \in lost
          BY <2>6, <1>3
        <4> QED
          BY <2>6, <4>1 DEF B2N, OthersKept
      <3> HIDE DEF n, c, d
      <3>3. ex[e].ref = n + c + Queued(queue_in, e) + Queued(queue_out, e) + WRefs(w, lost, e)
        BY <2>1 DEF n, c
      <3> QED
        BY <2>2, <2>3, <2>4, <3>1, <3>2, <3>3
    <2> QED
      BY <2>5, <2>6
  <1>5. DeadInv'
    BY <1>0, <1>1, <1>2, <1>3 DEF WsgiParts, DeadInv, OthersKept
  <1>6. CountInv'
    <2>1. \A s \in Sess : LiveOf(s)' = LiveOf(s)
      BY <1>2 DEF LiveOf
    <2> QED
      BY <2>1 DEF WsgiParts, CountInv, SameSession
  <1>7. ListInv'
    BY <1>2 DEF WsgiParts, ListInv, SameSession
  <1>8. PoolInv'
    <2>1. \A s \in Sess : \A i \in 1..Len(ses[s].pool) : ses[s].pool[i] \in Exchanges
      BY DEF WsgiParts, WsgiType, SesRec
    <2> QED
      BY <1>0, <1>2, <2>1, SMTT(40) DEF WsgiParts, PoolInv, Orderly, SameSession
  <1>9. OnceInv'
    BY <1>0, <1>1, <1>2, <1>3 DEF WsgiParts, OnceInv, InHand, WorkedOn, Using, Working, WithContext, OthersKept
  <1>10. DoneInv'
    <2> SUFFICES ASSUME NEW e \in Exchanges, ex'[e].done, Coming(e)'
                 PROVE  ses'[e[1]].closed
      BY DEF DoneInv
    <2>1. CASE e = e0
      BY <1>0, <1>1, <2>1 DEF Coming, SameSession
    <2>2. CASE e # e0
      BY <1>2, <2>2 DEF WsgiParts, DoneInv, Coming, SameSession, OthersKept
    <2> QED
      BY <2>1, <2>2
  <1>11. NumInv'
    <2>1. \A e \in Exchanges : InHand(e)' \/ Queued(queue_out', e) > 0 => InHand(e) \/ Queued(queue_out, e) > 0
      BY <1>1, <1>3 DEF InHand, WorkedOn, OthersKept
    <2>2. \A e \in Exchanges : ex'[e].resp = ex[e].resp
      BY DEF OthersKept
    <2> QED
      BY <2>1, <2>2 DEF WsgiParts, NumInv
  <1> QED
    BY <1>4, <1>5, <1>6, <1>7, <1>8, <1>9, <1>10, <1>11 DEF WsgiParts

LEMMA StoreIs ==
    ASSUME NEW m, Store(m)
    PROVE  ses' = m.ses /\ ex' = m.ex /\ bad' = m.bad
  BY DEF Store

\* The worker at a place where it has an exchange.
LEMMA AtWork ==
    ASSUME WsgiParts, w.pc \in Using
    PROVE  /\ w \in WorkerRec /\ w.ex \in Exchanges /\ w.ex[1] \in Sess
           /\ ex[w.ex] \in ExRec /\ ex[w.ex].live
           /\ w.pc \in Working => w.ex \notin lost /\ ~(Queued(queue_in, w.ex) > 0)
           /\ w.pc \in WithContext => WRefs(w, lost, w.ex) = 2
           /\ w.pc = "incref" => WRefs(w, lost, w.ex) = 1
           /\ w.pc = "dropctx" => WRefs(w, lost, w.ex) = 1
           /\ B2N(w.ex \in lost) \in Nat
  <1>1. w \in WorkerRec /\ w.ex \in Exchanges /\ w.ex[1] \in Sess /\ ex[w.ex] \in ExRec
    BY ExchangeIs DEF WsgiParts, WsgiType
  <1>2. ex[w.ex].live
    BY <1>1 DEF WsgiParts, DeadInv
  <1>3. w.pc \in Working => w.ex \notin lost /\ ~(Queued(queue_in, w.ex) > 0)
    BY <1>1 DEF WsgiParts, OnceInv, WorkedOn
  <1>4. w.pc \in WithContext \cup {"incref"} => w.pc \in Working
    BY DEF Working
  <1> QED
    BY <1>1, <1>2, <1>3, <1>4, WRefsIs, B2NIs

\* The worker goes on and changes nothing but, perhaps, a lock and what it did with
\* its exchange.
LEMMA MovesOn ==
    ASSUME WsgiParts, w.pc \in WithContext, NEW pc \in WithContext, w' = [w EXCEPT !.pc = pc],
           ses' \in [Sess -> SesRec], \A s \in Sess : SameSession(s), LockMeansClosed',
           NEW b \in BOOLEAN, ex' = [ex EXCEPT ![w.ex].done = b],
           b /\ pc \in Early => ses[w.ex[1]].closed,
           UNCHANGED <<phase, queue_in, queue_out, lost>>
    PROVE  WsgiParts'
  <1>0. w.pc \in Working /\ w.pc \in Using /\ pc \in Using /\ pc \in Pcs
    BY DEF Working, Using, Pcs
  <1>1. /\ w \in WorkerRec /\ w.ex \in Exchanges /\ ex[w.ex] \in ExRec /\ w.ex \notin lost
        /\ WRefs(w, lost, w.ex) = 2
    BY <1>0, AtWork
  <1>2. w'.pc = pc /\ w'.ex = w.ex /\ w' \in WorkerRec
    BY <1>0, <1>1 DEF WorkerRec
  <1>3. ex \in [Exchanges -> ExRec] /\ ex' \in [Exchanges -> ExRec]
    BY <1>1 DEF WsgiParts, WsgiType, ExRec
  <1>4. /\ ex'[w.ex].live = ex[w.ex].live /\ ex'[w.ex].sent = ex[w.ex].sent
        /\ ex'[w.ex].resp = ex[w.ex].resp
        /\ ex'[w.ex].ref = ex[w.ex].ref /\ ex'[w.ex].done = b
        /\ \A e \in Exchanges : e # w.ex => ex'[e] = ex[e]
    BY <1>1, <1>3 DEF ExRec
  <1>5. WsgiType'
    BY <1>1, <1>2, <1>3 DEF WsgiParts, WsgiType
  <1>6. WRefs(w', lost', w.ex) = 2 /\ B2N(w.ex \in lost') = 0
    BY <1>1, <1>2, WRefsIs, B2NIs
  <1>7. Queued(queue_out', w.ex) = Queued(queue_out, w.ex) /\ Queued(queue_out, w.ex) \in Nat
    BY QueuedNat DEF WsgiParts, WsgiType
  <1>8. ex[w.ex].ref \in Nat
    BY <1>1 DEF ExRec
  <1>9. ex'[w.ex].ref + WRefs(w, lost, w.ex) + Queued(queue_out, w.ex)
             = ex[w.ex].ref + WRefs(w', lost', w.ex) + B2N(w.ex \in lost') + Queued(queue_out', w.ex)
    BY <1>1, <1>4, <1>6, <1>7, <1>8
  <1>10. OthersKept
    BY <1>4 DEF OthersKept
  <1> QED
    BY <1>0, <1>2, <1>4, <1>5, <1>9, <1>10, GoesOn

\* Nobody lets go of the reference of the worker.
LEMMA Loses ==
    ASSUME WsgiParts, w.pc \in WithContext \ {"environ"}, w' = [w EXCEPT !.pc = "dropctx"],
           NEW b \in BOOLEAN, ex' = [ex EXCEPT ![w.ex].done = b], lost' = lost \cup {w.ex},
           UNCHANGED <<ses, phase, queue_in, queue_out>>
    PROVE  WsgiParts'
  <1>0. w.pc \in Working /\ w.pc \in Using /\ "dropctx" \in Using \ Early /\ "dropctx" \in Pcs
    BY DEF Working, Using, Pcs, Early, WithContext
  <1>1. /\ w \in WorkerRec /\ w.ex \in Exchanges /\ ex[w.ex] \in ExRec /\ w.ex \notin lost
        /\ WRefs(w, lost, w.ex) = 2
    BY <1>0, AtWork
  <1>2. w'.pc = "dropctx" /\ w'.ex = w.ex /\ w' \in WorkerRec
    BY <1>0, <1>1 DEF WorkerRec
  <1>3. ex \in [Exchanges -> ExRec] /\ ex' \in [Exchanges -> ExRec]
    BY <1>1 DEF WsgiParts, WsgiType, ExRec
  <1>4. /\ ex'[w.ex].live = ex[w.ex].live /\ ex'[w.ex].sent = ex[w.ex].sent
        /\ ex'[w.ex].resp = ex[w.ex].resp
        /\ ex'[w.ex].ref = ex[w.ex].ref
        /\ \A e \in Exchanges : e # w.ex => ex'[e] = ex[e]
    BY <1>1, <1>3 DEF ExRec
  <1>5. WsgiType'
    BY <1>1, <1>2, <1>3 DEF WsgiParts, WsgiType
  <1>6. WRefs(w', lost', w.ex) = 1 /\ B2N(w.ex \in lost') = 1
    BY <1>1, <1>2, WRefsIs, B2NIs
  <1>7. Queued(queue_out', w.ex) = Queued(queue_out, w.ex) /\ Queued(queue_out, w.ex) \in Nat
    BY QueuedNat DEF WsgiParts, WsgiType
  <1>8. ex[w.ex].ref \in Nat
    BY <1>1 DEF ExRec
  <1>9. ex'[w.ex].ref + WRefs(w, lost, w.ex) + Queued(queue_out, w.ex)
             = ex[w.ex].ref + WRefs(w', lost', w.ex) + B2N(w.ex \in lost') + Queued(queue_out', w.ex)
    BY <1>1, <1>4, <1>6, <1>7, <1>8
  <1>10. OthersKept
    BY <1>4 DEF OthersKept
  <1>11. LockMeansClosed'
    BY <1>2 DEF WsgiParts, LockMeansClosed
  <1>12. \A s \in Sess : SameSession(s)
    BY DEF SameSession
  <1> QED
    BY <1>0, <1>2, <1>4, <1>5, <1>9, <1>10, <1>11, <1>12, GoesOn

LEMMA SetRef ==
    ASSUME NEW x \in [Exchanges -> ExRec], NEW e \in Exchanges, NEW n \in Nat
    PROVE  /\ [x EXCEPT ![e].ref = n] \in [Exchanges -> ExRec]
           /\ \A f \in Exchanges : f # e => [x EXCEPT ![e].ref = n][f] = x[f]
           /\ [x EXCEPT ![e].ref = n][e] = [x[e] EXCEPT !.ref = n]
  BY DEF ExRec

\* A reference is let go of that is not the last.
LEMMA LetsGo ==
    ASSUME WsgiParts, w.pc \in WithContext \ {"environ"}, w' = [w EXCEPT !.pc = "dropctx"],
           ex' = [ex EXCEPT ![w.ex].ref = @ - 1],
           UNCHANGED <<ses, phase, queue_in, queue_out, lost>>
    PROVE  WsgiParts'
  <1>0. w.pc \in Working /\ w.pc \in Using /\ "dropctx" \in Using \ Early /\ "dropctx" \in Pcs
    BY DEF Working, Using, Pcs, Early, WithContext
  <1>1. /\ w \in WorkerRec /\ w.ex \in Exchanges /\ ex[w.ex] \in ExRec /\ w.ex \notin lost
        /\ WRefs(w, lost, w.ex) = 2 /\ ex[w.ex].live
    BY <1>0, AtWork
  <1>2. w'.pc = "dropctx" /\ w'.ex = w.ex /\ w' \in WorkerRec
    BY <1>0, <1>1 DEF WorkerRec
  <1>a. ex[w.ex].ref \in Nat /\ ex[w.ex].ref >= 2
    <2> DEFINE n == B2N(Listed(w.ex)) + B2N(~ex[w.ex].sent) + B2N(w.ex \in lost)
                    + Queued(queue_in, w.ex) + Queued(queue_out, w.ex)
    <2>1. n \in Nat
      BY B2NIs, QueuedNat DEF WsgiParts, WsgiType
    <2>2. ex[w.ex].ref = n + WRefs(w, lost, w.ex)
      BY <1>1 DEF WsgiParts, RefInv, Refs
    <2> HIDE DEF n
    <2> QED
      BY <1>1, <2>1, <2>2
  <1>3. ex \in [Exchanges -> ExRec] /\ ex' \in [Exchanges -> ExRec]
    <2> DEFINE n == ex[w.ex].ref - 1
    <2>1. n \in Nat /\ ex' = [ex EXCEPT ![w.ex].ref = n] /\ ex \in [Exchanges -> ExRec]
      BY <1>a DEF WsgiParts, WsgiType
    <2> HIDE DEF n
    <2> QED
      BY <1>1, <2>1, SetRef
  <1>4. /\ ex'[w.ex].live = ex[w.ex].live /\ ex'[w.ex].sent = ex[w.ex].sent
        /\ ex'[w.ex].resp = ex[w.ex].resp
        /\ ex'[w.ex].ref = ex[w.ex].ref - 1
        /\ \A e \in Exchanges : e # w.ex => ex'[e] = ex[e]
    BY <1>1, <1>3 DEF ExRec
  <1>5. WsgiType'
    BY <1>1, <1>2, <1>3 DEF WsgiParts, WsgiType
  <1>6. WRefs(w', lost', w.ex) = 1 /\ B2N(w.ex \in lost') = 0
    BY <1>1, <1>2, WRefsIs, B2NIs
  <1>7. Queued(queue_out', w.ex) = Queued(queue_out, w.ex) /\ Queued(queue_out, w.ex) \in Nat
    BY QueuedNat DEF WsgiParts, WsgiType
  <1>9. ex'[w.ex].ref + WRefs(w, lost, w.ex) + Queued(queue_out, w.ex)
             = ex[w.ex].ref + WRefs(w', lost', w.ex) + B2N(w.ex \in lost') + Queued(queue_out', w.ex)
    BY <1>1, <1>a, <1>4, <1>6, <1>7
  <1>10. OthersKept
    BY <1>4 DEF OthersKept
  <1>11. LockMeansClosed'
    BY <1>2 DEF WsgiParts, LockMeansClosed
  <1>12. \A s \in Sess : SameSession(s)
    BY DEF SameSession
  <1> QED
    BY <1>0, <1>2, <1>4, <1>5, <1>9, <1>10, <1>11, <1>12, GoesOn

\* A reference for the context is taken.
LEMMA Increfs ==
    ASSUME WsgiParts, w.pc = "incref", NEW pc \in {"trylock", "refuse"}, w' = [w EXCEPT !.pc = pc],
           ex' = [ex EXCEPT ![w.ex].ref = @ + 1],
           UNCHANGED <<ses, phase, queue_in, queue_out, lost>>
    PROVE  WsgiParts'
  <1>0. /\ w.pc \in Working /\ w.pc \in Using /\ w.pc \in Early /\ w.pc # "environ"
        /\ pc \in WithContext /\ pc \in Using /\ pc \in Pcs
    BY DEF Working, Using, Pcs, Early, WithContext
  <1>1. /\ w \in WorkerRec /\ w.ex \in Exchanges /\ ex[w.ex] \in ExRec /\ w.ex \notin lost
        /\ WRefs(w, lost, w.ex) = 1
    BY <1>0, AtWork
  <1>2. w'.pc = pc /\ w'.ex = w.ex /\ w' \in WorkerRec
    BY <1>0, <1>1 DEF WorkerRec
  <1>8. ex[w.ex].ref \in Nat
    BY <1>1 DEF ExRec
  <1>3. ex \in [Exchanges -> ExRec] /\ ex' \in [Exchanges -> ExRec]
    <2> DEFINE n == ex[w.ex].ref + 1
    <2>1. n \in Nat /\ ex' = [ex EXCEPT ![w.ex].ref = n] /\ ex \in [Exchanges -> ExRec]
      BY <1>8 DEF WsgiParts, WsgiType
    <2> HIDE DEF n
    <2> QED
      BY <1>1, <2>1, SetRef
  <1>4. /\ ex'[w.ex].live = ex[w.ex].live /\ ex'[w.ex].sent = ex[w.ex].sent
        /\ ex'[w.ex].resp = ex[w.ex].resp
        /\ ex'[w.ex].ref = ex[w.ex].ref + 1 /\ ex'[w.ex].done = ex[w.ex].done
        /\ \A e \in Exchanges : e # w.ex => ex'[e] = ex[e]
    BY <1>1, <1>3 DEF ExRec
  <1>5. WsgiType'
    BY <1>1, <1>2, <1>3 DEF WsgiParts, WsgiType
  <1>6. WRefs(w', lost', w.ex) = 2 /\ B2N(w.ex \in lost') = 0
    BY <1>0, <1>1, <1>2, WRefsIs, B2NIs
  <1>7. Queued(queue_out', w.ex) = Queued(queue_out, w.ex) /\ Queued(queue_out, w.ex) \in Nat
    BY QueuedNat DEF WsgiParts, WsgiType
  <1>9. ex'[w.ex].ref + WRefs(w, lost, w.ex) + Queued(queue_out, w.ex)
             = ex[w.ex].ref + WRefs(w', lost', w.ex) + B2N(w.ex \in lost') + Queued(queue_out', w.ex)
    BY <1>1, <1>4, <1>6, <1>7, <1>8
  <1>10. OthersKept
    BY <1>4 DEF OthersKept
  <1>11. LockMeansClosed'
    BY <1>0, <1>2 DEF WsgiParts, LockMeansClosed
  <1>12. \A s \in Sess : SameSession(s)
    BY DEF SameSession
  <1>13. ex'[w.ex].done => ses[w.ex[1]].closed
    BY <1>0, <1>1, <1>4 DEF WsgiParts, DoneInv, Coming
  <1> QED
    BY <1>0, <1>2, <1>4, <1>5, <1>9, <1>10, <1>11, <1>12, <1>13, GoesOn

LEMMA KeepsRefs ==
    ASSUME w.ex \notin lost, lost' = lost, w'.ex = w.ex, w'.pc \in WithContext
    PROVE  WRefs(w', lost', w.ex) = 2 /\ B2N(w.ex \in lost') = 0
  BY WRefsIs DEF B2N

\* What ymo_wsgi_worker_response_body_append does to the references.
Queues ==
    /\ ex' \in [Exchanges -> ExRec] /\ \A e \in Exchanges : e # w.ex => ex'[e] = ex[e]
    /\ ex'[w.ex].live = ex[w.ex].live /\ ex'[w.ex].sent = ex[w.ex].sent
    /\ ex'[w.ex].ref = ex[w.ex].ref + 1 /\ ex'[w.ex].resp = ex[w.ex].resp
    /\ queue_out' \in Seq(Exchanges)
    /\ Queued(queue_out', w.ex) = Queued(queue_out, w.ex) + 1
    /\ \A e \in Exchanges : e # w.ex => Queued(queue_out', e) = Queued(queue_out, e)

LEMMA Appends ==
    ASSUME WsgiParts, w.pc \in {"items", "last"}, NEW pc \in {"items", "dropworker"},
           w' = [w EXCEPT !.pc = pc],
           Queues, pc = "dropworker" \/ ~ex'[w.ex].done,
           UNCHANGED <<ses, phase, queue_in, lost>>
    PROVE  WsgiParts'
  <1>0. /\ w.pc \in Working /\ w.pc \in Using /\ w.pc # "environ" /\ w.pc \in WithContext
        /\ pc \in WithContext /\ pc \in Using /\ pc \in Pcs /\ "dropworker" \notin Early
    BY DEF Working, Using, Pcs, Early, WithContext
  <1>1. /\ w \in WorkerRec /\ w.ex \in Exchanges /\ ex[w.ex] \in ExRec /\ w.ex \notin lost
        /\ WRefs(w, lost, w.ex) = 2 /\ ex \in [Exchanges -> ExRec]
    BY <1>0, AtWork DEF WsgiParts, WsgiType
  <1>2. w'.pc = pc /\ w'.ex = w.ex /\ w' \in WorkerRec
    BY <1>0, <1>1 DEF WorkerRec
  <1>8. ex[w.ex].ref \in Nat
    BY <1>1 DEF ExRec
  <1>4. /\ ex'[w.ex].live = ex[w.ex].live /\ ex'[w.ex].sent = ex[w.ex].sent
        /\ ex'[w.ex].resp = ex[w.ex].resp
    BY DEF Queues
  <1>5. WsgiType'
    BY <1>1, <1>2 DEF WsgiParts, WsgiType, Queues
  <1>6. WRefs(w', lost', w.ex) = 2 /\ B2N(w.ex \in lost') = 0
    BY <1>0, <1>1, <1>2, KeepsRefs
  <1>7. Queued(queue_out, w.ex) \in Nat
    BY QueuedNat DEF WsgiParts, WsgiType
  <1>9. ex'[w.ex].ref + WRefs(w, lost, w.ex) + Queued(queue_out, w.ex)
             = ex[w.ex].ref + WRefs(w', lost', w.ex) + B2N(w.ex \in lost') + Queued(queue_out', w.ex)
    <2>1. ex'[w.ex].ref = ex[w.ex].ref + 1 /\ Queued(queue_out', w.ex) = Queued(queue_out, w.ex) + 1
      BY DEF Queues
    <2> QED
      BY <1>1, <1>6, <1>7, <1>8, <2>1
  <1>10. OthersKept
    BY DEF OthersKept, Queues
  <1>11. LockMeansClosed'
    BY <1>0, <1>2 DEF WsgiParts, LockMeansClosed
  <1>12. \A s \in Sess : SameSession(s)
    BY DEF SameSession
  <1>13. ~(ex'[w.ex].done /\ w'.pc \in Early)
    BY <1>0, <1>2
  <1> QED
    BY <1>0, <1>2, <1>4, <1>5, <1>9, <1>10, <1>11, <1>12, <1>13, GoesOn

LEMMA AppendsBody ==
    ASSUME WsgiParts, w.pc \in {"items", "last"}, NEW pc \in {"items", "dropworker"},
           w' = [w EXCEPT !.pc = pc], NEW items \in Seq(Nat), NEW done \in BOOLEAN,
           BodyAppend(items, done), pc = "dropworker" \/ ~done,
           UNCHANGED <<ses, phase, queue_in, lost>>
    PROVE  WsgiParts'
  <1>1. w.pc \in Using
    BY DEF Using, Working, WithContext
  <1>2. w.ex \in Exchanges /\ ex \in [Exchanges -> ExRec] /\ queue_out \in Seq(Exchanges)
    BY <1>1, AtWork, SMTT(40) DEF WsgiParts, WsgiType
  <1>3. queue_out' = Append(queue_out, w.ex)
    BY DEF BodyAppend
  <1>4. /\ queue_out' \in Seq(Exchanges)
        /\ Queued(queue_out', w.ex) = Queued(queue_out, w.ex) + 1
        /\ \A e \in Exchanges : e # w.ex => Queued(queue_out', e) = Queued(queue_out, e)
    BY <1>2, <1>3, QueuedAppend
  <1>5. ex[w.ex] \in ExRec
    BY <1>2, SMTT(40)
  <1>6. /\ ex'[w.ex] = [ex[w.ex] EXCEPT !.ref = @ + 1, !.data = @ \o items, !.done = done]
        /\ DOMAIN ex' = Exchanges /\ \A e \in Exchanges : e # w.ex => ex'[e] = ex[e]
    BY <1>2, <1>5 DEF BodyAppend, ExRec
  <1>7. ex'[w.ex] \in ExRec
    <2> DEFINE r == ex[w.ex]
               n == r.ref + 1
               d == r.data \o items
    <2>1. n \in Nat /\ d \in Seq(Nat) /\ r \in ExRec
      BY <1>5 DEF ExRec
    <2>2. ex'[w.ex] = [r EXCEPT !.ref = n, !.data = d, !.done = done]
      BY <1>5, <1>6 DEF ExRec
    <2> HIDE DEF r, n, d
    <2> QED
      BY <2>1, <2>2 DEF ExRec
  <1>a. ex' \in [Exchanges -> ExRec]
    <2>1. \A e \in Exchanges : ex'[e] \in ExRec
      BY <1>2, <1>6, <1>7, SMTT(40)
    <2>2. ex' = [e \in Exchanges |-> ex'[e]]
      BY <1>2 DEF BodyAppend
    <2> QED
      BY <2>1, <2>2
  <1>8. /\ ex'[w.ex].live = ex[w.ex].live /\ ex'[w.ex].sent = ex[w.ex].sent
        /\ ex'[w.ex].ref = ex[w.ex].ref + 1 /\ ex'[w.ex].done = done /\ ex'[w.ex].resp = ex[w.ex].resp
    BY <1>5, <1>6 DEF ExRec
  <1>9. Queues
    BY <1>4, <1>6, <1>8, <1>a DEF Queues
  <1> QED
    BY <1>8, <1>9, Appends

LEMMA StepLock == WsgiParts /\ WLock => WsgiParts'
  <1> SUFFICES ASSUME WsgiParts, WLock PROVE WsgiParts'
    OBVIOUS
  <1>1. w \in WorkerRec /\ w' = [w EXCEPT !.pc = "locked"] /\ w.pc \in {"idle", "waiting"}
    BY DEF WLock, WorkerAt, Goto, WsgiParts, WsgiType
  <1>2. /\ w' \in WorkerRec /\ w'.pc = "locked"
        /\ \A pc \in {"idle", "waiting", "locked"} : pc \notin Using \cup {"pool", "environ"}
    BY <1>1 DEF WorkerRec, Pcs, Using, Working, WithContext
  <1> QED
    BY <1>1, <1>2, Quiet DEF WLock

LEMMA StepPop == WsgiParts /\ WPop => WsgiParts'
  <1> SUFFICES ASSUME WsgiParts, WPop PROVE WsgiParts'
    OBVIOUS
  <1>1. CASE queue_in # << >>
    BY <1>1, Pop DEF WPop
  <1>2. CASE queue_in = << >>
    <2>1. w \in WorkerRec /\ \E pc \in {"wait", "exited"} : w' = [w EXCEPT !.pc = pc]
      BY <1>2 DEF WPop, WorkerAt, Goto, WsgiParts, WsgiType
    <2>2. w.pc = "locked" /\ UNCHANGED <<ses, ex, phase, queue_in, queue_out, lost>>
      BY <1>2 DEF WPop, WorkerAt
    <2>3. /\ w' \in WorkerRec /\ w'.pc \in {"wait", "exited"}
          /\ \A pc \in {"wait", "exited", "locked"} : pc \notin Using \cup {"pool", "environ"}
      BY <2>1 DEF WorkerRec, Pcs, Using, Working, WithContext
    <2> QED
      BY <2>2, <2>3, Quiet
  <1> QED
    BY <1>1, <1>2

LEMMA StepWait == WsgiParts /\ WWait => WsgiParts'
  <1> SUFFICES ASSUME WsgiParts, WWait PROVE WsgiParts'
    OBVIOUS
  <1>1. w \in WorkerRec /\ w' = [w EXCEPT !.pc = "waiting"] /\ w.pc = "wait"
    BY DEF WWait, WorkerAt, Goto, WsgiParts, WsgiType
  <1>2. /\ w' \in WorkerRec /\ w'.pc = "waiting"
        /\ \A pc \in {"wait", "waiting"} : pc \notin Using \cup {"pool", "environ"}
    BY <1>1 DEF WorkerRec, Pcs, Using, Working, WithContext
  <1> QED
    BY <1>1, <1>2, Quiet DEF WWait

LEMMA StepIncref == WsgiParts /\ WIncref => WsgiParts'
  <1> SUFFICES ASSUME WsgiParts, WIncref PROVE WsgiParts'
    OBVIOUS
  <1>1. ses' = ses /\ ex' = [ex EXCEPT ![w.ex].ref = @ + 1]
    <2>1. ses' = ExIncref(Mem, w.ex).ses /\ ex' = ExIncref(Mem, w.ex).ex
      BY StoreIs DEF WIncref
    <2> QED
      BY <2>1 DEF ExIncref, Mem
  <1>2. \E pc \in {"trylock", "refuse"} : w' = [w EXCEPT !.pc = pc]
    BY DEF WIncref, Goto
  <1>3. w.pc = "incref" /\ UNCHANGED <<phase, queue_in, queue_out, lost>>
    BY DEF WIncref, WorkerAt
  <1> QED
    BY <1>1, <1>2, <1>3, Increfs

\* The exchange whose fields are left as they are.
LEMMA SameDone ==
    ASSUME WsgiParts, w.pc \in WithContext, ex' = ex
    PROVE  ex' = [ex EXCEPT ![w.ex].done = ex[w.ex].done] /\ ex[w.ex].done \in BOOLEAN
  <1>1. w.pc \in Using
    BY DEF Using, Working
  <1>2. ex \in [Exchanges -> ExRec] /\ w.ex \in Exchanges
    BY <1>1, AtWork DEF WsgiParts, WsgiType
  <1> QED
    BY <1>2 DEF ExRec

\* A worker that moves from where it may be done only on close.
LEMMA StepMove ==
    ASSUME WsgiParts, w.pc \in (WithContext \cap Early) \ {"environ"},
           NEW pc \in WithContext, w' = [w EXCEPT !.pc = pc],
           UNCHANGED <<ses, ex, phase, queue_in, queue_out, lost>>
    PROVE  WsgiParts'
  <1>1. w.pc \in WithContext /\ w.pc \in Using
    BY DEF Using, Working
  <1>2. w \in WorkerRec /\ w.ex \in Exchanges
    BY <1>1, AtWork
  <1>3. ses' \in [Sess -> SesRec] /\ \A s \in Sess : SameSession(s)
    BY DEF WsgiParts, WsgiType, SameSession
  <1>4. LockMeansClosed'
    BY <1>2 DEF WsgiParts, LockMeansClosed, WorkerRec
  <1>5. ex[w.ex].done => ses[w.ex[1]].closed
    BY <1>2 DEF WsgiParts, DoneInv, Coming
  <1> QED
    BY <1>1, <1>3, <1>4, <1>5, SameDone, MovesOn

LEMMA StepTryLock == WsgiParts /\ WTryLock => WsgiParts'
  <1> SUFFICES ASSUME WsgiParts, WTryLock PROVE WsgiParts'
    OBVIOUS
  <1>0. /\ w.pc = "trylock" /\ w.pc \in (WithContext \cap Early) \ {"environ"} /\ w.pc \in Using
        /\ "refuse" \in WithContext \ Early /\ "environ" \in WithContext
    BY DEF WTryLock, WorkerAt, WithContext, Early, Working, Using
  <1>1. w \in WorkerRec /\ w.ex \in Exchanges /\ w.ex[1] \in Sess
    BY <1>0, AtWork
  <1>2. CASE ses[w.ex[1]].lock
    <2>1. w' = [w EXCEPT !.pc = "refuse"] /\ UNCHANGED <<ses, ex, phase, queue_in, queue_out, lost>>
      BY <1>2 DEF WTryLock, Goto
    <2> QED
      BY <1>0, <2>1, StepMove
  <1>3. CASE ~ses[w.ex[1]].lock
    <2>1. /\ ses' = [ses EXCEPT ![w.ex[1]].lock = TRUE]
          /\ ex' = ex /\ UNCHANGED <<phase, queue_in, queue_out, lost>>
      BY <1>3 DEF WTryLock
    <2>2. PICK pc \in {"refuse", "environ"} : w' = [w EXCEPT !.pc = pc] /\ (pc = "refuse" <=> ex[w.ex].done)
      BY <1>3 DEF WTryLock, Goto
    <2>3. ses' \in [Sess -> SesRec] /\ \A s \in Sess : SameSession(s)
      BY <1>1, <2>1, ZenonT(60) DEF WsgiParts, WsgiType, SameSession, SesRec
    <2>4. ex[w.ex].done => ses[w.ex[1]].closed
      BY <1>0, <1>1 DEF WsgiParts, DoneInv, Coming
    <2>5. LockMeansClosed'
      <3> SUFFICES ASSUME NEW s \in Sess, ses'[s].lock
                   PROVE  ses'[s].closed \/ (w'.pc = "environ" /\ w'.ex[1] = s)
        BY DEF LockMeansClosed
      <3>1. w'.ex = w.ex /\ w'.pc = pc
        BY <1>1, <2>2 DEF WorkerRec
      <3>2. CASE s = w.ex[1]
        BY <2>2, <2>3, <2>4, <3>1, <3>2 DEF SameSession
      <3>3. CASE s # w.ex[1]
        <4>1. ses'[s] = ses[s]
          BY <2>1, <3>3 DEF WsgiParts, WsgiType
        <4> QED
          BY <4>1, <1>0 DEF WsgiParts, LockMeansClosed
      <3> QED
        BY <3>2, <3>3
    <2>6. pc \in WithContext
      BY <1>0
    <2> QED
      BY <1>0, <2>1, <2>2, <2>3, <2>4, <2>5, <2>6, SameDone, MovesOn
  <1> QED
    BY <1>2, <1>3

LEMMA StepEnviron == WsgiParts /\ WEnviron => WsgiParts'
  <1> SUFFICES ASSUME WsgiParts, WEnviron PROVE WsgiParts'
    OBVIOUS
  <1>0. w.pc = "environ" /\ w.pc \in WithContext \cap Early /\ w.pc \in Using /\ "call" \in WithContext
    BY DEF WEnviron, WorkerAt, WithContext, Early, Working, Using
  <1>1. w \in WorkerRec /\ w.ex \in Exchanges /\ w.ex[1] \in Sess
    BY <1>0, AtWork
  <1>2. /\ ses' = [ses EXCEPT ![w.ex[1]].lock = FALSE] /\ w' = [w EXCEPT !.pc = "call"]
        /\ ex' = ex /\ UNCHANGED <<phase, queue_in, queue_out, lost>>
    BY DEF WEnviron, Goto
  <1>3. ses' \in [Sess -> SesRec] /\ \A s \in Sess : SameSession(s)
    BY <1>1, <1>2, ZenonT(60) DEF WsgiParts, WsgiType, SameSession, SesRec
  <1>4. LockMeansClosed'
    <2> SUFFICES ASSUME NEW s \in Sess, ses'[s].lock
                 PROVE  ses'[s].closed
      BY DEF LockMeansClosed
    <2>1. s # w.ex[1] /\ ses'[s] = ses[s]
      BY <1>2 DEF WsgiParts, WsgiType, SesRec
    <2> QED
      BY <2>1 DEF WsgiParts, LockMeansClosed
  <1>5. ex[w.ex].done => ses[w.ex[1]].closed
    BY <1>0, <1>1 DEF WsgiParts, DoneInv, Coming
  <1> QED
    BY <1>0, <1>2, <1>3, <1>4, <1>5, SameDone, MovesOn

LEMMA StepCall == WsgiParts /\ WCall => WsgiParts'
  <1> SUFFICES ASSUME WsgiParts, WCall PROVE WsgiParts'
    OBVIOUS
  <1>0. w.pc = "call" /\ w.pc \in WithContext \ {"environ"} /\ w.pc \in Using /\ "start" \in WithContext
    BY DEF WCall, WorkerAt, WithContext, Working, Using
  <1>1. w \in WorkerRec /\ w.ex \in Exchanges
    BY <1>0, AtWork
  <1>2. ex' = [ex EXCEPT ![w.ex].done = FALSE] /\ UNCHANGED <<ses, phase, queue_in, queue_out>>
    BY DEF WCall
  <1>3. CASE w' = [w EXCEPT !.pc = "start"] /\ lost' = lost
    <2>1. ses' \in [Sess -> SesRec] /\ \A s \in Sess : SameSession(s)
      BY <1>2 DEF WsgiParts, WsgiType, SameSession
    <2>2. LockMeansClosed'
      BY <1>0, <1>1, <1>2, <1>3 DEF WsgiParts, LockMeansClosed, WorkerRec
    <2>3. UNCHANGED <<phase, queue_in, queue_out, lost>>
      BY <1>2, <1>3
    <2> QED
      BY <1>0, <1>2, <1>3, <2>1, <2>2, <2>3, MovesOn
  <1>4. CASE w' = [w EXCEPT !.pc = "dropctx"] /\ lost' = lost \cup {w.ex}
    BY <1>0, <1>2, <1>4, Loses
  <1> QED
    BY <1>3, <1>4 DEF WCall, Goto

\* The application raised or returned no iterator.
LEMMA StepLoses ==
    ASSUME WsgiParts, w.pc \in WithContext \ {"environ"}, w' = [w EXCEPT !.pc = "dropctx"],
           lost' = lost \cup {w.ex}, UNCHANGED <<ses, ex, phase, queue_in, queue_out>>
    PROVE  WsgiParts'
  BY SameDone, Loses

LEMMA StepStart == WsgiParts /\ WStart => WsgiParts'
  <1> SUFFICES ASSUME WsgiParts, WStart PROVE WsgiParts'
    OBVIOUS
  <1>0. /\ w.pc \in WithContext \ {"environ"} /\ w.pc \in (WithContext \cap Early) \ {"environ"}
        /\ "startlock" \in WithContext
    BY DEF WStart, WorkerAt, WithContext, Early, Working
  <1>1. UNCHANGED <<ses, ex, phase, queue_in, queue_out>>
    BY DEF WStart
  <1>2. CASE w' = [w EXCEPT !.pc = "dropctx"] /\ lost' = lost \cup {w.ex}
    BY <1>0, <1>1, <1>2, StepLoses
  <1>3. CASE w' = [w EXCEPT !.pc = "startlock"] /\ lost' = lost
    BY <1>0, <1>1, <1>3, StepMove
  <1> QED
    BY <1>2, <1>3 DEF WStart, Goto

LEMMA StepStartLocked == WsgiParts /\ WStartLocked => WsgiParts'
  <1> SUFFICES ASSUME WsgiParts, WStartLocked PROVE WsgiParts'
    OBVIOUS
  <1>0. /\ w.pc \in WithContext \ {"environ"} /\ w.pc \in (WithContext \cap Early) \ {"environ"}
        /\ "items" \in WithContext
    BY DEF WStartLocked, WorkerAt, WithContext, Early, Working
  <1>1. UNCHANGED <<ses, ex, phase, queue_in, queue_out>>
    BY DEF WStartLocked
  <1>2. CASE w' = [w EXCEPT !.pc = "dropctx"] /\ lost' = lost \cup {w.ex}
    BY <1>0, <1>1, <1>2, StepLoses
  <1>3. CASE w' = [w EXCEPT !.pc = "items"] /\ lost' = lost
    BY <1>0, <1>1, <1>3, StepMove
  <1> QED
    BY <1>2, <1>3 DEF WStartLocked, Goto

LEMMA StepNoIterator == WsgiParts /\ WNoIterator => WsgiParts'
  <1> SUFFICES ASSUME WsgiParts, WNoIterator PROVE WsgiParts'
    OBVIOUS
  <1>0. w.pc \in WithContext \ {"environ"}
    BY DEF WNoIterator, WorkerAt, WithContext
  <1> QED
    BY <1>0, StepLoses DEF WNoIterator, Goto

LEMMA StepItemsEnd == WsgiParts /\ WItemsEnd => WsgiParts'
  <1> SUFFICES ASSUME WsgiParts, WItemsEnd PROVE WsgiParts'
    OBVIOUS
  <1>0. w.pc \in (WithContext \cap Early) \ {"environ"} /\ "last" \in WithContext
    BY DEF WItemsEnd, WorkerAt, WithContext, Early, Working
  <1> QED
    BY <1>0, StepMove DEF WItemsEnd, Goto

\* The response that the worker's exchange is for.
LEMMA RespIs ==
    ASSUME WsgiParts, RespType, w.pc \in Working
    PROVE  /\ w.ex \in Exchanges /\ w.ex[1] \in Sess /\ ex[w.ex].resp \in Requests
           /\ resp[w.ex[1]][ex[w.ex].resp] \in RespRec
  <1>1. w.pc \in Using
    BY DEF Using
  <1>2. w.ex \in Exchanges /\ w.ex[1] \in Sess
    BY <1>1, AtWork
  <1>3. ex[w.ex].resp \in Requests
    BY <1>2 DEF WsgiParts, NumInv, InHand, WorkedOn
  <1> QED
    BY <1>2, <1>3 DEF RespType

LEMMA OneMore ==
    ASSUME NEW q \in Seq(Nat)
    PROVE  <<Len(q) + 1>> \in Seq(Nat)
  OBVIOUS

LEMMA StepItem == WsgiParts /\ RespType /\ WItem => WsgiParts'
  <1> SUFFICES ASSUME WsgiParts, RespType, WItem PROVE WsgiParts'
    OBVIOUS
  <1>0. /\ w.pc = "items" /\ w.pc \in (WithContext \cap Early) \ {"environ"} /\ "last" \in WithContext
        /\ w.pc \in Working
    BY DEF WItem, WorkerAt, WithContext, Early, Working
  <1>1. UNCHANGED <<ses, phase, queue_in, lost>>
    BY DEF WItem
  <1>2. CASE w' = [w EXCEPT !.pc = "last"] /\ UNCHANGED <<ex, queue_out>>
    BY <1>0, <1>1, <1>2, StepMove
  <1>3. CASE w' = w /\ BodyAppend(<<Len(resp[w.ex[1]][ex[w.ex].resp].made) + 1>>, FALSE)
    <2>1. resp[w.ex[1]][ex[w.ex].resp].made \in Seq(Nat)
      BY <1>0, RespIs DEF RespRec
    <2>2. <<Len(resp[w.ex[1]][ex[w.ex].resp].made) + 1>> \in Seq(Nat)
      BY <2>1, OneMore
    <2>3. w' = [w EXCEPT !.pc = "items"]
      BY <1>0, <1>3 DEF WsgiParts, WsgiType, WorkerRec
    <2> DEFINE items == <<Len(resp[w.ex[1]][ex[w.ex].resp].made) + 1>>
    <2>4. items \in Seq(Nat)
      BY <2>2
    <2>5. BodyAppend(items, FALSE)
      BY <1>3, Zenon
    <2> HIDE DEF items
    <2> QED
      BY <1>0, <1>1, <2>3, <2>4, <2>5, AppendsBody
  <1> QED
    BY <1>2, <1>3 DEF WItem, Goto

LEMMA StepLast == WsgiParts /\ WLast => WsgiParts'
  <1> SUFFICES ASSUME WsgiParts, WLast PROVE WsgiParts'
    OBVIOUS
  <1>1. w.pc = "last" /\ BodyAppend(<< >>, TRUE) /\ w' = [w EXCEPT !.pc = "dropworker"]
    BY DEF WLast, WorkerAt, Goto
  <1>2. << >> \in Seq(Nat) /\ UNCHANGED <<ses, phase, queue_in, lost>>
    BY DEF WLast
  <1> QED
    BY <1>1, <1>2, AppendsBody

LEMMA StepWrite == WsgiParts /\ WWrite => WsgiParts'
  <1> SUFFICES ASSUME WsgiParts, WWrite PROVE WsgiParts'
    OBVIOUS
  <1>1. w.pc = "items" /\ BodyAppend(<<1>>, TRUE) /\ w' = [w EXCEPT !.pc = "dropworker"]
    BY DEF WWrite, WorkerAt, Goto
  <1>2. <<1>> \in Seq(Nat) /\ UNCHANGED <<ses, phase, queue_in, lost>>
    BY DEF WWrite
  <1> QED
    BY <1>1, <1>2, AppendsBody

LEMMA StepRefuse == WsgiParts /\ WRefuse => WsgiParts'
  <1> SUFFICES ASSUME WsgiParts, WRefuse PROVE WsgiParts'
    OBVIOUS
  <1>0. w.pc \in WithContext \ {"environ"}
    BY DEF WRefuse, WorkerAt, WithContext
  <1> QED
    BY <1>0, LetsGo DEF WRefuse, Goto

-----------------------------------------------------------------------------
(* A reference is let go of *)

Ends == {"none", "freed", "request", "response", "pool"}
MemRec == [ses : [Sess -> SesRec], ex : [Exchanges -> ExRec], bad : Ends]
FreedSession == [NoSession EXCEPT !.state = "freed"]

LEMMA Freed ==
    /\ NoExchange \in ExRec /\ ~NoExchange.live
    /\ FreedSession \in SesRec /\ FreedSession.state = "freed" /\ FreedSession.ref = 0
    /\ FreedSession.head = << >> /\ FreedSession.pool = << >> /\ ~FreedSession.lock
  <1>1. NoExchange \in ExRec /\ ~NoExchange.live
    <2>1. << >> \in Seq(Nat) /\ 0 \in Nat /\ FALSE \in BOOLEAN
      OBVIOUS
    <2>2. NoExchange \in ExRec
      BY <2>1 DEF NoExchange, ExRec
    <2>3. NoExchange.live = FALSE
      BY DEF NoExchange
    <2> QED
      BY <2>2, <2>3
  <1>2. /\ NoSession \in SesRec /\ NoSession.lock = FALSE /\ NoSession.ref = 0
        /\ NoSession.head = << >> /\ NoSession.pool = << >>
    <2>1. /\ << >> \in Seq(Exchanges) /\ 0 \in Nat /\ FALSE \in BOOLEAN
          /\ "freed" \in SesStates /\ "none" \in SesStates
      BY DEF SesStates
    <2> QED
      BY <2>1 DEF NoSession, SesRec
  <1>3. FreedSession \in SesRec
    BY <1>2 DEF FreedSession, SesRec, SesStates
  <1>4. /\ FreedSession.state = "freed" /\ FreedSession.ref = 0
        /\ FreedSession.head = << >> /\ FreedSession.pool = << >>
    BY <1>2 DEF FreedSession, SesRec
  <1>5. FreedSession.lock = FALSE
    BY <1>2 DEF FreedSession, SesRec
  <1> QED
    BY <1>1, <1>3, <1>4, <1>5

\* ymo_wsgi_exchange_decref, when the reference is not the last.
LEMMA DecrefMany ==
    ASSUME NEW m \in MemRec, NEW e \in Exchanges, m.ex[e].ref > 1, m.ex[e].live
    PROVE  /\ ExDecref(m, e).ses = m.ses /\ ExDecref(m, e).bad = m.bad
           /\ ExDecref(m, e).ex = [m.ex EXCEPT ![e].ref = @ - 1]
           /\ ExDecref(m, e).ex[e].live /\ ExDecref(m, e) \in MemRec
           /\ LoopDecref(m, e) = ExDecref(m, e)
  <1>1. ExDecref(m, e) = [m EXCEPT !.ex[e].ref = @ - 1]
    BY DEF ExDecref
  <1>2. /\ ExDecref(m, e).ses = m.ses /\ ExDecref(m, e).bad = m.bad
        /\ ExDecref(m, e).ex = [m.ex EXCEPT ![e].ref = @ - 1]
    BY <1>1 DEF MemRec
  <1>3. m.ex \in [Exchanges -> ExRec] /\ m.ex[e].ref \in Nat
    BY DEF MemRec, ExRec
  <1>4. [m.ex EXCEPT ![e].ref = @ - 1] \in [Exchanges -> ExRec] /\ [m.ex EXCEPT ![e].ref = @ - 1][e].live
    <2> DEFINE n == m.ex[e].ref - 1
    <2>1. n \in Nat /\ [m.ex EXCEPT ![e].ref = @ - 1] = [m.ex EXCEPT ![e].ref = n]
      BY <1>3
    <2> HIDE DEF n
    <2>2. [m.ex EXCEPT ![e].ref = n] \in [Exchanges -> ExRec] /\ [m.ex EXCEPT ![e].ref = n][e] = [m.ex[e] EXCEPT !.ref = n]
      BY <1>3, <2>1, SetRef
    <2>3. [m.ex[e] EXCEPT !.ref = n].live = m.ex[e].live
      BY <1>3 DEF ExRec
    <2> QED
      BY <2>1, <2>2, <2>3
  <1>5. ExDecref(m, e) \in MemRec
    <2>1. ExDecref(m, e) = [m EXCEPT !.ex = [m.ex EXCEPT ![e].ref = @ - 1]]
      BY <1>1
    <2> QED
      BY <2>1, <1>4 DEF MemRec
  <1>6. LoopDecref(m, e) = ExDecref(m, e)
    BY <1>2, <1>4 DEF LoopDecref
  <1> QED
    BY <1>2, <1>4, <1>5, <1>6

\* ... and when it is.
LEMMA DecrefLast ==
    ASSUME NEW m \in MemRec, NEW e \in Exchanges, ~(m.ex[e].ref > 1), m.ses[e[1]].state # "freed"
    PROVE  /\ ExDecref(m, e).ex = [m.ex EXCEPT ![e] = NoExchange]
           /\ m.ses[e[1]].ref = 1 =>
                /\ ExDecref(m, e).ses = [m.ses EXCEPT ![e[1]] = FreedSession]
                /\ ExDecref(m, e).bad = IF IsPooled(e) THEN "freed" ELSE m.bad
           /\ m.ses[e[1]].ref # 1 =>
                /\ ExDecref(m, e).ses = [m.ses EXCEPT ![e[1]].ref = @ - 1]
                /\ ExDecref(m, e).bad = m.bad
  <1> DEFINE n1 == [m EXCEPT !.ex[e] = NoExchange]
             n == SesDecref(n1, e[1])
  <1>0. e[1] \in Sess
    BY ExchangeIs
  <1>1. n1.ses = m.ses /\ n1.bad = m.bad /\ n1.ex = [m.ex EXCEPT ![e] = NoExchange] /\ DOMAIN n1 = {"ses", "ex", "bad"}
    BY DEF MemRec
  <1>2. ExDecref(m, e) = IF n.ses[e[1]].state = "freed" /\ IsPooled(e) THEN [n EXCEPT !.bad = "freed"] ELSE n
    BY DEF ExDecref
  <1>3. m.ses \in [Sess -> SesRec]
    BY DEF MemRec
  <1> HIDE DEF n1
  <1>4. CASE m.ses[e[1]].ref = 1
    <2>1. n = [n1 EXCEPT !.ses[e[1]] = FreedSession]
      BY <1>1, <1>4 DEF SesDecref, FreedSession
    <2>2. /\ n.ses = [m.ses EXCEPT ![e[1]] = FreedSession] /\ n.bad = m.bad /\ n.ex = n1.ex
          /\ DOMAIN n = {"ses", "ex", "bad"}
      BY <1>1, <2>1
    <2>3. n.ses[e[1]].state = "freed"
      BY <1>0, <1>3, <2>2, Freed
    <2> HIDE DEF n
    <2>4. CASE IsPooled(e)
      <3>1. ExDecref(m, e) = [n EXCEPT !.bad = "freed"]
        BY <1>2, <2>3, <2>4
      <3> QED
        BY <1>1, <1>4, <2>2, <2>4, <3>1
    <2>5. CASE ~IsPooled(e)
      BY <1>1, <1>2, <1>4, <2>2, <2>5
    <2> QED
      BY <2>4, <2>5
  <1>5. CASE m.ses[e[1]].ref # 1
    <2>1. n = [n1 EXCEPT !.ses[e[1]].ref = @ - 1]
      BY <1>1, <1>5 DEF SesDecref
    <2>2. n.ses = [m.ses EXCEPT ![e[1]].ref = @ - 1] /\ n.bad = m.bad /\ n.ex = n1.ex
      BY <1>1, <2>1
    <2>3. n.ses[e[1]].state = m.ses[e[1]].state
      BY <1>0, <1>3, <2>2 DEF SesRec
    <2> HIDE DEF n
    <2> QED
      BY <1>1, <1>2, <1>5, <2>2, <2>3
  <1> QED
    BY <1>4, <1>5

\* The last reference of an exchange is let go of: the exchange is gone, and its
\* session has a reference less or is gone too.
Goes(e) ==
    /\ ex' \in [Exchanges -> ExRec] /\ ~ex'[e].live /\ \A f \in Exchanges : f # e => ex'[f] = ex[f]
    /\ ses' \in [Sess -> SesRec] /\ \A t \in Sess : t # e[1] => ses'[t] = ses[t]
Shrinks(s) ==
    /\ ses[s].ref # 1 /\ ses'[s].ref = ses[s].ref - 1
    /\ ses'[s].state = ses[s].state /\ ses'[s].closed = ses[s].closed /\ ses'[s].lock = ses[s].lock
Dies(e) ==
    /\ Goes(e)
    /\ \/ ses[e[1]].ref = 1 /\ ses'[e[1]] = FreedSession
       \/ /\ Shrinks(e[1])
          /\ ses'[e[1]].head = ses[e[1]].head \/ ses'[e[1]].head = << >>
          /\ \/ ses'[e[1]].pool = ses[e[1]].pool
             \/ IsPooled(e) /\ ses'[e[1]].pool = <<e>> \o ses[e[1]].pool

LEMMA LiveCounted ==
    ASSUME WsgiParts, NEW e \in Exchanges, ex[e].live
    PROVE  /\ ses[e[1]].ref \in Nat /\ ses[e[1]].ref > 0 /\ ses[e[1]].state \notin {"none", "freed"}
           /\ ses[e[1]].ref = 1 => ses[e[1]].state \notin Held
  <1> DEFINE s == e[1]
             S == LiveOf(s)
             b == B2N(ses[s].state \in Held)
  <1>1. s \in Sess
    BY ExchangeIs
  <1>2. IsFiniteSet(S) /\ Cardinality(S) \in Nat
    BY <1>1, OfSessionFinite DEF LiveOf
  <1>3. S # {}
    BY DEF LiveOf
  <1>4. Cardinality(S) # 0
    BY <1>2, <1>3, FS_EmptySet
  <1>5. ses[s].ref = b + Cardinality(S) /\ (ses[s].state \in {"none", "freed"} => ses[s].ref = 0)
    BY <1>1 DEF WsgiParts, CountInv
  <1>6. b \in Nat /\ (ses[s].state \in Held => b = 1)
    BY DEF B2N
  <1> HIDE DEF S, b
  <1> QED
    BY <1>2, <1>4, <1>5, <1>6

LEMMA DiesCount ==
    ASSUME WsgiParts, NEW e \in Exchanges, ex[e].live, Dies(e)
    PROVE  CountInv'
  <1> DEFINE s == e[1]
  <1>0. s \in Sess
    BY ExchangeIs
  <1> SUFFICES ASSUME NEW t \in Sess
               PROVE  /\ ses'[t].ref = B2N(ses'[t].state \in Held) + Cardinality(LiveOf(t)')
                      /\ ses'[t].state \in {"none", "freed"} => ses'[t].ref = 0
    BY DEF CountInv
  <1>1. CASE t # s
    <2>1. LiveOf(t)' = LiveOf(t) /\ ses'[t] = ses[t]
      BY <1>1 DEF LiveOf, Dies, Goes
    <2> QED
      BY <2>1 DEF WsgiParts, CountInv
  <1>2. CASE t = s
    <2> DEFINE S == LiveOf(s)
               n == Cardinality(S)
               b == B2N(ses[s].state \in Held)
    <2>1. LiveOf(s)' = S \ {e} /\ e \in S
      BY DEF LiveOf, Dies, Goes
    <2>2. IsFiniteSet(S) /\ n \in Nat
      BY <1>0, OfSessionFinite DEF LiveOf
    <2>3. Cardinality(LiveOf(s)') = n - 1
      BY <2>1, <2>2, FS_RemoveElement, ZenonT(60)
    <2>4. ses[s].ref = b + n /\ b \in Nat
      BY <1>0 DEF WsgiParts, CountInv, B2N
    <2>5. /\ ses[s].ref \in Nat /\ ses[s].ref > 0 /\ ses[s].state \notin {"none", "freed"}
          /\ ses[s].ref = 1 => ses[s].state \notin Held
      BY LiveCounted
    <2>6. CASE ses[s].ref = 1
      <3>1. ses'[s].ref = 0 /\ ses'[s].state = "freed"
        BY <2>6, Freed DEF Dies, Shrinks
      <3>2. b = 0 /\ B2N(ses'[s].state \in Held) = 0
        BY <2>5, <2>6, <3>1 DEF B2N, Held
      <3> DEFINE c == B2N(ses'[s].state \in Held)
      <3> HIDE DEF n, b, S, c
      <3>3. ses'[s].ref = c + (n - 1)
        BY <2>2, <2>4, <2>6, <3>1, <3>2 DEF c
      <3> QED
        BY <1>2, <2>3, <3>1, <3>3 DEF c
    <2>7. CASE ses[s].ref # 1
      <3>1. ses'[s].ref = ses[s].ref - 1 /\ ses'[s].state = ses[s].state
        BY <2>7 DEF Dies, Shrinks
      <3> HIDE DEF n, b, S
      <3>2. ses'[s].ref = b + (n - 1)
        BY <2>2, <2>4, <3>1
      <3> QED
        BY <1>2, <2>3, <2>5, <3>1, <3>2 DEF b
    <2> QED
      BY <2>6, <2>7
  <1> QED
    BY <1>1, <1>2

\* Who is put in front of a pool.
LEMMA Pushed ==
    ASSUME NEW p \in Seq(Exchanges), NEW e \in Exchanges
    PROVE  /\ <<e>> \o p \in Seq(Exchanges) /\ Len(<<e>> \o p) = Len(p) + 1
           /\ (<<e>> \o p)[1] = e
           /\ \A i \in 1..Len(<<e>> \o p) : i # 1 => i - 1 \in 1..Len(p) /\ (<<e>> \o p)[i] = p[i - 1]
  OBVIOUS

LEMMA PushOrderly ==
    ASSUME NEW p \in Seq(Exchanges), NEW s, NEW x, NEW y, NEW e \in Exchanges, Orderly(p, s, x),
           e[1] = s, IsPooled(e), ~y[e].live, Without(p, e), \A f \in Exchanges : f # e => y[f] = x[f]
    PROVE  /\ Orderly(<<e>> \o p, s, y)
           /\ \A f : f # e /\ Without(p, f) => Without(<<e>> \o p, f)
  <1> DEFINE q == <<e>> \o p
  <1>1. /\ Len(p) \in Nat /\ Len(q) = Len(p) + 1 /\ q[1] = e
        /\ \A i \in 1..Len(q) : i # 1 => i - 1 \in 1..Len(p) /\ q[i] = p[i - 1]
        /\ \A i \in 1..Len(p) : p[i] \in Exchanges
    BY Pushed
  <1> HIDE DEF q
  <1>2. \A i \in 1..Len(q) : q[i][1] = s /\ IsPooled(q[i]) /\ ~y[q[i]].live
    <2> TAKE i \in 1..Len(q)
    <2>1. CASE i = 1
      BY <1>1, <2>1
    <2>2. CASE i # 1
      <3>1. i - 1 \in 1..Len(p) /\ q[i] = p[i - 1]
        BY <1>1, <2>2
      <3>2. p[i - 1] # e /\ p[i - 1] \in Exchanges
        BY <1>1, <3>1 DEF Without
      <3>3. p[i - 1][1] = s /\ IsPooled(p[i - 1]) /\ ~x[p[i - 1]].live
        BY <3>1 DEF Orderly
      <3> QED
        BY <3>1, <3>2, <3>3
    <2> QED
      BY <2>1, <2>2
  <1>3. \A i, j \in 1..Len(q) : i # j => q[i] # q[j]
    <2> SUFFICES ASSUME NEW i \in 1..Len(q), NEW j \in 1..Len(q), i # j
                 PROVE  q[i] # q[j]
      OBVIOUS
    <2>1. CASE i = 1
      <3>1. j - 1 \in 1..Len(p) /\ q[j] = p[j - 1]
        BY <1>1, <2>1
      <3> QED
        BY <1>1, <2>1, <3>1 DEF Without
    <2>2. CASE j = 1
      <3>1. i - 1 \in 1..Len(p) /\ q[i] = p[i - 1]
        BY <1>1, <2>2
      <3> QED
        BY <1>1, <2>2, <3>1 DEF Without
    <2>3. CASE i # 1 /\ j # 1
      <3>1. /\ i - 1 \in 1..Len(p) /\ q[i] = p[i - 1]
            /\ j - 1 \in 1..Len(p) /\ q[j] = p[j - 1] /\ i - 1 # j - 1
        BY <1>1, <2>3
      <3> QED
        BY <3>1 DEF Orderly
    <2> QED
      BY <2>1, <2>2, <2>3
  <1>4. ASSUME NEW f, f # e, Without(p, f)
        PROVE  Without(q, f)
    BY <1>1, <1>4 DEF Without
  <1> QED
    BY <1>2, <1>3, <1>4 DEF Orderly, q

LEMMA OrderlyKept ==
    ASSUME NEW p \in Seq(Exchanges), NEW s, NEW x, NEW y, Orderly(p, s, x),
           \A f \in Exchanges : y[f].live => x[f].live
    PROVE  Orderly(p, s, y)
  BY DEF Orderly

LEMMA DiesPool ==
    ASSUME WsgiParts, NEW e \in Exchanges, ex[e].live, Dies(e),
           \/ w'.pc # "pool"
           \/ w' = w
           \/ w'.ex = e /\ IsPooled(e) /\ ses'[e[1]].pool = ses[e[1]].pool
    PROVE  PoolInv'
  <1> DEFINE s == e[1]
             p == ses[s].pool
  <1>0. s \in Sess /\ p \in Seq(Exchanges) /\ Orderly(p, s, ex)
    BY ExchangeIs DEF WsgiParts, WsgiType, SesRec, PoolInv
  <1>1. Without(p, e)
    BY <1>0 DEF Without, Orderly
  <1>2. /\ \A f \in Exchanges : ex'[f].live => ex[f].live
        /\ ~ex'[e].live /\ \A f \in Exchanges : f # e => ex'[f] = ex[f]
    BY DEF Dies, Goes
  <1>3. \A t \in Sess : t # s => ses'[t] = ses[t]
    BY SMTT(40) DEF Dies, Goes
  <1>4. Orderly(ses'[s].pool, s, ex') /\ \A f : f # e /\ Without(p, f) => Without(ses'[s].pool, f)
    <2>1. CASE ses'[s] = FreedSession
      <3>1. ses'[s].pool = << >>
        BY <2>1, Freed
      <3> QED
        BY <3>1 DEF Orderly, Without
    <2>2. CASE ses'[s].pool = p
      BY <1>0, <1>2, <2>2, OrderlyKept
    <2>3. CASE IsPooled(e) /\ ses'[s].pool = <<e>> \o p
      <3> DEFINE y == ex'
      <3> HIDE DEF y, p
      <3>1. ~y[e].live /\ \A f \in Exchanges : f # e => y[f] = ex[f]
        BY <1>2 DEF y
      <3>2. /\ Orderly(<<e>> \o p, s, y)
            /\ \A f : f # e /\ Without(p, f) => Without(<<e>> \o p, f)
        BY <1>0, <1>1, <2>3, <3>1, PushOrderly
      <3> QED
        BY <2>3, <3>2 DEF y
    <2> QED
      BY <2>1, <2>2, <2>3 DEF Dies
  <1>5. \A t \in Sess : Orderly(ses'[t].pool, t, ex')
    <2> TAKE t \in Sess
    <2>1. CASE t = s
      BY <2>1, <1>4
    <2>2. CASE t # s
      <3>1. ses'[t] = ses[t] /\ ses[t].pool \in Seq(Exchanges) /\ Orderly(ses[t].pool, t, ex)
        BY <1>3, <2>2 DEF WsgiParts, WsgiType, SesRec, PoolInv
      <3> QED
        BY <1>2, <3>1, OrderlyKept
    <2> QED
      BY <2>1, <2>2
  <1>6. ses'[s].state # "none"
    BY LiveCounted, Freed DEF Dies, Shrinks
  <1>7. ASSUME w'.pc = "pool"
        PROVE  /\ IsPooled(w'.ex) /\ ~ex'[w'.ex].live /\ ses'[w'.ex[1]].state # "none"
               /\ Without(ses'[w'.ex[1]].pool, w'.ex)
    <2>1. CASE w' = w
      <3>1. /\ w.ex \in Exchanges /\ IsPooled(w.ex) /\ ~ex[w.ex].live /\ ses[w.ex[1]].state # "none"
            /\ Without(ses[w.ex[1]].pool, w.ex) /\ w.ex[1] \in Sess
        BY <1>7, <2>1, ExchangeIs DEF WsgiParts, WsgiType, PoolInv
      <3>2. w.ex # e
        BY <3>1
      <3>3. CASE w.ex[1] = s
        BY <1>2, <1>4, <1>6, <2>1, <3>1, <3>2, <3>3
      <3>4. CASE w.ex[1] # s
        BY <1>2, <1>3, <2>1, <3>1, <3>2, <3>4
      <3> QED
        BY <3>3, <3>4
    <2>2. CASE w'.ex = e /\ IsPooled(e) /\ ses'[e[1]].pool = ses[e[1]].pool
      BY <1>1, <1>2, <1>6, <2>2
    <2> QED
      BY <1>7, <2>1, <2>2
  <1> QED
    BY <1>5, <1>7 DEF PoolInv

\* Nobody has a reference to e any more; those to the other exchanges stay.
Unheld(e) ==
    /\ ~Listed(e)' /\ e \notin lost /\ lost' = lost /\ queue_in' = queue_in
    /\ Queued(queue_in, e) = 0 /\ Queued(queue_out', e) = 0 /\ ~(w'.ex = e /\ w'.pc \in Using)
OthersHeld(e) == \A f \in Exchanges : f # e =>
    Queued(queue_out', f) = Queued(queue_out, f) /\ Listed(f)' = Listed(f)
PhaseEnds == \A s \in Sess : phase'[s] = phase[s] \/ (phase'[s].at = "done" /\ phase'[s].req = phase[s].req)

\* A session with another exchange has more references than one.
LEMMA TwoLive ==
    ASSUME WsgiParts, NEW e \in Exchanges, NEW f \in Exchanges, ex[e].live, ex[f].live, e # f, e[1] = f[1]
    PROVE  ses[e[1]].ref # 1
  <1> DEFINE s == e[1]
             S == LiveOf(s)
             b == B2N(ses[s].state \in Held)
  <1>1. s \in Sess
    BY ExchangeIs
  <1>2. IsFiniteSet(S) /\ Cardinality(S) \in Nat
    BY <1>1, OfSessionFinite DEF LiveOf
  <1>3. e \in S /\ f \in S
    BY DEF LiveOf
  <1>4. Cardinality(S) # 0 /\ Cardinality(S) # 1
    BY <1>2, <1>3, FS_EmptySet, FS_Singleton
  <1>5. ses[s].ref = b + Cardinality(S) /\ b \in Nat
    BY <1>1 DEF WsgiParts, CountInv, B2N
  <1> HIDE DEF S, b
  <1> QED
    BY <1>2, <1>4, <1>5

LEMMA DiesRest ==
    ASSUME WsgiParts, NEW e \in Exchanges, ex[e].live, Dies(e), Unheld(e), OthersHeld(e), PhaseEnds,
           \/ w' = w
           \/ w.pc = "dropctx" /\ w.ex = e /\ w'.pc \in {"idle", "pool"}
    PROVE  RefInv' /\ DeadInv' /\ OnceInv' /\ DoneInv' /\ NumInv' /\ LockMeansClosed'
  <1>0. {"dropctx", "idle", "pool"} \cap Working = {} /\ {"idle", "pool"} \cap Using = {} /\ Early \subseteq Working
    BY DEF Working, Using, WithContext, Early
  <1>1. ~ex'[e].live /\ \A f \in Exchanges : f # e => ex'[f] = ex[f]
    BY DEF Dies, Goes
  <1>2. \A f \in Exchanges : f # e => Queued(queue_out', f) = Queued(queue_out, f) /\ Listed(f)' = Listed(f)
    BY DEF OthersHeld
  <1>3. \A f \in Exchanges : f # e => (w'.ex = f /\ w'.pc \in Using <=> w.ex = f /\ w.pc \in Using)
                                    /\ (WorkedOn(f)' <=> WorkedOn(f))
    BY <1>0 DEF WorkedOn, Using
  <1>4. /\ ~Listed(e)' /\ e \notin lost /\ lost' = lost /\ queue_in' = queue_in
        /\ Queued(queue_in, e) = 0 /\ Queued(queue_out', e) = 0 /\ ~(w'.ex = e /\ w'.pc \in Using)
        /\ ~WorkedOn(e)'
    BY DEF Unheld, WorkedOn, Using
  <1>5. RefInv'
    <2> SUFFICES ASSUME NEW f \in Exchanges, ex'[f].live
                 PROVE  ex'[f].ref = Refs(f)'
      BY DEF RefInv
    <2>1. f # e
      BY <1>1
    <2>2. WRefs(w', lost', f) = WRefs(w, lost, f)
      <3>1. CASE w' = w
        BY <1>4, <3>1
      <3>2. CASE w.pc = "dropctx" /\ w.ex = e /\ w'.pc \in {"idle", "pool"}
        <4>1. w.ex # f /\ w'.pc \notin Using
          BY <1>0, <2>1, <3>2
        <4> QED
          BY <4>1, WRefsIs
      <3> QED
        BY <3>1, <3>2
    <2>3. ex'[f] = ex[f] /\ Queued(queue_out', f) = Queued(queue_out, f) /\ Listed(f)' = Listed(f)
      BY <1>1, <1>2, <2>1
    <2>4. Refs(f)' = Refs(f)
      BY <1>4, <2>2, <2>3 DEF Refs
    <2> QED
      BY <2>3, <2>4 DEF WsgiParts, RefInv
  <1>6. DeadInv'
    <2> SUFFICES ASSUME NEW f \in Exchanges, ~ex'[f].live
                 PROVE  /\ ~Listed(f)' /\ f \notin lost' /\ Queued(queue_in', f) = 0 /\ Queued(queue_out', f) = 0
                        /\ ~(w'.ex = f /\ w'.pc \in Using)
      BY DEF DeadInv
    <2>1. CASE f = e
      BY <1>4, <2>1
    <2>2. CASE f # e
      BY <1>1, <1>2, <1>3, <1>4, <2>2 DEF WsgiParts, DeadInv
    <2> QED
      BY <2>1, <2>2
  <1>7. OnceInv'
    <2> SUFFICES ASSUME NEW f \in Exchanges
                 PROVE  /\ Queued(queue_in', f) <= 1
                        /\ Queued(queue_in', f) > 0 => ~WorkedOn(f)' /\ f \notin lost'
                        /\ WorkedOn(f)' => f \notin lost'
                        /\ Listed(f)' /\ phase'[f[1]].at = "header" => ~InHand(f)' /\ ~ex'[f].done
      BY DEF OnceInv
    <2>1. CASE f = e
      BY <1>4, <2>1
    <2>2. CASE f # e
      <3>1. phase'[f[1]].at = "header" => phase[f[1]].at = "header"
        BY ExchangeIs DEF PhaseEnds
      <3>2. InHand(f)' <=> InHand(f)
        BY <1>3, <1>4, <2>2 DEF InHand
      <3> QED
        BY <1>1, <1>2, <1>3, <1>4, <2>2, <3>1, <3>2 DEF WsgiParts, OnceInv
    <2> QED
      BY <2>1, <2>2
  <1>8. DoneInv'
    <2> SUFFICES ASSUME NEW f \in Exchanges, ex'[f].done, Coming(f)'
                 PROVE  ses'[f[1]].closed
      BY DEF DoneInv
    <2>1. f # e
      BY <1>0, <1>4 DEF Coming, WorkedOn
    <2>2. Coming(f) /\ ex[f].done
      BY <1>0, <1>1, <1>3, <1>4, <2>1 DEF Coming, WorkedOn, Using
    <2>3. ex[f].live
      BY <1>0, <2>2 DEF WsgiParts, DeadInv, Coming, Using
    <2>4. ses[f[1]].closed
      BY <2>2 DEF WsgiParts, DoneInv
    <2>5. ses'[f[1]].closed = ses[f[1]].closed
      <3>1. CASE f[1] = e[1]
        <4>1. ses[e[1]].ref # 1
          BY <2>1, <2>3, <3>1, TwoLive
        <4> QED
          BY <3>1, <4>1 DEF Dies, Shrinks
      <3>2. CASE f[1] # e[1]
        BY <3>2, ExchangeIs DEF Dies, Goes
      <3> QED
        BY <3>1, <3>2
    <2> QED
      BY <2>4, <2>5
  <1>9. NumInv'
    <2>1. \A f \in Exchanges : InHand(f)' \/ Queued(queue_out', f) > 0 => ex'[f].resp \in Requests
      <3> SUFFICES ASSUME NEW f \in Exchanges, InHand(f)' \/ Queued(queue_out', f) > 0
                   PROVE  ex'[f].resp \in Requests
        OBVIOUS
      <3>1. f # e
        BY <1>4 DEF InHand
      <3>2. InHand(f) \/ Queued(queue_out, f) > 0
        BY <1>2, <1>3, <1>4, <3>1 DEF InHand
      <3> QED
        BY <1>1, <3>1, <3>2 DEF WsgiParts, NumInv
    <2>2. \A s \in Sess : phase'[s].at # "done" => phase'[s].req \in Requests
      BY DEF WsgiParts, NumInv, PhaseEnds
    <2> QED
      BY <2>1, <2>2 DEF NumInv
  <1>10. LockMeansClosed'
    <2> SUFFICES ASSUME NEW s \in Sess, ses'[s].lock
                 PROVE  ses'[s].closed \/ (w'.pc = "environ" /\ w'.ex[1] = s)
      BY DEF LockMeansClosed
    <2>1. ses'[s] # FreedSession
      BY Freed
    <2>2. ses'[s].lock = ses[s].lock /\ ses'[s].closed = ses[s].closed
      BY <2>1 DEF Dies, Goes, Shrinks
    <2> QED
      BY <2>2 DEF WsgiParts, LockMeansClosed
  <1> QED
    BY <1>5, <1>6, <1>7, <1>8, <1>9, <1>10

LEMMA DiesList ==
    ASSUME WsgiParts, NEW e \in Exchanges, ex[e].live, Dies(e), OthersHeld(e),
           \A t \in Sess : t # e[1] => phase'[t] = phase[t],
           \/ ses'[e[1]] = FreedSession
           \/ phase'[e[1]] = phase[e[1]] /\ ses'[e[1]].head = ses[e[1]].head
           \/ phase'[e[1]].at = "done" /\ ses'[e[1]].head = << >>
    PROVE  ListInv'
  <1> DEFINE s == e[1]
  <1>0. s \in Sess
    BY ExchangeIs
  <1>1. /\ \A t \in Sess : t # s => ses'[t] = ses[t]
        /\ ~ex'[e].live /\ \A f \in Exchanges : f # e => ex'[f] = ex[f] /\ Listed(f)' = Listed(f)
    BY DEF Dies, Goes, OthersHeld
  <1>2. ASSUME NEW t \in Sess
        PROVE  /\ ses'[t].head = << >> \/ \E f \in Exchanges : f[1] = t /\ ses'[t].head = <<f>>
               /\ ses'[t].state \notin Held => ses'[t].head = << >>
               /\ ses'[t].state \in {"closing", "emptying", "closed"} => ses'[t].closed
               /\ ses'[t].state = "open" => ~ses'[t].closed /\ (phase'[t].at = "done") = (ses'[t].head = << >>)
               /\ ses'[t].state = "none" => phase'[t].at = "done"
    <2>1. CASE t # s
      BY <1>1, <1>2, <2>1 DEF WsgiParts, ListInv
    <2>2. CASE t = s /\ ses'[s] = FreedSession
      <3>1. ses'[t].head = << >> /\ ses'[t].state = "freed"
        BY <2>2, Freed
      <3> QED
        BY <3>1
    <2>3. CASE t = s /\ ses'[s] # FreedSession
      <3>1. ses'[s].state = ses[s].state /\ ses'[s].closed = ses[s].closed
        BY <2>3 DEF Dies, Shrinks
      <3>2. CASE phase'[s] = phase[s] /\ ses'[s].head = ses[s].head
        BY <1>0, <2>3, <3>1, <3>2 DEF WsgiParts, ListInv
      <3>3. CASE phase'[s].at = "done" /\ ses'[s].head = << >>
        BY <1>0, <2>3, <3>1, <3>3 DEF WsgiParts, ListInv
      <3> QED
        BY <2>3, <3>2, <3>3
    <2> QED
      BY <2>1, <2>2, <2>3
  <1>3. ASSUME NEW f \in Exchanges, ex'[f].live
        PROVE  /\ Listed(f)' => ~ex'[f].sent
               /\ ses'[f[1]].state \in {"open", "closing"} /\ ~ex'[f].sent => Listed(f)'
    <2>1. f # e /\ ex'[f] = ex[f] /\ Listed(f)' = Listed(f)
      BY <1>1, <1>3
    <2>2. ses'[f[1]].state \in {"open", "closing"} => ses[f[1]].state = ses'[f[1]].state
      <3>1. CASE f[1] = s
        BY <3>1, Freed DEF Dies, Shrinks
      <3>2. CASE f[1] # s
        BY <1>1, <3>2, ExchangeIs
      <3> QED
        BY <3>1, <3>2
    <2> QED
      BY <1>3, <2>1, <2>2 DEF WsgiParts, ListInv
  <1> QED
    BY <1>2, <1>3 DEF ListInv

\* The context has the last reference.
LEMMA OnlyContext ==
    ASSUME WsgiParts, w.pc = "dropctx", ~(ex[w.ex].ref > 1)
    PROVE  /\ ~Listed(w.ex) /\ w.ex \notin lost
           /\ Queued(queue_in, w.ex) = 0 /\ Queued(queue_out, w.ex) = 0
  <1> DEFINE a == B2N(Listed(w.ex))
             b == B2N(~ex[w.ex].sent)
             c == B2N(w.ex \in lost)
  <1>1. w.pc \in Using
    BY DEF Using
  <1>2. w.ex \in Exchanges /\ ex[w.ex].live /\ WRefs(w, lost, w.ex) = 1
    BY <1>1, AtWork
  <1>3. ex[w.ex].ref = a + b + c + Queued(queue_in, w.ex) + Queued(queue_out, w.ex) + 1
    BY <1>2 DEF WsgiParts, RefInv, Refs
  <1>4. a \in Nat /\ b \in Nat /\ c \in Nat
    BY DEF B2N
  <1>5. Queued(queue_in, w.ex) \in Nat /\ Queued(queue_out, w.ex) \in Nat
    BY QueuedNat DEF WsgiParts, WsgiType
  <1>6. a = 0 => ~Listed(w.ex)
    BY DEF B2N
  <1>7. c = 0 => w.ex \notin lost
    BY DEF B2N
  <1> HIDE DEF a, b, c
  <1> QED
    BY <1>3, <1>4, <1>5, <1>6, <1>7

\* The context lets go of a reference that is not the last.
LEMMA Leaves ==
    ASSUME WsgiParts, w.pc = "dropctx", w' = [w EXCEPT !.pc = "idle"], ex[w.ex].ref > 1,
           ex' = [ex EXCEPT ![w.ex].ref = @ - 1],
           UNCHANGED <<ses, phase, queue_in, queue_out, lost>>
    PROVE  WsgiParts'
  <1>0. /\ w.pc \in Using /\ "idle" \notin Using /\ "idle" \in Pcs
        /\ {"dropctx", "idle"} \cap Working = {} /\ Early \subseteq Working
    BY DEF Using, Pcs, Working, WithContext, Early
  <1>1. /\ w \in WorkerRec /\ w.ex \in Exchanges /\ ex[w.ex] \in ExRec /\ ex[w.ex].live
        /\ WRefs(w, lost, w.ex) = 1 /\ ex \in [Exchanges -> ExRec]
    BY <1>0, AtWork DEF WsgiParts, WsgiType
  <1>2. w'.pc = "idle" /\ w'.ex = w.ex /\ w' \in WorkerRec
    BY <1>0, <1>1 DEF WorkerRec
  <1>3. /\ ex' \in [Exchanges -> ExRec] /\ ex'[w.ex] = [ex[w.ex] EXCEPT !.ref = ex[w.ex].ref - 1]
        /\ \A e \in Exchanges : e # w.ex => ex'[e] = ex[e]
    <2> DEFINE n == ex[w.ex].ref - 1
    <2>1. n \in Nat /\ ex' = [ex EXCEPT ![w.ex].ref = n]
      BY <1>1 DEF ExRec
    <2> HIDE DEF n
    <2>2. /\ ex' \in [Exchanges -> ExRec] /\ ex'[w.ex] = [ex[w.ex] EXCEPT !.ref = n]
          /\ \A e \in Exchanges : e # w.ex => ex'[e] = ex[e]
      BY <1>1, <2>1, SetRef
    <2> QED
      BY <2>2 DEF n
  <1>4. \A e \in Exchanges : /\ ex'[e].live = ex[e].live /\ ex'[e].sent = ex[e].sent
                             /\ ex'[e].done = ex[e].done /\ ex'[e].resp = ex[e].resp
    BY <1>1, <1>3 DEF ExRec
  <1>5. \A e \in Exchanges : Listed(e)' = Listed(e) /\ ~WorkedOn(e) /\ ~WorkedOn(e)'
    BY <1>0, <1>2 DEF Listed, WorkedOn
  <1>6. WsgiType'
    BY <1>0, <1>2, <1>3 DEF WsgiParts, WsgiType
  <1>7. RefInv'
    <2> SUFFICES ASSUME NEW e \in Exchanges, ex'[e].live
                 PROVE  ex'[e].ref = Refs(e)'
      BY DEF RefInv
    <2> DEFINE n == B2N(Listed(e)) + B2N(~ex[e].sent) + B2N(e \in lost) + Queued(queue_in, e) + Queued(queue_out, e)
    <2>1. ex[e].ref = n + WRefs(w, lost, e)
      BY <1>4 DEF WsgiParts, RefInv, Refs
    <2>2. Refs(e)' = n + WRefs(w', lost', e)
      BY <1>4, <1>5 DEF Refs
    <2>3. n \in Nat
      BY B2NIs, QueuedNat DEF WsgiParts, WsgiType
    <2>4. WRefs(w', lost', e) = 0
      BY <1>0, <1>2, WRefsIs
    <2>5. CASE e = w.ex
      <3>1. ex'[e].ref = ex[e].ref - 1
        BY <1>1, <1>3, <2>5 DEF ExRec
      <3> HIDE DEF n
      <3> QED
        BY <1>1, <2>1, <2>2, <2>3, <2>4, <2>5, <3>1
    <2>6. CASE e # w.ex
      <3>1. WRefs(w, lost, e) = 0 /\ ex'[e] = ex[e]
        BY <1>3, <2>6, WRefsIs
      <3> HIDE DEF n
      <3> QED
        BY <2>1, <2>2, <2>3, <2>4, <3>1
    <2> QED
      BY <2>5, <2>6
  <1>8. DeadInv'
    BY <1>0, <1>2, <1>4, <1>5 DEF WsgiParts, DeadInv
  <1>9. CountInv'
    <2>1. \A s \in Sess : LiveOf(s)' = LiveOf(s)
      BY <1>4 DEF LiveOf
    <2> QED
      BY <2>1 DEF WsgiParts, CountInv
  <1>10. ListInv'
    BY <1>4, <1>5 DEF WsgiParts, ListInv
  <1>11. PoolInv'
    <2>1. \A s \in Sess : \A i \in 1..Len(ses[s].pool) : ses[s].pool[i] \in Exchanges
      BY DEF WsgiParts, WsgiType, SesRec
    <2> QED
      BY <1>2, <1>4, <2>1 DEF WsgiParts, PoolInv, Orderly
  <1>12. OnceInv'
    BY <1>4, <1>5 DEF WsgiParts, OnceInv, InHand
  <1>13. DoneInv'
    BY <1>0, <1>2, <1>4 DEF WsgiParts, DoneInv, Coming
  <1>14. NumInv'
    BY <1>4, <1>5 DEF WsgiParts, NumInv, InHand
  <1>15. LockMeansClosed'
    BY <1>2 DEF WsgiParts, LockMeansClosed
  <1> QED
    BY <1>6, <1>7, <1>8, <1>9, <1>10, <1>11, <1>12, <1>13, <1>14, <1>15 DEF WsgiParts

LEMMA MemIs ==
    ASSUME WsgiParts, Okay
    PROVE  Mem \in MemRec /\ Mem.ses = ses /\ Mem.ex = ex /\ Mem.bad = "none"
  <1>1. Mem.ses = ses /\ Mem.ex = ex /\ Mem.bad = "none"
    BY DEF Okay, Mem
  <1>2. ses \in [Sess -> SesRec] /\ ex \in [Exchanges -> ExRec] /\ bad \in Ends
    BY DEF WsgiParts, WsgiType, Okay, Ends
  <1>3. Mem \in MemRec
    BY <1>2 DEF Mem, MemRec
  <1> QED
    BY <1>1, <1>3

LEMMA MemMany ==
    ASSUME WsgiParts, Okay, NEW e \in Exchanges, ex[e].ref > 1, ex[e].live
    PROVE  /\ ExDecref(Mem, e).ses = ses /\ ExDecref(Mem, e).ex = [ex EXCEPT ![e].ref = @ - 1]
           /\ ExDecref(Mem, e).ex[e].live
  <1> DEFINE m == Mem
  <1>1. m \in MemRec /\ m.ses = ses /\ m.ex = ex
    BY MemIs
  <1> HIDE DEF m
  <1>2. /\ ExDecref(m, e).ses = m.ses /\ ExDecref(m, e).ex = [m.ex EXCEPT ![e].ref = @ - 1]
        /\ ExDecref(m, e).ex[e].live
    BY <1>1, DecrefMany
  <1>3. [m.ex EXCEPT ![e].ref = @ - 1] = [ex EXCEPT ![e].ref = @ - 1]
    BY <1>1
  <1> QED
    BY <1>1, <1>2, <1>3 DEF m

LEMMA MemLast ==
    ASSUME WsgiParts, Okay, NEW e \in Exchanges, ~(ex[e].ref > 1), ses[e[1]].state # "freed"
    PROVE  /\ ExDecref(Mem, e).ex = [ex EXCEPT ![e] = NoExchange]
           /\ ses[e[1]].ref = 1 =>
                /\ ExDecref(Mem, e).ses = [ses EXCEPT ![e[1]] = FreedSession]
                /\ IsPooled(e) => ExDecref(Mem, e).bad = "freed"
                /\ ~IsPooled(e) => ExDecref(Mem, e).bad = "none"
           /\ ses[e[1]].ref # 1 =>
                /\ ExDecref(Mem, e).ses = [ses EXCEPT ![e[1]].ref = @ - 1]
                /\ ExDecref(Mem, e).bad = "none"
  <1> DEFINE m == Mem
  <1>1. m \in MemRec /\ m.ses = ses /\ m.ex = ex /\ m.bad = "none"
    BY MemIs
  <1> HIDE DEF m
  <1>a. ~(m.ex[e].ref > 1) /\ m.ses[e[1]].state # "freed"
    BY <1>1
  <1>2. /\ ExDecref(m, e).ex = [m.ex EXCEPT ![e] = NoExchange]
        /\ m.ses[e[1]].ref = 1 =>
             /\ ExDecref(m, e).ses = [m.ses EXCEPT ![e[1]] = FreedSession]
             /\ ExDecref(m, e).bad = IF IsPooled(e) THEN "freed" ELSE m.bad
        /\ m.ses[e[1]].ref # 1 =>
             /\ ExDecref(m, e).ses = [m.ses EXCEPT ![e[1]].ref = @ - 1]
             /\ ExDecref(m, e).bad = m.bad
    BY <1>1, <1>a, DecrefLast
  <1>3. /\ [m.ex EXCEPT ![e] = NoExchange] = [ex EXCEPT ![e] = NoExchange]
        /\ [m.ses EXCEPT ![e[1]] = FreedSession] = [ses EXCEPT ![e[1]] = FreedSession]
        /\ [m.ses EXCEPT ![e[1]].ref = @ - 1] = [ses EXCEPT ![e[1]].ref = @ - 1]
    BY <1>1
  <1> QED
    BY <1>1, <1>2, <1>3 DEF m

LEMMA StepDropWorker == WsgiParts /\ WDropWorker => WsgiParts'
  <1> SUFFICES ASSUME WsgiParts, WDropWorker PROVE WsgiParts'
    OBVIOUS
  <1>0. /\ Okay /\ w.pc = "dropworker" /\ w.pc \in WithContext \ {"environ"} /\ w.pc \in Using
        /\ UNCHANGED <<phase, queue_in, queue_out, lost>>
    BY DEF WDropWorker, WorkerAt, WithContext, Working, Using
  <1>1. w.ex \in Exchanges /\ ex[w.ex].live /\ WRefs(w, lost, w.ex) = 2
    BY <1>0, AtWork
  <1>2. ex[w.ex].ref > 1
    <2> DEFINE n == B2N(Listed(w.ex)) + B2N(~ex[w.ex].sent) + B2N(w.ex \in lost)
                    + Queued(queue_in, w.ex) + Queued(queue_out, w.ex)
    <2>1. n \in Nat
      BY B2NIs, QueuedNat DEF WsgiParts, WsgiType
    <2>2. ex[w.ex].ref = n + WRefs(w, lost, w.ex)
      BY <1>1 DEF WsgiParts, RefInv, Refs
    <2> HIDE DEF n
    <2> QED
      BY <1>1, <2>1, <2>2
  <1> DEFINE m == ExDecref(Mem, w.ex)
  <1>3. m.ses = ses /\ m.ex = [ex EXCEPT ![w.ex].ref = @ - 1] /\ m.ex[w.ex].live
    BY <1>0, <1>1, <1>2, MemMany
  <1>4. ses' = m.ses /\ ex' = m.ex /\ (m.ex[w.ex].live => w' = [w EXCEPT !.pc = "dropctx"])
    BY StoreIs DEF WDropWorker, WDecref
  <1> HIDE DEF m
  <1> QED
    BY <1>0, <1>3, <1>4, LetsGo

\* The context had the last reference.
LEMMA ContextDies ==
    ASSUME WsgiParts, NEW e \in Exchanges, w.ex = e, w.pc = "dropctx", ~(ex[e].ref > 1), Dies(e), WsgiType',
           ses'[e[1]] = FreedSession \/ ses'[e[1]].head = ses[e[1]].head,
           \/ w'.pc = "idle"
           \/ w'.pc = "pool" /\ w'.ex = e /\ IsPooled(e) /\ ses'[e[1]].pool = ses[e[1]].pool,
           UNCHANGED <<phase, queue_in, queue_out, lost>>
    PROVE  WsgiParts'
  <1>0. w.pc \in Using /\ w'.pc \notin Using
    BY DEF Using, Working, WithContext
  <1>1. ex[e].live /\ e[1] \in Sess
    BY <1>0, AtWork
  <1>2. /\ ~Listed(e) /\ e \notin lost
        /\ Queued(queue_in, e) = 0 /\ Queued(queue_out, e) = 0
    BY OnlyContext
  <1>3. \A f \in Exchanges : Listed(f)' = Listed(f)
    <2> TAKE f \in Exchanges
    <2>1. CASE f[1] # e[1]
      BY <2>1, ExchangeIs DEF Dies, Goes, Listed
    <2>2. CASE f[1] = e[1] /\ ses'[e[1]].head = ses[e[1]].head
      BY <2>2 DEF Listed
    <2>3. CASE f[1] = e[1] /\ ses'[e[1]] = FreedSession
      <3>1. ses'[f[1]].head = << >>
        BY <2>3, Freed
      <3>2. ses[e[1]].ref = 1 \/ ses'[e[1]].state = ses[e[1]].state
        BY DEF Dies, Shrinks
      <3>3. ses[e[1]].state \notin Held
        BY <1>1, <2>3, <3>2, LiveCounted, Freed
      <3>4. ses[f[1]].head = << >>
        BY <1>1, <2>3, <3>3 DEF WsgiParts, ListInv
      <3> QED
        BY <3>1, <3>4 DEF Listed
    <2> QED
      BY <2>1, <2>2, <2>3
  <1>4. Unheld(e) /\ OthersHeld(e) /\ PhaseEnds
    BY <1>0, <1>1, <1>2, <1>3 DEF Unheld, OthersHeld, PhaseEnds
  <1>5. RefInv' /\ DeadInv' /\ OnceInv' /\ DoneInv' /\ NumInv' /\ LockMeansClosed'
    BY <1>1, <1>4, DiesRest
  <1>6. CountInv'
    BY <1>1, DiesCount
  <1>7. PoolInv'
    BY <1>1, DiesPool
  <1>8. ListInv'
    BY <1>1, <1>4, DiesList
  <1> QED
    BY <1>5, <1>6, <1>7, <1>8 DEF WsgiParts

LEMMA StepDropContext == WsgiParts /\ WDropContext /\ bad' = "none" => WsgiParts'
  <1> SUFFICES ASSUME WsgiParts, WDropContext, bad' = "none" PROVE WsgiParts'
    OBVIOUS
  <1>a. w.pc \in Using /\ w.ex \in Exchanges
    BY AtWork DEF WDropContext, WorkerAt, Using
  <1> PICK e \in Exchanges : e = w.ex
    BY <1>a
  <1> DEFINE s == e[1]
             m == ExDecref(Mem, e)
  <1>0. Okay /\ w.pc = "dropctx" /\ w.pc \in Using /\ UNCHANGED <<phase, queue_in, queue_out, lost>>
    BY DEF WDropContext, WorkerAt, Using
  <1>1. e \in Exchanges /\ ex[e].live /\ s \in Sess /\ w \in WorkerRec
    BY <1>0, AtWork
  <1>2. /\ ses' = m.ses /\ ex' = m.ex /\ bad' = m.bad
        /\ w' = IF m.ex[e].live \/ m.bad # "none" \/ ~IsPooled(e) THEN [w EXCEPT !.pc = "idle"]
                ELSE [w EXCEPT !.pc = "pool", !.pool = m.ses[s].pool]
    BY StoreIs DEF WDropContext, WDecref
  <1>3. CASE ex[e].ref > 1
    <2>1. m.ses = ses /\ m.ex = [ex EXCEPT ![e].ref = @ - 1] /\ m.ex[e].live
      BY <1>0, <1>1, <1>3, MemMany
    <2> HIDE DEF m
    <2> QED
      BY <1>0, <1>2, <1>3, <2>1, Leaves
  <1>4. CASE ~(ex[e].ref > 1)
    <2>0. ses[s].state \notin {"none", "freed"} /\ ses[s].ref \in Nat /\ ses[s].ref > 0
      BY <1>1, LiveCounted
    <2>1. /\ ex' = [ex EXCEPT ![e] = NoExchange]
          /\ ses[s].ref = 1 =>
                /\ ses' = [ses EXCEPT ![s] = FreedSession]
                /\ IsPooled(e) => m.bad = "freed"
          /\ ses[s].ref # 1 => ses' = [ses EXCEPT ![s].ref = @ - 1] /\ m.bad = "none"
      BY <1>0, <1>1, <1>2, <1>4, <2>0, MemLast
    <2> HIDE DEF m
    <2>2. ex \in [Exchanges -> ExRec] /\ ses \in [Sess -> SesRec]
      BY DEF WsgiParts, WsgiType
    <2>3. ex' \in [Exchanges -> ExRec] /\ ~ex'[e].live /\ \A f \in Exchanges : f # e => ex'[f] = ex[f]
      BY <1>1, <2>1, <2>2, Freed
    <2>4. CASE ses[s].ref = 1
      <3>1. ses' = [ses EXCEPT ![s] = FreedSession] /\ ~IsPooled(e)
        BY <1>2, <2>1, <2>4
      <3>2. ses' \in [Sess -> SesRec] /\ ses'[s] = FreedSession /\ \A t \in Sess : t # s => ses'[t] = ses[t]
        BY <1>1, <2>2, <3>1, Freed
      <3>3. w' = [w EXCEPT !.pc = "idle"]
        BY <1>2, <3>1
      <3>4. w' \in WorkerRec /\ w'.pc = "idle" /\ "idle" \notin Using
        BY <1>1, <3>3 DEF WorkerRec, Pcs, Using, Working, WithContext
      <3>5. WsgiType'
        BY <1>0, <2>3, <3>2, <3>4 DEF WsgiParts, WsgiType
      <3>6. Dies(e)
        BY <2>3, <2>4, <3>2 DEF Dies, Goes
      <3> QED
        BY <1>0, <1>4, <3>2, <3>4, <3>5, <3>6, ContextDies
    <2>5. CASE ses[s].ref # 1
      <3>1. ses' = [ses EXCEPT ![s].ref = @ - 1] /\ m.bad = "none"
        BY <2>1, <2>5
      <3>2. /\ ses' \in [Sess -> SesRec] /\ \A t \in Sess : t # s => ses'[t] = ses[t]
            /\ ses'[s] = [ses[s] EXCEPT !.ref = ses[s].ref - 1]
        <4> DEFINE n == ses[s].ref - 1
        <4>1. n \in Nat /\ ses' = [ses EXCEPT ![s].ref = n]
          BY <2>0, <3>1
        <4> HIDE DEF n
        <4>2. /\ ses' \in [Sess -> SesRec] /\ \A t \in Sess : t # s => ses'[t] = ses[t]
              /\ ses'[s] = [ses[s] EXCEPT !.ref = n]
          BY <1>1, <2>2, <4>1, ZenonT(60) DEF SesRec
        <4> QED
          BY <4>2 DEF n
      <3>3. /\ ses'[s].ref = ses[s].ref - 1 /\ ses'[s].state = ses[s].state /\ ses'[s].closed = ses[s].closed
            /\ ses'[s].lock = ses[s].lock /\ ses'[s].head = ses[s].head /\ ses'[s].pool = ses[s].pool
        BY <1>1, <2>2, <3>2 DEF SesRec
      <3>4. Dies(e)
        BY <2>3, <2>5, <3>2, <3>3 DEF Dies, Goes, Shrinks
      <3>5. /\ w' \in WorkerRec /\ w'.ex = e
            /\ w'.pc = "idle" \/ (w'.pc = "pool" /\ IsPooled(e))
        <4>1. m.ses[s].pool \in Seq(Exchanges)
          BY <1>1, <1>2, <3>2 DEF SesRec
        <4>2. CASE ~IsPooled(e)
          <5>1. w' = [w EXCEPT !.pc = "idle"]
            BY <1>2, <4>2
          <5> QED
            BY <1>1, <5>1 DEF WorkerRec, Pcs
        <4>3. CASE IsPooled(e)
          <5>1. w' = [w EXCEPT !.pc = "pool", !.pool = m.ses[s].pool]
            BY <1>2, <2>3, <3>1, <4>3
          <5> QED
            BY <1>1, <4>1, <4>3, <5>1 DEF WorkerRec, Pcs
        <4> QED
          BY <4>2, <4>3
      <3>6. WsgiType'
        BY <1>0, <1>1, <2>3, <3>2, <3>5 DEF WsgiParts, WsgiType
      <3> QED
        BY <1>0, <1>4, <3>3, <3>4, <3>5, <3>6, ContextDies
    <2> QED
      BY <2>4, <2>5
  <1> QED
    BY <1>3, <1>4

-----------------------------------------------------------------------------
(* The steps of the loop, and the one of the worker, that only change sessions *)

\* The lists of the sessions stay, and so does what the worker has.
LEMMA HeadsStay ==
    ASSUME WsgiParts, UNCHANGED <<ex, phase, queue_in, queue_out, lost>>,
           \A s \in Sess : ses'[s].head = ses[s].head,
           \A e \in Exchanges : ex[e].live /\ ses[e[1]].closed => ses'[e[1]].closed,
           \/ w' = w
           \/ w.pc \notin Using /\ w'.pc \notin Using
    PROVE  RefInv' /\ DeadInv' /\ OnceInv' /\ DoneInv' /\ NumInv'
  <1>0. Working \subseteq Using /\ Early \subseteq Working
    BY DEF Using, Early
  <1>1. \A e \in Exchanges : e[1] \in Sess /\ Listed(e)' = Listed(e)
    BY ExchangeIs DEF Listed
  <1>2. \A e \in Exchanges : /\ WorkedOn(e)' <=> WorkedOn(e)
                             /\ w'.ex = e /\ w'.pc \in Using <=> w.ex = e /\ w.pc \in Using
                             /\ Coming(e)' <=> Coming(e)
    BY <1>0 DEF WorkedOn, Coming
  <1>3. \A e \in Exchanges : WRefs(w', lost', e) = WRefs(w, lost, e)
    <2> TAKE e \in Exchanges
    <2>1. CASE w' = w
      BY <2>1
    <2>2. CASE w.pc \notin Using /\ w'.pc \notin Using
      BY <2>2, WRefsIs
    <2> QED
      BY <2>1, <2>2
  <1>4. RefInv'
    BY <1>1, <1>3 DEF WsgiParts, RefInv, Refs
  <1>5. DeadInv'
    BY <1>1, <1>2 DEF WsgiParts, DeadInv
  <1>6. OnceInv' /\ NumInv'
    BY <1>1, <1>2 DEF WsgiParts, OnceInv, NumInv, InHand
  <1>7. DoneInv'
    <2> SUFFICES ASSUME NEW e \in Exchanges, ex[e].done, Coming(e)
                 PROVE  ses'[e[1]].closed
      BY <1>2 DEF DoneInv
    <2>1. ex[e].live
      BY <1>0 DEF WsgiParts, DeadInv, Coming, Using
    <2>2. ses[e[1]].closed
      BY DEF WsgiParts, DoneInv
    <2> QED
      BY <2>1, <2>2
  <1> QED
    BY <1>4, <1>5, <1>6, <1>7

LEMMA HeadsKept ==
    ASSUME WsgiParts, UNCHANGED <<ex, phase, queue_in, queue_out, lost>>,
           \A s \in Sess : ses'[s].head = ses[s].head /\ (ses[s].state # "none" /\ ses[s].closed => ses'[s].closed),
           \/ w' = w
           \/ w.pc \notin Using /\ w'.pc \notin Using
    PROVE  RefInv' /\ DeadInv' /\ OnceInv' /\ DoneInv' /\ NumInv'
  <1>1. \A e \in Exchanges : ex[e].live /\ ses[e[1]].closed => ses'[e[1]].closed
    BY LiveCounted, ExchangeIs
  <1> QED
    BY <1>1, HeadsStay

LEMMA StepSessionInit ==
    ASSUME WsgiParts, NEW s \in Sess, SessionInit(s)
    PROVE  WsgiParts'
  <1> DEFINE p == [i \in 1..PoolEx |-> <<s, i>>]
             n == [NoSession EXCEPT !.state = "open", !.ref = 1, !.pool = p]
  <1>0. /\ ses[s].state = "none" /\ ses' = [ses EXCEPT ![s] = n]
        /\ UNCHANGED <<ex, phase, queue_in, queue_out, lost, w>>
    BY DEF SessionInit
  <1>1. /\ p \in Seq(Exchanges) /\ Len(p) = PoolEx
        /\ \A i \in 1..Len(p) : p[i] = <<s, i>> /\ p[i][1] = s /\ IsPooled(p[i])
        /\ \A i, j \in 1..Len(p) : i # j => p[i] # p[j]
    <2>1. PoolEx \in Nat /\ PoolEx <= MaxEx /\ MaxEx \in Nat
      BY WsgiAssumption
    <2>2. \A i \in 1..PoolEx : <<s, i>> \in Exchanges /\ p[i] = <<s, i>>
      BY <2>1 DEF Exchanges
    <2>3. p \in Seq(Exchanges) /\ Len(p) = PoolEx
      BY <2>1, <2>2
    <2>4. \A i \in 1..PoolEx : p[i] = <<s, i>> /\ p[i][1] = s /\ p[i][2] = i
      OBVIOUS
    <2> HIDE DEF p
    <2>5. \A i \in 1..PoolEx : IsPooled(p[i])
      BY <2>1, <2>4 DEF IsPooled
    <2> QED
      BY <2>3, <2>4, <2>5
  <1> HIDE DEF p
  <1>2. /\ n \in SesRec /\ n.state = "open" /\ n.ref = 1 /\ n.pool = p /\ n.head = << >>
        /\ n.lock = FALSE /\ n.closed = FALSE
    <2>1. << >> \in Seq(Exchanges) /\ "open" \in SesStates
      BY DEF SesStates
    <2> QED
      BY <1>1, <2>1 DEF NoSession, SesRec
  <1> HIDE DEF n
  <1>3. ses \in [Sess -> SesRec] /\ ses' \in [Sess -> SesRec] /\ ses'[s] = n
        /\ \A t \in Sess : t # s => ses'[t] = ses[t]
    BY <1>0, <1>2 DEF WsgiParts, WsgiType
  <1>4. ses[s].head = << >> /\ phase[s].at = "done" /\ ses[s].ref = 0
    BY <1>0 DEF WsgiParts, ListInv, CountInv, Held
  <1>5. \A e \in Exchanges : ex[e].live => e[1] # s
    BY <1>0, LiveCounted
  <1>6. WsgiType'
    BY <1>0, <1>3 DEF WsgiParts, WsgiType
  <1>7. RefInv' /\ DeadInv' /\ OnceInv' /\ DoneInv' /\ NumInv'
    <2>1. \A t \in Sess : ses'[t].head = ses[t].head /\ (ses[t].state # "none" /\ ses[t].closed => ses'[t].closed)
      BY <1>0, <1>2, <1>3, <1>4
    <2> QED
      BY <1>0, <2>1, HeadsKept
  <1>8. CountInv'
    <2>1. \A t \in Sess : LiveOf(t)' = LiveOf(t)
      BY <1>0 DEF LiveOf
    <2>2. Cardinality(LiveOf(s)) = 0
      <3>1. LiveOf(s) = {}
        BY <1>5 DEF LiveOf
      <3> QED
        BY <3>1, FS_EmptySet
    <2>3. ses'[s].ref = 1 /\ ses'[s].state = "open" /\ B2N(ses'[s].state \in Held) = 1
      BY <1>2, <1>3 DEF B2N, Held
    <2>4. \A t \in Sess : t # s => ses'[t] = ses[t]
      BY <1>3
    <2> SUFFICES ASSUME NEW t \in Sess
                 PROVE  /\ ses'[t].ref = B2N(ses'[t].state \in Held) + Cardinality(LiveOf(t)')
                        /\ ses'[t].state \in {"none", "freed"} => ses'[t].ref = 0
      BY DEF CountInv
    <2>5. CASE t = s
      BY <2>1, <2>2, <2>3, <2>5
    <2>6. CASE t # s
      BY <2>1, <2>4, <2>6 DEF WsgiParts, CountInv
    <2> QED
      BY <2>5, <2>6
  <1>9. ListInv'
    <2>1. \A e \in Exchanges : Listed(e)' = Listed(e)
      BY <1>2, <1>3, <1>4, ExchangeIs DEF Listed
    <2>2. \A e \in Exchanges : ex[e].live => ses'[e[1]] = ses[e[1]]
      BY <1>3, <1>5, ExchangeIs
    <2>3. ASSUME NEW t \in Sess
          PROVE  /\ ses'[t].head = << >> \/ \E e \in Exchanges : e[1] = t /\ ses'[t].head = <<e>>
                 /\ ses'[t].state \notin Held => ses'[t].head = << >>
                 /\ ses'[t].state \in {"closing", "emptying", "closed"} => ses'[t].closed
                 /\ ses'[t].state = "open" => ~ses'[t].closed /\ (phase'[t].at = "done") = (ses'[t].head = << >>)
                 /\ ses'[t].state = "none" => phase'[t].at = "done"
      <3>1. CASE t = s
        BY <1>0, <1>2, <1>3, <1>4, <3>1
      <3>2. CASE t # s
        BY <1>0, <1>3, <2>3, <3>2 DEF WsgiParts, ListInv
      <3> QED
        BY <3>1, <3>2
    <2> QED
      BY <1>0, <2>1, <2>2, <2>3 DEF WsgiParts, ListInv
  <1>10. PoolInv'
    <2>1. Orderly(p, s, ex)
      BY <1>1, <1>5 DEF Orderly
    <2>2. \A t \in Sess : Orderly(ses'[t].pool, t, ex')
      BY <1>0, <1>2, <1>3, <2>1 DEF WsgiParts, PoolInv
    <2>3. w.pc = "pool" => w.ex[1] \in Sess /\ w.ex[1] # s
      BY <1>0, ExchangeIs DEF WsgiParts, WsgiType, PoolInv
    <2> QED
      BY <1>0, <1>3, <2>2, <2>3 DEF WsgiParts, PoolInv
  <1>11. LockMeansClosed'
    BY <1>0, <1>2, <1>3 DEF WsgiParts, LockMeansClosed
  <1> QED
    BY <1>6, <1>7, <1>8, <1>9, <1>10, <1>11 DEF WsgiParts

\* The end of a connection: the session is marked and its lock is taken.
LEMMA Marks ==
    ASSUME WsgiParts, NEW s \in Sess, ses' \in [Sess -> SesRec], \A t \in Sess : t # s => ses'[t] = ses[t],
           ses'[s].head = ses[s].head, ses'[s].ref = ses[s].ref, ses'[s].pool = ses[s].pool,
           ses[s].state \in {"open", "closing"}, ses'[s].state \in {"closing", "emptying"}, ses'[s].closed,
           UNCHANGED <<ex, phase, queue_in, queue_out, lost, w>>
    PROVE  WsgiParts'
  <1>1. WsgiType'
    BY DEF WsgiParts, WsgiType
  <1>2. RefInv' /\ DeadInv' /\ OnceInv' /\ DoneInv' /\ NumInv'
    <2>1. \A t \in Sess : ses'[t].head = ses[t].head /\ (ses[t].state # "none" /\ ses[t].closed => ses'[t].closed)
      OBVIOUS
    <2> QED
      BY <2>1, HeadsKept
  <1>3. CountInv'
    <2>1. \A t \in Sess : LiveOf(t)' = LiveOf(t)
      BY DEF LiveOf
    <2>2. ses[s].state \in Held /\ ses'[s].state \in Held /\ ses'[s].state \notin {"none", "freed"}
      BY DEF Held
    <2>3. \A t \in Sess : B2N(ses'[t].state \in Held) = B2N(ses[t].state \in Held) /\ ses'[t].ref = ses[t].ref
      BY <2>2 DEF B2N
    <2> QED
      BY <2>1, <2>2, <2>3 DEF WsgiParts, CountInv
  <1>4. ListInv'
    <2>1. \A e \in Exchanges : e[1] \in Sess /\ Listed(e)' = Listed(e)
      BY ExchangeIs DEF Listed
    <2>2. \A t \in Sess : ses'[t].state \in {"open", "closing"} => ses[t].state \in {"open", "closing"}
      OBVIOUS
    <2>3. ASSUME NEW t \in Sess
          PROVE  /\ ses'[t].head = << >> \/ \E e \in Exchanges : e[1] = t /\ ses'[t].head = <<e>>
                 /\ ses'[t].state \notin Held => ses'[t].head = << >>
                 /\ ses'[t].state \in {"closing", "emptying", "closed"} => ses'[t].closed
                 /\ ses'[t].state = "open" => ~ses'[t].closed /\ (phase'[t].at = "done") = (ses'[t].head = << >>)
                 /\ ses'[t].state = "none" => phase'[t].at = "done"
      <3>1. CASE t = s
        BY <3>1 DEF WsgiParts, ListInv, Held
      <3>2. CASE t # s
        BY <2>3, <3>2 DEF WsgiParts, ListInv
      <3> QED
        BY <3>1, <3>2
    <2> QED
      BY <2>1, <2>2, <2>3 DEF WsgiParts, ListInv
  <1>5. PoolInv'
    <2>1. w.pc = "pool" => w.ex[1] \in Sess
      BY ExchangeIs DEF WsgiParts, WsgiType
    <2>2. \A t \in Sess : ses'[t].pool = ses[t].pool /\ (ses[t].state # "none" => ses'[t].state # "none")
      OBVIOUS
    <2> QED
      BY <2>1, <2>2 DEF WsgiParts, PoolInv
  <1>6. LockMeansClosed'
    BY DEF WsgiParts, LockMeansClosed
  <1> QED
    BY <1>1, <1>2, <1>3, <1>4, <1>5, <1>6 DEF WsgiParts

LEMMA StepSessionClose ==
    ASSUME WsgiParts, NEW s \in Sess, SessionClose(s)
    PROVE  WsgiParts'
  <1>0. /\ ses[s].state = "open" /\ ses \in [Sess -> SesRec]
        /\ ses' = [ses EXCEPT ![s].closed = TRUE, ![s].state = "closing"]
        /\ UNCHANGED <<ex, phase, queue_in, queue_out, lost, w>>
    BY DEF SessionClose, WsgiParts, WsgiType
  <1>1. /\ ses' \in [Sess -> SesRec] /\ \A t \in Sess : t # s => ses'[t] = ses[t]
        /\ ses'[s].head = ses[s].head /\ ses'[s].ref = ses[s].ref /\ ses'[s].pool = ses[s].pool
        /\ ses'[s].state = "closing" /\ ses'[s].closed = TRUE
    BY <1>0, ZenonT(60) DEF SesRec, SesStates
  <1> QED
    BY <1>0, <1>1, Marks

LEMMA StepSessionLock ==
    ASSUME WsgiParts, NEW s \in Sess, SessionLock(s)
    PROVE  WsgiParts'
  <1>0. /\ ses[s].state = "closing" /\ ses \in [Sess -> SesRec] /\ ses[s].closed
        /\ ses' = [ses EXCEPT ![s].lock = TRUE, ![s].state = "emptying"]
        /\ UNCHANGED <<ex, phase, queue_in, queue_out, lost, w>>
    BY DEF SessionLock, WsgiParts, WsgiType, ListInv
  <1>1. /\ ses' \in [Sess -> SesRec] /\ \A t \in Sess : t # s => ses'[t] = ses[t]
        /\ ses'[s].head = ses[s].head /\ ses'[s].ref = ses[s].ref /\ ses'[s].pool = ses[s].pool
        /\ ses'[s].state = "emptying" /\ ses'[s].closed = ses[s].closed
    BY <1>0, ZenonT(60) DEF SesRec, SesStates
  <1> QED
    BY <1>0, <1>1, Marks

LEMMA IdleIs == Idle \in WorkerRec /\ Idle.pc = "idle" /\ "idle" \notin Using /\ "pool" \notin Using
  <1>1. << >> \in Seq(Exchanges) /\ "idle" \in Pcs /\ << >> \in Exchanges \cup {<< >>}
    BY DEF Pcs
  <1>2. Idle \in WorkerRec
    BY <1>1 DEF Idle, WorkerRec
  <1> QED
    BY <1>2 DEF Idle, Using, Working, WithContext

\* ymo_wsgi_exchange_free of the worker: its exchange is put back.
LEMMA StepToPool == WsgiParts /\ WToPool /\ bad' = "none" => WsgiParts'
  <1> SUFFICES ASSUME WsgiParts, WToPool, bad' = "none" PROVE WsgiParts'
    OBVIOUS
  <1>a. w.pc = "pool" /\ w.ex \in Exchanges
    BY DEF WToPool, WorkerAt, WsgiParts, WsgiType
  <1> PICK e \in Exchanges : e = w.ex
    BY <1>a
  <1> DEFINE s == e[1]
             p == ses[s].pool
             m == ToPool(Mem, e)
  <1>0. Okay /\ w' = Idle /\ UNCHANGED <<phase, queue_in, queue_out, lost>> /\ s \in Sess
    BY ExchangeIs DEF WToPool, WorkerAt
  <1>1. Store(m)
    BY <1>0, <1>a DEF WToPool
  <1>2. /\ IsPooled(e) /\ ~ex[e].live /\ ses[s].state # "none" /\ Without(p, e) /\ Orderly(p, s, ex)
        /\ ses \in [Sess -> SesRec] /\ p \in Seq(Exchanges)
    BY <1>0, <1>a DEF WsgiParts, PoolInv, WsgiType, SesRec
  <1>3. ses' = [ses EXCEPT ![s].pool = <<e>> \o @] /\ ex' = ex
    <2>1. m.ses = [ses EXCEPT ![s].pool = <<e>> \o @] /\ m.ex = ex
      BY <1>2 DEF ToPool, Mem
    <2> QED
      BY <1>1, <2>1, StoreIs
  <1> HIDE DEF m
  <1>4. <<e>> \o p \in Seq(Exchanges)
    BY <1>2, Pushed
  <1>5. /\ ses' \in [Sess -> SesRec] /\ \A t \in Sess : t # s => ses'[t] = ses[t]
        /\ ses'[s].head = ses[s].head /\ ses'[s].ref = ses[s].ref /\ ses'[s].pool = <<e>> \o p
        /\ ses'[s].state = ses[s].state /\ ses'[s].closed = ses[s].closed /\ ses'[s].lock = ses[s].lock
    BY <1>0, <1>2, <1>3, <1>4, ZenonT(60) DEF SesRec
  <1>6. \A t \in Sess : /\ ses'[t].head = ses[t].head /\ ses'[t].ref = ses[t].ref /\ ses'[t].state = ses[t].state
                        /\ ses'[t].closed = ses[t].closed /\ ses'[t].lock = ses[t].lock
    BY <1>5
  <1>7. w' \in WorkerRec /\ w'.pc = "idle" /\ "idle" \notin Using /\ "pool" \notin Using
    BY <1>0, IdleIs
  <1>8. WsgiType'
    BY <1>0, <1>3, <1>5, <1>7 DEF WsgiParts, WsgiType
  <1>9. RefInv' /\ DeadInv' /\ OnceInv' /\ DoneInv' /\ NumInv'
    BY <1>0, <1>a, <1>3, <1>6, <1>7, HeadsKept
  <1>10. CountInv'
    <2>1. \A t \in Sess : LiveOf(t)' = LiveOf(t)
      BY <1>3 DEF LiveOf
    <2> QED
      BY <1>6, <2>1 DEF WsgiParts, CountInv
  <1>11. ListInv'
    <2>1. \A f \in Exchanges : f[1] \in Sess /\ Listed(f)' = Listed(f)
      BY <1>6, ExchangeIs, SMTT(40) DEF Listed
    <2> QED
      BY <1>0, <1>3, <1>6, <2>1 DEF WsgiParts, ListInv
  <1>12. PoolInv'
    <2>1. Orderly(<<e>> \o p, s, ex)
      BY <1>2, PushOrderly
    <2>2. \A t \in Sess : t # s => Orderly(ses[t].pool, t, ex)
      BY DEF WsgiParts, PoolInv
    <2> QED
      BY <1>3, <1>5, <1>7, <2>1, <2>2 DEF PoolInv
  <1>13. LockMeansClosed'
    BY <1>a, <1>6 DEF WsgiParts, LockMeansClosed
  <1> QED
    BY <1>8, <1>9, <1>10, <1>11, <1>12, <1>13 DEF WsgiParts

LEMMA StepStopWorkers == WsgiParts /\ StopWorkers => WsgiParts'
  <1> SUFFICES ASSUME WsgiParts, StopWorkers PROVE WsgiParts'
    OBVIOUS
  <1>0. UNCHANGED <<ses, ex, phase, queue_in, queue_out, lost, w>>
    BY DEF StopWorkers
  <1>1. RefInv' /\ DeadInv' /\ OnceInv' /\ DoneInv' /\ NumInv'
    BY <1>0, HeadsKept
  <1>2. WsgiType' /\ CountInv' /\ ListInv' /\ PoolInv' /\ LockMeansClosed'
    BY <1>0 DEF WsgiParts, WsgiType, CountInv, LiveOf, ListInv, Listed, PoolInv, LockMeansClosed
  <1> QED
    BY <1>1, <1>2 DEF WsgiParts

LEMMA SetSesRef ==
    ASSUME NEW x \in [Sess -> SesRec], NEW s \in Sess, NEW k \in Nat, NEW y, y = [x EXCEPT ![s].ref = k]
    PROVE  /\ y \in [Sess -> SesRec] /\ \A t \in Sess : t # s => y[t] = x[t]
           /\ y[s].ref = k /\ y[s].pool = x[s].pool /\ y[s].state = x[s].state /\ y[s].head = x[s].head
           /\ y[s].closed = x[s].closed /\ y[s].lock = x[s].lock
  <1>1. y \in [Sess -> SesRec] /\ y[s] = [x[s] EXCEPT !.ref = k] /\ \A t \in Sess : t # s => y[t] = x[t]
    BY DEF SesRec
  <1> QED
    BY <1>1 DEF SesRec

\* ymo_wsgi_session_cleanup lets go of the lock and of the connection's reference.
LEMMA Unlocks ==
    ASSUME WsgiParts, NEW s \in Sess, SessionUnlock(s)
    PROVE  /\ ex' = ex /\ ses' \in [Sess -> SesRec] /\ \A t \in Sess : t # s => ses'[t] = ses[t]
           /\ \/ ses[s].ref = 1 /\ ses'[s] = FreedSession
              \/ /\ ses[s].ref # 1 /\ ses'[s].ref = ses[s].ref - 1 /\ ses'[s].pool = ses[s].pool
                 /\ ses'[s].state = "closed" /\ ses'[s].head = ses[s].head
                 /\ ses'[s].closed = ses[s].closed /\ ses'[s].lock = FALSE
  <1> DEFINE x == [ses EXCEPT ![s].lock = FALSE, ![s].state = "closed"]
             m == [Mem EXCEPT !.ses[s].lock = FALSE, !.ses[s].state = "closed"]
             d == SesDecref(m, s)
  <1>0. Okay /\ Store(d) /\ ses \in [Sess -> SesRec] /\ ses[s].state = "emptying"
    BY DEF SessionUnlock, WsgiParts, WsgiType
  <1>1. m.ses = x /\ m.ex = ex /\ DOMAIN m = {"ses", "ex", "bad"}
    BY DEF Mem
  <1>2. /\ x \in [Sess -> SesRec] /\ \A t \in Sess : t # s => x[t] = ses[t]
        /\ x[s].ref = ses[s].ref /\ x[s].pool = ses[s].pool /\ x[s].state = "closed"
        /\ x[s].head = ses[s].head /\ x[s].closed = ses[s].closed /\ x[s].lock = FALSE
    BY <1>0, ZenonT(60) DEF SesRec, SesStates
  <1>3. ses' = d.ses /\ ex' = d.ex
    BY <1>0, StoreIs
  <1>4. ses[s].ref \in Nat /\ ses[s].ref # 0
    <2> DEFINE n == Cardinality(LiveOf(s))
               b == B2N(ses[s].state \in Held)
    <2>1. n \in Nat
      BY OfSessionFinite DEF LiveOf
    <2>2. b = 1
      BY <1>0 DEF B2N, Held
    <2>3. ses[s].ref = b + n
      BY DEF WsgiParts, CountInv
    <2> HIDE DEF n, b
    <2> QED
      BY <2>1, <2>2, <2>3
  <1> HIDE DEF x, m
  <1>5. CASE ses[s].ref = 1
    <2>1. d = [m EXCEPT !.ses[s] = FreedSession]
      BY <1>1, <1>2, <1>5 DEF SesDecref, FreedSession
    <2>2. d.ses = [x EXCEPT ![s] = FreedSession] /\ d.ex = ex
      BY <1>1, <2>1
    <2> HIDE DEF d
    <2>3. /\ ses' \in [Sess -> SesRec] /\ ses'[s] = FreedSession
          /\ \A t \in Sess : t # s => ses'[t] = ses[t]
      BY <1>2, <1>3, <2>2, Freed
    <2> QED
      BY <1>3, <1>5, <2>2, <2>3
  <1>6. CASE ses[s].ref # 1
    <2> DEFINE k == ses[s].ref - 1
    <2>0. k \in Nat
      BY <1>4
    <2>1. d = [m EXCEPT !.ses[s].ref = @ - 1]
      BY <1>1, <1>2, <1>6 DEF SesDecref
    <2>2. d.ses = [x EXCEPT ![s].ref = k] /\ d.ex = ex
      BY <1>1, <1>2, <2>1, ZenonT(60)
    <2> HIDE DEF d, k
    <2>3. /\ ses' \in [Sess -> SesRec] /\ \A t \in Sess : t # s => ses'[t] = ses[t]
          /\ ses'[s].ref = k /\ ses'[s].pool = ses[s].pool
          /\ ses'[s].state = "closed" /\ ses'[s].head = ses[s].head
          /\ ses'[s].closed = ses[s].closed /\ ses'[s].lock = FALSE
      BY <1>2, <1>3, <2>0, <2>2, SetSesRef
    <2> QED
      BY <1>3, <1>6, <2>2, <2>3 DEF k
  <1> QED
    BY <1>5, <1>6

LEMMA StepSessionUnlock ==
    ASSUME WsgiParts, NEW s \in Sess, SessionUnlock(s)
    PROVE  WsgiParts'
  <1> DEFINE n == Cardinality(LiveOf(s))
  <1>0. /\ ses[s].state = "emptying" /\ ses[s].head = << >>
        /\ UNCHANGED <<phase, queue_in, queue_out, lost, w>>
    BY DEF SessionUnlock
  <1>1. /\ ex' = ex /\ ses' \in [Sess -> SesRec] /\ \A t \in Sess : t # s => ses'[t] = ses[t]
        /\ \/ ses[s].ref = 1 /\ ses'[s] = FreedSession
           \/ /\ ses[s].ref # 1 /\ ses'[s].ref = ses[s].ref - 1 /\ ses'[s].pool = ses[s].pool
              /\ ses'[s].state = "closed" /\ ses'[s].head = ses[s].head
              /\ ses'[s].closed = ses[s].closed /\ ses'[s].lock = FALSE
    BY Unlocks
  <1>2. n \in Nat /\ ses[s].ref = 1 + n
    <2>1. n \in Nat
      BY OfSessionFinite DEF LiveOf
    <2>2. B2N(ses[s].state \in Held) = 1
      BY <1>0 DEF B2N, Held
    <2> QED
      BY <2>1, <2>2 DEF WsgiParts, CountInv
  <1>3. ASSUME NEW e \in Exchanges, ex[e].live, e[1] = s
        PROVE  ses'[s].state = "closed" /\ ses'[s].closed = ses[s].closed
    <2>1. ses[s].ref # 1
      BY <1>0, <1>3, LiveCounted DEF Held
    <2> QED
      BY <1>1, <2>1
  <1>4. /\ ses'[s].head = << >> /\ ses'[s].state \in {"closed", "freed"}
        /\ ses'[s].state = "closed" => ses'[s].closed = ses[s].closed
        /\ ses'[s].pool = ses[s].pool \/ ses'[s].pool = << >>
        /\ ~ses'[s].lock
    BY <1>0, <1>1, Freed
  <1>5. WsgiType'
    BY <1>0, <1>1 DEF WsgiParts, WsgiType
  <1>6. RefInv' /\ DeadInv' /\ OnceInv' /\ DoneInv' /\ NumInv'
    <2>1. \A t \in Sess : ses'[t].head = ses[t].head
      BY <1>0, <1>1, <1>4
    <2>2. \A e \in Exchanges : ex[e].live /\ ses[e[1]].closed => ses'[e[1]].closed
      BY <1>1, <1>3, ExchangeIs
    <2> QED
      BY <1>0, <1>1, <2>1, <2>2, HeadsStay
  <1>7. CountInv'
    <2>1. \A t \in Sess : LiveOf(t)' = LiveOf(t)
      BY <1>1 DEF LiveOf
    <2> SUFFICES ASSUME NEW t \in Sess
                 PROVE  /\ ses'[t].ref = B2N(ses'[t].state \in Held) + Cardinality(LiveOf(t)')
                        /\ ses'[t].state \in {"none", "freed"} => ses'[t].ref = 0
      BY DEF CountInv
    <2>2. CASE t # s
      BY <1>1, <2>1, <2>2 DEF WsgiParts, CountInv
    <2>3. CASE t = s
      <3>1. B2N(ses'[s].state \in Held) = 0
        BY <1>4 DEF B2N, Held
      <3>2. ses'[s].ref = n /\ (ses'[s].state = "freed" => ses'[s].ref = 0) /\ ses'[s].state # "none"
        <4> HIDE DEF n
        <4>1. CASE ses[s].ref = 1
          BY <1>1, <1>2, <4>1, Freed
        <4>2. CASE ses[s].ref # 1
          BY <1>1, <1>2, <4>2
        <4> QED
          BY <4>1, <4>2
      <3> HIDE DEF n
      <3>3. Cardinality(LiveOf(s)') = n
        BY <2>1 DEF n
      <3> QED
        BY <1>2, <2>3, <3>1, <3>2, <3>3
    <2> QED
      BY <2>2, <2>3
  <1>8. ListInv'
    <2>1. \A e \in Exchanges : e[1] \in Sess /\ Listed(e)' = Listed(e)
      BY <1>0, <1>1, <1>4, ExchangeIs DEF Listed
    <2>2. \A t \in Sess : ses'[t].state \in {"open", "closing"} => ses'[t] = ses[t]
      BY <1>1, <1>4
    <2>3. ASSUME NEW t \in Sess
          PROVE  /\ ses'[t].head = << >> \/ \E e \in Exchanges : e[1] = t /\ ses'[t].head = <<e>>
                 /\ ses'[t].state \notin Held => ses'[t].head = << >>
                 /\ ses'[t].state \in {"closing", "emptying", "closed"} => ses'[t].closed
                 /\ ses'[t].state = "open" => ~ses'[t].closed /\ (phase'[t].at = "done") = (ses'[t].head = << >>)
                 /\ ses'[t].state = "none" => phase'[t].at = "done"
      <3>1. CASE t = s
        BY <1>0, <1>4, <3>1 DEF WsgiParts, ListInv
      <3>2. CASE t # s
        BY <1>0, <1>1, <2>3, <3>2 DEF WsgiParts, ListInv
      <3> QED
        BY <3>1, <3>2
    <2> QED
      BY <1>1, <2>1, <2>2, <2>3 DEF WsgiParts, ListInv
  <1>9. PoolInv'
    <2>1. \A t \in Sess : ses'[t].pool = ses[t].pool \/ ses'[t].pool = << >>
      BY <1>1, <1>4
    <2>2. \A t \in Sess : Orderly(ses'[t].pool, t, ex')
      <3> TAKE t \in Sess
      <3>1. CASE ses'[t].pool = ses[t].pool
        BY <1>1, <3>1 DEF WsgiParts, PoolInv
      <3>2. CASE ses'[t].pool = << >>
        BY <3>2 DEF Orderly
      <3> QED
        BY <2>1, <3>1, <3>2
    <2>3. ASSUME w.pc = "pool"
          PROVE  /\ IsPooled(w.ex) /\ ~ex'[w.ex].live /\ ses'[w.ex[1]].state # "none"
                 /\ Without(ses'[w.ex[1]].pool, w.ex)
      <3>1. /\ w.ex[1] \in Sess /\ IsPooled(w.ex) /\ ~ex[w.ex].live /\ ses[w.ex[1]].state # "none"
            /\ Without(ses[w.ex[1]].pool, w.ex)
        BY <2>3, ExchangeIs DEF WsgiParts, WsgiType, PoolInv
      <3>2. ses'[w.ex[1]].state # "none"
        BY <1>1, <1>4, <3>1
      <3>3. Without(ses'[w.ex[1]].pool, w.ex)
        <4>1. Without(<< >>, w.ex)
          BY DEF Without
        <4> QED
          BY <2>1, <3>1, <4>1
      <3> QED
        BY <1>1, <3>1, <3>2, <3>3
    <2> QED
      BY <1>0, <2>2, <2>3 DEF PoolInv
  <1>10. LockMeansClosed'
    BY <1>0, <1>1, <1>4 DEF WsgiParts, LockMeansClosed
  <1> QED
    BY <1>5, <1>6, <1>7, <1>8, <1>9, <1>10 DEF WsgiParts

-----------------------------------------------------------------------------
(* The steps of the loop that hand an exchange on *)

\* A session that waits for the rest of its request has its exchange in the list only.
LEMMA HeaderOnly ==
    ASSUME WsgiParts, NEW s \in Sess, ses[s].state = "open", phase[s].at = "header"
    PROVE  \E e \in Exchanges : /\ e[1] = s /\ ses[s].head = <<e>> /\ Head(ses[s].head) = e
                                /\ Listed(e) /\ ex[e].live /\ ~InHand(e) /\ ~ex[e].done
  <1>1. ses[s].head # << >>
    BY DEF WsgiParts, ListInv
  <1>2. PICK e \in Exchanges : e[1] = s /\ ses[s].head = <<e>>
    BY <1>1 DEF WsgiParts, ListInv
  <1>3. Listed(e) /\ Head(ses[s].head) = e
    BY <1>2 DEF Listed
  <1>4. ex[e].live
    BY <1>3 DEF WsgiParts, DeadInv
  <1>5. ~InHand(e) /\ ~ex[e].done
    BY <1>2, <1>3 DEF WsgiParts, OnceInv
  <1> QED
    BY <1>2, <1>3, <1>4, <1>5

LEMMA StepRequestCb ==
    ASSUME WsgiParts, NEW s \in Sess, RequestCb(s)
    PROVE  WsgiParts'
  <1>0. /\ ses[s].state = "open" /\ phase[s].at = "header"
        /\ UNCHANGED <<ses, queue_out, lost, w>> /\ phase' = [phase EXCEPT ![s].at = "queued"]
    BY DEF RequestCb
  <1>1. PICK e \in Exchanges : /\ e[1] = s /\ ses[s].head = <<e>> /\ Head(ses[s].head) = e
                               /\ Listed(e) /\ ex[e].live /\ ~InHand(e) /\ ~ex[e].done
    BY <1>0, HeaderOnly
  <1> DEFINE k == phase[s].req
             n == ex[e].ref + 1
  <1>2. ex' = [ex EXCEPT ![e].resp = k, ![e].ref = @ + 1] /\ queue_in' = Append(queue_in, e)
    BY <1>1 DEF RequestCb
  <1>3. k \in Requests /\ k \in Nat /\ phase \in [Sess -> PhaseRec]
    BY <1>0 DEF WsgiParts, NumInv, Requests, WsgiType
  <1>4. ex \in [Exchanges -> ExRec] /\ ex[e].ref \in Nat /\ n \in Nat
    BY DEF WsgiParts, WsgiType, ExRec
  <1>5. ex' = [ex EXCEPT ![e].resp = k, ![e].ref = n]
    BY <1>2
  <1> HIDE DEF k, n
  <1>6. /\ ex' \in [Exchanges -> ExRec] /\ \A f \in Exchanges : f # e => ex'[f] = ex[f]
        /\ ex'[e].ref = n /\ ex'[e].resp = k /\ ex'[e].live = ex[e].live /\ ex'[e].sent = ex[e].sent
        /\ ex'[e].done = ex[e].done
    BY <1>3, <1>4, <1>5 DEF ExRec
  <1>7. /\ phase' \in [Sess -> PhaseRec] /\ phase'[s].at = "queued" /\ phase'[s].req = k
        /\ \A t \in Sess : t # s => phase'[t] = phase[t]
    BY <1>0, <1>3 DEF PhaseRec, k
  <1>8. /\ queue_in' \in Seq(Exchanges)
        /\ Queued(queue_in', e) = Queued(queue_in, e) + 1
        /\ \A f \in Exchanges : f # e => Queued(queue_in', f) = Queued(queue_in, f)
        /\ \A f \in Exchanges : Queued(queue_in, f) \in Nat /\ Queued(queue_out, f) \in Nat
    BY <1>2, QueuedAppend, QueuedNat DEF WsgiParts, WsgiType
  <1>9. \A f \in Exchanges : /\ Listed(f)' = Listed(f) /\ WorkedOn(f)' = WorkedOn(f)
                             /\ ex'[f].live = ex[f].live /\ ex'[f].sent = ex[f].sent /\ ex'[f].done = ex[f].done
    BY <1>0, <1>6 DEF Listed, WorkedOn
  <1>10. Queued(queue_in, e) = 0 /\ ~WorkedOn(e) /\ e \notin lost
    BY <1>1, <1>8 DEF InHand
  <1>11. WsgiType'
    BY <1>0, <1>6, <1>7, <1>8 DEF WsgiParts, WsgiType
  <1>12. RefInv'
    <2> SUFFICES ASSUME NEW f \in Exchanges, ex'[f].live
                 PROVE  ex'[f].ref = Refs(f)'
      BY DEF RefInv
    <2> DEFINE a == B2N(Listed(f)) + B2N(~ex[f].sent) + B2N(f \in lost)
               b == WRefs(w, lost, f)
    <2>1. ex[f].ref = a + Queued(queue_in, f) + Queued(queue_out, f) + b
      BY <1>9 DEF WsgiParts, RefInv, Refs
    <2>2. Refs(f)' = a + Queued(queue_in', f) + Queued(queue_out, f) + b
      BY <1>0, <1>9 DEF Refs
    <2>3. a \in Nat /\ b \in Nat
      BY B2NIs, WRefsIs
    <2> HIDE DEF a, b
    <2>4. CASE f = e
      BY <1>6, <1>8, <2>1, <2>2, <2>3, <2>4 DEF n
    <2>5. CASE f # e
      BY <1>6, <1>8, <2>1, <2>2, <2>5
    <2> QED
      BY <2>4, <2>5
  <1>13. DeadInv'
    BY <1>0, <1>1, <1>8, <1>9 DEF WsgiParts, DeadInv
  <1>14. CountInv'
    <2>1. \A t \in Sess : LiveOf(t)' = LiveOf(t)
      BY <1>9 DEF LiveOf
    <2> QED
      BY <1>0, <2>1 DEF WsgiParts, CountInv
  <1>15. ListInv'
    <2>1. \A t \in Sess : (phase'[t].at = "done") = (phase[t].at = "done")
      BY <1>0, <1>7
    <2> QED
      BY <1>0, <1>9, <2>1 DEF WsgiParts, ListInv
  <1>16. PoolInv'
    <2>1. \A t \in Sess : \A i \in 1..Len(ses[t].pool) : ses[t].pool[i] \in Exchanges
      BY DEF WsgiParts, WsgiType, SesRec
    <2>2. w.pc = "pool" => w.ex \in Exchanges
      BY DEF WsgiParts, WsgiType
    <2> QED
      BY <1>0, <1>9, <2>1, <2>2 DEF WsgiParts, PoolInv, Orderly
  <1>17. OnceInv'
    <2> SUFFICES ASSUME NEW f \in Exchanges
                 PROVE  /\ Queued(queue_in', f) <= 1
                        /\ Queued(queue_in', f) > 0 => ~WorkedOn(f)' /\ f \notin lost'
                        /\ WorkedOn(f)' => f \notin lost'
                        /\ Listed(f)' /\ phase'[f[1]].at = "header" => ~InHand(f)' /\ ~ex'[f].done
      BY DEF OnceInv
    <2>1. CASE f = e
      BY <1>0, <1>1, <1>7, <1>8, <1>9, <1>10, <2>1
    <2>2. CASE f # e
      <3>1. phase'[f[1]].at = "header" => phase[f[1]].at = "header"
        BY <1>7, ExchangeIs
      <3>2. InHand(f)' = InHand(f)
        BY <1>0, <1>8, <1>9, <2>2 DEF InHand
      <3> QED
        BY <1>0, <1>8, <1>9, <2>2, <3>1, <3>2 DEF WsgiParts, OnceInv
    <2> QED
      BY <2>1, <2>2
  <1>18. DoneInv'
    <2>1. \A f \in Exchanges : f # e => Coming(f)' = Coming(f)
      BY <1>0, <1>8 DEF Coming
    <2> QED
      BY <1>0, <1>1, <1>9, <2>1 DEF WsgiParts, DoneInv
  <1>19. NumInv'
    <2>1. \A t \in Sess : phase'[t].at # "done" => phase'[t].req \in Requests
      BY <1>3, <1>7 DEF WsgiParts, NumInv
    <2>2. \A f \in Exchanges : f # e => InHand(f)' = InHand(f)
      BY <1>0, <1>8, <1>9 DEF InHand
    <2>3. ASSUME NEW f \in Exchanges, InHand(f)' \/ Queued(queue_out', f) > 0
          PROVE  ex'[f].resp \in Requests
      <3>1. CASE f = e
        BY <1>3, <1>6, <3>1
      <3>2. CASE f # e
        BY <1>0, <1>6, <2>2, <2>3, <3>2 DEF WsgiParts, NumInv
      <3> QED
        BY <3>1, <3>2
    <2> QED
      BY <2>1, <2>3 DEF NumInv
  <1>20. LockMeansClosed'
    BY <1>0 DEF WsgiParts, LockMeansClosed
  <1> QED
    BY <1>11, <1>12, <1>13, <1>14, <1>15, <1>16, <1>17, <1>18, <1>19, <1>20 DEF WsgiParts

SameBut(x, y, e) == \A f \in Exchanges : f # e => y[f] = x[f]

\* The first of a pool and the rest.
LEMMA PoolTail ==
    ASSUME NEW p \in Seq(Exchanges), p # << >>, NEW s, NEW x, NEW y, Orderly(p, s, x),
           SameBut(x, y, Head(p))
    PROVE  /\ Head(p) \in Exchanges /\ Head(p)[1] = s /\ IsPooled(Head(p)) /\ ~x[Head(p)].live
           /\ Tail(p) \in Seq(Exchanges) /\ Orderly(Tail(p), s, y)
           /\ \A f : Without(p, f) => f # Head(p) /\ Without(Tail(p), f)
  <1> DEFINE q == Tail(p)
             n == Len(p)
  <1>1. /\ n \in Nat /\ 1 \in 1..n /\ Head(p) = p[1] /\ q \in Seq(Exchanges) /\ Len(q) = n - 1
        /\ \A i \in 1..Len(q) : i \in 1..n /\ i + 1 \in 1..n /\ q[i] = p[i + 1] /\ i + 1 # 1
        /\ \A i \in 1..n : p[i] \in Exchanges
    OBVIOUS
  <1> HIDE DEF q
  <1>2. Head(p) \in Exchanges /\ Head(p)[1] = s /\ IsPooled(Head(p)) /\ ~x[Head(p)].live
    BY <1>1 DEF Orderly
  <1>3. \A i \in 1..Len(q) : q[i] # Head(p) /\ q[i] \in Exchanges
    BY <1>1 DEF Orderly
  <1>4. \A i \in 1..Len(q) : q[i][1] = s /\ IsPooled(q[i]) /\ ~y[q[i]].live
    <2> TAKE i \in 1..Len(q)
    <2>1. i + 1 \in 1..n /\ q[i] = p[i + 1] /\ y[q[i]] = x[q[i]]
      BY <1>1, <1>3 DEF SameBut
    <2>2. p[i + 1][1] = s /\ IsPooled(p[i + 1]) /\ ~x[p[i + 1]].live
      BY <2>1 DEF Orderly
    <2> QED
      BY <2>1, <2>2
  <1>5. \A i, j \in 1..Len(q) : i # j => q[i] # q[j]
    <2> SUFFICES ASSUME NEW i \in 1..Len(q), NEW j \in 1..Len(q), i # j
                 PROVE  q[i] # q[j]
      OBVIOUS
    <2>1. i + 1 \in 1..n /\ j + 1 \in 1..n /\ i + 1 # j + 1 /\ q[i] = p[i + 1] /\ q[j] = p[j + 1]
      BY <1>1
    <2> QED
      BY <2>1 DEF Orderly
  <1>6. ASSUME NEW f, Without(p, f)
        PROVE  f # Head(p) /\ Without(q, f)
    BY <1>1, <1>6 DEF Without
  <1> QED
    BY <1>1, <1>2, <1>4, <1>5, <1>6 DEF Orderly, q

\* ymo_wsgi_session_create_exchange takes an exchange that nobody uses.
LEMMA Taken ==
    ASSUME WsgiParts, NEW s \in Sess, NEW e \in Available(s),
           NEW y, SameBut(ex, y, e), NEW p,
           ses[s].pool # << >> => p = Tail(ses[s].pool), ses[s].pool = << >> => p = << >>
    PROVE  /\ e \in Exchanges /\ e[1] = s /\ ~ex[e].live
           /\ p \in Seq(Exchanges) /\ Orderly(p, s, y)
           /\ \A f \in Exchanges : Without(ses[s].pool, f) /\ IsPooled(f) => f # e /\ Without(p, f)
  <1>0. ses[s].pool \in Seq(Exchanges) /\ Orderly(ses[s].pool, s, ex)
    BY DEF WsgiParts, WsgiType, SesRec, PoolInv
  <1>1. CASE ses[s].pool # << >>
    <2>1. e = Head(ses[s].pool) /\ p = Tail(ses[s].pool)
      BY <1>1 DEF Available
    <2> DEFINE q == ses[s].pool
               x == ex
    <2>2. q \in Seq(Exchanges) /\ q # << >> /\ Orderly(q, s, x) /\ SameBut(x, y, Head(q))
      BY <1>0, <1>1, <2>1
    <2> HIDE DEF q, x
    <2>3. /\ Head(q) \in Exchanges /\ Head(q)[1] = s /\ IsPooled(Head(q)) /\ ~x[Head(q)].live
          /\ Tail(q) \in Seq(Exchanges) /\ Orderly(Tail(q), s, y)
          /\ \A f : Without(q, f) => f # Head(q) /\ Without(Tail(q), f)
      BY <2>2, PoolTail
    <2> QED
      BY <2>1, <2>3 DEF q, x
  <1>2. CASE ses[s].pool = << >>
    <2>1. p = << >> /\ \E j \in (PoolEx + 1)..MaxEx : e = <<s, j>> /\ ~ex[e].live
      BY <1>2 DEF Available
    <2>2. PICK j \in (PoolEx + 1)..MaxEx : e = <<s, j>> /\ ~ex[e].live
      BY <2>1
    <2>3. PoolEx \in Nat /\ MaxEx \in Nat
      BY WsgiAssumption
    <2>4. e \in Exchanges /\ e[1] = s /\ ~IsPooled(e)
      BY <2>2, <2>3 DEF Exchanges, IsPooled
    <2>5. p \in Seq(Exchanges) /\ Orderly(p, s, y) /\ \A f : Without(p, f)
      <3>1. p = << >> /\ Len(p) = 0 /\ 1..Len(p) = {}
        BY <2>1
      <3>2. p \in Seq(Exchanges)
        BY <3>1
      <3>3. Orderly(p, s, y) /\ \A f : Without(p, f)
        BY <3>1 DEF Orderly, Without
      <3> QED
        BY <3>2, <3>3
    <2> QED
      BY <2>2, <2>4, <2>5
  <1> QED
    BY <1>1, <1>2

LEMMA NewExchange ==
    /\ [NoExchange EXCEPT !.live = TRUE, !.ref = 2] \in ExRec
    /\ [NoExchange EXCEPT !.live = TRUE, !.ref = 2].live = TRUE
    /\ [NoExchange EXCEPT !.live = TRUE, !.ref = 2].ref = 2
    /\ [NoExchange EXCEPT !.live = TRUE, !.ref = 2].done = FALSE
    /\ [NoExchange EXCEPT !.live = TRUE, !.ref = 2].sent = FALSE
    /\ [NoExchange EXCEPT !.live = TRUE, !.ref = 2].resp = 0
    /\ [NoExchange EXCEPT !.live = TRUE, !.ref = 2].data = << >>
  <1>1. << >> \in Seq(Nat)
    OBVIOUS
  <1> QED
    BY <1>1 DEF NoExchange, ExRec

\* What ymo_wsgi_server_header_cb changes.
LEMMA HeaderChanges ==
    ASSUME WsgiParts, ~Pipelining, NEW s \in Sess, NEW e \in Available(s), HeaderCb(s, e)
    PROVE  /\ e \in Exchanges /\ e[1] = s /\ ~ex[e].live /\ ses[s].state = "open" /\ phase[s].at = "done"
           /\ ses[s].head = << >>
           /\ ses' \in [Sess -> SesRec] /\ \A t \in Sess : t # s => ses'[t] = ses[t]
           /\ ses'[s].ref = ses[s].ref + 1 /\ ses'[s].state = "open" /\ ses'[s].head = <<e>>
           /\ ses'[s].closed = ses[s].closed /\ ses'[s].lock = ses[s].lock
           /\ ex' \in [Exchanges -> ExRec] /\ \A f \in Exchanges : f # e => ex'[f] = ex[f]
           /\ ex'[e].live /\ ex'[e].ref = 2 /\ ~ex'[e].sent /\ ~ex'[e].done /\ ex'[e].resp = 0
           /\ Orderly(ses'[s].pool, s, ex')
           /\ \A f \in Exchanges : Without(ses[s].pool, f) /\ IsPooled(f) => f # e /\ Without(ses'[s].pool, f)
           /\ phase' \in [Sess -> PhaseRec] /\ phase'[s].at = "header" /\ phase'[s].req \in Requests
           /\ \A t \in Sess : t # s => phase'[t] = phase[t]
           /\ UNCHANGED <<queue_in, queue_out, lost, w>>
  <1> DEFINE p == IF ses[s].pool # << >> THEN Tail(ses[s].pool) ELSE ses[s].pool
             N == [NoExchange EXCEPT !.live = TRUE, !.ref = 2]
             k == ses[s].ref + 1
  <1>0. /\ ses[s].state = "open" /\ phase[s].at = "done" /\ phase[s].req < MaxReqs
        /\ ses' = [ses EXCEPT ![s].pool = IF @ # << >> THEN Tail(@) ELSE @,
                              ![s].head = Append(@, e), ![s].ref = @ + 1]
        /\ ex' = [ex EXCEPT ![e] = N]
        /\ phase' = [phase EXCEPT ![s] = [req |-> @.req + 1, at |-> "header"]]
        /\ UNCHANGED <<queue_in, queue_out, lost, w>>
    BY DEF HeaderCb
  <1>1. ses \in [Sess -> SesRec] /\ ex \in [Exchanges -> ExRec] /\ phase \in [Sess -> PhaseRec]
    BY DEF WsgiParts, WsgiType
  <1>2. ses[s].head = << >>
    BY <1>0 DEF WsgiParts, ListInv
  <1>3. e \in Exchanges /\ e[1] = s /\ ~ex[e].live /\ p \in Seq(Exchanges)
    <2> HIDE DEF p
    <2>1. (ses[s].pool # << >> => p = Tail(ses[s].pool)) /\ (ses[s].pool = << >> => p = << >>)
      BY DEF p
    <2>2. SameBut(ex, ex, e)
      BY DEF SameBut
    <2> QED
      BY <2>1, <2>2, Taken
  <1>4. N \in ExRec /\ N.live = TRUE /\ N.ref = 2 /\ N.done = FALSE /\ N.sent = FALSE /\ N.resp = 0
    BY NewExchange
  <1> HIDE DEF N
  <1>5. /\ ex' \in [Exchanges -> ExRec] /\ \A f \in Exchanges : f # e => ex'[f] = ex[f]
        /\ ex'[e] = N
    BY <1>0, <1>1, <1>3, <1>4
  <1>6. /\ Orderly(p, s, ex')
        /\ \A f \in Exchanges : Without(ses[s].pool, f) /\ IsPooled(f) => f # e /\ Without(p, f)
    <2> DEFINE y == ex'
    <2>1. SameBut(ex, y, e)
      BY <1>5 DEF SameBut
    <2>2. (ses[s].pool # << >> => p = Tail(ses[s].pool)) /\ (ses[s].pool = << >> => p = << >>)
      OBVIOUS
    <2> HIDE DEF y, p
    <2>3. /\ Orderly(p, s, y)
          /\ \A f \in Exchanges : Without(ses[s].pool, f) /\ IsPooled(f) => f # e /\ Without(p, f)
      BY <2>1, <2>2, Taken
    <2> QED
      BY <2>3 DEF y
  <1>7. /\ ses' \in [Sess -> SesRec] /\ \A t \in Sess : t # s => ses'[t] = ses[t]
        /\ ses'[s].ref = k /\ ses'[s].state = "open" /\ ses'[s].head = <<e>>
        /\ ses'[s].closed = ses[s].closed /\ ses'[s].lock = ses[s].lock /\ ses'[s].pool = p
    <2>1. ses' = [ses EXCEPT ![s].pool = p, ![s].head = <<e>>, ![s].ref = k]
      <3>1. Append(ses[s].head, e) = <<e>>
        BY <1>2
      <3>2. ses' = [ses EXCEPT ![s].pool = p, ![s].head = Append(@, e), ![s].ref = @ + 1]
        BY <1>0
      <3> HIDE DEF p, k
      <3> QED
        BY <1>1, <3>1, <3>2 DEF k
    <2>2. <<e>> \in Seq(Exchanges) /\ k \in Nat
      BY <1>1, <1>3 DEF SesRec
    <2> HIDE DEF p, k
    <2> QED
      BY <1>0, <1>1, <1>3, <2>1, <2>2 DEF SesRec
  <1>8. /\ phase' \in [Sess -> PhaseRec] /\ phase'[s].at = "header" /\ phase'[s].req \in Requests
        /\ \A t \in Sess : t # s => phase'[t] = phase[t]
    <2> DEFINE r == phase[s].req + 1
    <2>1. r \in Requests /\ r \in 0..MaxReqs
      BY <1>0, <1>1, WsgiAssumption DEF PhaseRec, Requests
    <2>2. phase' = [phase EXCEPT ![s] = [req |-> r, at |-> "header"]]
      BY <1>0
    <2> HIDE DEF r
    <2> QED
      BY <1>1, <2>1, <2>2 DEF PhaseRec
  <1> HIDE DEF p
  <1> QED
    BY <1>0, <1>2, <1>3, <1>4, <1>5, <1>6, <1>7, <1>8, ZenonT(60)

LEMMA StepHeaderCb ==
    ASSUME WsgiParts, ~Pipelining, NEW s \in Sess, NEW e \in Available(s), HeaderCb(s, e)
    PROVE  WsgiParts'
  <1>0. /\ e \in Exchanges /\ e[1] = s /\ ~ex[e].live /\ ses[s].state = "open" /\ phase[s].at = "done"
        /\ ses[s].head = << >> /\ ses'[s].head = <<e>>
        /\ UNCHANGED <<queue_in, queue_out, lost, w>>
    BY HeaderChanges
  <1>1. ses' \in [Sess -> SesRec] /\ \A t \in Sess : t # s => ses'[t] = ses[t]
    BY HeaderChanges
  <1>2. /\ ses'[s].ref = ses[s].ref + 1 /\ ses'[s].state = "open"
        /\ ses'[s].closed = ses[s].closed /\ ses'[s].lock = ses[s].lock
    BY HeaderChanges
  <1>3. /\ ex' \in [Exchanges -> ExRec] /\ \A f \in Exchanges : f # e => ex'[f] = ex[f]
        /\ ex'[e].live /\ ex'[e].ref = 2 /\ ~ex'[e].sent /\ ~ex'[e].done /\ ex'[e].resp = 0
    BY HeaderChanges
  <1>4. /\ Orderly(ses'[s].pool, s, ex')
        /\ \A f \in Exchanges : Without(ses[s].pool, f) /\ IsPooled(f) => f # e /\ Without(ses'[s].pool, f)
    BY HeaderChanges
  <1>5. /\ phase' \in [Sess -> PhaseRec] /\ phase'[s].at = "header" /\ phase'[s].req \in Requests
        /\ \A t \in Sess : t # s => phase'[t] = phase[t]
    BY HeaderChanges
  <1>6. /\ ~Listed(e) /\ e \notin lost /\ Queued(queue_in, e) = 0 /\ Queued(queue_out, e) = 0
        /\ ~(w.ex = e /\ w.pc \in Using) /\ ~WorkedOn(e) /\ ~Coming(e)
    <2>1. /\ ~Listed(e) /\ e \notin lost /\ Queued(queue_in, e) = 0 /\ Queued(queue_out, e) = 0
          /\ ~(w.ex = e /\ w.pc \in Using)
      BY <1>0 DEF WsgiParts, DeadInv
    <2> QED
      BY <2>1 DEF WorkedOn, Coming, Using, Early
  <1>7. /\ Listed(e)'
        /\ \A f \in Exchanges : f # e => Listed(f)' = Listed(f) /\ WorkedOn(f)' = WorkedOn(f)
                                         /\ Coming(f)' = Coming(f) /\ InHand(f)' = InHand(f)
    <2>1. ASSUME NEW f \in Exchanges, f # e PROVE Listed(f)' = Listed(f)
      <3>1. CASE f[1] = s
        BY <1>0, <2>1, <3>1 DEF Listed
      <3>2. CASE f[1] # s
        BY <1>1, <3>2, ExchangeIs DEF Listed
      <3> QED
        BY <3>1, <3>2
    <2>2. Listed(e)'
      BY <1>0 DEF Listed
    <2> QED
      BY <1>0, <2>1, <2>2 DEF WorkedOn, Coming, InHand
  <1>8. WsgiType'
    BY <1>0, <1>1, <1>3, <1>5 DEF WsgiParts, WsgiType
  <1>9. RefInv'
    <2> SUFFICES ASSUME NEW f \in Exchanges, ex'[f].live
                 PROVE  ex'[f].ref = Refs(f)'
      BY DEF RefInv
    <2>1. CASE f = e
      <3>1. WRefs(w, lost, e) = 0
        BY <1>6, WRefsIs
      <3>2. B2N(Listed(e)') = 1 /\ B2N(~ex'[e].sent) = 1 /\ B2N(e \in lost) = 0
        BY <1>3, <1>6, <1>7 DEF B2N
      <3> QED
        BY <1>0, <1>3, <1>6, <2>1, <3>1, <3>2 DEF Refs
    <2>2. CASE f # e
      BY <1>0, <1>3, <1>7, <2>2 DEF WsgiParts, RefInv, Refs
    <2> QED
      BY <2>1, <2>2
  <1>10. DeadInv'
    BY <1>0, <1>3, <1>7 DEF WsgiParts, DeadInv
  <1>11. CountInv'
    <2> SUFFICES ASSUME NEW t \in Sess
                 PROVE  /\ ses'[t].ref = B2N(ses'[t].state \in Held) + Cardinality(LiveOf(t)')
                        /\ ses'[t].state \in {"none", "freed"} => ses'[t].ref = 0
      BY DEF CountInv
    <2>1. CASE t # s
      <3>1. LiveOf(t)' = LiveOf(t)
        BY <1>0, <1>3, <2>1 DEF LiveOf
      <3> QED
        BY <1>1, <2>1, <3>1 DEF WsgiParts, CountInv
    <2>2. CASE t = s
      <3> DEFINE S == LiveOf(s)
                 n == Cardinality(S)
      <3>1. LiveOf(s)' = S \cup {e} /\ e \notin S
        BY <1>0, <1>3 DEF LiveOf
      <3>2. IsFiniteSet(S) /\ n \in Nat
        BY OfSessionFinite DEF LiveOf
      <3>3. Cardinality(LiveOf(s)') = n + 1
        BY <3>1, <3>2, FS_AddElement
      <3>4. B2N(ses[s].state \in Held) = 1 /\ B2N(ses'[s].state \in Held) = 1
        BY <1>0, <1>2 DEF B2N, Held
      <3>5. ses[s].ref = 1 + n
        BY <3>4 DEF WsgiParts, CountInv
      <3> HIDE DEF S, n
      <3> QED
        BY <1>2, <2>2, <3>2, <3>3, <3>4, <3>5
    <2> QED
      BY <2>1, <2>2
  <1>12. ListInv'
    <2>1. ASSUME NEW t \in Sess
          PROVE  /\ ses'[t].head = << >> \/ \E f \in Exchanges : f[1] = t /\ ses'[t].head = <<f>>
                 /\ ses'[t].state \notin Held => ses'[t].head = << >>
                 /\ ses'[t].state \in {"closing", "emptying", "closed"} => ses'[t].closed
                 /\ ses'[t].state = "open" => ~ses'[t].closed /\ (phase'[t].at = "done") = (ses'[t].head = << >>)
                 /\ ses'[t].state = "none" => phase'[t].at = "done"
      <3>1. CASE t = s
        <4>1. <<e>> # << >> /\ "open" \in Held
          BY DEF Held
        <4>2. ~ses[s].closed
          BY <1>0 DEF WsgiParts, ListInv
        <4>3. \E f \in Exchanges : f[1] = t /\ ses'[t].head = <<f>>
          BY <1>0, <3>1
        <4> QED
          BY <1>0, <1>2, <1>5, <3>1, <4>1, <4>2, <4>3
      <3>2. CASE t # s
        BY <1>1, <1>5, <2>1, <3>2 DEF WsgiParts, ListInv
      <3> QED
        BY <3>1, <3>2
    <2>2. ASSUME NEW f \in Exchanges, ex'[f].live
          PROVE  /\ Listed(f)' => ~ex'[f].sent
                 /\ ses'[f[1]].state \in {"open", "closing"} /\ ~ex'[f].sent => Listed(f)'
      <3>1. CASE f = e
        BY <1>3, <1>7, <3>1
      <3>2. CASE f # e
        <4>1. ses'[f[1]].state = ses[f[1]].state
          BY <1>0, <1>1, <1>2, ExchangeIs
        <4> QED
          BY <1>3, <1>7, <2>2, <3>2, <4>1 DEF WsgiParts, ListInv
      <3> QED
        BY <3>1, <3>2
    <2> QED
      BY <2>1, <2>2 DEF ListInv
  <1>13. PoolInv'
    <2>1. ASSUME NEW t \in Sess PROVE Orderly(ses'[t].pool, t, ex')
      <3>1. CASE t = s
        BY <1>4, <3>1
      <3>2. CASE t # s
        <4>1. /\ ses'[t] = ses[t] /\ Orderly(ses[t].pool, t, ex)
              /\ \A i \in 1..Len(ses[t].pool) : ses[t].pool[i] \in Exchanges
          BY <1>1, <3>2 DEF WsgiParts, WsgiType, SesRec, PoolInv
        <4> QED
          BY <1>0, <1>3, <3>2, <4>1 DEF Orderly
      <3> QED
        BY <3>1, <3>2
    <2>2. ASSUME w.pc = "pool"
          PROVE  /\ IsPooled(w.ex) /\ ~ex'[w.ex].live /\ ses'[w.ex[1]].state # "none"
                 /\ Without(ses'[w.ex[1]].pool, w.ex)
      <3>1. /\ w.ex \in Exchanges /\ w.ex[1] \in Sess /\ IsPooled(w.ex) /\ ~ex[w.ex].live
            /\ ses[w.ex[1]].state # "none" /\ Without(ses[w.ex[1]].pool, w.ex)
        BY <2>2, ExchangeIs DEF WsgiParts, WsgiType, PoolInv
      <3>2. CASE w.ex[1] = s
        BY <1>2, <1>3, <1>4, <3>1, <3>2
      <3>3. CASE w.ex[1] # s
        BY <1>0, <1>1, <1>3, <3>1, <3>3
      <3> QED
        BY <3>2, <3>3
    <2> QED
      BY <1>0, <2>1, <2>2 DEF PoolInv
  <1>14. OnceInv'
    <2> SUFFICES ASSUME NEW f \in Exchanges
                 PROVE  /\ Queued(queue_in', f) <= 1
                        /\ Queued(queue_in', f) > 0 => ~WorkedOn(f)' /\ f \notin lost'
                        /\ WorkedOn(f)' => f \notin lost'
                        /\ Listed(f)' /\ phase'[f[1]].at = "header" => ~InHand(f)' /\ ~ex'[f].done
      BY DEF OnceInv
    <2>1. CASE f = e
      BY <1>0, <1>3, <1>6, <2>1 DEF InHand, WorkedOn
    <2>2. CASE f # e
      <3>1. Listed(f) => f[1] # s
        BY <1>0 DEF Listed
      <3>2. f[1] # s => phase'[f[1]] = phase[f[1]]
        BY <1>5, ExchangeIs
      <3> QED
        BY <1>0, <1>3, <1>7, <2>2, <3>1, <3>2 DEF WsgiParts, OnceInv
    <2> QED
      BY <2>1, <2>2
  <1>15. DoneInv'
    <2>1. \A f \in Exchanges : ses[f[1]].closed => ses'[f[1]].closed
      BY <1>1, <1>2, ExchangeIs
    <2> QED
      BY <1>3, <1>7, <2>1 DEF WsgiParts, DoneInv
  <1>16. NumInv'
    <2>1. \A t \in Sess : phase'[t].at # "done" => phase'[t].req \in Requests
      BY <1>5 DEF WsgiParts, NumInv
    <2>2. ~InHand(e)'
      BY <1>0, <1>6 DEF InHand, WorkedOn
    <2>3. \A f \in Exchanges : InHand(f)' \/ Queued(queue_out', f) > 0 => ex'[f].resp \in Requests
      BY <1>0, <1>3, <1>6, <1>7, <2>2 DEF WsgiParts, NumInv
    <2> QED
      BY <2>1, <2>3 DEF NumInv
  <1>17. LockMeansClosed'
    BY <1>0, <1>1, <1>2 DEF WsgiParts, LockMeansClosed
  <1> QED
    BY <1>8, <1>9, <1>10, <1>11, <1>12, <1>13, <1>14, <1>15, <1>16, <1>17 DEF WsgiParts

-----------------------------------------------------------------------------
(* The loop lets go of references *)

\* e stays live, and nothing happens to the other exchanges, ...
LoopEx(e) ==
    /\ ex' \in [Exchanges -> ExRec] /\ SameBut(ex, ex', e)
    /\ ex'[e].live /\ ex'[e].resp = ex[e].resp
    /\ (ex'[e].done => ex[e].done \/ (ses[e[1]].closed /\ ses'[e[1]].head = << >>))
\* ... the list of its session is as it was, or had e and is empty now, ...
LoopSes(e) ==
    /\ ses' \in [Sess -> SesRec] /\ \A t \in Sess : t # e[1] => ses'[t] = ses[t] /\ phase'[t] = phase[t]
    /\ ses'[e[1]].state = ses[e[1]].state /\ ses'[e[1]].ref = ses[e[1]].ref /\ ses'[e[1]].pool = ses[e[1]].pool
    /\ ses'[e[1]].closed = ses[e[1]].closed /\ ses'[e[1]].lock = ses[e[1]].lock
    /\ phase' \in [Sess -> PhaseRec]
    /\ \/ ses'[e[1]].head = ses[e[1]].head /\ phase'[e[1]] = phase[e[1]]
       \/ /\ ses[e[1]].head = <<e>> /\ ses'[e[1]].head = << >>
          /\ \/ phase'[e[1]] = phase[e[1]] /\ ses[e[1]].state # "open"
             \/ phase'[e[1]].at = "done" /\ phase'[e[1]].req = phase[e[1]].req
\* ... and so is queue_out.
LoopQueue(e) ==
    /\ UNCHANGED <<queue_in, lost, w>> /\ queue_out' \in Seq(Exchanges)
    /\ \A f \in Exchanges : f # e => Queued(queue_out', f) = Queued(queue_out, f)
    /\ Queued(queue_out', e) > 0 => Queued(queue_out, e) > 0

LEMMA Balance ==
    ASSUME NEW a \in Nat, NEW b \in Nat, NEW c \in Nat, NEW d \in Nat, NEW r \in Nat,
           NEW q \in Nat, NEW p \in Nat, NEW x \in Nat, NEW y \in Nat,
           x = a + b + q + r, y + a + b + q = x + c + d + p
    PROVE  y = c + d + p + r
  OBVIOUS

LEMMA LoopKeeps ==
    ASSUME WsgiParts, NEW e \in Exchanges, ex[e].live, LoopEx(e), LoopSes(e), LoopQueue(e),
           Listed(e)' => ~ex'[e].sent, ses[e[1]].state \in {"open", "closing"} /\ ~ex'[e].sent => Listed(e)',
           ex'[e].ref + B2N(Listed(e)) + B2N(~ex[e].sent) + Queued(queue_out, e)
             = ex[e].ref + B2N(Listed(e)') + B2N(~ex'[e].sent) + Queued(queue_out', e)
    PROVE  WsgiParts'
  <1> DEFINE s == e[1]
  <1>0. s \in Sess /\ ses[s].state # "none" /\ UNCHANGED <<queue_in, lost, w>>
    BY ExchangeIs, LiveCounted DEF LoopQueue
  <1>1. /\ \A f \in Exchanges : f # e => ex'[f] = ex[f] /\ Queued(queue_out', f) = Queued(queue_out, f)
        /\ \A f \in Exchanges : ex'[f].live = ex[f].live /\ ex'[f].resp = ex[f].resp
    <2>1. \A f \in Exchanges : f # e => ex'[f] = ex[f] /\ Queued(queue_out', f) = Queued(queue_out, f)
      BY DEF LoopEx, SameBut, LoopQueue
    <2>2. ex'[e].live = TRUE /\ ex[e].live = TRUE /\ ex'[e].resp = ex[e].resp
      BY DEF LoopEx, WsgiParts, WsgiType, ExRec
    <2> QED
      BY <2>1, <2>2
  <1>2. \A f \in Exchanges : f # e => Listed(f)' = Listed(f)
    <2> SUFFICES ASSUME NEW f \in Exchanges, f # e PROVE Listed(f)' = Listed(f)
      OBVIOUS
    <2>1. CASE f[1] = s
      BY <2>1 DEF Listed, LoopSes
    <2>2. CASE f[1] # s
      BY <2>2, ExchangeIs DEF Listed, LoopSes
    <2> QED
      BY <2>1, <2>2
  <1>3. Listed(e)' => Listed(e)
    BY DEF Listed, LoopSes
  <1>4. \A t \in Sess : /\ ses'[t].state = ses[t].state /\ ses'[t].ref = ses[t].ref /\ ses'[t].pool = ses[t].pool
                        /\ ses'[t].closed = ses[t].closed /\ ses'[t].lock = ses[t].lock
    BY DEF LoopSes
  <1>5. \A t \in Sess : phase'[t] = phase[t] \/ (phase'[t].at = "done" /\ phase'[t].req = phase[t].req)
    BY DEF LoopSes
  <1>6. \A f \in Exchanges : InHand(f)' = InHand(f) /\ WorkedOn(f)' = WorkedOn(f) /\ Coming(f)' = Coming(f)
    BY <1>0 DEF InHand, WorkedOn, Coming
  <1>7. WsgiType'
    BY <1>0 DEF WsgiParts, WsgiType, LoopEx, LoopSes, LoopQueue
  <1>8. RefInv'
    <2> SUFFICES ASSUME NEW f \in Exchanges, ex'[f].live
                 PROVE  ex'[f].ref = Refs(f)'
      BY DEF RefInv
    <2>1. CASE f = e
      <3> DEFINE a == B2N(Listed(e))
                 b == B2N(~ex[e].sent)
                 c == B2N(Listed(e)')
                 d == B2N(~ex'[e].sent)
                 l == B2N(e \in lost)
                 n == WRefs(w, lost, e)
      <3>1. ex[e].ref = a + b + l + Queued(queue_in, e) + Queued(queue_out, e) + n
        BY DEF WsgiParts, RefInv, Refs
      <3>2. Refs(e)' = c + d + l + Queued(queue_in, e) + Queued(queue_out', e) + n
        BY <1>0 DEF Refs
      <3>3. a \in Nat /\ b \in Nat /\ c \in Nat /\ d \in Nat /\ l \in Nat /\ n \in Nat
        BY B2NIs, WRefsIs
      <3>4. /\ Queued(queue_in, e) \in Nat /\ Queued(queue_out, e) \in Nat /\ Queued(queue_out', e) \in Nat
            /\ ex'[e].ref \in Nat
        BY QueuedNat DEF WsgiParts, WsgiType, LoopQueue, LoopEx, ExRec
      <3>5. ex'[e].ref + a + b + Queued(queue_out, e) = ex[e].ref + c + d + Queued(queue_out', e)
        OBVIOUS
      <3> HIDE DEF a, b, c, d, l, n
      <3>6. ex'[e].ref = c + d + l + Queued(queue_in, e) + Queued(queue_out', e) + n
        <4> DEFINE r == l + Queued(queue_in, e) + n
                   q == Queued(queue_out, e)
                   p == Queued(queue_out', e)
                   x == ex[e].ref
                   y == ex'[e].ref
        <4>1. r \in Nat /\ q \in Nat /\ p \in Nat /\ y \in Nat /\ x \in Nat
          BY <3>3, <3>4, SMTT(40) DEF WsgiParts, WsgiType, ExRec
        <4>2. x = a + b + q + r
          BY <3>1, <3>3, <3>4
        <4>3. y + a + b + q = x + c + d + p
          BY <3>5
        <4>4. c + d + p + r = c + d + l + Queued(queue_in, e) + p + n
          BY <3>3, <3>4
        <4> HIDE DEF r, q, p, x, y
        <4>5. y = c + d + p + r
          BY <3>3, <4>1, <4>2, <4>3, Balance
        <4> QED
          BY <4>4, <4>5 DEF y, p
      <3> QED
        BY <2>1, <3>2, <3>6
    <2>2. CASE f # e
      BY <1>0, <1>1, <1>2, <2>2 DEF WsgiParts, RefInv, Refs
    <2> QED
      BY <2>1, <2>2
  <1>9. DeadInv'
    BY <1>0, <1>1, <1>2 DEF WsgiParts, DeadInv
  <1>10. CountInv'
    <2>1. \A t \in Sess : LiveOf(t)' = LiveOf(t)
      BY <1>1 DEF LiveOf
    <2> QED
      BY <1>4, <2>1 DEF WsgiParts, CountInv
  <1>11. ListInv'
    <2>1. ASSUME NEW t \in Sess
          PROVE  /\ ses'[t].head = << >> \/ \E f \in Exchanges : f[1] = t /\ ses'[t].head = <<f>>
                 /\ ses'[t].state \notin Held => ses'[t].head = << >>
                 /\ ses'[t].state \in {"closing", "emptying", "closed"} => ses'[t].closed
                 /\ ses'[t].state = "open" => ~ses'[t].closed /\ (phase'[t].at = "done") = (ses'[t].head = << >>)
                 /\ ses'[t].state = "none" => phase'[t].at = "done"
      <3>1. CASE ses'[t].head = ses[t].head /\ phase'[t] = phase[t]
        BY <1>4, <2>1, <3>1 DEF WsgiParts, ListInv
      <3>2. CASE t = s /\ ses'[s].head = << >> /\ (ses[s].state = "open" => phase'[s].at = "done")
        BY <1>0, <1>4, <3>2 DEF WsgiParts, ListInv
      <3> QED
        BY <2>1, <3>1, <3>2 DEF LoopSes
    <2>2. ASSUME NEW f \in Exchanges, ex'[f].live
          PROVE  /\ Listed(f)' => ~ex'[f].sent
                 /\ ses'[f[1]].state \in {"open", "closing"} /\ ~ex'[f].sent => Listed(f)'
      <3>0. ses'[f[1]].state = ses[f[1]].state
        BY <1>4, ExchangeIs
      <3>1. CASE f = e
        BY <3>0, <3>1
      <3>2. CASE f # e
        BY <1>1, <1>2, <2>2, <3>0, <3>2 DEF WsgiParts, ListInv
      <3> QED
        BY <3>1, <3>2
    <2> QED
      BY <2>1, <2>2 DEF ListInv
  <1>12. PoolInv'
    <2>1. \A t \in Sess : \A i \in 1..Len(ses[t].pool) : ses[t].pool[i] \in Exchanges
      BY DEF WsgiParts, WsgiType, SesRec
    <2>2. w.pc = "pool" => w.ex \in Exchanges /\ w.ex[1] \in Sess
      BY ExchangeIs DEF WsgiParts, WsgiType
    <2> QED
      BY <1>0, <1>1, <1>4, <2>1, <2>2 DEF WsgiParts, PoolInv, Orderly
  <1>13. OnceInv'
    <2> SUFFICES ASSUME NEW f \in Exchanges
                 PROVE  /\ Queued(queue_in', f) <= 1
                        /\ Queued(queue_in', f) > 0 => ~WorkedOn(f)' /\ f \notin lost'
                        /\ WorkedOn(f)' => f \notin lost'
                        /\ Listed(f)' /\ phase'[f[1]].at = "header" => ~InHand(f)' /\ ~ex'[f].done
      BY DEF OnceInv
    <2>1. /\ Queued(queue_in', f) <= 1
          /\ Queued(queue_in', f) > 0 => ~WorkedOn(f)' /\ f \notin lost'
          /\ WorkedOn(f)' => f \notin lost'
      BY <1>0, <1>6 DEF WsgiParts, OnceInv
    <2>2. ASSUME Listed(f)', phase'[f[1]].at = "header"
          PROVE  ~InHand(f)' /\ ~ex'[f].done
      <3>1. Listed(f) /\ phase[f[1]].at = "header" /\ f[1] \in Sess
        BY <1>2, <1>3, <1>5, <2>2, ExchangeIs
      <3>2. ~InHand(f) /\ ~ex[f].done
        BY <3>1 DEF WsgiParts, OnceInv
      <3>3. CASE f # e
        BY <1>1, <1>6, <3>2, <3>3
      <3>4. CASE f = e
        <4>0. ses'[e[1]].head = <<e>>
          BY <2>2, <3>4 DEF Listed
        <4>1. ses'[s].head # << >>
          BY <4>0
        <4>2. ~ex'[e].done
          BY <3>2, <3>4, <4>1 DEF LoopEx
        <4> QED
          BY <1>6, <3>2, <3>4, <4>2
      <3> QED
        BY <3>3, <3>4
    <2> QED
      BY <2>1, <2>2
  <1>14. DoneInv'
    <2> SUFFICES ASSUME NEW f \in Exchanges, ex'[f].done, Coming(f)'
                 PROVE  ses'[f[1]].closed
      BY DEF DoneInv
    <2>1. ses'[f[1]].closed = ses[f[1]].closed
      BY <1>4, ExchangeIs
    <2>2. CASE f = e
      BY <1>6, <2>1, <2>2 DEF WsgiParts, DoneInv, LoopEx
    <2>3. CASE f # e
      BY <1>1, <1>6, <2>1, <2>3 DEF WsgiParts, DoneInv
    <2> QED
      BY <2>2, <2>3
  <1>15. NumInv'
    <2>1. \A t \in Sess : phase'[t].at # "done" => phase'[t].req \in Requests
      BY <1>5 DEF WsgiParts, NumInv
    <2>2. \A f \in Exchanges : Queued(queue_out', f) > 0 => Queued(queue_out, f) > 0
      BY <1>1 DEF LoopQueue
    <2>3. \A f \in Exchanges : InHand(f)' \/ Queued(queue_out', f) > 0 => ex'[f].resp \in Requests
      BY <1>1, <1>6, <2>2 DEF WsgiParts, NumInv
    <2> QED
      BY <2>1, <2>3 DEF NumInv
  <1>16. LockMeansClosed'
    BY <1>0, <1>4 DEF WsgiParts, LockMeansClosed
  <1> QED
    BY <1>7, <1>8, <1>9, <1>10, <1>11, <1>12, <1>13, <1>14, <1>15, <1>16 DEF WsgiParts

\* How many references an exchange has at least.
LEMMA AtLeast ==
    ASSUME WsgiParts, NEW e \in Exchanges, ex[e].live, NEW a, NEW b,
           a = B2N(Listed(e)), b = B2N(~ex[e].sent)
    PROVE  /\ a \in Nat /\ b \in Nat /\ Queued(queue_out, e) \in Nat /\ ex[e].ref \in Nat
           /\ ex[e].ref >= a + b + Queued(queue_out, e)
  <1>1. a \in Nat /\ b \in Nat /\ Queued(queue_out, e) \in Nat /\ ex[e].ref \in Nat
    BY B2NIs, WRefsIs, QueuedNat DEF WsgiParts, WsgiType, ExRec
  <1>2. ex[e].ref = B2N(Listed(e)) + B2N(~ex[e].sent) + B2N(e \in lost)
                    + Queued(queue_in, e) + Queued(queue_out, e) + WRefs(w, lost, e)
    BY DEF WsgiParts, RefInv, Refs
  <1>3. B2N(e \in lost) \in Nat /\ Queued(queue_in, e) \in Nat /\ WRefs(w, lost, e) \in Nat
    BY B2NIs, WRefsIs, QueuedNat DEF WsgiParts, WsgiType
  <1> DEFINE c == B2N(e \in lost)
  <1>4. c \in Nat /\ ex[e].ref = a + b + c + Queued(queue_in, e) + Queued(queue_out, e) + WRefs(w, lost, e)
    BY <1>2, <1>3
  <1> HIDE DEF c
  <1> QED
    BY <1>1, <1>3, <1>4

\* ymo_wsgi_session_cleanup empties the list.
LEMMA Empties ==
    ASSUME WsgiParts, NEW s \in Sess, SessionEmpty(s)
    PROVE  \E e \in Exchanges :
           /\ e[1] = s /\ ses[s].head = <<e>> /\ ex[e].live /\ ~ex[e].sent
           /\ ses' = [ses EXCEPT ![s].head = << >>] /\ bad' = "none"
           /\ ex' \in [Exchanges -> ExRec] /\ SameBut(ex, ex', e)
           /\ ex'[e].ref = ex[e].ref - 1 /\ ex'[e].live /\ ex'[e].resp = ex[e].resp /\ ~ex'[e].sent
  <1>0. Okay /\ ses[s].head # << >> /\ ses \in [Sess -> SesRec] /\ ex \in [Exchanges -> ExRec]
    BY DEF SessionEmpty, WsgiParts, WsgiType
  <1>1. PICK e \in Exchanges : e[1] = s /\ ses[s].head = <<e>>
    BY <1>0 DEF WsgiParts, ListInv
  <1>2. Listed(e) /\ Head(ses[s].head) = e /\ Tail(ses[s].head) = << >>
    BY <1>1 DEF Listed
  <1>3. ex[e].live /\ ~ex[e].sent
    BY <1>2 DEF WsgiParts, DeadInv, ListInv
  <1>4. ex[e].ref \in Nat /\ ex[e].ref > 1
    <2> DEFINE a == B2N(Listed(e))
               b == B2N(~ex[e].sent)
    <2>1. a = 1 /\ b = 1
      BY <1>2, <1>3 DEF B2N
    <2>2. ex[e].ref \in Nat /\ Queued(queue_out, e) \in Nat /\ ex[e].ref >= a + b + Queued(queue_out, e)
      BY <1>3, AtLeast
    <2> HIDE DEF a, b
    <2> QED
      BY <2>1, <2>2
  <1> DEFINE x == [ex EXCEPT ![e].done = TRUE]
             y == [ses EXCEPT ![s].head = Tail(@)]
             m == [Mem EXCEPT !.ex[e].done = TRUE, !.ses[s].head = Tail(@)]
  <1>5. m.ses = y /\ m.ex = x /\ m.bad = "none" /\ m = [Mem EXCEPT !.ses = y, !.ex = x]
    BY <1>0 DEF Mem, Okay
  <1>a. y = [ses EXCEPT ![s].head = << >>]
    BY <1>2
  <1>6. /\ x \in [Exchanges -> ExRec] /\ SameBut(ex, x, e) /\ x[e].live = ex[e].live /\ x[e].ref = ex[e].ref
        /\ x[e].resp = ex[e].resp /\ x[e].sent = ex[e].sent
    BY <1>0 DEF ExRec, SameBut
  <1>7. y \in [Sess -> SesRec]
    <2>1. << >> \in Seq(Exchanges)
      OBVIOUS
    <2> QED
      BY <1>0, <1>a, <2>1, ZenonT(60) DEF SesRec
  <1> DEFINE d == LoopDecref(m, e)
  <1>8. Store(d)
    BY <1>2 DEF SessionEmpty
  <1> HIDE DEF x, y, m
  <1>9. m \in MemRec /\ m.ses = y /\ m.ex = x /\ m.bad = "none"
    <2>1. Mem \in MemRec
      BY <1>0, MemIs
    <2>2. [Mem EXCEPT !.ses = y, !.ex = x] \in MemRec
      BY <1>6, <1>7, <2>1 DEF MemRec
    <2> QED
      BY <1>5, <2>2
  <1>10. d.ses = y /\ d.bad = "none" /\ d.ex = [x EXCEPT ![e].ref = @ - 1]
    <2>1. m.ex[e].ref > 1 /\ m.ex[e].live
      BY <1>3, <1>4, <1>6, <1>9
    <2>2. /\ ExDecref(m, e).ses = m.ses /\ ExDecref(m, e).bad = m.bad
          /\ ExDecref(m, e).ex = [m.ex EXCEPT ![e].ref = @ - 1]
          /\ LoopDecref(m, e) = ExDecref(m, e)
      BY <1>9, <2>1, DecrefMany
    <2> QED
      BY <1>9, <2>2
  <1>11. ses' = y /\ bad' = "none" /\ ex' = [x EXCEPT ![e].ref = @ - 1]
    BY <1>8, <1>10, StoreIs
  <1> HIDE DEF d
  <1> DEFINE k == ex[e].ref - 1
  <1>12. k \in Nat /\ ex' = [x EXCEPT ![e].ref = k]
    BY <1>4, <1>6, <1>11
  <1> HIDE DEF k
  <1>13. /\ ex' \in [Exchanges -> ExRec] /\ SameBut(x, ex', e) /\ ex'[e] = [x[e] EXCEPT !.ref = k]
    BY <1>6, <1>12, SetRef DEF SameBut
  <1>14. ex'[e].ref = k /\ ex'[e].live = ex[e].live /\ ex'[e].resp = ex[e].resp /\ ex'[e].sent = ex[e].sent
    BY <1>6, <1>13 DEF ExRec
  <1>15. SameBut(ex, ex', e)
    BY <1>6, <1>13 DEF SameBut
  <1> QED
    BY <1>1, <1>3, <1>a, <1>11, <1>13, <1>14, <1>15 DEF k

LEMMA StepSessionEmpty ==
    ASSUME WsgiParts, NEW s \in Sess, SessionEmpty(s)
    PROVE  WsgiParts'
  <1>0. ses[s].state = "emptying" /\ UNCHANGED <<phase, queue_in, queue_out, lost, w>> /\ ses[s].closed
    BY DEF SessionEmpty, WsgiParts, ListInv
  <1>1. PICK e \in Exchanges :
           /\ e[1] = s /\ ses[s].head = <<e>> /\ ex[e].live /\ ~ex[e].sent
           /\ ses' = [ses EXCEPT ![s].head = << >>] /\ bad' = "none"
           /\ ex' \in [Exchanges -> ExRec] /\ SameBut(ex, ex', e)
           /\ ex'[e].ref = ex[e].ref - 1 /\ ex'[e].live /\ ex'[e].resp = ex[e].resp /\ ~ex'[e].sent
    BY Empties
  <1>2. /\ ses' \in [Sess -> SesRec] /\ \A t \in Sess : t # s => ses'[t] = ses[t]
        /\ ses'[s].state = ses[s].state /\ ses'[s].ref = ses[s].ref /\ ses'[s].pool = ses[s].pool
        /\ ses'[s].closed = ses[s].closed /\ ses'[s].lock = ses[s].lock /\ ses'[s].head = << >>
    <2>1. << >> \in Seq(Exchanges) /\ ses \in [Sess -> SesRec]
      BY DEF WsgiParts, WsgiType
    <2> QED
      BY <1>1, <2>1 DEF SesRec
  <1>3. LoopEx(e)
    BY <1>0, <1>1, <1>2 DEF LoopEx
  <1>4. LoopSes(e)
    BY <1>0, <1>1, <1>2 DEF LoopSes, WsgiParts, WsgiType
  <1>5. LoopQueue(e)
    BY <1>0 DEF LoopQueue, WsgiParts, WsgiType
  <1>6. Listed(e) /\ ~Listed(e)'
    BY <1>1, <1>2 DEF Listed
  <1>7. ex'[e].ref + B2N(Listed(e)) + B2N(~ex[e].sent) + Queued(queue_out, e)
          = ex[e].ref + B2N(Listed(e)') + B2N(~ex'[e].sent) + Queued(queue_out', e)
    <2>1. B2N(Listed(e)) = 1 /\ B2N(~ex[e].sent) = 1 /\ B2N(Listed(e)') = 0 /\ B2N(~ex'[e].sent) = 1
      BY <1>1, <1>6 DEF B2N
    <2>2. Queued(queue_out, e) \in Nat /\ ex[e].ref \in Nat /\ Queued(queue_out', e) = Queued(queue_out, e)
      BY <1>0, QueuedNat DEF WsgiParts, WsgiType, ExRec
    <2> QED
      BY <1>1, <2>1, <2>2
  <1> QED
    BY <1>0, <1>1, <1>3, <1>4, <1>5, <1>6, <1>7, LoopKeeps

LEMMA SetPool ==
    ASSUME NEW x \in [Sess -> SesRec], NEW s \in Sess, NEW p \in Seq(Exchanges), NEW y, y = [x EXCEPT ![s].pool = p]
    PROVE  /\ y \in [Sess -> SesRec] /\ \A t \in Sess : t # s => y[t] = x[t]
           /\ y[s].ref = x[s].ref /\ y[s].pool = p /\ y[s].state = x[s].state /\ y[s].head = x[s].head
           /\ y[s].closed = x[s].closed /\ y[s].lock = x[s].lock
  <1>1. y \in [Sess -> SesRec] /\ y[s] = [x[s] EXCEPT !.pool = p] /\ \A t \in Sess : t # s => y[t] = x[t]
    BY DEF SesRec
  <1> QED
    BY <1>1 DEF SesRec

LEMMA DomainKept ==
    ASSUME NEW m \in MemRec, NEW e \in Exchanges
    PROVE  DOMAIN ExDecref(m, e) = {"ses", "ex", "bad"}
  <1>1. DOMAIN m = {"ses", "ex", "bad"}
    BY DEF MemRec
  <1> QED
    BY <1>1 DEF ExDecref, SesDecref

\* A decref by the loop, when the reference is not the last, ...
LEMMA OneLess ==
    ASSUME NEW m \in MemRec, NEW e \in Exchanges, m.ex[e].ref > 1, m.ex[e].live, NEW n, n = LoopDecref(m, e)
    PROVE  /\ n \in MemRec /\ n.ses = m.ses /\ n.bad = m.bad /\ SameBut(m.ex, n.ex, e)
           /\ n.ex[e].ref = m.ex[e].ref - 1 /\ n.ex[e].live /\ n.ex[e].sent = m.ex[e].sent
           /\ n.ex[e].done = m.ex[e].done /\ n.ex[e].resp = m.ex[e].resp /\ n.ex[e].data = m.ex[e].data
  <1>1. n \in MemRec /\ n.ses = m.ses /\ n.bad = m.bad /\ n.ex = [m.ex EXCEPT ![e].ref = @ - 1] /\ n.ex[e].live
    BY DecrefMany, SMTT(40)
  <1> DEFINE k == m.ex[e].ref - 1
             x == m.ex
             y == n.ex
  <1>2. x \in [Exchanges -> ExRec] /\ k \in Nat /\ y = [x EXCEPT ![e].ref = k]
    BY <1>1 DEF MemRec, ExRec
  <1> HIDE DEF k, x, y
  <1>3. SameBut(x, y, e) /\ y[e] = [x[e] EXCEPT !.ref = k]
    BY <1>2, SetRef DEF SameBut
  <1>4. /\ y[e].ref = k /\ y[e].sent = x[e].sent /\ y[e].done = x[e].done /\ y[e].resp = x[e].resp
        /\ y[e].data = x[e].data
    BY <1>2, <1>3 DEF ExRec
  <1> QED
    BY <1>1, <1>3, <1>4 DEF k, x, y

Ended(m, n, e) ==
    /\ n.ex \in [Exchanges -> ExRec] /\ ~n.ex[e].live /\ SameBut(m.ex, n.ex, e)
    /\ n.ses \in [Sess -> SesRec] /\ \A t \in Sess : t # e[1] => n.ses[t] = m.ses[t]
    /\ \/ m.ses[e[1]].ref = 1 /\ n.ses[e[1]] = FreedSession
       \/ /\ m.ses[e[1]].ref # 1 /\ n.ses[e[1]].ref = m.ses[e[1]].ref - 1
          /\ n.ses[e[1]].state = m.ses[e[1]].state /\ n.ses[e[1]].closed = m.ses[e[1]].closed
          /\ n.ses[e[1]].lock = m.ses[e[1]].lock /\ n.ses[e[1]].head = m.ses[e[1]].head
          /\ \/ n.ses[e[1]].pool = m.ses[e[1]].pool
             \/ IsPooled(e) /\ n.ses[e[1]].pool = <<e>> \o m.ses[e[1]].pool

\* ... and when it is: the exchange goes back to the pool of a session that is left.
LEMMA LoopLast ==
    ASSUME NEW m \in MemRec, NEW e \in Exchanges, ~(m.ex[e].ref > 1), m.ses[e[1]].state # "freed",
           m.bad = "none", m.ses[e[1]].ref # 0, NEW n, n = LoopDecref(m, e), n.bad = "none"
    PROVE  Ended(m, n, e)
  <1> DEFINE s == e[1]
             d == ExDecref(m, e)
             x == m.ses
  <1>0. s \in Sess /\ m.ses \in [Sess -> SesRec] /\ m.ex \in [Exchanges -> ExRec] /\ x[s].ref \in Nat
    BY ExchangeIs DEF MemRec, SesRec
  <1>1. /\ d.ex = [m.ex EXCEPT ![e] = NoExchange]
        /\ m.ses[s].ref = 1 => d.ses = [m.ses EXCEPT ![s] = FreedSession] /\ d.bad = IF IsPooled(e) THEN "freed" ELSE m.bad
        /\ m.ses[s].ref # 1 => d.ses = [m.ses EXCEPT ![s].ref = @ - 1] /\ d.bad = m.bad
    BY DecrefLast
  <1>2. d.ex \in [Exchanges -> ExRec] /\ ~d.ex[e].live /\ SameBut(m.ex, d.ex, e)
    BY <1>0, <1>1, Freed DEF SameBut
  <1>3. n = IF d.ex[e].live \/ d.bad # "none" \/ d.ses[s].state = "freed" THEN d ELSE ToPool(d, e)
    BY DEF LoopDecref
  <1>4. CASE m.ses[s].ref = 1
    <2>1. d.ses \in [Sess -> SesRec] /\ d.ses[s] = FreedSession /\ \A t \in Sess : t # s => d.ses[t] = m.ses[t]
      BY <1>0, <1>1, <1>4, Freed
    <2>2. n = d
      BY <1>3, <2>1, Freed
    <2> QED
      BY <1>2, <1>4, <2>1, <2>2 DEF Ended
  <1>5. CASE m.ses[s].ref # 1
    <2> DEFINE k == x[s].ref - 1
               y == d.ses
    <2>1. k \in Nat /\ y = [x EXCEPT ![s].ref = k] /\ d.bad = "none" /\ x \in [Sess -> SesRec]
      BY <1>0, <1>1, <1>5
    <2> HIDE DEF k, x, y
    <2>2. /\ y \in [Sess -> SesRec] /\ \A t \in Sess : t # s => y[t] = x[t]
          /\ y[s].ref = k /\ y[s].pool = x[s].pool /\ y[s].state = x[s].state /\ y[s].head = x[s].head
          /\ y[s].closed = x[s].closed /\ y[s].lock = x[s].lock
      BY <1>0, <2>1, SetSesRef
    <2>3. n = ToPool(d, e)
      BY <1>2, <1>3, <2>1, <2>2, SMTT(40) DEF x, y
    <2> HIDE DEF d
    <2>4. CASE ~IsPooled(e)
      <3>1. n = d
        BY <2>3, <2>4, SMTT(40) DEF ToPool
      <3> QED
        BY <1>2, <1>5, <2>2, <3>1 DEF Ended, x, y, k
    <2>5. CASE IsPooled(e)
      <3> DEFINE p == <<e>> \o y[s].pool
                 z == n.ses
      <3>1. n = [d EXCEPT !.ses[s].pool = <<e>> \o @]
        BY <2>3, <2>5 DEF ToPool
      <3>2. DOMAIN d = {"ses", "ex", "bad"}
        BY DomainKept DEF d
      <3>3. n.ex = d.ex /\ z = [y EXCEPT ![s].pool = p]
        BY <3>1, <3>2 DEF y
      <3>4. p \in Seq(Exchanges)
        BY <1>0, <2>2, Pushed DEF SesRec
      <3> HIDE DEF p, z
      <3>5. /\ z \in [Sess -> SesRec] /\ \A t \in Sess : t # s => z[t] = y[t]
            /\ z[s].ref = y[s].ref /\ z[s].pool = p /\ z[s].state = y[s].state /\ z[s].head = y[s].head
            /\ z[s].closed = y[s].closed /\ z[s].lock = y[s].lock
        BY <1>0, <2>2, <3>3, <3>4, SetPool, SMTT(40)
      <3>6. p = <<e>> \o x[s].pool
        BY <2>2 DEF p
      <3> QED
        BY <1>2, <1>5, <2>2, <2>5, <3>3, <3>5, <3>6, ZenonT(60) DEF Ended, x, z, k
    <2> QED
      BY <2>4, <2>5
  <1> QED
    BY <1>4, <1>5

\* The exchange of ymo_wsgi_server_queue_responses before its entry in the queue is
\* let go of: the references of the server and of the list are gone if it ended.
Mid(m, e) ==
    /\ m \in MemRec /\ m.bad = "none" /\ SameBut(ex, m.ex, e)
    /\ m.ex[e].live /\ m.ex[e].resp = ex[e].resp /\ m.ex[e].done = ex[e].done
    /\ \A t \in Sess : t # e[1] => m.ses[t] = ses[t] /\ phase'[t] = phase[t]
    /\ m.ses[e[1]].state = ses[e[1]].state /\ m.ses[e[1]].ref = ses[e[1]].ref /\ m.ses[e[1]].pool = ses[e[1]].pool
    /\ m.ses[e[1]].closed = ses[e[1]].closed /\ m.ses[e[1]].lock = ses[e[1]].lock
    /\ phase' \in [Sess -> PhaseRec]
    /\ \/ m.ses[e[1]].head = ses[e[1]].head /\ phase'[e[1]] = phase[e[1]]
       \/ /\ ses[e[1]].head = <<e>> /\ m.ses[e[1]].head = << >>
          /\ phase'[e[1]].at = "done" /\ phase'[e[1]].req = phase[e[1]].req
    /\ m.ses[e[1]].head = <<e>> => ~m.ex[e].sent
    /\ ses[e[1]].state = "open" /\ ~m.ex[e].sent => m.ses[e[1]].head = <<e>>
    /\ m.ex[e].ref + B2N(Listed(e)) + B2N(~ex[e].sent)
         = ex[e].ref + B2N(m.ses[e[1]].head = <<e>>) + B2N(~m.ex[e].sent)

LEMMA SetHead ==
    ASSUME NEW x \in [Sess -> SesRec], NEW s \in Sess, NEW y, y = [x EXCEPT ![s].head = << >>]
    PROVE  /\ y \in [Sess -> SesRec] /\ \A t \in Sess : t # s => y[t] = x[t]
           /\ y[s].ref = x[s].ref /\ y[s].pool = x[s].pool /\ y[s].state = x[s].state /\ y[s].head = << >>
           /\ y[s].closed = x[s].closed /\ y[s].lock = x[s].lock
  <1>0. << >> \in Seq(Exchanges)
    OBVIOUS
  <1>1. y \in [Sess -> SesRec] /\ y[s] = [x[s] EXCEPT !.head = << >>] /\ \A t \in Sess : t # s => y[t] = x[t]
    BY <1>0 DEF SesRec
  <1> QED
    BY <1>1 DEF SesRec

\* The exchange at the head of queue_out.
LEMMA HeadOut ==
    ASSUME WsgiParts, Turn, queue_out # << >>
    PROVE  \E e \in Exchanges :
           /\ e = Head(queue_out) /\ ex[e].live /\ e[1] \in Sess /\ Queued(queue_out, e) > 0
           /\ ex[e].ref \in Nat /\ ex[e].ref > 0
           /\ ~ex[e].sent => ex[e].ref > 1
           /\ ~ex[e].sent /\ Listed(e) => ex[e].ref > 2
           /\ \/ ses[e[1]].state = "open" /\ ~ses[e[1]].closed
              \/ ses[e[1]].state = "closed" /\ ses[e[1]].closed /\ ses[e[1]].head = << >>
           /\ ex[e].resp \in Requests
  <1>1. queue_out \in Seq(Exchanges)
    BY DEF WsgiParts, WsgiType
  <1>2. PICK e \in Exchanges : e = Head(queue_out)
    BY <1>1, QueuedTail
  <1>3. Queued(queue_out, e) > 0
    BY <1>1, <1>2, QueuedTail
  <1>4. ex[e].live /\ e[1] \in Sess
    BY <1>3, ExchangeIs DEF WsgiParts, DeadInv
  <1>5. \/ ses[e[1]].state = "open" /\ ~ses[e[1]].closed
        \/ ses[e[1]].state = "closed" /\ ses[e[1]].closed /\ ses[e[1]].head = << >>
    <2>1. ses[e[1]].state \notin {"none", "freed", "closing", "emptying"}
      BY <1>4, LiveCounted DEF Turn
    <2>2. ses[e[1]].state \in {"open", "closed"}
      BY <1>4, <2>1 DEF WsgiParts, WsgiType, SesRec, SesStates
    <2> QED
      BY <1>4, <2>2 DEF WsgiParts, ListInv, Held
  <1>6. /\ ex[e].ref \in Nat /\ ex[e].ref > 0 /\ (~ex[e].sent => ex[e].ref > 1)
        /\ ~ex[e].sent /\ Listed(e) => ex[e].ref > 2
    <2> DEFINE a == B2N(Listed(e))
               b == B2N(~ex[e].sent)
    <2>1. (Listed(e) => a = 1) /\ (~ex[e].sent => b = 1)
      BY DEF B2N
    <2>2. /\ a \in Nat /\ b \in Nat /\ Queued(queue_out, e) \in Nat /\ ex[e].ref \in Nat
          /\ ex[e].ref >= a + b + Queued(queue_out, e)
      BY <1>4, AtLeast
    <2> HIDE DEF a, b
    <2> QED
      BY <1>3, <2>1, <2>2
  <1>7. ex[e].resp \in Requests
    BY <1>3, SMTT(40) DEF WsgiParts, NumInv
  <1> QED
    BY <1>2, <1>3, <1>4, <1>5, <1>6, <1>7

\* What ymo_wsgi_server_queue_responses does with the exchange at the head of queue_out:
\* its data is sent or dropped, and it ends if all of it came or the session is closed.
LoopEnds(e) == ~ex[e].sent /\ (ex[e].done \/ ~~ses[e[1]].closed)
Sent1(e) == [Mem EXCEPT !.ex[e].data = IF ~ses[e[1]].closed THEN << >> ELSE @, !.ex[e].sent = @ \/ LoopEnds(e)]

LEMMA QueueIs ==
    ASSUME QueueResponses, NEW e, e = Head(queue_out)
    PROVE  /\ Turn /\ queue_out # << >> /\ queue_out' = Tail(queue_out)
           /\ UNCHANGED <<queue_in, w, lost>>
           /\ LoopEnds(e) => Store(LoopDecref(ExchangeDone(LoopDecref(Sent1(e), e), e[1]), e))
           /\ ~LoopEnds(e) => Store(LoopDecref(Sent1(e), e))
           /\ ~ses[e[1]].closed /\ LoopEnds(e) => phase' = [phase EXCEPT ![e[1]].at = "done"]
           /\ ses[e[1]].closed \/ ~LoopEnds(e) => phase' = phase
           /\ ~ses[e[1]].closed => resp' = [resp EXCEPT ![e[1]][ex[e].resp].items = @ \o ex[e].data,
                                              ![e[1]][ex[e].resp].fin = IF LoopEnds(e) THEN @ + 1 ELSE @]
           /\ ses[e[1]].closed => resp' = resp
  <1> DEFINE m2 == IF LoopEnds(e) THEN LoopDecref(Sent1(e), e) ELSE Sent1(e)
             m3 == IF LoopEnds(e) THEN ExchangeDone(m2, e[1]) ELSE m2
  <1>1. /\ Turn /\ queue_out # << >> /\ queue_out' = Tail(queue_out)
        /\ UNCHANGED <<queue_in, w, lost>>
    BY ZenonT(60) DEF QueueResponses
  <1>2. Store(LoopDecref(m3, e))
    BY ZenonT(60) DEF QueueResponses, LoopEnds, Sent1
  <1>3. phase' = IF ~ses[e[1]].closed /\ LoopEnds(e) THEN [phase EXCEPT ![e[1]].at = "done"] ELSE phase
    BY DEF QueueResponses, LoopEnds
  <1> DEFINE R(f, b) == [resp EXCEPT ![f[1]][ex[f].resp].items = @ \o ex[f].data,
                                     ![f[1]][ex[f].resp].fin = IF b THEN @ + 1 ELSE @]
             h == Head(queue_out)
             c == ~ex[h].sent /\ (ex[h].done \/ ~~ses[h[1]].closed)
  <1>4. resp' = IF ~ses[e[1]].closed THEN R(e, LoopEnds(e)) ELSE resp
    <2>1. resp' = IF ~ses[h[1]].closed THEN R(h, c) ELSE resp
      BY DEF QueueResponses
    <2>2. e = h /\ c = LoopEnds(e)
      BY DEF LoopEnds
    <2> HIDE DEF R, h, c
    <2> QED
      BY <2>1, <2>2, SMTT(40)
  <1> QED
    BY <1>1, <1>2, <1>3, <1>4, ZenonT(60)

LEMMA Sent1Is ==
    ASSUME WsgiParts, Okay, NEW e \in Exchanges, ex[e].live
    PROVE  /\ Sent1(e) \in MemRec /\ Sent1(e).ses = ses /\ Sent1(e).bad = "none"
           /\ SameBut(ex, Sent1(e).ex, e)
           /\ Sent1(e).ex[e].live /\ Sent1(e).ex[e].ref = ex[e].ref /\ Sent1(e).ex[e].done = ex[e].done
           /\ Sent1(e).ex[e].resp = ex[e].resp
           /\ Sent1(e).ex[e].sent <=> ex[e].sent \/ LoopEnds(e)
           /\ ~ses[e[1]].closed => Sent1(e).ex[e].data = << >>
           /\ ses[e[1]].closed => Sent1(e).ex[e].data = ex[e].data
  <1> DEFINE D == IF ~ses[e[1]].closed THEN << >> ELSE ex[e].data
             S == ex[e].sent \/ LoopEnds(e)
             x == [ex EXCEPT ![e].data = D, ![e].sent = S]
  <1>1. ex \in [Exchanges -> ExRec] /\ Mem \in MemRec
    BY MemIs DEF WsgiParts, WsgiType
  <1>2. D \in Seq(Nat) /\ S \in BOOLEAN
    <2>1. ex[e].data \in Seq(Nat) /\ << >> \in Seq(Nat)
      BY <1>1 DEF ExRec
    <2> QED
      BY <2>1
  <1>3. /\ Sent1(e) = [Mem EXCEPT !.ex[e].data = D, !.ex[e].sent = S]
        /\ Sent1(e) = [Mem EXCEPT !.ex = x] /\ Sent1(e).ex = x /\ Sent1(e).ses = ses /\ Sent1(e).bad = bad
    <2>1. Mem.ex = ex /\ Mem.ex[e].data = ex[e].data /\ Mem.ex[e].sent = ex[e].sent
      BY DEF Mem
    <2>2. Sent1(e) = [Mem EXCEPT !.ex[e].data = D, !.ex[e].sent = S]
      BY <1>1, <2>1 DEF Sent1, Mem
    <2> HIDE DEF D, S
    <2> QED
      BY <2>2 DEF Mem
  <1> HIDE DEF D, S
  <1>4. /\ x \in [Exchanges -> ExRec] /\ SameBut(ex, x, e) /\ x[e].live = ex[e].live /\ x[e].ref = ex[e].ref
        /\ x[e].done = ex[e].done /\ x[e].resp = ex[e].resp /\ x[e].sent = S /\ x[e].data = D
    BY <1>1, <1>2 DEF ExRec, SameBut
  <1> HIDE DEF x
  <1>5. Sent1(e) \in MemRec
    BY <1>1, <1>3, <1>4 DEF MemRec
  <1>6. (~ses[e[1]].closed => D = << >>) /\ (ses[e[1]].closed => D = ex[e].data) /\ (S <=> ex[e].sent \/ LoopEnds(e))
    BY DEF D, S
  <1> QED
    BY <1>3, <1>4, <1>5, <1>6 DEF Okay

LEMMA Middle ==
    ASSUME WsgiParts, QueueResponses, NEW e \in Exchanges, e = Head(queue_out)
    PROVE  \E m \in MemRec : Mid(m, e) /\ Store(LoopDecref(m, e))
  <1> DEFINE s == e[1]
             m1 == Sent1(e)
             m2 == LoopDecref(m1, e)
  <1>0. /\ Turn /\ Okay /\ queue_out # << >>
        /\ LoopEnds(e) => Store(LoopDecref(ExchangeDone(m2, s), e))
        /\ ~LoopEnds(e) => Store(LoopDecref(m1, e))
        /\ ~ses[s].closed /\ LoopEnds(e) => phase' = [phase EXCEPT ![s].at = "done"]
        /\ ses[s].closed \/ ~LoopEnds(e) => phase' = phase
    BY QueueIs DEF Turn
  <1>1. /\ ex[e].live /\ s \in Sess /\ ex[e].ref \in Nat
        /\ ~ex[e].sent => ex[e].ref > 1
        /\ ~ex[e].sent /\ Listed(e) => ex[e].ref > 2
        /\ \/ ses[s].state = "open" /\ ~ses[s].closed
           \/ ses[s].state = "closed" /\ ses[s].closed /\ ses[s].head = << >>
    BY <1>0, HeadOut
  <1>2. /\ m1 \in MemRec /\ m1.ses = ses /\ m1.bad = "none"
        /\ SameBut(ex, m1.ex, e)
        /\ m1.ex[e].live /\ m1.ex[e].ref = ex[e].ref /\ m1.ex[e].done = ex[e].done
        /\ m1.ex[e].resp = ex[e].resp
        /\ m1.ex[e].sent <=> ex[e].sent \/ LoopEnds(e)
    BY <1>0, <1>1, Sent1Is
  <1>3. ses \in [Sess -> SesRec] /\ phase \in [Sess -> PhaseRec]
    BY DEF WsgiParts, WsgiType
  <1>4. (Listed(e) => ~ex[e].sent) /\ (ses[s].state = "open" /\ ~ex[e].sent => Listed(e))
    BY <1>1 DEF WsgiParts, ListInv
  <1>5. LoopEnds(e) => ~ex[e].sent
    BY DEF LoopEnds
  <1> HIDE DEF m1
  <1>6. CASE ~LoopEnds(e)
    <2>1. B2N(~m1.ex[e].sent) = B2N(~ex[e].sent) /\ B2N(m1.ses[s].head = <<e>>) = B2N(Listed(e))
      BY <1>2, <1>6 DEF B2N, Listed
    <2>2. m1.ex[e].ref + B2N(Listed(e)) + B2N(~ex[e].sent)
            = ex[e].ref + B2N(m1.ses[s].head = <<e>>) + B2N(~m1.ex[e].sent)
      BY <1>2, <2>1
    <2>3. phase' = phase
      BY <1>0, <1>6
    <2>4. (m1.ses[s].head = <<e>> => ~m1.ex[e].sent) /\ (ses[s].state = "open" /\ ~m1.ex[e].sent => m1.ses[s].head = <<e>>)
      BY <1>2, <1>4, <1>6, SMTT(40) DEF Listed
    <2>5. Mid(m1, e)
      BY <1>2, <1>3, <2>2, <2>3, <2>4 DEF Mid
    <2> QED
      BY <1>0, <1>2, <1>6, <2>5
  <1>7. ASSUME LoopEnds(e)
        PROVE  /\ m2 \in MemRec /\ m2.ses = ses /\ m2.bad = "none" /\ SameBut(ex, m2.ex, e)
               /\ m2.ex[e].live /\ m2.ex[e].ref = ex[e].ref - 1 /\ m2.ex[e].done = ex[e].done
               /\ m2.ex[e].resp = ex[e].resp /\ m2.ex[e].sent
    <2>1. m1.ex[e].ref > 1
      BY <1>1, <1>2, <1>5, <1>7
    <2> DEFINE n == m2
    <2>a. n = LoopDecref(m1, e)
      OBVIOUS
    <2> HIDE DEF n
    <2>2. /\ n \in MemRec /\ n.ses = m1.ses /\ n.bad = m1.bad /\ SameBut(m1.ex, n.ex, e)
          /\ n.ex[e].ref = m1.ex[e].ref - 1 /\ n.ex[e].live /\ n.ex[e].sent = m1.ex[e].sent
          /\ n.ex[e].done = m1.ex[e].done /\ n.ex[e].resp = m1.ex[e].resp
      BY <1>2, <2>1, <2>a, OneLess
    <2>3. SameBut(ex, n.ex, e)
      BY <1>2, <2>2 DEF SameBut
    <2> QED
      BY <1>2, <1>7, <2>2, <2>3 DEF n
  <1> HIDE DEF m2
  <1>8. CASE LoopEnds(e) /\ ses[s].closed
    <2>0. ses[s].head = << >> /\ <<e>> # << >> /\ ~ex[e].sent
      BY <1>1, <1>5, <1>8
    <2>1. ExchangeDone(m2, s) = m2
      BY <1>7, <1>8, <2>0 DEF ExchangeDone
    <2>2. Store(LoopDecref(m2, e)) /\ phase' = phase
      BY <1>0, <1>8, <2>1
    <2>3. /\ B2N(~m2.ex[e].sent) = 0 /\ B2N(~ex[e].sent) = 1 /\ B2N(Listed(e)) = 0
          /\ B2N(m2.ses[s].head = <<e>>) = 0
      BY <1>7, <1>8, <2>0 DEF B2N, Listed
    <2>4. m2.ex[e].ref + B2N(Listed(e)) + B2N(~ex[e].sent)
            = ex[e].ref + B2N(m2.ses[s].head = <<e>>) + B2N(~m2.ex[e].sent)
      BY <1>1, <1>7, <1>8, <2>3
    <2>5. m2.ses[s].head # <<e>> /\ m2.ex[e].sent
      BY <1>7, <1>8, <2>0
    <2>6. Mid(m2, e)
      BY <1>3, <1>7, <1>8, <2>2, <2>4, <2>5 DEF Mid
    <2> QED
      BY <1>7, <1>8, <2>2, <2>6
  <1>9. CASE LoopEnds(e) /\ ~ses[s].closed
    <2>0. ses[s].head = <<e>> /\ <<e>> # << >> /\ Listed(e) /\ ~ex[e].sent /\ ex[e].ref > 2 /\ ses[s].state = "open"
      BY <1>1, <1>4, <1>5, <1>9 DEF Listed
    <2> DEFINE y == [ses EXCEPT ![s].head = << >>]
               n == [m2 EXCEPT !.ses[s].head = Tail(@)]
               m3 == LoopDecref(n, e)
    <2>1. Head(m2.ses[s].head) = e /\ m2.ses[s].head # << >> /\ Tail(m2.ses[s].head) = << >>
      <3>1. m2.ses[s].head = <<e>>
        BY <1>7, <1>9, <2>0
      <3>2. Head(<<e>>) = e /\ Tail(<<e>>) = << >> /\ <<e>> # << >>
        OBVIOUS
      <3> QED
        BY <3>1, <3>2
    <2>2. ExchangeDone(m2, s) = m3
      BY <2>1 DEF ExchangeDone
    <2>3. n = [m2 EXCEPT !.ses = y]
      <3>1. n = [m2 EXCEPT !.ses[s].head = << >>]
        BY <2>1
      <3> QED
        BY <1>7, <1>9, <3>1
    <2>4. /\ y \in [Sess -> SesRec] /\ \A t \in Sess : t # s => y[t] = ses[t]
          /\ y[s].ref = ses[s].ref /\ y[s].pool = ses[s].pool /\ y[s].state = ses[s].state /\ y[s].head = << >>
          /\ y[s].closed = ses[s].closed /\ y[s].lock = ses[s].lock
      <3> DEFINE z == y
      <3>1. z = [ses EXCEPT ![s].head = << >>]
        OBVIOUS
      <3> HIDE DEF z
      <3>2. /\ z \in [Sess -> SesRec] /\ \A t \in Sess : t # s => z[t] = ses[t]
            /\ z[s].ref = ses[s].ref /\ z[s].pool = ses[s].pool /\ z[s].state = ses[s].state /\ z[s].head = << >>
            /\ z[s].closed = ses[s].closed /\ z[s].lock = ses[s].lock
        BY <1>1, <1>3, <3>1, SetHead
      <3> QED
        BY <3>2 DEF z
    <2> HIDE DEF y, n
    <2>5. n \in MemRec /\ n.ses = y /\ n.ex = m2.ex /\ n.bad = m2.bad
      BY <1>7, <1>9, <2>3, <2>4 DEF MemRec
    <2>6. n.ex[e].ref > 1 /\ n.ex[e].live
      BY <1>1, <1>7, <1>9, <2>0, <2>5
    <2>a. m3 = LoopDecref(n, e)
      OBVIOUS
    <2> HIDE DEF m3
    <2>7. /\ m3 \in MemRec /\ m3.ses = n.ses /\ m3.bad = n.bad /\ SameBut(n.ex, m3.ex, e)
          /\ m3.ex[e].ref = n.ex[e].ref - 1 /\ m3.ex[e].live /\ m3.ex[e].sent = n.ex[e].sent
          /\ m3.ex[e].done = n.ex[e].done /\ m3.ex[e].resp = n.ex[e].resp
      BY <2>5, <2>6, <2>a, OneLess
    <2>8. /\ m3.ses = y /\ m3.bad = "none" /\ SameBut(ex, m3.ex, e) /\ m3.ex[e].ref = ex[e].ref - 2
          /\ m3.ex[e].sent /\ m3.ex[e].done = ex[e].done /\ m3.ex[e].resp = ex[e].resp
      <3>1. m3.ex[e].ref = ex[e].ref - 2
        BY <1>1, <1>7, <1>9, <2>5, <2>7
      <3>2. SameBut(ex, m3.ex, e)
        BY <1>7, <1>9, <2>5, <2>7 DEF SameBut
      <3> QED
        BY <1>7, <1>9, <2>5, <2>7, <3>1, <3>2
    <2>9. Store(LoopDecref(m3, e)) /\ phase' = [phase EXCEPT ![s].at = "done"]
      BY <1>0, <1>9, <2>2
    <2>10. /\ phase' \in [Sess -> PhaseRec] /\ phase'[s].at = "done" /\ phase'[s].req = phase[s].req
           /\ \A t \in Sess : t # s => phase'[t] = phase[t]
      BY <1>1, <1>3, <2>9 DEF PhaseRec
    <2>11. m3.ses[s].head = << >> /\ m3.ses[s].head # <<e>>
      BY <2>0, <2>4, <2>8
    <2>12. /\ B2N(~m3.ex[e].sent) = 0 /\ B2N(~ex[e].sent) = 1 /\ B2N(Listed(e)) = 1
           /\ B2N(m3.ses[s].head = <<e>>) = 0
      BY <2>0, <2>8, <2>11 DEF B2N
    <2>13. m3.ex[e].ref + B2N(Listed(e)) + B2N(~ex[e].sent)
             = ex[e].ref + B2N(m3.ses[s].head = <<e>>) + B2N(~m3.ex[e].sent)
      BY <1>1, <2>8, <2>12, SMTT(40)
    <2>14. Mid(m3, e)
      BY <2>0, <2>4, <2>7, <2>8, <2>10, <2>11, <2>13 DEF Mid
    <2> QED
      BY <2>7, <2>9, <2>14
  <1> QED
    BY <1>6, <1>8, <1>9, SMTT(40)

TakesHead(e) ==
    /\ UNCHANGED <<queue_in, w, lost>>
    /\ queue_out # << >> /\ e = Head(queue_out) /\ queue_out' = Tail(queue_out)
LetGo(m, n, e) == n = LoopDecref(m, e) /\ ses' = n.ses /\ ex' = n.ex

LEMMA Balance2 ==
    ASSUME NEW a \in Nat, NEW b \in Nat, NEW c \in Nat, NEW d \in Nat, NEW q \in Nat,
           NEW x \in Nat, NEW k \in Nat, k + a + b = x + c + d
    PROVE  k - 1 + a + b + q = x + c + d + (q - 1)
  OBVIOUS

\* The loop lets go of the entry of queue_out, and others still have the exchange.
LEMMA MidKeeps ==
    ASSUME WsgiParts, NEW e \in Exchanges, ex[e].live, NEW m \in MemRec, Mid(m, e), m.ex[e].ref > 1,
           NEW n, LetGo(m, n, e), TakesHead(e), ses[e[1]].state \in {"open", "closed"}
    PROVE  WsgiParts'
  <1> DEFINE s == e[1]
  <1>1. /\ n \in MemRec /\ n.ses = m.ses /\ SameBut(m.ex, n.ex, e)
        /\ n.ex[e].ref = m.ex[e].ref - 1 /\ n.ex[e].live /\ n.ex[e].sent = m.ex[e].sent
        /\ n.ex[e].done = m.ex[e].done /\ n.ex[e].resp = m.ex[e].resp
    <2>1. m.ex[e].live /\ n = LoopDecref(m, e)
      BY DEF Mid, LetGo
    <2> QED
      BY <2>1, OneLess
  <1>a. ses' = n.ses /\ ex' = n.ex /\ UNCHANGED <<queue_in, w, lost>>
    BY DEF LetGo, TakesHead
  <1>2. /\ SameBut(ex, m.ex, e) /\ m.ex[e].resp = ex[e].resp /\ m.ex[e].done = ex[e].done
    BY DEF Mid
  <1>3. LoopEx(e)
    <2>1. SameBut(ex, ex', e)
      BY <1>1, <1>2, <1>a DEF SameBut
    <2>2. ex' \in [Exchanges -> ExRec]
      BY <1>1, <1>a DEF MemRec
    <2> QED
      BY <1>1, <1>2, <1>a, <2>1, <2>2 DEF LoopEx
  <1>4. LoopSes(e)
    <2>1. ses' = m.ses /\ ses' \in [Sess -> SesRec]
      BY <1>1, <1>a DEF MemRec
    <2> QED
      BY <2>1 DEF Mid, LoopSes
  <1>5. /\ Queued(queue_out', e) = Queued(queue_out, e) - 1 /\ Queued(queue_out, e) > 0 /\ Queued(queue_out, e) \in Nat
        /\ queue_out' \in Seq(Exchanges)
        /\ \A f \in Exchanges : f # e => Queued(queue_out', f) = Queued(queue_out, f)
    BY QueuedTail, QueuedNat DEF WsgiParts, WsgiType, TakesHead
  <1>6. LoopQueue(e)
    BY <1>5, <1>a DEF LoopQueue
  <1>7. /\ Listed(e)' <=> m.ses[s].head = <<e>>
        /\ ex'[e].sent = m.ex[e].sent
    BY <1>1, <1>a DEF Listed
  <1>8. (Listed(e)' => ~ex'[e].sent) /\ (ses[s].state \in {"open", "closing"} /\ ~ex'[e].sent => Listed(e)')
    BY <1>7 DEF Mid
  <1> DEFINE a == B2N(Listed(e))
             b == B2N(~ex[e].sent)
             c == B2N(m.ses[s].head = <<e>>)
             d == B2N(~m.ex[e].sent)
  <1>9. a \in Nat /\ b \in Nat /\ c \in Nat /\ d \in Nat /\ m.ex[e].ref + a + b = ex[e].ref + c + d
    BY DEF B2N, Mid
  <1>10. B2N(Listed(e)') = c /\ B2N(~ex'[e].sent) = d
    BY <1>7 DEF B2N
  <1>11. m.ex[e].ref \in Nat /\ ex[e].ref \in Nat /\ ex'[e].ref = m.ex[e].ref - 1
    BY <1>1, <1>a DEF MemRec, WsgiParts, WsgiType, ExRec
  <1> HIDE DEF a, b, c, d
  <1>12. ex'[e].ref + a + b + Queued(queue_out, e) = ex[e].ref + c + d + Queued(queue_out', e)
    <2> DEFINE k == m.ex[e].ref
               x == ex[e].ref
               q == Queued(queue_out, e)
    <2>1. k \in Nat /\ x \in Nat /\ q \in Nat /\ k + a + b = x + c + d
      BY <1>5, <1>9, <1>11
    <2> HIDE DEF k, x, q
    <2>2. k - 1 + a + b + q = x + c + d + (q - 1)
      BY <1>9, <2>1, Balance2
    <2> QED
      BY <1>5, <1>11, <2>2 DEF k, x, q
  <1>13. ex'[e].ref + B2N(Listed(e)) + B2N(~ex[e].sent) + Queued(queue_out, e)
          = ex[e].ref + B2N(Listed(e)') + B2N(~ex'[e].sent) + Queued(queue_out', e)
    BY <1>10, <1>12 DEF a, b
  <1> QED
    BY <1>3, <1>4, <1>6, <1>8, <1>13, LoopKeeps

\* The entry of queue_out was the last reference.
LEMMA LastOut ==
    ASSUME WsgiParts, NEW e \in Exchanges, ex[e].live, NEW m \in MemRec, Mid(m, e), ~(m.ex[e].ref > 1),
           Queued(queue_out, e) > 0
    PROVE  /\ m.ses[e[1]].head # <<e>> /\ e \notin lost /\ Queued(queue_in, e) = 0 /\ Queued(queue_out, e) = 1
           /\ ~(w.ex = e /\ w.pc \in Using)
  <1> DEFINE a == B2N(Listed(e))
             b == B2N(~ex[e].sent)
             c == B2N(m.ses[e[1]].head = <<e>>)
             d == B2N(~m.ex[e].sent)
             l == B2N(e \in lost)
             r == WRefs(w, lost, e)
  <1>1. /\ a \in Nat /\ b \in Nat /\ c \in Nat /\ d \in Nat /\ l \in Nat /\ r \in Nat
        /\ m.ex[e].ref + a + b = ex[e].ref + c + d
    BY B2NIs, WRefsIs DEF Mid
  <1>2. ex[e].ref = a + b + l + Queued(queue_in, e) + Queued(queue_out, e) + r
    BY DEF WsgiParts, RefInv, Refs
  <1>3. m.ex[e].ref \in Nat /\ Queued(queue_in, e) \in Nat /\ Queued(queue_out, e) \in Nat
    BY QueuedNat DEF MemRec, ExRec, WsgiParts, WsgiType
  <1>4. (c = 0 => m.ses[e[1]].head # <<e>>) /\ (l = 0 => e \notin lost)
    BY DEF B2N
  <1>5. e \notin lost /\ r = 0 => ~(w.ex = e /\ w.pc \in Using)
    <2>1. w.pc \in Using => w.pc \in WithContext \/ w.pc = "incref" \/ w.pc = "dropctx"
      BY DEF Using, Working
    <2> QED
      BY <2>1, WRefsIs
  <1> HIDE DEF a, b, c, d, l, r
  <1>6. c = 0 /\ l = 0 /\ r = 0 /\ Queued(queue_in, e) = 0 /\ Queued(queue_out, e) = 1
    BY <1>1, <1>2, <1>3
  <1> QED
    BY <1>4, <1>5, <1>6, SMTT(40)

LEMMA MidDies ==
    ASSUME WsgiParts, NEW e \in Exchanges, ex[e].live, NEW m \in MemRec, Mid(m, e), ~(m.ex[e].ref > 1),
           NEW n, LetGo(m, n, e), n.bad = "none", TakesHead(e)
    PROVE  WsgiParts'
  <1> DEFINE s == e[1]
  <1>0. s \in Sess /\ ses[s].ref \in Nat /\ ses[s].ref > 0 /\ ses[s].state \notin {"none", "freed"}
        /\ (ses[s].ref = 1 => ses[s].state \notin Held)
    BY ExchangeIs, LiveCounted
  <1>a. n = LoopDecref(m, e) /\ ses' = n.ses /\ ex' = n.ex /\ UNCHANGED <<queue_in, w, lost>>
    BY DEF LetGo, TakesHead
  <1>1. /\ m.bad = "none" /\ SameBut(ex, m.ex, e) /\ m.ses[s].state = ses[s].state /\ m.ses[s].ref = ses[s].ref
        /\ m.ses[s].pool = ses[s].pool /\ m.ses[s].closed = ses[s].closed /\ m.ses[s].lock = ses[s].lock
        /\ phase' \in [Sess -> PhaseRec]
        /\ \A t \in Sess : t # s => m.ses[t] = ses[t] /\ phase'[t] = phase[t]
    BY DEF Mid
  <1>2. \/ m.ses[s].head = ses[s].head /\ phase'[s] = phase[s]
        \/ /\ ses[s].head = <<e>> /\ m.ses[s].head = << >>
           /\ phase'[s].at = "done" /\ phase'[s].req = phase[s].req
    BY SMTT(40) DEF Mid
  <1>3. /\ n.ex \in [Exchanges -> ExRec] /\ ~n.ex[e].live /\ SameBut(m.ex, n.ex, e)
        /\ n.ses \in [Sess -> SesRec] /\ \A t \in Sess : t # s => n.ses[t] = m.ses[t]
        /\ \/ m.ses[s].ref = 1 /\ n.ses[s] = FreedSession
           \/ /\ m.ses[s].ref # 1 /\ n.ses[s].ref = m.ses[s].ref - 1
              /\ n.ses[s].state = m.ses[s].state /\ n.ses[s].closed = m.ses[s].closed
              /\ n.ses[s].lock = m.ses[s].lock /\ n.ses[s].head = m.ses[s].head
              /\ \/ n.ses[s].pool = m.ses[s].pool
                 \/ IsPooled(e) /\ n.ses[s].pool = <<e>> \o m.ses[s].pool
    <2>1. m.ses[s].state # "freed" /\ m.ses[s].ref # 0
      BY <1>0, <1>1
    <2>2. m.bad = "none" /\ n = LoopDecref(m, e)
      BY <1>1, <1>a
    <2>3. Ended(m, n, e)
      BY <2>1, <2>2, LoopLast, SMTT(40)
    <2> QED
      BY <2>3 DEF Ended
  <1>4. Goes(e)
    <2>1. \A f \in Exchanges : f # e => ex'[f] = ex[f]
      BY <1>1, <1>3, <1>a, SMTT(40) DEF SameBut
    <2> QED
      BY <1>1, <1>3, <1>a, <2>1, SMTT(40) DEF Goes
  <1>5. Dies(e)
    <2>1. ses[s].ref # 1 => Shrinks(s)
      BY <1>1, <1>3, <1>a DEF Shrinks
    <2> QED
      BY <1>1, <1>2, <1>3, <1>4, <1>a, <2>1, ZenonT(60) DEF Dies
  <1>6. /\ Queued(queue_out', e) = Queued(queue_out, e) - 1 /\ Queued(queue_out, e) > 0
        /\ queue_out' \in Seq(Exchanges)
        /\ \A f \in Exchanges : f # e => Queued(queue_out', f) = Queued(queue_out, f)
    BY QueuedTail DEF WsgiParts, WsgiType, TakesHead
  <1>7. /\ m.ses[s].head # <<e>> /\ e \notin lost /\ Queued(queue_in, e) = 0 /\ Queued(queue_out, e) = 1
        /\ ~(w.ex = e /\ w.pc \in Using)
    BY <1>6, LastOut
  <1>8. Unheld(e)
    <2>1. ses'[s].head # <<e>>
      <3>1. FreedSession.head # <<e>>
        BY Freed
      <3> QED
        BY <1>3, <1>7, <1>a, <3>1
    <2> QED
      BY <1>6, <1>7, <1>a, <2>1, SMTT(40) DEF Unheld, Listed
  <1>9. ses'[s] = FreedSession => ses[s].head = << >>
    <2>1. ASSUME ses'[s] = FreedSession PROVE ses[s].head = << >>
      <3>1. ses[s].ref = 1 \/ ses'[s].state = ses[s].state
        BY <1>1, <1>3, <1>a
      <3>2. ses'[s].state = "freed"
        BY <2>1, Freed
      <3>3. ses[s].state \notin Held
        BY <1>0, <3>1, <3>2
      <3> QED
        BY <1>0, <3>3, SMTT(40) DEF WsgiParts, ListInv
    <2> QED
      BY <2>1
  <1>10. OthersHeld(e)
    <2> SUFFICES ASSUME NEW f \in Exchanges, f # e PROVE Listed(f)' = Listed(f)
      BY <1>6, SMTT(40) DEF OthersHeld
    <2>1. CASE f[1] # s
      BY <1>1, <1>3, <1>a, <2>1, ExchangeIs, SMTT(40) DEF Listed
    <2>2. CASE f[1] = s
      <3>1. CASE ses'[s] = FreedSession
        BY <1>9, <2>2, <3>1, Freed, ZenonT(60) DEF Listed
      <3>2. CASE ses'[s].head = ses[s].head
        BY <2>2, <3>2 DEF Listed
      <3>3. CASE ses[s].head = <<e>> /\ ses'[s].head = << >>
        BY <2>2, <3>3 DEF Listed
      <3> QED
        BY <1>2, <1>3, <1>a, <3>1, <3>2, <3>3
    <2> QED
      BY <2>1, <2>2
  <1>11. PhaseEnds
    BY <1>1, <1>2 DEF PhaseEnds
  <1>12. RefInv' /\ DeadInv' /\ OnceInv' /\ DoneInv' /\ NumInv' /\ LockMeansClosed'
    BY <1>5, <1>8, <1>10, <1>11, <1>a, DiesRest
  <1>13. CountInv'
    BY <1>5, DiesCount
  <1>14. PoolInv'
    BY <1>5, <1>a, DiesPool
  <1>15. ListInv'
    <2>1. \A t \in Sess : t # s => phase'[t] = phase[t]
      BY <1>1, SMTT(40)
    <2>2. \/ ses'[s] = FreedSession
          \/ phase'[s] = phase[s] /\ ses'[s].head = ses[s].head
          \/ phase'[s].at = "done" /\ ses'[s].head = << >>
      BY <1>2, <1>3, <1>a, SMTT(40)
    <2> QED
      BY <1>5, <1>10, <2>1, <2>2, DiesList
  <1>16. WsgiType'
    BY <1>1, <1>3, <1>6, <1>a DEF WsgiParts, WsgiType
  <1> QED
    BY <1>12, <1>13, <1>14, <1>15, <1>16 DEF WsgiParts

LEMMA StepQueueResponses == WsgiParts /\ QueueResponses /\ bad' = "none" => WsgiParts'
  <1> SUFFICES ASSUME WsgiParts, QueueResponses, bad' = "none" PROVE WsgiParts'
    OBVIOUS
  <1>0. Turn /\ queue_out # << >>
    BY DEF QueueResponses
  <1>1. PICK e \in Exchanges :
           /\ e = Head(queue_out) /\ ex[e].live /\ e[1] \in Sess
           /\ \/ ses[e[1]].state = "open" /\ ~ses[e[1]].closed
              \/ ses[e[1]].state = "closed" /\ ses[e[1]].closed /\ ses[e[1]].head = << >>
    BY <1>0, HeadOut, SMTT(40)
  <1>2. queue_out' = Tail(queue_out) /\ UNCHANGED <<queue_in, w, lost>>
    BY DEF QueueResponses
  <1>3. PICK m \in MemRec : Mid(m, e) /\ Store(LoopDecref(m, e))
    BY <1>1, Middle
  <1> DEFINE n == LoopDecref(m, e)
  <1>4. ses' = n.ses /\ ex' = n.ex /\ bad' = n.bad
    BY <1>3, StoreIs
  <1>a. n = LoopDecref(m, e)
    OBVIOUS
  <1> HIDE DEF n
  <1>b. LetGo(m, n, e) /\ TakesHead(e)
    BY <1>0, <1>1, <1>2, <1>4, <1>a DEF LetGo, TakesHead
  <1>5. CASE m.ex[e].ref > 1
    BY <1>1, <1>3, <1>5, <1>b, MidKeeps
  <1>6. CASE ~(m.ex[e].ref > 1)
    BY <1>1, <1>3, <1>4, <1>6, <1>b, MidDies
  <1> QED
    BY <1>5, <1>6, SMTT(40)

-----------------------------------------------------------------------------
(* The responses *)

LEMMA SetMade ==
    ASSUME NEW r \in [Sess -> [Requests -> RespRec]], NEW s \in Sess, NEW k \in Requests, NEW q \in Seq(Nat)
    PROVE  [r EXCEPT ![s][k].made = q] \in [Sess -> [Requests -> RespRec]]
  <1>1. r[s] \in [Requests -> RespRec] /\ r[s][k] \in RespRec
    OBVIOUS
  <1>2. [r[s][k] EXCEPT !.made = q] \in RespRec
    BY <1>1 DEF RespRec
  <1>3. [r[s] EXCEPT ![k].made = q] \in [Requests -> RespRec]
    BY <1>1, <1>2
  <1> QED
    BY <1>3

LEMMA SetItems ==
    ASSUME NEW r \in [Sess -> [Requests -> RespRec]], NEW s \in Sess, NEW k \in Requests, NEW q \in Seq(Nat),
           NEW n \in Nat
    PROVE  [r EXCEPT ![s][k].items = q, ![s][k].fin = n] \in [Sess -> [Requests -> RespRec]]
  <1>1. r[s] \in [Requests -> RespRec] /\ r[s][k] \in RespRec
    OBVIOUS
  <1>2. [r[s][k] EXCEPT !.items = q, !.fin = n] \in RespRec
    BY <1>1 DEF RespRec
  <1>3. [r[s] EXCEPT ![k].items = q, ![k].fin = n] \in [Requests -> RespRec]
    BY <1>1, <1>2
  <1> QED
    BY <1>3

LEMMA AppendResp ==
    ASSUME WsgiParts, RespType, w.pc \in Working, NEW items \in Seq(Nat), NEW done, BodyAppend(items, done)
    PROVE  RespType'
  <1> DEFINE s == w.ex[1]
             k == ex[w.ex].resp
             q == resp[s][k].made \o items
  <1>1. s \in Sess /\ k \in Requests /\ resp[s][k] \in RespRec
    BY RespIs
  <1>2. q \in Seq(Nat)
    BY <1>1, SMTT(40) DEF RespRec
  <1>3. resp' = [resp EXCEPT ![s][k].made = q]
    BY DEF BodyAppend
  <1> HIDE DEF s, k, q
  <1> QED
    BY <1>1, <1>2, <1>3, SetMade DEF RespType

LEMMA WorkerResp ==
    ASSUME WsgiParts, RespType, Worker
    PROVE  RespType'
  <1>1. CASE UNCHANGED resp
    BY <1>1 DEF RespType
  <1>2. CASE WItem
    <2>0. w.pc \in Working
      BY <1>2 DEF WItem, WorkerAt, Working, WithContext
    <2> DEFINE items == <<Len(resp[w.ex[1]][ex[w.ex].resp].made) + 1>>
    <2>1. items \in Seq(Nat)
      BY <2>0, RespIs, OneMore DEF RespRec
    <2>2. UNCHANGED resp \/ BodyAppend(items, FALSE)
      BY <1>2 DEF WItem
    <2> HIDE DEF items
    <2>3. CASE BodyAppend(items, FALSE)
      BY <2>0, <2>1, <2>3, AppendResp
    <2> QED
      BY <1>1, <2>2, <2>3
  <1>3. CASE WLast
    <2>0. w.pc \in Working
      BY <1>3 DEF WLast, WorkerAt, Working, WithContext
    <2>1. BodyAppend(<< >>, TRUE)
      BY <1>3 DEF WLast
    <2>2. << >> \in Seq(Nat)
      OBVIOUS
    <2> QED
      BY <2>0, <2>1, <2>2, AppendResp
  <1>4. CASE WWrite
    <2>0. w.pc \in Working
      BY <1>4 DEF WWrite, WorkerAt, Working, WithContext
    <2>1. BodyAppend(<<1>>, TRUE)
      BY <1>4 DEF WWrite
    <2>2. <<1>> \in Seq(Nat)
      OBVIOUS
    <2> QED
      BY <2>0, <2>1, <2>2, AppendResp
  <1>5. Worker => UNCHANGED resp \/ WItem \/ WLast \/ WWrite
    BY DEF Worker, WLock, WPop, WWait, WIncref, WTryLock, WEnviron, WCall, WStart, WStartLocked, WNoIterator,
           WItemsEnd, WDropWorker, WDropContext, WRefuse, WToPool
  <1> QED
    BY <1>1, <1>2, <1>3, <1>4, <1>5

LEMMA QueueResp ==
    ASSUME WsgiParts, RespType, QueueResponses
    PROVE  RespType'
  <1>0. Turn /\ queue_out # << >>
    BY DEF QueueResponses
  <1>1. PICK e \in Exchanges : e = Head(queue_out) /\ e[1] \in Sess /\ ex[e].resp \in Requests
    BY <1>0, HeadOut, SMTT(40)
  <1> DEFINE s == e[1]
             k == ex[e].resp
             q == resp[s][k].items \o ex[e].data
             n == IF LoopEnds(e) THEN resp[s][k].fin + 1 ELSE resp[s][k].fin
  <1>2. \/ resp' = resp
        \/ resp' = [resp EXCEPT ![s][k].items = @ \o ex[e].data,
                                ![s][k].fin = IF LoopEnds(e) THEN @ + 1 ELSE @]
    BY <1>1, QueueIs
  <1>3. q \in Seq(Nat) /\ n \in Nat
    <2>1. resp[s][k] \in RespRec /\ ex[e].data \in Seq(Nat)
      BY <1>1 DEF RespType, WsgiParts, WsgiType, ExRec
    <2> HIDE DEF s, k
    <2> QED
      BY <2>1 DEF RespRec
  <1>4. CASE resp' = resp
    BY <1>4 DEF RespType
  <1>5. CASE resp' = [resp EXCEPT ![s][k].items = @ \o ex[e].data,
                                  ![s][k].fin = IF LoopEnds(e) THEN @ + 1 ELSE @]
    <2>1. resp' = [resp EXCEPT ![s][k].items = q, ![s][k].fin = n]
      BY <1>5
    <2>2. s \in Sess /\ k \in Requests
      BY <1>1
    <2> HIDE DEF s, k, q, n
    <2> QED
      BY <1>3, <2>1, <2>2, SetItems DEF RespType
  <1> QED
    BY <1>2, <1>4, <1>5, ZenonT(60)

-----------------------------------------------------------------------------
(* The last step of a behaviour: what went wrong is about no lock *)

LEMMA BadDecref ==
    ASSUME NEW m \in MemRec, NEW e \in Exchanges, m.ex[e].live, m.ses[e[1]].state # "freed", m.bad = "none",
           NEW n, n = ExDecref(m, e) \/ n = LoopDecref(m, e), n.bad # "none"
    PROVE  n.ses \in [Sess -> SesRec] /\ ~n.ses[e[1]].lock /\ \A t \in Sess : t # e[1] => n.ses[t] = m.ses[t]
  <1> DEFINE d == ExDecref(m, e)
  <1>0. e[1] \in Sess /\ m.ses \in [Sess -> SesRec] /\ DOMAIN d = {"ses", "ex", "bad"}
    BY ExchangeIs, DomainKept DEF MemRec
  <1>1. n = d /\ d.bad # "none"
    <2>1. CASE n = d
      BY <2>1
    <2>2. CASE n = LoopDecref(m, e) /\ n # d
      <3>1. n = ToPool(d, e) /\ d.bad = "none"
        BY <2>2 DEF LoopDecref
      <3> HIDE DEF d
      <3>2. ToPool(d, e).bad = d.bad
        BY <1>0 DEF ToPool
      <3> QED
        BY <3>1, <3>2
    <2> QED
      BY <2>1, <2>2
  <1>2. ~(m.ex[e].ref > 1)
    BY <1>1, DecrefMany
  <1>3. m.ses[e[1]].ref = 1 /\ d.ses = [m.ses EXCEPT ![e[1]] = FreedSession]
    BY <1>1, <1>2, DecrefLast
  <1> HIDE DEF d
  <1> QED
    BY <1>0, <1>1, <1>3, Freed

LEMMA BadQueue ==
    ASSUME WsgiParts, QueueResponses, bad' # "none"
    PROVE  LockMeansClosed'
  <1>0. Turn /\ queue_out # << >> /\ w' = w
    BY DEF QueueResponses
  <1>1. PICK e \in Exchanges : e = Head(queue_out) /\ ex[e].live /\ e[1] \in Sess
    BY <1>0, HeadOut
  <1>2. PICK m \in MemRec : Mid(m, e) /\ Store(LoopDecref(m, e))
    BY <1>1, Middle
  <1> DEFINE n == LoopDecref(m, e)
  <1>3. ses' = n.ses /\ bad' = n.bad /\ n = LoopDecref(m, e)
    BY <1>2, StoreIs
  <1> HIDE DEF n
  <1>4. /\ m.ex[e].live /\ m.bad = "none" /\ m.ses[e[1]].state = ses[e[1]].state
        /\ \A t \in Sess : t # e[1] => m.ses[t] = ses[t]
    BY <1>2 DEF Mid
  <1>5. m.ses[e[1]].state # "freed"
    BY <1>1, <1>4, LiveCounted
  <1>6. ~n.ses[e[1]].lock /\ \A t \in Sess : t # e[1] => n.ses[t] = m.ses[t]
    BY <1>3, <1>4, <1>5, BadDecref
  <1> QED
    BY <1>0, <1>3, <1>4, <1>6 DEF WsgiParts, LockMeansClosed

LEMMA BadDrop ==
    ASSUME WsgiParts, WDropContext, bad' # "none"
    PROVE  LockMeansClosed'
  <1>0. Okay /\ w.pc = "dropctx" /\ w.pc \in Using
    BY DEF WDropContext, WorkerAt, Using
  <1>1. w.ex \in Exchanges /\ ex[w.ex].live
    BY <1>0, AtWork
  <1> PICK e \in Exchanges : e = w.ex
    BY <1>1
  <1> DEFINE m == Mem
             n == ExDecref(m, e)
  <1>2. ses' = n.ses /\ bad' = n.bad /\ n = ExDecref(m, e)
    BY StoreIs DEF WDropContext, WDecref
  <1>3. m \in MemRec /\ m.ses = ses /\ m.ex = ex /\ m.bad = "none"
    BY <1>0, MemIs
  <1>4. m.ses[e[1]].state # "freed"
    BY <1>1, <1>3, LiveCounted
  <1> HIDE DEF m, n
  <1>5. ~n.ses[e[1]].lock /\ \A t \in Sess : t # e[1] => n.ses[t] = m.ses[t]
    BY <1>1, <1>2, <1>3, <1>4, BadDecref
  <1> QED
    BY <1>0, <1>2, <1>3, <1>5 DEF WsgiParts, LockMeansClosed

LEMMA BadPool ==
    ASSUME WsgiParts, WToPool, bad' # "none"
    PROVE  LockMeansClosed'
  <1>0. Okay /\ w.pc = "pool"
    BY DEF WToPool, WorkerAt
  <1>1. CASE ses' = ses
    BY <1>0, <1>1 DEF WsgiParts, LockMeansClosed
  <1>2. CASE Store(ToPool(Mem, w.ex))
    <2> DEFINE n == ToPool(Mem, w.ex)
    <2>1. n.bad = "none"
      BY <1>0 DEF ToPool, Mem, Okay
    <2> QED
      BY <1>2, <2>1, StoreIs
  <1> QED
    BY <1>1, <1>2 DEF WToPool

-----------------------------------------------------------------------------
(* The theorems *)

\* What holds until something goes wrong, and of the locks also then.
WsgiInv == LockMeansClosed /\ (bad = "none" => WsgiParts /\ RespType)

LEMMA InitInv == WInit => WsgiInv
  <1> SUFFICES ASSUME WInit PROVE WsgiInv
    OBVIOUS
  <1>0. /\ ses = [s \in Sess |-> NoSession] /\ ex = [e \in Exchanges |-> NoExchange]
        /\ resp = [s \in Sess |-> [k \in Requests |-> Blank]]
        /\ phase = [s \in Sess |-> [req |-> 0, at |-> "done"]]
        /\ queue_in = << >> /\ queue_out = << >> /\ w = Idle /\ lost = {}
    BY DEF WInit, WInitWith, Blank
  <1>1. \A s \in Sess : ses[s] = NoSession /\ phase[s].req = 0 /\ phase[s].at = "done"
    BY <1>0
  <1>2. \A e \in Exchanges : ex[e] = NoExchange /\ e[1] \in Sess
    BY <1>0, ExchangeIs
  <1>3. /\ NoSession \in SesRec /\ NoSession.state = "none" /\ NoSession.ref = 0 /\ ~NoSession.closed
        /\ ~NoSession.lock /\ NoSession.head = << >> /\ NoSession.pool = << >>
    BY DEF NoSession, SesRec, SesStates
  <1>4. NoExchange \in ExRec /\ ~NoExchange.live /\ ~NoExchange.done
    BY DEF NoExchange, ExRec
  <1>5. \A e \in Exchanges : Queued(queue_in, e) = 0 /\ Queued(queue_out, e) = 0
    <2>1. << >> \in Seq(Exchanges)
      OBVIOUS
    <2> QED
      BY <1>0, <2>1, QueuedNat
  <1>6. w \in WorkerRec /\ w.pc = "idle" /\ w.pc \notin Using /\ w.pc # "pool"
    BY <1>0, IdleIs
  <1>7. WsgiType
    <2>1. phase \in [Sess -> PhaseRec]
      BY <1>0, WsgiAssumption DEF PhaseRec
    <2>2. queue_in \in Seq(Exchanges) /\ queue_out \in Seq(Exchanges)
      BY <1>0
    <2> QED
      BY <1>0, <1>3, <1>4, <1>6, <2>1, <2>2 DEF WsgiType
  <1>8. \A e \in Exchanges : ~Listed(e) /\ ~WorkedOn(e) /\ ~Coming(e) /\ ~InHand(e)
    <2> TAKE e \in Exchanges
    <2>1. ses[e[1]].head = << >>
      BY <1>1, <1>2, <1>3
    <2>2. ~Listed(e)
      BY <2>1 DEF Listed
    <2>3. ~WorkedOn(e) /\ ~Coming(e) /\ ~InHand(e)
      BY <1>0, <1>5, <1>6 DEF WorkedOn, Coming, InHand, Using, Early
    <2> QED
      BY <2>2, <2>3
  <1>9. RefInv /\ DeadInv
    BY <1>0, <1>2, <1>4, <1>5, <1>6, <1>8 DEF RefInv, DeadInv
  <1>10. CountInv
    <2> SUFFICES ASSUME NEW s \in Sess
                 PROVE  /\ ses[s].ref = B2N(ses[s].state \in Held) + Cardinality(LiveOf(s))
                        /\ ses[s].state \in {"none", "freed"} => ses[s].ref = 0
      BY DEF CountInv
    <2>1. LiveOf(s) = {}
      BY <1>2, <1>4 DEF LiveOf
    <2>2. Cardinality(LiveOf(s)) = 0
      BY <2>1, FS_EmptySet
    <2>3. B2N(ses[s].state \in Held) = 0 /\ ses[s].ref = 0
      BY <1>1, <1>3 DEF B2N, Held
    <2> QED
      BY <2>2, <2>3
  <1>11. ListInv
    BY <1>1, <1>2, <1>3, <1>4 DEF ListInv
  <1>12. PoolInv
    BY <1>1, <1>3, <1>6 DEF PoolInv, Orderly
  <1>13. OnceInv /\ DoneInv /\ NumInv
    BY <1>0, <1>1, <1>5, <1>8 DEF OnceInv, DoneInv, NumInv
  <1>14. LockMeansClosed
    BY <1>1, <1>3 DEF LockMeansClosed
  <1>15. RespType
    <2>1. Blank \in RespRec
      BY DEF Blank, RespRec
    <2> QED
      BY <1>0, <2>1 DEF RespType
  <1> QED
    BY <1>7, <1>9, <1>10, <1>11, <1>12, <1>13, <1>14, <1>15 DEF WsgiInv, WsgiParts

\* The steps of the worker, one lemma each.
LEMMA WorkerInv ==
    ASSUME WsgiParts, RespType, Worker
    PROVE  WsgiInv'
  <1>1. RespType'
    BY WorkerResp
  <1>2. CASE WsgiParts'
    BY <1>1, <1>2 DEF WsgiInv, WsgiParts
  <1>3. CASE WDropContext
    <2>1. CASE bad' = "none"
      BY <1>1, <1>3, <2>1, StepDropContext DEF WsgiInv, WsgiParts
    <2>2. CASE bad' # "none"
      BY <1>3, <2>2, BadDrop DEF WsgiInv
    <2> QED
      BY <2>1, <2>2
  <1>4. CASE WToPool
    <2>1. CASE bad' = "none"
      BY <1>1, <1>4, <2>1, StepToPool DEF WsgiInv, WsgiParts
    <2>2. CASE bad' # "none"
      BY <1>4, <2>2, BadPool DEF WsgiInv
    <2> QED
      BY <2>1, <2>2
  <1>5. WsgiParts' \/ WDropContext \/ WToPool
    BY StepLock, StepPop, StepWait, StepIncref, StepTryLock, StepEnviron, StepCall, StepStart, StepStartLocked,
       StepItem, StepNoIterator, StepItemsEnd, StepLast, StepWrite, StepDropWorker, StepRefuse DEF Worker
  <1> QED
    BY <1>2, <1>3, <1>4, <1>5

\* The steps of the event loop.
LEMMA LoopInv ==
    ASSUME ~Pipelining, WsgiParts, RespType, WNext, ~Worker
    PROVE  WsgiInv'
  <1>1. CASE QueueResponses
    <2>1. CASE bad' = "none"
      BY <1>1, <2>1, StepQueueResponses, QueueResp DEF WsgiInv, WsgiParts
    <2>2. CASE bad' # "none"
      BY <1>1, <2>2, BadQueue DEF WsgiInv
    <2> QED
      BY <2>1, <2>2
  <1>2. CASE WsgiParts' /\ UNCHANGED resp
    <2>1. RespType'
      BY <1>2 DEF RespType
    <2> QED
      BY <1>2, <2>1 DEF WsgiInv, WsgiParts
  <1>3. ASSUME NEW s \in Sess, SessionInit(s) \/ RequestCb(s) \/ SessionClose(s) \/ SessionCleanup(s)
        PROVE  WsgiParts' /\ UNCHANGED resp
    <2>1. WsgiParts'
      BY <1>3, StepSessionInit, StepRequestCb, StepSessionClose, StepSessionLock, StepSessionEmpty,
         StepSessionUnlock DEF SessionCleanup
    <2>2. UNCHANGED resp
      BY <1>3 DEF SessionInit, RequestCb, SessionClose, SessionCleanup, SessionLock, SessionEmpty, SessionUnlock
    <2> QED
      BY <2>1, <2>2
  <1>4. ASSUME NEW s \in Sess, NEW e \in Available(s), HeaderCb(s, e)
        PROVE  WsgiParts' /\ UNCHANGED resp
    <2>1. UNCHANGED resp
      BY <1>4 DEF HeaderCb
    <2> QED
      BY <1>4, <2>1, StepHeaderCb
  <1>5. StopWorkers => WsgiParts' /\ UNCHANGED resp
    BY StepStopWorkers DEF StopWorkers
  <1> QED
    BY <1>1, <1>2, <1>3, <1>4, <1>5 DEF WNext

\* Once something went wrong no step follows.
LEMMA BadIsLast == WNext => bad = "none"
  <1> SUFFICES ASSUME WNext PROVE bad = "none"
    BY SMTT(40)
  <1>1. Worker => bad = "none"
    BY DEF Worker, WLock, WPop, WWait, WIncref, WTryLock, WEnviron, WCall, WStart, WStartLocked, WItem,
           WNoIterator, WItemsEnd, WLast, WWrite, WDropWorker, WDropContext, WRefuse, WToPool, WorkerAt, Okay
  <1>2. ASSUME NEW s \in Sess, SessionInit(s) \/ RequestCb(s) \/ SessionClose(s) \/ SessionCleanup(s)
        PROVE  bad = "none"
    BY <1>2 DEF SessionInit, RequestCb, SessionClose, SessionCleanup, SessionLock, SessionEmpty, SessionUnlock,
                Turn, Okay
  <1>3. ASSUME NEW s \in Sess, NEW e \in Available(s), HeaderCb(s, e)
        PROVE  bad = "none"
    BY <1>3, SMTT(40) DEF HeaderCb, Turn, Okay
  <1>4. QueueResponses \/ StopWorkers => bad = "none"
    BY DEF QueueResponses, StopWorkers, Turn, Okay
  <1> QED
    BY <1>1, <1>2, <1>3, <1>4 DEF WNext

LEMMA NextInv ==
    ASSUME ~Pipelining, WsgiInv, [WNext]_gvars
    PROVE  WsgiInv'
  <1>1. CASE UNCHANGED gvars
    <2>1. UNCHANGED <<ses, ex, resp, phase, queue_in, queue_out, w, lost, bad>>
      BY <1>1 DEF gvars
    <2>2. LockMeansClosed'
      BY <2>1 DEF WsgiInv, LockMeansClosed
    <2>3. WsgiParts => WsgiParts'
      <3>1. WsgiType => WsgiType'
        BY <2>1 DEF WsgiType
      <3>2. RefInv => RefInv'
        BY <2>1 DEF RefInv, Refs, Listed
      <3>3. DeadInv => DeadInv'
        BY <2>1 DEF DeadInv, Listed
      <3>4. CountInv => CountInv'
        BY <2>1 DEF CountInv, LiveOf
      <3>5. ListInv => ListInv'
        BY <2>1 DEF ListInv, Listed
      <3>6. PoolInv => PoolInv'
        BY <2>1 DEF PoolInv
      <3>7. OnceInv => OnceInv'
        BY <2>1 DEF OnceInv, InHand, WorkedOn, Listed
      <3>8. DoneInv => DoneInv'
        BY <2>1 DEF DoneInv, Coming
      <3>9. NumInv => NumInv'
        BY <2>1 DEF NumInv, InHand, WorkedOn
      <3> QED
        BY <2>2, <3>1, <3>2, <3>3, <3>4, <3>5, <3>6, <3>7, <3>8, <3>9 DEF WsgiParts
    <2>4. RespType => RespType'
      BY <2>1 DEF RespType
    <2> QED
      BY <2>1, <2>2, <2>3, <2>4 DEF WsgiInv
  <1>2. CASE WNext
    <2>1. WsgiParts /\ RespType
      BY <1>2, BadIsLast DEF WsgiInv
    <2> QED
      BY <1>2, <2>1, WorkerInv, LoopInv
  <1> QED
    BY <1>1, <1>2

LEMMA Invariant == ASSUME ~Pipelining PROVE WSpec => []WsgiInv
  <1>1. WsgiInv /\ [WNext]_gvars => WsgiInv'
    BY NextInv
  <1> QED
    BY <1>1, InitInv, PTL DEF WSpec

\* The invariant counts as RefsExact does.
LEMMA Counted == WsgiInv => RefsExact
  <1> SUFFICES ASSUME WsgiInv, bad = "none"
               PROVE  /\ \A e \in Exchanges : ex[e].live =>
                          ex[e].ref = B2N(e \in Range(ses[e[1]].head)) + B2N(~ex[e].sent) + B2N(e \in lost)
                                      + Queued(queue_in, e) + Queued(queue_out, e)
                                      + (IF w.ex # e THEN 0
                                         ELSE B2N(w.pc \in WithContext \cup {"incref"} /\ e \notin lost)
                                              + B2N(w.pc \in WithContext \cup {"dropctx"}))
                      /\ \A s \in Sess :
                          ses[s].ref = B2N(ses[s].state \in Held)
                                       + Cardinality({e \in Exchanges : e[1] = s /\ ex[e].live})
    BY DEF RefsExact
  <1>0. WsgiParts
    BY DEF WsgiInv
  <1>1. ASSUME NEW s \in Sess
        PROVE  ses[s].ref = B2N(ses[s].state \in Held)
                            + Cardinality({e \in Exchanges : e[1] = s /\ ex[e].live})
    BY <1>0 DEF WsgiParts, CountInv, LiveOf
  <1>2. ASSUME NEW e \in Exchanges
        PROVE  (e \in Range(ses[e[1]].head)) = Listed(e)
    <2> DEFINE h == ses[e[1]].head
    <2>1. h = << >> \/ \E f \in Exchanges : h = <<f>>
      BY <1>0, ExchangeIs DEF WsgiParts, ListInv
    <2>2. (e \in Range(h)) = (h = <<e>>)
      <3> HIDE DEF h
      <3>1. CASE h = << >>
        BY <3>1 DEF Range
      <3>2. ASSUME NEW f \in Exchanges, h = <<f>>
            PROVE  (e \in Range(h)) = (h = <<e>>)
        BY <3>2 DEF Range
      <3> QED
        BY <2>1, <3>1, <3>2
    <2> QED
      BY <2>2 DEF Listed
  <1>3. ASSUME NEW e \in Exchanges, ex[e].live
        PROVE  ex[e].ref = B2N(e \in Range(ses[e[1]].head)) + B2N(~ex[e].sent) + B2N(e \in lost)
                           + Queued(queue_in, e) + Queued(queue_out, e)
                           + (IF w.ex # e THEN 0
                              ELSE B2N(w.pc \in WithContext \cup {"incref"} /\ e \notin lost)
                                   + B2N(w.pc \in WithContext \cup {"dropctx"}))
    <2>1. ex[e].ref = Refs(e)
      BY <1>0, <1>3 DEF WsgiParts, RefInv
    <2> QED
      BY <1>2, <2>1 DEF Refs, WRefs, Working
  <1> QED
    BY <1>1, <1>3

\* The reference counts are exact (WSGI_EXCHANGE_INCREF and DECREF in
\* ymo_wsgi_exchange.c, those of the session in ymo_wsgi_session.c): whatever the
\* order in which the loop and the worker run, and whenever a connection ends or an
\* application raises, an exchange is counted once for the list, the server, each
\* queue entry, the worker and the context, and a session once for its connection
\* and each exchange.
THEOREM ReferencesStayExact == ASSUME ~Pipelining PROVE WSpec => []RefsExact
  BY Invariant, Counted, PTL

\* Nobody keeps the lock of an open session but for the moment in which the worker
\* makes the environment (ymo_wsgi_session_trylock, ymo_wsgi_ctx_update_environ), so
\* yimmo_Context_start_response never fails for an open session.
THEOREM LockStaysFree == ASSUME ~Pipelining PROVE WSpec => []LockMeansClosed
  <1>1. WsgiInv => LockMeansClosed
    BY DEF WsgiInv
  <1> QED
    BY <1>1, Invariant, PTL
=============================================================================
