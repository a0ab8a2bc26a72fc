-------------------------- MODULE YmoServerProofs --------------------------
(***************************************************************************)
(* Theorems about YmoServer, for every number of connections and every     *)
(* protocol: type correctness, the safety of the pointers that libev, bsat *)
(* and the callback in progress hold, and the accounting behind a graceful *)
(* stop.                                                                   *)
(***************************************************************************)
EXTENDS YmoServer, FiniteSetTheorems, TLAPS

USE ServerAssumption

\* The frames a callback can leave behind are frames.
LEMMA FrameTypes ==
    /\ Loop \in Frames
    /\ \A c \in Conns :
          /\ Recv(c) \in Frames
          /\ \A n \in 0..MaxCalls : Parse(c, n) \in Frames
          /\ \A n \in 0..MaxCalls, b \in BOOLEAN : Drain(c, n, b) \in Frames
          /\ Drain(c, 0, FALSE) \in Frames
BY DEF Loop, Recv, Parse, Drain, Frames

\* no_conn stays within size_t.
LEMMA SizeArithmetic ==
    \A n \in 0..SizeMax : Inc(n) \in 0..SizeMax /\ Dec(n) \in 0..SizeMax
BY DEF Inc, Dec

\* Whatever a protocol callback does, the watchers stay watchers and the
\* state stays a state of an allocated connection.
LEMMA ProtoTypes ==
    ASSUME TypeOK, NEW c \in Conns, NEW io \in SUBSET {"rx", "tx"}, NEW sd \in BOOLEAN,
           NEW w \in SUBSET Watchers
    PROVE  /\ ProtoState(c, sd) \in ConnStates
           /\ ProtoWatch(c, w, io, sd) \in SUBSET Watchers
           /\ ResetIdleTimeout(w) \in SUBSET Watchers
           /\ WatchAfterShutdown(c, w) \in SUBSET Watchers
           /\ StateAfterShutdown(c) \in ConnStates
BY DEF TypeOK, ProtoState, ProtoWatch, WatchAfterShutdown, StateAfterShutdown,
       ResetIdleTimeout, Watchers, ConnStates, ShutdownFails

\* Freeing a connection keeps every variable in its type.
LEMMA CloseTailType ==
    ASSUME TypeOK, NEW c \in Conns, NEW f \in Frames, CloseTail(c, f)
    PROVE  TypeOK'
<1>1. noConn' \in 0..SizeMax
  BY SizeArithmetic DEF TypeOK, CloseTail
<1>2. watch' \in [Conns -> SUBSET Watchers]
  BY DEF TypeOK, CloseTail, CancelIdleTimeout
<1>3. st' \in [Conns -> ConnStates] /\ peer' \in [Conns -> PeerStates]
  BY DEF TypeOK, CloseTail, ConnStates, PeerStates
<1>4. broke' \in BOOLEAN /\ toq' \in [Conns -> BOOLEAN]
  BY DEF TypeOK, CloseTail, LastConnGone
<1> QED
  BY <1>1, <1>2, <1>3, <1>4 DEF TypeOK, CloseTail

\* One write callback keeps every variable in its type.
LEMMA WriteType ==
    ASSUME TypeOK, NEW c \in Conns, NEW f \in Frames, NEW b \in BOOLEAN,
           WriteOkay(c, f) \/ WriteBlocked(c, f) \/ WriteError(c, b)
    PROVE  TypeOK'
<1>1. CASE WriteOkay(c, f)
  <2>1. PICK io \in SUBSET {"rx", "tx"}, sd \in BOOLEAN :
          /\ st' = [st EXCEPT ![c] = ProtoState(c, sd)]
          /\ watch' = [watch EXCEPT
                ![c] = ResetIdleTimeout(ProtoWatch(c, @, io, sd)) \ {"tx"}]
    BY <1>1 DEF WriteOkay
  <2>2. st' \in [Conns -> ConnStates] /\ watch' \in [Conns -> SUBSET Watchers]
    BY <2>1, ProtoTypes, ZenonT(60) DEF TypeOK
  <2> QED
    BY <1>1, <2>2 DEF TypeOK, WriteOkay
<1>2. CASE WriteBlocked(c, f)
  <2>1. PICK io \in SUBSET {"rx", "tx"}, sd \in BOOLEAN :
          /\ st' = [st EXCEPT ![c] = ProtoState(c, sd)]
          /\ watch' = [watch EXCEPT
                ![c] = ResetIdleTimeout(ProtoWatch(c, @, io, sd))]
    BY <1>2 DEF WriteBlocked
  <2>2. st' \in [Conns -> ConnStates] /\ watch' \in [Conns -> SUBSET Watchers]
    BY <2>1, ProtoTypes, ZenonT(60) DEF TypeOK
  <2> QED
    BY <1>2, <2>2 DEF TypeOK, WriteBlocked
<1>3. CASE WriteError(c, b)
  <2>1. frame.calls \in 0..MaxCalls
    BY DEF TypeOK, Frames
  <2>2. Drain(c, frame.calls, b) \in Frames
    BY <2>1, FrameTypes
  <2>3. ResetIdleTimeout(watch[c]) \in SUBSET Watchers
    BY ProtoTypes DEF TypeOK
  <2>4. st' \in [Conns -> ConnStates] /\ watch' \in [Conns -> SUBSET Watchers]
    BY <1>3, <2>3, ProtoTypes DEF TypeOK, WriteError, CloseClean
  <2> QED
    BY <1>3, <2>2, <2>4 DEF TypeOK, WriteError, CloseClean
<1> QED
  BY <1>1, <1>2, <1>3

\* A protocol's read callback and what ymo_read_cb does with its result.
LEMMA ParseType ==
    ASSUME TypeOK, NEW c \in Conns,
           ParseOkay(c) \/ ParseBlocked(c) \/ ParseError(c)
           \/ ParseTxNowLast(c) \/ ParseTxNowMid(c)
    PROVE  TypeOK'
<1>0. frame.calls \in 0..MaxCalls /\ frame \in Frames
  BY DEF TypeOK, Frames
<1>1. CASE ParseOkay(c) \/ ParseBlocked(c)
  <2>1. PICK io \in SUBSET {"rx", "tx"}, sd \in BOOLEAN :
          /\ st' = [st EXCEPT ![c] = ProtoState(c, sd)]
          /\ watch' = [watch EXCEPT ![c] = ProtoWatch(c, @, io, sd)]
    BY <1>1 DEF ParseOkay, ParseBlocked
  <2>2. st' \in [Conns -> ConnStates] /\ watch' \in [Conns -> SUBSET Watchers]
    BY <2>1, ProtoTypes DEF TypeOK
  <2>3. frame.calls > 1 => Parse(c, frame.calls - 1) \in Frames
    <3>1. frame.calls > 1 => frame.calls - 1 \in 0..MaxCalls
      BY <1>0
    <3> QED
      BY <3>1, FrameTypes
  <2>4. frame' \in Frames
    <3>1. Loop \in Frames /\ Recv(c) \in Frames
      BY FrameTypes
    <3> QED
      BY <1>1, <2>3, <3>1 DEF ParseOkay, ParseBlocked
  <2>5. UNCHANGED <<srv, accepts, noConn, broke, toq, work, peer, inq>>
    BY <1>1 DEF ParseOkay, ParseBlocked
  <2> QED
    BY <2>2, <2>4, <2>5 DEF TypeOK
<1>2. CASE ParseError(c)
  BY <1>2, CloseTailType, FrameTypes DEF ParseError
<1>3. CASE ParseTxNowLast(c)
  BY <1>3, WriteType, FrameTypes DEF ParseTxNowLast
<1>4. CASE ParseTxNowMid(c)
  BY <1>0, <1>4, WriteType DEF ParseTxNowMid
<1> QED
  BY <1>1, <1>2, <1>3, <1>4

\* The steps of ymo_read_cb around recv().
LEMMA RecvType ==
    ASSUME TypeOK, NEW c \in Conns,
           ReadEvent(c) \/ ReadEventError(c) \/ RecvStep(c)
    PROVE  TypeOK'
<1>1. CASE ReadEvent(c)
  BY <1>1, FrameTypes DEF TypeOK, ReadEvent, connVars
<1>2. CASE ReadEventError(c) \/ RecvClosed(c)
  BY <1>2, CloseTailType, FrameTypes DEF ReadEventError, RecvClosed
<1>3. CASE RecvHandshake(c)
  <2>1. CASE CloseTail(c, Loop)
    BY <2>1, CloseTailType, FrameTypes
  <2>2. CASE ~CloseTail(c, Loop)
    <3>1. inq[c] > 0 /\ inq' = [inq EXCEPT ![c] = @ - 1]
      BY <1>3, <2>2 DEF RecvHandshake
    <3>2. inq' \in [Conns -> 0..MaxIn]
      BY <3>1 DEF TypeOK
    <3>3. st' \in [Conns -> ConnStates] /\ frame' \in Frames
      BY <1>3, <2>2, FrameTypes DEF RecvHandshake, TypeOK, ConnStates
    <3>4. UNCHANGED <<srv, accepts, noConn, broke, watch, toq, work, peer>>
      BY <1>3, <2>2 DEF RecvHandshake
    <3> QED
      BY <3>2, <3>3, <3>4 DEF TypeOK
  <2> QED
    BY <2>1, <2>2
<1>4. CASE RecvData(c)
  <2>1. frame' \in Frames
    <3>1. \A n \in 1..MaxCalls : Parse(c, n) \in Frames
      BY DEF Parse, Frames
    <3> QED
      BY <1>4, <3>1 DEF RecvData, TypeOK, CanRead
  <2>2. watch' \in [Conns -> SUBSET Watchers]
    BY <1>4 DEF RecvData, TypeOK, ResetIdleTimeout, Watchers
  <2>3. inq' \in [Conns -> 0..MaxIn]
    BY <1>4 DEF RecvData, TypeOK
  <2>4. UNCHANGED <<srv, accepts, noConn, broke, st, toq, work, peer>>
    BY <1>4 DEF RecvData
  <2> QED
    BY <2>1, <2>2, <2>3, <2>4 DEF TypeOK
<1>5. CASE RecvBlocked(c)
  BY <1>5, FrameTypes DEF RecvBlocked, TypeOK
<1> QED
  BY <1>1, <1>2, <1>3, <1>4, <1>5 DEF RecvStep

\* The recv loop of ymo_conn_close.
LEMMA DrainType ==
    ASSUME TypeOK, NEW c \in Conns, DrainStep(c)
    PROVE  TypeOK'
<1>1. ReturnFrame \in Frames
  BY FrameTypes DEF ReturnFrame, DrainStep, TypeOK, Frames
<1>2. CASE DrainData(c) \/ DrainBlocked(c) \/ DrainReset(c)
  BY <1>2 DEF TypeOK, DrainData, DrainBlocked, DrainReset, vars, PeerStates
<1>3. CASE DrainEof(c)
  BY <1>1, <1>3, CloseTailType DEF DrainEof
<1> QED
  BY <1>2, <1>3 DEF DrainStep

\* Accepting, waking a connection up and timing it out.
LEMMA LoopType ==
    ASSUME TypeOK, NEW c \in Conns,
           AcceptOkay(c) \/ AcceptNoMemory(c) \/ AcceptInitFails(c)
           \/ AppTxEnable(c) \/ IdleTimeout(c) \/ WriteEvent(c)
    PROVE  TypeOK'
<1>1. CASE AcceptOkay(c)
  <2>1. noConn' \in 0..SizeMax
    BY <1>1, SizeArithmetic DEF AcceptOkay, TypeOK
  <2>2. watch' \in [Conns -> SUBSET Watchers]
    BY <1>1 DEF AcceptOkay, TypeOK, Watchers
  <2>3. st' \in [Conns -> ConnStates] /\ peer' \in [Conns -> PeerStates]
    BY <1>1 DEF AcceptOkay, TypeOK, ConnStates, PeerStates
  <2> QED
    BY <1>1, <2>1, <2>2, <2>3 DEF AcceptOkay, TypeOK
<1>2. CASE AcceptNoMemory(c)
  BY <1>2 DEF AcceptNoMemory, TypeOK, PeerStates
<1>3. CASE AcceptInitFails(c)
  BY <1>3, FrameTypes DEF AcceptInitFails, TypeOK, PeerStates, ConnStates, Watchers
<1>4. CASE AppTxEnable(c)
  BY <1>4 DEF AppTxEnable, TypeOK, Watchers
<1>5. CASE IdleTimeout(c)
  <2>1. watch[c] \ {"idle"} \in SUBSET Watchers
    BY DEF TypeOK
  <2>2. st' \in [Conns -> ConnStates] /\ watch' \in [Conns -> SUBSET Watchers]
    BY <1>5, <2>1, ProtoTypes DEF IdleTimeout, CloseClean, TypeOK
  <2> QED
    BY <1>5, <2>2, FrameTypes DEF IdleTimeout, CloseClean, TypeOK
<1>6. CASE WriteEvent(c)
  BY <1>6, WriteType, FrameTypes DEF WriteEvent
<1> QED
  BY <1>1, <1>2, <1>3, <1>4, <1>5, <1>6

\* Every variable keeps its type: in particular no_conn stays a size_t and
\* no callback leaves a watcher or a state the code does not know.
THEOREM TypeCorrect == Spec => []TypeOK
<1>1. Init => TypeOK
  <2>1. Init => frame \in Frames /\ noConn \in 0..SizeMax
    BY FrameTypes DEF Init
  <2>2. Init => /\ srv \in ServerStates /\ st \in [Conns -> ConnStates]
                /\ peer \in [Conns -> PeerStates]
    BY DEF Init, ServerStates, ConnStates, PeerStates
  <2>3. Init => watch \in [Conns -> SUBSET Watchers] /\ toq \in [Conns -> BOOLEAN]
    BY DEF Init
  <2>4. Init => work \in [Conns -> 0..MaxWork] /\ inq \in [Conns -> 0..MaxIn]
    BY DEF Init
  <2>5. Init => accepts \in BOOLEAN /\ broke \in BOOLEAN
    BY DEF Init
  <2> QED
    BY <2>1, <2>2, <2>3, <2>4, <2>5 DEF TypeOK
<1>2. TypeOK /\ [Next]_vars => TypeOK'
  <2> SUFFICES ASSUME TypeOK, [Next]_vars PROVE TypeOK'
    OBVIOUS
  <2>1. CASE UNCHANGED vars
    BY <2>1 DEF vars, TypeOK
  <2>2. CASE Lifecycle
    <3>1. CASE StopGraceful
      <4>1. accepts' \in BOOLEAN /\ broke' \in BOOLEAN /\ srv' \in ServerStates
        BY <3>1 DEF StopGraceful, ServerStates
      <4>2. peer' \in [Conns -> PeerStates] /\ inq' \in [Conns -> 0..MaxIn]
        BY <3>1 DEF StopGraceful, TypeOK, PeerStates
      <4> QED
        BY <3>1, <4>1, <4>2 DEF StopGraceful, TypeOK
    <3>2. CASE InitSocket \/ Start \/ ServerFree \/ Exited
      BY <3>2 DEF InitSocket, Start, ServerFree, Exited, TypeOK, ServerStates,
                  connVars, vars
    <3> QED
      BY <2>2, <3>1, <3>2 DEF Lifecycle
  <2>3. ASSUME NEW c \in Conns, Callback(c) PROVE TypeOK'
    BY <2>3, LoopType, RecvType, ParseType, DrainType DEF Callback
  <2>4. ASSUME NEW c \in Conns, Client(c) PROVE TypeOK'
    BY <2>4 DEF Client, Connect, PeerSend, PeerClose, PeerReset, TypeOK, PeerStates
  <2> QED
    BY <2>1, <2>2, <2>3, <2>4 DEF Next
<1> QED
  BY <1>1, <1>2, PTL DEF Spec

-----------------------------------------------------------------------------
(* The pointers held by libev, by bsat and by the callback in progress.    *)

\* A step that leaves connection c allocated, puts its watchers at w and
\* control at frame f keeps PointerInv if c still has its timer or is now
\* being closed.
LEMMA KeepPointers ==
    ASSUME TypeOK, PointerInv,
           NEW c \in Conns, st[c] # "FREE", toq[c],
           frame.pc = "loop" \/ frame.conn = c,
           NEW s \in ConnStates \ {"FREE"}, NEW w \in SUBSET Watchers,
           NEW f \in Frames,
           f.pc = "loop" <=> f.conn = NoConn,
           f.pc # "loop" => f.conn = c,
           f.nested => "mid" \in TxNow,
           "idle" \in w \/ f.pc = "drain",
           st' = [st EXCEPT ![c] = s], watch' = [watch EXCEPT ![c] = w],
           toq' = toq, frame' = f
    PROVE  PointerInv'
<1>1. \A d \in Conns : /\ d # c => st'[d] = st[d] /\ watch'[d] = watch[d]
                       /\ st'[c] = s /\ watch'[c] = w
  BY DEF TypeOK
<1>2. \A d \in Conns : d # c => ~Draining(d)
  BY DEF TypeOK, Draining, PointerInv, FrameInv
<1>3. NoDanglingWatcher'
  BY <1>1 DEF PointerInv, NoDanglingWatcher
<1>4. FrameInv'
  BY <1>1 DEF PointerInv, FrameInv, Allocated
<1>5. TimerInv'
  BY <1>1, <1>2 DEF PointerInv, TimerInv, Draining
<1> QED
  BY <1>3, <1>4, <1>5 DEF PointerInv

\* Freeing the connection of the current callback, or one the loop has just
\* been told of, keeps PointerInv.
LEMMA FreePointers ==
    ASSUME TypeOK, PointerInv,
           NEW c \in Conns, st[c] # "FREE",
           frame.pc = "loop" \/ frame.conn = c,
           NEW f \in Frames, CloseTail(c, f),
           f = Loop \/ (f.pc = "parse" /\ f.conn = c /\ ~f.nested /\ "mid" \in TxNow)
    PROVE  PointerInv'
<1>1. \A d \in Conns : d # c =>
        st'[d] = st[d] /\ watch'[d] = watch[d] /\ toq'[d] = toq[d]
  BY DEF TypeOK, CloseTail
<1>2. st'[c] = "FREE" /\ ~toq'[c]
  BY DEF TypeOK, CloseTail
<1>3. watch'[c] = {}
  <2>1. watch'[c] = CancelIdleTimeout(c, watch[c]) \ {"rx", "tx"}
    BY DEF TypeOK, CloseTail
  <2>2. "idle" \notin CancelIdleTimeout(c, watch[c])
    BY DEF CancelIdleTimeout, PointerInv, TimerInv
  <2>3. watch[c] \subseteq {"rx", "tx", "idle"}
    BY DEF TypeOK, Watchers
  <2> QED
    BY <2>1, <2>2, <2>3 DEF CancelIdleTimeout
<1>4. \A d \in Conns : d # c => ~Draining(d)
  BY DEF TypeOK, Draining, PointerInv, FrameInv
<1>5. frame' = f
  BY DEF CloseTail
<1>6. NoDanglingWatcher'
  BY <1>1, <1>3 DEF PointerInv, NoDanglingWatcher
<1>7. FrameInv'
  BY <1>2, <1>5 DEF FrameInv, Allocated, Loop
<1>8. TimerInv'
  BY <1>1, <1>2, <1>3, <1>4 DEF PointerInv, TimerInv, Draining
<1> QED
  BY <1>6, <1>7, <1>8 DEF PointerInv

\* An allocated connection that is not being closed is counted and timed.
LEMMA LiveConn ==
    ASSUME TypeOK, PointerInv, NEW c \in Conns, st[c] # "FREE", ~Draining(c)
    PROVE  toq[c] /\ "idle" \in watch[c]
BY DEF PointerInv, TimerInv

\* Between two callbacks no connection is being closed.
LEMMA DispatchingFacts ==
    ASSUME Dispatching
    PROVE  frame = Loop /\ frame.pc = "loop" /\ \A c \in Conns : ~Draining(c)
BY DEF Dispatching, Loop, Draining

\* What a protocol callback leaves: an allocated connection with its timer.
LEMMA ProtoKeeps ==
    ASSUME TypeOK, NEW c \in Conns, st[c] # "FREE", NEW sd \in BOOLEAN,
           NEW io \in SUBSET {"rx", "tx"}, "idle" \in watch[c]
    PROVE  /\ ProtoState(c, sd) \in ConnStates \ {"FREE"}
           /\ StateAfterShutdown(c) \in ConnStates \ {"FREE"}
           /\ ProtoWatch(c, watch[c], io, sd) \in SUBSET Watchers
           /\ "idle" \in ProtoWatch(c, watch[c], io, sd)
BY DEF TypeOK, ProtoState, ProtoWatch, WatchAfterShutdown, StateAfterShutdown,
       Watchers, ConnStates, ShutdownFails

\* The fields of the frames.
LEMMA FrameFields ==
    /\ Loop.pc = "loop" /\ Loop.conn = NoConn /\ Loop.nested = FALSE
    /\ \A c \in Conns :
          /\ Recv(c).pc = "recv" /\ Recv(c).conn = c /\ Recv(c).nested = FALSE
          /\ \A n \in 0..MaxCalls :
                /\ Parse(c, n).pc = "parse" /\ Parse(c, n).conn = c
                /\ Parse(c, n).nested = FALSE
                /\ \A b \in BOOLEAN : /\ Drain(c, n, b).pc = "drain"
                                      /\ Drain(c, n, b).conn = c
                                      /\ Drain(c, n, b).nested = b
BY DEF Loop, Recv, Parse, Drain

\* The write callback, from the loop (f is Loop) or inside a read callback.
LEMMA WritePointers ==
    ASSUME TypeOK, PointerInv, NEW c \in Conns, st[c] # "FREE", ~Draining(c),
           frame.pc = "loop" \/ frame.conn = c,
           NEW f \in Frames, f = Loop \/ f = frame,
           NEW b \in BOOLEAN, b => "mid" \in TxNow,
           WriteOkay(c, f) \/ WriteBlocked(c, f) \/ WriteError(c, b)
    PROVE  PointerInv'
<1>0. toq[c] /\ "idle" \in watch[c] /\ watch[c] \in SUBSET Watchers
  BY LiveConn DEF TypeOK
<1>1. /\ f.pc = "loop" <=> f.conn = NoConn
      /\ f.pc # "loop" => f.conn = c
      /\ f.nested => "mid" \in TxNow
  BY FrameFields DEF PointerInv, FrameInv
<1>2. CASE WriteOkay(c, f)
  <2>1. PICK io \in SUBSET {"rx", "tx"}, sd \in BOOLEAN :
          /\ st' = [st EXCEPT ![c] = ProtoState(c, sd)]
          /\ watch' = [watch EXCEPT
                ![c] = ResetIdleTimeout(ProtoWatch(c, @, io, sd)) \ {"tx"}]
    BY <1>2 DEF WriteOkay
  <2> DEFINE s == ProtoState(c, sd)
             w == ResetIdleTimeout(ProtoWatch(c, watch[c], io, sd)) \ {"tx"}
  <2>2. s \in ConnStates \ {"FREE"} /\ w \in SUBSET Watchers /\ "idle" \in w
    BY <1>0, ProtoKeeps DEF ResetIdleTimeout, Watchers
  <2>3. st' = [st EXCEPT ![c] = s] /\ watch' = [watch EXCEPT ![c] = w]
    BY <2>1
  <2>4. toq' = toq /\ frame' = f
    BY <1>2 DEF WriteOkay
  <2> HIDE DEF s, w
  <2> QED
    BY <1>0, <1>1, <2>2, <2>3, <2>4, KeepPointers
<1>3. CASE WriteBlocked(c, f)
  <2>1. PICK io \in SUBSET {"rx", "tx"}, sd \in BOOLEAN :
          /\ st' = [st EXCEPT ![c] = ProtoState(c, sd)]
          /\ watch' = [watch EXCEPT
                ![c] = ResetIdleTimeout(ProtoWatch(c, @, io, sd))]
    BY <1>3 DEF WriteBlocked
  <2> DEFINE s == ProtoState(c, sd)
             w == ResetIdleTimeout(ProtoWatch(c, watch[c], io, sd))
  <2>2. s \in ConnStates \ {"FREE"} /\ w \in SUBSET Watchers /\ "idle" \in w
    BY <1>0, ProtoKeeps DEF ResetIdleTimeout, Watchers
  <2>3. st' = [st EXCEPT ![c] = s] /\ watch' = [watch EXCEPT ![c] = w]
    BY <2>1
  <2>4. toq' = toq /\ frame' = f
    BY <1>3 DEF WriteBlocked
  <2> HIDE DEF s, w
  <2> QED
    BY <1>0, <1>1, <2>2, <2>3, <2>4, KeepPointers
<1>4. CASE WriteError(c, b)
  <2> DEFINE s == StateAfterShutdown(c)
             v == ResetIdleTimeout(watch[c])
             w == IF st[c] = "SHUTDOWN" THEN v ELSE WatchAfterShutdown(c, v)
             d == Drain(c, frame.calls, b)
  <2>1. frame.calls \in 0..MaxCalls
    BY DEF TypeOK, Frames
  <2>2. /\ d \in Frames /\ d.pc = "drain" /\ d.conn = c /\ d.nested = b
    BY <2>1 DEF Drain, Frames
  <2>3. s \in ConnStates \ {"FREE"}
    BY <1>0, ProtoKeeps
  <2>4. w \in SUBSET Watchers
    BY <1>0 DEF ResetIdleTimeout, WatchAfterShutdown, Watchers
  <2>5. /\ st' = [st EXCEPT ![c] = s] /\ watch' = [watch EXCEPT ![c] = w]
        /\ toq' = toq /\ frame' = d
    BY <1>4 DEF WriteError, CloseClean
  <2>6. /\ d.pc = "loop" <=> d.conn = NoConn
        /\ d.pc # "loop" => d.conn = c
        /\ d.nested => "mid" \in TxNow
    BY <2>2
  <2> HIDE DEF s, w, d
  <2> QED
    BY <1>0, <2>2, <2>3, <2>4, <2>5, <2>6, KeepPointers
<1> QED
  BY <1>2, <1>3, <1>4

\* A protocol's read callback and what ymo_read_cb does with its result.
LEMMA ParsePointers ==
    ASSUME TypeOK, PointerInv, NEW c \in Conns,
           ParseOkay(c) \/ ParseBlocked(c) \/ ParseError(c)
           \/ ParseTxNowLast(c) \/ ParseTxNowMid(c)
    PROVE  PointerInv'
<1>0. /\ frame.pc = "parse" /\ frame.conn = c /\ st[c] # "FREE"
      /\ frame \in Frames /\ frame.calls \in 0..MaxCalls
  BY DEF ParseOkay, ParseBlocked, ParseError, ParseTxNowLast, ParseTxNowMid,
         AtParse, TypeOK, Frames
<1>1. ~Draining(c) /\ toq[c] /\ "idle" \in watch[c]
  BY <1>0, LiveConn DEF Draining
<1>2. Loop \in Frames
  BY FrameTypes
<1>3. CASE ParseOkay(c) \/ ParseBlocked(c)
  <2>1. PICK io \in SUBSET {"rx", "tx"}, sd \in BOOLEAN :
          /\ st' = [st EXCEPT ![c] = ProtoState(c, sd)]
          /\ watch' = [watch EXCEPT ![c] = ProtoWatch(c, @, io, sd)]
    BY <1>3 DEF ParseOkay, ParseBlocked
  <2> DEFINE s == ProtoState(c, sd)
             w == ProtoWatch(c, watch[c], io, sd)
  <2>2. s \in ConnStates \ {"FREE"} /\ w \in SUBSET Watchers /\ "idle" \in w
    BY <1>0, <1>1, ProtoKeeps
  <2>3. st' = [st EXCEPT ![c] = s] /\ watch' = [watch EXCEPT ![c] = w]
    BY <2>1
  <2>4. toq' = toq
    BY <1>3 DEF ParseOkay, ParseBlocked
  <2>5. \/ frame' = Loop \/ frame' = Recv(c)
        \/ frame.calls > 1 /\ frame' = Parse(c, frame.calls - 1)
    BY <1>3 DEF ParseOkay, ParseBlocked
  <2>6. /\ frame' \in Frames
        /\ frame'.pc = "loop" <=> frame'.conn = NoConn
        /\ frame'.pc # "loop" => frame'.conn = c
        /\ frame'.nested = FALSE
    <3>0. CASE frame' = Loop
      BY <3>0, <1>2, FrameFields
    <3>1. CASE frame' = Recv(c)
      <4>1. Recv(c) \in Frames
        BY FrameTypes
      <4>2. Recv(c).pc = "recv" /\ Recv(c).conn = c /\ Recv(c).nested = FALSE
        BY FrameFields
      <4> QED
        BY <3>1, <4>1, <4>2
    <3>2. CASE frame.calls > 1 /\ frame' = Parse(c, frame.calls - 1)
      <4>1. frame.calls - 1 \in 0..MaxCalls
        BY <1>0, <3>2
      <4> QED
        BY <3>2, <4>1 DEF Parse, Frames
    <3> QED
      BY <2>5, <3>0, <3>1, <3>2
  <2> HIDE DEF s, w
  <2> QED
    BY <1>0, <1>1, <2>2, <2>3, <2>4, <2>6, KeepPointers
<1>4. CASE ParseError(c)
  BY <1>0, <1>2, <1>4, FreePointers DEF ParseError
<1>5. CASE ParseTxNowLast(c)
  BY <1>0, <1>1, <1>2, <1>5, WritePointers DEF ParseTxNowLast
<1>6. CASE ParseTxNowMid(c)
  BY <1>0, <1>1, <1>6, WritePointers DEF ParseTxNowMid
<1> QED
  BY <1>3, <1>4, <1>5, <1>6

\* The steps of ymo_read_cb around recv(): at recv the connection is live.
LEMMA RecvPointers ==
    ASSUME TypeOK, PointerInv, NEW c \in Conns,
           ReadEvent(c) \/ ReadEventError(c) \/ RecvStep(c)
    PROVE  PointerInv'
<1>1. Loop \in Frames /\ Recv(c) \in Frames
  BY FrameTypes
<1>2. CASE ReadEvent(c) \/ ReadEventError(c)
  <2>1. st[c] # "FREE" /\ frame.pc = "loop" /\ ~Draining(c)
    BY <1>2, DispatchingFacts
       DEF ReadEvent, ReadEventError, PointerInv, NoDanglingWatcher
  <2>2. CASE ReadEvent(c)
    <3>1. toq[c] /\ "idle" \in watch[c]
      BY <2>1, LiveConn
    <3>2. /\ st[c] \in ConnStates \ {"FREE"} /\ watch[c] \in SUBSET Watchers
          /\ st' = [st EXCEPT ![c] = st[c]] /\ watch' = [watch EXCEPT ![c] = watch[c]]
          /\ toq' = toq /\ frame' = Recv(c)
      BY <2>1, <2>2 DEF TypeOK, ReadEvent, connVars
    <3>3. Recv(c).pc = "recv" /\ Recv(c).conn = c /\ Recv(c).nested = FALSE
      BY FrameFields
    <3>4. (Recv(c).pc = "loop" <=> Recv(c).conn = NoConn)
      BY <3>3
    <3> QED
      BY <1>1, <2>1, <3>1, <3>2, <3>3, <3>4, KeepPointers
  <2>3. CASE ReadEventError(c)
    BY <1>1, <2>1, <2>3, FreePointers DEF ReadEventError
  <2> QED
    BY <1>2, <2>2, <2>3
<1>3. CASE RecvStep(c)
  <2>1. frame.pc = "recv" /\ frame.conn = c
    BY <1>3 DEF RecvStep, RecvHandshake, RecvData, RecvBlocked, RecvClosed, AtRecv
  <2>2. st[c] # "FREE" /\ ~Draining(c)
    BY <2>1 DEF PointerInv, FrameInv, Allocated, Draining
  <2>3. /\ toq[c] /\ "idle" \in watch[c] /\ watch[c] \in SUBSET Watchers
        /\ st[c] \in ConnStates \ {"FREE"}
    BY <2>2, LiveConn DEF TypeOK
  <2>4. CASE CloseTail(c, Loop)
    BY <1>1, <2>1, <2>2, <2>4, FreePointers
  <2>5. CASE ~CloseTail(c, Loop)
    <3>1. toq' = toq
      BY <1>3, <2>5 DEF RecvStep, RecvHandshake, RecvData, RecvBlocked, RecvClosed
    <3>2. PICK s \in ConnStates \ {"FREE"} : st' = [st EXCEPT ![c] = s]
      <4>1. st' = st \/ st' = [st EXCEPT ![c] = "TLS_ESTABLISHED"]
        BY <1>3, <2>5 DEF RecvStep, RecvHandshake, RecvData, RecvBlocked, RecvClosed
      <4>2. st = [st EXCEPT ![c] = st[c]]
        BY DEF TypeOK
      <4>3. "TLS_ESTABLISHED" \in ConnStates \ {"FREE"}
        BY DEF ConnStates
      <4> QED
        BY <2>3, <4>1, <4>2, <4>3
    <3>3. watch' = [watch EXCEPT ![c] = watch[c]]
      <4>1. watch = [watch EXCEPT ![c] = watch[c]] /\ ResetIdleTimeout(watch[c]) = watch[c]
        BY <2>3 DEF TypeOK, ResetIdleTimeout
      <4>2. watch' = watch \/ watch' = [watch EXCEPT ![c] = ResetIdleTimeout(@)]
        BY <1>3, <2>5 DEF RecvStep, RecvHandshake, RecvData, RecvBlocked, RecvClosed
      <4> QED
        BY <4>1, <4>2
    <3>4. frame' = frame \/ frame' = Loop \/ \E n \in 1..MaxCalls : frame' = Parse(c, n)
      BY <1>3, <2>5 DEF RecvStep, RecvHandshake, RecvData, RecvBlocked, RecvClosed
    <3>5. /\ frame' \in Frames
          /\ frame'.pc = "loop" <=> frame'.conn = NoConn
          /\ frame'.pc # "loop" => frame'.conn = c
          /\ frame'.nested => "mid" \in TxNow
      <4>1. CASE frame' = frame
        BY <2>1, <4>1 DEF TypeOK, PointerInv, FrameInv
      <4>2. CASE frame' = Loop
        BY <1>1, <4>2, FrameFields
      <4>3. CASE \E n \in 1..MaxCalls : frame' = Parse(c, n)
        BY <4>3 DEF Parse, Frames
      <4> QED
        BY <3>4, <4>1, <4>2, <4>3
    <3> QED
      BY <2>1, <2>2, <2>3, <3>1, <3>2, <3>3, <3>5, KeepPointers
  <2> QED
    BY <2>4, <2>5
<1> QED
  BY <1>2, <1>3

\* The recv loop of ymo_conn_close, up to the free.
LEMMA DrainPointers ==
    ASSUME TypeOK, PointerInv, NEW c \in Conns, DrainStep(c)
    PROVE  PointerInv'
<1>1. frame.pc = "drain" /\ frame.conn = c /\ st[c] # "FREE"
  BY DEF DrainStep, PointerInv, FrameInv, Allocated
<1>2. CASE DrainData(c) \/ DrainBlocked(c) \/ DrainReset(c)
  <2>1. UNCHANGED <<st, watch, toq, frame>>
    BY <1>2 DEF DrainData, DrainBlocked, DrainReset, vars
  <2> QED
    BY <2>1 DEF PointerInv, NoDanglingWatcher, FrameInv, TimerInv, Allocated, Draining
<1>3. CASE DrainEof(c)
  <2>1. CASE frame.nested
    <3> DEFINE f == Parse(c, frame.calls)
    <3>1. f \in Frames /\ f.pc = "parse" /\ f.conn = c /\ ~f.nested
      BY DEF TypeOK, Frames, Parse
    <3>2. "mid" \in TxNow
      BY <2>1 DEF PointerInv, FrameInv
    <3>3. CloseTail(c, f)
      BY <1>1, <1>3, <2>1 DEF DrainEof, ReturnFrame
    <3> HIDE DEF f
    <3> QED
      BY <1>1, <3>1, <3>2, <3>3, FreePointers
  <2>2. CASE ~frame.nested
    BY <1>1, <1>3, <2>2, FrameTypes, FreePointers DEF DrainEof, ReturnFrame
  <2> QED
    BY <2>1, <2>2
<1> QED
  BY <1>2, <1>3 DEF DrainStep

\* Accepting, waking a connection up, writing to it and timing it out.
LEMMA LoopPointers ==
    ASSUME TypeOK, PointerInv, NEW c \in Conns,
           AcceptOkay(c) \/ AcceptNoMemory(c) \/ AcceptInitFails(c)
           \/ AppTxEnable(c) \/ IdleTimeout(c) \/ WriteEvent(c)
    PROVE  PointerInv'
<1>1. frame = Loop /\ frame.pc = "loop" /\ \A d \in Conns : ~Draining(d)
  BY DispatchingFacts DEF AcceptOkay, AcceptNoMemory, AcceptInitFails, AcceptPending,
                          AppTxEnable, IdleTimeout, WriteEvent
<1>2. Loop \in Frames
  BY FrameTypes
<1>3. CASE AcceptOkay(c)
  <2>1. frame' = frame
    BY <1>3 DEF AcceptOkay
  <2>2. \A d \in Conns : d # c =>
          st'[d] = st[d] /\ watch'[d] = watch[d] /\ toq'[d] = toq[d]
    BY <1>3 DEF AcceptOkay, TypeOK
  <2>3. st'[c] # "FREE" /\ toq'[c] /\ "idle" \in watch'[c]
    BY <1>3 DEF AcceptOkay, TypeOK
  <2>4. NoDanglingWatcher'
    BY <2>2, <2>3 DEF PointerInv, NoDanglingWatcher
  <2>5. FrameInv'
    BY <1>1, <2>1, FrameFields DEF FrameInv
  <2>6. TimerInv'
    BY <1>1, <2>1, <2>2, <2>3 DEF PointerInv, TimerInv, Draining
  <2> QED
    BY <2>4, <2>5, <2>6 DEF PointerInv
<1>4. CASE AcceptNoMemory(c)
  <2>1. UNCHANGED <<st, watch, toq, frame>>
    BY <1>4 DEF AcceptNoMemory
  <2> QED
    BY <2>1 DEF PointerInv, NoDanglingWatcher, FrameInv, TimerInv, Allocated, Draining
<1>5. CASE AcceptInitFails(c)
  <2>1. frame' = Drain(c, 0, FALSE) /\ InitMayFail /\ toq' = toq /\ st[c] = "FREE"
    BY <1>5 DEF AcceptInitFails, AcceptPending
  <2>2. frame'.pc = "drain" /\ frame'.conn = c /\ frame'.nested = FALSE
    BY <2>1 DEF Drain
  <2>3. \A d \in Conns : d # c => st'[d] = st[d] /\ watch'[d] = watch[d]
    BY <1>5 DEF AcceptInitFails, TypeOK
  <2>4. st'[c] = "SHUTDOWN" /\ watch'[c] = {"rx"}
    BY <1>5 DEF AcceptInitFails, TypeOK
  <2>5. ~toq'[c]
    BY <2>1 DEF PointerInv, TimerInv
  <2>6. NoDanglingWatcher'
    BY <2>3, <2>4 DEF PointerInv, NoDanglingWatcher
  <2>7. FrameInv'
    BY <2>2, <2>4 DEF FrameInv, Allocated
  <2>8. TimerInv'
    <3>1. Draining(c)' /\ "idle" \notin watch'[c]
      BY <2>2, <2>4 DEF Draining
    <3>2. \A d \in Conns : d # c =>
            /\ st[d] = "FREE" => ~toq[d]
            /\ ~toq[d] => "idle" \notin watch[d]
            /\ st[d] # "FREE" => toq[d] /\ "idle" \in watch[d]
      BY <1>1 DEF PointerInv, TimerInv
    <3> QED
      BY <2>1, <2>3, <2>4, <2>5, <3>1, <3>2 DEF TimerInv
  <2> QED
    BY <2>6, <2>7, <2>8 DEF PointerInv
<1>6. CASE AppTxEnable(c)
  <2>1. st[c] # "FREE"
    BY <1>6 DEF AppTxEnable
  <2>2. toq[c] /\ "idle" \in watch[c] /\ watch[c] \cup {"tx"} \in SUBSET Watchers
    BY <1>1, <2>1, LiveConn DEF TypeOK, Watchers
  <2>3. /\ st[c] \in ConnStates \ {"FREE"} /\ st' = [st EXCEPT ![c] = st[c]]
        /\ watch' = [watch EXCEPT ![c] = watch[c] \cup {"tx"}]
        /\ toq' = toq /\ frame' = Loop
    BY <1>1, <1>6, <2>1 DEF AppTxEnable, TypeOK
  <2> QED
    BY <1>1, <1>2, <2>1, <2>2, <2>3, FrameFields, KeepPointers
<1>7. CASE IdleTimeout(c)
  <2> DEFINE s == StateAfterShutdown(c)
             v == watch[c] \ {"idle"}
             w == IF st[c] = "SHUTDOWN" THEN v ELSE WatchAfterShutdown(c, v)
             d == Drain(c, 0, FALSE)
  <2>1. st[c] # "FREE" /\ "idle" \in watch[c]
    BY <1>7 DEF IdleTimeout, PointerInv, NoDanglingWatcher
  <2>2. toq[c]
    BY <1>1, <2>1, LiveConn
  <2>3. s \in ConnStates \ {"FREE"}
    BY <2>1 DEF StateAfterShutdown, TypeOK, ConnStates
  <2>4. w \in SUBSET Watchers
    BY DEF WatchAfterShutdown, TypeOK, Watchers
  <2>5. d \in Frames /\ d.pc = "drain" /\ d.conn = c /\ d.nested = FALSE
    BY DEF Drain, Frames
  <2>6. (d.pc = "loop" <=> d.conn = NoConn) /\ (d.nested => "mid" \in TxNow)
    BY <2>5
  <2>7. /\ st' = [st EXCEPT ![c] = s] /\ watch' = [watch EXCEPT ![c] = w]
        /\ toq' = toq /\ frame' = d
    BY <1>7 DEF IdleTimeout, CloseClean
  <2> HIDE DEF s, w, d
  <2> QED
    BY <1>1, <2>1, <2>2, <2>3, <2>4, <2>5, <2>6, <2>7, KeepPointers
<1>8. CASE WriteEvent(c)
  <2>1. st[c] # "FREE"
    BY <1>8 DEF WriteEvent, PointerInv, NoDanglingWatcher
  <2> QED
    BY <1>1, <1>2, <1>8, <2>1, WritePointers DEF WriteEvent
<1> QED
  BY <1>3, <1>4, <1>5, <1>6, <1>7, <1>8

\* PointerInv is inductive relative to TypeOK.
LEMMA PointerStep == TypeOK /\ PointerInv /\ [Next]_vars => PointerInv'
<1> SUFFICES ASSUME TypeOK, PointerInv, [Next]_vars PROVE PointerInv'
  OBVIOUS
<1>1. ASSUME UNCHANGED <<st, watch, toq, frame>> PROVE PointerInv'
  BY <1>1 DEF PointerInv, NoDanglingWatcher, FrameInv, TimerInv, Allocated, Draining
<1>2. CASE UNCHANGED vars
  BY <1>1, <1>2 DEF vars
<1>3. CASE Lifecycle
  BY <1>1, <1>3 DEF Lifecycle, InitSocket, Start, StopGraceful, ServerFree, Exited,
                    connVars, vars
<1>4. ASSUME NEW c \in Conns, Callback(c) PROVE PointerInv'
  BY <1>4, LoopPointers, RecvPointers, ParsePointers, DrainPointers DEF Callback
<1>5. ASSUME NEW c \in Conns, Client(c) PROVE PointerInv'
  BY <1>1, <1>5 DEF Client, Connect, PeerSend, PeerClose, PeerReset
<1> QED
  BY <1>2, <1>3, <1>4, <1>5 DEF Next

LEMMA PointerInitial == Init => PointerInv
<1> SUFFICES ASSUME Init PROVE PointerInv
  OBVIOUS
<1>1. NoDanglingWatcher /\ TimerInv
  BY DEF Init, NoDanglingWatcher, TimerInv
<1>2. FrameInv
  BY FrameFields DEF Init, FrameInv
<1> QED
  BY <1>1, <1>2 DEF PointerInv

\* The inductive invariant behind the next three theorems.
THEOREM PointersSafe == Spec => []PointerInv
BY TypeCorrect, PointerInitial, PointerStep, PTL DEF Spec

\* No watcher and no timer outlives its connection, whatever the protocol
\* does and whether or not initialisation fails.
THEOREM NoDangling == Spec => []NoDanglingWatcher
<1>1. PointerInv => NoDanglingWatcher
  BY DEF PointerInv
<1> QED
  BY <1>1, PointersSafe, PTL

\* Between callbacks every connection has its idle timer armed, so the
\* server never forgets one.
THEOREM TimersArmed == Spec => []IdleTimerArmed
<1>1. PointerInv => IdleTimerArmed
  BY DEF PointerInv, TimerInv, IdleTimerArmed, Allocated, Draining
<1> QED
  BY <1>1, PointersSafe, PTL

\* A callback never runs on a freed connection as long as no protocol calls
\* ymo_conn_tx_now in the middle of a read callback.
THEOREM FrameSafe ==
    ASSUME "mid" \notin TxNow
    PROVE  Spec => []FrameConnAllocated
<1>1. TypeOK /\ PointerInv => FrameConnAllocated
  BY DEF TypeOK, Frames, PointerInv, FrameInv, FrameConnAllocated
<1> QED
  BY <1>1, TypeCorrect, PointersSafe, PTL

-----------------------------------------------------------------------------
(* The accounting behind a graceful stop.                                  *)

\* The counted connections are finitely many, and size_t can count them.
LEMMA CountedFinite ==
    /\ IsFiniteSet(Counted)
    /\ Cardinality(Counted) \in Nat
    /\ Cardinality(Counted) <= SizeMax
<1>1. Counted \subseteq Conns
  BY DEF Counted, Allocated
<1>2. Cardinality(Conns) \in Nat
  BY FS_CardinalityType
<1>3. IsFiniteSet(Counted) /\ Cardinality(Counted) <= Cardinality(Conns)
  BY <1>1, FS_Subset
<1>4. Cardinality(Counted) \in Nat
  BY <1>3, FS_CardinalityType
<1> QED
  BY <1>2, <1>3, <1>4

\* If initialisation never fails, every allocated connection is counted.
LEMMA AllCounted ==
    ASSUME ~InitMayFail, PointerInv
    PROVE  Counted = Allocated
BY DEF PointerInv, TimerInv, Counted, Allocated

\* A step that frees nothing and allocates nothing keeps the accounts.
LEMMA SameCount ==
    ASSUME AccountInv, UNCHANGED <<srv, accepts, noConn, broke, toq>>,
           \A d \in Conns : st'[d] = "FREE" <=> st[d] = "FREE"
    PROVE  AccountInv'
<1>1. Counted' = Counted
  BY DEF Counted, Allocated
<1> QED
  BY <1>1 DEF AccountInv, NoConnExact, BreakInv

\* So does a step that moves connection c to another live state.
LEMMA LiveCount ==
    ASSUME TypeOK, AccountInv, UNCHANGED <<srv, accepts, noConn, broke, toq>>,
           NEW c \in Conns, st[c] # "FREE", NEW s, s # "FREE",
           st' = [st EXCEPT ![c] = s]
    PROVE  AccountInv'
<1>1. \A d \in Conns : st'[d] = "FREE" <=> st[d] = "FREE"
  BY DEF TypeOK
<1> QED
  BY <1>1, SameCount

\* Freeing a counted connection: no_conn drops by one, and the loop is
\* broken if that was the last one of a graceful stop.
LEMMA FreeCount ==
    ASSUME ~InitMayFail, TypeOK, PointerInv, AccountInv,
           NEW c \in Conns, st[c] # "FREE", NEW f, CloseTail(c, f)
    PROVE  AccountInv'
<1>1. c \in Counted
  BY AllCounted DEF Allocated
<1>2. Counted' = Counted \ {c}
  <2>1. \A d \in Conns : d # c => st'[d] = st[d] /\ toq'[d] = toq[d]
    BY DEF TypeOK, CloseTail
  <2>2. st'[c] = "FREE"
    BY DEF TypeOK, CloseTail
  <2> QED
    BY <2>1, <2>2 DEF Counted, Allocated
<1>3. /\ Cardinality(Counted \ {c}) = Cardinality(Counted) - 1
      /\ Cardinality(Counted \ {c}) \in Nat
  <2>1. IsFiniteSet(Counted \ {c}) /\ Cardinality(Counted \ {c}) = Cardinality(Counted) - 1
    BY <1>1, CountedFinite, FS_RemoveElement
  <2> QED
    BY <2>1, FS_CardinalityType
<1>4. noConn \in Nat /\ noConn > 0 /\ noConn = Cardinality(Counted)
  BY <1>3, CountedFinite DEF AccountInv, NoConnExact
<1>5. noConn' = noConn - 1
  BY <1>4 DEF CloseTail, Dec
<1>6. NoConnExact'
  BY <1>2, <1>3, <1>4, <1>5 DEF NoConnExact
<1>7. UNCHANGED <<srv, accepts>> /\ broke' = (broke \/ (srv = "STOP_GRACEFUL" /\ noConn' = 0))
  BY DEF CloseTail, LastConnGone
<1>8. BreakInv'
  <2>1. noConn # 0
    BY <1>4
  <2>2. accepts' => srv' = "STARTED"
    BY <1>7 DEF AccountInv, BreakInv
  <2>3. CASE srv = "STOP_GRACEFUL"
    <3>1. ~broke
      BY <2>1, <2>3 DEF AccountInv, BreakInv
    <3>2. srv' = "STOP_GRACEFUL" /\ (broke' <=> noConn' = 0)
      BY <1>7, <2>3, <3>1
    <3> QED
      BY <2>2, <3>2 DEF BreakInv
  <2>4. CASE srv # "STOP_GRACEFUL"
    <3>1. srv' = srv /\ (broke' <=> broke)
      BY <1>7, <2>4
    <3> QED
      BY <2>2, <2>4, <3>1 DEF AccountInv, BreakInv
  <2> QED
    BY <2>3, <2>4
<1> QED
  BY <1>6, <1>8 DEF AccountInv

\* A live connection stays live when it is shut down.
LEMMA ShutdownLive ==
    ASSUME NEW c \in Conns, st[c] # "FREE"
    PROVE  /\ StateAfterShutdown(c) # "FREE"
           /\ \A sd \in BOOLEAN : ProtoState(c, sd) # "FREE"
BY DEF StateAfterShutdown, ProtoState

LEMMA WriteCount ==
    ASSUME TypeOK, AccountInv, NEW c \in Conns, st[c] # "FREE", NEW f, NEW b,
           WriteOkay(c, f) \/ WriteBlocked(c, f) \/ WriteError(c, b)
    PROVE  AccountInv'
<1>1. UNCHANGED <<srv, accepts, noConn, broke, toq>>
  BY DEF WriteOkay, WriteBlocked, WriteError
<1>2. \E s : s # "FREE" /\ st' = [st EXCEPT ![c] = s]
  BY ShutdownLive DEF WriteOkay, WriteBlocked, WriteError, CloseClean
<1> QED
  BY <1>1, <1>2, LiveCount

\* Every callback keeps the accounts.
LEMMA CallbackCount ==
    ASSUME ~InitMayFail, TypeOK, PointerInv, AccountInv,
           NEW c \in Conns, Callback(c)
    PROVE  AccountInv'
<1>1. CASE AcceptOkay(c)
  <2>1. st[c] = "FREE" /\ accepts /\ srv = "STARTED" /\ c \notin Counted
    BY <1>1 DEF AcceptOkay, AcceptPending, AccountInv, BreakInv, Counted, Allocated
  <2>2. Counted' = Counted \cup {c}
    <3>1. \A d \in Conns : d # c => st'[d] = st[d] /\ toq'[d] = toq[d]
      BY <1>1 DEF AcceptOkay, TypeOK
    <3>2. st'[c] # "FREE" /\ toq'[c]
      BY <1>1 DEF AcceptOkay, TypeOK
    <3> QED
      BY <3>1, <3>2 DEF Counted, Allocated
  <2>3. Cardinality(Counted') = Cardinality(Counted) + 1
    BY <2>1, <2>2, CountedFinite, FS_AddElement
  <2>4. Cardinality(Counted') <= SizeMax
    <3>1. Counted \cup {c} \subseteq Conns
      BY DEF Counted, Allocated
    <3>2. Cardinality(Counted \cup {c}) <= Cardinality(Conns)
      BY <3>1, FS_Subset
    <3>3. Cardinality(Conns) \in Nat
      BY FS_CardinalityType
    <3> QED
      BY <2>2, <2>3, <3>2, <3>3, CountedFinite
  <2>5. noConn' = noConn + 1
    BY <1>1, <2>3, <2>4, CountedFinite DEF AcceptOkay, Inc, AccountInv, NoConnExact
  <2>6. NoConnExact'
    BY <2>3, <2>5 DEF AccountInv, NoConnExact
  <2>7. BreakInv'
    BY <1>1, <2>1 DEF AcceptOkay, AccountInv, BreakInv
  <2> QED
    BY <2>6, <2>7 DEF AccountInv
<1>2. CASE AcceptNoMemory(c) \/ AppTxEnable(c) \/ ReadEvent(c)
  BY <1>2, SameCount DEF AcceptNoMemory, AppTxEnable, ReadEvent, connVars
<1>3. CASE AcceptInitFails(c)
  BY <1>3 DEF AcceptInitFails
<1>4. CASE ReadEventError(c)
  <2>1. st[c] # "FREE"
    BY <1>4 DEF ReadEventError, PointerInv, NoDanglingWatcher
  <2> QED
    BY <1>4, <2>1, FreeCount DEF ReadEventError
<1>5. CASE RecvStep(c)
  <2>1. st[c] # "FREE"
    BY <1>5 DEF RecvStep, RecvHandshake, RecvData, RecvBlocked, RecvClosed, AtRecv,
                PointerInv, FrameInv, Allocated
  <2>2. CASE CloseTail(c, Loop)
    BY <2>1, <2>2, FreeCount
  <2>3. CASE ~CloseTail(c, Loop)
    <3>1. UNCHANGED <<srv, accepts, noConn, broke, toq>>
      BY <1>5, <2>3 DEF RecvStep, RecvHandshake, RecvData, RecvBlocked, RecvClosed
    <3>2. st' = st \/ st' = [st EXCEPT ![c] = "TLS_ESTABLISHED"]
      BY <1>5, <2>3 DEF RecvStep, RecvHandshake, RecvData, RecvBlocked, RecvClosed
    <3>3. CASE st' = st
      BY <3>1, <3>3, SameCount
    <3>4. CASE st' = [st EXCEPT ![c] = "TLS_ESTABLISHED"]
      BY <2>1, <3>1, <3>4, LiveCount
    <3> QED
      BY <3>2, <3>3, <3>4
  <2> QED
    BY <2>2, <2>3
<1>6. CASE ParseOkay(c) \/ ParseBlocked(c)
  <2>1. st[c] # "FREE"
    BY <1>6 DEF ParseOkay, ParseBlocked, AtParse
  <2>2. UNCHANGED <<srv, accepts, noConn, broke, toq>>
    BY <1>6 DEF ParseOkay, ParseBlocked
  <2>3. \E s : s # "FREE" /\ st' = [st EXCEPT ![c] = s]
    BY <1>6, <2>1, ShutdownLive DEF ParseOkay, ParseBlocked
  <2> QED
    BY <2>1, <2>2, <2>3, LiveCount
<1>7. CASE ParseError(c)
  BY <1>7, FreeCount DEF ParseError, AtParse
<1>8. CASE ParseTxNowLast(c) \/ ParseTxNowMid(c)
  BY <1>8, WriteCount DEF ParseTxNowLast, ParseTxNowMid, AtParse
<1>9. CASE WriteEvent(c)
  BY <1>9, WriteCount DEF WriteEvent, PointerInv, NoDanglingWatcher
<1>10. CASE IdleTimeout(c)
  <2>1. st[c] # "FREE"
    BY <1>10 DEF IdleTimeout, PointerInv, NoDanglingWatcher
  <2>2. /\ UNCHANGED <<srv, accepts, noConn, broke, toq>>
        /\ st' = [st EXCEPT ![c] = StateAfterShutdown(c)]
    BY <1>10 DEF IdleTimeout, CloseClean
  <2> QED
    BY <2>1, <2>2, ShutdownLive, LiveCount
<1>11. CASE DrainStep(c)
  <2>1. st[c] # "FREE"
    BY <1>11 DEF DrainStep, PointerInv, FrameInv, Allocated
  <2>2. CASE DrainData(c) \/ DrainBlocked(c) \/ DrainReset(c)
    BY <2>2, SameCount DEF DrainData, DrainBlocked, DrainReset, vars
  <2>3. CASE DrainEof(c)
    BY <2>1, <2>3, FreeCount DEF DrainEof
  <2> QED
    BY <1>11, <2>2, <2>3 DEF DrainStep
<1> QED
  BY <1>1, <1>2, <1>3, <1>4, <1>5, <1>6, <1>7, <1>8, <1>9, <1>10, <1>11 DEF Callback

\* If SSL and protocol initialisation never fail, no_conn is the number of
\* connections the server owns, and decides when the loop is broken.
THEOREM AccountsExact ==
    ASSUME ~InitMayFail
    PROVE  Spec => []AccountInv
<1>1. Init => AccountInv
  <2> SUFFICES ASSUME Init PROVE AccountInv
    OBVIOUS
  <2>1. Counted = {}
    BY DEF Init, Counted, Allocated
  <2>2. NoConnExact
    BY <2>1, FS_EmptySet DEF Init, NoConnExact
  <2>3. BreakInv
    BY DEF Init, BreakInv
  <2> QED
    BY <2>2, <2>3 DEF AccountInv
<1>2. TypeOK /\ PointerInv /\ AccountInv /\ [Next]_vars => AccountInv'
  <2> SUFFICES ASSUME TypeOK, PointerInv, AccountInv, [Next]_vars PROVE AccountInv'
    OBVIOUS
  <2>1. CASE UNCHANGED vars
    BY <2>1, SameCount DEF vars
  <2>2. CASE Lifecycle
    <3>1. UNCHANGED <<st, toq, noConn>>
      BY <2>2 DEF Lifecycle, InitSocket, Start, StopGraceful, ServerFree, Exited,
                  connVars, vars
    <3>2. NoConnExact'
      BY <3>1 DEF AccountInv, NoConnExact, Counted, Allocated
    <3>3. BreakInv'
      <4>1. CASE StopGraceful
        BY <4>1, <3>1 DEF StopGraceful, BreakInv
      <4>2. CASE InitSocket \/ Start
        BY <4>2 DEF InitSocket, Start, AccountInv, BreakInv
      <4>3. CASE ServerFree
        BY <4>3 DEF ServerFree, BreakInv
      <4>4. CASE Exited
        BY <4>4 DEF Exited, vars, AccountInv, BreakInv
      <4> QED
        BY <2>2, <4>1, <4>2, <4>3, <4>4 DEF Lifecycle
    <3> QED
      BY <3>2, <3>3 DEF AccountInv
  <2>3. ASSUME NEW c \in Conns, Callback(c) PROVE AccountInv'
    BY <2>3, CallbackCount
  <2>4. ASSUME NEW c \in Conns, Client(c) PROVE AccountInv'
    BY <2>4, SameCount DEF Client, Connect, PeerSend, PeerClose, PeerReset
  <2> QED
    BY <2>1, <2>2, <2>3, <2>4 DEF Next
<1> QED
  BY <1>1, <1>2, TypeCorrect, PointersSafe, PTL DEF Spec

\* During a graceful stop the loop is broken exactly when the last
\* connection is gone, if initialisation never fails.
THEOREM GracefulBreakExact ==
    ASSUME ~InitMayFail
    PROVE  Spec => [](NoConnExact /\ GracefulBreak)
<1>1. TypeOK /\ PointerInv /\ AccountInv => NoConnExact /\ GracefulBreak
  <2> SUFFICES ASSUME TypeOK, PointerInv, AccountInv PROVE NoConnExact /\ GracefulBreak
    OBVIOUS
  <2>1. noConn = Cardinality(Allocated) /\ IsFiniteSet(Allocated)
    BY AllCounted, CountedFinite DEF AccountInv, NoConnExact
  <2>2. noConn = 0 <=> Allocated = {}
    BY <2>1, FS_EmptySet
  <2> QED
    BY <2>2 DEF AccountInv, BreakInv, GracefulBreak
<1> QED
  BY <1>1, TypeCorrect, PointersSafe, AccountsExact, PTL
=============================================================================
