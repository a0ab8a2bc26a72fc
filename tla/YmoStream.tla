----------------------------- MODULE YmoStream -----------------------------
(***************************************************************************)
(* What the output path of a connection promises to the protocol above it: *)
(* the bytes that were queued leave in order and once each, and the write  *)
(* watcher is turned off only when all of them have left.                  *)
(***************************************************************************)
EXTENDS Naturals, Sequences

VARIABLES
    queued,  \* number of bytes queued so far; byte i is the i-th of them
    wire,    \* the bytes handed to the socket so far
    idle,    \* is the connection's write watcher off?
    alive    \* the connection has not been closed

svars == <<queued, wire, idle, alive>>

Init ==
    /\ queued = 0
    /\ wire = << >>
    /\ idle = TRUE
    /\ alive = TRUE

Queue ==
    /\ alive
    /\ queued' \in {q \in Nat : q >= queued}
    /\ idle' = FALSE
    /\ UNCHANGED <<wire, alive>>

\* The next bytes of the stream, and no other, go out; with the last of them
\* the write watcher may be turned off.
Transmit ==
    /\ alive /\ ~idle
    /\ Len(wire') > Len(wire) /\ Len(wire') <= queued
    /\ wire' = [i \in 1..Len(wire') |-> i]
    /\ idle' \in {i \in BOOLEAN : i => Len(wire') = queued}
    /\ UNCHANGED <<queued, alive>>

\* Everything has left: the write watcher is turned off.
Quiesce ==
    /\ alive
    /\ Len(wire) = queued
    /\ idle' = TRUE
    /\ UNCHANGED <<queued, wire, alive>>

\* The connection is closed.
Fail ==
    /\ alive
    /\ alive' = FALSE
    /\ idle' = TRUE
    /\ UNCHANGED <<queued, wire>>

Next == Queue \/ Transmit \/ Quiesce \/ Fail

Spec == Init /\ [][Next]_svars
=============================================================================
