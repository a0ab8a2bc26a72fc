------------------------------ MODULE MCYmoNet ------------------------------
(* YmoNet for connections without TLS, and with it; empty buckets are      *)
(* queued only on the second kind.                                         *)
EXTENDS YmoNet

VARIABLE tls

Tls == INSTANCE YmoNet WITH Ssl <- TRUE, MinLen <- 0

MCInit == Init /\ tls \in BOOLEAN
MCWrite == IF tls THEN Tls!WriteCb \/ Tls!SendStep ELSE WriteCb \/ SendStep
MCNext ==
    /\ UNCHANGED tls
    /\ \/ ~tls /\ Next
       \/ tls /\ Tls!Next
MCSpec ==
    /\ MCInit /\ [][MCNext]_<<vars, tls>>
    /\ WF_<<vars, tls>>(MCWrite /\ UNCHANGED tls)
    /\ WF_<<vars, tls>>((\E n \in 1..SockBuf : PeerAck(n)) /\ UNCHANGED tls)
=============================================================================
