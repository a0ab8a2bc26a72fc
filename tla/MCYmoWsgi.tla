----------------------------- MODULE MCYmoWsgi -----------------------------
(* One run for the threads of a WSGI process and for the processes of the  *)
(* server: a behaviour belongs to one of them.  The other is in a state    *)
(* from which no action under fairness leads on.                           *)
EXTENDS YmoWsgi, YmoPrefork

VARIABLE which

WsgiInit ==
    \/ which = "threads" /\ WInit /\ PInitWith("exited")
    \/ which = "processes" /\ WInitWith("rest") /\ PInit

WsgiNext ==
    \/ which = "threads" /\ WNext /\ UNCHANGED <<which, pvars>>
    \/ which = "processes" /\ PNext /\ UNCHANGED <<which, gvars>>

WsgiSpec == WsgiInit /\ [][WsgiNext]_<<which, gvars, pvars>> /\ WFairness /\ PFairness
=============================================================================
