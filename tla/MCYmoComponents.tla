-------------------------- MODULE MCYmoComponents --------------------------
(* One run for the components without threads or callbacks: a behaviour    *)
(* belongs to one of them, the others rest.                                *)
EXTENDS MCYmoHttpParse, YmoTrie, YmoQueue, YmoBucket, YmoHdrTable, YmoBlalloc, YmoMqtt, YmoWsgiContext

VARIABLE which

Components == {"parse", "util", "trie", "queue", "bucket", "hdrs", "blalloc", "mqtt", "context"}
cvars == <<which, pvars, uvars, tvars, qvars, bkvars, hvars, bvars, mqvars, rvars>>

CInit ==
    /\ which \in Components
    /\ UInit /\ TInit /\ QInit /\ BkInit /\ HInit /\ BInit
    /\ Init /\ (which # "parse" => sent = <<FragOnly>>)
    /\ MInit /\ (which # "mqtt" => psent = << >>)
    /\ RInit /\ (which # "context" => input = << >> /\ headers = << >>)

CNext ==
    \/ which = "parse" /\ Next /\ UNCHANGED <<which, uvars, tvars, qvars, bkvars, hvars, bvars, mqvars, rvars>>
    \/ which = "util" /\ UNext /\ UNCHANGED <<which, pvars, tvars, qvars, bkvars, hvars, bvars, mqvars, rvars>>
    \/ which = "trie" /\ TNext /\ UNCHANGED <<which, pvars, uvars, qvars, bkvars, hvars, bvars, mqvars, rvars>>
    \/ which = "queue" /\ QNext /\ UNCHANGED <<which, pvars, uvars, tvars, bkvars, hvars, bvars, mqvars, rvars>>
    \/ which = "bucket" /\ BkNext /\ UNCHANGED <<which, pvars, uvars, tvars, qvars, hvars, bvars, mqvars, rvars>>
    \/ which = "hdrs" /\ HNext /\ UNCHANGED <<which, pvars, uvars, tvars, qvars, bkvars, bvars, mqvars, rvars>>
    \/ which = "blalloc" /\ BNext /\ UNCHANGED <<which, pvars, uvars, tvars, qvars, bkvars, hvars, mqvars, rvars>>
    \/ which = "mqtt" /\ MNext /\ UNCHANGED <<which, pvars, uvars, tvars, qvars, bkvars, hvars, bvars, rvars>>
    \/ which = "context" /\ RNext /\ UNCHANGED <<which, pvars, uvars, tvars, qvars, bkvars, hvars, bvars, mqvars>>

CSpec == CInit /\ [][CNext]_cvars

-----------------------------------------------------------------------------
(* Values of the constants *)

\* One byte of each kind, and buffers of several with the ends of the alphabets.
TheBuffers == {<<c>> : c \in {65, 122, 128, 143, 144, 159, 160, 191,
                               193, 194, 224, 225, 237, 240, 241, 244, 245}}
              \cup {<<64, 65, 90, 91>>, <<96, 97, 122, 123, 226>>, <<97, 98, 99, 195>>}
TheWords == {<<97>>, <<97, 98>>, <<65, 98, 99>>, <<97, 100>>, <<98, 97>>, <<99, 97, 98>>}
\* "a", "A", "b", "i" (in one chain with "a") and one like Set-Cookie.
TheNames == {<<97>>, <<65>>, <<98>>, <<105>>, <<115, 67>>}
TheCookie == <<83, 99>>
P(t, f, n) == [type |-> t, flags |-> f, proto |-> TRUE, len |-> n, has |-> {}]
ThePackets == {
    << >>,
    <<[P("CONNECT", 0, 3) EXCEPT !.has = {"will_topic", "will_msg", "username"}], P("PUBLISH", 1, 2), P("PINGREQ", 0, 1)>>,
    <<P("CONNECT", 0, 1), P("SUBSCRIBE", 2, 5), P("CONNECT", 0, 1)>>,
    <<P("CONNECT", 0, 2), P("DISCONNECT", 0, 0), P("PUBREL", 2, 1)>>,
    <<P("PUBACK", 0, 15), P("CONNECT", 0, 1)>>,
    <<P("SUBSCRIBE", 0, 1)>>,
    <<P("PUBLISH", 0, 17)>>,
    <<[P("CONNECT", 0, 2) EXCEPT !.proto = FALSE]>>}
TheBodies == {<< >>, <<"x", "\n", "y", "\n">>, <<"\n", "\n", "x">>, <<"x", "y", "\n", "x">>}
\* X-A and X_A, and the same name in other letters.
TheHeaders == {
    << >>,
    <<<<<<"x", "-", "a">>, 1>>, <<<<"x", "_", "a">>, 2>>>>,
    <<<<<<"x", "_", "a">>, 1>>, <<<<"b">>, 2>>, <<<<"x", "-", "A">>, 3>>, <<<<"x", "-", "a">>, 4>>>>}
=============================================================================
