------------------------------- MODULE MCYmoWs -------------------------------
(* Frames and requests for the runs of YmoWs. *)
EXTENDS YmoWs

F(op, fin, data) == [op |-> op, fin |-> fin, rsv |-> FALSE, masked |-> TRUE, form |-> 0, data |-> data]
Ext(f, n) == [f EXCEPT !.form = n]

Good == {
    <<F("TEXT", FALSE, <<97, 195>>), F("PING", TRUE, << >>), F("CONTINUATION", TRUE, <<169>>)>>,
    <<F("PING", TRUE, <<1, 2>>), Ext(F("BINARY", TRUE, <<1, 2, 3, 4, 5>>), 2)>>,
    <<Ext(F("BINARY", FALSE, <<9>>), 3), F("CONTINUATION", TRUE, <<8>>)>>,
    <<F("PONG", TRUE, <<7>>), F("TEXT", TRUE, << >>), F("CLOSE", TRUE, <<3, 232>>), F("PING", TRUE, <<1>>)>>,
    <<F("CLOSE", TRUE, << >>)>>}
Bad == {
    <<F("CONTINUATION", TRUE, <<1>>)>>,
    <<F("BINARY", FALSE, <<1>>), F("BINARY", TRUE, <<2>>)>>,
    <<F("PING", FALSE, <<1>>)>>, <<F("RESERVED", TRUE, <<1>>)>>,
    <<[F("TEXT", TRUE, <<97>>) EXCEPT !.rsv = TRUE]>>,
    <<[F("TEXT", TRUE, <<97>>) EXCEPT !.masked = FALSE]>>,
    <<Ext(F("PING", TRUE, <<1>>), 2)>>,
    <<F("TEXT", TRUE, <<97, 195>>)>>,
    <<F("TEXT", FALSE, <<97>>), F("CLOSE", TRUE, <<3, 232>>)>>,
    <<Ext(F("BINARY", TRUE, [i \in 1..9 |-> i]), 2)>>,
    <<Ext(F("BINARY", TRUE, [i \in 1..33 |-> i]), 3)>>,
    <<F("CLOSE", TRUE, <<0, 1>>)>>}
AllInputs == Good \cup Bad
OneMessage == {<<F("TEXT", FALSE, <<97>>), F("CONTINUATION", TRUE, <<98>>)>>}

Right == [upgrade |-> "websocket", method |-> "GET", host |-> TRUE, connection |-> {"keep-alive", "upgrade"},
          key |-> TRUE, version |-> "13"]
AllRequests == {Right, [Right EXCEPT !.upgrade = "h2c"], [Right EXCEPT !.key = FALSE],
                [Right EXCEPT !.version = "8"], [Right EXCEPT !.connection = {"close"}]}
OneRequest == {Right}
SomeFrames == {[op |-> "TEXT", data |-> <<97>>, payload |-> "some"],
               [op |-> "PING", data |-> << >>, payload |-> "none"]}
=============================================================================
