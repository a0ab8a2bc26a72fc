-------------------------- MODULE MCYmoHttpSession --------------------------
(* Requests for the runs of YmoHttpSession. *)
EXTENDS YmoHttpSession

Keep11 == [flags |-> {"KEEPALIVE", "CHUNKS"}, body |-> FALSE]
Expect11 == [flags |-> {"KEEPALIVE", "CHUNKS", "EXPECT"}, body |-> TRUE]
Close10 == [flags |-> {}, body |-> FALSE]
Upgrade11 == [flags |-> {"KEEPALIVE", "CHUNKS", "UPGRADE"}, body |-> FALSE]

AllKinds == {Keep11, Expect11, Close10, Upgrade11}
PlainKinds == {Keep11}
=============================================================================
