--------------------------- MODULE MCYmoHttpParse ---------------------------
(* Requests for the runs of YmoHttpParse. *)
EXTENDS YmoHttpParse

GetPage == [METHOD |-> <<"GET">>, URI_PATH |-> <<"/", "p">>, QUERY |-> NULL, FRAGMENT |-> NULL,
        VERSION |-> <<"HTTP/1.1">>, headers |-> << >>, body |-> << >>, chunks |-> << >>]
H(n, v) == <<<<n>>, <<v>>>>
Query == [GetPage EXCEPT !.QUERY = <<"q", "r">>, !.FRAGMENT = <<"f">>]
QueryOnly == [GetPage EXCEPT !.QUERY = <<"q">>, !.headers = <<H("X", "v")>>]
FragOnly == [GetPage EXCEPT !.FRAGMENT = <<"f">>]
Close == [GetPage EXCEPT !.headers = <<H("Connection", "close")>>]
Old == [GetPage EXCEPT !.VERSION = <<"HTTP/1.0">>]
OldKeep == [Old EXCEPT !.headers = <<H("Connection", "keep-alive"), <<<<"X", "-Y">>, <<"v", " ", "w">>>>>>]
Post(n) == [GetPage EXCEPT !.METHOD = <<"POST">>, !.headers = <<H("Expect", "100-continue"), H("Content-Length", n)>>,
                       !.body = [i \in 1..strtol[n] |-> "d"]]
Chunked(s) == [GetPage EXCEPT !.METHOD = <<"POST">>, !.headers = <<H("Transfer-Encoding", "chunked")>>, !.chunks = s]
Upgrade == [GetPage EXCEPT !.headers = <<H("Connection", "Upgrade"), H("Upgrade", "websocket")>>]
BadMethod == [GetPage EXCEPT !.METHOD = <<"GET", "%">>]
BadVersion == [GetPage EXCEPT !.VERSION = <<"HTTP/2">>]
BadHeader == [GetPage EXCEPT !.headers = <<H("(", "v")>>]
BadLf == [GetPage EXCEPT !.VERSION = <<"HTTP/1.1", "CR", "x">>]
LongUri == [GetPage EXCEPT !.URI_PATH = [i \in 1..40 |-> "p"]]

Good == {<<GetPage, Query>>, <<QueryOnly, Close>>, <<FragOnly>>, <<OldKeep, Old>>,
         <<Post("2"), Upgrade>>, <<Chunked(<<"2", "2", "0">>), GetPage>>, <<Post("0"), Close>>}
Bad == {<<BadMethod>>, <<BadVersion>>, <<GetPage, BadHeader>>, <<BadLf>>, <<LongUri>>,
        <<Post("9")>>, <<Chunked(<<"A", "0">>)>>}
PassInputs == Good \cup Bad
TwoBodies == {<<Post("1"), Post("2")>>}
=============================================================================
