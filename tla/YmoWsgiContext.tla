--------------------------- MODULE YmoWsgiContext ---------------------------
(***************************************************************************)
(* What an application sees of a request (wsgi/ymo_wsgi_context.c): the    *)
(* body as a file, read by read, readline, readlines and by iteration in   *)
(* any order, all from exchange->body_read on; and the headers as          *)
(* variables of the environment.                                           *)
(***************************************************************************)
EXTENDS Naturals, Sequences, SequencesExt

CONSTANTS
    Bodies,    \* the request bodies, sequences of characters
    ReadSizes, \* arguments of read and readline; NoSize is no argument
    NoSize,
    MaxReads,  \* bound: calls
    HdrLists   \* the headers of the request: sequences of <<name, value>>

VARIABLES
    input,      \* request->body, content_length of it
    body_read,  \* exchange->body_read
    got,        \* what the calls returned: [by, size, data]
    headers,    \* the headers of the request
    environ     \* HTTP_ variables: a function from names to values

rvars == <<input, body_read, got, headers, environ>>

RInit ==
    /\ input \in Bodies /\ headers \in HdrLists
    /\ body_read = 0 /\ got = << >> /\ environ = << >>

-----------------------------------------------------------------------------
(* The body *)

Remain == Len(input) - body_read
AtNewline(i) == input[body_read + i] = "\n"

\* YMO_MIN(args[0], body_remain).
ChunkLength(size) == IF size = NoSize \/ size > Remain THEN Remain ELSE size

\* Mutant: the newline stays for the next line.
LineLength_mutant(n) ==
    LET ends == {i \in 1..n : AtNewline(i)}
    IN IF ends = {} THEN n ELSE (CHOOSE i \in ends : \A j \in ends : i <= j) - 1

\* The first newline among n characters ends the line.
LineLength(n) ==
    LET ends == {i \in 1..n : AtNewline(i)}
    IN IF ends = {} THEN n ELSE CHOOSE i \in ends : \A j \in ends : i <= j

\* Mutant: body_read is set to the length of the chunk.
TakeChunk_mutant(by, size, n) ==
    /\ got' = Append(got, [by |-> by, size |-> size, data |-> SubSeq(input, body_read + 1, body_read + n)])
    /\ body_read' = n
    /\ UNCHANGED <<input, headers, environ>>

\* n characters are returned and body_read moves on.
TakeChunk(by, size, n) ==
    /\ got' = Append(got, [by |-> by, size |-> size, data |-> SubSeq(input, body_read + 1, body_read + n)])
    /\ body_read' = body_read + n
    /\ UNCHANGED <<input, headers, environ>>

Calls == Len(got) < MaxReads

Read(size) == Calls /\ TakeChunk("read", size, ChunkLength(size))

ReadLine(size) == Calls /\ TakeChunk("readline", size, LineLength(ChunkLength(size)))

\* yimmo_Context_iternext: all the rest, not a line; then StopIteration.
IterNext == Calls /\ Remain > 0 /\ TakeChunk("next", NoSize, Remain)

\* yimmo_Context_readlines: lines until an empty one.
ReadLines ==
    /\ Calls
    /\ LET starts == {body_read + 1} \cup {i \in (body_read + 2)..Len(input) : input[i - 1] = "\n"}
           first == SetToSortSeq(starts, <)
           end(k) == IF k = Len(first) THEN Len(input) ELSE first[k + 1] - 1
           lines == [k \in DOMAIN first |-> [by |-> "readlines", size |-> NoSize,
                                             data |-> SubSeq(input, first[k], end(k))]]
       IN got' = got \o (IF Remain = 0 THEN << >> ELSE lines)
    /\ body_read' = Len(input)
    /\ UNCHANGED <<input, headers, environ>>

-----------------------------------------------------------------------------
(* The environment: ymo_wsgi_ctx_update_environ *)

UpperChar(c) == CASE c = "a" -> "A" [] c = "b" -> "B" [] OTHER -> c

\* Mutant: a header with an underscore is taken like any other.
Skipped_mutant(name) == name = << >>

\* A name with an underscore is left out, lest it pass for one with a dash.
Skipped(name) == "_" \in Range(name)

EnvironName(name) == [i \in DOMAIN name |-> IF name[i] = "-" THEN "_" ELSE UpperChar(name[i])]

\* Headers in the order of the table; a later one replaces an equal one.
UpdateEnviron ==
    /\ environ = << >> /\ body_read = 0
    /\ LET kept == SelectSeq(headers, LAMBDA h : ~Skipped(h[1]))
           last(v) == CHOOSE i \in DOMAIN kept :
                         /\ EnvironName(kept[i][1]) = v
                         /\ \A j \in (i + 1)..Len(kept) : EnvironName(kept[j][1]) # v
       IN environ' = [v \in {EnvironName(kept[i][1]) : i \in DOMAIN kept} |-> kept[last(v)][2]]
    /\ UNCHANGED <<input, body_read, got, headers>>

RNext ==
    \/ \E n \in ReadSizes : Read(n) \/ ReadLine(n)
    \/ IterNext \/ ReadLines \/ UpdateEnviron

-----------------------------------------------------------------------------
(* Properties *)

\* However the calls are mixed, they return the body in order, nothing twice and
\* nothing left out, up to body_read.
InOrderUpTo ==
    SubSeq(input, 1, body_read) = FlattenSeq([i \in DOMAIN got |-> got[i].data])

\* A line asked for without a size ends with its newline, which it has nowhere
\* else, unless the body ends before (yimmo_Context_readline, _readlines); and
\* only the end of the body, or a size of 0, gives an empty one.
WholeLines ==
    LET upto(i) == Len(FlattenSeq([j \in 1..i |-> got[j].data])) IN
    \A i \in DOMAIN got :
        LET d == got[i].data IN
        got[i].by \in {"readline", "readlines"} =>
            /\ \A k \in 1..(Len(d) - 1) : d[k] # "\n"
            /\ got[i].size = NoSize /\ (d = << >> \/ Last(d) # "\n") => upto(i) = Len(input)
            /\ d = << >> => upto(i) = Len(input) \/ got[i].size = 0

\* A variable of the environment has the value of a header that is spelled with
\* dashes: one spelled with underscores, as intermediaries do not filter it, never
\* sets or replaces it.
FromDashes ==
    \A v \in DOMAIN environ :
        \E i \in DOMAIN headers :
            /\ headers[i][2] = environ[v] /\ EnvironName(headers[i][1]) = v
            /\ "_" \notin Range(headers[i][1])

\* The application sees the request its client sent: the body once and in
\* order however read, readline, readlines and iteration are mixed, whole
\* lines, and variables set by the headers they are named after.
RequestSeen == InOrderUpTo /\ WholeLines /\ FromDashes
=============================================================================
