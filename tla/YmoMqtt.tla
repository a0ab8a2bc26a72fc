------------------------------ MODULE YmoMqtt ------------------------------
(***************************************************************************)
(* An MQTT session (src/protocol/mqtt): control packets arrive in buffers  *)
(* that end anywhere, a CONNECT is answered, everything else is parsed and *)
(* dropped.  A digit of a length has LenBase values instead of 128.        *)
(***************************************************************************)
EXTENDS Integers, Sequences, SequencesExt, FiniteSetsExt

CONSTANTS
    Packets,  \* what clients send: sequences of packets [type, flags, proto, len, has]
    LenBase   \* the values of a digit of a length

VARIABLES
    psent,   \* the packets of this client
    pin,     \* the bytes that were not read yet
    pavail,  \* how many of them are in the receive buffer
    mstate,  \* session->state; CLOSED when the connection was closed,
             \* UNDEFINED when memory behind the buffer was parsed
    mi,      \* msg_in: [ps, type, len, mult, remain, hdr], hdr: is var_hdr allocated?
    mstrs,   \* the strings of the session that are allocated
    mdone,   \* the packets that were completed: [type, len]
    mchain,  \* the buckets at send_head
    mtail,   \* is send_tail set?
    mout     \* the buckets that were sent

mqvars == <<psent, pin, pavail, mstate, mi, mstrs, mdone, mchain, mtail, mout>>

\* The flags a type must have; others are not looked at.
Flags == [CONNECT |-> 0, CONNACK |-> 0, PUBACK |-> 0, PUBREC |-> 0, PUBREL |-> 2, PUBCOMP |-> 0,
          SUBSCRIBE |-> 2, SUBACK |-> 0, UNSUBSCRIBE |-> 2, UNSUBACK |-> 0, PINGREQ |-> 0, PINGRESP |-> 0]

\* The digits of a length, the least significant first, all but the last with
\* the continuation bit.
EncodeRemain(n) ==
    LET k == CHOOSE j \in 1..8 : n < LenBase ^ j /\ \A i \in 1..(j - 1) : n >= LenBase ^ i
    IN [i \in 1..k |-> [digit |-> (n \div (LenBase ^ (i - 1))) % LenBase, more |-> i < k]]
\* A client: the bytes of a packet.
Wire(p) == <<p>> \o EncodeRemain(p.len) \o [i \in 1..p.len |-> p]

NewMsg == [ps |-> "CTRLPACK", type |-> "NONE", len |-> 0, mult |-> 1, remain |-> 0, hdr |-> FALSE]

MInit ==
    /\ psent \in Packets
    /\ pin = FlattenSeq([i \in DOMAIN psent |-> Wire(psent[i])])
    /\ pavail = 0 /\ mstate = "CONNECTING" /\ mi = NewMsg /\ mstrs = {} /\ mdone = << >>
    /\ mchain = << >> /\ mtail = FALSE /\ mout = << >>

Live == mstate \notin {"CLOSED", "UNDEFINED"}
MReceive(n) ==
    /\ Live /\ pavail = 0 /\ mi.ps # "COMPLETE"
    /\ pavail' = n
    /\ UNCHANGED <<psent, pin, mstate, mi, mstrs, mdone, mchain, mtail, mout>>

MParsing(ps) == Live /\ mi.ps = ps /\ (ps = "COMPLETE" \/ pavail > 0)
Consume(n) == pin' = SubSeq(pin, n + 1, Len(pin)) /\ pavail' = pavail - n

\* The read callback returns -1: the server closes the connection, and
\* ymo_proto_mqtt_conn_cleanup and ymo_mqtt_session_free let go of it.
MClose ==
    /\ mstate' = "CLOSED" /\ mi' = NewMsg /\ mstrs' = {}
    /\ mchain' = << >> /\ mtail' = FALSE /\ pavail' = 0
    /\ UNCHANGED <<psent, pin, mdone, mout>>

\* Mutant: a second CONNECT is accepted.
CtrlOkay_mutant(p) == p.type \in DOMAIN Flags => p.flags = Flags[p.type]

CtrlOkay(p) ==
    /\ p.type = "CONNECT" => mstate = "CONNECTING"
    /\ p.type \in DOMAIN Flags => p.flags = Flags[p.type]

\* ymo_mqtt_parse_fixed_ctrlpack.
ParseCtrl ==
    /\ MParsing("CTRLPACK")
    /\ \/ /\ CtrlOkay(pin[1])
          /\ mi' = [mi EXCEPT !.type = pin[1].type, !.ps = "LENGTH", !.mult = 1]
          /\ Consume(1)
          /\ UNCHANGED <<psent, mstate, mstrs, mdone, mchain, mtail, mout>>
       \/ ~CtrlOkay(pin[1]) /\ MClose

\* The digits in the buffer up to the last of the length, if it is there.
LastDigit == {i \in 1..pavail : "more" \in DOMAIN pin[i] /\ ~pin[i].more}
DigitsHere == IF LastDigit = {} THEN pavail ELSE Min(LastDigit)

\* ymo_mqtt_parsed_fixed_len: no digit above the third power of the base;
\* mqtt_parse_varhdr_init may get NULL for no bytes.  The count of bytes is
\* not looked at when the buffer ends: then what is behind it is parsed.
ParseLength ==
    /\ MParsing("LENGTH")
    /\ LET k == DigitsHere
           len == FoldLeft(LAMBDA s, i : s + pin[i].digit * LenBase ^ (i - 1), 0, [i \in 1..k |-> i])
       IN \/ /\ LastDigit # {} /\ k <= 4
             /\ mi' = [mi EXCEPT !.len = len, !.remain = len, !.hdr = TRUE, !.ps = "PAYLOAD"]
             /\ Consume(k)
             /\ UNCHANGED <<psent, mstate, mstrs, mdone, mchain, mtail, mout>>
          \/ (k > 4 \/ (LastDigit # {} /\ len = 0)) /\ MClose
          \/ /\ LastDigit = {} /\ k <= 4
             /\ mstate' = "UNDEFINED"
             /\ UNCHANGED <<psent, pin, pavail, mi, mstrs, mdone, mchain, mtail, mout>>

\* mqtt_parse_varhdr: name and version of the protocol.
VarHdrOkay(p) == p.type = "CONNECT" => p.proto

\* mqtt_parse_payload: the strings that the flags of a CONNECT announce.
Strings(p) == IF p.type = "CONNECT" THEN p.has ELSE mstrs

\* ymo_mqtt_parse_varhdr_payload: nothing is looked at before all is there.
MPayload ==
    /\ MParsing("PAYLOAD")
    /\ LET n == Min({pavail, mi.remain})
           all == mi.remain = n
           \* (Of an empty packet there is no byte: its type is that of the header.)
           p == IF mi.len = 0 THEN [type |-> "NONE"] ELSE pin[1]
       IN \/ /\ all => VarHdrOkay(p)
             /\ mi' = [mi EXCEPT !.remain = @ - n, !.ps = IF all THEN "COMPLETE" ELSE @]
             /\ mstrs' = IF all THEN Strings(p) ELSE mstrs
             /\ Consume(n)
             /\ UNCHANGED <<psent, mstate, mdone, mchain, mtail, mout>>
          \/ all /\ ~VarHdrOkay(p) /\ MClose

\* Mutant: the length is kept for the next message.
ParseReset_mutant == mi' = [NewMsg EXCEPT !.len = mi.len, !.hdr = mi.hdr]

\* mqtt_parse_reset with ymo_mqtt_session_msg_free.
ParseReset == mi' = NewMsg

\* MQTT_PARSE_COMPLETE; a CONNECT is answered with ymo_mqtt_session_send.
MComplete ==
    /\ MParsing("COMPLETE")
    /\ mdone' = Append(mdone, [type |-> mi.type, len |-> mi.len])
    /\ ParseReset
    /\ IF mi.type = "CONNECT"
       THEN /\ mstate' = "CONNECTED"
            /\ mchain' = IF mchain = << >> \/ mtail THEN mchain \o <<"CONNACK", "payload">> ELSE mchain
            /\ mtail' = TRUE
       ELSE UNCHANGED <<mstate, mchain, mtail>>
    /\ UNCHANGED <<psent, pin, pavail, mstrs, mout>>

\* ymo_proto_mqtt_write: some of the buckets leave; after all of them the tail
\* is forgotten.
MWrite(k) ==
    /\ Live /\ mchain # << >> /\ k \in 1..Len(mchain)
    /\ mout' = mout \o SubSeq(mchain, 1, k)
    /\ mchain' = SubSeq(mchain, k + 1, Len(mchain))
    /\ mtail' = (k < Len(mchain))
    /\ UNCHANGED <<psent, pin, pavail, mstate, mi, mstrs, mdone>>

MNext ==
    \/ \E n \in 1..Len(pin) : MReceive(n)
    \/ ParseCtrl \/ ParseLength \/ MPayload \/ MComplete
    \/ \E k \in 1..Len(mchain) : MWrite(k)

-----------------------------------------------------------------------------
(* Properties *)

PacketOkay(i) ==
    LET p == psent[i] IN
    /\ p.type \in DOMAIN Flags => p.flags = Flags[p.type]
    /\ p.type = "CONNECT" => p.proto /\ \A j \in 1..(i - 1) : psent[j].type # "CONNECT"
    /\ p.len \in 1..(LenBase ^ 4 - 1)

\* What was completed is what was sent, packet by packet and with the right
\* lengths, wherever the buffers were cut, and none that breaks a rule (but for
\* an empty one); a packet that is complete has given back the memory of the
\* last one.  The session answers one CONNECT, the first, whose strings it
\* keeps, and is closed by the parser only for a packet that breaks a rule.
PacketsExact ==
    /\ Len(mdone) <= Len(psent)
    /\ \A i \in DOMAIN mdone :
          /\ mdone[i] = [type |-> psent[i].type, len |-> psent[i].len]
          /\ PacketOkay(i) \/ psent[i].len = 0
    /\ mi.hdr <=> mi.ps \in {"PAYLOAD", "COMPLETE"}
    /\ Len(SelectSeq(mout \o mchain, LAMBDA b : b = "CONNACK")) <= 1
    /\ mstate = "CONNECTED" => \E i \in DOMAIN mdone : mdone[i].type = "CONNECT" /\ mstrs = psent[i].has
    /\ mstate = "CLOSED" => \E i \in DOMAIN psent : ~PacketOkay(i)
=============================================================================
