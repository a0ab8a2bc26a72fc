------------------------------ MODULE YmoUtf8 ------------------------------
(* ymo_check_utf8 (src/core/ymo_util.c): a validator that keeps what it has *)
(* to know of a character that was cut in one byte of flags.               *)
EXTENDS Integers, Sequences, SequencesExt

\* ymo_utf8_state_t; ok is FALSE once EILSEQ was returned.
Utf8New == [ok |-> TRUE, remain |-> 0, width |-> 1,
            surrogate |-> FALSE, overlong |-> FALSE, max |-> FALSE]
Illegal == [Utf8New EXCEPT !.ok = FALSE]

\* A byte where a character begins.
StartByte(c) ==
    CASE c < 128 -> Utf8New
      [] c \in 194..223 -> [Utf8New EXCEPT !.remain = 1, !.width = 2]
      [] c \in 224..239 -> [Utf8New EXCEPT !.remain = 2, !.width = 3,
                               !.surrogate = (c = 237), !.overlong = (c = 224)]
      [] c \in 240..244 -> [Utf8New EXCEPT !.remain = 3, !.width = 4,
                               !.overlong = (c = 240), !.max = (c = 244)]
      [] OTHER -> Illegal

\* c3_min, c4_min and c4_max, by what remains.
C3Min == <<128, 160, 224>>
C4Min == <<128, 128, 144>>
C4Max == <<191, 191, 143>>

\* Mutant: the check for the largest code point is forgotten.
NextByte_mutant(s, c) ==
    IF \/ c \notin 128..191
       \/ s.width = 3 /\ s.overlong /\ c < C3Min[s.remain]
       \/ s.width = 3 /\ s.surrogate /\ c >= 160
       \/ s.width = 4 /\ s.overlong /\ c < C4Min[s.remain]
    THEN Illegal
    ELSE [s EXCEPT !.remain = @ - 1, !.overlong = FALSE, !.surrogate = FALSE]

\* A byte inside a character.
NextByte(s, c) ==
    IF \/ c \notin 128..191
       \/ s.width = 3 /\ s.overlong /\ c < C3Min[s.remain]
       \/ s.width = 3 /\ s.surrogate /\ c >= 160
       \/ s.width = 4 /\ s.overlong /\ c < C4Min[s.remain]
       \/ s.width = 4 /\ s.max /\ c > C4Max[s.remain]
    THEN Illegal
    ELSE [s EXCEPT !.remain = @ - 1, !.overlong = FALSE, !.surrogate = FALSE]

\* Four bytes of ASCII at once.
Quartet(b, i) == i + 3 <= Len(b) /\ \A j \in i..(i + 3) : b[j] < 128

\* ymo_check_utf8 for the buffer b, the last one if done.
CheckUtf8(st, b, done) ==
    LET Step(a, i) ==
            CASE ~a.s.ok -> a
              [] a.s.ok /\ a.skip > 0 -> [a EXCEPT !.skip = @ - 1]
              [] a.s.ok /\ a.skip = 0 /\ a.s.remain = 0 /\ Quartet(b, i) -> [a EXCEPT !.skip = 3]
              [] OTHER -> [a EXCEPT !.s = IF a.s.remain = 0 THEN StartByte(b[i])
                                          ELSE NextByte(a.s, b[i])]
        end == FoldLeft(Step, [s |-> st, skip |-> 0], [i \in DOMAIN b |-> i]).s
    IN IF end.ok /\ done /\ end.remain > 0 THEN Illegal ELSE end
=============================================================================
