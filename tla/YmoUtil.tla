------------------------------ MODULE YmoUtil ------------------------------
(***************************************************************************)
(* The string helpers of src/core/ymo_util.c and include/ymo_util.h: a     *)
(* text arrives in buffers and is validated as UTF-8, encoded in base64    *)
(* and compared without regard to case.  Bytes are 0..255.                 *)
(***************************************************************************)
EXTENDS YmoUtf8

CONSTANTS
    Buffers,  \* the buffers a text is made of
    MaxText   \* bound: bytes of a text

VARIABLES
    text,  \* what has arrived
    ust    \* the ymo_utf8_state_t

uvars == <<text, ust>>

UInit == text = << >> /\ ust = Utf8New

\* The next buffer of the text.
Feed(b) ==
    /\ ust.ok /\ Len(text) + Len(b) <= MaxText
    /\ text' = text \o b
    /\ ust' = CheckUtf8(ust, b, FALSE)

UNext == \E b \in Buffers : Feed(b)

-----------------------------------------------------------------------------
(* ymo_base64_encode *)

\* Three bytes (those that are missing count as 0) as four digits.
Digits4(a, b, c) == <<a \div 4, (a % 4) * 16 + b \div 16, (b % 16) * 4 + c \div 64, c % 64>>

Pad == 64

\* Mutant: one byte at the end is padded like two.
Base64Encode_mutant(s) ==
    LET n == Len(s)
        Whole == [i \in 1..(n \div 3) |-> Digits4(s[3*i - 2], s[3*i - 1], s[3*i])]
        Rest == CASE n % 3 = 0 -> << >>
                  [] n % 3 = 1 -> SubSeq(Digits4(s[n], 0, 0), 1, 3) \o <<Pad>>
                  [] n % 3 = 2 -> SubSeq(Digits4(s[n - 1], s[n], 0), 1, 3) \o <<Pad>>
    IN FlattenSeq(Whole) \o Rest

Base64Encode(s) ==
    LET n == Len(s)
        Whole == [i \in 1..(n \div 3) |-> Digits4(s[3*i - 2], s[3*i - 1], s[3*i])]
        Rest == CASE n % 3 = 0 -> << >>
                  [] n % 3 = 1 -> SubSeq(Digits4(s[n], 0, 0), 1, 2) \o <<Pad, Pad>>
                  [] n % 3 = 2 -> SubSeq(Digits4(s[n - 1], s[n], 0), 1, 3) \o <<Pad>>
    IN FlattenSeq(Whole) \o Rest

\* What ymo_base64_encoded allocates.
Base64Room(n) == (4 * (n + 2)) \div 3

-----------------------------------------------------------------------------
(* ymo_tolower, ymo_toupper and ymo_strcasecmp *)

Signed(c) == IF c > 127 THEN c - 256 ELSE c
Bit7(x) == (x % 256) >= 128
Bit5(c) == (c \div 32) % 2 = 1
\* c ^ 0x20.
Flip(c) == IF Bit5(c) THEN c - 32 ELSE c + 32

\* Mutant: the lower bound is in the range.
ToLower_mutant(c) ==
    IF Bit7(63 - Signed(c)) # Bit7(90 - Signed(c)) THEN Flip(c) ELSE c

\* The bit of the case is flipped if the two differences have different signs.
ToLower(c) == IF Bit7(64 - Signed(c)) # Bit7(90 - Signed(c)) THEN Flip(c) ELSE c
ToUpper(c) == IF Bit7(96 - Signed(c)) # Bit7(122 - Signed(c)) THEN Flip(c) ELSE c

\* How many characters are left when the loop stops; 0 if the strings are equal.
StrCaseCmp(s, t) ==
    IF Len(s) # Len(t) THEN -1
    ELSE LET bad == {i \in DOMAIN s : ToLower(s[i]) # ToLower(t[i])}
         IN IF bad = {} THEN 0 ELSE Len(s) - (CHOOSE i \in bad : \A j \in bad : i <= j) + 1

-----------------------------------------------------------------------------
(* Properties *)

Cont == 128..191
\* RFC 3629: the form of a character.
Character(u) ==
    \/ Len(u) = 1 /\ u[1] < 128
    \/ Len(u) = 2 /\ u[1] \in 194..223 /\ u[2] \in Cont
    \/ /\ Len(u) = 3 /\ u[3] \in Cont
       /\ \/ u[1] = 224 /\ u[2] \in 160..191
          \/ u[1] \in (225..236) \cup {238, 239} /\ u[2] \in Cont
          \/ u[1] = 237 /\ u[2] \in 128..159
    \/ /\ Len(u) = 4 /\ u[3] \in Cont /\ u[4] \in Cont
       /\ \/ u[1] = 240 /\ u[2] \in 144..191
          \/ u[1] \in 241..243 /\ u[2] \in Cont
          \/ u[1] = 244 /\ u[2] \in 128..143

\* Positions at which a text can be cut into characters from its beginning.
Cuts(t) ==
    FoldLeft(LAMBDA C, i : IF \E k \in C : i - k <= 4 /\ Character(SubSeq(t, k + 1, i))
                           THEN C \cup {i} ELSE C,
             {0}, [i \in DOMAIN t |-> i])
Begun(u) == u = << >> \/ \E a, b, c \in {128, 144, 160} :
                Character(u \o <<a>>) \/ Character(u \o <<a, b>>) \/ Character(u \o <<a, b, c>>)

\* However a text is cut into buffers, it is rejected exactly when no UTF-8
\* text begins like it, and the last call rejects exactly what ends inside a
\* character (ymo_check_utf8).
Utf8Valid ==
    /\ ust.ok <=> \E k \in Cuts(text) : Begun(SubSeq(text, k + 1, Len(text)))
    /\ CheckUtf8(ust, << >>, TRUE).ok <=> Len(text) \in Cuts(text)

\* Base64: the digits decode to the bytes that were encoded, padding tells how many,
\* and with the terminator they fit into what ymo_base64_encoded allocates,
\* unless one byte is left over at the end.
Decodes ==
    LET e == Base64Encode(text)
        n == Len(text)
        Digit(i) == e[i] % 64
    IN /\ Len(e) = 4 * ((n + 2) \div 3)
       /\ \A i \in DOMAIN e : e[i] = Pad <=> i > Len(e) - ((3 - (n % 3)) % 3)
       /\ \A i \in 1..n :
             LET g == 4 * ((i - 1) \div 3)
             IN text[i] = CASE i % 3 = 1 -> Digit(g + 1) * 4 + Digit(g + 2) \div 16
                            [] i % 3 = 2 -> (Digit(g + 2) % 16) * 16 + Digit(g + 3) \div 4
                            [] i % 3 = 0 -> (Digit(g + 3) % 4) * 64 + Digit(g + 4)
       /\ n % 3 # 1 => Len(e) + 1 <= Base64Room(n)

\* Case: ymo_tolower and ymo_toupper change the letters of ASCII and no other byte of
\* it; a text equals its own other case.  Bytes above 127 are left out: a byte
\* there may lie between the two bounds after the sign is lost.
CaseChanges ==
    /\ \A i \in DOMAIN text :
          LET c == text[i] IN
          c < 128 =>
          /\ ToLower(c) = IF c \in 65..90 THEN c + 32 ELSE c
          /\ ToUpper(c) = IF c \in 97..122 THEN c - 32 ELSE c
    /\ (\A i \in DOMAIN text : text[i] < 128) =>
          StrCaseCmp(text, [i \in DOMAIN text |-> ToUpper(text[i])]) = 0

\* A text of any bytes is judged rightly by ymo_check_utf8, in whatever buffers
\* it comes, and survives ymo_base64_encode; one of ASCII is changed and compared
\* rightly by ymo_tolower, ymo_toupper and ymo_strcasecmp.
TextExact == Utf8Valid /\ Decodes /\ CaseChanges
=============================================================================
