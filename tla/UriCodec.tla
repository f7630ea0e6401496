------------------------------ MODULE UriCodec ------------------------------
(***************************************************************************)
(* UriEncode and UriDecode (uri_lib.cc).  A string is a sequence of bytes. *)
(***************************************************************************)
EXTENDS Bytes, SequencesExt

Fail == -1  \* std::runtime_error("stream decode failure")

Digits    == 48..57
UpperCase == 65..90
LowerCase == 97..122

\* The bytes UriEncode leaves alone.
Unreserved == {45, 95, 126} \cup Digits \cup UpperCase \cup LowerCase

HexDigit(n) == IF n < 10 THEN 48 + n ELSE 87 + n
CharToHex(c) == <<Percent, HexDigit(c \div 16), HexDigit(c % 16)>>

\* BUG (mutant): the reserved bytes are taken for a gap in the ASCII table.
UriEncodeMisses(s) ==
    FlattenSeq([i \in DOMAIN s |->
        IF s[i] \in Unreserved \cup {Plus} THEN <<s[i]>> ELSE CharToHex(s[i])])

UriEncode(s) ==
    FlattenSeq([i \in DOMAIN s |-> IF s[i] \in Unreserved THEN <<s[i]>> ELSE CharToHex(s[i])])

HexValue(c) ==
    CASE c \in Digits  -> c - 48
      [] c \in 65..70  -> c - 55
      [] c \in 97..102 -> c - 87
      [] OTHER         -> Fail

\* in >> std::hex >> c on at most two characters: blanks and a sign before the
\* digits and anything after them are accepted; "0x" is a prefix without digits.
HexToChar(str) ==
    LET first  == HexValue(str[1])
        second == IF Len(str) = 2 THEN HexValue(str[2]) ELSE Fail
    IN CASE str = <<>> -> 0
         [] str # <<>> /\ first # Fail /\ second # Fail -> 16 * first + second
         [] str # <<>> /\ first # Fail /\ second = Fail ->
              IF Len(str) = 2 /\ str[1] = 48 /\ str[2] \in {88, 120} THEN Fail ELSE first
         [] str # <<>> /\ first = Fail /\ second # Fail ->
              CASE str[1] \in {9, 10, 11, 12, 13, SP, Plus} -> second
                [] str[1] = Hyphen -> (256 - second) % 256
                [] OTHER -> Fail
         [] OTHER -> Fail

\* BUG (mutant): a plus stays a plus.
UriDecodePlus(s) ==
    LET out[i \in 1..(Len(s) + 3)] ==
          IF i > Len(s) THEN <<>>
          ELSE IF s[i] = Percent
               THEN LET c == HexToChar(SubSeq(s, i + 1, IF i + 2 <= Len(s) THEN i + 2 ELSE Len(s)))
                    IN <<c>> \o out[i + 3]
               ELSE <<s[i]>> \o out[i + 1]
    IN out[1]

\* The bytes decoded; one of them is Fail if HexToChar throws.
UriDecode(s) ==
    LET out[i \in 1..(Len(s) + 3)] ==
          IF i > Len(s) THEN <<>>
          ELSE IF s[i] = Percent
               THEN LET c == HexToChar(SubSeq(s, i + 1, IF i + 2 <= Len(s) THEN i + 2 ELSE Len(s)))
                    IN <<c>> \o out[i + 3]
               ELSE <<IF s[i] = Plus THEN SP ELSE s[i]>> \o out[i + 1]
    IN out[1]

Throws(s) == \E i \in DOMAIN UriDecode(s) : UriDecode(s)[i] = Fail
=============================================================================
