------------------------------- MODULE Bytes -------------------------------
(***************************************************************************)
(* The characters of requests and responses.  A text is a sequence of      *)
(* numbers: a byte, or above 255 a run of ordinary characters that nothing *)
(* looks into (METHOD is a word, VERSION is "HTTP/1.1").                   *)
(***************************************************************************)
EXTENDS Integers, Sequences

Byte == 0..255

NUL == 0
LF  == 10
CR  == 13
SP  == 32
Percent   == 37
Ampersand == 38
Plus      == 43
Hyphen    == 45
Colon     == 58
Equals    == 61
Question  == 63
METHOD  == 256
VERSION == 257

CRLF == <<CR, LF>>

OneLine(s) == \A i \in DOMAIN s : s[i] \notin {CR, LF}
Lowest(S)  == CHOOSE i \in S : \A j \in S : i <= j
Highest(S) == CHOOSE i \in S : \A j \in S : j <= i
=============================================================================
