------------------------------ MODULE MemeBody ------------------------------
(***************************************************************************)
(* The body of a request that creates or updates a meme: what the browser  *)
(* sends of the two captions, and what meme_handler::body_check            *)
(* (meme_handler.cc) makes of it after UriDecode.                          *)
(*                                                                         *)
(* The three keys are one character each: m, t and b for memeSelect,       *)
(* topCaption and bottomCaption; the template's name is the character j.   *)
(***************************************************************************)
EXTENDS UriCodec

KeyM == 109
KeyT == 116
KeyB == 98
Template == <<106>>

\* \w, and the characters of a value: \w . , ? ! and the space.
Word  == Digits \cup UpperCase \cup LowerCase \cup {95}
Value == Word \cup {46, 44, 63, 33, SP}

-----------------------------------------------------------------------------
(* The form, as serialize() of the page's jQuery encodes it *)

FormEncode(s) ==
    LET enc[i \in 0..Len(s)] ==
          IF i = 0 THEN <<>>
          ELSE enc[i - 1] \o (CASE s[i] = SP -> <<Plus>>
                                [] s[i] \in Word \cup {33, 39, 40, 41, 42, 45, 46, 126} -> <<s[i]>>
                                [] OTHER -> CharToHex(s[i]))
    IN enc[Len(s)]

Form(top, bottom) ==
    <<KeyM, Equals>> \o Template \o <<Ampersand, KeyT, Equals>> \o FormEncode(top)
    \o <<Ampersand, KeyB, Equals>> \o FormEncode(bottom)

-----------------------------------------------------------------------------
(* body_check *)

\* Where a run of characters of C that begins at i ends.
RunEnd(s, i, C) == Lowest({j \in i..(Len(s) + 1) : j > Len(s) \/ s[j] \notin C}) - 1

\* "(\\w+)=([\\w\\.\\,\\?! ]+)&*": the starts of the matches from position i on.
Starts(s, i) ==
    {k \in i..Len(s) : /\ s[k] \in Word
                       /\ LET e == RunEnd(s, k, Word) + 1
                          IN e < Len(s) /\ s[e] = Equals /\ s[e + 1] \in Value}

\* The pairs of key and value the loop over the matches sees, in order.
Pairs(s) ==
    LET from[i \in 1..(Len(s) + 1)] ==
          IF Starts(s, i) = {} THEN <<>>
          ELSE LET k == Lowest(Starts(s, i))
                   e == RunEnd(s, k, Word) + 1
                   v == RunEnd(s, e + 1, Value)
                   next == Lowest({j \in (v + 1)..(Len(s) + 1) : j > Len(s) \/ s[j] # Ampersand})
               IN << <<SubSeq(s, k, e - 1), SubSeq(s, e + 1, v)>> >> \o from[next]
    IN from[1]

\* The value body_check ends up with for a key; a later pair replaces it.
LastValue(body, key) ==
    LET P == Pairs(UriDecode(body))
        found == {i \in DOMAIN P : P[i][1] = <<key>>}
    IN IF found = {} THEN <<>> ELSE P[CHOOSE i \in found : \A j \in found : j <= i][2]

\* A template, and a caption of a legal character at least.
body_check(body) ==
    /\ ~Throws(body)
    /\ \E i \in DOMAIN LastValue(body, KeyM) : LastValue(body, KeyM)[i] = Template[1]
    /\ LastValue(body, KeyT) # <<>> /\ LastValue(body, KeyB) # <<>>

\* What a body that passes leaves in params.
Params(body) == <<LastValue(body, KeyM), LastValue(body, KeyT), LastValue(body, KeyB)>>
=============================================================================
