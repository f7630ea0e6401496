--------------------------- MODULE ExchangeProofs ---------------------------
(* What the request parser, the URI codec, body_check and the response make  *)
(* of every request, read as a whole or in part.                             *)
EXTENDS Exchange, Lemmas, FiniteSetTheorems

-----------------------------------------------------------------------------
(* Sets of places, and texts in a row *)

LEMMA LowestIs ==
  ASSUME NEW S \in SUBSET Int, NEW x \in S, \A j \in S : x <= j
  PROVE  Lowest(S) = x
  <1>1. Lowest(S) \in S /\ \A j \in S : Lowest(S) <= j
    BY DEF Lowest
  <1>. DEFINE y == Lowest(S)
  <1>. HIDE DEF y
  <1>2. y \in S /\ \A j \in S : y <= j
    BY <1>1 DEF y
  <1>3. y = x
    BY <1>2
  <1>. QED BY <1>3 DEF y

LEMMA HighestIs ==
  ASSUME NEW S \in SUBSET Int, NEW x \in S, \A j \in S : j <= x
  PROVE  Highest(S) = x
  <1>1. Highest(S) \in S /\ \A j \in S : j <= Highest(S)
    BY DEF Highest
  <1>. DEFINE y == Highest(S)
  <1>. HIDE DEF y
  <1>2. y \in S /\ \A j \in S : j <= y
    BY <1>1 DEF y
  <1>3. y = x
    BY <1>2
  <1>. QED BY <1>3 DEF y

LEMMA LowestExists ==
  ASSUME NEW S \in SUBSET Nat, S # {}
  PROVE  Lowest(S) \in S /\ \A j \in S : Lowest(S) <= j
  <1>1. PICK n \in S : \A k \in S : ~(k < n)
    BY LeastExists
  <1>2. \A j \in S : n <= j
    BY <1>1
  <1>3. Lowest(S) = n
    BY <1>2, LowestIs
  <1>. QED BY <1>2, <1>3

LEMMA HighestExists ==
  ASSUME NEW b \in Int, NEW S \in SUBSET Int, S # {}, \A x \in S : x <= b
  PROVE  Highest(S) \in S /\ \A j \in S : j <= Highest(S)
  <1>. DEFINE R == {b - x : x \in S}
  <1>1. R \in SUBSET Nat /\ R # {}
    <2>1. \A x \in S : b - x \in Nat
      OBVIOUS
    <2>2. R \in SUBSET Nat
      BY <2>1
    <2>3. PICK y \in S : TRUE
      OBVIOUS
    <2>4. b - y \in R
      OBVIOUS
    <2>. QED BY <2>2, <2>4
  <1>2. PICK n \in R : \A k \in R : ~(k < n)
    <2>. HIDE DEF R
    <2>. QED BY <1>1, LeastExists
  <1>3. PICK x \in S : n = b - x
    BY <1>2
  <1>4. \A j \in S : j <= x
    <2>. SUFFICES ASSUME NEW j \in S PROVE j <= x
      OBVIOUS
    <2>1. ~(b - j < n)
      BY <1>2
    <2>. QED BY <1>3, <2>1
  <1>5. Highest(S) = x
    BY <1>4, HighestIs
  <1>. QED BY <1>4, <1>5

-----------------------------------------------------------------------------
(* UriDecode *)

\* The loop of UriDecode: f[i] is what is decoded from place i on.
Decoding(f, s) ==
    f = [i \in 1..(Len(s) + 3) |->
          IF i > Len(s) THEN <<>>
          ELSE IF s[i] = Percent
               THEN LET c == HexToChar(SubSeq(s, i + 1, IF i + 2 <= Len(s) THEN i + 2 ELSE Len(s)))
                    IN <<c>> \o f[i + 3]
               ELSE <<IF s[i] = Plus THEN SP ELSE s[i]>> \o f[i + 1]]

LEMMA Decoded ==
  ASSUME NEW s \in Seq(Nat)
  PROVE  \E f : Decoding(f, s) /\ UriDecode(s) = f[1]
  <1>. DEFINE n == Len(s) + 3
              Hex(i) == HexToChar(SubSeq(s, i + 1, IF i + 2 <= Len(s) THEN i + 2 ELSE Len(s)))
              Char(i) == IF s[i] = Plus THEN SP ELSE s[i]
              piece == [i \in 1..n |-> IF i > Len(s) THEN <<>>
                                       ELSE IF s[i] = Percent THEN <<Hex(i)>> ELSE <<Char(i)>>]
              next == [i \in 1..n |-> IF i > Len(s) THEN 0
                                      ELSE IF s[i] = Percent THEN i + 3 ELSE i + 1]
  <1>0. Len(s) \in Nat
    OBVIOUS
  <1>1. n \in Nat /\ next \in [1..n -> 0..n] /\ \A i \in 1..n : next[i] = 0 \/ next[i] > i
    BY <1>0
  <1>2. PICK f : Chain(f, n, piece, next)
    <2>. HIDE DEF n, piece, next
    <2>. QED BY <1>1, ChainExists
  <1>3. Decoding(f, s)
    <2>. HIDE DEF Hex, Char
    <2>1. ASSUME NEW i \in 1..n
          PROVE  /\ next[i] = 0 <=> i > Len(s)
                 /\ i > Len(s) => piece[i] = <<>>
                 /\ i <= Len(s) /\ s[i] = Percent => piece[i] = <<Hex(i)>> /\ next[i] = i + 3
                 /\ i <= Len(s) /\ s[i] # Percent => piece[i] = <<Char(i)>> /\ next[i] = i + 1
      BY <1>0
    <2>2. f = [i \in 1..n |-> IF next[i] = 0 THEN piece[i] ELSE piece[i] \o f[next[i]]]
      BY <1>2 DEF Chain, ChainFrom
    <2>. HIDE DEF piece, next
    <2>3. \A i \in 1..n : i > Len(s) \/ i <= Len(s)
      BY <1>0
    <2>4. f = [i \in 1..n |-> IF i > Len(s) THEN <<>>
                              ELSE IF s[i] = Percent THEN <<Hex(i)>> \o f[i + 3]
                                                     ELSE <<Char(i)>> \o f[i + 1]]
      <3>1. ASSUME NEW i \in 1..n
            PROVE  f[i] = IF i > Len(s) THEN <<>>
                              ELSE IF s[i] = Percent THEN <<Hex(i)>> \o f[i + 3]
                                                     ELSE <<Char(i)>> \o f[i + 1]
        BY <2>1, <2>2, <2>3
      <3>2. f = [i \in 1..n |-> f[i]]
        BY <2>2
      <3>. QED BY <3>1, <3>2
    <2>. QED BY <2>4 DEF Decoding, Hex, Char
  <1>4. PICK g : Decoding(g, s) /\ g = CHOOSE h : Decoding(h, s)
    BY <1>3
  <1>5. UriDecode(s) = (CHOOSE h : Decoding(h, s))[1]
    BY DEF UriDecode, Decoding
  <1>. QED BY <1>4, <1>5

\* How a character may be written: as itself, a space as a plus, in hex...
Encodes(t, c) ==
    \/ t = <<c>> /\ c \notin {Percent, Plus}
    \/ t = <<Plus>> /\ c = SP
    \/ \E h, l \in Nat : t = <<Percent, h, l>> /\ c = HexToChar(<<h, l>>)
\* ...and what is decoded where a text is cut off.
EncodesCut(t, c) ==
    \/ t = <<Percent>> /\ c = HexToChar(<<>>)
    \/ \E h \in Nat : t = <<Percent, h>> /\ c = HexToChar(<<h>>)

\* One character decoded, at the place p of a text.
LEMMA EncodesLen ==
  ASSUME NEW t, NEW c, Encodes(t, c) \/ EncodesCut(t, c)
  PROVE  Len(t) # 0
  <1>1. ASSUME NEW x, t = <<x>> PROVE Len(t) # 0
    BY <1>1
  <1>2. ASSUME NEW x, NEW y, t = <<x, y>> PROVE Len(t) # 0
    BY <1>2
  <1>3. ASSUME NEW x, NEW y, NEW z, t = <<x, y, z>> PROVE Len(t) # 0
    BY <1>3
  <1>4. CASE Encodes(t, c)
    BY <1>1, <1>3, <1>4 DEF Encodes
  <1>5. CASE EncodesCut(t, c)
    BY <1>1, <1>2, <1>5 DEF EncodesCut
  <1>. QED BY <1>4, <1>5

LEMMA DecodeOne ==
  ASSUME NEW text \in Seq(Nat), NEW f, Decoding(f, text), NEW q,
         NEW t \in Seq(Nat), NEW c, Stands(text, q, t),
         Encodes(t, c) \/ (EncodesCut(t, c) /\ q + Len(t) = Len(text))
  PROVE  f[q + 1] = <<c>> \o f[q + Len(t) + 1]
  <1>. DEFINE p == q + 1
  <1>a. Len(t) \in Nat /\ q \in Nat /\ p \in 1..Len(text) /\ p + Len(t) - 1 <= Len(text)
        /\ p + Len(t) = q + Len(t) + 1 /\ p + Len(t) - 1 = q + Len(t) /\ p - 1 = q
    <2>1. Len(t) # 0
      BY EncodesLen
    <2>. DEFINE a == Len(t)
                b == Len(text)
    <2>2. a \in Nat /\ b \in Nat /\ q \in Nat /\ q + a <= b /\ a # 0
      BY <2>1 DEF Stands
    <2>. HIDE DEF a, b
    <2>3. q + 1 \in 1..b /\ q + 1 + a - 1 <= b /\ q + 1 + a = q + a + 1 /\ q + 1 + a - 1 = q + a
          /\ q + 1 - 1 = q
      BY <2>2
    <2>. QED BY <2>2, <2>3 DEF a, b
  <1>b. \A j \in 1..Len(t) : text[p - 1 + j] = t[j]
    BY <1>a DEF Stands
  <1>. SUFFICES f[p] = <<c>> \o f[p + Len(t)]
    BY <1>a
  <1>. HIDE DEF p
  <1>. DEFINE n == Len(text)
              last == IF p + 2 <= n THEN p + 2 ELSE n
  <1>1. n \in Nat /\ p \in 1..n /\ p \in 1..(n + 3) /\ ~(p > n) /\ n + 1 \in 1..(n + 3)
        /\ n + 2 \in 1..(n + 3) /\ n + 3 \in 1..(n + 3) /\ p + 0 = p /\ p - 1 + 1 = p
    BY <1>a
  <1>2. f[n + 1] = <<>> /\ f[n + 2] = <<>> /\ f[n + 3] = <<>>
    BY <1>1 DEF Decoding
  <1>3. text[p] = Percent => f[p] = <<HexToChar(SubSeq(text, p + 1, last))>> \o f[p + 3]
    BY <1>1 DEF Decoding
  <1>4. text[p] # Percent => f[p] = <<IF text[p] = Plus THEN SP ELSE text[p]>> \o f[p + 1]
    BY <1>1 DEF Decoding
  <1>5. CASE t = <<c>> /\ c \notin {Percent, Plus}
    <2>1. Len(t) = 1 /\ t[1] = c
      BY <1>5
    <2>2. text[p] = c
      BY <1>b, <1>1, <2>1
    <2>. QED BY <1>4, <1>5, <2>1, <2>2
  <1>6. CASE t = <<Plus>> /\ c = SP
    <2>1. Len(t) = 1 /\ t[1] = Plus /\ Plus # Percent
      BY <1>6 DEF Plus, Percent
    <2>2. text[p] = Plus
      BY <1>b, <1>1, <2>1
    <2>. QED BY <1>4, <1>6, <2>1, <2>2
  <1>7. ASSUME NEW h \in Nat, NEW l \in Nat, t = <<Percent, h, l>>, c = HexToChar(<<h, l>>)
        PROVE  f[p] = <<c>> \o f[p + Len(t)]
    <2>1. Len(t) = 3 /\ t[1] = Percent /\ t[2] = h /\ t[3] = l
      BY <1>7
    <2>2. text[p - 1 + 1] = t[1] /\ text[p - 1 + 2] = t[2] /\ text[p - 1 + 3] = t[3]
      BY <1>b, <2>1
    <2>3. text[p] = Percent /\ text[p + 1] = h /\ text[p + 2] = l /\ p + 2 <= n
      BY <1>a, <1>1, <2>1, <2>2
    <2>4. SubSeq(text, p + 1, last) = <<h, l>>
      <3>1. last = p + 2
        BY <2>3
      <3>. DEFINE u == SubSeq(text, p + 1, p + 2)
      <3>2. u \in Seq(Nat) /\ Len(u) = 2 /\ u[1] = text[p + 1] /\ u[2] = text[p + 2]
        <4>. DEFINE a == p + 1
                    b == p + 2
                    v == SubSeq(text, a, b)
        <4>1. a \in 1..(Len(text) + 1) /\ b \in (a - 1)..Len(text) /\ b - a + 1 = 2
              /\ a + 1 - 1 = p + 1 /\ a + 2 - 1 = p + 2 /\ 1 \in 1..2 /\ 2 \in 1..2
          BY <1>1, <2>3
        <4>. HIDE DEF a, b
        <4>2. v \in Seq(Nat) /\ Len(v) = 2 /\ \A k \in 1..2 : v[k] = text[a + k - 1]
          BY <4>1, Part, SMTT(30)
        <4>3. v \in Seq(Nat) /\ Len(v) = 2 /\ v[1] = text[p + 1] /\ v[2] = text[p + 2]
          <5>. HIDE DEF v
          <5>. QED BY <4>1, <4>2
        <4>. QED BY <4>3 DEF a, b
      <3>. HIDE DEF u
      <3>3. u = <<h, l>>
        BY <2>3, <3>2
      <3>. QED BY <3>1, <3>3 DEF u
    <2>. QED BY <1>3, <1>7, <2>1, <2>3, <2>4
  <1>8. CASE t = <<Percent>> /\ c = HexToChar(<<>>) /\ p + Len(t) - 1 = n
    <2>1. Len(t) = 1 /\ t[1] = Percent /\ p = n /\ p + 1 = n + 1 /\ p + 3 = n + 3
      BY <1>1, <1>8
    <2>2. text[p] = Percent
      BY <1>b, <1>1, <2>1
    <2>3. SubSeq(text, p + 1, last) = <<>>
      <3>1. last = n /\ p + 1 > last
        <4>1. ~(p + 2 <= n) /\ p + 1 > n
          BY <1>1, <2>1
        <4>. QED BY <4>1
      <3>. QED BY <1>1, <3>1
    <2>. QED BY <1>2, <1>3, <1>8, <2>1, <2>2, <2>3
  <1>9. ASSUME NEW h \in Nat, t = <<Percent, h>>, c = HexToChar(<<h>>), p + Len(t) - 1 = n
        PROVE  f[p] = <<c>> \o f[p + Len(t)]
    <2>1. Len(t) = 2 /\ t[1] = Percent /\ t[2] = h /\ p + 1 = n /\ p + 2 = n + 1 /\ p + 3 = n + 2
      BY <1>1, <1>9
    <2>2. text[p - 1 + 1] = t[1] /\ text[p - 1 + 2] = t[2]
      BY <1>b, <2>1
    <2>3. text[p] = Percent /\ text[p + 1] = h
      BY <1>1, <2>1, <2>2
    <2>4. SubSeq(text, p + 1, last) = <<h>>
      <3>1. last = p + 1
        BY <1>1, <2>1
      <3>. DEFINE u == SubSeq(text, p + 1, p + 1)
      <3>2. u \in Seq(Nat) /\ Len(u) = 1 /\ u[1] = text[p + 1]
        BY <1>1, <2>1
      <3>. HIDE DEF u
      <3>3. u = <<h>>
        BY <2>3, <3>2
      <3>. QED BY <3>1, <3>3 DEF u
    <2>. QED BY <1>2, <1>3, <1>9, <2>1, <2>3, <2>4
  <1>. QED BY <1>a, <1>5, <1>6, <1>7, <1>8, <1>9 DEF Encodes, EncodesCut

\* A text that writes the characters of s one after the other is decoded to s.
LEMMA DecodesTexts ==
  ASSUME NEW s \in Seq(Nat), NEW texts, NEW g, Joins(g, Len(s), Nat, texts),
         \A k \in 1..Len(s) : Encodes(texts[k], s[k]) \/ (k = Len(s) /\ EncodesCut(texts[k], s[k]))
  PROVE  UriDecode(g[Len(s)]) = s
  <1>. DEFINE n == Len(s)
              text == g[n]
  <1>1. n \in Nat /\ n \in 0..n
    OBVIOUS
  <1>2. text \in Seq(Nat) /\ g[0] = <<>> /\ Len(text) \in Nat
    BY <1>1 DEF Joins
  <1>3. PICK f : Decoding(f, text) /\ UriDecode(text) = f[1]
    BY <1>2, Decoded
  <1>. HIDE DEF n, text
  <1>. DEFINE at == [k \in 0..n |-> Len(g[k]) + 1]
  <1>4. f[at[n]] = SubSeq(s, n + 1, n)
    <2>1. f[Len(text) + 1] = <<>>
      <3>1. Len(text) + 1 \in 1..(Len(text) + 3) /\ Len(text) + 1 > Len(text)
        BY <1>2
      <3>. QED BY <1>3, <3>1 DEF Decoding
    <2>2. SubSeq(s, n + 1, n) = <<>>
      BY <1>1 DEF n
    <2>. QED BY <1>1, <2>1, <2>2 DEF text
  <1>5. ASSUME NEW k \in 1..n PROVE f[at[k - 1]] = <<s[k]>> \o f[at[k]]
    <2>1. k \in 0..n /\ n \in 1..n /\ k - 1 \in 0..n
      BY <1>1
    <2>2. Joins(g, n, Nat, texts)
      BY DEF n
    <2>3. PieceOf(g, n, k, Nat, texts)
      BY <1>1, <2>1, <2>2, JoinsPiece
    <2>. DEFINE t == texts[k]
                q == Len(g[k - 1])
                c == s[k]
    <2>4. t \in Seq(Nat) /\ Stands(text, q, t) /\ Len(g[k]) = q + Len(t)
      BY <2>3 DEF PieceOf, text
    <2>5. Encodes(t, c) \/ (k = n /\ EncodesCut(t, c))
      BY <2>1 DEF n
    <2>6. k = n => q + Len(t) = Len(text)
      BY <2>4 DEF text
    <2>7. at[k - 1] = q + 1 /\ at[k] = q + Len(t) + 1
      BY <2>1, <2>4
    <2>. HIDE DEF t, q, c, at
    <2>8. Encodes(t, c) \/ (EncodesCut(t, c) /\ q + Len(t) = Len(text))
      BY <2>5, <2>6
    <2>9. f[q + 1] = <<c>> \o f[q + Len(t) + 1]
      BY <1>2, <1>3, <2>4, <2>8, DecodeOne
    <2>. QED BY <2>7, <2>9 DEF c
  <1>6. at[0] = 1
    BY <1>1, <1>2
  <1>. HIDE DEF at
  <1>7. Spells(f, at, n, s)
    BY <1>1, <1>4, <1>5 DEF Spells, n
  <1>8. f[at[0]] = s
    BY <1>7, ChainSpells
  <1>. QED BY <1>3, <1>6, <1>8 DEF text, n

LEMMA HexDigitValue ==
  ASSUME NEW n \in 0..15
  PROVE  HexDigit(n) \in Nat /\ HexValue(HexDigit(n)) = n
  <1>1. CASE n < 10
    <2>1. HexDigit(n) = 48 + n /\ 48 + n \in 48..57
      BY <1>1 DEF HexDigit
    <2>2. HexValue(48 + n) = 48 + n - 48
      BY <2>1 DEF HexValue, Digits
    <2>. QED BY <2>1, <2>2
  <1>2. CASE ~(n < 10)
    <2>1. HexDigit(n) = 87 + n /\ 87 + n \in 97..102
      BY <1>2 DEF HexDigit
    <2>2. HexValue(87 + n) = 87 + n - 87
      BY <2>1 DEF HexValue, Digits
    <2>. QED BY <2>1, <2>2
  <1>. QED BY <1>1, <1>2

\* %xx is the character it was made of.
LEMMA HexRoundTrip ==
  ASSUME NEW c \in Byte
  PROVE  /\ HexToChar(<<HexDigit(c \div 16), HexDigit(c % 16)>>) = c
         /\ CharToHex(c) \in Seq(Nat) /\ Encodes(CharToHex(c), c)
  <1>. DEFINE h == HexDigit(c \div 16)
              l == HexDigit(c % 16)
  <1>1. c \div 16 \in 0..15 /\ c % 16 \in 0..15 /\ 16 * (c \div 16) + (c % 16) = c
    BY DEF Byte
  <1>2. h \in Nat /\ l \in Nat /\ HexValue(h) = c \div 16 /\ HexValue(l) = c % 16
    BY <1>1, HexDigitValue
  <1>3. c \div 16 # Fail /\ c % 16 # Fail
    BY <1>1 DEF Fail
  <1>. HIDE DEF h, l
  <1>. DEFINE s == <<h, l>>
  <1>4. s # <<>> /\ Len(s) = 2 /\ s[1] = h /\ s[2] = l
    OBVIOUS
  <1>. HIDE DEF s
  <1>5. HexToChar(s) = c
    <2>1. HexToChar(s) = 16 * HexValue(s[1]) + HexValue(s[2])
      BY <1>2, <1>3, <1>4 DEF HexToChar
    <2>. QED BY <1>1, <1>2, <1>4, <2>1
  <1>6. <<Percent, h, l>> \in Seq(Nat)
    BY <1>2 DEF Percent
  <1>7. CharToHex(c) = <<Percent, h, l>>
    BY DEF CharToHex, h, l
  <1>. QED BY <1>2, <1>5, <1>6, <1>7 DEF Encodes, s, h, l

LEMMA ByteNat == ASSUME NEW c \in Byte PROVE c \in Nat
  BY DEF Byte

LEMMA UnreservedPlain == ASSUME NEW c \in Unreserved PROVE c \notin {Percent, Plus}
  BY DEF Unreserved, Digits, UpperCase, LowerCase, Percent, Plus

LEMMA DecodeEncodeBytes ==
  ASSUME NEW s \in Seq(Byte)
  PROVE  UriDecode(UriEncode(s)) = s
  <1>. DEFINE n == Len(s)
              texts == [i \in DOMAIN s |-> IF s[i] \in Unreserved THEN <<s[i]>> ELSE CharToHex(s[i])]
  <1>1. n \in Nat /\ DOMAIN s = 1..n /\ UriEncode(s) = FlattenSeq(texts)
    BY DEF UriEncode
  <1>2. ASSUME NEW i \in 1..n PROVE texts[i] \in Seq(Nat) /\ Encodes(texts[i], s[i]) /\ s[i] \in Nat
    <2>0. s[i] \in Byte /\ s[i] \in Nat
      <3>1. s[i] \in Byte
        BY <1>1
      <3>. QED BY <3>1, ByteNat
    <2>1. CASE s[i] \in Unreserved
      <3>1. texts[i] = <<s[i]>>
        BY <1>1, <2>1
      <3>2. s[i] \notin {Percent, Plus}
        BY <2>1, UnreservedPlain
      <3>3. <<s[i]>> \in Seq(Nat)
        BY <2>0
      <3>. QED BY <2>0, <3>1, <3>2, <3>3 DEF Encodes
    <2>2. CASE s[i] \notin Unreserved
      <3>1. texts[i] = CharToHex(s[i])
        BY <1>1, <2>2
      <3>. QED BY <2>0, <3>1, HexRoundTrip
    <2>. QED BY <2>1, <2>2
  <1>3. texts \in Seq(Seq(Nat)) /\ Len(texts) = n
    <2>1. texts = [i \in 1..n |-> texts[i]]
      BY <1>1
    <2>. HIDE DEF texts
    <2>2. \A i \in 1..n : texts[i] \in Seq(Nat)
      BY <1>2
    <2>. QED BY <1>1, <2>1, <2>2, SeqDef
  <1>. HIDE DEF texts
  <1>4. PICK g : Joins(g, n, Nat, texts) /\ FlattenSeq(texts) = g[n]
    BY <1>3, Flattened
  <1>5. s \in Seq(Nat)
    <2>1. s = [i \in 1..n |-> s[i]]
      BY <1>1
    <2>. QED BY <1>1, <1>2, <2>1, SeqDef
  <1>6. UriDecode(g[n]) = s
    BY <1>2, <1>4, <1>5, DecodesTexts
  <1>. QED BY <1>1, <1>4, <1>6

-----------------------------------------------------------------------------
(* The client reads the response *)

LEMMA PairIs ==
  ASSUME NEW text \in Seq(Nat), NEW j \in 1..(Len(text) - 1)
  PROVE  SubSeq(text, j, j + 1) = CRLF <=> text[j] = CR /\ text[j + 1] = LF
  <1>. DEFINE u == SubSeq(text, j, j + 1)
              k == j + 1
  <1>1. Len(text) \in Nat /\ j \in 1..(Len(text) + 1) /\ k \in (j - 1)..Len(text) /\ k - j + 1 = 2
        /\ 1 \in 1..2 /\ 2 \in 1..2 /\ j + 1 - 1 = j /\ j + 2 - 1 = j + 1
    OBVIOUS
  <1>2. u \in Seq(Nat) /\ Len(u) = 2 /\ \A i \in 1..2 : u[i] = text[j + i - 1]
    <2>. HIDE DEF k
    <2>1. /\ SubSeq(text, j, k) \in Seq(Nat) /\ Len(SubSeq(text, j, k)) = 2
          /\ \A i \in 1..2 : SubSeq(text, j, k)[i] = text[j + i - 1]
      BY <1>1, Part
    <2>. QED BY <2>1 DEF k
  <1>. HIDE DEF u
  <1>3. u[1] = text[j] /\ u[2] = text[j + 1]
    BY <1>1, <1>2
  <1>4. u = CRLF <=> u[1] = CR /\ u[2] = LF
    BY <1>2 DEF CRLF
  <1>. QED BY <1>3, <1>4 DEF u

\* A line ends where its line end stands: the characters before have none.
LEMMA LineEndAt ==
  ASSUME NEW text \in Seq(Nat), NEW p, NEW l \in Seq(Nat), Free(l, {LF}),
         Stands(text, p, l), Stands(text, p + Len(l), CRLF)
  PROVE  LineEnds(text, p + 1) # {} /\ Lowest(LineEnds(text, p + 1)) = p + Len(l) + 1
  <1>. DEFINE S == LineEnds(text, p + 1)
              n == Len(text)
              a == Len(l)
              e == p + a + 1
  <1>1. p \in Nat /\ n \in Nat /\ a \in Nat /\ \A j \in 1..a : text[p + j] = l[j] /\ l[j] # LF
    BY SMTT(30) DEF Stands, Free
  <1>2. p + a + 2 <= n /\ text[p + a + 1] = CR /\ text[p + a + 2] = LF
    <2>1. Len(CRLF) = 2 /\ CRLF[1] = CR /\ CRLF[2] = LF /\ 1 \in 1..2 /\ 2 \in 1..2
      BY DEF CRLF
    <2>. QED BY <2>1 DEF Stands
  <1>3. \A j \in S : j \in (p + 1)..(n - 1) /\ text[j + 1] = LF
    <2>. SUFFICES ASSUME NEW j \in S PROVE j \in (p + 1)..(n - 1) /\ text[j + 1] = LF
      OBVIOUS
    <2>1. j \in (p + 1)..(n - 1) /\ SubSeq(text, j, j + 1) = CRLF
      BY DEF LineEnds
    <2>2. j \in 1..(n - 1)
      BY <1>1, <2>1
    <2>. QED BY <2>1, <2>2, PairIs
  <1>. HIDE DEF n, a
  <1>4. e \in S
    <2>1. e \in (p + 1)..(n - 1) /\ e \in 1..(n - 1) /\ e + 1 = p + a + 2
      BY <1>1, <1>2
    <2>2. SubSeq(text, e, e + 1) = CRLF
      <3>. HIDE DEF e
      <3>1. text[e] = CR /\ text[e + 1] = LF
        BY <1>2, <2>1 DEF e
      <3>. QED BY <2>1, <3>1, PairIs DEF n
    <2>. QED BY <2>1, <2>2 DEF LineEnds, n
  <1>5. ASSUME NEW j \in S PROVE e <= j
    <2>1. j \in (p + 1)..(n - 1) /\ text[j + 1] = LF
      BY <1>3
    <2>2. ASSUME j < e PROVE FALSE
      <3>. DEFINE d == j + 1 - p
      <3>1. d \in 1..(a + 1) /\ p + d = j + 1
        BY <1>1, <2>1, <2>2
      <3>2. CASE d \in 1..a
        BY <1>1, <2>1, <3>1, <3>2
      <3>3. CASE d = a + 1
        <4>0. p + a + 1 = j + 1
          BY <1>1, <2>1, <3>3
        <4>1. text[p + a + 1] = LF
          BY <2>1, <4>0
        <4>. QED BY <1>2, <4>1 DEF CR, LF
      <3>. QED BY <1>1, <3>1, <3>2, <3>3
    <2>. QED BY <1>1, <2>1, <2>2
  <1>6. S \in SUBSET Int
    BY <1>1, <1>3
  <1>7. Lowest(S) = e
    <2>. HIDE DEF S, e
    <2>. QED BY <1>4, <1>5, <1>6, LowestIs
  <1>. QED BY <1>4, <1>7 DEF a

\* The lines one after the other.
Following(f, text) ==
    f = [i \in 1..(Len(text) + 1) |->
          IF LineEnds(text, i) = {} \/ Lowest(LineEnds(text, i)) = i THEN <<i>>
          ELSE <<i>> \o f[Lowest(LineEnds(text, i)) + 2]]

LEMMA Followed ==
  ASSUME NEW text \in Seq(Nat)
  PROVE  \E f : Following(f, text) /\ LineStarts(text) = f[1]
  <1>. DEFINE n == Len(text) + 1
              piece == [i \in 1..n |-> <<i>>]
              End(i) == LineEnds(text, i) = {} \/ Lowest(LineEnds(text, i)) = i
              next == [i \in 1..n |-> IF End(i) THEN 0 ELSE Lowest(LineEnds(text, i)) + 2]
  <1>1. n \in Nat /\ Len(text) \in Nat /\ n = Len(text) + 1
    OBVIOUS
  <1>2. ASSUME NEW i \in 1..n
        PROVE  /\ End(i) => next[i] = 0
               /\ ~End(i) => next[i] = Lowest(LineEnds(text, i)) + 2 /\ next[i] \in (i + 1)..n
    <2>1. CASE End(i)
      BY <2>1
    <2>2. CASE ~End(i)
      <3>1. LineEnds(text, i) \in SUBSET Nat /\ LineEnds(text, i) # {}
            /\ \A j \in LineEnds(text, i) : j \in i..(Len(text) - 1)
        <4>1. LineEnds(text, i) # {}
          BY <2>2
        <4>2. LineEnds(text, i) \subseteq i..(Len(text) - 1)
          BY DEF LineEnds
        <4>3. i..(Len(text) - 1) \subseteq Nat
          BY <1>1
        <4>. QED BY <4>1, <4>2, <4>3
      <3>2. Lowest(LineEnds(text, i)) \in i..(Len(text) - 1)
        BY <3>1, LowestExists
      <3>. DEFINE e == Lowest(LineEnds(text, i))
      <3>3. next[i] = e + 2
        BY <2>2
      <3>. HIDE DEF e
      <3>4. e + 2 \in (i + 1)..n
        BY <1>1, <3>2 DEF e
      <3>. QED BY <2>2, <3>3, <3>4 DEF e
    <2>. QED BY <2>1, <2>2
  <1>3. next = [i \in 1..n |-> next[i]] /\ \A i \in 1..n : piece[i] = <<i>>
    OBVIOUS
  <1>. HIDE DEF n, piece, next, End
  <1>4. \A i \in 1..n : next[i] \in 0..n /\ (next[i] = 0 \/ next[i] > i) /\ (next[i] = 0 <=> End(i))
    BY <1>1, <1>2
  <1>5. next \in [1..n -> 0..n]
    BY <1>3, <1>4
  <1>6. PICK f : Chain(f, n, piece, next)
    BY <1>1, <1>4, <1>5, ChainExists
  <1>7. Following(f, text)
    <2>1. f = [i \in 1..n |-> IF next[i] = 0 THEN piece[i] ELSE piece[i] \o f[next[i]]]
      BY <1>6 DEF Chain, ChainFrom
    <2>2. ASSUME NEW i \in 1..n
          PROVE  f[i] = IF End(i) THEN <<i>> ELSE <<i>> \o f[Lowest(LineEnds(text, i)) + 2]
      BY <1>2, <1>3, <1>4, <2>1
    <2>3. f = [i \in 1..n |-> f[i]]
      BY <2>1
    <2>4. f = [i \in 1..n |-> IF End(i) THEN <<i>> ELSE <<i>> \o f[Lowest(LineEnds(text, i)) + 2]]
      BY <2>2, <2>3
    <2>. QED BY <2>4 DEF Following, End, n
  <1>8. PICK g : Following(g, text) /\ g = CHOOSE h : Following(h, text)
    BY <1>7
  <1>9. LineStarts(text) = (CHOOSE h : Following(h, text))[1]
    BY DEF LineStarts, Following
  <1>. QED BY <1>8, <1>9

LEMMA SubSeqOne ==
  ASSUME NEW A, NEW s \in Seq(A), NEW i \in 1..Len(s)
  PROVE  SubSeq(s, i, i) = <<s[i]>>
  <1>. DEFINE u == SubSeq(s, i, i)
  <1>1. i \in 1..(Len(s) + 1) /\ i \in (i - 1)..Len(s) /\ i - i + 1 = 1 /\ 1 \in 1..1 /\ i + 1 - 1 = i
    OBVIOUS
  <1>2. u \in Seq(A) /\ Len(u) = 1 /\ \A k \in 1..1 : u[k] = s[i + k - 1]
    BY <1>1, Part
  <1>. HIDE DEF u
  <1>3. u[1] = s[i]
    BY <1>1, <1>2
  <1>4. u = <<s[i]>>
    BY <1>2, <1>3
  <1>. QED BY <1>4 DEF u

\* A head of n + 1 lines, an empty line and a body: line k stands behind at[k].
Layout(text, n, l, at, body) ==
    /\ n \in Nat /\ l \in [0..n -> Seq(Nat)] /\ at \in [0..(n + 1) -> Nat] /\ at[0] = 0
    /\ \A k \in 0..n : /\ Stands(text, at[k], l[k]) /\ Stands(text, at[k] + Len(l[k]), CRLF)
                       /\ Free(l[k], {LF}) /\ l[k] # <<>> /\ at[k + 1] = at[k] + Len(l[k]) + 2
    /\ Stands(text, at[n + 1], CRLF) /\ Stands(text, at[n + 1] + 2, body)
    /\ Len(text) = at[n + 1] + 2 + Len(body)

\* The client finds the beginning of every line of the head.
LEMMA LayoutStarts ==
  ASSUME NEW text \in Seq(Nat), NEW n, NEW l, NEW at, NEW body, Layout(text, n, l, at, body)
  PROVE  LineStarts(text) = [k \in 1..(n + 2) |-> at[k - 1] + 1]
  <1>. DEFINE s == [k \in 1..(n + 2) |-> at[k - 1] + 1]
              place == [k \in 0..(n + 1) |-> at[k] + 1]
              m == n + 1
  <1>0. n \in Nat /\ at \in [0..m -> Nat] /\ at[0] = 0
    BY DEF Layout
  <1>1. n \in Nat /\ at \in [0..m -> Nat] /\ at[0] = 0 /\ m \in Nat /\ m \in 0..m /\ n + 2 = m + 1
    <2>1. m \in Nat /\ m \in 0..m /\ n + 2 = m + 1
      BY <1>0
    <2>. QED BY <1>0, <2>1
  <1>2. s \in Seq(Nat) /\ Len(s) = n + 2 /\ s = [k \in 1..(n + 2) |-> s[k]]
    <2>1. \A k \in 1..(n + 2) : k - 1 \in 0..m
      BY <1>1
    <2>2. \A k \in 1..(n + 2) : s[k] \in Nat
      BY <1>1, <2>1
    <2>. QED BY <1>1, <2>2, SeqDef
  <1>3. \A k \in 0..m : place[k] = at[k] + 1 /\ (k # 0 => s[k] = at[k - 1] + 1)
    BY <1>1
  <1>4. s[m + 1] = at[m] + 1
    <2>. DEFINE i == m + 1
    <2>1. i \in 1..(n + 2) /\ i - 1 = m
      BY <1>1
    <2>2. \A k \in 1..(n + 2) : s[k] = at[k - 1] + 1
      OBVIOUS
    <2>. HIDE DEF i, s
    <2>3. s[i] = at[m] + 1
      BY <2>1, <2>2
    <2>. QED BY <2>3 DEF i
  <1>. HIDE DEF s, place
  <1>5. PICK f : Following(f, text) /\ LineStarts(text) = f[1]
    BY Followed
  <1>6. ASSUME NEW p \in Nat, NEW t \in Seq(Nat), Free(t, {LF}), Stands(text, p, t),
               Stands(text, p + Len(t), CRLF)
        PROVE  f[p + 1] = IF t = <<>> THEN <<p + 1>> ELSE <<p + 1>> \o f[p + Len(t) + 2 + 1]
    <2>. DEFINE E == LineEnds(text, p + 1)
                e == p + Len(t) + 1
    <2>1. E # {} /\ Lowest(E) = e
      BY <1>6, LineEndAt
    <2>2. Len(text) \in Nat /\ Len(t) \in Nat /\ p + Len(t) + 2 <= Len(text)
      <3>1. Len(CRLF) = 2
        BY DEF CRLF
      <3>. QED BY <1>6, <3>1 DEF Stands
    <2>3. p + 1 \in 1..(Len(text) + 1) /\ e + 2 = p + Len(t) + 2 + 1 /\ (e = p + 1 <=> Len(t) = 0)
          /\ (Len(t) = 0 <=> t = <<>>)
      BY <2>2
    <2>4. f[p + 1] = IF E = {} \/ Lowest(E) = p + 1 THEN <<p + 1>> ELSE <<p + 1>> \o f[Lowest(E) + 2]
      BY <1>5, <2>3 DEF Following
    <2>. HIDE DEF E, e
    <2>. QED BY <2>1, <2>3, <2>4
  <1>7. ASSUME NEW k \in 1..m PROVE f[place[k - 1]] = <<s[k]>> \o f[place[k]]
    <2>. DEFINE j == k - 1
    <2>1. j \in 0..n /\ j \in 0..m /\ k \in 0..m /\ k # 0 /\ k = j + 1
      BY <1>1
    <2>. HIDE DEF j
    <2>2. /\ l[j] \in Seq(Nat) /\ at[j] \in Nat /\ Stands(text, at[j], l[j])
          /\ Stands(text, at[j] + Len(l[j]), CRLF)
          /\ Free(l[j], {LF}) /\ l[j] # <<>> /\ at[k] = at[j] + Len(l[j]) + 2
      BY <2>1 DEF Layout
    <2>. DEFINE t == l[j]
                p == at[j]
    <2>3. t \in Seq(Nat) /\ p \in Nat /\ Stands(text, p, t) /\ Stands(text, p + Len(t), CRLF)
          /\ Free(t, {LF}) /\ t # <<>> /\ at[k] = p + Len(t) + 2
      BY <2>2
    <2>. HIDE DEF t, p
    <2>4. f[p + 1] = <<p + 1>> \o f[p + Len(t) + 2 + 1]
      BY <1>6, <2>3
    <2>5. place[j] = p + 1 /\ place[k] = p + Len(t) + 2 + 1 /\ s[k] = p + 1
      BY <1>3, <2>1, <2>3 DEF p, j
    <2>. QED BY <2>4, <2>5 DEF j
  <1>8. f[place[m]] = SubSeq(s, m + 1, Len(s))
    <2>. DEFINE p == at[m]
    <2>1. p \in Nat /\ Stands(text, p, CRLF)
      BY <1>1 DEF Layout
    <2>2. <<>> \in Seq(Nat) /\ Len(<<>>) = 0 /\ p + 0 = p /\ Free(<<>>, {LF})
      BY <2>1 DEF Free
    <2>3. Stands(text, p, <<>>)
      BY <2>1, <2>2 DEF Stands
    <2>4. f[p + 1] = <<p + 1>>
      <3>. HIDE DEF p
      <3>. DEFINE t == <<>>
      <3>1. t \in Seq(Nat) /\ Free(t, {LF}) /\ Stands(text, p, t) /\ Stands(text, p + Len(t), CRLF)
        BY <2>1, <2>2, <2>3
      <3>2. t = <<>>
        OBVIOUS
      <3>. HIDE DEF t
      <3>. QED BY <1>6, <2>1, <3>1, <3>2
    <2>5. SubSeq(s, m + 1, m + 1) = <<s[m + 1]>>
      <3>1. m + 1 \in 1..Len(s)
        BY <1>1, <1>2
      <3>. QED BY <1>2, <3>1, SubSeqOne
    <2>6. place[m] = p + 1 /\ Len(s) = m + 1
      BY <1>1, <1>2, <1>3
    <2>. QED BY <1>4, <2>4, <2>5, <2>6
  <1>9. Spells(f, place, m, s)
    <2>1. m \in 0..Len(s)
      BY <1>1, <1>2
    <2>. HIDE DEF m
    <2>. QED BY <1>7, <1>8, <2>1 DEF Spells
  <1>10. f[place[0]] = s
    BY <1>2, <1>9, ChainSpells
  <1>11. place[0] = 1
    BY <1>1, <1>3
  <1>. QED BY <1>5, <1>10, <1>11 DEF s

\* The orders of an unordered_map name each header once.
Covers(order, S, n) ==
    /\ n \in Nat /\ order \in [1..n -> S]
    /\ \A i, j \in 1..n : order[i] = order[j] => i = j
    /\ \A x \in S : \E i \in 1..n : order[i] = x

LEMMA OrderCovers ==
  ASSUME NEW S, IsFiniteSet(S), NEW order \in SetToSeqs(S)
  PROVE  Covers(order, S, Cardinality(S))
  <1>. DEFINE n == Cardinality(S)
  <1>1. n \in Nat
    BY FS_CardinalityType
  <1>2. order \in [1..n -> S] /\ \A i, j \in 1..n : i # j => order[i] # order[j]
    BY DEF SetToSeqs
  <1>3. order \in Injection(1..n, S)
    BY <1>2 DEF Injection, IsInjective
  <1>4. Cardinality(1..n) = n
    <2>1. 1 \in Int /\ n \in Int /\ ~(1 > n) => n - 1 + 1 = n
      BY <1>1
    <2>. HIDE DEF n
    <2>2. Cardinality(1..n) = IF 1 > n THEN 0 ELSE n - 1 + 1
      BY <1>1, FS_Interval
    <2>. QED BY <1>1, <2>2
  <1>5. order \in Surjection(1..n, S)
    <2>. HIDE DEF n
    <2>1. Cardinality(1..n) = Cardinality(S)
      BY <1>4 DEF n
    <2>. QED BY <1>3, <2>1, FS_Injection
  <1>6. \A x \in S : \E i \in 1..n : order[i] = x
    BY <1>5 DEF Surjection
  <1>. QED BY <1>1, <1>2, <1>6 DEF Covers

IsHeaders(h) == /\ IsFiniteSet(DOMAIN h) /\ DOMAIN h \subseteq Nat \ {LF}
                /\ h \in [DOMAIN h -> Seq(Nat \ {LF})]
IsResponse(r) ==
    /\ r = [status_code_ |-> r.status_code_, response_headers_ |-> r.response_headers_,
            response_body_ |-> r.response_body_]
    /\ r.status_code_ \in Nat \ {LF} /\ IsHeaders(r.response_headers_)
    /\ r.response_body_ \in Seq(Nat)

\* The lines generate_response writes.
StatusText(r) == <<VERSION, r.status_code_>> \o get_status_word(r.status_code_)
HeaderText(r, name) == <<name>> \o <<Colon, SP>> \o r.response_headers_[name]

\* A header's line: its name, and its value from the fourth character on.
LEMMA HeaderTextIs ==
  ASSUME NEW r, IsResponse(r), NEW name \in DOMAIN r.response_headers_
  PROVE  /\ HeaderText(r, name) \in Seq(Nat) /\ Free(HeaderText(r, name), {LF})
         /\ HeaderText(r, name) # <<>> /\ HeaderText(r, name)[1] = name
         /\ r.response_headers_[name] \in Seq(Nat)
         /\ Len(HeaderText(r, name)) = 3 + Len(r.response_headers_[name])
         /\ Stands(HeaderText(r, name), 3, r.response_headers_[name])
  <1>. DEFINE v == r.response_headers_[name]
              N == Nat \ {LF}
              t == HeaderText(r, name)
              a == <<name>> \o <<Colon, SP>>
  <1>1. v \in Seq(N) /\ name \in N
    BY DEF IsResponse, IsHeaders
  <1>2. Colon \in N /\ SP \in N
    BY DEF Colon, SP, LF
  <1>3. a \in Seq(N) /\ Len(a) = 3 /\ a[1] = name
    BY <1>1, <1>2
  <1>4. t = a \o v
    BY DEF HeaderText
  <1>. HIDE DEF a, v, t, N
  <1>5. /\ t \in Seq(N) /\ Len(t) = 3 + Len(v) /\ Stands(t, 0, a) /\ Stands(t, 3, v)
    BY <1>1, <1>3, <1>4, StandsConcat
  <1>6. t[1] = name
    <2>1. 1 \in 1..3 /\ 0 + 1 = 1
      OBVIOUS
    <2>. QED BY <1>3, <1>5, <2>1 DEF Stands
  <1>7. t # <<>> /\ Len(v) \in Nat
    BY <1>1, <1>5
  <1>8. t \in Seq(Nat) /\ v \in Seq(Nat)
    BY <1>1, <1>5, SeqMonotonic DEF N
  <1>9. Free(t, {LF})
    <2>1. \A i \in DOMAIN t : t[i] \in N
      BY <1>5
    <2>. QED BY <2>1 DEF Free, N
  <1>. QED BY <1>5, <1>6, <1>7, <1>8, <1>9 DEF t, v

LEMMA StatusTextIs ==
  ASSUME NEW r, IsResponse(r)
  PROVE  /\ StatusText(r) \in Seq(Nat) /\ Free(StatusText(r), {LF}) /\ StatusText(r) # <<>>
         /\ Len(StatusText(r)) >= 2 /\ StatusText(r)[2] = r.status_code_
  <1>. DEFINE c == r.status_code_
              N == Nat \ {LF}
              w == get_status_word(c)
              a == <<VERSION, c>>
              t == StatusText(r)
  <1>1. c \in N /\ VERSION \in N /\ words \in N
    BY DEF IsResponse, VERSION, words, LF
  <1>2. w \in Seq(N)
    <2>1. <<words>> \in Seq(N) /\ <<>> \in Seq(N)
      BY <1>1
    <2>2. w = <<words>> \/ w = <<>>
      BY DEF get_status_word
    <2>. QED BY <2>1, <2>2
  <1>3. a \in Seq(N) /\ Len(a) = 2 /\ a[2] = c
    BY <1>1
  <1>4. t = a \o w
    BY DEF StatusText
  <1>. HIDE DEF c, a, w, t, N
  <1>5. t \in Seq(N) /\ Len(t) = 2 + Len(w) /\ Stands(t, 0, a)
    BY <1>2, <1>3, <1>4, StandsConcat
  <1>6. t[2] = c
    <2>1. 2 \in 1..2 /\ 0 + 2 = 2
      OBVIOUS
    <2>. QED BY <1>3, <1>5, <2>1 DEF Stands
  <1>7. t # <<>> /\ Len(t) >= 2
    BY <1>2, <1>5
  <1>8. t \in Seq(Nat)
    BY <1>5, SeqMonotonic DEF N
  <1>9. Free(t, {LF})
    <2>1. \A i \in DOMAIN t : t[i] \in N
      BY <1>5
    <2>. QED BY <2>1 DEF Free, N
  <1>. QED BY <1>6, <1>7, <1>8, <1>9 DEF t, c

\* What generate_response writes has this layout.
Laid(text, r, order, n, l, at) ==
    /\ Layout(text, n, l, at, r.response_body_)
    /\ l[0] = StatusText(r) /\ \A k \in 1..n : l[k] = HeaderText(r, order[k])
LEMMA GeneratedLayout ==
  ASSUME NEW r, IsResponse(r), NEW n, NEW order, Covers(order, DOMAIN r.response_headers_, n),
         NEW text, text = generate_status_line(r) \o generate_header_lines(r, order) \o r.response_body_
  PROVE  /\ text \in Seq(Nat)
         /\ \E l, at : Laid(text, r, order, n, l, at)
  <1>. DEFINE D == DOMAIN r.response_headers_
              body == r.response_body_
              HeadOf(k) == HeaderText(r, order[k])
              s0 == StatusText(r)
              sl == s0 \o CRLF
              texts == [i \in 1..n |-> HeadOf(i) \o CRLF]
  <1>1. n \in Nat /\ order \in [1..n -> D] /\ DOMAIN order = 1..n
    BY DEF Covers
  <1>2. CRLF \in Seq(Nat) /\ Len(CRLF) = 2
    BY DEF CRLF, CR, LF
  <1>3. body \in Seq(Nat)
    BY DEF IsResponse
  <1>4. s0 \in Seq(Nat) /\ Free(s0, {LF}) /\ s0 # <<>>
    BY StatusTextIs
  <1>5. ASSUME NEW k \in 1..n
        PROVE  /\ HeadOf(k) \in Seq(Nat) /\ Free(HeadOf(k), {LF}) /\ HeadOf(k) # <<>>
               /\ texts[k] = HeadOf(k) \o CRLF /\ texts[k] \in Seq(Nat)
    <2>1. order[k] \in D
      BY <1>1
    <2>2. HeadOf(k) \in Seq(Nat) /\ Free(HeadOf(k), {LF}) /\ HeadOf(k) # <<>>
      BY <2>1, HeaderTextIs
    <2>3. texts[k] = HeadOf(k) \o CRLF
      OBVIOUS
    <2>. HIDE DEF HeadOf
    <2>4. HeadOf(k) \o CRLF \in Seq(Nat)
      BY <1>2, <2>2, StandsConcat
    <2>. QED BY <2>2, <2>3, <2>4
  <1>6. texts \in Seq(Seq(Nat)) /\ Len(texts) = n
    <2>1. texts = [i \in 1..n |-> texts[i]]
      OBVIOUS
    <2>. HIDE DEF texts, HeadOf
    <2>2. texts \in [1..n -> Seq(Nat)]
      BY <1>5, <2>1
    <2>. QED BY <1>1, <2>2, SeqDef
  <1>7. generate_header_lines(r, order) = FlattenSeq(texts) \o CRLF
    BY <1>1 DEF generate_header_lines, HeaderText
  <1>8. generate_status_line(r) = sl
    BY DEF generate_status_line, StatusText
  <1>. HIDE DEF D, body, HeadOf, s0, texts
  <1>9. PICK g : Joins(g, n, Nat, texts) /\ FlattenSeq(texts) = g[n]
    BY <1>6, Flattened
  <1>10. g[0] = <<>> /\ \A k \in 0..n : g[k] \in Seq(Nat)
    BY <1>9 DEF Joins
  <1>. DEFINE G == g[n]
              hl == G \o CRLF
              sh == sl \o hl
  <1>11. G \in Seq(Nat)
    BY <1>1, <1>10
  <1>12. text = sh \o body
    BY <1>7, <1>8, <1>9 DEF body
  <1>. HIDE DEF G
  <1>13. sl \in Seq(Nat) /\ Len(sl) = Len(s0) + 2 /\ Stands(sl, 0, s0) /\ Stands(sl, Len(s0), CRLF)
    BY <1>2, <1>4, StandsConcat
  <1>14. hl \in Seq(Nat) /\ Len(hl) = Len(G) + 2 /\ Stands(hl, 0, G) /\ Stands(hl, Len(G), CRLF)
    BY <1>2, <1>11, StandsConcat
  <1>. HIDE DEF sl, hl
  <1>15. sh \in Seq(Nat) /\ Len(sh) = Len(sl) + Len(hl) /\ Stands(sh, 0, sl) /\ Stands(sh, Len(sl), hl)
    BY <1>13, <1>14, StandsConcat
  <1>. HIDE DEF sh
  <1>16. /\ text \in Seq(Nat) /\ Len(text) = Len(sh) + Len(body)
         /\ Stands(text, 0, sh) /\ Stands(text, Len(sh), body)
    <2>1. /\ sh \o body \in Seq(Nat) /\ Len(sh \o body) = Len(sh) + Len(body)
          /\ Stands(sh \o body, 0, sh) /\ Stands(sh \o body, Len(sh), body)
      BY <1>3, <1>15, StandsConcat
    <2>. QED BY <1>12, <2>1
  <1>. DEFINE a == Len(s0)
              b == a + 2
              c == Len(G)
  <1>17. a \in Nat /\ b \in Nat /\ c \in Nat /\ Len(sl) = b /\ Len(hl) = c + 2 /\ Len(sh) = b + (c + 2)
    BY <1>4, <1>11, <1>13, <1>14, <1>15, SMTT(30)
  <1>18. Stands(text, 0, s0) /\ Stands(text, a, CRLF)
    <2>1. Stands(text, 0 + 0, sl)
      BY <1>15, <1>16, StandsTrans
    <2>2. 0 + 0 = 0 /\ 0 + a = a
      BY <1>17
    <2>3. Stands(text, 0, sl)
      BY <2>1, <2>2
    <2>4. Stands(text, 0 + 0, s0) /\ Stands(text, 0 + a, CRLF)
      BY <1>13, <2>3, StandsTrans
    <2>. QED BY <2>2, <2>4
  <1>. HIDE DEF a, b, c
  <1>19. Stands(text, b, G) /\ Stands(text, b + c, CRLF)
    <2>1. Stands(sh, b, hl)
      BY <1>15, <1>17
    <2>2. Stands(text, 0 + b, hl)
      BY <1>16, <2>1, StandsTrans
    <2>3. 0 + b = b /\ b + 0 = b
      BY <1>17
    <2>4. Stands(text, b, hl)
      BY <2>2, <2>3
    <2>5. Stands(text, b + 0, G) /\ Stands(text, b + c, CRLF)
      BY <1>14, <2>4, StandsTrans DEF c
    <2>. QED BY <2>3, <2>5
  <1>. DEFINE l == [k \in 0..n |-> IF k = 0 THEN s0 ELSE HeadOf(k)]
              at == [k \in 0..(n + 1) |-> IF k = 0 THEN 0 ELSE b + Len(g[k - 1])]
  <1>20. l \in [0..n -> Seq(Nat)] /\ l[0] = s0 /\ \A k \in 1..n : l[k] = HeadOf(k)
    BY <1>1, <1>4, <1>5
  <1>21. /\ at \in [0..(n + 1) -> Nat] /\ at[0] = 0 /\ at[1] = b
         /\ \A k \in 1..(n + 1) : at[k] = b + Len(g[k - 1])
    <2>1. ASSUME NEW k \in 1..(n + 1) PROVE b + Len(g[k - 1]) \in Nat /\ at[k] = b + Len(g[k - 1])
      <3>1. k - 1 \in 0..n
        BY <1>1
      <3>2. Len(g[k - 1]) \in Nat
        BY <1>10, <3>1
      <3>. QED BY <1>17, <3>2
    <2>2. at[0] = 0 /\ 0 \in 0..(n + 1)
      BY <1>1
    <2>3. at \in [0..(n + 1) -> Nat]
      <3>1. at = [k \in 0..(n + 1) |-> at[k]] /\ \A k \in 0..(n + 1) : k = 0 \/ k \in 1..(n + 1)
        BY <1>1
      <3>. HIDE DEF at
      <3>2. ASSUME NEW k \in 0..(n + 1) PROVE at[k] \in Nat
        <4>1. CASE k = 0
          BY <2>2, <4>1
        <4>2. CASE k \in 1..(n + 1)
          BY <2>1, <4>2
        <4>. QED BY <3>1, <4>1, <4>2
      <3>. QED BY <3>1, <3>2
    <2>4. at[1] = b
      <3>1. 1 \in 1..(n + 1) /\ 1 - 1 = 0 /\ Len(g[0]) = 0
        BY <1>1, <1>10
      <3>2. at[1] = b + Len(g[0])
        BY <2>1, <3>1
      <3>. QED BY <1>17, <3>1, <3>2
    <2>. QED BY <2>1, <2>2, <2>3, <2>4
  <1>. HIDE DEF l, at
  <1>22. ASSUME NEW k \in 0..n
         PROVE  /\ Stands(text, at[k], l[k]) /\ Stands(text, at[k] + Len(l[k]), CRLF)
                /\ Free(l[k], {LF}) /\ l[k] # <<>> /\ at[k + 1] = at[k] + Len(l[k]) + 2
    <2>1. CASE k = 0
      <3>1. at[k] = 0 /\ l[k] = s0 /\ at[k + 1] = a + 2 /\ 0 + a = a /\ Len(s0) = a
        BY <1>17, <1>20, <1>21, <2>1 DEF a, b
      <3>. QED BY <1>4, <1>18, <3>1
    <2>2. CASE k # 0
      <3>1. k \in 1..n /\ k \in 1..(n + 1) /\ k + 1 \in 1..(n + 1) /\ k + 1 - 1 = k /\ n \in 1..n
        BY <1>1, <2>2
      <3>2. PieceOf(g, n, k, Nat, texts)
        BY <1>1, <1>9, <3>1, JoinsPiece
      <3>. DEFINE q == Len(g[k - 1])
                  t == texts[k]
                  h == HeadOf(k)
      <3>3. Stands(G, q, t) /\ Len(g[k]) = q + Len(t) /\ q \in Nat /\ g[k - 1] \in Seq(Nat)
        BY <3>2 DEF PieceOf, G, Stands
      <3>4. h \in Seq(Nat) /\ Free(h, {LF}) /\ h # <<>> /\ t = h \o CRLF /\ l[k] = h
        BY <1>5, <1>20, <3>1
      <3>5. at[k] = b + q /\ at[k + 1] = b + Len(g[k])
        <4>. DEFINE j == k + 1
        <4>1. j \in 1..(n + 1) /\ j - 1 = k
          BY <3>1
        <4>. HIDE DEF j
        <4>2. at[j] = b + Len(g[k])
          BY <1>21, <4>1
        <4>. QED BY <1>21, <3>1, <4>2 DEF j
      <3>. HIDE DEF q, t, h
      <3>6. Len(t) = Len(h) + 2 /\ Stands(t, 0, h) /\ Stands(t, Len(h), CRLF) /\ Len(h) \in Nat
        <4>1. /\ Len(h \o CRLF) = Len(h) + Len(CRLF) /\ Stands(h \o CRLF, 0, h)
              /\ Stands(h \o CRLF, Len(h), CRLF)
          BY <1>2, <3>4, StandsConcat
        <4>. QED BY <1>2, <3>4, <4>1
      <3>7. Stands(text, b + q, t)
        BY <1>19, <3>3, StandsTrans
      <3>8. Stands(text, b + q + 0, h) /\ Stands(text, b + q + Len(h), CRLF)
        <4>. DEFINE w == b + q
        <4>. HIDE DEF w
        <4>1. Stands(text, w + 0, h) /\ Stands(text, w + Len(h), CRLF)
          BY <3>6, <3>7, StandsTrans DEF w
        <4>. QED BY <4>1 DEF w
      <3>9. b + q + 0 = b + q /\ b + (q + (Len(h) + 2)) = b + q + Len(h) + 2
        BY <1>17, <3>3, <3>6
      <3>. QED BY <3>3, <3>4, <3>5, <3>6, <3>8, <3>9
    <2>. QED BY <2>1, <2>2
  <1>23. at[n + 1] = b + c
    <2>. DEFINE j == n + 1
    <2>1. j \in 1..(n + 1) /\ j - 1 = n
      BY <1>1
    <2>. HIDE DEF j
    <2>2. at[j] = b + c
      BY <1>21, <2>1 DEF c, G
    <2>. QED BY <2>2 DEF j
  <1>24. Layout(text, n, l, at, body)
    <2>1. b + c + 2 = b + (c + 2)
      BY <1>17
    <2>. QED BY <1>1, <1>16, <1>17, <1>19, <1>20, <1>21, <1>22, <1>23, <2>1 DEF Layout
  <1>25. Laid(text, r, order, n, l, at)
    BY <1>20, <1>24 DEF Laid, body, s0, HeadOf
  <1>. QED BY <1>16, <1>25

\* The client reads what generate_response was given.
LEMMA ReadGenerated ==
  ASSUME NEW r, IsResponse(r), NEW text \in generate_response(r)
  PROVE  Read(text) = r
  <1>. DEFINE h == r.response_headers_
              D == DOMAIN h
              body == r.response_body_
  <1>1. PICK order \in SetToSeqs(D) :
            text = generate_status_line(r) \o generate_header_lines(r, order) \o r.response_body_
    BY DEF generate_response
  <1>2. IsFiniteSet(D) /\ body \in Seq(Nat)
    BY DEF IsResponse, IsHeaders
  <1>. DEFINE n == Cardinality(D)
  <1>3. Covers(order, D, n)
    BY <1>2, OrderCovers
  <1>. HIDE DEF n
  <1>4. PICK l, at : /\ Layout(text, n, l, at, body)
                     /\ l[0] = StatusText(r) /\ \A k \in 1..n : l[k] = HeaderText(r, order[k])
    <2>1. PICK l, at : Laid(text, r, order, n, l, at)
      BY <1>1, <1>3, GeneratedLayout
    <2>. QED BY <2>1 DEF Laid
  <1>5. text \in Seq(Nat)
    BY <1>1, <1>3, GeneratedLayout
  <1>. HIDE DEF D, body, h
  <1>6. /\ n \in Nat /\ order \in [1..n -> D] /\ (\A i, j \in 1..n : order[i] = order[j] => i = j)
        /\ \A x \in D : \E i \in 1..n : order[i] = x
    BY <1>3 DEF Covers
  <1>. DEFINE m == n + 2
              starts == LineStarts(text)
              line == {starts[i] : i \in 2..(Len(starts) - 1)}
              blank == starts[Len(starts)]
  <1>7. starts = [k \in 1..m |-> at[k - 1] + 1]
    BY <1>4, <1>5, LayoutStarts
  <1>8. /\ at \in [0..(n + 1) -> Nat] /\ at[0] = 0 /\ m \in Nat /\ m - 1 = n + 1
    <2>1. at \in [0..(n + 1) -> Nat] /\ at[0] = 0
      BY <1>4 DEF Layout
    <2>2. m \in Nat /\ m - 1 = n + 1
      BY <1>6
    <2>. QED BY <2>1, <2>2
  <1>. HIDE DEF m, starts
  <1>9. Len(starts) = m /\ \A k \in 1..m : starts[k] = at[k - 1] + 1
    BY <1>7, <1>8
  <1>10. ASSUME NEW k \in 1..n
         PROVE  /\ order[k] \in D /\ h[order[k]] \in Seq(Nat) /\ at[k] \in Nat
                /\ text[at[k] + 1] = order[k]
                /\ SubSeq(text, at[k] + 1 + 3, Lowest(LineEnds(text, at[k] + 1)) - 1) = h[order[k]]
    <2>. DEFINE name == order[k]
                v == h[name]
                t == HeaderText(r, name)
                p == at[k]
    <2>1. name \in D /\ k \in 0..n /\ k \in 0..(n + 1)
      BY <1>6
    <2>2. /\ t \in Seq(Nat) /\ Free(t, {LF}) /\ t # <<>> /\ t[1] = name /\ v \in Seq(Nat)
          /\ Len(t) = 3 + Len(v) /\ Stands(t, 3, v)
      BY <2>1, HeaderTextIs DEF h, D
    <2>3. l[k] = t /\ p \in Nat
      BY <1>4, <1>8, <2>1
    <2>4. Stands(text, p, t) /\ Stands(text, p + Len(t), CRLF)
      BY <1>4, <2>1, <2>3 DEF Layout
    <2>. HIDE DEF name, v, t, p
    <2>5. Lowest(LineEnds(text, p + 1)) = p + Len(t) + 1
      BY <1>5, <2>2, <2>3, <2>4, LineEndAt
    <2>6. text[p + 1] = name
      <3>1. 1 \in 1..Len(t)
        BY <2>2
      <3>. QED BY <2>2, <2>4, <3>1 DEF Stands
    <2>7. Stands(text, p + 3, v)
      BY <2>2, <2>4, StandsTrans
    <2>8. SubSeq(text, p + 3 + 1, p + 3 + Len(v)) = v
      <3>. DEFINE q == p + 3
      <3>. HIDE DEF q
      <3>1. Stands(text, q, v)
        BY <2>7 DEF q
      <3>2. SubSeq(text, q + 1, q + Len(v)) = v
        BY <1>5, <2>2, <3>1, StandsPart
      <3>. QED BY <3>2 DEF q
    <2>9. p + 3 + 1 = p + 1 + 3 /\ p + 3 + Len(v) = p + Len(t) + 1 - 1
      BY <2>2, <2>3
    <2>10. SubSeq(text, p + 1 + 3, Lowest(LineEnds(text, p + 1)) - 1) = v
      <3>. DEFINE i == p + 1 + 3
                  j == Lowest(LineEnds(text, p + 1)) - 1
      <3>1. i = p + 3 + 1 /\ j = p + 3 + Len(v)
        BY <2>2, <2>3, <2>5
      <3>. HIDE DEF i, j
      <3>2. SubSeq(text, i, j) = v
        BY <2>8, <3>1
      <3>. QED BY <3>2 DEF i, j
    <2>. QED BY <2>1, <2>2, <2>3, <2>6, <2>10 DEF name, v, p
  <1>11. line = {at[k] + 1 : k \in 1..n}
    <2>1. Len(starts) - 1 = n + 1
      BY <1>8, <1>9
    <2>2. ASSUME NEW i \in 2..(n + 1) PROVE \E k \in 1..n : starts[i] = at[k] + 1
      <3>1. i - 1 \in 1..n /\ i \in 1..m
        BY <1>6 DEF m
      <3>. QED BY <1>9, <3>1
    <2>3. ASSUME NEW k \in 1..n PROVE \E i \in 2..(n + 1) : starts[i] = at[k] + 1
      <3>. DEFINE i == k + 1
      <3>1. i \in 2..(n + 1) /\ i \in 1..m /\ i - 1 = k
        BY <1>6 DEF m
      <3>. HIDE DEF i
      <3>2. starts[i] = at[k] + 1
        BY <1>9, <3>1
      <3>. QED BY <3>1, <3>2
    <2>. QED BY <2>1, <2>2, <2>3, ZenonT(40)
  <1>12. blank = at[n + 1] + 1
    <2>1. m \in 1..m
      BY <1>8, <1>6 DEF m
    <2>. QED BY <1>8, <1>9, <2>1
  <1>. HIDE DEF line, blank
  <1>13. {text[i] : i \in line} = D
    <2>1. ASSUME NEW i \in line PROVE text[i] \in D
      BY <1>10, <1>11
    <2>2. ASSUME NEW x \in D PROVE \E i \in line : text[i] = x
      <3>1. PICK k \in 1..n : order[k] = x
        BY <1>6
      <3>2. at[k] + 1 \in line
        BY <1>11
      <3>. QED BY <1>10, <3>1, <3>2
    <2>. QED BY <2>1, <2>2
  <1>14. ASSUME NEW x \in D
         PROVE  LET a == CHOOSE i \in line : text[i] = x
                IN SubSeq(text, a + 3, Lowest(LineEnds(text, a)) - 1) = h[x]
    <2>. DEFINE a == CHOOSE i \in line : text[i] = x
    <2>1. \E i \in line : text[i] = x
      BY <1>13
    <2>2. a \in line /\ text[a] = x
      BY <2>1
    <2>. HIDE DEF a
    <2>3. PICK k \in 1..n : a = at[k] + 1
      BY <1>11, <2>2
    <2>4. order[k] = x
      BY <1>10, <2>2, <2>3
    <2>5. SubSeq(text, a + 3, Lowest(LineEnds(text, a)) - 1) = h[x]
      BY <1>10, <2>3, <2>4
    <2>. QED BY <2>5 DEF a
  <1>15. text[2] = r.status_code_
    <2>. DEFINE t == StatusText(r)
    <2>1. Len(t) >= 2 /\ t[2] = r.status_code_ /\ t \in Seq(Nat)
      BY StatusTextIs
    <2>2. Stands(text, 0, t)
      <3>1. 0 \in 0..n
        BY <1>6
      <3>. QED BY <1>4, <1>8, <3>1 DEF Layout
    <2>. HIDE DEF t
    <2>3. 2 \in 1..Len(t) /\ 0 + 2 = 2
      BY <2>1
    <2>. QED BY <2>1, <2>2, <2>3 DEF Stands
  <1>16. SubSeq(text, blank + 2, Len(text)) = body
    <2>. DEFINE p == at[n + 1] + 2
    <2>1. Stands(text, p, body) /\ Len(text) = p + Len(body) /\ at[n + 1] \in Nat
      <3>1. n + 1 \in 0..(n + 1)
        BY <1>6
      <3>. QED BY <1>4, <1>8, <3>1 DEF Layout
    <2>2. blank + 2 = p + 1
      BY <1>12, <2>1
    <2>. HIDE DEF p
    <2>3. SubSeq(text, p + 1, p + Len(body)) = body
      BY <1>2, <1>5, <2>1, StandsPart DEF body
    <2>. QED BY <2>1, <2>2, <2>3
  <1>. DEFINE got == [x \in {text[i] : i \in line} |->
                        LET a == CHOOSE i \in line : text[i] = x
                        IN SubSeq(text, a + 3, Lowest(LineEnds(text, a)) - 1)]
  <1>17. got = h
    <2>1. got = [x \in D |-> h[x]]
      BY <1>13, <1>14, ZenonT(40)
    <2>2. h = [x \in D |-> h[x]]
      BY DEF IsResponse, IsHeaders, D, h
    <2>. QED BY <2>1, <2>2
  <1>18. Read(text) = [status_code_ |-> text[2], response_headers_ |-> got,
                       response_body_ |-> SubSeq(text, blank + 2, Len(text))]
    BY DEF Read, line, blank, starts, Last
  <1>19. r = [status_code_ |-> r.status_code_, response_headers_ |-> h, response_body_ |-> body]
    BY DEF IsResponse, h, body
  <1>. QED BY <1>15, <1>16, <1>17, <1>18, <1>19

-----------------------------------------------------------------------------
(* The default headers *)

Overridden(r, d) ==
    LET h == r.response_headers_
    IN [r EXCEPT !.response_headers_ =
          [n \in DOMAIN h \cup DOMAIN d |-> IF n \in DOMAIN d THEN d[n] ELSE h[n]]]

Applying(f, r, order) ==
    f = [i \in 0..Len(order) |->
          IF i = 0 THEN r ELSE set_header(f[i - 1], order[i], headers_[order[i]])]

\* The order in which the default headers are set makes no difference.
LEMMA DefaultsApplied ==
  ASSUME NEW r, IsResponse(r), IsHeaders(headers_), NEW order \in SetToSeqs(DOMAIN headers_)
  PROVE  WithDefaults(r, order) = Overridden(r, headers_)
  <1>. DEFINE D == DOMAIN headers_
              h == r.response_headers_
              n == Cardinality(D)
              Named(i) == {order[j] : j \in 1..i}
              H(i) == [x \in DOMAIN h \cup Named(i) |-> IF x \in Named(i) THEN headers_[x] ELSE h[x]]
              State(i) == [r EXCEPT !.response_headers_ = H(i)]
              w == [i \in 0..n |-> State(i)]
  <1>1. Covers(order, D, n)
    BY OrderCovers DEF IsHeaders
  <1>. HIDE DEF n
  <1>2. n \in Nat /\ order \in [1..n -> D] /\ Len(order) = n /\ D = Named(n)
    <2>1. n \in Nat /\ order \in [1..n -> D] /\ \A x \in D : \E i \in 1..n : order[i] = x
      BY <1>1 DEF Covers
    <2>. HIDE DEF D
    <2>2. Len(order) = n
      BY <2>1
    <2>3. D = Named(n)
      BY <2>1
    <2>. QED BY <2>1, <2>2, <2>3
  <1>3. r = [status_code_ |-> r.status_code_, response_headers_ |-> h, response_body_ |-> r.response_body_]
    BY DEF IsResponse
  <1>4. h = [x \in DOMAIN h |-> h[x]]
    BY DEF IsResponse, IsHeaders
  <1>5. w[0] = r
    <2>1. Named(0) = {}
      OBVIOUS
    <2>2. H(0) = h
      BY <1>4, <2>1
    <2>3. w[0] = State(0)
      BY <1>2
    <2>4. State(0) = r
      <3>. HIDE DEF H, h
      <3>. QED BY <1>3, <2>2
    <2>. QED BY <2>3, <2>4
  <1>6. ASSUME NEW i \in 1..n PROVE w[i] = set_header(w[i - 1], order[i], headers_[order[i]])
    <2>. DEFINE x == order[i]
                G == H(i - 1)
                q == State(i - 1)
    <2>1. Named(i) = Named(i - 1) \cup {x}
      <3>1. 1..i = (1..(i - 1)) \cup {i}
        BY <1>2
      <3>. QED BY <3>1
    <2>2. w[i] = State(i) /\ w[i - 1] = q
      BY <1>2
    <2>3. q.response_headers_ = G
      <3>. HIDE DEF H, h
      <3>. QED BY <1>3
    <2>4. H(i) = [y \in DOMAIN G \cup {x} |-> IF y = x THEN headers_[x] ELSE G[y]]
      <3>. HIDE DEF x, Named, h
      <3>1. DOMAIN G = DOMAIN h \cup Named(i - 1)
        OBVIOUS
      <3>2. DOMAIN h \cup Named(i) = DOMAIN G \cup {x}
        BY <2>1, <3>1
      <3>3. ASSUME NEW y \in DOMAIN h \cup Named(i)
            PROVE  (IF y \in Named(i) THEN headers_[y] ELSE h[y])
                      = IF y = x THEN headers_[x] ELSE G[y]
        BY <2>1, <3>1
      <3>. QED BY <3>2, <3>3
    <2>5. set_header(q, x, headers_[x])
            = [q EXCEPT !.response_headers_ =
                 [y \in DOMAIN G \cup {x} |-> IF y = x THEN headers_[x] ELSE G[y]]]
      <3>. HIDE DEF q, G, x
      <3>. QED BY <2>3 DEF set_header
    <2>6. set_header(q, x, headers_[x]) = [q EXCEPT !.response_headers_ = H(i)]
      <3>. HIDE DEF q, G, x, H
      <3>. QED BY <2>4, <2>5
    <2>7. [q EXCEPT !.response_headers_ = H(i)] = State(i)
      <3>. HIDE DEF H, h
      <3>. QED BY <1>3
    <2>. QED BY <2>2, <2>6, <2>7
  <1>7. Applying(w, r, order)
    <2>1. w = [i \in 0..n |-> w[i]] /\ \A i \in 0..n : i = 0 \/ i \in 1..n
      BY <1>2
    <2>. HIDE DEF w
    <2>. QED BY <1>2, <1>5, <1>6, <2>1 DEF Applying
  <1>. HIDE DEF w
  <1>8. PICK f : Applying(f, r, order) /\ f = CHOOSE g : Applying(g, r, order)
    BY <1>7
  <1>9. f[0] = r /\ \A i \in 1..n : f[i] = set_header(f[i - 1], order[i], headers_[order[i]])
    <2>1. \A i \in 1..n : i \in 0..n /\ i # 0
      BY <1>2
    <2>. DEFINE V(i) == IF i = 0 THEN r ELSE set_header(f[i - 1], order[i], headers_[order[i]])
    <2>2. f = [i \in 0..n |-> V(i)]
      BY <1>2, <1>8 DEF Applying
    <2>3. V(0) = r /\ 0 \in 0..n
      BY <1>2
    <2>4. \A i \in 1..n : V(i) = set_header(f[i - 1], order[i], headers_[order[i]])
      BY <2>1
    <2>. HIDE DEF V
    <2>. QED BY <2>1, <2>2, <2>3, <2>4
  <1>. DEFINE T == {i \in 0..n : f[i] = w[i]}
  <1>10. \A i \in 0..n : i \in T
    <2>1. 0 \in T
      BY <1>2, <1>5, <1>9
    <2>2. ASSUME NEW i \in 1..n, i - 1 \in T PROVE i \in T
      BY <1>2, <1>6, <1>9, <2>2
    <2>. HIDE DEF T
    <2>. QED BY <1>2, <2>1, <2>2, FiniteInduction
  <1>11. f[n] = State(n)
    <2>1. n \in 0..n
      BY <1>2
    <2>2. w[n] = State(n)
      BY <2>1 DEF w
    <2>. QED BY <1>10, <2>1, <2>2
  <1>12. WithDefaults(r, order) = (CHOOSE g : Applying(g, r, order))[n]
    BY <1>2 DEF WithDefaults, Applying
  <1>13. State(n) = Overridden(r, headers_)
    BY <1>2 DEF Overridden
  <1>. QED BY <1>8, <1>11, <1>12, <1>13

-----------------------------------------------------------------------------
(* What the client sends, and what the session has of it *)

LEMMA Associative ==
  \A x, y, z \in Seq(Nat) : (x \o y) \o z = x \o (y \o z)
  <1>. SUFFICES ASSUME NEW x \in Seq(Nat), NEW y \in Seq(Nat), NEW z \in Seq(Nat)
                PROVE  (x \o y) \o z = x \o (y \o z)
    OBVIOUS
  <1>. DEFINE xy == x \o y
              yz == y \o z
              l == xy \o z
              r == x \o yz
              a == Len(x)
              b == Len(y)
              c == Len(z)
  <1>1. a \in Nat /\ b \in Nat /\ c \in Nat
    OBVIOUS
  <1>2. xy \in Seq(Nat) /\ Len(xy) = a + b /\ Stands(xy, 0, x) /\ Stands(xy, a, y)
    BY StandsConcat
  <1>3. yz \in Seq(Nat) /\ Len(yz) = b + c /\ Stands(yz, 0, y) /\ Stands(yz, b, z)
    BY StandsConcat
  <1>. HIDE DEF xy, yz
  <1>4. l \in Seq(Nat) /\ Len(l) = a + b + c /\ Stands(l, 0, xy) /\ Stands(l, a + b, z)
    <2>1. l \in Seq(Nat) /\ Len(l) = Len(xy) + c /\ Stands(l, 0, xy) /\ Stands(l, Len(xy), z)
      BY <1>2, StandsConcat
    <2>. QED BY <1>2, <2>1
  <1>5. r \in Seq(Nat) /\ Len(r) = a + (b + c) /\ Stands(r, 0, x) /\ Stands(r, a, yz)
    <2>1. r \in Seq(Nat) /\ Len(r) = a + Len(yz) /\ Stands(r, 0, x) /\ Stands(r, a, yz)
      BY <1>3, StandsConcat
    <2>. QED BY <1>3, <2>1
  <1>. HIDE DEF l, r
  <1>6. Stands(l, 0, x) /\ Stands(l, a, y) /\ Stands(r, a, y) /\ Stands(r, a + b, z)
    <2>1. Stands(l, 0 + 0, x) /\ Stands(l, 0 + a, y) /\ Stands(r, a + 0, y) /\ Stands(r, a + b, z)
      BY <1>2, <1>3, <1>4, <1>5, StandsTrans
    <2>2. 0 + 0 = 0 /\ 0 + a = a /\ a + 0 = a
      BY <1>1
    <2>. QED BY <2>1, <2>2
  <1>7. ASSUME NEW i \in 1..(a + b + c) PROVE l[i] = r[i]
    <2>1. CASE i <= a
      <3>1. i \in 1..a /\ 0 + i = i
        BY <1>1, <2>1
      <3>. QED BY <1>5, <1>6, <3>1 DEF Stands
    <2>2. CASE a < i /\ i <= a + b
      <3>. DEFINE j == i - a
      <3>1. j \in 1..b /\ a + j = i
        BY <1>1, <2>2
      <3>. HIDE DEF j
      <3>. QED BY <1>6, <3>1 DEF Stands
    <2>3. CASE a + b < i
      <3>. DEFINE j == i - (a + b)
      <3>1. j \in 1..c /\ a + b + j = i
        BY <1>1, <2>3
      <3>. HIDE DEF j
      <3>. QED BY <1>4, <1>6, <3>1 DEF Stands
    <2>. QED BY <1>1, <2>1, <2>2, <2>3
  <1>8. Len(l) = a + b + c /\ Len(r) = a + b + c
    BY <1>1, <1>4, <1>5
  <1>9. l = r
    BY <1>4, <1>5, <1>7, <1>8, SeqEqual
  <1>. QED BY <1>9 DEF l, r, xy, yz

\* A parameter as it is on the wire.
ParamText(r, i) == <<IF i = 1 THEN Question ELSE Ampersand>> \o r.params[i][1] \o <<Equals>> \o r.params[i][2]
ParamTexts(r) == [i \in 1..Len(r.params) |-> ParamText(r, i)]

LEMMA ParamTextIs ==
  ASSUME NEW r \in Requests, NEW i \in 1..Len(r.params)
  PROVE  /\ r.params[i][1] \in Seq(Nat) /\ r.params[i][2] \in Seq(Nat) /\ r.params[i][1] # <<>>
         /\ ParamText(r, i) \in Seq(Nat)
         /\ Len(ParamText(r, i)) = 1 + Len(r.params[i][1]) + 1 + Len(r.params[i][2])
         /\ Stands(ParamText(r, i), 0, <<IF i = 1 THEN Question ELSE Ampersand>>)
         /\ Stands(ParamText(r, i), 1, r.params[i][1])
         /\ Stands(ParamText(r, i), 1 + Len(r.params[i][1]), <<Equals>>)
         /\ Stands(ParamText(r, i), 1 + Len(r.params[i][1]) + 1, r.params[i][2])
         /\ \A t \in Seq(Nat) :
               t \o <<IF i = 1 THEN Question ELSE Ampersand>> \o r.params[i][1] \o <<Equals>> \o r.params[i][2]
                 = t \o ParamText(r, i)
  <1>. DEFINE m == <<IF i = 1 THEN Question ELSE Ampersand>>
              x == r.params[i][1]
              e == <<Equals>>
              y == r.params[i][2]
              t == ParamText(r, i)
              mx == m \o x
              mxe == mx \o e
  <1>1. r.params \in Seq(Seq(Nat) \X Seq(Nat)) /\ x # <<>>
    BY RequestAssumption
  <1>2. x \in Seq(Nat) /\ y \in Seq(Nat)
    <2>1. r.params[i] \in Seq(Nat) \X Seq(Nat)
      BY <1>1
    <2>. QED BY <2>1
  <1>3. m \in Seq(Nat) /\ e \in Seq(Nat) /\ Len(m) = 1 /\ Len(e) = 1
    BY DEF Question, Ampersand, Equals
  <1>4. t = mxe \o y
    BY DEF ParamText
  <1>. HIDE DEF m, x, e, y, t
  <1>5. mx \in Seq(Nat) /\ Len(mx) = 1 + Len(x) /\ Stands(mx, 0, m) /\ Stands(mx, 1, x)
    BY <1>2, <1>3, StandsConcat
  <1>. HIDE DEF mx
  <1>6. mxe \in Seq(Nat) /\ Len(mxe) = 1 + Len(x) + 1 /\ Stands(mxe, 0, mx) /\ Stands(mxe, 1 + Len(x), e)
    <2>1. /\ mx \o e \in Seq(Nat) /\ Len(mx \o e) = Len(mx) + Len(e)
          /\ Stands(mx \o e, 0, mx) /\ Stands(mx \o e, Len(mx), e)
      BY <1>3, <1>5, StandsConcat
    <2>. QED BY <1>3, <1>5, <2>1
  <1>. HIDE DEF mxe
  <1>7. t \in Seq(Nat) /\ Len(t) = 1 + Len(x) + 1 + Len(y) /\ Stands(t, 0, mxe) /\ Stands(t, 1 + Len(x) + 1, y)
    BY <1>2, <1>4, <1>6, StandsConcat
  <1>8. Len(x) \in Nat /\ 0 + 0 = 0 /\ 0 + 1 = 1 /\ 0 + (1 + Len(x)) = 1 + Len(x)
    BY <1>2
  <1>9. Stands(t, 0, mx) /\ Stands(t, 1 + Len(x), e)
    BY <1>6, <1>7, <1>8, StandsTrans
  <1>10. Stands(t, 0, m) /\ Stands(t, 1, x)
    BY <1>5, <1>8, <1>9, StandsTrans, SMTT(30)
  <1>11. ASSUME NEW u \in Seq(Nat) PROVE u \o m \o x \o e \o y = u \o t
    <2>1. (u \o m) \o x = u \o mx
      BY <1>2, <1>3, Associative DEF mx
    <2>2. (u \o mx) \o e = u \o mxe
      BY <1>3, <1>5, Associative DEF mxe
    <2>3. (u \o mxe) \o y = u \o (mxe \o y)
      BY <1>2, <1>6, Associative
    <2>4. (u \o mxe) \o y = u \o t
      BY <1>4, <2>3
    <2>. QED BY <2>1, <2>2, <2>4
  <1>. QED BY <1>1, <1>2, <1>7, <1>9, <1>10, <1>11 DEF m, x, e, y, t

Asking(f, r) ==
    f = [i \in 0..Len(r.params) |->
          IF i = 0 THEN <<>>
          ELSE f[i - 1] \o <<IF i = 1 THEN Question ELSE Ampersand>>
                 \o r.params[i][1] \o <<Equals>> \o r.params[i][2]]

\* The query is the parameters in a row.
LEMMA QueryJoins ==
  ASSUME NEW r \in Requests
  PROVE  /\ Len(r.params) \in Nat
         /\ \E g : Joins(g, Len(r.params), Nat, ParamTexts(r)) /\ QueryOf(r) = g[Len(r.params)]
  <1>. DEFINE n == Len(r.params)
              texts == ParamTexts(r)
              Next_(f, i) == f[i - 1] \o <<IF i = 1 THEN Question ELSE Ampersand>>
                               \o r.params[i][1] \o <<Equals>> \o r.params[i][2]
  <1>1. n \in Nat
    BY RequestAssumption
  <1>2. \A i \in 1..n : texts[i] = ParamText(r, i) /\ texts[i] \in Seq(Nat)
    BY ParamTextIs DEF ParamTexts
  <1>3. texts \in [1..n -> Seq(Nat)]
    <2>1. texts = [i \in 1..n |-> texts[i]]
      BY DEF ParamTexts
    <2>. HIDE DEF texts
    <2>. QED BY <1>2, <2>1
  <1>. HIDE DEF texts
  <1>4. PICK g : JoinLoop(g, n, texts)
    BY <1>1, <1>3, JoinLoopExists
  <1>5. Joins(g, n, Nat, texts)
    BY <1>1, <1>3, <1>4, JoinLoopJoins
  <1>6. g \in [0..n -> Seq(Nat)] /\ g[0] = <<>> /\ \A i \in 1..n : g[i] = g[i - 1] \o texts[i]
    BY <1>5 DEF Joins
  <1>7. ASSUME NEW i \in 1..n, NEW f, f[i - 1] \in Seq(Nat) PROVE Next_(f, i) = f[i - 1] \o texts[i]
    <2>. DEFINE u == f[i - 1]
    <2>. HIDE DEF u
    <2>1. u \in Seq(Nat)
      BY <1>7 DEF u
    <2>2. u \o <<IF i = 1 THEN Question ELSE Ampersand>> \o r.params[i][1] \o <<Equals>> \o r.params[i][2]
            = u \o ParamText(r, i)
      BY <2>1, ParamTextIs
    <2>3. texts[i] = ParamText(r, i)
      BY <1>2
    <2>. QED BY <2>2, <2>3 DEF u
  <1>. HIDE DEF n, Next_
  <1>8. Asking(g, r)
    <2>1. ASSUME NEW i \in 1..n PROVE g[i] = Next_(g, i)
      <3>1. i - 1 \in 0..n
        BY <1>1
      <3>. QED BY <1>6, <1>7, <3>1
    <2>2. g = [i \in 0..n |-> g[i]] /\ \A i \in 0..n : i = 0 \/ i \in 1..n
      BY <1>1, <1>6
    <2>3. g = [i \in 0..n |-> IF i = 0 THEN <<>> ELSE Next_(g, i)]
      BY <1>6, <2>1, <2>2
    <2>. QED BY <2>3 DEF Asking, n, Next_
  <1>9. PICK f : Asking(f, r) /\ f = CHOOSE h : Asking(h, r)
    BY <1>8
  <1>10. f[0] = <<>> /\ \A i \in 1..n : f[i] = Next_(f, i)
    <2>. DEFINE V(i) == IF i = 0 THEN <<>> ELSE Next_(f, i)
    <2>1. f = [i \in 0..n |-> V(i)]
      BY <1>9 DEF Asking, n, Next_
    <2>2. V(0) = <<>> /\ 0 \in 0..n /\ \A i \in 1..n : i \in 0..n /\ V(i) = Next_(f, i)
      BY <1>1
    <2>. HIDE DEF V
    <2>. QED BY <2>1, <2>2
  <1>. DEFINE T == {i \in 0..n : f[i] = g[i]}
  <1>11. \A i \in 0..n : i \in T
    <2>1. 0 \in T
      BY <1>1, <1>6, <1>10
    <2>2. ASSUME NEW i \in 1..n, i - 1 \in T PROVE i \in T
      <3>1. i - 1 \in 0..n /\ i \in 0..n
        BY <1>1
      <3>2. f[i - 1] = g[i - 1] /\ g[i - 1] \in Seq(Nat)
        BY <1>6, <2>2, <3>1
      <3>3. f[i] = f[i - 1] \o texts[i]
        BY <1>7, <1>10, <3>2
      <3>. QED BY <1>6, <3>1, <3>2, <3>3
    <2>. HIDE DEF T
    <2>. QED BY <1>1, <2>1, <2>2, FiniteInduction
  <1>12. f[n] = g[n]
    BY <1>1, <1>11
  <1>13. QueryOf(r) = (CHOOSE h : Asking(h, r))[n]
    BY DEF QueryOf, Asking, n
  <1>. QED BY <1>1, <1>5, <1>9, <1>12, <1>13 DEF n, texts

\* A header as it is on the wire.
SentHeader(r, i) == r.headers[i][1] \o <<Colon, SP>> \o r.headers[i][2] \o CRLF
SentHeaders(r) == [i \in 1..Len(r.headers) |-> SentHeader(r, i)]

LEMMA SentHeaderIs ==
  ASSUME NEW r \in Requests, NEW i \in 1..Len(r.headers)
  PROVE  /\ r.headers[i][1] \in Seq(Nat) /\ r.headers[i][2] \in Seq(Nat)
         /\ SentHeader(r, i) \in Seq(Nat)
         /\ Len(SentHeader(r, i)) = Len(r.headers[i][1]) + 2 + Len(r.headers[i][2]) + 2
         /\ Stands(SentHeader(r, i), 0, r.headers[i][1])
         /\ Stands(SentHeader(r, i), Len(r.headers[i][1]), <<Colon, SP>>)
         /\ Stands(SentHeader(r, i), Len(r.headers[i][1]) + 2, r.headers[i][2])
         /\ Stands(SentHeader(r, i), Len(r.headers[i][1]) + 2 + Len(r.headers[i][2]), CRLF)
  <1>. DEFINE x == r.headers[i][1]
              e == <<Colon, SP>>
              y == r.headers[i][2]
              t == SentHeader(r, i)
              xe == x \o e
              xey == xe \o y
              a == Len(x)
              b == Len(y)
  <1>1. r.headers \in Seq(Seq(Nat) \X Seq(Nat))
    BY RequestAssumption
  <1>2. x \in Seq(Nat) /\ y \in Seq(Nat)
    <2>1. r.headers[i] \in Seq(Nat) \X Seq(Nat)
      BY <1>1
    <2>. QED BY <2>1
  <1>3. e \in Seq(Nat) /\ Len(e) = 2 /\ CRLF \in Seq(Nat) /\ Len(CRLF) = 2
    BY DEF Colon, SP, CRLF, CR, LF
  <1>4. t = xey \o CRLF
    BY DEF SentHeader
  <1>. HIDE DEF x, e, y, t
  <1>5. xe \in Seq(Nat) /\ Len(xe) = a + 2 /\ Stands(xe, 0, x) /\ Stands(xe, a, e)
    BY <1>2, <1>3, StandsConcat, ZenonT(40)
  <1>. HIDE DEF xe
  <1>6. xey \in Seq(Nat) /\ Len(xey) = a + 2 + b /\ Stands(xey, 0, xe) /\ Stands(xey, a + 2, y)
    <2>1. /\ xe \o y \in Seq(Nat) /\ Len(xe \o y) = Len(xe) + b
          /\ Stands(xe \o y, 0, xe) /\ Stands(xe \o y, Len(xe), y)
      BY <1>2, <1>5, StandsConcat
    <2>. QED BY <1>5, <2>1
  <1>. HIDE DEF xey
  <1>7. t \in Seq(Nat) /\ Len(t) = a + 2 + b + 2 /\ Stands(t, 0, xey) /\ Stands(t, a + 2 + b, CRLF)
    <2>1. /\ xey \o CRLF \in Seq(Nat) /\ Len(xey \o CRLF) = Len(xey) + Len(CRLF)
          /\ Stands(xey \o CRLF, 0, xey) /\ Stands(xey \o CRLF, Len(xey), CRLF)
      BY <1>3, <1>6, StandsConcat
    <2>. QED BY <1>3, <1>4, <1>6, <2>1
  <1>8. a \in Nat /\ b \in Nat /\ 0 + 0 = 0 /\ 0 + a = a /\ 0 + (a + 2) = a + 2
    BY <1>2
  <1>. HIDE DEF a, b
  <1>9. Stands(t, 0, xe) /\ Stands(t, a + 2, y)
    <2>1. Stands(t, 0 + 0, xe) /\ Stands(t, 0 + (a + 2), y)
      BY <1>6, <1>7, StandsTrans
    <2>. QED BY <1>8, <2>1
  <1>10. Stands(t, 0, x) /\ Stands(t, a, e)
    <2>1. Stands(t, 0 + 0, x) /\ Stands(t, 0 + a, e)
      BY <1>5, <1>9, StandsTrans
    <2>. QED BY <1>8, <2>1
  <1>. QED BY <1>2, <1>7, <1>9, <1>10 DEF x, e, y, t, a, b

\* The request line: the URI from its third character on.
Target(r) == r.path \o QueryOf(r)

LEMMA LineIs ==
  ASSUME NEW r \in Requests
  PROVE  /\ r.path \in Seq(Nat) /\ QueryOf(r) \in Seq(Nat) /\ Target(r) \in Seq(Nat)
         /\ Line(r) \in Seq(Nat) /\ Len(Line(r)) = 2 + Len(Target(r)) + 4
         /\ Len(Target(r)) = Len(r.path) + Len(QueryOf(r))
         /\ Stands(Target(r), 0, r.path) /\ Stands(Target(r), Len(r.path), QueryOf(r))
         /\ Stands(Line(r), 0, <<METHOD, SP>>) /\ Stands(Line(r), 2, Target(r))
         /\ Stands(Line(r), 2 + Len(Target(r)), <<SP, VERSION>> \o CRLF)
         /\ <<SP, VERSION>> \o CRLF = <<SP, VERSION, CR, LF>>
  <1>. DEFINE m == <<METHOD, SP>>
              v == <<SP, VERSION>>
              w == v \o CRLF
              q == QueryOf(r)
              u == Target(r)
              mu == m \o u
              a == Len(u)
  <1>1. r.path \in Seq(Nat)
    BY RequestAssumption
  <1>2. q \in Seq(Nat)
    <2>1. Len(r.params) \in Nat
      BY QueryJoins
    <2>2. PICK g : Joins(g, Len(r.params), Nat, ParamTexts(r)) /\ QueryOf(r) = g[Len(r.params)]
      BY QueryJoins
    <2>. QED BY <2>1, <2>2 DEF Joins
  <1>3. m \in Seq(Nat) /\ Len(m) = 2 /\ v \in Seq(Nat) /\ CRLF \in Seq(Nat)
    BY DEF METHOD, SP, VERSION, CRLF, CR, LF
  <1>4. w = <<SP, VERSION, CR, LF>> /\ w \in Seq(Nat) /\ Len(w) = 4
    <2>. HIDE DEF v
    <2>1. Len(v) = 2 /\ v[1] = SP /\ v[2] = VERSION
      BY DEF v
    <2>2. Len(CRLF) = 2 /\ CRLF[1] = CR /\ CRLF[2] = LF
      BY DEF CRLF
    <2>3. w \in Seq(Nat) /\ Len(w) = 2 + 2 /\ Stands(w, 0, v) /\ Stands(w, 2, CRLF)
      <3>1. /\ w \in Seq(Nat) /\ Len(w) = Len(v) + Len(CRLF) /\ Stands(w, 0, v)
            /\ Stands(w, Len(v), CRLF)
        BY <1>3, StandsConcat
      <3>. HIDE DEF w
      <3>. QED BY <2>1, <2>2, <3>1
    <2>. HIDE DEF w
    <2>4. 1 \in 1..2 /\ 2 \in 1..2 /\ 0 + 1 = 1 /\ 0 + 2 = 2 /\ 2 + 1 = 3 /\ 2 + 2 = 4
      OBVIOUS
    <2>5. w[1] = SP /\ w[2] = VERSION /\ w[3] = CR /\ w[4] = LF
      BY <2>1, <2>2, <2>3, <2>4 DEF Stands
    <2>6. w \in Seq(Nat) /\ Len(w) = 4
      BY <2>3
    <2>. QED BY <2>5, <2>6
  <1>. HIDE DEF m, v, w, q
  <1>5. u \in Seq(Nat) /\ Len(u) = Len(r.path) + Len(q) /\ Stands(u, 0, r.path) /\ Stands(u, Len(r.path), q)
    <2>1. u = r.path \o q
      BY DEF Target, q
    <2>. QED BY <1>1, <1>2, <2>1, StandsConcat
  <1>. HIDE DEF u
  <1>6. Line(r) = mu \o w
    <2>1. Line(r) = (((m \o r.path) \o q) \o v) \o CRLF
      BY DEF Line, m, q, v
    <2>2. (m \o r.path) \o q = mu
      BY <1>1, <1>2, <1>3, Associative, ZenonT(40) DEF u, Target, q
    <2>3. mu \in Seq(Nat)
      BY <1>3, <1>5, StandsConcat
    <2>4. (mu \o v) \o CRLF = mu \o w
      <3>. HIDE DEF mu
      <3>. QED BY <1>3, <2>3, Associative DEF w
    <2>. QED BY <2>1, <2>2, <2>4
  <1>7. mu \in Seq(Nat) /\ Len(mu) = 2 + a /\ Stands(mu, 0, m) /\ Stands(mu, 2, u)
    <2>1. mu \in Seq(Nat) /\ Len(mu) = Len(m) + a /\ Stands(mu, 0, m) /\ Stands(mu, Len(m), u)
      BY <1>3, <1>5, StandsConcat
    <2>. HIDE DEF mu
    <2>. QED BY <1>3, <2>1
  <1>. HIDE DEF mu
  <1>8. /\ Line(r) \in Seq(Nat) /\ Len(Line(r)) = 2 + a + 4
        /\ Stands(Line(r), 0, mu) /\ Stands(Line(r), 2 + a, w)
    <2>1. /\ mu \o w \in Seq(Nat) /\ Len(mu \o w) = Len(mu) + Len(w)
          /\ Stands(mu \o w, 0, mu) /\ Stands(mu \o w, Len(mu), w)
      BY <1>4, <1>7, StandsConcat
    <2>. QED BY <1>4, <1>6, <1>7, <2>1
  <1>9. Stands(Line(r), 0, m) /\ Stands(Line(r), 2, u)
    <2>1. Stands(Line(r), 0 + 0, m) /\ Stands(Line(r), 0 + 2, u)
      BY <1>7, <1>8, StandsTrans
    <2>2. 0 + 0 = 0 /\ 0 + 2 = 2
      OBVIOUS
    <2>. QED BY <2>1, <2>2
  <1>. QED BY <1>1, <1>2, <1>4, <1>5, <1>8, <1>9 DEF m, v, w, q, u

\* The text of a request: the line, the headers in a row, an empty line and the body.
TextIs(r, n, g) ==
    /\ n = Len(r.headers) /\ n \in Nat /\ Joins(g, n, Nat, SentHeaders(r)) /\ r.body \in Seq(Nat)
    /\ Text(r) \in Seq(Nat) /\ Len(Text(r)) = Len(Line(r)) + Len(g[n]) + 2 + Len(r.body)
    /\ Stands(Text(r), 0, Line(r)) /\ Stands(Text(r), Len(Line(r)), g[n])
    /\ Stands(Text(r), Len(Line(r)) + Len(g[n]), CRLF)
    /\ Stands(Text(r), Len(Line(r)) + Len(g[n]) + 2, r.body)

LEMMA TextJoins ==
  ASSUME NEW r \in Requests
  PROVE  \E g : TextIs(r, Len(r.headers), g)
  <1>. DEFINE n == Len(r.headers)
              texts == SentHeaders(r)
              b == r.body
              l == Line(r)
  <1>1. n \in Nat /\ DOMAIN r.headers = 1..n /\ b \in Seq(Nat)
    BY RequestAssumption
  <1>2. texts \in Seq(Seq(Nat)) /\ Len(texts) = n
    <2>1. texts = [i \in 1..n |-> texts[i]]
      BY DEF SentHeaders
    <2>2. \A i \in 1..n : texts[i] \in Seq(Nat)
      BY SentHeaderIs DEF SentHeaders
    <2>. HIDE DEF texts, n
    <2>3. texts \in [1..n -> Seq(Nat)]
      BY <2>1, <2>2
    <2>. QED BY <1>1, <2>3, SeqDef
  <1>3. Text(r) = ((l \o FlattenSeq(texts)) \o CRLF) \o b
    BY <1>1 DEF Text, SentHeaders, SentHeader
  <1>4. l \in Seq(Nat)
    BY LineIs
  <1>5. CRLF \in Seq(Nat) /\ Len(CRLF) = 2
    BY DEF CRLF, CR, LF
  <1>. HIDE DEF texts, n, l, b
  <1>6. PICK g : Joins(g, n, Nat, texts) /\ FlattenSeq(texts) = g[n]
    BY <1>2, Flattened
  <1>. DEFINE G == g[n]
              x == l \o G
              y == x \o CRLF
              t == Text(r)
  <1>7. G \in Seq(Nat)
    BY <1>1, <1>6 DEF Joins
  <1>8. t = y \o b
    BY <1>3, <1>6
  <1>. HIDE DEF G, t
  <1>9. x \in Seq(Nat) /\ Len(x) = Len(l) + Len(G) /\ Stands(x, 0, l) /\ Stands(x, Len(l), G)
    BY <1>4, <1>7, StandsConcat
  <1>. HIDE DEF x
  <1>10. y \in Seq(Nat) /\ Len(y) = Len(x) + 2 /\ Stands(y, 0, x) /\ Stands(y, Len(x), CRLF)
    <2>1. /\ x \o CRLF \in Seq(Nat) /\ Len(x \o CRLF) = Len(x) + Len(CRLF)
          /\ Stands(x \o CRLF, 0, x) /\ Stands(x \o CRLF, Len(x), CRLF)
      BY <1>5, <1>9, StandsConcat
    <2>. QED BY <1>5, <2>1
  <1>. HIDE DEF y
  <1>11. t \in Seq(Nat) /\ Len(t) = Len(y) + Len(b) /\ Stands(t, 0, y) /\ Stands(t, Len(y), b)
    <2>1. /\ y \o b \in Seq(Nat) /\ Len(y \o b) = Len(y) + Len(b)
          /\ Stands(y \o b, 0, y) /\ Stands(y \o b, Len(y), b)
      BY <1>1, <1>10, StandsConcat
    <2>. QED BY <1>8, <2>1
  <1>. DEFINE c == Len(l)
              d == Len(G)
  <1>12. c \in Nat /\ d \in Nat /\ Len(x) = c + d /\ Len(y) = c + d + 2
         /\ 0 + 0 = 0 /\ 0 + c = c /\ 0 + (c + d) = c + d
    BY <1>4, <1>7, <1>9, <1>10
  <1>. HIDE DEF c, d
  <1>13. Stands(t, 0, x) /\ Stands(t, c + d, CRLF)
    <2>1. Stands(t, 0 + 0, x) /\ Stands(t, 0 + Len(x), CRLF)
      BY <1>10, <1>11, StandsTrans
    <2>. QED BY <1>12, <2>1
  <1>14. Stands(t, 0, l) /\ Stands(t, c, G)
    <2>1. Stands(t, 0 + 0, l) /\ Stands(t, 0 + c, G)
      BY <1>9, <1>13, StandsTrans DEF c
    <2>. QED BY <1>12, <2>1
  <1>15. Len(t) = c + d + 2 + Len(b) /\ Stands(t, c + d + 2, b)
    BY <1>11, <1>12
  <1>16. TextIs(r, n, g)
    BY <1>1, <1>6, <1>11, <1>13, <1>14, <1>15 DEF TextIs, n, texts, b, t, c, d, l, G
  <1>. QED BY <1>16 DEF n

\* The client sends one request; the session holds nothing or a beginning of it.
DataInv == /\ sent \in Requests /\ headers_ \in Headers
           /\ \/ pc = "read" /\ data_ = <<>>
              \/ pc = "written" /\ data_ = <<>>
              \/ pc # "read" /\ \E n \in 1..Len(Text(sent)) : data_ = SubSeq(Text(sent), 1, n)

LEMMA DataStep == DataInv /\ [Next]_vars => DataInv'
  <1>. SUFFICES ASSUME DataInv, [Next]_vars PROVE DataInv'
    OBVIOUS
  <1>1. ASSUME NEW n \in 1..Len(Text(sent)), handle_success(n) PROVE DataInv'
    BY <1>1 DEF DataInv, handle_success
  <1>2. CASE handle_error
    BY <1>2 DEF DataInv, handle_error, Write
  <1>3. ASSUME data_' = data_, sent' = sent, headers_' = headers_, pc # "read", pc' # "read",
               pc = "written" => pc' = "written"
        PROVE  DataInv'
    BY <1>3 DEF DataInv
  <1>4. CASE handle_invalid_request
    BY <1>3, <1>4 DEF handle_invalid_request, Write
  <1>5. CASE sleep_for
    BY <1>3, <1>5 DEF sleep_for
  <1>6. CASE generate_echo_response
    BY <1>3, <1>6 DEF generate_echo_response, Route
  <1>7. CASE health_handle_request
    BY <1>3, <1>7 DEF health_handle_request, Route
  <1>8. CASE generate_404_response
    BY <1>3, <1>8 DEF generate_404_response, Route
  <1>9. CASE status_handle_request
    BY <1>3, <1>9 DEF status_handle_request, Route
  <1>10. CASE create_meme
    BY <1>3, <1>10 DEF create_meme, Route
  <1>11. CASE catch
    BY <1>3, <1>11 DEF catch, Write
  <1>12. CASE apply_default_headers
    BY <1>3, <1>12 DEF apply_default_headers
  <1>13. CASE Done \/ UNCHANGED vars
    BY <1>13 DEF DataInv, Done, vars
  <1>. QED BY <1>1, <1>2, <1>4, <1>5, <1>6, <1>7, <1>8, <1>9, <1>10, <1>11, <1>12, <1>13 DEF Next

LEMMA DataInvariant == Spec => []DataInv
  <1>1. Init => DataInv
    BY DEF Init, DataInv
  <1>. QED BY <1>1, DataStep, PTL DEF Spec

\* What the session has read is a text.
LEMMA DataIs ==
  ASSUME DataInv
  PROVE  /\ Text(sent) \in Seq(Nat) /\ data_ \in Seq(Nat)
         /\ Len(data_) <= Len(Text(sent)) /\ \A i \in 1..Len(data_) : data_[i] = Text(sent)[i]
  <1>. DEFINE t == Text(sent)
  <1>1. t \in Seq(Nat)
    BY TextJoins DEF DataInv, TextIs
  <1>. HIDE DEF t
  <1>2. CASE data_ = <<>>
    BY <1>1, <1>2 DEF t
  <1>3. ASSUME NEW n \in 1..Len(t), data_ = SubSeq(t, 1, n)
        PROVE  /\ data_ \in Seq(Nat) /\ Len(data_) <= Len(t) /\ \A i \in 1..Len(data_) : data_[i] = t[i]
    <2>. DEFINE d == SubSeq(t, 1, n)
    <2>1. 1 \in 1..(Len(t) + 1) /\ n \in (1 - 1)..Len(t) /\ n - 1 + 1 = n /\ Len(t) \in Nat
      BY <1>1
    <2>2. d \in Seq(Nat) /\ Len(d) = n /\ \A i \in 1..n : d[i] = t[1 + i - 1]
      BY <1>1, <2>1, Part
    <2>. HIDE DEF d
    <2>3. \A i \in 1..n : 1 + i - 1 = i
      BY <2>1
    <2>. QED BY <1>3, <2>1, <2>2, <2>3 DEF d
  <1>. QED BY <1>1, <1>2, <1>3 DEF DataInv, t

\* UriDecode gives back every byte string that UriEncode was given, whatever its
\* length and its bytes (uri_lib.cc).
THEOREM DecodeEncodeCorrect == Spec => []DecodeEncode
  <1>1. DataInv => DecodeEncode
    <2>. SUFFICES ASSUME DataInv, sent.form # <<>>, NEW i \in {1, 2}
                  PROVE  UriDecode(UriEncode(sent.form[i])) = sent.form[i]
      BY DEF DecodeEncode
    <2>1. sent.form \in Seq(Byte) \X Seq(Byte)
      BY RequestAssumption DEF DataInv
    <2>2. sent.form[i] \in Seq(Byte)
      BY <2>1
    <2>. QED BY <2>2, DecodeEncodeBytes
  <1>. QED BY <1>1, DataInvariant, PTL

-----------------------------------------------------------------------------
(* The copy of the request that an answer quotes *)

LEMMA PrefixIs ==
  ASSUME NEW x \in Seq(Nat), NEW y \in Seq(Nat), Len(x) <= Len(y), \A i \in 1..Len(x) : x[i] = y[i]
  PROVE  IsPrefix(x, y)
  <1>. DEFINE u == SubSeq(y, 1, Len(x))
  <1>1. Len(x) \in Nat /\ Len(y) \in Nat
    OBVIOUS
  <1>2. 1 \in 1..(Len(y) + 1) /\ Len(x) \in (1 - 1)..Len(y) /\ Len(x) - 1 + 1 = Len(x)
        /\ \A i \in 1..Len(x) : 1 + i - 1 = i
    BY <1>1
  <1>3. u \in Seq(Nat) /\ Len(u) = Len(x) /\ \A i \in 1..Len(x) : u[i] = y[1 + i - 1]
    BY <1>2, Part
  <1>. HIDE DEF u
  <1>4. \A i \in 1..Len(x) : u[i] = x[i]
    BY <1>2, <1>3
  <1>5. u = x
    BY <1>3, <1>4, SeqEqual
  <1>6. SubSeq(x, 1, Len(x)) = x
    OBVIOUS
  <1>. QED BY <1>5, <1>6 DEF IsPrefix, u

\* The copy is a text, and begins as what was read does.
LEMMA CStringIs ==
  ASSUME data_ \in Seq(Nat), NEW b \in Seq(Nat)
  PROVE  /\ CString(b) \in Seq(Nat)
         /\ data_ # <<>> /\ data_[1] # NUL => CString(b) # <<>> /\ CString(b)[1] = data_[1]
  <1>. DEFINE z == <<NUL>>
              db == data_ \o b
              s == db \o z
              n == Len(s)
              a == Len(data_)
              First_(i) == s[i] = NUL /\ \A j \in 1..(i - 1) : s[j] # NUL
              end == CHOOSE i \in DOMAIN s : First_(i)
  <1>1. z \in Seq(Nat) /\ Len(z) = 1 /\ z[1] = NUL
    BY DEF NUL
  <1>2. db \in Seq(Nat) /\ Len(db) = a + Len(b) /\ Stands(db, 0, data_) /\ a \in Nat /\ Len(b) \in Nat
    BY StandsConcat
  <1>3. CString(b) = SubSeq(s, 1, end - 1)
    BY DEF CString
  <1>. HIDE DEF z, db
  <1>4. s \in Seq(Nat) /\ n = a + Len(b) + 1 /\ Stands(s, 0, db) /\ Stands(s, a + Len(b), z)
    <2>1. s \in Seq(Nat) /\ n = Len(db) + Len(z) /\ Stands(s, 0, db) /\ Stands(s, Len(db), z)
      BY <1>1, <1>2, StandsConcat
    <2>. HIDE DEF s
    <2>. QED BY <1>1, <1>2, <2>1
  <1>. HIDE DEF s
  <1>5. n \in Nat /\ DOMAIN s = 1..n /\ a + 1 <= n
    BY <1>2, <1>4
  <1>6. \A j \in 1..a : s[j] = data_[j]
    <2>1. Stands(s, 0 + 0, data_)
      BY <1>2, <1>4, StandsTrans
    <2>2. 0 + 0 = 0 /\ \A j \in 1..a : 0 + j = j
      BY <1>2
    <2>. QED BY <2>1, <2>2 DEF Stands
  <1>7. s[n] = NUL
    <2>1. 1 \in 1..1
      OBVIOUS
    <2>. QED BY <1>1, <1>4, <2>1 DEF Stands
  <1>. HIDE DEF n, a
  <1>8. end \in 1..n /\ First_(end)
    <2>. DEFINE Z == {i \in 1..n : s[i] = NUL}
    <2>1. Z \in SUBSET Nat /\ n \in Z
      BY <1>2, <1>5, <1>7
    <2>2. PICK i \in Z : \A j \in Z : ~(j < i)
      <3>. HIDE DEF Z
      <3>. QED BY <2>1, LeastExists
    <2>3. i \in 1..n /\ s[i] = NUL
      BY <2>2
    <2>4. ASSUME NEW j \in 1..(i - 1) PROVE s[j] # NUL
      <3>1. j \in 1..n /\ j < i
        BY <1>5, <2>3
      <3>. QED BY <2>2, <3>1
    <2>5. First_(i)
      BY <2>3, <2>4
    <2>. HIDE DEF First_
    <2>. QED BY <1>5, <2>3, <2>5
  <1>. HIDE DEF end
  <1>. DEFINE e == end - 1
              c == SubSeq(s, 1, e)
  <1>9. e \in 0..n /\ e + 1 \in 1..n /\ s[e + 1] = NUL
    <2>1. e + 1 = end /\ e \in 0..n
      BY <1>5, <1>8
    <2>. QED BY <1>8, <2>1
  <1>. HIDE DEF e
  <1>10. c \in Seq(Nat) /\ Len(c) = e /\ \A i \in 1..e : c[i] = s[i]
    <2>1. 1 \in 1..(n + 1) /\ e \in (1 - 1)..n /\ e - 1 + 1 = e /\ \A i \in 1..e : 1 + i - 1 = i
      BY <1>5, <1>9
    <2>2. c \in Seq(Nat) /\ Len(c) = e /\ \A i \in 1..e : c[i] = s[1 + i - 1]
      BY <1>4, <2>1, Part DEF n
    <2>. QED BY <2>1, <2>2
  <1>11. CString(b) = c
    BY <1>3 DEF e
  <1>. HIDE DEF c
  <1>12. ASSUME NEW k \in 0..a, \A i \in 1..k : data_[i] # NUL PROVE k <= e
    <2>1. ASSUME e < k PROVE FALSE
      <3>1. e + 1 \in 1..k /\ e + 1 \in 1..a
        BY <1>2, <1>9, <2>1 DEF a
      <3>. QED BY <1>6, <1>9, <1>12, <3>1
    <2>. QED BY <1>2, <1>5, <1>9, <2>1 DEF a
  <1>15. ASSUME data_ # <<>>, data_[1] # NUL PROVE c # <<>> /\ c[1] = data_[1]
    <2>1. 1 \in 0..a /\ 1 \in 1..a
      BY <1>2, <1>15 DEF a
    <2>2. \A i \in 1..1 : data_[i] # NUL
      BY <1>15
    <2>3. 1 <= e
      BY <1>12, <2>1, <2>2
    <2>4. 1 \in 1..e
      BY <1>9, <2>3
    <2>5. c[1] = data_[1]
      BY <1>6, <1>10, <2>1, <2>4
    <2>6. c # <<>>
      BY <1>10, <2>3
    <2>. QED BY <2>5, <2>6
  <1>. QED BY <1>10, <1>11, <1>15

-----------------------------------------------------------------------------
(* The responses *)

LEMMA CutIs ==
  ASSUME NEW t \in Seq(Nat), NEW i \in Nat, NEW j \in Nat, 1 <= i, i <= j + 1, j <= Len(t)
  PROVE  SubSeq(t, i, j) \in Seq(Nat) /\ Len(SubSeq(t, i, j)) = j - i + 1
  <1>1. i \in 1..(Len(t) + 1) /\ j \in (i - 1)..Len(t)
    OBVIOUS
  <1>. QED BY <1>1, Part

LEMMA UriIsText ==
  ASSUME NEW r \in Seq(Nat), is_valid(r)
  PROVE  get_uri(r) \in Seq(Nat)
  <1>. DEFINE e == Highest(UriEnds(r))
              u == RawUri(r)
              Q == QueryMark(u)
  <1>1. UriEnds(r) # {} /\ UriEnds(r) \in SUBSET Int /\ \A x \in UriEnds(r) : x \in 4..(Len(r) - 3)
    <2>1. UriEnds(r) # {}
      BY DEF is_valid
    <2>2. UriEnds(r) \subseteq 4..(Len(r) - 3)
      BY DEF UriEnds
    <2>. QED BY <2>1, <2>2
  <1>2. Len(r) \in Int /\ \A x \in UriEnds(r) : x <= Len(r)
    BY <1>1
  <1>3. e \in UriEnds(r)
    BY <1>1, <1>2, HighestExists
  <1>4. e \in 4..(Len(r) - 3)
    BY <1>1, <1>3
  <1>. HIDE DEF e
  <1>5. u \in Seq(Nat)
    <2>1. u = SubSeq(r, 3, e - 1)
      BY DEF RawUri, e
    <2>2. e - 1 \in Nat /\ 3 <= e - 1 + 1 /\ e - 1 <= Len(r)
      BY <1>4
    <2>. QED BY <2>1, <2>2, CutIs, SMTT(30)
  <1>. HIDE DEF u
  <1>6. get_uri(r) = parse_query_string(u).uri
    BY DEF get_uri, u
  <1>7. CASE Q = {}
    BY <1>5, <1>6, <1>7 DEF parse_query_string
  <1>8. CASE Q # {}
    <2>1. Q \in SUBSET Int /\ (\A x \in Q : x <= Len(u)) /\ \A x \in Q : x \in 2..Len(u)
      BY <1>5 DEF QueryMark
    <2>. DEFINE i == Highest(Q)
    <2>2. i \in Q
      <3>1. Len(u) \in Int
        BY <1>5
      <3>. HIDE DEF Q
      <3>. QED BY <1>8, <2>1, <3>1, HighestExists
    <2>3. i \in 2..Len(u)
      BY <2>1, <2>2
    <2>4. get_uri(r) = SubSeq(u, 1, i - 1)
      BY <1>6, <1>8 DEF parse_query_string, SplitAt
    <2>. HIDE DEF i
    <2>5. i - 1 \in Nat /\ 1 <= i - 1 + 1 /\ i - 1 <= Len(u)
      BY <1>5, <2>3
    <2>. QED BY <1>5, <2>4, <2>5, CutIs
  <1>. QED BY <1>7, <1>8

\* A response as the session and the handlers make it.
IsMade(r) == \E code \in Nat \ {LF}, body \in Seq(Nat), type \in {Plain, Html, Json} :
                r = WithType(code, body, type)

LEMMA MadeIs ==
  ASSUME NEW code \in Nat \ {LF}, NEW body \in Seq(Nat), NEW type \in {Plain, Html, Json}
  PROVE  /\ WithType(code, body, type) = [status_code_ |-> code, response_headers_ |-> [n \in {ContentType} |-> type],
                                          response_body_ |-> body]
         /\ IsResponse(WithType(code, body, type)) /\ IsMade(WithType(code, body, type))
  <1>. DEFINE h == [n \in {ContentType} |-> type]
              r == [status_code_ |-> code, response_headers_ |-> h, response_body_ |-> body]
              e == <<>>
              g == [n \in DOMAIN e \cup {ContentType} |-> IF n = ContentType THEN type ELSE e[n]]
              q == [status_code_ |-> code, response_headers_ |-> e, response_body_ |-> body]
  <1>1. DOMAIN e = {} /\ DOMAIN e \cup {ContentType} = {ContentType}
    OBVIOUS
  <1>. HIDE DEF e
  <1>2. g = h
    BY <1>1
  <1>3. response(code, body) = q
    BY DEF response, e
  <1>4. set_header(q, ContentType, type) = [q EXCEPT !.response_headers_ = g]
    BY DEF set_header
  <1>. HIDE DEF g
  <1>5. [q EXCEPT !.response_headers_ = g] = r
    <2>. HIDE DEF h
    <2>. QED BY <1>2
  <1>6. WithType(code, body, type) = r
    BY <1>3, <1>4, <1>5 DEF WithType
  <1>7. IsHeaders(h)
    <2>1. DOMAIN h = {ContentType} /\ IsFiniteSet({ContentType})
      BY FS_Singleton
    <2>2. ContentType \in Nat \ {LF}
      BY DEF ContentType, LF
    <2>3. type \in Seq(Nat \ {LF})
      <3>1. 302 \in Nat \ {LF} /\ 303 \in Nat \ {LF} /\ 304 \in Nat \ {LF}
        BY DEF LF
      <3>2. Plain \in Seq(Nat \ {LF}) /\ Html \in Seq(Nat \ {LF}) /\ Json \in Seq(Nat \ {LF})
        BY <3>1 DEF Plain, Html, Json
      <3>. QED BY <3>2
    <2>4. h \in [{ContentType} -> Seq(Nat \ {LF})]
      BY <2>3
    <2>. QED BY <2>1, <2>2, <2>4 DEF IsHeaders
  <1>8. IsResponse(r)
    <2>. HIDE DEF h
    <2>. QED BY <1>7 DEF IsResponse
  <1>. QED BY <1>6, <1>8 DEF IsMade

LEMMA MadeResponse ==
  ASSUME NEW r, IsMade(r)
  PROVE  IsResponse(r) /\ DOMAIN r.response_headers_ = {ContentType}
  <1>1. PICK code \in Nat \ {LF}, body \in Seq(Nat), type \in {Plain, Html, Json} :
            r = WithType(code, body, type)
    BY DEF IsMade
  <1>2. r = [status_code_ |-> code, response_headers_ |-> [n \in {ContentType} |-> type],
             response_body_ |-> body]
    BY <1>1, MadeIs
  <1>3. IsResponse(r)
    BY <1>1, MadeIs
  <1>. QED BY <1>2, <1>3

LEMMA OverriddenIs ==
  ASSUME NEW r, IsResponse(r), NEW d, IsHeaders(d)
  PROVE  /\ IsResponse(Overridden(r, d))
         /\ Overridden(r, d).status_code_ = r.status_code_
         /\ Overridden(r, d).response_body_ = r.response_body_
         /\ Overridden(r, d).response_headers_ =
               [n \in DOMAIN r.response_headers_ \cup DOMAIN d |->
                  IF n \in DOMAIN d THEN d[n] ELSE r.response_headers_[n]]
  <1>. DEFINE h == r.response_headers_
              g == [n \in DOMAIN h \cup DOMAIN d |-> IF n \in DOMAIN d THEN d[n] ELSE h[n]]
              V == Seq(Nat \ {LF})
  <1>1. r = [status_code_ |-> r.status_code_, response_headers_ |-> h, response_body_ |-> r.response_body_]
        /\ r.status_code_ \in Nat \ {LF} /\ IsHeaders(h) /\ r.response_body_ \in Seq(Nat)
    BY DEF IsResponse
  <1>2. Overridden(r, d) = [r EXCEPT !.response_headers_ = g]
    BY DEF Overridden
  <1>. HIDE DEF h, V
  <1>3. IsHeaders(g)
    <2>1. IsFiniteSet(DOMAIN h \cup DOMAIN d)
      BY <1>1, FS_Union DEF IsHeaders
    <2>2. DOMAIN g = DOMAIN h \cup DOMAIN d
      OBVIOUS
    <2>3. ASSUME NEW n \in DOMAIN g PROVE g[n] \in V
      <3>1. CASE n \in DOMAIN d
        BY <3>1 DEF IsHeaders, V
      <3>2. CASE n \notin DOMAIN d
        BY <1>1, <3>2 DEF IsHeaders, V
      <3>. QED BY <3>1, <3>2
    <2>4. g = [n \in DOMAIN g |-> g[n]]
      BY <2>2
    <2>. HIDE DEF g
    <2>. QED BY <1>1, <2>1, <2>2, <2>3, <2>4 DEF IsHeaders, V
  <1>. HIDE DEF g
  <1>. DEFINE q == [status_code_ |-> r.status_code_, response_headers_ |-> g, response_body_ |-> r.response_body_]
  <1>4. Overridden(r, d) = q
    BY <1>1, <1>2
  <1>5. IsResponse(q)
    BY <1>1, <1>3 DEF IsResponse
  <1>. QED BY <1>4, <1>5 DEF g, h

\* The router was asked for an answer to d, and the handler did not throw.
Handled(d, r) == is_valid(d) /\ r.response_body_ # Say(1)

\* The response is what the handler or the session made of the request, then with
\* the default headers in it.
ResponseInv ==
    /\ pc = "slept" => Routed("echo")
    /\ pc = "handled" => resp = made /\ Handled(data_, made)
    /\ pc = "written" => resp = IF Handled(data_, made) THEN Overridden(made, headers_) ELSE made
    /\ pc \in {"handled", "written"} => IsMade(made)

LEMMA ResponseMade ==
  ASSUME NEW code \in Nat \ {LF}, NEW body \in Seq(Nat), NEW type \in {Plain, Html, Json},
         UNCHANGED <<headers_, data_>>,
         made' = WithType(code, body, type), resp' = made',
         \/ pc' = "handled" /\ is_valid(data_) /\ body # Say(1)
         \/ pc' = "written" /\ (~is_valid(data_) \/ body = Say(1))
  PROVE  ResponseInv'
  <1>1. IsMade(made') /\ made'.response_body_ = body
    BY MadeIs
  <1>. QED BY <1>1 DEF ResponseInv, Handled

LEMMA EmptyInvalid == ~is_valid(<<>>)
  <1>. DEFINE e == <<>>
  <1>1. Len(e) = 0
    OBVIOUS
  <1>. HIDE DEF e
  <1>2. UriEnds(e) = {}
    BY <1>1 DEF UriEnds
  <1>. QED BY <1>2 DEF is_valid, e

LEMMA ValidStart ==
  ASSUME NEW d, is_valid(d)
  PROVE  d # <<>> /\ d[1] = METHOD
  <1>1. d # <<>>
    BY EmptyInvalid
  <1>2. UriEnds(d) # {}
    BY DEF is_valid
  <1>3. d[1] = METHOD
    BY <1>2 DEF UriEnds
  <1>. QED BY <1>1, <1>3

LEMMA SayIs ==
  ASSUME NEW n \in Nat
  PROVE  Say(n) \in Seq(Nat) /\ Len(Say(n)) = 1 /\ Say(n)[1] = 400 + n
  BY DEF Say

LEMMA SayOther ==
  ASSUME NEW n \in Nat, n # 1
  PROVE  Say(n) # Say(1)
  BY SayIs

LEMMA StatusCodes == \A c \in {200, 201, 400, 404, 500} : c \in Nat \ {LF}
  BY DEF LF

LEMMA Types == Plain \in {Plain, Html, Json} /\ Html \in {Plain, Html, Json} /\ Json \in {Plain, Html, Json}
  OBVIOUS

LEMMA ResponseStep == DataInv /\ ResponseInv /\ [Next]_vars => ResponseInv'
  <1>. SUFFICES ASSUME DataInv, ResponseInv, [Next]_vars PROVE ResponseInv'
    OBVIOUS
  <1>d. data_ \in Seq(Nat)
    BY DataIs
  <1>s. \A n \in 1..10 : Say(n) \in Seq(Nat)
    BY SayIs
  <1>o. \A n \in 2..10 : Say(n) # Say(1)
    BY SayOther
  <1>1. ASSUME NEW n \in 1..Len(Text(sent)), handle_success(n) PROVE ResponseInv'
    BY <1>1 DEF ResponseInv, handle_success
  <1>2. CASE handle_error
    <2>1. data_ = <<>>
      BY <1>2 DEF DataInv, handle_error
    <2>2. ~is_valid(data_)
      BY <2>1, EmptyInvalid
    <2>. QED BY <1>2, <1>s, <2>2, ResponseMade, StatusCodes, Types DEF handle_error, Write
  <1>3. CASE handle_invalid_request
    <2>1. PICK b \in Heap : Write(WithType(400, CString(b), Plain))
      BY <1>3 DEF handle_invalid_request
    <2>2. CString(b) \in Seq(Nat)
      BY <1>d, HeapAssumption, CStringIs
    <2>. QED BY <1>3, <2>1, <2>2, ResponseMade, StatusCodes, Types DEF handle_invalid_request, Write
  <1>4. CASE sleep_for
    BY <1>4 DEF sleep_for, ResponseInv, Routed
  <1>5. CASE generate_echo_response
    <2>1. PICK b \in Heap : Route(WithType(200, CString(b), Plain))
      BY <1>5 DEF generate_echo_response
    <2>2. CString(b) \in Seq(Nat)
      BY <1>d, HeapAssumption, CStringIs
    <2>3. is_valid(data_)
      BY <1>5 DEF generate_echo_response, Routed, ResponseInv
    <2>4. CString(b) # Say(1)
      <3>1. data_ # <<>> /\ data_[1] = METHOD /\ METHOD # NUL /\ METHOD # 400 + 1
        BY <2>3, ValidStart DEF METHOD, NUL
      <3>2. CString(b)[1] = METHOD
        BY <1>d, <3>1, HeapAssumption, CStringIs
      <3>. QED BY <3>1, <3>2, SayIs
    <2>. QED BY <1>5, <2>1, <2>2, <2>3, <2>4, ResponseMade, StatusCodes, Types DEF generate_echo_response, Route
  <1>6. ASSUME NEW h, Routed(h) PROVE is_valid(data_)
    BY <1>6 DEF Routed
  <1>r. ASSUME NEW h, Routed(h), UNCHANGED <<headers_, data_>>,
               NEW code \in Nat \ {LF}, NEW n \in 2..10, NEW type \in {Plain, Html, Json},
               Route(WithType(code, Say(n), type))
        PROVE  ResponseInv'
    <2>1. is_valid(data_)
      BY <1>6, <1>r
    <2>2. Say(n) \in Seq(Nat) /\ Say(n) # Say(1)
      <3>1. n \in Nat /\ n # 1
        OBVIOUS
      <3>. QED BY <3>1, SayIs, SayOther
    <2>. HIDE DEF Say
    <2>. QED BY <1>r, <2>1, <2>2, ResponseMade DEF Route
  <1>7. CASE health_handle_request
    <2>1. Routed("health") /\ UNCHANGED <<headers_, data_>>
      BY <1>7 DEF health_handle_request
    <2>2. Route(WithType(200, Say(2), Plain)) \/ Route(WithType(400, Say(3), Plain))
      BY <1>7 DEF health_handle_request
    <2>3. 2 \in 2..10 /\ 3 \in 2..10 /\ 200 \in Nat \ {LF} /\ 400 \in Nat \ {LF}
      BY StatusCodes
    <2>. QED BY <1>r, <2>1, <2>2, <2>3
  <1>8. CASE generate_404_response
    <2>. DEFINE u == get_uri(data_)
                p == Say(4)
                q == Say(5)
                v == p \o u
                w == v \o q
    <2>1. is_valid(data_)
      BY <1>6, <1>8 DEF generate_404_response
    <2>2. u \in Seq(Nat)
      BY <1>d, <2>1, UriIsText
    <2>3. Route(WithType(404, w, Plain))
      BY <1>8 DEF generate_404_response
    <2>. HIDE DEF u
    <2>s. p \in Seq(Nat) /\ q \in Seq(Nat) /\ Len(p) = 1 /\ Len(q) = 1 /\ Len(Say(1)) = 1
      BY SayIs
    <2>. HIDE DEF p, q
    <2>4. v \in Seq(Nat) /\ Len(v) = 1 + Len(u) /\ Len(u) \in Nat
      <3>1. v \in Seq(Nat) /\ Len(v) = Len(p) + Len(u)
        BY <2>2, <2>s, StandsConcat
      <3>2. Len(u) \in Nat
        BY <2>2
      <3>. QED BY <2>s, <3>1, <3>2
    <2>. HIDE DEF v
    <2>5. w \in Seq(Nat) /\ Len(w) = 1 + Len(u) + 1
      <3>1. w \in Seq(Nat) /\ Len(w) = Len(v) + Len(q)
        BY <2>4, <2>s, StandsConcat
      <3>. QED BY <2>s, <2>4, <3>1
    <2>. HIDE DEF w
    <2>6. w # Say(1)
      <3>1. Len(w) # 1
        BY <2>4, <2>5
      <3>. QED BY <2>s, <3>1
    <2>. QED BY <1>8, <2>1, <2>3, <2>5, <2>6, ResponseMade, StatusCodes, Types DEF generate_404_response, Route
  <1>9. CASE status_handle_request
    <2>1. set_body(WithType(200, Say(10), Html), Say(6)) = WithType(200, Say(6), Html)
      <3>. DEFINE x == Say(10)
                  y == Say(6)
                  h == [n \in {ContentType} |-> Html]
      <3>1. x \in Seq(Nat) /\ y \in Seq(Nat) /\ 200 \in Nat \ {LF}
        <4>1. 10 \in Nat /\ 6 \in Nat
          OBVIOUS
        <4>2. x \in Seq(Nat) /\ y \in Seq(Nat)
          BY <4>1, SayIs
        <4>. QED BY <4>2, StatusCodes
      <3>. HIDE DEF x, y
      <3>2. WithType(200, x, Html) = [status_code_ |-> 200, response_headers_ |-> h, response_body_ |-> x]
        BY <3>1, MadeIs, Types, ZenonT(40)
      <3>3. WithType(200, y, Html) = [status_code_ |-> 200, response_headers_ |-> h, response_body_ |-> y]
        BY <3>1, MadeIs, Types, ZenonT(40)
      <3>. HIDE DEF h
      <3>4. set_body(WithType(200, x, Html), y) = WithType(200, y, Html)
        BY <3>2, <3>3 DEF set_body
      <3>. QED BY <3>4 DEF x, y
    <2>2. Routed("status") /\ UNCHANGED <<headers_, data_>> /\ Route(WithType(200, Say(6), Html))
      BY <1>9, <2>1 DEF status_handle_request
    <2>3. 6 \in 2..10 /\ 200 \in Nat \ {LF}
      BY StatusCodes
    <2>. QED BY <1>r, <2>2, <2>3
  <1>10. CASE create_meme
    <2>1. Routed("meme") /\ UNCHANGED <<headers_, data_>>
      BY <1>10 DEF create_meme
    <2>2. \/ Route(WithType(400, Say(7), Plain)) \/ Route(WithType(201, Say(8), Json))
          \/ Route(WithType(500, Say(9), Plain))
      BY <1>10 DEF create_meme
    <2>3. 7 \in 2..10 /\ 8 \in 2..10 /\ 9 \in 2..10
          /\ 400 \in Nat \ {LF} /\ 201 \in Nat \ {LF} /\ 500 \in Nat \ {LF}
      BY StatusCodes
    <2>. QED BY <1>r, <2>1, <2>2, <2>3
  <1>11. CASE catch
    <2>1. Routed("meme") /\ UNCHANGED <<headers_, data_>> /\ Write(WithType(500, Say(1), Plain))
      BY <1>11 DEF catch
    <2>2. Say(1) \in Seq(Nat) /\ 500 \in Nat \ {LF}
      BY <1>s, <2>1, StatusCodes
    <2>. QED BY <2>1, <2>2, ResponseMade, Types DEF Write
  <1>12. CASE apply_default_headers
    <2>1. IsMade(made) /\ resp = made /\ Handled(data_, made)
      BY <1>12 DEF apply_default_headers, ResponseInv
    <2>2. IsResponse(made)
      BY <2>1, MadeResponse
    <2>3. IsHeaders(headers_)
      BY HeaderAssumption DEF DataInv, IsHeaders
    <2>4. resp' = Overridden(made, headers_)
      BY <1>12, <2>1, <2>2, <2>3, DefaultsApplied DEF apply_default_headers
    <2>. QED BY <1>12, <2>1, <2>4 DEF apply_default_headers, ResponseInv
  <1>13. CASE Done \/ UNCHANGED vars
    BY <1>13 DEF ResponseInv, Routed, Done, vars
  <1>. QED BY <1>1, <1>2, <1>3, <1>4, <1>5, <1>7, <1>8, <1>9, <1>10, <1>11, <1>12, <1>13 DEF Next

LEMMA ResponseInvariant == Spec => [](DataInv /\ ResponseInv)
  <1>1. Init => ResponseInv
    BY DEF Init, ResponseInv
  <1>. QED BY <1>1, DataInvariant, ResponseStep, PTL DEF Spec

\* Whatever the handler answers, whatever default headers are registered and in
\* whatever order the unordered_map gives them, the client reads the status, the
\* headers and the body that were set (response.cc, router.cc).
THEOREM ReadIsSetCorrect == Spec => []ReadIsSet
  <1>1. DataInv /\ ResponseInv => ReadIsSet
    <2>. SUFFICES ASSUME DataInv, ResponseInv, pc = "written", NEW text \in generate_response(resp)
                  PROVE  LET got == Read(text)
                             default == IF ByHandler THEN headers_ ELSE <<>>
                         IN /\ got.status_code_ = made.status_code_
                            /\ got.response_body_ = made.response_body_
                            /\ DOMAIN got.response_headers_ = {ContentType} \cup DOMAIN default
                            /\ \A n \in DOMAIN got.response_headers_ :
                                 got.response_headers_[n] =
                                   IF n \in DOMAIN default THEN default[n] ELSE made.response_headers_[n]
      BY DEF ReadIsSet
    <2>1. IsMade(made) /\ ByHandler = Handled(data_, made)
      BY DEF ResponseInv, ByHandler, Handled
    <2>2. IsResponse(made) /\ DOMAIN made.response_headers_ = {ContentType}
      BY <2>1, MadeResponse
    <2>3. IsHeaders(headers_)
      BY HeaderAssumption DEF DataInv, IsHeaders
    <2>4. CASE ByHandler
      <3>1. resp = Overridden(made, headers_)
        BY <2>1, <2>4 DEF ResponseInv
      <3>2. IsResponse(resp)
        BY <2>2, <2>3, <3>1, OverriddenIs
      <3>3. Read(text) = resp
        BY <3>2, ReadGenerated
      <3>4. /\ resp.status_code_ = made.status_code_
            /\ resp.response_body_ = made.response_body_
            /\ resp.response_headers_ =
                 [n \in DOMAIN made.response_headers_ \cup DOMAIN headers_ |->
                    IF n \in DOMAIN headers_ THEN headers_[n] ELSE made.response_headers_[n]]
        BY <2>2, <2>3, <3>1, OverriddenIs
      <3>. QED BY <2>2, <2>4, <3>3, <3>4
    <2>5. CASE ~ByHandler
      <3>1. resp = made
        BY <2>1, <2>5 DEF ResponseInv
      <3>2. Read(text) = made
        BY <2>2, <3>1, ReadGenerated
      <3>3. DOMAIN <<>> = {}
        OBVIOUS
      <3>. QED BY <2>2, <2>5, <3>2, <3>3
    <2>. QED BY <2>4, <2>5
  <1>. QED BY <1>1, ResponseInvariant, PTL

-----------------------------------------------------------------------------
(* What the parser makes of a beginning of a request *)

\* Texts in a row are made of what each of them is made of.
LEMMA JoinsNarrow ==
  ASSUME NEW A, NEW B, NEW n \in Nat, NEW f, NEW texts, Joins(f, n, A, texts),
         \A i \in 1..n : texts[i] \in Seq(B)
  PROVE  Joins(f, n, B, texts)
  <1>1. f = [i \in 0..n |-> f[i]] /\ f[0] = <<>> /\ \A i \in 1..n : f[i] = f[i - 1] \o texts[i]
    BY DEF Joins
  <1>2. f[0] \in Seq(B)
    <2>1. <<>> \in Seq(B)
      OBVIOUS
    <2>. QED BY <1>1, <2>1
  <1>3. ASSUME NEW i \in 1..n, f[i - 1] \in Seq(B) PROVE f[i] \in Seq(B)
    <2>. DEFINE x == f[i - 1]
                y == texts[i]
    <2>1. x \in Seq(B) /\ y \in Seq(B) /\ f[i] = x \o y
      BY <1>1, <1>3
    <2>. HIDE DEF x, y
    <2>. QED BY <2>1, Concatenation
  <1>4. \A i \in 0..n : f[i] \in Seq(B)
    BY <1>2, <1>3, LoopStays
  <1>. QED BY <1>1, <1>4 DEF Joins

LEMMA FreeSeq ==
  ASSUME NEW A, NEW s \in Seq(A), NEW C, \A i \in 1..Len(s) : s[i] \notin C
  PROVE  s \in Seq(A \ C)
  OBVIOUS

LEMMA NotEmpty ==
  ASSUME NEW A, NEW s \in Seq(A), s # <<>>
  PROVE  Len(s) \in Nat /\ 1 <= Len(s)
  OBVIOUS

LEMMA OneLineIs ==
  ASSUME NEW s \in Seq(Nat)
  PROVE  OneLine(s) <=> \A j \in 1..Len(s) : s[j] \notin {CR, LF}
  <1>1. DOMAIN s = 1..Len(s)
    OBVIOUS
  <1>. QED BY <1>1 DEF OneLine

LEMMA NoColonIs ==
  ASSUME NEW text \in Seq(Nat), NoColon(text)
  PROVE  \A j \in 1..(Len(text) - 1) : ~(text[j] = Colon /\ text[j + 1] = SP)
  <1>. SUFFICES ASSUME NEW j \in 1..(Len(text) - 1) PROVE ~(text[j] = Colon /\ text[j + 1] = SP)
    OBVIOUS
  <1>. DEFINE u == SubSeq(text, j, j + 1)
              k == j + 1
  <1>1. Len(text) \in Nat /\ j \in 1..(Len(text) + 1) /\ k \in (j - 1)..Len(text) /\ k - j + 1 = 2
        /\ 1 \in 1..2 /\ 2 \in 1..2 /\ j + 1 - 1 = j /\ j + 2 - 1 = j + 1
    OBVIOUS
  <1>2. u \in Seq(Nat) /\ Len(u) = 2 /\ \A i \in 1..2 : u[i] = text[j + i - 1]
    <2>. HIDE DEF k
    <2>1. /\ SubSeq(text, j, k) \in Seq(Nat) /\ Len(SubSeq(text, j, k)) = 2
          /\ \A i \in 1..2 : SubSeq(text, j, k)[i] = text[j + i - 1]
      BY <1>1, Part
    <2>. QED BY <2>1 DEF k
  <1>3. u # <<Colon, SP>>
    BY DEF NoColon
  <1>. HIDE DEF u
  <1>4. u[1] = text[j] /\ u[2] = text[j + 1]
    BY <1>1, <1>2
  <1>5. ~(u[1] = Colon /\ u[2] = SP)
    BY <1>2, <1>3
  <1>. QED BY <1>4, <1>5

\* What stands in a text has its characters.
LEMMA StandsOne ==
  ASSUME NEW t, NEW p, NEW x, Stands(t, p, <<x>>)
  PROVE  t[p + 1] = x /\ p \in Nat /\ p + 1 <= Len(t) /\ Len(t) \in Nat
  BY DEF Stands

LEMMA StandsTwo ==
  ASSUME NEW t, NEW p, NEW x, NEW y, Stands(t, p, <<x, y>>)
  PROVE  t[p + 1] = x /\ t[p + 2] = y /\ p \in Nat /\ p + 2 <= Len(t) /\ Len(t) \in Nat
  <1>1. Len(<<x, y>>) = 2 /\ 1 \in 1..2 /\ 2 \in 1..2 /\ <<x, y>>[1] = x /\ <<x, y>>[2] = y
    OBVIOUS
  <1>. QED BY <1>1 DEF Stands

\* The line of a header: the name, a colon and a space, the value, the line end.
\* No later colon and space leaves a character for the value.
HeaderShape(s, x, y, a, b) ==
    /\ s \in Seq(Nat) /\ x \in Seq(Nat) /\ y \in Seq(Nat) /\ a = Len(x) /\ b = Len(y)
    /\ a \in Nat /\ b \in Nat /\ 1 <= a /\ 1 <= b
    /\ Len(s) = a + 2 + b + 2
    /\ Stands(s, 0, x) /\ Stands(s, a + 2, y)
    /\ s[a + 1] = Colon /\ s[a + 2] = SP /\ s[a + 2 + b + 1] = CR /\ s[a + 2 + b + 2] = LF
    /\ \A j \in 1..(a + 2 + b) : s[j] \notin {CR, LF}
    /\ \A j \in (a + 2)..(a + b + 1) : ~(s[j] = Colon /\ s[j + 1] = SP)

LEMMA SentHeaderShape ==
  ASSUME NEW r \in Requests, NEW i \in 1..Len(r.headers)
  PROVE  HeaderShape(SentHeader(r, i), r.headers[i][1], r.headers[i][2],
                     Len(r.headers[i][1]), Len(r.headers[i][2]))
  <1>. DEFINE x == r.headers[i][1]
              y == r.headers[i][2]
              s == SentHeader(r, i)
              a == Len(x)
              b == Len(y)
              C == {CR, LF}
  <1>1. x # <<>> /\ OneLine(x) /\ y # <<>> /\ OneLine(y) /\ NoColon(y)
    BY RequestAssumption
  <1>2. /\ x \in Seq(Nat) /\ y \in Seq(Nat) /\ s \in Seq(Nat) /\ Len(s) = a + 2 + b + 2
        /\ Stands(s, 0, x) /\ Stands(s, a, <<Colon, SP>>) /\ Stands(s, a + 2, y)
        /\ Stands(s, a + 2 + b, CRLF)
    BY SentHeaderIs
  <1>. HIDE DEF x, y, s
  <1>3. a \in Nat /\ b \in Nat /\ 1 <= a /\ 1 <= b
    BY <1>1, <1>2, NotEmpty
  <1>4. s[a + 1] = Colon /\ s[a + 2] = SP
    BY <1>2, StandsTwo
  <1>5. s[a + 2 + b + 1] = CR /\ s[a + 2 + b + 2] = LF
    BY <1>2, StandsTwo DEF CRLF
  <1>6. (\A j \in 1..a : s[0 + j] = x[j]) /\ \A j \in 1..b : s[a + 2 + j] = y[j]
    BY <1>2 DEF Stands
  <1>7. (\A j \in 1..a : x[j] \notin C) /\ \A j \in 1..b : y[j] \notin C
    BY <1>1, <1>2, OneLineIs
  <1>8. Colon \notin C /\ SP \notin C /\ Colon # SP
    BY DEF Colon, SP, CR, LF
  <1>9. \A j \in 1..(b - 1) : ~(y[j] = Colon /\ y[j + 1] = SP)
    BY <1>1, <1>2, NoColonIs
  <1>. HIDE DEF a, b, C
  <1>10. ASSUME NEW j \in 1..(a + 2 + b) PROVE s[j] \notin C
    <2>1. CASE j \in 1..a
      BY <1>3, <1>6, <1>7, <2>1
    <2>2. CASE j = a + 1 \/ j = a + 2
      BY <1>4, <1>8, <2>2
    <2>3. CASE j > a + 2
      <3>. DEFINE k == j - (a + 2)
      <3>1. k \in 1..b /\ a + 2 + k = j
        BY <1>3, <2>3
      <3>. HIDE DEF k
      <3>. QED BY <1>6, <1>7, <3>1
    <2>. QED BY <1>3, <2>1, <2>2, <2>3
  <1>11. ASSUME NEW j \in (a + 2)..(a + b + 1) PROVE ~(s[j] = Colon /\ s[j + 1] = SP)
    <2>1. CASE j = a + 2
      BY <1>4, <1>8, <2>1
    <2>2. CASE j > a + 2
      <3>. DEFINE k == j - (a + 2)
                  l == k + 1
      <3>1. k \in 1..(b - 1) /\ k \in 1..b /\ l \in 1..b /\ a + 2 + k = j /\ a + 2 + l = j + 1
        BY <1>3, <2>2
      <3>2. ~(y[k] = Colon /\ y[l] = SP)
        BY <1>9, <3>1
      <3>. HIDE DEF k, l
      <3>. QED BY <1>6, <3>1, <3>2
    <2>. QED BY <1>3, <2>1, <2>2
  <1>. QED BY <1>2, <1>3, <1>4, <1>5, <1>10, <1>11 DEF HeaderShape, x, y, s, a, b, C

\* A parameter has no character that its mark, its name and its value do not have.
LEMMA ParamTextFree ==
  ASSUME NEW r \in Requests, NEW i \in 1..Len(r.params), NEW C,
         (IF i = 1 THEN Question ELSE Ampersand) \notin C, Equals \notin C,
         Free(r.params[i][1], C), Free(r.params[i][2], C)
  PROVE  ParamText(r, i) \in Seq(Nat \ C)
  <1>. DEFINE D == Nat \ C
              c == IF i = 1 THEN Question ELSE Ampersand
              m == <<c>>
              x == r.params[i][1]
              e == <<Equals>>
              y == r.params[i][2]
              mx == m \o x
              mxe == mx \o e
  <1>1. ParamText(r, i) = mxe \o y
    BY DEF ParamText
  <1>2. x \in Seq(Nat) /\ y \in Seq(Nat)
    BY ParamTextIs
  <1>3. c \in D /\ Equals \in D
    BY DEF Question, Ampersand, Equals
  <1>. HIDE DEF x, y, c
  <1>4. x \in Seq(D) /\ y \in Seq(D)
    <2>1. DOMAIN x = 1..Len(x) /\ DOMAIN y = 1..Len(y)
      BY <1>2
    <2>2. (\A j \in 1..Len(x) : x[j] \notin C) /\ \A j \in 1..Len(y) : y[j] \notin C
      BY <2>1 DEF Free, x, y
    <2>. QED BY <1>2, <2>2, FreeSeq
  <1>. HIDE DEF D
  <1>5. m \in Seq(D) /\ e \in Seq(D)
    BY <1>3
  <1>. HIDE DEF m, e
  <1>6. mx \in Seq(D)
    BY <1>4, <1>5, Concatenation
  <1>. HIDE DEF mx
  <1>7. mxe \in Seq(D)
    BY <1>5, <1>6, Concatenation
  <1>. HIDE DEF mxe
  <1>8. mxe \o y \in Seq(D)
    BY <1>4, <1>7, Concatenation
  <1>. QED BY <1>1, <1>8 DEF D

LEMMA QueryOneLine ==
  ASSUME NEW r \in Requests
  PROVE  QueryOf(r) \in Seq(Nat \ {CR, LF})
  <1>. DEFINE n == Len(r.params)
              C == {CR, LF}
  <1>1. PICK g : Joins(g, n, Nat, ParamTexts(r)) /\ QueryOf(r) = g[n]
    BY QueryJoins
  <1>2. n \in Nat
    BY QueryJoins
  <1>3. ASSUME NEW i \in 1..n PROVE ParamTexts(r)[i] \in Seq(Nat \ C)
    <2>1. Question \notin C /\ Ampersand \notin C /\ Equals \notin C
      BY DEF Question, Ampersand, Equals, CR, LF
    <2>2. Free(r.params[i][1], C) /\ Free(r.params[i][2], C)
      <3>1. Free(r.params[i][1], {CR, LF, Question, Equals}) /\ Free(r.params[i][2], {CR, LF, Question})
        BY RequestAssumption
      <3>. QED BY <3>1 DEF Free
    <2>3. ParamText(r, i) \in Seq(Nat \ C)
      <3>. HIDE DEF C
      <3>. QED BY <2>1, <2>2, ParamTextFree
    <2>. QED BY <2>3 DEF ParamTexts
  <1>. HIDE DEF C, n
  <1>4. Joins(g, n, Nat \ C, ParamTexts(r))
    BY <1>1, <1>2, <1>3, JoinsNarrow
  <1>5. n \in 0..n
    BY <1>2
  <1>6. g[n] \in Seq(Nat \ C)
    BY <1>4, <1>5 DEF Joins
  <1>. QED BY <1>1, <1>6 DEF C

\* The request line: the URI is all that stands between the method and the version.
LineShape(s, u, a) ==
    /\ s \in Seq(Nat) /\ u \in Seq(Nat) /\ a = Len(u) /\ a \in Nat /\ 1 <= a /\ Len(s) = a + 6
    /\ s[1] = METHOD /\ s[2] = SP /\ Stands(s, 2, u)
    /\ s[a + 3] = SP /\ s[a + 4] = VERSION /\ s[a + 5] = CR /\ s[a + 6] = LF
    /\ \A j \in 1..(a + 4) : s[j] \notin {CR, LF}

LEMMA SentLineShape ==
  ASSUME NEW r \in Requests
  PROVE  LineShape(Line(r), Target(r), Len(Target(r)))
  <1>. DEFINE s == Line(r)
              u == Target(r)
              a == Len(u)
              p == r.path
              q == QueryOf(r)
              C == {CR, LF}
              D == Nat \ C
              w == <<SP, VERSION, CR, LF>>
  <1>1. /\ s \in Seq(Nat) /\ u \in Seq(Nat) /\ p \in Seq(Nat) /\ Len(s) = 2 + a + 4
        /\ a = Len(p) + Len(q) /\ q \in Seq(Nat)
        /\ Stands(s, 0, <<METHOD, SP>>) /\ Stands(s, 2, u) /\ Stands(s, 2 + a, w)
    BY LineIs
  <1>2. u = p \o q
    BY DEF Target
  <1>3. OneLine(p) /\ p # <<>>
    BY RequestAssumption
  <1>4. q \in Seq(D)
    BY QueryOneLine
  <1>. HIDE DEF s, u, p, q
  <1>5. a \in Nat /\ 1 <= a
    <2>1. Len(p) \in Nat /\ 1 <= Len(p) /\ Len(q) \in Nat
      BY <1>1, <1>3, NotEmpty
    <2>. QED BY <1>1, <2>1
  <1>6. u \in Seq(D)
    <2>1. p \in Seq(D)
      BY <1>1, <1>3, OneLineIs, FreeSeq
    <2>. HIDE DEF D
    <2>. QED BY <1>2, <1>4, <2>1, Concatenation
  <1>7. \A j \in 1..a : u[j] \notin C
    <2>1. \A j \in 1..a : u[j] \in D
      <3>. HIDE DEF D
      <3>. QED BY <1>6
    <2>. QED BY <2>1
  <1>8. s[1] = METHOD /\ s[2] = SP
    <2>1. s[0 + 1] = METHOD /\ s[0 + 2] = SP
      BY <1>1, StandsTwo
    <2>. QED BY <2>1
  <1>9. s[a + 3] = SP /\ s[a + 4] = VERSION /\ s[a + 5] = CR /\ s[a + 6] = LF
    <2>1. Len(w) = 4 /\ w[1] = SP /\ w[2] = VERSION /\ w[3] = CR /\ w[4] = LF
      OBVIOUS
    <2>. HIDE DEF w
    <2>2. \A j \in 1..4 : s[2 + a + j] = w[j]
      BY <1>1, <2>1 DEF Stands
    <2>3. s[2 + a + 1] = SP /\ s[2 + a + 2] = VERSION /\ s[2 + a + 3] = CR /\ s[2 + a + 4] = LF
      BY <2>1, <2>2
    <2>4. 2 + a + 1 = a + 3 /\ 2 + a + 2 = a + 4 /\ 2 + a + 3 = a + 5 /\ 2 + a + 4 = a + 6
      BY <1>5
    <2>. QED BY <2>3, <2>4
  <1>10. \A j \in 1..a : s[2 + j] = u[j]
    BY <1>1 DEF Stands
  <1>11. METHOD \notin C /\ SP \notin C /\ VERSION \notin C
    BY DEF METHOD, SP, VERSION, CR, LF
  <1>12. 2 + a + 4 = a + 6
    BY <1>5
  <1>. HIDE DEF a, C
  <1>13. ASSUME NEW j \in 1..(a + 4) PROVE s[j] \notin C
    <2>1. CASE j = 1 \/ j = 2
      BY <1>8, <1>11, <2>1
    <2>2. CASE j = a + 3 \/ j = a + 4
      BY <1>9, <1>11, <2>2
    <2>3. CASE j > 2 /\ j < a + 3
      <3>. DEFINE k == j - 2
      <3>1. k \in 1..a /\ 2 + k = j
        BY <1>5, <2>3
      <3>. HIDE DEF k
      <3>. QED BY <1>7, <1>10, <3>1
    <2>. QED BY <1>5, <2>1, <2>2, <2>3
  <1>. QED BY <1>1, <1>5, <1>8, <1>9, <1>12, <1>13 DEF LineShape, s, u, a, C

\* Where the lines of a text end: the request line at h[0], header k at h[k], and
\* behind them an empty line and the body.
Framed(r, t, n, h) ==
    /\ t \in Seq(Nat) /\ n \in Nat /\ n = Len(r.headers) /\ h \in [0..n -> Nat]
    /\ h[0] = Len(Line(r)) /\ Stands(t, 0, Line(r))
    /\ \A k \in 1..n : h[k] = h[k - 1] + Len(SentHeader(r, k)) /\ Stands(t, h[k - 1], SentHeader(r, k))
    /\ \A k \in 0..n : h[k] <= h[n]
    /\ Stands(t, h[n], CRLF) /\ r.body \in Seq(Nat) /\ Stands(t, h[n] + 2, r.body)
    /\ Len(t) = h[n] + 2 + Len(r.body)

LEMMA TextFramed ==
  ASSUME NEW r \in Requests
  PROVE  \E h : Framed(r, Text(r), Len(r.headers), h)
  <1>. DEFINE n == Len(r.headers)
              t == Text(r)
              L == Len(Line(r))
              texts == SentHeaders(r)
  <1>1. PICK g : TextIs(r, n, g)
    BY TextJoins
  <1>. DEFINE h == [k \in 0..n |-> L + Len(g[k])]
  <1>2. /\ n \in Nat /\ Joins(g, n, Nat, texts) /\ r.body \in Seq(Nat)
        /\ t \in Seq(Nat) /\ Len(t) = L + Len(g[n]) + 2 + Len(r.body)
        /\ Stands(t, 0, Line(r)) /\ Stands(t, L, g[n]) /\ Stands(t, L + Len(g[n]), CRLF)
        /\ Stands(t, L + Len(g[n]) + 2, r.body)
    BY <1>1 DEF TextIs
  <1>3. \A k \in 1..n : texts[k] = SentHeader(r, k)
    BY DEF SentHeaders
  <1>4. L \in Nat
    BY LineIs
  <1>. HIDE DEF n, t, L, texts
  <1>5. \A k \in 0..n : g[k] \in Seq(Nat) /\ Len(g[k]) \in Nat
    BY <1>2 DEF Joins
  <1>6. g[0] = <<>> /\ Len(g[0]) = 0 /\ 0 \in 0..n /\ n \in 0..n
    BY <1>2 DEF Joins
  <1>7. h \in [0..n -> Nat] /\ h[0] = L /\ h[n] = L + Len(g[n])
    BY <1>4, <1>5, <1>6
  <1>8. ASSUME NEW k \in 1..n
        PROVE  h[k] = h[k - 1] + Len(SentHeader(r, k)) /\ Stands(t, h[k - 1], SentHeader(r, k))
    <2>1. n \in 1..n /\ k \in 1..n
      BY <1>2
    <2>2. PieceOf(g, n, k, Nat, texts)
      BY <1>2, <2>1, JoinsPiece
    <2>. DEFINE x == Len(g[k - 1])
                y == Len(g[k])
                z == Len(texts[k])
    <2>3. y = x + z /\ Stands(g[n], x, texts[k]) /\ texts[k] \in Seq(Nat)
      BY <2>2 DEF PieceOf
    <2>4. x \in Nat /\ z \in Nat /\ h[k] = L + y /\ h[k - 1] = L + x
      <3>1. k \in 0..n /\ k - 1 \in 0..n
        BY <1>2
      <3>2. x \in Nat /\ z \in Nat
        BY <1>5, <2>3, <3>1
      <3>3. h[k] = L + y /\ h[k - 1] = L + x
        BY <3>1
      <3>. QED BY <3>2, <3>3
    <2>5. Stands(t, L + x, texts[k])
      BY <1>2, <2>3, StandsTrans
    <2>. HIDE DEF x, y, z, h
    <2>6. h[k] = h[k - 1] + z
      BY <1>4, <2>3, <2>4
    <2>. QED BY <1>3, <2>4, <2>5, <2>6 DEF z
  <1>9. ASSUME NEW k \in 0..n PROVE h[k] <= h[n]
    <2>1. Matches(g[k], g[n])
      BY <1>2, <1>6, JoinsPrefix
    <2>2. Len(g[k]) <= Len(g[n])
      BY <1>5, <1>6, <2>1 DEF Matches
    <2>3. h[k] = L + Len(g[k])
      OBVIOUS
    <2>. HIDE DEF h
    <2>. QED BY <1>4, <1>5, <1>6, <1>7, <2>2, <2>3
  <1>. HIDE DEF h
  <1>10. Framed(r, t, n, h)
    BY <1>2, <1>7, <1>8, <1>9 DEF Framed, n, L
  <1>. QED BY <1>10 DEF t, n

\* The line ends of a framed text, up to the empty line.
HeadEnds(t, n, h) ==
    /\ \A k \in 0..n : h[k] \in Nat /\ 2 <= h[k] /\ t[h[k] - 1] = CR /\ t[h[k]] = LF
    /\ \A k \in 1..n : h[k - 1] + 6 <= h[k] /\ \A j \in (h[k - 1] + 1)..(h[k] - 2) : t[j] \notin {CR, LF}
    /\ \A j \in 1..(h[0] - 2) : t[j] \notin {CR, LF}

LEMMA FramedEnds ==
  ASSUME NEW r \in Requests, NEW t, NEW n, NEW h, Framed(r, t, n, h)
  PROVE  HeadEnds(t, n, h)
  <1>. DEFINE C == {CR, LF}
  <1>1. /\ n \in Nat /\ n = Len(r.headers) /\ h \in [0..n -> Nat] /\ h[0] = Len(Line(r)) /\ Stands(t, 0, Line(r))
        /\ \A k \in 1..n : h[k] = h[k - 1] + Len(SentHeader(r, k)) /\ Stands(t, h[k - 1], SentHeader(r, k))
    BY DEF Framed
  <1>2. /\ h[0] \in Nat /\ 2 <= h[0] /\ t[h[0] - 1] = CR /\ t[h[0]] = LF
        /\ \A j \in 1..(h[0] - 2) : t[j] \notin C
    <2>. DEFINE s == Line(r)
                u == Target(r)
                a == Len(u)
    <2>1. LineShape(s, u, a)
      BY SentLineShape
    <2>. HIDE DEF s, u, a
    <2>2. /\ a \in Nat /\ 1 <= a /\ Len(s) = a + 6 /\ s[a + 5] = CR /\ s[a + 6] = LF
          /\ \A j \in 1..(a + 4) : s[j] \notin C
      BY <2>1 DEF LineShape
    <2>3. h[0] = a + 6
      BY <1>1, <2>2 DEF s
    <2>4. \A j \in 1..(a + 6) : t[j] = s[j]
      <3>1. \A j \in 1..(a + 6) : t[0 + j] = s[j]
        BY <1>1, <2>2 DEF Stands, s
      <3>2. \A j \in 1..(a + 6) : 0 + j = j
        BY <2>2
      <3>. QED BY <3>1, <3>2
    <2>5. a + 6 - 1 = a + 5 /\ a + 6 - 2 = a + 4 /\ a + 5 \in 1..(a + 6) /\ a + 6 \in 1..(a + 6)
          /\ \A j \in 1..(a + 4) : j \in 1..(a + 6)
      BY <2>2
    <2>. HIDE DEF C
    <2>6. \A j \in 1..(a + 4) : t[j] \notin C
      BY <2>2, <2>4, <2>5
    <2>7. t[a + 5] = CR /\ t[a + 6] = LF
      BY <2>2, <2>4, <2>5
    <2>. QED BY <2>2, <2>3, <2>5, <2>6, <2>7
  <1>3. ASSUME NEW k \in 1..n
        PROVE  /\ h[k] \in Nat /\ 2 <= h[k] /\ t[h[k] - 1] = CR /\ t[h[k]] = LF
               /\ h[k - 1] + 6 <= h[k] /\ \A j \in (h[k - 1] + 1)..(h[k] - 2) : t[j] \notin C
    <2>. DEFINE s == SentHeader(r, k)
                x == r.headers[k][1]
                y == r.headers[k][2]
                a == Len(x)
                b == Len(y)
                p == h[k - 1]
                m == a + 2 + b
    <2>1. HeaderShape(s, x, y, a, b)
      BY <1>1, SentHeaderShape
    <2>2. p \in Nat /\ h[k] = p + Len(s) /\ Stands(t, p, s)
      <3>1. k - 1 \in 0..n
        BY <1>1
      <3>. QED BY <1>1, <3>1
    <2>. HIDE DEF s, x, y, a, b, p, C
    <2>3. /\ a \in Nat /\ b \in Nat /\ 1 <= a /\ 1 <= b /\ Len(s) = m + 2 /\ s[m + 1] = CR /\ s[m + 2] = LF
          /\ \A j \in 1..m : s[j] \notin C
      BY <2>1 DEF HeaderShape, C
    <2>4. m \in Nat /\ 4 <= m
      BY <2>3
    <2>. HIDE DEF m
    <2>5. \A j \in 1..(m + 2) : t[p + j] = s[j]
      BY <2>2, <2>3 DEF Stands

    <2>7. h[k] = p + (m + 2) /\ h[k] - 1 = p + (m + 1) /\ h[k] - 2 = p + m /\ h[k] \in Nat /\ p + 6 <= h[k]
      BY <2>2, <2>3, <2>4
    <2>8. m + 1 \in 1..(m + 2) /\ m + 2 \in 1..(m + 2)
      BY <2>4
    <2>9. t[h[k] - 1] = CR /\ t[h[k]] = LF
      <3>1. t[p + (m + 1)] = CR /\ t[p + (m + 2)] = LF
        BY <2>3, <2>5, <2>8
      <3>. QED BY <2>7, <3>1
    <2>10. ASSUME NEW j \in (p + 1)..(h[k] - 2) PROVE t[j] \notin C
      <3>. DEFINE i == j - p
      <3>1. i \in 1..m /\ i \in 1..(m + 2) /\ p + i = j
        BY <2>2, <2>4, <2>7
      <3>. HIDE DEF i
      <3>. QED BY <2>3, <2>5, <3>1
    <2>11. 2 <= h[k]
      BY <2>2, <2>4, <2>7
    <2>. QED BY <2>7, <2>9, <2>10, <2>11 DEF p
  <1>4. \A k \in 0..n : k = 0 \/ k \in 1..n
    BY <1>1
  <1>. QED BY <1>2, <1>3, <1>4 DEF HeadEnds

\* The head has no other line ends.
LEMMA HeadEndsOnly ==
  ASSUME NEW t, NEW n \in Nat, NEW h, HeadEnds(t, n, h), NEW i \in Nat, 1 <= i, i <= h[n], t[i] \in {CR, LF}
  PROVE  \E k \in 0..n : i = h[k] \/ i = h[k] - 1
  <1>. DEFINE C == {CR, LF}
              S == {k \in 0..n : i <= h[k]}
  <1>1. /\ \A k \in 0..n : h[k] \in Nat
        /\ \A k \in 1..n : \A j \in (h[k - 1] + 1)..(h[k] - 2) : t[j] \notin C
        /\ \A j \in 1..(h[0] - 2) : t[j] \notin C
    BY DEF HeadEnds
  <1>2. n \in 0..n /\ 0 \in 0..n
    OBVIOUS
  <1>3. S \in SUBSET Nat /\ n \in S
    BY <1>2
  <1>4. PICK k \in S : \A m \in S : ~(m < k)
    <2>. HIDE DEF S
    <2>. QED BY <1>3, LeastExists
  <1>5. k \in 0..n /\ i <= h[k] /\ h[k] \in Nat
    BY <1>1, <1>4
  <1>. SUFFICES ASSUME i < h[k] - 1 PROVE FALSE
    BY <1>5
  <1>6. CASE k = 0
    <2>1. i \in 1..(h[0] - 2)
      BY <1>5, <1>6
    <2>. HIDE DEF C
    <2>. QED BY <1>1, <2>1 DEF C
  <1>7. CASE k # 0
    <2>1. k \in 1..n /\ k - 1 \in 0..n /\ k - 1 < k
      BY <1>5, <1>7
    <2>2. ~(i <= h[k - 1])
      BY <1>4, <2>1
    <2>3. i \in (h[k - 1] + 1)..(h[k] - 2)
      BY <1>1, <1>5, <2>1, <2>2
    <2>. HIDE DEF C
    <2>. QED BY <1>1, <2>1, <2>3 DEF C
  <1>. QED BY <1>6, <1>7

LEMMA HeadLineFeed ==
  ASSUME NEW t, NEW n \in Nat, NEW h, HeadEnds(t, n, h), NEW i \in Nat, 1 <= i, i <= h[n], t[i] = LF
  PROVE  \E k \in 0..n : i = h[k]
  <1>1. t[i] \in {CR, LF} /\ CR # LF
    BY DEF CR, LF
  <1>2. PICK k \in 0..n : i = h[k] \/ i = h[k] - 1
    BY <1>1, HeadEndsOnly
  <1>3. t[h[k] - 1] = CR
    BY DEF HeadEnds
  <1>. QED BY <1>1, <1>2, <1>3

LEMMA HeadReturn ==
  ASSUME NEW t, NEW n \in Nat, NEW h, HeadEnds(t, n, h), NEW i \in Nat, 1 <= i, i <= h[n], t[i] = CR
  PROVE  \E k \in 0..n : i = h[k] - 1
  <1>1. t[i] \in {CR, LF} /\ CR # LF
    BY DEF CR, LF
  <1>2. PICK k \in 0..n : i = h[k] \/ i = h[k] - 1
    BY <1>1, HeadEndsOnly
  <1>3. t[h[k]] = LF
    BY DEF HeadEnds
  <1>. QED BY <1>1, <1>2, <1>3

LEMMA CutFour ==
  ASSUME NEW t \in Seq(Nat), NEW e \in 1..(Len(t) - 3), NEW s \in Seq(Nat), Len(s) = 4
  PROVE  SubSeq(t, e, e + 3) = s <=> t[e] = s[1] /\ t[e + 1] = s[2] /\ t[e + 2] = s[3] /\ t[e + 3] = s[4]
  <1>. DEFINE k == e + 3
              u == SubSeq(t, e, k)
  <1>1. Len(t) \in Nat /\ e \in 1..(Len(t) + 1) /\ k \in (e - 1)..Len(t) /\ k - e + 1 = 4
        /\ e + 1 - 1 = e /\ e + 2 - 1 = e + 1 /\ e + 3 - 1 = e + 2 /\ e + 4 - 1 = e + 3
        /\ 1 \in 1..4 /\ 2 \in 1..4 /\ 3 \in 1..4 /\ 4 \in 1..4
    OBVIOUS
  <1>. HIDE DEF k
  <1>2. u \in Seq(Nat) /\ Len(u) = 4 /\ \A i \in 1..4 : u[i] = t[e + i - 1]
    BY <1>1, Part
  <1>. HIDE DEF u
  <1>3. u[1] = t[e] /\ u[2] = t[e + 1] /\ u[3] = t[e + 2] /\ u[4] = t[e + 3]
    BY <1>1, <1>2
  <1>4. u = s <=> \A i \in 1..4 : u[i] = s[i]
    BY <1>2, SeqEqual
  <1>5. (\A i \in 1..4 : u[i] = s[i]) <=> u[1] = s[1] /\ u[2] = s[2] /\ u[3] = s[3] /\ u[4] = s[4]
    BY <1>1
  <1>. QED BY <1>3, <1>4, <1>5 DEF u, k

\* Four characters: the version with its line end, and an empty line.
VersionMark(t, e) == t[e] = SP /\ t[e + 1] = VERSION /\ t[e + 2] = CR /\ t[e + 3] = LF
BlankMark(t, e) == t[e] = CR /\ t[e + 1] = LF /\ t[e + 2] = CR /\ t[e + 3] = LF

LEMMA VersionCut ==
  ASSUME NEW t \in Seq(Nat), NEW e \in 1..(Len(t) - 3)
  PROVE  SubSeq(t, e, e + 3) = <<SP, VERSION>> \o CRLF <=> VersionMark(t, e)
  <1>. DEFINE s == <<SP, VERSION>> \o CRLF
  <1>1. s \in Seq(Nat) /\ Len(s) = 4 /\ s[1] = SP /\ s[2] = VERSION /\ s[3] = CR /\ s[4] = LF
    BY DEF CRLF, SP, VERSION, CR, LF
  <1>. HIDE DEF s
  <1>2. SubSeq(t, e, e + 3) = s <=> t[e] = s[1] /\ t[e + 1] = s[2] /\ t[e + 2] = s[3] /\ t[e + 3] = s[4]
    BY <1>1, CutFour
  <1>. QED BY <1>1, <1>2 DEF s, VersionMark

LEMMA BlankCut ==
  ASSUME NEW t \in Seq(Nat), NEW e \in 1..(Len(t) - 3)
  PROVE  SubSeq(t, e, e + 3) = CRLF \o CRLF <=> BlankMark(t, e)
  <1>. DEFINE s == CRLF \o CRLF
  <1>1. s \in Seq(Nat) /\ Len(s) = 4 /\ s[1] = CR /\ s[2] = LF /\ s[3] = CR /\ s[4] = LF
    BY DEF CRLF, CR, LF
  <1>. HIDE DEF s
  <1>2. SubSeq(t, e, e + 3) = s <=> t[e] = s[1] /\ t[e + 1] = s[2] /\ t[e + 2] = s[3] /\ t[e + 3] = s[4]
    BY <1>1, CutFour
  <1>. QED BY <1>1, <1>2 DEF s, BlankMark

\* A part of a text is one line if no line end is in it.
LEMMA CutOneLine ==
  ASSUME NEW t \in Seq(Nat), NEW i \in 1..(Len(t) + 1), NEW j \in (i - 1)..Len(t)
  PROVE  OneLine(SubSeq(t, i, j)) <=> \A k \in i..j : t[k] \notin {CR, LF}
  <1>. DEFINE C == {CR, LF}
              u == SubSeq(t, i, j)
              n == j - i + 1
  <1>1. u \in Seq(Nat) /\ Len(u) = n /\ \A k \in 1..n : u[k] = t[i + k - 1]
    BY Part
  <1>. HIDE DEF u
  <1>2. OneLine(u) <=> \A k \in 1..n : u[k] \notin C
    BY <1>1, OneLineIs
  <1>. HIDE DEF C
  <1>3. ASSUME \A k \in 1..n : u[k] \notin C, NEW k \in i..j PROVE t[k] \notin C
    <2>. DEFINE l == k - i + 1
    <2>1. l \in 1..n /\ i + l - 1 = k
      OBVIOUS
    <2>. HIDE DEF l, n
    <2>. QED BY <1>1, <1>3, <2>1
  <1>4. ASSUME \A k \in i..j : t[k] \notin C, NEW k \in 1..n PROVE u[k] \notin C
    <2>. DEFINE l == i + k - 1
    <2>1. l \in i..j
      OBVIOUS
    <2>2. u[k] = t[l]
      BY <1>1
    <2>. HIDE DEF l
    <2>. QED BY <1>4, <2>1, <2>2
  <1>. QED BY <1>2, <1>3, <1>4 DEF u, C

\* d is a beginning of t.
Begins(d, t) == /\ d \in Seq(Nat) /\ t \in Seq(Nat) /\ Len(d) \in Nat /\ Len(t) \in Nat /\ Len(d) <= Len(t)
                /\ \A i \in 1..Len(d) : d[i] = t[i]

\* A beginning of a request is valid if it has the request line, and the URI ends
\* where the client put its end.
LEMMA UriEndsIs ==
  ASSUME NEW r \in Requests, NEW d, Begins(d, Text(r))
  PROVE  UriEnds(d) = IF Len(d) >= Len(Line(r)) THEN {Len(Line(r)) - 3} ELSE {}
  <1>. DEFINE t == Text(r)
              s == Line(r)
              u == Target(r)
              a == Len(u)
              n == Len(d)
  <1>1. LineShape(s, u, a)
    BY SentLineShape
  <1>2. Stands(t, 0, s)
    BY TextJoins DEF TextIs
  <1>. HIDE DEF t, s, u, a
  <1>3. /\ a \in Nat /\ 1 <= a /\ Len(s) = a + 6 /\ s[1] = METHOD /\ s[2] = SP
        /\ s[a + 3] = SP /\ s[a + 4] = VERSION /\ s[a + 5] = CR /\ s[a + 6] = LF
        /\ \A j \in 1..(a + 4) : s[j] \notin {CR, LF}
    BY <1>1 DEF LineShape
  <1>4. d \in Seq(Nat) /\ n \in Nat /\ n <= Len(t) /\ Len(t) \in Nat /\ \A i \in 1..n : d[i] = t[i]
    BY DEF Begins, t
  <1>5. a + 6 <= Len(t) /\ \A j \in 1..(a + 6) : t[j] = s[j]
    <2>1. \A j \in 1..(a + 6) : 0 + j = j
      BY <1>3
    <2>. QED BY <1>2, <1>3, <2>1 DEF Stands
  <1>. HIDE DEF n
  <1>6. \A j \in 1..n : j <= a + 6 => d[j] = s[j]
    <2>. SUFFICES ASSUME NEW j \in 1..n, j <= a + 6 PROVE d[j] = s[j]
      OBVIOUS
    <2>1. n \in Nat /\ a \in Nat
      BY <1>3, <1>4
    <2>2. j \in 1..(a + 6)
      BY <2>1
    <2>3. d[j] = t[j]
      BY <1>4
    <2>. QED BY <1>5, <2>2, <2>3
  <1>7. ASSUME NEW e \in UriEnds(d) PROVE e = a + 3 /\ n >= a + 6
    <2>1. e \in 4..(n - 3) /\ SubSeq(d, e, e + 3) = <<SP, VERSION>> \o CRLF /\ OneLine(SubSeq(d, 3, e - 1))
      BY <1>7 DEF UriEnds, n
    <2>2. e \in 1..(n - 3) /\ 3 \in 1..(n + 1) /\ e - 1 \in (3 - 1)..n
      BY <1>4, <2>1
    <2>3. VersionMark(d, e)
      BY <1>4, <2>1, <2>2, VersionCut DEF n
    <2>4. \A k \in 3..(e - 1) : d[k] \notin {CR, LF}
      BY <1>4, <2>1, <2>2, CutOneLine DEF n
    <2>5. d[e] = SP /\ d[e + 2] = CR
      BY <2>3 DEF VersionMark
    <2>6. e + 2 > a + 4
      <3>. SUFFICES ASSUME e + 2 <= a + 4 PROVE FALSE
        BY <1>3, <2>2
      <3>. DEFINE k == e + 2
      <3>1. k \in 1..n /\ k <= a + 6 /\ k \in 1..(a + 4)
        BY <1>3, <1>4, <2>2
      <3>2. d[k] = CR
        BY <2>5
      <3>. HIDE DEF k
      <3>. QED BY <1>3, <1>6, <3>1, <3>2
    <2>7. e < a + 6
      <3>. SUFFICES ASSUME a + 6 <= e PROVE FALSE
        BY <1>3, <2>2
      <3>. DEFINE k == a + 5
      <3>1. k \in 3..(e - 1) /\ k \in 1..n /\ k <= a + 6
        BY <1>3, <1>4, <2>2
      <3>2. s[k] = CR
        BY <1>3
      <3>. HIDE DEF k
      <3>. QED BY <1>6, <2>4, <3>1, <3>2
    <2>8. d[e] = s[e] /\ (e = a + 3 \/ e = a + 4 \/ e = a + 5)
      BY <1>3, <1>4, <1>6, <2>2, <2>6, <2>7
    <2>9. VERSION # SP /\ CR # SP
      BY DEF VERSION, SP, CR
    <2>10. e = a + 3
      BY <1>3, <2>5, <2>8, <2>9
    <2>. QED BY <1>3, <1>4, <2>1, <2>10
  <1>8. ASSUME n >= a + 6 PROVE a + 3 \in UriEnds(d)
    <2>. DEFINE e == a + 3
    <2>1. e \in 4..(n - 3) /\ e \in 1..(n - 3) /\ 3 \in 1..(n + 1) /\ e - 1 \in (3 - 1)..n
          /\ 1 \in 1..n /\ 2 \in 1..n /\ 1 <= a + 6 /\ 2 <= a + 6
          /\ e \in 1..n /\ e + 1 \in 1..n /\ e + 2 \in 1..n /\ e + 3 \in 1..n
          /\ e <= a + 6 /\ e + 1 <= a + 6 /\ e + 2 <= a + 6 /\ e + 3 <= a + 6
          /\ e + 1 = a + 4 /\ e + 2 = a + 5 /\ e + 3 = a + 6
      <3>1. a \in Nat /\ 1 <= a /\ n \in Nat
        BY <1>3, <1>4
      <3>. QED BY <1>8, <3>1
    <2>2. d[1] = METHOD /\ d[2] = SP
      BY <1>3, <1>6, <2>1
    <2>3. d[a + 3] = SP /\ d[a + 4] = VERSION /\ d[a + 5] = CR /\ d[a + 6] = LF
      BY <1>3, <1>6, <2>1
    <2>4. VersionMark(d, e)
      BY <2>1, <2>3 DEF VersionMark
    <2>5. \A k \in 3..(e - 1) : d[k] \notin {CR, LF}
      <3>1. \A k \in 3..(e - 1) : k \in 1..n /\ k <= a + 6 /\ k \in 1..(a + 4)
        BY <1>3, <1>4, <1>8
      <3>. QED BY <1>3, <1>6, <3>1
    <2>. HIDE DEF e
    <2>6. SubSeq(d, e, e + 3) = <<SP, VERSION>> \o CRLF
      BY <1>4, <2>1, <2>4, VersionCut DEF n
    <2>7. OneLine(SubSeq(d, 3, e - 1))
      BY <1>4, <2>1, <2>5, CutOneLine DEF n
    <2>8. e \in UriEnds(d)
      BY <2>1, <2>2, <2>6, <2>7 DEF UriEnds, n
    <2>. QED BY <2>8 DEF e
  <1>9. Len(Line(r)) = a + 6 /\ Len(Line(r)) - 3 = a + 3
    <2>1. Len(Line(r)) = a + 6
      BY <1>3 DEF s
    <2>. HIDE DEF s
    <2>. QED BY <1>3, <2>1
  <1>10. CASE n >= a + 6
    <2>1. UriEnds(d) = {a + 3}
      BY <1>7, <1>8, <1>10
    <2>2. Len(d) >= Len(Line(r))
      BY <1>9, <1>10 DEF n
    <2>. QED BY <1>9, <2>1, <2>2
  <1>11. CASE ~(n >= a + 6)
    <2>1. UriEnds(d) = {}
      BY <1>7, <1>11
    <2>. QED BY <1>9, <1>11, <2>1 DEF n
  <1>. QED BY <1>10, <1>11

\* The only empty line that parse_body can find is the one in front of the body.
LEMMA BlankOnly ==
  ASSUME NEW r \in Requests, NEW t, NEW n, NEW h, Framed(r, t, n, h), HeadEnds(t, n, h),
         NEW i \in 1..(Len(t) - 3), BlankMark(t, i)
  PROVE  i = h[n] - 1
  <1>. DEFINE w == CRLF \o r.body
              p == h[n]
              B == Len(r.body)
  <1>1. /\ t \in Seq(Nat) /\ n \in Nat /\ h \in [0..n -> Nat] /\ Stands(t, p, CRLF) /\ r.body \in Seq(Nat)
        /\ Stands(t, p + 2, r.body) /\ Len(t) = p + 2 + B
    BY DEF Framed
  <1>2. p \in Nat /\ B \in Nat /\ n \in 0..n
    BY <1>1, SMTT(30)
  <1>3. t[i] = CR /\ t[i + 1] = LF /\ t[i + 2] = CR /\ t[i + 3] = LF
    BY DEF BlankMark
  <1>4. NoEmptyLine(w)
    BY RequestAssumption
  <1>. HIDE DEF p, B
  <1>5. CASE i <= p
    <2>1. i \in Nat /\ 1 <= i
      BY <1>1, <1>2
    <2>2. PICK k \in 0..n : i = h[k] - 1
      <3>1. i <= h[n] /\ t[i] = CR /\ n \in Nat
        BY <1>1, <1>3, <1>5 DEF p
      <3>. QED BY <2>1, <3>1, HeadReturn
    <2>3. CASE k = n
      BY <2>2, <2>3 DEF p
    <2>4. CASE k # n
      <3>. DEFINE m == k + 1
                  j == i + 2
      <3>1. m \in 1..n /\ m - 1 = k
        BY <1>1, <2>4
      <3>. HIDE DEF m
      <3>2. h[k] \in Nat /\ h[m] \in Nat /\ h[k] + 6 <= h[m] /\ \A l \in (h[k] + 1)..(h[m] - 2) : t[l] \notin {CR, LF}
        <4>1. m \in 0..n
          BY <1>1, <3>1
        <4>. QED BY <3>1, <4>1 DEF HeadEnds
      <3>3. j \in (h[k] + 1)..(h[m] - 2)
        <4>. DEFINE x == h[k]
                    y == h[m]
        <4>1. x \in Nat /\ y \in Nat /\ x + 6 <= y /\ i = x - 1
          BY <2>2, <3>2
        <4>. HIDE DEF x, y
        <4>2. j \in (x + 1)..(y - 2)
          BY <2>1, <4>1
        <4>. QED BY <4>2 DEF x, y
      <3>4. t[j] = CR
        BY <1>3
      <3>. HIDE DEF j
      <3>. QED BY <3>2, <3>3, <3>4
    <2>. QED BY <2>3, <2>4
  <1>6. CASE ~(i <= p)
    <2>1. w \in Seq(Nat) /\ Len(w) = 2 + B /\ Stands(w, 0, CRLF) /\ Stands(w, 2, r.body)
      <3>1. CRLF \in Seq(Nat) /\ Len(CRLF) = 2
        BY DEF CRLF, CR, LF
      <3>2. w \in Seq(Nat) /\ Len(w) = Len(CRLF) + B /\ Stands(w, 0, CRLF) /\ Stands(w, Len(CRLF), r.body)
        BY <1>1, <3>1, StandsConcat DEF B
      <3>. HIDE DEF w
      <3>. QED BY <3>1, <3>2
    <2>. HIDE DEF w
    <2>2. w[1] = CR /\ w[2] = LF /\ t[p + 1] = CR /\ t[p + 2] = LF
      <3>1. w[0 + 1] = CR /\ w[0 + 2] = LF /\ t[p + 1] = CR /\ t[p + 2] = LF
        BY <1>1, <2>1, StandsTwo, ZenonT(40) DEF CRLF
      <3>. QED BY <3>1
    <2>3. (\A j \in 1..B : w[2 + j] = r.body[j]) /\ \A j \in 1..B : t[p + 2 + j] = r.body[j]
      BY <1>1, <2>1 DEF Stands, B
    <2>4. ASSUME NEW j \in 1..(2 + B) PROVE w[j] = t[p + j]
      <3>1. CASE j = 1 \/ j = 2
        BY <2>2, <3>1
      <3>2. CASE j > 2
        <4>. DEFINE k == j - 2
        <4>1. k \in 1..B /\ 2 + k = j /\ p + 2 + k = p + j
          BY <1>2, <3>2
        <4>. HIDE DEF k
        <4>. QED BY <2>3, <4>1
      <3>. QED BY <1>2, <3>1, <3>2
    <2>. DEFINE j == i - p
    <2>5. j \in 1..(2 + B - 3) /\ p + j = i /\ p + (j + 1) = i + 1 /\ p + (j + 2) = i + 2 /\ p + (j + 3) = i + 3
          /\ j \in 1..(2 + B) /\ j + 1 \in 1..(2 + B) /\ j + 2 \in 1..(2 + B) /\ j + 3 \in 1..(2 + B)
      BY <1>1, <1>2, <1>6
    <2>. HIDE DEF j
    <2>6. w[j] = CR /\ w[j + 1] = LF /\ w[j + 2] = CR /\ w[j + 3] = LF
      BY <1>3, <2>4, <2>5
    <2>7. BlankMark(w, j)
      BY <2>6 DEF BlankMark
    <2>8. j \in 1..(Len(w) - 3)
      BY <2>1, <2>5
    <2>9. SubSeq(w, j, j + 3) = CRLF \o CRLF
      BY <2>1, <2>7, <2>8, BlankCut
    <2>. QED BY <1>4, <2>8, <2>9 DEF NoEmptyLine
  <1>. QED BY <1>5, <1>6 DEF p

LEMMA BodyIs ==
  ASSUME NEW r \in Requests, NEW d, Begins(d, Text(r))
  PROVE  /\ get_body(d) \in Seq(Nat) /\ r.body \in Seq(Nat)
         /\ Len(get_body(d)) <= Len(r.body)
         /\ \A k \in 1..Len(get_body(d)) : get_body(d)[k] = r.body[k]
         /\ d = Text(r) /\ OneLine(r.body) => get_body(d) = r.body
  <1>. DEFINE t == Text(r)
              m == Len(r.headers)
              n == Len(d)
              b == r.body
              B == Len(b)
  <1>1. PICK h : Framed(r, t, m, h)
    BY TextFramed
  <1>2. HeadEnds(t, m, h)
    BY <1>1, FramedEnds
  <1>. DEFINE p == h[m]
              E == p - 1
              Mark(i) == SubSeq(d, i, i + 3) = CRLF \o CRLF
              TailAt(i) == OneLine(SubSeq(d, i + 4, n))
              blank == {i \in 1..(n - 4) : Mark(i) /\ TailAt(i)}
              c == SubSeq(d, p + 3, n)
  <1>3. /\ b \in Seq(Nat) /\ Stands(t, p, CRLF) /\ Stands(t, p + 2, b) /\ Len(t) = p + 2 + B
        /\ m \in Nat
    BY <1>1 DEF Framed
  <1>4. p \in Nat /\ 2 <= p /\ t[p - 1] = CR /\ t[p] = LF
    <2>1. m \in 0..m
      BY <1>3
    <2>. QED BY <1>2, <2>1 DEF HeadEnds
  <1>5. d \in Seq(Nat) /\ n \in Nat /\ n <= Len(t) /\ t \in Seq(Nat) /\ \A i \in 1..n : d[i] = t[i]
    BY DEF Begins
  <1>6. get_body(d) = IF blank = {} THEN <<>> ELSE SubSeq(d, Lowest(blank) + 4, n)
    BY DEF get_body
  <1>7. t[p + 1] = CR /\ t[p + 2] = LF
    BY <1>3, StandsTwo DEF CRLF
  <1>8. B \in Nat
    BY <1>3
  <1>9. \A j \in 1..B : t[p + 2 + j] = b[j]
    BY <1>3 DEF Stands
  <1>. HIDE DEF t, n, b, m, p, B
  <1>10. ASSUME NEW i \in blank PROVE i = E
    <2>1. i \in 1..(n - 4) /\ Mark(i)
      OBVIOUS
    <2>2. i \in 1..(n - 3) /\ i \in 1..n /\ i + 1 \in 1..n /\ i + 2 \in 1..n /\ i + 3 \in 1..n /\ i \in 1..(Len(t) - 3)
      BY <1>3, <1>4, <1>5, <1>8, <2>1
    <2>3. BlankMark(d, i)
      BY <1>5, <2>1, <2>2, BlankCut DEF n
    <2>4. BlankMark(t, i)
      <3>1. d[i] = t[i] /\ d[i + 1] = t[i + 1] /\ d[i + 2] = t[i + 2] /\ d[i + 3] = t[i + 3]
        BY <1>5, <2>2
      <3>. QED BY <2>3, <3>1 DEF BlankMark
    <2>. QED BY <1>1, <1>2, <2>2, <2>4, BlankOnly DEF p
  <1>11. ASSUME p + 3 <= n
         PROVE  c \in Seq(Nat) /\ Len(c) = n - (p + 2) /\ Len(c) <= B /\ \A k \in 1..Len(c) : c[k] = b[k]
    <2>. DEFINE q == p + 3
    <2>1. q \in 1..(n + 1) /\ n \in (q - 1)..n /\ n - q + 1 = n - (p + 2) /\ n - (p + 2) <= B /\ n - (p + 2) \in Nat
      BY <1>3, <1>4, <1>5, <1>8, <1>11
    <2>. HIDE DEF q
    <2>2. SubSeq(d, q, n) \in Seq(Nat) /\ Len(SubSeq(d, q, n)) = n - q + 1
          /\ \A k \in 1..(n - q + 1) : SubSeq(d, q, n)[k] = d[q + k - 1]
      BY <1>5, <2>1, Part DEF n
    <2>. USE DEF q
    <2>. HIDE DEF c
    <2>3. c \in Seq(Nat) /\ Len(c) = n - (p + 2) /\ \A k \in 1..Len(c) : c[k] = d[q + k - 1]
      BY <2>1, <2>2 DEF c
    <2>4. ASSUME NEW k \in 1..(n - (p + 2)) PROVE c[k] = b[k]
      <3>. DEFINE j == q + k - 1
      <3>1. j = p + 2 + k /\ j \in 1..n /\ k \in 1..B /\ k \in 1..Len(c)
        BY <1>4, <1>5, <1>8, <2>1, <2>3
      <3>2. c[k] = d[j]
        BY <2>3, <3>1
      <3>. HIDE DEF j
      <3>. QED BY <1>5, <1>9, <3>1, <3>2
    <2>. QED BY <2>1, <2>3, <2>4
  <1>12. blank = {} \/ (get_body(d) = c /\ p + 3 <= n)
    <2>. SUFFICES ASSUME blank # {} PROVE get_body(d) = c /\ p + 3 <= n
      OBVIOUS
    <2>1. E \in blank /\ E \in 1..(n - 4)
      BY <1>10
    <2>2. E \in Int /\ \A j \in blank : E <= j
      <3>1. E \in Int /\ E <= E
        BY <1>4
      <3>. HIDE DEF E, blank
      <3>. QED BY <1>10, <3>1
    <2>3. Lowest(blank) = E
      <3>1. blank \subseteq Int
        OBVIOUS
      <3>. HIDE DEF E, blank
      <3>. QED BY <2>1, <2>2, <3>1, LowestIs
    <2>4. E + 4 = p + 3 /\ p + 3 <= n
      BY <1>4, <1>5, <2>1
    <2>. HIDE DEF E, blank
    <2>. QED BY <1>6, <2>3, <2>4
  <1>13. /\ get_body(d) \in Seq(Nat) /\ Len(get_body(d)) <= B
         /\ \A k \in 1..Len(get_body(d)) : get_body(d)[k] = b[k]
    <2>1. CASE blank = {}
      <3>. DEFINE e == <<>>
      <3>1. e \in Seq(Nat) /\ Len(e) = 0
        OBVIOUS
      <3>2. get_body(d) = e
        BY <1>6, <2>1
      <3>. HIDE DEF e
      <3>. QED BY <1>8, <3>1, <3>2
    <2>2. CASE blank # {}
      <3>. HIDE DEF blank, c
      <3>. QED BY <1>11, <1>12, <2>2
    <2>. QED BY <2>1, <2>2
  <1>14. ASSUME d = t, OneLine(b) PROVE get_body(d) = b
    <2>1. n = p + 2 + B
      BY <1>3, <1>14 DEF n
    <2>2. CASE B = 0
      <3>1. Len(get_body(d)) = 0
        <4>1. Len(get_body(d)) \in Nat
          BY <1>13
        <4>. QED BY <1>13, <2>2, <4>1
      <3>2. b = <<>> /\ get_body(d) = <<>>
        BY <1>3, <1>13, <2>2, <3>1 DEF B
      <3>. QED BY <3>2
    <2>3. CASE B # 0
      <3>1. E \in 1..(n - 4) /\ E \in 1..(n - 3) /\ E + 4 \in 1..(n + 1) /\ n \in (E + 4 - 1)..n
            /\ E + 1 = p /\ E + 2 = p + 1 /\ E + 3 = p + 2 /\ E + 4 = p + 3
        BY <1>4, <1>5, <1>8, <2>1, <2>3
      <3>2. BlankMark(d, E)
        BY <1>4, <1>7, <1>14, <3>1 DEF BlankMark
      <3>3. \A k \in 1..B : b[k] \notin {CR, LF}
        BY <1>3, <1>14, OneLineIs DEF B
      <3>4. ASSUME NEW k \in (E + 4)..n PROVE d[k] \notin {CR, LF}
        <4>. DEFINE j == k - (p + 2)
        <4>1. j \in 1..B /\ p + 2 + j = k
          BY <1>4, <1>8, <2>1, <3>1
        <4>. HIDE DEF j
        <4>. QED BY <1>9, <1>14, <3>3, <4>1
      <3>. DEFINE q == E + 4
      <3>. HIDE DEF E
      <3>5. Mark(E)
        BY <1>5, <3>1, <3>2, BlankCut DEF n
      <3>6. TailAt(E)
        <4>. HIDE DEF q
        <4>1. q \in 1..(n + 1) /\ n \in (q - 1)..n /\ \A k \in q..n : d[k] \notin {CR, LF}
          BY <3>1, <3>4 DEF q
        <4>2. OneLine(SubSeq(d, q, n))
          BY <1>5, <4>1, CutOneLine DEF n
        <4>. QED BY <4>2 DEF q
      <3>7. E \in blank
        <4>. HIDE DEF Mark, TailAt
        <4>. QED BY <3>1, <3>5, <3>6
      <3>8. get_body(d) = c /\ p + 3 <= n
        <4>. HIDE DEF blank, c
        <4>. QED BY <1>12, <3>7
      <3>9. Len(c) = B
        <4>. HIDE DEF c
        <4>. QED BY <1>4, <1>8, <1>11, <2>1, <3>8
      <3>. HIDE DEF c
      <3>10. c = b
        BY <1>3, <1>11, <3>8, <3>9, SeqEqual DEF B
      <3>. QED BY <3>8, <3>10
    <2>. QED BY <2>2, <2>3
  <1>. HIDE DEF blank, c, E
  <1>. QED BY <1>3, <1>13, <1>14 DEF t, b, B

\* A line feed, a colon and a space, and a carriage return in one line: that is a
\* header the client sent.
LEMMA HeaderLineOnly ==
  ASSUME NEW r \in Requests, NEW t, NEW n, NEW h, Framed(r, t, n, h), HeadEnds(t, n, h),
         NEW i \in 1..Len(t), NEW j \in 1..Len(t), t[i] = LF, t[j] = CR,
         \A k \in (i + 1)..(j - 1) : t[k] \notin {CR, LF},
         NEW c \in (i + 2)..(j - 3), t[c] = Colon, t[c + 1] = SP
  PROVE  \E k \in 1..n : i = h[k - 1] /\ j = h[k] - 1
  <1>. DEFINE p == h[n]
              b == r.body
              B == Len(b)
  <1>1. /\ t \in Seq(Nat) /\ n \in Nat /\ h \in [0..n -> Nat] /\ Stands(t, p, CRLF) /\ b \in Seq(Nat)
        /\ Stands(t, p + 2, b) /\ Len(t) = p + 2 + B
    BY DEF Framed
  <1>2. p \in Nat /\ B \in Nat /\ n \in 0..n
    BY <1>1, SMTT(30)
  <1>3. t[p + 1] = CR
    BY <1>1, StandsTwo DEF CRLF
  <1>4. CR # LF
    BY DEF CR, LF
  <1>5. i \in Nat /\ j \in Nat /\ c \in Nat /\ 1 <= i /\ i + 2 <= c /\ c + 3 <= j /\ j <= Len(t) /\ Len(t) \in Nat
    BY <1>1
  <1>6. \A k \in 1..B : t[p + 2 + k] = b[k]
    BY <1>1 DEF Stands
  <1>7. NoColon(b)
    BY RequestAssumption
  <1>. HIDE DEF p, b, B
  <1>8. CASE i <= p
    <2>1. PICK k \in 0..n : i = h[k]
      <3>1. i <= h[n]
        BY <1>8 DEF p
      <3>2. i \in Nat /\ 1 <= i /\ n \in Nat
        BY <1>1, <1>5
      <3>. QED BY <3>1, <3>2, HeadLineFeed
    <2>2. k # n
      <3>. SUFFICES ASSUME k = n PROVE FALSE
        OBVIOUS
      <3>. DEFINE l == i + 1
      <3>1. l \in (i + 1)..(j - 1)
        BY <1>5
      <3>2. t[l] = CR
        BY <1>3, <2>1 DEF p
      <3>. HIDE DEF l
      <3>. QED BY <3>1, <3>2
    <2>. DEFINE m == k + 1
                e == h[m] - 1
    <2>3. m \in 1..n /\ m \in 0..n /\ m - 1 = k
      BY <1>1, <2>2
    <2>. HIDE DEF m
    <2>4. h[m] \in Nat /\ i + 6 <= h[m] /\ t[e] = CR /\ \A l \in (i + 1)..(h[m] - 2) : t[l] \notin {CR, LF}
      BY <2>1, <2>3 DEF HeadEnds
    <2>5. e \in Nat /\ h[m] - 2 = e - 1 /\ i + 5 <= e
      BY <1>5, <2>4, SMTT(30)
    <2>. HIDE DEF e
    <2>6. ~(j < e)
      <3>. SUFFICES ASSUME j < e PROVE FALSE
        OBVIOUS
      <3>1. j \in (i + 1)..(h[m] - 2)
        BY <1>5, <2>5
      <3>. QED BY <2>4, <3>1
    <2>7. ~(e < j)
      <3>. SUFFICES ASSUME e < j PROVE FALSE
        OBVIOUS
      <3>1. e \in (i + 1)..(j - 1)
        BY <1>5, <2>5
      <3>. QED BY <2>4, <3>1
    <2>8. j = e
      BY <1>5, <2>5, <2>6, <2>7
    <2>9. i = h[m - 1] /\ j = h[m] - 1
      BY <2>1, <2>3, <2>8 DEF e
    <2>. QED BY <2>3, <2>9
  <1>9. CASE ~(i <= p)
    <2>1. i # p + 1
      BY <1>3, <1>4
    <2>. DEFINE k == c - (p + 2)
                l == k + 1
    <2>2. k \in 1..(B - 1) /\ k \in 1..B /\ l \in 1..B /\ p + 2 + k = c /\ p + 2 + l = c + 1
      BY <1>1, <1>2, <1>5, <1>9, <2>1
    <2>3. ~(b[k] = Colon /\ b[l] = SP)
      BY <1>1, <1>7, <2>2, NoColonIs DEF B
    <2>. HIDE DEF k, l
    <2>. QED BY <1>6, <2>2, <2>3
  <1>. QED BY <1>8, <1>9

LineOf(h, k) == <<h[k - 1], h[k] - 1>>

\* What parse_headers finds in a beginning of a request are headers of the request.
LEMMA HeaderFound ==
  ASSUME NEW r \in Requests, NEW t, NEW n, NEW h, Framed(r, t, n, h), HeadEnds(t, n, h),
         NEW d, Begins(d, t), NEW l \in HeaderLines(d)
  PROVE  \E k \in 1..n : l = LineOf(h, k) /\ h[k] - 1 <= Len(d)
  <1>. DEFINE m == Len(d)
              i == l[1]
              j == l[2]
  <1>1. /\ l \in (1..m) \X (1..m) /\ i < j /\ d[i] = LF /\ d[j] = CR
        /\ OneLine(SubSeq(d, i + 1, j - 1)) /\ Colons(d, i, j) # {}
    BY DEF HeaderLines
  <1>2. i \in 1..m /\ j \in 1..m /\ l = <<i, j>>
    BY <1>1
  <1>. HIDE DEF i, j
  <1>3. PICK c : c \in (i + 2)..(j - 3) /\ d[c] = Colon /\ d[c + 1] = SP
    BY <1>1 DEF Colons
  <1>4. d \in Seq(Nat) /\ m \in Nat /\ m <= Len(t) /\ Len(t) \in Nat /\ \A k \in 1..m : d[k] = t[k]
    BY DEF Begins
  <1>. HIDE DEF m
  <1>5. i \in 1..Len(t) /\ j \in 1..Len(t) /\ c \in 1..m /\ c + 1 \in 1..m
        /\ i + 1 \in 1..(m + 1) /\ j - 1 \in (i + 1 - 1)..m /\ \A k \in (i + 1)..(j - 1) : k \in 1..m
    <2>1. i \in 1..m /\ j \in 1..m /\ i < j /\ c \in (i + 2)..(j - 3) /\ m \in Nat /\ m <= Len(t) /\ Len(t) \in Nat
      BY <1>1, <1>2, <1>3, <1>4
    <2>. DEFINE o == Len(t)
    <2>. HIDE DEF o
    <2>2. i \in 1..o /\ j \in 1..o
      BY <2>1 DEF o
    <2>3. c \in 1..m /\ c + 1 \in 1..m
      BY <2>1
    <2>4. i + 1 \in 1..(m + 1) /\ j - 1 \in (i + 1 - 1)..m /\ \A k \in (i + 1)..(j - 1) : k \in 1..m
      BY <2>1
    <2>. QED BY <2>2, <2>3, <2>4 DEF o
  <1>6. t[i] = LF /\ t[j] = CR /\ t[c] = Colon /\ t[c + 1] = SP
    BY <1>1, <1>2, <1>3, <1>4, <1>5
  <1>7. \A k \in (i + 1)..(j - 1) : t[k] \notin {CR, LF}
    <2>. DEFINE x == i + 1
                y == j - 1
    <2>1. x \in 1..(m + 1) /\ y \in (x - 1)..m /\ OneLine(SubSeq(d, x, y)) /\ \A k \in x..y : k \in 1..m
      BY <1>1, <1>5
    <2>. HIDE DEF x, y
    <2>2. \A k \in x..y : d[k] \notin {CR, LF}
      BY <1>4, <2>1, CutOneLine DEF m
    <2>3. \A k \in x..y : t[k] \notin {CR, LF}
      BY <1>4, <2>1, <2>2
    <2>. QED BY <2>3 DEF x, y
  <1>8. PICK k \in 1..n : i = h[k - 1] /\ j = h[k] - 1
    BY <1>3, <1>5, <1>6, <1>7, HeaderLineOnly
  <1>9. l = LineOf(h, k) /\ h[k] - 1 <= m
    BY <1>2, <1>4, <1>8 DEF LineOf
  <1>. QED BY <1>9 DEF m

\* A header whose line has been read is found, with its name and its value.
LEMMA HeaderParsed ==
  ASSUME NEW r \in Requests, NEW t, NEW n, NEW h, Framed(r, t, n, h), HeadEnds(t, n, h),
         NEW d, Begins(d, t), NEW k \in 1..n, h[k] - 1 <= Len(d)
  PROVE  /\ LineOf(h, k) \in HeaderLines(d)
         /\ HeaderName(d, LineOf(h, k)) = r.headers[k][1]
         /\ HeaderValue(d, LineOf(h, k)) = r.headers[k][2]
  <1>. DEFINE m == Len(d)
              l == LineOf(h, k)
              s == SentHeader(r, k)
              x == r.headers[k][1]
              y == r.headers[k][2]
              a == Len(x)
              b == Len(y)
              i == h[k - 1]
              j == h[k] - 1
              c == i + (a + 1)
              S == Colons(d, i, j)
  <1>1. n = Len(r.headers) /\ h \in [0..n -> Nat] /\ n \in Nat /\ h[k] = i + Len(s) /\ Stands(t, i, s)
    BY DEF Framed
  <1>2. HeaderShape(s, x, y, a, b)
    BY <1>1, SentHeaderShape
  <1>3. l = <<i, j>> /\ l[1] = i /\ l[2] = j
    BY DEF LineOf
  <1>4. i \in Nat /\ h[k] \in Nat /\ 1 <= i /\ t[i] = LF /\ j <= m
    <2>1. k - 1 \in 0..n /\ k \in 0..n
      BY <1>1
    <2>2. i \in Nat /\ 2 <= i /\ t[i] = LF /\ h[k] \in Nat
      BY <1>1, <2>1 DEF HeadEnds
    <2>. QED BY <2>2
  <1>5. d \in Seq(Nat) /\ m \in Nat /\ m <= Len(t) /\ Len(t) \in Nat /\ \A q \in 1..m : d[q] = t[q]
    BY DEF Begins
  <1>. DEFINE z == h[k]
  <1>. HIDE DEF s, x, y, a, b, i, l, m, z
  <1>6. /\ s \in Seq(Nat) /\ x \in Seq(Nat) /\ y \in Seq(Nat) /\ a = Len(x) /\ b = Len(y)
        /\ a \in Nat /\ b \in Nat /\ 1 <= a /\ 1 <= b /\ Len(s) = a + 2 + b + 2
        /\ Stands(s, 0, x) /\ Stands(s, a + 2, y)
        /\ s[a + 1] = Colon /\ s[a + 2] = SP /\ s[a + 2 + b + 1] = CR
        /\ \A q \in 1..(a + 2 + b) : s[q] \notin {CR, LF}
        /\ \A q \in (a + 2)..(a + b + 1) : ~(s[q] = Colon /\ s[q + 1] = SP)
    BY <1>2 DEF HeaderShape
  <1>7. z = i + (a + 2 + b + 2) /\ j = z - 1
    BY <1>1, <1>6 DEF z
  <1>. HIDE DEF j
  <1>8. /\ i \in Nat /\ 1 <= i /\ a \in Nat /\ 1 <= a /\ b \in Nat /\ 1 <= b /\ m \in Nat /\ j \in Nat /\ j <= m
        /\ j = i + (a + 2 + b + 1) /\ c = i + (a + 1) /\ c \in Nat
    <2>1. i \in Nat /\ 1 <= i /\ a \in Nat /\ 1 <= a /\ b \in Nat /\ 1 <= b /\ m \in Nat /\ j <= m
      BY <1>4, <1>5, <1>6
    <2>2. z = i + (a + 2 + b + 2) /\ j = z - 1
      BY <1>7
    <2>. QED BY <2>1, <2>2
  <1>. HIDE DEF c
  <1>9. \A q \in 1..(a + 2 + b + 1) : i + q \in 1..m /\ d[i + q] = s[q]
    <2>1. \A q \in 1..(a + 2 + b + 2) : t[i + q] = s[q]
      BY <1>1, <1>6 DEF Stands
    <2>2. \A q \in 1..(a + 2 + b + 1) : q \in 1..(a + 2 + b + 2) /\ i + q \in 1..m
      BY <1>8
    <2>. QED BY <1>5, <2>1, <2>2
  <1>10. d[i] = LF /\ d[j] = CR /\ i \in 1..m /\ j \in 1..m /\ i < j
    <2>1. i \in 1..m /\ j \in 1..m /\ i < j
      BY <1>8
    <2>2. d[i] = LF
      BY <1>4, <1>5, <2>1
    <2>. DEFINE q == a + 2 + b + 1
    <2>3. q \in 1..q /\ s[q] = CR
      BY <1>6
    <2>. HIDE DEF q
    <2>4. d[i + q] = CR
      BY <1>9, <2>3 DEF q
    <2>. QED BY <1>8, <2>1, <2>2, <2>4 DEF q
  <1>11. OneLine(SubSeq(d, i + 1, j - 1))
    <2>. DEFINE f == i + 1
                g == j - 1
    <2>1. f \in 1..(m + 1) /\ g \in (f - 1)..m
      BY <1>4, <1>5, <1>10
    <2>2. ASSUME NEW v \in f..g PROVE d[v] \notin {CR, LF}
      <3>. DEFINE q == v - i
      <3>1. q \in 1..(a + 2 + b) /\ q \in 1..(a + 2 + b + 1) /\ i + q = v
        BY <1>8
      <3>. HIDE DEF q
      <3>. QED BY <1>6, <1>9, <3>1
    <2>. HIDE DEF f, g
    <2>3. OneLine(SubSeq(d, f, g))
      BY <1>5, <2>1, <2>2, CutOneLine DEF m
    <2>. QED BY <2>3 DEF f, g
  <1>12. c \in S
    <2>. DEFINE q == a + 1
                v == a + 2
    <2>1. q \in 1..(a + 2 + b + 1) /\ v \in 1..(a + 2 + b + 1) /\ c = i + q /\ c + 1 = i + v /\ c \in (i + 2)..(j - 3)
      BY <1>8
    <2>2. d[c] = Colon /\ d[c + 1] = SP
      <3>1. s[q] = Colon /\ s[v] = SP
        BY <1>6
      <3>. HIDE DEF q, v, c
      <3>. QED BY <1>9, <2>1, <3>1
    <2>. HIDE DEF c
    <2>. QED BY <2>1, <2>2 DEF Colons
  <1>13. ASSUME NEW q \in S PROVE q \in Int /\ q <= c
    <2>1. q \in (i + 2)..(j - 3) /\ d[q] = Colon /\ d[q + 1] = SP
      BY DEF Colons
    <2>2. q \in Int
      BY <1>4, <1>8, <2>1
    <2>. SUFFICES ASSUME ~(q <= c) PROVE FALSE
      BY <2>2
    <2>. DEFINE u == q - i
                v == u + 1
    <2>3. u \in (a + 2)..(a + b + 1) /\ u \in 1..(a + 2 + b + 1) /\ v \in 1..(a + 2 + b + 1)
          /\ i + u = q /\ i + v = q + 1
      <3>1. q \in (i + 2)..(j - 3)
        BY <2>1
      <3>. QED BY <1>8, <2>2, <3>1
    <2>4. ~(s[u] = Colon /\ s[v] = SP)
      BY <1>6, <2>3
    <2>. HIDE DEF u, v
    <2>. QED BY <1>9, <2>1, <2>3, <2>4
  <1>14. Highest(S) = c
    <2>. HIDE DEF S, c
    <2>. QED BY <1>12, <1>13, HighestIs
  <1>15. l \in HeaderLines(d)
    <2>1. l \in (1..m) \X (1..m) /\ S # {}
      BY <1>3, <1>10, <1>12
    <2>. HIDE DEF S
    <2>. QED BY <1>3, <1>10, <1>11, <2>1 DEF HeaderLines, S, m
  <1>. HIDE DEF S
  <1>16. HeaderName(d, l) = SubSeq(d, i + 1, c - 1) /\ HeaderValue(d, l) = SubSeq(d, c + 2, j - 1)
    BY <1>3, <1>14 DEF HeaderName, HeaderValue, S
  <1>17. SubSeq(d, i + 1, c - 1) = x
    <2>1. i + Len(x) <= m /\ Stands(d, i, x)
      <3>1. i + a <= m
        BY <1>8
      <3>2. \A q \in 1..a : q \in 1..(a + 2 + b + 1) /\ 0 + q = q
        BY <1>6
      <3>3. \A q \in 1..a : s[0 + q] = x[q]
        BY <1>6 DEF Stands
      <3>4. \A q \in 1..a : d[i + q] = x[q]
        BY <1>9, <3>2, <3>3
      <3>. QED BY <1>4, <1>5, <1>6, <3>1, <3>4 DEF Stands, m
    <2>2. SubSeq(d, i + 1, i + Len(x)) = x
      BY <1>5, <1>6, <2>1, StandsPart, ZenonT(40)
    <2>3. i + Len(x) = c - 1
      <3>1. i + a = c - 1
        BY <1>8
      <3>. QED BY <1>6, <3>1
    <2>. QED BY <2>2, <2>3
  <1>18. SubSeq(d, c + 2, j - 1) = y
    <2>. DEFINE p == c + 1
    <2>1. Stands(d, p, y) /\ p \in Nat
      <3>1. p + b <= m /\ p \in Nat
        BY <1>8
      <3>2. \A q \in 1..b : a + 2 + q \in 1..(a + 2 + b + 1) /\ i + (a + 2 + q) = p + q
        BY <1>8
      <3>3. \A q \in 1..b : s[a + 2 + q] = y[q]
        BY <1>6 DEF Stands
      <3>. HIDE DEF p
      <3>4. \A q \in 1..b : d[p + q] = y[q]
        BY <1>9, <3>2, <3>3
      <3>. QED BY <1>5, <1>6, <3>1, <3>4 DEF Stands, m
    <2>2. p + 1 = c + 2 /\ p + Len(y) = j - 1
      <3>1. p + 1 = c + 2 /\ p + b = j - 1
        BY <1>8
      <3>. QED BY <1>6, <3>1
    <2>. HIDE DEF p
    <2>3. SubSeq(d, p + 1, p + Len(y)) = y
      BY <1>5, <1>6, <2>1, StandsPart, ZenonT(40)
    <2>. QED BY <2>2, <2>3
  <1>. QED BY <1>15, <1>16, <1>17, <1>18 DEF l, x, y

LEMMA Ascending ==
  ASSUME NEW n \in Nat, NEW h, \A k \in 0..n : h[k] \in Nat, \A k \in 1..n : h[k - 1] < h[k],
         NEW i \in 0..n, NEW j \in 0..n, i < j
  PROVE  h[i] < h[j]
  <1>. DEFINE m == n - i
              T == {e \in 0..m : e = 0 \/ h[i] < h[i + e]}
  <1>1. m \in Nat /\ 0 \in T
    OBVIOUS
  <1>2. ASSUME NEW e \in 1..m, e - 1 \in T PROVE e \in T
    <2>. DEFINE k == i + e
                f == e - 1
                x == h[i]
                y == h[k - 1]
                z == h[k]
    <2>1. k \in 1..n /\ k \in 0..n /\ k - 1 \in 0..n /\ i + f = k - 1 /\ f \in 0..m
      OBVIOUS
    <2>2. f = 0 \/ x < h[i + f]
      BY <1>2
    <2>3. f = 0 => k - 1 = i
      BY <2>1
    <2>. HIDE DEF k, f, m
    <2>4. x \in Nat /\ y \in Nat /\ z \in Nat /\ y < z /\ (x = y \/ x < y)
      BY <2>1, <2>2, <2>3
    <2>. HIDE DEF x, y, z
    <2>5. x < z
      BY <2>4
    <2>. QED BY <1>2, <2>5 DEF x, z, k
  <1>3. \A e \in 0..m : e \in T
    <2>. HIDE DEF T, m
    <2>. QED BY <1>1, <1>2, FiniteInduction
  <1>. DEFINE e == j - i
  <1>4. e \in 0..m /\ e # 0 /\ i + e = j
    OBVIOUS
  <1>. HIDE DEF e, m
  <1>5. h[i] < h[i + e]
    BY <1>3, <1>4
  <1>. QED BY <1>4, <1>5

\* get_header gives the first header of a name, once its line has been read.
LEMMA GetHeaderIs ==
  ASSUME NEW r \in Requests, NEW d, Begins(d, Text(r)), NEW name
  PROVE  /\ get_header(d, name) \in {<<>>, First(r.headers, name)}
         /\ d = Text(r) => get_header(d, name) = First(r.headers, name)
  <1>. DEFINE t == Text(r)
              n == Len(r.headers)
              F == {l \in HeaderLines(d) : HeaderName(d, l) = name}
              K == {k \in 1..n : r.headers[k][1] = name}
              Is(l) == \A m \in F : l[1] <= m[1]
  <1>1. PICK h : Framed(r, t, n, h)
    BY TextFramed
  <1>2. HeadEnds(t, n, h)
    BY <1>1, FramedEnds
  <1>3. n \in Nat /\ DOMAIN r.headers = 1..n /\ h \in [0..n -> Nat] /\ \A k \in 0..n : h[k] <= h[n]
    <2>1. r.headers \in Seq(Seq(Nat) \X Seq(Nat))
      BY RequestAssumption
    <2>. QED BY <1>1, <2>1 DEF Framed
  <1>4. First(r.headers, name) = IF K = {} THEN <<>> ELSE r.headers[Lowest(K)][2]
    BY <1>3 DEF First
  <1>5. get_header(d, name) = IF F = {} THEN <<>> ELSE HeaderValue(d, CHOOSE l \in F : Is(l))
    BY DEF get_header
  <1>6. \A i, j \in 0..n : i < j => h[i] < h[j]
    <2>1. \A k \in 0..n : h[k] \in Nat
      BY <1>3
    <2>2. \A k \in 1..n : h[k - 1] < h[k]
      <3>. SUFFICES ASSUME NEW k \in 1..n PROVE h[k - 1] < h[k]
        OBVIOUS
      <3>1. k - 1 \in 0..n /\ k \in 0..n
        BY <1>3
      <3>. DEFINE x == h[k - 1]
                  y == h[k]
      <3>2. x \in Nat /\ y \in Nat /\ x + 6 <= y
        BY <1>2, <2>1, <3>1 DEF HeadEnds
      <3>. HIDE DEF x, y
      <3>3. x < y
        BY <3>2
      <3>. QED BY <3>3 DEF x, y
    <2>. QED BY <1>3, <2>1, <2>2, Ascending
  <1>. HIDE DEF t, n
  <1>7. ASSUME NEW k \in 1..n, h[k] - 1 <= Len(d), k \in K PROVE LineOf(h, k) \in F
    BY <1>1, <1>2, <1>7, HeaderParsed DEF t
  <1>8. ASSUME NEW l \in F PROVE \E k \in K : l = LineOf(h, k) /\ h[k] - 1 <= Len(d)
    <2>1. PICK k \in 1..n : l = LineOf(h, k) /\ h[k] - 1 <= Len(d)
      BY <1>1, <1>2, HeaderFound DEF t
    <2>2. HeaderName(d, l) = r.headers[k][1]
      BY <1>1, <1>2, <2>1, HeaderParsed DEF t
    <2>. QED BY <2>1, <2>2
  <1>9. CASE F = {}
    <2>1. get_header(d, name) = <<>>
      BY <1>5, <1>9
    <2>2. ASSUME d = t PROVE K = {}
      <3>. SUFFICES ASSUME NEW k \in K PROVE FALSE
        OBVIOUS
      <3>1. h[n] \in Nat /\ h[n] <= Len(d) /\ Len(d) \in Nat
        <4>1. h[n] \in Nat /\ Len(r.body) \in Nat /\ Len(t) = h[n] + 2 + Len(r.body)
          <5>1. n \in 0..n
            BY <1>3
          <5>2. r.body \in Seq(Nat) /\ Len(t) = h[n] + 2 + Len(r.body)
            BY <1>1 DEF Framed
          <5>3. Len(r.body) \in Nat
            BY <5>2
          <5>. QED BY <1>3, <5>1, <5>2, <5>3
        <4>. DEFINE x == h[n]
                    y == Len(r.body)
                    z == Len(d)
        <4>2. x \in Nat /\ y \in Nat /\ z = x + 2 + y
          BY <2>2, <4>1
        <4>. HIDE DEF x, y, z
        <4>3. x \in Nat /\ x <= z /\ z \in Nat
          BY <4>2
        <4>. QED BY <4>3 DEF x, z
      <3>2. h[k] \in Nat /\ h[k] <= h[n]
        BY <1>3
      <3>3. h[k] - 1 <= Len(d)
        <4>. DEFINE x == h[n]
                    y == h[k]
                    z == Len(d)
        <4>. HIDE DEF x, y, z
        <4>1. y - 1 <= z
          BY <3>1, <3>2 DEF x, y, z
        <4>. QED BY <4>1 DEF y, z
      <3>. QED BY <1>7, <1>9, <3>3
    <2>. QED BY <1>4, <2>1, <2>2 DEF t
  <1>10. CASE F # {}
    <2>. DEFINE k0 == Lowest(K)
                l0 == LineOf(h, k0)
    <2>1. PICK l \in F : TRUE
      BY <1>10
    <2>2. PICK k \in K : l = LineOf(h, k) /\ h[k] - 1 <= Len(d)
      BY <1>8
    <2>3. k0 \in K /\ \A j \in K : k0 <= j
      <3>1. K \in SUBSET Nat /\ K # {}
        BY <2>2
      <3>. HIDE DEF K
      <3>. QED BY <3>1, LowestExists
    <2>4. K \in SUBSET (1..n)
      OBVIOUS
    <2>. HIDE DEF k0, F, K, Is
    <2>5. k0 \in 1..n /\ k0 - 1 \in 0..n /\ k0 \in 0..n /\ k \in 0..n
      BY <1>3, <2>2, <2>3, <2>4
    <2>6. h[k0] - 1 <= Len(d)
      <3>1. k0 <= k
        BY <2>2, <2>3
      <3>2. k0 = k \/ k0 < k
        BY <2>5, <3>1
      <3>3. h[k0] <= h[k]
        <4>1. h[k0] \in Nat /\ h[k] \in Nat
          BY <1>3, <2>5
        <4>2. k0 < k => h[k0] < h[k]
          BY <1>6, <2>5
        <4>. QED BY <3>2, <4>1, <4>2
      <3>. DEFINE x == h[k0]
                  y == h[k]
                  z == Len(d)
      <3>4. x \in Nat /\ y \in Nat /\ z \in Nat /\ x <= y /\ y - 1 <= z
        BY <1>3, <2>2, <2>5, <3>3 DEF Begins
      <3>. HIDE DEF x, y, z
      <3>5. x - 1 <= z
        BY <3>4
      <3>. QED BY <3>5 DEF x, z
    <2>7. l0 \in F
      BY <1>7, <2>3, <2>5, <2>6
    <2>8. ASSUME NEW m \in F
          PROVE  h[k0 - 1] \in Nat /\ \E j \in K : j \in 1..n /\ m = LineOf(h, j) /\ m[1] = h[j - 1] /\ h[k0 - 1] <= h[j - 1]
                                               /\ (h[j - 1] <= h[k0 - 1] => j = k0)
      <3>1. PICK j \in K : m = LineOf(h, j)
        BY <1>8
      <3>2. j \in 1..n /\ j - 1 \in 0..n /\ k0 <= j
        BY <1>3, <2>3, <2>4, <3>1
      <3>3. j = k0 \/ k0 - 1 < j - 1
        BY <2>5, <3>2
      <3>4. m[1] = h[j - 1]
        BY <3>1 DEF LineOf
      <3>. DEFINE x == h[k0 - 1]
                  y == h[j - 1]
      <3>5. x \in Nat /\ y \in Nat /\ (j = k0 \/ x < y)
        BY <1>3, <1>6, <2>5, <3>2, <3>3
      <3>6. j = k0 => x = y
        OBVIOUS
      <3>. HIDE DEF x, y
      <3>7. x <= y /\ (y <= x => j = k0)
        BY <3>5, <3>6
      <3>. QED BY <3>1, <3>2, <3>4, <3>5, <3>7 DEF x, y
    <2>9. l0[1] = h[k0 - 1]
      BY DEF LineOf
    <2>10. Is(l0)
      BY <2>8, <2>9 DEF Is
    <2>. DEFINE c == CHOOSE x \in F : Is(x)
    <2>11. c \in F /\ Is(c)
      BY <2>7, <2>10
    <2>. HIDE DEF c
    <2>12. c[1] <= l0[1]
      BY <2>7, <2>11 DEF Is
    <2>13. c = l0
      BY <2>8, <2>9, <2>11, <2>12
    <2>14. HeaderValue(d, l0) = r.headers[k0][2]
      BY <1>1, <1>2, <2>5, <2>6, HeaderParsed DEF t
    <2>15. get_header(d, name) = r.headers[k0][2]
      BY <1>5, <1>10, <2>13, <2>14 DEF c
    <2>16. First(r.headers, name) = r.headers[k0][2]
      BY <1>4, <2>2 DEF k0
    <2>. QED BY <2>15, <2>16
  <1>. QED BY <1>9, <1>10

LEMMA ParsedBegins ==
  ASSUME DataInv, Parsed
  PROVE  sent \in Requests /\ Begins(data_, Text(sent))
  <1>1. sent \in Requests
    BY DEF DataInv
  <1>. QED BY <1>1, DataIs DEF Begins

\* Whatever part of a request one read returns, the parser says nothing wrong of
\* it: it is valid exactly if the request line is complete, a header is missing or
\* has the value that was sent, and the body is a beginning of the body that was
\* sent (request.cc).
THEOREM PartAgreesWithWholeCorrect == Spec => []PartAgreesWithWhole
  <1>1. DataInv => PartAgreesWithWhole
    <2>. SUFFICES ASSUME DataInv, Parsed
                  PROVE  /\ is_valid(data_) <=> Len(data_) >= Len(Line(sent))
                         /\ \A n \in HeaderNames : get_header(data_, n) \in {<<>>, First(sent.headers, n)}
                         /\ IsPrefix(get_body(data_), sent.body)
      BY DEF PartAgreesWithWhole
    <2>1. sent \in Requests /\ Begins(data_, Text(sent))
      BY ParsedBegins
    <2>2. is_valid(data_) <=> Len(data_) >= Len(Line(sent))
      <3>1. UriEnds(data_) = IF Len(data_) >= Len(Line(sent)) THEN {Len(Line(sent)) - 3} ELSE {}
        BY <2>1, UriEndsIs
      <3>. DEFINE x == Len(Line(sent)) - 3
                  Q == Len(data_) >= Len(Line(sent))
      <3>. HIDE DEF x, Q
      <3>2. UriEnds(data_) = IF Q THEN {x} ELSE {}
        BY <3>1 DEF x, Q
      <3>3. {x} # {}
        OBVIOUS
      <3>4. UriEnds(data_) # {} <=> Q
        BY <3>2, <3>3
      <3>. QED BY <3>4 DEF is_valid, Q
    <2>3. \A n \in HeaderNames : get_header(data_, n) \in {<<>>, First(sent.headers, n)}
      BY <2>1, GetHeaderIs
    <2>4. IsPrefix(get_body(data_), sent.body)
      BY <2>1, BodyIs, PrefixIs
    <2>. QED BY <2>2, <2>3, <2>4
  <1>. QED BY <1>1, DataInvariant, PTL

\* A request that is read as a whole is valid and is parsed into what the client
\* sent: for each name the first header, and a body of one line (request.cc).
THEOREM ParsedIsSentCorrect == Spec => []ParsedIsSent
  <1>1. DataInv => ParsedIsSent
    <2>. SUFFICES ASSUME DataInv, Complete
                  PROVE  /\ is_valid(data_)
                         /\ \A n \in HeaderNames : get_header(data_, n) = First(sent.headers, n)
                         /\ OneLine(sent.body) => get_body(data_) = sent.body
      BY DEF ParsedIsSent
    <2>1. data_ = Text(sent) /\ Parsed
      BY DEF Complete
    <2>2. sent \in Requests /\ Begins(data_, Text(sent))
      BY <2>1, ParsedBegins
    <2>3. is_valid(data_)
      <3>1. Len(data_) >= Len(Line(sent))
        <4>1. Stands(Text(sent), 0, Line(sent))
          BY <2>2, TextJoins DEF TextIs
        <4>. QED BY <2>1, <4>1 DEF Stands
      <3>2. UriEnds(data_) = {Len(Line(sent)) - 3}
        BY <2>2, <3>1, UriEndsIs
      <3>. QED BY <3>2 DEF is_valid
    <2>4. \A n \in HeaderNames : get_header(data_, n) = First(sent.headers, n)
      BY <2>1, <2>2, GetHeaderIs
    <2>5. OneLine(sent.body) => get_body(data_) = sent.body
      BY <2>1, <2>2, BodyIs
    <2>. QED BY <2>3, <2>4, <2>5
  <1>. QED BY <1>1, DataInvariant, PTL

-----------------------------------------------------------------------------
(* The query *)

LEMMA RawUriIs ==
  ASSUME NEW r \in Requests, NEW d, Begins(d, Text(r)), is_valid(d)
  PROVE  RawUri(d) = Target(r)
  <1>. DEFINE s == Line(r)
              u == Target(r)
              a == Len(u)
              t == Text(r)
              E == Len(s) - 3
              Q == Len(d) >= Len(s)
  <1>1. LineShape(s, u, a) /\ Stands(t, 0, s)
    BY SentLineShape, TextJoins DEF TextIs
  <1>2. UriEnds(d) = IF Q THEN {E} ELSE {}
    BY UriEndsIs
  <1>3. UriEnds(d) # {}
    BY DEF is_valid
  <1>. HIDE DEF s, u, a, t
  <1>4. /\ s \in Seq(Nat) /\ u \in Seq(Nat) /\ a = Len(u) /\ a \in Nat /\ 1 <= a /\ Len(s) = a + 6 /\ Stands(s, 2, u)
    BY <1>1 DEF LineShape
  <1>5. d \in Seq(Nat) /\ Len(d) \in Nat /\ Len(t) \in Nat /\ \A i \in 1..Len(d) : d[i] = t[i]
    BY DEF Begins, t
  <1>6. Q /\ UriEnds(d) = {E} /\ E = a + 3
    <2>1. Q /\ UriEnds(d) = {E}
      <3>. HIDE DEF Q, E
      <3>. QED BY <1>2, <1>3
    <2>. QED BY <1>4, <2>1
  <1>. HIDE DEF E
  <1>7. Highest(UriEnds(d)) = E
    BY <1>6 DEF Highest
  <1>8. RawUri(d) = SubSeq(d, 3, a + 2)
    <2>1. E - 1 = a + 2
      BY <1>4, <1>6
    <2>. QED BY <1>7, <2>1 DEF RawUri
  <1>9. Stands(d, 2, u)
    <2>1. a + 6 <= Len(d) /\ \A j \in 1..a : 2 + j \in 1..Len(d) /\ 2 + j \in 1..(a + 6) /\ 0 + (2 + j) = 2 + j
      <3>. DEFINE m == Len(d)
      <3>. HIDE DEF m
      <3>1. a \in Nat /\ m \in Nat /\ m >= a + 6
        BY <1>4, <1>5, <1>6 DEF m
      <3>2. a + 6 <= m /\ \A j \in 1..a : 2 + j \in 1..m /\ 2 + j \in 1..(a + 6) /\ 0 + (2 + j) = 2 + j
        BY <3>1
      <3>. QED BY <3>2 DEF m
    <2>2. (\A j \in 1..(a + 6) : t[0 + j] = s[j]) /\ \A j \in 1..a : s[2 + j] = u[j]
      BY <1>1, <1>4 DEF Stands
    <2>3. \A j \in 1..a : d[2 + j] = u[j]
      BY <1>5, <2>1, <2>2
    <2>4. 2 + a <= Len(d)
      BY <1>4, <1>5, <2>1
    <2>. QED BY <1>4, <1>5, <2>3, <2>4 DEF Stands
  <1>10. SubSeq(d, 2 + 1, 2 + Len(u)) = u
    BY <1>4, <1>5, <1>9, StandsPart
  <1>11. 2 + 1 = 3 /\ 2 + Len(u) = a + 2
    BY <1>4
  <1>. QED BY <1>8, <1>10, <1>11 DEF u

\* Every character of texts in a row is a character of one of them.
PlaceIn(f, n, texts, j) ==
    \E k \in 1..n : \E p \in 1..Len(texts[k]) : j = Len(f[k - 1]) + p /\ f[n][j] = texts[k][p]

LEMMA JoinsAt ==
  ASSUME NEW A, NEW n \in Nat, NEW f, NEW texts, Joins(f, n, A, texts), NEW j \in 1..Len(f[n])
  PROVE  PlaceIn(f, n, texts, j)
  <1>. DEFINE S == {k \in 0..n : j <= Len(f[k])}
  <1>1. \A k \in 0..n : f[k] \in Seq(A) /\ Len(f[k]) \in Nat
    BY DEF Joins
  <1>2. Len(f[0]) = 0 /\ n \in 0..n /\ 0 \in 0..n
    BY DEF Joins
  <1>3. j \in Nat /\ 1 <= j /\ j <= Len(f[n])
    BY <1>1, <1>2
  <1>4. S \in SUBSET Nat /\ n \in S
    BY <1>2, <1>3
  <1>5. PICK k \in S : \A m \in S : ~(m < k)
    <2>. HIDE DEF S
    <2>. QED BY <1>4, LeastExists
  <1>6. k \in 0..n /\ j <= Len(f[k]) /\ k # 0
    BY <1>2, <1>3, <1>5
  <1>7. k \in 1..n /\ k - 1 \in 0..n /\ k - 1 < k /\ n \in 1..n
    BY <1>6
  <1>8. ~(j <= Len(f[k - 1]))
    BY <1>5, <1>7
  <1>9. PieceOf(f, n, k, A, texts)
    BY <1>7, JoinsPiece
  <1>. DEFINE x == Len(f[k - 1])
              y == Len(texts[k])
              p == j - x
  <1>10. texts[k] \in Seq(A) /\ Len(f[k]) = x + y /\ Stands(f[n], x, texts[k])
    BY <1>9 DEF PieceOf
  <1>11. x \in Nat /\ y \in Nat /\ ~(j <= x) /\ j <= x + y
    <2>1. x \in Nat
      BY <1>1, <1>7
    <2>2. y \in Nat
      BY <1>10
    <2>3. ~(j <= x) /\ j <= x + y
      BY <1>6, <1>8, <1>10
    <2>. QED BY <2>1, <2>2, <2>3
  <1>12. \A i \in 1..y : f[n][x + i] = texts[k][i]
    BY <1>10 DEF Stands
  <1>. HIDE DEF x, y
  <1>13. p \in 1..y /\ x + p = j
    BY <1>3, <1>11
  <1>. HIDE DEF p
  <1>14. f[n][j] = texts[k][p]
    BY <1>12, <1>13
  <1>. QED BY <1>7, <1>13, <1>14 DEF PlaceIn, x, y

\* A parameter has a question mark only in front, if it is the first one.
LEMMA ParamMark ==
  ASSUME NEW r \in Requests, NEW k \in 1..Len(r.params), NEW p \in 1..Len(ParamText(r, k)),
         ParamText(r, k)[p] = Question
  PROVE  k = 1 /\ p = 1
  <1>. DEFINE s == ParamText(r, k)
              x == r.params[k][1]
              y == r.params[k][2]
              a == Len(x)
              b == Len(y)
              c == IF k = 1 THEN Question ELSE Ampersand
  <1>1. /\ x \in Seq(Nat) /\ y \in Seq(Nat) /\ s \in Seq(Nat) /\ Len(s) = 1 + a + 1 + b
        /\ Stands(s, 0, <<c>>) /\ Stands(s, 1, x) /\ Stands(s, 1 + a, <<Equals>>) /\ Stands(s, 1 + a + 1, y)
    BY ParamTextIs
  <1>2. Free(x, {CR, LF, Question, Equals}) /\ Free(y, {CR, LF, Question})
    BY RequestAssumption
  <1>3. Equals # Question /\ Ampersand # Question
    BY DEF Equals, Ampersand, Question
  <1>. HIDE DEF s, x, y
  <1>4. a \in Nat /\ b \in Nat
    BY <1>1
  <1>5. s[0 + 1] = c /\ s[1 + a + 1] = Equals
    <2>. HIDE DEF c
    <2>1. s[0 + 1] = c
      BY <1>1, StandsOne
    <2>2. s[1 + a + 1] = Equals
      BY <1>1, StandsOne
    <2>. QED BY <2>1, <2>2
  <1>6. (\A j \in 1..a : s[1 + j] = x[j] /\ x[j] # Question)
    <2>1. DOMAIN x = 1..a
      BY <1>1
    <2>. QED BY <1>1, <1>2, <2>1 DEF Stands, Free
  <1>7. \A j \in 1..b : s[1 + a + 1 + j] = y[j] /\ y[j] # Question
    <2>1. DOMAIN y = 1..b
      BY <1>1
    <2>. QED BY <1>1, <1>2, <2>1 DEF Stands, Free
  <1>8. p \in 1..(1 + a + 1 + b) /\ s[p] = Question
    BY <1>1 DEF s
  <1>. HIDE DEF a, b
  <1>9. p = 1
    <2>1. CASE p \in 2..(a + 1)
      <3>. DEFINE j == p - 1
      <3>1. j \in 1..a /\ 1 + j = p
        BY <1>4, <2>1
      <3>. HIDE DEF j
      <3>. QED BY <1>6, <1>8, <3>1
    <2>2. CASE p = a + 2
      <3>1. 1 + a + 1 = p
        BY <1>4, <2>2
      <3>. QED BY <1>3, <1>5, <1>8, <3>1
    <2>3. CASE p > a + 2
      <3>. DEFINE j == p - (a + 2)
      <3>1. j \in 1..b /\ 1 + a + 1 + j = p
        BY <1>4, <1>8, <2>3
      <3>. HIDE DEF j
      <3>. QED BY <1>7, <1>8, <3>1
    <2>. QED BY <1>4, <1>8, <2>1, <2>2, <2>3
  <1>10. k = 1
    BY <1>3, <1>5, <1>8, <1>9
  <1>. QED BY <1>9, <1>10

\* The query has its only question mark in front.
LEMMA QueryMarkFirst ==
  ASSUME NEW r \in Requests, r.params # <<>>
  PROVE  /\ QueryOf(r) \in Seq(Nat) /\ 1 <= Len(QueryOf(r)) /\ QueryOf(r)[1] = Question
         /\ \A j \in 2..Len(QueryOf(r)) : QueryOf(r)[j] # Question
  <1>. DEFINE n == Len(r.params)
              q == QueryOf(r)
  <1>1. PICK g : Joins(g, n, Nat, ParamTexts(r)) /\ q = g[n]
    BY QueryJoins
  <1>2. n \in Nat /\ 1 <= n
    <2>1. r.params \in Seq(Seq(Nat) \X Seq(Nat))
      BY RequestAssumption
    <2>. QED BY <2>1, NotEmpty
  <1>3. \A k \in 1..n : ParamTexts(r)[k] = ParamText(r, k)
    BY DEF ParamTexts
  <1>4. q \in Seq(Nat)
    BY LineIs
  <1>. HIDE DEF q
  <1>5. Len(g[0]) = 0 /\ 1 \in 1..n /\ n \in 1..n /\ 1 - 1 = 0
    BY <1>1, <1>2 DEF Joins
  <1>6. 1 <= Len(q) /\ q[1] = Question
    <2>. DEFINE s == ParamTexts(r)[1]
    <2>1. PieceOf(g, n, 1, Nat, ParamTexts(r))
      <3>. HIDE DEF n
      <3>. QED BY <1>1, <1>2, <1>5, JoinsPiece
    <2>2. Stands(q, 0, s)
      BY <1>1, <1>5, <2>1 DEF PieceOf
    <2>3. Stands(s, 0, <<Question>>)
      BY <1>3, <1>5, ParamTextIs
    <2>. HIDE DEF s
    <2>4. Stands(q, 0 + 0, <<Question>>)
      BY <2>2, <2>3, StandsTrans
    <2>5. q[0 + 0 + 1] = Question /\ 0 + 0 + 1 <= Len(q)
      BY <2>4, StandsOne
    <2>. QED BY <2>5
  <1>7. ASSUME NEW j \in 2..Len(q), q[j] = Question PROVE FALSE
    <2>1. j \in 1..Len(g[n])
      BY <1>1, <1>4
    <2>2. PICK k \in 1..n : \E p \in 1..Len(ParamTexts(r)[k]) :
                j = Len(g[k - 1]) + p /\ g[n][j] = ParamTexts(r)[k][p]
      <3>. HIDE DEF n
      <3>1. PlaceIn(g, n, ParamTexts(r), j)
        BY <1>1, <1>2, <2>1, JoinsAt
      <3>. QED BY <3>1 DEF PlaceIn
    <2>3. PICK p \in 1..Len(ParamText(r, k)) : j = Len(g[k - 1]) + p /\ ParamText(r, k)[p] = Question
      BY <1>1, <1>3, <1>7, <2>2
    <2>4. k = 1 /\ p = 1
      BY <2>3, ParamMark
    <2>. QED BY <1>5, <2>3, <2>4
  <1>. QED BY <1>4, <1>6, <1>7 DEF q

\* parse_query_string splits the URI where the client put the question mark.
LEMMA UriSplit ==
  ASSUME NEW r \in Requests, r.params # <<>>
  PROVE  parse_query_string(Target(r)) =
           [uri |-> r.path,
            queries |-> {Parameters(t) : t \in QueryTexts(r.path, SubSeq(QueryOf(r), 2, Len(QueryOf(r))))}]
  <1>. DEFINE u == Target(r)
              p == r.path
              q == QueryOf(r)
              a == Len(p)
              b == Len(q)
              i == a + 1
              S == QueryMark(u)
  <1>1. /\ p \in Seq(Nat) /\ q \in Seq(Nat) /\ u \in Seq(Nat) /\ Len(u) = a + b
        /\ Stands(u, 0, p) /\ Stands(u, a, q)
    BY LineIs
  <1>2. p # <<>>
    BY RequestAssumption
  <1>3. 1 <= b /\ q[1] = Question /\ \A j \in 2..b : q[j] # Question
    BY QueryMarkFirst
  <1>. HIDE DEF u, p, q
  <1>4. a \in Nat /\ 1 <= a /\ b \in Nat
    BY <1>1, <1>2, NotEmpty
  <1>5. \A j \in 1..b : u[a + j] = q[j]
    BY <1>1 DEF Stands
  <1>6. i \in S
    <2>1. i \in 2..Len(u) /\ 1 \in 1..b
      BY <1>1, <1>3, <1>4
    <2>2. u[i] = Question
      BY <1>3, <1>5, <2>1
    <2>. HIDE DEF i
    <2>. QED BY <2>1, <2>2 DEF QueryMark
  <1>7. ASSUME NEW k \in S PROVE k \in Int /\ k <= i
    <2>1. k \in 2..Len(u) /\ u[k] = Question
      BY DEF QueryMark
    <2>2. k \in Int /\ k <= a + b
      BY <1>1, <1>4, <2>1
    <2>. SUFFICES ASSUME i < k PROVE FALSE
      BY <1>4, <2>2
    <2>. DEFINE j == k - a
    <2>3. j \in 2..b /\ j \in 1..b /\ a + j = k
      BY <1>4, <2>2
    <2>. HIDE DEF j
    <2>. QED BY <1>3, <1>5, <2>1, <2>3
  <1>8. Highest(S) = i /\ S # {}
    <2>. HIDE DEF S, i
    <2>. QED BY <1>6, <1>7, HighestIs
  <1>9. SubSeq(u, 1, i - 1) = p
    <2>1. SubSeq(u, 0 + 1, 0 + Len(p)) = p
      BY <1>1, StandsPart
    <2>2. 0 + 1 = 1 /\ 0 + Len(p) = i - 1
      BY <1>4
    <2>. HIDE DEF i, a
    <2>. QED BY <2>1, <2>2
  <1>10. SubSeq(u, i + 1, Len(u)) = SubSeq(q, 2, b)
    <2>. DEFINE v == SubSeq(q, 2, b)
    <2>1. 2 \in 1..(Len(q) + 1) /\ b \in (2 - 1)..Len(q) /\ b - 2 + 1 = b - 1 /\ \A j \in 1..(b - 1) : 2 + j - 1 = j + 1
      BY <1>3, <1>4
    <2>2. v \in Seq(Nat) /\ Len(v) = b - 1 /\ \A j \in 1..(b - 1) : v[j] = q[j + 1]
      <3>1. v \in Seq(Nat) /\ Len(v) = b - 2 + 1 /\ \A j \in 1..(b - 2 + 1) : v[j] = q[2 + j - 1]
        BY <1>1, <2>1, Part, ZenonT(40)
      <3>. HIDE DEF v, b
      <3>. QED BY <2>1, <3>1
    <2>. HIDE DEF v
    <2>3. Stands(u, i, v)
      <3>1. \A j \in 1..(b - 1) : j + 1 \in 1..b /\ a + (j + 1) = i + j
        BY <1>4
      <3>2. \A j \in 1..(b - 1) : u[i + j] = v[j]
        <4>. HIDE DEF i, a, b
        <4>. QED BY <1>5, <2>2, <3>1
      <3>3. i \in Nat /\ Len(u) \in Nat /\ b - 1 \in Nat /\ i + (b - 1) <= Len(u)
        BY <1>1, <1>3, <1>4
      <3>. HIDE DEF i, b
      <3>. QED BY <2>2, <3>2, <3>3 DEF Stands
    <2>4. SubSeq(u, i + 1, i + Len(v)) = v
      <3>. HIDE DEF i
      <3>. QED BY <1>1, <2>2, <2>3, StandsPart
    <2>5. i + Len(v) = Len(u)
      BY <1>1, <1>3, <1>4, <2>2
    <2>. HIDE DEF i
    <2>. QED BY <2>4, <2>5 DEF v
  <1>. HIDE DEF S, i
  <1>11. parse_query_string(u) =
           [uri |-> SubSeq(u, 1, i - 1),
            queries |-> {Parameters(t) : t \in QueryTexts(SubSeq(u, 1, i - 1), SubSeq(u, i + 1, Len(u)))}]
    BY <1>8 DEF parse_query_string, SplitAt, S
  <1>. QED BY <1>9, <1>10, <1>11 DEF u, p, q

\* One round of the loop over the query: the name from s on, its value and the
\* place where the next name begins.
EqualsFrom(qs, s) == {e \in (s + 1)..(Len(qs) - 1) : qs[e] = Equals}
RestFrom(qs, e) == {k \in (e + 2)..(Len(qs) + 1) : k > Len(qs) \/ qs[k] # Ampersand}
PairFrom(qs, s) == <<SubSeq(qs, s, Lowest(EqualsFrom(qs, s)) - 1), <<qs[Lowest(EqualsFrom(qs, s)) + 1]>> >>
NextFrom(qs, s) == Lowest(RestFrom(qs, Lowest(EqualsFrom(qs, s))))
Separating(f, qs) ==
    f = [s \in 1..(Len(qs) + 2) |-> IF EqualsFrom(qs, s) = {} THEN <<>> ELSE <<PairFrom(qs, s)>> \o f[NextFrom(qs, s)]]

LEMMA Separated ==
  ASSUME NEW qs \in Seq(Nat)
  PROVE  \E f : Separating(f, qs) /\ Parameters(qs) = f[1]
  <1>. DEFINE n == Len(qs) + 2
              End(s) == EqualsFrom(qs, s) = {}
              piece == [s \in 1..n |-> IF End(s) THEN <<>> ELSE <<PairFrom(qs, s)>>]
              next == [s \in 1..n |-> IF End(s) THEN 0 ELSE NextFrom(qs, s)]
  <1>1. n \in Nat /\ Len(qs) \in Nat
    OBVIOUS
  <1>2. ASSUME NEW s \in 1..n
        PROVE  /\ End(s) => next[s] = 0 /\ piece[s] = <<>>
               /\ ~End(s) => next[s] = NextFrom(qs, s) /\ next[s] \in (s + 1)..n /\ piece[s] = <<PairFrom(qs, s)>>
    <2>1. CASE End(s)
      BY <2>1
    <2>2. CASE ~End(s)
      <3>. DEFINE S == EqualsFrom(qs, s)
                  e == Lowest(S)
                  R == RestFrom(qs, e)
      <3>1. S # {} /\ S \subseteq (s + 1)..(Len(qs) - 1)
        BY <2>2 DEF EqualsFrom
      <3>2. S \in SUBSET Nat
        <4>. HIDE DEF S
        <4>. QED BY <1>1, <3>1
      <3>3. e \in S
        <4>. HIDE DEF S
        <4>. QED BY <3>1, <3>2, LowestExists
      <3>4. e \in (s + 1)..(Len(qs) - 1)
        <4>. HIDE DEF S
        <4>. QED BY <3>1, <3>3
      <3>. HIDE DEF e
      <3>5. R \subseteq (e + 2)..(Len(qs) + 1) /\ Len(qs) + 1 \in R
        BY <1>1, <3>4 DEF RestFrom
      <3>6. R \in SUBSET Nat /\ R # {}
        <4>. HIDE DEF R
        <4>. QED BY <1>1, <3>4, <3>5
      <3>7. Lowest(R) \in R
        <4>. HIDE DEF R
        <4>. QED BY <3>6, LowestExists
      <3>8. Lowest(R) \in (e + 2)..(Len(qs) + 1)
        <4>. HIDE DEF R
        <4>. QED BY <3>5, <3>7
      <3>9. NextFrom(qs, s) = Lowest(R)
        BY DEF NextFrom, e
      <3>. HIDE DEF R
      <3>10. Lowest(R) \in (s + 1)..n
        BY <1>1, <3>4, <3>8
      <3>11. next[s] = NextFrom(qs, s) /\ piece[s] = <<PairFrom(qs, s)>>
        BY <2>2
      <3>. QED BY <2>2, <3>9, <3>10, <3>11
    <2>. QED BY <2>1, <2>2
  <1>3. next = [s \in 1..n |-> next[s]]
    OBVIOUS
  <1>. HIDE DEF n, piece, next, End
  <1>4. \A s \in 1..n : next[s] \in 0..n /\ (next[s] = 0 \/ next[s] > s) /\ (next[s] = 0 <=> End(s))
    BY <1>1, <1>2
  <1>5. next \in [1..n -> 0..n]
    BY <1>3, <1>4
  <1>6. PICK f : Chain(f, n, piece, next)
    BY <1>1, <1>4, <1>5, ChainExists
  <1>7. Separating(f, qs)
    <2>1. f = [s \in 1..n |-> IF next[s] = 0 THEN piece[s] ELSE piece[s] \o f[next[s]]]
      BY <1>6 DEF Chain, ChainFrom
    <2>2. ASSUME NEW s \in 1..n
          PROVE  f[s] = IF End(s) THEN <<>> ELSE <<PairFrom(qs, s)>> \o f[NextFrom(qs, s)]
      BY <1>2, <1>4, <2>1
    <2>3. f = [s \in 1..n |-> f[s]]
      BY <2>1
    <2>4. f = [s \in 1..n |-> IF End(s) THEN <<>> ELSE <<PairFrom(qs, s)>> \o f[NextFrom(qs, s)]]
      BY <2>2, <2>3
    <2>. QED BY <2>4 DEF Separating, End, n
  <1>8. PICK g : Separating(g, qs) /\ g = CHOOSE h : Separating(h, qs)
    BY <1>7
  <1>9. Parameters(qs) = (CHOOSE h : Separating(h, qs))[1]
    BY DEF Parameters, Separating, EqualsFrom, RestFrom, PairFrom, NextFrom
  <1>. QED BY <1>8, <1>9

LEMMA PairAt ==
  ASSUME NEW qs \in Seq(Nat), NEW s \in Nat, 1 <= s, NEW x \in Seq(Nat), 1 <= Len(x), NEW c,
         s + Len(x) + 1 <= Len(qs), Stands(qs, s - 1, x), \A j \in 1..Len(x) : x[j] # Equals,
         qs[s + Len(x)] = Equals, qs[s + Len(x) + 1] = c
  PROVE  /\ EqualsFrom(qs, s) # {} /\ Lowest(EqualsFrom(qs, s)) = s + Len(x)
         /\ PairFrom(qs, s) = <<x, <<c>> >>
  <1>. DEFINE a == Len(x)
              n == Len(qs)
              e == s + a
              S == EqualsFrom(qs, s)
  <1>1. a \in Nat /\ n \in Nat /\ 1 <= a /\ s + a + 1 <= n
    OBVIOUS
  <1>2. \A j \in 1..a : qs[s - 1 + j] = x[j]
    BY DEF Stands
  <1>3. qs[e] = Equals /\ qs[e + 1] = c
    OBVIOUS
  <1>4. SubSeq(qs, s - 1 + 1, s - 1 + a) = x
    BY StandsPart
  <1>. HIDE DEF a, n
  <1>5. s - 1 + 1 = s /\ s - 1 + a = e - 1
    BY <1>1
  <1>6. e \in S
    <2>1. e \in (s + 1)..(n - 1)
      BY <1>1
    <2>. HIDE DEF e
    <2>. QED BY <1>3, <2>1 DEF EqualsFrom, n
  <1>7. ASSUME NEW k \in S PROVE k \in Int /\ e <= k
    <2>1. k \in (s + 1)..(n - 1) /\ qs[k] = Equals
      BY DEF EqualsFrom, n
    <2>2. k \in Int
      BY <1>1, <2>1
    <2>. SUFFICES ASSUME k < e PROVE FALSE
      BY <1>1, <2>2
    <2>. DEFINE j == k - (s - 1)
    <2>3. j \in 1..a /\ s - 1 + j = k
      BY <1>1, <2>1, <2>2
    <2>. HIDE DEF j
    <2>. QED BY <1>2, <2>1, <2>3 DEF a
  <1>8. Lowest(S) = e
    <2>. HIDE DEF S, e
    <2>. QED BY <1>6, <1>7, LowestIs
  <1>9. PairFrom(qs, s) = <<SubSeq(qs, s, e - 1), <<qs[e + 1]>> >>
    <2>. HIDE DEF e
    <2>. QED BY <1>8 DEF PairFrom
  <1>10. SubSeq(qs, s, e - 1) = x
    <2>. HIDE DEF e
    <2>. QED BY <1>4, <1>5
  <1>11. PairFrom(qs, s) = <<x, <<c>> >>
    <2>. HIDE DEF e
    <2>. QED BY <1>3, <1>9, <1>10
  <1>. QED BY <1>6, <1>8, <1>11 DEF a

LEMMA RestAtEnd ==
  ASSUME NEW qs \in Seq(Nat), NEW e \in Nat, e + 1 = Len(qs)
  PROVE  Lowest(RestFrom(qs, e)) = Len(qs) + 1
  <1>. DEFINE n == Len(qs)
              R == RestFrom(qs, e)
  <1>1. n \in Nat
    OBVIOUS
  <1>2. e + 2 = n + 1 /\ n + 1 > n
    BY <1>1
  <1>3. n + 1 \in R /\ R \subseteq (e + 2)..(n + 1)
    BY <1>1, <1>2 DEF RestFrom
  <1>4. \A k \in R : k \in Int /\ n + 1 <= k
    <2>. HIDE DEF R
    <2>. QED BY <1>1, <1>2, <1>3
  <1>. HIDE DEF R
  <1>. QED BY <1>3, <1>4, LowestIs DEF R

LEMMA RestAtName ==
  ASSUME NEW qs \in Seq(Nat), NEW e \in Nat, e + 3 <= Len(qs), qs[e + 2] = Ampersand, qs[e + 3] # Ampersand
  PROVE  Lowest(RestFrom(qs, e)) = e + 3
  <1>. DEFINE n == Len(qs)
              R == RestFrom(qs, e)
              k == e + 3
  <1>1. n \in Nat /\ e + 3 <= n
    OBVIOUS
  <1>2. k \in (e + 2)..(n + 1) /\ qs[k] # Ampersand
    BY <1>1
  <1>3. k \in R
    <2>. HIDE DEF k
    <2>. QED BY <1>2 DEF RestFrom
  <1>4. ASSUME NEW l \in R PROVE l \in Int /\ k <= l
    <2>1. l \in (e + 2)..(n + 1) /\ (l > n \/ qs[l] # Ampersand)
      BY DEF RestFrom
    <2>2. l \in Int /\ e + 2 <= l
      BY <1>1, <2>1
    <2>3. l # e + 2
      BY <1>1, <2>1
    <2>. QED BY <2>2, <2>3
  <1>5. Lowest(R) = k
    <2>. HIDE DEF R, k
    <2>. QED BY <1>3, <1>4, LowestIs
  <1>. QED BY <1>5

\* Where a parameter with a value of one character stands in a query.  The query
\* qs lacks the question mark; the k-th parameter begins behind p characters.
ParamAt(qs, p, x, y, a, first) ==
    /\ p \in Nat /\ a = Len(x) /\ a \in Nat /\ 1 <= a /\ p + a + 2 <= Len(qs)
    /\ x \in Seq(Nat) /\ Stands(qs, p, x)
    /\ qs[p + 1 + a] = Equals /\ qs[p + 1 + a + 1] = y[1] /\ qs[p + 1] # Ampersand
    /\ ~first => 1 <= p /\ qs[p] = Ampersand

LEMMA ParamPlaced ==
  ASSUME NEW r \in Requests, NEW k \in 1..Len(r.params), Len(r.params[k][2]) = 1,
         NEW q \in Seq(Nat), NEW p \in Nat, Stands(q, p, ParamText(r, k)), k # 1 => 1 <= p,
         NEW qs \in Seq(Nat), Len(qs) = Len(q) - 1, \A j \in 1..Len(qs) : qs[j] = q[j + 1]
  PROVE  ParamAt(qs, p, r.params[k][1], r.params[k][2], Len(r.params[k][1]), k = 1)
  <1>. DEFINE s == ParamText(r, k)
              x == r.params[k][1]
              y == r.params[k][2]
              a == Len(x)
              N == Len(qs)
              c == IF k = 1 THEN Question ELSE Ampersand
  <1>1. /\ x \in Seq(Nat) /\ y \in Seq(Nat) /\ s \in Seq(Nat) /\ Len(s) = 1 + a + 1 + Len(y) /\ x # <<>>
        /\ Stands(s, 0, <<c>>) /\ Stands(s, 1, x) /\ Stands(s, 1 + a, <<Equals>>) /\ Stands(s, 1 + a + 1, y)
    BY ParamTextIs
  <1>2. x[1] # Ampersand /\ Len(y) = 1
    BY RequestAssumption
  <1>3. Stands(q, p, s)
    OBVIOUS
  <1>. HIDE DEF s, x, y
  <1>4. a \in Nat /\ 1 <= a
    BY <1>1, NotEmpty
  <1>5. s[0 + 1] = c /\ s[1 + a + 1] = Equals
    <2>. HIDE DEF c
    <2>1. s[0 + 1] = c
      BY <1>1, StandsOne
    <2>2. s[1 + a + 1] = Equals
      BY <1>1, StandsOne
    <2>. QED BY <2>1, <2>2
  <1>6. (\A j \in 1..a : s[1 + j] = x[j]) /\ s[1 + a + 1 + 1] = y[1]
    <2>1. 1 \in 1..1
      OBVIOUS
    <2>. QED BY <1>1, <1>2, <2>1 DEF Stands
  <1>7. Len(s) = a + 3 /\ Len(q) \in Nat /\ p + (a + 3) <= Len(q) /\ \A j \in 1..(a + 3) : q[p + j] = s[j]
    <2>1. Len(s) = a + 3
      BY <1>1, <1>2, <1>4
    <2>. QED BY <1>3, <2>1 DEF Stands
  <1>8. N \in Nat /\ Len(q) = N + 1
    BY <1>7
  <1>. HIDE DEF a, N, c
  <1>9. p + a + 2 <= N
    BY <1>4, <1>7, <1>8
  <1>10. ASSUME NEW j \in 1..(a + 2) PROVE p + j \in 1..N /\ qs[p + j] = s[j + 1]
    <2>. DEFINE i == p + j
                l == j + 1
    <2>1. i \in 1..N /\ l \in 1..(a + 3) /\ i + 1 = p + l
      <3>1. a \in Nat /\ N \in Nat /\ p + a + 2 <= N
        BY <1>4, <1>8, <1>9
      <3>. QED BY <3>1
    <2>2. qs[i] = q[i + 1]
      <3>. HIDE DEF i
      <3>. QED BY <2>1 DEF N
    <2>. HIDE DEF i, l
    <2>3. qs[i] = s[l]
      BY <1>7, <2>1, <2>2
    <2>. QED BY <2>1, <2>3 DEF i, l
  <1>11. Stands(qs, p, x)
    <2>1. \A j \in 1..a : j \in 1..(a + 2) /\ j + 1 = 1 + j
      BY <1>4
    <2>2. \A j \in 1..a : qs[p + j] = x[j]
      BY <1>6, <1>10, <2>1
    <2>3. p + a <= N
      <3>1. a \in Nat /\ N \in Nat /\ p + a + 2 <= N
        BY <1>4, <1>8, <1>9
      <3>. QED BY <3>1
    <2>. QED BY <1>4, <1>8, <2>2, <2>3 DEF Stands, a, N
  <1>12. qs[p + 1 + a] = Equals /\ qs[p + 1 + a + 1] = y[1]
    <2>. DEFINE i == a + 1
                j == a + 2
    <2>1. i \in 1..(a + 2) /\ j \in 1..(a + 2) /\ p + i = p + 1 + a /\ p + j = p + 1 + a + 1
          /\ i + 1 = 1 + a + 1 /\ j + 1 = 1 + a + 1 + 1
      BY <1>4
    <2>. HIDE DEF i, j
    <2>2. qs[p + i] = s[i + 1] /\ qs[p + j] = s[j + 1]
      BY <1>10, <2>1
    <2>. QED BY <1>5, <1>6, <2>1, <2>2
  <1>13. qs[p + 1] # Ampersand
    <2>1. 1 \in 1..a
      BY <1>4
    <2>. QED BY <1>2, <1>11, <2>1 DEF Stands, a
  <1>14. ASSUME k # 1 PROVE 1 <= p /\ qs[p] = Ampersand
    <2>1. 1 <= p /\ p \in 1..N
      <3>1. a \in Nat /\ N \in Nat /\ p + a + 2 <= N /\ 1 <= p
        BY <1>4, <1>8, <1>9, <1>14
      <3>. QED BY <3>1
    <2>2. qs[p] = q[p + 1]
      BY <2>1 DEF N
    <2>3. 1 \in 1..(a + 3) /\ 0 + 1 = 1
      BY <1>4
    <2>4. q[p + 1] = s[1]
      BY <1>7, <2>3
    <2>. QED BY <1>5, <1>14, <2>1, <2>2, <2>3, <2>4 DEF c
  <1>. QED BY <1>1, <1>4, <1>9, <1>11, <1>12, <1>13, <1>14 DEF ParamAt, x, y, a, N

\* With values of one character the loop finds the parameters that were sent.
LEMMA ParametersAre ==
  ASSUME NEW r \in Requests, r.params # <<>>, \A i \in 1..Len(r.params) : Len(r.params[i][2]) = 1
  PROVE  Parameters(SubSeq(QueryOf(r), 2, Len(QueryOf(r)))) = r.params
  <1>. DEFINE q == QueryOf(r)
              qs == SubSeq(q, 2, Len(q))
              N == Len(qs)
              n == Len(r.params)
              P == r.params
              A == Seq(Nat) \X Seq(Nat)
  <1>1. P \in Seq(A)
    BY RequestAssumption
  <1>2. n \in Nat /\ 1 <= n
    BY <1>1, NotEmpty
  <1>3. q \in Seq(Nat) /\ 1 <= Len(q)
    BY QueryMarkFirst
  <1>4. PICK g : Joins(g, n, Nat, ParamTexts(r)) /\ q = g[n]
    BY QueryJoins
  <1>. HIDE DEF q
  <1>5. qs \in Seq(Nat) /\ N = Len(q) - 1 /\ \A j \in 1..N : qs[j] = q[j + 1]
    <2>. DEFINE b == Len(q)
    <2>1. b \in Nat /\ 1 <= b
      BY <1>3
    <2>2. 2 \in 1..(b + 1) /\ b \in (2 - 1)..b /\ b - 2 + 1 = b - 1 /\ \A j \in 1..(b - 1) : 2 + j - 1 = j + 1
      <3>. HIDE DEF b
      <3>. QED BY <2>1
    <2>3. qs \in Seq(Nat) /\ Len(qs) = b - 2 + 1 /\ \A j \in 1..(b - 2 + 1) : qs[j] = q[2 + j - 1]
      BY <1>3, <2>2, Part
    <2>. HIDE DEF b, qs
    <2>. QED BY <2>2, <2>3 DEF b
  <1>6. PICK f : Separating(f, qs) /\ Parameters(qs) = f[1]
    BY <1>5, Separated
  <1>. HIDE DEF qs
  <1>. DEFINE G == [k \in 0..n |-> Len(g[k])]
  <1>7. G \in [0..n -> Nat] /\ G[0] = 0 /\ G[n] = N + 1 /\ N \in Nat
    <2>1. (\A k \in 0..n : Len(g[k]) \in Nat) /\ g[0] = <<>> /\ Len(g[0]) = 0
      BY <1>4 DEF Joins
    <2>2. 0 \in 0..n /\ n \in 0..n
      BY <1>2
    <2>3. G[n] = Len(q) /\ G[0] = 0
      BY <1>4, <2>1, <2>2
    <2>4. N \in Nat
      BY <1>5
    <2>. HIDE DEF n
    <2>5. G \in [0..n -> Nat]
      BY <2>1
    <2>. HIDE DEF G, N
    <2>6. Len(q) = N + 1
      BY <1>3, <1>5, <2>4
    <2>. QED BY <2>3, <2>4, <2>5, <2>6
  <1>8. ASSUME NEW k \in 1..n
        PROVE  /\ G[k] = G[k - 1] + Len(P[k][1]) + 3
               /\ ParamAt(qs, G[k - 1], P[k][1], P[k][2], Len(P[k][1]), k = 1)
    <2>1. n \in 1..n /\ k - 1 \in 0..n /\ k \in 0..n
      BY <1>2
    <2>2. PieceOf(g, n, k, Nat, ParamTexts(r))
      <3>. HIDE DEF n
      <3>. QED BY <1>2, <1>4, <2>1, JoinsPiece
    <2>3. ParamTexts(r)[k] = ParamText(r, k)
      BY DEF ParamTexts
    <2>4. G[k] = G[k - 1] + Len(ParamText(r, k)) /\ Stands(q, G[k - 1], ParamText(r, k))
      <3>1. G[k] = Len(g[k]) /\ G[k - 1] = Len(g[k - 1])
        BY <2>1
      <3>. HIDE DEF G
      <3>. QED BY <1>4, <2>2, <2>3, <3>1 DEF PieceOf
    <2>. HIDE DEF G
    <2>5. Len(P[k][2]) = 1 /\ Len(ParamText(r, k)) = 1 + Len(P[k][1]) + 1 + Len(P[k][2]) /\ Len(P[k][1]) \in Nat
      <3>1. P[k][1] \in Seq(Nat)
        BY ParamTextIs
      <3>2. Len(ParamText(r, k)) = 1 + Len(P[k][1]) + 1 + Len(P[k][2])
        BY ParamTextIs
      <3>3. Len(P[k][1]) \in Nat
        BY <3>1
      <3>4. Len(P[k][2]) = 1
        OBVIOUS
      <3>. QED BY <3>2, <3>3, <3>4
    <2>6. G[k - 1] \in Nat
      BY <1>7, <2>1
    <2>7. G[k] = G[k - 1] + Len(P[k][1]) + 3
      <3>. DEFINE x == G[k - 1]
                  y == Len(P[k][1])
                  z == Len(ParamText(r, k))
      <3>1. x \in Nat /\ y \in Nat /\ z = 1 + y + 1 + 1 /\ G[k] = x + z
        BY <2>4, <2>5, <2>6
      <3>. HIDE DEF x, y, z
      <3>2. G[k] = x + y + 3
        BY <3>1
      <3>. QED BY <3>2 DEF x, y
    <2>8. ASSUME k # 1 PROVE 1 <= G[k - 1]
      <3>. DEFINE m == k - 1
      <3>1. m \in 1..n /\ m - 1 \in 0..n
        BY <1>2, <2>8
      <3>. HIDE DEF m
      <3>2. PieceOf(g, n, m, Nat, ParamTexts(r)) /\ ParamTexts(r)[m] = ParamText(r, m)
        <4>1. ParamTexts(r)[m] = ParamText(r, m)
          BY <3>1 DEF ParamTexts
        <4>. HIDE DEF n
        <4>. QED BY <1>2, <1>4, <2>1, <3>1, <4>1, JoinsPiece
      <3>3. Len(g[m]) = Len(g[m - 1]) + Len(ParamText(r, m)) /\ Len(g[m - 1]) \in Nat
        BY <3>2 DEF PieceOf
      <3>4. Len(ParamText(r, m)) = 1 + Len(P[m][1]) + 1 + Len(P[m][2]) /\ Len(P[m][1]) \in Nat /\ Len(P[m][2]) \in Nat
        <4>1. P[m][1] \in Seq(Nat) /\ P[m][2] \in Seq(Nat)
          BY <3>1, ParamTextIs
        <4>2. Len(ParamText(r, m)) = 1 + Len(P[m][1]) + 1 + Len(P[m][2])
          BY <3>1, ParamTextIs
        <4>3. Len(P[m][1]) \in Nat /\ Len(P[m][2]) \in Nat
          BY <4>1, SMTT(30)
        <4>. QED BY <4>2, <4>3
      <3>. DEFINE x == Len(g[m])
                  y == Len(g[m - 1])
                  z == Len(ParamText(r, m))
                  v == Len(P[m][1])
                  w == Len(P[m][2])
      <3>5. x = y + z /\ y \in Nat /\ z = 1 + v + 1 + w /\ v \in Nat /\ w \in Nat
        BY <3>3, <3>4
      <3>. HIDE DEF x, y, z, v, w
      <3>6. 1 <= x
        BY <3>5
      <3>. QED BY <2>1, <3>6 DEF x, G, m
    <2>9. ParamAt(qs, G[k - 1], P[k][1], P[k][2], Len(P[k][1]), k = 1)
      BY <1>3, <1>5, <2>4, <2>5, <2>6, <2>8, ParamPlaced
    <2>. QED BY <2>7, <2>9
  <1>. HIDE DEF G, N, n
  <1>. DEFINE at == [k \in 0..n |-> IF k = n THEN N + 1 ELSE G[k] + 1]
  <1>9. /\ \A k \in 1..n : at[k - 1] = G[k - 1] + 1
        /\ at[n] = N + 1 /\ at[0] = 1 /\ \A k \in 1..n : k # n => at[k] = G[k] + 1
    <2>1. \A k \in 1..n : k - 1 \in 0..n /\ k - 1 # n /\ k \in 0..n
      BY <1>2
    <2>2. 0 \in 0..n /\ n \in 0..n /\ 0 # n
      BY <1>2
    <2>3. at[0] = 1
      BY <1>7, <2>2
    <2>. QED BY <2>1, <2>2, <2>3
  <1>. HIDE DEF at
  <1>10. \A s \in 1..(N + 2) : f[s] = IF EqualsFrom(qs, s) = {} THEN <<>> ELSE <<PairFrom(qs, s)>> \o f[NextFrom(qs, s)]
    BY <1>6 DEF Separating, N
  <1>11. f[at[n]] = <<>>
    <2>1. N + 1 \in 1..(N + 2) /\ (N + 1 + 1)..(N - 1) = {}
      BY <1>7
    <2>2. EqualsFrom(qs, N + 1) = {}
      BY <2>1 DEF EqualsFrom, N
    <2>. QED BY <1>9, <1>10, <2>1, <2>2
  <1>12. ASSUME NEW k \in 1..n PROVE f[at[k - 1]] = <<P[k]>> \o f[at[k]]
    <2>. DEFINE p == G[k - 1]
                s == p + 1
                x == P[k][1]
                y == P[k][2]
                a == Len(x)
                e == s + a
    <2>1. ParamAt(qs, p, x, y, a, k = 1) /\ G[k] = p + a + 3
      BY <1>8
    <2>2. P[k] = <<x, y>> /\ y = <<y[1]>>
      <3>1. P[k] \in A /\ Len(y) = 1
        BY <1>1 DEF n
      <3>2. P[k] = <<x, y>> /\ y \in Seq(Nat)
        BY <3>1
      <3>. HIDE DEF y
      <3>. QED BY <3>1, <3>2
    <2>f. \A j \in 1..a : x[j] # Equals
      <3>1. x \in Seq(Nat) /\ Free(x, {CR, LF, Question, Equals})
        BY ParamTextIs, RequestAssumption DEF n
      <3>2. DOMAIN x = 1..a
        BY <3>1
      <3>. HIDE DEF x
      <3>. QED BY <3>1, <3>2 DEF Free
    <2>. HIDE DEF p, x, y
    <2>3. /\ p \in Nat /\ a \in Nat /\ 1 <= a /\ p + a + 2 <= N /\ x \in Seq(Nat) /\ Stands(qs, p, x)
          /\ qs[p + 1 + a] = Equals /\ qs[p + 1 + a + 1] = y[1]
      BY <2>1 DEF ParamAt, N
    <2>4. s \in Nat /\ 1 <= s /\ s - 1 = p /\ s + a + 1 <= N /\ s \in 1..(N + 2)
      BY <1>7, <2>3
    <2>. HIDE DEF s
    <2>5. EqualsFrom(qs, s) # {} /\ Lowest(EqualsFrom(qs, s)) = e /\ PairFrom(qs, s) = <<x, <<y[1]>> >>
      <3>1. qs[s + a] = Equals /\ qs[s + a + 1] = y[1]
        BY <2>3 DEF s
      <3>. QED BY <1>5, <2>3, <2>4, <2>f, <3>1, PairAt, ZenonT(40) DEF N
    <2>6. f[s] = <<P[k]>> \o f[NextFrom(qs, s)]
      <3>1. PairFrom(qs, s) = P[k]
        BY <2>2, <2>5
      <3>. QED BY <1>10, <2>4, <2>5, <3>1
    <2>7. NextFrom(qs, s) = Lowest(RestFrom(qs, e))
      BY <2>5 DEF NextFrom
    <2>8. CASE k = n
      <3>1. e \in Nat /\ e + 1 = N
        <4>1. p + a + 3 = N + 1
          BY <1>7, <2>1, <2>8
        <4>2. p \in Nat /\ a \in Nat /\ N \in Nat
          BY <1>7, <2>3
        <4>. HIDE DEF a
        <4>. QED BY <4>1, <4>2 DEF s
      <3>. HIDE DEF e
      <3>2. Lowest(RestFrom(qs, e)) = N + 1
        BY <1>5, <3>1, RestAtEnd DEF N
      <3>. QED BY <1>9, <2>6, <2>7, <2>8, <3>2 DEF s, p
    <2>9. CASE k # n
      <3>. DEFINE m == k + 1
                  z == G[k]
      <3>1. m \in 1..n /\ m - 1 = k /\ m # 1
        BY <1>2, <2>9
      <3>. HIDE DEF m
      <3>2. ParamAt(qs, z, P[m][1], P[m][2], Len(P[m][1]), m = 1)
        BY <1>8, <3>1
      <3>3. z \in Nat /\ z + 3 <= N /\ qs[z + 1] # Ampersand /\ qs[z] = Ampersand
        <4>. DEFINE b == Len(P[m][1])
        <4>1. z \in Nat /\ b \in Nat /\ 1 <= b /\ z + b + 2 <= N /\ qs[z + 1] # Ampersand /\ qs[z] = Ampersand
          BY <3>1, <3>2 DEF ParamAt, N
        <4>. HIDE DEF b, z
        <4>2. z + 3 <= N
          BY <1>7, <4>1
        <4>. QED BY <4>1, <4>2
      <3>4. z = p + a + 3
        BY <2>1
      <3>. HIDE DEF z
      <3>5. e \in Nat /\ e + 2 = z /\ e + 3 = z + 1 /\ e + 3 <= N
        BY <1>7, <2>3, <3>3, <3>4 DEF s
      <3>. HIDE DEF e
      <3>6. Lowest(RestFrom(qs, e)) = e + 3
        BY <1>5, <3>3, <3>5, RestAtName DEF N
      <3>. QED BY <1>9, <2>6, <2>7, <2>9, <3>5, <3>6 DEF s, p, z
    <2>. QED BY <2>8, <2>9
  <1>13. Spells(f, at, n, P)
    <2>1. n \in 0..Len(P) /\ Len(P) = n
      BY <1>2 DEF n
    <2>2. SubSeq(P, n + 1, n) = <<>>
      <3>. DEFINE i == n + 1
      <3>1. i \in 1..(Len(P) + 1) /\ n \in (i - 1)..Len(P) /\ n - i + 1 = 0
        BY <1>2, <2>1
      <3>. HIDE DEF i
      <3>2. SubSeq(P, i, n) \in Seq(A) /\ Len(SubSeq(P, i, n)) = 0
        BY <1>1, <3>1, Part
      <3>. DEFINE v == SubSeq(P, i, n)
      <3>. HIDE DEF v, A
      <3>3. v = <<>>
        BY <3>2 DEF v
      <3>. QED BY <3>3 DEF v, i
    <2>3. \A k \in 1..n : f[at[k - 1]] = <<P[k]>> \o f[at[k]]
      BY <1>12
    <2>4. f[at[n]] = SubSeq(P, n + 1, Len(P))
      BY <1>11, <2>1, <2>2
    <2>. QED BY <2>1, <2>3, <2>4 DEF Spells
  <1>14. f[at[0]] = P
    <2>. HIDE DEF A
    <2>. QED BY <1>1, <1>13, ChainSpells
  <1>15. Parameters(qs) = P
    BY <1>6, <1>9, <1>14
  <1>. QED BY <1>15 DEF qs, q

\* Once the request line is there, the URI that is routed is what the client asked
\* for, and so are the parameters with a value of one character that follow a path
\* short enough for the text of the URI to survive the assignment (request.cc).
THEOREM QueryRoundTripCorrect == Spec => []QueryRoundTrip
  <1>1. DataInv => QueryRoundTrip
    <2>. DEFINE Short == Len(sent.path) <= SmallString /\ \A i \in DOMAIN sent.params : Len(sent.params[i][2]) = 1
    <2>. SUFFICES ASSUME DataInv, Parsed, is_valid(data_)
                  PROVE  /\ sent.params # <<>> => get_uri(data_) = sent.path
                         /\ Short => \A n \in ParamNames : get_query_string_param(data_, n) = {First(sent.params, n)}
      BY DEF QueryRoundTrip
    <2>1. sent \in Requests /\ Begins(data_, Text(sent))
      BY ParsedBegins
    <2>2. RawUri(data_) = Target(sent)
      BY <2>1, RawUriIs
    <2>. DEFINE R == parse_query_string(RawUri(data_))
                q == SubSeq(QueryOf(sent), 2, Len(QueryOf(sent)))
    <2>3. ASSUME sent.params # <<>>
          PROVE  R.uri = sent.path /\ R.queries = {Parameters(t) : t \in QueryTexts(sent.path, q)}
      <3>1. R = [uri |-> sent.path, queries |-> {Parameters(t) : t \in QueryTexts(sent.path, q)}]
        BY <2>1, <2>2, <2>3, UriSplit
      <3>. HIDE DEF R
      <3>. QED BY <3>1
    <2>4. sent.params # <<>> => get_uri(data_) = sent.path
      BY <2>3 DEF get_uri
    <2>5. ASSUME Short, NEW n \in ParamNames
          PROVE  get_query_string_param(data_, n) = {First(sent.params, n)}
      <3>1. DOMAIN sent.params = 1..Len(sent.params)
        <4>1. sent.params \in Seq(Seq(Nat) \X Seq(Nat))
          BY <2>1, RequestAssumption
        <4>. QED BY <4>1
      <3>2. sent.params # <<>>
        <4>1. DOMAIN sent.params # {}
          BY DEF ParamNames
        <4>. QED BY <4>1
      <3>3. QueryTexts(sent.path, q) = {q}
        BY <2>5 DEF QueryTexts
      <3>4. Parameters(q) = sent.params
        BY <2>1, <2>5, <3>1, <3>2, ParametersAre
      <3>. HIDE DEF q, R
      <3>5. R.queries = {sent.params}
        BY <2>3, <3>2, <3>3, <3>4
      <3>. QED BY <3>5 DEF get_query_string_param, First, R
    <2>. QED BY <2>4, <2>5
  <1>. QED BY <1>1, DataInvariant, PTL

-----------------------------------------------------------------------------
(* The fields of the form, as body_check finds them *)

\* What tells the characters of keys, of values and of the form's frame apart.
LEMMA FormCharacters ==
  /\ Word \subseteq Value /\ Value \subseteq Nat
  /\ KeyM \in Word /\ KeyT \in Word /\ KeyB \in Word /\ Template[1] = 106 /\ 106 \in Word
  /\ Equals \notin Value /\ Ampersand \notin Value /\ \A c \in 0..15 : c \notin Value /\ c # Equals
  /\ Equals \notin Word
  <1>1. /\ Word \subseteq Value /\ Value \subseteq Nat
        /\ KeyM \in Word /\ KeyT \in Word /\ KeyB \in Word /\ 106 \in Word
        /\ Equals \notin Value /\ Ampersand \notin Value /\ Equals \notin Word
    BY DEF Word, Value, Digits, UpperCase, LowerCase, KeyM, KeyT, KeyB, Equals, Ampersand, SP
  <1>2. ASSUME NEW c \in 0..15 PROVE c \notin Value /\ c # Equals
    BY DEF Word, Value, Digits, UpperCase, LowerCase, Equals, SP
  <1>3. Template[1] = 106
    BY DEF Template
  <1>. QED BY <1>1, <1>2, <1>3

\* Where a run of characters ends.
Beyond(s, i, C) == {j \in i..(Len(s) + 1) : j > Len(s) \/ s[j] \notin C}

LEMMA RunEndIn ==
  ASSUME NEW s \in Seq(Nat), NEW i \in 1..(Len(s) + 1), NEW C
  PROVE  /\ RunEnd(s, i, C) \in (i - 1)..Len(s)
         /\ i <= Len(s) /\ s[i] \in C => RunEnd(s, i, C) >= i
  <1>. DEFINE n == Len(s)
              S == Beyond(s, i, C)
              e == Lowest(S)
  <1>1. n \in Nat /\ i \in 1..(n + 1)
    OBVIOUS
  <1>2. S \subseteq i..(n + 1) /\ n + 1 \in S
    BY <1>1 DEF Beyond
  <1>3. i <= n /\ s[i] \in C => i \notin S
    BY <1>1 DEF Beyond
  <1>4. RunEnd(s, i, C) = e - 1
    BY DEF RunEnd, Beyond
  <1>. HIDE DEF n, S
  <1>5. S \in SUBSET Nat /\ S # {}
    BY <1>1, <1>2
  <1>6. e \in S
    BY <1>5, LowestExists
  <1>7. e \in i..(n + 1) /\ (i <= n /\ s[i] \in C => e # i)
    BY <1>2, <1>3, <1>6
  <1>. HIDE DEF e
  <1>8. e - 1 \in (i - 1)..n /\ (i <= n /\ s[i] \in C => e - 1 >= i)
    BY <1>1, <1>7
  <1>. QED BY <1>4, <1>8 DEF n

LEMMA RunEndIs ==
  ASSUME NEW s \in Seq(Nat), NEW i \in 1..(Len(s) + 1), NEW C, NEW e \in (i - 1)..Len(s),
         \A j \in i..e : s[j] \in C, e = Len(s) \/ s[e + 1] \notin C
  PROVE  RunEnd(s, i, C) = e
  <1>. DEFINE n == Len(s)
              S == Beyond(s, i, C)
              x == e + 1
  <1>1. n \in Nat /\ i \in 1..(n + 1) /\ e \in (i - 1)..n
    OBVIOUS
  <1>2. x \in i..(n + 1) /\ (x > n \/ s[x] \notin C) /\ x - 1 = e
    BY <1>1
  <1>3. x \in S
    BY <1>2 DEF Beyond
  <1>4. ASSUME NEW j \in S PROVE x <= j
    <2>1. j \in i..(n + 1) /\ (j > n \/ s[j] \notin C)
      BY <1>4 DEF Beyond
    <2>2. CASE j > n
      BY <1>1, <2>1, <2>2
    <2>3. CASE s[j] \notin C
      <3>1. j \notin i..e
        BY <2>3
      <3>. QED BY <1>1, <2>1, <3>1
    <2>. QED BY <2>1, <2>2, <2>3
  <1>5. S \in SUBSET Int
    BY <1>1 DEF Beyond
  <1>6. RunEnd(s, i, C) = Lowest(S) - 1
    BY DEF RunEnd, Beyond
  <1>. HIDE DEF S, x
  <1>7. Lowest(S) = x
    BY <1>3, <1>4, <1>5, LowestIs
  <1>. QED BY <1>2, <1>6, <1>7

\* The first match from place i on: where its key begins, its "=", the end of its
\* value, and where the search goes on.
KeyStart(s, i) == Lowest(Starts(s, i))
KeyEnd(s, i)   == RunEnd(s, KeyStart(s, i), Word) + 1
ValueEnd(s, i) == RunEnd(s, KeyEnd(s, i) + 1, Value)
AmpersandsEnd(s, v) == {j \in (v + 1)..(Len(s) + 1) : j > Len(s) \/ s[j] # Ampersand}
MatchEnd(s, i) == Lowest(AmpersandsEnd(s, ValueEnd(s, i)))
MatchOf(s, i)  == <<SubSeq(s, KeyStart(s, i), KeyEnd(s, i) - 1), SubSeq(s, KeyEnd(s, i) + 1, ValueEnd(s, i))>>
Matching(f, s) ==
    f = [i \in 1..(Len(s) + 1) |-> IF Starts(s, i) = {} THEN <<>> ELSE <<MatchOf(s, i)>> \o f[MatchEnd(s, i)]]

\* A key, an "=" and a value, anywhere in s.
IsMatch(s, k, e) ==
    /\ k \in 1..Len(s) /\ e \in (k + 1)..(Len(s) - 1)
    /\ s[e] = Equals /\ s[e + 1] \in Value
MatchAt(s, k, e) == <<SubSeq(s, k, e - 1), SubSeq(s, e + 1, RunEnd(s, e + 1, Value))>>

LEMMA AmpersandsPassed ==
  ASSUME NEW s \in Seq(Nat), NEW v \in 0..Len(s)
  PROVE  Lowest(AmpersandsEnd(s, v)) \in (v + 1)..(Len(s) + 1)
  <1>. DEFINE n == Len(s)
              S == AmpersandsEnd(s, v)
  <1>1. n \in Nat /\ v \in 0..n
    OBVIOUS
  <1>2. S \subseteq (v + 1)..(n + 1) /\ n + 1 \in S
    BY <1>1 DEF AmpersandsEnd
  <1>. HIDE DEF n, S
  <1>3. S \in SUBSET Nat /\ S # {}
    BY <1>1, <1>2
  <1>4. Lowest(S) \in S
    BY <1>3, LowestExists
  <1>5. Lowest(S) \in (v + 1)..(n + 1)
    BY <1>2, <1>4
  <1>. QED BY <1>5 DEF S, n

LEMMA MatchFound ==
  ASSUME NEW s \in Seq(Nat), NEW i \in 1..(Len(s) + 1), Starts(s, i) # {}
  PROVE  /\ IsMatch(s, KeyStart(s, i), KeyEnd(s, i))
         /\ MatchOf(s, i) = MatchAt(s, KeyStart(s, i), KeyEnd(s, i))
         /\ MatchEnd(s, i) \in (i + 1)..(Len(s) + 1)
  <1>. DEFINE n == Len(s)
              S == Starts(s, i)
              k == KeyStart(s, i)
              e == KeyEnd(s, i)
              v == ValueEnd(s, i)
  <1>1. n \in Nat /\ i \in 1..(n + 1)
    OBVIOUS
  <1>2. S \subseteq i..n
    BY DEF Starts
  <1>3. k \in S
    <2>. HIDE DEF S
    <2>1. S \in SUBSET Nat
      BY <1>1, <1>2
    <2>2. Lowest(S) \in S
      BY <2>1, LowestExists DEF S
    <2>. QED BY <2>2 DEF KeyStart, S
  <1>4. k \in i..n /\ s[k] \in Word /\ e < n /\ s[e] = Equals /\ s[e + 1] \in Value
    <2>1. e = RunEnd(s, k, Word) + 1
      BY DEF KeyEnd
    <2>. HIDE DEF k, e
    <2>. QED BY <1>3, <2>1 DEF Starts
  <1>5. e \in (k + 1)..(n - 1)
    <2>. DEFINE r == RunEnd(s, k, Word)
    <2>1. e = r + 1
      BY DEF KeyEnd
    <2>. HIDE DEF k, e
    <2>2. k \in 1..(Len(s) + 1) /\ k <= Len(s)
      BY <1>1, <1>4
    <2>3. r \in (k - 1)..n /\ r >= k
      BY <1>4, <2>2, RunEndIn
    <2>. HIDE DEF r, n
    <2>. QED BY <1>1, <1>4, <2>1, <2>2, <2>3
  <1>6. v = RunEnd(s, e + 1, Value)
    BY DEF ValueEnd
  <1>7. MatchEnd(s, i) = Lowest(AmpersandsEnd(s, v)) /\ MatchOf(s, i) = <<SubSeq(s, k, e - 1), SubSeq(s, e + 1, v)>>
    BY DEF MatchEnd, MatchOf
  <1>. HIDE DEF k, e, v
  <1>8. k \in 1..n /\ e + 1 \in 1..(n + 1) /\ k \in i..n
    BY <1>1, <1>4, <1>5
  <1>9. v \in e..n
    <2>. DEFINE a == e + 1
    <2>. HIDE DEF a
    <2>1. a \in 1..(Len(s) + 1) /\ v = RunEnd(s, a, Value)
      BY <1>6, <1>8 DEF a
    <2>2. v \in (a - 1)..n
      BY <2>1, RunEndIn
    <2>3. a - 1 = e
      BY <1>1, <1>5, <1>8 DEF a
    <2>. QED BY <2>2, <2>3
  <1>. DEFINE next == Lowest(AmpersandsEnd(s, v))
  <1>10. v \in 0..n /\ i <= v
    <2>. HIDE DEF n
    <2>. QED BY <1>1, <1>5, <1>8, <1>9
  <1>11. next \in (v + 1)..(n + 1)
    BY <1>10, AmpersandsPassed
  <1>. HIDE DEF next
  <1>12. next \in (i + 1)..(n + 1)
    <2>. HIDE DEF n
    <2>. QED BY <1>1, <1>10, <1>11
  <1>13. IsMatch(s, k, e)
    BY <1>4, <1>5, <1>8 DEF IsMatch
  <1>14. MatchOf(s, i) = MatchAt(s, k, e)
    BY <1>6, <1>7 DEF MatchAt
  <1>. QED BY <1>7, <1>12, <1>13, <1>14 DEF k, e, next

LEMMA Matched ==
  ASSUME NEW s \in Seq(Nat)
  PROVE  \E f : Matching(f, s) /\ Pairs(s) = f[1]
  <1>. DEFINE n == Len(s) + 1
              End(i) == Starts(s, i) = {}
              piece == [i \in 1..n |-> IF End(i) THEN <<>> ELSE <<MatchOf(s, i)>>]
              next == [i \in 1..n |-> IF End(i) THEN 0 ELSE MatchEnd(s, i)]
  <1>1. n \in Nat /\ Len(s) \in Nat
    OBVIOUS
  <1>2. ASSUME NEW i \in 1..n
        PROVE  /\ End(i) => next[i] = 0 /\ piece[i] = <<>>
               /\ ~End(i) => next[i] = MatchEnd(s, i) /\ next[i] \in (i + 1)..n /\ piece[i] = <<MatchOf(s, i)>>
    <2>1. CASE End(i)
      BY <2>1
    <2>2. CASE ~End(i)
      <3>1. MatchEnd(s, i) \in (i + 1)..n
        BY <2>2, MatchFound
      <3>2. next[i] = MatchEnd(s, i) /\ piece[i] = <<MatchOf(s, i)>>
        BY <2>2
      <3>. QED BY <2>2, <3>1, <3>2
    <2>. QED BY <2>1, <2>2
  <1>3. next = [i \in 1..n |-> next[i]]
    OBVIOUS
  <1>. HIDE DEF n, piece, next, End
  <1>4. \A i \in 1..n : next[i] \in 0..n /\ (next[i] = 0 \/ next[i] > i) /\ (next[i] = 0 <=> End(i))
    BY <1>1, <1>2
  <1>5. next \in [1..n -> 0..n]
    BY <1>3, <1>4
  <1>6. PICK f : Chain(f, n, piece, next)
    BY <1>1, <1>4, <1>5, ChainExists
  <1>7. Matching(f, s)
    <2>1. f = [i \in 1..n |-> IF next[i] = 0 THEN piece[i] ELSE piece[i] \o f[next[i]]]
      BY <1>6 DEF Chain, ChainFrom
    <2>2. ASSUME NEW i \in 1..n
          PROVE  f[i] = IF End(i) THEN <<>> ELSE <<MatchOf(s, i)>> \o f[MatchEnd(s, i)]
      BY <1>2, <1>4, <2>1
    <2>3. f = [i \in 1..n |-> f[i]]
      BY <2>1
    <2>4. f = [i \in 1..n |-> IF End(i) THEN <<>> ELSE <<MatchOf(s, i)>> \o f[MatchEnd(s, i)]]
      BY <2>2, <2>3
    <2>. QED BY <2>4 DEF Matching, End, n
  <1>8. PICK g : Matching(g, s) /\ g = CHOOSE h : Matching(h, s)
    BY <1>7
  <1>9. Pairs(s) = (CHOOSE h : Matching(h, s))[1]
    BY DEF Pairs, Matching, KeyStart, KeyEnd, ValueEnd, AmpersandsEnd, MatchEnd, MatchOf
  <1>. QED BY <1>8, <1>9

\* What holds of a place when it holds of all later ones holds of every place.
LEMMA Backward ==
  ASSUME NEW n \in Nat, NEW T, \A i \in 1..n : (\A j \in (i + 1)..n : j \in T) => i \in T
  PROVE  \A i \in 1..n : i \in T
  <1>. DEFINE Bad == {d \in Nat : d < n /\ n - d \notin T}
  <1>1. ASSUME Bad # {} PROVE FALSE
    <2>1. PICK d \in Bad : \A k \in Bad : ~(k < d)
      <3>1. Bad \in SUBSET Nat
        OBVIOUS
      <3>. HIDE DEF Bad
      <3>. QED BY <1>1, <3>1, LeastExists
    <2>. DEFINE i == n - d
    <2>2. d \in Nat /\ d < n /\ i \notin T /\ i \in 1..n
      BY <2>1
    <2>3. ASSUME NEW j \in (i + 1)..n PROVE j \in T
      <3>. DEFINE c == n - j
      <3>1. c \in Nat /\ c < n /\ c < d /\ n - c = j
        BY <2>2
      <3>2. c \notin Bad
        BY <2>1, <3>1
      <3>. QED BY <3>1, <3>2
    <2>. HIDE DEF i
    <2>. QED BY <2>2, <2>3
  <1>2. ASSUME NEW i \in 1..n PROVE i \in T
    <2>1. n - i \in Nat /\ n - i < n /\ n - (n - i) = i
      OBVIOUS
    <2>2. n - i \notin Bad
      BY <1>1
    <2>. QED BY <2>1, <2>2
  <1>. QED BY <1>2

AllMatches(s) == {MatchAt(s, m[1], m[2]) : m \in {l \in (1..Len(s)) \X (1..Len(s)) : IsMatch(s, l[1], l[2])}}

LEMMA MatchIn ==
  ASSUME NEW s \in Seq(Nat), NEW k, NEW e, IsMatch(s, k, e)
  PROVE  MatchAt(s, k, e) \in AllMatches(s)
  <1>. DEFINE m == <<k, e>>
  <1>1. k \in 1..Len(s) /\ e \in 1..Len(s)
    <2>1. Len(s) \in Nat
      OBVIOUS
    <2>. QED BY <2>1 DEF IsMatch
  <1>2. m \in (1..Len(s)) \X (1..Len(s)) /\ m[1] = k /\ m[2] = e
    BY <1>1
  <1>. HIDE DEF m
  <1>3. m \in {l \in (1..Len(s)) \X (1..Len(s)) : IsMatch(s, l[1], l[2])}
    BY <1>2
  <1>. QED BY <1>2, <1>3 DEF AllMatches

\* body_check sees nothing but matches.
LEMMA MatchingStays ==
  ASSUME NEW s \in Seq(Nat), NEW f, Matching(f, s)
  PROVE  \A i \in 1..(Len(s) + 1) : f[i] \in Seq(AllMatches(s))
  <1>. DEFINE n == Len(s) + 1
              A == Seq(AllMatches(s))
  <1>2. n \in Nat
    OBVIOUS
  <1>. DEFINE T == {i \in 1..n : f[i] \in A}
  <1>3. ASSUME NEW i \in 1..n, \A j \in (i + 1)..n : j \in T PROVE i \in T
    <2>1. f[i] = IF Starts(s, i) = {} THEN <<>> ELSE <<MatchOf(s, i)>> \o f[MatchEnd(s, i)]
      BY DEF Matching
    <2>2. CASE Starts(s, i) = {}
      <3>1. <<>> \in A
        OBVIOUS
      <3>. QED BY <2>1, <2>2, <3>1
    <2>3. CASE Starts(s, i) # {}
      <3>. DEFINE j == MatchEnd(s, i)
                  p == MatchOf(s, i)
      <3>1. j \in (i + 1)..n /\ p \in AllMatches(s)
        <4>1. /\ IsMatch(s, KeyStart(s, i), KeyEnd(s, i))
              /\ MatchOf(s, i) = MatchAt(s, KeyStart(s, i), KeyEnd(s, i))
              /\ MatchEnd(s, i) \in (i + 1)..n
          BY <2>3, MatchFound
        <4>. QED BY <4>1, MatchIn
      <3>. HIDE DEF j, p
      <3>2. f[j] \in A
        BY <1>3, <3>1
      <3>3. <<p>> \in A
        BY <3>1
      <3>4. <<p>> \o f[j] \in A
        <4>. DEFINE M == AllMatches(s)
        <4>. HIDE DEF M
        <4>1. <<p>> \in Seq(M) /\ f[j] \in Seq(M)
          BY <3>2, <3>3 DEF M
        <4>2. <<p>> \o f[j] \in Seq(M)
          BY <4>1, Concatenation
        <4>. QED BY <4>2 DEF M
      <3>. QED BY <2>1, <2>3, <3>4 DEF j, p
    <2>. QED BY <2>2, <2>3
  <1>. HIDE DEF T
  <1>4. \A i \in 1..n : i \in T
    BY <1>2, <1>3, Backward
  <1>. QED BY <1>4 DEF T

LEMMA PairsAreMatches ==
  ASSUME NEW s \in Seq(Nat)
  PROVE  Pairs(s) \in Seq(AllMatches(s))
  <1>1. PICK f : Matching(f, s) /\ Pairs(s) = f[1]
    BY Matched
  <1>2. 1 \in 1..(Len(s) + 1)
    OBVIOUS
  <1>. QED BY <1>1, <1>2, MatchingStays

\* The value for a key is that of a match with this key.
LEMMA LastValueIs ==
  ASSUME NEW body, UriDecode(body) \in Seq(Nat), NEW key
  PROVE  \/ /\ LastValue(body, key) = <<>>
            /\ \A i \in 1..Len(Pairs(UriDecode(body))) : Pairs(UriDecode(body))[i][1] # <<key>>
         \/ \E p \in AllMatches(UriDecode(body)) : p[1] = <<key>> /\ LastValue(body, key) = p[2]
  <1>. DEFINE s == UriDecode(body)
              P == Pairs(s)
              n == Len(P)
              found == {i \in DOMAIN P : P[i][1] = <<key>>}
              x == Highest(found)
  <1>1. P \in Seq(AllMatches(s)) /\ n \in Nat /\ DOMAIN P = 1..n
    <2>1. P \in Seq(AllMatches(s))
      BY PairsAreMatches
    <2>. HIDE DEF P
    <2>. QED BY <2>1
  <1>2. LastValue(body, key) = IF found = {} THEN <<>> ELSE P[x][2]
    BY DEF LastValue, Highest
  <1>. HIDE DEF P, n, s
  <1>3. CASE found = {}
    BY <1>1, <1>2, <1>3 DEF P, n, s
  <1>4. CASE found # {}
    <2>1. found \in SUBSET Int /\ n \in Int /\ \A i \in found : i <= n
      BY <1>1
    <2>2. x \in found
      <3>. HIDE DEF found
      <3>. QED BY <1>4, <2>1, HighestExists
    <2>. HIDE DEF x
    <2>3. x \in 1..n /\ P[x][1] = <<key>>
      BY <1>1, <2>2
    <2>4. P[x] \in AllMatches(s)
      BY <1>1, <2>3
    <2>5. LastValue(body, key) = P[x][2]
      BY <1>2, <1>4
    <2>. QED BY <2>3, <2>4, <2>5 DEF s
  <1>. QED BY <1>3, <1>4

\* The form with its captions x and y as they were typed; n is the length of x.
FormShape(t, x, y, n) ==
    /\ t \in Seq(Nat) /\ x \in Seq(Nat) /\ y \in Seq(Nat) /\ n = Len(x) /\ n \in Nat /\ Len(y) \in Nat
    /\ Len(t) \in Nat /\ Len(t) = n + 9 + Len(y)
    /\ t[1] = KeyM /\ t[2] = Equals /\ t[3] = 106 /\ t[4] = Ampersand
    /\ t[5] = KeyT /\ t[6] = Equals /\ Stands(t, 6, x)
    /\ t[n + 7] = Ampersand /\ t[n + 8] = KeyB /\ t[n + 9] = Equals /\ Stands(t, n + 9, y)

\* u is the first q characters of t, and perhaps what is left of the next one.
Shows(u, t, q) ==
    /\ u \in Seq(Nat) /\ t \in Seq(Nat) /\ Len(u) \in Nat /\ q \in Nat /\ q <= Len(t)
    /\ Len(u) = q \/ (Len(u) = q + 1 /\ u[q + 1] \in 0..15)
    /\ \A j \in 1..q : u[j] = t[j]

LEMMA LegalIs ==
  ASSUME NEW x \in Seq(Nat), Legal(x)
  PROVE  \A j \in 1..Len(x) : x[j] \in Value
  <1>1. DOMAIN x = 1..Len(x)
    OBVIOUS
  <1>. QED BY <1>1 DEF Legal

LEMMA FormValues ==
  ASSUME NEW t, NEW x, NEW y, NEW n, FormShape(t, x, y, n), Legal(x), Legal(y)
  PROVE  /\ \A j \in 7..(n + 6) : t[j] \in Value
         /\ \A j \in (n + 10)..Len(t) : t[j] \in Value
  <1>. DEFINE m == Len(y)
  <1>1. n \in Nat /\ m \in Nat /\ Len(t) = n + 9 + m
    BY DEF FormShape
  <1>2. \A j \in 1..n : t[6 + j] = x[j] /\ x[j] \in Value
    BY LegalIs DEF FormShape, Stands
  <1>3. \A j \in 1..m : t[n + 9 + j] = y[j] /\ y[j] \in Value
    BY LegalIs DEF FormShape, Stands
  <1>. HIDE DEF m
  <1>4. ASSUME NEW j \in 7..(n + 6) PROVE t[j] \in Value
    <2>. DEFINE i == j - 6
    <2>1. i \in 1..n /\ 6 + i = j
      BY <1>1
    <2>. HIDE DEF i
    <2>. QED BY <1>2, <2>1
  <1>5. ASSUME NEW j \in (n + 10)..(n + 9 + m) PROVE t[j] \in Value
    <2>. DEFINE i == j - (n + 9)
    <2>1. i \in 1..m /\ n + 9 + i = j
      BY <1>1
    <2>. HIDE DEF i
    <2>. QED BY <1>3, <2>1
  <1>. QED BY <1>1, <1>4, <1>5

LEMMA FormEquals ==
  ASSUME NEW t, NEW x, NEW y, NEW n, FormShape(t, x, y, n), Legal(x), Legal(y),
         NEW j \in 1..Len(t), t[j] = Equals
  PROVE  j \in {2, 6, n + 9}
  <1>1. n \in Nat /\ Len(y) \in Nat /\ Len(t) \in Nat /\ j \in 1..Len(t)
    BY DEF FormShape
  <1>2. j \notin 7..(n + 6) /\ j \notin (n + 10)..Len(t)
    BY FormValues, FormCharacters, SMTT(30)
  <1>3. j \notin {1, 3, 4, 5, n + 7, n + 8}
    <2>1. t[1] # Equals /\ t[3] # Equals /\ t[4] # Equals /\ t[5] # Equals /\ t[n + 7] # Equals /\ t[n + 8] # Equals
      BY DEF FormShape, KeyM, KeyT, KeyB, Ampersand, Equals
    <2>. QED BY <2>1
  <1>. DEFINE l == Len(t)
  <1>. HIDE DEF l
  <1>4. n \in Nat /\ l \in Nat /\ j \in 1..l /\ j \notin 7..(n + 6) /\ j \notin (n + 10)..l
    BY <1>1, <1>2 DEF l
  <1>. QED BY <1>3, <1>4

\* A key tells which field a match is.
LEMMA MatchIsField ==
  ASSUME NEW t, NEW x, NEW y, NEW n, FormShape(t, x, y, n), Legal(x), Legal(y),
         NEW u, NEW q, Shows(u, t, q), NEW k, NEW e, IsMatch(u, k, e), NEW key,
         MatchAt(u, k, e)[1] = <<key>>
  PROVE  /\ e + 1 <= q /\ e \in Nat
         /\ key = KeyM => e = 2
         /\ key = KeyT => e = 6
         /\ key = KeyB => e = n + 9
  <1>. DEFINE m == Len(u)
              w == SubSeq(u, k, e - 1)
  <1>1. /\ m \in Nat /\ k \in 1..m /\ e \in (k + 1)..(m - 1) /\ u[e] = Equals /\ u[e + 1] \in Value
        /\ q \in Nat /\ q <= Len(t) /\ (m = q \/ (m = q + 1 /\ u[q + 1] \in 0..15))
        /\ Len(t) \in Nat /\ n \in Nat
    BY DEF IsMatch, Shows, FormShape
  <1>2. e + 1 <= q
    <2>1. CASE m = q
      BY <1>1, <2>1
    <2>2. CASE m = q + 1 /\ u[q + 1] \in 0..15
      <3>1. ASSUME e + 1 = q + 1 PROVE FALSE
        <4>1. u[q + 1] \in 0..15 /\ u[q + 1] \in Value
          BY <1>1, <2>2, <3>1
        <4>. QED BY <4>1, FormCharacters
      <3>. QED BY <1>1, <2>2, <3>1
    <2>. QED BY <1>1, <2>1, <2>2
  <1>3. e \in 1..q /\ e - 1 \in 1..q /\ e \in 1..Len(t)
    BY <1>1, <1>2
  <1>4. u[e] = t[e] /\ u[e - 1] = t[e - 1]
    BY <1>3 DEF Shows
  <1>5. e \in {2, 6, n + 9}
    BY <1>1, <1>3, <1>4, FormEquals
  <1>6. u[e - 1] = key
    <2>1. w = <<key>>
      BY DEF MatchAt
    <2>. DEFINE z == e - 1
    <2>2. k \in 1..(Len(u) + 1) /\ z \in (k - 1)..Len(u) /\ u \in Seq(Nat)
      BY <1>1, SMTT(30) DEF Shows
    <2>3. Len(w) = z - k + 1 /\ \A i \in 1..(z - k + 1) : w[i] = u[k + i - 1]
      <3>. HIDE DEF z
      <3>1. /\ Len(SubSeq(u, k, z)) = z - k + 1
            /\ \A i \in 1..(z - k + 1) : SubSeq(u, k, z)[i] = u[k + i - 1]
        BY <2>2, Part
      <3>. QED BY <3>1 DEF z
    <2>. HIDE DEF w
    <2>4. Len(w) = 1 /\ w[1] = key
      <3>1. Len(<<key>>) = 1 /\ <<key>>[1] = key
        OBVIOUS
      <3>. QED BY <2>1, <3>1
    <2>a. z \in Int /\ k \in Int
      BY <1>1
    <2>. HIDE DEF z
    <2>5. z \in Int /\ k \in Int /\ z - k + 1 = 1
      BY <2>3, <2>4, <2>a
    <2>6. k + 1 - 1 = z /\ 1 \in 1..1
      BY <2>5
    <2>7. w[1] = u[k + 1 - 1]
      BY <2>3, <2>5, <2>6
    <2>. QED BY <2>4, <2>6, <2>7 DEF z
  <1>7. e = 2 => key = KeyM
    <2>1. 2 - 1 = 1 /\ t[1] = KeyM
      BY DEF FormShape
    <2>. QED BY <1>4, <1>6, <2>1
  <1>8. e = 6 => key = KeyT
    <2>1. 6 - 1 = 5 /\ t[5] = KeyT
      BY DEF FormShape
    <2>. QED BY <1>4, <1>6, <2>1
  <1>9. e = n + 9 => key = KeyB
    <2>. SUFFICES ASSUME e = n + 9 PROVE key = KeyB
      OBVIOUS
    <2>1. e - 1 = n + 8
      BY <1>1
    <2>2. t[n + 8] = KeyB
      BY DEF FormShape
    <2>. QED BY <1>4, <1>6, <2>1, <2>2
  <1>10. KeyM # KeyT /\ KeyM # KeyB /\ KeyT # KeyB
    BY DEF KeyM, KeyT, KeyB
  <1>. HIDE DEF m
  <1>11. e \in Nat
    BY <1>1
  <1>. QED BY <1>2, <1>5, <1>7, <1>8, <1>9, <1>10, <1>11

\* The captions that body_check finds in a beginning of the form.
LEMMA FieldsFound ==
  ASSUME NEW t, NEW x, NEW y, NEW n, FormShape(t, x, y, n), Legal(x), Legal(y),
         NEW u, NEW q, Shows(u, t, q), NEW p \in AllMatches(u)
  PROVE  /\ p[1] = <<KeyB>> => n + 10 <= q /\ p[2] = SubSeq(u, n + 10, q)
         /\ p[1] = <<KeyT>> /\ n + 7 <= q => p[2] = x
         /\ p[1] = <<KeyM>> /\ n + 7 <= q => p[2] = SubSeq(u, 3, 3)
  <1>. DEFINE m == Len(u)
  <1>1. PICK k, e : IsMatch(u, k, e) /\ p = MatchAt(u, k, e)
    BY DEF AllMatches
  <1>2. /\ m \in Nat /\ q \in Nat /\ q <= Len(t) /\ Len(t) \in Nat /\ n \in Nat /\ u \in Seq(Nat)
        /\ (m = q \/ (m = q + 1 /\ u[q + 1] \in 0..15)) /\ q <= m
    BY DEF Shows, FormShape
  <1>3. p[2] = SubSeq(u, e + 1, RunEnd(u, e + 1, Value))
    BY <1>1 DEF MatchAt
  <1>4. ASSUME p[1] = <<KeyB>> PROVE n + 10 <= q /\ p[2] = SubSeq(u, n + 10, q)
    <2>1. e = n + 9 /\ e + 1 <= q
      BY <1>1, <1>4, MatchIsField
    <2>. DEFINE a == n + 10
    <2>2. e + 1 = a /\ a <= q
      BY <1>2, <2>1
    <2>3. ASSUME NEW j \in a..q PROVE u[j] \in Value
      <3>1. j \in 1..q /\ j \in (n + 10)..Len(t)
        BY <1>2, <2>2
      <3>2. u[j] = t[j]
        BY <3>1 DEF Shows
      <3>. QED BY <3>1, <3>2, FormValues
    <2>. HIDE DEF m
    <2>4. a \in 1..(m + 1) /\ q \in (a - 1)..m
      BY <1>2, <2>2
    <2>5. q = m \/ u[q + 1] \notin Value
      BY <1>2, FormCharacters, SMTT(30)
    <2>. HIDE DEF a
    <2>6. RunEnd(u, a, Value) = q
      BY <1>2, <2>3, <2>4, <2>5, RunEndIs DEF m
    <2>. QED BY <1>3, <2>2, <2>6 DEF a
  <1>5. ASSUME p[1] = <<KeyT>>, n + 7 <= q PROVE p[2] = x
    <2>1. e = 6
      BY <1>1, <1>5, MatchIsField
    <2>. DEFINE z == n + 6
    <2>2. e + 1 = 7 /\ n + 7 = z + 1 /\ n + 7 \in 1..q
      BY <1>2, <1>5, <2>1
    <2>3. u[n + 7] \notin Value
      <3>1. u[n + 7] = t[n + 7] /\ t[n + 7] = Ampersand
        BY <2>2 DEF Shows, FormShape
      <3>. QED BY <3>1, FormCharacters
    <2>4. ASSUME NEW j \in 7..z PROVE u[j] \in Value /\ u[j] = t[j]
      <3>1. j \in 1..q /\ j \in 7..(n + 6)
        BY <1>2, <1>5
      <3>2. u[j] = t[j]
        BY <3>1 DEF Shows
      <3>. QED BY <3>1, <3>2, FormValues
    <2>5. 7 \in 1..(m + 1) /\ z \in (7 - 1)..m
      <3>. HIDE DEF m
      <3>. QED BY <1>2, <1>5
    <2>6. RunEnd(u, 7, Value) = z
      <3>1. z = Len(u) \/ u[z + 1] \notin Value
        BY <2>2, <2>3
      <3>2. \A j \in 7..z : u[j] \in Value
        BY <2>4
      <3>. HIDE DEF z
      <3>. QED BY <1>2, <2>5, <3>1, <3>2, RunEndIs
    <2>7. p[2] = SubSeq(u, 7, z)
      BY <1>3, <2>2, <2>6
    <2>8. Stands(u, 6, x)
      <3>1. Stands(t, 6, x) /\ Len(x) = n
        BY DEF FormShape
      <3>2. ASSUME NEW j \in 1..n PROVE u[6 + j] = x[j]
        <4>. DEFINE i == 6 + j
        <4>1. i \in 7..z
          BY <1>2
        <4>2. t[i] = x[j]
          BY <3>1 DEF Stands
        <4>. HIDE DEF i, z
        <4>3. u[i] = x[j]
          BY <2>4, <4>1, <4>2
        <4>. QED BY <4>3 DEF i
      <3>3. 6 \in Nat /\ Len(x) \in Nat /\ Len(u) \in Nat /\ 6 + Len(x) <= Len(u)
        BY <1>2, <1>5, <3>1
      <3>. QED BY <3>1, <3>2, <3>3 DEF Stands
    <2>9. SubSeq(u, 6 + 1, 6 + Len(x)) = x
      <3>1. x \in Seq(Nat)
        BY DEF FormShape
      <3>. QED BY <1>2, <2>8, <3>1, StandsPart
    <2>10. 6 + 1 = 7 /\ 6 + Len(x) = z
      BY <1>2 DEF FormShape
    <2>. QED BY <2>7, <2>9, <2>10
  <1>6. ASSUME p[1] = <<KeyM>>, n + 7 <= q PROVE p[2] = SubSeq(u, 3, 3)
    <2>1. e = 2 /\ 2 + 1 = 3 /\ 3 + 1 = 4
      BY <1>1, <1>6, MatchIsField
    <2>2. 3 \in 1..q /\ 4 \in 1..q /\ 3 \in 1..(m + 1) /\ 3 \in (3 - 1)..m
      <3>. HIDE DEF m
      <3>. QED BY <1>2, <1>6
    <2>3. u[3] \in Value /\ u[4] \notin Value
      <3>1. u[3] = 106 /\ u[4] = Ampersand
        BY <2>2 DEF Shows, FormShape
      <3>. QED BY <3>1, FormCharacters
    <2>4. \A j \in 3..3 : u[j] \in Value
      BY <2>3
    <2>5. 3 = Len(u) \/ u[3 + 1] \notin Value
      BY <2>1, <2>3
    <2>6. RunEnd(u, 3, Value) = 3
      BY <1>2, <2>2, <2>4, <2>5, RunEndIs
    <2>. QED BY <1>3, <2>1, <2>6
  <1>. QED BY <1>4, <1>5, <1>6

\* A body that passes has the top caption and a beginning of the bottom one.
LEMMA CaptionsTaken ==
  ASSUME NEW t, NEW x, NEW y, NEW n, FormShape(t, x, y, n), Legal(x), Legal(y),
         NEW body, NEW q, Shows(UriDecode(body), t, q), body_check(body)
  PROVE  /\ Params(body)[2] = x /\ IsPrefix(Params(body)[3], y)
         /\ q = Len(t) => Params(body)[3] = y
  <1>. DEFINE u == UriDecode(body)
              v == LastValue(body, KeyT)
              w == LastValue(body, KeyB)
              m == Len(y)
  <1>1. Params(body)[2] = v /\ Params(body)[3] = w
    BY DEF Params
  <1>2. v # <<>> /\ w # <<>>
    BY DEF body_check
  <1>3. u \in Seq(Nat) /\ Len(u) \in Nat /\ q \in Nat /\ q <= Len(u) /\ q <= Len(t) /\ \A j \in 1..q : u[j] = t[j]
    BY DEF Shows
  <1>4. n \in Nat /\ m \in Nat /\ Len(t) = n + 9 + m /\ y \in Seq(Nat) /\ \A j \in 1..m : t[n + 9 + j] = y[j]
    BY DEF FormShape, Stands
  <1>5. PICK p \in AllMatches(u) : p[1] = <<KeyB>> /\ w = p[2]
    BY <1>2, <1>3, LastValueIs, ZenonT(40)
  <1>6. PICK o \in AllMatches(u) : o[1] = <<KeyT>> /\ v = o[2]
    BY <1>2, <1>3, LastValueIs, ZenonT(40)
  <1>. HIDE DEF u, v, w
  <1>7. n + 10 <= q /\ w = SubSeq(u, n + 10, q)
    BY <1>5, FieldsFound DEF u
  <1>8. v = x
    <2>1. n + 7 <= q
      BY <1>3, <1>4, <1>7
    <2>. QED BY <1>6, <2>1, FieldsFound DEF u
  <1>. DEFINE a == n + 10
              l == q - n - 9
  <1>9. w \in Seq(Nat) /\ Len(w) = l /\ \A j \in 1..l : w[j] = u[a + j - 1]
    <2>1. a \in 1..(Len(u) + 1) /\ q \in (a - 1)..Len(u) /\ q - a + 1 = l
      BY <1>3, <1>4, <1>7
    <2>2. w = SubSeq(u, a, q)
      BY <1>7
    <2>. HIDE DEF a, l
    <2>. QED BY <1>3, <2>1, <2>2, Part, ZenonT(40)
  <1>10. l \in Nat /\ l <= m
    <2>. HIDE DEF m
    <2>. QED BY <1>3, <1>4, <1>7
  <1>11. ASSUME NEW j \in 1..l PROVE w[j] = y[j]
    <2>. DEFINE i == a + j - 1
    <2>1. i = n + 9 + j /\ i \in 1..q /\ j \in 1..m
      <3>. HIDE DEF m
      <3>. QED BY <1>3, <1>4, <1>7, <1>10
    <2>2. w[j] = u[i]
      BY <1>9
    <2>. HIDE DEF i, l, a
    <2>. QED BY <1>3, <1>4, <2>1, <2>2
  <1>12. IsPrefix(w, y)
    <2>. HIDE DEF l
    <2>. QED BY <1>4, <1>9, <1>10, <1>11, PrefixIs
  <1>13. ASSUME q = Len(t) PROVE w = y
    <2>1. l = m
      <3>. HIDE DEF m
      <3>. QED BY <1>3, <1>4, <1>13
    <2>. HIDE DEF l
    <2>. QED BY <1>4, <1>9, <1>11, <2>1, SeqEqual
  <1>. QED BY <1>1, <1>8, <1>12, <1>13

\* A key of one character with its value, where the search arrives.
LEMMA FieldAt ==
  ASSUME NEW s \in Seq(Nat), NEW k \in 1..Len(s), NEW v \in (k + 2)..Len(s),
         s[k] \in Word, s[k + 1] = Equals, \A j \in (k + 2)..v : s[j] \in Value,
         \/ v = Len(s)
         \/ v + 2 <= Len(s) /\ s[v + 1] = Ampersand /\ s[v + 2] # Ampersand
  PROVE  /\ Starts(s, k) # {} /\ MatchOf(s, k)[1] = <<s[k]>>
         /\ v # Len(s) => MatchEnd(s, k) = v + 2
  <1>. DEFINE n == Len(s)
              e == k + 1
              a == k + 2
  <1>1. n \in Nat /\ k \in 1..n /\ v \in (k + 2)..n /\ e < n /\ e + 1 = a /\ a \in (k + 2)..v
        /\ k \in 1..(n + 1) /\ k \in (k - 1)..n /\ a \in 1..(n + 1) /\ v \in (a - 1)..n /\ e - 1 = k
    OBVIOUS
  <1>2. Equals \notin Word /\ Ampersand \notin Value
    BY FormCharacters
  <1>3. RunEnd(s, k, Word) = k
    <2>1. \A j \in k..k : s[j] \in Word
      BY <1>1
    <2>2. s[k + 1] \notin Word
      BY <1>2
    <2>. QED BY <1>1, <2>1, <2>2, RunEndIs
  <1>4. RunEnd(s, a, Value) = v
    <2>1. v = Len(s) \/ s[v + 1] \notin Value
      BY <1>2
    <2>2. \A j \in a..v : s[j] \in Value
      OBVIOUS
    <2>. HIDE DEF a
    <2>. QED BY <1>1, <2>1, <2>2, RunEndIs
  <1>5. s[a] \in Value
    BY <1>1
  <1>6. k \in Starts(s, k)
    <2>1. k \in k..n /\ s[k] \in Word
      BY <1>1
    <2>2. RunEnd(s, k, Word) + 1 = e /\ e < Len(s) /\ s[e] = Equals /\ s[e + 1] \in Value
      BY <1>1, <1>3, <1>5
    <2>. HIDE DEF e, n
    <2>3. k \in k..Len(s) /\ LET b == RunEnd(s, k, Word) + 1 IN b < Len(s) /\ s[b] = Equals /\ s[b + 1] \in Value
      BY <2>1, <2>2 DEF n
    <2>. QED BY <2>1, <2>3 DEF Starts
  <1>7. KeyStart(s, k) = k
    <2>1. Starts(s, k) \in SUBSET Int /\ \A j \in Starts(s, k) : k <= j
      BY <1>1 DEF Starts
    <2>. DEFINE S == Starts(s, k)
    <2>. HIDE DEF S
    <2>2. Lowest(S) = k
      BY <1>6, <2>1, LowestIs DEF S
    <2>. QED BY <2>2 DEF KeyStart, S
  <1>8. KeyEnd(s, k) = e
    BY <1>3, <1>7 DEF KeyEnd
  <1>9. ValueEnd(s, k) = v
    BY <1>1, <1>4, <1>8 DEF ValueEnd
  <1>10. MatchOf(s, k)[1] = <<s[k]>>
    <2>1. MatchOf(s, k)[1] = SubSeq(s, k, k)
      <3>1. MatchOf(s, k)[1] = SubSeq(s, KeyStart(s, k), KeyEnd(s, k) - 1)
        BY DEF MatchOf
      <3>. QED BY <1>1, <1>7, <1>8, <3>1
    <2>2. SubSeq(s, k, k) = <<s[k]>>
      BY SubSeqOne
    <2>. QED BY <2>1, <2>2
  <1>11. ASSUME v # n PROVE MatchEnd(s, k) = v + 2
    <2>. DEFINE S == AmpersandsEnd(s, v)
                z == v + 2
    <2>1. z <= n /\ s[v + 1] = Ampersand /\ s[z] # Ampersand /\ v + 1 <= n
      BY <1>1, <1>11
    <2>2. z \in S /\ v + 1 \notin S /\ S \subseteq (v + 1)..(n + 1)
      BY <1>1, <2>1, SMTT(30) DEF AmpersandsEnd
    <2>. HIDE DEF S, n
    <2>3. S \in SUBSET Int /\ \A j \in S : z <= j
      BY <1>1, <2>2
    <2>. HIDE DEF z
    <2>4. Lowest(S) = z
      BY <2>2, <2>3, LowestIs
    <2>. QED BY <1>9, <2>4 DEF MatchEnd, S, z
  <1>. QED BY <1>6, <1>10, <1>11

\* A pair with this key is among the pairs w.
HasKey(w, key) == \E i \in 1..Len(w) : w[i][1] = <<key>>

LEMMA HasKeyCons ==
  ASSUME NEW A, NEW w \in Seq(A), NEW p \in A, NEW key, p[1] = <<key>> \/ HasKey(w, key)
  PROVE  HasKey(<<p>> \o w, key)
  <1>. DEFINE z == <<p>> \o w
  <1>1. <<p>> \in Seq(A) /\ Len(<<p>>) = 1 /\ <<p>>[1] = p /\ Len(w) \in Nat
    OBVIOUS
  <1>2. Len(z) = 1 + Len(w) /\ z[1] = p /\ \A j \in 1..Len(w) : z[1 + j] = w[j]
    <2>. DEFINE o == <<p>>
    <2>. HIDE DEF o
    <2>1. Len(o) = 1 /\ o[1] = p
      BY <1>1 DEF o
    <2>2. /\ Len(o \o w) = Len(o) + Len(w)
          /\ \A j \in 1..Len(o) : (o \o w)[j] = o[j]
          /\ \A j \in 1..Len(w) : (o \o w)[Len(o) + j] = w[j]
      <3>1. o \in Seq(A)
        BY <1>1 DEF o
      <3>. QED BY <3>1, Concatenation
    <2>3. 1 \in 1..1
      OBVIOUS
    <2>4. /\ Len(o \o w) = 1 + Len(w) /\ (o \o w)[1] = p
          /\ \A j \in 1..Len(w) : (o \o w)[1 + j] = w[j]
      BY <2>1, <2>2, <2>3
    <2>. QED BY <2>4 DEF o
  <1>. HIDE DEF z
  <1>3. CASE p[1] = <<key>>
    <2>1. 1 \in 1..Len(z)
      BY <1>1, <1>2
    <2>. QED BY <1>2, <1>3, <2>1 DEF HasKey, z
  <1>4. CASE HasKey(w, key)
    <2>1. PICK j \in 1..Len(w) : w[j][1] = <<key>>
      BY <1>4 DEF HasKey
    <2>. DEFINE i == 1 + j
    <2>2. i \in 1..Len(z) /\ z[i] = w[j]
      BY <1>1, <1>2
    <2>. HIDE DEF i
    <2>3. z[i][1] = <<key>>
      BY <2>1, <2>2
    <2>. QED BY <2>2, <2>3 DEF HasKey, z
  <1>. QED BY <1>3, <1>4

\* The search meets the three fields of the form one after the other.
LEMMA FieldsMet ==
  ASSUME NEW t, NEW x, NEW y, NEW n, FormShape(t, x, y, n), Legal(x), Legal(y), x # <<>>, y # <<>>
  PROVE  HasKey(Pairs(t), KeyM) /\ HasKey(Pairs(t), KeyT) /\ HasKey(Pairs(t), KeyB)
  <1>. DEFINE l == Len(t)
              M == AllMatches(t)
              b == n + 8
  <1>1. t \in Seq(Nat) /\ l \in Nat /\ n \in Nat /\ n + 10 <= l /\ 1 <= n
    <2>. DEFINE m == Len(y)
    <2>1. t \in Seq(Nat) /\ l \in Nat /\ n \in Nat /\ m \in Nat /\ l = n + 9 + m
      BY DEF FormShape
    <2>2. 1 <= n /\ 1 <= m
      BY NotEmpty DEF FormShape
    <2>. HIDE DEF l, m
    <2>. QED BY <2>1, <2>2
  <1>2. PICK f : Matching(f, t) /\ Pairs(t) = f[1]
    BY <1>1, Matched
  <1>3. ASSUME NEW i \in 1..l, Starts(t, i) # {}
        PROVE  f[i] = <<MatchOf(t, i)>> \o f[MatchEnd(t, i)] /\ f[MatchEnd(t, i)] \in Seq(M) /\ MatchOf(t, i) \in M
    <2>1. i \in 1..(Len(t) + 1)
      BY <1>1
    <2>2. /\ IsMatch(t, KeyStart(t, i), KeyEnd(t, i))
          /\ MatchOf(t, i) = MatchAt(t, KeyStart(t, i), KeyEnd(t, i))
          /\ MatchEnd(t, i) \in (i + 1)..(Len(t) + 1)
      BY <1>1, <1>3, <2>1, MatchFound
    <2>3. MatchEnd(t, i) \in 1..(Len(t) + 1)
      BY <1>1, <2>1, <2>2
    <2>4. f[MatchEnd(t, i)] \in Seq(M)
      BY <1>1, <1>2, <2>3, MatchingStays
    <2>5. f[i] = <<MatchOf(t, i)>> \o f[MatchEnd(t, i)]
      BY <1>2, <1>3, <2>1 DEF Matching
    <2>. QED BY <1>1, <2>2, <2>4, <2>5, MatchIn
  <1>4. /\ t[1] = KeyM /\ t[2] = Equals /\ t[3] = 106 /\ t[4] = Ampersand
        /\ t[5] = KeyT /\ t[6] = Equals /\ t[n + 7] = Ampersand /\ t[b] = KeyB /\ t[n + 9] = Equals
    BY DEF FormShape
  <1>5. KeyT # Ampersand /\ KeyB # Ampersand /\ KeyM \in Word /\ KeyT \in Word /\ KeyB \in Word /\ 106 \in Value
    <2>1. KeyT # Ampersand /\ KeyB # Ampersand
      BY DEF KeyT, KeyB, Ampersand
    <2>. QED BY <2>1, FormCharacters
  <1>. HIDE DEF l
  <1>6. Starts(t, 1) # {} /\ MatchOf(t, 1)[1] = <<KeyM>> /\ MatchEnd(t, 1) = 5
    <2>1. 1 \in 1..l /\ 3 \in (1 + 2)..l /\ 1 + 1 = 2 /\ 3 + 1 = 4 /\ 3 + 2 = 5 /\ 3 + 2 <= l /\ 3 # l
      BY <1>1
    <2>2. \A j \in (1 + 2)..3 : t[j] \in Value
      BY <1>4, <1>5
    <2>3. t[1] \in Word /\ t[1 + 1] = Equals /\ t[3 + 1] = Ampersand /\ t[3 + 2] # Ampersand
      BY <1>4, <1>5, <2>1
    <2>4. /\ Starts(t, 1) # {} /\ MatchOf(t, 1)[1] = <<t[1]>>
          /\ 3 # l => MatchEnd(t, 1) = 3 + 2
      BY <1>1, <2>1, <2>2, <2>3, FieldAt DEF l
    <2>. QED BY <1>4, <2>1, <2>4
  <1>7. Starts(t, 5) # {} /\ MatchOf(t, 5)[1] = <<KeyT>> /\ MatchEnd(t, 5) = b
    <2>. DEFINE v == n + 6
    <2>1. 5 \in 1..l /\ v \in (5 + 2)..l /\ 5 + 1 = 6 /\ v + 1 = n + 7 /\ v + 2 = b /\ v + 2 <= l /\ v # l
      BY <1>1
    <2>2. \A j \in (5 + 2)..v : t[j] \in Value
      BY FormValues
    <2>3. t[5] \in Word /\ t[5 + 1] = Equals /\ t[v + 1] = Ampersand /\ t[v + 2] # Ampersand
      BY <1>4, <1>5, <2>1
    <2>. HIDE DEF v, b
    <2>4. /\ Starts(t, 5) # {} /\ MatchOf(t, 5)[1] = <<t[5]>>
          /\ v # l => MatchEnd(t, 5) = v + 2
      BY <1>1, <2>1, <2>2, <2>3, FieldAt DEF l
    <2>. QED BY <1>4, <2>1, <2>4
  <1>8. Starts(t, b) # {} /\ MatchOf(t, b)[1] = <<KeyB>> /\ b \in 1..l
    <2>1. b \in 1..l /\ l \in (b + 2)..l /\ b + 1 = n + 9 /\ b + 2 = n + 10
      BY <1>1
    <2>2. \A j \in (b + 2)..l : t[j] \in Value
      BY <2>1, FormValues DEF l
    <2>3. t[b] \in Word /\ t[b + 1] = Equals
      BY <1>4, <1>5, <2>1
    <2>. HIDE DEF b
    <2>4. Starts(t, b) # {} /\ MatchOf(t, b)[1] = <<t[b]>>
      BY <1>1, <2>1, <2>2, <2>3, FieldAt DEF l
    <2>. QED BY <1>4, <2>1, <2>4
  <1>9. 1 \in 1..l /\ 5 \in 1..l
    BY <1>1
  <1>. HIDE DEF b, M
  <1>10. HasKey(f[b], KeyB)
    <2>. DEFINE p == MatchOf(t, b)
                w == f[MatchEnd(t, b)]
    <2>1. f[b] = <<p>> \o w /\ w \in Seq(M) /\ p \in M /\ p[1] = <<KeyB>>
      BY <1>3, <1>8
    <2>. HIDE DEF p, w
    <2>. QED BY <2>1, HasKeyCons
  <1>11. HasKey(f[5], KeyT) /\ HasKey(f[5], KeyB)
    <2>. DEFINE p == MatchOf(t, 5)
                w == f[b]
    <2>1. f[5] = <<p>> \o w /\ w \in Seq(M) /\ p \in M /\ p[1] = <<KeyT>> /\ HasKey(w, KeyB)
      BY <1>3, <1>7, <1>9, <1>10
    <2>. HIDE DEF p, w
    <2>. QED BY <2>1, HasKeyCons
  <1>12. HasKey(f[1], KeyM) /\ HasKey(f[1], KeyT) /\ HasKey(f[1], KeyB)
    <2>. DEFINE p == MatchOf(t, 1)
                w == f[5]
    <2>1. f[1] = <<p>> \o w /\ w \in Seq(M) /\ p \in M /\ p[1] = <<KeyM>> /\ HasKey(w, KeyT) /\ HasKey(w, KeyB)
      BY <1>3, <1>6, <1>9, <1>11
    <2>. HIDE DEF p, w
    <2>. QED BY <2>1, HasKeyCons
  <1>. QED BY <1>2, <1>12

\* A form that arrives as a whole, with captions that are not empty, passes.
LEMMA WholeFormPasses ==
  ASSUME NEW t, NEW x, NEW y, NEW n, FormShape(t, x, y, n), Legal(x), Legal(y), x # <<>>, y # <<>>,
         NEW body, UriDecode(body) = t
  PROVE  body_check(body)
  <1>. DEFINE l == Len(t)
  <1>1. t \in Seq(Nat) /\ l \in Nat /\ n \in Nat /\ n + 9 <= l
    <2>. DEFINE m == Len(y)
    <2>1. t \in Seq(Nat) /\ l \in Nat /\ n \in Nat /\ m \in Nat /\ l = n + 9 + m
      BY DEF FormShape
    <2>. HIDE DEF l, m
    <2>. QED BY <2>1
  <1>2. Shows(t, t, l)
    BY <1>1 DEF Shows
  <1>3. n + 7 <= l /\ 3 \in 1..l
    <2>. HIDE DEF l
    <2>. QED BY <1>1
  <1>4. ~Throws(body)
    <2>1. \A i \in DOMAIN t : t[i] # Fail
      BY <1>1 DEF Fail
    <2>. QED BY <2>1 DEF Throws
  <1>5. ASSUME NEW key, HasKey(Pairs(t), key)
        PROVE  \E p \in AllMatches(t) : p[1] = <<key>> /\ LastValue(body, key) = p[2]
    BY <1>1, <1>5, LastValueIs DEF HasKey
  <1>6. LastValue(body, KeyM) = SubSeq(t, 3, 3)
    <2>1. PICK p \in AllMatches(t) : p[1] = <<KeyM>> /\ LastValue(body, KeyM) = p[2]
      BY <1>5, FieldsMet
    <2>. QED BY <1>2, <1>3, <2>1, FieldsFound
  <1>7. \E i \in DOMAIN LastValue(body, KeyM) : LastValue(body, KeyM)[i] = Template[1]
    <2>1. SubSeq(t, 3, 3) = <<t[3]>>
      BY <1>1, <1>3, SubSeqOne
    <2>2. t[3] = Template[1]
      BY FormCharacters DEF FormShape
    <2>3. LastValue(body, KeyM) = <<Template[1]>>
      BY <1>6, <2>1, <2>2
    <2>. DEFINE c == Template[1]
                w == LastValue(body, KeyM)
    <2>. HIDE DEF c, w
    <2>4. w = <<c>>
      BY <2>3 DEF c, w
    <2>5. 1 \in DOMAIN w /\ w[1] = c
      BY <2>4
    <2>. QED BY <2>5 DEF c, w
  <1>8. LastValue(body, KeyT) # <<>>
    <2>1. PICK p \in AllMatches(t) : p[1] = <<KeyT>> /\ LastValue(body, KeyT) = p[2]
      BY <1>5, FieldsMet
    <2>. QED BY <1>2, <1>3, <2>1, FieldsFound
  <1>9. LastValue(body, KeyB) # <<>>
    <2>1. PICK p \in AllMatches(t) : p[1] = <<KeyB>> /\ LastValue(body, KeyB) = p[2]
      BY <1>5, FieldsMet
    <2>. DEFINE a == n + 10
                w == SubSeq(t, a, l)
    <2>2. a <= l /\ LastValue(body, KeyB) = w
      BY <1>2, <2>1, FieldsFound
    <2>3. a \in 1..(Len(t) + 1) /\ l \in (a - 1)..Len(t) /\ l - a + 1 # 0
      BY <1>1, <2>2
    <2>4. Len(w) = l - a + 1
      <3>. HIDE DEF a, l
      <3>. QED BY <1>1, <2>3, Part
    <2>5. Len(w) # 0
      BY <2>3, <2>4
    <2>. HIDE DEF w
    <2>6. w # <<>>
      BY <2>5
    <2>. QED BY <2>2, <2>6
  <1>. QED BY <1>4, <1>7, <1>8, <1>9 DEF body_check

-----------------------------------------------------------------------------
(* The captions of a form *)

\* A text for a character, on one line: the character itself, a plus for a space,
\* or %xx, and what stays of %xx if it is cut is no character of a caption.
Writing(t, c) ==
    /\ t \in Seq(Nat) /\ \A j \in 1..Len(t) : t[j] \notin {CR, LF}
    /\ \/ t = <<c>> /\ c \notin {Percent, Plus}
       \/ t = <<Plus>> /\ c = SP
       \/ \E h, l \in Nat : t = <<Percent, h, l>> /\ c = HexToChar(<<h, l>>) /\ HexToChar(<<h>>) \in 0..15

\* The texts for the characters of s in a row.
Writes(g, texts, s) ==
    /\ s \in Seq(Nat) /\ Len(s) \in Nat /\ Joins(g, Len(s), Nat, texts)
    /\ \A k \in 1..Len(s) : Writing(texts[k], s[k])
Written(t, s) == \E g, texts : Writes(g, texts, s) /\ g[Len(s)] = t

LEMMA WritingPlain ==
  ASSUME NEW c \in Nat, c \notin {CR, LF, Percent, Plus}
  PROVE  Writing(<<c>>, c)
  <1>. DEFINE t == <<c>>
  <1>1. t \in Seq(Nat) /\ Len(t) = 1 /\ t[1] = c
    OBVIOUS
  <1>. HIDE DEF t
  <1>2. \A j \in 1..Len(t) : t[j] \notin {CR, LF}
    BY <1>1
  <1>. QED BY <1>1, <1>2 DEF Writing, t

LEMMA WritingPlus == Writing(<<Plus>>, SP)
  <1>. DEFINE t == <<Plus>>
  <1>1. Plus \in Nat /\ Plus \notin {CR, LF}
    BY DEF Plus, CR, LF
  <1>2. t \in Seq(Nat) /\ Len(t) = 1 /\ t[1] = Plus
    BY <1>1
  <1>. HIDE DEF t
  <1>3. \A j \in 1..Len(t) : t[j] \notin {CR, LF}
    BY <1>1, <1>2
  <1>. QED BY <1>2, <1>3 DEF Writing, t

LEMMA WritingHex ==
  ASSUME NEW c \in Byte
  PROVE  Writing(CharToHex(c), c)
  <1>. DEFINE h == HexDigit(c \div 16)
              l == HexDigit(c % 16)
              t == <<Percent, h, l>>
  <1>1. c \div 16 \in 0..15 /\ c % 16 \in 0..15
    BY DEF Byte
  <1>2. h \in Nat /\ l \in Nat /\ h \notin {CR, LF} /\ l \notin {CR, LF} /\ HexValue(h) = c \div 16
    <2>1. \A n \in 0..15 : HexDigit(n) \notin {CR, LF}
      BY DEF HexDigit, CR, LF
    <2>. QED BY <1>1, <2>1, HexDigitValue
  <1>3. HexToChar(<<h, l>>) = c
    BY HexRoundTrip
  <1>4. CharToHex(c) = t
    BY DEF CharToHex
  <1>5. c \div 16 # Fail
    BY <1>1 DEF Fail
  <1>. HIDE DEF h, l
  <1>6. HexToChar(<<h>>) \in 0..15
    <2>. DEFINE s == <<h>>
    <2>1. s # <<>> /\ Len(s) = 1 /\ s[1] = h
      OBVIOUS
    <2>. HIDE DEF s
    <2>2. HexToChar(s) = HexValue(s[1])
      BY <1>2, <1>5, <2>1 DEF HexToChar
    <2>. QED BY <1>1, <1>2, <2>1, <2>2 DEF s
  <1>7. Percent \in Nat /\ Percent \notin {CR, LF}
    BY DEF Percent, CR, LF
  <1>8. t \in Seq(Nat) /\ Len(t) = 3 /\ t[1] = Percent /\ t[2] = h /\ t[3] = l
    BY <1>2, <1>7
  <1>9. \A j \in 1..Len(t) : t[j] \notin {CR, LF}
    <2>. HIDE DEF t
    <2>. QED BY <1>2, <1>7, <1>8
  <1>10. \E a, b \in Nat : t = <<Percent, a, b>> /\ c = HexToChar(<<a, b>>) /\ HexToChar(<<a>>) \in 0..15
    BY <1>2, <1>3, <1>6
  <1>. HIDE DEF t
  <1>11. Writing(t, c)
    <2>1. t \in Seq(Nat)
      BY <1>8
    <2>. QED BY <2>1, <1>9, <1>10 DEF Writing
  <1>. QED BY <1>4, <1>11

LEMMA WrittenOne ==
  ASSUME NEW c \in Nat, NEW t, Writing(t, c)
  PROVE  Written(t, <<c>>)
  <1>. DEFINE s == <<c>>
              g == [k \in 0..1 |-> IF k = 0 THEN <<>> ELSE t]
              texts == [k \in 1..1 |-> t]
  <1>1. t \in Seq(Nat)
    BY DEF Writing
  <1>2. s \in Seq(Nat) /\ Len(s) = 1 /\ s[1] = c
    OBVIOUS
  <1>3. <<>> \o t = t /\ <<>> \in Seq(Nat)
    BY <1>1
  <1>4. g \in [0..1 -> Seq(Nat)] /\ g[0] = <<>> /\ g[1] = t /\ texts[1] = t
    BY <1>1, <1>3
  <1>. HIDE DEF g, texts, s
  <1>5. Joins(g, 1, Nat, texts)
    <2>1. ASSUME NEW i \in 1..1 PROVE texts[i] \in Seq(Nat) /\ g[i] = g[i - 1] \o texts[i]
      <3>1. i = 1 /\ i - 1 = 0
        OBVIOUS
      <3>. QED BY <1>1, <1>3, <1>4, <3>1
    <2>. QED BY <1>4, <2>1 DEF Joins
  <1>6. \A k \in 1..1 : Writing(texts[k], s[k])
    BY <1>2, <1>4
  <1>7. Writes(g, texts, s)
    BY <1>2, <1>5, <1>6 DEF Writes
  <1>8. Written(t, s)
    BY <1>2, <1>4, <1>7 DEF Written
  <1>. QED BY <1>8 DEF s

LEMMA WrittenConcat ==
  ASSUME NEW t, NEW s, NEW u, NEW v, Written(t, s), Written(u, v)
  PROVE  Written(t \o u, s \o v) /\ t \in Seq(Nat) /\ u \in Seq(Nat) /\ s \in Seq(Nat) /\ v \in Seq(Nat)
  <1>1. PICK g, texts : Writes(g, texts, s) /\ g[Len(s)] = t
    BY DEF Written
  <1>2. PICK h, words_ : Writes(h, words_, v) /\ h[Len(v)] = u
    BY DEF Written
  <1>. DEFINE a == Len(s)
              b == Len(v)
              z == s \o v
              G == [k \in 0..(a + b) |-> IF k <= a THEN g[k] ELSE t \o h[k - a]]
              X == [k \in 1..(a + b) |-> IF k <= a THEN texts[k] ELSE words_[k - a]]
  <1>3. /\ a \in Nat /\ s \in Seq(Nat) /\ g \in [0..a -> Seq(Nat)] /\ g[0] = <<>> /\ g[a] = t
        /\ \A i \in 1..a : texts[i] \in Seq(Nat) /\ g[i] = g[i - 1] \o texts[i] /\ Writing(texts[i], s[i])
    BY <1>1 DEF Writes, Joins
  <1>4. /\ b \in Nat /\ v \in Seq(Nat) /\ h \in [0..b -> Seq(Nat)] /\ h[0] = <<>> /\ h[b] = u
        /\ \A i \in 1..b : words_[i] \in Seq(Nat) /\ h[i] = h[i - 1] \o words_[i] /\ Writing(words_[i], v[i])
    BY <1>2 DEF Writes, Joins
  <1>5. z \in Seq(Nat) /\ Len(z) = a + b /\ \A j \in 1..a : z[j] = s[j]
    BY <1>3, <1>4, Concatenation
  <1>6. \A j \in 1..b : z[a + j] = v[j]
    BY <1>3, <1>4, Concatenation
  <1>. HIDE DEF a, b, z
  <1>7. t \in Seq(Nat) /\ u \in Seq(Nat) /\ t \o <<>> = t
    <2>1. t \in Seq(Nat) /\ u \in Seq(Nat)
      BY <1>3, <1>4
    <2>. QED BY <2>1
  <1>8. \A k \in 0..a : G[k] = g[k]
    BY <1>3, <1>4
  <1>9. ASSUME NEW j \in 0..b PROVE G[a + j] = t \o h[j]
    <2>1. CASE j = 0
      <3>1. a + j = a /\ a \in 0..a
        BY <1>3, <2>1
      <3>2. G[a] = t
        BY <1>3, <1>8, <3>1
      <3>. QED BY <1>4, <1>7, <2>1, <3>1, <3>2
    <2>2. CASE j # 0
      <3>. DEFINE k == a + j
      <3>1. k \in 0..(a + b) /\ ~(k <= a) /\ k - a = j
        BY <1>3, <1>4, <2>2
      <3>. HIDE DEF k
      <3>2. G[k] = t \o h[j]
        BY <3>1
      <3>. QED BY <3>2 DEF k
    <2>. QED BY <2>1, <2>2
  <1>10. \A k \in 1..a : X[k] = texts[k]
    BY <1>3, <1>4
  <1>11. ASSUME NEW j \in 1..b PROVE X[a + j] = words_[j]
    <2>. DEFINE k == a + j
    <2>1. k \in 1..(a + b) /\ ~(k <= a) /\ k - a = j
      BY <1>3, <1>4
    <2>. HIDE DEF k
    <2>2. X[k] = words_[j]
      BY <2>1
    <2>. QED BY <2>2 DEF k
  <1>12. G = [k \in 0..(a + b) |-> G[k]]
    OBVIOUS
  <1>. HIDE DEF G, X
  <1>13. ASSUME NEW k \in 1..(a + b), ~(k <= a)
         PROVE  \E j \in 1..b : k = a + j /\ k - 1 = a + (j - 1) /\ j \in 0..b /\ j - 1 \in 0..b
    <2>. DEFINE j == k - a
    <2>1. j \in 1..b /\ k = a + j /\ k - 1 = a + (j - 1) /\ j \in 0..b /\ j - 1 \in 0..b
      BY <1>3, <1>4, <1>13
    <2>. QED BY <2>1
  <1>14. ASSUME NEW k \in 0..(a + b) PROVE G[k] \in Seq(Nat)
    <2>1. CASE k <= a
      <3>1. k \in 0..a
        BY <1>3, <2>1
      <3>. QED BY <1>3, <1>8, <3>1
    <2>2. CASE ~(k <= a)
      <3>1. k \in 1..(a + b)
        BY <1>3, <1>4, <2>2
      <3>2. PICK j \in 1..b : k = a + j /\ j \in 0..b
        BY <1>13, <2>2, <3>1
      <3>3. G[k] = t \o h[j] /\ h[j] \in Seq(Nat)
        BY <1>4, <1>9, <3>2
      <3>4. t \o h[j] \in Seq(Nat)
        BY <1>7, <3>3, Concatenation
      <3>. QED BY <3>3, <3>4
    <2>. QED BY <2>1, <2>2
  <1>15. ASSUME NEW k \in 1..(a + b)
         PROVE  X[k] \in Seq(Nat) /\ G[k] = G[k - 1] \o X[k] /\ Writing(X[k], z[k])
    <2>1. CASE k <= a
      <3>1. k \in 1..a /\ k \in 0..a /\ k - 1 \in 0..a
        BY <1>3, <2>1
      <3>. QED BY <1>3, <1>5, <1>8, <1>10, <3>1
    <2>2. CASE ~(k <= a)
      <3>1. PICK j \in 1..b : k = a + j /\ k - 1 = a + (j - 1) /\ j \in 0..b /\ j - 1 \in 0..b
        BY <1>13, <2>2
      <3>. DEFINE x == h[j - 1]
                  y == words_[j]
      <3>2. x \in Seq(Nat) /\ y \in Seq(Nat) /\ h[j] = x \o y /\ Writing(y, v[j])
        BY <1>4, <3>1
      <3>3. G[k] = t \o h[j]
        BY <1>9, <3>1
      <3>4. G[k - 1] = t \o x
        BY <1>9, <3>1
      <3>5. X[k] = y /\ z[k] = v[j]
        BY <1>6, <1>11, <3>1
      <3>. HIDE DEF x, y
      <3>6. (t \o x) \o y = t \o (x \o y)
        BY <1>7, <3>2, Associative
      <3>. QED BY <3>2, <3>3, <3>4, <3>5, <3>6
    <2>. QED BY <2>1, <2>2
  <1>16. G[0] = <<>> /\ G[a + b] = t \o u
    <2>1. 0 \in 0..a /\ b \in 0..b
      BY <1>3, <1>4
    <2>. QED BY <1>3, <1>4, <1>8, <1>9, <2>1
  <1>17. Joins(G, a + b, Nat, X)
    <2>1. G \in [0..(a + b) -> Seq(Nat)]
      BY <1>12, <1>14
    <2>. QED BY <1>15, <1>16, <2>1 DEF Joins
  <1>18. Writes(G, X, z)
    <2>1. a + b \in Nat
      BY <1>3, <1>4
    <2>. QED BY <1>5, <1>15, <1>17, <2>1 DEF Writes
  <1>19. Written(t \o u, z)
    BY <1>5, <1>16, <1>18 DEF Written
  <1>. QED BY <1>3, <1>4, <1>7, <1>19 DEF z

\* What the browser sends for a character of a caption.
FormText(c) == CASE c = SP -> <<Plus>>
                 [] c \in Word \cup {33, 39, 40, 41, 42, 45, 46, 126} -> <<c>>
                 [] OTHER -> CharToHex(c)
Typing(f, s) == f = [i \in 0..Len(s) |-> IF i = 0 THEN <<>> ELSE f[i - 1] \o FormText(s[i])]

LEMMA FormTextWrites ==
  ASSUME NEW c \in Byte
  PROVE  Writing(FormText(c), c)
  <1>. DEFINE P == Word \cup {33, 39, 40, 41, 42, 45, 46, 126}
  <1>1. SP \notin P
    BY DEF SP, Word, Digits, UpperCase, LowerCase
  <1>2. CASE c = SP
    <2>1. FormText(c) = <<Plus>>
      BY <1>1, <1>2 DEF FormText
    <2>. QED BY <1>2, <2>1, WritingPlus
  <1>3. CASE c \in P
    <2>1. FormText(c) = <<c>>
      BY <1>1, <1>3 DEF FormText
    <2>2. c \notin {CR, LF, Percent, Plus}
      BY <1>3 DEF CR, LF, Percent, Plus, Word, Digits, UpperCase, LowerCase
    <2>. QED BY <2>1, <2>2, ByteNat, WritingPlain
  <1>4. CASE c # SP /\ c \notin P
    <2>1. FormText(c) = CharToHex(c)
      BY <1>4 DEF FormText
    <2>. QED BY <2>1, WritingHex
  <1>. QED BY <1>2, <1>3, <1>4

LEMMA FormWrites ==
  ASSUME NEW s \in Seq(Byte)
  PROVE  Written(FormEncode(s), s)
  <1>. DEFINE n == Len(s)
              texts == [i \in 1..n |-> FormText(s[i])]
  <1>1. n \in Nat
    OBVIOUS
  <1>2. ASSUME NEW i \in 1..n PROVE texts[i] = FormText(s[i]) /\ Writing(texts[i], s[i]) /\ texts[i] \in Seq(Nat) /\ s[i] \in Nat
    <2>1. s[i] \in Byte /\ texts[i] = FormText(s[i])
      OBVIOUS
    <2>2. Writing(texts[i], s[i])
      BY <2>1, FormTextWrites
    <2>. HIDE DEF texts
    <2>3. texts[i] \in Seq(Nat)
      BY <2>2 DEF Writing
    <2>. QED BY <2>1, <2>2, <2>3, ByteNat
  <1>3. texts = [i \in 1..n |-> texts[i]]
    OBVIOUS
  <1>. HIDE DEF texts
  <1>4. texts \in [1..n -> Seq(Nat)]
    BY <1>2, <1>3
  <1>5. ASSUME NEW f PROVE Typing(f, s) <=> JoinLoop(f, n, texts)
    <2>. DEFINE V(i) == IF i = 0 THEN <<>> ELSE f[i - 1] \o FormText(s[i])
                U(i) == IF i = 0 THEN <<>> ELSE f[i - 1] \o texts[i]
    <2>1. ASSUME NEW i \in 0..n PROVE V(i) = U(i)
      <3>1. i = 0 \/ i \in 1..n
        BY <1>1
      <3>. QED BY <1>2, <3>1
    <2>2. Typing(f, s) <=> f = [i \in 0..n |-> V(i)]
      BY DEF Typing
    <2>3. JoinLoop(f, n, texts) <=> f = [i \in 0..n |-> U(i)]
      BY DEF JoinLoop
    <2>. HIDE DEF U, V
    <2>4. [i \in 0..n |-> V(i)] = [i \in 0..n |-> U(i)]
      BY <2>1
    <2>. QED BY <2>2, <2>3, <2>4
  <1>6. PICK f : JoinLoop(f, n, texts)
    BY <1>1, <1>4, JoinLoopExists
  <1>7. PICK g : Typing(g, s) /\ g = CHOOSE h : Typing(h, s)
    BY <1>5, <1>6
  <1>8. FormEncode(s) = (CHOOSE h : Typing(h, s))[n]
    BY DEF FormEncode, Typing, FormText
  <1>9. Joins(g, n, Nat, texts)
    BY <1>1, <1>4, <1>5, <1>7, JoinLoopJoins
  <1>10. s \in Seq(Nat)
    <2>1. s = [i \in 1..n |-> s[i]]
      OBVIOUS
    <2>. QED BY <1>1, <1>2, <2>1, SeqDef, SMTT(30)
  <1>11. Writes(g, texts, s)
    BY <1>1, <1>2, <1>9, <1>10 DEF Writes
  <1>. QED BY <1>7, <1>8, <1>11 DEF Written

\* The form before the browser encodes it.
TypedForm(x, y) ==
    <<KeyM, Equals>> \o Template \o <<Ampersand, KeyT, Equals>> \o x \o <<Ampersand, KeyB, Equals>> \o y

LEMMA OneAndOne ==
  ASSUME NEW c \in Nat, NEW d \in Nat
  PROVE  <<c>> \o <<d>> = <<c, d>>
  <1>. DEFINE x == <<c>>
              y == <<d>>
              z == <<c, d>>
  <1>1. x \in Seq(Nat) /\ y \in Seq(Nat) /\ Len(x) = 1 /\ Len(y) = 1 /\ x[1] = c /\ y[1] = d
    OBVIOUS
  <1>2. z \in Seq(Nat) /\ Len(z) = 2 /\ z[1] = c /\ z[2] = d
    OBVIOUS
  <1>. DEFINE w == x \o y
  <1>. HIDE DEF x, y, z
  <1>3. w \in Seq(Nat) /\ Len(w) = Len(x) + Len(y) /\ \A j \in 1..Len(x) : w[j] = x[j]
    BY <1>1, Concatenation
  <1>4. \A j \in 1..Len(y) : w[Len(x) + j] = y[j]
    <2>1. x \in Seq(Nat) /\ y \in Seq(Nat)
      BY <1>1
    <2>. QED BY <2>1, Concatenation
  <1>. HIDE DEF w
  <1>5. Len(w) = 2 /\ w[1] = z[1] /\ w[2] = z[2]
    BY <1>1, <1>2, <1>3, <1>4
  <1>6. \A j \in 1..2 : w[j] = z[j]
    BY <1>5
  <1>7. w = z
    BY <1>2, <1>3, <1>5, <1>6, SeqEqual
  <1>. QED BY <1>7 DEF w, x, y, z

LEMMA TwoAndOne ==
  ASSUME NEW c \in Nat, NEW d \in Nat, NEW e \in Nat
  PROVE  <<c, d>> \o <<e>> = <<c, d, e>>
  <1>. DEFINE x == <<c, d>>
              y == <<e>>
              z == <<c, d, e>>
  <1>1. x \in Seq(Nat) /\ y \in Seq(Nat) /\ Len(x) = 2 /\ Len(y) = 1 /\ x[1] = c /\ x[2] = d /\ y[1] = e
    OBVIOUS
  <1>2. z \in Seq(Nat) /\ Len(z) = 3 /\ z[1] = c /\ z[2] = d /\ z[3] = e
    OBVIOUS
  <1>. DEFINE w == x \o y
  <1>. HIDE DEF x, y, z
  <1>3. w \in Seq(Nat) /\ Len(w) = Len(x) + Len(y) /\ \A j \in 1..Len(x) : w[j] = x[j]
    BY <1>1, Concatenation, SMTT(30)
  <1>4. \A j \in 1..Len(y) : w[Len(x) + j] = y[j]
    <2>1. x \in Seq(Nat) /\ y \in Seq(Nat)
      BY <1>1
    <2>. QED BY <2>1, Concatenation
  <1>. HIDE DEF w
  <1>5. Len(w) = 3 /\ w[1] = z[1] /\ w[2] = z[2] /\ w[3] = z[3]
    BY <1>1, <1>2, <1>3, <1>4
  <1>6. \A j \in 1..3 : w[j] = z[j]
    BY <1>5
  <1>7. w = z
    BY <1>2, <1>3, <1>5, <1>6, SeqEqual
  <1>. QED BY <1>7 DEF w, x, y, z

LEMMA FrameWritten ==
  /\ \A c \in {KeyM, KeyT, KeyB, Equals, Ampersand, 106} : Written(<<c>>, <<c>>)
  /\ Written(<<KeyM, Equals>>, <<KeyM, Equals>>) /\ Written(Template, Template)
  /\ Written(<<Ampersand, KeyT, Equals>>, <<Ampersand, KeyT, Equals>>)
  /\ Written(<<Ampersand, KeyB, Equals>>, <<Ampersand, KeyB, Equals>>)
  <1>1. ASSUME NEW c \in {KeyM, KeyT, KeyB, Equals, Ampersand, 106} PROVE Written(<<c>>, <<c>>)
    <2>1. c \in Nat /\ c \notin {CR, LF, Percent, Plus}
      BY DEF KeyM, KeyT, KeyB, Equals, Ampersand, CR, LF, Percent, Plus
    <2>. QED BY <2>1, WritingPlain, WrittenOne
  <1>2. ASSUME NEW c \in Nat, NEW d \in Nat, Written(<<c>>, <<c>>), Written(<<d>>, <<d>>)
        PROVE  Written(<<c, d>>, <<c, d>>)
    <2>1. <<c>> \o <<d>> = <<c, d>>
      BY OneAndOne
    <2>. QED BY <1>2, <2>1, WrittenConcat
  <1>3. ASSUME NEW c \in Nat, NEW d \in Nat, NEW e \in Nat,
               Written(<<c>>, <<c>>), Written(<<d>>, <<d>>), Written(<<e>>, <<e>>)
        PROVE  Written(<<c, d, e>>, <<c, d, e>>)
    <2>1. <<c, d>> \o <<e>> = <<c, d, e>>
      BY TwoAndOne
    <2>2. Written(<<c, d>>, <<c, d>>)
      BY <1>2, <1>3
    <2>. QED BY <1>3, <2>1, <2>2, WrittenConcat
  <1>4. Written(<<KeyM>>, <<KeyM>>) /\ Written(<<KeyT>>, <<KeyT>>) /\ Written(<<KeyB>>, <<KeyB>>)
        /\ Written(<<Equals>>, <<Equals>>) /\ Written(<<Ampersand>>, <<Ampersand>>) /\ Written(<<106>>, <<106>>)
    BY <1>1
  <1>5. KeyM \in Nat /\ KeyT \in Nat /\ KeyB \in Nat /\ Equals \in Nat /\ Ampersand \in Nat
    BY DEF KeyM, KeyT, KeyB, Equals, Ampersand
  <1>. QED BY <1>1, <1>2, <1>3, <1>4, <1>5 DEF Template

LEMMA FormWritten ==
  ASSUME NEW x \in Seq(Byte), NEW y \in Seq(Byte)
  PROVE  Written(Form(x, y), TypedForm(x, y))
  <1>. DEFINE A == <<KeyM, Equals>>
              B == Template
              C == <<Ampersand, KeyT, Equals>>
              D == <<Ampersand, KeyB, Equals>>
              v == FormEncode(x)
              w == FormEncode(y)
  <1>1. Written(A, A) /\ Written(B, B) /\ Written(C, C) /\ Written(D, D)
    BY FrameWritten
  <1>2. Written(v, x) /\ Written(w, y)
    BY FormWrites
  <1>3. Form(x, y) = A \o B \o C \o v \o D \o w /\ TypedForm(x, y) = A \o B \o C \o x \o D \o y
    BY DEF Form, TypedForm
  <1>. HIDE DEF A, B, C, D, v, w
  <1>4. Written(A \o B, A \o B)
    BY <1>1, WrittenConcat
  <1>5. Written(A \o B \o C, A \o B \o C)
    BY <1>1, <1>4, WrittenConcat
  <1>6. Written(A \o B \o C \o v, A \o B \o C \o x)
    BY <1>2, <1>5, WrittenConcat
  <1>7. Written(A \o B \o C \o v \o D, A \o B \o C \o x \o D)
    BY <1>1, <1>6, WrittenConcat
  <1>8. Written(A \o B \o C \o v \o D \o w, A \o B \o C \o x \o D \o y)
    BY <1>2, <1>7, WrittenConcat
  <1>. QED BY <1>3, <1>8

LEMMA ByteSeq ==
  ASSUME NEW s \in Seq(Byte)
  PROVE  s \in Seq(Nat)
  <1>1. s = [i \in 1..Len(s) |-> s[i]] /\ Len(s) \in Nat /\ \A i \in 1..Len(s) : s[i] \in Byte
    OBVIOUS
  <1>2. \A i \in 1..Len(s) : s[i] \in Nat
    BY <1>1, ByteNat
  <1>. QED BY <1>1, <1>2, SeqDef

LEMMA TypedShape ==
  ASSUME NEW x \in Seq(Nat), NEW y \in Seq(Nat)
  PROVE  FormShape(TypedForm(x, y), x, y, Len(x))
  <1>. DEFINE H == <<KeyM, Equals>> \o Template \o <<Ampersand, KeyT, Equals>>
              D == <<Ampersand, KeyB, Equals>>
              n == Len(x)
              m == Len(y)
              a == H \o x
              b == a \o D
              t == b \o y
  <1>1. n \in Nat /\ m \in Nat
    OBVIOUS
  <1>3. H \in Seq(Nat) /\ Len(H) = 6 /\ H[1] = KeyM /\ H[2] = Equals /\ H[3] = 106 /\ H[4] = Ampersand
        /\ H[5] = KeyT /\ H[6] = Equals
    <2>. DEFINE A == <<KeyM, Equals>>
                B == Template
                C == <<Ampersand, KeyT, Equals>>
                E == <<KeyM, Equals, 106>>
    <2>1. KeyM \in Nat /\ Equals \in Nat /\ Ampersand \in Nat /\ KeyT \in Nat /\ 106 \in Nat
      BY DEF KeyM, Equals, Ampersand, KeyT
    <2>2. A \o B = E
      BY <2>1, TwoAndOne DEF Template
    <2>3. E \in Seq(Nat) /\ Len(E) = 3 /\ E[1] = KeyM /\ E[2] = Equals /\ E[3] = 106
      BY <2>1
    <2>4. C \in Seq(Nat) /\ Len(C) = 3 /\ C[1] = Ampersand /\ C[2] = KeyT /\ C[3] = Equals
      BY <2>1
    <2>5. H = (A \o B) \o C
      OBVIOUS
    <2>. HIDE DEF A, B, C, E, H
    <2>6. H \in Seq(Nat) /\ Len(H) = 6 /\ H[1] = E[1] /\ H[2] = E[2] /\ H[3] = E[3]
          /\ H[4] = C[1] /\ H[5] = C[2] /\ H[6] = C[3]
      <3>1. E \in Seq(Nat) /\ C \in Seq(Nat) /\ H = E \o C
        BY <2>2, <2>3, <2>4, <2>5
      <3>2. H \in Seq(Nat) /\ Len(H) = Len(E) + Len(C) /\ \A j \in 1..Len(E) : H[j] = E[j]
        BY <3>1, Concatenation
      <3>3. \A j \in 1..Len(C) : H[Len(E) + j] = C[j]
        BY <3>1, Concatenation
      <3>4. Len(E) = 3 /\ Len(C) = 3
        BY <2>3, <2>4
      <3>. QED BY <3>2, <3>3, <3>4
    <2>. QED BY <2>3, <2>4, <2>6
  <1>4. D \in Seq(Nat) /\ Len(D) = 3 /\ D[1] = Ampersand /\ D[2] = KeyB /\ D[3] = Equals
    BY DEF Ampersand, KeyB, Equals
  <1>5. TypedForm(x, y) = t
    BY DEF TypedForm
  <1>. HIDE DEF H, D
  <1>6. a \in Seq(Nat) /\ Len(a) = 6 + n /\ Stands(a, 0, H) /\ Stands(a, 6, x)
    <2>0. H \in Seq(Nat)
      BY <1>3
    <2>1. a \in Seq(Nat) /\ Len(a) = Len(H) + n /\ Stands(a, 0, H) /\ Stands(a, Len(H), x)
      BY <2>0, StandsConcat
    <2>. HIDE DEF a
    <2>. QED BY <1>3, <2>1
  <1>. HIDE DEF a
  <1>7. b \in Seq(Nat) /\ Len(b) = 9 + n /\ Stands(b, 0, a) /\ Stands(b, 6 + n, D)
    <2>1. b \in Seq(Nat) /\ Len(b) = Len(a) + Len(D) /\ Stands(b, 0, a) /\ Stands(b, Len(a), D)
      BY <1>4, <1>6, StandsConcat
    <2>2. Len(a) + Len(D) = 9 + n
      <3>1. 6 + n + 3 = 9 + n
        BY <1>1
      <3>. QED BY <1>4, <1>6, <3>1
    <2>. HIDE DEF b
    <2>. QED BY <1>6, <2>1, <2>2
  <1>. HIDE DEF b
  <1>8. t \in Seq(Nat) /\ Len(t) = 9 + n + m /\ Stands(t, 0, b) /\ Stands(t, 9 + n, y)
    <2>1. t \in Seq(Nat) /\ Len(t) = Len(b) + m /\ Stands(t, 0, b) /\ Stands(t, Len(b), y)
      BY <1>7, StandsConcat
    <2>. HIDE DEF t
    <2>. QED BY <1>7, <2>1
  <1>. HIDE DEF t
  <1>9. Stands(t, 6, x) /\ Stands(t, 0, H) /\ Stands(t, 6 + n, D)
    <2>1. Stands(t, 0 + 0, a)
      BY <1>7, <1>8, StandsTrans
    <2>2. Stands(t, 0 + (6 + n), D)
      BY <1>7, <1>8, StandsTrans
    <2>3. 0 + 0 = 0 /\ 0 + 6 = 6 /\ 0 + (6 + n) = 6 + n
      BY <1>1
    <2>4. Stands(t, 0, a)
      BY <2>1, <2>3
    <2>5. Stands(t, 0 + 0, H) /\ Stands(t, 0 + 6, x)
      BY <1>6, <2>4, StandsTrans
    <2>. QED BY <2>2, <2>3, <2>5
  <1>10. t[1] = KeyM /\ t[2] = Equals /\ t[3] = 106 /\ t[4] = Ampersand /\ t[5] = KeyT /\ t[6] = Equals
    <2>1. \A j \in 1..6 : t[0 + j] = H[j]
      BY <1>3, <1>9 DEF Stands
    <2>2. \A j \in 1..6 : t[j] = H[j]
      BY <2>1
    <2>. QED BY <1>3, <2>2
  <1>11. t[n + 7] = Ampersand /\ t[n + 8] = KeyB /\ t[n + 9] = Equals
    <2>1. \A j \in 1..3 : t[6 + n + j] = D[j]
      BY <1>4, <1>9 DEF Stands
    <2>2. t[6 + n + 1] = D[1] /\ t[6 + n + 2] = D[2] /\ t[6 + n + 3] = D[3]
      BY <2>1
    <2>3. 6 + n + 1 = n + 7 /\ 6 + n + 2 = n + 8 /\ 6 + n + 3 = n + 9
      BY <1>1
    <2>. QED BY <1>4, <2>2, <2>3
  <1>12. 9 + n = n + 9 /\ 9 + n + m = n + 9 + m /\ 9 + n + m \in Nat
    BY <1>1
  <1>13. FormShape(t, x, y, n)
    <2>1. Stands(t, n + 9, y)
      BY <1>8, <1>12
    <2>2. Len(t) \in Nat /\ Len(t) = n + 9 + m
      BY <1>8, <1>12
    <2>. QED BY <1>1, <1>8, <1>9, <1>10, <1>11, <2>1, <2>2 DEF FormShape
  <1>. QED BY <1>5, <1>13

LEMMA WritingEncodes ==
  ASSUME NEW t, NEW c, Writing(t, c)
  PROVE  Encodes(t, c)
  BY DEF Writing, Encodes

\* What is written is decoded, and is on one line.
LEMMA WrittenDecodes ==
  ASSUME NEW t, NEW s, Written(t, s)
  PROVE  UriDecode(t) = s /\ t \in Seq(Nat) /\ OneLine(t)
  <1>1. PICK g, texts : Writes(g, texts, s) /\ g[Len(s)] = t
    BY DEF Written
  <1>. DEFINE n == Len(s)
              C == {CR, LF}
  <1>2. n \in Nat /\ s \in Seq(Nat) /\ Joins(g, n, Nat, texts) /\ \A k \in 1..n : Writing(texts[k], s[k])
    BY <1>1 DEF Writes
  <1>3. UriDecode(g[n]) = s
    <2>1. \A k \in 1..n : Encodes(texts[k], s[k])
      BY <1>2, WritingEncodes
    <2>. QED BY <1>2, <2>1, DecodesTexts
  <1>4. ASSUME NEW k \in 1..n PROVE texts[k] \in Seq(Nat \ C)
    <2>. DEFINE x == texts[k]
    <2>1. x \in Seq(Nat) /\ \A j \in 1..Len(x) : x[j] \notin C
      BY <1>2 DEF Writing
    <2>. HIDE DEF x, C
    <2>2. x \in Seq(Nat \ C)
      BY <2>1, FreeSeq
    <2>. QED BY <2>2 DEF x
  <1>. HIDE DEF n, C
  <1>5. Joins(g, n, Nat \ C, texts)
    BY <1>2, <1>4, JoinsNarrow
  <1>6. n \in 0..n
    BY <1>2
  <1>7. t \in Seq(Nat \ C) /\ t \in Seq(Nat)
    BY <1>1, <1>2, <1>5, <1>6 DEF Joins, n
  <1>8. OneLine(t)
    <2>1. \A i \in DOMAIN t : t[i] \notin C
      BY <1>7
    <2>. QED BY <2>1 DEF OneLine, C
  <1>. QED BY <1>1, <1>3, <1>7, <1>8 DEF n

\* Of a text that is cut off the characters that are whole are decoded.
LEMMA WrittenCut ==
  ASSUME NEW t, NEW s, Written(t, s), NEW b \in Seq(Nat), Len(b) <= Len(t),
         \A k \in 1..Len(b) : b[k] = t[k]
  PROVE  \E q : Shows(UriDecode(b), s, q)
  <1>1. PICK g, texts : Writes(g, texts, s) /\ g[Len(s)] = t
    BY DEF Written
  <1>. DEFINE n == Len(s)
              B == Len(b)
              S == {k \in 0..n : Len(g[k]) <= B}
              q == Highest(S)
              L == Len(g[q])
  <1>2. n \in Nat /\ s \in Seq(Nat) /\ Joins(g, n, Nat, texts) /\ g[n] = t
    BY <1>1 DEF Writes
  <1>3. \A k \in 1..n : Writing(texts[k], s[k])
    BY <1>1 DEF Writes
  <1>4. g[0] = <<>> /\ Len(g[0]) = 0 /\ \A k \in 0..n : g[k] \in Seq(Nat) /\ Len(g[k]) \in Nat
    <2>1. g[0] = <<>> /\ \A k \in 0..n : g[k] \in Seq(Nat)
      BY <1>2 DEF Joins
    <2>. QED BY <2>1
  <1>5. B \in Nat /\ t \in Seq(Nat) /\ B <= Len(t) /\ n \in 0..n /\ 0 \in 0..n
    BY <1>2, <1>4
  <1>. HIDE DEF B, n
  <1>6. 0 \in S /\ S \in SUBSET Int /\ \A k \in S : k <= n
    BY <1>2, <1>4, <1>5
  <1>7. q \in S /\ \A k \in S : k <= q
    <2>1. n \in Int /\ S # {}
      BY <1>2, <1>6
    <2>. HIDE DEF S
    <2>. QED BY <1>6, <2>1, HighestExists
  <1>. HIDE DEF q
  <1>8. q \in 0..n /\ L <= B /\ L \in Nat /\ g[q] \in Seq(Nat)
    BY <1>4, <1>7
  <1>9. Matches(g[q], t)
    <2>1. n \in 0..n /\ q \in 0..n
      BY <1>5, <1>8
    <2>. QED BY <1>2, <2>1, JoinsPrefix
  <1>10. \A k \in 1..L : g[q][k] = t[k]
    BY <1>9 DEF Matches
  <1>11. \A k \in 1..L : g[q][k] = b[k]
    <2>1. ASSUME NEW k \in 1..L PROVE k \in 1..B
      <3>. HIDE DEF L
      <3>. QED BY <1>5, <1>8
    <2>. QED BY <1>10, <2>1 DEF B
  <1>12. q \in Nat /\ q <= n /\ \A k \in 1..q : k \in 1..n /\ k \in 0..n /\ k - 1 \in 0..n
    BY <1>2, <1>8
  <1>13. CASE L = B
    <2>1. b = g[q]
      <3>1. Len(b) = L /\ Len(b) = Len(g[q])
        BY <1>13 DEF B
      <3>. QED BY <1>8, <1>11, <3>1, SeqEqual
    <2>. DEFINE u == SubSeq(s, 1, q)
    <2>2. 1 \in 1..(Len(s) + 1) /\ q \in (1 - 1)..Len(s) /\ q - 1 + 1 = q /\ \A k \in 1..q : 1 + k - 1 = k
      BY <1>2, <1>12 DEF n
    <2>3. u \in Seq(Nat) /\ Len(u) = q /\ \A k \in 1..q : u[k] = s[1 + k - 1]
      BY <1>2, <2>2, Part
    <2>. HIDE DEF u
    <2>4. \A k \in 1..q : u[k] = s[k]
      BY <2>2, <2>3
    <2>5. Joins([k \in 0..q |-> g[k]], q, Nat, texts)
      <3>. DEFINE G == [k \in 0..q |-> g[k]]
      <3>1. G \in [0..q -> Seq(Nat)] /\ G[0] = <<>>
        BY <1>4, <1>12
      <3>2. ASSUME NEW k \in 1..q PROVE texts[k] \in Seq(Nat) /\ G[k] = G[k - 1] \o texts[k]
        <4>1. k \in 1..n /\ k \in 0..q /\ k - 1 \in 0..q
          BY <1>12
        <4>2. texts[k] \in Seq(Nat) /\ g[k] = g[k - 1] \o texts[k]
          BY <1>2, <4>1 DEF Joins
        <4>. QED BY <4>1, <4>2
      <3>. HIDE DEF G
      <3>3. Joins(G, q, Nat, texts)
        BY <3>1, <3>2 DEF Joins
      <3>. QED BY <3>3 DEF G
    <2>6. UriDecode(g[q]) = u
      <3>. DEFINE G == [k \in 0..q |-> g[k]]
      <3>1. G[q] = g[q]
        BY <1>12
      <3>2. Joins(G, Len(u), Nat, texts)
        BY <2>3, <2>5
      <3>. HIDE DEF G
      <3>3. \A k \in 1..Len(u) : Encodes(texts[k], u[k])
        <4>1. ASSUME NEW k \in 1..q PROVE Encodes(texts[k], u[k])
          <5>1. Writing(texts[k], s[k]) /\ u[k] = s[k]
            BY <1>3, <1>12, <2>4
          <5>. QED BY <5>1, WritingEncodes
        <4>. QED BY <2>3, <4>1
      <3>4. UriDecode(G[Len(u)]) = u
        BY <2>3, <3>2, <3>3, DecodesTexts
      <3>. QED BY <2>3, <3>1, <3>4
    <2>7. Shows(u, s, q)
      BY <1>2, <1>12, <2>3, <2>4 DEF Shows, n
    <2>. QED BY <2>1, <2>6, <2>7
  <1>14. CASE L # B
    <2>. DEFINE m == q + 1
                x == texts[m]
                r == B - L
                w == SubSeq(b, L + 1, B)
    <2>1. q # n
      <3>1. q = n => L = Len(t)
        BY <1>2
      <3>. HIDE DEF L
      <3>2. Len(t) \in Nat
        BY <1>5
      <3>. QED BY <1>5, <1>8, <1>14, <3>1, <3>2
    <2>2. m \in 1..n /\ m \in 0..n /\ m - 1 = q /\ n \in 1..n /\ m > q
      BY <1>2, <1>12, <2>1
    <2>3. ~(Len(g[m]) <= B)
      <3>1. m \notin S
        BY <1>7, <1>12, <2>2
      <3>. QED BY <2>2, <3>1
    <2>4. PieceOf(g, n, m, Nat, texts)
      <3>. HIDE DEF m
      <3>. QED BY <1>2, <2>2, JoinsPiece
    <2>5. x \in Seq(Nat) /\ Len(g[m]) = L + Len(x) /\ Stands(t, L, x)
      <3>. HIDE DEF m
      <3>. QED BY <1>2, <2>2, <2>4 DEF PieceOf
    <2>6. Writing(x, s[m])
      BY <1>3, <2>2
    <2>. HIDE DEF x, m
    <2>7. Len(x) \in Nat /\ \A j \in 1..Len(x) : t[L + j] = x[j]
      BY <2>5 DEF Stands
    <2>. DEFINE y == Len(x)
    <2>. HIDE DEF L, y
    <2>8. r \in 1..(y - 1) /\ y \in Nat
      BY <1>5, <1>8, <1>14, <2>3, <2>5, <2>7 DEF y
    <2>9. PICK h, l \in Nat : x = <<Percent, h, l>> /\ HexToChar(<<h>>) \in 0..15
      <3>1. ASSUME NEW c, x = <<c>> PROVE FALSE
        <4>1. Len(<<c>>) = 1
          OBVIOUS
        <4>2. y = 1
          BY <3>1, <4>1 DEF y
        <4>. HIDE DEF r
        <4>. QED BY <2>8, <4>2
      <3>. QED BY <2>6, <3>1 DEF Writing
    <2>10. y = 3 /\ x[1] = Percent /\ x[2] = h
      <3>. DEFINE z == <<Percent, h, l>>
      <3>1. Len(z) = 3 /\ z[1] = Percent /\ z[2] = h
        OBVIOUS
      <3>. HIDE DEF z
      <3>2. x = z
        BY <2>9 DEF z
      <3>. QED BY <3>1, <3>2 DEF y
    <2>11. r \in {1, 2} /\ L + r = B
      BY <1>5, <1>8, <2>8, <2>10
    <2>12. w \in Seq(Nat) /\ Len(w) = r /\ \A j \in 1..r : w[j] = b[L + j]
      <3>. DEFINE i == L + 1
                  v == SubSeq(b, i, B)
      <3>1. i \in 1..(Len(b) + 1) /\ B \in (i - 1)..Len(b) /\ B - i + 1 = r
        <4>1. i \in 1..(B + 1) /\ B \in (i - 1)..B /\ B - i + 1 = r
          <5>. HIDE DEF r
          <5>. QED BY <1>5, <1>8, <2>11
        <4>. QED BY <4>1 DEF B
      <3>2. \A j \in 1..r : i + j - 1 = L + j
        <4>. HIDE DEF r
        <4>. QED BY <1>8, <2>11
      <3>. HIDE DEF i, r
      <3>3. v \in Seq(Nat) /\ Len(v) = r /\ \A j \in 1..r : v[j] = b[i + j - 1]
        BY <3>1, Part, SMTT(30)
      <3>. HIDE DEF v
      <3>4. v \in Seq(Nat) /\ Len(v) = r /\ \A j \in 1..r : v[j] = b[L + j]
        BY <3>2, <3>3
      <3>. QED BY <3>4 DEF v, i
    <2>. HIDE DEF w, r
    <2>13. \A j \in 1..r : b[L + j] = x[j]
      <3>1. ASSUME NEW j \in 1..r PROVE b[L + j] = x[j]
        <4>. DEFINE i == L + j
        <4>1. i \in 1..B /\ j \in 1..y
          BY <1>8, <2>10, <2>11
        <4>2. b[i] = t[i]
          <5>. HIDE DEF i
          <5>. QED BY <4>1 DEF B
        <4>3. t[i] = x[j]
          BY <2>7, <4>1 DEF y
        <4>. QED BY <4>2, <4>3
      <3>. QED BY <3>1
    <2>14. w[1] = Percent /\ (r = 2 => w[2] = h)
      BY <2>10, <2>11, <2>12, <2>13
    <2>. DEFINE c == IF r = 1 THEN HexToChar(<<>>) ELSE HexToChar(<<h>>)
    <2>15. EncodesCut(w, c) /\ c \in 0..15
      <3>0. HexToChar(<<>>) = 0
        BY DEF HexToChar
      <3>1. CASE r = 1
        <4>1. w = <<Percent>>
          <5>. DEFINE z == <<Percent>>
          <5>1. z \in Seq(Nat) /\ Len(z) = 1 /\ z[1] = Percent
            BY DEF Percent
          <5>. HIDE DEF z
          <5>2. w = z
            BY <2>12, <2>14, <3>1, <5>1, SeqEqual
          <5>. QED BY <5>2 DEF z
        <4>. QED BY <3>0, <3>1, <4>1 DEF EncodesCut
      <3>2. CASE r = 2
        <4>1. w = <<Percent, h>>
          <5>. DEFINE z == <<Percent, h>>
          <5>1. z \in Seq(Nat) /\ Len(z) = 2 /\ z[1] = Percent /\ z[2] = h
            BY DEF Percent
          <5>. HIDE DEF z
          <5>2. \A j \in 1..2 : w[j] = z[j]
            BY <2>14, <3>2, <5>1
          <5>3. w = z
            BY <2>12, <3>2, <5>1, <5>2, SeqEqual
          <5>. QED BY <5>3 DEF z
        <4>2. c = HexToChar(<<h>>)
          BY <3>2
        <4>. QED BY <2>9, <4>1, <4>2 DEF EncodesCut
      <3>. QED BY <2>11, <3>1, <3>2
    <2>. HIDE DEF c
    <2>16. b = g[q] \o w
      <3>. DEFINE o == g[q]
                  z == o \o w
      <3>a. o \in Seq(Nat) /\ w \in Seq(Nat)
        BY <1>8, <2>12
      <3>b. Len(o) = L /\ Len(w) = r
        BY <2>12 DEF L
      <3>. HIDE DEF o
      <3>c. z \in Seq(Nat) /\ Len(z) = Len(o) + Len(w) /\ \A j \in 1..Len(o) : z[j] = o[j]
        BY <3>a, Concatenation
      <3>d. \A j \in 1..Len(w) : z[Len(o) + j] = w[j]
        BY <3>a, Concatenation
      <3>. HIDE DEF z
      <3>1. z \in Seq(Nat) /\ Len(z) = L + r /\ \A j \in 1..L : z[j] = g[q][j]
        BY <3>b, <3>c DEF o
      <3>2. \A j \in 1..r : z[L + j] = w[j]
        BY <3>b, <3>d
      <3>. HIDE DEF z
      <3>3. ASSUME NEW i \in 1..B PROVE b[i] = z[i]
        <4>1. CASE i <= L
          <5>1. i \in 1..L
            BY <1>8, <4>1
          <5>. QED BY <1>11, <3>1, <5>1
        <4>2. CASE ~(i <= L)
          <5>. DEFINE j == i - L
          <5>1. j \in 1..r /\ L + j = i
            BY <1>5, <1>8, <2>11, <4>2
          <5>. HIDE DEF j
          <5>. QED BY <2>12, <3>2, <5>1
        <4>. QED BY <4>1, <4>2
      <3>4. Len(z) = Len(b) /\ Len(b) = B
        BY <2>11, <3>1 DEF B
      <3>5. b = z
        BY <3>1, <3>3, <3>4, SeqEqual
      <3>. QED BY <3>5 DEF z, o
    <2>. DEFINE G == [k \in 0..m |-> IF k <= q THEN g[k] ELSE b]
                X == [k \in 1..m |-> IF k <= q THEN texts[k] ELSE w]
                u == [k \in 1..m |-> IF k <= q THEN s[k] ELSE c]
    <2>17. m \in Nat /\ ~(m <= q) /\ m \in 0..m /\ m \in 1..m /\ \A k \in 0..m : k <= q \/ k = m
      BY <1>12, <2>2
    <2>18. u \in Seq(Nat) /\ Len(u) = m /\ u[m] = c /\ \A k \in 1..q : u[k] = s[k]
      <3>1. \A k \in 1..m : u[k] \in Nat
        <4>1. \A k \in 1..q : s[k] \in Nat
          BY <1>2, <1>12 DEF n
        <4>2. c \in Nat
          BY <2>15
        <4>3. \A k \in 1..m : k <= q => k \in 1..q
          BY <1>12, <2>17
        <4>. QED BY <4>1, <4>2, <4>3
      <3>2. u \in Seq(Nat) /\ Len(u) = m
        <4>. DEFINE U == u
        <4>1. U = [k \in 1..m |-> U[k]]
          OBVIOUS
        <4>. HIDE DEF U
        <4>2. \A k \in 1..m : U[k] \in Nat
          BY <3>1 DEF U
        <4>3. U \in Seq(Nat)
          <5>1. m \in Nat
            BY <2>17
          <5>. QED BY <4>1, <4>2, <5>1, SeqDef, SMTT(30)
        <4>4. DOMAIN U = 1..m
          BY <4>1
        <4>5. Len(U) = m
          BY <2>17, <4>3, <4>4
        <4>. QED BY <4>3, <4>5 DEF U
      <3>3. u[m] = c
        BY <2>17
      <3>4. \A k \in 1..q : u[k] = s[k]
        BY <1>12, <2>2, <2>17
      <3>. QED BY <3>2, <3>3, <3>4
    <2>19. \A k \in 0..q : G[k] = g[k] /\ k \in 0..m
      BY <1>12, <2>2, <2>17
    <2>20. \A k \in 1..q : X[k] = texts[k]
      BY <1>12, <2>2, <2>17
    <2>21. G[m] = b /\ X[m] = w /\ G = [k \in 0..m |-> G[k]]
      BY <2>17
    <2>. HIDE DEF G, X, u
    <2>22. ASSUME NEW k \in 1..m PROVE X[k] \in Seq(Nat) /\ G[k] = G[k - 1] \o X[k]
      <3>1. CASE k <= q
        <4>1. k \in 1..n /\ k \in 1..q /\ k \in 0..q /\ k - 1 \in 0..q
          BY <1>12, <3>1
        <4>2. texts[k] \in Seq(Nat) /\ g[k] = g[k - 1] \o texts[k]
          BY <1>2, <4>1 DEF Joins
        <4>. QED BY <2>19, <2>20, <4>1, <4>2
      <3>2. CASE k = m
        <4>1. k - 1 = q /\ q \in 0..q
          BY <1>12, <2>2, <3>2
        <4>. QED BY <2>12, <2>16, <2>19, <2>21, <3>2, <4>1
      <3>3. k <= q \/ k = m
        BY <2>17
      <3>. QED BY <3>1, <3>2, <3>3
    <2>23. Joins(G, m, Nat, X)
      <3>1. ASSUME NEW k \in 0..m PROVE G[k] \in Seq(Nat)
        <4>1. CASE k <= q
          <5>1. k \in 0..q /\ k \in 0..n
            BY <1>12, <4>1
          <5>. QED BY <1>4, <2>19, <5>1
        <4>2. CASE k = m
          BY <2>21, <4>2
        <4>. QED BY <2>17, <4>1, <4>2
      <3>2. G[0] = <<>>
        BY <1>4, <1>12, <2>19
      <3>3. G \in [0..m -> Seq(Nat)]
        BY <2>21, <3>1
      <3>. QED BY <2>22, <3>2, <3>3 DEF Joins
    <2>24. \A k \in 1..m : Encodes(X[k], u[k]) \/ (k = m /\ EncodesCut(X[k], u[k]))
      <3>1. ASSUME NEW k \in 1..m, k <= q PROVE Encodes(X[k], u[k])
        <4>1. k \in 1..q /\ k \in 1..n
          BY <1>12, <3>1
        <4>2. Writing(texts[k], s[k]) /\ X[k] = texts[k] /\ u[k] = s[k]
          BY <1>3, <2>18, <2>20, <4>1
        <4>. QED BY <4>2, WritingEncodes
      <3>2. EncodesCut(X[m], u[m])
        BY <2>15, <2>18, <2>21
      <3>. QED BY <2>17, <3>1, <3>2
    <2>25. UriDecode(b) = u
      <3>1. Len(u) = m /\ u \in Seq(Nat)
        BY <2>18
      <3>2. UriDecode(G[Len(u)]) = u
        BY <2>23, <2>24, <3>1, DecodesTexts
      <3>. QED BY <2>21, <3>1, <3>2
    <2>26. Shows(u, s, q)
      <3>1. m = q + 1
        BY DEF m
      <3>. QED BY <1>2, <1>12, <2>15, <2>17, <2>18, <3>1 DEF Shows, n
    <2>. QED BY <2>25, <2>26
  <1>. QED BY <1>13, <1>14

\* A form, read as a whole or in part, decodes to the beginning of what was typed.
LEMMA FormDecoded ==
  ASSUME NEW r \in Requests, r.form # <<>>, NEW d, Begins(d, Text(r))
  PROVE  LET t == TypedForm(r.form[1], r.form[2])
         IN /\ r.form[1] \in Seq(Nat) /\ r.form[2] \in Seq(Nat)
            /\ FormShape(t, r.form[1], r.form[2], Len(r.form[1]))
            /\ \E q : Shows(UriDecode(get_body(d)), t, q)
            /\ d = Text(r) => UriDecode(get_body(d)) = t
  <1>. DEFINE x == r.form[1]
              y == r.form[2]
              t == TypedForm(x, y)
              b == get_body(d)
  <1>1. x \in Seq(Byte) /\ y \in Seq(Byte) /\ r.body = Form(x, y)
    BY RequestAssumption
  <1>. HIDE DEF x, y
  <1>2. x \in Seq(Nat) /\ y \in Seq(Nat)
    BY <1>1, ByteSeq
  <1>3. FormShape(t, x, y, Len(x))
    BY <1>2, TypedShape
  <1>4. Written(r.body, t)
    BY <1>1, FormWritten
  <1>5. UriDecode(r.body) = t /\ OneLine(r.body)
    BY <1>4, WrittenDecodes
  <1>6. /\ b \in Seq(Nat) /\ Len(b) <= Len(r.body)
        /\ \A k \in 1..Len(b) : b[k] = r.body[k]
        /\ d = Text(r) /\ OneLine(r.body) => b = r.body
    BY BodyIs
  <1>. HIDE DEF b, t
  <1>7. \E q : Shows(UriDecode(b), t, q)
    BY <1>4, <1>6, WrittenCut
  <1>. QED BY <1>2, <1>3, <1>5, <1>6, <1>7 DEF b, t, x, y

\* What create_meme stores, and when it refuses.
CaptionInv ==
    /\ pc = "read" => params = <<>>
    /\ params # <<>> => body_check(get_body(data_)) /\ params = Params(get_body(data_))
    /\ pc \in {"handled", "written"} /\ Routed("meme") /\ made.status_code_ = 400 =>
         ~body_check(get_body(data_))

LEMMA CaptionsSame ==
  ASSUME CaptionInv, pc # "read", UNCHANGED <<data_, params>>, pc' # "read",
         \/ made'.status_code_ # 400
         \/ ~Routed("meme")
         \/ ~body_check(get_body(data_))
         \/ pc' \notin {"handled", "written"}
         \/ pc \in {"handled", "written"} /\ made' = made
  PROVE  CaptionInv'
  BY DEF CaptionInv, Routed

LEMMA StatusIs ==
  \A code, body, type : WithType(code, body, type).status_code_ = code
                        /\ \A b : set_body(WithType(code, body, type), b).status_code_ = code
  BY DEF WithType, set_header, set_body, response

LEMMA CaptionStep == DataInv /\ ResponseInv /\ CaptionInv /\ [Next]_vars => CaptionInv'
  <1>. SUFFICES ASSUME DataInv, ResponseInv, CaptionInv, [Next]_vars PROVE CaptionInv'
    OBVIOUS
  <1>1. ASSUME NEW n \in 1..Len(Text(sent)), handle_success(n) PROVE CaptionInv'
    BY <1>1 DEF CaptionInv, handle_success
  <1>2. CASE handle_error
    <2>1. made'.status_code_ = 500 /\ params = <<>> /\ params' = params /\ pc' = "written"
      BY <1>2, StatusIs DEF handle_error, Write, CaptionInv
    <2>. QED BY <2>1 DEF CaptionInv
  <1>3. CASE handle_invalid_request
    <2>1. ~Routed("meme")
      BY <1>3 DEF handle_invalid_request, Routed
    <2>. QED BY <1>3, <2>1, CaptionsSame DEF handle_invalid_request, Write
  <1>4. CASE sleep_for
    BY <1>4, CaptionsSame DEF sleep_for
  <1>5. CASE generate_echo_response
    <2>1. ~Routed("meme")
      BY <1>5 DEF generate_echo_response, Routed, ResponseInv
    <2>. QED BY <1>5, <2>1, CaptionsSame DEF generate_echo_response, Route
  <1>6. CASE health_handle_request
    <2>1. ~Routed("meme")
      BY <1>6 DEF health_handle_request, Routed
    <2>. QED BY <1>6, <2>1, CaptionsSame DEF health_handle_request, Route
  <1>7. CASE generate_404_response
    <2>1. ~Routed("meme")
      BY <1>7 DEF generate_404_response, Routed
    <2>. QED BY <1>7, <2>1, CaptionsSame DEF generate_404_response, Route
  <1>8. CASE status_handle_request
    <2>1. ~Routed("meme")
      BY <1>8 DEF status_handle_request, Routed
    <2>. QED BY <1>8, <2>1, CaptionsSame DEF status_handle_request, Route
  <1>9. CASE create_meme
    <2>. DEFINE body == get_body(data_)
    <2>0. pc = "parsed" /\ data_' = data_
      BY <1>9 DEF create_meme
    <2>1. CASE ~body_check(body) /\ Route(WithType(400, Say(7), Plain)) /\ UNCHANGED params
      BY <2>0, <2>1, CaptionsSame DEF Route
    <2>2. CASE body_check(body) /\ Route(WithType(201, Say(8), Json)) /\ params' = Params(body)
      <3>1. made'.status_code_ = 201 /\ pc' = "handled" /\ get_body(data_') = body
        BY <2>0, <2>2, StatusIs DEF Route
      <3>2. body_check(get_body(data_')) /\ params' = Params(get_body(data_'))
        BY <2>2, <3>1
      <3>. HIDE DEF body
      <3>. QED BY <3>1, <3>2 DEF CaptionInv
    <2>3. CASE Route(WithType(500, Say(9), Plain)) /\ UNCHANGED params
      <3>1. made'.status_code_ = 500
        BY <2>3, StatusIs DEF Route
      <3>. QED BY <2>0, <2>3, <3>1, CaptionsSame DEF Route
    <2>. QED BY <1>9, <2>1, <2>2, <2>3 DEF create_meme
  <1>10. CASE catch
    <2>1. made'.status_code_ = 500
      BY <1>10, StatusIs DEF catch, Write
    <2>. QED BY <1>10, <2>1, CaptionsSame DEF catch, Write
  <1>11. CASE apply_default_headers
    BY <1>11, CaptionsSame DEF apply_default_headers
  <1>12. CASE Done \/ UNCHANGED vars
    BY <1>12 DEF CaptionInv, Routed, Done, vars
  <1>. QED BY <1>1, <1>2, <1>3, <1>4, <1>5, <1>6, <1>7, <1>8, <1>9, <1>10, <1>11, <1>12 DEF Next

LEMMA StatusKept ==
  ASSUME DataInv, ResponseInv, pc = "written"
  PROVE  resp.status_code_ = made.status_code_
  <1>1. resp = IF Handled(data_, made) THEN Overridden(made, headers_) ELSE made
    BY DEF ResponseInv
  <1>2. IsResponse(made)
    BY MadeResponse DEF ResponseInv
  <1>3. IsHeaders(headers_)
    BY HeaderAssumption DEF DataInv, IsHeaders
  <1>. QED BY <1>1, <1>2, <1>3, OverriddenIs

\* Whatever the captions, if their characters are legal, and wherever the read
\* ends, create_meme (meme_handler.cc) stores the top caption that was typed with
\* a beginning of the bottom one; a form that was read as a whole is stored with
\* all of it, and is not refused unless a caption is empty.
THEOREM CaptionsKeptCorrect == Spec => []CaptionsKept
  <1>1. Init => CaptionInv
    BY DEF Init, CaptionInv
  <1>2. Spec => [](DataInv /\ ResponseInv /\ CaptionInv)
    BY <1>1, CaptionStep, ResponseInvariant, PTL DEF Spec
  <1>3. DataInv /\ ResponseInv /\ CaptionInv => CaptionsKept
    <2>. DEFINE x == sent.form[1]
                y == sent.form[2]
                t == TypedForm(x, y)
                b == get_body(data_)
    <2>. SUFFICES ASSUME DataInv, ResponseInv, CaptionInv, sent.form # <<>>, Legal(x), Legal(y)
                  PROVE  /\ params # <<>> => /\ params[2] = x /\ IsPrefix(params[3], y)
                                             /\ data_ = Text(sent) => params[3] = y
                         /\ (pc = "written" /\ data_ = Text(sent) /\ Routed("meme") /\ <<>> \notin Range(sent.form)) =>
                               resp.status_code_ # 400
      BY DEF CaptionsKept
    <2>1. sent \in Requests /\ Begins(data_, Text(sent))
      BY DataIs DEF DataInv, Begins
    <2>2. /\ x \in Seq(Nat) /\ y \in Seq(Nat) /\ FormShape(t, x, y, Len(x))
          /\ \E q : Shows(UriDecode(b), t, q)
          /\ data_ = Text(sent) => UriDecode(b) = t
      BY <2>1, FormDecoded
    <2>3. Shows(t, t, Len(t))
      <3>1. t \in Seq(Nat) /\ Len(t) \in Nat
        BY <2>2 DEF FormShape
      <3>. HIDE DEF t
      <3>. QED BY <3>1 DEF Shows
    <2>4. (x # <<>> /\ y # <<>>) \/ <<>> \in Range(sent.form)
      <3>1. sent.form \in Seq(Byte) \X Seq(Byte)
        BY <2>1, RequestAssumption
      <3>2. 1 \in DOMAIN sent.form /\ 2 \in DOMAIN sent.form
        BY <3>1
      <3>. QED BY <3>2 DEF Range
    <2>. HIDE DEF x, y, t, b
    <2>5. ASSUME params # <<>>
          PROVE  params[2] = x /\ IsPrefix(params[3], y) /\ (data_ = Text(sent) => params[3] = y)
      <3>1. body_check(b) /\ params = Params(b)
        BY <2>5 DEF CaptionInv, b
      <3>2. PICK q : Shows(UriDecode(b), t, q)
        BY <2>2
      <3>3. params[2] = x /\ IsPrefix(params[3], y)
        BY <2>2, <3>1, <3>2, CaptionsTaken
      <3>4. ASSUME data_ = Text(sent) PROVE params[3] = y
        <4>1. Shows(UriDecode(b), t, Len(t))
          BY <2>2, <2>3, <3>4
        <4>. QED BY <2>2, <3>1, <4>1, CaptionsTaken
      <3>. QED BY <3>3, <3>4
    <2>6. ASSUME pc = "written", data_ = Text(sent), Routed("meme"), <<>> \notin Range(sent.form)
          PROVE  resp.status_code_ # 400
      <3>1. UriDecode(b) = t /\ x # <<>> /\ y # <<>>
        BY <2>2, <2>4, <2>6
      <3>2. body_check(b)
        BY <2>2, <3>1, WholeFormPasses
      <3>3. made.status_code_ # 400
        BY <2>6, <3>2 DEF CaptionInv, b
      <3>. QED BY <2>6, <3>3, StatusKept
    <2>. QED BY <2>5, <2>6 DEF x, y
  <1>. QED BY <1>2, <1>3, PTL
=============================================================================
