------------------------------- MODULE Lemmas -------------------------------
(* Facts that several proofs need: sets of numbers have least elements,      *)
(* loops over sequences keep what each iteration keeps, and there is one     *)
(* longest matching location, for all strings over a set of characters.      *)
EXTENDS Routes, SequencesExt, SequenceTheorems, WellFoundedInduction, TLAPS

\* A set of numbers that has an element has a least one.
LEMMA LeastExists ==
  ASSUME NEW S \in SUBSET Nat, S # {}
  PROVE  \E n \in S : \A k \in S : ~(k < n)
  <1>. DEFINE R == OpToRel(<, Nat)
  <1>1. IsWellFoundedOn(R, Nat)
    BY NatLessThanWellFounded
  <1>2. PICK n \in S : \A k \in S : ~(<<k, n>> \in R)
    <2>. HIDE DEF R
    <2>. QED BY <1>1, WFMin
  <1>3. \A k \in S : ~(k < n)
    BY <1>2 DEF OpToRel
  <1>. QED BY <1>3

-----------------------------------------------------------------------------
(* Loops.  The recursive functions that model them are fixed points, whose   *)
(* existence and range follow by taking the first iteration that fails.      *)

\* What a loop over s computes: f[i] is its state after i iterations, and F is
\* its body.
Loop(f, n, a, F, s) == f = [i \in 0..n |-> IF i = 0 THEN a ELSE F[<<f[i - 1], s[i]>>]]

\* The loop can be run...
LEMMA LoopExists ==
  ASSUME NEW A, NEW E, NEW F \in [A \X E -> A], NEW a \in A, NEW n \in Nat, NEW s \in [1..n -> E]
  PROVE  \E f : Loop(f, n, a, F, s)
  <1>. DEFINE Bad == {m \in 0..n : ~\E f \in [0..m -> A] : Loop(f, m, a, F, s)}
  <1>1. ASSUME Bad # {} PROVE FALSE
    <2>1. PICK m \in Bad : \A k \in Bad : ~(k < m)
      <3>1. Bad \in SUBSET Nat
        OBVIOUS
      <3>. HIDE DEF Bad
      <3>. QED BY <1>1, <3>1, LeastExists
    <2>2. m \in 0..n /\ ~\E f \in [0..m -> A] : Loop(f, m, a, F, s)
      BY <2>1
    <2>3. CASE m = 0
      <3>. DEFINE f == [i \in 0..0 |-> a]
      <3>1. f \in [0..0 -> A] /\ Loop(f, 0, a, F, s)
        BY DEF Loop
      <3>. QED BY <2>2, <2>3, <3>1
    <2>4. CASE m # 0
      <3>1. m - 1 \in 0..n /\ m - 1 < m /\ m - 1 \notin Bad
        <4>1. m - 1 \in 0..n /\ m - 1 < m
          BY <2>2, <2>4
        <4>. HIDE DEF Bad
        <4>. QED BY <2>1, <4>1
      <3>2. PICK f \in [0..(m - 1) -> A] : Loop(f, m - 1, a, F, s)
        BY <3>1
      <3>3. m \in 1..n /\ m - 1 \in 0..(m - 1)
        BY <2>2, <2>4
      <3>. DEFINE b == F[<<f[m - 1], s[m]>>]
                  g == [i \in 0..m |-> IF i = m THEN b ELSE f[i]]
      <3>4. b \in A
        BY <3>3
      <3>5. g \in [0..m -> A]
        <4>. HIDE DEF b
        <4>. QED BY <2>2, <3>4
      <3>6. ASSUME NEW i \in 0..m
            PROVE  g[i] = IF i = 0 THEN a ELSE F[<<g[i - 1], s[i]>>]
        <4>1. CASE i = m
          <5>1. g[i] = b /\ g[i - 1] = f[m - 1]
            BY <2>2, <2>4, <4>1
          <5>. QED BY <2>4, <4>1, <5>1
        <4>2. CASE i # m
          <5>1. i \in 0..(m - 1) /\ g[i] = f[i] /\ (i # 0 => g[i - 1] = f[i - 1])
            BY <2>2, <4>2
          <5>2. f[i] = IF i = 0 THEN a ELSE F[<<f[i - 1], s[i]>>]
            BY <3>2, <5>1 DEF Loop
          <5>. QED BY <5>1, <5>2
        <4>. QED BY <4>1, <4>2
      <3>7. Loop(g, m, a, F, s)
        BY <3>6 DEF Loop
      <3>. QED BY <2>2, <3>5, <3>7
    <2>. QED BY <2>3, <2>4
  <1>2. n \in 0..n /\ n \notin Bad
    BY <1>1
  <1>. QED BY <1>2

\* Induction up to n, for a property given as a set of numbers.
LEMMA FiniteInduction ==
  ASSUME NEW n \in Nat, NEW T, 0 \in T, \A i \in 1..n : i - 1 \in T => i \in T
  PROVE  \A i \in 0..n : i \in T
  <1>. DEFINE Bad == {i \in 0..n : i \notin T}
  <1>1. ASSUME Bad # {} PROVE FALSE
    <2>1. PICK m \in Bad : \A k \in Bad : ~(k < m)
      <3>1. Bad \in SUBSET Nat
        OBVIOUS
      <3>. HIDE DEF Bad
      <3>. QED BY <1>1, <3>1, LeastExists
    <2>2. m \in 0..n /\ m \notin T /\ m # 0
      BY <2>1
    <2>3. m \in 1..n /\ m - 1 \in 0..n /\ m - 1 < m
      BY <2>2
    <2>4. m - 1 \in T
      BY <2>1, <2>3
    <2>. QED BY <2>2, <2>3, <2>4
  <1>. QED BY <1>1

\* ...and stays where every iteration stays.
LEMMA LoopStays ==
  ASSUME NEW n \in Nat, NEW f, NEW A, f[0] \in A, \A i \in 1..n : f[i - 1] \in A => f[i] \in A
  PROVE  \A i \in 0..n : f[i] \in A
  <1>. DEFINE T == {i \in 0..n : f[i] \in A}
  <1>1. 0 \in T
    OBVIOUS
  <1>2. ASSUME NEW i \in 1..n, i - 1 \in T PROVE i \in T
    BY <1>2
  <1>3. \A i \in 0..n : i \in T
    <2>. HIDE DEF T
    <2>. QED BY <1>1, <1>2, FiniteInduction
  <1>. QED BY <1>3

\* A chain that is followed upwards from i: each place adds a piece and names
\* the next place, or 0.
ChainFrom(f, m, n, piece, next) ==
    f = [i \in m..n |-> IF next[i] = 0 THEN piece[i] ELSE piece[i] \o f[next[i]]]
Chain(f, n, piece, next) == ChainFrom(f, 1, n, piece, next)

\* Every chain ends.
LEMMA ChainExists ==
  ASSUME NEW n \in Nat, NEW piece, NEW next \in [1..n -> 0..n],
         \A i \in 1..n : next[i] = 0 \/ next[i] > i
  PROVE  \E f : Chain(f, n, piece, next)
  <1>. DEFINE T == {m \in 0..n : \E f : ChainFrom(f, n - m + 1, n, piece, next)}
  <1>1. 0 \in T
    <2>. DEFINE f == [i \in (n + 1)..n |-> 0]
    <2>1. n - 0 + 1 = n + 1 /\ (n + 1)..n = {}
      OBVIOUS
    <2>2. ChainFrom(f, n + 1, n, piece, next)
      BY <2>1 DEF ChainFrom
    <2>. HIDE DEF f
    <2>. QED BY <2>1, <2>2
  <1>2. ASSUME NEW m \in 1..n, m - 1 \in T PROVE m \in T
    <2>1. PICK f : ChainFrom(f, n - (m - 1) + 1, n, piece, next)
      BY <1>2
    <2>. DEFINE k == n - m + 1
                Value(h, i) == IF next[i] = 0 THEN piece[i] ELSE piece[i] \o h[next[i]]
                v == Value(f, k)
                g == [i \in k..n |-> IF i = k THEN v ELSE f[i]]
    <2>2. k \in 1..n /\ n - (m - 1) + 1 = k + 1
      OBVIOUS
    <2>3. ASSUME NEW i \in k..n PROVE g[i] = Value(g, i)
      <3>1. i \in 1..n /\ (next[i] = 0 \/ (next[i] \in k..n /\ next[i] # k))
        BY <2>2
      <3>2. next[i] = 0 \/ g[next[i]] = f[next[i]]
        <4>. HIDE DEF v, k
        <4>. QED BY <3>1
      <3>3. Value(g, i) = Value(f, i)
        <4>. HIDE DEF g
        <4>. QED BY <3>2
      <3>4. CASE i = k
        BY <3>3, <3>4
      <3>5. CASE i # k
        <4>1. i \in (k + 1)..n
          BY <2>2, <3>5
        <4>2. f[i] = Value(f, i)
          <5>. HIDE DEF k
          <5>. QED BY <2>1, <2>2, <4>1 DEF ChainFrom
        <4>3. g[i] = f[i]
          BY <3>5
        <4>. QED BY <3>3, <4>2, <4>3
      <3>. QED BY <3>4, <3>5
    <2>4. ChainFrom(g, k, n, piece, next)
      <3>. HIDE DEF v, k
      <3>. QED BY <2>3 DEF ChainFrom
    <2>. QED BY <2>4
  <1>3. n \in T
    <2>1. n \in 0..n
      OBVIOUS
    <2>. HIDE DEF T
    <2>. QED BY <1>1, <1>2, <2>1, FiniteInduction
  <1>4. PICK f : ChainFrom(f, n - n + 1, n, piece, next)
    BY <1>3
  <1>5. n - n + 1 = 1
    OBVIOUS
  <1>. QED BY <1>4, <1>5 DEF Chain

LEMMA Concatenation ==
  ASSUME NEW A, NEW x \in Seq(A), NEW y \in Seq(A)
  PROVE  /\ x \o y \in Seq(A) /\ Len(x) \in Nat /\ Len(y) \in Nat
         /\ Len(x \o y) = Len(x) + Len(y)
         /\ \A j \in 1..Len(x) : (x \o y)[j] = x[j]
         /\ \A j \in 1..Len(y) : (x \o y)[Len(x) + j] = y[j]
  OBVIOUS

\* f[i] is the first i of n texts, one after the other.
Joins(f, n, A, texts) ==
    /\ f \in [0..n -> Seq(A)] /\ f[0] = <<>>
    /\ \A i \in 1..n : texts[i] \in Seq(A) /\ f[i] = f[i - 1] \o texts[i]

\* The loop that joins them.
JoinLoop(f, n, texts) == f = [i \in 0..n |-> IF i = 0 THEN <<>> ELSE f[i - 1] \o texts[i]]

LEMMA JoinLoopJoins ==
  ASSUME NEW A, NEW n \in Nat, NEW texts \in [1..n -> Seq(A)], NEW f, JoinLoop(f, n, texts)
  PROVE  Joins(f, n, A, texts)
  <1>1. /\ f[0] = <<>> /\ f = [i \in 0..n |-> f[i]]
        /\ \A i \in 1..n : f[i] = f[i - 1] \o texts[i] /\ texts[i] \in Seq(A)
    <2>. DEFINE Value(i) == IF i = 0 THEN <<>> ELSE f[i - 1] \o texts[i]
    <2>1. f = [i \in 0..n |-> Value(i)]
      BY DEF JoinLoop
    <2>2. \A i \in 1..n : Value(i) = f[i - 1] \o texts[i] /\ i \in 0..n
      OBVIOUS
    <2>3. Value(0) = <<>> /\ 0 \in 0..n
      OBVIOUS
    <2>. HIDE DEF Value
    <2>. QED BY <2>1, <2>2, <2>3
  <1>2. \A i \in 0..n : f[i] \in Seq(A)
    <2>1. f[0] \in Seq(A)
      BY <1>1
    <2>2. ASSUME NEW i \in 1..n, f[i - 1] \in Seq(A) PROVE f[i] \in Seq(A)
      BY <1>1, <2>2, Concatenation
    <2>. QED BY <2>1, <2>2, LoopStays
  <1>3. f \in [0..n -> Seq(A)]
    BY <1>1, <1>2
  <1>. QED BY <1>1, <1>3 DEF Joins

LEMMA JoinLoopExists ==
  ASSUME NEW A, NEW n \in Nat, NEW texts \in [1..n -> Seq(A)]
  PROVE  \E f : JoinLoop(f, n, texts)
  <1>. DEFINE F == [p \in Seq(A) \X Seq(A) |-> p[1] \o p[2]]
  <1>1. F \in [Seq(A) \X Seq(A) -> Seq(A)] /\ <<>> \in Seq(A)
    OBVIOUS
  <1>2. \A x, y \in Seq(A) : F[<<x, y>>] = x \o y
    OBVIOUS
  <1>. HIDE DEF F
  <1>3. PICK f : Loop(f, n, <<>>, F, texts)
    BY <1>1, LoopExists
  <1>4. f[0] = <<>> /\ \A i \in 1..n : f[i] = F[<<f[i - 1], texts[i]>>]
    BY <1>3 DEF Loop
  <1>5. \A i \in 0..n : f[i] \in Seq(A)
    <2>1. ASSUME NEW i \in 1..n, f[i - 1] \in Seq(A) PROVE f[i] \in Seq(A)
      <3>1. texts[i] \in Seq(A) /\ f[i] = F[<<f[i - 1], texts[i]>>]
        BY <1>4
      <3>. QED BY <1>1, <2>1, <3>1
    <2>. QED BY <1>1, <1>4, <2>1, LoopStays
  <1>6. ASSUME NEW i \in 1..n PROVE f[i] = f[i - 1] \o texts[i]
    <2>1. i - 1 \in 0..n /\ texts[i] \in Seq(A)
      OBVIOUS
    <2>. QED BY <1>2, <1>4, <1>5, <2>1
  <1>7. f = [i \in 0..n |-> f[i]]
    BY <1>3 DEF Loop
  <1>8. \A i \in 0..n : i = 0 \/ i \in 1..n
    OBVIOUS
  <1>9. JoinLoop(f, n, texts)
    BY <1>4, <1>6, <1>7, <1>8 DEF JoinLoop
  <1>. QED BY <1>9

\* What is joined first is a prefix of what is joined later.
LEMMA JoinsPrefix ==
  ASSUME NEW A, NEW n \in Nat, NEW f, NEW texts, Joins(f, n, A, texts),
         NEW m \in 0..n, NEW k \in 0..m
  PROVE  /\ f[k] \in Seq(A) /\ f[m] \in Seq(A)
         /\ Matches(f[k], f[m])
  <1>. DEFINE Prefix(i) == Matches(f[k], f[i])
              T == {d \in 0..(m - k) : Prefix(k + d)}
  <1>1. \A i \in 0..n : f[i] \in Seq(A) /\ Len(f[i]) \in Nat
    BY DEF Joins
  <1>2. 0 \in T
    <2>1. k \in 0..n /\ k + 0 = k
      OBVIOUS
    <2>. QED BY <1>1, <2>1 DEF Matches
  <1>3. ASSUME NEW d \in 1..(m - k), d - 1 \in T PROVE d \in T
    <2>. DEFINE i == k + d
    <2>1. i \in 1..n /\ i - 1 \in 0..n /\ k + (d - 1) = i - 1
      OBVIOUS
    <2>2. Prefix(i - 1)
      BY <1>3, <2>1
    <2>3. f[i - 1] \in Seq(A) /\ texts[i] \in Seq(A) /\ f[i] = f[i - 1] \o texts[i]
      <3>. HIDE DEF i
      <3>. QED BY <1>1, <2>1 DEF Joins
    <2>4. Len(f[i]) = Len(f[i - 1]) + Len(texts[i]) /\ Len(texts[i]) \in Nat /\ Len(f[i - 1]) \in Nat
          /\ \A j \in 1..Len(f[i - 1]) : f[i][j] = f[i - 1][j]
      <3>. DEFINE x == f[i - 1]
                  y == texts[i]
      <3>. HIDE DEF i, x, y
      <3>1. x \in Seq(A) /\ y \in Seq(A) /\ f[i] = x \o y
        BY <2>3 DEF x, y
      <3>2. /\ Len(x \o y) = Len(x) + Len(y) /\ Len(y) \in Nat /\ Len(x) \in Nat
            /\ \A j \in 1..Len(x) : (x \o y)[j] = x[j]
        BY <3>1, Concatenation
      <3>. QED BY <3>1, <3>2 DEF x, y
    <2>5. Prefix(i)
      <3>. DEFINE a == Len(f[k])
                  b == Len(f[i - 1])
                  c == Len(f[i])
                  d2 == Len(texts[i])
      <3>1. a \in Nat /\ b \in Nat /\ d2 \in Nat /\ c = b + d2 /\ a <= b
            /\ (\A j \in 1..a : f[i - 1][j] = f[k][j]) /\ \A j \in 1..b : f[i][j] = f[i - 1][j]
        BY <1>1, <2>2, <2>4 DEF Matches
      <3>. HIDE DEF i, a, b, c, d2
      <3>2. a <= c /\ \A j \in 1..a : j \in 1..b
        BY <3>1
      <3>3. \A j \in 1..a : f[i][j] = f[k][j]
        BY <3>1, <3>2
      <3>. QED BY <3>2, <3>3 DEF a, c, Matches
    <2>. QED BY <2>5
  <1>4. m - k \in T
    <2>1. m - k \in Nat /\ m - k \in 0..(m - k)
      OBVIOUS
    <2>. HIDE DEF T
    <2>. QED BY <1>2, <1>3, <2>1, FiniteInduction
  <1>5. k + (m - k) = m /\ k \in 0..n
    OBVIOUS
  <1>. QED BY <1>1, <1>4, <1>5

\* A piece stands in a text behind its first p characters.
Stands(text, p, piece) ==
    /\ p \in Nat /\ Len(piece) \in Nat /\ Len(text) \in Nat /\ p + Len(piece) <= Len(text)
    /\ \A j \in 1..Len(piece) : text[p + j] = piece[j]

\* The k-th text stands behind the ones before it.
PieceOf(f, m, k, A, texts) ==
    /\ texts[k] \in Seq(A) /\ f[k - 1] \in Seq(A) /\ f[k] \in Seq(A) /\ f[m] \in Seq(A)
    /\ Len(f[k]) = Len(f[k - 1]) + Len(texts[k]) /\ Len(f[k]) <= Len(f[m])
    /\ Stands(f[m], Len(f[k - 1]), texts[k])

LEMMA JoinsPiece ==
  ASSUME NEW A, NEW n \in Nat, NEW f, NEW texts, Joins(f, n, A, texts),
         NEW m \in 1..n, NEW k \in 1..m
  PROVE  PieceOf(f, m, k, A, texts)
  <1>1. k \in 1..n /\ k - 1 \in 0..n /\ m \in 0..n /\ k \in 0..m
    OBVIOUS
  <1>2. texts[k] \in Seq(A) /\ f[k] = f[k - 1] \o texts[k] /\ f[k - 1] \in Seq(A)
    BY <1>1 DEF Joins
  <1>. DEFINE x == f[k - 1]
              y == texts[k]
  <1>. HIDE DEF x, y
  <1>3. /\ f[m] \in Seq(A) /\ Len(f[k]) <= Len(f[m])
        /\ \A j \in 1..Len(f[k]) : f[m][j] = f[k][j]
    <2>1. f[m] \in Seq(A) /\ Matches(f[k], f[m])
      BY <1>1, JoinsPrefix
    <2>. QED BY <2>1 DEF Matches
  <1>4. x \in Seq(A) /\ y \in Seq(A) /\ f[k] = x \o y
    BY <1>2 DEF x, y
  <1>5. /\ Len(x \o y) = Len(x) + Len(y) /\ Len(y) \in Nat /\ Len(x) \in Nat
        /\ \A j \in 1..Len(y) : (x \o y)[Len(x) + j] = y[j]
    BY <1>4, Concatenation
  <1>6. ASSUME NEW j \in 1..Len(y) PROVE f[m][Len(x) + j] = y[j]
    <2>1. Len(x) + j \in 1..Len(f[k])
      BY <1>4, <1>5
    <2>. QED BY <1>3, <1>4, <1>5, <2>1
  <1>7. Len(f[m]) \in Nat /\ Len(x) + Len(y) <= Len(f[m]) /\ f[k] \in Seq(A)
    BY <1>3, <1>4, <1>5, Concatenation
  <1>8. Stands(f[m], Len(x), y)
    BY <1>5, <1>6, <1>7 DEF Stands
  <1>. QED BY <1>3, <1>4, <1>5, <1>7, <1>8 DEF x, y, PieceOf

\* FlattenSeq puts texts in a row.
LEMMA Flattened ==
  ASSUME NEW A, NEW texts \in Seq(Seq(A))
  PROVE  \E f : Joins(f, Len(texts), A, texts) /\ FlattenSeq(texts) = f[Len(texts)]
  <1>. DEFINE n == Len(texts)
              Flat(g) == g = [i \in 1..n |-> IF i = 1 THEN texts[i] ELSE g[i - 1] \o texts[i]]
  <1>1. n \in Nat /\ texts \in [1..n -> Seq(A)]
    OBVIOUS
  <1>2. n = 0 => FlattenSeq(texts) = <<>>
    BY DEF FlattenSeq
  <1>3. n # 0 => FlattenSeq(texts) = (CHOOSE g : Flat(g))[n]
    BY DEF FlattenSeq
  <1>. HIDE DEF n
  <1>4. PICK f : JoinLoop(f, n, texts)
    BY <1>1, JoinLoopExists
  <1>5. Joins(f, n, A, texts)
    BY <1>1, <1>4, JoinLoopJoins
  <1>6. f[0] = <<>> /\ \A i \in 1..n : f[i] = f[i - 1] \o texts[i] /\ texts[i] \in Seq(A)
    BY <1>5 DEF Joins
  <1>7. CASE n = 0
    BY <1>2, <1>5, <1>6, <1>7 DEF n
  <1>8. CASE n # 0
    <2>. DEFINE h == [i \in 1..n |-> f[i]]
    <2>1. ASSUME NEW i \in 1..n
          PROVE  h[i] = IF i = 1 THEN texts[i] ELSE h[i - 1] \o texts[i]
      <3>1. CASE i = 1
        <4>0. 1 - 1 = 0 /\ 1 \in 1..n
          BY <3>1
        <4>1. f[1] = f[0] \o texts[1] /\ texts[1] \in Seq(A)
          BY <1>6, <4>0
        <4>2. f[1] = texts[1]
          BY <1>6, <4>1, ConcatEmptySeq
        <4>. QED BY <3>1, <4>2
      <3>2. CASE i # 1
        <4>1. i - 1 \in 1..n
          BY <1>1, <3>2
        <4>. QED BY <1>6, <3>2, <4>1
      <3>. QED BY <3>1, <3>2
    <2>2. Flat(h)
      <3>. HIDE DEF h
      <3>1. h = [i \in 1..n |-> h[i]]
        BY DEF h
      <3>. QED BY <2>1, <3>1
    <2>3. PICK g : g = (CHOOSE k : Flat(k)) /\ Flat(g)
      <3>. HIDE DEF h, Flat
      <3>. QED BY <2>2
    <2>4. ASSUME NEW i \in 1..n, i = 1 \/ g[i - 1] = f[i - 1] PROVE g[i] = f[i]
      <3>1. g[i] = IF i = 1 THEN texts[i] ELSE g[i - 1] \o texts[i]
        BY <2>3
      <3>2. h[i] = IF i = 1 THEN texts[i] ELSE f[i - 1] \o texts[i]
        <4>1. i = 1 \/ i - 1 \in 1..n
          BY <1>1
        <4>. QED BY <2>1, <4>1
      <3>. QED BY <2>4, <3>1, <3>2
    <2>. DEFINE T == {i \in 0..n : i = 0 \/ g[i] = f[i]}
    <2>5. \A i \in 0..n : i \in T
      <3>1. 0 \in T
        BY <1>1
      <3>2. ASSUME NEW i \in 1..n, i - 1 \in T PROVE i \in T
        BY <1>1, <2>4, <3>2
      <3>. HIDE DEF T
      <3>. QED BY <1>1, <3>1, <3>2, FiniteInduction
    <2>6. g[n] = f[n]
      BY <1>1, <1>8, <2>5
    <2>. QED BY <1>3, <1>5, <1>8, <2>3, <2>6 DEF n
  <1>. QED BY <1>7, <1>8

-----------------------------------------------------------------------------
(* Parts of texts *)

LEMMA Part ==
  ASSUME NEW A, NEW s \in Seq(A), NEW i \in 1..(Len(s) + 1), NEW j \in (i - 1)..Len(s)
  PROVE  /\ SubSeq(s, i, j) \in Seq(A) /\ Len(SubSeq(s, i, j)) = j - i + 1
         /\ \A k \in 1..(j - i + 1) : SubSeq(s, i, j)[k] = s[i + k - 1]
  OBVIOUS

LEMMA SubSeqCons ==
  ASSUME NEW A, NEW s \in Seq(A), NEW i \in 1..Len(s)
  PROVE  <<s[i]>> \o SubSeq(s, i + 1, Len(s)) = SubSeq(s, i, Len(s))
  <1>. DEFINE n == Len(s)
              t == SubSeq(s, i + 1, n)
              u == SubSeq(s, i, n)
              x == s[i]
  <1>1. n \in Nat /\ i \in 1..n /\ x \in A
    OBVIOUS
  <1>2. t \in Seq(A) /\ Len(t) = n - i /\ \A j \in 1..(n - i) : t[j] = s[i + j]
    BY <1>1
  <1>3. u \in Seq(A) /\ Len(u) = n - i + 1 /\ \A j \in 1..(n - i + 1) : u[j] = s[i + j - 1]
    BY <1>1
  <1>. HIDE DEF n, t, u
  <1>4. <<x>> \in Seq(A) /\ Len(<<x>>) = 1 /\ <<x>>[1] = x
    BY <1>1
  <1>5. /\ <<x>> \o t \in Seq(A) /\ Len(<<x>> \o t) = n - i + 1
        /\ \A j \in 1..(n - i + 1) : (<<x>> \o t)[j] = IF j = 1 THEN x ELSE t[j - 1]
    BY <1>1, <1>2, <1>4
  <1>6. ASSUME NEW j \in 1..(n - i + 1) PROVE (<<x>> \o t)[j] = u[j]
    <2>1. CASE j = 1
      BY <1>1, <1>3, <1>5, <2>1
    <2>2. CASE j # 1
      <3>1. j - 1 \in 1..(n - i) /\ i + (j - 1) = i + j - 1
        BY <1>1, <2>2
      <3>. QED BY <1>2, <1>3, <1>5, <2>2, <3>1
    <2>. QED BY <2>1, <2>2
  <1>. DEFINE v == <<x>> \o t
  <1>. HIDE DEF v
  <1>7. v \in Seq(A) /\ u \in Seq(A) /\ Len(v) = Len(u) /\ \A j \in 1..Len(v) : v[j] = u[j]
    BY <1>3, <1>5, <1>6 DEF v
  <1>8. v = u
    BY <1>7, SeqEqual
  <1>. QED BY <1>8 DEF v, u, t, n, x

\* A chain that adds the first m characters of s one after the other, and then the
\* rest of s, spells s.
Spells(f, at, m, s) ==
    /\ m \in 0..Len(s) /\ f[at[m]] = SubSeq(s, m + 1, Len(s))
    /\ \A k \in 1..m : f[at[k - 1]] = <<s[k]>> \o f[at[k]]

LEMMA ChainSpells ==
  ASSUME NEW A, NEW s \in Seq(A), NEW m, NEW f, NEW at, Spells(f, at, m, s)
  PROVE  f[at[0]] = s
  <1>. DEFINE n == Len(s)
              T == {d \in 0..m : f[at[m - d]] = SubSeq(s, m - d + 1, n)}
  <1>0. /\ m \in 0..n /\ f[at[m]] = SubSeq(s, m + 1, n)
        /\ \A k \in 1..m : f[at[k - 1]] = <<s[k]>> \o f[at[k]]
    BY DEF Spells
  <1>1. n \in Nat /\ m \in 0..n /\ m \in Nat /\ m \in 0..m
    BY <1>0
  <1>2. 0 \in T
    <2>1. m - 0 = m /\ m - 0 + 1 = m + 1 /\ 0 \in 0..m
      BY <1>1
    <2>. QED BY <1>0, <2>1
  <1>3. ASSUME NEW d \in 1..m, d - 1 \in T PROVE d \in T
    <2>. DEFINE k == m - d + 1
    <2>1. k \in 1..m /\ k \in 1..n /\ m - (d - 1) = k /\ d \in 0..m /\ m - d = k - 1
      BY <1>1
    <2>2. f[at[k]] = SubSeq(s, k + 1, n)
      BY <1>3, <2>1
    <2>. HIDE DEF k
    <2>3. <<s[k]>> \o SubSeq(s, k + 1, n) = SubSeq(s, k, n)
      BY <2>1, SubSeqCons
    <2>4. f[at[k - 1]] = SubSeq(s, k, n)
      BY <1>0, <2>1, <2>2, <2>3
    <2>5. m - d + 1 = k
      BY DEF k
    <2>. QED BY <2>1, <2>4, <2>5
  <1>4. m \in T
    <2>. HIDE DEF T
    <2>. QED BY <1>1, <1>2, <1>3, FiniteInduction
  <1>5. m - m = 0 /\ 0 + 1 = 1
    BY <1>1
  <1>6. f[at[0]] = SubSeq(s, 1, n)
    BY <1>4, <1>5
  <1>7. SubSeq(s, 1, n) = s
    OBVIOUS
  <1>. QED BY <1>6, <1>7

LEMMA StandsConcat ==
  ASSUME NEW A, NEW x \in Seq(A), NEW y \in Seq(A)
  PROVE  /\ x \o y \in Seq(A) /\ Len(x \o y) = Len(x) + Len(y)
         /\ Stands(x \o y, 0, x) /\ Stands(x \o y, Len(x), y)
  <1>. DEFINE z == x \o y
              a == Len(x)
              b == Len(y)
  <1>1. /\ z \in Seq(A) /\ a \in Nat /\ b \in Nat /\ Len(z) = a + b
        /\ (\A j \in 1..a : z[j] = x[j]) /\ \A j \in 1..b : z[a + j] = y[j]
    BY Concatenation
  <1>. HIDE DEF z, a, b
  <1>2. 0 + a <= a + b /\ a + b <= a + b /\ a + b \in Nat /\ \A j \in 1..a : 0 + j = j
    BY <1>1
  <1>3. Stands(z, 0, x)
    BY <1>1, <1>2 DEF Stands, a
  <1>4. Stands(z, a, y)
    BY <1>1, <1>2 DEF Stands, b
  <1>. QED BY <1>1, <1>3, <1>4 DEF z, a, b

LEMMA StandsTrans ==
  ASSUME NEW t, NEW u, NEW v, NEW p, NEW q, Stands(t, p, u), Stands(u, q, v)
  PROVE  Stands(t, p + q, v)
  <1>. DEFINE a == Len(t)
              b == Len(u)
              c == Len(v)
  <1>1. /\ p \in Nat /\ q \in Nat /\ a \in Nat /\ b \in Nat /\ c \in Nat
        /\ p + b <= a /\ q + c <= b
        /\ (\A j \in 1..b : t[p + j] = u[j]) /\ \A j \in 1..c : u[q + j] = v[j]
    BY DEF Stands
  <1>. HIDE DEF a, b, c
  <1>2. p + q \in Nat /\ p + q + c <= a
    BY <1>1
  <1>3. ASSUME NEW j \in 1..c PROVE t[p + q + j] = v[j]
    <2>1. q + j \in 1..b /\ p + (q + j) = p + q + j
      BY <1>1
    <2>. QED BY <1>1, <2>1
  <1>. QED BY <1>1, <1>2, <1>3 DEF Stands, a, c

\* What stands at a place is what is cut out there.
LEMMA StandsPart ==
  ASSUME NEW A, NEW t \in Seq(A), NEW u \in Seq(A), NEW p, Stands(t, p, u)
  PROVE  SubSeq(t, p + 1, p + Len(u)) = u
  <1>. DEFINE i == p + 1
              j == p + Len(u)
              v == SubSeq(t, i, j)
              n == Len(u)
  <1>1. p \in Nat /\ n \in Nat /\ Len(t) \in Nat /\ p + n <= Len(t)
        /\ \A k \in 1..n : t[p + k] = u[k]
    BY DEF Stands
  <1>2. i \in 1..(Len(t) + 1) /\ j \in (i - 1)..Len(t) /\ j - i + 1 = n
        /\ \A k \in 1..n : i + k - 1 = p + k
    BY <1>1
  <1>. HIDE DEF i, j
  <1>3. v \in Seq(A) /\ Len(v) = j - i + 1 /\ \A k \in 1..(j - i + 1) : v[k] = t[i + k - 1]
    BY <1>2, Part
  <1>. HIDE DEF v, n
  <1>4. Len(v) = n /\ \A k \in 1..n : v[k] = u[k]
    BY <1>1, <1>2, <1>3
  <1>5. v = u
    BY <1>3, <1>4, SeqEqual DEF n
  <1>. QED BY <1>5 DEF v, i, j

-----------------------------------------------------------------------------
(* Routes *)

LEMMA EmptyMatches ==
  ASSUME NEW Char, NEW u \in Seq(Char)
  PROVE  Matches(<<>>, u)
  BY DEF Matches

\* A URI has only one prefix of a given length.
LEMMA PrefixUnique ==
  ASSUME NEW Char, NEW u \in Seq(Char), NEW a \in Seq(Char), NEW b \in Seq(Char),
         Matches(a, u), Matches(b, u), Len(a) = Len(b)
  PROVE  a = b
  <1>1. \A i \in 1..Len(a) : a[i] = b[i]
    BY DEF Matches
  <1>. QED BY <1>1, SeqEqual

\* longest_prefix_match has a single right answer.
LEMMA LongestUnique ==
  ASSUME NEW Char, NEW u \in Seq(Char), NEW L \in SUBSET Seq(Char), NEW r,
         IsLongest(r, u, L)
  PROVE  r = LongestMatch(u, L)
  <1>. DEFINE q == LongestMatch(u, L)
  <1>0. r \in L \cup {<<>>}
    BY DEF IsLongest
  <1>1. IsLongest(q, u, L)
    <2>1. \E x \in L \cup {<<>>} : IsLongest(x, u, L)
      BY <1>0, Zenon
    <2>. QED BY <2>1, SMT DEF LongestMatch
  <1>. HIDE DEF q
  <1>2. r \in Seq(Char) /\ q \in Seq(Char) /\ Matches(r, u) /\ Matches(q, u)
    <2>1. <<>> \in Seq(Char)
      OBVIOUS
    <2>2. q \in L \cup {<<>>} /\ Matches(r, u) /\ Matches(q, u)
      BY <1>1 DEF IsLongest
    <2>. QED BY <1>0, <2>1, <2>2, Zenon
  <1>3. Len(r) \in Nat /\ Len(q) \in Nat
    BY <1>2
  <1>4. Len(r) <= Len(q)
    <2>1. CASE r \in L
      BY <1>1, <1>2, <2>1 DEF IsLongest
    <2>2. CASE r = <<>>
      BY <1>3, <2>2
    <2>. QED BY <1>0, <2>1, <2>2
  <1>5. Len(q) <= Len(r)
    <2>1. CASE q \in L
      BY <1>2, <2>1 DEF IsLongest
    <2>2. CASE q = <<>>
      BY <1>3, <2>2
    <2>. QED BY <1>1, <2>1, <2>2 DEF IsLongest
  <1>6. r = q
    BY <1>2, <1>3, <1>4, <1>5, PrefixUnique
  <1>. QED BY <1>6 DEF q

\* Among the prefixes of a URI there is a longest one.
LEMMA LongestExists ==
  ASSUME NEW Char, NEW u \in Seq(Char), NEW L \in SUBSET Seq(Char)
  PROVE  \E r \in L \cup {<<>>} : IsLongest(r, u, L)
  <1>. DEFINE T == {n \in Nat : \E l \in L \cup {<<>>} : Matches(l, u) /\ n = Len(u) - Len(l)}
  <1>1. \A l \in L \cup {<<>>} : l \in Seq(Char) /\ Len(l) \in Nat
    <2>1. <<>> \in Seq(Char)
      OBVIOUS
    <2>2. ASSUME NEW l \in L \cup {<<>>} PROVE l \in Seq(Char)
      BY <2>1, Zenon
    <2>. QED BY <2>2
  <1>2. Matches(<<>>, u) /\ Len(u) \in Nat
    BY DEF Matches
  <1>3. Len(u) \in T
    BY <1>2
  <1>5. PICK n \in T : \A k \in T : ~(k < n)
    <2>1. T \subseteq Nat /\ T # {}
      BY <1>3
    <2>. HIDE DEF T
    <2>. QED BY <2>1, LeastExists
  <1>7. PICK r \in L \cup {<<>>} : Matches(r, u) /\ n = Len(u) - Len(r)
    BY <1>5
  <1>8. ASSUME NEW l \in L, Matches(l, u) PROVE Len(l) <= Len(r)
    <2>1. Len(l) \in Nat /\ Len(r) \in Nat /\ Len(l) <= Len(u)
      BY <1>1, <1>8 DEF Matches
    <2>2. Len(u) - Len(l) \in T
      BY <1>2, <1>8, <2>1
    <2>3. ~(Len(u) - Len(l) < n)
      BY <1>5, <2>2
    <2>. HIDE DEF T
    <2>. QED BY <1>2, <1>7, <2>1, <2>3
  <1>. QED BY <1>7, <1>8 DEF IsLongest
=============================================================================
