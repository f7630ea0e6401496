-------------------------- MODULE StaticFileProofs --------------------------
(* Which file a URI is served from, for every configuration, every URI and   *)
(* any changes of the file system.                                           *)
EXTENDS StaticFile, Lemmas

String == Seq(Char)
Cuts   == [names : Seq(String), name : String]

LEMMA Concatenated ==
  ASSUME NEW x \in String, NEW y \in String
  PROVE  x \o y \in String /\ (x # <<>> => (x \o y)[1] = x[1] /\ x \o y # <<>>)
  BY DEF String

LEMMA Associates ==
  ASSUME NEW x \in String, NEW y \in String, NEW z \in String
  PROVE  (x \o y) \o z = x \o (y \o z)
  BY DEF String

-----------------------------------------------------------------------------
(* How a path is cut *)

LEMMA UncutType == /\ Uncut \in Cuts /\ Uncut.names = <<>> /\ Uncut.name = <<>>
                   /\ Names(Uncut) = <<>>
  <1>. DEFINE none == <<>>
              z == [names |-> none, name |-> none]
  <1>1. none \in String /\ none \in Seq(String)
    BY DEF String
  <1>. HIDE DEF none
  <1>2. z \in Cuts /\ z.names = none /\ z.name = none
    BY <1>1 DEF Cuts
  <1>3. Uncut = z
    BY DEF Uncut, none
  <1>. HIDE DEF z
  <1>. QED BY <1>2, <1>3 DEF Names, none

LEMMA NamesType ==
  ASSUME NEW c \in Cuts
  PROVE  Names(c) \in Seq(String) /\ c.names \in Seq(String) /\ c.name \in String
  <1>1. c.names \in Seq(String) /\ c.name \in String
    BY DEF Cuts
  <1>. QED BY <1>1 DEF Names

\* One character.
LEMMA CutIs ==
  ASSUME NEW c \in Cuts, NEW char \in Char
  PROVE  /\ Cut(c, char) \in Cuts
         /\ char = "/" => Cut(c, char).names = Names(c) /\ Cut(c, char).name = <<>>
         /\ char # "/" => Cut(c, char).names = c.names /\ Cut(c, char).name = Append(c.name, char)
  <1>. DEFINE none == <<>>
              w == Append(c.name, char)
              m == Names(c)
              end == [names |-> m, name |-> none]
              on == [c EXCEPT !.name = w]
  <1>1. none \in String /\ w \in String /\ m \in Seq(String)
    BY NamesType DEF String
  <1>2. Cut(c, char) = IF char = "/" THEN end ELSE on
    BY DEF Cut
  <1>. HIDE DEF w, m, none
  <1>3. end \in Cuts /\ end.names = m /\ end.name = none
    BY <1>1 DEF Cuts
  <1>4. on \in Cuts /\ on.names = c.names /\ on.name = w
    BY <1>1 DEF Cuts
  <1>. HIDE DEF end, on
  <1>. QED BY <1>2, <1>3, <1>4 DEF w, m, none

LEMMA CutSlash ==
  ASSUME NEW c \in Cuts
  PROVE  Cut(c, "/") \in Cuts /\ Cut(c, "/").names = Names(c) /\ Cut(c, "/").name = <<>>
  BY CharAssumption, CutIs, Zenon

\* f[i] is what the first i characters of the path are cut into.
CutRun(f, path) ==
    /\ \A i \in 0..Len(path) : f[i] \in Cuts
    /\ f[0] = Uncut
    /\ \A i \in 1..Len(path) : f[i] = Cut(f[i - 1], path[i])

LEMMA PathLoop ==
  ASSUME NEW path \in String
  PROVE  \E f : CutRun(f, path) /\ Components(path) = Names(f[Len(path)])
  <1>. DEFINE A == Cuts
              n == Len(path)
              F == [x \in A \X Char |-> Cut(x[1], x[2])]
              f == CHOOSE g : g = [i \in 0..n |-> IF i = 0 THEN Uncut ELSE Cut(g[i - 1], path[i])]
  <1>1. Components(path) = Names(f[n])
    BY Zenon DEF Components
  <1>2. n \in Nat /\ path \in [1..n -> Char]
    BY DEF String
  <1>3. Uncut \in A
    BY UncutType
  <1>4. \A x \in A, e \in Char : Cut(x, e) \in A
    BY CutIs
  <1>. HIDE DEF A, n
  <1>5. F \in [A \X Char -> A] /\ \A x \in A, e \in Char : F[<<x, e>>] = Cut(x, e)
    BY <1>4
  <1>. HIDE DEF F
  <1>6. PICK g : Loop(g, n, Uncut, F, path)
    BY <1>2, <1>3, <1>5, LoopExists
  <1>7. \A i \in 0..n : g[i] = IF i = 0 THEN Uncut ELSE F[<<g[i - 1], path[i]>>]
    BY <1>6 DEF Loop
  <1>8. \A i \in 0..n : g[i] \in A
    <2>1. g[0] \in A
      <3>1. 0 \in 0..n
        BY <1>2
      <3>2. g[0] = Uncut
        BY <1>7, <3>1
      <3>. QED BY <1>3, <3>2
    <2>2. ASSUME NEW i \in 1..n, g[i - 1] \in A PROVE g[i] \in A
      <3>1. i \in 0..n /\ i # 0 /\ path[i] \in Char
        BY <1>2
      <3>. QED BY <1>4, <1>5, <1>7, <2>2, <3>1
    <2>. QED BY <1>2, <2>1, <2>2, LoopStays
  <1>9. g = [i \in 0..n |-> IF i = 0 THEN Uncut ELSE Cut(g[i - 1], path[i])]
    <2>1. ASSUME NEW i \in 0..n, i # 0 PROVE F[<<g[i - 1], path[i]>>] = Cut(g[i - 1], path[i])
      <3>1. g[i - 1] \in A /\ path[i] \in Char
        BY <1>2, <1>8, <2>1
      <3>. QED BY <1>5, <3>1
    <2>. QED BY <1>6, <2>1 DEF Loop
  <1>10. f = [i \in 0..n |-> IF i = 0 THEN Uncut ELSE Cut(f[i - 1], path[i])]
    BY <1>9, Zenon
  <1>. HIDE DEF f
  <1>11. \A i \in 0..n : f[i] = IF i = 0 THEN Uncut ELSE Cut(f[i - 1], path[i])
    BY <1>10
  <1>12. f[0] = Uncut /\ \A i \in 1..n : f[i] = Cut(f[i - 1], path[i])
    <2>1. 0 \in 0..n /\ \A i \in 1..n : i \in 0..n /\ i # 0
      BY <1>2
    <2>. QED BY <1>11, <2>1
  <1>13. \A i \in 0..n : f[i] \in A
    <2>1. ASSUME NEW i \in 1..n, f[i - 1] \in A PROVE f[i] \in A
      <3>1. path[i] \in Char
        BY <1>2
      <3>. QED BY <1>4, <1>12, <2>1, <3>1
    <2>. QED BY <1>2, <1>3, <1>12, <2>1, LoopStays
  <1>14. CutRun(f, path)
    BY <1>12, <1>13 DEF CutRun, A, n
  <1>. QED BY <1>1, <1>14 DEF n

\* Names that come before do not change how a path is cut.
Glue(d, c) == [names |-> d \o c.names, name |-> c.name]

LEMMA GlueType ==
  ASSUME NEW d \in Seq(String), NEW c \in Cuts
  PROVE  Glue(d, c) \in Cuts /\ Glue(d, c).names = d \o c.names /\ Glue(d, c).name = c.name
  <1>. DEFINE m == d \o c.names
              w == c.name
              r == [names |-> m, name |-> w]
  <1>1. m \in Seq(String) /\ w \in String
    BY NamesType
  <1>2. Glue(d, c) = r
    BY DEF Glue
  <1>. HIDE DEF m, w
  <1>3. r \in Cuts /\ r.names = m /\ r.name = w
    BY <1>1 DEF Cuts
  <1>. HIDE DEF r
  <1>. QED BY <1>2, <1>3 DEF m, w

LEMMA GlueNames ==
  ASSUME NEW d \in Seq(String), NEW c \in Cuts
  PROVE  Names(Glue(d, c)) = d \o Names(c)
  <1>. DEFINE g == Glue(d, c)
  <1>1. g.names = d \o c.names /\ g.name = c.name
    BY GlueType
  <1>2. c.names \in Seq(String) /\ c.name \in String
    BY NamesType
  <1>. HIDE DEF g
  <1>3. Names(g) = d \o Names(c)
    <2>1. CASE c.name = <<>>
      BY <1>1, <2>1 DEF Names
    <2>2. CASE c.name # <<>>
      <3>1. Names(g) = Append(d \o c.names, c.name) /\ Names(c) = Append(c.names, c.name)
        BY <1>1, <2>2 DEF Names
      <3>2. Append(d \o c.names, c.name) = d \o Append(c.names, c.name)
        BY <1>2, SMTT(30)
      <3>. QED BY <3>1, <3>2
    <2>. QED BY <2>1, <2>2
  <1>. QED BY <1>3 DEF g

LEMMA CutsEqual ==
  ASSUME NEW a \in Cuts, NEW b \in Cuts, a.names = b.names, a.name = b.name
  PROVE  a = b
  BY DEF Cuts

LEMMA GlueCut ==
  ASSUME NEW d \in Seq(String), NEW c \in Cuts, NEW char \in Char
  PROVE  Cut(Glue(d, c), char) = Glue(d, Cut(c, char))
  <1>. DEFINE a == Cut(Glue(d, c), char)
              b == Glue(d, Cut(c, char))
  <1>1. Glue(d, c) \in Cuts /\ Glue(d, c).names = d \o c.names /\ Glue(d, c).name = c.name
    BY GlueType
  <1>2. Cut(c, char) \in Cuts
    BY CutIs
  <1>3. b \in Cuts /\ b.names = d \o Cut(c, char).names /\ b.name = Cut(c, char).name
    BY <1>2, GlueType
  <1>4. a \in Cuts
    BY <1>1, CutIs
  <1>. HIDE DEF b
  <1>5. a.names = b.names /\ a.name = b.name
    <2>1. CASE char = "/"
      <3>1. a.names = Names(Glue(d, c)) /\ a.name = <<>>
        BY <1>1, <2>1, CutIs
      <3>2. Cut(c, char).names = Names(c) /\ Cut(c, char).name = <<>>
        BY <2>1, CutIs
      <3>. HIDE DEF a
      <3>. QED BY <1>3, <3>1, <3>2, GlueNames
    <2>2. CASE char # "/"
      <3>1. a.names = Glue(d, c).names /\ a.name = Append(Glue(d, c).name, char)
        BY <1>1, <2>2, CutIs
      <3>2. Cut(c, char).names = c.names /\ Cut(c, char).name = Append(c.name, char)
        BY <2>2, CutIs
      <3>. HIDE DEF a
      <3>. QED BY <1>1, <1>3, <3>1, <3>2
    <2>. QED BY <2>1, <2>2
  <1>. HIDE DEF a
  <1>6. a = b
    BY <1>3, <1>4, <1>5, CutsEqual
  <1>. QED BY <1>6 DEF a, b

\* Where one path is continued by another, the first is cut as it is alone.
LEMMA PrefixRun ==
  ASSUME NEW x \in String, NEW y \in String, NEW f, NEW g,
         CutRun(f, x \o y), CutRun(g, x)
  PROVE  \A i \in 0..Len(x) : f[i] = g[i]
  <1>. DEFINE n == Len(x)
              T == {i \in 0..n : f[i] = g[i]}
  <1>1. n \in Nat /\ Len(x \o y) \in Nat /\ Len(x \o y) >= n
        /\ \A i \in 1..n : (x \o y)[i] = x[i]
    BY DEF String
  <1>2. 0 \in T
    BY <1>1 DEF CutRun
  <1>3. ASSUME NEW i \in 1..n, i - 1 \in T PROVE i \in T
    <2>1. i \in 1..Len(x \o y) /\ i \in 0..n
      BY <1>1
    <2>2. f[i] = Cut(f[i - 1], (x \o y)[i]) /\ g[i] = Cut(g[i - 1], x[i])
      BY <2>1 DEF CutRun
    <2>3. f[i - 1] = g[i - 1]
      BY <1>3
    <2>. QED BY <1>1, <2>1, <2>2, <2>3
  <1>4. \A i \in 0..n : i \in T
    <2>. HIDE DEF T, n
    <2>. QED BY <1>1, <1>2, <1>3, FiniteInduction
  <1>. QED BY <1>4

\* A path that is empty or ends with a slash leaves no name open.
LEMMA NameClosed ==
  ASSUME NEW x \in String, NEW g, CutRun(g, x), x = <<>> \/ x[Len(x)] = "/"
  PROVE  g[Len(x)].name = <<>>
  <1>1. CASE x = <<>>
    <2>1. Len(x) = 0
      BY <1>1
    <2>. QED BY <2>1, UncutType DEF CutRun
  <1>2. CASE x # <<>>
    <2>1. Len(x) \in 1..Len(x) /\ Len(x) - 1 \in 0..Len(x) /\ x[Len(x)] \in Char
      BY <1>2 DEF String
    <2>2. g[Len(x)] = Cut(g[Len(x) - 1], x[Len(x)]) /\ g[Len(x) - 1] \in Cuts
      BY <2>1 DEF CutRun
    <2>. QED BY <1>2, <2>1, <2>2, CutIs
  <1>. QED BY <1>1, <1>2

\* With a slash between them, two paths have the components of both.
LEMMA Join ==
  ASSUME NEW x \in String, NEW y \in String,
         \/ y = <<>> \/ y[1] = "/"
         \/ x = <<>> \/ x[Len(x)] = "/"
  PROVE  Components(x \o y) = Components(x) \o Components(y)
  <1>. DEFINE n == Len(x)
              m == Len(y)
              z == x \o y
              d == Components(x)
  <1>1. /\ z \in String /\ n \in Nat /\ m \in Nat /\ Len(z) = n + m
        /\ \A i \in 1..m : z[n + i] = y[i] /\ y[i] \in Char
    BY DEF String
  <1>2. PICK f : CutRun(f, z) /\ Components(z) = Names(f[Len(z)])
    BY <1>1, PathLoop
  <1>3. PICK g : CutRun(g, x) /\ d = Names(g[n])
    BY PathLoop
  <1>4. PICK h : CutRun(h, y) /\ Components(y) = Names(h[m])
    BY PathLoop
  <1>5. n \in 0..n /\ g[n] \in Cuts /\ d \in Seq(String)
    BY <1>1, <1>3, NamesType DEF CutRun
  <1>6. f[n] = g[n]
    BY <1>2, <1>3, <1>5, PrefixRun
  <1>7. \A i \in 1..m : f[n + i] = Cut(f[n + (i - 1)], y[i]) /\ f[n + (i - 1)] \in Cuts
    <2>1. ASSUME NEW i \in 1..m PROVE f[n + i] = Cut(f[n + (i - 1)], y[i]) /\ f[n + (i - 1)] \in Cuts
      <3>1. n + i \in 1..Len(z) /\ (n + i) - 1 = n + (i - 1) /\ n + (i - 1) \in 0..Len(z)
        BY <1>1
      <3>. HIDE DEF z
      <3>2. f[n + i] = Cut(f[(n + i) - 1], z[n + i]) /\ f[n + (i - 1)] \in Cuts
        BY <1>2, <3>1 DEF CutRun
      <3>. QED BY <1>1, <3>1, <3>2
    <2>. QED BY <2>1
  <1>8. /\ h[0] = Uncut /\ \A i \in 0..m : h[i] \in Cuts
        /\ \A i \in 1..m : h[i] = Cut(h[i - 1], y[i])
    BY <1>4 DEF CutRun
  <1>. HIDE DEF n, m, z, d
  <1>9. ASSUME NEW k \in 0..m, f[n + k] = Glue(d, h[k])
        PROVE  Components(z) = d \o Components(y)
    <2>. DEFINE T == {i \in 0..m : i >= k => f[n + i] = Glue(d, h[i])}
    <2>1. 0 \in T
      BY <1>1, <1>9
    <2>2. ASSUME NEW i \in 1..m, i - 1 \in T PROVE i \in T
      <3>1. i \in 0..m /\ i - 1 \in 0..m
        BY <1>1
      <3>2. CASE i = k
        BY <1>9, <3>1, <3>2
      <3>3. CASE i < k
        BY <3>1, <3>3
      <3>4. CASE i > k
        <4>1. f[n + (i - 1)] = Glue(d, h[i - 1])
          BY <2>2, <3>4
        <4>2. f[n + i] = Cut(Glue(d, h[i - 1]), y[i]) /\ h[i] = Cut(h[i - 1], y[i])
          BY <1>7, <1>8, <4>1
        <4>3. f[n + i] = Glue(d, h[i])
          BY <1>1, <1>5, <1>8, <3>1, <4>2, GlueCut
        <4>. QED BY <3>1, <4>3
      <3>. QED BY <3>1, <3>2, <3>3, <3>4
    <2>3. m \in T
      <3>1. \A i \in 0..m : i \in T
        <4>. HIDE DEF T
        <4>. QED BY <1>1, <2>1, <2>2, FiniteInduction
      <3>. QED BY <1>1, <3>1
    <2>4. f[n + m] = Glue(d, h[m]) /\ m \in 0..m
      BY <1>1, <2>3
    <2>. QED BY <1>1, <1>2, <1>4, <1>5, <1>8, <2>4, GlueNames
  <1>10. CASE x = <<>> \/ x[Len(x)] = "/"
    <2>1. g[n].name = <<>>
      BY <1>3, <1>10, NameClosed DEF n
    <2>2. d = g[n].names
      BY <1>3, <2>1 DEF Names
    <2>3. d \o <<>> = d
      BY <1>5
    <2>4. /\ Glue(d, h[0]) \in Cuts /\ Glue(d, h[0]).names = d /\ Glue(d, h[0]).name = <<>>
      BY <1>1, <1>5, <1>8, <2>3, GlueType, UncutType
    <2>5. f[n] = Glue(d, h[0])
      BY <1>5, <1>6, <2>1, <2>2, <2>4, CutsEqual
    <2>6. 0 \in 0..m /\ n + 0 = n
      BY <1>1
    <2>. QED BY <1>9, <2>5, <2>6 DEF z, d
  <1>11. CASE y # <<>> /\ y[1] = "/"
    <2>1. 1 \in 1..m /\ 1 \in 0..m /\ 1 - 1 = 0 /\ n + 0 = n /\ 0 \in 0..m
      BY <1>1, <1>11 DEF m, String
    <2>2. f[n + 1] = Cut(g[n], "/") /\ h[1] = Cut(Uncut, "/")
      BY <1>6, <1>7, <1>8, <1>11, <2>1
    <2>3. f[n + 1] \in Cuts /\ f[n + 1].names = d /\ f[n + 1].name = <<>>
      BY <1>3, <1>5, <2>2, CutSlash
    <2>4. h[1] \in Cuts /\ h[1].names = <<>> /\ h[1].name = <<>>
      BY <2>2, CutSlash, UncutType
    <2>5. Glue(d, h[1]) \in Cuts /\ Glue(d, h[1]).names = d /\ Glue(d, h[1]).name = <<>>
      <3>1. d \o <<>> = d
        BY <1>5
      <3>. QED BY <1>5, <2>4, <3>1, GlueType
    <2>6. f[n + 1] = Glue(d, h[1])
      BY <2>3, <2>5, CutsEqual
    <2>. QED BY <1>9, <2>1, <2>6 DEF z, d
  <1>12. CASE y = <<>>
    <2>1. z = x /\ m = 0
      BY <1>12 DEF z, m, String
    <2>2. Components(y) = <<>>
      BY <1>4, <1>8, <2>1, UncutType
    <2>3. d \o <<>> = d
      BY <1>5
    <2>. QED BY <2>1, <2>2, <2>3 DEF z, d
  <1>. QED BY <1>10, <1>11, <1>12

\* A name is one component.
LEMMA OneName ==
  ASSUME NEW w \in String, w # <<>>, \A i \in DOMAIN w : w[i] # "/"
  PROVE  Components(w) = <<w>>
  <1>. DEFINE n == Len(w)
  <1>1. PICK h : CutRun(h, w) /\ Components(w) = Names(h[n])
    BY PathLoop
  <1>2. /\ n \in Nat /\ n > 0 /\ \A i \in 1..n : w[i] \in Char /\ w[i] # "/"
        /\ w \in [1..n -> Char] /\ DOMAIN w = 1..n
    BY DEF String
  <1>3. h[0] = Uncut /\ (\A i \in 0..n : h[i] \in Cuts) /\ \A i \in 1..n : h[i] = Cut(h[i - 1], w[i])
    BY <1>1 DEF CutRun
  <1>. DEFINE Begun(i) == /\ h[i].names = <<>> /\ Len(h[i].name) = i
                          /\ \A j \in 1..i : h[i].name[j] = w[j]
              T == {i \in 0..n : Begun(i)}
  <1>4. 0 \in T
    BY <1>2, <1>3, UncutType
  <1>5. ASSUME NEW i \in 1..n, i - 1 \in T PROVE i \in T
    <2>1. i \in 0..n /\ i - 1 \in 0..n /\ Begun(i - 1)
      BY <1>2, <1>5
    <2>2. h[i - 1] \in Cuts /\ h[i] = Cut(h[i - 1], w[i]) /\ w[i] \in Char /\ w[i] # "/"
      BY <1>2, <1>3, <2>1
    <2>3. h[i].names = <<>> /\ h[i].name = Append(h[i - 1].name, w[i])
      <3>1. Cut(h[i - 1], w[i]).names = h[i - 1].names
            /\ Cut(h[i - 1], w[i]).name = Append(h[i - 1].name, w[i])
        BY <2>2, CutIs
      <3>. QED BY <2>1, <2>2, <3>1
    <2>. DEFINE v == h[i - 1].name
    <2>4. v \in String /\ Len(v) = i - 1 /\ \A j \in 1..(i - 1) : v[j] = w[j]
      BY <2>1, <2>2, NamesType
    <2>. HIDE DEF v
    <2>5. LET u == Append(v, w[i]) IN Len(u) = i /\ \A j \in 1..i : u[j] = w[j]
      BY <1>2, <2>1, <2>4 DEF String
    <2>6. Begun(i)
      BY <2>3, <2>5 DEF v
    <2>. QED BY <2>1, <2>6
  <1>6. Begun(n)
    <2>1. \A i \in 0..n : i \in T
      <3>. HIDE DEF T, n
      <3>. QED BY <1>2, <1>4, <1>5, FiniteInduction
    <2>. QED BY <1>2, <2>1
  <1>7. h[n] \in Cuts
    BY <1>2, <1>3
  <1>8. h[n].name \in String
    BY <1>7, NamesType
  <1>9. h[n].name = w
    BY <1>2, <1>6, <1>8, SeqEqual DEF String
  <1>. QED BY <1>1, <1>6, <1>9 DEF Names

LEMMA SlashHasNoName == Components(<<"/">>) = <<>> /\ <<"/">> \in String
  <1>1. <<"/">> \in String /\ Len(<<"/">>) = 1 /\ <<"/">>[1] = "/"
    <2>1. ASSUME NEW c \in Char PROVE <<c>> \in Seq(Char) /\ Len(<<c>>) = 1 /\ <<c>>[1] = c
      OBVIOUS
    <2>. QED BY <2>1, CharAssumption, Zenon DEF String
  <1>2. PICK h : CutRun(h, <<"/">>) /\ Components(<<"/">>) = Names(h[1])
    BY <1>1, PathLoop
  <1>3. h[1] = Cut(Uncut, "/")
    <2>1. 1 \in 1..1 /\ 1 - 1 = 0
      OBVIOUS
    <2>. QED BY <1>1, <1>2, <2>1 DEF CutRun
  <1>4. h[1].name = <<>> /\ h[1].names = <<>>
    BY <1>3, CutSlash, UncutType
  <1>. QED BY <1>1, <1>2, <1>4 DEF Names

-----------------------------------------------------------------------------
(* The file meant *)

Typed == /\ uri \in String /\ uri # <<>> /\ uri[1] = "/"
         /\ root_path_ \in String /\ statements \in Seq(Seq(String))

\* A set of positions has a last one.
LEMMA LastExists ==
  ASSUME NEW n \in Nat, NEW D \in SUBSET (1..n), D # {}
  PROVE  \E k \in D : \A j \in D : j <= k
  <1>. DEFINE E == {m \in Nat : \E i \in D : m = n - i}
  <1>1. E \in SUBSET Nat /\ E # {}
    <2>1. PICK i \in D : TRUE
      OBVIOUS
    <2>2. n - i \in Nat
      BY <2>1
    <2>. QED BY <2>1, <2>2
  <1>2. PICK m \in E : \A k \in E : ~(k < m)
    <2>. HIDE DEF E
    <2>. QED BY <1>1, LeastExists
  <1>3. PICK k \in D : m = n - k
    BY <1>2
  <1>4. \A j \in D : j <= k
    <2>1. ASSUME NEW j \in D PROVE j <= k
      <3>1. n - j \in E
        OBVIOUS
      <3>2. ~(n - j < m)
        BY <1>2, <3>1
      <3>. QED BY <1>3, <3>2
    <2>. QED BY <2>1
  <1>. QED BY <1>3, <1>4

\* The constructor's loop ends with the last root of the block.
LEMMA RootIsLast ==
  ASSUME Typed
  PROVE  get_static_file_path = HandlerRoot /\ HandlerRoot \in String
  <1>. DEFINE given == {i \in Roots : \A j \in Roots : j <= i}
  <1>1. Roots \in SUBSET (1..Len(statements)) /\ Len(statements) \in Nat
    BY DEF Typed, Roots
  <1>2. ASSUME NEW i \in Roots PROVE statements[i][2] \in String
    <2>1. statements[i] \in Seq(String) /\ Len(statements[i]) = 2
      BY <1>2 DEF Typed, Roots
    <2>. QED BY <2>1
  <1>3. HandlerRoot = IF given = {} THEN <<>> ELSE statements[CHOOSE i \in given : TRUE][2]
    BY DEF HandlerRoot
  <1>4. CASE Roots = {}
    <2>1. given = {}
      BY <1>4
    <2>2. <<>> \in String
      BY DEF String
    <2>. QED BY <1>3, <1>4, <2>1, <2>2, Zenon DEF get_static_file_path
  <1>5. CASE Roots # {}
    <2>1. PICK k \in Roots : \A j \in Roots : j <= k
      BY <1>1, <1>5, LastExists
    <2>2. \A i \in Roots : (\A j \in Roots : j <= i) => i = k
      <3>1. \A i \in Roots : i \in Nat
        BY <1>1
      <3>. QED BY <2>1, <3>1
    <2>3. given # {} /\ (CHOOSE i \in given : TRUE) = k
      <3>1. k \in given /\ \A i \in given : i = k
        BY <2>1, <2>2
      <3>. HIDE DEF given
      <3>. QED BY <3>1, Zenon
    <2>4. (CHOOSE i \in Roots : \A j \in Roots : j <= i) = k
      BY <2>1, <2>2, Zenon
    <2>5. HandlerRoot = statements[k][2]
      BY <1>3, <2>3, Zenon
    <2>6. get_static_file_path = statements[k][2]
      BY <1>5, <2>4, Zenon DEF get_static_file_path
    <2>. QED BY <1>2, <2>1, <2>5, <2>6
  <1>. QED BY <1>4, <1>5

\* A name in a directory.
LEMMA InDirectory ==
  ASSUME NEW p \in String, NEW w \in String, w # <<>>, \A i \in DOMAIN w : w[i] # "/"
  PROVE  Components(p \o (<<"/">> \o w)) = Components(p) \o <<w>>
  <1>. DEFINE slash == <<"/">>
              y == slash \o w
  <1>1. slash \in String /\ Components(slash) = <<>> /\ Len(slash) = 1 /\ slash[1] = "/"
    BY SlashHasNoName
  <1>. HIDE DEF slash
  <1>2. slash[Len(slash)] = "/"
    BY <1>1
  <1>3. Components(y) = Components(slash) \o Components(w)
    BY <1>1, <1>2, Join
  <1>4. Components(w) = <<w>>
    BY OneName
  <1>5. <<w>> \in Seq(String)
    OBVIOUS
  <1>6. Components(y) = <<w>>
    <2>1. <<>> \o <<w>> = <<w>>
      BY <1>5
    <2>. QED BY <1>1, <1>3, <1>4, <2>1
  <1>7. y \in String /\ y[1] = "/"
    <2>1. slash # <<>>
      BY <1>1, SMTT(30)
    <2>. QED BY <1>1, <2>1, Concatenated
  <1>. HIDE DEF y
  <1>8. Components(p \o y) = Components(p) \o Components(y)
    BY <1>7, Join
  <1>. QED BY <1>6, <1>8 DEF y, slash

LEMMA AbsoluteJoin ==
  ASSUME NEW x \in String, NEW y \in String
  PROVE  IsAbsolute(x \o y) <=> IsAbsolute(x) \/ (x = <<>> /\ IsAbsolute(y))
  <1>1. CASE x = <<>>
    <2>1. x \o y = y
      BY <1>1 DEF String
    <2>. QED BY <1>1, <2>1 DEF IsAbsolute
  <1>2. CASE x # <<>>
    <2>1. x \o y # <<>> /\ (x \o y)[1] = x[1]
      BY <1>2 DEF String
    <2>. QED BY <1>2, <2>1 DEF IsAbsolute
  <1>. QED BY <1>1, <1>2

\* The path that is opened leads to the file in the handler's directory.
LEMMA PlaceInPath ==
  ASSUME Typed, NEW a \in String, NEW b \in String, a \o b = LastSegment,
         LastSegment # <<>>, \A i \in DOMAIN LastSegment : LastSegment[i] # "/"
  PROVE  Place(path_ \o <<"/">> \o a \o b) = InPath
  <1>. DEFINE p == path_
              w == LastSegment
              s == <<"/">>
              z == ((p \o s) \o a) \o b
  <1>1. p \in String
    <2>1. root_path_ \in String /\ get_static_file_path \in String
      BY RootIsLast DEF Typed
    <2>. QED BY <2>1, Concatenated DEF path_
  <1>2. w \in String /\ s \in String /\ a \o b = w /\ w # <<>> /\ \A i \in DOMAIN w : w[i] # "/"
    BY SlashHasNoName, Concatenated
  <1>3. s # <<>>
    OBVIOUS
  <1>. HIDE DEF p, w, s
  <1>4. p \o s \in String /\ p \o s # <<>>
    BY <1>1, <1>2, <1>3 DEF String
  <1>5. z = (p \o s) \o w /\ (p \o s) \o w = p \o (s \o w)
    <2>1. z = (p \o s) \o (a \o b)
      BY <1>4, Associates
    <2>2. (p \o s) \o w = p \o (s \o w)
      BY <1>1, <1>2, Associates
    <2>. QED BY <1>2, <2>1, <2>2
  <1>6. Components(z) = Components(p) \o <<w>>
    BY <1>1, <1>2, <1>5, InDirectory, ZenonT(60) DEF s
  <1>. DEFINE d == p \o s
  <1>. HIDE DEF z, d
  <1>7. IsAbsolute(z) = IsAbsolute(d)
    <2>1. z = d \o w
      BY <1>5 DEF d
    <2>2. IsAbsolute(z) <=> IsAbsolute(d)
      BY <1>2, <1>4, <2>1, AbsoluteJoin DEF d
    <2>. QED BY <2>2, Zenon DEF IsAbsolute
  <1>8. Place(z) = InPath
    BY <1>6, <1>7, Zenon DEF Place, InPath, d, p, s, w
  <1>. QED BY <1>8, Zenon DEF z, p, s

\* With a slash between the roots, that is the file meant.
LEMMA InPathIsMeant ==
  ASSUME Typed, Joined
  PROVE  InPath = Meant
  <1>. DEFINE x == root_path_
              y == HandlerRoot
              p == x \o y
              w == LastSegment
              s == <<"/">>
  <1>1. x \in String /\ y \in String /\ get_static_file_path = y
    BY RootIsLast DEF Typed
  <1>2. path_ = p
    BY <1>1 DEF path_
  <1>3. s \in String
    BY SlashHasNoName
  <1>4. IF y = <<>> THEN x # <<>> ELSE x = <<>> \/ x[Len(x)] = "/" \/ IsAbsolute(y)
    BY DEF Joined
  <1>. HIDE DEF x, y, w, s
  <1>5. Components(p) = Components(x) \o Components(y)
    BY <1>1, <1>4, Join DEF IsAbsolute
  <1>6. p \in String /\ p # <<>>
    BY <1>1, <1>4 DEF String
  <1>7. IsAbsolute(p) <=> IsAbsolute(x) \/ (x = <<>> /\ IsAbsolute(y))
    BY <1>1, AbsoluteJoin
  <1>. HIDE DEF p
  <1>8. IsAbsolute(p \o s) <=> IsAbsolute(p)
    BY <1>3, <1>6, AbsoluteJoin
  <1>9. IsAbsolute(p \o s) = (IsAbsolute(x) \/ (x = <<>> /\ IsAbsolute(y)))
    BY <1>7, <1>8, Zenon DEF IsAbsolute
  <1>10. InPath = <<IsAbsolute(p \o s), Components(p) \o <<w>> >>
    BY <1>2, Zenon DEF InPath, s, w
  <1>11. Meant = <<IsAbsolute(x) \/ (x = <<>> /\ IsAbsolute(y)),
                   Components(x) \o Components(y) \o <<w>> >>
    BY Zenon DEF Meant, x, y, w
  <1>. QED BY <1>5, <1>9, <1>10, <1>11, Zenon

\* Characters lo..hi of u.
LEMMA SubstringIs ==
  ASSUME NEW u \in String, NEW lo \in Int, NEW hi \in Int, lo >= 1, hi <= Len(u)
  PROVE  LET s == SubSeq(u, lo, hi)
         IN /\ s \in String
            /\ Len(s) = IF lo <= hi THEN hi - lo + 1 ELSE 0
            /\ \A i \in 1..(hi - lo + 1) : s[i] = u[lo + i - 1]
  <1>1. \A i \in lo..hi : u[i] \in Char
    BY DEF String
  <1>. QED BY <1>1, SubSeqProperties DEF String

\* The characters of a word.
LEMMA WordOf ==
  ASSUME NEW u \in String, NEW lo \in Int, NEW hi \in Int, lo >= 1, hi <= Len(u)
  PROVE  IsWord(SubSeq(u, lo, hi)) <=> lo <= hi /\ \A i \in lo..hi : u[i] \notin NonWord
  <1>. DEFINE s == SubSeq(u, lo, hi)
              n == hi - lo + 1
  <1>1. /\ s \in String /\ Len(s) = (IF lo <= hi THEN n ELSE 0)
        /\ \A i \in 1..n : s[i] = u[lo + i - 1]
    BY SubstringIs
  <1>2. s = <<>> <=> Len(s) = 0
    BY <1>1 DEF String
  <1>3. DOMAIN s = 1..Len(s)
    BY <1>1 DEF String
  <1>. HIDE DEF s
  <1>4. CASE lo <= hi
    <2>1. Len(s) = n /\ n > 0 /\ s # <<>>
      BY <1>1, <1>2, <1>4
    <2>2. ASSUME \A i \in DOMAIN s : s[i] \notin NonWord, NEW i \in lo..hi PROVE u[i] \notin NonWord
      <3>1. i - lo + 1 \in 1..n /\ lo + (i - lo + 1) - 1 = i
        OBVIOUS
      <3>. QED BY <1>1, <1>3, <2>1, <2>2, <3>1
    <2>3. ASSUME \A i \in lo..hi : u[i] \notin NonWord, NEW i \in DOMAIN s PROVE s[i] \notin NonWord
      <3>1. i \in 1..n /\ lo + i - 1 \in lo..hi
        BY <1>3, <2>1
      <3>. QED BY <1>1, <2>3, <3>1
    <2>4. IsWord(s) <=> \A i \in DOMAIN s : s[i] \notin NonWord
      BY <2>1 DEF IsWord
    <2>. QED BY <1>4, <2>2, <2>3, <2>4 DEF s
  <1>5. CASE ~(lo <= hi)
    <2>1. ~IsWord(s)
      BY <1>1, <1>2, <1>5 DEF IsWord
    <2>. QED BY <1>5, <2>1 DEF s
  <1>. QED BY <1>4, <1>5

\* k is the last slash of the URI.
LastSlash(k) == k \in 1..Len(uri) /\ uri[k] = "/" /\ \A j \in (k + 1)..Len(uri) : uri[j] # "/"

LEMMA LastSlashExists ==
  ASSUME Typed
  PROVE  \E k \in 1..Len(uri) : LastSlash(k)
  <1>. DEFINE n == Len(uri)
              D == {i \in 1..n : uri[i] = "/"}
  <1>1. n \in Nat /\ 1 \in D
    BY DEF Typed, String
  <1>2. PICK k \in D : \A j \in D : j <= k
    <2>1. D \in SUBSET (1..n) /\ D # {}
      BY <1>1
    <2>. HIDE DEF D, n
    <2>. QED BY <1>1, <2>1, LastExists
  <1>3. \A j \in (k + 1)..n : uri[j] # "/"
    <2>1. ASSUME NEW j \in (k + 1)..n, uri[j] = "/" PROVE FALSE
      <3>1. k \in 1..n /\ j \in 1..n /\ j > k
        BY <1>1, <1>2
      <3>2. j \in D
        BY <2>1, <3>1
      <3>3. j <= k
        BY <1>2, <3>2
      <3>. HIDE DEF D, n
      <3>. QED BY <1>1, <3>1, <3>3
    <2>. QED BY <2>1
  <1>. QED BY <1>2, <1>3 DEF LastSlash

\* What follows it.
LEMMA SegmentIs ==
  ASSUME Typed, NEW k \in 1..Len(uri), LastSlash(k)
  PROVE  LastSegment = SubSeq(uri, k + 1, Len(uri))
  <1>. DEFINE P(i) == uri[i] = "/" /\ \A j \in (i + 1)..Len(uri) : uri[j] # "/"
  <1>1. DOMAIN uri = 1..Len(uri) /\ Len(uri) \in Nat
    BY DEF Typed, String
  <1>2. k \in DOMAIN uri /\ P(k)
    BY <1>1 DEF LastSlash
  <1>3. ASSUME NEW i \in DOMAIN uri, P(i) PROVE i = k
    <2>1. ~(i < k)
      <3>1. i < k => k \in (i + 1)..Len(uri)
        BY <1>1, <1>3
      <3>. QED BY <1>2, <1>3, <3>1
    <2>2. ~(k < i)
      <3>1. k < i => i \in (k + 1)..Len(uri)
        BY <1>1, <1>3
      <3>. QED BY <1>2, <1>3, <3>1
    <2>. QED BY <1>1, <1>3, <2>1, <2>2
  <1>4. (CHOOSE i \in DOMAIN uri : P(i)) = k
    <2>. HIDE DEF P
    <2>. QED BY <1>2, <1>3, Zenon
  <1>. QED BY <1>4, Zenon DEF LastSegment

\* The positions that the regular expression finds.
Found(i, j) ==
    /\ i \in 1..Len(uri) /\ j \in 1..Len(uri) /\ uri[i] = "/" /\ uri[j] = "."
    /\ IsWord(SubSeq(uri, i + 1, j - 1)) /\ IsWord(SubSeq(uri, j + 1, Len(uri)))
Info(i, j) == <<SubSeq(uri, i + 1, j - 1), SubSeq(uri, j, Len(uri))>>

LEMMA InfoFound ==
  ASSUME Typed
  PROVE  /\ \A info \in parse_file_info(uri) :
              \E i, j \in 1..Len(uri) : Found(i, j) /\ info = Info(i, j)
         /\ \A i, j \in 1..Len(uri) : Found(i, j) => Info(i, j) \in parse_file_info(uri)
  <1>1. DOMAIN uri = 1..Len(uri)
    BY DEF Typed, String
  <1>. DEFINE Q == {q \in (DOMAIN uri) \X (DOMAIN uri) :
                      /\ uri[q[1]] = "/" /\ uri[q[2]] = "."
                      /\ IsWord(SubSeq(uri, q[1] + 1, q[2] - 1))
                      /\ IsWord(SubSeq(uri, q[2] + 1, Len(uri)))}
  <1>2. parse_file_info(uri)
          = {<<SubSeq(uri, p[1] + 1, p[2] - 1), SubSeq(uri, p[2], Len(uri))>> : p \in Q}
    BY DEF parse_file_info
  <1>3. ASSUME NEW q \in Q PROVE q[1] \in 1..Len(uri) /\ q[2] \in 1..Len(uri) /\ Found(q[1], q[2])
    BY <1>1 DEF Found
  <1>4. ASSUME NEW i \in 1..Len(uri), NEW j \in 1..Len(uri), Found(i, j) PROVE <<i, j>> \in Q
    BY <1>1, <1>4 DEF Found
  <1>. HIDE DEF Q
  <1>5. ASSUME NEW info \in parse_file_info(uri)
        PROVE  \E i, j \in 1..Len(uri) : Found(i, j) /\ info = Info(i, j)
    <2>1. PICK q \in Q : info = Info(q[1], q[2])
      BY <1>2, <1>5 DEF Info
    <2>. QED BY <1>3, <2>1
  <1>6. ASSUME NEW i \in 1..Len(uri), NEW j \in 1..Len(uri), Found(i, j)
        PROVE  Info(i, j) \in parse_file_info(uri)
    <2>. DEFINE q == <<i, j>>
    <2>1. q \in Q /\ q[1] = i /\ q[2] = j
      BY <1>4, <1>6
    <2>. HIDE DEF q
    <2>2. Info(q[1], q[2]) \in parse_file_info(uri)
      BY <1>2, <2>1 DEF Info
    <2>. QED BY <2>1, <2>2
  <1>. QED BY <1>5, <1>6

\* Name and extension together are what follows the last slash.
LEMMA InfoIsSegment ==
  ASSUME Typed, NEW info \in parse_file_info(uri)
  PROVE  /\ info[1] \in String /\ info[2] \in String /\ info[1] \o info[2] = LastSegment
         /\ LastSegment # <<>> /\ \A i \in DOMAIN LastSegment : LastSegment[i] # "/"
  <1>. DEFINE u == uri
              n == Len(u)
  <1>1. u \in String /\ n \in Nat
    BY DEF Typed, String
  <1>2. PICK i \in 1..n : \E j \in 1..n : Found(i, j) /\ info = Info(i, j)
    BY InfoFound
  <1>3. PICK j \in 1..n : Found(i, j) /\ info = Info(i, j)
    BY <1>2
  <1>. DEFINE a == SubSeq(u, i + 1, j - 1)
              b == SubSeq(u, j, n)
              w == SubSeq(u, i + 1, n)
  <1>4. info[1] = a /\ info[2] = b
    BY <1>3 DEF Info
  <1>5. /\ i + 1 <= j - 1 /\ (\A k \in (i + 1)..(j - 1) : u[k] \notin NonWord)
        /\ j + 1 <= n /\ (\A k \in (j + 1)..n : u[k] \notin NonWord)
    <2>1. IsWord(SubSeq(u, i + 1, j - 1)) /\ IsWord(SubSeq(u, j + 1, n))
      BY <1>3 DEF Found
    <2>2. i + 1 \in Int /\ j - 1 \in Int /\ i + 1 >= 1 /\ j - 1 <= n /\ j + 1 \in Int /\ j + 1 >= 1
      BY <1>1
    <2>3. n \in Int /\ n <= Len(u)
      BY <1>1
    <2>. HIDE DEF u, n
    <2>4. i + 1 <= j - 1 /\ \A k \in (i + 1)..(j - 1) : u[k] \notin NonWord
      <3>1. j - 1 <= Len(u)
        BY <1>1, <2>2 DEF n
      <3>. QED BY <1>1, <2>1, <2>2, <3>1, WordOf
    <2>5. j + 1 <= n /\ \A k \in (j + 1)..n : u[k] \notin NonWord
      BY <1>1, <2>1, <2>2, <2>3, WordOf
    <2>. QED BY <2>4, <2>5
  <1>6. u[i] = "/" /\ u[j] = "."
    BY <1>3 DEF Found
  <1>7. \A k \in (i + 1)..n : u[k] # "/"
    <2>1. ASSUME NEW k \in (i + 1)..n PROVE u[k] # "/"
      <3>1. k \in (i + 1)..(j - 1) \/ k = j \/ k \in (j + 1)..n
        BY <1>1
      <3>2. "/" \in NonWord
        BY DEF NonWord
      <3>. QED BY <1>5, <1>6, <3>1, <3>2
    <2>. QED BY <2>1
  <1>8. LastSlash(i)
    BY <1>6, <1>7 DEF LastSlash
  <1>9. LastSegment = w
    BY <1>8, SegmentIs
  <1>. HIDE DEF u, n
  <1>10. a \in String /\ b \in String
    <2>1. /\ i + 1 \in Int /\ j - 1 \in Int /\ i + 1 >= 1 /\ j - 1 <= Len(u)
          /\ j \in Int /\ n \in Int /\ j >= 1 /\ n <= Len(u)
      BY <1>1 DEF n
    <2>2. a \in String
      BY <1>1, <2>1, SubstringIs
    <2>3. b \in String
      BY <1>1, <2>1, SubstringIs
    <2>. QED BY <2>2, <2>3
  <1>11. a \o b = w
    <2>1. /\ i + 1 \in 1..(n + 1) /\ j - 1 \in ((i + 1) - 1)..n /\ n \in (j - 1)..n /\ (j - 1) + 1 = j
      BY <1>1, <1>5
    <2>2. SubSeq(u, i + 1, j - 1) \o SubSeq(u, (j - 1) + 1, n) = SubSeq(u, i + 1, n)
      BY <1>1, <2>1, ConcatAdjacentSubSeq DEF String, n
    <2>. QED BY <2>1, <2>2
  <1>12. /\ w \in String /\ Len(w) = n - i /\ n - i > 0
         /\ \A k \in 1..(n - i) : w[k] = u[i + k] /\ w[k] # "/"
    <2>1. /\ w \in String /\ Len(w) = n - (i + 1) + 1
          /\ \A k \in 1..(n - (i + 1) + 1) : w[k] = u[(i + 1) + k - 1]
      <3>1. i + 1 \in Int /\ i + 1 >= 1 /\ i + 1 <= n /\ n <= Len(u) /\ n \in Int
        BY <1>1, <1>5 DEF n
      <3>. QED BY <1>1, <3>1, SubstringIs
    <2>. HIDE DEF w
    <2>2. n - (i + 1) + 1 = n - i /\ n - i > 0
      BY <1>1, <1>5
    <2>3. ASSUME NEW k \in 1..(n - i) PROVE w[k] = u[i + k] /\ w[k] # "/"
      <3>1. (i + 1) + k - 1 = i + k /\ i + k \in (i + 1)..n
        BY <1>1
      <3>. QED BY <1>7, <2>1, <2>2, <3>1
    <2>. QED BY <2>1, <2>2, <2>3
  <1>. HIDE DEF w
  <1>13. w # <<>> /\ DOMAIN w = 1..(n - i)
    BY <1>12 DEF String
  <1>. QED BY <1>4, <1>9, <1>10, <1>11, <1>12, <1>13

\* A name with a plain extension after the last slash is found.
LEMMA SegmentFound ==
  ASSUME Typed, NEW d \in DOMAIN LastSegment, LastSegment[d] = ".",
         IsWord(SubSeq(LastSegment, 1, d - 1)),
         IsWord(SubSeq(LastSegment, d + 1, Len(LastSegment)))
  PROVE  parse_file_info(uri) # {}
  <1>. DEFINE u == uri
              n == Len(u)
              w == LastSegment
  <1>1. u \in String /\ n \in Nat
    BY DEF Typed, String
  <1>2. PICK k \in 1..n : LastSlash(k)
    BY LastSlashExists
  <1>3. w = SubSeq(u, k + 1, n) /\ u[k] = "/"
    BY <1>2, SegmentIs DEF LastSlash
  <1>4. w[d] = "." /\ IsWord(SubSeq(w, 1, d - 1)) /\ IsWord(SubSeq(w, d + 1, Len(w))) /\ d \in DOMAIN w
    OBVIOUS
  <1>. HIDE DEF w
  <1>5. /\ w \in String /\ Len(w) = n - k /\ d \in 1..(n - k)
        /\ \A i \in 1..(n - k) : w[i] = u[k + i]
    <2>1. k + 1 \in Int /\ k + 1 >= 1 /\ n \in Int /\ n <= Len(u) /\ n - (k + 1) + 1 = n - k
      BY <1>1
    <2>2. /\ w \in String /\ Len(w) = (IF k + 1 <= n THEN n - (k + 1) + 1 ELSE 0)
          /\ \A i \in 1..(n - (k + 1) + 1) : w[i] = u[(k + 1) + i - 1]
      BY <1>1, <1>3, <2>1, SubstringIs
    <2>3. Len(w) = n - k
      <3>1. k \in Int /\ n \in Int /\ (k + 1 <= n \/ k = n) /\ n - (k + 1) + 1 = n - k
        BY <1>1
      <3>2. Len(w) = IF k + 1 <= n THEN n - (k + 1) + 1 ELSE 0
        BY <2>2
      <3>. HIDE DEF n
      <3>. QED BY <3>1, <3>2
    <2>4. DOMAIN w = 1..Len(w)
      BY <2>2 DEF String
    <2>5. \A i \in 1..(n - k) : w[i] = u[k + i]
      <3>1. \A i \in 1..(n - k) : (k + 1) + i - 1 = k + i
        BY <1>1
      <3>. QED BY <2>1, <2>2, <3>1
    <2>. QED BY <1>4, <2>2, <2>3, <2>4, <2>5
  <1>. DEFINE j == k + d
  <1>6. j \in 1..n /\ u[j] = "."
    BY <1>1, <1>4, <1>5
  <1>7. /\ 1 <= d - 1 /\ (\A i \in 1..(d - 1) : w[i] \notin NonWord)
        /\ d + 1 <= n - k /\ (\A i \in (d + 1)..(n - k) : w[i] \notin NonWord)
    <2>1. /\ d - 1 \in Int /\ d - 1 <= Len(w) /\ 1 \in Int /\ 1 >= 1
          /\ d + 1 \in Int /\ d + 1 >= 1 /\ Len(w) \in Int /\ Len(w) <= Len(w)
      BY <1>1, <1>5
    <2>2. 1 <= d - 1 /\ \A i \in 1..(d - 1) : w[i] \notin NonWord
      BY <1>4, <1>5, <2>1, WordOf
    <2>3. d + 1 <= Len(w) /\ \A i \in (d + 1)..Len(w) : w[i] \notin NonWord
      BY <1>4, <1>5, <2>1, WordOf
    <2>. QED BY <1>5, <2>2, <2>3
  <1>8. k + 1 <= j - 1 /\ \A i \in (k + 1)..(j - 1) : u[i] \notin NonWord
    <2>1. ASSUME NEW i \in (k + 1)..(j - 1) PROVE u[i] \notin NonWord
      <3>1. i - k \in 1..(d - 1) /\ i - k \in 1..(n - k) /\ k + (i - k) = i
        BY <1>1, <1>5, SMTT(30)
      <3>. QED BY <1>5, <1>7, <3>1
    <2>. QED BY <1>1, <1>5, <1>7, <2>1
  <1>9. j + 1 <= n /\ \A i \in (j + 1)..n : u[i] \notin NonWord
    <2>1. ASSUME NEW i \in (j + 1)..n PROVE u[i] \notin NonWord
      <3>1. i - k \in (d + 1)..(n - k) /\ i - k \in 1..(n - k) /\ k + (i - k) = i
        BY <1>1, <1>5, SMTT(30)
      <3>. QED BY <1>5, <1>7, <3>1
    <2>. QED BY <1>1, <1>5, <1>7, <2>1
  <1>10. IsWord(SubSeq(u, k + 1, j - 1)) /\ IsWord(SubSeq(u, j + 1, n))
    <2>1. /\ k + 1 \in Int /\ k + 1 >= 1 /\ j - 1 \in Int /\ j - 1 <= Len(u)
          /\ j + 1 \in Int /\ j + 1 >= 1 /\ n \in Int /\ n <= Len(u)
      BY <1>1, <1>6
    <2>. HIDE DEF j
    <2>2. IsWord(SubSeq(u, k + 1, j - 1))
      BY <1>1, <1>8, <2>1, WordOf
    <2>3. IsWord(SubSeq(u, j + 1, n))
      BY <1>1, <1>9, <2>1, WordOf
    <2>. QED BY <2>2, <2>3
  <1>11. Found(k, j)
    BY <1>3, <1>6, <1>10 DEF Found
  <1>. HIDE DEF j
  <1>. QED BY <1>6, <1>11, InfoFound

-----------------------------------------------------------------------------
(* A request, while the file system changes *)

\* The places that the handler may open for the URI.
PathOf(info) == path_ \o <<"/">> \o info[1] \o info[2]
Places == {Place(PathOf(info)) : info \in parse_file_info(uri)}

\* What a place is known to have held during the request.
Held(place, content) == place \in Places /\ place \in DOMAIN fs /\ content \in seen[place]

IInv ==
    /\ Typed
    /\ fs = [f \in DOMAIN fs |-> fs[f]] /\ seen = [f \in DOMAIN fs |-> seen[f]]
    /\ \A f \in DOMAIN fs : fs[f] \in seen[f]
    /\ t # Closed => Held(t.place, t.holds)
    /\ resp.code = 200 => Held(resp.place, resp.body)
    /\ resp.code = 404 => \A p \in Places : p \in DOMAIN fs => Absent \in seen[p]

LEMMA SameRequest ==
  ASSUME UNCHANGED request
  PROVE  Places' = Places /\ Typed' = Typed
  <1>1. UNCHANGED <<root_path_, statements, uri>>
    BY DEF request
  <1>2. path_' = path_
    BY <1>1 DEF path_, get_static_file_path, Roots
  <1>3. Places' = Places
    BY <1>1, <1>2 DEF Places, PathOf
  <1>4. Typed' = Typed
    BY <1>1 DEF Typed
  <1>. QED BY <1>3, <1>4

LEMMA InitInv == Init => IInv
  <1>. SUFFICES ASSUME Init PROVE IInv
    OBVIOUS
  <1>1. PICK c \in Cases : /\ root_path_ = c.root_path_ /\ statements = c.statements
                           /\ uri = c.uri /\ fs = c.fs
    BY DEF Init
  <1>2. Typed
    BY <1>1, CaseAssumption DEF Typed, String
  <1>3. fs = [f \in DOMAIN fs |-> fs[f]]
    BY <1>1, CaseAssumption
  <1>4. seen = [f \in DOMAIN fs |-> {fs[f]}]
    BY DEF Init
  <1>5. t = Closed /\ resp.code = 0
    BY DEF Init, NoResponse
  <1>. QED BY <1>2, <1>3, <1>4, <1>5 DEF IInv

\* What the handler opens is a place of the URI, as it is at that moment.
LEMMA OpenIs ==
  ASSUME IInv, NEW info \in parse_file_info(uri)
  PROVE  LET p == Place(PathOf(info))
         IN IF p \in DOMAIN fs
            THEN Open(info).place = p /\ Open(info).holds = fs[p]
            ELSE Open(info).holds = Absent
  BY DEF Open, PathOf, Closed

LEMMA NextInv == IInv /\ [Next]_vars => IInv'
  <1>. SUFFICES ASSUME IInv, [Next]_vars PROVE IInv'
    OBVIOUS
  <1>1. CASE serve_file
    <2>. DEFINE opened == {o \in {Open(i) : i \in parse_file_info(uri)} : o.holds # Absent}
    <2>1. UNCHANGED <<fs, seen, request>> /\ resp = NoResponse
      BY <1>1 DEF serve_file
    <2>2. Places' = Places /\ Typed'
      BY <2>1, SameRequest DEF IInv
    <2>3. CASE opened = {} /\ resp' = Text(404) /\ UNCHANGED t
      <3>1. resp'.code = 404
        BY <2>3 DEF Text
      <3>2. ASSUME NEW p \in Places, p \in DOMAIN fs PROVE Absent \in seen[p]
        <4>1. PICK info \in parse_file_info(uri) : p = Place(PathOf(info))
          BY <3>2 DEF Places
        <4>2. Open(info).holds = fs[p]
          BY <3>2, <4>1, OpenIs
        <4>3. Open(info).holds = Absent
          BY <2>3
        <4>. QED BY <3>2, <4>2, <4>3 DEF IInv
      <3>3. t # Closed => Held(t.place, t.holds)
        BY DEF IInv
      <3>. QED BY <2>1, <2>2, <2>3, <3>1, <3>2, <3>3 DEF IInv, Held
    <2>4. ASSUME NEW o \in opened, t' = o, UNCHANGED resp PROVE IInv'
      <3>1. PICK info \in parse_file_info(uri) : o = Open(info) /\ o.holds # Absent
        OBVIOUS
      <3>2. Held(o.place, o.holds)
        BY <3>1, OpenIs DEF Held, Places, IInv
      <3>3. resp.code = 0
        BY <2>1 DEF NoResponse
      <3>. QED BY <2>1, <2>2, <2>4, <3>2, <3>3 DEF IInv, Held
    <2>. QED BY <1>1, <2>3, <2>4 DEF serve_file
  <1>2. CASE serve_file_read
    <2>1. UNCHANGED <<fs, seen, request, t>> /\ t # Closed
      BY <1>2 DEF serve_file_read
    <2>2. Places' = Places /\ Typed'
      BY <2>1, SameRequest DEF IInv
    <2>3. resp'.code = 200 /\ resp'.place = t.place /\ resp'.body = t.holds
      BY <1>2 DEF serve_file_read
    <2>4. Held(t.place, t.holds)
      BY <2>1 DEF IInv
    <2>. QED BY <2>1, <2>2, <2>3, <2>4 DEF IInv, Held
  <1>3. CASE invalid_method
    <2>1. UNCHANGED <<fs, seen, request, t>> /\ resp'.code = 405
      BY <1>3 DEF invalid_method, Text
    <2>2. Places' = Places /\ Typed'
      BY <2>1, SameRequest DEF IInv
    <2>. QED BY <2>1, <2>2 DEF IInv, Held
  <1>4. ASSUME NEW f \in DOMAIN fs, NEW v, Replace(f, v) PROVE IInv'
    <2>1. /\ UNCHANGED <<request, t, resp>> /\ resp = NoResponse
          /\ fs' = [fs EXCEPT ![f] = v] /\ seen' = [seen EXCEPT ![f] = @ \cup {v}]
      BY <1>4 DEF Replace
    <2>2. Places' = Places /\ Typed'
      BY <2>1, SameRequest DEF IInv
    <2>3. DOMAIN fs' = DOMAIN fs /\ DOMAIN seen = DOMAIN fs
      BY <2>1 DEF IInv
    <2>4. fs' = [g \in DOMAIN fs |-> IF g = f THEN v ELSE fs[g]]
      BY <2>1 DEF IInv
    <2>5. seen' = [g \in DOMAIN fs |-> IF g = f THEN seen[g] \cup {v} ELSE seen[g]]
      BY <2>1, <2>3 DEF IInv
    <2>6. resp'.code = 0
      BY <2>1 DEF NoResponse
    <2>7. \A g \in DOMAIN fs : seen[g] \subseteq seen'[g]
      BY <2>5
    <2>8. t # Closed => Held(t.place, t.holds)
      BY DEF IInv
    <2>9. t' # Closed => Held(t.place, t.holds)'
      BY <2>1, <2>2, <2>3, <2>7, <2>8 DEF Held, Closed
    <2>10. \A g \in DOMAIN fs : fs'[g] \in seen'[g]
      BY <2>4, <2>5 DEF IInv
    <2>. QED BY <2>2, <2>3, <2>4, <2>5, <2>6, <2>9, <2>10 DEF IInv
  <1>5. CASE UNCHANGED vars
    <2>1. UNCHANGED <<fs, seen, request, t, resp>>
      BY <1>5 DEF vars, request
    <2>2. Places' = Places /\ Typed'
      BY <2>1, SameRequest DEF IInv
    <2>. QED BY <2>1, <2>2 DEF IInv, Held
  <1>. QED BY <1>1, <1>2, <1>3, <1>4, <1>5 DEF Next, Answered

LEMMA Inductive == Spec => []IInv
  BY InitInv, NextInv, PTL DEF Spec

\* There is only one place.
LEMMA OnePlace ==
  ASSUME Typed, NEW p \in Places
  PROVE  p = InPath
  <1>1. PICK info \in parse_file_info(uri) : p = Place(PathOf(info))
    BY DEF Places
  <1>2. /\ info[1] \in String /\ info[2] \in String /\ info[1] \o info[2] = LastSegment
        /\ LastSegment # <<>> /\ \A i \in DOMAIN LastSegment : LastSegment[i] # "/"
    BY InfoIsSegment
  <1>3. Place(path_ \o <<"/">> \o info[1] \o info[2]) = InPath
    BY <1>2, PlaceInPath
  <1>. QED BY <1>1, <1>3 DEF PathOf

\* For every URI, every block and every pair of roots, static_file_handler::serve_file
\* answers 200 only with what was, during the request, in the file directly in
\* path_ that has the URI's last name: nothing above that directory and nothing
\* below one of its own directories can be reached.
THEOREM ServedIsInPath == Spec => []ServedFromPath
  <1>1. IInv => ServedFromPath
    <2>. SUFFICES ASSUME IInv, resp.code = 200
                  PROVE  resp.place = InPath /\ resp.body \in seen[InPath]
      BY DEF ServedFromPath
    <2>1. Held(resp.place, resp.body) /\ Typed
      BY DEF IInv
    <2>2. resp.place = InPath
      BY <2>1, OnePlace DEF Held
    <2>. QED BY <2>1, <2>2 DEF Held
  <1>. QED BY <1>1, Inductive, PTL

\* And, with a slash between the roots, it answers 404 only if the file in the last
\* root was absent at some moment of the request, or if its name is not a word with
\* an extension.
THEOREM PresentServed == Spec => []PresentIsServed
  <1>1. IInv => PresentIsServed
    <2>. SUFFICES ASSUME IInv, resp.code = 404, Joined, Meant \in DOMAIN fs, Absent \notin seen[Meant],
                         NEW d \in DOMAIN LastSegment, LastSegment[d] = ".",
                         IsWord(SubSeq(LastSegment, 1, d - 1)),
                         IsWord(SubSeq(LastSegment, d + 1, Len(LastSegment)))
                  PROVE  FALSE
      BY DEF PresentIsServed
    <2>1. Typed
      BY DEF IInv
    <2>2. PICK info \in parse_file_info(uri) : TRUE
      BY <2>1, SegmentFound
    <2>3. Place(PathOf(info)) \in Places
      BY <2>2 DEF Places
    <2>4. Meant \in Places
      BY <2>1, <2>3, OnePlace, InPathIsMeant
    <2>. QED BY <2>4 DEF IInv
  <1>. QED BY <1>1, Inductive, PTL
=============================================================================
