--------------------------- MODULE StartupProofs ---------------------------
(* main() on every file, of any length and over any set of characters: the   *)
(* tree of blocks that Parse builds, what ParseStatements makes of it, the   *)
(* port, and what becomes of the blocks when they are printed and parsed.    *)
EXTENDS ConfigRoundTrip, Lemmas, FiniteSetTheorems

Block == Seq(Statement)

\* A block on the stack is older than the ones above it, so that no block is
\* open twice.
Increasing ==
    \A i, j \in 1..Len(config_stack) : i < j => config_stack[i] < config_stack[j]

\* The statement to which a word was just added has no block yet, and every
\* child_block_ is one of the blocks, other than the first.
FreshStatement ==
    last_token_type = "NORMAL" => blocks[top][Len(blocks[top])].child = 0

ChildrenExist ==
    \A p \in 1..Len(blocks) : \A i \in 1..Len(blocks[p]) :
        blocks[p][i].child \in 0..Len(blocks) /\ blocks[p][i].child # 1

IInv ==
    /\ TypeOK
    /\ StackIsOpenPath
    /\ Increasing
    /\ FreshStatement
    /\ ChildrenExist
    /\ NoBlockLost

-----------------------------------------------------------------------------
(* What the driver does to the blocks *)

\* b can follow a as the statements of the block that is open: the children are
\* kept, and what is new has none.
Grows(a, b) ==
    /\ a \in Block /\ b \in Block /\ b # <<>> /\ Len(a) <= Len(b)
    /\ \A i \in 1..Len(b) : b[i].child = IF i \in 1..Len(a) THEN a[i].child ELSE 0

LEMMA StatementFields ==
  ASSUME NEW s \in Statement
  PROVE  s.tokens \in Seq(Token) /\ s.child \in Nat
  BY DEF Statement

\* A word is added to the last statement of a block...
LEMMA WordAdded ==
  ASSUME NEW a \in Block, a # <<>>, NEW token \in Token
  PROVE  LET b == [a EXCEPT ![Len(a)].tokens = Append(@, token)]
         IN Grows(a, b) /\ Len(b) = Len(a)
  <1>. DEFINE n == Len(a)
              s == a[n]
              w == Append(s.tokens, token)
              r == [s EXCEPT !.tokens = w]
              b == [a EXCEPT ![n] = r]
  <1>1. n \in Nat /\ n >= 1 /\ a \in [1..n -> Statement] /\ DOMAIN a = 1..n
    BY DEF Block
  <1>2. s \in Statement
    BY <1>1
  <1>3. w \in Seq(Token)
    BY <1>2, StatementFields
  <1>. HIDE DEF s, w
  <1>4. r \in Statement /\ r.child = s.child
    BY <1>2, <1>3 DEF Statement
  <1>. HIDE DEF r
  <1>5. b \in [1..n -> Statement]
    BY <1>1, <1>4
  <1>6. b \in Block /\ Len(b) = n
    BY <1>1, <1>5 DEF Block
  <1>7. \A i \in 1..n : b[i].child = a[i].child
    BY <1>1, <1>4 DEF s
  <1>. QED BY <1>1, <1>6, <1>7 DEF Grows, Block, r, w, s

\* ...or a new statement is begun with it.
LEMMA StatementBegun ==
  ASSUME NEW a \in Block, NEW token \in Token
  PROVE  LET s == Append(a, [tokens |-> <<>>, child |-> 0])
             b == [s EXCEPT ![Len(s)].tokens = Append(@, token)]
         IN Grows(a, b) /\ b[Len(b)].child = 0
  <1>. DEFINE none == <<>>
              e == [tokens |-> none, child |-> 0]
              s == Append(a, e)
              b == [s EXCEPT ![Len(s)].tokens = Append(@, token)]
  <1>1. none \in Seq(Token) /\ 0 \in Nat
    OBVIOUS
  <1>2. e \in Statement /\ e.child = 0
    <2>. HIDE DEF none
    <2>. QED BY <1>1 DEF Statement
  <1>. HIDE DEF e
  <1>3. Len(a) \in Nat /\ Len(s) = Len(a) + 1
    BY DEF Block
  <1>4. s \in Block /\ s # <<>> /\ s[Len(a) + 1] = e
    BY <1>2 DEF Block
  <1>5. \A i \in 1..Len(a) : s[i] = a[i]
    BY <1>2 DEF Block
  <1>. HIDE DEF s
  <1>6. Grows(s, b) /\ Len(b) = Len(s)
    BY <1>4, WordAdded
  <1>. HIDE DEF b
  <1>7. \A i \in 1..Len(b) : b[i].child = IF i \in 1..Len(a) THEN a[i].child ELSE 0
    <2>. SUFFICES ASSUME NEW i \in 1..Len(b) PROVE b[i].child = IF i \in 1..Len(a) THEN a[i].child ELSE 0
      OBVIOUS
    <2>1. i \in 1..Len(s) /\ b[i].child = s[i].child
      BY <1>6 DEF Grows
    <2>2. CASE i \in 1..Len(a)
      BY <1>5, <2>1, <2>2
    <2>3. CASE i \notin 1..Len(a)
      BY <1>2, <1>3, <1>4, <2>1, <2>3
    <2>. QED BY <2>2, <2>3
  <1>8. Grows(a, b)
    BY <1>3, <1>6, <1>7 DEF Grows
  <1>9. b[Len(b)].child = 0
    BY <1>3, <1>6, <1>7
  <1>. QED BY <1>8, <1>9 DEF b, s, e, none

-----------------------------------------------------------------------------
LEMMA ParserTypes ==
  ASSUME TypeOK, StackIsOpenPath
  PROVE  /\ Len(config_stack) \in Nat /\ Len(config_stack) >= 1 /\ config_stack \in Seq(Nat)
         /\ DOMAIN config_stack = 1..Len(config_stack)
         /\ blocks \in Seq(Block) /\ Len(blocks) \in Nat /\ DOMAIN blocks = 1..Len(blocks)
         /\ blocks \in [1..Len(blocks) -> Block]
         /\ top \in 1..Len(blocks) /\ blocks[top] \in Block /\ 1 \in 1..Len(blocks)
         /\ \A i \in 1..Len(config_stack) : config_stack[i] \in 1..Len(blocks)
  <1>1. /\ config_stack \in Seq(Nat) /\ config_stack # <<>> /\ blocks \in Seq(Block)
        /\ config_stack[1] = 1
    BY DEF TypeOK, StackIsOpenPath, Block
  <1>2. /\ Len(config_stack) \in Nat /\ Len(config_stack) >= 1
        /\ DOMAIN config_stack = 1..Len(config_stack)
    BY <1>1
  <1>3. /\ Len(blocks) \in Nat /\ DOMAIN blocks = 1..Len(blocks)
        /\ blocks \in [1..Len(blocks) -> Block]
    BY <1>1
  <1>4. \A i \in 1..Len(config_stack) : config_stack[i] \in 1..Len(blocks)
    BY <1>2, <1>3 DEF StackIsOpenPath
  <1>5. top \in 1..Len(blocks) /\ 1 \in 1..Len(blocks)
    <2>1. Len(config_stack) \in 1..Len(config_stack) /\ 1 \in 1..Len(config_stack)
      BY <1>2
    <2>. QED BY <1>1, <1>4, <2>1 DEF top
  <1>. QED BY <1>1, <1>2, <1>3, <1>4, <1>5

\* The children of statements and the stack that the invariant is about depend
\* on nothing else of the state.
Tree == StackIsOpenPath /\ Increasing /\ FreshStatement /\ ChildrenExist /\ NoBlockLost

\* Owners, as a function of the blocks.
Children(bs, b) == UNION {{<<p, i>> : i \in {j \in DOMAIN bs[p] : bs[p][j].child = b}} :
                            p \in DOMAIN bs}

LEMMA ChildIn ==
  ASSUME NEW n \in Nat, NEW bs \in [1..n -> Block], NEW b,
         NEW p \in 1..n, NEW i \in 1..Len(bs[p]), bs[p][i].child = b
  PROVE  <<p, i>> \in Children(bs, b)
  <1>1. DOMAIN bs = 1..n /\ DOMAIN bs[p] = 1..Len(bs[p])
    BY DEF Block
  <1>. QED BY <1>1 DEF Children

LEMMA ChildOf ==
  ASSUME NEW n \in Nat, NEW bs \in [1..n -> Block], NEW b, NEW x \in Children(bs, b)
  PROVE  \E p \in 1..n : \E i \in 1..Len(bs[p]) : x = <<p, i>> /\ bs[p][i].child = b
  <1>1. DOMAIN bs = 1..n /\ \A p \in 1..n : DOMAIN bs[p] = 1..Len(bs[p])
    BY DEF Block
  <1>2. PICK p \in DOMAIN bs : x \in {<<p, i>> : i \in {j \in DOMAIN bs[p] : bs[p][j].child = b}}
    BY DEF Children
  <1>3. PICK i \in DOMAIN bs[p] : x = <<p, i>> /\ bs[p][i].child = b
    BY <1>2
  <1>. QED BY <1>1, <1>3

LEMMA ChildrenWithin ==
  ASSUME NEW n \in Nat, NEW k \in Nat, NEW bs \in [1..n -> Block], NEW cs \in [1..k -> Block], NEW b,
         \A p \in 1..n : \A i \in 1..Len(bs[p]) :
            bs[p][i].child = b => p \in 1..k /\ i \in 1..Len(cs[p]) /\ cs[p][i].child = b
  PROVE  Children(bs, b) \subseteq Children(cs, b)
  <1>. SUFFICES ASSUME NEW x \in Children(bs, b) PROVE x \in Children(cs, b)
    OBVIOUS
  <1>1. PICK p \in 1..n : \E i \in 1..Len(bs[p]) : x = <<p, i>> /\ bs[p][i].child = b
    BY ChildOf
  <1>2. PICK i \in 1..Len(bs[p]) : x = <<p, i>> /\ bs[p][i].child = b
    BY <1>1
  <1>. QED BY <1>2, ChildIn

\* b is the child of the same statements in the n blocks bs and in the k blocks cs.
SameStatements(n, k, bs, cs, b) ==
    /\ \A p \in 1..n : p \in 1..k
    /\ \A p \in 1..k : \A i \in 1..Len(cs[p]) : p \in 1..n
    /\ \A p \in 1..n : \A i : (i \in 1..Len(cs[p]) /\ cs[p][i].child = b) <=>
                             (i \in 1..Len(bs[p]) /\ bs[p][i].child = b)

LEMMA ChildrenSame ==
  ASSUME NEW n \in Nat, NEW k \in Nat, NEW bs \in [1..n -> Block], NEW cs \in [1..k -> Block], NEW b,
         SameStatements(n, k, bs, cs, b)
  PROVE  Children(cs, b) = Children(bs, b)
  <1>1. \A p \in 1..k : \A i \in 1..Len(cs[p]) :
          cs[p][i].child = b => p \in 1..n /\ i \in 1..Len(bs[p]) /\ bs[p][i].child = b
    BY DEF SameStatements
  <1>2. \A p \in 1..n : \A i \in 1..Len(bs[p]) :
          bs[p][i].child = b => p \in 1..k /\ i \in 1..Len(cs[p]) /\ cs[p][i].child = b
    BY DEF SameStatements
  <1>3. Children(cs, b) \subseteq Children(bs, b)
    BY <1>1, ChildrenWithin, SMTT(30)
  <1>4. Children(bs, b) \subseteq Children(cs, b)
    BY <1>2, ChildrenWithin
  <1>. QED BY <1>3, <1>4

LEMMA SameTree ==
  ASSUME Tree, UNCHANGED <<last_token_type, config_stack, blocks>>,
         result' # "running" \/ UNCHANGED <<start_block, result>>
  PROVE  Tree'
  <1>1. StackIsOpenPath'
    BY DEF Tree, StackIsOpenPath, top
  <1>2. Increasing' /\ FreshStatement' /\ ChildrenExist'
    BY DEF Tree, Increasing, FreshStatement, ChildrenExist, top
  <1>3. NoBlockLost'
    <2>1. \A b : Owners(b)' = Owners(b)
      BY DEF Owners
    <2>. QED BY <2>1 DEF Tree, NoBlockLost
  <1>. QED BY <1>1, <1>2, <1>3 DEF Tree

\* A block that grows keeps its children.
LEMMA ChildrenKept ==
  ASSUME NEW n \in Nat, NEW bs \in [1..n -> Block], NEW cs \in [1..n -> Block],
         NEW t \in 1..n, Grows(bs[t], cs[t]), \A p \in 1..n : p # t => cs[p] = bs[p],
         NEW b \in Nat, b # 0
  PROVE  Children(cs, b) = Children(bs, b)
  <1>. DEFINE s == cs[t]
  <1>1. cs[t] = s
    OBVIOUS
  <1>2. ASSUME NEW p \in 1..n, NEW i
        PROVE  (i \in 1..Len(cs[p]) /\ cs[p][i].child = b) <=> (i \in 1..Len(bs[p]) /\ bs[p][i].child = b)
    <2>1. CASE p # t
      BY <1>1, <2>1
    <2>2. CASE p = t
      <3>1. Len(bs[t]) \in Nat /\ Len(s) \in Nat /\ Len(bs[t]) <= Len(s)
        BY DEF Grows, Block
      <3>2. 1..Len(bs[t]) \subseteq 1..Len(s)
        BY <3>1
      <3>3. \A k \in 1..Len(s) : s[k].child = IF k \in 1..Len(bs[t]) THEN bs[t][k].child ELSE 0
        BY DEF Grows
      <3>. QED BY <1>1, <2>2, <3>2, <3>3
    <2>. QED BY <2>1, <2>2
  <1>3. Children(cs, b) \subseteq Children(bs, b)
    BY <1>2, ChildrenWithin, SMTT(30)
  <1>4. Children(bs, b) \subseteq Children(cs, b)
    BY <1>2, ChildrenWithin, SMTT(30)
  <1>. QED BY <1>3, <1>4

\* A word is added to the block that is open.
LEMMA BlockGrows ==
  ASSUME TypeOK, Tree, NEW s, Grows(blocks[top], s), s[Len(s)].child = 0,
         blocks' = [blocks EXCEPT ![top] = s], last_token_type' = "NORMAL",
         UNCHANGED <<start_block, config_stack, result>>
  PROVE  Tree' /\ blocks' \in Seq(Seq(Statement))
  <1>. DEFINE n == Len(blocks)
              k == Len(config_stack)
  <1>1. /\ k \in Nat /\ k >= 1 /\ DOMAIN config_stack = 1..k /\ config_stack \in Seq(Nat)
        /\ n \in Nat /\ blocks \in [1..n -> Block] /\ DOMAIN blocks = 1..n /\ top \in 1..n
        /\ \A i \in 1..k : config_stack[i] \in 1..n
    BY ParserTypes DEF Tree
  <1>2. s \in Block /\ s # <<>> /\ Len(s) \in Nat
    BY DEF Grows, Block
  <1>3. /\ blocks' \in [1..n -> Block] /\ DOMAIN blocks' = 1..n /\ blocks'[top] = s
        /\ \A p \in 1..n : p # top => blocks'[p] = blocks[p]
    BY <1>1, <1>2
  <1>4. blocks' \in Seq(Block) /\ Len(blocks') = n
    BY <1>1, <1>3
  <1>5. top' = top /\ config_stack' = config_stack
    BY DEF top
  <1>6. \A i \in 1..(k - 1) : config_stack[i] # top
    <2>. SUFFICES ASSUME NEW i \in 1..(k - 1) PROVE config_stack[i] # config_stack[k]
      BY DEF top
    <2>1. i \in 1..k /\ k \in 1..k /\ i < k
      BY <1>1
    <2>2. config_stack[i] \in Nat /\ config_stack[k] \in Nat /\ config_stack[i] < config_stack[k]
      BY <1>1, <2>1 DEF Tree, Increasing
    <2>. QED BY <2>2
  <1>7. StackIsOpenPath'
    <2>1. config_stack' # <<>> /\ config_stack'[1] = 1
      BY DEF Tree, StackIsOpenPath
    <2>2. result' = "running" => start_block' = Len(config_stack') - 1
      BY DEF Tree, StackIsOpenPath
    <2>3. \A i \in DOMAIN config_stack' : config_stack'[i] \in DOMAIN blocks'
      BY <1>1, <1>3, <1>5
    <2>4. ASSUME NEW i \in 1..(k - 1)
          PROVE  LET a == blocks'[config_stack[i]]
                 IN a # <<>> /\ a[Len(a)].child = config_stack[i + 1]
      <3>1. config_stack[i] \in 1..n
        BY <1>1
      <3>2. blocks'[config_stack[i]] = blocks[config_stack[i]]
        BY <1>3, <1>6, <3>1
      <3>. QED BY <3>2 DEF Tree, StackIsOpenPath
    <2>. QED BY <1>2, <1>3, <1>5, <2>1, <2>2, <2>3, <2>4 DEF StackIsOpenPath
  <1>8. Increasing'
    BY <1>5 DEF Tree, Increasing
  <1>9. FreshStatement'
    BY <1>3, <1>5 DEF FreshStatement
  <1>10. ChildrenExist'
    <2>. SUFFICES ASSUME NEW p \in 1..n, NEW i \in 1..Len(blocks'[p])
                  PROVE  blocks'[p][i].child \in 0..n /\ blocks'[p][i].child # 1
      BY <1>4 DEF ChildrenExist
    <2>1. CASE p # top
      BY <1>3, <2>1 DEF Tree, ChildrenExist
    <2>2. CASE p = top
      <3>1. s[i].child = IF i \in 1..Len(blocks[top]) THEN blocks[top][i].child ELSE 0
        BY <1>3, <2>2 DEF Grows
      <3>2. CASE i \in 1..Len(blocks[top])
        BY <1>1, <1>3, <2>2, <3>1, <3>2 DEF Tree, ChildrenExist
      <3>3. CASE i \notin 1..Len(blocks[top])
        BY <1>1, <1>3, <2>2, <3>1, <3>3
      <3>. QED BY <3>2, <3>3
    <2>. QED BY <2>1, <2>2
  <1>11. NoBlockLost'
    <2>. SUFFICES ASSUME NEW b \in 2..n
                  PROVE  Cardinality(Owners(b)') = 1 /\ \A o \in Owners(b)' : o[1] < b
      BY <1>4 DEF NoBlockLost
    <2>1. b \in Nat /\ b # 0
      BY <1>1
    <2>2. Owners(b) = Children(blocks, b) /\ Owners(b)' = Children(blocks', b)
      BY DEF Owners, Children
    <2>3. Children(blocks', b) = Children(blocks, b)
      <3>. DEFINE cs == blocks'
      <3>1. /\ cs \in [1..n -> Block] /\ Grows(blocks[top], cs[top])
            /\ \A p \in 1..n : p # top => cs[p] = blocks[p]
        BY <1>3
      <3>2. n \in Nat /\ blocks \in [1..n -> Block] /\ top \in 1..n
        BY <1>1
      <3>. HIDE DEF n, cs
      <3>3. Children(cs, b) = Children(blocks, b)
        BY <2>1, <3>1, <3>2, ChildrenKept, ZenonT(60)
      <3>. QED BY <3>3 DEF cs
    <2>. QED BY <2>2, <2>3 DEF Tree, NoBlockLost
  <1>. QED BY <1>4, <1>7, <1>8, <1>9, <1>10, <1>11 DEF Tree, Block

\* What TypeOK says of the parser's variables.
ParserTypeOK ==
    /\ last_token_type \in {"START", "NORMAL", "STATEMENT_END", "START_BLOCK", "END_BLOCK"}
    /\ start_block \in Int
    /\ config_stack \in Seq(Nat)
    /\ blocks \in Seq(Seq(Statement))
    /\ result \in {"running", "true", "false"}

LEMMA NormalStep ==
  ASSUME TypeOK, Tree, NEW token \in Token, Normal(token)
  PROVE  ParserTypeOK' /\ Tree'
  <1>. DEFINE a == blocks[top]
              e == Append(a, [tokens |-> <<>>, child |-> 0])
              more == [a EXCEPT ![Len(a)].tokens = Append(@, token)]
              new == [e EXCEPT ![Len(e)].tokens = Append(@, token)]
  <1>1. a \in Block
    BY ParserTypes DEF Tree
  <1>2. last_token_type' = "NORMAL" /\ UNCHANGED <<start_block, config_stack, result>>
    BY DEF Normal
  <1>3. Tree' /\ blocks' \in Seq(Seq(Statement))
    <2>1. CASE last_token_type = "NORMAL"
      <3>1. blocks' = [blocks EXCEPT ![top] = more]
        BY <2>1 DEF Normal
      <3>2. a # <<>> /\ a[Len(a)].child = 0
        BY <2>1 DEF Tree, StackIsOpenPath, FreshStatement
      <3>3. Grows(a, more) /\ Len(more) = Len(a)
        BY <1>1, <3>2, WordAdded
      <3>. HIDE DEF more
      <3>4. more[Len(more)].child = 0
        <4>1. Len(a) \in Nat /\ Len(a) >= 1
          BY <1>1, <3>2 DEF Block
        <4>. QED BY <3>2, <3>3, <4>1 DEF Grows
      <3>. QED BY <1>2, <3>1, <3>3, <3>4, BlockGrows
    <2>2. CASE last_token_type # "NORMAL"
      <3>1. blocks' = [blocks EXCEPT ![top] = new]
        BY <2>2 DEF Normal
      <3>2. Grows(a, new) /\ new[Len(new)].child = 0
        BY <1>1, StatementBegun
      <3>. HIDE DEF new
      <3>. QED BY <1>2, <3>1, <3>2, BlockGrows
    <2>. QED BY <2>1, <2>2
  <1>. QED BY <1>2, <1>3 DEF ParserTypeOK, TypeOK

LEMMA RejectStep ==
  ASSUME TypeOK, Tree, Reject
  PROVE  ParserTypeOK' /\ Tree'
  <1>1. result' = "false" /\ UNCHANGED <<last_token_type, start_block, config_stack, blocks>>
    BY DEF Reject
  <1>2. Tree'
    BY <1>1, SameTree
  <1>. QED BY <1>1, <1>2 DEF ParserTypeOK, TypeOK

LEMMA EofStep ==
  ASSUME TypeOK, Tree, Eof
  PROVE  ParserTypeOK' /\ Tree'
  <1>1. /\ result' \in {"true", "false"}
        /\ UNCHANGED <<last_token_type, start_block, config_stack, blocks>>
    BY DEF Eof
  <1>2. Tree'
    BY <1>1, SameTree
  <1>. QED BY <1>1, <1>2 DEF ParserTypeOK, TypeOK

LEMMA StatementEndStep ==
  ASSUME TypeOK, Tree, StatementEnd
  PROVE  ParserTypeOK' /\ Tree'
  <1>1. CASE Reject
    BY <1>1, RejectStep
  <1>2. CASE last_token_type' = "STATEMENT_END" /\ UNCHANGED <<start_block, config_stack, blocks, result>>
    <2>1. StackIsOpenPath' /\ Increasing' /\ FreshStatement' /\ ChildrenExist'
      BY <1>2 DEF Tree, StackIsOpenPath, Increasing, FreshStatement, ChildrenExist, top
    <2>2. NoBlockLost'
      <3>1. \A b : Owners(b)' = Owners(b)
        BY <1>2 DEF Owners
      <3>. QED BY <1>2, <3>1 DEF Tree, NoBlockLost
    <2>. QED BY <1>2, <2>1, <2>2 DEF ParserTypeOK, TypeOK, Tree
  <1>. QED BY <1>1, <1>2 DEF StatementEnd

\* Closing a block leaves the path to the block around it open.
LEMMA EndBlockStep ==
  ASSUME TypeOK, Tree, result = "running", EndBlock
  PROVE  ParserTypeOK' /\ Tree'
  <1>. DEFINE k == Len(config_stack)
  <1>1. CASE Reject
    BY <1>1, RejectStep
  <1>2. CASE /\ start_block' = start_block - 1 /\ result' = "false"
             /\ UNCHANGED <<config_stack, last_token_type, blocks>>
    <2>1. Tree'
      BY <1>2, SameTree
    <2>. QED BY <1>2, <2>1 DEF ParserTypeOK, TypeOK
  <1>3. CASE /\ start_block' = start_block - 1 /\ start_block > 0 /\ config_stack' = popped
             /\ last_token_type' = "END_BLOCK" /\ UNCHANGED <<result, blocks>>
    <2>1. /\ k \in Nat /\ config_stack \in Seq(Nat) /\ DOMAIN config_stack = 1..k
          /\ \A i \in 1..k : config_stack[i] \in 1..Len(blocks)
          /\ DOMAIN blocks = 1..Len(blocks)
      BY ParserTypes DEF Tree
    <2>2. start_block = k - 1 /\ k >= 2
      BY <1>3, <2>1 DEF Tree, StackIsOpenPath
    <2>3. /\ config_stack' \in Seq(Nat) /\ Len(config_stack') = k - 1
          /\ \A i \in 1..(k - 1) : config_stack'[i] = config_stack[i]
      BY <1>3, <2>1, <2>2, SubSeqProperties DEF popped
    <2>4. DOMAIN config_stack' = 1..(k - 1)
      BY <2>3
    <2>5. StackIsOpenPath'
      <3>1. config_stack' # <<>> /\ config_stack'[1] = 1
        BY <2>1, <2>2, <2>3 DEF Tree, StackIsOpenPath
      <3>2. start_block' = Len(config_stack') - 1
        BY <1>3, <2>2, <2>3
      <3>3. \A i \in DOMAIN config_stack' : config_stack'[i] \in DOMAIN blocks'
        <4>1. ASSUME NEW i \in 1..(k - 1) PROVE config_stack'[i] \in 1..Len(blocks)
          <5>1. i \in 1..k /\ config_stack'[i] = config_stack[i]
            BY <2>1, <2>3
          <5>. QED BY <2>1, <5>1
        <4>2. DOMAIN blocks' = 1..Len(blocks)
          BY <1>3, <2>1
        <4>. QED BY <2>4, <4>1, <4>2
      <3>4. ASSUME NEW i \in 1..(Len(config_stack') - 1)
            PROVE  LET a == blocks'[config_stack'[i]]
                   IN a # <<>> /\ a[Len(a)].child = config_stack'[i + 1]
        <4>1. i \in 1..(k - 1) /\ i + 1 \in 1..(k - 1)
          BY <2>1, <2>3
        <4>2. config_stack'[i] = config_stack[i] /\ config_stack'[i + 1] = config_stack[i + 1]
          BY <2>3, <4>1
        <4>. QED BY <1>3, <4>1, <4>2 DEF Tree, StackIsOpenPath
      <3>. QED BY <1>3, <3>1, <3>2, <3>3, <3>4 DEF StackIsOpenPath
    <2>6. Increasing'
      <3>1. \A i \in 1..(k - 1) : i \in 1..k
        BY <2>1
      <3>. QED BY <2>3, <3>1 DEF Tree, Increasing
    <2>7. FreshStatement' /\ ChildrenExist'
      BY <1>3 DEF Tree, FreshStatement, ChildrenExist
    <2>8. NoBlockLost'
      <3>1. \A b : Owners(b)' = Owners(b)
        BY <1>3 DEF Owners
      <3>. QED BY <1>3, <3>1 DEF Tree, NoBlockLost
    <2>. QED BY <1>3, <2>3, <2>5, <2>6, <2>7, <2>8 DEF ParserTypeOK, TypeOK, Tree
  <1>. QED BY <1>1, <1>2, <1>3 DEF EndBlock

\* A child_block_ is given to the last statement of a block.
LEMMA ChildGiven ==
  ASSUME NEW a \in Block, a # <<>>, NEW c \in Nat
  PROVE  LET s == [a EXCEPT ![Len(a)].child = c]
         IN /\ s \in Block /\ Len(s) = Len(a) /\ s # <<>> /\ s[Len(s)].child = c
            /\ \A i \in 1..Len(a) : i # Len(a) => s[i] = a[i]
  <1>. DEFINE n == Len(a)
              w == a[n]
              r == [w EXCEPT !.child = c]
              b == [a EXCEPT ![n] = r]
  <1>1. n \in Nat /\ n >= 1 /\ a \in [1..n -> Statement] /\ DOMAIN a = 1..n
    BY DEF Block
  <1>2. w \in Statement
    BY <1>1
  <1>. HIDE DEF w
  <1>3. r \in Statement /\ r.child = c
    BY <1>2 DEF Statement
  <1>. HIDE DEF r
  <1>4. b \in [1..n -> Statement]
    BY <1>1, <1>3
  <1>5. b \in Block /\ Len(b) = n /\ b # <<>>
    BY <1>1, <1>4 DEF Block
  <1>6. b[n] = r /\ \A i \in 1..n : i # n => b[i] = a[i]
    <2>1. n \in 1..n
      BY <1>1
    <2>. HIDE DEF n
    <2>. QED BY <1>1, <2>1
  <1>. QED BY <1>1, <1>3, <1>5, <1>6 DEF r, w

\* cs is bs with a new block n + 1, the child of statement m of block t.
Added(n, bs, cs, t, m) ==
    /\ cs \in [1..(n + 1) -> Block] /\ cs[n + 1] = <<>>
    /\ m \in 1..Len(bs[t]) /\ Len(cs[t]) = Len(bs[t])
    /\ \A p \in 1..n : \A i \in 1..Len(bs[p]) : bs[p][i].child \in 0..n
    /\ bs[t][m].child = 0 /\ cs[t][m].child = n + 1
    /\ \A i \in 1..Len(bs[t]) : i # m => cs[t][i] = bs[t][i]
    /\ \A p \in 1..n : p # t => cs[p] = bs[p]

\* The blocks after the first have the same owners.
SameOwners(n, bs, cs) == \A b \in 2..n : Children(cs, b) = Children(bs, b)

\* Statement m of block t owns the new one.
OneOwner(n, cs, t, m) == Children(cs, n + 1) = {<<t, m>>}

LEMMA BlockAdded ==
  ASSUME NEW n \in Nat, NEW bs \in [1..n -> Block], NEW cs, NEW t \in 1..n, NEW m,
         Added(n, bs, cs, t, m)
  PROVE  SameOwners(n, bs, cs) /\ OneOwner(n, cs, t, m)
  <1>. DEFINE N == n + 1
  <1>0. N \in Nat /\ N \in 1..N /\ 1..n \subseteq 1..N /\ cs \in [1..N -> Block]
    BY DEF Added
  <1>1. ASSUME NEW p \in 1..N, NEW i \in 1..Len(cs[p]) PROVE p \in 1..n
    <2>1. p \in 1..n \/ p = N
      OBVIOUS
    <2>2. 1..Len(cs[N]) = {}
      BY DEF Added
    <2>. QED BY <2>1, <2>2
  <1>2. ASSUME NEW b \in 2..n, NEW p \in 1..n, NEW i
        PROVE  (i \in 1..Len(cs[p]) /\ cs[p][i].child = b) <=> (i \in 1..Len(bs[p]) /\ bs[p][i].child = b)
    <2>1. CASE p # t
      BY <2>1 DEF Added
    <2>2. CASE p = t /\ i # m
      BY <2>2 DEF Added
    <2>3. CASE p = t /\ i = m
      BY <2>3 DEF Added
    <2>. QED BY <2>1, <2>2, <2>3
  <1>3. ASSUME NEW b \in 2..n PROVE Children(cs, b) = Children(bs, b)
    <2>1. \A p \in 1..n : p \in 1..N
      BY <1>0
    <2>2. \A p \in 1..N : \A i \in 1..Len(cs[p]) : p \in 1..n
      BY <1>1
    <2>3. \A p \in 1..n : \A i : (i \in 1..Len(cs[p]) /\ cs[p][i].child = b) <=>
                               (i \in 1..Len(bs[p]) /\ bs[p][i].child = b)
      BY <1>2
    <2>4. SameStatements(n, N, bs, cs, b)
      BY <2>1, <2>2, <2>3 DEF SameStatements
    <2>. HIDE DEF N
    <2>. QED BY <1>0, <2>4, ChildrenSame
  <1>5. <<t, m>> \in Children(cs, N)
    <2>1. t \in 1..N /\ m \in 1..Len(cs[t]) /\ cs[t][m].child = N
      BY <1>0 DEF Added
    <2>. HIDE DEF N
    <2>. QED BY <1>0, <2>1, ChildIn
  <1>6. ASSUME NEW x \in Children(cs, N) PROVE x = <<t, m>>
    <2>0. PICK p \in 1..N : \E i \in 1..Len(cs[p]) : x = <<p, i>> /\ cs[p][i].child = N
      <3>. HIDE DEF N
      <3>. QED BY <1>0, ChildOf, SMTT(60)
    <2>1. PICK i \in 1..Len(cs[p]) : x = <<p, i>> /\ cs[p][i].child = N
      BY <2>0
    <2>2. p \in 1..n
      BY <1>1
    <2>3. ASSUME p # t PROVE FALSE
      <3>1. i \in 1..Len(bs[p]) /\ bs[p][i].child = n + 1
        BY <2>1, <2>2, <2>3 DEF Added
      <3>2. bs[p][i].child \in 0..n
        BY <2>2, <3>1 DEF Added
      <3>. QED BY <3>1, <3>2
    <2>4. ASSUME p = t, i # m PROVE FALSE
      <3>1. i \in 1..Len(bs[t]) /\ bs[t][i].child = n + 1
        BY <2>1, <2>4 DEF Added
      <3>2. bs[t][i].child \in 0..n
        BY <3>1 DEF Added
      <3>. QED BY <3>1, <3>2
    <2>. QED BY <2>1, <2>3, <2>4
  <1>7. Children(cs, N) = {<<t, m>>}
    BY <1>5, <1>6
  <1>. QED BY <1>3, <1>7 DEF SameOwners, OneOwner

LEMMA StartBlockStep ==
  ASSUME TypeOK, Tree, result = "running", StartBlock
  PROVE  ParserTypeOK' /\ Tree'
  <1>. DEFINE n == Len(blocks)
              k == Len(config_stack)
              a == blocks[top]
              m == Len(a)
              s == [a EXCEPT ![m].child = n + 1]
              mid == [blocks EXCEPT ![top] = s]
              empty == <<>>
  <1>1. CASE Reject
    BY <1>1, RejectStep
  <1>2. CASE ~Reject
    <2>1. /\ last_token_type = "NORMAL" /\ start_block' = start_block + 1
          /\ blocks' = Append(mid, empty) /\ config_stack' = Append(config_stack, n + 1)
          /\ last_token_type' = "START_BLOCK" /\ result' = result
      BY <1>2 DEF StartBlock
    <2>2. /\ k \in Nat /\ k >= 1 /\ DOMAIN config_stack = 1..k /\ config_stack \in Seq(Nat)
          /\ n \in Nat /\ blocks \in [1..n -> Block] /\ DOMAIN blocks = 1..n
          /\ top \in 1..n /\ a \in Block /\ 1 \in 1..n
          /\ \A i \in 1..k : config_stack[i] \in 1..n
      BY ParserTypes DEF Tree
    <2>3. a # <<>> /\ a[m].child = 0
      BY <2>1 DEF Tree, StackIsOpenPath, FreshStatement
    <2>4. m \in Nat /\ m >= 1 /\ m \in 1..m
      BY <2>2, <2>3 DEF Block
    <2>5. n + 1 \in Nat /\ k + 1 \in Nat /\ 1..n \subseteq 1..(n + 1) /\ n + 1 \in 1..(n + 1)
      BY <2>2
    <2>6. /\ s \in Block /\ Len(s) = m /\ s # <<>> /\ s[m].child = n + 1
          /\ \A i \in 1..m : i # m => s[i] = a[i]
      <3>. DEFINE c == n + 1
      <3>1. c \in Nat
        BY <2>5
      <3>. HIDE DEF a, n, c
      <3>2. LET z == [a EXCEPT ![Len(a)].child = c]
            IN /\ z \in Block /\ Len(z) = Len(a) /\ z # <<>> /\ z[Len(z)].child = c
               /\ \A i \in 1..Len(a) : i # Len(a) => z[i] = a[i]
        BY <2>2, <2>3, <3>1, ChildGiven
      <3>. QED BY <3>2 DEF c
    <2>. HIDE DEF s
    <2>7. /\ mid \in [1..n -> Block] /\ mid[top] = s
          /\ \A p \in 1..n : p # top => mid[p] = blocks[p]
      BY <2>2, <2>6
    <2>8. empty \in Block
      BY DEF Block
    <2>9. mid \in Seq(Block) /\ Len(mid) = n
      BY <2>2, <2>7, SMTT(30)
    <2>. HIDE DEF mid, empty, n, k, m, a
    <2>10. /\ blocks' \in Seq(Block) /\ Len(blocks') = n + 1 /\ blocks'[n + 1] = empty
           /\ \A p \in 1..n : blocks'[p] = mid[p]
      BY <2>1, <2>2, <2>8, <2>9, AppendProperties
    <2>11. /\ blocks' \in [1..(n + 1) -> Block] /\ DOMAIN blocks' = 1..(n + 1)
           /\ blocks'[top] = s /\ \A p \in 1..n : p # top => blocks'[p] = blocks[p]
      <3>1. blocks' \in [1..(n + 1) -> Block]
        BY <2>10, LenProperties
      <3>2. \A p \in 1..n : p # top => blocks'[p] = blocks[p]
        BY <2>7, <2>10, Zenon
      <3>3. blocks'[top] = s
        BY <2>2, <2>7, <2>10, Zenon
      <3>. QED BY <3>1, <3>2, <3>3
    <2>12. /\ config_stack' \in Seq(Nat) /\ Len(config_stack') = k + 1 /\ config_stack'[k + 1] = n + 1
           /\ \A i \in 1..k : config_stack'[i] = config_stack[i]
      BY <2>1, <2>2, <2>5, AppendProperties DEF k
    <2>13. DOMAIN config_stack' = 1..(k + 1) /\ \A i \in 1..(k + 1) : i \in 1..k \/ i = k + 1
      BY <2>2, <2>5, <2>12, LenProperties
    <2>14. /\ \A i \in 1..k : config_stack'[i] \in 1..n
           /\ \A i \in 1..k : config_stack[i] \in Nat
      BY <2>2, <2>12
    <2>15. StackIsOpenPath'
      <3>1. config_stack' # <<>> /\ config_stack'[1] = 1
        <4>1. 1 \in 1..k /\ k + 1 # 0
          BY <2>2
        <4>2. config_stack'[1] = 1
          BY <2>12, <4>1 DEF Tree, StackIsOpenPath
        <4>3. config_stack' # <<>>
          BY <2>12, <4>1, EmptySeq
        <4>. QED BY <4>2, <4>3
      <3>2. start_block' = Len(config_stack') - 1
        <4>1. start_block = k - 1
          BY DEF Tree, StackIsOpenPath, k
        <4>. QED BY <2>1, <2>2, <2>12, <4>1
      <3>3. ASSUME NEW i \in DOMAIN config_stack' PROVE config_stack'[i] \in DOMAIN blocks'
        <4>1. CASE i \in 1..k
          BY <2>5, <2>11, <2>14, <4>1
        <4>2. CASE i = k + 1
          BY <2>5, <2>11, <2>12, <4>2
        <4>. QED BY <2>13, <4>1, <4>2
      <3>4. ASSUME NEW i \in 1..(Len(config_stack') - 1)
            PROVE  LET b == blocks'[config_stack'[i]]
                   IN b # <<>> /\ b[Len(b)].child = config_stack'[i + 1]
        <4>1. i \in 1..k /\ (i \in 1..(k - 1) \/ i = k)
          BY <2>2, <2>12
        <4>2. CASE i = k
          <5>1. config_stack'[i] = top
            BY <2>12, <4>1, <4>2 DEF top, k
          <5>2. blocks'[config_stack'[i]] = s
            BY <2>11, <5>1
          <5>. QED BY <2>6, <2>12, <4>2, <5>2
        <4>3. CASE i \in 1..(k - 1)
          <5>1. i \in 1..k /\ i + 1 \in 1..k /\ k \in 1..k /\ i < k
            BY <2>2, <4>3
          <5>2. config_stack[i] < config_stack[k]
            BY <5>1 DEF Tree, Increasing, k
          <5>3. config_stack[i] # top
            BY <2>14, <5>1, <5>2 DEF top, k
          <5>4. config_stack'[i] = config_stack[i] /\ config_stack'[i + 1] = config_stack[i + 1]
            BY <2>12, <5>1
          <5>5. blocks'[config_stack'[i]] = blocks[config_stack[i]]
            BY <2>2, <2>11, <5>1, <5>3, <5>4
          <5>6. LET b == blocks[config_stack[i]]
                IN b # <<>> /\ b[Len(b)].child = config_stack[i + 1]
            BY <4>3 DEF Tree, StackIsOpenPath, k
          <5>. QED BY <5>4, <5>5, <5>6
        <4>. QED BY <4>1, <4>2, <4>3
      <3>. QED BY <2>1, <3>1, <3>2, <3>3, <3>4 DEF StackIsOpenPath
    <2>16. Increasing'
      <3>. SUFFICES ASSUME NEW i \in 1..(k + 1), NEW j \in 1..(k + 1), i < j
                    PROVE  config_stack'[i] < config_stack'[j]
        BY <2>12 DEF Increasing
      <3>1. i \in 1..k
        BY <2>2
      <3>2. CASE j \in 1..k
        BY <2>12, <3>1, <3>2 DEF Tree, Increasing, k
      <3>3. CASE j = k + 1
        <4>1. config_stack'[i] \in 1..n /\ config_stack'[j] = n + 1
          BY <2>12, <2>14, <3>1, <3>3
        <4>. QED BY <2>2, <4>1
      <3>. QED BY <2>13, <3>2, <3>3
    <2>17. FreshStatement'
      BY <2>1 DEF FreshStatement
    <2>18. ChildrenExist'
      <3>. SUFFICES ASSUME NEW p \in 1..(n + 1), NEW i \in 1..Len(blocks'[p])
                    PROVE  blocks'[p][i].child \in 0..(n + 1) /\ blocks'[p][i].child # 1
        BY <2>10 DEF ChildrenExist
      <3>0. p \in 1..n \/ p = n + 1
        BY <2>2
      <3>1. CASE p = n + 1
        BY <2>10, <3>1 DEF empty
      <3>2. CASE p \in 1..n /\ p # top
        <4>1. blocks'[p][i].child \in 0..n /\ blocks'[p][i].child # 1
          BY <2>11, <3>2 DEF Tree, ChildrenExist, n
        <4>. QED BY <2>2, <4>1
      <3>3. CASE p = top /\ i # m
        <4>1. i \in 1..m /\ blocks'[p][i] = a[i]
          BY <2>6, <2>11, <3>3
        <4>2. a[i].child \in 0..n /\ a[i].child # 1
          BY <2>2, <4>1 DEF Tree, ChildrenExist, n, a, m
        <4>. QED BY <2>2, <4>1, <4>2
      <3>4. CASE p = top /\ i = m
        BY <2>2, <2>6, <2>11, <3>4
      <3>. QED BY <3>0, <3>1, <3>2, <3>3, <3>4
    <2>19. NoBlockLost'
      <3>. DEFINE cs == blocks'
      <3>1. Added(n, blocks, cs, top, m)
        <4>1. cs \in [1..(n + 1) -> Block] /\ cs[n + 1] = <<>> /\ cs[top] = s
          BY <2>10, <2>11 DEF empty
        <4>2. m \in 1..Len(blocks[top]) /\ Len(cs[top]) = Len(blocks[top])
          BY <2>4, <2>6, <4>1 DEF m, a
        <4>3. \A p \in 1..n : \A i \in 1..Len(blocks[p]) : blocks[p][i].child \in 0..n
          BY DEF Tree, ChildrenExist, n
        <4>4. /\ blocks[top][m].child = 0 /\ cs[top][m].child = n + 1
              /\ \A i \in 1..Len(blocks[top]) : i # m => cs[top][i] = blocks[top][i]
          BY <2>3, <2>6, <4>1 DEF a, m
        <4>5. \A p \in 1..n : p # top => cs[p] = blocks[p]
          BY <2>11
        <4>. HIDE DEF cs
        <4>. QED BY <4>1, <4>2, <4>3, <4>4, <4>5 DEF Added
      <3>2. \A b : Owners(b) = Children(blocks, b) /\ Owners(b)' = Children(cs, b)
        BY DEF Owners, Children
      <3>. HIDE DEF cs
      <3>3. /\ \A b \in 2..n : Children(cs, b) = Children(blocks, b)
            /\ Children(cs, n + 1) = {<<top, m>>}
        <4>. DEFINE bs == blocks
                    t == top
        <4>1. n \in Nat /\ bs \in [1..n -> Block] /\ t \in 1..n /\ Added(n, bs, cs, t, m)
          BY <2>2, <3>1
        <4>. HIDE DEF bs, t
        <4>2. SameOwners(n, bs, cs)
          BY <4>1, BlockAdded
        <4>3. OneOwner(n, cs, t, m)
          BY <4>1, BlockAdded
        <4>. QED BY <4>2, <4>3 DEF bs, t, SameOwners, OneOwner
      <3>4. ASSUME NEW b \in 2..(n + 1)
            PROVE  Cardinality(Owners(b)') = 1 /\ \A o \in Owners(b)' : o[1] < b
        <4>1. CASE b \in 2..n
          BY <3>2, <3>3, <4>1 DEF Tree, NoBlockLost, n
        <4>2. CASE b = n + 1
          <5>1. Owners(b)' = {<<top, m>>}
            BY <3>2, <3>3, <4>2
          <5>2. Cardinality({<<top, m>>}) = 1
            BY FS_Singleton
          <5>3. top < n + 1
            BY <2>2
          <5>4. \A o \in Owners(b)' : o[1] = top
            BY <5>1
          <5>. QED BY <4>2, <5>1, <5>2, <5>3, <5>4
        <4>3. b \in 2..n \/ b = n + 1
          BY <2>2
        <4>. QED BY <4>1, <4>2, <4>3
      <3>. QED BY <2>10, <3>4 DEF NoBlockLost
    <2>20. ParserTypeOK'
      <3>1. start_block' \in Int
        BY <2>1 DEF TypeOK
      <3>. QED BY <2>1, <2>10, <2>12, <3>1 DEF ParserTypeOK, Block
    <2>. QED BY <2>15, <2>16, <2>17, <2>18, <2>19, <2>20 DEF Tree
  <1>. QED BY <1>1, <1>2

-----------------------------------------------------------------------------
(* ParseToken *)

\* What TypeOK says of the tokenizer's variables.
LexerTypeOK ==
    /\ text \in Seq(Char) /\ pos \in 0..Len(text) /\ ended \in BOOLEAN
    /\ state \in {"INITIAL", "SINGLE_QUOTE", "DOUBLE_QUOTE", "COMMENT", "NORMAL"}
    /\ value \in Token

LEMMA TypeParts == TypeOK <=> LexerTypeOK /\ ParserTypeOK
  BY DEF TypeOK, LexerTypeOK, ParserTypeOK

LEMMA TypePartsNext == TypeOK' <=> LexerTypeOK' /\ ParserTypeOK'
  BY DEF TypeOK, LexerTypeOK, ParserTypeOK

\* The character that follows is in the text afterwards.
LEMMA Following ==
  ASSUME TypeOK, NEW c \in Char, following(c)
  PROVE  text' \in Seq(Char) /\ pos + 1 \in 0..Len(text') /\ pos \in 0..Len(text') /\ ended' \in BOOLEAN
  <1>1. text \in Seq(Char) /\ Len(text) \in Nat /\ pos \in 0..Len(text) /\ ended \in BOOLEAN
    BY DEF TypeOK
  <1>2. ended' = ended
    BY DEF following
  <1>3. CASE pos < Len(text)
    <2>1. text' = text
      BY <1>3 DEF following
    <2>. QED BY <1>1, <1>2, <1>3, <2>1
  <1>4. CASE ~(pos < Len(text))
    <2>1. text' = Append(text, c)
      BY <1>4 DEF following
    <2>2. text' \in Seq(Char) /\ Len(text') = Len(text) + 1
      BY <1>1, <2>1
    <2>. QED BY <1>1, <1>2, <2>2
  <1>. QED BY <1>3, <1>4

LEMMA GetType ==
  ASSUME TypeOK, NEW c \in Char, get(c)
  PROVE  text' \in Seq(Char) /\ pos' \in 0..Len(text') /\ ended' \in BOOLEAN /\ result = "running"
  BY Following DEF get, following

LEMMA UngetType ==
  ASSUME TypeOK, NEW c \in Char, unget(c)
  PROVE  text' \in Seq(Char) /\ pos' \in 0..Len(text') /\ ended' \in BOOLEAN /\ result = "running"
  BY Following DEF unget, following

LEMMA TokenGrows ==
  ASSUME TypeOK, NEW c \in Char
  PROVE  Append(value, c) \in Token /\ value \in Token /\ <<c>> \in Token /\ <<>> \in Token
  <1>1. value \in Seq(Char)
    BY DEF TypeOK, Token
  <1>2. Append(value, c) \in Seq(Char)
    BY <1>1
  <1>3. <<c>> \in Seq(Char)
    OBVIOUS
  <1>4. <<>> \in Seq(Char)
    OBVIOUS
  <1>. QED BY <1>1, <1>2, <1>3, <1>4 DEF Token

\* A step that does not return a token leaves the driver alone.
LEMMA ParserIdle ==
  ASSUME TypeOK, Tree, UNCHANGED parser
  PROVE  ParserTypeOK' /\ Tree'
  <1>1. UNCHANGED <<last_token_type, start_block, config_stack, blocks, result>>
    BY DEF parser
  <1>2. Tree'
    BY <1>1, SameTree
  <1>. QED BY <1>1, <1>2 DEF ParserTypeOK, TypeOK

LEMMA ParseTokenStep ==
  ASSUME TypeOK, Tree, NEW c \in Char, ParseToken(c)
  PROVE  TypeOK' /\ Tree'
  <1>. DEFINE States == {"INITIAL", "SINGLE_QUOTE", "DOUBLE_QUOTE", "COMMENT", "NORMAL"}
  <1>0. Append(value, c) \in Token /\ value \in Token /\ <<c>> \in Token /\ <<>> \in Token
    BY TokenGrows
  <1>1. ASSUME get(c), state' \in States, value' \in Token PROVE LexerTypeOK'
    BY <1>1, GetType DEF LexerTypeOK
  <1>2. CASE SkipBlank(c)
    <2>1. get(c) /\ UNCHANGED <<state, value>> /\ UNCHANGED parser
      BY <1>2 DEF SkipBlank, lexer
    <2>2. state' \in States
      BY <2>1 DEF TypeOK
    <2>. QED BY <1>0, <1>1, <2>1, <2>2, ParserIdle, TypePartsNext
  <1>3. CASE Punctuation(c)
    <2>1. get(c) /\ state' = "INITIAL" /\ value' = <<>>
      BY <1>3 DEF Punctuation, Return
    <2>2. LexerTypeOK'
      BY <1>0, <1>1, <2>1
    <2>3. result = "running"
      BY <2>1, GetType
    <2>4. CASE StartBlock
      BY <2>2, <2>3, <2>4, StartBlockStep, TypePartsNext
    <2>5. CASE EndBlock
      BY <2>2, <2>3, <2>5, EndBlockStep, TypePartsNext
    <2>6. CASE StatementEnd
      BY <2>2, <2>6, StatementEndStep, TypePartsNext
    <2>. QED BY <1>3, <2>4, <2>5, <2>6 DEF Punctuation
  <1>4. CASE Begin(c)
    <2>1. get(c) /\ state' \in States /\ value' = <<c>> /\ UNCHANGED parser
      BY <1>4 DEF Begin
    <2>. QED BY <1>0, <1>1, <2>1, ParserIdle, TypePartsNext
  <1>5. CASE Quoted(c)
    <2>1. get(c)
      BY <1>5 DEF Quoted
    <2>2. CASE Normal(Append(value, c)) /\ Return
      <3>1. LexerTypeOK'
        BY <1>0, <1>1, <2>1, <2>2 DEF Return
      <3>. QED BY <1>0, <2>2, <3>1, NormalStep, TypePartsNext
    <2>3. CASE value' = Append(value, c) /\ UNCHANGED <<state, parser>>
      <3>1. state' \in States
        BY <2>3 DEF TypeOK
      <3>. QED BY <1>0, <1>1, <2>1, <2>3, <3>1, ParserIdle, TypePartsNext
    <2>. QED BY <1>5, <2>2, <2>3 DEF Quoted
  <1>6. CASE Comment(c)
    <2>1. get(c) /\ UNCHANGED parser
      BY <1>6 DEF Comment
    <2>2. state' \in States /\ value' \in Token
      BY <1>0, <1>6 DEF Comment, Return, TypeOK
    <2>. QED BY <1>1, <2>1, <2>2, ParserIdle, TypePartsNext
  <1>7. CASE InToken(c)
    <2>1. CASE unget(c) /\ Normal(value) /\ Return
      <3>1. LexerTypeOK'
        BY <1>0, <2>1, UngetType DEF LexerTypeOK, Return
      <3>. QED BY <1>0, <2>1, <3>1, NormalStep, TypePartsNext
    <2>2. CASE get(c) /\ value' = Append(value, c) /\ UNCHANGED <<state, parser>>
      <3>1. state' \in States
        BY <2>2 DEF TypeOK
      <3>. QED BY <1>0, <1>1, <2>2, <3>1, ParserIdle, TypePartsNext
    <2>. QED BY <1>7, <2>1, <2>2 DEF InToken
  <1>. QED BY <1>2, <1>3, <1>4, <1>5, <1>6, <1>7 DEF ParseToken

LEMMA EndOfFileStep ==
  ASSUME TypeOK, Tree, EndOfFile
  PROVE  TypeOK' /\ Tree'
  <1>1. LexerTypeOK'
    BY DEF EndOfFile, lexer, LexerTypeOK, TypeOK
  <1>2. CASE Reject
    BY <1>1, <1>2, RejectStep, TypePartsNext
  <1>3. CASE Eof
    BY <1>1, <1>3, EofStep, TypePartsNext
  <1>. QED BY <1>2, <1>3 DEF EndOfFile

-----------------------------------------------------------------------------
(* ParseStatements *)

\* The fields of NginxConfig and the loop's own variable.
Fields == [port : Int, found_port : BOOLEAN, root : Token, threads : Nat, prev_token : Token]

\* n is the number of a token of these statements that is a valid port.
Stated(ss, n) ==
    \E i \in DOMAIN ss : \E j \in DOMAIN ss[i].tokens :
        ValidPort(ss[i].tokens[j]) /\ Numeral[ss[i].tokens[j]] = n

\* What the loops keep: a port that was found is one that is stated.
Honest(ss) == {acc \in Fields : acc.found_port => Stated(ss, acc.port)}

TokensOf(ss) == UNION {{ss[i].tokens[j] : j \in DOMAIN ss[i].tokens} : i \in DOMAIN ss}

LEMMA TokenTypes ==
  ASSUME NEW ss \in Seq(Statement)
  PROVE  /\ TokensOf(ss) \subseteq Token
         /\ \A i \in 1..Len(ss) : /\ Len(ss[i].tokens) \in Nat
                                  /\ ss[i].tokens \in [1..Len(ss[i].tokens) -> TokensOf(ss)]
  <1>1. ASSUME NEW i \in 1..Len(ss)
        PROVE  /\ ss[i].tokens \in Seq(Token) /\ Len(ss[i].tokens) \in Nat
               /\ DOMAIN ss[i].tokens = 1..Len(ss[i].tokens)
    <2>1. ss[i] \in Statement
      OBVIOUS
    <2>2. ss[i].tokens \in Seq(Token)
      BY <2>1, StatementFields
    <2>. QED BY <2>2
  <1>2. DOMAIN ss = 1..Len(ss)
    OBVIOUS
  <1>3. ASSUME NEW i \in 1..Len(ss), NEW j \in 1..Len(ss[i].tokens)
        PROVE  ss[i].tokens[j] \in TokensOf(ss) /\ ss[i].tokens[j] \in Token
    <2>1. i \in DOMAIN ss /\ j \in DOMAIN ss[i].tokens
      BY <1>1, <1>2
    <2>2. ss[i].tokens[j] \in TokensOf(ss)
      BY <2>1 DEF TokensOf
    <2>3. ss[i].tokens[j] \in Token
      BY <1>1
    <2>. QED BY <2>2, <2>3
  <1>4. TokensOf(ss) \subseteq Token
    BY <1>1, <1>2, <1>3 DEF TokensOf
  <1>5. ASSUME NEW i \in 1..Len(ss)
        PROVE  ss[i].tokens \in [1..Len(ss[i].tokens) -> TokensOf(ss)]
    <2>1. ss[i].tokens \in [1..Len(ss[i].tokens) -> Token]
      BY <1>1
    <2>. QED BY <1>3, <2>1
  <1>. QED BY <1>1, <1>4, <1>5

\* What the server does with a number of threads, and with a root.
Threads(token) ==
    IF Numeral[token] % UIntModulus > 0 THEN Numeral[token] % UIntModulus ELSE DefaultThreads
RootDir(token) == IF token = Dot THEN <<>> ELSE token

\* One iteration of the inner loop, field by field.
Scanned(acc, token, r) ==
    /\ r \in Fields
    /\ IF acc.prev_token = PortWord /\ ~acc.found_port /\ ValidPort(token)
       THEN r.port = Numeral[token] /\ r.found_port
       ELSE r.port = acc.port /\ r.found_port = acc.found_port
    /\ r.root = IF acc.prev_token = RootWord THEN RootDir(token) ELSE acc.root
    /\ r.threads = IF acc.prev_token = ThreadsWord /\ token \in DOMAIN Numeral
                   THEN Threads(token) ELSE acc.threads
    /\ acc.prev_token \notin {PortWord, RootWord, ThreadsWord} => r.prev_token = token

LEMMA ScanFields ==
  ASSUME NEW acc \in Fields, NEW token \in Token
  PROVE  Scanned(acc, token, ScanToken(acc, token))
  <1>. DEFINE n == Numeral[token]
              port == [acc EXCEPT !.port = n, !.found_port = TRUE, !.prev_token = token]
              dir == RootDir(token)
              root == [acc EXCEPT !.root = dir, !.prev_token = token]
              count == n % UIntModulus
              threads == [acc EXCEPT !.threads = count, !.prev_token = token]
              default == [acc EXCEPT !.threads = DefaultThreads]
              other == [acc EXCEPT !.prev_token = token]
              w == acc.prev_token
              inPort == w = PortWord /\ ~acc.found_port
  <1>0. PortWord # RootWord /\ PortWord # ThreadsWord /\ RootWord # ThreadsWord
    BY DEF PortWord, RootWord, ThreadsWord
  <1>1. ASSUME ValidPort(token)
        PROVE  /\ port \in Fields /\ port.port = n /\ port.found_port = TRUE
               /\ port.root = acc.root /\ port.threads = acc.threads
    <2>1. n \in Int
      BY <1>1, NumeralAssumption DEF ValidPort
    <2>. HIDE DEF n
    <2>. QED BY <2>1 DEF Fields
  <1>2. /\ root \in Fields /\ root.root = dir /\ root.port = acc.port
        /\ root.found_port = acc.found_port /\ root.threads = acc.threads
    <2>1. dir \in Token
      <3>1. <<>> \in Token
        BY DEF Token
      <3>. QED BY <3>1, Zenon DEF RootDir
    <2>. HIDE DEF dir
    <2>. QED BY <2>1 DEF Fields
  <1>3. ASSUME token \in DOMAIN Numeral
        PROVE  /\ threads \in Fields /\ threads.threads = count /\ threads.port = acc.port
               /\ threads.found_port = acc.found_port /\ threads.root = acc.root
    <2>1. count \in Nat
      <3>1. n \in Int /\ UIntModulus \in Nat /\ UIntModulus > 0
        BY <1>3, NumeralAssumption, UIntAssumption DEF DefaultThreads
      <3>. HIDE DEF n
      <3>. QED BY <3>1
    <2>. HIDE DEF count
    <2>. QED BY <2>1 DEF Fields
  <1>4. /\ default \in Fields /\ default.threads = DefaultThreads /\ default.port = acc.port
        /\ default.found_port = acc.found_port /\ default.root = acc.root
    <2>1. DefaultThreads \in Nat
      BY DEF DefaultThreads
    <2>. QED BY <2>1 DEF Fields
  <1>5. /\ other \in Fields /\ other.prev_token = token /\ other.port = acc.port
        /\ other.found_port = acc.found_port /\ other.root = acc.root /\ other.threads = acc.threads
    BY DEF Fields
  <1>6. CASE inPort
    <2>1. ScanToken(acc, token) = IF ValidPort(token) THEN port ELSE acc
      BY <1>0, <1>6 DEF ScanToken
    <2>. HIDE DEF port, n
    <2>. QED BY <1>0, <1>1, <1>6, <2>1 DEF Scanned, n
  <1>7. CASE ~inPort /\ w = RootWord
    <2>1. ScanToken(acc, token) = root
      BY <1>0, <1>7 DEF ScanToken, RootDir
    <2>. HIDE DEF root
    <2>. QED BY <1>0, <1>2, <1>7, <2>1 DEF Scanned
  <1>8. CASE ~inPort /\ w = ThreadsWord
    <2>1. ScanToken(acc, token) = IF token \notin DOMAIN Numeral THEN acc
                                  ELSE IF count > 0 THEN threads ELSE default
      BY <1>0, <1>8 DEF ScanToken
    <2>2. Threads(token) = IF count > 0 THEN count ELSE DefaultThreads
      BY DEF Threads
    <2>. HIDE DEF threads, default, count
    <2>. QED BY <1>0, <1>3, <1>4, <1>8, <2>1, <2>2 DEF Scanned
  <1>9. CASE ~inPort /\ w # RootWord /\ w # ThreadsWord
    <2>1. ScanToken(acc, token) = other
      BY <1>0, <1>9 DEF ScanToken
    <2>. HIDE DEF other
    <2>. QED BY <1>0, <1>5, <1>9, <2>1 DEF Scanned
  <1>. QED BY <1>6, <1>7, <1>8, <1>9

\* A port is taken from the token at hand.
LEMMA ScanHonest ==
  ASSUME NEW ss \in Seq(Statement), NEW acc \in Honest(ss), NEW token \in TokensOf(ss)
  PROVE  ScanToken(acc, token) \in Honest(ss)
  <1>. DEFINE r == ScanToken(acc, token)
  <1>1. acc \in Fields /\ (acc.found_port => Stated(ss, acc.port)) /\ token \in Token
    BY TokenTypes DEF Honest
  <1>2. Scanned(acc, token, r)
    BY <1>1, ScanFields
  <1>3. ValidPort(token) => Stated(ss, Numeral[token])
    BY DEF TokensOf, Stated
  <1>. HIDE DEF r
  <1>4. r \in Honest(ss)
    BY <1>1, <1>2, <1>3 DEF Scanned, Honest
  <1>. QED BY <1>4 DEF r

\* The inner loop: f[i] is its state after i tokens.
StatementRun(f, acc, tokens) ==
    \A i \in 0..Len(tokens) : f[i] = IF i = 0 THEN [acc EXCEPT !.prev_token = <<>>]
                                     ELSE ScanToken(f[i - 1], tokens[i])

LEMMA StatementLoop ==
  ASSUME NEW ss \in Seq(Statement), NEW acc \in Honest(ss), NEW p \in 1..Len(ss)
  PROVE  \E f :
           /\ ParseStatement(acc, ss[p]) = f[Len(ss[p].tokens)]
           /\ StatementRun(f, acc, ss[p].tokens)
           /\ \A i \in 0..Len(ss[p].tokens) : f[i] \in Honest(ss)
  <1>. DEFINE A == Honest(ss)
              E == TokensOf(ss)
              t == ss[p].tokens
              n == Len(t)
              a == [acc EXCEPT !.prev_token = <<>>]
              F == [x \in A \X E |-> ScanToken(x[1], x[2])]
              f == CHOOSE g : g = [i \in 0..n |-> IF i = 0 THEN a ELSE ScanToken(g[i - 1], t[i])]
  <1>1. ParseStatement(acc, ss[p]) = f[n]
    BY Zenon DEF ParseStatement
  <1>2. n \in Nat /\ t \in [1..n -> E]
    BY TokenTypes
  <1>3. a \in A
    <2>. DEFINE none == <<>>
                b == [acc EXCEPT !.prev_token = none]
    <2>1. none \in Token /\ acc \in Fields /\ (acc.found_port => Stated(ss, acc.port))
      BY DEF Token, Honest
    <2>. HIDE DEF none
    <2>2. b \in Fields /\ b.found_port = acc.found_port /\ b.port = acc.port
      BY <2>1 DEF Fields
    <2>. HIDE DEF b
    <2>3. b \in A
      BY <2>1, <2>2 DEF Honest
    <2>. QED BY <2>3 DEF b, none
  <1>4. \A x \in A, e \in E : ScanToken(x, e) \in A
    BY ScanHonest
  <1>. HIDE DEF A, E, t, n, a
  <1>5. F \in [A \X E -> A] /\ \A x \in A, e \in E : F[<<x, e>>] = ScanToken(x, e)
    BY <1>4
  <1>. HIDE DEF F
  <1>6. PICK g : Loop(g, n, a, F, t)
    BY <1>2, <1>3, <1>5, LoopExists
  <1>7. \A i \in 0..n : g[i] = IF i = 0 THEN a ELSE F[<<g[i - 1], t[i]>>]
    BY <1>6 DEF Loop
  <1>8. \A i \in 0..n : g[i] \in A
    <2>1. g[0] \in A
      <3>1. 0 \in 0..n
        BY <1>2
      <3>2. g[0] = a
        BY <1>7, <3>1
      <3>. QED BY <1>3, <3>2
    <2>2. ASSUME NEW i \in 1..n, g[i - 1] \in A PROVE g[i] \in A
      <3>1. i \in 0..n /\ i # 0 /\ t[i] \in E
        BY <1>2
      <3>. QED BY <1>4, <1>5, <1>7, <2>2, <3>1
    <2>. QED BY <1>2, <2>1, <2>2, LoopStays
  <1>9. g = [i \in 0..n |-> IF i = 0 THEN a ELSE ScanToken(g[i - 1], t[i])]
    <2>1. ASSUME NEW i \in 0..n, i # 0 PROVE F[<<g[i - 1], t[i]>>] = ScanToken(g[i - 1], t[i])
      <3>1. g[i - 1] \in A /\ t[i] \in E
        BY <1>2, <1>8, <2>1
      <3>. QED BY <1>5, <3>1
    <2>. QED BY <1>6, <2>1 DEF Loop
  <1>10. f = [i \in 0..n |-> IF i = 0 THEN a ELSE ScanToken(f[i - 1], t[i])]
    BY <1>9, Zenon
  <1>. HIDE DEF f
  <1>11. \A i \in 0..n : f[i] = IF i = 0 THEN a ELSE ScanToken(f[i - 1], t[i])
    BY <1>10
  <1>12. \A i \in 0..n : f[i] \in A
    <2>1. f[0] \in A
      <3>1. 0 \in 0..n
        BY <1>2
      <3>2. f[0] = a
        BY <1>11, <3>1
      <3>. QED BY <1>3, <3>2
    <2>2. ASSUME NEW i \in 1..n, f[i - 1] \in A PROVE f[i] \in A
      <3>1. i \in 0..n /\ i # 0 /\ t[i] \in E
        BY <1>2
      <3>. QED BY <1>4, <1>11, <2>2, <3>1
    <2>. QED BY <1>2, <2>1, <2>2, LoopStays
  <1>. QED BY <1>1, <1>11, <1>12, Zenon DEF A, n, t, a, StatementRun

LEMMA StatementHonest ==
  ASSUME NEW ss \in Seq(Statement), NEW acc \in Honest(ss), NEW p \in 1..Len(ss)
  PROVE  ParseStatement(acc, ss[p]) \in Honest(ss)
  <1>1. Len(ss[p].tokens) \in 0..Len(ss[p].tokens)
    BY TokenTypes
  <1>2. PICK f : /\ ParseStatement(acc, ss[p]) = f[Len(ss[p].tokens)]
                 /\ \A i \in 0..Len(ss[p].tokens) : f[i] \in Honest(ss)
    BY StatementLoop
  <1>. QED BY <1>1, <1>2

\* The outer loop.
LEMMA StatementsLoop ==
  ASSUME NEW ss \in Seq(Statement)
  PROVE  \E f :
           /\ ParseStatements(ss) = f[Len(ss)]
           /\ \A i \in 0..Len(ss) :
                f[i] = IF i = 0 THEN Unparsed ELSE ParseStatement(f[i - 1], ss[i])
           /\ \A i \in 0..Len(ss) : f[i] \in Honest(ss)
  <1>. DEFINE A == Honest(ss)
              n == Len(ss)
              E == {ss[i] : i \in 1..n}
              F == [x \in A \X E |-> ParseStatement(x[1], x[2])]
              f == CHOOSE g : g = [i \in 0..n |-> IF i = 0 THEN Unparsed ELSE ParseStatement(g[i - 1], ss[i])]
  <1>1. ParseStatements(ss) = f[n]
    BY Zenon DEF ParseStatements
  <1>2. n \in Nat /\ ss \in [1..n -> E]
    OBVIOUS
  <1>3. Unparsed \in A
    <2>. DEFINE none == <<>>
                z == [port |-> NoPort, found_port |-> FALSE, root |-> none,
                      threads |-> DefaultThreads, prev_token |-> none]
    <2>1. none \in Token /\ NoPort \in Int /\ DefaultThreads \in Nat
      BY DEF Token, NoPort, DefaultThreads
    <2>. HIDE DEF none
    <2>2. z \in Fields /\ ~z.found_port
      BY <2>1 DEF Fields
    <2>3. Unparsed = z
      BY DEF Unparsed, none
    <2>. HIDE DEF z
    <2>. QED BY <2>2, <2>3 DEF Honest
  <1>4. \A x \in A, e \in E : ParseStatement(x, e) \in A
    BY StatementHonest
  <1>. HIDE DEF A, E, n
  <1>5. F \in [A \X E -> A] /\ \A x \in A, e \in E : F[<<x, e>>] = ParseStatement(x, e)
    BY <1>4
  <1>. HIDE DEF F
  <1>6. PICK g : Loop(g, n, Unparsed, F, ss)
    BY <1>2, <1>3, <1>5, LoopExists
  <1>7. \A i \in 0..n : g[i] = IF i = 0 THEN Unparsed ELSE F[<<g[i - 1], ss[i]>>]
    BY <1>6 DEF Loop
  <1>8. \A i \in 0..n : g[i] \in A
    <2>1. g[0] \in A
      <3>1. 0 \in 0..n
        BY <1>2
      <3>2. g[0] = Unparsed
        BY <1>7, <3>1
      <3>. QED BY <1>3, <3>2
    <2>2. ASSUME NEW i \in 1..n, g[i - 1] \in A PROVE g[i] \in A
      <3>1. i \in 0..n /\ i # 0 /\ ss[i] \in E
        BY <1>2
      <3>. QED BY <1>4, <1>5, <1>7, <2>2, <3>1
    <2>. QED BY <1>2, <2>1, <2>2, LoopStays
  <1>9. g = [i \in 0..n |-> IF i = 0 THEN Unparsed ELSE ParseStatement(g[i - 1], ss[i])]
    <2>1. ASSUME NEW i \in 0..n, i # 0 PROVE F[<<g[i - 1], ss[i]>>] = ParseStatement(g[i - 1], ss[i])
      <3>1. g[i - 1] \in A /\ ss[i] \in E
        BY <1>2, <1>8, <2>1
      <3>. QED BY <1>5, <3>1
    <2>. QED BY <1>6, <2>1 DEF Loop
  <1>10. f = [i \in 0..n |-> IF i = 0 THEN Unparsed ELSE ParseStatement(f[i - 1], ss[i])]
    BY <1>9, Zenon
  <1>. HIDE DEF f
  <1>11. \A i \in 0..n : f[i] = IF i = 0 THEN Unparsed ELSE ParseStatement(f[i - 1], ss[i])
    BY <1>10
  <1>12. \A i \in 0..n : f[i] \in A
    <2>1. f[0] \in A
      <3>1. 0 \in 0..n
        BY <1>2
      <3>2. f[0] = Unparsed
        BY <1>11, <3>1
      <3>. QED BY <1>3, <3>2
    <2>2. ASSUME NEW i \in 1..n, f[i - 1] \in A PROVE f[i] \in A
      <3>1. i \in 0..n /\ i # 0 /\ ss[i] \in E
        BY <1>2
      <3>. QED BY <1>4, <1>11, <2>2, <3>1
    <2>. QED BY <1>2, <2>1, <2>2, LoopStays
  <1>. QED BY <1>1, <1>11, <1>12, Zenon DEF A, n

LEMMA StatementsHonest ==
  ASSUME NEW ss \in Seq(Statement)
  PROVE  ParseStatements(ss) \in Honest(ss)
  <1>1. Len(ss) \in 0..Len(ss)
    OBVIOUS
  <1>. QED BY <1>1, StatementsLoop

-----------------------------------------------------------------------------
(* What the statements mean, if each has at most two tokens *)

PortAt(s)    == Len(s.tokens) = 2 /\ s.tokens[1] = PortWord /\ ValidPort(s.tokens[2])
RootAt(s)    == Len(s.tokens) = 2 /\ s.tokens[1] = RootWord
ThreadsAt(s) == Len(s.tokens) = 2 /\ s.tokens[1] = ThreadsWord /\ s.tokens[2] \in DOMAIN Numeral

\* What a statement s makes of acc.
Takes(acc, s, r) ==
    /\ IF PortAt(s) /\ ~acc.found_port
       THEN r.port = Numeral[s.tokens[2]] /\ r.found_port
       ELSE r.port = acc.port /\ r.found_port = acc.found_port
    /\ r.root = IF RootAt(s) THEN RootDir(s.tokens[2]) ELSE acc.root
    /\ r.threads = IF ThreadsAt(s) THEN Threads(s.tokens[2]) ELSE acc.threads

LEMMA ShortStatement ==
  ASSUME NEW ss \in Seq(Statement), NEW acc \in Honest(ss), NEW p \in 1..Len(ss),
         Len(ss[p].tokens) <= 2
  PROVE  Takes(acc, ss[p], ParseStatement(acc, ss[p]))
  <1>. DEFINE s == ss[p]
              t == s.tokens
              n == Len(t)
              none == <<>>
              a == [acc EXCEPT !.prev_token = none]
              r == ParseStatement(acc, s)
  <1>1. n \in 0..2 /\ \A i \in 1..n : t[i] \in Token
    <2>1. TokensOf(ss) \subseteq Token /\ n \in Nat /\ t \in [1..n -> TokensOf(ss)]
      BY TokenTypes
    <2>2. n <= 2
      OBVIOUS
    <2>. HIDE DEF n, t
    <2>. QED BY <2>1, <2>2
  <1>2. PICK f : r = f[n] /\ StatementRun(f, acc, t) /\ \A i \in 0..n : f[i] \in Honest(ss)
    BY StatementLoop
  <1>3. acc \in Fields /\ \A i \in 0..n : f[i] \in Fields
    BY <1>2 DEF Honest
  <1>4. f[0] = a /\ \A i \in 1..n : f[i] = ScanToken(f[i - 1], t[i])
    <2>1. \A i \in 0..n : f[i] = IF i = 0 THEN a ELSE ScanToken(f[i - 1], t[i])
      BY <1>2, Zenon DEF StatementRun
    <2>. HIDE DEF a, n, t
    <2>2. 0 \in 0..n /\ \A i \in 1..n : i \in 0..n /\ i # 0
      BY <1>1
    <2>. QED BY <2>1, <2>2
  <1>5. none \notin {PortWord, RootWord, ThreadsWord}
    BY DEF PortWord, RootWord, ThreadsWord
  <1>0. PortWord # RootWord /\ PortWord # ThreadsWord /\ RootWord # ThreadsWord
    BY DEF PortWord, RootWord, ThreadsWord
  <1>6. none \in Token
    BY DEF Token
  <1>. HIDE DEF none
  <1>7. /\ a \in Fields /\ a.prev_token = none /\ a.port = acc.port /\ a.root = acc.root
        /\ a.found_port = acc.found_port /\ a.threads = acc.threads
    BY <1>3, <1>6 DEF Fields
  <1>. HIDE DEF a, r
  <1>8. CASE n = 0
    <2>1. ~PortAt(s) /\ ~RootAt(s) /\ ~ThreadsAt(s) /\ r = a
      BY <1>2, <1>4, <1>8 DEF PortAt, RootAt, ThreadsAt
    <2>. HIDE DEF s
    <2>2. Takes(acc, s, r)
      BY <1>7, <2>1 DEF Takes
    <2>. QED BY <2>2 DEF r, s
  <1>9. ASSUME n >= 1
        PROVE  /\ f[1] \in Fields /\ f[1].prev_token = t[1] /\ f[1].port = acc.port
               /\ f[1].found_port = acc.found_port /\ f[1].root = acc.root
               /\ f[1].threads = acc.threads
    <2>1. 1 \in 1..n /\ 1 - 1 = 0 /\ 1 \in 0..n
      BY <1>1, <1>9
    <2>2. f[1] = ScanToken(a, t[1]) /\ t[1] \in Token
      BY <1>1, <1>4, <2>1
    <2>3. Scanned(a, t[1], f[1])
      BY <1>7, <2>2, ScanFields
    <2>. QED BY <1>5, <1>7, <2>3 DEF Scanned
  <1>10. CASE n = 1
    <2>1. ~PortAt(s) /\ ~RootAt(s) /\ ~ThreadsAt(s) /\ r = f[1]
      BY <1>2, <1>10 DEF PortAt, RootAt, ThreadsAt
    <2>. HIDE DEF s
    <2>2. Takes(acc, s, r)
      BY <1>9, <1>10, <2>1 DEF Takes
    <2>. QED BY <2>2 DEF r, s
  <1>11. CASE n = 2
    <2>1. 2 \in 1..n /\ 2 - 1 = 1
      BY <1>11
    <2>2. r = ScanToken(f[1], t[2]) /\ t[2] \in Token
      BY <1>1, <1>2, <1>4, <1>11, <2>1
    <2>3. f[1] \in Fields
      BY <1>9, <1>11
    <2>4. Scanned(f[1], t[2], r)
      BY <2>2, <2>3, ScanFields
    <2>5. /\ PortAt(s) <=> t[1] = PortWord /\ ValidPort(t[2])
          /\ RootAt(s) <=> t[1] = RootWord
          /\ ThreadsAt(s) <=> t[1] = ThreadsWord /\ t[2] \in DOMAIN Numeral
      BY <1>11 DEF PortAt, RootAt, ThreadsAt
    <2>6. /\ f[1].prev_token = t[1] /\ f[1].port = acc.port /\ f[1].found_port = acc.found_port
          /\ f[1].root = acc.root /\ f[1].threads = acc.threads
      BY <1>9, <1>11
    <2>. HIDE DEF s
    <2>7. Takes(acc, s, r)
      BY <2>4, <2>5, <2>6 DEF Takes, Scanned
    <2>. QED BY <2>7 DEF r, s
  <1>. QED BY <1>1, <1>8, <1>10, <1>11

\* The positions of the statements that count.
Ports(ss)        == {i \in DOMAIN ss : PortAt(ss[i])}
RootsIn(ss)      == {i \in DOMAIN ss : RootAt(ss[i])}
ThreadCounts(ss) == {i \in DOMAIN ss : ThreadsAt(ss[i])}

\* k is the first of D, and the last one up to i.
FirstOf(k, D)   == k \in D /\ \A j \in D : k <= j
LastOf(k, D, i) == k \in D /\ k <= i /\ \A j \in D : j <= i => j <= k

\* What acc holds after i statements.
PortTaken(ss, i, acc) ==
    \/ (\A j \in Ports(ss) : j > i) /\ acc.port = NoPort /\ acc.found_port = FALSE
    \/ \E k \in Ports(ss) : /\ FirstOf(k, Ports(ss)) /\ k <= i
                             /\ acc.port = Numeral[ss[k].tokens[2]] /\ acc.found_port = TRUE

RootTaken(ss, i, acc) ==
    \/ (\A j \in RootsIn(ss) : j > i) /\ acc.root = <<>>
    \/ \E k \in RootsIn(ss) : LastOf(k, RootsIn(ss), i) /\ acc.root = RootDir(ss[k].tokens[2])

ThreadsTaken(ss, i, acc) ==
    \/ (\A j \in ThreadCounts(ss) : j > i) /\ acc.threads = DefaultThreads
    \/ \E k \in ThreadCounts(ss) :
          LastOf(k, ThreadCounts(ss), i) /\ acc.threads = Threads(ss[k].tokens[2])

Taken(ss, i, acc) == PortTaken(ss, i, acc) /\ RootTaken(ss, i, acc) /\ ThreadsTaken(ss, i, acc)

LEMMA PortTakenNext ==
  ASSUME NEW ss \in Seq(Statement), NEW i \in 1..Len(ss), NEW acc \in Fields, NEW r \in Fields,
         PortTaken(ss, i - 1, acc), Takes(acc, ss[i], r)
  PROVE  PortTaken(ss, i, r)
  <1>. DEFINE D == Ports(ss)
  <1>1. D \in SUBSET Nat /\ i \in Nat /\ (i \in D <=> PortAt(ss[i]))
    BY DEF Ports
  <1>2. IF PortAt(ss[i]) /\ ~acc.found_port
        THEN r.port = Numeral[ss[i].tokens[2]] /\ r.found_port
        ELSE r.port = acc.port /\ r.found_port = acc.found_port
    BY DEF Takes
  <1>3. acc.found_port \in BOOLEAN /\ r.found_port \in BOOLEAN
    BY DEF Fields
  <1>4. CASE (\A j \in D : j > i - 1) /\ acc.port = NoPort /\ acc.found_port = FALSE
    <2>1. CASE i \in D
      <3>1. FirstOf(i, D)
        <4>. HIDE DEF D
        <4>. QED BY <1>1, <1>4, <2>1 DEF FirstOf
      <3>2. r.port = Numeral[ss[i].tokens[2]] /\ r.found_port = TRUE
        BY <1>1, <1>2, <1>3, <1>4, <2>1
      <3>. QED BY <1>1, <2>1, <3>1, <3>2 DEF PortTaken
    <2>2. CASE i \notin D
      <3>1. \A j \in D : j > i
        <4>. HIDE DEF D
        <4>. QED BY <1>1, <1>4, <2>2
      <3>2. r.port = NoPort /\ r.found_port = FALSE
        BY <1>1, <1>2, <1>4, <2>2
      <3>. QED BY <3>1, <3>2 DEF PortTaken
    <2>. QED BY <2>1, <2>2
  <1>5. ASSUME NEW k \in D, FirstOf(k, D), k <= i - 1,
               acc.port = Numeral[ss[k].tokens[2]], acc.found_port = TRUE
        PROVE  PortTaken(ss, i, r)
    <2>1. r.port = Numeral[ss[k].tokens[2]] /\ r.found_port = TRUE
      BY <1>2, <1>5
    <2>2. k <= i
      <3>. HIDE DEF D
      <3>. QED BY <1>1, <1>5
    <2>. QED BY <1>5, <2>1, <2>2 DEF PortTaken
  <1>. QED BY <1>4, <1>5 DEF PortTaken

LEMMA RootTakenNext ==
  ASSUME NEW ss \in Seq(Statement), NEW i \in 1..Len(ss), NEW acc, NEW r,
         RootTaken(ss, i - 1, acc), Takes(acc, ss[i], r)
  PROVE  RootTaken(ss, i, r)
  <1>. DEFINE D == RootsIn(ss)
  <1>1. D \in SUBSET Nat /\ i \in Nat /\ (i \in D <=> RootAt(ss[i]))
    BY DEF RootsIn
  <1>2. r.root = IF i \in D THEN RootDir(ss[i].tokens[2]) ELSE acc.root
    BY <1>1 DEF Takes
  <1>3. CASE i \in D
    <2>1. LastOf(i, D, i)
      <3>. HIDE DEF D
      <3>. QED BY <1>1, <1>3 DEF LastOf
    <2>. QED BY <1>2, <1>3, <2>1 DEF RootTaken
  <1>4. CASE i \notin D
    <2>1. ASSUME \A j \in D : j > i - 1, acc.root = <<>> PROVE RootTaken(ss, i, r)
      <3>1. \A j \in D : j > i
        <4>. HIDE DEF D
        <4>. QED BY <1>1, <1>4, <2>1
      <3>. QED BY <1>2, <1>4, <2>1, <3>1 DEF RootTaken
    <2>2. ASSUME NEW k \in D, LastOf(k, D, i - 1), acc.root = RootDir(ss[k].tokens[2])
          PROVE  RootTaken(ss, i, r)
      <3>1. LastOf(k, D, i)
        <4>. HIDE DEF D
        <4>. QED BY <1>1, <1>4, <2>2 DEF LastOf
      <3>. QED BY <1>2, <1>4, <2>2, <3>1 DEF RootTaken
    <2>. QED BY <2>1, <2>2 DEF RootTaken
  <1>. QED BY <1>3, <1>4

LEMMA ThreadsTakenNext ==
  ASSUME NEW ss \in Seq(Statement), NEW i \in 1..Len(ss), NEW acc, NEW r,
         ThreadsTaken(ss, i - 1, acc), Takes(acc, ss[i], r)
  PROVE  ThreadsTaken(ss, i, r)
  <1>. DEFINE D == ThreadCounts(ss)
  <1>1. D \in SUBSET Nat /\ i \in Nat /\ (i \in D <=> ThreadsAt(ss[i]))
    BY DEF ThreadCounts
  <1>2. r.threads = IF i \in D THEN Threads(ss[i].tokens[2]) ELSE acc.threads
    BY <1>1 DEF Takes
  <1>3. CASE i \in D
    <2>1. LastOf(i, D, i)
      <3>. HIDE DEF D
      <3>. QED BY <1>1, <1>3 DEF LastOf
    <2>. QED BY <1>2, <1>3, <2>1 DEF ThreadsTaken
  <1>4. CASE i \notin D
    <2>1. ASSUME \A j \in D : j > i - 1, acc.threads = DefaultThreads PROVE ThreadsTaken(ss, i, r)
      <3>1. \A j \in D : j > i
        <4>. HIDE DEF D
        <4>. QED BY <1>1, <1>4, <2>1
      <3>. QED BY <1>2, <1>4, <2>1, <3>1 DEF ThreadsTaken
    <2>2. ASSUME NEW k \in D, LastOf(k, D, i - 1), acc.threads = Threads(ss[k].tokens[2])
          PROVE  ThreadsTaken(ss, i, r)
      <3>1. LastOf(k, D, i)
        <4>. HIDE DEF D
        <4>. QED BY <1>1, <1>4, <2>2 DEF LastOf
      <3>. QED BY <1>2, <1>4, <2>2, <3>1 DEF ThreadsTaken
    <2>. QED BY <2>1, <2>2 DEF ThreadsTaken
  <1>. QED BY <1>3, <1>4

\* The outer loop, on statements of at most two tokens.
LEMMA ShortStatements ==
  ASSUME NEW ss \in Seq(Statement), TwoTokens(ss)
  PROVE  ParseStatements(ss) \in Fields /\ Taken(ss, Len(ss), ParseStatements(ss))
  <1>. DEFINE n == Len(ss)
  <1>1. PICK f : /\ ParseStatements(ss) = f[n]
                 /\ \A i \in 0..n : f[i] = IF i = 0 THEN Unparsed ELSE ParseStatement(f[i - 1], ss[i])
                 /\ \A i \in 0..n : f[i] \in Honest(ss)
    BY StatementsLoop
  <1>. DEFINE T == {i \in 0..n : Taken(ss, i, f[i])}
  <1>2. n \in Nat /\ DOMAIN ss = 1..n
    OBVIOUS
  <1>3. 0 \in T
    <2>1. /\ Unparsed.port = NoPort /\ Unparsed.found_port = FALSE /\ Unparsed.root = <<>>
          /\ Unparsed.threads = DefaultThreads
      BY DEF Unparsed
    <2>2. 0 \in 0..n /\ f[0] = Unparsed
      BY <1>1, <1>2
    <2>3. \A j \in 1..n : j > 0
      BY <1>2
    <2>4. PortTaken(ss, 0, f[0])
      BY <1>2, <2>1, <2>2, <2>3 DEF PortTaken, Ports
    <2>5. RootTaken(ss, 0, f[0])
      BY <1>2, <2>1, <2>2, <2>3 DEF RootTaken, RootsIn
    <2>6. ThreadsTaken(ss, 0, f[0])
      BY <1>2, <2>1, <2>2, <2>3 DEF ThreadsTaken, ThreadCounts
    <2>. QED BY <2>2, <2>4, <2>5, <2>6 DEF Taken
  <1>4. ASSUME NEW i \in 1..n, i - 1 \in T PROVE i \in T
    <2>1. i \in 0..n /\ i - 1 \in 0..n /\ i # 0
      BY <1>2
    <2>2. f[i] = ParseStatement(f[i - 1], ss[i]) /\ f[i - 1] \in Honest(ss) /\ f[i] \in Honest(ss)
      BY <1>1, <2>1
    <2>3. Len(ss[i].tokens) <= 2
      BY <1>2 DEF TwoTokens
    <2>4. Takes(f[i - 1], ss[i], f[i])
      BY <2>2, <2>3, ShortStatement
    <2>5. f[i - 1] \in Fields /\ f[i] \in Fields
      BY <2>2 DEF Honest
    <2>6. Taken(ss, i - 1, f[i - 1])
      BY <1>4
    <2>7. PortTaken(ss, i, f[i])
      BY <2>4, <2>5, <2>6, PortTakenNext DEF Taken
    <2>8. RootTaken(ss, i, f[i])
      BY <2>4, <2>6, RootTakenNext DEF Taken
    <2>9. ThreadsTaken(ss, i, f[i])
      BY <2>4, <2>6, ThreadsTakenNext DEF Taken
    <2>. QED BY <2>1, <2>7, <2>8, <2>9 DEF Taken
  <1>5. n \in T
    <2>1. \A i \in 0..n : i \in T
      <3>. HIDE DEF T, n
      <3>. QED BY <1>2, <1>3, <1>4, FiniteInduction
    <2>. QED BY <1>2, <2>1
  <1>6. f[n] \in Fields
    BY <1>1, <1>2 DEF Honest
  <1>. QED BY <1>1, <1>5, <1>6

LEMMA LeastIs ==
  ASSUME NEW D \in SUBSET Nat, NEW k, FirstOf(k, D)
  PROVE  Least(D) = k
  <1>1. \A j \in D : (\A m \in D : j <= m) => j = k
    BY DEF FirstOf
  <1>2. k \in D /\ \A m \in D : k <= m
    BY DEF FirstOf
  <1>. QED BY <1>1, <1>2, Zenon DEF Least

LEMMA GreatestIs ==
  ASSUME NEW D \in SUBSET Nat, NEW n \in Nat, \A j \in D : j <= n, NEW k, LastOf(k, D, n)
  PROVE  Greatest(D) = k
  <1>1. k \in D /\ \A m \in D : k >= m
    BY DEF LastOf
  <1>2. \A j \in D : (\A m \in D : j >= m) => j = k
    BY <1>1
  <1>. QED BY <1>1, <1>2, Zenon DEF Greatest

\* As an unsigned int, a number that stoi returned is 0 only if it is 0.
LEMMA ThreadsAre ==
  ASSUME NEW t \in DOMAIN Numeral
  PROVE  Threads(t) = (IF Numeral[t] = 0 THEN DefaultThreads ELSE Numeral[t]) % UIntModulus
  <1>. DEFINE n == Numeral[t]
              m == UIntModulus
  <1>1. n \in Int /\ -m <= 2 * n /\ 2 * n < m /\ m \in Nat /\ m > 10 /\ m > 0
    BY NumeralAssumption, UIntAssumption DEF DefaultThreads
  <1>. HIDE DEF n, m
  <1>2. 10 % m = 10 /\ 0 % m = 0
    BY <1>1
  <1>3. CASE n = 0
    BY <1>2, <1>3 DEF Threads, DefaultThreads, n, m
  <1>4. CASE n # 0
    <2>1. n % m > 0
      <3>1. CASE n > 0
        <4>1. n % m = n
          BY <1>1, <3>1
        <4>. QED BY <3>1, <4>1
      <3>2. CASE n < 0
        <4>1. n % m = n + m
          BY <1>1, <3>2
        <4>. QED BY <1>1, <4>1
      <3>. QED BY <1>1, <1>4, <3>1, <3>2
    <2>. QED BY <1>4, <2>1 DEF Threads, n, m
  <1>. QED BY <1>3, <1>4

\* A number that fits in an int, or the default, and is not 0...
IntAndNotZero(n) == n \in Int /\ -UIntModulus < n /\ n < UIntModulus /\ n # 0

\* ...is as it was after its way through an unsigned int, unless it was negative,
\* and never becomes 0.
LEMMA ThroughUnsigned ==
  ASSUME NEW n, IntAndNotZero(n)
  PROVE  (n >= 0 => n % UIntModulus = n) /\ n % UIntModulus > 0
  <1>1. n \in Int /\ -UIntModulus < n /\ n < UIntModulus /\ n # 0
    BY DEF IntAndNotZero
  <1>2. UIntModulus \in Nat /\ UIntModulus > 0
    BY UIntAssumption DEF DefaultThreads
  <1>3. CASE n >= 0
    BY <1>1, <1>2, <1>3
  <1>4. CASE n < 0
    <2>1. n + UIntModulus \in 0..(UIntModulus - 1) /\ n + UIntModulus > 0
      BY <1>1, <1>2, <1>4
    <2>2. n % UIntModulus = n + UIntModulus
      BY <1>1, <1>2, <2>1
    <2>. QED BY <1>1, <1>4, <2>1, <2>2
  <1>. QED BY <1>1, <1>3, <1>4

\* So much for the loops: what they compute is what the statements say.
LEMMA MeansWhatItSays ==
  ASSUME NEW ss \in Seq(Statement), TwoTokens(ss)
  PROVE  LET config == ParseStatements(ss)
         IN /\ config.port = FirstPort(ss)
            /\ config.found_port <=> FirstPort(ss) # NoPort
            /\ config.root = LastRoot(ss)
            /\ config.threads = LastThreads(ss) % UIntModulus
            /\ IntAndNotZero(LastThreads(ss))
  <1>. DEFINE config == ParseStatements(ss)
              n == Len(ss)
              P == Directives(ss, PortWord, ValidPort)
              R == Directives(ss, RootWord, LAMBDA t : TRUE)
              C == Directives(ss, ThreadsWord, LAMBDA t : t \in DOMAIN Numeral)
  <1>1. config \in Fields /\ Taken(ss, n, config)
    BY ShortStatements
  <1>2. P = Ports(ss)
    BY DEF Directives, Ports, PortAt
  <1>3. R = RootsIn(ss)
    BY DEF Directives, RootsIn, RootAt
  <1>4. C = ThreadCounts(ss)
    BY DEF Directives, ThreadCounts, ThreadsAt
  <1>5. /\ n \in Nat
        /\ Ports(ss) \in SUBSET Nat /\ \A j \in Ports(ss) : j <= n
        /\ RootsIn(ss) \in SUBSET Nat /\ \A j \in RootsIn(ss) : j <= n
        /\ ThreadCounts(ss) \in SUBSET Nat /\ \A j \in ThreadCounts(ss) : j <= n
    BY DEF Ports, RootsIn, ThreadCounts
  <1>6. /\ FirstPort(ss) = IF P = {} THEN NoPort ELSE Numeral[ss[Least(P)].tokens[2]]
        /\ LastRoot(ss) = IF R = {} \/ ss[Greatest(R)].tokens[2] = Dot THEN <<>>
                          ELSE ss[Greatest(R)].tokens[2]
        /\ LastThreads(ss) = IF C = {} \/ Numeral[ss[Greatest(C)].tokens[2]] = 0 THEN DefaultThreads
                             ELSE Numeral[ss[Greatest(C)].tokens[2]]
    BY DEF FirstPort, LastRoot, LastThreads
  <1>. HIDE DEF config, n, P, R, C
  <1>7. config.port = FirstPort(ss) /\ (config.found_port <=> FirstPort(ss) # NoPort)
    <2>1. CASE (\A j \in Ports(ss) : j > n) /\ config.port = NoPort /\ config.found_port = FALSE
      <3>1. P = {}
        BY <1>2, <1>5, <2>1
      <3>. QED BY <1>6, <2>1, <3>1
    <2>2. ASSUME NEW k \in Ports(ss), FirstOf(k, Ports(ss)),
                 config.port = Numeral[ss[k].tokens[2]], config.found_port = TRUE
          PROVE  config.port = FirstPort(ss) /\ (config.found_port <=> FirstPort(ss) # NoPort)
      <3>1. Least(P) = k /\ P # {}
        BY <1>2, <1>5, <2>2, LeastIs
      <3>2. FirstPort(ss) = config.port
        BY <1>6, <2>2, <3>1
      <3>3. config.port # NoPort
        <4>1. Numeral[ss[k].tokens[2]] \in 1..MAX_PORT
          BY <2>2 DEF Ports, PortAt, ValidPort
        <4>2. MAX_PORT \in Int
          BY DEF MAX_PORT
        <4>. QED BY <2>2, <4>1, <4>2 DEF NoPort
      <3>. QED BY <2>2, <3>2, <3>3
    <2>. QED BY <1>1, <2>1, <2>2 DEF Taken, PortTaken
  <1>8. config.root = LastRoot(ss)
    <2>1. CASE (\A j \in RootsIn(ss) : j > n) /\ config.root = <<>>
      <3>1. R = {}
        BY <1>3, <1>5, <2>1
      <3>. QED BY <1>6, <2>1, <3>1
    <2>2. ASSUME NEW k \in RootsIn(ss), LastOf(k, RootsIn(ss), n),
                 config.root = RootDir(ss[k].tokens[2])
          PROVE  config.root = LastRoot(ss)
      <3>1. Greatest(R) = k /\ R # {}
        BY <1>3, <1>5, <2>2, GreatestIs
      <3>. QED BY <1>6, <2>2, <3>1 DEF RootDir
    <2>. QED BY <1>1, <2>1, <2>2 DEF Taken, RootTaken
  <1>9. config.threads = LastThreads(ss) % UIntModulus
    <2>1. CASE (\A j \in ThreadCounts(ss) : j > n) /\ config.threads = DefaultThreads
      <3>1. C = {}
        BY <1>4, <1>5, <2>1
      <3>2. LastThreads(ss) = DefaultThreads
        BY <1>6, <3>1
      <3>3. DefaultThreads % UIntModulus = DefaultThreads
        BY UIntAssumption DEF DefaultThreads
      <3>. QED BY <2>1, <3>2, <3>3
    <2>2. ASSUME NEW k \in ThreadCounts(ss), LastOf(k, ThreadCounts(ss), n),
                 config.threads = Threads(ss[k].tokens[2])
          PROVE  config.threads = LastThreads(ss) % UIntModulus
      <3>1. Greatest(C) = k /\ C # {}
        BY <1>4, <1>5, <2>2, GreatestIs
      <3>2. ss[k].tokens[2] \in DOMAIN Numeral
        BY <2>2 DEF ThreadCounts, ThreadsAt
      <3>3. LastThreads(ss) = IF Numeral[ss[k].tokens[2]] = 0 THEN DefaultThreads
                              ELSE Numeral[ss[k].tokens[2]]
        BY <1>6, <3>1
      <3>. QED BY <2>2, <3>2, <3>3, ThreadsAre
    <2>. QED BY <1>1, <2>1, <2>2 DEF Taken, ThreadsTaken
  <1>10. IntAndNotZero(LastThreads(ss))
    <2>1. CASE LastThreads(ss) = DefaultThreads
      BY <2>1, UIntAssumption DEF DefaultThreads, IntAndNotZero
    <2>2. CASE LastThreads(ss) # DefaultThreads
      <3>1. C # {}
        BY <1>6, <2>2
      <3>2. PICK k \in ThreadCounts(ss) : LastOf(k, ThreadCounts(ss), n)
        <4>1. ~ \A j \in ThreadCounts(ss) : j > n
          BY <1>4, <1>5, <3>1
        <4>. QED BY <1>1, <4>1 DEF Taken, ThreadsTaken
      <3>3. Greatest(C) = k
        BY <1>4, <1>5, <3>2, GreatestIs
      <3>4. ss[k].tokens[2] \in DOMAIN Numeral
        BY <3>2 DEF ThreadCounts, ThreadsAt
      <3>5. /\ LastThreads(ss) = Numeral[ss[k].tokens[2]]
            /\ LastThreads(ss) # 0
        BY <1>6, <2>2, <3>1, <3>3
      <3>6. /\ LastThreads(ss) \in Int /\ -UIntModulus <= 2 * LastThreads(ss)
            /\ 2 * LastThreads(ss) < UIntModulus
        BY <3>4, <3>5, NumeralAssumption
      <3>7. UIntModulus \in Nat /\ UIntModulus > 0
        BY UIntAssumption DEF DefaultThreads
      <3>. QED BY <3>5, <3>6, <3>7 DEF IntAndNotZero
    <2>. QED BY <2>1, <2>2
  <1>. QED BY <1>7, <1>8, <1>9, <1>10 DEF config

\* A valid port survives its way through a short.
LEMMA PortRoundTrip ==
  ASSUME NEW n \in Int, 1 <= n, n <= MAX_PORT
  PROVE  AsUnsignedShort(AsShort(n)) = n
  <1>1. n <= 65535
    BY DEF MAX_PORT
  <1>2. n % 65536 = n
    BY <1>1
  <1>3. CASE n < 32768
    BY <1>1, <1>2, <1>3 DEF AsShort, AsUnsignedShort
  <1>4. CASE n >= 32768
    <2>1. AsShort(n) = n - 65536
      BY <1>1, <1>2, <1>4 DEF AsShort
    <2>2. (n - 65536) % 65536 = n
      BY <1>1, <1>4
    <2>. QED BY <2>1, <2>2 DEF AsUnsignedShort
  <1>. QED BY <1>1, <1>3, <1>4

-----------------------------------------------------------------------------
(* main() *)

LEMMA StartupInitInv == StartupInit => IInv
  <1>. SUFFICES ASSUME StartupInit PROVE IInv
    OBVIOUS
  <1>. DEFINE none == <<>>
  <1>1. /\ text \in Seq(Char) /\ ended \in BOOLEAN /\ pos = 0
    <2>0. pos = 0
      BY DEF StartupInit, Init
    <2>1. CASE text = <<>> /\ ended = FALSE
      <3>1. <<>> \in Seq(Char)
        OBVIOUS
      <3>. QED BY <2>0, <2>1, <3>1, Zenon
    <2>2. CASE text \in Files /\ ended = TRUE
      BY <2>2, FilesAssumption DEF StartupInit, Init
    <2>. QED BY <2>1, <2>2 DEF StartupInit, Init
  <1>2. pos \in 0..Len(text)
    BY <1>1
  <1>3. none \in Token /\ none \in Block
    BY DEF Token, Block
  <1>4. /\ state = "INITIAL" /\ value = none /\ last_token_type = "START" /\ start_block = 0
        /\ config_stack = <<1>> /\ blocks = <<none>> /\ result = "running"
    BY DEF StartupInit, Init
  <1>. HIDE DEF none
  <1>5. /\ config_stack \in Seq(Nat) /\ Len(config_stack) = 1 /\ config_stack[1] = 1
        /\ DOMAIN config_stack = 1..1
    BY <1>4
  <1>6. blocks \in Seq(Block) /\ Len(blocks) = 1 /\ blocks[1] = none /\ DOMAIN blocks = 1..1
    BY <1>3, <1>4
  <1>7. TypeOK
    BY <1>1, <1>2, <1>3, <1>4, <1>5, <1>6 DEF TypeOK, Block
  <1>8. StackIsOpenPath
    BY <1>4, <1>5, <1>6 DEF StackIsOpenPath
  <1>9. Increasing /\ FreshStatement
    BY <1>4, <1>5 DEF Increasing, FreshStatement
  <1>10. ChildrenExist
    BY <1>6 DEF ChildrenExist, none
  <1>11. NoBlockLost
    BY <1>6 DEF NoBlockLost
  <1>. QED BY <1>7, <1>8, <1>9, <1>10, <1>11 DEF IInv

LEMMA StartupNextInv == IInv /\ [StartupNext]_startupVars => IInv'
  <1>. SUFFICES ASSUME IInv, [StartupNext]_startupVars PROVE IInv'
    OBVIOUS
  <1>1. TypeOK /\ Tree
    BY DEF IInv, Tree
  <1>2. CASE UNCHANGED vars
    <2>1. UNCHANGED parser
      BY <1>2 DEF vars, parser
    <2>2. LexerTypeOK'
      BY <1>1, <1>2 DEF vars, LexerTypeOK, TypeOK
    <2>. QED BY <1>1, <2>1, <2>2, ParserIdle, TypePartsNext DEF IInv, Tree
  <1>3. CASE OpenFails
    <2>1. Reject /\ UNCHANGED <<text, pos, ended, state, value>>
      BY <1>3 DEF OpenFails, Reject
    <2>2. LexerTypeOK'
      BY <1>1, <2>1 DEF LexerTypeOK, TypeOK
    <2>. QED BY <1>1, <2>1, <2>2, RejectStep, TypePartsNext DEF IInv, Tree
  <1>4. CASE Parsing
    <2>1. ASSUME NEW c \in Char, ParseToken(c) PROVE IInv'
      BY <1>1, <2>1, ParseTokenStep DEF IInv, Tree
    <2>2. CASE EndOfFile
      BY <1>1, <2>2, EndOfFileStep DEF IInv, Tree
    <2>. QED BY <1>4, <2>1, <2>2 DEF Parsing
  <1>5. CASE Run
    BY <1>2, <1>5 DEF Run
  <1>6. CASE Started \/ UNCHANGED startupVars
    BY <1>2, <1>6 DEF Started, startupVars
  <1>. QED BY <1>3, <1>4, <1>5, <1>6 DEF StartupNext

LEMMA Inductive == StartupSpec => []IInv
  BY StartupInitInv, StartupNextInv, PTL DEF StartupSpec

\* Whether Parse accepted the file or gave up on it, and wherever the loops of
\* ParseStatements skip or repeat a token: the acceptor listens on a port that
\* is a number in an outermost statement, unchanged by its way through a short.
THEOREM PortIsStated == StartupSpec => []ListensOnStatedPort
  <1>1. StartupInit => ListensOnStatedPort
    BY DEF StartupInit, ListensOnStatedPort
  <1>2. IInv /\ ListensOnStatedPort /\ [StartupNext]_startupVars => ListensOnStatedPort'
    <2>. SUFFICES ASSUME IInv, ListensOnStatedPort, [StartupNext]_startupVars
                  PROVE  ListensOnStatedPort'
      OBVIOUS
    <2>1. CASE Started \/ UNCHANGED startupVars
      BY <2>1 DEF Started, startupVars, vars, ListensOnStatedPort
    <2>2. CASE OpenFails \/ Parsing
      <3>1. main' = "Parse"
        BY <2>2 DEF OpenFails, Parsing
      <3>. QED BY <3>1 DEF ListensOnStatedPort
    <2>3. CASE Run
      <3>. DEFINE config == ParseStatements(blocks[1])
      <3>1. blocks' = blocks
        BY <2>3 DEF Run, vars
      <3>2. CASE config.found_port
        <4>1. endpoint' = AsUnsignedShort(AsShort(config.port))
          BY <2>3, <3>2 DEF Run
        <4>2. blocks[1] \in Seq(Statement)
          BY ParserTypes DEF IInv, Block
        <4>3. config \in Honest(blocks[1])
          BY <4>2, StatementsHonest
        <4>. HIDE DEF config
        <4>4. Stated(blocks[1], config.port)
          BY <3>2, <4>3 DEF Honest
        <4>a. PICK i \in DOMAIN blocks[1] : \E j \in DOMAIN blocks[1][i].tokens :
                 ValidPort(blocks[1][i].tokens[j]) /\ Numeral[blocks[1][i].tokens[j]] = config.port
          BY <4>4 DEF Stated
        <4>5. PICK j \in DOMAIN blocks[1][i].tokens :
                 ValidPort(blocks[1][i].tokens[j]) /\ Numeral[blocks[1][i].tokens[j]] = config.port
          BY <4>a
        <4>b. MAX_PORT \in Int
          BY DEF MAX_PORT
        <4>6. config.port \in Int /\ 1 <= config.port /\ config.port <= MAX_PORT
          <5>1. config.port \in 1..MAX_PORT
            BY <4>5 DEF ValidPort
          <5>. QED BY <4>b, <5>1
        <4>7. endpoint' = config.port
          BY <4>1, <4>6, PortRoundTrip
        <4>. QED BY <3>1, <4>5, <4>7 DEF ListensOnStatedPort
      <3>3. CASE ~config.found_port
        BY <2>3, <3>3 DEF Run, ListensOnStatedPort
      <3>. QED BY <3>2, <3>3
    <2>. QED BY <2>1, <2>2, <2>3 DEF StartupNext
  <1>. QED BY <1>1, <1>2, Inductive, PTL DEF StartupSpec

\* Whatever the file, if its outermost statements have at most two tokens, then
\* ParseStatements finds what they say: the first valid port, the last root and
\* the last number of threads (the default if that is 0, anything if it is
\* negative), and never a pool without threads.
THEOREM StatementsAreMeant == StartupSpec => []StatementsMean
  <1>1. IInv => StatementsMean
    <2>. SUFFICES ASSUME IInv, TwoTokens(blocks[1]) PROVE StatementsMean
      BY DEF StatementsMean
    <2>1. blocks[1] \in Seq(Statement)
      BY ParserTypes DEF IInv, Block
    <2>2. LET config == ParseStatements(blocks[1])
          IN /\ config.port = FirstPort(blocks[1])
             /\ config.found_port <=> FirstPort(blocks[1]) # NoPort
             /\ config.root = LastRoot(blocks[1])
             /\ config.threads = LastThreads(blocks[1]) % UIntModulus
             /\ IntAndNotZero(LastThreads(blocks[1]))
      BY <2>1, MeansWhatItSays
    <2>3. /\ LastThreads(blocks[1]) >= 0 =>
                LastThreads(blocks[1]) % UIntModulus = LastThreads(blocks[1])
          /\ LastThreads(blocks[1]) % UIntModulus > 0
      BY <2>2, ThroughUnsigned
    <2>. QED BY <2>2, <2>3 DEF StatementsMean
  <1>. QED BY <1>1, Inductive, PTL

\* The tokenizer never consumes more than the file has, and what the driver
\* builds are statements of tokens, whatever the file.
THEOREM TypeCorrect == StartupSpec => []TypeOK
  <1>1. IInv => TypeOK
    BY DEF IInv
  <1>. QED BY <1>1, Inductive, PTL

\* Parse never evaluates top() of an empty stack or back() of an empty list of
\* statements, and always adds to the innermost block whose brace is open.
THEOREM ParsesIntoOpenBlock == StartupSpec => []StackIsOpenPath
  <1>1. IInv => StackIsOpenPath
    BY DEF IInv
  <1>. QED BY <1>1, Inductive, PTL

\* No block is dropped by giving its statement a second one: child_block_ is
\* set once for each block, by the statement in front of its brace.
THEOREM BlocksKept == StartupSpec => []NoBlockLost
  <1>1. IInv => NoBlockLost
    BY DEF IInv
  <1>. QED BY <1>1, Inductive, PTL

-----------------------------------------------------------------------------
(* What ToString prints, and parsing it again *)

\* The same texts, joined: as far as they agree, so do the results.
LEMMA JoinsSame ==
  ASSUME NEW A, NEW n \in Nat, NEW m \in 0..n, NEW f, NEW g, NEW s, NEW t,
         Joins(f, n, A, s), Joins(g, m, A, t), \A i \in 1..m : s[i] = t[i]
  PROVE  f[m] = g[m]
  <1>. DEFINE T == {i \in 0..m : f[i] = g[i]}
  <1>1. 0 \in T
    BY DEF Joins
  <1>2. ASSUME NEW i \in 1..m, i - 1 \in T PROVE i \in T
    <2>1. i \in 1..n /\ i \in 0..m
      OBVIOUS
    <2>2. f[i] = f[i - 1] \o s[i] /\ g[i] = g[i - 1] \o t[i] /\ s[i] = t[i]
      BY <2>1 DEF Joins
    <2>. QED BY <1>2, <2>1, <2>2
  <1>3. m \in Nat /\ m \in 0..m
    OBVIOUS
  <1>. HIDE DEF T
  <1>4. m \in T
    BY <1>1, <1>2, <1>3, FiniteInduction
  <1>. QED BY <1>4 DEF T

\* Putting one more text behind the others.
LEMMA FlattenMore ==
  ASSUME NEW A, NEW texts \in Seq(Seq(A)), NEW more \in Seq(Seq(A)),
         Len(more) = Len(texts) + 1, \A i \in 1..Len(texts) : more[i] = texts[i]
  PROVE  FlattenSeq(more) = FlattenSeq(texts) \o more[Len(more)]
  <1>. DEFINE n == Len(texts)
  <1>1. n \in Nat
    OBVIOUS
  <1>2. PICK f : Joins(f, n, A, texts) /\ FlattenSeq(texts) = f[n]
    BY Flattened
  <1>. DEFINE N == n + 1
  <1>3. PICK g : Joins(g, N, A, more) /\ FlattenSeq(more) = g[N]
    BY Flattened
  <1>6. \A i \in 1..n : more[i] = texts[i]
    OBVIOUS
  <1>7. Len(more) = N
    OBVIOUS
  <1>. HIDE DEF n
  <1>4. N \in Nat /\ n \in 0..N /\ N \in 1..N /\ N - 1 = n
    BY <1>1
  <1>. HIDE DEF N
  <1>5. g[n] = f[n]
    BY <1>2, <1>3, <1>4, <1>6, JoinsSame
  <1>8. g[N] = g[n] \o more[N]
    <2>1. g[N] = g[N - 1] \o more[N]
      BY <1>3, <1>4 DEF Joins
    <2>. QED BY <2>1, <1>4
  <1>. QED BY <1>2, <1>3, <1>5, <1>7, <1>8

LEMMA FlattenType ==
  ASSUME NEW A, NEW texts \in Seq(Seq(A))
  PROVE  FlattenSeq(texts) \in Seq(A)
  <1>. DEFINE n == Len(texts)
  <1>1. n \in Nat
    OBVIOUS
  <1>2. PICK f : Joins(f, n, A, texts) /\ FlattenSeq(texts) = f[n]
    BY Flattened
  <1>. HIDE DEF n
  <1>3. n \in 0..n
    BY <1>1
  <1>. QED BY <1>2, <1>3 DEF Joins

LEMMA FlattenNone ==
  ASSUME NEW texts, Len(texts) = 0
  PROVE  FlattenSeq(texts) = texts
  BY DEF FlattenSeq

-----------------------------------------------------------------------------
(* What ToString prints *)

\* The characters it may print.
Printable == Char \cup {" ", "\n", "{", "}", ";"}

Text == Seq(Printable)

LEMMA TokenIsText ==
  ASSUME NEW w \in Token
  PROVE  w \in Text
  <1>1. Char \subseteq Printable
    BY DEF Printable
  <1>2. w \in Seq(Char)
    BY DEF Token
  <1>. QED BY <1>1, <1>2, SeqMonotonic DEF Text

LEMMA Prints ==
  /\ <<>> \in Text /\ <<" ">> \in Text /\ <<"\n">> \in Text /\ <<"}">> \in Text /\ <<";">> \in Text
  /\ <<" ", "{", "\n">> \in Text /\ <<";", "\n">> \in Text /\ <<"}", "\n">> \in Text
  <1>1. " " \in Printable /\ "\n" \in Printable /\ "{" \in Printable /\ "}" \in Printable /\ ";" \in Printable
    BY DEF Printable
  <1>. HIDE DEF Printable
  <1>2. \A a \in Printable : <<a>> \in Seq(Printable)
    OBVIOUS
  <1>3. \A a, b \in Printable : <<a, b>> \in Seq(Printable)
    OBVIOUS
  <1>4. \A a, b, c \in Printable : <<a, b, c>> \in Seq(Printable)
    OBVIOUS
  <1>5. <<>> \in Seq(Printable)
    OBVIOUS
  <1>. QED BY <1>1, <1>2, <1>3, <1>4, <1>5 DEF Text

LEMMA TextJoined ==
  ASSUME NEW x \in Text, NEW y \in Text
  PROVE  x \o y \in Text
  BY ConcatProperties DEF Text

LEMMA TextAssociates ==
  ASSUME NEW x \in Text, NEW y \in Text, NEW z \in Text
  PROVE  (x \o y) \o z = x \o (y \o z)
  BY ConcatAssociative DEF Text

LEMMA TextEmpty ==
  ASSUME NEW x \in Text
  PROVE  x \o <<>> = x /\ <<>> \o x = x
  BY ConcatEmptySeq DEF Text

LEMMA TwoCharacters ==
  ASSUME NEW a, NEW c
  PROVE  <<a>> \o <<c>> = <<a, c>>
  <1>. DEFINE S == {a, c}
              s == <<a>>
              t == <<c>>
              u == <<a, c>>
  <1>1. s \in Seq(S) /\ Len(s) = 1 /\ s[1] = a
    OBVIOUS
  <1>2. t \in Seq(S) /\ Len(t) = 1 /\ t[1] = c
    OBVIOUS
  <1>3. u \in Seq(S) /\ Len(u) = 2 /\ u[1] = a /\ u[2] = c
    OBVIOUS
  <1>. HIDE DEF S, s, t, u
  <1>4. s \o t \in Seq(S) /\ Len(s \o t) = 2 /\ (s \o t)[1] = a /\ (s \o t)[2] = c
    BY <1>1, <1>2, ConcatProperties
  <1>5. \A i \in 1..2 : i = 1 \/ i = 2
    OBVIOUS
  <1>6. s \o t = u
    BY <1>3, <1>4, <1>5, SeqEqual
  <1>. QED BY <1>6 DEF s, t, u

\* The i-th token of a statement, as it is printed.
WordText(tokens, i) == IF i = 1 THEN tokens[i] ELSE <<" ">> \o tokens[i]

WordTexts(tokens) == [i \in DOMAIN tokens |-> WordText(tokens, i)]

LEMMA WordTextsType ==
  ASSUME NEW ts \in Seq(Token)
  PROVE  /\ WordTexts(ts) \in Seq(Text) /\ Len(WordTexts(ts)) = Len(ts)
         /\ \A i \in 1..Len(ts) : WordTexts(ts)[i] = WordText(ts, i)
         /\ Words(ts) = FlattenSeq(WordTexts(ts)) /\ Words(ts) \in Text
  <1>. DEFINE n == Len(ts)
  <1>1. n \in Nat /\ DOMAIN ts = 1..n /\ \A i \in 1..n : ts[i] \in Token
    OBVIOUS
  <1>2. ASSUME NEW i \in 1..n PROVE WordText(ts, i) \in Text
    <2>1. ts[i] \in Text /\ <<" ">> \o ts[i] \in Text
      BY <1>1, TokenIsText, TextJoined, Prints
    <2>. QED BY <2>1 DEF WordText
  <1>3. WordTexts(ts) \in [1..n -> Text]
    BY <1>1, <1>2 DEF WordTexts
  <1>4. WordTexts(ts) \in Seq(Text) /\ Len(WordTexts(ts)) = n
    BY <1>1, <1>3, SeqDef, LenProperties
  <1>5. \A i \in 1..n : WordTexts(ts)[i] = WordText(ts, i)
    BY <1>1 DEF WordTexts
  <1>6. Words(ts) = FlattenSeq(WordTexts(ts))
    BY DEF Words, WordTexts, WordText
  <1>7. FlattenSeq(WordTexts(ts)) \in Text
    BY <1>4, FlattenType DEF Text
  <1>. QED BY <1>4, <1>5, <1>6, <1>7

\* One word behind the ones there are.
LEMMA WordsMore ==
  ASSUME NEW ts \in Seq(Token), NEW w \in Token
  PROVE  Words(Append(ts, w)) = IF ts = <<>> THEN w ELSE Words(ts) \o (<<" ">> \o w)
  <1>. DEFINE more == Append(ts, w)
              n == Len(ts)
  <1>1. /\ n \in Nat /\ more \in Seq(Token) /\ Len(more) = n + 1 /\ more[n + 1] = w
        /\ \A i \in 1..n : more[i] = ts[i]
        /\ ts = <<>> <=> n = 0
    BY AppendProperties, LenProperties, EmptySeq
  <1>. HIDE DEF more, n
  <1>2. \A i \in 1..n : WordTexts(more)[i] = WordTexts(ts)[i]
    <2>. SUFFICES ASSUME NEW i \in 1..n PROVE WordTexts(more)[i] = WordTexts(ts)[i]
      OBVIOUS
    <2>1. i \in 1..(n + 1)
      BY <1>1
    <2>2. WordTexts(more)[i] = WordText(more, i) /\ WordTexts(ts)[i] = WordText(ts, i)
      BY <1>1, <2>1, WordTextsType DEF n
    <2>. QED BY <1>1, <2>2 DEF WordText
  <1>3. Len(WordTexts(more)) = n + 1 /\ Len(WordTexts(ts)) = n
    BY <1>1, WordTextsType DEF n
  <1>4. WordTexts(more) \in Seq(Seq(Printable)) /\ WordTexts(ts) \in Seq(Seq(Printable))
    BY <1>1, WordTextsType DEF Text
  <1>5. FlattenSeq(WordTexts(more)) = FlattenSeq(WordTexts(ts)) \o WordTexts(more)[n + 1]
    BY <1>2, <1>3, <1>4, FlattenMore
  <1>6. WordTexts(more)[n + 1] = WordText(more, n + 1)
    <2>1. n + 1 \in 1..(n + 1)
      BY <1>1
    <2>. QED BY <1>1, <2>1, WordTextsType
  <1>7. Words(more) = Words(ts) \o WordText(more, n + 1)
    BY <1>1, <1>5, <1>6, WordTextsType
  <1>8. CASE ts = <<>>
    <2>1. WordText(more, n + 1) = w
      BY <1>1, <1>8 DEF WordText
    <2>2. WordTexts(ts) = <<>>
      <3>1. n = 0
        BY <1>1, <1>8
      <3>. QED BY <1>3, <1>4, <3>1, EmptySeq
    <2>3. Words(ts) = <<>>
      <3>1. Len(WordTexts(ts)) = 0
        BY <1>1, <1>3, <1>8
      <3>. QED BY <2>2, <3>1, WordTextsType, FlattenNone
    <2>. QED BY <1>7, <1>8, <2>1, <2>3, TokenIsText, TextEmpty DEF more
  <1>9. CASE ts # <<>>
    <2>1. WordText(more, n + 1) = <<" ">> \o w
      <3>1. n + 1 # 1
        BY <1>1, <1>9
      <3>. QED BY <1>1, <3>1 DEF WordText
    <2>. QED BY <1>7, <1>9, <2>1 DEF more
  <1>. QED BY <1>8, <1>9

\* The texts of the statements of a block, where g[b] is the text of block b.
StatementTexts(g, ss) == [i \in DOMAIN ss |-> StatementToString(ss[i], g)]

BlockText(g, ss) == FlattenSeq(StatementTexts(g, ss))

LEMMA StatementText ==
  ASSUME NEW g \in [Nat -> Text], NEW s \in Statement
  PROVE  /\ Words(s.tokens) \in Text /\ StatementToString(s, g) \in Text
         /\ s.child = 0 => StatementToString(s, g) = Words(s.tokens) \o <<";", "\n">>
         /\ s.child # 0 => StatementToString(s, g) =
              (Words(s.tokens) \o <<" ", "{", "\n">>) \o (g[s.child] \o <<"}", "\n">>)
  <1>1. s.tokens \in Seq(Token) /\ s.child \in Nat /\ g[s.child] \in Text
    BY StatementFields
  <1>. DEFINE w == Words(s.tokens)
              b == g[s.child]
              open == <<" ", "{", "\n">>
              close == <<"}">>
              end == <<";">>
              line == <<"\n">>
  <1>2. w \in Text
    BY <1>1, WordTextsType
  <1>3. /\ StatementToString(s, g) = w \o (IF s.child # 0 THEN open \o b \o close ELSE end) \o line
    BY DEF StatementToString
  <1>4. end \o line = <<";", "\n">> /\ close \o line = <<"}", "\n">>
    <2>. QED BY TwoCharacters
  <1>5. open \in Text /\ close \in Text /\ end \in Text /\ line \in Text /\ b \in Text
    BY <1>1, Prints
  <1>. HIDE DEF w, b, open, close, end, line
  <1>6. CASE s.child = 0
    <2>1. StatementToString(s, g) = (w \o end) \o line
      BY <1>3, <1>6
    <2>2. (w \o end) \o line = w \o (end \o line)
      BY <1>2, <1>5, TextAssociates
    <2>3. StatementToString(s, g) \in Text
      BY <1>2, <1>5, <2>1, TextJoined
    <2>. QED BY <1>2, <1>4, <1>6, <2>1, <2>2, <2>3 DEF w
  <1>7. CASE s.child # 0
    <2>1. StatementToString(s, g) = (w \o ((open \o b) \o close)) \o line
      BY <1>3, <1>7
    <2>2. open \o b \in Text /\ (open \o b) \o close \in Text /\ w \o open \in Text /\ b \o close \in Text
      BY <1>2, <1>5, TextJoined
    <2>3. (open \o b) \o close = open \o (b \o close)
      BY <1>5, TextAssociates, ZenonT(60)
    <2>4. w \o (open \o (b \o close)) = (w \o open) \o (b \o close)
      <3>. DEFINE v == b \o close
      <3>1. v \in Text
        BY <2>2
      <3>. HIDE DEF v
      <3>2. w \o (open \o v) = (w \o open) \o v
        BY <1>2, <1>5, <3>1, TextAssociates, ZenonT(60)
      <3>. QED BY <3>2 DEF v
    <2>5. ((w \o open) \o (b \o close)) \o line = (w \o open) \o ((b \o close) \o line)
      <3>. DEFINE u == w \o open
                  v == b \o close
      <3>1. u \in Text /\ v \in Text /\ line \in Text
        BY <1>5, <2>2
      <3>. HIDE DEF u, v
      <3>2. (u \o v) \o line = u \o (v \o line)
        BY <3>1, TextAssociates
      <3>. QED BY <3>2 DEF u, v
    <2>6. (b \o close) \o line = b \o (close \o line)
      BY <1>5, TextAssociates
    <2>7. StatementToString(s, g) = (w \o open) \o (b \o <<"}", "\n">>)
      BY <1>4, <2>1, <2>3, <2>4, <2>5, <2>6
    <2>8. StatementToString(s, g) \in Text
      BY <1>2, <1>5, <2>1, <2>2, TextJoined
    <2>. QED BY <1>2, <1>7, <2>7, <2>8 DEF w, b, open
  <1>. QED BY <1>6, <1>7

LEMMA StatementTextsType ==
  ASSUME NEW g \in [Nat -> Text], NEW ss \in Block
  PROVE  /\ StatementTexts(g, ss) \in Seq(Text) /\ Len(StatementTexts(g, ss)) = Len(ss)
         /\ \A i \in 1..Len(ss) : StatementTexts(g, ss)[i] = StatementToString(ss[i], g)
         /\ BlockText(g, ss) \in Text
  <1>. DEFINE n == Len(ss)
  <1>1. n \in Nat /\ DOMAIN ss = 1..n /\ \A i \in 1..n : ss[i] \in Statement
    BY DEF Block
  <1>2. \A i \in 1..n : StatementToString(ss[i], g) \in Text
    BY <1>1, StatementText
  <1>3. StatementTexts(g, ss) \in [1..n -> Text]
    BY <1>1, <1>2 DEF StatementTexts
  <1>4. StatementTexts(g, ss) \in Seq(Text) /\ Len(StatementTexts(g, ss)) = n
    BY <1>1, <1>3, SeqDef, LenProperties
  <1>5. \A i \in 1..n : StatementTexts(g, ss)[i] = StatementToString(ss[i], g)
    BY <1>1 DEF StatementTexts
  <1>6. BlockText(g, ss) \in Text
    BY <1>4, FlattenType DEF Text, BlockText
  <1>. QED BY <1>4, <1>5, <1>6

\* Two statements that say the same, with blocks that say the same.
SameText(s, t, g, h) ==
    s.tokens = t.tokens /\ s.child = t.child /\ (s.child # 0 => g[s.child] = h[s.child])

LEMMA BlockTextSame ==
  ASSUME NEW g \in [Nat -> Text], NEW h \in [Nat -> Text], NEW ss \in Block, NEW tt \in Block,
         Len(ss) = Len(tt), \A i \in 1..Len(ss) : SameText(ss[i], tt[i], g, h)
  PROVE  BlockText(g, ss) = BlockText(h, tt)
  <1>1. \A i \in 1..Len(ss) : StatementTexts(g, ss)[i] = StatementTexts(h, tt)[i]
    <2>. SUFFICES ASSUME NEW i \in 1..Len(ss)
                  PROVE  StatementToString(ss[i], g) = StatementToString(tt[i], h)
      BY StatementTextsType
    <2>1. SameText(ss[i], tt[i], g, h)
      OBVIOUS
    <2>. QED BY <2>1 DEF SameText, StatementToString
  <1>2. StatementTexts(g, ss) = StatementTexts(h, tt)
    BY <1>1, StatementTextsType, SeqEqual
  <1>. QED BY <1>2 DEF BlockText

LEMMA BlockTextMore ==
  ASSUME NEW g \in [Nat -> Text], NEW ss \in Block, NEW more \in Block,
         Len(more) = Len(ss) + 1, \A i \in 1..Len(ss) : more[i] = ss[i]
  PROVE  BlockText(g, more) = BlockText(g, ss) \o StatementToString(more[Len(more)], g)
  <1>. DEFINE n == Len(ss)
  <1>1. n \in Nat /\ n + 1 \in 1..(n + 1) /\ 1..n \subseteq 1..(n + 1)
    BY DEF Block
  <1>2. \A i \in 1..n : StatementTexts(g, more)[i] = StatementTexts(g, ss)[i]
    <2>. SUFFICES ASSUME NEW i \in 1..n PROVE StatementTexts(g, more)[i] = StatementTexts(g, ss)[i]
      OBVIOUS
    <2>1. i \in 1..Len(more)
      BY <1>1
    <2>. QED BY <2>1, StatementTextsType
  <1>3. Len(StatementTexts(g, more)) = Len(StatementTexts(g, ss)) + 1
    BY StatementTextsType
  <1>4. StatementTexts(g, more)[Len(more)] = StatementToString(more[Len(more)], g)
    BY <1>1, StatementTextsType
  <1>5. StatementTexts(g, more) \in Seq(Seq(Printable)) /\ StatementTexts(g, ss) \in Seq(Seq(Printable))
    BY StatementTextsType DEF Text
  <1>6. FlattenSeq(StatementTexts(g, more)) =
          FlattenSeq(StatementTexts(g, ss)) \o StatementTexts(g, more)[Len(StatementTexts(g, more))]
    <2>1. \A i \in 1..Len(StatementTexts(g, ss)) : StatementTexts(g, more)[i] = StatementTexts(g, ss)[i]
      BY <1>2, StatementTextsType
    <2>. QED BY <1>3, <1>5, <2>1, FlattenMore
  <1>. QED BY <1>4, <1>6, StatementTextsType DEF BlockText

\* A block without its last statement, and the tokens of that one.
LEMMA BlockFront ==
  ASSUME NEW ss \in Block, ss # <<>>
  PROVE  /\ Front(ss) \in Block /\ Len(ss) = Len(Front(ss)) + 1 /\ Len(Front(ss)) = Len(ss) - 1
         /\ \A i \in 1..(Len(ss) - 1) : Front(ss)[i] = ss[i]
         /\ Len(ss) \in 1..Len(ss) /\ Len(ss) \in Nat /\ ss[Len(ss)] \in Statement
  <1>1. Len(ss) \in Nat /\ Len(ss) >= 1 /\ \A i \in 1..(Len(ss) - 1) : ss[i] \in Statement
    BY DEF Block
  <1>2. ss[Len(ss)] \in Statement
    BY <1>1 DEF Block
  <1>. DEFINE n == Len(ss)
              m == n - 1
  <1>3. m \in Int /\ 1 <= n /\ n \in Nat
    BY <1>1
  <1>4. /\ Front(ss) \in Seq(Statement) /\ Len(Front(ss)) = IF 1 <= m THEN m - 1 + 1 ELSE 0
        /\ \A i \in 1..(m - 1 + 1) : Front(ss)[i] = ss[1 + i - 1]
    <2>1. \A i \in 1..m : ss[i] \in Statement
      BY <1>1
    <2>2. Front(ss) = SubSeq(ss, 1, m)
      BY DEF Front
    <2>. HIDE DEF n, m
    <2>. QED BY <1>3, <2>1, <2>2, SubSeqProperties
  <1>5. m \in Nat /\ m - 1 + 1 = m
    BY <1>3
  <1>6. Len(Front(ss)) = m /\ \A i \in 1..m : Front(ss)[i] = ss[i]
    <2>. HIDE DEF m
    <2>1. \A i \in 1..m : 1 + i - 1 = i
      OBVIOUS
    <2>. QED BY <1>4, <1>5, <2>1
  <1>7. n = m + 1 /\ n \in 1..n
    BY <1>3
  <1>. HIDE DEF m
  <1>. QED BY <1>2, <1>3, <1>4, <1>6, <1>7 DEF m, Block

\* The text of a block whose last statement goes on.
Begun(g, ss) == BlockText(g, Front(ss)) \o Words(ss[Len(ss)].tokens)

LEMMA BegunText ==
  ASSUME NEW g \in [Nat -> Text], NEW ss \in Block, ss # <<>>
  PROVE  /\ Begun(g, ss) \in Text
         /\ BlockText(g, ss) = BlockText(g, Front(ss)) \o StatementToString(ss[Len(ss)], g)
         /\ ss[Len(ss)].child = 0 => BlockText(g, ss) = Begun(g, ss) \o <<";", "\n">>
         /\ ss[Len(ss)].child # 0 => BlockText(g, ss) =
              (Begun(g, ss) \o <<" ", "{", "\n">>) \o (g[ss[Len(ss)].child] \o <<"}", "\n">>)
  <1>. DEFINE s == ss[Len(ss)]
              f == BlockText(g, Front(ss))
              w == Words(s.tokens)
              b == g[s.child]
              open == <<" ", "{", "\n">>
              close == <<"}", "\n">>
              end == <<";", "\n">>
  <1>1. /\ Front(ss) \in Block /\ Len(ss) = Len(Front(ss)) + 1 /\ s \in Statement
        /\ \A i \in 1..Len(Front(ss)) : ss[i] = Front(ss)[i]
    BY BlockFront
  <1>2. BlockText(g, ss) = f \o StatementToString(s, g)
    BY <1>1, BlockTextMore
  <1>3. f \in Text /\ w \in Text
    BY <1>1, StatementText, StatementTextsType
  <1>4. Begun(g, ss) = f \o w /\ f \o w \in Text
    BY <1>3, TextJoined DEF Begun
  <1>5. b \in Text /\ open \in Text /\ close \in Text /\ end \in Text
    BY <1>1, StatementFields, Prints
  <1>6. /\ s.child = 0 => StatementToString(s, g) = w \o end
        /\ s.child # 0 => StatementToString(s, g) = (w \o open) \o (b \o close)
    BY <1>1, StatementText
  <1>. HIDE DEF s, f, w, b, open, close, end
  <1>7. f \o (w \o end) = (f \o w) \o end
    BY <1>3, <1>5, TextAssociates, ZenonT(60)
  <1>8. f \o ((w \o open) \o (b \o close)) = ((f \o w) \o open) \o (b \o close)
    <2>1. w \o open \in Text /\ b \o close \in Text
      BY <1>3, <1>5, TextJoined
    <2>2. f \o ((w \o open) \o (b \o close)) = (f \o (w \o open)) \o (b \o close)
      BY <1>3, <2>1, TextAssociates
    <2>3. f \o (w \o open) = (f \o w) \o open
      BY <1>3, <1>5, TextAssociates, ZenonT(60)
    <2>. QED BY <2>2, <2>3
  <1>9. BlockText(g, ss) = f \o StatementToString(s, g)
    BY <1>2
  <1>10. s.child = 0 => BlockText(g, ss) = Begun(g, ss) \o end
    BY <1>4, <1>6, <1>7, <1>9
  <1>11. s.child # 0 => BlockText(g, ss) = (Begun(g, ss) \o open) \o (b \o close)
    BY <1>4, <1>6, <1>8, <1>9
  <1>. QED BY <1>4, <1>9, <1>10, <1>11 DEF s, f, b, open, close, end

-----------------------------------------------------------------------------
(* What the driver does to what ToString would print *)

OnStack(b) == \E i \in 1..Len(config_stack) : config_stack[i] = b

\* The text of the block that is open, up to now.
Current(g) == IF last_token_type = "NORMAL" THEN Begun(g, blocks[top]) ELSE BlockText(g, blocks[top])

\* x is the text of the tree as far as it is built: g[b] is the text of a block
\* that is closed, and D[d] what is printed before the d-th block on the stack.
Laid(g, D, x) ==
    /\ g \in [Nat -> Text] /\ D \in [Nat -> Text] /\ D[1] = <<>>
    /\ \A b \in 1..Len(blocks) : ~OnStack(b) => g[b] = BlockText(g, blocks[b])
    /\ \A d \in 1..(Len(config_stack) - 1) :
          D[d + 1] = (D[d] \o Begun(g, blocks[config_stack[d]])) \o <<" ", "{", "\n">>
    /\ last_token_type = "NORMAL" => blocks[top][Len(blocks[top])].tokens # <<>>
    /\ x = D[Len(config_stack)] \o Current(g)

LEMMA FrontSame ==
  ASSUME NEW a \in Block, NEW b \in Block, a # <<>>, b # <<>>, Len(a) = Len(b),
         \A i \in 1..(Len(a) - 1) : a[i] = b[i]
  PROVE  Front(a) = Front(b)
  <1>1. /\ Front(a) \in Seq(Statement) /\ Front(b) \in Seq(Statement) /\ Len(Front(a)) = Len(Front(b))
        /\ Len(Front(a)) = Len(a) - 1
    BY BlockFront DEF Block
  <1>2. \A i \in 1..Len(Front(a)) : Front(a)[i] = Front(b)[i]
    BY <1>1, BlockFront
  <1>. QED BY <1>1, <1>2, SeqEqual

\* A word goes to the statement there is...
LEMMA WordGoesOn ==
  ASSUME NEW a \in Block, a # <<>>, NEW token \in Token, NEW b,
         b = [a EXCEPT ![Len(a)].tokens = Append(@, token)]
  PROVE  /\ b \in Block /\ b # <<>> /\ Front(b) = Front(a)
         /\ a[Len(a)].tokens \in Seq(Token)
         /\ b[Len(b)].tokens = Append(a[Len(a)].tokens, token)
  <1>1. Grows(a, b) /\ Len(b) = Len(a)
    BY WordAdded
  <1>2. b \in Block /\ b # <<>>
    BY <1>1 DEF Grows
  <1>. DEFINE n == Len(a)
              s == a[n]
              r == [s EXCEPT !.tokens = Append(@, token)]
  <1>3. n \in Nat /\ n \in 1..n /\ s \in Statement /\ DOMAIN a = 1..n
    BY BlockFront, LenProperties DEF Block
  <1>4. b = [a EXCEPT ![n] = r]
    OBVIOUS
  <1>5. r.tokens = Append(s.tokens, token)
    BY <1>3 DEF Statement
  <1>. HIDE DEF n, r
  <1>6. b[n] = r /\ \A i \in 1..(n - 1) : b[i] = a[i]
    BY <1>3, <1>4
  <1>7. s.tokens \in Seq(Token)
    BY <1>3, StatementFields
  <1>8. Front(b) = Front(a)
    BY <1>1, <1>2, <1>6, FrontSame DEF n
  <1>. QED BY <1>1, <1>2, <1>5, <1>6, <1>7, <1>8 DEF n

LEMMA OneMore ==
  ASSUME NEW a \in Block, NEW e \in Statement
  PROVE  /\ Append(a, e) \in Block /\ Append(a, e) # <<>> /\ Front(Append(a, e)) = a
         /\ Append(a, e)[Len(Append(a, e))] = e
  <1>. DEFINE s == Append(a, e)
              n == Len(a)
  <1>1. s \in Block /\ s # <<>> /\ Len(s) = n + 1 /\ s[n + 1] = e /\ \A i \in 1..n : s[i] = a[i]
    BY AppendProperties DEF Block
  <1>2. n \in Nat /\ n + 1 - 1 = n
    BY DEF Block
  <1>. HIDE DEF n, s
  <1>3. Front(s) \in Block /\ Len(Front(s)) = n
    BY <1>1, <1>2, BlockFront
  <1>4. \A i \in 1..n : Front(s)[i] = s[i]
    <2>1. Len(s) - 1 = n
      BY <1>1, <1>2
    <2>2. \A i \in 1..(Len(s) - 1) : Front(s)[i] = s[i]
      BY <1>1, BlockFront
    <2>. QED BY <2>1, <2>2
  <1>5. Front(s) = a
    BY <1>1, <1>3, <1>4, SeqEqual DEF Block, n
  <1>. QED BY <1>1, <1>5 DEF s

\* ...or begins a statement.
LEMMA WordBegins ==
  ASSUME NEW a \in Block, NEW token \in Token
  PROVE  LET s == Append(a, [tokens |-> <<>>, child |-> 0])
             b == [s EXCEPT ![Len(s)].tokens = Append(@, token)]
         IN /\ b \in Block /\ b # <<>> /\ Front(b) = a
            /\ b[Len(b)].tokens = Append(<<>>, token)
  <1>. DEFINE none == <<>>
              e == [tokens |-> none, child |-> 0]
              s == Append(a, e)
              b == [s EXCEPT ![Len(s)].tokens = Append(@, token)]
  <1>1. none \in Seq(Token) /\ 0 \in Nat
    OBVIOUS
  <1>2. e \in Statement /\ e.tokens = none
    <2>. HIDE DEF none
    <2>. QED BY <1>1 DEF Statement
  <1>. HIDE DEF e
  <1>4. s \in Block /\ s # <<>> /\ Front(s) = a /\ s[Len(s)] = e
    BY <1>2, OneMore
  <1>. HIDE DEF s
  <1>6. b \in Block /\ b # <<>> /\ Front(b) = Front(s) /\ b[Len(b)].tokens = Append(s[Len(s)].tokens, token)
    BY <1>4, WordGoesOn
  <1>. HIDE DEF b
  <1>7. b \in Block /\ b # <<>> /\ Front(b) = a /\ b[Len(b)].tokens = Append(none, token)
    BY <1>2, <1>4, <1>6
  <1>. QED BY <1>7 DEF none, b, s, e

\* Only the block that is open changes.
LEMMA LaidGrows ==
  ASSUME IInv, NEW g, NEW D, NEW x, Laid(g, D, x), NEW s \in Block, s # <<>>, NEW p \in Text,
         Begun(g, s) = Current(g) \o p, s[Len(s)].tokens # <<>>,
         blocks' = [blocks EXCEPT ![top] = s], last_token_type' = "NORMAL", UNCHANGED config_stack
  PROVE  Laid(g, D, x \o p)'
  <1>. DEFINE n == Len(blocks)
              k == Len(config_stack)
  <1>1. /\ k \in Nat /\ k >= 1 /\ n \in Nat /\ blocks \in [1..n -> Block] /\ top \in 1..n
        /\ blocks[top] \in Block /\ blocks \in Seq(Block)
        /\ \A i \in 1..k : config_stack[i] \in 1..n
    BY ParserTypes DEF IInv
  <1>2. /\ blocks' \in Seq(Block) /\ Len(blocks') = n /\ blocks'[top] = s
        /\ \A b \in 1..n : b # top => blocks'[b] = blocks[b]
    BY <1>1, ExceptSeq
  <1>3. top' = top /\ Len(config_stack') = k /\ config_stack' = config_stack
    BY DEF top
  <1>4. OnStack(top) /\ \A b : OnStack(b)' <=> OnStack(b)
    <2>1. k \in 1..k
      BY <1>1
    <2>. QED BY <2>1 DEF OnStack, top
  <1>5. \A b \in 1..n : ~OnStack(b) => g[b] = BlockText(g, blocks'[b])
    BY <1>2, <1>4 DEF Laid
  <1>6. ASSUME NEW d \in 1..(k - 1)
        PROVE  D[d + 1] = (D[d] \o Begun(g, blocks'[config_stack[d]])) \o <<" ", "{", "\n">>
    <2>1. d \in 1..k /\ k \in 1..k /\ d < k
      BY <1>1
    <2>2. config_stack[d] \in 1..n /\ config_stack[d] < config_stack[k] /\ config_stack[k] \in 1..n
      BY <1>1, <2>1 DEF IInv, Increasing
    <2>3. config_stack[d] # top
      BY <1>1, <2>2 DEF top
    <2>4. blocks'[config_stack[d]] = blocks[config_stack[d]]
      BY <1>2, <2>2, <2>3
    <2>. QED BY <2>4 DEF Laid
  <1>7. x \o p = D[k] \o Begun(g, s)
    <2>1. x = D[k] \o Current(g) /\ D[k] \in Text /\ g \in [Nat -> Text]
      BY <1>1 DEF Laid
    <2>2. Current(g) \in Text
      <3>1. CASE last_token_type = "NORMAL"
        <4>1. blocks[top] # <<>>
          BY <3>1 DEF IInv, StackIsOpenPath
        <4>. QED BY <1>1, <2>1, <3>1, <4>1, BegunText DEF Current
      <3>2. CASE last_token_type # "NORMAL"
        BY <1>1, <2>1, <3>2, StatementTextsType DEF Current
      <3>. QED BY <3>1, <3>2
    <2>3. (D[k] \o Current(g)) \o p = D[k] \o (Current(g) \o p)
      BY <2>1, <2>2, TextAssociates
    <2>. QED BY <2>1, <2>3
  <1>8. Current(g)' = Begun(g, s)
    BY <1>2, <1>3 DEF Current
  <1>9. x \o p = D[k] \o Current(g)'
    BY <1>7, <1>8
  <1>. QED BY <1>2, <1>3, <1>4, <1>5, <1>6, <1>9 DEF Laid

\* What is printed for a word.
Spaced(token) == IF last_token_type = "NORMAL" THEN <<" ">> \o token ELSE token

LEMMA LaidWord ==
  ASSUME IInv, NEW token \in Token, Normal(token), NEW g, NEW D, NEW x, Laid(g, D, x),
         NEW piece, piece = Spaced(token)
  PROVE  piece \in Text /\ Laid(g, D, x \o piece)'
  <1>. DEFINE a == blocks[top]
              p == <<" ">> \o token
  <1>1. a \in Block /\ g \in [Nat -> Text]
    BY ParserTypes DEF IInv, Laid
  <1>2. token \in Text /\ p \in Text /\ last_token_type' = "NORMAL" /\ UNCHANGED config_stack
    BY Prints, TokenIsText, TextJoined DEF Normal
  <1>3. CASE last_token_type = "NORMAL"
    <2>. DEFINE b == [a EXCEPT ![Len(a)].tokens = Append(@, token)]
                ts == a[Len(a)].tokens
    <2>1. blocks' = [blocks EXCEPT ![top] = b]
      BY <1>3 DEF Normal
    <2>2. a # <<>> /\ ts # <<>>
      BY <1>3 DEF IInv, StackIsOpenPath, Laid
    <2>. HIDE DEF a
    <2>3. /\ b \in Block /\ b # <<>> /\ Front(b) = Front(a) /\ ts \in Seq(Token)
          /\ b[Len(b)].tokens = Append(ts, token)
      BY <1>1, <2>2, WordGoesOn
    <2>. HIDE DEF b
    <2>. HIDE DEF ts
    <2>4. Words(Append(ts, token)) = Words(ts) \o p /\ Append(ts, token) # <<>>
      BY <2>2, <2>3, WordsMore, AppendProperties, ZenonT(60)
    <2>5. Begun(g, b) = BlockText(g, Front(a)) \o (Words(ts) \o p)
      BY <2>3, <2>4 DEF Begun
    <2>6. BlockText(g, Front(a)) \in Text /\ Words(ts) \in Text
      BY <1>1, <2>2, <2>3, BlockFront, StatementTextsType, WordTextsType
    <2>7. BlockText(g, Front(a)) \o (Words(ts) \o p) = (BlockText(g, Front(a)) \o Words(ts)) \o p
      BY <1>2, <2>6, TextAssociates
    <2>8. Begun(g, b) = Current(g) \o p
      BY <1>3, <2>5, <2>7 DEF Begun, Current, a, ts
    <2>. QED BY <1>2, <1>3, <2>1, <2>3, <2>4, <2>8, LaidGrows DEF Spaced
  <1>4. CASE last_token_type # "NORMAL"
    <2>. DEFINE s == Append(a, [tokens |-> <<>>, child |-> 0])
                b == [s EXCEPT ![Len(s)].tokens = Append(@, token)]
    <2>1. blocks' = [blocks EXCEPT ![top] = b]
      BY <1>4 DEF Normal
    <2>. HIDE DEF a
    <2>3. b \in Block /\ b # <<>> /\ Front(b) = a /\ b[Len(b)].tokens = Append(<<>>, token)
      BY <1>1, WordBegins
    <2>. HIDE DEF b
    <2>4. Words(Append(<<>>, token)) = token /\ Append(<<>>, token) # <<>>
      <3>1. <<>> \in Seq(Token)
        OBVIOUS
      <3>. QED BY <3>1, WordsMore, AppendProperties
    <2>5. Begun(g, b) = Current(g) \o token
      BY <1>4, <2>3, <2>4 DEF Begun, Current, a
    <2>6. b[Len(b)].tokens # <<>>
      BY <2>3, <2>4
    <2>7. Laid(g, D, x \o token)'
      BY <1>2, <2>1, <2>3, <2>5, <2>6, LaidGrows
    <2>. QED BY <1>2, <1>4, <2>7 DEF Spaced
  <1>. QED BY <1>3, <1>4

\* A semicolon.
LEMMA LaidEnd ==
  ASSUME IInv, last_token_type = "NORMAL", last_token_type' = "STATEMENT_END",
         UNCHANGED <<config_stack, blocks>>, NEW g, NEW D, NEW x, Laid(g, D, x)
  PROVE  Laid(g, D, x \o <<";", "\n">>)'
  <1>. DEFINE k == Len(config_stack)
              a == blocks[top]
              end == <<";", "\n">>
  <1>1. a \in Block /\ g \in [Nat -> Text] /\ D[k] \in Text /\ k \in Nat
    BY ParserTypes DEF IInv, Laid
  <1>2. a # <<>> /\ a[Len(a)].child = 0
    BY DEF IInv, StackIsOpenPath, FreshStatement
  <1>3. end \in Text
    BY Prints
  <1>4. Begun(g, a) \in Text /\ BlockText(g, a) = Begun(g, a) \o end
    <2>. HIDE DEF a
    <2>. QED BY <1>1, <1>2, BegunText
  <1>5. x = D[k] \o Begun(g, a)
    BY DEF Laid, Current
  <1>6. x \o end = D[k] \o BlockText(g, a)
    <2>. DEFINE u == D[k]
                v == Begun(g, a)
    <2>1. u \in Text /\ v \in Text
      BY <1>1, <1>4
    <2>. HIDE DEF end, u, v
    <2>2. (u \o v) \o end = u \o (v \o end)
      BY <1>3, <2>1, TextAssociates
    <2>. QED BY <1>4, <1>5, <2>2 DEF u, v
  <1>7. Current(g)' = BlockText(g, a)
    BY DEF Current, top
  <1>8. x \o end = D[Len(config_stack')] \o Current(g)'
    BY <1>6, <1>7
  <1>9. \A b : OnStack(b)' <=> OnStack(b)
    BY DEF OnStack
  <1>. HIDE DEF end, a, k
  <1>. QED BY <1>8, <1>9 DEF Laid, end

\* What a block prints while a statement of it goes on does not depend on the
\* child of that statement.
LEMMA BegunSame ==
  ASSUME NEW g \in [Nat -> Text], NEW h \in [Nat -> Text], NEW a \in Block, NEW b \in Block,
         a # <<>>, Len(a) = Len(b), a[Len(a)].tokens = b[Len(b)].tokens,
         \A i \in 1..(Len(a) - 1) : SameText(a[i], b[i], g, h)
  PROVE  Begun(g, a) = Begun(h, b)
  <1>1. Len(a) \in Nat /\ b # <<>>
    BY DEF Block
  <1>2. /\ Front(a) \in Block /\ Len(Front(a)) = Len(a) - 1
        /\ \A i \in 1..(Len(a) - 1) : Front(a)[i] = a[i]
    BY BlockFront
  <1>3. /\ Front(b) \in Block /\ Len(Front(b)) = Len(b) - 1
        /\ \A i \in 1..(Len(b) - 1) : Front(b)[i] = b[i]
    BY <1>1, BlockFront
  <1>4. \A i \in 1..Len(Front(a)) : SameText(Front(a)[i], Front(b)[i], g, h)
    BY <1>2, <1>3
  <1>5. Len(Front(a)) = Len(Front(b))
    BY <1>2, <1>3
  <1>6. BlockText(g, Front(a)) = BlockText(h, Front(b))
    BY <1>2, <1>3, <1>4, <1>5, BlockTextSame
  <1>. QED BY <1>6 DEF Begun

LEMMA NoText ==
  ASSUME NEW g \in [Nat -> Text]
  PROVE  BlockText(g, <<>>) = <<>>
  <1>. DEFINE none == <<>>
  <1>1. none \in Block /\ Len(none) = 0
    BY EmptySeq DEF Block
  <1>. HIDE DEF none
  <1>2. StatementTexts(g, none) \in Seq(Text) /\ Len(StatementTexts(g, none)) = 0
    BY <1>1, StatementTextsType
  <1>3. FlattenSeq(StatementTexts(g, none)) = StatementTexts(g, none)
    BY <1>2, FlattenNone
  <1>4. StatementTexts(g, none) = <<>>
    BY <1>2, EmptySeq
  <1>. QED BY <1>3, <1>4 DEF BlockText, none

Opened(x) == x \o <<" ", "{", "\n">>

\* An opening brace.
LEMMA LaidOpen ==
  ASSUME IInv, last_token_type = "NORMAL", StartBlock, NEW g, NEW D, NEW x, Laid(g, D, x),
         NEW y, y = Opened(x)
  PROVE  \E E : Laid(g, E, y)'
  <1>. DEFINE n == Len(blocks)
              k == Len(config_stack)
              a == blocks[top]
              m == Len(a)
              s == [a EXCEPT ![m].child = n + 1]
              mid == [blocks EXCEPT ![top] = s]
              empty == <<>>
              open == <<" ", "{", "\n">>
  <1>1. /\ k \in Nat /\ k >= 1 /\ n \in Nat /\ blocks \in [1..n -> Block] /\ blocks \in Seq(Block)
        /\ top \in 1..n /\ a \in Block /\ config_stack \in Seq(Nat)
        /\ \A i \in 1..k : config_stack[i] \in 1..n
    BY ParserTypes DEF IInv
  <1>2. /\ blocks' = Append(mid, empty) /\ config_stack' = Append(config_stack, n + 1)
        /\ last_token_type' = "START_BLOCK"
    BY DEF StartBlock, Reject
  <1>3. a # <<>>
    BY DEF IInv, StackIsOpenPath
  <1>4. /\ s \in Block /\ Len(s) = m /\ s # <<>>
        /\ \A i \in 1..m : i # m => s[i] = a[i]
        /\ s[m].tokens = a[m].tokens
    <2>. DEFINE c == n + 1
                z == [a EXCEPT ![Len(a)].child = c]
    <2>1. c \in Nat
      BY <1>1
    <2>. HIDE DEF a, n, c
    <2>2. /\ z \in Block /\ Len(z) = Len(a) /\ z # <<>>
          /\ \A i \in 1..Len(a) : i # Len(a) => z[i] = a[i]
      BY <1>1, <1>3, <2>1, ChildGiven
    <2>3. z[Len(a)].tokens = a[Len(a)].tokens
      <3>1. Len(a) \in DOMAIN a /\ a[Len(a)] \in Statement
        BY <1>1, <1>3, BlockFront, LenProperties DEF Block
      <3>. QED BY <3>1 DEF Statement
    <2>. QED BY <2>2, <2>3 DEF c
  <1>. HIDE DEF s
  <1>5. /\ mid \in Seq(Block) /\ Len(mid) = n /\ mid[top] = s
        /\ \A b \in 1..n : b # top => mid[b] = blocks[b]
    BY <1>1, <1>4, ExceptSeq
  <1>6. empty \in Block
    BY EmptySeq DEF Block
  <1>. HIDE DEF mid
  <1>7. /\ Len(blocks') = n + 1 /\ blocks'[n + 1] = empty
        /\ \A b \in 1..n : blocks'[b] = mid[b]
    <2>. HIDE DEF empty
    <2>. QED BY <1>2, <1>5, <1>6, AppendProperties
  <1>8. /\ Len(config_stack') = k + 1 /\ config_stack'[k + 1] = n + 1
        /\ \A i \in 1..k : config_stack'[i] = config_stack[i]
    <2>. DEFINE N == n + 1
    <2>1. N \in Nat
      BY <1>1
    <2>. HIDE DEF N
    <2>2. config_stack' = Append(config_stack, N)
      BY <1>2 DEF N
    <2>3. Len(config_stack') = k + 1 /\ config_stack'[k + 1] = N /\ \A i \in 1..k : config_stack'[i] = config_stack[i]
      BY <1>1, <2>1, <2>2, AppendProperties
    <2>. QED BY <2>3 DEF N
  <1>9. top' = n + 1 /\ Current(g)' = <<>>
    <2>1. top' = n + 1
      BY <1>8 DEF top
    <2>2. g \in [Nat -> Text]
      BY DEF Laid
    <2>3. Current(g)' = BlockText(g, empty)
      BY <1>2, <1>7, <2>1 DEF Current
    <2>. QED BY <2>1, <2>2, <2>3, NoText
  <1>10. g \in [Nat -> Text] /\ D \in [Nat -> Text] /\ x = D[k] \o Begun(g, a)
    BY DEF Laid, Current
  <1>11. Begun(g, s) = Begun(g, a)
    <2>1. \A i \in 1..(m - 1) : SameText(s[i], a[i], g, g)
      <3>1. m \in Nat
        BY <1>1 DEF Block
      <3>2. \A i \in 1..(m - 1) : s[i] = a[i]
        <4>1. \A i \in 1..(m - 1) : i \in 1..m /\ i # m
          BY <3>1
        <4>. QED BY <1>4, <4>1
      <3>. QED BY <3>2 DEF SameText
    <2>2. g \in [Nat -> Text] /\ s \in Block /\ a \in Block /\ s # <<>> /\ Len(s) = Len(a)
      BY <1>1, <1>4, <1>10
    <2>3. s[Len(s)].tokens = a[Len(a)].tokens
      BY <1>4
    <2>4. \A i \in 1..(Len(s) - 1) : SameText(s[i], a[i], g, g)
      BY <1>4, <2>1
    <2>. HIDE DEF a
    <2>. QED BY <2>2, <2>3, <2>4, BegunSame
  <1>12. y \in Text
    <2>1. x \in Text /\ open \in Text
      <3>. HIDE DEF a
      <3>1. Begun(g, a) \in Text
        BY <1>1, <1>3, <1>10, BegunText
      <3>2. D[k] \in Text
        BY <1>1, <1>10
      <3>. QED BY <1>10, <3>1, <3>2, Prints, TextJoined
    <2>. QED BY <2>1, TextJoined DEF Opened
  <1>0. PICK E : E = [D EXCEPT ![k + 1] = y]
    OBVIOUS
  <1>13. /\ E \in [Nat -> Text] /\ E[k + 1] = y /\ \A d \in 1..k : E[d] = D[d]
    BY <1>0, <1>1, <1>10, <1>12
  <1>14. E[1] = <<>>
    <2>1. 1 \in 1..k
      BY <1>1
    <2>2. D[1] = <<>>
      BY DEF Laid
    <2>. QED BY <1>13, <2>1, <2>2
  <1>15. ASSUME NEW b \in 1..(n + 1), ~OnStack(b)' PROVE g[b] = BlockText(g, blocks'[b])
    <2>1. \A i \in 1..(k + 1) : config_stack'[i] # b
      BY <1>8, <1>15 DEF OnStack
    <2>2. b # n + 1
      <3>1. k + 1 \in 1..(k + 1)
        BY <1>1
      <3>. QED BY <1>8, <2>1, <3>1
    <2>3. ~OnStack(b) /\ b # top
      <3>1. 1..k \subseteq 1..(k + 1) /\ k \in 1..k
        BY <1>1
      <3>2. \A i \in 1..k : config_stack[i] # b
        BY <1>8, <2>1, <3>1
      <3>. QED BY <3>1, <3>2 DEF OnStack, top
    <2>4. b \in 1..n
      <3>1. n \in Nat /\ b \in 1..(n + 1)
        BY <1>1
      <3>. HIDE DEF n
      <3>. QED BY <2>2, <3>1
    <2>. QED BY <1>5, <1>7, <2>3, <2>4 DEF Laid
  <1>16. ASSUME NEW d \in 1..k
         PROVE  E[d + 1] = (E[d] \o Begun(g, blocks'[config_stack'[d]])) \o open
    <2>1. config_stack'[d] = config_stack[d] /\ config_stack[d] \in 1..n
          /\ blocks'[config_stack[d]] = mid[config_stack[d]] /\ E[d] = D[d]
      BY <1>1, <1>7, <1>8, <1>13
    <2>2. CASE d = k
      <3>1. blocks'[config_stack[d]] = s
        BY <1>5, <2>1, <2>2 DEF top
      <3>. QED BY <1>10, <1>11, <1>13, <2>1, <2>2, <3>1 DEF Opened
    <2>3. CASE d # k
      <3>1. d \in 1..(k - 1) /\ d < k /\ k \in 1..k /\ d + 1 \in 1..k
        BY <1>1, <2>3
      <3>2. config_stack[d] < config_stack[k] /\ config_stack[d] \in Nat /\ config_stack[k] \in Nat
        BY <1>1, <3>1 DEF IInv, Increasing
      <3>3. mid[config_stack[d]] = blocks[config_stack[d]]
        BY <1>5, <2>1, <3>2 DEF top
      <3>4. E[d + 1] = D[d + 1]
        BY <1>13, <3>1
      <3>. QED BY <2>1, <3>1, <3>3, <3>4 DEF Laid
    <2>. QED BY <2>2, <2>3
  <1>17. y = E[k + 1] \o Current(g)'
    BY <1>9, <1>12, <1>13, TextEmpty
  <1>18. k + 1 - 1 = k
    BY <1>1
  <1>19. \A b \in 1..Len(blocks') : ~OnStack(b)' => g[b] = BlockText(g, blocks'[b])
    BY <1>7, <1>15
  <1>20. \A d \in 1..(Len(config_stack') - 1) :
           E[d + 1] = (E[d] \o Begun(g, blocks'[config_stack'[d]])) \o open
    <2>1. Len(config_stack') - 1 = k
      BY <1>8, <1>18
    <2>. HIDE DEF open, k
    <2>. QED BY <1>16, <2>1
  <1>21. y = E[Len(config_stack')] \o Current(g)'
    BY <1>8, <1>17
  <1>. HIDE DEF k, n
  <1>22. Laid(g, E, y)'
    BY <1>2, <1>10, <1>13, <1>14, <1>19, <1>20, <1>21 DEF Laid
  <1>. QED BY <1>22

Closed(x) == x \o <<"}", "\n">>

LEMMA ChildrenFinite ==
  ASSUME NEW n \in Nat, NEW bs \in [1..n -> Block], NEW b
  PROVE  IsFiniteSet(Children(bs, b))
  <1>. DEFINE J(p) == {j \in DOMAIN bs[p] : bs[p][j].child = b}
              A(p) == {<<p, i>> : i \in J(p)}
              U(k) == UNION {A(p) : p \in 1..k}
              T == {k \in 0..n : IsFiniteSet(U(k))}
  <1>1. ASSUME NEW p \in 1..n PROVE IsFiniteSet(A(p))
    <2>1. bs[p] \in Block
      OBVIOUS
    <2>2. Len(bs[p]) \in Nat /\ DOMAIN bs[p] = 1..Len(bs[p])
      BY <2>1, LenProperties DEF Block
    <2>3. IsFiniteSet(1..Len(bs[p]))
      BY <2>2, FS_Interval
    <2>4. IsFiniteSet(J(p))
      <3>1. J(p) \in SUBSET (1..Len(bs[p]))
        BY <2>2
      <3>. QED BY <2>3, <3>1, FS_Subset
    <2>. DEFINE S == J(p)
                R == A(p)
                f == [i \in S |-> <<p, i>>]
    <2>5. f \in Surjection(S, R)
      <3>1. f \in [S -> R]
        OBVIOUS
      <3>2. \A t \in R : \E i \in S : f[i] = t
        OBVIOUS
      <3>. HIDE DEF S, R, f
      <3>. QED BY <3>1, <3>2 DEF Surjection
    <2>6. IsFiniteSet(S)
      BY <2>4
    <2>7. IsFiniteSet(R)
      <3>. HIDE DEF S, R, f
      <3>. QED BY <2>5, <2>6, FS_Surjection
    <2>. QED BY <2>7
  <1>2. 0 \in T
    <2>1. U(0) = {}
      <3>1. 1..0 = {}
        OBVIOUS
      <3>. QED BY <3>1
    <2>2. 0 \in 0..n
      OBVIOUS
    <2>. HIDE DEF U
    <2>. QED BY <2>1, <2>2, FS_EmptySet
  <1>3. ASSUME NEW k \in 1..n, k - 1 \in T PROVE k \in T
    <2>1. U(k) = U(k - 1) \cup A(k)
      <3>1. 1..k = (1..(k - 1)) \cup {k}
        OBVIOUS
      <3>. HIDE DEF A
      <3>. QED BY <3>1
    <2>2. IsFiniteSet(U(k - 1)) /\ IsFiniteSet(A(k)) /\ k \in 0..n
      <3>1. k \in 0..n
        OBVIOUS
      <3>. HIDE DEF U, A
      <3>. QED BY <1>1, <1>3, <3>1
    <2>. HIDE DEF U, A
    <2>. QED BY <2>1, <2>2, FS_Union, ZenonT(60)
  <1>4. n \in T
    <2>1. n \in 0..n
      OBVIOUS
    <2>. HIDE DEF T
    <2>. QED BY <1>2, <1>3, <2>1, FiniteInduction
  <1>5. Children(bs, b) = U(n)
    <2>1. DOMAIN bs = 1..n
      OBVIOUS
    <2>. QED BY <2>1 DEF Children
  <1>. QED BY <1>4, <1>5

\* The block on top of the stack belongs to the last statement of the block
\* below it, and to no other.
LEMMA TopOwned ==
  ASSUME IInv, Len(config_stack) >= 2, NEW p \in 1..Len(blocks), NEW i \in 1..Len(blocks[p]),
         blocks[p][i].child = top
  PROVE  LET c == config_stack[Len(config_stack) - 1] IN p = c /\ i = Len(blocks[c])
  <1>. DEFINE n == Len(blocks)
              k == Len(config_stack)
              c == config_stack[k - 1]
              m == Len(blocks[c])
  <1>1. /\ k \in Nat /\ n \in Nat /\ blocks \in [1..n -> Block] /\ top \in 1..n
        /\ config_stack \in Seq(Nat) /\ \A j \in 1..k : config_stack[j] \in 1..n
    BY ParserTypes DEF IInv
  <1>2. k - 1 \in 1..(k - 1) /\ k - 1 \in 1..k /\ k \in 1..k /\ 1 \in 1..k /\ k - 1 + 1 = k /\ 1 < k /\ k - 1 < k
    BY <1>1
  <1>3. c \in 1..n
    BY <1>1, <1>2
  <1>4. top \in 2..n
    <2>1. config_stack[1] = 1 /\ config_stack[1] < config_stack[k]
      BY <1>2 DEF IInv, StackIsOpenPath, Increasing
    <2>. QED BY <1>1, <2>1 DEF top
  <1>5. blocks[c] # <<>> /\ blocks[c][m].child = top
    <2>1. LET s == blocks[config_stack[k - 1]]
          IN s # <<>> /\ s[Len(s)].child = config_stack[k - 1 + 1]
      BY <1>2 DEF IInv, StackIsOpenPath
    <2>. QED BY <1>2, <2>1 DEF top
  <1>6. m \in 1..m
    <2>1. blocks[c] \in Block
      BY <1>1, <1>3
    <2>. QED BY <1>5, <2>1, BlockFront
  <1>7. Cardinality(Owners(top)) = 1
    BY <1>4 DEF IInv, NoBlockLost
  <1>8. Owners(top) = Children(blocks, top)
    BY DEF Owners, Children
  <1>9. <<c, m>> \in Owners(top) /\ <<p, i>> \in Owners(top)
    <2>1. <<c, m>> \in Children(blocks, top)
      <3>. HIDE DEF c, n
      <3>. QED BY <1>1, <1>3, <1>5, <1>6, ChildIn
    <2>2. <<p, i>> \in Children(blocks, top)
      <3>1. p \in 1..n /\ i \in 1..Len(blocks[p]) /\ blocks[p][i].child = top
        OBVIOUS
      <3>. HIDE DEF n
      <3>. QED BY <1>1, <3>1, ChildIn
    <2>. QED BY <1>8, <2>1, <2>2
  <1>10. PICK o : Owners(top) = {o}
    <2>1. IsFiniteSet(Owners(top))
      <3>. HIDE DEF n
      <3>. QED BY <1>1, <1>8, ChildrenFinite
    <2>. QED BY <1>7, <2>1, FS_Singleton
  <1>11. <<c, m>> = <<p, i>>
    <2>. HIDE DEF c, m
    <2>. QED BY <1>9, <1>10
  <1>12. c = p /\ m = i
    <2>. HIDE DEF c, m
    <2>. QED BY <1>11
  <1>. QED BY <1>12

\* A closing brace.
LEMMA LaidClose ==
  ASSUME IInv, result = "running", last_token_type \in {"STATEMENT_END", "END_BLOCK"},
         start_block > 0, EndBlock, NEW g, NEW D, NEW x, Laid(g, D, x), NEW y, y = Closed(x)
  PROVE  \E h : Laid(h, D, y)'
  <1>. DEFINE n == Len(blocks)
              k == Len(config_stack)
              c == config_stack[k - 1]
              a == blocks[c]
              m == Len(a)
              z == BlockText(g, blocks[top])
              open == <<" ", "{", "\n">>
              close == <<"}", "\n">>
  <1>1. /\ k \in Nat /\ k >= 1 /\ n \in Nat /\ blocks \in [1..n -> Block] /\ blocks \in Seq(Block)
        /\ top \in 1..n /\ blocks[top] \in Block /\ config_stack \in Seq(Nat)
        /\ \A i \in 1..k : config_stack[i] \in 1..n
    BY ParserTypes DEF IInv
  <1>2. /\ config_stack' = popped /\ last_token_type' = "END_BLOCK" /\ blocks' = blocks
    BY DEF EndBlock, Reject
  <1>3. k >= 2
    <2>1. start_block = k - 1
      BY DEF IInv, StackIsOpenPath
    <2>. QED BY <1>1, <2>1
  <1>4. /\ k - 1 \in Nat /\ k - 1 \in 1..(k - 1) /\ k - 1 \in 1..k /\ k \in 1..k /\ k - 1 + 1 = k
        /\ 1 \in 1..(k - 1) /\ k - 1 < k /\ 1..(k - 1) \subseteq 1..k
    BY <1>1, <1>3
  <1>5. /\ Len(config_stack') = k - 1 /\ \A i \in 1..(k - 1) : config_stack'[i] = config_stack[i]
    BY <1>1, <1>2, <1>3, SubSeqProperties DEF popped
  <1>6. top' = c /\ c \in 1..n /\ a \in Block
    BY <1>1, <1>4, <1>5 DEF top
  <1>7. a # <<>> /\ a[m].child = top
    <2>1. LET s == blocks[config_stack[k - 1]]
          IN s # <<>> /\ s[Len(s)].child = config_stack[k - 1 + 1]
      BY <1>4 DEF IInv, StackIsOpenPath
    <2>. QED BY <1>4, <2>1 DEF top
  <1>8. ASSUME NEW p \in 1..n, NEW i \in 1..Len(blocks[p]), blocks[p][i].child = top
        PROVE  p = c /\ i = m
    BY <1>3, <1>8, TopOwned
  <1>9. /\ g \in [Nat -> Text] /\ D \in [Nat -> Text] /\ z \in Text
    BY <1>1, StatementTextsType DEF Laid
  <1>0. PICK h : h = [g EXCEPT ![top] = z]
    OBVIOUS
  <1>10. h \in [Nat -> Text] /\ h[top] = z /\ \A b \in Nat : b # top => h[b] = g[b]
    <2>1. top \in Nat
      BY <1>1
    <2>. HIDE DEF z
    <2>. QED BY <1>0, <1>9, <2>1
  <1>11. ASSUME NEW p \in 1..n, NEW i \in 1..Len(blocks[p]), ~(p = c /\ i = m)
         PROVE  SameText(blocks[p][i], blocks[p][i], g, h)
    <2>1. blocks[p][i].child # top
      BY <1>8, <1>11
    <2>2. blocks[p][i].child \in Nat
      <3>1. blocks[p] \in Block
        BY <1>1
      <3>2. blocks[p][i] \in Statement
        BY <3>1 DEF Block
      <3>. QED BY <3>2, StatementFields
    <2>. QED BY <1>10, <2>1, <2>2 DEF SameText
  <1>12. ASSUME NEW p \in 1..n, p # c PROVE BlockText(h, blocks[p]) = BlockText(g, blocks[p])
    <2>1. blocks[p] \in Block
      BY <1>1
    <2>2. \A i \in 1..Len(blocks[p]) : SameText(blocks[p][i], blocks[p][i], g, h)
      BY <1>11, <1>12
    <2>. QED BY <1>9, <1>10, <2>1, <2>2, BlockTextSame
  <1>13. ASSUME NEW p \in 1..n, blocks[p] # <<>> PROVE Begun(h, blocks[p]) = Begun(g, blocks[p])
    <2>1. blocks[p] \in Block /\ Len(blocks[p]) \in Nat
      BY <1>1 DEF Block
    <2>2. ASSUME NEW i \in 1..(Len(blocks[p]) - 1) PROVE SameText(blocks[p][i], blocks[p][i], g, h)
      <3>1. i \in 1..Len(blocks[p]) /\ i # Len(blocks[p])
        BY <2>1
      <3>2. ~(p = c /\ i = m)
        BY <3>1
      <3>. QED BY <1>11, <3>1, <3>2
    <2>. QED BY <1>9, <1>10, <1>13, <2>1, <2>2, BegunSame, ZenonT(60)
  <1>14. c # top
    <2>1. config_stack[k - 1] < config_stack[k]
      BY <1>4 DEF IInv, Increasing
    <2>. QED BY <1>1, <1>6, <2>1 DEF top
  <1>15. ASSUME NEW b \in 1..n, ~OnStack(b)' PROVE h[b] = BlockText(h, blocks[b])
    <2>1. \A i \in 1..(k - 1) : config_stack[i] # b
      BY <1>5, <1>15 DEF OnStack
    <2>2. b # c
      BY <1>4, <2>1
    <2>3. BlockText(h, blocks[b]) = BlockText(g, blocks[b])
      BY <1>12, <2>2
    <2>4. CASE b = top
      BY <1>10, <2>3, <2>4
    <2>5. CASE b # top
      <3>1. \A i \in 1..k : i \in 1..(k - 1) \/ i = k
        BY <1>1
      <3>2. ~OnStack(b)
        BY <2>1, <2>5, <3>1 DEF OnStack, top
      <3>3. g[b] = BlockText(g, blocks[b])
        BY <3>2 DEF Laid
      <3>. QED BY <1>1, <1>10, <2>3, <2>5, <3>3
    <2>. QED BY <2>4, <2>5
  <1>16. ASSUME NEW d \in 1..(k - 1)
         PROVE  D[d + 1] = (D[d] \o Begun(h, blocks[config_stack[d]])) \o open
    <2>1. config_stack[d] \in 1..n
      BY <1>1, <1>4
    <2>2. blocks[config_stack[d]] # <<>>
      BY DEF IInv, StackIsOpenPath
    <2>3. Begun(h, blocks[config_stack[d]]) = Begun(g, blocks[config_stack[d]])
      BY <1>13, <2>1, <2>2
    <2>. QED BY <2>3 DEF Laid
  <1>17. y = D[k - 1] \o BlockText(h, a)
    <2>. DEFINE w == Begun(h, a)
                d == D[k - 1]
    <2>1. BlockText(h, a) = (w \o open) \o (z \o close) /\ w \in Text
      <3>1. top # 0
        BY <1>1
      <3>2. h[a[m].child] = z
        BY <1>7, <1>10
      <3>. HIDE DEF a, z
      <3>3. w \in Text
        BY <1>6, <1>7, <1>10, BegunText
      <3>4. a[Len(a)].child # 0 => BlockText(h, a) = (Begun(h, a) \o open) \o (h[a[Len(a)].child] \o close)
        BY <1>6, <1>7, <1>10, BegunText
      <3>. QED BY <1>7, <3>1, <3>2, <3>3, <3>4
    <2>2. x = D[k] \o z
      BY DEF Laid, Current
    <2>3. D[k] = (d \o w) \o open
      <3>1. D[k - 1 + 1] = (D[k - 1] \o Begun(h, blocks[config_stack[k - 1]])) \o open
        BY <1>4, <1>16
      <3>. QED BY <1>4, <3>1
    <2>4. y = x \o close
      BY DEF Closed
    <2>5. d \in Text /\ w \in Text /\ z \in Text /\ open \in Text /\ close \in Text
      BY <1>4, <1>9, <2>1, Prints
    <2>. HIDE DEF a, d, w, z, open, close
    <2>6. w \o open \in Text /\ z \o close \in Text /\ (d \o w) \o open \in Text /\ d \o w \in Text
      BY <2>5, TextJoined
    <2>7. (d \o w) \o open = d \o (w \o open)
      BY <2>5, TextAssociates, ZenonT(60)
    <2>. DEFINE u == w \o open
                v == z \o close
    <2>8. ((d \o u) \o z) \o close = (d \o u) \o v
      <3>1. d \o u \in Text
        BY <2>6, <2>7
      <3>. HIDE DEF u
      <3>. QED BY <2>5, <3>1, TextAssociates, ZenonT(60)
    <2>9. (d \o u) \o v = d \o (u \o v)
      <3>1. d \in Text /\ u \in Text /\ v \in Text
        BY <2>5, <2>6
      <3>. HIDE DEF u, v
      <3>. QED BY <3>1, TextAssociates
    <2>. QED BY <2>1, <2>2, <2>3, <2>4, <2>7, <2>8, <2>9 DEF d
  <1>18. Current(h)' = BlockText(h, a)
    BY <1>2, <1>6 DEF Current
  <1>19. \A b \in 1..Len(blocks') : ~OnStack(b)' => h[b] = BlockText(h, blocks'[b])
    BY <1>2, <1>15
  <1>20. \A d \in 1..(Len(config_stack') - 1) :
           D[d + 1] = (D[d] \o Begun(h, blocks'[config_stack'[d]])) \o open
    <2>1. ASSUME NEW d \in 1..(k - 2)
          PROVE  D[d + 1] = (D[d] \o Begun(h, blocks'[config_stack'[d]])) \o open
      <3>1. d \in 1..(k - 1)
        BY <1>1
      <3>. HIDE DEF open
      <3>. QED BY <1>2, <1>5, <1>16, <3>1
    <2>2. Len(config_stack') - 1 = k - 2
      BY <1>1, <1>5
    <2>. HIDE DEF open, k
    <2>. QED BY <2>1, <2>2
  <1>21. y = D[Len(config_stack')] \o Current(h)'
    BY <1>5, <1>17, <1>18
  <1>22. D[1] = <<>>
    BY DEF Laid
  <1>. HIDE DEF k, n
  <1>23. Laid(h, D, y)'
    BY <1>2, <1>9, <1>10, <1>19, <1>20, <1>21, <1>22 DEF Laid
  <1>. QED BY <1>23

\* The texts of statements depend on the texts of their blocks only.
LEMMA TextsSame ==
  ASSUME NEW g, NEW h, NEW ss, \A i \in DOMAIN ss : SameText(ss[i], ss[i], g, h)
  PROVE  BlockText(g, ss) = BlockText(h, ss)
  <1>1. ASSUME NEW i \in DOMAIN ss PROVE StatementToString(ss[i], g) = StatementToString(ss[i], h)
    <2>1. SameText(ss[i], ss[i], g, h)
      OBVIOUS
    <2>. QED BY <2>1 DEF SameText, StatementToString
  <1>2. StatementTexts(g, ss) = StatementTexts(h, ss)
    BY <1>1 DEF StatementTexts
  <1>. QED BY <1>2 DEF BlockText

\* The function that NginxConfigToString defines recursively.
Rendering(str, bs) == str = [b \in DOMAIN bs |-> BlockText(str, bs[b])]

LEMMA Rendered ==
  ASSUME NEW bs
  PROVE  NginxConfigToString(bs) = (CHOOSE str : Rendering(str, bs))[1]
  BY DEF NginxConfigToString, Rendering, BlockText, StatementTexts

\* A block is older than the blocks in it.
LEMMA ChildYounger ==
  ASSUME IInv, NEW p \in 1..Len(blocks), NEW i \in 1..Len(blocks[p])
  PROVE  blocks[p][i].child = 0 \/ (blocks[p][i].child \in 2..Len(blocks) /\ p < blocks[p][i].child)
  <1>. DEFINE n == Len(blocks)
              c == blocks[p][i].child
  <1>1. n \in Nat /\ blocks \in [1..n -> Block]
    BY ParserTypes DEF IInv
  <1>2. c \in 0..n /\ c # 1
    BY DEF IInv, ChildrenExist
  <1>3. CASE c # 0
    <2>1. c \in 2..n
      <3>. HIDE DEF c, n
      <3>. QED BY <1>1, <1>2, <1>3
    <2>2. <<p, i>> \in Children(blocks, c)
      <3>1. p \in 1..n /\ i \in 1..Len(blocks[p]) /\ blocks[p][i].child = c
        OBVIOUS
      <3>. HIDE DEF c, n
      <3>. QED BY <1>1, <3>1, ChildIn
    <2>3. <<p, i>> \in Owners(c)
      <3>1. Owners(c) = Children(blocks, c)
        BY DEF Owners, Children
      <3>. QED BY <2>2, <3>1
    <2>4. \A o \in Owners(c) : o[1] < c
      BY <2>1 DEF IInv, NoBlockLost
    <2>5. <<p, i>>[1] < c
      <3>. HIDE DEF c
      <3>. QED BY <2>3, <2>4
    <2>. QED BY <2>1, <2>5
  <1>. QED BY <1>3

\* When the outermost block alone is open and its last statement is complete,
\* what was printed is the whole configuration.
LEMMA LaidWhole ==
  ASSUME IInv, Len(config_stack) = 1, last_token_type # "NORMAL", NEW g, NEW D, NEW x, Laid(g, D, x)
  PROVE  x = NginxConfigToString(blocks)
  <1>. DEFINE n == Len(blocks)
              r == BlockText(g, blocks[1])
              h == [b \in 1..n |-> IF b = 1 THEN r ELSE g[b]]
  <1>1. /\ n \in Nat /\ n >= 1 /\ blocks \in [1..n -> Block] /\ DOMAIN blocks = 1..n /\ 1 \in 1..n
        /\ \A p \in 1..n : blocks[p] \in Block /\ DOMAIN blocks[p] = 1..Len(blocks[p])
    <2>1. n \in Nat /\ blocks \in [1..n -> Block] /\ DOMAIN blocks = 1..n /\ 1 \in 1..n
      BY ParserTypes DEF IInv
    <2>2. \A p \in 1..n : DOMAIN blocks[p] = 1..Len(blocks[p])
      BY <2>1, LenProperties DEF Block
    <2>. QED BY <2>1, <2>2
  <1>2. config_stack[1] = 1
    BY DEF IInv, StackIsOpenPath
  <1>3. x = r
    <2>1. top = 1
      BY <1>2 DEF top
    <2>2. x = D[1] \o r /\ D[1] = <<>> /\ g \in [Nat -> Text]
      BY <2>1 DEF Laid, Current
    <2>3. r \in Text
      BY <1>1, <2>2, StatementTextsType
    <2>. HIDE DEF r
    <2>. QED BY <2>2, <2>3, TextEmpty
  <1>4. ASSUME NEW b \in 2..n PROVE g[b] = BlockText(g, blocks[b])
    <2>1. b \in 1..n /\ b # 1
      BY <1>1
    <2>2. ~OnStack(b)
      BY <1>2, <2>1 DEF OnStack
    <2>. QED BY <2>1, <2>2 DEF Laid
  <1>5. \A b \in 1..n : h[b] = IF b = 1 THEN r ELSE g[b]
    OBVIOUS
  <1>6. h = [b \in 1..n |-> h[b]]
    OBVIOUS
  <1>. HIDE DEF h
  <1>7. ASSUME NEW p \in 1..n PROVE BlockText(h, blocks[p]) = BlockText(g, blocks[p])
    <2>1. ASSUME NEW i \in 1..Len(blocks[p]) PROVE SameText(blocks[p][i], blocks[p][i], h, g)
      <3>1. ASSUME blocks[p][i].child # 0 PROVE h[blocks[p][i].child] = g[blocks[p][i].child]
        <4>1. blocks[p][i].child \in 2..n
          BY <3>1, ChildYounger
        <4>2. \A c \in 2..n : c \in 1..n /\ c # 1
          BY <1>1
        <4>. QED BY <1>5, <4>1, <4>2
      <3>. QED BY <3>1 DEF SameText
    <2>. QED BY <1>1, <2>1, TextsSame
  <1>8. Rendering(h, blocks)
    <2>1. ASSUME NEW b \in 1..n PROVE h[b] = BlockText(h, blocks[b])
      <3>1. CASE b = 1
        BY <1>5, <1>7, <3>1
      <3>2. CASE b # 1
        <4>1. b \in 2..n
          BY <1>1, <3>2
        <4>. QED BY <1>4, <1>5, <1>7, <3>2, <4>1
      <3>. QED BY <3>1, <3>2
    <2>. HIDE DEF n
    <2>. QED BY <1>1, <1>6, <2>1 DEF Rendering
  <1>9. PICK str : Rendering(str, blocks) /\ str = CHOOSE s : Rendering(s, blocks)
    BY <1>8
  <1>10. \A b \in 1..n : str[b] = BlockText(str, blocks[b]) /\ h[b] = BlockText(h, blocks[b])
    <2>. DEFINE V(b) == BlockText(str, blocks[b])
                W(b) == BlockText(h, blocks[b])
    <2>1. str = [b \in 1..n |-> V(b)] /\ h = [b \in 1..n |-> W(b)]
      BY <1>1, <1>8, <1>9 DEF Rendering
    <2>2. \A b \in 1..n : str[b] = V(b) /\ h[b] = W(b)
      <3>. HIDE DEF V, W, n
      <3>. QED BY <2>1
    <2>. QED BY <2>2
  <1>. DEFINE T == {d \in 0..n : \A b \in 1..n : b > n - d => str[b] = h[b]}
  <1>11. 0 \in T
    <2>1. \A b \in 1..n : ~(b > n - 0)
      BY <1>1
    <2>2. 0 \in 0..n
      BY <1>1
    <2>. QED BY <2>1, <2>2
  <1>12. ASSUME NEW d \in 1..n, d - 1 \in T PROVE d \in T
    <2>1. \A b \in 1..n : b > n - (d - 1) => str[b] = h[b]
      BY <1>12
    <2>2. ASSUME NEW b \in 1..n, b > n - d PROVE str[b] = h[b]
      <3>1. ASSUME NEW i \in 1..Len(blocks[b]) PROVE SameText(blocks[b][i], blocks[b][i], str, h)
        <4>1. ASSUME blocks[b][i].child # 0 PROVE str[blocks[b][i].child] = h[blocks[b][i].child]
          <5>. DEFINE c == blocks[b][i].child
          <5>1. c \in 2..n /\ b < c
            BY <4>1, ChildYounger
          <5>. HIDE DEF c
          <5>2. c \in 1..n /\ c > n - (d - 1)
            <6>. HIDE DEF T
            <6>1. n \in Nat /\ b \in 1..n /\ b > n - d /\ d \in 1..n
              BY <1>1, <2>2
            <6>. HIDE DEF n
            <6>. QED BY <5>1, <6>1
          <5>3. str[c] = h[c]
            BY <2>1, <5>2
          <5>. QED BY <5>3 DEF c
        <4>. QED BY <4>1 DEF SameText
      <3>2. BlockText(str, blocks[b]) = BlockText(h, blocks[b])
        BY <1>1, <3>1, TextsSame
      <3>. QED BY <1>10, <3>2
    <2>3. d \in 0..n
      OBVIOUS
    <2>. QED BY <2>2, <2>3
  <1>13. n \in T
    <2>1. n \in 0..n
      BY <1>1
    <2>. HIDE DEF T
    <2>. QED BY <1>1, <1>11, <1>12, <2>1, FiniteInduction
  <1>14. str[1] = h[1]
    <2>1. 1 > n - n
      BY <1>1
    <2>. QED BY <1>1, <1>13, <2>1
  <1>15. h[1] = r
    BY <1>1, <1>5
  <1>. QED BY <1>3, <1>9, <1>14, <1>15, Rendered

-----------------------------------------------------------------------------
(* What the driver was given, and what it made of it *)

Now == [ltt |-> last_token_type, sb |-> start_block, stack |-> config_stack, bs |-> blocks]

\* The beginning of a parse.
AtStart == [ltt |-> "START", sb |-> 0, stack |-> <<1>>, bs |-> << <<>> >>]

Tip(s) == s.stack[Len(s.stack)]

\* What Normal, StatementEnd, StartBlock and EndBlock make of a state.
WordDone(s, token) ==
    LET a == s.bs[Tip(s)]
        b == IF s.ltt # "NORMAL" THEN Append(a, [tokens |-> <<>>, child |-> 0]) ELSE a
    IN [ltt |-> "NORMAL", sb |-> s.sb, stack |-> s.stack,
        bs |-> [s.bs EXCEPT ![Tip(s)] = [b EXCEPT ![Len(b)].tokens = Append(@, token)]]]

EndDone(s) == [ltt |-> "STATEMENT_END", sb |-> s.sb, stack |-> s.stack, bs |-> s.bs]

OpenDone(s) ==
    [ltt |-> "START_BLOCK", sb |-> s.sb + 1, stack |-> Append(s.stack, Len(s.bs) + 1),
     bs |-> Append([s.bs EXCEPT ![Tip(s)][Len(s.bs[Tip(s)])].child = Len(s.bs) + 1], <<>>)]

CloseDone(s) ==
    [ltt |-> "END_BLOCK", sb |-> s.sb - 1, stack |-> SubSeq(s.stack, 1, Len(s.stack) - 1), bs |-> s.bs]

\* The words the tokenizer returns.
PlainWord(e) == Len(e) >= 1 /\ e[1] \notin Special /\ \A j \in 2..Len(e) : e[j] \notin Stop

QuotedWord(e, q) ==
    Len(e) >= 2 /\ e[1] = q /\ e[Len(e)] = q /\ \A j \in 2..(Len(e) - 1) : e[j] # q

IsWord(e) == e \in Token /\ (PlainWord(e) \/ \E q \in Quote : QuotedWord(e, q))

\* The driver in state s is given e, does not reject it and is then in state t.
Does(s, e, t) ==
    \/ e = <<";">> /\ s.ltt = "NORMAL" /\ t = EndDone(s)
    \/ e = <<"{">> /\ s.ltt = "NORMAL" /\ t = OpenDone(s)
    \/ e = <<"}">> /\ s.ltt \in {"STATEMENT_END", "END_BLOCK"} /\ s.sb > 0 /\ t = CloseDone(s)
    \/ IsWord(e) /\ t = WordDone(s, e)

LEMMA NormalNow ==
  ASSUME NEW token, Normal(token)
  PROVE  Now' = WordDone(Now, token) /\ result' = result
  BY DEF Normal, Now, WordDone, Tip, top

LEMMA EndNow ==
  ASSUME StatementEnd, last_token_type = "NORMAL"
  PROVE  Now' = EndDone(Now) /\ result' = result
  BY DEF StatementEnd, Reject, Now, EndDone

LEMMA OpenNow ==
  ASSUME StartBlock, last_token_type = "NORMAL"
  PROVE  Now' = OpenDone(Now) /\ result' = result
  BY DEF StartBlock, Reject, Now, OpenDone, Tip, top

LEMMA CloseNow ==
  ASSUME EndBlock, last_token_type \in {"STATEMENT_END", "END_BLOCK"}, start_block > 0
  PROVE  Now' = CloseDone(Now) /\ result' = result
  BY DEF EndBlock, Reject, Now, CloseDone, popped

\* What ToString prints for e after a token of type ltt.
Piece(ltt, e) ==
    CASE e = <<";">> -> <<";", "\n">>
      [] e = <<"{">> -> <<" ", "{", "\n">>
      [] e = <<"}">> -> <<"}", "\n">>
      [] OTHER -> IF ltt = "NORMAL" THEN <<" ">> \o e ELSE e

LEMMA NotAWord ==
  ASSUME NEW c \in Special
  PROVE  ~IsWord(<<c>>)
  <1>. DEFINE e == <<c>>
  <1>1. Len(e) = 1 /\ e[1] = c
    OBVIOUS
  <1>. HIDE DEF e
  <1>2. ~PlainWord(e)
    BY <1>1 DEF PlainWord
  <1>3. ASSUME NEW q PROVE ~QuotedWord(e, q)
    <2>1. QuotedWord(e, q) => Len(e) >= 2
      BY DEF QuotedWord
    <2>2. ~(1 >= 2)
      OBVIOUS
    <2>. QED BY <1>1, <2>1, <2>2
  <1>4. ~IsWord(e)
    BY <1>2, <1>3 DEF IsWord
  <1>. QED BY <1>4 DEF e

LEMMA Marks ==
  /\ <<";">> # <<"{">> /\ <<";">> # <<"}">> /\ <<"{">> # <<"}">>
  /\ ~IsWord(<<";">>) /\ ~IsWord(<<"{">>) /\ ~IsWord(<<"}">>)
  <1>1. ASSUME NEW c \in {";", "{", "}"} PROVE ~IsWord(<<c>>)
    <2>1. c \in Special
      BY DEF Special, Stop
    <2>. QED BY <2>1, NotAWord
  <1>2. \A a, b : <<a>> = <<b>> => a = b
    OBVIOUS
  <1>3. ";" # "{" /\ ";" # "}" /\ "{" # "}"
    OBVIOUS
  <1>4. <<";">> # <<"{">> /\ <<";">> # <<"}">> /\ <<"{">> # <<"}">>
    BY <1>2, <1>3, Zenon
  <1>. QED BY <1>1, <1>4

LEMMA Pieces ==
  ASSUME NEW ltt
  PROVE  /\ Piece(ltt, <<";">>) = <<";", "\n">>
         /\ Piece(ltt, <<"{">>) = <<" ", "{", "\n">>
         /\ Piece(ltt, <<"}">>) = <<"}", "\n">>
         /\ \A e : IsWord(e) => Piece(ltt, e) = IF ltt = "NORMAL" THEN <<" ">> \o e ELSE e
  <1>. DEFINE a == <<";">>
              b == <<"{">>
              c == <<"}">>
              x == <<";", "\n">>
              y == <<" ", "{", "\n">>
              z == <<"}", "\n">>
              Said(e) == IF ltt = "NORMAL" THEN <<" ">> \o e ELSE e
  <1>1. a # b /\ a # c /\ b # c /\ ~IsWord(a) /\ ~IsWord(b) /\ ~IsWord(c)
    BY Marks
  <1>2. \A e : Piece(ltt, e) = CASE e = a -> x [] e = b -> y [] e = c -> z [] OTHER -> Said(e)
    BY DEF Piece
  <1>. HIDE DEF a, b, c, x, y, z, Said
  <1>3. Piece(ltt, a) = x /\ Piece(ltt, b) = y /\ Piece(ltt, c) = z
    BY <1>1, <1>2
  <1>4. ASSUME NEW e, IsWord(e) PROVE Piece(ltt, e) = Said(e)
    <2>1. e # a /\ e # b /\ e # c
      BY <1>1, <1>4
    <2>. QED BY <1>2, <2>1
  <1>. QED BY <1>3, <1>4 DEF a, b, c, x, y, z, Said

\* What happened: the driver was in the states st and given ev, and what
\* ToString prints of that, pc, joined, is tx.
Story(n, ev, st, pc, tx) ==
    /\ n \in Nat /\ st[0] = AtStart
    /\ \A i \in 1..n : Does(st[i - 1], ev[i], st[i]) /\ pc[i] = Piece(st[i - 1].ltt, ev[i])
    /\ Joins(tx, n, Printable, pc)

Told(s, x) == \E n, ev, st, pc, tx : Story(n, ev, st, pc, tx) /\ st[n] = s /\ tx[n] = x

LEMMA ToldStart == Told(AtStart, <<>>)
  <1>. DEFINE st == [i \in 0..0 |-> AtStart]
              tx == [i \in 0..0 |-> <<>>]
              none == <<>>
  <1>1. st[0] = AtStart
    <2>. HIDE DEF AtStart
    <2>. QED OBVIOUS
  <1>2. tx[0] = <<>> /\ tx \in [0..0 -> Seq(Printable)]
    OBVIOUS
  <1>3. \A i \in 1..0 : FALSE
    OBVIOUS
  <1>4. Joins(tx, 0, Printable, none)
    BY <1>2, <1>3 DEF Joins
  <1>. HIDE DEF st, tx, none
  <1>5. Story(0, none, st, none, tx)
    BY <1>1, <1>3, <1>4 DEF Story
  <1>. QED BY <1>1, <1>2, <1>5 DEF Told

LEMMA ToldMore ==
  ASSUME NEW s, NEW x, Told(s, x), NEW e, NEW t, Does(s, e, t), Piece(s.ltt, e) \in Text
  PROVE  Told(t, x \o Piece(s.ltt, e))
  <1>1. PICK n, ev, st, pc, tx : Story(n, ev, st, pc, tx) /\ st[n] = s /\ tx[n] = x
    BY DEF Told
  <1>. DEFINE N == n + 1
              p == Piece(s.ltt, e)
              y == x \o p
              ev1 == [i \in 1..N |-> IF i = N THEN e ELSE ev[i]]
              st1 == [i \in 0..N |-> IF i = N THEN t ELSE st[i]]
              pc1 == [i \in 1..N |-> IF i = N THEN p ELSE pc[i]]
              tx1 == [i \in 0..N |-> IF i = N THEN y ELSE tx[i]]
  <1>2. /\ n \in Nat /\ st[0] = AtStart /\ tx \in [0..n -> Seq(Printable)] /\ tx[0] = <<>>
        /\ \A i \in 1..n : Does(st[i - 1], ev[i], st[i]) /\ pc[i] = Piece(st[i - 1].ltt, ev[i])
        /\ \A i \in 1..n : pc[i] \in Seq(Printable) /\ tx[i] = tx[i - 1] \o pc[i]
    BY <1>1 DEF Story, Joins
  <1>3. p \in Seq(Printable) /\ y \in Seq(Printable)
    <2>1. n \in 0..n
      BY <1>2
    <2>2. x \in Text /\ p \in Text
      BY <1>1, <1>2, <2>1 DEF Text
    <2>. QED BY <2>2, TextJoined DEF Text
  <1>. HIDE DEF p, y
  <1>4. /\ N \in Nat /\ N \in 1..N /\ N \in 0..N /\ 0 \in 0..N /\ 0 # N /\ N - 1 = n /\ n \in 0..N /\ n # N
        /\ \A i \in 1..N : i = N \/ i \in 1..n
        /\ \A i \in 1..n : i # N /\ i - 1 # N /\ i \in 1..N /\ i \in 0..N /\ i - 1 \in 0..N
        /\ \A i \in 0..N : i = N \/ i \in 0..n
    BY <1>2
  <1>. HIDE DEF N
  <1>5. /\ st1[0] = st[0] /\ st1[N] = t /\ st1[n] = s
        /\ \A i \in 1..n : st1[i] = st[i] /\ st1[i - 1] = st[i - 1]
    BY <1>1, <1>4
  <1>6. ev1[N] = e /\ pc1[N] = p /\ \A i \in 1..n : ev1[i] = ev[i] /\ pc1[i] = pc[i]
    BY <1>4
  <1>7. /\ tx1[0] = tx[0] /\ tx1[N] = y /\ tx1[n] = x
        /\ \A i \in 1..n : tx1[i] = tx[i] /\ tx1[i - 1] = tx[i - 1]
        /\ tx1 \in [0..N -> Seq(Printable)]
    BY <1>1, <1>2, <1>3, <1>4
  <1>. HIDE DEF ev1, st1, pc1, tx1
  <1>8. ASSUME NEW i \in 1..N
        PROVE  /\ Does(st1[i - 1], ev1[i], st1[i]) /\ pc1[i] = Piece(st1[i - 1].ltt, ev1[i])
               /\ pc1[i] \in Seq(Printable) /\ tx1[i] = tx1[i - 1] \o pc1[i]
    <2>1. CASE i = N
      BY <1>3, <1>4, <1>5, <1>6, <1>7, <2>1 DEF p, y
    <2>2. CASE i \in 1..n
      BY <1>2, <1>5, <1>6, <1>7, <2>2
    <2>. QED BY <1>4, <2>1, <2>2
  <1>9. Story(N, ev1, st1, pc1, tx1)
    <2>1. Joins(tx1, N, Printable, pc1)
      BY <1>2, <1>7, <1>8 DEF Joins
    <2>. QED BY <1>2, <1>4, <1>5, <1>8, <2>1 DEF Story
  <1>10. Told(t, y)
    BY <1>5, <1>7, <1>9 DEF Told
  <1>. QED BY <1>10 DEF y, p

-----------------------------------------------------------------------------
(* The first parse *)

\* What was accepted up to now, printed, is what ToString makes of the blocks.
Written == \E x : Told(Now, x) /\ \E g, D : Laid(g, D, x)

LEMMA WrittenStart ==
  ASSUME IInv, Now = AtStart
  PROVE  Written
  <1>. DEFINE none == <<>>
  <1>1. /\ last_token_type = "START" /\ config_stack = <<1>> /\ blocks = <<none>>
    BY DEF Now, AtStart
  <1>2. Len(config_stack) = 1 /\ config_stack[1] = 1
    BY <1>1
  <1>3. Len(blocks) = 1 /\ blocks[1] = none
    BY <1>1
  <1>. DEFINE g == [b \in Nat |-> none]
  <1>4. g \in [Nat -> Text] /\ g[1] = none
    <2>1. none \in Text
      BY Prints
    <2>. HIDE DEF none
    <2>. QED BY <2>1
  <1>. HIDE DEF g
  <1>5. Current(g) = none
    <2>1. blocks[top] = none /\ last_token_type # "NORMAL"
      BY <1>1, <1>2, <1>3 DEF top
    <2>. QED BY <1>4, <2>1, NoText DEF Current
  <1>6. OnStack(1)
    BY <1>2 DEF OnStack
  <1>7. g[Len(config_stack)] \o Current(g) = none
    <2>1. none \o none = none
      BY Prints, TextEmpty
    <2>. QED BY <1>2, <1>4, <1>5, <2>1
  <1>8. \A b \in 1..Len(blocks) : b = 1
    BY <1>3
  <1>9. 1..(Len(config_stack) - 1) = {}
    BY <1>2
  <1>. HIDE DEF none
  <1>10. Laid(g, g, none)
    BY <1>1, <1>4, <1>6, <1>7, <1>8, <1>9 DEF Laid, none
  <1>11. Told(Now, none)
    BY ToldStart DEF none
  <1>. QED BY <1>10, <1>11 DEF Written

LEMMA WrittenSame ==
  ASSUME Written, UNCHANGED <<last_token_type, start_block, config_stack, blocks>>
  PROVE  Written'
  <1>1. PICK x : Told(Now, x) /\ \E g, D : Laid(g, D, x)
    BY DEF Written
  <1>2. PICK g, D : Laid(g, D, x)
    BY <1>1
  <1>3. Now' = Now
    BY DEF Now
  <1>4. Laid(g, D, x)'
    BY <1>2 DEF Laid, OnStack, Current, top
  <1>. QED BY <1>1, <1>3, <1>4 DEF Written

LEMMA WrittenWord ==
  ASSUME IInv, Written, NEW token, IsWord(token), Normal(token)
  PROVE  Written'
  <1>0. token \in Token
    BY DEF IsWord
  <1>1. PICK x : Told(Now, x) /\ \E g, D : Laid(g, D, x)
    BY DEF Written
  <1>2. PICK g, D : Laid(g, D, x)
    BY <1>1
  <1>3. PICK p : p = Spaced(token)
    OBVIOUS
  <1>4. p \in Text /\ Laid(g, D, x \o p)'
    BY <1>0, <1>2, <1>3, LaidWord
  <1>5. Now.ltt = last_token_type
    BY DEF Now
  <1>6. Piece(Now.ltt, token) = p
    BY <1>3, <1>5, Pieces DEF Spaced
  <1>7. Does(Now, token, Now')
    BY NormalNow DEF Does
  <1>8. Told(Now', x \o p)
    BY <1>1, <1>4, <1>6, <1>7, ToldMore
  <1>. QED BY <1>4, <1>8 DEF Written

LEMMA WrittenEnd ==
  ASSUME IInv, Written, StatementEnd, last_token_type = "NORMAL"
  PROVE  Written'
  <1>. DEFINE e == <<";">>
              p == <<";", "\n">>
  <1>1. PICK x : Told(Now, x) /\ \E g, D : Laid(g, D, x)
    BY DEF Written
  <1>2. PICK g, D : Laid(g, D, x)
    BY <1>1
  <1>3. last_token_type' = "STATEMENT_END" /\ UNCHANGED <<config_stack, blocks>>
    BY DEF StatementEnd, Reject
  <1>4. p \in Text /\ Laid(g, D, x \o p)'
    BY <1>2, <1>3, LaidEnd, Prints
  <1>5. Now.ltt = last_token_type
    BY DEF Now
  <1>6. Piece(Now.ltt, e) = p
    BY Pieces
  <1>7. Does(Now, e, Now')
    BY <1>5, EndNow DEF Does
  <1>. HIDE DEF e
  <1>8. Told(Now', x \o p)
    <2>. HIDE DEF p
    <2>. QED BY <1>1, <1>4, <1>6, <1>7, ToldMore
  <1>. QED BY <1>4, <1>8 DEF Written

LEMMA WrittenOpen ==
  ASSUME IInv, Written, StartBlock, last_token_type = "NORMAL"
  PROVE  Written'
  <1>. DEFINE e == <<"{">>
              p == <<" ", "{", "\n">>
  <1>1. PICK x : Told(Now, x) /\ \E g, D : Laid(g, D, x)
    BY DEF Written
  <1>2. PICK g, D : Laid(g, D, x)
    BY <1>1
  <1>3. PICK y : y = Opened(x)
    OBVIOUS
  <1>4. PICK E : Laid(g, E, y)'
    BY <1>2, <1>3, LaidOpen
  <1>5. Now.ltt = last_token_type /\ p \in Text
    BY Prints DEF Now
  <1>6. Piece(Now.ltt, e) = p
    BY Pieces
  <1>7. Does(Now, e, Now')
    BY <1>5, OpenNow DEF Does
  <1>. HIDE DEF e
  <1>8. Told(Now', x \o p)
    <2>. HIDE DEF p
    <2>. QED BY <1>1, <1>5, <1>6, <1>7, ToldMore
  <1>9. Told(Now', y)
    BY <1>3, <1>8 DEF Opened
  <1>. QED BY <1>4, <1>9 DEF Written

LEMMA WrittenClose ==
  ASSUME IInv, Written, result = "running", EndBlock,
         last_token_type \in {"STATEMENT_END", "END_BLOCK"}, start_block > 0
  PROVE  Written'
  <1>. DEFINE e == <<"}">>
              p == <<"}", "\n">>
  <1>1. PICK x : Told(Now, x) /\ \E g, D : Laid(g, D, x)
    BY DEF Written
  <1>2. PICK g, D : Laid(g, D, x)
    BY <1>1
  <1>3. PICK y : y = Closed(x)
    OBVIOUS
  <1>4. PICK h : Laid(h, D, y)'
    BY <1>2, <1>3, LaidClose
  <1>5. Now.ltt = last_token_type /\ Now.sb = start_block /\ p \in Text
    BY Prints DEF Now
  <1>6. Piece(Now.ltt, e) = p
    BY Pieces
  <1>7. Does(Now, e, Now')
    BY <1>5, CloseNow DEF Does
  <1>. HIDE DEF e
  <1>8. Told(Now', x \o p)
    <2>. HIDE DEF p
    <2>. QED BY <1>1, <1>5, <1>6, <1>7, ToldMore
  <1>9. Told(Now', y)
    BY <1>3, <1>8 DEF Closed
  <1>. QED BY <1>4, <1>9 DEF Written

\* What the tokenizer holds of a token is a beginning of a word.
QuoteBegun(v, q) == Len(v) >= 1 /\ v[1] = q /\ \A j \in 2..Len(v) : v[j] # q

Held ==
    /\ state = "SINGLE_QUOTE" => QuoteBegun(value, "'")
    /\ state = "DOUBLE_QUOTE" => QuoteBegun(value, "\"")
    /\ state = "NORMAL" => PlainWord(value)

\* The file is accepted up to now.
Accepted ==
    /\ Written
    /\ Held
    /\ result = "true" =>
         last_token_type \in {"STATEMENT_END", "END_BLOCK"} /\ start_block = 0 /\ Len(config_stack) = 1

LEMMA HeldIdle ==
  ASSUME state' \in {"INITIAL", "COMMENT"}
  PROVE  Held'
  BY DEF Held

LEMMA Appended ==
  ASSUME value \in Token, NEW c \in Char, NEW v, v = Append(value, c)
  PROVE  /\ Len(value) \in Nat /\ Len(v) = Len(value) + 1 /\ v[Len(value) + 1] = c /\ v \in Token
         /\ \A j \in 1..Len(value) : v[j] = value[j]
  <1>1. value \in Seq(Char)
    BY DEF Token
  <1>. QED BY <1>1, AppendProperties DEF Token

LEMMA FirstParses ==
  ASSUME IInv, Accepted, NEW c \in Char, ParseToken(c), result' # "false"
  PROVE  Accepted'
  <1>0. result = "running" /\ TypeOK /\ value \in Token
    BY DEF IInv, TypeOK, ParseToken, SkipBlank, Punctuation, Begin, Quoted, Comment, InToken, get, unget, following
  <1>1. ASSUME UNCHANGED parser, Held' PROVE Accepted'
    <2>1. UNCHANGED <<last_token_type, start_block, config_stack, blocks, result>>
      BY <1>1 DEF parser
    <2>2. Written'
      BY <2>1, WrittenSame DEF Accepted
    <2>. QED BY <1>0, <1>1, <2>1, <2>2 DEF Accepted
  <1>2. ASSUME Written', result' = result, Return PROVE Accepted'
    <2>1. Held'
      BY <1>2, HeldIdle DEF Return
    <2>. QED BY <1>0, <1>2, <2>1 DEF Accepted
  <1>3. ASSUME NEW token, IsWord(token), Normal(token), Return PROVE Accepted'
    BY <1>2, <1>3, WrittenWord, NormalNow DEF Accepted
  <1>4. CASE SkipBlank(c)
    <2>1. UNCHANGED <<state, value>> /\ UNCHANGED parser
      BY <1>4 DEF SkipBlank, lexer
    <2>2. Held'
      BY <2>1 DEF Accepted, Held
    <2>. QED BY <1>1, <2>1, <2>2
  <1>5. CASE Punctuation(c)
    <2>0. Return
      BY <1>5 DEF Punctuation
    <2>1. CASE StartBlock
      <3>1. last_token_type = "NORMAL"
        BY <2>1 DEF StartBlock, Reject
      <3>. QED BY <1>2, <2>0, <2>1, <3>1, WrittenOpen, OpenNow DEF Accepted
    <2>2. CASE EndBlock
      <3>1. last_token_type \in {"STATEMENT_END", "END_BLOCK"} /\ start_block > 0
        BY <2>2 DEF EndBlock, Reject
      <3>. QED BY <1>0, <1>2, <2>0, <2>2, <3>1, WrittenClose, CloseNow DEF Accepted
    <2>3. CASE StatementEnd
      <3>1. last_token_type = "NORMAL"
        BY <2>3 DEF StatementEnd, Reject
      <3>. QED BY <1>2, <2>0, <2>3, <3>1, WrittenEnd, EndNow DEF Accepted
    <2>. QED BY <1>5, <2>1, <2>2, <2>3 DEF Punctuation
  <1>6. CASE Begin(c)
    <2>1. value' = <<c>> /\ UNCHANGED parser
      BY <1>6 DEF Begin
    <2>2. Len(value') = 1 /\ value'[1] = c
      BY <2>1
    <2>3. 2..1 = {}
      OBVIOUS
    <2>4. \/ state' = "COMMENT" \/ (state' = "DOUBLE_QUOTE" /\ c = "\"")
          \/ (state' = "SINGLE_QUOTE" /\ c = "'") \/ (state' = "NORMAL" /\ c \notin Special)
      BY <1>6 DEF Begin
    <2>0. PICK v : v = value'
      OBVIOUS
    <2>5. QuoteBegun(v, c) /\ (c \notin Special => PlainWord(v))
      <3>1. Len(v) = 1 /\ v[1] = c /\ 1 >= 1 /\ 2..Len(v) = {}
        BY <2>0, <2>2, <2>3
      <3>. QED BY <3>1 DEF QuoteBegun, PlainWord
    <2>6. Held'
      BY <2>0, <2>4, <2>5 DEF Held
    <2>. QED BY <1>1, <2>1, <2>6
  <1>7. CASE Quoted(c)
    <2>. DEFINE q == IF state = "SINGLE_QUOTE" THEN "'" ELSE "\""
    <2>1. QuoteBegun(value, q) /\ q \in Quote
      BY <1>7 DEF Quoted, Accepted, Held, Quote
    <2>0. PICK v : v = Append(value, c)
      OBVIOUS
    <2>2. /\ Len(value) \in Nat /\ Len(v) = Len(value) + 1 /\ v[Len(value) + 1] = c /\ v \in Token
          /\ \A j \in 1..Len(value) : v[j] = value[j]
      BY <1>0, <2>0, Appended, ZenonT(60)
    <2>3. /\ Len(v) >= 2 /\ v[1] = q /\ Len(v) - 1 = Len(value)
          /\ \A j \in 2..Len(value) : v[j] # q
      <3>. HIDE DEF q
      <3>1. 1 \in 1..Len(value) /\ \A j \in 2..Len(value) : j \in 1..Len(value)
        BY <2>1, <2>2 DEF QuoteBegun
      <3>2. Len(v) >= 2 /\ Len(v) - 1 = Len(value)
        BY <2>1, <2>2 DEF QuoteBegun
      <3>. QED BY <2>1, <2>2, <3>1, <3>2 DEF QuoteBegun
    <2>4. CASE c = q /\ Normal(Append(value, c)) /\ Return
      <3>. HIDE DEF q
      <3>1. v[Len(v)] = q
        BY <2>2, <2>4
      <3>2. QuotedWord(v, q)
        BY <2>3, <3>1 DEF QuotedWord
      <3>3. IsWord(v)
        BY <2>1, <2>2, <3>2 DEF IsWord
      <3>. QED BY <1>3, <2>0, <2>4, <3>3
    <2>5. CASE c # q /\ value' = Append(value, c) /\ UNCHANGED <<state, parser>>
      <3>1. QuoteBegun(v, q)
        <4>. HIDE DEF q
        <4>1. \A j \in 2..Len(v) : j \in 2..Len(value) \/ j = Len(value) + 1
          BY <2>2
        <4>. QED BY <2>2, <2>3, <2>5, <4>1 DEF QuoteBegun
      <3>2. value' = v /\ state' = state /\ state # "NORMAL"
        BY <1>7, <2>0, <2>5 DEF Quoted
      <3>3. Held'
        BY <3>1, <3>2 DEF Held
      <3>. QED BY <1>1, <2>5, <3>3
    <2>. QED BY <1>7, <2>4, <2>5 DEF Quoted
  <1>8. CASE Comment(c)
    <2>1. UNCHANGED parser /\ state' \in {"INITIAL", "COMMENT"}
      BY <1>8 DEF Comment, Return
    <2>. QED BY <1>1, <2>1, HeldIdle
  <1>9. CASE InToken(c)
    <2>1. PlainWord(value) /\ value \in Token
      BY <1>0, <1>9 DEF InToken, Accepted, Held, TypeOK
    <2>2. CASE Normal(value) /\ Return
      BY <1>3, <2>1, <2>2 DEF IsWord
    <2>3. CASE c \notin Stop /\ value' = Append(value, c) /\ UNCHANGED <<state, parser>>
      <3>0. PICK v : v = Append(value, c)
        OBVIOUS
      <3>1. /\ Len(value) \in Nat /\ Len(v) = Len(value) + 1 /\ v[Len(value) + 1] = c
            /\ \A j \in 1..Len(value) : v[j] = value[j]
        BY <1>0, <3>0, Appended
      <3>2. PlainWord(v)
        <4>1. 1 \in 1..Len(value) /\ Len(v) >= 1
          BY <2>1, <3>1 DEF PlainWord
        <4>2. \A j \in 2..Len(v) : (j \in 2..Len(value) /\ j \in 1..Len(value)) \/ j = Len(value) + 1
          BY <3>1
        <4>. QED BY <2>1, <2>3, <3>1, <4>1, <4>2 DEF PlainWord
      <3>3. value' = v /\ state' = "NORMAL"
        BY <1>9, <2>3, <3>0 DEF InToken
      <3>4. Held'
        BY <3>2, <3>3 DEF Held
      <3>. QED BY <1>1, <2>3, <3>4
    <2>. QED BY <1>9, <2>2, <2>3 DEF InToken
  <1>. QED BY <1>4, <1>5, <1>6, <1>7, <1>8, <1>9 DEF ParseToken

LEMMA FirstEnds ==
  ASSUME IInv, Accepted, EndOfFile, result' # "false"
  PROVE  Accepted'
  <1>1. result = "running" /\ UNCHANGED <<state, value>> /\ Eof
    BY DEF EndOfFile, Reject, lexer
  <1>2. /\ last_token_type \in {"STATEMENT_END", "END_BLOCK"} /\ start_block = 0
        /\ UNCHANGED <<last_token_type, start_block, config_stack, blocks>>
    BY <1>1 DEF Eof
  <1>3. Len(config_stack) = 1
    <2>1. start_block = Len(config_stack) - 1 /\ Len(config_stack) \in Nat
      BY <1>1, ParserTypes DEF IInv, StackIsOpenPath
    <2>. QED BY <1>2, <2>1
  <1>4. Written' /\ Held'
    BY <1>1, <1>2, WrittenSame DEF Accepted, Held
  <1>. QED BY <1>2, <1>3, <1>4 DEF Accepted

-----------------------------------------------------------------------------
(* Where the tokens stand in the text *)

Gap == {" ", "\n"}

\* What ToString puts in front of e, after a token of type ltt.
Lead(ltt, e) == IF e = <<"{">> \/ (ltt = "NORMAL" /\ IsWord(e)) THEN 1 ELSE 0

\* In the piece p the token e comes after l blanks, and then only blanks.
Fits(e, p, l) ==
    /\ l \in 0..1 /\ Len(e) >= 1 /\ Stands(p, l, e)
    /\ \A j \in 1..l : p[j] \in Gap
    /\ \A j \in (l + Len(e) + 1)..Len(p) : p[j] \in Gap

LEMMA WordLong ==
  ASSUME NEW e, IsWord(e)
  PROVE  e \in Text /\ Len(e) \in Nat /\ Len(e) >= 1
  <1>1. e \in Text
    BY TokenIsText DEF IsWord
  <1>2. Len(e) \in Nat
    BY <1>1, LenProperties DEF Text
  <1>3. PlainWord(e) => Len(e) >= 1
    BY DEF PlainWord
  <1>4. \A q : QuotedWord(e, q) => Len(e) >= 2
    BY DEF QuotedWord
  <1>5. Len(e) >= 2 => Len(e) >= 1
    BY <1>2
  <1>. QED BY <1>1, <1>2, <1>3, <1>4, <1>5 DEF IsWord

LEMMA FitsPlain ==
  ASSUME NEW e \in Text, Len(e) >= 1
  PROVE  Fits(e, e, 0)
  <1>1. Len(e) \in Nat
    BY LenProperties DEF Text
  <1>. DEFINE n == Len(e)
  <1>. HIDE DEF n
  <1>2. 0 \in 0..1 /\ n = Len(e)
    BY DEF n
  <1>3. n \in Nat
    BY <1>1 DEF n
  <1>4. 1..0 = {} /\ (0 + n + 1)..n = {} /\ \A j \in 1..n : 0 + j = j
    BY <1>3
  <1>5. 0 + n <= n
    BY <1>3
  <1>6. Stands(e, 0, e)
    BY <1>2, <1>3, <1>4, <1>5 DEF Stands
  <1>. QED BY <1>2, <1>4, <1>6 DEF Fits

LEMMA FitsSpaced ==
  ASSUME NEW e \in Text, Len(e) >= 1, NEW b \in Gap, <<b>> \in Text
  PROVE  Fits(e, <<b>> \o e, 1) /\ (<<b>> \o e)[1] = b /\ Len(<<b>> \o e) = 1 + Len(e)
  <1>. DEFINE s == <<b>>
              p == s \o e
              n == Len(e)
  <1>1. s \in Text /\ Len(s) = 1 /\ s[1] = b
    OBVIOUS
  <1>2. n \in Nat
    BY LenProperties DEF Text
  <1>. HIDE DEF s
  <1>3. /\ p \in Text /\ Len(p) = Len(s) + Len(e) /\ Stands(p, Len(s), e)
        /\ \A j \in 1..Len(s) : p[j] = s[j]
    BY <1>1, StandsConcat, Concatenation, ZenonT(60) DEF Text
  <1>4. p[1] = b /\ Stands(p, 1, e) /\ Len(p) = 1 + n
    BY <1>1, <1>3
  <1>. HIDE DEF p
  <1>5. 1 \in 0..1 /\ \A j \in 1..1 : j = 1
    OBVIOUS
  <1>6. (1 + n + 1)..(1 + n) = {}
    BY <1>2
  <1>7. n >= 1 /\ n = Len(e)
    OBVIOUS
  <1>8. Fits(e, p, 1)
    <2>. HIDE DEF n
    <2>. QED BY <1>4, <1>5, <1>6, <1>7 DEF Fits
  <1>. QED BY <1>4, <1>8 DEF p, s

LEMMA FitsMark ==
  ASSUME NEW c, NEW b, b \in Gap
  PROVE  Fits(<<c>>, <<c, b>>, 0)
  <1>. DEFINE e == <<c>>
              p == <<c, b>>
  <1>1. Len(e) = 1 /\ e[1] = c
    OBVIOUS
  <1>2. Len(p) = 2 /\ p[1] = c /\ p[2] = b
    OBVIOUS
  <1>. HIDE DEF e, p
  <1>3. /\ 0 \in 0..1 /\ 1 >= 1 /\ 1..0 = {} /\ (\A j \in (0 + 1 + 1)..2 : j = 2) /\ 0 \in Nat
        /\ (\A j \in 1..1 : j = 1 /\ 0 + j = 1) /\ 1 \in Nat /\ 2 \in Nat /\ 0 + 1 <= 2
    OBVIOUS
  <1>4. Stands(p, 0, e)
    BY <1>1, <1>2, <1>3 DEF Stands
  <1>5. Fits(e, p, 0)
    BY <1>1, <1>2, <1>3, <1>4 DEF Fits
  <1>. QED BY <1>5 DEF e, p

LEMMA FitsBrace ==
  ASSUME NEW c, NEW b, b \in Gap, NEW d, d \in Gap
  PROVE  Fits(<<c>>, <<b, c, d>>, 1)
  <1>. DEFINE e == <<c>>
              p == <<b, c, d>>
  <1>1. Len(e) = 1 /\ e[1] = c
    OBVIOUS
  <1>2. Len(p) = 3 /\ p[1] = b /\ p[2] = c /\ p[3] = d
    OBVIOUS
  <1>. HIDE DEF e, p
  <1>3. /\ 1 \in 0..1 /\ 1 >= 1 /\ (\A j \in 1..1 : j = 1 /\ 1 + j = 2) /\ (\A j \in (1 + 1 + 1)..3 : j = 3)
        /\ 1 \in Nat /\ 3 \in Nat /\ 1 + 1 <= 3
    OBVIOUS
  <1>4. Stands(p, 1, e)
    BY <1>1, <1>2, <1>3 DEF Stands
  <1>5. Fits(e, p, 1)
    BY <1>1, <1>2, <1>3, <1>4 DEF Fits
  <1>. QED BY <1>5 DEF e, p

\* The piece of each token; behind a word no token follows at once.
LEMMA PieceShape ==
  ASSUME NEW s, NEW e, NEW t, Does(s, e, t), NEW p, p = Piece(s.ltt, e)
  PROVE  /\ Fits(e, p, Lead(s.ltt, e))
         /\ s.ltt = "NORMAL" => p[1] \in Stop
         /\ IsWord(e) => Len(p) = Lead(s.ltt, e) + Len(e) /\ t.ltt = "NORMAL"
  <1>1. " " \in Gap /\ "\n" \in Gap /\ " " \in Stop /\ ";" \in Stop
    BY DEF Gap, Stop
  <1>2. /\ <<";">> # <<"{">> /\ <<"}">> # <<"{">>
        /\ ~IsWord(<<";">>) /\ ~IsWord(<<"{">>) /\ ~IsWord(<<"}">>)
    BY Marks
  <1>3. CASE e = <<";">> /\ s.ltt = "NORMAL"
    <2>1. p = <<";", "\n">> /\ p[1] = ";"
      <3>1. p = <<";", "\n">>
        BY <1>3, Pieces
      <3>2. \A c, d : <<c, d>>[1] = c
        OBVIOUS
      <3>. QED BY <3>1, <3>2
    <2>2. Lead(s.ltt, e) = 0
      BY <1>2, <1>3 DEF Lead
    <2>. QED BY <1>1, <1>2, <1>3, <2>1, <2>2, FitsMark
  <1>4. CASE e = <<"{">> /\ s.ltt = "NORMAL"
    <2>1. p = <<" ", "{", "\n">> /\ p[1] = " "
      <3>1. p = <<" ", "{", "\n">>
        BY <1>4, Pieces
      <3>2. \A b, c, d : <<b, c, d>>[1] = b
        OBVIOUS
      <3>. QED BY <3>1, <3>2
    <2>2. Lead(s.ltt, e) = 1
      BY <1>4 DEF Lead
    <2>. QED BY <1>1, <1>2, <1>4, <2>1, <2>2, FitsBrace
  <1>5. CASE e = <<"}">> /\ s.ltt \in {"STATEMENT_END", "END_BLOCK"}
    <2>1. p = <<"}", "\n">> /\ s.ltt # "NORMAL"
      BY <1>5, Pieces
    <2>2. Lead(s.ltt, e) = 0
      BY <1>2, <1>5 DEF Lead
    <2>. QED BY <1>1, <1>2, <1>5, <2>1, <2>2, FitsMark
  <1>6. CASE IsWord(e) /\ t = WordDone(s, e)
    <2>1. e \in Text /\ Len(e) \in Nat /\ Len(e) >= 1
      BY <1>6, WordLong
    <2>2. t.ltt = "NORMAL"
      BY <1>6 DEF WordDone
    <2>3. e # <<"{">>
      BY <1>2, <1>6
    <2>4. CASE s.ltt = "NORMAL"
      <3>1. p = <<" ">> \o e /\ Lead(s.ltt, e) = 1
        BY <1>6, <2>4, Pieces DEF Lead
      <3>2. PICK b : b = " "
        OBVIOUS
      <3>4. b \in Gap /\ <<b>> \in Text
        BY <1>1, <3>2, Prints
      <3>3. Fits(e, <<b>> \o e, 1) /\ (<<b>> \o e)[1] = b /\ Len(<<b>> \o e) = 1 + Len(e)
        BY <2>1, <3>4, FitsSpaced
      <3>. QED BY <1>1, <2>2, <3>1, <3>2, <3>3
    <2>5. CASE s.ltt # "NORMAL"
      <3>1. p = e /\ Lead(s.ltt, e) = 0
        BY <1>6, <2>3, <2>5, Pieces DEF Lead
      <3>2. Len(p) = 0 + Len(e)
        <4>1. \A i \in Nat : i = 0 + i
          OBVIOUS
        <4>. QED BY <2>1, <3>1, <4>1
      <3>. QED BY <2>1, <2>2, <2>5, <3>1, <3>2, FitsPlain
    <2>. QED BY <2>4, <2>5
  <1>. QED BY <1>3, <1>4, <1>5, <1>6 DEF Does

\* The k-th token stands in the text behind at[k - 1] characters, and then there
\* are only blanks up to the next one; a word is followed by a character that
\* ends it.
TokenAt(e, from, to, x) ==
    /\ Stands(x, from, e) /\ Len(e) >= 1 /\ from + Len(e) <= to /\ to <= Len(x)
    /\ \A j \in (from + Len(e) + 1)..to : x[j] \in Gap
    /\ IsWord(e) => from + Len(e) < Len(x) /\ x[from + Len(e) + 1] \in Stop

Layout(n, ev, at, x) ==
    /\ at \in [0..n -> Nat] /\ at[n] = Len(x) /\ \A j \in 1..at[0] : x[j] \in Gap
    /\ \A k \in 1..n : TokenAt(ev[k], at[k - 1], at[k], x)

\* The first l characters behind the first a are blanks.
LEMMA GapBehind ==
  ASSUME NEW x, NEW a \in Nat, NEW p, NEW e, NEW l, Stands(x, a, p), Fits(e, p, l)
  PROVE  /\ l \in 0..1 /\ a + l <= Len(x)
         /\ \A j \in (a + 1)..(a + l) : x[j] \in Gap
         /\ x[a + 1] = p[1] /\ a + 1 <= Len(x)
         /\ Stands(x, a + l, e) /\ a + l + Len(e) <= a + Len(p) /\ Len(e) \in Nat
         /\ \A j \in (a + l + Len(e) + 1)..(a + Len(p)) : x[j] \in Gap
  <1>. DEFINE m == Len(e)
              n == Len(p)
              r == Len(x)
  <1>1. /\ l \in 0..1 /\ m >= 1 /\ m \in Nat /\ n \in Nat /\ r \in Nat /\ l + m <= n /\ a + n <= r
        /\ Stands(p, l, e)
    BY DEF Fits, Stands
  <1>2. \A j \in 1..n : x[a + j] = p[j]
    BY DEF Stands
  <1>3. Stands(x, a + l, e)
    BY <1>1, StandsTrans
  <1>4. ASSUME NEW j \in (a + 1)..(a + l) PROVE x[j] \in Gap
    <2>. DEFINE i == j - a
    <2>1. i \in 1..l /\ i \in 1..n /\ a + i = j
      <3>. HIDE DEF m, n, r
      <3>. QED BY <1>1
    <2>. HIDE DEF i
    <2>2. p[i] \in Gap
      BY <2>1 DEF Fits
    <2>. QED BY <1>2, <2>1, <2>2
  <1>5. ASSUME NEW j \in (a + l + m + 1)..(a + n) PROVE x[j] \in Gap
    <2>. DEFINE i == j - a
    <2>1. i \in (l + m + 1)..n /\ i \in 1..n /\ a + i = j
      <3>. HIDE DEF m, n, r
      <3>. QED BY <1>1
    <2>. HIDE DEF i
    <2>2. p[i] \in Gap
      BY <2>1 DEF Fits
    <2>. QED BY <1>2, <2>1, <2>2
  <1>6. 1 \in 1..n /\ a + l <= r /\ a + 1 <= r /\ a + l + m <= a + n
    <2>. HIDE DEF m, n, r
    <2>. QED BY <1>1
  <1>. QED BY <1>1, <1>2, <1>3, <1>4, <1>5, <1>6

\* What ToString prints puts the tokens in order, and only blanks between them.
LEMMA StoryLaidOut ==
  ASSUME NEW n, NEW ev, NEW st, NEW pc, NEW tx, Story(n, ev, st, pc, tx), st[n].ltt # "NORMAL"
  PROVE  \E at : Layout(n, ev, at, tx[n])
  <1>. DEFINE x == tx[n]
              A(k) == Len(tx[k])
              F(k) == Lead(st[k - 1].ltt, ev[k])
              at == [k \in 0..n |-> A(k) + (IF k < n THEN F(k + 1) ELSE 0)]
  <1>1. /\ n \in Nat /\ Joins(tx, n, Printable, pc) /\ tx[0] = <<>> /\ tx \in [0..n -> Seq(Printable)]
        /\ \A i \in 1..n : Does(st[i - 1], ev[i], st[i]) /\ pc[i] = Piece(st[i - 1].ltt, ev[i])
    BY DEF Story, Joins
  <1>2. /\ \A k \in 0..n : A(k) \in Nat
        /\ \A k \in 1..n : A(k) = A(k - 1) + Len(pc[k]) /\ A(k) <= Len(x) /\ Stands(x, A(k - 1), pc[k])
                           /\ Len(pc[k]) \in Nat
    <2>1. \A k \in 0..n : A(k) \in Nat
      BY <1>1
    <2>2. ASSUME NEW k \in 1..n
          PROVE  A(k) = A(k - 1) + Len(pc[k]) /\ A(k) <= Len(x) /\ Stands(x, A(k - 1), pc[k])
      <3>1. n \in 1..n
        BY <1>1
      <3>2. PieceOf(tx, n, k, Printable, pc)
        BY <1>1, <3>1, JoinsPiece
      <3>. QED BY <3>2 DEF PieceOf
    <2>. QED BY <2>1, <2>2 DEF Stands
  <1>3. \A k \in 1..n :
           /\ Fits(ev[k], pc[k], F(k))
           /\ st[k - 1].ltt = "NORMAL" => pc[k][1] \in Stop
           /\ IsWord(ev[k]) => Len(pc[k]) = F(k) + Len(ev[k]) /\ st[k].ltt = "NORMAL"
    BY <1>1, PieceShape, ZenonT(60)
  <1>4. A(0) = 0 /\ A(n) = Len(x)
    BY <1>1
  <1>5. \A k \in 1..n : k - 1 \in 0..n /\ k \in 0..n
    BY <1>1
  <1>. HIDE DEF A, x
  <1>6. \A k \in 1..n :
           /\ F(k) \in 0..1 /\ A(k - 1) + F(k) <= Len(x)
           /\ \A j \in (A(k - 1) + 1)..(A(k - 1) + F(k)) : x[j] \in Gap
           /\ x[A(k - 1) + 1] = pc[k][1] /\ A(k - 1) + 1 <= Len(x)
           /\ Stands(x, A(k - 1) + F(k), ev[k]) /\ Len(ev[k]) \in Nat
           /\ A(k - 1) + F(k) + Len(ev[k]) <= A(k)
           /\ \A j \in (A(k - 1) + F(k) + Len(ev[k]) + 1)..A(k) : x[j] \in Gap
    <2>. HIDE DEF F
    <2>1. TAKE k \in 1..n
    <2>2. /\ A(k - 1) \in Nat /\ Stands(x, A(k - 1), pc[k]) /\ A(k) = A(k - 1) + Len(pc[k])
          /\ Fits(ev[k], pc[k], F(k))
      BY <1>2, <1>3, <1>5
    <2>3. PICK a, p, e, l : a = A(k - 1) /\ p = pc[k] /\ e = ev[k] /\ l = F(k)
      OBVIOUS
    <2>4. a \in Nat /\ Stands(x, a, p) /\ Fits(e, p, l) /\ A(k) = a + Len(p)
      BY <2>2, <2>3
    <2>5. /\ l \in 0..1 /\ a + l <= Len(x)
          /\ \A j \in (a + 1)..(a + l) : x[j] \in Gap
          /\ x[a + 1] = p[1] /\ a + 1 <= Len(x)
          /\ Stands(x, a + l, e) /\ a + l + Len(e) <= a + Len(p) /\ Len(e) \in Nat
          /\ \A j \in (a + l + Len(e) + 1)..(a + Len(p)) : x[j] \in Gap
      BY <2>4, GapBehind
    <2>. QED BY <2>3, <2>4, <2>5
  <1>. HIDE DEF F
  <1>7. /\ \A k \in 1..n : k # 0 => at[k - 1] = A(k - 1) + F(k)
        /\ at[n] = A(n) /\ \A k \in 1..n : k < n => at[k] = A(k) + F(k + 1) /\ k + 1 \in 1..n
        /\ \A k \in 0..n : at[k] = A(k) + (IF k < n THEN F(k + 1) ELSE 0)
    <2>1. n \in 0..n /\ ~(n < n) /\ A(n) + 0 = A(n)
      BY <1>1, <1>2
    <2>2. \A k \in 1..n : k - 1 \in 0..n /\ k - 1 < n /\ (k - 1) + 1 = k
      BY <1>1
    <2>. QED BY <1>1, <2>1, <2>2
  <1>8. at \in [0..n -> Nat]
    <2>1. \A k \in 0..n : at[k] \in Nat
      <3>. HIDE DEF at
      <3>1. \A k \in 0..n : k < n => k + 1 \in 1..n
        BY <1>1
      <3>2. TAKE k \in 0..n
      <3>3. A(k) \in Nat /\ at[k] = A(k) + (IF k < n THEN F(k + 1) ELSE 0)
        BY <1>2, <1>7
      <3>4. k < n => F(k + 1) \in 0..1
        BY <1>6, <3>1
      <3>. QED BY <3>3, <3>4
    <2>. QED BY <2>1
  <1>. HIDE DEF at
  <1>9. at[n] = Len(x) /\ \A j \in 1..at[0] : x[j] \in Gap
    <2>1. CASE n = 0
      <3>1. at[0] = 0
        BY <1>4, <1>7, <2>1
      <3>. QED BY <1>4, <1>7, <3>1
    <2>2. CASE n # 0
      <3>1. 1 \in 1..n /\ 1 - 1 = 0
        BY <1>1, <2>2
      <3>2. at[0] = A(0) + F(1) /\ \A j \in (A(0) + 1)..(A(0) + F(1)) : x[j] \in Gap
        BY <1>6, <1>7, <3>1
      <3>3. F(1) \in 0..1
        BY <1>6, <3>1
      <3>4. at[0] = F(1) /\ \A j \in 1..at[0] : j \in (0 + 1)..(0 + F(1))
        BY <1>4, <3>2, <3>3
      <3>. QED BY <1>4, <1>7, <3>2, <3>4
    <2>. QED BY <2>1, <2>2
  <1>10. ASSUME NEW k \in 1..n PROVE TokenAt(ev[k], at[k - 1], at[k], x)
    <2>. DEFINE a == A(k - 1) + F(k)
                m == Len(ev[k])
                b == A(k)
                c == at[k]
                r == Len(x)
    <2>1. /\ at[k - 1] = a /\ Stands(x, a, ev[k]) /\ m \in Nat /\ a + m <= b /\ a \in Nat /\ b \in Nat
          /\ \A j \in (a + m + 1)..b : x[j] \in Gap
          /\ b <= r /\ r \in Nat
      <3>1. k - 1 \in 0..n /\ k \in 0..n
        BY <1>1
      <3>2. F(k) \in 0..1 /\ A(k - 1) \in Nat
        BY <1>2, <1>6, <3>1
      <3>3. a \in Nat
        BY <3>2
      <3>. QED BY <1>2, <1>6, <1>7, <3>1, <3>3 DEF Stands
    <2>2. m >= 1
      BY <1>3 DEF Fits
    <2>3. b <= c /\ c <= r /\ c \in Nat /\ \A j \in (b + 1)..c : x[j] \in Gap
      <3>1. CASE k = n
        <4>1. c = b
          BY <1>7, <3>1
        <4>2. (b + 1)..b = {}
          BY <2>1
        <4>. QED BY <2>1, <4>1, <4>2
      <3>2. CASE k # n
        <4>1. k < n
          BY <1>1, <3>2
        <4>2. k + 1 \in 1..n /\ (k + 1) - 1 = k /\ c = b + F(k + 1)
          BY <1>7, <4>1
        <4>3. /\ F(k + 1) \in 0..1 /\ b + F(k + 1) <= r
              /\ \A j \in (b + 1)..(b + F(k + 1)) : x[j] \in Gap
          BY <1>6, <4>2
        <4>4. c \in Nat /\ b <= c
          BY <2>1, <4>2, <4>3
        <4>. QED BY <4>2, <4>3, <4>4
      <3>. QED BY <3>1, <3>2
    <2>4. ASSUME IsWord(ev[k]) PROVE a + m < r /\ x[a + m + 1] \in Stop
      <3>1. Len(pc[k]) = F(k) + m /\ st[k].ltt = "NORMAL"
        BY <1>3, <2>4
      <3>2. A(k) = A(k - 1) + Len(pc[k]) /\ A(k - 1) \in Nat /\ F(k) \in 0..1
        BY <1>2, <1>5, <1>6
      <3>3. a + m = b
        <4>1. \A u, v, w \in Int : (u + v) + w = u + (v + w)
          OBVIOUS
        <4>2. A(k - 1) \in Int /\ F(k) \in Int /\ m \in Int
          BY <2>1, <3>2
        <4>3. a + m = A(k - 1) + (F(k) + m)
          BY <4>1, <4>2
        <4>. QED BY <3>1, <3>2, <4>3
      <3>4. k # n
        BY <3>1
      <3>5. k < n
        BY <1>1, <3>4
      <3>6. k + 1 \in 1..n /\ (k + 1) - 1 = k
        BY <1>1, <3>5
      <3>7. x[b + 1] = pc[k + 1][1] /\ b + 1 <= r /\ pc[k + 1][1] \in Stop
        BY <1>3, <1>6, <3>1, <3>6
      <3>8. b < r
        BY <2>1, <3>7
      <3>. QED BY <3>3, <3>7, <3>8
    <2>. HIDE DEF a, m, b, c, r
    <2>5. a + m <= c
      BY <2>1, <2>3
    <2>6. ASSUME NEW j \in (a + m + 1)..c PROVE x[j] \in Gap
      <3>1. j \in (a + m + 1)..b \/ j \in (b + 1)..c
        BY <2>1, <2>3
      <3>. QED BY <2>1, <2>3, <3>1
    <2>. QED BY <2>1, <2>2, <2>3, <2>4, <2>5, <2>6 DEF TokenAt, m, c, r
  <1>11. Layout(n, ev, at, x)
    BY <1>8, <1>9, <1>10 DEF Layout
  <1>. QED BY <1>11 DEF x

-----------------------------------------------------------------------------
(* The second parse *)

\* The tokens stand in the text x, and the driver, given them, gets from the
\* start to the blocks bs and accepts the end of the file there.
Printout(n, ev, st, at, x, bs) ==
    /\ n \in Nat /\ st[0] = AtStart /\ \A i \in 1..n : Does(st[i - 1], ev[i], st[i])
    /\ Layout(n, ev, at, x)
    /\ st[n].bs = bs /\ st[n].sb = 0 /\ st[n].ltt \in {"STATEMENT_END", "END_BLOCK"}

\* The tokenizer has returned k tokens and the blanks in front of the next one
\* are ahead of it.
Between(at, k) ==
    state = "INITIAL" /\ pos <= at[k] /\ \A j \in (pos + 1)..at[k] : text[j] \in Gap

\* It holds a beginning of the word e behind the first a characters.
Within(e, a) ==
    /\ IsWord(e) /\ Len(value) \in 1..Len(e) /\ pos = a + Len(value)
    /\ \A j \in 1..Len(value) : value[j] = e[j]
    /\ \/ state = "NORMAL" /\ PlainWord(e)
       \/ state = "SINGLE_QUOTE" /\ QuotedWord(e, "'") /\ Len(value) < Len(e)
       \/ state = "DOUBLE_QUOTE" /\ QuotedWord(e, "\"") /\ Len(value) < Len(e)

Reading(n, ev, st, at, k) ==
    /\ result = "running" /\ ended = TRUE /\ pos \in Nat /\ value \in Token
    /\ k \in 0..n /\ Now = st[k]
    /\ Between(at, k) \/ (k < n /\ Within(ev[k + 1], at[k]))

LEMMA Ahead ==
  ASSUME NEW c, following(c), ended = TRUE
  PROVE  /\ result = "running" /\ pos < Len(text) /\ c = text[pos + 1]
         /\ UNCHANGED <<text, ended>>
  BY DEF following

LEMMA AtToken ==
  ASSUME NEW n, NEW ev, NEW st, NEW at, NEW x, NEW bs, Printout(n, ev, st, at, x, bs), NEW k \in 0..n
  PROVE  /\ at[k] \in Nat /\ (k = n => at[k] = Len(x))
         /\ k # n => /\ k < n /\ k + 1 \in 0..n /\ at[k + 1] \in Nat
                     /\ TokenAt(ev[k + 1], at[k], at[k + 1], x) /\ Does(st[k], ev[k + 1], st[k + 1])
  <1>1. /\ n \in Nat /\ at \in [0..n -> Nat] /\ at[n] = Len(x)
        /\ \A i \in 1..n : Does(st[i - 1], ev[i], st[i]) /\ TokenAt(ev[i], at[i - 1], at[i], x)
    BY DEF Printout, Layout
  <1>2. k # n => k < n /\ k + 1 \in 1..n /\ (k + 1) - 1 = k /\ k + 1 \in 0..n
    BY <1>1
  <1>3. at[k] \in Nat
    BY <1>1
  <1>4. k + 1 \in 0..n => at[k + 1] \in Nat
    BY <1>1
  <1>. QED BY <1>1, <1>2, <1>3, <1>4

\* What the tokenizer does with a character, by what kind it is.
LEMMA ReadsGap ==
  ASSUME NEW c \in Gap, state = "INITIAL", ParseToken(c)
  PROVE  get(c) /\ UNCHANGED <<state, value, last_token_type, start_block, config_stack, blocks, result>>
  <1>1. /\ c \in Blank /\ c \in Special /\ c # "{" /\ c # "}" /\ c # ";"
        /\ c # "#" /\ c # "\"" /\ c # "'"
    BY DEF Gap, Blank, Special
  <1>. QED BY <1>1 DEF ParseToken, SkipBlank, Punctuation, Begin, Quoted, Comment, InToken, lexer, parser

LEMMA ReadsMark ==
  ASSUME NEW c, c \in {";", "{", "}"}, state = "INITIAL", ParseToken(c)
  PROVE  /\ get(c) /\ state' = "INITIAL" /\ value' = <<>>
         /\ (c = ";" /\ StatementEnd) \/ (c = "{" /\ StartBlock) \/ (c = "}" /\ EndBlock)
  <1>1. c \notin Blank /\ c \in Special /\ c # "#" /\ c # "\"" /\ c # "'"
    BY DEF Blank, Special, Stop
  <1>. QED BY <1>1 DEF ParseToken, SkipBlank, Punctuation, Begin, Quoted, Comment, InToken, Return

LEMMA ReadsFirst ==
  ASSUME NEW c, c \notin Special \/ c \in Quote, state = "INITIAL", ParseToken(c)
  PROVE  /\ get(c) /\ value' = <<c>>
         /\ UNCHANGED <<last_token_type, start_block, config_stack, blocks, result>>
         /\ c \notin Special => state' = "NORMAL"
         /\ c = "'" => state' = "SINGLE_QUOTE"
         /\ c = "\"" => state' = "DOUBLE_QUOTE"
  <1>1. c \notin Blank /\ c # "{" /\ c # "}" /\ c # ";" /\ c # "#"
    BY DEF Blank, Special, Stop, Quote
  <1>2. "\"" \in Special /\ "'" \in Special /\ "\"" # "'"
    BY DEF Special, Quote
  <1>. QED BY <1>1, <1>2 DEF ParseToken, SkipBlank, Punctuation, Begin, Quoted, Comment, InToken, parser

LEMMA ReadsWord ==
  ASSUME NEW c, ParseToken(c)
  PROVE  /\ state = "NORMAL" => InToken(c)
         /\ state \in {"SINGLE_QUOTE", "DOUBLE_QUOTE"} => Quoted(c)
  BY DEF ParseToken, SkipBlank, Punctuation, Begin, Quoted, Comment, InToken

LEMMA BetweenReads ==
  ASSUME NEW n, NEW ev, NEW st, NEW at, NEW k, Reading(n, ev, st, at, k), Between(at, k),
         at[k] \in Nat, pos < at[k], NEW c, ParseToken(c)
  PROVE  Reading(n, ev, st, at, k)' /\ text' = text
  <1>1. /\ result = "running" /\ ended = TRUE /\ pos \in Nat /\ value \in Token
        /\ k \in 0..n /\ Now = st[k] /\ state = "INITIAL"
        /\ \A j \in (pos + 1)..at[k] : text[j] \in Gap
    BY DEF Reading, Between
  <1>2. following(c)
    BY DEF ParseToken, SkipBlank, Punctuation, Begin, Quoted, Comment, InToken, get, unget
  <1>3. c = text[pos + 1] /\ UNCHANGED <<text, ended>>
    BY <1>1, <1>2, Ahead
  <1>4. c \in Gap
    <2>1. pos + 1 \in (pos + 1)..at[k]
      BY <1>1
    <2>. QED BY <1>1, <1>3, <2>1
  <1>5. get(c) /\ UNCHANGED <<state, value, last_token_type, start_block, config_stack, blocks, result>>
    BY <1>1, <1>4, ReadsGap
  <1>6. pos' = pos + 1
    BY <1>5 DEF get
  <1>7. pos' \in Nat /\ pos' <= at[k] /\ \A j \in (pos' + 1)..at[k] : j \in (pos + 1)..at[k]
    <2>. DEFINE a == at[k]
    <2>1. a \in Nat /\ pos < a /\ pos \in Nat
      BY <1>1
    <2>. HIDE DEF a
    <2>2. pos' \in Nat /\ pos' <= a /\ \A j \in (pos' + 1)..a : j \in (pos + 1)..a
      BY <1>6, <2>1
    <2>. QED BY <2>2 DEF a
  <1>8. Between(at, k)'
    BY <1>1, <1>3, <1>5, <1>7 DEF Between
  <1>9. Now' = Now
    BY <1>5 DEF Now
  <1>. QED BY <1>1, <1>3, <1>5, <1>7, <1>8, <1>9 DEF Reading

LEMMA MarkDone ==
  ASSUME NEW c, NEW t, Does(Now, <<c>>, t),
         (c = ";" /\ StatementEnd) \/ (c = "{" /\ StartBlock) \/ (c = "}" /\ EndBlock)
  PROVE  Now' = t /\ result' = result
  <1>1. Now.ltt = last_token_type /\ Now.sb = start_block
    BY DEF Now
  <1>2. CASE c = ";" /\ StatementEnd
    <2>. DEFINE e == <<";">>
    <2>1. e # <<"{">> /\ e # <<"}">> /\ ~IsWord(e) /\ Does(Now, e, t)
      BY <1>2, Marks
    <2>. HIDE DEF e
    <2>2. Now.ltt = "NORMAL" /\ t = EndDone(Now)
      BY <2>1 DEF Does
    <2>. QED BY <1>1, <1>2, <2>2, EndNow
  <1>3. CASE c = "{" /\ StartBlock
    <2>. DEFINE e == <<"{">>
    <2>1. e # <<";">> /\ e # <<"}">> /\ ~IsWord(e) /\ Does(Now, e, t)
      BY <1>3, Marks
    <2>. HIDE DEF e
    <2>2. Now.ltt = "NORMAL" /\ t = OpenDone(Now)
      BY <2>1 DEF Does
    <2>. QED BY <1>1, <1>3, <2>2, OpenNow
  <1>4. CASE c = "}" /\ EndBlock
    <2>. DEFINE e == <<"}">>
    <2>1. e # <<";">> /\ e # <<"{">> /\ ~IsWord(e) /\ Does(Now, e, t)
      BY <1>4, Marks
    <2>. HIDE DEF e
    <2>2. Now.ltt \in {"STATEMENT_END", "END_BLOCK"} /\ Now.sb > 0 /\ t = CloseDone(Now)
      BY <2>1 DEF Does
    <2>. QED BY <1>1, <1>4, <2>2, CloseNow
  <1>. QED BY <1>2, <1>3, <1>4

\* The driver is given a mark or a word.
LEMMA Given ==
  ASSUME NEW s, NEW e, NEW t, Does(s, e, t)
  PROVE  \/ \E c \in {";", "{", "}"} : e = <<c>>
         \/ IsWord(e) /\ t = WordDone(s, e)
  BY DEF Does

\* Behind a token there are blanks up to the next one.
LEMMA BehindToken ==
  ASSUME NEW e, NEW a \in Nat, NEW b \in Nat, TokenAt(e, a, b, text), text' = text,
         pos' = a + Len(e)
  PROVE  pos' \in Nat /\ pos' <= b /\ \A j \in (pos' + 1)..b : text'[j] \in Gap
  <1>1. Len(e) \in Nat /\ a + Len(e) <= b /\ \A j \in (a + Len(e) + 1)..b : text[j] \in Gap
    BY DEF TokenAt, Stands
  <1>. QED BY <1>1

LEMMA OneCharacter ==
  /\ 1 \in 1..1 /\ \A u : Len(<<u>>) = 1 /\ <<u>>[1] = u
  /\ <<>> \in Token /\ \A c \in Char : <<c>> \in Token
  BY DEF Token

LEMMA MarkReads ==
  ASSUME NEW n, NEW ev, NEW st, NEW at, NEW bs, Printout(n, ev, st, at, text, bs),
         NEW k, Reading(n, ev, st, at, k), Between(at, k), k # n, pos = at[k],
         NEW m \in {";", "{", "}"}, ev[k + 1] = <<m>>, NEW c, ParseToken(c)
  PROVE  Reading(n, ev, st, at, k + 1)' /\ text' = text
  <1>1. /\ result = "running" /\ ended = TRUE /\ Now = st[k] /\ state = "INITIAL" /\ k \in 0..n
    BY DEF Reading, Between
  <1>2. PICK e : e = ev[k + 1]
    OBVIOUS
  <1>3. /\ at[k] \in Nat /\ k + 1 \in 0..n /\ at[k + 1] \in Nat
        /\ TokenAt(e, at[k], at[k + 1], text) /\ Does(st[k], e, st[k + 1])
    BY <1>1, <1>2, AtToken
  <1>4. Len(e) = 1 /\ e[1] = m
    BY <1>2, OneCharacter, Zenon
  <1>5. following(c)
    BY DEF ParseToken, SkipBlank, Punctuation, Begin, Quoted, Comment, InToken, get, unget
  <1>6. c = text[pos + 1] /\ UNCHANGED <<text, ended>>
    BY <1>1, <1>5, Ahead
  <1>7. c = m
    <2>1. 1 \in 1..1
      BY OneCharacter, Zenon
    <2>2. text[at[k] + 1] = e[1]
      BY <1>3, <1>4, <2>1 DEF TokenAt, Stands
    <2>. QED BY <1>4, <1>6, <2>2
  <1>8. /\ get(c) /\ state' = "INITIAL" /\ value' = <<>>
        /\ (c = ";" /\ StatementEnd) \/ (c = "{" /\ StartBlock) \/ (c = "}" /\ EndBlock)
    BY <1>1, <1>7, ReadsMark
  <1>9. Now' = st[k + 1] /\ result' = result
    <2>1. PICK t : t = st[k + 1]
      OBVIOUS
    <2>2. Does(Now, <<c>>, t)
      BY <1>1, <1>2, <1>3, <1>7, <2>1
    <2>3. c \in {";", "{", "}"}
      BY <1>7
    <2>4. (c = ";" /\ StatementEnd) \/ (c = "{" /\ StartBlock) \/ (c = "}" /\ EndBlock)
      BY <1>8, <2>3
    <2>5. Now' = t /\ result' = result
      BY <2>2, <2>4, MarkDone
    <2>. QED BY <2>1, <2>5
  <1>10. pos' = at[k] + Len(e)
    BY <1>4, <1>8 DEF get
  <1>11. pos' \in Nat /\ pos' <= at[k + 1] /\ \A j \in (pos' + 1)..at[k + 1] : text'[j] \in Gap
    BY <1>3, <1>6, <1>10, BehindToken
  <1>12. Between(at, k + 1)'
    BY <1>8, <1>11 DEF Between
  <1>13. value' \in Token
    BY <1>8, OneCharacter, Zenon
  <1>. QED BY <1>1, <1>3, <1>6, <1>8, <1>9, <1>11, <1>12, <1>13 DEF Reading

LEMMA FirstReads ==
  ASSUME NEW n, NEW ev, NEW st, NEW at, NEW bs, Printout(n, ev, st, at, text, bs),
         NEW k, Reading(n, ev, st, at, k), Between(at, k), k # n, pos = at[k],
         IsWord(ev[k + 1]), NEW c \in Char, ParseToken(c)
  PROVE  Reading(n, ev, st, at, k)' /\ text' = text
  <1>1. /\ result = "running" /\ ended = TRUE /\ Now = st[k] /\ state = "INITIAL" /\ k \in 0..n
        /\ pos \in Nat
    BY DEF Reading, Between
  <1>2. PICK e : e = ev[k + 1]
    OBVIOUS
  <1>3. /\ at[k] \in Nat /\ k < n
        /\ TokenAt(e, at[k], at[k + 1], text) /\ Does(st[k], e, st[k + 1])
    BY <1>1, <1>2, AtToken
  <1>4. Len(e) >= 1 /\ Len(e) \in Nat /\ IsWord(e)
    BY <1>2, WordLong
  <1>5. following(c)
    BY DEF ParseToken, SkipBlank, Punctuation, Begin, Quoted, Comment, InToken, get, unget
  <1>6. c = text[pos + 1] /\ UNCHANGED <<text, ended>>
    BY <1>1, <1>5, Ahead
  <1>7. c = e[1]
    <2>1. 1 \in 1..Len(e)
      BY <1>4
    <2>. QED BY <1>3, <1>6, <2>1 DEF TokenAt, Stands
  <1>8. \/ PlainWord(e) /\ c \notin Special
        \/ QuotedWord(e, "'") /\ c = "'" /\ Len(e) >= 2
        \/ QuotedWord(e, "\"") /\ c = "\"" /\ Len(e) >= 2
    BY <1>4, <1>7 DEF IsWord, PlainWord, QuotedWord, Quote
  <1>9. c \notin Special \/ c \in Quote
    BY <1>8 DEF Quote
  <1>10. /\ get(c) /\ value' = <<c>>
         /\ UNCHANGED <<last_token_type, start_block, config_stack, blocks, result>>
         /\ c \notin Special => state' = "NORMAL"
         /\ c = "'" => state' = "SINGLE_QUOTE"
         /\ c = "\"" => state' = "DOUBLE_QUOTE"
    BY <1>1, <1>9, ReadsFirst
  <1>11. PICK v : v = value'
    OBVIOUS
  <1>12. Len(v) = 1 /\ v[1] = c /\ v \in Token
    BY <1>10, <1>11, OneCharacter, Zenon
  <1>13. /\ Len(v) \in 1..Len(e) /\ (Len(e) >= 2 => Len(v) < Len(e))
         /\ \A j \in 1..Len(v) : v[j] = e[j]
    BY <1>4, <1>7, <1>12
  <1>14. pos' = at[k] + Len(v) /\ pos' \in Nat
    <2>1. pos' = pos + 1 /\ pos \in Nat
      BY <1>1, <1>10 DEF get
    <2>. QED BY <1>12, <2>1
  <1>15. Within(e, at[k])'
    BY <1>4, <1>8, <1>10, <1>11, <1>13, <1>14 DEF Within
  <1>16. Now' = Now
    BY <1>10 DEF Now
  <1>. QED BY <1>1, <1>2, <1>3, <1>6, <1>10, <1>11, <1>12, <1>14, <1>15, <1>16 DEF Reading

LEMMA WordGiven ==
  ASSUME NEW s, NEW e, NEW t, Does(s, e, t), IsWord(e)
  PROVE  t = WordDone(s, e)
  <1>1. ~IsWord(<<";">>) /\ ~IsWord(<<"{">>) /\ ~IsWord(<<"}">>)
    BY Marks
  <1>. QED BY <1>1 DEF Does

\* The word is given to the driver.
LEMMA WordRead ==
  ASSUME NEW n, NEW ev, NEW st, NEW at, NEW bs, Printout(n, ev, st, at, text, bs),
         NEW k, Reading(n, ev, st, at, k), k < n, NEW e, e = ev[k + 1], IsWord(e),
         Normal(e), Return, pos' = at[k] + Len(e), UNCHANGED <<text, ended>>
  PROVE  Reading(n, ev, st, at, k + 1)'
  <1>1. result = "running" /\ ended = TRUE /\ Now = st[k] /\ k \in 0..n
    BY DEF Reading
  <1>2. k # n
    <2>1. n \in Nat /\ k \in Nat
      BY <1>1 DEF Printout
    <2>. QED BY <2>1
  <1>3. /\ at[k] \in Nat /\ k + 1 \in 0..n /\ at[k + 1] \in Nat
        /\ TokenAt(e, at[k], at[k + 1], text) /\ Does(st[k], e, st[k + 1])
    BY <1>1, <1>2, AtToken
  <1>4. Now' = st[k + 1] /\ result' = result
    <2>1. st[k + 1] = WordDone(Now, e)
      BY <1>1, <1>3, WordGiven
    <2>. QED BY <2>1, NormalNow
  <1>5. pos' \in Nat /\ pos' <= at[k + 1] /\ \A j \in (pos' + 1)..at[k + 1] : text'[j] \in Gap
    BY <1>3, BehindToken
  <1>6. state' = "INITIAL" /\ value' = <<>>
    BY DEF Return
  <1>7. Between(at, k + 1)'
    BY <1>5, <1>6 DEF Between
  <1>8. value' \in Token
    BY <1>6, OneCharacter, Zenon
  <1>. QED BY <1>1, <1>3, <1>4, <1>5, <1>7, <1>8 DEF Reading

\* What is left of the word.
LEMMA WordAhead ==
  ASSUME value \in Token, NEW e, NEW a \in Nat, NEW b, TokenAt(e, a, b, text), Within(e, a)
  PROVE  /\ Len(value) \in Nat /\ Len(value) >= 1 /\ Len(e) \in Nat
         /\ Len(value) < Len(e) =>
              Len(value) + 1 \in 1..Len(e) /\ text[pos + 1] = e[Len(value) + 1]
         /\ Len(value) = Len(e) => value = e /\ pos = a + Len(e) /\ text[pos + 1] \in Stop
         /\ Len(value) < Len(e) \/ Len(value) = Len(e)
  <1>. DEFINE i == Len(value)
              m == Len(e)
  <1>1. /\ i \in 1..m /\ pos = a + i /\ m \in Nat
        /\ \A j \in 1..i : value[j] = e[j]
        /\ e \in Token /\ text[a + m + 1] \in Stop
        /\ \A j \in 1..m : text[a + j] = e[j]
    BY DEF Within, TokenAt, Stands, IsWord
  <1>2. i \in Nat /\ i >= 1 /\ (i < m \/ i = m)
    <2>. HIDE DEF i, m
    <2>. QED BY <1>1
  <1>3. ASSUME i < m PROVE i + 1 \in 1..m /\ text[pos + 1] = e[i + 1]
    <2>. HIDE DEF i, m
    <2>1. i + 1 \in 1..m /\ a + (i + 1) = pos + 1
      BY <1>1, <1>2, <1>3
    <2>. QED BY <1>1, <2>1
  <1>4. ASSUME i = m PROVE value = e /\ pos = a + m /\ text[pos + 1] \in Stop
    <2>1. value \in Seq(Char) /\ e \in Seq(Char)
      BY <1>1 DEF Token
    <2>2. value = e
      BY <1>1, <1>4, <2>1
    <2>. QED BY <1>1, <1>4, <2>2
  <1>. QED BY <1>1, <1>2, <1>3, <1>4

InQuote == state \in {"SINGLE_QUOTE", "DOUBLE_QUOTE"}

LEMMA WordLonger ==
  ASSUME value \in Token, NEW c \in Char, NEW e, \A j \in 1..Len(value) : value[j] = e[j]
  PROVE  \E v \in Token :
           /\ v = Append(value, c) /\ Len(v) = Len(value) + 1
           /\ c = e[Len(value) + 1] => \A j \in 1..Len(v) : v[j] = e[j]
  <1>0. PICK v : v = Append(value, c)
    OBVIOUS
  <1>1. /\ Len(value) \in Nat /\ Len(v) = Len(value) + 1 /\ v[Len(value) + 1] = c /\ v \in Token
        /\ \A j \in 1..Len(value) : v[j] = value[j]
    <2>1. value \in Seq(Char)
      BY DEF Token
    <2>. QED BY <1>0, <2>1, AppendProperties DEF Token
  <1>2. \A j \in 1..Len(v) : j \in 1..Len(value) \/ j = Len(value) + 1
    BY <1>1
  <1>. QED BY <1>0, <1>1, <1>2

\* One more character of the word is taken.
LEMMA WordTaken ==
  ASSUME NEW n, NEW ev, NEW st, NEW at, NEW k, Reading(n, ev, st, at, k), k < n,
         NEW e, e = ev[k + 1], at[k] \in Nat, Within(e, at[k]),
         NEW v \in Token, Len(v) = Len(value) + 1, Len(v) \in 1..Len(e),
         \A j \in 1..Len(v) : v[j] = e[j], InQuote => Len(v) < Len(e), value' = v,
         pos' = pos + 1, state' = state, Now' = Now, result' = result, ended' = ended
  PROVE  Reading(n, ev, st, at, k)'
  <1>1. result = "running" /\ ended = TRUE /\ Now = st[k] /\ k \in 0..n /\ pos \in Nat
    BY DEF Reading
  <1>2. Len(value) \in Nat /\ pos = at[k] + Len(value)
    <2>1. value \in Seq(Char)
      BY DEF Reading, Token
    <2>. QED BY <2>1, LenProperties DEF Within
  <1>3. pos' = at[k] + Len(v) /\ pos' \in Nat
    <2>1. pos \in Nat
      BY <1>1
    <2>. QED BY <1>2, <2>1
  <1>4. /\ IsWord(e)
        /\ \/ state = "NORMAL" /\ PlainWord(e)
           \/ state = "SINGLE_QUOTE" /\ QuotedWord(e, "'")
           \/ state = "DOUBLE_QUOTE" /\ QuotedWord(e, "\"")
        /\ state = "SINGLE_QUOTE" \/ state = "DOUBLE_QUOTE" => InQuote
    BY DEF Within, InQuote
  <1>5. Within(e, at[k])'
    BY <1>3, <1>4 DEF Within
  <1>. QED BY <1>1, <1>3, <1>5 DEF Reading

LEMMA WithinReads ==
  ASSUME NEW e, NEW a, Within(e, a), NEW c, ParseToken(c)
  PROVE  \/ /\ PlainWord(e) /\ ~InQuote
            /\ \/ c \in Stop /\ Normal(value) /\ Return /\ pos' = pos
               \/ /\ c \notin Stop /\ pos' = pos + 1 /\ value' = Append(value, c)
                  /\ UNCHANGED <<state, parser>>
         \/ /\ Len(value) < Len(e)
            /\ \E q : /\ QuotedWord(e, q)
                      /\ pos' = pos + 1
                      /\ \/ c = q /\ Normal(Append(value, c)) /\ Return
                         \/ /\ c # q /\ value' = Append(value, c)
                            /\ UNCHANGED <<state, parser>>
  <1>1. CASE state = "NORMAL"
    <2>1. InToken(c)
      BY <1>1, ReadsWord
    <2>2. PlainWord(e) /\ ~InQuote
      BY <1>1 DEF Within, InQuote
    <2>. QED BY <2>1, <2>2 DEF InToken, get, unget
  <1>2. CASE state \in {"SINGLE_QUOTE", "DOUBLE_QUOTE"}
    <2>1. Quoted(c)
      BY <1>2, ReadsWord
    <2>. DEFINE q == IF state = "SINGLE_QUOTE" THEN "'" ELSE "\""
    <2>2. Len(value) < Len(e) /\ QuotedWord(e, q)
      BY <1>2 DEF Within
    <2>3. /\ pos' = pos + 1
          /\ \/ c = q /\ Normal(Append(value, c)) /\ Return
             \/ c # q /\ value' = Append(value, c) /\ UNCHANGED <<state, parser>>
      BY <2>1 DEF Quoted, get
    <2>. HIDE DEF q
    <2>. QED BY <2>2, <2>3
  <1>. QED BY <1>1, <1>2 DEF Within

LEMMA WordReads ==
  ASSUME NEW n, NEW ev, NEW st, NEW at, NEW bs, Printout(n, ev, st, at, text, bs),
         NEW k, Reading(n, ev, st, at, k), k < n, Within(ev[k + 1], at[k]), NEW c \in Char, ParseToken(c)
  PROVE  (Reading(n, ev, st, at, k) \/ Reading(n, ev, st, at, k + 1))' /\ text' = text
  <1>1. /\ result = "running" /\ ended = TRUE /\ Now = st[k] /\ k \in 0..n
        /\ pos \in Nat /\ value \in Token
    BY DEF Reading
  <1>2. PICK e : e = ev[k + 1]
    OBVIOUS
  <1>3. at[k] \in Nat /\ TokenAt(e, at[k], at[k + 1], text) /\ Within(e, at[k])
    <2>1. k # n
      <3>1. n \in Nat /\ k \in Nat
        BY <1>1 DEF Printout
      <3>. QED BY <3>1
    <2>. QED BY <1>1, <1>2, <2>1, AtToken
  <1>4. /\ Len(value) \in Nat /\ Len(value) >= 1 /\ Len(e) \in Nat
        /\ Len(value) < Len(e) =>
             Len(value) + 1 \in 1..Len(e) /\ text[pos + 1] = e[Len(value) + 1]
        /\ Len(value) = Len(e) => value = e /\ pos = at[k] + Len(e) /\ text[pos + 1] \in Stop
        /\ Len(value) < Len(e) \/ Len(value) = Len(e)
    BY <1>1, <1>3, WordAhead
  <1>5. following(c)
    BY DEF ParseToken, SkipBlank, Punctuation, Begin, Quoted, Comment, InToken, get, unget
  <1>6. c = text[pos + 1] /\ UNCHANGED <<text, ended>>
    BY <1>1, <1>5, Ahead
  <1>7. pos = at[k] + Len(value) /\ IsWord(e) /\ \A j \in 1..Len(value) : value[j] = e[j]
    BY <1>3 DEF Within
  <1>8. PICK v \in Token : /\ v = Append(value, c) /\ Len(v) = Len(value) + 1
                           /\ c = e[Len(value) + 1] => \A j \in 1..Len(v) : v[j] = e[j]
    BY <1>1, <1>7, WordLonger
  <1>9. ASSUME Len(value) < Len(e), pos' = pos + 1, value' = v, UNCHANGED <<state, parser>>,
               InQuote => Len(v) < Len(e)
        PROVE  Reading(n, ev, st, at, k)'
    <2>1. Len(v) \in 1..Len(e) /\ \A j \in 1..Len(v) : v[j] = e[j]
      BY <1>4, <1>6, <1>8, <1>9
    <2>2. state' = state /\ Now' = Now /\ result' = result
      BY <1>9 DEF parser, Now
    <2>. QED BY <1>2, <1>3, <1>6, <1>8, <1>9, <2>1, <2>2, WordTaken
  <1>10. ASSUME Normal(e), Return, pos' = at[k] + Len(e) PROVE Reading(n, ev, st, at, k + 1)'
    BY <1>2, <1>6, <1>7, <1>10, WordRead
  <1>11. CASE /\ PlainWord(e) /\ ~InQuote
              /\ \/ c \in Stop /\ Normal(value) /\ Return /\ pos' = pos
                 \/ /\ c \notin Stop /\ pos' = pos + 1 /\ value' = Append(value, c)
                    /\ UNCHANGED <<state, parser>>
    <2>1. CASE Len(value) < Len(e)
      <3>1. Len(value) + 1 \in 2..Len(e) /\ c = e[Len(value) + 1]
        BY <1>4, <1>6, <2>1
      <3>2. c \notin Stop
        BY <1>11, <3>1 DEF PlainWord
      <3>. QED BY <1>6, <1>8, <1>9, <1>11, <2>1, <3>2
    <2>2. CASE Len(value) = Len(e)
      <3>1. value = e /\ pos = at[k] + Len(e) /\ c \in Stop
        BY <1>4, <1>6, <2>2
      <3>. QED BY <1>6, <1>10, <1>11, <3>1
    <2>. QED BY <1>4, <2>1, <2>2
  <1>12. CASE /\ Len(value) < Len(e)
              /\ \E q : /\ QuotedWord(e, q)
                        /\ pos' = pos + 1
                        /\ \/ c = q /\ Normal(Append(value, c)) /\ Return
                           \/ /\ c # q /\ value' = Append(value, c)
                              /\ UNCHANGED <<state, parser>>
    <2>1. PICK q : /\ QuotedWord(e, q)
                   /\ pos' = pos + 1
                   /\ \/ c = q /\ Normal(Append(value, c)) /\ Return
                      \/ c # q /\ value' = Append(value, c) /\ UNCHANGED <<state, parser>>
      BY <1>12
    <2>2. c = e[Len(value) + 1]
      BY <1>4, <1>6, <1>12
    <2>3. CASE Len(v) = Len(e)
      <3>1. v = e
        <4>1. v \in Seq(Char) /\ e \in Seq(Char)
          BY <1>7 DEF Token, IsWord
        <4>2. \A j \in 1..Len(e) : v[j] = e[j]
          BY <1>8, <2>2, <2>3

        <4>. QED BY <2>3, <4>1, <4>2
      <3>2. c = q
        BY <1>8, <2>1, <2>2, <2>3 DEF QuotedWord
      <3>3. Normal(e) /\ Return
        BY <1>8, <2>1, <3>1, <3>2
      <3>4. pos' = at[k] + Len(e)
        <4>1. Len(e) = Len(value) + 1 /\ Len(value) \in Nat /\ at[k] \in Nat
          BY <1>3, <1>4, <1>8, <2>3
        <4>2. pos' = at[k] + Len(value) + 1
          BY <1>7, <2>1
        <4>. QED BY <4>1, <4>2
      <3>. QED BY <1>6, <1>10, <3>3, <3>4
    <2>4. CASE Len(v) # Len(e)
      <3>1. Len(v) < Len(e) /\ Len(value) + 1 \in 2..(Len(e) - 1)
        BY <1>4, <1>8, <1>12, <2>4
      <3>2. c # q
        BY <2>1, <2>2, <3>1 DEF QuotedWord
      <3>. QED BY <1>6, <1>8, <1>9, <1>12, <2>1, <3>1, <3>2
    <2>. QED BY <2>3, <2>4
  <1>. QED BY <1>3, <1>11, <1>12, WithinReads

\* The first k tokens were given to the driver, and it is where it was after
\* them; or all of them and the end of the file.
Again ==
    \E n, ev, st, at :
        /\ Printout(n, ev, st, at, text, first)
        /\ (result = "true" /\ blocks = first) \/ \E k : Reading(n, ev, st, at, k)

LEMMA Starts ==
  ASSUME IInv, Accepted, Printed
  PROVE  Again'
  <1>1. /\ Written /\ last_token_type \in {"STATEMENT_END", "END_BLOCK"}
        /\ start_block = 0 /\ Len(config_stack) = 1
    BY DEF Printed, Accepted
  <1>2. PICK x : Told(Now, x) /\ \E g, D : Laid(g, D, x)
    BY <1>1 DEF Written
  <1>3. PICK g, D : Laid(g, D, x)
    BY <1>2
  <1>4. x = NginxConfigToString(blocks)
    <2>1. last_token_type # "NORMAL"
      BY <1>1
    <2>. QED BY <1>1, <1>3, <2>1, LaidWhole
  <1>5. PICK n, ev, st, pc, tx : Story(n, ev, st, pc, tx) /\ st[n] = Now /\ tx[n] = x
    BY <1>2 DEF Told
  <1>6. st[n].ltt = last_token_type /\ st[n].sb = start_block /\ st[n].bs = blocks
    BY <1>5 DEF Now
  <1>7. PICK at : Layout(n, ev, at, x)
    <2>1. st[n].ltt # "NORMAL"
      BY <1>1, <1>6
    <2>. QED BY <1>5, <2>1, StoryLaidOut
  <1>8. Printout(n, ev, st, at, x, blocks)
    BY <1>1, <1>5, <1>6, <1>7 DEF Printout, Story
  <1>9. /\ text' = x /\ first' = blocks /\ pos' = 0 /\ ended' = TRUE /\ state' = "INITIAL"
        /\ value' = <<>> /\ result' = "running" /\ last_token_type' = "START" /\ start_block' = 0
        /\ config_stack' = <<1>> /\ blocks' = << <<>> >>
    BY <1>4 DEF Printed
  <1>10. Now' = st[0]
    BY <1>8, <1>9 DEF Printout, Now, AtStart
  <1>11. 0 \in 0..n /\ pos' \in Nat /\ value' \in Token
    <2>1. n \in Nat
      BY <1>8 DEF Printout
    <2>2. 0 \in 0..n
      BY <2>1
    <2>. QED BY <1>9, <2>2, OneCharacter
  <1>12. Between(at, 0)'
    <2>1. at[0] \in Nat /\ \A j \in 1..at[0] : x[j] \in Gap
      BY <1>7, <1>8, <1>11, AtToken DEF Layout
    <2>2. 0 <= at[0] /\ \A j \in (0 + 1)..at[0] : x[j] \in Gap
      <3>1. at[0] \in Nat
        BY <2>1
      <3>2. 0 <= at[0] /\ 0 + 1 = 1
        BY <3>1
      <3>. QED BY <2>1, <3>2
    <2>. QED BY <1>9, <2>2 DEF Between
  <1>13. Reading(n, ev, st, at, 0)'
    BY <1>9, <1>10, <1>11, <1>12 DEF Reading
  <1>14. Printout(n, ev, st, at, text', first')
    BY <1>8, <1>9
  <1>. QED BY <1>13, <1>14 DEF Again

LEMMA Rereads ==
  ASSUME NEW n, NEW ev, NEW st, NEW at, NEW bs, Printout(n, ev, st, at, text, bs),
         NEW k, Reading(n, ev, st, at, k), NEW c \in Char, ParseToken(c)
  PROVE  (Reading(n, ev, st, at, k) \/ Reading(n, ev, st, at, k + 1))' /\ text' = text
  <1>1. result = "running" /\ ended = TRUE /\ k \in 0..n /\ pos \in Nat
    BY DEF Reading
  <1>2. CASE k < n /\ Within(ev[k + 1], at[k])
    BY <1>2, WordReads
  <1>3. CASE Between(at, k)
    <2>1. /\ at[k] \in Nat /\ (k = n => at[k] = Len(text))
          /\ k # n => Does(st[k], ev[k + 1], st[k + 1])
      BY <1>1, AtToken
    <2>2. CASE pos < at[k]
      BY <1>3, <2>1, <2>2, BetweenReads
    <2>3. CASE pos = at[k]
      <3>1. following(c)
        BY DEF ParseToken, SkipBlank, Punctuation, Begin, Quoted, Comment, InToken, get, unget
      <3>2. pos < Len(text)
        BY <1>1, <3>1, Ahead
      <3>3. k # n
        <4>1. ~(pos < pos)
          BY <1>1
        <4>. QED BY <2>1, <2>3, <3>2, <4>1
      <3>4. CASE IsWord(ev[k + 1])
        BY <1>3, <2>3, <3>3, <3>4, FirstReads
      <3>5. CASE \E m \in {";", "{", "}"} : ev[k + 1] = <<m>>
        BY <1>3, <2>3, <3>3, <3>5, MarkReads
      <3>. QED BY <2>1, <3>3, <3>4, <3>5, Given
    <2>4. pos < at[k] \/ pos = at[k]
      <3>1. pos <= at[k]
        BY <1>3 DEF Between
      <3>. QED BY <1>1, <2>1, <3>1
    <2>. QED BY <2>2, <2>3, <2>4
  <1>. QED BY <1>2, <1>3 DEF Reading

LEMMA Reends ==
  ASSUME NEW n, NEW ev, NEW st, NEW at, NEW bs, Printout(n, ev, st, at, text, bs),
         NEW k, Reading(n, ev, st, at, k), EndOfFile
  PROVE  result' = "true" /\ blocks' = bs /\ text' = text
  <1>1. /\ result = "running" /\ ended = TRUE /\ k \in 0..n /\ pos \in Nat /\ Now = st[k]
        /\ n \in Nat /\ value \in Token
    BY DEF Reading, Printout
  <1>2. pos = Len(text) /\ text' = text
    BY DEF EndOfFile
  <1>3. ~(k < n /\ Within(ev[k + 1], at[k]))
    <2>. SUFFICES ASSUME k < n, Within(ev[k + 1], at[k]) PROVE FALSE
      OBVIOUS
    <2>1. PICK e : e = ev[k + 1]
      OBVIOUS
    <2>2. k # n
      BY <1>1
    <2>3. at[k] \in Nat /\ TokenAt(e, at[k], at[k + 1], text)
      BY <1>1, <2>1, <2>2, AtToken
    <2>4. /\ Len(e) \in Nat /\ Len(text) \in Nat /\ at[k] + Len(e) < Len(text)
          /\ Len(value) <= Len(e) /\ pos = at[k] + Len(value) /\ Len(value) \in Nat
      <3>1. IsWord(e) /\ Len(value) \in 1..Len(e) /\ pos = at[k] + Len(value)
        BY <2>1 DEF Within
      <3>2. Len(e) \in Nat /\ Len(text) \in Nat /\ at[k] + Len(e) < Len(text)
        BY <2>3, <3>1 DEF TokenAt, Stands
      <3>. QED BY <3>1, <3>2
    <2>5. pos < Len(text)
      BY <2>3, <2>4
    <2>. QED BY <1>2, <2>4, <2>5
  <1>4. Between(at, k)
    BY <1>3 DEF Reading
  <1>5. k = n
    <2>. SUFFICES ASSUME k # n PROVE FALSE
      OBVIOUS
    <2>1. PICK e : e = ev[k + 1]
      OBVIOUS
    <2>2. at[k] \in Nat /\ at[k + 1] \in Nat /\ TokenAt(e, at[k], at[k + 1], text)
      BY <1>1, <2>1, AtToken
    <2>3. /\ Len(e) \in Nat /\ Len(e) >= 1 /\ at[k] + Len(e) <= at[k + 1] /\ at[k + 1] <= Len(text)
          /\ Len(text) \in Nat
      BY <2>2 DEF TokenAt, Stands
    <2>4. pos <= at[k]
      BY <1>4 DEF Between
    <2>. QED BY <1>2, <2>2, <2>3, <2>4
  <1>6. /\ last_token_type \in {"STATEMENT_END", "END_BLOCK"} /\ start_block = 0 /\ blocks = bs
    BY <1>1, <1>5 DEF Printout, Now
  <1>7. state = "INITIAL"
    BY <1>4 DEF Between
  <1>. QED BY <1>2, <1>6, <1>7 DEF EndOfFile, Eof

-----------------------------------------------------------------------------
(* Both parses *)

TestInv ==
    /\ main # "test" => IInv
    /\ main = "Parse" /\ result # "false" => Accepted
    /\ main = "test" => Again

LEMMA TestInitInv == TestInit => TestInv
  <1>. SUFFICES ASSUME TestInit PROVE TestInv
    OBVIOUS
  <1>1. IInv /\ main = "Parse" /\ result = "running" /\ Now = AtStart /\ state = "INITIAL"
    BY StartupInitInv DEF TestInit, StartupInit, Init, Now, AtStart
  <1>2. Accepted
    BY <1>1, WrittenStart DEF Accepted, Held
  <1>. QED BY <1>1, <1>2 DEF TestInv

LEMMA AgainSame ==
  ASSUME Again, UNCHANGED testVars
  PROVE  Again'
  <1>1. UNCHANGED <<text, pos, ended, state, value, last_token_type, start_block, config_stack,
                    blocks, result, first>>
    BY DEF testVars, startupVars, vars
  <1>2. PICK n, ev, st, at :
          /\ Printout(n, ev, st, at, text, first)
          /\ (result = "true" /\ blocks = first) \/ \E k : Reading(n, ev, st, at, k)
    BY DEF Again
  <1>3. ASSUME NEW k, Reading(n, ev, st, at, k) PROVE Reading(n, ev, st, at, k)'
    BY <1>1, <1>3 DEF Reading, Between, Within, Now
  <1>4. Printout(n, ev, st, at, text', first')
    BY <1>1, <1>2
  <1>. QED BY <1>1, <1>2, <1>3, <1>4 DEF Again

LEMMA AcceptedSame ==
  ASSUME Accepted, UNCHANGED startupVars
  PROVE  Accepted'
  <1>1. UNCHANGED <<state, value, last_token_type, start_block, config_stack, blocks, result>>
    BY DEF startupVars, vars
  <1>2. Written' /\ Held'
    BY <1>1, WrittenSame DEF Accepted, Held
  <1>. QED BY <1>1, <1>2 DEF Accepted

LEMMA TestNextInv == TestInv /\ [TestNext]_testVars => TestInv'
  <1>. SUFFICES ASSUME TestInv, [TestNext]_testVars PROVE TestInv'
    OBVIOUS
  <1>1. ASSUME main = "test", UNCHANGED testVars PROVE TestInv'
    <2>1. main' = main
      BY <1>1 DEF testVars, startupVars
    <2>. QED BY <1>1, <2>1, AgainSame DEF TestInv
  <1>2. ASSUME main # "test", UNCHANGED first, [StartupNext]_startupVars PROVE TestInv'
    <2>1. IInv'
      BY <1>2, StartupNextInv DEF TestInv
    <2>2. main' # "test"
      BY <1>2 DEF StartupNext, OpenFails, Parsing, Run, Started, startupVars
    <2>3. ASSUME main' = "Parse", result' # "false" PROVE Accepted'
      <3>1. CASE UNCHANGED startupVars
        <4>1. main = "Parse" /\ result # "false"
          BY <2>3, <3>1 DEF startupVars, vars
        <4>. QED BY <3>1, <4>1, AcceptedSame DEF TestInv
      <3>2. CASE OpenFails
        BY <2>3, <3>2 DEF OpenFails
      <3>3. CASE Parsing
        <4>1. main = "Parse" /\ result = "running" /\ ((\E c \in Char : ParseToken(c)) \/ EndOfFile)
          BY <3>3 DEF Parsing
        <4>2. IInv /\ Accepted
          BY <4>1 DEF TestInv
        <4>. QED BY <2>3, <4>1, <4>2, FirstParses, FirstEnds
      <3>4. CASE Run
        BY <2>3, <3>4 DEF Run
      <3>5. CASE Started
        BY <3>1, <3>5 DEF Started
      <3>. QED BY <1>2, <3>1, <3>2, <3>3, <3>4, <3>5 DEF StartupNext
    <2>. QED BY <2>1, <2>2, <2>3 DEF TestInv
  <1>3. CASE Main
    <2>1. CASE main = "test"
      <3>1. UNCHANGED startupVars
        BY <1>3, <2>1 DEF Main, StartupNext, OpenFails, Parsing, Run, Started
      <3>2. UNCHANGED testVars
        BY <1>3, <3>1 DEF Main, testVars
      <3>. QED BY <1>1, <2>1, <3>2
    <2>2. CASE main # "test"
      BY <1>2, <1>3, <2>2 DEF Main
    <2>. QED BY <2>1, <2>2
  <1>4. CASE Printed
    <2>1. main = "Parse" /\ result = "true" /\ main' = "test"
      BY <1>4 DEF Printed
    <2>2. Again'
      BY <1>4, <2>1, Starts DEF TestInv
    <2>. QED BY <2>1, <2>2 DEF TestInv
  <1>5. CASE Reparse
    <2>1. /\ main = "test" /\ result = "running" /\ main' = main /\ first' = first
          /\ (\E c \in Char : ParseToken(c)) \/ EndOfFile
      BY <1>5 DEF Reparse
    <2>2. PICK n, ev, st, at :
            /\ Printout(n, ev, st, at, text, first)
            /\ (result = "true" /\ blocks = first) \/ \E k : Reading(n, ev, st, at, k)
      BY <2>1 DEF TestInv, Again
    <2>3. PICK k : Reading(n, ev, st, at, k)
      BY <2>1, <2>2
    <2>4. CASE \E c \in Char : ParseToken(c)
      <3>1. (Reading(n, ev, st, at, k) \/ Reading(n, ev, st, at, k + 1))' /\ text' = text
        BY <2>2, <2>3, <2>4, Rereads
      <3>2. Printout(n, ev, st, at, text', first')
        BY <2>1, <2>2, <3>1
      <3>3. Again'
        BY <3>1, <3>2 DEF Again
      <3>. QED BY <2>1, <3>3 DEF TestInv
    <2>5. CASE EndOfFile
      <3>1. result' = "true" /\ blocks' = first /\ text' = text
        BY <2>2, <2>3, <2>5, Reends
      <3>2. Printout(n, ev, st, at, text', first')
        BY <2>1, <2>2, <3>1
      <3>3. Again'
        BY <2>1, <3>1, <3>2 DEF Again
      <3>. QED BY <2>1, <3>3 DEF TestInv
    <2>. QED BY <2>1, <2>4, <2>5
  <1>6. CASE UNCHANGED testVars
    <2>1. UNCHANGED startupVars /\ UNCHANGED first
      BY <1>6 DEF testVars
    <2>. QED BY <1>1, <1>2, <1>6, <2>1
  <1>. QED BY <1>3, <1>4, <1>5, <1>6 DEF TestNext

\* Whatever the file: if Parse accepts it, then what ToString prints of the
\* blocks is accepted again, and gives the same blocks.
THEOREM RoundTripCorrect == TestSpec => []RoundTrip
  <1>1. TestInv => RoundTrip
    <2>. SUFFICES ASSUME Again, result # "running" PROVE result = "true" /\ blocks = first
      BY DEF TestInv, RoundTrip
    <2>. QED BY DEF Again, Reading
  <1>. QED BY <1>1, TestInitInv, TestNextInv, PTL DEF TestSpec
=============================================================================
