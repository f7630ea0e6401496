---------------------------- MODULE ConfigParser ----------------------------
(***************************************************************************)
(* NginxConfigParser (config_parser.cc): the tokenizer ParseToken and the  *)
(* driver Parse that builds the tree of blocks.                            *)
(*                                                                         *)
(* A file is a sequence of characters; the ones the tokenizer tells apart  *)
(* are named below, any other member of Char stands for a run of ordinary  *)
(* text.  A file is one of Files, or its content is chosen as it is read:  *)
(* get() reads a character that is known, because it was pushed back by    *)
(* unget() or the file was given, or meets one it has not seen yet.        *)
(*                                                                         *)
(* NginxConfig objects are numbered in the order they are allocated; block *)
(* 1 is the out-parameter, child = 0 is a null child_block_.               *)
(***************************************************************************)
EXTENDS Integers, SequencesExt

CONSTANTS Char,     \* the characters of configuration files
          MaxText,  \* bounds the length of a file that is not given
          Files     \* files that are given

ASSUME MaxTextAssumption == MaxText \in Nat
ASSUME FilesAssumption   == Files \subseteq Seq(Char)

VARIABLES
    text,             \* the characters of the file met so far
    pos,              \* how many of them are consumed
    ended,            \* text is the whole file
    state,            \* ParseToken's state
    value,            \* ParseToken's *value
    last_token_type,  \* Parse's last_token_type
    start_block,      \* Parse's start_block
    config_stack,     \* Parse's config_stack, top last
    blocks,           \* the NginxConfig objects: their statements_
    result            \* what Parse returned

input  == <<text, pos, ended>>
lexer  == <<state, value>>
parser == <<last_token_type, start_block, config_stack, blocks, result>>
vars   == <<text, pos, ended, state, value,
            last_token_type, start_block, config_stack, blocks, result>>

Blank   == {" ", "\t", "\n", "\r"}
Quote   == {"'", "\""}
Stop    == {" ", "\t", "\n", ";", "{", "}"}  \* a token runs on over a \r
Special == Blank \cup Quote \cup Stop \cup {"#"}

Token     == Seq(Char)
Statement == [tokens : Seq(Token), child : Nat]

-----------------------------------------------------------------------------
(* Parse: what the driver does with the token ParseToken returns *)

top == config_stack[Len(config_stack)]

\* config_stack.pop()
popped == SubSeq(config_stack, 1, Len(config_stack) - 1)

\* BUG (mutant): a word after a block goes on with the statement of the block.
NormalAfterBlock(token) ==
    LET s  == blocks[top]
        s1 == IF last_token_type \notin {"NORMAL", "END_BLOCK"}
              THEN Append(s, [tokens |-> <<>>, child |-> 0]) ELSE s
    IN /\ blocks' = [blocks EXCEPT ![top] = [s1 EXCEPT ![Len(s1)].tokens = Append(@, token)]]
       /\ last_token_type' = "NORMAL"
       /\ UNCHANGED <<start_block, config_stack, result>>

Normal(token) ==
    LET s  == blocks[top]
        s1 == IF last_token_type # "NORMAL"
              THEN Append(s, [tokens |-> <<>>, child |-> 0]) ELSE s
    IN /\ blocks' = [blocks EXCEPT ![top] = [s1 EXCEPT ![Len(s1)].tokens = Append(@, token)]]
       /\ last_token_type' = "NORMAL"
       /\ UNCHANGED <<start_block, config_stack, result>>

Reject ==
    /\ result' = "false"
    /\ UNCHANGED <<last_token_type, start_block, config_stack, blocks>>

StatementEnd ==
    \/ /\ last_token_type = "NORMAL"
       /\ last_token_type' = "STATEMENT_END"
       /\ UNCHANGED <<start_block, config_stack, blocks, result>>
    \/ last_token_type # "NORMAL" /\ Reject

StartBlock ==
    \/ /\ last_token_type = "NORMAL"
       /\ start_block' = start_block + 1
       /\ blocks' = Append([blocks EXCEPT ![top][Len(blocks[top])].child = Len(blocks) + 1], <<>>)
       /\ config_stack' = Append(config_stack, Len(blocks) + 1)
       /\ last_token_type' = "START_BLOCK"
       /\ UNCHANGED result
    \/ last_token_type # "NORMAL" /\ Reject

\* BUG (mutant): the block is popped before the count is checked.
EndBlockPopFirst ==
    \/ /\ last_token_type \in {"STATEMENT_END", "END_BLOCK"}
       /\ start_block' = start_block - 1
       /\ config_stack' = popped
       /\ IF start_block > 0
          THEN last_token_type' = "END_BLOCK" /\ UNCHANGED result
          ELSE result' = "false" /\ UNCHANGED last_token_type
       /\ UNCHANGED blocks
    \/ last_token_type \notin {"STATEMENT_END", "END_BLOCK"} /\ Reject

EndBlock ==
    \/ /\ last_token_type \in {"STATEMENT_END", "END_BLOCK"}
       /\ start_block' = start_block - 1
       /\ IF start_block > 0
          THEN /\ config_stack' = popped
               /\ last_token_type' = "END_BLOCK"
               /\ UNCHANGED result
          ELSE result' = "false" /\ UNCHANGED <<config_stack, last_token_type>>
       /\ UNCHANGED blocks
    \/ last_token_type \notin {"STATEMENT_END", "END_BLOCK"} /\ Reject

Eof ==
    /\ result' = IF last_token_type \in {"STATEMENT_END", "END_BLOCK"} /\ start_block = 0
                 THEN "true" ELSE "false"
    /\ UNCHANGED <<last_token_type, start_block, config_stack, blocks>>

-----------------------------------------------------------------------------
(* ParseToken *)

\* c is the character after the ones consumed.
following(c) ==
    /\ result = "running"
    /\ IF pos < Len(text)
       THEN c = text[pos + 1] /\ UNCHANGED text
       ELSE ~ended /\ Len(text) < MaxText /\ text' = Append(text, c)
    /\ UNCHANGED ended

\* input->get() yields c; and the same, put back by input->unget().
get(c)   == following(c) /\ pos' = pos + 1
unget(c) == following(c) /\ UNCHANGED pos

\* ParseToken returns; the next call starts afresh.
Return == state' = "INITIAL" /\ value' = <<>>

\* BUG (mutant): a blank is put back as the end of a token is.
SkipBlankUngets(c) ==
    /\ state = "INITIAL" /\ c \in Blank
    /\ unget(c)
    /\ UNCHANGED <<lexer, parser>>

SkipBlank(c) ==
    /\ state = "INITIAL" /\ c \in Blank
    /\ get(c)
    /\ UNCHANGED <<lexer, parser>>

Punctuation(c) ==
    /\ state = "INITIAL"
    /\ \/ c = "{" /\ StartBlock
       \/ c = "}" /\ EndBlock
       \/ c = ";" /\ StatementEnd
    /\ get(c)
    /\ Return

\* The first character of a comment or of a token.
Begin(c) ==
    /\ state = "INITIAL"
    /\ \/ c = "#"  /\ state' = "COMMENT"
       \/ c = "\"" /\ state' = "DOUBLE_QUOTE"
       \/ c = "'"  /\ state' = "SINGLE_QUOTE"
       \/ c \notin Special /\ state' = "NORMAL"
    /\ get(c)
    /\ value' = <<c>>
    /\ UNCHANGED parser

Quoted(c) ==
    LET closing == IF state = "SINGLE_QUOTE" THEN "'" ELSE "\""
    IN /\ state \in {"SINGLE_QUOTE", "DOUBLE_QUOTE"}
       /\ get(c)
       /\ \/ c = closing /\ Normal(Append(value, c)) /\ Return
          \/ c # closing /\ value' = Append(value, c) /\ UNCHANGED <<state, parser>>

\* BUG (mutant): the driver does not skip comments.
CommentCounts(c) ==
    /\ state = "COMMENT"
    /\ get(c)
    /\ \/ c \in {"\n", "\r"} /\ Return /\ last_token_type' = "COMMENT"
       \/ c \notin {"\n", "\r"} /\ value' = Append(value, c) /\ UNCHANGED <<state, last_token_type>>
    /\ UNCHANGED <<start_block, config_stack, blocks, result>>

Comment(c) ==
    /\ state = "COMMENT"
    /\ get(c)
    /\ \/ c \in {"\n", "\r"} /\ Return
       \/ c \notin {"\n", "\r"} /\ value' = Append(value, c) /\ UNCHANGED state
    /\ UNCHANGED parser

InToken(c) ==
    /\ state = "NORMAL"
    /\ \/ c \in Stop /\ unget(c) /\ Normal(value) /\ Return
       \/ c \notin Stop /\ get(c) /\ value' = Append(value, c) /\ UNCHANGED <<state, parser>>

\* get() fails.  What ParseToken has collected of a token is not returned.
EndOfFile ==
    /\ result = "running" /\ pos = Len(text)
    /\ ended' = TRUE
    /\ IF state \in {"SINGLE_QUOTE", "DOUBLE_QUOTE"} THEN Reject ELSE Eof
    /\ UNCHANGED <<text, pos, lexer>>

-----------------------------------------------------------------------------
Init ==
    /\ \/ text = <<>> /\ ended = FALSE
       \/ text \in Files /\ ended = TRUE
    /\ pos = 0
    /\ state = "INITIAL" /\ value = <<>>
    /\ last_token_type = "START" /\ start_block = 0
    /\ config_stack = <<1>> /\ blocks = << <<>> >>
    /\ result = "running"

ParseToken(c) ==
    SkipBlank(c) \/ Punctuation(c) \/ Begin(c) \/ Quoted(c) \/ Comment(c) \/ InToken(c)

Returned == result # "running" /\ UNCHANGED vars

Next == (\E c \in Char : ParseToken(c)) \/ EndOfFile \/ Returned

Spec == Init /\ [][Next]_vars

-----------------------------------------------------------------------------
(* ToString *)

\* A token list separated by spaces.
Words(tokens) ==
    FlattenSeq([i \in DOMAIN tokens |-> IF i = 1 THEN tokens[i] ELSE <<" ">> \o tokens[i]])

\* BUG (mutant): a statement with a block also gets its semicolon.
StatementToStringSemicolon(s, str) ==
    Words(s.tokens) \o
    (IF s.child # 0 THEN <<" ", "{", "\n">> \o str[s.child] \o <<"}", ";">> ELSE <<";">>) \o <<"\n">>

\* NginxConfigStatement::ToString, where str[b] is the text of block b;
\* indentation is left out.
StatementToString(s, str) ==
    Words(s.tokens) \o
    (IF s.child # 0 THEN <<" ", "{", "\n">> \o str[s.child] \o <<"}">> ELSE <<";">>) \o <<"\n">>

\* NginxConfig::ToString of block 1.
NginxConfigToString(bs) ==
    LET str[b \in DOMAIN bs] ==
          FlattenSeq([i \in DOMAIN bs[b] |-> StatementToString(bs[b][i], str)])
    IN str[1]

-----------------------------------------------------------------------------
(* Properties *)

\* The variables have their types.
TypeOK ==
    /\ text \in Seq(Char) /\ pos \in 0..Len(text) /\ ended \in BOOLEAN
    /\ state \in {"INITIAL", "SINGLE_QUOTE", "DOUBLE_QUOTE", "COMMENT", "NORMAL"}
    /\ value \in Token
    /\ last_token_type \in {"START", "NORMAL", "STATEMENT_END", "START_BLOCK", "END_BLOCK"}
    /\ start_block \in Int
    /\ config_stack \in Seq(Nat)
    /\ blocks \in Seq(Seq(Statement))
    /\ result \in {"running", "true", "false"}

\* Every config_stack.top() and statements_.back() the driver evaluates is
\* defined: the stack is never empty, it holds one block per unclosed brace,
\* each is the child_block_ of the last statement of the one below it, and
\* when the last token was a word the top block has a statement to add to.
StackIsOpenPath ==
    /\ config_stack # <<>> /\ config_stack[1] = 1
    /\ result = "running" => start_block = Len(config_stack) - 1
    /\ \A i \in DOMAIN config_stack : config_stack[i] \in DOMAIN blocks
    /\ \A i \in 1..(Len(config_stack) - 1) :
          LET s == blocks[config_stack[i]]
          IN s # <<>> /\ s[Len(s)].child = config_stack[i + 1]
    /\ last_token_type = "NORMAL" => blocks[top] # <<>>

\* The statements whose child_block_ is b.
Owners(b) == UNION {{<<p, i>> : i \in {j \in DOMAIN blocks[p] : blocks[p][j].child = b}} :
                      p \in DOMAIN blocks}

\* child_block_.reset() never drops a block that was parsed: every block but
\* the first is the child of exactly one statement, of an older block.
NoBlockLost ==
    \A b \in 2..Len(blocks) : Cardinality(Owners(b)) = 1 /\ \A o \in Owners(b) : o[1] < b
=============================================================================
