------------------------------- MODULE Memes -------------------------------
(***************************************************************************)
(* What the meme handler promises its clients: a store of memes on which   *)
(* every call takes effect at one moment between its begin and its answer, *)
(* or not at all.  Locks, statements, connections and the view counter do  *)
(* not show.                                                               *)
(***************************************************************************)
CONSTANTS
    Worker,   \* callers
    Id,       \* names of memes
    NoMeme,   \* other names a caller may use
    Content,  \* what a meme says
    NoContent \* other contents a caller may send

VARIABLES
    memes,  \* id -> content
    used,   \* the ids that have been given to memes
    call    \* per caller: its call

vars == <<memes, used, call>>

Write == {"POST", "PUT", "DELETE"}
Read  == {"GET", "LIST", "SEARCH"}

Idle == [phase |-> "idle"]
Pending(op, id, content) == [phase |-> "pending", op |-> op, id |-> id, content |-> content]
Answered(op, ok, answer) == [phase |-> "answered", op |-> op, ok |-> ok, answer |-> answer]

Init == memes = <<>> /\ used = {} /\ call = [w \in Worker |-> Idle]

Is(w, phase) == call[w].phase = phase
Answer(w, ok, answer) == call' = [call EXCEPT ![w] = Answered(@.op, ok, answer)]

Begin(w) ==
    /\ Is(w, "idle")
    /\ \E op \in Write \cup Read \cup {"OTHER"}, id \in Id \cup NoMeme,
          content \in Content \cup NoContent :
          call' = [call EXCEPT ![w] = Pending(op, id, content)]
    /\ UNCHANGED <<memes, used>>

\* A meme gets an id that no meme ever had.
Create(w) ==
    /\ Is(w, "pending") /\ call[w].op = "POST" /\ call[w].content \in Content
    /\ \E i \in Id \ used :
          /\ used' = used \cup {i}
          /\ memes' = [j \in DOMAIN memes \cup {i} |-> IF j = i THEN call[w].content ELSE memes[j]]
          /\ Answer(w, TRUE, {i})

Update(w) ==
    /\ Is(w, "pending") /\ call[w].op = "PUT" /\ call[w].content \in Content
    /\ memes' = [i \in DOMAIN memes |-> IF i = call[w].id THEN call[w].content ELSE memes[i]]
    /\ Answer(w, TRUE, {}) /\ UNCHANGED used

Delete(w) ==
    /\ Is(w, "pending") /\ call[w].op = "DELETE"
    /\ memes' = [i \in DOMAIN memes \ {call[w].id} |-> memes[i]]
    /\ Answer(w, TRUE, {}) /\ UNCHANGED used

\* What a reader asks for.
Asked(c) == CASE c.op = "GET"    -> DOMAIN memes \cap {c.id}
              [] c.op = "LIST"   -> DOMAIN memes
              [] c.op = "SEARCH" -> {i \in DOMAIN memes : memes[i] = c.content}

\* A reader gets all it asks for, as it is at one moment, or nothing at all.
Look(w) ==
    /\ Is(w, "pending") /\ call[w].op \in Read
    /\ \E answer \in {Asked(call[w]), {}} : Answer(w, TRUE, answer)
    /\ UNCHANGED <<memes, used>>

\* A call may be refused, and then it has no effect.
Refuse(w) == Is(w, "pending") /\ Answer(w, FALSE, {}) /\ UNCHANGED <<memes, used>>

Return(w) ==
    /\ Is(w, "answered") /\ call' = [call EXCEPT ![w] = Idle]
    /\ UNCHANGED <<memes, used>>

\* A restart forgets the calls and keeps the memes.
Restart == call' = [w \in Worker |-> Idle] /\ UNCHANGED <<memes, used>>

Next == \/ \E w \in Worker : \/ Begin(w) \/ Create(w) \/ Update(w) \/ Delete(w)
                             \/ Look(w) \/ Refuse(w) \/ Return(w)
        \/ Restart

Spec == Init /\ [][Next]_vars
=============================================================================
