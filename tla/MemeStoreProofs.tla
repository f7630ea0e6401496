-------------------------- MODULE MemeStoreProofs --------------------------
(***************************************************************************)
(* For any number of workers, memes, requests and crashes: the types, what *)
(* a client may rely on after a creation, a deletion and an update, and    *)
(* that the handler and its database implement Memes.                      *)
(***************************************************************************)
EXTENDS MemeStore, TLAPS

NoId == {Ghost, Malformed}

\* The insert of r's meme is under way.
Unborn(r) == r.stmt = "insert" /\ r.pc \in {"write", "commit", "committing"}

\* A statement is one that the request's method executes.
StatementOfMethod(r) ==
    r.pc \in {"write", "commit", "committing"} =>
       \/ r.stmt = "create_table"
       \/ r.stmt = "insert" /\ r.method = "POST" /\ r.content \in Content
       \/ r.stmt = "update" /\ r.method = "PUT" /\ r.content \in Content
       \/ r.stmt = "delete" /\ r.method = "DELETE"
       \/ r.stmt = "view" /\ r.method = "GET"

\* Which memes a request may be about, and what its answer says of them.
Sound(r) ==
    /\ StatementOfMethod(r)
    /\ r.method # "POST" => r.id \in created \cup NoId
    /\ Unborn(r) => r.id \in Id \ created
    /\ r.pc # "respond" => r.code = 0
    /\ r.code = 201 => r.id \in created
    /\ r.method = "DELETE" /\ r.code = 200 => r.id \notin DOMAIN rows
    /\ r.found # {} => IsRead(r) /\ ~Deciding(r)
    /\ r.pc \in {"reading", "selected"} => IsRead(r)

\* Two requests never create the same meme, and no other request knows it yet.
Unshared == \A v, w \in Worker : v # w /\ Unborn(req[w]) => req[v].id # req[w].id

\* A deletion that was begun is known to be.
Announced == \A w \in Worker : req[w].method = "DELETE" => req[w].id \in doomed

\* The table between the creations and the deletions.
Kept ==
    /\ DOMAIN rows \subseteq created /\ created \subseteq DOMAIN latest
    /\ created \ doomed \subseteq DOMAIN rows
    /\ acked \subseteq created
    /\ gone \subseteq created \cup NoId

IInv ==
    /\ TypeOK
    /\ \A w \in Worker : Sound(req[w])
    /\ Unshared
    /\ Announced
    /\ Kept
    /\ DeletedMemesStayDeleted
    /\ CaptionsAreTheLatest

\* SQLite's locks and the table's existence have their types.
LocksTyped ==
    /\ table \in BOOLEAN /\ exclusive \in BOOLEAN
    /\ shared \subseteq Worker /\ reserved \in Worker \cup {Nobody}

\* No meme comes, goes or changes its captions.
SameMemes ==
    /\ DOMAIN rows' = DOMAIN rows
    /\ \A i \in DOMAIN rows : rows'[i] \in Row /\ rows'[i].content = rows[i].content

-----------------------------------------------------------------------------
(* Steps that change one request and no meme *)

LEMMA IdleSound == Idle \in Request /\ Sound(Idle) /\ ~Unborn(Idle)
  BY DEF Idle, Request, Method, Body, NoContent, Sound, StatementOfMethod, Unborn, NoId,
         IsRead, Deciding

\* What keeps r apart from the memes that other requests are creating.
Apart(w, r) ==
    \A v \in Worker \ {w} : /\ Unborn(r) => req[v].id # r.id
                            /\ Unborn(req[v]) => req[v].id # r.id

\* The request of w becomes r.
LEMMA OneRequest ==
  ASSUME IInv, NEW w \in Worker, NEW r \in Request, Sound(r), Apart(w, r),
         req' = [req EXCEPT ![w] = r], LocksTyped', SameMemes,
         UNCHANGED <<created, acked, gone, latest>>,
         doomed \subseteq doomed', doomed' \subseteq Id \cup NoId,
         r.method = "DELETE" => r.id \in doomed'
  PROVE  IInv'
  <1>1. req' \in [Worker -> Request] /\ req'[w] = r /\ \A v \in Worker \ {w} : req'[v] = req[v]
    BY DEF IInv, TypeOK
  <1>2. TypeOK'
    BY <1>1 DEF IInv, TypeOK, NoId, LocksTyped, SameMemes
  <1>3. ASSUME NEW v \in Worker PROVE Sound(req[v])'
    BY <1>1 DEF IInv, Sound, SameMemes
  <1>4. Unshared' /\ Announced'
    BY <1>1 DEF IInv, Unshared, Announced, Apart
  <1>5. Kept'
    BY DEF IInv, Kept, SameMemes
  <1>6. (DeletedMemesStayDeleted /\ CaptionsAreTheLatest)'
    BY DEF IInv, DeletedMemesStayDeleted, CaptionsAreTheLatest, SameMemes
  <1>. QED BY <1>2, <1>3, <1>4, <1>5, <1>6 DEF IInv

\* A request that goes on about the same meme.
LEMMA SameMeme ==
  ASSUME IInv, NEW w \in Worker, NEW r, r.id = req[w].id, Unborn(r) => Unborn(req[w])
  PROVE  Apart(w, r)
  BY DEF IInv, Unshared, Apart

\* The shape of most steps of the handler.
LEMMA GoesOn ==
  ASSUME IInv, NEW w \in Worker, NEW r \in Request, Sound(r),
         r.id = req[w].id, r.method = req[w].method, Unborn(r) => Unborn(req[w]),
         req' = [req EXCEPT ![w] = r], LocksTyped', SameMemes, UNCHANGED history
  PROVE  IInv'
  <1>1. Apart(w, r)
    BY SameMeme
  <1>2. r.method = "DELETE" => r.id \in doomed
    BY DEF IInv, Announced
  <1>3. doomed \subseteq Id \cup NoId
    BY DEF IInv, TypeOK, NoId
  <1>. QED BY <1>1, <1>2, <1>3, OneRequest DEF history

LEMMA TypeFacts ==
  ASSUME IInv
  PROVE  /\ LocksTyped
         /\ \A w \in Worker : req[w] \in Request /\ Sound(req[w])
  BY DEF IInv, TypeOK, LocksTyped

LEMMA Untouched ==
  ASSUME IInv, UNCHANGED store
  PROVE  SameMemes /\ (UNCHANGED locks => LocksTyped')
  BY DEF IInv, TypeOK, LocksTyped, SameMemes, store, locks

LEMMA HandleRequest ==
  ASSUME IInv, NEW w \in Worker, handle_request(w)
  PROVE  IInv'
  <1>1. PICK m \in Method, i \in created \cup NoId, c \in Body :
          /\ req' = [req EXCEPT ![w] = [Idle EXCEPT !.pc = "open", !.method = m, !.id = i, !.content = c]]
          /\ doomed' = IF m = "DELETE" THEN doomed \cup {i} ELSE doomed
    BY DEF handle_request, Set, NoId
  <1>. DEFINE r == [Idle EXCEPT !.pc = "open", !.method = m, !.id = i, !.content = c]
  <1>2. i \in Id \cup {Ghost, Malformed}
    BY DEF IInv, TypeOK, NoId
  <1>3. r \in Request
    BY <1>2, IdleSound DEF Request
  <1>4. r.pc = "open" /\ r.method = m /\ r.id = i /\ r.found = {} /\ r.code = 0
    <2>1. Idle.found = {} /\ Idle.code = 0
      BY DEF Idle
    <2>. QED BY <2>1, IdleSound DEF Request
  <1>5. Sound(r) /\ ~Unborn(r)
    BY <1>4 DEF Sound, StatementOfMethod, Unborn
  <1>6. Apart(w, r)
    BY <1>4, <1>5, NameAssumption DEF Apart, IInv, Sound, NoId
  <1>7. UNCHANGED <<store, locks, created, acked, gone, latest>>
    BY DEF handle_request
  <1>8. r.method = "DELETE" => r.id \in doomed'
    BY <1>1, <1>4
  <1>9. doomed \subseteq doomed' /\ doomed' \subseteq Id \cup NoId
    BY <1>1, <1>2 DEF IInv, TypeOK, NoId
  <1>10. LocksTyped' /\ SameMemes
    BY <1>7, Untouched DEF locks
  <1>. HIDE DEF r
  <1>. QED BY <1>1, <1>3, <1>5, <1>6, <1>7, <1>8, <1>9, <1>10, OneRequest DEF r

\* Steps that only move a request on.
LEMMA MovesOn ==
  ASSUME IInv, NEW w \in Worker, NEW r \in Request,
         req' = [req EXCEPT ![w] = r], LocksTyped', SameMemes, UNCHANGED history,
         r.method = req[w].method, r.id = req[w].id, r.found = req[w].found,
         StatementOfMethod(r), Unborn(r) => Unborn(req[w]),
         r.pc = "reading" => req[w].pc = "reading",
         r.pc = "selected" => req[w].pc \in {"reading", "selected"},
         r.pc # "respond" => r.code = 0,
         r.code = 201 => r.code = req[w].code,
         r.code = 200 => r.code = req[w].code \/ r.method # "DELETE",
         Deciding(r) => Deciding(req[w])
  PROVE  IInv'
  <1>1. Sound(req[w])
    BY DEF IInv
  <1>2. Sound(r)
    BY <1>1 DEF Sound, IsRead
  <1>. QED BY <1>2, GoesOn

LEMMA CreateTable ==
  ASSUME IInv, NEW w \in Worker, create_table(w)
  PROVE  IInv'
  <1>. DEFINE r1 == [req[w] EXCEPT !.pc = "schema"]
              r2 == [req[w] EXCEPT !.pc = "handle"]
              r3 == [req[w] EXCEPT !.pc = "commit", !.stmt = "create_table"]
  <1>1. PICK r \in {r1, r2, r3} : req' = [req EXCEPT ![w] = r]
    BY DEF create_table, Goto, Set
  <1>2. req[w].pc = "open" /\ UNCHANGED <<store, history>> /\ LocksTyped' /\ SameMemes
    <2>1. req[w].pc = "open" /\ UNCHANGED <<store, history>>
      BY DEF create_table, At
    <2>2. LocksTyped'
      BY TypeFacts DEF create_table, BeginWrite, locks, store, LocksTyped
    <2>. QED BY <2>1, <2>2, Untouched
  <1>3. /\ r \in Request /\ r.method = req[w].method /\ r.id = req[w].id /\ r.found = req[w].found
        /\ r.code = req[w].code /\ r.pc \in {"schema", "handle", "commit"}
        /\ r.pc = "commit" => r.stmt = "create_table"
    BY <1>1, TypeFacts DEF Request
  <1>. HIDE DEF r1, r2, r3
  <1>4. StatementOfMethod(r) /\ ~Unborn(r) /\ Deciding(req[w]) /\ req[w].code = 0
    BY <1>2, <1>3, TypeFacts DEF StatementOfMethod, Unborn, Deciding, Sound
  <1>. QED BY <1>1, <1>2, <1>3, <1>4, MovesOn

\* The answers and statements a handler chooses without touching the table.
LEMMA Chooses ==
  ASSUME IInv, NEW w \in Worker, req[w].pc \in {"handle", "selected"},
         UNCHANGED <<store, locks, history>>,
         \/ \E code \in {303, 400, 404, 405, 500} : Respond(w, code)
         \/ Respond(w, 200) /\ req[w].method # "DELETE"
         \/ req[w].method = "PUT" /\ req[w].content \in Content /\ Execute(w, "update")
         \/ req[w].method = "DELETE" /\ Execute(w, "delete")
         \/ req[w].method = "GET" /\ Execute(w, "view") /\ req[w].pc = "selected",
         req[w].pc = "selected" => IsRead(req[w])
  PROVE  IInv'
  <1>. DEFINE q == req[w]
  <1>0. q \in Request /\ Sound(q) /\ q.code = 0
    BY TypeFacts DEF Sound
  <1>1. LocksTyped' /\ SameMemes
    BY Untouched
  <1>2. ASSUME NEW code \in Nat, Respond(w, code), code # 201,
               code = 200 => q.method # "DELETE"
        PROVE  IInv'
    <2>. DEFINE r == [q EXCEPT !.pc = "respond", !.code = code]
    <2>1. /\ r \in Request /\ r.method = q.method /\ r.id = q.id /\ r.found = q.found
          /\ r.code = code /\ r.pc = "respond"
      BY <1>0 DEF Request
    <2>2. req' = [req EXCEPT ![w] = r]
      BY <1>2 DEF Respond, Set
    <2>. HIDE DEF r
    <2>3. StatementOfMethod(r) /\ ~Unborn(r) /\ ~Deciding(r)
      BY <2>1 DEF StatementOfMethod, Unborn, Deciding
    <2>. QED BY <1>1, <1>2, <2>1, <2>2, <2>3, MovesOn, ZenonT(40)
  <1>3. ASSUME NEW stmt \in {"update", "delete", "view"}, Execute(w, stmt),
               \/ stmt = "update" /\ q.method = "PUT" /\ q.content \in Content
               \/ stmt = "delete" /\ q.method = "DELETE"
               \/ stmt = "view" /\ q.method = "GET" /\ q.pc = "selected"
        PROVE  IInv'
    <2>. DEFINE r == [q EXCEPT !.pc = "write", !.stmt = stmt]
    <2>1. /\ r \in Request /\ r.method = q.method /\ r.id = q.id /\ r.found = q.found
          /\ r.content = q.content /\ r.code = q.code /\ r.pc = "write" /\ r.stmt = stmt
      BY <1>0 DEF Request
    <2>2. req' = [req EXCEPT ![w] = r]
      BY <1>3 DEF Execute, Set
    <2>. HIDE DEF r
    <2>3. StatementOfMethod(r) /\ ~Unborn(r)
      BY <1>3, <2>1 DEF StatementOfMethod, Unborn
    <2>4. Deciding(r) => Deciding(q)
      BY <1>3, <2>1 DEF Deciding, IsRead
    <2>. QED BY <1>0, <1>1, <2>1, <2>2, <2>3, <2>4, MovesOn
  <1>. QED BY <1>2, <1>3

\* The handlers up to their first statement, and after their SELECT.
LEMMA Handle ==
  ASSUME IInv, NEW w \in Worker,
         \/ update_meme(w) \/ delete_meme(w) \/ redirect_request(w) \/ invalid_method(w)
         \/ meme_list(w) \/ meme_search(w) \/ get_meme_by_id(w)
  PROVE  IInv'
  <1>1. CASE update_meme(w)
    BY <1>1, Chooses DEF update_meme, body_check_fails, At
  <1>2. CASE delete_meme(w)
    BY <1>2, Chooses DEF delete_meme, At
  <1>3. CASE redirect_request(w)
    BY <1>3, Chooses DEF redirect_request, At
  <1>4. CASE invalid_method(w)
    BY <1>4, Chooses DEF invalid_method, At
  <1>5. CASE meme_list(w)
    BY <1>5, Chooses DEF meme_list, At, IsRead
  <1>6. CASE meme_search(w)
    BY <1>6, Chooses DEF meme_search, At, IsRead
  <1>7. CASE get_meme_by_id(w)
    BY <1>7, Chooses DEF get_meme_by_id, At, IsRead
  <1>. QED BY <1>1, <1>2, <1>3, <1>4, <1>5, <1>6, <1>7

LEMMA CreateMeme ==
  ASSUME IInv, NEW w \in Worker, create_meme(w)
  PROVE  IInv'
  <1>1. CASE body_check_fails(w)
    BY <1>1, Chooses DEF create_meme, body_check_fails, At
  <1>2. CASE req[w].content \in Content /\ generate_new_meme(w)
    <2>1. PICK i \in Id \ (created \cup {req[v].id : v \in Worker}) :
            req' = [req EXCEPT ![w] = [req[w] EXCEPT !.pc = "write", !.stmt = "insert", !.id = i]]
      BY <1>2 DEF generate_new_meme, Set
    <2>. DEFINE r == [req[w] EXCEPT !.pc = "write", !.stmt = "insert", !.id = i]
    <2>2. req[w].pc = "handle" /\ req[w].method = "POST" /\ UNCHANGED <<store, locks, history>>
      BY DEF create_meme, At
    <2>3. /\ r \in Request /\ r.pc = "write" /\ r.stmt = "insert" /\ r.id = i
          /\ r.method = "POST" /\ r.content = req[w].content /\ r.found = req[w].found
          /\ r.code = req[w].code
      BY <2>2, TypeFacts DEF Request
    <2>4. Sound(r)
      BY <1>2, <2>1, <2>2, <2>3, TypeFacts DEF Sound, StatementOfMethod, Unborn, IsRead
    <2>. HIDE DEF r
    <2>5. Apart(w, r)
      BY <2>1, <2>3 DEF Apart
    <2>6. req' = [req EXCEPT ![w] = r]
      BY <2>1 DEF r
    <2>. QED BY <2>2, <2>3, <2>4, <2>5, <2>6, OneRequest, Untouched
             DEF history, IInv, TypeOK, NoId
  <1>. QED BY <1>1, <1>2 DEF create_meme

LEMMA SelectRecord ==
  ASSUME IInv, NEW w \in Worker, select_record(w)
  PROVE  IInv'
  <1>. DEFINE q == req[w]
  <1>1. /\ q.pc = "handle" /\ IsRead(q) /\ q.method # "POST"
        /\ UNCHANGED <<store, reserved, exclusive, history>>
    BY DEF select_record, At, IsRead
  <1>2. q \in Request /\ Sound(q) /\ q.code = 0
    BY <1>1, TypeFacts DEF Sound
  <1>3. LocksTyped' /\ SameMemes
    BY <1>1, TypeFacts, Untouched DEF select_record, LocksTyped, store
  <1>. DEFINE hits == Hits(q)
  <1>4. hits \subseteq DOMAIN rows
    BY <1>1 DEF Hits, IsRead, search_record
  <1>5. ASSUME NEW r \in Request, req' = [req EXCEPT ![w] = r], r.id = q.id, r.method = q.method,
               r.pc \in {"selected", "reading"}, r.code = 0
        PROVE  IInv'
    <2>1. Sound(r) /\ ~Unborn(r)
      BY <1>1, <1>2, <1>5 DEF Sound, StatementOfMethod, Unborn, Deciding, IsRead
    <2>. QED BY <1>1, <1>3, <1>5, <2>1, GoesOn
  <1>6. CASE ReadFails
    <2>. DEFINE r == [q EXCEPT !.pc = "selected", !.found = {}]
    <2>1. req' = [req EXCEPT ![w] = r]
      BY <1>6 DEF select_record, Set
    <2>2. r \in Request /\ r.id = q.id /\ r.method = q.method /\ r.pc = "selected" /\ r.code = q.code
      BY <1>2 DEF Request
    <2>. HIDE DEF r
    <2>. QED BY <1>2, <1>5, <2>1, <2>2
  <1>7. CASE ~ReadFails
    <2>. DEFINE content == IF q.id \in hits THEN rows[q.id].content ELSE NoContent
                views   == IF q.id \in hits THEN rows[q.id].views ELSE 0
                r == [q EXCEPT !.pc = "reading", !.found = hits, !.content = content, !.views = views]
    <2>1. req' = [req EXCEPT ![w] = r]
      BY <1>7 DEF select_record, Set
    <2>2. content \in Body /\ views \in Nat /\ hits \in SUBSET Id
      BY <1>4 DEF IInv, TypeOK, Row, Body
    <2>. HIDE DEF content, views, hits
    <2>3. r \in Request /\ r.id = q.id /\ r.method = q.method /\ r.pc = "reading" /\ r.code = q.code
      BY <1>2, <2>2 DEF Request
    <2>. HIDE DEF r
    <2>. QED BY <1>2, <1>5, <2>1, <2>3
  <1>. QED BY <1>6, <1>7

LEMMA Finalize ==
  ASSUME IInv, NEW w \in Worker, finalize(w)
  PROVE  IInv'
  <1>. DEFINE q  == req[w]
              pc == IF q.pc = "schema" THEN "handle" ELSE "selected"
              r  == [q EXCEPT !.pc = pc]
  <1>1. q.pc \in {"reading", "schema"} /\ UNCHANGED <<store, reserved, exclusive, history>>
    BY DEF finalize, At
  <1>2. LocksTyped' /\ SameMemes
    BY <1>1, TypeFacts, Untouched DEF finalize, LocksTyped, store
  <1>3. q \in Request /\ Sound(q) /\ q.code = 0
    BY <1>1, TypeFacts DEF Sound
  <1>4. req' = [req EXCEPT ![w] = r]
    BY DEF finalize, Goto, Set, At
  <1>5. /\ r \in Request /\ r.method = q.method /\ r.id = q.id /\ r.found = q.found
        /\ r.code = q.code /\ r.pc = pc
    BY <1>3 DEF Request
  <1>. HIDE DEF r
  <1>6. StatementOfMethod(r) /\ ~Unborn(r) /\ (Deciding(r) => Deciding(q))
    BY <1>1, <1>5 DEF StatementOfMethod, Unborn, Deciding
  <1>. QED BY <1>1, <1>2, <1>3, <1>4, <1>5, <1>6, MovesOn

-----------------------------------------------------------------------------
(* Statements *)

\* What becomes of the request when its statement is over.
Over(w, ok) ==
    LET q == req[w]
    IN IF q.stmt = "create_table" THEN [q EXCEPT !.pc = "handle"]
       ELSE [q EXCEPT !.pc = "respond", !.code = Code(q.stmt, ok)]

LEMMA OverFields ==
  ASSUME IInv, NEW w \in Worker, NEW ok \in BOOLEAN,
         req[w].pc \in {"write", "commit", "committing"}, Finish(w, ok)
  PROVE  LET q == req[w]
             r == Over(w, ok)
         IN /\ req' = [req EXCEPT ![w] = r]
            /\ r \in Request /\ r.method = q.method /\ r.id = q.id /\ r.found = q.found /\ r.content = q.content
            /\ q.stmt = "create_table" => r.pc = "handle" /\ r.code = 0
            /\ q.stmt # "create_table" => r.pc = "respond" /\ r.code = Code(q.stmt, ok)
            /\ StatementOfMethod(r) /\ ~Unborn(r) /\ (Deciding(r) => Deciding(q))
  <1>. DEFINE q == req[w]
              r == Over(w, ok)
              code == Code(q.stmt, ok)
  <1>1. q \in Request /\ Sound(q) /\ q.code = 0
    BY TypeFacts DEF Sound
  <1>2. code \in Nat
    BY DEF Code
  <1>3. req' = [req EXCEPT ![w] = r]
    BY DEF Finish, Goto, Respond, Set, Over
  <1>. HIDE DEF code
  <1>4. CASE q.stmt = "create_table"
    <2>1. r = [q EXCEPT !.pc = "handle"]
      BY <1>4 DEF Over
    <2>2. /\ r \in Request /\ r.method = q.method /\ r.id = q.id /\ r.found = q.found /\ r.content = q.content
          /\ r.pc = "handle" /\ r.code = q.code
      BY <1>1, <2>1 DEF Request
    <2>3. StatementOfMethod(r) /\ ~Unborn(r) /\ Deciding(q)
      BY <1>4, <2>2 DEF StatementOfMethod, Unborn, Deciding
    <2>. QED BY <1>1, <1>3, <1>4, <2>2, <2>3
  <1>5. CASE q.stmt # "create_table"
    <2>1. r = [q EXCEPT !.pc = "respond", !.code = code]
      BY <1>5 DEF Over, code
    <2>2. /\ r \in Request /\ r.method = q.method /\ r.id = q.id /\ r.found = q.found /\ r.content = q.content
          /\ r.pc = "respond" /\ r.code = code
      BY <1>1, <1>2, <2>1 DEF Request
    <2>3. StatementOfMethod(r) /\ ~Unborn(r) /\ ~Deciding(r)
      BY <2>2 DEF StatementOfMethod, Unborn, Deciding
    <2>. QED BY <1>3, <1>5, <2>2, <2>3 DEF code
  <1>. QED BY <1>4, <1>5

\* A statement that fails leaves no trace.
LEMMA Fails ==
  ASSUME IInv, NEW w \in Worker, req[w].pc \in {"write", "commit"}, Finish(w, FALSE),
         LocksTyped', SameMemes, UNCHANGED history
  PROVE  IInv'
  <1>. DEFINE q == req[w]
              r == Over(w, FALSE)
  <1>1. /\ req' = [req EXCEPT ![w] = r]
        /\ r \in Request /\ r.method = q.method /\ r.id = q.id /\ r.found = q.found
        /\ q.stmt = "create_table" => r.pc = "handle" /\ r.code = 0
        /\ q.stmt # "create_table" => r.pc = "respond" /\ r.code = Code(q.stmt, FALSE)
        /\ StatementOfMethod(r) /\ ~Unborn(r) /\ (Deciding(r) => Deciding(q))
    BY OverFields
  <1>2. StatementOfMethod(q)
    BY TypeFacts DEF Sound
  <1>3. r.code # 201 /\ (r.code = 200 => r.method # "DELETE")
    <2>. DEFINE code == Code(q.stmt, FALSE)
    <2>1. q.stmt # "view" => code = 500
      BY DEF Code
    <2>2. q.stmt = "view" => code = 200 /\ q.method = "GET"
      BY <1>2 DEF Code, StatementOfMethod
    <2>3. r.method = q.method /\ (r.code = 0 \/ r.code = code)
      BY <1>1
    <2>. HIDE DEF code, r, q
    <2>. QED BY <2>1, <2>2, <2>3
  <1>4. r.pc # "respond" => r.code = 0
    BY <1>1
  <1>. HIDE DEF r
  <1>. QED BY <1>1, <1>3, <1>4, MovesOn, ZenonT(40)

\* A statement takes its next lock.
LEMMA Locks ==
  ASSUME IInv, NEW w \in Worker, NEW pc \in {"commit", "committing"},
         req[w].pc \in {"write", "commit"}, Goto(w, pc), LocksTyped', SameMemes, UNCHANGED history
  PROVE  IInv'
  <1>. DEFINE q == req[w]
              r == [q EXCEPT !.pc = pc]
  <1>1. q \in Request /\ Sound(q) /\ q.code = 0
    BY TypeFacts DEF Sound
  <1>2. /\ r \in Request /\ r.method = q.method /\ r.id = q.id /\ r.found = q.found
        /\ r.content = q.content /\ r.stmt = q.stmt /\ r.code = q.code /\ r.pc = pc
    BY <1>1 DEF Request
  <1>3. req' = [req EXCEPT ![w] = r]
    BY DEF Goto, Set
  <1>. HIDE DEF r
  <1>4. StatementOfMethod(r) /\ (Unborn(r) => Unborn(q)) /\ (Deciding(r) => Deciding(q))
    BY <1>1, <1>2 DEF Sound, StatementOfMethod, Unborn, Deciding
  <1>. QED BY <1>1, <1>2, <1>3, <1>4, MovesOn

LEMMA StepBegin ==
  ASSUME IInv, NEW w \in Worker, step_begin(w)
  PROVE  IInv'
  <1>1. req[w].pc = "write" /\ UNCHANGED <<store, history>>
    BY DEF step_begin, At
  <1>2. SameMemes /\ LocksTyped'
    BY <1>1, TypeFacts, Untouched DEF step_begin, BeginWrite, LocksTyped, store
  <1>. QED BY <1>1, <1>2, Fails, Locks DEF step_begin

LEMMA StepCommit ==
  ASSUME IInv, NEW w \in Worker, step_commit(w)
  PROVE  IInv'
  <1>1. req[w].pc = "commit" /\ UNCHANGED <<store, history>>
    BY DEF step_commit, At
  <1>2. SameMemes /\ LocksTyped'
    BY <1>1, TypeFacts, Untouched DEF step_commit, Unlock, LocksTyped, store
  <1>. QED BY <1>1, <1>2, Fails, Locks DEF step_commit

\* A commit keeps the other requests sound, and the memes they create unshared.
LEMMA OthersSound ==
  ASSUME IInv, NEW w \in Worker, NEW r \in Request, req' = [req EXCEPT ![w] = r],
         r.id = req[w].id, r.method = req[w].method, ~Unborn(r),
         UNCHANGED doomed,
         \/ created' = created
         \/ Unborn(req[w]) /\ created' = created \cup {req[w].id},
         DOMAIN rows' \subseteq DOMAIN rows \cup (created' \ created)
  PROVE  /\ \A v \in Worker \ {w} : Sound(req[v])'
         /\ Unshared' /\ Announced'
  <1>1. req' \in [Worker -> Request] /\ req'[w] = r /\ \A v \in Worker \ {w} : req'[v] = req[v]
    BY DEF IInv, TypeOK
  <1>2. ASSUME NEW v \in Worker \ {w} PROVE Sound(req[v])'
    <2>1. Sound(req[v]) /\ (Unborn(req[v]) => req[w].id # req[v].id)
      BY DEF IInv, Unshared
    <2>2. req'[v] = req[v]
      BY <1>1
    <2>3. Unborn(req[w]) => req[w].id \in Id \ created /\ req[w].id # req[v].id
      BY DEF IInv, Sound, Unshared
    <2>4. req[v].method = "DELETE" => req[v].id \in created \cup NoId
      BY <2>1 DEF Sound
    <2>5. req[v].method = "DELETE" /\ req[v].code = 200 => req[v].id \notin DOMAIN rows'
      BY <2>1, <2>3, <2>4 DEF Sound
    <2>. QED BY <2>1, <2>2, <2>3, <2>5 DEF Sound
  <1>3. Unshared' /\ Announced'
    BY <1>1 DEF IInv, Unshared, Announced
  <1>. QED BY <1>2, <1>3

LEMMA StepDone ==
  ASSUME IInv, NEW w \in Worker, step_done(w)
  PROVE  IInv'
  <1>. DEFINE q == req[w]
              r == Over(w, TRUE)
  <1>1. /\ q.pc = "committing" /\ rows' = Effect(q) /\ Finish(w, TRUE)
        /\ created' = IF q.stmt = "insert" THEN created \cup {q.id} ELSE created
        /\ latest'  = IF q.stmt \in {"insert", "update"} /\ q.id # Ghost
                      THEN Put(latest, q.id, q.content) ELSE latest
        /\ UNCHANGED <<acked, doomed, gone, viewed>>
    BY DEF step_done, At
  <1>2. LocksTyped'
    BY TypeFacts DEF step_done, Unlock, LocksTyped
  <1>3. q \in Request /\ Sound(q) /\ StatementOfMethod(q)
    BY TypeFacts DEF Sound
  <1>4. /\ req' = [req EXCEPT ![w] = r]
        /\ r \in Request /\ r.method = q.method /\ r.id = q.id /\ r.found = q.found
        /\ q.stmt = "create_table" => r.pc = "handle" /\ r.code = 0
        /\ q.stmt # "create_table" => r.pc = "respond" /\ r.code = Code(q.stmt, TRUE)
        /\ StatementOfMethod(r) /\ ~Unborn(r) /\ (Deciding(r) => Deciding(q))
    BY <1>1, OverFields
  <1>5. /\ q.stmt = "create_table" => r.pc = "handle" /\ r.code = 0
        /\ q.stmt # "create_table" => r.pc = "respond" /\ r.code = IF q.stmt = "insert" THEN 201 ELSE 200
    BY <1>4 DEF Code
  <1>. HIDE DEF q, r
  <1>6. req' \in [Worker -> Request] /\ req'[w] = r
    BY <1>4 DEF IInv, TypeOK
  <1>7. q \in Request /\ q.id \in Id \cup NoId /\ (q.stmt \in {"insert", "update"} => q.content \in Content)
    BY <1>1, <1>3 DEF Request, NoId, StatementOfMethod
  <1>8. CASE q.stmt \in {"create_table", "view"}
    <2>1. UNCHANGED history
      BY <1>1, <1>8 DEF history
    <2>2. SameMemes
      <3>1. CASE q.stmt = "create_table"
        BY <1>1, <3>1 DEF Effect, SameMemes, IInv, TypeOK
      <3>2. CASE q.stmt = "view"
        <4>1. q.views + 1 \in Nat
          BY <1>7 DEF Request
        <4>2. \A i \in DOMAIN rows : rows[i] \in Row
          BY DEF IInv, TypeOK
        <4>3. rows' = IF q.id \in DOMAIN rows THEN [rows EXCEPT ![q.id].views = q.views + 1] ELSE rows
          BY <1>1, <3>2 DEF Effect, Viewed
        <4>. QED BY <4>1, <4>2, <4>3 DEF SameMemes, Row
      <3>. QED BY <1>8, <3>1, <3>2
    <2>3. r.code # 201 /\ (r.code = 200 => r.method # "DELETE") /\ (r.pc # "respond" => r.code = 0)
      BY <1>1, <1>3, <1>4, <1>5, <1>8 DEF StatementOfMethod
    <2>. QED BY <1>2, <1>4, <2>1, <2>2, <2>3, MovesOn, ZenonT(40) DEF q
  <1>9. CASE q.stmt = "update"
    <2>1. created' = created /\ q.method = "PUT" /\ r.code = 200 /\ r.pc = "respond"
      BY <1>1, <1>3, <1>5, <1>9 DEF StatementOfMethod
    <2>2. /\ DOMAIN rows' = DOMAIN rows
          /\ \A i \in DOMAIN rows : /\ rows'[i] \in Row
                                   /\ rows'[i].content = IF i = q.id THEN q.content ELSE rows[i].content
      <3>1. \A i \in DOMAIN rows : rows[i] \in Row
        BY DEF IInv, TypeOK
      <3>2. rows' = IF q.id \in DOMAIN rows THEN [rows EXCEPT ![q.id].content = q.content] ELSE rows
        BY <1>1, <1>9 DEF Effect, Updated
      <3>. QED BY <1>7, <1>9, <3>1, <3>2 DEF Row
    <2>3. TypeOK'
      BY <1>1, <1>2, <1>6, <2>1, <2>2 DEF IInv, TypeOK, LocksTyped
    <2>4. /\ \A v \in Worker \ {w} : Sound(req[v])'
          /\ Unshared' /\ Announced'
      BY <1>1, <1>4, <2>1, <2>2, OthersSound DEF q
    <2>5. Sound(req[w])'
      BY <1>3, <1>4, <1>6, <2>1 DEF Sound, IsRead
    <2>6. \A i \in DOMAIN rows : q.id = i => q.id # Ghost
      BY NameAssumption DEF IInv, TypeOK
    <2>7. Kept'
      BY <1>1, <1>9, <2>1, <2>2 DEF IInv, Kept, Put
    <2>8. (DeletedMemesStayDeleted /\ CaptionsAreTheLatest)'
      <3>1. \A i \in DOMAIN rows : rows[i].content = latest[i] /\ i \in DOMAIN latest
        BY DEF IInv, Kept, CaptionsAreTheLatest
      <3>2. \A i \in DOMAIN rows : rows'[i].content = latest'[i]
        BY <1>1, <1>9, <2>2, <2>6, <3>1 DEF Put
      <3>. QED BY <1>1, <2>2, <3>2 DEF IInv, DeletedMemesStayDeleted, CaptionsAreTheLatest
    <2>. QED BY <2>3, <2>4, <2>5, <2>7, <2>8 DEF IInv
  <1>10. CASE q.stmt = "insert"
    <2>1. /\ Unborn(q) /\ q.id \in Id \ created /\ created' = created \cup {q.id}
          /\ q.method = "POST" /\ r.code = 201 /\ r.pc = "respond"
      BY <1>1, <1>3, <1>5, <1>10 DEF StatementOfMethod, Sound, Unborn
    <2>2. /\ DOMAIN rows' = DOMAIN rows \cup {q.id}
          /\ q.id \notin DOMAIN rows
          /\ \A i \in DOMAIN rows' : rows'[i] = IF i = q.id THEN [content |-> q.content, views |-> 0]
                                               ELSE rows[i]
      BY <1>1, <1>10, <2>1 DEF Effect, Inserted, Put, IInv, Kept
    <2>3. /\ DOMAIN latest' = DOMAIN latest \cup {q.id}
          /\ \A i \in DOMAIN latest' : latest'[i] = IF i = q.id THEN q.content ELSE latest[i]
      BY <1>1, <1>10, <2>1, NameAssumption DEF Put
    <2>4. TypeOK'
      <3>1. [content |-> q.content, views |-> 0] \in Row
        BY <1>7, <1>10 DEF Row
      <3>2. DOMAIN rows' \subseteq Id /\ \A i \in DOMAIN rows' : rows'[i] \in Row
        BY <2>1, <2>2, <3>1 DEF IInv, TypeOK
      <3>. QED BY <1>1, <1>2, <1>6, <2>1, <3>2 DEF IInv, TypeOK, LocksTyped
    <2>5. /\ \A v \in Worker \ {w} : Sound(req[v])'
          /\ Unshared' /\ Announced'
      <3>1. DOMAIN rows' \subseteq DOMAIN rows \cup (created' \ created)
        BY <2>1, <2>2
      <3>2. Unborn(req[w]) /\ created' = created \cup {req[w].id} /\ UNCHANGED doomed
        BY <1>1, <2>1 DEF q
      <3>. QED BY <1>4, <3>1, <3>2, OthersSound DEF q
    <2>6. Sound(req[w])'
      BY <1>3, <1>4, <1>6, <2>1 DEF Sound, IsRead
    <2>7. Kept'
      BY <1>1, <2>1, <2>2, <2>3 DEF IInv, Kept
    <2>8. DeletedMemesStayDeleted'
      BY <1>1, <2>1, <2>2, NameAssumption DEF IInv, DeletedMemesStayDeleted, Kept, NoId
    <2>9. CaptionsAreTheLatest'
      BY <2>2, <2>3 DEF IInv, CaptionsAreTheLatest, Kept
    <2>. QED BY <2>4, <2>5, <2>6, <2>7, <2>8, <2>9 DEF IInv
  <1>11. CASE q.stmt = "delete"
    <2>1. /\ created' = created /\ latest' = latest
          /\ q.method = "DELETE" /\ r.code = 200 /\ r.pc = "respond" /\ q.id \in doomed
      BY <1>1, <1>3, <1>5, <1>11 DEF StatementOfMethod, IInv, Announced, q
    <2>2. /\ DOMAIN rows' = DOMAIN rows \ {q.id}
          /\ \A i \in DOMAIN rows' : rows'[i] = rows[i]
      BY <1>1, <1>11 DEF Effect, Deleted
    <2>3. TypeOK'
      BY <1>1, <1>2, <1>6, <2>1, <2>2 DEF IInv, TypeOK, LocksTyped
    <2>4. /\ \A v \in Worker \ {w} : Sound(req[v])'
          /\ Unshared' /\ Announced'
      BY <1>1, <1>4, <2>1, <2>2, OthersSound DEF q
    <2>5. Sound(req[w])'
      BY <1>3, <1>4, <1>6, <2>1, <2>2 DEF Sound, IsRead
    <2>6. Kept'
      BY <1>1, <2>1, <2>2 DEF IInv, Kept
    <2>7. (DeletedMemesStayDeleted /\ CaptionsAreTheLatest)'
      BY <1>1, <2>1, <2>2 DEF IInv, DeletedMemesStayDeleted, CaptionsAreTheLatest
    <2>. QED BY <2>3, <2>4, <2>5, <2>6, <2>7 DEF IInv
  <1>. QED BY <1>1, <1>3, <1>8, <1>9, <1>10, <1>11 DEF StatementOfMethod

LEMMA Responds ==
  ASSUME IInv, NEW w \in Worker, respond(w)
  PROVE  IInv'
  <1>. DEFINE q == req[w]
  <1>1. /\ q.pc = "respond" /\ req' = [req EXCEPT ![w] = Idle]
        /\ acked' = IF q.code = 201 THEN acked \cup {q.id} ELSE acked
        /\ gone' = IF q.method = "DELETE" /\ q.code = 200 THEN gone \cup {q.id} ELSE gone
        /\ UNCHANGED <<store, locks, created, doomed, latest>>
    BY DEF respond, At, Set
  <1>2. q \in Request /\ Sound(q)
    BY TypeFacts
  <1>3. req' \in [Worker -> Request] /\ req'[w] = Idle /\ \A v \in Worker \ {w} : req'[v] = req[v]
    BY <1>1, IdleSound DEF IInv, TypeOK
  <1>4. \A v \in Worker : Sound(req[v])'
    BY <1>1, <1>3, IdleSound DEF IInv, Sound, store
  <1>5. Unshared'
    <2>1. ASSUME NEW v \in Worker, Unborn(req[v]) PROVE req[v].id # Ghost
      BY <2>1, NameAssumption DEF IInv, Sound
    <2>2. Idle.id = Ghost
      BY DEF Idle
    <2>. QED BY <1>3, <2>1, <2>2, IdleSound DEF IInv, Unshared
  <1>6. Announced'
    BY <1>1, <1>3 DEF IInv, Announced, Idle
  <1>7. TypeOK'
    BY <1>1, <1>2, <1>3 DEF IInv, TypeOK, store, locks, Sound, Request
  <1>8. Kept'
    BY <1>1, <1>2 DEF IInv, Kept, Sound, store
  <1>9. (DeletedMemesStayDeleted /\ CaptionsAreTheLatest)'
    BY <1>1, <1>2 DEF IInv, DeletedMemesStayDeleted, CaptionsAreTheLatest, Sound, store
  <1>. QED BY <1>4, <1>5, <1>6, <1>7, <1>8, <1>9 DEF IInv

\* A restart forgets the requests and keeps the file.
LEMMA Restarted == IInv /\ Crash => IInv'
  <1> SUFFICES ASSUME IInv, Crash PROVE IInv'
    OBVIOUS
  <1>1. /\ req' = [w \in Worker |-> Idle] /\ UNCHANGED <<store, history>>
        /\ shared' = {} /\ reserved' = Nobody /\ exclusive' = FALSE
    BY DEF Crash
  <1>2. TypeOK'
    BY <1>1, IdleSound DEF IInv, TypeOK, store, history
  <1>3. \A w \in Worker : Sound(req[w])'
    BY <1>1, IdleSound DEF Sound, store, history
  <1>4. Unshared' /\ Announced'
    BY <1>1, IdleSound DEF Unshared, Announced, Idle
  <1>5. (Kept /\ DeletedMemesStayDeleted /\ CaptionsAreTheLatest)'
    BY <1>1 DEF IInv, Kept, DeletedMemesStayDeleted, CaptionsAreTheLatest, store, history
  <1>. QED BY <1>2, <1>3, <1>4, <1>5 DEF IInv

-----------------------------------------------------------------------------
(* The invariants *)

LEMMA InitInv == Init => IInv
  <1> SUFFICES ASSUME Init PROVE IInv
    OBVIOUS
  <1>1. TypeOK
    <2>1. DOMAIN rows = {}
      BY DEF Init
    <2>2. req \in [Worker -> Request]
      BY IdleSound DEF Init
    <2>. QED BY <2>1, <2>2 DEF Init, TypeOK
  <1>2. \A w \in Worker : Sound(req[w])
    BY IdleSound DEF Init
  <1>3. Unshared /\ Announced
    BY IdleSound DEF Init, Unshared, Announced, Idle
  <1>4. Kept /\ DeletedMemesStayDeleted /\ CaptionsAreTheLatest
    BY DEF Init, Kept, DeletedMemesStayDeleted, CaptionsAreTheLatest
  <1>. QED BY <1>1, <1>2, <1>3, <1>4 DEF IInv

LEMMA NextInv == IInv /\ [Next]_vars => IInv'
  <1> SUFFICES ASSUME IInv, [Next]_vars PROVE IInv'
    OBVIOUS
  <1>1. CASE UNCHANGED vars
    BY <1>1 DEF vars, store, locks, history, IInv, TypeOK, Sound, Unshared, Announced, Kept,
                DeletedMemesStayDeleted, CaptionsAreTheLatest
  <1>2. ASSUME NEW w \in Worker, handle_request(w) PROVE IInv'
    BY <1>2, HandleRequest
  <1>3. ASSUME NEW w \in Worker, Proceed(w) PROVE IInv'
    BY <1>3, CreateTable, CreateMeme, Handle, SelectRecord, Finalize, StepBegin, StepCommit,
       StepDone, Responds DEF Proceed
  <1>4. CASE Crash
    BY <1>4, Restarted
  <1>. QED BY <1>1, <1>2, <1>3, <1>4 DEF Next, Quiet

LEMMA Inductive == Spec => []IInv
  BY InitInv, NextInv, PTL DEF Spec

\* The table of sql_lib.cc, the locks and every request of meme_handler.cc keep
\* their types.
THEOREM TypeCorrect == Spec => []TypeOK
  <1>1. IInv => TypeOK
    BY DEF IInv
  <1>. QED BY <1>1, Inductive, PTL

\* A meme whose creation meme_handler.cc has acknowledged stays in the table
\* through crashes and concurrent requests, until its deletion is asked for.
THEOREM AcknowledgedStay == Spec => []AcknowledgedMemesStay
  <1>1. IInv => AcknowledgedMemesStay
    BY DEF IInv, Kept, AcknowledgedMemesStay
  <1>. QED BY <1>1, Inductive, PTL

\* A meme whose deletion was acknowledged never comes back, whatever requests
\* that had read it before still write.
THEOREM DeletedStayDeleted == Spec => []DeletedMemesStayDeleted
  <1>1. IInv => DeletedMemesStayDeleted
    BY DEF IInv
  <1>. QED BY <1>1, Inductive, PTL

\* The table holds the captions of the last creation or update that took effect.
THEOREM LatestCaptions == Spec => []CaptionsAreTheLatest
  <1>1. IInv => CaptionsAreTheLatest
    BY DEF IInv
  <1>. QED BY <1>1, Inductive, PTL

-----------------------------------------------------------------------------
(* The handler and its database implement Memes *)

LEMMA CallIs ==
  ASSUME NEW r
  PROVE  /\ r.pc = "idle" => CallOf(r) = M!Idle
         /\ Deciding(r) => CallOf(r) = M!Pending(r.method, IF r.method = "POST" THEN Ghost ELSE r.id,
                                                 r.content)
         /\ r.pc # "idle" /\ ~Deciding(r) =>
               CallOf(r) = M!Answered(r.method,
                                      IF IsRead(r) THEN r.code # 500 ELSE r.code \in {200, 201},
                                      IF r.code = 201 THEN {r.id} ELSE r.found)
  <1>1. ~(r.pc = "idle" /\ Deciding(r))
    BY DEF Deciding
  <1>. QED BY <1>1 DEF CallOf, M!Idle, M!Pending, M!Answered

\* A step of w's request is a step of w's call.
LEMMA CallChanges ==
  ASSUME IInv, NEW w \in Worker, NEW r, req' = [req EXCEPT ![w] = r]
  PROVE  /\ call' = [call EXCEPT ![w] = CallOf(r)]
         /\ CallOf(r) = CallOf(req[w]) => call' = call
         /\ call[w] = CallOf(req[w])
  BY DEF IInv, TypeOK, call

LEMMA MemesSame == ASSUME SameMemes PROVE memes' = memes
  BY DEF SameMemes, memes

Refines == M!Next \/ UNCHANGED M!vars

\* A step that a client does not see: the call is pending and stays so...
LEMMA StaysPending ==
  ASSUME IInv, NEW w \in Worker, NEW r, req' = [req EXCEPT ![w] = r], SameMemes, UNCHANGED created,
         Deciding(req[w]), Deciding(r), r.method = req[w].method, r.content = req[w].content,
         r.method # "POST" => r.id = req[w].id
  PROVE  UNCHANGED M!vars
  <1>1. CallOf(r) = CallOf(req[w])
    BY DEF CallOf, Deciding
  <1>a. CallOf(r) = CallOf(req[w]) => call' = call
    BY CallChanges, Zenon
  <1>b. memes' = memes
    BY MemesSame
  <1>2. call' = call /\ memes' = memes
    BY <1>1, <1>a, <1>b, Zenon
  <1>. QED BY <1>2 DEF M!vars

\* ...or a reader's answer is known and stays the same.
LEMMA StaysAnswered ==
  ASSUME IInv, NEW w \in Worker, NEW r, req' = [req EXCEPT ![w] = r], SameMemes, UNCHANGED created,
         req[w].pc # "idle", ~Deciding(req[w]), r.pc # "idle", ~Deciding(r),
         r.method = req[w].method, r.found = req[w].found, IsRead(r),
         req[w].code \notin {201, 500}, r.code \notin {201, 500}
  PROVE  UNCHANGED M!vars
  <1>1. CallOf(r) = CallOf(req[w])
    BY DEF CallOf, IsRead
  <1>a. CallOf(r) = CallOf(req[w]) => call' = call
    BY CallChanges, ZenonT(40)
  <1>b. memes' = memes
    BY MemesSame
  <1>2. call' = call /\ memes' = memes
    BY <1>1, <1>a, <1>b, Zenon
  <1>. QED BY <1>2 DEF M!vars

\* What w's call is while it is pending, and what an answer makes of it.
LEMMA PendingCall ==
  ASSUME IInv, NEW w \in Worker, Deciding(req[w])
  PROVE  /\ call[w].phase = "pending" /\ call[w].op = req[w].method /\ call[w].content = req[w].content
         /\ call[w].id = IF req[w].method = "POST" THEN Ghost ELSE req[w].id
  <1>1. call[w] = M!Pending(req[w].method, IF req[w].method = "POST" THEN Ghost ELSE req[w].id,
                            req[w].content)
    BY CallIs DEF call
  <1>. QED BY <1>1 DEF M!Pending

\* A call that failed, and one that was answered.
Refused(op) == M!Answered(op, FALSE, {})
Granted(op, answer) == M!Answered(op, TRUE, answer)

LEMMA AnswersYes ==
  ASSUME IInv, NEW w \in Worker, NEW r, req' = [req EXCEPT ![w] = r], Deciding(req[w]),
         NEW answer, CallOf(r) = Granted(req[w].method, answer)
  PROVE  M!Answer(w, TRUE, answer)
  <1>1. call' = [call EXCEPT ![w] = Granted(req[w].method, answer)]
    BY CallChanges
  <1>2. call[w].op = req[w].method
    BY PendingCall
  <1>. QED BY <1>1, <1>2 DEF M!Answer, Granted

LEMMA AnswersNo ==
  ASSUME IInv, NEW w \in Worker, NEW r, req' = [req EXCEPT ![w] = r], Deciding(req[w]),
         CallOf(r) = Refused(req[w].method)
  PROVE  M!Answer(w, FALSE, {})
  <1>1. call' = [call EXCEPT ![w] = Refused(req[w].method)]
    BY CallChanges
  <1>2. call[w].op = req[w].method
    BY PendingCall
  <1>. QED BY <1>1, <1>2 DEF M!Answer, Refused

\* The answers of a request that is no longer pending.
LEMMA SaysNo ==
  ASSUME NEW r, r.pc = "respond", r.code # 200, r.code # 201, IsRead(r) => r.code = 500, r.found = {}
  PROVE  CallOf(r) = Refused(r.method)
  <1>1. (IF IsRead(r) THEN r.code # 500 ELSE r.code \in {200, 201}) = FALSE
    OBVIOUS
  <1>2. r.pc # "idle" /\ ~Deciding(r)
    BY DEF Deciding
  <1>3. r.code # 201
    OBVIOUS
  <1>. QED BY <1>1, <1>2, <1>3, ZenonT(40) DEF CallOf, M!Answered, Refused

LEMMA SaysCreated ==
  ASSUME NEW r, r.pc = "respond", r.code = 201, ~IsRead(r)
  PROVE  CallOf(r) = Granted(r.method, {r.id})
  <1>1. r.pc # "idle" /\ ~Deciding(r)
    BY DEF Deciding
  <1>. QED BY <1>1 DEF CallOf, M!Answered, Granted

LEMMA SaysDone ==
  ASSUME NEW r, r.pc = "respond", r.code = 200, ~IsRead(r), r.found = {}
  PROVE  CallOf(r) = Granted(r.method, {})
  <1>1. r.pc # "idle" /\ ~Deciding(r)
    BY DEF Deciding
  <1>2. (IF IsRead(r) THEN r.code # 500 ELSE r.code \in {200, 201}) = TRUE
    OBVIOUS
  <1>3. (IF r.code = 201 THEN {r.id} ELSE r.found) = {}
    OBVIOUS
  <1>. QED BY <1>1, <1>2, <1>3 DEF CallOf, M!Answered, Granted

LEMMA SaysFound ==
  ASSUME NEW r, r.pc \in {"reading", "selected"}, r.code \notin {201, 500}, IsRead(r)
  PROVE  CallOf(r) = Granted(r.method, r.found)
  <1>. DEFINE ok     == IF IsRead(r) THEN r.code # 500 ELSE r.code \in {200, 201}
              answer == IF r.code = 201 THEN {r.id} ELSE r.found
  <1>1. r.pc # "idle" /\ ~Deciding(r)
    BY DEF Deciding
  <1>2. ok = TRUE
    OBVIOUS
  <1>3. answer = r.found
    OBVIOUS
  <1>4. CallOf(r) = M!Answered(r.method, ok, answer)
    BY <1>1, CallIs, ZenonT(40)
  <1>. HIDE DEF ok, answer
  <1>. QED BY <1>2, <1>3, <1>4, Zenon DEF Granted

\* A pending call is refused.
LEMMA Refuses ==
  ASSUME IInv, NEW w \in Worker, NEW r, req' = [req EXCEPT ![w] = r], SameMemes, UNCHANGED created,
         Deciding(req[w]), CallOf(r) = Refused(req[w].method)
  PROVE  M!Refuse(w)
  <1>1. M!Answer(w, FALSE, {})
    BY AnswersNo
  <1>2. M!Is(w, "pending") /\ memes' = memes
    BY PendingCall, MemesSame DEF M!Is
  <1>. QED BY <1>1, <1>2 DEF M!Refuse

LEMMA BeginRefines ==
  ASSUME IInv, NEW w \in Worker, handle_request(w)
  PROVE  M!Begin(w)
  <1>1. PICK m \in Method, i \in created \cup NoId, c \in Body :
          req' = [req EXCEPT ![w] = [Idle EXCEPT !.pc = "open", !.method = m, !.id = i, !.content = c]]
    BY DEF handle_request, Set, NoId
  <1>. DEFINE r == [Idle EXCEPT !.pc = "open", !.method = m, !.id = i, !.content = c]
              id == IF m = "POST" THEN Ghost ELSE i
  <1>2. req[w].pc = "idle" /\ UNCHANGED <<store, created>>
    BY DEF handle_request, At
  <1>3. r.pc = "open" /\ r.method = m /\ r.id = i /\ r.content = c
    <2>1. i \in Id \cup {Ghost, Malformed}
      BY DEF IInv, TypeOK, NoId
    <2>. QED BY <2>1, IdleSound DEF Request
  <1>. HIDE DEF r
  <1>4. CallOf(r) = M!Pending(m, id, c)
    BY <1>3 DEF CallOf, Deciding, M!Pending
  <1>5. call' = [call EXCEPT ![w] = M!Pending(m, id, c)]
    <2>1. req' = [req EXCEPT ![w] = r]
      BY <1>1 DEF r
    <2>2. call' = [call EXCEPT ![w] = CallOf(r)]
      BY <2>1, CallChanges
    <2>. QED BY <1>4, <2>2
  <1>6. call[w].phase = "idle"
    <2>1. call[w] = CallOf(req[w])
      BY DEF call
    <2>2. call[w] = M!Idle
      BY <1>2, <2>1, CallIs
    <2>. QED BY <2>2 DEF M!Idle
  <1>7. m \in M!Write \cup M!Read \cup {"OTHER"}
    BY DEF Method, M!Write, M!Read
  <1>8. id \in Id \cup {Ghost, Malformed} /\ c \in Content \cup {NoContent, "undecodable"}
    BY DEF IInv, TypeOK, NoId, Body
  <1>9. memes' = memes
    BY <1>2, Untouched, MemesSame
  <1>. QED BY <1>2, <1>5, <1>6, <1>7, <1>8, <1>9 DEF M!Begin, M!Is

LEMMA TableRefines ==
  ASSUME IInv, NEW w \in Worker, create_table(w)
  PROVE  UNCHANGED M!vars
  <1>. DEFINE r1 == [req[w] EXCEPT !.pc = "schema"]
              r2 == [req[w] EXCEPT !.pc = "handle"]
              r3 == [req[w] EXCEPT !.pc = "commit", !.stmt = "create_table"]
  <1>1. PICK r \in {r1, r2, r3} : req' = [req EXCEPT ![w] = r]
    BY DEF create_table, Goto, Set
  <1>2. req[w].pc = "open" /\ UNCHANGED created /\ SameMemes
    BY Untouched DEF create_table, At, history
  <1>3. /\ r.method = req[w].method /\ r.id = req[w].id /\ r.content = req[w].content
        /\ r.pc \in {"schema", "handle", "commit"}
        /\ r.pc = "commit" => r.stmt = "create_table"
    BY <1>1, TypeFacts DEF Request
  <1>. HIDE DEF r1, r2, r3
  <1>4. Deciding(req[w]) /\ Deciding(r)
    BY <1>2, <1>3 DEF Deciding
  <1>. QED BY <1>1, <1>2, <1>3, <1>4, StaysPending

\* A pending request is answered with an error before it has executed anything.
LEMMA RespondsNo ==
  ASSUME IInv, NEW w \in Worker, Deciding(req[w]),
         NEW code \in Nat, code # 200, code # 201, IsRead(req[w]) => code = 500, Respond(w, code)
  PROVE  \E s \in Request : req' = [req EXCEPT ![w] = s] /\ CallOf(s) = Refused(req[w].method)
  <1>. DEFINE q == req[w]
              r == [q EXCEPT !.pc = "respond", !.code = code]
  <1>1. q \in Request /\ q.found = {}
    BY TypeFacts DEF Sound
  <1>. HIDE DEF q
  <1>2. r \in Request /\ r.pc = "respond" /\ r.code = code /\ r.method = q.method /\ r.found = {}
    BY <1>1 DEF Request
  <1>3. req' = [req EXCEPT ![w] = r]
    BY DEF Respond, Set, q
  <1>. HIDE DEF r
  <1>4. IsRead(r) => code = 500
    BY <1>2 DEF IsRead, q
  <1>5. CallOf(r) = Refused(r.method)
    <2>1. r.code # 200 /\ r.code # 201 /\ (IsRead(r) => r.code = 500)
      BY <1>2, <1>4
    <2>. QED BY <1>2, <2>1, SaysNo
  <1>6. CallOf(r) = Refused(req[w].method)
    BY <1>2, <1>5 DEF q
  <1>. QED BY <1>2, <1>3, <1>6, Zenon

\* A write statement is chosen: the call stays pending.
LEMMA ExecuteRefines ==
  ASSUME IInv, NEW w \in Worker, req[w].pc = "handle", SameMemes, UNCHANGED created,
         NEW stmt \in {"update", "delete"}, Execute(w, stmt)
  PROVE  UNCHANGED M!vars
  <1>. DEFINE q == req[w]
              r == [q EXCEPT !.pc = "write", !.stmt = stmt]
  <1>1. q \in Request
    BY TypeFacts
  <1>. HIDE DEF q
  <1>2. r.pc = "write" /\ r.stmt = stmt /\ r.method = q.method /\ r.content = q.content /\ r.id = q.id
    BY <1>1 DEF Request
  <1>3. req' = [req EXCEPT ![w] = r]
    BY DEF Execute, Set, q
  <1>. HIDE DEF r
  <1>4. Deciding(req[w]) /\ Deciding(r)
    BY <1>2 DEF Deciding
  <1>5. r.method = req[w].method /\ r.content = req[w].content /\ r.id = req[w].id
    BY <1>2 DEF q
  <1>. QED BY <1>3, <1>4, <1>5, StaysPending

LEMMA CreateMemeRefines ==
  ASSUME IInv, NEW w \in Worker, create_meme(w)
  PROVE  Refines
  <1>. DEFINE q == req[w]
  <1>1. q \in Request /\ q.pc = "handle" /\ q.method = "POST" /\ SameMemes /\ UNCHANGED created
    BY TypeFacts, Untouched DEF create_meme, At, history
  <1>2. Deciding(q) /\ ~IsRead(q)
    BY <1>1 DEF Deciding, IsRead
  <1>3. CASE body_check_fails(w)
    <2>1. Respond(w, 400) \/ Respond(w, 500)
      BY <1>3 DEF body_check_fails
    <2>2. M!Refuse(w)
      BY <1>1, <1>2, <2>1, RespondsNo, Refuses
    <2>. QED BY <2>2 DEF Refines, M!Next
  <1>4. CASE generate_new_meme(w)
    <2>1. PICK i \in Id : req' = [req EXCEPT ![w] = [q EXCEPT !.pc = "write", !.stmt = "insert", !.id = i]]
      BY <1>4 DEF generate_new_meme, Set
    <2>. DEFINE r == [q EXCEPT !.pc = "write", !.stmt = "insert", !.id = i]
    <2>. HIDE DEF q
    <2>2. r.pc = "write" /\ r.stmt = "insert" /\ r.method = q.method /\ r.content = q.content
      BY <1>1 DEF Request
    <2>3. req' = [req EXCEPT ![w] = r]
      BY <2>1
    <2>. HIDE DEF r
    <2>4. Deciding(r)
      BY <2>2 DEF Deciding
    <2>5. r.method = "POST" /\ r.method = req[w].method /\ r.content = req[w].content /\ Deciding(req[w])
      BY <1>1, <1>2, <2>2 DEF q
    <2>. QED BY <1>1, <2>3, <2>4, <2>5, StaysPending DEF Refines
  <1>. QED BY <1>3, <1>4 DEF create_meme

LEMMA HandleRefines ==
  ASSUME IInv, NEW w \in Worker,
         update_meme(w) \/ delete_meme(w) \/ redirect_request(w) \/ invalid_method(w)
  PROVE  Refines
  <1>1. req[w].pc = "handle" /\ req[w].method \in {"PUT", "DELETE", "OTHER"} /\ SameMemes /\ UNCHANGED created
    BY Untouched DEF update_meme, delete_meme, redirect_request, invalid_method, At, history
  <1>2. Deciding(req[w]) /\ ~IsRead(req[w])
    BY <1>1 DEF Deciding, IsRead
  <1>3. \/ Execute(w, "update") \/ Execute(w, "delete")
        \/ Respond(w, 303) \/ Respond(w, 400) \/ Respond(w, 405) \/ Respond(w, 500)
    BY DEF update_meme, delete_meme, redirect_request, invalid_method, body_check_fails
  <1>4. CASE Execute(w, "update") \/ Execute(w, "delete")
    BY <1>1, <1>4, ExecuteRefines DEF Refines
  <1>5. CASE Respond(w, 303) \/ Respond(w, 400) \/ Respond(w, 405) \/ Respond(w, 500)
    <2>1. M!Refuse(w)
      BY <1>1, <1>2, <1>5, RespondsNo, Refuses
    <2>. QED BY <2>1 DEF Refines, M!Next
  <1>. QED BY <1>3, <1>4, <1>5

\* The SELECT decides what a reader is answered.
LEMMA SelectRefines ==
  ASSUME IInv, NEW w \in Worker, select_record(w)
  PROVE  Refines
  <1>. DEFINE q == req[w]
  <1>1. /\ q.pc = "handle" /\ q.method \in {"GET", "LIST", "SEARCH"} /\ IsRead(q) /\ Deciding(q)
        /\ UNCHANGED <<store, created>>
    BY DEF select_record, At, IsRead, Deciding, history
  <1>2. q \in Request /\ Sound(q) /\ q.code = 0
    BY <1>1, TypeFacts DEF Sound
  <1>3. memes' = memes
    BY <1>1, Untouched, MemesSame
  <1>. DEFINE hits == Hits(q)
  <1>4. hits \subseteq DOMAIN rows
    BY <1>1 DEF Hits, search_record
  <1>5. hits = M!Asked(call[w])
    <2>1. call[w].op = q.method /\ call[w].content = q.content /\ call[w].id = q.id
      BY <1>1, PendingCall
    <2>2. DOMAIN memes = DOMAIN rows /\ \A i \in DOMAIN rows : memes[i] = rows[i].content
      BY DEF memes
    <2>3. CASE q.method = "LIST"
      BY <2>1, <2>2, <2>3 DEF Hits, M!Asked
    <2>4. CASE q.method = "GET"
      BY <2>1, <2>2, <2>4 DEF Hits, M!Asked
    <2>5. CASE q.method = "SEARCH"
      BY <2>1, <2>2, <2>5 DEF Hits, M!Asked, search_record
    <2>. QED BY <1>1, <2>3, <2>4, <2>5
  <1>6. ASSUME NEW r, req' = [req EXCEPT ![w] = r], CallOf(r) = Granted(q.method, r.found),
               r.found \in {hits, {}}
        PROVE  Refines
    <2>1. M!Answer(w, TRUE, r.found)
      BY <1>1, <1>6, AnswersYes
    <2>2. M!Is(w, "pending") /\ call[w].op \in M!Read
      BY <1>1, PendingCall DEF M!Is, M!Read
    <2>3. M!Look(w)
      BY <1>1, <1>3, <1>5, <1>6, <2>1, <2>2 DEF M!Look
    <2>. QED BY <2>3 DEF Refines, M!Next
  <1>7. CASE ReadFails
    <2>. DEFINE r == [q EXCEPT !.pc = "selected", !.found = {}]
    <2>1. req' = [req EXCEPT ![w] = r]
      BY <1>7 DEF select_record, Set
    <2>2. r.method = q.method /\ r.pc = "selected" /\ r.code = q.code /\ r.found = {}
      BY <1>2 DEF Request
    <2>. HIDE DEF r
    <2>3. r.code \notin {201, 500} /\ IsRead(r)
      BY <1>1, <1>2, <2>2 DEF IsRead
    <2>4. CallOf(r) = Granted(r.method, r.found)
      BY <2>2, <2>3, SaysFound
    <2>. QED BY <1>6, <2>1, <2>2, <2>4
  <1>8. CASE ~ReadFails
    <2>. DEFINE content == IF q.id \in hits THEN rows[q.id].content ELSE NoContent
                views   == IF q.id \in hits THEN rows[q.id].views ELSE 0
                r == [q EXCEPT !.pc = "reading", !.found = hits, !.content = content, !.views = views]
    <2>1. req' = [req EXCEPT ![w] = r]
      BY <1>8 DEF select_record, Set
    <2>. HIDE DEF content, views, hits
    <2>2. r.method = q.method /\ r.pc = "reading" /\ r.code = q.code /\ r.found = hits
      BY <1>2 DEF Request
    <2>. HIDE DEF r
    <2>3. r.code \notin {201, 500} /\ IsRead(r)
      BY <1>1, <1>2, <2>2 DEF IsRead
    <2>4. CallOf(r) = Granted(r.method, r.found)
      BY <2>2, <2>3, SaysFound
    <2>. QED BY <1>6, <2>1, <2>2, <2>4
  <1>. QED BY <1>7, <1>8

LEMMA FinalizeRefines ==
  ASSUME IInv, NEW w \in Worker, finalize(w)
  PROVE  UNCHANGED M!vars
  <1>. DEFINE q  == req[w]
              pc == IF q.pc = "schema" THEN "handle" ELSE "selected"
              r  == [q EXCEPT !.pc = pc]
  <1>1. q.pc \in {"reading", "schema"} /\ SameMemes /\ UNCHANGED created
    BY Untouched DEF finalize, At, history
  <1>2. q \in Request /\ Sound(q) /\ q.code = 0
    BY <1>1, TypeFacts DEF Sound
  <1>3. req' = [req EXCEPT ![w] = r]
    BY DEF finalize, Goto, Set, At
  <1>4. /\ r.method = q.method /\ r.id = q.id /\ r.found = q.found /\ r.content = q.content
        /\ r.code = q.code /\ r.pc = pc
    BY <1>2 DEF Request
  <1>. HIDE DEF r
  <1>5. CASE q.pc = "schema"
    <2>1. Deciding(q) /\ Deciding(r)
      BY <1>4, <1>5 DEF Deciding
    <2>. QED BY <1>1, <1>3, <1>4, <2>1, StaysPending
  <1>6. CASE q.pc = "reading"
    <2>1. q.pc # "idle" /\ ~Deciding(q) /\ r.pc # "idle" /\ ~Deciding(r)
      BY <1>4, <1>6 DEF Deciding
    <2>2. q.code \notin {201, 500} /\ r.code \notin {201, 500}
      BY <1>2, <1>4
    <2>3. IsRead(r)
      BY <1>2, <1>4, <1>6 DEF Sound, IsRead
    <2>. QED BY <1>1, <1>3, <1>4, <2>1, <2>2, <2>3, StaysAnswered, ZenonT(40)
  <1>. QED BY <1>1, <1>5, <1>6

\* What a reader does after its SELECT does not change its answer.
LEMMA ReadersRefine ==
  ASSUME IInv, NEW w \in Worker, meme_list(w) \/ meme_search(w) \/ get_meme_by_id(w)
  PROVE  Refines
  <1>. DEFINE q == req[w]
  <1>1. q \in Request /\ IsRead(q) /\ SameMemes /\ UNCHANGED created
    BY TypeFacts, Untouched DEF meme_list, meme_search, get_meme_by_id, history, IsRead
  <1>2. q.pc \in {"handle", "selected"} /\ q.code = 0
    BY TypeFacts DEF meme_list, meme_search, get_meme_by_id, At, Sound
  <1>3. \/ q.pc = "handle" /\ Respond(w, 500)
        \/ q.pc = "selected" /\ (Respond(w, 200) \/ Respond(w, 404) \/ Execute(w, "view"))
    BY DEF meme_list, meme_search, get_meme_by_id, At
  <1>4. CASE q.pc = "handle" /\ Respond(w, 500)
    <2>1. Deciding(q)
      BY <1>4 DEF Deciding
    <2>2. M!Refuse(w)
      BY <1>1, <1>4, <2>1, RespondsNo, Refuses
    <2>. QED BY <2>2 DEF Refines, M!Next
  <1>5. q.pc = "selected" => q.pc # "idle" /\ ~Deciding(q)
    BY DEF Deciding
  <1>6. q.code \notin {201, 500}
    BY <1>2
  <1>7. ASSUME NEW code \in Nat, code # 201, code # 500, q.pc = "selected", Respond(w, code)
        PROVE  UNCHANGED M!vars
    <2>. DEFINE r == [q EXCEPT !.pc = "respond", !.code = code]
    <2>1. r.pc = "respond" /\ r.method = q.method /\ r.found = q.found /\ r.code = code
      BY <1>1 DEF Request
    <2>2. req' = [req EXCEPT ![w] = r]
      BY <1>7 DEF Respond, Set
    <2>. HIDE DEF r
    <2>3. r.pc # "idle" /\ ~Deciding(r) /\ IsRead(r)
      BY <1>1, <2>1 DEF Deciding, IsRead
    <2>4. r.code \notin {201, 500}
      BY <1>7, <2>1
    <2>. QED BY <1>1, <1>5, <1>6, <1>7, <2>1, <2>2, <2>3, <2>4, StaysAnswered, ZenonT(40)
  <1>8. ASSUME q.pc = "selected", Execute(w, "view")
        PROVE  UNCHANGED M!vars
    <2>. DEFINE r == [q EXCEPT !.pc = "write", !.stmt = "view"]
    <2>1. /\ r.pc = "write" /\ r.stmt = "view" /\ r.method = q.method /\ r.found = q.found
          /\ r.code = q.code
      BY <1>1 DEF Request
    <2>2. req' = [req EXCEPT ![w] = r]
      BY <1>8 DEF Execute, Set
    <2>. HIDE DEF r
    <2>3. r.pc # "idle" /\ ~Deciding(r) /\ IsRead(r)
      BY <1>1, <2>1 DEF Deciding, IsRead
    <2>4. r.code \notin {201, 500}
      BY <1>6, <2>1
    <2>. QED BY <1>1, <1>5, <1>6, <1>8, <2>1, <2>2, <2>3, <2>4, StaysAnswered, ZenonT(40)
  <1>. QED BY <1>3, <1>4, <1>7, <1>8 DEF Refines

\* A statement takes a lock: nobody sees it.
LEMMA LocksRefine ==
  ASSUME IInv, NEW w \in Worker, NEW pc \in {"commit", "committing"},
         req[w].pc \in {"write", "commit"}, Goto(w, pc), SameMemes, UNCHANGED created
  PROVE  UNCHANGED M!vars
  <1>. DEFINE q == req[w]
              r == [q EXCEPT !.pc = pc]
  <1>1. q \in Request /\ StatementOfMethod(q) /\ q.code = 0
    BY TypeFacts DEF Sound
  <1>2. /\ r.method = q.method /\ r.id = q.id /\ r.found = q.found
        /\ r.content = q.content /\ r.stmt = q.stmt /\ r.code = q.code /\ r.pc = pc
    BY <1>1 DEF Request
  <1>3. req' = [req EXCEPT ![w] = r]
    BY DEF Goto, Set
  <1>. HIDE DEF r
  <1>4. CASE q.stmt # "view"
    <2>1. Deciding(q) /\ Deciding(r)
      BY <1>2, <1>4 DEF Deciding
    <2>. QED BY <1>2, <1>3, <2>1, StaysPending
  <1>5. CASE q.stmt = "view"
    <2>1. q.pc # "idle" /\ ~Deciding(q) /\ r.pc # "idle" /\ ~Deciding(r)
      BY <1>2, <1>5 DEF Deciding
    <2>2. IsRead(r)
      BY <1>1, <1>2, <1>5 DEF StatementOfMethod, IsRead
    <2>3. q.code \notin {201, 500} /\ r.code \notin {201, 500}
      BY <1>1, <1>2
    <2>. QED BY <1>2, <1>3, <2>1, <2>2, <2>3, StaysAnswered, ZenonT(40)
  <1>. QED BY <1>4, <1>5

\* The statement that creates the table, or counts a view, is over.
LEMMA UnseenOver ==
  ASSUME IInv, NEW w \in Worker, NEW r, req' = [req EXCEPT ![w] = r], SameMemes, UNCHANGED created,
         req[w].pc \in {"write", "commit", "committing"},
         r.method = req[w].method, r.id = req[w].id, r.content = req[w].content, r.found = req[w].found,
         \/ req[w].stmt = "create_table" /\ r.pc = "handle"
         \/ req[w].stmt = "view" /\ r.pc = "respond" /\ r.code = 200
  PROVE  UNCHANGED M!vars
  <1>. DEFINE q == req[w]
  <1>1. StatementOfMethod(q) /\ q.code = 0
    BY TypeFacts DEF Sound
  <1>2. CASE q.stmt = "create_table" /\ r.pc = "handle"
    <2>1. Deciding(q) /\ Deciding(r)
      BY <1>2 DEF Deciding
    <2>. QED BY <2>1, StaysPending
  <1>3. CASE q.stmt = "view" /\ r.pc = "respond" /\ r.code = 200
    <2>1. q.pc # "idle" /\ ~Deciding(q) /\ r.pc # "idle" /\ ~Deciding(r)
      BY <1>3 DEF Deciding
    <2>2. IsRead(r)
      BY <1>1, <1>3 DEF StatementOfMethod, IsRead
    <2>3. q.code \notin {201, 500} /\ r.code \notin {201, 500}
      BY <1>1, <1>3
    <2>. QED BY <2>1, <2>2, <2>3, StaysAnswered, ZenonT(40)
  <1>. QED BY <1>2, <1>3

LEMMA FailsRefine ==
  ASSUME IInv, NEW w \in Worker, req[w].pc \in {"write", "commit"}, Finish(w, FALSE),
         SameMemes, UNCHANGED created
  PROVE  Refines
  <1>. DEFINE q == req[w]
              r == Over(w, FALSE)
              code == Code(q.stmt, FALSE)
  <1>1. /\ req' = [req EXCEPT ![w] = r]
        /\ r.method = q.method /\ r.id = q.id /\ r.found = q.found /\ r.content = q.content
        /\ q.stmt = "create_table" => r.pc = "handle"
        /\ q.stmt # "create_table" => r.pc = "respond" /\ r.code = code
    BY OverFields
  <1>2. (q.stmt = "view" => code = 200) /\ (q.stmt # "view" => code = 500)
    BY DEF Code
  <1>3. Sound(q) /\ StatementOfMethod(q)
    BY TypeFacts DEF Sound
  <1>. HIDE DEF code, r
  <1>4. CASE q.stmt \in {"create_table", "view"}
    <2>1. \/ q.stmt = "create_table" /\ r.pc = "handle"
          \/ q.stmt = "view" /\ r.pc = "respond" /\ r.code = 200
      BY <1>1, <1>2, <1>4
    <2>. QED BY <1>1, <2>1, UnseenOver DEF Refines
  <1>5. CASE q.stmt \notin {"create_table", "view"}
    <2>1. r.pc = "respond" /\ r.code = 500
      BY <1>1, <1>2, <1>5
    <2>2. Deciding(q) /\ ~IsRead(q)
      BY <1>3, <1>5 DEF Deciding, StatementOfMethod, IsRead
    <2>3. r.found = {}
      BY <1>1, <1>3, <2>2 DEF Sound
    <2>4. CallOf(r) = Refused(r.method)
      BY <2>1, <2>3, SaysNo
    <2>5. CallOf(r) = Refused(q.method)
      BY <1>1, <2>4
    <2>6. M!Refuse(w)
      BY <1>1, <2>2, <2>5, Refuses
    <2>. QED BY <2>6 DEF Refines, M!Next
  <1>. QED BY <1>4, <1>5

LEMMA StepsRefine ==
  ASSUME IInv, NEW w \in Worker, step_begin(w) \/ step_commit(w)
  PROVE  Refines
  <1>1. req[w].pc \in {"write", "commit"} /\ SameMemes /\ UNCHANGED created
    BY Untouched DEF step_begin, step_commit, At, history
  <1>2. Finish(w, FALSE) \/ Goto(w, "commit") \/ Goto(w, "committing")
    BY DEF step_begin, step_commit
  <1>. QED BY <1>1, <1>2, FailsRefine, LocksRefine DEF Refines

\* The statement takes effect, and with it the call.
LEMMA StepDoneRefines ==
  ASSUME IInv, NEW w \in Worker, step_done(w)
  PROVE  Refines
  <1>. DEFINE q == req[w]
              r == Over(w, TRUE)
              code == Code(q.stmt, TRUE)
  <1>1. /\ q.pc = "committing" /\ rows' = Effect(q) /\ Finish(w, TRUE)
        /\ created' = IF q.stmt = "insert" THEN created \cup {q.id} ELSE created
    BY DEF step_done, At
  <1>2. q \in Request /\ Sound(q) /\ StatementOfMethod(q)
    BY TypeFacts DEF Sound
  <1>3. /\ req' = [req EXCEPT ![w] = r]
        /\ r.method = q.method /\ r.id = q.id /\ r.found = q.found /\ r.content = q.content
        /\ q.stmt = "create_table" => r.pc = "handle"
        /\ q.stmt # "create_table" => r.pc = "respond" /\ r.code = code
    BY <1>1, OverFields
  <1>4. (q.stmt = "insert" => code = 201) /\ (q.stmt # "insert" => code = 200)
    BY DEF Code
  <1>. HIDE DEF code, r
  <1>5. CASE q.stmt \in {"create_table", "view"}
    <2>1. \/ q.stmt = "create_table" /\ r.pc = "handle"
          \/ q.stmt = "view" /\ r.pc = "respond" /\ r.code = 200
      BY <1>3, <1>4, <1>5
    <2>2. SameMemes
      <3>1. CASE q.stmt = "create_table"
        BY <1>1, <3>1 DEF Effect, SameMemes, IInv, TypeOK
      <3>2. CASE q.stmt = "view"
        <4>1. q.views + 1 \in Nat
          BY <1>2 DEF Request
        <4>2. \A i \in DOMAIN rows : rows[i] \in Row
          BY DEF IInv, TypeOK
        <4>3. rows' = IF q.id \in DOMAIN rows THEN [rows EXCEPT ![q.id].views = q.views + 1] ELSE rows
          BY <1>1, <3>2 DEF Effect, Viewed
        <4>. QED BY <4>1, <4>2, <4>3 DEF SameMemes, Row
      <3>. QED BY <1>5, <3>1, <3>2
    <2>3. created' = created
      BY <1>1, <1>5
    <2>. QED BY <1>1, <1>3, <2>1, <2>2, <2>3, UnseenOver DEF Refines
  <1>6. DOMAIN memes = DOMAIN rows /\ \A i \in DOMAIN rows : memes[i] = rows[i].content
    BY DEF memes
  <1>7. memes' = [i \in DOMAIN rows' |-> rows'[i].content]
    BY DEF memes
  <1>8. CASE q.stmt = "insert"
    <2>1. Deciding(q) /\ ~IsRead(q) /\ q.method = "POST" /\ q.content \in Content /\ q.id \in Id \ created
      BY <1>1, <1>2, <1>8 DEF Deciding, StatementOfMethod, IsRead, Sound, Unborn
    <2>2. r.pc = "respond" /\ r.code = 201 /\ ~IsRead(r)
      BY <1>3, <1>4, <1>8, <2>1 DEF IsRead
    <2>3. CallOf(r) = Granted(r.method, {r.id})
      BY <2>2, SaysCreated
    <2>4. CallOf(r) = Granted(q.method, {q.id})
      BY <1>3, <2>3
    <2>5. M!Answer(w, TRUE, {q.id})
      BY <1>3, <2>1, <2>4, AnswersYes
    <2>6. call[w].phase = "pending" /\ call[w].op = "POST" /\ call[w].content = q.content
      BY <2>1, PendingCall
    <2>7. memes' = [j \in DOMAIN memes \cup {q.id} |-> IF j = q.id THEN call[w].content ELSE memes[j]]
      <3>1. rows' = [j \in DOMAIN rows \cup {q.id} |->
                       IF j = q.id THEN [content |-> q.content, views |-> 0] ELSE rows[j]]
        BY <1>1, <1>8 DEF Effect, Inserted, Put
      <3>. QED BY <1>6, <1>7, <2>6, <3>1
    <2>8. created' = created \cup {q.id}
      BY <1>1, <1>8
    <2>9. M!Create(w)
      BY <2>1, <2>5, <2>6, <2>7, <2>8 DEF M!Create, M!Is
    <2>. QED BY <2>9 DEF Refines, M!Next
  <1>9. CASE q.stmt \in {"update", "delete"}
    <2>1. /\ Deciding(q) /\ ~IsRead(q) /\ q.method # "POST" /\ UNCHANGED created
          /\ q.stmt = "update" => q.method = "PUT" /\ q.content \in Content
          /\ q.stmt = "delete" => q.method = "DELETE"
      BY <1>1, <1>2, <1>9 DEF Deciding, StatementOfMethod, IsRead
    <2>2. r.pc = "respond" /\ r.code = 200 /\ ~IsRead(r)
      BY <1>3, <1>4, <1>9, <2>1 DEF IsRead
    <2>3. r.found = {}
      BY <1>2, <1>3, <2>1 DEF Sound
    <2>4. CallOf(r) = Granted(r.method, {})
      BY <2>2, <2>3, SaysDone
    <2>5. CallOf(r) = Granted(q.method, {})
      BY <1>3, <2>4
    <2>6. M!Answer(w, TRUE, {})
      BY <1>3, <2>1, <2>5, AnswersYes
    <2>7. /\ call[w].phase = "pending" /\ call[w].op = q.method /\ call[w].content = q.content
          /\ call[w].id = q.id
      BY <2>1, PendingCall
    <2>8. CASE q.stmt = "update"
      <3>1. rows' = IF q.id \in DOMAIN rows THEN [rows EXCEPT ![q.id].content = q.content] ELSE rows
        BY <1>1, <2>8 DEF Effect, Updated
      <3>2. \A i \in DOMAIN rows : rows[i] \in Row
        BY DEF IInv, TypeOK
      <3>3. /\ DOMAIN rows' = DOMAIN rows
            /\ \A i \in DOMAIN rows : rows'[i].content = IF i = q.id THEN q.content ELSE rows[i].content
        BY <3>1, <3>2 DEF Row
      <3>4. memes' = [i \in DOMAIN memes |-> IF i = call[w].id THEN call[w].content ELSE memes[i]]
        BY <1>6, <1>7, <2>7, <3>3
      <3>5. M!Update(w)
        BY <2>1, <2>6, <2>7, <2>8, <3>4 DEF M!Update, M!Is
      <3>. QED BY <3>5 DEF Refines, M!Next
    <2>9. CASE q.stmt = "delete"
      <3>1. rows' = [i \in DOMAIN rows \ {q.id} |-> rows[i]]
        BY <1>1, <2>9 DEF Effect, Deleted
      <3>2. memes' = [i \in DOMAIN memes \ {call[w].id} |-> memes[i]]
        BY <1>6, <1>7, <2>7, <3>1
      <3>3. M!Delete(w)
        BY <2>1, <2>6, <2>7, <2>9, <3>2 DEF M!Delete, M!Is
      <3>. QED BY <3>3 DEF Refines, M!Next
    <2>. QED BY <1>9, <2>8, <2>9
  <1>. QED BY <1>1, <1>2, <1>5, <1>8, <1>9 DEF StatementOfMethod

\* The client gets its answer.
LEMMA RespondRefines ==
  ASSUME IInv, NEW w \in Worker, respond(w)
  PROVE  M!Return(w)
  <1>1. req[w].pc = "respond" /\ req' = [req EXCEPT ![w] = Idle] /\ UNCHANGED <<store, created>>
    BY DEF respond, At, Set
  <1>2. memes' = memes
    BY <1>1, Untouched, MemesSame
  <1>3. CallOf(Idle) = M!Idle
    BY CallIs DEF Idle
  <1>4. call' = [call EXCEPT ![w] = M!Idle]
    BY <1>1, <1>3, CallChanges
  <1>5. call[w].phase = "answered"
    <2>1. req[w].pc # "idle" /\ ~Deciding(req[w])
      BY <1>1 DEF Deciding
    <2>2. call[w] = CallOf(req[w])
      BY DEF call
    <2>. QED BY <2>1, <2>2, CallIs DEF M!Answered
  <1>. QED BY <1>1, <1>2, <1>4, <1>5 DEF M!Return, M!Is

LEMMA CrashRefines == IInv /\ Crash => M!Restart
  <1> SUFFICES ASSUME IInv, Crash PROVE M!Restart
    OBVIOUS
  <1>1. req' = [w \in Worker |-> Idle] /\ UNCHANGED <<store, created>>
    BY DEF Crash, history
  <1>2. CallOf(Idle) = M!Idle
    BY CallIs DEF Idle
  <1>3. call' = [w \in Worker |-> M!Idle]
    BY <1>1, <1>2 DEF call
  <1>4. memes' = memes
    BY <1>1, Untouched, MemesSame
  <1>. QED BY <1>1, <1>3, <1>4 DEF M!Restart

LEMMA InitRefines == Init => M!Init
  <1> SUFFICES ASSUME Init PROVE M!Init
    OBVIOUS
  <1>1. CallOf(Idle) = M!Idle
    BY CallIs DEF Idle
  <1>2. call = [w \in Worker |-> M!Idle]
    BY <1>1 DEF Init, call
  <1>3. memes = <<>>
    BY DEF Init, memes
  <1>. QED BY <1>2, <1>3 DEF Init, M!Init

LEMMA NextRefines == IInv /\ [Next]_vars => [M!Next]_(M!vars)
  <1> SUFFICES ASSUME IInv, [Next]_vars PROVE Refines
    BY DEF Refines
  <1>1. CASE UNCHANGED vars
    BY <1>1 DEF vars, store, history, memes, call, M!vars, Refines
  <1>2. ASSUME NEW w \in Worker, handle_request(w) PROVE Refines
    BY <1>2, BeginRefines DEF Refines, M!Next
  <1>3. ASSUME NEW w \in Worker, Proceed(w) PROVE Refines
    <2>1. CASE create_table(w) \/ finalize(w)
      BY <2>1, TableRefines, FinalizeRefines DEF Refines
    <2>2. CASE respond(w)
      BY <2>2, RespondRefines DEF Refines, M!Next
    <2>. QED BY <1>3, <2>1, <2>2, CreateMemeRefines, HandleRefines, SelectRefines, ReadersRefine,
             StepsRefine, StepDoneRefines DEF Proceed
  <1>4. CASE Crash
    BY <1>4, CrashRefines DEF Refines, M!Next
  <1>. QED BY <1>1, <1>2, <1>3, <1>4 DEF Next, Quiet

\* meme_handler.cc over sql_lib.cc is an atomic store to its clients, for any
\* number of threads: every successful call took effect once between its begin
\* and its answer, every failed or interrupted one did not show.
THEOREM MemesImplemented == Spec => ImplementsMemes
  BY InitRefines, NextRefines, Inductive, PTL DEF Spec, ImplementsMemes, M!Spec
=============================================================================
