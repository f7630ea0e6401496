----------------------------- MODULE MemeStore -----------------------------
(***************************************************************************)
(* The meme handler (meme_handler.cc) and its database (sql_lib.cc).       *)
(*                                                                         *)
(* Each request gets its own handler, and with it its own connection to    *)
(* meme.db.  No busy handler is set, so a statement that meets another     *)
(* connection's lock fails at once with SQLITE_BUSY; a statement on a      *)
(* missing table fails as well.  SQLite (external) is its rollback-journal *)
(* locking: any number of readers (SHARED), one writer (RESERVED) beside   *)
(* them, and a commit that needs the readers gone (EXCLUSIVE).             *)
(*                                                                         *)
(* The process may be killed at any time and started again: memory and     *)
(* locks are gone, the file stays.                                         *)
(***************************************************************************)
EXTENDS Naturals, FiniteSets

CONSTANTS
    Worker,      \* threads that run a handler
    Nobody,      \* owner of a lock that is free
    Id,          \* the UUIDs random_generator can return
    Ghost,       \* a UUID that no meme has
    Malformed,   \* what check_id refuses
    Content,     \* template and captions of a meme
    MaxRequests, \* bound on the requests handled
    MaxCrashes   \* bound on the times the process is killed

ASSUME NameAssumption  == Nobody \notin Worker /\ {Ghost, Malformed} \cap Id = {}
ASSUME BoundAssumption == MaxRequests \in Nat /\ MaxCrashes \in Nat

VARIABLES
    table,      \* meme_table has been created
    rows,       \* meme_table: id -> [content, views]
    shared, reserved, exclusive,  \* SQLite's locks on the file
    req,        \* per thread: the request its handler is in
    begun, crashes,
    created,    \* history: ids whose insert was committed
    acked,      \* history: ids a client got with a 201
    doomed,     \* history: ids a DELETE was begun for
    gone,       \* history: ids whose DELETE was answered with 200
    latest,     \* history: id -> content of the last POST or PUT committed
    viewed      \* history: id -> GETs answered with the meme

store   == <<table, rows>>
locks   == <<shared, reserved, exclusive>>
history == <<created, acked, doomed, gone, latest, viewed>>
vars    == <<store, locks, req, begun, crashes, history>>

-----------------------------------------------------------------------------
(* Requests and statements *)

\* Bodies and queries: what body_check refuses, and what UriDecode throws on.
NoContent == "none"
Body == Content \cup {NoContent, "undecodable"}

Method == {"POST", "PUT", "DELETE", "GET", "LIST", "SEARCH", "OTHER"}

Row == [content : Content, views : Nat]

Request == [pc      : {"idle", "open", "schema", "handle", "reading", "selected",
                       "write", "commit", "committing", "respond"},
            method  : Method,
            id      : Id \cup {Ghost, Malformed},
            content : Body,
            stmt    : {"none", "create_table", "insert", "update", "view", "delete"},
            views   : Nat,
            found   : SUBSET Id,
            code    : Nat]

Idle == [pc |-> "idle", method |-> "OTHER", id |-> Ghost, content |-> NoContent,
         stmt |-> "none", views |-> 0, found |-> {}, code |-> 0]

At(w, pc) == req[w].pc = pc
Set(w, r) == req' = [req EXCEPT ![w] = r]
Goto(w, pc) == Set(w, [req[w] EXCEPT !.pc = pc])
Execute(w, stmt) == Set(w, [req[w] EXCEPT !.pc = "write", !.stmt = stmt])
Respond(w, code) == Set(w, [req[w] EXCEPT !.pc = "respond", !.code = code])

Init ==
    /\ table = FALSE /\ rows = <<>>
    /\ shared = {} /\ reserved = Nobody /\ exclusive = FALSE
    /\ req = [w \in Worker |-> Idle]
    /\ begun = 0 /\ crashes = 0
    /\ created = {} /\ acked = {} /\ doomed = {} /\ gone = {}
    /\ latest = <<>> /\ viewed = [i \in Id |-> 0]

\* Another connection's lock, or a missing table, fails a statement of w.
ReadFails  == exclusive \/ ~table
WriteFails == exclusive \/ ~table \/ reserved # Nobody

BeginWrite(w) == reserved' = w /\ shared' = shared \cup {w} /\ UNCHANGED exclusive
Unlock(w) == /\ shared' = shared \ {w}
             /\ reserved'  = IF reserved = w THEN Nobody ELSE reserved
             /\ exclusive' = (exclusive /\ reserved # w)

\* f with f[i] = r.
Put(f, i, r) == [j \in DOMAIN f \cup {i} |-> IF j = i THEN r ELSE f[j]]

-----------------------------------------------------------------------------
(* The handler *)

\* The bound: an id is left for each meme that is being created.
SpareIds ==
    Cardinality(created)
      + Cardinality({v \in Worker : req[v].method = "POST" /\ req[v].id \notin created})
    < Cardinality(Id)

\* A request arrives and the constructor opens a connection.  A client knows an
\* id only once its meme is in the table.
handle_request(w) ==
    /\ At(w, "idle") /\ begun < MaxRequests /\ begun' = begun + 1
    /\ \E m \in Method, i \in created \cup {Ghost, Malformed}, c \in Body :
          /\ m \notin {"PUT", "DELETE", "GET"} => i = Ghost
          /\ m \notin {"POST", "PUT", "SEARCH"} => c = NoContent
          /\ m = "POST" => SpareIds
          /\ Set(w, [Idle EXCEPT !.pc = "open", !.method = m, !.id = i, !.content = c])
          /\ doomed' = IF m = "DELETE" THEN doomed \cup {i} ELSE doomed
    /\ UNCHANGED <<store, locks, crashes, created, acked, gone, latest, viewed>>

\* create_table reads the schema, and writes only if the table is missing; its
\* result is ignored.
create_table(w) ==
    /\ At(w, "open")
    /\ \/ /\ table /\ ~exclusive
          /\ shared' = shared \cup {w} /\ Goto(w, "schema")
          /\ UNCHANGED <<reserved, exclusive>>
       \/ /\ exclusive \/ (~table /\ reserved # Nobody)
          /\ Goto(w, "handle") /\ UNCHANGED locks
       \/ /\ ~table /\ ~exclusive /\ reserved = Nobody
          /\ BeginWrite(w)
          /\ Set(w, [req[w] EXCEPT !.pc = "commit", !.stmt = "create_table"])
    /\ UNCHANGED <<store, begun, crashes, history>>

\* body_check is false, or throws (and the session answers 500).
body_check_fails(w) ==
    \/ req[w].content = NoContent     /\ Respond(w, 400)
    \/ req[w].content = "undecodable" /\ Respond(w, 500)

\* The id is a UUID.
check_id(w) == req[w].id # Malformed

\* The id of a new meme is a UUID not used before.
generate_new_meme(w) ==
    \E i \in Id \ (created \cup {req[v].id : v \in Worker}) :
       Set(w, [req[w] EXCEPT !.pc = "write", !.stmt = "insert", !.id = i])

create_meme(w) ==
    /\ At(w, "handle") /\ req[w].method = "POST"
    /\ \/ req[w].content \in Content /\ generate_new_meme(w)
       \/ body_check_fails(w)
    /\ UNCHANGED <<store, locks, begun, crashes, history>>

update_meme(w) ==
    /\ At(w, "handle") /\ req[w].method = "PUT"
    /\ \/ req[w].content \in Content /\ check_id(w)  /\ Execute(w, "update")
       \/ req[w].content \in Content /\ ~check_id(w) /\ Respond(w, 400)
       \/ body_check_fails(w)
    /\ UNCHANGED <<store, locks, begun, crashes, history>>

delete_meme(w) ==
    /\ At(w, "handle") /\ req[w].method = "DELETE"
    /\ \/ check_id(w)  /\ Execute(w, "delete")
       \/ ~check_id(w) /\ Respond(w, 400)
    /\ UNCHANGED <<store, locks, begun, crashes, history>>

\* These touch no table.
redirect_request(w) ==
    /\ At(w, "handle") /\ req[w].method = "OTHER" /\ Respond(w, 303)
    /\ UNCHANGED <<store, locks, begun, crashes, history>>

invalid_method(w) ==
    /\ At(w, "handle") /\ req[w].method = "OTHER" /\ Respond(w, 405)
    /\ UNCHANGED <<store, locks, begun, crashes, history>>

\* search_record: the rows with a caption that holds the query.
search_record(query) == {i \in DOMAIN rows : rows[i].content = query}

\* What the SELECT of the request returns.
Hits(r) == CASE r.method = "LIST"   -> DOMAIN rows
             [] r.method = "GET"    -> DOMAIN rows \cap {r.id}
             [] r.method = "SEARCH" -> search_record(r.content)

\* select_record (and search_record): an error is an empty result.
select_record(w) ==
    /\ At(w, "handle") /\ req[w].method \in {"GET", "LIST", "SEARCH"}
    /\ req[w].content # "undecodable"
    /\ \/ /\ ReadFails
          /\ Set(w, [req[w] EXCEPT !.pc = "selected", !.found = {}])
          /\ UNCHANGED shared
       \/ /\ ~ReadFails
          /\ shared' = shared \cup {w}
          /\ Set(w, [req[w] EXCEPT !.pc = "reading", !.found = Hits(req[w]),
                       !.content = IF req[w].id \in Hits(req[w])
                                   THEN rows[req[w].id].content ELSE NoContent,
                       !.views   = IF req[w].id \in Hits(req[w])
                                   THEN rows[req[w].id].views ELSE 0])
    /\ UNCHANGED <<store, reserved, exclusive, begun, crashes, history>>

\* The SELECT, or the reading of the schema, is over: SHARED is given back.
finalize(w) ==
    /\ At(w, "reading") \/ At(w, "schema")
    /\ shared' = shared \ {w}
    /\ Goto(w, IF At(w, "schema") THEN "handle" ELSE "selected")
    /\ UNCHANGED <<store, reserved, exclusive, begun, crashes, history>>

\* meme_list and meme_search answer with what was found...
meme_list(w) ==
    /\ At(w, "selected") /\ req[w].method = "LIST" /\ Respond(w, 200)
    /\ UNCHANGED <<store, locks, begun, crashes, history>>

\* ...and meme_search throws before it if the query cannot be decoded.
meme_search(w) ==
    /\ req[w].method = "SEARCH"
    /\ \/ At(w, "selected") /\ Respond(w, 200)
       \/ At(w, "handle") /\ req[w].content = "undecodable" /\ Respond(w, 500)
    /\ UNCHANGED <<store, locks, begun, crashes, history>>

\* get_meme_by_id writes times_viewed + 1, from the value it has read.  No meme
\* in the table is "corrupted": body_check admits no empty caption or template.
get_meme_by_id(w) ==
    /\ At(w, "selected") /\ req[w].method = "GET"
    /\ \/ req[w].found # {} /\ Execute(w, "view")
       \/ req[w].found = {} /\ Respond(w, 404)
    /\ UNCHANGED <<store, locks, begun, crashes, history>>

-----------------------------------------------------------------------------
(* insert_record, update_record and delete_record: sqlite3_step *)

\* What the handler does with the result of its statement.
Code(stmt, ok) == IF ~ok /\ stmt # "view" THEN 500 ELSE IF stmt = "insert" THEN 201 ELSE 200

\* BUG (mutant): the handler does not look at the result of the statement.
Finish_trusts(w, ok) ==
    IF req[w].stmt = "create_table" THEN Goto(w, "handle")
    ELSE Respond(w, Code(req[w].stmt, TRUE))

Finish(w, ok) ==
    IF req[w].stmt = "create_table" THEN Goto(w, "handle")
    ELSE Respond(w, Code(req[w].stmt, ok))

step_begin(w) ==
    /\ At(w, "write")
    /\ \/ WriteFails  /\ Finish(w, FALSE) /\ UNCHANGED locks
       \/ ~WriteFails /\ BeginWrite(w) /\ Goto(w, "commit")
    /\ UNCHANGED <<store, begun, crashes, history>>

\* The commit fails, and is rolled back, while another connection is reading.
step_commit(w) ==
    /\ At(w, "commit")
    /\ \/ shared # {w} /\ Unlock(w) /\ Finish(w, FALSE)
       \/ shared = {w} /\ exclusive' = TRUE /\ UNCHANGED <<shared, reserved>> /\ Goto(w, "committing")
    /\ UNCHANGED <<store, begun, crashes, history>>

\* insert_record: a new meme has been viewed 0 times.
Inserted(r) == Put(rows, r.id, [content |-> r.content, views |-> 0])

\* BUG (mutant): the values are bound to the wrong columns.
Updated_shifted(r) ==
    IF r.id \in DOMAIN rows THEN [rows EXCEPT ![r.id].views = r.content] ELSE rows

\* update_record of a PUT: the captions, WHERE id may match no row.
Updated(r) ==
    IF r.id \in DOMAIN rows THEN [rows EXCEPT ![r.id].content = r.content] ELSE rows

\* BUG (mutant): times_viewed is stored with INSERT OR REPLACE.
Viewed_upserts(r) == Put(rows, r.id, [content |-> r.content, views |-> r.views + 1])

\* BUG (mutant): the count is written together with the captions read before it.
Viewed_rewrites(r) ==
    IF r.id \in DOMAIN rows
    THEN [rows EXCEPT ![r.id] = [content |-> r.content, views |-> r.views + 1]] ELSE rows

\* update_record of a GET: the count it has read plus one; the row may be gone.
Viewed(r) == IF r.id \in DOMAIN rows THEN [rows EXCEPT ![r.id].views = r.views + 1] ELSE rows

\* BUG (mutant): the WHERE clause is lost.
Deleted_everything(r) == <<>>

\* delete_record: WHERE id may match no row.
Deleted(r) == [i \in DOMAIN rows \ {r.id} |-> rows[i]]

\* The rows after the statement.
Effect(r) == CASE r.stmt = "insert" -> Inserted(r)
               [] r.stmt = "update" -> Updated(r)
               [] r.stmt = "view"   -> Viewed(r)
               [] r.stmt = "delete" -> Deleted(r)
               [] r.stmt = "create_table" -> rows

\* The journal is deleted: the statement has taken effect.
step_done(w) ==
    LET r == req[w]
    IN  /\ At(w, "committing")
        /\ table' = TRUE
        /\ rows' = Effect(r)
        /\ Unlock(w)
        /\ Finish(w, TRUE)
        /\ created' = IF r.stmt = "insert" THEN created \cup {r.id} ELSE created
        /\ latest'  = IF r.stmt \in {"insert", "update"} /\ r.id # Ghost
                      THEN Put(latest, r.id, r.content) ELSE latest
        /\ UNCHANGED <<begun, crashes, acked, doomed, gone, viewed>>

\* The response leaves the handler.
respond(w) ==
    LET r == req[w]
    IN  /\ At(w, "respond")
        /\ acked'  = IF r.code = 201 THEN acked \cup {r.id} ELSE acked
        /\ gone'   = IF r.method = "DELETE" /\ r.code = 200 THEN gone \cup {r.id} ELSE gone
        /\ viewed' = IF r.method = "GET" /\ r.code = 200
                     THEN [viewed EXCEPT ![r.id] = @ + 1] ELSE viewed
        /\ Set(w, Idle)
        /\ UNCHANGED <<store, locks, begun, crashes, created, doomed, latest>>

\* The process ends (signal_handler, or std::terminate) and is started again; a
\* commit that was under way is rolled back from the journal.
Crash ==
    /\ crashes < MaxCrashes /\ crashes' = crashes + 1
    /\ req' = [w \in Worker |-> Idle]
    /\ shared' = {} /\ reserved' = Nobody /\ exclusive' = FALSE
    /\ UNCHANGED <<store, begun, history>>

-----------------------------------------------------------------------------
(* The specification *)

Proceed(w) ==
    \/ create_table(w) \/ create_meme(w) \/ update_meme(w) \/ delete_meme(w)
    \/ redirect_request(w) \/ invalid_method(w) \/ select_record(w) \/ finalize(w)
    \/ meme_list(w) \/ meme_search(w) \/ get_meme_by_id(w)
    \/ step_begin(w) \/ step_commit(w) \/ step_done(w) \/ respond(w)

Quiet == (\A w \in Worker : At(w, "idle")) /\ begun = MaxRequests /\ UNCHANGED vars

Next == (\E w \in Worker : handle_request(w) \/ Proceed(w)) \/ Crash \/ Quiet

Spec == Init /\ [][Next]_vars

-----------------------------------------------------------------------------
(* Properties *)

\* The table's rows have their columns, and the locks their owners.
TypeOK ==
    /\ table \in BOOLEAN /\ exclusive \in BOOLEAN
    /\ DOMAIN rows \subseteq Id /\ \A i \in DOMAIN rows : rows[i] \in Row
    /\ shared \subseteq Worker /\ reserved \in Worker \cup {Nobody}
    /\ req \in [Worker -> Request]
    /\ created \cup acked \subseteq Id
    /\ doomed \cup gone \subseteq Id \cup {Ghost, Malformed}

\* A meme whose creation was answered with 201 stays, through restarts and
\* whatever other requests do, until somebody asks to delete it.
AcknowledgedMemesStay == acked \ doomed \subseteq DOMAIN rows

\* A meme whose deletion was answered with 200 does not come back: not even by
\* the view count of a GET that had read it before.
DeletedMemesStayDeleted == gone \cap DOMAIN rows = {}

\* The captions in the table are those of the last POST or PUT that took effect:
\* a GET that writes the view count back does not undo a PUT made meanwhile.
CaptionsAreTheLatest == \A i \in DOMAIN rows : rows[i].content = latest[i]

\* "Times viewed" is the number of times the meme was viewed.
ViewsCounted ==
    (\A w \in Worker : At(w, "idle")) => \A i \in DOMAIN rows : rows[i].views = viewed[i]

-----------------------------------------------------------------------------
(* The atomic store that this one implements *)

\* A call is pending until its SELECT is made or its statement is over; the
\* statement that creates the table and the one that counts a view do not show.
Deciding(r) == \/ r.pc \in {"open", "schema", "handle"}
               \/ r.pc \in {"write", "commit", "committing"} /\ r.stmt # "view"

IsRead(r) == r.method \in {"GET", "LIST", "SEARCH"}

CallOf(r) ==
    CASE r.pc = "idle" -> [phase |-> "idle"]
      [] Deciding(r)   -> [phase |-> "pending", op |-> r.method,
                           id |-> IF r.method = "POST" THEN Ghost ELSE r.id, content |-> r.content]
      [] OTHER         -> [phase |-> "answered", op |-> r.method,
                           ok |-> IF IsRead(r) THEN r.code # 500 ELSE r.code \in {200, 201},
                           answer |-> IF r.code = 201 THEN {r.id} ELSE r.found]

memes == [i \in DOMAIN rows |-> rows[i].content]
call  == [w \in Worker |-> CallOf(req[w])]

M == INSTANCE Memes WITH
       NoMeme    <- {Ghost, Malformed},
       NoContent <- {NoContent, "undecodable"},
       used      <- created

\* Whatever the locks, the failing statements and the crashes do, a client sees
\* Memes: a call that is answered with success took effect exactly once between
\* its begin and its answer, one that fails or is cut off by a crash before its
\* commit had none, ids are never given twice, and a list or a search is what
\* the table held at one moment or is empty.
ImplementsMemes == M!Spec
=============================================================================
