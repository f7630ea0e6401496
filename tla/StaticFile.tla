----------------------------- MODULE StaticFile -----------------------------
(***************************************************************************)
(* static_file_handler (static_file_handler.cc): the directory path_ that  *)
(* a handler's block gives, and one request for a file in it, while other  *)
(* programs replace and remove files (external).                           *)
(*                                                                         *)
(* URIs, paths and file names are sequences of characters: "/", ".", "-"   *)
(* and word characters, or words that nothing looks into.                  *)
(***************************************************************************)
EXTENDS Naturals, Sequences

CONSTANTS
    Char,        \* the characters
    Cases,       \* handlers and requests: [root_path_, statements, uri, fs]
    mime_types,  \* extension -> MIME type
    Version,     \* what a file may hold
    Absent, Directory,  \* what a name may be instead
    MaxChanges   \* bound on the changes to the file system

ASSUME CharAssumption == "/" \in Char
ASSUME CaseAssumption == \A c \in Cases :
    /\ c.uri \in Seq(Char) /\ c.uri # <<>> /\ c.uri[1] = "/"
    /\ c.root_path_ \in Seq(Char) /\ c.statements \in Seq(Seq(Seq(Char)))
    /\ c.fs \in [DOMAIN c.fs -> Version \cup {Absent, Directory}]
ASSUME VersionAssumption == {Absent, Directory} \cap Version = {} /\ Absent # Directory

VARIABLES
    fs,       \* what is in the file system now: place -> content
    changes,
    root_path_, statements,  \* the server's root, and the handler's block
    method, uri,  \* the request
    t,        \* the ifstream and the strings it was opened with, or Closed
    resp,     \* the response, or NoResponse
    seen      \* history: place -> what was there during the request

request == <<root_path_, statements, method, uri>>
vars == <<fs, changes, root_path_, statements, method, uri, t, resp, seen>>

-----------------------------------------------------------------------------
(* The constructor *)

RootWord == <<"root">>

\* The statements of two tokens that begin with "root".
Roots == {i \in DOMAIN statements : Len(statements[i]) = 2 /\ statements[i][1] = RootWord}

\* The last one counts.
get_static_file_path ==
    IF Roots = {} THEN <<>> ELSE statements[CHOOSE i \in Roots : \A j \in Roots : j <= i][2]

path_ == root_path_ \o get_static_file_path

-----------------------------------------------------------------------------
(* The file system's reading of a path (external) *)

IsAbsolute(path) == path # <<>> /\ path[1] = "/"

\* A path is cut at its slashes: the names so far, and the one that goes on.
Uncut == [names |-> <<>>, name |-> <<>>]
Names(cut) == IF cut.name = <<>> THEN cut.names ELSE Append(cut.names, cut.name)
Cut(cut, char) == IF char = "/" THEN [names |-> Names(cut), name |-> <<>>]
                  ELSE [cut EXCEPT !.name = Append(@, char)]

\* The names between the slashes.
Components(path) ==
    LET cut[i \in 0..Len(path)] == IF i = 0 THEN Uncut ELSE Cut(cut[i - 1], path[i])
    IN Names(cut[Len(path)])

\* The place a path leads to.
Place(path) == <<IsAbsolute(path), Components(path)>>

-----------------------------------------------------------------------------
(* The handler *)

NonWord == {"/", ".", "-"}

Closed == [place |-> <<>>, ext |-> <<>>, holds |-> Absent]

\* A response has the text of its code for a body, or what a file held.
NoResponse == [code |-> 0]
Text(code) == [code |-> code, type |-> "text/plain", place |-> <<>>, body |-> Absent]

IsWord(s) == s # <<>> /\ \A i \in DOMAIN s : s[i] \notin NonWord

\* BUG (mutant): the name is all that follows the first slash, "^\\/(.+)(\\.\\w+)$".
parse_file_infoWhole(u) ==
    {<<SubSeq(u, 2, d - 1), SubSeq(u, d, Len(u))>> :
        d \in {e \in 3..Len(u) : u[e] = "." /\ IsWord(SubSeq(u, e + 1, Len(u)))}}

\* "\\/(\\w+)(\\.\\w+)$": the name and the extension, if there is a match.
parse_file_info(u) ==
    {<<SubSeq(u, p[1] + 1, p[2] - 1), SubSeq(u, p[2], Len(u))>> :
        p \in {q \in (DOMAIN u) \X (DOMAIN u) :
            /\ u[q[1]] = "/" /\ u[q[2]] = "."
            /\ IsWord(SubSeq(u, q[1] + 1, q[2] - 1))
            /\ IsWord(SubSeq(u, q[2] + 1, Len(u)))}}

\* With its catch-all.
get_mime_type(extension) ==
    IF extension \in DOMAIN mime_types THEN mime_types[extension] ELSE "application/octet-stream"

\* What std::ifstream opens: nothing, if the name is absent.
Open(info) ==
    LET place == Place(path_ \o <<"/">> \o info[1] \o info[2])
    IN IF place \in DOMAIN fs
       THEN [place |-> place, ext |-> info[2], holds |-> fs[place]] ELSE Closed

\* BUG (mutant): a file whose type is not known is not served.
serve_fileKnownOnly ==
    /\ resp = NoResponse /\ method = "GET" /\ t = Closed
    /\ LET opened == {o \in {Open(i) : i \in parse_file_info(uri)} :
                        o.holds # Absent /\ o.ext \in DOMAIN mime_types}
       IN \/ opened = {} /\ resp' = Text(404) /\ UNCHANGED t
          \/ \E o \in opened : t' = o /\ UNCHANGED resp
    /\ UNCHANGED <<fs, changes, request, seen>>

\* serve_file, up to the open: 404 for a URI that does not match, and for a
\* file that cannot be opened.  A directory can.
serve_file ==
    /\ resp = NoResponse /\ method = "GET" /\ t = Closed
    /\ LET opened == {o \in {Open(i) : i \in parse_file_info(uri)} : o.holds # Absent}
       IN \/ opened = {} /\ resp' = Text(404) /\ UNCHANGED t
          \/ \E o \in opened : t' = o /\ UNCHANGED resp
    /\ UNCHANGED <<fs, changes, request, seen>>

\* serve_file, from "oss << t.rdbuf()": the open file, whatever has become of
\* its name.  Of a directory nothing can be read, and the stream keeps silent.
serve_file_read ==
    /\ resp = NoResponse /\ t # Closed
    /\ resp' = [code |-> 200, type |-> get_mime_type(t.ext), place |-> t.place, body |-> t.holds]
    /\ UNCHANGED <<fs, changes, request, t, seen>>

invalid_method ==
    /\ resp = NoResponse /\ method # "GET"
    /\ resp' = Text(405)
    /\ UNCHANGED <<fs, changes, request, t, seen>>

-----------------------------------------------------------------------------
(* The request, and the file system *)

Init ==
    /\ \E c \in Cases : /\ root_path_ = c.root_path_ /\ statements = c.statements
                         /\ uri = c.uri /\ fs = c.fs
    /\ changes = 0
    /\ method \in {"GET", "POST"}
    /\ t = Closed /\ resp = NoResponse
    /\ seen = [f \in DOMAIN fs |-> {fs[f]}]

\* A name is given to another file (rename) or taken away (unlink): a file that
\* is open keeps what it holds.
Replace(f, v) ==
    /\ resp = NoResponse /\ changes < MaxChanges /\ v # fs[f]
    /\ changes' = changes + 1
    /\ fs' = [fs EXCEPT ![f] = v]
    /\ seen' = [seen EXCEPT ![f] = @ \cup {v}]
    /\ UNCHANGED <<request, t, resp>>

Answered == resp # NoResponse /\ UNCHANGED vars

Next == \/ serve_file \/ serve_file_read \/ invalid_method
        \/ \E f \in DOMAIN fs, v \in Version \cup {Absent, Directory} : Replace(f, v)
        \/ Answered

Spec == Init /\ [][Next]_vars

-----------------------------------------------------------------------------
(* Properties *)

\* What follows the last slash of the URI.
LastSegment ==
    LET slash == CHOOSE i \in DOMAIN uri :
                    uri[i] = "/" /\ \A j \in (i + 1)..Len(uri) : uri[j] # "/"
    IN SubSeq(uri, slash + 1, Len(uri))

\* The file with the URI's last name in the directory that the handler was given.
InPath == <<IsAbsolute(path_ \o <<"/">>), Components(path_) \o <<LastSegment>> >>

\* Whatever the URI says (directories that are there or not, "..", a location that
\* is itself the beginning of a name) and whatever is replaced meanwhile, nothing
\* above path_ and nothing in a directory below it is ever served: what a client
\* gets with a 200 is what the file directly in path_ that has the URI's last name
\* held at some time during the request.  That the URI's directories are passed
\* over, and that a directory with the name of a file is answered 200 with an
\* empty body, is what the code does, not what it should do.
ServedFromPath ==
    resp.code = 200 => resp.place = InPath /\ resp.body \in seen[InPath]

\* The root after which no other is given, and whether a slash is between it
\* and the server's root.
HandlerRoot ==
    LET given == {i \in Roots : \A j \in Roots : j <= i}
    IN IF given = {} THEN <<>> ELSE statements[CHOOSE i \in given : TRUE][2]

Joined ==
    IF HandlerRoot = <<>> THEN root_path_ # <<>>
    ELSE root_path_ = <<>> \/ root_path_[Len(root_path_)] = "/" \/ IsAbsolute(HandlerRoot)

\* The file with the URI's last name in the handler's root below the server's.
Meant == <<IsAbsolute(root_path_) \/ (root_path_ = <<>> /\ IsAbsolute(HandlerRoot)),
           Components(root_path_) \o Components(HandlerRoot) \o <<LastSegment>> >>

\* If one of the two roots has the slash between them, a file with a plain name and
\* extension that is all the time in the last root that the handler is given, below
\* the server's, is not reported missing, whatever its type and whatever else
\* changes.
PresentIsServed ==
    (resp.code = 404 /\ Joined /\ Meant \in DOMAIN fs /\ Absent \notin seen[Meant]) =>
        ~ \E d \in DOMAIN LastSegment :
             /\ LastSegment[d] = "." /\ IsWord(SubSeq(LastSegment, 1, d - 1))
             /\ IsWord(SubSeq(LastSegment, d + 1, Len(LastSegment)))
=============================================================================
