---------------------------- MODULE ReverseProxy ----------------------------
(***************************************************************************)
(* Reverse_proxy_handler (reverse_proxy_handler.cc) on the pool of threads *)
(* that serve all requests.  The handler blocks its thread in every call   *)
(* it makes on the socket to the origin server, and the origin decides     *)
(* when those calls return: there is no timeout.                           *)
(*                                                                         *)
(* A reply of an origin is sent in pieces: the status line, the headers    *)
(* (up to the empty line), then units of the body.  The origin may stop,   *)
(* close or reset the connection after any of them.                        *)
(***************************************************************************)
EXTENDS Routes, FiniteSets

CONSTANTS
    Client,       \* clients: each has one request at a time
    PoolSize,     \* thread_count_
    Statements,   \* the statements of the proxy's block, in order
    Local,        \* the locations of the handlers that answer at once
    Uri,          \* the URIs asked for
    BodySize,     \* bounds the units of an origin's body
    AnyPort       \* what an uninitialised port_num can be

ASSUME PoolAssumption   == PoolSize \in Nat \ {0} /\ BodySize \in Nat
ASSUME ConfigAssumption ==
    /\ Len(Statements) \in Nat /\ DOMAIN Statements = 1..Len(Statements)
    /\ \A i \in DOMAIN Statements :
         /\ Statements[i].key \in {"location", "root", "port"}
         /\ Statements[i].key = "location" => Statements[i].value \in Seq(STRING)
    /\ Uri \subseteq Seq(STRING) /\ Local \subseteq Seq(STRING)

VARIABLES
    queue,   \* clients whose request was read and waits for a thread
    req,     \* per client: its request and the handler that serves it
    origin   \* per client: the origin's side of the handler's connection

vars == <<queue, req, origin>>

-----------------------------------------------------------------------------
(* The constructor *)

Keys(key) == {i \in DOMAIN Statements : Statements[i].key = key}
LastOf(S) == CHOOSE i \in S : \A j \in S : j <= i
FirstOf(S) == CHOOSE i \in S : \A j \in S : i <= j

\* The location in force at statement i.
LocationAt(i) ==
    LET L == {j \in Keys("location") : j < i}
    IN IF L = {} THEN <<>> ELSE Statements[LastOf(L)].value

\* insert() keeps the first root of a location.
location2proxy ==
    [l \in {LocationAt(i) : i \in Keys("root")} |->
        Statements[FirstOf({i \in Keys("root") : LocationAt(i) = l})].value]

\* port_num is a plain int without an initialiser.
PortNum == IF Keys("port") = {} THEN AnyPort
           ELSE {Statements[LastOf(Keys("port"))].value}

ProxyLocations == {Statements[i].value : i \in Keys("location")}
Route(uri)     == LongestMatch(uri, ProxyLocations \cup Local)

\* "/" and what follows it up to the next "/".
FirstSegment(uri) ==
    LET ends == {i \in 2..Len(uri) : uri[i] = "/"}
    IN IF ends = {} THEN uri ELSE SubSeq(uri, 1, FirstOf(ends) - 1)

-----------------------------------------------------------------------------
Replies == [status : {"200", "301", "404", "invalid"},  \* the origin's status line
            type   : {"none", "plain", "parameters"}]   \* Content-Type: with a ";" or not

NoOrigin == [sent |-> 0, end |-> "open", reply |-> [status |-> "200", type |-> "none"]]

NoHandler == [redirect |-> FALSE, mime_type |-> "empty", port_num |-> 0, host |-> "none",
              status_code |-> "unread", taken |-> 0]

Idle == [pc |-> "out", uri |-> <<>>, handler |-> NoHandler, resp |-> "none", body |-> 0]

At(c, pc) == req[c].pc = pc

InService == {c \in Client : req[c].pc \notin {"out", "queued", "done", "undefined"}}

Init ==
    /\ queue = <<>>
    /\ req = [c \in Client |-> Idle]
    /\ origin = [c \in Client |-> NoOrigin]

\* A request has been read from c's socket: it waits for a pool thread.
Ask(c, u) ==
    /\ At(c, "out")
    /\ req' = [req EXCEPT ![c].pc = "queued", ![c].uri = u]
    /\ queue' = Append(queue, c)
    /\ UNCHANGED origin

\* A thread takes the oldest request, and the router creates its handler.
Dispatch ==
    /\ queue # <<>> /\ Cardinality(InService) < PoolSize
    /\ queue' = Tail(queue)
    /\ LET c == Head(queue)
       IN IF Route(req[c].uri) \in ProxyLocations
          THEN \E p \in PortNum :
                 req' = [req EXCEPT ![c].pc = "construct",
                                    ![c].handler = [NoHandler EXCEPT !.port_num = p]]
          ELSE req' = [req EXCEPT ![c].pc = "local"]
    /\ UNCHANGED origin

Answer(c, resp, body) ==
    /\ req' = [req EXCEPT ![c].pc = "done", ![c].resp = resp, ![c].body = body]
    /\ UNCHANGED <<queue, origin>>

\* A boost exception; session::handle_success answers 500.
Throw(c) == Answer(c, "500", 0)

AnswerLocally(c) == At(c, "local") /\ Answer(c, "local", 0)

\* find() of the first segment; its result is dereferenced whatever it is.  Of the
\* URI "/" nothing is left before that, and the character in front of it is read.
constructGetRequest(c) ==
    /\ At(c, "construct")
    /\ LET l == FirstSegment(req[c].uri)
       IN req' = IF req[c].uri # <<"/">> /\ l \in DOMAIN location2proxy
                 THEN [req EXCEPT ![c].pc = "connect", ![c].handler.host = location2proxy[l]]
                 ELSE [req EXCEPT ![c].pc = "undefined"]
    /\ UNCHANGED <<queue, origin>>

-----------------------------------------------------------------------------
(* sendGetRequest *)

\* resolve() and connect() succeed or throw.
connect(c) ==
    /\ At(c, "connect")
    /\ \/ \E r \in Replies :
            /\ origin' = [origin EXCEPT ![c] = [NoOrigin EXCEPT !.reply = r]]
            /\ req' = [req EXCEPT ![c].pc = "write"]
            /\ UNCHANGED queue
       \/ Throw(c)

write(c) ==
    /\ At(c, "write")
    /\ \/ req' = [req EXCEPT ![c].pc = "status"] /\ UNCHANGED <<queue, origin>>
       \/ origin[c].end # "open" /\ Throw(c)

Received(c) == [req[c].handler EXCEPT !.taken = origin[c].sent]

\* read_until(socket, response, "\r\n") and the parsing of the status line.  A
\* status line that does not parse leaves status_code 0, or unset.
read_status(c) ==
    /\ At(c, "status")
    /\ \/ /\ origin[c].sent >= 1
          /\ \E s \in IF origin[c].reply.status = "invalid" THEN {"0", "301"}
                      ELSE {origin[c].reply.status} :
               req' = [req EXCEPT ![c].pc = "headers",
                                  ![c].handler = [Received(c) EXCEPT !.status_code = s]]
          /\ UNCHANGED <<queue, origin>>
       \/ origin[c].sent < 1 /\ origin[c].end = "eof" /\ Throw(c)
       \/ origin[c].end = "reset" /\ Throw(c)

\* What substr makes of the Content-Type line: without a ";" the end is npos
\* and the carriage return of the line is kept.  After a status line that did
\* not parse, the stream has failed and no header line is read.
MimeType(reply) ==
    CASE reply.status = "invalid" \/ reply.type = "none" -> "empty"
      [] reply.type = "plain"      -> "type\r"
      [] reply.type = "parameters" -> "type"

\* read_until(socket, response, "\r\n\r\n") and the loop over the headers.
read_headers(c) ==
    /\ At(c, "headers")
    /\ \/ /\ origin[c].sent >= 2
          /\ req' = [req EXCEPT ![c].pc = "body",
                       ![c].handler = [Received(c) EXCEPT !.mime_type = MimeType(origin[c].reply)]]
          /\ UNCHANGED <<queue, origin>>
       \/ origin[c].sent < 2 /\ origin[c].end = "eof" /\ Throw(c)
       \/ origin[c].end = "reset" /\ Throw(c)

\* BUG (mutant): any error ends the body.
read_bodyAnyError(c) ==
    /\ At(c, "body")
    /\ \/ /\ origin[c].sent > req[c].handler.taken
          /\ req' = [req EXCEPT ![c].handler = Received(c)]
          /\ UNCHANGED <<queue, origin>>
       \/ /\ origin[c].end # "open"
          /\ req' = [req EXCEPT ![c].pc = "respond",
                       ![c].handler.redirect = req[c].handler.status_code = "301"]
          /\ UNCHANGED <<queue, origin>>

\* BUG (mutant): every reply that is not a success is treated as a redirection.
read_bodyErrorsToo(c) ==
    /\ At(c, "body")
    /\ \/ /\ origin[c].sent > req[c].handler.taken
          /\ req' = [req EXCEPT ![c].handler = Received(c)]
          /\ UNCHANGED <<queue, origin>>
       \/ /\ origin[c].sent = req[c].handler.taken /\ origin[c].end = "eof"
          /\ req' = [req EXCEPT ![c].pc = "respond",
                       ![c].handler.redirect = req[c].handler.status_code # "200"]
          /\ UNCHANGED <<queue, origin>>
       \/ origin[c].end = "reset" /\ Throw(c)

\* BUG (mutant): the loop goes on when nothing was read.
read_bodyForEver(c) ==
    /\ At(c, "body")
    /\ \/ /\ req' = [req EXCEPT ![c].handler = Received(c)]
          /\ UNCHANGED <<queue, origin>>
       \/ origin[c].end = "reset" /\ Throw(c)

\* The loop that reads until an error, which must be the end of the stream.
read_body(c) ==
    /\ At(c, "body")
    /\ \/ /\ origin[c].sent > req[c].handler.taken
          /\ req' = [req EXCEPT ![c].handler = Received(c)]
          /\ UNCHANGED <<queue, origin>>
       \/ /\ origin[c].sent = req[c].handler.taken /\ origin[c].end = "eof"
          /\ req' = [req EXCEPT ![c].pc = "respond",
                       ![c].handler.redirect = req[c].handler.status_code = "301"]
          /\ UNCHANGED <<queue, origin>>
       \/ origin[c].end = "reset" /\ Throw(c)

\* What is left of the reply when its headers have been read: the body, or, after
\* a status line that did not parse, all but the beginning of that line.
Left(c) == IF origin[c].reply.status = "invalid" THEN req[c].handler.taken
           ELSE req[c].handler.taken - 2

\* The end of handle_request: 200 with what is left of the origin's reply, or, if
\* it redirects, with the client's own request.
handle_request(c) ==
    /\ At(c, "respond")
    /\ IF req[c].handler.redirect
       THEN Answer(c, "echo", 0)
       ELSE Answer(c, "origin", Left(c))

\* The session has written the response; the handler and its socket are gone.
Leave(c) ==
    /\ At(c, "done")
    /\ req' = [req EXCEPT ![c] = Idle] /\ origin' = [origin EXCEPT ![c] = NoOrigin]
    /\ UNCHANGED queue

Proceed(c) ==
    \/ AnswerLocally(c) \/ constructGetRequest(c) \/ connect(c) \/ write(c)
    \/ read_status(c) \/ read_headers(c) \/ read_body(c) \/ handle_request(c) \/ Leave(c)

-----------------------------------------------------------------------------
(* The origin server *)

Connected(c) == req[c].pc \in {"write", "status", "headers", "body"} /\ origin[c].end = "open"

Send(c) ==
    /\ Connected(c) /\ origin[c].sent < BodySize + 2
    /\ origin' = [origin EXCEPT ![c].sent = @ + 1]
    /\ UNCHANGED <<queue, req>>

End(c, how) ==
    /\ Connected(c)
    /\ origin' = [origin EXCEPT ![c].end = how]
    /\ UNCHANGED <<queue, req>>

EndAny(c) == \E how \in {"eof", "reset"} : End(c, how)

Next ==
    \/ Dispatch
    \/ \E c \in Client : \/ \E u \in Uri : Ask(c, u)
                         \/ Proceed(c) \/ Send(c) \/ EndAny(c)

Spec == Init /\ [][Next]_vars

\* Threads run, and an origin asked for "Connection: close" ends its reply.
Fairness ==
    /\ WF_vars(Dispatch)
    /\ \A c \in Client : WF_vars(Proceed(c)) /\ WF_vars(EndAny(c))

FairSpec == Spec /\ Fairness

-----------------------------------------------------------------------------
\* A client gets an origin's body with 200 only when the origin ended its reply
\* in order, and then it gets every unit the origin sent, however the reply was
\* split over read_until and read: a reset at any moment becomes a 500.  If the
\* status line did not parse, the line and the headers are in front of the body.
BodyIsWhatOriginSent ==
    \A c \in Client : At(c, "done") /\ req[c].resp = "origin" =>
        /\ origin[c].end = "eof"
        /\ origin[c].sent = IF origin[c].reply.status = "invalid" THEN req[c].body
                            ELSE req[c].body + 2

\* A client gets its own request back only if the origin answered this request
\* with a redirection (or with no status line that parses), and a redirection
\* is never passed on as a page.
EchoOnlyIfRedirected ==
    \A c \in Client : At(c, "done") =>
        /\ req[c].resp = "echo" => origin[c].reply.status \in {"301", "invalid"}
        /\ req[c].resp = "origin" => origin[c].reply.status # "301"

\* Requests of all clients share the pool's threads, and a thread is blocked as
\* long as its origin is: still every request is answered, those that need no
\* origin too, if every origin ends its reply sooner or later.
EveryRequestAnswered == \A c \in Client : At(c, "queued") ~> At(c, "done")

\* The comment in constructGetRequest: the proxy is guaranteed to exist.
ProxyExists == \A c \in Client : ~At(c, "undefined")
=============================================================================
