------------------------------ MODULE Exchange ------------------------------
(***************************************************************************)
(* One request and its answer, from the text the client sends to the text  *)
(* it reads: session::handle_read with the request parser (Request), the   *)
(* handlers that need no file and no other server (echo, health, default,  *)
(* status, and create_meme with MemeBody), and the response (Response).    *)
(*                                                                         *)
(* The session reads once, and gets as much of the request as has arrived. *)
(*                                                                         *)
(* raw_request_ is a block of the heap as long as the request, without a   *)
(* terminating NUL, and std::string(req->get_raw_request()) reads up to    *)
(* the first NUL.  What follows the block is whatever the heap holds when  *)
(* it is read: other threads write there.                                  *)
(***************************************************************************)
EXTENDS Request, MemeBody, Response

CONSTANTS
    Requests,  \* what a client may send: [path, params, headers, body, form]
    Location,  \* the locations registered: handler -> path
    Headers,   \* the default headers that may be registered: name -> value
    Heap       \* what may follow a block of the heap, up to a NUL

\* A colon and a space, and an empty line, mean something to the parser.
NoColon(s)     == \A i \in 1..(Len(s) - 1) : SubSeq(s, i, i + 1) # <<Colon, SP>>
NoEmptyLine(s) == \A i \in 1..(Len(s) - 3) : SubSeq(s, i, i + 3) # CRLF \o CRLF
Free(s, C)     == \A i \in DOMAIN s : s[i] \notin C

\* The request line, the headers and the parameters are one line each, with
\* names and header values that are not empty.  What the properties say of the
\* parser they say of requests without a colon and a space in a header's value or
\* in the body, and without an empty line in the body.  The body of a form is
\* what the browser makes of two captions.
ASSUME RequestAssumption == \A r \in Requests :
    /\ r.path \in Seq(Nat) /\ r.path # <<>> /\ OneLine(r.path)
    /\ r.params \in Seq(Seq(Nat) \X Seq(Nat))
    /\ \A i \in 1..Len(r.params) :
         /\ r.params[i][1] # <<>> /\ r.params[i][1][1] # Ampersand
         /\ Free(r.params[i][1], {CR, LF, Question, Equals})
         /\ Free(r.params[i][2], {CR, LF, Question})
    /\ r.headers \in Seq(Seq(Nat) \X Seq(Nat))
    /\ \A i \in 1..Len(r.headers) :
         /\ r.headers[i][1] # <<>> /\ OneLine(r.headers[i][1])
         /\ r.headers[i][2] # <<>> /\ OneLine(r.headers[i][2]) /\ NoColon(r.headers[i][2])
    /\ r.body \in Seq(Nat) /\ NoColon(r.body) /\ NoEmptyLine(CRLF \o r.body)
    /\ \/ r.form = <<>>
       \/ r.form \in Seq(Byte) \X Seq(Byte) /\ r.body = Form(r.form[1], r.form[2])

\* A default header has no line end in it.
ASSUME HeaderAssumption == \A h \in Headers :
    /\ IsFiniteSet(DOMAIN h) /\ DOMAIN h \subseteq Nat \ {LF}
    /\ h \in [DOMAIN h -> Seq(Nat \ {LF})]

ASSUME HeapAssumption == Heap \subseteq Seq(Nat)

VARIABLES
    sent,       \* the request the client sends
    headers_,   \* the router's default headers
    data_,      \* the bytes the session has read
    pc,         \* "read", "parsed", "slept", "handled", "written"
    made,       \* history: the code, the body and the headers the handler gave
    resp,       \* the response
    params      \* what create_meme stores: template and captions

vars == <<sent, headers_, data_, pc, made, resp, params>>

ContentType == 300
ThreadSleep == 301
Plain == <<302>>
Html  == <<303>>
Json  == <<304>>
Say(n) == <<400 + n>>  \* the n-th fixed text of the program

-----------------------------------------------------------------------------
(* The client *)

\* What follows the path: the parameters, if there are any.
QueryOf(r) ==
    LET text[i \in 0..Len(r.params)] ==
          IF i = 0 THEN <<>>
          ELSE text[i - 1] \o <<IF i = 1 THEN Question ELSE Ampersand>>
                 \o r.params[i][1] \o <<Equals>> \o r.params[i][2]
    IN text[Len(r.params)]

\* The request as it is on the wire.
Line(r) == <<METHOD, SP>> \o r.path \o QueryOf(r) \o <<SP, VERSION>> \o CRLF
Text(r) ==
    Line(r) \o FlattenSeq([i \in DOMAIN r.headers |->
                  r.headers[i][1] \o <<Colon, SP>> \o r.headers[i][2] \o CRLF])
            \o CRLF \o r.body

-----------------------------------------------------------------------------
(* The session *)

NoResponse == response(0, <<>>)

Init ==
    /\ sent \in Requests /\ headers_ \in Headers
    /\ data_ = <<>> /\ pc = "read"
    /\ made = NoResponse /\ resp = NoResponse /\ params = <<>>

\* Respond with r.  Its text is generated and written at once...
Write(r) == made' = r /\ resp' = r /\ pc' = "written"
\* ...or after the router has applied the default headers.
Route(r) == made' = r /\ resp' = r /\ pc' = "handled"

WithType(code, body, type) == set_header(response(code, body), ContentType, type)

\* handle_read without an error: the request is made of the n bytes read.
handle_success(n) ==
    /\ pc = "read" /\ pc' = "parsed"
    /\ data_' = SubSeq(Text(sent), 1, n)
    /\ UNCHANGED <<sent, headers_, made, resp, params>>

\* The read fails, because the client has gone or has reset the connection.
handle_error ==
    /\ pc = "read"
    /\ Write(WithType(500, Say(1), Plain))
    /\ UNCHANGED <<sent, headers_, data_, params>>

\* std::string(req->get_raw_request()): up to the first NUL, which is in the
\* request or somewhere beyond it.
CString(beyond) ==
    LET s == data_ \o beyond \o <<NUL>>
        end == CHOOSE i \in DOMAIN s : s[i] = NUL /\ \A j \in 1..(i - 1) : s[j] # NUL
    IN SubSeq(s, 1, end - 1)

handle_invalid_request ==
    /\ pc = "parsed" /\ ~is_valid(data_)
    /\ \E b \in Heap : Write(WithType(400, CString(b), Plain))
    /\ UNCHANGED <<sent, headers_, data_, params>>

-----------------------------------------------------------------------------
(* The handlers *)

\* The router's choice (Router, PrefixMatch), for locations that do not nest.
HandlerOf(uri) ==
    LET found == {h \in DOMAIN Location : IsPrefix(Location[h], uri)}
    IN IF found = {} THEN "default" ELSE CHOOSE h \in found : TRUE

Routed(h) == is_valid(data_) /\ HandlerOf(get_uri(data_)) = h

asks_for_sleep == get_header(data_, <<ThreadSleep>>) # <<>>

\* generate_echo_response sleeps for five seconds if the client asks for it...
sleep_for ==
    /\ pc = "parsed" /\ Routed("echo") /\ asks_for_sleep
    /\ pc' = "slept"
    /\ UNCHANGED <<sent, headers_, data_, made, resp, params>>

generate_echo_response ==
    /\ \/ pc = "parsed" /\ Routed("echo") /\ ~asks_for_sleep
       \/ pc = "slept"
    /\ \E b \in Heap : Route(WithType(200, CString(b), Plain))
    /\ UNCHANGED <<sent, headers_, data_, params>>

health_handle_request ==
    /\ pc = "parsed" /\ Routed("health")
    /\ \/ get_uri(data_) = Location["health"] /\ Route(WithType(200, Say(2), Plain))
       \/ get_uri(data_) # Location["health"] /\ Route(WithType(400, Say(3), Plain))
    /\ UNCHANGED <<sent, headers_, data_, params>>

generate_404_response ==
    /\ pc = "parsed" /\ Routed("default")
    /\ Route(WithType(404, Say(4) \o get_uri(data_) \o Say(5), Plain))
    /\ UNCHANGED <<sent, headers_, data_, params>>

\* The page's content is in Router.
status_handle_request ==
    /\ pc = "parsed" /\ Routed("status")
    /\ Route(set_body(WithType(200, Say(10), Html), Say(6)))
    /\ UNCHANGED <<sent, headers_, data_, params>>

\* create_meme: the storage (MemeStore) succeeds or fails.
create_meme ==
    LET body == get_body(data_)
    IN /\ pc = "parsed" /\ Routed("meme") /\ ~Throws(body)
       /\ \/ /\ ~body_check(body)
             /\ Route(WithType(400, Say(7), Plain))
             /\ UNCHANGED params
          \/ /\ body_check(body)
             /\ \/ /\ Route(WithType(201, Say(8), Json))
                   /\ params' = Params(body)
                \/ Route(WithType(500, Say(9), Plain)) /\ UNCHANGED params
       /\ UNCHANGED <<sent, headers_, data_>>

\* UriDecode throws, and handle_success catches: handle_error.
catch ==
    /\ pc = "parsed" /\ Routed("meme") /\ Throws(get_body(data_))
    /\ Write(WithType(500, Say(1), Plain))
    /\ UNCHANGED <<sent, headers_, data_, params>>

\* The response with the default headers, set in the order the unordered_map
\* gives them.
WithDefaults(r, order) ==
    LET after[i \in 0..Len(order)] ==
          IF i = 0 THEN r ELSE set_header(after[i - 1], order[i], headers_[order[i]])
    IN after[Len(order)]

\* route_request returns, and handle_valid_request writes the response.
apply_default_headers ==
    /\ pc = "handled" /\ pc' = "written"
    /\ \E order \in SetToSeqs(DOMAIN headers_) : resp' = WithDefaults(resp, order)
    /\ UNCHANGED <<sent, headers_, data_, made, params>>

Done == pc = "written" /\ UNCHANGED vars

Next == \/ \E n \in 1..Len(Text(sent)) : handle_success(n)
        \/ handle_error \/ handle_invalid_request
        \/ sleep_for \/ generate_echo_response
        \/ health_handle_request \/ generate_404_response \/ status_handle_request
        \/ create_meme \/ catch \/ apply_default_headers \/ Done

Spec == Init /\ [][Next]_vars

-----------------------------------------------------------------------------
(* Properties *)

\* The value that comes first for a name in a list of pairs.
First(pairs, name) ==
    LET found == {i \in DOMAIN pairs : pairs[i][1] = name}
    IN IF found = {} THEN <<>> ELSE pairs[Lowest(found)][2]

HeaderNames == {sent.headers[i][1] : i \in DOMAIN sent.headers} \cup {<<ThreadSleep>>}
ParamNames  == {sent.params[i][1] : i \in DOMAIN sent.params}

Parsed   == pc = "parsed"
Complete == Parsed /\ data_ = Text(sent)

\* A request that was read as a whole is valid, and its headers and a body of one
\* line are what the client sent.
ParsedIsSent ==
    Complete => /\ is_valid(data_)
                /\ \A n \in HeaderNames : get_header(data_, n) = First(sent.headers, n)
                /\ OneLine(sent.body) => get_body(data_) = sent.body

\* The session parses what one read returned.  If that is only a part of the
\* request, it is valid as soon as it holds the request line, and then nothing
\* the parser says is wrong: a header is missing or has the value that was sent,
\* and the body is a beginning of the body that was sent.
PartAgreesWithWhole ==
    Parsed => /\ is_valid(data_) <=> Len(data_) >= Len(Line(sent))
              /\ \A n \in HeaderNames : get_header(data_, n) \in {<<>>, First(sent.headers, n)}
              /\ IsPrefix(get_body(data_), sent.body)

\* As soon as the request line is there, the URI that is routed is what precedes
\* the last "?".  If that path is short enough for the text of the URI to survive
\* the assignment, a parameter whose value is one character has its value, the
\* first one that was given for its name; of a longer path's parameters the code
\* promises nothing.
QueryRoundTrip ==
    Parsed /\ is_valid(data_) =>
        /\ sent.params # <<>> => get_uri(data_) = sent.path
        /\ (Len(sent.path) <= SmallString /\ \A i \in DOMAIN sent.params : Len(sent.params[i][2]) = 1) =>
              \A n \in ParamNames : get_query_string_param(data_, n) = {First(sent.params, n)}

Legal(caption) == \A i \in DOMAIN caption : caption[i] \in Value

\* Captions of legal characters come through the browser's encoding, the request
\* parser, UriDecode and the regular expression of body_check.  A meme is only
\* created with the top caption that was typed and a beginning of the bottom one;
\* with all of it, and never refused, if the request was read as a whole.
CaptionsKept ==
    (sent.form # <<>> /\ Legal(sent.form[1]) /\ Legal(sent.form[2])) =>
        /\ params # <<>> => /\ params[2] = sent.form[1]
                            /\ IsPrefix(params[3], sent.form[2])
                            /\ data_ = Text(sent) => params[3] = sent.form[2]
        /\ (pc = "written" /\ data_ = Text(sent) /\ Routed("meme") /\ <<>> \notin Range(sent.form)) =>
              resp.status_code_ # 400

\* UriDecode undoes UriEncode: no byte is left unencoded that the decoder gives a
\* meaning to, and signed characters do no harm.
DecodeEncode ==
    sent.form # <<>> => \A i \in {1, 2} :
        UriDecode(UriEncode(sent.form[i])) = sent.form[i]

\* The router was asked, and the handler did not throw.
ByHandler == is_valid(data_) /\ made.response_body_ # Say(1)

\* generate_response writes "a well-formed HTTP response based on internal
\* attributes": in whatever order the headers come, and whatever the body holds
\* (line ends and empty lines of the request among it), the client reads the
\* status and the body that were given, and each header once: in a handler's
\* response with the server's default value if there is one.
ReadIsSet ==
    pc = "written" => \A text \in generate_response(resp) :
        LET got == Read(text)
            default == IF ByHandler THEN headers_ ELSE <<>>
        IN /\ got.status_code_ = made.status_code_
           /\ got.response_body_ = made.response_body_
           /\ DOMAIN got.response_headers_ = {ContentType} \cup DOMAIN default
           /\ \A n \in DOMAIN got.response_headers_ :
                 got.response_headers_[n] =
                     IF n \in DOMAIN default THEN default[n] ELSE made.response_headers_[n]
=============================================================================
