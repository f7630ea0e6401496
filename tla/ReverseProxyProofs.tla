------------------------- MODULE ReverseProxyProofs -------------------------
(* What a client of the reverse proxy gets, for every configuration of the  *)
(* proxy, any number of clients and threads, and replies of any length.     *)
EXTENDS ReverseProxy, Lemmas

\* What a request, its handler and the origin's side of it can hold.
Pcs    == {"out", "queued", "local", "construct", "undefined", "connect", "write",
           "status", "headers", "body", "respond", "done"}
Ports  == PortNum \cup {0}
Hosts  == {location2proxy[l] : l \in DOMAIN location2proxy} \cup {"none"}
Codes  == {"unread", "0", "200", "301", "404"}
Mimes  == {"empty", "type\r", "type"}
Resps  == {"none", "500", "local", "echo", "origin"}
Ends   == {"open", "eof", "reset"}
String == Seq(STRING)

Handler == [redirect : BOOLEAN, mime_type : Mimes, port_num : Ports, host : Hosts,
            status_code : Codes, taken : Nat]
AnyRequest == [pc : Pcs, uri : String, handler : Handler, resp : Resps, body : Int]
Origin == [sent : Nat, end : Ends, reply : Replies]

Types ==
    /\ queue \in Seq(Client)
    /\ req \in [Client -> AnyRequest]
    /\ origin \in [Client -> Origin]

\* The status code the handler keeps is that of the status line, except that
\* one that does not parse leaves 0 or what was there.
StatusRead(code, reply) ==
    \/ code = reply.status
    \/ reply.status = "invalid" /\ code \in {"0", "301"}

\* What the handler of request r has taken of what origin o sent.
ReplyTaken(r, o) ==
    /\ r.pc \in {"headers", "body", "respond"} => StatusRead(r.handler.status_code, o.reply)
    /\ r.pc = "respond" =>
         /\ o.end = "eof" /\ o.sent = r.handler.taken
         /\ r.handler.redirect = (r.handler.status_code = "301")

\* What the response of r tells of the origin's reply.
ReplyGiven(r, o) ==
    r.pc = "done" =>
        /\ r.resp = "origin" =>
             /\ o.end = "eof" /\ o.reply.status # "301"
             /\ o.sent = IF o.reply.status = "invalid" THEN r.body ELSE r.body + 2
        /\ r.resp = "echo" => o.reply.status \in {"301", "invalid"}

Sound(r, o) == ReplyTaken(r, o) /\ ReplyGiven(r, o)

IInv == Types /\ \A c \in Client : Sound(req[c], origin[c])

-----------------------------------------------------------------------------
(* The steps.  Each changes the request, or the origin's side, of one client *)

\* A step that leaves every other client alone keeps the invariant if the
\* client it is about has a sound request afterwards.
LEMMA RequestStep ==
  ASSUME IInv, NEW c \in Client, NEW r \in AnyRequest,
         req' = [req EXCEPT ![c] = r], origin' = origin, queue' \in Seq(Client),
         Sound(r, origin[c])
  PROVE  IInv'
  <1>1. Types'
    BY DEF IInv, Types
  <1>2. ASSUME NEW d \in Client PROVE Sound(req[d], origin[d])'
    <2>1. CASE d = c
      <3>1. req'[d] = r /\ origin'[d] = origin[c]
        BY <2>1 DEF IInv, Types
      <3>. QED BY <3>1 DEF Sound, ReplyTaken, ReplyGiven
    <2>2. CASE d # c
      <3>1. req'[d] = req[d] /\ origin'[d] = origin[d] /\ Sound(req[d], origin[d])
        BY <2>2 DEF IInv, Types
      <3>. QED BY <3>1 DEF Sound, ReplyTaken, ReplyGiven
    <2>. QED BY <2>1, <2>2
  <1>. QED BY <1>1, <1>2 DEF IInv

LEMMA OriginStep ==
  ASSUME IInv, NEW c \in Client, NEW r \in AnyRequest, NEW o \in Origin,
         req' = [req EXCEPT ![c] = r], origin' = [origin EXCEPT ![c] = o], queue' = queue,
         Sound(r, o)
  PROVE  IInv'
  <1>1. Types'
    BY DEF IInv, Types
  <1>2. ASSUME NEW d \in Client PROVE Sound(req[d], origin[d])'
    <2>1. CASE d = c
      <3>1. req'[d] = r /\ origin'[d] = o
        BY <2>1 DEF IInv, Types
      <3>. QED BY <3>1 DEF Sound, ReplyTaken, ReplyGiven
    <2>2. CASE d # c
      <3>1. req'[d] = req[d] /\ origin'[d] = origin[d] /\ Sound(req[d], origin[d])
        BY <2>2 DEF IInv, Types
      <3>. QED BY <3>1 DEF Sound, ReplyTaken, ReplyGiven
    <2>. QED BY <2>1, <2>2
  <1>. QED BY <1>1, <1>2 DEF IInv

\* What the invariant says of one client.
LEMMA ClientFacts ==
  ASSUME IInv, NEW c \in Client
  PROVE  /\ req[c] \in AnyRequest /\ origin[c] \in Origin /\ req[c].handler \in Handler
         /\ queue \in Seq(Client) /\ Sound(req[c], origin[c])
  BY DEF IInv, Types, AnyRequest

\* A response that tells nothing of an origin.
LEMMA Answered ==
  ASSUME IInv, NEW c \in Client, NEW resp \in {"500", "local"}, Answer(c, resp, 0)
  PROVE  IInv'
  <1>. DEFINE q == req[c]
              r == [q EXCEPT !.pc = "done", !.resp = resp, !.body = 0]
  <1>1. q \in AnyRequest
    BY ClientFacts
  <1>2. r \in AnyRequest /\ r.pc = "done" /\ r.resp = resp
    <2>1. "done" \in Pcs /\ resp \in Resps /\ 0 \in Int
      BY DEF Pcs, Resps
    <2>. QED BY <1>1, <2>1 DEF AnyRequest
  <1>3. req' = [req EXCEPT ![c] = r] /\ origin' = origin /\ queue' = queue
    BY DEF Answer
  <1>. HIDE DEF q, r
  <1>4. Sound(r, origin[c])
    BY <1>2 DEF Sound, ReplyTaken, ReplyGiven
  <1>. QED BY <1>2, <1>3, <1>4, RequestStep, ClientFacts

LEMMA AskStep ==
  ASSUME IInv, NEW c \in Client, NEW u \in Uri, Ask(c, u)
  PROVE  IInv'
  <1>. DEFINE q == req[c]
              r == [q EXCEPT !.pc = "queued", !.uri = u]
  <1>1. q \in AnyRequest
    BY ClientFacts
  <1>2. r \in AnyRequest /\ r.pc = "queued"
    <2>1. "queued" \in Pcs /\ u \in String
      BY ConfigAssumption DEF Pcs, String
    <2>. QED BY <1>1, <2>1 DEF AnyRequest
  <1>3. req' = [req EXCEPT ![c] = r] /\ origin' = origin /\ queue' \in Seq(Client)
    <2>1. queue' \in Seq(Client)
      BY ClientFacts DEF Ask
    <2>. QED BY <2>1 DEF Ask
  <1>. HIDE DEF q, r
  <1>4. Sound(r, origin[c])
    BY <1>2 DEF Sound, ReplyTaken, ReplyGiven
  <1>. QED BY <1>2, <1>3, <1>4, RequestStep

LEMMA HandlerTypes ==
  ASSUME NEW p \in PortNum
  PROVE  [NoHandler EXCEPT !.port_num = p] \in Handler
  <1>1. /\ p \in Ports /\ 0 \in Ports /\ "none" \in Hosts /\ "unread" \in Codes
        /\ "empty" \in Mimes /\ FALSE \in BOOLEAN /\ 0 \in Nat
    BY DEF Ports, Hosts, Codes, Mimes
  <1>. QED BY <1>1 DEF Handler, NoHandler

LEMMA DispatchStep ==
  ASSUME IInv, Dispatch
  PROVE  IInv'
  <1>. DEFINE c == Head(queue)
              q == req[c]
  <1>1. queue \in Seq(Client) /\ queue # <<>>
    BY DEF IInv, Types, Dispatch
  <1>2. c \in Client /\ queue' \in Seq(Client) /\ origin' = origin
    BY <1>1 DEF Dispatch
  <1>. HIDE DEF c
  <1>3. q \in AnyRequest
    BY <1>2, ClientFacts
  <1>4. CASE Route(q.uri) \in ProxyLocations
    <2>1. PICK p \in PortNum :
            req' = [req EXCEPT ![c].pc = "construct",
                               ![c].handler = [NoHandler EXCEPT !.port_num = p]]
      BY <1>4 DEF Dispatch, c
    <2>. DEFINE h == [NoHandler EXCEPT !.port_num = p]
                r == [q EXCEPT !.pc = "construct", !.handler = h]
    <2>2. h \in Handler /\ "construct" \in Pcs
      BY HandlerTypes DEF Pcs
    <2>3. req' = [req EXCEPT ![c] = r]
      BY <2>1
    <2>. HIDE DEF h, q
    <2>4. r \in AnyRequest /\ r.pc = "construct" /\ r.uri = q.uri
      BY <1>3, <2>2 DEF AnyRequest
    <2>. HIDE DEF r
    <2>5. Sound(r, origin[c])
      BY <1>4, <2>4 DEF Sound, ReplyTaken, ReplyGiven
    <2>. QED BY <1>2, <2>3, <2>4, <2>5, RequestStep
  <1>5. CASE Route(q.uri) \notin ProxyLocations
    <2>. DEFINE r == [q EXCEPT !.pc = "local"]
    <2>1. req' = [req EXCEPT ![c] = r]
      BY <1>5 DEF Dispatch, c
    <2>. HIDE DEF q
    <2>2. r \in AnyRequest /\ r.pc = "local"
      <3>1. "local" \in Pcs
        BY DEF Pcs
      <3>. QED BY <1>3, <3>1 DEF AnyRequest
    <2>. HIDE DEF r
    <2>3. Sound(r, origin[c])
      BY <2>2 DEF Sound, ReplyTaken, ReplyGiven
    <2>. QED BY <1>2, <2>1, <2>2, <2>3, RequestStep
  <1>. QED BY <1>4, <1>5

LEMMA ConstructStep ==
  ASSUME IInv, NEW c \in Client, constructGetRequest(c)
  PROVE  IInv'
  <1>. DEFINE q == req[c]
              l == FirstSegment(q.uri)
  <1>1. /\ q \in AnyRequest /\ q.handler \in Handler /\ q.pc = "construct"
        /\ origin' = origin /\ queue' \in Seq(Client)
    BY ClientFacts DEF constructGetRequest, At, Sound
  <1>2. CASE q.uri # <<"/">> /\ l \in DOMAIN location2proxy
    <2>. DEFINE h == [q.handler EXCEPT !.host = location2proxy[l]]
                r == [q EXCEPT !.pc = "connect", !.handler = h]
    <2>1. req' = [req EXCEPT ![c] = r]
      BY <1>2 DEF constructGetRequest
    <2>. HIDE DEF q
    <2>2. h \in Handler /\ h.host = location2proxy[l]
      <3>1. location2proxy[l] \in Hosts
        BY <1>2 DEF Hosts
      <3>. HIDE DEF l
      <3>. QED BY <1>1, <3>1 DEF Handler
    <2>. HIDE DEF h
    <2>3. r \in AnyRequest /\ r.pc = "connect" /\ r.uri = q.uri /\ r.handler = h
      <3>1. "connect" \in Pcs
        BY DEF Pcs
      <3>. QED BY <1>1, <2>2, <3>1 DEF AnyRequest
    <2>. HIDE DEF r
    <2>4. Sound(r, origin[c])
      BY <2>2, <2>3 DEF Sound, ReplyTaken, ReplyGiven
    <2>. QED BY <1>1, <2>1, <2>3, <2>4, RequestStep
  <1>3. CASE ~(q.uri # <<"/">> /\ l \in DOMAIN location2proxy)
    <2>. DEFINE r == [q EXCEPT !.pc = "undefined"]
    <2>1. req' = [req EXCEPT ![c] = r]
      BY <1>3 DEF constructGetRequest
    <2>. HIDE DEF q
    <2>2. r \in AnyRequest /\ r.pc = "undefined"
      <3>1. "undefined" \in Pcs
        BY DEF Pcs
      <3>. QED BY <1>1, <3>1 DEF AnyRequest
    <2>. HIDE DEF r
    <2>3. Sound(r, origin[c])
      BY <2>2 DEF Sound, ReplyTaken, ReplyGiven
    <2>. QED BY <1>1, <2>1, <2>2, <2>3, RequestStep
  <1>. QED BY <1>2, <1>3

-----------------------------------------------------------------------------
(* sendGetRequest *)

LEMMA NoOriginType == NoOrigin \in Origin
  <1>1. [status |-> "200", type |-> "none"] \in Replies /\ "open" \in Ends /\ 0 \in Nat
    BY DEF Replies, Ends
  <1>. QED BY <1>1 DEF NoOrigin, Origin

LEMMA ConnectStep ==
  ASSUME IInv, NEW c \in Client, connect(c)
  PROVE  IInv'
  <1>. DEFINE q == req[c]
  <1>1. q \in AnyRequest /\ q.pc = "connect"
    BY ClientFacts DEF connect, At, Sound
  <1>2. CASE Throw(c)
    BY <1>2, Answered DEF Throw
  <1>3. CASE ~Throw(c)
    <2>1. PICK y \in Replies :
            /\ origin' = [origin EXCEPT ![c] = [NoOrigin EXCEPT !.reply = y]]
            /\ req' = [req EXCEPT ![c].pc = "write"]
            /\ UNCHANGED queue
      BY <1>3 DEF connect
    <2>. DEFINE o == [NoOrigin EXCEPT !.reply = y]
                r == [q EXCEPT !.pc = "write"]
    <2>2. o \in Origin
      BY NoOriginType DEF Origin
    <2>3. req' = [req EXCEPT ![c] = r] /\ origin' = [origin EXCEPT ![c] = o] /\ queue' = queue
      BY <2>1
    <2>. HIDE DEF q, o
    <2>4. /\ r \in AnyRequest /\ r.pc = "write" /\ r.uri = q.uri /\ r.handler = q.handler
      <3>1. "write" \in Pcs
        BY DEF Pcs
      <3>. QED BY <1>1, <3>1 DEF AnyRequest
    <2>. HIDE DEF r
    <2>5. Sound(r, o)
      BY <1>1, <2>4 DEF Sound, ReplyTaken, ReplyGiven
    <2>. QED BY <2>2, <2>3, <2>4, <2>5, OriginStep
  <1>. QED BY <1>2, <1>3

LEMMA WriteStep ==
  ASSUME IInv, NEW c \in Client, write(c)
  PROVE  IInv'
  <1>. DEFINE q == req[c]
              r == [q EXCEPT !.pc = "status"]
  <1>1. q \in AnyRequest /\ q.pc = "write" /\ queue \in Seq(Client)
    BY ClientFacts DEF write, At, Sound
  <1>2. CASE Throw(c)
    BY <1>2, Answered DEF Throw
  <1>3. CASE ~Throw(c)
    <2>1. req' = [req EXCEPT ![c] = r] /\ origin' = origin /\ queue' = queue
      BY <1>3 DEF write
    <2>. HIDE DEF q
    <2>2. /\ r \in AnyRequest /\ r.pc = "status" /\ r.uri = q.uri /\ r.handler = q.handler
      <3>1. "status" \in Pcs
        BY DEF Pcs
      <3>. QED BY <1>1, <3>1 DEF AnyRequest
    <2>. HIDE DEF r
    <2>3. Sound(r, origin[c])
      BY <1>1, <2>2 DEF Sound, ReplyTaken, ReplyGiven
    <2>. QED BY <1>1, <2>1, <2>2, <2>3, RequestStep
  <1>. QED BY <1>2, <1>3

LEMMA ReceivedType ==
  ASSUME IInv, NEW c \in Client
  PROVE  /\ Received(c) \in Handler /\ Received(c).taken = origin[c].sent
         /\ Received(c).host = req[c].handler.host
         /\ Received(c).status_code = req[c].handler.status_code
  <1>1. req[c].handler \in Handler /\ origin[c] \in Origin
    BY ClientFacts
  <1>2. origin[c].sent \in Nat
    BY <1>1 DEF Origin
  <1>. QED BY <1>1, <1>2 DEF Received, Handler

\* After the status line the handler knows the origin's status.
LEMMA ReadStatusStep ==
  ASSUME IInv, NEW c \in Client, read_status(c)
  PROVE  IInv'
  <1>. DEFINE q == req[c]
              o == origin[c]
  <1>1. q \in AnyRequest /\ o \in Origin /\ q.pc = "status" /\ queue \in Seq(Client)
    BY ClientFacts DEF read_status, At, Sound
  <1>2. CASE Throw(c)
    BY <1>2, Answered DEF Throw
  <1>3. CASE ~Throw(c)
    <2>1. PICK s \in IF o.reply.status = "invalid" THEN {"0", "301"} ELSE {o.reply.status} :
            req' = [req EXCEPT ![c].pc = "headers",
                               ![c].handler = [Received(c) EXCEPT !.status_code = s]]
      BY <1>3 DEF read_status
    <2>2. origin' = origin /\ queue' = queue
      BY <1>3 DEF read_status
    <2>. DEFINE g == Received(c)
                h == [g EXCEPT !.status_code = s]
                r == [q EXCEPT !.pc = "headers", !.handler = h]
    <2>3. req' = [req EXCEPT ![c] = r]
      BY <2>1
    <2>4. StatusRead(s, o.reply)
      BY <2>1 DEF StatusRead
    <2>5. s \in Codes
      <3>1. o.reply \in Replies
        BY <1>1 DEF Origin
      <3>2. o.reply.status \in {"200", "301", "404", "invalid"}
        BY <3>1 DEF Replies
      <3>. QED BY <2>1, <3>2 DEF Codes
    <2>6. g \in Handler /\ g.host = q.handler.host
      BY ReceivedType
    <2>. HIDE DEF q, o, g
    <2>7. h \in Handler /\ h.host = q.handler.host /\ h.status_code = s
      BY <2>5, <2>6 DEF Handler
    <2>. HIDE DEF h
    <2>8. r \in AnyRequest /\ r.pc = "headers" /\ r.uri = q.uri /\ r.handler = h
      <3>1. "headers" \in Pcs
        BY DEF Pcs
      <3>. QED BY <1>1, <2>7, <3>1 DEF AnyRequest
    <2>. HIDE DEF r
    <2>9. Sound(r, o)
      BY <1>1, <2>4, <2>7, <2>8 DEF Sound, ReplyTaken, ReplyGiven
    <2>. QED BY <1>1, <2>2, <2>3, <2>8, <2>9, RequestStep DEF o
  <1>. QED BY <1>2, <1>3

LEMMA MimeTypes ==
  ASSUME NEW y \in Replies
  PROVE  MimeType(y) \in Mimes
  <1>1. y.type \in {"none", "plain", "parameters"}
    BY DEF Replies
  <1>. QED BY <1>1 DEF MimeType, Mimes

LEMMA ReadHeadersStep ==
  ASSUME IInv, NEW c \in Client, read_headers(c)
  PROVE  IInv'
  <1>. DEFINE q == req[c]
              o == origin[c]
  <1>1. /\ q \in AnyRequest /\ o \in Origin /\ q.pc = "headers" /\ queue \in Seq(Client)
        /\ ReplyTaken(q, o)
    BY ClientFacts DEF read_headers, At, Sound
  <1>2. CASE Throw(c)
    BY <1>2, Answered DEF Throw
  <1>3. CASE ~Throw(c)
    <2>. DEFINE g == Received(c)
                t == MimeType(o.reply)
                h == [g EXCEPT !.mime_type = t]
                r == [q EXCEPT !.pc = "body", !.handler = h]
    <2>1. req' = [req EXCEPT ![c] = r] /\ origin' = origin /\ queue' = queue
      BY <1>3 DEF read_headers
    <2>2. t \in Mimes
      <3>1. o.reply \in Replies
        BY <1>1 DEF Origin
      <3>. QED BY <3>1, MimeTypes
    <2>3. g \in Handler /\ g.host = q.handler.host /\ g.status_code = q.handler.status_code
      BY ReceivedType
    <2>. HIDE DEF q, o, g, t
    <2>4. h \in Handler /\ h.host = q.handler.host /\ h.status_code = q.handler.status_code
      BY <2>2, <2>3 DEF Handler
    <2>. HIDE DEF h
    <2>5. r \in AnyRequest /\ r.pc = "body" /\ r.uri = q.uri /\ r.handler = h
      <3>1. "body" \in Pcs
        BY DEF Pcs
      <3>. QED BY <1>1, <2>4, <3>1 DEF AnyRequest
    <2>. HIDE DEF r
    <2>6. Sound(r, o)
      BY <1>1, <2>4, <2>5 DEF Sound, ReplyTaken, ReplyGiven
    <2>. QED BY <1>1, <2>1, <2>5, <2>6, RequestStep DEF o
  <1>. QED BY <1>2, <1>3

\* The body is complete when the origin has closed and nothing is left to read:
\* from then on the origin's side does not change.
LEMMA ReadBodyStep ==
  ASSUME IInv, NEW c \in Client, read_body(c)
  PROVE  IInv'
  <1>. DEFINE q == req[c]
              o == origin[c]
              more == [q EXCEPT !.handler = Received(c)]
              redirects == (q.handler.status_code = "301")
              closed == [q.handler EXCEPT !.redirect = redirects]
              end == [q EXCEPT !.pc = "respond", !.handler = closed]
  <1>1. /\ q \in AnyRequest /\ o \in Origin /\ q.handler \in Handler /\ q.pc = "body"
        /\ queue \in Seq(Client) /\ ReplyTaken(q, o)
    BY ClientFacts DEF read_body, At, Sound
  <1>2. CASE Throw(c)
    BY <1>2, Answered DEF Throw
  <1>3. CASE req' = [req EXCEPT ![c] = more] /\ origin' = origin /\ queue' = queue
    <2>. DEFINE g == Received(c)
    <2>1. g \in Handler /\ g.host = q.handler.host /\ g.status_code = q.handler.status_code
      BY ReceivedType
    <2>. HIDE DEF q, o, g
    <2>2. more \in AnyRequest /\ more.pc = "body" /\ more.uri = q.uri /\ more.handler = g
      BY <1>1, <2>1 DEF AnyRequest, g
    <2>. HIDE DEF more
    <2>3. Sound(more, o)
      BY <1>1, <2>1, <2>2 DEF Sound, ReplyTaken, ReplyGiven
    <2>. QED BY <1>1, <1>3, <2>2, <2>3, RequestStep DEF o
  <1>4. CASE /\ o.sent = q.handler.taken /\ o.end = "eof"
             /\ req' = [req EXCEPT ![c] = end] /\ origin' = origin /\ queue' = queue
    <2>. HIDE DEF q, o
    <2>1. redirects \in BOOLEAN /\ "respond" \in Pcs
      BY DEF Pcs
    <2>2. StatusRead(q.handler.status_code, o.reply)
      BY <1>1 DEF ReplyTaken
    <2>3. /\ closed \in Handler /\ closed.redirect = redirects /\ closed.taken = q.handler.taken
          /\ closed.status_code = q.handler.status_code
      <3>. HIDE DEF redirects
      <3>. QED BY <1>1, <2>1 DEF Handler
    <2>. HIDE DEF closed
    <2>4. end \in AnyRequest /\ end.pc = "respond" /\ end.handler = closed
      BY <1>1, <2>1, <2>3 DEF AnyRequest
    <2>. HIDE DEF end
    <2>5. ReplyTaken(end, o)
      BY <1>4, <2>2, <2>3, <2>4 DEF ReplyTaken
    <2>6. Sound(end, o)
      BY <2>4, <2>5 DEF Sound, ReplyGiven
    <2>. QED BY <1>1, <1>4, <2>4, <2>6, RequestStep DEF o
  <1>5. CASE req' = [req EXCEPT ![c].handler = Received(c)] /\ UNCHANGED <<queue, origin>>
    BY <1>3, <1>5
  <1>6. CASE /\ origin[c].sent = req[c].handler.taken /\ origin[c].end = "eof"
             /\ req' = [req EXCEPT ![c].pc = "respond",
                          ![c].handler.redirect = req[c].handler.status_code = "301"]
             /\ UNCHANGED <<queue, origin>>
    <2>1. req' = [req EXCEPT ![c].pc = "respond", ![c].handler.redirect = redirects]
      BY <1>6, Zenon
    <2>2. req' = [req EXCEPT ![c] = end]
      <3>. HIDE DEF redirects
      <3>. QED BY <2>1
    <2>. QED BY <1>4, <1>6, <2>2
  <1>. QED BY <1>2, <1>5, <1>6, Zenon DEF read_body

\* The handler's last step: what it took, or the echo of the request.
LEMMA HandleRequestStep ==
  ASSUME IInv, NEW c \in Client, handle_request(c)
  PROVE  IInv'
  <1>. DEFINE q == req[c]
              o == origin[c]
              taken == q.handler.taken
              body == Left(c)
              echo == [q EXCEPT !.pc = "done", !.resp = "echo", !.body = 0]
              page == [q EXCEPT !.pc = "done", !.resp = "origin", !.body = body]
  <1>1. /\ q \in AnyRequest /\ o \in Origin /\ q.handler \in Handler /\ q.pc = "respond"
        /\ queue \in Seq(Client) /\ ReplyTaken(q, o)
    BY ClientFacts DEF handle_request, At, Sound
  <1>2. /\ o.end = "eof" /\ o.sent = taken /\ q.handler.redirect = (q.handler.status_code = "301")
        /\ StatusRead(q.handler.status_code, o.reply)
    BY <1>1 DEF ReplyTaken
  <1>3. "done" \in Pcs /\ "echo" \in Resps /\ "origin" \in Resps /\ 0 \in Int
    BY DEF Pcs, Resps
  <1>4. CASE q.handler.redirect
    <2>1. req' = [req EXCEPT ![c] = echo] /\ origin' = origin /\ queue' = queue
      BY <1>4 DEF handle_request, Answer
    <2>2. o.reply.status \in {"301", "invalid"}
      BY <1>2, <1>4 DEF StatusRead
    <2>. HIDE DEF q, o
    <2>3. echo \in AnyRequest /\ echo.pc = "done" /\ echo.resp = "echo"
      BY <1>1, <1>3 DEF AnyRequest
    <2>. HIDE DEF echo
    <2>4. Sound(echo, o)
      BY <2>2, <2>3 DEF Sound, ReplyTaken, ReplyGiven
    <2>. QED BY <1>1, <2>1, <2>3, <2>4, RequestStep DEF o
  <1>5. CASE ~q.handler.redirect
    <2>1. req' = [req EXCEPT ![c] = page] /\ origin' = origin /\ queue' = queue
      BY <1>5 DEF handle_request, Answer
    <2>2. o.reply.status # "301"
      BY <1>2, <1>5 DEF StatusRead
    <2>3. taken \in Nat
      BY <1>1 DEF Handler
    <2>4. body \in Int /\ o.sent = IF o.reply.status = "invalid" THEN body ELSE body + 2
      <3>1. body = IF o.reply.status = "invalid" THEN taken ELSE taken - 2
        BY DEF Left
      <3>. HIDE DEF body, taken
      <3>2. o.reply.status = "invalid" => body = taken
        BY <3>1
      <3>3. o.reply.status # "invalid" => body = taken - 2
        BY <3>1
      <3>4. taken \in Int /\ taken - 2 \in Int /\ (taken - 2) + 2 = taken
        BY <2>3
      <3>5. o.sent = taken
        BY <1>2
      <3>6. CASE o.reply.status = "invalid"
        BY <3>2, <3>4, <3>5, <3>6, Zenon
      <3>7. CASE o.reply.status # "invalid"
        <4>1. body \in Int /\ o.sent = body + 2
          BY <3>3, <3>4, <3>5, <3>7, Zenon
        <4>. QED BY <3>7, <4>1, Zenon
      <3>. QED BY <3>6, <3>7
    <2>. HIDE DEF q, o, body
    <2>5. page \in AnyRequest /\ page.pc = "done" /\ page.resp = "origin" /\ page.body = body
      BY <1>1, <1>3, <2>4 DEF AnyRequest
    <2>. HIDE DEF page
    <2>6. Sound(page, o)
      BY <1>2, <2>2, <2>4, <2>5 DEF Sound, ReplyTaken, ReplyGiven
    <2>. QED BY <1>1, <2>1, <2>5, <2>6, RequestStep DEF o
  <1>. QED BY <1>4, <1>5

LEMMA IdleType == Idle \in AnyRequest /\ Idle.pc = "out"
  <1>1. NoHandler \in Handler
    <2>1. /\ 0 \in Ports /\ "none" \in Hosts /\ "unread" \in Codes
          /\ "empty" \in Mimes /\ FALSE \in BOOLEAN /\ 0 \in Nat
      BY DEF Ports, Hosts, Codes, Mimes
    <2>. QED BY <2>1 DEF Handler, NoHandler
  <1>. DEFINE empty == <<>>
  <1>2. empty \in String /\ "out" \in Pcs /\ "none" \in Resps /\ 0 \in Int
    BY DEF String, Pcs, Resps
  <1>3. Idle = [pc |-> "out", uri |-> empty, handler |-> NoHandler, resp |-> "none", body |-> 0]
    BY DEF Idle
  <1>. HIDE DEF empty
  <1>. QED BY <1>1, <1>2, <1>3 DEF AnyRequest

LEMMA IdleSound ==
  ASSUME NEW o
  PROVE  Sound(Idle, o)
  BY IdleType DEF Sound, ReplyTaken, ReplyGiven

LEMMA LeaveStep ==
  ASSUME IInv, NEW c \in Client, Leave(c)
  PROVE  IInv'
  <1>1. /\ req' = [req EXCEPT ![c] = Idle] /\ origin' = [origin EXCEPT ![c] = NoOrigin]
        /\ queue' = queue
    BY DEF Leave
  <1>2. Idle \in AnyRequest /\ NoOrigin \in Origin /\ Sound(Idle, NoOrigin)
    BY IdleType, NoOriginType, IdleSound
  <1>. QED BY <1>1, <1>2, OriginStep

\* What the origin does before the handler has seen the end of its reply.
LEMMA ConnectedStep ==
  ASSUME IInv, NEW c \in Client, Connected(c), NEW o \in Origin, o.reply = origin[c].reply,
         origin' = [origin EXCEPT ![c] = o], req' = req, queue' = queue
  PROVE  IInv'
  <1>. DEFINE q == req[c]
  <1>1. q \in AnyRequest /\ Sound(q, origin[c]) /\ q.pc \in {"write", "status", "headers", "body"}
    BY ClientFacts DEF Connected
  <1>2. req' = [req EXCEPT ![c] = q]
    BY DEF IInv, Types
  <1>. HIDE DEF q
  <1>3. Sound(q, o)
    BY <1>1 DEF Sound, ReplyTaken, ReplyGiven
  <1>. QED BY <1>1, <1>2, <1>3, OriginStep

LEMMA SendStep ==
  ASSUME IInv, NEW c \in Client, Send(c)
  PROVE  IInv'
  <1>. DEFINE p == origin[c]
              n == p.sent + 1
              o == [p EXCEPT !.sent = n]
  <1>1. p \in Origin /\ p.sent \in Nat
    BY ClientFacts DEF Origin
  <1>2. n \in Nat
    BY <1>1
  <1>3. origin' = [origin EXCEPT ![c] = o] /\ req' = req /\ queue' = queue /\ Connected(c)
    BY DEF Send
  <1>4. o \in Origin /\ o.reply = p.reply
    <2>. HIDE DEF p, n
    <2>. QED BY <1>1, <1>2 DEF Origin
  <1>. QED BY <1>3, <1>4, ConnectedStep

LEMMA EndStep ==
  ASSUME IInv, NEW c \in Client, EndAny(c)
  PROVE  IInv'
  <1>1. PICK how \in {"eof", "reset"} : End(c, how)
    BY DEF EndAny
  <1>. DEFINE p == origin[c]
              o == [p EXCEPT !.end = how]
  <1>2. p \in Origin
    BY ClientFacts
  <1>3. origin' = [origin EXCEPT ![c] = o] /\ req' = req /\ queue' = queue /\ Connected(c)
    BY <1>1 DEF End
  <1>4. o \in Origin /\ o.reply = p.reply
    <2>1. how \in Ends
      BY DEF Ends
    <2>. HIDE DEF p
    <2>. QED BY <1>2, <2>1 DEF Origin
  <1>. QED BY <1>3, <1>4, ConnectedStep

-----------------------------------------------------------------------------
LEMMA InitInv == Init => IInv
  <1>. SUFFICES ASSUME Init PROVE IInv
    OBVIOUS
  <1>1. Types
    BY IdleType, NoOriginType DEF Init, Types
  <1>2. ASSUME NEW c \in Client PROVE Sound(req[c], origin[c])
    <2>1. req[c] = Idle
      BY DEF Init
    <2>. QED BY <2>1, IdleSound
  <1>. QED BY <1>1, <1>2 DEF IInv

LEMMA NextInv == IInv /\ [Next]_vars => IInv'
  <1>. SUFFICES ASSUME IInv, [Next]_vars PROVE IInv'
    OBVIOUS
  <1>1. CASE UNCHANGED vars
    BY <1>1 DEF vars, IInv, Types, Sound, ReplyTaken, ReplyGiven
  <1>2. CASE Dispatch
    BY <1>2, DispatchStep
  <1>3. ASSUME NEW c \in Client, NEW u \in Uri, Ask(c, u) PROVE IInv'
    BY <1>3, AskStep
  <1>4. ASSUME NEW c \in Client, Proceed(c) PROVE IInv'
    <2>1. CASE AnswerLocally(c)
      BY <2>1, Answered DEF AnswerLocally
    <2>2. CASE constructGetRequest(c)
      BY <2>2, ConstructStep
    <2>3. CASE connect(c)
      BY <2>3, ConnectStep
    <2>4. CASE write(c)
      BY <2>4, WriteStep
    <2>5. CASE read_status(c)
      BY <2>5, ReadStatusStep
    <2>6. CASE read_headers(c)
      BY <2>6, ReadHeadersStep
    <2>7. CASE read_body(c)
      BY <2>7, ReadBodyStep
    <2>8. CASE handle_request(c)
      BY <2>8, HandleRequestStep
    <2>9. CASE Leave(c)
      BY <2>9, LeaveStep
    <2>. QED BY <1>4, <2>1, <2>2, <2>3, <2>4, <2>5, <2>6, <2>7, <2>8, <2>9 DEF Proceed
  <1>5. ASSUME NEW c \in Client, Send(c) PROVE IInv'
    BY <1>5, SendStep
  <1>6. ASSUME NEW c \in Client, EndAny(c) PROVE IInv'
    BY <1>6, EndStep
  <1>. QED BY <1>1, <1>2, <1>3, <1>4, <1>5, <1>6 DEF Next

LEMMA Inductive == Spec => []IInv
  BY InitInv, NextInv, PTL DEF Spec

\* However an origin splits, delays or breaks off its reply, a client that gets
\* a page of the origin gets all of it: sendGetRequest turns every other end of
\* the stream than eof into a 500.
THEOREM BodyComplete == Spec => []BodyIsWhatOriginSent
  <1>1. IInv => BodyIsWhatOriginSent
    BY DEF IInv, Sound, ReplyGiven, BodyIsWhatOriginSent, At
  <1>. QED BY <1>1, Inductive, PTL

\* handle_request echoes the client's request exactly when the status line that
\* this request's origin sent said 301, or could not be parsed.
THEOREM EchoIsRedirection == Spec => []EchoOnlyIfRedirected
  <1>1. IInv => EchoOnlyIfRedirected
    BY DEF IInv, Sound, ReplyGiven, EchoOnlyIfRedirected, At
  <1>. QED BY <1>1, Inductive, PTL
=============================================================================
