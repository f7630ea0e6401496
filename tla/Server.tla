------------------------------- MODULE Server -------------------------------
(***************************************************************************)
(* The process: main() (server_main.cc), the acceptor and its pool of      *)
(* io_service threads (server.cc) and the TCP sessions they drive          *)
(* (session.cc).                                                           *)
(*                                                                         *)
(* A session is a raw heap object that frees itself (delete this).  It is  *)
(* never locked: what keeps two threads off it is only that it has at most *)
(* one asynchronous operation outstanding and that no callback touches it  *)
(* after it has started the next operation.  So a callback is split at     *)
(* every asynchronous call, because another thread may run the completion, *)
(* up to and including delete this, before the call returns.               *)
(*                                                                         *)
(* The router is a call that returns a response or throws: see Router.tla. *)
(***************************************************************************)
EXTENDS Naturals

CONSTANTS
    Thread,         \* the thread_count_ threads of server::run
    Session,        \* heap slots for sessions: bounds the sessions alive at once
    RequestSize,    \* units of a client's request; unit 1 is the request line
    MaxLength,      \* max_length: units that fit in data_
    ResponseSizes,  \* sizes, in units, of the responses the router can return
    SendBuffer,     \* units the socket takes in one non-blocking send
    NoThread, NoOne \* not a thread, not a session

ASSUME RequestSizeAssumption == RequestSize \in Nat \ {0}
ASSUME MaxLengthAssumption   == MaxLength \in Nat \ {0}
ASSUME SendBufferAssumption  == SendBuffer \in Nat \ {0}
ASSUME ResponseAssumption    == ResponseSizes \subseteq Nat \ {0}
ASSUME SessionAssumption     == NoOne \notin Session
ASSUME ThreadAssumption      == NoThread \notin Thread

VARIABLES
    main,       \* where main() is
    process,    \* "up", or how the process ended
    logged,     \* the exception that ended the process was logged
    router_,    \* server::router_ is not null
    isRunning,  \* server::isRunning
    signal,     \* SIGINT or SIGTERM is waiting for the signal_set
    heap,       \* the sessions that are allocated
    sess,       \* per slot: the session's operation, its peer and its response
    frame       \* per thread: the callback it is in, and the session it is for

vars == <<main, process, logged, router_, isRunning, signal, heap, sess, frame>>

-----------------------------------------------------------------------------
(* Sessions and frames *)

SessionState ==
    [op      : {"none", "accept", "read", "write"}, \* the outstanding operation
     status  : {"pending", "ok", "error"},          \* its completion
     peer    : {"none", "connected", "closed", "reset"},
     request : {"valid", "invalid"}, \* what is_valid() says of what the client sends
     arrived : 0..RequestSize,      \* units of it that have reached the socket
     bytes   : 0..RequestSize,      \* bytes_transferred of the read
     unsent  : Nat,                 \* units of the response not yet taken by the socket
     writer  : Thread \cup {NoThread}, \* whose stack holds the vector being written
     sent    : {"intact", "garbled"}] \* garbled: not all came from a live vector

NewSession ==
    [op |-> "none", status |-> "pending", peer |-> "none", request |-> "valid",
     arrived |-> 0, bytes |-> 0, unsent |-> 0, writer |-> NoThread, sent |-> "intact"]

Frames ==
    [pc   : {"unborn", "idle", "start", "read", "start_accept",
             "route", "write", "write_return"},
     s    : Session \cup {NoOne},
     size : Nat]

Idle == [pc |-> "idle", s |-> NoOne, size |-> 0]
At(t, pc) == frame[t].pc = pc

\* t is in a callback that has yet to use the members of s.
Touches(t, s) == frame[t].pc \in {"start", "read", "route", "write"} /\ frame[t].s = s

Smaller(a, b) == IF a <= b THEN a ELSE b

-----------------------------------------------------------------------------
(* main() *)

Init ==
    /\ main = "parse" /\ process = "up" /\ logged = FALSE
    /\ router_ = FALSE /\ isRunning = FALSE /\ signal = FALSE
    /\ heap = {}
    /\ sess = [s \in Session |-> NewSession]
    /\ frame = [t \in Thread |-> [Idle EXCEPT !.pc = "unborn"]]

\* The catch of main(): log the exception and return.
main_catch ==
    /\ process' = "returned" /\ logged' = TRUE
    /\ UNCHANGED <<main, router_, isRunning, signal, heap, sess, frame>>

\* Parse's result is ignored; ParseStatements decides.
main_parse ==
    /\ main = "parse"
    /\ \/ main' = "construct" /\ process' = "up"
       \/ main' = main /\ process' = "returned"
    /\ UNCHANGED <<logged, router_, isRunning, signal, heap, sess, frame>>

\* server::server binds the acceptor, which throws if the port is taken.
main_construct ==
    /\ main = "construct"
    /\ \/ /\ main' = "create_router"
          /\ UNCHANGED <<process, logged, router_, isRunning, signal, heap, sess, frame>>
       \/ main_catch

\* No router block in the config: create_router is false and main throws.
create_router ==
    /\ main = "create_router"
    /\ \/ /\ main' = "start_accept" /\ router_' = TRUE
          /\ UNCHANGED <<process, logged, isRunning, signal, heap, sess, frame>>
       \/ main_catch

\* server::start_accept, up to its return.
Listen ==
    \E new \in Session \ heap :
       /\ heap' = heap \cup {new}
       /\ sess' = [sess EXCEPT ![new] = [NewSession EXCEPT !.op = "accept"]]
       /\ isRunning' = TRUE

\* start_accept refuses without a router_; main never gets here without one.
main_start_accept ==
    /\ main = "start_accept"
    /\ router_ /\ Listen
    /\ main' = "run"
    /\ UNCHANGED <<process, logged, router_, signal, frame>>

\* server::run: one by one the threads enter io_service::run, and serve
\* while main is still creating the others (which may fail)...
run ==
    /\ main = "run"
    /\ \/ /\ \E t \in Thread : At(t, "unborn") /\ frame' = [frame EXCEPT ![t] = Idle]
          /\ UNCHANGED <<main, process, logged, router_, isRunning, signal, heap, sess>>
       \/ (\E t \in Thread : At(t, "unborn")) /\ main_catch

\* ...then main waits for them for ever: the signal_set keeps run() busy.
join ==
    /\ main = "run"
    /\ \A t \in Thread : ~At(t, "unborn")
    /\ main' = "join"
    /\ UNCHANGED <<process, logged, router_, isRunning, signal, heap, sess, frame>>

-----------------------------------------------------------------------------
(* The acceptor: server::handle_accept and what it calls *)

proc == <<main, process, logged, router_, signal>>

Free(s) == heap' = heap \ {s} /\ sess' = [sess EXCEPT ![s] = NewSession]
Goto(t, pc, s) == frame' = [frame EXCEPT ![t] = [pc |-> pc, s |-> s, size |-> 0]]
Return(t)      == frame' = [frame EXCEPT ![t] = Idle]

\* BUG (mutant): an accept error returns without accepting again.
handle_accept_gives_up(t, s) ==
    /\ At(t, "idle")
    /\ sess[s].op = "accept"
    /\ \/ /\ sess[s].status = "ok"
          /\ sess' = [sess EXCEPT ![s].op = "none"]
          /\ Goto(t, "start", s) /\ UNCHANGED heap
       \/ /\ sess[s].status = "error"
          /\ Free(s) /\ Return(t)
    /\ UNCHANGED <<proc, isRunning>>

handle_accept(t, s) ==
    /\ At(t, "idle")
    /\ sess[s].op = "accept"
    /\ \/ /\ sess[s].status = "ok"
          /\ sess' = [sess EXCEPT ![s].op = "none"]
          /\ Goto(t, "start", s) /\ UNCHANGED heap
       \/ /\ sess[s].status = "error"
          /\ Free(s) /\ Goto(t, "start_accept", NoOne)
    /\ UNCHANGED <<proc, isRunning>>

BeginRead(s) == sess' = [sess EXCEPT ![s] = [@ EXCEPT !.op = "read", !.status = "pending"]]

\* BUG (mutant): start() reads before it stores ip_addr_, and read() reads again.
start_reads_first(t) ==
    /\ At(t, "start")
    /\ BeginRead(frame[t].s)
    /\ Goto(t, "read", frame[t].s)
    /\ UNCHANGED <<proc, isRunning, heap>>

\* session::start: stores ip_addr_ (a failure of remote_endpoint is caught)...
start(t) ==
    /\ At(t, "start")
    /\ Goto(t, "read", frame[t].s)
    /\ UNCHANGED <<proc, isRunning, heap, sess>>

\* ...and ends with session::read, after which s is no longer this thread's.
read(t) ==
    /\ At(t, "read")
    /\ BeginRead(frame[t].s)
    /\ Goto(t, "start_accept", NoOne)
    /\ UNCHANGED <<proc, isRunning, heap>>

start_accept(t) ==
    /\ At(t, "start_accept")
    /\ router_ /\ Listen
    /\ Return(t)
    /\ UNCHANGED proc

-----------------------------------------------------------------------------
(* The session's callbacks *)

\* t makes a response of some size and goes on to write it.
Answer(t, s, size) == frame' = [frame EXCEPT ![t] = [pc |-> "write", s |-> s, size |-> size]]

\* A 500 or a 400 is one unit.
handle_error(t, s)           == Answer(t, s, 1)
handle_invalid_request(t, s) == Answer(t, s, 1)

\* Is what was read a valid request?  The first unit is the request line: a
\* prefix of the request that holds it parses.
handle_success(t, s) ==
    \/ sess[s].request = "valid"   /\ Goto(t, "route", s)
    \/ sess[s].request = "invalid" /\ handle_invalid_request(t, s)

\* BUG (mutant): a read error closes the session without an answer.
handle_read_drops(t, s) ==
    /\ At(t, "idle")
    /\ sess[s].op = "read"
    /\ \/ /\ sess[s].status = "ok"
          /\ sess' = [sess EXCEPT ![s].op = "none"] /\ UNCHANGED heap
          /\ handle_success(t, s)
       \/ /\ sess[s].status = "error"
          /\ Free(s) /\ UNCHANGED frame
    /\ UNCHANGED <<proc, isRunning>>

\* BUG (mutant): a read error is ignored, so nothing will ever free the session.
handle_read_ignores(t, s) ==
    /\ At(t, "idle")
    /\ sess[s].op = "read"
    /\ sess' = [sess EXCEPT ![s].op = "none"]
    /\ \/ sess[s].status = "ok"    /\ handle_success(t, s)
       \/ sess[s].status = "error" /\ UNCHANGED frame
    /\ UNCHANGED <<proc, isRunning, heap>>

handle_read(t, s) ==
    /\ At(t, "idle")
    /\ sess[s].op = "read"
    /\ sess' = [sess EXCEPT ![s].op = "none"]
    /\ \/ sess[s].status = "ok"    /\ handle_success(t, s)
       \/ sess[s].status = "error" /\ handle_error(t, s)
    /\ UNCHANGED <<proc, isRunning, heap>>

\* handle_valid_request: the router returns a response (kept in holder_), or
\* throws and handle_success answers with handle_error.
handle_valid_request(t) ==
    /\ At(t, "route")
    /\ \/ \E size \in ResponseSizes : Answer(t, frame[t].s, size)
       \/ handle_error(t, frame[t].s)
    /\ UNCHANGED <<proc, isRunning, heap, sess>>

\* BUG (mutant): one unit too many is counted as sent.
write_miscounts(t) ==
    LET s    == frame[t].s
        left == frame[t].size - SendBuffer - 1
    IN  /\ At(t, "write")
        /\ sess' = [sess EXCEPT ![s] = [@ EXCEPT !.op = "write", !.writer = t,
                                                 !.status = IF left = 0 THEN "ok" ELSE "pending",
                                                 !.unsent = left]]
        /\ Goto(t, "write_return", s)
        /\ UNCHANGED <<proc, isRunning, heap>>

\* session::write: async_write sends what it can at once, from the vector on
\* this thread's stack, and leaves the rest to the io_service.
write(t) ==
    LET s    == frame[t].s
        left == frame[t].size - Smaller(frame[t].size, SendBuffer)
    IN  /\ At(t, "write")
        /\ \/ /\ sess[s].peer = "reset"
              /\ sess' = [sess EXCEPT ![s] = [@ EXCEPT !.op = "write", !.writer = t,
                                                       !.status = "error"]]
           \/ /\ sess[s].peer # "reset"
              /\ sess' = [sess EXCEPT ![s] = [@ EXCEPT !.op = "write", !.writer = t,
                                                       !.status = IF left = 0 THEN "ok" ELSE "pending",
                                                       !.unsent = left]]
        /\ Goto(t, "write_return", s)
        /\ UNCHANGED <<proc, isRunning, heap>>

\* write and its callers return: the vectors are destroyed, s is not used.
write_return(t) ==
    /\ At(t, "write_return")
    /\ Return(t)
    /\ UNCHANGED <<proc, isRunning, heap, sess>>

\* shutdown throws if the connection is gone: the exception leaves
\* io_service::run, and the thread takes the process with it.
close(s) ==
    \/ sess[s].peer # "reset" /\ Free(s) /\ UNCHANGED process
    \/ sess[s].peer = "reset" /\ process' = "terminated" /\ UNCHANGED <<heap, sess>>

\* BUG (mutant): a failed write forgets delete this.
handle_write_leaks(t, s) ==
    /\ At(t, "idle")
    /\ sess[s].op = "write"
    /\ \/ sess[s].status = "ok" /\ Free(s)
       \/ /\ sess[s].status = "error" /\ UNCHANGED heap
          /\ sess' = [sess EXCEPT ![s].op = "none"]
    /\ UNCHANGED <<proc, isRunning, frame>>

handle_write(t, s) ==
    /\ At(t, "idle")
    /\ sess[s].op = "write"
    /\ \/ sess[s].status = "ok"    /\ close(s)
       \/ sess[s].status = "error" /\ Free(s) /\ UNCHANGED process
    /\ UNCHANGED <<main, logged, router_, signal, isRunning, frame>>

\* signal_handler: exit(1), whatever the other threads are doing.
signal_handler(t) ==
    /\ At(t, "idle")
    /\ signal
    /\ process' = "exited"
    /\ UNCHANGED <<main, logged, router_, signal, isRunning, heap, sess, frame>>

-----------------------------------------------------------------------------
(* The io_service and the kernel (external), and the clients *)

Env == <<proc, isRunning, heap, frame>>

\* A connection is accepted.  The bound: a slot is left for the next accept.
Connect(s) ==
    /\ sess[s].op = "accept" /\ sess[s].status = "pending"
    /\ Session \ heap # {}
    /\ \E kind \in {"valid", "invalid"} :
          sess' = [sess EXCEPT ![s] = [@ EXCEPT !.status = "ok", !.peer = "connected",
                                                !.request = kind]]
    /\ UNCHANGED Env

AcceptError(s) ==
    /\ sess[s].op = "accept" /\ sess[s].status = "pending"
    /\ sess' = [sess EXCEPT ![s].status = "error"]
    /\ UNCHANGED Env

ClientSends(s) ==
    /\ sess[s].peer = "connected" /\ sess[s].arrived < RequestSize
    /\ sess' = [sess EXCEPT ![s].arrived = @ + 1]
    /\ UNCHANGED Env

ClientCloses(s) ==
    /\ sess[s].peer = "connected"
    /\ sess' = [sess EXCEPT ![s].peer = "closed"]
    /\ UNCHANGED Env

\* The client aborts, or what reaches it after it closed is answered by RST.
ClientResets(s) ==
    /\ sess[s].peer \in {"connected", "closed"}
    /\ sess' = [sess EXCEPT ![s].peer = "reset"]
    /\ UNCHANGED Env

\* async_read_some completes as soon as something has arrived.
ReadReady(s) ==
    /\ sess[s].op = "read" /\ sess[s].status = "pending"
    /\ \/ /\ sess[s].peer # "reset" /\ sess[s].arrived > 0
          /\ sess' = [sess EXCEPT ![s] = [@ EXCEPT !.status = "ok",
                                                   !.bytes = Smaller(sess[s].arrived, MaxLength)]]
       \/ /\ \/ sess[s].peer = "reset"
             \/ sess[s].peer = "closed" /\ sess[s].arrived = 0
          /\ sess' = [sess EXCEPT ![s].status = "error"]
    /\ UNCHANGED Env

\* A free thread goes on with async_write.  Once write() has returned, the
\* vector it was given is gone: what is sent may be anything.
WriteMore(s) ==
    LET left == sess[s].unsent - Smaller(sess[s].unsent, SendBuffer)
        live == frame[sess[s].writer].pc = "write_return" /\ frame[sess[s].writer].s = s
    IN  /\ sess[s].op = "write" /\ sess[s].status = "pending"
        /\ \E t \in Thread : At(t, "idle")
        /\ \/ /\ sess[s].peer = "reset"
              /\ sess' = [sess EXCEPT ![s].status = "error"]
           \/ /\ sess[s].peer # "reset"
              /\ \E what \in IF live THEN {sess[s].sent} ELSE {sess[s].sent, "garbled"} :
                    sess' = [sess EXCEPT ![s] = [@ EXCEPT !.unsent = left, !.sent = what,
                                                          !.status = IF left = 0 THEN "ok" ELSE "pending"]]
        /\ UNCHANGED Env

\* Until main has registered the signal_set, a signal ends the process.
RaiseSignal ==
    /\ ~signal /\ signal' = TRUE
    /\ process' = IF main = "parse" THEN "exited" ELSE process
    /\ UNCHANGED <<main, logged, router_, isRunning, heap, sess, frame>>

-----------------------------------------------------------------------------
(* The specification *)

Main == \/ main_parse \/ main_construct \/ create_router
        \/ main_start_accept \/ run \/ join

\* A thread goes on with the callback it is in.
Proceed(t) == \/ start(t) \/ read(t) \/ start_accept(t)
              \/ handle_valid_request(t) \/ write(t) \/ write_return(t)

\* A free thread takes the completed operation of s from the queue.
Dispatch(t, s) == handle_accept(t, s) \/ handle_read(t, s) \/ handle_write(t, s)

Kernel(s) == ReadReady(s) \/ WriteMore(s)

Client(s) == \/ Connect(s) \/ AcceptError(s)
             \/ ClientSends(s) \/ ClientCloses(s) \/ ClientResets(s)

Up == \/ Main
      \/ \E t \in Thread : Proceed(t) \/ signal_handler(t)
      \/ \E t \in Thread, s \in Session : Dispatch(t, s)
      \/ \E s \in Session : Kernel(s) \/ Client(s)
      \/ RaiseSignal

Ended == process # "up" /\ UNCHANGED vars

Next == (process = "up" /\ Up) \/ Ended

(***************************************************************************)
(* Threads are scheduled and route handlers return (WF); the io_service    *)
(* queue is first in first out, so a completion that a thread could take   *)
(* again and again is taken in the end (SF).  Clients and signals are free *)
(* to do nothing.                                                          *)
(***************************************************************************)
Fairness ==
    /\ WF_vars(process = "up" /\ Main)
    /\ \A t \in Thread : WF_vars(process = "up" /\ Proceed(t))
    /\ \A s \in Session : /\ SF_vars(process = "up" /\ \E t \in Thread : Dispatch(t, s))
                          /\ SF_vars(process = "up" /\ Kernel(s))

Spec == Init /\ [][Next]_vars
FairSpec == Spec /\ Fairness

-----------------------------------------------------------------------------
(* Properties *)

\* Every variable has its type: main(), the threads' stacks, the sessions.
TypeOK ==
    /\ main \in {"parse", "construct", "create_router", "start_accept", "run", "join"}
    /\ process \in {"up", "returned", "exited", "terminated"}
    /\ logged \in BOOLEAN /\ router_ \in BOOLEAN
    /\ isRunning \in BOOLEAN /\ signal \in BOOLEAN
    /\ heap \subseteq Session
    /\ sess \in [Session -> SessionState]
    /\ frame \in [Thread -> Frames]

\* No callback of session.cc uses a member of a session that another thread
\* has freed meanwhile with delete this.
NoUseAfterFree == \A t \in Thread, s \in Session : Touches(t, s) => s \in heap

\* Who may act on a session: the io_service, or one thread's callback.
Pending(s) == sess[s].op # "none"

\* An allocated session has exactly one owner, its outstanding operation or a
\* single thread (so session needs no lock and none is leaked); a freed one
\* has none (so no handler runs on it, and it is not freed twice).
Ownership ==
    \A s \in Session :
       /\ s \in heap <=> (Pending(s) \/ \E t \in Thread : Touches(t, s))
       /\ \A t \in Thread : Touches(t, s) =>
             ~Pending(s) /\ \A u \in Thread : Touches(u, s) => u = t

\* t is in handle_accept, on its way to start_accept.
Rearming(t) == frame[t].pc \in {"start", "read", "start_accept"}
Accepting(s) == sess[s].op = "accept"

\* Once main has started accepting, one accept is outstanding or one thread is
\* about to start the next: the server stays open whatever accept errors it
\* meets, and acceptor_ and isRunning, which have no lock, have one user.
OneAcceptor ==
    main \in {"run", "join"} =>
       /\ (\E s \in Session : Accepting(s)) \/ (\E t \in Thread : Rearming(t))
       /\ \A s \in Session, r \in Session : Accepting(s) /\ Accepting(r) => s = r
       /\ \A t \in Thread, u \in Thread : Rearming(t) /\ Rearming(u) => t = u
       /\ ~\E s \in Session, t \in Thread : Accepting(s) /\ Rearming(t)

\* A session whose client has sent something or has gone is answered and freed
\* unless the process ends: no order of callbacks leaves it behind.
Reclaimed ==
    \A s \in Session :
       (s \in heap /\ (sess[s].arrived > 0 \/ sess[s].peer \in {"closed", "reset"}))
          ~> (s \notin heap \/ process # "up")

\* The phase of a connection as its client sees it.
phase == [s \in Session |->
    IF s \notin heap              THEN "none"
    ELSE IF sess[s].op = "accept" THEN "listening"
    ELSE IF sess[s].op = "write"  THEN "replying"
    ELSE                               "open"]

\* The sessions implement Connection: accepted, answered once, then closed.
C == INSTANCE Connection WITH Slot <- Session
ImplementsConnection == C!Spec

\* What a client is sent is the response: "serve the file indicated by the URI".
DeliveredIntact == \A s \in Session : sess[s].sent = "intact"

\* "All incoming requests and unhandled exceptions are written to the logs."
UnhandledExceptionsLogged == process = "terminated" => logged
=============================================================================
