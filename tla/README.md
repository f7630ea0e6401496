# Gitty Up Web Server: a TLA+ verification project

This directory specifies and verifies the web server in this repository: the process
and its thread pool, the TCP sessions, the configuration parser and the start-up that
depends on it, the router with its status page, the request parser, the handlers and the
response, the reverse proxy and its origin servers, and the meme store with its SQLite
database. Paths below are relative to the repository (`src/session.cc`,
`include/router.h`, ...).

Contents: [the system](#the-system), [the modules](#the-modules),
[the runs](#the-runs), [the proofs](#the-proofs),
[what is not covered](#what-is-not-covered), [the plan](#the-plan).

## The system

| Component | State it keeps | Operations | Talks to |
|---|---|---|---|
| `main` (`server_main.cc`) | where start-up is; the signal set | parse the config, construct the server, create the router, start accepting, run | server |
| `server` (`server.cc`) | `router_`, `isRunning`, the acceptor, the thread pool | `create_router`, `start_accept`, `handle_accept`, `run` | session, router |
| `session` (`session.cc`) | socket, `data_` (1024 bytes), `holder_`; frees itself with `delete this` | `start`, `read`, `handle_read`, `write`, `handle_write`, `close` | router |
| `router` (`router.cc`) | `route_map_`, `headers_`, the config; four mutexes | `register_routes_from_config`, `route_request` (longest prefix match, handler lookup, recording, log) | handlers, recorder |
| status recorder and page (`server_status_recorder.cc`, `status_handler.cc`) | the list of responses, the list of routes; two mutexes | `request_recorder`, `prefix_recorder`, three getters; the page reads all three | router |
| meme handler (`meme_handler.cc`) | none of its own: one object and one database connection per request | create, update, delete, list, search, view, redirect | SQLite layer |
| SQLite layer (`sql_lib.cc`) | the connection; the file `meme.db` | `create_table`, insert, update, delete, select, search | SQLite |
| config parser (`config_parser.cc`) | a stack of open blocks, the tree built so far, the tokenizer's state | `Parse`, `ParseToken`, `ParseStatements`, `ToString` | main, router, handlers |
| request parser (`request.cc`), response (`response.cc`), URI codec (`uri_lib.cc`) | one object per request | parse the text, look up headers, parameters and body; encode, decode; generate the text | session, handlers |
| reverse proxy (`reverse_proxy_handler.cc`) | the locations' hosts, the reply being read; a socket to an origin | look up the host, connect, write, read the status line, the headers and the body | origin servers |
| static file handler (`static_file_handler.cc`) | the directory `path_` | find the file a URI names and read it | files |
| echo, health, default handlers | none | `handle_request` | |
| logger, meme web pages | output; browser code | | |

How they interact: all callbacks run on the `thread_count_` threads that sit in
`io_service::run`. A session is reached by the thread that runs its current
callback and by nobody else; the router, the recorder and the database file are
shared by all threads. Handlers are called synchronously from the session's read
callback, so a handler that blocks takes a thread of the pool with it.

What is hard to get right, and to test:

* a session has no lock and no reference count: its safety rests on having one
  outstanding operation at a time and on no callback touching it after the next
  asynchronous call;
* buffers and exceptions that cross asynchronous calls;
* mutexes that nest in both orders (`route_map_lock_`, `config_lock_`), and one
  that is locked by hand (`log_lock_`);
* data read in one critical section and used after another (the status page, the
  second handler lookup, the view counter);
* SQLite locks met by concurrent requests when no busy handler is set, and a
  process that ends at any point of a request;
* input that is cut off anywhere: a request of which one read returns a part, a
  configuration that ends in the middle of a token, a reply that an origin resets;
* threads of the pool that an origin server blocks, since no call has a timeout;
* text that passes through several conversions (browser, request parser, URI codec,
  regular expression) written independently of each other;
* files that change while they are served.

`PROJECT.json` lists these hazards at their lines, with the properties that
cover them.

## The modules

| Module | Models | Notes |
|---|---|---|
| `Server`, `ServerProofs` | `server_main.cc`, `server.cc`, `session.cc` | the detailed specification |
| `Connection` | what the server promises its clients | abstract; implemented by `Server` |
| `Routes` | which location serves a URI | operators only |
| `PrefixMatch` | the loop of `router::longest_prefix_match` | implements `Routes!LongestMatch`; its theorems are in `RouterProofs` |
| `Router`, `RouterProofs` | `router.cc`, `server_status_recorder.cc`, `status_handler.cc` | uses `Routes` |
| `MemeStore`, `MemeStoreProofs` | `meme_handler.cc`, `sql_lib.cc` | SQLite's locking is external |
| `Memes` | what the meme handler promises its clients | abstract; implemented by `MemeStore` |
| `ConfigParser` | `NginxConfigParser::Parse` and `ParseToken`, `ToString` | |
| `ConfigStatements` | `NginxConfig::ParseStatements` | operators only |
| `Startup`, `StartupProofs` | `main()` from the file to the open port | composes the two |
| `ConfigRoundTrip` | a test of `ToString`: what was accepted is printed and parsed again | extends `Startup`; its theorem is in `StartupProofs` |
| `ReverseProxy`, `ReverseProxyProofs` | `reverse_proxy_handler.cc` on the pool | uses `Routes`; origins are external |
| `Bytes` | the characters that texts are made of | operators only |
| `Request` | `request.cc` | operators only |
| `UriCodec`, `MemeBody` | `uri_lib.cc`; the form, `body_check` and the parameters of `create_meme` | operators only |
| `Response` | `response.cc` | operators only |
| `Exchange`, `ExchangeProofs` | one request and its answer: session, handlers, response | composes `Request`, `MemeBody`, `Response` |
| `StaticFile`, `StaticFileProofs` | `static_file_handler.cc` | the file system is external |
| `Lemmas` | facts about least elements, prefixes, loops and texts in a row | used by the proofs |
| `MCServer`, `MCRouter`, `MCPrefixMatch`, `MCMemeStore`, `MCStartup`, `MCReverseProxy`, `MCExchange`, `MCStaticFile` | instances for TLC | |

Definitions keep the names of the functions they model. An operator with a comment
`BUG (mutant)` is a plausible mistake in the definition that follows it; it is
there to show that a property can fail, and no specification uses it.

### Server

`sess[s]` is a heap slot for a session: the asynchronous operation it has
outstanding (`op`) and how it completed, what its client has done (`peer`,
`arrived`), and what is left of the response. `frame[t]` is the callback that
thread `t` is in. `heap` is the set of sessions that are allocated.

A callback is split wherever another thread could overtake it, that is at every
asynchronous call: `start` and `read`, `handle_read`, `handle_valid_request`,
`write` and `write_return`. An operation that is outstanding belongs to the
io_service, and any idle thread may run its completion, before the thread that
started it has returned from the call.

* `main_parse` ... `join` are the steps of `main()`. Each early return and each
  exception that `main()` catches is a branch. `run` creates the threads one by
  one; they serve while `main` creates the rest, and creation may fail.
* `write` sends what the socket takes at once. The rest is sent by `WriteMore`,
  from a vector that exists only until `write_return`: afterwards what is sent may
  be anything.
* `close` frees the session, or throws if the client has reset the connection, and
  then the process is terminated. (`session::close` is declared `bool` and returns
  nothing; nobody uses the result and the project is built without optimisation,
  so it is modelled as an ordinary return.)
* Data: a request and a response are a number of units, one unit being what a
  segment carries or what the socket takes in one send. A request is valid or not.
  The router is a call that returns a response or throws.

External: the io_service, the kernel and the clients (`Connect`, `AcceptError`,
`ClientSends`, `ClientCloses`, `ClientResets`, `ReadReady`, `WriteMore`,
`RaiseSignal`), modelled from how the code uses Boost.Asio.

### Router

`owner` says who holds each mutex. A critical section under one mutex is one step,
taken when the mutex is free. Where mutexes nest the outer one is held between
steps: `config_lock_` during the whole registration, `route_map_lock_` during the
search for a proxy, `log_lock_` during the second lookup. `Needs(pc)` names the
mutex a thread at `pc` has to take next; `NoCircularWait` is stated with it.

`req[w]` is the request thread `w` is routing. URIs and locations are sequences of
characters, because prefixes are what the router compares; handlers are names.
`headers_` stays empty, since nothing in the program registers a default header.
The configuration is the sequence of its `location` statements with the handler
block they are in; it has at most one proxy block, as the files in `conf/` do.

### MemeStore

`rows` is `meme_table`: the content of a meme (template and captions, one value)
and `times_viewed`. `shared`, `reserved` and `exclusive` are the locks of SQLite's
rollback-journal mode. Each statement is taken apart at its locks: a write takes
RESERVED (`step_begin`), then EXCLUSIVE (`step_commit`, which fails and rolls back
if another connection is reading), then takes effect (`step_done`). No busy handler
is set, so a statement that meets a lock fails at once. `Crash` ends the process at
any point; the file keeps what was committed.

A body is a meme, something `body_check` refuses, or something `UriDecode` throws
on. An id is the UUID of a meme, one that no meme has, or something `check_id`
refuses. The history variables (`acked`, `doomed`, `gone`, `latest`, `viewed`)
record what clients have been told; no action reads them, except that a client
asks only for ids of memes that were created.

`Memes` is the store a client may rely on: each call takes effect at one moment between
its begin and its answer, or not at all, and a restart keeps the memes. The mapping
`CallOf` in `MemeStore` shows a worker as *pending* until the step that decides its
answer: the commit of a write, the select of a reader. A reader may be told that there is
nothing (SQLITE_BUSY, see below); an answer that is not empty is the whole answer as of
one moment. The view counter does not show in `Memes`.

### ConfigParser, ConfigStatements, Startup

A configuration file is a sequence of characters; a keyword, a number or a run of ordinary
text is one character of the model, since the tokenizer tells apart only blanks, quotes,
`#`, `;`, `{` and `}`. There is one action per state of `ParseToken`; the token it returns
is handed to the driver's branch (`Normal`, `StatementEnd`, `StartBlock`, `EndBlock`) in
the same step, because nothing else can happen between them. `unget` leaves the position
where it was. `blocks` are the `NginxConfig` objects in the order of allocation;
`child_block_` is an index into them. `ParseStatements` is two nested loops, over the
statements and over a statement's tokens, written as recursive functions of the number of
iterations; `prev_token` is as in the code: after an argument that is not valid, `continue`
keeps the keyword. `Startup` adds what `main()` does with the result: `Parse`'s return value is
ignored, the port is passed on as a `short`.

`ConfigRoundTrip` goes on from there: a configuration that `Parse` accepted is printed with
`ToString` (`Printed`) and the text parsed again (`Reparse`), as a test of `ToString` would.
Every behaviour of `Startup` is one of its own in which nothing is printed, so the `Startup` run
checks both.

### ReverseProxy

Every request of every client needs one of `PoolSize` threads from `Dispatch` to its
answer. `req[c].pc` is the socket call the handler is blocked in; `origin[c]` says how
much of its reply the origin has sent and whether it has ended it, in order (`eof`) or
not (`reset`). Status line, headers and units of the body arrive separately, so every
call may be met by a reply that stops just before what it needs. An exception becomes
the 500 of `session::handle_success`. A status line that does not parse leaves
`status_code` unset or 0, and `port_num` without a `port` statement is any of `AnyPort`. A
`find()` that finds nothing, and the URI `/`, end in `undefined`.

### Exchange, with Request, UriCodec, MemeBody and Response

Texts are sequences of numbers: bytes, and above 255 symbols for runs of letters that
nothing looks into (a header name, a method); `Bytes` names them. `Request` states what the regular
expressions and searches of `request.cc` find in a text. `QueryTexts` is what the second read of
the match may find in `parse_query_string` once `uri_` has been assigned: the query, or, behind a
path longer than `SmallString`, any text of its length. `Exchange` follows one request:
the session reads a part of it (`handle_success(n)`), parses it, and the handler that
serves its URI makes a response; `apply_default_headers` is the end of `route_request`. The
default headers (`headers_`) are a map, set in any order.
`CString(beyond)` is `std::string(req->get_raw_request())`: the copy is not terminated, so
it reads on into `beyond`, which is chosen anew each time. `generate_response` yields a
set of texts because the order of an `unordered_map` is not determined. `Read` is what a
client does with the text, by the rules of HTTP. That a form is never refused
(`CaptionsKept`) is said of requests the router gives to the meme handler.

### StaticFile

A request is two steps, the open and the read, and `Replace` may give a name to another
file, to a directory or to nothing before, between and after them. Paths are sequences of
characters (`Char`), and are read as a file system reads them (`Place`): cut at their
slashes, so that two spellings of one path are the same file.

## The runs

`tlc -config X.cfg M` with the module named here.

| Run (cfg) | Module | Checks | Result |
|---|---|---|---|
| `Server` | `MCServer` | `TypeOK`, `NoUseAfterFree`, `Ownership`, `OneAcceptor`, refinement `ImplementsConnection`, liveness `Reclaimed` | hold |
| `ServerDelivery` | `MCServer` | `DeliveredIntact` | violated |
| `ServerLogging` | `MCServer` | `UnhandledExceptionsLogged` | violated |
| `PrefixMatch` | `MCPrefixMatch` | `MatchTypeOK`, `OrderIrrelevant` | hold |
| `Router` | `MCRouter` | `TypeOK`, `NoCircularWait`, `RoutesShown`, `EachResponseRecordedOnce`, `LogNamesHandler`, `PageShowsCounted`, liveness `EveryRequestReturns` | hold |
| `MemeStore` | `MCMemeStore` | `TypeOK`, `AcknowledgedMemesStay`, `DeletedMemesStayDeleted`, `CaptionsAreTheLatest`, refinement `ImplementsMemes` | hold |
| `MemeStoreViews` | `MCMemeStore` | `ViewsCounted` | violated |
| `Startup` | `MCStartup` | `TypeOK`, `StackIsOpenPath`, `NoBlockLost`, `StatementsMean`, `ListensOnStatedPort`, `RoundTrip`, liveness `BothDecide` | hold |
| `Proxy` | `MCReverseProxy` | `BodyIsWhatOriginSent`, `EchoOnlyIfRedirected`, liveness `EveryRequestAnswered` | hold |
| `ProxyLocation` | `MCReverseProxy` | `ProxyExists` | violated |
| `Exchange` | `MCExchange` | `ParsedIsSent`, `PartAgreesWithWhole`, `QueryRoundTrip`, `CaptionsKept`, `DecodeEncode`, `ReadIsSet` | hold |
| `StaticFile` | `MCStaticFile` | `ServedFromPath`, `PresentIsServed` | hold |

What the new parts show, in words. Whatever the file, start-up ends, and the server never
listens on a port that the file does not state, even if `Parse` gave up half-way. A proxy
never passes on a reply that was reset as if it were complete, and a pool whose threads all
wait for origins recovers as soon as the origins end. Nothing the request parser says of a
part of a request contradicts the whole. Captions of legal characters survive the
browser, the request parser, `UriDecode` and `body_check` unchanged. What the static handler
serves is directly in its directory, whatever directories and `..` the URI has. The log never
blames another handler than the one that served.

Some properties promise less than one would like, because the code does no more.
`RoundTrip` says that `ToString` and `Parse` agree, not that `Parse` understands a file as
it was meant. `StatementsMean` leaves negative thread counts open. `PageShowsCounted` bounds
a disagreement that exists. `QueryRoundTrip` promises the parameters behind short paths
only. No property speaks of the body of an echo. The reasons are in the list below.

What the violated runs show:

* **ServerDelivery.** `session::write` takes the response by value and hands
  `async_write` a pointer into it (`session.cc:69-74`). A response that does not fit in
  one send is continued from freed memory.
* **ServerLogging.** `session::close` uses the throwing `shutdown` (`session.cc:82`).
  A client that resets the connection after the last byte was sent ends the process by
  `std::terminate`, unlogged, against `README.md:109`.
* **MemeStoreViews.** `times_viewed` is read, incremented and written back without a
  transaction, and the result of the write is ignored (`meme_handler.cc:313-318`).
* **ProxyLocation.** The router chooses the proxy by prefix, `constructGetRequest` looks up
  the first segment of the URI. With the location `/u`, a request for `/ux` is routed to the
  proxy and `find()` returns `end()`, which is dereferenced
  (`reverse_proxy_handler.cc:170`); the comment above it says the entry is guaranteed to
  exist.

Other disagreements met while modelling. The models have them; no run is about them:

* One `async_read_some` (`session.cc:60`) is taken for the request. What arrives later is
  lost: a meme can be stored with a bottom caption that was cut off. `PartAgreesWithWhole`
  and `CaptionsKept` say how far this can go.
* The number of requests on the status page and its table are read in two critical sections
  (`status_handler.cc:25`, `:32`); `PageShowsCounted` says the table is never the shorter.
* `select_record` turns SQLITE_BUSY into an empty result (`sql_lib.cc:222`) and
  `get_meme_by_id` turns that into a 404 for a meme that exists.
* A handler name that `select_handler` does not know is logged as it is (`router.cc:103`),
  while the default handler served (`:269`).
* A carriage return or a `#` directly after a word becomes part of the word: the state of
  `config_parser.cc:131` tests the tab twice and neither of these, although between words
  the first is white space (`:102`) and the second begins a comment (`:84`).
* A file that ends in the middle of a word is accepted without the word
  (`config_parser.cc:147`), against "iff the input config file is valid"
  (`config_parser.h:44`).
* `threadCount -1` becomes 4294967295 threads (`config_parser.cc:301`): the check for a
  positive number (`:302`) comes after the conversion to unsigned. A count of 0 becomes the
  default, whatever count was given before it.
* `main()` ignores what `Parse` returns and logs "Parse success." (`server_main.cc:43`, `:49`).
* `port_num` of the proxy is not initialised; `conf/local_port:31` says that without a
  `port` statement it is 8080.
* With nested locations in one proxy block (`/u` and `/u/v`) the router chooses by the longer
  one, and `constructGetRequest`, which looks at the first segment only, sends the request to
  the host of the shorter.
* For the URI `/` the proxy reads the character in front of an empty string
  (`reverse_proxy_handler.cc:163`).
* If the origin's status line does not parse, the rest of that line and the headers are
  in front of the body that is passed on (`reverse_proxy_handler.cc:105`, `:143`).
* `Content-Type` without a `;` keeps its carriage return (`reverse_proxy_handler.cc:116`).
* A header value that holds `": "` is split at the last colon (`request.cc:140`), a body of
  several lines is lost (`request.cc:165`), and a query parameter's value is its one
  character (`request.cc:189`).
* `parse_query_string` assigns `uri_ = m.str(1)` and then reads `m.str(2)`, while `m` still
  refers to the text that `uri_` had (`request.cc:187-188`). With libstdc++ a path of up to 15
  characters is copied over the beginning of that text, and the query behind it is intact; a longer one
  brings its own memory, the text is freed, and the query is read from freed memory.
  `tests/request_test.cc:138` has a path of five characters.
* A caption ends at its first character that `body_check` does not allow
  (`meme_handler.cc:417`).
* The echo and the 400 answer read past the unterminated copy of the request
  (`request.cc:14`), so the body may be longer than the request that
  `tests/echo_handler_test.cc:27` expects it to equal, or shorter, if the request has a NUL.
* Static files with a hyphen or two dots in their name are not served
  (`static_file_handler.cc:75`); the directories in a URI are passed over, so that a request for
  `/static1/sub/a.txt` is answered with `a.txt` of the directory itself, against "serve the
  file indicated by the URI" (`:104`); a directory with an extension is answered 200 with an empty
  body (`:119`), and the two roots are joined without a slash (`:20`): below a server root
  other than `.` (`README.md:78`) a handler's relative root is found only if the server's
  ends in a slash.

### Bounds, and why they are enough

* Server: 2 threads and 2 sessions. The hazards are between the thread that starts an
  operation and one that runs its completion, beside an accept; slots are reused, so a
  stale use of a freed slot would be seen. Any number of sessions and threads is covered by
  the theorems. Responses of two units with a `SendBuffer` of one need a second send, while
  the one-unit error answers complete at once: both kinds of write occur. `Connect` leaves
  a slot for the next accept; this is the bound on open connections. `RequestSize` is 1;
  parts of a request are the subject of `Exchange`.
* Router: 2 threads and 3 requests; the locations are nested, one is registered twice, one
  URI matches nothing, and one handler name is unknown to `select_handler`. `MaxRequests`
  bounds the recorder's list.
* PrefixMatch: all 64 sets of locations of one or two characters and all URIs of up
  to three characters over two letters, in every order. The theorem removes the bound.
* MemeStore: 2 threads, 2 memes, 2 contents, `MaxRequests` = 4, `MaxCrashes` = 1. A
  bad interleaving needs a creation, a reader and a writer of the same meme, and one
  more request to observe it. `SpareIds` keeps an id for each meme being created.
* Startup: all files of up to `MaxText` = 3 characters over all 19, chosen as they are
  read; and with all their prefixes, all sequences of 3 directives at the limits of their
  values, of 6 pieces that open and close blocks, and of 4 tokens with quotes, comments and
  carriage returns next to each other. `UIntModulus` is 2^20, because TLC's integers have
  32 bits; the code's is 2^32, and no number used is near either but -1.
* Proxy: 2 clients that share a pool of one thread, one of them without need of an origin;
  a body of 0 or 1 units besides status line and headers, so that an end can come before,
  between and after any two reads. `Ask` may happen again and again.
* Exchange: up to 2 headers, 3 parameters or 2 characters of each caption, over alphabets
  with the characters that some conversion gives a meaning to and the bytes at the borders
  of the codec's ranges; bodies with CR, LF and NUL; up to two default headers; every
  prefix of the text as the part that was read; `SmallString` = 3 and a path of four characters, so
  that queries are read both from the intact text and from freed memory, which holds any
  text of the characters `Freed`. The theorems remove these bounds.
* StaticFile: URIs of up to `MaxUri` = 4 characters after the location, and those that name one of
  two files behind up to `MaxDirectories` = 2 directories or steps up. The two files, one of
  unknown type, are in any state; files of the same name lie above the directory, below it, and
  where the whole URI would lead from it; there is one change. The blocks have up to 2
  statements under 5 forms of the server's root.
* Memes and contents are interchangeable, and so are workers: `MemeStore` uses symmetry.
  The runs with liveness use none.

### Fairness

`Server!FairSpec`: `main` and a thread inside a callback go on (weak fairness): the
operating system schedules them, and handlers are assumed to return. A completed
operation is taken by some thread in the end, and the kernel completes what it can
(strong fairness): the io_service's queue is first in, first out, although between two
looks at it the threads may all be busy. Nothing is assumed of clients or signals: a
client that connects and stays silent keeps its session, as in the code.

`Router!FairSpec`: registration and every thread go on (weak fairness). `std::mutex` is
not fair, but with `MaxRequests` requests a thread cannot be overtaken for ever.

`Startup` and `ConfigRoundTrip`: `main`, and the test, go on (weak fairness of the next step);
nothing else runs then.

`ReverseProxy!FairSpec`: a request that waits is dispatched when a thread is free (the
queue is first in, first out), a handler whose call can return goes on, and an origin ends
its reply in the end. The last is an assumption about origins, which are asked for
`Connection: close`; the code has no timeout that would enforce it, and without it one
silent origin per thread stops the server for all clients.

Deadlock is checked in every run. `Ended`, `Quiet`, `Started`, `Done` and `Answered` are the
states in which the process is over, or the bounded requests have been handled.

## The proofs

TLAPS checks these theorems for every value of the constants. Eight modules hold them and
their lemmas. All properties but the liveness properties have a theorem.

| Theorem | States |
|---|---|
| `ServerProofs!TypeCorrect` | `Spec => []TypeOK` |
| `ServerProofs!SessionsOwned` | `Spec => []Ownership` |
| `ServerProofs!NoSessionUsedAfterFree` | `Spec => []NoUseAfterFree` |
| `ServerProofs!AcceptorOwned` | `Spec => []OneAcceptor` |
| `ServerProofs!ConnectionImplemented` | `Spec => ImplementsConnection` |
| `RouterProofs!MatchTypeCorrect` | `MatchSpec => []MatchTypeOK` |
| `RouterProofs!MatchCorrect` | `MatchSpec => []OrderIrrelevant` |
| `RouterProofs!TypeCorrect` | `Spec => []TypeOK` |
| `RouterProofs!MutexesAcyclic` | `Spec => []NoCircularWait` |
| `RouterProofs!RoutesAreShown` | `Spec => []RoutesShown` |
| `RouterProofs!ResponsesRecordedOnce` | `Spec => []EachResponseRecordedOnce` |
| `RouterProofs!LogIsRight` | `Spec => []LogNamesHandler` |
| `RouterProofs!PageIsComplete` | `Spec => []PageShowsCounted` |
| `MemeStoreProofs!TypeCorrect` | `Spec => []TypeOK` |
| `MemeStoreProofs!AcknowledgedStay` | `Spec => []AcknowledgedMemesStay` |
| `MemeStoreProofs!DeletedStayDeleted` | `Spec => []DeletedMemesStayDeleted` |
| `MemeStoreProofs!LatestCaptions` | `Spec => []CaptionsAreTheLatest` |
| `MemeStoreProofs!MemesImplemented` | `Spec => ImplementsMemes` |
| `StartupProofs!TypeCorrect` | `StartupSpec => []TypeOK` |
| `StartupProofs!ParsesIntoOpenBlock` | `StartupSpec => []StackIsOpenPath` |
| `StartupProofs!BlocksKept` | `StartupSpec => []NoBlockLost` |
| `StartupProofs!StatementsAreMeant` | `StartupSpec => []StatementsMean` |
| `StartupProofs!PortIsStated` | `StartupSpec => []ListensOnStatedPort` |
| `StartupProofs!RoundTripCorrect` | `TestSpec => []RoundTrip` |
| `ReverseProxyProofs!BodyComplete` | `Spec => []BodyIsWhatOriginSent` |
| `ReverseProxyProofs!EchoIsRedirection` | `Spec => []EchoOnlyIfRedirected` |
| `StaticFileProofs!ServedIsInPath` | `Spec => []ServedFromPath` |
| `StaticFileProofs!PresentServed` | `Spec => []PresentIsServed` |
| `ExchangeProofs!ParsedIsSentCorrect` | `Spec => []ParsedIsSent` |
| `ExchangeProofs!PartAgreesWithWholeCorrect` | `Spec => []PartAgreesWithWhole` |
| `ExchangeProofs!QueryRoundTripCorrect` | `Spec => []QueryRoundTrip` |
| `ExchangeProofs!CaptionsKeptCorrect` | `Spec => []CaptionsKept` |
| `ExchangeProofs!DecodeEncodeCorrect` | `Spec => []DecodeEncode` |
| `ExchangeProofs!ReadIsSetCorrect` | `Spec => []ReadIsSet` |

### Assumptions

They are the `ASSUME`s of the modules, and TLC evaluates each of them on the instances.

* Sizes and bounds are numbers, positive where a run of length 0 makes no sense; values such
  as `Nobody`, `NoOne`, `Ghost` and `Absent` are not a thread, a session, a meme or a
  version of a file.
* `Router`: `Worker` is finite, since the pool has `thread_count_` threads; a configuration
  is a sequence of locations that are not empty, each with the name of its handler. So every
  `location` statement has its argument, as in the files of `conf/`: `router.cc:61` and `:277`
  read `tokens_[1]` without a check.
* `ConfigStatements`: what `stoi` returns fits in an `int`, whose range is half that of
  `unsigned int`, and an `unsigned int` can hold the default thread count.
* `StaticFile`: `/` is a character, and the URI begins with it: the router calls the handler
  for URIs that have its location as a prefix, and locations begin with a slash, as in `conf/`.
* `Exchange`: what a client sends. `RequestAssumption` says that the path, the parameters and
  the headers are one line each with names and header values that are not empty, that a
  parameter has no character the query gives a meaning to (a name no `?` or `=`, and no `&` at
  its start; a value no `?`), and that a header's value and the body hold no colon followed by a space and the
  body no empty line. The last two are where the parser's regular expressions are known to go
  wrong (see the disagreements above), so the properties are stated of the other requests; line
  ends and NUL in a body are allowed. Of a form nothing is assumed but that its captions are
  bytes and its body is what the browser makes of them. `HeaderAssumption`: a default header
  is finite text without a line feed. `HeapAssumption`: what follows a block of the heap is
  text. `StringAssumption` (in `Request`): `SmallString`, 15 for libstdc++, is a number, and
  freed memory holds characters.

### The arguments

**Server.** The inductive invariant is `IInv`, the conjunction of `TypeOK`, `Placed`,
`Ownership` and `OneAcceptor`. `Ownership` is almost inductive: a step hands a session
from its one owner to the next. It needs `Placed`, which says that before `main` has
started accepting there are no sessions, and that a thread which touches a session
is in a frame that names one. `OneAcceptor` needs `Ownership`, because the thread that
re-arms the acceptor got there from the session it accepted. `NoUseAfterFree` follows
from `Ownership`. There is a lemma per group of actions (`main`'s steps, a thread that
goes on, a completion that is dispatched, the network), and in it one case per action.
For `ConnectionImplemented`, each action is shown to change `phase` of one session at
most and along an arrow of `Connection`; that only one session listens at a time is
`OneAcceptor`.

**PrefixMatch** (in `RouterProofs`). The loop invariant is `MatchTypeOK` with `LongestSoFar`: `longest` is the longest
match among the locations visited. Two prefixes of one URI that have the same length are
equal, so the longest match is unique and the result does not depend on the order.

**Router.** `Held(pc)` is the set of mutexes a thread holds between two steps at `pc`, and
`Ownership` says that `owner` agrees with it. `route_map_lock_` and `config_lock_` nest in
both orders; what saves the router is `StartedLate`: while registration holds
`config_lock_` no thread serves yet, and afterwards no thread keeps `config_lock_` between
its steps. So in a circle of waiting threads nobody waits for `config_lock_`, hence nobody
holds `route_map_lock_`, hence everybody waits for `log_lock_`; but its holder does not. `RegisteredSoFar`, `FirstKeeps` and `RoutesTold` relate the route map and the
recorder's list to the part of the configuration that was read; from them the second lookup,
for the log, finds what the first one did. `EachResponseRecordedOnce` counts: recording adds
one entry and moves one thread past the recorder, and the cardinality of the finite set of
such threads changes by one.

**MemeStore.** `Sound` says for each request which memes it may be about and what its answer
has been decided to be; `Unshared`, that no two requests create the same meme;
`Announced`, that a deletion under way has been asked for; `Kept` places the table between
the creations and the deletions. `DeletedMemesStayDeleted` needs all of it: the update of a
view counter changes only rows that exist, and an insert is of an id that was never
created before. For `MemesImplemented` there is a lemma per action that says which step of
`Memes` it is under `CallOf`, or that it is none: a write is a step of the abstract store
when it commits, a reader when it selects, and `Crash` maps to the abstract restart.

**Startup.** `StackIsOpenPath` needs `Increasing`, that a block on the stack is older than those
above it: otherwise adding a statement to the open block could change a block further down.
`NoBlockLost` needs `FreshStatement`: the statement that is given a block has none yet, so
`child_block_.reset` drops nothing. Both use `ChildrenExist`. `PortIsStated` and
`StatementsAreMeant` are about what `ParseStatements` computes, which is induction over
data. The loops are recursive functions of the number of iterations, and `Lemmas` has what the
proofs about them need: `LoopExists` (such a function is its defining equation),
`FiniteInduction` (a set of numbers that has 0 and with k < n also k + 1 has all up to n)
and `LoopStays` (an invariant of the loop's body holds after it). The invariant is stated as
the set of the iteration counts after which it holds, since the library's induction
theorems cannot be used here. The loop over the statements keeps: the settings so far are the
first valid port, the last root and the last thread count, with the default for 0, among the
statements taken. `ThroughUnsigned` says what the conversion to unsigned and the check make of an
`int`: one that is positive is kept, and none leaves 0 threads.

**ToString** (in `StartupProofs`). `RoundTripCorrect` compares two parses that may read quite
different texts, the file and what `ToString` prints. What they have in common is the sequence of
tokens the driver is given: `Does(s, e, t)` says that the driver in state `s` takes the token `e`
and is then in state `t`.

* *The first parse* keeps `Accepted`. Part of it is `Written`: there are tokens that take the driver from its
  start to where it is (`Story`), and what `ToString` prints of these, joined, is what it
  prints of the blocks (`Laid`). While braces are open a block is printed only in part, so `Laid` has,
  for each block on the stack, the text up to its open statement; closing a brace puts
  the finished text into the block below (`LaidClose`). `NoBlockLost` is what makes that change the
  text of no other block. `ToString` itself is a recursion over the tree: a block is younger than its
  owner (`ChildYounger`), so equal texts of the children give equal texts, from the youngest block to
  the first (`LaidWhole`). The rest of `Accepted` says that the tokenizer holds a beginning of a word.
* *The printed text* is these tokens in order with blanks between them, and a word is followed by a
  character that ends it (`StoryLaidOut`).
* *The second parse* keeps `Again`: the driver is where the first parse was after `k` tokens, and
  the tokenizer is in the blanks before the next token or holds a beginning of it (`Reading`). Each
  character either goes on with that or completes token `k + 1` (`Rereads`), and the end of
  the file can only come after the last token (`Reends`).

The theorem says that the second parse is never refused and does not end with other blocks. That it
ends is liveness (`BothDecide`), which the run checks with all characters that `ToString` prints in
`Char`; with a smaller `Char` the second parse would stop at the first one missing.

**ReverseProxy.** `ReplyTaken` says, for each `pc`, how much of the origin's reply the handler
has read; `ReplyGiven`, what an answer says of the reply, which is `Left`: all behind the headers, or
behind the beginning of a status line that does not parse.

**StaticFile.** The invariant says that `seen` has what each place held since the request began,
that what is open, and what was served, was held by a place the handler may open, and that a
404 means each of these places was seen absent. That there is only one such place, and
which, is a matter of paths, and the same loop lemmas are used for cutting them: a path that
is joined to another by a slash on either side is cut into the components of both
(`Join`), a name without slashes is one component (`OneName`), and the
regular expression of `parse_file_info` can match nothing but the URI's last segment
(`InfoIsSegment`), hence the place is the one directly in `path_` (`PlaceInPath`). For
`PresentServed`: the expression matches the last segment if it is a word, a dot and a word
(`SegmentFound`), and with a slash between the two roots the place is in the last root
below the server's (`InPathIsMeant`).

**Exchange.** The state machine is short and its invariants are plain: `DataInv` (what was read
is a beginning of what was sent), `ResponseInv` (the response is the handler's, with the default
headers once they are applied) and `CaptionInv` (the parameters are what `body_check` made of
the body that was read). The work is in the texts, that is in recursive functions:

* *Loops.* `UriEncode`, `UriDecode`, `FormEncode`, the query loop, the loop over the matches of
  `body_check` and the header lines are functions of a position. Each is shown to be its
  defining equation, and then read as a chain: the text is a concatenation of known pieces
  (`Joins`), and `Stands` says at which position piece k stands. Induction is
  `FiniteInduction` over the number of pieces, or `Backward` over the rest of a text.
* *The codec* (`DecodeEncode`). The decoder at a place where the encoding of a byte stands
  yields the byte and goes on behind it (`DecodesTexts`); the hexadecimal digits are inverse
  for all 256 bytes.
* *The response* (`ReadIsSet`). A text generated is a status line, a line
  per header, an empty line and the body (`Layout`); no line but the last of these is empty and
  no name or value has a line feed, so the client finds the end of the headers where the server put it, whatever
  the body holds (`ReadGenerated`). Setting the default headers in two orders gives the same map.
* *The request* (`ParsedIsSent`, `PartAgreesWithWhole`). `Framed` gives the places of all line
  ends of a request; a line end in a part that was read is one of them. So the request line ends where the
  regular expression finds it, every header line lies between two of them, and has its last
  colon where the client put it; a header that is cut is no header line. The body begins behind the
  empty line, and nothing in front of it is one.
* *The query* (`QueryRoundTrip`). The text that is read is the query itself if the path is short
  (`QueryTexts`). Behind the last `?`, each `=` separates a name from a value,
  and with values of one character the loop of `parse_query_string` takes one parameter per turn
  (`Separating`, `ParametersAre`).
* *The captions* (`CaptionsKept`). `Written` is the relation of a text and the characters it
  stands for: as they are, a plus, or %xx. `WrittenCut`: a beginning of such a text
  stands for a beginning of the characters, and perhaps one more, what is left of a
  cut %xx; that one is below 16, and no legal character is. So what `UriDecode` makes of a part of the form
  is a part of the form as typed, with at most one such character behind it. In the decoded form there are
  only three `=`, since a legal caption has none: each match of the regular expression is one
  of the three fields, and its key tells which (`MatchIsField`); a field whose separator was read
  is met (`FieldsMet`). The last conjunct says that a whole form with captions that are not
  empty passes (`WholeFormPasses`).

### Only model-checked

* The liveness properties `Reclaimed`, `EveryRequestReturns`, `BothDecide` and
  `EveryRequestAnswered`: liveness under fairness is out of the prover's reach.

## What is not covered

* The logger and the meme web pages (browser code): output, without state that two steps
  could disagree about.
* Files rewritten in place while they are served: what is read then depends on the file
  system. `StaticFile` has replacement by rename.
* Time: the code has no timers, except the five second sleep of the echo handler. A client
  that connects and stays silent keeps its session for ever.
* Exhaustion of memory, descriptors and counters: each meme request opens a database
  connection that is never closed (`meme_handler.cc:14`), and the recorder's list grows
  without bound. Both are listed as hazards or bounds, not modelled.
* The order of the meme list (`compareMemes`, reversed): the abstract answer is a set.
* `session::set_data`, `router::get_header`, `server::register_route`,
  `server::register_default_header`, `sql_manager::disconnect`, `drop_table` and
  `response::set_status_code` are used by tests only. Nothing calls `UriEncode`; it is
  modelled, as what `UriDecode` undoes. `extractRedirectedHost` and
  `sendGetRequestToRedirectedSite` of the proxy are never called.

## The plan

Done: the modules above, their runs, and the theorems of `Server`, `PrefixMatch`, `Router`,
`MemeStore`, `Startup`, `ConfigRoundTrip`, `ReverseProxy`, `StaticFile` and `Exchange`,
refinements included.

Left: action properties worth stating for every instance (a route, once shown, is never taken
back).
