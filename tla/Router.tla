------------------------------- MODULE Router -------------------------------
(***************************************************************************)
(* The router (router.cc), the status recorder (server_status_recorder.cc) *)
(* and the status handler (status_handler.cc), shared by all threads.      *)
(*                                                                         *)
(* Every access to the shared maps and lists is a section under a mutex.   *)
(* A section under one mutex is one step, taken when the mutex is free;    *)
(* where mutexes nest (registration, the lookup of a location that is not  *)
(* registered, the log) the outer one is held between steps.               *)
(*                                                                         *)
(* The other handlers return a status code or throw.  headers_ is empty:   *)
(* nothing in the program calls register_default_header.                   *)
(***************************************************************************)
EXTENDS Routes, FiniteSets, SequencesExt

CONSTANTS
    Worker,       \* the threads that call route_request
    Main,         \* the thread that registers the routes
    Nobody,       \* owner of a mutex that is free
    Uri,          \* the URIs clients ask for
    Code,         \* status codes of handlers other than status
    Config,       \* the locations of the config in order: [location, handler]
    MaxRequests   \* bound on the requests routed

ASSUME ThreadAssumption ==
    IsFiniteSet(Worker) /\ Main \notin Worker /\ Nobody \notin Worker \cup {Main}
ASSUME ConfigAssumption ==
    /\ Config \in Seq([location : Seq(Nat) \ {<<>>}, handler : STRING])
    /\ Uri \subseteq Seq(Nat)
ASSUME CodeAssumption   == Code \subseteq Nat /\ MaxRequests \in Nat

VARIABLES
    route_map_,            \* location -> handler name
    prefix_handler_list_,  \* what the recorder was told of route_map_
    url_response_list_,    \* the recorder's list of URI and status code
    owner,                 \* mutex -> who holds it
    mpc, next,             \* where main is in the registration, and its statement
    req,                   \* per thread: the request in route_request
    begun,                 \* requests routed so far
    returned               \* history: how often each URI and code was returned

vars == <<route_map_, prefix_handler_list_, url_response_list_, owner, mpc, next,
          req, begun, returned>>

-----------------------------------------------------------------------------
(* Mutexes and program counters *)

Lock == {"route_map_lock_", "config_lock_", "log_lock_", "header_lock_",
         "response_list_lock_", "prefix_list_lock_"}

\* The mutex that the step at pc has to take, if any.
Needs(pc) ==
    CASE pc \in {"next", "match", "lookup", "log_match", "log_lookup"} -> "route_map_lock_"
      [] pc \in {"register", "proxy", "log_proxy", "config"}          -> "config_lock_"
      [] pc \in {"insert", "prefixes"}                                -> "prefix_list_lock_"
      [] pc \in {"size", "rows", "record"}                            -> "response_list_lock_"
      [] pc = "log"                                                   -> "log_lock_"
      [] pc = "return"                                                -> "header_lock_"
      [] OTHER                                                        -> "none"

Free(lock)    == owner[lock] = Nobody
Take(p, lock) == Free(lock) /\ owner' = [owner EXCEPT ![lock] = p]
Drop(lock)    == owner' = [owner EXCEPT ![lock] = Nobody]

Pair == Uri \X (Code \cup {200})

Location == {Config[i].location : i \in 1..Len(Config)}
Name     == {Config[i].handler : i \in 1..Len(Config)} \cup {"none", "proxy", "default"}

Place == {"idle", "match", "lookup", "proxy", "config", "handle", "size", "rows", "prefixes",
          "record", "log", "log_match", "log_lookup", "log_proxy", "log_unlock", "return"}
AskedUri == Uri \cup {<<>>}
Route    == Location \cup {<<>>}
Status   == Code \cup {0, 200}
Shown    == SUBSET (Location \X Name)

Request == [pc : Place, uri : AskedUri, route : Route, handler : Name, code : Status,
            num : Nat, rows : Nat, prefixes : Shown, logged : Name]

Idle == [pc |-> "idle", uri |-> <<>>, route |-> <<>>, handler |-> "none", code |-> 0,
         num |-> 0, rows |-> 0, prefixes |-> {}, logged |-> "none"]

At(w, pc) == req[w].pc = pc

\* w goes on at pc, and a section under the mutex it needs is one step.
Section(w, pc) == At(w, pc) /\ Free(Needs(pc)) /\ UNCHANGED owner

Init ==
    /\ route_map_ = <<>> /\ prefix_handler_list_ = <<>> /\ url_response_list_ = <<>>
    /\ owner = [lock \in Lock |-> Nobody]
    /\ mpc = "register" /\ next = 1
    /\ req = [w \in Worker |-> Idle]
    /\ begun = 0
    /\ returned = [p \in Pair |-> 0]

-----------------------------------------------------------------------------
(* Registration, by main *)

recorder == <<url_response_list_, begun, returned>>

prefix_recorder(p) ==
    /\ Free("prefix_list_lock_")
    /\ prefix_handler_list_' = Append(prefix_handler_list_, p)

register_routes_from_config ==
    /\ mpc = "register" /\ mpc' = "next"
    /\ Take(Main, "config_lock_")
    /\ UNCHANGED <<route_map_, prefix_handler_list_, next, req, recorder>>

\* The next location statement, with register_route as far as its mutex.
next_location ==
    /\ mpc = "next" /\ next <= Len(Config) /\ mpc' = "insert"
    /\ Take(Main, "route_map_lock_")
    /\ UNCHANGED <<route_map_, prefix_handler_list_, next, req, recorder>>

\* BUG (mutant): the recorder is told before the location is looked up.
register_route_records_all ==
    LET loc == Config[next].location
        h   == Config[next].handler
    IN  /\ mpc = "insert" /\ mpc' = "next" /\ next' = next + 1
        /\ prefix_recorder(<<loc, h>>)
        /\ route_map_' = [l \in DOMAIN route_map_ \cup {loc} |->
                             IF l \in DOMAIN route_map_ THEN route_map_[l] ELSE h]
        /\ Drop("route_map_lock_")
        /\ UNCHANGED <<req, recorder>>

\* register_route: the first handler registered for a location keeps it.
register_route ==
    LET loc == Config[next].location
        h   == Config[next].handler
    IN  /\ mpc = "insert" /\ mpc' = "next" /\ next' = next + 1
        /\ \/ /\ loc \in DOMAIN route_map_
              /\ UNCHANGED <<route_map_, prefix_handler_list_>>
           \/ /\ loc \notin DOMAIN route_map_
              /\ prefix_recorder(<<loc, h>>)
              /\ route_map_' = [l \in DOMAIN route_map_ \cup {loc} |->
                                   IF l = loc THEN h ELSE route_map_[l]]
        /\ Drop("route_map_lock_")
        /\ UNCHANGED <<req, recorder>>

registered ==
    /\ mpc = "next" /\ next > Len(Config) /\ mpc' = "serving"
    /\ Drop("config_lock_")
    /\ UNCHANGED <<route_map_, prefix_handler_list_, next, req, recorder>>

-----------------------------------------------------------------------------
(* route_request, by the threads *)

routes == <<route_map_, prefix_handler_list_, mpc, next>>

Set(w, r) == req' = [req EXCEPT ![w] = r]
Goto(w, pc) == Set(w, [req[w] EXCEPT !.pc = pc])

\* BUG (mutant): the threads are started before the routes are registered.
serving_early == TRUE

\* main starts the threads after create_router has registered the routes.
serving == mpc = "serving"

route_request(w, uri) ==
    /\ serving /\ At(w, "idle") /\ begun < MaxRequests
    /\ begun' = begun + 1
    /\ Set(w, [Idle EXCEPT !.pc = "match", !.uri = uri])
    /\ UNCHANGED <<routes, owner, url_response_list_, returned>>

\* BUG (mutant): the URI itself is taken for the location.
longest_prefix_match_none(w, pc, then) ==
    /\ Section(w, pc)
    /\ Set(w, [req[w] EXCEPT !.pc = then, !.route = req[w].uri])
    /\ UNCHANGED <<routes, recorder>>

\* BUG (mutant): the log statement looks up the URI, not its location.
longest_prefix_match_once(w, pc, then) ==
    /\ Section(w, pc)
    /\ Set(w, [req[w] EXCEPT !.pc = then,
                             !.route = IF pc = "log_match" THEN <<>>
                                       ELSE LongestMatch(req[w].uri, DOMAIN route_map_)])
    /\ UNCHANGED <<routes, recorder>>

longest_prefix_match(w, pc, then) ==
    /\ Section(w, pc)
    /\ Set(w, [req[w] EXCEPT !.pc = then,
                             !.route = LongestMatch(req[w].uri, DOMAIN route_map_)])
    /\ UNCHANGED <<routes, recorder>>

\* get_route_handler of a registered location...
get_route_handler(w) ==
    /\ Section(w, "lookup") /\ req[w].route \in DOMAIN route_map_
    /\ Set(w, [req[w] EXCEPT !.pc = "config", !.handler = route_map_[req[w].route]])
    /\ UNCHANGED <<routes, recorder>>

\* ...and of another: the config is searched for a proxy with route_map_lock_ held.
get_route_handler_unregistered(w, pc, then) ==
    /\ At(w, pc) /\ req[w].route \notin DOMAIN route_map_
    /\ Take(w, "route_map_lock_")
    /\ Goto(w, then)
    /\ UNCHANGED <<routes, recorder>>

\* get_handler_config and validProxy.  The config has at most one proxy block.
ProxyOrDefault(route) ==
    IF \E i \in 1..Len(Config) : Config[i] = [location |-> route, handler |-> "proxy"]
    THEN "proxy" ELSE "default"

validProxy(w) ==
    /\ At(w, "proxy") /\ Free("config_lock_")
    /\ Drop("route_map_lock_")
    /\ Set(w, [req[w] EXCEPT !.pc = "config", !.handler = ProxyOrDefault(req[w].route)])
    /\ UNCHANGED <<routes, recorder>>

Handler == {"echo", "static1", "static2", "webMeme", "imageMeme", "status",
            "proxy", "meme", "health"}

\* select_handler: a name it does not know gets the default handler.
Served(name) == IF name \in Handler THEN name ELSE "default"

get_handler_config(w) ==
    /\ Section(w, "config")
    /\ Goto(w, IF Served(req[w].handler) = "status" THEN "size" ELSE "handle")
    /\ UNCHANGED <<routes, recorder>>

\* A handler returns a response...
handle_request(w) ==
    /\ At(w, "handle")
    /\ \E code \in Code : Set(w, [req[w] EXCEPT !.pc = "record", !.code = code])
    /\ UNCHANGED <<routes, owner, recorder>>

\* ...or throws, which ends route_request: the session answers 500.
handle_request_throws(w) ==
    /\ At(w, "handle")
    /\ Set(w, Idle)
    /\ UNCHANGED <<routes, owner, recorder>>

get_url_response_list_size == Len(url_response_list_)
get_url_response_list      == url_response_list_
get_prefix_handler_list    == prefix_handler_list_

\* status_handler::handle_request: the size, the list and the prefixes are
\* read in three sections; with a size of 0 no row is shown.
status_size(w) ==
    /\ Section(w, "size")
    /\ Set(w, [req[w] EXCEPT !.pc = "rows", !.num = get_url_response_list_size])
    /\ UNCHANGED <<routes, recorder>>

\* BUG (mutant): the rows shown are the ones before the latest request.
status_rows_short(w) ==
    /\ Section(w, "rows")
    /\ Set(w, [req[w] EXCEPT !.pc = "prefixes",
                             !.rows = IF Len(url_response_list_) = 0 THEN 0
                                      ELSE Len(url_response_list_) - 1])
    /\ UNCHANGED <<routes, recorder>>

status_rows(w) ==
    /\ Section(w, "rows")
    /\ Set(w, [req[w] EXCEPT !.pc = "prefixes",
                             !.rows = IF req[w].num = 0 THEN 0
                                      ELSE Len(get_url_response_list)])
    /\ UNCHANGED <<routes, recorder>>

status_prefixes(w) ==
    /\ Section(w, "prefixes")
    /\ Set(w, [req[w] EXCEPT !.pc = "record", !.code = 200,
                             !.prefixes = ToSet(get_prefix_handler_list)])
    /\ UNCHANGED <<routes, recorder>>

\* BUG (mutant): a response equal to the last one recorded is not recorded.
request_recorder_merges(w) ==
    LET r == <<req[w].uri, req[w].code>>
    IN  /\ Section(w, "record")
        /\ url_response_list_' =
              IF url_response_list_ # <<>> /\ url_response_list_[Len(url_response_list_)] = r
              THEN url_response_list_ ELSE Append(url_response_list_, r)
        /\ Goto(w, "log")
        /\ UNCHANGED <<routes, begun, returned>>

request_recorder(w) ==
    /\ Section(w, "record")
    /\ url_response_list_' = Append(url_response_list_, <<req[w].uri, req[w].code>>)
    /\ Goto(w, "log")
    /\ UNCHANGED <<routes, begun, returned>>

\* The log statement looks the name up again, with log_lock_ held.
log_lock(w) ==
    /\ At(w, "log")
    /\ Take(w, "log_lock_")
    /\ Goto(w, "log_match")
    /\ UNCHANGED <<routes, recorder>>

\* The name is logged as it was registered, known to select_handler or not.
log_handler(w) ==
    /\ Section(w, "log_lookup") /\ req[w].route \in DOMAIN route_map_
    /\ Set(w, [req[w] EXCEPT !.pc = "log_unlock", !.logged = route_map_[req[w].route]])
    /\ UNCHANGED <<routes, recorder>>

log_validProxy(w) ==
    /\ At(w, "log_proxy") /\ Free("config_lock_")
    /\ Drop("route_map_lock_")
    /\ Set(w, [req[w] EXCEPT !.pc = "log_unlock", !.logged = ProxyOrDefault(req[w].route)])
    /\ UNCHANGED <<routes, recorder>>

\* BUG (mutant): log_lock_ is not unlocked.
log_unlock_forgets(w) ==
    /\ At(w, "log_unlock")
    /\ Goto(w, "return")
    /\ UNCHANGED <<routes, owner, recorder>>

log_unlock(w) ==
    /\ At(w, "log_unlock")
    /\ Drop("log_lock_")
    /\ Goto(w, "return")
    /\ UNCHANGED <<routes, recorder>>

\* apply_default_headers has none to apply; the response goes to the session.
apply_default_headers(w) ==
    /\ Section(w, "return")
    /\ returned' = [returned EXCEPT ![<<req[w].uri, req[w].code>>] = @ + 1]
    /\ Set(w, Idle)
    /\ UNCHANGED <<routes, url_response_list_, begun>>

-----------------------------------------------------------------------------
(* The specification *)

Register == \/ register_routes_from_config \/ next_location
            \/ register_route \/ registered

Proceed(w) ==
    \/ longest_prefix_match(w, "match", "lookup")
    \/ get_route_handler(w)
    \/ get_route_handler_unregistered(w, "lookup", "proxy")
    \/ validProxy(w) \/ get_handler_config(w)
    \/ handle_request(w) \/ handle_request_throws(w)
    \/ status_size(w) \/ status_rows(w) \/ status_prefixes(w)
    \/ request_recorder(w)
    \/ log_lock(w)
    \/ longest_prefix_match(w, "log_match", "log_lookup")
    \/ log_handler(w)
    \/ get_route_handler_unregistered(w, "log_lookup", "log_proxy")
    \/ log_validProxy(w) \/ log_unlock(w) \/ apply_default_headers(w)

Quiet ==
    /\ serving /\ begun = MaxRequests /\ \A w \in Worker : At(w, "idle")
    /\ UNCHANGED vars

Next == \/ Register
        \/ \E w \in Worker : Proceed(w) \/ \E uri \in Uri : route_request(w, uri)
        \/ Quiet

(***************************************************************************)
(* Every thread is scheduled and handlers return.  std::mutex is not fair, *)
(* but with boundedly many requests the contenders run out.                *)
(***************************************************************************)
Fairness == WF_vars(Register) /\ \A w \in Worker : WF_vars(Proceed(w))

Spec == Init /\ [][Next]_vars
FairSpec == Spec /\ Fairness

-----------------------------------------------------------------------------
(* Properties *)

\* The maps and lists hold what their types say, and a route is a registered
\* location or empty.
TypeOK ==
    /\ DOMAIN route_map_ \subseteq Location
    /\ \A l \in DOMAIN route_map_ : route_map_[l] \in Name
    /\ prefix_handler_list_ \in Seq(Location \X Name) /\ url_response_list_ \in Seq(Pair)
    /\ owner \in [Lock -> Worker \cup {Main, Nobody}]
    /\ mpc \in {"register", "next", "insert", "serving"} /\ next \in 1..(Len(Config) + 1)
    /\ req \in [Worker -> Request]
    /\ \A w \in Worker : req[w].route \in DOMAIN route_map_ \cup {<<>>}
    /\ begun \in 0..MaxRequests /\ returned \in [Pair -> Nat]

Pc(p) == IF p = Main THEN mpc ELSE req[p].pc
Blocked(p) == Needs(Pc(p)) # "none" /\ ~Free(Needs(Pc(p)))

\* No set of threads wait for mutexes held by one another.  Registration takes
\* config_lock_ before route_map_lock_ and a lookup takes them the other way
\* round: they must never meet.
NoCircularWait ==
    ~\E S \in SUBSET (Worker \cup {Main}) :
        S # {} /\ \A p \in S : Blocked(p) /\ owner[Needs(Pc(p))] \in S

PageRead(w) == Served(req[w].handler) = "status" /\ (At(w, "prefixes") \/ At(w, "record"))

\* The prefixes on the status page are the routes in force, each once, and the
\* first handler registered for a location keeps it: "prioritize first handler
\* registered for a given uri".
RoutesShown ==
    /\ Len(prefix_handler_list_) = Cardinality(DOMAIN route_map_)
    /\ \A i \in 1..Len(prefix_handler_list_) :
          prefix_handler_list_[i] = <<prefix_handler_list_[i][1],
                                      route_map_[prefix_handler_list_[i][1]]>>
    /\ \A l \in DOMAIN route_map_ : \E i \in 1..Len(Config) :
          /\ Config[i] = [location |-> l, handler |-> route_map_[l]]
          /\ \A j \in 1..(i - 1) : Config[j].location # l
    /\ serving => DOMAIN route_map_ = Location
    /\ \A w \in Worker : PageRead(w) /\ At(w, "record") =>
          req[w].prefixes = {<<l, route_map_[l]>> : l \in DOMAIN route_map_}

Recorded(w) == req[w].pc \in {"log", "log_match", "log_lookup", "log_proxy", "log_unlock", "return"}

\* Every response a handler produced is in the recorder once, before the
\* session gets it, whatever the threads' order; one that threw is not.
EachResponseRecordedOnce ==
    \A p \in Pair :
        Cardinality({i \in 1..Len(url_response_list_) : url_response_list_[i] = p})
          = returned[p] + Cardinality({w \in Worker : Recorded(w) /\ <<req[w].uri, req[w].code>> = p})

\* The log line is made by a second lookup, after the handler has returned.  It
\* names the handler that served the request, or else a name that no handler has,
\* and then the default handler served it: it never blames another handler.
LogNamesHandler ==
    \A w \in Worker : req[w].logged # "none" =>
        LET served == Served(req[w].handler)
        IN \/ req[w].logged = served
           \/ req[w].logged \notin Handler /\ served = "default"

\* The status page shows at least the requests it counts.
PageShowsCounted == \A w \in Worker : PageRead(w) => req[w].num <= req[w].rows

\* Every request routed comes back, with a response or an exception.
EveryRequestReturns == \A w \in Worker : At(w, "match") ~> At(w, "idle")
=============================================================================
