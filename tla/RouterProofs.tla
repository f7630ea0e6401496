---------------------------- MODULE RouterProofs ----------------------------
(***************************************************************************)
(* For any number of threads, locations, URIs and requests: the mutexes of *)
(* the router never wait for one another in a circle, and what the         *)
(* recorder, the status page and the log say agrees with what was served.  *)
(***************************************************************************)
EXTENDS Router, PrefixMatch, Lemmas, FiniteSetTheorems

\* The mutexes that a thread holds at pc, between its steps.
Held(pc) ==
    CASE pc = "next"       -> {"config_lock_"}
      [] pc = "insert"     -> {"config_lock_", "route_map_lock_"}
      [] pc = "proxy"      -> {"route_map_lock_"}
      [] pc = "log_proxy"  -> {"route_map_lock_", "log_lock_"}
      [] pc \in {"log_match", "log_lookup", "log_unlock"} -> {"log_lock_"}
      [] OTHER             -> {}

\* A mutex belongs to the thread that holds it, and to nobody else.
Ownership ==
    \A lock \in Lock, p \in Worker \cup {Main} : owner[lock] = p <=> lock \in Held(Pc(p))

\* The threads start when registration is over.
StartedLate == serving \/ \A w \in Worker : At(w, "idle")

\* The locations registered so far.
RegisteredSoFar ==
    /\ DOMAIN route_map_ = {Config[i].location : i \in 1..(next - 1)}
    /\ mpc = "insert" => next <= Len(Config)
    /\ serving => next = Len(Config) + 1

\* The first handler registered for a location keeps it.
FirstKeeps ==
    \A l \in DOMAIN route_map_ : \E i \in 1..Len(Config) :
        /\ Config[i] = [location |-> l, handler |-> route_map_[l]]
        /\ \A j \in 1..(i - 1) : Config[j].location # l

\* The recorder was told of every route, once.
RoutesTold ==
    /\ IsFiniteSet(DOMAIN route_map_)
    /\ Len(prefix_handler_list_) = Cardinality(DOMAIN route_map_)
    /\ ToSet(prefix_handler_list_) = {<<l, route_map_[l]>> : l \in DOMAIN route_map_}

\* What both lookups of a request return.
HandlerOf(route) == IF route \in DOMAIN route_map_ THEN route_map_[route] ELSE ProxyOrDefault(route)
RouteOf(r) == LongestMatch(r.uri, DOMAIN route_map_)

Responded(r) ==
    r.pc \in {"record", "log", "log_match", "log_lookup", "log_proxy", "log_unlock", "return"}
Selected(r) == r.pc \in {"config", "handle", "size", "rows", "prefixes"} \/ Responded(r)

\* What a request knows at each point of route_request.
LookupSound(r) ==
    /\ r.pc # "idle" => r.uri \in Uri
    /\ r.pc \in {"lookup", "proxy", "log_lookup", "log_proxy"} => r.route = RouteOf(r)
    /\ r.pc \in {"proxy", "log_proxy"} => r.route \notin DOMAIN route_map_
    /\ Selected(r) => r.handler = HandlerOf(RouteOf(r))
    /\ r.logged # "none" => r.pc \in {"log_unlock", "return"} /\ r.logged = r.handler

PageSound(r) ==
    /\ r.pc = "rows" => r.num <= Len(url_response_list_)
    /\ r.pc = "prefixes" => r.num <= r.rows
    /\ r.pc = "handle" => Served(r.handler) # "status"
    /\ r.pc = "record" /\ Served(r.handler) = "status" =>
          r.num <= r.rows /\ r.prefixes = ToSet(prefix_handler_list_)
    /\ Responded(r) => r.code \in Code \cup {200}

Sound(r) == LookupSound(r) /\ PageSound(r)

IInv ==
    /\ TypeOK
    /\ Ownership
    /\ StartedLate
    /\ RegisteredSoFar
    /\ FirstKeeps
    /\ RoutesTold
    /\ \A w \in Worker : Sound(req[w])
    /\ EachResponseRecordedOnce

-----------------------------------------------------------------------------
(* The constants and longest_prefix_match *)

LEMMA ConfigFacts ==
  /\ Len(Config) \in Nat
  /\ \A i \in 1..Len(Config) : /\ Config[i].location \in Seq(Nat) /\ Config[i].handler \in Name
                               /\ Config[i] = [location |-> Config[i].location, handler |-> Config[i].handler]
                               /\ Config[i].location \in Location
  <1>. DEFINE Statement == [location : Seq(Nat) \ {<<>>}, handler : STRING]
  <1>1. Config \in Seq(Statement)
    BY ConfigAssumption
  <1>2. Len(Config) \in Nat /\ \A i \in 1..Len(Config) : Config[i] \in Statement
    <2>. HIDE DEF Statement
    <2>. QED BY <1>1
  <1>. QED BY <1>2 DEF Location, Name

LEMMA Locations == Location \subseteq Seq(Nat)
  BY ConfigFacts DEF Location

LEMMA RouteType ==
  ASSUME NEW u \in Uri, NEW L \in SUBSET Location
  PROVE  LongestMatch(u, L) \in L \cup {<<>>}
  <1>1. u \in Seq(Nat) /\ L \in SUBSET Seq(Nat)
    BY Locations, ConfigAssumption
  <1>2. \E r \in L \cup {<<>>} : IsLongest(r, u, L)
    BY <1>1, LongestExists
  <1>. QED BY <1>2 DEF LongestMatch

-----------------------------------------------------------------------------
(* The mutexes *)

\* Only two mutexes are held by a thread that waits: route_map_lock_ while it
\* waits for config_lock_, which nobody holds once the threads run, and
\* log_lock_ while it waits for route_map_lock_.
LEMMA MutexOrder ==
  ASSUME TypeOK, Ownership, StartedLate
  PROVE  NoCircularWait
  <1>. SUFFICES ASSUME NEW S \in SUBSET (Worker \cup {Main}), S # {},
                       \A p \in S : Blocked(p) /\ owner[Needs(Pc(p))] \in S
                PROVE  FALSE
    BY DEF NoCircularWait
  <1>1. \A p \in S : /\ Needs(Pc(p)) \in Lock
                     /\ \E o \in S : o = owner[Needs(Pc(p))] /\ Needs(Pc(p)) \in Held(Pc(o))
    <2>1. ASSUME NEW p \in S PROVE Needs(Pc(p)) \in Lock
      BY <2>1 DEF Blocked, Needs, Lock
    <2>. QED BY <2>1 DEF Ownership
  <1>2. Pc(Main) = mpc /\ \A w \in Worker : Pc(w) = req[w].pc
    BY ThreadAssumption DEF Pc
  <1>3. CASE ~serving
    <2>1. ASSUME NEW w \in Worker PROVE w \notin S
      <3>1. Pc(w) = "idle"
        BY <1>2, <1>3 DEF StartedLate, At
      <3>. QED BY <3>1 DEF Blocked, Needs
    <2>2. S = {Main}
      BY <2>1
    <2>3. Needs(mpc) \in Held(mpc)
      BY <1>1, <1>2, <2>2
    <2>. QED BY <2>3 DEF TypeOK, Needs, Held
  <1>4. CASE serving
    <2>1. Main \notin S
      BY <1>2, <1>4 DEF serving, Blocked, Needs
    <2>2. \A w \in S : req[w].pc \notin {"next", "insert"}
      BY <2>1 DEF TypeOK, Request, Place
    <2>3. \A p \in S : Needs(Pc(p)) # "config_lock_"
      BY <1>1, <1>2, <2>1, <2>2 DEF Held
    <2>4. \A p \in S : "route_map_lock_" \notin Held(Pc(p))
      <3>1. ASSUME NEW p \in S, "route_map_lock_" \in Held(Pc(p)) PROVE FALSE
        <4>1. Pc(p) \in {"proxy", "log_proxy"}
          BY <1>2, <2>1, <2>2, <3>1 DEF Held
        <4>2. Needs(Pc(p)) = "config_lock_"
          BY <4>1 DEF Needs
        <4>. QED BY <2>3, <4>2
      <3>. QED BY <3>1
    <2>5. \A p \in S : Needs(Pc(p)) = "log_lock_"
      <3>1. ASSUME NEW p \in S PROVE Needs(Pc(p)) = "log_lock_"
        <4>1. PICK o \in S : Needs(Pc(p)) \in Held(Pc(o))
          BY <1>1
        <4>2. Held(Pc(o)) \subseteq {"config_lock_", "route_map_lock_", "log_lock_"}
          BY DEF Held
        <4>. QED BY <2>3, <2>4, <4>1, <4>2
      <3>. QED BY <3>1
    <2>6. PICK p \in S : TRUE
      OBVIOUS
    <2>7. PICK o \in S : "log_lock_" \in Held(Pc(o))
      BY <1>1, <2>5, <2>6
    <2>8. Needs(Pc(o)) # "log_lock_"
      BY <2>7 DEF Held, Needs
    <2>. QED BY <2>5, <2>8
  <1>. QED BY <1>3, <1>4

\* A thread takes and gives back the mutexes that its new place says.
LEMMA OwnerFollows ==
  ASSUME IInv, NEW w \in Worker, NEW r \in Request, req' = [req EXCEPT ![w] = r], UNCHANGED mpc,
         owner' \in [Lock -> Worker \cup {Main, Nobody}],
         \A lock \in Lock :
            /\ owner'[lock] = IF lock \in Held(r.pc) THEN w
                              ELSE IF lock \in Held(req[w].pc) THEN Nobody ELSE owner[lock]
            /\ lock \in Held(r.pc) => owner[lock] \in {w, Nobody}
  PROVE  Ownership'
  <1>1. req'[w] = r /\ \A v \in Worker \ {w} : req'[v] = req[v]
    BY DEF IInv, TypeOK
  <1>2. Pc(w) = req[w].pc /\ Pc(w)' = r.pc /\ w # Nobody
    BY <1>1, ThreadAssumption DEF Pc
  <1>3. ASSUME NEW p \in Worker \cup {Main}, p # w PROVE Pc(p)' = Pc(p) /\ p # Nobody
    BY <1>1, <1>3, ThreadAssumption DEF Pc
  <1>4. ASSUME NEW lock \in Lock, NEW p \in Worker \cup {Main}
        PROVE  owner'[lock] = p <=> lock \in Held(Pc(p)')
    <2>1. owner[lock] = p <=> lock \in Held(Pc(p))
      BY DEF IInv, Ownership
    <2>2. owner[lock] = w <=> lock \in Held(req[w].pc)
      BY <1>2 DEF IInv, Ownership
    <2>3. CASE p = w
      BY <1>2, <2>2, <2>3
    <2>4. CASE p # w
      BY <1>2, <1>3, <2>1, <2>2, <2>4
    <2>. QED BY <2>3, <2>4
  <1>. QED BY <1>4 DEF Ownership

-----------------------------------------------------------------------------
(* The recorder *)

\* The response of r that the recorder has and the session has not.
Pending(r) ==
    IF r.pc \in {"log", "log_match", "log_lookup", "log_proxy", "log_unlock", "return"}
    THEN {<<r.uri, r.code>>} ELSE {}

Positions(list, p) == {i \in 1..Len(list) : list[i] = p}
Holders(p) == {w \in Worker : p \in Pending(req[w])}

LEMMA Counted ==
  EachResponseRecordedOnce <=>
    \A p \in Pair : Cardinality(Positions(url_response_list_, p)) = returned[p] + Cardinality(Holders(p))
  <1>1. ASSUME NEW p PROVE Holders(p) = {w \in Worker : Recorded(w) /\ <<req[w].uri, req[w].code>> = p}
    BY DEF Holders, Pending, Recorded
  <1>2. ASSUME NEW p
        PROVE  Positions(url_response_list_, p) =
                 {i \in 1..Len(url_response_list_) : url_response_list_[i] = p}
    BY DEF Positions
  <1>. QED BY <1>1, <1>2 DEF EachResponseRecordedOnce

LEMMA CountedNext ==
  EachResponseRecordedOnce' <=>
    \A p \in Pair : Cardinality(Positions(url_response_list_', p)) = returned'[p] + Cardinality(Holders(p)')
  <1>1. ASSUME NEW p PROVE Holders(p)' = {w \in Worker : Recorded(w) /\ <<req[w].uri, req[w].code>> = p}'
    BY DEF Holders, Pending, Recorded
  <1>2. ASSUME NEW p
        PROVE  Positions(url_response_list_', p) =
                 {i \in 1..Len(url_response_list_') : url_response_list_'[i] = p}
    BY DEF Positions
  <1>. QED BY <1>1, <1>2 DEF EachResponseRecordedOnce

LEMMA HoldersChange ==
  ASSUME IInv, NEW w \in Worker, NEW r, req' = [req EXCEPT ![w] = r], NEW p
  PROVE  Holders(p)' = IF p \in Pending(r) THEN Holders(p) \cup {w} ELSE Holders(p) \ {w}
  <1>1. req'[w] = r /\ \A v \in Worker \ {w} : req'[v] = req[v]
    BY DEF IInv, TypeOK
  <1>2. Holders(p)' = {v \in Worker : p \in Pending(req'[v])}
    BY DEF Holders, Pending
  <1>. QED BY <1>1, <1>2 DEF Holders

LEMMA HoldersFinite ==
  ASSUME NEW p
  PROVE  IsFiniteSet(Holders(p)) /\ Cardinality(Holders(p)) \in Nat
  <1>1. Holders(p) \in SUBSET Worker
    BY DEF Holders
  <1>2. IsFiniteSet(Holders(p))
    BY <1>1, ThreadAssumption, FS_Subset
  <1>. QED BY <1>2, FS_CardinalityType

LEMMA CountSame ==
  ASSUME IInv, NEW w \in Worker, NEW r, req' = [req EXCEPT ![w] = r], Pending(r) = Pending(req[w]),
         UNCHANGED <<url_response_list_, returned>>
  PROVE  EachResponseRecordedOnce'
  <1>1. ASSUME NEW p PROVE Holders(p)' = Holders(p)
    BY HoldersChange DEF Holders
  <1>. QED BY <1>1, Counted, CountedNext DEF IInv

\* The recorder gets the response of w...
LEMMA CountRecorded ==
  ASSUME IInv, NEW w \in Worker, NEW r, req' = [req EXCEPT ![w] = r],
         NEW x \in Pair, Pending(req[w]) = {}, Pending(r) = {x}, UNCHANGED returned,
         url_response_list_' = Append(url_response_list_, x)
  PROVE  EachResponseRecordedOnce'
  <1>. DEFINE list == url_response_list_
  <1>1. list \in Seq(Pair) /\ Len(list) \in Nat /\ returned \in [Pair -> Nat]
    BY DEF IInv, TypeOK
  <1>2. /\ Len(list') = Len(list) + 1 /\ list'[Len(list) + 1] = x
        /\ \A i \in 1..Len(list) : list'[i] = list[i]
    BY <1>1, AppendProperties
  <1>. HIDE DEF list
  <1>3. ASSUME NEW p \in Pair
        PROVE  Cardinality(Positions(list', p)) = returned[p] + Cardinality(Holders(p)')
    <2>1. IsFiniteSet(Positions(list, p)) /\ Cardinality(Positions(list, p)) \in Nat
      <3>1. IsFiniteSet(1..Len(list))
        BY <1>1, FS_Interval
      <3>2. Positions(list, p) \in SUBSET (1..Len(list))
        BY DEF Positions
      <3>3. IsFiniteSet(Positions(list, p))
        BY <3>1, <3>2, FS_Subset
      <3>. QED BY <3>3, FS_CardinalityType
    <2>2. IsFiniteSet(Holders(p)) /\ Cardinality(Holders(p)) \in Nat
      BY HoldersFinite
    <2>3. Cardinality(Positions(list, p)) = returned[p] + Cardinality(Holders(p)) /\ returned[p] \in Nat
      BY <1>1, Counted DEF IInv, list
    <2>4. w \notin Holders(p)
      BY DEF Holders
    <2>5. CASE p = x
      <3>1. Positions(list', p) = Positions(list, p) \cup {Len(list) + 1}
        BY <1>1, <1>2, <2>5 DEF Positions
      <3>2. Len(list) + 1 \notin Positions(list, p)
        BY <1>1 DEF Positions
      <3>3. Cardinality(Positions(list', p)) = Cardinality(Positions(list, p)) + 1
        BY <2>1, <3>1, <3>2, FS_AddElement
      <3>4. Holders(p)' = Holders(p) \cup {w}
        BY <2>5, HoldersChange
      <3>5. Cardinality(Holders(p)') = Cardinality(Holders(p)) + 1
        BY <2>2, <2>4, <3>4, FS_AddElement
      <3>. QED BY <2>1, <2>2, <2>3, <3>3, <3>5
    <2>6. CASE p # x
      <3>1. Positions(list', p) = Positions(list, p)
        BY <1>1, <1>2, <2>6 DEF Positions
      <3>2. Holders(p)' = Holders(p) \ {w}
        BY <2>6, HoldersChange
      <3>3. Holders(p)' = Holders(p)
        BY <2>4, <3>2
      <3>. QED BY <2>3, <3>1, <3>3
    <2>. QED BY <2>5, <2>6
  <1>. QED BY <1>3, CountedNext DEF list

\* ...and later the session gets it.
LEMMA CountReturned ==
  ASSUME IInv, NEW w \in Worker, NEW r, req' = [req EXCEPT ![w] = r],
         NEW x \in Pair, Pending(req[w]) = {x}, Pending(r) = {},
         returned' = [returned EXCEPT ![x] = @ + 1], UNCHANGED url_response_list_
  PROVE  EachResponseRecordedOnce'
  <1>1. returned \in [Pair -> Nat]
    BY DEF IInv, TypeOK
  <1>2. ASSUME NEW p \in Pair
        PROVE  Cardinality(Positions(url_response_list_, p)) = returned'[p] + Cardinality(Holders(p)')
    <2>1. IsFiniteSet(Holders(p)) /\ Cardinality(Holders(p)) \in Nat
      BY HoldersFinite
    <2>2. /\ Cardinality(Positions(url_response_list_, p)) = returned[p] + Cardinality(Holders(p))
          /\ returned[p] \in Nat
      BY <1>1, Counted DEF IInv
    <2>3. Holders(p)' = Holders(p) \ {w}
      BY HoldersChange
    <2>4. w \in Holders(p) <=> p = x
      BY DEF Holders
    <2>5. Cardinality(Holders(p)') = IF p = x THEN Cardinality(Holders(p)) - 1 ELSE Cardinality(Holders(p))
      BY <2>1, <2>3, <2>4, FS_RemoveElement
    <2>6. returned'[p] = IF p = x THEN returned[p] + 1 ELSE returned[p]
      BY <1>1
    <2>. QED BY <2>1, <2>2, <2>5, <2>6
  <1>. QED BY <1>2, CountedNext

-----------------------------------------------------------------------------
(* The steps of the threads *)

\* Nothing a thread does changes the routes.
LEMMA ThreadStep ==
  ASSUME IInv, NEW w \in Worker, NEW r \in Request, req' = [req EXCEPT ![w] = r], serving,
         UNCHANGED routes, Sound(r), r.route \in DOMAIN route_map_ \cup {<<>>},
         url_response_list_' \in Seq(Pair), Len(url_response_list_) <= Len(url_response_list_'),
         begun' \in 0..MaxRequests, returned' \in [Pair -> Nat],
         owner' \in [Lock -> Worker \cup {Main, Nobody}], Ownership', EachResponseRecordedOnce'
  PROVE  IInv'
  <1>1. req' \in [Worker -> Request] /\ req'[w] = r /\ \A v \in Worker \ {w} : req'[v] = req[v]
    BY DEF IInv, TypeOK
  <1>2. /\ route_map_' = route_map_ /\ prefix_handler_list_' = prefix_handler_list_
        /\ mpc' = mpc /\ next' = next
    BY DEF routes
  <1>3. TypeOK'
    <2>1. \A v \in Worker : req'[v].route \in DOMAIN route_map_ \cup {<<>>}
      BY <1>1 DEF IInv, TypeOK
    <2>. QED BY <1>1, <1>2, <2>1 DEF IInv, TypeOK
  <1>4. ASSUME NEW v \in Worker PROVE Sound(req[v])'
    <2>1. LookupSound(req'[v]) /\ PageSound(req'[v])
      BY <1>1 DEF IInv, Sound
    <2>2. LookupSound(req[v])'
      BY <1>2, <2>1 DEF LookupSound, RouteOf, HandlerOf, Selected, Responded
    <2>3. PageSound(req[v])'
      <3>. DEFINE r1 == req'[v]
      <3>1. r1 \in Request /\ r1.num \in Nat
        BY <1>1 DEF Request
      <3>2. Len(url_response_list_) \in Nat /\ Len(url_response_list_') \in Nat
        BY DEF IInv, TypeOK
      <3>3. r1.pc = "rows" => r1.num <= Len(url_response_list_')
        BY <2>1, <3>1, <3>2 DEF PageSound
      <3>. QED BY <1>2, <2>1, <3>3 DEF PageSound, Responded
    <2>. QED BY <2>2, <2>3 DEF Sound
  <1>5. StartedLate' /\ RegisteredSoFar'
    BY <1>2 DEF IInv, StartedLate, serving, RegisteredSoFar
  <1>6. FirstKeeps'
    BY <1>2 DEF IInv, FirstKeeps
  <1>7. RoutesTold'
    BY <1>2 DEF IInv, RoutesTold
  <1>. QED BY <1>3, <1>4, <1>5, <1>6, <1>7 DEF IInv

LEMMA TypeFacts ==
  ASSUME IInv, NEW w \in Worker
  PROVE  /\ req[w] \in Request /\ Sound(req[w])
         /\ req[w].route \in DOMAIN route_map_ \cup {<<>>}
         /\ DOMAIN route_map_ \subseteq Location
         /\ req[w].pc # "idle" => serving
         /\ url_response_list_ \in Seq(Pair) /\ Len(url_response_list_) \in Nat
         /\ begun \in 0..MaxRequests /\ returned \in [Pair -> Nat]
         /\ owner \in [Lock -> Worker \cup {Main, Nobody}]
  BY DEF IInv, TypeOK, StartedLate, At

\* A thread goes on with the mutexes it holds.
LEMMA KeepsLocks ==
  ASSUME IInv, NEW w \in Worker, NEW r \in Request, req' = [req EXCEPT ![w] = r], UNCHANGED <<mpc, owner>>,
         Held(r.pc) = Held(req[w].pc)
  PROVE  Ownership'
  <1>1. \A lock \in Held(req[w].pc) \cap Lock : owner[lock] = w
    BY ThreadAssumption DEF IInv, Ownership, Pc
  <1>2. owner \in [Lock -> Worker \cup {Main, Nobody}]
    BY TypeFacts
  <1>. QED BY <1>1, <1>2, OwnerFollows

LEMMA TakesLock ==
  ASSUME IInv, NEW w \in Worker, NEW r \in Request, req' = [req EXCEPT ![w] = r], UNCHANGED mpc,
         NEW lock \in Lock, Take(w, lock), Held(r.pc) = Held(req[w].pc) \cup {lock}
  PROVE  Ownership' /\ owner' \in [Lock -> Worker \cup {Main, Nobody}]
  <1>1. \A l \in Held(req[w].pc) \cap Lock : owner[l] = w
    BY ThreadAssumption DEF IInv, Ownership, Pc
  <1>2. owner[lock] = Nobody /\ owner' = [owner EXCEPT ![lock] = w]
    BY DEF Take, Free
  <1>3. owner \in [Lock -> Worker \cup {Main, Nobody}]
    BY TypeFacts
  <1>4. owner' \in [Lock -> Worker \cup {Main, Nobody}]
    BY <1>2, <1>3
  <1>5. \A l \in Lock : owner'[l] = IF l = lock THEN w ELSE owner[l]
    BY <1>2, <1>3
  <1>. QED BY <1>1, <1>2, <1>4, <1>5, OwnerFollows, ZenonT(40)

LEMMA DropsLock ==
  ASSUME IInv, NEW w \in Worker, NEW r \in Request, req' = [req EXCEPT ![w] = r], UNCHANGED mpc,
         NEW lock \in Lock, Drop(lock), lock \in Held(req[w].pc), Held(r.pc) = Held(req[w].pc) \ {lock}
  PROVE  Ownership' /\ owner' \in [Lock -> Worker \cup {Main, Nobody}]
  <1>1. \A l \in Held(req[w].pc) \cap Lock : owner[l] = w
    BY ThreadAssumption DEF IInv, Ownership, Pc
  <1>2. owner' = [owner EXCEPT ![lock] = Nobody]
    BY DEF Drop
  <1>3. owner \in [Lock -> Worker \cup {Main, Nobody}]
    BY TypeFacts
  <1>4. owner' \in [Lock -> Worker \cup {Main, Nobody}]
    BY <1>2, <1>3
  <1>5. \A l \in Lock : owner'[l] = IF l = lock THEN Nobody ELSE owner[l]
    BY <1>2, <1>3
  <1>6. ASSUME NEW l \in Lock
        PROVE  /\ owner'[l] = IF l \in Held(r.pc) THEN w
                              ELSE IF l \in Held(req[w].pc) THEN Nobody ELSE owner[l]
               /\ l \in Held(r.pc) => owner[l] \in {w, Nobody}
    BY <1>1, <1>5
  <1>. QED BY <1>4, <1>6, OwnerFollows

\* A step that only changes the request.
LEMMA PlainStep ==
  ASSUME IInv, NEW w \in Worker, NEW r \in Request, req' = [req EXCEPT ![w] = r], serving,
         UNCHANGED <<routes, owner, url_response_list_, returned>>, begun' \in 0..MaxRequests,
         Held(r.pc) = Held(req[w].pc), Pending(r) = Pending(req[w]),
         Sound(r), r.route \in DOMAIN route_map_ \cup {<<>>}
  PROVE  IInv'
  <1>1. Ownership'
    BY KeepsLocks DEF routes
  <1>2. EachResponseRecordedOnce'
    BY CountSame
  <1>3. /\ url_response_list_' \in Seq(Pair) /\ Len(url_response_list_) <= Len(url_response_list_')
        /\ returned' \in [Pair -> Nat] /\ owner' \in [Lock -> Worker \cup {Main, Nobody}]
    BY TypeFacts
  <1>. QED BY <1>1, <1>2, <1>3, ThreadStep

LEMMA IdleSound == Idle \in Request /\ Sound(Idle) /\ Pending(Idle) = {} /\ Held(Idle.pc) = {}
  <1>1. Idle \in Request
    <2>1. "idle" \in Place
      BY DEF Place
    <2>. DEFINE empty == <<>>
                nothing == {}
                code == 0
                none == "none"
    <2>2. Idle = [pc |-> "idle", uri |-> empty, route |-> empty, handler |-> none, code |-> code,
                  num |-> 0, rows |-> 0, prefixes |-> nothing, logged |-> none]
      BY DEF Idle
    <2>3. /\ empty \in AskedUri /\ empty \in Route
          /\ nothing \in Shown
          /\ none \in Name
      <3>1. empty \in AskedUri /\ empty \in Route
        BY DEF AskedUri, Route
      <3>2. nothing \in Shown
        BY DEF Shown
      <3>3. none \in Name
        BY DEF Name
      <3>. HIDE DEF empty, nothing, none
      <3>. QED BY <3>1, <3>2, <3>3
    <2>4. code \in Status
      BY DEF Status
    <2>. HIDE DEF empty, nothing, code, none
    <2>. QED BY <2>1, <2>2, <2>3, <2>4 DEF Request
  <1>2. Sound(Idle)
    BY DEF Idle, Sound, LookupSound, PageSound, Selected, Responded
  <1>3. Pending(Idle) = {} /\ Held(Idle.pc) = {}
    BY DEF Idle, Pending, Held
  <1>. QED BY <1>1, <1>2, <1>3

LEMMA RouteRequest ==
  ASSUME IInv, NEW w \in Worker, NEW u \in Uri, route_request(w, u)
  PROVE  IInv'
  <1>. DEFINE r == [Idle EXCEPT !.pc = "match", !.uri = u]
  <1>1. /\ serving /\ req[w].pc = "idle" /\ req' = [req EXCEPT ![w] = r]
        /\ UNCHANGED <<routes, owner, url_response_list_, returned>>
    BY DEF route_request, At, Set
  <1>2. begun' \in 0..MaxRequests
    BY TypeFacts, CodeAssumption DEF route_request
  <1>3. /\ r \in Request /\ r.pc = "match" /\ r.uri = u /\ r.route = Idle.route /\ r.logged = Idle.logged
    <2>1. "match" \in Place /\ u \in AskedUri
      BY DEF Place, AskedUri
    <2>. QED BY <2>1, IdleSound DEF Request
  <1>4. Idle.route = <<>> /\ Idle.logged = "none"
    BY DEF Idle
  <1>. HIDE DEF r
  <1>5. Held(r.pc) = Held(req[w].pc) /\ Pending(r) = Pending(req[w])
    BY <1>1, <1>3 DEF Held, Pending
  <1>6. Sound(r)
    BY <1>3, <1>4 DEF Sound, LookupSound, PageSound, Selected, Responded
  <1>. QED BY <1>1, <1>2, <1>3, <1>4, <1>5, <1>6, PlainStep

LEMMA LongestPrefixMatch ==
  ASSUME IInv, NEW w \in Worker,
         \/ longest_prefix_match(w, "match", "lookup")
         \/ longest_prefix_match(w, "log_match", "log_lookup")
  PROVE  IInv'
  <1>. DEFINE q == req[w]
              route == LongestMatch(q.uri, DOMAIN route_map_)
              then == IF q.pc = "match" THEN "lookup" ELSE "log_lookup"
              r == [q EXCEPT !.pc = then, !.route = route]
  <1>1. /\ q.pc \in {"match", "log_match"} /\ req' = [req EXCEPT ![w] = r]
        /\ UNCHANGED <<routes, owner, url_response_list_, begun, returned>>
    BY DEF longest_prefix_match, Section, At, Set, recorder
  <1>2. q \in Request /\ LookupSound(q) /\ PageSound(q) /\ serving /\ begun' \in 0..MaxRequests
    BY <1>1, TypeFacts DEF Sound
  <1>3. route \in DOMAIN route_map_ \cup {<<>>} /\ DOMAIN route_map_ \subseteq Location
    <2>1. q.uri \in Uri /\ DOMAIN route_map_ \in SUBSET Location
      BY <1>1, <1>2, TypeFacts DEF LookupSound
    <2>. QED BY <2>1, RouteType
  <1>. HIDE DEF route
  <1>4. /\ r \in Request /\ r.pc = then /\ r.route = route /\ r.uri = q.uri /\ r.handler = q.handler
        /\ r.code = q.code /\ r.logged = q.logged
    <2>1. then \in Place /\ route \in Route
      BY <1>3 DEF Place, Route
    <2>. HIDE DEF then
    <2>. QED BY <1>2, <2>1 DEF Request
  <1>. HIDE DEF r
  <1>5. Held(r.pc) = Held(q.pc) /\ Pending(r) = Pending(q)
    BY <1>1, <1>4 DEF Held, Pending
  <1>6. r.route = RouteOf(r) /\ RouteOf(r) = RouteOf(q)
    BY <1>4 DEF RouteOf, route
  <1>7. LookupSound(r)
    BY <1>1, <1>2, <1>4, <1>6 DEF LookupSound, Selected, Responded
  <1>8. PageSound(r)
    BY <1>1, <1>2, <1>4 DEF PageSound, Responded
  <1>. QED BY <1>1, <1>2, <1>3, <1>4, <1>5, <1>7, <1>8, PlainStep DEF Sound

\* The handler is found in route_map_.
LEMMA Registered ==
  ASSUME IInv, NEW w \in Worker, get_route_handler(w) \/ log_handler(w)
  PROVE  IInv'
  <1>. DEFINE q == req[w]
              name == route_map_[q.route]
              r1 == [q EXCEPT !.pc = "config", !.handler = name]
              r2 == [q EXCEPT !.pc = "log_unlock", !.logged = name]
  <1>1. /\ \/ q.pc = "lookup" /\ req' = [req EXCEPT ![w] = r1]
           \/ q.pc = "log_lookup" /\ req' = [req EXCEPT ![w] = r2]
        /\ q.route \in DOMAIN route_map_
        /\ UNCHANGED <<routes, owner, url_response_list_, begun, returned>>
    BY DEF get_route_handler, log_handler, Section, At, Set, recorder
  <1>2. q \in Request /\ LookupSound(q) /\ PageSound(q) /\ serving /\ begun' \in 0..MaxRequests
    BY <1>1, TypeFacts DEF Sound
  <1>3. name \in Name /\ name = HandlerOf(RouteOf(q))
    BY <1>1, <1>2 DEF IInv, TypeOK, LookupSound, HandlerOf
  <1>. HIDE DEF name
  <1>4. CASE q.pc = "lookup" /\ req' = [req EXCEPT ![w] = r1]
    <2>1. /\ r1 \in Request /\ r1.pc = "config" /\ r1.route = q.route /\ r1.uri = q.uri
          /\ r1.handler = name /\ r1.logged = q.logged
      <3>1. "config" \in Place
        BY DEF Place
      <3>. QED BY <1>2, <1>3, <3>1 DEF Request
    <2>. HIDE DEF r1, r2
    <2>2. Held(r1.pc) = Held(q.pc) /\ Pending(r1) = Pending(q)
      BY <1>4, <2>1 DEF Held, Pending
    <2>3. LookupSound(r1)
      <3>1. RouteOf(r1) = RouteOf(q)
        BY <2>1 DEF RouteOf
      <3>. QED BY <1>2, <1>3, <1>4, <2>1, <3>1 DEF LookupSound
    <2>4. PageSound(r1)
      BY <2>1 DEF PageSound, Responded
    <2>. QED BY <1>1, <1>2, <1>4, <2>1, <2>2, <2>3, <2>4, PlainStep DEF Sound
  <1>5. CASE q.pc = "log_lookup" /\ req' = [req EXCEPT ![w] = r2]
    <2>1. /\ r2 \in Request /\ r2.pc = "log_unlock" /\ r2.route = q.route /\ r2.uri = q.uri
          /\ r2.handler = q.handler /\ r2.logged = name /\ r2.code = q.code
      <3>1. "log_unlock" \in Place
        BY DEF Place
      <3>. QED BY <1>2, <1>3, <3>1 DEF Request
    <2>. HIDE DEF r1, r2
    <2>2. Held(r2.pc) = Held(q.pc) /\ Pending(r2) = Pending(q)
      BY <1>5, <2>1 DEF Held, Pending
    <2>3. LookupSound(r2)
      <3>1. RouteOf(r2) = RouteOf(q)
        BY <2>1 DEF RouteOf
      <3>2. q.handler = name
        BY <1>2, <1>3, <1>5 DEF LookupSound, Selected, Responded
      <3>. QED BY <1>2, <1>3, <1>5, <2>1, <3>1, <3>2 DEF LookupSound
    <2>4. PageSound(r2)
      BY <1>2, <1>5, <2>1 DEF PageSound, Responded
    <2>. QED BY <1>1, <1>2, <1>5, <2>1, <2>2, <2>3, <2>4, PlainStep DEF Sound
  <1>. QED BY <1>1, <1>4, <1>5

\* A step that takes or gives back a mutex.
LEMMA MutexStep ==
  ASSUME IInv, NEW w \in Worker, NEW r \in Request, req' = [req EXCEPT ![w] = r], serving,
         UNCHANGED <<routes, recorder>>, Ownership', owner' \in [Lock -> Worker \cup {Main, Nobody}],
         Pending(r) = Pending(req[w]), Sound(r), r.route \in DOMAIN route_map_ \cup {<<>>}
  PROVE  IInv'
  <1>1. EachResponseRecordedOnce'
    BY CountSame DEF recorder
  <1>2. /\ url_response_list_' \in Seq(Pair) /\ Len(url_response_list_) <= Len(url_response_list_')
        /\ returned' \in [Pair -> Nat] /\ begun' \in 0..MaxRequests
    BY TypeFacts DEF recorder
  <1>. QED BY <1>1, <1>2, ThreadStep

\* The location is not registered: the config is searched with route_map_lock_ held.
LEMMA Unregistered ==
  ASSUME IInv, NEW w \in Worker,
         \/ get_route_handler_unregistered(w, "lookup", "proxy")
         \/ get_route_handler_unregistered(w, "log_lookup", "log_proxy")
  PROVE  IInv'
  <1>. DEFINE q == req[w]
              then == IF q.pc = "lookup" THEN "proxy" ELSE "log_proxy"
              r == [q EXCEPT !.pc = then]
  <1>1. /\ q.pc \in {"lookup", "log_lookup"} /\ req' = [req EXCEPT ![w] = r]
        /\ q.route \notin DOMAIN route_map_ /\ Take(w, "route_map_lock_")
        /\ UNCHANGED <<routes, recorder>>
    BY DEF get_route_handler_unregistered, At, Goto, Set
  <1>2. q \in Request /\ LookupSound(q) /\ PageSound(q) /\ serving
    BY <1>1, TypeFacts DEF Sound
  <1>3. /\ r \in Request /\ r.pc = then /\ r.route = q.route /\ r.uri = q.uri /\ r.handler = q.handler
        /\ r.code = q.code /\ r.logged = q.logged
    <2>1. then \in Place
      BY DEF Place
    <2>. HIDE DEF then
    <2>. QED BY <1>2, <2>1 DEF Request
  <1>. HIDE DEF r
  <1>4. Held(r.pc) = Held(q.pc) \cup {"route_map_lock_"} /\ Pending(r) = Pending(q)
    BY <1>1, <1>3 DEF Held, Pending
  <1>5. "route_map_lock_" \in Lock /\ UNCHANGED mpc
    BY <1>1 DEF Lock, routes
  <1>6. Ownership' /\ owner' \in [Lock -> Worker \cup {Main, Nobody}]
    BY <1>1, <1>3, <1>4, <1>5, TakesLock
  <1>7. RouteOf(r) = RouteOf(q)
    BY <1>3 DEF RouteOf
  <1>8. LookupSound(r)
    BY <1>1, <1>2, <1>3, <1>7 DEF LookupSound, Selected, Responded
  <1>9. PageSound(r)
    BY <1>1, <1>2, <1>3 DEF PageSound, Responded
  <1>. QED BY <1>1, <1>2, <1>3, <1>4, <1>6, <1>8, <1>9, TypeFacts, MutexStep DEF Sound

LEMMA ValidProxy ==
  ASSUME IInv, NEW w \in Worker, validProxy(w) \/ log_validProxy(w)
  PROVE  IInv'
  <1>. DEFINE q == req[w]
              name == ProxyOrDefault(q.route)
              r1 == [q EXCEPT !.pc = "config", !.handler = name]
              r2 == [q EXCEPT !.pc = "log_unlock", !.logged = name]
  <1>1. /\ \/ q.pc = "proxy" /\ req' = [req EXCEPT ![w] = r1]
           \/ q.pc = "log_proxy" /\ req' = [req EXCEPT ![w] = r2]
        /\ Drop("route_map_lock_") /\ UNCHANGED <<routes, recorder>>
    BY DEF validProxy, log_validProxy, At, Set
  <1>2. q \in Request /\ LookupSound(q) /\ PageSound(q) /\ serving /\ q.route \in DOMAIN route_map_ \cup {<<>>}
    BY <1>1, TypeFacts DEF Sound
  <1>3. name \in Name /\ name = HandlerOf(RouteOf(q))
    BY <1>1, <1>2 DEF Name, ProxyOrDefault, LookupSound, HandlerOf
  <1>4. "route_map_lock_" \in Lock /\ UNCHANGED mpc /\ "route_map_lock_" \in Held(q.pc)
    BY <1>1 DEF Lock, routes, Held
  <1>. HIDE DEF name
  <1>5. CASE q.pc = "proxy" /\ req' = [req EXCEPT ![w] = r1]
    <2>1. /\ r1 \in Request /\ r1.pc = "config" /\ r1.route = q.route /\ r1.uri = q.uri
          /\ r1.handler = name /\ r1.logged = q.logged
      <3>1. "config" \in Place
        BY DEF Place
      <3>. QED BY <1>2, <1>3, <3>1 DEF Request
    <2>. HIDE DEF r1, r2
    <2>2. Held(r1.pc) = Held(q.pc) \ {"route_map_lock_"} /\ Pending(r1) = Pending(q)
      BY <1>5, <2>1 DEF Held, Pending
    <2>3. LookupSound(r1)
      <3>1. RouteOf(r1) = RouteOf(q)
        BY <2>1 DEF RouteOf
      <3>. QED BY <1>2, <1>3, <1>5, <2>1, <3>1 DEF LookupSound
    <2>4. PageSound(r1)
      BY <2>1 DEF PageSound, Responded
    <2>5. Ownership' /\ owner' \in [Lock -> Worker \cup {Main, Nobody}]
      BY <1>1, <1>4, <1>5, <2>1, <2>2, DropsLock
    <2>. QED BY <1>1, <1>2, <1>5, <2>1, <2>2, <2>3, <2>4, <2>5, MutexStep DEF Sound
  <1>6. CASE q.pc = "log_proxy" /\ req' = [req EXCEPT ![w] = r2]
    <2>1. /\ r2 \in Request /\ r2.pc = "log_unlock" /\ r2.route = q.route /\ r2.uri = q.uri
          /\ r2.handler = q.handler /\ r2.logged = name /\ r2.code = q.code
      <3>1. "log_unlock" \in Place
        BY DEF Place
      <3>. QED BY <1>2, <1>3, <3>1 DEF Request
    <2>. HIDE DEF r1, r2
    <2>2. Held(r2.pc) = Held(q.pc) \ {"route_map_lock_"} /\ Pending(r2) = Pending(q)
      BY <1>6, <2>1 DEF Held, Pending
    <2>3. LookupSound(r2)
      <3>1. RouteOf(r2) = RouteOf(q)
        BY <2>1 DEF RouteOf
      <3>2. q.handler = name
        BY <1>2, <1>3, <1>6 DEF LookupSound, Selected, Responded
      <3>. QED BY <1>2, <1>3, <1>6, <2>1, <3>1, <3>2 DEF LookupSound
    <2>4. PageSound(r2)
      BY <1>2, <1>6, <2>1 DEF PageSound, Responded
    <2>5. Ownership' /\ owner' \in [Lock -> Worker \cup {Main, Nobody}]
      BY <1>1, <1>4, <1>6, <2>1, <2>2, DropsLock
    <2>. QED BY <1>1, <1>2, <1>6, <2>1, <2>2, <2>3, <2>4, <2>5, MutexStep DEF Sound
  <1>. QED BY <1>1, <1>5, <1>6

LEMMA LogLocks ==
  ASSUME IInv, NEW w \in Worker, log_lock(w) \/ log_unlock(w)
  PROVE  IInv'
  <1>. DEFINE q == req[w]
              then == IF q.pc = "log" THEN "log_match" ELSE "return"
              r == [q EXCEPT !.pc = then]
  <1>1. /\ q.pc \in {"log", "log_unlock"} /\ req' = [req EXCEPT ![w] = r]
        /\ q.pc = "log" => Take(w, "log_lock_")
        /\ q.pc = "log_unlock" => Drop("log_lock_")
        /\ UNCHANGED <<routes, recorder>>
    BY DEF log_lock, log_unlock, At, Goto, Set
  <1>2. q \in Request /\ LookupSound(q) /\ PageSound(q) /\ serving /\ q.route \in DOMAIN route_map_ \cup {<<>>}
    BY <1>1, TypeFacts DEF Sound
  <1>3. /\ r \in Request /\ r.pc = then /\ r.route = q.route /\ r.uri = q.uri /\ r.handler = q.handler
        /\ r.code = q.code /\ r.logged = q.logged
    <2>1. then \in Place
      BY DEF Place
    <2>. HIDE DEF then
    <2>. QED BY <1>2, <2>1 DEF Request
  <1>. HIDE DEF r
  <1>4. Pending(r) = Pending(q) /\ "log_lock_" \in Lock /\ UNCHANGED mpc
    BY <1>1, <1>3 DEF Pending, Lock, routes
  <1>5. Ownership' /\ owner' \in [Lock -> Worker \cup {Main, Nobody}]
    <2>1. CASE q.pc = "log"
      <3>1. Held(r.pc) = Held(q.pc) \cup {"log_lock_"}
        BY <1>3, <2>1 DEF Held
      <3>. QED BY <1>1, <1>3, <1>4, <2>1, <3>1, TakesLock
    <2>2. CASE q.pc = "log_unlock"
      <3>1. Held(r.pc) = Held(q.pc) \ {"log_lock_"} /\ "log_lock_" \in Held(q.pc)
        BY <1>3, <2>2 DEF Held
      <3>. QED BY <1>1, <1>3, <1>4, <2>2, <3>1, DropsLock
    <2>. QED BY <1>1, <2>1, <2>2
  <1>6. RouteOf(r) = RouteOf(q)
    BY <1>3 DEF RouteOf
  <1>7. LookupSound(r)
    BY <1>1, <1>2, <1>3, <1>6 DEF LookupSound, Selected, Responded
  <1>8. PageSound(r)
    BY <1>1, <1>2, <1>3 DEF PageSound, Responded
  <1>. QED BY <1>1, <1>2, <1>3, <1>4, <1>5, <1>7, <1>8, MutexStep DEF Sound

\* The rest of a request's fields, in the steps that neither look up nor log.
LEMMA SameLookup ==
  ASSUME NEW q, NEW r, LookupSound(q), Selected(q), Selected(r),
         q.pc \in {"config", "handle", "size", "rows", "prefixes", "record"},
         r.pc \in {"handle", "size", "rows", "prefixes", "record", "log"},
         r.uri = q.uri, r.handler = q.handler, r.logged = q.logged
  PROVE  LookupSound(r)
  <1>1. RouteOf(r) = RouteOf(q)
    BY DEF RouteOf
  <1>. QED BY <1>1 DEF LookupSound

LEMMA GetHandlerConfig ==
  ASSUME IInv, NEW w \in Worker, get_handler_config(w)
  PROVE  IInv'
  <1>. DEFINE q == req[w]
              then == IF Served(q.handler) = "status" THEN "size" ELSE "handle"
              r == [q EXCEPT !.pc = then]
  <1>1. /\ q.pc = "config" /\ req' = [req EXCEPT ![w] = r]
        /\ UNCHANGED <<routes, owner, url_response_list_, begun, returned>>
    BY DEF get_handler_config, Section, At, Goto, Set, recorder
  <1>2. /\ q \in Request /\ LookupSound(q) /\ PageSound(q) /\ serving /\ begun' \in 0..MaxRequests
        /\ q.route \in DOMAIN route_map_ \cup {<<>>}
    BY <1>1, TypeFacts DEF Sound
  <1>3. /\ r \in Request /\ r.pc = then /\ r.route = q.route /\ r.uri = q.uri /\ r.handler = q.handler
        /\ r.logged = q.logged
    <2>1. then \in Place
      BY DEF Place
    <2>. HIDE DEF then
    <2>. QED BY <1>2, <2>1 DEF Request
  <1>. HIDE DEF r
  <1>4. Held(r.pc) = Held(q.pc) /\ Pending(r) = Pending(q)
    BY <1>1, <1>3 DEF Held, Pending
  <1>5. LookupSound(r)
    <2>1. Selected(q) /\ Selected(r)
      BY <1>1, <1>3 DEF Selected
    <2>. QED BY <1>1, <1>2, <1>3, <2>1, SameLookup
  <1>6. PageSound(r)
    BY <1>3 DEF PageSound, Responded
  <1>. QED BY <1>1, <1>2, <1>3, <1>4, <1>5, <1>6, PlainStep DEF Sound

LEMMA HandleRequest ==
  ASSUME IInv, NEW w \in Worker, handle_request(w)
  PROVE  IInv'
  <1>. DEFINE q == req[w]
  <1>1. PICK code \in Code : req' = [req EXCEPT ![w] = [q EXCEPT !.pc = "record", !.code = code]]
    BY DEF handle_request, Set
  <1>. DEFINE r == [q EXCEPT !.pc = "record", !.code = code]
  <1>2. /\ q.pc = "handle" /\ req' = [req EXCEPT ![w] = r]
        /\ UNCHANGED <<routes, owner, url_response_list_, begun, returned>>
    BY <1>1 DEF handle_request, At, recorder
  <1>3. /\ q \in Request /\ LookupSound(q) /\ PageSound(q) /\ serving /\ begun' \in 0..MaxRequests
        /\ q.route \in DOMAIN route_map_ \cup {<<>>}
    BY <1>2, TypeFacts DEF Sound
  <1>4. /\ r \in Request /\ r.pc = "record" /\ r.route = q.route /\ r.uri = q.uri
        /\ r.handler = q.handler /\ r.logged = q.logged /\ r.code = code
    <2>1. "record" \in Place
      BY DEF Place
    <2>2. code \in Status
      BY DEF Status
    <2>. QED BY <1>3, <2>1, <2>2 DEF Request
  <1>. HIDE DEF r
  <1>5. Held(r.pc) = Held(q.pc) /\ Pending(r) = Pending(q)
    BY <1>2, <1>4 DEF Held, Pending
  <1>6. LookupSound(r)
    <2>1. Selected(q) /\ Selected(r)
      BY <1>2, <1>4 DEF Selected, Responded
    <2>. QED BY <1>2, <1>3, <1>4, <2>1, SameLookup
  <1>7. PageSound(r)
    BY <1>2, <1>3, <1>4 DEF PageSound, Responded
  <1>. QED BY <1>2, <1>3, <1>4, <1>5, <1>6, <1>7, PlainStep DEF Sound

LEMMA HandlerThrows ==
  ASSUME IInv, NEW w \in Worker, handle_request_throws(w)
  PROVE  IInv'
  <1>1. /\ req[w].pc = "handle" /\ req' = [req EXCEPT ![w] = Idle]
        /\ UNCHANGED <<routes, owner, url_response_list_, begun, returned>>
    BY DEF handle_request_throws, Set, At, recorder
  <1>2. serving /\ begun' \in 0..MaxRequests
    BY <1>1, TypeFacts
  <1>3. Held(req[w].pc) = {} /\ Pending(req[w]) = {} /\ Idle.route \in DOMAIN route_map_ \cup {<<>>}
    BY <1>1 DEF Held, Pending, Idle
  <1>. QED BY <1>1, <1>2, <1>3, IdleSound, PlainStep

\* The three sections that the status page is made of.
LEMMA StatusPage ==
  ASSUME IInv, NEW w \in Worker, status_size(w) \/ status_rows(w) \/ status_prefixes(w)
  PROVE  IInv'
  <1>. DEFINE q == req[w]
              len == Len(url_response_list_)
              shown == ToSet(prefix_handler_list_)
              rows == IF q.num = 0 THEN 0 ELSE len
              r1 == [q EXCEPT !.pc = "rows", !.num = len]
              r2 == [q EXCEPT !.pc = "prefixes", !.rows = rows]
              r3 == [q EXCEPT !.pc = "record", !.code = 200, !.prefixes = shown]
  <1>1. /\ \/ q.pc = "size" /\ req' = [req EXCEPT ![w] = r1]
           \/ q.pc = "rows" /\ req' = [req EXCEPT ![w] = r2]
           \/ q.pc = "prefixes" /\ req' = [req EXCEPT ![w] = r3]
        /\ UNCHANGED <<routes, owner, url_response_list_, begun, returned>>
    BY DEF status_size, status_rows, status_prefixes, Section, At, Set, recorder,
           get_url_response_list_size, get_url_response_list, get_prefix_handler_list
  <1>2. /\ q \in Request /\ LookupSound(q) /\ PageSound(q) /\ serving /\ begun' \in 0..MaxRequests
        /\ q.route \in DOMAIN route_map_ \cup {<<>>} /\ len \in Nat
    BY <1>1, TypeFacts DEF Sound
  <1>3. shown \in Shown
    <2>1. prefix_handler_list_ \in Seq(Location \X Name)
      BY DEF IInv, TypeOK
    <2>2. \A i \in DOMAIN prefix_handler_list_ : prefix_handler_list_[i] \in Location \X Name
      BY <2>1
    <2>. QED BY <2>2 DEF ToSet, Shown
  <1>4. rows \in Nat /\ q.num \in Nat
    BY <1>2 DEF Request
  <1>5. {"rows", "prefixes", "record"} \subseteq Place /\ 200 \in Status
    BY DEF Place, Status
  <1>6. Selected(q)
    BY <1>1 DEF Selected
  <1>7. CASE q.pc = "size" /\ req' = [req EXCEPT ![w] = r1]
    <2>. HIDE DEF len
    <2>1. /\ r1 \in Request /\ r1.pc = "rows" /\ r1.route = q.route /\ r1.uri = q.uri
          /\ r1.handler = q.handler /\ r1.logged = q.logged /\ r1.num = len
      BY <1>2, <1>5 DEF Request
    <2>. HIDE DEF r1, r2, r3
    <2>2. Held(r1.pc) = Held(q.pc) /\ Pending(r1) = Pending(q) /\ Selected(r1)
      BY <1>7, <2>1 DEF Held, Pending, Selected
    <2>3. LookupSound(r1)
      BY <1>2, <1>6, <1>7, <2>1, <2>2, SameLookup
    <2>4. PageSound(r1)
      BY <1>2, <2>1 DEF PageSound, Responded, len
    <2>. QED BY <1>1, <1>2, <1>7, <2>1, <2>2, <2>3, <2>4, PlainStep DEF Sound
  <1>8. CASE q.pc = "rows" /\ req' = [req EXCEPT ![w] = r2]
    <2>0. q.num <= rows
      BY <1>2, <1>4, <1>8 DEF PageSound
    <2>. HIDE DEF rows
    <2>1. /\ r2 \in Request /\ r2.pc = "prefixes" /\ r2.route = q.route /\ r2.uri = q.uri
          /\ r2.handler = q.handler /\ r2.logged = q.logged /\ r2.num = q.num /\ r2.rows = rows
      BY <1>2, <1>4, <1>5 DEF Request
    <2>. HIDE DEF r1, r2, r3
    <2>2. Held(r2.pc) = Held(q.pc) /\ Pending(r2) = Pending(q) /\ Selected(r2)
      BY <1>8, <2>1 DEF Held, Pending, Selected
    <2>3. LookupSound(r2)
      BY <1>2, <1>6, <1>8, <2>1, <2>2, SameLookup
    <2>4. PageSound(r2)
      BY <2>0, <2>1 DEF PageSound, Responded
    <2>. QED BY <1>1, <1>2, <1>8, <2>1, <2>2, <2>3, <2>4, PlainStep DEF Sound
  <1>9. CASE q.pc = "prefixes" /\ req' = [req EXCEPT ![w] = r3]
    <2>. HIDE DEF shown
    <2>1. /\ r3 \in Request /\ r3.pc = "record" /\ r3.route = q.route /\ r3.uri = q.uri
          /\ r3.handler = q.handler /\ r3.logged = q.logged /\ r3.num = q.num /\ r3.rows = q.rows
          /\ r3.prefixes = shown /\ r3.code = 200
      <3>. DEFINE ok == 200
      <3>1. ok \in Status
        BY <1>5
      <3>. HIDE DEF ok
      <3>2. r3 = [q EXCEPT !.pc = "record", !.code = ok, !.prefixes = shown]
        BY DEF ok
      <3>3. /\ r3 \in Request /\ r3.pc = "record" /\ r3.route = q.route /\ r3.uri = q.uri
            /\ r3.handler = q.handler /\ r3.logged = q.logged /\ r3.num = q.num /\ r3.rows = q.rows
            /\ r3.prefixes = shown /\ r3.code = ok
        <4>. HIDE DEF r3
        <4>. QED BY <1>2, <1>3, <1>5, <3>1, <3>2 DEF Request
      <3>. QED BY <3>3 DEF ok
    <2>. HIDE DEF r1, r2, r3
    <2>2. Held(r3.pc) = Held(q.pc) /\ Pending(r3) = Pending(q) /\ Selected(r3)
      BY <1>9, <2>1 DEF Held, Pending, Selected, Responded
    <2>3. LookupSound(r3)
      BY <1>2, <1>6, <1>9, <2>1, <2>2, SameLookup
    <2>4. PageSound(r3)
      BY <1>2, <1>9, <2>1 DEF PageSound, Responded, shown
    <2>. QED BY <1>1, <1>2, <1>9, <2>1, <2>2, <2>3, <2>4, PlainStep DEF Sound
  <1>. QED BY <1>1, <1>7, <1>8, <1>9

LEMMA RequestRecorder ==
  ASSUME IInv, NEW w \in Worker, request_recorder(w)
  PROVE  IInv'
  <1>. DEFINE q == req[w]
              x == <<q.uri, q.code>>
              r == [q EXCEPT !.pc = "log"]
  <1>1. /\ q.pc = "record" /\ req' = [req EXCEPT ![w] = r] /\ UNCHANGED <<routes, owner, begun, returned>>
        /\ url_response_list_' = Append(url_response_list_, x)
    BY DEF request_recorder, Section, At, Goto, Set
  <1>2. /\ q \in Request /\ LookupSound(q) /\ PageSound(q) /\ serving
        /\ q.route \in DOMAIN route_map_ \cup {<<>>}
    BY <1>1, TypeFacts DEF Sound
  <1>3. x \in Pair
    BY <1>1, <1>2 DEF Pair, LookupSound, PageSound, Responded
  <1>4. /\ r \in Request /\ r.pc = "log" /\ r.route = q.route /\ r.uri = q.uri
        /\ r.handler = q.handler /\ r.logged = q.logged /\ r.code = q.code
    <2>1. "log" \in Place
      BY DEF Place
    <2>. QED BY <1>2, <2>1 DEF Request
  <1>. HIDE DEF r
  <1>5. Held(r.pc) = Held(q.pc) /\ Pending(q) = {} /\ Pending(r) = {x}
    BY <1>1, <1>4 DEF Held, Pending
  <1>. HIDE DEF x
  <1>6. EachResponseRecordedOnce'
    BY <1>1, <1>3, <1>5, CountRecorded
  <1>7. Ownership' /\ owner' \in [Lock -> Worker \cup {Main, Nobody}]
    BY <1>1, <1>4, <1>5, KeepsLocks, TypeFacts DEF routes
  <1>8. LookupSound(r)
    <2>1. Selected(q) /\ Selected(r)
      BY <1>1, <1>4 DEF Selected, Responded
    <2>. QED BY <1>1, <1>2, <1>4, <2>1, SameLookup
  <1>9. PageSound(r)
    BY <1>1, <1>2, <1>4 DEF PageSound, Responded
  <1>10. /\ url_response_list_' \in Seq(Pair) /\ Len(url_response_list_) <= Len(url_response_list_')
         /\ returned' \in [Pair -> Nat] /\ begun' \in 0..MaxRequests
    BY <1>1, <1>3, TypeFacts, AppendProperties
  <1>. QED BY <1>1, <1>2, <1>4, <1>6, <1>7, <1>8, <1>9, <1>10, ThreadStep DEF Sound

LEMMA ApplyDefaultHeaders ==
  ASSUME IInv, NEW w \in Worker, apply_default_headers(w)
  PROVE  IInv'
  <1>. DEFINE q == req[w]
              x == <<q.uri, q.code>>
  <1>1. /\ q.pc = "return" /\ req' = [req EXCEPT ![w] = Idle]
        /\ UNCHANGED <<routes, owner, url_response_list_, begun>>
        /\ returned' = [returned EXCEPT ![x] = @ + 1]
    BY DEF apply_default_headers, Section, At, Set
  <1>2. LookupSound(q) /\ PageSound(q) /\ serving
    BY <1>1, TypeFacts DEF Sound
  <1>3. x \in Pair
    BY <1>1, <1>2 DEF Pair, LookupSound, PageSound, Responded
  <1>4. Pending(q) = {x} /\ Held(q.pc) = {} /\ Idle.route \in DOMAIN route_map_ \cup {<<>>}
    BY <1>1 DEF Pending, Held, Idle
  <1>. HIDE DEF x
  <1>5. EachResponseRecordedOnce'
    BY <1>1, <1>3, <1>4, IdleSound, CountReturned
  <1>6. Ownership' /\ owner' \in [Lock -> Worker \cup {Main, Nobody}]
    BY <1>1, <1>4, IdleSound, KeepsLocks, TypeFacts DEF routes
  <1>7. /\ url_response_list_' \in Seq(Pair) /\ Len(url_response_list_) <= Len(url_response_list_')
        /\ returned' \in [Pair -> Nat] /\ begun' \in 0..MaxRequests
    BY <1>1, <1>3, TypeFacts
  <1>. QED BY <1>1, <1>2, <1>4, <1>5, <1>6, <1>7, IdleSound, ThreadStep

-----------------------------------------------------------------------------
(* The steps of main *)

\* main is alone until the routes are registered.
LEMMA MainStep ==
  ASSUME IInv, ~serving, UNCHANGED <<req, recorder>>,
         DOMAIN route_map_ \subseteq DOMAIN route_map_', DOMAIN route_map_' \subseteq Location,
         \A l \in DOMAIN route_map_' : route_map_'[l] \in Name,
         prefix_handler_list_' \in Seq(Location \X Name),
         owner' \in [Lock -> Worker \cup {Main, Nobody}],
         mpc' \in {"register", "next", "insert", "serving"}, next' \in 1..(Len(Config) + 1),
         Ownership', RegisteredSoFar', FirstKeeps', RoutesTold'
  PROVE  IInv'
  <1>1. req' = req /\ \A w \in Worker : req[w].pc = "idle"
    BY DEF IInv, StartedLate, At
  <1>2. TypeOK'
    <2>1. \A w \in Worker : req[w].route \in DOMAIN route_map_' \cup {<<>>}
      BY DEF IInv, TypeOK
    <2>2. /\ url_response_list_' = url_response_list_ /\ begun' = begun /\ returned' = returned
      BY DEF recorder
    <2>. QED BY <1>1, <2>1, <2>2 DEF IInv, TypeOK
  <1>3. StartedLate'
    BY <1>1 DEF StartedLate, At
  <1>4. ASSUME NEW w \in Worker PROVE Sound(req[w])'
    <2>1. req[w].pc = "idle" /\ req[w].logged = "none"
      BY <1>1 DEF IInv, Sound, LookupSound
    <2>. QED BY <1>1, <2>1 DEF Sound, LookupSound, PageSound, Selected, Responded
  <1>5. EachResponseRecordedOnce'
    BY <1>1 DEF IInv, recorder, EachResponseRecordedOnce, Recorded
  <1>. QED BY <1>2, <1>3, <1>4, <1>5 DEF IInv

LEMMA MainOwns ==
  ASSUME IInv, UNCHANGED req, owner' \in [Lock -> Worker \cup {Main, Nobody}],
         \A lock \in Lock :
            /\ owner'[lock] = IF lock \in Held(mpc') THEN Main
                              ELSE IF lock \in Held(mpc) THEN Nobody ELSE owner[lock]
            /\ lock \in Held(mpc') => owner[lock] \in {Main, Nobody}
  PROVE  Ownership'
  <1>1. /\ Pc(Main) = mpc /\ Pc(Main)' = mpc' /\ Main # Nobody
        /\ \A w \in Worker : Pc(w)' = Pc(w) /\ w # Main /\ w # Nobody
    BY ThreadAssumption DEF Pc
  <1>2. ASSUME NEW lock \in Lock, NEW p \in Worker \cup {Main}
        PROVE  owner'[lock] = p <=> lock \in Held(Pc(p)')
    <2>1. owner[lock] = p <=> lock \in Held(Pc(p))
      BY DEF IInv, Ownership
    <2>2. owner[lock] = Main <=> lock \in Held(mpc)
      BY <1>1 DEF IInv, Ownership
    <2>3. CASE p = Main
      BY <1>1, <2>2, <2>3
    <2>4. CASE p # Main
      BY <1>1, <2>1, <2>2, <2>4
    <2>. QED BY <2>3, <2>4
  <1>. QED BY <1>2 DEF Ownership

LEMMA MainTakes ==
  ASSUME IInv, UNCHANGED req, NEW lock \in Lock, Take(Main, lock), Held(mpc') = Held(mpc) \cup {lock}
  PROVE  Ownership' /\ owner' \in [Lock -> Worker \cup {Main, Nobody}]
  <1>1. owner \in [Lock -> Worker \cup {Main, Nobody}]
    BY DEF IInv, TypeOK
  <1>2. owner[lock] = Nobody /\ owner' = [owner EXCEPT ![lock] = Main]
    BY DEF Take, Free
  <1>3. owner' \in [Lock -> Worker \cup {Main, Nobody}] /\ \A l \in Lock : owner'[l] = IF l = lock THEN Main ELSE owner[l]
    BY <1>1, <1>2
  <1>4. \A l \in Held(mpc) \cap Lock : owner[l] = Main
    BY ThreadAssumption DEF IInv, Ownership, Pc
  <1>5. ASSUME NEW l \in Lock
        PROVE  /\ owner'[l] = IF l \in Held(mpc') THEN Main
                              ELSE IF l \in Held(mpc) THEN Nobody ELSE owner[l]
               /\ l \in Held(mpc') => owner[l] \in {Main, Nobody}
    BY <1>2, <1>3, <1>4
  <1>. QED BY <1>3, <1>5, MainOwns

LEMMA MainDrops ==
  ASSUME IInv, UNCHANGED req, NEW lock \in Lock, Drop(lock), lock \in Held(mpc),
         Held(mpc') = Held(mpc) \ {lock}
  PROVE  Ownership' /\ owner' \in [Lock -> Worker \cup {Main, Nobody}]
  <1>1. owner \in [Lock -> Worker \cup {Main, Nobody}]
    BY DEF IInv, TypeOK
  <1>2. owner' = [owner EXCEPT ![lock] = Nobody]
    BY DEF Drop
  <1>3. owner' \in [Lock -> Worker \cup {Main, Nobody}] /\ \A l \in Lock : owner'[l] = IF l = lock THEN Nobody ELSE owner[l]
    BY <1>1, <1>2
  <1>4. \A l \in Held(mpc) \cap Lock : owner[l] = Main
    BY ThreadAssumption DEF IInv, Ownership, Pc
  <1>5. ASSUME NEW l \in Lock
        PROVE  /\ owner'[l] = IF l \in Held(mpc') THEN Main
                              ELSE IF l \in Held(mpc) THEN Nobody ELSE owner[l]
               /\ l \in Held(mpc') => owner[l] \in {Main, Nobody}
    BY <1>3, <1>4
  <1>. QED BY <1>3, <1>5, MainOwns

\* The mutexes of the registration, around register_route.
LEMMA RegistrationLocks ==
  ASSUME IInv, register_routes_from_config \/ next_location \/ registered
  PROVE  IInv'
  <1>1. /\ UNCHANGED <<route_map_, prefix_handler_list_, next, req, recorder>> /\ ~serving
        /\ \/ mpc = "register" /\ mpc' = "next" /\ Take(Main, "config_lock_")
           \/ mpc = "next" /\ mpc' = "insert" /\ Take(Main, "route_map_lock_") /\ next <= Len(Config)
           \/ mpc = "next" /\ mpc' = "serving" /\ Drop("config_lock_") /\ next > Len(Config)
    BY DEF register_routes_from_config, next_location, registered, serving
  <1>2. Ownership' /\ owner' \in [Lock -> Worker \cup {Main, Nobody}]
    <2>0. {"config_lock_", "route_map_lock_"} \subseteq Lock
      BY DEF Lock
    <2>1. CASE mpc = "register" /\ mpc' = "next" /\ Take(Main, "config_lock_")
      <3>1. Held(mpc') = Held(mpc) \cup {"config_lock_"}
        BY <2>1 DEF Held
      <3>. QED BY <1>1, <2>0, <2>1, <3>1, MainTakes
    <2>2. CASE mpc = "next" /\ mpc' = "insert" /\ Take(Main, "route_map_lock_")
      <3>1. Held(mpc') = Held(mpc) \cup {"route_map_lock_"}
        BY <2>2 DEF Held
      <3>. QED BY <1>1, <2>0, <2>2, <3>1, MainTakes
    <2>3. CASE mpc = "next" /\ mpc' = "serving" /\ Drop("config_lock_")
      <3>1. Held(mpc') = Held(mpc) \ {"config_lock_"} /\ "config_lock_" \in Held(mpc)
        BY <2>3 DEF Held
      <3>. QED BY <1>1, <2>0, <2>3, <3>1, MainDrops
    <2>. QED BY <1>1, <2>1, <2>2, <2>3
  <1>3. RegisteredSoFar'
    <2>1. next' = next /\ next \in 1..(Len(Config) + 1) /\ Len(Config) \in Nat
      BY <1>1, ConfigFacts DEF IInv, TypeOK
    <2>. QED BY <1>1, <2>1 DEF IInv, RegisteredSoFar, serving
  <1>4. FirstKeeps'
    BY <1>1 DEF IInv, FirstKeeps
  <1>5. RoutesTold'
    BY <1>1 DEF IInv, RoutesTold
  <1>6. /\ DOMAIN route_map_ \subseteq DOMAIN route_map_' /\ DOMAIN route_map_' \subseteq Location
        /\ \A l \in DOMAIN route_map_' : route_map_'[l] \in Name
        /\ prefix_handler_list_' \in Seq(Location \X Name)
        /\ mpc' \in {"register", "next", "insert", "serving"} /\ next' \in 1..(Len(Config) + 1)
    BY <1>1 DEF IInv, TypeOK
  <1>. QED BY <1>1, <1>2, <1>3, <1>4, <1>5, <1>6, MainStep

LEMMA RegisterRoute ==
  ASSUME IInv, register_route
  PROVE  IInv'
  <1>. DEFINE loc == Config[next].location
              h   == Config[next].handler
              list == prefix_handler_list_
  <1>1. /\ mpc = "insert" /\ mpc' = "next" /\ next' = next + 1 /\ ~serving
        /\ Drop("route_map_lock_") /\ UNCHANGED <<req, recorder>>
    BY DEF register_route, serving
  <1>2. next \in 1..Len(Config) /\ Len(Config) \in Nat
    BY <1>1, ConfigFacts DEF IInv, TypeOK, RegisteredSoFar
  <1>3. loc \in Location /\ h \in Name /\ Config[next] = [location |-> loc, handler |-> h]
    BY <1>2, ConfigFacts
  <1>4. Ownership' /\ owner' \in [Lock -> Worker \cup {Main, Nobody}]
    <2>1. "route_map_lock_" \in Lock
      BY DEF Lock
    <2>2. Held(mpc') = Held(mpc) \ {"route_map_lock_"} /\ "route_map_lock_" \in Held(mpc)
      BY <1>1 DEF Held
    <2>. QED BY <1>1, <2>1, <2>2, MainDrops
  <1>5. mpc' \in {"register", "next", "insert", "serving"} /\ next' \in 1..(Len(Config) + 1)
    BY <1>1, <1>2
  <1>6. DOMAIN route_map_ = {Config[i].location : i \in 1..(next - 1)}
    BY DEF IInv, RegisteredSoFar
  <1>7. DOMAIN route_map_ \cup {loc} = {Config[i].location : i \in 1..(next' - 1)}
    <2>1. 1..(next' - 1) = (1..(next - 1)) \cup {next}
      BY <1>1, <1>2
    <2>. QED BY <1>6, <2>1
  <1>8. /\ DOMAIN route_map_ \subseteq Location /\ (\A l \in DOMAIN route_map_ : route_map_[l] \in Name)
        /\ list \in Seq(Location \X Name)
    BY DEF IInv, TypeOK
  <1>9. CASE loc \in DOMAIN route_map_
    <2>1. UNCHANGED <<route_map_, prefix_handler_list_>>
      BY <1>9 DEF register_route
    <2>2. RegisteredSoFar'
      <3>1. DOMAIN route_map_' = {Config[i].location : i \in 1..(next' - 1)}
        BY <1>7, <1>9, <2>1
      <3>. QED BY <1>1, <3>1 DEF RegisteredSoFar, serving
    <2>3. FirstKeeps'
      BY <2>1 DEF IInv, FirstKeeps
    <2>4. RoutesTold'
      BY <2>1 DEF IInv, RoutesTold
    <2>. QED BY <1>1, <1>4, <1>5, <1>8, <2>1, <2>2, <2>3, <2>4, MainStep
  <1>10. CASE loc \notin DOMAIN route_map_
    <2>. DEFINE x == <<loc, h>>
    <2>1. /\ list' = Append(list, x)
          /\ route_map_' = [l \in DOMAIN route_map_ \cup {loc} |-> IF l = loc THEN h ELSE route_map_[l]]
      BY <1>10 DEF register_route, prefix_recorder
    <2>2. /\ DOMAIN route_map_' = DOMAIN route_map_ \cup {loc} /\ route_map_'[loc] = h
          /\ \A l \in DOMAIN route_map_ : route_map_'[l] = route_map_[l]
      BY <1>10, <2>1
    <2>3. x \in Location \X Name
      BY <1>3
    <2>4. RegisteredSoFar'
      <3>1. DOMAIN route_map_' = {Config[i].location : i \in 1..(next' - 1)}
        BY <1>7, <2>2
      <3>. QED BY <1>1, <3>1 DEF RegisteredSoFar, serving
    <2>5. FirstKeeps'
      <3>1. ASSUME NEW l \in DOMAIN route_map_'
            PROVE  \E i \in 1..Len(Config) : /\ Config[i] = [location |-> l, handler |-> route_map_'[l]]
                                             /\ \A j \in 1..(i - 1) : Config[j].location # l
        <4>1. CASE l \in DOMAIN route_map_
          BY <2>2, <4>1 DEF IInv, FirstKeeps
        <4>2. CASE l = loc
          <5>1. \A j \in 1..(next - 1) : Config[j].location # loc
            BY <1>6, <1>10
          <5>2. Config[next] = [location |-> l, handler |-> route_map_'[l]]
            BY <1>3, <2>2, <4>2
          <5>. HIDE DEF loc, h
          <5>. QED BY <1>2, <4>2, <5>1, <5>2
        <4>. QED BY <2>2, <3>1, <4>1, <4>2
      <3>. QED BY <3>1 DEF FirstKeeps
    <2>. HIDE DEF x, list
    <2>6. /\ list' \in Seq(Location \X Name) /\ Len(list) \in Nat /\ Len(list') = Len(list) + 1
          /\ list'[Len(list) + 1] = x /\ \A i \in 1..Len(list) : list'[i] = list[i]
      BY <1>8, <2>1, <2>3, AppendProperties
    <2>7. RoutesTold'
      <3>1. /\ IsFiniteSet(DOMAIN route_map_) /\ Len(list) = Cardinality(DOMAIN route_map_)
            /\ ToSet(list) = {<<l, route_map_[l]>> : l \in DOMAIN route_map_}
        BY DEF IInv, RoutesTold, list
      <3>2. IsFiniteSet(DOMAIN route_map_') /\ Cardinality(DOMAIN route_map_') = Len(list) + 1
        BY <1>10, <2>2, <3>1, FS_AddElement
      <3>3. DOMAIN list = 1..Len(list) /\ DOMAIN list' = (1..Len(list)) \cup {Len(list) + 1}
        BY <1>8, <2>6
      <3>4. ToSet(list') = ToSet(list) \cup {x}
        BY <2>6, <3>3 DEF ToSet
      <3>5. {<<l, route_map_'[l]>> : l \in DOMAIN route_map_'}
              = {<<l, route_map_[l]>> : l \in DOMAIN route_map_} \cup {<<loc, h>>}
        BY <2>2
      <3>6. ToSet(list') = {<<l, route_map_'[l]>> : l \in DOMAIN route_map_'}
        BY <3>1, <3>4, <3>5 DEF x
      <3>. QED BY <2>6, <3>2, <3>6 DEF RoutesTold, list
    <2>8. /\ DOMAIN route_map_ \subseteq DOMAIN route_map_' /\ DOMAIN route_map_' \subseteq Location
          /\ \A l \in DOMAIN route_map_' : route_map_'[l] \in Name
      BY <1>3, <1>8, <2>2
    <2>. QED BY <1>1, <1>4, <1>5, <2>4, <2>5, <2>6, <2>7, <2>8, MainStep DEF list
  <1>. QED BY <1>9, <1>10

-----------------------------------------------------------------------------
(* The invariants *)

LEMMA InitInv == Init => IInv
  <1>. SUFFICES ASSUME Init PROVE IInv
    OBVIOUS
  <1>1. /\ route_map_ = <<>> /\ prefix_handler_list_ = <<>> /\ url_response_list_ = <<>>
        /\ owner = [lock \in Lock |-> Nobody] /\ mpc = "register" /\ next = 1
        /\ req = [w \in Worker |-> Idle] /\ begun = 0 /\ returned = [p \in Pair |-> 0]
    BY DEF Init
  <1>2. DOMAIN route_map_ = {} /\ \A w \in Worker : req[w] = Idle
    BY <1>1
  <1>3. TypeOK
    <2>1. /\ DOMAIN route_map_ \subseteq Location /\ \A l \in DOMAIN route_map_ : route_map_[l] \in Name
      BY <1>2
    <2>2. prefix_handler_list_ \in Seq(Location \X Name) /\ url_response_list_ \in Seq(Pair)
      BY <1>1, EmptySeq
    <2>3. owner \in [Lock -> Worker \cup {Main, Nobody}] /\ returned \in [Pair -> Nat]
      BY <1>1
    <2>4. mpc \in {"register", "next", "insert", "serving"} /\ next \in 1..(Len(Config) + 1)
      BY <1>1, ConfigFacts
    <2>5. req \in [Worker -> Request]
      BY <1>1, IdleSound
    <2>6. \A w \in Worker : req[w].route \in DOMAIN route_map_ \cup {<<>>}
      BY <1>2 DEF Idle
    <2>7. begun \in 0..MaxRequests
      BY <1>1, CodeAssumption
    <2>. QED BY <2>1, <2>2, <2>3, <2>4, <2>5, <2>6, <2>7 DEF TypeOK
  <1>4. Ownership
    <2>1. Held("register") = {} /\ Held("idle") = {} /\ Idle.pc = "idle"
      BY DEF Held, Idle
    <2>2. ASSUME NEW p \in Worker \cup {Main} PROVE Held(Pc(p)) = {} /\ p # Nobody
      BY <1>1, <1>2, <2>1, ThreadAssumption DEF Pc
    <2>3. \A lock \in Lock : owner[lock] = Nobody
      BY <1>1
    <2>. QED BY <2>2, <2>3 DEF Ownership
  <1>5. StartedLate
    BY <1>2 DEF StartedLate, At, Idle
  <1>6. RegisteredSoFar /\ FirstKeeps
    BY <1>1, <1>2 DEF RegisteredSoFar, FirstKeeps, serving
  <1>7. RoutesTold
    <2>1. ToSet(prefix_handler_list_) = {} /\ Len(prefix_handler_list_) = 0
      BY <1>1 DEF ToSet
    <2>. QED BY <1>2, <2>1, FS_EmptySet DEF RoutesTold
  <1>8. \A w \in Worker : Sound(req[w])
    BY <1>2, IdleSound
  <1>9. EachResponseRecordedOnce
    <2>1. ASSUME NEW p \in Pair
          PROVE  Cardinality(Positions(url_response_list_, p)) = returned[p] + Cardinality(Holders(p))
      <3>1. Positions(url_response_list_, p) = {}
        BY <1>1 DEF Positions
      <3>2. Holders(p) = {}
        BY <1>2, IdleSound DEF Holders
      <3>3. returned[p] = 0
        BY <1>1
      <3>. QED BY <3>1, <3>2, <3>3, FS_EmptySet
    <2>. QED BY <2>1, Counted
  <1>. QED BY <1>3, <1>4, <1>5, <1>6, <1>7, <1>8, <1>9 DEF IInv

LEMMA NextInv == IInv /\ [Next]_vars => IInv'
  <1>. SUFFICES ASSUME IInv, [Next]_vars PROVE IInv'
    OBVIOUS
  <1>1. CASE UNCHANGED vars
    <2>. USE <1>1 DEF vars, IInv
    <2>1. TypeOK' /\ StartedLate' /\ RegisteredSoFar' /\ FirstKeeps' /\ RoutesTold'
      <3>1. TypeOK'
        BY DEF TypeOK
      <3>2. StartedLate' /\ RegisteredSoFar'
        BY DEF StartedLate, At, serving, RegisteredSoFar
      <3>3. FirstKeeps'
        BY DEF FirstKeeps
      <3>4. RoutesTold'
        BY DEF RoutesTold
      <3>. QED BY <3>1, <3>2, <3>3, <3>4
    <2>2. Ownership' /\ EachResponseRecordedOnce'
      BY DEF Ownership, Pc, EachResponseRecordedOnce, Recorded
    <2>3. \A w \in Worker : Sound(req[w])'
      BY DEF Sound, LookupSound, PageSound, RouteOf, HandlerOf, Selected, Responded
    <2>. QED BY <2>1, <2>2, <2>3
  <1>2. CASE Register
    BY <1>2, RegistrationLocks, RegisterRoute DEF Register
  <1>3. ASSUME NEW w \in Worker, NEW u \in Uri, route_request(w, u) PROVE IInv'
    BY <1>3, RouteRequest
  <1>4. ASSUME NEW w \in Worker, Proceed(w) PROVE IInv'
    BY <1>4, LongestPrefixMatch, Registered, Unregistered, ValidProxy, GetHandlerConfig, HandleRequest,
       HandlerThrows, StatusPage, RequestRecorder, LogLocks, ApplyDefaultHeaders DEF Proceed
  <1>. QED BY <1>1, <1>2, <1>3, <1>4 DEF Next, Quiet

LEMMA Inductive == Spec => []IInv
  BY InitInv, NextInv, PTL DEF Spec

\* The router's maps, the recorder's lists, the mutexes and every request of
\* router.cc keep their types, and longest_prefix_match returns a location that
\* is registered, or none.
THEOREM TypeCorrect == Spec => []TypeOK
  <1>1. IInv => TypeOK
    BY DEF IInv
  <1>. QED BY <1>1, Inductive, PTL

\* The threads of the server and main never wait for one another's mutexes in a
\* circle, though router.cc nests config_lock_ and route_map_lock_ both ways.
THEOREM MutexesAcyclic == Spec => []NoCircularWait
  <1>1. IInv => NoCircularWait
    BY MutexOrder DEF IInv
  <1>. QED BY <1>1, Inductive, PTL

\* The status page lists the routes in force, and the first handler registered
\* for a location by register_route keeps it.
THEOREM RoutesAreShown == Spec => []RoutesShown
  <1>1. IInv => RoutesShown
    <2>. SUFFICES ASSUME IInv PROVE RoutesShown
      OBVIOUS
    <2>1. /\ Len(prefix_handler_list_) = Cardinality(DOMAIN route_map_)
          /\ ToSet(prefix_handler_list_) = {<<l, route_map_[l]>> : l \in DOMAIN route_map_}
      BY DEF IInv, RoutesTold
    <2>2. ASSUME NEW i \in 1..Len(prefix_handler_list_)
          PROVE  prefix_handler_list_[i] = <<prefix_handler_list_[i][1],
                                             route_map_[prefix_handler_list_[i][1]]>>
      <3>1. prefix_handler_list_[i] \in ToSet(prefix_handler_list_)
        BY DEF ToSet, IInv, TypeOK
      <3>2. PICK l \in DOMAIN route_map_ : prefix_handler_list_[i] = <<l, route_map_[l]>>
        BY <2>1, <3>1
      <3>. QED BY <3>2
    <2>3. serving => DOMAIN route_map_ = Location
      <3>1. CASE serving
        <4>1. DOMAIN route_map_ = {Config[i].location : i \in 1..(next - 1)} /\ next = Len(Config) + 1
          BY <3>1 DEF IInv, RegisteredSoFar
        <4>2. 1..(next - 1) = 1..Len(Config)
          BY <4>1, ConfigFacts
        <4>. QED BY <4>1, <4>2 DEF Location
      <3>. QED BY <3>1
    <2>4. ASSUME NEW w \in Worker, PageRead(w), At(w, "record")
          PROVE  req[w].prefixes = {<<l, route_map_[l]>> : l \in DOMAIN route_map_}
      BY <2>1, <2>4 DEF IInv, Sound, PageSound, PageRead, At
    <2>5. FirstKeeps
      BY DEF IInv
    <2>. QED BY <2>1, <2>2, <2>3, <2>4, <2>5 DEF RoutesShown, FirstKeeps
  <1>. QED BY <1>1, Inductive, PTL

\* server_status_recorder.cc holds every response exactly once, before the
\* session gets it, for any number of threads.
THEOREM ResponsesRecordedOnce == Spec => []EachResponseRecordedOnce
  <1>1. IInv => EachResponseRecordedOnce
    BY DEF IInv
  <1>. QED BY <1>1, Inductive, PTL

\* route_request logs the handler that served the request, or a name that
\* select_handler does not know when it was default_handler.
THEOREM LogIsRight == Spec => []LogNamesHandler
  <1>1. IInv => LogNamesHandler
    <2>1. SUFFICES ASSUME IInv, NEW w \in Worker, req[w].logged # "none"
                   PROVE  \/ req[w].logged = Served(req[w].handler)
                          \/ req[w].logged \notin Handler /\ Served(req[w].handler) = "default"
      BY DEF LogNamesHandler
    \* The second lookup finds the name that the first one found.
    <2>2. req[w].logged = req[w].handler
      BY <2>1 DEF IInv, Sound, LookupSound
    <2>. QED BY <2>2 DEF Served
  <1>. QED BY <1>1, Inductive, PTL

\* status_handler.cc shows at least the requests it counts, though it reads the
\* size and the list in two sections.
THEOREM PageIsComplete == Spec => []PageShowsCounted
  <1>1. IInv => PageShowsCounted
    BY DEF IInv, Sound, PageSound, PageRead, At, PageShowsCounted
  <1>. QED BY <1>1, Inductive, PTL

-----------------------------------------------------------------------------
(* The loop that longest_prefix_match is, which the action takes in one step *)

LEMMA MatchStrings ==
  ASSUME MatchTypeOK
  PROVE  /\ uri \in Seq(Nat) /\ longest \in Seq(Nat)
         /\ keys \in SUBSET Seq(Nat)
  <1>1. <<>> \in Seq(Nat)
    OBVIOUS
  <1>2. uri \in MatchUri /\ keys \subseteq MatchLocation /\ longest \in MatchLocation \cup {<<>>}
    BY DEF MatchTypeOK
  <1>3. MatchUri \subseteq Seq(Nat) /\ MatchLocation \subseteq Seq(Nat)
    BY StringAssumption
  <1>. QED BY <1>1, <1>2, <1>3, Zenon

MatchInv == MatchTypeOK /\ LongestSoFar

LEMMA VisitKeeps ==
  ASSUME MatchInv, NEW m, visit(m)
  PROVE  MatchInv'
  <1>1. MatchTypeOK'
    BY DEF MatchInv, MatchTypeOK, visit
  <1>2. /\ m \in todo /\ m \in keys /\ UNCHANGED <<uri, keys>>
        /\ keys \ todo' = (keys \ todo) \cup {m}
    BY DEF MatchInv, MatchTypeOK, visit
  <1>3. /\ Len(m) \in Nat /\ Len(longest) \in Nat
        /\ \A l \in keys : Len(l) \in Nat
    BY <1>2, MatchStrings DEF MatchInv
  <1>4. CASE Matches(m, uri) /\ Len(m) > Len(longest)
    <2>1. longest' = m
      BY <1>4 DEF visit
    <2>. QED BY <1>1, <1>2, <1>3, <1>4, <2>1
             DEF MatchInv, LongestSoFar, IsLongest, Matches
  <1>5. CASE ~(Matches(m, uri) /\ Len(m) > Len(longest))
    <2>1. longest' = longest
      BY <1>5 DEF visit
    <2>. QED BY <1>1, <1>2, <1>3, <1>5, <2>1
             DEF MatchInv, LongestSoFar, IsLongest, Matches
  <1>. QED BY <1>4, <1>5

LEMMA MatchInductive == MatchSpec => []MatchInv
  <1>1. MatchInit => MatchInv
    <2>. SUFFICES ASSUME MatchInit PROVE MatchInv
      OBVIOUS
    <2>1. MatchTypeOK
      BY DEF MatchInit, MatchTypeOK
    <2>2. Matches(<<>>, uri)
      BY <2>1, MatchStrings, EmptyMatches
    <2>. QED BY <2>1, <2>2
             DEF MatchInit, MatchInv, LongestSoFar, IsLongest, Matches
  <1>2. MatchInv /\ [MatchNext]_matchVars => MatchInv'
    <2>. SUFFICES ASSUME MatchInv, [MatchNext]_matchVars PROVE MatchInv'
      OBVIOUS
    <2>1. CASE UNCHANGED matchVars
      BY <2>1 DEF matchVars, MatchInv, MatchTypeOK, LongestSoFar
    <2>2. ASSUME NEW m, visit(m) PROVE MatchInv'
      BY <2>2, VisitKeeps
    <2>. QED BY <2>1, <2>2 DEF MatchNext, MatchReturn
  <1>. QED BY <1>1, <1>2, PTL DEF MatchSpec

\* The traversal in longest_prefix_match visits only keys of the map, and what it
\* keeps is a location or the empty string.
THEOREM MatchTypeCorrect == MatchSpec => []MatchTypeOK
  <1>1. MatchInv => MatchTypeOK
    BY DEF MatchInv
  <1>. QED BY <1>1, MatchInductive, PTL

\* The result of longest_prefix_match does not depend on the order in which the
\* unordered_map is traversed, and is the longest registered prefix of the URI:
\* what the router's step takes.
THEOREM MatchCorrect == MatchSpec => []OrderIrrelevant
  <1>1. MatchInv => OrderIrrelevant
    <2>. SUFFICES ASSUME MatchInv, todo = {}
                  PROVE  longest = LongestMatch(uri, keys)
      BY DEF OrderIrrelevant
    <2>1. IsLongest(longest, uri, keys)
      BY DEF MatchInv, LongestSoFar
    <2>. QED BY <2>1, MatchStrings, LongestUnique DEF MatchInv
  <1>. QED BY <1>1, MatchInductive, PTL
=============================================================================
