------------------------------ MODULE MCRouter ------------------------------
(* Router with the configuration of a small conf file: nested locations, a  *)
(* location registered twice, a handler name select_handler does not know.  *)
EXTENDS Router

echo  == <<1, 2>>
stat  == <<1, 2, 3>>

TheConfig ==
    <<[location |-> echo, handler |-> "echo"],
      [location |-> stat, handler |-> "status"],
      [location |-> echo, handler |-> "static1"],
      [location |-> <<5>>, handler |-> "unknown"]>>

\* Served by status (longest match), by echo, by default because no location
\* matches, and by default because the handler is unknown.
TheUris == {<<1, 2, 3, 4>>, <<1, 2, 4>>, <<4>>, <<5, 5>>}
=============================================================================
