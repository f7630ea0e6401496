------------------------------ MODULE MCServer ------------------------------
(* Server on small instances: which threads and sessions there are is in    *)
(* the configurations, as model values.                                     *)
EXTENDS Server, TLC

\* Threads are interchangeable, and so are heap slots.
Symmetric == Permutations(Thread) \cup Permutations(Session)

OneUnit  == {1}
TwoUnits == {2}
=============================================================================
