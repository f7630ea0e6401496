---------------------------- MODULE MCMemeStore ----------------------------
EXTENDS MemeStore, TLC

Symmetric == Permutations(Worker) \cup Permutations(Id) \cup Permutations(Content)
=============================================================================
