-------------------------- MODULE MCProjectCreate --------------------------
(* Instances of ProjectCreate for TLC. *)
EXTENDS ProjectCreate, TLC

\* Request ids and threads are drawn from pools whose members are alike.
Alike == Permutations(Requests) \cup Permutations(Threads)

=============================================================================
