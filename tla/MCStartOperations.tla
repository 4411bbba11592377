------------------------- MODULE MCStartOperations -------------------------
(* Instances of StartOperations for TLC. *)
EXTENDS StartOperations, TLC

\* Ids, threads and tabs are drawn from pools whose members are alike.
Alike == Permutations(Ops) \cup Permutations(Requests) \cup Permutations(Clients)
           \cup Permutations(Threads) \cup Permutations(Tabs)

=============================================================================
