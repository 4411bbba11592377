------------------------------ MODULE MCDialogs ------------------------------
(* Instances of Dialogs for TLC. *)
EXTENDS Dialogs, TLC

Alike == Permutations(Questions) \cup Permutations(Clients) \cup Permutations(Hooks)

=============================================================================
