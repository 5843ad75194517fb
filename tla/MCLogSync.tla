----------------------------- MODULE MCLogSync -----------------------------
(* Phones that are all alike, for LogSync. *)
EXTENDS LogSync, TLC

Alike == Permutations(Phones)

=============================================================================
