------------------------------ MODULE MCForward -----------------------------
(* Model values for Forward: accounts, sessions and requests are each        *)
(* interchangeable (safety runs only).                                       *)
EXTENDS Forward, TLC

Symmetric == Permutations(Accounts) \cup Permutations(Keys) \cup Permutations(Requests)
=============================================================================
