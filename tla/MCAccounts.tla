----------------------------- MODULE MCAccounts -----------------------------
(* Model values for Accounts: ids, people and workers are each               *)
(* interchangeable (safety runs only).                                       *)
EXTENDS Accounts, TLC

Symmetric == Permutations(Ids) \cup Permutations(People) \cup Permutations(Workers)
=============================================================================
