------------------------------- MODULE MCPool -------------------------------
(* Model values for Pool: accounts and sessions are interchangeable.         *)
EXTENDS Pool, TLC

Symmetric == Permutations(Accounts) \cup Permutations(Keys)
=============================================================================
