------------------------------ MODULE MCConsole -----------------------------
(* Model values for Console.                                                *)
EXTENDS Console, TLC

CONSTANT value

\* All of the form, with a factor of 0; one field cleared.
Forms == {<<value, Useless>>, 1 :> None}

\* The runs of the tariff and the runs of the sessions, not each with each:
\* after a write of a row or a reading of the tariff there is one session, and
\* it does not end.
Focus ==
  \/ issued <= 1 /\ moves = 0 /\ ~aged /\ live = 1 .. issued
  \/ quiet = Rested /\ prices = None /\ ~Loading

Symmetric == Permutations(Requests) \cup Permutations(Handlers)
=============================================================================
