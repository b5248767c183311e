----------------------------- MODULE MCStartup ------------------------------
(* Model values for Startup: all of them are interchangeable.                *)
EXTENDS Startup, TLC

Symmetric ==
  Permutations(Gateways) \cup Permutations(Threads)
    \cup Permutations(MasterKeys) \cup Permutations(Devices)
=============================================================================
