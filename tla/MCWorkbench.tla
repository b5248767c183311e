---------------------------- MODULE MCWorkbench ----------------------------
(* Model values for Workbench: process ids and ports are each               *)
(* interchangeable (safety runs only).                                      *)
EXTENDS Workbench, TLC

Symmetric == Permutations(Pids) \cup Permutations(Ports)
=============================================================================
