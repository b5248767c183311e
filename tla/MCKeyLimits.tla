---------------------------- MODULE MCKeyLimits -----------------------------
(* Model values for KeyLimits.                                              *)
EXTENDS KeyLimits
=============================================================================
