------------------------------ MODULE MCLimits ------------------------------
(* Model values for Limits.                                                 *)
EXTENDS Limits
=============================================================================
