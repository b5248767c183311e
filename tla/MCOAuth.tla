------------------------------ MODULE MCOAuth ------------------------------
(* Model values for OAuth.                                                  *)
EXTENDS OAuth
=============================================================================
