------------------------------ MODULE MCBilling -----------------------------
(* Model values for Billing.                                                *)
EXTENDS Billing
=============================================================================
