------------------------------- MODULE Ledger -------------------------------
(***************************************************************************)
(* What the usage recorder promises to the administration pages, which read*)
(* its tables, without its buffers, batches and goroutines: a log that is  *)
(* noted is due until it is written and charged to the key that made the   *)
(* request, each once and in this order, or until it is given up.  Billing *)
(* implements this.                                                        *)
(***************************************************************************)
EXTENDS Integers

CONSTANTS
  Logs,   \* usage logs
  Keys,   \* the keys that may be charged
  None    \* a log that is nobody's

VARIABLES
  payer,   \* the key a noted log is charged to
  noted,   \* the logs there are
  due,     \* those that are neither settled nor given up
  rows,    \* how many times a log is in the book
  totals   \* how many logs a key has been charged for

vars == <<payer, noted, due, rows, totals>>

Init ==
  /\ payer = [l \in Logs |-> None]
  /\ noted = {}
  /\ due = {}
  /\ rows = [l \in Logs |-> 0]
  /\ totals = [k \in Keys |-> 0]

Note(l, k) ==
  /\ l \notin noted
  /\ payer' = [payer EXCEPT ![l] = k]
  /\ noted' = noted \cup {l}
  /\ due' = due \cup {l}
  /\ UNCHANGED <<rows, totals>>

Write(l) ==
  /\ l \in due
  /\ rows[l] = 0
  /\ rows' = [rows EXCEPT ![l] = 1]
  /\ due' = IF payer[l] = None THEN due \ {l} ELSE due
  /\ UNCHANGED <<payer, noted, totals>>

Charge(l) ==
  /\ l \in due
  /\ rows[l] = 1
  /\ totals' = [totals EXCEPT ![payer[l]] = @ + 1]
  /\ due' = due \ {l}
  /\ UNCHANGED <<payer, noted, rows>>

\* A statement fails, or the process dies with all that it held.
GiveUp(lost) ==
  /\ lost \subseteq due
  /\ due' = due \ lost
  /\ UNCHANGED <<payer, noted, rows, totals>>

Next ==
  \/ \E l \in Logs : Write(l) \/ Charge(l) \/ \E k \in Keys \cup {None} : Note(l, k)
  \/ \E l \in Logs : GiveUp({l})
  \/ GiveUp(due)

\* Nothing stays due for ever.
Settles == \A l \in Logs : l \in due ~> l \notin due

SafeSpec == Init /\ [][Next]_vars

Spec == SafeSpec /\ Settles
=============================================================================
