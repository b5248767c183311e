------------------------------- MODULE Billing ------------------------------
(***************************************************************************)
(* The usage recorder of internal/billing/billing.go, together with the      *)
(* part of cmd/server/main.go that stops it: handlers Record one log each,   *)
(* batches are flushed to the store by the background loop, by the handler   *)
(* that fills the buffer, and by Close; a flush inserts the log and then     *)
(* adds it to its key's totals, in two statements.  The process may crash    *)
(* between any two steps and be started again.                              *)
(***************************************************************************)
EXTENDS Integers, FiniteSets

CONSTANTS
  Logs,        \* the requests, each of which records one log
  Keys,        \* API keys
  None,        \* a request without a key; no log
  Loop,        \* the goroutine of Recorder.loop
  Main,        \* the goroutine of main.run
  FlushBatch,  \* flushBatch
  DbMayFail    \* whether a statement may return an error

ASSUME BillingAssumption ==
  /\ IsFiniteSet(Logs)
  /\ None \notin Keys \cup Logs
  /\ Loop \notin Logs /\ Main \notin Logs /\ Loop # Main
  /\ FlushBatch \in Nat \ {0}
  /\ DbMayFail \in BOOLEAN

Flushers == Logs \cup {Loop, Main}

VARIABLES
  main,     \* run(): serve, drain (Shutdown), stop and final (Close), exit
  loop,     \* Recorder.loop: waiting in select, or gone
  late,     \* Shutdown gave up on handlers that were still running
  request,  \* a request: not yet, being served, its log recorded, killed
  key,      \* log.APIKeyID
  buf,      \* Recorder.buf
  flush,    \* where a flusher is in Flush
  batch,    \* what it still has to insert
  added,    \* the log it inserted and has not yet added to the totals
  rows,     \* usage_logs: how many rows a log has there
  totals    \* api_keys.total_*, in logs

storeVars == <<rows, totals>>
flushVars == <<flush, batch, added>>
vars == <<main, loop, late, request, key, buf, flush, batch, added, rows, totals>>

TypeOK ==
  /\ main \in {"serve", "drain", "stop", "final", "exit", "crashed"}
  /\ loop \in {"wait", "gone"}
  /\ late \in BOOLEAN
  /\ request \in [Logs -> {"idle", "serving", "recorded", "killed"}]
  /\ key \in [Logs -> Keys \cup {None}]
  /\ buf \in SUBSET Logs
  /\ flush \in [Flushers -> {"off", "take", "write"}]
  /\ batch \in [Flushers -> SUBSET Logs]
  /\ added \in [Flushers -> Logs \cup {None}]
  /\ rows \in [Logs -> Nat]
  /\ totals \in [Keys -> 0 .. Cardinality(Logs)]

Init ==
  /\ main = "serve"
  /\ loop = "wait"
  /\ late = FALSE
  /\ request = [l \in Logs |-> "idle"]
  /\ key = [l \in Logs |-> None]
  /\ buf = {}
  /\ flush = [p \in Flushers |-> "off"]
  /\ batch = [p \in Flushers |-> {}]
  /\ added = [p \in Flushers |-> None]
  /\ rows = [l \in Logs |-> 0]
  /\ totals = [k \in Keys |-> 0]

Alive == main \notin {"exit", "crashed"}

-----------------------------------------------------------------------------
(* Requests.                                                                *)

Serve(l, k) ==
  /\ main = "serve"
  /\ request[l] = "idle"
  /\ request' = [request EXCEPT ![l] = "serving"]
  /\ key' = [key EXCEPT ![l] = k]
  /\ UNCHANGED <<main, loop, late, buf, flushVars, storeVars>>

Full(logs) == Cardinality(logs) >= FlushBatch

\* The deferred Record of a handler; the one that fills the batch flushes it.
Record(l) ==
  /\ Alive
  /\ request[l] = "serving"
  /\ request' = [request EXCEPT ![l] = "recorded"]
  /\ buf' = buf \cup {l}
  /\ flush' = [flush EXCEPT ![l] = IF Full(buf \cup {l}) THEN "take" ELSE "off"]
  /\ UNCHANGED <<main, loop, late, key, batch, added, storeVars>>

-----------------------------------------------------------------------------
(* Flush, by any of its callers.                                            *)

\* Mutant: the buffer is copied and not emptied.
LeaveBuffer == buf' = buf

EmptyBuffer == buf' = {}

\* The whole buffer is taken over under the lock; nothing to do when empty.
Take(p) ==
  /\ Alive
  /\ flush[p] = "take"
  /\ IF buf = {}
     THEN /\ flush' = [flush EXCEPT ![p] = "off"]
          /\ UNCHANGED <<buf, batch>>
     ELSE /\ flush' = [flush EXCEPT ![p] = "write"]
          /\ batch' = [batch EXCEPT ![p] = buf]
          /\ EmptyBuffer
  /\ UNCHANGED <<main, loop, late, request, key, added, storeVars>>

\* AddUsageLog, which commits on its own; a log without a key has no totals.
InsertLog(p, l) ==
  /\ Alive
  /\ flush[p] = "write" /\ added[p] = None /\ l \in batch[p]
  /\ rows' = [rows EXCEPT ![l] = @ + 1]
  /\ batch' = [batch EXCEPT ![p] = @ \ {l}]
  /\ added' = [added EXCEPT ![p] = IF key[l] = None THEN None ELSE l]
  /\ UNCHANGED <<main, loop, late, request, key, buf, flush, totals>>

\* AddUsageLog returns an error: the log is dropped.
InsertFails(p, l) ==
  /\ Alive /\ DbMayFail
  /\ flush[p] = "write" /\ added[p] = None /\ l \in batch[p]
  /\ batch' = [batch EXCEPT ![p] = @ \ {l}]
  /\ UNCHANGED <<main, loop, late, request, key, buf, flush, added, storeVars>>

\* AddUsage; its error is ignored.
AddUsage(p) ==
  /\ Alive
  /\ added[p] # None
  /\ added' = [added EXCEPT ![p] = None]
  /\ \/ totals' = [totals EXCEPT ![key[added[p]]] = @ + 1]
     \/ DbMayFail /\ UNCHANGED totals
  /\ UNCHANGED <<main, loop, late, request, key, buf, flush, batch, rows>>

FlushReturns(p) ==
  /\ Alive
  /\ flush[p] = "write" /\ batch[p] = {} /\ added[p] = None
  /\ flush' = [flush EXCEPT ![p] = "off"]
  /\ UNCHANGED <<main, loop, late, request, key, buf, batch, added, storeVars>>

Flushing(p) ==
  \/ Take(p) \/ AddUsage(p) \/ FlushReturns(p)
  \/ \E l \in Logs : InsertLog(p, l) \/ InsertFails(p, l)

-----------------------------------------------------------------------------
(* The background loop and the way out of main.                             *)

\* Mutant: the loop leaves a buffer that is not full alone.
LoopTicksWhenFull ==
  /\ Alive
  /\ loop = "wait" /\ flush[Loop] = "off"
  /\ Full(buf)
  /\ flush' = [flush EXCEPT ![Loop] = "take"]
  /\ UNCHANGED <<main, loop, late, request, key, buf, batch, added, storeVars>>

LoopTicks ==
  /\ Alive
  /\ loop = "wait" /\ flush[Loop] = "off"
  /\ flush' = [flush EXCEPT ![Loop] = "take"]
  /\ UNCHANGED <<main, loop, late, request, key, buf, batch, added, storeVars>>

\* close(r.stop) has been seen by the loop's select.
LoopStops ==
  /\ main = "stop"
  /\ loop = "wait" /\ flush[Loop] = "off"
  /\ loop' = "gone"
  /\ UNCHANGED <<main, late, request, key, buf, flushVars, storeVars>>

Signal ==
  /\ main = "serve"
  /\ main' = "drain"
  /\ UNCHANGED <<loop, late, request, key, buf, flushVars, storeVars>>

HandlerDone(l) == request[l] # "serving" /\ flush[l] = "off"

\* Shutdown returns when no handler is left, or after its ten seconds.
Drained ==
  /\ main = "drain"
  /\ \A l \in Logs : HandlerDone(l)
  /\ main' = "stop"
  /\ UNCHANGED <<loop, late, request, key, buf, flushVars, storeVars>>

DrainTimesOut ==
  /\ main = "drain"
  /\ \E l \in Logs : ~HandlerDone(l)
  /\ main' = "stop"
  /\ late' = TRUE
  /\ UNCHANGED <<loop, request, key, buf, flushVars, storeVars>>

\* Mutant: Close does not wait for the loop.
LoopMayRun == TRUE

LoopGone == loop = "gone"

\* Close: the loop is waited for, then what is left is flushed.
CloseFlushes ==
  /\ main = "stop"
  /\ LoopGone
  /\ main' = "final"
  /\ flush' = [flush EXCEPT ![Main] = "take"]
  /\ UNCHANGED <<loop, late, request, key, buf, batch, added, storeVars>>

Exit ==
  /\ main = "final" /\ flush[Main] = "off"
  /\ main' = "exit"
  /\ UNCHANGED <<loop, late, request, key, buf, flushVars, storeVars>>

Crash ==
  /\ Alive
  /\ main' = "crashed"
  /\ UNCHANGED <<loop, late, request, key, buf, flushVars, storeVars>>

\* A new process: memory is gone, the store is as it was.
Restart ==
  /\ ~Alive
  /\ main' = "serve"
  /\ loop' = "wait"
  /\ late' = FALSE
  /\ request' = [l \in Logs |-> IF request[l] = "serving" THEN "killed" ELSE request[l]]
  /\ buf' = {}
  /\ flush' = [p \in Flushers |-> "off"]
  /\ batch' = [p \in Flushers |-> {}]
  /\ added' = [p \in Flushers |-> None]
  /\ UNCHANGED <<key, storeVars>>

Next ==
  \/ \E l \in Logs : Record(l) \/ \E k \in Keys \cup {None} : Serve(l, k)
  \/ \E p \in Flushers : Flushing(p)
  \/ LoopTicks \/ LoopStops
  \/ Signal \/ Drained \/ DrainTimesOut \/ CloseFlushes \/ Exit
  \/ Crash \/ Restart

Spec == Init /\ [][Next]_vars

\* Goroutines keep running, the ticker keeps ticking, Shutdown's context runs
\* out, and the loop's select does not prefer the ticker for ever.
FairSpec ==
  /\ Spec
  /\ \A p \in Flushers : WF_vars(Flushing(p))
  /\ WF_vars(LoopTicks) /\ SF_vars(LoopStops)
  /\ WF_vars(Drained \/ DrainTimesOut) /\ WF_vars(CloseFlushes) /\ WF_vars(Exit)

-----------------------------------------------------------------------------
(* Properties.                                                              *)

LogsOf(k) == {l \in Logs : key[l] = k /\ rows[l] > 0}

\* However flushes of the loop, of handlers and of Close overlap, and wherever
\* the process dies, a request is written at most once, and no key's totals
\* run ahead of the logs the store holds of it: a log waits in one place only,
\* in the buffer or with one flusher, and then it is not in the store yet.
ChargedOnce ==
  /\ \A l \in Logs : rows[l] <= 1
  /\ \A k \in Keys : totals[k] <= Cardinality(LogsOf(k))
  /\ \A p \in Flushers :
       /\ buf \cap batch[p] = {}
       /\ \A q \in Flushers \ {p} : batch[p] \cap batch[q] = {}
       /\ \A l \in buf \cup batch[p] : rows[l] = 0

\* What the present process recorded and has neither written nor lost.
InMemory == {l \in Logs : l \in buf \/ \E p \in Flushers : l \in batch[p] \/ added[p] = l}

\* A stop in which Shutdown saw every handler out loses nothing that was in
\* memory: the loop's flush, the handlers' flushes and Close's own cover it.
CleanStopFlushes == main = "exit" /\ ~late => InMemory = {}

Recorded == {l \in Logs : request[l] = "recorded"}

Books == INSTANCE Ledger WITH
  payer <- [l \in Logs |-> IF l \in Recorded THEN key[l] ELSE None],
  noted <- Recorded,
  due <- IF Alive THEN InMemory ELSE {}

\* billing.go:54, logs are buffered and written in batches, and keys' totals
\* kept with them.  Seen from outside, every request is entered and charged as
\* one log at a time would be: to the key that made it, at most once, after its
\* log is in the store; what a failed statement or a crash takes out of memory
\* never comes back; and no log stays in memory for ever.
KeepsBooks == Books!Spec
=============================================================================
