--------------------------- MODULE Billing_proofs ---------------------------
(***************************************************************************)
(* Proofs about Billing, for any number of requests, keys and any batch, and *)
(* then about Exchange, which says what the logs hold, for any bodies and     *)
(* replies.                                                                  *)
(*                                                                         *)
(* A log is in one place only: in the buffer, with one flusher, or with the  *)
(* one that has inserted it and has still to add it to the totals.  What is   *)
(* sent is the normal form of the body under the disguise of the turn, so     *)
(* that whatever is true of every normal form is true of it; and what the tee *)
(* has set aside, with the event that it is in, covers all that mentions      *)
(* usage.                                                                    *)
(***************************************************************************)
EXTENDS Billing, Exchange, FiniteSetTheorems, SequenceTheorems, WellFoundedInduction,
        TLAPS

Typed ==
  /\ main \in {"serve", "drain", "stop", "final", "exit", "crashed"}
  /\ loop \in {"wait", "gone"}
  /\ late \in BOOLEAN
  /\ request \in [Logs -> {"idle", "serving", "recorded", "killed"}]
  /\ key \in [Logs -> Keys \cup {None}]
  /\ buf \in SUBSET Logs
  /\ flush \in [Flushers -> {"off", "take", "write"}]
  /\ batch \in [Flushers -> SUBSET Logs]
  /\ added \in [Flushers -> Logs \cup {None}]
  /\ rows \in [Logs -> Nat]
  /\ totals \in [Keys -> Nat]

\* A log that waits is recorded and not in the store; one that is half settled
\* is there, and has a key.
Places ==
  /\ buf \subseteq Recorded
  /\ \A l \in buf : rows[l] = 0
  /\ \A p \in Flushers :
       /\ batch[p] \subseteq Recorded
       /\ buf \cap batch[p] = {}
       /\ \A l \in batch[p] : rows[l] = 0
       /\ added[p] # None => rows[added[p]] = 1 /\ key[added[p]] # None /\ added[p] \in Recorded
       /\ flush[p] # "write" => batch[p] = {} /\ added[p] = None
  /\ \A p, q \in Flushers :
       p # q => batch[p] \cap batch[q] = {} /\ (added[p] # None => added[p] # added[q])
  /\ \A l \in Logs : rows[l] <= 1 /\ (rows[l] = 1 => l \in Recorded)

\* The logs of a key that are in the store, less those still to be added up.
Settled(k) == {l \in LogsOf(k) : \A p \in Flushers : added[p] # l}

TotalsInv == \A k \in Keys : totals[k] <= Cardinality(Settled(k))

\* Who may flush, and what the way out of main has seen.
WayOut ==
  /\ \A l \in Logs : request[l] \in {"idle", "serving"} => flush[l] = "off"
  /\ main \in {"serve", "drain", "stop"} => flush[Main] = "off"
  /\ main \in {"exit"} => flush[Main] = "off"
  /\ loop = "gone" => flush[Loop] = "off"
  /\ main \in {"final", "exit"} => loop = "gone"
  /\ main \in {"stop", "final", "exit"} /\ ~late => \A l \in Logs : HandlerDone(l)
  /\ main \in {"final", "exit"} /\ ~late /\ flush[Main] # "take" => buf = {}

Inv == Typed /\ Places /\ TotalsInv /\ WayOut

-----------------------------------------------------------------------------
(* The steps, by what they touch.                                           *)

\* A step that leaves logs where they are.
Elsewhere ==
  \/ \E l \in Logs, k \in Keys \cup {None} : Serve(l, k)
  \/ \E p \in Flushers : FlushReturns(p)
  \/ LoopTicks \/ LoopStops \/ Signal \/ Drained \/ DrainTimesOut \/ CloseFlushes

LEMMA StepsOfNext ==
  ASSUME Next
  PROVE  \/ Elsewhere \/ Exit \/ Crash \/ Restart
         \/ \E l \in Logs : Record(l)
         \/ \E p \in Flushers : Take(p) \/ AddUsage(p)
         \/ \E p \in Flushers, l \in Logs : InsertLog(p, l) \/ InsertFails(p, l)
BY DEF Next, Elsewhere, Flushing

LEMMA FlushersDistinct ==
  /\ Logs \subseteq Flushers /\ Loop \in Flushers /\ Main \in Flushers
  /\ Loop # Main /\ Loop \notin Logs /\ Main \notin Logs
BY BillingAssumption DEF Flushers

-----------------------------------------------------------------------------
(* Types.                                                                   *)

LEMMA TypedInit ==
  ASSUME Init
  PROVE  Typed
<1>1. /\ main = "serve" /\ loop = "wait" /\ late \in BOOLEAN
      /\ request \in [Logs -> {"idle", "serving", "recorded", "killed"}]
      /\ key \in [Logs -> Keys \cup {None}]
      /\ buf \in SUBSET Logs
  BY DEF Init
<1>2. flush \in [Flushers -> {"off", "take", "write"}]
  BY DEF Init
<1>3. batch \in [Flushers -> SUBSET Logs] /\ added \in [Flushers -> Logs \cup {None}]
  BY DEF Init
<1>4. rows \in [Logs -> Nat] /\ totals \in [Keys -> Nat]
  BY DEF Init
<1>5. QED
  BY <1>1, <1>2, <1>3, <1>4 DEF Typed

LEMMA TypedStep ==
  ASSUME Typed, [Next]_vars
  PROVE  Typed'
<1> USE FlushersDistinct DEF Typed, flushVars, storeVars
<1>1. CASE UNCHANGED vars
  BY <1>1 DEF vars
<1>2. CASE Elsewhere
  <2>1. ASSUME NEW l \in Logs, NEW k \in Keys \cup {None}, Serve(l, k)
        PROVE  Typed'
    BY <2>1 DEF Serve
  <2>2. ASSUME NEW p \in Flushers, FlushReturns(p)
        PROVE  Typed'
    BY <2>2 DEF FlushReturns
  <2>3. CASE LoopTicks \/ LoopStops
    BY <2>3 DEF LoopTicks, LoopStops
  <2>4. CASE Signal \/ Drained \/ DrainTimesOut \/ CloseFlushes
    BY <2>4 DEF Signal, Drained, DrainTimesOut, CloseFlushes
  <2>5. QED
    BY <1>2, <2>1, <2>2, <2>3, <2>4 DEF Elsewhere
<1>3. CASE Exit \/ Crash
  BY <1>3 DEF Exit, Crash
<1>4. CASE Restart
  BY <1>4 DEF Restart
<1>5. ASSUME NEW l \in Logs, Record(l)
      PROVE  Typed'
  BY <1>5 DEF Record
<1>6. ASSUME NEW p \in Flushers, Take(p)
      PROVE  Typed'
  BY <1>6 DEF Take, EmptyBuffer
<1>7. ASSUME NEW p \in Flushers, AddUsage(p)
      PROVE  Typed'
  BY <1>7 DEF AddUsage
<1>8. ASSUME NEW p \in Flushers, NEW l \in Logs, InsertLog(p, l) \/ InsertFails(p, l)
      PROVE  Typed'
  BY <1>8 DEF InsertLog, InsertFails
<1>9. QED
  BY <1>1, <1>2, <1>3, <1>4, <1>5, <1>6, <1>7, <1>8, StepsOfNext

-----------------------------------------------------------------------------
(* A log is in one place.                                                   *)

LEMMA PlacesStep ==
  ASSUME Typed, Places, WayOut, [Next]_vars
  PROVE  Places'
<1> USE FlushersDistinct, BillingAssumption DEF Typed, Places, Recorded, flushVars, storeVars
<1>1. CASE UNCHANGED vars
  BY <1>1 DEF vars
<1>2. CASE Elsewhere
  <2>1. ASSUME NEW l \in Logs, NEW k \in Keys \cup {None}, Serve(l, k)
        PROVE  Places'
    BY <2>1 DEF Serve
  <2>2. ASSUME NEW p \in Flushers, FlushReturns(p)
        PROVE  Places'
    BY <2>2 DEF FlushReturns
  <2>3. CASE LoopTicks \/ LoopStops
    BY <2>3 DEF LoopTicks, LoopStops
  <2>4. CASE Signal \/ Drained \/ DrainTimesOut
    BY <2>4 DEF Signal, Drained, DrainTimesOut
  <2>5. CASE CloseFlushes
    BY <2>5 DEF CloseFlushes, WayOut
  <2>6. QED
    BY <1>2, <2>1, <2>2, <2>3, <2>4, <2>5 DEF Elsewhere
<1>3. CASE Exit \/ Crash
  BY <1>3 DEF Exit, Crash
<1>4. CASE Restart
  BY <1>4 DEF Restart
<1>5. ASSUME NEW l \in Logs, Record(l)
      PROVE  Places'
  <2>1. flush[l] = "off" /\ l \notin Recorded
    BY <1>5 DEF Record, WayOut
  <2>2. rows[l] \in Nat /\ rows[l] <= 1 /\ rows[l] # 1
    BY <2>1
  <2>3. rows[l] = 0
    BY ONLY <2>2
  <2>4. QED
    BY <1>5, <2>1, <2>3 DEF Record
<1>6. ASSUME NEW p \in Flushers, Take(p)
      PROVE  Places'
  BY <1>6 DEF Take, EmptyBuffer
<1>7. ASSUME NEW p \in Flushers, AddUsage(p)
      PROVE  Places'
  BY <1>7 DEF AddUsage
<1>8. ASSUME NEW p \in Flushers, NEW l \in Logs, InsertLog(p, l)
      PROVE  Places'
  <2>1. l \notin buf /\ rows[l] = 0 /\ l \in Recorded /\ flush[p] = "write"
    BY <1>8 DEF InsertLog
  <2>2. \A q \in Flushers : added[q] # l /\ l \notin batch'[q]
    BY <1>8, <2>1 DEF InsertLog
  <2>3. rows' = [rows EXCEPT ![l] = 1]
    BY <1>8, <2>1 DEF InsertLog
  <2>4. QED
    BY <1>8, <2>1, <2>2, <2>3 DEF InsertLog
<1>9. ASSUME NEW p \in Flushers, NEW l \in Logs, InsertFails(p, l)
      PROVE  Places'
  BY <1>9 DEF InsertFails
<1>10. QED
  BY <1>1, <1>2, <1>3, <1>4, <1>5, <1>6, <1>7, <1>8, <1>9, StepsOfNext

-----------------------------------------------------------------------------
(* The way out.                                                             *)

LEMMA WayOutStep ==
  ASSUME Typed, Places, WayOut, [Next]_vars
  PROVE  WayOut'
<1> USE FlushersDistinct, BillingAssumption DEF Typed, WayOut, HandlerDone, flushVars, storeVars
<1>1. CASE UNCHANGED vars
  BY <1>1 DEF vars
<1>2. CASE Elsewhere
  <2>1. ASSUME NEW l \in Logs, NEW k \in Keys \cup {None}, Serve(l, k)
        PROVE  WayOut'
    BY <2>1 DEF Serve
  <2>2. ASSUME NEW p \in Flushers, FlushReturns(p)
        PROVE  WayOut'
    <3>1. p = Main => main \notin {"serve", "drain", "stop"}
      BY <2>2 DEF FlushReturns
    <3>2. QED
      BY <2>2, <3>1 DEF FlushReturns, Alive
  <2>3. CASE LoopTicks \/ LoopStops
    BY <2>3 DEF LoopTicks, LoopStops
  <2>4. CASE Signal \/ Drained \/ DrainTimesOut
    BY <2>4 DEF Signal, Drained, DrainTimesOut
  <2>5. CASE CloseFlushes
    BY <2>5 DEF CloseFlushes, LoopGone
  <2>6. QED
    BY <1>2, <2>1, <2>2, <2>3, <2>4, <2>5 DEF Elsewhere
<1>3. CASE Exit \/ Crash
  BY <1>3 DEF Exit, Crash
<1>4. CASE Restart
  BY <1>4 DEF Restart
<1>5. ASSUME NEW l \in Logs, Record(l)
      PROVE  WayOut'
  BY <1>5 DEF Record
<1>6. ASSUME NEW p \in Flushers, Take(p)
      PROVE  WayOut'
  BY <1>6 DEF Take, EmptyBuffer
<1>7. ASSUME NEW p \in Flushers, AddUsage(p)
      PROVE  WayOut'
  BY <1>7 DEF AddUsage
<1>8. ASSUME NEW p \in Flushers, NEW l \in Logs, InsertLog(p, l) \/ InsertFails(p, l)
      PROVE  WayOut'
  BY <1>8 DEF InsertLog, InsertFails
<1>9. QED
  BY <1>1, <1>2, <1>3, <1>4, <1>5, <1>6, <1>7, <1>8, StepsOfNext

-----------------------------------------------------------------------------
(* The totals of a key.                                                     *)

LEMMA SettledFinite ==
  ASSUME NEW k \in Keys
  PROVE  /\ IsFiniteSet(Settled(k)) /\ Cardinality(Settled(k)) \in Nat
         /\ IsFiniteSet(LogsOf(k)) /\ Cardinality(LogsOf(k)) \in Nat
         /\ Cardinality(Settled(k)) <= Cardinality(LogsOf(k))
         /\ Cardinality(LogsOf(k)) <= Cardinality(Logs)
<1>1. IsFiniteSet(Logs)
  BY BillingAssumption
<1>2. LogsOf(k) \in SUBSET Logs /\ Settled(k) \in SUBSET LogsOf(k)
  BY DEF LogsOf, Settled
<1>3. IsFiniteSet(LogsOf(k)) /\ Cardinality(LogsOf(k)) <= Cardinality(Logs)
  BY <1>1, <1>2, FS_Subset
<1>4. IsFiniteSet(Settled(k)) /\ Cardinality(Settled(k)) <= Cardinality(LogsOf(k))
  BY <1>2, <1>3, FS_Subset
<1>5. QED
  BY <1>3, <1>4, FS_CardinalityType

\* A step that adds nothing to totals and takes nothing from what is settled.
LEMMA SettledGrows ==
  ASSUME Typed, TotalsInv, totals' = totals, \A k \in Keys : Settled(k) \subseteq Settled(k)'
  PROVE  TotalsInv'
<1> SUFFICES ASSUME NEW k \in Keys
             PROVE  totals'[k] <= Cardinality(Settled(k)')
  BY DEF TotalsInv
<1>1. IsFiniteSet(Settled(k)')
  <2>1. IsFiniteSet(Logs)
    BY BillingAssumption
  <2>2. Settled(k)' \in SUBSET Logs
    BY DEF Settled, LogsOf
  <2>3. QED
    BY <2>1, <2>2, FS_Subset
<1>2. Cardinality(Settled(k)) <= Cardinality(Settled(k)') /\ Cardinality(Settled(k)') \in Nat
  BY <1>1, FS_Subset, FS_CardinalityType
<1>3. totals[k] \in Nat /\ totals[k] <= Cardinality(Settled(k))
  BY DEF Typed, TotalsInv
<1>4. QED
  BY <1>2, <1>3, SettledFinite

LEMMA TotalsStep ==
  ASSUME Typed, Places, WayOut, TotalsInv, [Next]_vars
  PROVE  TotalsInv'
<1>1. CASE UNCHANGED vars
  BY <1>1 DEF vars, TotalsInv, Settled, LogsOf
<1>2. CASE Elsewhere \/ Exit \/ Crash
  <2>1. UNCHANGED <<added, rows, totals>>
    BY <1>2 DEF Elsewhere, Serve, FlushReturns, LoopTicks, LoopStops, Signal, Drained,
       DrainTimesOut, CloseFlushes, Exit, Crash, flushVars, storeVars
  <2>2. \A l \in Logs : rows[l] > 0 => key'[l] = key[l]
    <3>1. CASE \E l \in Logs, k \in Keys \cup {None} : Serve(l, k)
      <4>1. PICK l \in Logs, k \in Keys \cup {None} : Serve(l, k)
        BY <3>1
      <4>2. rows[l] \in Nat /\ rows[l] <= 1 /\ rows[l] # 1
        BY <4>1 DEF Serve, Typed, Places, Recorded
      <4>3. QED
        BY <4>1, <4>2 DEF Serve, Typed
    <3>2. CASE ~ \E l \in Logs, k \in Keys \cup {None} : Serve(l, k)
      BY <1>2, <3>2 DEF Elsewhere, FlushReturns, LoopTicks, LoopStops, Signal, Drained,
         DrainTimesOut, CloseFlushes, Exit, Crash
    <3>3. QED
      BY <3>1, <3>2
  <2>3. \A k \in Keys : Settled(k) \subseteq Settled(k)'
    BY <2>1, <2>2 DEF Settled, LogsOf
  <2>4. QED
    BY <2>1, <2>3, SettledGrows
<1>3. CASE Restart
  <2>1. \A k \in Keys : Settled(k) \subseteq Settled(k)'
    BY <1>3, BillingAssumption DEF Restart, Settled, LogsOf, storeVars
  <2>2. QED
    BY <1>3, <2>1, SettledGrows DEF Restart, storeVars
<1>4. ASSUME NEW l \in Logs, Record(l)
      PROVE  TotalsInv'
  BY <1>4, SettledGrows DEF Record, Settled, LogsOf, storeVars
<1>5. ASSUME NEW p \in Flushers, Take(p)
      PROVE  TotalsInv'
  BY <1>5, SettledGrows DEF Take, Settled, LogsOf, storeVars
<1>6. ASSUME NEW p \in Flushers, NEW l \in Logs, InsertFails(p, l)
      PROVE  TotalsInv'
  BY <1>6, SettledGrows DEF InsertFails, Settled, LogsOf, storeVars
<1>7. ASSUME NEW p \in Flushers, NEW l \in Logs, InsertLog(p, l)
      PROVE  TotalsInv'
  <2>1. ASSUME NEW k \in Keys, NEW m \in Settled(k)
        PROVE  m \in Settled(k)'
    <3>1. m \in Logs /\ key[m] = k /\ rows[m] > 0 /\ \A q \in Flushers : added[q] # m
      BY DEF Settled, LogsOf
    <3>2. m # l
      BY <1>7, <3>1 DEF InsertLog, Places, Typed
    <3>3. rows'[m] > 0 /\ key'[m] = k /\ \A q \in Flushers : added'[q] # m
      BY <1>7, <3>1, <3>2, BillingAssumption DEF InsertLog, Typed
    <3>4. QED
      BY <3>1, <3>3 DEF Settled, LogsOf
  <2>2. QED
    BY <1>7, <2>1, SettledGrows DEF InsertLog
<1>8. ASSUME NEW p \in Flushers, AddUsage(p)
      PROVE  TotalsInv'
  <2> DEFINE log == added[p]
  <2>1. /\ log \in Logs /\ key[log] \in Keys /\ rows[log] = 1
        /\ \A q \in Flushers : q # p => added[q] # log
    BY <1>8 DEF AddUsage, Typed, Places
  <2>2. \A q \in Flushers : added'[q] = IF q = p THEN None ELSE added[q]
    BY <1>8 DEF AddUsage, Typed
  <2>3. rows' = rows /\ key' = key
    BY <1>8 DEF AddUsage
  <2>4. \A k \in Keys : Settled(k) \subseteq Settled(k)'
    BY <2>2, <2>3, BillingAssumption DEF Settled, LogsOf
  <2>5. CASE totals' = totals
    BY <2>4, <2>5, SettledGrows
  <2>6. CASE totals' = [totals EXCEPT ![key[log]] = @ + 1]
    <3> SUFFICES ASSUME NEW k \in Keys
                 PROVE  totals'[k] <= Cardinality(Settled(k)')
      BY DEF TotalsInv
    <3>1. totals[k] \in Nat /\ totals[k] <= Cardinality(Settled(k))
      BY DEF Typed, TotalsInv
    <3>2. CASE k = key[log]
      <4>1. Settled(k)' = Settled(k) \cup {log}
        BY <2>1, <2>2, <2>3, <3>2, BillingAssumption DEF Settled, LogsOf
      <4>2. log \notin Settled(k)
        BY DEF Settled
      <4>3. Cardinality(Settled(k) \cup {log}) = Cardinality(Settled(k)) + 1
        BY <4>2, SettledFinite, FS_AddElement
      <4>4. totals'[k] = totals[k] + 1
        BY <2>6, <3>2 DEF Typed
      <4>5. QED
        BY <3>1, <4>1, <4>3, <4>4, SettledFinite
    <3>3. CASE k # key[log]
      <4>1. totals'[k] = totals[k]
        BY <2>6, <3>3 DEF Typed
      <4>2. Settled(k)' = Settled(k)
        BY <2>1, <2>2, <2>3, <3>3, BillingAssumption DEF Settled, LogsOf
      <4>3. QED
        BY <3>1, <4>1, <4>2
    <3>4. QED
      BY <3>2, <3>3
  <2>7. QED
    BY <1>8, <2>5, <2>6 DEF AddUsage
<1>9. QED
  BY <1>1, <1>2, <1>3, <1>4, <1>5, <1>6, <1>7, <1>8, StepsOfNext

LEMMA InvInit ==
  ASSUME Init
  PROVE  Inv
<1>1. Typed
  BY TypedInit
<1>2. Recorded = {}
  BY DEF Init, Recorded
<1>3. Places
  BY <1>2 DEF Init, Places
<1>4. WayOut
  BY FlushersDistinct DEF Init, WayOut
<1>5. TotalsInv
  <2> SUFFICES ASSUME NEW k \in Keys
               PROVE  totals[k] <= Cardinality(Settled(k))
    BY DEF TotalsInv
  <2>1. totals[k] = 0
    BY DEF Init
  <2>2. QED
    BY <2>1, SettledFinite
<1>6. QED
  BY <1>1, <1>3, <1>4, <1>5 DEF Inv

LEMMA InvStep ==
  ASSUME Inv, [Next]_vars
  PROVE  Inv'
BY TypedStep, PlacesStep, WayOutStep, TotalsStep DEF Inv

LEMMA BillingInv == Spec => []Inv
<1>1. Init => Inv
  BY InvInit
<1>2. Inv /\ [Next]_vars => Inv'
  BY InvStep
<1>3. QED
  BY <1>1, <1>2, PTL DEF Spec

-----------------------------------------------------------------------------
(* What follows.                                                            *)

\* Every variable keeps its type, and no key is charged for more logs than
\* there are requests (billing.go, Record and Flush).
THEOREM BillingTypeCorrect == Spec => []TypeOK
<1>1. Inv => TypeOK
  <2> SUFFICES ASSUME Inv, NEW k \in Keys
               PROVE  totals[k] \in 0 .. Cardinality(Logs)
    BY DEF Inv, Typed, TypeOK
  <2>1. totals[k] \in Nat /\ totals[k] <= Cardinality(Settled(k))
    BY DEF Inv, Typed, TotalsInv
  <2>2. Cardinality(Logs) \in Nat
    BY BillingAssumption, FS_CardinalityType
  <2>3. QED
    BY <2>1, <2>2, SettledFinite
<1>2. QED
  BY <1>1, BillingInv, PTL

\* However the flushes of the loop, the handlers and Close overlap and wherever
\* the process dies, no log is written twice and no key's totals run ahead of
\* its logs (billing.go, Flush).
THEOREM BillsOnce == Spec => []ChargedOnce
<1>1. Inv => ChargedOnce
  <2> SUFFICES ASSUME Inv
               PROVE  ChargedOnce
    OBVIOUS
  <2>1. \A k \in Keys : totals[k] <= Cardinality(LogsOf(k))
    <3> TAKE k \in Keys
    <3>1. totals[k] \in Nat /\ totals[k] <= Cardinality(Settled(k))
      BY DEF Inv, Typed, TotalsInv
    <3>2. QED
      BY <3>1, SettledFinite
  <2>2. QED
    BY <2>1 DEF Inv, Places, ChargedOnce
<1>2. QED
  BY <1>1, BillingInv, PTL

\* A stop in which Shutdown saw every handler out leaves nothing unwritten in
\* memory (billing.go, Close; main.go, the order of the defers).
THEOREM StopFlushes == Spec => []CleanStopFlushes
<1>1. Inv => CleanStopFlushes
  <2> SUFFICES ASSUME Inv, main = "exit", ~late
               PROVE  InMemory = {}
    BY DEF CleanStopFlushes
  <2>1. \A p \in Flushers : flush[p] = "off"
    BY FlushersDistinct DEF Inv, WayOut, HandlerDone, Flushers
  <2>2. buf = {}
    BY <2>1, FlushersDistinct DEF Inv, WayOut
  <2>3. \A p \in Flushers : batch[p] = {} /\ added[p] = None
    BY <2>1 DEF Inv, Places
  <2>4. QED
    BY <2>2, <2>3, BillingAssumption DEF InMemory
<1>2. QED
  BY <1>1, BillingInv, PTL

-----------------------------------------------------------------------------
(* The refinement: every step of the recorder is one of the ledger, or none. *)

Payer == [l \in Logs |-> IF l \in Recorded THEN key[l] ELSE None]

Due == IF Alive THEN InMemory ELSE {}

LEMMA BooksInit ==
  ASSUME Init
  PROVE  Books!Init
<1>1. Recorded = {} /\ InMemory = {}
  BY BillingAssumption DEF Init, Recorded, InMemory
<1>2. QED
  BY <1>1 DEF Init, Books!Init

LEMMA BooksStutter ==
  ASSUME Payer' = Payer, Recorded' = Recorded, Due' = Due, UNCHANGED storeVars
  PROVE  UNCHANGED Books!vars
BY DEF Books!vars, Payer, Due, storeVars

LEMMA BooksStep ==
  ASSUME Inv, [Next]_vars
  PROVE  [Books!Next]_(Books!vars)
<1> USE FlushersDistinct, BillingAssumption
<1>1. CASE UNCHANGED vars
  <2>1. Payer' = Payer /\ Recorded' = Recorded /\ Due' = Due /\ UNCHANGED storeVars
    BY <1>1 DEF vars, Payer, Recorded, Due, InMemory, Alive, storeVars
  <2>2. QED
    BY <2>1, BooksStutter
<1>2. CASE Elsewhere
  <2>1. UNCHANGED <<buf, batch, added, storeVars>> /\ Alive /\ Alive'
    BY <1>2 DEF Elsewhere, Serve, FlushReturns, LoopTicks, LoopStops, Signal, Drained,
       DrainTimesOut, CloseFlushes, flushVars, storeVars, Alive
  <2>2. Recorded' = Recorded /\ Payer' = Payer
    <3>1. CASE \E l \in Logs, k \in Keys \cup {None} : Serve(l, k)
      BY <3>1 DEF Serve, Recorded, Payer, Inv, Typed
    <3>2. CASE ~ \E l \in Logs, k \in Keys \cup {None} : Serve(l, k)
      BY <1>2, <3>2 DEF Elsewhere, FlushReturns, LoopTicks, LoopStops, Signal, Drained,
         DrainTimesOut, CloseFlushes, Recorded, Payer
    <3>3. QED
      BY <3>1, <3>2
  <2>3. Due' = Due
    BY <2>1 DEF Due, InMemory
  <2>4. QED
    BY <2>1, <2>2, <2>3, BooksStutter
<1>3. CASE Exit \/ Crash
  <2>1. Alive /\ ~Alive' /\ UNCHANGED <<request, key, storeVars>>
    BY <1>3 DEF Exit, Crash, Alive
  <2>2. Books!GiveUp(Due)
    BY <2>1 DEF Books!GiveUp, Due, Recorded, storeVars
  <2>3. QED
    BY <2>2 DEF Books!Next, Due
<1>4. CASE Restart
  <2>1. ~Alive /\ InMemory' = {} /\ UNCHANGED <<key, storeVars>>
    BY <1>4 DEF Restart, InMemory
  <2>2. Recorded' = Recorded
    BY <1>4 DEF Restart, Recorded, Inv, Typed
  <2>3. Due' = Due /\ Payer' = Payer
    BY <2>1, <2>2 DEF Due, Payer
  <2>4. QED
    BY <2>1, <2>2, <2>3, BooksStutter
<1>5. ASSUME NEW l \in Logs, Record(l)
      PROVE  Books!Next
  <2>1. Alive /\ Alive' /\ UNCHANGED <<key, storeVars>> /\ l \notin Recorded
    BY <1>5 DEF Record, Alive, Recorded
  <2>2. Recorded' = Recorded \cup {l} /\ InMemory' = InMemory \cup {l}
    BY <1>5 DEF Record, Recorded, InMemory, Inv, Typed
  <2>3. PICK k \in Keys \cup {None} : key[l] = k
    BY DEF Inv, Typed
  <2>4. Payer' = [Payer EXCEPT ![l] = k]
    BY <2>1, <2>2, <2>3 DEF Payer
  <2>5. Books!Note(l, k)
    BY <2>1, <2>2, <2>4 DEF Books!Note, Payer, storeVars
  <2>6. QED
    BY <2>5 DEF Books!Next
<1>6. ASSUME NEW p \in Flushers, Take(p)
      PROVE  UNCHANGED Books!vars
  <2>1. Alive /\ Alive' /\ UNCHANGED <<request, key, added, storeVars>>
    BY <1>6 DEF Take, Alive
  <2>2. batch[p] = {}
    BY <1>6 DEF Take, Inv, Places
  <2>3. InMemory' = InMemory
    <3>1. CASE buf = {}
      BY <1>6, <3>1 DEF Take, InMemory
    <3>2. CASE buf # {}
      <4>1. buf' = {} /\ batch' = [batch EXCEPT ![p] = buf] /\ added' = added
        BY <1>6, <3>2 DEF Take, EmptyBuffer
      <4>2. \A q \in Flushers : batch'[q] = IF q = p THEN buf ELSE batch[q]
        BY <4>1 DEF Inv, Typed
      <4>3. QED
        BY <4>1, <4>2, <2>2 DEF InMemory
    <3>3. QED
      BY <3>1, <3>2
  <2>4. Recorded' = Recorded /\ Payer' = Payer /\ Due' = Due
    BY <2>1, <2>3 DEF Recorded, Payer, Due
  <2>5. QED
    BY <2>1, <2>4, BooksStutter
<1>7. ASSUME NEW p \in Flushers, AddUsage(p)
      PROVE  Books!Next
  <2> DEFINE log == added[p]
  <2>1. /\ Alive /\ Alive' /\ UNCHANGED <<request, key, buf, batch, rows>>
        /\ log \in Logs /\ log \in Recorded /\ rows[log] = 1 /\ key[log] \in Keys
    BY <1>7 DEF AddUsage, Alive, Inv, Typed, Places
  <2>2. \A q \in Flushers : added'[q] = IF q = p THEN None ELSE added[q]
    BY <1>7 DEF AddUsage, Inv, Typed
  <2>3. log \notin buf /\ \A q \in Flushers : log \notin batch[q] /\ (q # p => added[q] # log)
    BY <1>7, <2>1 DEF AddUsage, Inv, Places
  <2>4. log \in InMemory /\ InMemory' = InMemory \ {log}
    BY <2>1, <2>2, <2>3 DEF InMemory
  <2>5. Recorded' = Recorded /\ Payer' = Payer /\ Payer[log] = key[log]
    BY <2>1 DEF Recorded, Payer
  <2>6. CASE totals' = [totals EXCEPT ![key[log]] = @ + 1]
    <3>1. Books!Charge(log)
      BY <2>1, <2>4, <2>5, <2>6 DEF Books!Charge, Payer
    <3>2. QED
      BY <2>1, <3>1 DEF Books!Next
  <2>7. CASE totals' = totals
    <3>1. Books!GiveUp({log})
      BY <2>1, <2>4, <2>5, <2>7 DEF Books!GiveUp, Payer
    <3>2. QED
      BY <2>1, <3>1 DEF Books!Next
  <2>8. QED
    BY <1>7, <2>6, <2>7 DEF AddUsage
<1>8. ASSUME NEW p \in Flushers, NEW l \in Logs, InsertLog(p, l)
      PROVE  Books!Next
  <2>1. /\ Alive /\ Alive' /\ UNCHANGED <<request, key, buf, totals>>
        /\ l \in Recorded /\ rows[l] = 0 /\ l \notin buf /\ l \in InMemory
    BY <1>8 DEF InsertLog, Alive, Inv, Typed, Places, InMemory
  <2>2. \A q \in Flushers : q # p => l \notin batch[q] /\ added[q] # l
    BY <1>8, <2>1 DEF InsertLog, Inv, Places, Typed
  <2>3. rows' = [rows EXCEPT ![l] = 1]
    BY <1>8, <2>1 DEF InsertLog, Inv, Typed
  <2>4. Recorded' = Recorded /\ Payer' = Payer /\ Payer[l] = key[l]
    BY <2>1 DEF Recorded, Payer
  <2>5. \A q \in Flushers : /\ batch'[q] = IF q = p THEN batch[q] \ {l} ELSE batch[q]
                            /\ added'[q] = IF q = p THEN (IF key[l] = None THEN None ELSE l)
                                                     ELSE added[q]
    BY <1>8 DEF InsertLog, Inv, Typed
  <2>6. InMemory' = IF key[l] = None THEN InMemory \ {l} ELSE InMemory
    <3>1. added[p] = None
      BY <1>8 DEF InsertLog
    <3>2. CASE key[l] = None
      <4>1. \A q \in Flushers : batch'[q] = batch[q] \ {l} /\ added'[q] = added[q] /\ added[q] # l
        BY <2>1, <2>2, <2>5, <3>1, <3>2
      <4>2. QED
        BY <2>1, <3>2, <4>1 DEF InMemory
    <3>3. CASE key[l] # None
      <4>1. added'[p] = l /\ \A q \in Flushers : q # p => batch'[q] = batch[q] /\ added'[q] = added[q]
        BY <2>5, <3>3
      <4>2. ASSUME NEW x \in InMemory'
            PROVE  x \in InMemory
        <5>1. CASE x \in buf'
          BY <2>1, <5>1 DEF InMemory
        <5>2. ASSUME NEW q \in Flushers, x \in batch'[q] \/ added'[q] = x
              PROVE  x \in InMemory
          <6>1. x = l \/ x \in batch[q] \/ added[q] = x
            BY <2>5, <3>3, <5>2
          <6>2. QED
            BY <2>1, <6>1 DEF InMemory
        <5>3. QED
          BY <5>1, <5>2 DEF InMemory
      <4>3. ASSUME NEW x \in InMemory
            PROVE  x \in InMemory'
        <5>1. CASE x = l
          BY <4>1, <5>1 DEF InMemory
        <5>2. CASE x \in buf
          BY <2>1, <5>2 DEF InMemory
        <5>3. ASSUME x # l, NEW q \in Flushers, x \in batch[q] \/ added[q] = x
              PROVE  x \in InMemory'
          <6>1. x \in batch'[q] \/ added'[q] = x
            BY <2>5, <3>1, <4>1, <5>3 DEF InMemory
          <6>2. QED
            BY <6>1 DEF InMemory
        <5>4. QED
          BY <5>1, <5>2, <5>3 DEF InMemory
      <4>4. QED
        BY <3>3, <4>2, <4>3
    <3>4. QED
      BY <3>2, <3>3
  <2>7. Books!Write(l)
    BY <2>1, <2>3, <2>4, <2>6 DEF Books!Write, Payer
  <2>8. QED
    BY <2>7 DEF Books!Next
<1>9. ASSUME NEW p \in Flushers, NEW l \in Logs, InsertFails(p, l)
      PROVE  Books!Next
  <2>1. /\ Alive /\ Alive' /\ UNCHANGED <<request, key, buf, added, storeVars>>
        /\ rows[l] = 0 /\ l \notin buf /\ l \in InMemory
    BY <1>9 DEF InsertFails, Alive, Inv, Typed, Places, InMemory
  <2>2. \A q \in Flushers : (q # p => l \notin batch[q]) /\ added[q] # l
    BY <1>9, <2>1 DEF InsertFails, Inv, Places, Typed
  <2>3. \A q \in Flushers : batch'[q] = IF q = p THEN batch[q] \ {l} ELSE batch[q]
    BY <1>9 DEF InsertFails, Inv, Typed
  <2>4. InMemory' = InMemory \ {l}
    <3>1. \A q \in Flushers : batch'[q] = batch[q] \ {l} /\ added'[q] = added[q] /\ added[q] # l
      BY <2>1, <2>2, <2>3
    <3>2. QED
      BY <2>1, <3>1 DEF InMemory
  <2>5. Books!GiveUp({l})
    BY <2>1, <2>4 DEF Books!GiveUp, Recorded, storeVars
  <2>6. QED
    BY <2>5 DEF Books!Next
<1>10. QED
  BY <1>1, <1>2, <1>3, <1>4, <1>5, <1>6, <1>7, <1>8, <1>9, StepsOfNext

\* billing.go:54, logs are buffered, written in batches and charged: seen from
\* the tables, for any number of requests, keys and flushers, that is a ledger
\* that enters and charges one log at a time, each once.
THEOREM RecorderKeepsBooks == Spec => Books!SafeSpec
<1>1. Init => Books!Init
  BY BooksInit
<1>2. Inv /\ [Next]_vars => [Books!Next]_(Books!vars)
  BY BooksStep
<1>3. QED
  BY <1>1, <1>2, BillingInv, PTL DEF Spec, Books!SafeSpec

-----------------------------------------------------------------------------
(* Recursion over the members of a sequence.                                *)

LEMMA Least ==
  ASSUME NEW T \in SUBSET Nat, T # {}
  PROVE  \E n \in T : \A m \in T : n <= m
<1> DEFINE Upto == {0 .. n : n \in T}
<1>1. Upto \subseteq FiniteSubsetsOf(Nat) /\ Upto # {}
  <2>1. \A n \in T : IsFiniteSet(0 .. n)
    BY FS_Interval
  <2>2. \A n \in T : 0 .. n \subseteq Nat
    OBVIOUS
  <2>3. QED
    BY <2>1, <2>2 DEF FiniteSubsetsOf
<1>2. \E x \in Upto : \A y \in Upto : ~(<<y, x>> \in StrictSubsetOrdering(Nat))
  BY <1>1, WFMin, FS_StrictSubsetOrderingWellFounded
<1>3. PICK n \in T : \A m \in T : ~(<<0 .. m, 0 .. n>> \in StrictSubsetOrdering(Nat))
  BY <1>2
<1>4. ASSUME NEW m \in T, m < n
      PROVE  FALSE
  <2>1. /\ 0 .. m \in SUBSET Nat /\ 0 .. n \in SUBSET Nat /\ 0 .. m \subseteq 0 .. n
        /\ n \in 0 .. n /\ n \notin 0 .. m
    BY <1>4
  <2>2. <<0 .. m, 0 .. n>> \in StrictSubsetOrdering(Nat)
    BY <2>1 DEF StrictSubsetOrdering
  <2>3. QED
    BY <1>3, <2>2
<1>5. QED
  BY <1>4

LEMMA Climb ==
  ASSUME NEW n \in Nat, NEW T, 0 \in T, \A i \in 1 .. n : i - 1 \in T => i \in T
  PROVE  \A i \in 0 .. n : i \in T
<1>1. SUFFICES ASSUME (0 .. n) \ T # {}
               PROVE  FALSE
  OBVIOUS
<1>2. PICK i \in (0 .. n) \ T : \A j \in (0 .. n) \ T : i <= j
  <2>1. (0 .. n) \ T \in SUBSET Nat
    OBVIOUS
  <2>2. QED
    BY <1>1, <2>1, Least
<1>3. i \in 1 .. n /\ i - 1 \in 0 .. n /\ i - 1 < i
  BY <1>2
<1>4. i - 1 \in T
  BY <1>2, <1>3
<1>5. QED
  BY <1>2, <1>3, <1>4

\* A loop over n members with a variable that starts as c.
Iterates(f, n, c, G) == f[0] = c /\ \A i \in 1 .. n : f[i] = G[<<i, f[i - 1]>>]

LEMMA Iteration ==
  ASSUME NEW n \in Nat, NEW V, NEW c \in V, NEW G \in [(1 .. n) \X V -> V]
  PROVE  \E f \in [0 .. n -> V] : Iterates(f, n, c, G)
<1> DEFINE T == {m \in 0 .. n : \E f \in [0 .. m -> V] : Iterates(f, m, c, G)}
<1>1. 0 \in T
  <2> DEFINE f == [i \in 0 .. 0 |-> c]
  <2>1. f \in [0 .. 0 -> V] /\ Iterates(f, 0, c, G)
    BY DEF Iterates
  <2> HIDE DEF f
  <2>2. QED
    BY <2>1
<1>2. ASSUME NEW m \in 1 .. n, m - 1 \in T
      PROVE  m \in T
  <2>1. PICK f \in [0 .. m - 1 -> V] : Iterates(f, m - 1, c, G)
    BY <1>2
  <2> DEFINE g == [i \in 0 .. m |-> IF i = m THEN G[<<m, f[m - 1]>>] ELSE f[i]]
  <2>2. f[m - 1] \in V /\ G[<<m, f[m - 1]>>] \in V
    BY <2>1
  <2>3. g \in [0 .. m -> V]
    BY <2>1, <2>2
  <2>4. g[0] = c
    BY <2>1 DEF Iterates
  <2>5. ASSUME NEW i \in 1 .. m
        PROVE  g[i] = G[<<i, g[i - 1]>>]
    <3>1. i - 1 \in 0 .. m /\ i - 1 # m /\ g[i - 1] = f[i - 1]
      OBVIOUS
    <3>2. CASE i = m
      BY <3>1, <3>2
    <3>3. CASE i # m
      <4>1. i \in 1 .. m - 1 /\ g[i] = f[i]
        BY <3>3
      <4>2. QED
        BY <2>1, <3>1, <4>1 DEF Iterates
    <3>4. QED
      BY <3>2, <3>3
  <2> HIDE DEF g
  <2>6. Iterates(g, m, c, G)
    BY <2>4, <2>5 DEF Iterates
  <2>7. QED
    BY <2>3, <2>6
<1> HIDE DEF T
<1>3. \A i \in 0 .. n : i \in T
  BY <1>1, <1>2, Climb
<1>4. QED
  BY <1>3 DEF T

-----------------------------------------------------------------------------
(* Sums, bytes and cuts.                                                    *)

LEMMA TotalLoop ==
  ASSUME NEW f, NEW k \in Nat, \A i \in 1 .. k : f[i] \in Nat
  PROVE  \E g \in [0 .. k -> Nat] :
           /\ g[0] = 0
           /\ \A i \in 1 .. k :
                g[i] = g[i - 1] + f[i]
           /\ Total(f, k) = g[k]
<1> DEFINE n == k
           V == Nat
           Step(i, v) ==
             v + f[i]
           G == [x \in (1 .. n) \X V |-> Step(x[1], x[2])]
           Run(g) == g = [i \in 0 .. n |-> IF i = 0 THEN 0 ELSE Step(i, g[i - 1])]
<1>1. n \in Nat /\ 0 \in V
  OBVIOUS
<1>2. \A i \in 1 .. n, v \in V : Step(i, v) \in V
  OBVIOUS
<1> DEFINE t == CHOOSE g : Run(g)
<1>3. Total(f, k) = t[n]
  BY DEF Total
<1> HIDE DEF n, V, Step, t
<1>4. PICK g \in [0 .. n -> V] : g[0] = 0 /\ \A i \in 1 .. n : g[i] = Step(i, g[i - 1])
  <2>1. G \in [(1 .. n) \X V -> V] /\ \A i \in 1 .. n, v \in V : G[<<i, v>>] = Step(i, v)
    BY <1>2
  <2> HIDE DEF G
  <2>2. PICK g \in [0 .. n -> V] : Iterates(g, n, 0, G)
    BY <1>1, <2>1, Iteration
  <2>3. \A i \in 1 .. n : g[i - 1] \in V /\ g[i] = G[<<i, g[i - 1]>>]
    BY <1>1, <2>2 DEF Iterates
  <2>4. QED
    BY <2>1, <2>2, <2>3 DEF Iterates
<1>5. Run(g)
  BY <1>1, <1>4
<1>6. Run(t)
  BY <1>5 DEF t
<1> DEFINE T == {i \in 0 .. n : t[i] = g[i]}
<1>7. 0 \in T
  BY <1>1, <1>4, <1>6
<1>8. ASSUME NEW i \in 1 .. n, i - 1 \in T
      PROVE  i \in T
  BY <1>1, <1>4, <1>6, <1>8
<1> HIDE DEF T
<1>9. \A i \in 0 .. n : i \in T
  BY <1>1, <1>7, <1>8, Climb
<1>10. t[n] = g[n]
  BY <1>1, <1>9 DEF T
<1>11. QED
  BY <1>3, <1>4, <1>10 DEF n, V, Step

\* A sum depends on its terms only.
LEMMA TotalSame ==
  ASSUME NEW n \in Nat, NEW f, NEW h,
         \A i \in 1 .. n : f[i] \in Nat /\ f[i] = h[i]
  PROVE  Total(f, n) = Total(h, n)
<1>1. PICK g \in [0 .. n -> Nat] :
        g[0] = 0 /\ (\A i \in 1 .. n : g[i] = g[i - 1] + f[i]) /\ Total(f, n) = g[n]
  BY TotalLoop
<1>2. PICK k \in [0 .. n -> Nat] :
        k[0] = 0 /\ (\A i \in 1 .. n : k[i] = k[i - 1] + h[i]) /\ Total(h, n) = k[n]
  BY TotalLoop
<1> DEFINE T == {i \in 0 .. n : g[i] = k[i]}
<1>3. 0 \in T
  BY <1>1, <1>2
<1>4. ASSUME NEW i \in 1 .. n, i - 1 \in T
      PROVE  i \in T
  BY <1>1, <1>2, <1>4
<1> HIDE DEF T
<1>5. \A i \in 0 .. n : i \in T
  BY <1>3, <1>4, Climb
<1>6. QED
  BY <1>1, <1>2, <1>5 DEF T

LEMMA TotalIs ==
  ASSUME NEW f, NEW n \in Nat, \A i \in 1 .. n : f[i] \in Nat
  PROVE  /\ Total(f, n) \in Nat
         /\ Total(f, 0) = 0
         /\ n > 0 => Total(f, n) = Total(f, n - 1) + f[n]
<1>1. PICK g \in [0 .. n -> Nat] :
        g[0] = 0 /\ (\A i \in 1 .. n : g[i] = g[i - 1] + f[i]) /\ Total(f, n) = g[n]
  BY TotalLoop
<1>2. Total(f, 0) = 0
  BY TotalLoop
<1>3. ASSUME n > 0
      PROVE  Total(f, n) = Total(f, n - 1) + f[n]
  <2>1. n - 1 \in Nat /\ \A i \in 1 .. n - 1 : f[i] \in Nat
    BY <1>3
  <2>2. PICK h \in [0 .. n - 1 -> Nat] :
          /\ h[0] = 0
          /\ \A i \in 1 .. n - 1 : h[i] = h[i - 1] + f[i]
          /\ Total(f, n - 1) = h[n - 1]
    BY <2>1, TotalLoop
  <2> DEFINE T == {i \in 0 .. n - 1 : g[i] = h[i]}
  <2>3. 0 \in T
    BY <1>1, <2>1, <2>2
  <2>4. ASSUME NEW i \in 1 .. n - 1, i - 1 \in T
        PROVE  i \in T
    BY <1>1, <2>1, <2>2, <2>4
  <2> HIDE DEF T
  <2>5. \A i \in 0 .. n - 1 : i \in T
    BY <2>1, <2>3, <2>4, Climb
  <2>6. g[n - 1] = h[n - 1]
    BY <2>1, <2>5 DEF T
  <2>7. QED
    BY <1>1, <1>3, <2>2, <2>6
<1>4. QED
  BY <1>1, <1>2, <1>3

LEMMA TotalGrows ==
  ASSUME NEW f, NEW n \in Nat, \A i \in 1 .. n : f[i] \in Nat, NEW k \in 0 .. n
  PROVE  Total(f, k) \in Nat /\ Total(f, k) <= Total(f, n)
<1> DEFINE T == {i \in 0 .. n : i < k \/ Total(f, k) <= Total(f, i)}
<1>1. \A i \in 0 .. n : Total(f, i) \in Nat
  BY TotalIs
<1>2. 0 \in T
  BY <1>1
<1>3. ASSUME NEW i \in 1 .. n, i - 1 \in T
      PROVE  i \in T
  <2>1. Total(f, i) = Total(f, i - 1) + f[i] /\ f[i] \in Nat
    BY TotalIs
  <2>2. Total(f, i - 1) \in Nat /\ Total(f, i) \in Nat /\ Total(f, k) \in Nat
    BY <1>1
  <2>3. CASE i = k
    BY <2>2, <2>3
  <2>4. CASE i # k
    BY <1>3, <2>1, <2>2, <2>4
  <2>5. QED
    BY <2>3, <2>4
<1> HIDE DEF T
<1>4. \A i \in 0 .. n : i \in T
  BY <1>2, <1>3, Climb
<1>5. QED
  BY <1>1, <1>4 DEF T

LEMMA WidthsTyped ==
  ASSUME NEW S, NEW text \in Seq(S)
  PROVE  /\ DOMAIN Widths(text) = 1 .. Len(text)
         /\ \A i \in 1 .. Len(text) : Widths(text)[i] \in Nat /\ Widths(text)[i] > 0
<1>1. \A g \in Glyphs : Width[g] \in 1 .. 4
  BY NormalizeAssumption
<1>2. DOMAIN text = 1 .. Len(text)
  OBVIOUS
<1>3. QED
  BY <1>1, <1>2 DEF Widths

LEMMA BytesNat ==
  ASSUME NEW S, NEW text \in Seq(S)
  PROVE  Bytes(text) \in Nat
BY WidthsTyped, TotalIs DEF Bytes

LEMMA NoBytes == Bytes(<<>>) = 0
<1>1. \A i \in 1 .. 0 : Widths(<<>>)[i] \in Nat
  OBVIOUS
<1>2. QED
  BY <1>1, TotalIs DEF Bytes

LEMMA BytesOfHead ==
  ASSUME NEW S, NEW text \in Seq(S), NEW k \in 0 .. Len(text)
  PROVE  /\ SubSeq(text, 1, k) \in Seq(S)
         /\ Len(SubSeq(text, 1, k)) = k
         /\ Bytes(SubSeq(text, 1, k)) = Total(Widths(text), k)
         /\ Bytes(SubSeq(text, 1, k)) \in Nat
<1> DEFINE head == SubSeq(text, 1, k)
<1>1. head \in Seq(S) /\ Len(head) = k /\ \A i \in 1 .. k : head[i] = text[i]
  <2>1. \A i \in 1 .. k : text[i] \in S
    OBVIOUS
  <2>2. QED
    BY <2>1, SubSeqProperties
<1> HIDE DEF head
<1>2. \A i \in 1 .. k : Widths(head)[i] = Widths(text)[i]
  <2>1. DOMAIN head = 1 .. k /\ DOMAIN text = 1 .. Len(text)
    BY <1>1
  <2>2. QED
    BY <1>1, <2>1 DEF Widths
<1>3. k \in Nat /\ \A i \in 1 .. k : Widths(head)[i] \in Nat
  BY <1>1, WidthsTyped
<1>4. Total(Widths(head), k) = Total(Widths(text), k)
  BY <1>2, <1>3, TotalSame
<1>5. QED
  BY <1>1, <1>4, BytesNat DEF Bytes, head

\* A cut is the longest head that fits.
LEMMA CutIs ==
  ASSUME NEW S, NEW text \in Seq(S), NEW n \in Nat
  PROVE  \E k \in 0 .. Len(text) :
           /\ Cut(text, n) = SubSeq(text, 1, k)
           /\ Total(Widths(text), k) <= n
           /\ \A j \in 0 .. Len(text) : Total(Widths(text), j) <= n => j <= k
<1> DEFINE w(j) == Total(Widths(text), j)
           Fits(p) == /\ p \in Prefixes(text)
                      /\ Bytes(p) <= n
                      /\ \A q \in Prefixes(text) : Bytes(q) <= n => Len(q) <= Len(p)
           Left == {Len(text) - j : j \in {j \in 0 .. Len(text) : w(j) <= n}}
<1>1. w(0) = 0
  BY WidthsTyped, TotalIs
<1>2. \E k \in 0 .. Len(text) : w(k) <= n /\ \A j \in 0 .. Len(text) : w(j) <= n => j <= k
  <2> HIDE DEF w
  <2>1. Left \in SUBSET Nat /\ Left # {}
    BY <1>1
  <2>2. PICK l \in Left : \A m \in Left : l <= m
    BY <2>1, Least
  <2>3. PICK k \in 0 .. Len(text) : w(k) <= n /\ l = Len(text) - k
    BY <2>2
  <2>4. ASSUME NEW j \in 0 .. Len(text), w(j) <= n
        PROVE  j <= k
    <3>1. Len(text) - j \in Left
      BY <2>4
    <3>2. Len(text) - k <= Len(text) - j
      BY <2>2, <2>3, <3>1
    <3>3. QED
      BY <3>2
  <2>5. QED
    BY <2>3, <2>4
<1>3. PICK k \in 0 .. Len(text) : w(k) <= n /\ \A j \in 0 .. Len(text) : w(j) <= n => j <= k
  BY <1>2
<1>4. \A j \in 0 .. Len(text) :
        Len(SubSeq(text, 1, j)) = j /\ Bytes(SubSeq(text, 1, j)) = w(j)
  BY BytesOfHead
<1> HIDE DEF w
<1>5. Fits(SubSeq(text, 1, k))
  BY <1>3, <1>4 DEF Prefixes
<1>6. ASSUME NEW p, Fits(p)
      PROVE  p = SubSeq(text, 1, k)
  <2>1. PICK j \in 0 .. Len(text) : p = SubSeq(text, 1, j)
    BY <1>6 DEF Prefixes
  <2>2. k <= j
    BY <1>3, <1>4, <1>6, <2>1 DEF Prefixes
  <2>3. j <= k
    BY <1>3, <1>4, <1>6, <2>1
  <2>4. QED
    BY <2>1, <2>2, <2>3
<1>7. Cut(text, n) = CHOOSE p : Fits(p)
  BY DEF Cut
<1> HIDE DEF Fits
<1>8. Cut(text, n) = SubSeq(text, 1, k)
  BY <1>5, <1>6, <1>7
<1>9. QED
  BY <1>3, <1>8 DEF w

LEMMA CutTyped ==
  ASSUME NEW S, NEW text \in Seq(S), NEW n \in Nat
  PROVE  Cut(text, n) \in Seq(S) /\ Bytes(Cut(text, n)) \in Nat /\ Bytes(Cut(text, n)) <= n
<1>1. PICK k \in 0 .. Len(text) :
        Cut(text, n) = SubSeq(text, 1, k) /\ Total(Widths(text), k) <= n
  BY CutIs
<1>2. QED
  BY <1>1, BytesOfHead

\* What fits is not cut off the head.
LEMMA CutKeeps ==
  ASSUME NEW S, NEW text \in Seq(S), NEW part \in Seq(S), NEW n \in Nat,
         IsPrefix(part, text), Bytes(part) <= n
  PROVE  IsPrefix(part, Cut(text, n))
<1>1. PICK k \in 0 .. Len(text) :
        /\ Cut(text, n) = SubSeq(text, 1, k)
        /\ \A j \in 0 .. Len(text) : Total(Widths(text), j) <= n => j <= k
  BY CutIs
<1>2. Len(part) \in 0 .. Len(text) /\ SubSeq(part, 1, Len(part)) = SubSeq(text, 1, Len(part))
  BY DEF IsPrefix
<1>3. part = SubSeq(text, 1, Len(part))
  BY <1>2, SubSeqFull
<1>4. Total(Widths(text), Len(part)) <= n
  BY <1>2, <1>3, BytesOfHead
<1>5. Len(part) <= k
  BY <1>1, <1>2, <1>4
<1> DEFINE head == SubSeq(text, 1, k)
<1>6. head \in Seq(S) /\ Len(head) = k /\ \A i \in 1 .. k : head[i] = text[i]
  <2>1. \A i \in 1 .. k : text[i] \in S
    OBVIOUS
  <2>2. QED
    BY <2>1, SubSeqProperties
<1> HIDE DEF head
<1>7. SubSeq(head, 1, Len(part)) = SubSeq(text, 1, Len(part))
  <2>1. \A i \in 1 .. Len(part) : head[i] = text[i]
    BY <1>5, <1>6
  <2>2. QED
    BY <2>1, <1>2, <1>5, <1>6
<1>8. QED
  BY <1>1, <1>2, <1>5, <1>6, <1>7 DEF IsPrefix, head

-----------------------------------------------------------------------------
(* Blocks.                                                                  *)

LEMMA BlocksOfContent ==
  ASSUME NEW content \in Seq(BlockType)
  PROVE  /\ ContentBlocks(content) \in Seq(BlockType)
         /\ Len(ContentBlocks(content)) = Len(content)
<1>1. \A i \in 1 .. Len(content) : content[i] \in BlockType
  OBVIOUS
<1>2. \A i \in 1 .. Len(content) : TextBlock(content[i].text) \in BlockType
  BY <1>1 DEF BlockType, TextBlock
<1>3. DOMAIN content = 1 .. Len(content) /\ Len(content) \in Nat
  OBVIOUS
<1>4. QED
  BY <1>1, <1>2, <1>3 DEF ContentBlocks

LEMMA TextTyped ==
  ASSUME NEW block \in BlockType
  PROVE  BlockText(block) \in Seq(Glyphs) /\ Bytes(BlockText(block)) \in Nat
<1>1. BlockText(block) \in Seq(Glyphs)
  BY DEF BlockText, BlockType
<1>2. QED
  BY <1>1, BytesNat

LEMMA TextBlockIs ==
  ASSUME NEW text \in Seq(Glyphs)
  PROVE  TextBlock(text) \in BlockType /\ BlockText(TextBlock(text)) = text
BY DEF TextBlock, BlockType, BlockText

LEMMA SystemLenIs ==
  ASSUME NEW system \in Seq(BlockType)
  PROVE  /\ SystemLen(system) \in Nat
         /\ SystemLen(<<>>) = 0
         /\ \A block \in BlockType :
              SystemLen(Append(system, block)) = SystemLen(system) + Bytes(BlockText(block))
<1> DEFINE f(t) == [i \in DOMAIN t |-> Bytes(BlockText(t[i]))]
<1>1. \A t \in Seq(BlockType) : \A i \in 1 .. Len(t) :
        f(t)[i] = Bytes(BlockText(t[i])) /\ f(t)[i] \in Nat
  <2>1. \A t \in Seq(BlockType) : \A i \in 1 .. Len(t) : t[i] \in BlockType /\ i \in DOMAIN t
    OBVIOUS
  <2>2. QED
    BY <2>1, TextTyped
<1>2. \A t : SystemLen(t) = Total(f(t), Len(t))
  BY DEF SystemLen
<1> HIDE DEF f
<1>3. SystemLen(system) \in Nat
  BY <1>1, <1>2, TotalIs
<1>4. SystemLen(<<>>) = 0
  <2>1. \A i \in 1 .. 0 : f(<<>>)[i] \in Nat
    OBVIOUS
  <2>2. Total(f(<<>>), 0) = 0
    BY <2>1, TotalIs
  <2>3. QED
    BY <1>2, <2>2
<1>5. ASSUME NEW block \in BlockType
      PROVE  SystemLen(Append(system, block)) = SystemLen(system) + Bytes(BlockText(block))
  <2> DEFINE longer == Append(system, block)
             n == Len(system)
  <2>1. /\ longer \in Seq(BlockType) /\ Len(longer) = n + 1 /\ n \in Nat
        /\ longer[n + 1] = block
        /\ \A i \in 1 .. n : longer[i] = system[i]
    BY AppendProperties
  <2> HIDE DEF longer, n
  <2>2. \A i \in 1 .. n + 1 : f(longer)[i] \in Nat
    BY <1>1, <2>1
  <2>3. Total(f(longer), n + 1) = Total(f(longer), n) + f(longer)[n + 1]
    BY <2>1, <2>2, TotalIs
  <2>4. \A i \in 1 .. n : f(longer)[i] \in Nat /\ f(longer)[i] = f(system)[i]
    BY <1>1, <2>1 DEF n
  <2>5. Total(f(longer), n) = Total(f(system), n)
    BY <2>1, <2>4, TotalSame
  <2>6. f(longer)[n + 1] = Bytes(BlockText(block))
    BY <1>1, <2>1
  <2>7. QED
    BY <1>2, <2>1, <2>3, <2>5, <2>6 DEF longer, n
<1>6. QED
  BY <1>3, <1>4, <1>5

-----------------------------------------------------------------------------
(* The relaxed cut.                                                         *)

\* truncateSystemBlocks between two blocks.
Rest == [out : Seq(BlockType), remaining : Nat]

LEMMA TruncateOne ==
  ASSUME NEW kept \in Rest, NEW block \in BlockType
  PROVE  LET text == Cut(BlockText(block), kept.remaining)
             next == TruncateBlock(kept, block)
         IN  /\ next \in Rest
             /\ text \in Seq(Glyphs)
             /\ \/ text = <<>> /\ next = kept
                \/ /\ next.out = Append(kept.out, TextBlock(text))
                   /\ next.remaining = kept.remaining - Bytes(text)
                   /\ Bytes(text) \in Nat
<1> DEFINE text == Cut(BlockText(block), kept.remaining)
<1>1. kept.out \in Seq(BlockType) /\ kept.remaining \in Nat
  BY DEF Rest
<1>2. text \in Seq(Glyphs) /\ Bytes(text) \in Nat /\ Bytes(text) <= kept.remaining
  BY <1>1, TextTyped, CutTyped
<1>3. TruncateBlock(kept, block) =
        IF text = <<>> THEN kept
        ELSE [out |-> Append(kept.out, TextBlock(text)),
              remaining |-> kept.remaining - Bytes(text)]
  BY DEF TruncateBlock
<1> HIDE DEF text
<1>4. TextBlock(text) \in BlockType
  BY <1>2, TextBlockIs
<1>5. Append(kept.out, TextBlock(text)) \in Seq(BlockType)
  BY <1>1, <1>4
<1>6. kept.remaining - Bytes(text) \in Nat
  BY <1>1, <1>2
<1>7. QED
  BY <1>2, <1>3, <1>5, <1>6 DEF Rest, text

LEMMA TruncateLoop ==
  ASSUME NEW blocks \in Seq(BlockType), NEW limit \in Nat
  PROVE  \E g \in [0 .. Len(blocks) -> Rest] :
           /\ g[0] = [out |-> <<>>, remaining |-> limit]
           /\ \A i \in 1 .. Len(blocks) :
                g[i] = TruncateBlock(g[i - 1], blocks[i])
           /\ TruncateSystemBlocks(blocks, limit) = g[Len(blocks)].out
<1> DEFINE n == Len(blocks)
           V == Rest
           Step(i, v) ==
             TruncateBlock(v, blocks[i])
           G == [x \in (1 .. n) \X V |-> Step(x[1], x[2])]
           Run(g) == g = [i \in 0 .. n |-> IF i = 0 THEN [out |-> <<>>, remaining |-> limit] ELSE Step(i, g[i - 1])]
<1>1. n \in Nat /\ [out |-> <<>>, remaining |-> limit] \in V
  BY DEF Rest
<1>2. \A i \in 1 .. n, v \in V : Step(i, v) \in V
  <2>1. \A i \in 1 .. n : blocks[i] \in BlockType
    OBVIOUS
  <2>2. QED
    BY <2>1, TruncateOne
<1> DEFINE t == CHOOSE g : Run(g)
<1>3. TruncateSystemBlocks(blocks, limit) = t[n].out
  BY DEF TruncateSystemBlocks
<1> HIDE DEF n, V, Step, t
<1>4. PICK g \in [0 .. n -> V] : g[0] = [out |-> <<>>, remaining |-> limit] /\ \A i \in 1 .. n : g[i] = Step(i, g[i - 1])
  <2>1. G \in [(1 .. n) \X V -> V] /\ \A i \in 1 .. n, v \in V : G[<<i, v>>] = Step(i, v)
    BY <1>2
  <2> HIDE DEF G
  <2>2. PICK g \in [0 .. n -> V] : Iterates(g, n, [out |-> <<>>, remaining |-> limit], G)
    BY <1>1, <2>1, Iteration
  <2>3. \A i \in 1 .. n : g[i - 1] \in V /\ g[i] = G[<<i, g[i - 1]>>]
    BY <1>1, <2>2 DEF Iterates
  <2>4. QED
    BY <2>1, <2>2, <2>3 DEF Iterates
<1>5. Run(g)
  BY <1>1, <1>4
<1>6. Run(t)
  BY <1>5 DEF t
<1> DEFINE T == {i \in 0 .. n : t[i] = g[i]}
<1>7. 0 \in T
  BY <1>1, <1>4, <1>6
<1>8. ASSUME NEW i \in 1 .. n, i - 1 \in T
      PROVE  i \in T
  BY <1>1, <1>4, <1>6, <1>8
<1> HIDE DEF T
<1>9. \A i \in 0 .. n : i \in T
  BY <1>1, <1>7, <1>8, Climb
<1>10. t[n] = g[n]
  BY <1>1, <1>9 DEF T
<1>11. QED
  BY <1>3, <1>4, <1>10 DEF n, V, Step

LEMMA TruncateFits ==
  ASSUME NEW blocks \in Seq(BlockType), NEW limit \in Nat
  PROVE  LET out == TruncateSystemBlocks(blocks, limit)
         IN  out \in Seq(BlockType) /\ SystemLen(out) <= limit
<1>1. PICK g \in [0 .. Len(blocks) -> Rest] :
        /\ g[0] = [out |-> <<>>, remaining |-> limit]
        /\ \A i \in 1 .. Len(blocks) : g[i] = TruncateBlock(g[i - 1], blocks[i])
        /\ TruncateSystemBlocks(blocks, limit) = g[Len(blocks)].out
  BY TruncateLoop
<1> DEFINE T == {i \in 0 .. Len(blocks) : SystemLen(g[i].out) + g[i].remaining = limit}
<1>2. 0 \in T
  BY <1>1, SystemLenIs, EmptySeq
<1>3. ASSUME NEW i \in 1 .. Len(blocks), i - 1 \in T
      PROVE  i \in T
  <2>1. /\ g[i - 1] \in Rest /\ blocks[i] \in BlockType
        /\ g[i] = TruncateBlock(g[i - 1], blocks[i])
        /\ SystemLen(g[i - 1].out) + g[i - 1].remaining = limit
    <3>1. i - 1 \in 0 .. Len(blocks) /\ blocks[i] \in BlockType
      OBVIOUS
    <3>2. g[i - 1] \in Rest
      BY <3>1
    <3>3. QED
      BY <1>1, <1>3, <3>1, <3>2
  <2>2. g[i - 1].out \in Seq(BlockType) /\ g[i - 1].remaining \in Nat
    BY <2>1 DEF Rest
  <2>3. CASE g[i] = g[i - 1]
    BY <2>1, <2>3
  <2>4. ASSUME NEW text \in Seq(Glyphs), Bytes(text) \in Nat,
               g[i].out = Append(g[i - 1].out, TextBlock(text)),
               g[i].remaining = g[i - 1].remaining - Bytes(text)
        PROVE  i \in T
    <3>1. SystemLen(g[i].out) = SystemLen(g[i - 1].out) + Bytes(text)
      BY <2>2, <2>4, SystemLenIs, TextBlockIs
    <3>2. SystemLen(g[i - 1].out) \in Nat
      BY <2>2, SystemLenIs
    <3>3. SystemLen(g[i].out) + g[i].remaining = limit
      BY <2>1, <2>2, <2>4, <3>1, <3>2
    <3>4. QED
      BY <3>3
  <2> HIDE DEF T
  <2>5. QED
    BY <2>1, <2>3, <2>4, TruncateOne
<1> HIDE DEF T
<1>4. \A i \in 0 .. Len(blocks) : i \in T
  <2>1. Len(blocks) \in Nat
    OBVIOUS
  <2>2. QED
    BY <1>2, <1>3, <2>1, Climb
<1>5. SystemLen(g[Len(blocks)].out) + g[Len(blocks)].remaining = limit
  BY <1>4 DEF T
<1>6. g[Len(blocks)].out \in Seq(BlockType) /\ g[Len(blocks)].remaining \in Nat
  BY DEF Rest
<1>7. SystemLen(g[Len(blocks)].out) \in Nat
  BY <1>6, SystemLenIs
<1>8. QED
  BY <1>1, <1>5, <1>6, <1>7

\* What the first block begins with stays, if it fits.
LEMMA TruncateKeepsHead ==
  ASSUME NEW blocks \in Seq(BlockType), blocks # <<>>, NEW limit \in Nat,
         NEW part \in Seq(Glyphs), part # <<>>, Bytes(part) <= limit,
         IsPrefix(part, BlockText(blocks[1]))
  PROVE  LET out == TruncateSystemBlocks(blocks, limit)
         IN  out # <<>> /\ IsPrefix(part, BlockText(out[1]))
<1>1. PICK g \in [0 .. Len(blocks) -> Rest] :
        /\ g[0] = [out |-> <<>>, remaining |-> limit]
        /\ \A i \in 1 .. Len(blocks) : g[i] = TruncateBlock(g[i - 1], blocks[i])
        /\ TruncateSystemBlocks(blocks, limit) = g[Len(blocks)].out
  BY TruncateLoop
<1> DEFINE Heads(out) == out # <<>> /\ IsPrefix(part, BlockText(out[1]))
           T == {i \in 0 .. Len(blocks) : i = 0 \/ Heads(g[i].out)}
<1>2. 0 \in T /\ Len(blocks) \in 1 .. Len(blocks)
  BY EmptySeq
<1>3. ASSUME NEW i \in 1 .. Len(blocks), i - 1 \in T
      PROVE  i \in T
  <2>1. /\ g[i - 1] \in Rest /\ blocks[i] \in BlockType
        /\ g[i] = TruncateBlock(g[i - 1], blocks[i])
    <3>1. Len(blocks) \in Nat /\ i - 1 \in 0 .. Len(blocks)
      OBVIOUS
    <3>2. g[i - 1] \in Rest
      BY <1>1, <3>1
    <3>3. QED
      BY <1>1, <3>2
  <2>2. g[i - 1].out \in Seq(BlockType)
    BY <2>1 DEF Rest
  <2>3. CASE i = 1
    <3> DEFINE text == Cut(BlockText(blocks[1]), limit)
    <3>1. g[0].out = <<>> /\ g[0].remaining = limit
      BY <1>1
    <3>2. IsPrefix(part, text)
      BY <2>1, <2>3, TextTyped, CutKeeps
    <3>3. text \in Seq(Glyphs) /\ text # <<>>
      <4>1. text \in Seq(Glyphs)
        BY <2>1, <2>3, TextTyped, CutTyped
      <4>2. Len(part) <= Len(text) /\ Len(part) \in Nat \ {0}
        BY <3>2, EmptySeq DEF IsPrefix
      <4> HIDE DEF text
      <4>3. QED
        BY <4>1, <4>2, EmptySeq
    <3>4. g[1].out = Append(<<>>, TextBlock(text))
      <4>1. g[0] \in Rest /\ blocks[1] \in BlockType /\ g[1] = TruncateBlock(g[0], blocks[1])
        BY <2>1, <2>3
      <4>2. Cut(BlockText(blocks[1]), g[0].remaining) = text
        BY <3>1
      <4> HIDE DEF text
      <4>3. QED
        BY <4>1, <4>2, <3>1, <3>3, TruncateOne
    <3> HIDE DEF text
    <3>5. TextBlock(text) \in BlockType /\ BlockText(TextBlock(text)) = text
      BY <3>3, TextBlockIs
    <3>6. g[1].out # <<>> /\ g[1].out[1] = TextBlock(text)
      BY <3>4, <3>5, AppendProperties, EmptySeq
    <3>7. Heads(g[1].out)
      BY <3>2, <3>5, <3>6
    <3>8. QED
      BY <2>3, <3>7
  <2>4. CASE i # 1
    <3>1. Heads(g[i - 1].out)
      BY <1>3, <2>4
    <3>2. ASSUME NEW block \in BlockType, g[i].out = Append(g[i - 1].out, block)
          PROVE  Heads(g[i].out)
      <4> DEFINE old == g[i - 1].out
      <4>1. old \in Seq(BlockType) /\ 1 \in 1 .. Len(old)
        BY <2>2, <3>1, EmptySeq
      <4> HIDE DEF old
      <4>2. Append(old, block) # <<>> /\ Append(old, block)[1] = old[1]
        BY <4>1, <3>2, AppendProperties
      <4>3. QED
        BY <3>1, <3>2, <4>2 DEF old
    <3> HIDE DEF Heads
    <3>3. Heads(g[i].out)
      <4>1. \/ g[i] = g[i - 1]
            \/ \E text \in Seq(Glyphs) : g[i].out = Append(g[i - 1].out, TextBlock(text))
        BY <2>1, TruncateOne
      <4>2. QED
        BY <3>1, <3>2, <4>1, TextBlockIs
    <3>4. QED
      BY <3>3
  <2>5. QED
    BY <2>3, <2>4
<1> HIDE DEF T
<1>4. \A i \in 0 .. Len(blocks) : i \in T
  <2>1. Len(blocks) \in Nat
    OBVIOUS
  <2>2. QED
    BY <1>2, <1>3, <2>1, Climb
<1>5. Heads(g[Len(blocks)].out)
  BY <1>2, <1>4 DEF T
<1>6. QED
  BY <1>1, <1>5

-----------------------------------------------------------------------------
(* System messages and the others.                                          *)

LEMMA KeptLoop ==
  ASSUME NEW ms \in Seq(MessageType)
  PROVE  \E g \in [0 .. Len(ms) -> Seq(MessageType)] :
           /\ g[0] = <<>>
           /\ \A i \in 1 .. Len(ms) :
                g[i] = IF IsSystem(ms[i]) THEN g[i - 1] ELSE Append(g[i - 1], ms[i])
           /\ Kept(ms) = g[Len(ms)]
<1> DEFINE n == Len(ms)
           V == Seq(MessageType)
           Step(i, v) ==
             IF IsSystem(ms[i]) THEN v ELSE Append(v, ms[i])
           G == [x \in (1 .. n) \X V |-> Step(x[1], x[2])]
           Run(g) == g = [i \in 0 .. n |-> IF i = 0 THEN <<>> ELSE Step(i, g[i - 1])]
<1>1. n \in Nat /\ <<>> \in V
  OBVIOUS
<1>2. \A i \in 1 .. n, v \in V : Step(i, v) \in V
  OBVIOUS
<1> DEFINE t == CHOOSE g : Run(g)
<1>3. Kept(ms) = t[n]
  BY DEF Kept
<1> HIDE DEF n, V, Step, t
<1>4. PICK g \in [0 .. n -> V] : g[0] = <<>> /\ \A i \in 1 .. n : g[i] = Step(i, g[i - 1])
  <2>1. G \in [(1 .. n) \X V -> V] /\ \A i \in 1 .. n, v \in V : G[<<i, v>>] = Step(i, v)
    BY <1>2
  <2> HIDE DEF G
  <2>2. PICK g \in [0 .. n -> V] : Iterates(g, n, <<>>, G)
    BY <1>1, <2>1, Iteration
  <2>3. \A i \in 1 .. n : g[i - 1] \in V /\ g[i] = G[<<i, g[i - 1]>>]
    BY <1>1, <2>2 DEF Iterates
  <2>4. QED
    BY <2>1, <2>2, <2>3 DEF Iterates
<1>5. Run(g)
  BY <1>1, <1>4
<1>6. Run(t)
  BY <1>5 DEF t
<1> DEFINE T == {i \in 0 .. n : t[i] = g[i]}
<1>7. 0 \in T
  BY <1>1, <1>4, <1>6
<1>8. ASSUME NEW i \in 1 .. n, i - 1 \in T
      PROVE  i \in T
  BY <1>1, <1>4, <1>6, <1>8
<1> HIDE DEF T
<1>9. \A i \in 0 .. n : i \in T
  BY <1>1, <1>7, <1>8, Climb
<1>10. t[n] = g[n]
  BY <1>1, <1>9 DEF T
<1>11. QED
  BY <1>3, <1>4, <1>10 DEF n, V, Step

LEMMA HoistedLoop ==
  ASSUME NEW ms \in Seq(MessageType)
  PROVE  \E g \in [0 .. Len(ms) -> Seq(BlockType)] :
           /\ g[0] = <<>>
           /\ \A i \in 1 .. Len(ms) :
                g[i] = IF IsSystem(ms[i]) THEN g[i - 1] \o ContentBlocks(ms[i].content) ELSE g[i - 1]
           /\ Hoisted(ms) = g[Len(ms)]
<1> DEFINE n == Len(ms)
           V == Seq(BlockType)
           Step(i, v) ==
             IF IsSystem(ms[i]) THEN v \o ContentBlocks(ms[i].content) ELSE v
           G == [x \in (1 .. n) \X V |-> Step(x[1], x[2])]
           Run(g) == g = [i \in 0 .. n |-> IF i = 0 THEN <<>> ELSE Step(i, g[i - 1])]
<1>1. n \in Nat /\ <<>> \in V
  OBVIOUS
<1>2. \A i \in 1 .. n, v \in V : Step(i, v) \in V
  <2>1. ASSUME NEW i \in 1 .. n
        PROVE  ContentBlocks(ms[i].content) \in Seq(BlockType)
    <3>1. ms[i] \in MessageType
      OBVIOUS
    <3>2. ms[i].content \in Seq(BlockType)
      BY <3>1 DEF MessageType
    <3>3. QED
      BY <3>2, BlocksOfContent
  <2>2. QED
    BY <2>1
<1> DEFINE t == CHOOSE g : Run(g)
<1>3. Hoisted(ms) = t[n]
  BY DEF Hoisted
<1> HIDE DEF n, V, Step, t
<1>4. PICK g \in [0 .. n -> V] : g[0] = <<>> /\ \A i \in 1 .. n : g[i] = Step(i, g[i - 1])
  <2>1. G \in [(1 .. n) \X V -> V] /\ \A i \in 1 .. n, v \in V : G[<<i, v>>] = Step(i, v)
    BY <1>2
  <2> HIDE DEF G
  <2>2. PICK g \in [0 .. n -> V] : Iterates(g, n, <<>>, G)
    BY <1>1, <2>1, Iteration
  <2>3. \A i \in 1 .. n : g[i - 1] \in V /\ g[i] = G[<<i, g[i - 1]>>]
    BY <1>1, <2>2 DEF Iterates
  <2>4. QED
    BY <2>1, <2>2, <2>3 DEF Iterates
<1>5. Run(g)
  BY <1>1, <1>4
<1>6. Run(t)
  BY <1>5 DEF t
<1> DEFINE T == {i \in 0 .. n : t[i] = g[i]}
<1>7. 0 \in T
  BY <1>1, <1>4, <1>6
<1>8. ASSUME NEW i \in 1 .. n, i - 1 \in T
      PROVE  i \in T
  BY <1>1, <1>4, <1>6, <1>8
<1> HIDE DEF T
<1>9. \A i \in 0 .. n : i \in T
  BY <1>1, <1>7, <1>8, Climb
<1>10. t[n] = g[n]
  BY <1>1, <1>9 DEF T
<1>11. QED
  BY <1>3, <1>4, <1>10 DEF n, V, Step

LEMMA KeptTyped ==
  ASSUME NEW ms \in Seq(MessageType)
  PROVE  Kept(ms) \in Seq(MessageType) /\ Hoisted(ms) \in Seq(BlockType)
<1>1. Kept(ms) \in Seq(MessageType)
  BY KeptLoop
<1>2. Hoisted(ms) \in Seq(BlockType)
  BY HoistedLoop
<1>3. QED
  BY <1>1, <1>2

LEMMA KeptHasNoSystem ==
  ASSUME NEW ms \in Seq(MessageType)
  PROVE  \A j \in 1 .. Len(Kept(ms)) : ~IsSystem(Kept(ms)[j])
<1>1. PICK g \in [0 .. Len(ms) -> Seq(MessageType)] :
        /\ g[0] = <<>>
        /\ \A i \in 1 .. Len(ms) :
             g[i] = IF IsSystem(ms[i]) THEN g[i - 1] ELSE Append(g[i - 1], ms[i])
        /\ Kept(ms) = g[Len(ms)]
  BY KeptLoop
<1> DEFINE T == {i \in 0 .. Len(ms) : \A j \in 1 .. Len(g[i]) : ~IsSystem(g[i][j])}
<1>2. 0 \in T /\ Len(ms) \in Nat
  BY <1>1
<1>3. ASSUME NEW i \in 1 .. Len(ms), i - 1 \in T
      PROVE  i \in T
  <2>1. CASE IsSystem(ms[i])
    BY <1>1, <1>3, <2>1
  <2>2. CASE ~IsSystem(ms[i])
    <3> DEFINE old == g[i - 1]
    <3>1. old \in Seq(MessageType) /\ ms[i] \in MessageType /\ g[i] = Append(old, ms[i])
      <4>1. i - 1 \in 0 .. Len(ms) /\ ms[i] \in MessageType
        OBVIOUS
      <4>2. QED
        BY <1>1, <2>2, <4>1
    <3>2. \A j \in 1 .. Len(old) : ~IsSystem(old[j])
      BY <1>3
    <3> HIDE DEF old
    <3>3. /\ Len(g[i]) = Len(old) + 1 /\ g[i][Len(old) + 1] = ms[i]
          /\ \A j \in 1 .. Len(old) : g[i][j] = old[j]
      BY <3>1, AppendProperties
    <3>4. Len(old) \in Nat
      BY <3>1
    <3>5. \A j \in 1 .. Len(g[i]) : j \in 1 .. Len(old) \/ j = Len(old) + 1
      BY <3>3, <3>4
    <3>6. \A j \in 1 .. Len(g[i]) : ~IsSystem(g[i][j])
      BY <2>2, <3>2, <3>3, <3>5
    <3>7. QED
      BY <3>6
  <2>3. QED
    BY <2>1, <2>2
<1> HIDE DEF T
<1>4. \A i \in 0 .. Len(ms) : i \in T
  BY <1>2, <1>3, Climb
<1>5. QED
  BY <1>1, <1>2, <1>4 DEF T

\* A conversation without system messages is kept as it is.
LEMMA NothingToHoist ==
  ASSUME NEW ms \in Seq(MessageType), \A i \in 1 .. Len(ms) : ~IsSystem(ms[i])
  PROVE  Kept(ms) = ms /\ Hoisted(ms) = <<>>
<1>1. Kept(ms) = ms
  <2>1. PICK g \in [0 .. Len(ms) -> Seq(MessageType)] :
          /\ g[0] = <<>>
          /\ \A i \in 1 .. Len(ms) :
               g[i] = IF IsSystem(ms[i]) THEN g[i - 1] ELSE Append(g[i - 1], ms[i])
          /\ Kept(ms) = g[Len(ms)]
    BY KeptLoop
  <2> DEFINE T == {i \in 0 .. Len(ms) :
                     Len(g[i]) = i /\ \A j \in 1 .. i : g[i][j] = ms[j]}
  <2>2. 0 \in T /\ Len(ms) \in Nat
    BY <2>1
  <2>3. ASSUME NEW i \in 1 .. Len(ms), i - 1 \in T
        PROVE  i \in T
    <3> DEFINE old == g[i - 1]
    <3>1. old \in Seq(MessageType) /\ ms[i] \in MessageType /\ g[i] = Append(old, ms[i])
      <4>1. i - 1 \in 0 .. Len(ms) /\ ms[i] \in MessageType /\ ~IsSystem(ms[i])
        OBVIOUS
      <4>2. QED
        BY <2>1, <4>1
    <3>2. Len(old) = i - 1 /\ \A j \in 1 .. i - 1 : old[j] = ms[j]
      BY <2>3
    <3> HIDE DEF old
    <3>3. /\ Len(g[i]) = i /\ g[i][i] = ms[i]
          /\ \A j \in 1 .. i - 1 : g[i][j] = old[j]
      BY <3>1, <3>2, AppendProperties
    <3>4. \A j \in 1 .. i : j \in 1 .. i - 1 \/ j = i
      OBVIOUS
    <3>5. \A j \in 1 .. i : g[i][j] = ms[j]
      BY <3>2, <3>3, <3>4
    <3>6. QED
      BY <3>3, <3>5
  <2> HIDE DEF T
  <2>4. \A i \in 0 .. Len(ms) : i \in T
    BY <2>2, <2>3, Climb
  <2>5. Len(Kept(ms)) = Len(ms) /\ \A j \in 1 .. Len(ms) : Kept(ms)[j] = ms[j]
    BY <2>1, <2>2, <2>4 DEF T
  <2>6. QED
    BY <2>5, KeptTyped, SeqEqual
<1>2. Hoisted(ms) = <<>>
  <2>1. PICK g \in [0 .. Len(ms) -> Seq(BlockType)] :
          /\ g[0] = <<>>
          /\ \A i \in 1 .. Len(ms) :
               g[i] = IF IsSystem(ms[i]) THEN g[i - 1] \o ContentBlocks(ms[i].content)
                      ELSE g[i - 1]
          /\ Hoisted(ms) = g[Len(ms)]
    BY HoistedLoop
  <2> DEFINE T == {i \in 0 .. Len(ms) : g[i] = <<>>}
  <2>2. 0 \in T /\ Len(ms) \in Nat
    BY <2>1
  <2>3. ASSUME NEW i \in 1 .. Len(ms), i - 1 \in T
        PROVE  i \in T
    <3>1. ~IsSystem(ms[i]) /\ g[i - 1] = <<>>
      BY <2>3
    <3>2. g[i] = <<>>
      BY <2>1, <3>1
    <3>3. QED
      BY <3>2
  <2> HIDE DEF T
  <2>4. \A i \in 0 .. Len(ms) : i \in T
    BY <2>2, <2>3, Climb
  <2>5. QED
    BY <2>1, <2>2, <2>4 DEF T
<1>3. QED
  BY <1>1, <1>2

LEMMA KeptTwice ==
  ASSUME NEW ms \in Seq(MessageType)
  PROVE  Kept(Kept(ms)) = Kept(ms) /\ Hoisted(Kept(ms)) = <<>>
BY KeptTyped, KeptHasNoSystem, NothingToHoist

LEMMA KeptAppend ==
  ASSUME NEW ms \in Seq(MessageType), NEW x \in MessageType
  PROVE  Kept(Append(ms, x)) = IF IsSystem(x) THEN Kept(ms) ELSE Append(Kept(ms), x)
<1> DEFINE longer == Append(ms, x)
           n == Len(ms)
<1>1. /\ longer \in Seq(MessageType) /\ Len(longer) = n + 1 /\ n \in Nat
      /\ longer[n + 1] = x
      /\ \A i \in 1 .. n : longer[i] = ms[i]
  BY AppendProperties
<1>2. PICK g \in [0 .. Len(ms) -> Seq(MessageType)] :
        /\ g[0] = <<>>
        /\ \A i \in 1 .. Len(ms) :
             g[i] = IF IsSystem(ms[i]) THEN g[i - 1] ELSE Append(g[i - 1], ms[i])
        /\ Kept(ms) = g[Len(ms)]
  BY KeptLoop
<1> HIDE DEF longer
<1>3. PICK h \in [0 .. Len(longer) -> Seq(MessageType)] :
        /\ h[0] = <<>>
        /\ \A i \in 1 .. Len(longer) :
             h[i] = IF IsSystem(longer[i]) THEN h[i - 1] ELSE Append(h[i - 1], longer[i])
        /\ Kept(longer) = h[Len(longer)]
  BY <1>1, KeptLoop
<1> HIDE DEF n
<1> DEFINE T == {i \in 0 .. n : h[i] = g[i]}
<1>4. 0 \in T
  BY <1>1, <1>2, <1>3
<1>5. ASSUME NEW i \in 1 .. n, i - 1 \in T
      PROVE  i \in T
  <2>1. h[i - 1] = g[i - 1] /\ longer[i] = ms[i] /\ i \in 1 .. Len(longer)
    BY <1>1, <1>5
  <2>2. g[i] = IF IsSystem(ms[i]) THEN g[i - 1] ELSE Append(g[i - 1], ms[i])
    BY <1>2 DEF n
  <2>3. h[i] = IF IsSystem(longer[i]) THEN h[i - 1] ELSE Append(h[i - 1], longer[i])
    BY <1>3, <2>1
  <2>4. h[i] = g[i]
    BY <2>1, <2>2, <2>3
  <2>5. QED
    BY <2>4
<1> HIDE DEF T
<1>6. h[n] = g[n]
  <2>1. \A i \in 0 .. n : i \in T
    BY <1>1, <1>4, <1>5, Climb
  <2>2. QED
    BY <1>1, <2>1 DEF T
<1>7. h[n + 1] = IF IsSystem(x) THEN h[n] ELSE Append(h[n], x)
  <2>1. n + 1 \in 1 .. Len(longer) /\ (n + 1) - 1 = n
    BY <1>1
  <2>2. QED
    BY <1>1, <1>3, <2>1
<1>8. QED
  BY <1>1, <1>2, <1>3, <1>6, <1>7 DEF longer, n

-----------------------------------------------------------------------------
(* The steps of normalisation.                                              *)

LEMMA Rewritten ==
  ASSUME NEW b \in BodyType, NEW system \in Seq(BlockType)
  PROVE  /\ [b EXCEPT !.system = system] \in BodyType
         /\ \A messages \in Seq(MessageType) :
              [b EXCEPT !.system = system, !.messages = messages] \in BodyType
BY DEF BodyType

LEMMA StripIs ==
  ASSUME NEW b \in BodyType
  PROVE  LET s == StripPrefix(b)
         IN  /\ s \in BodyType
             /\ s.endpoint = b.endpoint /\ s.family = b.family /\ s.bare = b.bare
             /\ s.cacheKey = b.cacheKey /\ s.topP = b.topP
             /\ s.system = b.system /\ s.messages = b.messages
             /\ s.prefixed = IF b.prefixed = 0 THEN 0 ELSE b.prefixed - 1
BY DEF StripPrefix, BodyType

LEMMA WrapIs ==
  ASSUME NEW b \in BodyType
  PROVE  LET w == WrapInput(b)
         IN  /\ w \in BodyType /\ w.bare = FALSE
             /\ w.endpoint = b.endpoint /\ w.family = b.family
             /\ w.cacheKey = b.cacheKey /\ w.prefixed = b.prefixed
             /\ w.topP = b.topP /\ w.system = b.system
             /\ ~b.bare => w = b
             /\ Len(w.messages) = Len(b.messages)
<1> DEFINE messages == [i \in DOMAIN b.messages |-> Wrapped(b.messages[i])]
<1>1. b.messages \in Seq(MessageType)
  BY DEF BodyType
<1>2. ASSUME NEW i \in 1 .. Len(b.messages)
      PROVE  Wrapped(b.messages[i]) \in MessageType
  <2>1. b.messages[i] \in MessageType
    BY <1>1
  <2>2. b.messages[i].content \in Seq(BlockType)
    BY <2>1 DEF MessageType
  <2>3. ContentBlocks(b.messages[i].content) \in Seq(BlockType)
    BY <2>2, BlocksOfContent
  <2>4. QED
    BY <2>1, <2>3 DEF MessageType, Wrapped
<1>3. messages \in Seq(MessageType) /\ Len(messages) = Len(b.messages)
  <2>1. DOMAIN b.messages = 1 .. Len(b.messages) /\ Len(b.messages) \in Nat
    BY <1>1
  <2>2. QED
    BY <1>2, <2>1
<1>4. WrapInput(b) = IF ~b.bare THEN b ELSE [b EXCEPT !.bare = FALSE, !.messages = messages]
  BY DEF WrapInput
<1> HIDE DEF messages
<1>5. [b EXCEPT !.bare = FALSE, !.messages = messages] \in BodyType
  BY <1>3 DEF BodyType
<1>6. b.bare \in BOOLEAN
  BY DEF BodyType
<1>7. QED
  BY <1>3, <1>4, <1>5, <1>6 DEF BodyType

\* Wrapping does not look at the model name.
LEMMA WrapStripped ==
  ASSUME NEW b \in BodyType
  PROVE  WrapInput(StripPrefix(b)).messages = WrapInput(b).messages
<1>1. StripPrefix(b).bare = b.bare /\ StripPrefix(b).messages = b.messages
  BY StripIs
<1>2. StripPrefix(b) \in BodyType
  BY StripIs
<1> DEFINE s == StripPrefix(b)
           messages == [i \in DOMAIN b.messages |-> Wrapped(b.messages[i])]
<1>3. /\ WrapInput(b) = IF ~b.bare THEN b
                        ELSE [b EXCEPT !.bare = FALSE, !.messages = messages]
      /\ WrapInput(s) = IF ~b.bare THEN s
                        ELSE [s EXCEPT !.bare = FALSE, !.messages = messages]
  BY <1>1 DEF WrapInput
<1> HIDE DEF s, messages
<1>4. s \in BodyType /\ s.messages = b.messages
  BY <1>1, <1>2 DEF s
<1>5. WrapInput(s).messages = WrapInput(b).messages
  BY <1>3, <1>4 DEF BodyType
<1>6. QED
  BY <1>5 DEF s

LEMMA HoistIs ==
  ASSUME NEW b \in BodyType
  PROVE  LET h == HoistSystem(b)
         IN  /\ h \in BodyType
             /\ h.endpoint = b.endpoint /\ h.family = b.family /\ h.bare = b.bare
             /\ h.cacheKey = b.cacheKey /\ h.prefixed = b.prefixed
             /\ h.system = (IF Hoisted(b.messages) = <<>> THEN b.system
                            ELSE ContentBlocks(b.system) \o Hoisted(b.messages))
             /\ h.messages = IF Hoisted(b.messages) = <<>> THEN b.messages
                             ELSE Kept(b.messages)
<1>1. b.system \in Seq(BlockType) /\ b.messages \in Seq(MessageType)
  BY DEF BodyType
<1>2. /\ ContentBlocks(b.system) \o Hoisted(b.messages) \in Seq(BlockType)
      /\ Kept(b.messages) \in Seq(MessageType)
  BY <1>1, BlocksOfContent, KeptTyped, ConcatProperties
<1> DEFINE system == ContentBlocks(b.system) \o Hoisted(b.messages)
           messages == Kept(b.messages)
<1>3. HoistSystem(b) = IF Hoisted(b.messages) = <<>> THEN b
                       ELSE [b EXCEPT !.system = system, !.messages = messages]
  BY DEF HoistSystem
<1> HIDE DEF system, messages
<1>4. [b EXCEPT !.system = system, !.messages = messages] \in BodyType
  BY <1>2, Rewritten DEF system, messages
<1>5. QED
  BY <1>3, <1>4 DEF BodyType, system, messages

LEMMA HoistedOnce ==
  ASSUME NEW b \in BodyType
  PROVE  LET h == HoistSystem(b)
         IN  Hoisted(h.messages) = <<>> /\ Kept(h.messages) = Kept(b.messages)
<1>1. b.messages \in Seq(MessageType)
  BY DEF BodyType
<1>2. QED
  BY <1>1, HoistIs, KeptTwice

LEMMA TopPIs ==
  ASSUME NEW b \in BodyType
  PROVE  LET s == StripTopP(b)
         IN  /\ s \in BodyType /\ StripTopP(s) = s
             /\ s.endpoint = b.endpoint /\ s.family = b.family /\ s.bare = b.bare
             /\ s.cacheKey = b.cacheKey /\ s.prefixed = b.prefixed
             /\ s.system = b.system /\ s.messages = b.messages
BY DEF StripTopP, BodyType

\* What begins with the fingerprint holds it.
LEMMA HeadHolds ==
  ASSUME NEW system \in Seq(BlockType), system # <<>>,
         IsPrefix(Fingerprint, BlockText(system[1]))
  PROVE  HasFingerprint(system)
<1>1. Fingerprint \in Seq(Glyphs)
  BY NormalizeAssumption
<1>2. 1 \in DOMAIN system /\ system[1] \in BlockType
  BY EmptySeq
<1> DEFINE text == BlockText(system[1])
<1>3. text \in Seq(Glyphs)
  BY <1>2, TextTyped
<1>4. Len(Fingerprint) <= Len(text) /\ SubSeq(text, 1, Len(Fingerprint)) = Fingerprint
  BY <1>1, <1>3, SubSeqFull DEF IsPrefix
<1> HIDE DEF text
<1>5. Holds(text, Fingerprint)
  <2>1. /\ 0 \in 0 .. Len(text) - Len(Fingerprint)
        /\ SubSeq(text, 0 + 1, 0 + Len(Fingerprint)) = Fingerprint
    BY <1>1, <1>3, <1>4
  <2>2. QED
    BY <2>1 DEF Holds
<1>6. QED
  BY <1>2, <1>5 DEF HasFingerprint, text

LEMMA IsOwnPrefix ==
  ASSUME NEW S, NEW s \in Seq(S)
  PROVE  IsPrefix(s, s)
BY DEF IsPrefix

LEMMA OnlyFingerprint ==
  LET system == <<TextBlock(Fingerprint)>>
  IN  /\ system \in Seq(BlockType) /\ system # <<>>
      /\ HasFingerprint(system) /\ SystemLen(system) <= SystemByteLimit
<1> DEFINE system == <<TextBlock(Fingerprint)>>
<1>1. Fingerprint \in Seq(Glyphs) /\ Bytes(Fingerprint) <= SystemByteLimit
  BY NormalizeAssumption
<1>2. TextBlock(Fingerprint) \in BlockType /\ BlockText(TextBlock(Fingerprint)) = Fingerprint
  BY <1>1, TextBlockIs
<1>3. /\ system \in Seq(BlockType) /\ system # <<>> /\ system[1] = TextBlock(Fingerprint)
      /\ system = Append(<<>>, TextBlock(Fingerprint)) /\ <<>> \in Seq(BlockType)
  BY <1>2
<1> HIDE DEF system
<1>4. HasFingerprint(system)
  BY <1>1, <1>2, <1>3, HeadHolds, IsOwnPrefix
<1>5. SystemLen(system) = Bytes(Fingerprint)
  <2>1. SystemLen(system) = SystemLen(<<>>) + Bytes(BlockText(TextBlock(Fingerprint)))
    BY <1>2, <1>3, SystemLenIs
  <2>2. SystemLen(<<>>) = 0
    BY <1>3, SystemLenIs
  <2>3. Bytes(Fingerprint) \in Nat
    BY <1>1, BytesNat
  <2>4. QED
    BY <1>2, <2>1, <2>2, <2>3
<1>6. QED
  BY <1>1, <1>3, <1>4, <1>5 DEF system

\* The fingerprint is there, in front unless the client has it itself.
LEMMA InjectIs ==
  ASSUME NEW b \in BodyType
  PROVE  LET i == InjectFingerprint(b)
         IN  /\ i \in BodyType /\ HasFingerprint(i.system) /\ i.system # <<>>
             /\ i.endpoint = b.endpoint /\ i.family = b.family /\ i.bare = b.bare
             /\ i.cacheKey = b.cacheKey /\ i.prefixed = b.prefixed
             /\ i.topP = b.topP /\ i.messages = b.messages
             /\ i.system = (IF HasFingerprint(b.system) THEN b.system
                            ELSE <<TextBlock(Fingerprint)>> \o ContentBlocks(b.system))
             /\ HasFingerprint(b.system) => i = b
             /\ HasFingerprint(b.system)
                  \/ IsPrefix(Fingerprint, BlockText(ContentBlocks(i.system)[1]))
<1> DEFINE front == <<TextBlock(Fingerprint)>>
           system == front \o ContentBlocks(b.system)
<1>1. b.system \in Seq(BlockType)
  BY DEF BodyType
<1>2. CASE HasFingerprint(b.system)
  <2>1. InjectFingerprint(b) = b
    BY <1>2 DEF InjectFingerprint
  <2>2. b.system # <<>>
    BY <1>2 DEF HasFingerprint
  <2>3. QED
    BY <1>2, <2>1, <2>2
<1>3. CASE ~HasFingerprint(b.system)
  <2>1. InjectFingerprint(b) = [b EXCEPT !.system = system]
    BY <1>3 DEF InjectFingerprint
  <2>2. /\ Fingerprint \in Seq(Glyphs)
        /\ TextBlock(Fingerprint) \in BlockType
        /\ BlockText(TextBlock(Fingerprint)) = Fingerprint
    BY NormalizeAssumption, TextBlockIs
  <2>3. /\ front \in Seq(BlockType) /\ Len(front) = 1
        /\ front[1] = TextBlock(Fingerprint)
    BY <2>2
  <2>4. ContentBlocks(b.system) \in Seq(BlockType)
    BY <1>1, BlocksOfContent
  <2> HIDE DEF front
  <2>5. /\ system \in Seq(BlockType) /\ 1 \in 1 .. Len(system)
        /\ system[1] = TextBlock(Fingerprint)
    BY <2>3, <2>4, ConcatProperties
  <2> HIDE DEF system
  <2>6. system # <<>> /\ DOMAIN system = 1 .. Len(system)
    BY <2>5, EmptySeq
  <2>7. IsPrefix(Fingerprint, BlockText(system[1]))
    BY <2>2, <2>5, IsOwnPrefix
  <2>8. HasFingerprint(system)
    BY <2>5, <2>6, <2>7, HeadHolds
  <2>9. ContentBlocks(system)[1] = system[1]
    <3>1. system[1].kind = "text"
      BY <2>5 DEF TextBlock
    <3>2. QED
      BY <2>5, <2>6, <3>1 DEF ContentBlocks
  <2>10. [b EXCEPT !.system = system] \in BodyType
    BY <2>5, Rewritten
  <2>11. [b EXCEPT !.system = system].system = system
    BY DEF BodyType
  <2>12. QED
    BY <1>3, <2>1, <2>6, <2>7, <2>8, <2>9, <2>10, <2>11 DEF BodyType, system, front
<1>4. QED
  BY <1>2, <1>3

\* What the relay gets under the disguise m of a body that has the fingerprint.
LEMMA CloakIs ==
  ASSUME NEW b \in BodyType, HasFingerprint(b.system), NEW m \in Modes
  PROVE  LET c == Cloak(b, m)
         IN  /\ c \in BodyType
             /\ c.endpoint = b.endpoint /\ c.family = b.family /\ c.bare = b.bare
             /\ c.cacheKey = b.cacheKey /\ c.prefixed = b.prefixed
             /\ c.topP = b.topP /\ c.messages = b.messages
             /\ SystemLen(b.system) <= SystemByteLimit => c = b
             /\ SystemLen(c.system) <= SystemByteLimit
             /\ HasFingerprint(c.system)
                  \/ /\ m = "relaxed"
                     /\ ~IsPrefix(Fingerprint, BlockText(ContentBlocks(b.system)[1]))
<1>1. b.system \in Seq(BlockType) /\ SystemByteLimit \in Nat
  BY NormalizeAssumption DEF BodyType
<1>2. CASE SystemLen(b.system) <= SystemByteLimit
  <2>1. Cloak(b, m) = b
    BY <1>2 DEF Cloak
  <2>2. QED
    BY <1>2, <2>1
<1>3. CASE ~(SystemLen(b.system) <= SystemByteLimit) /\ m = "strict"
  <2> DEFINE system == <<TextBlock(Fingerprint)>>
  <2>1. Cloak(b, m) = [b EXCEPT !.system = system]
    BY <1>3 DEF Cloak
  <2>2. /\ system \in Seq(BlockType) /\ HasFingerprint(system)
        /\ SystemLen(system) <= SystemByteLimit
    BY OnlyFingerprint
  <2> HIDE DEF system
  <2>3. [b EXCEPT !.system = system] \in BodyType
    BY <2>2, Rewritten
  <2>4. QED
    BY <1>3, <2>1, <2>2, <2>3 DEF BodyType
<1>4. CASE ~(SystemLen(b.system) <= SystemByteLimit) /\ m # "strict"
  <2> DEFINE blocks == ContentBlocks(b.system)
             system == TruncateSystemBlocks(blocks, SystemByteLimit)
  <2>1. Cloak(b, m) = [b EXCEPT !.system = system] /\ m = "relaxed"
    BY <1>4 DEF Cloak, Modes
  <2>2. blocks \in Seq(BlockType) /\ blocks # <<>>
    <3>1. Len(blocks) = Len(b.system) /\ blocks \in Seq(BlockType)
      BY <1>1, BlocksOfContent
    <3>2. Len(b.system) # 0
      BY <1>1, EmptySeq DEF HasFingerprint
    <3> HIDE DEF blocks
    <3>3. QED
      BY <3>1, <3>2, EmptySeq
  <2> HIDE DEF blocks
  <2>3. system \in Seq(BlockType) /\ SystemLen(system) <= SystemByteLimit
    BY <1>1, <2>2, TruncateFits
  <2>4. ASSUME IsPrefix(Fingerprint, BlockText(blocks[1]))
        PROVE  HasFingerprint(system)
    <3>1. /\ Fingerprint \in Seq(Glyphs) /\ Fingerprint # <<>>
          /\ Bytes(Fingerprint) <= SystemByteLimit
      BY NormalizeAssumption
    <3>2. system # <<>> /\ IsPrefix(Fingerprint, BlockText(system[1]))
      BY <1>1, <2>2, <2>4, <3>1, TruncateKeepsHead
    <3> HIDE DEF system
    <3>3. QED
      BY <2>3, <3>2, HeadHolds
  <2> HIDE DEF system
  <2>5. [b EXCEPT !.system = system] \in BodyType
    BY <2>3, Rewritten
  <2>6. HasFingerprint(system) \/ ~IsPrefix(Fingerprint, BlockText(blocks[1]))
    BY <2>4
  <2>7. QED
    BY <1>4, <2>1, <2>3, <2>5, <2>6 DEF BodyType, blocks
<1>5. QED
  BY <1>2, <1>3, <1>4

-----------------------------------------------------------------------------
(* What is sent.                                                            *)

\* A body as it leaves the gateway, for what came in and the disguise.
LEMMA NormalizedIs ==
  ASSUME NEW b \in BodyType, NEW m \in Modes
  PROVE  LET n == Normalized(b, m)
         IN  /\ n \in BodyType
             /\ n.endpoint = b.endpoint /\ n.family = b.family
             /\ n.cacheKey = b.cacheKey /\ n.prefixed = StripPrefix(b).prefixed
             /\ Family(n) = Family(StripPrefix(b))
             /\ n.endpoint = "responses" => n.bare = FALSE
             /\ n.endpoint = "messages" => n.topP = FALSE
             /\ b.endpoint = "messages" => n.messages = HoistSystem(b).messages
             /\ b.endpoint = "responses" => n.messages = WrapInput(b).messages
             /\ b.endpoint = "chat" => n.messages = b.messages
             /\ b.endpoint # "messages" => n.system = b.system
<1> DEFINE s == StripPrefix(b)
           n == Normalized(b, m)
<1>1. /\ s \in BodyType /\ s.endpoint = b.endpoint /\ s.family = b.family
      /\ s.cacheKey = b.cacheKey /\ s.messages = b.messages /\ s.system = b.system
  BY StripIs
<1>2. b.endpoint \in {"messages", "responses", "chat"}
  BY DEF BodyType, Endpoints
<1>3. /\ b.endpoint = "messages" => n = NormalizeMessages(s, m)
      /\ b.endpoint = "responses" => n = WrapInput(s)
      /\ b.endpoint = "chat" => n = s
  BY <1>2 DEF Normalized
<1> HIDE DEF n, s
<1>4. CASE b.endpoint = "messages"
  <2> DEFINE h == HoistSystem(s)
             t == StripTopP(h)
             i == InjectFingerprint(t)
  <2>1. /\ h \in BodyType /\ h.endpoint = b.endpoint /\ h.family = b.family
        /\ h.cacheKey = b.cacheKey /\ h.prefixed = s.prefixed
        /\ h.messages = HoistSystem(b).messages
    BY <1>1, HoistIs
  <2>2. n = IF Family(t) # "claude" THEN t ELSE Cloak(i, m)
    BY <1>3, <1>4 DEF NormalizeMessages
  <2> HIDE DEF h
  <2>3. /\ t \in BodyType /\ t.endpoint = b.endpoint /\ t.family = b.family
        /\ t.cacheKey = b.cacheKey /\ t.prefixed = s.prefixed
        /\ t.messages = HoistSystem(b).messages
    BY <2>1, TopPIs
  <2>4. t.topP = FALSE
    BY <2>1 DEF StripTopP, BodyType
  <2> HIDE DEF t
  <2>5. /\ i \in BodyType /\ HasFingerprint(i.system)
        /\ i.endpoint = b.endpoint /\ i.family = b.family
        /\ i.cacheKey = b.cacheKey /\ i.prefixed = s.prefixed
        /\ i.messages = HoistSystem(b).messages /\ i.topP = FALSE
    BY <2>3, <2>4, InjectIs
  <2> HIDE DEF i
  <2>6. LET c == Cloak(i, m)
        IN  /\ c \in BodyType /\ c.endpoint = b.endpoint /\ c.family = b.family
            /\ c.cacheKey = b.cacheKey /\ c.prefixed = s.prefixed
            /\ c.messages = HoistSystem(b).messages /\ c.topP = FALSE
    BY <2>5, CloakIs
  <2>7. /\ n \in BodyType /\ n.endpoint = b.endpoint /\ n.family = b.family
        /\ n.cacheKey = b.cacheKey /\ n.prefixed = s.prefixed
        /\ n.messages = HoistSystem(b).messages /\ n.topP = FALSE
    BY <2>2, <2>3, <2>4, <2>6
  <2>8. QED
    BY <1>1, <1>4, <2>7 DEF s, n, Family
<1>5. CASE b.endpoint = "responses"
  <2>1. n = WrapInput(s)
    BY <1>3, <1>5
  <2>2. /\ n \in BodyType /\ n.endpoint = s.endpoint /\ n.family = s.family
        /\ n.cacheKey = s.cacheKey /\ n.prefixed = s.prefixed /\ n.bare = FALSE
        /\ n.system = s.system
    BY <1>1, <2>1, WrapIs
  <2>3. n.messages = WrapInput(b).messages
    BY <2>1, WrapStripped DEF s
  <2>4. QED
    BY <1>1, <1>5, <2>2, <2>3 DEF s, n, Family
<1>6. CASE b.endpoint = "chat"
  <2>1. n = s
    BY <1>3, <1>6
  <2>2. QED
    BY <1>1, <1>6, <2>1 DEF s, n, Family
<1>7. QED
  BY <1>2, <1>4, <1>5, <1>6

\* Claude bodies leave with the fingerprint, and within the limit.
LEMMA ClaudeIs ==
  ASSUME NEW b \in BodyType, NEW m \in Modes, Routed(StripPrefix(b)),
         Family(Normalized(b, m)) = "claude"
  PROVE  LET n == Normalized(b, m)
             own == HoistSystem(b).system
         IN  /\ n.endpoint = "messages"
             /\ SystemLen(n.system) <= SystemByteLimit
             /\ HasFingerprint(n.system)
                \/ /\ m = "relaxed" /\ HasFingerprint(own)
                   /\ ~IsPrefix(Fingerprint, BlockText(ContentBlocks(own)[1]))
<1> DEFINE s == StripPrefix(b)
           h == HoistSystem(s)
           t == StripTopP(h)
           i == InjectFingerprint(t)
           own == HoistSystem(b).system
<1>1. /\ s \in BodyType /\ s.endpoint = b.endpoint
      /\ s.messages = b.messages /\ s.system = b.system
  BY StripIs
<1>2. Family(s) = "claude"
  BY NormalizedIs
<1>3. b.endpoint = "messages"
  BY <1>1, <1>2 DEF Routed
<1>4. Normalized(b, m) = NormalizeMessages(s, m)
  BY <1>3 DEF Normalized
<1> HIDE DEF s
<1>5. h \in BodyType /\ h.system = own /\ h.family = s.family /\ h.prefixed = s.prefixed
  BY <1>1, HoistIs
<1>6. NormalizeMessages(s, m) = IF Family(t) # "claude" THEN t ELSE Cloak(i, m)
  BY DEF NormalizeMessages
<1> HIDE DEF h
<1>7. t \in BodyType /\ t.system = own /\ t.family = s.family /\ t.prefixed = s.prefixed
  BY <1>5, TopPIs
<1> HIDE DEF t
<1>8. Family(t) = "claude"
  BY <1>2, <1>7 DEF Family
<1>9. /\ i \in BodyType /\ HasFingerprint(i.system)
      /\ HasFingerprint(own) => i = t
      /\ HasFingerprint(own) \/ IsPrefix(Fingerprint, BlockText(ContentBlocks(i.system)[1]))
  BY <1>7, InjectIs
<1> HIDE DEF i
<1>10. LET c == Cloak(i, m)
       IN  /\ SystemLen(c.system) <= SystemByteLimit
           /\ HasFingerprint(c.system)
              \/ /\ m = "relaxed"
                 /\ ~IsPrefix(Fingerprint, BlockText(ContentBlocks(i.system)[1]))
  BY <1>9, CloakIs
<1>11. Normalized(b, m) = Cloak(i, m)
  BY <1>4, <1>6, <1>8
<1>12. Normalized(b, m).endpoint = "messages"
  BY <1>3, NormalizedIs
<1>13. QED
  BY <1>7, <1>9, <1>10, <1>11, <1>12

\* A normalised body that has its fingerprint is left alone.
LEMMA NormalizedOnce ==
  ASSUME NEW b \in BodyType, NEW m \in Modes, Routed(StripPrefix(b)), NEW k \in Modes,
         Normalized(b, m).prefixed = 0,
         Family(Normalized(b, m)) = "claude" => HasFingerprint(Normalized(b, m).system)
  PROVE  Normalized(Normalized(b, m), k) = Normalized(b, m)
<1> DEFINE n == Normalized(b, m)
<1>1. /\ n \in BodyType /\ n.prefixed = 0
      /\ n.endpoint = b.endpoint
      /\ n.endpoint = "responses" => n.bare = FALSE
      /\ n.endpoint = "messages" => n.topP = FALSE
      /\ n.endpoint = "messages" => n.messages = HoistSystem(b).messages
  <2>1. /\ n \in BodyType /\ n.prefixed = 0 /\ n.endpoint = b.endpoint
        /\ n.endpoint = "responses" => n.bare = FALSE
        /\ n.endpoint = "messages" => n.topP = FALSE
        /\ b.endpoint = "messages" => n.messages = HoistSystem(b).messages
    BY NormalizedIs
  <2> HIDE DEF n
  <2>2. QED
    BY <2>1
<1>2. Family(n) = "claude" => HasFingerprint(n.system) /\ SystemLen(n.system) <= SystemByteLimit
  BY ClaudeIs
<1>3. n.endpoint = "messages" => Hoisted(n.messages) = <<>>
  BY <1>1, HoistedOnce
<1> HIDE DEF n
<1>4. StripPrefix(n) = n
  BY <1>1 DEF StripPrefix
<1>5. CASE n.endpoint = "messages"
  <2>1. HoistSystem(n) = n
    BY <1>3, <1>5 DEF HoistSystem
  <2>2. StripTopP(n) = n
    BY <1>1, <1>5 DEF StripTopP, BodyType
  <2>3. Family(n) = "claude" => Cloak(InjectFingerprint(n), k) = n
    BY <1>2 DEF InjectFingerprint, Cloak
  <2>4. NormalizeMessages(n, k) = n
    BY <2>1, <2>2, <2>3 DEF NormalizeMessages
  <2>5. QED
    BY <1>4, <1>5, <2>4 DEF Normalized, n
<1>6. CASE n.endpoint = "responses"
  <2>1. WrapInput(n) = n
    BY <1>1, <1>6 DEF WrapInput, BodyType
  <2>2. QED
    BY <1>4, <1>6, <2>1 DEF Normalized, n
<1>7. CASE n.endpoint = "chat"
  BY <1>4, <1>7 DEF Normalized, n
<1>8. QED
  BY <1>1, <1>5, <1>6, <1>7 DEF BodyType, Endpoints

-----------------------------------------------------------------------------
(* What the affinity hash takes in.                                         *)

LEMMA ListLoop ==
  ASSUME NEW S, Marks \subseteq S, NEW items \in Seq(Seq(S))
  PROVE  \E g \in [0 .. Len(items) -> Seq(S)] :
           /\ g[0] = <<"open">>
           /\ \A i \in 1 .. Len(items) :
                g[i] = g[i - 1] \o (IF i = 1 THEN <<>> ELSE <<"comma">>) \o items[i]
           /\ List(items) = Append(g[Len(items)], "close")
<1> DEFINE n == Len(items)
           V == Seq(S)
           Step(i, v) ==
             v \o (IF i = 1 THEN <<>> ELSE <<"comma">>) \o items[i]
           G == [x \in (1 .. n) \X V |-> Step(x[1], x[2])]
           Run(g) == g = [i \in 0 .. n |-> IF i = 0 THEN <<"open">> ELSE Step(i, g[i - 1])]
<1>1. n \in Nat /\ <<"open">> \in V
  BY DEF Marks
<1>2. \A i \in 1 .. n, v \in V : Step(i, v) \in V
  <2>1. <<"comma">> \in Seq(S)
    BY DEF Marks
  <2>2. \A i \in 1 .. n : items[i] \in Seq(S)
    OBVIOUS
  <2>3. QED
    BY <2>1, <2>2
<1> DEFINE t == CHOOSE g : Run(g)
<1>3. List(items) = Append(t[n], "close")
  BY DEF List
<1> HIDE DEF n, V, Step, t
<1>4. PICK g \in [0 .. n -> V] : g[0] = <<"open">> /\ \A i \in 1 .. n : g[i] = Step(i, g[i - 1])
  <2>1. G \in [(1 .. n) \X V -> V] /\ \A i \in 1 .. n, v \in V : G[<<i, v>>] = Step(i, v)
    BY <1>2
  <2> HIDE DEF G
  <2>2. PICK g \in [0 .. n -> V] : Iterates(g, n, <<"open">>, G)
    BY <1>1, <2>1, Iteration
  <2>3. \A i \in 1 .. n : g[i - 1] \in V /\ g[i] = G[<<i, g[i - 1]>>]
    BY <1>1, <2>2 DEF Iterates
  <2>4. QED
    BY <2>1, <2>2, <2>3 DEF Iterates
<1>5. Run(g)
  BY <1>1, <1>4
<1>6. Run(t)
  BY <1>5 DEF t
<1> DEFINE T == {i \in 0 .. n : t[i] = g[i]}
<1>7. 0 \in T
  BY <1>1, <1>4, <1>6
<1>8. ASSUME NEW i \in 1 .. n, i - 1 \in T
      PROVE  i \in T
  BY <1>1, <1>4, <1>6, <1>8
<1> HIDE DEF T
<1>9. \A i \in 0 .. n : i \in T
  BY <1>1, <1>7, <1>8, Climb
<1>10. t[n] = g[n]
  BY <1>1, <1>9 DEF T
<1>11. QED
  BY <1>3, <1>4, <1>10 DEF n, V, Step

\* Another member leaves a list as it is, up to the closing bracket.
LEMMA ListGrows ==
  ASSUME NEW S, Marks \subseteq S, NEW items \in Seq(Seq(S)), NEW x \in Seq(S)
  PROVE  LET longer == List(Append(items, x))
         IN  \E head \in Seq(S) :
               /\ List(items) = Append(head, "close")
               /\ longer \in Seq(S) /\ Len(head) <= Len(longer)
               /\ \A i \in 1 .. Len(head) : longer[i] = head[i]
<1> DEFINE more == Append(items, x)
           n == Len(items)
<1>1. /\ more \in Seq(Seq(S)) /\ Len(more) = n + 1 /\ n \in Nat
      /\ more[n + 1] = x
      /\ \A i \in 1 .. n : more[i] = items[i]
  BY AppendProperties
<1>2. PICK g \in [0 .. Len(items) -> Seq(S)] :
        /\ g[0] = <<"open">>
        /\ \A i \in 1 .. Len(items) :
             g[i] = g[i - 1] \o (IF i = 1 THEN <<>> ELSE <<"comma">>) \o items[i]
        /\ List(items) = Append(g[Len(items)], "close")
  BY ListLoop
<1> HIDE DEF more
<1>3. PICK h \in [0 .. Len(more) -> Seq(S)] :
        /\ h[0] = <<"open">>
        /\ \A i \in 1 .. Len(more) :
             h[i] = h[i - 1] \o (IF i = 1 THEN <<>> ELSE <<"comma">>) \o more[i]
        /\ List(more) = Append(h[Len(more)], "close")
  BY <1>1, ListLoop
<1> HIDE DEF n
<1> DEFINE T == {i \in 0 .. n : h[i] = g[i]}
<1>4. 0 \in T
  <2>1. h[0] = g[0]
    BY <1>2, <1>3
  <2>2. 0 \in 0 .. n
    BY <1>1
  <2>3. QED
    BY <2>1, <2>2
<1>5. ASSUME NEW i \in 1 .. n, i - 1 \in T
      PROVE  i \in T
  <2>1. h[i - 1] = g[i - 1] /\ more[i] = items[i] /\ i \in 1 .. Len(more)
    <3>1. h[i - 1] = g[i - 1]
      BY <1>5
    <3>2. more[i] = items[i] /\ i \in 1 .. Len(more)
      BY <1>1
    <3>3. QED
      BY <3>1, <3>2
  <2>2. g[i] = g[i - 1] \o (IF i = 1 THEN <<>> ELSE <<"comma">>) \o items[i]
    BY <1>2 DEF n
  <2>3. h[i] = h[i - 1] \o (IF i = 1 THEN <<>> ELSE <<"comma">>) \o more[i]
    BY <1>3, <2>1
  <2>4. h[i] = g[i]
    BY <2>1, <2>2, <2>3
  <2>5. QED
    BY <2>4
<1>6. \A i \in 0 .. n : i \in T
  <2> HIDE DEF T
  <2>1. QED
    BY <1>1, <1>4, <1>5, Climb
<1>7. h[n] = g[n] /\ g[n] \in Seq(S)
  BY <1>1, <1>6 DEF n
<1> DEFINE comma == IF n + 1 = 1 THEN <<>> ELSE <<"comma">>
<1>8. comma \in Seq(S) /\ "close" \in S
  BY DEF Marks
<1>9. h[n + 1] = (h[n] \o comma) \o x
  <2>1. n + 1 \in 1 .. Len(more) /\ (n + 1) - 1 = n
    BY <1>1
  <2>2. QED
    BY <1>1, <1>3, <2>1
<1> HIDE DEF comma, T
<1> DEFINE head == g[n]
<1>10. head \in Seq(S) /\ h[n + 1] = (head \o comma) \o x
  BY <1>7, <1>9
<1> HIDE DEF head
<1>11. /\ head \o comma \in Seq(S) /\ Len(head) <= Len(head \o comma)
       /\ \A i \in 1 .. Len(head) : (head \o comma)[i] = head[i]
  BY <1>8, <1>10, ConcatProperties
<1> DEFINE part == head \o comma
<1>12. /\ part \in Seq(S) /\ Len(head) <= Len(part)
       /\ \A i \in 1 .. Len(head) : part[i] = head[i]
       /\ h[n + 1] = part \o x
  BY <1>10, <1>11
<1> HIDE DEF part
<1>13. /\ part \o x \in Seq(S) /\ Len(part) <= Len(part \o x)
       /\ \A i \in 1 .. Len(part) : (part \o x)[i] = part[i]
  BY <1>12, ConcatProperties
<1> DEFINE whole == part \o x
<1>14. /\ whole \in Seq(S) /\ Len(head) <= Len(whole)
       /\ \A i \in 1 .. Len(head) : whole[i] = head[i]
       /\ List(more) = Append(whole, "close")
  <2>1. Len(head) \in Nat /\ Len(part) \in Nat /\ Len(part \o x) \in Nat
    BY <1>10, <1>12, <1>13
  <2>2. \A i \in 1 .. Len(head) : i \in 1 .. Len(part)
    BY <1>12, <2>1
  <2>3. QED
    BY <1>1, <1>3, <1>12, <1>13, <2>1, <2>2
<1> HIDE DEF whole
<1>15. /\ Append(whole, "close") \in Seq(S) /\ Len(head) <= Len(Append(whole, "close"))
       /\ \A i \in 1 .. Len(head) : Append(whole, "close")[i] = head[i]
  BY <1>8, <1>10, <1>14, AppendProperties
<1>16. List(items) = Append(head, "close")
  BY <1>2 DEF head, n
<1>17. QED
  BY <1>10, <1>14, <1>15, <1>16 DEF more

\* Two texts that agree up to where the first HeadBytes end are hashed alike.
LEMMA OpeningSettled ==
  ASSUME NEW S, NEW head \in Seq(S), "close" \in S,
         Bytes(Append(head, "close")) > HeadBytes,
         NEW longer \in Seq(S), Len(head) <= Len(longer),
         \A i \in 1 .. Len(head) : longer[i] = head[i]
  PROVE  Opening(longer) = Opening(Append(head, "close"))
<1> DEFINE text == Append(head, "close")
           n == Len(head)
           v == Widths(text)
           w == Widths(longer)
<1>1. /\ text \in Seq(S) /\ Len(text) = n + 1 /\ n \in Nat /\ text[n + 1] = "close"
      /\ \A i \in 1 .. n : text[i] = head[i]
  BY AppendProperties
<1> HIDE DEF text
<1>2. /\ \A i \in 1 .. n + 1 : v[i] \in Nat
      /\ \A i \in 1 .. Len(longer) : w[i] \in Nat /\ w[i] > 0
      /\ Len(longer) \in Nat
  BY <1>1, WidthsTyped
<1>3. v[n + 1] = 1
  <2>1. "close" \notin Glyphs /\ n + 1 \in DOMAIN text
    BY <1>1, NormalizeAssumption DEF Marks
  <2>2. QED
    BY <1>1, <2>1 DEF Widths
<1>4. \A i \in 1 .. n : v[i] = w[i]
  <2>1. \A i \in 1 .. n : i \in DOMAIN text /\ i \in DOMAIN longer /\ text[i] = longer[i]
    BY <1>1
  <2>2. QED
    BY <2>1 DEF Widths
<1>5. Total(v, n + 1) > HeadBytes
  BY <1>1 DEF Bytes, text
<1> HIDE DEF v, w, n
<1>6. ASSUME NEW j \in 0 .. n
      PROVE  Total(v, j) = Total(w, j)
  <2>1. \A i \in 1 .. j : v[i] \in Nat /\ v[i] = w[i]
    BY <1>1, <1>2, <1>4
  <2>2. j \in Nat
    BY <1>1
  <2>3. QED
    BY <2>1, <2>2, TotalSame
<1>7. HeadBytes \in Nat
  BY NormalizeAssumption
<1>8. Total(v, n) \in Nat /\ Total(v, n) >= HeadBytes
  <2>1. Total(v, n + 1) = Total(v, n) + v[n + 1]
    <3>1. n + 1 \in Nat /\ n + 1 > 0 /\ (n + 1) - 1 = n
      BY <1>1
    <3>2. QED
      BY <1>2, <3>1, TotalIs
  <2>2. Total(v, n) \in Nat
    BY <1>1, <1>2, TotalIs
  <2>3. QED
    BY <1>3, <1>5, <1>7, <2>1, <2>2
<1>9. PICK k \in 0 .. Len(text) :
        /\ Cut(text, HeadBytes) = SubSeq(text, 1, k)
        /\ Total(v, k) <= HeadBytes
        /\ \A j \in 0 .. Len(text) : Total(v, j) <= HeadBytes => j <= k
  BY <1>1, <1>7, CutIs DEF v
<1>10. PICK l \in 0 .. Len(longer) :
        /\ Cut(longer, HeadBytes) = SubSeq(longer, 1, l)
        /\ Total(w, l) <= HeadBytes
        /\ \A j \in 0 .. Len(longer) : Total(w, j) <= HeadBytes => j <= l
  BY <1>7, CutIs DEF w
<1>11. k \in 0 .. n
  <2>1. k # n + 1
    BY <1>5, <1>9, <1>7, <1>1, <1>2, TotalIs
  <2>2. QED
    BY <1>1, <2>1
<1>12. l \in 0 .. n
  <2>1. SUFFICES ASSUME l > n
                 PROVE  FALSE
    BY <1>1, <1>2
  <2>2. n + 1 \in 0 .. l /\ l \in Nat /\ n + 1 \in 1 .. Len(longer)
    BY <1>1, <1>2, <2>1
  <2>3. \A i \in 1 .. l : w[i] \in Nat
    BY <1>2, <2>2
  <2>4. Total(w, n + 1) <= Total(w, l) /\ Total(w, n + 1) \in Nat
    BY <2>2, <2>3, TotalGrows
  <2>5. Total(w, n + 1) = Total(w, n) + w[n + 1]
    <3>1. n + 1 \in Nat /\ n + 1 > 0 /\ (n + 1) - 1 = n
      BY <1>1
    <3>2. \A i \in 1 .. n + 1 : w[i] \in Nat
      BY <1>1, <1>2, <2>2
    <3>3. QED
      BY <3>1, <3>2, TotalIs
  <2>6. Total(w, n) = Total(v, n)
    BY <1>1, <1>6
  <2>7. Total(w, l) \in Nat
    BY <2>2, <2>3, TotalIs
  <2>8. w[n + 1] \in Nat /\ w[n + 1] > 0
    BY <1>2, <2>2
  <2>9. QED
    BY <1>7, <1>8, <1>10, <2>4, <2>5, <2>6, <2>7, <2>8
<1>13. k = l
  <2>1. k \in 0 .. Len(longer) /\ l \in 0 .. Len(text)
    BY <1>1, <1>11, <1>12 DEF n
  <2>2. Total(v, k) = Total(w, k) /\ Total(v, l) = Total(w, l)
    BY <1>6, <1>11, <1>12
  <2>3. k <= l /\ l <= k
    BY <1>9, <1>10, <2>1, <2>2
  <2>4. QED
    BY <2>3
<1>14. SubSeq(text, 1, k) = SubSeq(longer, 1, k)
  <2>1. \A i \in 1 .. k : text[i] = longer[i]
    BY <1>1, <1>11 DEF n
  <2>2. QED
    BY <1>1, <1>11, <1>13, <2>1
<1>15. QED
  BY <1>9, <1>10, <1>13, <1>14 DEF Opening, text

\* The hash of a conversation with a message more.
LEMMA ConversationSettled ==
  ASSUME NEW ms \in Seq(MessageType), NEW x \in MessageType,
         Bytes(MessagesJson(ms)) > HeadBytes
  PROVE  Opening(MessagesJson(Append(ms, x))) = Opening(MessagesJson(ms))
<1> DEFINE S == Glyphs \cup Marks \cup STRING \cup {"text", "bare", "other"}
           json(t) == [i \in DOMAIN t |-> MessageJson(t[i])]
<1>1. Marks \subseteq S /\ "close" \in S
  BY DEF Marks
<1>2. ASSUME NEW message \in MessageType
      PROVE  MessageJson(message) \in Seq(S)
  <2> DEFINE content == message.content
             texts == [i \in DOMAIN content |-> <<content[i].kind>> \o content[i].text]
  <2>1. content \in Seq(BlockType) /\ message.role \in STRING
    BY DEF MessageType
  <2>2. texts \in Seq(Seq(S))
    <3> HIDE DEF content
    <3>1. \A i \in 1 .. Len(content) : content[i] \in BlockType
      BY <2>1
    <3>2. \A i \in 1 .. Len(content) : content[i].text \in Seq(Glyphs)
      BY <3>1 DEF BlockType
    <3>3. \A t \in Seq(Glyphs) : t \in Seq(S)
      OBVIOUS
    <3>4. \A i \in 1 .. Len(content) : content[i].kind \in S
      BY <3>1 DEF BlockType
    <3> HIDE DEF S
    <3>5. \A k \in S, t \in Seq(S) : <<k>> \o t \in Seq(S)
      OBVIOUS
    <3>6. \A i \in 1 .. Len(content) : <<content[i].kind>> \o content[i].text \in Seq(S)
      BY <3>2, <3>3, <3>4, <3>5
    <3>7. DOMAIN content = 1 .. Len(content) /\ Len(content) \in Nat
      BY <2>1
    <3>8. QED
      BY <3>6, <3>7
  <2>3. MessageJson(message) = List(texts) \o <<message.role>>
    BY DEF MessageJson, TextsOf
  <2>4. message.role \in S
    BY <2>1
  <2> HIDE DEF S, texts
  <2>5. List(texts) \in Seq(S)
    <3>1. <<>> \in Seq(S)
      OBVIOUS
    <3>2. PICK head \in Seq(S) : List(texts) = Append(head, "close")
      BY <1>1, <2>2, <3>1, ListGrows
    <3>3. QED
      BY <1>1, <3>2
  <2>6. QED
    BY <2>3, <2>4, <2>5
<1> HIDE DEF S
<1>3. ASSUME NEW t \in Seq(MessageType)
      PROVE  /\ json(t) \in Seq(Seq(S)) /\ Len(json(t)) = Len(t)
             /\ \A i \in 1 .. Len(t) : json(t)[i] = MessageJson(t[i])
  <2>1. \A i \in 1 .. Len(t) : MessageJson(t[i]) \in Seq(S)
    BY <1>2
  <2>2. DOMAIN t = 1 .. Len(t) /\ Len(t) \in Nat
    OBVIOUS
  <2>3. QED
    BY <2>1, <2>2
<1>4. \A t : MessagesJson(t) = List(json(t))
  BY DEF MessagesJson
<1> DEFINE more == Append(ms, x)
<1>5. /\ more \in Seq(MessageType) /\ Len(more) = Len(ms) + 1 /\ Len(ms) \in Nat
      /\ more[Len(ms) + 1] = x
      /\ \A i \in 1 .. Len(ms) : more[i] = ms[i]
  BY AppendProperties
<1> HIDE DEF json, more
<1>6. MessageJson(x) \in Seq(S)
  BY <1>2
<1>7. json(more) = Append(json(ms), MessageJson(x))
  <2> DEFINE s == json(more)
             t == Append(json(ms), MessageJson(x))
  <2>1. /\ json(ms) \in Seq(Seq(S)) /\ Len(json(ms)) = Len(ms)
        /\ \A i \in 1 .. Len(ms) : json(ms)[i] = MessageJson(ms[i])
    BY <1>3
  <2>2. /\ s \in Seq(Seq(S)) /\ Len(s) = Len(ms) + 1
        /\ \A i \in 1 .. Len(ms) + 1 : s[i] = MessageJson(more[i])
    BY <1>3, <1>5
  <2>3. /\ t \in Seq(Seq(S)) /\ Len(t) = Len(ms) + 1
        /\ t[Len(ms) + 1] = MessageJson(x)
        /\ \A i \in 1 .. Len(ms) : t[i] = json(ms)[i]
    BY <1>6, <2>1, AppendProperties
  <2> HIDE DEF s, t
  <2>4. ASSUME NEW i \in 1 .. Len(ms) + 1
        PROVE  s[i] = t[i]
    <3>1. CASE i = Len(ms) + 1
      BY <1>5, <2>2, <2>3, <3>1
    <3>2. CASE i # Len(ms) + 1
      <4>1. i \in 1 .. Len(ms)
        BY <1>5, <3>2
      <4>2. QED
        BY <1>5, <2>1, <2>2, <2>3, <4>1
    <3>3. QED
      BY <3>1, <3>2
  <2>5. s = t
    BY <2>2, <2>3, <2>4, SeqEqual
  <2>6. QED
    BY <2>5 DEF s, t
<1>8. PICK head \in Seq(S) :
        LET longer == List(Append(json(ms), MessageJson(x)))
        IN  /\ List(json(ms)) = Append(head, "close")
            /\ longer \in Seq(S) /\ Len(head) <= Len(longer)
            /\ \A i \in 1 .. Len(head) : longer[i] = head[i]
  BY <1>1, <1>3, <1>6, ListGrows
<1>9. /\ MessagesJson(ms) = Append(head, "close")
      /\ MessagesJson(more) \in Seq(S) /\ Len(head) <= Len(MessagesJson(more))
      /\ \A i \in 1 .. Len(head) : MessagesJson(more)[i] = head[i]
  BY <1>4, <1>7, <1>8
<1>10. Opening(MessagesJson(more)) = Opening(MessagesJson(ms))
  BY <1>1, <1>9, OpeningSettled
<1>11. QED
  BY <1>10 DEF more

\* What becomes of the system of a claude body.
Fronted(system) ==
  IF HasFingerprint(system) THEN system
  ELSE <<TextBlock(Fingerprint)>> \o ContentBlocks(system)

Cloaked(system, m) ==
  IF SystemLen(system) <= SystemByteLimit THEN system
  ELSE IF m = "strict" THEN <<TextBlock(Fingerprint)>>
  ELSE TruncateSystemBlocks(ContentBlocks(system), SystemByteLimit)

LEMMA SystemIs ==
  ASSUME NEW b \in BodyType, NEW m \in Modes, b.endpoint = "messages"
  PROVE  /\ InjectFingerprint(HoistSystem(b)).system = Fronted(HoistSystem(b).system)
         /\ Normalized(b, m).system =
              IF Family(StripPrefix(b)) = "claude"
              THEN Cloaked(Fronted(HoistSystem(b).system), m) ELSE HoistSystem(b).system
<1> DEFINE s == StripPrefix(b)
           h == HoistSystem(s)
           t == StripTopP(h)
           i == InjectFingerprint(t)
           own == HoistSystem(b).system
<1>1. s \in BodyType /\ s.messages = b.messages /\ s.system = b.system
  BY StripIs
<1>2. Normalized(b, m) = NormalizeMessages(s, m)
  BY DEF Normalized
<1> HIDE DEF s
<1>3. h \in BodyType /\ h.system = own /\ h.family = s.family /\ h.prefixed = s.prefixed
  BY <1>1, HoistIs
<1>4. NormalizeMessages(s, m) = IF Family(t) # "claude" THEN t ELSE Cloak(i, m)
  BY DEF NormalizeMessages
<1> HIDE DEF h
<1>5. t \in BodyType /\ t.system = own /\ t.family = s.family /\ t.prefixed = s.prefixed
  BY <1>3, TopPIs
<1> HIDE DEF t
<1>6. Family(t) = Family(s)
  BY <1>5 DEF Family
<1>7. i \in BodyType /\ i.system = Fronted(own)
  BY <1>5, InjectIs DEF Fronted
<1>8. HoistSystem(b) \in BodyType
  BY HoistIs
<1>9. InjectFingerprint(HoistSystem(b)).system = Fronted(own)
  BY <1>8, InjectIs DEF Fronted
<1> HIDE DEF i
<1>10. Cloak(i, m).system = Cloaked(i.system, m)
  <2> DEFINE cut == IF m = "strict" THEN <<TextBlock(Fingerprint)>>
                    ELSE TruncateSystemBlocks(ContentBlocks(i.system), SystemByteLimit)
  <2>1. Cloak(i, m) = IF SystemLen(i.system) <= SystemByteLimit THEN i
                      ELSE [i EXCEPT !.system = cut]
    BY DEF Cloak
  <2>2. Cloaked(i.system, m) = IF SystemLen(i.system) <= SystemByteLimit THEN i.system
                               ELSE cut
    BY DEF Cloaked
  <2> HIDE DEF cut
  <2>3. [i EXCEPT !.system = cut].system = cut
    BY <1>7 DEF BodyType
  <2>4. QED
    BY <2>1, <2>2, <2>3
<1>11. Normalized(b, m).system = IF Family(s) = "claude" THEN Cloaked(Fronted(own), m) ELSE own
  BY <1>2, <1>4, <1>5, <1>6, <1>7, <1>10
<1>12. QED
  BY <1>9, <1>11 DEF s

-----------------------------------------------------------------------------
(* What the relay reads.                                                    *)

\* A list without bare strings.
Plain(system) == \A i \in 1 .. Len(system) : system[i].kind # "bare"

LEMMA RelayReads ==
  ASSUME NEW system \in Seq(BlockType)
  PROVE  /\ Plain(system) => RelayLen(system) = SystemLen(system)
         /\ HasFingerprint(system) => RelayHasFingerprint(system)
<1>1. \A i \in 1 .. Len(system) : system[i] \in BlockType
  OBVIOUS
<1>2. DOMAIN system = 1 .. Len(system)
  OBVIOUS
<1>3. ASSUME NEW i \in 1 .. Len(system)
      PROVE  \/ RelayText(system[i]) = BlockText(system[i])
             \/ system[i].kind = "bare" /\ BlockText(system[i]) = <<>>
  BY <1>1 DEF BlockType, RelayText, BlockText
<1>4. ASSUME Plain(system)
      PROVE  RelayLen(system) = SystemLen(system)
  <2>1. \A i \in 1 .. Len(system) : RelayText(system[i]) = BlockText(system[i])
    BY <1>3, <1>4 DEF Plain
  <2>2. [i \in DOMAIN system |-> Bytes(RelayText(system[i]))]
          = [i \in DOMAIN system |-> Bytes(BlockText(system[i]))]
    BY <1>2, <2>1
  <2>3. QED
    BY <2>2 DEF RelayLen, SystemLen
<1>5. ASSUME HasFingerprint(system)
      PROVE  RelayHasFingerprint(system)
  <2>1. PICK i \in 1 .. Len(system) : Holds(BlockText(system[i]), Fingerprint)
    BY <1>2, <1>5 DEF HasFingerprint
  <2>2. ~Holds(<<>>, Fingerprint)
    <3>1. Fingerprint \in Seq(Glyphs) /\ Fingerprint # <<>>
      BY NormalizeAssumption
    <3>2. Len(Fingerprint) \in Nat \ {0} /\ Len(<<>>) = 0
      BY <3>1, EmptySeq
    <3>3. QED
      BY <3>2 DEF Holds
  <2>3. Holds(RelayText(system[i]), Fingerprint)
    BY <1>3, <2>1, <2>2
  <2>4. QED
    BY <1>2, <2>3 DEF RelayHasFingerprint
<1>6. QED
  BY <1>4, <1>5

LEMMA ContentIsPlain ==
  ASSUME NEW content \in Seq(BlockType)
  PROVE  Plain(ContentBlocks(content))
<1>1. /\ Len(ContentBlocks(content)) = Len(content)
      /\ DOMAIN content = 1 .. Len(content)
  BY BlocksOfContent
<1>2. ASSUME NEW i \in 1 .. Len(content)
      PROVE  ContentBlocks(content)[i].kind # "bare"
  BY <1>1 DEF ContentBlocks, TextBlock
<1>3. QED
  BY <1>1, <1>2 DEF Plain

LEMMA ConcatIsPlain ==
  ASSUME NEW s \in Seq(BlockType), NEW t \in Seq(BlockType), Plain(s), Plain(t)
  PROVE  Plain(s \o t)
<1>1. ASSUME NEW i \in 1 .. Len(s \o t)
      PROVE  (s \o t)[i].kind # "bare"
  <2>1. Len(s) \in Nat /\ Len(t) \in Nat /\ Len(s \o t) = Len(s) + Len(t)
    BY ConcatProperties
  <2>2. CASE i <= Len(s)
    <3>1. i \in 1 .. Len(s) /\ (s \o t)[i] = s[i]
      BY <2>1, <2>2, ConcatProperties
    <3>2. QED
      BY <3>1 DEF Plain
  <2>3. CASE i > Len(s)
    <3>1. i - Len(s) \in 1 .. Len(t) /\ (s \o t)[i] = t[i - Len(s)]
      BY <2>1, <2>3, ConcatProperties
    <3>2. QED
      BY <3>1 DEF Plain
  <2>4. QED
    BY <2>1, <2>2, <2>3
<1>2. QED
  BY <1>1 DEF Plain

LEMMA HoistedIsPlain ==
  ASSUME NEW ms \in Seq(MessageType)
  PROVE  Plain(Hoisted(ms))
<1>1. PICK g \in [0 .. Len(ms) -> Seq(BlockType)] :
        /\ g[0] = <<>>
        /\ \A i \in 1 .. Len(ms) :
             g[i] = IF IsSystem(ms[i]) THEN g[i - 1] \o ContentBlocks(ms[i].content)
                    ELSE g[i - 1]
        /\ Hoisted(ms) = g[Len(ms)]
  BY HoistedLoop
<1> DEFINE T == {i \in 0 .. Len(ms) : Plain(g[i])}
<1>2. 0 \in T /\ Len(ms) \in Nat
  BY <1>1 DEF Plain
<1>3. ASSUME NEW i \in 1 .. Len(ms), i - 1 \in T
      PROVE  i \in T
  <2>1. /\ i - 1 \in 0 .. Len(ms) /\ i \in 0 .. Len(ms)
        /\ ms[i] \in MessageType /\ Plain(g[i - 1])
    BY <1>3
  <2>2. g[i - 1] \in Seq(BlockType) /\ ms[i].content \in Seq(BlockType)
    BY <2>1 DEF MessageType
  <2>3. /\ ContentBlocks(ms[i].content) \in Seq(BlockType)
        /\ Plain(ContentBlocks(ms[i].content))
    BY <2>2, BlocksOfContent, ContentIsPlain
  <2>4. Plain(g[i - 1] \o ContentBlocks(ms[i].content))
    BY <2>1, <2>2, <2>3, ConcatIsPlain
  <2>5. Plain(g[i])
    BY <1>1, <2>1, <2>4
  <2>6. QED
    BY <2>1, <2>5
<1> HIDE DEF T
<1>4. \A i \in 0 .. Len(ms) : i \in T
  BY <1>2, <1>3, Climb
<1>5. QED
  BY <1>1, <1>2, <1>4 DEF T

LEMMA TruncatedIsPlain ==
  ASSUME NEW blocks \in Seq(BlockType), NEW limit \in Nat
  PROVE  Plain(TruncateSystemBlocks(blocks, limit))
<1>1. PICK g \in [0 .. Len(blocks) -> Rest] :
        /\ g[0] = [out |-> <<>>, remaining |-> limit]
        /\ \A i \in 1 .. Len(blocks) : g[i] = TruncateBlock(g[i - 1], blocks[i])
        /\ TruncateSystemBlocks(blocks, limit) = g[Len(blocks)].out
  BY TruncateLoop
<1> DEFINE T == {i \in 0 .. Len(blocks) : Plain(g[i].out)}
<1>2. 0 \in T /\ Len(blocks) \in Nat
  BY <1>1 DEF Plain
<1>3. ASSUME NEW i \in 1 .. Len(blocks), i - 1 \in T
      PROVE  i \in T
  <2>1. /\ i - 1 \in 0 .. Len(blocks) /\ i \in 0 .. Len(blocks)
        /\ blocks[i] \in BlockType /\ Plain(g[i - 1].out)
    BY <1>3
  <2>2. g[i - 1] \in Rest /\ g[i] = TruncateBlock(g[i - 1], blocks[i])
    BY <1>1, <2>1
  <2>3. ASSUME NEW text \in Seq(Glyphs), g[i].out = Append(g[i - 1].out, TextBlock(text))
        PROVE  Plain(g[i].out)
    <3> DEFINE old == g[i - 1].out
    <3>1. old \in Seq(BlockType) /\ TextBlock(text) \in BlockType
      BY <2>2, TextBlockIs DEF Rest
    <3>2. Plain(old) /\ g[i].out = Append(old, TextBlock(text))
      BY <2>1, <2>3
    <3> HIDE DEF old
    <3>3. TextBlock(text).kind # "bare"
      BY DEF TextBlock
    <3>4. ASSUME NEW j \in 1 .. Len(Append(old, TextBlock(text)))
          PROVE  Append(old, TextBlock(text))[j].kind # "bare"
      <4>1. /\ Len(Append(old, TextBlock(text))) = Len(old) + 1 /\ Len(old) \in Nat
            /\ Append(old, TextBlock(text))[Len(old) + 1] = TextBlock(text)
            /\ \A k \in 1 .. Len(old) : Append(old, TextBlock(text))[k] = old[k]
        BY <3>1, AppendProperties
      <4>2. j \in 1 .. Len(old) \/ j = Len(old) + 1
        BY <4>1
      <4>3. QED
        BY <3>2, <3>3, <4>1, <4>2 DEF Plain
    <3>5. QED
      BY <3>2, <3>4 DEF Plain
  <2>4. g[i] = g[i - 1] => Plain(g[i].out)
    BY <2>1
  <2>5. Plain(g[i].out)
    BY <2>1, <2>2, <2>3, <2>4, TruncateOne
  <2>6. QED
    BY <2>1, <2>5
<1> HIDE DEF T
<1>4. \A i \in 0 .. Len(blocks) : i \in T
  BY <1>2, <1>3, Climb
<1>5. QED
  BY <1>1, <1>2, <1>4 DEF T

\* Only a list that the client has put its own fingerprint into, and that nothing
\* is hoisted into, keeps its bare strings.
LEMMA ClaudeIsPlain ==
  ASSUME NEW b \in BodyType, NEW m \in Modes, Routed(StripPrefix(b)),
         Family(Normalized(b, m)) = "claude", ~Plain(Normalized(b, m).system)
  PROVE  /\ Hoisted(b.messages) = <<>> /\ HasFingerprint(b.system)
         /\ Normalized(b, m).system = b.system
<1> DEFINE own == HoistSystem(b).system
           fronted == Fronted(own)
<1>1. b.endpoint = "messages" /\ Family(StripPrefix(b)) = "claude"
  BY StripIs, NormalizedIs DEF Routed
<1>2. Normalized(b, m).system = Cloaked(fronted, m)
  BY <1>1, SystemIs
<1>3. /\ b.messages \in Seq(MessageType) /\ b.system \in Seq(BlockType)
      /\ own = (IF Hoisted(b.messages) = <<>> THEN b.system
                ELSE ContentBlocks(b.system) \o Hoisted(b.messages))
      /\ own \in Seq(BlockType)
  BY HoistIs DEF BodyType
<1>4. Hoisted(b.messages) # <<>> => Plain(own)
  <2>1. /\ ContentBlocks(b.system) \in Seq(BlockType) /\ Plain(ContentBlocks(b.system))
        /\ Hoisted(b.messages) \in Seq(BlockType) /\ Plain(Hoisted(b.messages))
    BY <1>3, BlocksOfContent, ContentIsPlain, KeptTyped, HoistedIsPlain
  <2>2. QED
    BY <1>3, <2>1, ConcatIsPlain
<1>5. LET front == <<TextBlock(Fingerprint)>>
      IN  front \in Seq(BlockType) /\ Plain(front)
  BY OnlyFingerprint DEF Plain, TextBlock
<1> HIDE DEF own
<1>6. fronted \in Seq(BlockType) /\ (HasFingerprint(own) \/ Plain(fronted))
  <2>1. ContentBlocks(own) \in Seq(BlockType) /\ Plain(ContentBlocks(own))
    BY <1>3, BlocksOfContent, ContentIsPlain
  <2>2. <<TextBlock(Fingerprint)>> \o ContentBlocks(own) \in Seq(BlockType)
    BY <1>5, <2>1, ConcatProperties
  <2>3. QED
    BY <1>3, <1>5, <2>1, <2>2, ConcatIsPlain DEF Fronted
<1>7. HasFingerprint(own) => fronted = own
  BY DEF Fronted
<1> HIDE DEF fronted
<1>8. Cloaked(fronted, m) = fronted
  <2>1. Plain(TruncateSystemBlocks(ContentBlocks(fronted), SystemByteLimit))
    BY <1>6, BlocksOfContent, TruncatedIsPlain, NormalizeAssumption
  <2>2. QED
    BY <1>2, <1>5, <2>1 DEF Cloaked
<1>9. QED
  BY <1>2, <1>3, <1>4, <1>6, <1>7, <1>8

-----------------------------------------------------------------------------
(* The key of a later turn.                                                 *)

\* The key of a turn is that of the turn before.
LEMMA KeyOfLonger ==
  ASSUME NEW b \in BodyType, NEW longer \in BodyType, NEW x \in MessageType,
         longer.endpoint = b.endpoint, longer.family = b.family,
         longer.prefixed = b.prefixed, longer.cacheKey = b.cacheKey,
         longer.system = b.system, longer.bare = FALSE,
         longer.messages = Append(WrapInput(b).messages, x),
         b.bare => b.endpoint = "responses",
         NEW m \in Modes, NEW k \in Modes,
         HeadIsSettled(WrapInput(b)),
         Hoisted(longer.messages) = Hoisted(b.messages),
         k = m \/ SystemLen(InjectFingerprint(HoistSystem(b)).system) <= SystemByteLimit
  PROVE  AffinityKey(Normalized(longer, k)) = AffinityKey(Normalized(b, m))
<1> DEFINE n == Normalized(b, m)
           o == Normalized(longer, k)
<1>1. /\ n \in BodyType /\ n.endpoint = b.endpoint /\ n.family = b.family
      /\ n.cacheKey = b.cacheKey /\ n.prefixed = StripPrefix(b).prefixed
      /\ b.endpoint = "messages" => n.messages = HoistSystem(b).messages
      /\ b.endpoint = "responses" => n.messages = WrapInput(b).messages
      /\ b.endpoint = "chat" => n.messages = b.messages
      /\ b.endpoint # "messages" => n.system = b.system
  BY NormalizedIs
<1>2. /\ o \in BodyType /\ o.endpoint = b.endpoint /\ o.family = b.family
      /\ o.cacheKey = b.cacheKey /\ o.prefixed = StripPrefix(longer).prefixed
      /\ b.endpoint = "messages" => o.messages = HoistSystem(longer).messages
      /\ b.endpoint = "responses" => o.messages = WrapInput(longer).messages
      /\ b.endpoint = "chat" => o.messages = longer.messages
      /\ b.endpoint # "messages" => o.system = b.system
  <2>1. /\ o \in BodyType /\ o.endpoint = longer.endpoint /\ o.family = longer.family
        /\ o.cacheKey = longer.cacheKey /\ o.prefixed = StripPrefix(longer).prefixed
        /\ longer.endpoint = "messages" => o.messages = HoistSystem(longer).messages
        /\ longer.endpoint = "responses" => o.messages = WrapInput(longer).messages
        /\ longer.endpoint = "chat" => o.messages = longer.messages
        /\ longer.endpoint # "messages" => o.system = longer.system
    BY NormalizedIs
  <2> HIDE DEF o
  <2>2. QED
    BY <2>1
<1>3. StripPrefix(longer).prefixed = StripPrefix(b).prefixed
      /\ Family(StripPrefix(longer)) = Family(StripPrefix(b))
  BY StripIs DEF Family
<1>4. b.messages \in Seq(MessageType)
  BY DEF BodyType
<1>5. /\ WrapInput(b).messages \in Seq(MessageType)
      /\ WrapInput(b).endpoint = b.endpoint
      /\ b.endpoint # "responses" => WrapInput(b) = b
      /\ WrapInput(longer) = longer
      /\ b.endpoint \in {"messages", "responses", "chat"}
  BY WrapIs DEF BodyType, Endpoints
<1>6. n.system = o.system
  <2>1. CASE b.endpoint = "messages"
    <3>1. HoistSystem(longer).system = HoistSystem(b).system
      <4>1. HoistSystem(b).system = IF Hoisted(b.messages) = <<>> THEN b.system
                                    ELSE ContentBlocks(b.system) \o Hoisted(b.messages)
        BY HoistIs
      <4>2. HoistSystem(longer).system =
              IF Hoisted(longer.messages) = <<>> THEN longer.system
              ELSE ContentBlocks(longer.system) \o Hoisted(longer.messages)
        BY HoistIs
      <4>3. QED
        BY <4>1, <4>2
    <3>2. /\ InjectFingerprint(HoistSystem(b)).system = Fronted(HoistSystem(b).system)
          /\ n.system = IF Family(StripPrefix(b)) = "claude"
                        THEN Cloaked(Fronted(HoistSystem(b).system), m)
                        ELSE HoistSystem(b).system
      BY <2>1, SystemIs
    <3>3. o.system = IF Family(StripPrefix(longer)) = "claude"
                     THEN Cloaked(Fronted(HoistSystem(longer).system), k)
                     ELSE HoistSystem(longer).system
      BY <2>1, SystemIs
    <3>4. Cloaked(Fronted(HoistSystem(b).system), m) = Cloaked(Fronted(HoistSystem(b).system), k)
      BY <3>2 DEF Cloaked
    <3>5. QED
      BY <1>3, <3>1, <3>2, <3>3, <3>4
  <2>2. QED
    BY <1>1, <1>2, <2>1
<1> HIDE DEF n, o
<1>7. CASE b.cacheKey # NoKey
  BY <1>1, <1>2, <1>7 DEF AffinityKey, n, o
<1>8. CASE b.cacheKey = NoKey /\ b.endpoint = "responses"
  <2>1. Bytes(MessagesJson(WrapInput(b).messages)) > HeadBytes
    BY <1>5, <1>8 DEF HeadIsSettled
  <2>2. Opening(MessagesJson(o.messages)) = Opening(MessagesJson(n.messages))
    BY <1>1, <1>2, <1>5, <1>8, <2>1, ConversationSettled
  <2>3. AffinityKey(n) =
          <<n.family, n.prefixed,
            IF n.system = <<>> THEN <<>> ELSE Opening(TextsOf(n.system)),
            Opening(MessagesJson(n.messages))>>
    BY <1>1, <1>8 DEF AffinityKey
  <2>4. AffinityKey(o) =
          <<o.family, o.prefixed,
            IF o.system = <<>> THEN <<>> ELSE Opening(TextsOf(o.system)),
            Opening(MessagesJson(o.messages))>>
    BY <1>2, <1>8 DEF AffinityKey
  <2>5. AffinityKey(o) = AffinityKey(n)
    BY <1>1, <1>2, <1>3, <1>6, <2>2, <2>3, <2>4
  <2>6. QED
    BY <2>5 DEF n, o
<1>9. CASE b.cacheKey = NoKey /\ b.endpoint # "responses"
  <2>1. Kept(b.messages) # <<>> /\ longer.messages = Append(b.messages, x)
    BY <1>5, <1>9 DEF HeadIsSettled
  <2>2. b.messages # <<>>
    <3>1. <<>> \in Seq(MessageType) /\ \A i \in 1 .. Len(<<>>) : ~IsSystem((<<>>)[i])
      OBVIOUS
    <3>2. Kept(<<>>) = <<>>
      BY <3>1, NothingToHoist
    <3>3. QED
      BY <2>1, <3>2
  <2>3. ASSUME NEW s \in Seq(MessageType), s # <<>>
        PROVE  Append(s, x) # <<>> /\ Append(s, x)[1] = s[1]
    <3>1. 1 \in 1 .. Len(s) /\ Len(s) \in Nat
      BY <2>3, EmptySeq
    <3>2. Append(s, x) \in Seq(MessageType) /\ Len(Append(s, x)) = Len(s) + 1
      BY AppendProperties
    <3>3. QED
      BY <3>1, <3>2, AppendProperties, EmptySeq
  <2>4. o.messages # <<>> /\ n.messages # <<>> /\ o.messages[1] = n.messages[1]
    <3>1. CASE b.endpoint = "messages"
      <4>1. n.messages = IF Hoisted(b.messages) = <<>> THEN b.messages ELSE Kept(b.messages)
        BY <1>1, <3>1, HoistIs
      <4>2. o.messages = IF Hoisted(b.messages) = <<>> THEN Append(b.messages, x)
                         ELSE Kept(Append(b.messages, x))
        <5>1. HoistSystem(longer).messages =
                IF Hoisted(longer.messages) = <<>> THEN longer.messages
                ELSE Kept(longer.messages)
          BY HoistIs
        <5>2. o.messages = HoistSystem(longer).messages
          BY <1>2, <3>1
        <5>3. QED
          BY <2>1, <5>1, <5>2
      <4>3. CASE Hoisted(b.messages) = <<>>
        BY <1>4, <2>2, <2>3, <4>1, <4>2, <4>3
      <4>4. CASE Hoisted(b.messages) # <<>>
        <5>1. Kept(b.messages) \in Seq(MessageType)
          BY <1>4, KeptTyped
        <5>2. Kept(Append(b.messages, x)) =
                IF IsSystem(x) THEN Kept(b.messages) ELSE Append(Kept(b.messages), x)
          BY <1>4, KeptAppend
        <5>3. QED
          BY <2>1, <2>3, <4>1, <4>2, <4>4, <5>1, <5>2
      <4>5. QED
        BY <4>3, <4>4
    <3>2. CASE b.endpoint # "messages"
      BY <1>1, <1>2, <1>4, <1>5, <1>9, <2>1, <2>2, <2>3, <3>2
    <3>3. QED
      BY <3>1, <3>2
  <2>5. QED
    BY <1>1, <1>2, <1>3, <1>6, <1>9, <2>4 DEF AffinityKey, n, o
<1>10. QED
  BY <1>7, <1>8, <1>9

-----------------------------------------------------------------------------
(* The largest of the frames.                                               *)

LEMMA UsageTyped ==
  ASSUME NEW endpoint, NEW payload \in Payloads, Counted(endpoint, payload)
  PROVE  UsageOf(endpoint, payload) \in [Counts -> Nat]
BY DEF Counted, UsageOf, Payloads

LEMMA LargerTyped ==
  ASSUME NEW u \in [Counts -> Nat], NEW v \in [Counts -> Nat]
  PROVE  /\ LargerOf(u, v) \in [Counts -> Nat]
         /\ \A c \in Counts :
              /\ LargerOf(u, v)[c] >= u[c] /\ LargerOf(u, v)[c] >= v[c]
              /\ LargerOf(u, v)[c] = u[c] \/ LargerOf(u, v)[c] = v[c]
<1>1. \A c \in Counts : u[c] \in Nat /\ v[c] \in Nat
  OBVIOUS
<1>2. QED
  BY <1>1 DEF LargerOf

LEMMA LargestLoop ==
  ASSUME NEW endpoint, NEW ps \in Seq(Payloads)
  PROVE  \E g \in [0 .. Len(ps) -> [Counts -> Nat]] :
           /\ g[0] = Nothing
           /\ \A i \in 1 .. Len(ps) :
                g[i] = IF Counted(endpoint, ps[i]) THEN LargerOf(g[i - 1], UsageOf(endpoint, ps[i])) ELSE g[i - 1]
           /\ ParseUsage(endpoint, ps) = g[Len(ps)]
<1> DEFINE n == Len(ps)
           V == [Counts -> Nat]
           Step(i, v) ==
             IF Counted(endpoint, ps[i]) THEN LargerOf(v, UsageOf(endpoint, ps[i])) ELSE v
           G == [x \in (1 .. n) \X V |-> Step(x[1], x[2])]
           Run(g) == g = [i \in 0 .. n |-> IF i = 0 THEN Nothing ELSE Step(i, g[i - 1])]
<1>1. n \in Nat /\ Nothing \in V
  BY DEF Nothing
<1>2. \A i \in 1 .. n, v \in V : Step(i, v) \in V
  BY UsageTyped, LargerTyped
<1> DEFINE t == CHOOSE g : Run(g)
<1>3. ParseUsage(endpoint, ps) = t[n]
  BY DEF ParseUsage
<1> HIDE DEF n, V, Step, t
<1>4. PICK g \in [0 .. n -> V] : g[0] = Nothing /\ \A i \in 1 .. n : g[i] = Step(i, g[i - 1])
  <2>1. G \in [(1 .. n) \X V -> V] /\ \A i \in 1 .. n, v \in V : G[<<i, v>>] = Step(i, v)
    BY <1>2
  <2> HIDE DEF G
  <2>2. PICK g \in [0 .. n -> V] : Iterates(g, n, Nothing, G)
    BY <1>1, <2>1, Iteration
  <2>3. \A i \in 1 .. n : g[i - 1] \in V /\ g[i] = G[<<i, g[i - 1]>>]
    BY <1>1, <2>2 DEF Iterates
  <2>4. QED
    BY <2>1, <2>2, <2>3 DEF Iterates
<1>5. Run(g)
  BY <1>1, <1>4
<1>6. Run(t)
  BY <1>5 DEF t
<1> DEFINE T == {i \in 0 .. n : t[i] = g[i]}
<1>7. 0 \in T
  BY <1>1, <1>4, <1>6
<1>8. ASSUME NEW i \in 1 .. n, i - 1 \in T
      PROVE  i \in T
  BY <1>1, <1>4, <1>6, <1>8
<1> HIDE DEF T
<1>9. \A i \in 0 .. n : i \in T
  BY <1>1, <1>7, <1>8, Climb
<1>10. t[n] = g[n]
  BY <1>1, <1>9 DEF T
<1>11. QED
  BY <1>3, <1>4, <1>10 DEF n, V, Step

\* The usage of some events is the largest that one of them gives, or nothing.
LEMMA LargestIs ==
  ASSUME NEW endpoint, NEW ps \in Seq(Payloads)
  PROVE  LET usages == ParseUsage(endpoint, ps)
         IN  /\ usages \in [Counts -> Nat]
             /\ \A c \in Counts :
                  /\ \A j \in 1 .. Len(ps) :
                       Counted(endpoint, ps[j]) => usages[c] >= UsageOf(endpoint, ps[j])[c]
                  /\ \/ usages[c] = 0
                     \/ \E j \in 1 .. Len(ps) : /\ Counted(endpoint, ps[j])
                                               /\ usages[c] = UsageOf(endpoint, ps[j])[c]
<1>1. PICK g \in [0 .. Len(ps) -> [Counts -> Nat]] :
        /\ g[0] = Nothing
        /\ \A i \in 1 .. Len(ps) :
             g[i] = IF Counted(endpoint, ps[i])
                    THEN LargerOf(g[i - 1], UsageOf(endpoint, ps[i])) ELSE g[i - 1]
        /\ ParseUsage(endpoint, ps) = g[Len(ps)]
  BY LargestLoop
<1> DEFINE given == {j \in 1 .. Len(ps) : Counted(endpoint, ps[j])}
           of(j) == UsageOf(endpoint, ps[j])
           Topped(i) == \A c \in Counts :
             /\ \A j \in given : j <= i => g[i][c] >= of(j)[c]
             /\ g[i][c] = 0 \/ \E j \in given : g[i][c] = of(j)[c]
           T == {i \in 0 .. Len(ps) : Topped(i)}
<1>2. Len(ps) \in Nat /\ \A i \in 1 .. Len(ps) : ps[i] \in Payloads
  OBVIOUS
<1>3. \A j \in given : of(j) \in [Counts -> Nat]
  BY <1>2, UsageTyped
<1>4. /\ \A i \in 0 .. Len(ps) : \A c \in Counts : g[i][c] \in Nat
      /\ \A i \in 1 .. Len(ps) : i - 1 \in 0 .. Len(ps)
      /\ \A i \in 1 .. Len(ps) : g[i - 1] \in [Counts -> Nat]
  OBVIOUS
<1>5. 0 \in T
  BY <1>1, <1>2 DEF Nothing
<1>6. ASSUME NEW i \in 1 .. Len(ps), i - 1 \in T
      PROVE  i \in T
  <2>1. g[i - 1] \in [Counts -> Nat] /\ i - 1 \in 0 .. Len(ps)
    BY <1>4
  <2>2. CASE i \in given
    <3>1. g[i] = LargerOf(g[i - 1], of(i))
      BY <1>1, <2>2
    <3>2. of(i) \in [Counts -> Nat]
      BY <1>3, <2>2
    <3> HIDE DEF of
    <3>3. \A c \in Counts :
            /\ g[i][c] >= g[i - 1][c] /\ g[i][c] >= of(i)[c]
            /\ g[i][c] = g[i - 1][c] \/ g[i][c] = of(i)[c]
      <4> DEFINE u == g[i - 1]
                 v == of(i)
      <4>1. u \in [Counts -> Nat] /\ v \in [Counts -> Nat] /\ g[i] = LargerOf(u, v)
        BY <2>1, <3>1, <3>2
      <4> HIDE DEF u, v
      <4>2. \A c \in Counts :
              /\ LargerOf(u, v)[c] >= u[c] /\ LargerOf(u, v)[c] >= v[c]
              /\ LargerOf(u, v)[c] = u[c] \/ LargerOf(u, v)[c] = v[c]
        BY <4>1, LargerTyped
      <4>3. QED
        BY <4>1, <4>2 DEF u, v
    <3>4. Topped(i - 1)
      BY <1>6
    <3> HIDE DEF given, T
    <3>5. ASSUME NEW c \in Counts
          PROVE  /\ \A j \in given : j <= i => g[i][c] >= of(j)[c]
                 /\ g[i][c] = 0 \/ \E j \in given : g[i][c] = of(j)[c]
      <4>1. g[i][c] \in Nat /\ g[i - 1][c] \in Nat
        BY <1>4, <2>1
      <4>2. ASSUME NEW j \in given, j <= i
            PROVE  g[i][c] >= of(j)[c]
        <5>1. of(j)[c] \in Nat
          BY <1>3
        <5>2. j \in 1 .. Len(ps)
          BY DEF given
        <5>3. CASE j = i
          BY <3>3, <5>3
        <5>4. CASE j # i
          <6>1. j <= i - 1
            BY <4>2, <5>2, <5>4
          <6>2. g[i - 1][c] >= of(j)[c]
            BY <3>4, <6>1
          <6>3. QED
            BY <3>3, <4>1, <5>1, <6>2
        <5>5. QED
          BY <5>3, <5>4
      <4>3. g[i][c] = 0 \/ \E j \in given : g[i][c] = of(j)[c]
        BY <2>2, <3>3, <3>4
      <4>4. QED
        BY <4>2, <4>3
    <3>6. QED
      BY <3>5 DEF T
  <2>3. CASE i \notin given
    <3>1. g[i] = g[i - 1]
      BY <1>1, <2>3
    <3>2. \A j \in given : j <= i => j <= i - 1
      BY <2>3
    <3> HIDE DEF of
    <3>3. Topped(i - 1)
      BY <1>6
    <3> HIDE DEF given
    <3>4. QED
      BY <3>1, <3>2, <3>3
  <2>4. QED
    BY <2>2, <2>3
<1> HIDE DEF T
<1>7. \A i \in 0 .. Len(ps) : i \in T
  BY <1>2, <1>5, <1>6, Climb
<1>8. Topped(Len(ps))
  BY <1>2, <1>7 DEF T
<1>9. QED
  BY <1>1, <1>2, <1>8

-----------------------------------------------------------------------------
(* The invariant of an exchange: turns and what is sent.                    *)

\* Between the turns the last one's body is at hand, and its key is that of
\* the body as it was sent.
TurnInv ==
  /\ turn > 0 =>
       /\ body \in BodyType
       /\ body.bare => body.endpoint = "responses"
       /\ Routed(StripPrefix(body))
       /\ affinity = AffinityKey(Normalized(body, mode))
  /\ pc # "idle" => turn > 0
  /\ pc = "forward" => sent = Normalized(body, mode)

\* Whatever reply is on its way belongs to the turn.
ReplyInv ==
  pc = "forward" => crlf = FALSE /\ pending = Absent /\ usageBuf = <<>> /\ arrived = <<>>

ExchangeInv == ExchangeTypeOK /\ TurnInv /\ ReplyInv

LEMMA ModeIs ==
  ASSUME setting \in Modes \cup {Absent}
  PROVE  {CloakMode, EnvMode} \subseteq Modes
BY ExchangeAssumption DEF CloakMode

LEMMA AbsentIs == Absent \notin BodyType /\ Absent \notin Events
BY ExchangeAssumption

LEMMA UsageIsTyped ==
  ASSUME NEW endpoint, NEW ps \in Seq(Events), NEW ending
  PROVE  ParseUsage(endpoint, DataPayloads(ps, ending)) \in [Counts -> Nat]
<1>1. ps \in Seq(Payloads)
  BY ExchangeAssumption
<1>2. <<Garbled>> \in Seq(Payloads)
  <2>1. Garbled \in Payloads
    BY DEF Garbled, Payloads
  <2>2. QED
    BY <2>1
<1>3. DataPayloads(ps, ending) \in Seq(Payloads)
  BY <1>1, <1>2 DEF DataPayloads
<1>4. QED
  BY <1>3, LargestIs

LEMMA BeginKeeps ==
  ASSUME ExchangeInv, NEW b \in BodyType, b.bare => b.endpoint = "responses",
         turn < MaxTurns, Begin(b)
  PROVE  ExchangeInv' /\ body' = b
<1> USE DEF Begin, ExchangeInv, ExchangeTypeOK
<1>1. PICK m \in Modes : mode' = m /\ sent' = Normalized(b, m)
  BY ModeIs
<1>2. sent' \in BodyType
  BY <1>1, NormalizedIs
<1>3. turn' = turn + 1 /\ turn' \in 0 .. MaxTurns /\ turn' # 0
  BY ExchangeAssumption
<1>4. usage' \in [Counts -> Nat]
  BY DEF Nothing
<1>5. ExchangeTypeOK'
  <2>1. /\ setting' \in Modes \cup {Absent} /\ mode' \in Modes
        /\ turn' \in 0 .. MaxTurns
        /\ turn' = 0 <=> body' = Absent
        /\ IsSent' <=> pc' = "forward"
        /\ pc' \in {"idle", "forward", "stream"}
    BY <1>1, <1>2, <1>3, AbsentIs DEF IsSent
  <2>2. usageBuf' \in Seq(Events) /\ arrived' \in Seq(Events) /\ Len(arrived') <= MaxEvents
    BY ExchangeAssumption
  <2>3. crlf' \in BOOLEAN /\ pending' \in Events \cup {Absent}
    OBVIOUS
  <2>4. QED
    BY <1>4, <2>1, <2>2, <2>3
<1>6. TurnInv'
  BY <1>1, <1>3 DEF TurnInv
<1>7. ReplyInv'
  BY DEF ReplyInv
<1>8. QED
  BY <1>5, <1>6, <1>7

\* The body of a later turn.
Longer(b, earlier, message) ==
  [b EXCEPT !.messages = Append(earlier, message), !.bare = FALSE]

LEMMA LongerIs ==
  ASSUME NEW b \in BodyType, NEW message \in MessageType,
         NEW earlier, earlier = b.messages \/ earlier = WrapInput(b).messages
  PROVE  LET longer == Longer(b, earlier, message)
         IN  /\ longer \in BodyType /\ longer.bare = FALSE
             /\ earlier \in Seq(MessageType)
             /\ longer.endpoint = b.endpoint /\ longer.family = b.family
             /\ longer.prefixed = b.prefixed /\ longer.cacheKey = b.cacheKey
             /\ longer.system = b.system
             /\ longer.messages = Append(earlier, message)
<1>1. earlier \in Seq(MessageType) /\ Append(earlier, message) \in Seq(MessageType)
  <2>1. b.messages \in Seq(MessageType) /\ WrapInput(b).messages \in Seq(MessageType)
    BY WrapIs DEF BodyType
  <2>2. QED
    BY <2>1
<1> DEFINE messages == Append(earlier, message)
<1> HIDE DEF messages
<1>2. messages \in Seq(MessageType)
  BY <1>1 DEF messages
<1> DEFINE longer == Longer(b, earlier, message)
<1>3. longer = [b EXCEPT !.messages = messages, !.bare = FALSE]
  BY DEF messages, Longer
<1> HIDE DEF longer
<1>4. /\ longer \in BodyType /\ longer.bare = FALSE
      /\ longer.endpoint = b.endpoint /\ longer.family = b.family
      /\ longer.prefixed = b.prefixed /\ longer.cacheKey = b.cacheKey
      /\ longer.system = b.system
      /\ longer.messages = messages
  BY <1>2, <1>3 DEF BodyType
<1>5. QED
  BY <1>1, <1>4 DEF messages, longer

LEMMA ExchangeStarts == ASSUME ExchangeInit PROVE ExchangeInv
<1> USE DEF ExchangeInit
<1>1. ExchangeTypeOK
  <2>1. /\ setting \in Modes \cup {Absent} /\ mode \in Modes
        /\ turn \in 0 .. MaxTurns
        /\ turn = 0 <=> body = Absent
        /\ IsSent <=> pc = "forward"
    BY ExchangeAssumption DEF IsSent
  <2>2. usageBuf \in Seq(Events) /\ arrived \in Seq(Events) /\ Len(arrived) <= MaxEvents
    BY ExchangeAssumption
  <2>3. usage \in [Counts -> Nat]
    BY DEF Nothing
  <2>4. QED
    BY <2>1, <2>2, <2>3 DEF ExchangeTypeOK
<1>2. TurnInv /\ ReplyInv
  BY DEF TurnInv, ReplyInv
<1>3. QED
  BY <1>1, <1>2 DEF ExchangeInv

LEMMA ExchangeKeeps ==
  ASSUME ExchangeInv, [ExchangeNext]_exchangeVars
  PROVE  ExchangeInv'
<1> USE DEF ExchangeInv
<1>1. ASSUME NEW value \in Modes \cup {Absent}, PutSetting(value)
      PROVE  ExchangeInv'
  BY <1>1 DEF PutSetting, replyVars, ExchangeTypeOK, TurnInv, ReplyInv, IsSent
<1>2. CASE FirstTurn
  <2>1. PICK b \in Bodies : Begin(b)
    BY <1>2 DEF FirstTurn
  <2>2. b \in BodyType /\ turn < MaxTurns /\ (b.bare => b.endpoint = "responses")
    BY <1>2, ExchangeAssumption DEF FirstTurn
  <2>3. QED
    BY <2>1, <2>2, BeginKeeps
<1>3. CASE LaterTurn
  <2>1. PICK message \in Additions, earlier \in {body.messages, WrapInput(body).messages} :
          Begin([body EXCEPT !.messages = Append(earlier, message), !.bare = FALSE])
    BY <1>3 DEF LaterTurn
  <2> DEFINE b == Longer(body, earlier, message)
  <2>2. body \in BodyType /\ message \in MessageType /\ turn < MaxTurns
    BY <1>3, ExchangeAssumption DEF LaterTurn, TurnInv
  <2>3. b \in BodyType /\ b.bare = FALSE
    BY <2>1, <2>2, LongerIs
  <2> HIDE DEF b
  <2>4. Begin(b)
    BY <2>1 DEF b, Longer
  <2>5. QED
    BY <2>2, <2>3, <2>4, BeginKeeps
<1>4. CASE NoAnswer
  BY <1>4, AbsentIs DEF NoAnswer, replyVars, ExchangeTypeOK, TurnInv, ReplyInv, IsSent
<1>5. CASE StreamStarts
  BY <1>5, AbsentIs DEF StreamStarts, ExchangeTypeOK, TurnInv, ReplyInv, IsSent
<1>6. CASE WholeBody
  <2>1. PICK e \in Events :
          /\ arrived' = <<e>>
          /\ usage' = ParseUsage(body.endpoint, DataPayloads(<<e>>, crlf))
    BY <1>6 DEF WholeBody
  <2>2. <<e>> \in Seq(Events) /\ Len(<<e>>) = 1 /\ 1 <= MaxEvents
    BY ExchangeAssumption
  <2>3. usage' \in [Counts -> Nat]
    BY <2>1, <2>2, UsageIsTyped
  <2>4. arrived' \in Seq(Events) /\ Len(arrived') <= MaxEvents
    BY <2>1, <2>2
  <2>5. ExchangeTypeOK'
    BY <1>6, <2>3, <2>4 DEF WholeBody, ExchangeTypeOK, IsSent
  <2>6. TurnInv' /\ ReplyInv'
    BY <1>6 DEF WholeBody, TurnInv, ReplyInv
  <2>7. QED
    BY <2>5, <2>6
<1>7. ASSUME NEW e \in Events, EventLines(e)
      PROVE  ExchangeInv'
  <2>1. arrived' \in Seq(Events) /\ Len(arrived') <= MaxEvents
    <3>1. /\ arrived \in Seq(Events) /\ arrived' = Append(arrived, e)
          /\ Len(arrived) < MaxEvents /\ MaxEvents \in Nat
      BY <1>7, ExchangeAssumption DEF EventLines, ExchangeTypeOK
    <3>2. QED
      BY <3>1
  <2>2. QED
    BY <1>7, <2>1 DEF EventLines, ExchangeTypeOK, TurnInv, ReplyInv, IsSent
<1>8. ASSUME EmptyLine \/ StreamEnds
      PROVE  FlushEvent \in Seq(Events)
  BY AbsentIs DEF FlushEvent, ExchangeTypeOK
<1>9. CASE EmptyLine
  BY <1>8, <1>9 DEF EmptyLine, ExchangeTypeOK, TurnInv, ReplyInv, IsSent
<1>10. CASE StreamEnds
  <2>1. usageBuf' \in Seq(Events)
    BY <1>8, <1>10 DEF StreamEnds
  <2>2. usage' \in [Counts -> Nat]
    BY <1>10, <2>1, UsageIsTyped DEF StreamEnds
  <2>3. QED
    BY <1>10, <2>1, <2>2 DEF StreamEnds, ExchangeTypeOK, TurnInv, ReplyInv, IsSent
<1>11. CASE UNCHANGED exchangeVars
  BY <1>11 DEF exchangeVars, replyVars, ExchangeTypeOK, TurnInv, ReplyInv, IsSent
<1>12. QED
  BY <1>1, <1>2, <1>3, <1>4, <1>5, <1>6, <1>7, <1>9, <1>10, <1>11 DEF ExchangeNext

LEMMA ExchangeInvariant == ExchangeSpec => []ExchangeInv
<1>1. ExchangeInit => ExchangeInv
  BY ExchangeStarts
<1>2. ExchangeInv /\ [ExchangeNext]_exchangeVars => ExchangeInv'
  BY ExchangeKeeps
<1>3. QED
  BY <1>1, <1>2, PTL DEF ExchangeSpec

\* An exchange keeps to its types: one body of the client at a time, one of the
\* gateway's while it waits for the relay, and at most MaxEvents events.
THEOREM ExchangeTypeCorrect == ExchangeSpec => []ExchangeTypeOK
<1>1. ExchangeInv => ExchangeTypeOK
  BY DEF ExchangeInv
<1>2. QED
  BY <1>1, ExchangeInvariant, PTL

LEMMA SentIs ==
  ASSUME ExchangeInv, IsSent
  PROVE  /\ body \in BodyType /\ mode \in Modes /\ Routed(StripPrefix(body))
         /\ sent = Normalized(body, mode)
         /\ body.bare => body.endpoint = "responses"
BY DEF ExchangeInv, ExchangeTypeOK, TurnInv

\* handler.go with normalize.go: whatever a client puts into its system and its
\* messages, and whichever disguise is in force, the relay reads a claude body
\* that is within the limit, bare strings included, and that has the fingerprint.
\* Two cases are excepted: a list with the client's own fingerprint in a block
\* beside bare strings is sent as it is, and a fingerprint of the client's that
\* stands behind other text is cut off by relaxed mode.
THEOREM ClaudeIsAccepted == ExchangeSpec => []ClaudeAccepted
<1>1. ExchangeInv => ClaudeAccepted
  <2>1. SUFFICES ASSUME ExchangeInv, IsSent, Family(sent) = "claude"
                 PROVE  ClaudeAccepted
    BY DEF ClaudeAccepted
  <2>2. /\ body \in BodyType /\ mode \in Modes /\ Routed(StripPrefix(body))
        /\ sent = Normalized(body, mode)
    BY <2>1, SentIs
  <2>3. /\ SystemLen(sent.system) <= SystemByteLimit
        /\ HasFingerprint(sent.system)
           \/ /\ mode = "relaxed" /\ HasFingerprint(HoistSystem(body).system)
              /\ ~IsPrefix(Fingerprint,
                           BlockText(ContentBlocks(HoistSystem(body).system)[1]))
    BY <2>1, <2>2, ClaudeIs
  <2>4. sent.system \in Seq(BlockType) /\ body.system \in Seq(BlockType)
    BY <2>2, NormalizedIs DEF BodyType
  <2>5. RelayHasFingerprint(sent.system) \/ CutOff
    BY <2>3, <2>4, RelayReads DEF CutOff, ClientSystem
  <2>6. RelayLen(sent.system) <= SystemByteLimit \/ Overlooked
    <3>1. CASE Plain(sent.system)
      BY <2>3, <2>4, <3>1, RelayReads
    <3>2. CASE ~Plain(sent.system)
      <4>1. /\ Hoisted(body.messages) = <<>> /\ HasFingerprint(body.system)
            /\ sent.system = body.system
        BY <2>1, <2>2, <3>2, ClaudeIsPlain
      <4>2. \E i \in DOMAIN body.system : body.system[i].kind = "bare"
        BY <2>4, <3>2, <4>1 DEF Plain
      <4>3. QED
        BY <2>3, <4>1, <4>2 DEF Overlooked
    <3>3. QED
      BY <3>1, <3>2
  <2>7. QED
    BY <2>5, <2>6 DEF ClaudeAccepted
<1>2. QED
  BY <1>1, ExchangeInvariant, PTL

\* normalize.go: normalising what was sent, under either disguise, changes
\* nothing, so that a second gateway or a client that sends it back is safe.
THEOREM SecondPassIsIdle == ExchangeSpec => []SecondPassIdle
<1>1. ExchangeInv => SecondPassIdle
  <2>1. SUFFICES ASSUME ExchangeInv, IsSent, sent.prefixed = 0,
                        Family(sent) = "claude" => HasFingerprint(sent.system),
                        NEW m \in Modes
                 PROVE  Normalized(sent, m) = sent
    BY DEF SecondPassIdle
  <2>2. /\ body \in BodyType /\ mode \in Modes /\ Routed(StripPrefix(body))
        /\ sent = Normalized(body, mode)
    BY <2>1, SentIs
  <2>3. QED
    BY <2>1, <2>2, NormalizedOnce
<1>2. QED
  BY <1>1, ExchangeInvariant, PTL

\* normalizeMessages and wrapping: the turns of a conversation reach the relay
\* complete and in order, an input string as the message that it is wrapped in,
\* and no system text is left among them.
THEOREM TurnsAreIntact == ExchangeSpec => []TurnsIntact
<1>1. ExchangeInv => TurnsIntact
  <2>1. SUFFICES ASSUME ExchangeInv, IsSent
                 PROVE  /\ Kept(sent.messages) = Kept(WrapInput(body).messages)
                        /\ body.endpoint = "messages" => Hoisted(sent.messages) = <<>>
    BY DEF TurnsIntact
  <2>2. /\ body \in BodyType /\ mode \in Modes /\ sent = Normalized(body, mode)
        /\ body.bare => body.endpoint = "responses"
    BY <2>1, SentIs
  <2>3. /\ body.endpoint = "messages" => sent.messages = HoistSystem(body).messages
        /\ body.endpoint = "responses" => sent.messages = WrapInput(body).messages
        /\ body.endpoint = "chat" => sent.messages = body.messages
    BY <2>2, NormalizedIs
  <2>4. /\ body.endpoint \in {"messages", "responses", "chat"}
        /\ body.endpoint # "responses" => WrapInput(body) = body
    BY <2>2, WrapIs DEF BodyType, Endpoints
  <2>5. QED
    BY <2>2, <2>3, <2>4, HoistedOnce
<1>2. QED
  BY <1>1, ExchangeInvariant, PTL

\* affinityKey: the turns of a conversation hash alike, as long as what is hashed
\* was there from the first, an input string comes again in the form that the
\* gateway gave it, and the disguise cuts nothing.
THEOREM TurnsShareTheirKey == ExchangeSpec => KeyHolds
<1> DEFINE Settles == turn' > turn /\ turn > 0 =>
             \/ affinity' = affinity
             \/ ~HeadIsSettled(WrapInput(body))
             \/ Reworded
             \/ Hoisted(body'.messages) # Hoisted(body.messages)
             \/ /\ mode' # mode
                /\ SystemLen(InjectFingerprint(HoistSystem(body)).system) > SystemByteLimit
<1>1. ExchangeInv /\ [ExchangeNext]_exchangeVars => [Settles]_exchangeVars
  <2>1. SUFFICES ASSUME ExchangeInv, ExchangeNext, turn' > turn, turn > 0,
                        HeadIsSettled(WrapInput(body)), ~Reworded,
                        Hoisted(body'.messages) = Hoisted(body.messages),
                        mode' = mode
                        \/ ~(SystemLen(InjectFingerprint(HoistSystem(body)).system)
                             > SystemByteLimit)
                 PROVE  affinity' = affinity
    OBVIOUS
  <2>2. turn \in Nat
    BY <2>1 DEF ExchangeInv, ExchangeTypeOK
  <2>3. LaterTurn
    <3>1. turn' # turn
      BY <2>1, <2>2
    <3>2. QED
      BY <2>1, <2>2, <3>1 DEF ExchangeNext, PutSetting, FirstTurn, NoAnswer, StreamStarts,
           WholeBody, EventLines, EmptyLine, StreamEnds
  <2>4. PICK x \in Additions, earlier \in {body.messages, WrapInput(body).messages} :
          Begin([body EXCEPT !.messages = Append(earlier, x), !.bare = FALSE])
    BY <2>3 DEF LaterTurn
  <2> DEFINE b == Longer(body, earlier, x)
  <2>5. /\ body \in BodyType /\ x \in MessageType /\ mode \in Modes
        /\ body.bare => body.endpoint = "responses"
    BY <2>1, ExchangeAssumption DEF ExchangeInv, ExchangeTypeOK, TurnInv
  <2>6. /\ b \in BodyType
        /\ b.endpoint = body.endpoint /\ b.family = body.family
        /\ b.prefixed = body.prefixed /\ b.cacheKey = body.cacheKey
        /\ b.system = body.system /\ b.messages = Append(earlier, x) /\ b.bare = FALSE
        /\ earlier \in Seq(MessageType)
    <3>1. earlier = body.messages \/ earlier = WrapInput(body).messages
      BY <2>4
    <3>2. body \in BodyType /\ x \in MessageType
      BY <2>5
    <3>3. QED
      BY <3>1, <3>2, LongerIs
  <2>7. Begin(b)
    BY <2>4 DEF Longer
  <2> HIDE DEF b
  <2>8. ExchangeInv' /\ body' = b
    <3>1. turn < MaxTurns
      BY <2>3 DEF LaterTurn
    <3>2. QED
      BY <2>1, <2>6, <2>7, <3>1, BeginKeeps
  <2>9. mode' \in Modes /\ affinity' = AffinityKey(Normalized(b, mode'))
    <3>1. turn' > 0
      BY <2>1, <2>2, <2>8 DEF ExchangeInv, ExchangeTypeOK
    <3>2. QED
      BY <2>8, <3>1 DEF ExchangeInv, ExchangeTypeOK, TurnInv
  <2>10. affinity = AffinityKey(Normalized(body, mode))
    BY <2>1 DEF ExchangeInv, TurnInv
  <2>11. mode' = mode
         \/ SystemLen(InjectFingerprint(HoistSystem(body)).system) <= SystemByteLimit
    <3>1. InjectFingerprint(HoistSystem(body)) \in BodyType
      BY <2>5, HoistIs, InjectIs
    <3>2. SystemLen(InjectFingerprint(HoistSystem(body)).system) \in Nat
      BY <3>1, SystemLenIs DEF BodyType
    <3>3. QED
      BY <2>1, <3>2, NormalizeAssumption
  <2>12. earlier = WrapInput(body).messages
    <3> DEFINE wrapped == WrapInput(body).messages
    <3>1. /\ wrapped \in Seq(MessageType) /\ Len(wrapped) = Len(body.messages)
          /\ ~body.bare => wrapped = body.messages
      BY <2>5, WrapIs DEF BodyType
    <3>2. body.bare => IsPrefix(wrapped, Append(earlier, x))
      BY <2>1, <2>6, <2>8 DEF Reworded
    <3> HIDE DEF wrapped
    <3>3. Len(earlier) = Len(wrapped) /\ earlier \in {body.messages, wrapped}
      BY <3>1 DEF wrapped
    <3>4. CASE body.bare
      <4>1. SubSeq(Append(earlier, x), 1, Len(earlier)) = earlier
        BY <2>5, <2>6
      <4>2. SubSeq(wrapped, 1, Len(wrapped)) = wrapped
        BY <3>1, SubSeqFull
      <4>3. QED
        BY <3>2, <3>3, <3>4, <4>1, <4>2 DEF IsPrefix, wrapped
    <3>5. QED
      BY <3>1, <3>3, <3>4 DEF wrapped
  <2>13. AffinityKey(Normalized(b, mode')) = AffinityKey(Normalized(body, mode))
    BY <2>1, <2>5, <2>6, <2>8, <2>9, <2>11, <2>12, KeyOfLonger
  <2>14. QED
    BY <2>9, <2>10, <2>13
<1>2. QED
  BY <1>1, ExchangeInvariant, PTL DEF ExchangeSpec, KeyHolds

-----------------------------------------------------------------------------
(* The tee.                                                                 *)

Mentioned == {i \in DOMAIN arrived : arrived[i].mentions}

\* What the parser would get if the stream ended here: every event that
\* mentions usage, nothing that did not come, and nothing twice.
TeeInv ==
  pc = "stream" =>
    /\ \A i \in Mentioned : \E j \in 1 .. Len(FlushEvent) : FlushEvent[j] = arrived[i]
    /\ \A j \in 1 .. Len(FlushEvent) : \E i \in 1 .. Len(arrived) : FlushEvent[j] = arrived[i]
    /\ Len(FlushEvent) <= Cardinality(Mentioned)

UsageInv == TeeInv /\ UsageComplete

LEMMA FlushTyped ==
  ASSUME ExchangeTypeOK
  PROVE  FlushEvent \in Seq(Events)
BY AbsentIs DEF FlushEvent, ExchangeTypeOK

LEMMA MentionedFinite ==
  ASSUME NEW s \in Seq(Events), NEW T \in SUBSET DOMAIN s
  PROVE  IsFiniteSet(T) /\ Cardinality(T) \in Nat
<1>1. DOMAIN s = 1 .. Len(s) /\ Len(s) \in Nat
  OBVIOUS
<1>2. IsFiniteSet(T)
  <2>1. IsFiniteSet(1 .. Len(s))
    BY <1>1, FS_Interval
  <2>2. QED
    BY <1>1, <2>1, FS_Subset
<1>3. QED
  BY <1>2, FS_CardinalityType

\* The tee kept the events that mention usage, and no others than came.
Covers(buffer, came) ==
  /\ \A i \in 1 .. Len(came) :
       came[i].mentions => \E j \in 1 .. Len(buffer) : buffer[j] = came[i]
  /\ \A j \in 1 .. Len(buffer) : \E i \in 1 .. Len(came) : buffer[j] = came[i]

\* The counts are the largest that came.
Tops(usages, endpoint, came) ==
  LET given == {i \in DOMAIN came : Counted(endpoint, came[i])}
  IN  \A c \in Counts :
        /\ \A i \in given : usages[c] >= UsageOf(endpoint, came[i])[c]
        /\ usages[c] = 0 \/ \E i \in given : usages[c] = UsageOf(endpoint, came[i])[c]

\* What is read off what the tee kept is right for all that came.
LEMMA KeptEventsSuffice ==
  ASSUME NEW endpoint, NEW came \in Seq(Events), NEW buffer \in Seq(Events),
         Covers(buffer, came)
  PROVE  Tops(ParseUsage(endpoint, buffer), endpoint, came)
<1> DEFINE usages == ParseUsage(endpoint, buffer)
           given == {i \in DOMAIN came : Counted(endpoint, came[i])}
<1>1. buffer \in Seq(Payloads)
  BY ExchangeAssumption
<1>2. \A c \in Counts :
        /\ \A j \in 1 .. Len(buffer) :
             Counted(endpoint, buffer[j]) => usages[c] >= UsageOf(endpoint, buffer[j])[c]
        /\ \/ usages[c] = 0
           \/ \E j \in 1 .. Len(buffer) : /\ Counted(endpoint, buffer[j])
                                         /\ usages[c] = UsageOf(endpoint, buffer[j])[c]
  BY <1>1, LargestIs
<1>3. \A i \in given : came[i].mentions
  <2>1. \A i \in given : came[i] \in Events
    OBVIOUS
  <2>2. QED
    BY <2>1, ExchangeAssumption DEF Counted, UsageOf
<1>4. DOMAIN came = 1 .. Len(came)
  OBVIOUS
<1> HIDE DEF usages
<1>5. ASSUME NEW c \in Counts
      PROVE  /\ \A i \in given : usages[c] >= UsageOf(endpoint, came[i])[c]
             /\ usages[c] = 0 \/ \E i \in given : usages[c] = UsageOf(endpoint, came[i])[c]
  <2>1. ASSUME NEW i \in given
        PROVE  usages[c] >= UsageOf(endpoint, came[i])[c]
    <3>1. PICK j \in 1 .. Len(buffer) : buffer[j] = came[i]
      BY <1>3, <1>4 DEF Covers
    <3>2. Counted(endpoint, buffer[j])
      BY <3>1
    <3>3. usages[c] >= UsageOf(endpoint, buffer[j])[c]
      BY <1>2, <3>2
    <3>4. QED
      BY <3>1, <3>3
  <2>2. ASSUME usages[c] # 0
        PROVE  \E i \in given : usages[c] = UsageOf(endpoint, came[i])[c]
    <3>1. PICK j \in 1 .. Len(buffer) :
            Counted(endpoint, buffer[j]) /\ usages[c] = UsageOf(endpoint, buffer[j])[c]
      BY <1>2, <2>2
    <3>2. PICK i \in 1 .. Len(came) : buffer[j] = came[i]
      BY DEF Covers
    <3>3. i \in given
      BY <1>4, <3>1, <3>2
    <3>4. QED
      BY <3>1, <3>2, <3>3
  <2>3. QED
    BY <2>1, <2>2
<1>6. QED
  BY <1>5 DEF usages, Tops

LEMMA UsageStarts == ASSUME ExchangeInit PROVE UsageInv
BY DEF ExchangeInit, UsageInv, TeeInv, UsageComplete

LEMMA UsageKeeps ==
  ASSUME ExchangeInv, UsageInv, [ExchangeNext]_exchangeVars
  PROVE  UsageInv'
<1> USE DEF UsageInv
<1>1. /\ ExchangeTypeOK /\ arrived \in Seq(Events) /\ usageBuf \in Seq(Events)
      /\ DOMAIN arrived = 1 .. Len(arrived) /\ FlushEvent \in Seq(Events)
      /\ pc \in {"idle", "forward", "stream"}
  BY FlushTyped DEF ExchangeInv, ExchangeTypeOK
<1>2. ASSUME UNCHANGED <<body, pc, replyVars>>
      PROVE  UsageInv'
  BY <1>2 DEF replyVars, TeeInv, UsageComplete, Mentioned, FlushEvent
<1>3. ASSUME pc' = "forward"
      PROVE  UsageInv'
  BY <1>3 DEF TeeInv, UsageComplete
<1>4. ASSUME NEW value \in Modes \cup {Absent}, PutSetting(value)
      PROVE  UsageInv'
  BY <1>2, <1>4 DEF PutSetting
<1>5. CASE FirstTurn \/ LaterTurn
  BY <1>3, <1>5 DEF FirstTurn, LaterTurn, Begin
<1>6. CASE NoAnswer
  <2>1. arrived' = <<>> /\ pc' = "idle"
    BY <1>6 DEF NoAnswer, replyVars, ExchangeInv, ReplyInv
  <2>2. QED
    BY <2>1 DEF TeeInv, UsageComplete
<1>7. CASE StreamStarts
  <2>1. pending' = Absent /\ usageBuf' = <<>> /\ arrived' = <<>> /\ pc' = "stream"
    BY <1>7 DEF StreamStarts, ExchangeInv, ReplyInv
  <2>2. FlushEvent' = <<>> /\ Mentioned' = {} /\ Cardinality({}) = 0
    BY <2>1, FS_EmptySet DEF FlushEvent, Mentioned
  <2>3. TeeInv'
    BY <2>1, <2>2 DEF TeeInv
  <2>4. QED
    BY <2>1, <2>3 DEF UsageComplete
<1>8. CASE WholeBody
  <2>1. PICK e \in Events :
          arrived' = <<e>> /\ usage' = ParseUsage(body.endpoint, DataPayloads(<<e>>, crlf))
    BY <1>8 DEF WholeBody
  <2>2. usage' = ParseUsage(body.endpoint, <<e>>) /\ <<e>> \in Seq(Events) /\ Len(<<e>>) = 1
    BY <2>1 DEF DataPayloads
  <2> DEFINE came == <<e>>
  <2>3. /\ came \in Seq(Events) /\ arrived' = came
        /\ usage' = ParseUsage(body.endpoint, came)
    BY <2>1, <2>2
  <2>8. Covers(came, came)
    BY DEF Covers
  <2> HIDE DEF came
  <2>4. Tops(ParseUsage(body.endpoint, came), body.endpoint, came)
    BY <2>3, <2>8, KeptEventsSuffice
  <2>5. pc' = "idle" /\ body' = body
    BY <1>8 DEF WholeBody
  <2>6. UsageComplete'
    BY <2>3, <2>4, <2>5 DEF UsageComplete, Tops
  <2>7. QED
    BY <2>5, <2>6 DEF TeeInv
<1>9. ASSUME NEW e \in Events, EventLines(e)
      PROVE  UsageInv'
  <2>1. /\ pc = "stream" /\ pc' = "stream" /\ pending = Absent /\ pending' = e
        /\ arrived' = Append(arrived, e) /\ usageBuf' = usageBuf
    BY <1>9 DEF EventLines
  <2> DEFINE n == Len(arrived)
             more == Append(arrived, e)
  <2>2. /\ more \in Seq(Events) /\ Len(more) = n + 1 /\ n \in Nat /\ more[n + 1] = e
        /\ \A i \in 1 .. n : more[i] = arrived[i]
    BY <1>1, AppendProperties
  <2> HIDE DEF more
  <2>3. arrived' = more /\ DOMAIN more = 1 .. n + 1
    BY <2>1, <2>2 DEF more
  <2>4. FlushEvent = usageBuf /\ FlushEvent' = IF e.mentions THEN Append(usageBuf, e) ELSE usageBuf
    <3>1. e # Absent
      BY AbsentIs
    <3>2. QED
      BY <2>1, <3>1 DEF FlushEvent
  <2>5. Mentioned' = IF e.mentions THEN Mentioned \cup {n + 1} ELSE Mentioned
    <3>1. n + 1 \notin DOMAIN arrived /\ DOMAIN more = DOMAIN arrived \cup {n + 1}
      BY <1>1, <2>2, <2>3
    <3>2. \A i \in DOMAIN arrived : more[i] = arrived[i]
      BY <1>1, <2>2
    <3>3. Mentioned' = {i \in DOMAIN more : more[i].mentions}
      BY <2>3 DEF Mentioned
    <3>4. QED
      BY <2>2, <3>1, <3>2, <3>3 DEF Mentioned
  <2>6. /\ \A i \in Mentioned : \E j \in 1 .. Len(usageBuf) : usageBuf[j] = arrived[i]
        /\ \A j \in 1 .. Len(usageBuf) : \E i \in 1 .. n : usageBuf[j] = arrived[i]
        /\ Len(usageBuf) <= Cardinality(Mentioned)
    BY <2>1, <2>4 DEF TeeInv
  <2>7. Mentioned \subseteq 1 .. n
    BY <1>1 DEF Mentioned
  <2>8. IsFiniteSet(Mentioned) /\ Cardinality(Mentioned) \in Nat
    BY <1>1, MentionedFinite DEF Mentioned
  <2> HIDE DEF n
  <2>9. TeeInv'
    <3>1. CASE ~e.mentions
      <4>1. FlushEvent' = usageBuf /\ Mentioned' = Mentioned
        BY <2>4, <2>5, <3>1
      <4>2. \A i \in Mentioned : more[i] = arrived[i]
        BY <2>2, <2>7
      <4>3. \A j \in 1 .. Len(usageBuf) : \E i \in 1 .. n + 1 : usageBuf[j] = more[i]
        BY <2>2, <2>6
      <4>4. QED
        BY <2>2, <2>3, <2>6, <4>1, <4>2, <4>3 DEF TeeInv
    <3>2. CASE e.mentions
      <4> DEFINE k == Len(usageBuf)
                 buffer == Append(usageBuf, e)
      <4>1. /\ buffer \in Seq(Events) /\ Len(buffer) = k + 1 /\ k \in Nat
            /\ buffer[k + 1] = e /\ \A j \in 1 .. k : buffer[j] = usageBuf[j]
        BY <1>1, AppendProperties
      <4>2. FlushEvent' = buffer /\ Mentioned' = Mentioned \cup {n + 1}
        BY <2>4, <2>5, <3>2
      <4> HIDE DEF buffer
      <4>3. Len(buffer) <= Cardinality(Mentioned')
        <5>1. n + 1 \notin Mentioned
          BY <2>2, <2>7
        <5>2. Cardinality(Mentioned') = Cardinality(Mentioned) + 1
          BY <2>8, <4>2, <5>1, FS_AddElement
        <5>3. QED
          BY <2>6, <2>8, <4>1, <5>2
      <4> HIDE DEF k
      <4>4. ASSUME NEW i \in Mentioned'
            PROVE  \E j \in 1 .. Len(buffer) : buffer[j] = more[i]
        <5>1. CASE i = n + 1
          BY <2>2, <4>1, <5>1
        <5>2. CASE i \in Mentioned
          <6>1. PICK j \in 1 .. k : usageBuf[j] = arrived[i]
            BY <2>6, <5>2 DEF k
          <6>2. more[i] = arrived[i]
            BY <2>2, <2>7, <5>2
          <6>3. j \in 1 .. Len(buffer) /\ buffer[j] = usageBuf[j]
            BY <4>1
          <6>4. QED
            BY <6>1, <6>2, <6>3
        <5>3. QED
          BY <4>2, <5>1, <5>2
      <4>5. ASSUME NEW j \in 1 .. Len(buffer)
            PROVE  \E i \in 1 .. n + 1 : buffer[j] = more[i]
        <5>1. CASE j = k + 1
          BY <2>2, <4>1, <5>1
        <5>2. CASE j # k + 1
          <6>1. j \in 1 .. k /\ buffer[j] = usageBuf[j]
            BY <4>1, <5>2
          <6>2. PICK i \in 1 .. n : usageBuf[j] = arrived[i]
            BY <2>6, <6>1 DEF k
          <6>3. i \in 1 .. n + 1 /\ more[i] = arrived[i]
            BY <2>2
          <6>4. QED
            BY <6>1, <6>2, <6>3
        <5>3. QED
          BY <5>1, <5>2
      <4>6. \A i \in Mentioned' : \E j \in 1 .. Len(FlushEvent') : FlushEvent'[j] = arrived'[i]
        BY <2>3, <4>2, <4>4
      <4>7. \A j \in 1 .. Len(FlushEvent') :
              \E i \in 1 .. Len(arrived') : FlushEvent'[j] = arrived'[i]
        BY <2>2, <2>3, <4>2, <4>5
      <4>8. Len(FlushEvent') <= Cardinality(Mentioned')
        BY <4>2, <4>3
      <4>9. QED
        BY <4>6, <4>7, <4>8 DEF TeeInv
    <3>3. QED
      BY <3>1, <3>2
  <2>10. QED
    BY <2>1, <2>9 DEF UsageComplete
<1>10. CASE EmptyLine
  <2>1. /\ pc = "stream" /\ pc' = "stream" /\ arrived' = arrived
        /\ usageBuf' = FlushEvent /\ pending' = Absent
    BY <1>10 DEF EmptyLine
  <2>2. FlushEvent' = FlushEvent /\ Mentioned' = Mentioned
    <3>1. FlushEvent' = usageBuf'
      BY <2>1 DEF FlushEvent
    <3>2. QED
      BY <2>1, <3>1 DEF Mentioned
  <2>3. QED
    BY <2>1, <2>2 DEF TeeInv, UsageComplete
<1>11. CASE StreamEnds
  <2>1. /\ pc = "stream" /\ pc' = "idle" /\ arrived' = arrived /\ body' = body
        /\ crlf' = crlf
        /\ usage' = ParseUsage(body.endpoint, DataPayloads(FlushEvent, crlf))
    BY <1>11 DEF StreamEnds
  <2> DEFINE buffer == FlushEvent
  <2>2. /\ \A i \in Mentioned : \E j \in 1 .. Len(buffer) : buffer[j] = arrived[i]
        /\ \A j \in 1 .. Len(buffer) : \E i \in 1 .. Len(arrived) : buffer[j] = arrived[i]
        /\ Len(buffer) <= Cardinality(Mentioned)
        /\ buffer \in Seq(Events)
    BY <1>1, <2>1 DEF TeeInv
  <2>3. Cardinality(Mentioned) \in Nat
    BY <1>1, MentionedFinite DEF Mentioned
  <2>4. usage' = ParseUsage(body.endpoint, DataPayloads(buffer, crlf))
    BY <2>1
  <2> HIDE DEF buffer
  <2>5. CASE crlf /\ Len(buffer) > 1
    <3>1. crlf' /\ ~(Cardinality(Mentioned) <= 1) /\ Mentioned' = Mentioned
      BY <2>1, <2>2, <2>3, <2>5 DEF Mentioned
    <3>2. UsageComplete'
      BY <3>1 DEF UsageComplete, Mentioned
    <3>3. QED
      BY <2>1, <3>2 DEF TeeInv
  <2>6. CASE ~(crlf /\ Len(buffer) > 1)
    <3>1. usage' = ParseUsage(body.endpoint, buffer)
      BY <2>4, <2>6 DEF DataPayloads
    <3>2. \A i \in 1 .. Len(arrived) :
            arrived[i].mentions => \E j \in 1 .. Len(buffer) : buffer[j] = arrived[i]
      BY <1>1, <2>2 DEF Mentioned
    <3>3. Tops(ParseUsage(body.endpoint, buffer), body.endpoint, arrived)
      <4>1. Covers(buffer, arrived)
        BY <1>1, <2>2, <3>2 DEF Covers
      <4>2. QED
        BY <1>1, <2>2, <4>1, KeptEventsSuffice
    <3>4. UsageComplete'
      BY <2>1, <3>1, <3>3 DEF UsageComplete, Tops
    <3>5. QED
      BY <2>1, <3>4 DEF TeeInv
  <2>7. QED
    BY <2>5, <2>6
<1>12. CASE UNCHANGED exchangeVars
  BY <1>2, <1>12 DEF exchangeVars
<1>13. QED
  BY <1>4, <1>5, <1>6, <1>7, <1>8, <1>9, <1>10, <1>11, <1>12 DEF ExchangeNext

\* usage.go and teeStream: the tokens logged are the largest that any complete
\* event of the reply gave, wherever it broke off; with CRLF endings, if at
\* most one event mentions usage.
THEOREM UsageIsComplete == ExchangeSpec => []UsageComplete
<1>1. ExchangeInit => UsageInv
  BY UsageStarts
<1>2. ExchangeInv /\ UsageInv /\ [ExchangeNext]_exchangeVars => UsageInv'
  BY UsageKeeps
<1>3. UsageInv => UsageComplete
  BY DEF UsageInv
<1>4. QED
  BY <1>1, <1>2, <1>3, ExchangeInvariant, PTL DEF ExchangeSpec
=============================================================================
