--------------------------- MODULE Console_proofs ---------------------------
(***************************************************************************)
(* Proofs about Settings and Console, for any number of requests, handlers,   *)
(* values, logins and ticks.  A loaded tariff is that of the rows unless they *)
(* were written, or a read failed, after the reload began; a request that     *)
(* carries a dead session has its refusal already counted in the bound.       *)
(***************************************************************************)
EXTENDS Console, FiniteSetTheorems, TLAPS

\* The clocks are capped; at its cap a tariff is not used, and a premise false.
Reloaded ==
  /\ prices # None /\ quiet > age + MaxRead => prices = Tariff
  /\ Loading /\ quiet > reading => half = Meaning(rows[1])

SettingsInv == SettingsTypeOK /\ Reloaded

-----------------------------------------------------------------------------
(* Settings.                                                                *)

LEMMA Times == PricesTTL \in Nat /\ PricesTTL > 0 /\ MaxRead \in Nat /\ Useless # None
BY SettingsAssumption

LEMMA NotYet ==
  ASSUME NEW m \in Nat, NEW n \in Nat
  PROVE  ~(0 > m + n) /\ ~(0 > m)
OBVIOUS

LEMMA MeaningType ==
  ASSUME NEW value
  PROVE  Meaning(value) \in Values \cup {None} /\ Meaning(value) # Useless
BY SettingsAssumption DEF Meaning

LEMMA PairIsTariff ==
  ASSUME NEW a, NEW b, a = Meaning(rows[1]), b = Meaning(rows[2])
  PROVE  <<a, b>> = Tariff
BY DEF Tariff, SettingKeys

LEMMA PairType ==
  ASSUME NEW a \in Values \cup {None}, NEW b \in Values \cup {None}
  PROVE  <<a, b>> \in Tariffs
BY DEF Tariffs, SettingKeys

\* What leaves the rows and the clocks alone.
LEMMA TodoKept ==
  ASSUME SettingsInv, todo' \in [Handlers -> Changes \cup {None}],
         UNCHANGED <<rows, cacheVars, quiet>>
  PROVE  SettingsInv'
BY DEF SettingsInv, SettingsTypeOK, Reloaded, cacheVars, Tariff, Loading

LEMMA PutKept ==
  ASSUME SettingsInv, NEW h \in Handlers, NEW change \in Changes, Put(h, change),
         UNCHANGED <<rows, cacheVars, quiet>>
  PROVE  SettingsInv'
<1>1. todo' \in [Handlers -> Changes \cup {None}]
  BY DEF Put, SettingsInv, SettingsTypeOK
<1> QED
  BY <1>1, TodoKept

LEMMA FreeKept ==
  ASSUME SettingsInv, NEW h \in Handlers, Free(h), UNCHANGED <<rows, cacheVars, quiet>>
  PROVE  SettingsInv'
<1>1. todo' \in [Handlers -> Changes \cup {None}]
  BY DEF Free, SettingsInv, SettingsTypeOK
<1> QED
  BY <1>1, TodoKept

LEMMA NextKeyOf ==
  ASSUME NEW h \in Handlers, todo[h] \in Changes, DOMAIN todo[h] # {}
  PROVE  /\ DOMAIN todo[h] \subseteq SettingKeys
         /\ todo[h] \in [DOMAIN todo[h] -> Stored]
         /\ NextKey(h) \in DOMAIN todo[h]
<1>1. PICK keys \in SUBSET SettingKeys : todo[h] \in [keys -> Stored]
  BY DEF Changes
<1>2. keys = DOMAIN todo[h]
  BY <1>1
<1>3. \E k \in keys : \A other \in keys : k <= other
  <2>1. keys \subseteq 1 .. 2 /\ keys # {}
    BY <1>2 DEF SettingKeys
  <2>2. CASE 1 \in keys
    <3>1. \A other \in keys : 1 <= other
      BY <2>1
    <3> QED
      BY <2>2, <3>1
  <2>3. CASE 1 \notin keys
    <3>1. \A other \in keys : other = 2
      BY <2>1, <2>3
    <3>2. PICK k \in keys : TRUE
      BY <2>1
    <3> QED
      BY <3>1, <3>2
  <2> QED
    BY <2>2, <2>3
<1> QED
  BY <1>1, <1>2, <1>3 DEF NextKey

LEMMA WriteKept ==
  ASSUME SettingsInv, NEW h \in Handlers, WriteSetting(h)
  PROVE  SettingsInv'
<1> DEFINE key == NextKey(h)
           rest == [k \in DOMAIN todo[h] \ {key} |-> todo[h][k]]
<1>1. todo[h] \in Changes
  BY DEF WriteSetting, SettingsInv, SettingsTypeOK
<1>2. /\ DOMAIN todo[h] \subseteq SettingKeys
      /\ todo[h] \in [DOMAIN todo[h] -> Stored]
      /\ key \in DOMAIN todo[h]
  BY <1>1, NextKeyOf DEF WriteSetting
<1>3. rest \in Changes
  <2>1. rest \in [DOMAIN todo[h] \ {key} -> Stored]
    BY <1>2
  <2>2. DOMAIN todo[h] \ {key} \in SUBSET SettingKeys
    BY <1>2
  <2> QED
    BY <2>1, <2>2 DEF Changes
<1>4. todo' \in [Handlers -> Changes \cup {None}]
  <2>1. todo' = [todo EXCEPT ![h] = rest]
    BY DEF WriteSetting
  <2> QED
    BY <1>3, <2>1 DEF SettingsInv, SettingsTypeOK
<1>5. rows' \in [SettingKeys -> Stored]
  <2>1. rows' = [rows EXCEPT ![key] = todo[h][key]]
    BY DEF WriteSetting
  <2>2. todo[h][key] \in Stored
    BY <1>2
  <2> QED
    BY <2>1, <2>2 DEF SettingsInv, SettingsTypeOK
<1>6. quiet' = 0 /\ UNCHANGED cacheVars
  BY DEF WriteSetting
<1>7. SettingsTypeOK'
  BY <1>4, <1>5, <1>6, SettingsAssumption
  DEF SettingsInv, SettingsTypeOK, cacheVars, Rested
<1>8. Reloaded'
  <2>1. age' \in Nat /\ reading' \in Nat
    BY <1>6 DEF cacheVars, SettingsInv, SettingsTypeOK
  <2>2. ~(quiet' > age' + MaxRead) /\ ~(quiet' > reading')
    BY <1>6, <2>1, Times, NotYet
  <2> QED
    BY <2>2 DEF Reloaded
<1> QED
  BY <1>7, <1>8 DEF SettingsInv

LEMMA ReadPricesKept ==
  ASSUME SettingsInv, ReadPrices
  PROVE  SettingsInv'
<1>1. /\ \/ quiet' = quiet /\ half' = Meaning(rows[1])
         \/ quiet' = 0 /\ half' = None
      /\ reading' = 0 /\ UNCHANGED <<rows, todo, prices, age>>
  BY DEF ReadPrices
<1>2. half' \in Values \cup {None, Useless}
  BY <1>1, MeaningType
<1>3. SettingsTypeOK'
  BY <1>1, <1>2, SettingsAssumption DEF SettingsInv, SettingsTypeOK, Rested
<1>4. (Loading /\ quiet > reading => half = Meaning(rows[1]))'
  BY <1>1
<1>5. (prices # None /\ quiet > age + MaxRead => prices = Tariff)'
  <2>1. CASE quiet' = quiet
    <3>1. Tariff' = Tariff
      BY <1>1 DEF Tariff
    <3> QED
      BY <1>1, <2>1, <3>1 DEF SettingsInv, Reloaded
  <2>2. CASE quiet' = 0
    <3>1. age' \in Nat
      BY <1>1 DEF SettingsInv, SettingsTypeOK
    <3> QED
      BY <2>2, <3>1, Times, NotYet
  <2> QED
    BY <1>1, <2>1, <2>2
<1> QED
  BY <1>3, <1>4, <1>5 DEF SettingsInv, Reloaded

LEMMA ReadMultiplierKept ==
  ASSUME SettingsInv, ReadMultiplier
  PROVE  SettingsInv'
<1>1. /\ \/ quiet' = quiet /\ prices' = <<half, Meaning(rows[2])>>
         \/ quiet' = 0 /\ prices' = <<half, None>>
      /\ half # Useless
      /\ age' = 0 /\ half' = Useless /\ reading' = 0 /\ UNCHANGED <<rows, todo>>
  BY DEF ReadMultiplier, Loading
<1>2. half \in Values \cup {None}
  BY <1>1 DEF SettingsInv, SettingsTypeOK
<1>3. prices' \in Tariffs
  BY <1>1, <1>2, MeaningType, PairType
<1>4. SettingsTypeOK'
  BY <1>1, <1>3, SettingsAssumption DEF SettingsInv, SettingsTypeOK, Rested
<1>5. (quiet > age + MaxRead => prices = Tariff)'
  <2>1. CASE quiet' = quiet /\ prices' = <<half, Meaning(rows[2])>>
    <3>1. quiet > MaxRead => half = Meaning(rows[1])
      BY <1>1, SettingsAssumption DEF SettingsInv, SettingsTypeOK, Reloaded, Loading, Rested
    <3>2. Tariff' = Tariff
      BY <1>1 DEF Tariff
    <3>3. quiet > MaxRead => prices' = Tariff
      BY <2>1, <3>1, PairIsTariff
    <3> QED
      BY <1>1, <2>1, <3>2, <3>3, SettingsAssumption
  <2>2. CASE quiet' = 0
    BY <1>1, <2>2, SettingsAssumption
  <2> QED
    BY <1>1, <2>1, <2>2
<1>6. ~Loading'
  BY <1>1 DEF Loading
<1> QED
  BY <1>4, <1>5, <1>6 DEF SettingsInv, Reloaded

LEMMA TickKept ==
  ASSUME SettingsInv, Tick
  PROVE  SettingsInv'
<1>1. /\ UNCHANGED <<rows, todo, prices, half>>
      /\ age' = IF prices = None THEN age ELSE AtMost(PricesTTL, age + 1)
      /\ reading' = IF Loading THEN reading + 1 ELSE reading
      /\ quiet' = AtMost(Rested, quiet + 1)
      /\ Loading => reading < MaxRead
  BY DEF Tick
<1>2. /\ age \in 0 .. PricesTTL /\ reading \in 0 .. MaxRead /\ quiet \in 0 .. Rested
      /\ PricesTTL \in Nat \ {0} /\ MaxRead \in Nat /\ Rested = PricesTTL + MaxRead
  BY SettingsAssumption DEF SettingsInv, SettingsTypeOK, Rested
<1>3. age' \in 0 .. PricesTTL /\ reading' \in 0 .. MaxRead /\ quiet' \in 0 .. Rested
  BY <1>1, <1>2 DEF AtMost
<1>4. SettingsTypeOK'
  BY <1>1, <1>3 DEF SettingsInv, SettingsTypeOK, Rested
<1>5. Tariff' = Tariff /\ Loading' = Loading
  BY <1>1 DEF Tariff, Loading
<1>6. (prices # None /\ quiet > age + MaxRead => prices = Tariff)'
  <2>1. prices # None /\ quiet' > age' + MaxRead => quiet > age + MaxRead
    BY <1>1, <1>2 DEF AtMost
  <2> QED
    BY <1>1, <1>5, <2>1 DEF SettingsInv, Reloaded
<1>7. (Loading /\ quiet > reading => half = Meaning(rows[1]))'
  <2>1. Loading /\ quiet' > reading' => quiet > reading
    BY <1>1, <1>2 DEF AtMost
  <2> QED
    BY <1>1, <1>5, <2>1 DEF SettingsInv, Reloaded
<1> QED
  BY <1>4, <1>6, <1>7 DEF SettingsInv, Reloaded

LEMMA ForgetKept ==
  ASSUME SettingsInv, ForgetSettings
  PROVE  SettingsInv'
<1>1. /\ todo' = [h \in Handlers |-> None] /\ prices' = None /\ age' = 0 /\ half' = Useless
      /\ reading' = 0 /\ UNCHANGED <<rows, quiet>>
  BY DEF ForgetSettings
<1>2. SettingsTypeOK'
  BY <1>1, SettingsAssumption DEF SettingsInv, SettingsTypeOK, Rested
<1> QED
  BY <1>1, <1>2 DEF SettingsInv, Reloaded, Loading

LEMMA SettingsStart ==
  ASSUME SettingsInit
  PROVE  SettingsInv
<1>1. SettingsTypeOK
  <2>1. rows \in [SettingKeys -> Stored]
    BY DEF SettingsInit, Stored
  <2> QED
    BY <2>1, SettingsAssumption DEF SettingsInit, SettingsTypeOK, Rested
<1> QED
  BY <1>1 DEF SettingsInv, Reloaded, SettingsInit, Loading

LEMMA SettledNow ==
  ASSUME SettingsInv
  PROVE  SettledPrices
BY SettingsAssumption
DEF SettingsInv, SettingsTypeOK, Reloaded, SettledPrices, Outdated, Rested
-----------------------------------------------------------------------------
(* Console.                                                                 *)

\* Requests that are to be refused, or were and have not said so.
Doomed == {r \in Requests : pc[r] \in {"send", "refused"} /\ session[r] \notin live}

SessionsTyped ==
  /\ up \in BOOLEAN /\ aged \in BOOLEAN /\ stopping \in BOOLEAN
  /\ issued \in 0 .. MaxSessions
  /\ live \in SUBSET (1 .. issued)
  /\ moves \in 0 .. MaxMoves
  /\ cookie \in 0 .. issued
  /\ lock \in Requests \cup {None}
  /\ pc \in [Requests -> {"idle", "session", "login", "answer", "send", "wait", "refused"}]
  /\ session \in [Requests -> 0 .. issued]
  /\ handler \in [Requests -> Handlers \cup {0}]
  /\ refusals \in Nat

\* The lock is its holder's; a handler serves a request that waits for it.
Locked ==
  \A r \in Requests :
    /\ pc[r] \in {"login", "answer"} <=> lock = r
    /\ handler[r] # 0 => pc[r] = "wait"

\* Once a refusal has been shown no dead session is at hand; each further one
\* is of a request that carried its session before.
Counted ==
  /\ refusals + Cardinality(Doomed) <= Cardinality(Requests)
  /\ cookie # 0 /\ cookie \notin live => refusals = 0
  /\ \A r \in Requests :
       /\ pc[r] = "answer" /\ session[r] \notin live => refusals = 0
       /\ pc[r] = "refused" => session[r] \notin live

SessionsInv == SessionsTyped /\ Locked /\ Counted

LEMMA DoomedBound ==
  ASSUME NEW S, S \subseteq Requests
  PROVE  /\ IsFiniteSet(S) /\ Cardinality(S) \in Nat /\ Cardinality(Requests) \in Nat
         /\ Cardinality(S) <= Cardinality(Requests)
BY ConsoleAssumption, FS_Subset, FS_CardinalityType

\* No more are doomed than were.
LEMMA FewerDoomed ==
  ASSUME SessionsInv, refusals' = refusals, Doomed' \subseteq Doomed
  PROVE  (refusals + Cardinality(Doomed) <= Cardinality(Requests))'
<1>1. Doomed \subseteq Requests
  BY DEF Doomed
<1>2. IsFiniteSet(Doomed) /\ Cardinality(Doomed) \in Nat /\ Cardinality(Requests) \in Nat
  BY <1>1, DoomedBound
<1>3. Cardinality(Doomed') <= Cardinality(Doomed) /\ Cardinality(Doomed') \in Nat
  BY <1>2, FS_Subset, FS_CardinalityType
<1> QED
  BY <1>2, <1>3 DEF SessionsInv, SessionsTyped, Counted

\* No refusal has been shown.
LEMMA NoneShown ==
  ASSUME refusals' = 0
  PROVE  (refusals + Cardinality(Doomed) <= Cardinality(Requests))'
<1>1. Doomed' \subseteq Requests
  BY DEF Doomed
<1> QED
  BY <1>1, DoomedBound

LEMMA ReplyType ==
  ASSUME SessionsInv, NEW r \in Requests, Reply(r)
  PROVE  /\ pc' \in [Requests -> {"idle", "session", "login", "answer", "send", "wait", "refused"}]
         /\ session' \in [Requests -> 0 .. issued]
         /\ handler' \in [Requests -> Handlers \cup {0}]
         /\ pc'[r] = "idle" /\ handler'[r] = 0
         /\ \A q \in Requests \ {r} :
              pc'[q] = pc[q] /\ session'[q] = session[q] /\ handler'[q] = handler[q]
BY DEF SessionsInv, SessionsTyped, Reply, Goto

\* A request that does not hold the lock is answered.
LEMMA ReplyKept ==
  ASSUME SessionsInv, NEW r \in Requests, pc[r] \notin {"login", "answer"}, Reply(r),
         UNCHANGED <<sessionVars, gatewayVars, refusals>>
  PROVE  SessionsInv'
<1>1. SessionsTyped'
  BY ReplyType DEF SessionsInv, SessionsTyped, sessionVars, gatewayVars
<1>2. Locked'
  BY ReplyType DEF SessionsInv, SessionsTyped, Locked, sessionVars
<1>3. Doomed' \subseteq Doomed
  BY ReplyType DEF Doomed, gatewayVars
<1>4. Counted'
  BY <1>3, ReplyType, FewerDoomed DEF SessionsInv, Counted, sessionVars, gatewayVars
<1> QED
  BY <1>1, <1>2, <1>4 DEF SessionsInv

LEMMA ArriveKept ==
  ASSUME SessionsInv, NEW r \in Requests, Arrive(r)
  PROVE  SessionsInv'
<1>1. /\ pc[r] = "idle" /\ pc' = [pc EXCEPT ![r] = "session"]
      /\ UNCHANGED <<session, handler, refusals, cookie, aged, lock, stopping,
                      up, issued, live, moves>>
  BY DEF Arrive, Goto, sessionVars, gatewayVars
<1>2. SessionsTyped'
  BY <1>1 DEF SessionsInv, SessionsTyped
<1>3. Locked'
  BY <1>1 DEF SessionsInv, SessionsTyped, Locked
<1>4. Doomed' \subseteq Doomed
  BY <1>1 DEF SessionsInv, SessionsTyped, Doomed
<1>5. Counted'
  BY <1>1, <1>4, FewerDoomed DEF SessionsInv, SessionsTyped, Counted
<1> QED
  BY <1>2, <1>3, <1>5 DEF SessionsInv

LEMMA TakeSessionKept ==
  ASSUME SessionsInv, NEW r \in Requests, TakeSession(r)
  PROVE  SessionsInv'
<1>1. /\ pc[r] = "session" /\ lock = None
      /\ UNCHANGED <<cookie, aged, stopping, up, issued, live, moves, handler, refusals>>
  BY DEF TakeSession, gatewayVars
<1>2. CASE /\ cookie # 0 /\ session' = [session EXCEPT ![r] = cookie]
           /\ pc' = [pc EXCEPT ![r] = "send"] /\ lock' = lock
  <2>1. SessionsTyped'
    BY <1>1, <1>2 DEF SessionsInv, SessionsTyped
  <2>2. Locked'
    BY <1>1, <1>2 DEF SessionsInv, SessionsTyped, Locked
  <2>3. (refusals + Cardinality(Doomed) <= Cardinality(Requests))'
    <3>1. CASE cookie \in live
      <4>1. Doomed' \subseteq Doomed
        BY <1>1, <1>2, <3>1 DEF SessionsInv, SessionsTyped, Doomed
      <4> QED
        BY <1>1, <4>1, FewerDoomed
    <3>2. CASE cookie \notin live
      BY <1>1, <1>2, <3>2, NoneShown DEF SessionsInv, Counted
    <3> QED
      BY <3>1, <3>2
  <2>4. Counted'
    BY <1>1, <1>2, <2>3 DEF SessionsInv, SessionsTyped, Counted
  <2> QED
    BY <2>1, <2>2, <2>4 DEF SessionsInv
<1>3. CASE pc' = [pc EXCEPT ![r] = "login"] /\ lock' = r /\ session' = session
  <2>1. SessionsTyped'
    BY <1>1, <1>3 DEF SessionsInv, SessionsTyped
  <2>2. Locked'
    BY <1>1, <1>3, ConsoleAssumption DEF SessionsInv, SessionsTyped, Locked
  <2>3. Doomed' \subseteq Doomed
    BY <1>1, <1>3 DEF SessionsInv, SessionsTyped, Doomed
  <2>4. Counted'
    BY <1>1, <1>3, <2>3, FewerDoomed DEF SessionsInv, SessionsTyped, Counted
  <2> QED
    BY <2>1, <2>2, <2>4 DEF SessionsInv
<1> QED
  BY <1>2, <1>3 DEF TakeSession, Goto
LEMMA GatewayLogsInKept ==
  ASSUME SessionsInv, NEW r \in Requests, GatewayLogsIn(r)
  PROVE  SessionsInv'
<1>1. /\ pc[r] = "login" /\ pc' = [pc EXCEPT ![r] = "answer"]
      /\ issued < MaxSessions /\ issued' = issued + 1
      /\ live' = live \cup {issued + 1}
      /\ session' = [session EXCEPT ![r] = issued + 1]
      /\ UNCHANGED <<cookie, aged, lock, stopping, up, moves, handler, refusals>>
  BY DEF GatewayLogsIn, Goto, sessionVars
<1>2. issued' \in 0 .. MaxSessions /\ 0 .. issued \subseteq 0 .. issued'
  BY <1>1, ConsoleAssumption DEF SessionsInv, SessionsTyped
<1>3. live' \in SUBSET (1 .. issued')
  BY <1>1, <1>2 DEF SessionsInv, SessionsTyped
<1>4. session' \in [Requests -> 0 .. issued']
  BY <1>1, <1>2 DEF SessionsInv, SessionsTyped
<1>5. SessionsTyped'
  BY <1>1, <1>2, <1>3, <1>4 DEF SessionsInv, SessionsTyped
<1>6. Locked'
  BY <1>1 DEF SessionsInv, SessionsTyped, Locked
<1>7. Doomed' \subseteq Doomed
  BY <1>1 DEF SessionsInv, SessionsTyped, Doomed
<1>8. \A s \in 0 .. issued : s \in live' <=> s \in live
  BY <1>1 DEF SessionsInv, SessionsTyped
<1>9. Counted'
  <2>1. (cookie # 0 /\ cookie \notin live => refusals = 0)'
    BY <1>1, <1>8 DEF SessionsInv, SessionsTyped, Counted
  <2>2. ASSUME NEW q \in Requests
        PROVE  /\ pc'[q] = "answer" /\ session'[q] \notin live' => refusals' = 0
               /\ pc'[q] = "refused" => session'[q] \notin live'
    BY <1>1, <1>8 DEF SessionsInv, SessionsTyped, Counted
  <2> QED
    BY <1>1, <1>7, <2>1, <2>2, FewerDoomed DEF Counted
<1> QED
  BY <1>5, <1>6, <1>9 DEF SessionsInv

LEMMA KeepSessionKept ==
  ASSUME SessionsInv, NEW r \in Requests, KeepSession(r)
  PROVE  SessionsInv'
<1>1. /\ pc[r] = "answer" /\ pc' = [pc EXCEPT ![r] = "send"]
      /\ cookie' = session[r] /\ aged' = FALSE /\ lock' = None
      /\ UNCHANGED <<stopping, up, issued, live, moves, session, handler, refusals>>
  BY DEF KeepSession, Goto, gatewayVars
<1>2. SessionsTyped'
  BY <1>1 DEF SessionsInv, SessionsTyped
<1>3. Locked'
  BY <1>1, ConsoleAssumption DEF SessionsInv, SessionsTyped, Locked
<1>4. (refusals + Cardinality(Doomed) <= Cardinality(Requests))'
  <2>1. CASE session[r] \in live
    <3>1. Doomed' \subseteq Doomed
      BY <1>1, <2>1 DEF SessionsInv, SessionsTyped, Doomed
    <3> QED
      BY <1>1, <3>1, FewerDoomed
  <2>2. CASE session[r] \notin live
    BY <1>1, <2>2, NoneShown DEF SessionsInv, Counted
  <2> QED
    BY <2>1, <2>2
<1>5. Counted'
  BY <1>1, <1>4 DEF SessionsInv, SessionsTyped, Counted
<1> QED
  BY <1>2, <1>3, <1>5 DEF SessionsInv

LEMMA LoginFailsKept ==
  ASSUME SessionsInv, NEW r \in Requests, LoginFails(r)
  PROVE  SessionsInv'
<1>1. /\ pc[r] \in {"login", "answer"} /\ Reply(r) /\ lock' = None
      /\ UNCHANGED <<cookie, aged, stopping, up, issued, live, moves, refusals>>
  BY DEF LoginFails, gatewayVars
<1>2. SessionsTyped'
  BY <1>1, ReplyType DEF SessionsInv, SessionsTyped
<1>3. Locked'
  BY <1>1, ReplyType, ConsoleAssumption DEF SessionsInv, SessionsTyped, Locked
<1>4. Doomed' \subseteq Doomed
  BY <1>1, ReplyType DEF Doomed
<1>5. Counted'
  BY <1>1, <1>4, ReplyType, FewerDoomed DEF SessionsInv, Counted
<1> QED
  BY <1>2, <1>3, <1>5 DEF SessionsInv

LEMMA AcceptedKept ==
  ASSUME SessionsInv, NEW r \in Requests, NEW h \in Handlers, NEW change, Accepted(r, h, change)
  PROVE  SessionsInv'
<1>1. /\ pc[r] = "send" /\ pc' = [pc EXCEPT ![r] = "wait"]
      /\ handler' = [handler EXCEPT ![r] = h]
      /\ UNCHANGED <<cookie, aged, lock, stopping, up, issued, live, moves, session, refusals>>
  BY DEF Accepted, Goto, sessionVars, gatewayVars
<1>2. SessionsTyped'
  BY <1>1 DEF SessionsInv, SessionsTyped
<1>3. Locked'
  BY <1>1 DEF SessionsInv, SessionsTyped, Locked
<1>4. Doomed' \subseteq Doomed
  BY <1>1 DEF SessionsInv, SessionsTyped, Doomed
<1>5. Counted'
  BY <1>1, <1>4, FewerDoomed DEF SessionsInv, SessionsTyped, Counted
<1> QED
  BY <1>2, <1>3, <1>5 DEF SessionsInv

LEMMA RefusedKept ==
  ASSUME SessionsInv, NEW r \in Requests, Refused(r)
  PROVE  SessionsInv'
<1>1. /\ pc[r] = "send" /\ pc' = [pc EXCEPT ![r] = "refused"] /\ session[r] \notin live
      /\ UNCHANGED <<cookie, aged, lock, stopping, up, issued, live, moves, session, handler,
                      refusals>>
  BY DEF Refused, Goto, ValidSession, sessionVars, gatewayVars
<1>2. SessionsTyped'
  BY <1>1 DEF SessionsInv, SessionsTyped
<1>3. Locked'
  BY <1>1 DEF SessionsInv, SessionsTyped, Locked
<1>4. Doomed' \subseteq Doomed
  BY <1>1 DEF SessionsInv, SessionsTyped, Doomed
<1>5. Counted'
  BY <1>1, <1>4, FewerDoomed DEF SessionsInv, SessionsTyped, Counted
<1> QED
  BY <1>2, <1>3, <1>5 DEF SessionsInv

LEMMA HandleRefusalKept ==
  ASSUME SessionsInv, NEW r \in Requests, HandleRefusal(r)
  PROVE  SessionsInv'
<1>1. /\ pc[r] = "refused" /\ lock = None /\ cookie' = 0 /\ Reply(r)
      /\ refusals' = refusals + 1
      /\ UNCHANGED <<aged, lock, stopping, up, issued, live, moves>>
  BY DEF HandleRefusal, DropCookie, gatewayVars
<1>2. SessionsTyped'
  BY <1>1, ReplyType DEF SessionsInv, SessionsTyped
<1>3. Locked'
  BY <1>1, ReplyType DEF SessionsInv, SessionsTyped, Locked
<1>4. r \in Doomed /\ Doomed' = Doomed \ {r}
  BY <1>1, ReplyType DEF SessionsInv, Counted, Doomed
<1>5. IsFiniteSet(Doomed) /\ Cardinality(Doomed) \in Nat /\ Cardinality(Requests) \in Nat
  <2>1. Doomed \subseteq Requests
    BY DEF Doomed
  <2> QED
    BY <2>1, DoomedBound
<1>6. Cardinality(Doomed') = Cardinality(Doomed) - 1
  BY <1>4, <1>5, FS_RemoveElement
<1>7. (refusals + Cardinality(Doomed) <= Cardinality(Requests))'
  BY <1>1, <1>5, <1>6 DEF SessionsInv, SessionsTyped, Counted
<1>8. \A q \in Requests : pc'[q] # "answer"
  BY <1>1, <1>3, ConsoleAssumption DEF Locked
<1>9. Counted'
  BY <1>1, <1>7, <1>8, ReplyType DEF SessionsInv, Counted
<1> QED
  BY <1>2, <1>3, <1>9 DEF SessionsInv

LEMMA HandlerReturnsKept ==
  ASSUME SessionsInv, NEW h \in Handlers, HandlerReturns(h)
  PROVE  SessionsInv'
<1>1. UNCHANGED <<sessionVars, gatewayVars, refusals>>
  BY DEF HandlerReturns
<1>2. CASE \E r \in Requests : handler[r] = h /\ Reply(r)
  <2>1. PICK r \in Requests : handler[r] = h /\ Reply(r)
    BY <1>2
  <2>2. pc[r] = "wait"
    BY <2>1, ConsoleAssumption DEF SessionsInv, Locked
  <2> QED
    BY <1>1, <2>1, <2>2, ReplyKept
<1>3. CASE UNCHANGED requestVars
  BY <1>1, <1>3
  DEF requestVars, sessionVars, gatewayVars, SessionsInv, SessionsTyped, Locked, Counted, Doomed
<1> QED
  BY <1>2, <1>3 DEF HandlerReturns

\* Steps of the gateway and of the clocks; sessions that end, end together with
\* what is counted about them.
LEMMA GatewayKept ==
  ASSUME SessionsInv, live' \subseteq live, live' = live \/ refusals' = 0,
         refusals' \in {0, refusals}, cookie' \in {0, cookie},
         up' \in BOOLEAN, aged' \in BOOLEAN, stopping' \in BOOLEAN, moves' \in 0 .. MaxMoves,
         handler' \in [Requests -> Handlers \cup {0}],
         \A r \in Requests : handler'[r] \in {0, handler[r]},
         UNCHANGED <<issued, lock, pc, session>>
  PROVE  SessionsInv'
<1>1. SessionsTyped'
  BY DEF SessionsInv, SessionsTyped
<1>2. Locked'
  BY DEF SessionsInv, Locked
<1>3. (refusals + Cardinality(Doomed) <= Cardinality(Requests))'
  <2>1. CASE refusals' = 0
    BY <2>1, NoneShown
  <2>2. CASE refusals' = refusals /\ live' = live
    <3>1. Doomed' \subseteq Doomed
      BY <2>2 DEF Doomed
    <3> QED
      BY <2>2, <3>1, FewerDoomed
  <2> QED
    BY <2>1, <2>2
<1>4. Counted'
  BY <1>3 DEF SessionsInv, Counted
<1> QED
  BY <1>1, <1>2, <1>4 DEF SessionsInv

-----------------------------------------------------------------------------
(* Every step.                                                              *)

Inv == SettingsInv /\ SessionsInv

LEMMA InitInv ==
  ASSUME Init
  PROVE  Inv
<1>1. SettingsInv
  BY SettingsStart DEF Init
<1>2. SessionsTyped
  <2>1. MaxSessions \in Nat /\ MaxMoves \in Nat
    BY ConsoleAssumption
  <2>2. issued \in 0 .. MaxSessions /\ moves \in 0 .. MaxMoves
    BY <2>1 DEF Init
  <2>3. cookie \in 0 .. issued /\ session \in [Requests -> 0 .. issued]
    BY DEF Init
  <2>4. /\ up \in BOOLEAN /\ aged \in BOOLEAN /\ stopping \in BOOLEAN
        /\ live \in SUBSET (1 .. issued) /\ lock \in Requests \cup {None}
        /\ handler \in [Requests -> Handlers \cup {0}]
        /\ refusals \in Nat
        /\ pc \in [Requests ->
                     {"idle", "session", "login", "answer", "send", "wait", "refused"}]
    BY DEF Init
  <2> QED
    BY <2>2, <2>3, <2>4 DEF SessionsTyped
<1>3. Locked
  BY ConsoleAssumption DEF Init, Locked
<1>4. Doomed = {}
  BY DEF Init, Doomed
<1>5. Counted
  BY <1>4, DoomedBound, FS_EmptySet DEF Init, Counted
<1> QED
  BY <1>1, <1>2, <1>3, <1>5 DEF Inv, SessionsInv

LEMMA SettingsStutter ==
  ASSUME SettingsInv, UNCHANGED settingsVars
  PROVE  SettingsInv'
<1>1. UNCHANGED <<rows, todo, cacheVars, quiet>>
  BY DEF settingsVars
<1>2. todo' \in [Handlers -> Changes \cup {None}]
  BY <1>1 DEF SettingsInv, SettingsTypeOK
<1> QED
  BY <1>1, <1>2, TodoKept

LEMMA StepInv ==
  ASSUME Inv, Next
  PROVE  Inv'
<1> USE DEF Inv
<1>1. ASSUME NEW r \in Requests, Arrive(r)
      PROVE  Inv'
  BY <1>1, ArriveKept, SettingsStutter DEF Arrive
<1>2. ASSUME NEW r \in Requests, TakeSession(r)
      PROVE  Inv'
  BY <1>2, TakeSessionKept, SettingsStutter DEF TakeSession
<1>3. ASSUME NEW r \in Requests, GatewayLogsIn(r)
      PROVE  Inv'
  BY <1>3, GatewayLogsInKept, SettingsStutter DEF GatewayLogsIn
<1>4. ASSUME NEW r \in Requests, KeepSession(r)
      PROVE  Inv'
  BY <1>4, KeepSessionKept, SettingsStutter DEF KeepSession
<1>5. ASSUME NEW r \in Requests, LoginFails(r)
      PROVE  Inv'
  BY <1>5, LoginFailsKept, SettingsStutter DEF LoginFails
<1>6. ASSUME NEW r \in Requests, Refused(r)
      PROVE  Inv'
  BY <1>6, RefusedKept, SettingsStutter DEF Refused
<1>7. ASSUME NEW r \in Requests, HandleRefusal(r)
      PROVE  Inv'
  BY <1>7, HandleRefusalKept, SettingsStutter DEF HandleRefusal
<1>8. ASSUME NEW r \in Requests, RequestFails(r)
      PROVE  Inv'
  <2>1. pc[r] \notin {"login", "answer"}
    BY <1>8 DEF RequestFails
  <2> QED
    BY <1>8, <2>1, ReplyKept, SettingsStutter DEF RequestFails
<1>9. ASSUME NEW r \in Requests, NEW h \in Handlers, NEW change \in Bodies, Accepted(r, h, change)
      PROVE  Inv'
  <2>1. change \in Changes
    BY ConsoleAssumption
  <2> QED
    BY <1>9, <2>1, AcceptedKept, PutKept DEF Accepted
<1>10. ASSUME NEW h \in Handlers, HandlerReturns(h)
       PROVE  Inv'
  BY <1>10, HandlerReturnsKept, FreeKept DEF HandlerReturns
<1>11. ASSUME NEW moved \in BOOLEAN, GatewayStarts(moved)
       PROVE  Inv'
  <2>1. moves' \in 0 .. MaxMoves
    BY <1>11, ConsoleAssumption DEF GatewayStarts, SessionsInv, SessionsTyped
  <2>2. /\ live' \subseteq live /\ (live' = live \/ refusals' = 0)
        /\ refusals' \in {0, refusals} /\ up' \in BOOLEAN
        /\ UNCHANGED <<cookie, aged, stopping, issued, lock, pc, session, handler>>
    BY <1>11 DEF GatewayStarts, sessionVars, requestVars
  <2>3. SessionsInv'
    BY <2>1, <2>2, GatewayKept DEF SessionsInv, SessionsTyped
  <2> QED
    BY <1>11, <2>3, SettingsStutter DEF GatewayStarts
<1>12. ASSUME NEW stopped \in BOOLEAN, GatewayEnds(stopped)
       PROVE  Inv'
  <2>1. /\ handler' = [r \in Requests |-> 0]
        /\ up' = FALSE /\ stopping' = stopped
        /\ UNCHANGED <<cookie, aged, lock, issued, live, moves, pc, session, refusals>>
    BY <1>12 DEF GatewayEnds
  <2>2. SessionsInv'
    BY <2>1, GatewayKept DEF SessionsInv, SessionsTyped
  <2> QED
    BY <1>12, <2>2, ForgetKept DEF GatewayEnds
<1>13. ASSUME ClearSession
       PROVE  Inv'
  <2>1. /\ cookie' = 0 /\ aged' = FALSE /\ stopping' = FALSE
        /\ UNCHANGED <<lock, up, issued, live, moves, pc, session, handler, refusals>>
    BY <1>13 DEF ClearSession, gatewayVars, requestVars
  <2>2. SessionsInv'
    BY <2>1, GatewayKept DEF SessionsInv, SessionsTyped
  <2> QED
    BY <1>13, <2>2, SettingsStutter DEF ClearSession
<1>14. ASSUME SessionAges
       PROVE  Inv'
  <2>1. /\ aged' = TRUE
        /\ UNCHANGED <<cookie, lock, stopping, up, issued, live, moves, pc, session, handler,
                        refusals>>
    BY <1>14 DEF SessionAges, gatewayVars, requestVars
  <2>2. SessionsInv'
    BY <2>1, GatewayKept DEF SessionsInv, SessionsTyped
  <2> QED
    BY <1>14, <2>2, SettingsStutter DEF SessionAges
<1>15. ASSUME NEW s \in live, SessionEnds(s)
       PROVE  Inv'
  <2>1. /\ live' \subseteq live /\ refusals' = 0
        /\ UNCHANGED <<cookie, aged, lock, stopping, up, issued, moves, pc, session, handler>>
    BY <1>15 DEF SessionEnds, sessionVars, requestVars
  <2>2. SessionsInv'
    BY <2>1, GatewayKept DEF SessionsInv, SessionsTyped
  <2> QED
    BY <1>15, <2>2, SettingsStutter DEF SessionEnds
<1>16. ASSUME Serving
       PROVE  Inv'
  <2>1. SettingsInv'
    BY <1>16, ReadPricesKept, ReadMultiplierKept, TickKept, WriteKept DEF Serving
  <2>2. UNCHANGED <<cookie, aged, lock, stopping, up, issued, live, moves, pc, session, handler,
                    refusals>>
    BY <1>16 DEF Serving, sessionVars, gatewayVars, requestVars
  <2>3. SessionsInv'
    BY <2>2, GatewayKept DEF SessionsInv, SessionsTyped
  <2> QED
    BY <2>1, <2>3
<1> QED
  BY <1>1, <1>2, <1>3, <1>4, <1>5, <1>6, <1>7, <1>8, <1>9, <1>10, <1>11, <1>12, <1>13,
     <1>14, <1>15, <1>16
  DEF Next

LEMMA StutterInv ==
  ASSUME Inv, UNCHANGED vars
  PROVE  Inv'
<1>1. /\ UNCHANGED settingsVars
      /\ UNCHANGED <<cookie, aged, lock, stopping, up, issued, live, moves, pc, session, handler,
                      refusals>>
  BY DEF vars, sessionVars, gatewayVars, requestVars
<1>2. SessionsInv'
  BY <1>1, GatewayKept DEF Inv, SessionsInv, SessionsTyped
<1> QED
  BY <1>1, <1>2, SettingsStutter DEF Inv

LEMMA Always == Spec => []Inv
<1>1. Inv /\ [Next]_vars => Inv'
  BY StepInv, StutterInv
<1> QED
  BY <1>1, InitInv, PTL DEF Spec

\* Every variable of the settings, the sessions and the gateway keeps to its
\* type, so that no session is accepted that was not issued, however requests,
\* logins, handlers, ends of the gateway and moves of its data overlap.
THEOREM ConsoleTypeCorrect == Spec => []ConsoleTypeOK
<1>1. Inv => ConsoleTypeOK
  BY DEF Inv, SettingsInv, SessionsInv, SessionsTyped, ConsoleTypeOK
<1> QED
  BY <1>1, Always, PTL

\* Once the rows have rested, and no read of them failed, for pricesTTL and the
\* longest reload, a log is charged by exactly the stored prices and factor,
\* for any number of writers that are cut off, fail or overlap.
THEOREM PricesSettle == Spec => []SettledPrices
<1>1. Inv => SettledPrices
  BY SettledNow DEF Inv
<1> QED
  BY <1>1, Always, PTL

\* After sessions have ended early the window sees at most one 401 for each of
\* its requests under way, for any number of them and of ends of sessions.
THEOREM RefusalsAreBounded == Spec => []RefusalsBounded
<1>1. ASSUME Inv
      PROVE  RefusalsBounded
  <2>1. Doomed \subseteq Requests
    BY DEF Doomed
  <2>2. Cardinality(Doomed) \in Nat /\ Cardinality(Requests) \in Nat
    BY <2>1, DoomedBound
  <2> QED
    BY <1>1, <2>2 DEF Inv, SessionsInv, SessionsTyped, Counted, RefusalsBounded
<1> QED
  BY <1>1, Always, PTL
=============================================================================
