---------------------------- MODULE Limits_proofs ---------------------------
(***************************************************************************)
(* Proofs about Limits, for any number of accounts and of goroutines that     *)
(* refresh, and any times.                                                   *)
(***************************************************************************)
EXTENDS Limits, FiniteSetTheorems, TLAPS

\* What a goroutine knows where it is.
Locals ==
  \A f \in Fetchers :
    /\ pc[f] = "idle" => spent[f] = 0
    /\ pc[f] # "idle" => target[f] \in Accounts
    /\ pc[f] = "have" => answer[f] # "none"

\* The time that fetching a set of accounts may take.
Fetches(S) == Cardinality(S) * FetchTimeout

\* What the loop's fetch under way may still take, and the whole round.
Busy == IF pc[Loop] = "idle" THEN 0 ELSE FetchTimeout - spent[Loop]
ToEnd == Fetches(round) + Busy

\* The next round starts at the ticker's next tick and not before this one ends.
ToStart == IF due THEN ToEnd ELSE Longer(ToEnd, ticker)

\* The time until the loop has an account's next snapshot, if it does not skip it.
ToVisit(a) ==
  IF pc[Loop] # "idle" /\ target[Loop] = a THEN Busy
  ELSE IF a \in round THEN ToEnd
  ELSE ToStart + Fetches(Accounts)

\* The loop has what it fetches behind it in this round.
OnRound == pc[Loop] # "idle" => target[Loop] \notin round

AgeInv == \A a \in Accounts : age[a] + ToVisit(a) <= Stalest

\* An account that shows room: how long it can have been barred, and how long
\* when the answer that says so is still on its way.
BarInv ==
  /\ \A a \in Accounts :
       /\ relay[a] = "open" => since[a] = 0
       /\ verdict[a] = "open" => since[a] <= age[a] + CallsTimeout
  /\ \A f \in Fetchers :
       pc[f] = "have" /\ answer[f] = "open" => since[target[f]] <= spent[f]

-----------------------------------------------------------------------------
(* Times.                                                                   *)

LEMMA FetchesNat ==
  ASSUME NEW S \in SUBSET Accounts
  PROVE  IsFiniteSet(S) /\ Cardinality(S) \in Nat /\ Fetches(S) \in Nat
<1>1. IsFiniteSet(S) /\ Cardinality(S) \in Nat
  BY FS_Subset, FS_CardinalityType, LimitsAssumption
<1>2. \A m, n \in Nat : m * n \in Nat
  OBVIOUS
<1>3. QED
  BY <1>1, <1>2, LimitsAssumption DEF Fetches

LEMMA OneFetchLess ==
  ASSUME NEW S \in SUBSET Accounts, NEW a \in S
  PROVE  Fetches(S \ {a}) = Fetches(S) - FetchTimeout
<1>1. Cardinality(S) \in Nat /\ Cardinality(S \ {a}) = Cardinality(S) - 1
  BY FetchesNat, FS_RemoveElement
<1>2. \A m, n \in Int : (m - 1) * n = m * n - n
  OBVIOUS
<1>3. QED
  BY <1>1, <1>2, LimitsAssumption DEF Fetches

LEMMA FewerFetches ==
  ASSUME NEW S \in SUBSET Accounts, NEW T \in SUBSET S
  PROVE  Fetches(T) <= Fetches(S)
<1>1. /\ Cardinality(S) \in Nat /\ Cardinality(T) \in Nat
      /\ Cardinality(T) <= Cardinality(S)
  BY FetchesNat, FS_Subset
<1>2. \A m, n, k \in Nat : m <= n => m * k <= n * k
  OBVIOUS
<1>3. QED
  BY <1>1, <1>2, LimitsAssumption DEF Fetches

LEMMA RoundWithout ==
  ASSUME NEW S \in SUBSET Accounts, NEW a \in Accounts, a \notin S
  PROVE  Fetches(S) <= Fetches(Accounts) - FetchTimeout
<1>1. Fetches(Accounts \ {a}) = Fetches(Accounts) - FetchTimeout
  BY OneFetchLess
<1>2. Fetches(S) <= Fetches(Accounts \ {a})
  BY FewerFetches
<1>3. QED
  BY <1>1, <1>2

LEMMA NoFetches == Fetches({}) = 0
<1>1. \A n \in Nat : 0 * n = 0
  OBVIOUS
<1>2. QED
  BY <1>1, FS_EmptySet, LimitsAssumption DEF Fetches

\* Stalest without the count of accounts.
LEMMA StalestIs ==
  /\ Fetches(Accounts) \in Nat
  /\ Stalest = TTL + Longer(Period, Fetches(Accounts) - FetchTimeout) + Fetches(Accounts)
  /\ Stalest \in Nat /\ MaxAge \in Nat
<1>1. Cardinality(Accounts) \in Nat /\ Fetches(Accounts) \in Nat
  BY FetchesNat
<1>2. \A m, n \in Int : (m - 1) * n = m * n - n
  OBVIOUS
<1>3. (Cardinality(Accounts) - 1) * FetchTimeout = Fetches(Accounts) - FetchTimeout
  BY <1>1, <1>2, LimitsAssumption DEF Fetches
<1>4. Stalest = TTL + Longer(Period, Fetches(Accounts) - FetchTimeout) + Fetches(Accounts)
  BY <1>3 DEF Stalest, Fetches
<1>5. Stalest \in Nat
  BY <1>1, <1>4, LimitsAssumption DEF Longer
<1>6. QED
  BY <1>1, <1>4, <1>5 DEF MaxAge

-----------------------------------------------------------------------------
(* Types.                                                                   *)

Typed == TypeOK /\ Locals

LEMMA TypedInit ==
  ASSUME Init
  PROVE  Typed
<1>1. TypeOK
  <2>1. MaxAge \in Nat /\ Period \in Nat \ {0} /\ FetchTimeout \in Nat /\ CallsTimeout \in Nat
    BY StalestIs, LimitsAssumption
  <2>2. since \in [Accounts -> 0 .. MaxAge] /\ age \in [Accounts -> 0 .. MaxAge]
    BY <2>1 DEF Init
  <2>3. /\ ticker \in 1 .. Period
        /\ spent \in [Fetchers -> 0 .. CallsTimeout] /\ spent[Loop] <= FetchTimeout
    BY <2>1 DEF Init, Fetchers
  <2>4. QED
    BY <2>2, <2>3 DEF Init, TypeOK
<1>2. Locals
  BY DEF Init, Locals
<1>3. QED
  BY <1>1, <1>2 DEF Typed

LEMMA GrowTyped ==
  ASSUME NEW n \in 0 .. MaxAge, NEW grows \in BOOLEAN
  PROVE  /\ Grow(n, grows) \in 0 .. MaxAge
         /\ Grow(n, grows) <= n + 1
         /\ Grow(n, grows) >= n
         /\ ~grows => Grow(n, grows) = n
BY StalestIs DEF Grow

LEMMA TypedStep ==
  ASSUME Typed, Next
  PROVE  Typed'
<1> USE DEF Typed
<1>1. ASSUME NEW f \in Fetchers, NEW a \in Accounts, NEW force \in BOOLEAN,
             StartFetch(f, a, force), round' \in SUBSET Accounts
      PROVE  Typed'
  BY <1>1 DEF StartFetch, TypeOK, Locals, relayVars, snapVars
<1>2. ASSUME NEW f \in Fetchers, RelayAnswers(f)
      PROVE  Typed'
  BY <1>2 DEF RelayAnswers, TypeOK, Locals, relayVars, snapVars, loopVars
<1>3. ASSUME NEW f \in Fetchers, FetchFails(f)
      PROVE  Typed'
  BY <1>3, LimitsAssumption DEF FetchFails, Idle, TypeOK, Locals, relayVars, snapVars, loopVars
<1>4. ASSUME NEW f \in Fetchers, Apply(f)
      PROVE  Typed'
  <2>1. age' \in [Accounts -> 0 .. MaxAge] /\ verdict' \in [Accounts -> {"none", "open", "barred"}]
    BY <1>4, StalestIs DEF Apply, TypeOK, Locals
  <2>2. QED
    BY <1>4, <2>1, LimitsAssumption DEF Apply, Idle, TypeOK, Locals, relayVars, loopVars
<1>5. ASSUME LoopStep
      PROVE  Typed'
  <2>1. ASSUME NEW a \in Accounts, LoopRefreshes(a)
        PROVE  Typed'
    BY <1>1, <2>1 DEF LoopRefreshes, TypeOK, Fetchers
  <2>2. ASSUME NEW a \in Accounts, LoopSkips(a)
        PROVE  Typed'
    BY <2>2 DEF LoopSkips, TypeOK, Locals, relayVars, snapVars, fetchVars
  <2>3. ASSUME RoundStarts
        PROVE  Typed'
    BY <2>3 DEF RoundStarts, TypeOK, Locals, relayVars, snapVars, fetchVars
  <2>4. QED
    BY <1>5, <2>1, <2>2, <2>3 DEF LoopStep
<1>6. ASSUME NEW a \in Accounts, Bar(a)
      PROVE  Typed'
  BY <1>6 DEF Bar, TypeOK, Locals, snapVars, loopVars, fetchVars
<1>7. ASSUME Tick
      PROVE  Typed'
  <2>1. age' \in [Accounts -> 0 .. MaxAge] /\ since' \in [Accounts -> 0 .. MaxAge]
    BY <1>7, GrowTyped DEF Tick, TypeOK
  <2>2. spent' \in [Fetchers -> 0 .. CallsTimeout] /\ spent'[Loop] <= FetchTimeout
    BY <1>7, LimitsAssumption DEF Tick, TypeOK, InTime, Deadline, Fetchers
  <2>3. ticker' \in 1 .. Period /\ due' \in BOOLEAN
    BY <1>7, LimitsAssumption DEF Tick, TypeOK
  <2>4. Locals'
    BY <1>7 DEF Tick, Locals
  <2>5. QED
    BY <1>7, <2>1, <2>2, <2>3, <2>4 DEF Tick, TypeOK
<1>8. ASSUME NEW f \in Others, NEW a \in Accounts, NEW force \in BOOLEAN,
             OtherRefreshes(f, a, force)
      PROVE  Typed'
  BY <1>1, <1>8 DEF OtherRefreshes, TypeOK, Fetchers
<1>9. QED
  BY <1>2, <1>3, <1>4, <1>5, <1>6, <1>7, <1>8 DEF Next

LEMMA LimitsTyped == Spec => []Typed
<1>1. Init => Typed
  BY TypedInit
<1>2. Typed /\ [Next]_vars => Typed'
  <2>1. Typed /\ UNCHANGED vars => Typed'
    BY DEF Typed, TypeOK, Locals, vars
  <2>2. QED
    BY <2>1, TypedStep
<1>3. QED
  BY <1>1, <1>2, PTL DEF Spec

\* Every variable keeps its type (pool.go, Entry.limits and the loop's locals).
THEOREM LimitsTypeCorrect == Spec => []TypeOK
<1>1. Typed => TypeOK
  BY DEF Typed
<1>2. QED
  BY <1>1, LimitsTyped, PTL

-----------------------------------------------------------------------------
(* A bar, and how old what says otherwise can be.                           *)

LEMMA BarStep ==
  ASSUME Typed, BarInv, Next
  PROVE  BarInv'
<1> USE DEF Typed
<1>1. ASSUME NEW f \in Fetchers, RelayAnswers(f)
      PROVE  BarInv'
  BY <1>1, LimitsAssumption
     DEF RelayAnswers, BarInv, TypeOK, Locals, relayVars, snapVars, loopVars
<1>2. ASSUME NEW f \in Fetchers, FetchFails(f)
      PROVE  BarInv'
  BY <1>2 DEF FetchFails, Idle, BarInv, TypeOK, relayVars, snapVars, loopVars
<1>3. ASSUME NEW f \in Fetchers, Apply(f)
      PROVE  BarInv'
  <2>1. relay' = relay /\ since' = since
    BY <1>3 DEF Apply, relayVars
  <2>2. target[f] \in Accounts
    BY <1>3 DEF Apply, Locals
  <2>3. ASSUME NEW a \in Accounts, verdict'[a] = "open"
        PROVE  since'[a] <= age'[a] + CallsTimeout
    <3>1. CASE a = target[f]
      <4>1. answer[f] = "open" /\ age'[a] = 0
        BY <1>3, <2>2, <2>3, <3>1 DEF Apply, TypeOK
      <4>2. since[a] <= spent[f] /\ spent[f] <= CallsTimeout
        BY <1>3, <3>1, <4>1 DEF Apply, BarInv, TypeOK
      <4>3. QED
        BY <2>1, <4>1, <4>2, LimitsAssumption DEF TypeOK
    <3>2. CASE a # target[f]
      BY <1>3, <2>1, <2>3, <3>2 DEF Apply, BarInv, TypeOK
    <3>3. QED
      BY <3>1, <3>2
  <2>4. \A g \in Fetchers :
          pc'[g] = "have" /\ answer'[g] = "open" => since'[target'[g]] <= spent'[g]
    BY <1>3, <2>1 DEF Apply, Idle, BarInv, TypeOK
  <2>5. QED
    BY <2>1, <2>3, <2>4 DEF BarInv
<1>4. ASSUME NEW f \in Fetchers, NEW a \in Accounts, NEW force \in BOOLEAN,
             StartFetch(f, a, force)
      PROVE  BarInv'
  BY <1>4 DEF StartFetch, BarInv, TypeOK, relayVars, snapVars
<1>5. ASSUME LoopStep
      PROVE  BarInv'
  <2>1. Loop \in Fetchers
    BY DEF Fetchers
  <2>2. ASSUME NEW a \in Accounts, LoopSkips(a)
        PROVE  BarInv'
    BY <2>2 DEF LoopSkips, BarInv, relayVars, snapVars, fetchVars
  <2>3. ASSUME RoundStarts
        PROVE  BarInv'
    BY <2>3 DEF RoundStarts, BarInv, relayVars, snapVars, fetchVars
  <2>4. QED
    BY <1>4, <1>5, <2>1, <2>2, <2>3 DEF LoopStep, LoopRefreshes
<1>6. ASSUME NEW a \in Accounts, Bar(a)
      PROVE  BarInv'
  BY <1>6 DEF Bar, BarInv, TypeOK, snapVars, loopVars, fetchVars
<1>7. ASSUME Tick
      PROVE  BarInv'
  <2>1. ASSUME NEW a \in Accounts
        PROVE  /\ relay'[a] = "open" => since'[a] = 0
               /\ verdict'[a] = "open" => since'[a] <= age'[a] + CallsTimeout
    <3>1. /\ since'[a] = Grow(since[a], relay[a] = "barred")
          /\ age'[a] = Grow(age[a], verdict[a] # "none")
          /\ relay' = relay /\ verdict' = verdict
      BY <1>7 DEF Tick
    <3>2. since[a] \in 0 .. MaxAge /\ age[a] \in 0 .. MaxAge /\ MaxAge \in Nat /\ CallsTimeout \in Nat
      BY StalestIs, LimitsAssumption DEF TypeOK
    <3>3. /\ relay[a] = "open" => since[a] = 0
          /\ verdict[a] = "open" => since[a] <= age[a] + CallsTimeout
      BY DEF BarInv
    <3>4. QED
      BY <3>1, <3>2, <3>3 DEF Grow
  <2>2. ASSUME NEW f \in Fetchers, pc'[f] = "have", answer'[f] = "open"
        PROVE  since'[target'[f]] <= spent'[f]
    <3>1. target[f] \in Accounts /\ since[target[f]] <= spent[f] /\ target'[f] = target[f]
      BY <1>7, <2>2 DEF Tick, BarInv, Locals
    <3>2. spent'[f] = spent[f] + 1
      BY <1>7, <2>2 DEF Tick
    <3>3. spent[f] \in Nat /\ since[target[f]] \in 0 .. MaxAge /\ MaxAge \in Nat
      BY <3>1, LimitsAssumption, StalestIs DEF TypeOK
    <3>4. since'[target[f]] \in Nat /\ since'[target[f]] <= since[target[f]] + 1
      BY <1>7, <3>1, <3>3 DEF Tick, Grow
    <3>5. QED
      BY <3>1, <3>2, <3>3, <3>4
  <2>3. QED
    BY <2>1, <2>2 DEF BarInv
<1>8. QED
  BY <1>1, <1>2, <1>3, <1>4, <1>5, <1>6, <1>7 DEF Next, OtherRefreshes, Fetchers

\* However answers overtake each other between the fetch and its installation
\* under the entry's lock (pool.go:429 to 444), an account that shows room was
\* not barred longer than one fetch before the snapshot's stamp.
THEOREM LimitsOpenIsRecent == Spec => []OpenIsRecent
<1>1. Init => BarInv
  BY StalestIs, LimitsAssumption DEF Init, BarInv
<1>2. Typed /\ BarInv /\ [Next]_vars => BarInv'
  <2>1. BarInv /\ UNCHANGED vars => BarInv'
    BY DEF BarInv, vars
  <2>2. QED
    BY <2>1, BarStep
<1>3. BarInv => OpenIsRecent
  BY DEF BarInv, OpenIsRecent
<1>4. QED
  BY <1>1, <1>2, <1>3, LimitsTyped, PTL DEF Spec

-----------------------------------------------------------------------------
(* The loop's rounds.                                                       *)

\* The loop's visit comes in time, wherever the loop is.
LEMMA VisitBounded ==
  ASSUME Typed, OnRound, NEW a \in Accounts
  PROVE  /\ ToEnd \in Nat /\ Busy \in 0 .. FetchTimeout
         /\ ToStart \in Nat /\ ToStart >= ToEnd
         /\ ToVisit(a) \in Nat
         /\ ToVisit(a) <= Longer(Period, Fetches(Accounts) - FetchTimeout) + Fetches(Accounts)
<1> DEFINE all == Fetches(Accounts)
           here == Fetches(round)
<1>1. Loop \in Fetchers /\ round \in SUBSET Accounts
  BY DEF Typed, TypeOK, Fetchers
<1>2. all \in Nat /\ here \in Nat /\ FetchTimeout \in Nat \ {0} /\ here <= all
  BY <1>1, FetchesNat, FewerFetches, LimitsAssumption
<1>3. Busy \in 0 .. FetchTimeout /\ (pc[Loop] = "idle" => Busy = 0)
  BY <1>1, LimitsAssumption DEF Busy, Typed, TypeOK
<1>4. ticker \in 1 .. Period /\ Period \in Nat
  BY LimitsAssumption DEF Typed, TypeOK
<1>5. ToEnd = here + Busy
  BY DEF ToEnd
<1>6. ToStart \in Nat /\ ToStart >= ToEnd /\ (ToStart = ToEnd \/ ToStart = ticker)
  BY <1>2, <1>3, <1>4, <1>5 DEF ToStart, Longer
<1>7. \A b \in Accounts : b \notin round => here <= all - FetchTimeout
  BY <1>1, RoundWithout
<1>8. pc[Loop] # "idle" => target[Loop] \in Accounts /\ target[Loop] \notin round
  BY <1>1 DEF OnRound, Typed, Locals
<1>9. CASE pc[Loop] # "idle" /\ target[Loop] = a
  <2>1. ToVisit(a) = Busy /\ FetchTimeout <= all
    BY <1>2, <1>7, <1>8, <1>9 DEF ToVisit
  <2>2. Longer(Period, all - FetchTimeout) \in Nat
    BY <1>2, <1>4, <2>1 DEF Longer
  <2>3. QED
    BY <1>2, <1>3, <1>5, <1>6, <2>1, <2>2
<1>10. CASE ~(pc[Loop] # "idle" /\ target[Loop] = a) /\ a \in round
  <2>1. ToVisit(a) = ToEnd
    BY <1>10 DEF ToVisit
  <2>2. ToEnd <= all
    BY <1>2, <1>3, <1>5, <1>7, <1>8
  <2>3. Longer(Period, all - FetchTimeout) \in Int /\ Longer(Period, all - FetchTimeout) >= 0
    BY <1>2, <1>4 DEF Longer
  <2>4. QED
    BY <1>2, <1>3, <1>5, <1>6, <2>1, <2>2, <2>3
<1>11. CASE ~(pc[Loop] # "idle" /\ target[Loop] = a) /\ a \notin round
  <2>1. ToVisit(a) = ToStart + all
    BY <1>11 DEF ToVisit
  <2>2. ToEnd <= all - FetchTimeout
    <3>1. CASE pc[Loop] = "idle"
      BY <1>2, <1>3, <1>5, <1>7, <1>11, <3>1
    <3>2. CASE pc[Loop] # "idle"
      <4>1. a # target[Loop] /\ target[Loop] \in Accounts \ {a}
        BY <1>8, <1>11, <3>2
      <4>2. Fetches(Accounts \ {a}) = all - FetchTimeout
        BY OneFetchLess
      <4>3. Fetches((Accounts \ {a}) \ {target[Loop]}) = Fetches(Accounts \ {a}) - FetchTimeout
        BY <4>1, OneFetchLess
      <4>4. here <= Fetches((Accounts \ {a}) \ {target[Loop]})
        BY <1>1, <1>8, <1>11, <3>2, FewerFetches
      <4>5. QED
        BY <1>2, <1>3, <1>5, <4>2, <4>3, <4>4
    <3>3. QED
      BY <3>1, <3>2
  <2>3. ToStart <= Longer(Period, all - FetchTimeout)
    BY <1>2, <1>4, <1>5, <1>6, <2>2 DEF Longer
  <2>4. Longer(Period, all - FetchTimeout) \in Int
    BY <1>2, <1>4 DEF Longer
  <2>5. QED
    BY <1>2, <1>3, <1>5, <1>6, <2>1, <2>3, <2>4
<1>12. QED
  BY <1>9, <1>10, <1>11

\* A snapshot no older than limitsTTL has time enough.
LEMMA FreshInTime ==
  ASSUME Typed, OnRound, NEW a \in Accounts, NEW n \in Nat, n <= TTL
  PROVE  n + ToVisit(a) <= Stalest
<1>1. Longer(Period, Fetches(Accounts) - FetchTimeout) \in Int
  BY StalestIs, LimitsAssumption DEF Longer
<1>2. QED
  BY <1>1, VisitBounded, StalestIs, LimitsAssumption

\* A step that leaves the loop alone and makes no snapshot older.
LEMMA LoopRests ==
  ASSUME Typed, Typed', OnRound, AgeInv,
         UNCHANGED <<pc[Loop], target[Loop], spent[Loop], loopVars>>,
         \A a \in Accounts : age'[a] = age[a] \/ age'[a] = 0
  PROVE  AgeInv' /\ OnRound'
<1>1. Busy' = Busy /\ ToEnd' = ToEnd /\ ToStart' = ToStart
  BY DEF Busy, ToEnd, ToStart, loopVars, Fetches, Longer
<1>2. \A a \in Accounts : ToVisit(a)' = ToVisit(a)
  BY <1>1 DEF ToVisit, loopVars, Fetches
<1>3. OnRound'
  BY DEF OnRound, loopVars
<1>4. ASSUME NEW a \in Accounts
      PROVE  age'[a] + ToVisit(a)' <= Stalest
  <2>1. CASE age'[a] = 0
    BY <1>2, <2>1, FreshInTime, LimitsAssumption
  <2>2. CASE age'[a] = age[a]
    BY <1>2, <2>2 DEF AgeInv
  <2>3. QED
    BY <2>1, <2>2
<1>5. QED
  BY <1>3, <1>4 DEF AgeInv

\* A tick of time brings every visit one nearer.
LEMMA TickNears ==
  ASSUME Typed, OnRound, Tick, NEW a \in Accounts
  PROVE  ToVisit(a)' <= ToVisit(a) - 1 /\ ToVisit(a)' \in Int
<1>1. Loop \in Fetchers /\ Fetches(round) \in Nat /\ Fetches(Accounts) \in Nat
  BY FetchesNat DEF Typed, TypeOK, Fetchers
<1>2. /\ pc' = pc /\ target' = target /\ round' = round
      /\ ticker' = IF ticker = 1 THEN Period ELSE ticker - 1
      /\ due' <=> due \/ ticker = 1
  BY DEF Tick, Typed, TypeOK
<1>3. /\ ticker \in 1 .. Period /\ Period \in Nat /\ due \in BOOLEAN
      /\ spent[Loop] \in 0 .. FetchTimeout /\ FetchTimeout \in Nat
  BY <1>1, LimitsAssumption DEF Typed, TypeOK
<1>4. Fetches(round)' = Fetches(round) /\ Fetches(Accounts)' = Fetches(Accounts)
  BY <1>2 DEF Fetches
<1>5. CASE pc[Loop] # "idle"
  <2>1. spent'[Loop] = spent[Loop] + 1
    BY <1>1, <1>5 DEF Tick
  <2>2. Busy' = Busy - 1 /\ Busy \in Int
    BY <1>2, <1>3, <1>5, <2>1 DEF Busy
  <2>3. ToEnd' = ToEnd - 1 /\ ToEnd \in Int
    BY <1>1, <1>4, <2>2 DEF ToEnd
  <2>4. ToStart' <= ToStart - 1 /\ ToStart \in Int /\ ToStart' \in Int
    <3>1. /\ due' => ToStart' = ToEnd'
          /\ ~due' => ToStart' = Longer(ToEnd', ticker')
      BY DEF ToStart, Longer
    <3>2. CASE due
      BY <1>2, <2>3, <3>1, <3>2 DEF ToStart
    <3>3. CASE ~due /\ ticker = 1
      BY <1>2, <2>3, <3>1, <3>3 DEF ToStart, Longer
    <3>4. CASE ~due /\ ticker # 1
      BY <1>2, <1>3, <2>3, <3>1, <3>4 DEF ToStart, Longer
    <3>5. QED
      BY <1>3, <3>2, <3>3, <3>4
  <2>5. ToVisit(a)' = IF target[Loop] = a THEN Busy'
                      ELSE IF a \in round THEN ToEnd' ELSE ToStart' + Fetches(Accounts)
    BY <1>2, <1>4, <1>5 DEF ToVisit
  <2>6. ToVisit(a) = IF target[Loop] = a THEN Busy
                     ELSE IF a \in round THEN ToEnd ELSE ToStart + Fetches(Accounts)
    BY <1>5 DEF ToVisit
  <2>7. QED
    BY <1>1, <2>2, <2>3, <2>4, <2>5, <2>6
<1>6. CASE pc[Loop] = "idle"
  <2>1. round = {} /\ due = FALSE
    BY <1>3, <1>6 DEF Tick, LoopResting
  <2>2. ToEnd = 0 /\ ToEnd' = 0
    BY <1>2, <1>4, <1>6, <2>1, NoFetches DEF ToEnd, Busy
  <2>3. ToStart = ticker /\ ToStart' = ticker - 1
    <3>1. ToStart = Longer(0, ticker)
      BY <2>1, <2>2 DEF ToStart
    <3>2. CASE ticker = 1
      BY <1>2, <1>3, <2>2, <3>1, <3>2 DEF ToStart, Longer
    <3>3. CASE ticker # 1
      BY <1>2, <1>3, <2>1, <2>2, <3>1, <3>3 DEF ToStart, Longer
    <3>4. QED
      BY <3>2, <3>3
  <2>4. ToVisit(a) = ToStart + Fetches(Accounts) /\ ToVisit(a)' = ToStart' + Fetches(Accounts)
    BY <1>2, <1>4, <1>6, <2>1 DEF ToVisit
  <2>5. QED
    BY <1>1, <1>3, <2>3, <2>4
<1>7. QED
  BY <1>5, <1>6

LEMMA AgeTick ==
  ASSUME Typed, Typed', OnRound, AgeInv, Tick
  PROVE  AgeInv' /\ OnRound'
<1>1. OnRound'
  BY DEF Tick, OnRound
<1>2. ASSUME NEW a \in Accounts
      PROVE  age'[a] + ToVisit(a)' <= Stalest
  <2>1. age[a] \in Nat /\ age'[a] \in Nat /\ age'[a] <= age[a] + 1
    <3>1. age[a] \in 0 .. MaxAge /\ MaxAge \in Nat
      BY StalestIs DEF Typed, TypeOK
    <3>2. QED
      BY <3>1 DEF Tick, Grow
  <2>2. ToVisit(a)' <= ToVisit(a) - 1 /\ ToVisit(a) \in Nat /\ ToVisit(a)' \in Int
    BY TickNears, VisitBounded
  <2>3. age[a] + ToVisit(a) <= Stalest
    BY DEF AgeInv
  <2>4. QED
    BY <2>1, <2>2, <2>3, StalestIs
<1>3. QED
  BY <1>1, <1>2 DEF AgeInv

\* The loop turns to an account: it fetches or, if the snapshot is fresh, goes on.
LEMMA AgeLoop ==
  ASSUME Typed, Typed', OnRound, AgeInv, LoopStep
  PROVE  AgeInv' /\ OnRound'
<1>1. Loop \in Fetchers /\ pc[Loop] = "idle" /\ round \in SUBSET Accounts
  BY DEF LoopStep, LoopRefreshes, LoopSkips, RoundStarts, StartFetch, Typed, TypeOK, Fetchers
<1>2. /\ spent[Loop] = 0 /\ Fetches(round) \in Nat /\ Fetches(Accounts) \in Nat
      /\ FetchTimeout \in Nat /\ Period \in Nat /\ ticker \in 1 .. Period
  BY <1>1, FetchesNat, LimitsAssumption DEF Typed, Locals, TypeOK
<1>3. age' = age /\ spent' = spent /\ ticker' = ticker
  BY DEF LoopStep, LoopRefreshes, LoopSkips, RoundStarts, StartFetch, snapVars, fetchVars
<1>4. ToEnd = Fetches(round)
  BY <1>1, <1>2 DEF ToEnd, Busy
<1>5. \A a \in Accounts : ToVisit(a) = IF a \in round THEN ToEnd ELSE ToStart + Fetches(Accounts)
  BY <1>1 DEF ToVisit
<1>6. Fetches(Accounts)' = Fetches(Accounts)
  BY DEF Fetches
<1>7. ASSUME NEW b \in Accounts, LoopRefreshes(b)
      PROVE  AgeInv' /\ OnRound'
  <2>1. pc'[Loop] = "fetch" /\ target'[Loop] = b /\ round' = round \ {b} /\ b \in round /\ due' = due
    BY <1>1, <1>7 DEF LoopRefreshes, StartFetch, Typed, TypeOK
  <2>2. Fetches(round)' = Fetches(round) - FetchTimeout /\ Fetches(round)' \in Nat
    <3>1. Fetches(round \ {b}) = Fetches(round) - FetchTimeout /\ Fetches(round \ {b}) \in Nat
      BY <1>1, <2>1, OneFetchLess, FetchesNat
    <3>2. QED
      BY <2>1, <3>1 DEF Fetches
  <2>3. Busy' = FetchTimeout
    BY <1>2, <1>3, <2>1 DEF Busy
  <2>4. ToEnd' = ToEnd
    BY <1>2, <1>4, <2>2, <2>3 DEF ToEnd
  <2>5. ToStart' = ToStart
    BY <1>3, <2>1, <2>4 DEF ToStart, Longer
  <2>6. OnRound'
    BY <2>1 DEF OnRound
  <2>7. ASSUME NEW a \in Accounts
        PROVE  age'[a] + ToVisit(a)' <= Stalest
    <3>1. age[a] + ToVisit(a) <= Stalest /\ age[a] \in Nat
      BY StalestIs DEF AgeInv, Typed, TypeOK
    <3>2. CASE a = b
      <4>1. ToVisit(a)' = FetchTimeout /\ ToVisit(a) = Fetches(round)
        BY <1>4, <1>5, <2>1, <2>3, <3>2 DEF ToVisit
      <4>2. QED
        BY <1>2, <1>3, <2>2, <3>1, <4>1, StalestIs
    <3>3. CASE a # b
      <4>1. ToVisit(a)' = ToVisit(a)
        BY <1>5, <1>6, <2>1, <2>4, <2>5, <3>3 DEF ToVisit
      <4>2. QED
        BY <1>3, <3>1, <4>1
    <3>4. QED
      BY <3>2, <3>3
  <2>8. QED
    BY <2>6, <2>7 DEF AgeInv
<1>8. ASSUME NEW b \in Accounts, LoopSkips(b)
      PROVE  AgeInv' /\ OnRound'
  <2>1. pc' = pc /\ target' = target /\ round' = round \ {b} /\ b \in round /\ due' = due /\ Fresh(b)
    BY <1>8 DEF LoopSkips, fetchVars
  <2>2. Fetches(round)' \in Nat /\ Fetches(round)' <= Fetches(round)
    <3>1. Fetches(round \ {b}) <= Fetches(round) /\ Fetches(round \ {b}) \in Nat
      BY <1>1, <2>1, FewerFetches, FetchesNat
    <3>2. QED
      BY <2>1, <3>1 DEF Fetches
  <2>3. ToEnd' = Fetches(round)'
    BY <1>1, <2>1, <2>2 DEF ToEnd, Busy
  <2>4. ToStart \in Nat /\ ToStart' \in Nat /\ ToStart' <= ToStart
    <3>1. /\ due => ToStart = ToEnd /\ ToStart' = ToEnd'
          /\ ~due => ToStart = Longer(ToEnd, ticker) /\ ToStart' = Longer(ToEnd', ticker)
      BY <1>3, <2>1 DEF ToStart, Longer
    <3>2. QED
      BY <1>2, <1>4, <2>2, <2>3, <3>1 DEF Longer
  <2>5. OnRound'
    BY <1>1, <2>1 DEF OnRound
  <2>6. ASSUME NEW a \in Accounts
        PROVE  age'[a] + ToVisit(a)' <= Stalest
    <3>1. age[a] + ToVisit(a) <= Stalest /\ age[a] \in Nat
      BY StalestIs DEF AgeInv, Typed, TypeOK
    <3>2. CASE a = b
      <4>1. ToVisit(a)' = ToStart' + Fetches(Accounts)
        BY <1>1, <1>6, <2>1, <3>2 DEF ToVisit
      <4>2. age[a] <= TTL
        BY <2>1, <3>2 DEF Fresh
      <4>3. ToStart' <= Longer(Period, Fetches(Accounts) - FetchTimeout)
        <5>1. Fetches(round \ {b}) <= Fetches(Accounts) - FetchTimeout
          BY <1>1, RoundWithout
        <5>2. ToEnd' <= Fetches(Accounts) - FetchTimeout
          BY <2>1, <2>3, <5>1 DEF Fetches
        <5>3. ToStart' = ToEnd' \/ ToStart' = Longer(ToEnd', ticker)
          BY <1>3 DEF ToStart, Longer
        <5>4. QED
          BY <1>2, <2>2, <2>3, <5>2, <5>3 DEF Longer
      <4>4. Longer(Period, Fetches(Accounts) - FetchTimeout) \in Int
        BY <1>2 DEF Longer
      <4>5. QED
        BY <1>2, <1>3, <2>4, <3>1, <4>1, <4>2, <4>3, <4>4, StalestIs, LimitsAssumption
    <3>3. CASE a # b
      <4>1. ToVisit(a)' = IF a \in round THEN ToEnd' ELSE ToStart' + Fetches(Accounts)
        BY <1>1, <1>6, <2>1, <3>3 DEF ToVisit
      <4>2. QED
        BY <1>2, <1>3, <1>4, <1>5, <2>2, <2>3, <2>4, <3>1, <4>1, StalestIs
    <3>4. QED
      BY <3>2, <3>3
  <2>7. QED
    BY <2>5, <2>6 DEF AgeInv
<1>9. ASSUME RoundStarts
      PROVE  AgeInv' /\ OnRound'
  <2>1. pc' = pc /\ target' = target /\ round = {} /\ round' = Accounts /\ due
    BY <1>9 DEF RoundStarts, fetchVars
  <2>2. ToEnd' = Fetches(Accounts) /\ ToStart = 0
    BY <1>1, <1>2, <1>4, <2>1, NoFetches DEF ToEnd, Busy, Fetches, ToStart
  <2>3. OnRound'
    BY <1>1, <2>1 DEF OnRound
  <2>4. ASSUME NEW a \in Accounts
        PROVE  age'[a] + ToVisit(a)' <= Stalest
    <3>1. age[a] + ToVisit(a) <= Stalest
      BY DEF AgeInv
    <3>2. ToVisit(a)' = Fetches(Accounts) /\ ToVisit(a) = Fetches(Accounts)
      BY <1>1, <1>2, <1>5, <2>1, <2>2 DEF ToVisit
    <3>3. QED
      BY <1>3, <3>1, <3>2
  <2>5. QED
    BY <2>3, <2>4 DEF AgeInv
<1>10. QED
  BY <1>7, <1>8, <1>9 DEF LoopStep

\* The loop has its snapshot.
LEMMA AgeApply ==
  ASSUME Typed, Typed', OnRound, AgeInv, Apply(Loop)
  PROVE  AgeInv' /\ OnRound'
<1>1. Loop \in Fetchers /\ pc[Loop] = "have" /\ target[Loop] \in Accounts /\ round \in SUBSET Accounts
  BY DEF Apply, Typed, TypeOK, Locals, Fetchers
<1>2. pc'[Loop] = "idle" /\ loopVars' = loopVars
  BY <1>1 DEF Apply, Idle, Typed, TypeOK
<1>3. Fetches(round) \in Nat /\ Fetches(Accounts) \in Nat /\ Busy \in 0 .. FetchTimeout
  BY <1>1, FetchesNat, VisitBounded
<1>4. FetchTimeout \in Nat /\ Period \in Nat /\ ticker \in 1 .. Period
  BY LimitsAssumption DEF Typed, TypeOK
<1>5. ToEnd' = Fetches(round) /\ ToEnd = Fetches(round) + Busy
  BY <1>2, <1>3 DEF ToEnd, Busy, loopVars, Fetches
<1>6. ToStart \in Nat /\ ToStart' \in Nat /\ ToStart' <= ToStart
  <2>1. /\ due => ToStart = ToEnd /\ ToStart' = ToEnd'
        /\ ~due => ToStart = Longer(ToEnd, ticker) /\ ToStart' = Longer(ToEnd', ticker)
    BY <1>2 DEF ToStart, Longer, loopVars
  <2>2. QED
    BY <1>3, <1>4, <1>5, <2>1 DEF Longer
<1>7. OnRound'
  BY <1>2 DEF OnRound
<1>8. ASSUME NEW a \in Accounts
      PROVE  age'[a] + ToVisit(a)' <= Stalest
  <2>1. ToVisit(a)' = IF a \in round THEN ToEnd' ELSE ToStart' + Fetches(Accounts)
    BY <1>2 DEF ToVisit, loopVars, Fetches
  <2>2. CASE a = target[Loop]
    <3>1. age'[a] = 0 /\ a \notin round
      BY <1>1, <2>2 DEF Apply, Typed, TypeOK, OnRound
    <3>2. ToStart' <= Longer(Period, Fetches(Accounts) - FetchTimeout)
      <4>1. Fetches(round) <= Fetches(Accounts) - FetchTimeout
        BY <1>1, <3>1, RoundWithout
      <4>2. ToStart' = ToEnd' \/ ToStart' = Longer(ToEnd', ticker)
        BY <1>2 DEF ToStart, Longer, loopVars
      <4>3. QED
        BY <1>3, <1>4, <1>5, <4>1, <4>2 DEF Longer
    <3>3. Longer(Period, Fetches(Accounts) - FetchTimeout) \in Int
      BY <1>3, <1>4 DEF Longer
    <3>4. QED
      BY <1>3, <1>6, <2>1, <3>1, <3>2, <3>3, StalestIs, LimitsAssumption
  <2>3. CASE a # target[Loop]
    <3>1. age'[a] = age[a] /\ age[a] \in Nat /\ age[a] + ToVisit(a) <= Stalest
      BY <2>3, StalestIs DEF Apply, AgeInv, Typed, TypeOK
    <3>2. ToVisit(a) = IF a \in round THEN ToEnd ELSE ToStart + Fetches(Accounts)
      BY <2>3 DEF ToVisit
    <3>3. QED
      BY <1>3, <1>5, <1>6, <2>1, <3>1, <3>2, StalestIs
  <2>4. QED
    BY <2>2, <2>3
<1>9. QED
  BY <1>7, <1>8 DEF AgeInv

\* The loop's own fetches are answered in time.
LoopIsAnswered == Loop \notin Unlucky

LEMMA AgeStep ==
  ASSUME LoopIsAnswered, Typed, Typed', OnRound, AgeInv, Next
  PROVE  AgeInv' /\ OnRound'
<1>1. ASSUME NEW f \in Others, NEW a \in Accounts, NEW force \in BOOLEAN,
             OtherRefreshes(f, a, force)
      PROVE  AgeInv' /\ OnRound'
  <2>1. UNCHANGED <<pc[Loop], target[Loop], spent[Loop], loopVars>> /\ age' = age
    BY <1>1, LimitsAssumption
       DEF OtherRefreshes, StartFetch, loopVars, snapVars, Typed, TypeOK, Fetchers
  <2>2. QED
    BY <2>1, LoopRests
<1>2. ASSUME NEW f \in Fetchers, RelayAnswers(f)
      PROVE  AgeInv' /\ OnRound'
  <2>1. CASE f = Loop
    <3>1. (pc[Loop] # "idle") /\ (pc'[Loop] # "idle") /\ UNCHANGED <<target, spent, loopVars, age>>
      BY <1>2, <2>1 DEF RelayAnswers, snapVars, Typed, TypeOK
    <3>2. Busy' = Busy /\ ToEnd' = ToEnd /\ ToStart' = ToStart
      BY <3>1 DEF Busy, ToEnd, ToStart, loopVars, Fetches, Longer
    <3>3. \A a \in Accounts : ToVisit(a)' = ToVisit(a)
      BY <3>1, <3>2 DEF ToVisit, loopVars, Fetches
    <3>4. QED
      BY <3>1, <3>3 DEF AgeInv, OnRound, loopVars
  <2>2. CASE f # Loop
    <3>1. UNCHANGED <<pc[Loop], target[Loop], spent[Loop], loopVars>> /\ age' = age
      BY <1>2, <2>2 DEF RelayAnswers, snapVars, Typed, TypeOK
    <3>2. QED
      BY <3>1, LoopRests
  <2>3. QED
    BY <2>1, <2>2
<1>3. ASSUME NEW f \in Fetchers, FetchFails(f)
      PROVE  AgeInv' /\ OnRound'
  <2>1. f # Loop
    BY <1>3 DEF FetchFails, LoopIsAnswered
  <2>2. UNCHANGED <<pc[Loop], target[Loop], spent[Loop], loopVars>> /\ age' = age
    BY <1>3, <2>1 DEF FetchFails, Idle, snapVars, Typed, TypeOK
  <2>3. QED
    BY <2>2, LoopRests
<1>4. ASSUME NEW f \in Fetchers, Apply(f)
      PROVE  AgeInv' /\ OnRound'
  <2>1. CASE f = Loop
    BY <1>4, <2>1, AgeApply
  <2>2. CASE f # Loop
    <3>1. UNCHANGED <<pc[Loop], target[Loop], spent[Loop], loopVars>>
      BY <1>4, <2>2 DEF Apply, Idle, Typed, TypeOK
    <3>2. \A a \in Accounts : age'[a] = age[a] \/ age'[a] = 0
      BY <1>4 DEF Apply, Typed, TypeOK
    <3>3. QED
      BY <3>1, <3>2, LoopRests
  <2>3. QED
    BY <2>1, <2>2
<1>5. ASSUME NEW a \in Accounts, Bar(a)
      PROVE  AgeInv' /\ OnRound'
  <2>1. UNCHANGED <<pc[Loop], target[Loop], spent[Loop], loopVars>> /\ age' = age
    BY <1>5 DEF Bar, snapVars, fetchVars
  <2>2. QED
    BY <2>1, LoopRests
<1>6. QED
  BY <1>1, <1>2, <1>3, <1>4, <1>5, AgeLoop, AgeTick DEF Next

LEMMA AgeInit ==
  ASSUME Init
  PROVE  AgeInv /\ OnRound
<1>1. Typed /\ OnRound
  BY TypedInit DEF Init, OnRound, Fetchers
<1>2. \A a \in Accounts : age[a] = 0
  BY DEF Init
<1>3. QED
  BY <1>1, <1>2, FreshInTime, LimitsAssumption DEF AgeInv

\* With a relay that answers the loop, no snapshot outlives limitsTTL, a period
\* or a round, and the fetches of another round, whatever else refreshes it
\* and whatever of that fails (pool.go:419 and 449).
THEOREM LimitsAgeBounded ==
  ASSUME LoopIsAnswered
  PROVE  Spec => []AgeBounded
<1>1. Init => AgeInv /\ OnRound
  BY AgeInit
<1>2. Typed /\ Typed' /\ AgeInv /\ OnRound /\ [Next]_vars => (AgeInv /\ OnRound)'
  <2>1. AgeInv /\ OnRound /\ UNCHANGED vars => (AgeInv /\ OnRound)'
    BY DEF AgeInv, OnRound, vars, ToVisit, Busy, ToEnd, ToStart, Fetches, Longer
  <2>2. QED
    BY <2>1, AgeStep
<1>3. Typed /\ AgeInv /\ OnRound => AgeBounded
  <2> SUFFICES ASSUME Typed, AgeInv, OnRound, NEW a \in Accounts
               PROVE  age[a] <= Stalest
    BY DEF AgeBounded
  <2>1. age[a] \in Nat /\ age[a] + ToVisit(a) <= Stalest
    BY StalestIs DEF AgeInv, Typed, TypeOK
  <2>2. QED
    BY <2>1, VisitBounded, StalestIs
<1>4. QED
  BY <1>1, <1>2, <1>3, LimitsTyped, PTL DEF Spec
=============================================================================
