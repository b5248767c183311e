-------------------------- MODULE KeyLimits_proofs --------------------------
(***************************************************************************)
(* Proofs about KeyLimits, for any number of requests and handlers, any       *)
(* limits and any number of edits.                                           *)
(***************************************************************************)
EXTENDS KeyLimits, FiniteSetTheorems, WellFoundedInduction, TLAPS

\* The requests that hold a place in a channel.
Users(c) == {r \in InForward : slot[r] = c}

\* What a request knows where it is.
Locals ==
  \A r \in Requests :
    /\ pc[r] # "idle" => via[r] \in Handlers /\ snap[r] \in Caps
    /\ pc[r] \in {"idle", "limits"} => slot[r] = None
    /\ pc[r] \in {"wait"} \cup InSlot => slot[r] \in Channels

Inv == TypeOK /\ Locals /\ TokensConserved

-----------------------------------------------------------------------------
(* There is always an unused channel.                                       *)

LEMMA UsersFinite ==
  ASSUME NEW c
  PROVE  IsFiniteSet(Users(c)) /\ Cardinality(Users(c)) \in Nat
<1>1. Users(c) \in SUBSET Requests
  BY DEF Users, InForward
<1>2. IsFiniteSet(Users(c))
  BY <1>1, FS_Subset, KeyLimitsAssumption
<1>3. QED
  BY <1>2, FS_CardinalityType

\* Requests and handlers together cannot refer to all channels of a capacity.
LEMMA SomeUnused ==
  ASSUME TypeOK, NEW r \in Requests, slot[r] = None, NEW cap \in Caps
  PROVE  \E c \in Channels : capacity(c) = cap /\ Unused(c)
<1> DEFINE mine == {cap} \X Numbers
           mapped == {chan[h] : h \in Handlers}
           others == Requests \ {r}
           rest == [q \in others |-> slot[q]]
           referred == {slot[q] : q \in others}
<1>1. IsFiniteSet(mine) /\ Cardinality(mine) = Cardinality(Numbers)
  <2>1. IsFiniteSet({cap}) /\ Cardinality({cap}) = 1
    BY FS_Singleton
  <2>2. IsFiniteSet(mine) /\ Cardinality(mine) = Cardinality({cap}) * Cardinality(Numbers)
    BY <2>1, FS_Product, KeyLimitsAssumption
  <2>3. Cardinality(Numbers) \in Nat
    BY FS_CardinalityType, KeyLimitsAssumption
  <2>4. QED
    BY <2>1, <2>2, <2>3
<1>2. IsFiniteSet(mapped) /\ Cardinality(mapped) <= Cardinality(Handlers)
  <2>1. chan \in Surjection(Handlers, mapped)
    BY DEF TypeOK, Surjection
  <2>2. QED
    BY <2>1, FS_Surjection, KeyLimitsAssumption
<1>3. IsFiniteSet(others) /\ Cardinality(others) = Cardinality(Requests) - 1
  BY FS_RemoveElement, KeyLimitsAssumption
<1>4. IsFiniteSet(referred) /\ Cardinality(referred) <= Cardinality(others)
  <2>1. rest \in Surjection(others, referred)
    BY DEF Surjection
  <2>2. QED
    BY <1>3, <2>1, FS_Surjection
<1>5. IsFiniteSet(mapped \cup referred)
  BY <1>2, <1>4, FS_Union
<1>6. Cardinality(mapped \cup referred) <= Cardinality(mapped) + Cardinality(referred)
  <2>1. /\ Cardinality(mapped \cup referred)
             = Cardinality(mapped) + Cardinality(referred) - Cardinality(mapped \cap referred)
    BY <1>2, <1>4, FS_Union
  <2>2. IsFiniteSet(mapped \cap referred)
    BY <1>2, FS_Intersection
  <2>3. /\ Cardinality(mapped \cap referred) \in Nat /\ Cardinality(mapped) \in Nat
        /\ Cardinality(referred) \in Nat
    BY <1>2, <1>4, <2>2, FS_CardinalityType
  <2>4. QED
    BY <2>1, <2>3
<1>7. ~ mine \subseteq mapped \cup referred
  <2>1. mine \subseteq mapped \cup referred => Cardinality(mine) <= Cardinality(mapped \cup referred)
    BY <1>5, FS_Subset
  <2>2. /\ Cardinality(Requests) \in Nat /\ Cardinality(Handlers) \in Nat
        /\ Cardinality(Numbers) \in Nat /\ Cardinality(mapped) \in Nat
        /\ Cardinality(referred) \in Nat /\ Cardinality(mapped \cup referred) \in Nat
    BY <1>2, <1>4, <1>5, FS_CardinalityType, KeyLimitsAssumption
  <2>3. Cardinality(Numbers) >= Cardinality(Requests) + Cardinality(Handlers)
    BY KeyLimitsAssumption
  <2> HIDE DEF mine, mapped, others, referred
  <2>4. QED
    BY <1>1, <1>2, <1>3, <1>4, <1>6, <2>1, <2>2, <2>3
<1>8. PICK c \in mine : c \notin mapped /\ c \notin referred
  BY <1>7
<1>9. c \in Channels /\ capacity(c) = cap
  BY DEF Channels, capacity
<1>10. c # None
  BY <1>9, KeyLimitsAssumption
<1>11. \A h \in Handlers : chan[h] # c
  BY <1>8
<1>12. \A q \in Requests : slot[q] # c
  BY <1>8, <1>10
<1>13. QED
  BY <1>9, <1>11, <1>12 DEF Unused

LEMMA NewChannelEmpty ==
  ASSUME TypeOK, TokensConserved, NEW r \in Requests, slot[r] = None, NEW cap \in Caps
  PROVE  NewChannel(cap) \in Channels /\ taken[NewChannel(cap)] = 0
<1>1. PICK c \in Channels : capacity(c) = cap /\ Unused(c)
  BY SomeUnused
<1>2. Users(c) = {}
  BY <1>1 DEF Users, Unused, InForward
<1>3. taken[c] = 0
  BY <1>2, FS_EmptySet DEF TokensConserved, Users
<1>4. \E d \in Channels : Unused(d) /\ capacity(d) = cap /\ taken[d] = 0
  BY <1>1, <1>3
<1>5. QED
  BY <1>4 DEF NewChannel

-----------------------------------------------------------------------------
(* The tokens of a channel.                                                 *)

\* A step in which nobody takes or gives back a place.
LEMMA NobodyMoves ==
  ASSUME TokensConserved, taken' = taken,
         \A r \in Requests : /\ pc'[r] \in InSlot <=> pc[r] \in InSlot
                             /\ pc[r] \in InSlot => slot'[r] = slot[r]
  PROVE  TokensConserved'
<1>1. \A c \in Channels : Users(c)' = Users(c)
  BY DEF Users, InForward
<1>2. QED
  BY <1>1 DEF TokensConserved, Users

LEMMA SomebodyEnters ==
  ASSUME TypeOK, Locals, TokensConserved, NEW r \in Requests, TakeSlot(r)
  PROVE  TokensConserved'
<1>1. /\ pc[r] = "wait" /\ slot[r] \in Channels /\ slot' = slot
      /\ \A q \in Requests : q # r => pc'[q] = pc[q]
      /\ pc'[r] \in InSlot
  BY DEF TakeSlot, TypeOK, Locals, InSlot
<1> SUFFICES ASSUME NEW c \in Channels
             PROVE  taken'[c] = Cardinality(Users(c)') /\ taken'[c] <= capacity(c)
  BY DEF TokensConserved, Users
<1>2. taken[c] = Cardinality(Users(c)) /\ taken[c] <= capacity(c)
  BY DEF TokensConserved, Users
<1>3. taken[c] \in Nat /\ capacity(c) \in Nat
  BY KeyLimitsAssumption DEF TypeOK, Channels, capacity
<1>4. CASE c = slot[r]
  <2>1. Users(c)' = Users(c) \cup {r} /\ r \notin Users(c)
    BY <1>1, <1>4 DEF Users, InForward, InSlot
  <2>2. Cardinality(Users(c)') = Cardinality(Users(c)) + 1
    BY <2>1, UsersFinite, FS_AddElement
  <2>3. taken'[c] = taken[c] + 1 /\ taken[c] < capacity(c)
    BY <1>4 DEF TakeSlot, HasRoom, TypeOK
  <2>4. QED
    BY <1>2, <1>3, <2>2, <2>3
<1>5. CASE c # slot[r]
  <2>1. Users(c)' = Users(c)
    BY <1>1, <1>5 DEF Users, InForward, InSlot
  <2>2. taken'[c] = taken[c]
    BY <1>5 DEF TakeSlot, TypeOK
  <2>3. QED
    BY <1>2, <2>1, <2>2
<1>6. QED
  BY <1>4, <1>5

\* What is given back had been taken.
LEMMA SomebodyLeaves ==
  ASSUME TypeOK, Locals, TokensConserved, NEW r \in Requests,
         pc[r] \in InSlot, Release(r), Forget(r)
  PROVE  TokensConserved' /\ taken' \in [Channels -> Nat]
<1>1. /\ slot[r] \in Channels
      /\ pc'[r] = "idle"
      /\ \A q \in Requests : q # r => pc'[q] = pc[q] /\ slot'[q] = slot[q]
  BY DEF Forget, TypeOK, Locals
<1>2. r \in Users(slot[r])
  BY DEF Users, InForward
<1>3. taken[slot[r]] > 0
  <2>1. Cardinality(Users(slot[r])) # 0
    BY <1>2, UsersFinite, FS_EmptySet
  <2>2. taken[slot[r]] = Cardinality(Users(slot[r]))
    BY <1>1 DEF TokensConserved, Users
  <2>3. QED
    BY <2>1, <2>2, UsersFinite
<1>4. taken' \in [Channels -> Nat]
  BY <1>1, <1>3 DEF Release, TypeOK
<1>5. ASSUME NEW c \in Channels
      PROVE  taken'[c] = Cardinality(Users(c)') /\ taken'[c] <= capacity(c)
  <2>1. taken[c] = Cardinality(Users(c)) /\ taken[c] <= capacity(c)
    BY DEF TokensConserved, Users
  <2>2. taken[c] \in Nat /\ capacity(c) \in Nat
    BY KeyLimitsAssumption DEF TypeOK, Channels, capacity
  <2>3. CASE c = slot[r]
    <3>1. Users(c)' = Users(c) \ {r}
      BY <1>1, <2>3 DEF Users, InForward, InSlot
    <3>2. Cardinality(Users(c)') = Cardinality(Users(c)) - 1
      BY <1>2, <2>3, <3>1, UsersFinite, FS_RemoveElement
    <3>3. taken'[c] = taken[c] - 1
      BY <2>3 DEF Release, TypeOK
    <3>4. QED
      BY <2>1, <2>2, <3>2, <3>3
  <2>4. CASE c # slot[r]
    <3>1. Users(c)' = Users(c)
      BY <1>1, <2>4 DEF Users, InForward, InSlot
    <3>2. taken'[c] = taken[c]
      BY <2>4 DEF Release, TypeOK
    <3>3. QED
      BY <2>1, <3>1, <3>2
  <2>5. QED
    BY <2>3, <2>4
<1>6. QED
  BY <1>4, <1>5 DEF TokensConserved, Users

-----------------------------------------------------------------------------
(* The steps.                                                               *)

LEMMA Numeric ==
  /\ Window \in Nat /\ MaxSkew \in Nat /\ MaxSkew < Window
  /\ 0 \in Ages /\ 0 \in Surely /\ 0 .. MaxSkew \subseteq Ages
  /\ \A i \in Ages : i # 0 => i - 1 \in Ages
  /\ \A i \in Surely : i # 0 => i - 1 \in Surely
BY KeyLimitsAssumption DEF Ages, Surely

LEMMA KeptTyped ==
  ASSUME TypeOK, NEW r \in Requests, via[r] \in Handlers
  PROVE  Kept(r) \in [Ages -> Nat]
BY DEF TypeOK, Kept

LEMMA OlderTyped ==
  ASSUME NEW S \in {Ages, Surely}, NEW f \in [S -> Nat]
  PROVE  Older(f) \in [S -> Nat]
BY Numeric DEF Older

LEMMA RequestStep ==
  ASSUME Inv, NEW r \in Requests,
         (\E h \in Handlers : Authenticate(r, h)) \/ Handle(r)
  PROVE  Inv'
<1> USE DEF Inv
<1>1. ASSUME NEW h \in Handlers, Authenticate(r, h)
      PROVE  Inv'
  <2>1. TypeOK' /\ Locals'
    BY <1>1 DEF Authenticate, TypeOK, Locals, slotVars, rateVars, keyVars, InSlot
  <2>2. TokensConserved'
    BY <1>1, NobodyMoves DEF Authenticate, TypeOK, slotVars, InSlot
  <2>3. QED
    BY <2>1, <2>2
<1>2. CASE ChanFor(r)
  <2>1. slot[r] = None /\ via[r] \in Handlers /\ snap[r] \in Caps
    BY <1>2 DEF ChanFor, Locals
  <2>2. NewChannel(snap[r]) \in Channels
    BY <2>1, NewChannelEmpty
  <2>3. chan' \in [Handlers -> Channels \cup {None}] /\ slot' \in [Requests -> Channels \cup {None}]
    <3>1. CASE Fits(via[r], snap[r])
      BY <1>2, <2>1, <3>1 DEF ChanFor, TypeOK, slotVars, Fits
    <3>2. CASE ~Fits(via[r], snap[r])
      <4>1. /\ chan' = [chan EXCEPT ![via[r]] = NewChannel(snap[r])]
            /\ slot' = [slot EXCEPT ![r] = NewChannel(snap[r])]
        BY <1>2, <3>2 DEF ChanFor
      <4>2. chan' \in [Handlers -> Channels \cup {None}]
        BY <2>1, <2>2, <4>1 DEF TypeOK
      <4>3. slot' \in [Requests -> Channels \cup {None}]
        BY <2>2, <4>1 DEF TypeOK
      <4>4. QED
        BY <4>2, <4>3
    <3>3. QED
      BY <3>1, <3>2
  <2>4. slot'[r] \in Channels /\ \A q \in Requests : q # r => slot'[q] = slot[q]
    BY <1>2, <2>1, <2>2 DEF ChanFor, TypeOK, Fits
  <2>5. pc' = [pc EXCEPT ![r] = "wait"] /\ taken' = taken
    BY <1>2 DEF ChanFor, slotVars
  <2>6. TypeOK' /\ Locals'
    <3>1. TypeOK'
      BY <1>2, <2>3, <2>5 DEF ChanFor, TypeOK, rateVars, keyVars
    <3>2. /\ pc'[r] = "wait" /\ \A q \in Requests : q # r => pc'[q] = pc[q]
          /\ UNCHANGED <<via, snap>>
      BY <1>2, <2>5 DEF ChanFor, TypeOK
    <3>3. Locals'
      BY <2>1, <2>4, <3>2 DEF Locals, InSlot
    <3>4. QED
      BY <3>1, <3>3
  <2>7. TokensConserved'
    BY <1>2, <2>4, <2>5, NobodyMoves DEF ChanFor, TypeOK, InSlot
  <2>8. QED
    BY <2>6, <2>7
<1>3. CASE TakeSlot(r)
  <2>1. TypeOK' /\ Locals'
    BY <1>3 DEF TakeSlot, TypeOK, Locals, rateVars, keyVars, InSlot
  <2>2. QED
    BY <1>3, <2>1, SomebodyEnters
<1>4. CASE GiveUp(r)
  <2>1. TypeOK' /\ Locals'
    BY <1>4, Numeric DEF GiveUp, Forget, TypeOK, Locals, slotVars, rateVars, keyVars, InSlot
  <2>2. TokensConserved'
    BY <1>4, NobodyMoves DEF GiveUp, Forget, TypeOK, slotVars, InSlot
  <2>3. QED
    BY <2>1, <2>2
<1>5. CASE ReadClock(r)
  <2>1. TypeOK' /\ Locals'
    BY <1>5 DEF ReadClock, TypeOK, Locals, slotVars, rateVars, keyVars, InSlot
  <2>2. TokensConserved'
    BY <1>5, NobodyMoves DEF ReadClock, TypeOK, slotVars, InSlot
  <2>3. QED
    BY <2>1, <2>2
<1>6. CASE Admit(r)
  <2>1. via[r] \in Handlers /\ Kept(r) \in [Ages -> Nat]
    BY <1>6, KeptTyped DEF Admit, Locals
  <2>2. hits' \in [Handlers -> [Ages -> Nat]]
    <3>1. skew[r] \in Ages
      BY Numeric DEF TypeOK
    <3>2. [Kept(r) EXCEPT ![skew[r]] = @ + 1] \in [Ages -> Nat]
      BY <2>1, <3>1 DEF Ages
    <3>3. hits \in [Handlers -> [Ages -> Nat]]
      BY DEF TypeOK
    <3>4. hits' = [hits EXCEPT ![via[r]] = [Kept(r) EXCEPT ![skew[r]] = @ + 1]]
      BY <1>6 DEF Admit
    <3>5. QED
      BY ONLY <2>1, <3>2, <3>3, <3>4
  <2>3. admitted' \in [Handlers -> [Surely -> Nat]]
    <3>1. admitted \in [Handlers -> [Surely -> Nat]]
      BY DEF TypeOK
    <3>2. [admitted[via[r]] EXCEPT ![0] = @ + 1] \in [Surely -> Nat]
      BY <2>1, <3>1, Numeric DEF Surely
    <3>3. admitted' = [admitted EXCEPT ![via[r]] = [admitted[via[r]] EXCEPT ![0] = @ + 1]]
      BY <1>6 DEF Admit
    <3>4. QED
      BY ONLY <2>1, <3>1, <3>2, <3>3
  <2>4. TypeOK' /\ Locals'
    BY <1>6, <2>2, <2>3, Numeric DEF Admit, TypeOK, Locals, slotVars, keyVars, InSlot
  <2>5. TokensConserved'
    BY <1>6, NobodyMoves DEF Admit, TypeOK, slotVars, InSlot
  <2>6. QED
    BY <2>4, <2>5
<1>7. CASE Refuse(r)
  <2>1. via[r] \in Handlers /\ Kept(r) \in [Ages -> Nat] /\ pc[r] \in InSlot
    BY <1>7, KeptTyped DEF Refuse, Locals, InSlot
  <2>2. hits' \in [Handlers -> [Ages -> Nat]]
    BY <1>7, <2>1 DEF Refuse, TypeOK
  <2>3. TokensConserved' /\ taken' \in [Channels -> Nat]
    BY <1>7, <2>1, SomebodyLeaves DEF Refuse
  <2>4. TypeOK' /\ Locals'
    BY <1>7, <2>2, <2>3, Numeric DEF Refuse, Forget, TypeOK, Locals, keyVars, InSlot
  <2>5. QED
    BY <2>3, <2>4
<1>8. CASE Finish(r)
  <2>1. TokensConserved' /\ taken' \in [Channels -> Nat]
    BY <1>8, SomebodyLeaves DEF Finish, InSlot
  <2>2. TypeOK' /\ Locals'
    BY <1>8, <2>1, Numeric DEF Finish, Forget, TypeOK, Locals, rateVars, keyVars, InSlot
  <2>3. QED
    BY <2>1, <2>2
<1>9. QED
  BY <1>1, <1>2, <1>3, <1>4, <1>5, <1>6, <1>7, <1>8 DEF Handle, Advance

LEMMA EditStep ==
  ASSUME Inv, WriteEnabled \/ Expire \/ DeleteKey \/ \E c \in Caps : WriteConcurrency(c)
  PROVE  Inv'
<1>1. TypeOK'
  BY KeyLimitsAssumption DEF Inv, TypeOK, WriteEnabled, Expire, DeleteKey, WriteConcurrency,
     Edit, slotVars, rateVars
<1>2. Locals'
  BY DEF Inv, Locals, WriteEnabled, Expire, DeleteKey, WriteConcurrency
<1>3. TokensConserved'
  BY NobodyMoves DEF Inv, WriteEnabled, Expire, DeleteKey, WriteConcurrency, slotVars
<1>4. QED
  BY <1>1, <1>2, <1>3 DEF Inv

LEMMA TickStep ==
  ASSUME Inv, Tick
  PROVE  Inv'
<1>1. skew' \in [Requests -> 0 .. MaxSkew]
  BY Numeric DEF Inv, TypeOK, Tick
<1>2. hits' \in [Handlers -> [Ages -> Nat]]
  <2>1. \A h \in Handlers : Older(hits[h]) \in [Ages -> Nat]
    BY OlderTyped DEF Inv, TypeOK
  <2>2. QED
    BY <2>1 DEF Tick
<1>3. admitted' \in [Handlers -> [Surely -> Nat]]
  <2>1. \A h \in Handlers : Older(admitted[h]) \in [Surely -> Nat]
    BY OlderTyped DEF Inv, TypeOK
  <2>2. QED
    BY <2>1 DEF Tick
<1>4. TypeOK' /\ Locals'
  BY <1>1, <1>2, <1>3 DEF Inv, TypeOK, Locals, Tick, keyVars, slotVars
<1>5. TokensConserved'
  BY NobodyMoves DEF Inv, Tick, slotVars
<1>6. QED
  BY <1>4, <1>5 DEF Inv

LEMMA InvInit ==
  ASSUME Init
  PROVE  Inv
<1>1. TypeOK
  BY Numeric, KeyLimitsAssumption DEF Init, TypeOK
<1>2. Locals
  BY DEF Init, Locals, InSlot
<1>3. TokensConserved
  <2> SUFFICES ASSUME NEW c \in Channels
               PROVE  taken[c] = Cardinality(Users(c)) /\ taken[c] <= capacity(c)
    BY DEF TokensConserved, Users
  <2>1. Users(c) = {} /\ taken[c] = 0
    BY DEF Init, Users, InForward, InSlot
  <2>2. capacity(c) \in Nat
    BY KeyLimitsAssumption DEF Channels, capacity
  <2>3. QED
    BY <2>1, <2>2, FS_EmptySet
<1>4. QED
  BY <1>1, <1>2, <1>3 DEF Inv

-----------------------------------------------------------------------------
(* Counting.  What is shown of every number holds of the least that it could  *)
(* fail of.                                                                  *)

LEMMA Least ==
  ASSUME NEW T \in SUBSET Nat, T # {}
  PROVE  \E n \in T : \A m \in T : n <= m
<1> DEFINE Upto == {0 .. n : n \in T}
<1>1. Upto \subseteq FiniteSubsetsOf(Nat) /\ Upto # {}
  <2>1. \A n \in T : IsFiniteSet(0 .. n)
    BY FS_Interval
  <2>2. \A n \in T : 0 .. n \subseteq Nat
    OBVIOUS
  <2>3. QED
    BY <2>1, <2>2 DEF FiniteSubsetsOf
<1>2. \E x \in Upto : \A y \in Upto : ~(<<y, x>> \in StrictSubsetOrdering(Nat))
  BY <1>1, WFMin, FS_StrictSubsetOrderingWellFounded
<1>3. PICK n \in T : \A m \in T : ~(<<0 .. m, 0 .. n>> \in StrictSubsetOrdering(Nat))
  BY <1>2
<1>4. ASSUME NEW m \in T, m < n
      PROVE  FALSE
  <2>1. /\ 0 .. m \in SUBSET Nat /\ 0 .. n \in SUBSET Nat /\ 0 .. m \subseteq 0 .. n
        /\ n \in 0 .. n /\ n \notin 0 .. m
    BY <1>4
  <2>2. <<0 .. m, 0 .. n>> \in StrictSubsetOrdering(Nat)
    BY <2>1 DEF StrictSubsetOrdering
  <2>3. QED
    BY <1>3, <2>2
<1>5. QED
  BY <1>4

LEMMA Climb ==
  ASSUME NEW T \in SUBSET Nat, 0 \in T, \A n \in T : n + 1 \in T
  PROVE  T = Nat
<1>1. SUFFICES ASSUME T # Nat
               PROVE  FALSE
  OBVIOUS
<1>2. PICK n \in Nat \ T : \A m \in Nat \ T : n <= m
  BY <1>1, Least
<1>3. n # 0
  BY <1>2
<1>4. n - 1 \in Nat /\ n - 1 < n /\ (n - 1) + 1 = n
  BY <1>2, <1>3
<1>5. n - 1 \in T
  BY <1>2, <1>4
<1>6. QED
  BY <1>2, <1>4, <1>5

\* g counts as Younger does, up to n.
Counts(f, g, n) == g = [m \in 0 .. n |-> IF m = 0 THEN 0 ELSE g[m - 1] + f[m - 1]]

LEMMA CountsAgree ==
  ASSUME NEW f, NEW n \in Nat, NEW k \in Nat, n <= k, NEW g, NEW h,
         Counts(f, g, n), Counts(f, h, k)
  PROVE  g[n] = h[n]
<1> DEFINE T == {m \in Nat : m <= n => g[m] = h[m]}
<1>1. 0 \in T
  BY DEF Counts
<1>2. ASSUME NEW m \in T
      PROVE  m + 1 \in T
  <2>1. SUFFICES ASSUME m + 1 <= n
                 PROVE  g[m + 1] = h[m + 1]
    OBVIOUS
  <2>2. m + 1 \in 0 .. n /\ m + 1 \in 0 .. k /\ m + 1 # 0 /\ (m + 1) - 1 = m
    BY <2>1
  <2>3. g[m] = h[m]
    BY <2>1
  <2>4. g[m + 1] = g[m] + f[m]
    BY <2>2 DEF Counts
  <2>5. h[m + 1] = h[m] + f[m]
    BY <2>2 DEF Counts
  <2>6. QED
    BY <2>3, <2>4, <2>5
<1> HIDE DEF T
<1>3. T = Nat
  BY <1>1, <1>2, Climb DEF T
<1>4. QED
  BY <1>3 DEF T

LEMMA CountsExist ==
  ASSUME NEW f, NEW n \in Nat
  PROVE  \E g : Counts(f, g, n)
<1> DEFINE T == {m \in Nat : \E g : Counts(f, g, m)}
<1>1. 0 \in T
  <2>1. Counts(f, [m \in 0 .. 0 |-> 0], 0)
    BY DEF Counts
  <2>2. QED
    BY <2>1
<1>2. ASSUME NEW m \in T
      PROVE  m + 1 \in T
  <2>1. PICK g : Counts(f, g, m)
    OBVIOUS
  <2> DEFINE h == [i \in 0 .. m + 1 |-> IF i = 0 THEN 0 ELSE g[i - 1] + f[i - 1]]
  <2>2. ASSUME NEW i \in 0 .. m
        PROVE  h[i] = g[i]
    BY <2>1 DEF Counts
  <2>3. ASSUME NEW i \in 0 .. m + 1
        PROVE  h[i] = IF i = 0 THEN 0 ELSE h[i - 1] + f[i - 1]
    <3>1. CASE i = 0
      BY <3>1
    <3>2. CASE i # 0
      <4>1. i - 1 \in 0 .. m
        BY <3>2
      <4>2. h[i - 1] = g[i - 1]
        BY <2>2, <4>1
      <4>3. QED
        BY <3>2, <4>2
    <3>3. QED
      BY <3>1, <3>2
  <2>4. Counts(f, h, m + 1)
    BY <2>3 DEF Counts
  <2>5. QED
    BY <2>4
<1> HIDE DEF T
<1>3. T = Nat
  BY <1>1, <1>2, Climb DEF T
<1>4. QED
  BY <1>3 DEF T

LEMMA YoungerIs ==
  ASSUME NEW f, NEW n \in Nat
  PROVE  Younger(f, n) = IF n = 0 THEN 0 ELSE Younger(f, n - 1) + f[n - 1]
<1> DEFINE upto(m) == CHOOSE g : Counts(f, g, m)
           all == [m \in Nat |-> upto(m)[m]]
<1>1. \A m \in Nat : Counts(f, upto(m), m)
  BY CountsExist
<1> HIDE DEF upto
<1>2. ASSUME NEW m \in Nat
      PROVE  all[m] = IF m = 0 THEN 0 ELSE all[m - 1] + f[m - 1]
  <2>1. CASE m = 0
    <3>1. upto(0)[0] = 0
      BY <1>1 DEF Counts
    <3>2. QED
      BY <2>1, <3>1
  <2>2. CASE m # 0
    <3>1. m - 1 \in Nat /\ m - 1 <= m
      BY <2>2
    <3>2. upto(m)[m] = upto(m)[m - 1] + f[m - 1]
      <4>1. Counts(f, upto(m), m) /\ m \in 0 .. m
        BY <1>1
      <4>2. QED
        BY <2>2, <4>1 DEF Counts
    <3>3. upto(m - 1)[m - 1] = upto(m)[m - 1]
      BY <1>1, <3>1, CountsAgree
    <3>4. QED
      BY <2>2, <3>1, <3>2, <3>3
  <2>3. QED
    BY <2>1, <2>2
<1>3. all = [m \in Nat |-> IF m = 0 THEN 0 ELSE all[m - 1] + f[m - 1]]
  BY <1>2
<1> HIDE DEF all
<1>4. \E count : count = [m \in Nat |-> IF m = 0 THEN 0 ELSE count[m - 1] + f[m - 1]]
  BY <1>3
<1>5. QED
  BY <1>4 DEF Younger

\* Numbers by age, for n ages.
PerAge(n) == [0 .. n - 1 -> Nat]

LEMMA YoungerNat ==
  ASSUME NEW top \in Nat, NEW f \in PerAge(top), NEW n \in 0 .. top
  PROVE  Younger(f, n) \in Nat
<1> DEFINE T == {m \in Nat : m <= top => Younger(f, m) \in Nat}
<1>1. 0 \in T
  BY YoungerIs
<1>2. ASSUME NEW m \in T
      PROVE  m + 1 \in T
  <2>1. SUFFICES ASSUME m + 1 <= top
                 PROVE  Younger(f, m + 1) \in Nat
    OBVIOUS
  <2>2. m \in 0 .. top - 1 /\ (m + 1) - 1 = m /\ m + 1 # 0 /\ m + 1 \in Nat
    BY <2>1
  <2>3. f[m] \in Nat
    BY <2>2 DEF PerAge
  <2>4. Younger(f, m) \in Nat
    BY <2>1
  <2>5. Younger(f, m + 1) = Younger(f, m) + f[m]
    BY <2>2, YoungerIs
  <2>6. QED
    BY <2>3, <2>4, <2>5
<1> HIDE DEF T
<1>3. T = Nat
  BY <1>1, <1>2, Climb DEF T
<1>4. QED
  BY <1>3 DEF T

LEMMA YoungerNext ==
  ASSUME NEW top \in Nat, NEW f \in PerAge(top), NEW n \in 0 .. top - 1
  PROVE  /\ Younger(f, n + 1) = Younger(f, n) + f[n]
         /\ Younger(f, n) \in Nat /\ Younger(f, n + 1) \in Nat /\ f[n] \in Nat
<1>1. n + 1 \in Nat /\ n + 1 # 0 /\ (n + 1) - 1 = n /\ n \in 0 .. top /\ n + 1 \in 0 .. top
  OBVIOUS
<1>2. Younger(f, n + 1) = Younger(f, n) + f[n]
  BY <1>1, YoungerIs
<1>3. Younger(f, n) \in Nat /\ Younger(f, n + 1) \in Nat
  BY <1>1, YoungerNat
<1>4. f[n] \in Nat
  BY DEF PerAge
<1>5. QED
  BY <1>2, <1>3, <1>4

\* An older bound counts no less.
LEMMA YoungerGrows ==
  ASSUME NEW top \in Nat, NEW f \in PerAge(top), NEW k \in 0 .. top, NEW n \in k .. top
  PROVE  Younger(f, k) <= Younger(f, n)
<1> DEFINE T == {m \in Nat : k + m <= top => Younger(f, k) <= Younger(f, k + m)}
<1>1. 0 \in T
  BY YoungerNat
<1>2. ASSUME NEW m \in T
      PROVE  m + 1 \in T
  <2>1. SUFFICES ASSUME k + (m + 1) <= top
                 PROVE  Younger(f, k) <= Younger(f, k + (m + 1))
    OBVIOUS
  <2>2. k + m \in 0 .. top - 1 /\ (k + m) + 1 = k + (m + 1)
    BY <2>1
  <2>3. Younger(f, k) <= Younger(f, k + m)
    BY <2>1
  <2>4. /\ Younger(f, k + (m + 1)) = Younger(f, k + m) + f[k + m]
        /\ Younger(f, k + m) \in Nat /\ f[k + m] \in Nat
    BY <2>2, YoungerNext
  <2>5. Younger(f, k) \in Nat
    BY YoungerNat
  <2>6. QED
    BY <2>3, <2>4, <2>5
<1> HIDE DEF T
<1>3. T = Nat
  BY <1>1, <1>2, Climb DEF T
<1>4. n - k \in Nat /\ k + (n - k) = n /\ k + (n - k) <= top
  OBVIOUS
<1>5. QED
  BY <1>3, <1>4 DEF T

\* Older hits do not matter.
LEMMA YoungerSame ==
  ASSUME NEW top \in Nat, NEW f \in PerAge(top), NEW g \in PerAge(top), NEW n \in 0 .. top,
         \A i \in 0 .. n - 1 : f[i] = g[i]
  PROVE  Younger(f, n) = Younger(g, n)
<1> DEFINE T == {m \in Nat : m <= n => Younger(f, m) = Younger(g, m)}
<1>1. 0 \in T
  BY YoungerIs
<1>2. ASSUME NEW m \in T
      PROVE  m + 1 \in T
  <2>1. SUFFICES ASSUME m + 1 <= n
                 PROVE  Younger(f, m + 1) = Younger(g, m + 1)
    OBVIOUS
  <2>2. m \in 0 .. n - 1 /\ m \in 0 .. top - 1
    BY <2>1
  <2>3. f[m] = g[m] /\ Younger(f, m) = Younger(g, m)
    BY <2>1, <2>2
  <2>4. Younger(f, m + 1) = Younger(f, m) + f[m] /\ Younger(g, m + 1) = Younger(g, m) + g[m]
    BY <2>2, YoungerNext
  <2>5. QED
    BY <2>3, <2>4
<1> HIDE DEF T
<1>3. T = Nat
  BY <1>1, <1>2, Climb DEF T
<1>4. QED
  BY <1>3 DEF T

\* Where there are none.
LEMMA YoungerNone ==
  ASSUME NEW top \in Nat, NEW f \in PerAge(top), NEW k \in 0 .. top, NEW n \in k .. top,
         \A i \in k .. top - 1 : f[i] = 0
  PROVE  Younger(f, n) = Younger(f, k)
<1> DEFINE T == {m \in Nat : k + m <= top => Younger(f, k + m) = Younger(f, k)}
<1>1. 0 \in T
  OBVIOUS
<1>2. ASSUME NEW m \in T
      PROVE  m + 1 \in T
  <2>1. SUFFICES ASSUME k + (m + 1) <= top
                 PROVE  Younger(f, k + (m + 1)) = Younger(f, k)
    OBVIOUS
  <2>2. k + m \in 0 .. top - 1 /\ k + m \in k .. top - 1 /\ (k + m) + 1 = k + (m + 1)
    BY <2>1
  <2>3. Younger(f, k + m) = Younger(f, k) /\ f[k + m] = 0
    BY <2>1, <2>2
  <2>4. Younger(f, k + (m + 1)) = Younger(f, k + m) + f[k + m] /\ Younger(f, k + m) \in Nat
    BY <2>2, YoungerNext
  <2>5. QED
    BY <2>3, <2>4
<1> HIDE DEF T
<1>3. T = Nat
  BY <1>1, <1>2, Climb DEF T
<1>4. n - k \in Nat /\ k + (n - k) = n /\ k + (n - k) <= top
  OBVIOUS
<1>5. QED
  BY <1>3, <1>4 DEF T

\* A tick.
LEMMA YoungerShift ==
  ASSUME NEW top \in Nat, NEW f \in PerAge(top), NEW n \in 0 .. top - 1
  PROVE  Younger(Older(f), n + 1) = Younger(f, n)
<1> DEFINE g == Older(f)
           T == {m \in Nat : m + 1 <= top => Younger(g, m + 1) = Younger(f, m)}
<1>1. DOMAIN f = 0 .. top - 1
  BY DEF PerAge
<1>2. /\ g \in PerAge(top)
      /\ \A i \in 0 .. top - 1 : g[i] = IF i = 0 THEN 0 ELSE f[i - 1]
  BY <1>1 DEF PerAge, Older
<1> HIDE DEF g
<1>3. 0 \in T
  <2>1. SUFFICES ASSUME 1 <= top
                 PROVE  Younger(g, 1) = 0
    BY YoungerIs
  <2>2. Younger(g, 1) = Younger(g, 0) + g[0]
    BY <1>2, <2>1, YoungerNext
  <2>3. Younger(g, 0) = 0
    BY YoungerIs
  <2>4. g[0] = 0
    BY <1>2, <2>1
  <2>5. QED
    BY <2>2, <2>3, <2>4
<1>4. ASSUME NEW m \in T
      PROVE  m + 1 \in T
  <2>1. SUFFICES ASSUME (m + 1) + 1 <= top
                 PROVE  Younger(g, (m + 1) + 1) = Younger(f, m + 1)
    OBVIOUS
  <2>2. m \in 0 .. top - 1 /\ m + 1 \in 0 .. top - 1 /\ m + 1 # 0 /\ (m + 1) - 1 = m
    BY <2>1
  <2>3. Younger(g, m + 1) = Younger(f, m)
    BY <2>1
  <2>4. Younger(g, (m + 1) + 1) = Younger(g, m + 1) + g[m + 1]
    BY <1>2, <2>2, YoungerNext
  <2>5. g[m + 1] = f[m]
    BY <1>2, <2>2
  <2>6. Younger(f, m + 1) = Younger(f, m) + f[m]
    BY <2>2, YoungerNext
  <2>7. QED
    BY <2>3, <2>4, <2>5, <2>6
<1> HIDE DEF T
<1>5. T = Nat
  BY <1>3, <1>4, Climb DEF T
<1>6. QED
  BY <1>5 DEF T, g

\* One more hit.
LEMMA YoungerAdd ==
  ASSUME NEW top \in Nat, NEW f \in PerAge(top), NEW k \in 0 .. top - 1, NEW n \in k + 1 .. top,
         NEW g, g = [f EXCEPT ![k] = @ + 1]
  PROVE  Younger(g, n) = Younger(f, n) + 1
<1> DEFINE T == {m \in Nat : k + 1 + m <= top =>
                              Younger(g, k + 1 + m) = Younger(f, k + 1 + m) + 1}
<1>1. /\ g \in PerAge(top)
      /\ \A i \in 0 .. top - 1 : g[i] = IF i = k THEN f[i] + 1 ELSE f[i]
  BY DEF PerAge
<1>2. 0 \in T
  <2>1. Younger(g, k) = Younger(f, k)
    <3>1. \A i \in 0 .. k - 1 : g[i] = f[i]
      BY <1>1
    <3>2. k \in 0 .. top
      OBVIOUS
    <3>3. QED
      BY <1>1, <3>1, <3>2, YoungerSame
  <2>2. Younger(g, k + 1) = Younger(g, k) + g[k]
    BY <1>1, YoungerNext
  <2>3. /\ Younger(f, k + 1) = Younger(f, k) + f[k]
        /\ Younger(f, k) \in Nat /\ f[k] \in Nat
    BY YoungerNext
  <2>4. g[k] = f[k] + 1
    BY <1>1
  <2>5. Younger(g, k + 1) = Younger(f, k + 1) + 1
    BY <2>1, <2>2, <2>3, <2>4
  <2>6. k + 1 + 0 = k + 1
    OBVIOUS
  <2>7. QED
    BY <2>5, <2>6
<1>3. ASSUME NEW m \in T
      PROVE  m + 1 \in T
  <2>1. SUFFICES ASSUME k + 1 + (m + 1) <= top
                 PROVE  Younger(g, k + 1 + (m + 1)) = Younger(f, k + 1 + (m + 1)) + 1
    OBVIOUS
  <2>2. /\ k + 1 + m \in 0 .. top - 1 /\ (k + 1 + m) + 1 = k + 1 + (m + 1)
        /\ k + 1 + m # k
    BY <2>1
  <2>3. Younger(g, k + 1 + m) = Younger(f, k + 1 + m) + 1
    BY <2>1
  <2>4. Younger(g, k + 1 + (m + 1)) = Younger(g, k + 1 + m) + g[k + 1 + m]
    <3>1. \A j \in 0 .. top - 1 : Younger(g, j + 1) = Younger(g, j) + g[j]
      BY <1>1, YoungerNext
    <3>2. QED
      BY <2>2, <3>1
  <2>5. /\ Younger(f, k + 1 + (m + 1)) = Younger(f, k + 1 + m) + f[k + 1 + m]
        /\ Younger(f, k + 1 + m) \in Nat /\ f[k + 1 + m] \in Nat
    BY <2>2, YoungerNext
  <2>6. g[k + 1 + m] = f[k + 1 + m]
    BY <1>1, <2>2
  <2>7. QED
    BY <2>3, <2>4, <2>5, <2>6
<1> HIDE DEF T
<1>4. T = Nat
  BY <1>2, <1>3, Climb DEF T
<1>5. n - (k + 1) \in Nat /\ k + 1 + (n - (k + 1)) = n /\ n <= top
  OBVIOUS
<1>6. QED
  BY <1>4, <1>5 DEF T

-----------------------------------------------------------------------------
(* The rate.  A hit is as old as the clock its request read, an admission as   *)
(* young as the lock it took: of the admissions of an age below i none has     *)
(* been dropped from the hits of an age below i + MaxSkew.                     *)

AllAges == Window + MaxSkew
SureAges == Window - MaxSkew

RateInv ==
  \A h \in Handlers :
    /\ Younger(hits[h], AllAges) <= Rpm
    /\ \A i \in 0 .. SureAges : Younger(admitted[h], i) <= Younger(hits[h], i + MaxSkew)

LEMMA RateNumbers ==
  /\ AllAges \in Nat /\ SureAges \in Nat /\ Window \in Nat /\ MaxSkew \in Nat /\ Rpm \in Nat
  /\ SureAges = Window - MaxSkew /\ AllAges = Window + MaxSkew /\ MaxSkew < Window
  /\ Ages = 0 .. AllAges - 1 /\ Surely = 0 .. SureAges - 1
BY KeyLimitsAssumption DEF AllAges, SureAges, Ages, Surely

LEMMA RateTyped ==
  ASSUME TypeOK, NEW h \in Handlers
  PROVE  hits[h] \in PerAge(AllAges) /\ admitted[h] \in PerAge(SureAges)
BY RateNumbers DEF TypeOK, PerAge

\* What the request's clock sees is kept, and nothing else.
LEMMA KeptCounts ==
  ASSUME TypeOK, NEW r \in Requests, via[r] \in Handlers
  PROVE  /\ Kept(r) \in PerAge(AllAges)
         /\ Younger(Kept(r), AllAges) <= Younger(hits[via[r]], AllAges)
         /\ \A n \in 0 .. Window : Younger(Kept(r), n) = Younger(hits[via[r]], n)
<1> DEFINE seen == Window + skew[r]
           list == hits[via[r]]
           kept == Kept(r)
<1>1. seen \in Window .. AllAges /\ skew[r] \in 0 .. MaxSkew
  BY RateNumbers DEF TypeOK
<1>2. list \in PerAge(AllAges)
  BY RateTyped
<1>3. /\ kept \in PerAge(AllAges)
      /\ \A i \in 0 .. AllAges - 1 : kept[i] = IF i < seen THEN list[i] ELSE 0
  BY <1>2, RateNumbers DEF Kept, PerAge
<1> HIDE DEF kept, list, seen
<1>4. ASSUME NEW n \in 0 .. seen
      PROVE  Younger(kept, n) = Younger(list, n)
  <2>1. n \in 0 .. AllAges /\ \A i \in 0 .. n - 1 : kept[i] = list[i]
    BY <1>1, <1>3, RateNumbers
  <2>2. QED
    BY <1>2, <1>3, <2>1, RateNumbers, YoungerSame
<1>5. Younger(kept, AllAges) = Younger(kept, seen)
  <2>1. /\ seen \in 0 .. AllAges /\ AllAges \in seen .. AllAges
        /\ \A i \in seen .. AllAges - 1 : kept[i] = 0
    BY <1>1, <1>3, RateNumbers
  <2>2. QED
    BY <1>3, <2>1, RateNumbers, YoungerNone
<1>6. Younger(list, seen) <= Younger(list, AllAges)
  <2>1. seen \in 0 .. AllAges /\ AllAges \in seen .. AllAges
    BY <1>1, RateNumbers
  <2>2. QED
    BY <1>2, <2>1, RateNumbers, YoungerGrows
<1>7. Younger(kept, AllAges) <= Younger(list, AllAges)
  <2>1. Younger(kept, seen) = Younger(list, seen)
    BY <1>1, <1>4, RateNumbers
  <2>2. QED
    BY <1>5, <1>6, <2>1
<1>8. \A n \in 0 .. Window : n \in 0 .. seen
  BY <1>1, RateNumbers
<1>9. QED
  BY <1>3, <1>4, <1>7, <1>8 DEF kept, list

LEMMA AdmitRate ==
  ASSUME TypeOK, Locals, RateInv, NEW r \in Requests, Admit(r)
  PROVE  RateInv'
<1> DEFINE h == via[r]
           kept == Kept(r)
<1>1. /\ h \in Handlers /\ skew[r] \in 0 .. MaxSkew
      /\ hits' = [hits EXCEPT ![h] = [kept EXCEPT ![skew[r]] = @ + 1]]
      /\ admitted' = [admitted EXCEPT ![h] = [admitted[h] EXCEPT ![0] = @ + 1]]
      /\ Younger(kept, AllAges) < Rpm
  BY DEF Admit, Locals, TypeOK, UnderLimit, Seen, AllAges
<1>2. /\ kept \in PerAge(AllAges) /\ admitted[h] \in PerAge(SureAges)
      /\ \A n \in 0 .. Window : Younger(kept, n) = Younger(hits[h], n)
  BY <1>1, KeptCounts, RateTyped
<1>3. /\ hits'[h] = [kept EXCEPT ![skew[r]] = @ + 1]
      /\ admitted'[h] = [admitted[h] EXCEPT ![0] = @ + 1]
      /\ \A other \in Handlers \ {h} :
           hits'[other] = hits[other] /\ admitted'[other] = admitted[other]
  <2>1. DOMAIN hits = Handlers /\ DOMAIN admitted = Handlers
    BY DEF TypeOK
  <2> HIDE DEF h, kept
  <2>2. QED
    BY ONLY <1>1, <2>1
<1> HIDE DEF h, kept
<1>4. ASSUME NEW n \in skew[r] + 1 .. AllAges
      PROVE  Younger(hits'[h], n) = Younger(kept, n) + 1
  <2>1. skew[r] \in 0 .. AllAges - 1
    BY <1>1, RateNumbers
  <2>2. QED
    BY <1>2, <1>3, <2>1, RateNumbers, YoungerAdd
<1>5. Younger(hits'[h], AllAges) <= Rpm
  <2>1. AllAges \in skew[r] + 1 .. AllAges /\ AllAges \in 0 .. AllAges
    BY <1>1, RateNumbers
  <2>2. Younger(hits'[h], AllAges) = Younger(kept, AllAges) + 1 /\ Younger(kept, AllAges) \in Nat
    BY <1>2, <1>4, <2>1, RateNumbers, YoungerNat
  <2>3. QED
    BY <1>1, <2>2, RateNumbers
<1>6. ASSUME NEW i \in 0 .. SureAges
      PROVE  Younger(admitted'[h], i) <= Younger(hits'[h], i + MaxSkew)
  <2>1. CASE i = 0
    <3>1. Younger(admitted'[h], 0) = 0
      BY YoungerIs
    <3>2. hits'[h] \in PerAge(AllAges)
      <4>1. skew[r] \in 0 .. AllAges - 1
        BY <1>1, RateNumbers
      <4>2. QED
        BY <1>2, <1>3, <4>1 DEF PerAge
    <3>3. MaxSkew \in 0 .. AllAges
      BY RateNumbers
    <3>4. Younger(hits'[h], MaxSkew) \in Nat
      BY <3>2, <3>3, RateNumbers, YoungerNat
    <3>5. i + MaxSkew = MaxSkew
      BY <2>1, RateNumbers
    <3>6. QED
      BY <2>1, <3>1, <3>4, <3>5
  <2>2. CASE i # 0
    <3>1. /\ i \in 0 + 1 .. SureAges /\ 0 \in 0 .. SureAges - 1
          /\ i + MaxSkew \in skew[r] + 1 .. AllAges /\ i + MaxSkew \in 0 .. Window
          /\ i + MaxSkew \in 0 .. AllAges
      <4>1. i >= 1 /\ i <= SureAges /\ i \in Int /\ SureAges \in Nat
        BY <2>2, RateNumbers
      <4>2. skew[r] \in Nat /\ skew[r] <= MaxSkew
        BY <1>1, RateNumbers
      <4>3. i + MaxSkew <= Window /\ Window <= AllAges
        BY <4>1, RateNumbers
      <4>4. QED
        BY <4>1, <4>2, <4>3, RateNumbers
    <3>2. Younger(admitted'[h], i) = Younger(admitted[h], i) + 1
      BY <1>2, <1>3, <3>1, RateNumbers, YoungerAdd
    <3>3. Younger(hits'[h], i + MaxSkew) = Younger(hits[h], i + MaxSkew) + 1
      BY <1>2, <1>4, <3>1
    <3>4. Younger(admitted[h], i) <= Younger(hits[h], i + MaxSkew)
      BY <1>1 DEF RateInv
    <3>5. Younger(admitted[h], i) \in Nat /\ Younger(hits[h], i + MaxSkew) \in Nat
      BY <1>1, <3>1, RateTyped, RateNumbers, YoungerNat
    <3>6. QED
      BY <3>2, <3>3, <3>4, <3>5
  <2>3. QED
    BY <2>1, <2>2
<1>7. QED
  BY <1>3, <1>5, <1>6 DEF RateInv, AllAges, SureAges

LEMMA RefuseRate ==
  ASSUME TypeOK, Locals, RateInv, NEW r \in Requests, Refuse(r)
  PROVE  RateInv'
<1>1. /\ via[r] \in Handlers /\ hits' = [hits EXCEPT ![via[r]] = Kept(r)] /\ admitted' = admitted
  BY DEF Refuse, Locals
<1>2. /\ Younger(Kept(r), AllAges) <= Younger(hits[via[r]], AllAges)
      /\ \A n \in 0 .. Window : Younger(Kept(r), n) = Younger(hits[via[r]], n)
      /\ Kept(r) \in PerAge(AllAges) /\ hits[via[r]] \in PerAge(AllAges)
  BY <1>1, KeptCounts, RateTyped
<1>3. hits'[via[r]] = Kept(r) /\ \A h \in Handlers \ {via[r]} : hits'[h] = hits[h]
  BY <1>1 DEF TypeOK
<1>4. Younger(hits'[via[r]], AllAges) <= Rpm
  <2>1. Younger(Kept(r), AllAges) \in Nat /\ Younger(hits[via[r]], AllAges) \in Nat
    BY <1>2, RateNumbers, YoungerNat
  <2>2. Younger(hits[via[r]], AllAges) <= Rpm
    BY <1>1 DEF RateInv
  <2>3. QED
    BY <1>2, <1>3, <2>1, <2>2, RateNumbers
<1>5. ASSUME NEW i \in 0 .. SureAges
      PROVE  Younger(admitted'[via[r]], i) <= Younger(hits'[via[r]], i + MaxSkew)
  <2>1. i + MaxSkew \in 0 .. Window
    BY RateNumbers
  <2>2. QED
    BY <1>1, <1>2, <1>3, <2>1 DEF RateInv
<1>6. QED
  BY <1>1, <1>3, <1>4, <1>5 DEF RateInv, AllAges, SureAges

LEMMA TickRate ==
  ASSUME TypeOK, RateInv, Tick
  PROVE  RateInv'
<1> SUFFICES ASSUME NEW h \in Handlers
             PROVE  /\ Younger(hits'[h], AllAges) <= Rpm
                    /\ \A i \in 0 .. SureAges :
                         Younger(admitted'[h], i) <= Younger(hits'[h], i + MaxSkew)
  BY DEF RateInv, AllAges, SureAges
<1>1. hits'[h] = Older(hits[h]) /\ admitted'[h] = Older(admitted[h])
  BY DEF Tick
<1>2. hits[h] \in PerAge(AllAges) /\ admitted[h] \in PerAge(SureAges)
  BY RateTyped
<1>3. ASSUME NEW n \in 0 .. AllAges, n # 0
      PROVE  Younger(hits'[h], n) = Younger(hits[h], n - 1) /\ n - 1 \in 0 .. AllAges
  <2>1. n - 1 \in 0 .. AllAges - 1 /\ (n - 1) + 1 = n /\ n - 1 \in 0 .. AllAges
    BY <1>3, RateNumbers
  <2>2. QED
    BY <1>1, <1>2, <2>1, RateNumbers, YoungerShift
<1>4. Younger(hits'[h], AllAges) <= Rpm
  <2>1. /\ AllAges \in 0 .. AllAges /\ AllAges # 0
        /\ AllAges - 1 \in 0 .. AllAges /\ AllAges \in AllAges - 1 .. AllAges
    BY RateNumbers
  <2>2. Younger(hits'[h], AllAges) = Younger(hits[h], AllAges - 1)
    BY <1>3, <2>1
  <2>3. Younger(hits[h], AllAges - 1) <= Younger(hits[h], AllAges)
    BY <1>2, <2>1, RateNumbers, YoungerGrows
  <2>4. Younger(hits[h], AllAges - 1) \in Nat /\ Younger(hits[h], AllAges) \in Nat
    BY <1>2, <2>1, RateNumbers, YoungerNat
  <2>5. Younger(hits[h], AllAges) <= Rpm
    BY DEF RateInv
  <2>6. QED
    BY <2>2, <2>3, <2>4, <2>5, RateNumbers
<1>5. ASSUME NEW i \in 0 .. SureAges
      PROVE  Younger(admitted'[h], i) <= Younger(hits'[h], i + MaxSkew)
  <2>1. CASE i = 0
    <3>1. Younger(admitted'[h], 0) = 0
      BY YoungerIs
    <3>2. Younger(hits'[h], MaxSkew) \in Nat
      <4>1. CASE MaxSkew = 0
        BY <4>1, YoungerIs
      <4>2. CASE MaxSkew # 0
        <5>1. MaxSkew \in 0 .. AllAges
          BY RateNumbers
        <5>2. QED
          BY <1>2, <1>3, <4>2, <5>1, RateNumbers, YoungerNat
      <4>3. QED
        BY <4>1, <4>2
    <3>3. i + MaxSkew = MaxSkew
      BY <2>1, RateNumbers
    <3>4. QED
      BY <2>1, <3>1, <3>2, <3>3
  <2>2. CASE i # 0
    <3>1. /\ i - 1 \in 0 .. SureAges - 1 /\ (i - 1) + 1 = i /\ i - 1 \in 0 .. SureAges
          /\ i + MaxSkew \in 0 .. AllAges /\ i + MaxSkew # 0
          /\ (i + MaxSkew) - 1 = (i - 1) + MaxSkew
      BY <2>2, RateNumbers
    <3>2. Younger(admitted'[h], i) = Younger(admitted[h], i - 1)
      BY <1>1, <1>2, <3>1, RateNumbers, YoungerShift
    <3>3. Younger(hits'[h], i + MaxSkew) = Younger(hits[h], (i - 1) + MaxSkew)
      BY <1>3, <3>1
    <3>4. Younger(admitted[h], i - 1) <= Younger(hits[h], (i - 1) + MaxSkew)
      BY <3>1 DEF RateInv
    <3>5. QED
      BY <3>2, <3>3, <3>4
  <2>3. QED
    BY <2>1, <2>2
<1>6. QED
  BY <1>4, <1>5

LEMMA RateStep ==
  ASSUME TypeOK, Locals, RateInv, [Next]_vars
  PROVE  RateInv'
<1>1. ASSUME UNCHANGED rateVars
      PROVE  RateInv'
  BY <1>1 DEF rateVars, RateInv
<1>2. ASSUME NEW r \in Requests, (\E h \in Handlers : Authenticate(r, h)) \/ Handle(r)
      PROVE  RateInv'
  <2>1. CASE Admit(r)
    BY <2>1, AdmitRate
  <2>2. CASE Refuse(r)
    BY <2>2, RefuseRate
  <2>3. CASE \/ \E h \in Handlers : Authenticate(r, h)
             \/ ChanFor(r) \/ TakeSlot(r) \/ GiveUp(r) \/ ReadClock(r) \/ Finish(r)
    BY <1>1, <2>3 DEF Authenticate, ChanFor, TakeSlot, GiveUp, ReadClock, Finish
  <2>4. QED
    BY <1>2, <2>1, <2>2, <2>3 DEF Handle, Advance
<1>3. CASE WriteEnabled \/ Expire \/ DeleteKey \/ \E c \in Caps : WriteConcurrency(c)
  BY <1>1, <1>3 DEF WriteEnabled, Expire, DeleteKey, WriteConcurrency
<1>4. CASE Tick
  BY <1>4, TickRate
<1>5. CASE UNCHANGED vars
  BY <1>1, <1>5 DEF vars, rateVars
<1>6. QED
  BY <1>2, <1>3, <1>4, <1>5 DEF Next

LEMMA RateInit ==
  ASSUME Init, TypeOK
  PROVE  RateInv
<1> SUFFICES ASSUME NEW h \in Handlers
             PROVE  /\ Younger(hits[h], AllAges) <= Rpm
                    /\ \A i \in 0 .. SureAges :
                         Younger(admitted[h], i) <= Younger(hits[h], i + MaxSkew)
  BY DEF RateInv
<1>1. hits[h] \in PerAge(AllAges) /\ admitted[h] \in PerAge(SureAges)
  BY RateTyped
<1>2. /\ \A i \in 0 .. AllAges - 1 : hits[h][i] = 0
      /\ \A i \in 0 .. SureAges - 1 : admitted[h][i] = 0
  BY RateNumbers DEF Init
<1>3. ASSUME NEW n \in 0 .. AllAges
      PROVE  Younger(hits[h], n) = 0
  <2>1. 0 \in 0 .. AllAges /\ n \in 0 .. AllAges
    BY RateNumbers
  <2>2. Younger(hits[h], n) = Younger(hits[h], 0)
    BY <1>1, <1>2, <2>1, RateNumbers, YoungerNone
  <2>3. QED
    BY <2>2, YoungerIs
<1>4. ASSUME NEW n \in 0 .. SureAges
      PROVE  Younger(admitted[h], n) = 0
  <2>1. 0 \in 0 .. SureAges /\ n \in 0 .. SureAges
    BY RateNumbers
  <2>2. Younger(admitted[h], n) = Younger(admitted[h], 0)
    BY <1>1, <1>2, <2>1, RateNumbers, YoungerNone
  <2>3. QED
    BY <2>2, YoungerIs
<1>5. AllAges \in 0 .. AllAges /\ \A i \in 0 .. SureAges : i + MaxSkew \in 0 .. AllAges
  BY RateNumbers
<1>6. QED
  BY <1>3, <1>4, <1>5, RateNumbers

LEMMA KeyLimitsInv == Spec => []Inv
<1>1. Init => Inv
  BY InvInit
<1>2. Inv /\ [Next]_vars => Inv'
  <2>1. Inv /\ UNCHANGED vars => Inv'
    BY DEF Inv, vars, keyVars, TypeOK, Locals, TokensConserved, InForward
  <2>2. Inv /\ Next => Inv'
    BY RequestStep, EditStep, TickStep DEF Next
  <2>3. QED
    BY <2>1, <2>2
<1>3. QED
  BY <1>1, <1>2, PTL DEF Spec

\* Every variable keeps its type; in particular there is always a channel to
\* make, so that its naming loses nothing (auth.go, keySlotter.chanFor).
THEOREM KeyLimitsTypeCorrect == Spec => []TypeOK
<1>1. Inv => TypeOK
  BY DEF Inv
<1>2. QED
  BY <1>1, KeyLimitsInv, PTL

\* A channel holds one token for every request that took a place in it and
\* never more than fit, whatever is edited, replaced and refused meanwhile
\* (auth.go, acquire and release).
THEOREM TokensKept == Spec => []TokensConserved
<1>1. Inv => TokensConserved
  BY DEF Inv
<1>2. QED
  BY <1>1, KeyLimitsInv, PTL

\* In a window, shorter by the longest a request may take from its clock to the
\* lock, each handler lets at most Rpm requests of the key through (auth.go,
\* rateLimiter.allow), for any number of requests that come late and out of
\* order, any window and any limit.
THEOREM RateKept == Spec => []LimiterBound
<1>1. TypeOK /\ RateInv => LimiterBound
  <2> SUFFICES ASSUME TypeOK, RateInv, NEW h \in Handlers
               PROVE  Younger(admitted[h], SureAges) <= Rpm
    BY DEF LimiterBound, AdmittedBy, SureAges
  <2>1. /\ SureAges \in 0 .. SureAges /\ SureAges + MaxSkew = Window /\ Window \in 0 .. AllAges
        /\ AllAges \in Window .. AllAges
    BY RateNumbers
  <2>2. Younger(admitted[h], SureAges) <= Younger(hits[h], Window)
    BY <2>1 DEF RateInv
  <2>3. Younger(hits[h], Window) <= Younger(hits[h], AllAges)
    BY <2>1, RateTyped, RateNumbers, YoungerGrows
  <2>4. /\ Younger(admitted[h], SureAges) \in Nat /\ Younger(hits[h], Window) \in Nat
        /\ Younger(hits[h], AllAges) \in Nat
    BY <2>1, RateTyped, RateNumbers, YoungerNat
  <2>5. Younger(hits[h], AllAges) <= Rpm
    BY DEF RateInv
  <2>6. QED
    BY <2>2, <2>3, <2>4, <2>5, RateNumbers
<1>2. Init => Inv /\ RateInv
  BY InvInit, RateInit DEF Inv
<1>3. Inv /\ RateInv /\ [Next]_vars => RateInv'
  BY RateStep DEF Inv
<1>4. Inv => TypeOK
  BY DEF Inv
<1>5. QED
  BY <1>1, <1>2, <1>3, <1>4, KeyLimitsInv, PTL DEF Spec
=============================================================================
