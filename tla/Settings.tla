------------------------------ MODULE Settings ------------------------------
(***************************************************************************)
(* Settings that are changed while the gateway runs: handleSettingsPut of    *)
(* internal/admin/settings.go writes the keys of a request one statement     *)
(* after the other, in sorted order; the recorder of internal/billing reads  *)
(* the two that make its tariff, one statement each under its own lock, and  *)
(* keeps what it read for pricesTTL.  The database has one connection, so    *)
(* that statements of both may alternate and each may wait.                  *)
(***************************************************************************)
EXTENDS Integers

CONSTANTS
  Handlers,    \* goroutines that serve PUT /admin/api/settings
  Values,      \* values that change the tariff
  Useless,     \* one that is accepted and changes nothing: a factor of 0, no prices
  None,        \* "" or no row: the default
  PricesTTL,   \* pricesTTL, in ticks
  MaxRead,     \* bound: ticks that one reload of the tariff may take
  DbMayFail    \* whether a statement may return an error

\* model_prices and rate_multiplier, in sorted order.
SettingKeys == 1 .. 2
Stored == Values \cup {Useless, None}
\* What a request may change: any of the keys.
Changes == UNION {[keys -> Stored] : keys \in SUBSET SettingKeys}
Tariffs == [SettingKeys -> Values \cup {None}]

ASSUME SettingsAssumption ==
  /\ Useless # None /\ {Useless, None} \cap Values = {}
  /\ PricesTTL \in Nat \ {0} /\ MaxRead \in Nat
  /\ DbMayFail \in BOOLEAN

VARIABLES
  rows,     \* table settings
  todo,     \* what a handler has still to write, by key; None: it is free
  prices,   \* Recorder.prices and multiplier; None: not loaded yet
  age,      \* ticks since pricesLoadedAt
  half,     \* what a reload under way has read of model_prices
  reading,  \* ticks since it began
  quiet     \* history: ticks since a row was written or a read failed

cacheVars == <<prices, age, half, reading>>
settingsVars == <<rows, todo, cacheVars, quiet>>

Rested == PricesTTL + MaxRead

SettingsTypeOK ==
  /\ rows \in [SettingKeys -> Stored]
  /\ todo \in [Handlers -> Changes \cup {None}]
  /\ prices \in Tariffs \cup {None}
  /\ age \in 0 .. PricesTTL
  /\ half \in Values \cup {None, Useless}
  /\ reading \in 0 .. MaxRead
  /\ quiet \in 0 .. Rested

\* A database that may have been used before; half = Useless: nothing is read.
SettingsInit ==
  /\ rows \in [SettingKeys -> {None} \cup Values]
  /\ todo = [h \in Handlers |-> None]
  /\ prices = None
  /\ age = 0
  /\ half = Useless
  /\ reading = 0
  /\ quiet = Rested

-----------------------------------------------------------------------------
(* handleSettingsPut.                                                       *)

Put(h, change) == todo[h] = None /\ todo' = [todo EXCEPT ![h] = change]

Free(h) == todo' = [todo EXCEPT ![h] = None]

NextKey(h) == CHOOSE k \in DOMAIN todo[h] : \A other \in DOMAIN todo[h] : k <= other

WriteSetting(h) ==
  /\ todo[h] # None /\ DOMAIN todo[h] # {}
  /\ rows' = [rows EXCEPT ![NextKey(h)] = todo[h][NextKey(h)]]
  /\ todo' = [todo EXCEPT ![h] = [k \in DOMAIN @ \ {NextKey(h)} |-> @[k]]]
  /\ quiet' = 0
  /\ UNCHANGED cacheVars

-----------------------------------------------------------------------------
(* refreshPricesLocked, when a log is recorded.                             *)

\* Mutant: the value is used as it is stored.
Unparsed(value) == value

\* What a row means: "" and what cannot be used leave the default.
Meaning(value) == IF value \in Values THEN value ELSE None

Loading == half # Useless

\* Mutant: prices are loaded once.
NeverLoaded == prices = None

Outdated == prices = None \/ age >= PricesTTL

\* model_prices; an error of GetSetting reads as "".
ReadPrices ==
  /\ ~Loading
  /\ Outdated
  /\ \/ half' = Meaning(rows[1]) /\ UNCHANGED quiet
     \/ DbMayFail /\ half' = None /\ quiet' = 0
  /\ reading' = 0
  /\ UNCHANGED <<rows, todo, prices, age>>

\* rate_multiplier; the time is taken when both have been read.
ReadMultiplier ==
  /\ Loading
  /\ \/ prices' = <<half, Meaning(rows[2])>> /\ UNCHANGED quiet
     \/ DbMayFail /\ prices' = <<half, None>> /\ quiet' = 0
  /\ age' = 0
  /\ half' = Useless
  /\ reading' = 0
  /\ UNCHANGED <<rows, todo>>

AtMost(bound, n) == IF n < bound THEN n ELSE bound

Tick ==
  /\ Loading => reading < MaxRead
  /\ age' = IF prices = None THEN age ELSE AtMost(PricesTTL, age + 1)
  /\ reading' = IF Loading THEN reading + 1 ELSE reading
  /\ quiet' = AtMost(Rested, quiet + 1)
  /\ UNCHANGED <<rows, todo, prices, half>>

\* The process ends: handlers stop between two statements, the cache is gone.
ForgetSettings ==
  /\ todo' = [h \in Handlers |-> None]
  /\ prices' = None
  /\ age' = 0
  /\ half' = Useless
  /\ reading' = 0
  /\ UNCHANGED <<rows, quiet>>

-----------------------------------------------------------------------------
(* Properties.                                                              *)

Tariff == [k \in SettingKeys |-> Meaning(rows[k])]

\* billing.go:16, a tariff that is stored takes effect up to pricesTTL later.
\* Once the rows have rested for that time and for as long as a reload may take,
\* and no read of them has failed, a log is charged by exactly the stored prices
\* and factor, never by a mixture of two PUTs, by a default read in an error, or
\* by what a PUT that was cut off had replaced.
SettledPrices ==
  (quiet = Rested /\ ~Outdated) => prices = Tariff

\* runtimecfg.go:2, what is written is in force at once, gateway and billing read
\* it whenever they need it; workbench/web/app.js:294, saved and in force.  Once
\* every PUT has been answered a log is not charged by what was stored before.
SavedIsInForce ==
  (\A h \in Handlers : todo[h] = None) /\ ~Loading /\ ~Outdated => prices = Tariff
=============================================================================
