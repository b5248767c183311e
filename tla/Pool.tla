-------------------------------- MODULE Pool --------------------------------
(***************************************************************************)
(* The account pool of internal/pool/pool.go: which upstream account serves *)
(* a request.  Pick prefers the account a session used last (the sticky     *)
(* map, an LRU with a TTL) and otherwise draws any usable account; reports  *)
(* of success and failure drive an exponential cooldown; Reload installs    *)
(* what the store lists; quota snapshots arrive from RefreshLimits.         *)
(*                                                                         *)
(* Time is kept as what is left of every deadline: Tick takes one unit off  *)
(* each.  The weights of the random draw are abstracted to "any usable      *)
(* account": minWeight keeps every weight positive.                         *)
(***************************************************************************)
EXTENDS Integers, Sequences, FiniteSets, SequencesExt

CONSTANTS
  Accounts,      \* account ids; an id is minted once and never comes back
  Keys,          \* affinity keys (sessions)
  None,          \* no account / no affinity key
  StickyTTL,     \* stickyTTL, in ticks
  StickyMax,     \* stickyMaxEntries
  BaseBackoff,   \* baseBackoff, in ticks
  MaxBackoff,    \* maxBackoff, in ticks
  WordSize,      \* 2^w of the integer that holds a duration (2^64 in Go)
  MaxFailures,   \* bound: consecutive counted failures explored
  Listings,      \* what a store listing may say of an account
  Quotas         \* the quota verdicts a snapshot may carry

ASSUME NoneAssumption == None \notin Accounts \cup Keys
ASSUME StickyAssumption == StickyTTL \in Nat /\ StickyMax \in Nat \ {0}
ASSUME BackoffAssumption ==
  /\ BaseBackoff \in Nat \ {0}
  /\ MaxBackoff \in Nat \ {0}
  /\ WordSize \in Nat \ {0}
  /\ MaxFailures \in Nat
ASSUME InputAssumption ==
  /\ Listings \subseteq {"absent", "on", "off"}
  /\ Quotas \subseteq {"open", "barred"}

VARIABLES
  status,     \* status[a]: not in entries yet, Enabled, disabled, or deleted
  failures,   \* Entry.failures
  cooldown,   \* Entry.cooldownUntil, as the time that is left of it
  quota,      \* Entry.limits: no snapshot, room left, or suspended/used up
  sticky,     \* Pool.sticky
  lru         \* Pool.lru, the least recently used key first

healthVars == <<failures, cooldown>>
sessionVars == <<sticky, lru>>
poolVars == <<status, failures, cooldown, quota, sticky, lru>>

NoSticky == [account |-> None, left |-> -1]
StickyEntry == [account : Accounts, left : -1 .. StickyTTL]

TypeOK ==
  /\ status \in [Accounts -> {"absent", "on", "off", "gone"}]
  /\ failures \in [Accounts -> 0 .. MaxFailures]
  /\ cooldown \in [Accounts -> 0 .. MaxBackoff]
  /\ quota \in [Accounts -> {"none", "open", "barred"}]
  /\ sticky \in [Keys -> StickyEntry \cup {NoSticky}]
  /\ lru \in Seq(Keys)

-----------------------------------------------------------------------------
(* Health: the backoff and what makes an entry usable.                      *)

\* baseBackoff << (n-1) in a two's complement word.
ShiftedBackoff(n) ==
  LET word == (BaseBackoff * 2 ^ (n - 1)) % WordSize
  IN  IF 2 * word >= WordSize THEN word - WordSize ELSE word

\* Mutant: a shift that ran into the sign bit is not capped.
BackoffUnsigned(n) ==
  IF ShiftedBackoff(n) > MaxBackoff THEN MaxBackoff ELSE ShiftedBackoff(n)

\* The cooldown that the n-th consecutive failure starts.
Backoff(n) ==
  LET shifted == ShiftedBackoff(n)
  IN  IF shifted > MaxBackoff \/ shifted < 0 THEN MaxBackoff ELSE shifted

\* Each shift doubles the one before, or leaves the word past the cap, below
\* zero or empty.  Of Go's values this is so for every count: 15 s are an odd
\* number of 2^9 ns, so shifts by 30 and 31 are negative, those by 32 to 54
\* are multiples of 2^41 ns, which is past 10 minutes, and from 55 on nothing
\* is left.
ASSUME WordAssumption ==
  \A n \in 1 .. MaxFailures :
    \/ ShiftedBackoff(n) <= 0
    \/ ShiftedBackoff(n) > MaxBackoff
    \/ ShiftedBackoff(n) = IF n = 1 THEN BaseBackoff ELSE 2 * ShiftedBackoff(n - 1)

Usable(a) ==
  /\ status[a] = "on"
  /\ cooldown[a] = 0
  /\ quota[a] # "barred"

Candidates(exclude) == {a \in Accounts \ exclude : Usable(a)}

-----------------------------------------------------------------------------
(* Sessions: the sticky map and its LRU list.                               *)

CachedKeys == {k \in Keys : sticky[k] # NoSticky}

Expired(key) == key \in CachedKeys /\ sticky[key].left < 0

\* Mutant: a session's account is kept only once its quota is known.
HitKnownQuota(exclude, key, a) ==
  /\ key \in CachedKeys
  /\ ~Expired(key)
  /\ a = sticky[key].account
  /\ a \notin exclude
  /\ Usable(a) /\ quota[a] = "open"

StickyHit(exclude, key, a) ==
  /\ key \in CachedKeys
  /\ ~Expired(key)
  /\ a = sticky[key].account
  /\ a \notin exclude
  /\ Usable(a)

\* The list element that a map entry points to (stickyEntry.elem).
Elem(key) == CHOOSE i \in DOMAIN lru : lru[i] = key

LruWithout(key) == RemoveAt(lru, Elem(key))

\* Mutant: a hit leaves the key where it is in the list.
TouchInPlace(key, a) ==
  /\ sticky' = [sticky EXCEPT ![key] = [account |-> a, left |-> StickyTTL]]
  /\ UNCHANGED lru

\* A key that is in the map gets the account, a full TTL, and the back of
\* the list.
Touch(key, a) ==
  /\ sticky' = [sticky EXCEPT ![key] = [account |-> a, left |-> StickyTTL]]
  /\ lru' = Append(LruWithout(key), key)

\* How many keys at the front of the list a new one pushes out.
Evictions ==
  LET over == Cardinality(CachedKeys) - StickyMax + 1
  IN  IF over > 0 THEN over ELSE 0

Evicted == {lru[i] : i \in 1 .. Evictions}

\* Mutant: the map is trimmed only once it is past its limit.
InsertPastLimit(key, a) ==
  /\ sticky' = [sticky EXCEPT ![key] = [account |-> a, left |-> StickyTTL]]
  /\ lru' = Append(lru, key)

Insert(key, a) ==
  /\ sticky' = [k \in Keys |->
                  IF k = key THEN [account |-> a, left |-> StickyTTL]
                  ELSE IF k \in Evicted THEN NoSticky ELSE sticky[k]]
  /\ lru' = Append(SubSeq(lru, Evictions + 1, Len(lru)), key)

\* An expired key that is looked up is dropped before the draw; the draw puts
\* it back at the end, exactly as overwriting it does.
SetSticky(key, a) ==
  IF key = None THEN UNCHANGED sessionVars
  ELSE IF key \in CachedKeys THEN Touch(key, a) ELSE Insert(key, a)

DropExpired(key) ==
  IF key # None /\ Expired(key)
  THEN /\ sticky' = [sticky EXCEPT ![key] = NoSticky]
       /\ lru' = LruWithout(key)
  ELSE UNCHANGED sessionVars

-----------------------------------------------------------------------------
(* The operations.                                                          *)

PickSticky(exclude, key, a) ==
  /\ key # None
  /\ StickyHit(exclude, key, a)
  /\ Touch(key, a)
  /\ UNCHANGED <<status, failures, cooldown, quota>>

PickDrawn(exclude, key, a) ==
  /\ key = None \/ \A b \in Accounts : ~StickyHit(exclude, key, b)
  /\ a \in Candidates(exclude)
  /\ SetSticky(key, a)
  /\ UNCHANGED <<status, failures, cooldown, quota>>

PickNothing(exclude, key) ==
  /\ Candidates(exclude) = {}
  /\ DropExpired(key)
  /\ UNCHANGED <<status, failures, cooldown, quota>>

Pick(exclude, key, a) == PickSticky(exclude, key, a) \/ PickDrawn(exclude, key, a)

\* Mutant: only the count is cleared.
ReportSuccessKeepsCooldown(a) ==
  /\ failures' = [failures EXCEPT ![a] = 0]
  /\ UNCHANGED <<status, cooldown, quota, sticky, lru>>

ReportSuccess(a) ==
  /\ failures' = [failures EXCEPT ![a] = 0]
  /\ cooldown' = [cooldown EXCEPT ![a] = 0]
  /\ UNCHANGED <<status, quota, sticky, lru>>

\* A failure that is not a relay fault (status >= 500) is counted and cools.
ReportFailure(a, relayFault) ==
  /\ IF relayFault
     THEN UNCHANGED healthVars
     ELSE /\ failures[a] < MaxFailures
          /\ failures' = [failures EXCEPT ![a] = @ + 1]
          /\ cooldown' = [cooldown EXCEPT ![a] = Backoff(failures[a] + 1)]
  /\ UNCHANGED <<status, quota, sticky, lru>>

\* RefreshLimits installs a snapshot.
ApplyQuota(a, q) ==
  /\ status[a] \in {"on", "off"}
  /\ quota' = [quota EXCEPT ![a] = q]
  /\ UNCHANGED <<status, failures, cooldown, sticky, lru>>

\* Reload with the listing it read from the store: known entries keep their
\* runtime state, new ones start afresh, unlisted ones leave the pool.  A row
\* that is gone does not come back: listings are taken to be applied in the
\* order they were read in, which Accounts does not assume.
Reload(listing) ==
  /\ \A a \in Accounts : status[a] = "gone" => listing[a] = "absent"
  /\ status' = [a \in Accounts |->
                  IF listing[a] # "absent" THEN listing[a]
                  ELSE IF status[a] = "absent" THEN "absent" ELSE "gone"]
  /\ UNCHANGED <<failures, cooldown, quota, sticky, lru>>

Elapse(left, least) == IF left > least THEN left - 1 ELSE least

Tick ==
  /\ cooldown' = [a \in Accounts |-> Elapse(cooldown[a], 0)]
  /\ sticky' = [k \in Keys |-> [sticky[k] EXCEPT !.left = Elapse(@, -1)]]
  /\ UNCHANGED <<status, failures, quota, lru>>

-----------------------------------------------------------------------------
(* The pool under any caller.                                               *)

Init ==
  /\ status = [a \in Accounts |-> "absent"]
  /\ failures = [a \in Accounts |-> 0]
  /\ cooldown = [a \in Accounts |-> 0]
  /\ quota = [a \in Accounts |-> "none"]
  /\ sticky = [k \in Keys |-> NoSticky]
  /\ lru = <<>>

Environment ==
  \/ Tick
  \/ \E listing \in [Accounts -> Listings] : Reload(listing)
  \/ \E a \in Accounts, q \in Quotas : ApplyQuota(a, q)

Next ==
  \/ Environment
  \/ \E exclude \in SUBSET Accounts, key \in Keys \cup {None} :
       \/ \E a \in Accounts : Pick(exclude, key, a)
       \/ PickNothing(exclude, key)
  \/ \E a \in Accounts :
       /\ status[a] # "absent"
       /\ \/ ReportSuccess(a)
          \/ \E relayFault \in BOOLEAN : ReportFailure(a, relayFault)

Spec == Init /\ [][Next]_poolVars

-----------------------------------------------------------------------------
(* Properties.                                                              *)

\* The map and the list that orders it always name the same sessions, each
\* once, and never more than StickyMax of them: setSticky, removeSticky and
\* Pick's expiry each update both.
StickyAgrees ==
  /\ CachedKeys = Range(lru)
  /\ \A i, j \in 1 .. Len(lru) : lru[i] = lru[j] => i = j
  /\ Len(lru) <= StickyMax

\* What setSticky evicts from the front is the session that expires first:
\* the list is ordered by expiry, because every use renews the TTL and moves
\* the key to the back in one critical section.
LruByExpiry ==
  \A i, j \in 1 .. Len(lru) :
    i < j => sticky[lru[i]].left <= sticky[lru[j]].left

\* An account cools only for failures that are still on its record, and never
\* longer than the last of them earned: a success clears both.
CoolingIsEarned ==
  \A a \in Accounts :
    cooldown[a] > 0 => /\ failures[a] > 0
                       /\ cooldown[a] <= Backoff(failures[a])

\* A counted failure leaves the account cooling, at least as long as it
\* already had to, whatever the counter has come to; only a backoff that has
\* lost every bit in the shift fails to (pool.go:393).
FailureCools ==
  [][\A a \in Accounts :
       failures'[a] > failures[a] =>
         \/ cooldown'[a] > 0 /\ cooldown'[a] >= cooldown[a]
         \/ ShiftedBackoff(failures'[a]) = 0]_poolVars
=============================================================================
