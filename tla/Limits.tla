------------------------------- MODULE Limits -------------------------------
(***************************************************************************)
(* The quota snapshots of internal/pool/pool.go: RefreshLimits checks the    *)
(* age of the snapshot under the entry's lock, fetches without it, and       *)
(* installs what it got under the lock again, stamped with the time of the   *)
(* installation.  Callers are the background loop, which goes through all    *)
(* entries once per ticker period, and the goroutines that reports of        *)
(* success (unforced), of 401/403 and the administrator (forced) start.      *)
(*                                                                         *)
(* Computation takes no time on the scale of a tick; only fetches do.  The    *)
(* loop's and those after reports have a deadline of 30s; the administrator's  *)
(* runs under its request and has only the time limits of the calls it makes.  *)
(***************************************************************************)
EXTENDS Integers, FiniteSets

CONSTANTS
  Accounts,
  Loop,          \* the goroutine of StartLimitsLoop
  Others,        \* the other goroutines that refresh
  None,
  TTL,           \* limitsTTL, in ticks
  Period,        \* limitsLoopPeriod
  FetchTimeout,  \* the context of a refresh of the loop
  CallsTimeout,  \* the http client's limits of the calls of one refresh
  Unlucky        \* the goroutines whose fetches may fail

ASSUME LimitsAssumption ==
  /\ IsFiniteSet(Accounts)
  /\ Loop \notin Others
  /\ None \notin Accounts
  /\ TTL \in Nat /\ Period \in Nat \ {0} /\ FetchTimeout \in Nat \ {0}
  /\ CallsTimeout \in Nat /\ FetchTimeout <= CallsTimeout

Fetchers == Others \cup {Loop}

Longer(m, n) == IF m >= n THEN m ELSE n

\* The loop may find a snapshot just fresh at the start of a round and reach it
\* at the end of the next, which starts a period later, or when all others have
\* been fetched.
Stalest ==
  TTL + Longer(Period, (Cardinality(Accounts) - 1) * FetchTimeout)
      + Cardinality(Accounts) * FetchTimeout

Deadline(f) == IF f = Loop THEN FetchTimeout ELSE CallsTimeout

\* Bound: ages and times since a bar are followed up to here.
MaxAge == Stalest + 1

VARIABLES
  relay,    \* the relay's verdict on an account: open, or barred for good
  verdict,  \* Entry.limits as Pick reads it
  age,      \* time.Since(limits.FetchedAt)
  since,    \* history: ticks since the relay barred the account
  ticker,   \* ticks to the next tick of the loop's ticker
  due,      \* the ticker's channel is full
  round,    \* the entries this round of the loop has still to visit
  pc,       \* a fetcher: idle, waiting for the relay, or holding its answer
  target,   \* the account it refreshes
  spent,    \* ticks since it started
  answer    \* the verdict it holds

snapVars == <<verdict, age>>
relayVars == <<relay, since>>
loopVars == <<ticker, due, round>>
fetchVars == <<pc, target, spent, answer>>
vars == <<relay, since, verdict, age, ticker, due, round, pc, target, spent, answer>>

TypeOK ==
  /\ relay \in [Accounts -> {"open", "barred"}]
  /\ since \in [Accounts -> 0 .. MaxAge]
  /\ verdict \in [Accounts -> {"none", "open", "barred"}]
  /\ age \in [Accounts -> 0 .. MaxAge]
  /\ ticker \in 1 .. Period
  /\ due \in BOOLEAN
  /\ round \in SUBSET Accounts
  /\ pc \in [Fetchers -> {"idle", "fetch", "have"}]
  /\ target \in [Fetchers -> Accounts \cup {None}]
  /\ spent \in [Fetchers -> 0 .. CallsTimeout] /\ spent[Loop] <= FetchTimeout
  /\ answer \in [Fetchers -> {"none", "open", "barred"}]

Init ==
  /\ relay = [a \in Accounts |-> "open"]
  /\ since = [a \in Accounts |-> 0]
  /\ verdict = [a \in Accounts |-> "none"]
  /\ age = [a \in Accounts |-> 0]
  /\ ticker = Period
  /\ due = FALSE
  /\ round = Accounts
  /\ pc = [f \in Fetchers |-> "idle"]
  /\ target = [f \in Fetchers |-> None]
  /\ spent = [f \in Fetchers |-> 0]
  /\ answer = [f \in Fetchers |-> "none"]

-----------------------------------------------------------------------------
(* RefreshLimits.                                                           *)

\* Mutant: a snapshot is fresh whatever its age.
FreshForEver(a) == verdict[a] # "none"

Fresh(a) == verdict[a] # "none" /\ age[a] <= TTL

StartFetch(f, a, force) ==
  /\ pc[f] = "idle"
  /\ force \/ ~Fresh(a)
  /\ pc' = [pc EXCEPT ![f] = "fetch"]
  /\ target' = [target EXCEPT ![f] = a]
  /\ UNCHANGED <<relayVars, snapVars, ticker, due, spent, answer>>

\* The relay answers with its verdict of this moment.
RelayAnswers(f) ==
  /\ pc[f] = "fetch"
  /\ answer' = [answer EXCEPT ![f] = relay[target[f]]]
  /\ pc' = [pc EXCEPT ![f] = "have"]
  /\ UNCHANGED <<relayVars, snapVars, loopVars, target, spent>>

Idle(f) ==
  /\ pc' = [pc EXCEPT ![f] = "idle"]
  /\ target' = [target EXCEPT ![f] = None]
  /\ spent' = [spent EXCEPT ![f] = 0]
  /\ answer' = [answer EXCEPT ![f] = "none"]

\* An error or the timeout: only limitsError is set.
FetchFails(f) ==
  /\ f \in Unlucky
  /\ pc[f] \in {"fetch", "have"}
  /\ Idle(f)
  /\ UNCHANGED <<relayVars, snapVars, loopVars>>

Apply(f) ==
  /\ pc[f] = "have"
  /\ verdict' = [verdict EXCEPT ![target[f]] = answer[f]]
  /\ age' = [age EXCEPT ![target[f]] = 0]
  /\ Idle(f)
  /\ UNCHANGED <<relayVars, loopVars>>

-----------------------------------------------------------------------------
(* Callers.                                                                 *)

\* ReportSuccess (unforced), ReportFailure and the administrator (forced).
OtherRefreshes(f, a, force) ==
  /\ StartFetch(f, a, force)
  /\ UNCHANGED round

LoopRefreshes(a) ==
  /\ a \in round
  /\ StartFetch(Loop, a, FALSE)
  /\ round' = round \ {a}

LoopSkips(a) ==
  /\ pc[Loop] = "idle"
  /\ a \in round
  /\ Fresh(a)
  /\ round' = round \ {a}
  /\ UNCHANGED <<relayVars, snapVars, ticker, due, fetchVars>>

RoundStarts ==
  /\ pc[Loop] = "idle" /\ round = {} /\ due
  /\ due' = FALSE
  /\ round' = Accounts
  /\ UNCHANGED <<relayVars, snapVars, ticker, fetchVars>>

LoopStep ==
  \/ \E a \in Accounts : LoopRefreshes(a) \/ LoopSkips(a)
  \/ RoundStarts

-----------------------------------------------------------------------------
(* The relay and time.                                                      *)

Bar(a) ==
  /\ relay[a] = "open"
  /\ relay' = [relay EXCEPT ![a] = "barred"]
  /\ UNCHANGED <<since, snapVars, loopVars, fetchVars>>

LoopResting == pc[Loop] # "idle" \/ (round = {} /\ ~due)

\* Mutant: fetches without a deadline.
NoDeadline(f) == TRUE

InTime(f) == pc[f] # "idle" => spent[f] < Deadline(f)

Grow(n, grows) == IF grows /\ n < MaxAge THEN n + 1 ELSE n

Tick ==
  /\ LoopResting
  /\ \A f \in Fetchers : InTime(f)
  /\ spent' = [f \in Fetchers |-> IF pc[f] # "idle" THEN spent[f] + 1 ELSE 0]
  /\ age' = [a \in Accounts |-> Grow(age[a], verdict[a] # "none")]
  /\ since' = [a \in Accounts |-> Grow(since[a], relay[a] = "barred")]
  /\ ticker' = IF ticker = 1 THEN Period ELSE ticker - 1
  /\ due' = (due \/ ticker = 1)
  /\ UNCHANGED <<relay, verdict, round, pc, target, answer>>

Next ==
  \/ \E f \in Fetchers : RelayAnswers(f) \/ FetchFails(f) \/ Apply(f)
  \/ \E f \in Others, a \in Accounts, force \in BOOLEAN : OtherRefreshes(f, a, force)
  \/ LoopStep
  \/ \E a \in Accounts : Bar(a)
  \/ Tick

Spec == Init /\ [][Next]_vars

\* Time passes, the loop runs, and every fetch comes to its end.
FairSpec ==
  /\ Spec
  /\ WF_vars(Tick) /\ WF_vars(LoopStep)
  /\ \A f \in Fetchers : WF_vars(RelayAnswers(f)) /\ WF_vars(Apply(f))

-----------------------------------------------------------------------------
(* Properties.                                                              *)

\* With a relay that answers the loop, no snapshot outlives limitsTTL, a period
\* or a round, and the fetches of another round, although the loop's visit may
\* find it just short of stale and other refreshes fail.
AgeBounded == \A a \in Accounts : age[a] <= Stalest

\* A snapshot is never older than it claims by more than a fetch takes: even when
\* answers are installed in the wrong order, an account that shows room was
\* not barred longer than the longest fetch before the snapshot's stamp.
OpenIsRecent ==
  \A a \in Accounts :
    relay[a] = "barred" /\ verdict[a] = "open" => since[a] <= age[a] + CallsTimeout

\* An account that the relay has barred for good comes to be barred in the
\* pool for good, although answers from before may be installed after it.
BarReachesPool ==
  \A a \in Accounts : relay[a] = "barred" ~> [](verdict[a] = "barred")
=============================================================================
