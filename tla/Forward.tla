------------------------------ MODULE Forward -------------------------------
(***************************************************************************)
(* The forwarding loop of internal/gateway/forward.go over the account      *)
(* pool: concurrent requests pick an account, take one of its slots, build  *)
(* a signed request (which may first have to fetch a device ticket), send   *)
(* it, and then answer the client, back off on the same account, or move to *)
(* another one.  Clients may disconnect at any point.                       *)
(*                                                                         *)
(* A step is what runs between two points where another goroutine can       *)
(* interfere: the pool's mutex, the slot counter, a network exchange.       *)
(***************************************************************************)
EXTENDS Pool

CONSTANTS
  Requests,         \* handler goroutines
  Affinities,       \* the affinity keys that requests bring (None: no session)
  AccountMax,       \* accountMaxConc: never 0 here, 5 stands in for it
  CapacityRetries   \* capacity_retries

ASSUME RequestAssumption ==
  /\ IsFiniteSet(Requests) /\ IsFiniteSet(Accounts)
  /\ Affinities \subseteq Keys \cup {None}
  /\ AccountMax \in Nat \ {0}
  /\ CapacityRetries \in Nat

VARIABLES
  inflight,    \* Entry.Inflight
  ticket,      \* Client.ticket: whether a live ticket is cached
  pc,          \* where a request is
  client,      \* whether its client is still connected (r.Context())
  affinity,    \* norm.AffinityKey
  entry,       \* the entry in hand
  exclude,     \* the accounts it will not try again
  attempt,     \* attempts on the entry in hand
  refused,     \* the accounts that answered 401
  broken,      \* the accounts that failed before answering (sawTransportErr)
  outcome      \* what the client was answered

requestVars == <<pc, client, affinity, entry, exclude, attempt, refused, broken, outcome>>
vars == <<poolVars, inflight, ticket, requestVars>>

Holding == {"sign", "mint", "send", "backoff", "body", "switch", "respond"}
Outcomes == {"none", "ok", "passed", "unauthorized", "badgateway", "unavailable", "aborted"}

ForwardTypeOK ==
  /\ TypeOK
  /\ inflight \in [Accounts -> 0 .. AccountMax]
  /\ ticket \in [Accounts -> BOOLEAN]
  /\ pc \in [Requests -> {"idle", "pick", "acquire", "done"} \cup Holding]
  /\ client \in [Requests -> BOOLEAN]
  /\ affinity \in [Requests -> Keys \cup {None}]
  /\ entry \in [Requests -> Accounts \cup {None}]
  /\ exclude \in [Requests -> SUBSET Accounts]
  /\ attempt \in [Requests -> 0 .. CapacityRetries]
  /\ refused \in [Requests -> SUBSET Accounts]
  /\ broken \in [Requests -> SUBSET Accounts]
  /\ outcome \in [Requests -> Outcomes]

ForwardInit ==
  /\ Init
  /\ inflight = [a \in Accounts |-> 0]
  /\ ticket = [a \in Accounts |-> FALSE]
  /\ pc = [r \in Requests |-> "idle"]
  /\ client = [r \in Requests |-> FALSE]
  /\ affinity = [r \in Requests |-> None]
  /\ entry = [r \in Requests |-> None]
  /\ exclude = [r \in Requests |-> {}]
  /\ attempt = [r \in Requests |-> 0]
  /\ refused = [r \in Requests |-> {}]
  /\ broken = [r \in Requests |-> {}]
  /\ outcome = [r \in Requests |-> "none"]

-----------------------------------------------------------------------------
(* The client's side.                                                       *)

Arrive(r, key) ==
  /\ pc[r] = "idle"
  /\ pc' = [pc EXCEPT ![r] = "pick"]
  /\ client' = [client EXCEPT ![r] = TRUE]
  /\ affinity' = [affinity EXCEPT ![r] = key]
  /\ UNCHANGED <<poolVars, inflight, ticket, entry, exclude, attempt, refused, broken, outcome>>

Disconnect(r) ==
  /\ pc[r] \notin {"idle", "done"}
  /\ client[r]
  /\ client' = [client EXCEPT ![r] = FALSE]
  /\ UNCHANGED <<poolVars, inflight, ticket, pc, affinity, entry, exclude, attempt, refused, broken, outcome>>

\* The handler has returned; its goroutine's locals are gone.
Return(r) ==
  /\ pc[r] = "done"
  /\ pc' = [pc EXCEPT ![r] = "idle"]
  /\ client' = [client EXCEPT ![r] = FALSE]
  /\ affinity' = [affinity EXCEPT ![r] = None]
  /\ entry' = [entry EXCEPT ![r] = None]
  /\ exclude' = [exclude EXCEPT ![r] = {}]
  /\ attempt' = [attempt EXCEPT ![r] = 0]
  /\ refused' = [refused EXCEPT ![r] = {}]
  /\ broken' = [broken EXCEPT ![r] = {}]
  /\ outcome' = [outcome EXCEPT ![r] = "none"]
  /\ UNCHANGED <<poolVars, inflight, ticket>>

-----------------------------------------------------------------------------
(* Choosing an account and taking a slot.                                   *)

PickEntry(r) ==
  /\ pc[r] = "pick"
  /\ \/ \E a \in Accounts :
          /\ Pick(exclude[r], affinity[r], a)
          /\ pc' = [pc EXCEPT ![r] = "acquire"]
          /\ entry' = [entry EXCEPT ![r] = a]
          /\ UNCHANGED outcome
     \/ /\ PickNothing(exclude[r], affinity[r])
        /\ pc' = [pc EXCEPT ![r] = "done"]
        /\ outcome' = [outcome EXCEPT ![r] =
                         IF broken[r] # {} THEN "badgateway" ELSE "unavailable"]
        /\ UNCHANGED entry
  /\ UNCHANGED <<inflight, ticket, client, affinity, exclude, attempt, refused, broken>>

\* Mutant: the limit is read as inclusive.
SlotFreeInclusive(a) == inflight[a] <= AccountMax

SlotFree(a) == inflight[a] < AccountMax

\* TryAcquire; a full account is excluded for the rest of the request.
AcquireSlot(r) ==
  /\ pc[r] = "acquire"
  /\ IF SlotFree(entry[r])
     THEN /\ inflight' = [inflight EXCEPT ![entry[r]] = @ + 1]
          /\ pc' = [pc EXCEPT ![r] = "sign"]
          /\ UNCHANGED <<exclude, entry>>
     ELSE /\ exclude' = [exclude EXCEPT ![r] = @ \cup {entry[r]}]
          /\ entry' = [entry EXCEPT ![r] = None]
          /\ pc' = [pc EXCEPT ![r] = "pick"]
          /\ UNCHANGED inflight
  /\ UNCHANGED <<poolVars, ticket, client, affinity, attempt, refused, broken, outcome>>

-----------------------------------------------------------------------------
(* One attempt on the entry in hand (tryEntry).                             *)

\* Client.Ticket looks into its cache; a miss goes to the network, unlocked.
Sign(r) ==
  /\ pc[r] = "sign"
  /\ pc' = [pc EXCEPT ![r] = IF ticket[entry[r]] THEN "send" ELSE "mint"]
  /\ UNCHANGED <<poolVars, inflight, ticket, client, affinity, entry, exclude, attempt, refused, broken, outcome>>

\* A fresh ticket, which needs the request's context alive.
MintOK(r) ==
  /\ pc[r] = "mint"
  /\ client[r]
  /\ ticket' = [ticket EXCEPT ![entry[r]] = TRUE]
  /\ pc' = [pc EXCEPT ![r] = "send"]
  /\ UNCHANGED <<poolVars, inflight, client, affinity, entry, exclude, attempt, refused, broken, outcome>>

\* There is a ticket, cached or fresh, and the request cannot be sealed with
\* it or built: SignedRequest fails all the same.
SealFails(r) ==
  /\ \/ pc[r] = "sign" /\ ticket[entry[r]] /\ UNCHANGED ticket
     \/ pc[r] = "mint" /\ client[r] /\ ticket' = [ticket EXCEPT ![entry[r]] = TRUE]
  /\ ReportFailure(entry[r], FALSE)
  /\ broken' = [broken EXCEPT ![r] = @ \cup {entry[r]}]
  /\ pc' = [pc EXCEPT ![r] = "switch"]
  /\ UNCHANGED <<inflight, client, affinity, entry, exclude, attempt, refused, outcome>>

\* No ticket could be had, for whatever reason (the client's departure is
\* one): the account is blamed and the request moves on.
MintFails(r) ==
  /\ pc[r] = "mint"
  /\ \E relayFault \in BOOLEAN : ReportFailure(entry[r], relayFault)
  /\ broken' = [broken EXCEPT ![r] = @ \cup {entry[r]}]
  /\ pc' = [pc EXCEPT ![r] = "switch"]
  /\ UNCHANGED <<inflight, ticket, client, affinity, entry, exclude, attempt, refused, outcome>>

\* Do returned an error while the client is still there.
SendFails(r) ==
  /\ pc[r] = "send"
  /\ client[r]
  /\ ReportFailure(entry[r], FALSE)
  /\ broken' = [broken EXCEPT ![r] = @ \cup {entry[r]}]
  /\ pc' = [pc EXCEPT ![r] = "switch"]
  /\ UNCHANGED <<inflight, ticket, client, affinity, entry, exclude, attempt, refused, outcome>>

\* Do returned an error, or the capacity backoff was cut, because the client
\* left.
ClientGone(r) ==
  /\ pc[r] \in {"send", "backoff"}
  /\ ~client[r]
  /\ outcome' = [outcome EXCEPT ![r] = "aborted"]
  /\ pc' = [pc EXCEPT ![r] = "respond"]
  /\ UNCHANGED <<poolVars, inflight, ticket, client, affinity, entry, exclude, attempt, refused, broken>>

RetriesLeft(r) == attempt[r] < CapacityRetries

\* 503 model_capacity_exhausted with retries left.
NoCapacity(r) ==
  /\ pc[r] = "send"
  /\ RetriesLeft(r)
  /\ pc' = [pc EXCEPT ![r] = "backoff"]
  /\ UNCHANGED <<poolVars, inflight, ticket, client, affinity, entry, exclude, attempt, refused, broken, outcome>>

\* Mutant: the attempt is repeated and not counted.
SameAttempt(r) == attempt[r]

NextAttempt(r) == attempt[r] + 1

BackoffOver(r) ==
  /\ pc[r] = "backoff"
  /\ attempt' = [attempt EXCEPT ![r] = NextAttempt(r)]
  /\ pc' = [pc EXCEPT ![r] = "sign"]
  /\ UNCHANGED <<poolVars, inflight, ticket, client, affinity, entry, exclude, refused, broken, outcome>>

\* Mutant: the first 401 is already passed through.
SecondRefusalEager(r) == TRUE

\* retried401: an earlier account of this request answered 401 too.
SecondRefusal(r) == refused[r] # {}

\* 401: the cached ticket is dropped; the second one is passed through.
Unauthorized(r) ==
  /\ pc[r] = "send"
  /\ ticket' = [ticket EXCEPT ![entry[r]] = FALSE]
  /\ refused' = [refused EXCEPT ![r] = @ \cup {entry[r]}]
  /\ IF SecondRefusal(r)
     THEN /\ outcome' = [outcome EXCEPT ![r] = "unauthorized"]
          /\ pc' = [pc EXCEPT ![r] = "respond"]
     ELSE /\ pc' = [pc EXCEPT ![r] = "switch"]
          /\ UNCHANGED outcome
  /\ UNCHANGED <<poolVars, inflight, client, affinity, entry, exclude, attempt, broken>>

\* 2xx: success is reported before the body is read.
Succeed(r) ==
  /\ pc[r] = "send"
  /\ ReportSuccess(entry[r])
  /\ outcome' = [outcome EXCEPT ![r] = "ok"]
  /\ pc' = [pc EXCEPT ![r] = "body"]
  /\ UNCHANGED <<inflight, ticket, client, affinity, entry, exclude, attempt, refused, broken>>

BodyEnds(r) ==
  /\ pc[r] = "body"
  /\ pc' = [pc EXCEPT ![r] = "respond"]
  /\ UNCHANGED <<poolVars, inflight, ticket, client, affinity, entry, exclude, attempt, refused, broken, outcome>>

\* Every other status is passed through; all but a spent capacity 503 are
\* reported, and the pool does not count those from 500 up.
BlameForStatus(r) ==
  \/ ~RetriesLeft(r) /\ UNCHANGED poolVars
  \/ \E relayFault \in BOOLEAN : ReportFailure(entry[r], relayFault)

PassThrough(r) ==
  /\ pc[r] = "send"
  /\ BlameForStatus(r)
  /\ outcome' = [outcome EXCEPT ![r] = "passed"]
  /\ pc' = [pc EXCEPT ![r] = "respond"]
  /\ UNCHANGED <<inflight, ticket, client, affinity, entry, exclude, attempt, refused, broken>>

ExcludeEntry(r) == exclude[r] \cup {entry[r]}

\* The deferred Release; then the loop excludes the account and goes on.
Switch(r) ==
  /\ pc[r] = "switch"
  /\ inflight' = [inflight EXCEPT ![entry[r]] = @ - 1]
  /\ exclude' = [exclude EXCEPT ![r] = ExcludeEntry(r)]
  /\ entry' = [entry EXCEPT ![r] = None]
  /\ attempt' = [attempt EXCEPT ![r] = 0]
  /\ pc' = [pc EXCEPT ![r] = "pick"]
  /\ UNCHANGED <<poolVars, ticket, client, affinity, refused, broken, outcome>>

\* The deferred Release of an attempt that has answered.
Respond(r) ==
  /\ pc[r] = "respond"
  /\ inflight' = [inflight EXCEPT ![entry[r]] = @ - 1]
  /\ pc' = [pc EXCEPT ![r] = "done"]
  /\ UNCHANGED <<poolVars, ticket, client, affinity, entry, exclude, attempt, refused, broken, outcome>>

-----------------------------------------------------------------------------
(* The pool's own steps, and tickets running out.                           *)

PoolStep == Environment /\ UNCHANGED <<inflight, ticket, requestVars>>

TicketExpires(a) ==
  /\ ticket[a]
  /\ ticket' = [ticket EXCEPT ![a] = FALSE]
  /\ UNCHANGED <<poolVars, inflight, requestVars>>

Handle(r) ==
  \/ PickEntry(r) \/ AcquireSlot(r)
  \/ Sign(r) \/ SealFails(r) \/ MintOK(r) \/ MintFails(r) \/ SendFails(r) \/ ClientGone(r)
  \/ NoCapacity(r) \/ BackoffOver(r)
  \/ Unauthorized(r) \/ Succeed(r) \/ BodyEnds(r) \/ PassThrough(r)
  \/ Switch(r) \/ Respond(r)

ForwardNext ==
  \/ PoolStep
  \/ \E a \in Accounts : TicketExpires(a)
  \/ \E r \in Requests :
       \/ \E key \in Affinities : Arrive(r, key)
       \/ Disconnect(r) \/ Return(r) \/ Handle(r)

ForwardSpec == ForwardInit /\ [][ForwardNext]_vars

-----------------------------------------------------------------------------
(* Properties.                                                              *)

\* Requests that hold one of an entry's slots.
Holders(a) == {r \in Requests : pc[r] \in Holding /\ entry[r] = a}

\* Every way out of tryEntry gives its slot back once: the counter is the
\* number of attempts under way, and never passes the limit.
SlotsConserved ==
  \A a \in Accounts : /\ inflight[a] = Cardinality(Holders(a))
                       /\ inflight[a] <= AccountMax

\* A request never comes back to an account it has left, whatever sticky
\* sessions, reloads and other requests do meanwhile.
NoSecondTry ==
  \A r \in Requests :
    pc[r] \in Holding \cup {"acquire"} => entry[r] \notin exclude[r]

\* A 401 reaches the client only after two accounts gave one, and no third
\* account is asked (forward.go:92).
RefusedTwice ==
  \A r \in Requests :
    /\ Cardinality(refused[r]) <= 2
    /\ outcome[r] = "unauthorized" <=> Cardinality(refused[r]) = 2

\* The account of a live session that is still usable is replaced only by a
\* request of that session which has ruled the account out; an eviction may
\* only take the least recently used session.
SessionMovesForCause ==
  [][\A k \in Keys :
       (/\ k \in CachedKeys
        /\ ~Expired(k)
        /\ Usable(sticky[k].account)
        /\ sticky'[k].account # sticky[k].account)
       => \/ sticky'[k] = NoSticky /\ k = lru[1]
          \/ \E r \in Requests : /\ pc[r] = "pick"
                                 /\ affinity[r] = k
                                 /\ sticky[k].account \in exclude[r]]_vars

\* How far a request is from its answer: accounts left to try, then capacity
\* retries left on the one in hand, then the way to go with it.
Untried(r) == Cardinality(Accounts \ exclude[r])
Retries(r) == CapacityRetries - attempt[r]
Stage(r) ==
  CASE pc[r] = "pick" -> 8 [] pc[r] = "acquire" -> 7 [] pc[r] = "sign" -> 6
    [] pc[r] = "mint" -> 5 [] pc[r] = "send" -> 4 [] pc[r] \in {"backoff", "body"} -> 3
    [] pc[r] = "switch" -> 2 [] pc[r] = "respond" -> 1 [] OTHER -> 0

Nearer(r) ==
  \/ Untried(r)' < Untried(r)
  \/ /\ Untried(r)' = Untried(r)
     /\ \/ Retries(r)' < Retries(r)
        \/ Retries(r)' = Retries(r) /\ Stage(r)' < Stage(r)

\* Every request is answered: whatever the other requests, the pool and the
\* clients do, each step of its own brings it nearer, so that the loop cannot
\* go round for ever.
AnswerNears ==
  [][\A r \in Requests :
       pc[r] \notin {"idle", "done"} =>
         \/ UNCHANGED <<pc[r], entry[r], exclude[r], attempt[r]>>
         \/ Nearer(r)]_vars

\* A request's step that reports a failure of the account in hand because the
\* network exchange ended when the client left.
BlamedForLeaving(r) ==
  broken'[r] # broken[r] /\ pc[r] \in {"mint", "send"} /\ ~client[r]

\* A counted failure after which the account does not cool, or less than before.
CountedInVain(a) ==
  failures'[a] > failures[a] /\ (cooldown'[a] = 0 \/ cooldown'[a] < cooldown[a])

\* forward.go:162, "client disconnected, no further retry": its departure is no
\* fault of the account.  pool.go:383, "15s doubled per failure, at most 10
\* minutes": a counted failure leaves the account cooling, at least as long as
\* it had to.  Of these no step breaks both at once.
BlameKeepsAPromise ==
  [][~((\E r \in Requests : BlamedForLeaving(r)) /\ (\E a \in Accounts : CountedInVain(a)))]_vars
=============================================================================
