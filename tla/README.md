# Specification of the mirasim gateway and its workbench

TLA+ models of the gateway in `src/internal` and `src/cmd/server`, and of the
desktop companion in `src/workbench` that runs it; TLC configurations that
check them on small instances; and TLAPS proofs of the properties that matter
most, for every value of the constants.

    tlc -workers 2 -config PoolSelection.cfg MCPool.tla     # one run
    tlapm Forward_proofs.tla                                # one proof module

`PROJECT.json` lists the components, the runs, the mutants, the source lines
that every definition stands for, the hazards and the theorems.

## 1. The system

A client sends an Anthropic-style request with an API key.  The gateway checks
the key and its limits, rewrites the body, draws an upstream account from a
pool, signs the request with a device ticket, forwards it, streams the answer
back and records what it cost.  Administrators add accounts (by token, by email
code, by an OAuth flow in the browser), keys and settings.  A desktop workbench
starts and stops the gateway process.  Everything shared sits in one process,
in one SQLite file, and in one small file beside it.

| Part | State it keeps | Operations | Talks to |
|---|---|---|---|
| account pool, `internal/pool/pool.go` | entries, failures and cooldowns, quota snapshots, sticky sessions with an LRU list, slots in use | `Pick`, `ReportSuccess`, `ReportFailure`, `Reload`, `RefreshLimits`, `TryAcquire`, `Release` | called by every handler and by the administration; lists the store |
| forwarding, `internal/gateway/forward.go` | per request: accounts ruled out, attempts, answers seen | `forward`, `tryEntry` | pool, upstream client |
| upstream client, `internal/mirasim/client.go` | refresh token, access token, device ticket, per account | `AccessToken`, `SignedRequest` | auth server; the store through `OnRotate` |
| key limits, `internal/gateway/auth.go` | a semaphore and a sliding window per key and handler | `authenticate`, `acquire`, `allow` | store; mounted twice by `cmd/server/main.go` |
| billing, `internal/billing/billing.go` | a buffer of usage logs | `Record`, `Flush`, the loop, `Close` | store; stopped by `main.run` |
| accounts administration, `internal/admin/accounts.go`, `internal/store/store.go` | the accounts table | add, enable, disable, delete | pool (`Reload`) |
| OAuth, `internal/admin/oauth.go` | flows with a listener each | start, callback, complete, sweep | accounts administration |
| workbench, `workbench/service.go`, `main.go`, `platform_windows.go` | a record of the gateway's process | start, stop, restart, quit | operating system, `/health` |
| keys administration, `keys.go` | table `api_keys` | edit, delete | key limits read the table on every request |
| normalisation, `internal/gateway/normalize.go` | none | `normalize`: system to the top, fingerprint, disguise by a cut, affinity key | called by `handleModel`; reads the disguise in `settings` |
| usage parsing, `internal/billing/usage.go`, `teeStream` | the events of a reply that mention usage | `teeStream`, `Parse*Usage` | billing |
| prices and settings, `billing.go`, `settings.go`, `runtimecfg` | a cached tariff, table `settings` | `refreshPricesLocked`, PUT | administration, `Record` |
| start, `cmd/server/main.go`, `internal/config`, `store.go` | `master.key`, the device row | `run` | file system, store; started by the workbench, also twice |
| console, `workbench/api.go`, `internal/admin/session.go` | a session per workbench, the key that signs it | `handleAdmin`, `adminCookie`, `handleLogin`, `requireAuth` | gateway's administration |
| crypto, web pages | none | pure functions | – |

Where it is hard:

* **Interleaving.** Handlers share the pool under two locks (the pool's, and one
  per entry), the slot counters under atomics, the limiter's windows, the
  credentials; the network exchanges lie between lock sections.  Callbacks of
  one flow repeat; administrators work at once; SQL statements commit one by one.
* **State read, then used after an unlock.** The entry from `Pick`, the key that
  `authenticate` read, the snapshot's age, the account list before a reload, the
  refresh token a rotation starts from, the process id in the record.
* **Order.** Rotations, listings and quota answers are applied in an order that
  need not be the one in which they were made.
* **Stops.** The workbench stops the gateway with `TerminateProcess`, so a crash
  at any moment is the *usual* end of the process; both processes outlive each
  other.
* **Limits.** Slots, session cache, backoff, capacity retries, key concurrency.
* **Ends.** Retry loops, flows nobody completes, buffers that do not fill, waits
  for a gateway that never answers.

`PROJECT.json` has the full list of hazards with the line where each bites.

## 2. Modules

    Pool  <-- Forward           Accounts  <-- OAuth           (EXTENDS)
    Normalize, Usage  <-- Exchange
    Credential  <-- Startup     Settings  <-- Console
    Billing  ==>  Ledger        KeyLimits   Limits   Workbench
    MC<module>: model values and symmetry
    <module>_proofs: theorems; Forward_proofs has Pool's too, OAuth_proofs Accounts',
                     Console_proofs Settings', Startup_proofs Credential's,
                     Billing_proofs those of Exchange

All modules are built alike: constants with named assumptions,
variables named after the fields they stand for, one action per operation or,
where an operation gives up a lock or waits, one action per section of it.
History variables are marked `history`.  An operator whose comment starts with
"Mutant:" is a plausible bug for the definition after it; no specification uses
it.

**Pool.**  `Pick` is one action (it runs under `Pool.mu`): the sticky hit renews
the TTL and moves the key to the back; otherwise any usable account that is not
excluded is drawn and, for a request with a session, entered, which evicts the
front of the list at the limit; an expired entry is dropped on the way.
`ReportFailure` computes the backoff by a shift in a word of `WordSize` as Go
does; `ReportSuccess` clears; `Reload` installs a listing, in the order in which
listings were read (see Accounts for the other order); an account that leaves a
listing is `"gone"` for good but requests may hold it.  Deadlines are kept as the
time left; `Tick` takes a unit off each.  The weights of the draw are left out:
`minWeight` keeps each of them positive, so every usable account can be drawn.

**Forward** extends Pool with any number of handler goroutines.  Control points:
`pick`, `acquire` (the slot counter), `sign`, `mint` (the ticket exchange, only
if none is cached), `send`, `backoff` (retry on the same account while capacity
is short), `body` (streaming), `switch` (to another account), `respond`.  Every
branch of `tryEntry` is an action: transport errors, 401 with its "two accounts"
rule, capacity, pass-through with and without blame, a client that left, a
ticket that cannot be had and a request that cannot be sealed with a good ticket
(`SealFails`).  The pool's own steps happen between those of the handlers.

**KeyLimits.**  `keySlotter.acquire` in its three sections (find or replace the
channel, wait for a place or 30 s, release) and `rateLimiter.allow` with the
clock read before the lock (`skew`), for the copy of the key that
`authenticate` read; `Advance` is what a request does of itself until it is
admitted or refused, `Finish` the end of its service, which nothing bounds.
Meanwhile the row changes one column at a time (`WriteEnabled`, `WriteConcurrency`: `UpdateAPIKey` runs a statement per field),
expires, or is deleted.  Channels have an identity because a changed limit makes
a new one while requests hold places in the old.  Each of the two handlers of
`main.go` has its own channels and its own window; hits are counted by their age, and
`admitted` is what a handler has let through, by age.

**Billing.**  `Record` by handlers; `Flush` split at the lock and between its two
statements; the loop, the handler that filled a batch, and `Close` all flush;
`main.run` from the signal through `Shutdown` (which may give up on handlers) to
`Close` and exit; a crash anywhere, and a restart.

**Ledger** is what that machinery promises, and what the pages that read the two
tables rely on: a log is noted, then written, then charged to the key of its
request, each once and in this order, or given up; none stays due for ever.
Billing implements it (`KeepsBooks`): `due` is what is in the buffer and in the
flushers' hands while the process lives, a failed statement and a crash are
`GiveUp`.

**Credential.**  One account's refresh token in the memory of any number of
gateway processes, in the store, and at the auth server.  `AccessToken` is split
at the lock, the exchange (lost replies, refusals) and `OnRotate` outside the
lock; a new login updates the row and reloads, and `Reload` keeps the `Client`
of an account that it knows.

**Startup** extends Credential with `run()`: `ReadKey`, `CreateKeyFile` and
`WriteKey` are `LoadOrCreateMasterKey` (`os.WriteFile` creates, then writes),
`FindDevice` and `InsertDevice` the two statements of `LoadOrCreateDeviceKey`,
`LoadPool` is `pool.New`, which decrypts, or is left empty if it cannot; from
there on the background loop may refresh, though the port is bound only after
(`Bind`).  A process may be killed between any two steps, and a second one may be
started over the directory at any time; it ends at `Bind` when the first serves.
Whatever is encrypted carries its key.

**Limits.**  `RefreshLimits` split into the check under the lock, the fetch, and
the installation under the lock; called by the loop and by other goroutines,
forced or not.  A fetch of the loop, or after a report, has a deadline of 30 s
(`FetchTimeout`); the administrator's forced one has only the time limits of the
calls it makes (`CallsTimeout`; `Deadline` tells them apart).

**Normalize** (pure operators).  A body is a record of its endpoint, model family
and prefixes, system blocks and messages; a text is a sequence of characters of
one to four bytes, so that a cut by bytes (`Cut`) falls inside a character and
goes back to a boundary as in `truncateSystemBlocks`; what is no character is a
mark of JSON, of one byte.  The loops over blocks and messages are recursive
functions of the position, of which the prover can be shown that they exist.
`Normalized` composes the steps in the order of `normalize`: `StripPrefix`,
`HoistSystem`, `StripTopP`, `InjectFingerprint`, `Cloak` (strict or relaxed),
`WrapInput`.  `AffinityKey` is the tuple of what the code hashes: distinct inputs
stand for distinct hashes.  An input string is wrapped into a message with a block
of kind `input_text`; the block's kind is among the characters hashed, so a client
that sends the string again as a message of another form hashes to another
key.

**Usage** (pure operators).  What an event of a reply says of tokens for each of
the three endpoints, the largest of each count over all events, and what CRLF
line ends do to the split at empty lines (`Garbled`).

**Exchange** extends both with one conversation of several turns: the
administrator changes the disguise at any moment (`PutSetting`), a turn is
normalised under what `Accessor.Get` finds, or under the environment's value if
the row cannot be read (`CloakMode`, `Begin`), and the reply is passed on line by
line while `teeStream` keeps the events that mention usage; it may end anywhere.
A later turn continues the client's own messages, or those that the gateway made
of its input string.  What the relay accepts is measured as the relay reads the
system (`RelayLen`, `RelayHasFingerprint`: bare strings of a list count), not with
`systemLen` and `systemHasFingerprint`.

**Settings** has `handleSettingsPut`, a statement per key in sorted order with
overlapping PUTs and failures between the statements, and
`refreshPricesLocked`, which reads two rows in two statements and keeps the
result for `pricesTTL`.  A value is one that changes the tariff, one that is
accepted and changes nothing (a factor of 0, an empty price list), or none.

**Console** extends it with the workbench's side: `handleAdmin` takes the
session at hand or logs in under `sessionMu`, sends the request, and drops
whatever session there is on a 401; sessions end by time or with the key they
were signed with (another data directory); the gateway ends and starts at any
moment, and `stopLocked` clears the session some time after it terminated the
process.

**Accounts.**  The table, the pool's copy of it, and any number of
administrators whose statements interleave: `Look`/`Insert`/`Update`/`ReadBack`
are `AddAccount`, `Check`/`Write` the handlers of patch and delete,
`List`/`Apply` are `Reload` before and under the lock.  Any statement may fail,
and so may `newClient` on a new row.

**OAuth** extends Accounts with flows: start, expiry, the sweeper, polls, and
callbacks that queue at `callbackMu`, look at the result again under it, and run
`addAccount` with the lock held.  Pasted tokens and email codes are Accounts'
own operations (`Handler`).

**Workbench.**  Processes with reusable ids and unique creation times, ports,
`/health`, and `gateway-process.json`; start, stop, restart and quit under
`serviceMu`, split at every call of the operating system; strangers come and go;
the workbench may be closed or crash anywhere and come back on another port.
Wherever the record is read, or a process identified, it may also look as if
there were none: `record()` drops the errors of `ReadFile` and `Unmarshal`
(`service.go:20`) and `ownedProcess` answers no on any error of the system
(`platform_windows.go:56`).  `misread` remembers a start that went past a gateway
that way.  `stopLocked` ends by clearing the session under `sessionMu`
(`ClearSession`), which a login of a request of the page may hold (`LoginBegins`,
`LoginEnds`).

## 3. Runs

Ten runs pass.  Two are expected to find a violation of what the repository says of
the code (§5).  The runs are what is checked each time; more configurations of
the same modules, to be run by hand, follow below.

| Run | Module | Shows | Bounds |
|---|---|---|---|
| PoolSelection | MCPool | map and LRU list agree and are ordered by expiry; cooling is for failures on the record; a counted failure never shortens a cooldown, unless its shift lost all bits | 2 accounts, 3 sessions, cache of 2, TTL 1, backoff 1 to 3, 4 failures, word of 2^3 |
| ForwardLoop | MCForward | slots are conserved; the 401 rule; sessions move for a cause; each step of a handler brings its answer nearer | 2 requests, 2 accounts, 1 slot each, 1 session, 1 retry |
| ForwardBlame | MCForward | *violation*, §5.1 and §5.2 | 1 request, 1 account, 4 failures, word of 2^3 |
| KeyLimits | MCKeyLimits | tokens conserved; each handler's rate is bounded; a new limit, a disabled or a deleted key takes effect | 2 requests, 2 handlers, 4 channels of each capacity, limits 1 and 2, 1 write to the row, 1 request per window, window 3, skew 1 |
| KeyTwice | MCKeyLimits | *violation*, §5.3 and §5.4 | 2 requests, 2 handlers, concurrency and rate 1, no writes |
| Billing | MCBilling | a log is charged once; a clean stop leaves nothing; Ledger is implemented, with its liveness | 3 requests, 1 key, batch of 2 |
| Restarts | MCStartup | a restart finds a token that works; a new login is used; data stays readable; one device | 2 processes, 2 goroutines each, 4 tokens, 2 logins, 2 master keys, 2 devices |
| LimitsRefresh | MCLimits | age of snapshots; what "room" may hide; a bar reaches the pool | 2 accounts, loop and one other, TTL = period = 2 |
| SignIn | MCOAuth | the pool follows the table; an account per flow; flows end; callbacks are answered | 2 goroutines, 1 flow, 2 operations |
| GatewayProcess | MCWorkbench | only own processes are killed; the record is kept and there is one gateway, with the exceptions named in §5 | 1 workbench, 2 process ids, 2 ports, 3 processes ever |
| ConsoleSessions | MCConsole | prices settle; refusals are bounded; a tariff has only parsed values | 2 requests of the window, 2 handlers, 2 settings, TTL 2, 1 tick per reload, 3 sessions, 1 move of the data directory |
| ExchangeData | MCExchange | the relay finds fingerprint and limit in claude models but for two cases; a second pass changes nothing; the conversation is intact; its key holds; the tokens logged are the largest given | 2 turns, at most 2 system blocks and 2 messages of the kinds in MCExchange, 4 bytes of system, 7 bytes of hashed head, replies of 3 events |

ForwardBlame and KeyTwice each show two statements refuted by one step, or in one
state: `BlameKeepsAPromise` and `KeyLimitHolds` ask only that one of the two be
kept, and it is not.

By hand (`tlc -workers 2 -config <name>.cfg <module>.tla`, each
within a minute but ForwardRemoval, which takes three):

| Configuration | Module | Shows | Bounds |
|---|---|---|---|
| ForwardRemoval | MCForward | passes: slots, the 401 rule and `AnswerNears` while reloads delete accounts between a request's pick, its slot and its report | as ForwardLoop, without a session |
| AccountsTwice | MCAccounts | `OneRowPerPerson` violated, §5.5 | 2 administrators, 1 person |
| SystemLimit, OwnFingerprint, ResponsesKey | MCExchange | `LimitKept`, `FingerprintKept`, `FirstMessageDecides` violated, §5.6 to §5.8 | as ExchangeData |
| SettingsAtOnce | MCConsole | `SavedIsInForce` violated, §5.9 | as ConsoleSessions, statements do not fail |
| MasterKeyKept | MCStartup | `KeyIsKept` violated, §5.10 | 1 process |
| PortAnswers | MCWorkbench | `AnswerIsOwn` violated, §5.11 | 1 workbench, 2 process ids, 1 port |
| ServiceMutex | MCWorkbench | passes: every operation of a workbench ends (`OperationEnds`), with logins that hold `sessionMu` | 1 workbench, 1 process id, 1 port, 2 processes ever |

Why these bounds are enough for the cases to happen, rather than merely small:

* *PoolSelection*: with three sessions and a cache of two every insertion may
  evict, expire and renew; two accounts let a sticky account be excluded,
  cooling, off or gone while another is usable; four failures pass the cap
  of the backoff, come out negative, and lose all bits of the shift: the word is so
  narrow that what Go's does at the 56th failure happens at the fourth.
* *ForwardLoop*: two requests compete for single slots; a request
  has another account to move to, and none after that; one retry makes "retries
  left" and "none left" both happen; two accounts are what the 401 rule needs.
  Accounts stay listed there; one that a reload deletes while a request has it in
  hand is in ForwardRemoval, by hand, and in the theorems.
* *KeyLimits*: two limits and a write between two requests leave one request
  with a place in a replaced channel while the other asks for the old capacity
  again; a request whose clock is a tick behind comes to the lock before or after
  one of the next tick; two handlers with a rate of one let the key pass twice,
  which KeyTwice shows.  With one handler two writes were explored as well.  A number may be used again for a
  channel that nothing refers to; `KeyLimitsAssumption` says that there are
  enough, and the theorem has any number of requests and writes.
* *Billing*: a batch of two and three requests let a handler, the loop and
  `Close` each take a batch while another is under way.
* *Restarts*: two processes and two goroutines give a winner and losers within
  a process and between processes; two logins put a new token under a running
  rotation; two keys and two devices are what two first starts can make.  Three
  processes, and five tokens with three logins, were explored once; the theorems
  have any number.
* *ConsoleSessions*: two requests give a late 401 after the other's new login.
  `PricesTTL` of 2 makes a reload fall between two PUTs.  The constraint `Focus`
  leaves out products that do not meet: while rows or the tariff change there is
  one session, which does not end, and while sessions end and are replaced the
  rows rest.  The tariff's actions neither read nor change a session, nor the
  reverse; they meet in `Accepted` and in the end of the gateway, which both
  halves have.
* *LimitsRefresh*: a second fetcher overlaps the loop's round over two accounts;
  the TTL equals the period as in the code (both 10 minutes, `pool.go:24`).
* *SignIn*: two duplicates of a callback, or one and an operation of an
  administrator, interleave in all their statements; more operations were
  explored without liveness (three jobs) when the properties were found.
* *GatewayProcess*: two process ids and three processes make an id come back to
  a stranger; two ports make "the same deployment on another port".  Several
  workbenches are covered by the theorems.
* *ServiceMutex*: one gateway after another on one port is enough for an operation
  to wait at each of its steps, and a second process for the stop to meet one that
  is not its own.
* *ExchangeData*: a fingerprint of two bytes and a limit of four leave room for
  one two-byte character or half of one; two blocks and two messages bring the
  client's own fingerprint first, behind other text, across the limit, or into
  the messages; every mode may replace every other between two turns; three
  events give an order with a smaller count last and one that is broken off.
  The body's fields that do not meet in the code (route and system, say) are
  not multiplied with each other.

Where a type invariant is a theorem it is not repeated in a run, except in Limits
(how long a fetch may take), Console (that a session in use was issued) and
Exchange (how many events a reply has), where it says more than types.

Symmetry is used only where no liveness is checked.  Deadlock is checked except
in SignIn and AccountsTwice: there the operations are bounded (`MaxJobs`) and
flows are not started twice, so the model stops when they are used up.

### Fairness

* Handler goroutines take their next step (`WF`, KeyLimits' `Advance`, Billing,
  OAuth): the Go scheduler runs them, and every wait they make there has an end of
  its own: the 30 s timer of the slot, statements of SQLite, `Shutdown`'s ten
  seconds.  The end of a stream is *not* fair: the server has only
  `ReadHeaderTimeout` and the client of the relay no time limit
  (`handler.go:78`), so a stream on which both ends hang stays.
  `LimitTakesEffect` has as a premise that no request is served for ever, and
  `KeepsBooks` speaks only of requests that were recorded.
* A workbench's operation takes its next step (`Step`), the wait for
  `/health` having a deadline; a login ends (`LoginEnds`) with the 40 s of the
  workbench's client; `ClearSession` is strongly fair, because `sync.Mutex` starves
  no waiter when logins follow one another.
* `Lock` in OAuth is strongly fair: `sync.Mutex` hands itself to a waiter that
  has starved for a millisecond.
* Tickers tick (`LoopTicks`, `Sweep`, `Tick`, `Expire`): time passes.
* `LoopStops` in Billing is strongly fair: a `select` with two ready channels
  chooses at random, so it does not prefer the ticker for ever.
* Forward needs none: `AnswerNears` says that every step of a handler after its
  pick lowers a measure (accounts left, retries left, way to go), so that a
  handler that keeps running answers.
* Nothing is assumed of clients, administrators, the auth server's verdicts, the
  gateway's answers to the workbench, or crashes.

## 4. Proofs

Each theorem holds for every value of the constants that satisfies the named
assumptions in the module.  Those assumptions only say that `None` and its like
are no members, that bounds are numbers, that sets TLC enumerates are finite,
(KeyLimits) that there are channel numbers enough and that clocks differ by less
than the window, (OAuth) that an id is not the word "pending" or "error",
(Normalize) that a character has one to four bytes and that the fingerprint fits
in the limit, as the two constants of `normalize.go` do, and (Exchange) that an
event with a usage field has the word in it, and that only `/v1/responses` takes a
bare string for its input.  Two theorems have a premise of their own, named below:
`PromptPersist` and `LoopIsAnswered`.

Every invariant and every action property of the passing runs is a theorem; so
are the safety part of the refinement of Ledger and the refinement of Accounts.

**Forward_proofs, of Pool** (`PoolTypeCorrect`, `SessionsAgree`, `EvictsFirstToExpire`,
`CoolingEarned`, `FailuresCool`).  `TypeOK` alone is not inductive: that the list
stays a sequence of known keys needs that map and list agree.  The invariant
`PoolInv == SessionsOK /\ HealthOK` has both halves: sessions (types, agreement,
no duplicates, the limit, order by expiry) and health (types, cooling is
earned).  Lemmas say what removing, moving and appending a key does to the list
and to its order; the steps for Pick, its hit, its draw and its expiry cite
them.  `FailuresCool` has no premise about the width of the word: what the shift
of any number of failures leaves is too large, negative, nothing, or what it
should be, and only nothing ends a cooldown.

**Forward_proofs, of Forward** (`ForwardTypeCorrect`, `ForwardConservesSlots`, `ForwardNeverReturns`, `ForwardRefusedTwice`, `ForwardNears`,
`ForwardMovesForCause`).  The invariant of a request: what it holds is not ruled out and is in the pool; the
accounts that refused are ruled out, except the one in hand; a backoff has a
retry left.  That every step is one of Pool's, or leaves the pool alone, is a
lemma (`ForwardUsesPool`): Forward's actions are written with Pool's, and what is
proved about Pool carries over.  Slots are counted with `Cardinality` of the holders, so each step
that takes or gives back a slot has a lemma about adding or removing one.
`ForwardNears` needs that the account in hand is not ruled out yet, so that ruling
it out leaves fewer untried (`OneLess`), and that attempts stay within the
retries.  For `ForwardMovesForCause` only `Pick` and the expiry matter: a hit
keeps the account, a draw for the session comes only when its account is ruled
out, unusable or expired, and of other sessions only the front of the list goes.

**Workbench_proofs** (`WorkbenchTypeCorrect`, `WorkbenchKillsOnlyOwn`,
`WorkbenchKeepsTrack`, `WorkbenchOneGateway`).  Creation times are unique and
those in any record belong to processes that a workbench started (`Births`), which
gives `KillsOnlyOwn` for any number of workbenches, also where reads fail.  While
nothing was `loose` or `misread`, one workbench operates at a time, between "probe"
and "spawn" none of our gateways runs, before "write" only the child does, and otherwise each is in the
record (`Tracking`).

**OAuth_proofs, of Accounts** (`AccountsTypeCorrect`, `AccountsReachPool`).  A change is
pending until its listing is taken.  The invariant `InTurn`: when nothing is
pending and no listing failed, the latest listing is the table, wherever it is,
in a worker's hands or applied.  It needs the order of listings (`Stamps`) and
what an operation works on (`Targets`).

**OAuth_proofs, of OAuth** (`OAuthImplementsAccounts`, `OAuthReachesPool`,
`OAuthTypeCorrect`, `OAuthAddsOnce`, `OAuthAnswersAgree`).  Each step of OAuth is
a step of Accounts or leaves its variables alone, so Accounts' invariant carries
over.  Who is past `Lock` holds the lock of the flow it serves (`Holders`); a
flow that has set out to add an account has somebody at it, or a result, or is
swept (`SetOut`); who is adding has shown nobody anything, and its flow has no
result (`Shown`).

**KeyLimits_proofs** (`KeyLimitsTypeCorrect`, `TokensKept`, `RateKept`).
`TokensConserved` is inductive with the types and with what a request holds where
it is (`Locals`).  Two facts carry the proof: there is always an unused channel of
the capacity asked for (`CHOOSE` has a witness, by counting channels against
requests and handlers), and an unused one is empty, because tokens are counted by
holders.  `LimiterBound` speaks of what was let through, the code of the hits it
keeps.  `RateInv` ties them: a window holds at most `Rpm` hits, and what was let
through at an age below `i` is at most the hits of an age below `i + MaxSkew`,
because a hit is entered with a clock that is at most that old, and is dropped
only when its clock says so.  `Younger` sums by a recursive function; that it
exists, and induction along the ages, come from the well-founded order on finite
sets of numbers (`YoungerIs`), so the theorem has any window and any skew.

**Limits_proofs** (`LimitsTypeCorrect`, `LimitsOpenIsRecent`,
`LimitsAgeBounded`).  `BarInv`: an account that shows room has been barred for no
longer than its snapshot is old and a fetch takes, and an answer on its way that
says "room" for no longer than that fetch has taken.  For the age, `AgeInv` adds
to the age of a snapshot the time until the loop comes by (`ToVisit`): what its
fetch may still take (`Busy`), what is left of the round (`ToEnd`), the next tick
(`ToStart`) and then a whole round.  The sum never passes `Stalest`: a tick moves
one unit from the time left to the age, a fetch that fails or a round that starts
late was counted already, and a snapshot that is skipped is young (`FreshInTime`).
The premise `LoopIsAnswered`: the fetches of the loop itself succeed.  Without it
nothing bounds the age, nor does the code.

**Billing_proofs, of Billing** (`BillingTypeCorrect`, `BillsOnce`, `StopFlushes`,
`RecorderKeepsBooks`).  `Places`: a log is in the buffer, in one flusher's batch,
or half settled with one flusher, and then is in the store exactly once.
`TotalsInv`: a key's total is at most its logs that are in the store and not
about to be added.  `WayOut`: who may still flush at each stage of the exit.  The
refinement of `Ledger!SafeSpec` goes step by step; a crash gives up all that is
due at once.

**Billing_proofs, of Exchange** (`ExchangeTypeCorrect`, `ClaudeIsAccepted`,
`SecondPassIsIdle`, `TurnsAreIntact`, `TurnsShareTheirKey`, `UsageIsComplete`).
These hold for any characters, any fingerprint and limit, bodies of any length and
any number of turns and events.  They need what the loops compute, by
induction along the positions: `Climb` gives it from the well-founded order on
finite sets of numbers, `Iteration` that such a function exists and has the
values its definition names, and each loop has a lemma that applies them
(`TotalLoop`, `TruncateLoop`, `KeptLoop`, `HoistedLoop`, `ListLoop`,
`LargestLoop`).  From there:

* A cut is the longest prefix that fits (`CutIs`); what is cut to a limit fits in
  it (`TruncateFits`), and a first block that begins with a text which fits still
  begins with it (`TruncateKeepsHead`).
* `NormalizedIs` and `ClaudeIs`: the normal form of any body under any disguise;
  a claude body has the fingerprint and fits, as the code measures it, and as the
  relay does but for `Overlooked` (a list that goes out untouched with bare strings
  in it) and `CutOff` (the client's own fingerprint behind other text).  `NormalizedOnce`: the normal form of a normal form is itself.
* The exchange: `TurnInv`, what is sent and its key are those of the present body
  under the disguise that the turn began with, whatever was set since.
* The key: a body with one message more hashes to the same (`KeyOfLonger`),
  because what is hoisted and what opens the conversation are settled by then
  (`HeadHolds`, `OpeningSettled`, `ConversationSettled`), apart from the cases that
  `KeyHolds` names.
* The tee: `TeeInv`, if the stream ended here the parser would get every event
  that mentions usage, nothing that did not come, and no more events than those,
  so that what `DataPayloads` does with them is known; `LargestIs`, the parser
  returns the largest of each count.

**Startup_proofs** (`RestartsSafe`, `LoginUsed`, `StartupTypeCorrect`,
`DataStaysReadable`, `DeviceIsOne`).  Startup's steps are Credential's or leave
its variables alone (`CredentialHolds`), so what is proved about Credential is
proved for overlapping starts.  `OnItsWay`: a token between the server and the
store is in nobody else's hands; `NewestValid`: the server accepts only the
newest of a login; `StoreFollows`: the stored one is accepted or about to be
replaced by its successor.  `RestartsSafe` has the premise `PromptPersist`: no
access token (an hour, less two minutes) runs out during one
`UpdateAccountToken`.  Without it the same goroutines could rotate twice and
store the two in reverse.  `OneWriter`: unless a key was written over another,
at most one start is between creating and writing the file, which is torn for
that long.

**Console_proofs** (`ConsoleTypeCorrect`, `PricesSettle`, `RefusalsAreBounded`).
The tariff and the sessions touch each other only where a PUT is accepted and
where the gateway ends, so there are two invariants.  `Reloaded`: a tariff in use is that of the rows, and a half of one
read so far is that of its row, unless the rows were written, or a read failed,
after the reload began; the clocks compared are capped, and at the cap the tariff
is not used.  `Counted`: the refusals shown and the requests that carry a dead
session (`Doomed`) are together at most the requests there are, and once one
was shown no dead session is at hand; it needs who holds `sessionMu` (`Locked`)
and that sessions in use were issued (`SessionsTyped`).

**Model-checked only.**  Liveness (`LimitTakesEffect`, `BarReachesPool`,
`FlowsEnd`, `CallbackAnswered`, by hand `OperationEnds`, and `Settles`, the liveness of
Ledger in `KeepsBooks`), which the prover cannot do under fairness.  What the
premises leave out is neither proved nor checked: a rotation that outlives its access token, a loop that the relay does not answer.

## 5. Where the code departs from what it says

TLC refutes these statements of the repository, 1 to 4 in runs (`findings`), 5 to
11 with the configurations for running by hand (§3), whose names they bear:

1. **ForwardBlame.** `pool.go:383` and `docs/PROTOCOL.md:132` double the backoff
   per failure up to ten minutes.  It is a shift: 15 s are an odd number of
   nanoseconds times 2^9, so from the 56th consecutive counted failure on all bits
   are gone, the backoff is zero and the cap does not see it (`pool.go:393`).  Up
   to the 55th an overflow shows as a negative or a large number, and the cap
   catches it; `FailureCools` says so.
2. **ForwardBlame.** `forward.go:162` says of a client that left "no
   further retry"; the ticket exchange runs under the same context, and its error
   at line 154 is reported as a failure of the account, which then cools for 15 s
   at least.
3. **KeyTwice.** `docs/DESIGN.md:60` and `auth.go:66` promise a rate per key.
   `main.go:91` mounts two handlers with a limiter each: a key that is used at
   `/v1/messages` and at `/messages` passes it in both.  `LimiterBound` is what holds.
4. **KeyTwice.** `docs/DESIGN.md:39` and `:59` and `auth.go:31` promise a
   concurrency per key; each of the two handlers has its own semaphores.
5. **AccountsTwice.** `store.go:143` calls `AddAccount` idempotent; two calls at
   once insert two rows.
6. **SystemLimit.** `docs/PROTOCOL.md:117` limits the system to 200 bytes;
   `systemLen` counts the bare strings of a system list as nothing
   (`normalize.go:182`), and such a list goes out as it came.
7. **OwnFingerprint.** `normalize.go:190` says that the fingerprint is kept because
   it is at the head, and `docs/PROTOCOL.md:114` that a claude model needs it.  A
   client's own that stands behind other text is not moved, and the relaxed cut
   may take it away.
8. **ResponsesKey.** `normalize.go:214` and `docs/PROTOCOL.md:131` hash the first
   message; at `/v1/responses` the head of the whole input is hashed
   (`normalize.go:239`), so a first turn that is shorter than the head gets another
   key than the second.
9. **SettingsAtOnce.** `runtimecfg.go:2` says that settings are in force at once and
   are read whenever needed, and the workbench's page that they are in force
   (`workbench/web/app.js:294`); prices and factor are after up to `pricesTTL`, 30 s
   (`billing.go:16`).
10. **MasterKeyKept.** `config.go:110` generates a key if there is no `master.key`;
    any error of reading it, not only that, leads to a new key over the old one
    (`config.go:123`), after which nothing stored can be decrypted.  `DataReadable`
    excepts it (`clash`).
11. **PortAnswers.** `service.go:63` says never to reuse a process because of its
    port; a start reports success when another deployment's gateway took the port
    after the test that it was free, and answers the health check
    (`service.go:112`).

`ClaudeAccepted`, `KeyHolds`, `LimiterBound` and `SettledPrices` say what is true
beside 3 and 6 to 9.

Other behaviour worth knowing, which the models contain or which was met on the
way.  The repository's words do not speak of these cases:

* Snapshot TTL and polling period are equal, so a round may find a snapshot just
  fresh and skip it: accounts may be polled every second period (`pool.go:424`).
  `AgeBounded` therefore allows the TTL, a period and the fetches of two rounds'
  worth of accounts where these take longer.
* An old listing may be applied last (`pool.go:235`): a deleted account then stays
  in the pool until the next reload.  `PoolFollowsTable` has that as a premise.
* `Reload` keeps the client of an account that logged in again (`pool.go:244`);
  a rotation of the old login then overwrites the new login's token, and where
  the server does not rotate in step, the older of two tokens may be stored last
  (`client.go:174`).
* Bytes that the cut of one block leaves over, because a character did not fit, are
  filled from the head of the next block (`normalize.go:206`).
* A conversation whose later turns bring system messages, or that is cut under one
  disguise and not under the other, gets another affinity key, and so does one at
  `/v1/responses` whose first input was a string that the client repeats in a form
  of its own; `KeyHolds` excepts exactly these.
* System messages without content are left among the messages
  (`normalize.go:93`): nothing was hoisted.
* A body with nothing but system messages is sent with `messages` null
  (`normalize.go:95`).
* The split of a stored reply at empty lines does not know CRLF
  (`usage.go:21`), while the tee does (`forward.go:297`): of several usage events
  of a CRLF stream nothing is parsed.  `UsageComplete` excepts that.
* `handleSettingsPut` saves one setting after the other and stops at the first
  error; the earlier ones are in force.  Two PUTs at once may leave rows of both.
* The workbench accepts a factor of 0 (`api.go:157`), the gateway ignores it and
  charges the full price (`billing.go:132`).
* A start that is killed between creating and writing `master.key` leaves an empty
  file, and every later start fails (`Torn`).  Two first starts at once may each
  write a key, the second over the first (`clash`).
* A second process over the same directory fails only when it binds its port
  (`main.go:112`); until then its loop may spend and rotate the refresh tokens of
  the first.  `RestartSafe` holds with that, the losers' accounts are blamed.
* `pool.New` drops the error of its first `Reload` (`pool.go:214`): a database
  whose rows cannot be decrypted gives a gateway without accounts.
* `app.cookie` is dropped by any 401, also by one that answers an older session
  (`api.go:118`): a login more, no more than that.
* An edit of a key's limit makes a new semaphore (`auth.go:44`): until requests
  drain, more run than either limit.
* A workbench that is closed between `cmd.Start` and `WriteFile` leaves a gateway
  that no workbench can find; two workbenches with different `-addr` may each
  start one.  `KeepsTrack` and `OneGateway` except both (`loose`).
* An error of reading or parsing the record, or of a question about the process, is
  taken for "no gateway" (`service.go:20`, `platform_windows.go:56`): a start on
  another port then starts a second gateway and overwrites the record of the
  first, and a stop takes a gateway that does not answer in time for stopped.
  `KeepsTrack` and `OneGateway` except such a start (`misread`); `KillsOnlyOwn`
  holds with it.
* A stop waits for `sessionMu` with `serviceMu` in hand (`service.go:135`), up to the
  40 s of a login to the gateway that it has just terminated.
* A stream on which client and relay both hang is never ended, and keeps its place
  in the key's semaphore and its slot (`handler.go:78`).
* A gateway that the workbench stops is terminated, so up to a batch of usage logs
  is lost each time: it is Billing's `Crash`, not its orderly stop.

## 6. Not modelled

Costs (floats) and the match of a model's name with a price, signatures and
sealing (bytes), the web pages, read-only listings, summaries and the
entitlements table, the reading of the environment, settings other than the
disguise and the tariff, the workbench's trial requests, logs and windows.
Of the parts that are modelled:
the bytes of a stream, the weights of the draw, the arithmetic of quota windows,
a key's model allowlist, bodies that do not parse, passwords.  The
five seconds that a terminated process is given are taken to be enough.

## 7. Plan

Done: Pool, Forward, KeyLimits, Billing with its abstraction Ledger, Credential
and Startup, Limits, Accounts, OAuth, Workbench, Settings and Console, Normalize,
Usage and Exchange; proofs of all of them.

Next, in this order:

1. The longest-prefix match of a model's price, against a definition.
2. The arithmetic of quota windows (`barred` is an input of Pool and Limits now).
3. An abstract specification of the workbench ("at most one gateway, known")
   that Workbench implements, and one of the limiter ("at most so many in any
   window") for KeyLimits.
