----------------------------- MODULE KeyLimits ------------------------------
(***************************************************************************)
(* The limits of one API key (internal/gateway/auth.go): a counting          *)
(* semaphore kept in a channel per key, and a sliding window of admissions.  *)
(* Every gateway.NewHandler has its own keySlotter and rateLimiter, and      *)
(* cmd/server/main.go mounts two of them.                                   *)
(*                                                                         *)
(* A request works on the copy of the key that authenticate read; an        *)
(* administrator may change the key meanwhile.  A channel is named by its     *)
(* capacity and a number, which may be used again when no goroutine and no    *)
(* map refers to the channel any more.  Hits are kept by their age, counted   *)
(* per tick.                                                                *)
(***************************************************************************)
EXTENDS Integers, FiniteSets

CONSTANTS
  Requests,    \* handler goroutines that carry this key
  Handlers,    \* the gateway handlers that are mounted
  Numbers,     \* numbers of channels
  Caps,        \* the concurrency limits an administrator sets
  Rpm,         \* RateLimitRPM; 0: no limit
  Window,      \* rateWindow, in ticks
  MaxSkew,     \* bound: ticks between time.Now() and taking the limiter's lock
  MaxEdits,    \* bound: changes of the key's concurrency explored
  None

Channels == Caps \X Numbers

capacity(c) == c[1]

ASSUME KeyLimitsAssumption ==
  /\ IsFiniteSet(Requests)
  /\ IsFiniteSet(Handlers)
  /\ IsFiniteSet(Numbers)
  /\ Cardinality(Numbers) >= Cardinality(Requests) + Cardinality(Handlers)
  /\ None \notin Channels \cup Handlers
  /\ Caps \subseteq Nat \ {0}
  /\ Rpm \in Nat /\ Window \in Nat /\ MaxSkew \in Nat /\ MaxSkew < Window /\ MaxEdits \in Nat

VARIABLES
  row,       \* api_keys: whether the key may be used ("on": enabled and not
             \* expired), may not ("off"), or is deleted ("gone")
  conc,      \* api_keys.concurrency (0 already replaced by its default)
  edits,     \* how many columns were changed
  chan,      \* keySlotter.chans, per handler
  taken,     \* len(ch)
  pc,        \* where a request is
  via,       \* the handler that serves it
  snap,      \* key.Concurrency as authenticate read it
  slot,      \* the channel it waits on or holds a place in
  skew,      \* ticks since it read the clock for the limiter
  hits,      \* rateLimiter.hits, per handler: how many of each age
  admitted   \* history: admissions of the key by age, per handler

slotVars == <<chan, taken>>
rateVars == <<hits, admitted>>
keyVars == <<row, conc, edits>>
vars == <<keyVars, chan, taken, pc, via, snap, slot, skew, hits, admitted>>

\* Hits that some request's clock can still see, and those of a shorter window.
Ages == 0 .. Window + MaxSkew - 1
Surely == 0 .. Window - MaxSkew - 1
InSlot == {"stamp", "rate", "run"}

TypeOK ==
  /\ row \in {"on", "off", "gone"}
  /\ conc \in Caps
  /\ edits \in 0 .. MaxEdits
  /\ chan \in [Handlers -> Channels \cup {None}]
  /\ taken \in [Channels -> Nat]
  /\ pc \in [Requests -> {"idle", "limits", "wait"} \cup InSlot]
  /\ via \in [Requests -> Handlers \cup {None}]
  /\ snap \in [Requests -> Caps \cup {0}]
  /\ slot \in [Requests -> Channels \cup {None}]
  /\ skew \in [Requests -> 0 .. MaxSkew]
  /\ hits \in [Handlers -> [Ages -> Nat]]
  /\ admitted \in [Handlers -> [Surely -> Nat]]

\* handleKeyCreate made the key with some limit.
Init ==
  /\ row = "on"
  /\ conc \in Caps
  /\ edits = 0
  /\ chan = [h \in Handlers |-> None]
  /\ taken = [c \in Channels |-> 0]
  /\ pc = [r \in Requests |-> "idle"]
  /\ via = [r \in Requests |-> None]
  /\ snap = [r \in Requests |-> 0]
  /\ slot = [r \in Requests |-> None]
  /\ skew = [r \in Requests |-> 0]
  /\ hits = [h \in Handlers |-> [i \in Ages |-> 0]]
  /\ admitted = [h \in Handlers |-> [i \in Surely |-> 0]]

-----------------------------------------------------------------------------
(* Requests.                                                                *)

\* authenticate: the key is read once, as it is now; unless it may be used the
\* request ends here.
Authenticate(r, h) ==
  /\ pc[r] = "idle"
  /\ row = "on"
  /\ pc' = [pc EXCEPT ![r] = "limits"]
  /\ via' = [via EXCEPT ![r] = h]
  /\ snap' = [snap EXCEPT ![r] = conc]
  /\ UNCHANGED <<keyVars, slotVars, slot, skew, rateVars>>

Unused(c) == /\ \A h \in Handlers : chan[h] # c
             /\ \A r \in Requests : slot[r] # c

\* make(chan struct{}, cap): nothing is in it.
NewChannel(cap) == CHOOSE c \in Channels : Unused(c) /\ capacity(c) = cap /\ taken[c] = 0

\* Mutant: a channel is kept whatever its capacity.
FitsAny(h, cap) == chan[h] # None

Fits(h, cap) == chan[h] # None /\ capacity(chan[h]) = cap

\* chanFor: the handler's channel, or an empty new one in its place when the
\* capacity asked for is another.
ChanFor(r) ==
  /\ pc[r] = "limits"
  /\ pc' = [pc EXCEPT ![r] = "wait"]
  /\ \/ /\ Fits(via[r], snap[r])
        /\ slot' = [slot EXCEPT ![r] = chan[via[r]]]
        /\ UNCHANGED slotVars
     \/ /\ ~Fits(via[r], snap[r])
        /\ chan' = [chan EXCEPT ![via[r]] = NewChannel(snap[r])]
        /\ slot' = [slot EXCEPT ![r] = NewChannel(snap[r])]
        /\ UNCHANGED taken
  /\ UNCHANGED <<keyVars, via, snap, skew, rateVars>>

HasRoom(c) == taken[c] < capacity(c)

TakeSlot(r) ==
  /\ pc[r] = "wait"
  /\ HasRoom(slot[r])
  /\ taken' = [taken EXCEPT ![slot[r]] = @ + 1]
  /\ pc' = [pc EXCEPT ![r] = IF Rpm > 0 THEN "stamp" ELSE "run"]
  /\ UNCHANGED <<keyVars, chan, via, snap, slot, skew, rateVars>>

\* A request's locals after its handler has returned.
Forget(r) ==
  /\ pc' = [pc EXCEPT ![r] = "idle"]
  /\ via' = [via EXCEPT ![r] = None]
  /\ snap' = [snap EXCEPT ![r] = 0]
  /\ slot' = [slot EXCEPT ![r] = None]
  /\ skew' = [skew EXCEPT ![r] = 0]

\* acquire times out or its context ends: 429 or nothing.
GiveUp(r) ==
  /\ pc[r] = "wait"
  /\ Forget(r)
  /\ UNCHANGED <<keyVars, slotVars, rateVars>>

\* time.Now() is evaluated before allow locks.
ReadClock(r) ==
  /\ pc[r] = "stamp"
  /\ pc' = [pc EXCEPT ![r] = "rate"]
  /\ UNCHANGED <<keyVars, slotVars, via, snap, slot, skew, rateVars>>

\* Mutant: the place is given back to the handler's current channel.
ReleaseCurrent(r) == taken' = [taken EXCEPT ![chan[via[r]]] = @ - 1]

Release(r) == taken' = [taken EXCEPT ![slot[r]] = @ - 1]

\* The hits that the request's clock still sees in the window.
Kept(r) == [i \in Ages |-> IF i < Window + skew[r] THEN hits[via[r]][i] ELSE 0]

\* How many of an age below n.
Younger(f, n) ==
  LET count[m \in Nat] == IF m = 0 THEN 0 ELSE count[m - 1] + f[m - 1]
  IN  count[n]

\* len(kept).
Seen(r) == Younger(Kept(r), Window + MaxSkew)

\* Mutant: the limit itself is still admitted past.
UnderLimitInclusive(r) == Seen(r) <= Rpm

UnderLimit(r) == Seen(r) < Rpm

\* allow admits: the hit is recorded with the time that was read.
Admit(r) ==
  /\ pc[r] = "rate"
  /\ UnderLimit(r)
  /\ hits' = [hits EXCEPT ![via[r]] = [Kept(r) EXCEPT ![skew[r]] = @ + 1]]
  /\ admitted' = [admitted EXCEPT ![via[r]][0] = @ + 1]
  /\ pc' = [pc EXCEPT ![r] = "run"]
  /\ skew' = [skew EXCEPT ![r] = 0]
  /\ UNCHANGED <<keyVars, slotVars, via, snap, slot>>

\* allow refuses: the place is given back, 429.
Refuse(r) ==
  /\ pc[r] = "rate"
  /\ ~UnderLimit(r)
  /\ hits' = [hits EXCEPT ![via[r]] = Kept(r)]
  /\ Release(r)
  /\ Forget(r)
  /\ UNCHANGED <<keyVars, chan, admitted>>

\* forward has returned and the deferred release runs.
Finish(r) ==
  /\ pc[r] = "run"
  /\ Release(r)
  /\ Forget(r)
  /\ UNCHANGED <<keyVars, chan, rateVars>>

-----------------------------------------------------------------------------
(* The administration page.                                                 *)

Edit == edits < MaxEdits /\ edits' = edits + 1

\* handleKeyPatch has UpdateAPIKey write the fields of the body one statement
\* after the other, and stops at the first that fails: requests see every
\* column change by itself.  A deleted row stays deleted.
WriteEnabled ==
  /\ Edit
  /\ row \in {"on", "off"}
  /\ row' = IF row = "on" THEN "off" ELSE "on"
  /\ UNCHANGED <<conc, slotVars, pc, via, snap, slot, skew, rateVars>>

WriteConcurrency(c) ==
  /\ Edit
  /\ row # "gone" /\ c # conc
  /\ conc' = c
  /\ UNCHANGED <<row, slotVars, pc, via, snap, slot, skew, rateVars>>

\* expires_at goes by; a PATCH may write a later one.
Expire ==
  /\ Edit
  /\ row = "on"
  /\ row' = "off"
  /\ UNCHANGED <<conc, slotVars, pc, via, snap, slot, skew, rateVars>>

\* handleKeyDelete.
DeleteKey ==
  /\ Edit
  /\ row # "gone"
  /\ row' = "gone"
  /\ UNCHANGED <<conc, slotVars, pc, via, snap, slot, skew, rateVars>>

Older(f) == [i \in DOMAIN f |-> IF i = 0 THEN 0 ELSE f[i - 1]]

Tick ==
  /\ Rpm > 0
  /\ \A r \in Requests : pc[r] = "rate" => skew[r] < MaxSkew
  /\ skew' = [r \in Requests |-> IF pc[r] = "rate" THEN skew[r] + 1 ELSE skew[r]]
  /\ hits' = [h \in Handlers |-> Older(hits[h])]
  /\ admitted' = [h \in Handlers |-> Older(admitted[h])]
  /\ UNCHANGED <<keyVars, slotVars, pc, via, snap, slot>>

\* What a handler does by itself, and the whole of it: forward returns when
\* relay and client are done with the stream.
Advance(r) ==
  \/ ChanFor(r) \/ TakeSlot(r) \/ GiveUp(r)
  \/ ReadClock(r) \/ Admit(r) \/ Refuse(r)

Handle(r) == Advance(r) \/ Finish(r)

Next ==
  \/ \E r \in Requests : (\E h \in Handlers : Authenticate(r, h)) \/ Handle(r)
  \/ \E c \in Caps : WriteConcurrency(c)
  \/ WriteEnabled \/ Expire \/ DeleteKey
  \/ Tick

Spec == Init /\ [][Next]_vars

\* A handler goroutine keeps running; the 30s timer ends a wait.  Nothing ends a
\* stream on which relay and client both hang: main.go limits only the reading
\* of headers, and the client of handler.go:78 has no time limit.
FairSpec == Spec /\ \A r \in Requests : WF_vars(Advance(r))

-----------------------------------------------------------------------------
(* Properties.                                                              *)

InForward == {r \in Requests : pc[r] \in InSlot}

\* A channel holds one token for every request that took a place in it, and
\* never more than fit: what is released is what was taken, also when the
\* handler's channel was replaced meanwhile or the rate limiter refused.
TokensConserved ==
  \A c \in Channels :
    /\ taken[c] = Cardinality({r \in InForward : slot[r] = c})
    /\ taken[c] <= capacity(c)

\* What the key grants now.
Granted == IF row = "on" THEN conc ELSE 0

\* Once the administrator leaves the key alone, its present limit comes to
\* hold in each handler, and for good, if no stream hangs for ever: old channels
\* and stale copies of the key drain away, and a key that was disabled, deleted
\* or expired serves no more.
LimitTakesEffect ==
  (\A r \in Requests : []<>(pc[r] # "run"))
    => \A h \in Handlers :
         <>[](Cardinality({r \in InForward : via[r] = h}) <= Granted)

\* The admissions of the key by one handler that are certainly in one window:
\* it is shorter by the time a request may lose between its clock and the lock.
AdmittedBy(h) == Younger(admitted[h], Window - MaxSkew)

\* A limiter (auth.go: allow) lets at most Rpm requests of the key through in a
\* window, however late and out of order they come to it.
LimiterBound == \A h \in Handlers : AdmittedBy(h) <= Rpm

\* The rate that DESIGN.md:60 grants each API key per window, whichever handlers
\* its requests come through.
WithinRate == \A g, h \in Handlers : g # h => AdmittedBy(g) + AdmittedBy(h) <= Rpm

\* The concurrency that DESIGN.md:39 and 59 grant each API key, while nobody
\* changes it.
WithinConcurrency == edits = 0 => Cardinality(InForward) <= conc

\* DESIGN.md:39, 59 and 60, each API key has a concurrency and a rate: of a key
\* that is used through several handlers at least one of the two is kept.
KeyLimitHolds == WithinRate \/ WithinConcurrency
=============================================================================
