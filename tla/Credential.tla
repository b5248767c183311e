----------------------------- MODULE Credential -----------------------------
(***************************************************************************)
(* The refresh token of one account: in the Client that the pool of a        *)
(* gateway process holds (internal/mirasim/client.go, AccessToken), in the   *)
(* accounts table (internal/store/store.go) and at the auth server.          *)
(* Goroutines that find the access token stale each spend the refresh token  *)
(* they read; the answer rotates it in memory, and OnRotate writes it to the *)
(* store after the lock is released.  A new login updates the row and        *)
(* reloads the pool, which keeps the Client it has.  Nothing keeps a second  *)
(* process from working on the same store (see Startup).                     *)
(*                                                                         *)
(* Tokens are numbered in the order the server issues them.  Whether the     *)
(* server revokes a token it has rotated is external: a parameter.           *)
(***************************************************************************)
EXTENDS Integers, FiniteSets

CONSTANTS
  Gateways,       \* gateway processes over one store
  Threads,        \* goroutines of each that call AccessToken
  MaxToken,       \* bound: tokens the server issues
  MaxLogins,      \* bound: logins of the account
  Revokes,        \* the server revokes the token it rotates
  PromptPersist,  \* no access token runs out during one UpdateAccountToken
  RepliesLost,    \* an answer of the server may be lost on its way
  StoreFails,     \* UpdateAccountToken may return an error
  None

ASSUME CredentialAssumption ==
  /\ IsFiniteSet(Gateways) /\ IsFiniteSet(Threads)
  /\ MaxToken \in Nat /\ MaxLogins \in Nat
  /\ {Revokes, PromptPersist, RepliesLost, StoreFails} \subseteq BOOLEAN
  /\ None \notin Nat

VARIABLES
  issued,   \* the last token the server issued
  valid,    \* the tokens it accepts
  login,    \* which login of the account a token descends from
  logins,   \* how many times the user has logged in
  pool,     \* a process is down, has an empty pool, or one with the account
  tok,      \* Client.refreshToken
  fresh,    \* Client.accessToken is outside its early-refresh margin
  stored,   \* accounts.refresh_token_enc; None: no such row
  pc,       \* where a caller is in AccessToken
  sent,     \* refreshTok, as it read it
  reply,    \* rr.RefreshToken
  dropped,  \* history: a rotation was lost before it reached the store
  behind,   \* history: processes whose Client is older than the last login
  undone    \* history: one of them has written to the row since

clientVars == <<tok, fresh>>
callerVars == <<pc, sent, reply>>
serverVars == <<issued, valid, login, logins>>
loginVars == <<behind, undone>>
credentialVars ==
  <<issued, valid, login, logins, pool, tok, fresh, stored, pc, sent, reply, dropped, behind, undone>>

Callers == Gateways \X Threads
Tokens == 1 .. MaxToken

TypeOK ==
  /\ issued \in 0 .. MaxToken
  /\ valid \in SUBSET (1 .. issued)
  /\ login \in [Tokens -> 0 .. MaxLogins]
  /\ logins \in 0 .. MaxLogins
  /\ pool \in [Gateways -> {"down", "empty", "ready"}]
  /\ tok \in [Gateways -> (1 .. issued) \cup {None}]
  /\ fresh \in [Gateways -> BOOLEAN]
  /\ stored \in (1 .. issued) \cup {None}
  /\ pc \in [Callers -> {"idle", "post", "reply", "persist"}]
  /\ sent \in [Callers -> (1 .. issued) \cup {None}]
  /\ reply \in [Callers -> (1 .. issued) \cup {None}]
  /\ dropped \in BOOLEAN
  /\ behind \in SUBSET Gateways
  /\ undone \in BOOLEAN

\* Nobody has logged in yet.
CredentialInit ==
  /\ issued = 0
  /\ valid = {}
  /\ login = [t \in Tokens |-> 0]
  /\ logins = 0
  /\ pool = [g \in Gateways |-> "down"]
  /\ tok = [g \in Gateways |-> None]
  /\ fresh = [g \in Gateways |-> FALSE]
  /\ stored = None
  /\ pc = [c \in Callers |-> "idle"]
  /\ sent = [c \in Callers |-> None]
  /\ reply = [c \in Callers |-> None]
  /\ dropped = FALSE
  /\ behind = {}
  /\ undone = FALSE

Idle(c) ==
  /\ pc' = [pc EXCEPT ![c] = "idle"]
  /\ sent' = [sent EXCEPT ![c] = None]
  /\ reply' = [reply EXCEPT ![c] = None]

-----------------------------------------------------------------------------
(* AccessToken.                                                             *)

NeedsRefresh(g) == pool[g] = "ready" /\ ~fresh[g]

\* The refresh token is read under the lock; the exchange runs without it.
StartRefresh(c) ==
  /\ NeedsRefresh(c[1])
  /\ pc[c] = "idle"
  /\ pc' = [pc EXCEPT ![c] = "post"]
  /\ sent' = [sent EXCEPT ![c] = tok[c[1]]]
  /\ UNCHANGED <<serverVars, pool, clientVars, stored, reply, dropped, loginVars>>

\* The server accepts and rotates (it rotates on every refresh).
ServerRotates(c) ==
  /\ pc[c] = "post"
  /\ sent[c] \in valid
  /\ issued < MaxToken
  /\ issued' = issued + 1
  /\ valid' = (IF Revokes THEN valid \ {sent[c]} ELSE valid) \cup {issued + 1}
  /\ login' = [login EXCEPT ![issued + 1] = login[sent[c]]]
  /\ reply' = [reply EXCEPT ![c] = issued + 1]
  /\ pc' = [pc EXCEPT ![c] = "reply"]
  /\ UNCHANGED <<logins, pool, clientVars, stored, sent, dropped, loginVars>>

\* The server refuses, or is not reached: AccessToken returns an error.
RefreshFails(c) ==
  /\ pc[c] = "post"
  /\ Idle(c)
  /\ UNCHANGED <<serverVars, pool, clientVars, stored, dropped, loginVars>>

ReplyLost(c) ==
  /\ RepliesLost
  /\ pc[c] = "reply"
  /\ Idle(c)
  /\ dropped' = TRUE
  /\ UNCHANGED <<serverVars, pool, clientVars, stored, loginVars>>

\* Mutant: the comparison comes after the assignment.
RotatedNow(c) == reply[c] # reply[c]

Rotated(c) == reply[c] # tok[c[1]]

\* The answer is installed under the lock.
Receive(c) ==
  /\ pc[c] = "reply"
  /\ tok' = [tok EXCEPT ![c[1]] = reply[c]]
  /\ fresh' = [fresh EXCEPT ![c[1]] = TRUE]
  /\ IF Rotated(c)
     THEN pc' = [pc EXCEPT ![c] = "persist"] /\ UNCHANGED <<sent, reply>>
     ELSE Idle(c)
  /\ UNCHANGED <<serverVars, pool, stored, dropped, loginVars>>

\* OnRotate: UpdateAccountToken, whose error is ignored.
Persist(c) ==
  /\ pc[c] = "persist"
  /\ \/ /\ stored' = reply[c]
        /\ undone' = (undone \/ c[1] \in behind)
        /\ UNCHANGED dropped
     \/ /\ StoreFails
        /\ dropped' = TRUE
        /\ UNCHANGED <<stored, undone>>
  /\ Idle(c)
  /\ UNCHANGED <<serverVars, pool, clientVars, behind>>

\* The access token enters its early-refresh margin.
AccessExpires(g) ==
  /\ fresh[g]
  /\ PromptPersist => \A t \in Threads : pc[<<g, t>>] # "persist"
  /\ fresh' = [fresh EXCEPT ![g] = FALSE]
  /\ UNCHANGED <<serverVars, pool, tok, stored, callerVars, dropped, loginVars>>

-----------------------------------------------------------------------------
(* Logins, starts and ends of processes.                                    *)

\* Mutant: a row that exists is left as it is.
TokenOfFirstLogin == IF stored = None THEN issued + 1 ELSE stored

TokenOfLogin == issued + 1

Ready == {g \in Gateways : pool[g] = "ready"}

\* AddAccount inserts the row or updates its token; the Reload that follows
\* keeps an entry it knows and with it the Client.
LogIn(g) ==
  /\ pool[g] # "down"
  /\ issued < MaxToken
  /\ logins < MaxLogins
  /\ issued' = issued + 1
  /\ valid' = valid \cup {issued + 1}
  /\ logins' = logins + 1
  /\ login' = [login EXCEPT ![issued + 1] = logins + 1]
  /\ stored' = TokenOfLogin
  /\ pool' = [pool EXCEPT ![g] = "ready"]
  /\ tok' = IF pool[g] = "ready" THEN tok ELSE [tok EXCEPT ![g] = stored']
  /\ behind' = Ready
  /\ undone' = FALSE
  /\ UNCHANGED <<fresh, callerVars, dropped>>

MidRotation == {c \in Callers : pc[c] \in {"reply", "persist"}}

Crash(g) ==
  /\ pool[g] # "down"
  /\ pool' = [pool EXCEPT ![g] = "down"]
  /\ tok' = [tok EXCEPT ![g] = None]
  /\ fresh' = [fresh EXCEPT ![g] = FALSE]
  /\ dropped' = (dropped \/ \E c \in MidRotation : c[1] = g)
  /\ pc' = [c \in Callers |-> IF c[1] = g THEN "idle" ELSE pc[c]]
  /\ sent' = [c \in Callers |-> IF c[1] = g THEN None ELSE sent[c]]
  /\ reply' = [c \in Callers |-> IF c[1] = g THEN None ELSE reply[c]]
  /\ behind' = behind \ {g}
  /\ UNCHANGED <<serverVars, stored, undone>>

\* pool.New: the Client is built from the row.  If the listing fails, the error
\* is dropped and the pool stays empty.
OpenPool(g, listed) ==
  /\ pool[g] = "down"
  /\ IF listed /\ stored # None
     THEN /\ pool' = [pool EXCEPT ![g] = "ready"]
          /\ tok' = [tok EXCEPT ![g] = stored]
     ELSE /\ pool' = [pool EXCEPT ![g] = "empty"]
          /\ UNCHANGED tok
  /\ UNCHANGED <<serverVars, fresh, stored, callerVars, dropped, loginVars>>

Refresh(c) ==
  \/ StartRefresh(c) \/ ServerRotates(c) \/ RefreshFails(c)
  \/ ReplyLost(c) \/ Receive(c)

CredentialNext ==
  \/ \E c \in Callers : Refresh(c) \/ Persist(c)
  \/ \E g \in Gateways :
       \/ AccessExpires(g) \/ LogIn(g) \/ Crash(g)
       \/ \E listed \in BOOLEAN : OpenPool(g, listed)

CredentialSpec == CredentialInit /\ [][CredentialNext]_credentialVars

-----------------------------------------------------------------------------
(* Properties.                                                              *)

Kin(t) == {u \in 1 .. issued : login[u] = login[t]}

\* docs/PROTOCOL.md:18, the rotated token must be persisted at once: whichever
\* goroutine of whatever process rotates, and with a server that revokes what
\* it rotates, the token in the store is the newest of its login and accepted,
\* so that a restart goes on with it, or a caller is about to store the one that
\* is; unless a rotation was lost on its way.
RestartSafe ==
  Revokes /\ stored # None /\ ~dropped =>
    \/ stored \in valid /\ \A t \in Kin(stored) : t <= stored
    \/ \E c \in MidRotation : reply[c] \in valid \cap Kin(stored)

\* store.go:143, AddAccount updates the token: after a new login the row and
\* every process that is started use it, across rotations and restarts, unless
\* a process of before the login, whose Client Reload has kept, writes a
\* rotation of the old login over it.
NewLoginUsed ==
  ~undone =>
    /\ stored # None => login[stored] = logins
    /\ \A g \in Ready \ behind : login[tok[g]] = logins

=============================================================================
