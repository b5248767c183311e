------------------------------- MODULE Console ------------------------------
(***************************************************************************)
(* Administration through the workbench (workbench/api.go, handleAdmin): a   *)
(* request of the window is passed to the gateway with a session that the    *)
(* workbench logs in for and keeps; the gateway checks it (internal/admin/   *)
(* session.go, requireAuth) and here writes settings.  Sessions are signed   *)
(* with a key derived from the master key, so they outlive the gateway       *)
(* process; the workbench gives one up an hour before it ends, by a clock    *)
(* that may stand still while the computer sleeps.                          *)
(*                                                                         *)
(* The workbench stops a request after 40 seconds; the gateway's handler     *)
(* goes on.  The gateway may end at any moment.                             *)
(***************************************************************************)
EXTENDS Settings, FiniteSets

CONSTANTS
  Requests,     \* handleAdmin goroutines of the workbench
  Bodies,       \* the changes of settings that the window sends
  MaxSessions,  \* bound: logins
  MaxMoves      \* bound: times the data directory is replaced, and with it the key

ASSUME ConsoleAssumption ==
  /\ IsFiniteSet(Requests)
  /\ 0 \notin Handlers /\ None \notin Requests
  /\ Bodies \subseteq Changes
  /\ MaxSessions \in Nat /\ MaxMoves \in Nat

VARIABLES
  up,        \* the gateway runs
  issued,    \* sessions that the gateway has signed
  live,      \* those it accepts now
  moves,     \* times the data directory was replaced
  cookie,    \* app.cookie; 0: nil
  aged,      \* cookieUntil has passed
  lock,      \* the request that holds sessionMu
  stopping,  \* stopLocked has terminated the gateway and not cleared the cookie
  pc,        \* where a request is
  session,   \* the session it goes with
  handler,   \* the gateway's handler that serves it; 0: none
  refusals   \* history: 401 shown to the window since a session last ended

sessionVars == <<cookie, aged, lock, stopping>>
gatewayVars == <<up, issued, live, moves>>
requestVars == <<pc, session, handler>>
vars == <<settingsVars, sessionVars, gatewayVars, requestVars, refusals>>

ConsoleTypeOK ==
  /\ SettingsTypeOK
  /\ up \in BOOLEAN /\ aged \in BOOLEAN /\ stopping \in BOOLEAN
  /\ issued \in 0 .. MaxSessions
  /\ live \in SUBSET (1 .. issued)
  /\ moves \in 0 .. MaxMoves
  /\ cookie \in 0 .. issued
  /\ lock \in Requests \cup {None}
  /\ pc \in [Requests -> {"idle", "session", "login", "answer", "send", "wait", "refused"}]
  /\ session \in [Requests -> 0 .. issued]
  /\ handler \in [Requests -> Handlers \cup {0}]
  /\ refusals \in Nat

Init ==
  /\ SettingsInit
  /\ up = FALSE
  /\ issued = 0
  /\ live = {}
  /\ moves = 0
  /\ cookie = 0
  /\ aged = FALSE
  /\ lock = None
  /\ stopping = FALSE
  /\ pc = [r \in Requests |-> "idle"]
  /\ session = [r \in Requests |-> 0]
  /\ handler = [r \in Requests |-> 0]
  /\ refusals = 0

Goto(r, there) == pc' = [pc EXCEPT ![r] = there]

\* The window is answered, well or not.
Reply(r) ==
  /\ Goto(r, "idle")
  /\ session' = [session EXCEPT ![r] = 0]
  /\ handler' = [handler EXCEPT ![r] = 0]

-----------------------------------------------------------------------------
(* handleAdmin.                                                             *)

\* The gateway must run (isOwned) and the values be valid; after that nothing
\* orders the request with a stop of the gateway.
Arrive(r) ==
  /\ pc[r] = "idle" /\ up
  /\ Goto(r, "session")
  /\ UNCHANGED <<settingsVars, sessionVars, gatewayVars, session, handler, refusals>>

\* adminCookie: the session at hand, or a login under the lock.
TakeSession(r) ==
  /\ pc[r] = "session" /\ lock = None
  /\ IF cookie # 0 /\ ~aged
     THEN /\ session' = [session EXCEPT ![r] = cookie]
          /\ Goto(r, "send")
          /\ UNCHANGED lock
     ELSE /\ lock' = r
          /\ Goto(r, "login")
          /\ UNCHANGED session
  /\ UNCHANGED <<settingsVars, cookie, aged, stopping, gatewayVars, handler, refusals>>

\* handleLogin signs a session for eight hours.
GatewayLogsIn(r) ==
  /\ pc[r] = "login" /\ up
  /\ issued < MaxSessions
  /\ issued' = issued + 1
  /\ live' = live \cup {issued'}
  /\ session' = [session EXCEPT ![r] = issued']
  /\ Goto(r, "answer")
  /\ UNCHANGED <<settingsVars, sessionVars, up, moves, handler, refusals>>

KeepSession(r) ==
  /\ pc[r] = "answer"
  /\ cookie' = session[r]
  /\ aged' = FALSE
  /\ lock' = None
  /\ Goto(r, "send")
  /\ UNCHANGED <<settingsVars, stopping, gatewayVars, session, handler, refusals>>

\* No answer, in time or at all.
LoginFails(r) ==
  /\ pc[r] \in {"login", "answer"}
  /\ lock' = None
  /\ Reply(r)
  /\ UNCHANGED <<settingsVars, cookie, aged, stopping, gatewayVars, refusals>>

\* Signed with the present key, and its time has not passed.
ValidSession(s) == s \in live

\* requireAuth, then handleSettingsPut.
Accepted(r, h, change) ==
  /\ pc[r] = "send" /\ up
  /\ ValidSession(session[r])
  /\ Put(h, change)
  /\ handler' = [handler EXCEPT ![r] = h]
  /\ Goto(r, "wait")
  /\ UNCHANGED <<rows, cacheVars, quiet, sessionVars, gatewayVars, session, refusals>>

Refused(r) ==
  /\ pc[r] = "send" /\ up
  /\ ~ValidSession(session[r])
  /\ Goto(r, "refused")
  /\ UNCHANGED <<settingsVars, sessionVars, gatewayVars, session, handler, refusals>>

\* Mutant: the session is kept.
KeepCookie == cookie' = cookie

\* Whatever the cookie is by now.
DropCookie == cookie' = 0

HandleRefusal(r) ==
  /\ pc[r] = "refused" /\ lock = None
  /\ DropCookie
  /\ Reply(r)
  /\ refusals' = refusals + 1
  /\ UNCHANGED <<settingsVars, aged, lock, stopping, gatewayVars>>

\* The gateway is gone, or the request has taken 40 seconds; a handler that
\* serves it goes on.
RequestFails(r) ==
  /\ pc[r] \in {"send", "refused", "wait"}
  /\ Reply(r)
  /\ UNCHANGED <<settingsVars, sessionVars, gatewayVars, refusals>>

\* The handler of the gateway returns: all is written, or a statement failed.
HandlerReturns(h) ==
  /\ todo[h] # None
  /\ DOMAIN todo[h] = {} \/ DbMayFail
  /\ Free(h)
  /\ IF \E r \in Requests : handler[r] = h
     THEN \E r \in Requests : handler[r] = h /\ Reply(r)
     ELSE UNCHANGED requestVars
  /\ UNCHANGED <<rows, cacheVars, quiet, sessionVars, gatewayVars, refusals>>

-----------------------------------------------------------------------------
(* The gateway process and the sessions.                                    *)

\* A start may find another data directory, whose key is another.
GatewayStarts(moved) ==
  /\ ~up /\ ~stopping
  /\ up' = TRUE
  /\ IF moved
     THEN /\ moves < MaxMoves
          /\ moves' = moves + 1
          /\ live' = {}
          /\ refusals' = 0
     ELSE UNCHANGED <<moves, live, refusals>>
  /\ UNCHANGED <<settingsVars, sessionVars, issued, requestVars>>

\* It ends, by itself or by stopLocked, which then clears the session.
GatewayEnds(stopped) ==
  /\ up
  /\ up' = FALSE
  /\ stopping' = stopped
  /\ ForgetSettings
  /\ handler' = [r \in Requests |-> 0]
  /\ UNCHANGED <<cookie, aged, lock, issued, live, moves, pc, session, refusals>>

ClearSession ==
  /\ stopping /\ lock = None
  /\ cookie' = 0
  /\ aged' = FALSE
  /\ stopping' = FALSE
  /\ UNCHANGED <<settingsVars, lock, gatewayVars, requestVars, refusals>>

\* Seven hours by the workbench's clock, eight by the gateway's.
SessionAges ==
  /\ cookie # 0 /\ ~aged
  /\ aged' = TRUE
  /\ UNCHANGED <<settingsVars, cookie, lock, stopping, gatewayVars, requestVars, refusals>>

SessionEnds(s) ==
  /\ s \in live
  /\ live' = live \ {s}
  /\ refusals' = 0
  /\ UNCHANGED <<settingsVars, sessionVars, up, issued, moves, requestVars>>

Serving ==
  /\ up
  /\ ReadPrices \/ ReadMultiplier \/ Tick \/ \E h \in Handlers : WriteSetting(h)
  /\ UNCHANGED <<sessionVars, gatewayVars, requestVars, refusals>>

Next ==
  \/ \E r \in Requests :
       \/ Arrive(r) \/ TakeSession(r) \/ GatewayLogsIn(r) \/ KeepSession(r) \/ LoginFails(r)
       \/ Refused(r) \/ HandleRefusal(r) \/ RequestFails(r)
       \/ \E h \in Handlers, change \in Bodies : Accepted(r, h, change)
  \/ \E h \in Handlers : HandlerReturns(h)
  \/ \E moved \in BOOLEAN : GatewayStarts(moved)
  \/ \E stopped \in BOOLEAN : GatewayEnds(stopped)
  \/ ClearSession \/ SessionAges \/ (\E s \in live : SessionEnds(s))
  \/ Serving

Spec == Init /\ [][Next]_vars

-----------------------------------------------------------------------------
(* Properties.                                                              *)

\* api.go:117, a 401 drops the session: when sessions end early, because the
\* clocks differ or the key has changed, the window sees one refusal for each
\* of its requests under way, however these overlap with each other's logins,
\* with late refusals and with stops of the gateway; then it is served again.
RefusalsBounded == refusals <= Cardinality(Requests)
=============================================================================
