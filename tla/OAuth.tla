------------------------------- MODULE OAuth -------------------------------
(***************************************************************************)
(* Sign-in flows: internal/admin/oauth.go over the accounts table.  A flow   *)
(* is kept in flowStore until the sweeper takes it out; in auto mode it owns  *)
(* a loopback listener to which the browser brings its token, often more      *)
(* than once (retries, refreshes, probes, the fragment bridge).  Duplicate    *)
(* callbacks queue at callbackMu, look at the result again, and the first     *)
(* one with a token adds the account.  The workbench polls for the result.    *)
(*                                                                         *)
(* A callback's token is nothing (a probe), one that parseRefreshToken        *)
(* refuses, or a person's.  Callbacks turned away for their method, host or   *)
(* origin change nothing and are left out.                                    *)
(***************************************************************************)
EXTENDS Accounts

CONSTANT Flows  \* flow ids; randHex(16) never gives one twice

ASSUME OAuthAssumption ==
  /\ IsFiniteSet(Flows)
  /\ None \notin Flows
  /\ Ids \cap {"pending", "error"} = {}

VARIABLES
  flow,     \* "new", "open" while flowStore.flows holds it, "swept"
  manual,   \* oauthFlow.mode is manual: no listener
  expired,  \* oauthFlow.expiresAt has passed
  result,   \* oauthFlow.result: pending, an error, or the account's id
  holder,   \* the goroutine that holds oauthFlow.callbackMu
  at,       \* where a callback handler is
  serves,   \* the flow it serves
  adds,     \* history: accounts a flow has set out to add
  told      \* history: results that browsers and polls were shown

oauthVars == <<flow, manual, expired, result, holder, at, serves, adds, told>>
allVars == <<vars, oauthVars>>

Outcomes == Ids \cup {"error"}

OAuthTypeOK ==
  /\ TypeOK
  /\ flow \in [Flows -> {"new", "open", "swept"}]
  /\ manual \in [Flows -> BOOLEAN]
  /\ expired \in [Flows -> BOOLEAN]
  /\ result \in [Flows -> Outcomes \cup {"pending"}]
  /\ holder \in [Flows -> Workers \cup {None}]
  /\ at \in [Workers -> {"away", "lock", "get", "add"}]
  /\ serves \in [Workers -> Flows \cup {None}]
  /\ adds \in [Flows -> 0 .. MaxJobs]
  /\ told \in [Flows -> SUBSET Outcomes]

OAuthInit ==
  /\ Init
  /\ flow = [f \in Flows |-> "new"]
  /\ manual = [f \in Flows |-> FALSE]
  /\ expired = [f \in Flows |-> FALSE]
  /\ result = [f \in Flows |-> "pending"]
  /\ holder = [f \in Flows |-> None]
  /\ at = [w \in Workers |-> "away"]
  /\ serves = [w \in Workers |-> None]
  /\ adds = [f \in Flows |-> 0]
  /\ told = [f \in Flows |-> {}]

-----------------------------------------------------------------------------
(* The flow store.                                                          *)

\* handleOAuthStart.
Start(f) ==
  /\ flow[f] = "new"
  /\ flow' = [flow EXCEPT ![f] = "open"]
  /\ \E m \in BOOLEAN : manual' = [manual EXCEPT ![f] = m]
  /\ UNCHANGED <<vars, expired, result, holder, at, serves, adds, told>>

Expire(f) ==
  /\ flow[f] = "open" /\ ~expired[f]
  /\ expired' = [expired EXCEPT ![f] = TRUE]
  /\ UNCHANGED <<vars, flow, manual, result, holder, at, serves, adds, told>>

\* Mutant: a flow that nobody completed is not swept.
DueOnceDone(f) == expired[f] /\ result[f] # "pending"

Due(f) == expired[f]

\* The sweeper closes the listener with the flow; handlers that run go on.
Sweep(f) ==
  /\ flow[f] = "open" /\ Due(f)
  /\ flow' = [flow EXCEPT ![f] = "swept"]
  /\ UNCHANGED <<vars, manual, expired, result, holder, at, serves, adds, told>>

\* lookup and get answer for these.
Found(f) == flow[f] = "open" /\ ~expired[f]

\* handleOAuthComplete with a flow id.
Poll(f) ==
  /\ Found(f) /\ result[f] # "pending"
  /\ told' = [told EXCEPT ![f] = @ \cup {result[f]}]
  /\ UNCHANGED <<vars, flow, manual, expired, result, holder, at, serves, adds>>

-----------------------------------------------------------------------------
(* serveOAuthCallback.                                                      *)

\* A flow without a listener gets no callback; one that is not found answers
\* "gone" without a trace.
Callback(w, f) ==
  /\ At(w, "idle") /\ at[w] = "away"
  /\ Found(f) /\ ~manual[f]
  /\ at' = [at EXCEPT ![w] = "lock"]
  /\ serves' = [serves EXCEPT ![w] = f]
  /\ UNCHANGED <<vars, flow, manual, expired, result, holder, adds, told>>

\* Mutant: duplicate callbacks are not serialized.
FreeAlways(f) == TRUE

Free(f) == holder[f] = None

Lock(w) ==
  /\ at[w] = "lock" /\ Free(serves[w])
  /\ holder' = [holder EXCEPT ![serves[w]] = w]
  /\ at' = [at EXCEPT ![w] = "get"]
  /\ UNCHANGED <<vars, flow, manual, expired, result, serves, adds, told>>

\* Mutant: the handler returns with the lock held.
UnlockNever(f) == holder

Unlock(f) == [holder EXCEPT ![f] = None]

Leave(w) ==
  /\ holder' = Unlock(serves[w])
  /\ at' = [at EXCEPT ![w] = "away"]
  /\ serves' = [serves EXCEPT ![w] = None]

\* Under the lock: the flow is gone by now, or this is a probe, which must
\* not use the flow up.
LeaveFlowAlone(w) ==
  /\ at[w] = "get"
  /\ Found(serves[w]) => result[serves[w]] = "pending"
  /\ Leave(w)
  /\ UNCHANGED <<vars, flow, manual, expired, result, adds, told>>

\* A duplicate is shown the result that is there.
ShowResult(w) ==
  /\ at[w] = "get"
  /\ Found(serves[w]) /\ result[serves[w]] # "pending"
  /\ told' = [told EXCEPT ![serves[w]] = @ \cup {result[serves[w]]}]
  /\ Leave(w)
  /\ UNCHANGED <<vars, flow, manual, expired, result, adds>>

\* addAccount is called; it works on the table as any other operation does.
AddAccount(w) ==
  /\ at[w] = "get"
  /\ Found(serves[w]) /\ result[serves[w]] = "pending"
  /\ at' = [at EXCEPT ![w] = "add"]
  /\ \/ /\ \E p \in People : Begin(w, [kind |-> "add", who |-> p])
        /\ adds' = [adds EXCEPT ![serves[w]] = @ + 1]
     \/ Refuse(w) /\ UNCHANGED adds
  /\ UNCHANGED <<flow, manual, expired, result, holder, serves, told>>

Outcome(w) == IF At(w, "ok") THEN target[w] ELSE "error"

\* finish, which leaves a flow that was swept meanwhile alone, and the answer
\* to this browser, which it gets all the same.
Finish(w) ==
  /\ at[w] = "add"
  /\ result' = [result EXCEPT ![serves[w]] =
                  IF flow[serves[w]] = "open" /\ @ = "pending" THEN Outcome(w) ELSE @]
  /\ told' = [told EXCEPT ![serves[w]] = @ \cup {Outcome(w)}]
  /\ Answer(w)
  /\ Leave(w)
  /\ UNCHANGED <<flow, manual, expired, adds>>

\* A step of addAccount, for a callback or for a handler of its own: pasted
\* tokens, email codes, and what accounts.go offers.
Work(w) == Working(w) /\ UNCHANGED oauthVars

Handler(w) ==
  /\ at[w] = "away"
  /\ (\E j \in Jobs : Begin(w, j)) \/ Refuse(w) \/ Answer(w)
  /\ UNCHANGED oauthVars

HandleCallback(w) == LeaveFlowAlone(w) \/ ShowResult(w) \/ AddAccount(w) \/ Finish(w)

OAuthNext ==
  \/ \E f \in Flows : Start(f) \/ Expire(f) \/ Sweep(f) \/ Poll(f)
  \/ \E w \in Workers :
       \/ \E f \in Flows : Callback(w, f)
       \/ Lock(w) \/ HandleCallback(w) \/ Work(w) \/ Handler(w)

OAuthSpec == OAuthInit /\ [][OAuthNext]_allVars

\* Goroutines and the sweeper's ticker run; a sync.Mutex is handed to a waiter
\* that has waited long enough; time passes.
OAuthFairness ==
  /\ \A w \in Workers :
       /\ WF_allVars(Work(w))
       /\ WF_allVars(HandleCallback(w))
       /\ SF_allVars(Lock(w))
  /\ \A f \in Flows : WF_allVars(Expire(f)) /\ WF_allVars(Sweep(f))

OAuthFairSpec == OAuthSpec /\ OAuthFairness

-----------------------------------------------------------------------------
(* Properties.                                                              *)

\* However often a browser repeats its callback, a flow sets out to add an
\* account once: the result is looked at again under callbackMu, and a result
\* that finish could not record belongs to a flow nobody finds any more.
AddsOnce == \A f \in Flows : adds[f] <= 1

\* All who are shown a result of a flow are shown the same one, and it is the
\* one the store keeps: also the browser whose result came too late to be
\* recorded.
AnswersAgree ==
  \A f \in Flows :
    /\ Cardinality(told[f]) <= 1
    /\ flow[f] = "open" /\ told[f] # {} => result[f] \in told[f]

\* Every flow is swept and its listener closed, completed or abandoned.
FlowsEnd == \A f \in Flows : flow[f] = "open" ~> flow[f] = "swept"

\* Every callback is answered, whatever others wait for the same flow.
CallbackAnswered == \A w \in Workers : at[w] # "away" ~> at[w] = "away"
=============================================================================
