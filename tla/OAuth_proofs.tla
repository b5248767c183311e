---------------------------- MODULE OAuth_proofs ----------------------------
(***************************************************************************)
(* Proofs about Accounts, for any number of administrators, operations and   *)
(* rows, and then about OAuth, for any number of flows and callbacks.         *)
(*                                                                         *)
(* A change of the table is pending until its listing is taken; when none is, *)
(* the latest listing is the table, wherever it is: with a worker, or         *)
(* applied.  Flows only add to what Accounts does, so that carries over.      *)
(* That an account is added once per flow rests on callbackMu: whoever is     *)
(* between "get" and finish holds the flow's lock, and finds it without a     *)
(* result.                                                                  *)
(***************************************************************************)
EXTENDS OAuth, FiniteSetTheorems, TLAPS

\* A row was changed and not listed since.  A row that was deleted meanwhile
\* is the business of who deleted it.
Pending(w) == pc[w] = "list" \/ (pc[w] = "read" /\ target[w] \in Rows)

Stamps ==
  /\ \A w \in Workers : pc[w] = "apply" => stamp[w] \in 1 .. taken
  /\ shown <= taken

InTurn ==
  ~unlisted /\ (\A w \in Workers : ~Pending(w)) =>
    /\ \A w \in Workers : pc[w] = "apply" /\ stamp[w] = taken => listing[w] = Listed
    /\ shown = taken => entry = Listed

\* What an operation works on.
Targets ==
  \A w \in Workers :
    /\ pc[w] \in {"look", "insert"} => job[w] \in [kind : {"add"}, who : People]
    /\ pc[w] \in {"update", "read", "check", "write", "list", "apply", "ok"} =>
         target[w] \in Ids
    /\ pc[w] \in {"update", "read", "check", "write", "list"} => job[w] \in Jobs

Inv == TypeOK /\ Targets /\ Stamps /\ InTurn

-----------------------------------------------------------------------------
(* What the steps of an operation look like.                                *)

\* An addition names a person, the other operations name a row.
LEMMA JobsName ==
  ASSUME NEW j \in Jobs
  PROVE  /\ j.kind = "add" => j \in [kind : {"add"}, who : People]
         /\ j.kind # "add" => j.id \in Ids
  BY DEF Jobs

\* A listing is a state for every row.
LEMMA ListedIsListing == Listed \in [Ids -> State]
  BY DEF Listed, State

\* No step but List, ListFails and Apply touches more than its own worker and
\* the table.
Quiet(w) ==
  \/ \E j \in Jobs : Begin(w, j)
  \/ Refuse(w) \/ Look(w) \/ Update(w) \/ ReadBack(w) \/ Check(w)
  \/ StatementFails(w) \/ Answer(w)

LEMMA StepsOfNext ==
  ASSUME Next
  PROVE  \E w \in Workers :
           Quiet(w) \/ Insert(w) \/ Write(w) \/ List(w) \/ ListFails(w)
             \/ Apply(w) \/ ApplyFails(w)
  BY DEF Next, Working, Quiet

-----------------------------------------------------------------------------
(* Types.                                                                   *)

LEMMA NothingIsListing == Nothing \in [Ids -> State]
  BY DEF Nothing, State

LEMMA InitTypes == Init => TypeOK
<1> SUFFICES ASSUME Init PROVE TypeOK
  OBVIOUS
<1>1. /\ jobs \in 0 .. MaxJobs /\ taken \in Nat /\ shown \in Nat
      /\ minted \in SUBSET Ids /\ unlisted \in BOOLEAN
  <2>1. MaxJobs \in Nat
    BY AccountsAssumption
  <2>2. jobs \in 0 .. MaxJobs
    BY <2>1 DEF Init
  <2> QED
    BY <2>2 DEF Init
<1>2. entry \in [Ids -> State] /\ listing \in [Workers -> [Ids -> State]]
  BY NothingIsListing DEF Init
<1>3. who \in [Ids -> People \cup {None}] /\ on \in [Ids -> BOOLEAN]
  BY DEF Init
<1>4. /\ job \in [Workers -> Jobs \cup {NoJob}]
      /\ target \in [Workers -> Ids \cup {None}]
      /\ stamp \in [Workers -> Nat]
  BY DEF Init
<1> QED
  BY <1>1, <1>2, <1>3, <1>4 DEF Init, TypeOK

LEMMA NextTypes == TypeOK /\ Targets /\ [Next]_vars => TypeOK'
<1> SUFFICES ASSUME TypeOK, Targets, [Next]_vars
             PROVE  TypeOK'
  OBVIOUS
<1> USE AccountsAssumption DEF TypeOK
<1>1. CASE UNCHANGED vars
  BY <1>1 DEF vars
<1>2. CASE Next
  <2>1. PICK w \in Workers :
          Quiet(w) \/ Insert(w) \/ Write(w) \/ List(w) \/ ListFails(w)
            \/ Apply(w) \/ ApplyFails(w)
    BY <1>2, StepsOfNext
  <2>2. ASSUME NEW j \in Jobs, Begin(w, j) PROVE TypeOK'
    <3>1. (IF j.kind = "add" THEN None ELSE j.id) \in Ids \cup {None}
      BY JobsName
    <3>2. jobs' \in 0 .. MaxJobs
      BY <2>2 DEF Begin
    <3> QED
      BY <2>2, <3>1, <3>2 DEF Begin, Goto, tableVars, poolVars, historyVars
  <2>3. CASE Refuse(w)
    BY <2>3 DEF Refuse, Goto, tableVars, poolVars, historyVars
  <2>4. CASE Look(w)
    <3>1. target' \in [Workers -> Ids \cup {None}]
      BY <2>4 DEF Look, Rows
    <3>2. pc' = [pc EXCEPT ![w] = "update"] \/ pc' = [pc EXCEPT ![w] = "insert"]
      BY <2>4 DEF Look, Goto
    <3> QED
      BY <2>4, <3>1, <3>2 DEF Look, tableVars, poolVars, historyVars
  <2>5. CASE Update(w) \/ ReadBack(w) \/ Check(w)
    BY <2>5 DEF Update, ReadBack, Check, Goto, tableVars, poolVars, historyVars
  <2>6. CASE StatementFails(w)
    BY <2>6 DEF StatementFails, Goto, tableVars, poolVars
  <2>7. CASE Answer(w)
    BY <2>7 DEF Answer, Goto, tableVars, poolVars, historyVars
  <2>8. CASE Insert(w)
    <3>1. job[w].who \in People
      BY <2>8 DEF Insert, At, Targets
    <3> QED
      BY <2>8, <3>1 DEF Insert, Goto, poolVars, historyVars
  <2>9. CASE Write(w)
    <3>1. /\ who' \in [Ids -> People \cup {None}]
          /\ on' \in [Ids -> BOOLEAN]
      BY <2>9 DEF Write
    <3> QED
      BY <2>9, <3>1 DEF Write, Goto, poolVars, historyVars
  <2>10. CASE List(w)
    <3>1. /\ listing' \in [Workers -> [Ids -> State]]
          /\ stamp' \in [Workers -> Nat]
          /\ taken' \in Nat
          /\ pc' = [pc EXCEPT ![w] = "apply"]
      BY <2>10, ListedIsListing DEF List, Goto
    <3>2. UNCHANGED <<tableVars, poolVars, jobs, job, target>> /\ unlisted' = FALSE
      BY <2>10 DEF List
    <3> QED
      BY <3>1, <3>2 DEF tableVars, poolVars
  <2>11. CASE ListFails(w)
    BY <2>11 DEF ListFails, Goto, tableVars, poolVars
  <2>13. CASE Apply(w)
    BY NothingIsListing, <2>13 DEF Apply, Reloaded, Clear, Goto, tableVars, historyVars
  <2>14. CASE ApplyFails(w)
    <3>1. entry' \in [Ids -> State]
      BY <2>14 DEF ApplyFails
    <3> QED
      BY NothingIsListing, <2>14, <3>1 DEF ApplyFails, Clear, Goto, tableVars, historyVars
  <2> QED
    BY <2>1, <2>2, <2>3, <2>4, <2>5, <2>6, <2>7, <2>8, <2>9, <2>10, <2>11, <2>13, <2>14
    DEF Quiet
<1> QED
  BY <1>1, <1>2
-----------------------------------------------------------------------------
(* What an operation works on.                                              *)

LEMMA NextTargets == TypeOK /\ Targets /\ [Next]_vars => Targets'
<1> SUFFICES ASSUME TypeOK, Targets, [Next]_vars
             PROVE  Targets'
  OBVIOUS
<1> USE DEF Targets, At
<1>1. CASE UNCHANGED vars
  BY <1>1 DEF vars
<1>2. CASE Next
  <2>1. PICK w \in Workers :
          Quiet(w) \/ Insert(w) \/ Write(w) \/ List(w) \/ ListFails(w)
            \/ Apply(w) \/ ApplyFails(w)
    BY <1>2, StepsOfNext
  <2>2. pc \in [Workers -> {"idle", "look", "insert", "update", "read", "check",
                             "write", "list", "apply", "ok", "error"}]
        /\ job \in [Workers -> Jobs \cup {NoJob}]
        /\ target \in [Workers -> Ids \cup {None}]
    BY DEF TypeOK
  <2>3. ASSUME NEW j \in Jobs, Begin(w, j) PROVE Targets'
    BY <2>2, <2>3, JobsName DEF Begin, Goto
  <2>4. CASE Look(w)
    <3>1. \/ /\ \E i \in Ids : target' = [target EXCEPT ![w] = i]
             /\ pc' = [pc EXCEPT ![w] = "update"]
          \/ target' = target /\ pc' = [pc EXCEPT ![w] = "insert"]
      BY <2>4 DEF Look, Rows, Goto
    <3>2. job[w] \in Jobs
      BY <2>4 DEF Look, Jobs
    <3> QED
      BY <2>2, <2>4, <3>1, <3>2 DEF Look
  <2>5. CASE Insert(w)
    <3>1. job[w] \in Jobs
      BY <2>5 DEF Insert, Jobs
    <3> QED
      BY <2>2, <2>5, <3>1 DEF Insert, Goto
  <2>6. CASE Refuse(w) \/ Update(w) \/ ReadBack(w) \/ Check(w) \/ StatementFails(w)
               \/ Write(w) \/ List(w) \/ ListFails(w)
    BY <2>2, <2>6
    DEF Refuse, Update, ReadBack, Check, StatementFails, Write, List, ListFails, Goto
  <2>7. CASE Apply(w) \/ ApplyFails(w) \/ Answer(w)
    BY <2>2, <2>7 DEF Apply, ApplyFails, Answer, Goto
  <2> QED
    BY <2>1, <2>3, <2>4, <2>5, <2>6, <2>7 DEF Quiet
<1> QED
  BY <1>1, <1>2

-----------------------------------------------------------------------------
(* Listings and changes.                                                    *)

LEMMA NextStamps == TypeOK /\ Stamps /\ [Next]_vars => Stamps'
<1> SUFFICES ASSUME TypeOK, Stamps, [Next]_vars
             PROVE  Stamps'
  OBVIOUS
<1> USE DEF Stamps, At
<1>1. CASE UNCHANGED vars
  BY <1>1 DEF vars
<1>2. CASE Next
  <2>1. PICK w \in Workers :
          Quiet(w) \/ Insert(w) \/ Write(w) \/ List(w) \/ ListFails(w)
            \/ Apply(w) \/ ApplyFails(w)
    BY <1>2, StepsOfNext
  <2>2. /\ pc \in [Workers -> {"idle", "look", "insert", "update", "read", "check",
                                "write", "list", "apply", "ok", "error"}]
        /\ stamp \in [Workers -> Nat] /\ taken \in Nat /\ shown \in Nat
    BY DEF TypeOK
  <2>3. CASE Quiet(w) \/ Insert(w) \/ Write(w) \/ ListFails(w)
    <3>1. /\ \E there : there # "apply" /\ pc' = [pc EXCEPT ![w] = there]
          /\ UNCHANGED <<stamp, taken>>
          /\ shown' = shown
      BY <2>3
      DEF Quiet, Begin, Refuse, Look, Update, ReadBack, Check, StatementFails, Answer,
          Insert, Write, ListFails, Goto, poolVars, historyVars
    <3> QED
      BY <2>2, <3>1
  <2>4. CASE List(w)
    BY <2>2, <2>4 DEF List, Goto, poolVars
  <2>5. CASE Apply(w) \/ ApplyFails(w)
    <3>1. /\ pc[w] = "apply"
          /\ \E there \in {"ok", "error"} : pc' = [pc EXCEPT ![w] = there]
          /\ stamp' = [stamp EXCEPT ![w] = 0]
          /\ taken' = taken
          /\ shown' = stamp[w] \/ shown' = 0
      BY <2>5 DEF Apply, ApplyFails, Clear, Goto, historyVars
    <3> QED
      BY <2>2, <3>1
  <2> QED
    BY <2>1, <2>3, <2>4, <2>5
<1> QED
  BY <1>1, <1>2

\* While nothing is pending, the latest listing tells the truth.
LEMMA NextInTurn == TypeOK /\ Targets /\ Stamps /\ InTurn /\ [Next]_vars => InTurn'
<1> SUFFICES ASSUME TypeOK, Targets, Stamps, InTurn, [Next]_vars,
                    ~unlisted', \A v \in Workers : ~Pending(v)'
             PROVE  /\ \A v \in Workers :
                         pc'[v] = "apply" /\ stamp'[v] = taken' => listing'[v] = Listed'
                    /\ shown' = taken' => entry' = Listed'
  BY DEF InTurn
<1> USE DEF At
<1>1. CASE UNCHANGED vars
  BY <1>1 DEF vars, InTurn, Pending, Listed, Rows
<1>2. CASE Next
  <2>1. PICK w \in Workers :
          Quiet(w) \/ Insert(w) \/ Write(w) \/ List(w) \/ ListFails(w)
            \/ Apply(w) \/ ApplyFails(w)
    BY <1>2, StepsOfNext
  <2>2. /\ pc \in [Workers -> {"idle", "look", "insert", "update", "read", "check",
                                "write", "list", "apply", "ok", "error"}]
        /\ target \in [Workers -> Ids \cup {None}]
        /\ listing \in [Workers -> [Ids -> State]]
        /\ stamp \in [Workers -> Nat] /\ taken \in Nat /\ shown \in Nat
        /\ unlisted \in BOOLEAN
    BY DEF TypeOK
  <2>3. CASE Quiet(w)
    <3>1. UNCHANGED <<tableVars, poolVars, listing, stamp, taken>>
      BY <2>3
      DEF Quiet, Begin, Refuse, Look, Update, ReadBack, Check, StatementFails, Answer,
          historyVars
    <3>2. Listed' = Listed /\ Rows' = Rows
      BY <3>1 DEF Listed, Rows, tableVars
    <3>3. /\ \A v \in Workers \ {w} : pc'[v] = pc[v] /\ target'[v] = target[v]
          /\ pc'[w] # "apply"
      BY <2>2, <2>3
      DEF Quiet, Begin, Refuse, Look, Update, ReadBack, Check, StatementFails, Answer, Goto
    <3>4. ~unlisted /\ ~Pending(w)
      BY <2>2, <2>3
      DEF Quiet, Begin, Refuse, Look, Update, ReadBack, Check, StatementFails, Answer,
          Goto, Pending, historyVars
    <3>5. \A v \in Workers : ~Pending(v)
      BY <3>2, <3>3, <3>4 DEF Pending
    <3> QED
      BY <3>1, <3>2, <3>3, <3>4, <3>5 DEF InTurn, poolVars
  <2>4. CASE Insert(w)
    <3>1. /\ pc'[w] = "read"
          /\ \E i \in Ids : target'[w] = i /\ who'[i] = job[w].who
      BY <2>2, <2>4 DEF Insert, Goto, TypeOK
    <3>2. job[w].who # None
      BY <2>4, AccountsAssumption DEF Insert, Targets
    <3>3. Pending(w)'
      BY <3>1, <3>2 DEF Pending, Rows
    <3> QED
      BY <3>3
  <2>5. CASE Write(w)
    <3>1. Pending(w)'
      BY <2>2, <2>5 DEF Write, Goto, Pending
    <3> QED
      BY <3>1
  <2>6. CASE List(w)
    <3>1. /\ pc' = [pc EXCEPT ![w] = "apply"]
          /\ listing' = [listing EXCEPT ![w] = Listed]
          /\ stamp' = [stamp EXCEPT ![w] = taken + 1]
          /\ taken' = taken + 1
          /\ shown' = shown
      BY <2>6 DEF List, Goto, poolVars
    <3>2. Listed' = Listed
      BY <2>6 DEF List, Listed, Rows, tableVars
    <3>3. shown' # taken'
      BY <2>2, <3>1 DEF Stamps
    <3>4. \A v \in Workers \ {w} : pc'[v] = "apply" => stamp'[v] # taken'
      BY <2>2, <3>1 DEF Stamps
    <3> QED
      BY <2>2, <3>1, <3>2, <3>3, <3>4
  <2>7. CASE ListFails(w)
    BY <2>7 DEF ListFails
  <2>8. CASE Apply(w) \/ ApplyFails(w)
    <3>1. /\ pc[w] = "apply"
          /\ \E there \in {"ok", "error"} : pc' = [pc EXCEPT ![w] = there]
          /\ listing' = [listing EXCEPT ![w] = Nothing]
          /\ stamp' = [stamp EXCEPT ![w] = 0]
          /\ UNCHANGED <<tableVars, target, historyVars>>
      BY <2>8 DEF Apply, ApplyFails, Clear, Goto
    <3>2. Listed' = Listed /\ Rows' = Rows /\ taken' = taken /\ unlisted' = unlisted
      BY <3>1 DEF Listed, Rows, tableVars, historyVars
    <3>3. ~unlisted /\ \A v \in Workers : ~Pending(v)
      BY <2>2, <3>1, <3>2 DEF Pending
    <3>4. \A v \in Workers \ {w} :
            /\ pc'[v] = pc[v] /\ listing'[v] = listing[v] /\ stamp'[v] = stamp[v]
      BY <2>2, <3>1
    <3>5. pc'[w] # "apply"
      BY <2>2, <3>1
    <3>6. shown' = taken' => entry' = Listed'
      <4>1. CASE Apply(w)
        BY <3>1, <3>2, <3>3, <4>1 DEF Apply, Reloaded, InTurn
      <4>2. CASE ApplyFails(w)
        BY <2>2, <3>1, <3>2, <4>2 DEF ApplyFails, Stamps
      <4> QED
        BY <2>8, <4>1, <4>2
    <3> QED
      BY <3>2, <3>3, <3>4, <3>5, <3>6 DEF InTurn
  <2> QED
    BY <2>1, <2>3, <2>4, <2>5, <2>6, <2>7, <2>8
<1> QED
  BY <1>1, <1>2

LEMMA InitInv == Init => Inv
<1> SUFFICES ASSUME Init PROVE Inv
  OBVIOUS
<1>1. TypeOK
  BY InitTypes
<1>2. Targets /\ Stamps
  BY DEF Init, Targets, Stamps
<1>3. Listed = Nothing
  BY DEF Init, Listed, Nothing, Rows
<1>4. InTurn
  BY <1>3 DEF Init, InTurn
<1> QED
  BY <1>1, <1>2, <1>4 DEF Inv

LEMMA NextInv == Inv /\ [Next]_vars => Inv'
  BY NextTypes, NextTargets, NextStamps, NextInTurn DEF Inv

LEMMA InvHolds == Spec => []Inv
  BY InitInv, NextInv, PTL DEF Spec

-----------------------------------------------------------------------------
(* Results.                                                                 *)

\* Every variable keeps its type, for any number of rows and administrators:
\* in particular an entry is on or off as a listing said (Pool.Reload).
THEOREM AccountsTypeCorrect == Spec => []TypeOK
<1>1. Inv => TypeOK
  BY DEF Inv
<1> QED
  BY <1>1, InvHolds, PTL

\* Whatever administrators change at once (accounts.go), the pool's entries
\* are the rows of the table once all have answered, unless a reload failed or
\* an older listing was applied after the latest one.
THEOREM AccountsReachPool == Spec => []PoolFollowsTable
<1>1. Inv => PoolFollowsTable
  BY DEF Inv, InTurn, PoolFollowsTable, AllIdle, Pending, At
<1> QED
  BY <1>1, InvHolds, PTL

-----------------------------------------------------------------------------
(* The flows.                                                               *)

\* Who is past Lock holds the lock of the flow it serves.
Holders ==
  \A w \in Workers :
    /\ at[w] # "away" => serves[w] \in Flows /\ flow[serves[w]] # "new"
    /\ at[w] \in {"get", "add"} => holder[serves[w]] = w

Counted == \A f \in Flows : adds[f] <= jobs

\* Who set out to add an account is still at it, or it left a trace.
SetOut ==
  \A f \in Flows :
    /\ adds[f] <= 1
    /\ adds[f] = 1 =>
         \/ flow[f] = "swept"
         \/ result[f] # "pending"
         \/ \E w \in Workers : at[w] = "add" /\ serves[w] = f

\* Nobody was shown a result that is not the flow's.
Shown ==
  /\ \A f \in Flows :
       /\ result[f] = "pending" /\ flow[f] # "swept" => told[f] = {}
       /\ result[f] # "pending" => told[f] \subseteq {result[f]}
       /\ \A a, b \in told[f] : a = b
  /\ \A w \in Workers :
       at[w] = "add" => told[serves[w]] = {} /\ result[serves[w]] = "pending"

OAuthInv == Inv /\ OAuthTypeOK /\ Holders /\ Counted /\ SetOut /\ Shown

-----------------------------------------------------------------------------
(* Flows only add.                                                          *)

\* A step of a flow is a step of Accounts or leaves it alone.
LEMMA FlowsAdd == ASSUME OAuthNext PROVE Next \/ UNCHANGED vars
<1>1. ASSUME NEW f \in Flows, Start(f) \/ Expire(f) \/ Sweep(f) \/ Poll(f)
      PROVE  UNCHANGED vars
  BY <1>1 DEF Start, Expire, Sweep, Poll
<1>2. ASSUME NEW w \in Workers, NEW f \in Flows, Callback(w, f) PROVE UNCHANGED vars
  BY <1>2 DEF Callback
<1>3. ASSUME NEW w \in Workers, Lock(w) \/ LeaveFlowAlone(w) \/ ShowResult(w)
      PROVE  UNCHANGED vars
  BY <1>3 DEF Lock, LeaveFlowAlone, ShowResult
<1>4. ASSUME NEW w \in Workers, AddAccount(w) PROVE Next
  <2>1. CASE Refuse(w)
    BY <2>1 DEF Next
  <2>2. ASSUME NEW p \in People, Begin(w, [kind |-> "add", who |-> p]) PROVE Next
    <3>1. [kind |-> "add", who |-> p] \in Jobs
      BY DEF Jobs
    <3> QED
      BY <2>2, <3>1 DEF Next
  <2> QED
    BY <1>4, <2>1, <2>2 DEF AddAccount
<1>5. ASSUME NEW w \in Workers, Finish(w) \/ Work(w) \/ Handler(w) PROVE Next
  BY <1>5 DEF Finish, Work, Handler, Next
<1> QED
  BY <1>1, <1>2, <1>3, <1>4, <1>5 DEF OAuthNext, HandleCallback

LEMMA StepsAdd == [OAuthNext]_allVars => [Next]_vars
  BY FlowsAdd DEF allVars

\* The cases of a step.
LEMMA StepsOfOAuth ==
  ASSUME OAuthNext
  PROVE  \/ \E f \in Flows : Start(f) \/ Expire(f) \/ Sweep(f) \/ Poll(f)
         \/ \E w \in Workers :
              \/ \E f \in Flows : Callback(w, f)
              \/ Lock(w) \/ LeaveFlowAlone(w) \/ ShowResult(w) \/ AddAccount(w) \/ Finish(w)
              \/ UNCHANGED oauthVars
  BY DEF OAuthNext, HandleCallback, Work, Handler

\* Jobs are counted, never forgotten.
LEMMA JobsGrow ==
  ASSUME TypeOK, [Next]_vars
  PROVE  jobs' \in Nat /\ jobs <= jobs'
<1>1. jobs' = jobs \/ jobs' = jobs + 1
  BY DEF vars, Next, Working, Begin, Refuse, Look, Insert, Update, ReadBack, Check, Write,
         StatementFails, List, ListFails, Apply, ApplyFails, Answer
<1>2. jobs \in Nat
  BY AccountsAssumption DEF TypeOK
<1> QED
  BY <1>1, <1>2

\* What finish records is an account or an error.
LEMMA OutcomeTyped ==
  ASSUME Inv, NEW w \in Workers
  PROVE  Outcome(w) \in Outcomes /\ Outcome(w) # "pending"
  BY OAuthAssumption DEF Inv, Targets, Outcome, Outcomes, At

-----------------------------------------------------------------------------
(* The lock.                                                                *)

LEMMA NextHolders ==
  ASSUME OAuthTypeOK, Holders, [OAuthNext]_allVars
  PROVE  Holders'
<1> USE DEF Holders
<1>1. /\ at \in [Workers -> {"away", "lock", "get", "add"}]
      /\ serves \in [Workers -> Flows \cup {None}]
      /\ holder \in [Flows -> Workers \cup {None}]
      /\ flow \in [Flows -> {"new", "open", "swept"}]
      /\ None \notin Flows \cup Workers
  BY AccountsAssumption, OAuthAssumption DEF OAuthTypeOK
<1>2. CASE UNCHANGED oauthVars
  BY <1>2 DEF oauthVars
<1>3. ASSUME NEW f \in Flows, Start(f) \/ Expire(f) \/ Sweep(f) \/ Poll(f)
      PROVE  Holders'
  BY <1>1, <1>3 DEF Start, Expire, Sweep, Poll
<1>4. ASSUME NEW w \in Workers, NEW f \in Flows, Callback(w, f) PROVE Holders'
  BY <1>1, <1>4 DEF Callback, Found
<1>5. ASSUME NEW w \in Workers, Lock(w) PROVE Holders'
  BY <1>1, <1>5 DEF Lock, Free
<1>6. ASSUME NEW w \in Workers, LeaveFlowAlone(w) \/ ShowResult(w) \/ Finish(w)
      PROVE  Holders'
  BY <1>1, <1>6 DEF LeaveFlowAlone, ShowResult, Finish, Leave, Unlock
<1>7. ASSUME NEW w \in Workers, AddAccount(w) PROVE Holders'
  BY <1>1, <1>7 DEF AddAccount
<1> QED
  BY <1>2, <1>3, <1>4, <1>5, <1>6, <1>7, StepsOfOAuth DEF allVars

-----------------------------------------------------------------------------
(* One account for a flow.                                                  *)

LEMMA NextCounted ==
  ASSUME OAuthTypeOK, Counted, Holders, [OAuthNext]_allVars
  PROVE  Counted' /\ adds' \in [Flows -> 0 .. MaxJobs]
<1>1. /\ TypeOK
      /\ adds \in [Flows -> 0 .. MaxJobs]
      /\ jobs \in Nat /\ MaxJobs \in Nat
  BY AccountsAssumption DEF OAuthTypeOK, TypeOK
<1>2. jobs' \in Nat /\ jobs <= jobs'
  BY <1>1, StepsAdd, JobsGrow
<1>3. CASE UNCHANGED adds
  BY <1>1, <1>2, <1>3 DEF Counted
<1>4. ASSUME NEW w \in Workers, AddAccount(w), ~UNCHANGED adds
      PROVE  Counted' /\ adds' \in [Flows -> 0 .. MaxJobs]
  <2>1. /\ serves[w] \in Flows
        /\ adds' = [adds EXCEPT ![serves[w]] = @ + 1]
        /\ jobs' = jobs + 1 /\ jobs < MaxJobs
    BY <1>4 DEF AddAccount, Begin, Holders
  <2>2. \A f \in Flows : adds[f] \in Nat /\ adds[f] <= jobs
    BY <1>1 DEF Counted
  <2> QED
    BY <1>1, <2>1, <2>2 DEF Counted
<1> QED
  BY <1>3, <1>4, StepsOfOAuth
  DEF allVars, oauthVars, Start, Expire, Sweep, Poll, Callback, Lock, LeaveFlowAlone,
      ShowResult, Finish

LEMMA NextSetOut ==
  ASSUME OAuthTypeOK, Inv, Holders, Shown, SetOut, [OAuthNext]_allVars
  PROVE  SetOut'
<1>1. /\ at \in [Workers -> {"away", "lock", "get", "add"}]
      /\ result \in [Flows -> Outcomes \cup {"pending"}]
      /\ flow \in [Flows -> {"new", "open", "swept"}]
  BY DEF OAuthTypeOK
<1>2. adds \in [Flows -> Nat]
  BY DEF OAuthTypeOK
<1>3. CASE UNCHANGED oauthVars
  BY <1>3 DEF oauthVars, SetOut
<1>4. ASSUME NEW f \in Flows, Start(f) \/ Expire(f) \/ Sweep(f) \/ Poll(f)
      PROVE  SetOut'
  BY <1>1, <1>4 DEF Start, Expire, Sweep, Poll, SetOut
<1>5. ASSUME NEW w \in Workers, NEW f \in Flows, Callback(w, f) PROVE SetOut'
  BY <1>1, <1>5 DEF Callback, SetOut, OAuthTypeOK
<1>6. ASSUME NEW w \in Workers, Lock(w) PROVE SetOut'
  BY <1>1, <1>6 DEF Lock, SetOut
<1>7. ASSUME NEW w \in Workers, LeaveFlowAlone(w) \/ ShowResult(w) PROVE SetOut'
  BY <1>1, <1>7 DEF LeaveFlowAlone, ShowResult, Leave, SetOut, OAuthTypeOK
<1>8. ASSUME NEW w \in Workers, AddAccount(w) PROVE SetOut'
  <2>1. /\ at[w] = "get" /\ at' = [at EXCEPT ![w] = "add"]
        /\ serves[w] \in Flows /\ holder[serves[w]] = w
        /\ flow[serves[w]] = "open" /\ result[serves[w]] = "pending"
        /\ UNCHANGED <<flow, result, serves>>
    BY <1>8 DEF AddAccount, Found, Holders
  <2>2. ~\E v \in Workers : at[v] = "add" /\ serves[v] = serves[w]
    BY <2>1 DEF Holders
  <2>3. adds[serves[w]] = 0
    BY <1>2, <2>1, <2>2 DEF SetOut
  <2>4. /\ \A f \in Flows \ {serves[w]} : adds'[f] = adds[f]
        /\ adds'[serves[w]] <= 1
    BY <1>2, <1>8, <2>1, <2>3 DEF AddAccount
  <2>5. at'[w] = "add" /\ \A v \in Workers \ {w} : at'[v] = at[v]
    BY <1>1, <2>1
  <2> QED
    BY <2>1, <2>4, <2>5 DEF SetOut
<1>9. ASSUME NEW w \in Workers, Finish(w) PROVE SetOut'
  <2>1. /\ at[w] = "add" /\ serves[w] \in Flows
        /\ at' = [at EXCEPT ![w] = "away"]
        /\ serves' = [serves EXCEPT ![w] = None]
        /\ UNCHANGED <<flow, adds>>
    BY <1>9 DEF Finish, Leave, Holders
  <2>2. /\ \A f \in Flows \ {serves[w]} : result'[f] = result[f]
        /\ flow[serves[w]] = "open" => result'[serves[w]] # "pending"
        /\ result[serves[w]] # "pending" => result'[serves[w]] # "pending"
    BY <1>1, <1>9, <2>1, OutcomeTyped DEF Finish
  <2>3. \A v \in Workers \ {w} : at'[v] = at[v] /\ serves'[v] = serves[v]
    BY <1>1, <2>1 DEF OAuthTypeOK
  <2>4. flow[serves[w]] \in {"open", "swept"}
    BY <1>1, <2>1, <1>9 DEF Holders, Finish
  <2> QED
    BY <2>1, <2>2, <2>3, <2>4 DEF SetOut
<1> QED
  BY <1>3, <1>4, <1>5, <1>6, <1>7, <1>8, <1>9, StepsOfOAuth DEF allVars

-----------------------------------------------------------------------------
(* One result for all.                                                      *)

LEMMA NextShown ==
  ASSUME OAuthTypeOK, Inv, Holders, Shown, [OAuthNext]_allVars
  PROVE  Shown'
<1>1. /\ at \in [Workers -> {"away", "lock", "get", "add"}]
      /\ serves \in [Workers -> Flows \cup {None}]
      /\ result \in [Flows -> Outcomes \cup {"pending"}]
      /\ flow \in [Flows -> {"new", "open", "swept"}]
      /\ told \in [Flows -> SUBSET Outcomes]
  BY DEF OAuthTypeOK
<1>2. \A w \in Workers : at[w] # "away" => serves[w] \in Flows
  BY DEF Holders
<1>3. CASE UNCHANGED oauthVars
  BY <1>3 DEF oauthVars, Shown
<1>4. ASSUME NEW f \in Flows, Start(f) \/ Expire(f) \/ Sweep(f) PROVE Shown'
  BY <1>1, <1>4 DEF Start, Expire, Sweep, Shown
<1>5. ASSUME NEW f \in Flows, Poll(f) PROVE Shown'
  BY <1>1, <1>2, <1>5 DEF Poll, Shown
<1>6. ASSUME NEW w \in Workers, NEW f \in Flows, Callback(w, f) PROVE Shown'
  BY <1>1, <1>6 DEF Callback, Shown
<1>7. ASSUME NEW w \in Workers, Lock(w) PROVE Shown'
  BY <1>1, <1>7 DEF Lock, Shown
<1>8. ASSUME NEW w \in Workers, LeaveFlowAlone(w) PROVE Shown'
  BY <1>1, <1>8 DEF LeaveFlowAlone, Leave, Shown
<1>9. ASSUME NEW w \in Workers, ShowResult(w) PROVE Shown'
  BY <1>1, <1>2, <1>9 DEF ShowResult, Leave, Shown
<1>10. ASSUME NEW w \in Workers, AddAccount(w) PROVE Shown'
  BY <1>1, <1>2, <1>10 DEF AddAccount, Found, Shown
<1>11. ASSUME NEW w \in Workers, Finish(w) PROVE Shown'
  <2> DEFINE f == serves[w]
  <2>1. /\ at[w] = "add" /\ f \in Flows /\ holder[f] = w
        /\ told[f] = {} /\ result[f] = "pending" /\ flow[f] \in {"open", "swept"}
    BY <1>1, <1>11 DEF Finish, Holders, Shown
  <2>2. /\ at' = [at EXCEPT ![w] = "away"]
        /\ serves' = [serves EXCEPT ![w] = None]
        /\ flow' = flow
        /\ told' = [told EXCEPT ![f] = {Outcome(w)}]
        /\ result' = [result EXCEPT ![f] = IF flow[f] = "open" THEN Outcome(w) ELSE @]
    BY <1>1, <1>11, <2>1 DEF Finish, Leave
  <2>3. Outcome(w) # "pending"
    BY OutcomeTyped
  <2>4. \A v \in Workers \ {w} :
          at'[v] = "add" => serves'[v] = serves[v] /\ serves[v] \in Flows \ {f}
    BY <1>1, <1>2, <2>1, <2>2 DEF Holders
  <2>5. \A g \in Flows \ {f} : result'[g] = result[g] /\ told'[g] = told[g]
    BY <2>2
  <2>6. \A v \in Workers :
          at'[v] = "add" => told'[serves'[v]] = {} /\ result'[serves'[v]] = "pending"
    BY <1>1, <2>2, <2>4, <2>5 DEF Shown
  <2>7. /\ result'[f] = "pending" /\ flow'[f] # "swept" => told'[f] = {}
        /\ result'[f] # "pending" => told'[f] \subseteq {result'[f]}
        /\ \A a, b \in told'[f] : a = b
    BY <1>1, <2>1, <2>2, <2>3
  <2>8. ASSUME NEW g \in Flows
        PROVE  /\ result'[g] = "pending" /\ flow'[g] # "swept" => told'[g] = {}
               /\ result'[g] # "pending" => told'[g] \subseteq {result'[g]}
               /\ \A a, b \in told'[g] : a = b
    <3>1. CASE g = f
      BY <2>7, <3>1
    <3>2. CASE g # f
      BY <2>2, <2>5, <3>2 DEF Shown
    <3>3. QED
      BY <3>1, <3>2
  <2> QED
    BY <2>6, <2>8 DEF Shown
<1> QED
  BY <1>3, <1>4, <1>5, <1>6, <1>7, <1>8, <1>9, <1>10, <1>11, StepsOfOAuth DEF allVars

-----------------------------------------------------------------------------
(* Types.                                                                   *)

LEMMA NextOAuthTypes ==
  ASSUME OAuthTypeOK, Inv, Holders, Counted, [OAuthNext]_allVars
  PROVE  OAuthTypeOK'
<1>1. TypeOK' /\ adds' \in [Flows -> 0 .. MaxJobs]
  BY StepsAdd, NextInv, NextCounted DEF Inv
<1>2. /\ at \in [Workers -> {"away", "lock", "get", "add"}]
      /\ serves \in [Workers -> Flows \cup {None}]
      /\ holder \in [Flows -> Workers \cup {None}]
      /\ flow \in [Flows -> {"new", "open", "swept"}]
      /\ manual \in [Flows -> BOOLEAN]
      /\ expired \in [Flows -> BOOLEAN]
  BY DEF OAuthTypeOK
<1>3. /\ result \in [Flows -> Outcomes \cup {"pending"}]
      /\ told \in [Flows -> SUBSET Outcomes]
  BY DEF OAuthTypeOK
<1>4. \A w \in Workers : at[w] # "away" => serves[w] \in Flows
  BY DEF Holders
<1>5. /\ flow' \in [Flows -> {"new", "open", "swept"}]
      /\ manual' \in [Flows -> BOOLEAN]
      /\ expired' \in [Flows -> BOOLEAN]
  BY <1>2, StepsOfOAuth
  DEF allVars, oauthVars, Start, Expire, Sweep, Poll, Callback, Lock, LeaveFlowAlone,
      ShowResult, AddAccount, Finish
<1>6. /\ at' \in [Workers -> {"away", "lock", "get", "add"}]
      /\ serves' \in [Workers -> Flows \cup {None}]
      /\ holder' \in [Flows -> Workers \cup {None}]
  BY <1>2, <1>4, StepsOfOAuth
  DEF allVars, oauthVars, Start, Expire, Sweep, Poll, Callback, Lock, LeaveFlowAlone,
      ShowResult, AddAccount, Finish, Leave, Unlock
<1>7. /\ result' \in [Flows -> Outcomes \cup {"pending"}]
      /\ told' \in [Flows -> SUBSET Outcomes]
  <2>1. ASSUME NEW f \in Flows, Poll(f)
        PROVE  /\ result' \in [Flows -> Outcomes \cup {"pending"}]
               /\ told' \in [Flows -> SUBSET Outcomes]
    BY <1>3, <2>1 DEF Poll
  <2>2. ASSUME NEW w \in Workers, ShowResult(w)
        PROVE  /\ result' \in [Flows -> Outcomes \cup {"pending"}]
               /\ told' \in [Flows -> SUBSET Outcomes]
    BY <1>3, <1>4, <2>2 DEF ShowResult
  <2>3. ASSUME NEW w \in Workers, Finish(w)
        PROVE  /\ result' \in [Flows -> Outcomes \cup {"pending"}]
               /\ told' \in [Flows -> SUBSET Outcomes]
    BY <1>3, <1>4, <2>3, OutcomeTyped DEF Finish
  <2> QED
    BY <1>3, <2>1, <2>2, <2>3, StepsOfOAuth
    DEF allVars, oauthVars, Start, Expire, Sweep, Callback, Lock, LeaveFlowAlone, AddAccount
<1> QED
  BY <1>1, <1>5, <1>6, <1>7 DEF OAuthTypeOK

LEMMA OAuthInitInv == OAuthInit => OAuthInv
<1> SUFFICES ASSUME OAuthInit PROVE OAuthInv
  OBVIOUS
<1>1. Init /\ Inv /\ TypeOK
  BY InitInv DEF OAuthInit, Inv
<1>2. MaxJobs \in Nat
  BY AccountsAssumption
<1>3. adds \in [Flows -> 0 .. MaxJobs]
  BY <1>2 DEF OAuthInit
<1>4. OAuthTypeOK
  BY <1>1, <1>3 DEF OAuthInit, OAuthTypeOK
<1>5. Holders
  BY DEF OAuthInit, Holders
<1>6. Counted
  BY <1>1 DEF OAuthInit, Init, Counted
<1>7. SetOut
  BY DEF OAuthInit, SetOut
<1>8. Shown
  BY DEF OAuthInit, Shown
<1> QED
  BY <1>1, <1>4, <1>5, <1>6, <1>7, <1>8 DEF OAuthInv

LEMMA OAuthNextInv == OAuthInv /\ [OAuthNext]_allVars => OAuthInv'
<1> SUFFICES ASSUME OAuthInv, [OAuthNext]_allVars PROVE OAuthInv'
  OBVIOUS
<1>1. Inv /\ OAuthTypeOK /\ Holders /\ Counted /\ SetOut /\ Shown
  BY DEF OAuthInv
<1>2. Inv'
  BY <1>1, StepsAdd, NextInv
<1>3. OAuthTypeOK' /\ Holders' /\ Counted'
  BY <1>1, NextOAuthTypes, NextHolders, NextCounted
<1>4. SetOut' /\ Shown'
  BY <1>1, NextSetOut, NextShown
<1> QED
  BY <1>2, <1>3, <1>4 DEF OAuthInv

LEMMA OAuthInvHolds == OAuthSpec => []OAuthInv
  BY OAuthInitInv, OAuthNextInv, PTL DEF OAuthSpec

-----------------------------------------------------------------------------
(* Results.                                                                 *)

\* Flows change accounts and the pool by no way but addAccount (oauth.go:406):
\* with any number of flows, what happens to the table and the pool is a
\* behaviour of Accounts.
THEOREM OAuthImplementsAccounts == OAuthSpec => Spec
<1>1. OAuthInit => Init
  BY DEF OAuthInit
<1> QED
  BY <1>1, StepsAdd, PTL DEF OAuthSpec, Spec

\* So the pool shows the table when all have answered, sign-ins included.
THEOREM OAuthReachesPool == OAuthSpec => []PoolFollowsTable
  BY OAuthImplementsAccounts, AccountsReachPool, PTL

\* Every variable keeps its type: a recorded result is an account or an error.
THEOREM OAuthTypeCorrect == OAuthSpec => []OAuthTypeOK
<1>1. OAuthInv => OAuthTypeOK
  BY DEF OAuthInv
<1> QED
  BY <1>1, OAuthInvHolds, PTL

\* However many duplicates of a callback there are, a flow adds one account:
\* callbackMu is held from the second look at the result until finish.
THEOREM OAuthAddsOnce == OAuthSpec => []AddsOnce
<1>1. OAuthInv => AddsOnce
  BY DEF OAuthInv, SetOut, AddsOnce
<1> QED
  BY <1>1, OAuthInvHolds, PTL

\* Whoever is shown a result of a flow is shown the same one.
THEOREM OAuthAnswersAgree == OAuthSpec => []AnswersAgree
<1>1. OAuthInv => AnswersAgree
  <2> SUFFICES ASSUME OAuthInv, NEW f \in Flows
               PROVE  /\ Cardinality(told[f]) <= 1
                      /\ flow[f] = "open" /\ told[f] # {} => result[f] \in told[f]
    BY DEF AnswersAgree
  <2>1. /\ result[f] = "pending" /\ flow[f] # "swept" => told[f] = {}
        /\ result[f] # "pending" => told[f] \subseteq {result[f]}
        /\ \A a, b \in told[f] : a = b
    BY DEF OAuthInv, Shown
  <2>2. CASE told[f] = {}
    BY <2>2, FS_EmptySet
  <2>3. CASE told[f] # {}
    <3>1. PICK a : told[f] = {a}
      BY <2>1, <2>3
    <3>2. Cardinality(told[f]) = 1
      BY <3>1, FS_Singleton
    <3> QED
      BY <2>1, <2>3, <3>2
  <2> QED
    BY <2>2, <2>3
<1> QED
  BY <1>1, OAuthInvHolds, PTL
=============================================================================
