------------------------------ MODULE Accounts ------------------------------
(***************************************************************************)
(* The accounts table and the pool's copy of it: internal/admin/accounts.go  *)
(* changes the table (internal/store/store.go) and then calls Pool.Reload    *)
(* (internal/pool/pool.go), which lists the table without a lock and brings  *)
(* the entries into line under the pool's lock.  Every statement commits on  *)
(* its own, so the operations of several administrators interleave between   *)
(* their statements.                                                         *)
(*                                                                         *)
(* A person stands for an email and a provider.  Tokens are left out: they   *)
(* are the subject of Credential.                                            *)
(***************************************************************************)
EXTENDS Integers, FiniteSets

CONSTANTS
  Ids,        \* row ids, one for every operation; randomID never gives one twice
  People,     \* an email with a provider
  Workers,    \* goroutines of the administration
  None,
  MaxJobs,    \* bound: operations explored
  DbMayFail,  \* whether a statement may return an error
  NewMayFail  \* whether newClient may return an error

ASSUME AccountsAssumption ==
  /\ IsFiniteSet(Ids) /\ IsFiniteSet(Workers)
  /\ None \notin Ids \cup People \cup Workers
  /\ MaxJobs \in Nat
  /\ Cardinality(Ids) >= MaxJobs
  /\ {DbMayFail, NewMayFail} \subseteq BOOLEAN

VARIABLES
  who,      \* accounts.email and provider of a row; None: no such row
  on,       \* accounts.enabled
  minted,   \* ids that have been given out
  entry,    \* Pool.entries: the Enabled of an entry's Account
  jobs,     \* operations begun
  pc,       \* where a worker is
  job,      \* what it was asked to do
  target,   \* the row it works on
  listing,  \* what its ListAccounts returned
  stamp,    \* history: the number of that listing
  taken,    \* history: listings taken
  shown,    \* history: the listing that was applied last, 0 if that failed
  unlisted  \* history: a change whose listing failed

tableVars == <<who, on, minted>>
poolVars == <<entry, shown>>
workVars == <<pc, job, target, listing, stamp>>
historyVars == <<taken, unlisted>>
vars == <<who, on, minted, entry, jobs, pc, job, target, listing, stamp, taken, shown, unlisted>>

Jobs == [kind : {"add"}, who : People] \cup [kind : {"enable", "disable", "delete"}, id : Ids]
NoJob == [kind |-> "none"]
State == {"absent", "on", "off"}

TypeOK ==
  /\ who \in [Ids -> People \cup {None}]
  /\ on \in [Ids -> BOOLEAN]
  /\ minted \in SUBSET Ids
  /\ entry \in [Ids -> State]
  /\ jobs \in 0 .. MaxJobs
  /\ pc \in [Workers -> {"idle", "look", "insert", "update", "read", "check", "write", "list", "apply", "ok", "error"}]
  /\ job \in [Workers -> Jobs \cup {NoJob}]
  /\ target \in [Workers -> Ids \cup {None}]
  /\ listing \in [Workers -> [Ids -> State]]
  /\ stamp \in [Workers -> Nat]
  /\ taken \in Nat
  /\ shown \in Nat
  /\ unlisted \in BOOLEAN

Nothing == [i \in Ids |-> "absent"]

Init ==
  /\ who = [i \in Ids |-> None]
  /\ on = [i \in Ids |-> FALSE]
  /\ minted = {}
  /\ entry = Nothing
  /\ jobs = 0
  /\ pc = [w \in Workers |-> "idle"]
  /\ job = [w \in Workers |-> NoJob]
  /\ target = [w \in Workers |-> None]
  /\ listing = [w \in Workers |-> Nothing]
  /\ stamp = [w \in Workers |-> 0]
  /\ taken = 0
  /\ shown = 0
  /\ unlisted = FALSE

Rows == {i \in Ids : who[i] # None}

At(w, here) == pc[w] = here

Goto(w, there) == pc' = [pc EXCEPT ![w] = there]

-----------------------------------------------------------------------------
(* The operations on the table.                                             *)

Begin(w, j) ==
  /\ At(w, "idle")
  /\ jobs < MaxJobs
  /\ jobs' = jobs + 1
  /\ job' = [job EXCEPT ![w] = j]
  /\ target' = [target EXCEPT ![w] = IF j.kind = "add" THEN None ELSE j.id]
  /\ Goto(w, IF j.kind = "add" THEN "look" ELSE "check")
  /\ UNCHANGED <<tableVars, poolVars, listing, stamp, historyVars>>

\* A request that is refused before it reaches the table: a body that cannot be
\* read, or a token that parseRefreshToken does not take.
Refuse(w) ==
  /\ At(w, "idle")
  /\ Goto(w, "error")
  /\ UNCHANGED <<tableVars, poolVars, jobs, job, target, listing, stamp, historyVars>>

RowOf(i, p) == who[i] = p

\* AddAccount selects the row of the person, any one if there are several.
Look(w) ==
  /\ At(w, "look")
  /\ \/ \E i \in Rows :
          /\ RowOf(i, job[w].who)
          /\ target' = [target EXCEPT ![w] = i]
          /\ Goto(w, "update")
     \/ /\ \A i \in Rows : ~RowOf(i, job[w].who)
        /\ Goto(w, "insert")
        /\ UNCHANGED target
  /\ UNCHANGED <<tableVars, poolVars, jobs, job, listing, stamp, historyVars>>

Insert(w) ==
  /\ At(w, "insert")
  /\ \E i \in Ids \ minted :
       /\ minted' = minted \cup {i}
       /\ who' = [who EXCEPT ![i] = job[w].who]
       /\ on' = [on EXCEPT ![i] = TRUE]
       /\ target' = [target EXCEPT ![w] = i]
  /\ Goto(w, "read")
  /\ UNCHANGED <<poolVars, jobs, job, listing, stamp, historyVars>>

\* The row's token and name are set; neither is followed here.
Update(w) ==
  /\ At(w, "update")
  /\ Goto(w, "read")
  /\ UNCHANGED <<tableVars, poolVars, jobs, job, target, listing, stamp, historyVars>>

\* The row is read back, or is gone by now.
ReadBack(w) ==
  /\ At(w, "read")
  /\ Goto(w, IF target[w] \in Rows THEN "list" ELSE "error")
  /\ UNCHANGED <<tableVars, poolVars, jobs, job, target, listing, stamp, historyVars>>

\* handleAccountPatch and handleAccountDelete ask for the row first.
Check(w) ==
  /\ At(w, "check")
  /\ Goto(w, IF target[w] \in Rows THEN "write" ELSE "error")
  /\ UNCHANGED <<tableVars, poolVars, jobs, job, target, listing, stamp, historyVars>>

\* SetAccountEnabled and DeleteAccount; a row that is gone is not an error.
Write(w) ==
  /\ At(w, "write")
  /\ IF job[w].kind = "delete"
     THEN /\ who' = [who EXCEPT ![target[w]] = None]
          /\ on' = [on EXCEPT ![target[w]] = FALSE]
     ELSE /\ on' = [on EXCEPT ![target[w]] = target[w] \in Rows /\ job[w].kind = "enable"]
          /\ UNCHANGED who
  /\ Goto(w, "list")
  /\ UNCHANGED <<minted, poolVars, jobs, job, target, listing, stamp, historyVars>>

StatementFails(w) ==
  /\ DbMayFail
  /\ pc[w] \in {"look", "insert", "update", "read", "check", "write"}
  /\ Goto(w, "error")
  /\ unlisted' = (unlisted \/ At(w, "read"))
  /\ UNCHANGED <<tableVars, poolVars, jobs, job, target, listing, stamp, taken>>

-----------------------------------------------------------------------------
(* Reload.                                                                  *)

Listed == [i \in Ids |-> IF i \notin Rows THEN "absent" ELSE IF on[i] THEN "on" ELSE "off"]

\* ListAccounts, which holds no lock.
List(w) ==
  /\ At(w, "list")
  /\ listing' = [listing EXCEPT ![w] = Listed]
  /\ stamp' = [stamp EXCEPT ![w] = taken + 1]
  /\ taken' = taken + 1
  /\ unlisted' = FALSE
  /\ Goto(w, "apply")
  /\ UNCHANGED <<tableVars, poolVars, jobs, job, target>>

ListFails(w) ==
  /\ DbMayFail
  /\ At(w, "list")
  /\ unlisted' = TRUE
  /\ Goto(w, "error")
  /\ UNCHANGED <<tableVars, poolVars, jobs, job, target, listing, stamp, taken>>

\* Mutant: entries that the listing does not have stay.
KeepUnlisted(w) ==
  [i \in Ids |-> IF listing[w][i] = "absent" THEN entry[i] ELSE listing[w][i]]

Reloaded(w) == listing[w]

Clear(w) ==
  /\ listing' = [listing EXCEPT ![w] = Nothing]
  /\ stamp' = [stamp EXCEPT ![w] = 0]

Apply(w) ==
  /\ At(w, "apply")
  /\ entry' = Reloaded(w)
  /\ shown' = stamp[w]
  /\ Clear(w)
  /\ Goto(w, "ok")
  /\ UNCHANGED <<tableVars, jobs, job, target, historyVars>>

\* newClient fails on a new row: the rows before it were applied, nothing is
\* removed.
ApplyFails(w) ==
  /\ NewMayFail
  /\ At(w, "apply")
  /\ \E bad \in Ids, before \in SUBSET Ids :
       /\ listing[w][bad] # "absent" /\ entry[bad] = "absent" /\ bad \notin before
       /\ \A i \in before : listing[w][i] # "absent"
       /\ entry' = [i \in Ids |-> IF i \in before THEN listing[w][i] ELSE entry[i]]
  /\ shown' = 0
  /\ Clear(w)
  /\ Goto(w, "error")
  /\ UNCHANGED <<tableVars, jobs, job, target, historyVars>>

\* The handler answers.
Answer(w) ==
  /\ pc[w] \in {"ok", "error"}
  /\ Goto(w, "idle")
  /\ job' = [job EXCEPT ![w] = NoJob]
  /\ target' = [target EXCEPT ![w] = None]
  /\ UNCHANGED <<tableVars, poolVars, jobs, listing, stamp, historyVars>>

Working(w) ==
  \/ Look(w) \/ Insert(w) \/ Update(w) \/ ReadBack(w)
  \/ Check(w) \/ Write(w) \/ StatementFails(w)
  \/ List(w) \/ ListFails(w) \/ Apply(w) \/ ApplyFails(w)

Next ==
  \E w \in Workers : (\E j \in Jobs : Begin(w, j)) \/ Refuse(w) \/ Working(w) \/ Answer(w)

Spec == Init /\ [][Next]_vars

-----------------------------------------------------------------------------
(* Properties.                                                              *)

AllIdle == \A w \in Workers : At(w, "idle")

\* The pool parts from the table only when two listings are applied in the
\* reverse of the order they were taken in, or when a reload fails: otherwise,
\* once everybody has answered, the entries are the rows.
PoolFollowsTable ==
  AllIdle /\ shown = taken /\ ~unlisted => entry = Listed

\* store.go:143, adding an account is idempotent: a person has one row.
OneRowPerPerson == \A i, j \in Rows : who[i] = who[j] => i = j
=============================================================================
