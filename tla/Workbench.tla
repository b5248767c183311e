----------------------------- MODULE Workbench -----------------------------
(***************************************************************************)
(* The desktop companion's management of the gateway process:                 *)
(* workbench/service.go, with the process checks of platform_windows.go and   *)
(* the start and end of main.go.  A workbench starts and stops the gateway    *)
(* through a record on disk (process id, creation time, port); both processes *)
(* live on without the other.  Process ids are given out again, and programs  *)
(* of others come, take ports and go at any moment.  Several workbenches may  *)
(* run over one deployment (-addr); serviceMu orders only those of one.       *)
(*                                                                         *)
(* A process's creation time is a number of its own.  "ours" is the           *)
(* executable of this deployment, whoever runs it.                            *)
(***************************************************************************)
EXTENDS Integers, FiniteSets

CONSTANTS
  Benches,  \* workbench processes of one deployment
  Pids,     \* process ids
  Ports,    \* -gateway-port
  None,
  MaxBorn   \* bound: processes ever created

ASSUME WorkbenchAssumption ==
  /\ IsFiniteSet(Benches) /\ IsFiniteSet(Pids) /\ IsFiniteSet(Ports)
  /\ None \notin Benches \cup Pids \cup Ports
  /\ MaxBorn \in Nat

VARIABLES
  proc,     \* what runs under a process id
  listens,  \* the process that has bound a port
  up,       \* processes whose /health answers as a gateway's does
  born,     \* processes created so far
  record,   \* data/gateway-process.json
  open,     \* a running workbench's gateway port; None: it does not run
  op,       \* the operation that holds its serviceMu
  pc,       \* where that operation is
  rec,      \* its processRecord: the child's, or the one it read
  login,    \* adminCookie holds sessionMu while it logs in to the gateway
  started,  \* history: creation times of processes that workbenches started
  killed,   \* history: creation times of processes that they terminated
  loose,    \* history: a workbench went between start and record, or two
            \* operated at once
  misread   \* history: a start went past a gateway of the deployment because
            \* the record could not be read or the system did not answer

systemVars == <<proc, listens, up, born>>
benchVars == <<open, op, pc, rec, login>>
historyVars == <<started, killed, loose, misread>>
vars == <<systemVars, record, benchVars, historyVars>>

NoProc == [exe |-> "none"]
NoRecord == [none |-> TRUE]
Processes == [born : 1 .. MaxBorn, exe : {"ours", "other"}, port : Ports \cup {None}]
Records == [pid : Pids, born : 1 .. MaxBorn, port : Ports]
Ops == {"start", "stop", "restart", "quit"}
Places == {"idle", "survey", "owned", "probe", "spawn", "write", "wait",
           "stop", "check", "kill", "remove", "session"}

TypeOK ==
  /\ proc \in [Pids -> Processes \cup {NoProc}]
  /\ listens \in [Ports -> Pids \cup {None}]
  /\ up \in SUBSET Pids
  /\ born \in 0 .. MaxBorn
  /\ record \in Records \cup {NoRecord}
  /\ open \in [Benches -> Ports \cup {None}]
  /\ op \in [Benches -> Ops \cup {None}]
  /\ pc \in [Benches -> Places]
  /\ rec \in [Benches -> Records \cup {NoRecord}]
  /\ started \in SUBSET (1 .. MaxBorn)
  /\ killed \in SUBSET (1 .. MaxBorn)
  /\ login \in [Benches -> BOOLEAN]
  /\ loose \in BOOLEAN
  /\ misread \in BOOLEAN

Init ==
  /\ proc = [p \in Pids |-> NoProc]
  /\ listens = [q \in Ports |-> None]
  /\ up = {}
  /\ born = 0
  /\ record = NoRecord
  /\ open = [b \in Benches |-> None]
  /\ op = [b \in Benches |-> None]
  /\ pc = [b \in Benches |-> "idle"]
  /\ rec = [b \in Benches |-> NoRecord]
  /\ started = {}
  /\ killed = {}
  /\ login = [b \in Benches |-> FALSE]
  /\ loose = FALSE
  /\ misread = FALSE

-----------------------------------------------------------------------------
(* Processes.                                                               *)

Alive == {p \in Pids : proc[p] # NoProc}

\* An id is not given out while a handle keeps it: exec.Cmd has one until it
\* has waited for the child.
Unused == {p \in Pids \ Alive : \A b \in Benches : pc[b] = "write" => rec[b].pid # p}

Gone(p) ==
  /\ proc' = [proc EXCEPT ![p] = NoProc]
  /\ listens' = [q \in Ports |-> IF listens[q] = p THEN None ELSE listens[q]]
  /\ up' = up \ {p}

Create(p, exe, port) ==
  /\ p \in Unused /\ born < MaxBorn
  /\ born' = born + 1
  /\ proc' = [proc EXCEPT ![p] = [born |-> born + 1, exe |-> exe, port |-> port]]
  /\ UNCHANGED <<listens, up>>

\* Somebody else starts a program, or this deployment's gateway by hand.
Stranger ==
  /\ \E p \in Pids, exe \in {"ours", "other"}, port \in Ports \cup {None} : Create(p, exe, port)
  /\ UNCHANGED <<record, benchVars, historyVars>>

\* A process binds its port, and may or may not come to answer; a gateway
\* that finds the port taken ends.
Bind(p) ==
  /\ p \in Alive /\ proc[p].port # None
  /\ listens[proc[p].port] # p
  /\ IF listens[proc[p].port] = None
     THEN /\ listens' = [listens EXCEPT ![proc[p].port] = p]
          /\ up' \in {up, up \cup {p}}
          /\ UNCHANGED proc
     ELSE Gone(p)
  /\ UNCHANGED <<born, record, benchVars, historyVars>>

Exit(p) ==
  /\ p \in Alive
  /\ Gone(p)
  /\ UNCHANGED <<born, record, benchVars, historyVars>>

\* Mutant: the process is known by its id alone.
SameId(r) == TRUE

SameProcess(r) == proc[r.pid].born = r.born /\ proc[r.pid].exe = "ours"

\* ownedProcess: all questions go to one handle, so the process that is
\* recognised is the one that is terminated.  This is the answer when every
\* call of the system succeeds; it is no when one does not.
OwnedProcess(r) == r # NoRecord /\ r.pid \in Alive /\ SameProcess(r)

IsOwned(b) == OwnedProcess(record) /\ record.port = open[b]

Healthy(b) == listens[open[b]] \in up

-----------------------------------------------------------------------------
(* A workbench's life.                                                      *)

Busy(b) == pc[b] # "idle"

Goto(b, there) == pc' = [pc EXCEPT ![b] = there]

FirstStep(o) == IF o = "start" THEN "survey" ELSE "stop"

Begin(b, o) ==
  /\ op' = [op EXCEPT ![b] = o]
  /\ Goto(b, FirstStep(o))
  /\ loose' = (loose \/ \E c \in Benches \ {b} : Busy(c))

\* -autostart or not.
Open(b) ==
  /\ open[b] = None
  /\ \E port \in Ports : open' = [open EXCEPT ![b] = port]
  /\ Begin(b, "start") \/ UNCHANGED <<op, pc, loose>>
  /\ UNCHANGED <<systemVars, record, rec, login, started, killed, misread>>

\* handleService takes serviceMu.
Request(b, o) ==
  /\ open[b] # None /\ ~Busy(b)
  /\ Begin(b, o)
  /\ UNCHANGED <<systemVars, record, open, rec, login, started, killed, misread>>

\* adminCookie, for a request of the page that finds no session: it has the
\* mutex until the gateway has answered or the client's 40s have passed.
LoginBegins(b) ==
  /\ open[b] # None /\ ~login[b]
  /\ login' = [login EXCEPT ![b] = TRUE]
  /\ UNCHANGED <<systemVars, record, open, op, pc, rec, historyVars>>

LoginEnds(b) ==
  /\ login[b]
  /\ login' = [login EXCEPT ![b] = FALSE]
  /\ UNCHANGED <<systemVars, record, open, op, pc, rec, historyVars>>

Done(b) ==
  /\ Goto(b, "idle")
  /\ op' = [op EXCEPT ![b] = None]
  /\ rec' = [rec EXCEPT ![b] = NoRecord]

Leave(b) ==
  /\ open' = [open EXCEPT ![b] = None]
  /\ login' = [login EXCEPT ![b] = FALSE]

\* The window is closed, or the workbench crashes, amid an operation or not.
Close(b) ==
  /\ open[b] # None
  /\ Leave(b)
  /\ Done(b)
  /\ loose' = (loose \/ pc[b] = "write")
  /\ UNCHANGED <<systemVars, record, started, killed, misread>>

-----------------------------------------------------------------------------
(* startLocked.                                                             *)

\* Mutant: a gateway on another port is not looked for.
NeverElsewhere(b) == FALSE

Elsewhere(b) == OwnedProcess(record) /\ record.port # open[b]

\* A gateway of this deployment that runs on another port ends the operation.
\* It is missed when the record cannot be read or parsed, or a question about
\* the process fails: record and ownedProcess drop these errors.
Survey(b) ==
  /\ pc[b] = "survey"
  /\ \/ Elsewhere(b) /\ Done(b) /\ UNCHANGED misread
     \/ /\ Goto(b, "owned")
        /\ misread' = (misread \/ Elsewhere(b))
        /\ UNCHANGED <<op, rec>>
  /\ UNCHANGED <<systemVars, record, open, login, started, killed, loose>>

\* One that runs on this port ends it, well or not, and may be missed, too.
CheckOwned(b) ==
  /\ pc[b] = "owned"
  /\ \/ IsOwned(b) /\ Done(b) /\ UNCHANGED misread
     \/ /\ Goto(b, "probe")
        /\ misread' = (misread \/ IsOwned(b))
        /\ UNCHANGED <<op, rec>>
  /\ UNCHANGED <<systemVars, record, open, login, started, killed, loose>>

\* The port is bound for a moment to see that it is free.
Probe(b) ==
  /\ pc[b] = "probe"
  /\ IF listens[open[b]] = None
     THEN Goto(b, "spawn") /\ UNCHANGED <<op, rec>>
     ELSE Done(b)
  /\ UNCHANGED <<systemVars, record, open, login, historyVars>>

\* Mutant: the record does not say the port.
ChildWithoutPort(b, p) == [pid |-> p, born |-> born + 1, port |-> None]

Child(b, p) == [pid |-> p, born |-> born + 1, port |-> open[b]]

Spawn(b) ==
  /\ pc[b] = "spawn"
  /\ \/ \E p \in Pids :
          /\ Create(p, "ours", open[b])
          /\ rec' = [rec EXCEPT ![b] = Child(b, p)]
          /\ started' = started \cup {born + 1}
          /\ Goto(b, "write")
          /\ UNCHANGED op
     \/ Done(b) /\ UNCHANGED <<systemVars, started>>  \* the log or the program cannot be opened
  /\ UNCHANGED <<record, open, login, killed, loose, misread>>

WriteRecord(b) ==
  /\ pc[b] = "write"
  /\ record' = rec[b]
  /\ Goto(b, "wait")
  /\ UNCHANGED <<systemVars, open, op, rec, login, historyVars>>

\* inspectProcess or WriteFile fails: the child is killed through the handle
\* that exec.Cmd has; WriteFile may have emptied the file.
WriteFails(b) ==
  /\ pc[b] = "write"
  /\ record' \in {record, NoRecord}
  /\ IF OwnedProcess(rec[b])
     THEN Gone(rec[b].pid) /\ killed' = killed \cup {rec[b].born}
     ELSE UNCHANGED <<proc, listens, up, killed>>
  /\ Done(b)
  /\ UNCHANGED <<born, open, login, started, loose, misread>>

\* It answers, it is gone, or 15 seconds have passed.
Wait(b) ==
  /\ pc[b] = "wait"
  /\ Done(b)
  /\ UNCHANGED <<systemVars, record, open, login, historyVars>>

-----------------------------------------------------------------------------
(* stopLocked.                                                              *)

\* What follows a stop: restart goes on to startLocked, quit shuts down.
Stopped(b) ==
  \/ /\ op[b] = "restart"
     /\ Goto(b, "survey")
     /\ rec' = [rec EXCEPT ![b] = NoRecord]
     /\ UNCHANGED <<open, login, op>>
  \/ op[b] = "quit" /\ Done(b) /\ Leave(b)
  \/ op[b] = "stop" /\ Done(b) /\ UNCHANGED <<open, login>>

\* The record that is to be acted on is read first, if it can be read.
Stop(b) ==
  /\ pc[b] = "stop"
  /\ \E seen \in {record, NoRecord} : rec' = [rec EXCEPT ![b] = seen]
  /\ Goto(b, "check")
  /\ UNCHANGED <<systemVars, record, open, op, login, historyVars>>

\* isOwned reads it again.  What is not owned, or does not look so, is refused
\* if it answers, and taken to be stopped if it does not or not in time.
CheckStop(b) ==
  /\ pc[b] = "check"
  /\ \/ IsOwned(b) /\ Goto(b, "kill") /\ UNCHANGED <<open, op, rec, login>>
     \/ Healthy(b) /\ Done(b) /\ UNCHANGED <<open, login>>
     \/ Stopped(b)
  /\ UNCHANGED <<systemVars, record, historyVars>>

\* TerminateProcess; it fails if the process is another by now or may not be
\* opened.  The five seconds it is given to end are taken to be enough.
Kill(b) ==
  /\ pc[b] = "kill"
  /\ \/ /\ OwnedProcess(rec[b])
        /\ Gone(rec[b].pid)
        /\ killed' = killed \cup {proc[rec[b].pid].born}
        /\ Goto(b, "remove")
        /\ UNCHANGED <<op, rec>>
     \/ Done(b) /\ UNCHANGED <<proc, listens, up, killed>>
  /\ UNCHANGED <<born, record, open, login, started, loose, misread>>

\* An error of os.Remove is not looked at.
RemoveRecord(b) ==
  /\ pc[b] = "remove"
  /\ record' \in {record, NoRecord}
  /\ Goto(b, "session")
  /\ UNCHANGED <<systemVars, open, op, rec, login, historyVars>>

\* The session with the gateway is dropped, under sessionMu.
ClearSession(b) ==
  /\ pc[b] = "session"
  /\ ~login[b]
  /\ Stopped(b)
  /\ UNCHANGED <<systemVars, record, historyVars>>

Step(b) ==
  \/ Survey(b) \/ CheckOwned(b) \/ Probe(b) \/ Spawn(b)
  \/ WriteRecord(b) \/ WriteFails(b) \/ Wait(b)
  \/ Stop(b) \/ CheckStop(b) \/ Kill(b) \/ RemoveRecord(b) \/ ClearSession(b)

Next ==
  \/ Stranger
  \/ \E p \in Pids : Bind(p) \/ Exit(p)
  \/ \E b \in Benches : 
       \/ Open(b) \/ Close(b) \/ Step(b) \/ LoginBegins(b) \/ LoginEnds(b)
       \/ \E o \in Ops : Request(b, o)

Spec == Init /\ [][Next]_vars

\* The goroutine that holds serviceMu runs; a login has the client's time limit
\* (main.go:107), and a sync.Mutex that is freed again and again is had at last.
FairSpec ==
  /\ Spec
  /\ \A b \in Benches :
       WF_vars(Step(b)) /\ SF_vars(ClearSession(b)) /\ WF_vars(LoginEnds(b))

-----------------------------------------------------------------------------
(* Properties.                                                              *)

\* WORKBENCH.md:54: whatever ids are given out again, and however the record
\* has gone stale, only processes that a workbench started are terminated.
KillsOnlyOwn == killed \subseteq started

StartedByUs == {p \in Alive : proc[p].born \in started}

RecordOf(p, port) == [pid |-> p, born |-> proc[p].born, port |-> port]

\* A gateway that a workbench started stays in the record, or is about to be
\* written there, so that any later workbench can find and stop it: through
\* crashes of either, changes of port, failing writes, and stale records.  The
\* exceptions are a workbench that goes between the start of the gateway and
\* the record, two workbenches that operate at once, and a start that could not
\* read of the gateway that runs or was not told that it does.
KeepsTrack ==
  ~loose /\ ~misread =>
    \A p \in StartedByUs :
      \/ record = RecordOf(p, proc[p].port)
      \/ \E b \in Benches : pc[b] = "write" /\ rec[b] = RecordOf(p, proc[p].port)

\* With the same three exceptions, no second gateway is started on the
\* deployment's database, on whatever port.
OneGateway == ~loose /\ ~misread => Cardinality(StartedByUs) <= 1

\* service.go:63, a process of another deployment is never reused because of its
\* port: what a start takes for its gateway's answer comes from no such process.
AnswerIsOwn ==
  [][\A b \in Benches :
       Wait(b) /\ Healthy(b) => proc[listens[open[b]]].exe = "ours"]_vars

\* An operation ends, so serviceMu is free again for the next, although stopLocked
\* waits for sessionMu with serviceMu in hand.
OperationEnds == \A b \in Benches : Busy(b) ~> ~Busy(b)
=============================================================================
